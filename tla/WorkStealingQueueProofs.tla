----------------------- MODULE WorkStealingQueueProofs -----------------------
(***************************************************************************)
(* The work-stealing queue is a deque, for every number of thieves, every  *)
(* size of the ring and every set of values.                               *)
(***************************************************************************)
EXTENDS WorkStealingQueue, SequenceTheorems, TLAPS

-----------------------------------------------------------------------------
(***************************************************************************)
(* The ring.                                                               *)
(***************************************************************************)

\* Two numbers less than S apart have different remainders.
LEMMA ModApart ==
  ASSUME NEW S \in Nat \ {0}, NEW i \in Nat, NEW j \in Nat, i < j, j - i < S
  PROVE  i % S # j % S
<1> DEFINE a == i \div S
           b == j \div S
<1>1. /\ a \in Int /\ b \in Int
      /\ i % S \in 0 .. S - 1
  OBVIOUS
<1>2. i = S * a + (i % S) /\ j = S * b + (j % S)
  OBVIOUS
<1>3. SUFFICES ASSUME i % S = j % S PROVE FALSE
  OBVIOUS
<1> HIDE DEF a, b
<1>4. j - i = S * b - S * a
  BY <1>1, <1>2, <1>3
<1>5. CASE b <= a
  <2>1. S * b <= S * a
    BY <1>1, <1>5
  <2> QED BY <1>1, <1>4, <2>1
<1>6. CASE b >= a + 1
  <2>1. S * b >= S * (a + 1) /\ S * (a + 1) = S * a + S
    BY <1>1, <1>6
  <2> QED BY <1>1, <1>4, <2>1
<1> QED BY <1>1, <1>5, <1>6

\* The slots of a ring that is never filled are different (lines 57, 78, 95).
LEMMA SlotApart ==
  ASSUME NEW i \in Nat, NEW j \in Nat, i # j, i - j <= Mask, j - i <= Mask
  PROVE  Slot(i) # Slot(j)
<1>1. Slots \in Nat \ {0} /\ Mask \in Nat
  BY QueueAssumption DEF Slots
<1>2. CASE i < j
  <2>1. j - i < Slots
    BY <1>1 DEF Slots
  <2> QED BY <1>1, <1>2, <2>1, ModApart DEF Slot
<1>3. CASE j < i
  <2>1. i - j < Slots
    BY <1>1 DEF Slots
  <2> QED BY <1>1, <1>3, <2>1, ModApart DEF Slot
<1> QED BY <1>2, <1>3

LEMMA SlotType ==
  ASSUME NEW i \in Nat
  PROVE  Slot(i) \in 0 .. Mask
BY QueueAssumption DEF Slot, Slots

-----------------------------------------------------------------------------
(***************************************************************************)
(* The invariant is inductive.                                             *)
(***************************************************************************)

LEMMA TopType ==
  ASSUME TypeOK
  PROVE  Top \in Nat
BY DEF TypeOK, Top

LEMMA InitQueue == Init => QueueInv
<1> SUFFICES ASSUME Init PROVE QueueInv
  OBVIOUS
<1>1. TypeOK
  BY DEF Init, TypeOK
<1>2. Top = 0 /\ tail = 0
  BY DEF Init, Top
<1>3. RoomInv /\ OwnerInv /\ ThiefInv /\ FilledInv
  BY <1>2, QueueAssumption DEF Init, RoomInv, OwnerInv, ThiefInv, FilledInv
<1> QED BY <1>1, <1>3 DEF QueueInv

\* push_back.
LEMMA PushLookKeeps ==
  ASSUME QueueInv, NEW v \in Values, PushLook(v)
  PROVE  QueueInv'
<1>1. TypeOK /\ RoomInv /\ OwnerInv /\ ThiefInv /\ FilledInv /\ own.at = "idle"
  BY DEF QueueInv, PushLook
<1>2. /\ head' = head /\ tail' = tail /\ array' = array /\ thief' = thief
      /\ put' = put /\ taken' = taken
      /\ v \in Values \ put
      /\ own' = own \/ (own' = [at |-> "write", h |-> head, val |-> v] /\ head - tail # Mask)
  BY DEF PushLook
<1>3. Top' = Top /\ Top = head
  BY <1>1, <1>2 DEF Top
<1>4. TypeOK'
  BY <1>1, <1>2 DEF TypeOK
<1>5. RoomInv' /\ FilledInv' /\ ThiefInv'
  BY <1>1, <1>2, <1>3 DEF RoomInv, FilledInv, ThiefInv, Slot
<1>6. OwnerInv'
  BY <1>1, <1>2, <1>3, QueueAssumption DEF OwnerInv, RoomInv, TypeOK, Slot
<1> QED BY <1>4, <1>5, <1>6 DEF QueueInv

LEMMA PushWriteKeeps ==
  ASSUME QueueInv, PushWrite
  PROVE  /\ QueueInv'
         /\ \A i \in tail .. Top - 1 : array'[Slot(i)] = array[Slot(i)]
         /\ Top' = Top
<1>1. TypeOK /\ RoomInv /\ OwnerInv /\ ThiefInv /\ FilledInv /\ own.at = "write"
  BY DEF QueueInv, PushWrite
<1>2. /\ head' = head /\ tail' = tail /\ thief' = thief /\ put' = put /\ taken' = taken
      /\ array' = [array EXCEPT ![Slot(own.h)] = own.val]
      /\ own' = [own EXCEPT !.at = "publish"]
  BY DEF PushWrite
<1>3. Top' = Top /\ Top = head
  BY <1>1, <1>2 DEF Top, TypeOK
<1>4. own.h = head /\ head - tail < Mask /\ own.val \in Values \ put
  BY <1>1 DEF OwnerInv
<1>5. ASSUME NEW i \in tail .. Top - 1 PROVE array'[Slot(i)] = array[Slot(i)]
  <2>1. i \in Nat /\ head \in Nat /\ i # head /\ i - head <= Mask /\ head - i <= Mask
    BY <1>1, <1>3, <1>4, <1>5, QueueAssumption DEF TypeOK
  <2>2. Slot(i) # Slot(head) /\ Slot(i) \in 0 .. Mask
    BY <2>1, SlotApart, SlotType
  <2> QED BY <2>2, <1>1, <1>2, <1>4 DEF TypeOK
<1>6. Slot(head) \in 0 .. Mask
  BY <1>1, SlotType DEF TypeOK
<1>7. TypeOK'
  BY <1>1, <1>2, <1>4 DEF TypeOK
<1>8. RoomInv' /\ FilledInv'
  BY <1>1, <1>2, <1>3, <1>5 DEF RoomInv, FilledInv
<1>9. OwnerInv'
  BY <1>1, <1>2, <1>4, <1>6 DEF OwnerInv, TypeOK
<1>10. ThiefInv'
  <2>1. tail < Top => array'[Slot(tail)] = array[Slot(tail)]
    BY <1>1, <1>3, <1>5 DEF TypeOK
  <2> QED BY <1>1, <1>2, <1>3, <2>1 DEF ThiefInv
<1> QED BY <1>3, <1>5, <1>7, <1>8, <1>9, <1>10 DEF QueueInv

LEMMA PushPublishKeeps ==
  ASSUME QueueInv, PushPublish
  PROVE  QueueInv'
<1>1. TypeOK /\ RoomInv /\ OwnerInv /\ ThiefInv /\ FilledInv /\ own.at = "publish"
  BY DEF QueueInv, PushPublish
<1>2. /\ tail' = tail /\ array' = array /\ thief' = thief /\ taken' = taken
      /\ head' = own.h + 1 /\ put' = put \cup {own.val}
      /\ own' = [own EXCEPT !.at = "idle"]
  BY DEF PushPublish
<1>3. Top = head /\ Top' = head + 1 /\ own.h = head
  BY <1>1, <1>2 DEF Top, TypeOK, OwnerInv
<1>4. head - tail < Mask /\ own.val \in Values \ put /\ array[Slot(head)] = own.val
  BY <1>1, <1>3 DEF OwnerInv
<1>5. TypeOK'
  BY <1>1, <1>2, <1>3, <1>4 DEF TypeOK
<1>6. RoomInv'
  BY <1>1, <1>2, <1>3, <1>4, QueueAssumption DEF RoomInv, TypeOK
<1>7. FilledInv'
  <2>1. ASSUME NEW i \in tail .. head PROVE array[Slot(i)] \in Values
    <3>1. i = head \/ i \in tail .. head - 1
      BY <1>1 DEF TypeOK
    <3> QED BY <3>1, <1>1, <1>3, <1>4 DEF FilledInv
  <2>2. Top' - 1 = head
    BY <1>1, <1>3 DEF TypeOK
  <2> QED BY <2>1, <2>2, <1>2 DEF FilledInv
<1>8. OwnerInv'
  BY <1>1, <1>2 DEF OwnerInv, TypeOK
<1>9. ThiefInv'
  BY <1>1, <1>2, <1>3 DEF ThiefInv, TypeOK
<1> QED BY <1>5, <1>6, <1>7, <1>8, <1>9 DEF QueueInv

\* pop.
LEMMA PopStartKeeps ==
  ASSUME QueueInv, PopStart
  PROVE  QueueInv' /\ Top' = Top
<1>1. TypeOK /\ RoomInv /\ OwnerInv /\ ThiefInv /\ FilledInv /\ own.at = "idle"
  BY DEF QueueInv, PopStart
<1>2. /\ head' = head /\ tail' = tail /\ array' = array /\ thief' = thief
      /\ put' = put /\ taken' = taken
      /\ \/ head <= tail /\ own' = [own EXCEPT !.at = "reset"]
         \/ head > tail /\ own' = [own EXCEPT !.at = "lower", !.h = head - 1]
  BY <1>1 DEF PopStart, TypeOK
<1>3. Top = head /\ (head <= tail => tail = head)
  BY <1>1 DEF Top, TypeOK, RoomInv
<1>4. \/ head = tail /\ own' = [at |-> "reset", h |-> own.h, val |-> own.val]
      \/ head - 1 \in Nat /\ own' = [at |-> "lower", h |-> head - 1, val |-> own.val]
  <2>1. CASE head <= tail /\ own' = [own EXCEPT !.at = "reset"]
    BY <1>1, <1>3, <2>1 DEF TypeOK
  <2>2. CASE head > tail /\ own' = [own EXCEPT !.at = "lower", !.h = head - 1]
    <3>1. head - 1 \in Nat
      BY <1>1, <2>2 DEF TypeOK
    <3>2. own' = [at |-> "lower", h |-> head - 1, val |-> own.val]
      BY <1>1, <2>2 DEF TypeOK
    <3> QED BY <3>1, <3>2
  <2> QED BY <1>2, <2>1, <2>2
<1>5. Top' = head
  <2>1. CASE head = tail /\ own'.at = "reset"
    BY <1>2, <2>1 DEF Top
  <2>2. CASE own'.at = "lower"
    BY <1>2, <2>2 DEF Top
  <2> QED BY <1>4, <2>1, <2>2
<1>6. TypeOK'
  BY <1>1, <1>2, <1>4 DEF TypeOK
<1>7. RoomInv' /\ FilledInv' /\ ThiefInv'
  BY <1>1, <1>2, <1>3, <1>5 DEF RoomInv, FilledInv, ThiefInv, Slot
<1>8. OwnerInv'
  BY <1>1, <1>2, <1>4 DEF OwnerInv, TypeOK
<1> QED BY <1>3, <1>5, <1>6, <1>7, <1>8 DEF QueueInv

LEMMA PopLowerKeeps ==
  ASSUME QueueInv, PopLower
  PROVE  QueueInv' /\ Top' = Top
<1>1. TypeOK /\ RoomInv /\ OwnerInv /\ ThiefInv /\ FilledInv /\ own.at = "lower"
  BY DEF QueueInv, PopLower
<1>2. /\ head' = own.h /\ tail' = tail /\ array' = array /\ thief' = thief
      /\ put' = put /\ taken' = taken
      /\ own' = [own EXCEPT !.at = "look"]
  BY DEF PopLower
<1>3. Top = head /\ Top' = head
  BY <1>1, <1>2 DEF Top, TypeOK, OwnerInv
<1>4. TypeOK'
  BY <1>1, <1>2 DEF TypeOK
<1>5. RoomInv' /\ FilledInv' /\ ThiefInv'
  BY <1>1, <1>2, <1>3 DEF RoomInv, FilledInv, ThiefInv, Slot
<1>6. OwnerInv'
  BY <1>1, <1>2 DEF OwnerInv, TypeOK
<1> QED BY <1>3, <1>4, <1>5, <1>6 DEF QueueInv

\* A pop that finds more than one value takes the last; the others only settle
\* what has been decided.
LEMMA PopLookKeeps ==
  ASSUME QueueInv, PopLook
  PROVE  /\ QueueInv'
         /\ \/ Top' = Top /\ taken' = taken
            \/ /\ tail < Top - 1 /\ Top' = Top - 1
               /\ taken' = Append(taken, array[Slot(Top - 1)])
<1>1. TypeOK /\ RoomInv /\ OwnerInv /\ ThiefInv /\ FilledInv /\ own.at = "look"
  BY DEF QueueInv, PopLook
<1>2. /\ head' = head /\ tail' = tail /\ array' = array /\ thief' = thief /\ put' = put
      /\ own.h = head /\ Top = head + 1
  BY <1>1 DEF PopLook, OwnerInv, Top
<1>3. CASE own.h < tail /\ own' = [own EXCEPT !.at = "reset"] /\ taken' = taken
  <2>1. Top' = Top
    BY <1>1, <1>2, <1>3 DEF Top, TypeOK, RoomInv
  <2>2. own' = [at |-> "reset", h |-> own.h, val |-> own.val]
    BY <1>1, <1>3 DEF TypeOK
  <2>3. TypeOK' /\ OwnerInv'
    <3>1. TypeOK'
      BY <1>1, <1>2, <1>3, <2>2 DEF TypeOK
    <3>2. OwnerInv'
      BY <1>1, <1>2, <1>3, <2>2 DEF TypeOK, OwnerInv
    <3> QED BY <3>1, <3>2
  <2>4. RoomInv' /\ FilledInv' /\ ThiefInv'
    BY <1>1, <1>2, <2>1 DEF RoomInv, FilledInv, ThiefInv, Slot
  <2> QED BY <1>3, <2>1, <2>3, <2>4 DEF QueueInv
<1>4. CASE own.h = tail /\ own' = [own EXCEPT !.at = "cas", !.val = array[Slot(own.h)]] /\ taken' = taken
  <2>1. Top' = Top
    BY <1>1, <1>2, <1>4 DEF Top, TypeOK
  <2>2. Slot(own.h) \in 0 .. Mask
    BY <1>1, SlotType DEF TypeOK
  <2>3. own' = [at |-> "cas", h |-> own.h, val |-> array[Slot(own.h)]]
    BY <1>1, <1>4 DEF TypeOK
  <2>4. TypeOK' /\ OwnerInv'
    <3>1. TypeOK'
      BY <1>1, <1>2, <1>4, <2>2, <2>3 DEF TypeOK
    <3>2. OwnerInv'
      BY <1>1, <1>2, <1>4, <2>3 DEF TypeOK, OwnerInv, Slot
    <3> QED BY <3>1, <3>2
  <2>5. RoomInv' /\ FilledInv' /\ ThiefInv'
    BY <1>1, <1>2, <2>1 DEF RoomInv, FilledInv, ThiefInv, Slot
  <2> QED BY <1>4, <2>1, <2>4, <2>5 DEF QueueInv
<1>5. CASE /\ own.h > tail /\ own' = [own EXCEPT !.at = "idle"]
           /\ taken' = Append(taken, array[Slot(own.h)])
  <2>1. Top' = head /\ tail < Top - 1 /\ Top - 1 = head
    BY <1>1, <1>2, <1>5 DEF Top, TypeOK
  <2>2. array[Slot(head)] \in Values
    BY <1>1, <1>2, <2>1 DEF FilledInv, TypeOK
  <2>3. own' = [at |-> "idle", h |-> own.h, val |-> own.val]
    BY <1>1, <1>5 DEF TypeOK
  <2>4. taken' \in Seq(Values)
    BY <1>1, <1>2, <1>5, <2>2 DEF TypeOK
  <2>5. TypeOK'
    BY <1>1, <1>2, <2>3, <2>4 DEF TypeOK
  <2>6. OwnerInv'
    BY <1>1, <1>2, <1>5 DEF TypeOK, OwnerInv
  <2>7. RoomInv' /\ FilledInv' /\ ThiefInv'
    BY <1>1, <1>2, <2>1, QueueAssumption DEF RoomInv, FilledInv, ThiefInv, Slot, TypeOK
  <2> QED BY <1>2, <1>5, <2>1, <2>5, <2>6, <2>7 DEF QueueInv
<1> QED BY <1>3, <1>4, <1>5 DEF PopLook

LEMMA PopCasKeeps ==
  ASSUME QueueInv, PopCas
  PROVE  /\ QueueInv'
         /\ \/ tail' = tail /\ Top' = Top /\ taken' = taken
            \/ /\ Top = tail + 1 /\ tail' = Top /\ Top' = Top
               /\ taken' = Append(taken, array[Slot(tail)])
<1>1. TypeOK /\ RoomInv /\ OwnerInv /\ ThiefInv /\ FilledInv /\ own.at = "cas"
  BY DEF QueueInv, PopCas
<1>2. /\ head' = head /\ array' = array /\ thief' = thief /\ put' = put
      /\ own' = [own EXCEPT !.at = "reset"]
      /\ own.h = head /\ Top = head + 1 /\ head <= tail /\ own.val = array[Slot(head)]
  BY <1>1 DEF PopCas, OwnerInv, Top
<1>3. CASE tail = own.h /\ tail' = own.h + 1 /\ taken' = Append(taken, own.val)
  <2>1. Top = tail + 1 /\ tail' = Top /\ Top' = Top
    BY <1>1, <1>2, <1>3 DEF Top, TypeOK
  <2>2. own.val \in Values
    BY <1>1, <1>2, <1>3, <2>1 DEF FilledInv, TypeOK
  <2>3. TypeOK'
    BY <1>1, <1>2, <1>3, <2>2, SMTT(30) DEF TypeOK
  <2>4. OwnerInv'
    BY <1>1, <1>2, <1>3 DEF TypeOK, OwnerInv
  <2>5. RoomInv' /\ FilledInv' /\ ThiefInv'
    BY <1>1, <1>2, <2>1, QueueAssumption DEF RoomInv, FilledInv, ThiefInv, Slot, TypeOK
  <2> QED BY <1>2, <1>3, <2>1, <2>3, <2>4, <2>5 DEF QueueInv
<1>4. CASE tail # own.h /\ tail' = tail /\ taken' = taken
  <2>1. Top' = Top
    BY <1>1, <1>2, <1>4 DEF Top, TypeOK, RoomInv
  <2>2. TypeOK' /\ OwnerInv'
    BY <1>1, <1>2, <1>4 DEF TypeOK, OwnerInv
  <2>3. RoomInv' /\ FilledInv' /\ ThiefInv'
    BY <1>1, <1>2, <1>4, <2>1 DEF RoomInv, FilledInv, ThiefInv, Slot
  <2> QED BY <1>4, <2>1, <2>2, <2>3 DEF QueueInv
<1> QED BY <1>3, <1>4 DEF PopCas

LEMMA PopResetKeeps ==
  ASSUME QueueInv, PopReset
  PROVE  QueueInv' /\ Top' = Top
<1>1. TypeOK /\ RoomInv /\ OwnerInv /\ ThiefInv /\ FilledInv /\ own.at = "reset"
  BY DEF QueueInv, PopReset
<1>2. /\ head' = tail /\ tail' = tail /\ array' = array /\ thief' = thief
      /\ put' = put /\ taken' = taken
      /\ own' = [own EXCEPT !.at = "idle"]
  BY DEF PopReset
<1>3. Top = tail /\ Top' = tail
  BY <1>1, <1>2 DEF Top, TypeOK
<1>4. TypeOK'
  BY <1>1, <1>2 DEF TypeOK
<1>5. RoomInv' /\ FilledInv' /\ ThiefInv'
  BY <1>1, <1>2, <1>3 DEF RoomInv, FilledInv, ThiefInv, Slot
<1>6. OwnerInv'
  BY <1>1, <1>2 DEF OwnerInv, TypeOK
<1> QED BY <1>3, <1>4, <1>5, <1>6 DEF QueueInv

\* steal.
LEMMA StealTailKeeps ==
  ASSUME QueueInv, NEW p \in Thieves, StealTail(p)
  PROVE  QueueInv' /\ Top' = Top
<1>1. TypeOK /\ RoomInv /\ OwnerInv /\ ThiefInv /\ FilledInv
  BY DEF QueueInv
<1>2. /\ head' = head /\ tail' = tail /\ array' = array /\ own' = own
      /\ put' = put /\ taken' = taken
      /\ thief' = [thief EXCEPT ![p].at = "size", ![p].t = tail]
  BY DEF StealTail
<1>3. Top' = Top
  BY <1>2 DEF Top
<1>4. TypeOK'
  BY <1>1, <1>2, ZenonT(60) DEF TypeOK
<1>5. RoomInv' /\ FilledInv' /\ OwnerInv'
  BY <1>1, <1>2, <1>3 DEF RoomInv, FilledInv, OwnerInv, Slot
<1>6. ThiefInv'
  BY <1>1, <1>2, <1>3 DEF ThiefInv, TypeOK
<1> QED BY <1>3, <1>4, <1>5, <1>6 DEF QueueInv

LEMMA StealSizeKeeps ==
  ASSUME QueueInv, NEW p \in Thieves, StealSize(p)
  PROVE  QueueInv' /\ Top' = Top
<1>1. TypeOK /\ RoomInv /\ OwnerInv /\ ThiefInv /\ FilledInv /\ thief[p].at = "size"
  BY DEF QueueInv, StealSize
<1>2. /\ head' = head /\ tail' = tail /\ array' = array /\ own' = own
      /\ put' = put /\ taken' = taken
      /\ \/ thief' = [thief EXCEPT ![p].at = "idle"]
         \/ head > thief[p].t /\ thief' = [thief EXCEPT ![p].at = "read"]
  <2>1. head \in Nat /\ thief[p].t \in Nat
    BY <1>1 DEF TypeOK
  <2>2. CASE head - thief[p].t <= 0
    BY <2>2 DEF StealSize
  <2>3. CASE ~ (head - thief[p].t <= 0)
    BY <2>1, <2>3 DEF StealSize
  <2> QED BY <2>2, <2>3 DEF StealSize
<1>3. Top' = Top
  BY <1>2 DEF Top
<1>4. TypeOK'
  <2>1. CASE thief' = [thief EXCEPT ![p].at = "idle"]
    BY <1>1, <1>2, <2>1 DEF TypeOK
  <2>2. CASE thief' = [thief EXCEPT ![p].at = "read"]
    BY <1>1, <1>2, <2>2 DEF TypeOK
  <2> QED BY <1>2, <2>1, <2>2
<1>5. RoomInv' /\ FilledInv' /\ OwnerInv'
  BY <1>1, <1>2, <1>3 DEF RoomInv, FilledInv, OwnerInv, Slot
<1>6. head > tail => tail < Top
  BY <1>1 DEF Top, TypeOK, OwnerInv
<1>7. ThiefInv'
  BY <1>1, <1>2, <1>3, <1>6 DEF ThiefInv, TypeOK
<1> QED BY <1>3, <1>4, <1>5, <1>7 DEF QueueInv

\* The slot at tail is never the one being written.
LEMMA StealReadKeeps ==
  ASSUME QueueInv, NEW p \in Thieves, StealRead(p)
  PROVE  QueueInv' /\ Top' = Top
<1> DEFINE s == Slot(thief[p].t)
<1>1. TypeOK /\ RoomInv /\ OwnerInv /\ ThiefInv /\ FilledInv /\ thief[p].at = "read"
  BY DEF QueueInv, StealRead
<1>2. /\ head' = head /\ tail' = tail /\ array' = array /\ own' = own
      /\ put' = put /\ taken' = taken
      /\ thief' = [thief EXCEPT ![p].at = "cas", ![p].val = IF Writing(s) THEN Torn ELSE array[s]]
  BY DEF StealRead
<1>3. Top' = Top
  BY <1>2 DEF Top
<1>4. s \in 0 .. Mask
  BY <1>1, SlotType DEF TypeOK
<1>5. thief[p].t = tail => ~ Writing(s)
  <2> SUFFICES ASSUME thief[p].t = tail, own.at = "write" PROVE Slot(own.h) # s
    BY DEF Writing
  <2>1. own.h = head /\ head - tail < Mask /\ Top = head /\ tail < Top
    BY <1>1 DEF OwnerInv, ThiefInv, Top
  <2>2. own.h \in Nat /\ tail \in Nat /\ own.h # tail /\ own.h - tail <= Mask /\ tail - own.h <= Mask
    BY <1>1, <2>1, QueueAssumption DEF TypeOK
  <2> QED BY <2>2, SlotApart
<1>6. TypeOK'
  BY <1>1, <1>2, <1>4, ZenonT(60) DEF TypeOK
<1>7. RoomInv' /\ FilledInv' /\ OwnerInv'
  BY <1>1, <1>2, <1>3 DEF RoomInv, FilledInv, OwnerInv, Slot
<1>8. ThiefInv'
  BY <1>1, <1>2, <1>3, <1>5 DEF ThiefInv, TypeOK
<1> QED BY <1>3, <1>6, <1>7, <1>8 DEF QueueInv

LEMMA StealCasKeeps ==
  ASSUME QueueInv, NEW p \in Thieves, StealCas(p)
  PROVE  /\ QueueInv'
         /\ Top' = Top
         /\ \/ tail' = tail /\ taken' = taken
            \/ /\ tail < Top /\ tail' = tail + 1
               /\ taken' = Append(taken, array[Slot(tail)])
<1>1. TypeOK /\ RoomInv /\ OwnerInv /\ ThiefInv /\ FilledInv /\ thief[p].at = "cas"
  BY DEF QueueInv, StealCas
<1>2. /\ head' = head /\ array' = array /\ own' = own /\ put' = put
      /\ thief' = [thief EXCEPT ![p].at = "idle"]
  BY DEF StealCas
<1>3. CASE tail = thief[p].t /\ tail' = thief[p].t + 1 /\ taken' = Append(taken, thief[p].val)
  <2>1. tail < Top /\ tail' = tail + 1 /\ thief[p].val = array[Slot(tail)]
    BY <1>1, <1>3 DEF ThiefInv
  <2>2. own.at # "reset" /\ Top' = Top
    BY <1>1, <1>2, <2>1 DEF Top, TypeOK
  <2>3. array[Slot(tail)] \in Values
    BY <1>1, <2>1, TopType DEF FilledInv, TypeOK
  <2>4. TypeOK'
    BY <1>1, <1>2, <1>3, <2>1, <2>3, SMTT(30) DEF TypeOK
  <2>5. OwnerInv'
    BY <1>1, <1>2, <2>1, <2>2, QueueAssumption DEF OwnerInv, TypeOK, Slot
  <2>6. RoomInv' /\ FilledInv'
    BY <1>1, <1>2, <2>1, <2>2, TopType, QueueAssumption DEF RoomInv, FilledInv, TypeOK, Slot
  <2>7. ThiefInv'
    BY <1>1, <1>2, <2>1, <2>2 DEF ThiefInv, TypeOK
  <2> QED BY <1>3, <2>1, <2>2, <2>4, <2>5, <2>6, <2>7 DEF QueueInv
<1>4. CASE tail # thief[p].t /\ tail' = tail /\ taken' = taken
  <2>1. Top' = Top
    BY <1>2, <1>4 DEF Top
  <2>2. TypeOK' /\ RoomInv' /\ FilledInv' /\ OwnerInv'
    BY <1>1, <1>2, <1>4, <2>1, SMTT(30) DEF TypeOK, RoomInv, FilledInv, OwnerInv, Slot
  <2>3. ThiefInv'
    BY <1>1, <1>2, <1>4, <2>1 DEF ThiefInv, TypeOK
  <2> QED BY <1>4, <2>1, <2>2, <2>3 DEF QueueInv
<1> QED BY <1>3, <1>4 DEF StealCas

-----------------------------------------------------------------------------
(***************************************************************************)
(* Seen from the contents there are four kinds of steps.                   *)
(***************************************************************************)

Quiet ==
  /\ UNCHANGED <<tail, Top, taken, put>>
  /\ \A i \in tail .. Top - 1 : array'[Slot(i)] = array[Slot(i)]

Published ==
  /\ UNCHANGED <<tail, array, taken>>
  /\ Top' = Top + 1
  /\ put' = put \cup {array[Slot(Top)]}

TakenInFront ==
  /\ tail < Top
  /\ UNCHANGED <<Top, array, put>>
  /\ tail' = tail + 1
  /\ taken' = Append(taken, array[Slot(tail)])

TakenBehind ==
  /\ tail < Top - 1
  /\ UNCHANGED <<tail, array, put>>
  /\ Top' = Top - 1
  /\ taken' = Append(taken, array[Slot(Top - 1)])

LEMMA StepKinds ==
  ASSUME QueueInv, [Next]_vars
  PROVE  Quiet \/ Published \/ TakenInFront \/ TakenBehind
<1>1. ASSUME NEW v \in Values, PushLook(v) PROVE Quiet
  <2>1. UNCHANGED <<head, tail, array, taken, put>> /\ own.at = "idle" /\ own'.at \in {"idle", "write"}
    BY <1>1 DEF PushLook
  <2> QED BY <2>1 DEF Top, Quiet
<1>2. ASSUME PushWrite PROVE Quiet
  BY <1>2, PushWriteKeeps DEF PushWrite, Quiet
<1>3. ASSUME PushPublish PROVE Published
  <2>1. own.at = "publish" /\ own \in [at : {"idle", "write", "publish", "lower", "look", "cas", "reset"},
                                       h : Nat, val : Values \cup {Nothing}]
    BY <1>3 DEF PushPublish, QueueInv, TypeOK
  <2>2. own.h = head /\ own.val = array[Slot(head)] /\ Top = head
    BY <2>1 DEF QueueInv, OwnerInv, Top
  <2> QED BY <1>3, <2>1, <2>2 DEF PushPublish, Top, Published
<1>4. ASSUME PopStart \/ PopLower \/ PopReset PROVE Quiet
  BY <1>4, PopStartKeeps, PopLowerKeeps, PopResetKeeps DEF PopStart, PopLower, PopReset, Quiet
<1>5. ASSUME PopLook PROVE Quiet \/ TakenBehind
  <2>1. UNCHANGED <<tail, array, put>>
    BY <1>5 DEF PopLook
  <2> QED BY <1>5, <2>1, PopLookKeeps DEF Quiet, TakenBehind
<1>6. ASSUME PopCas PROVE Quiet \/ TakenInFront
  <2>1. UNCHANGED <<array, put>>
    BY <1>6 DEF PopCas
  <2>2. tail \in Nat
    BY DEF QueueInv, TypeOK
  <2> QED BY <1>6, <2>1, <2>2, PopCasKeeps DEF Quiet, TakenInFront
<1>7. ASSUME NEW p \in Thieves, StealTail(p) \/ StealSize(p) \/ StealRead(p) PROVE Quiet
  BY <1>7, StealTailKeeps, StealSizeKeeps, StealReadKeeps DEF StealTail, StealSize, StealRead, Quiet
<1>8. ASSUME NEW p \in Thieves, StealCas(p) PROVE Quiet \/ TakenInFront
  <2>1. UNCHANGED <<array, put>>
    BY <1>8 DEF StealCas
  <2> QED BY <1>8, <2>1, StealCasKeeps DEF Quiet, TakenInFront
<1>9. CASE UNCHANGED vars
  BY <1>9 DEF vars, Top, Quiet
<1> QED BY <1>1, <1>2, <1>3, <1>4, <1>5, <1>6, <1>7, <1>8, <1>9 DEF Next, Push, Pop, Steal

\* The invariant holds in every state.
THEOREM DequeInvariant == Spec => []QueueInv
<1>1. QueueInv /\ [Next]_vars => QueueInv'
  <2> SUFFICES ASSUME QueueInv, [Next]_vars PROVE QueueInv'
    OBVIOUS
  <2>1. CASE Push
    BY <2>1, PushLookKeeps, PushWriteKeeps, PushPublishKeeps DEF Push
  <2>2. CASE Pop
    BY <2>2, PopStartKeeps, PopLowerKeeps, PopLookKeeps, PopCasKeeps, PopResetKeeps DEF Pop
  <2>3. CASE Steal
    BY <2>3, StealTailKeeps, StealSizeKeeps, StealReadKeeps, StealCasKeeps DEF Steal
  <2>4. CASE UNCHANGED vars
    BY <2>4 DEF vars, QueueInv, TypeOK, RoomInv, OwnerInv, ThiefInv, FilledInv, Top, Slot, Slots
  <2> QED BY <2>1, <2>2, <2>3, <2>4 DEF Next
<1> QED BY <1>1, InitQueue, PTL DEF Spec

-----------------------------------------------------------------------------
(***************************************************************************)
(* Refinement: what each step does to the contents.                        *)
(***************************************************************************)

LEMMA ContentsType ==
  ASSUME QueueInv
  PROVE  /\ Contents \in Seq(Values)
         /\ Len(Contents) = Top - tail
         /\ \A i \in 1 .. Top - tail : Contents[i] = array[Slot(tail + i - 1)]
<1>1. Top \in Nat /\ tail \in Nat /\ Top - tail \in Nat
  BY TopType DEF QueueInv, TypeOK, RoomInv
<1>2. ASSUME NEW i \in 1 .. Top - tail PROVE array[Slot(tail + i - 1)] \in Values
  <2>1. tail + i - 1 \in tail .. Top - 1
    BY <1>1
  <2> QED BY <2>1 DEF QueueInv, FilledInv
<1> QED BY <1>1, <1>2 DEF Contents

LEMMA ContentsSame ==
  ASSUME QueueInv, tail' = tail, Top' = Top,
         \A i \in tail .. Top - 1 : array'[Slot(i)] = array[Slot(i)]
  PROVE  Contents' = Contents
<1>1. Top \in Nat /\ tail \in Nat
  BY TopType DEF QueueInv, TypeOK
<1>2. ASSUME NEW i \in 1 .. Top - tail PROVE array'[Slot(tail + i - 1)] = array[Slot(tail + i - 1)]
  <2>1. tail + i - 1 \in tail .. Top - 1
    BY <1>1
  <2> QED BY <2>1
<1> QED BY <1>1, <1>2 DEF Contents, Slot

LEMMA ContentsAppended ==
  ASSUME QueueInv, QueueInv', tail' = tail, Top' = Top + 1, array' = array
  PROVE  Contents' = Append(Contents, array[Slot(Top)]) /\ array[Slot(Top)] \in Values
<1> DEFINE v == array[Slot(Top)]
<1>1. Top \in Nat /\ tail \in Nat /\ tail <= Top
  BY TopType DEF QueueInv, TypeOK, RoomInv
<1>2. v \in Values
  BY <1>1 DEF QueueInv, FilledInv, Slot
<1>3. /\ Contents \in Seq(Values) /\ Len(Contents) = Top - tail
      /\ \A i \in 1 .. Top - tail : Contents[i] = array[Slot(tail + i - 1)]
  BY ContentsType
<1>4. Contents' = [i \in 1 .. Top - tail + 1 |-> array[Slot(tail + i - 1)]]
  <2>1. Top' - tail' = Top - tail + 1
    BY <1>1
  <2>2. Contents' = [i \in 1 .. Top' - tail' |-> array[Slot(tail + i - 1)]]
    BY DEF Contents, Slot, Slots
  <2> HIDE DEF Contents
  <2> QED BY <2>1, <2>2, Zenon
<1> HIDE DEF v
<1>5. Append(Contents, v) = [i \in 1 .. Top - tail + 1 |-> IF i <= Top - tail THEN Contents[i] ELSE v]
  <2> DEFINE c == Contents
             t == Append(c, v)
             n == Top - tail
  <2>1. n \in Nat /\ c \in Seq(Values) /\ Len(c) = n
    BY <1>1, <1>3
  <2> HIDE DEF c, n
  <2>2. /\ t \in Seq(Values) /\ Len(t) = n + 1
        /\ \A i \in 1 .. n : t[i] = c[i]
        /\ t[n + 1] = v
    BY <1>2, <2>1, AppendProperties
  <2> HIDE DEF t
  <2>3. t \in [1 .. n + 1 -> Values]
    BY <2>2, LenProperties
  <2>4. t = [i \in 1 .. n + 1 |-> IF i <= n THEN c[i] ELSE v]
    BY <2>1, <2>2, <2>3
  <2> QED BY <2>4 DEF t, c, n
<1>6. ASSUME NEW i \in 1 .. Top - tail + 1
      PROVE  (IF i <= Top - tail THEN Contents[i] ELSE v) = array[Slot(tail + i - 1)]
  <2>1. CASE i <= Top - tail
    BY <1>1, <1>3, <2>1
  <2>2. CASE i = Top - tail + 1
    <3>1. tail + i - 1 = Top /\ ~ (i <= Top - tail)
      BY <1>1, <2>2
    <3> QED BY <3>1 DEF v
  <2> QED BY <1>1, <2>1, <2>2
<1> QED BY <1>2, <1>4, <1>5, <1>6 DEF v

LEMMA ContentsFront ==
  ASSUME QueueInv, tail' = tail + 1, Top' = Top, tail < Top, array' = array
  PROVE  /\ Contents # <<>> /\ Contents[1] = array[Slot(tail)]
         /\ Contents' = Tail(Contents)
<1>1. Top \in Nat /\ tail \in Nat
  BY TopType DEF QueueInv, TypeOK
<1>2. /\ Contents \in Seq(Values) /\ Len(Contents) = Top - tail
      /\ \A i \in 1 .. Top - tail : Contents[i] = array[Slot(tail + i - 1)]
  BY ContentsType
<1>3. Contents # <<>> /\ Contents[1] = array[Slot(tail)]
  <2>1. 1 \in 1 .. Top - tail /\ tail + 1 - 1 = tail
    BY <1>1
  <2> QED BY <1>1, <1>2, <2>1
<1>4. Contents' = [i \in 1 .. Top - tail - 1 |-> array[Slot(tail + 1 + i - 1)]]
  <2>1. Top - (tail + 1) = Top - tail - 1
    BY <1>1
  <2> QED BY <2>1 DEF Contents, Slot
<1>5. Tail(Contents) = [i \in 1 .. Top - tail - 1 |-> Contents[i + 1]]
  <2> DEFINE t == Tail(Contents)
  <2>1. /\ t \in Seq(Values) /\ Len(t) = Len(Contents) - 1
        /\ \A i \in 1 .. Len(t) : t[i] = Contents[i + 1]
    BY <1>2, <1>3, HeadTailProperties
  <2> HIDE DEF t
  <2>2. t \in [1 .. Len(t) -> Values]
    BY <2>1, LenProperties
  <2>3. t = [i \in 1 .. Top - tail - 1 |-> Contents[i + 1]]
    BY <1>2, <2>1, <2>2
  <2> QED BY <2>3 DEF t
<1>6. ASSUME NEW i \in 1 .. Top - tail - 1 PROVE Contents[i + 1] = array[Slot(tail + 1 + i - 1)]
  <2>1. i + 1 \in 1 .. Top - tail /\ tail + (i + 1) - 1 = tail + 1 + i - 1
    BY <1>1
  <2> QED BY <1>2, <2>1
<1> QED BY <1>3, <1>4, <1>5, <1>6

LEMMA ContentsBack ==
  ASSUME QueueInv, tail' = tail, Top' = Top - 1, tail < Top, array' = array
  PROVE  /\ Contents # <<>> /\ Contents[Len(Contents)] = array[Slot(Top - 1)]
         /\ Contents' = SubSeq(Contents, 1, Len(Contents) - 1)
<1>1. Top \in Nat /\ tail \in Nat
  BY TopType DEF QueueInv, TypeOK
<1>2. /\ Contents \in Seq(Values) /\ Len(Contents) = Top - tail
      /\ \A i \in 1 .. Top - tail : Contents[i] = array[Slot(tail + i - 1)]
  BY ContentsType
<1>3. Contents # <<>> /\ Contents[Len(Contents)] = array[Slot(Top - 1)]
  <2>1. Top - tail \in 1 .. Top - tail /\ tail + (Top - tail) - 1 = Top - 1
    BY <1>1
  <2> QED BY <1>1, <1>2, <2>1
<1>4. Contents' = [i \in 1 .. Top - tail - 1 |-> array[Slot(tail + i - 1)]]
  <2>1. Top - 1 - tail = Top - tail - 1
    BY <1>1
  <2> QED BY <2>1 DEF Contents, Slot
<1>5. SubSeq(Contents, 1, Len(Contents) - 1) = [i \in 1 .. Top - tail - 1 |-> Contents[i]]
  BY <1>1, <1>2
<1>6. ASSUME NEW i \in 1 .. Top - tail - 1 PROVE Contents[i] = array[Slot(tail + i - 1)]
  <2>1. i \in 1 .. Top - tail
    BY <1>1
  <2> QED BY <1>2, <2>1
<1> QED BY <1>3, <1>4, <1>5, <1>6

\* Every step of owner or thief is a step of the deque or leaves it alone.
LEMMA StepRefines ==
  ASSUME QueueInv, QueueInv', [Next]_vars
  PROVE  [D!Next]_(D!vars)
<1>1. CASE Quiet
  BY <1>1, ContentsSame DEF Quiet, D!vars
<1>2. CASE Published
  BY <1>2, ContentsAppended DEF Published, D!Next, D!Push
<1>3. CASE TakenInFront
  BY <1>3, ContentsFront DEF TakenInFront, D!Next, D!PopFront
<1>4. CASE TakenBehind
  <2>1. tail < Top
    BY <1>4, TopType DEF TakenBehind, QueueInv, TypeOK
  <2> QED BY <1>4, <2>1, ContentsBack DEF TakenBehind, D!Next, D!PopBack
<1> QED BY <1>1, <1>2, <1>3, <1>4, StepKinds

\* The queue is a deque: whatever thieves and owner do, values come out once each,
\* at the front or as the last in, and none is lost.
THEOREM QueueIsDeque == Spec => ImplementsDeque
<1>1. Init => D!Init
  BY DEF Init, D!Init, Contents, Top
<1>2. QueueInv /\ QueueInv' /\ [Next]_vars => [D!Next]_(D!vars)
  BY StepRefines
<1> QED BY <1>1, <1>2, DequeInvariant, PTL DEF Spec, ImplementsDeque, D!Spec

-----------------------------------------------------------------------------
(***************************************************************************)
(* No value is lost.                                                       *)
(***************************************************************************)

Inside == {array[Slot(i)] : i \in tail .. Top - 1}

\* What was put in is in the queue or was handed out.
Kept == put = Inside \cup TakenValues

LEMMA TakenMore ==
  ASSUME NEW v \in Values, taken \in Seq(Values), taken' = Append(taken, v)
  PROVE  TakenValues' = TakenValues \cup {v}
<1> DEFINE t == Append(taken, v)
           n == Len(taken)
<1>1. n \in Nat /\ DOMAIN taken = 1 .. n
  BY LenProperties
<1>2. /\ t \in Seq(Values) /\ Len(t) = n + 1
      /\ \A i \in 1 .. n : t[i] = taken[i]
      /\ t[n + 1] = v
  BY AppendProperties
<1>3. taken' = t
  OBVIOUS
<1> HIDE DEF t, n
<1>4. DOMAIN t = 1 .. n + 1
  BY <1>2, LenProperties
<1> QED BY <1>1, <1>2, <1>3, <1>4 DEF TakenValues

LEMMA KeptStep ==
  ASSUME QueueInv, QueueInv', Kept, [Next]_vars
  PROVE  Kept'
<1>1. Top \in Nat /\ tail \in Nat /\ tail <= Top /\ taken \in Seq(Values)
  BY TopType DEF QueueInv, TypeOK, RoomInv
<1>2. Inside' = {array'[Slot(i)] : i \in tail' .. Top' - 1}
  BY DEF Inside, Slot, Slots
<1>3. CASE Quiet
  <2>1. Inside' = Inside
    BY <1>2, <1>3 DEF Quiet, Inside
  <2> QED BY <1>3, <2>1 DEF Quiet, Kept, TakenValues
<1>4. CASE Published
  <2>1. \A i : i \in tail' .. Top' - 1 <=> i \in tail .. Top - 1 \/ i = Top
    BY <1>1, <1>4 DEF Published
  <2>2. Inside' = Inside \cup {array[Slot(Top)]}
    BY <1>2, <1>4, <2>1 DEF Published, Inside
  <2> QED BY <1>4, <2>2 DEF Published, Kept, TakenValues
<1>5. CASE TakenInFront
  <2>1. \A i : i \in tail .. Top - 1 <=> i \in tail' .. Top' - 1 \/ i = tail
    BY <1>1, <1>5 DEF TakenInFront
  <2>2. Inside = Inside' \cup {array[Slot(tail)]}
    BY <1>2, <1>5, <2>1 DEF TakenInFront, Inside
  <2>3. array[Slot(tail)] \in Values
    BY <1>1, <1>5 DEF TakenInFront, QueueInv, FilledInv
  <2>4. TakenValues' = TakenValues \cup {array[Slot(tail)]}
    BY <1>1, <1>5, <2>3, TakenMore DEF TakenInFront
  <2> QED BY <1>5, <2>2, <2>4 DEF TakenInFront, Kept
<1>6. CASE TakenBehind
  <2>1. \A i : i \in tail .. Top - 1 <=> i \in tail' .. Top' - 1 \/ i = Top - 1
    BY <1>1, <1>6 DEF TakenBehind
  <2>2. Inside = Inside' \cup {array[Slot(Top - 1)]}
    BY <1>2, <1>6, <2>1 DEF TakenBehind, Inside
  <2>3. array[Slot(Top - 1)] \in Values
    BY <1>1, <1>6 DEF TakenBehind, QueueInv, FilledInv
  <2>4. TakenValues' = TakenValues \cup {array[Slot(Top - 1)]}
    BY <1>1, <1>6, <2>3, TakenMore DEF TakenBehind
  <2> QED BY <1>6, <2>2, <2>4 DEF TakenBehind, Kept
<1> QED BY <1>3, <1>4, <1>5, <1>6, StepKinds

\* pop gives up only when every value put in has been handed out (lines 63-65,
\* 74-76, 80-86).
THEOREM PopFailsOnlyEmpty == Spec => []FailsOnlyEmpty
<1>1. Init => Kept
  BY DEF Init, Kept, Inside, TakenValues, Top
<1>2. QueueInv /\ QueueInv' /\ Kept /\ [Next]_vars => Kept'
  BY KeptStep
<1>3. QueueInv /\ Kept => FailsOnlyEmpty
  <2> SUFFICES ASSUME QueueInv, Kept, own.at = "reset" PROVE put = TakenValues
    BY DEF FailsOnlyEmpty
  <2>1. Top = tail /\ tail \in Nat
    BY DEF Top, QueueInv, TypeOK
  <2>2. Inside = {}
    BY <2>1 DEF Inside
  <2> QED BY <2>2 DEF Kept
<1> QED BY <1>1, <1>2, <1>3, DequeInvariant, PTL DEF Spec
=============================================================================
