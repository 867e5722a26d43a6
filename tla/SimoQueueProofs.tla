---------------------------- MODULE SimoQueueProofs ----------------------------
(***************************************************************************)
(* The queue of one producer and many consumers is a first-in first-out    *)
(* queue, for every number of consumers, every size of the ring and every  *)
(* set of values.                                                          *)
(***************************************************************************)
EXTENDS Functionflow, SequenceTheorems, TLAPS

-----------------------------------------------------------------------------
(***************************************************************************)
(* The inductive invariant.                                                *)
(***************************************************************************)

TypeOK ==
  /\ pushed \in Nat /\ popped \in Nat
  /\ ring \in [0 .. FifoMask -> FifoValues \cup {NoValue}]
  /\ prod \in [at : {"idle", "write", "publish"}, val : FifoValues \cup {NoValue}]
  /\ cons \in [Consumers -> [at : {"idle", "again", "look", "read", "cas"}, t : Nat,
                             val : FifoValues \cup {NoValue, TornValue}]]
  /\ given \subseteq FifoValues
  /\ handed \in Seq(FifoValues)

\* The ring holds at most Mask values, and has room for the one being pushed.
RoomInv ==
  /\ popped <= pushed /\ pushed - popped <= FifoMask
  /\ prod.at # "idle" => pushed - popped < FifoMask /\ prod.val \in FifoValues

\* Every slot from tail to head holds a value; behind head is what was written.
FilledInv ==
  /\ \A i \in popped .. pushed - 1 : ring[Simo!Slot(i)] \in FifoValues
  /\ prod.at = "publish" => ring[Simo!Slot(pushed)] = prod.val

\* A consumer whose tail is still the tail has seen a value there and, once it
\* has read, holds that value: nobody has written the slot meanwhile.
ConsumerInv ==
  \A c \in Consumers :
    /\ cons[c].at \in {"look", "read", "cas"} => cons[c].t <= popped
    /\ cons[c].at \in {"read", "cas"} /\ cons[c].t = popped => popped < pushed
    /\ cons[c].at = "cas" /\ cons[c].t = popped => cons[c].val = ring[Simo!Slot(popped)]

SimoInv == TypeOK /\ RoomInv /\ FilledInv /\ ConsumerInv

-----------------------------------------------------------------------------
(***************************************************************************)
(* The ring: the slots from tail to head are different.                    *)
(***************************************************************************)

LEMMA RemaindersDiffer ==
  ASSUME NEW S \in Nat \ {0}, NEW i \in Nat, NEW j \in Nat, i < j, j - i < S
  PROVE  i % S # j % S
<1> DEFINE a == i \div S
           b == j \div S
<1>1. /\ a \in Int /\ b \in Int
      /\ i = S * a + (i % S) /\ j = S * b + (j % S) /\ i % S \in 0 .. S - 1
  OBVIOUS
<1>2. SUFFICES ASSUME i % S = j % S PROVE FALSE
  OBVIOUS
<1> HIDE DEF a, b
<1>3. j - i = S * b - S * a
  BY <1>1, <1>2
<1>4. CASE b <= a
  <2>1. S * b <= S * a
    BY <1>1, <1>4
  <2> QED BY <1>1, <1>3, <2>1
<1>5. CASE a + 1 <= b
  <2>1. S * a + S = S * (a + 1) /\ S * (a + 1) <= S * b
    BY <1>1, <1>5
  <2> QED BY <1>1, <1>3, <2>1
<1> QED BY <1>1, <1>4, <1>5

LEMMA HeadSlot ==
  ASSUME Simo!SimoAssumption, pushed \in Nat, NEW i \in Nat, i < pushed, pushed - i <= FifoMask
  PROVE  Simo!Slot(i) # Simo!Slot(pushed)
<1>1. FifoMask + 1 \in Nat \ {0} /\ pushed - i < FifoMask + 1
  BY DEF Simo!SimoAssumption
<1> QED BY <1>1, RemaindersDiffer DEF Simo!Slot

LEMMA SlotType ==
  ASSUME Simo!SimoAssumption, NEW i \in Nat
  PROVE  Simo!Slot(i) \in 0 .. FifoMask
BY DEF Simo!SimoAssumption, Simo!Slot

-----------------------------------------------------------------------------
(***************************************************************************)
(* The invariant is inductive.                                             *)
(***************************************************************************)

LEMMA InitSimo ==
  ASSUME Simo!SimoAssumption, Simo!Init
  PROVE  SimoInv
<1>1. TypeOK
  BY DEF Simo!Init, TypeOK
<1>2. RoomInv /\ FilledInv /\ ConsumerInv
  BY DEF Simo!Init, Simo!SimoAssumption, RoomInv, FilledInv, ConsumerInv
<1> QED BY <1>1, <1>2 DEF SimoInv

\* push.
LEMMA PushLookKeeps ==
  ASSUME SimoInv, NEW v \in FifoValues, Simo!PushLook(v)
  PROVE  SimoInv'
<1>1. TypeOK'
  BY DEF SimoInv, TypeOK, Simo!PushLook
<1>2. RoomInv' /\ FilledInv' /\ ConsumerInv'
  BY DEF SimoInv, TypeOK, Simo!PushLook, RoomInv, FilledInv, ConsumerInv, Simo!Slot
<1> QED BY <1>1, <1>2 DEF SimoInv

\* The slot at head is none of the slots that hold a value.
LEMMA PushWriteKeeps ==
  ASSUME Simo!SimoAssumption, SimoInv, Simo!PushWrite
  PROVE  /\ SimoInv'
         /\ \A i \in popped .. pushed - 1 : ring'[Simo!Slot(i)] = ring[Simo!Slot(i)]
<1>1. TypeOK /\ RoomInv /\ FilledInv /\ ConsumerInv /\ prod.at = "write"
  BY DEF SimoInv, Simo!PushWrite
<1>2. /\ UNCHANGED <<pushed, popped, cons, given, handed>>
      /\ ring' = [ring EXCEPT ![Simo!Slot(pushed)] = prod.val]
      /\ prod' = [prod EXCEPT !.at = "publish"]
  BY DEF Simo!PushWrite
<1>3. pushed - popped < FifoMask /\ prod.val \in FifoValues /\ Simo!Slot(pushed) \in 0 .. FifoMask
  BY <1>1, SlotType DEF RoomInv, TypeOK
<1>4. ASSUME NEW i \in popped .. pushed - 1 PROVE ring'[Simo!Slot(i)] = ring[Simo!Slot(i)]
  <2>1. i \in Nat /\ i < pushed /\ pushed - i <= FifoMask
    BY <1>1, <1>3 DEF TypeOK, Simo!SimoAssumption
  <2>2. Simo!Slot(i) # Simo!Slot(pushed) /\ Simo!Slot(i) \in 0 .. FifoMask
    BY <1>1, <2>1, HeadSlot, SlotType DEF TypeOK
  <2> QED BY <1>1, <1>2, <2>2 DEF TypeOK
<1>5. TypeOK'
  BY <1>1, <1>2, <1>3 DEF TypeOK
<1>6. RoomInv'
  BY <1>1, <1>2 DEF TypeOK, RoomInv
<1>7. FilledInv'
  <2>1. ring'[Simo!Slot(pushed)] = prod.val /\ prod'.val = prod.val
    BY <1>1, <1>2, <1>3 DEF TypeOK
  <2>2. \A i \in popped .. pushed - 1 : ring'[Simo!Slot(i)] \in FifoValues
    BY <1>1, <1>4 DEF FilledInv
  <2> QED BY <1>2, <2>1, <2>2 DEF FilledInv, Simo!Slot
<1>8. ConsumerInv'
  <2>1. popped < pushed => ring'[Simo!Slot(popped)] = ring[Simo!Slot(popped)]
    BY <1>1, <1>4 DEF TypeOK
  <2> QED BY <1>1, <1>2, <2>1 DEF ConsumerInv, Simo!Slot
<1> QED BY <1>4, <1>5, <1>6, <1>7, <1>8 DEF SimoInv

LEMMA PushPublishKeeps ==
  ASSUME Simo!SimoAssumption, SimoInv, Simo!PushPublish
  PROVE  SimoInv'
<1>1. TypeOK /\ RoomInv /\ FilledInv /\ ConsumerInv /\ prod.at = "publish"
  BY DEF SimoInv, Simo!PushPublish
<1>2. /\ UNCHANGED <<popped, ring, cons, handed>>
      /\ pushed' = pushed + 1 /\ given' = given \cup {prod.val}
      /\ prod' = [prod EXCEPT !.at = "idle"]
  BY DEF Simo!PushPublish
<1>3. pushed - popped < FifoMask /\ prod.val \in FifoValues /\ ring[Simo!Slot(pushed)] = prod.val
  BY <1>1 DEF RoomInv, FilledInv
<1>4. TypeOK'
  BY <1>1, <1>2, <1>3 DEF TypeOK
<1>5. RoomInv'
  BY <1>1, <1>2, <1>3 DEF TypeOK, RoomInv, Simo!SimoAssumption
<1>6. FilledInv'
  <2>1. \A i \in popped .. pushed : i = pushed \/ i \in popped .. pushed - 1
    BY <1>1 DEF TypeOK
  <2>2. pushed + 1 - 1 = pushed
    BY <1>1 DEF TypeOK
  <2> QED BY <1>1, <1>2, <1>3, <2>1, <2>2 DEF TypeOK, FilledInv, Simo!Slot
<1>7. ConsumerInv'
  BY <1>1, <1>2 DEF TypeOK, ConsumerInv, Simo!Slot
<1> QED BY <1>4, <1>5, <1>6, <1>7 DEF SimoInv

\* pop.
LEMMA PopTailKeeps ==
  ASSUME SimoInv, NEW c \in Consumers, Simo!PopTail(c)
  PROVE  SimoInv'
<1>1. TypeOK'
  BY ZenonT(60) DEF SimoInv, TypeOK, Simo!PopTail
<1>3. ConsumerInv'
  BY DEF SimoInv, TypeOK, Simo!PopTail, ConsumerInv, Simo!Slot
<1>2. RoomInv' /\ FilledInv'
  BY DEF SimoInv, Simo!PopTail, RoomInv, FilledInv, Simo!Slot
<1> QED BY <1>1, <1>2, <1>3 DEF SimoInv

LEMMA PopLookKeeps ==
  ASSUME SimoInv, NEW c \in Consumers, Simo!PopLook(c)
  PROVE  SimoInv'
<1>1. TypeOK'
  BY DEF SimoInv, TypeOK, Simo!PopLook
<1>2. ConsumerInv'
  BY DEF SimoInv, TypeOK, RoomInv, Simo!PopLook, ConsumerInv, Simo!Slot
<1>3. RoomInv' /\ FilledInv'
  BY DEF SimoInv, Simo!PopLook, RoomInv, FilledInv, Simo!Slot
<1> QED BY <1>1, <1>2, <1>3 DEF SimoInv

\* What a consumer reads at the tail is whole: the producer writes another slot.
LEMMA PopReadKeeps ==
  ASSUME Simo!SimoAssumption, SimoInv, NEW c \in Consumers, Simo!PopRead(c)
  PROVE  SimoInv'
<1> DEFINE s == Simo!Slot(cons[c].t)
<1>1. TypeOK /\ RoomInv /\ FilledInv /\ ConsumerInv /\ cons[c].at = "read"
  BY DEF SimoInv, Simo!PopRead
<1>2. /\ UNCHANGED <<pushed, popped, ring, prod, given, handed>>
      /\ cons' = [cons EXCEPT ![c].at = "cas", ![c].val = IF Simo!Writing(s) THEN TornValue ELSE ring[s]]
  BY DEF Simo!PopRead
<1>3. s \in 0 .. FifoMask
  BY <1>1, SlotType DEF TypeOK
<1>4. cons[c].t = popped => ~ Simo!Writing(s)
  <2> SUFFICES ASSUME cons[c].t = popped, prod.at = "write" PROVE Simo!Slot(popped) # Simo!Slot(pushed)
    BY DEF Simo!Writing
  <2>1. popped < pushed /\ pushed - popped <= FifoMask
    BY <1>1 DEF ConsumerInv, RoomInv
  <2> QED BY <1>1, <2>1, HeadSlot DEF TypeOK
<1>5. TypeOK'
  BY <1>1, <1>2, <1>3, ZenonT(60) DEF TypeOK
<1>6. ConsumerInv'
  BY <1>1, <1>2, <1>4 DEF TypeOK, ConsumerInv, Simo!Slot
<1>7. RoomInv' /\ FilledInv'
  BY <1>1, <1>2 DEF RoomInv, FilledInv, Simo!Slot
<1> QED BY <1>5, <1>6, <1>7 DEF SimoInv

LEMMA PopCasKeeps ==
  ASSUME Simo!SimoAssumption, SimoInv, NEW c \in Consumers, Simo!PopCas(c)
  PROVE  /\ SimoInv'
         /\ \/ UNCHANGED <<popped, handed>>
            \/ popped < pushed /\ popped' = popped + 1 /\ handed' = Append(handed, ring[Simo!Slot(popped)])
<1>1. TypeOK /\ RoomInv /\ FilledInv /\ ConsumerInv /\ cons[c].at = "cas"
  BY DEF SimoInv, Simo!PopCas
<1>2. UNCHANGED <<pushed, ring, prod, given>>
  BY DEF Simo!PopCas
<1>3. CASE /\ popped = cons[c].t /\ popped' = popped + 1 /\ handed' = Append(handed, cons[c].val)
           /\ cons' = [cons EXCEPT ![c].at = "idle"]
  <2>1. popped < pushed /\ cons[c].val = ring[Simo!Slot(popped)] /\ ring[Simo!Slot(popped)] \in FifoValues
    BY <1>1, <1>3 DEF TypeOK, ConsumerInv, FilledInv
  <2>2. TypeOK'
    <3>1. handed' \in Seq(FifoValues)
      BY <1>1, <1>3, <2>1 DEF TypeOK
    <3>2. cons' \in [Consumers -> [at : {"idle", "again", "look", "read", "cas"}, t : Nat,
                                   val : FifoValues \cup {NoValue, TornValue}]]
      BY <1>1, <1>3 DEF TypeOK
    <3> QED BY <1>1, <1>2, <1>3, <3>1, <3>2 DEF TypeOK
  <2>3. RoomInv' /\ FilledInv'
    BY <1>1, <1>2, <1>3, <2>1 DEF TypeOK, RoomInv, FilledInv, Simo!Slot, Simo!SimoAssumption
  <2>4. ConsumerInv'
    BY <1>1, <1>2, <1>3, <2>1 DEF TypeOK, ConsumerInv, Simo!Slot
  <2> QED BY <1>3, <2>1, <2>2, <2>3, <2>4 DEF SimoInv
<1>4. CASE UNCHANGED <<popped, handed>> /\ cons' = [cons EXCEPT ![c].at = "again"]
  <2>1. TypeOK' /\ ConsumerInv'
    BY <1>1, <1>2, <1>4 DEF TypeOK, ConsumerInv, Simo!Slot
  <2>2. RoomInv' /\ FilledInv'
    BY <1>1, <1>2, <1>4 DEF RoomInv, FilledInv, Simo!Slot
  <2> QED BY <1>4, <2>1, <2>2 DEF SimoInv
<1> QED BY <1>3, <1>4 DEF Simo!PopCas

\* The invariant holds in every state.
THEOREM SimoInvariant == Simo!SimoAssumption => (Simo!Spec => []SimoInv)
<1> SUFFICES ASSUME Simo!SimoAssumption PROVE Simo!Spec => []SimoInv
  OBVIOUS
<1>1. SimoInv /\ [Simo!Next]_(Simo!vars) => SimoInv'
  <2> SUFFICES ASSUME SimoInv, [Simo!Next]_(Simo!vars) PROVE SimoInv'
    OBVIOUS
  <2>1. CASE Simo!Push
    BY <2>1, PushLookKeeps, PushWriteKeeps, PushPublishKeeps DEF Simo!Push
  <2>2. ASSUME NEW c \in Consumers, Simo!Pop(c) PROVE SimoInv'
    BY <2>2, PopTailKeeps, PopLookKeeps, PopReadKeeps, PopCasKeeps DEF Simo!Pop
  <2>3. CASE UNCHANGED Simo!vars
    BY <2>3 DEF Simo!vars, SimoInv, TypeOK, RoomInv, FilledInv, ConsumerInv, Simo!Slot
  <2> QED BY <2>1, <2>2, <2>3 DEF Simo!Next
<1> QED BY <1>1, InitSimo, PTL DEF Simo!Spec

-----------------------------------------------------------------------------
(***************************************************************************)
(* Refinement: what the steps do to the contents.                          *)
(***************************************************************************)

LEMMA ContentsType ==
  ASSUME SimoInv
  PROVE  /\ Simo!Contents \in Seq(FifoValues) /\ Len(Simo!Contents) = pushed - popped
         /\ \A i \in 1 .. pushed - popped : Simo!Contents[i] = ring[Simo!Slot(popped + i - 1)]
<1>1. pushed \in Nat /\ popped \in Nat /\ pushed - popped \in Nat
  BY DEF SimoInv, TypeOK, RoomInv
<1>2. ASSUME NEW i \in 1 .. pushed - popped PROVE ring[Simo!Slot(popped + i - 1)] \in FifoValues
  <2>1. popped + i - 1 \in popped .. pushed - 1
    BY <1>1
  <2> QED BY <2>1 DEF SimoInv, FilledInv
<1> QED BY <1>1, <1>2 DEF Simo!Contents

LEMMA ContentsSame ==
  ASSUME SimoInv, UNCHANGED <<pushed, popped>>,
         \A i \in popped .. pushed - 1 : ring'[Simo!Slot(i)] = ring[Simo!Slot(i)]
  PROVE  Simo!Contents' = Simo!Contents
<1>1. ASSUME NEW i \in 1 .. pushed - popped
      PROVE  ring'[Simo!Slot(popped + i - 1)] = ring[Simo!Slot(popped + i - 1)]
  <2>1. popped + i - 1 \in popped .. pushed - 1
    BY DEF SimoInv, TypeOK
  <2> QED BY <2>1
<1> QED BY <1>1 DEF Simo!Contents, Simo!Slot

\* push_back publishes one value more.
LEMMA ContentsMore ==
  ASSUME Simo!SimoAssumption, SimoInv, Simo!PushPublish
  PROVE  Simo!Contents' = Append(Simo!Contents, prod.val) /\ prod.val \in FifoValues
<1> DEFINE new == Append(Simo!Contents, prod.val)
           n   == pushed - popped
<1>1. /\ SimoInv' /\ prod.val \in FifoValues /\ ring[Simo!Slot(pushed)] = prod.val
      /\ UNCHANGED <<popped, ring>> /\ pushed' = pushed + 1
      /\ pushed \in Nat /\ popped \in Nat /\ n \in Nat
  BY PushPublishKeeps DEF SimoInv, TypeOK, RoomInv, FilledInv, Simo!PushPublish
<1>2. /\ Simo!Contents \in Seq(FifoValues) /\ Len(Simo!Contents) = n
      /\ \A i \in 1 .. n : Simo!Contents[i] = ring[Simo!Slot(popped + i - 1)]
  BY ContentsType
<1>3. /\ Simo!Contents' \in Seq(FifoValues) /\ Len(Simo!Contents') = n + 1
      /\ \A i \in 1 .. n + 1 : Simo!Contents'[i] = ring[Simo!Slot(popped + i - 1)]
  <2>1. Simo!Contents' = [i \in 1 .. pushed + 1 - popped |-> ring[Simo!Slot(popped + i - 1)]]
    BY <1>1 DEF Simo!Contents, Simo!Slot
  <2>2. pushed + 1 - popped = n + 1
    BY <1>1
  <2>3. ASSUME NEW i \in 1 .. n + 1 PROVE ring[Simo!Slot(popped + i - 1)] \in FifoValues
    <3>1. popped + i - 1 \in popped .. pushed - 1 \/ popped + i - 1 = pushed
      BY <1>1
    <3> QED BY <1>1, <3>1 DEF SimoInv, FilledInv
  <2> HIDE DEF Simo!Contents
  <2>4. Simo!Contents' = [i \in 1 .. n + 1 |-> ring[Simo!Slot(popped + i - 1)]]
    BY <2>1, <2>2, Zenon
  <2> HIDE DEF n
  <2> QED BY <1>1, <2>3, <2>4
<1>4. /\ new \in Seq(FifoValues) /\ Len(new) = n + 1
      /\ \A i \in 1 .. n : new[i] = Simo!Contents[i]
      /\ new[n + 1] = prod.val
  <2> HIDE DEF n
  <2> QED BY <1>1, <1>2, AppendProperties
<1>5. ASSUME NEW i \in 1 .. n + 1 PROVE Simo!Contents'[i] = new[i]
  <2> HIDE DEF new
  <2>1. CASE i \in 1 .. n
    BY <1>2, <1>3, <1>4, <2>1
  <2>2. CASE i = n + 1
    <3>1. popped + i - 1 = pushed
      BY <1>1, <2>2
    <3> QED BY <1>1, <1>3, <1>4, <2>2, <3>1
  <2> QED BY <1>1, <2>1, <2>2
<1> HIDE DEF new, Simo!Contents, n
<1>6. Simo!Contents' = new
  BY <1>3, <1>4, <1>5, SeqEqual
<1> QED BY <1>1, <1>6 DEF new

\* pop that wins its compare-exchange takes the first.
LEMMA ContentsLess ==
  ASSUME SimoInv, UNCHANGED <<pushed, ring>>, popped' = popped + 1, popped < pushed
  PROVE  /\ Simo!Contents # <<>> /\ Simo!Contents[1] = ring[Simo!Slot(popped)]
         /\ Simo!Contents' = Tail(Simo!Contents)
<1> DEFINE n == pushed - popped
           t == Tail(Simo!Contents)
<1>1. pushed \in Nat /\ popped \in Nat /\ n \in Nat \ {0}
  BY DEF SimoInv, TypeOK
<1>2. /\ Simo!Contents \in Seq(FifoValues) /\ Len(Simo!Contents) = n
      /\ \A i \in 1 .. n : Simo!Contents[i] = ring[Simo!Slot(popped + i - 1)]
  BY ContentsType
<1>3. Simo!Contents # <<>> /\ Simo!Contents[1] = ring[Simo!Slot(popped)]
  <2>1. 1 \in 1 .. n /\ popped + 1 - 1 = popped
    BY <1>1
  <2> QED BY <1>1, <1>2, <2>1
<1>4. /\ t \in Seq(FifoValues) /\ Len(t) = n - 1
      /\ \A i \in 1 .. n - 1 : t[i] = Simo!Contents[i + 1]
  BY <1>2, <1>3, HeadTailProperties
<1>5. Simo!Contents' = [i \in 1 .. n - 1 |-> ring[Simo!Slot(popped + 1 + i - 1)]]
  <2>1. pushed - (popped + 1) = n - 1
    BY <1>1
  <2> QED BY <2>1 DEF Simo!Contents, Simo!Slot
<1>6. ASSUME NEW i \in 1 .. n - 1 PROVE t[i] = ring[Simo!Slot(popped + 1 + i - 1)]
  <2>1. i + 1 \in 1 .. n /\ popped + (i + 1) - 1 = popped + 1 + i - 1
    BY <1>1
  <2> QED BY <1>2, <1>4, <2>1
<1>7. t = [i \in 1 .. n - 1 |-> t[i]]
  <2> HIDE DEF t, n
  <2> QED BY <1>1, <1>4, LenProperties
<1> QED BY <1>3, <1>5, <1>6, <1>7

LEMMA StepRefines ==
  ASSUME Simo!SimoAssumption, SimoInv, [Simo!Next]_(Simo!vars)
  PROVE  [Simo!D!FifoNext]_(Simo!D!vars)
<1>1. ASSUME NEW v \in FifoValues, Simo!PushLook(v) PROVE UNCHANGED Simo!D!vars
  BY <1>1, ContentsSame DEF Simo!PushLook, Simo!D!vars
<1>2. ASSUME Simo!PushWrite PROVE UNCHANGED Simo!D!vars
  BY <1>2, PushWriteKeeps, ContentsSame DEF Simo!PushWrite, Simo!D!vars
<1>3. ASSUME Simo!PushPublish PROVE Simo!D!FifoNext
  BY <1>3, ContentsMore DEF Simo!PushPublish, Simo!D!FifoNext, Simo!D!Push
<1>4. ASSUME NEW c \in Consumers, Simo!PopTail(c) \/ Simo!PopLook(c) \/ Simo!PopRead(c)
      PROVE  UNCHANGED Simo!D!vars
  BY <1>4, ContentsSame DEF Simo!PopTail, Simo!PopLook, Simo!PopRead, Simo!D!vars
<1>5. ASSUME NEW c \in Consumers, Simo!PopCas(c) PROVE [Simo!D!FifoNext]_(Simo!D!vars)
  <2>1. CASE UNCHANGED <<popped, handed>>
    BY <1>5, <2>1, ContentsSame DEF Simo!PopCas, Simo!D!vars
  <2>2. CASE popped < pushed /\ popped' = popped + 1 /\ handed' = Append(handed, ring[Simo!Slot(popped)])
    BY <1>5, <2>2, ContentsLess DEF Simo!PopCas, Simo!D!FifoNext, Simo!D!PopFront
  <2> QED BY <1>5, <2>1, <2>2, PopCasKeeps
<1>6. CASE UNCHANGED Simo!vars
  BY <1>6 DEF Simo!vars, Simo!D!vars, Simo!Contents, Simo!Slot
<1> QED BY <1>1, <1>2, <1>3, <1>4, <1>5, <1>6 DEF Simo!Next, Simo!Push, Simo!Pop

\* However many threads pop, each value that was pushed comes out once, whole, and
\* in the order of the pushes: a compare-exchange that finds tail unmoved hands out
\* what is still in the slot (push, pop; simo_queue.h).
THEOREM QueueIsFifo == Simo!SimoAssumption => (Simo!Spec => ImplementsFifo)
<1> SUFFICES ASSUME Simo!SimoAssumption PROVE Simo!Spec => ImplementsFifo
  OBVIOUS
<1>1. Simo!Init => Simo!D!Init
  BY DEF Simo!Init, Simo!D!Init, Simo!Contents
<1>2. SimoInv /\ [Simo!Next]_(Simo!vars) => [Simo!D!FifoNext]_(Simo!D!vars)
  BY StepRefines
<1> QED BY <1>1, <1>2, SimoInvariant, PTL DEF Simo!Spec, ImplementsFifo, Simo!ImplementsFifo, Simo!D!FifoSpec

-----------------------------------------------------------------------------
\* pop returns false only when the queue holds nothing at that moment, although it
\* compares head with a tail it read earlier.
GivesUpEmpty == [][\A c \in Consumers :
  cons[c].at = "look" /\ cons'[c].at = "idle" => Simo!Contents = <<>>]_(Simo!vars)

THEOREM FailsOnlyWhenEmpty == Simo!SimoAssumption => (Simo!Spec => GivesUpEmpty)
<1> SUFFICES ASSUME Simo!SimoAssumption PROVE Simo!Spec => GivesUpEmpty
  OBVIOUS
<1> DEFINE A == \A c \in Consumers : cons[c].at = "look" /\ cons'[c].at = "idle" => Simo!Contents = <<>>
<1>1. SimoInv /\ [Simo!Next]_(Simo!vars) => [A]_(Simo!vars)
  <2> SUFFICES ASSUME SimoInv, Simo!Next, NEW c \in Consumers,
                      cons[c].at = "look", cons'[c].at = "idle"
               PROVE  Simo!Contents = <<>>
    OBVIOUS
  <2>1. cons \in [Consumers -> [at : {"idle", "again", "look", "read", "cas"}, t : Nat,
                                val : FifoValues \cup {NoValue, TornValue}]]
    BY DEF SimoInv, TypeOK
  <2>2. ~ Simo!Push
    BY DEF Simo!Push, Simo!PushLook, Simo!PushWrite, Simo!PushPublish
  <2>3. PICK d \in Consumers : Simo!Pop(d)
    BY <2>2 DEF Simo!Next
  <2>4. d = c /\ Simo!PopLook(c) /\ cons[c].t = pushed
    BY <2>1, <2>3 DEF Simo!Pop, Simo!PopTail, Simo!PopLook, Simo!PopRead, Simo!PopCas
  <2>5. pushed - popped = 0
    BY <2>4 DEF SimoInv, TypeOK, RoomInv, ConsumerInv
  <2>6. Len(Simo!Contents) = 0 /\ Simo!Contents \in Seq(FifoValues)
    BY <2>5, ContentsType
  <2> QED BY <2>6, EmptySeq
<1> QED BY <1>1, SimoInvariant, PTL DEF Simo!Spec, GivesUpEmpty
=============================================================================
