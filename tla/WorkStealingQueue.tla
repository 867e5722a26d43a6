-------------------------- MODULE WorkStealingQueue --------------------------
(***************************************************************************)
(* default_work_stealing_queue of                                          *)
(* include/ff/functionflow/runtime/work_stealing_queue.h: one owner pushes *)
(* and pops at the head, thieves steal at the tail, without a lock.        *)
(*                                                                         *)
(* Each action is one access to head, tail or the array by one thread, in  *)
(* an order all threads agree on.  head and the array are plain members    *)
(* and tail is relaxed, so this is a property of the build: gcc -O2 for    *)
(* x86-64 keeps the accesses of all three operations in their places, and  *)
(* the fence of pop (line 70) orders its store before its load.  Two loads *)
(* of tail in a row, or a load stored to head, are one access where no     *)
(* thief can move tail in between.                                         *)
(***************************************************************************)
EXTENDS Integers, Sequences, FiniteSets

CONSTANTS
  Thieves,  \* the threads that steal
  Values,   \* the values the owner pushes, each once
  Mask,     \* MASK = 2^N - 1
  Nothing,  \* a slot never written
  Torn      \* what a thief reads of a slot while the owner writes it

ASSUME QueueAssumption ==
  /\ Mask \in Nat
  /\ Nothing \notin Values
  /\ Torn \notin Values

VARIABLES
  head, tail, array,  \* the members of the queue
  own,                \* the owner: where it is, and its h and val
  thief,              \* each thief: where it is, and its t and val
  put, taken          \* history: the values put in, and handed out, in order

vars == <<head, tail, array, own, thief, put, taken>>

Slots == Mask + 1
Slot(i) == i % Slots

TakenValues == {taken[i] : i \in DOMAIN taken}

Init ==
  /\ head = 0
  /\ tail = 0
  /\ array = [i \in 0 .. Mask |-> Nothing]
  /\ own = [at |-> "idle", h |-> 0, val |-> Nothing]
  /\ thief = [p \in Thieves |-> [at |-> "idle", t |-> 0, val |-> Nothing]]
  /\ put = {}
  /\ taken = <<>>

-----------------------------------------------------------------------------
\* push_back: the look at tail; a full ring refuses the value.
PushLook(v) ==
  /\ own.at = "idle"
  /\ v \in Values \ put
  /\ own' = IF head - tail = Mask THEN own ELSE [at |-> "write", h |-> head, val |-> v]
  /\ UNCHANGED <<head, tail, array, thief, put, taken>>

PushWrite ==
  /\ own.at = "write"
  /\ array' = [array EXCEPT ![Slot(own.h)] = own.val]
  /\ own' = [own EXCEPT !.at = "publish"]
  /\ UNCHANGED <<head, tail, thief, put, taken>>

PushPublish ==
  /\ own.at = "publish"
  /\ head' = own.h + 1
  /\ put' = put \cup {own.val}
  /\ own' = [own EXCEPT !.at = "idle"]
  /\ UNCHANGED <<tail, array, thief, taken>>

\* Faulty: an empty queue is popped like any other.
PopStartUnchecked ==
  /\ own.at = "idle"
  /\ own' = [own EXCEPT !.at = "lower", !.h = head - 1]
  /\ UNCHANGED <<head, tail, array, thief, put, taken>>

\* pop: an empty queue is left at once.
PopStart ==
  /\ own.at = "idle"
  /\ own' = IF head <= tail THEN [own EXCEPT !.at = "reset"]
            ELSE [own EXCEPT !.at = "lower", !.h = head - 1]
  /\ UNCHANGED <<head, tail, array, thief, put, taken>>

PopLower ==
  /\ own.at = "lower"
  /\ head' = own.h
  /\ own' = [own EXCEPT !.at = "look"]
  /\ UNCHANGED <<tail, array, thief, put, taken>>

\* Faulty: the last value is left to the thieves.
PopLookGivesUp ==
  /\ own.at = "look"
  /\ own' = [own EXCEPT !.at = IF own.h <= tail THEN "reset" ELSE "idle",
                        !.val = array[Slot(own.h)]]
  /\ taken' = IF own.h > tail THEN Append(taken, array[Slot(own.h)]) ELSE taken
  /\ UNCHANGED <<head, tail, array, thief, put>>

\* Faulty: the last value is taken without a compare-exchange.
PopLookNoCas ==
  /\ own.at = "look"
  /\ own' = [own EXCEPT !.at = IF own.h < tail THEN "reset" ELSE "idle"]
  /\ taken' = IF own.h >= tail THEN Append(taken, array[Slot(own.h)]) ELSE taken
  /\ UNCHANGED <<head, tail, array, thief, put>>

\* After the fence: the last element went to a thief, or it must be fought for,
\* or there is more than one.
PopLook ==
  /\ own.at = "look"
  /\ \/ /\ own.h < tail
        /\ own' = [own EXCEPT !.at = "reset"]
        /\ UNCHANGED taken
     \/ /\ own.h = tail
        /\ own' = [own EXCEPT !.at = "cas", !.val = array[Slot(own.h)]]
        /\ UNCHANGED taken
     \/ /\ own.h > tail
        /\ own' = [own EXCEPT !.at = "idle"]
        /\ taken' = Append(taken, array[Slot(own.h)])
  /\ UNCHANGED <<head, tail, array, thief, put>>

PopCas ==
  /\ own.at = "cas"
  /\ IF tail = own.h THEN /\ tail' = own.h + 1
                          /\ taken' = Append(taken, own.val)
                     ELSE UNCHANGED <<tail, taken>>
  /\ own' = [own EXCEPT !.at = "reset"]
  /\ UNCHANGED <<head, array, thief, put>>

PopReset ==
  /\ own.at = "reset"
  /\ head' = tail
  /\ own' = [own EXCEPT !.at = "idle"]
  /\ UNCHANGED <<tail, array, thief, put, taken>>

-----------------------------------------------------------------------------
\* steal.
StealTail(p) ==
  /\ thief[p].at = "idle"
  /\ thief' = [thief EXCEPT ![p].at = "size", ![p].t = tail]
  /\ UNCHANGED <<head, tail, array, own, put, taken>>

StealSize(p) ==
  /\ thief[p].at = "size"
  /\ thief' = [thief EXCEPT ![p].at = IF head - thief[p].t <= 0 THEN "idle" ELSE "read"]
  /\ UNCHANGED <<head, tail, array, own, put, taken>>

\* Reading a slot the owner is writing gives neither its old nor its new value.
Writing(s) == own.at = "write" /\ Slot(own.h) = s

StealRead(p) ==
  LET s == Slot(thief[p].t) IN
  /\ thief[p].at = "read"
  /\ thief' = [thief EXCEPT ![p].at = "cas", ![p].val = IF Writing(s) THEN Torn ELSE array[s]]
  /\ UNCHANGED <<head, tail, array, own, put, taken>>

StealCas(p) ==
  /\ thief[p].at = "cas"
  /\ IF tail = thief[p].t THEN /\ tail' = thief[p].t + 1
                               /\ taken' = Append(taken, thief[p].val)
                          ELSE UNCHANGED <<tail, taken>>
  /\ thief' = [thief EXCEPT ![p].at = "idle"]
  /\ UNCHANGED <<head, array, own, put>>

-----------------------------------------------------------------------------
Push  == PushWrite \/ PushPublish \/ \E v \in Values : PushLook(v)
Pop   == PopStart \/ PopLower \/ PopLook \/ PopCas \/ PopReset
Steal == \E p \in Thieves : StealTail(p) \/ StealSize(p) \/ StealRead(p) \/ StealCas(p)

Next == Push \/ Pop \/ Steal

Spec == Init /\ [][Next]_vars

-----------------------------------------------------------------------------
\* The types of the variables.
TypeOK ==
  /\ head \in Nat
  /\ tail \in Nat
  /\ array \in [0 .. Mask -> Values \cup {Nothing}]
  /\ own \in [at : {"idle", "write", "publish", "lower", "look", "cas", "reset"},
              h : Nat, val : Values \cup {Nothing}]
  /\ thief \in [Thieves -> [at : {"idle", "size", "read", "cas"},
                            t : Nat, val : Values \cup {Nothing, Torn}]]
  /\ put \in SUBSET Values
  /\ taken \in Seq(Values)

\* The end of the queue's contents.  A pop that has lowered head still owns the
\* value there until it has looked at tail; one that gave up leaves nothing.
Top ==
  CASE own.at \in {"look", "cas"} -> head + 1
    [] own.at = "reset"          -> tail
    [] OTHER                     -> head

Contents == [i \in 1 .. Top - tail |-> array[Slot(tail + i - 1)]]

\* Owner and thieves see one deque: a steal takes the oldest value at its
\* compare-exchange, a pop the newest where it looks at tail or at its own
\* compare-exchange, and nothing is lost, taken twice or taken half-written.
D == INSTANCE Deque WITH items <- Contents
ImplementsDeque == D!Spec

\* The inductive invariant: the contents fit the ring; what the owner and each
\* thief remember is still true where they will use it.
RoomInv == tail <= Top /\ Top - tail <= Mask

OwnerInv ==
  /\ own.at \in {"write", "publish"} =>
       own.h = head /\ head - tail < Mask /\ own.val \in Values \ put
  /\ own.at = "publish" => array[Slot(own.h)] = own.val
  /\ own.at = "lower" => own.h + 1 = head
  /\ own.at \in {"look", "cas"} => own.h = head
  /\ own.at = "cas" => head <= tail /\ own.val = array[Slot(own.h)]
  /\ own.at = "reset" => head <= tail

ThiefInv ==
  \A p \in Thieves :
    /\ thief[p].at # "idle" => thief[p].t <= tail
    /\ thief[p].at \in {"read", "cas"} /\ thief[p].t = tail => tail < Top
    /\ thief[p].at = "cas" /\ thief[p].t = tail => thief[p].val = array[Slot(tail)]

\* Every slot between tail and Top holds a value pushed.
FilledInv == \A i \in tail .. Top - 1 : array[Slot(i)] \in Values

QueueInv == TypeOK /\ RoomInv /\ OwnerInv /\ ThiefInv /\ FilledInv

\* pop fails only on an empty queue, and leaves nothing behind when it has
\* taken or lost the last value (lines 63-65, 74-76, 80-86).
FailsOnlyEmpty == own.at = "reset" => put = TakenValues
=============================================================================
