------------------------------ MODULE SimoQueue ------------------------------
(***************************************************************************)
(* simo_queue of include/ff/functionflow/utilities/simo_queue.h: one       *)
(* thread pushes, many pop.  The runtime keeps one beside each thread's    *)
(* work-stealing queue.  Each action is one access to head, tail or the    *)
(* array.                                                                  *)
(***************************************************************************)
EXTENDS Integers, Sequences

CONSTANTS
  Consumers,  \* the threads that pop
  Values,     \* the values pushed, each once
  Mask,       \* MASK = 2^N - 1
  Nothing,    \* a slot never written
  Torn        \* what a consumer reads of a slot while the producer writes it

SimoAssumption ==
  /\ Mask \in Nat
  /\ Nothing \notin Values
  /\ Torn \notin Values

VARIABLES
  head, tail, array,  \* the members of the queue
  prod,               \* the producer: where it is in push, and its val
  cons,               \* each consumer: where it is in pop, its t and val
  put, taken          \* history: the values put in, and handed out, in order

vars == <<head, tail, array, prod, cons, put, taken>>

Slot(i) == i % (Mask + 1)

Init ==
  /\ head = 0
  /\ tail = 0
  /\ array = [i \in 0 .. Mask |-> Nothing]
  /\ prod = [at |-> "idle", val |-> Nothing]
  /\ cons = [c \in Consumers |-> [at |-> "idle", t |-> 0, val |-> Nothing]]
  /\ put = {}
  /\ taken = <<>>

-----------------------------------------------------------------------------
\* push: nothing happens when the ring is full.
PushLook(v) ==
  /\ prod.at = "idle"
  /\ v \in Values \ put
  /\ head - tail < Mask
  /\ prod' = [at |-> "write", val |-> v]
  /\ UNCHANGED <<head, tail, array, cons, put, taken>>

PushWrite ==
  /\ prod.at = "write"
  /\ array' = [array EXCEPT ![Slot(head)] = prod.val]
  /\ prod' = [prod EXCEPT !.at = "publish"]
  /\ UNCHANGED <<head, tail, cons, put, taken>>

PushPublish ==
  /\ prod.at = "publish"
  /\ head' = head + 1
  /\ put' = put \cup {prod.val}
  /\ prod' = [prod EXCEPT !.at = "idle"]
  /\ UNCHANGED <<tail, array, cons, taken>>

-----------------------------------------------------------------------------
\* pop: the first turn, and each later one after a lost compare-exchange.
PopTail(c) ==
  /\ cons[c].at \in {"idle", "again"}
  /\ cons' = [cons EXCEPT ![c].at = "look", ![c].t = tail]
  /\ UNCHANGED <<head, tail, array, prod, put, taken>>

PopLook(c) ==
  /\ cons[c].at = "look"
  /\ cons' = [cons EXCEPT ![c].at = IF cons[c].t = head THEN "idle" ELSE "read"]
  /\ UNCHANGED <<head, tail, array, prod, put, taken>>

\* Reading a slot the producer is writing gives neither its old nor its new value.
Writing(s) == prod.at = "write" /\ Slot(head) = s

PopRead(c) ==
  LET s == Slot(cons[c].t) IN
  /\ cons[c].at = "read"
  /\ cons' = [cons EXCEPT ![c].at = "cas", ![c].val = IF Writing(s) THEN Torn ELSE array[s]]
  /\ UNCHANGED <<head, tail, array, prod, put, taken>>

\* Faulty: tail moves on whoever moved it before.
PopCasBlind(c) ==
  /\ cons[c].at = "cas"
  /\ tail' = cons[c].t + 1
  /\ taken' = Append(taken, cons[c].val)
  /\ cons' = [cons EXCEPT ![c].at = "idle"]
  /\ UNCHANGED <<head, array, prod, put>>

PopCas(c) ==
  /\ cons[c].at = "cas"
  /\ \/ /\ tail = cons[c].t
        /\ tail' = tail + 1
        /\ taken' = Append(taken, cons[c].val)
        /\ cons' = [cons EXCEPT ![c].at = "idle"]
     \/ /\ tail # cons[c].t
        /\ cons' = [cons EXCEPT ![c].at = "again"]
        /\ UNCHANGED <<tail, taken>>
  /\ UNCHANGED <<head, array, prod, put>>

-----------------------------------------------------------------------------
Push   == PushWrite \/ PushPublish \/ \E v \in Values : PushLook(v)
Pop(c) == PopTail(c) \/ PopLook(c) \/ PopRead(c) \/ PopCas(c)

Next == Push \/ \E c \in Consumers : Pop(c)

Spec == Init /\ [][Next]_vars

-----------------------------------------------------------------------------
Contents == [i \in 1 .. head - tail |-> array[Slot(tail + i - 1)]]

\* Producer and consumers see one first-in first-out queue: each value is handed
\* to one consumer, whole and in the order of the pushes (lines 44-59).
D == INSTANCE Deque WITH items <- Contents
ImplementsFifo == D!FifoSpec
=============================================================================
