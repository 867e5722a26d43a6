-------------------------------- MODULE Deque --------------------------------
(***************************************************************************)
(* What the queues of functionflow promise their users: values come out at *)
(* the front in the order they went in, or at the back, the last in first; *)
(* each comes out once, and no other does.                                 *)
(***************************************************************************)
EXTENDS Integers, Sequences

CONSTANT Values

VARIABLES
  items,  \* the values in the queue
  taken   \* the values handed out, in order

vars == <<items, taken>>

Init == items = <<>> /\ taken = <<>>

Push(v) ==
  /\ items' = Append(items, v)
  /\ UNCHANGED taken

PopFront ==
  /\ items # <<>>
  /\ items' = Tail(items)
  /\ taken' = Append(taken, items[1])

PopBack ==
  /\ items # <<>>
  /\ items' = SubSeq(items, 1, Len(items) - 1)
  /\ taken' = Append(taken, items[Len(items)])

Next == PopFront \/ PopBack \/ \E v \in Values : Push(v)
Spec == Init /\ [][Next]_vars

\* A queue that is only taken from at the front.
FifoNext == PopFront \/ \E v \in Values : Push(v)
FifoSpec == Init /\ [][FifoNext]_vars
=============================================================================
