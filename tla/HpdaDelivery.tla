---------------------------- MODULE HpdaDelivery ----------------------------
(***************************************************************************)
(* What a run of the hpda engine promises, with no engine in it: every     *)
(* memory_output receives the rows expected of it one at a time and in     *)
(* order, and run() returns once each of them holds them all.              *)
(*                                                                         *)
(* HpdaMeaning says which rows are expected and states that HpdaPipeline   *)
(* implements this module.                                                 *)
(***************************************************************************)
EXTENDS Sequences, Naturals

CONSTANTS
  Receivers,  \* the memory_outputs
  Rows        \* the rows a pipeline may carry

VARIABLES
  expected,  \* the vector of rows each receiver is owed
  received,  \* the vector of rows it has
  run        \* run() is "running" or has "returned"

vars == <<expected, received, run>>

Init ==
  /\ expected \in [Receivers -> Seq(Rows)]
  /\ received = [o \in Receivers |-> <<>>]
  /\ run = "running"

\* The next row reaches one receiver.
Receive(o) ==
  /\ run = "running"
  /\ Len(received[o]) < Len(expected[o])
  /\ received' = [received EXCEPT ![o] = Append(@, expected[o][Len(@) + 1])]
  /\ UNCHANGED <<expected, run>>

\* run() returns, nothing being owed.
Return ==
  /\ run = "running"
  /\ received = expected
  /\ run' = "returned"
  /\ UNCHANGED <<expected, received>>

Next == Return \/ \E o \in Receivers : Receive(o)

\* Nothing but the promised steps, and in the end run() returns.
Spec == Init /\ [][Next]_vars /\ <>(run = "returned")
=============================================================================
