------------------------------- MODULE Channel -------------------------------
(***************************************************************************)
(* What a TCP connection of the net library promises its two programs: the *)
(* packages one sends come out at the other, whole, once and in order, and *)
(* all of them unless the connection breaks.                               *)
(***************************************************************************)
EXTENDS Integers, Sequences

CONSTANT Packages

VARIABLES
  sent,    \* the packages the connection took from send()
  got,     \* the packages the handlers of the other side were called with
  broken

vars == <<sent, got, broken>>

Init == sent = <<>> /\ got = <<>> /\ broken = FALSE

Send(p) == sent' = Append(sent, p) /\ UNCHANGED <<got, broken>>

\* One read may complete several packages.
Deliver ==
  /\ \E n \in Len(got) + 1 .. Len(sent) : got' = SubSeq(sent, 1, n)
  /\ UNCHANGED <<sent, broken>>

Break == broken' = TRUE /\ UNCHANGED <<sent, got>>

Next == Deliver \/ Break \/ \E p \in Packages : Send(p)

Spec == Init /\ [][Next]_vars /\ []<>(got = sent \/ broken)
=============================================================================
