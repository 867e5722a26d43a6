------------------------------ MODULE MCRuntime ------------------------------
(***************************************************************************)
(* A program for model checking the runtime: a foreign thread leaves a     *)
(* task behind, a task schedules another and waits for it, and a para is   *)
(* given both as its condition.                                            *)
(***************************************************************************)
EXTENDS Runtime

MCTeam    == <<"main", "w1", "w2">>
MCForeign == {"x"}
MCSetups  == {{"main", "x"}, {"main", "w1", "x"}, {"main", "w1", "w2", "x"}}
MCTasks   == {"a", "b", "c", "d"}
MCProgram == [
  main |-> <<Join("x"), Go("a"), Go("b"), Any({"b"})>>,
  a    |-> <<Go("c"), All({"c"})>>,
  b    |-> <<>>,
  c    |-> <<>>,
  x    |-> <<Go("d")>>,
  d    |-> <<>>]
MCAfter == [a |-> Always, b |-> All({"a", "d"}), c |-> Always, d |-> Always]
=============================================================================
