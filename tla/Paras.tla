-------------------------------- MODULE Paras --------------------------------
(***************************************************************************)
(* What the paras of functionflow promise a program, without threads,      *)
(* queues or a runtime: a para called is run once, after the condition it  *)
(* was given, and is over when its function has returned.                  *)
(***************************************************************************)
EXTENDS Sequences

CONSTANTS
  Tasks,
  Main,     \* the thread that ends with the program
  Program,  \* what each of them does: a sequence of operations
  After     \* the condition each task was given

VARIABLES
  status,   \* of each task: new, due, running, over
  returned  \* the program has ended, the runtime with it

vars == <<status, returned>>

Init ==
  /\ status = [c \in Tasks |-> "new"]
  /\ returned = FALSE

Over(c) == IF c.op = "all" THEN \A d \in c.of : status[d] = "over"
                           ELSE \E d \in c.of : status[d] = "over"

\* What p did is done: each task it had to schedule was, each wait was over.
Through(p) == \A i \in DOMAIN Program[p] :
  LET op == Program[p][i] IN
  CASE op.op = "go"           -> \A c \in op.of : status[c] # "new"
    [] op.op \in {"all", "any"} -> Over(op)
    [] OTHER                   -> TRUE

Move(c, from, to) == status[c] = from /\ status' = [status EXCEPT ![c] = to] /\ UNCHANGED returned

Schedule(c) == Move(c, "new", "due")
Start(c)    == Move(c, "due", "running") /\ Over(After[c])
Finish(c)   == Move(c, "running", "over") /\ Through(c)

\* The program ends with its threads: no function is left in the middle.
Return ==
  /\ Through(Main)
  /\ \A c \in Tasks : status[c] # "running"
  /\ returned' = TRUE
  /\ UNCHANGED status

Next == Return \/ \E c \in Tasks : Schedule(c) \/ Start(c) \/ Finish(c)

Spec == Init /\ [][Next]_vars /\ <>returned
=============================================================================
