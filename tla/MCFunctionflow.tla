--------------------------- MODULE MCFunctionflow ---------------------------
(***************************************************************************)
(* For TLC: the two queues of a thread, a group or a container of paras,   *)
(* and the values that waits hand on.  They share no state here; each      *)
(* behaviour is one of one part, chosen in its first state, and leaves the *)
(* others as they are.                                                     *)
(***************************************************************************)
EXTENDS WorkStealingQueue, Functionflow

VARIABLE part

dequeVars == vars

Parts == {"deque", "simo", "groups", "then"}

MCInit ==
  /\ part \in Parts
  /\ Init /\ Simo!Init /\ Group!Init /\ Then!Init
  /\ part # "groups" => kind = "group"
  /\ part # "then" => returns = [k \in Then!P |-> TRUE]

\* A value is pushed when all smaller ones were: no two values differ for a queue.
InOrder(spot, val, before) == spot = "write" => val = Cardinality(before) + 1

MCNext ==
  /\ UNCHANGED part
  /\ \/ /\ part = "deque" /\ Next /\ InOrder(own'.at, own'.val, put)
        /\ UNCHANGED <<simoVars, groupVars, thenVars>>
     \/ /\ part = "simo" /\ Simo!Next /\ InOrder(prod'.at, prod'.val, given)
        /\ UNCHANGED <<dequeVars, groupVars, thenVars>>
     \/ /\ part = "groups" /\ Group!Next
        /\ UNCHANGED <<dequeVars, simoVars, thenVars>>
     \/ /\ part = "then" /\ Then!Next
        /\ UNCHANGED <<dequeVars, simoVars, groupVars>>

allVars == <<part, dequeVars, simoVars, groupVars, thenVars>>

\* The fairness of each module.
MCSpec ==
  /\ MCInit /\ [][MCNext]_allVars
  /\ Group!Fairness
  /\ Then!Fairness

-----------------------------------------------------------------------------
MCCallerIds == {-1, 0, 1}
=============================================================================
