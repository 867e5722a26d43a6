------------------------------- MODULE SpinLock -------------------------------
(***************************************************************************)
(* spinlock of include/ff/functionflow/utilities/spin_lock.h, as the       *)
(* lock_guards of paracontainer.h and spin_steal_queue.h use it.           *)
(***************************************************************************)
CONSTANT Threads

VARIABLES
  flag,  \* the atomic_flag
  at     \* each thread: outside, in lock(), or inside the guarded block

vars == <<flag, at>>

Init == flag = FALSE /\ at = [t \in Threads |-> "outside"]

Enter(t) ==
  /\ at[t] = "outside"
  /\ at' = [at EXCEPT ![t] = "lock"]
  /\ UNCHANGED flag

\* lock(): a turn sets the flag; the loop goes on while it was NOT set before.
Lock(t) ==
  /\ at[t] = "lock"
  /\ flag' = TRUE
  /\ at' = [at EXCEPT ![t] = IF flag THEN "inside" ELSE "lock"]

\* try_lock(): inside if the flag was not set before.
TryLock(t) ==
  /\ at[t] = "outside"
  /\ flag' = TRUE
  /\ at' = [at EXCEPT ![t] = IF flag THEN "outside" ELSE "inside"]

Unlock(t) ==
  /\ at[t] = "inside"
  /\ flag' = FALSE
  /\ at' = [at EXCEPT ![t] = "outside"]

Next == \E t \in Threads : Enter(t) \/ Lock(t) \/ TryLock(t) \/ Unlock(t)

Spec == Init /\ [][Next]_vars

\* "class spin_lock" (line 51): the blocks two guards protect never overlap, as
\* try_lock (lines 47-49) has it.
MutualExclusion ==
  \A s, t \in Threads : at[s] = "inside" /\ at[t] = "inside" => s = t
=============================================================================
