------------------------------ MODULE WaitResults ------------------------------
(***************************************************************************)
(* What the then() of a para, of p1 && p2 and of p1 || p2 hands to its     *)
(* function: wait_impl.h, bin_wait_func_deducer.h, para_helper.h, para.h   *)
(* and para_impl.h under include/ff/functionflow/para/.  A thread of the   *)
(* pool runs the paras while another asks, picks an index and copies the   *)
(* values, one access at a time.                                           *)
(***************************************************************************)
EXTENDS Integers, Sequences

CONSTANTS
  MaxImpls  \* bound: functions started

P == {1, 2}

VARIABLES
  returns,  \* does the function of each para return a value, or is it void
  paras,    \* m_pImpl of each para: the number of an impl; 0 is nullptr
  impls,    \* each para_impl: its m_iES and m_oRet
  wait      \* the wait object, and what its then() has got so far

vars == <<returns, paras, impls, wait>>

NoWait == [at |-> "none", sort |-> "para", of |-> [k \in P |-> 0],
           index |-> 0, got |-> [k \in P |-> "none"]]

Init ==
  /\ returns \in [P -> BOOLEAN]
  /\ paras = [k \in P |-> 0]
  /\ impls = <<>>
  /\ wait = NoWait

-----------------------------------------------------------------------------
\* The paras belong to the thread that waits: while it asks it runs other
\* functions, which may start paras, and between its last question and the call
\* of its function it does nothing else.
Start(k) ==
  /\ Len(impls) < MaxImpls
  /\ wait.at \in {"none", "ask"}
  /\ impls' = Append(impls, [state |-> "init", value |-> "default"])
  /\ paras' = [paras EXCEPT ![k] = Len(impls')]
  /\ UNCHANGED <<returns, wait>>

\* p(f): exe() throws used_para_exception if there is an impl already.
Exe(k) == paras[k] = 0 /\ Start(k)

\* p[cond](f) puts a new impl over one that is there.
ExeUnderCondition(k) == paras[k] # 0 /\ Start(k)

\* run(): m_oRet.set(m_oFunc()) between the two stores of m_iES.
Run(i) ==
  /\ impls[i].state = "init"
  /\ impls' = [impls EXCEPT ![i].state = "run"]
  /\ UNCHANGED <<returns, paras, wait>>

SetReturn(i) ==
  /\ impls[i].state = "run"
  /\ impls[i].value # "set"
  /\ impls' = [impls EXCEPT ![i].value = IF @ = "default" THEN "torn" ELSE "set"]
  /\ UNCHANGED <<returns, paras, wait>>

\* Faulty: over before the value is set.
StoreOverEarly(i) ==
  /\ impls[i].state = "run"
  /\ impls' = [impls EXCEPT ![i].state = "over"]
  /\ UNCHANGED <<returns, paras, wait>>

StoreOver(i) ==
  /\ impls[i].state = "run"
  /\ impls[i].value = "set"
  /\ impls' = [impls EXCEPT ![i].state = "over"]
  /\ UNCHANGED <<returns, paras, wait>>

-----------------------------------------------------------------------------
\* wait_and and wait_or copy the paras, an empty one too; then() of a para
\* refers to the para.
Combine(sort) ==
  /\ wait.at = "none"
  /\ wait' = [wait EXCEPT !.at = "ask", !.sort = sort, !.of = paras]
  /\ UNCHANGED <<returns, paras, impls>>

Impl(k) == IF wait.sort = "para" THEN paras[k] ELSE wait.of[k]

StateOf(k) == IF Impl(k) = 0 THEN "empty" ELSE impls[Impl(k)].state

\* get_state reads the first para and then the second, and each throws if it is
\* empty; with states that only move towards over the two reads are one step.
IsOver ==
  CASE wait.sort = "para" -> StateOf(1) = "over"
    [] wait.sort = "and"  -> StateOf(1) = "over" /\ StateOf(2) = "over"
    [] wait.sort = "or"   -> StateOf(1) = "over" \/ StateOf(2) = "over"

\* Faulty: a para that has not begun counts as empty.
AskInit ==
  /\ wait.at = "ask"
  /\ wait' = [wait EXCEPT !.at =
       IF wait.sort # "para" /\ {StateOf(1), StateOf(2)} \cap {"empty", "init"} # {} THEN "thrown"
       ELSE IF ~IsOver THEN "ask"
       ELSE IF wait.sort = "or" THEN "index" ELSE "get"]
  /\ UNCHANGED <<returns, paras, impls>>

Ask ==
  /\ wait.at = "ask"
  /\ wait' = [wait EXCEPT !.at =
       IF wait.sort # "para" /\ "empty" \in {StateOf(1), StateOf(2)} THEN "thrown"
       ELSE IF ~IsOver THEN "ask"
       ELSE IF wait.sort = "or" THEN "index" ELSE "get"]
  /\ UNCHANGED <<returns, paras, impls>>

\* The index of or_type: the first para that is over.  With one void para it
\* is a flag that says that the other one is over; with two there is none.
PickIndex ==
  /\ wait.at = "index"
  /\ LET both == returns[1] /\ returns[2]
         flag == CHOOSE k \in P : returns[k]
     IN  wait' = [wait EXCEPT !.at = "get", !.index =
           IF both THEN IF StateOf(1) = "over" THEN 1
                        ELSE IF StateOf(2) = "over" THEN 2 ELSE 1
           ELSE IF (\E k \in P : returns[k]) /\ StateOf(flag) = "over" THEN flag
           ELSE 0]
  /\ UNCHANGED <<returns, paras, impls>>

Wanted(k) == returns[k] /\ wait.got[k] = "none" /\ (k = 1 \/ wait.sort # "para")

\* get() of each para that returns a value, over or not, in the order that the
\* compiler gives the arguments of make_tuple; each value is copied.
Get(k) ==
  /\ wait.at = "get"
  /\ Wanted(k)
  /\ wait' = [wait EXCEPT !.got[k] = impls[Impl(k)].value]
  /\ UNCHANGED <<returns, paras, impls>>

CallFunction ==
  /\ wait.at = "get"
  /\ \A k \in P : ~Wanted(k)
  /\ wait' = [wait EXCEPT !.at = "called"]
  /\ UNCHANGED <<returns, paras, impls>>

Pool  == \E i \in DOMAIN impls : Run(i) \/ SetReturn(i) \/ StoreOver(i)
Waits == Ask \/ PickIndex \/ (\E k \in P : Get(k)) \/ CallFunction

Next ==
  \/ \E k \in P : Exe(k) \/ ExeUnderCondition(k)
  \/ Pool
  \/ \E sort \in {"para", "and", "or"} : Combine(sort)
  \/ Waits

\* The pool has threads, and a waiting function asks again and again.
Fairness == WF_vars(Pool) /\ WF_vars(Waits)

Spec == Init /\ [][Next]_vars /\ Fairness

-----------------------------------------------------------------------------
\* then() calls its function only when what it waited for has ended, and the
\* function may use every value it is told of: both of p1 && p2, the one that
\* the index or the flag of p1 || p2 names.  The other value of p1 || p2 may be
\* read while it is written.
ToldIsSet ==
  wait.at = "called" =>
    /\ wait.sort = "para" /\ returns[1] => wait.got[1] = "set"
    /\ wait.sort = "and"  => \A k \in P : StateOf(k) = "over"
                                           /\ (returns[k] => wait.got[k] = "set")
    /\ wait.sort = "or"   => /\ \E k \in P : StateOf(k) = "over"
                             /\ wait.index # 0 => wait.got[wait.index] = "set"
                             /\ wait.index = 0 => ~(returns[1] /\ returns[2])

\* A wait for paras that were started, and only those, comes to its function.
ThenIsReached ==
  \A sort \in {"and", "or"} :
    (wait.at = "ask" /\ wait.sort = sort /\ 0 \notin {wait.of[k] : k \in P})
      ~> (wait.at = "called")
=============================================================================
