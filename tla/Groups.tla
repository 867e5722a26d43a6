-------------------------------- MODULE Groups --------------------------------
(***************************************************************************)
(* paragroup and paracontainer of include/ff/functionflow/para/ with the   *)
(* waits all() and any() of wait.cpp.  One thread calls for_each, which    *)
(* cuts a range into paras, adds and clears, and waits; the threads of the *)
(* pool execute the paras in any order.                                    *)
(* A group and a container share nothing, so a behaviour has one of them.  *)
(* A list stands for a paras_with_lock; the walks of the waits over it are *)
(* one step, since the state of a para only moves towards over.            *)
(***************************************************************************)
EXTENDS Integers, Sequences, SequencesExt

CONSTANTS
  Concurrency,  \* rt::concurrency()
  CallerIds,    \* what rt::get_thrd_id() may give the calling thread
  Counts,       \* bound: the lengths of the ranges
  MaxRanges,    \* bound: calls of for_each
  MaxAdded,     \* bound: paras added to the container
  MaxWaits      \* bound: waits made

VARIABLES
  kind,              \* what the program has: a "group" or a "container"
  entities,          \* its m_pEntities: the number of a list; 0 is null
  lists,             \* each list: the numbers of its paras
  paras,             \* each para: its chunk [from, to) of a range, its state
  done,              \* history: how often each index of each range was executed
  call,              \* the call of for_each that is under way, or was the last
  waits              \* wait_all and wait_any objects

vars == <<kind, entities, lists, paras, done, call, waits>>

least(a, b) == IF a < b THEN a ELSE b

NoCall == [at |-> "idle", iterator |-> "random", me |-> 0, end |-> 0, t |-> 0,
           thrd |-> 0, counter |-> 0]

Init ==
  /\ \/ kind = "group" /\ entities = 0 /\ lists = <<>>
     \/ kind = "container" /\ entities = 1 /\ lists = <<<<>>>>
  /\ paras = <<>>
  /\ done = <<>>
  /\ call = NoCall
  /\ waits = <<>>

\* A function applied to each index from..to-1, in the history.
ExecuteAll(counts, from, to) ==
  [i \in DOMAIN counts |-> IF i \in from .. to - 1 THEN counts[i] + 1 ELSE counts[i]]

-----------------------------------------------------------------------------
\* for_each over a range of n indices: the group gets a new list, and what the
\* old one held is no longer the group's.
ForEach(iterator, n, me) ==
  /\ kind = "group"
  /\ call.at = "idle"
  /\ Len(done) < MaxRanges
  /\ lists' = Append(lists, <<>>)
  /\ entities' = Len(lists')
  /\ done' = Append(done, [i \in 0 .. n - 1 |-> 0])
  /\ call' = [NoCall EXCEPT !.at = "split", !.iterator = iterator, !.me = me, !.end = n]
  /\ UNCHANGED <<kind, paras, waits>>

Step  == call.end \div Concurrency
Spare == call.end % Concurrency

NewPara(from, to) ==
  /\ paras' = Append(paras, [range |-> Len(done), from |-> from, to |-> to,
                             state |-> "init"])
  /\ lists' = [lists EXCEPT ![entities] = Append(@, Len(paras'))]

\* Arithmetic and random-access iterators: thrd_id moves before it is compared,
\* the step is the same for all and what is left over stays with the caller.
SplitsRandom ==
  call.iterator = "random" /\ Step # 0 /\ call.t # call.end /\ call.thrd < Concurrency

CutRandom ==
  /\ call.at = "split"
  /\ SplitsRandom
  /\ call.thrd + 1 # call.me
  /\ LET to == least(call.t + Step, call.end)
     IN  /\ NewPara(call.t, to)
         /\ call' = [call EXCEPT !.t = to, !.thrd = @ + 1]
  /\ UNCHANGED <<kind, entities, done, waits>>

\* Other iterators: the first (count % concurrency) chunks are one longer.
SplitsGeneral ==
  call.iterator = "general" /\ call.t # call.end /\ call.thrd < Concurrency

CutGeneral ==
  /\ call.at = "split"
  /\ SplitsGeneral
  /\ call.thrd # call.me
  /\ LET size == IF call.counter < Spare THEN Step + 1 ELSE Step
         to   == least(call.t + size, call.end)
     IN  /\ NewPara(call.t, to)
         /\ call' = [call EXCEPT !.t = to, !.thrd = @ + 1, !.counter = @ + 1]
  /\ UNCHANGED <<kind, entities, done, waits>>

\* Either loop passes over the id of the calling thread.
SkipMyself ==
  /\ call.at = "split"
  /\ \/ SplitsRandom  /\ call.thrd + 1 = call.me
     \/ SplitsGeneral /\ call.thrd = call.me
  /\ call' = [call EXCEPT !.thrd = @ + 1]
  /\ UNCHANGED <<kind, entities, lists, paras, done, waits>>

\* Faulty: the caller executes a chunk like any other.
CallerExecutesStep ==
  /\ call.at = "split"
  /\ ~SplitsRandom /\ ~SplitsGeneral
  /\ done' = [done EXCEPT ![Len(done)] = ExecuteAll(@, call.t, least(call.t + Step, call.end))]
  /\ call' = [call EXCEPT !.at = "idle"]
  /\ UNCHANGED <<kind, entities, lists, paras, waits>>

\* The second loop: the caller executes what was not cut, and returns.
CallerExecutes ==
  /\ call.at = "split"
  /\ ~SplitsRandom /\ ~SplitsGeneral
  /\ done' = [done EXCEPT ![Len(done)] = ExecuteAll(@, call.t, call.end)]
  /\ call' = [call EXCEPT !.at = "idle"]
  /\ UNCHANGED <<kind, entities, lists, paras, waits>>

ClearGroup ==
  /\ call.at = "idle"
  /\ kind = "group"
  /\ entities # 0
  /\ entities' = 0
  /\ UNCHANGED <<kind, lists, paras, done, call, waits>>

\* ~paragroup waits with a wait_all of its own for the list it has last.
DestroyGroup ==
  /\ call.at = "idle"
  /\ Len(done) > 0
  /\ waits' = Append(waits, [sort |-> "all", list |-> entities, es |-> "wait",
                             saw |-> <<>>])
  /\ call' = [call EXCEPT !.at = "destroy"]
  /\ UNCHANGED <<kind, entities, lists, paras, done>>

GroupDestroyed ==
  /\ call.at = "destroy"
  /\ Last(waits).es = "over"
  /\ call' = [call EXCEPT !.at = "gone"]
  /\ entities' = 0
  /\ UNCHANGED <<kind, lists, paras, done, waits>>

-----------------------------------------------------------------------------
\* add(f) starts a para; add(p) may be given one that was never started.
Add(state) ==
  /\ kind = "container"
  /\ call.at = "idle"
  /\ Len(paras) < MaxAdded
  /\ paras' = Append(paras, [range |-> 0, from |-> 0, to |-> 0, state |-> state])
  /\ lists' = [lists EXCEPT ![entities] = Append(@, Len(paras'))]
  /\ UNCHANGED <<kind, entities, done, call, waits>>

ClearContainer ==
  /\ kind = "container"
  /\ call.at = "idle"
  /\ lists[entities] # <<>>
  /\ lists' = [lists EXCEPT ![entities] = <<>>]
  /\ UNCHANGED <<kind, entities, paras, done, call, waits>>

-----------------------------------------------------------------------------
\* all(pg), any(pg), all(pc), any(pc): the wait shares the list of the moment.
MakeWait(sort) ==
  /\ call.at = "idle"
  /\ Len(waits) < MaxWaits
  /\ waits' = Append(waits, [sort |-> sort, list |-> entities, es |-> "wait",
                             saw |-> <<>>])
  /\ UNCHANGED <<kind, entities, lists, paras, done, call>>

StatesOf(list) == {paras[p].state : p \in Range(lists[list])}

\* Faulty: folded with exe_state_or.
AllStateOr(list) ==
  IF list = 0 THEN "over"
  ELSE IF "empty" \in StatesOf(list) THEN "thrown"
  ELSE IF "over" \in StatesOf(list) THEN "over"
  ELSE "wait"

\* get_state: exe_state_and and exe_state_or folded over the list; either
\* throws at a para that was never started.
AllState(list) ==
  IF list = 0 THEN "over"
  ELSE IF "empty" \in StatesOf(list) THEN "thrown"
  ELSE IF StatesOf(list) \subseteq {"over"} THEN "over"
  ELSE "wait"

AnyState(list) ==
  IF list = 0 \/ lists[list] = <<>> THEN "over"
  ELSE IF "empty" \in StatesOf(list) THEN "thrown"
  ELSE IF "over" \in StatesOf(list) THEN "over"
  ELSE "wait"

\* check_if_over, by the caller of then() or by a para whose condition it is.
CheckIfOver(w) ==
  /\ waits[w].es \notin {"over", "thrown"}
  /\ LET list == waits[w].list
         es   == IF waits[w].sort = "all" THEN AllState(list) ELSE AnyState(list)
     IN  waits' = [waits EXCEPT ![w].es = es,
                     ![w].saw = IF list = 0 \/ es # "over" THEN @ ELSE lists[list]]
  /\ UNCHANGED <<kind, entities, lists, paras, done, call>>

-----------------------------------------------------------------------------
\* A thread of the pool: run() of a para, which executes its chunk.
RunPara(p) ==
  /\ paras[p].state = "init"
  /\ paras' = [paras EXCEPT ![p].state = "run"]
  /\ UNCHANGED <<kind, entities, lists, done, call, waits>>

ParaOver(p) ==
  /\ paras[p].state = "run"
  /\ paras' = [paras EXCEPT ![p].state = "over"]
  /\ IF paras[p].range = 0 THEN UNCHANGED done
     ELSE done' = [done EXCEPT ![paras[p].range] =
                     ExecuteAll(@, paras[p].from, paras[p].to)]
  /\ UNCHANGED <<kind, entities, lists, call, waits>>

Pool   == \E p \in DOMAIN paras : RunPara(p) \/ ParaOver(p)
Caller == CutRandom \/ CutGeneral \/ SkipMyself \/ CallerExecutes

Next ==
  \/ \E iterator \in {"random", "general"}, n \in Counts, me \in CallerIds :
       ForEach(iterator, n, me)
  \/ Caller
  \/ ClearGroup \/ DestroyGroup \/ GroupDestroyed
  \/ \E state \in {"init", "empty"} : Add(state)
  \/ ClearContainer
  \/ \E sort \in {"all", "any"} : MakeWait(sort)
  \/ \E w \in DOMAIN waits : CheckIfOver(w)
  \/ Pool

\* A call of for_each that has begun goes on, and so does a para.  That one is taken
\* from the queue is certain only while somebody waits: schedule() wakes no worker
\* unless two are asleep, but a wait runs tasks between its tests, until it is over.
Waited == call.at = "destroy" /\ Last(waits).es # "over"
Fairness ==
  /\ WF_vars(Caller) /\ WF_vars(GroupDestroyed)
  /\ WF_vars(\E p \in DOMAIN paras : ParaOver(p))
  /\ WF_vars(Waited /\ Pool) /\ WF_vars(Waited /\ CheckIfOver(Len(waits)))

Spec == Init /\ [][Next]_vars /\ Fairness

-----------------------------------------------------------------------------
Executed(range) ==
  range \in DOMAIN done /\ \A i \in DOMAIN done[range] : done[range][i] = 1

\* A wait is over only when what it waits for is: all() when each para of its
\* list has executed every index of its chunk, any() when one has; and then the
\* for_each behind a list of the group has executed its range exactly once,
\* whatever the concurrency, the count and the id of the calling thread.
WaitsAreTrue ==
  \A w \in DOMAIN waits : waits[w].es = "over" =>
    LET over == {p \in Range(waits[w].saw) : paras[p].state = "over"}
    IN  IF waits[w].sort = "all"
        THEN /\ over = Range(waits[w].saw)
             /\ \A p \in over : paras[p].range # 0 => Executed(paras[p].range)
        ELSE waits[w].saw # <<>> => over # {}

\* for_each executes no index twice, whatever is cleared, added or destroyed
\* meanwhile; and ~paragroup returns, when every index of the range the group had
\* last was executed.  A range the group let go of, by clear() or another for_each,
\* may stay unfinished.
EveryIndexOnce ==
  /\ []\A r \in DOMAIN done : \A i \in DOMAIN done[r] : done[r][i] <= 1
  /\ \A r \in 0 .. MaxRanges :
       (call.at = "destroy" /\ Last(waits).list = r) ~> (call.at = "gone" /\ (r # 0 => Executed(r)))
=============================================================================
