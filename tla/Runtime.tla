------------------------------- MODULE Runtime -------------------------------
(***************************************************************************)
(* The functionflow runtime (runtime.cpp, runtime.h) and the paras it runs *)
(* (para.h, para_impl.h, para_accepted_wait.h, wait_impl.h, wait.cpp):     *)
(* threads that schedule tasks, wait for them by running others meanwhile, *)
(* steal, fall asleep and are stopped.                                     *)
(*                                                                         *)
(* A task's function is a program: a sequence of operations that schedule  *)
(* a task or wait for some.  The queues are the sequences that             *)
(* WorkStealingQueue and SimoQueue implement, one operation a step, but    *)
(* for a steal, which can lose its race.                                   *)
(***************************************************************************)
EXTENDS Integers, Sequences, FiniteSets

CONSTANTS
  Team,     \* threads init() may set up, in the order of their ids, the caller first
  Foreign,  \* threads of the program that the runtime did not make
  Setups,   \* the sets of threads a program may have: some first ones of Team, and foreign ones
  Tasks,
  Program,  \* what each task, the main thread and each foreign thread does
  After,    \* After[c]: the condition of p[cond](f), or Always for p(f)
  Room,     \* how many values a ring takes: MASK, 255, of both queues
  Tries     \* the start of retry_counter, 3

Main    == Team[1]
Workers == {Team[i] : i \in 2 .. Len(Team)}
Threads == {Main} \cup Workers \cup Foreign

\* Conditions: all (and, wait_all) or any (or, wait_any) of some tasks.
All(S) == [op |-> "all", of |-> S]
Any(S) == [op |-> "any", of |-> S]
Always == All({})
Conditions == {All(S) : S \in SUBSET Tasks} \cup {Any(S) : S \in SUBSET Tasks \ {{}}}
Go(c) == [op |-> "go", of |-> {c}]
Join(x) == [op |-> "join", of |-> {x}]  \* std::thread::join
Operations == {Go(c) : c \in Tasks} \cup {Join(x) : x \in Foreign} \cup Conditions

\* A foreign thread schedules before it waits: take_one_task would otherwise
\* use its id before it has one.  The main thread joins the threads it made.  Each
\* call of a para makes an impl of its own and schedules that, so a task stands
\* in one operation only, and the loops of a program are unrolled.
ASSUME ProgramAssumption ==
  /\ Room \in Nat \ {0} /\ Tries \in Nat \ {0}
  /\ Len(Team) > 0 /\ Team \in Seq({Main} \cup Workers)
  /\ \A i, j \in DOMAIN Team : Team[i] = Team[j] => i = j
  /\ Workers \cap Foreign = {} /\ Main \notin Foreign /\ Tasks \cap Threads = {}
  /\ \A S \in Setups : \E n \in DOMAIN Team, X \in SUBSET Foreign :
       S = {Team[i] : i \in 1 .. n} \cup X
  /\ Program \in [Tasks \cup {Main} \cup Foreign -> Seq(Operations)]
  /\ \A x \in Foreign : Program[x] # <<>> => Head(Program[x]).op = "go"
  /\ \A x \in Foreign : \E i \in DOMAIN Program[Main] : Program[Main][i] = Join(x)
  /\ After \in [Tasks -> Conditions]
  /\ \A f, g \in DOMAIN Program : \A i \in DOMAIN Program[f], j \in DOMAIN Program[g] :
       Program[f][i].op = "go" /\ Program[f][i] = Program[g][j] => f = g /\ i = j

VARIABLES
  state,     \* m_iES of each task, "none" before its para is called
  ready,     \* m_oQueues
  waiting,   \* m_oWQueues
  place,     \* the index of a thread's queues, one more than s_id: 0 for invalid_thrd_id
  frames,    \* the functions each thread is inside, the innermost first
  at,        \* where in the runtime's code each thread is
  got,       \* pTask
  plan,      \* the queues take_one_task has still to look at
  odd,       \* whether ct is odd
  retry,     \* retry_counter
  sleepers,  \* m_sleep_counter
  quit       \* m_bAllThreadsQuit

queueVars == <<ready, waiting>>
takeVars  == <<plan, odd>>
sleepVars == <<retry, sleepers, quit>>
vars == <<state, queueVars, place, frames, at, got, takeVars, sleepVars>>

Spots == {"body", "notify", "wakeone", "own", "scan", "grab", "run", "again",
          "check", "lock", "falling", "asleep", "waking", "exit", "call", "join", "done"}

Call(f) == [fun |-> f, pc |-> 1]

\* The runtime once init() has run with some concurrency, every thread at its
\* start: a thread this program does not have is done.
Init ==
  /\ \E S \in Setups :
       /\ ready = [i \in 1 .. Cardinality(S \ Foreign) |-> <<>>]
       /\ place = [t \in Threads |-> IF t \in S \ Foreign THEN CHOOSE i \in DOMAIN Team : Team[i] = t ELSE 0]
       /\ at = [t \in Threads |-> IF t \notin S THEN "done" ELSE IF t \in Workers THEN "check" ELSE "body"]
  /\ waiting = ready
  /\ state = [c \in Tasks |-> "none"]
  /\ frames = [t \in Threads |-> IF t \in Workers THEN <<>> ELSE <<Call(t)>>]
  /\ got = [t \in Threads |-> "none"]
  /\ plan = [t \in Threads |-> <<>>]
  /\ odd = [t \in Threads |-> FALSE]
  /\ retry = [t \in Threads |-> Tries]
  /\ sleepers = 0
  /\ quit = FALSE

-----------------------------------------------------------------------------
\* The function a thread is inside, and its next operation.
Top(t)   == Head(frames[t])
Ended(t) == Top(t).pc > Len(Program[Top(t).fun])
Op(t)    == Program[Top(t).fun][Top(t).pc]
Past(t)  == [frames EXCEPT ![t] = <<[Top(t) EXCEPT !.pc = @ + 1]>> \o Tail(@)]
AtOp(t, op) == at[t] = "body" /\ ~Ended(t) /\ Op(t).op = op

\* get_state() = exe_over of a condition on paras that were called.
Over(c) == IF c.op = "all" THEN \A d \in c.of : state[d] = "over"
                           ELSE \E d \in c.of : state[d] = "over"

Goto(t, spot) == at' = [at EXCEPT ![t] = spot]

\* What a local variable holds when it is no longer read is left out.
Drop(t) == got' = [got EXCEPT ![t] = "none"]

-----------------------------------------------------------------------------
\* para::exe or para_accepted_wait, then schedule().

\* The first schedule() of a foreign thread gives it queues of its own.
Register(t) ==
  /\ AtOp(t, "go") /\ place[t] = 0
  /\ ready' = Append(ready, <<>>) /\ waiting' = Append(waiting, <<>>)
  /\ place' = [place EXCEPT ![t] = Len(ready) + 1]
  /\ UNCHANGED <<state, frames, at, got, takeVars, sleepVars>>

\* Faulty: the task that did not fit is dropped.
ScheduleDrops(t) ==
  /\ AtOp(t, "go") /\ place[t] # 0
  /\ \E c \in Op(t).of :
       /\ state' = [state EXCEPT ![c] = "init"]
       /\ IF Len(ready[place[t]]) < Room
          THEN ready' = [ready EXCEPT ![place[t]] = Append(@, c)]
          ELSE UNCHANGED ready
  /\ frames' = Past(t) /\ Goto(t, "notify")
  /\ UNCHANGED <<waiting, place, got, takeVars, sleepVars>>

\* The task goes to the thread's own queue, or is run at once when that is full.
Schedule(t) ==
  /\ AtOp(t, "go") /\ place[t] # 0
  /\ \E c \in Op(t).of :
       /\ state' = [state EXCEPT ![c] = "init"]
       /\ IF Len(ready[place[t]]) < Room
          THEN /\ ready' = [ready EXCEPT ![place[t]] = Append(@, c)]
               /\ Goto(t, "notify") /\ UNCHANGED got
          ELSE /\ got' = [got EXCEPT ![t] = c]
               /\ Goto(t, "run") /\ UNCHANGED ready
  /\ frames' = Past(t)
  /\ UNCHANGED <<waiting, place, takeVars, sleepVars>>

Notify(t) ==
  /\ at[t] = "notify"
  /\ Goto(t, IF sleepers > 1 THEN "wakeone" ELSE "body")
  /\ UNCHANGED <<state, queueVars, place, frames, got, takeVars, sleepVars>>

\* notify_one, without the mutex: one of those inside wait(), if any.
Asleep == {s \in Threads : at[s] = "asleep"}
WakeOne(t) ==
  /\ at[t] = "wakeone"
  /\ IF Asleep = {} THEN Goto(t, "body")
     ELSE \E s \in Asleep : at' = [at EXCEPT ![t] = "body", ![s] = "waking"]
  /\ UNCHANGED <<state, queueVars, place, frames, got, takeVars, sleepVars>>

-----------------------------------------------------------------------------
\* then() of a para, a combination or a group: check_if_over, and until it is,
\* yield_and_ret_until takes and runs other tasks on top of this one.
Wait(t) ==
  /\ AtOp(t, "all") \/ AtOp(t, "any")
  /\ IF Over(Op(t)) THEN frames' = Past(t) /\ UNCHANGED at
                    ELSE Goto(t, "own") /\ UNCHANGED frames
  /\ UNCHANGED <<state, queueVars, place, got, takeVars, sleepVars>>

\* take_one_task: the thread's own queue first, from its back; then its queue of
\* waiting tasks and, in turn, every other thread's two queues, in the order
\* the parity of ct says.
Look(from, i) == [from |-> from, i |-> i]
Mine(t) == <<Look("waiting", place[t])>>
Others(t) ==
  [j \in 1 .. 2 * (Len(ready) - 1) |->
     Look(IF j % 2 = 1 THEN "ready" ELSE "waiting", ((place[t] - 1 + (j + 1) \div 2) % Len(ready)) + 1)]
PlanMineFirst(t) == Mine(t) \o Others(t)  \* faulty: never looks at the others first
Plan(t) == IF odd[t] THEN Mine(t) \o Others(t) ELSE Others(t) \o Mine(t)

Own(t) ==
  /\ at[t] = "own"
  /\ LET q == ready[place[t]] IN
     IF q # <<>>
     THEN /\ got' = [got EXCEPT ![t] = q[Len(q)]]
          /\ ready' = [ready EXCEPT ![place[t]] = SubSeq(q, 1, Len(q) - 1)]
          /\ Goto(t, "run") /\ UNCHANGED takeVars
     ELSE /\ odd' = [odd EXCEPT ![t] = ~@]
          /\ plan' = [plan EXCEPT ![t] = Plan(t)]
          /\ Goto(t, "scan") /\ UNCHANGED <<got, ready>>
  /\ UNCHANGED <<state, waiting, place, frames, sleepVars>>

\* The next queue of the plan: empty, a waiting task to take, or a task to steal.
Front(t) == Head(plan[t])
Skip(t)  == plan' = [plan EXCEPT ![t] = Tail(@)]
Found(t) == plan' = [plan EXCEPT ![t] = <<>>] /\ Goto(t, "run")

Scan(t) ==
  /\ at[t] = "scan" /\ plan[t] # <<>>
  /\ LET q == IF Front(t).from = "ready" THEN ready[Front(t).i] ELSE waiting[Front(t).i] IN
     CASE q = <<>> -> Skip(t) /\ UNCHANGED <<at, got, waiting>>
       [] q # <<>> /\ Front(t).from = "waiting" ->
            /\ got' = [got EXCEPT ![t] = Head(q)]
            /\ waiting' = [waiting EXCEPT ![Front(t).i] = Tail(q)]
            /\ Found(t)
       [] OTHER -> /\ got' = [got EXCEPT ![t] = Head(q)]
                   /\ Goto(t, "grab") /\ UNCHANGED <<plan, waiting>>
  /\ UNCHANGED <<state, ready, place, frames, odd, sleepVars>>

\* The compare-exchange of a steal: lost when another took the task it saw.
Grab(t) ==
  /\ at[t] = "grab"
  /\ LET q == ready[Front(t).i] IN
     IF q # <<>> /\ Head(q) = got[t]
     THEN /\ ready' = [ready EXCEPT ![Front(t).i] = Tail(q)]
          /\ Found(t) /\ UNCHANGED got
     ELSE /\ Skip(t) /\ Goto(t, "scan") /\ Drop(t)
          /\ UNCHANGED ready
  /\ UNCHANGED <<state, waiting, place, frames, odd, sleepVars>>

\* Nothing found: a waiting function looks at its condition again, a worker
\* tries three times before it goes to sleep.
Miss(t) ==
  /\ at[t] = "scan" /\ plan[t] = <<>>
  /\ IF frames[t] # <<>> THEN Goto(t, "body") /\ UNCHANGED retry
     ELSE /\ retry' = [retry EXCEPT ![t] = @ - 1]
          /\ Goto(t, IF retry'[t] = 0 THEN "lock" ELSE "own")
  /\ UNCHANGED <<state, queueVars, place, frames, got, takeVars, sleepers, quit>>

-----------------------------------------------------------------------------
\* run_task returns: to the function that waits or schedules, or to thread_run.
Return(t, below) ==
  IF below # <<>> THEN Goto(t, "body") /\ UNCHANGED retry
                  ELSE Goto(t, "own") /\ retry' = [retry EXCEPT ![t] = Tries]

\* run(): the function of the task, unless its condition is not over yet.
Run(t) ==
  /\ at[t] = "run"
  /\ state' = [state EXCEPT ![got[t]] = "run"]
  /\ IF Over(After[got[t]])
     THEN /\ frames' = [frames EXCEPT ![t] = <<Call(got[t])>> \o @]
          /\ Goto(t, "body") /\ Drop(t)
     ELSE Goto(t, "again") /\ UNCHANGED <<frames, got>>
  /\ UNCHANGED <<queueVars, place, takeVars, sleepVars>>

\* need_to_reschedule: into the queue of waiting tasks, or run() again at once.
Again(t) ==
  /\ at[t] = "again"
  /\ IF Len(waiting[place[t]]) < Room
     THEN /\ waiting' = [waiting EXCEPT ![place[t]] = Append(@, got[t])]
          /\ Return(t, frames[t]) /\ Drop(t)
     ELSE Goto(t, "run") /\ UNCHANGED <<waiting, retry, got>>
  /\ UNCHANGED <<state, ready, place, frames, takeVars, sleepers, quit>>

\* A function returns: the task is over.
Finish(t) ==
  /\ at[t] = "body" /\ Ended(t) /\ Top(t).fun \in Tasks
  /\ state' = [state EXCEPT ![Top(t).fun] = "over"]
  /\ frames' = [frames EXCEPT ![t] = Tail(@)]
  /\ Return(t, Tail(frames[t]))
  /\ UNCHANGED <<queueVars, place, got, takeVars, sleepers, quit>>

-----------------------------------------------------------------------------
\* thread_run.
Check(t) ==
  /\ at[t] = "check"
  /\ IF quit THEN Goto(t, "done") /\ UNCHANGED retry
             ELSE Goto(t, "own") /\ retry' = [retry EXCEPT ![t] = Tries]
  /\ UNCHANGED <<state, queueVars, place, frames, got, takeVars, sleepers, quit>>

\* m_wakeup_mutex is held between two steps only by a thread about to wait.
Unlocked == \A s \in Threads : at[s] # "falling"

\* Faulty: m_bAllThreadsQuit is not looked at again under the mutex.
LockUnchecked(t) ==
  /\ at[t] = "lock" /\ Unlocked
  /\ Goto(t, "falling") /\ sleepers' = sleepers + 1
  /\ UNCHANGED <<state, queueVars, place, frames, got, takeVars, retry, quit>>

Lock(t) ==
  /\ at[t] = "lock" /\ Unlocked
  /\ IF quit THEN Goto(t, "check") /\ UNCHANGED sleepers
             ELSE Goto(t, "falling") /\ sleepers' = sleepers + 1
  /\ UNCHANGED <<state, queueVars, place, frames, got, takeVars, retry, quit>>

\* m_wakeup.wait: the mutex is given back as the thread falls asleep.
Fall(t) ==
  /\ at[t] = "falling"
  /\ Goto(t, "asleep")
  /\ UNCHANGED <<state, queueVars, place, frames, got, takeVars, sleepVars>>

\* A wait may return without a notification.
Spurious(t) ==
  /\ at[t] = "asleep"
  /\ Goto(t, "waking")
  /\ UNCHANGED <<state, queueVars, place, frames, got, takeVars, sleepVars>>

Rise(t) ==
  /\ at[t] = "waking" /\ Unlocked
  /\ sleepers' = sleepers - 1
  /\ Goto(t, "check")
  /\ UNCHANGED <<state, queueVars, place, frames, got, takeVars, retry, quit>>

-----------------------------------------------------------------------------
\* The end of the program and ~runtime; a foreign thread just ends.
End(t) ==
  /\ at[t] = "body" /\ Ended(t) /\ Top(t).fun = t
  /\ Goto(t, IF t = Main THEN "exit" ELSE "done")
  /\ UNCHANGED <<state, queueVars, place, frames, got, takeVars, sleepVars>>

Joined(t) ==
  /\ AtOp(t, "join") /\ \A x \in Op(t).of : at[x] = "done"
  /\ frames' = Past(t)
  /\ UNCHANGED <<state, queueVars, place, at, got, takeVars, sleepVars>>

Quit(t) ==
  /\ at[t] = "exit"
  /\ quit' = TRUE
  /\ Goto(t, "call")
  /\ UNCHANGED <<state, queueVars, place, frames, got, takeVars, retry, sleepers>>

NotifyAll(t) ==
  /\ at[t] = "call" /\ Unlocked
  /\ at' = [s \in Threads |-> IF s = t THEN "join" ELSE IF s \in Asleep THEN "waking" ELSE at[s]]
  /\ UNCHANGED <<state, queueVars, place, frames, got, takeVars, sleepVars>>

JoinWorkers(t) ==
  /\ at[t] = "join" /\ \A w \in Workers : at[w] = "done"
  /\ Goto(t, "done")
  /\ UNCHANGED <<state, queueVars, place, frames, got, takeVars, sleepVars>>

-----------------------------------------------------------------------------
Step(t) ==
  \/ Register(t) \/ Schedule(t) \/ Notify(t) \/ WakeOne(t)
  \/ Wait(t) \/ Own(t) \/ Scan(t) \/ Grab(t) \/ Miss(t)
  \/ Run(t) \/ Again(t) \/ Finish(t)
  \/ Check(t) \/ Lock(t) \/ Fall(t) \/ Rise(t)
  \/ End(t) \/ Joined(t) \/ Quit(t) \/ NotifyAll(t) \/ JoinWorkers(t)

Next == \E t \in Threads : Step(t) \/ Spurious(t)

Spec == Init /\ [][Next]_vars

\* The operating system runs every thread that can run.
FairSpec == Spec /\ \A t \in Threads : WF_vars(Step(t))

-----------------------------------------------------------------------------
TypeOK ==
  /\ state \in [Tasks -> {"none", "init", "run", "over"}]
  /\ ready \in Seq(Seq(Tasks)) /\ waiting \in Seq(Seq(Tasks))
  /\ Len(ready) = Len(waiting)
  /\ place \in [Threads -> 0 .. Len(ready)]
  /\ frames \in [Threads -> Seq([fun : Tasks \cup Threads, pc : Nat])]
  /\ at \in [Threads -> Spots]
  /\ got \in [Threads -> Tasks \cup {"none"}]
  /\ plan \in [Threads -> Seq([from : {"ready", "waiting"}, i : DOMAIN ready])]
  /\ odd \in [Threads -> BOOLEAN]
  /\ retry \in [Threads -> 0 .. Tries]
  /\ sleepers \in Nat
  /\ quit \in BOOLEAN

\* Where a task is: on a queue, on its way from one in a thread's hands, or being
\* run.
InQueue(v, c) == UNION {{q} \X {i \in DOMAIN v[q] : v[q][i] = c} : q \in DOMAIN v}
InHand(c)     == {t \in Threads : at[t] \in {"run", "again"} /\ got[t] = c}
OnStack(c)    == UNION {{t} \X {i \in DOMAIN frames[t] : frames[t][i].fun = c} : t \in Threads}
Places(c) == Cardinality(InQueue(ready, c)) + Cardinality(InQueue(waiting, c))
             + Cardinality(InHand(c)) + Cardinality(OnStack(c))

\* A task that was scheduled is in one place until it is over, and nowhere before
\* or after: it is neither lost nor run twice, whoever pops, steals, requeues or
\* runs it at once because a ring is full.
OnePlace == \A c \in Tasks : Places(c) = IF state[c] \in {"init", "run"} THEN 1 ELSE 0

\* m_sleep_counter counts the threads inside the wait, on which schedule()
\* decides whether to notify.
SleepersCounted == sleepers = Cardinality({t \in Threads : at[t] \in {"falling", "asleep", "waking"}})

\* No queue holds more than its ring.
Fits == \A q \in DOMAIN ready : Len(ready[q]) <= Room /\ Len(waiting[q]) <= Room

RuntimeInv == TypeOK /\ OnePlace /\ SleepersCounted /\ Fits

-----------------------------------------------------------------------------
Status(c) ==
  CASE state[c] = "none" -> "new"
    [] state[c] = "over" -> "over"
    [] OTHER -> IF \E t \in Threads : \E i \in DOMAIN frames[t] : frames[t][i].fun = c
                THEN "running" ELSE "due"

\* The runtime keeps the promise of Paras: each step is one of its steps or
\* invisible, and the program, its waits and the runtime's destructor come to an
\* end, although a thread may sleep while tasks are queued.
P == INSTANCE Paras WITH
  status   <- [c \in Tasks |-> Status(c)],
  returned <- at[Main] = "done"

ImplementsParas == P!Spec
=============================================================================
