----------------------------- MODULE RuntimeProofs -----------------------------
(***************************************************************************)
(* No task is lost and none is run twice, for every number of threads,     *)
(* every program and every size of the rings; and each step of the runtime *)
(* is a step of Paras, or invisible there.                                 *)
(***************************************************************************)
EXTENDS Runtime, SequenceTheorems, FiniteSetTheorems, TLAPS

-----------------------------------------------------------------------------
(***************************************************************************)
(* The inductive invariant.                                                *)
(***************************************************************************)

Frame == [fun : Tasks \cup Threads, pc : Nat]
View  == [from : {"ready", "waiting"}, i : DOMAIN ready]

Falling  == {"falling", "asleep", "waking"}           \* inside the wait
Leaving  == {"exit", "call", "join", "done"}
Busy     == {"body", "notify", "wakeone", "own", "scan", "grab", "run", "again"}
Sleeping == {t \in Threads : at[t] \in Falling}

\* Below all tasks on the stack of a thread is the thread's own function, but a
\* worker has none.
Stacks ==
  \A t \in Threads :
    /\ t \notin Workers => frames[t] # <<>>
    /\ \A i \in 1 .. Len(frames[t]) :
         /\ frames[t][i].fun \in IF t \notin Workers /\ i = Len(frames[t]) THEN {t} ELSE Tasks
         /\ frames[t][i].pc \in 1 .. Len(Program[frames[t][i].fun]) + 1

\* Where a thread can be with what it has.
FlowOf(t) ==
  /\ at[t] \in {"body", "notify", "wakeone"} => frames[t] # <<>>
  /\ at[t] \in {"check", "lock"} \cup Falling => t \in Workers /\ frames[t] = <<>>
  /\ at[t] \in {"exit", "call", "join"} => t = Main
  /\ at[t] \in Leaving => IF t \in Workers THEN frames[t] = <<>> ELSE Len(frames[t]) = 1
  /\ at[t] \in Leaving /\ t = Main => Top(t).pc > Len(Program[t])
  /\ at[t] \in Busy => retry[t] # 0
  /\ at[t] \in {"run", "again"} => got[t] \in Tasks
  /\ at[t] = "grab" => plan[t] # <<>>
  /\ place[t] = 0 => at[t] = "done" \/ (t \in Foreign /\ at[t] = "body" /\ frames[t] = <<Call(t)>>)
Flow == \A t \in Threads : FlowOf(t)

\* The places a task can be in: a kind, and which one of the kind.
Has(kind, x, c) ==
  \/ kind = "ready"   /\ x \in 1 .. Len(ready) /\ \E i \in 1 .. Len(ready[x]) : ready[x][i] = c
  \/ kind = "waiting" /\ x \in 1 .. Len(waiting) /\ \E i \in 1 .. Len(waiting[x]) : waiting[x][i] = c
  \/ kind = "hand"    /\ x \in Threads /\ at[x] \in {"run", "again"} /\ got[x] = c
  \/ kind = "stack"   /\ x \in Threads /\ \E i \in 1 .. Len(frames[x]) : frames[x][i].fun = c

Live(c) == state[c] \in {"init", "run"}

Single ==
  \A c \in Tasks : IF Live(c) THEN \E kind, x : \A k, y : Has(k, y, c) <=> k = kind /\ y = x
                              ELSE \A k, y : ~Has(k, y, c)

\* No queue and no stack has a task twice.
Distinct(s) == \A i, j \in 1 .. Len(s) : s[i] = s[j] => i = j
Apart ==
  /\ \A q \in 1 .. Len(ready) : Distinct(ready[q]) /\ Distinct(waiting[q])
  /\ \A t \in Threads : \A i, j \in 1 .. Len(frames[t]) : frames[t][i].fun = frames[t][j].fun => i = j

\* Operation i of f is behind the thread that runs f.
Passed(f, i) ==
  \/ f \in Tasks /\ state[f] = "over"
  \/ \E t \in Threads : \E j \in 1 .. Len(frames[t]) : frames[t][j].fun = f /\ frames[t][j].pc > i

\* What is behind is done; what is not yet was not scheduled.
Ran ==
  \A f \in DOMAIN Program : \A i \in 1 .. Len(Program[f]) :
    /\ Program[f][i].op = "go" => \A c \in Program[f][i].of : (Passed(f, i) <=> state[c] # "none")
    /\ Program[f][i].op \in {"all", "any"} /\ Passed(f, i) => Over(Program[f][i])
    /\ Program[f][i].op = "join" /\ Passed(f, i) => \A x \in Program[f][i].of : at[x] = "done"

IInv == TypeOK /\ Stacks /\ Flow /\ Single /\ Apart /\ Ran /\ SleepersCounted /\ Fits

-----------------------------------------------------------------------------
(***************************************************************************)
(* Sequences and constants.                                                *)
(***************************************************************************)

LEMMA Appended ==
  ASSUME NEW S, NEW s \in Seq(S), NEW e \in S
  PROVE  /\ Append(s, e) \in Seq(S) /\ Len(Append(s, e)) = Len(s) + 1 /\ Len(s) \in Nat
         /\ \A i \in 1 .. Len(s) : Append(s, e)[i] = s[i]
         /\ Append(s, e)[Len(s) + 1] = e
         /\ \A i : i \in 1 .. Len(s) + 1 <=> i \in 1 .. Len(s) \/ i = Len(s) + 1
<1>1. Len(s) \in Nat
  BY LenProperties
<1> QED BY <1>1, AppendProperties

LEMMA Pushed ==
  ASSUME NEW S, NEW s \in Seq(S), NEW e \in S
  PROVE  /\ <<e>> \o s \in Seq(S) /\ Len(<<e>> \o s) = Len(s) + 1 /\ Len(s) \in Nat
         /\ (<<e>> \o s)[1] = e /\ <<e>> \o s # <<>>
         /\ \A i \in 1 .. Len(s) : (<<e>> \o s)[i + 1] = s[i]
         /\ \A i : i \in 1 .. Len(s) + 1 <=> i = 1 \/ \E j \in 1 .. Len(s) : i = j + 1
<1>1. Len(s) \in Nat /\ <<e>> \in Seq(S) /\ Len(<<e>>) = 1 /\ <<e>>[1] = e
  BY LenProperties
<1>2. /\ <<e>> \o s \in Seq(S) /\ Len(<<e>> \o s) = Len(s) + 1
      /\ \A i \in 1 .. Len(s) + 1 : (<<e>> \o s)[i] = IF i <= 1 THEN <<e>>[i] ELSE s[i - 1]
  BY <1>1, ConcatProperties
<1> DEFINE t == <<e>> \o s
<1> HIDE DEF t
<1>3. t \in Seq(S) /\ Len(t) = Len(s) + 1 /\ t[1] = e
  BY <1>1, <1>2 DEF t
<1>4. \A i \in 1 .. Len(s) : t[i + 1] = s[i]
  BY <1>1, <1>2 DEF t
<1>5. t # <<>>
  BY <1>1, <1>3, EmptySeq
<1>6. \A i : i \in 1 .. Len(s) + 1 <=> i = 1 \/ \E j \in 1 .. Len(s) : i = j + 1
  <2>1. ASSUME NEW i \in 1 .. Len(s) + 1, i # 1
        PROVE  \E j \in 1 .. Len(s) : i = j + 1
    <3>1. i - 1 \in 1 .. Len(s) /\ i = (i - 1) + 1
      BY <1>1, <2>1
    <3> QED BY <3>1
  <2> QED BY <1>1, <2>1
<1> QED BY <1>1, <1>3, <1>4, <1>5, <1>6 DEF t

LEMMA Popped ==
  ASSUME NEW S, NEW s \in Seq(S), s # <<>>
  PROVE  /\ Len(s) \in Nat \ {0} /\ Head(s) = s[1] /\ s[1] \in S
         /\ Tail(s) \in Seq(S) /\ Len(Tail(s)) = Len(s) - 1
         /\ \A i \in 1 .. Len(s) - 1 : Tail(s)[i] = s[i + 1]
         /\ \A i : i \in 1 .. Len(s) <=> i = 1 \/ \E j \in 1 .. Len(s) - 1 : i = j + 1
<1>1. Len(s) \in Nat \ {0}
  BY EmptySeq
<1>2. /\ Tail(s) \in Seq(S) /\ Len(Tail(s)) = Len(s) - 1
      /\ \A i \in 1 .. Len(s) - 1 : Tail(s)[i] = s[i + 1]
  BY HeadTailProperties
<1>3. Head(s) = s[1] /\ s[1] \in S
  BY <1>1, ElementOfSeq
<1>4. ASSUME NEW i \in 1 .. Len(s), i # 1
      PROVE  \E j \in 1 .. Len(s) - 1 : i = j + 1
  <2>1. i - 1 \in 1 .. Len(s) - 1 /\ i = (i - 1) + 1
    BY <1>1, <1>4
  <2> QED BY <2>1
<1> QED BY <1>1, <1>2, <1>3, <1>4, SMTT(30)

LEMMA Shortened ==
  ASSUME NEW S, NEW s \in Seq(S), s # <<>>
  PROVE  LET t == SubSeq(s, 1, Len(s) - 1)
         IN  /\ t \in Seq(S) /\ Len(t) = Len(s) - 1
             /\ Len(s) \in Nat \ {0} /\ s[Len(s)] \in S
             /\ \A i \in 1 .. Len(s) - 1 : t[i] = s[i]
             /\ \A i : i \in 1 .. Len(s) <=> i = Len(s) \/ i \in 1 .. Len(s) - 1
<1>1. Len(s) \in Nat \ {0}
  BY EmptySeq
<1>2. \A i \in 1 .. Len(s) : s[i] \in S
  BY ElementOfSeq
<1>3. \A i \in 1 .. Len(s) - 1 : s[i] \in S
  BY <1>1, <1>2
<1> DEFINE t == SubSeq(s, 1, Len(s) - 1)
<1>4. /\ t \in Seq(S) /\ Len(t) = IF 1 <= Len(s) - 1 THEN Len(s) - 1 - 1 + 1 ELSE 0
      /\ \A i \in 1 .. Len(s) - 1 - 1 + 1 : t[i] = s[1 + i - 1]
  <2>1. 1 \in Int /\ Len(s) - 1 \in Int
    BY <1>1
  <2> QED BY <1>3, <2>1, SubSeqProperties
<1> HIDE DEF t
<1>5. t \in Seq(S) /\ Len(t) = Len(s) - 1
  <2> DEFINE n == Len(s) - 1
  <2>1. n \in Nat
    BY <1>1
  <2>2. Len(t) = IF 1 <= n THEN n - 1 + 1 ELSE 0
    BY <1>4
  <2> HIDE DEF n
  <2>3. 1 <= n => Len(t) = n
    BY <2>1, <2>2
  <2>4. n = 0 => Len(t) = n
    BY <2>2
  <2>5. Len(t) = n
    BY <2>1, <2>3, <2>4
  <2> QED BY <1>4, <2>5 DEF n
<1>6. ASSUME NEW i \in 1 .. Len(s) - 1
      PROVE  t[i] = s[i]
  <2>1. i \in 1 .. Len(s) - 1 - 1 + 1 /\ 1 + i - 1 = i
    BY <1>1, <1>6
  <2>2. t[i] = s[1 + i - 1]
    BY <1>4, <2>1
  <2> QED BY <2>1, <2>2
<1> QED BY <1>1, <1>2, <1>5, <1>6 DEF t

-----------------------------------------------------------------------------
(***************************************************************************)
(* Constants and types.                                                    *)
(***************************************************************************)

LEMMA Team1 ==
  /\ Len(Team) \in Nat \ {0} /\ DOMAIN Team = 1 .. Len(Team)
  /\ Main \in Threads /\ Main \notin Workers /\ Main \notin Foreign
  /\ \A i \in DOMAIN Team : Team[i] \in {Main} \cup Workers
<1>1. Len(Team) \in Nat \ {0} /\ DOMAIN Team = 1 .. Len(Team)
  BY ProgramAssumption, LenProperties
<1>2. \A i \in 2 .. Len(Team) : Team[i] # Team[1]
  <2>1. \A i, j \in 1 .. Len(Team) : Team[i] = Team[j] => i = j
    BY <1>1, ProgramAssumption
  <2> QED BY <1>1, <2>1
<1>3. Main \notin Workers
  BY <1>2 DEF Main, Workers
<1>4. \A i \in DOMAIN Team : Team[i] \in {Main} \cup Workers
  BY <1>1 DEF Main, Workers
<1> QED BY <1>1, <1>3, <1>4, ProgramAssumption DEF Threads

LEMMA WorkersFinite ==
  IsFiniteSet(Workers)
<1> DEFINE f == [i \in 2 .. Len(Team) |-> Team[i]]
<1>1. IsFiniteSet(2 .. Len(Team))
  BY Team1, FS_Interval
<1>2. f \in Surjection(2 .. Len(Team), Workers)
  BY DEF Surjection, Workers
<1> QED BY <1>1, <1>2, FS_Surjection

\* What an operation is, and what its set has.
LEMMA OperationIs ==
  ASSUME NEW o \in Operations
  PROVE  /\ o.op \in {"go", "join", "all", "any"}
         /\ o.op = "go" => \E c \in Tasks : o = Go(c) /\ o.of = {c}
         /\ o.op = "join" => \E x \in Foreign : o = Join(x) /\ o.of = {x}
         /\ o.op \in {"all", "any"} => o.of \subseteq Tasks
BY DEF Operations, Conditions, All, Any, Go, Join

LEMMA ProgramIs ==
  ASSUME NEW f \in DOMAIN Program
  PROVE  /\ Program[f] \in Seq(Operations) /\ Len(Program[f]) \in Nat
         /\ DOMAIN Program[f] = 1 .. Len(Program[f])
         /\ \A i \in 1 .. Len(Program[f]) : Program[f][i] \in Operations
<1>1. Program[f] \in Seq(Operations)
  BY ProgramAssumption
<1> QED BY <1>1, LenProperties, ElementOfSeq

LEMMA Functions ==
  DOMAIN Program = Tasks \cup {Main} \cup Foreign /\ \A t \in Threads : t \notin Tasks
BY ProgramAssumption DEF Threads

\* The stack of a thread.
LEMMA StackType ==
  ASSUME TypeOK, Stacks, NEW t \in Threads
  PROVE  /\ frames[t] \in Seq(Frame) /\ Len(frames[t]) \in Nat
         /\ DOMAIN frames[t] = 1 .. Len(frames[t])
         /\ \A i \in 1 .. Len(frames[t]) :
              /\ frames[t][i] \in Frame /\ frames[t][i].fun \in DOMAIN Program
              /\ frames[t][i].pc \in Nat \ {0}
<1>1. frames[t] \in Seq(Frame)
  BY DEF TypeOK, Frame
<1>2. /\ Len(frames[t]) \in Nat /\ DOMAIN frames[t] = 1 .. Len(frames[t])
      /\ \A i \in 1 .. Len(frames[t]) : frames[t][i] \in Frame
  BY <1>1, LenProperties, ElementOfSeq
<1>3. t \notin Workers => t \in DOMAIN Program
  BY Functions DEF Threads
<1>4. \A i \in 1 .. Len(frames[t]) : frames[t][i].fun \in DOMAIN Program
  BY <1>3, Functions DEF Stacks
<1>5. ASSUME NEW i \in 1 .. Len(frames[t])
      PROVE  frames[t][i].pc \in Nat \ {0}
  <2>1. frames[t][i].pc \in 1 .. Len(Program[frames[t][i].fun]) + 1
    BY DEF Stacks
  <2> QED BY <1>4, <2>1, ProgramIs
<1> QED BY <1>1, <1>2, <1>4, <1>5

\* The innermost function of a thread that is in its body.
LEMMA TopIs ==
  ASSUME TypeOK, Stacks, NEW t \in Threads, frames[t] # <<>>
  PROVE  /\ Len(frames[t]) \in Nat \ {0} /\ 1 \in 1 .. Len(frames[t]) /\ Top(t) = frames[t][1]
         /\ Top(t) \in Frame /\ Top(t).fun \in DOMAIN Program
         /\ Top(t).pc \in 1 .. Len(Program[Top(t).fun]) + 1
         /\ Top(t).fun \notin Tasks => Top(t).fun = t /\ Len(frames[t]) = 1 /\ t \notin Workers
         /\ ~Ended(t) => Top(t).pc \in 1 .. Len(Program[Top(t).fun]) /\ Op(t) \in Operations
<1>1. frames[t] \in Seq(Frame)
  BY StackType
<1>2. Len(frames[t]) \in Nat \ {0} /\ 1 \in 1 .. Len(frames[t]) /\ Top(t) = frames[t][1]
  BY <1>1, Popped DEF Top
<1>3. /\ Top(t) \in Frame /\ Top(t).fun \in DOMAIN Program
      /\ Top(t).pc \in 1 .. Len(Program[Top(t).fun]) + 1
  BY <1>2, StackType DEF Stacks
<1>4. Top(t).fun \notin Tasks => Top(t).fun = t /\ Len(frames[t]) = 1 /\ t \notin Workers
  BY <1>2 DEF Stacks
<1>5. ~Ended(t) => Top(t).pc \in 1 .. Len(Program[Top(t).fun])
  BY <1>3, ProgramIs DEF Ended
<1> QED BY <1>2, <1>3, <1>4, <1>5, ProgramIs DEF Op

LEMMA QueueType ==
  ASSUME TypeOK
  PROVE  /\ Len(ready) \in Nat /\ Len(waiting) = Len(ready)
         /\ DOMAIN ready = 1 .. Len(ready) /\ DOMAIN waiting = 1 .. Len(ready)
         /\ \A q \in 1 .. Len(ready) :
              /\ ready[q] \in Seq(Tasks) /\ Len(ready[q]) \in Nat
              /\ waiting[q] \in Seq(Tasks) /\ Len(waiting[q]) \in Nat
<1>1. ready \in Seq(Seq(Tasks)) /\ waiting \in Seq(Seq(Tasks)) /\ Len(waiting) = Len(ready)
  BY DEF TypeOK
<1>2. /\ Len(ready) \in Nat /\ DOMAIN ready = 1 .. Len(ready) /\ DOMAIN waiting = 1 .. Len(waiting)
  BY <1>1, LenProperties
<1>3. \A q \in 1 .. Len(ready) : ready[q] \in Seq(Tasks) /\ waiting[q] \in Seq(Tasks)
  BY <1>1, ElementOfSeq
<1> QED BY <1>1, <1>2, <1>3, LenProperties

\* A thread that takes or schedules tasks has queues.
LEMMA PlaceIs ==
  ASSUME TypeOK, Flow, NEW t \in Threads, at[t] \notin {"body", "done"} \/ place[t] # 0
  PROVE  place[t] \in 1 .. Len(ready)
<1>1. place[t] \in 0 .. Len(ready) /\ Len(ready) \in Nat
  BY QueueType DEF TypeOK
<1>2. place[t] # 0
  BY DEF Flow, FlowOf
<1> QED BY <1>1, <1>2

-----------------------------------------------------------------------------
(***************************************************************************)
(* The start.                                                              *)
(***************************************************************************)

\* init(): the first n threads of the team have a place, one to n.
LEMMA SetupIs ==
  ASSUME NEW S \in Setups
  PROVE  \E n \in 1 .. Len(Team) :
           /\ Cardinality(S \ Foreign) = n /\ Main \in S
           /\ \A t \in S \ Foreign : (CHOOSE i \in DOMAIN Team : Team[i] = t) \in 1 .. n
<1>1. PICK n \in DOMAIN Team, X \in SUBSET Foreign : S = {Team[i] : i \in 1 .. n} \cup X
  BY ProgramAssumption
<1> DEFINE T == {Team[i] : i \in 1 .. n}
           f == [i \in 1 .. n |-> Team[i]]
<1>2. n \in Nat \ {0} /\ n <= Len(Team) /\ \A i \in 1 .. n : i \in DOMAIN Team
  BY <1>1, Team1
<1>3. \A i, j \in DOMAIN Team : Team[i] = Team[j] => i = j
  BY ProgramAssumption
<1>4. \A i \in 1 .. n : Team[i] \notin Foreign
  BY <1>2, Team1, ProgramAssumption
<1>5. S \ Foreign = T
  BY <1>1, <1>4
<1>6. Cardinality(T) = n
  <2>1. f \in Surjection(1 .. n, T)
    BY DEF Surjection
  <2>2. f \in Injection(1 .. n, T)
    BY <1>2, <1>3 DEF Injection, IsInjective
  <2>3. IsFiniteSet(1 .. n) /\ Cardinality(1 .. n) = n
    BY <1>2, FS_Interval
  <2> HIDE DEF f, T
  <2> QED BY <2>1, <2>2, <2>3, FS_Surjection
<1>7. \A i \in 1 .. n : (CHOOSE j \in DOMAIN Team : Team[j] = Team[i]) = i
  BY <1>2, <1>3
<1>8. Main \in S
  BY <1>1, <1>2 DEF Main
<1>9. \A t \in S \ Foreign : (CHOOSE i \in DOMAIN Team : Team[i] = t) \in 1 .. n
  <2> SUFFICES ASSUME NEW k \in 1 .. n
               PROVE  (CHOOSE i \in DOMAIN Team : Team[i] = Team[k]) \in 1 .. n
    BY <1>5
  <2> QED BY <1>7
<1>10. n \in 1 .. Len(Team) /\ Cardinality(S \ Foreign) = n
  BY <1>2, <1>5, <1>6, Team1
<1> QED BY <1>8, <1>9, <1>10

LEMMA RuntimeInit ==
  ASSUME Init
  PROVE  IInv
<1>1. PICK S \in Setups :
        /\ ready = [i \in 1 .. Cardinality(S \ Foreign) |-> <<>>]
        /\ place = [t \in Threads |-> IF t \in S \ Foreign THEN CHOOSE i \in DOMAIN Team : Team[i] = t ELSE 0]
        /\ at = [t \in Threads |-> IF t \notin S THEN "done" ELSE IF t \in Workers THEN "check" ELSE "body"]
  BY DEF Init
<1>2. PICK n \in 1 .. Len(Team) :
        /\ Cardinality(S \ Foreign) = n /\ Main \in S
        /\ \A t \in S \ Foreign : (CHOOSE i \in DOMAIN Team : Team[i] = t) \in 1 .. n
  BY SetupIs
<1>3. /\ waiting = ready /\ state = [c \in Tasks |-> "none"]
      /\ frames = [t \in Threads |-> IF t \in Workers THEN <<>> ELSE <<Call(t)>>]
      /\ got = [t \in Threads |-> "none"] /\ plan = [t \in Threads |-> <<>>]
      /\ odd = [t \in Threads |-> FALSE] /\ retry = [t \in Threads |-> Tries]
      /\ sleepers = 0 /\ quit = FALSE
  BY DEF Init
<1>4. /\ n \in Nat /\ ready = [i \in 1 .. n |-> <<>>]
      /\ ready \in Seq(Seq(Tasks)) /\ Len(ready) = n /\ DOMAIN ready = 1 .. n
      /\ \A q \in 1 .. n : Len(ready[q]) = 0
  <2>1. n \in Nat /\ ready = [i \in 1 .. n |-> <<>>]
    BY <1>1, <1>2, Team1
  <2>2. <<>> \in Seq(Tasks) /\ Len(<<>>) = 0
    BY EmptySeq
  <2>3. ready \in [1 .. n -> Seq(Tasks)]
    BY <2>1, <2>2
  <2> QED BY <2>1, <2>2, <2>3
<1>5. \A t \in Threads : /\ Call(t) \in Frame /\ Call(t).fun = t /\ Call(t).pc = 1
                         /\ <<Call(t)>> \in Seq(Frame) /\ Len(<<Call(t)>>) = 1 /\ <<Call(t)>>[1] = Call(t)
  BY DEF Call, Frame
<1>6. \A t \in Threads : /\ t \in Workers => frames[t] = <<>> /\ Len(frames[t]) = 0
                         /\ t \notin Workers => frames[t] = <<Call(t)>> /\ Len(frames[t]) = 1
  <2>1. Len(<<>>) = 0
    BY EmptySeq
  <2> QED BY <1>3, <1>5, <2>1
<1>17. ASSUME NEW t \in Threads, NEW i \in 1 .. Len(frames[t])
       PROVE  t \notin Workers /\ i = 1 /\ frames[t][i] = Call(t) /\ i = Len(frames[t])
  <2>1. CASE t \in Workers
    BY <1>6, <1>17, <2>1
  <2>2. CASE t \notin Workers
    <3>1. frames[t] = <<Call(t)>> /\ Len(frames[t]) = 1
      BY <1>6, <2>2
    <3>2. i = 1
      BY <3>1
    <3>3. <<Call(t)>>[1] = Call(t)
      BY <1>5
    <3> QED BY <2>2, <3>1, <3>2, <3>3
  <2> QED BY <2>1, <2>2
<1>7. \A t \in Threads : place[t] \in 0 .. n /\ (place[t] = 0 => t \notin S \/ t \in Foreign)
  <2>1. \A t \in Threads : t \in S \ Foreign => place[t] \in 1 .. n
    BY <1>1, <1>2
  <2>2. \A t \in Threads : t \notin S \ Foreign => place[t] = 0
    BY <1>1
  <2> QED BY <1>4, <2>1, <2>2
<1>8. /\ Main \in S /\ at[Main] = "body"
      /\ \A t \in Threads : /\ at[t] \in {"done", "check", "body"}
                            /\ at[t] = "done" => t \notin S
                            /\ at[t] = "check" => t \in Workers
                            /\ at[t] = "body" => t \notin Workers /\ t \in S
  BY <1>1, <1>2, Team1
<1>9. TypeOK
  <2>1. frames \in [Threads -> Seq(Frame)]
    BY <1>3, <1>5, EmptySeq
  <2>2. plan \in [Threads -> Seq([from : {"ready", "waiting"}, i : DOMAIN ready])]
    BY <1>3, EmptySeq
  <2>3. place \in [Threads -> 0 .. Len(ready)]
    BY <1>1, <1>4, <1>7
  <2>4. at \in [Threads -> Spots]
    BY <1>1, <1>8 DEF Spots
  <2>5. retry \in [Threads -> 0 .. Tries]
    BY <1>3, ProgramAssumption
  <2> QED BY <1>3, <1>4, <2>1, <2>2, <2>3, <2>4, <2>5 DEF TypeOK, Frame
<1>10. Stacks
  <2> SUFFICES ASSUME NEW t \in Threads, t \notin Workers
               PROVE  /\ frames[t] # <<>> /\ frames[t][1].fun = t
                      /\ frames[t][1].pc \in 1 .. Len(Program[t]) + 1
    BY <1>17 DEF Stacks
  <2>1. Len(Program[t]) \in Nat
    BY ProgramIs, Functions DEF Threads
  <2> QED BY <1>5, <1>6, <2>1
<1>11. Flow
  <2> SUFFICES ASSUME NEW t \in Threads
               PROVE  FlowOf(t)
    BY DEF Flow
  <2>1. frames[t] = <<>> => t \in Workers
    BY <1>5, <1>6, EmptySeq
  <2>2. place[t] = 0 => at[t] = "done" \/ (t \in Foreign /\ at[t] = "body" /\ frames[t] = <<Call(t)>>)
    <3>1. place[t] = 0 => at[t] = "done" \/ t \in Foreign
      BY <1>1, <1>7
    <3>2. t \in Foreign => t \notin Workers
      BY ProgramAssumption
    <3>3. t \notin Workers => frames[t] = <<Call(t)>>
      BY <1>6
    <3>4. at[t] \in {"done", "check", "body"} /\ (at[t] = "check" => t \in Workers)
      BY <1>8
    <3> QED BY <3>1, <3>2, <3>3, <3>4
  <2>3. retry[t] # 0
    BY <1>3, ProgramAssumption
  <2> QED BY <1>6, <1>8, <2>1, <2>2, <2>3 DEF FlowOf, Falling, Leaving
<1>12. Single
  <2> SUFFICES ASSUME NEW c \in Tasks, NEW kind, NEW x
               PROVE  ~Has(kind, x, c)
    BY <1>3 DEF Single, Live
  <2>1. \A t \in Threads : \A i \in 1 .. Len(frames[t]) : frames[t][i].fun # c
    BY <1>5, <1>6, Functions
  <2> QED BY <1>3, <1>4, <1>8, <2>1 DEF Has
<1>13. Apart
  <2>1. \A t \in Threads : \A i, j \in 1 .. Len(frames[t]) : i = j
    BY <1>17
  <2> QED BY <1>3, <1>4, <2>1 DEF Apart, Distinct
<1>14. Ran
  <2>1. \A f \in DOMAIN Program : \A i \in 1 .. Len(Program[f]) : ~Passed(f, i)
    <3>1. \A t \in Threads : \A j \in 1 .. Len(frames[t]) : frames[t][j].pc = 1
      BY <1>5, <1>17
    <3>2. \A f \in DOMAIN Program : \A i \in 1 .. Len(Program[f]) : ~(1 > i)
      BY ProgramIs
    <3> QED BY <1>3, <3>1, <3>2 DEF Passed
  <2>2. \A f \in DOMAIN Program : \A i \in 1 .. Len(Program[f]) :
          Program[f][i].op = "go" => \A c \in Program[f][i].of : state[c] = "none"
    BY <1>3, ProgramIs, OperationIs
  <2> QED BY <2>1, <2>2 DEF Ran
<1>15. SleepersCounted
  <2>1. {t \in Threads : at[t] \in {"falling", "asleep", "waking"}} = {}
    BY <1>8
  <2> QED BY <1>3, <2>1, FS_EmptySet DEF SleepersCounted
<1>16. Fits
  BY <1>3, <1>4, ProgramAssumption DEF Fits
<1> QED BY <1>9, <1>10, <1>11, <1>12, <1>13, <1>14, <1>15, <1>16 DEF IInv

-----------------------------------------------------------------------------
(***************************************************************************)
(* What a step has to show of each part of the invariant.                  *)
(***************************************************************************)

Holding(t) == at[t] \in {"run", "again"}

LEMMA FlowKept ==
  ASSUME Flow, NEW t \in Threads, FlowOf(t)',
         \A s \in Threads \ {t} :
           /\ at'[s] = at[s] /\ frames'[s] = frames[s] /\ retry'[s] = retry[s]
           /\ got'[s] = got[s] /\ plan'[s] = plan[s] /\ place'[s] = place[s]
  PROVE  Flow'
<1> SUFFICES ASSUME NEW s \in Threads \ {t}
             PROVE  FlowOf(s)'
  BY DEF Flow
<1>1. /\ at'[s] = at[s] /\ frames'[s] = frames[s] /\ retry'[s] = retry[s]
      /\ got'[s] = got[s] /\ plan'[s] = plan[s] /\ place'[s] = place[s] /\ FlowOf(s)
  BY DEF Flow
<1> QED BY <1>1 DEF FlowOf, Top

\* A task moves, to where it is alone; or a new one is there.
Moves(d, kind, x) ==
  /\ Live(d)' /\ \A c \in Tasks : c # d => (Live(c)' <=> Live(c))
  /\ \A c \in Tasks : \A k, y :
       Has(k, y, c)' <=> IF c = d THEN k = kind /\ y = x ELSE Has(k, y, c)

LEMMA SingleMoved ==
  ASSUME Single, NEW d \in Tasks, NEW kind, NEW x, Moves(d, kind, x)
  PROVE  Single'
<1>3. /\ Live(d)' /\ \A c \in Tasks : c # d => (Live(c)' <=> Live(c))
      /\ \A c \in Tasks : \A k, y :
           Has(k, y, c)' <=> IF c = d THEN k = kind /\ y = x ELSE Has(k, y, c)
  BY DEF Moves
<1> SUFFICES ASSUME NEW c \in Tasks
             PROVE  IF Live(c)' THEN \E k1, x1 : \A k, y : Has(k, y, c)' <=> (k = k1 /\ y = x1)
                                ELSE \A k, y : ~Has(k, y, c)'
  BY Zenon DEF Single
<1>1. CASE c = d
  <2>1. \A k, y : Has(k, y, c)' <=> (k = kind /\ y = x)
    BY <1>1, <1>3
  <2> QED BY <1>1, <1>3, <2>1
<1>2. CASE c # d
  <2>1. \A k, y : Has(k, y, c)' <=> Has(k, y, c)
    BY <1>2, <1>3
  <2>2. Live(c)' <=> Live(c)
    BY <1>2, <1>3
  <2>3. IF Live(c) THEN \E k1, x1 : \A k, y : Has(k, y, c) <=> (k = k1 /\ y = x1)
                   ELSE \A k, y : ~Has(k, y, c)
    BY Zenon DEF Single
  <2>4. CASE Live(c)
    <3>1. PICK k1, x1 : \A k, y : Has(k, y, c) <=> (k = k1 /\ y = x1)
      BY <2>3, <2>4, Zenon
    <3>2. \A k, y : Has(k, y, c)' <=> (k = k1 /\ y = x1)
      BY <2>1, <3>1
    <3> QED BY <2>2, <2>4, <3>2
  <2>5. CASE ~Live(c)
    BY <2>1, <2>2, <2>3, <2>5
  <2> QED BY <2>4, <2>5
<1> QED BY <1>1, <1>2

LEMMA SingleKept ==
  ASSUME Single, \A c \in Tasks : Live(c)' <=> Live(c),
         \A c \in Tasks : \A k, y : Has(k, y, c)' <=> Has(k, y, c)
  PROVE  Single'
BY DEF Single

LEMMA RanKept ==
  ASSUME Ran, \A f \in DOMAIN Program : \A i \in 1 .. Len(Program[f]) : Passed(f, i)' <=> Passed(f, i),
         \A c \in Tasks : /\ state'[c] = "none" <=> state[c] = "none"
                          /\ state[c] = "over" => state'[c] = "over",
         \A x \in Threads : at[x] = "done" => at'[x] = "done"
  PROVE  Ran'
<1> SUFFICES ASSUME NEW f \in DOMAIN Program, NEW i \in 1 .. Len(Program[f])
             PROVE  /\ Program[f][i].op = "go" =>
                          \A c \in Program[f][i].of : (Passed(f, i)' <=> state'[c] # "none")
                    /\ Program[f][i].op \in {"all", "any"} /\ Passed(f, i)' => Over(Program[f][i])'
                    /\ Program[f][i].op = "join" /\ Passed(f, i)' =>
                          \A x \in Program[f][i].of : at'[x] = "done"
  BY DEF Ran
<1>5. PICK o : o = Program[f][i]
  OBVIOUS
<1>1. /\ o.op = "go" => \A c \in o.of : (Passed(f, i) <=> state[c] # "none")
      /\ o.op \in {"all", "any"} /\ Passed(f, i) => Over(o)
      /\ o.op = "join" /\ Passed(f, i) => \A x \in o.of : at[x] = "done"
  BY <1>5 DEF Ran
<1>2. o \in Operations
  BY <1>5, ProgramIs
<1>3. /\ o.op \in {"go", "all", "any"} => o.of \subseteq Tasks
      /\ o.op = "join" => o.of \subseteq Threads
  BY <1>2, OperationIs DEF Threads
<1>4. o.op \in {"all", "any"} /\ Over(o) => Over(o)'
  BY <1>3 DEF Over
<1> QED BY <1>1, <1>3, <1>4, <1>5

\* Steps that neither take, give nor run a task.
LEMMA Quiet ==
  ASSUME IInv, UNCHANGED <<state, ready, waiting, frames>>,
         \A s \in Threads : /\ Holding(s)' <=> Holding(s)
                            /\ Holding(s) => got'[s] = got[s]
                            /\ at[s] = "done" => at'[s] = "done"
  PROVE  Stacks' /\ Single' /\ Apart' /\ Ran' /\ Fits'
<1>1. Stacks /\ Single /\ Apart /\ Ran /\ Fits
  BY DEF IInv
<1>2. Stacks' /\ Apart' /\ Fits'
  BY <1>1 DEF Stacks, Apart, Distinct, Fits
<1>3. Single'
  <2>1. \A c \in Tasks : Live(c)' <=> Live(c)
    BY DEF Live
  <2>2. \A c \in Tasks : \A k, y : Has(k, y, c)' <=> Has(k, y, c)
    <3> SUFFICES ASSUME NEW c \in Tasks, NEW k, NEW y
                 PROVE  Has(k, y, c)' <=> Has(k, y, c)
      OBVIOUS
    <3>1. y \in Threads => ((at'[y] \in {"run", "again"} /\ got'[y] = c)
                              <=> (at[y] \in {"run", "again"} /\ got[y] = c))
      BY DEF Holding
    <3> QED BY <3>1 DEF Has
  <2> QED BY <1>1, <2>1, <2>2, SingleKept
<1>4. Ran'
  <2>1. \A f \in DOMAIN Program : \A i \in 1 .. Len(Program[f]) : Passed(f, i)' <=> Passed(f, i)
    BY DEF Passed
  <2>2. /\ \A c \in Tasks : /\ state'[c] = "none" <=> state[c] = "none"
                            /\ state[c] = "over" => state'[c] = "over"
        /\ \A x \in Threads : at[x] = "done" => at'[x] = "done"
    OBVIOUS
  <2> QED BY <1>1, <2>1, <2>2, RanKept
<1> QED BY <1>2, <1>3, <1>4

LEMMA SleepKept ==
  ASSUME SleepersCounted, sleepers' = sleepers,
         \A s \in Threads : at'[s] \in Falling <=> at[s] \in Falling
  PROVE  SleepersCounted'
<1>1. Sleeping' = Sleeping
  BY DEF Sleeping
<1> QED BY <1>1 DEF SleepersCounted, Sleeping, Falling

LEMMA SleepingFinite ==
  ASSUME Flow
  PROVE  IsFiniteSet(Sleeping) /\ Sleeping \subseteq Workers
<1>1. Sleeping \subseteq Workers
  BY DEF Sleeping, Flow, FlowOf
<1> QED BY <1>1, WorkersFinite, FS_Subset

Plans == [Threads -> Seq(View)]
Hands == [Threads -> Tasks \cup {"none"}]

\* A thread goes on to a spot, with no task in its hands before or after.
LEMMA AtMoves ==
  ASSUME IInv, NEW t \in Threads, NEW spot \in Spots, at' = [at EXCEPT ![t] = spot],
         UNCHANGED <<state, ready, waiting, place, frames, sleepers>>,
         at[t] \notin {"run", "again", "done"}, spot \notin {"run", "again"},
         spot \in Falling <=> at[t] \in Falling,
         got' \in Hands, plan' \in Plans, odd' \in [Threads -> BOOLEAN],
         retry' \in [Threads -> 0 .. Tries], quit' \in BOOLEAN,
         \A s \in Threads \ {t} : got'[s] = got[s] /\ plan'[s] = plan[s] /\ retry'[s] = retry[s],
         FlowOf(t)'
  PROVE  IInv'
<1>1. TypeOK /\ Flow /\ SleepersCounted /\ at \in [Threads -> Spots]
  BY DEF IInv, TypeOK
<1>2. \A s \in Threads \ {t} : at'[s] = at[s]
  BY <1>1
<1>3. at'[t] = spot /\ at' \in [Threads -> Spots]
  BY <1>1
<1>4. \A s \in Threads :
        /\ Holding(s)' <=> Holding(s)
        /\ Holding(s) => got'[s] = got[s]
        /\ at[s] = "done" => at'[s] = "done"
        /\ at'[s] \in Falling <=> at[s] \in Falling
  BY <1>2, <1>3 DEF Holding
<1>5. Stacks' /\ Single' /\ Apart' /\ Ran' /\ Fits'
  BY <1>4, Quiet
<1>6. SleepersCounted'
  BY <1>1, <1>4, SleepKept
<1>7. Flow'
  BY <1>1, <1>2, FlowKept
<1>8. TypeOK'
  BY <1>1, <1>3 DEF TypeOK, Plans, Hands, View
<1> QED BY <1>5, <1>6, <1>7, <1>8 DEF IInv

\* What every step can start from.
LEMMA Here ==
  ASSUME IInv, NEW t \in Threads
  PROVE  /\ TypeOK /\ Stacks /\ Flow /\ Single /\ Apart /\ Ran /\ SleepersCounted /\ Fits /\ FlowOf(t)
         /\ at \in [Threads -> Spots] /\ got \in Hands /\ plan \in Plans
         /\ odd \in [Threads -> BOOLEAN] /\ retry \in [Threads -> 0 .. Tries]
         /\ quit \in BOOLEAN /\ sleepers \in Nat /\ Tries \in Nat \ {0}
         /\ place \in [Threads -> 0 .. Len(ready)] /\ plan[t] \in Seq(View)
<1>1. TypeOK /\ Stacks /\ Flow /\ Single /\ Apart /\ Ran /\ SleepersCounted /\ Fits /\ FlowOf(t)
  BY DEF IInv, Flow
<1> QED BY <1>1, ProgramAssumption DEF TypeOK, Plans, Hands, View

LEMMA NotifyKeeps ==
  ASSUME IInv, NEW t \in Threads, Notify(t)
  PROVE  IInv'
<1> DEFINE spot == IF sleepers > 1 THEN "wakeone" ELSE "body"
<1>1. /\ at[t] = "notify" /\ at' = [at EXCEPT ![t] = spot]
      /\ UNCHANGED <<state, ready, waiting, place, frames, got, plan, odd, retry, sleepers, quit>>
  BY DEF Notify, Goto, queueVars, takeVars, sleepVars
<1>2. spot \in {"wakeone", "body"}
  OBVIOUS
<1> HIDE DEF spot
<1>3. FlowOf(t)'
  BY <1>1, <1>2, Here DEF FlowOf, Falling, Leaving, Busy, Top
<1>4. /\ spot \in Spots /\ spot \notin {"run", "again"} /\ at[t] \notin {"run", "again", "done"}
      /\ spot \notin Falling /\ at[t] \notin Falling
  BY <1>1, <1>2 DEF Spots, Falling
<1> QED BY <1>1, <1>3, <1>4, Here, AtMoves

LEMMA FallKeeps ==
  ASSUME IInv, NEW t \in Threads, Fall(t)
  PROVE  IInv'
<1>1. /\ at[t] = "falling" /\ at' = [at EXCEPT ![t] = "asleep"]
      /\ UNCHANGED <<state, ready, waiting, place, frames, got, plan, odd, retry, sleepers, quit>>
  BY DEF Fall, Goto, queueVars, takeVars, sleepVars
<1>2. FlowOf(t)'
  BY <1>1, Here DEF FlowOf, Falling, Leaving, Busy, Top
<1>3. /\ "asleep" \in Spots /\ "asleep" \notin {"run", "again"} /\ at[t] \notin {"run", "again", "done"}
      /\ ("asleep" \in Falling <=> at[t] \in Falling)
  BY <1>1 DEF Spots, Falling
<1> QED BY <1>1, <1>2, <1>3, Here, AtMoves

LEMMA SpuriousKeeps ==
  ASSUME IInv, NEW t \in Threads, Spurious(t)
  PROVE  IInv'
<1>1. /\ at[t] = "asleep" /\ at' = [at EXCEPT ![t] = "waking"]
      /\ UNCHANGED <<state, ready, waiting, place, frames, got, plan, odd, retry, sleepers, quit>>
  BY DEF Spurious, Goto, queueVars, takeVars, sleepVars
<1>2. FlowOf(t)'
  BY <1>1, Here DEF FlowOf, Falling, Leaving, Busy, Top
<1>3. /\ "waking" \in Spots /\ "waking" \notin {"run", "again"} /\ at[t] \notin {"run", "again", "done"}
      /\ ("waking" \in Falling <=> at[t] \in Falling)
  BY <1>1 DEF Spots, Falling
<1> QED BY <1>1, <1>2, <1>3, Here, AtMoves

LEMMA QuitKeeps ==
  ASSUME IInv, NEW t \in Threads, Quit(t)
  PROVE  IInv'
<1>1. /\ at[t] = "exit" /\ at' = [at EXCEPT ![t] = "call"] /\ quit' = TRUE
      /\ UNCHANGED <<state, ready, waiting, place, frames, got, plan, odd, retry, sleepers>>
  BY DEF Quit, Goto, queueVars, takeVars, sleepVars
<1>2. FlowOf(t)'
  BY <1>1, Here DEF FlowOf, Falling, Leaving, Busy, Top
<1>3. /\ "call" \in Spots /\ "call" \notin {"run", "again"} /\ at[t] \notin {"run", "again", "done"}
      /\ ("call" \in Falling <=> at[t] \in Falling)
  BY <1>1 DEF Spots, Falling
<1> QED BY <1>1, <1>2, <1>3, Here, AtMoves

LEMMA JoinWorkersKeeps ==
  ASSUME IInv, NEW t \in Threads, JoinWorkers(t)
  PROVE  IInv'
<1>1. /\ at[t] = "join" /\ at' = [at EXCEPT ![t] = "done"]
      /\ UNCHANGED <<state, ready, waiting, place, frames, got, plan, odd, retry, sleepers, quit>>
  BY DEF JoinWorkers, Goto, queueVars, takeVars, sleepVars
<1>2. FlowOf(t)'
  BY <1>1, Here DEF FlowOf, Falling, Leaving, Busy, Top
<1>3. /\ "done" \in Spots /\ "done" \notin {"run", "again"} /\ at[t] \notin {"run", "again", "done"}
      /\ ("done" \in Falling <=> at[t] \in Falling)
  BY <1>1 DEF Spots, Falling
<1> QED BY <1>1, <1>2, <1>3, Here, AtMoves

LEMMA MissKeeps ==
  ASSUME IInv, NEW t \in Threads, Miss(t)
  PROVE  IInv'
<1>1. at[t] = "scan" /\ UNCHANGED <<state, ready, waiting, place, frames, got, plan, odd, sleepers, quit>>
  BY DEF Miss, queueVars, takeVars
<1>2. CASE frames[t] # <<>>
  <2>1. at' = [at EXCEPT ![t] = "body"] /\ retry' = retry
    BY <1>2 DEF Miss, Goto
  <2>2. FlowOf(t)'
    BY <1>1, <1>2, <2>1, Here DEF FlowOf, Falling, Leaving, Busy, Top
  <2>3. /\ "body" \in Spots /\ "body" \notin {"run", "again"} /\ at[t] \notin {"run", "again", "done"}
        /\ "body" \notin Falling /\ at[t] \notin Falling
    BY <1>1 DEF Spots, Falling
  <2> QED BY <1>1, <2>1, <2>2, <2>3, Here, AtMoves
<1>3. CASE frames[t] = <<>>
  <2>1. retry' = [retry EXCEPT ![t] = @ - 1] /\ at' = [at EXCEPT ![t] = IF retry'[t] = 0 THEN "lock" ELSE "own"]
    BY <1>3 DEF Miss, Goto
  <2>2. PICK spot \in {"lock", "own"} : spot = (IF retry'[t] = 0 THEN "lock" ELSE "own")
    OBVIOUS
  <2>3. retry[t] \in 1 .. Tries /\ Tries \in Nat \ {0} /\ retry \in [Threads -> 0 .. Tries]
    BY <1>1, Here DEF FlowOf, Busy
  <2>4. /\ retry' \in [Threads -> 0 .. Tries]
        /\ \A s \in Threads \ {t} : retry'[s] = retry[s]
    BY <2>1, <2>3
  <2>5. t \in Workers
    BY <1>3, Here DEF Stacks
  <2>6. FlowOf(t)'
    BY <1>1, <1>3, <2>1, <2>2, <2>5, Here DEF FlowOf, Falling, Leaving, Busy, Top
  <2>7. /\ spot \in Spots /\ spot \notin {"run", "again"} /\ at[t] \notin {"run", "again", "done"}
        /\ spot \notin Falling /\ at[t] \notin Falling
    BY <1>1, <2>2 DEF Spots, Falling
  <2> QED BY <1>1, <2>1, <2>2, <2>4, <2>6, <2>7, Here, AtMoves
<1> QED BY <1>2, <1>3

LEMMA CheckKeeps ==
  ASSUME IInv, NEW t \in Threads, Check(t)
  PROVE  IInv'
<1>1. at[t] = "check" /\ UNCHANGED <<state, ready, waiting, place, frames, got, plan, odd, sleepers, quit>>
  BY DEF Check, queueVars, takeVars
<1>2. PICK spot \in {"done", "own"} :
        /\ at' = [at EXCEPT ![t] = spot]
        /\ retry' = IF spot = "done" THEN retry ELSE [retry EXCEPT ![t] = Tries]
  BY DEF Check, Goto
<1>3. Tries \in 0 .. Tries /\ Tries # 0
  BY Here
<1>4. /\ retry' \in [Threads -> 0 .. Tries] /\ \A s \in Threads \ {t} : retry'[s] = retry[s]
      /\ spot = "own" => retry'[t] # 0
  BY <1>2, <1>3, Here
<1>5. FlowOf(t)'
  BY <1>1, <1>2, <1>4, Team1, Here DEF FlowOf, Falling, Leaving, Busy, Top
<1>6. /\ spot \in Spots /\ spot \notin {"run", "again"} /\ at[t] \notin {"run", "again", "done"}
      /\ spot \notin Falling /\ at[t] \notin Falling
  BY <1>1, <1>2 DEF Spots, Falling
<1> QED BY <1>1, <1>2, <1>4, <1>5, <1>6, Here, AtMoves

LEMMA EndKeeps ==
  ASSUME IInv, NEW t \in Threads, End(t)
  PROVE  IInv'
<1>1. /\ at[t] = "body" /\ Ended(t) /\ Top(t).fun = t
      /\ UNCHANGED <<state, ready, waiting, place, frames, got, plan, odd, retry, sleepers, quit>>
  BY DEF End, queueVars, takeVars, sleepVars
<1>2. PICK spot \in {"exit", "done"} : at' = [at EXCEPT ![t] = spot] /\ (spot = "exit" <=> t = Main)
  BY DEF End, Goto
<1>3. Len(frames[t]) = 1 /\ t \notin Workers /\ Top(t).pc > Len(Program[t])
  BY <1>1, TopIs, Here, Functions DEF FlowOf, Ended
<1>4. FlowOf(t)'
  BY <1>1, <1>2, <1>3, Team1, Here DEF FlowOf, Falling, Leaving, Busy, Top
<1>5. /\ spot \in Spots /\ spot \notin {"run", "again"} /\ at[t] \notin {"run", "again", "done"}
      /\ spot \notin Falling /\ at[t] \notin Falling
  BY <1>1, <1>2 DEF Spots, Falling
<1> QED BY <1>1, <1>2, <1>4, <1>5, Here, AtMoves

LEMMA WakeOneKeeps ==
  ASSUME IInv, NEW t \in Threads, WakeOne(t)
  PROVE  IInv'
<1>1. /\ at[t] = "wakeone"
      /\ UNCHANGED <<state, ready, waiting, place, frames, got, plan, odd, retry, sleepers, quit>>
  BY DEF WakeOne, queueVars, takeVars, sleepVars
<1>2. CASE at' = [at EXCEPT ![t] = "body"]
  <2>1. FlowOf(t)'
    BY <1>1, <1>2, Here DEF FlowOf, Falling, Leaving, Busy, Top
  <2>2. /\ "body" \in Spots /\ "body" \notin {"run", "again"} /\ at[t] \notin {"run", "again", "done"}
        /\ "body" \notin Falling /\ at[t] \notin Falling
    BY <1>1 DEF Spots, Falling
  <2> QED BY <1>1, <1>2, <2>1, <2>2, Here, AtMoves
<1>3. ASSUME NEW s \in Asleep, at' = [at EXCEPT ![t] = "body", ![s] = "waking"]
      PROVE  IInv'
  <2>1. s \in Threads /\ at[s] = "asleep" /\ s # t
    BY <1>1 DEF Asleep
  <2>2. /\ at'[t] = "body" /\ at'[s] = "waking" /\ at' \in [Threads -> Spots]
        /\ \A r \in Threads : r # t /\ r # s => at'[r] = at[r]
    BY <1>3, <2>1, Here DEF Spots
  <2>3. FlowOf(t)'
    BY <1>1, <2>2, Here DEF FlowOf, Falling, Leaving, Busy, Top
  <2>4. FlowOf(s)'
    BY <1>1, <2>1, <2>2, Here DEF FlowOf, Falling, Leaving, Busy, Top
  <2>5. ASSUME NEW r \in Threads, r # t, r # s
        PROVE  FlowOf(r)'
    BY <1>1, <2>2, <2>5, Here DEF FlowOf, Top
  <2>6. Flow'
    BY <2>3, <2>4, <2>5 DEF Flow
  <2>7. \A r \in Threads :
          /\ Holding(r)' <=> Holding(r)
          /\ Holding(r) => got'[r] = got[r]
          /\ at[r] = "done" => at'[r] = "done"
          /\ at'[r] \in Falling <=> at[r] \in Falling
    <3> SUFFICES ASSUME NEW r \in Threads
                 PROVE  /\ Holding(r)' <=> Holding(r)
                        /\ at[r] = "done" => at'[r] = "done"
                        /\ at'[r] \in Falling <=> at[r] \in Falling
      BY <1>1
    <3>1. CASE r = t
      BY <1>1, <2>2, <3>1 DEF Holding, Falling
    <3>2. CASE r = s
      BY <2>1, <2>2, <3>2 DEF Holding, Falling
    <3>3. CASE r # t /\ r # s
      BY <2>2, <3>3 DEF Holding
    <3> QED BY <3>1, <3>2, <3>3
  <2>8. Stacks' /\ Single' /\ Apart' /\ Ran' /\ Fits'
    BY <1>1, <2>7, Quiet
  <2>9. SleepersCounted'
    BY <1>1, <2>7, Here, SleepKept
  <2>10. TypeOK'
    BY <1>1, <2>2, Here DEF TypeOK
  <2> QED BY <2>6, <2>8, <2>9, <2>10 DEF IInv
<1> QED BY <1>2, <1>3 DEF WakeOne, Goto

LEMMA NotifyAllKeeps ==
  ASSUME IInv, NEW t \in Threads, NotifyAll(t)
  PROVE  IInv'
<1>1. /\ at[t] = "call"
      /\ UNCHANGED <<state, ready, waiting, place, frames, got, plan, odd, retry, sleepers, quit>>
      /\ at' = [s \in Threads |-> IF s = t THEN "join" ELSE IF s \in Asleep THEN "waking" ELSE at[s]]
  BY DEF NotifyAll, queueVars, takeVars, sleepVars
<1>2. at' \in [Threads -> Spots]
  BY <1>1, Here DEF Spots
<1>3. ASSUME NEW r \in Threads
      PROVE  /\ FlowOf(r)' /\ (Holding(r)' <=> Holding(r)) /\ (at[r] = "done" => at'[r] = "done")
             /\ (at'[r] \in Falling <=> at[r] \in Falling)
  <2>1. CASE r = t
    <3>1. at'[r] = "join"
      BY <1>1, <2>1
    <3> QED BY <1>1, <2>1, <3>1, Here DEF FlowOf, Holding, Falling, Leaving, Busy, Top
  <2>2. CASE r # t /\ at[r] = "asleep"
    <3>1. at'[r] = "waking"
      BY <1>1, <2>2 DEF Asleep
    <3> QED BY <1>1, <2>2, <3>1, Here DEF FlowOf, Holding, Falling, Leaving, Busy, Top
  <2>3. CASE r # t /\ at[r] # "asleep"
    <3>1. at'[r] = at[r]
      BY <1>1, <2>3 DEF Asleep
    <3> QED BY <1>1, <2>3, <3>1, Here DEF FlowOf, Holding, Top
  <2> QED BY <2>1, <2>2, <2>3
<1>4. Stacks' /\ Single' /\ Apart' /\ Ran' /\ Fits'
  BY <1>1, <1>3, Quiet
<1>5. SleepersCounted'
  BY <1>1, <1>3, Here, SleepKept
<1>6. TypeOK' /\ Flow'
  BY <1>1, <1>2, <1>3, Here DEF TypeOK, Flow
<1> QED BY <1>4, <1>5, <1>6 DEF IInv

\* A thread begins, or ends, to be inside the wait.
LEMMA FallsOrRises ==
  ASSUME IInv, NEW t \in Threads, NEW spot \in {"falling", "check"},
         at[t] = IF spot = "falling" THEN "lock" ELSE "waking",
         at' = [at EXCEPT ![t] = spot],
         sleepers' = IF spot = "falling" THEN sleepers + 1 ELSE sleepers - 1,
         UNCHANGED <<state, ready, waiting, place, frames, got, plan, odd, retry, quit>>
  PROVE  IInv'
<1>1. /\ at'[t] = spot /\ at' \in [Threads -> Spots]
      /\ \A r \in Threads \ {t} : at'[r] = at[r]
  BY Here DEF Spots
<1>2. \A r \in Threads : /\ Holding(r)' <=> Holding(r)
                         /\ at[r] = "done" => at'[r] = "done"
  BY <1>1 DEF Holding
<1>3. Stacks' /\ Single' /\ Apart' /\ Ran' /\ Fits'
  BY <1>2, Quiet
<1>4. FlowOf(t)'
  BY <1>1, Here DEF FlowOf, Falling, Leaving, Busy, Top
<1>5. Flow'
  BY <1>1, <1>4, Here, FlowKept
<1>6. IsFiniteSet(Sleeping) /\ sleepers = Cardinality(Sleeping) /\ Cardinality(Sleeping) \in Nat
  BY Here, SleepingFinite, FS_CardinalityType DEF SleepersCounted, Sleeping, Falling
<1>7. CASE spot = "falling"
  <2>1. t \notin Sleeping /\ Sleeping' = Sleeping \cup {t}
    BY <1>1, <1>7 DEF Sleeping, Falling
  <2>2. sleepers' = Cardinality(Sleeping')
    BY <1>6, <1>7, <2>1, FS_AddElement
  <2>3. sleepers' \in Nat
    BY <1>6, <1>7
  <2> QED BY <1>1, <1>3, <1>5, <2>2, <2>3, Here DEF IInv, TypeOK, SleepersCounted, Sleeping, Falling
<1>8. CASE spot = "check"
  <2>1. t \in Sleeping /\ Sleeping' = Sleeping \ {t}
    BY <1>1, <1>8 DEF Sleeping, Falling
  <2>2. sleepers' = Cardinality(Sleeping') /\ IsFiniteSet(Sleeping')
    BY <1>6, <1>8, <2>1, FS_RemoveElement
  <2>3. sleepers' \in Nat
    BY <2>2, FS_CardinalityType
  <2> QED BY <1>1, <1>3, <1>5, <2>2, <2>3, Here DEF IInv, TypeOK, SleepersCounted, Sleeping, Falling
<1> QED BY <1>7, <1>8

LEMMA LockKeeps ==
  ASSUME IInv, NEW t \in Threads, Lock(t)
  PROVE  IInv'
<1>1. at[t] = "lock" /\ UNCHANGED <<state, ready, waiting, place, frames, got, plan, odd, retry, quit>>
  BY DEF Lock, queueVars, takeVars
<1>2. CASE quit
  <2>1. at' = [at EXCEPT ![t] = "check"] /\ sleepers' = sleepers
    BY <1>2 DEF Lock, Goto
  <2>2. FlowOf(t)'
    BY <1>1, <2>1, Here DEF FlowOf, Falling, Leaving, Busy, Top
  <2>3. /\ "check" \in Spots /\ "check" \notin {"run", "again"} /\ at[t] \notin {"run", "again", "done"}
        /\ "check" \notin Falling /\ at[t] \notin Falling
    BY <1>1 DEF Spots, Falling
  <2> QED BY <1>1, <2>1, <2>2, <2>3, Here, AtMoves
<1>3. CASE ~quit
  <2>1. at' = [at EXCEPT ![t] = "falling"] /\ sleepers' = sleepers + 1
    BY <1>3 DEF Lock, Goto
  <2> QED BY <1>1, <2>1, FallsOrRises
<1> QED BY <1>2, <1>3

LEMMA RiseKeeps ==
  ASSUME IInv, NEW t \in Threads, Rise(t)
  PROVE  IInv'
<1>1. /\ at[t] = "waking" /\ UNCHANGED <<state, ready, waiting, place, frames, got, plan, odd, retry, quit>>
      /\ at' = [at EXCEPT ![t] = "check"] /\ sleepers' = sleepers - 1
  BY DEF Rise, Goto, queueVars, takeVars
<1> QED BY <1>1, FallsOrRises

-----------------------------------------------------------------------------
(***************************************************************************)
(* A function goes past an operation.                                      *)
(***************************************************************************)

\* The stack of a thread that goes past an operation.
LEMMA PastIs ==
  ASSUME IInv, NEW t \in Threads, frames[t] # <<>>, ~Ended(t), frames' = Past(t)
  PROVE  /\ frames' \in [Threads -> Seq(Frame)]
         /\ \A s \in Threads \ {t} : frames'[s] = frames[s]
         /\ Len(frames'[t]) = Len(frames[t]) /\ frames'[t] # <<>>
         /\ Head(frames'[t]) = frames'[t][1]
         /\ frames'[t][1].fun = frames[t][1].fun /\ frames'[t][1].pc = frames[t][1].pc + 1
         /\ frames[t][1].pc \in Nat
         /\ \A i \in 1 .. Len(frames[t]) : i # 1 => frames'[t][i] = frames[t][i]
         /\ \A i \in 1 .. Len(frames[t]) : frames'[t][i].fun = frames[t][i].fun
<1> DEFINE s   == Tail(frames[t])
           e   == [Top(t) EXCEPT !.pc = @ + 1]
           new == <<e>> \o s
<1>1. frames \in [Threads -> Seq(Frame)] /\ frames[t] \in Seq(Frame)
  BY Here DEF TypeOK, Frame
<1>2. /\ Len(frames[t]) \in Nat \ {0} /\ Top(t) = frames[t][1] /\ frames[t][1] \in Frame
      /\ s \in Seq(Frame) /\ Len(s) = Len(frames[t]) - 1
      /\ \A i \in 1 .. Len(frames[t]) - 1 : s[i] = frames[t][i + 1]
      /\ \A i : i \in 1 .. Len(frames[t]) <=> i = 1 \/ \E j \in 1 .. Len(frames[t]) - 1 : i = j + 1
  BY <1>1, Popped DEF Top
<1>3. e \in Frame /\ e.fun = frames[t][1].fun /\ e.pc = frames[t][1].pc + 1 /\ frames[t][1].pc \in Nat
  <2>1. ASSUME NEW f \in Frame
        PROVE  /\ [f EXCEPT !.pc = @ + 1] \in Frame /\ [f EXCEPT !.pc = @ + 1].fun = f.fun
               /\ [f EXCEPT !.pc = @ + 1].pc = f.pc + 1 /\ f.pc \in Nat
    BY DEF Frame
  <2>2. e = [frames[t][1] EXCEPT !.pc = @ + 1]
    BY <1>2
  <2> QED BY <1>2, <2>1, <2>2
<1> HIDE DEF s, e
<1>4. /\ new \in Seq(Frame) /\ Len(new) = Len(s) + 1 /\ new[1] = e /\ new # <<>>
      /\ \A i \in 1 .. Len(s) : new[i + 1] = s[i]
  BY <1>2, <1>3, Pushed
<1>5. frames' = [frames EXCEPT ![t] = new]
  BY DEF Past, s, e
<1> HIDE DEF new
<1>6. /\ frames' \in [Threads -> Seq(Frame)] /\ frames'[t] = new
      /\ \A r \in Threads \ {t} : frames'[r] = frames[r]
  BY <1>1, <1>4, <1>5
<1>7. Len(new) = Len(frames[t])
  BY <1>2, <1>4
<1>8. ASSUME NEW i \in 1 .. Len(frames[t]), i # 1
      PROVE  new[i] = frames[t][i]
  <2>1. PICK j \in 1 .. Len(frames[t]) - 1 : i = j + 1
    BY <1>2, <1>8
  <2> QED BY <1>2, <1>4, <2>1
<1>9. Head(new) = new[1]
  BY <1>4, Popped
<1> QED BY <1>3, <1>4, <1>6, <1>7, <1>8, <1>9

\* A function is on one stack at most, and once; a task that is there is not over.
LEMMA OnceOnStacks ==
  ASSUME IInv, NEW s \in Threads, NEW i \in 1 .. Len(frames[s]),
         NEW t \in Threads, NEW j \in 1 .. Len(frames[t]), frames[s][i].fun = frames[t][j].fun
  PROVE  s = t /\ i = j /\ (frames[s][i].fun \in Tasks => Live(frames[s][i].fun))
<1>1. PICK f : f = frames[s][i].fun /\ f = frames[t][j].fun
  OBVIOUS
<1>2. CASE f \in Tasks
  <2>1. Has("stack", s, f) /\ Has("stack", t, f)
    BY <1>1 DEF Has
  <2>2. Live(f) /\ \E k, x : \A l, y : Has(l, y, f) <=> l = k /\ y = x
    BY <1>2, <2>1, Here, Zenon DEF Single
  <2>3. PICK k, x : \A l, y : Has(l, y, f) <=> l = k /\ y = x
    BY <2>2, Zenon
  <2>4. s = t
    BY <2>1, <2>3
  <2> QED BY <1>1, <2>2, <2>4, Here DEF Apart
<1>3. CASE f \notin Tasks
  <2>3. Stacks
    BY Here
  <2>4. ASSUME NEW r \in Threads, NEW k \in 1 .. Len(frames[r]), frames[r][k].fun \notin Tasks
        PROVE  r \notin Workers /\ k = Len(frames[r]) /\ frames[r][k].fun = r
    BY <2>3, <2>4 DEF Stacks
  <2>1. s \notin Workers /\ i = Len(frames[s]) /\ f = s
    BY <1>1, <1>3, <2>4
  <2>2. t \notin Workers /\ j = Len(frames[t]) /\ f = t
    BY <1>1, <1>3, <2>4
  <2> QED BY <1>1, <1>3, <2>1, <2>2
<1> QED BY <1>2, <1>3

\* The operation a thread is at was not passed.
LEMMA NotPassed ==
  ASSUME IInv, NEW t \in Threads, frames[t] # <<>>, ~Ended(t)
  PROVE  ~Passed(Top(t).fun, Top(t).pc)
<1>1. PICK g, pc : g = Top(t).fun /\ pc = Top(t).pc
  OBVIOUS
<1>2. /\ Len(frames[t]) \in Nat \ {0} /\ 1 \in 1 .. Len(frames[t]) /\ Top(t) = frames[t][1]
      /\ g \in DOMAIN Program /\ pc \in 1 .. Len(Program[g])
  BY <1>1, TopIs, Here
<1>3. pc \in Nat
  BY <1>2, ProgramIs
<1>4. \A s \in Threads : \A j \in 1 .. Len(frames[s]) : frames[s][j].fun = g => s = t /\ j = 1
  BY <1>1, <1>2, OnceOnStacks
<1>5. ~(g \in Tasks /\ state[g] = "over")
  BY <1>1, <1>2, OnceOnStacks DEF Live
<1>6. ASSUME NEW s \in Threads, NEW j \in 1 .. Len(frames[s]), frames[s][j].fun = g
      PROVE  ~(frames[s][j].pc > pc)
  BY <1>1, <1>2, <1>3, <1>4, <1>6
<1> QED BY <1>1, <1>5, <1>6 DEF Passed

\* Going past an operation passes that one and no other.
LEMMA PastPasses ==
  ASSUME IInv, NEW t \in Threads, frames[t] # <<>>, ~Ended(t), frames' = Past(t),
         \A c \in Tasks : state'[c] = "over" <=> state[c] = "over"
  PROVE  /\ Stacks'
         /\ \A f \in DOMAIN Program : \A i \in 1 .. Len(Program[f]) :
              Passed(f, i)' <=> Passed(f, i) \/ (f = Top(t).fun /\ i = Top(t).pc)
<1>1. PICK g, pc : g = Top(t).fun /\ pc = Top(t).pc
  OBVIOUS
<1>2. /\ Len(frames[t]) \in Nat \ {0} /\ 1 \in 1 .. Len(frames[t]) /\ Top(t) = frames[t][1]
      /\ g \in DOMAIN Program /\ pc \in 1 .. Len(Program[g])
  BY <1>1, TopIs, Here
<1>3. /\ \A s \in Threads \ {t} : frames'[s] = frames[s]
      /\ Len(frames'[t]) = Len(frames[t]) /\ frames'[t] # <<>>
      /\ frames'[t][1].fun = g /\ frames'[t][1].pc = pc + 1 /\ pc \in Nat
      /\ \A i \in 1 .. Len(frames[t]) : i # 1 => frames'[t][i] = frames[t][i]
      /\ \A i \in 1 .. Len(frames[t]) : frames'[t][i].fun = frames[t][i].fun
  BY <1>1, <1>2, PastIs
<1>4. Len(Program[g]) \in Nat
  BY <1>2, ProgramIs
<1>5. Stacks'
  <2> SUFFICES ASSUME NEW s \in Threads
               PROVE  /\ s \notin Workers => frames'[s] # <<>>
                      /\ \A i \in 1 .. Len(frames'[s]) :
                           /\ frames'[s][i].fun \in IF s \notin Workers /\ i = Len(frames'[s]) THEN {s} ELSE Tasks
                           /\ frames'[s][i].pc \in 1 .. Len(Program[frames'[s][i].fun]) + 1
    BY DEF Stacks
  <2>3. Stacks
    BY Here
  <2>1. CASE s # t
    <3>1. frames'[s] = frames[s]
      BY <1>3, <2>1
    <3> QED BY <2>3, <3>1 DEF Stacks
  <2>2. CASE s = t
    <3>1. ASSUME NEW i \in 1 .. Len(frames[t])
          PROVE  frames'[t][i].pc \in 1 .. Len(Program[frames'[t][i].fun]) + 1
      <4>1. CASE i = 1
        <5>1. pc + 1 \in 1 .. Len(Program[g]) + 1
          BY <1>2, <1>4
        <5> QED BY <1>3, <4>1, <5>1
      <4>2. CASE i # 1
        BY <1>3, <4>2, Here DEF Stacks
      <4> QED BY <4>1, <4>2
    <3> QED BY <1>3, <2>2, <3>1, Here, ZenonT(60) DEF Stacks
  <2> QED BY <2>1, <2>2
<1>6. \A s \in Threads : \A j \in 1 .. Len(frames[s]) : frames[s][j].fun = g => s = t /\ j = 1
  BY <1>1, <1>2, OnceOnStacks
<1>8. ASSUME NEW f \in DOMAIN Program, NEW i \in 1 .. Len(Program[f])
      PROVE  Passed(f, i)' <=> Passed(f, i) \/ (f = g /\ i = pc)
  <2>1. i \in Nat
    BY <1>8, ProgramIs
  <2>2. Passed(f, i)' <=> \/ f \in Tasks /\ state[f] = "over"
                          \/ \E s \in Threads : \E j \in 1 .. Len(frames'[s]) :
                               frames'[s][j].fun = f /\ frames'[s][j].pc > i
    BY DEF Passed
  <2>3. CASE f # g
    <3>1. \A s \in Threads : \A j \in 1 .. Len(frames[s]) : frames[s][j].fun = f => frames'[s][j] = frames[s][j]
      BY <1>1, <1>2, <1>3, <2>3
    <3>2. \A s \in Threads : Len(frames'[s]) = Len(frames[s])
                            /\ \A j \in 1 .. Len(frames[s]) : frames'[s][j].fun = frames[s][j].fun
      BY <1>3
    <3> QED BY <2>2, <2>3, <3>1, <3>2, SMTT(30) DEF Passed
  <2>4. CASE f = g
    <3>1. ~(g \in Tasks /\ state[g] = "over")
      BY <1>1, <1>2, OnceOnStacks DEF Live
    <3>2. Passed(f, i) <=> pc > i
      BY <1>1, <1>2, <1>6, <2>4, <3>1 DEF Passed
    <3>3. \A s \in Threads : \A j \in 1 .. Len(frames'[s]) : frames'[s][j].fun = g => s = t /\ j = 1
      BY <1>3, <1>6
    <3>4. Passed(f, i)' <=> pc + 1 > i
      BY <1>2, <1>3, <2>2, <2>4, <3>1, <3>3
    <3> QED BY <1>3, <2>1, <2>4, <3>2, <3>4
  <2> QED BY <2>3, <2>4
<1> QED BY <1>1, <1>5, <1>8

LEMMA RanPast ==
  ASSUME IInv, NEW t \in Threads, frames[t] # <<>>, ~Ended(t), frames' = Past(t),
         \A c \in Tasks : state'[c] = "over" <=> state[c] = "over",
         \A c \in Tasks : \/ Op(t).op = "go" /\ c \in Op(t).of /\ state'[c] # "none"
                          \/ state'[c] = "none" <=> state[c] = "none",
         \A x \in Threads : at[x] = "done" => at'[x] = "done",
         Op(t).op = "go" => \A c \in Op(t).of : state'[c] # "none",
         Op(t).op \in {"all", "any"} => Over(Op(t)),
         Op(t).op = "join" => \A x \in Op(t).of : at[x] = "done"
  PROVE  Ran'
<1>1. PICK g, pc : g = Top(t).fun /\ pc = Top(t).pc
  OBVIOUS
<1>2. g \in DOMAIN Program /\ pc \in 1 .. Len(Program[g]) /\ Op(t) = Program[g][pc]
  BY <1>1, TopIs, Here DEF Op
<1>3. \A f \in DOMAIN Program : \A i \in 1 .. Len(Program[f]) :
        Passed(f, i)' <=> Passed(f, i) \/ (f = g /\ i = pc)
  BY <1>1, PastPasses
<1> SUFFICES ASSUME NEW f \in DOMAIN Program, NEW i \in 1 .. Len(Program[f])
             PROVE  /\ Program[f][i].op = "go" =>
                          \A c \in Program[f][i].of : (Passed(f, i)' <=> state'[c] # "none")
                    /\ Program[f][i].op \in {"all", "any"} /\ Passed(f, i)' => Over(Program[f][i])'
                    /\ Program[f][i].op = "join" /\ Passed(f, i)' =>
                          \A x \in Program[f][i].of : at'[x] = "done"
  BY DEF Ran
<1>4. PICK o : o = Program[f][i]
  OBVIOUS
<1>5. /\ o.op = "go" => \A c \in o.of : (Passed(f, i) <=> state[c] # "none")
      /\ o.op \in {"all", "any"} /\ Passed(f, i) => Over(o)
      /\ o.op = "join" /\ Passed(f, i) => \A x \in o.of : at[x] = "done"
  BY <1>4, Here DEF Ran
<1>6. o \in Operations
  BY <1>4, ProgramIs
<1>7. /\ o.op \in {"go", "all", "any"} => o.of \subseteq Tasks
      /\ o.op = "join" => o.of \subseteq Threads
      /\ o.op = "go" => \E c \in Tasks : o = Go(c) /\ o.of = {c}
  BY <1>6, OperationIs DEF Threads
<1>8. o.op \in {"all", "any"} /\ Over(o) => Over(o)'
  BY <1>7 DEF Over
<1>9. CASE f = g /\ i = pc
  BY <1>2, <1>3, <1>4, <1>7, <1>8, <1>9
<1>10. CASE ~(f = g /\ i = pc)
  <2>1. Passed(f, i)' <=> Passed(f, i)
    BY <1>3, <1>10
  <2>2. ASSUME o.op = "go", NEW c \in o.of, Op(t).op = "go", c \in Op(t).of
        PROVE  FALSE
    <3>1. o = Go(c)
      BY <1>7, <2>2
    <3>2. Op(t) = Go(c)
      BY <1>2, <2>2, ProgramIs, OperationIs
    <3>3. i \in DOMAIN Program[f] /\ pc \in DOMAIN Program[g]
      BY <1>2, ProgramIs
    <3>4. f = g /\ i = pc
      <4>1. \A h, k \in DOMAIN Program : \A m \in DOMAIN Program[h], n \in DOMAIN Program[k] :
              Program[h][m].op = "go" /\ Program[h][m] = Program[k][n] => h = k /\ m = n
        BY ProgramAssumption
      <4>2. Program[f][i] = Program[g][pc] /\ Program[f][i].op = "go" /\ g \in DOMAIN Program
        BY <1>2, <1>4, <2>2, <3>1, <3>2
      <4> QED BY <3>3, <4>1, <4>2
    <3> QED BY <1>10, <3>4
  <2>3. o.op = "go" => \A c \in o.of : (state'[c] # "none" <=> state[c] # "none")
    BY <1>7, <2>2
  <2> QED BY <1>4, <1>5, <1>7, <1>8, <2>1, <2>3
<1> QED BY <1>9, <1>10

\* A thread without queues is at its first operation, which schedules.
LEMMA FirstIsGo ==
  ASSUME IInv, NEW t \in Threads, at[t] = "body", ~Ended(t), Op(t).op # "go"
  PROVE  place[t] # 0
<1> SUFFICES ASSUME place[t] = 0
             PROVE  FALSE
  OBVIOUS
<1>1. t \in Foreign /\ frames[t] = <<Call(t)>>
  BY Here DEF FlowOf
<1>2. Top(t) = Call(t) /\ Top(t).fun = t /\ Top(t).pc = 1
  BY <1>1 DEF Top, Call
<1>3. Program[t] \in Seq(Operations) /\ Program[t] # <<>>
  <2>1. t \in DOMAIN Program
    BY <1>1, Functions
  <2>2. 1 \in 1 .. Len(Program[t])
    <3>1. frames[t] # <<>>
      BY Here DEF FlowOf
    <3> QED BY <1>2, <3>1, TopIs, Here
  <2>3. Program[t] \in Seq(Operations)
    BY <2>1, ProgramIs
  <2> QED BY <2>2, <2>3, EmptySeq
<1>4. Op(t) = Head(Program[t])
  BY <1>2, <1>3, Popped DEF Op
<1> QED BY <1>1, <1>3, <1>4, ProgramAssumption

\* Going past a wait that is over, or a join.
LEMMA GoesPast ==
  ASSUME IInv, NEW t \in Threads, at[t] = "body", ~Ended(t), frames' = Past(t),
         UNCHANGED <<state, ready, waiting, place, at, got, plan, odd, retry, sleepers, quit>>,
         Op(t).op # "go", Op(t).op \in {"all", "any"} => Over(Op(t)),
         Op(t).op = "join" => \A x \in Op(t).of : at[x] = "done"
  PROVE  IInv'
<1>1. frames[t] # <<>>
  BY Here DEF FlowOf
<1>2. /\ frames' \in [Threads -> Seq(Frame)]
      /\ \A s \in Threads \ {t} : frames'[s] = frames[s]
      /\ Len(frames'[t]) = Len(frames[t]) /\ frames'[t] # <<>>
      /\ \A i \in 1 .. Len(frames[t]) : frames'[t][i].fun = frames[t][i].fun
  BY <1>1, PastIs
<1>3. \A s \in Threads :
        /\ Len(frames'[s]) = Len(frames[s])
        /\ \A i \in 1 .. Len(frames[s]) : frames'[s][i].fun = frames[s][i].fun
  BY <1>2
<1>4. Stacks'
  BY <1>1, PastPasses
<1>5. FlowOf(t)'
  BY <1>2, FirstIsGo, Here DEF FlowOf, Falling, Leaving, Busy
<1>6. Flow'
  BY <1>2, <1>5, Here, FlowKept
<1>7. Ran'
  BY <1>1, RanPast
<1>8. Apart' /\ Fits' /\ SleepersCounted'
  <2>1. Apart'
    <3>1. Apart
      BY Here
    <3>2. ready' = ready /\ waiting' = waiting
      OBVIOUS
    <3>3. \A q \in 1 .. Len(ready') : Distinct(ready[q])' /\ Distinct(waiting[q])'
      BY <3>1, <3>2 DEF Apart, Distinct
    <3>4. \A s \in Threads : \A i, j \in 1 .. Len(frames'[s]) : frames'[s][i].fun = frames'[s][j].fun => i = j
      BY <1>3, <3>1 DEF Apart
    <3> QED BY <3>3, <3>4 DEF Apart
  <2>2. Fits' /\ SleepersCounted'
    BY Here DEF Fits, SleepersCounted
  <2> QED BY <2>1, <2>2
<1>9. Single'
  <2>1. \A c \in Tasks : Live(c)' <=> Live(c)
    BY DEF Live
  <2>2. \A c \in Tasks : \A k, y : Has(k, y, c)' <=> Has(k, y, c)
    BY <1>3 DEF Has
  <2> QED BY <2>1, <2>2, Here, SingleKept
<1>10. TypeOK'
  BY <1>2, Here DEF TypeOK, Frame
<1> QED BY <1>4, <1>6, <1>7, <1>8, <1>9, <1>10 DEF IInv

LEMMA WaitKeeps ==
  ASSUME IInv, NEW t \in Threads, Wait(t)
  PROVE  IInv'
<1>1. /\ at[t] = "body" /\ ~Ended(t) /\ Op(t).op \in {"all", "any"}
      /\ UNCHANGED <<state, ready, waiting, place, got, plan, odd, retry, sleepers, quit>>
  BY DEF Wait, AtOp, queueVars, takeVars, sleepVars
<1>2. CASE Over(Op(t))
  <2>1. frames' = Past(t) /\ at' = at
    BY <1>2 DEF Wait
  <2> QED BY <1>1, <1>2, <2>1, GoesPast
<1>3. CASE ~Over(Op(t))
  <2>1. at' = [at EXCEPT ![t] = "own"] /\ frames' = frames
    BY <1>3 DEF Wait, Goto
  <2>2. place[t] # 0
    BY <1>1, FirstIsGo
  <2>3. FlowOf(t)'
    BY <1>1, <2>1, <2>2, Here DEF FlowOf, Falling, Leaving, Busy, Top
  <2>4. /\ "own" \in Spots /\ "own" \notin {"run", "again"} /\ at[t] \notin {"run", "again", "done"}
        /\ "own" \notin Falling /\ at[t] \notin Falling
    BY <1>1 DEF Spots, Falling
  <2> QED BY <1>1, <2>1, <2>3, <2>4, Here, AtMoves
<1> QED BY <1>2, <1>3

LEMMA JoinedKeeps ==
  ASSUME IInv, NEW t \in Threads, Joined(t)
  PROVE  IInv'
<1>1. /\ at[t] = "body" /\ ~Ended(t) /\ Op(t).op = "join" /\ frames' = Past(t)
      /\ \A x \in Op(t).of : at[x] = "done"
      /\ UNCHANGED <<state, ready, waiting, place, at, got, plan, odd, retry, sleepers, quit>>
  BY DEF Joined, AtOp, queueVars, takeVars, sleepVars
<1> QED BY <1>1, GoesPast

-----------------------------------------------------------------------------
(***************************************************************************)
(* A task goes from place to place.                                        *)
(***************************************************************************)

LEMMA Alone ==
  ASSUME Single, NEW c \in Tasks, NEW kind, NEW x, Has(kind, x, c)
  PROVE  Live(c) /\ \A k, y : Has(k, y, c) <=> k = kind /\ y = x
<1>1. Live(c) /\ \E l, z : \A k, y : Has(k, y, c) <=> (k = l /\ y = z)
  BY Zenon DEF Single
<1>2. PICK l, z : \A k, y : Has(k, y, c) <=> (k = l /\ y = z)
  BY <1>1, Zenon
<1>3. l = kind /\ z = x
  BY <1>2
<1> QED BY <1>1, <1>2, <1>3

\* A queue without its first or its last task, and with a task more.
Without(s, r, d) ==
  \/ r = Tail(s) /\ d = Head(s)
  \/ r = SubSeq(s, 1, Len(s) - 1) /\ d = s[Len(s)]

In(c, s) == \E i \in 1 .. Len(s) : s[i] = c

LEMMA Removed ==
  ASSUME NEW s \in Seq(Tasks), s # <<>>, Distinct(s), NEW r, NEW d, Without(s, r, d)
  PROVE  /\ r \in Seq(Tasks) /\ d \in Tasks /\ Len(r) = Len(s) - 1 /\ Distinct(r)
         /\ In(d, s) /\ \A c : In(c, r) <=> c # d /\ In(c, s)
<1>1. CASE r = Tail(s) /\ d = Head(s)
  <2>1. /\ Len(s) \in Nat \ {0} /\ d = s[1] /\ d \in Tasks
        /\ r \in Seq(Tasks) /\ Len(r) = Len(s) - 1
        /\ \A i \in 1 .. Len(s) - 1 : r[i] = s[i + 1]
        /\ \A i : i \in 1 .. Len(s) <=> i = 1 \/ \E j \in 1 .. Len(s) - 1 : i = j + 1
    BY <1>1, Popped
  <2>2. \A i \in 1 .. Len(r) : i + 1 \in 1 .. Len(s) /\ r[i] = s[i + 1] /\ i + 1 # 1
    BY <2>1
  <2>3. Distinct(r)
    BY <2>2 DEF Distinct
  <2>4. 1 \in 1 .. Len(s)
    BY <2>1
  <2>5. ASSUME NEW c
        PROVE  In(c, r) <=> c # d /\ In(c, s)
    <3>1. ASSUME NEW i \in 1 .. Len(r), r[i] = c
          PROVE  c # d /\ \E j \in 1 .. Len(s) : s[j] = c
      BY <2>1, <2>2, <2>4, <3>1 DEF Distinct
    <3>2. ASSUME c # d, NEW i \in 1 .. Len(s), s[i] = c
          PROVE  \E j \in 1 .. Len(r) : r[j] = c
      BY <2>1, <3>2
    <3> QED BY <3>1, <3>2 DEF In
  <2> QED BY <2>1, <2>3, <2>4, <2>5 DEF In
<1>2. CASE r = SubSeq(s, 1, Len(s) - 1) /\ d = s[Len(s)]
  <2>1. /\ Len(s) \in Nat \ {0} /\ d = s[Len(s)] /\ d \in Tasks
        /\ r \in Seq(Tasks) /\ Len(r) = Len(s) - 1
        /\ \A i \in 1 .. Len(s) - 1 : r[i] = s[i]
        /\ \A i : i \in 1 .. Len(s) <=> i = Len(s) \/ i \in 1 .. Len(s) - 1
    BY <1>2, Shortened
  <2>2. \A i \in 1 .. Len(r) : i \in 1 .. Len(s) /\ r[i] = s[i] /\ i # Len(s)
    BY <2>1
  <2>3. Distinct(r)
    BY <2>2 DEF Distinct
  <2>4. Len(s) \in 1 .. Len(s)
    BY <2>1
  <2>5. ASSUME NEW c
        PROVE  In(c, r) <=> c # d /\ In(c, s)
    <3>1. ASSUME NEW i \in 1 .. Len(r), r[i] = c
          PROVE  c # d /\ \E j \in 1 .. Len(s) : s[j] = c
      BY <2>1, <2>2, <2>4, <3>1 DEF Distinct
    <3>2. ASSUME c # d, NEW i \in 1 .. Len(s), s[i] = c
          PROVE  \E j \in 1 .. Len(r) : r[j] = c
      BY <2>1, <3>2
    <3> QED BY <3>1, <3>2 DEF In
  <2> QED BY <2>1, <2>3, <2>4, <2>5 DEF In
<1> QED BY <1>1, <1>2 DEF Without

LEMMA Added ==
  ASSUME NEW s \in Seq(Tasks), NEW d \in Tasks, Distinct(s), ~In(d, s)
  PROVE  /\ Append(s, d) \in Seq(Tasks) /\ Len(Append(s, d)) = Len(s) + 1 /\ Distinct(Append(s, d))
         /\ \A c : In(c, Append(s, d)) <=> c = d \/ In(c, s)
<1> DEFINE r == Append(s, d)
<1>1. /\ r \in Seq(Tasks) /\ Len(r) = Len(s) + 1 /\ Len(s) \in Nat
      /\ \A i \in 1 .. Len(s) : r[i] = s[i]
      /\ r[Len(s) + 1] = d
      /\ \A i : i \in 1 .. Len(s) + 1 <=> i \in 1 .. Len(s) \/ i = Len(s) + 1
  BY Appended
<1> HIDE DEF r
<1>2. Distinct(r)
  BY <1>1 DEF Distinct, In
<1>3. \A c : In(c, r) <=> c = d \/ In(c, s)
  BY <1>1 DEF In
<1> QED BY <1>1, <1>2, <1>3 DEF r

\* One of a list of queues is replaced.
LEMMA Put ==
  ASSUME NEW v \in Seq(Seq(Tasks)), NEW q \in 1 .. Len(v), NEW r \in Seq(Tasks)
  PROVE  /\ [v EXCEPT ![q] = r] \in Seq(Seq(Tasks)) /\ Len([v EXCEPT ![q] = r]) = Len(v)
         /\ [v EXCEPT ![q] = r][q] = r
         /\ \A p \in 1 .. Len(v) : p # q => [v EXCEPT ![q] = r][p] = v[p]
BY ExceptSeq

\* A thread goes on to a spot, and task d to a place where it is alone, while
\* the stacks stay as they are.
LEMMA MoveKeeps ==
  ASSUME IInv, NEW t \in Threads, NEW spot \in Spots, at' = [at EXCEPT ![t] = spot],
         UNCHANGED <<place, frames, odd, sleepers, quit>>,
         at[t] \notin Falling \cup {"done"}, spot \notin Falling,
         state' \in [Tasks -> {"none", "init", "run", "over"}],
         \A c \in Tasks : /\ Live(c)' <=> Live(c)
                          /\ state'[c] = "none" <=> state[c] = "none"
                          /\ state[c] = "over" => state'[c] = "over",
         ready' \in Seq(Seq(Tasks)), waiting' \in Seq(Seq(Tasks)),
         Len(ready') = Len(ready), Len(waiting') = Len(ready),
         \A q \in 1 .. Len(ready) : /\ Distinct(ready'[q]) /\ Distinct(waiting'[q])
                                    /\ Len(ready'[q]) <= Room /\ Len(waiting'[q]) <= Room,
         got' \in Hands, plan' \in Plans, retry' \in [Threads -> 0 .. Tries],
         \A s \in Threads \ {t} : got'[s] = got[s] /\ plan'[s] = plan[s] /\ retry'[s] = retry[s],
         NEW d \in Tasks, NEW kind, NEW x, Moves(d, kind, x), FlowOf(t)'
  PROVE  IInv'
<1>1. TypeOK /\ Stacks /\ Flow /\ Single /\ Apart /\ Ran /\ SleepersCounted /\ at \in [Threads -> Spots]
  BY DEF IInv, TypeOK
<1>2. at'[t] = spot /\ at' \in [Threads -> Spots] /\ \A s \in Threads \ {t} : at'[s] = at[s]
  BY <1>1
<1>3. \A s \in Threads : /\ at[s] = "done" => at'[s] = "done"
                         /\ at'[s] \in Falling <=> at[s] \in Falling
  BY <1>2
<1>4. Stacks'
  BY <1>1 DEF Stacks
<1>5. Flow'
  BY <1>1, <1>2, FlowKept
<1>6. Single'
  BY <1>1, SingleMoved
<1>7. Len(ready) \in Nat /\ DOMAIN ready = 1 .. Len(ready) /\ DOMAIN ready' = 1 .. Len(ready)
  BY <1>1, QueueType, LenProperties
<1>8. Apart' /\ Fits'
  BY <1>1, <1>7 DEF Apart, Fits
<1>9. Ran'
  <2>1. \A f \in DOMAIN Program : \A i \in 1 .. Len(Program[f]) : Passed(f, i)' <=> Passed(f, i)
    <3>1. \A c \in Tasks : state'[c] = "over" <=> state[c] = "over"
      BY <1>1 DEF Live, TypeOK
    <3> QED BY <3>1 DEF Passed
  <2> QED BY <1>1, <1>3, <2>1, RanKept
<1>10. SleepersCounted'
  BY <1>1, <1>3, SleepKept
<1>11. TypeOK'
  BY <1>1, <1>2, <1>7 DEF TypeOK, Plans, Hands, View
<1> QED BY <1>4, <1>5, <1>6, <1>8, <1>9, <1>10, <1>11 DEF IInv

\* A thread takes a task from the front or the back of a queue.
LEMMA TakeKeeps ==
  ASSUME IInv, NEW t \in Threads, NEW kind \in {"ready", "waiting"}, NEW q \in 1 .. Len(ready),
         NEW s, s = IF kind = "ready" THEN ready[q] ELSE waiting[q], s # <<>>,
         NEW r, NEW d, Without(s, r, d),
         ready' = IF kind = "ready" THEN [ready EXCEPT ![q] = r] ELSE ready,
         waiting' = IF kind = "waiting" THEN [waiting EXCEPT ![q] = r] ELSE waiting,
         at[t] \in {"own", "scan", "grab"}, at' = [at EXCEPT ![t] = "run"],
         got' = [got EXCEPT ![t] = d],
         UNCHANGED <<state, place, frames, odd, retry, sleepers, quit>>,
         plan' \in Plans, \A p \in Threads \ {t} : plan'[p] = plan[p]
  PROVE  IInv'
<1>1. /\ ready \in Seq(Seq(Tasks)) /\ waiting \in Seq(Seq(Tasks))
      /\ Len(ready) \in Nat /\ Len(waiting) = Len(ready)
      /\ DOMAIN ready = 1 .. Len(ready) /\ DOMAIN waiting = 1 .. Len(ready)
      /\ \A p \in 1 .. Len(ready) :
           /\ ready[p] \in Seq(Tasks) /\ Len(ready[p]) \in Nat
           /\ waiting[p] \in Seq(Tasks) /\ Len(waiting[p]) \in Nat
  BY Here, QueueType DEF TypeOK
<1>2. \A p \in 1 .. Len(ready) : /\ Distinct(ready[p]) /\ Distinct(waiting[p])
                                 /\ Len(ready[p]) <= Room /\ Len(waiting[p]) <= Room
  BY <1>1, Here DEF Apart, Fits
<1>3. s \in Seq(Tasks) /\ Distinct(s) /\ Len(s) \in Nat /\ Len(s) <= Room /\ Room \in Nat
  BY <1>1, <1>2, ProgramAssumption
<1>4. /\ r \in Seq(Tasks) /\ d \in Tasks /\ Len(r) = Len(s) - 1 /\ Distinct(r)
      /\ In(d, s) /\ \A c : In(c, r) <=> c # d /\ In(c, s)
  BY <1>3, Removed
<1>5. Has(kind, q, d)
  BY <1>1, <1>4 DEF Has, In
<1>6. Live(d) /\ \A k, y : Has(k, y, d) <=> k = kind /\ y = q
  BY <1>4, <1>5, Here, Alone
<1>7. /\ ready' \in Seq(Seq(Tasks)) /\ waiting' \in Seq(Seq(Tasks))
      /\ Len(ready') = Len(ready) /\ Len(waiting') = Len(ready)
      /\ \A p \in 1 .. Len(ready) :
           /\ ready'[p] = IF kind = "ready" /\ p = q THEN r ELSE ready[p]
           /\ waiting'[p] = IF kind = "waiting" /\ p = q THEN r ELSE waiting[p]
  BY <1>1, <1>4, Put
<1>8. \A p \in 1 .. Len(ready) : /\ Distinct(ready'[p]) /\ Distinct(waiting'[p])
                                 /\ Len(ready'[p]) <= Room /\ Len(waiting'[p]) <= Room
  <2>1. Distinct(r) /\ Len(r) <= Room
    BY <1>3, <1>4
  <2> QED BY <1>2, <1>7, <2>1, Zenon
<1>9. /\ got' \in Hands /\ got'[t] = d /\ \A p \in Threads \ {t} : got'[p] = got[p]
      /\ at'[t] = "run" /\ \A p \in Threads \ {t} : at'[p] = at[p]
  BY <1>4, Here DEF Hands
<1>10. ASSUME NEW c \in Tasks, NEW k, NEW y
       PROVE  Has(k, y, c)' <=> IF c = d THEN k = "hand" /\ y = t ELSE Has(k, y, c)
  <2>1. Has("ready", y, c)' <=> IF c = d THEN FALSE ELSE Has("ready", y, c)
    <3>1. Has("ready", y, c)' <=> y \in 1 .. Len(ready) /\ \E i \in 1 .. Len(ready'[y]) : ready'[y][i] = c
      BY <1>7 DEF Has
    <3>2. Has("ready", y, c) <=> y \in 1 .. Len(ready) /\ \E i \in 1 .. Len(ready[y]) : ready[y][i] = c
      BY DEF Has
    <3>3. CASE kind = "ready" /\ y = q
      <4>1. ready[q] = s /\ ready'[q] = r
        BY <1>7, <3>3
      <4>2. (\E i \in 1 .. Len(r) : r[i] = c) <=> (c # d /\ \E i \in 1 .. Len(s) : s[i] = c)
        BY <1>4 DEF In
      <4> QED BY <3>1, <3>2, <3>3, <4>1, <4>2
    <3>4. CASE ~(kind = "ready" /\ y = q)
      <4>1. ~Has("ready", y, d)
        BY <1>6, <3>4
      <4>2. y \in 1 .. Len(ready) => ready'[y] = ready[y]
        BY <1>7, <3>4
      <4> QED BY <3>1, <3>2, <4>1, <4>2
    <3> QED BY <3>3, <3>4
  <2>2. Has("waiting", y, c)' <=> IF c = d THEN FALSE ELSE Has("waiting", y, c)
    <3>1. Has("waiting", y, c)' <=> y \in 1 .. Len(ready) /\ \E i \in 1 .. Len(waiting'[y]) : waiting'[y][i] = c
      BY <1>7 DEF Has
    <3>2. Has("waiting", y, c) <=> y \in 1 .. Len(ready) /\ \E i \in 1 .. Len(waiting[y]) : waiting[y][i] = c
      BY <1>1 DEF Has
    <3>3. CASE kind = "waiting" /\ y = q
      <4>1. waiting[q] = s /\ waiting'[q] = r
        BY <1>7, <3>3
      <4>2. (\E i \in 1 .. Len(r) : r[i] = c) <=> (c # d /\ \E i \in 1 .. Len(s) : s[i] = c)
        BY <1>4 DEF In
      <4> QED BY <3>1, <3>2, <3>3, <4>1, <4>2
    <3>4. CASE ~(kind = "waiting" /\ y = q)
      <4>1. ~Has("waiting", y, d)
        BY <1>6, <3>4
      <4>2. y \in 1 .. Len(ready) => waiting'[y] = waiting[y]
        BY <1>7, <3>4
      <4> QED BY <3>1, <3>2, <4>1, <4>2
    <3> QED BY <3>3, <3>4
  <2>3. Has("hand", y, c)' <=> IF c = d THEN y = t ELSE Has("hand", y, c)
    <3>1. Has("hand", y, c)' <=> y \in Threads /\ at'[y] \in {"run", "again"} /\ got'[y] = c
      BY DEF Has
    <3>2. Has("hand", y, c) <=> y \in Threads /\ at[y] \in {"run", "again"} /\ got[y] = c
      BY DEF Has
    <3>3. ~Has("hand", y, d)
      BY <1>6
    <3> QED BY <1>9, <3>1, <3>2, <3>3
  <2>4. Has("stack", y, c)' <=> IF c = d THEN FALSE ELSE Has("stack", y, c)
    <3>1. ~Has("stack", y, d)
      BY <1>6
    <3> QED BY <3>1 DEF Has
  <2>5. k \notin {"ready", "waiting", "hand", "stack"} => ~Has(k, y, c)' /\ ~Has(k, y, c)
    BY DEF Has
  <2> QED BY <2>1, <2>2, <2>3, <2>4, <2>5
<1>11. FlowOf(t)'
  BY <1>4, <1>9, Here DEF FlowOf, Falling, Leaving, Busy, Top
<1>12. \A c \in Tasks : Live(c)' <=> Live(c)
  BY DEF Live
<1>13. "run" \in Spots /\ "run" \notin Falling /\ at[t] \notin Falling \cup {"done"}
  BY DEF Spots, Falling
<1>14. state' \in [Tasks -> {"none", "init", "run", "over"}] /\ retry' \in [Threads -> 0 .. Tries]
  BY Here DEF TypeOK
<1>17. Moves(d, "hand", t)
  <2>1. Live(d)' /\ \A c \in Tasks : c # d => (Live(c)' <=> Live(c))
    BY <1>4, <1>6, <1>12
  <2> QED BY <1>10, <2>1, Zenon DEF Moves
<1>15. \A c \in Tasks : /\ Live(c)' <=> Live(c)
                        /\ state'[c] = "none" <=> state[c] = "none"
                        /\ state[c] = "over" => state'[c] = "over"
  BY <1>12
<1>16. \A p \in Threads \ {t} : got'[p] = got[p] /\ plan'[p] = plan[p] /\ retry'[p] = retry[p]
  BY <1>9
<1> QED BY <1>4, <1>7, <1>8, <1>9, <1>11, <1>13, <1>14, <1>15, <1>16, <1>17, MoveKeeps

\* The plan names queues that are there.
LEMMA PlanIs ==
  ASSUME TypeOK, NEW t \in Threads, place[t] \in 1 .. Len(ready)
  PROVE  Plan(t) \in Seq(View)
<1>1. Len(ready) \in Nat \ {0} /\ DOMAIN ready = 1 .. Len(ready) /\ place[t] - 1 \in Nat
  BY QueueType
<1>2. \A i \in 1 .. Len(ready) : Look("ready", i) \in View /\ Look("waiting", i) \in View
  BY <1>1 DEF Look, View
<1>3. Mine(t) \in Seq(View)
  BY <1>2 DEF Mine
<1> DEFINE n    == 2 * (Len(ready) - 1)
           e(j) == Look(IF j % 2 = 1 THEN "ready" ELSE "waiting",
                        ((place[t] - 1 + (j + 1) \div 2) % Len(ready)) + 1)
<1>4. n \in Nat
  BY <1>1
<1>5. ASSUME NEW j \in 1 .. n
      PROVE  e(j) \in View
  <2>1. (j + 1) \div 2 \in Nat
    BY <1>4
  <2>2. PICK k \in Nat : k = place[t] - 1 + (j + 1) \div 2
    BY <1>1, <2>1
  <2>3. (k % Len(ready)) + 1 \in 1 .. Len(ready)
    BY <1>1
  <2>4. PICK i \in 1 .. Len(ready) : i = (k % Len(ready)) + 1
    BY <2>3
  <2>5. e(j) = Look(IF j % 2 = 1 THEN "ready" ELSE "waiting", i)
    BY <2>2, <2>4
  <2> HIDE DEF e
  <2> QED BY <1>2, <2>5
<1>6. Others(t) = [j \in 1 .. n |-> e(j)]
  BY DEF Others
<1> HIDE DEF n, e
<1>7. Others(t) \in Seq(View)
  BY <1>4, <1>5, <1>6, IsASeq
<1> QED BY <1>3, <1>7, ConcatProperties DEF Plan

LEMMA OwnKeeps ==
  ASSUME IInv, NEW t \in Threads, Own(t)
  PROVE  IInv'
<1>1. /\ at[t] = "own" /\ UNCHANGED <<state, waiting, place, frames, retry, sleepers, quit>>
      /\ place[t] \in 1 .. Len(ready)
  BY PlaceIs, Here DEF Own, sleepVars
<1>2. PICK q : q = ready[place[t]]
  OBVIOUS
<1>3. CASE q # <<>>
  <2>1. /\ got' = [got EXCEPT ![t] = q[Len(q)]]
        /\ ready' = [ready EXCEPT ![place[t]] = SubSeq(q, 1, Len(q) - 1)]
        /\ at' = [at EXCEPT ![t] = "run"] /\ plan' = plan /\ odd' = odd
    BY <1>2, <1>3 DEF Own, Goto, takeVars
  <2>2. PICK r, d : r = SubSeq(q, 1, Len(q) - 1) /\ d = q[Len(q)]
    OBVIOUS
  <2>3. Without(q, r, d)
    BY <2>2 DEF Without
  <2>4. plan' \in Plans
    BY <2>1, Here
  <2> QED BY <1>1, <1>2, <1>3, <2>1, <2>2, <2>3, <2>4, TakeKeeps
<1>4. CASE q = <<>>
  <2>1. /\ odd' = [odd EXCEPT ![t] = ~@] /\ plan' = [plan EXCEPT ![t] = Plan(t)]
        /\ at' = [at EXCEPT ![t] = "scan"] /\ got' = got /\ ready' = ready
    BY <1>2, <1>4 DEF Own, Goto
  <2>2. Plan(t) \in Seq(View)
    BY <1>1, PlanIs, Here
  <2>3. plan' \in Plans /\ \A s \in Threads \ {t} : plan'[s] = plan[s]
    BY <2>1, <2>2, Here DEF Plans
  <2>4. odd' \in [Threads -> BOOLEAN]
    BY <2>1, Here
  <2>5. FlowOf(t)'
    BY <1>1, <2>1, Here DEF FlowOf, Falling, Leaving, Busy, Top
  <2>6. /\ "scan" \in Spots /\ "scan" \notin {"run", "again"} /\ at[t] \notin {"run", "again", "done"}
        /\ "scan" \notin Falling /\ at[t] \notin Falling
    BY <1>1 DEF Spots, Falling
  <2> QED BY <1>1, <2>1, <2>3, <2>4, <2>5, <2>6, Here, AtMoves
<1> QED BY <1>3, <1>4

\* The next queue of a plan is there.
LEMMA FrontIs ==
  ASSUME IInv, NEW t \in Threads, plan[t] # <<>>
  PROVE  /\ Front(t).from \in {"ready", "waiting"} /\ Front(t).i \in 1 .. Len(ready)
         /\ Tail(plan[t]) \in Seq(View) /\ <<>> \in Seq(View)
         /\ ready[Front(t).i] \in Seq(Tasks) /\ waiting[Front(t).i] \in Seq(Tasks)
<1>1. plan[t] \in Seq(View)
  BY Here
<1>2. Front(t) \in View /\ Tail(plan[t]) \in Seq(View) /\ <<>> \in Seq(View)
  BY <1>1, Popped, EmptySeq DEF Front
<1> QED BY <1>2, QueueType, Here DEF View

\* Nothing is taken from the next queue of the plan.
LEMMA SkipKeeps ==
  ASSUME IInv, NEW t \in Threads, at[t] \in {"scan", "grab"}, plan[t] # <<>>, Skip(t),
         at' = [at EXCEPT ![t] = "scan"], got' = got \/ Drop(t),
         UNCHANGED <<state, ready, waiting, place, frames, odd, retry, sleepers, quit>>
  PROVE  IInv'
<1>1. plan' = [plan EXCEPT ![t] = Tail(plan[t])] /\ Tail(plan[t]) \in Seq(View)
  BY FrontIs DEF Skip
<1>2. plan' \in Plans /\ \A s \in Threads \ {t} : plan'[s] = plan[s]
  BY <1>1, Here DEF Plans
<1>3. got' \in Hands /\ \A s \in Threads \ {t} : got'[s] = got[s]
  BY Here DEF Drop, Hands
<1>4. FlowOf(t)'
  BY Here DEF FlowOf, Falling, Leaving, Busy, Top
<1>5. /\ "scan" \in Spots /\ "scan" \notin {"run", "again"} /\ at[t] \notin {"run", "again", "done"}
      /\ "scan" \notin Falling /\ at[t] \notin Falling
  BY DEF Spots, Falling
<1> QED BY <1>2, <1>3, <1>4, <1>5, Here, AtMoves

LEMMA ScanKeeps ==
  ASSUME IInv, NEW t \in Threads, Scan(t)
  PROVE  IInv'
<1>1. /\ at[t] = "scan" /\ plan[t] # <<>>
      /\ UNCHANGED <<state, ready, place, frames, odd, retry, sleepers, quit>>
  BY DEF Scan, sleepVars
<1>2. /\ Front(t).from \in {"ready", "waiting"} /\ Front(t).i \in 1 .. Len(ready) /\ <<>> \in Seq(View)
      /\ ready[Front(t).i] \in Seq(Tasks) /\ waiting[Front(t).i] \in Seq(Tasks)
  BY <1>1, FrontIs
<1>3. PICK q : q = IF Front(t).from = "ready" THEN ready[Front(t).i] ELSE waiting[Front(t).i]
  OBVIOUS
<1>4. CASE q = <<>>
  <2>1. Skip(t) /\ at' = at /\ got' = got /\ waiting' = waiting
    BY <1>1, <1>3, <1>4 DEF Scan
  <2>2. at' = [at EXCEPT ![t] = "scan"]
    BY <1>1, <2>1, Here
  <2> QED BY <1>1, <2>1, <2>2, SkipKeeps
<1>5. CASE q # <<>> /\ Front(t).from = "waiting"
  <2>1. /\ got' = [got EXCEPT ![t] = Head(q)]
        /\ waiting' = [waiting EXCEPT ![Front(t).i] = Tail(q)] /\ Found(t)
    BY <1>1, <1>3, <1>5 DEF Scan
  <2>7. PICK i \in 1 .. Len(ready) : i = Front(t).i
    BY <1>2
  <2>8. PICK r, d : r = Tail(q) /\ d = Head(q)
    OBVIOUS
  <2>2. r = Tail(q) /\ d = Head(q) /\ i = Front(t).i
    BY <2>7, <2>8
  <2>3. Without(q, r, d)
    BY <2>2 DEF Without
  <2>4. /\ plan' = [plan EXCEPT ![t] = <<>>] /\ at' = [at EXCEPT ![t] = "run"]
    BY <2>1 DEF Found, Goto
  <2>5. plan' \in Plans /\ \A s \in Threads \ {t} : plan'[s] = plan[s]
    BY <1>2, <2>4, Here DEF Plans
  <2>6. q = waiting[i] /\ waiting' = [waiting EXCEPT ![i] = r] /\ got' = [got EXCEPT ![t] = d]
    BY <1>3, <1>5, <2>1, <2>2
  <2> QED BY <1>1, <1>5, <2>3, <2>4, <2>5, <2>6, TakeKeeps
<1>6. CASE q # <<>> /\ Front(t).from = "ready"
  <2>1. /\ got' = [got EXCEPT ![t] = Head(q)] /\ at' = [at EXCEPT ![t] = "grab"]
        /\ plan' = plan /\ waiting' = waiting
    BY <1>1, <1>3, <1>6 DEF Scan, Goto
  <2>2. Head(q) \in Tasks
    BY <1>2, <1>3, <1>6, Popped
  <2>3. got' \in Hands /\ \A s \in Threads \ {t} : got'[s] = got[s]
    BY <2>1, <2>2, Here DEF Hands
  <2>4. FlowOf(t)'
    BY <1>1, <2>1, Here DEF FlowOf, Falling, Leaving, Busy, Top
  <2>5. /\ "grab" \in Spots /\ "grab" \notin {"run", "again"} /\ at[t] \notin {"run", "again", "done"}
        /\ "grab" \notin Falling /\ at[t] \notin Falling
    BY <1>1 DEF Spots, Falling
  <2> QED BY <1>1, <2>1, <2>3, <2>4, <2>5, Here, AtMoves
<1> QED BY <1>2, <1>4, <1>5, <1>6

LEMMA GrabKeeps ==
  ASSUME IInv, NEW t \in Threads, Grab(t)
  PROVE  IInv'
<1>1. /\ at[t] = "grab" /\ plan[t] # <<>>
      /\ UNCHANGED <<state, waiting, place, frames, odd, retry, sleepers, quit>>
  BY Here DEF Grab, sleepVars, FlowOf
<1>2. /\ Front(t).i \in 1 .. Len(ready) /\ <<>> \in Seq(View)
  BY <1>1, FrontIs
<1>6. PICK i \in 1 .. Len(ready) : i = Front(t).i
  BY <1>2
<1>7. PICK q : q = ready[i]
  OBVIOUS
<1>3. i = Front(t).i /\ q = ready[i]
  BY <1>6, <1>7
<1>4. CASE q # <<>> /\ Head(q) = got[t]
  <2>1. ready' = [ready EXCEPT ![i] = Tail(q)] /\ Found(t) /\ got' = got
    BY <1>3, <1>4 DEF Grab
  <2>2. PICK r, d : r = Tail(q) /\ d = Head(q)
    OBVIOUS
  <2>3. Without(q, r, d)
    BY <2>2 DEF Without
  <2>4. /\ plan' = [plan EXCEPT ![t] = <<>>] /\ at' = [at EXCEPT ![t] = "run"]
    BY <2>1 DEF Found, Goto
  <2>5. plan' \in Plans /\ \A s \in Threads \ {t} : plan'[s] = plan[s]
    BY <1>2, <2>4, Here DEF Plans
  <2>6. got' = [got EXCEPT ![t] = d]
    BY <1>4, <2>1, <2>2, Here DEF Hands
  <2>7. ready' = [ready EXCEPT ![i] = r]
    BY <2>1, <2>2
  <2> QED BY <1>1, <1>3, <1>4, <2>3, <2>4, <2>5, <2>6, <2>7, TakeKeeps
<1>5. CASE ~(q # <<>> /\ Head(q) = got[t])
  <2>1. Skip(t) /\ at' = [at EXCEPT ![t] = "scan"] /\ Drop(t) /\ ready' = ready
    BY <1>3, <1>5 DEF Grab, Goto
  <2> QED BY <1>1, <2>1, SkipKeeps
<1> QED BY <1>4, <1>5

LEMMA RegisterKeeps ==
  ASSUME IInv, NEW t \in Threads, Register(t)
  PROVE  IInv'
<1>1. /\ at[t] = "body" /\ place[t] = 0
      /\ ready' = Append(ready, <<>>) /\ waiting' = Append(waiting, <<>>)
      /\ place' = [place EXCEPT ![t] = Len(ready) + 1]
      /\ UNCHANGED <<state, frames, at, got, plan, odd, retry, sleepers, quit>>
  BY DEF Register, AtOp, takeVars, sleepVars
<1>2. TypeOK /\ Stacks /\ Flow /\ Single /\ Apart /\ Ran /\ SleepersCounted /\ Fits
  BY Here
<1>3. /\ ready \in Seq(Seq(Tasks)) /\ waiting \in Seq(Seq(Tasks)) /\ <<>> \in Seq(Tasks) /\ Len(<<>>) = 0
      /\ Len(ready) \in Nat /\ Len(waiting) = Len(ready)
  BY <1>2, QueueType, EmptySeq DEF TypeOK
<1>4. /\ ready' \in Seq(Seq(Tasks)) /\ Len(ready') = Len(ready) + 1
      /\ \A q \in 1 .. Len(ready) : ready'[q] = ready[q]
      /\ ready'[Len(ready) + 1] = <<>>
      /\ \A q : q \in 1 .. Len(ready) + 1 <=> q \in 1 .. Len(ready) \/ q = Len(ready) + 1
  BY <1>1, <1>3, Appended
<1>5. /\ waiting' \in Seq(Seq(Tasks)) /\ Len(waiting') = Len(ready) + 1
      /\ \A q \in 1 .. Len(ready) : waiting'[q] = waiting[q]
      /\ waiting'[Len(ready) + 1] = <<>>
  BY <1>1, <1>3, Appended
<1>6. Stacks' /\ SleepersCounted'
  BY <1>1, <1>2 DEF Stacks, SleepersCounted
<1>7. Flow'
  <2>1. place'[t] = Len(ready) + 1 /\ \A s \in Threads \ {t} : place'[s] = place[s]
    BY <1>1, Here
  <2>2. place'[t] # 0
    BY <1>3, <2>1
  <2>3. FlowOf(t)'
    BY <1>1, <2>2, Here DEF FlowOf, Top
  <2> QED BY <1>1, <1>2, <2>1, <2>3, FlowKept
<1>8. Single'
  <2>1. \A c \in Tasks : Live(c)' <=> Live(c)
    BY <1>1 DEF Live
  <2>2. \A c \in Tasks : \A k, y : Has(k, y, c)' <=> Has(k, y, c)
    BY <1>1, <1>3, <1>4, <1>5 DEF Has
  <2> QED BY <1>2, <2>1, <2>2, SingleKept
<1>9. Apart' /\ Fits'
  <2>1. Distinct(<<>>)
    BY <1>3 DEF Distinct
  <2>2. \A q \in 1 .. Len(ready') : Distinct(ready'[q]) /\ Distinct(waiting'[q])
    BY <1>2, <1>4, <1>5, <2>1 DEF Apart
  <2>3. \A q \in 1 .. Len(ready') : Len(ready'[q]) <= Room /\ Len(waiting'[q]) <= Room
    <3>1. \A q \in 1 .. Len(ready) : Len(ready[q]) <= Room /\ Len(waiting[q]) <= Room
      BY <1>2, QueueType DEF Fits
    <3>2. Room \in Nat /\ 0 <= Room
      BY ProgramAssumption
    <3>3. Len(ready'[Len(ready) + 1]) = 0 /\ Len(waiting'[Len(ready) + 1]) = 0
      BY <1>3, <1>4, <1>5
    <3> SUFFICES ASSUME NEW q \in 1 .. Len(ready')
                 PROVE  Len(ready'[q]) <= Room /\ Len(waiting'[q]) <= Room
      OBVIOUS
    <3>4. CASE q \in 1 .. Len(ready)
      BY <1>4, <1>5, <3>1, <3>4
    <3>5. CASE q = Len(ready) + 1
      BY <3>2, <3>3, <3>5
    <3> QED BY <1>4, <3>4, <3>5
  <2>4. DOMAIN ready' = 1 .. Len(ready')
    BY <1>4, LenProperties
  <2> QED BY <1>1, <1>2, <2>2, <2>3, <2>4 DEF Apart, Fits
<1>10. Ran'
  <2>1. \A f \in DOMAIN Program : \A i \in 1 .. Len(Program[f]) : Passed(f, i)' <=> Passed(f, i)
    BY <1>1 DEF Passed
  <2> QED BY <1>1, <1>2, <2>1, RanKept
<1>11. TypeOK'
  <2>1. place' \in [Threads -> 0 .. Len(ready')]
    <3>1. \A n \in 0 .. Len(ready) : n \in 0 .. Len(ready')
      BY <1>3, <1>4
    <3>2. Len(ready) + 1 \in 0 .. Len(ready')
      BY <1>3, <1>4
    <3>3. place \in [Threads -> 0 .. Len(ready')]
      BY <3>1, Here
    <3> QED BY <1>1, <3>2, <3>3
  <2>2. plan' \in [Threads -> Seq(View')]
    <3>1. View \subseteq View'
      <4>1. DOMAIN ready \subseteq DOMAIN ready'
        BY <1>2, <1>4, QueueType, LenProperties
      <4> QED BY <4>1 DEF View
    <3>2. \A s \in Threads : plan[s] \in Seq(View')
      <4> SUFFICES ASSUME NEW s \in Threads
                   PROVE  plan[s] \in Seq(View')
        OBVIOUS
      <4>1. plan[s] \in Seq(View)
        BY Here
      <4> QED BY <3>1, <4>1, SeqMonotonic
    <3>3. plan \in Plans
      BY Here
    <3> QED BY <1>1, <3>2, <3>3 DEF Plans
  <2> QED BY <1>1, <1>2, <1>4, <1>5, <2>1, <2>2 DEF TypeOK, View
<1> QED BY <1>6, <1>7, <1>8, <1>9, <1>10, <1>11 DEF IInv

\* The task in a thread's hands.
LEMMA HandIs ==
  ASSUME IInv, NEW t \in Threads, at[t] \in {"run", "again"}
  PROVE  /\ got[t] \in Tasks /\ Live(got[t]) /\ \A k, y : Has(k, y, got[t]) <=> k = "hand" /\ y = t
         /\ place[t] \in 1 .. Len(ready) /\ retry[t] # 0
<1>1. got[t] \in Tasks /\ place[t] \in 1 .. Len(ready) /\ retry[t] # 0
  BY PlaceIs, Here DEF FlowOf, Busy
<1>2. Has("hand", t, got[t])
  BY DEF Has
<1> QED BY <1>1, <1>2, Here, Alone

LEMMA AgainKeeps ==
  ASSUME IInv, NEW t \in Threads, Again(t)
  PROVE  IInv'
<1>1. /\ at[t] = "again" /\ UNCHANGED <<state, ready, place, frames, plan, odd, sleepers, quit>>
  BY DEF Again, takeVars
<1>2. PICK d : d = got[t]
  OBVIOUS
<1>3. /\ d \in Tasks /\ Live(d) /\ \A k, y : Has(k, y, d) <=> k = "hand" /\ y = t
      /\ place[t] \in 1 .. Len(ready) /\ retry[t] # 0
  BY <1>1, <1>2, HandIs
<1>4. /\ ready \in Seq(Seq(Tasks)) /\ waiting \in Seq(Seq(Tasks)) /\ Len(waiting) = Len(ready)
      /\ DOMAIN ready = 1 .. Len(ready)
      /\ \A q \in 1 .. Len(ready) : waiting[q] \in Seq(Tasks) /\ Len(waiting[q]) \in Nat
  BY Here, QueueType DEF TypeOK
<1>5. \A q \in 1 .. Len(ready) : /\ Distinct(ready[q]) /\ Distinct(waiting[q])
                                 /\ Len(ready[q]) <= Room /\ Len(waiting[q]) <= Room
  BY <1>4, Here DEF Apart, Fits
<1>6. at[t] \notin Falling \cup {"done"} /\ {"body", "own", "run"} \cap Falling = {} /\ {"body", "own", "run"} \subseteq Spots
  BY <1>1 DEF Spots, Falling
<1>7. state' \in [Tasks -> {"none", "init", "run", "over"}] /\ plan' \in Plans
  BY <1>1, Here DEF TypeOK
<1>8. \A c \in Tasks : /\ Live(c)' <=> Live(c)
                       /\ state'[c] = "none" <=> state[c] = "none"
                       /\ state[c] = "over" => state'[c] = "over"
  BY <1>1 DEF Live
<1>9. ASSUME Len(waiting[place[t]]) < Room
      PROVE  IInv'
  <2>1. PICK p \in 1 .. Len(ready) : p = place[t]
    BY <1>3
  <2>2. PICK s \in Seq(Tasks) : s = waiting[p]
    BY <1>4
  <2>3. /\ waiting' = [waiting EXCEPT ![p] = Append(s, d)] /\ got' = [got EXCEPT ![t] = "none"]
        /\ Return(t, frames[t])
    BY <1>2, <1>9, <2>1, <2>2 DEF Again, Drop
  <2>4. ~In(d, s)
    <3>1. ~Has("waiting", p, d)
      BY <1>3
    <3> QED BY <1>4, <2>2, <3>1 DEF Has, In
  <2>5. PICK r : r = Append(s, d)
    OBVIOUS
  <2>6. /\ r \in Seq(Tasks) /\ Len(r) = Len(s) + 1 /\ Distinct(r)
        /\ \A c : In(c, r) <=> c = d \/ In(c, s)
    BY <1>3, <1>5, <2>2, <2>4, <2>5, Added
  <2>7. /\ waiting' \in Seq(Seq(Tasks)) /\ Len(waiting') = Len(ready) /\ waiting'[p] = r
        /\ \A q \in 1 .. Len(ready) : q # p => waiting'[q] = waiting[q]
    BY <1>4, <2>3, <2>5, <2>6, Put
  <2>8. \A q \in 1 .. Len(ready) : /\ Distinct(ready'[q]) /\ Distinct(waiting'[q])
                                   /\ Len(ready'[q]) <= Room /\ Len(waiting'[q]) <= Room
    <3>1. Len(r) <= Room
      BY <1>4, <1>9, <2>1, <2>2, <2>6, ProgramAssumption
    <3> QED BY <1>1, <1>5, <2>6, <2>7, <3>1
  <2>9. PICK spot \in {"body", "own"} :
          /\ at' = [at EXCEPT ![t] = spot] /\ (spot = "body" <=> frames[t] # <<>>)
          /\ retry' = IF spot = "body" THEN retry ELSE [retry EXCEPT ![t] = Tries]
    BY <2>3 DEF Return, Goto
  <2>10. /\ retry' \in [Threads -> 0 .. Tries] /\ retry'[t] # 0
         /\ got' \in Hands
         /\ \A q \in Threads \ {t} : got'[q] = got[q] /\ plan'[q] = plan[q] /\ retry'[q] = retry[q]
    <3>1. Tries \in 0 .. Tries /\ Tries # 0
      BY Here
    <3> QED BY <1>1, <1>3, <2>3, <2>9, <3>1, Here DEF Hands
  <2>11. FlowOf(t)'
    BY <1>1, <1>3, <2>9, <2>10, Here DEF FlowOf, Falling, Leaving, Busy, Top
  <2>12. ASSUME NEW c \in Tasks, NEW k, NEW y
         PROVE  Has(k, y, c)' <=> IF c = d THEN k = "waiting" /\ y = p ELSE Has(k, y, c)
    <3>1. Has("waiting", y, c)' <=> IF c = d THEN y = p ELSE Has("waiting", y, c)
      <4>1. Has("waiting", y, c)' <=> y \in 1 .. Len(ready) /\ In(c, waiting'[y])
        BY <2>7 DEF Has, In
      <4>2. Has("waiting", y, c) <=> y \in 1 .. Len(ready) /\ In(c, waiting[y])
        BY <1>4 DEF Has, In
      <4>3. ~Has("waiting", y, d)
        BY <1>3
      <4>4. CASE y = p
        BY <2>2, <2>6, <2>7, <4>1, <4>2, <4>4
      <4>5. CASE y # p
        BY <2>7, <4>1, <4>2, <4>3, <4>5
      <4> QED BY <4>4, <4>5
    <3>2. Has("hand", y, c)' <=> c # d /\ Has("hand", y, c)
      <4>1. at'[t] \in {"body", "own"} /\ \A q \in Threads \ {t} : at'[q] = at[q]
        BY <2>9, Here
      <4>2. Has("hand", y, c)' <=> y \in Threads /\ at'[y] \in {"run", "again"} /\ got'[y] = c
        BY DEF Has
      <4>3. Has("hand", y, c) <=> y \in Threads /\ at[y] \in {"run", "again"} /\ got[y] = c
        BY DEF Has
      <4>4. Has("hand", y, d) <=> y = t
        BY <1>3
      <4>5. CASE y = t
        BY <1>2, <4>1, <4>2, <4>3, <4>5
      <4>6. CASE y # t
        BY <2>10, <4>1, <4>2, <4>3, <4>4, <4>6
      <4> QED BY <4>5, <4>6
    <3>3. Has("ready", y, c)' <=> c # d /\ Has("ready", y, c)
      <4>1. ~Has("ready", y, d)
        BY <1>3
      <4>2. Has("ready", y, c)' <=> Has("ready", y, c)
        BY <1>1 DEF Has
      <4> QED BY <4>1, <4>2
    <3>4. Has("stack", y, c)' <=> c # d /\ Has("stack", y, c)
      <4>1. ~Has("stack", y, d)
        BY <1>3
      <4>2. Has("stack", y, c)' <=> Has("stack", y, c)
        BY <1>1 DEF Has
      <4> QED BY <4>1, <4>2
    <3>5. k \notin {"ready", "waiting", "hand", "stack"} => ~Has(k, y, c)' /\ ~Has(k, y, c)
      BY DEF Has
    <3> QED BY <3>1, <3>2, <3>3, <3>4, <3>5
  <2>13. Moves(d, "waiting", p)
    <3>1. Live(d)' /\ \A c \in Tasks : c # d => (Live(c)' <=> Live(c))
      BY <1>3, <1>8
    <3> QED BY <2>12, <3>1, Zenon DEF Moves
  <2>14. ready' \in Seq(Seq(Tasks)) /\ Len(ready') = Len(ready)
    BY <1>1, <1>4
  <2>15. spot \in Spots /\ spot \notin Falling
    BY <1>6, <2>9
  <2> QED BY <1>1, <1>3, <1>6, <1>7, <1>8, <2>7, <2>8, <2>9, <2>10, <2>11, <2>13, <2>14, <2>15, MoveKeeps
<1>10. ASSUME ~(Len(waiting[place[t]]) < Room)
       PROVE  IInv'
  <2>1. at' = [at EXCEPT ![t] = "run"] /\ waiting' = waiting /\ retry' = retry /\ got' = got
    BY <1>10 DEF Again, Goto
  <2>2. at'[t] = "run" /\ \A q \in Threads \ {t} : at'[q] = at[q]
    BY <2>1, Here
  <2>3. ASSUME NEW c \in Tasks, NEW k, NEW y
        PROVE  Has(k, y, c)' <=> IF c = d THEN k = "hand" /\ y = t ELSE Has(k, y, c)
    <3>1. y \in Threads => (at'[y] \in {"run", "again"} <=> at[y] \in {"run", "again"})
      BY <1>1, <2>2
    <3>2. Has(k, y, c)' <=> Has(k, y, c)
      BY <1>1, <2>1, <3>1 DEF Has
    <3> QED BY <1>3, <3>2
  <2>4. Moves(d, "hand", t)
    <3>1. Live(d)' /\ \A c \in Tasks : c # d => (Live(c)' <=> Live(c))
      BY <1>3, <1>8
    <3> QED BY <2>3, <3>1, Zenon DEF Moves
  <2>5. FlowOf(t)'
    BY <1>1, <2>1, <2>2, Here DEF FlowOf, Falling, Leaving, Busy, Top
  <2>6. /\ \A q \in 1 .. Len(ready) : /\ Distinct(ready'[q]) /\ Distinct(waiting'[q])
                                      /\ Len(ready'[q]) <= Room /\ Len(waiting'[q]) <= Room
        /\ ready' \in Seq(Seq(Tasks)) /\ waiting' \in Seq(Seq(Tasks))
        /\ Len(ready') = Len(ready) /\ Len(waiting') = Len(ready)
    BY <1>1, <1>4, <1>5, <2>1
  <2>7. /\ got' \in Hands /\ retry' \in [Threads -> 0 .. Tries]
        /\ \A q \in Threads \ {t} : got'[q] = got[q] /\ plan'[q] = plan[q] /\ retry'[q] = retry[q]
    BY <1>1, <2>1, Here
  <2>8. "run" \in Spots /\ "run" \notin Falling
    BY <1>6
  <2> QED BY <1>1, <1>3, <1>6, <1>7, <1>8, <2>1, <2>4, <2>5, <2>6, <2>7, <2>8, MoveKeeps
<1> QED BY <1>9, <1>10

\* The state of a task is written.
LEMMA StateIs ==
  ASSUME TypeOK, NEW d \in Tasks, NEW v \in {"none", "init", "run", "over"}, state' = [state EXCEPT ![d] = v]
  PROVE  /\ state' \in [Tasks -> {"none", "init", "run", "over"}] /\ state'[d] = v
         /\ \A c \in Tasks : c # d => state'[c] = state[c] /\ (Live(c)' <=> Live(c))
         /\ Live(d)' <=> v \in {"init", "run"}
<1>1. /\ state' \in [Tasks -> {"none", "init", "run", "over"}] /\ state'[d] = v
      /\ \A c \in Tasks : c # d => state'[c] = state[c]
  BY DEF TypeOK
<1> QED BY <1>1 DEF Live

LEMMA RunKeeps ==
  ASSUME IInv, NEW t \in Threads, Run(t)
  PROVE  IInv'
<1>1. /\ at[t] = "run" /\ UNCHANGED <<ready, waiting, place, plan, odd, retry, sleepers, quit>>
  BY DEF Run, queueVars, takeVars, sleepVars
<1>2. PICK d : d = got[t]
  OBVIOUS
<1>3. /\ d \in Tasks /\ Live(d) /\ \A k, y : Has(k, y, d) <=> k = "hand" /\ y = t
      /\ place[t] \in 1 .. Len(ready) /\ retry[t] # 0
  BY <1>1, <1>2, HandIs
<1>4. /\ ready \in Seq(Seq(Tasks)) /\ waiting \in Seq(Seq(Tasks)) /\ Len(waiting) = Len(ready)
      /\ DOMAIN ready = 1 .. Len(ready)
  BY Here, QueueType DEF TypeOK
<1>5. TypeOK /\ Stacks /\ Flow /\ Single /\ Apart /\ Ran /\ SleepersCounted /\ Fits
  BY Here
<1>6. state' = [state EXCEPT ![d] = "run"]
  BY <1>2 DEF Run
<1>7. /\ state' \in [Tasks -> {"none", "init", "run", "over"}] /\ Live(d)' /\ state'[d] = "run"
      /\ \A c \in Tasks : c # d => state'[c] = state[c] /\ (Live(c)' <=> Live(c))
  BY <1>3, <1>5, <1>6, StateIs
<1>8. \A c \in Tasks : /\ Live(c)' <=> Live(c)
                       /\ state'[c] = "none" <=> state[c] = "none"
                       /\ state[c] = "over" <=> state'[c] = "over"
  BY <1>3, <1>7 DEF Live
<1>9. at[t] \notin Falling \cup {"done"} /\ "again" \notin Falling /\ "again" \in Spots
  BY <1>1 DEF Spots, Falling
<1>10. ASSUME ~Over(After[got[t]])
       PROVE  IInv'
  <2>1. at' = [at EXCEPT ![t] = "again"] /\ frames' = frames /\ got' = got
    BY <1>10 DEF Run, Goto
  <2>2. at'[t] = "again" /\ \A q \in Threads \ {t} : at'[q] = at[q]
    BY <2>1, Here DEF Spots
  <2>3. ASSUME NEW c \in Tasks, NEW k, NEW y
        PROVE  Has(k, y, c)' <=> IF c = d THEN k = "hand" /\ y = t ELSE Has(k, y, c)
    <3>1. y \in Threads => (at'[y] \in {"run", "again"} <=> at[y] \in {"run", "again"})
      BY <1>1, <2>2
    <3>2. Has(k, y, c)' <=> Has(k, y, c)
      BY <1>1, <2>1, <3>1 DEF Has
    <3> QED BY <1>3, <3>2
  <2>4. Moves(d, "hand", t)
    BY <1>7, <2>3, Zenon DEF Moves
  <2>5. FlowOf(t)'
    BY <1>1, <2>1, <2>2, Here DEF FlowOf, Falling, Leaving, Busy, Top
  <2>6. /\ \A q \in 1 .. Len(ready) : /\ Distinct(ready'[q]) /\ Distinct(waiting'[q])
                                      /\ Len(ready'[q]) <= Room /\ Len(waiting'[q]) <= Room
        /\ ready' \in Seq(Seq(Tasks)) /\ waiting' \in Seq(Seq(Tasks))
        /\ Len(ready') = Len(ready) /\ Len(waiting') = Len(ready)
    BY <1>1, <1>4, <1>5 DEF Apart, Fits
  <2>7. /\ got' \in Hands /\ retry' \in [Threads -> 0 .. Tries] /\ plan' \in Plans
        /\ \A q \in Threads \ {t} : got'[q] = got[q] /\ plan'[q] = plan[q] /\ retry'[q] = retry[q]
    BY <1>1, <2>1, Here
  <2>8. \A c \in Tasks : /\ Live(c)' <=> Live(c)
                         /\ state'[c] = "none" <=> state[c] = "none"
                         /\ state[c] = "over" => state'[c] = "over"
    BY <1>8
  <2> QED BY <1>1, <1>3, <1>7, <1>9, <2>1, <2>4, <2>5, <2>6, <2>7, <2>8, MoveKeeps
<1>11. ASSUME Over(After[got[t]])
       PROVE  IInv'
  <2>1. /\ at' = [at EXCEPT ![t] = "body"] /\ got' = [got EXCEPT ![t] = "none"]
        /\ frames' = [frames EXCEPT ![t] = <<Call(d)>> \o @]
    BY <1>2, <1>11 DEF Run, Goto, Drop
  <2>2. /\ at' \in [Threads -> Spots] /\ at'[t] = "body" /\ \A q \in Threads \ {t} : at'[q] = at[q]
        /\ got' \in Hands /\ \A q \in Threads \ {t} : got'[q] = got[q]
    BY <2>1, Here DEF Spots, Hands
  <2>3. PICK e : e = Call(d)
    OBVIOUS
  <2>4. e \in Frame /\ e.fun = d /\ e.pc = 1
    BY <1>3, <2>3 DEF Call, Frame
  <2>5. PICK s \in Seq(Frame) : s = frames[t]
    BY <1>5, StackType
  <2>6. PICK n : n = <<e>> \o s
    OBVIOUS
  <2>7. /\ n \in Seq(Frame) /\ Len(n) = Len(s) + 1 /\ Len(s) \in Nat /\ n[1] = e /\ n # <<>>
        /\ \A i \in 1 .. Len(s) : n[i + 1] = s[i]
        /\ \A i : i \in 1 .. Len(s) + 1 <=> i = 1 \/ \E j \in 1 .. Len(s) : i = j + 1
    BY <2>4, <2>6, Pushed
  <2>8. /\ frames' \in [Threads -> Seq(Frame)] /\ frames'[t] = n
        /\ \A q \in Threads \ {t} : frames'[q] = frames[q]
    <3>1. frames \in [Threads -> Seq(Frame)]
      BY <1>5 DEF TypeOK, Frame
    <3>2. frames' = [frames EXCEPT ![t] = n]
      BY <2>1, <2>3, <2>5, <2>6
    <3> QED BY <2>7, <3>1, <3>2
  <2>9. \A i \in 1 .. Len(s) : s[i].fun # d
    <3>1. ~Has("stack", t, d)
      BY <1>3
    <3> QED BY <2>5, <3>1 DEF Has
  <2>10. TypeOK'
    <3>1. /\ at' \in [Threads -> Spots] /\ got' \in [Threads -> Tasks \cup {"none"}]
          /\ frames' \in [Threads -> Seq([fun : Tasks \cup Threads, pc : Nat])]
      BY <2>2, <2>8 DEF Hands, Frame
    <3> QED BY <1>1, <1>5, <1>7, <3>1 DEF TypeOK
  <2>11. Stacks'
    <3> SUFFICES ASSUME NEW q \in Threads
                 PROVE  /\ q \notin Workers => frames'[q] # <<>>
                        /\ \A i \in 1 .. Len(frames'[q]) :
                             /\ frames'[q][i].fun \in IF q \notin Workers /\ i = Len(frames'[q]) THEN {q} ELSE Tasks
                             /\ frames'[q][i].pc \in 1 .. Len(Program[frames'[q][i].fun]) + 1
      BY DEF Stacks
    <3>1. CASE q # t
      <4>1. frames'[q] = frames[q]
        BY <2>8, <3>1
      <4> QED BY <1>5, <4>1 DEF Stacks
    <3>2. CASE q = t
      <4>1. t \notin Workers => Len(s) # 0
        <5>1. t \notin Workers => s # <<>>
          BY <1>5, <2>5 DEF Stacks
        <5> QED BY <2>5, <5>1, Popped
      <4>2. 1 \in 1 .. Len(Program[d]) + 1
        <5>1. Len(Program[d]) \in Nat
          BY <1>3, Functions, ProgramIs
        <5> QED BY <5>1
      <4>3. \A i \in 1 .. Len(s) :
               /\ s[i].fun \in IF t \notin Workers /\ i = Len(s) THEN {t} ELSE Tasks
               /\ s[i].pc \in 1 .. Len(Program[s[i].fun]) + 1
        BY <1>5, <2>5 DEF Stacks
      <4>4. ASSUME NEW i \in 1 .. Len(n)
            PROVE  /\ n[i].fun \in IF t \notin Workers /\ i = Len(n) THEN {t} ELSE Tasks
                   /\ n[i].pc \in 1 .. Len(Program[n[i].fun]) + 1
        <5>1. CASE i = 1
          <6>1. ~(t \notin Workers /\ i = Len(n))
            BY <2>7, <4>1, <5>1
          <6>2. n[i].fun = d /\ n[i].pc = 1
            BY <2>4, <2>7, <5>1
          <6> QED BY <1>3, <4>2, <6>1, <6>2
        <5>2. CASE i # 1
          <6>1. PICK j \in 1 .. Len(s) : i = j + 1
            BY <2>7, <5>2
          <6>2. n[i] = s[j] /\ (i = Len(n) <=> j = Len(s))
            BY <2>7, <6>1
          <6> QED BY <4>3, <6>2
        <5> QED BY <5>1, <5>2
      <4> QED BY <2>7, <2>8, <3>2, <4>4
    <3> QED BY <3>1, <3>2
  <2>12. Flow'
    <3>1. place'[t] # 0
      BY <1>1, <1>3, <1>5, QueueType
    <3>2. FlowOf(t)'
      BY <1>1, <1>3, <2>2, <2>7, <2>8, <3>1 DEF FlowOf, Falling, Leaving, Busy
    <3> QED BY <1>1, <1>5, <2>2, <2>8, <3>2, FlowKept
  <2>13. Single'
    <3>1. ASSUME NEW c \in Tasks, NEW k, NEW y
          PROVE  Has(k, y, c)' <=> IF c = d THEN k = "stack" /\ y = t ELSE Has(k, y, c)
      <4>1. Has("stack", y, c)' <=> IF c = d THEN y = t ELSE Has("stack", y, c)
        <5>1. Has("stack", y, c)' <=> y \in Threads /\ \E i \in 1 .. Len(frames'[y]) : frames'[y][i].fun = c
          BY DEF Has
        <5>2. Has("stack", y, c) <=> y \in Threads /\ \E i \in 1 .. Len(frames[y]) : frames[y][i].fun = c
          BY DEF Has
        <5>3. ~Has("stack", y, d)
          BY <1>3
        <5>4. CASE y = t
          <6>1. (\E i \in 1 .. Len(n) : n[i].fun = c) <=> c = d \/ \E i \in 1 .. Len(s) : s[i].fun = c
            <7>1. 1 \in 1 .. Len(n) /\ \A i \in 1 .. Len(s) : i + 1 \in 1 .. Len(n)
              BY <2>7
            <7>2. ASSUME NEW i \in 1 .. Len(n), n[i].fun = c, c # d
                  PROVE  \E j \in 1 .. Len(s) : s[j].fun = c
              <8>1. i # 1
                BY <2>4, <2>7, <7>2
              <8>2. PICK j \in 1 .. Len(s) : i = j + 1
                BY <2>7, <8>1
              <8> QED BY <2>7, <7>2, <8>2
            <7>3. ASSUME NEW j \in 1 .. Len(s), s[j].fun = c
                  PROVE  \E i \in 1 .. Len(n) : n[i].fun = c
              <8>1. j + 1 \in 1 .. Len(n) /\ n[j + 1].fun = c
                BY <2>7, <7>1, <7>3
              <8> QED BY <8>1
            <7> QED BY <2>4, <2>7, <7>1, <7>2, <7>3
          <6> QED BY <2>5, <2>8, <5>1, <5>2, <5>3, <5>4, <6>1
        <5>5. CASE y # t
          BY <2>8, <5>1, <5>2, <5>3, <5>5
        <5> QED BY <5>4, <5>5
      <4>2. Has("hand", y, c)' <=> c # d /\ Has("hand", y, c)
        <5>1. Has("hand", y, c)' <=> y \in Threads /\ at'[y] \in {"run", "again"} /\ got'[y] = c
          BY DEF Has
        <5>2. Has("hand", y, c) <=> y \in Threads /\ at[y] \in {"run", "again"} /\ got[y] = c
          BY DEF Has
        <5>3. Has("hand", y, d) <=> y = t
          BY <1>3
        <5>4. CASE y = t
          BY <1>2, <2>2, <5>1, <5>2, <5>4
        <5>5. CASE y # t
          BY <2>2, <5>1, <5>2, <5>3, <5>5
        <5> QED BY <5>4, <5>5
      <4>3. k \in {"ready", "waiting"} => (Has(k, y, c)' <=> c # d /\ Has(k, y, c))
        <5>1. k \in {"ready", "waiting"} => ~Has(k, y, d)
          BY <1>3
        <5>2. k \in {"ready", "waiting"} => (Has(k, y, c)' <=> Has(k, y, c))
          BY <1>1 DEF Has
        <5> QED BY <5>1, <5>2
      <4>4. k \notin {"ready", "waiting", "hand", "stack"} => ~Has(k, y, c)' /\ ~Has(k, y, c)
        BY DEF Has
      <4> QED BY <4>1, <4>2, <4>3, <4>4
    <3>2. Moves(d, "stack", t)
      BY <1>7, <3>1, Zenon DEF Moves
    <3> QED BY <1>3, <1>5, <3>2, SingleMoved
  <2>14. Apart' /\ Fits'
    <3>1. ASSUME NEW q \in Threads
          PROVE  \A i, j \in 1 .. Len(frames'[q]) : frames'[q][i].fun = frames'[q][j].fun => i = j
      <4>1. CASE q # t
        <5>1. frames'[q] = frames[q]
          BY <2>8, <4>1
        <5> QED BY <1>5, <5>1 DEF Apart
      <4>2. CASE q = t
        <5>1. \A i, j \in 1 .. Len(s) : s[i].fun = s[j].fun => i = j
          BY <1>5, <2>5 DEF Apart
        <5>2. \A i, j \in 1 .. Len(n) : n[i].fun = n[j].fun => i = j
          <6> SUFFICES ASSUME NEW i \in 1 .. Len(n), NEW j \in 1 .. Len(n), n[i].fun = n[j].fun
                       PROVE  i = j
            OBVIOUS
          <6>1. \A k \in 1 .. Len(n) : k # 1 => \E m \in 1 .. Len(s) : k = m + 1 /\ n[k] = s[m]
            BY <2>7
          <6>2. \A k \in 1 .. Len(n) : k # 1 => n[k].fun # d
            BY <2>9, <6>1
          <6>3. CASE i = 1 \/ j = 1
            BY <2>4, <2>7, <6>2, <6>3
          <6>4. CASE i # 1 /\ j # 1
            BY <5>1, <6>1, <6>4
          <6> QED BY <6>3, <6>4
        <5> QED BY <2>8, <4>2, <5>2
      <4> QED BY <4>1, <4>2
    <3>2. (\A q \in 1 .. Len(ready) : Distinct(ready[q]) /\ Distinct(waiting[q])) /\ Fits
      BY <1>5 DEF Apart
    <3> QED BY <1>1, <3>1, <3>2 DEF Apart, Distinct, Fits
  <2>15. Ran'
    <3>1. ASSUME NEW f \in DOMAIN Program, NEW i \in 1 .. Len(Program[f])
          PROVE  Passed(f, i)' <=> Passed(f, i)
      <4>1. ~(1 > i)
        BY ProgramIs
      <4>2. ASSUME NEW q \in Threads
            PROVE  (\E j \in 1 .. Len(frames'[q]) : frames'[q][j].fun = f /\ frames'[q][j].pc > i)
                     <=> \E j \in 1 .. Len(frames[q]) : frames[q][j].fun = f /\ frames[q][j].pc > i
        <5>1. CASE q # t
          BY <2>8, <5>1
        <5>2. CASE q = t
          <6>1. \A j \in 1 .. Len(s) : j + 1 \in 1 .. Len(n) /\ n[j + 1] = s[j]
            BY <2>7
          <6>2. ~(n[1].pc > i)
            BY <2>4, <2>7, <4>1
          <6>3. (\E j \in 1 .. Len(n) : n[j].fun = f /\ n[j].pc > i)
                  <=> \E j \in 1 .. Len(s) : s[j].fun = f /\ s[j].pc > i
            <7>1. ASSUME NEW k \in 1 .. Len(n), k # 1
                  PROVE  \E m \in 1 .. Len(s) : n[k] = s[m]
              <8>1. PICK m \in 1 .. Len(s) : k = m + 1
                BY <2>7, <7>1
              <8> QED BY <2>7, <8>1
            <7>2. ASSUME NEW j \in 1 .. Len(n), n[j].fun = f, n[j].pc > i
                  PROVE  \E k \in 1 .. Len(s) : s[k].fun = f /\ s[k].pc > i
              <8>1. j # 1
                BY <6>2, <7>2
              <8> QED BY <7>1, <7>2, <8>1
            <7>3. ASSUME NEW j \in 1 .. Len(s), s[j].fun = f, s[j].pc > i
                  PROVE  \E k \in 1 .. Len(n) : n[k].fun = f /\ n[k].pc > i
              BY <6>1, <7>3
            <7> QED BY <7>2, <7>3
          <6> QED BY <2>5, <2>8, <5>2, <6>3
        <5> QED BY <5>1, <5>2
      <4> QED BY <1>8, <4>2 DEF Passed
    <3>2. \A x \in Threads : at[x] = "done" => at'[x] = "done"
      BY <1>1, <2>2
    <3> QED BY <1>5, <1>8, <3>1, <3>2, RanKept
  <2>16. SleepersCounted'
    <3>1. \A q \in Threads : at'[q] \in Falling <=> at[q] \in Falling
      BY <1>1, <2>2 DEF Falling
    <3> QED BY <1>1, <1>5, <3>1, SleepKept
  <2> QED BY <2>10, <2>11, <2>12, <2>13, <2>14, <2>15, <2>16 DEF IInv
<1> QED BY <1>10, <1>11

LEMMA ScheduleKeeps ==
  ASSUME IInv, NEW t \in Threads, Schedule(t)
  PROVE  IInv'
<1>1. /\ at[t] = "body" /\ ~Ended(t) /\ Op(t).op = "go" /\ place[t] # 0 /\ frames' = Past(t)
      /\ UNCHANGED <<waiting, place, plan, odd, retry, sleepers, quit>>
  BY DEF Schedule, AtOp, takeVars, sleepVars
<1>2. TypeOK /\ Stacks /\ Flow /\ Single /\ Apart /\ Ran /\ SleepersCounted /\ Fits /\ FlowOf(t)
  BY Here
<1>3. frames[t] # <<>> /\ retry[t] # 0 /\ place[t] \in 1 .. Len(ready)
  BY <1>1, <1>2, PlaceIs DEF FlowOf, Busy
<1>4. Op(t) \in Operations /\ Top(t).fun \in DOMAIN Program /\ Top(t).pc \in 1 .. Len(Program[Top(t).fun])
  BY <1>1, <1>2, <1>3, TopIs
<1>5. PICK d \in Tasks : Op(t).of = {d}
  BY <1>1, <1>4, OperationIs
<1>6. PICK p \in 1 .. Len(ready) : p = place[t]
  BY <1>3
<1>7. /\ state' = [state EXCEPT ![d] = "init"]
      /\ IF Len(ready[p]) < Room
         THEN ready' = [ready EXCEPT ![p] = Append(@, d)] /\ at' = [at EXCEPT ![t] = "notify"] /\ got' = got
         ELSE got' = [got EXCEPT ![t] = d] /\ at' = [at EXCEPT ![t] = "run"] /\ ready' = ready
  BY <1>5, <1>6 DEF Schedule, Goto
<1>8. state[d] = "none"
  <2>1. Program[Top(t).fun][Top(t).pc].op = "go" =>
          \A c \in Program[Top(t).fun][Top(t).pc].of : (Passed(Top(t).fun, Top(t).pc) <=> state[c] # "none")
    BY <1>2, <1>4 DEF Ran
  <2>2. ~Passed(Top(t).fun, Top(t).pc)
    BY <1>1, <1>3, NotPassed
  <2> QED BY <1>1, <1>5, <2>1, <2>2 DEF Op
<1>9. /\ state' \in [Tasks -> {"none", "init", "run", "over"}] /\ Live(d)' /\ state'[d] = "init"
      /\ \A c \in Tasks : c # d => state'[c] = state[c] /\ (Live(c)' <=> Live(c))
  BY <1>2, <1>7, StateIs
<1>10. \A k, y : ~Has(k, y, d)
  <2>1. ~Live(d)
    BY <1>8 DEF Live
  <2> QED BY <1>2, <2>1, Zenon DEF Single
<1>11. /\ frames' \in [Threads -> Seq(Frame)]
       /\ \A s \in Threads \ {t} : frames'[s] = frames[s]
       /\ Len(frames'[t]) = Len(frames[t]) /\ frames'[t] # <<>>
       /\ \A i \in 1 .. Len(frames[t]) : frames'[t][i].fun = frames[t][i].fun
  BY <1>1, <1>3, PastIs
<1>12. \A s \in Threads :
         /\ Len(frames'[s]) = Len(frames[s])
         /\ \A i \in 1 .. Len(frames[s]) : frames'[s][i].fun = frames[s][i].fun
  BY <1>11
<1>13. /\ ready \in Seq(Seq(Tasks)) /\ waiting \in Seq(Seq(Tasks)) /\ Len(waiting) = Len(ready)
       /\ DOMAIN ready = 1 .. Len(ready)
       /\ \A q \in 1 .. Len(ready) : ready[q] \in Seq(Tasks) /\ Len(ready[q]) \in Nat
  BY <1>2, QueueType DEF TypeOK
<1>14. \A q \in 1 .. Len(ready) : /\ Distinct(ready[q]) /\ Distinct(waiting[q])
                                  /\ Len(ready[q]) <= Room /\ Len(waiting[q]) <= Room
  BY <1>2, <1>13 DEF Apart, Fits
<1>15. PICK spot \in {"notify", "run"} :
         /\ at' = [at EXCEPT ![t] = spot]
         /\ IF spot = "notify"
            THEN Len(ready[p]) < Room /\ ready' = [ready EXCEPT ![p] = Append(ready[p], d)] /\ got' = got
            ELSE got' = [got EXCEPT ![t] = d] /\ ready' = ready
  BY <1>7
<1>16. /\ at' \in [Threads -> Spots] /\ at'[t] = spot /\ \A q \in Threads \ {t} : at'[q] = at[q]
       /\ got' \in Hands /\ \A q \in Threads \ {t} : got'[q] = got[q]
       /\ spot = "run" => got'[t] = d
  BY <1>15, Here DEF Spots, Hands
<1>17. PICK r : r = Append(ready[p], d)
  OBVIOUS
<1>18. ~In(d, ready[p])
  <2>1. ~Has("ready", p, d)
    BY <1>10
  <2> QED BY <2>1 DEF Has, In
<1>19. /\ r \in Seq(Tasks) /\ Len(r) = Len(ready[p]) + 1 /\ Distinct(r)
       /\ \A c : In(c, r) <=> c = d \/ In(c, ready[p])
  BY <1>13, <1>14, <1>17, <1>18, Added
<1>20. /\ ready' \in Seq(Seq(Tasks)) /\ Len(ready') = Len(ready)
       /\ \A q \in 1 .. Len(ready) : ready'[q] = IF spot = "notify" /\ q = p THEN r ELSE ready[q]
  <2>1. CASE spot = "notify"
    <3>1. ready' = [ready EXCEPT ![p] = r]
      BY <1>15, <1>17, <2>1
    <3> QED BY <1>13, <1>19, <2>1, <3>1, Put
  <2>2. CASE spot = "run"
    BY <1>13, <1>15, <2>2
  <2> QED BY <2>1, <2>2
<1>21. DOMAIN ready' = 1 .. Len(ready)
  BY <1>20, LenProperties
<1>22. TypeOK'
  BY <1>1, <1>2, <1>9, <1>11, <1>13, <1>16, <1>20, <1>21 DEF TypeOK, Hands, Frame
<1>23. \A c \in Tasks : state'[c] = "over" <=> state[c] = "over"
  BY <1>8, <1>9
<1>24. Stacks'
  BY <1>1, <1>3, <1>23, PastPasses
<1>25. Flow'
  <2>1. FlowOf(t)'
    BY <1>1, <1>3, <1>11, <1>16 DEF FlowOf, Falling, Leaving, Busy
  <2> QED BY <1>1, <1>2, <1>11, <1>16, <2>1, FlowKept
<1>26. Single'
  <2>1. PICK kind, x : /\ spot = "notify" => kind = "ready" /\ x = p
                       /\ spot = "run" => kind = "hand" /\ x = t
    <3>1. CASE spot = "notify"
      BY <3>1
    <3>2. CASE spot = "run"
      BY <3>2
    <3> QED BY <3>1, <3>2
  <2>2. ASSUME NEW c \in Tasks, NEW k, NEW y
        PROVE  Has(k, y, c)' <=> IF c = d THEN k = kind /\ y = x ELSE Has(k, y, c)
    <3>1. Has("ready", y, c)' <=> IF c = d THEN spot = "notify" /\ y = p ELSE Has("ready", y, c)
      <4>1. Has("ready", y, c)' <=> y \in 1 .. Len(ready) /\ In(c, ready'[y])
        BY <1>20 DEF Has, In
      <4>2. Has("ready", y, c) <=> y \in 1 .. Len(ready) /\ In(c, ready[y])
        BY DEF Has, In
      <4>3. ~Has("ready", y, d)
        BY <1>10
      <4>4. CASE spot = "notify" /\ y = p
        BY <1>19, <1>20, <4>1, <4>2, <4>4
      <4>5. CASE ~(spot = "notify" /\ y = p)
        BY <1>20, <4>1, <4>2, <4>3, <4>5
      <4> QED BY <4>4, <4>5
    <3>2. Has("hand", y, c)' <=> IF c = d THEN spot = "run" /\ y = t ELSE Has("hand", y, c)
      <4>1. Has("hand", y, c)' <=> y \in Threads /\ at'[y] \in {"run", "again"} /\ got'[y] = c
        BY DEF Has
      <4>2. Has("hand", y, c) <=> y \in Threads /\ at[y] \in {"run", "again"} /\ got[y] = c
        BY DEF Has
      <4>3. ~Has("hand", y, d)
        BY <1>10
      <4>4. CASE y = t
        BY <1>1, <1>16, <4>1, <4>2, <4>4
      <4>5. CASE y # t
        BY <1>16, <4>1, <4>2, <4>3, <4>5
      <4> QED BY <4>4, <4>5
    <3>3. Has("stack", y, c)' <=> c # d /\ Has("stack", y, c)
      <4>1. ~Has("stack", y, d)
        BY <1>10
      <4>2. Has("stack", y, c)' <=> Has("stack", y, c)
        BY <1>12 DEF Has
      <4> QED BY <4>1, <4>2
    <3>4. Has("waiting", y, c)' <=> c # d /\ Has("waiting", y, c)
      <4>1. ~Has("waiting", y, d)
        BY <1>10
      <4>2. Has("waiting", y, c)' <=> Has("waiting", y, c)
        BY <1>1 DEF Has
      <4> QED BY <4>1, <4>2
    <3>5. k \notin {"ready", "waiting", "hand", "stack"} => ~Has(k, y, c)' /\ ~Has(k, y, c)
      BY DEF Has
    <3>6. kind \in {"ready", "hand"} /\ (kind = "ready" <=> spot = "notify")
      BY <2>1
    <3> QED BY <2>1, <3>1, <3>2, <3>3, <3>4, <3>5, <3>6
  <2>3. Moves(d, kind, x)
    BY <1>9, <2>2, Zenon DEF Moves
  <2> QED BY <1>2, <2>3, SingleMoved
<1>27. Apart' /\ Fits'
  <2>1. Len(r) <= Room \/ spot # "notify"
    BY <1>13, <1>15, <1>19, ProgramAssumption
  <2>2. \A q \in 1 .. Len(ready) : /\ Distinct(ready'[q]) /\ Distinct(waiting'[q])
                                   /\ Len(ready'[q]) <= Room /\ Len(waiting'[q]) <= Room
    BY <1>1, <1>14, <1>19, <1>20, <2>1
  <2>3. \A s \in Threads : \A i, j \in 1 .. Len(frames'[s]) : frames'[s][i].fun = frames'[s][j].fun => i = j
    <3>1. \A s \in Threads : \A i, j \in 1 .. Len(frames[s]) : frames[s][i].fun = frames[s][j].fun => i = j
      BY <1>2 DEF Apart
    <3> QED BY <1>12, <3>1
  <2> QED BY <1>20, <1>21, <2>2, <2>3 DEF Apart, Fits
<1>28. Ran'
  <2>1. \A x \in Threads : at[x] = "done" => at'[x] = "done"
    BY <1>1, <1>16
  <2>2. \A c \in Tasks : \/ Op(t).op = "go" /\ c \in Op(t).of /\ state'[c] # "none"
                         \/ state'[c] = "none" <=> state[c] = "none"
    <3> SUFFICES ASSUME NEW c \in Tasks
                 PROVE  \/ Op(t).op = "go" /\ c \in Op(t).of /\ state'[c] # "none"
                        \/ state'[c] = "none" <=> state[c] = "none"
      OBVIOUS
    <3>1. CASE c = d
      <4>1. state'[c] # "none" /\ c \in Op(t).of
        BY <1>5, <1>9, <3>1
      <4> QED BY <1>1, <4>1
    <3>2. CASE c # d
      BY <1>9, <3>2
    <3> QED BY <3>1, <3>2
  <2>3. Op(t).op = "go" => \A c \in Op(t).of : state'[c] # "none"
    BY <1>5, <1>9
  <2> QED BY <1>1, <1>3, <1>23, <2>1, <2>2, <2>3, RanPast
<1>29. SleepersCounted'
  <2>1. \A q \in Threads : at'[q] \in Falling <=> at[q] \in Falling
    BY <1>1, <1>16 DEF Falling
  <2> QED BY <1>1, <1>2, <2>1, SleepKept
<1> QED BY <1>22, <1>24, <1>25, <1>26, <1>27, <1>28, <1>29 DEF IInv

LEMMA FinishKeeps ==
  ASSUME IInv, NEW t \in Threads, Finish(t)
  PROVE  IInv'
<1>1. /\ at[t] = "body" /\ Ended(t) /\ Top(t).fun \in Tasks /\ Return(t, Tail(frames[t]))
      /\ state' = [state EXCEPT ![Top(t).fun] = "over"] /\ frames' = [frames EXCEPT ![t] = Tail(@)]
      /\ UNCHANGED <<ready, waiting, place, got, plan, odd, sleepers, quit>>
  BY DEF Finish, queueVars, takeVars
<1>2. TypeOK /\ Stacks /\ Flow /\ Single /\ Apart /\ Ran /\ SleepersCounted /\ Fits /\ FlowOf(t)
  BY Here
<1>3. frames[t] # <<>> /\ retry[t] # 0
  BY <1>1, <1>2 DEF FlowOf, Busy
<1>4. PICK s \in Seq(Frame) : s = frames[t]
  BY <1>2, StackType
<1>5. PICK n : n = Tail(s)
  OBVIOUS
<1>6. PICK d \in Tasks : d = Top(t).fun
  BY <1>1
<1>7. /\ Len(s) \in Nat \ {0} /\ n \in Seq(Frame) /\ Len(n) = Len(s) - 1
      /\ s[1].fun = d /\ 1 \in 1 .. Len(s) /\ s[1].pc > Len(Program[d])
      /\ \A i \in 1 .. Len(s) - 1 : n[i] = s[i + 1]
      /\ \A i : i \in 1 .. Len(s) <=> i = 1 \/ \E j \in 1 .. Len(s) - 1 : i = j + 1
  BY <1>1, <1>3, <1>4, <1>5, <1>6, Popped DEF Top, Ended
<1>8. /\ frames' \in [Threads -> Seq(Frame)] /\ frames'[t] = n
      /\ \A q \in Threads \ {t} : frames'[q] = frames[q]
  <2>1. frames \in [Threads -> Seq(Frame)]
    BY <1>2 DEF TypeOK, Frame
  <2>2. frames' = [frames EXCEPT ![t] = n]
    BY <1>1, <1>4, <1>5
  <2> QED BY <1>7, <2>1, <2>2
<1>9. Has("stack", t, d)
  BY <1>4, <1>7 DEF Has
<1>10. Live(d) /\ \A k, y : Has(k, y, d) <=> k = "stack" /\ y = t
  BY <1>2, <1>9, Alone
<1>11. /\ state' \in [Tasks -> {"none", "init", "run", "over"}] /\ ~Live(d)' /\ state'[d] = "over"
       /\ \A c \in Tasks : c # d => state'[c] = state[c] /\ (Live(c)' <=> Live(c))
  BY <1>1, <1>2, <1>6, StateIs
<1>12. \A i, j \in 1 .. Len(s) : s[i].fun = s[j].fun => i = j
  BY <1>2, <1>4 DEF Apart
<1>13. ASSUME NEW i \in 1 .. Len(n)
       PROVE  i + 1 \in 1 .. Len(s) /\ n[i] = s[i + 1] /\ n[i].fun # d /\ i + 1 # 1
  BY <1>7, <1>12
<1>14. ASSUME NEW i \in 1 .. Len(s), i # 1
       PROVE  \E j \in 1 .. Len(n) : i = j + 1 /\ n[j] = s[i]
  BY <1>7, <1>14
<1>15. PICK spot \in {"body", "own"} :
         /\ at' = [at EXCEPT ![t] = spot] /\ (spot = "body" <=> n # <<>>)
         /\ retry' = IF spot = "body" THEN retry ELSE [retry EXCEPT ![t] = Tries]
  BY <1>1, <1>4, <1>5 DEF Return, Goto
<1>16. /\ at' \in [Threads -> Spots] /\ at'[t] = spot /\ \A q \in Threads \ {t} : at'[q] = at[q]
       /\ retry' \in [Threads -> 0 .. Tries] /\ retry'[t] # 0
       /\ \A q \in Threads \ {t} : retry'[q] = retry[q]
  <2>1. Tries \in 0 .. Tries /\ Tries # 0
    BY Here
  <2> QED BY <1>3, <1>15, <2>1, Here DEF Spots
<1>17. TypeOK'
  BY <1>1, <1>2, <1>8, <1>11, <1>16 DEF TypeOK, Frame
<1>18. Stacks'
  <2> SUFFICES ASSUME NEW q \in Threads
               PROVE  /\ q \notin Workers => frames'[q] # <<>>
                      /\ \A i \in 1 .. Len(frames'[q]) :
                           /\ frames'[q][i].fun \in IF q \notin Workers /\ i = Len(frames'[q]) THEN {q} ELSE Tasks
                           /\ frames'[q][i].pc \in 1 .. Len(Program[frames'[q][i].fun]) + 1
    BY DEF Stacks
  <2>1. CASE q # t
    <3>1. frames'[q] = frames[q]
      BY <1>8, <2>1
    <3> QED BY <1>2, <3>1 DEF Stacks
  <2>2. CASE q = t
    <3>1. \A i \in 1 .. Len(s) :
             /\ s[i].fun \in IF t \notin Workers /\ i = Len(s) THEN {t} ELSE Tasks
             /\ s[i].pc \in 1 .. Len(Program[s[i].fun]) + 1
      BY <1>2, <1>4 DEF Stacks
    <3>2. t \notin Workers => n # <<>>
      <4>1. t \notin Tasks
        BY Functions
      <4>2. t \notin Workers => Len(s) # 1
        BY <1>7, <3>1, <4>1
      <4>3. n = <<>> => Len(n) = 0
        BY EmptySeq
      <4> QED BY <1>7, <4>2, <4>3
    <3>3. ASSUME NEW i \in 1 .. Len(n)
          PROVE  /\ n[i].fun \in IF t \notin Workers /\ i = Len(n) THEN {t} ELSE Tasks
                 /\ n[i].pc \in 1 .. Len(Program[n[i].fun]) + 1
      <4>1. i + 1 \in 1 .. Len(s) /\ n[i] = s[i + 1] /\ (i = Len(n) <=> i + 1 = Len(s))
        BY <1>7, <1>13
      <4> QED BY <3>1, <4>1
    <3> QED BY <1>8, <2>2, <3>2, <3>3
  <2> QED BY <2>1, <2>2
<1>19. Flow'
  <2>1. place[t] # 0
    <3>1. Top(t).fun # t
      BY <1>1, Functions
    <3>2. frames[t] # <<Call(t)>>
      BY <3>1 DEF Top, Call
    <3> QED BY <1>1, <1>2, <3>2 DEF FlowOf
  <2>2. FlowOf(t)'
    BY <1>1, <1>8, <1>15, <1>16, <2>1 DEF FlowOf, Falling, Leaving, Busy
  <2> QED BY <1>1, <1>2, <1>8, <1>16, <2>2, FlowKept
<1>20. Single'
  <2>1. ASSUME NEW c \in Tasks, NEW k, NEW y
        PROVE  Has(k, y, c)' <=> c # d /\ Has(k, y, c)
    <3>1. Has("stack", y, c)' <=> c # d /\ Has("stack", y, c)
      <4>1. Has("stack", y, c)' <=> y \in Threads /\ \E i \in 1 .. Len(frames'[y]) : frames'[y][i].fun = c
        BY DEF Has
      <4>2. Has("stack", y, c) <=> y \in Threads /\ \E i \in 1 .. Len(frames[y]) : frames[y][i].fun = c
        BY DEF Has
      <4>3. CASE y = t
        <5>1. (\E i \in 1 .. Len(n) : n[i].fun = c) => c # d /\ \E i \in 1 .. Len(s) : s[i].fun = c
          BY <1>13
        <5>2. c # d /\ (\E i \in 1 .. Len(s) : s[i].fun = c) => \E i \in 1 .. Len(n) : n[i].fun = c
          BY <1>7, <1>14
        <5> QED BY <1>4, <1>8, <4>1, <4>2, <4>3, <5>1, <5>2
      <4>4. CASE y # t
        <5>1. ~Has("stack", y, d)
          BY <1>10, <4>4
        <5> QED BY <1>8, <4>1, <4>2, <4>4, <5>1
      <4> QED BY <4>3, <4>4
    <3>2. Has("hand", y, c)' <=> c # d /\ Has("hand", y, c)
      <4>1. ~Has("hand", y, d)
        BY <1>10
      <4>2. y \in Threads => (at'[y] \in {"run", "again"} <=> at[y] \in {"run", "again"})
        BY <1>1, <1>16
      <4>3. Has("hand", y, c)' <=> Has("hand", y, c)
        BY <1>1, <4>2 DEF Has
      <4> QED BY <4>1, <4>3
    <3>3. k \in {"ready", "waiting"} => (Has(k, y, c)' <=> c # d /\ Has(k, y, c))
      <4>1. k \in {"ready", "waiting"} => ~Has(k, y, d)
        BY <1>10
      <4>2. k \in {"ready", "waiting"} => (Has(k, y, c)' <=> Has(k, y, c))
        BY <1>1 DEF Has
      <4> QED BY <4>1, <4>2
    <3>4. k \notin {"ready", "waiting", "hand", "stack"} => ~Has(k, y, c)' /\ ~Has(k, y, c)
      BY DEF Has
    <3> QED BY <3>1, <3>2, <3>3, <3>4
  <2> SUFFICES ASSUME NEW c \in Tasks
               PROVE  IF Live(c)' THEN \E k1, x1 : \A k, y : Has(k, y, c)' <=> (k = k1 /\ y = x1)
                                  ELSE \A k, y : ~Has(k, y, c)'
    BY Zenon DEF Single
  <2>2. CASE c = d
    BY <1>11, <2>1, <2>2
  <2>3. CASE c # d
    <3>1. \A k, y : Has(k, y, c)' <=> Has(k, y, c)
      BY <2>1, <2>3
    <3>2. Live(c)' <=> Live(c)
      BY <1>11, <2>3
    <3>3. IF Live(c) THEN \E k1, x1 : \A k, y : Has(k, y, c) <=> (k = k1 /\ y = x1)
                     ELSE \A k, y : ~Has(k, y, c)
      BY <1>2, Zenon DEF Single
    <3>4. CASE Live(c)
      <4>1. PICK k1, x1 : \A k, y : Has(k, y, c) <=> (k = k1 /\ y = x1)
        BY <3>3, <3>4, Zenon
      <4>2. \A k, y : Has(k, y, c)' <=> (k = k1 /\ y = x1)
        BY <3>1, <4>1
      <4> QED BY <3>2, <3>4, <4>2
    <3>5. CASE ~Live(c)
      BY <3>1, <3>2, <3>3, <3>5
    <3> QED BY <3>4, <3>5
  <2> QED BY <2>2, <2>3
<1>21. Apart' /\ Fits'
  <2>1. ASSUME NEW q \in Threads
        PROVE  \A i, j \in 1 .. Len(frames'[q]) : frames'[q][i].fun = frames'[q][j].fun => i = j
    <3>1. CASE q # t
      <4>1. frames'[q] = frames[q]
        BY <1>8, <3>1
      <4> QED BY <1>2, <4>1 DEF Apart
    <3>2. CASE q = t
      <4>1. ASSUME NEW i \in 1 .. Len(n), NEW j \in 1 .. Len(n), n[i].fun = n[j].fun
            PROVE  i = j
        <5>1. i + 1 = j + 1
          BY <1>12, <1>13, <4>1
        <5> QED BY <1>7, <5>1
      <4> QED BY <1>8, <3>2, <4>1
    <3> QED BY <3>1, <3>2
  <2>2. (\A q \in 1 .. Len(ready) : Distinct(ready[q]) /\ Distinct(waiting[q])) /\ Fits
    BY <1>2 DEF Apart
  <2>3. Fits' /\ \A q \in 1 .. Len(ready') : Distinct(ready[q])' /\ Distinct(waiting[q])'
    BY <1>1, <2>2 DEF Distinct, Fits
  <2> QED BY <2>1, <2>3 DEF Apart
<1>22. Ran'
  <2>1. ASSUME NEW f \in DOMAIN Program, NEW i \in 1 .. Len(Program[f])
        PROVE  Passed(f, i)' <=> Passed(f, i)
    <3>1. Passed(f, i)' <=> \/ f \in Tasks /\ state'[f] = "over"
                            \/ \E q \in Threads : \E j \in 1 .. Len(frames'[q]) :
                                 frames'[q][j].fun = f /\ frames'[q][j].pc > i
      BY DEF Passed
    <3>2. CASE f = d
      <4>1. s[1].pc > i
        <5>1. s[1] \in Frame
          BY <1>7, ElementOfSeq
        <5>2. s[1].pc \in Nat
          BY <5>1 DEF Frame
        <5>3. Len(Program[f]) \in Nat /\ i <= Len(Program[f]) /\ i \in Nat
          BY ProgramIs
        <5>4. s[1].pc > Len(Program[f])
          BY <1>7, <3>2
        <5> QED BY <5>2, <5>3, <5>4
      <4>2. Passed(f, i)
        BY <1>4, <1>7, <3>2, <4>1 DEF Passed
      <4> QED BY <1>11, <3>1, <3>2, <4>2
    <3>3. CASE f # d
      <4>1. ASSUME NEW q \in Threads
            PROVE  (\E j \in 1 .. Len(frames'[q]) : frames'[q][j].fun = f /\ frames'[q][j].pc > i)
                     <=> \E j \in 1 .. Len(frames[q]) : frames[q][j].fun = f /\ frames[q][j].pc > i
        <5>1. CASE q # t
          BY <1>8, <5>1
        <5>2. CASE q = t
          <6>1. (\E j \in 1 .. Len(n) : n[j].fun = f /\ n[j].pc > i)
                  => \E j \in 1 .. Len(s) : s[j].fun = f /\ s[j].pc > i
            BY <1>13
          <6>2. ASSUME NEW j \in 1 .. Len(s), s[j].fun = f, s[j].pc > i
                PROVE  \E k \in 1 .. Len(n) : n[k].fun = f /\ n[k].pc > i
            <7>1. j # 1
              BY <1>7, <3>3, <6>2
            <7> QED BY <1>14, <6>2, <7>1
          <6> QED BY <1>4, <1>8, <5>2, <6>1, <6>2
        <5> QED BY <5>1, <5>2
      <4>2. f \in Tasks => state'[f] = state[f]
        BY <1>11, <3>3
      <4> QED BY <3>1, <4>1, <4>2 DEF Passed
    <3> QED BY <3>2, <3>3
  <2>2. \A c \in Tasks : /\ state'[c] = "none" <=> state[c] = "none"
                         /\ state[c] = "over" => state'[c] = "over"
    BY <1>10, <1>11 DEF Live
  <2>3. \A x \in Threads : at[x] = "done" => at'[x] = "done"
    BY <1>1, <1>16
  <2> QED BY <1>2, <2>1, <2>2, <2>3, RanKept
<1>23. SleepersCounted'
  <2>1. \A q \in Threads : at'[q] \in Falling <=> at[q] \in Falling
    BY <1>1, <1>16 DEF Falling
  <2> QED BY <1>1, <1>2, <2>1, SleepKept
<1> QED BY <1>17, <1>18, <1>19, <1>20, <1>21, <1>22, <1>23 DEF IInv

-----------------------------------------------------------------------------
(***************************************************************************)
(* The invariant.                                                          *)
(***************************************************************************)

LEMMA RuntimeStep ==
  ASSUME IInv, [Next]_vars
  PROVE  IInv'
<1>1. CASE UNCHANGED vars
  <2>1. UNCHANGED <<state, ready, waiting, place, frames, at, got, plan, odd, retry, sleepers, quit>>
    BY <1>1 DEF vars, queueVars, takeVars, sleepVars
  <2>2. TypeOK /\ Stacks /\ Flow /\ Single /\ Apart /\ Ran /\ SleepersCounted /\ Fits
    BY DEF IInv
  <2>3. Stacks' /\ Single' /\ Apart' /\ Ran' /\ Fits'
    BY <2>1, Quiet DEF Holding
  <2>4. TypeOK' /\ SleepersCounted'
    BY <2>1, <2>2 DEF TypeOK, SleepersCounted
  <2>5. Flow'
    BY <2>1, <2>2 DEF Flow, FlowOf, Top
  <2> QED BY <2>3, <2>4, <2>5 DEF IInv
<1>2. ASSUME NEW t \in Threads, Step(t)
      PROVE  IInv'
  <2>1. CASE Register(t)
    BY <2>1, RegisterKeeps
  <2>2. CASE Schedule(t)
    BY <2>2, ScheduleKeeps
  <2>3. CASE Notify(t)
    BY <2>3, NotifyKeeps
  <2>4. CASE WakeOne(t)
    BY <2>4, WakeOneKeeps
  <2>5. CASE Wait(t)
    BY <2>5, WaitKeeps
  <2>6. CASE Own(t)
    BY <2>6, OwnKeeps
  <2>7. CASE Scan(t)
    BY <2>7, ScanKeeps
  <2>8. CASE Grab(t)
    BY <2>8, GrabKeeps
  <2>9. CASE Miss(t)
    BY <2>9, MissKeeps
  <2>10. CASE Run(t)
    BY <2>10, RunKeeps
  <2>11. CASE Again(t)
    BY <2>11, AgainKeeps
  <2>12. CASE Finish(t)
    BY <2>12, FinishKeeps
  <2>13. CASE Check(t)
    BY <2>13, CheckKeeps
  <2>14. CASE Lock(t)
    BY <2>14, LockKeeps
  <2>15. CASE Fall(t)
    BY <2>15, FallKeeps
  <2>16. CASE Rise(t)
    BY <2>16, RiseKeeps
  <2>17. CASE End(t)
    BY <2>17, EndKeeps
  <2>18. CASE Joined(t)
    BY <2>18, JoinedKeeps
  <2>19. CASE Quit(t)
    BY <2>19, QuitKeeps
  <2>20. CASE NotifyAll(t)
    BY <2>20, NotifyAllKeeps
  <2>21. CASE JoinWorkers(t)
    BY <2>21, JoinWorkersKeeps
  <2> QED
    BY <1>2, <2>1, <2>2, <2>3, <2>4, <2>5, <2>6, <2>7, <2>8, <2>9, <2>10, <2>11, <2>12, <2>13, <2>14,
       <2>15, <2>16, <2>17, <2>18, <2>19, <2>20, <2>21 DEF Step
<1>3. ASSUME NEW t \in Threads, Spurious(t)
      PROVE  IInv'
  BY <1>3, SpuriousKeeps
<1> QED BY <1>1, <1>2, <1>3 DEF Next

\* Where each thread is, what it is inside and where each task is fit together:
\* IInv is the inductive invariant of the runtime.
THEOREM RuntimeInvariant == Spec => []IInv
<1>1. Init => IInv
  BY RuntimeInit
<1>2. IInv /\ [Next]_vars => IInv'
  BY RuntimeStep
<1> QED BY <1>1, <1>2, PTL DEF Spec

\* The pairs of which one, or none, has a task.
LEMMA OneOf ==
  ASSUME NEW D, NEW G, NEW q \in D, NEW i, G[q] = {i}, \A p \in D : p # q => G[p] = {}
  PROVE  UNION {{p} \X G[p] : p \in D} = {<<q, i>>}
OBVIOUS

LEMMA NoneOf ==
  ASSUME NEW D, NEW G, \A p \in D : G[p] = {}
  PROVE  UNION {{p} \X G[p] : p \in D} = {}
OBVIOUS

LEMMA QueueCount ==
  ASSUME NEW v \in Seq(Seq(Tasks)), NEW c, \A q \in 1 .. Len(v) : Distinct(v[q])
  PROVE  /\ (\A q \in 1 .. Len(v) : ~In(c, v[q])) => Cardinality(InQueue(v, c)) = 0
         /\ \A q \in 1 .. Len(v) :
              In(c, v[q]) /\ (\A p \in 1 .. Len(v) : p # q => ~In(c, v[p])) => Cardinality(InQueue(v, c)) = 1
<1> DEFINE G == [q \in 1 .. Len(v) |-> {i \in 1 .. Len(v[q]) : v[q][i] = c}]
<1>1. DOMAIN v = 1 .. Len(v) /\ \A q \in 1 .. Len(v) : DOMAIN v[q] = 1 .. Len(v[q])
  <2>1. \A q \in 1 .. Len(v) : v[q] \in Seq(Tasks)
    BY ElementOfSeq
  <2> QED BY <2>1, LenProperties
<1>2. InQueue(v, c) = UNION {{q} \X G[q] : q \in 1 .. Len(v)}
  BY <1>1 DEF InQueue
<1>3. \A q \in 1 .. Len(v) : ~In(c, v[q]) => G[q] = {}
  BY DEF In
<1>4. \A q \in 1 .. Len(v) : In(c, v[q]) => \E i : G[q] = {i}
  <2> SUFFICES ASSUME NEW q \in 1 .. Len(v), In(c, v[q])
               PROVE  \E i : G[q] = {i}
    OBVIOUS
  <2>1. PICK i \in 1 .. Len(v[q]) : v[q][i] = c
    BY DEF In
  <2>2. \A j \in 1 .. Len(v[q]) : v[q][j] = c => j = i
    BY <2>1 DEF Distinct
  <2>3. G[q] = {i}
    BY <2>1, <2>2
  <2> QED BY <2>3
<1> HIDE DEF G
<1>5. ASSUME \A q \in 1 .. Len(v) : ~In(c, v[q])
      PROVE  Cardinality(InQueue(v, c)) = 0
  <2>1. InQueue(v, c) = {}
    BY <1>2, <1>3, <1>5, NoneOf
  <2> QED BY <2>1, FS_EmptySet
<1>6. ASSUME NEW q \in 1 .. Len(v), In(c, v[q]), \A p \in 1 .. Len(v) : p # q => ~In(c, v[p])
      PROVE  Cardinality(InQueue(v, c)) = 1
  <2>1. PICK i : G[q] = {i}
    BY <1>4, <1>6
  <2>2. InQueue(v, c) = {<<q, i>>}
    BY <1>2, <1>3, <1>6, <2>1, OneOf
  <2> QED BY <2>2, FS_Singleton
<1> QED BY <1>5, <1>6

LEMMA StackCount ==
  ASSUME TypeOK, Stacks, Apart, NEW c
  PROVE  /\ (\A t \in Threads : ~Has("stack", t, c)) => Cardinality(OnStack(c)) = 0
         /\ \A t \in Threads :
              Has("stack", t, c) /\ (\A s \in Threads : s # t => ~Has("stack", s, c)) => Cardinality(OnStack(c)) = 1
<1> DEFINE G == [t \in Threads |-> {i \in 1 .. Len(frames[t]) : frames[t][i].fun = c}]
<1>1. \A t \in Threads : DOMAIN frames[t] = 1 .. Len(frames[t])
  BY StackType
<1>2. OnStack(c) = UNION {{t} \X G[t] : t \in Threads}
  BY <1>1 DEF OnStack
<1>3. \A t \in Threads : ~Has("stack", t, c) => G[t] = {}
  BY DEF Has
<1>4. \A t \in Threads : Has("stack", t, c) => \E i : G[t] = {i}
  <2>1. \A t \in Threads : \A i, j \in 1 .. Len(frames[t]) : frames[t][i].fun = frames[t][j].fun => i = j
    BY DEF Apart
  <2> SUFFICES ASSUME NEW t \in Threads, Has("stack", t, c)
               PROVE  \E i : G[t] = {i}
    OBVIOUS
  <2>2. PICK i \in 1 .. Len(frames[t]) : frames[t][i].fun = c
    BY DEF Has
  <2>3. \A j \in 1 .. Len(frames[t]) : frames[t][j].fun = c => j = i
    BY <2>1, <2>2
  <2>4. G[t] = {i}
    BY <2>2, <2>3
  <2> QED BY <2>4
<1> HIDE DEF G
<1>5. ASSUME \A t \in Threads : ~Has("stack", t, c)
      PROVE  Cardinality(OnStack(c)) = 0
  <2>1. OnStack(c) = {}
    BY <1>2, <1>3, <1>5, NoneOf
  <2> QED BY <2>1, FS_EmptySet
<1>6. ASSUME NEW t \in Threads, Has("stack", t, c), \A s \in Threads : s # t => ~Has("stack", s, c)
      PROVE  Cardinality(OnStack(c)) = 1
  <2>1. PICK i : G[t] = {i}
    BY <1>4, <1>6
  <2>2. OnStack(c) = {<<t, i>>}
    BY <1>2, <1>3, <1>6, <2>1, OneOf
  <2> QED BY <2>2, FS_Singleton
<1> QED BY <1>5, <1>6

\* Of the places of a kind, the task is in x only, or in none.
Sole(kind, x, c) == \A y : Has(kind, y, c) <=> y = x
Lacks(kind, c)   == \A y : ~Has(kind, y, c)

LEMMA PlacesCounted ==
  ASSUME IInv
  PROVE  OnePlace
<1> SUFFICES ASSUME NEW c \in Tasks
             PROVE  Places(c) = IF Live(c) THEN 1 ELSE 0
  BY DEF OnePlace, Live
<1>1. /\ TypeOK /\ Stacks /\ Single /\ Apart /\ ready \in Seq(Seq(Tasks)) /\ waiting \in Seq(Seq(Tasks))
      /\ Len(waiting) = Len(ready)
      /\ \A q \in 1 .. Len(ready) : Distinct(ready[q]) /\ Distinct(waiting[q])
  BY DEF IInv, TypeOK, Apart
<1>2. \A q : Has("ready", q, c) <=> q \in 1 .. Len(ready) /\ In(c, ready[q])
  BY DEF Has, In
<1>3. \A q : Has("waiting", q, c) <=> q \in 1 .. Len(waiting) /\ In(c, waiting[q])
  BY DEF Has, In
<1>4. \A t : Has("hand", t, c) <=> t \in InHand(c)
  BY DEF Has, InHand
<1>5. \A t : Has("stack", t, c) => t \in Threads
  BY DEF Has
<1>6. /\ Lacks("ready", c) => Cardinality(InQueue(ready, c)) = 0
      /\ \A q : Sole("ready", q, c) => Cardinality(InQueue(ready, c)) = 1
  BY <1>1, <1>2, QueueCount DEF Sole, Lacks
<1>7. /\ Lacks("waiting", c) => Cardinality(InQueue(waiting, c)) = 0
      /\ \A q : Sole("waiting", q, c) => Cardinality(InQueue(waiting, c)) = 1
  BY <1>1, <1>3, QueueCount DEF Sole, Lacks
<1>8. /\ Lacks("hand", c) => Cardinality(InHand(c)) = 0
      /\ \A t : Sole("hand", t, c) => Cardinality(InHand(c)) = 1
  <2>1. (\A t : ~Has("hand", t, c)) => InHand(c) = {}
    BY <1>4
  <2>2. \A t : (\A s : Has("hand", s, c) <=> s = t) => InHand(c) = {t}
    BY <1>4
  <2>3. Cardinality({}) = 0 /\ \A t : Cardinality({t}) = 1
    BY FS_EmptySet, FS_Singleton
  <2>4. ASSUME NEW t, Sole("hand", t, c)
        PROVE  Cardinality(InHand(c)) = 1
    <3>1. InHand(c) = {t}
      BY <2>2, <2>4, Zenon DEF Sole
    <3> QED BY <2>3, <3>1
  <2>5. ASSUME Lacks("hand", c)
        PROVE  Cardinality(InHand(c)) = 0
    BY <2>1, <2>3, <2>5 DEF Lacks
  <2> QED BY <2>4, <2>5, Zenon
<1>9. /\ Lacks("stack", c) => Cardinality(OnStack(c)) = 0
      /\ \A t : Sole("stack", t, c) => Cardinality(OnStack(c)) = 1
  <2>1. ASSUME NEW t, Sole("stack", t, c)
        PROVE  Cardinality(OnStack(c)) = 1
    <3>1. t \in Threads /\ Has("stack", t, c) /\ \A s \in Threads : s # t => ~Has("stack", s, c)
      BY <1>5, <2>1 DEF Sole
    <3> QED BY <1>1, <3>1, StackCount
  <2>2. ASSUME Lacks("stack", c)
        PROVE  Cardinality(OnStack(c)) = 0
    BY <1>1, <2>2, StackCount DEF Lacks
  <2> QED BY <2>1, <2>2, Zenon
<1>10. CASE ~Live(c)
  <2>1. \A k, y : ~Has(k, y, c)
    BY <1>1, <1>10, Zenon DEF Single
  <2>2. \A k : Lacks(k, c)
    BY <2>1 DEF Lacks
  <2> QED BY <1>6, <1>7, <1>8, <1>9, <1>10, <2>2 DEF Places
<1>11. CASE Live(c)
  <2>1. \E kind, x : \A k, y : Has(k, y, c) <=> k = kind /\ y = x
    BY <1>1, <1>11, Zenon DEF Single
  <2>2. PICK kind, x : \A k, y : Has(k, y, c) <=> k = kind /\ y = x
    BY <2>1, Zenon
  <2>3. Has(kind, x, c)
    BY <2>2
  <2>4. kind \in {"ready", "waiting", "hand", "stack"}
    BY <2>3 DEF Has
  <2>5. \A k : k # kind => Lacks(k, c)
    BY <2>2 DEF Lacks
  <2>6. Sole(kind, x, c)
    BY <2>2 DEF Sole
  <2>7. /\ Cardinality(InQueue(ready, c)) = IF kind = "ready" THEN 1 ELSE 0
        /\ Cardinality(InQueue(waiting, c)) = IF kind = "waiting" THEN 1 ELSE 0
        /\ Cardinality(InHand(c)) = IF kind = "hand" THEN 1 ELSE 0
        /\ Cardinality(OnStack(c)) = IF kind = "stack" THEN 1 ELSE 0
    <3>1. Cardinality(InQueue(ready, c)) = IF kind = "ready" THEN 1 ELSE 0
      <4>1. CASE kind = "ready"
        BY <1>6, <2>6, <4>1
      <4>2. CASE kind # "ready"
        BY <1>6, <2>5, <4>2
      <4> QED BY <4>1, <4>2
    <3>2. Cardinality(InQueue(waiting, c)) = IF kind = "waiting" THEN 1 ELSE 0
      <4>1. CASE kind = "waiting"
        BY <1>7, <2>6, <4>1
      <4>2. CASE kind # "waiting"
        BY <1>7, <2>5, <4>2
      <4> QED BY <4>1, <4>2
    <3>3. Cardinality(InHand(c)) = IF kind = "hand" THEN 1 ELSE 0
      <4>1. CASE kind = "hand"
        BY <1>8, <2>6, <4>1
      <4>2. CASE kind # "hand"
        BY <1>8, <2>5, <4>2
      <4> QED BY <4>1, <4>2
    <3>4. Cardinality(OnStack(c)) = IF kind = "stack" THEN 1 ELSE 0
      <4>1. CASE kind = "stack"
        BY <1>9, <2>6, <4>1
      <4>2. CASE kind # "stack"
        BY <1>9, <2>5, <4>2
      <4> QED BY <4>1, <4>2
    <3> QED BY <3>1, <3>2, <3>3, <3>4
  <2> QED BY <1>11, <2>4, <2>7 DEF Places
<1> QED BY <1>10, <1>11

\* No task is lost and none is run twice, the sleepers are counted, no queue has
\* more than its ring: whatever the threads do, steal, requeue or run at once.
THEOREM NothingLostNorTwice == Spec => []RuntimeInv
<1>1. IInv => RuntimeInv
  BY PlacesCounted DEF IInv, RuntimeInv
<1> QED BY <1>1, RuntimeInvariant, PTL

-----------------------------------------------------------------------------
(***************************************************************************)
(* Paras.                                                                  *)
(***************************************************************************)

\* A thread is inside the function of the task.
On(c) == \E t \in Threads : \E i \in DOMAIN frames[t] : frames[t][i].fun = c

LEMMA StatusIs ==
  ASSUME TypeOK, NEW c \in Tasks
  PROVE  /\ Status(c) \in {"new", "due", "running", "over"}
         /\ Status(c) = "new" <=> state[c] = "none"
         /\ Status(c) = "over" <=> state[c] = "over"
         /\ Status(c) = "running" <=> Live(c) /\ On(c)
         /\ Status(c) = "due" <=> Live(c) /\ ~On(c)
<1>1. state[c] \in {"none", "init", "run", "over"}
  BY DEF TypeOK
<1> QED BY <1>1 DEF Status, On, Live

LEMMA OnIs ==
  ASSUME TypeOK, Stacks, NEW c
  PROVE  On(c) <=> \E t \in Threads : Has("stack", t, c)
<1>1. \A t \in Threads : DOMAIN frames[t] = 1 .. Len(frames[t])
  BY StackType
<1> QED BY <1>1 DEF On, Has

\* The status of a task follows its state and whether a thread is inside it.
LEMMA StatusKept ==
  ASSUME NEW c \in Tasks, state'[c] = "none" <=> state[c] = "none",
         state'[c] = "over" <=> state[c] = "over", On(c)' <=> On(c)
  PROVE  Status(c)' = Status(c)
BY DEF Status, On

LEMMA StatusMoves ==
  ASSUME NEW d \in Tasks, NEW to, Status(d)' = to, \A c \in Tasks : c # d => Status(c)' = Status(c)
  PROVE  [c \in Tasks |-> Status(c)]' = [[c \in Tasks |-> Status(c)] EXCEPT ![d] = to]
OBVIOUS

\* A condition is over of the tasks exactly when it is of their statuses.
LEMMA OverIs ==
  ASSUME TypeOK, NEW o, o.of \subseteq Tasks
  PROVE  P!Over(o) <=> Over(o)
<1>1. \A d \in Tasks : [c \in Tasks |-> Status(c)][d] = "over" <=> state[d] = "over"
  BY StatusIs
<1> QED BY <1>1 DEF P!Over, Over

\* A function whose operations are all behind is through them.
LEMMA ThroughIs ==
  ASSUME IInv, NEW f \in DOMAIN Program, \A i \in 1 .. Len(Program[f]) : Passed(f, i)
  PROVE  P!Through(f)
<1>1. TypeOK /\ Ran
  BY DEF IInv
<1> SUFFICES ASSUME NEW i \in DOMAIN Program[f]
             PROVE  CASE Program[f][i].op = "go" ->
                           \A c \in Program[f][i].of : [d \in Tasks |-> Status(d)][c] # "new"
                      [] Program[f][i].op \in {"all", "any"} -> P!Over(Program[f][i])
                      [] OTHER -> TRUE
  BY DEF P!Through
<1>2. PICK o : o = Program[f][i]
  OBVIOUS
<1>3. i \in 1 .. Len(Program[f]) /\ o \in Operations
  BY <1>2, ProgramIs
<1>4. /\ o.op \in {"go", "join", "all", "any"}
      /\ o.op \in {"go", "all", "any"} => o.of \subseteq Tasks
  BY <1>3, OperationIs
<1>5. o.op = "go" => \A c \in o.of : [d \in Tasks |-> Status(d)][c] # "new"
  <2>1. o.op = "go" => \A c \in o.of : state[c] # "none"
    BY <1>1, <1>2, <1>3 DEF Ran
  <2> QED BY <1>1, <1>4, <2>1, StatusIs
<1>6. o.op \in {"all", "any"} => P!Over(o)
  <2>1. o.op \in {"all", "any"} => Over(o)
    BY <1>1, <1>2, <1>3 DEF Ran
  <2> QED BY <1>1, <1>4, <2>1, OverIs
<1> QED BY <1>2, <1>4, <1>5, <1>6

\* Steps that keep the states of the tasks and what is on the stacks.
LEMMA Unseen ==
  ASSUME IInv, TypeOK', state' = state,
         \A s \in Threads : /\ Len(frames'[s]) = Len(frames[s])
                            /\ \A i \in 1 .. Len(frames[s]) : frames'[s][i].fun = frames[s][i].fun,
         at'[Main] = "done" <=> at[Main] = "done"
  PROVE  UNCHANGED P!vars
<1>1. ASSUME NEW s \in Threads
      PROVE  DOMAIN frames[s] = 1 .. Len(frames[s]) /\ DOMAIN frames'[s] = 1 .. Len(frames[s])
  <2>1. frames[s] \in Seq(Frame) /\ frames'[s] \in Seq(Frame)
    BY DEF IInv, TypeOK, Frame
  <2> QED BY <2>1, LenProperties
<1>2. \A c : On(c)' <=> On(c)
  BY <1>1 DEF On
<1>3. \A c \in Tasks : Status(c)' = Status(c)
  BY <1>2, StatusKept
<1>4. [c \in Tasks |-> Status(c)]' = [c \in Tasks |-> Status(c)]
  BY <1>3
<1> QED BY <1>4 DEF P!vars

\* A step that neither runs nor ends a function, and goes past no operation.
InPlace(t) ==
  \/ Register(t) \/ Notify(t) \/ WakeOne(t) \/ Own(t) \/ Scan(t) \/ Grab(t) \/ Miss(t) \/ Again(t)
  \/ Check(t) \/ Lock(t) \/ Fall(t) \/ Rise(t) \/ Spurious(t) \/ End(t) \/ Quit(t) \/ NotifyAll(t)
  \/ (JoinWorkers(t) /\ t # Main)

LEMMA InPlaceIsUnseen ==
  ASSUME IInv, TypeOK', NEW t \in Threads, InPlace(t)
  PROVE  UNCHANGED P!vars
<1>1. state' = state /\ frames' = frames
  BY DEF InPlace, Register, Notify, WakeOne, Own, Scan, Grab, Miss, Again, Check, Lock, Fall, Rise,
         Spurious, End, Quit, NotifyAll, JoinWorkers
<1>2. at'[Main] = "done" <=> at[Main] = "done"
  <2>1. Main \in Threads /\ Main \notin Workers /\ at \in [Threads -> Spots] /\ FlowOf(t)
    BY Team1, Here
  <2>2. ASSUME NEW spot, spot # "done" \/ t # Main, at[t] # "done", at' = [at EXCEPT ![t] = spot]
        PROVE  at'[Main] = "done" <=> at[Main] = "done"
    BY <2>1, <2>2
  <2>3. CASE Register(t)
    BY <2>3 DEF Register
  <2>4. CASE Notify(t)
    BY <2>2, <2>4 DEF Notify, Goto
  <2>5. CASE WakeOne(t)
    <3>1. CASE Asleep = {}
      BY <2>2, <2>5, <3>1 DEF WakeOne, Goto
    <3>2. CASE Asleep # {}
      <4>1. PICK s \in Asleep : at' = [at EXCEPT ![t] = "body", ![s] = "waking"]
        BY <2>5, <3>2 DEF WakeOne
      <4>2. s \in Threads /\ at[s] = "asleep" /\ at[t] = "wakeone"
        BY <2>5, <4>1 DEF Asleep, WakeOne
      <4> QED BY <2>1, <4>1, <4>2
    <3> QED BY <3>1, <3>2
  <2>6. CASE Own(t)
    <3>1. at[t] = "own" /\ (at' = [at EXCEPT ![t] = "run"] \/ at' = [at EXCEPT ![t] = "scan"])
      BY <2>6 DEF Own, Goto
    <3> QED BY <2>2, <3>1
  <2>7. CASE Scan(t)
    <3>1. at[t] = "scan" /\ (at' = at \/ at' = [at EXCEPT ![t] = "run"] \/ at' = [at EXCEPT ![t] = "grab"])
      BY <2>7 DEF Scan, Found, Goto
    <3> QED BY <2>2, <3>1
  <2>8. CASE Grab(t)
    <3>1. at[t] = "grab" /\ (at' = [at EXCEPT ![t] = "run"] \/ at' = [at EXCEPT ![t] = "scan"])
      BY <2>8 DEF Grab, Found, Goto
    <3> QED BY <2>2, <3>1
  <2>9. CASE Miss(t)
    <3>1. at[t] = "scan" /\ \E spot \in {"body", "lock", "own"} : at' = [at EXCEPT ![t] = spot]
      BY <2>9 DEF Miss, Goto
    <3> QED BY <2>2, <3>1
  <2>10. CASE Again(t)
    <3>1. at[t] = "again" /\ \E spot \in {"body", "run", "own"} : at' = [at EXCEPT ![t] = spot]
      BY <2>10 DEF Again, Return, Goto
    <3> QED BY <2>2, <3>1
  <2>11. CASE Check(t)
    <3>1. at[t] = "check" /\ t # Main /\ \E spot : at' = [at EXCEPT ![t] = spot]
      BY <2>1, <2>11 DEF Check, Goto, FlowOf
    <3> QED BY <2>2, <3>1
  <2>12. CASE Lock(t)
    <3>1. at[t] = "lock" /\ \E spot \in {"check", "falling"} : at' = [at EXCEPT ![t] = spot]
      BY <2>12 DEF Lock, Goto
    <3> QED BY <2>2, <3>1
  <2>13. CASE Fall(t) \/ Rise(t) \/ Spurious(t) \/ Quit(t)
    <3>1. at[t] # "done" /\ \E spot \in {"asleep", "check", "waking", "call"} : at' = [at EXCEPT ![t] = spot]
      BY <2>13 DEF Fall, Rise, Spurious, Quit, Goto
    <3> QED BY <2>2, <3>1
  <2>14. CASE End(t)
    <3>1. at[t] = "body" /\ \E spot : (spot # "done" \/ t # Main) /\ at' = [at EXCEPT ![t] = spot]
      BY <2>14 DEF End, Goto
    <3> QED BY <2>2, <3>1
  <2>15. CASE NotifyAll(t)
    <3>1. /\ at[t] = "call"
          /\ at'[Main] = IF Main = t THEN "join" ELSE IF Main \in Asleep THEN "waking" ELSE at[Main]
      BY <2>1, <2>15 DEF NotifyAll
    <3> QED BY <2>1, <3>1 DEF Asleep
  <2>16. CASE JoinWorkers(t) /\ t # Main
    <3>1. at[t] = "join" /\ at' = [at EXCEPT ![t] = "done"]
      BY <2>16 DEF JoinWorkers, Goto
    <3> QED BY <2>2, <2>16, <3>1
  <2> QED BY <2>3, <2>4, <2>5, <2>6, <2>7, <2>8, <2>9, <2>10, <2>11, <2>12, <2>13, <2>14, <2>15, <2>16 DEF InPlace
<1> QED BY <1>1, <1>2, Unseen

LEMMA WaitIsUnseen ==
  ASSUME IInv, TypeOK', NEW t \in Threads, Wait(t) \/ Joined(t)
  PROVE  UNCHANGED P!vars
<1>1. /\ at[t] = "body" /\ ~Ended(t) /\ state' = state
      /\ \/ frames' = Past(t) /\ at' = at
         \/ frames' = frames /\ at' = [at EXCEPT ![t] = "own"]
  BY DEF Wait, Joined, AtOp, Goto
<1>2. at'[Main] = "done" <=> at[Main] = "done"
  BY <1>1, Team1, Here
<1>3. CASE frames' = Past(t)
  <2>1. frames[t] # <<>>
    BY <1>1, Here DEF FlowOf
  <2>2. /\ \A s \in Threads \ {t} : frames'[s] = frames[s]
        /\ Len(frames'[t]) = Len(frames[t])
        /\ \A i \in 1 .. Len(frames[t]) : frames'[t][i].fun = frames[t][i].fun
    BY <1>1, <1>3, <2>1, PastIs
  <2>3. \A s \in Threads : /\ Len(frames'[s]) = Len(frames[s])
                           /\ \A i \in 1 .. Len(frames[s]) : frames'[s][i].fun = frames[s][i].fun
    BY <2>2
  <2> QED BY <1>1, <1>2, <2>3, Unseen
<1>4. CASE frames' = frames
  BY <1>1, <1>2, <1>4, Unseen
<1> QED BY <1>1, <1>3, <1>4

\* The task scheduled was new, and is due.
LEMMA ScheduleIsSeen ==
  ASSUME IInv, TypeOK', NEW t \in Threads, Schedule(t)
  PROVE  P!Next
<1>1. at[t] = "body" /\ ~Ended(t) /\ Op(t).op = "go" /\ frames' = Past(t)
  BY DEF Schedule, AtOp
<1>2. TypeOK /\ Stacks /\ Single /\ Ran /\ frames[t] # <<>> /\ at \in [Threads -> Spots]
  BY <1>1, Here DEF FlowOf
<1>3. Op(t) \in Operations /\ Top(t).fun \in DOMAIN Program /\ Top(t).pc \in 1 .. Len(Program[Top(t).fun])
  BY <1>1, <1>2, TopIs
<1>4. PICK d \in Tasks : Op(t).of = {d}
  BY <1>1, <1>3, OperationIs
<1>5. /\ state' = [state EXCEPT ![d] = "init"]
      /\ at' = [at EXCEPT ![t] = "notify"] \/ at' = [at EXCEPT ![t] = "run"]
  BY <1>4 DEF Schedule, Goto
<1>6. state[d] = "none"
  <2>1. Program[Top(t).fun][Top(t).pc].op = "go" =>
          \A c \in Program[Top(t).fun][Top(t).pc].of : (Passed(Top(t).fun, Top(t).pc) <=> state[c] # "none")
    BY <1>2, <1>3 DEF Ran
  <2>2. ~Passed(Top(t).fun, Top(t).pc)
    BY <1>1, <1>2, NotPassed
  <2> QED BY <1>1, <1>4, <2>1, <2>2 DEF Op
<1>7. /\ \A s \in Threads \ {t} : frames'[s] = frames[s]
      /\ Len(frames'[t]) = Len(frames[t])
      /\ \A i \in 1 .. Len(frames[t]) : frames'[t][i].fun = frames[t][i].fun
  BY <1>1, <1>2, PastIs
<1>8. ASSUME NEW s \in Threads
      PROVE  DOMAIN frames[s] = 1 .. Len(frames[s]) /\ DOMAIN frames'[s] = 1 .. Len(frames[s])
  <2>1. frames[s] \in Seq(Frame) /\ frames'[s] \in Seq(Frame)
    BY <1>2 DEF TypeOK, Frame
  <2> QED BY <1>7, <2>1, LenProperties
<1>9. \A c : On(c)' <=> On(c)
  BY <1>7, <1>8 DEF On
<1>10. ~On(d)
  <2>1. ~Live(d)
    BY <1>6 DEF Live
  <2>2. \A k, y : ~Has(k, y, d)
    BY <1>2, <2>1, Zenon DEF Single
  <2> QED BY <1>2, <2>2, OnIs
<1>11. state'[d] = "init" /\ \A c \in Tasks : c # d => state'[c] = state[c]
  BY <1>2, <1>5, StateIs
<1>12. Status(d) = "new"
  BY <1>2, <1>6, StatusIs
<1>13. Status(d)' = "due"
  BY <1>9, <1>10, <1>11 DEF Status, On
<1>14. \A c \in Tasks : c # d => Status(c)' = Status(c)
  BY <1>9, <1>11, StatusKept
<1>15. [c \in Tasks |-> Status(c)]' = [[c \in Tasks |-> Status(c)] EXCEPT ![d] = "due"]
  BY <1>13, <1>14, StatusMoves
<1>16. (at[Main] = "done")' <=> at[Main] = "done"
  BY <1>1, <1>2, <1>5, Team1
<1>17. P!Schedule(d)
  BY <1>12, <1>15, <1>16 DEF P!Schedule, P!Move
<1> QED BY <1>17 DEF P!Next

\* The task run was due and its condition is over.
LEMMA RunIsSeen ==
  ASSUME IInv, TypeOK', NEW t \in Threads, Run(t)
  PROVE  P!Next \/ UNCHANGED P!vars
<1>1. at[t] = "run" /\ TypeOK /\ Stacks /\ at \in [Threads -> Spots] /\ Main \in Threads
  BY Here, Team1 DEF Run
<1>2. PICK d : d = got[t]
  OBVIOUS
<1>3. d \in Tasks /\ Live(d) /\ \A k, y : Has(k, y, d) <=> k = "hand" /\ y = t
  BY <1>1, <1>2, HandIs
<1>4. state' = [state EXCEPT ![d] = "run"]
  BY <1>2 DEF Run
<1>5. state'[d] = "run" /\ \A c \in Tasks : c # d => state'[c] = state[c]
  BY <1>1, <1>3, <1>4, StateIs
<1>6. ~On(d)
  BY <1>1, <1>3, OnIs
<1>7. CASE ~Over(After[d])
  <2>1. frames' = frames /\ at' = [at EXCEPT ![t] = "again"]
    BY <1>2, <1>7 DEF Run, Goto
  <2>2. \A c : On(c)' <=> On(c)
    BY <2>1 DEF On
  <2>3. \A c \in Tasks : c # d => Status(c)' = Status(c)
    BY <1>5, <2>2, StatusKept
  <2>4. Status(d)' = Status(d)
    BY <1>3, <1>5, <2>2, StatusKept DEF Live
  <2>5. [c \in Tasks |-> Status(c)]' = [c \in Tasks |-> Status(c)]
    BY <2>3, <2>4
  <2>6. (at[Main] = "done")' <=> at[Main] = "done"
    BY <1>1, <2>1
  <2> QED BY <2>5, <2>6 DEF P!vars
<1>8. CASE Over(After[d])
  <2>1. frames' = [frames EXCEPT ![t] = <<Call(d)>> \o @] /\ at' = [at EXCEPT ![t] = "body"]
    BY <1>2, <1>8 DEF Run, Goto
  <2>2. PICK e \in Frame : e = Call(d) /\ e.fun = d
    <3>1. Call(d) \in Frame /\ Call(d).fun = d
      BY <1>3 DEF Call, Frame
    <3> QED BY <3>1
  <2>3. PICK s \in Seq(Frame) : s = frames[t]
    BY <1>1, StackType
  <2>4. PICK n : n = <<e>> \o s
    OBVIOUS
  <2>5. /\ n \in Seq(Frame) /\ Len(n) = Len(s) + 1 /\ Len(s) \in Nat /\ n[1] = e
        /\ \A i \in 1 .. Len(s) : n[i + 1] = s[i]
        /\ \A i : i \in 1 .. Len(s) + 1 <=> i = 1 \/ \E j \in 1 .. Len(s) : i = j + 1
    BY <2>2, <2>4, Pushed
  <2>6. frames'[t] = n /\ \A q \in Threads \ {t} : frames'[q] = frames[q]
    <3>1. frames \in [Threads -> Seq(Frame)]
      BY <1>1 DEF TypeOK, Frame
    <3> QED BY <2>1, <2>2, <2>3, <2>4, <3>1
  <2>7. DOMAIN s = 1 .. Len(s) /\ DOMAIN n = 1 .. Len(n) /\ 1 \in DOMAIN n
    BY <2>5, LenProperties
  <2>8. On(d)'
    BY <2>2, <2>5, <2>6, <2>7 DEF On
  <2>9. ASSUME NEW c, c # d
        PROVE  On(c)' <=> On(c)
    <3>1. ASSUME NEW i \in DOMAIN n, n[i].fun = c
          PROVE  \E j \in DOMAIN s : s[j].fun = c
      <4>1. i # 1
        BY <2>2, <2>5, <2>9, <3>1
      <4>2. PICK j \in 1 .. Len(s) : i = j + 1
        BY <2>5, <2>7, <4>1
      <4> QED BY <2>5, <2>7, <3>1, <4>2
    <3>2. ASSUME NEW j \in DOMAIN s, s[j].fun = c
          PROVE  \E i \in DOMAIN n : n[i].fun = c
      <4>1. j + 1 \in DOMAIN n /\ n[j + 1] = s[j]
        BY <2>5, <2>7
      <4> QED BY <3>2, <4>1
    <3>3. (\E i \in DOMAIN frames'[t] : frames'[t][i].fun = c) <=> \E i \in DOMAIN frames[t] : frames[t][i].fun = c
      BY <2>3, <2>6, <3>1, <3>2
    <3> QED BY <2>6, <3>3 DEF On
  <2>10. \A c \in Tasks : c # d => Status(c)' = Status(c)
    BY <1>5, <2>9, StatusKept
  <2>11. Status(d)' = "running"
    BY <1>5, <2>8 DEF Status, On
  <2>12. Status(d) = "due"
    BY <1>1, <1>3, <1>6, StatusIs
  <2>13. [c \in Tasks |-> Status(c)]' = [[c \in Tasks |-> Status(c)] EXCEPT ![d] = "running"]
    BY <1>3, <2>10, <2>11, StatusMoves
  <2>14. P!Over(After[d])
    <3>1. After[d].of \subseteq Tasks
      <4>1. After[d] \in Conditions
        BY <1>3, ProgramAssumption
      <4> QED BY <4>1 DEF Conditions, All, Any
    <3> QED BY <1>1, <1>8, <3>1, OverIs
  <2>15. (at[Main] = "done")' <=> at[Main] = "done"
    BY <1>1, <2>1
  <2>16. P!Start(d)
    BY <1>3, <2>12, <2>13, <2>14, <2>15 DEF P!Start, P!Move
  <2> QED BY <1>3, <2>16 DEF P!Next
<1> QED BY <1>7, <1>8

\* The function that returns is through its program.
LEMMA FinishIsSeen ==
  ASSUME IInv, TypeOK', NEW t \in Threads, Finish(t)
  PROVE  P!Next
<1>1. /\ at[t] = "body" /\ Ended(t) /\ Top(t).fun \in Tasks /\ Return(t, Tail(frames[t]))
      /\ state' = [state EXCEPT ![Top(t).fun] = "over"] /\ frames' = [frames EXCEPT ![t] = Tail(@)]
  BY DEF Finish
<1>2. TypeOK /\ Stacks /\ Single /\ frames[t] # <<>> /\ at \in [Threads -> Spots] /\ Main \in Threads
  BY <1>1, Here, Team1 DEF FlowOf
<1>3. PICK d \in Tasks : d = Top(t).fun
  BY <1>1
<1>4. PICK s \in Seq(Frame) : s = frames[t]
  BY <1>2, StackType
<1>5. PICK n : n = Tail(s)
  OBVIOUS
<1>6. /\ Len(s) \in Nat \ {0} /\ n \in Seq(Frame) /\ Len(n) = Len(s) - 1
      /\ s[1].fun = d /\ 1 \in 1 .. Len(s) /\ s[1].pc > Len(Program[d])
      /\ \A i \in 1 .. Len(s) - 1 : n[i] = s[i + 1]
      /\ \A i : i \in 1 .. Len(s) <=> i = 1 \/ \E j \in 1 .. Len(s) - 1 : i = j + 1
  BY <1>1, <1>2, <1>3, <1>4, <1>5, Popped DEF Top, Ended
<1>7. frames'[t] = n /\ \A q \in Threads \ {t} : frames'[q] = frames[q]
  <2>1. frames \in [Threads -> Seq(Frame)]
    BY <1>2 DEF TypeOK, Frame
  <2> QED BY <1>1, <1>4, <1>5, <2>1
<1>8. DOMAIN s = 1 .. Len(s) /\ DOMAIN n = 1 .. Len(n)
  BY <1>6, LenProperties
<1>9. On(d) /\ Live(d)
  <2>1. Has("stack", t, d)
    BY <1>4, <1>6 DEF Has
  <2> QED BY <1>2, <2>1, Alone, OnIs
<1>10. ASSUME NEW c, c # d
       PROVE  On(c)' <=> On(c)
  <2>1. ASSUME NEW i \in DOMAIN s, s[i].fun = c
        PROVE  \E j \in DOMAIN n : n[j].fun = c
    <3>1. i # 1
      BY <1>6, <1>10, <2>1
    <3>2. PICK j \in 1 .. Len(s) - 1 : i = j + 1
      BY <1>6, <1>8, <3>1
    <3> QED BY <1>6, <1>8, <2>1, <3>2
  <2>2. ASSUME NEW j \in DOMAIN n, n[j].fun = c
        PROVE  \E i \in DOMAIN s : s[i].fun = c
    <3>1. j + 1 \in DOMAIN s /\ n[j] = s[j + 1]
      BY <1>6, <1>8
    <3> QED BY <2>2, <3>1
  <2>3. (\E i \in DOMAIN frames'[t] : frames'[t][i].fun = c) <=> \E i \in DOMAIN frames[t] : frames[t][i].fun = c
    BY <1>4, <1>7, <2>1, <2>2
  <2> QED BY <1>7, <2>3 DEF On
<1>11. state'[d] = "over" /\ \A c \in Tasks : c # d => state'[c] = state[c]
  BY <1>1, <1>2, <1>3, StateIs
<1>12. \A c \in Tasks : c # d => Status(c)' = Status(c)
  BY <1>10, <1>11, StatusKept
<1>13. Status(d) = "running"
  BY <1>2, <1>9, StatusIs
<1>14. Status(d)' = "over"
  BY <1>11 DEF Status
<1>15. [c \in Tasks |-> Status(c)]' = [[c \in Tasks |-> Status(c)] EXCEPT ![d] = "over"]
  BY <1>12, <1>14, StatusMoves
<1>16. P!Through(d)
  <2>1. d \in DOMAIN Program
    BY Functions
  <2>2. ASSUME NEW i \in 1 .. Len(Program[d])
        PROVE  Passed(d, i)
    <3>1. Len(Program[d]) \in Nat /\ i \in Nat /\ i <= Len(Program[d])
      BY <2>1, ProgramIs
    <3>2. s[1] \in Frame
      BY <1>6, ElementOfSeq
    <3>3. s[1].pc \in Nat
      BY <3>2 DEF Frame
    <3>4. s[1].pc > i
      BY <1>6, <3>1, <3>3
    <3> QED BY <1>4, <1>6, <3>4 DEF Passed
  <2> QED BY <2>1, <2>2, ThroughIs
<1>17. (at[Main] = "done")' <=> at[Main] = "done"
  <2>1. at' = [at EXCEPT ![t] = "body"] \/ at' = [at EXCEPT ![t] = "own"]
    BY <1>1 DEF Return, Goto
  <2> QED BY <1>1, <1>2, <2>1
<1>18. P!Finish(d)
  BY <1>13, <1>15, <1>16, <1>17 DEF P!Finish, P!Move
<1> QED BY <1>18 DEF P!Next

\* When the destructor has joined the workers, no thread is inside a task, and
\* the main thread is through its program.
LEMMA JoinWorkersIsSeen ==
  ASSUME IInv, NEW t \in Threads, JoinWorkers(t), t = Main
  PROVE  P!Next
<1>1. /\ at[Main] = "join" /\ at' = [at EXCEPT ![Main] = "done"] /\ state' = state /\ frames' = frames
      /\ \A w \in Workers : at[w] = "done"
  BY DEF JoinWorkers, Goto
<1>2. /\ TypeOK /\ Stacks /\ Flow /\ Ran /\ Main \in Threads /\ Main \notin Workers /\ Main \in DOMAIN Program
      /\ at \in [Threads -> Spots]
  BY Here, Team1, Functions
<1>3. Len(frames[Main]) = 1 /\ Top(Main).pc > Len(Program[Main])
  BY <1>1, <1>2 DEF Flow, FlowOf, Leaving
<1>4. frames[Main] # <<>>
  <2>1. Len(<<>>) = 0
    BY EmptySeq
  <2> SUFFICES ASSUME frames[Main] = <<>>
               PROVE  Len(frames[Main]) = 0
    BY <1>3
  <2> QED BY <2>1
<1>5. /\ frames[Main][1].fun = Main /\ frames[Main][1].pc > Len(Program[Main])
      /\ frames[Main][1].pc \in Nat
  <2>1. Top(Main) = frames[Main][1]
    BY <1>2, <1>4, TopIs
  <2>2. 1 \in 1 .. Len(frames[Main]) /\ 1 = Len(frames[Main])
    BY <1>3
  <2>3. frames[Main][1].fun = Main
    BY <1>2, <2>2 DEF Stacks
  <2>4. frames[Main][1].pc \in Nat
    BY <1>2, <2>2, StackType
  <2> QED BY <1>3, <2>1, <2>3, <2>4
<1>6. ASSUME NEW i \in 1 .. Len(Program[Main])
      PROVE  Passed(Main, i)
  <2>1. Len(Program[Main]) \in Nat
    BY <1>2, ProgramIs
  <2>2. frames[Main][1].pc > i
    BY <1>5, <2>1
  <2> QED BY <1>2, <1>3, <1>5, <2>2 DEF Passed
<1>7. P!Through(Main)
  BY <1>2, <1>6, ThroughIs
<1>8. ASSUME NEW x \in Foreign
      PROVE  at[x] = "done"
  <2>1. PICK i \in DOMAIN Program[Main] : Program[Main][i] = Join(x)
    BY ProgramAssumption
  <2>2. i \in 1 .. Len(Program[Main]) /\ Program[Main][i].op = "join" /\ x \in Program[Main][i].of
    BY <1>2, <2>1, ProgramIs DEF Join
  <2> QED BY <1>2, <1>6, <2>2 DEF Ran
<1>9. ASSUME NEW s \in Threads, NEW i \in 1 .. Len(frames[s])
      PROVE  frames[s][i].fun \notin Tasks
  <2>1. at[s] \in Leaving
    BY <1>1, <1>8 DEF Threads, Leaving
  <2>2. CASE s \in Workers
    <3>1. frames[s] = <<>> /\ Len(<<>>) = 0
      BY <1>2, <2>1, <2>2, EmptySeq DEF Flow, FlowOf
    <3> QED BY <1>9, <3>1
  <2>3. CASE s \notin Workers
    <3>1. Len(frames[s]) = 1
      BY <1>2, <2>1, <2>3 DEF Flow, FlowOf
    <3>2. frames[s][i].fun = s
      <4>1. i = Len(frames[s])
        BY <3>1
      <4> QED BY <1>2, <2>3, <4>1 DEF Stacks
    <3> QED BY <3>2, Functions
  <2> QED BY <2>2, <2>3
<1>10. \A c \in Tasks : ~On(c)
  BY <1>2, <1>9, StackType DEF On
<1>11. \A c \in Tasks : [d \in Tasks |-> Status(d)][c] # "running"
  BY <1>2, <1>10, StatusIs
<1>12. \A c \in Tasks : Status(c)' = Status(c)
  BY <1>1 DEF Status
<1>13. [c \in Tasks |-> Status(c)]' = [c \in Tasks |-> Status(c)] /\ (at[Main] = "done")' = TRUE
  BY <1>1, <1>2, <1>12
<1>14. P!Return
  BY <1>7, <1>11, <1>13 DEF P!Return
<1> QED BY <1>14 DEF P!Next

LEMMA ParasStep ==
  ASSUME IInv, TypeOK', [Next]_vars
  PROVE  P!Next \/ UNCHANGED P!vars
<1>1. CASE UNCHANGED vars
  <2>1. state' = state /\ frames' = frames /\ at' = at
    BY <1>1 DEF vars
  <2> QED BY <2>1, Unseen
<1>2. ASSUME NEW t \in Threads, Step(t) \/ Spurious(t)
      PROVE  P!Next \/ UNCHANGED P!vars
  <2>1. CASE InPlace(t)
    BY <2>1, InPlaceIsUnseen
  <2>2. CASE Wait(t) \/ Joined(t)
    BY <2>2, WaitIsUnseen
  <2>3. CASE Schedule(t)
    BY <2>3, ScheduleIsSeen
  <2>4. CASE Run(t)
    BY <2>4, RunIsSeen
  <2>5. CASE Finish(t)
    BY <2>5, FinishIsSeen
  <2>6. CASE JoinWorkers(t) /\ t = Main
    BY <2>6, JoinWorkersIsSeen
  <2> QED BY <1>2, <2>1, <2>2, <2>3, <2>4, <2>5, <2>6 DEF Step, InPlace
<1> QED BY <1>1, <1>2 DEF Next

\* The refinement without its liveness: a para called is run once, after the
\* condition it was given, and is over when its function is through with what it
\* called and waited for; when the runtime is gone, no function is in the middle.
THEOREM RuntimeRunsParas == Spec => P!Init /\ [][P!Next]_(P!vars)
<1>1. Init => P!Init
  <2> SUFFICES ASSUME Init
               PROVE  P!Init
    OBVIOUS
  <2>1. \A c \in Tasks : Status(c) = "new"
    BY DEF Init, Status
  <2>2. at[Main] # "done"
    <3>1. PICK S \in Setups :
            at = [t \in Threads |-> IF t \notin S THEN "done" ELSE IF t \in Workers THEN "check" ELSE "body"]
      BY DEF Init
    <3>2. Main \in S /\ Main \in Threads
      BY SetupIs, Team1
    <3> QED BY <3>1, <3>2
  <2> QED BY <2>1, <2>2 DEF P!Init
<1>2. IInv /\ TypeOK' /\ [Next]_vars => [P!Next]_(P!vars)
  BY ParasStep
<1>3. IInv => TypeOK
  BY DEF IInv
<1> QED BY <1>1, <1>2, <1>3, RuntimeInvariant, PTL DEF Spec
=============================================================================
