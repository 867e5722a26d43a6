-------------------------- MODULE HpdaEngineProofs --------------------------
(***************************************************************************)
(* The scheduler's invariants for every graph, the absence of lost values  *)
(* for every forest, and the types of every pipeline whose splits have a   *)
(* tree below them.                                                        *)
(***************************************************************************)
EXTENDS HpdaPipeline, FiniteSetTheorems, SequenceTheorems, TLAPS

-----------------------------------------------------------------------------
(***************************************************************************)
(* Vectors: what pushing and popping do to the elements.                   *)
(***************************************************************************)

\* Popping removes the head from a vector without repetition, and nothing else.
LEMMA TailElements ==
  ASSUME NEW S, NEW s \in Seq(S), s # <<>>
  PROVE  /\ Head(s) \in S /\ Head(s) = s[1] /\ 1 \in DOMAIN s
         /\ Tail(s) \in Seq(S)
         /\ DOMAIN Tail(s) = 1 .. Len(s) - 1
         /\ \A i \in DOMAIN Tail(s) : Tail(s)[i] = s[i + 1] /\ i + 1 \in DOMAIN s
         /\ Elements(s) = Elements(Tail(s)) \cup {Head(s)}
<1>1. Len(s) \in Nat \ {0} /\ DOMAIN s = 1 .. Len(s)
  BY LenProperties, EmptySeq
<1>2. /\ Head(s) \in S /\ Head(s) = s[1] /\ Tail(s) \in Seq(S)
      /\ Len(Tail(s)) = Len(s) - 1
      /\ \A i \in 1 .. Len(Tail(s)) : Tail(s)[i] = s[i + 1]
  BY HeadTailProperties
<1>3. DOMAIN Tail(s) = 1 .. Len(s) - 1
  BY <1>2, LenProperties
<1>4. ASSUME NEW i \in DOMAIN s PROVE s[i] \in Elements(Tail(s)) \cup {Head(s)}
  <2>1. CASE i = 1 BY <2>1, <1>2
  <2>2. CASE i # 1
    <3>1. i - 1 \in DOMAIN Tail(s) /\ Tail(s)[i - 1] = s[i]
      BY <2>2, <1>1, <1>2, <1>3
    <3> QED BY <3>1 DEF Elements
  <2> QED BY <2>1, <2>2
<1>5. Elements(Tail(s)) \cup {Head(s)} \subseteq Elements(s)
  BY <1>1, <1>2, <1>3 DEF Elements
<1> QED BY <1>1, <1>2, <1>3, <1>4, <1>5 DEF Elements

\* Nor does popping leave a second copy of the head.
LEMMA TailDistinct ==
  ASSUME NEW S, NEW s \in Seq(S), s # <<>>, Distinct(s)
  PROVE  Distinct(Tail(s)) /\ Head(s) \notin Elements(Tail(s))
<1> DEFINE t == Tail(s)
<1>1. Len(s) \in Nat
  BY LenProperties
<1>2. /\ Head(s) = s[1] /\ 1 \in DOMAIN s
      /\ DOMAIN t = 1 .. Len(s) - 1
      /\ \A i \in DOMAIN t : t[i] = s[i + 1] /\ i + 1 \in DOMAIN s
  BY TailElements
<1> HIDE DEF t
<1>3. ASSUME NEW i \in DOMAIN t, NEW j \in DOMAIN t, i # j PROVE t[i] # t[j]
  <2>1. i + 1 # j + 1
    BY <1>1, <1>2, <1>3
  <2> QED BY <2>1, <1>2 DEF Distinct
<1>4. ASSUME NEW i \in DOMAIN t PROVE t[i] # Head(s)
  <2>1. i + 1 # 1
    BY <1>1, <1>2
  <2> QED BY <2>1, <1>2 DEF Distinct
<1> QED BY <1>3, <1>4 DEF Distinct, Elements, t

\* Pushing on the stack.
LEMMA PushElements ==
  ASSUME NEW S, NEW s \in Seq(S), NEW x \in S
  PROVE  /\ <<x>> \o s \in Seq(S)
         /\ <<x>> \o s # <<>>
         /\ DOMAIN (<<x>> \o s) = 1 .. Len(s) + 1
         /\ (<<x>> \o s)[1] = x
         /\ \A i \in DOMAIN s : i + 1 \in DOMAIN (<<x>> \o s) /\ (<<x>> \o s)[i + 1] = s[i]
         /\ \A i \in DOMAIN (<<x>> \o s) : i = 1 \/ (i - 1 \in DOMAIN s /\ (<<x>> \o s)[i] = s[i - 1])
         /\ Elements(<<x>> \o s) = Elements(s) \cup {x}
<1> DEFINE t == <<x>> \o s
<1>1. Len(s) \in Nat /\ DOMAIN s = 1 .. Len(s)
  BY LenProperties
<1>2. <<x>> \in Seq(S) /\ Len(<<x>>) = 1 /\ <<x>>[1] = x
  OBVIOUS
<1>3. /\ t \in Seq(S) /\ Len(t) = 1 + Len(s)
      /\ \A i \in 1 .. 1 + Len(s) : t[i] = IF i <= 1 THEN <<x>>[i] ELSE s[i - 1]
  BY <1>2, ConcatProperties
<1>4. DOMAIN t = 1 .. Len(s) + 1
  BY <1>1, <1>3, LenProperties
<1>5. t[1] = x
  BY <1>1, <1>2, <1>3
<1>6. \A i \in DOMAIN s : i + 1 \in DOMAIN t /\ t[i + 1] = s[i]
  BY <1>1, <1>3, <1>4
<1>7. \A i \in DOMAIN t : i = 1 \/ (i - 1 \in DOMAIN s /\ t[i] = s[i - 1])
  BY <1>1, <1>3, <1>4
<1>9. t # <<>>
  BY <1>1, <1>3
<1> HIDE DEF t
<1>8. Elements(t) = Elements(s) \cup {x}
  <2>1. 1 \in DOMAIN t
    BY <1>1, <1>4
  <2>2. Elements(s) \cup {x} \subseteq Elements(t)
    BY <2>1, <1>5, <1>6 DEF Elements
  <2>3. Elements(t) \subseteq Elements(s) \cup {x}
    BY <1>5, <1>7 DEF Elements
  <2> QED BY <2>2, <2>3
<1> QED BY <1>3, <1>4, <1>5, <1>6, <1>7, <1>8, <1>9 DEF t

\* Queueing a vector of new elements keeps a queue free of repetitions.
LEMMA AppendElements ==
  ASSUME NEW S, NEW s \in Seq(S), NEW t \in Seq(S)
  PROVE  /\ s \o t \in Seq(S)
         /\ Elements(s \o t) = Elements(s) \cup Elements(t)
         /\ (s # <<>> \/ t # <<>>) => s \o t # <<>>
         /\ Distinct(s) /\ Distinct(t) /\ Elements(s) \cap Elements(t) = {} => Distinct(s \o t)
<1> DEFINE u == s \o t
<1>1. /\ Len(s) \in Nat /\ DOMAIN s = 1 .. Len(s)
      /\ Len(t) \in Nat /\ DOMAIN t = 1 .. Len(t)
  BY LenProperties
<1>2. /\ u \in Seq(S) /\ Len(u) = Len(s) + Len(t)
      /\ \A i \in 1 .. Len(s) + Len(t) : u[i] = IF i <= Len(s) THEN s[i] ELSE t[i - Len(s)]
  BY ConcatProperties
<1>3. DOMAIN u = 1 .. Len(s) + Len(t)
  BY <1>2, LenProperties
<1>4. \A i \in DOMAIN u : \/ i \in DOMAIN s /\ u[i] = s[i]
                          \/ i \notin DOMAIN s /\ i - Len(s) \in DOMAIN t /\ u[i] = t[i - Len(s)]
  BY <1>1, <1>2, <1>3
<1>5. Elements(u) \subseteq Elements(s) \cup Elements(t)
  BY <1>4 DEF Elements
<1>6. ASSUME NEW i \in DOMAIN s PROVE i \in DOMAIN u /\ u[i] = s[i]
  BY <1>1, <1>2, <1>3
<1>7. ASSUME NEW i \in DOMAIN t PROVE i + Len(s) \in DOMAIN u /\ u[i + Len(s)] = t[i]
  BY <1>1, <1>2, <1>3
<1>8. Elements(s) \cup Elements(t) \subseteq Elements(u)
  BY <1>6, <1>7 DEF Elements
<1>9. ASSUME \A i, j \in DOMAIN s : i # j => s[i] # s[j],
             \A i, j \in DOMAIN t : i # j => t[i] # t[j],
             Elements(s) \cap Elements(t) = {},
             NEW i \in DOMAIN u, NEW j \in DOMAIN u, i # j
      PROVE  u[i] # u[j]
  <2>1. i \in Int /\ j \in Int /\ Len(s) \in Int
    BY <1>1, <1>3
  <2>2. CASE i \in DOMAIN s /\ j \in DOMAIN s
    BY <1>9, <2>2, <1>6
  <2>3. CASE i \notin DOMAIN s /\ j \notin DOMAIN s
    BY <1>9, <2>3, <2>1, <1>4
  <2>4. CASE i \in DOMAIN s /\ j \notin DOMAIN s
    <3>1. u[i] \in Elements(s) /\ u[j] \in Elements(t)
      BY <2>4, <1>4 DEF Elements
    <3> QED BY <3>1, <1>9
  <2>5. CASE i \notin DOMAIN s /\ j \in DOMAIN s
    <3>1. u[i] \in Elements(t) /\ u[j] \in Elements(s)
      BY <2>5, <1>4 DEF Elements
    <3> QED BY <3>1, <1>9
  <2> QED BY <2>2, <2>3, <2>4, <2>5
<1>10. (s # <<>> \/ t # <<>>) => u # <<>>
  BY ConcatProperties, <1>1, <1>2, EmptySeq
<1> HIDE DEF u
<1>11. Elements(u) = Elements(s) \cup Elements(t)
  BY <1>5, <1>8
<1>12. Distinct(s) /\ Distinct(t) /\ Elements(s) \cap Elements(t) = {} => Distinct(u)
  BY <1>9 DEF Distinct
<1> QED BY <1>2, <1>10, <1>11, <1>12 DEF u

\* A listing of a set of functors is a vector of exactly its members, each once.
LEMMA ListingElements ==
  ASSUME NEW W \in SUBSET Functors, NEW q \in Listings(W)
  PROVE  /\ q \in Seq(Functors)
         /\ Elements(q) = W
         /\ Distinct(q)
         /\ q = <<>> <=> W = {}
<1>1. IsFiniteSet(W)
  BY GraphAssumption, FS_Subset
<1>2. Cardinality(W) \in Nat
  BY <1>1, FS_CardinalityType
<1>3. q \in [1 .. Cardinality(W) -> W] /\ Distinct(q) /\ Elements(q) = W
  BY DEF Listings
<1>4. q \in Seq(Functors)
  BY <1>2, <1>3
<1>6. q = <<>> <=> W = {}
  <2>1. q = <<>> => Elements(q) = {}
    BY DEF Elements
  <2>2. W = {} => DOMAIN q = {}
    BY <1>3
  <2>3. DOMAIN q = {} => q = <<>>
    BY <1>4, LenProperties
  <2> QED BY <2>1, <2>2, <2>3, <1>3
<1> QED BY <1>3, <1>4, <1>6

-----------------------------------------------------------------------------
(***************************************************************************)
(* Every graph: the loops of run() keep the queue, the stack and the       *)
(* statuses in step.                                                       *)
(***************************************************************************)

LEMMA WantedType ==
  ASSUME TypeOK, NEW f \in Functors, NEW has
  PROVE  Wanted(f, has) \in SUBSET Functors
<1>1. Inputs(f) \subseteq Functors
  <2>1. Pred[f] \in Seq(Functors)
    BY GraphAssumption
  <2> QED BY <2>1, ElementOfSeq, LenProperties DEF Inputs
<1> QED BY <1>1 DEF Wanted

\* The head of a marked queue is marked to_p, the rest of the queue marks the others.
LEMMA QueueHead ==
  ASSUME TypeOK, QueueIsMarked, queue # <<>>
  PROVE  /\ Head(queue) \in Functors
         /\ status[Head(queue)] = "to_p"
         /\ Tail(queue) \in Seq(Functors)
         /\ Distinct(Tail(queue))
         /\ \A g \in Functors : g \in Elements(Tail(queue)) <=> status[g] = "to_p" /\ g # Head(queue)
<1> DEFINE f == Head(queue)
           q == Tail(queue)
<1>1. queue \in Seq(Functors) /\ DOMAIN queue = 1 .. Len(queue) /\ Len(queue) \in Nat
  BY LenProperties DEF TypeOK
<1>2. /\ f \in Functors /\ f = queue[1] /\ 1 \in DOMAIN queue
      /\ q \in Seq(Functors)
      /\ DOMAIN q = 1 .. Len(queue) - 1
      /\ \A i \in DOMAIN q : q[i] = queue[i + 1] /\ i + 1 \in DOMAIN queue
      /\ Elements(queue) = Elements(q) \cup {f}
  BY <1>1, TailElements
<1> HIDE DEF f, q
<1>3. Distinct(q) /\ f \notin Elements(q)
  BY <1>1, TailDistinct DEF QueueIsMarked, f, q
<1>4. \A g \in Functors : g \in Elements(queue) <=> status[g] = "to_p"
  BY DEF QueueIsMarked
<1> QED BY <1>2, <1>3, <1>4 DEF f, q

\* Queueing wanted functors that are not queued yet, in any order.
LEMMA QueueMore ==
  ASSUME NEW q \in Seq(Functors), NEW W \in SUBSET Functors, NEW v,
         NEW more \in InOrder(W, v),
         Distinct(q), Elements(q) \cap W = {}
  PROVE  /\ q \o more \in Seq(Functors)
         /\ Distinct(q \o more)
         /\ Elements(q \o more) = Elements(q) \cup W
<1>1. more \in Listings(W)
  BY DEF InOrder
<1>2. /\ more \in Seq(Functors)
      /\ Elements(more) = W
      /\ Distinct(more)
      /\ more = <<>> <=> W = {}
  BY <1>1, ListingElements
<1> QED BY <1>2, AppendElements

LEMMA EngineInit == Init => EngineInv
<1> SUFFICES ASSUME Init PROVE EngineInv
  OBVIOUS
<1>1. Outputs \in SUBSET Functors
  BY DEF Outputs
<1>2. outputs \in Listings(Outputs) /\ outputs # <<>> /\ queue = outputs
  BY DEF Init
<1>3. /\ outputs \in Seq(Functors)
      /\ Elements(outputs) = Outputs
      /\ Distinct(outputs)
  BY <1>1, <1>2, ListingElements
<1>4. TypeOK
  BY <1>2, <1>3 DEF Init, TypeOK, Phases, Statuses
<1>5. QueueIsMarked
  BY <1>2, <1>3 DEF Init, QueueIsMarked
<1> QED BY <1>2, <1>4, <1>5 DEF Init, EngineInv, LoopInv, NothingAbandoned

LEMMA BfsExtractorKeeps ==
  ASSUME EngineInv, NEW ok \in BOOLEAN, BfsExtractor(ok)
  PROVE  EngineInv'
<1> DEFINE f == Head(queue)
<1>1. TypeOK /\ QueueIsMarked /\ LoopInv
  BY DEF EngineInv
<1>2. /\ phase = "bfs" /\ queue # <<>> /\ queue' = Tail(queue)
      /\ status' = [status EXCEPT ![f] = IF ok THEN "null" ELSE "end"]
      /\ hasValue' = IF ok THEN DoneValue(hasValue, f) ELSE hasValue
      /\ phase' = AfterBfs /\ outputs' = outputs /\ stack' = stack
  BY <1>1 DEF BfsExtractor, LoopInv
<1>3. /\ f \in Functors /\ queue' \in Seq(Functors)
      /\ Distinct(queue')
      /\ \A g \in Functors : g \in Elements(queue') <=> status[g] = "to_p" /\ g # f
  BY <1>1, <1>2, QueueHead
<1> HIDE DEF f
<1>4. phase' \in {"bfs", "pop", "refill"}
  BY <1>2 DEF AfterBfs
<1>5. TypeOK'
  <2>1. status' \in [Functors -> Statuses]
    BY <1>1, <1>2, <1>3 DEF TypeOK, Statuses
  <2>2. hasValue' \in [Functors -> BOOLEAN]
    BY <1>1, <1>2, <1>3 DEF TypeOK, DoneValue
  <2> QED BY <2>1, <2>2, <1>1, <1>2, <1>3, <1>4 DEF TypeOK, Phases
<1>6. QueueIsMarked'
  BY <1>1, <1>2, <1>3 DEF QueueIsMarked, TypeOK
<1>7. LoopInv' /\ NothingAbandoned'
  BY <1>2, <1>4 DEF LoopInv, NothingAbandoned, AfterBfs
<1> QED BY <1>5, <1>6, <1>7 DEF EngineInv

LEMMA BfsProcessorKeeps ==
  ASSUME EngineInv, BfsProcessor
  PROVE  EngineInv'
<1> DEFINE f == Head(queue)
           W == Wanted(f, hasValue)
<1>1. TypeOK /\ QueueIsMarked /\ LoopInv
  BY DEF EngineInv
<1>2. /\ phase = "bfs" /\ queue # <<>>
      /\ stack' = <<f>> \o stack
      /\ \E more \in InOrder(W, Pred[f]) : queue' = Tail(queue) \o more
      /\ status' = [g \in Functors |-> IF g \in W THEN "to_p" ELSE IF g = f THEN "p" ELSE status[g]]
      /\ phase' = AfterBfs /\ outputs' = outputs /\ hasValue' = hasValue
  BY <1>1 DEF BfsProcessor, LoopInv
<1>3. /\ f \in Functors /\ status[f] = "to_p" /\ Tail(queue) \in Seq(Functors)
      /\ Distinct(Tail(queue))
      /\ \A g \in Functors : g \in Elements(Tail(queue)) <=> status[g] = "to_p" /\ g # f
  BY <1>1, <1>2, QueueHead
<1>4. W \in SUBSET Functors /\ \A g \in W : status[g] \notin {"to_p", "end"} /\ g # f
  BY <1>1, <1>3, WantedType, GraphAssumption DEF Wanted
<1>5. stack' \in Seq(Functors) /\ stack' # <<>>
  BY <1>1, <1>2, <1>3, PushElements DEF TypeOK
<1>6. PICK more \in InOrder(W, Pred[f]) : queue' = Tail(queue) \o more
  BY <1>2
<1> HIDE DEF f, W
<1>7. status' \in [Functors -> Statuses]
  BY <1>1, <1>2 DEF TypeOK, Statuses
<1>8. Elements(Tail(queue)) \cap W = {}
  BY <1>3, <1>4
<1>9. /\ queue' \in Seq(Functors)
      /\ Distinct(queue')
      /\ Elements(queue') = Elements(Tail(queue)) \cup W
  BY <1>3, <1>4, <1>6, <1>8, QueueMore
<1>10. phase' \in {"bfs", "pop"} /\ (phase' = "bfs" => queue' # <<>>) /\ (phase' = "pop" => queue' = <<>>)
  BY <1>2, <1>5 DEF AfterBfs
<1>11. TypeOK'
  BY <1>1, <1>2, <1>5, <1>7, <1>9, <1>10 DEF TypeOK, Phases
<1>12. QueueIsMarked'
  <2>1. \A g \in Functors : g \in Elements(queue') <=> status'[g] = "to_p"
    BY <1>2, <1>3, <1>4, <1>9
  <2> QED BY <2>1, <1>9 DEF QueueIsMarked
<1>13. LoopInv' /\ NothingAbandoned'
  BY <1>5, <1>10 DEF LoopInv, NothingAbandoned
<1> QED BY <1>11, <1>12, <1>13 DEF EngineInv

\* The three ways a functor on top of the stack can be left keep the flags typed.
LEMMA FlagsType ==
  ASSUME TypeOK, NEW f \in Functors, NEW used
  PROVE  /\ DoneValue(Consume(hasValue, used), f) \in [Functors -> BOOLEAN]
         /\ FailedFlags(f, used) \in [Functors -> BOOLEAN]
BY DEF TypeOK, DoneValue, Consume, FailedFlags

\* What the guard phase = "pop" gives: an empty queue and a functor to process.
LEMMA StackHead ==
  ASSUME EngineInv, phase = "pop"
  PROVE  /\ queue = <<>> /\ stack # <<>>
         /\ Head(stack) \in Functors /\ Tail(stack) \in Seq(Functors)
         /\ \A g \in Functors : status[g] # "to_p"
<1>1. queue = <<>> /\ stack # <<>> /\ stack \in Seq(Functors) /\ QueueIsMarked
  BY DEF EngineInv, LoopInv, TypeOK
<1>2. Elements(queue) = {}
  BY <1>1 DEF Elements
<1> QED BY <1>1, <1>2, TailElements DEF QueueIsMarked

LEMMA PopLeavesKeeps ==
  ASSUME EngineInv, NEW used \in SUBSET Functors, PopSuccess(used) \/ PopEnd(used)
  PROVE  EngineInv'
<1> DEFINE f == Head(stack)
<1>1. TypeOK /\ QueueIsMarked /\ LoopInv
  BY DEF EngineInv
<1>2. /\ phase = "pop" /\ queue' = queue /\ outputs' = outputs /\ stack' = Tail(stack)
      /\ phase' = AfterPop
      /\ hasValue' \in {DoneValue(Consume(hasValue, used), f), FailedFlags(f, used)}
      /\ \E s \in {"null", "end"} : status' = [status EXCEPT ![f] = s]
  BY DEF PopSuccess, PopEnd
<1>3. /\ queue = <<>> /\ f \in Functors /\ Tail(stack) \in Seq(Functors)
      /\ \A g \in Functors : status[g] # "to_p"
  BY <1>2, StackHead
<1>4. hasValue' \in [Functors -> BOOLEAN]
  BY <1>1, <1>2, <1>3, FlagsType
<1> HIDE DEF f
<1>5. phase' \in {"pop", "refill"} /\ (phase' = "pop" => stack' # <<>>) /\ (phase' = "refill" => stack' = <<>>)
  BY <1>2, <1>3 DEF AfterPop
<1>6. TypeOK'
  BY <1>1, <1>2, <1>3, <1>4, <1>5 DEF TypeOK, Phases, Statuses
<1>7. QueueIsMarked'
  BY <1>1, <1>2, <1>3 DEF QueueIsMarked, TypeOK
<1>8. LoopInv' /\ NothingAbandoned'
  BY <1>2, <1>3, <1>5 DEF LoopInv, NothingAbandoned
<1> QED BY <1>6, <1>7, <1>8 DEF EngineInv

LEMMA PopRetryKeeps ==
  ASSUME EngineInv, NEW used \in SUBSET Functors, PopRetry(used)
  PROVE  EngineInv'
<1> DEFINE f == Head(stack)
           W == Wanted(f, FailedFlags(f, used))
<1>1. TypeOK /\ QueueIsMarked /\ LoopInv
  BY DEF EngineInv
<1>2. /\ phase = "pop" /\ outputs' = outputs /\ stack' = stack /\ W # {}
      /\ phase' = AfterPop /\ hasValue' = FailedFlags(f, used)
      /\ \E more \in InOrder(W, Pred[f]) : queue' = queue \o more
      /\ status' = [g \in Functors |-> IF g \in W THEN "to_p" ELSE status[g]]
  BY DEF PopRetry
<1>3. /\ queue = <<>> /\ f \in Functors
      /\ \A g \in Functors : status[g] # "to_p"
  BY <1>2, StackHead
<1>4. hasValue' \in [Functors -> BOOLEAN] /\ W \in SUBSET Functors
  BY <1>1, <1>2, <1>3, FlagsType, WantedType
<1>5. queue \in Seq(Functors) /\ Elements(queue) = {} /\ Distinct(queue)
  BY <1>1, <1>3 DEF TypeOK, Elements, QueueIsMarked
<1>6. PICK more \in InOrder(W, Pred[f]) : queue' = queue \o more
  BY <1>2
<1> HIDE DEF f, W
<1>7. queue' \in Seq(Functors) /\ Distinct(queue') /\ Elements(queue') = W /\ queue' # <<>>
  <2>1. Elements(queue) \cap W = {}
    BY <1>5
  <2>2. /\ queue' \in Seq(Functors) /\ Distinct(queue')
        /\ Elements(queue') = Elements(queue) \cup W
    BY <2>1, <1>4, <1>5, <1>6, QueueMore
  <2>3. Elements(queue') = W
    BY <2>2, <1>5
  <2>4. queue' # <<>>
    BY <2>3, <1>2 DEF Elements
  <2> QED BY <2>2, <2>3, <2>4
<1>8. phase' = "refill"
  BY <1>2, <1>7 DEF AfterPop
<1>9. TypeOK'
  BY <1>1, <1>2, <1>4, <1>7, <1>8 DEF TypeOK, Phases, Statuses
<1>10. QueueIsMarked'
  BY <1>2, <1>3, <1>7 DEF QueueIsMarked
<1>11. LoopInv' /\ NothingAbandoned'
  BY <1>7, <1>8 DEF LoopInv, NothingAbandoned
<1> QED BY <1>9, <1>10, <1>11 DEF EngineInv

LEMMA RefillKeeps ==
  ASSUME EngineInv, Refill
  PROVE  EngineInv'
<1> DEFINE W == OpenOutputs
<1>1. TypeOK /\ QueueIsMarked /\ LoopInv
  BY DEF EngineInv
<1>2. /\ phase = "refill" /\ outputs' = outputs /\ stack' = stack /\ hasValue' = hasValue
      /\ phase' = IF queue' = <<>> THEN "done" ELSE "bfs"
  BY DEF Refill
<1>3. CASE queue # <<>>
  <2>1. queue' = queue /\ status' = status /\ phase' = "bfs"
    BY <1>2, <1>3 DEF Refill
  <2> QED
    BY <1>1, <1>2, <1>3, <2>1 DEF EngineInv, TypeOK, Phases, QueueIsMarked, LoopInv, NothingAbandoned
<1>4. CASE queue = <<>>
  <2>1. /\ queue' \in InOrder(W, outputs)
        /\ status' = [f \in Functors |-> IF f \in W THEN "to_p" ELSE status[f]]
        /\ stack = <<>>
    BY <1>1, <1>2, <1>4 DEF Refill, LoopInv
  <2>2. W \in SUBSET Functors /\ queue' \in Listings(W)
    BY <2>1 DEF Outputs, OpenOutputs, InOrder
  <2>3. queue' \in Seq(Functors) /\ Elements(queue') = W /\ Distinct(queue') /\ (queue' = <<>> <=> W = {})
    BY <2>2, ListingElements
  <2>4. \A g \in Functors : status[g] # "to_p"
    BY <1>1, <1>4 DEF QueueIsMarked, Elements
  <2>5. Outputs \subseteq Functors /\ W \subseteq Outputs
        /\ \A g \in Outputs : g \in W \/ status[g] = "end"
    BY <2>4 DEF Outputs, OpenOutputs
  <2> HIDE DEF W
  <2>6. TypeOK'
    BY <1>1, <1>2, <2>1, <2>3 DEF TypeOK, Phases, Statuses
  <2>7. QueueIsMarked'
    BY <2>1, <2>3, <2>4 DEF QueueIsMarked
  <2>8. LoopInv'
    BY <1>2, <2>1 DEF LoopInv
  <2>9. NothingAbandoned'
    BY <1>2, <2>1, <2>3, <2>5 DEF NothingAbandoned
  <2> QED BY <2>6, <2>7, <2>8, <2>9 DEF EngineInv
<1> QED BY <1>3, <1>4

LEMMA EngineStep == EngineInv /\ [Next]_vars => EngineInv'
<1> SUFFICES ASSUME EngineInv, [Next]_vars PROVE EngineInv'
  OBVIOUS
<1>1. CASE BfsProcessor
  BY <1>1, BfsProcessorKeeps
<1>2. ASSUME NEW ok \in BOOLEAN, BfsExtractor(ok) PROVE EngineInv'
  BY <1>2, BfsExtractorKeeps
<1>3. ASSUME NEW used \in SUBSET Functors, PopSuccess(used) \/ PopEnd(used) PROVE EngineInv'
  BY <1>3, PopLeavesKeeps
<1>4. ASSUME NEW used \in SUBSET Functors, PopRetry(used) PROVE EngineInv'
  BY <1>4, PopRetryKeeps
<1>5. CASE Refill
  BY <1>5, RefillKeeps
<1>6. CASE UNCHANGED vars
  BY <1>6 DEF vars, EngineInv, TypeOK, QueueIsMarked, LoopInv, NothingAbandoned
<1> QED BY <1>1, <1>2, <1>3, <1>4, <1>5, <1>6 DEF Next, Bfs, Pop, Returned

\* The four parts of EngineInv hold of every run over every graph.
THEOREM EngineInvariant == Spec => []EngineInv
<1>1. Init => EngineInv
  BY EngineInit
<1>2. EngineInv /\ [Next]_vars => EngineInv'
  BY EngineStep
<1> QED BY <1>1, <1>2, PTL DEF Spec

\* The variables keep their types, whatever the functors do (TypeOK).
THEOREM TypeCorrect == Spec => []TypeOK
<1>1. EngineInv => TypeOK
  BY DEF EngineInv
<1> QED BY <1>1, EngineInvariant, PTL

\* Over every graph, to_process holds exactly the functors marked status_to_p,
\* each once: the tests of m_status in engine.cpp:66-68, 87-89 and 105.
THEOREM QueueMarked == Spec => []QueueIsMarked
<1>1. EngineInv => QueueIsMarked
  BY DEF EngineInv
<1> QED BY <1>1, EngineInvariant, PTL

\* Over every graph, run() returns only with every output at its end and
\* nothing queued or stacked (engine.cpp:48, 76, 103-110).
THEOREM ReturnsComplete == Spec => []NothingAbandoned
<1>1. EngineInv => NothingAbandoned
  BY DEF EngineInv
<1> QED BY <1>1, EngineInvariant, PTL

-----------------------------------------------------------------------------
(***************************************************************************)
(* Trees: below the joins of a graph no functor is asked again before its  *)
(* value is taken.                                                         *)
(***************************************************************************)

\* The functor that reads a stacked functor of a tree is in the tree, and waits
\* below it.
LEMMA ReaderBelow ==
  ASSUME NEW D, Tree(D), TreeInv(D), NEW f \in Functors, NEW x \in Inputs(f), x \in D, status[x] = "p"
  PROVE  /\ f \in D
         /\ \E i, j \in DOMAIN stack : i < j /\ stack[i] = x /\ stack[j] = f
<1>1. PICK i \in DOMAIN stack : stack[i] = x
  BY DEF TreeInv, StackIsMarked, Elements
<1>2. x \notin Outputs
  BY DEF Outputs
<1>3. PICK j \in DOMAIN stack : i < j /\ x \in Inputs(stack[j])
  BY <1>1, <1>2 DEF TreeInv, AskedByReader
<1>4. stack[j] \in Functors
  BY LenProperties, ElementOfSeq DEF TreeInv, EngineInv, TypeOK
<1>5. stack[j] = f /\ f \in D
  BY <1>3, <1>4 DEF Tree
<1> QED BY <1>1, <1>3, <1>5

LEMMA TreeInit ==
  ASSUME NEW D, Tree(D), Init
  PROVE  TreeInv(D)
<1>1. EngineInv
  BY EngineInit
<1>2. stack = <<>> /\ DOMAIN stack = {} /\ Elements(stack) = {}
  BY DEF Init, Elements
<1>3. Elements(queue) = Outputs /\ D \subseteq Functors
  BY DEF Init, Listings, Tree
<1>4. StackIsMarked(D)
  BY <1>2, <1>3 DEF Init, StackIsMarked
<1>5. AskedByReader(D)
  BY <1>2, <1>3 DEF AskedByReader
<1>6. AskedWithoutValue(D)
  BY <1>3 DEF Init, AskedWithoutValue
<1> QED BY <1>1, <1>4, <1>5, <1>6 DEF TreeInv

LEMMA TreeBfsExtractor ==
  ASSUME NEW D, Tree(D), TreeInv(D), NEW ok \in BOOLEAN, BfsExtractor(ok)
  PROVE  TreeInv(D)'
<1> DEFINE f == Head(queue)
<1>1. /\ EngineInv /\ TypeOK /\ QueueIsMarked /\ LoopInv /\ D \subseteq Functors
      /\ StackIsMarked(D) /\ AskedByReader(D) /\ AskedWithoutValue(D)
  BY DEF TreeInv, EngineInv, Tree
<1>2. /\ queue # <<>> /\ stack' = stack
      /\ queue' = Tail(queue)
      /\ status' = [status EXCEPT ![f] = IF ok THEN "null" ELSE "end"]
      /\ hasValue' = IF ok THEN DoneValue(hasValue, f) ELSE hasValue
  BY <1>1 DEF BfsExtractor, LoopInv
<1>3. f \in Functors /\ status[f] = "to_p" /\ Elements(queue') \subseteq Elements(queue)
  <2>1. queue \in Seq(Functors)
    BY <1>1 DEF TypeOK
  <2> QED BY <2>1, <1>1, <1>2, QueueHead, TailElements
<1> HIDE DEF f
<1>4. EngineInv'
  BY <1>1, BfsExtractorKeeps
<1>5. StackIsMarked(D)'
  BY <1>1, <1>2, <1>3 DEF StackIsMarked, TypeOK
<1>6. AskedByReader(D)'
  BY <1>1, <1>2, <1>3 DEF AskedByReader
<1>7. AskedWithoutValue(D)'
  BY <1>1, <1>2, <1>3 DEF AskedWithoutValue, TypeOK, DoneValue
<1> QED BY <1>4, <1>5, <1>6, <1>7 DEF TreeInv

LEMMA TreeBfsProcessor ==
  ASSUME NEW D, Tree(D), TreeInv(D), BfsProcessor
  PROVE  TreeInv(D)'
<1> DEFINE f == Head(queue)
           W == Wanted(f, hasValue)
<1>1. /\ EngineInv /\ TypeOK /\ QueueIsMarked /\ LoopInv /\ D \subseteq Functors
      /\ StackIsMarked(D) /\ AskedByReader(D) /\ AskedWithoutValue(D)
  BY DEF TreeInv, EngineInv, Tree
<1>2. /\ queue # <<>> /\ stack' = <<f>> \o stack /\ hasValue' = hasValue
      /\ status' = [g \in Functors |-> IF g \in W THEN "to_p" ELSE IF g = f THEN "p" ELSE status[g]]
  BY <1>1 DEF BfsProcessor, LoopInv
<1>3. f \in Functors /\ status[f] = "to_p" /\ f \in Elements(queue)
  BY <1>1, <1>2, QueueHead DEF QueueIsMarked
<1>4. /\ W \in SUBSET Functors /\ W \subseteq Inputs(f) /\ f \notin W
      /\ \A g \in W : ~hasValue[g]
  BY <1>1, <1>3, WantedType, GraphAssumption DEF Wanted
<1>5. EngineInv'
  BY <1>1, BfsProcessorKeeps
<1>6. \A g \in W \cap D : status[g] # "p"
  <2> SUFFICES ASSUME NEW x \in W \cap D, status[x] = "p" PROVE FALSE
    OBVIOUS
  <2>1. f \in D /\ f \in Elements(stack)
    BY <1>3, <1>4, ReaderBelow DEF Elements
  <2> QED BY <2>1, <1>1, <1>3 DEF StackIsMarked
<1>7. \A g \in Functors : status'[g] = "to_p" => g \in W \/ (status[g] = "to_p" /\ g # f)
  BY <1>2
<1> HIDE DEF f, W
<1>8. stack \in Seq(Functors) /\ Len(stack) \in Nat /\ DOMAIN stack = 1 .. Len(stack)
  BY <1>1, LenProperties DEF TypeOK
<1>9. /\ DOMAIN stack' = 1 .. Len(stack) + 1 /\ stack'[1] = f
      /\ \A i \in DOMAIN stack : i + 1 \in DOMAIN stack' /\ stack'[i + 1] = stack[i]
      /\ \A i \in DOMAIN stack' : i = 1 \/ (i - 1 \in DOMAIN stack /\ stack'[i] = stack[i - 1])
      /\ Elements(stack') = Elements(stack) \cup {f}
  BY <1>2, <1>3, <1>8, PushElements
<1>10. f \in D => \A i \in DOMAIN stack : stack[i] # f
  BY <1>1, <1>3 DEF StackIsMarked, Elements
<1>11. StackIsMarked(D)'
  <2>1. \A g \in D : g \in Elements(stack') <=> status'[g] = "p"
    BY <1>1, <1>2, <1>4, <1>6, <1>9 DEF StackIsMarked
  <2>2. ASSUME NEW i \in DOMAIN stack', NEW j \in DOMAIN stack', stack'[i] \in D, stack'[i] = stack'[j]
        PROVE  i = j
    <3>1. CASE i = 1 \/ j = 1
      BY <2>2, <3>1, <1>9, <1>10
    <3>2. CASE i # 1 /\ j # 1
      <4>1. i - 1 \in DOMAIN stack /\ j - 1 \in DOMAIN stack /\ stack[i - 1] \in D /\ stack[i - 1] = stack[j - 1]
        BY <2>2, <3>2, <1>9
      <4>2. i - 1 = j - 1
        BY <4>1, <1>1 DEF StackIsMarked
      <4> QED BY <4>2, <1>8, <1>9
    <3> QED BY <3>1, <3>2
  <2> QED BY <2>1, <2>2 DEF StackIsMarked
<1>12. AskedByReader(D)'
  <2>1. f \in D \ Outputs => \E j \in DOMAIN stack : f \in Inputs(stack[j])
    BY <1>1, <1>3 DEF AskedByReader
  <2>2. ASSUME NEW i \in DOMAIN stack', stack'[i] \in D \ Outputs
        PROVE  \E j \in DOMAIN stack' : i < j /\ stack'[i] \in Inputs(stack'[j])
    <3>1. CASE i = 1
      <4>1. PICK j \in DOMAIN stack : f \in Inputs(stack[j])
        BY <2>1, <2>2, <3>1, <1>9
      <4>2. j + 1 \in DOMAIN stack' /\ i < j + 1 /\ stack'[j + 1] = stack[j]
        BY <3>1, <1>8, <1>9
      <4> QED BY <3>1, <4>1, <4>2, <1>9
    <3>2. CASE i # 1
      <4>1. i - 1 \in DOMAIN stack /\ stack'[i] = stack[i - 1]
        BY <3>2, <1>9
      <4>2. PICK j \in DOMAIN stack : i - 1 < j /\ stack[i - 1] \in Inputs(stack[j])
        BY <2>2, <4>1, <1>1 DEF AskedByReader
      <4>3. j + 1 \in DOMAIN stack' /\ i < j + 1 /\ stack'[j + 1] = stack[j]
        BY <4>2, <1>8, <1>9
      <4> QED BY <4>1, <4>2, <4>3
    <3> QED BY <3>1, <3>2
  <2>3. ASSUME NEW g \in D \ Outputs, g \in Elements(queue')
        PROVE  \E j \in DOMAIN stack' : g \in Inputs(stack'[j])
    <3>1. g \in Functors /\ status'[g] = "to_p"
      BY <2>3, <1>1, <1>5 DEF EngineInv, QueueIsMarked
    <3>2. CASE g \in W
      <4>1. 1 \in DOMAIN stack'
        BY <1>8, <1>9
      <4> QED BY <3>2, <4>1, <1>4, <1>9
    <3>3. CASE status[g] = "to_p"
      <4>1. PICK j \in DOMAIN stack : g \in Inputs(stack[j])
        BY <2>3, <3>1, <3>3, <1>1 DEF QueueIsMarked, AskedByReader
      <4> QED BY <4>1, <1>9
    <3> QED BY <3>1, <3>2, <3>3, <1>7
  <2> QED BY <2>2, <2>3 DEF AskedByReader
<1>13. AskedWithoutValue(D)'
  BY <1>1, <1>2, <1>3, <1>4 DEF AskedWithoutValue
<1> QED BY <1>5, <1>11, <1>12, <1>13 DEF TreeInv

LEMMA TreePopLeaves ==
  ASSUME NEW D, Tree(D), TreeInv(D), NEW used \in SUBSET Functors, PopSuccess(used) \/ PopEnd(used)
  PROVE  TreeInv(D)'
<1> DEFINE f == Head(stack)
<1>1. /\ EngineInv /\ TypeOK /\ D \subseteq Functors
      /\ StackIsMarked(D) /\ AskedByReader(D) /\ AskedWithoutValue(D)
  BY DEF TreeInv, EngineInv, Tree
<1>2. /\ phase = "pop" /\ queue' = queue /\ stack' = Tail(stack)
      /\ hasValue' \in {DoneValue(Consume(hasValue, used), f), FailedFlags(f, used)}
      /\ \E s \in {"null", "end"} : status' = [status EXCEPT ![f] = s]
  BY DEF PopSuccess, PopEnd
<1>3. queue = <<>> /\ stack # <<>> /\ f \in Functors /\ stack \in Seq(Functors)
  BY <1>1, <1>2, StackHead DEF TypeOK
<1>4. /\ DOMAIN stack' = 1 .. Len(stack) - 1
      /\ \A i \in DOMAIN stack' : stack'[i] = stack[i + 1] /\ i + 1 \in DOMAIN stack
      /\ Elements(stack) = Elements(stack') \cup {f}
      /\ f = stack[1] /\ 1 \in DOMAIN stack
  BY <1>2, <1>3, TailElements
<1>5. Len(stack) \in Nat /\ DOMAIN stack = 1 .. Len(stack)
  BY <1>3, LenProperties
<1>6. \A g \in Functors : g # f => (hasValue'[g] => hasValue[g])
  BY <1>1, <1>2, <1>3 DEF TypeOK, DoneValue, Consume, FailedFlags
<1> HIDE DEF f
<1>7. EngineInv'
  BY <1>1, PopLeavesKeeps
<1>8. f \in D => f \notin Elements(stack')
  <2> SUFFICES ASSUME f \in D, NEW i \in DOMAIN stack', stack'[i] = f PROVE FALSE
    BY DEF Elements
  <2>1. i + 1 = 1
    BY <1>1, <1>4 DEF StackIsMarked
  <2> QED BY <2>1, <1>4, <1>5
<1>9. StackIsMarked(D)'
  <2>1. \A g \in D : g \in Elements(stack') <=> status'[g] = "p"
    BY <1>1, <1>2, <1>3, <1>4, <1>8 DEF StackIsMarked, TypeOK
  <2>2. ASSUME NEW i \in DOMAIN stack', NEW j \in DOMAIN stack', stack'[i] \in D, stack'[i] = stack'[j]
        PROVE  i = j
    <3>1. i + 1 = j + 1
      BY <2>2, <1>1, <1>4 DEF StackIsMarked
    <3> QED BY <3>1, <1>4, <1>5
  <2> QED BY <2>1, <2>2 DEF StackIsMarked
<1>10. AskedByReader(D)'
  <2>1. ASSUME NEW i \in DOMAIN stack', stack'[i] \in D \ Outputs
        PROVE  \E j \in DOMAIN stack' : i < j /\ stack'[i] \in Inputs(stack'[j])
    <3>1. i + 1 \in DOMAIN stack /\ stack'[i] = stack[i + 1] /\ i \in Nat
      BY <1>4, <1>5
    <3>2. PICK k \in DOMAIN stack : i + 1 < k /\ stack[i + 1] \in Inputs(stack[k])
      BY <2>1, <3>1, <1>1 DEF AskedByReader
    <3>3. k - 1 \in DOMAIN stack' /\ i < k - 1 /\ (k - 1) + 1 = k
      BY <3>1, <3>2, <1>4, <1>5
    <3>4. stack'[k - 1] = stack[k]
      BY <3>3, <1>4
    <3> QED BY <3>1, <3>2, <3>3, <3>4
  <2>2. Elements(queue') = {}
    BY <1>2, <1>3 DEF Elements
  <2> QED BY <2>1, <2>2 DEF AskedByReader
<1>11. AskedWithoutValue(D)'
  BY <1>1, <1>2, <1>3, <1>6 DEF AskedWithoutValue, TypeOK
<1> QED BY <1>7, <1>9, <1>10, <1>11 DEF TreeInv

LEMMA TreePopRetry ==
  ASSUME NEW D, Tree(D), TreeInv(D), NEW used \in SUBSET Functors, PopRetry(used)
  PROVE  TreeInv(D)'
<1> DEFINE f == Head(stack)
           W == Wanted(f, FailedFlags(f, used))
<1>1. /\ EngineInv /\ TypeOK /\ D \subseteq Functors
      /\ StackIsMarked(D) /\ AskedByReader(D) /\ AskedWithoutValue(D)
  BY DEF TreeInv, EngineInv, Tree
<1>2. /\ phase = "pop" /\ stack' = stack
      /\ hasValue' = FailedFlags(f, used)
      /\ status' = [g \in Functors |-> IF g \in W THEN "to_p" ELSE status[g]]
  BY DEF PopRetry
<1>3. /\ queue = <<>> /\ stack # <<>> /\ f \in Functors /\ stack \in Seq(Functors)
      /\ \A g \in Functors : status[g] # "to_p"
  BY <1>1, <1>2, StackHead DEF TypeOK
<1>4. f = stack[1] /\ 1 \in DOMAIN stack
  BY <1>3, TailElements
<1>5. /\ W \in SUBSET Functors /\ W \subseteq Inputs(f) /\ f \notin W
      /\ \A g \in W : ~hasValue'[g]
  BY <1>1, <1>2, <1>3, WantedType, GraphAssumption DEF Wanted
<1>6. \A g \in Functors : hasValue'[g] => hasValue[g]
  BY <1>1, <1>2, <1>3 DEF TypeOK, Consume, FailedFlags
<1> HIDE DEF f, W
<1>7. EngineInv'
  BY <1>1, PopRetryKeeps
<1>8. \A g \in W \cap D : status[g] # "p"
  <2> SUFFICES ASSUME NEW x \in W \cap D, status[x] = "p" PROVE FALSE
    OBVIOUS
  <2>1. f \in D
    BY <1>3, <1>5, ReaderBelow
  <2>2. PICK i, j \in DOMAIN stack : i < j /\ stack[i] = x /\ stack[j] = f
    BY <1>3, <1>5, ReaderBelow
  <2>3. j = 1
    BY <2>1, <2>2, <1>1, <1>4 DEF StackIsMarked
  <2>4. i \in 1 .. Len(stack)
    BY <2>2, <1>3, LenProperties
  <2> QED BY <2>2, <2>3, <2>4
<1>9. StackIsMarked(D)'
  BY <1>1, <1>2, <1>5, <1>8 DEF StackIsMarked
<1>10. AskedByReader(D)'
  <2>1. \A g \in D : g \in Elements(queue') => g \in W
    <3> SUFFICES ASSUME NEW g \in D, g \in Elements(queue') PROVE g \in W
      OBVIOUS
    <3>1. g \in Functors /\ status'[g] = "to_p"
      BY <1>1, <1>7 DEF EngineInv, QueueIsMarked
    <3> QED BY <3>1, <1>2, <1>3
  <2> QED BY <2>1, <1>1, <1>2, <1>4, <1>5 DEF AskedByReader
<1>11. AskedWithoutValue(D)'
  BY <1>1, <1>2, <1>5, <1>6 DEF AskedWithoutValue
<1> QED BY <1>7, <1>9, <1>10, <1>11 DEF TreeInv

LEMMA TreeRefill ==
  ASSUME NEW D, Tree(D), TreeInv(D), Refill
  PROVE  TreeInv(D)'
<1> DEFINE W == OpenOutputs
<1>1. /\ EngineInv /\ TypeOK /\ LoopInv /\ D \subseteq Functors
      /\ StackIsMarked(D) /\ AskedByReader(D) /\ AskedWithoutValue(D)
  BY DEF TreeInv, EngineInv, Tree
<1>2. phase = "refill" /\ stack' = stack /\ hasValue' = hasValue
  BY DEF Refill
<1>3. EngineInv'
  BY <1>1, RefillKeeps
<1>4. CASE queue # <<>>
  <2>1. queue' = queue /\ status' = status
    BY <1>4 DEF Refill
  <2> QED BY <1>1, <1>2, <1>3, <2>1
        DEF TreeInv, StackIsMarked, AskedByReader, AskedWithoutValue
<1>5. CASE queue = <<>>
  <2>1. /\ queue' \in InOrder(W, outputs)
        /\ status' = [f \in Functors |-> IF f \in W THEN "to_p" ELSE status[f]]
        /\ stack = <<>>
    BY <1>1, <1>2, <1>5 DEF Refill, LoopInv
  <2>2. Elements(queue') = W
    BY <2>1 DEF InOrder, Listings
  <2>3. DOMAIN stack = {} /\ Elements(stack) = {}
    BY <2>1 DEF Elements
  <2>4. W \subseteq Outputs
    BY DEF OpenOutputs
  <2> HIDE DEF W
  <2>5. StackIsMarked(D)'
    <3>1. \A g \in D : status[g] # "p"
      BY <1>1, <2>3 DEF StackIsMarked
    <3> QED BY <3>1, <1>1, <1>2, <2>1, <2>3 DEF StackIsMarked
  <2>6. AskedByReader(D)'
    BY <1>2, <2>2, <2>3, <2>4 DEF AskedByReader
  <2>7. AskedWithoutValue(D)'
    BY <1>1, <1>2, <2>1, <2>4 DEF AskedWithoutValue
  <2> QED BY <1>3, <2>5, <2>6, <2>7 DEF TreeInv
<1> QED BY <1>4, <1>5

LEMMA TreeStep ==
  ASSUME NEW D, Tree(D), TreeInv(D), [Next]_vars
  PROVE  TreeInv(D)'
<1>1. CASE BfsProcessor
  BY <1>1, TreeBfsProcessor
<1>2. ASSUME NEW ok \in BOOLEAN, BfsExtractor(ok) PROVE TreeInv(D)'
  BY <1>2, TreeBfsExtractor
<1>3. ASSUME NEW used \in SUBSET Functors, PopSuccess(used) \/ PopEnd(used) PROVE TreeInv(D)'
  BY <1>3, TreePopLeaves
<1>4. ASSUME NEW used \in SUBSET Functors, PopRetry(used) PROVE TreeInv(D)'
  BY <1>4, TreePopRetry
<1>5. CASE Refill
  BY <1>5, TreeRefill
<1>6. CASE UNCHANGED vars
  BY <1>6 DEF vars, TreeInv, EngineInv, TypeOK, QueueIsMarked, LoopInv, NothingAbandoned,
              StackIsMarked, AskedByReader, AskedWithoutValue
<1> QED BY <1>1, <1>2, <1>3, <1>4, <1>5, <1>6 DEF Next, Bfs, Pop, Returned

\* Every functor of a tree that is stacked is there on behalf of the one that
\* reads it, which waits below, and offers no value; above the tree the graph may
\* split and join as it likes.
THEOREM TreeInvariant == ASSUME NEW D, Tree(D) PROVE Spec => []TreeInv(D)
<1>1. Init => TreeInv(D)
  BY TreeInit
<1>2. TreeInv(D) /\ [Next]_vars => TreeInv(D)'
  BY TreeStep
<1> QED BY <1>1, <1>2, PTL DEF Spec

LEMMA ForestIsTree ==
  ASSUME Forest
  PROVE  Tree(Functors)
BY DEF Tree, Forest

\* The stack of run() over a forest: every functor on it is asked on behalf of
\* the one that reads it, which waits below, and none of them offers a value.
THEOREM ForestInvariant == Forest => (Spec => []ForestInv)
<1> SUFFICES ASSUME Forest PROVE Spec => []ForestInv
  OBVIOUS
<1>1. Init => ForestInv
  BY ForestIsTree, TreeInit DEF ForestInv
<1>2. ForestInv /\ [Next]_vars => ForestInv'
  BY ForestIsTree, TreeStep DEF ForestInv
<1> QED BY <1>1, <1>2, PTL DEF Spec

\* No functor of a tree is processed while its last value waits for its reader.
LEMMA TreeLosesNothing ==
  ASSUME NEW D, Tree(D), TreeInv(D), NEW f \in D \ Outputs, hasValue[f]
  PROVE  ~(phase = "bfs" /\ f = Head(queue)) /\ ~(phase = "pop" /\ f = Head(stack))
<1>1. /\ EngineInv /\ LoopInv /\ TypeOK /\ QueueIsMarked /\ D \subseteq Functors
      /\ StackIsMarked(D) /\ AskedWithoutValue(D)
  BY DEF TreeInv, EngineInv, Tree
<1>2. ~(phase = "bfs" /\ f = Head(queue))
  <2> SUFFICES ASSUME phase = "bfs", f = Head(queue) PROVE FALSE
    OBVIOUS
  <2>1. status[f] = "to_p"
    BY <1>1, QueueHead DEF LoopInv
  <2> QED BY <2>1, <1>1 DEF AskedWithoutValue
<1>3. ~(phase = "pop" /\ f = Head(stack))
  <2> SUFFICES ASSUME phase = "pop", f = Head(stack) PROVE FALSE
    OBVIOUS
  <2>1. stack # <<>> /\ stack \in Seq(Functors)
    BY <1>1 DEF LoopInv, TypeOK
  <2>2. status[f] = "p"
    BY <2>1, <1>1, TailElements DEF StackIsMarked
  <2> QED BY <2>2, <1>1 DEF AskedWithoutValue
<1> QED BY <1>2, <1>3

\* No functor of a tree is asked again after its end.
LEMMA TreeEnds ==
  ASSUME NEW D, Tree(D), TreeInv(D), Next, NEW f \in D, status[f] = "end"
  PROVE  status'[f] = "end"
<1>1. /\ EngineInv /\ LoopInv /\ TypeOK /\ QueueIsMarked /\ StackIsMarked(D) /\ f \in Functors
  BY DEF TreeInv, EngineInv, Tree
<1>2. CASE BfsProcessor
  <2>1. Head(queue) # f
    BY <1>1, <1>2, QueueHead DEF BfsProcessor, LoopInv
  <2> QED BY <2>1, <1>1, <1>2 DEF BfsProcessor, Wanted
<1>3. ASSUME NEW ok \in BOOLEAN, BfsExtractor(ok) PROVE status'[f] = "end"
  <2>1. Head(queue) # f
    BY <1>1, <1>3, QueueHead DEF BfsExtractor, LoopInv
  <2> QED BY <2>1, <1>1, <1>3 DEF BfsExtractor, TypeOK
<1>4. ASSUME NEW used \in SUBSET Functors, PopSuccess(used) \/ PopEnd(used) PROVE status'[f] = "end"
  <2>1. stack # <<>> /\ stack \in Seq(Functors)
    BY <1>1, <1>4 DEF PopSuccess, PopEnd, LoopInv, TypeOK
  <2>2. Head(stack) # f
    BY <2>1, <1>1, TailElements DEF StackIsMarked
  <2> QED BY <2>2, <1>1, <1>4 DEF PopSuccess, PopEnd, TypeOK
<1>5. ASSUME NEW used \in SUBSET Functors, PopRetry(used) PROVE status'[f] = "end"
  BY <1>1, <1>5 DEF PopRetry, Wanted
<1>6. CASE Refill
  BY <1>1, <1>6 DEF Refill, OpenOutputs
<1>7. CASE Returned
  BY <1>7 DEF Returned, vars
<1> QED BY <1>2, <1>3, <1>4, <1>5, <1>6, <1>7 DEF Next, Bfs, Pop

\* Over a forest no value is dropped or overwritten before its reader took it:
\* run() processes a functor only when it offers nothing (NoValueLost).
THEOREM ForestLosesNothing == Forest => (Spec => []NoValueLost)
<1> SUFFICES ASSUME Forest PROVE Spec => []NoValueLost
  OBVIOUS
<1>1. ForestInv => NoValueLost
  BY ForestIsTree, TreeLosesNothing DEF ForestInv, NoValueLost
<1> QED BY <1>1, ForestInvariant, PTL

\* Over a forest status_end is final: run() never asks again a functor that has
\* ended (EndIsFinal).
THEOREM ForestEndsForGood == Forest => (Spec => EndIsFinal)
<1> SUFFICES ASSUME Forest PROVE Spec => EndIsFinal
  OBVIOUS
<1>1. ForestInv /\ [Next]_vars => [\A f \in Functors : status[f] = "end" => status'[f] = "end"]_vars
  BY ForestIsTree, TreeEnds DEF ForestInv
<1> QED BY <1>1, ForestInvariant, PTL DEF Spec, EndIsFinal

-----------------------------------------------------------------------------
(***************************************************************************)
(* Pipelines: the engine with the functors of the library is the engine.   *)
(***************************************************************************)

\* The inputs of a functor are the entries of its vector.
LEMMA InputsAre ==
  ASSUME NEW f \in Functors
  PROVE  /\ Len(Pred[f]) \in Nat /\ DOMAIN Pred[f] = 1 .. Len(Pred[f])
         /\ \A i \in DOMAIN Pred[f] : Pred[f][i] \in Functors /\ Pred[f][i] \in Inputs(f)
         /\ Inputs(f) \in SUBSET Functors
<1>1. Pred[f] \in Seq(Functors)
  BY GraphAssumption
<1>2. Len(Pred[f]) \in Nat /\ DOMAIN Pred[f] = 1 .. Len(Pred[f])
  BY <1>1, LenProperties
<1>3. \A i \in DOMAIN Pred[f] : Pred[f][i] \in Functors
  BY <1>1, <1>2, ElementOfSeq
<1> QED BY <1>2, <1>3 DEF Inputs

LEMMA PipelineStep ==
  ASSUME EngineInv, [PipelineNext]_allVars
  PROVE  [Next]_vars
<1>1. CASE phase = "bfs" /\ Extract
  <2>1. \E ok \in BOOLEAN : BfsExtractor(ok)
    BY <1>1 DEF Extract
  <2> QED BY <2>1 DEF Next, Bfs
<1>2. CASE Descend
  BY <1>2 DEF Descend, Next, Bfs
<1>3. CASE phase = "pop" /\ (Succeed \/ Fail)
  <2>1. Head(stack) \in Functors
    BY <1>3, StackHead
  <2>2. Inputs(Head(stack)) \subseteq Functors
    BY <2>1, InputsAre
  <2>3. \E used \in SUBSET Inputs(Head(stack)) : PopSuccess(used) \/ PopRetry(used) \/ PopEnd(used)
    BY <1>3 DEF Succeed, Fail
  <2>4. \E used \in SUBSET Functors : PopSuccess(used) \/ PopRetry(used) \/ PopEnd(used)
    BY <2>2, <2>3
  <2> QED BY <2>4 DEF Next, Pop
<1>4. CASE Restart
  BY <1>4 DEF Restart, Next
<1>5. CASE Finish
  BY <1>5 DEF Finish, Next
<1>6. CASE UNCHANGED allVars
  BY <1>6 DEF allVars
<1> QED BY <1>1, <1>2, <1>3, <1>4, <1>5, <1>6 DEF PipelineNext

\* Whatever its functors, a pipeline is a run of the engine: what is proved of
\* HpdaEngine holds of it.
THEOREM PipelineRunsEngine == PipelineSpec => Spec
<1>1. PipelineInit => Init
  BY DEF PipelineInit
<1>2. Init => EngineInv
  BY EngineInit
<1>3. EngineInv /\ [PipelineNext]_allVars => [Next]_vars
  BY PipelineStep
<1>4. EngineInv /\ [Next]_vars => EngineInv'
  BY EngineStep
<1> QED BY <1>1, <1>2, <1>3, <1>4, PTL DEF PipelineSpec, Spec

-----------------------------------------------------------------------------
(***************************************************************************)
(* What each process() does to the functors' own state.                    *)
(***************************************************************************)

RowTypes ==
  /\ data \in [Functors -> Seq(Rows)]
  /\ row \in [Functors -> Rows]
  /\ group \in [Functors -> [on : BOOLEAN, last : Nat, acc : [value : Nat, count : Nat]]]
  /\ sorted \in [Functors -> [done : BOOLEAN, rows : Seq([k : Nat, n : Seq(Nat)])]]
  /\ index \in [Functors -> Int]
  /\ GroupInv

\* A functor that offers a value offers a row.
OnOffer == \A g \in Functors : hasValue[g] => OutputValue(g) \in Rows

\* What a process() of f leaves alone, and how it moves the places of vectors.
Moves(f, ok) ==
  /\ \A g \in Functors : g # f => index'[g] = index[g]
  /\ Kind[f] = "concat" => index'[f] \in 0 .. Len(Pred[f])
  /\ Kind[f] \in {"raw", "stream"} =>
       /\ data' = data
       /\ index'[f] = IF data[f] = <<>> THEN index[f] ELSE index[f] + 1
       /\ ok <=> data[f] # <<>> /\ index'[f] < Len(data[f])
  /\ \A g \in Functors : Kind[g] = "raw" => data'[g] = data[g]
  /\ \A g \in Functors : Kind[g] = "stream" =>
       /\ Len(data'[g]) >= Len(data[g])
       /\ Kind[f] = "split" /\ ok /\ Up(g) = f => Len(data'[g]) > Len(data[g])

\* The least of some natural numbers.
LEMMA LeastIs ==
  ASSUME NEW S \in SUBSET Nat, S # {}
  PROVE  Min(S) \in S /\ \A y \in S : Min(S) <= y
<1> DEFINE R == {ss \in Nat \X Nat : ss[1] < ss[2]}
<1>1. IsWellFoundedOn(R, Nat)
  BY NatLessThanWellFounded DEF OpToRel
<1>2. \A x, y \in Nat : <<y, x>> \in R <=> y < x
  OBVIOUS
<1> HIDE DEF R
<1>3. PICK x \in S : \A y \in S : ~ (<<y, x>> \in R)
  BY <1>1, WFMin
<1>4. \A y \in S : x <= y
  <2>1. \A y \in S : ~ (y < x)
    BY <1>2, <1>3
  <2> QED BY <2>1
<1> QED BY <1>4 DEF Min

\* A functor with one input: Live tells whether that input offers a value.
LEMMA OneInput ==
  ASSUME NEW f \in Functors,
         Kind[f] \notin {"raw", "concat", "union", "intersection", "difference"}
  PROVE  /\ Up(f) \in Functors /\ Inputs(f) = {Up(f)}
         /\ Live(f) # {} <=> hasValue[Up(f)]
<1>1. DOMAIN Pred[f] = {1}
  BY BuildAssumption, InputsAre
<1> QED BY <1>1, InputsAre DEF Up, Live, Inputs

\* A functor with many inputs: the least key on offer is the key of some.
LEMMA LeastKeyIs ==
  ASSUME OnOffer, NEW f \in Functors, Live(f) # {}
  PROVE  /\ AtLeast(f) \in SUBSET Nat /\ AtLeast(f) # {}
         /\ \A i \in Live(f) : Pred[f][i] \in Functors /\ hasValue[Pred[f][i]]
<1> DEFINE keys == {Key(Pred[f][i]) : i \in Live(f)}
<1>1. \A i \in Live(f) : i \in Nat /\ Pred[f][i] \in Functors /\ hasValue[Pred[f][i]]
  BY InputsAre DEF Live
<1>2. \A i \in Live(f) : Key(Pred[f][i]) \in Nat
  BY <1>1 DEF OnOffer, Rows, Key
<1>3. keys \in SUBSET Nat /\ keys # {}
  BY <1>2
<1>4. LeastKey(f) \in keys
  BY <1>3, LeastIs DEF LeastKey
<1> QED BY <1>1, <1>4 DEF AtLeast

\* A row goes into m_data of f.
LEMMA RowChanges ==
  ASSUME RowTypes, NEW f \in Functors, NEW ok, NEW r,
         Kind[f] \notin {"raw", "stream", "concat", "split"},
         ok => r \in Rows,
         row' = IF ok THEN [row EXCEPT ![f] = r] ELSE row,
         UNCHANGED <<data, index, group, sorted>>
  PROVE  RowTypes' /\ Moves(f, ok)
<1>1. row' \in [Functors -> Rows]
  BY DEF RowTypes
<1>2. RowTypes'
  BY <1>1 DEF RowTypes, GroupInv
<1>3. \A g \in Functors : Len(data[g]) \in Nat
  BY LenProperties DEF RowTypes
<1> QED BY <1>2, <1>3 DEF Moves

LEMMA FilterMoves ==
  ASSUME RowTypes, OnOffer, NEW f \in Functors, NEW ok, NEW used, FilterProcess(f, ok, used)
  PROVE  RowTypes' /\ Moves(f, ok)
<1>1. Kind[f] = "filter" /\ (ok => OutputValue(Up(f)) \in Rows)
  BY OneInput DEF FilterProcess, OnOffer
<1> QED BY <1>1, RowChanges DEF FilterProcess

LEMMA UnionMoves ==
  ASSUME RowTypes, OnOffer, NEW f \in Functors, NEW ok, NEW used, UnionProcess(f, ok, used)
  PROVE  RowTypes' /\ Moves(f, ok)
<1> DEFINE r == OutputValue(Pred[f][Min(AtLeast(f))])
<1>1. ASSUME ok PROVE r \in Rows
  <2>1. Live(f) # {}
    BY <1>1 DEF UnionProcess
  <2>2. Min(AtLeast(f)) \in Live(f)
    BY <2>1, LeastKeyIs, LeastIs DEF AtLeast
  <2> QED BY <2>1, <2>2, LeastKeyIs DEF OnOffer
<1>2. /\ Kind[f] = "union" /\ row' = IF ok THEN [row EXCEPT ![f] = r] ELSE row
      /\ UNCHANGED <<data, index, group, sorted>>
  BY DEF UnionProcess
<1> HIDE DEF r
<1> QED BY <1>1, <1>2, RowChanges

LEMMA IntersectionMoves ==
  ASSUME RowTypes, OnOffer, NEW f \in Functors, NEW ok, NEW used, IntersectionProcess(f, ok, used)
  PROVE  RowTypes' /\ Moves(f, ok)
<1> DEFINE r == OutputValue(Last(Pred[f]))
<1>1. ASSUME ok PROVE r \in Rows
  <2>1. Len(Pred[f]) >= 2 /\ Live(f) = DOMAIN Pred[f]
    BY <1>1 DEF IntersectionProcess
  <2>2. Len(Pred[f]) \in Live(f)
    BY <2>1, InputsAre
  <2> QED BY <2>2, LeastKeyIs DEF OnOffer, Last
<1>2. /\ Kind[f] = "intersection" /\ row' = IF ok THEN [row EXCEPT ![f] = r] ELSE row
      /\ UNCHANGED <<data, index, group, sorted>>
  BY DEF IntersectionProcess
<1> HIDE DEF r
<1> QED BY <1>1, <1>2, RowChanges

LEMMA DifferenceMoves ==
  ASSUME RowTypes, OnOffer, NEW f \in Functors, NEW ok, NEW used, DifferenceProcess(f, ok, used)
  PROVE  RowTypes' /\ Moves(f, ok)
<1> DEFINE r == OutputValue(Up(f))
<1>1. ASSUME ok PROVE r \in Rows
  <2>1. 1 \in Live(f)
    BY <1>1 DEF DifferenceProcess
  <2> QED BY <2>1, LeastKeyIs DEF OnOffer, Up
<1>2. /\ Kind[f] = "difference" /\ row' = IF ok THEN [row EXCEPT ![f] = r] ELSE row
      /\ UNCHANGED <<data, index, group, sorted>>
  BY DEF DifferenceProcess
<1> HIDE DEF r
<1> QED BY <1>1, <1>2, RowChanges

LEMMA RawMoves ==
  ASSUME RowTypes, NEW f \in Functors, NEW ok, NEW used, RawProcess(f, ok, used)
  PROVE  RowTypes' /\ Moves(f, ok)
<1>1. /\ Kind[f] \in {"raw", "stream"}
      /\ index' = IF data[f] = <<>> THEN index ELSE [index EXCEPT ![f] = @ + 1]
      /\ ok = (data[f] # <<>> /\ index'[f] < Len(data[f]))
      /\ data' = data /\ row' = row /\ group' = group /\ sorted' = sorted
  BY DEF RawProcess
<1>2. index \in [Functors -> Int]
  BY DEF RowTypes
<1>3. /\ index' \in [Functors -> Int]
      /\ \A g \in Functors : g # f => index'[g] = index[g]
      /\ index'[f] = IF data[f] = <<>> THEN index[f] ELSE index[f] + 1
  BY <1>1, <1>2
<1>4. RowTypes'
  BY <1>1, <1>3 DEF RowTypes, GroupInv
<1>5. \A g \in Functors : Len(data[g]) \in Nat
  BY LenProperties DEF RowTypes
<1>6. ok <=> data[f] # <<>> /\ index'[f] < Len(data[f])
  BY <1>1
<1>7. Kind[f] # "concat" /\ Kind[f] # "split" /\ data' = data
  BY <1>1
<1> HIDE <1>1
<1> QED BY <1>3, <1>4, <1>5, <1>6, <1>7 DEF Moves

LEMMA ConcatMoves ==
  ASSUME RowTypes, OnOffer, NEW f \in Functors, NEW ok, NEW used, ConcatProcess(f, ok, used)
  PROVE  RowTypes' /\ Moves(f, ok)
<1> DEFINE rest == {i \in Live(f) : i > index[f]}
           r == OutputValue(Pred[f][Min(rest)])
           to == IF ok THEN Min(rest) - 1 ELSE Len(Pred[f])
<1>1. /\ Kind[f] = "concat" /\ ok = (rest # {})
      /\ index' = [index EXCEPT ![f] = to]
      /\ row' = IF ok THEN [row EXCEPT ![f] = r] ELSE row
      /\ data' = data /\ group' = group /\ sorted' = sorted
  BY DEF ConcatProcess
<1>2. ASSUME ok PROVE Min(rest) \in Live(f) /\ Min(rest) \in 1 .. Len(Pred[f])
  <2>1. rest # {}
    BY <1>1, <1>2
  <2>2. rest \subseteq Live(f) /\ Live(f) \subseteq 1 .. Len(Pred[f])
    BY InputsAre DEF Live
  <2>3. Len(Pred[f]) \in Nat
    BY InputsAre
  <2> HIDE DEF rest
  <2>4. rest \in SUBSET Nat
    BY <2>2, <2>3
  <2> QED BY <2>1, <2>2, <2>4, LeastIs
<1>3. ok => r \in Rows
  BY <1>2, LeastKeyIs DEF OnOffer
<1>4. to \in 0 .. Len(Pred[f])
  BY <1>2, InputsAre
<1> HIDE DEF rest, r, to
<1>5. to \in Int
  BY <1>4, InputsAre
<1>6. index \in [Functors -> Int] /\ row \in [Functors -> Rows]
  BY DEF RowTypes
<1>7. index' \in [Functors -> Int] /\ index'[f] = to /\ \A g \in Functors : g # f => index'[g] = index[g]
  BY <1>1, <1>5, <1>6
<1>8. row' \in [Functors -> Rows]
  BY <1>1, <1>3, <1>6
<1>9. RowTypes'
  BY <1>1, <1>7, <1>8 DEF RowTypes, GroupInv
<1>10. \A g \in Functors : Len(data[g]) \in Nat
  BY LenProperties DEF RowTypes
<1> QED BY <1>1, <1>4, <1>7, <1>9, <1>10 DEF Moves

\* A row goes into the vectors of the functors in S.
LEMMA VectorsGrow ==
  ASSUME RowTypes, NEW S \in SUBSET Functors, NEW r \in Rows,
         data' = [g \in Functors |-> IF g \in S THEN Append(data[g], r) ELSE data[g]],
         UNCHANGED <<row, index, group, sorted>>
  PROVE  /\ RowTypes'
         /\ \A g \in S : Len(data'[g]) = Len(data[g]) + 1
         /\ \A g \in Functors : Len(data[g]) \in Nat /\ Len(data'[g]) >= Len(data[g])
<1>1. \A g \in Functors : data[g] \in Seq(Rows) /\ Len(data[g]) \in Nat
  BY LenProperties DEF RowTypes
<1>2. \A g \in Functors : Append(data[g], r) \in Seq(Rows) /\ Len(Append(data[g], r)) = Len(data[g]) + 1
  BY <1>1, AppendProperties
<1>3. data' \in [Functors -> Seq(Rows)]
  BY <1>1, <1>2
<1>4. RowTypes'
  BY <1>3 DEF RowTypes, GroupInv
<1>5. \A g \in Functors : data'[g] = IF g \in S THEN Append(data[g], r) ELSE data[g]
  OBVIOUS
<1> QED BY <1>1, <1>2, <1>4, <1>5

LEMMA NothingMoves ==
  ASSUME RowTypes, NEW f \in Functors, Kind[f] \notin {"raw", "stream", "concat"},
         UNCHANGED dataVars
  PROVE  RowTypes' /\ Moves(f, FALSE)
<1>1. data' = data /\ index' = index /\ row' = row /\ group' = group /\ sorted' = sorted
  BY DEF dataVars
<1>2. RowTypes'
  BY <1>1 DEF RowTypes, GroupInv
<1>3. \A g \in Functors : Len(data[g]) \in Nat
  BY LenProperties DEF RowTypes
<1> QED BY <1>1, <1>2, <1>3 DEF Moves

LEMMA SplitMoves ==
  ASSUME RowTypes, OnOffer, NEW f \in Functors, NEW ok, NEW used, SplitProcess(f, ok, used)
  PROVE  RowTypes' /\ Moves(f, ok)
<1> DEFINE r == OutputValue(Up(f))
<1>1. /\ Kind[f] = "split" /\ ok = (Live(f) # {})
      /\ data' = [g \in Functors |-> IF ok /\ g \in Streams(f) THEN Append(data[g], r) ELSE data[g]]
      /\ index' = index /\ row' = row /\ group' = group /\ sorted' = sorted
  BY DEF SplitProcess
<1>2. CASE ok
  <2>1. r \in Rows
    BY <1>1, <1>2, OneInput DEF OnOffer
  <2>2. \A g \in Functors : Kind[g] = "stream" /\ Up(g) = f => g \in Streams(f)
    <3> SUFFICES ASSUME NEW g \in Functors, Kind[g] = "stream", Up(g) = f PROVE Pred[g] = <<f>>
      BY DEF Streams
    <3>1. Pred[g] \in Seq(Functors) /\ Len(Pred[g]) = 1 /\ Pred[g][1] = f
      BY GraphAssumption, BuildAssumption DEF Up
    <3> QED BY <3>1
  <2>3. Streams(f) \in SUBSET Functors /\ \A g \in Streams(f) : Kind[g] = "stream"
    BY DEF Streams
  <2> DEFINE S == Streams(f)
  <2> HIDE DEF r, S
  <2>4. data' = [g \in Functors |-> IF g \in S THEN Append(data[g], r) ELSE data[g]]
    BY <1>1, <1>2 DEF S
  <2>5. S \in SUBSET Functors
    BY <2>3 DEF S
  <2>6. /\ RowTypes'
        /\ \A g \in S : Len(data'[g]) = Len(data[g]) + 1
        /\ \A g \in Functors : Len(data[g]) \in Nat /\ Len(data'[g]) >= Len(data[g])
    BY <1>1, <2>1, <2>4, <2>5, VectorsGrow
  <2>7. \A g \in Functors : Kind[g] = "raw" => data'[g] = data[g]
    BY <2>3, <2>4 DEF S
  <2>8. \A g \in Functors : Kind[g] = "stream" /\ Up(g) = f => Len(data'[g]) > Len(data[g])
    BY <2>2, <2>6 DEF S
  <2> QED BY <1>1, <2>6, <2>7, <2>8 DEF Moves
<1>3. CASE ~ok
  <2>1. data \in [Functors -> Seq(Rows)]
    BY DEF RowTypes
  <2>2. data' = data
    BY <1>1, <1>3, <2>1
  <2>3. UNCHANGED dataVars /\ ok = FALSE
    BY <1>1, <1>3, <2>2 DEF dataVars
  <2> QED BY <1>1, <2>3, NothingMoves
<1> QED BY <1>2, <1>3

LEMMA OutputMoves ==
  ASSUME RowTypes, OnOffer, NEW f \in Functors, NEW ok, NEW used, OutputProcess(f, ok, used)
  PROVE  RowTypes' /\ Moves(f, ok)
<1> DEFINE r == OutputValue(Up(f))
<1>1. /\ Kind[f] = "output" /\ ok = (Live(f) # {})
      /\ data' = IF ok THEN [data EXCEPT ![f] = Append(data[f], r)] ELSE data
      /\ index' = index /\ row' = row /\ group' = group /\ sorted' = sorted
  BY DEF OutputProcess
<1>2. CASE ok
  <2>1. r \in Rows
    BY <1>1, <1>2, OneInput DEF OnOffer
  <2> HIDE DEF r
  <2>2. data \in [Functors -> Seq(Rows)]
    BY DEF RowTypes
  <2>3. data' = [g \in Functors |-> IF g \in {f} THEN Append(data[g], r) ELSE data[g]]
    BY <1>1, <1>2, <2>2
  <2>4. /\ RowTypes'
        /\ \A g \in Functors : Len(data[g]) \in Nat /\ Len(data'[g]) >= Len(data[g])
    BY <1>1, <2>1, <2>3, VectorsGrow
  <2>5. \A g \in Functors : Kind[g] = "raw" => data'[g] = data[g]
    BY <1>1, <2>3
  <2> QED BY <1>1, <2>4, <2>5 DEF Moves
<1>3. CASE ~ok
  BY <1>1, <1>3, NothingMoves DEF dataVars
<1> QED BY <1>2, <1>3

\* A row more in a group, and what the group yields.
LEMMA AggregateIs ==
  ASSUME NEW agg \in {"sum", "avg", "max", "min", "count"},
         NEW a \in [value : Nat, count : Nat], NEW n \in Nat
  PROVE  /\ Aggregate(agg, a, n) \in [value : Nat, count : Nat]
         /\ Aggregate(agg, a, n).count > 0
<1>1. a.value \in Nat /\ a.count \in Nat
  OBVIOUS
<1> DEFINE v == CASE agg \in {"sum", "avg"} -> a.value + n
                  [] agg = "max"            -> IF a.value > n THEN a.value ELSE n
                  [] agg = "min"            -> IF a.value < n THEN a.value ELSE n
                  [] agg = "count"          -> a.value + 1
<1>2. v \in Nat
  BY <1>1
<1>3. Aggregate(agg, a, n) = [value |-> v, count |-> a.count + 1]
  BY DEF Aggregate
<1> HIDE DEF v
<1> QED BY <1>1, <1>2, <1>3

LEMMA ResultIs ==
  ASSUME NEW agg, NEW a \in [value : Nat, count : Nat], a.count > 0
  PROVE  Result(agg, a) \in Nat
<1>1. a.value \in Nat /\ a.count \in Nat \ {0}
  OBVIOUS
<1>2. a.value \div a.count \in Nat
  BY <1>1
<1> QED BY <1>1, <1>2 DEF Result

LEMMA GroupMoves ==
  ASSUME RowTypes, OnOffer, NEW f \in Functors, NEW ok, NEW used, GroupProcess(f, ok, used)
  PROVE  RowTypes' /\ Moves(f, ok)
<1> DEFINE agg  == Aggregator[f]
           g    == group[f]
           next == OutputValue(Up(f))
           same == g.on /\ g.last = next.k
           acc  == Aggregate(agg, IF same THEN g.acc ELSE Begin, next.n)
           Group == [on : BOOLEAN, last : Nat, acc : [value : Nat, count : Nat]]
<1>1. /\ Kind[f] = "group" /\ agg \in {"sum", "avg", "max", "min", "count"}
      /\ data' = data /\ index' = index /\ sorted' = sorted
      /\ ok = ClosesGroup(f)
  BY KindAssumption DEF GroupProcess
<1>2. g \in Group /\ row[f] \in Rows
  BY DEF RowTypes
<1>3. group' \in [Functors -> Group] /\ row' \in [Functors -> Rows]
      /\ \A h \in Functors : group'[h].on => group'[h].acc.count > 0
  <2>1. /\ group \in [Functors -> Group] /\ row \in [Functors -> Rows]
        /\ \A h \in Functors : group[h].on => group[h].acc.count > 0
    BY DEF RowTypes, GroupInv
  <2>2. ok => g.on
    BY <1>1 DEF ClosesGroup
  <2>3. ok => Result(agg, g.acc) \in Nat
    <3> SUFFICES ASSUME ok PROVE Result(agg, g.acc) \in Nat
      OBVIOUS
    <3>1. g.acc \in [value : Nat, count : Nat] /\ g.acc.count > 0
      BY <1>2, <2>1, <2>2
    <3> HIDE DEF g, agg
    <3> QED BY <3>1, ResultIs
  <2>4. CASE Live(f) = {}
    <3>1. /\ group' = [group EXCEPT ![f].on = FALSE]
          /\ row' = IF ok THEN [row EXCEPT ![f].n = Result(agg, g.acc)] ELSE row
      BY <2>4 DEF GroupProcess
    <3> DEFINE res == Result(agg, g.acc)
    <3>2. /\ group' = [group EXCEPT ![f] = [g EXCEPT !.on = FALSE]]
          /\ row' = IF ok THEN [row EXCEPT ![f] = [row[f] EXCEPT !.n = res]] ELSE row
      BY <3>1
    <3>3. [g EXCEPT !.on = FALSE] \in Group /\ ~ [g EXCEPT !.on = FALSE].on
      BY <1>2
    <3> HIDE DEF res, agg, g, Group
    <3>4. ok => [row[f] EXCEPT !.n = res] \in Rows
      BY <1>2, <2>3 DEF Rows, res
    <3>5. row' \in [Functors -> Rows]
      BY <2>1, <3>2, <3>4
    <3> DEFINE new == [g EXCEPT !.on = FALSE]
    <3> HIDE DEF new
    <3>6. group' = [group EXCEPT ![f] = new] /\ new \in Group /\ ~ new.on
      BY <3>2, <3>3 DEF new
    <3>7. group' \in [Functors -> Group] /\ \A h \in Functors : group'[h] = IF h = f THEN new ELSE group[h]
      BY <2>1, <3>6
    <3> QED BY <2>1, <3>5, <3>6, <3>7
  <2>5. CASE Live(f) # {}
    <3>1. next \in Rows
      BY <1>1, <2>5, OneInput DEF OnOffer
    <3>2. next.k \in Nat /\ next.n \in Nat
      BY <3>1 DEF Rows
    <3> DEFINE new == [on |-> TRUE, last |-> next.k, acc |-> acc]
               r   == [k |-> next.k, n |-> IF ok THEN Result(agg, g.acc) ELSE row[f].n]
    <3>3. /\ group' = [group EXCEPT ![f] = new]
          /\ row' = IF same THEN row ELSE [row EXCEPT ![f] = r]
      BY <2>5 DEF GroupProcess
    <3>4. acc \in [value : Nat, count : Nat] /\ acc.count > 0
      <4> DEFINE a == IF same THEN g.acc ELSE Begin
      <4>1. a \in [value : Nat, count : Nat]
        BY <1>2 DEF Begin
      <4> HIDE DEF a, same, g, agg, next
      <4>2. /\ Aggregate(agg, a, next.n) \in [value : Nat, count : Nat]
            /\ Aggregate(agg, a, next.n).count > 0
        BY <1>1, <3>2, <4>1, AggregateIs
      <4> QED BY <4>2 DEF a
    <3> HIDE DEF acc, next
    <3>5. new \in Group /\ new.on /\ new.acc.count > 0
      BY <3>2, <3>4
    <3>6. r \in Rows
      BY <1>2, <2>3, <3>2 DEF Rows
    <3> HIDE DEF new, r, Group, same
    <3>7. group' \in [Functors -> Group] /\ \A h \in Functors : group'[h] = IF h = f THEN new ELSE group[h]
      BY <2>1, <3>3, <3>5
    <3>8. row' \in [Functors -> Rows]
      BY <2>1, <3>3, <3>6
    <3> QED BY <2>1, <3>5, <3>7, <3>8
  <2> QED BY <2>4, <2>5
<1> HIDE DEF agg, g
<1>4. RowTypes'
  BY <1>1, <1>3 DEF RowTypes, GroupInv
<1>5. \A h \in Functors : Len(data[h]) \in Nat
  BY LenProperties DEF RowTypes
<1> QED BY <1>1, <1>4, <1>5 DEF Moves

\* The kinds of a pipeline without the functors of doc_example.
Library(f) == Kind[f] \notin {"hash", "history", "distance", "top", "sort"}

LEMMA ProcessMoves ==
  ASSUME RowTypes, OnOffer, NEW f \in Functors, Library(f), NEW ok, NEW used, Process(f, ok, used)
  PROVE  RowTypes' /\ Moves(f, ok)
<1>1. ~ QueryProcess(f, ok, used)
  BY DEF Library, QueryProcess, HashProcess, HistoryProcess, DistanceProcess, TopProcess, SortProcess
<1> QED BY <1>1, RawMoves, FilterMoves, ConcatMoves, UnionMoves, IntersectionMoves, DifferenceMoves,
           SplitMoves, GroupMoves, OutputMoves DEF Process

-----------------------------------------------------------------------------
(***************************************************************************)
(* The types of a pipeline, and the places of its vectors.                 *)
(***************************************************************************)

\* Where the indices are.
Indexed ==
  \A f \in Functors :
    /\ Kind[f] = "concat" => index[f] \in 0 .. Len(Pred[f])
    /\ Kind[f] \in {"raw", "stream"} =>
         /\ index[f] \in -1 .. Len(data[f])
         /\ hasValue[f] => index[f] \in 0 .. Len(data[f]) - 1
         /\ status[f] # "end" => index[f] < Len(data[f])

LEMMA InvGives ==
  ASSUME NEW D, Plain(D), PipelineInv(D)
  PROVE  /\ Tree(D) /\ TreeInv(D) /\ EngineInv /\ TypeOK /\ QueueIsMarked /\ LoopInv /\ StackIsMarked(D)
         /\ AskedInv /\ StreamInv /\ RowTypes /\ Indexed /\ OnOffer
         /\ \A f \in Functors : Library(f) /\ (Kind[f] = "stream" => f \in D)
         /\ Raws \cap Outputs = {}
<1>1. /\ Tree(D) /\ TreeInv(D) /\ EngineInv /\ TypeOK /\ QueueIsMarked /\ LoopInv /\ StackIsMarked(D)
      /\ AskedInv /\ StreamInv
      /\ Raws \cap Outputs = {}
  BY DEF Plain, PipelineInv, TreeInv, EngineInv
<1>2. \A f \in Functors : Library(f) /\ (Kind[f] = "stream" => f \in D)
  BY DEF Plain, Library
<1>3. RowTypes
  BY DEF PipelineInv, PipelineTypeOK, PlacesInv, RowTypes
<1>4. Indexed
  BY DEF PipelineInv, PipelineTypeOK, PlacesInv, Indexed
<1>5. OnOffer
  <2> SUFFICES ASSUME NEW g \in Functors, hasValue[g] PROVE OutputValue(g) \in Rows
    BY DEF OnOffer
  <2>1. CASE Kind[g] \in {"raw", "stream"}
    <3>1. index[g] \in 0 .. Len(data[g]) - 1 /\ data[g] \in Seq(Rows)
      BY <2>1, <1>3, <1>4 DEF Indexed, RowTypes
    <3>2. index[g] + 1 \in 1 .. Len(data[g])
      BY <3>1, LenProperties
    <3>3. data[g][index[g] + 1] \in Rows
      BY <3>1, <3>2, ElementOfSeq
    <3> QED BY <2>1, <3>3 DEF OutputValue
  <2>2. CASE Kind[g] \notin {"raw", "stream"}
    <3>1. OutputValue(g) = row[g]
      BY <2>2, <1>2 DEF OutputValue, Library
    <3> QED BY <3>1, <1>3 DEF RowTypes
  <2> QED BY <2>1, <2>2
<1> QED BY <1>1, <1>2, <1>3, <1>4, <1>5

LEMMA InvFrom ==
  ASSUME NEW D, Plain(D), TreeInv(D)', RowTypes', Indexed', AskedInv', StreamInv'
  PROVE  PipelineInv(D)'
<1>1. \A f \in Functors : Kind[f] \notin {"top", "sort", "history"}
  BY DEF Plain
<1>2. TypeOK'
  BY DEF TreeInv, EngineInv
<1>3. PipelineTypeOK'
  BY <1>1, <1>2 DEF PipelineTypeOK, RowTypes, Indexed
<1>4. PlacesInv' /\ GroupInv'
  BY DEF PlacesInv, RowTypes, Indexed
<1> QED BY <1>3, <1>4 DEF PipelineInv

\* A process() of f keeps the places, if a vector that yields nothing ends.
LEMMA IndexedKept ==
  ASSUME RowTypes, Indexed, NEW f \in Functors, NEW ok, Moves(f, ok), RowTypes',
         \A g \in Functors : g # f => (hasValue'[g] => hasValue[g]),
         \A g \in Functors : g # f /\ status[g] = "end" => status'[g] = "end",
         Kind[f] \in {"raw", "stream"} =>
           status[f] # "end" /\ (~ok => ~hasValue'[f] /\ status'[f] = "end")
  PROVE  Indexed'
<1> SUFFICES ASSUME NEW g \in Functors
             PROVE  /\ Kind[g] = "concat" => index'[g] \in 0 .. Len(Pred[g])
                    /\ Kind[g] \in {"raw", "stream"} =>
                         /\ index'[g] \in -1 .. Len(data'[g])
                         /\ hasValue'[g] => index'[g] \in 0 .. Len(data'[g]) - 1
                         /\ status'[g] # "end" => index'[g] < Len(data'[g])
  BY DEF Indexed
<1>1. Len(data[g]) \in Nat /\ Len(data'[g]) \in Nat /\ index[g] \in Int
      /\ data[g] \in Seq(Rows)
  BY LenProperties DEF RowTypes
<1>2. CASE g # f
  <2>1. index'[g] = index[g]
    BY <1>2 DEF Moves
  <2>2. Kind[g] \in {"raw", "stream"} => Len(data'[g]) >= Len(data[g])
    BY <1>1 DEF Moves
  <2>3. /\ Kind[g] = "concat" => index[g] \in 0 .. Len(Pred[g])
        /\ Kind[g] \in {"raw", "stream"} =>
             /\ index[g] \in -1 .. Len(data[g])
             /\ hasValue[g] => index[g] \in 0 .. Len(data[g]) - 1
             /\ status[g] # "end" => index[g] < Len(data[g])
    BY DEF Indexed
  <2> QED BY <1>1, <1>2, <2>1, <2>2, <2>3
<1>3. CASE g = f
  <2>1. Kind[g] = "concat" => index'[g] \in 0 .. Len(Pred[g])
    BY <1>3 DEF Moves
  <2>2. ASSUME Kind[g] \in {"raw", "stream"}
        PROVE  /\ index'[g] \in -1 .. Len(data'[g])
               /\ hasValue'[g] => index'[g] \in 0 .. Len(data'[g]) - 1
               /\ status'[g] # "end" => index'[g] < Len(data'[g])
    <3>1. /\ data'[g] = data[g]
          /\ index'[g] = IF data[g] = <<>> THEN index[g] ELSE index[g] + 1
          /\ ok <=> data[g] # <<>> /\ index'[g] < Len(data[g])
      BY <2>2, <1>3 DEF Moves
    <3>2. index[g] \in -1 .. Len(data[g]) /\ index[g] < Len(data[g])
      BY <2>2, <1>3 DEF Indexed
    <3>3. ~ok => ~hasValue'[g] /\ status'[g] = "end"
      BY <2>2, <1>3
    <3> QED BY <1>1, <3>1, <3>2, <3>3
  <2> QED BY <2>1, <2>2
<1> QED BY <1>2, <1>3

\* Streams and their splits.
LEMMA StreamIs ==
  ASSUME NEW D, Plain(D), NEW s \in Functors, Kind[s] = "stream"
  PROVE  /\ s \in D /\ Up(s) \in Functors /\ Inputs(s) = {Up(s)} /\ Up(s) # s
         /\ Kind[Up(s)] = "split" /\ Up(s) \in Sinks
<1>1. Up(s) \in Functors /\ Inputs(s) = {Up(s)}
  BY OneInput
<1>2. Up(s) # s
  BY <1>1, GraphAssumption
<1>3. Kind[Up(s)] \in {"split", "hash"}
  BY BuildAssumption DEF Up
<1>4. Kind[Up(s)] = "split"
  BY <1>1, <1>3 DEF Plain
<1> QED BY <1>1, <1>2, <1>4, KindAssumption DEF Plain

LEMMA ExtractKeeps ==
  ASSUME NEW D, Plain(D), PipelineInv(D), phase = "bfs", Extractor(Head(queue)), Extract
  PROVE  PipelineInv(D)'
<1> DEFINE f == Head(queue)
<1>1. PICK ok \in BOOLEAN : Process(f, ok, {}) /\ BfsExtractor(ok)
  BY DEF Extract
<1>2. /\ Tree(D) /\ TreeInv(D) /\ EngineInv /\ TypeOK /\ QueueIsMarked /\ LoopInv
      /\ AskedInv /\ StreamInv /\ RowTypes /\ Indexed /\ OnOffer
      /\ \A g \in Functors : Library(g)
  BY InvGives
<1>3. queue # <<>> /\ f \in Functors /\ status[f] = "to_p"
  BY <1>2, QueueHead DEF LoopInv
<1>4. /\ stack' = stack /\ queue' = Tail(queue)
      /\ status' = [status EXCEPT ![f] = IF ok THEN "null" ELSE "end"]
      /\ hasValue' = IF ok THEN [hasValue EXCEPT ![f] = f \notin Sinks] ELSE hasValue
  BY <1>1 DEF BfsExtractor, DoneValue
<1>5. Elements(queue) = Elements(queue') \cup {f}
  BY <1>2, <1>3, <1>4, TailElements DEF TypeOK
<1>6. Kind[f] = "raw" /\ f \in Raws /\ f \notin Sinks
  BY <1>3, KindAssumption DEF Raws
<1>7. ~ hasValue[f]
  BY <1>2, <1>3, <1>6 DEF AskedInv
<1>8. RowTypes' /\ Moves(f, ok)
  BY <1>1, <1>2, <1>3, ProcessMoves
<1>9. TreeInv(D)'
  <2>1. [Next]_vars
    BY <1>1 DEF Next, Bfs
  <2> QED BY <2>1, <1>2, TreeStep
<1> HIDE DEF f
<1>10. /\ \A g \in Functors : g # f => (hasValue'[g] => hasValue[g])
       /\ \A g \in Functors : g # f => status'[g] = status[g]
       /\ status'[f] = (IF ok THEN "null" ELSE "end")
       /\ ~ok => ~hasValue'[f]
  BY <1>2, <1>3, <1>4, <1>7 DEF TypeOK
<1>11. Indexed'
  BY <1>2, <1>3, <1>8, <1>10, IndexedKept
<1>12. AskedInv'
  BY <1>2, <1>4, <1>6, <1>10, KindAssumption DEF AskedInv, Raws
<1>13. StreamInv'
  <2> SUFFICES ASSUME NEW i \in DOMAIN stack, Kind[stack[i]] = "stream"
               PROVE  \/ index'[stack[i]] + 1 < Len(data'[stack[i]])
                      \/ status'[Up(stack[i])] = "end"
                      \/ Up(stack[i]) \in Elements(queue')
                      \/ \E j \in DOMAIN stack : j < i /\ stack[j] = Up(stack[i])
    BY <1>4 DEF StreamInv
  <2> DEFINE s == stack[i]
  <2>1. s \in Functors
    BY <1>2, ElementOfSeq, LenProperties DEF TypeOK
  <2>2. /\ s # f /\ Up(s) # f /\ Up(s) \in Functors
    BY <2>1, <1>6, StreamIs
  <2>3. index'[s] = index[s] /\ data' = data /\ status'[Up(s)] = status[Up(s)]
    BY <2>1, <2>2, <1>6, <1>8, <1>10 DEF Moves
  <2> QED BY <2>2, <2>3, <1>2, <1>5 DEF StreamInv
<1> QED BY <1>8, <1>9, <1>11, <1>12, <1>13, InvFrom

LEMMA DescendKeeps ==
  ASSUME NEW D, Plain(D), PipelineInv(D), Descend
  PROVE  PipelineInv(D)'
<1> DEFINE f == Head(queue)
           W == Wanted(f, hasValue)
<1>1. BfsProcessor /\ UNCHANGED dataVars
  BY DEF Descend
<1>2. /\ Tree(D) /\ TreeInv(D) /\ EngineInv /\ TypeOK /\ QueueIsMarked /\ LoopInv
      /\ AskedInv /\ StreamInv /\ RowTypes /\ Indexed
  BY InvGives
<1>3. /\ phase = "bfs" /\ ~Extractor(f) /\ stack' = <<f>> \o stack /\ hasValue' = hasValue
      /\ status' = [g \in Functors |-> IF g \in W THEN "to_p" ELSE IF g = f THEN "p" ELSE status[g]]
  BY <1>1 DEF BfsProcessor
<1>4. queue # <<>> /\ f \in Functors /\ status[f] = "to_p"
  BY <1>2, <1>3, QueueHead DEF LoopInv
<1>5. W = {g \in Inputs(f) : ~hasValue[g] /\ status[g] \notin {"to_p", "end"}}
  BY DEF Wanted
<1>6. TreeInv(D)'
  <2>1. [Next]_vars
    BY <1>1 DEF Next, Bfs
  <2> QED BY <2>1, <1>2, TreeStep
<1>7. QueueIsMarked' /\ Kind[f] # "raw"
  BY <1>3, <1>4, <1>6, KindAssumption DEF TreeInv, EngineInv
<1> HIDE DEF f, W
<1>8. \A g \in Functors : status'[g] = "end" <=> status[g] = "end"
  BY <1>3, <1>4, <1>5
<1>9. RowTypes' /\ Indexed'
  BY <1>1, <1>2, <1>3, <1>8 DEF dataVars, RowTypes, GroupInv, Indexed
<1>10. /\ DOMAIN stack' = 1 .. Len(stack) + 1 /\ stack'[1] = f
       /\ \A i \in DOMAIN stack : i + 1 \in DOMAIN stack' /\ stack'[i + 1] = stack[i]
       /\ \A i \in DOMAIN stack' : i = 1 \/ (i - 1 \in DOMAIN stack /\ stack'[i] = stack[i - 1])
       /\ Elements(stack') = Elements(stack) \cup {f}
  BY <1>2, <1>3, <1>4, PushElements DEF TypeOK
<1>11. AskedInv'
  <2>1. \A g \in Elements(stack') : Kind[g] # "raw"
    BY <1>2, <1>7, <1>10 DEF AskedInv
  <2>2. ASSUME NEW r \in Raws, status'[r] = "to_p" PROVE ~hasValue'[r]
    <3>1. r \in Functors /\ r # f
      BY <1>7 DEF Raws
    <3>2. r \in W \/ status[r] = "to_p"
      BY <2>2, <3>1, <1>3
    <3> QED BY <3>2, <1>2, <1>3, <1>5 DEF AskedInv
  <2>3. \A g \in Sinks : ~hasValue'[g]
    BY <1>2, <1>3 DEF AskedInv
  <2> QED BY <2>1, <2>2, <2>3 DEF AskedInv
<1>12. \A g \in Functors : g \in Elements(queue) => g = f \/ g \in Elements(queue')
  <2>1. \A g \in Functors : g \in Elements(queue) => status[g] = "to_p"
    BY <1>2 DEF QueueIsMarked
  <2>2. \A g \in Functors : status'[g] = "to_p" => g \in Elements(queue')
    BY <1>7 DEF QueueIsMarked
  <2> QED BY <2>1, <2>2, <1>3
<1>13. StreamInv'
  <2> SUFFICES ASSUME NEW i \in DOMAIN stack', Kind[stack'[i]] = "stream"
               PROVE  \/ index'[stack'[i]] + 1 < Len(data'[stack'[i]])
                      \/ status'[Up(stack'[i])] = "end"
                      \/ Up(stack'[i]) \in Elements(queue')
                      \/ \E j \in DOMAIN stack' : j < i /\ stack'[j] = Up(stack'[i])
    BY DEF StreamInv
  <2>1. Len(stack) \in Nat /\ DOMAIN stack = 1 .. Len(stack) /\ \A j \in DOMAIN stack : stack[j] \in Functors
    BY <1>2, LenProperties, ElementOfSeq DEF TypeOK
  <2>2. CASE i = 1
    <3> DEFINE u == Up(f)
    <3>1. /\ stack'[i] = f /\ u \in Functors /\ Inputs(f) = {u} /\ u # f /\ u \in Sinks
      BY <2>2, <1>4, <1>10, StreamIs
    <3>2. ~hasValue[u]
      BY <1>2, <3>1 DEF AskedInv
    <3> HIDE DEF u
    <3>3. CASE status[u] = "end"
      BY <3>1, <3>3, <1>8 DEF u
    <3>4. CASE status[u] # "end"
      <4>1. status'[u] = "to_p"
        BY <3>1, <3>2, <3>4, <1>3, <1>5
      <4> QED BY <3>1, <4>1, <1>7 DEF QueueIsMarked, u
    <3> QED BY <3>3, <3>4
  <2>3. CASE i # 1
    <3> DEFINE m == i - 1
               s == stack[m]
    <3>1. m \in DOMAIN stack /\ stack'[i] = s /\ m \in Nat /\ i = m + 1
      BY <2>1, <2>3, <1>10
    <3>2. Kind[s] = "stream" /\ s \in Functors /\ Up(s) \in Functors
      BY <2>1, <3>1, StreamIs
    <3>3. index' = index /\ data' = data
      BY <1>1 DEF dataVars
    <3> HIDE DEF m
    <3>4. \/ index[s] + 1 < Len(data[s])
          \/ status[Up(s)] = "end"
          \/ Up(s) \in Elements(queue)
          \/ \E j \in DOMAIN stack : j < m /\ stack[j] = Up(s)
      BY <3>1, <3>2, <1>2 DEF StreamInv
    <3> HIDE DEF s
    <3>5. CASE index[s] + 1 < Len(data[s]) \/ status[Up(s)] = "end"
      BY <3>1, <3>2, <3>3, <3>5, <1>8
    <3>6. CASE Up(s) \in Elements(queue)
      <4>1. 1 \in DOMAIN stack' /\ 1 < i
        BY <2>1, <3>1, <1>10
      <4> QED BY <3>1, <3>2, <3>6, <4>1, <1>10, <1>12
    <3>7. ASSUME NEW j \in DOMAIN stack, j < m, stack[j] = Up(s)
          PROVE  \E k \in DOMAIN stack' : k < i /\ stack'[k] = Up(s)
      <4>1. j + 1 \in DOMAIN stack' /\ j + 1 < i /\ stack'[j + 1] = Up(s)
        BY <2>1, <3>1, <3>7, <1>10
      <4> QED BY <4>1
    <3> QED BY <3>1, <3>4, <3>5, <3>6, <3>7
  <2> QED BY <2>2, <2>3
<1> QED BY <1>6, <1>9, <1>11, <1>13, InvFrom

\* What a pop finds: the functor on top of the stack is no raw_data, and if it is
\* a stream it is stacked once and has not ended.
LEMMA PopFinds ==
  ASSUME NEW D, Plain(D), PipelineInv(D), phase = "pop"
  PROVE  /\ queue = <<>> /\ Elements(queue) = {} /\ stack \in Seq(Functors) /\ stack # <<>>
         /\ Len(stack) \in Nat /\ DOMAIN stack = 1 .. Len(stack) /\ 1 \in DOMAIN stack
         /\ \A j \in DOMAIN stack : stack[j] \in Functors
         /\ Head(stack) = stack[1] /\ Head(stack) \in Functors /\ Kind[Head(stack)] # "raw"
         /\ \A i \in DOMAIN stack : Kind[stack[i]] = "stream" =>
              /\ status[stack[i]] = "p"
              /\ stack[i] = Head(stack) => i = 1
<1>1. /\ EngineInv /\ TypeOK /\ AskedInv /\ StackIsMarked(D)
      /\ \A g \in Functors : Kind[g] = "stream" => g \in D
  BY InvGives
<1>2. queue = <<>> /\ stack # <<>> /\ stack \in Seq(Functors) /\ Head(stack) \in Functors
  BY <1>1, StackHead DEF TypeOK
<1>3. Elements(queue) = {}
  BY <1>2 DEF Elements
<1>4. Len(stack) \in Nat /\ DOMAIN stack = 1 .. Len(stack) /\ 1 \in DOMAIN stack /\ Head(stack) = stack[1]
      /\ \A j \in DOMAIN stack : stack[j] \in Functors
  BY <1>2, TailElements, LenProperties, ElementOfSeq
<1>5. \A j \in DOMAIN stack : stack[j] \in Elements(stack)
  BY DEF Elements
<1>6. Kind[Head(stack)] # "raw"
  BY <1>1, <1>4, <1>5 DEF AskedInv
<1>7. ASSUME NEW i \in DOMAIN stack, Kind[stack[i]] = "stream"
      PROVE  status[stack[i]] = "p" /\ (stack[i] = Head(stack) => i = 1)
  BY <1>1, <1>4, <1>5, <1>7 DEF StackIsMarked
<1> QED BY <1>2, <1>3, <1>4, <1>6, <1>7

\* A stream whose split has delivered, or which had something to read, keeps it.
LEMMA StackedStreamKept ==
  ASSUME NEW D, Plain(D), PipelineInv(D), phase = "pop",
         NEW ok, Moves(Head(stack), ok), RowTypes',
         NEW i \in DOMAIN stack, i # 1, Kind[stack[i]] = "stream"
  PROVE  \/ index'[stack[i]] + 1 < Len(data'[stack[i]])
         \/ status[Up(stack[i])] = "end" /\ ~(ok /\ Up(stack[i]) = Head(stack))
         \/ ~ok /\ Up(stack[i]) = Head(stack)
         \/ Up(stack[i]) # Head(stack) /\ \E j \in DOMAIN stack : 1 < j /\ j < i /\ stack[j] = Up(stack[i])
<1> DEFINE f == Head(stack)
           s == stack[i]
<1>1. /\ queue = <<>> /\ Elements(queue) = {} /\ Len(stack) \in Nat /\ DOMAIN stack = 1 .. Len(stack)
      /\ f = stack[1] /\ f \in Functors /\ s \in Functors /\ s # f /\ status[s] = "p"
  BY PopFinds
<1>2. RowTypes /\ Indexed /\ StreamInv
  BY InvGives
<1>3. /\ Up(s) \in Functors /\ Kind[Up(s)] = "split"
  BY <1>1, StreamIs
<1>4. /\ index'[s] = index[s] /\ Len(data'[s]) >= Len(data[s])
      /\ f = Up(s) /\ ok => Len(data'[s]) > Len(data[s])
  BY <1>1, <1>3 DEF Moves
<1>5. index[s] \in Int /\ index[s] < Len(data[s]) /\ Len(data[s]) \in Nat /\ Len(data'[s]) \in Nat
  BY <1>1, <1>2, LenProperties DEF Indexed, RowTypes
<1>6. \/ index[s] + 1 < Len(data[s])
      \/ status[Up(s)] = "end"
      \/ \E j \in DOMAIN stack : j < i /\ stack[j] = Up(s)
  BY <1>1, <1>2 DEF StreamInv
<1>7. \A j \in DOMAIN stack : j = 1 \/ 1 < j
  BY <1>1
<1> HIDE DEF f, s
<1>8. CASE f = Up(s) /\ ok
  BY <1>4, <1>5, <1>8 DEF s
<1>9. CASE f = Up(s) /\ ~ok
  BY <1>9 DEF f, s
<1>10. CASE f # Up(s)
  <2>1. CASE index[s] + 1 < Len(data[s])
    BY <1>4, <1>5, <2>1 DEF s
  <2>2. CASE status[Up(s)] = "end"
    BY <1>10, <2>2 DEF f, s
  <2>3. ASSUME NEW j \in DOMAIN stack, j < i, stack[j] = Up(s)
        PROVE  1 < j
    BY <1>1, <1>7, <1>10, <2>3
  <2> QED BY <1>6, <1>10, <2>1, <2>2, <2>3 DEF f, s
<1> QED BY <1>8, <1>9, <1>10

LEMMA SucceedKeeps ==
  ASSUME NEW D, Plain(D), PipelineInv(D), phase = "pop", Succeed
  PROVE  PipelineInv(D)'
<1> DEFINE f == Head(stack)
<1>1. PICK used \in SUBSET Inputs(f) : Process(f, TRUE, used) /\ PopSuccess(used)
  BY DEF Succeed
<1>2. /\ Tree(D) /\ TreeInv(D) /\ EngineInv /\ TypeOK /\ AskedInv /\ RowTypes /\ Indexed /\ OnOffer
      /\ \A g \in Functors : Library(g)
  BY InvGives
<1>3. /\ queue = <<>> /\ stack \in Seq(Functors) /\ stack # <<>> /\ 1 \in DOMAIN stack
      /\ f = stack[1] /\ f \in Functors /\ Kind[f] # "raw"
      /\ Kind[f] = "stream" => status[f] = "p"
      /\ Len(stack) \in Nat /\ DOMAIN stack = 1 .. Len(stack)
  BY PopFinds
<1>4. /\ stack' = Tail(stack) /\ queue' = queue /\ status' = [status EXCEPT ![f] = "null"]
      /\ hasValue' = [Consume(hasValue, used) EXCEPT ![f] = f \notin Sinks]
  BY <1>1 DEF PopSuccess, DoneValue
<1>5. /\ DOMAIN stack' = 1 .. Len(stack) - 1
      /\ \A i \in DOMAIN stack' : stack'[i] = stack[i + 1] /\ i + 1 \in DOMAIN stack
      /\ Elements(stack) = Elements(stack') \cup {f}
  BY <1>3, <1>4, TailElements
<1>6. used \in SUBSET Functors
  BY <1>3, InputsAre
<1>7. RowTypes' /\ Moves(f, TRUE)
  BY <1>1, <1>2, <1>3, ProcessMoves
<1>8. TreeInv(D)'
  <2>1. [Next]_vars
    BY <1>1, <1>6 DEF Next, Pop
  <2> QED BY <2>1, <1>2, TreeStep
<1>9. /\ \A g \in Functors : g # f => (hasValue'[g] => hasValue[g])
      /\ \A g \in Functors : g # f => status'[g] = status[g]
      /\ status'[f] = "null" /\ hasValue'[f] = (f \notin Sinks)
  BY <1>2, <1>3, <1>4 DEF TypeOK, Consume
<1> HIDE DEF f
<1>10. Indexed'
  BY <1>2, <1>3, <1>7, <1>9, IndexedKept
<1>11. AskedInv'
  <2>1. \A g \in Elements(stack') : Kind[g] # "raw"
    BY <1>2, <1>5 DEF AskedInv
  <2>2. \A r \in Raws : status'[r] = "to_p" => ~hasValue'[r]
    BY <1>2, <1>3, <1>9 DEF AskedInv, Raws
  <2>3. \A g \in Sinks : ~hasValue'[g]
    BY <1>2, <1>9, GraphAssumption DEF AskedInv
  <2> QED BY <2>1, <2>2, <2>3 DEF AskedInv
<1>12. StreamInv'
  <2> SUFFICES ASSUME NEW i \in DOMAIN stack', Kind[stack'[i]] = "stream"
               PROVE  \/ index'[stack'[i]] + 1 < Len(data'[stack'[i]])
                      \/ status'[Up(stack'[i])] = "end"
                      \/ \E j \in DOMAIN stack' : j < i /\ stack'[j] = Up(stack'[i])
    BY DEF StreamInv
  <2> DEFINE m == i + 1
             s == stack[m]
  <2>1. m \in DOMAIN stack /\ m # 1 /\ stack'[i] = s /\ i \in Nat /\ m = i + 1 /\ m \in Nat
    BY <1>3, <1>5
  <2>2. Kind[s] = "stream" /\ s \in Functors /\ Up(s) \in Functors
    BY <2>1, PopFinds, StreamIs
  <2> HIDE DEF m
  <2>3. \/ index'[s] + 1 < Len(data'[s])
        \/ status[Up(s)] = "end" /\ Up(s) # f
        \/ \E j \in DOMAIN stack : 1 < j /\ j < m /\ stack[j] = Up(s)
    BY <1>7, <2>1, <2>2, StackedStreamKept DEF f
  <2> HIDE DEF s
  <2>4. CASE index'[s] + 1 < Len(data'[s])
    BY <2>1, <2>4
  <2>5. CASE status[Up(s)] = "end" /\ Up(s) # f
    BY <2>1, <2>2, <2>5, <1>9
  <2>6. ASSUME NEW j \in DOMAIN stack, 1 < j, j < m, stack[j] = Up(s)
        PROVE  \E k \in DOMAIN stack' : k < i /\ stack'[k] = Up(s)
    <3>1. j - 1 \in DOMAIN stack' /\ j - 1 < i /\ (j - 1) + 1 = j
      BY <2>1, <2>6, <1>3, <1>5
    <3>2. stack'[j - 1] = stack[j]
      BY <3>1, <1>5
    <3> QED BY <3>1, <3>2, <2>6
  <2> QED BY <2>1, <2>3, <2>4, <2>5, <2>6
<1> QED BY <1>7, <1>8, <1>10, <1>11, <1>12, InvFrom

\* A process() that fails of a stream: its split has ended, and nothing is wanted.
LEMMA StreamFails ==
  ASSUME NEW D, Plain(D), PipelineInv(D), phase = "pop", Kind[Head(stack)] = "stream",
         Moves(Head(stack), FALSE), NEW has
  PROVE  Wanted(Head(stack), has) = {}
<1> DEFINE f == Head(stack)
<1>1. /\ Elements(queue) = {} /\ Len(stack) \in Nat /\ DOMAIN stack = 1 .. Len(stack) /\ 1 \in DOMAIN stack
      /\ f = stack[1] /\ f \in Functors
  BY PopFinds
<1>2. RowTypes /\ Indexed /\ StreamInv
  BY InvGives
<1>3. index[f] \in -1 .. Len(data[f]) /\ Len(data[f]) \in Nat /\ data[f] \in Seq(Rows)
  BY <1>1, <1>2, LenProperties DEF Indexed, RowTypes
<1>4. /\ index'[f] = IF data[f] = <<>> THEN index[f] ELSE index[f] + 1
      /\ ~(data[f] # <<>> /\ index'[f] < Len(data[f]))
  BY DEF Moves
<1>5. ~(index[f] + 1 < Len(data[f]))
  <2>1. data[f] = <<>> => Len(data[f]) = 0
    OBVIOUS
  <2> QED BY <2>1, <1>3, <1>4
<1>6. ~ \E j \in DOMAIN stack : j < 1 /\ stack[j] = Up(f)
  BY <1>1
<1>7. status[Up(f)] = "end"
  BY <1>1, <1>2, <1>5, <1>6 DEF StreamInv
<1>8. Inputs(f) = {Up(f)}
  BY <1>1, StreamIs
<1> QED BY <1>7, <1>8 DEF Wanted

LEMMA FailKeeps ==
  ASSUME NEW D, Plain(D), PipelineInv(D), phase = "pop", Fail
  PROVE  PipelineInv(D)'
<1> DEFINE f == Head(stack)
<1>1. PICK used \in SUBSET Inputs(f) : Process(f, FALSE, used) /\ (PopRetry(used) \/ PopEnd(used))
  BY DEF Fail
<1> DEFINE W == Wanted(f, FailedFlags(f, used))
<1>2. /\ Tree(D) /\ TreeInv(D) /\ EngineInv /\ TypeOK /\ AskedInv /\ RowTypes /\ Indexed /\ OnOffer
      /\ \A g \in Functors : Library(g)
  BY InvGives
<1>3. /\ queue = <<>> /\ stack \in Seq(Functors) /\ stack # <<>> /\ 1 \in DOMAIN stack
      /\ f = stack[1] /\ f \in Functors /\ Kind[f] # "raw"
      /\ Kind[f] = "stream" => status[f] = "p"
      /\ Len(stack) \in Nat /\ DOMAIN stack = 1 .. Len(stack)
      /\ \A j \in DOMAIN stack : stack[j] \in Functors
  BY PopFinds
<1>4. RowTypes' /\ Moves(f, FALSE)
  BY <1>1, <1>2, <1>3, ProcessMoves
<1>5. used \in SUBSET Functors
  BY <1>3, InputsAre
<1>6. TreeInv(D)'
  <2>1. [Next]_vars
    BY <1>1, <1>5 DEF Next, Pop
  <2> QED BY <2>1, <1>2, TreeStep
<1>7. hasValue' = FailedFlags(f, used)
  BY <1>1 DEF PopRetry, PopEnd
<1>8. /\ \A g \in Functors : hasValue'[g] => hasValue[g]
      /\ ~hasValue'[f]
  BY <1>2, <1>3, <1>7 DEF TypeOK, Consume, FailedFlags
<1>9. W = {g \in Inputs(f) : ~hasValue'[g] /\ status[g] \notin {"to_p", "end"}}
  BY <1>7 DEF Wanted
<1>10. ASSUME NEW i \in DOMAIN stack, i # 1, Kind[stack[i]] = "stream"
       PROVE  \/ index'[stack[i]] + 1 < Len(data'[stack[i]])
              \/ status[Up(stack[i])] = "end"
              \/ Up(stack[i]) = f
              \/ Up(stack[i]) # f /\ \E j \in DOMAIN stack : 1 < j /\ j < i /\ stack[j] = Up(stack[i])
  BY <1>4, <1>10, StackedStreamKept
<1>11. CASE PopRetry(used)
  <2>1. /\ stack' = stack /\ W # {}
        /\ status' = [g \in Functors |-> IF g \in W THEN "to_p" ELSE status[g]]
    BY <1>11 DEF PopRetry
  <2>2. Kind[f] # "stream"
    BY <2>1, <1>4, StreamFails
  <2> HIDE DEF f, W
  <2>3. \A g \in Functors : status[g] = "end" => status'[g] = "end"
    BY <2>1, <1>9
  <2>4. Indexed'
    BY <1>2, <1>3, <1>4, <1>8, <2>2, <2>3, IndexedKept
  <2>5. AskedInv'
    <3>1. \A r \in Raws : status'[r] = "to_p" => ~hasValue'[r]
      BY <1>2, <1>8, <1>9, <2>1 DEF AskedInv, Raws
    <3>2. \A g \in Sinks : ~hasValue'[g]
      BY <1>2, <1>8, GraphAssumption DEF AskedInv
    <3> QED BY <3>1, <3>2, <2>1, <1>2 DEF AskedInv
  <2>6. StreamInv'
    <3> SUFFICES ASSUME NEW i \in DOMAIN stack, Kind[stack[i]] = "stream"
                 PROVE  \/ index'[stack[i]] + 1 < Len(data'[stack[i]])
                        \/ status'[Up(stack[i])] = "end"
                        \/ \E j \in DOMAIN stack : j < i /\ stack[j] = Up(stack[i])
      BY <2>1 DEF StreamInv
    <3>1. i # 1 /\ 1 < i
      BY <1>3, <2>2
    <3>2. Up(stack[i]) \in Functors
      BY <1>3, StreamIs
    <3> QED BY <3>1, <3>2, <1>3, <1>10, <2>3
  <2> QED BY <1>4, <1>6, <2>4, <2>5, <2>6, InvFrom
<1>12. CASE PopEnd(used)
  <2>1. stack' = Tail(stack) /\ queue' = queue /\ status' = [status EXCEPT ![f] = "end"]
    BY <1>12 DEF PopEnd
  <2>2. /\ DOMAIN stack' = 1 .. Len(stack) - 1
        /\ \A i \in DOMAIN stack' : stack'[i] = stack[i + 1] /\ i + 1 \in DOMAIN stack
        /\ Elements(stack) = Elements(stack') \cup {f}
    BY <1>3, <2>1, TailElements
  <2> HIDE DEF f, W
  <2>3. /\ \A g \in Functors : g # f => status'[g] = status[g]
        /\ status'[f] = "end"
    BY <1>2, <1>3, <2>1 DEF TypeOK
  <2>4. Indexed'
    BY <1>2, <1>3, <1>4, <1>8, <2>3, IndexedKept
  <2>5. AskedInv'
    <3>1. \A r \in Raws : status'[r] = "to_p" => ~hasValue'[r]
      BY <1>2, <1>8, <2>3 DEF AskedInv, Raws
    <3>2. \A g \in Sinks : ~hasValue'[g]
      BY <1>2, <1>8, GraphAssumption DEF AskedInv
    <3> QED BY <3>1, <3>2, <2>2, <1>2 DEF AskedInv
  <2>6. StreamInv'
    <3> SUFFICES ASSUME NEW i \in DOMAIN stack', Kind[stack'[i]] = "stream"
                 PROVE  \/ index'[stack'[i]] + 1 < Len(data'[stack'[i]])
                        \/ status'[Up(stack'[i])] = "end"
                        \/ \E j \in DOMAIN stack' : j < i /\ stack'[j] = Up(stack'[i])
      BY DEF StreamInv
    <3> DEFINE m == i + 1
               s == stack[m]
    <3>1. m \in DOMAIN stack /\ m # 1 /\ stack'[i] = s /\ i \in Nat /\ m = i + 1 /\ m \in Nat
      BY <1>3, <2>2
    <3>2. Kind[s] = "stream" /\ s \in Functors /\ Up(s) \in Functors
      BY <3>1, <1>3, StreamIs
    <3> HIDE DEF m
    <3>3. \/ index'[s] + 1 < Len(data'[s])
          \/ status[Up(s)] = "end"
          \/ Up(s) = f
          \/ \E j \in DOMAIN stack : 1 < j /\ j < m /\ stack[j] = Up(s)
      BY <3>1, <3>2, <1>10
    <3> HIDE DEF s
    <3>4. CASE index'[s] + 1 < Len(data'[s])
      BY <3>1, <3>4
    <3>5. CASE status[Up(s)] = "end" \/ Up(s) = f
      BY <3>1, <3>2, <3>5, <2>3
    <3>6. ASSUME NEW j \in DOMAIN stack, 1 < j, j < m, stack[j] = Up(s)
          PROVE  \E k \in DOMAIN stack' : k < i /\ stack'[k] = Up(s)
      <4>1. j - 1 \in DOMAIN stack' /\ j - 1 < i /\ (j - 1) + 1 = j
        BY <3>1, <3>6, <1>3, <2>2
      <4>2. stack'[j - 1] = stack[j]
        BY <4>1, <2>2
      <4> QED BY <4>1, <4>2, <3>6
    <3> QED BY <3>1, <3>3, <3>4, <3>5, <3>6
  <2> QED BY <1>4, <1>6, <2>4, <2>5, <2>6, InvFrom
<1> QED BY <1>1, <1>11, <1>12

LEMMA RestartKeeps ==
  ASSUME NEW D, Plain(D), PipelineInv(D), Restart
  PROVE  PipelineInv(D)'
<1>1. /\ Tree(D) /\ TreeInv(D) /\ TypeOK /\ QueueIsMarked /\ LoopInv
      /\ AskedInv /\ StreamInv /\ RowTypes /\ Indexed
      /\ Raws \cap Outputs = {}
  BY InvGives
<1>2. /\ Refill /\ phase = "refill" /\ stack' = stack /\ hasValue' = hasValue
      /\ data' = data /\ index' = index /\ row' = row /\ group' = group /\ sorted' = sorted
  BY DEF Restart, Refill, dataVars
<1>3. TreeInv(D)'
  <2>1. [Next]_vars
    BY <1>2 DEF Next
  <2> QED BY <2>1, <1>1, TreeStep
<1>4. /\ \A g \in Functors : status'[g] = "end" <=> status[g] = "end"
      /\ \A g \in Functors : g \notin Outputs => status'[g] = status[g]
  BY <1>1, <1>2 DEF Refill, OpenOutputs, TypeOK
<1>5. RowTypes' /\ Indexed'
  BY <1>1, <1>2, <1>4 DEF RowTypes, GroupInv, Indexed
<1>6. AskedInv'
  BY <1>1, <1>2, <1>4 DEF AskedInv, Raws
<1>7. StreamInv'
  <2>1. CASE queue = <<>>
    <3>1. stack' = <<>>
      BY <1>1, <1>2, <2>1 DEF LoopInv
    <3>2. DOMAIN stack' = {}
      BY <3>1
    <3> QED BY <3>2 DEF StreamInv
  <2>2. CASE queue # <<>>
    <3>1. queue' = queue /\ status' = status
      BY <1>2, <2>2 DEF Refill
    <3> QED BY <3>1, <1>1, <1>2 DEF StreamInv
  <2> QED BY <2>1, <2>2
<1> QED BY <1>3, <1>5, <1>6, <1>7, InvFrom

LEMMA PipelineInvInit ==
  ASSUME NEW D, Plain(D), PipelineInit
  PROVE  PipelineInv(D)
<1>1. Init /\ Tree(D)
  BY DEF PipelineInit, Plain
<1>2. TreeInv(D) /\ TypeOK
  BY <1>1, TreeInit DEF TreeInv, EngineInv
<1>3. /\ stack = <<>> /\ DOMAIN stack = {} /\ Elements(stack) = {}
      /\ \A f \in Functors : ~hasValue[f]
  BY <1>1 DEF Init, Elements
<1>4. PICK src \in [Raws -> UNION {Sources[r] : r \in Raws}] :
        /\ \A r \in Raws : src[r] \in Sources[r]
        /\ data = [f \in Functors |-> IF f \in Raws
                     THEN [i \in DOMAIN src[f] |-> [k |-> src[f][i], n |-> Number[f][i]]]
                     ELSE <<>>]
  BY DEF PipelineInit
<1>5. /\ index = [f \in Functors |-> IF Kind[f] = "concat" THEN 0 ELSE -1]
      /\ row = [f \in Functors |-> NoRow]
      /\ group = [f \in Functors |-> [on |-> FALSE, last |-> 0, acc |-> Begin]]
      /\ sorted = [f \in Functors |-> [done |-> FALSE, rows |-> <<>>]]
  BY DEF PipelineInit
<1>6. ASSUME NEW r \in Raws
      PROVE  [i \in DOMAIN src[r] |-> [k |-> src[r][i], n |-> Number[r][i]]] \in Seq(Rows)
  <2> DEFINE keys == src[r]
  <2>1. keys \in Sources[r]
    BY <1>4, <1>6
  <2>2. keys \in Seq(Nat) /\ \A i \in DOMAIN keys : Number[r][i] \in Nat
    BY <2>1, <1>6, BuildAssumption DEF Raws
  <2> HIDE DEF keys
  <2>3. Len(keys) \in Nat /\ DOMAIN keys = 1 .. Len(keys) /\ \A i \in DOMAIN keys : keys[i] \in Nat
    BY <2>2, LenProperties, ElementOfSeq
  <2>4. \A i \in DOMAIN keys : [k |-> keys[i], n |-> Number[r][i]] \in Rows
    BY <2>2, <2>3 DEF Rows
  <2>5. [i \in 1 .. Len(keys) |-> [k |-> keys[i], n |-> Number[r][i]]] \in [1 .. Len(keys) -> Rows]
    BY <2>3, <2>4
  <2>6. [i \in 1 .. Len(keys) |-> [k |-> keys[i], n |-> Number[r][i]]] \in Seq(Rows)
    BY <2>3, <2>5
  <2> QED BY <2>3, <2>6 DEF keys
<1>7. data \in [Functors -> Seq(Rows)]
  BY <1>4, <1>6
<1>8. \A f \in Functors : Len(data[f]) \in Nat
  BY <1>7, LenProperties
<1>9. RowTypes
  <2>1. row \in [Functors -> Rows]
    BY <1>5 DEF NoRow, Rows
  <2>2. /\ group \in [Functors -> [on : BOOLEAN, last : Nat, acc : [value : Nat, count : Nat]]]
        /\ GroupInv
    BY <1>5 DEF Begin, GroupInv
  <2>3. sorted \in [Functors -> [done : BOOLEAN, rows : Seq([k : Nat, n : Seq(Nat)])]]
    BY <1>5
  <2>4. index \in [Functors -> Int]
    BY <1>5
  <2> QED BY <1>7, <2>1, <2>2, <2>3, <2>4 DEF RowTypes
<1>10. Indexed
  BY <1>3, <1>5, <1>8, InputsAre DEF Indexed
<1>11. AskedInv
  BY <1>3, GraphAssumption DEF AskedInv, Raws
<1>12. StreamInv
  BY <1>3 DEF StreamInv
<1>13. \A f \in Functors : Kind[f] \notin {"top", "sort", "history"}
  BY DEF Plain
<1>14. PipelineTypeOK
  BY <1>2, <1>9, <1>10, <1>13 DEF PipelineTypeOK, RowTypes, Indexed
<1>15. PlacesInv /\ GroupInv
  BY <1>9, <1>10 DEF PlacesInv, RowTypes, Indexed
<1> QED BY <1>2, <1>11, <1>12, <1>14, <1>15 DEF PipelineInv

LEMMA PipelineInvStep ==
  ASSUME NEW D, Plain(D), PipelineInv(D), [PipelineNext]_allVars
  PROVE  PipelineInv(D)'
<1>1. CASE phase = "bfs" /\ Extractor(Head(queue)) /\ Extract
  BY <1>1, ExtractKeeps
<1>2. CASE Descend
  BY <1>2, DescendKeeps
<1>3. CASE phase = "pop" /\ Succeed
  BY <1>3, SucceedKeeps
<1>4. CASE phase = "pop" /\ Fail
  BY <1>4, FailKeeps
<1>5. CASE Restart
  BY <1>5, RestartKeeps
<1>6. CASE UNCHANGED allVars
  BY <1>6 DEF allVars, dataVars, vars, PipelineInv, PipelineTypeOK, PlacesInv, AskedInv, StreamInv, GroupInv,
     TreeInv, EngineInv, TypeOK, QueueIsMarked, LoopInv, NothingAbandoned, StackIsMarked, AskedByReader,
     AskedWithoutValue, OutputValue
<1> QED BY <1>1, <1>2, <1>3, <1>4, <1>5, <1>6 DEF PipelineNext, Finish, Returned, allVars

\* Every pipeline of the functors of include/hpda, with any tree below its splits,
\* keeps its types: no index leaves its vector by more than one, and a raw_data or
\* a stream that offers a value has it (PipelineTypeOK, raw_data.h:34).
THEOREM PipelineTypes ==
  ASSUME NEW D, Plain(D)
  PROVE  PipelineSpec => []PipelineTypeOK
<1>1. PipelineInit => PipelineInv(D)
  BY PipelineInvInit
<1>2. PipelineInv(D) /\ [PipelineNext]_allVars => PipelineInv(D)'
  BY PipelineInvStep
<1>3. PipelineInv(D) => PipelineTypeOK
  BY DEF PipelineInv
<1> QED BY <1>1, <1>2, <1>3, PTL DEF PipelineSpec
=============================================================================
