---------------------------- MODULE HpdaPipeline ----------------------------
(***************************************************************************)
(* The engine of HpdaEngine running the functors of HpdaFunctors and       *)
(* QueryFunctors: every process() the engine calls is that of the          *)
(* functor's class.                                                        *)
(***************************************************************************)
EXTENDS QueryFunctors

Process(f, ok, used) ==
  \/ RawProcess(f, ok, used)
  \/ FilterProcess(f, ok, used)
  \/ ConcatProcess(f, ok, used)
  \/ UnionProcess(f, ok, used)
  \/ IntersectionProcess(f, ok, used)
  \/ DifferenceProcess(f, ok, used)
  \/ SplitProcess(f, ok, used)
  \/ GroupProcess(f, ok, used)
  \/ OutputProcess(f, ok, used)
  \/ QueryProcess(f, ok, used)

-----------------------------------------------------------------------------
Raws == {f \in Functors : Kind[f] = "raw"}

\* The constructors, and the add_data calls made before run().
PipelineInit ==
  /\ Init
  /\ \E src \in [Raws -> UNION {Sources[r] : r \in Raws}] :
       /\ \A r \in Raws : src[r] \in Sources[r]
       /\ data = [f \in Functors |-> IF f \in Raws
                    THEN [i \in DOMAIN src[f] |-> [k |-> src[f][i], n |-> Number[f][i]]]
                    ELSE <<>>]
  /\ index = [f \in Functors |-> IF Kind[f] = "concat" THEN 0 ELSE -1]
  /\ row = [f \in Functors |-> NoRow]
  /\ group = [f \in Functors |-> [on |-> FALSE, last |-> 0, acc |-> Begin]]
  /\ sorted = [f \in Functors |-> [done |-> FALSE, rows |-> <<>>]]

\* The engine's steps, each with the process() it calls.
Extract == \E ok \in BOOLEAN : Process(Head(queue), ok, {}) /\ BfsExtractor(ok)
Descend == BfsProcessor /\ UNCHANGED dataVars
Succeed == \E used \in SUBSET Inputs(Head(stack)) :
             Process(Head(stack), TRUE, used) /\ PopSuccess(used)
Fail    == \E used \in SUBSET Inputs(Head(stack)) :
             Process(Head(stack), FALSE, used) /\ (PopRetry(used) \/ PopEnd(used))
Restart == Refill /\ UNCHANGED dataVars
Finish  == Returned /\ UNCHANGED dataVars

PipelineNext ==
  \/ phase = "bfs" /\ Extractor(Head(queue)) /\ Extract
  \/ Descend
  \/ phase = "pop" /\ (Succeed \/ Fail)
  \/ Restart
  \/ Finish

PipelineSpec == PipelineInit /\ [][PipelineNext]_allVars

\* run() is one thread that does nothing else: it keeps stepping.
FairPipelineSpec == PipelineSpec /\ WF_allVars(PipelineNext)

-----------------------------------------------------------------------------
Rows == [k : Nat, n : Nat]

\* The types of the functors' own state; the index of a raw_data or a split
\* stream never leaves its vector by more than one, and a value on offer is one
\* the vector has (raw_data.h:34 throws otherwise; output_value of max_n and of
\* group_and_sort reads its vector without a test).
PipelineTypeOK ==
  /\ TypeOK
  /\ data \in [Functors -> Seq(Rows)]
  /\ row \in [Functors -> Rows]
  /\ group \in [Functors -> [on : BOOLEAN, last : Nat, acc : [value : Nat, count : Nat]]]
  /\ sorted \in [Functors -> [done : BOOLEAN, rows : Seq([k : Nat, n : Seq(Nat)])]]
  /\ \A f \in Functors :
       /\ Kind[f] = "concat" => index[f] \in 0 .. Len(Pred[f])
       /\ Kind[f] \in {"raw", "stream"} =>
            /\ index[f] \in -1 .. Len(data[f])
            /\ hasValue[f] => index[f] \in 0 .. Len(data[f]) - 1
       /\ Kind[f] \in {"top", "sort"} /\ hasValue[f] => index[f] \in 0 .. Len(data[f]) - 1
       /\ Kind[f] = "history" /\ hasValue[f] => index[f] \in 0 .. Len(sorted[f].rows) - 1

-----------------------------------------------------------------------------
(***************************************************************************)
(* The inductive invariant behind the types.                               *)
(***************************************************************************)

\* A pipeline of the functors of include/hpda: every raw_data is read by some
\* functor, and below its splits the graph is a tree D.
Plain(D) ==
  /\ Tree(D)
  /\ \A f \in Functors : /\ Kind[f] \notin {"hash", "history", "distance", "top", "sort"}
                         /\ Kind[f] = "stream" => f \in D
  /\ Raws \cap Outputs = {}

\* The places of raw_data and split streams: only the process() that ends one
\* moves its index out of its vector.
PlacesInv ==
  /\ index \in [Functors -> Int]
  /\ \A f \in Functors : Kind[f] \in {"raw", "stream"} /\ status[f] # "end" => index[f] < Len(data[f])

\* A raw_data is never stacked, and queued only when its value was taken; a sink
\* offers nothing.
AskedInv ==
  /\ \A f \in Elements(stack) : Kind[f] # "raw"
  /\ \A r \in Raws : status[r] = "to_p" => ~hasValue[r]
  /\ \A f \in Sinks : ~hasValue[f]

\* A stacked stream has a row to read when its turn comes, or none will come any
\* more: until then its split is queued, or stacked above it.
StreamInv ==
  \A i \in DOMAIN stack : LET s == stack[i] IN Kind[s] = "stream" =>
    \/ index[s] + 1 < Len(data[s])
    \/ status[Up(s)] = "end"
    \/ Up(s) \in Elements(queue)
    \/ \E j \in DOMAIN stack : j < i /\ stack[j] = Up(s)

\* A group that is open has a row.
GroupInv == \A f \in Functors : group[f].on => group[f].acc.count > 0

PipelineInv(D) ==
  TreeInv(D) /\ PipelineTypeOK /\ PlacesInv /\ AskedInv /\ StreamInv /\ GroupInv
=============================================================================
