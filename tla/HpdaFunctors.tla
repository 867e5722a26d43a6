---------------------------- MODULE HpdaFunctors ----------------------------
(***************************************************************************)
(* The functors of include/hpda: what each process() computes, on rows     *)
(* that a key k orders and groups and a number n tells apart.              *)
(*                                                                         *)
(* A row stands for an ntobject: k for the column the predicates, the KT   *)
(* traits and GroupByType read, n for every other column.                  *)
(***************************************************************************)
EXTENDS HpdaEngine, Integers, SequencesExt

CONSTANTS
  Kind,        \* the class of each functor
  Limit,       \* Limit[f]: size_limit of top f, a max_n
  Keep,        \* Keep[f]: the keys the predicate of filter f accepts
  Aggregator,  \* Aggregator[f]: the aggregator of groupby f
  Sources,     \* Sources[r]: the vectors of keys raw_data r may have been given
  Number       \* Number[r][i]: the n of the i-th row of raw_data r

ASSUME KindAssumption ==
  /\ Kind \in [Functors -> {"raw", "stream", "filter", "concat", "union", "intersection",
                            "difference", "split", "group", "output",
                            "hash", "history", "distance", "top", "sort"}]
  /\ \A f \in Functors : Kind[f] = "raw" <=> Extractor(f)
  /\ Sinks = {f \in Functors : Kind[f] \in {"split", "hash", "output"}}
  /\ \A f \in Functors : Kind[f] = "group" => Aggregator[f] \in {"sum", "avg", "max", "min", "count"}

\* What the constructors leave: a processor_with_input has one input
\* (common/processor_with_input.h:17), a stream the split that made it (split.h:25),
\* and a raw_data is given rows.
ASSUME BuildAssumption ==
  /\ \A f \in Functors : Kind[f] \notin {"raw", "concat", "union", "intersection", "difference"} =>
       Len(Pred[f]) = 1
  /\ \A f \in Functors : Kind[f] = "stream" => Kind[Pred[f][1]] \in {"split", "hash"}
  /\ \A f \in Functors : Kind[f] = "raw" =>
       /\ Sources[f] \subseteq Seq(Nat)
       /\ \A keys \in Sources[f] : \A i \in DOMAIN keys : Number[f][i] \in Nat

VARIABLES
  data,   \* m_data of a raw_data, a split stream, a memory_output or a sort, input_data, max_n_data
  index,  \* m_index of a raw_data, a split stream or a concat; the output_idx of a buffering functor
  row,    \* m_data of any other functor: the row output_value returns
  group,  \* of a groupby: m_aggregator.grouping(), m_last_group_id and the aggregator's m_data and m_count
  sorted  \* of a group_and_sort: grouped_and_sorted and output_data

dataVars == <<data, index, row, group, sorted>>
allVars  == <<vars, dataVars>>

NoRow == [k |-> 0, n |-> 0]

Up(f)         == Pred[f][1]
StreamsOne(f) == {CHOOSE g \in Functors : Kind[g] = "stream" /\ Pred[g] = <<f>>}  \* faulty: one copy only
Streams(f)    == {g \in Functors : Kind[g] = "stream" /\ Pred[g] = <<f>>}

\* output_value(): an indexed row of a functor that keeps a vector, m_data elsewhere.
OutputValue(f) ==
  CASE Kind[f] \in {"raw", "stream", "top", "sort"} -> data[f][index[f] + 1]
    [] Kind[f] = "history"                         -> sorted[f].rows[index[f] + 1]
    [] OTHER                                       -> row[f]
Key(f) == OutputValue(f).k

\* The positions of f's upper streams that have a value, and their least key.
Live(f)     == {i \in DOMAIN Pred[f] : hasValue[Pred[f][i]]}
LeastKey(f) == Min({Key(Pred[f][i]) : i \in Live(f)})
AtLeast(f)  == {i \in Live(f) : Key(Pred[f][i]) = LeastKey(f)}
UpAt(f, S)  == {Pred[f][i] : i \in S}

-----------------------------------------------------------------------------
\* Each operator below is one process(): ok is what it returns, used the inputs
\* whose value it resets.

\* Faulty: the test of m_index against the size is off by one.
RawProcessOneTooFar(f, ok, used) ==
  /\ Kind[f] \in {"raw", "stream"}
  /\ used = {}
  /\ index' = IF data[f] = <<>> THEN index ELSE [index EXCEPT ![f] = @ + 1]
  /\ ok = (data[f] # <<>> /\ index'[f] <= Len(data[f]))
  /\ UNCHANGED <<data, row, group, sorted>>

\* raw_data and split streams: the index moves even when it leaves the vector,
\* and only an empty vector leaves it alone.
RawProcess(f, ok, used) ==
  /\ Kind[f] \in {"raw", "stream"}
  /\ used = {}
  /\ index' = IF data[f] = <<>> THEN index ELSE [index EXCEPT ![f] = @ + 1]
  /\ ok = (data[f] # <<>> /\ index'[f] < Len(data[f]))
  /\ UNCHANGED <<data, row, group, sorted>>

\* filter: a row that fails the predicate is consumed as well.
FilterProcess(f, ok, used) ==
  /\ Kind[f] = "filter"
  /\ used = Offered(f)
  /\ ok = (Live(f) # {} /\ Key(Up(f)) \in Keep[f])
  /\ row' = IF ok THEN [row EXCEPT ![f] = OutputValue(Up(f))] ELSE row
  /\ UNCHANGED <<data, index, group, sorted>>

\* concat: m_index steps over every stream without a value, for good.
ConcatProcess(f, ok, used) ==
  LET rest == {i \in Live(f) : i > index[f]} IN
  /\ Kind[f] = "concat"
  /\ ok = (rest # {})
  /\ index' = [index EXCEPT ![f] = IF ok THEN Min(rest) - 1 ELSE Len(Pred[f])]
  /\ used = IF ok THEN {Pred[f][Min(rest)]} ELSE {}
  /\ row' = IF ok THEN [row EXCEPT ![f] = OutputValue(Pred[f][Min(rest)])] ELSE row
  /\ UNCHANGED <<data, group, sorted>>

\* Faulty: the other streams at the least key stay where they are.
UnionProcessOne(f, ok, used) ==
  /\ Kind[f] = "union"
  /\ ok = (Len(Pred[f]) >= 2 /\ Live(f) # {})
  /\ used = IF ok THEN {Pred[f][Min(AtLeast(f))]} ELSE {}
  /\ row' = IF ok THEN [row EXCEPT ![f] = OutputValue(Pred[f][Min(AtLeast(f))])] ELSE row
  /\ UNCHANGED <<data, index, group, sorted>>

\* ordered_union: the first stream with the least key is emitted, every stream
\* with that key advances.
UnionProcess(f, ok, used) ==
  /\ Kind[f] = "union"
  /\ ok = (Len(Pred[f]) >= 2 /\ Live(f) # {})
  /\ used = IF ok THEN UpAt(f, AtLeast(f)) ELSE {}
  /\ row' = IF ok THEN [row EXCEPT ![f] = OutputValue(Pred[f][Min(AtLeast(f))])] ELSE row
  /\ UNCHANGED <<data, index, group, sorted>>

\* ordered_intersection: waits for a value on every stream; the streams with
\* the least key advance, and if that is all of them the row is emitted, its
\* columns filled from each stream in turn.
IntersectionProcess(f, ok, used) ==
  LET ready == Len(Pred[f]) >= 2 /\ Live(f) = DOMAIN Pred[f] IN
  /\ Kind[f] = "intersection"
  /\ ok = (ready /\ AtLeast(f) = DOMAIN Pred[f])
  /\ used = IF ready THEN UpAt(f, AtLeast(f)) ELSE {}
  /\ row' = IF ok THEN [row EXCEPT ![f] = OutputValue(Last(Pred[f]))] ELSE row
  /\ UNCHANGED <<data, index, group, sorted>>

\* Faulty: a row of stream 0 that is subtracted is not consumed.
DifferenceProcessKeeps(f, ok, used) ==
  LET ready == Len(Pred[f]) >= 2 /\ 1 \in Live(f) IN
  /\ Kind[f] = "difference"
  /\ ok = (ready /\ AtLeast(f) = {1})
  /\ used = IF ok THEN {Up(f)} ELSE IF ready THEN UpAt(f, AtLeast(f) \ {1}) ELSE {}
  /\ row' = IF ok THEN [row EXCEPT ![f] = OutputValue(Up(f))] ELSE row
  /\ UNCHANGED <<data, index, group, sorted>>

\* ordered_difference: the subtracted streams at the least key advance, with
\* stream 0 if it is there too; when none is, stream 0 is emitted.
DifferenceProcess(f, ok, used) ==
  LET ready == Len(Pred[f]) >= 2 /\ 1 \in Live(f) IN
  /\ Kind[f] = "difference"
  /\ ok = (ready /\ AtLeast(f) = {1})
  /\ used = IF ready THEN UpAt(f, AtLeast(f)) ELSE {}
  /\ row' = IF ok THEN [row EXCEPT ![f] = OutputValue(Up(f))] ELSE row
  /\ UNCHANGED <<data, index, group, sorted>>

\* split: one copy of the row into every stream.
SplitProcess(f, ok, used) ==
  /\ Kind[f] = "split"
  /\ used = Offered(f)
  /\ ok = (Live(f) # {})
  /\ data' = [g \in Functors |-> IF ok /\ g \in Streams(f) THEN Append(data[g], OutputValue(Up(f)))
                                                            ELSE data[g]]
  /\ UNCHANGED <<index, row, group, sorted>>

\* begin_group: every aggregator starts from 0.
Begin == [value |-> 0, count |-> 0]

\* group(t): one more row in the group.
Aggregate(agg, a, n) ==
  [value |-> CASE agg \in {"sum", "avg"} -> a.value + n
               [] agg = "max"            -> IF a.value > n THEN a.value ELSE n
               [] agg = "min"            -> IF a.value < n THEN a.value ELSE n
               [] agg = "count"          -> a.value + 1,
   count |-> a.count + 1]

\* end_group, then output().
Result(agg, a) == IF agg = "avg" THEN a.value \div a.count ELSE a.value

\* Whether process() closes a group; the faulty variant waits for a next row.
ClosesGroupOnNext(f) == group[f].on /\ Live(f) # {} /\ group[f].last # Key(Up(f))
ClosesGroup(f)       == group[f].on /\ (Live(f) # {} => group[f].last # Key(Up(f)))

\* groupby: the first row opens a group, rows of the same group are added, a row
\* of another group closes it and opens its own, the group id of the output row
\* being set to the new one; the last group is closed when the input has no value.
GroupProcess(f, ok, used) ==
  LET g    == group[f]
      next == OutputValue(Up(f))
      same == g.on /\ g.last = next.k
  IN
  /\ Kind[f] = "group"
  /\ used = Offered(f)
  /\ ok = ClosesGroup(f)
  /\ IF Live(f) = {}
     THEN /\ group' = [group EXCEPT ![f].on = FALSE]
          /\ row' = IF ok THEN [row EXCEPT ![f].n = Result(Aggregator[f], g.acc)] ELSE row
     ELSE /\ group' = [group EXCEPT ![f] =
                         [on |-> TRUE, last |-> next.k,
                          acc |-> Aggregate(Aggregator[f], IF same THEN g.acc ELSE Begin, next.n)]]
          /\ row' = IF same THEN row
                    ELSE [row EXCEPT ![f] =
                            [k |-> next.k, n |-> IF ok THEN Result(Aggregator[f], g.acc) ELSE @.n]]
  /\ UNCHANGED <<data, index, sorted>>

\* memory_output: collects the rows.
OutputProcess(f, ok, used) ==
  /\ Kind[f] = "output"
  /\ used = Offered(f)
  /\ ok = (Live(f) # {})
  /\ data' = IF ok THEN [data EXCEPT ![f] = Append(@, OutputValue(Up(f)))] ELSE data
  /\ UNCHANGED <<index, row, group, sorted>>
=============================================================================
