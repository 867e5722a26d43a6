----------------------------- MODULE HpdaMeaning -----------------------------
(***************************************************************************)
(* What a pipeline of HpdaPipeline must deliver, said of whole vectors and *)
(* without the engine: each functor denotes the vector of the rows it      *)
(* offers over a run, computed from the vectors its inputs denote.         *)
(***************************************************************************)
EXTENDS HpdaPipeline

\* The rows of s with key k, and how many there are.
WithKey(s, k) == SelectSeq(s, LAMBDA x : x.k = k)
Count(s, k)   == Len(WithKey(s, k))
KeysOf(s)     == {s[i].k : i \in DOMAIN s}

\* Key by key in ascending order (keys are positive numbers), the j-th row of a
\* key from Pick(k, j), for j in 1 .. Copies(k): how the three set functors treat
\* sorted multisets.
Merge(Ks, Copies(_), Pick(_, _)) ==
  FlattenSeq([k \in 1 .. Max(Ks \cup {0}) |-> [j \in 1 .. Copies(k) |-> Pick(k, j)]])

UnionOf(ss) ==
  LET Ks == UNION {KeysOf(ss[i]) : i \in DOMAIN ss}
      From(k, j) == Min({i \in DOMAIN ss : Count(ss[i], k) >= j})
  IN  Merge(Ks, LAMBDA k : Max({Count(ss[i], k) : i \in DOMAIN ss}),
            LAMBDA k, j : WithKey(ss[From(k, j)], k)[j])

IntersectionOf(ss) ==
  Merge(KeysOf(ss[1]), LAMBDA k : Min({Count(ss[i], k) : i \in DOMAIN ss}),
        LAMBDA k, j : WithKey(Last(ss), k)[j])

DifferenceOf(ss) ==
  LET Gone(k) == Max({Count(ss[i], k) : i \in 2 .. Len(ss)})
      Left(k) == Max({0, Count(ss[1], k) - Gone(k)})
  IN  Merge(KeysOf(ss[1]), Left, LAMBDA k, j : WithKey(ss[1], k)[Gone(k) + j])

\* The maximal runs of equal keys, each as the interval of its positions in s.
Runs(s) ==
  {I \in {lo .. hi : lo, hi \in DOMAIN s} \ {{}} :
     /\ \A i, j \in I : s[i].k = s[j].k
     /\ \A i \in I : \A j \in {i - 1, i + 1} \cap DOMAIN s : s[j].k = s[i].k => j \in I}

\* What the name of an aggregator says of the column of a group.
AggregateOf(agg, s, I) ==
  LET numbers == {s[i].n : i \in I}
      total   == MapThenSumSet(LAMBDA i : s[i].n, I)
  IN  CASE agg = "sum"   -> total
        [] agg = "avg"   -> total \div Cardinality(I)
        [] agg = "max"   -> Max(numbers)
        [] agg = "min"   -> Min(numbers)
        [] agg = "count" -> Cardinality(I)

\* One row for each run of equal keys.
GroupOf(agg, s) ==
  LET runs == SetToSortSeq(Runs(s), LAMBDA I, J : Min(I) < Min(J)) IN
  [i \in DOMAIN runs |-> [k |-> s[Min(runs[i])].k, n |-> AggregateOf(agg, s, runs[i])]]

\* The way along the places v, and the one phone k has made in the rows s: its
\* places taken in the order of their times.
Way[v \in Seq(Nat)] ==
  MapThenSumSet(LAMBDA i : Max({position(v[i]), position(v[i - 1])})
                           - Min({position(v[i]), position(v[i - 1])}), 2 .. Len(v))
WayOf(s, k) ==
  Way[SetToSortSeq({r.n : r \in Range(WithKey(s, k))}, LAMBDA x, y : timestamp(x) < timestamp(y))]

\* One row with the way of each phone of s.
WaysOf(s) == SetToSortSeq({[k |-> phone, n |-> WayOf(s, phone)] : phone \in KeysOf(s)},
                          LAMBDA x, y : x.k < y.k)

\* The rows of s from the greatest n on, at most limit of them; the rows by key.
Greatest(s, limit) ==
  SubSeq(SortSeq(s, LAMBDA x, y : x.n > y.n), 1, Min({limit, Len(s)}))
ByKey(s) == SortSeq(s, LAMBDA x, y : x.k < y.k)

\* The rows of s that a hash split gives to stream f.
Routed(s, f) == SelectSeq(s, LAMBDA r : Route(Up(f), r.k) = f)

\* What functor f makes of the vectors up of its inputs; what a group_and_sort and the
\* cal_distance below it make is said in one, of the latter.  The rows of a raw_data
\* never leave it.
Denotes[f \in Functors, up \in Seq(Seq(Rows))] ==
  CASE Kind[f] = "raw"                         -> data[f]
    [] Kind[f] = "stream" /\ Kind[Up(f)] = "hash" -> Routed(up[1], f)
    [] Kind[f] \in {"split", "hash", "stream", "history", "output"} -> up[1]
    [] Kind[f] = "filter"                      -> SelectSeq(up[1], LAMBDA x : x.k \in Keep[f])
    [] Kind[f] = "concat"                      -> FlattenSeq(up)
    [] Kind[f] = "union"                       -> UnionOf(up)
    [] Kind[f] = "intersection"                -> IntersectionOf(up)
    [] Kind[f] = "difference"                  -> DifferenceOf(up)
    [] Kind[f] = "group"                       -> GroupOf(Aggregator[f], up[1])
    [] Kind[f] = "distance"                    -> WaysOf(up[1])
    [] Kind[f] = "top"                         -> Greatest(up[1], Limit[f])
    [] Kind[f] = "sort"                        -> ByKey(up[1])

\* The vector each functor denotes; the concatenation has TLC compute the vectors
\* of the inputs once.
Meaning[f \in Functors] ==
  <<>> \o Denotes[f, <<>> \o [i \in DOMAIN Pred[f] |-> Meaning[Pred[f][i]]]]

Memory == {f \in Functors : Kind[f] = "output"}

\* What a memory_output holds is at every moment a prefix of what its graph
\* denotes, and all of it when run() has returned: no row is lost, invented,
\* duplicated or reordered by the scheduling, whatever is pulled first.
DeliversMeaning ==
  \A o \in Memory : /\ IsPrefix(data[o], Meaning[o])
                    /\ phase = "done" => data[o] = Meaning[o]

\* Whether f is a groupby, or a functor that groups in the order of a hash map, or
\* stands below one; and whether it stands below a sort.
Grouped[f \in Functors] == Kind[f] \in {"group", "history"} \/ \E g \in Inputs(f) : Grouped[g]
Travelled[f \in Functors] == Kind[f] = "distance" \/ \E g \in Inputs(f) : Travelled[g]
Sorted[f \in Functors]  == Kind[f] = "sort" \/ \E g \in Inputs(f) : Sorted[g]

\* The rows of output o but for the group ids a groupby has put in them, of
\* which DeliversMeaning tells, the phones, of which DistancesAreTrue tells, and
\* the other columns of rows a sort has moved among those of the same key.
WithoutIds[rows \in Seq(Rows)]  == [i \in DOMAIN rows |-> [rows[i] EXCEPT !.k = 0]]
WithoutRest[rows \in Seq(Rows)] == [i \in DOMAIN rows |-> [rows[i] EXCEPT !.n = 0]]
Seen(o, rows) == IF Grouped[o] THEN WithoutIds[rows] ELSE IF Sorted[o] THEN WithoutRest[rows] ELSE rows

\* Every row the distributed query of doc_example/3.4 writes has a phone of its
\* own and the way that phone has made in all the rows of the file, whichever
\* worker its rows went to and in whatever order the groups came out.
DistancesAreTrue ==
  \A o \in {f \in Memory : Travelled[f]} :
    /\ \A i, j \in DOMAIN data[o] : i # j => data[o][i].k # data[o][j].k
    /\ \A i \in DOMAIN data[o] :
         \E file \in Raws : data[o][i].n = WayOf(data[file], data[o][i].k)

\* The engine and its functors implement the promise of HpdaDelivery: each step
\* hands one row to one output or is invisible, and run() returns only, and
\* always, with everything delivered.
Delivery == INSTANCE HpdaDelivery WITH
  Receivers <- Memory,
  expected  <- [o \in Memory |-> Seen(o, Meaning[o])],
  received  <- [o \in Memory |-> Seen(o, data[o])],
  run       <- IF phase = "done" THEN "returned" ELSE "running"

ImplementsDelivery == Delivery!Spec
=============================================================================
