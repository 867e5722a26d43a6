------------------------------- MODULE MCHpda -------------------------------
(***************************************************************************)
(* Graphs for model checking the engine and its functors.  A graph is a    *)
(* function from functors to <<kind, predecessors>>.                       *)
(***************************************************************************)
EXTENDS HpdaMeaning

Vertex(kind, pred) == [kind |-> kind, pred |-> pred]

PredOf(G)  == [f \in DOMAIN G |-> G[f].pred]
KindOf(G)  == [f \in DOMAIN G |-> G[f].kind]
SinksOf(G) == {f \in DOMAIN G : G[f].kind \in {"split", "hash", "output"}}

\* The n of the rows of each raw_data, all different and in no order.
Numbers == [r1 |-> <<3, 1, 4, 2>>, r2 |-> <<12, 11>>, r3 |-> <<22, 21>>, r4 |-> <<31, 32>>, r5 |-> <<41, 42>>]
NoKeep  == <<>>

\* All the key vectors of at most n keys of 1 .. m, and those in order.
AnyKeys(n, m)    == UNION {[1 .. i -> 1 .. m] : i \in 0 .. n}
SortedKeys(n, m) == {s \in AnyKeys(n, m) : \A i \in 1 .. Len(s) - 1 : s[i] <= s[i + 1]}

\* The set functors of test_set.cpp: an intersection and a difference, which
\* offer nothing at times, merged with a third stream, the result filtered.
SetGraph ==
  [r1 |-> Vertex("raw", <<>>), r2 |-> Vertex("raw", <<>>),
   r3 |-> Vertex("raw", <<>>), r4 |-> Vertex("raw", <<>>), r5 |-> Vertex("raw", <<>>),
   i  |-> Vertex("intersection", <<"r1", "r2">>),
   d  |-> Vertex("difference", <<"r3", "r4">>),
   u  |-> Vertex("union", <<"i", "d", "r5">>),
   f  |-> Vertex("filter", <<"u">>),
   o  |-> Vertex("output", <<"f">>)]
SetKeep == [f |-> {2}]
SetFunctors == DOMAIN SetGraph
SetPred     == PredOf(SetGraph)
SetKind     == KindOf(SetGraph)
SetSinks    == SinksOf(SetGraph)
SetSources  == [r \in {"r1", "r2", "r3", "r4", "r5"} |-> SortedKeys(2, 2)]

\* A split below a filter: two of its streams meet again in a concat, one of them
\* filtered, and each of the others ends in a groupby and an output of its own.
SplitGraph ==
  [r1 |-> Vertex("raw", <<>>),
   f0 |-> Vertex("filter", <<"r1">>),
   sp |-> Vertex("split", <<"f0">>),
   s1 |-> Vertex("stream", <<"sp">>), s2 |-> Vertex("stream", <<"sp">>),
   s3 |-> Vertex("stream", <<"sp">>), s4 |-> Vertex("stream", <<"sp">>),
   s5 |-> Vertex("stream", <<"sp">>),
   f  |-> Vertex("filter", <<"s2">>),
   c  |-> Vertex("concat", <<"s1", "f">>),
   g0 |-> Vertex("group", <<"c">>),  g1 |-> Vertex("group", <<"s3">>),
   g2 |-> Vertex("group", <<"s4">>), g3 |-> Vertex("group", <<"s5">>),
   o0 |-> Vertex("output", <<"g0">>), o1 |-> Vertex("output", <<"g1">>),
   o2 |-> Vertex("output", <<"g2">>), o3 |-> Vertex("output", <<"g3">>)]
SplitAggregator == [g0 |-> "sum", g1 |-> "avg", g2 |-> "max", g3 |-> "count"]
SplitFunctors == DOMAIN SplitGraph
SplitPred     == PredOf(SplitGraph)
SplitKind     == KindOf(SplitGraph)
SplitSinks    == SinksOf(SplitGraph)
SplitSources  == [r1 |-> AnyKeys(3, 3)]
SplitKeep     == [f0 |-> {1, 2}, f |-> {2, 3}]

\* The tree below this split: the hypothesis under which HpdaEngineProofs proves the
\* types of a pipeline.
BelowSplit == {"s1", "s2", "s3", "s4", "s5", "f", "c", "g0", "g1", "g2", "g3", "o0", "o1", "o2", "o3"}
ASSUME SplitIsPlain == Functors = SplitFunctors => Plain(BelowSplit)

\* The same diamond with a union of filtered streams above the split.
DiamondGraph ==
  [r1 |-> Vertex("raw", <<>>), r2 |-> Vertex("raw", <<>>),
   a  |-> Vertex("filter", <<"r1">>), b |-> Vertex("filter", <<"r2">>),
   u  |-> Vertex("union", <<"a", "b">>),
   sp |-> Vertex("split", <<"u">>),
   s1 |-> Vertex("stream", <<"sp">>), s2 |-> Vertex("stream", <<"sp">>),
   f  |-> Vertex("filter", <<"s2">>),
   c  |-> Vertex("concat", <<"s1", "f">>),
   o  |-> Vertex("output", <<"c">>)]
DiamondFunctors == DOMAIN DiamondGraph
DiamondPred     == PredOf(DiamondGraph)
DiamondKind     == KindOf(DiamondGraph)
DiamondSinks    == SinksOf(DiamondGraph)
DiamondSources  == [r1 |-> SortedKeys(2, 2), r2 |-> SortedKeys(2, 2)]
DiamondKeep     == [a |-> {1, 2}, b |-> {1, 2}, f |-> {1, 2}]

\* A splitter with one worker, a worker given other phones, and the aggregator of
\* doc_example/3.4, each network link a stream or a raw_data that hands on the
\* rows it is given; beside them the concat and the sort of trace1 in
\* doc_example/4/pp_trace.cpp.
QueryGraph ==
  [r1 |-> Vertex("raw", <<>>),
   hs |-> Vertex("hash", <<"r1">>),
   s1 |-> Vertex("stream", <<"hs">>), r2 |-> Vertex("raw", <<>>),
   h1 |-> Vertex("history", <<"s1">>), h2 |-> Vertex("history", <<"r2">>),
   d1 |-> Vertex("distance", <<"h1">>), d2 |-> Vertex("distance", <<"h2">>),
   t1 |-> Vertex("top", <<"d1">>), t2 |-> Vertex("top", <<"d2">>),
   c  |-> Vertex("concat", <<"t1", "t2">>),
   t  |-> Vertex("top", <<"c">>),
   o1 |-> Vertex("output", <<"t">>),
   r3 |-> Vertex("raw", <<>>), r4 |-> Vertex("raw", <<>>),
   cc |-> Vertex("concat", <<"r3", "r4">>),
   so |-> Vertex("sort", <<"cc">>),
   o2 |-> Vertex("output", <<"so">>)]
QueryFunctorNames == DOMAIN QueryGraph
QueryPred     == PredOf(QueryGraph)
QueryKind     == KindOf(QueryGraph)
QuerySinks    == SinksOf(QueryGraph)
QueryLimit    == [t1 |-> 2, t2 |-> 2, t |-> 2]
QuerySources  == [r1 |-> {<<>>, <<3, 1, 3>>, <<5, 1, 1, 3, 1>>}, r2 |-> {<<2>>, <<2, 4, 2, 6, 2>>},
                  r3 |-> {<<>>, <<1, 3, 2>>}, r4 |-> {<<1, 2>>}]
QueryNumbers  == [r1 |-> <<31, 14, 49, 22, 58>>, r2 |-> <<25, 63, 48, 11, 39>>,
                  r3 |-> <<1, 2, 3>>, r4 |-> <<11, 12, 13>>]
=============================================================================
