-------------------------------- MODULE KMeans --------------------------------
(***************************************************************************)
(* The k-means functor (hpda/algorithm/kmeans.h) with Lloyd's algorithm    *)
(* (internal/kmeans_loyd.h), and its stream of points with their cluster,  *)
(* a raw_data it fills, below it: what the engine asks of the two.  Points *)
(* are integers; a mean is the fraction of a sum and a count, and that of  *)
(* no points is not a number.  The stream of the means is not asked for.   *)
(***************************************************************************)
EXTENDS Integers, Sequences, FiniteSets, SequencesExt, Functions

CONSTANTS
  Coordinates, MaxPoints, Clusters,  \* points, bound on their number, m_k
  Delta,     \* the delta of the constructor
  Batches    \* the values of m_max_points

VARIABLES
  input,     \* the values of the functor above
  picker,    \* the InitialPointPicker
  max,       \* m_max_points
  fed,       \* how many values kmeans has consumed
  at,        \* whom the engine processes: "stream", "kmeans" or, in a run of
             \* Lloyd's, "rounds"; then "end" or "thrown"
  ended,     \* kmeans has status_end
  points, means, last, clusters, round,  \* m_all_points and the loyd_impl
  stream, index,  \* m_data and m_index of the stream
  starts,    \* the places in stream where a run of Lloyd's began to add
  given      \* what the stream has output

lloyd == <<means, last, clusters, round>>
vars  == <<input, picker, max, fed, at, ended, points, lloyd, stream, index, starts, given>>

K == 1 .. Clusters

\* Means as fractions, and euclidean::distance_square; comparisons with NaN
\* are all false.
NaN(m)   == m.count = 0
Point(p) == [sum |-> p, count |-> 1]
Abs(x)   == IF x < 0 THEN -x ELSE x
Far(m, n) ==  \* d >= m_delta
  ~NaN(m) /\ ~NaN(n) /\ Abs(m.sum * n.count - n.sum * m.count) >= Delta * m.count * n.count
Nearer(p, m, n) ==  \* p is nearer to m than to n
  ~NaN(m) /\ (NaN(n) \/ Abs(p * m.count - m.sum) * n.count < Abs(p * n.count - n.sum) * m.count)

\* points() of the two pickers
FirstK(v) == [i \in 1 .. (IF Len(v) < Clusters THEN Len(v) ELSE Clusters) |-> Point(v[i])]
EvenK(v)  == [i \in K |-> Point(v[1 + (((Len(v) \div Clusters) * (i - 1)) % Len(v))])]

CloseEnough(m, l) == \A i \in K : ~Far(m[i], l[i])

\* assign: the first of the nearest means; one at least is a number.
Index(p, m) ==
  CHOOSE i \in K : /\ ~NaN(m[i])
                   /\ \A j \in K : ~Nearer(p, m[j], m[i])
                   /\ \A j \in 1 .. i - 1 : Nearer(p, m[i], m[j])

\* The points of a cluster, in the order in which they came
Assigned(i) ==
  LET where == {j \in DOMAIN points : Index(points[j], means) = i}
      order == CHOOSE s \in [1 .. Cardinality(where) -> where] :
                 \A k, l \in DOMAIN s : k < l => s[k] < s[l]
  IN  [k \in DOMAIN order |-> points[order[k]]]

Sum(v) == FoldLeft(LAMBDA a, p : a + p, 0, v)
Mean(cluster) == [sum |-> Sum(cluster), count |-> Len(cluster)]

Init ==
  /\ input \in UNION {[1 .. n -> Coordinates] : n \in 1 .. MaxPoints}
  /\ picker \in {"even", "first"} /\ max \in Batches
  /\ fed = 0 /\ at = "stream" /\ ended = FALSE
  /\ points = <<>> /\ means = <<>> /\ last = <<>> /\ clusters = <<>> /\ round = 0
  /\ stream = <<>> /\ index = -1 /\ starts = {} /\ given = <<>>

-----------------------------------------------------------------------------
\* Faulty: moves on in a stream that is still empty.
StreamMovesEmpty ==
  /\ at = "stream"
  /\ index' = index + 1
  /\ IF stream # <<>> /\ index' < Len(stream)
     THEN given' = Append(given, index' + 1) /\ UNCHANGED at
     ELSE at' = (IF ended THEN "end" ELSE "kmeans") /\ UNCHANGED given
  /\ UNCHANGED <<input, picker, max, fed, ended, points, lloyd, stream, starts>>

\* raw_data::process: without a value kmeans is asked, unless it has ended.
Stream ==
  /\ at = "stream"
  /\ index' = IF stream = <<>> THEN index ELSE index + 1
  /\ IF stream # <<>> /\ index' < Len(stream)
     THEN given' = Append(given, index' + 1) /\ UNCHANGED at
     ELSE at' = (IF ended THEN "end" ELSE "kmeans") /\ UNCHANGED given
  /\ UNCHANGED <<input, picker, max, fed, ended, points, lloyd, stream, starts>>

\* The constructor of loyd_impl and the first lines of run(): m_last_means
\* holds default points.
Run(all) ==
  LET initial == IF picker = "first" THEN FirstK(all) ELSE EvenK(all) IN
  IF Len(initial) = Clusters
  THEN /\ at' = "rounds" /\ means' = initial /\ last' = [i \in K |-> Point(0)]
       /\ clusters' = [i \in K |-> <<>>] /\ round' = 0
  ELSE at' = "thrown" /\ UNCHANGED lloyd

\* kmeans: process(): with a value it keeps a copy until it has m_max_points;
\* without one it takes its input as ended.
Collect ==
  /\ at = "kmeans" /\ fed < Len(input)
  /\ fed' = fed + 1 /\ points' = Append(points, input[fed + 1])
  /\ IF Len(points') < max THEN UNCHANGED <<at, lloyd>> ELSE Run(points')
  /\ UNCHANGED <<input, picker, max, ended, stream, index, starts, given>>

InputEnds ==
  /\ at = "kmeans" /\ fed = Len(input)
  /\ IF points = <<>> THEN ended' = TRUE /\ at' = "stream" /\ UNCHANGED lloyd
                      ELSE Run(points) /\ UNCHANGED ended
  /\ UNCHANGED <<input, picker, max, fed, points, stream, index, starts, given>>

\* Faulty: the clusters keep the points of the round before.
RoundKeeps ==
  /\ at = "rounds" /\ ~CloseEnough(means, last)
  /\ round' = round + 1
  /\ clusters' = [i \in K |-> clusters[i] \o Assigned(i)]
  /\ last' = means
  /\ means' = [i \in K |-> Mean(clusters'[i])]
  /\ UNCHANGED <<input, picker, max, fed, at, ended, points, stream, index, starts, given>>

Round ==
  /\ at = "rounds" /\ ~CloseEnough(means, last)
  /\ round' = round + 1
  /\ clusters' = [i \in K |-> Assigned(i)]
  /\ last' = means
  /\ means' = [i \in K |-> Mean(clusters'[i])]
  /\ UNCHANGED <<input, picker, max, fed, at, ended, points, stream, index, starts, given>>

\* append_type adds the cluster to each point; process() returns true.
Classified == FlattenSeq([i \in K |-> [j \in DOMAIN clusters[i] |->
                                         [point |-> clusters[i][j], iid |-> i]]])

Finish ==
  /\ at = "rounds" /\ CloseEnough(means, last)
  /\ stream' = stream \o Classified
  /\ starts' = IF Classified = <<>> THEN starts ELSE starts \cup {Len(stream) + 1}
  /\ points' = <<>> /\ at' = "stream"
  /\ UNCHANGED <<input, picker, max, fed, ended, lloyd, index, given>>

Next == Stream \/ Collect \/ InputEnds \/ Round \/ Finish

\* run() goes on while a functor is left to process.
Fairness == WF_vars(Next)
Spec     == Init /\ [][Next]_vars /\ Fairness

-----------------------------------------------------------------------------
\* Twelve squared is a multiple of the squares of the counts up to four.
Distortion(c) ==
  Sum([i \in K |->
         IF c[i] = <<>> THEN 0
         ELSE Sum([j \in DOMAIN c[i] |->
                     (c[i][j] * Len(c[i]) - Sum(c[i])) ^ 2 * (144 \div Len(c[i]) ^ 2)])])

\* What a run of Lloyd's minimizes, the squared distances of the points to the
\* mean of their cluster, never grows from one round to the next, although a
\* cluster that loses its points has no mean (run, ll. 54-74); so a run ends,
\* and with it the engine's (is_all_means_close_enough, ll. 85-94).
LloydConverges ==
  /\ [][Round /\ round > 0 => Distortion(clusters') <= Distortion(clusters)]_vars
  /\ (at = "rounds") ~> (at # "rounds")

\* The stream gives every row that is added to it if one run of Lloyd's adds
\* them all.  Each later one loses rows: asked when it had no more to give, the
\* stream moved to their place (process of raw_data, ll. 20-31; process of
\* kmeans, ll. 93-146).
OneRunIsGiven ==
  at = "end" => (given = [i \in DOMAIN stream |-> i] <=> Cardinality(starts) <= 1)
=============================================================================
