---------------------------- MODULE QueryFunctors ----------------------------
(***************************************************************************)
(* The functors of doc_example/3.4 and 4: the hash splits, the functors    *)
(* that buffer their whole input before they offer a row (group_and_sort,  *)
(* max_n, sort), and cal_distance.                                         *)
(*                                                                         *)
(* A row of the csv file has the phone number k and one place with its     *)
(* time, n; places lie on a line, which replaces the great-circle          *)
(* formula.  A grouped row has for n the vector of the places of k.        *)
(***************************************************************************)
EXTENDS HpdaFunctors

timestamp(n) == n \div 10
position(n)  == n % 10

\* m_streams[hashFunc(key) % m_streams.size()]
Route(f, key) == LET m_streams == SetToSeq(Streams(f)) IN m_streams[(key % Len(m_streams)) + 1]

\* hash_splitter, hash_split_pp: the row goes to one stream.
HashProcess(f, ok, used) ==
  /\ Kind[f] = "hash"
  /\ ok = (Streams(f) # {} /\ Live(f) # {})
  /\ used = IF ok THEN Offered(f) ELSE {}
  /\ data' = IF ok THEN [data EXCEPT ![Route(f, Key(Up(f)))] = Append(@, OutputValue(Up(f)))] ELSE data
  /\ UNCHANGED <<index, row, group, sorted>>

-----------------------------------------------------------------------------
\* arr with the elements at i and j exchanged.
Swap(arr, i, j) == [arr EXCEPT ![i] = arr[j], ![j] = arr[i]]

\* The pairs of elements the program's comparison puts in this order.
Earlier(places) == {xy \in places \X places : timestamp(xy[1]) <= timestamp(xy[2])}
Smaller(rows)   == {xy \in rows \X rows : xy[1].k < xy[2].k}

\* partition: the elements below the last of arr[low .. high] move in front of
\* the others; returns the vector and the place of the pivot.
Partition(arr, low, high, below) ==
  LET Step(p, j) == IF <<p.arr[j], arr[high]>> \in below
                    THEN [arr |-> Swap(p.arr, p.i + 1, j), i |-> p.i + 1]
                    ELSE p
      end == FoldLeft(Step, [arr |-> arr, i |-> low - 1], [m \in 1 .. high - low |-> low + m - 1])
  IN  [arr |-> Swap(end.arr, end.i + 1, high), i |-> end.i + 1]

Quicksort(arr, below) ==
  LET Sort[a \in Seq(Range(arr)), low \in Nat, high \in Nat] ==
        IF low >= high THEN a
        ELSE LET cut == Partition(a, low, high, below)
             IN  Sort[Sort[cut.arr, low, cut.i - 1], cut.i + 1, high]
  IN  Sort[arr, 1, Len(arr)]

\* The rows of one phone, in the order they came; one output row for each phone,
\* its places sorted by time, in the order the hash map lists its keys.
Places(f, k) == LET of == SelectSeq(data[f], LAMBDA r : r.k = k)
                IN  [i \in DOMAIN of |-> of[i].n]
PlacesUnsorted(f, k) == Places(f, k)  \* faulty: not sorted
PlacesByTime(f, k) == Quicksort(Places(f, k), Earlier(Range(Places(f, k))))

Grouping(f) ==
  {[i \in DOMAIN phones |-> [k |-> phones[i], n |-> PlacesByTime(f, phones[i])]] :
     phones \in Listings({data[f][i].k : i \in DOMAIN data[f]})}

\* group_and_sort: keeps every row offered; the first call without one groups
\* and sorts them, and each call from then on offers the next group.
HistoryProcess(f, ok, used) ==
  /\ Kind[f] = "history"
  /\ used = Offered(f)
  /\ IF Live(f) # {}
     THEN /\ ~ok
          /\ data' = [data EXCEPT ![f] = Append(@, OutputValue(Up(f)))]
          /\ UNCHANGED <<index, sorted>>
     ELSE /\ IF sorted[f].done
             THEN UNCHANGED sorted
             ELSE \E rows \in Grouping(f) :
                    sorted' = [sorted EXCEPT ![f] = [done |-> TRUE, rows |-> rows]]
          /\ index' = IF sorted'[f].rows = <<>> THEN index ELSE [index EXCEPT ![f] = @ + 1]
          /\ ok = (index'[f] \in 0 .. Len(sorted'[f].rows) - 1)
          /\ UNCHANGED data
  /\ UNCHANGED <<row, group>>

\* calculateDistance: the length of the way along the places of a vector.
calculateDistance(v) ==
  FoldLeft(LAMBDA dist, i : LET d == position(v[i + 1]) - position(v[i])
                            IN  dist + (IF d < 0 THEN -d ELSE d),
           0, [i \in 1 .. Len(v) - 1 |-> i])

\* cal_distance
DistanceProcess(f, ok, used) ==
  /\ Kind[f] = "distance"
  /\ used = Offered(f)
  /\ ok = (Live(f) # {})
  /\ row' = IF ok THEN [row EXCEPT ![f] = [k |-> Key(Up(f)), n |-> calculateDistance(OutputValue(Up(f)).n)]]
            ELSE row
  /\ UNCHANGED <<data, index, group, sorted>>

\* insert: behind the last element that is not smaller; then the vector is cut to
\* the limit.
Insert(l, r) == InsertAt(l, Max({0} \cup {i \in DOMAIN l : l[i].n >= r.n}) + 1, r)
BoundedInFront(f, l) == IF Len(l) > Limit[f] THEN Tail(l) ELSE l  \* faulty: the greatest goes
Bounded(f, l) == IF Len(l) > Limit[f] THEN Front(l) ELSE l

\* max_n: as group_and_sort, keeping the greatest rows at every call.
TopProcess(f, ok, used) ==
  /\ Kind[f] = "top"
  /\ used = Offered(f)
  /\ IF Live(f) # {}
     THEN /\ ~ok
          /\ data' = [data EXCEPT ![f] = Bounded(f, Insert(@, OutputValue(Up(f))))]
          /\ UNCHANGED index
     ELSE /\ index' = IF data[f] = <<>> THEN index ELSE [index EXCEPT ![f] = @ + 1]
          /\ ok = (index'[f] \in 0 .. Len(data[f]) - 1)
          /\ UNCHANGED data
  /\ UNCHANGED <<row, group, sorted>>

\* sort of doc_example/4: m_sorted is never set, so every call without a value
\* on offer sorts the vector again, rows already given out included.
SortProcess(f, ok, used) ==
  /\ Kind[f] = "sort"
  /\ used = Offered(f)
  /\ IF Live(f) # {}
     THEN /\ ~ok
          /\ data' = [data EXCEPT ![f] = Append(@, OutputValue(Up(f)))]
          /\ UNCHANGED index
     ELSE /\ data' = [data EXCEPT ![f] = Quicksort(@, Smaller(Range(@)))]
          /\ index' = IF data[f] = <<>> THEN index ELSE [index EXCEPT ![f] = @ + 1]
          /\ ok = (index'[f] \in 0 .. Len(data[f]) - 1)
  /\ UNCHANGED <<row, group, sorted>>

QueryProcess(f, ok, used) ==
  \/ HashProcess(f, ok, used)
  \/ HistoryProcess(f, ok, used)
  \/ DistanceProcess(f, ok, used)
  \/ TopProcess(f, ok, used)
  \/ SortProcess(f, ok, used)
=============================================================================
