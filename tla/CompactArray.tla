----------------------------- MODULE CompactArray -----------------------------
(***************************************************************************)
(* util::ntcompact_array (ff/util/ntcompact_array.h): rows whose columns   *)
(* lie in several vectors, one for each nt_collect of the nt_layout.       *)
(* Indices start from 1.  What reads or writes past the vectors, which     *)
(* operator[] does not check, is outside the legal uses and left out.      *)
(***************************************************************************)
EXTENDS Integers, Sequences, SequencesExt

CONSTANTS
  Columns,   \* the types define_nt makes
  Values, Blank,  \* their values; what a new element of a vector holds
  Layouts,   \* the layouts used: sequences of collects, which are sequences of columns
  MaxRows    \* bound: rows of an array

VARIABLES
  layout,    \* the nt_layout of the array at hand
  m_data,    \* nt_layout_storage::m_data: for each collect its m_data
  at,        \* the index an iterator or a reference to an element holds
  crashed    \* a function without its return statement has run

vars == <<layout, m_data, at, crashed>>

ColumnsOf(lay) == UNION {ToSet(lay[k]) : k \in DOMAIN lay}

\* The collect that CT lies in: the first that lists it
CIndex(lay, CT) == SelectInSeq(lay, LAMBDA collect : Contains(collect, CT))

Size(data) == Len(data[1])
Get(lay, data, i, CT) == data[CIndex(lay, CT)][i][CT]

\* set<CT, CT1, ...>: the fields one after the other
SetFields(lay, data, i, fields) ==
  [k \in DOMAIN data |->
     [data[k] EXCEPT ![i] =
        [CT \in DOMAIN @ |-> IF CT \in DOMAIN fields /\ CIndex(lay, CT) = k
                             THEN fields[CT] ELSE @[CT]]]]

\* emplace_back<0>: a new element in each collect, and the last place of all
EmplaceBack(lay, data) ==
  [k \in DOMAIN data |-> Append(data[k], [CT \in ToSet(lay[k]) |-> Blank])]

\* Faulty: takes the place before the new one.
PushFieldsOffByOne(lay, data, fields) ==
  LET more == EmplaceBack(lay, data) IN SetFields(lay, more, Size(data), fields)

PushFields(lay, data, fields) ==
  LET more == EmplaceBack(lay, data) IN SetFields(lay, more, Size(more), fields)

\* push_back of a row of some other type: each column of the layout from it
PushRow(lay, data, row) == PushFields(lay, data, [CT \in ColumnsOf(lay) |-> row[CT]])

Row(lay, data, i) == [CT \in ColumnsOf(lay) |-> Get(lay, data, i, CT)]

NoRows(lay) == [k \in DOMAIN lay |-> <<>>]

\* reshape: an array of another layout, to which the rows are pushed
Reshaped(lay) ==
  LET n == Size(m_data)
      na[i \in 0 .. n] ==
        IF i = 0 THEN NoRows(lay) ELSE PushRow(lay, na[i - 1], Row(layout, m_data, i))
  IN  na[n]

Init ==
  /\ layout \in Layouts /\ ColumnsOf(layout) = Columns
  /\ m_data = NoRows(layout) /\ at = 1 /\ crashed = FALSE

-----------------------------------------------------------------------------
Full == Size(m_data) = MaxRows
Fields(C) == UNION {[D -> Values] : D \in SUBSET C \ {{}}}

\* push_back<CT...>(...): a column left out stays Blank.
PushElements ==
  /\ ~Full
  /\ \E fields \in Fields(ColumnsOf(layout)) : m_data' = PushFields(layout, m_data, fields)
  /\ UNCHANGED <<layout, at, crashed>>

PushObject ==
  /\ ~Full
  /\ \E row \in [Columns -> Values] : m_data' = PushRow(layout, m_data, row)
  /\ UNCHANGED <<layout, at, crashed>>

\* a.push_back(a[at]): the reference holds an index, and is read when the
\* vectors have grown.
PushElement ==
  /\ ~Full /\ at \in 1 .. Size(m_data)
  /\ LET more == EmplaceBack(layout, m_data)
     IN m_data' = SetFields(layout, more, Size(more), Row(layout, more, at))
  /\ UNCHANGED <<layout, at, crashed>>

\* begin, end, ++, --, += and -=, and operator[], at, front and back
Move == at' \in 1 .. Size(m_data) + 1 /\ UNCHANGED <<layout, m_data, crashed>>

SetElement ==
  /\ at \in 1 .. Size(m_data)
  /\ \E fields \in Fields(ColumnsOf(layout)) : m_data' = SetFields(layout, m_data, at, fields)
  /\ UNCHANGED <<layout, at, crashed>>

\* pop_back_helper and clear_helper flow off their end, which has no defined
\* meaning: a build without optimization goes on, one with -O2 does not.
PopBack ==
  /\ Size(m_data) > 0
  /\ \/ crashed' = TRUE /\ UNCHANGED m_data
     \/ m_data' = [k \in DOMAIN m_data |-> Front(m_data[k])] /\ UNCHANGED crashed
  /\ UNCHANGED <<layout, at>>

Clear ==
  /\ \/ crashed' = TRUE /\ UNCHANGED m_data
     \/ m_data' = NoRows(layout) /\ UNCHANGED crashed
  /\ UNCHANGED <<layout, at>>

\* reshape<Collects...>(), and the new array is used from then on
Reshape ==
  /\ \E lay \in Layouts :
       /\ ColumnsOf(lay) \subseteq ColumnsOf(layout)
       /\ layout' = lay
       /\ m_data' = Reshaped(lay)
  /\ at' = 1 /\ UNCHANGED crashed

Next ==
  /\ ~crashed
  /\ \/ PushElements \/ PushObject \/ PushElement \/ Move \/ SetElement
     \/ PopBack \/ Clear \/ Reshape

Spec == Init /\ [][Next]_vars

-----------------------------------------------------------------------------
Rows == INSTANCE Table WITH
          columns <- ColumnsOf(layout),
          table <- [i \in 1 .. Size(m_data) |-> Row(layout, m_data, i)]

\* The array is a table of rows: a push, also of one of its own elements,
\* adds one row, a set changes one, a reshape keeps the values of the columns
\* it takes, whatever collects they lie in before and after (reshape, ll.
\* 574-590; push_back_with_ntobject, ll. 247-250).
ImplementsTable == Rows!Spec
=============================================================================
