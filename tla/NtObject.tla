------------------------------- MODULE NtObject -------------------------------
(***************************************************************************)
(* util::ntobject (ff/util/ntobject.h) and the vectors of them, ntarray    *)
(* and the m_data of functors.  A copy of an ntobject is a second handle   *)
(* on the same content, an assignment copies the fields into the content   *)
(* of its left side, and make_copy makes a content of its own.  The uses   *)
(* are those of the functors: a row is handed over once and not set again, *)
(* and the values they give out are read.                                  *)
(***************************************************************************)
EXTENDS Integers, Sequences, FiniteSetsExt

CONSTANTS Columns, Values, Blank, MaxRows

VARIABLES
  content,   \* what the contents hold that the shared_ptrs point at
  data,      \* the content of the caller's ntobject
  out,       \* that of the one output_value() returned
  rows       \* those of the vector of ntobjects

vars == <<content, data, out, rows>>

Contents == 1 .. MaxRows + 3
Live     == {data, out} \cup {rows[i] : i \in DOMAIN rows}

\* new content_type(): any that is not in use; one for the states alike
Fresh == Min(Contents \ Live)
With(mem, c, fields) == [d \in DOMAIN mem \cup {c} |-> IF d = c THEN fields ELSE mem[d]]
New(mem, c) == With(mem, c, [CT \in Columns |-> Blank])

\* set<CT>(value), on the content itself, and the fields it shares with another
Set(mem, c, CT, value) == [mem EXCEPT ![c][CT] = value]
Assign(mem, c, d)      == With(mem, c, mem[d])

\* A content goes with the last handle on it.
Keep(mem) == content' = [c \in Live' |-> mem[c]]

Init ==
  /\ content = [c \in {1} |-> [CT \in Columns |-> Blank]]
  /\ data = 1 /\ out = 1 /\ rows = <<>>

-----------------------------------------------------------------------------
\* data_t data;
Construct ==
  /\ data' = Fresh /\ UNCHANGED <<out, rows>>
  /\ Keep(New(content, Fresh))

SetField ==
  /\ data \notin {rows[i] : i \in DOMAIN rows}
  /\ \E CT \in Columns, value \in Values : content' = Set(content, data, CT, value)
  /\ UNCHANGED <<data, out, rows>>

\* raw_data::add_data(data): the vector has the caller's content.
HandOver ==
  /\ Len(rows) < MaxRows /\ data \notin {rows[i] : i \in DOMAIN rows}
  /\ rows' = Append(rows, data)
  /\ UNCHANGED <<content, data, out>>

\* Faulty: without make_copy.
PushAlias ==
  /\ Len(rows) < MaxRows
  /\ rows' = Append(rows, data) /\ UNCHANGED <<content, data, out>>

\* m_data.push_back(input_value().make_copy())
PushCopy ==
  /\ Len(rows) < MaxRows
  /\ rows' = Append(rows, Fresh) /\ UNCHANGED <<data, out>>
  /\ Keep(Assign(content, Fresh, data))

\* output_value() returns m_data[i], another handle; and the caller's copy
OutputValue ==
  /\ \E i \in DOMAIN rows : out' = rows[i]
  /\ UNCHANGED <<data, rows>>
  /\ Keep(content)

CopyOutput ==
  /\ data' = Fresh /\ UNCHANGED <<out, rows>>
  /\ Keep(Assign(content, Fresh, out))

\* T tmp = arr[i].make_copy(); arr[i] = arr[j]; arr[j] = tmp;
Exchanged(i, j) ==
  Assign(Assign(Assign(content, Fresh, rows[i]), rows[i], rows[j]), rows[j], Fresh)

Swap ==
  /\ UNCHANGED <<data, out, rows>>
  /\ \E i, j \in DOMAIN rows : Keep(Exchanged(i, j))

Clear ==
  /\ rows' = <<>> /\ UNCHANGED <<data, out>>
  /\ Keep(content)

Next ==
  \/ Construct \/ SetField \/ HandOver \/ PushCopy \/ OutputValue
  \/ CopyOutput \/ Swap \/ Clear

Spec == Init /\ [][Next]_vars

-----------------------------------------------------------------------------
Rows == INSTANCE Table WITH
          columns <- Columns, table <- [i \in DOMAIN rows |-> content[rows[i]]]

\* The vector is a table of rows although ntobjects are handles: nothing the
\* functors do to one row, to the row they were given or to one they have given
\* out is seen in another (partition in pp_processor.h, ll. 131-151, which
\* exchanges rows by assignment; process, l. 97, which keeps copies).
RowsAreTheirOwn == Rows!Spec
=============================================================================
