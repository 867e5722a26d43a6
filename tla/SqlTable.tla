------------------------------- MODULE SqlTable --------------------------------
(***************************************************************************)
(* A table of include/ff/sql/ and the mysql<cppconn> engine its statements *)
(* run on, with the database behind it (external): what is committed, and  *)
(* what the open transaction of the session has made of it.                *)
(*                                                                         *)
(* A statement is text with placeholders, and values that are bound to     *)
(* them by number; the model keeps of the text what the database takes out *)
(* of it: the columns in their order, and whether it is a statement at all.*)
(***************************************************************************)
EXTENDS Integers, Sequences, SequencesExt, FiniteSets

CONSTANTS
  Columns,     \* the columns of the table, in order
  KeyColumn,   \* the one that is a key
  Indexed,     \* those that are an index
  Values,      \* the values of a column
  Updates,     \* the column lists given to update_rows
  Conditions,  \* conditions, with their operands
  Asked,       \* those given to where
  Nested,      \* bound: how deep a condition nests
  MaxRows,     \* bound: rows of a call
  MaxCalls     \* bound: calls

VARIABLES
  exists,   \* the table is there
  indexes,  \* the columns it has an index for
  stored,   \* its committed rows
  open,     \* the session is in a transaction
  view,     \* the rows the session sees
  schema,   \* the session has a database
  ready,    \* m_schema_set
  call,     \* the call under way, or the last one
  calls     \* how many there were

vars == <<exists, indexes, stored, open, view, schema, ready, call, calls>>
data == <<exists, indexes, stored, open, view>>

AllColumns == Range(Columns)
Row == [AllColumns -> Values]
Unordered == [col |-> "none", desc |-> FALSE]
Called(name) == [name |-> name, at |-> "run", cols |-> Columns, rows |-> <<>>,
                 next |-> 1, result |-> <<>>, cond |-> [op |-> "true"],
                 order |-> Unordered, limit |-> 0]
Ended(how) == [call EXCEPT !.at = how]
Idle == call.at \notin {"run", "rows", "commit"}

\* The constructor connects and keeps whether setSchema() was accepted.
Init ==
  /\ exists = FALSE
  /\ indexes = {}
  /\ stored = {}
  /\ open = FALSE
  /\ view = {}
  /\ schema \in BOOLEAN
  /\ ready = schema
  /\ call = [Called("none") EXCEPT !.at = "returned"]
  /\ calls = 0

Begin(c) ==
  /\ Idle
  /\ calls < MaxCalls
  /\ call' = c
  /\ calls' = calls + 1

\* check_local_thread: a call from another thread throws.
WrongThread(name) ==
  /\ Begin([Called(name) EXCEPT !.at = "thrown"])
  /\ UNCHANGED <<data, schema, ready>>

\* create_database makes it unless m_schema_set, which stays as it is; the database
\* commits what is open, and either of the two statements may fail.
CreateDatabase ==
  /\ \E how \in {"returned", "thrown"} :
       /\ Begin([Called("create_database") EXCEPT !.at = how])
       /\ schema' = (schema \/ how = "returned")
       /\ \/ (ready \/ how = "thrown") /\ UNCHANGED data
          \/ ~ready /\ stored' = view /\ open' = FALSE /\ UNCHANGED <<exists, indexes, view>>
  /\ UNCHANGED ready

\* The database executes a statement of the session: it fails without a schema
\* or a table.
Works == schema /\ exists

\* What changes rows is committed at once, unless a transaction is open.
Write(rows) ==
  /\ view' = rows
  /\ stored' = IF open THEN stored ELSE rows
  /\ UNCHANGED <<exists, indexes, open>>

-----------------------------------------------------------------------------
\* create_table: the table, then an index for each column that is one; the last
\* column's text is cleared before it is executed.  An index that is there
\* already is an error.  The database commits first.
MadeIndexes == Indexed \cap {Columns[i] : i \in 1 .. Len(Columns) - 1}

CreateTable ==
  /\ LET fails == ~schema \/ (MadeIndexes \cap indexes # {})
     IN  Begin([Called("create_table") EXCEPT !.at =
                  IF fails THEN "thrown" ELSE "returned"])
  /\ IF schema
     THEN /\ exists' = TRUE
          /\ indexes' = indexes \cup MadeIndexes
          /\ stored' = view
          /\ open' = FALSE
          /\ UNCHANGED view
     ELSE UNCHANGED data
  /\ UNCHANGED <<schema, ready>>

DropTable ==
  /\ Begin([Called("drop_table") EXCEPT !.at = IF Works THEN "returned" ELSE "thrown"])
  /\ IF Works
     THEN exists' = FALSE /\ indexes' = {} /\ stored' = {} /\ view' = {} /\ open' = FALSE
     ELSE UNCHANGED data
  /\ UNCHANGED <<schema, ready>>

ClearTable ==
  /\ Begin([Called("clear_table") EXCEPT !.at = IF Works THEN "returned" ELSE "thrown"])
  /\ IF Works THEN Write({}) ELSE UNCHANGED data
  /\ UNCHANGED <<schema, ready>>

\* delete_rows ends its text with a semicolon, and where() goes on behind it;
\* eval() of the statement alone throws by itself.
DeleteRows ==
  /\ Begin([Called("delete_rows") EXCEPT !.at = "thrown"])
  /\ UNCHANGED <<data, schema, ready>>

-----------------------------------------------------------------------------
\* insert_or_replace_rows and update_rows: nothing to do without rows.
Modify(name, cols, rows) ==
  /\ Begin([Called(name) EXCEPT !.cols = cols, !.rows = rows,
              !.at = IF rows = <<>> THEN "returned" ELSE "run"])
  /\ UNCHANGED <<data, schema, ready>>

Insert == \E n \in 0 .. MaxRows : \E rows \in [1 .. n -> Row] :
            Modify("insert", Columns, rows)
Update == \E cols \in Updates, n \in 0 .. MaxRows : \E rows \in [1 .. n -> Row] :
            Modify("update", cols, rows)

\* begin_transaction: a transaction that an earlier call left open is committed.
StartTransaction ==
  /\ call.at = "run"
  /\ IF schema
     THEN /\ stored' = view
          /\ open' = TRUE
          /\ call' = Ended("rows")
     ELSE UNCHANGED <<stored, open>> /\ call' = Ended("thrown")
  /\ UNCHANGED <<exists, indexes, view, schema, ready, calls>>

\* The placeholders of an update: each column but the key, then the key.  The
\* comma behind each column but the last leaves one before "where" when the key
\* is the last.
Others(cols) ==
  LET kept  == {i \in DOMAIN cols : cols[i] # KeyColumn}
      order == CHOOSE s \in [1 .. Cardinality(kept) -> kept] :
                 \A k, l \in DOMAIN s : k < l => s[k] < s[l]
  IN  [k \in DOMAIN order |-> cols[order[k]]]

Placeholders == IF call.name = "insert" THEN call.cols
                ELSE Append(Others(call.cols), KeyColumn)
IsStatement == call.name = "insert" \/ Last(call.cols) # KeyColumn

\* Faulty: the key stays where it is.
BindInPlace(name, cols) == cols

\* traverse_row_for_bind binds in order; .._and_put_key_to_last binds the key
\* when it comes back from the columns behind it.
BindOrder(name, cols) ==
  IF name = "insert" THEN cols ELSE Append(Others(cols), KeyColumn)

Bound == LET row == call.rows[call.next]
             order == BindOrder(call.name, call.cols)
         IN  [c \in Range(Placeholders) |->
               row[order[CHOOSE i \in DOMAIN Placeholders : Placeholders[i] = c]]]

\* The database: replace puts the row for all with its key; update sets the
\* columns of the rows with the key.
Effect(rows, b) ==
  IF call.name = "insert"
  THEN {r \in rows : r[KeyColumn] # b[KeyColumn]} \cup {b}
  ELSE {IF r[KeyColumn] = b[KeyColumn]
        THEN [c \in AllColumns |-> IF c \in DOMAIN b THEN b[c] ELSE r[c]]
        ELSE r : r \in rows}

\* One turn of the loop over the rows: prepare, bind, execute.
ExecuteRow ==
  /\ call.at = "rows"
  /\ Works /\ IsStatement
  /\ view' = Effect(view, Bound)
  /\ call' = [call EXCEPT !.next = @ + 1,
                          !.at = IF call.next = Len(call.rows) THEN "commit" ELSE "rows"]
  /\ UNCHANGED <<exists, indexes, stored, open, schema, ready, calls>>

\* An error: the exception leaves the transaction open.
RowFails ==
  /\ call.at \in {"rows", "commit"}
  /\ call' = Ended("thrown")
  /\ UNCHANGED <<data, schema, ready, calls>>

\* end_transaction
Commit ==
  /\ call.at = "commit"
  /\ stored' = view
  /\ open' = FALSE
  /\ call' = Ended("returned")
  /\ UNCHANGED <<exists, indexes, view, schema, ready, calls>>

\* The connection is lost: the database rolls back, unless it has carried out a
\* commit whose reply is lost, and a new engine connects.
ConnectionLost ==
  /\ stored' = stored \/ (call.at = "commit" /\ stored' = view)
  /\ view' = stored'
  /\ open' = FALSE
  /\ ready' = schema
  /\ call' = Ended("thrown")
  /\ UNCHANGED <<exists, indexes, schema, calls>>

-----------------------------------------------------------------------------
\* A condition is a tree: "true", a comparison, or two conditions and how they
\* are joined.
Joins(c) == c.op \in {"and", "or"}
Trees ==
  \E depth \in [Conditions -> 0 .. Nested] : \A c \in Conditions :
    IF Joins(c)
    THEN /\ {c.left, c.right} \subseteq Conditions
         /\ depth[c.left] < depth[c] /\ depth[c.right] < depth[c]
    ELSE c.op = "true" \/ c.value \in Values

\* Its comparisons in the order in which dump_to_sql_string writes their
\* placeholders.
Leaves[c \in Conditions] ==
  IF Joins(c) THEN Leaves[c.left] \o Leaves[c.right]
  ELSE IF c.op = "true" THEN <<>> ELSE <<c>>

\* Faulty: the right operand's values first.
RightFirst(left, right) == right \o left

LeftFirst(left, right) == left \o right

\* The values in the order in which they are bound.
BoundValues[c \in Conditions] ==
  IF Joins(c) THEN LeftFirst(BoundValues[c.left], BoundValues[c.right])
  ELSE IF c.op = "true" THEN <<>> ELSE <<c.value>>

Compare(op, a, b) ==
  CASE op = "eq" -> a = b [] op = "ne" -> a # b [] op = "ge" -> a >= b [] op = "le" -> a <= b

\* The rows for which two conditions hold that are joined by op, and those for
\* which a comparison with a value does.
Join(op, left, right) == IF op = "and" THEN left \cap right ELSE left \cup right
Found(c, value)       == {r \in Row : Compare(c.op, r[c.col], value)}

\* The database evaluates the text: the placeholders take the values by number.
Filled(c) == {values \in Seq(Values) : Len(values) = Len(Leaves[c])}
Holds[c \in Conditions] ==
  [values \in Filled(c) |->
     IF Joins(c)
     THEN LET n == Len(Leaves[c.left])
          IN  Join(c.op, Holds[c.left][SubSeq(values, 1, n)],
                         Holds[c.right][SubSeq(values, n + 1, Len(values))])
     ELSE IF c.op = "true" THEN Row ELSE Found(c, values[1])]

InOrder(order, s) ==
  order.col # "none" => \A i, j \in DOMAIN s : i < j =>
    IF order.desc THEN s[i][order.col] >= s[j][order.col]
                  ELSE s[i][order.col] <= s[j][order.col]

Orders == {Unordered} \cup [col : AllColumns, desc : BOOLEAN]

\* select().where().order_by().limit(): limit throws when it is not positive; 0
\* stands for a chain without limit and -1 for limit(0).
SelectRows(cond, order, limit) ==
  /\ IF ~Works \/ limit < 0
     THEN Begin([Called("select") EXCEPT !.at = "thrown"])
     ELSE LET hits == view \cap Holds[cond][BoundValues[cond]]
              size == IF limit = 0 \/ limit > Cardinality(hits)
                      THEN Cardinality(hits) ELSE limit
          IN  \E s \in SetToSeqs(hits) :
                /\ InOrder(order, s)
                /\ Begin([Called("select") EXCEPT !.at = "returned", !.cond = cond,
                            !.order = order, !.limit = limit,
                            !.result = SubSeq(s, 1, size)])
  /\ UNCHANGED <<data, schema, ready>>

Next ==
  \/ WrongThread("any") \/ CreateDatabase
  \/ CreateTable \/ DropTable \/ ClearTable \/ DeleteRows
  \/ Insert \/ Update
  \/ StartTransaction \/ ExecuteRow \/ RowFails \/ Commit \/ ConnectionLost
  \/ /\ Idle /\ calls < MaxCalls
     /\ \E cond \in Asked, order \in Orders, limit \in {-1, 0, 1} :
          SelectRows(cond, order, limit)

Spec == Init /\ [][Next]_vars

-----------------------------------------------------------------------------
\* The rows for which what the caller wrote holds, without text and numbers.
Meant[c \in Conditions] ==
  IF Joins(c) THEN Join(c.op, Meant[c.left], Meant[c.right])
  ELSE IF c.op = "true" THEN Row ELSE Found(c, c.value)

\* A select gives rows that satisfy the condition as it was written, in the
\* order asked for; it leaves some out only for its limit, and none that comes
\* before one it gives.
SelectsWhatIsAsked ==
  (call.name = "select" /\ call.at = "returned") =>
    LET hits == view \cap Meant[call.cond]
        left == hits \ Range(call.result)
    IN  /\ Range(call.result) \subseteq hits
        /\ left # {} => Len(call.result) = call.limit
        /\ InOrder(call.order, call.result)
        /\ \A r \in left : call.result = <<>> \/ InOrder(call.order, <<Last(call.result), r>>)

LastWith(rows, key) ==
  LET same == {i \in DOMAIN rows : rows[i][KeyColumn] = key}
  IN  rows[CHOOSE i \in same : \A j \in same : j <= i]

\* When insert_or_replace_rows or update_rows returns true every row of the
\* call is committed with the values that were given for each of its columns,
\* and no other row or column was changed by it.
ReturnedIsStored ==
  [][(Commit /\ call.at = "commit") =>
       LET keys == {call.rows[i][KeyColumn] : i \in DOMAIN call.rows}
           given == Range(call.cols)
       IN  /\ ~open'
           /\ \A r \in stored' : r[KeyColumn] \in keys =>
                \A c \in given : r[c] = LastWith(call.rows, r[KeyColumn])[c]
           /\ call.name = "insert" =>
                \A k \in keys : \E r \in stored' : r[KeyColumn] = k
           /\ {r \in stored' : r[KeyColumn] \notin keys} = {r \in stored : r[KeyColumn] \notin keys}
           /\ call.name = "update" => \A r \in stored : \E q \in stored' :
                \A c \in AllColumns \ (given \ {KeyColumn}) : q[c] = r[c]]_vars
=============================================================================
