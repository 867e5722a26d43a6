-------------------------------- MODULE Table --------------------------------
(***************************************************************************)
(* What a vector of rows promises, however its rows are stored: each row   *)
(* has a value of its own for each of its columns, and an operation on one *)
(* row leaves the others as they are.                                      *)
(***************************************************************************)
EXTENDS Integers, Sequences

CONSTANT Values

VARIABLES columns, table

vars == <<columns, table>>

Rows == [columns -> Values]

Push == \E row \in Rows : table' = Append(table, row) /\ UNCHANGED columns

\* Some fields of one row
Change ==
  \E i \in DOMAIN table, row \in Rows :
    table' = [table EXCEPT ![i] = row] /\ UNCHANGED columns

Exchange ==
  \E i, j \in DOMAIN table :
    table' = [table EXCEPT ![i] = table[j], ![j] = table[i]] /\ UNCHANGED columns

Pop   == table # <<>> /\ table' = SubSeq(table, 1, Len(table) - 1) /\ UNCHANGED columns
Clear == table' = <<>> /\ UNCHANGED columns

\* A table of some of the columns takes its place.
Project ==
  \E some \in SUBSET columns :
    /\ columns' = some
    /\ table' = [i \in DOMAIN table |-> [c \in some |-> table[i][c]]]

Next == Push \/ Change \/ Exchange \/ Pop \/ Clear \/ Project

Spec == table = <<>> /\ [][Next]_vars
=============================================================================
