-------------------------------- MODULE MCTcp --------------------------------
(***************************************************************************)
(* Uses of a connection for TLC: one package at a time, read in any        *)
(* pieces, as ping and pong are; several, read so that no piece holds a    *)
(* package and a part of the next; several read in any pieces; and several *)
(* sent by a thread of their own.                                          *)
(***************************************************************************)
EXTENDS TcpConnection

MCPackages == {"p", "q", "r"}
MCLength   == [p |-> 2, q |-> 3, r |-> 5]
PingPong   == [threads |-> 1, window |-> 1, partial |-> FALSE, ragged |-> TRUE]
Pieces     == [threads |-> 1, window |-> 3, partial |-> FALSE, ragged |-> FALSE]
Streamed   == [threads |-> 1, window |-> 2, partial |-> FALSE, ragged |-> TRUE]
Threaded   == [threads |-> 2, window |-> 3, partial |-> FALSE, ragged |-> FALSE]
Working    == {PingPong, Pieces}
Streaming  == {Streamed}
Threading  == {Threaded}
=============================================================================
