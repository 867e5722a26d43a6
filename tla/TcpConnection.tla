---------------------------- MODULE TcpConnection ----------------------------
(***************************************************************************)
(* One direction of a TCP connection of the net library                    *)
(* (tcp_connection_base.cpp, tcp_client.cpp, and net_nervure.cpp's answer  *)
(* to an error): send() queues packages, one write at a time empties the   *)
(* send buffer, and the other side cuts what it reads into packages and    *)
(* hands them to its handlers.                                             *)
(*                                                                         *)
(* Handlers run one at a time in the thread of the io_service, "io";       *)
(* send() is called from within one of them or by another thread.          *)
(***************************************************************************)
EXTENDS NetBuffer

CONSTANTS
  Limit,  \* start_send packs while the vector is shorter than this: 4096
  Wrong,  \* what four bytes that are no length may read as
  Uses    \* how the connection may be used, one of:
          \*   threads  1, send() is called in handlers, or 2, by a thread of its own
          \*   window   how many packages may be under way at once
          \*   partial  whether the socket may take a part of what it is given
          \*   ragged   whether a read may end inside a package behind a whole one

ASSUME TcpAssumption ==
  /\ Limit \in Nat /\ Limit > 2 * Inc
  /\ Wrong \subseteq Nat /\ Wrong # {}
  /\ Uses \subseteq [threads : {1, 2}, window : Nat, partial : BOOLEAN, ragged : BOOLEAN]

VARIABLES
  use,
  point,      \* m_iPointState of the sender
  toSend,     \* m_oToSendPkgs
  sendBuf,    \* m_oSendBuffer
  isSending,  \* m_bIsSending
  at,         \* where in send() and start_send() the two threads are
  writing,    \* the bytes of the async_write_some under way, none if there is none
  written,    \* how many of them it wrote, until its handler runs
  wire,       \* what the network has taken and not given yet
  recvBuf,    \* m_oRecvBuffer of the receiver, an async_read_some into it under way
  sent,       \* history: the packages pushed to m_oToSendPkgs
  got,        \* history: what the receiver's handlers were called with
  broken      \* the network has lost the connection

sendVars == <<toSend, sendBuf, isSending>>
netVars  == <<writing, written, wire>>
vars == <<use, point, sendVars, at, netVars, recvBuf, sent, got, broken>>

Threads == {"caller", "io"}

Init ==
  /\ use \in Uses
  /\ point = "init"
  /\ toSend = <<>> /\ sendBuf = Empty /\ isSending = FALSE
  /\ at = [t \in Threads |-> "idle"]
  /\ writing = <<>> /\ written = 0 /\ wire = <<>>
  /\ recvBuf = Empty
  /\ sent = <<>> /\ got = <<>>
  /\ broken = FALSE

\* A caller inside a handler and the io_service's next handler exclude each other.
Turn(t) == use.threads = 1 => \A u \in Threads \ {t} : at[u] = "idle"

Goto(t, spot) == at' = [at EXCEPT ![t] = spot]

-----------------------------------------------------------------------------
\* handle_connected.
Connected ==
  /\ point = "init"
  /\ \/ point' = "valid" /\ UNCHANGED broken
     \/ point' = "error" /\ broken' = TRUE
  /\ UNCHANGED <<use, sendVars, at, netVars, recvBuf, sent, got>>

\* send(): a connection that is not valid refuses the package, and nothing changes.
\* A program may keep to a limit of packages that have not arrived.
Send(p) ==
  /\ at["caller"] = "idle" /\ Turn("caller")
  /\ point = "valid"
  /\ p \notin {sent[i] : i \in DOMAIN sent} /\ Len(sent) - Len(got) < use.window
  /\ toSend' = Append(toSend, p) /\ sent' = Append(sent, p)
  /\ Goto("caller", "test")
  /\ UNCHANGED <<use, point, sendBuf, isSending, netVars, recvBuf, got, broken>>

\* Faulty: starts to send whether or not somebody does.
TestBlind ==
  /\ at["caller"] = "test"
  /\ isSending' = TRUE
  /\ Goto("caller", "start")
  /\ UNCHANGED <<use, point, toSend, sendBuf, netVars, recvBuf, sent, got, broken>>

Test ==
  /\ at["caller"] = "test"
  /\ isSending' = TRUE
  /\ Goto("caller", IF isSending THEN "idle" ELSE "start")
  /\ UNCHANGED <<use, point, toSend, sendBuf, netVars, recvBuf, sent, got, broken>>

\* start_send, one turn of its loop a step: the next package into the buffer, or
\* what is there to the socket, or nothing left to send.
PackNext(t) ==
  /\ at[t] = "start" /\ toSend # <<>> /\ Size(sendBuf) < Limit
  /\ toSend' = Tail(toSend)
  /\ sendBuf' = Pack(sendBuf, Head(toSend))
  /\ UNCHANGED <<use, point, isSending, at, netVars, recvBuf, sent, got, broken>>

Write(t) ==
  /\ at[t] = "start" /\ (toSend = <<>> \/ Size(sendBuf) >= Limit)
  /\ IF Filled(sendBuf) # 0
     THEN writing' = Readable(sendBuf) /\ Goto(t, "idle")
     ELSE Goto(t, "clear") /\ UNCHANGED writing
  /\ UNCHANGED <<use, point, sendVars, written, wire, recvBuf, sent, got, broken>>

Clear(t) ==
  /\ at[t] = "clear"
  /\ isSending' = FALSE
  /\ Goto(t, "idle")
  /\ UNCHANGED <<use, point, toSend, sendBuf, netVars, recvBuf, sent, got, broken>>

\* The socket takes what it is given, or a part.
Take ==
  /\ writing # <<>>
  /\ \E n \in 1 .. Len(writing) :
       /\ use.partial \/ n = Len(writing)
       /\ wire' = wire \o SubSeq(writing, 1, n)
       /\ written' = n
  /\ writing' = <<>>
  /\ UNCHANGED <<use, point, sendVars, at, recvBuf, sent, got, broken>>

\* Faulty: what was queued meanwhile waits for the next send().
HandleSentStops ==
  /\ written > 0 /\ at["io"] = "idle" /\ Turn("io")
  /\ sendBuf' = Erase(sendBuf, written) /\ written' = 0
  /\ Goto("io", "clear")
  /\ UNCHANGED <<use, point, toSend, isSending, writing, wire, recvBuf, sent, got, broken>>

\* handle_pkg_sent.
HandleSent ==
  /\ written > 0 /\ at["io"] = "idle" /\ Turn("io")
  /\ sendBuf' = Erase(sendBuf, written) /\ written' = 0
  /\ IF Filled(sendBuf') # 0
     THEN writing' = Readable(sendBuf') /\ UNCHANGED at
     ELSE Goto("io", "start") /\ UNCHANGED writing
  /\ UNCHANGED <<use, point, toSend, isSending, wire, recvBuf, sent, got, broken>>

-----------------------------------------------------------------------------
\* handle_received_pkg: slice_and_dispatch_pkg, then start_recv.
Package(bytes) ==
  IF \E p \in Packages : bytes = Content(p) THEN CHOOSE p \in Packages : bytes = Content(p) ELSE "garbled"

\* A read that completes a package ends with it, or with another one.
Even(found) == found.pieces = <<>> \/ found.rest.write = 0

Receive ==
  /\ \E n \in {m \in 1 .. Len(wire) : m <= Idle(recvBuf)}, wrong \in Wrong :
       LET found == Split(Store(recvBuf, SubSeq(wire, 1, n)), wrong) IN
       /\ use.ragged \/ Even(found)
       /\ got' = got \o [i \in DOMAIN found.pieces |-> Package(found.pieces[i])]
       /\ recvBuf' = Writeable(found.rest)
       /\ wire' = SubSeq(wire, n + 1, Len(wire))
  /\ UNCHANGED <<use, point, sendVars, at, writing, written, sent, broken>>

-----------------------------------------------------------------------------
Break ==
  /\ point = "valid" /\ ~broken
  /\ broken' = TRUE
  /\ UNCHANGED <<use, point, sendVars, at, netVars, recvBuf, sent, got>>

\* A handler gets the error, the sender's of its write or of the read it always
\* has under way, and net_nervure closes the connection, not under a caller
\* that is inside send().
HandleError ==
  /\ broken /\ point = "valid" /\ \A t \in Threads : at[t] = "idle"
  /\ point' = "closed"
  /\ writing' = <<>> /\ written' = 0
  /\ UNCHANGED <<use, sendVars, at, wire, recvBuf, sent, got, broken>>

-----------------------------------------------------------------------------
Sending == Test \/ \E t \in Threads : PackNext(t) \/ Write(t) \/ Clear(t)

Next ==
  \/ Connected \/ Break \/ HandleError
  \/ \E p \in Packages : Send(p)
  \/ Sending \/ Take \/ HandleSent \/ Receive

Spec == Init /\ [][Next]_vars

\* Threads run, the network delivers and asio calls the handlers; nobody is
\* obliged to send.
FairSpec == Spec /\ WF_vars(Sending) /\ WF_vars(Take) /\ WF_vars(HandleSent) /\ WF_vars(Receive)

-----------------------------------------------------------------------------
\* Who may touch the send buffer: whoever is in start_send, the write under way,
\* and the handler it will have.
Senders == {t \in Threads : at[t] \in {"start", "clear"}}
           \cup {w \in {"write"} : writing # <<>>} \cup {w \in {"handler"} : written > 0}

SenderTypeOK ==
  /\ use \in Uses
  /\ point \in {"init", "valid", "error", "closed"}
  /\ toSend \in Seq(Packages) /\ sendBuf \in Buffers /\ isSending \in BOOLEAN
  /\ at \in [Threads -> {"idle", "test", "start", "clear"}] /\ at["io"] # "test"
  /\ writing \in Seq(Bytes) /\ written \in Nat

\* m_bIsSending is a lock: at most one thread, write or handler has the send
\* buffer, and only while the flag is set, whichever thread calls send().
OneSender ==
  /\ \A s, u \in Senders : s = u
  /\ Senders # {} => isSending

\* A package that waits in m_oToSendPkgs waits for somebody: nobody else would
\* send it before the program sends again.
Attended == point = "valid" /\ toSend # <<>> => Senders # {} \/ at["caller"] = "test"

\* Where send() is called by handlers, as pingpong.cpp does.
AttendedInHandlers == use.threads = 1 => Attended

\* start_send always finds room to pack when it has sent everything: its limit
\* on the size of the vector, which never shrinks to what it holds, cannot stop
\* it for good.
RoomToPack == Filled(sendBuf) = 0 => Size(sendBuf) < Limit

\* The vector is longer than what it holds by no more than two increments.
Slack ==
  /\ Size(sendBuf) # 0 => Size(sendBuf) <= Filled(sendBuf) + 2 * Inc
  /\ sendBuf.write = 0 => sendBuf.read = 0
  /\ ~isSending \/ (\E t \in Threads : at[t] \in {"start", "clear"}) => sendBuf.read = 0

\* Handlers and the sends in them take turns; the flag is held by somebody, and
\* given back with nothing queued.
Turns == use.threads = 1 =>
  /\ at["caller"] = "idle" \/ at["io"] = "idle"
  /\ point = "valid" /\ isSending => Senders # {}
  /\ \A t \in Threads : at[t] = "clear" => toSend = <<>>

\* Before the connection is there nothing is sent.
Unused == point = "init" => ~isSending /\ toSend = <<>> /\ at["caller"] = "idle"

SenderInv == SenderTypeOK /\ Unused /\ OneSender /\ AttendedInHandlers /\ RoomToPack /\ Slack /\ Turns

\* The handlers get the packages of the other side, whole, once and in order.
Intact == Len(got) <= Len(sent) /\ got = SubSeq(sent, 1, Len(got))

C == INSTANCE Channel

\* The connection keeps the promise of Channel.
ImplementsChannel == C!Spec
=============================================================================
