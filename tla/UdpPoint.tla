------------------------------ MODULE UdpPoint ------------------------------
(***************************************************************************)
(* A udp point (udp_point.cpp), used from the handlers of its io service:  *)
(* sends are queued, one datagram is under way at a time, and a datagram   *)
(* may be lost or overtaken.  The bytes of a package are the package.      *)
(***************************************************************************)
EXTENDS Integers, Sequences

CONSTANTS
  Packages, Endpoints,
  MaxSends            \* bound: packages sent

VARIABLES
  point,      \* m_iPointState
  tasks,      \* m_oSendTasks, each a package and where it goes
  sending,    \* m_bIsSending
  sendBuf,    \* m_oSendBuffer, the packages in it
  sendTo,     \* m_oSendEndpoint
  underWay,   \* an async_send_to has not called its handler yet
  sends,      \* how many packages send() took
  net,        \* the datagrams handed to the network
  got         \* how many packages the handlers were given, whatever they were

vars == <<point, tasks, sending, sendBuf, sendTo, underWay, sends, net, got>>

NoEndpoint == "none"

Init ==
  /\ point = "valid" /\ tasks = <<>> /\ sending = FALSE
  /\ sendBuf = <<>> /\ sendTo = NoEndpoint /\ underWay = FALSE
  /\ sends = 0 /\ net = {} /\ got = 0

\* start_send with what is queued and what the buffer holds: the first task
\* packs its package and hands the buffer to the socket.
StartSend(queued, buf) ==
  /\ sending' = (queued # <<>>) /\ underWay' = (queued # <<>>)
  /\ IF queued = <<>>
     THEN tasks' = <<>> /\ sendBuf' = buf /\ UNCHANGED <<sendTo, net>>
     ELSE /\ tasks' = Tail(queued)
          /\ sendBuf' = Append(buf, Head(queued)) /\ sendTo' = Head(queued).to
          /\ net' = net \cup {[pkgs |-> sendBuf', to |-> sendTo']}

\* Faulty: sends whether or not a datagram is under way.
SendBlind(p, ep) ==
  /\ sends < MaxSends /\ point = "valid"
  /\ sends' = sends + 1
  /\ StartSend(Append(tasks, [pkg |-> p, to |-> ep]), sendBuf)
  /\ UNCHANGED <<point, got>>

\* send(); a point that is not valid drops the package.
Send(p, ep) ==
  LET queued == Append(tasks, [pkg |-> p, to |-> ep])
  IN  /\ sends < MaxSends
      /\ sends' = sends + 1
      /\ \/ point = "valid" /\ ~sending /\ StartSend(queued, sendBuf)
         \/ /\ point = "valid" /\ sending /\ tasks' = queued
            /\ UNCHANGED <<sending, sendBuf, sendTo, underWay, net>>
         \/ point # "valid" /\ UNCHANGED <<tasks, sending, sendBuf, sendTo, underWay, net>>
      /\ UNCHANGED <<point, got>>

\* Faulty: what was queued meanwhile waits for the next send().
HandleSentStops ==
  /\ underWay
  /\ sending' = FALSE /\ sendBuf' = <<>> /\ underWay' = FALSE
  /\ UNCHANGED <<point, tasks, sendTo, sends, net, got>>

\* handle_pkg_sent: a datagram goes whole, so the buffer is empty again.  It
\* does not look at m_iPointState.
HandleSent ==
  /\ underWay
  /\ StartSend(tasks, <<>>)
  /\ UNCHANGED <<point, sends, got>>

\* An error leaves m_bIsSending set: nothing is sent any more.
HandleSendError ==
  /\ underWay
  /\ point' = "error" /\ underWay' = FALSE
  /\ UNCHANGED <<tasks, sending, sendBuf, sendTo, sends, net, got>>

Lose ==
  /\ \E d \in net : net' = net \ {d}
  /\ UNCHANGED <<point, tasks, sending, sendBuf, sendTo, underWay, sends, got>>

\* handle_received_pkg of some point gets a datagram.  It counts the bytes as
\* filled before it copies them from buffer(), which points behind what is
\* filled: what is cut into packages are other bytes, and handlers get nothing
\* or something that nobody sent.
HandleReceived ==
  /\ point = "valid" /\ net # {} /\ got < MaxSends
  /\ net' \in {net \ {d} : d \in net}
  /\ got' \in {got, got + 1}
  /\ UNCHANGED <<point, tasks, sending, sendBuf, sendTo, underWay, sends>>

\* An error of the receiver also ends send(), though not what is queued.
HandleRecvError ==
  /\ point = "valid"
  /\ point' = "error"
  /\ UNCHANGED <<tasks, sending, sendBuf, sendTo, underWay, sends, net, got>>

Close ==
  /\ point # "closed"
  /\ point' = "closed" /\ underWay' = FALSE
  /\ UNCHANGED <<tasks, sending, sendBuf, sendTo, sends, net, got>>

Next ==
  \/ \E p \in Packages, ep \in Endpoints : Send(p, ep)
  \/ HandleSent \/ HandleSendError \/ Lose \/ HandleReceived
  \/ HandleRecvError \/ Close

\* The network takes what it is given and asio calls the handler.
Fairness == WF_vars(HandleSent)

Spec == Init /\ [][Next]_vars /\ Fairness

-----------------------------------------------------------------------------
\* Properties.

\* The endpoint and the buffer are members, overwritten by every task: a
\* datagram holds one package all the same, and goes where it was sent to.
OnePackageToItsEndpoint ==
  \A d \in net : Len(d.pkgs) = 1 /\ d.pkgs[1].to = d.to

\* What send() took is handed to the network, also after a failed receive,
\* unless a send fails or the point is closed.
QueuedIsSent == tasks # <<>> ~> (tasks = <<>> \/ (~underWay /\ point # "valid"))
=============================================================================
