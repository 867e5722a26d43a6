-------------------------------- MODULE NetIo --------------------------------
(***************************************************************************)
(* One stream between two programs: the functor to_net at the end of one   *)
(* pipeline and from_net at the start of another (doc_example/3.4/netio.h),*)
(* each with a net_nervure that runs in a thread of its own.  Four threads *)
(* share the state: the two that call process(), and the two io threads.   *)
(* to_net sends from its caller's thread while the io thread writes, the   *)
(* use of a connection (tcp_connection_base.cpp) that TcpConnection follows *)
(* byte by byte; here a step moves packages.                               *)
(***************************************************************************)
EXTENDS Integers, Sequences

CONSTANT MaxValues       \* bound: values the upper stream of to_net can hold

VARIABLES
  values,   \* how many values the stream above to_net produces
  early,    \* the processors whose owner destroys them before their end
  whole,    \* no read ends inside a package that follows a whole one
  failed,   \* history: the network failed, or refused to connect or to accept
  sent,     \* the values process() of to_net has consumed
  to,       \* to_net's caller: the step it is at
  server,   \* to_net::server: "unset", "live", "error", or "freed" by net_nervure
  toIo,     \* to_net's io thread
  line,     \* packages sent and not received; End is the end flag
  taken,    \* how many of them start_send took: the rest is in m_oToSendPkgs
  sending,  \* m_bIsSending
  write,    \* "busy" while a write is under way, "clear" before its handler clears sending
  from,     \* from_net's caller: the step it is at
  fromIo,   \* from_net's io thread
  client,   \* from_net's connection: "none", "live" once accepted, "lost"
  running,  \* from_net::net_module_running
  safe,     \* net_nervure::m_safe_to_stop of from_net
  posted,   \* stop() posted internal_stop to the io service
  mutex,    \* who holds from_net::got_end_flag_mtx
  queue,    \* from_net::queue, a SafeQueue
  gotEnd,   \* from_net::got_end_flag
  out       \* the values process() of from_net has produced

toVars   == <<values, early, whole, sent, to, server, toIo, sending, write>>
lineVars == <<line, taken>>
fromVars == <<from, fromIo, client, running, safe, posted, mutex, queue, gotEnd, out>>
vars     == <<toVars, failed, lineVars, fromVars>>

Sides == {"to_net", "from_net"}
End   == 0

\* to_net has begun to connect.  from_net is made, its acceptor bound and its
\* thread not running yet, or its program has still to start.
Init ==
  /\ values \in 0 .. MaxValues /\ early \in SUBSET Sides /\ whole \in BOOLEAN
  /\ failed = FALSE
  /\ sent = <<>> /\ to = "wait" /\ server = "unset" /\ toIo = "connecting"
  /\ line = <<>> /\ taken = 0 /\ sending = FALSE /\ write = "none"
  /\ from = "idle" /\ fromIo \in {"none", "made"} /\ client = "none" /\ running = TRUE
  /\ safe = TRUE /\ posted = FALSE /\ mutex = "free"
  /\ queue = <<>> /\ gotEnd = FALSE /\ out = <<>>

-----------------------------------------------------------------------------
\* to_net: its caller.

\* send(): the package is queued, unless the connection has an error.  A
\* connection the error handler erased is gone with its last reference; a send
\* through the pointer kept in server has no defined meaning.
Push(p, queued, returned) ==
  CASE server = "live"  -> line' = Append(line, p) /\ to' = queued
    [] server = "error" -> UNCHANGED line /\ to' = returned
    [] OTHER            -> UNCHANGED line /\ to' = "undefined"

Consume == sent' = IF to' = "undefined" THEN sent ELSE Append(sent, Len(sent) + 1)

\* Faulty: does not wait for the connection.
ToProcessEager ==
  /\ to = "wait" /\ Len(sent) < values
  /\ Push(Len(sent) + 1, "value", "wait") /\ Consume
  /\ UNCHANGED <<fromVars, values, early, whole, failed, server, toIo, taken, sending, write>>

\* process() waits for the connection, then sends one value.
ToProcess ==
  /\ to = "wait" /\ server # "unset" /\ Len(sent) < values
  /\ Push(Len(sent) + 1, "value", "wait") /\ Consume
  /\ UNCHANGED <<fromVars, values, early, whole, failed, server, toIo, taken, sending, write>>

\* stop_net_module: the end flag, then join.  The owner destroys to_net once
\* process() has returned false with nothing above it, or early.
ToDestroy ==
  /\ to = "wait"
  /\ \/ "to_net" \in early
     \/ server # "unset" /\ Len(sent) = values
  /\ Push(End, "flag", "join")
  /\ UNCHANGED <<fromVars, values, early, whole, failed, sent, server, toIo, taken, sending, write>>

\* start_send packs what it finds, or as much as its limit allows.
StartSend(nothing) ==
  IF taken < Len(line) THEN taken' \in taken + 1 .. Len(line) /\ write' = "busy"
                       ELSE UNCHANGED taken /\ write' = nothing

\* The rest of send(): whoever finds the flag set leaves the package to the
\* sender there is.
TestSending ==
  /\ to \in {"value", "flag"}
  /\ IF server = "freed" THEN to' = "undefined" /\ UNCHANGED <<taken, sending, write>>
     ELSE /\ to' = IF to = "value" THEN "wait" ELSE "join"
          /\ IF sending THEN UNCHANGED <<taken, sending, write>>
             ELSE StartSend("none") /\ sending' = (write' = "busy")
  /\ UNCHANGED <<fromVars, values, early, whole, failed, sent, server, toIo, line>>

ToJoin ==
  /\ to = "join" /\ toIo = "ended"
  /\ to' = "done"
  /\ UNCHANGED <<fromVars, values, early, whole, failed, sent, server, toIo, lineVars, sending, write>>

-----------------------------------------------------------------------------
\* to_net: its io thread.

\* The receiver's program closes its sockets in internal_stop.
Closed == fromIo \in {"none", "stopped"}

\* handle_connected: nothing listens to the event of a connection that is
\* refused, and run() returns for want of work.
Connect ==
  /\ toIo = "connecting"
  /\ \/ ~Closed /\ toIo' = "up" /\ server' = "live" /\ UNCHANGED failed
     \/ toIo' = "ended" /\ failed' = (failed \/ ~Closed) /\ UNCHANGED server
  /\ UNCHANGED <<fromVars, values, early, whole, sent, to, lineVars, sending, write>>

\* handle_pkg_sent: start_send again, which finds nothing left to send ...
HandleSent ==
  /\ server = "live" /\ write = "busy"
  /\ StartSend("clear")
  /\ UNCHANGED <<fromVars, values, early, whole, failed, sent, to, server, toIo, line, sending>>

\* ... before it clears the flag.
Clear ==
  /\ write = "clear"
  /\ write' = "none" /\ sending' = FALSE
  /\ UNCHANGED <<fromVars, values, early, whole, failed, sent, to, server, toIo, lineVars>>

\* The network failed or the receiver closed: the read that is always under
\* way, or a write, ends with an error.
ToError ==
  /\ server = "live" /\ write # "clear"
  /\ failed \/ fromIo = "stopped"
  /\ server' = "error"
  /\ UNCHANGED <<fromVars, values, early, whole, failed, sent, to, toIo, lineVars, sending, write>>

\* on_conn_recv_or_send_error erases the connection, and the io service is out
\* of work; or another handler is still to come, and runs on a freed object.
ToErase ==
  /\ server = "error"
  /\ server' = "freed"
  /\ toIo' = IF write = "busy" THEN "undefined" ELSE "ended"
  /\ UNCHANGED <<fromVars, values, early, whole, failed, sent, to, lineVars, sending, write>>

-----------------------------------------------------------------------------
\* The network.

Fail ==
  /\ ~failed /\ failed' = TRUE
  /\ UNCHANGED <<toVars, lineVars, fromVars>>

\* split() takes a part of the package behind a whole one for packages of its own.
Misread ==
  /\ ~whole /\ taken > 1
  /\ \E p \in {<<>>} \cup {<<v>> : v \in 0 .. MaxValues} :
       /\ line' = <<Head(line)>> \o p \o Tail(Tail(line))
       /\ taken' = taken - 1 + Len(p)
  /\ UNCHANGED <<toVars, failed, fromVars>>

-----------------------------------------------------------------------------
\* from_net: its io thread.

Io == fromIo = "run"

\* The program of from_net starts: init_net_module binds the acceptor.
Bind ==
  /\ fromIo = "none"
  /\ fromIo' = "made"
  /\ UNCHANGED <<toVars, failed, from, client, running, safe, posted, mutex, queue, gotEnd, out, lineVars>>

\* net_nervure::run
Run ==
  /\ fromIo = "made"
  /\ fromIo' = "run" /\ safe' = FALSE
  /\ UNCHANGED <<toVars, failed, from, client, running, posted, mutex, queue, gotEnd, out, lineVars>>

Accept ==
  /\ Io /\ server # "unset" /\ client = "none"
  /\ client' = "live"
  /\ UNCHANGED <<toVars, failed, from, fromIo, running, safe, posted, mutex, queue, gotEnd, out, lineVars>>

\* Faulty: room for one value.
EnqueueLast(v) == queue' = <<v>>

\* SafeQueue::enqueue and, of a queue that is not empty, dequeue
Enqueue(v) == queue' = Append(queue, v)
Dequeue == queue # <<>> /\ out' = Append(out, Head(queue)) /\ queue' = Tail(queue)

\* on_recv_data: enqueue takes the queue's own mutex, not the one that
\* process() tests under ...
RecvData ==
  /\ Io /\ client = "live" /\ taken > 0 /\ Head(line) # End
  /\ Enqueue(Head(line)) /\ line' = Tail(line) /\ taken' = taken - 1
  /\ fromIo' = "notify"
  /\ UNCHANGED <<toVars, failed, from, client, running, safe, posted, mutex, gotEnd, out>>

Woken == IF from = "asleep" THEN "lock" ELSE from

\* ... and notify_one reaches only a caller that already waits.
NotifyData ==
  /\ fromIo = "notify"
  /\ from' = Woken /\ fromIo' = "run"
  /\ UNCHANGED <<toVars, failed, client, running, safe, posted, mutex, queue, gotEnd, out, lineVars>>

\* on_recv_end_flag, all of it under the mutex
RecvEnd ==
  /\ Io /\ client = "live" /\ taken > 0 /\ Head(line) = End /\ mutex = "free"
  /\ gotEnd' = TRUE /\ from' = Woken /\ line' = Tail(line) /\ taken' = taken - 1
  /\ UNCHANGED <<toVars, failed, fromIo, client, running, safe, posted, mutex, queue, out>>

\* from_net's connection is erased; nothing listens for what is behind it.
FromLost ==
  /\ Io /\ failed /\ client = "live"
  /\ client' = "lost"
  /\ UNCHANGED <<toVars, failed, from, fromIo, running, safe, posted, mutex, queue, gotEnd, out, lineVars>>

\* After an error the server does not accept again: without a connection run()
\* returns for want of work, and m_safe_to_stop stays false.
Deaf ==
  /\ Io /\ ~posted /\ client # "live"
  /\ fromIo' = "returned" /\ failed' = TRUE
  /\ UNCHANGED <<toVars, from, client, running, safe, posted, mutex, queue, gotEnd, out, lineVars>>

\* After io_service::stop no handler runs; run() returns.
InternalStop ==
  /\ Io /\ posted
  /\ fromIo' = "stopped" /\ safe' = TRUE
  /\ UNCHANGED <<toVars, failed, from, client, running, posted, mutex, queue, gotEnd, out, lineVars>>

-----------------------------------------------------------------------------
\* from_net: its caller.

Caller(a, b) == from = a /\ from' = b

\* process() waits for the connection ...
FromProcess ==
  /\ Caller("idle", "lock") /\ client # "none"
  /\ UNCHANGED <<toVars, failed, fromIo, client, running, safe, posted, mutex, queue, gotEnd, out, lineVars>>

Lock ==
  /\ Caller("lock", "test") /\ mutex = "free"
  /\ mutex' = "caller"
  /\ UNCHANGED <<toVars, failed, fromIo, client, running, safe, posted, queue, gotEnd, out, lineVars>>

\* ... then for a value or the end, holding got_end_flag_mtx ...
Test ==
  /\ from = "test"
  /\ from' = IF queue # <<>> \/ gotEnd THEN "ready" ELSE "wait"
  /\ UNCHANGED <<toVars, failed, fromIo, client, running, safe, posted, mutex, queue, gotEnd, out, lineVars>>

\* Faulty: sleeps with the mutex.
WaitHolding ==
  /\ Caller("wait", "asleep")
  /\ UNCHANGED <<toVars, failed, fromIo, client, running, safe, posted, mutex, queue, gotEnd, out, lineVars>>

Wait ==
  /\ Caller("wait", "asleep")
  /\ mutex' = "free"
  /\ UNCHANGED <<toVars, failed, fromIo, client, running, safe, posted, queue, gotEnd, out, lineVars>>

SpuriousWake ==
  /\ Caller("asleep", "lock")
  /\ UNCHANGED <<toVars, failed, fromIo, client, running, safe, posted, mutex, queue, gotEnd, out, lineVars>>

\* ... stops the net module at the end, still holding it ...
Ready ==
  /\ from = "ready"
  /\ from' = IF gotEnd /\ running THEN "stop" ELSE "take"
  /\ UNCHANGED <<toVars, failed, fromIo, client, running, safe, posted, mutex, queue, gotEnd, out, lineVars>>

\* Faulty: the end flag ends the stream at once.
TakeEnds ==
  /\ from = "take"
  /\ IF gotEnd THEN from' = "eof" /\ UNCHANGED <<queue, out>>
               ELSE Dequeue /\ from' = "idle"
  /\ mutex' = "free"
  /\ UNCHANGED <<toVars, failed, fromIo, client, running, safe, posted, gotEnd, lineVars>>

\* ... and returns a value, or false when the end is reached.
Take ==
  /\ from = "take"
  /\ IF queue = <<>> /\ gotEnd
     THEN from' = "eof" /\ UNCHANGED <<queue, out>>
     ELSE Dequeue /\ from' = "idle"
  /\ mutex' = "free"
  /\ UNCHANGED <<toVars, failed, fromIo, client, running, safe, posted, gotEnd, lineVars>>

\* The engine may ask again after false.
FromAgain ==
  /\ Caller("eof", "idle")
  /\ UNCHANGED <<toVars, failed, fromIo, client, running, safe, posted, mutex, queue, gotEnd, out, lineVars>>

\* The destructor calls stop_net_module without the mutex.
FromDestroy ==
  /\ \/ from = "eof"
     \/ from = "idle" /\ fromIo # "none" /\ "from_net" \in early
  /\ from' = IF running THEN "stop" ELSE "done"
  /\ UNCHANGED <<toVars, failed, fromIo, client, running, safe, posted, mutex, queue, gotEnd, out, lineVars>>

\* net_nervure::stop returns at once when run() has not begun.
Stop ==
  /\ from = "stop"
  /\ IF safe THEN from' = "join" /\ UNCHANGED posted
             ELSE from' = "stopping" /\ posted' = TRUE
  /\ UNCHANGED <<toVars, failed, fromIo, client, running, safe, mutex, queue, gotEnd, out, lineVars>>

Stopping ==
  /\ Caller("stopping", "join") /\ safe
  /\ UNCHANGED <<toVars, failed, fromIo, client, running, safe, posted, mutex, queue, gotEnd, out, lineVars>>

\* The join in stop_net_module, then back to process() or to the destructor.
FromJoin ==
  /\ from = "join" /\ fromIo = "stopped"
  /\ running' = FALSE
  /\ from' = IF mutex = "caller" THEN "take" ELSE "done"
  /\ UNCHANGED <<toVars, failed, fromIo, client, safe, posted, mutex, queue, gotEnd, out, lineVars>>

-----------------------------------------------------------------------------
ToCaller == ToProcess \/ ToDestroy \/ TestSending \/ ToJoin
ToIo     == Connect \/ HandleSent \/ Clear \/ ToError \/ ToErase
FromIo   == Bind \/ Run \/ Accept \/ RecvData \/ NotifyData \/ RecvEnd \/ InternalStop
FromStep == \/ FromProcess \/ Lock \/ Test \/ Wait \/ Ready \/ Take
            \/ Stop \/ Stopping \/ FromJoin
Network  == Fail \/ Misread \/ FromLost \/ Deaf

Next == \/ ToCaller \/ ToIo \/ FromIo \/ FromStep \/ Network
        \/ SpuriousWake \/ FromAgain \/ FromDestroy

\* Every thread that can move does, a mutex starves no one, and an owner
\* destroys what has ended.  Nothing wakes a sleeper without a cause, and the
\* network need not fail.
Fairness ==
  /\ WF_vars(ToCaller) /\ WF_vars(ToIo) /\ SF_vars(FromIo)
  /\ WF_vars(FromStep) /\ SF_vars(FromDestroy)

Spec == Init /\ [][Next]_vars /\ Fairness

-----------------------------------------------------------------------------
\* Properties.

\* from_net::process answers false only when every value that to_net took
\* was handed on, if no read garbles a package: the end flag overtakes no value,
\* neither in m_oToSendPkgs, whose sender changes between two threads, nor
\* between the queue and the flag, which two different mutexes protect, and a
\* value that a lost connection swallows takes the end flag with it.
FalseOnlyAtTheEnd == whole /\ from = "eof" => out = sent

\* "@here conn is setup" (netio.h:76): to_net uses a connection that is gone, in
\* its caller's send() or in a handler still to come, only if a processor was
\* destroyed early or the network failed or garbled a package; or once the other
\* side has the end flag, behind which send() still tests m_bIsSending.
Undefined == to = "undefined" \/ toIo = "undefined"
UndefinedOnlyAtALoss ==
  Undefined => early # {} \/ failed \/ ~whole \/ (gotEnd /\ Len(sent) = values)

\* send() found m_bIsSending set just before handle_pkg_sent cleared it, and
\* to_net sends no more: what is queued stays there.
Left == to \in {"join", "done"} /\ taken < Len(line) /\ write = "none" /\ ~sending

\* The four threads together are a Channel as long as no read garbles a package:
\* the values come out whole, once and in order, and all of them unless an owner
\* ended the stream, the network failed or a package was left in its queue.
Abandoned == \/ from \in {"stop", "stopping", "join", "done"} /\ mutex = "free"
             \/ to = "undefined" \/ failed \/ Left
Values    == INSTANCE Channel WITH Packages <- 1 .. MaxValues,
               sent <- IF whole THEN sent ELSE <<>>, got <- IF whole THEN out ELSE <<>>,
               broken <- whole /\ Abandoned
AChannel  == Values!Spec

\* process() stops the net module while it holds the mutex that the end
\* flag's handler takes, and to_net's destructor joins a thread that ends
\* only when the receiver closes.  Neither waits for ever: both processors
\* are destroyed, if neither is destroyed early and from_net is there when
\* to_net connects, but for what the network does, a package that is left in
\* its queue and a use of a freed connection.
BothEnd ==
  early = {} /\ whole /\ fromIo = "made" =>
    <>((to = "done" /\ from = "done") \/ failed \/ Left \/ Undefined)
=============================================================================
