----------------------------- MODULE NetNervure -----------------------------
(***************************************************************************)
(* net_nervure owns the io service of a program, the connections its       *)
(* clients make and its servers accept, and the handlers of the events     *)
(* they raise (net_nervure.cpp, tcp_server.cpp, event_handler.h).  What a  *)
(* connection does with its bytes is TcpConnection's matter; here it has   *)
(* operations under way, each of which ends with a call of its handler.    *)
(***************************************************************************)
EXTENDS Integers, FiniteSets

CONSTANTS
  Clients,   \* connections the program makes with add_tcp_client
  Accepted,  \* connections its server may accept
  Stoppers   \* threads, other than the io thread, that call stop()

VARIABLES
  conn,      \* connection -> its point_state, "none" before, "freed" after it
  pending,   \* connection -> the asynchronous operations bound to it
  listed,    \* m_oClients and m_oTCPConnections
  server,    \* "none", "listening", "deaf" after an error, or "closed"
  inside,    \* whose handler calls the program: a connection's or the server's, or
             \* "lost", to which the handler does not come back; or "none"
  io,        \* the io service: "made", "running", "stopped", or "returned" without work
  safe,      \* m_safe_to_stop
  posted,    \* internal_stop was posted to the io service
  stopper,   \* thread -> the step of stop() it is at
  rerun,     \* run() was called again
  told,      \* history: the threads that m_stop_cond was notified to
  stoppedIn, \* history: whose handler called stop(), or "none"
  lost,      \* connection -> how often the program was told it is lost
  wrote,     \* the connections something was sent on
  undefined  \* a handler ran on a connection or a server that was freed

connVars == <<conn, pending, listed>>
stopVars == <<safe, posted, stopper, told, stoppedIn>>
history  == <<lost, wrote>>
vars     == <<connVars, server, inside, io, stopVars, rerun, history, undefined>>

Conns == Clients \cup Accepted

Init ==
  /\ conn = [c \in Conns |-> "none"] /\ pending = [c \in Conns |-> {}]
  /\ listed = {} /\ server \in {"none", "listening"} /\ inside = "none"
  /\ io = "made" /\ safe = TRUE /\ posted = FALSE
  /\ stopper = [t \in Stoppers |-> "idle"] /\ rerun = FALSE
  /\ told = {} /\ stoppedIn = "none"
  /\ lost = [c \in Conns |-> 0] /\ wrote = {} /\ undefined = FALSE

\* The io thread takes the next handler; in one, it is with the program.
Handling  == io = "running" /\ inside = "none" /\ ~undefined
InProgram == io = "running" /\ inside # "none"

\* Set the state and the operations of one connection.
Point(c, state, ops) ==
  /\ conn' = [conn EXCEPT ![c] = state]
  /\ pending' = [pending EXCEPT ![c] = ops]

-----------------------------------------------------------------------------
\* add_tcp_client, before run() or in a handler; the constructor starts to connect.
AddClient(c) ==
  /\ c \in Clients /\ conn[c] = "none" /\ (io = "made" \/ InProgram)
  /\ Point(c, "connecting", {"connect"})
  /\ listed' = listed \cup {c}
  /\ UNCHANGED <<server, inside, io, stopVars, rerun, history, undefined>>

\* net_tcp_client::handle_connected calls the program, before it starts to
\* receive; a client that is refused stays listed.
HandleConnected(c) ==
  /\ Handling /\ pending[c] = {"connect"}
  /\ \/ Point(c, "valid", {}) /\ inside' = c
     \/ Point(c, "error", {}) /\ UNCHANGED inside
  /\ UNCHANGED <<listed, server, io, stopVars, rerun, history, undefined>>

\* start_recv begins to read; if an endpoint cannot be told, it does not.
StartRecv(ops) == {ops, ops \cup {"read"}}

\* handle_accept: start() receives, on_tcp_server_accept_connect lists the
\* connection and calls the program, and the server accepts the next.
HandleAccept(c) ==
  /\ Handling /\ server = "listening" /\ c \in Accepted /\ conn[c] = "none"
  /\ \E ops \in StartRecv({}) : Point(c, "valid", ops)
  /\ listed' = listed \cup {c} /\ inside' = "server"
  /\ UNCHANGED <<server, io, stopVars, rerun, history, undefined>>

\* After an error handle_accept does not accept again.
HandleAcceptError ==
  /\ Handling /\ server = "listening"
  /\ server' = "deaf"
  /\ UNCHANGED <<connVars, inside, io, stopVars, rerun, history, undefined>>

\* handle_received_pkg calls the program with the packages ...
HandleReceived(c) ==
  /\ Handling /\ conn[c] = "valid" /\ "read" \in pending[c]
  /\ Point(c, "valid", pending[c] \ {"read"}) /\ inside' = c
  /\ UNCHANGED <<listed, server, io, stopVars, rerun, history, undefined>>

\* ... and goes on to start_recv, as handle_connected does; handle_accept goes on
\* to start_accept.  After stop() the object may be gone.
HandlerEnds ==
  /\ inside # "none" /\ ~undefined /\ inside' = "none"
  /\ \/ /\ inside \in Conns /\ conn[inside] # "freed" /\ UNCHANGED undefined
        /\ \E ops \in StartRecv(pending[inside]) : pending' = [pending EXCEPT ![inside] = ops]
     \/ /\ inside \in Conns /\ conn[inside] = "freed" /\ undefined' = TRUE /\ UNCHANGED pending
     \/ /\ inside = "server" /\ undefined' = (server = "closed") /\ UNCHANGED pending
     \/ /\ inside = "lost" /\ UNCHANGED <<pending, undefined>>
  /\ UNCHANGED <<conn, listed, server, io, stopVars, rerun, history>>

\* A send by a handler; one write at a time.
Send(c) ==
  /\ InProgram /\ conn[c] = "valid" /\ "write" \notin pending[c]
  /\ Point(c, "valid", pending[c] \cup {"write"})
  /\ wrote' = wrote \cup {c}
  /\ UNCHANGED <<listed, server, inside, io, stopVars, rerun, lost, undefined>>

\* handle_pkg_sent with nothing left to send
HandleSent(c) ==
  /\ Handling /\ conn[c] = "valid" /\ "write" \in pending[c]
  /\ Point(c, "valid", pending[c] \ {"write"})
  /\ UNCHANGED <<listed, server, inside, io, stopVars, rerun, history, undefined>>

\* Faulty: the connection stays in its list.
DropKept(c, ops) ==
  /\ Point(c, "error", ops)
  /\ lost' = [lost EXCEPT ![c] = @ + 1] /\ UNCHANGED listed

\* on_conn_recv_or_send_error: the connection is closed, erased, which frees
\* it, and the program is told.  close() does not take back the operations
\* under way: they end with an error of their own.
Drop(c, ops) ==
  /\ Point(c, "freed", ops)
  /\ listed' = listed \ {c} /\ lost' = [lost EXCEPT ![c] = @ + 1]

\* Faulty: a read that fails is started again.
HandleErrorReads(c, op) ==
  /\ Handling /\ op \in pending[c] \ {"connect"} /\ conn[c] # "freed"
  /\ Drop(c, {"read"}) /\ inside' = "lost"
  /\ UNCHANGED <<server, io, stopVars, rerun, wrote, undefined>>

\* handle_received_pkg and handle_pkg_sent with an error
HandleError(c, op) ==
  /\ Handling /\ op \in pending[c] \ {"connect"} /\ conn[c] # "freed"
  /\ Drop(c, pending[c] \ {op}) /\ inside' = "lost"
  /\ UNCHANGED <<server, io, stopVars, rerun, wrote, undefined>>

\* The handler of an operation whose connection is gone.
HandleFreed(c) ==
  /\ Handling /\ conn[c] = "freed" /\ pending[c] # {}
  /\ undefined' = TRUE
  /\ UNCHANGED <<connVars, server, inside, io, stopVars, rerun, history>>

-----------------------------------------------------------------------------
\* run().  An io service that was stopped, or ran out of work, is not reset: a
\* second run() returns at once.
Run ==
  /\ io = "made"
  /\ io' = "running" /\ safe' = FALSE
  /\ UNCHANGED <<connVars, server, inside, posted, stopper, told, stoppedIn, rerun, history, undefined>>

\* Nothing is under way that a handler waits for: run() returns, and leaves
\* m_safe_to_stop as it is.
RunReturns ==
  /\ Handling /\ ~posted /\ server # "listening" /\ \A c \in Conns : pending[c] = {}
  /\ io' = "returned"
  /\ UNCHANGED <<connVars, server, inside, stopVars, rerun, history, undefined>>

Rerun ==
  /\ io \in {"stopped", "returned"} /\ inside = "none" /\ ~rerun
  /\ rerun' = TRUE /\ safe' = FALSE
  /\ UNCHANGED <<connVars, server, inside, io, posted, stopper, told, stoppedIn, history, undefined>>

Waiting == {t \in Stoppers : stopper[t] = "waiting"}

\* Faulty: nobody is told.
WakeNobody == UNCHANGED <<stopper, told>>

\* notify_one: one of the threads in m_stop_cond.wait goes on.
Wake == IF Waiting = {} THEN UNCHANGED <<stopper, told>>
        ELSE \E t \in Waiting : stopper' = [stopper EXCEPT ![t] = "woken"] /\ told' = told \cup {t}

\* internal_stop closes everything and clears the lists; what was pending
\* is not called any more.
InternalStop ==
  /\ io' = "stopped" /\ safe' = TRUE /\ posted' = FALSE
  /\ server' = IF server = "none" THEN "none" ELSE "closed"
  /\ conn' = [c \in Conns |-> IF c \in listed THEN "freed" ELSE conn[c]]
  /\ pending' = [c \in Conns |-> {}]
  /\ listed' = {}
  /\ Wake
  /\ UNCHANGED <<inside, rerun, history, undefined>>

\* stop() called by the program in a handler, and the handler stop() posted
StopInHandler == InProgram /\ InternalStop /\ stoppedIn' = inside
HandlePosted  == Handling /\ posted /\ InternalStop /\ UNCHANGED stoppedIn

\* stop() in another thread.  It tests m_safe_to_stop before and after it
\* takes m_stop_mutex.
StopCalled(t) ==
  /\ stopper[t] = "idle"
  /\ stopper' = [stopper EXCEPT ![t] = IF safe THEN "returned" ELSE "posting"]
  /\ UNCHANGED <<connVars, server, inside, io, safe, posted, told, stoppedIn, rerun, history, undefined>>

StopPosts(t) ==
  /\ stopper[t] = "posting"
  /\ posted' = TRUE
  /\ stopper' = [stopper EXCEPT ![t] = IF safe THEN "returned" ELSE "waiting"]
  /\ UNCHANGED <<connVars, server, inside, io, safe, told, stoppedIn, rerun, history, undefined>>

StopWakes(t) ==
  /\ stopper[t] = "woken"
  /\ stopper' = [stopper EXCEPT ![t] = IF safe THEN "returned" ELSE "waiting"]
  /\ UNCHANGED <<connVars, server, inside, io, safe, posted, told, stoppedIn, rerun, history, undefined>>

-----------------------------------------------------------------------------
Handlers ==
  \/ HandleAcceptError \/ HandlerEnds
  \/ \E c \in Conns : \/ HandleConnected(c) \/ HandleAccept(c) \/ HandleReceived(c)
                      \/ HandleSent(c) \/ HandleFreed(c)
                      \/ \E op \in {"read", "write"} : HandleError(c, op)

Program == StopInHandler \/ \E c \in Conns : AddClient(c) \/ Send(c)

Stopping(t) == StopPosts(t) \/ StopWakes(t)

Next ==
  \/ Handlers \/ Program \/ Run \/ RunReturns \/ Rerun \/ HandlePosted
  \/ \E t \in Stoppers : StopCalled(t) \/ Stopping(t)

\* The program comes back from its handlers, the io service gets to what is
\* posted, in its turn among the handlers, and a thread that can goes on.
Fairness ==
  /\ WF_vars(HandlerEnds) /\ SF_vars(HandlePosted)
  /\ \A t \in Stoppers : WF_vars(Stopping(t))

Spec == Init /\ [][Next]_vars /\ Fairness

-----------------------------------------------------------------------------
\* Properties.

\* A connection is freed with a handler still to come that is bound to it, or with
\* one on the stack, in two cases only: an error ends one of two operations (the TODO
\* of on_conn_recv_or_send_error), so that something was sent on it; or the program
\* calls stop() in that connection's own handler, whose start_recv is still to come.
\* And handlers run on an object that is gone in these cases only, or when stop() is
\* called as the server accepts, whose start_accept is still to come.
FreedInUse ==
  /\ \A c \in Conns : conn[c] = "freed" /\ (pending[c] # {} \/ inside = c)
                        => c \in wrote \/ stoppedIn = c
  /\ undefined => wrote # {} \/ stoppedIn \in Conns \cup {"server"}

\* A read and a write that both fail, and a stop between them: the program
\* is told at most once that a connection is lost, and not while it has it.
LostOnce == \A c \in Conns : lost[c] <= 1 /\ (lost[c] = 1 => c \notin listed)

\* stop() returns, whatever handler it comes between, unless m_stop_cond was notified
\* to another thread that waits (notify_one wakes one of them), the io service had
\* returned without work and runs nothing that is posted, run() was called again after
\* a stop, or a handler ran on a freed object.
StopReturns ==
  \A t \in Stoppers :
    stopper[t] \in {"posting", "waiting"}
      ~> \/ stopper[t] = "returned" \/ told \ {t} # {}
         \/ io = "returned" \/ rerun \/ undefined
=============================================================================
