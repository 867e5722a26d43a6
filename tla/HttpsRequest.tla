----------------------------- MODULE HttpsRequest -----------------------------
(***************************************************************************)
(* https_request (hpda/src/extractor/internal/https_request.cpp): a chain  *)
(* of asynchronous operations, run to its end inside result().  A response *)
(* is a status line, the headers and a body of some units; an operation    *)
(* that reads up to a delimiter can bring more with it.                    *)
(***************************************************************************)
EXTENDS Integers, Sequences

CONSTANTS MaxBody,    \* bound: units of the body
          MaxCalls    \* bound: calls of result()

VARIABLES
  answer,     \* what the server answers to a request: its status line and body
  calls,      \* the values result() has returned
  m_result,   \* https_request::m_result
  stopped,    \* m_io_service has run out of work, and was not reset
  phase,      \* the operation under way, "idle" between the calls
  read,       \* the units of the body taken from the socket
  response,   \* the part of them in response_
  skipped,    \* history: the units that came along with the headers
  result      \* https_request_client::m_result

client == <<phase, read, response, skipped, result>>
vars   == <<answer, calls, m_result, stopped, client>>

Answers == [status : {"ok", "not 200", "invalid"}, body : 0 .. MaxBody]
Units(a, b) == [i \in 1 .. b - a |-> a + i]

Init ==
  /\ answer \in Answers /\ calls = <<>> /\ m_result = <<>> /\ stopped = FALSE
  /\ phase = "idle" /\ read = 0 /\ response = <<>> /\ skipped = 0 /\ result = <<>>

-----------------------------------------------------------------------------
\* result(): what an earlier call got, if it is not empty; otherwise another
\* client, whose operations run() executes unless the io_service has stopped.
Return(value) == calls' = Append(calls, value) /\ m_result' = value

Result ==
  /\ phase = "idle" /\ Len(calls) < MaxCalls
  /\ answer' \in Answers
  /\ read' = 0 /\ response' = <<>> /\ skipped' = 0 /\ result' = <<>>
  /\ IF m_result # <<>> \/ stopped THEN Return(m_result) /\ UNCHANGED phase
                                   ELSE phase' = "resolve" /\ UNCHANGED <<calls, m_result>>
  /\ UNCHANGED stopped

\* A handler that starts no other operation: run() returns, and result() then.
Stop(value) == phase' = "idle" /\ stopped' = TRUE /\ Return(value)

After == [resolve |-> "connect", connect |-> "handshake", handshake |-> "write",
          write |-> "status", status |-> "headers"]

\* handle_resolve, handle_connect, handle_handshake, handle_write_request
Step ==
  /\ phase \in {"resolve", "connect", "handshake", "write"}
  /\ phase' = After[phase]
  /\ UNCHANGED <<answer, calls, m_result, stopped, read, response, skipped, result>>

\* More of the body, as many units as came
Bring(least) ==
  \E n \in least .. answer.body - read :
    read' = read + n /\ response' = response \o Units(read, read + n)

\* handle_read_status_line
StatusLine ==
  /\ phase = "status" /\ Bring(0)
  /\ IF answer.status = "ok"
     THEN phase' = "headers" /\ UNCHANGED <<stopped, calls, m_result>>
     ELSE Stop(result)
  /\ UNCHANGED <<answer, skipped, result>>

\* handle_read_headers: what the reads up to here brought of the body goes to
\* the log, which takes it out of response_.
Headers ==
  /\ phase = "headers"
  /\ \E n \in 0 .. answer.body - read : read' = read + n
  /\ response' = <<>> /\ skipped' = read' /\ phase' = "content"
  /\ UNCHANGED <<answer, calls, m_result, stopped, result>>

\* Faulty: copies what is in response_ and leaves it there.
ContentKeeps ==
  /\ phase = "content"
  /\ \E n \in 1 .. answer.body - read :
       /\ read' = read + n /\ result' = result \o response \o Units(read, read + n)
       /\ response' = response \o Units(read, read + n)
  /\ UNCHANGED <<answer, calls, m_result, stopped, phase, skipped>>

\* handle_read_content
Content ==
  /\ phase = "content"
  /\ \E n \in 1 .. answer.body - read :
       read' = read + n /\ result' = result \o response \o Units(read, read + n)
  /\ response' = <<>>
  /\ UNCHANGED <<answer, calls, m_result, stopped, phase, skipped>>

\* The end of the stream behind the content, or an error of any operation
Fails ==
  /\ phase # "idle" /\ Stop(result)
  /\ UNCHANGED <<answer, read, response, skipped, result>>

Next == Result \/ Step \/ StatusLine \/ Headers \/ Content \/ Fails

Spec == Init /\ [][Next]_vars /\ WF_vars(phase # "idle" /\ Next)

-----------------------------------------------------------------------------
\* The first call of result() returns what the socket gave behind the read that
\* completed the headers, all of it up to the end of the stream or the error, whole and
\* once: what came along with the headers is lost ("Write whatever content we already
\* have to output" sends it to the log), and an error cuts the answer short without a
\* word.  Every later call returns the same, an empty answer as well: no request is
\* made again (l. 229 asks for one when m_result is empty), whatever the server would
\* answer now.
Returned(value) ==
  IF calls = <<>> THEN value = (IF phase = "content" THEN Units(skipped, read) ELSE <<>>)
                  ELSE value = calls[1]

AnswersAreAsRead == [][calls' # calls => Returned(calls'[Len(calls')])]_vars
=============================================================================
