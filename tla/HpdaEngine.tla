----------------------------- MODULE HpdaEngine -----------------------------
(***************************************************************************)
(* The scheduler of the hpda stream engine: engine::run of                 *)
(* src/hpda/src/engine/engine.cpp over the graph that build_graph derives  *)
(* from the predecessor vectors of the functors.                           *)
(*                                                                         *)
(* What a functor computes is left open here: process() may succeed or     *)
(* fail and may take any of the values its inputs offer.  HpdaPipeline     *)
(* adds the functors of the library; every theorem about this module holds *)
(* for them and for any functor a user derives.                            *)
(***************************************************************************)
EXTENDS Naturals, Sequences, FiniteSets

CONSTANTS
  Functors,  \* the functors registered with the engine
  Pred,      \* Pred[f]: the vector m_predecessors of f, in the order of its add_predecessor calls
  Sinks      \* the functors whose done_value is output_base's: they never offer a value

(***************************************************************************)
(* A functor reads each input through one predecessor entry.  That the     *)
(* graph has no cycle is the assumption engine.cpp:114 states; nothing     *)
(* below needs more of it than that no functor is its own input.           *)
(***************************************************************************)
Inputs(f) == {Pred[f][i] : i \in DOMAIN Pred[f]}

ASSUME GraphAssumption ==
  /\ IsFiniteSet(Functors)
  /\ Pred \in [Functors -> Seq(Functors)]
  /\ \A f \in Functors : f \notin Inputs(f)
  /\ Sinks \subseteq Functors

\* find_outputs: the functors no functor reads from.
Outputs == {f \in Functors : \A g \in Functors : f \notin Inputs(g)}

\* A functor without predecessors is an extractor (engine.cpp:53).
Extractor(f) == Pred[f] = <<>>

VARIABLES
  phase,     \* the loop of run() that is executing: "bfs", "pop", "refill", or "done"
  outputs,   \* the vector find_outputs returned
  queue,     \* to_process, front first
  stack,     \* processing, top first
  status,    \* m_status of each functor
  hasValue   \* m_has_value of each functor

vars == <<phase, outputs, queue, stack, status, hasValue>>

Phases   == {"bfs", "pop", "refill", "done"}
Statuses == {"null", "to_p", "p", "end"}

-----------------------------------------------------------------------------
\* The members of a vector; a vector without repetition.
Elements(s) == {s[i] : i \in DOMAIN s}
Distinct(s) == \A i, j \in DOMAIN s : i # j => s[i] # s[j]

\* The vectors that list the members of S once each.
Listings(S) ==
  {q \in [1 .. Cardinality(S) -> S] : Distinct(q) /\ Elements(q) = S}

\* The members of S in the order a loop over the vector v first meets them.
First(x, v) == CHOOSE i \in DOMAIN v : v[i] = x /\ \A j \in DOMAIN v : v[j] = x => i <= j

InOrder(S, v) ==
  {q \in Listings(S) : \A i, j \in DOMAIN q : i < j => First(q[i], v) < First(q[j], v)}

\* Faulty variants of the definition below, one forgotten test each.
WantedQueued(f, has) == {g \in Inputs(f) : ~has[g] /\ status[g] # "end"}
WantedFull(f, has)   == {g \in Inputs(f) : status[g] \notin {"to_p", "end"}}
WantedEnded(f, has)  == {g \in Inputs(f) : ~has[g] /\ status[g] # "to_p"}

\* The inputs of f that a loop over its predecessors sends to the queue, when
\* the flags are has: no value to offer, not waiting already, not at its end.
Wanted(f, has) ==
  {g \in Inputs(f) : ~has[g] /\ status[g] \notin {"to_p", "end"}}

\* done_value after a successful process().
DoneValue(has, f) == [has EXCEPT ![f] = f \notin Sinks]

\* consume_input_value / reset_done_value on the inputs process() used up.
Consume(has, used) == [g \in Functors |-> has[g] /\ g \notin used]

\* A process() takes values only from inputs that offer one.
Offered(f) == {g \in Inputs(f) : hasValue[g]}

-----------------------------------------------------------------------------
\* build_graph resets every status; the outputs are queued in the order in
\* which the unordered_map of successors happens to list them.  With no output
\* at all run() throws instead.
Init ==
  /\ outputs \in Listings(Outputs)
  /\ outputs # <<>>
  /\ phase = "bfs"
  /\ queue = outputs
  /\ stack = <<>>
  /\ status = [f \in Functors |-> IF f \in Outputs THEN "to_p" ELSE "null"]
  /\ hasValue = [f \in Functors |-> FALSE]

\* Where run() goes after a step: the inner do-while goes on while something
\* is queued, the second loop while something is stacked.
AfterBfs == IF queue' # <<>> THEN "bfs" ELSE IF stack' # <<>> THEN "pop" ELSE "refill"
AfterPopOnce == "refill"  \* faulty: an if for the second loop
AfterPop == IF queue' = <<>> /\ stack' # <<>> THEN "pop" ELSE "refill"

\* 1. BFS, an extractor: process() runs at once, success or end.
BfsExtractor(ok) ==
  LET f == Head(queue) IN
  /\ phase = "bfs"
  /\ Extractor(f)
  /\ queue' = Tail(queue)
  /\ status' = [status EXCEPT ![f] = IF ok THEN "null" ELSE "end"]
  /\ hasValue' = IF ok THEN DoneValue(hasValue, f) ELSE hasValue
  /\ UNCHANGED <<outputs, stack>>
  /\ phase' = AfterBfs

\* 1. BFS, any other functor: stacked for later, its inputs without a value queued.
BfsProcessor ==
  LET f == Head(queue)
      W == Wanted(f, hasValue)
  IN
  /\ phase = "bfs"
  /\ ~Extractor(f)
  /\ stack' = <<f>> \o stack
  /\ \E more \in InOrder(W, Pred[f]) : queue' = Tail(queue) \o more
  /\ status' = [g \in Functors |-> IF g \in W THEN "to_p" ELSE IF g = f THEN "p" ELSE status[g]]
  /\ UNCHANGED <<outputs, hasValue>>
  /\ phase' = AfterBfs

\* 2. Pop stack: process() of the top succeeds, it leaves the stack.
PopSuccess(used) ==
  LET f == Head(stack) IN
  /\ phase = "pop"
  /\ used \subseteq Offered(f)
  /\ hasValue' = DoneValue(Consume(hasValue, used), f)
  /\ stack' = Tail(stack)
  /\ status' = [status EXCEPT ![f] = "null"]
  /\ UNCHANGED <<outputs, queue>>
  /\ phase' = AfterPop

\* The flags after a process() that failed: what it used, and f's own flag.
FailedFlags(f, used) == [Consume(hasValue, used) EXCEPT ![f] = FALSE]

\* 2. Pop stack: process() fails and some input can still deliver.  The inputs
\* are queued and the loop breaks, f staying on the stack.
PopRetry(used) ==
  LET f == Head(stack)
      W == Wanted(f, FailedFlags(f, used))
  IN
  /\ phase = "pop"
  /\ used \subseteq Offered(f)
  /\ W # {}
  /\ hasValue' = FailedFlags(f, used)
  /\ \E more \in InOrder(W, Pred[f]) : queue' = queue \o more
  /\ status' = [g \in Functors |-> IF g \in W THEN "to_p" ELSE status[g]]
  /\ UNCHANGED <<outputs, stack>>
  /\ phase' = AfterPop

\* 2. Pop stack: process() fails and no input can deliver, f is at its end.
PopEnd(used) ==
  LET f == Head(stack) IN
  /\ phase = "pop"
  /\ used \subseteq Offered(f)
  /\ Wanted(f, FailedFlags(f, used)) = {}
  /\ hasValue' = FailedFlags(f, used)
  /\ stack' = Tail(stack)
  /\ status' = [status EXCEPT ![f] = "end"]
  /\ UNCHANGED <<outputs, queue>>
  /\ phase' = AfterPop

\* The outputs that can be asked again; the faulty variant forgets status_end.
OpenOutputsEnded == {f \in Outputs : status[f] # "to_p"}
OpenOutputs == {f \in Outputs : status[f] \notin {"to_p", "end"}}

\* 3. Prepare BFS: with nothing queued, the outputs not at their end are asked
\* again; the outer loop stops when that queues nothing.
Refill ==
  /\ phase = "refill"
  /\ IF queue = <<>>
     THEN /\ \E again \in InOrder(OpenOutputs, outputs) : queue' = again
          /\ status' = [f \in Functors |-> IF f \in OpenOutputs THEN "to_p" ELSE status[f]]
     ELSE UNCHANGED <<queue, status>>
  /\ phase' = IF queue' = <<>> THEN "done" ELSE "bfs"
  /\ UNCHANGED <<outputs, stack, hasValue>>

\* run() has returned.
Returned == phase = "done" /\ UNCHANGED vars

Bfs == BfsProcessor \/ \E ok \in BOOLEAN : BfsExtractor(ok)
Pop == \E used \in SUBSET Functors : PopSuccess(used) \/ PopRetry(used) \/ PopEnd(used)

Next == Bfs \/ Pop \/ Refill \/ Returned

Spec == Init /\ [][Next]_vars

-----------------------------------------------------------------------------
\* The types of the variables.
TypeOK ==
  /\ phase \in Phases
  /\ outputs \in Seq(Functors)
  /\ queue \in Seq(Functors)
  /\ stack \in Seq(Functors)
  /\ status \in [Functors -> Statuses]
  /\ hasValue \in [Functors -> BOOLEAN]

\* status_to_p marks exactly the functors in to_process, and none is in it
\* twice: the test of m_status before each push (engine.cpp:66-68, 87-89,
\* 105) keeps the queue a set, over every interleaving of the three loops.
QueueIsMarked ==
  /\ \A f \in Functors : f \in Elements(queue) <=> status[f] = "to_p"
  /\ Distinct(queue)

\* When run() returns, every output has reached its end and nothing is left
\* queued or stacked: no branch of the graph is abandoned half way.
NothingAbandoned ==
  phase = "done" => /\ \A f \in Outputs : status[f] = "end"
                    /\ stack = <<>>
                    /\ queue = <<>>

\* No functor is asked for a new value while the last one it delivered has not
\* been taken: process() would overwrite it (it fills m_data again) or run()
\* would drop it (reset_done_value, engine.cpp:84).  run() asks the outputs
\* themselves, whose values nobody takes.
NoValueLost ==
  \A f \in Functors \ Outputs : hasValue[f] =>
    /\ ~(phase = "bfs" /\ Extractor(f) /\ f = Head(queue))
    /\ ~(phase = "pop" /\ f = Head(stack))

\* status_end is final (engine.cpp:59, "extractor return false <=> end").
EndIsFinal ==
  [][\A f \in Functors : status[f] = "end" => status'[f] = "end"]_vars

-----------------------------------------------------------------------------
(***************************************************************************)
(* The inductive invariants behind these properties.                       *)
(***************************************************************************)

\* A part of the graph that lies below the rest, what reads it being in it too,
\* and in which no functor is read by two others.
Tree(D) ==
  /\ D \subseteq Functors
  /\ \A f \in Functors : Inputs(f) \cap D # {} => f \in D
  /\ \A f, g \in Functors : Inputs(f) \cap Inputs(g) \cap D # {} => f = g

\* A graph in which no functor is read by two others: every pipeline built
\* without a split that joins again.
Forest == \A f, g \in Functors : Inputs(f) \cap Inputs(g) # {} => f = g

\* What is queued and stacked in each loop of run().
LoopInv ==
  /\ phase = "bfs" => queue # <<>>
  /\ phase = "pop" => queue = <<>> /\ stack # <<>>
  /\ phase = "refill" => (queue = <<>> => stack = <<>>)

EngineInv == TypeOK /\ QueueIsMarked /\ LoopInv /\ NothingAbandoned

\* Of the functors in D the stack holds those marked status_p, each once.
StackIsMarked(D) ==
  /\ \A f \in D : f \in Elements(stack) <=> status[f] = "p"
  /\ \A i, j \in DOMAIN stack : stack[i] \in D /\ stack[i] = stack[j] => i = j

\* A functor in D is asked on behalf of the functor that reads it, which waits on
\* the stack, below it if it is stacked too.
AskedByReader(D) ==
  /\ \A i \in DOMAIN stack : stack[i] \in D \ Outputs =>
        \E j \in DOMAIN stack : i < j /\ stack[i] \in Inputs(stack[j])
  /\ \A f \in D \ Outputs : f \in Elements(queue) =>
        \E j \in DOMAIN stack : f \in Inputs(stack[j])

\* A functor in D that is queued or stacked offers no value.
AskedWithoutValue(D) ==
  \A f \in D \ Outputs : status[f] \in {"to_p", "p"} => ~hasValue[f]

TreeInv(D) == EngineInv /\ StackIsMarked(D) /\ AskedByReader(D) /\ AskedWithoutValue(D)

ForestInv == TreeInv(Functors)
=============================================================================
