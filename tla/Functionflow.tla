---------------------------- MODULE Functionflow ----------------------------
(***************************************************************************)
(* Parts of functionflow that share no state here: the queue of a thread   *)
(* for what others hand it, a group or a container of paras, and the       *)
(* values that waits hand on.  Each is an instance with variables of its   *)
(* own.                                                                    *)
(***************************************************************************)
EXTENDS Integers, Sequences

CONSTANTS
  Consumers, FifoValues, FifoMask, NoValue, TornValue,         \* simo
  Concurrency, CallerIds, Counts, MaxRanges, MaxAdded, MaxWaits, \* groups
  MaxImpls                                                     \* then

VARIABLES
  pushed, popped, ring, prod, cons, given, handed,
  kind, entities, lists, paras, done, call, waits,
  returns, pair, impls, wait

Simo  == INSTANCE SimoQueue WITH Values <- FifoValues, Mask <- FifoMask,
                                 Nothing <- NoValue, Torn <- TornValue,
                                 head <- pushed, tail <- popped, array <- ring,
                                 put <- given, taken <- handed
Group == INSTANCE Groups
Then  == INSTANCE WaitResults WITH paras <- pair

simoVars    == <<pushed, popped, ring, prod, cons, given, handed>>
groupVars   == <<kind, entities, lists, paras, done, call, waits>>
thenVars    == <<returns, pair, impls, wait>>

-----------------------------------------------------------------------------
\* simo_queue is a first-in first-out queue.
ImplementsFifo     == Simo!ImplementsFifo
\* A wait that is over was for paras that are.
WaitsAreTrue       == Group!WaitsAreTrue
\* for_each executes every index, once.
EveryIndexOnce     == Group!EveryIndexOnce
\* The function of then() may use the values it is told of.
ToldIsSet          == Then!ToldIsSet
\* A wait for paras that were started comes to its function.
ThenIsReached      == Then!ThenIsReached
=============================================================================
