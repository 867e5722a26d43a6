------------------------------ MODULE Dispatch ------------------------------
(***************************************************************************)
(* How a received package finds the program's handlers: the typed_pkg_hubs *)
(* a program adds to its net_nervure, in order, and the cache from package *)
(* id to hub that every connection and udp point keeps                     *)
(* (typed_pkg_hub, pkg_handler.h, slice_and_dispatch_pkg).                 *)
(***************************************************************************)
EXTENDS Integers, Sequences, FiniteSets

CONSTANTS
  Types,   \* the program's package classes
  Id,      \* class -> its type_id()
  Hubs,    \* how many hubs the program added
  MaxHandlers  \* bound: handlers registered

Ids   == {Id[t] : t \in Types}
Kinds == {"pkg", "tcp", "udp"}    \* to_recv_pkg, tcp_to_recv_pkg, udp_to_recv_pkg
Points == {"tcp", "udp"}          \* a connection and a udp point
None  == "none"

VARIABLES
  creator,  \* hub -> id -> the class m_oPkgCreatorContainer makes
  handler,  \* hub -> kind -> id -> the class its handler was registered for
  cache,    \* point -> id -> the hub m_oRPHCache names, 0 for none
  calls     \* the calls of handlers the last package led to

vars == <<creator, handler, cache, calls>>

Init ==
  /\ creator = [h \in 1 .. Hubs |-> [i \in Ids |-> None]]
  /\ handler = [h \in 1 .. Hubs |-> [k \in Kinds |-> [i \in Ids |-> None]]]
  /\ cache = [p \in Points |-> [i \in Ids |-> 0]]
  /\ calls = {}

\* map::insert keeps what is there.
Insert(map, key, value) == IF map[key] = None THEN [map EXCEPT ![key] = value] ELSE map

\* Faulty: operator[] in its place.
Overwrite(map, key, value) == [map EXCEPT ![key] = value]

Registered == {x \in (1 .. Hubs) \X Kinds \X Ids : handler[x[1]][x[2]][x[3]] # None}

ToRecv(h, k, t) ==
  /\ Cardinality(Registered) < MaxHandlers
  /\ creator' = [creator EXCEPT ![h] = Insert(@, Id[t], t)]
  /\ handler' = [handler EXCEPT ![h][k] = Insert(@, Id[t], t)]
  /\ calls' = {}
  /\ UNCHANGED cache

\* is_tcp_pkg_to_handle, is_udp_pkg_to_handle
ToHandle(h, p, i) == handler[h][p][i] # None \/ handler[h]["pkg"][i] # None

\* recv_handler casts the package to the class of the handler, or to null.
Cast(h, k, i) == IF handler[h][k][i] = creator[h][i] THEN creator[h][i] ELSE "null"

\* handle_tcp_pkg, handle_udp_pkg: get_pkg makes the package, then the handler
\* of the transport and the one for every transport are called.
HandlePkg(h, p, i) ==
  {[hub |-> h, kind |-> k, pkg |-> Cast(h, k, i)] :
     k \in {k \in {p, "pkg"} : handler[h][k][i] # None}}

\* slice_and_dispatch_pkg: the hub of the cache, or every hub that handles the
\* id, the first of which goes to the cache.
Dispatched(p, i) ==
  LET hubs == {h \in 1 .. Hubs : ToHandle(h, p, i)}
  IN  IF cache[p][i] # 0 THEN {cache[p][i]} ELSE hubs

\* Faulty: the first hub is cached, whatever it handles.
CachedBlind(p, i) == 1

Cached(p, i) ==
  LET hubs == Dispatched(p, i)
  IN  IF hubs = {} THEN 0 ELSE CHOOSE h \in hubs : \A g \in hubs : h <= g

Receive(p, t) ==
  /\ calls' = UNION {HandlePkg(h, p, Id[t]) : h \in Dispatched(p, Id[t])}
  /\ cache' = [cache EXCEPT ![p][Id[t]] = Cached(p, Id[t])]
  /\ UNCHANGED <<creator, handler>>

Next ==
  \/ \E h \in 1 .. Hubs, k \in Kinds, t \in Types : ToRecv(h, k, t)
  \/ \E p \in Points, t \in Types : Receive(p, t)

Spec == Init /\ [][Next]_vars

-----------------------------------------------------------------------------
\* Properties.

\* A package whose id is its own reaches a handler if any hub has one, as
\* what it is, whatever was cached before the handlers were registered.
\* (Two classes with one id, as all of ntpackage<0, ...> are, share their
\* creator; the handler of the second is called with a null pointer.)
OwnId(t) == \A u \in Types : Id[u] = Id[t] => u = t
Reaches(p, t) ==
  OwnId(t) /\ Receive(p, t) /\ (\E h \in 1 .. Hubs : ToHandle(h, p, Id[t])) =>
    calls' # {} /\ \A c \in calls' : c.pkg = t
PackagesReachHandlers == [][\A p \in Points, t \in Types : Reaches(p, t)]_vars
=============================================================================
