------------------------------- MODULE Library -------------------------------
(***************************************************************************)
(* Parts of net, hpda, util and sql that share no state with the engine of *)
(* hpda, a TCP connection, the runtime or each other.  Each is an instance *)
(* with variables of its own.                                              *)
(***************************************************************************)
EXTENDS Integers, Sequences, FiniteSets

CONSTANTS
  MaxValues,                       \* stream
  Clients, Accepted, Stoppers,     \* nervure
  Types, Id, Hubs, MaxHandlers,    \* hub
  UdpPackages, Endpoints, MaxSends,\* udp
  MaxBody, MaxCalls,               \* https
  Collections, PageLimit, MaxParsed,        \* pages
  Coordinates, MaxPoints, Clusters, Delta, Batches,  \* kmeans
  Columns, RowValues, Blank, MaxRows,       \* objects
  Names, Layouts, ArrayValues, MaxArray,    \* array
  SqlColumns, KeyColumn, Indexed, SqlValues, Updates, Conditions, Asked,
  Nested, SqlRows,                 \* sql
  ArchivePackages, Parts, SizeOfSize, SizeOfPart, SizeOfData  \* archive

\* The names of the handlers that are not a connection's are no connections.
ASSUME NervureAssumption == (Clients \cup Accepted) \cap {"none", "server", "lost"} = {}

\* The sizes of a collection and of a page are numbers, and a history keeps some rows.
ASSUME PagesAssumption == Collections \subseteq Nat /\ PageLimit \in Nat /\ MaxParsed \in Nat \ {0}

\* The number of clusters is a number.
ASSUME KMeansAssumption == Clusters \in Nat

\* A layout has collects of columns, and what a new element holds is a value.
ASSUME ArrayAssumption ==
  /\ Layouts \subseteq Seq(Seq(Names)) \ {<<>>}
  /\ Blank \in ArrayValues

VARIABLES
  values, early, whole, failed, ioSent, to, server, toIo, line, taken,
  ioSending, write, from, fromIo, client, running, safe, posted, mutex, queue, gotEnd, out,
  conn, pending, listed, acceptor, inside, io, stoppable, stopPosted, stopper,
  rerun, told, stoppedIn, lost, wrote, undefined,
  creator, handler, cache, handled,
  udpPoint, tasks, sending, datagram, sendTo, underWay, sends, net, udpGot,
  answer, asked, m_result, stopped, phase, read, response, skipped,
  result,
  total, invalid, turn, ended, page, m_index, m_reach_end, m_all_data,
  m_next_data_index, parsed, parity,
  input, picker, max, fed, kmeansTurn, kmeansEnded, points, means, last,
  clusters, round, stream, index, starts, given,
  content, data, copied, rows,
  layout, m_data, here, crashed,
  exists, indexes, stored, open, view, schema, ready, call, calls,
  package, pass, field, base, length, buffer, unpacked

Stream     == INSTANCE NetIo WITH
                sent <- ioSent, sending <- ioSending
Nervure    == INSTANCE NetNervure WITH
                server <- acceptor, safe <- stoppable, posted <- stopPosted
Hub        == INSTANCE Dispatch WITH
                calls <- handled
Udp        == INSTANCE UdpPoint WITH
                Packages <- UdpPackages, point <- udpPoint,
                sendBuf <- datagram, got <- udpGot
Https      == INSTANCE HttpsRequest WITH
                calls <- asked
Pages      == INSTANCE PagedExtractor WITH
                Limit <- PageLimit, MaxGiven <- MaxParsed, at <- turn,
                given <- parsed
Clustering == INSTANCE KMeans WITH
                at <- kmeansTurn, ended <- kmeansEnded
Objects    == INSTANCE NtObject WITH
                Values <- RowValues, out <- copied
Compact    == INSTANCE CompactArray WITH
                Columns <- Names, Values <- ArrayValues, MaxRows <- MaxArray,
                at <- here
Sql        == INSTANCE SqlTable WITH
                Columns <- SqlColumns, Values <- SqlValues, MaxRows <- SqlRows

Marshal    == INSTANCE Archive WITH
                Packages <- ArchivePackages, got <- unpacked

\* A condition is a finite tree; the key is a column, and an update has columns.
ASSUME SqlAssumption ==
  /\ Sql!Trees /\ Asked \subseteq Conditions
  /\ SqlColumns \in Seq(Sql!AllColumns)
  /\ KeyColumn \in Sql!AllColumns
  /\ Updates \subseteq Seq(Sql!AllColumns)
  /\ Nested \in Nat /\ SqlRows \in Nat

\* A package has fields, and a value takes bytes.
ASSUME ArchiveAssumption ==
  /\ ArchivePackages \subseteq Seq(Marshal!Field)
  /\ SizeOfSize \in Nat \ {0}
  /\ SizeOfPart \in [Marshal!Kinds -> Nat \ {0}]
  /\ SizeOfData \in Nat

streamVars  == <<values, early, whole, failed, ioSent, to, server, toIo, line,
                 taken, ioSending, write, from, fromIo, client, running, safe,
                 posted, mutex, queue, gotEnd, out>>
nervureVars == <<conn, pending, listed, acceptor, inside, io, stoppable,
                 stopPosted, stopper, rerun, told, stoppedIn, lost, wrote,
                 undefined>>
hubVars     == <<creator, handler, cache, handled>>
udpVars     == <<udpPoint, tasks, sending, datagram, sendTo, underWay, sends,
                 net, udpGot>>
httpsVars   == <<answer, asked, m_result, stopped, phase, read, response,
                 skipped, result>>
pagesVars   == <<total, invalid, turn, ended, page, m_index, m_reach_end,
                 m_all_data, m_next_data_index, parsed, parity>>
kmeansVars  == <<input, picker, max, fed, kmeansTurn, kmeansEnded, points,
                 means, last, clusters, round, stream, index, starts, given>>
objectsVars == <<content, data, copied, rows>>
arrayVars   == <<layout, m_data, here, crashed>>
sqlVars     == <<exists, indexes, stored, open, view, schema, ready, call,
                 calls>>
archiveVars == <<package, pass, field, base, length, buffer, unpacked>>

-----------------------------------------------------------------------------
(* What the modules say of themselves, by the same names. *)

\* process() of from_net gives false only when all that was sent was handed on, if
\* no package was garbled.
FalseOnlyAtTheEnd             == Stream!FalseOnlyAtTheEnd
\* to_net uses a connection that is gone only if an owner ended early, the network
\* failed or garbled a package, or behind the end flag.
UndefinedOnlyAtALoss          == Stream!UndefinedOnlyAtALoss
\* to_net and from_net are a channel, if no package was garbled.
AChannel                      == Stream!AChannel
\* Both processors come to their end, if neither is destroyed before it, but for what
\* the network does, a package left in its queue and a use of a freed connection.
BothEnd                       == Stream!BothEnd
\* A connection freed in use is one that was written to or whose handler stopped it.
FreedInUse                    == Nervure!FreedInUse
\* The loss of a connection is told once.
LostOnce                      == Nervure!LostOnce
\* stop() returns, but for four cases that it names.
StopReturns                   == Nervure!StopReturns
\* A package with an id of its own reaches a handler if there is one.
PackagesReachHandlers         == Hub!PackagesReachHandlers
\* A datagram is one package, sent to its endpoint.
OnePackageToItsEndpoint       == Udp!OnePackageToItsEndpoint
\* What send() of a udp point took is sent, unless a send fails or the point is closed.
QueuedIsSent                  == Udp!QueuedIsSent
\* result() returns what was read behind the headers, in every call the same.
AnswersAreAsRead              == Https!AnswersAreAsRead
\* Why json_to_data_batch comes to no end: the rows of the first page, over and over.
FirstPageForEver              == Pages!FirstPageForEver
\* The stream of k-means gives all the rows that one run of Lloyd's adds.
OneRunIsGiven                 == Clustering!OneRunIsGiven
\* A round of Lloyd's never makes the distances greater.
LloydConverges                == Clustering!LloydConverges
\* A vector of handles is a table: an operation changes one row.
RowsAreTheirOwn               == Objects!RowsAreTheirOwn
\* ntcompact_array is a table.
ImplementsTable               == Compact!ImplementsTable
\* A select gives rows of its condition, in its order, up to its limit.
SelectsWhatIsAsked            == Sql!SelectsWhatIsAsked
\* Rows of a call that returned true are committed, and no others.
ReturnedIsStored              == Sql!ReturnedIsStored
\* What the archive writes is read as it was.
PackageArrives                == Marshal!PackageArrives
PassesAgree                   == Marshal!PassesAgree
=============================================================================
