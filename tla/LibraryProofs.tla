---------------------------- MODULE LibraryProofs ----------------------------
(***************************************************************************)
(* Theorems of the parts of Library: a udp point, the nervure, a request   *)
(* over https, the hubs, rows that are handles, a collection that is read  *)
(* by pages, k-means, rows whose columns lie apart, a table of a database, *)
(* and the archive.                                                        *)
(***************************************************************************)
EXTENDS Library, SequenceTheorems, FiniteSetTheorems, WellFoundedInduction, TLAPS

-----------------------------------------------------------------------------
(***************************************************************************)
(* Induction on the natural numbers, said of sets.                         *)
(***************************************************************************)
Less == {ss \in Nat \X Nat : ss[1] < ss[2]}

LEMMA LessIsWellFounded == IsWellFoundedOn(Less, Nat)
BY NatLessThanWellFounded DEF OpToRel, Less

\* A set of numbers that is not empty has a least one.
LEMMA LeastNatural ==
  ASSUME NEW T \in SUBSET Nat, T # {}
  PROVE  \E n \in T : \A m \in T : ~(m < n)
<1>1. \E n \in T : \A m \in T : <<m, n>> \notin Less
  BY LessIsWellFounded, WFMin
<1> QED BY <1>1 DEF Less

-----------------------------------------------------------------------------
(***************************************************************************)
(* A udp point.  An error leaves the package in the buffer, but then also  *)
(* m_bIsSending set and nothing under way: the buffer that a send starts   *)
(* with is empty.                                                          *)
(***************************************************************************)
Tasks == [pkg : UdpPackages, to : Endpoints]

UdpInv ==
  /\ tasks \in Seq(Tasks)
  /\ sending \in BOOLEAN
  /\ ~sending => datagram = <<>>
  /\ underWay => sending
  /\ Udp!OnePackageToItsEndpoint

\* start_send with an empty buffer: what is handed to the network is the first
\* package, to its endpoint.
LEMMA StartSendKeeps ==
  ASSUME NEW queued \in Seq(Tasks), Udp!StartSend(queued, <<>>), Udp!OnePackageToItsEndpoint
  PROVE  UdpInv'
<1>1. CASE queued = <<>>
  BY <1>1 DEF Udp!StartSend, UdpInv, Udp!OnePackageToItsEndpoint
<1>2. CASE queued # <<>>
  <2>1. Head(queued) \in Tasks /\ Tail(queued) \in Seq(Tasks)
    BY <1>2, HeadTailProperties
  <2>2. /\ sending' = TRUE /\ underWay' = TRUE /\ tasks' = Tail(queued)
        /\ datagram' = Append(<<>>, Head(queued)) /\ sendTo' = Head(queued).to
        /\ net' = net \cup {[pkgs |-> datagram', to |-> sendTo']}
    BY <1>2, Zenon DEF Udp!StartSend
  <2>3. Len(datagram') = 1 /\ datagram'[1].to = sendTo'
    BY <2>1, <2>2
  <2>4. Udp!OnePackageToItsEndpoint'
    BY <2>2, <2>3 DEF Udp!OnePackageToItsEndpoint
  <2> QED BY <2>1, <2>2, <2>4 DEF UdpInv
<1> QED BY <1>1, <1>2

LEMMA UdpStep == UdpInv /\ [Udp!Next]_(Udp!vars) => UdpInv'
<1> SUFFICES ASSUME UdpInv, [Udp!Next]_(Udp!vars) PROVE UdpInv'
  OBVIOUS
<1>1. ASSUME NEW p \in UdpPackages, NEW ep \in Endpoints, Udp!Send(p, ep) PROVE UdpInv'
  <2> DEFINE queued == Append(tasks, [pkg |-> p, to |-> ep])
  <2>1. queued \in Seq(Tasks)
    BY DEF UdpInv, Tasks
  <2>2. CASE udpPoint = "valid" /\ ~sending
    BY <1>1, <2>1, <2>2, StartSendKeeps DEF Udp!Send, UdpInv
  <2>3. CASE ~(udpPoint = "valid" /\ ~sending)
    <3>1. tasks' \in Seq(Tasks) /\ UNCHANGED <<sending, datagram, underWay, net>>
      BY <1>1, <2>1, <2>3 DEF Udp!Send, UdpInv
    <3> QED BY <3>1 DEF UdpInv, Udp!OnePackageToItsEndpoint
  <2> QED BY <2>2, <2>3
<1>2. CASE Udp!HandleSent
  BY <1>2, StartSendKeeps DEF Udp!HandleSent, UdpInv
<1>3. CASE Udp!Lose \/ Udp!HandleReceived
  <2>1. net' \subseteq net
    BY <1>3 DEF Udp!Lose, Udp!HandleReceived
  <2> QED BY <1>3, <2>1 DEF Udp!Lose, Udp!HandleReceived, UdpInv, Udp!OnePackageToItsEndpoint
<1>4. CASE Udp!HandleSendError \/ Udp!HandleRecvError \/ Udp!Close \/ UNCHANGED Udp!vars
  BY <1>4 DEF Udp!HandleSendError, Udp!HandleRecvError, Udp!Close, Udp!vars, UdpInv,
              Udp!OnePackageToItsEndpoint
<1> QED BY <1>1, <1>2, <1>3, <1>4 DEF Udp!Next

\* Every datagram holds one package, for the endpoint it goes to, whatever the
\* order of send(), handle_pkg_sent, errors and close() (OnePackageToItsEndpoint).
THEOREM OnePackagePerDatagram == Udp!Spec => []OnePackageToItsEndpoint
<1>1. Udp!Init => UdpInv
  <2> SUFFICES ASSUME Udp!Init PROVE UdpInv
    OBVIOUS
  <2>1. Udp!OnePackageToItsEndpoint
    BY DEF Udp!Init, Udp!OnePackageToItsEndpoint
  <2>2. tasks \in Seq(Tasks) /\ sending = FALSE /\ datagram = <<>> /\ underWay = FALSE
    BY DEF Udp!Init
  <2> QED BY <2>1, <2>2 DEF UdpInv
<1>2. UdpInv /\ [Udp!Next]_(Udp!vars) => UdpInv'
  BY UdpStep
<1>3. UdpInv => OnePackageToItsEndpoint
  BY DEF OnePackageToItsEndpoint, UdpInv
<1> QED BY <1>1, <1>2, <1>3, PTL DEF Udp!Spec


-----------------------------------------------------------------------------
(***************************************************************************)
(* The connections of a net_nervure.  A loss is told once because it frees *)
(* the connection, and the operations of a connection, a connect or a read *)
(* with at most one write, tell who can have another under way then.       *)
(***************************************************************************)
States     == {"none", "connecting", "valid", "error", "freed"}
Operations == {"connect", "read", "write"}

NervureTypeOK ==
  /\ conn \in [Nervure!Conns -> States]
  /\ pending \in [Nervure!Conns -> SUBSET Operations]
  /\ lost \in [Nervure!Conns -> {0, 1}]

\* What is known of connection c.
Connection(c) ==
  /\ conn[c] = "none" => pending[c] = {}
  /\ "connect" \in pending[c] => conn[c] = "connecting" /\ pending[c] = {"connect"}
  /\ "write" \in pending[c] => c \in wrote
  /\ conn[c] = "freed" /\ pending[c] # {} => c \in wrote
  /\ lost[c] = 1 => conn[c] = "freed" /\ c \notin listed

ConnInv == NervureTypeOK /\ \A c \in Nervure!Conns : Connection(c)

\* The handler on the stack, and whether what it belongs to is still there.
Places ==
  /\ \A c \in Nervure!Conns : inside = c =>
       /\ conn[c] \in {"valid", "freed"}
       /\ conn[c] = "freed" => c \in wrote \/ stoppedIn = c
  /\ inside = "server" /\ acceptor = "closed" => stoppedIn = "server"
  /\ acceptor = "closed" => io = "stopped"
  /\ undefined => inside = "none" /\ (wrote # {} \/ stoppedIn \in Nervure!Conns \cup {"server"})

NervureInv == ConnInv /\ Places

\* Connection d where nothing of it changes, though of others.
Untouched(d) ==
  /\ conn'[d] = conn[d] /\ pending'[d] = pending[d] /\ lost'[d] = lost[d]
  /\ d \in listed' => d \in listed
  /\ d \in wrote => d \in wrote'

\* It is enough to look at the connection that a step sets.
LEMMA OneConnection ==
  ASSUME ConnInv, NervureTypeOK', NEW c,
         \A d \in Nervure!Conns \ {c} : Untouched(d),
         c \in Nervure!Conns => Connection(c)'
  PROVE  ConnInv'
<1>1. ASSUME NEW d \in Nervure!Conns \ {c} PROVE Connection(d)'
  BY <1>1 DEF ConnInv, Connection, Untouched
<1> QED BY <1>1 DEF ConnInv

\* Setting the state and the operations of one.
LEMMA PointSets ==
  ASSUME NervureTypeOK, NEW c \in Nervure!Conns, NEW state \in States,
         NEW ops \in SUBSET Operations, Nervure!Point(c, state, ops)
  PROVE  /\ conn' \in [Nervure!Conns -> States]
         /\ pending' \in [Nervure!Conns -> SUBSET Operations]
         /\ conn'[c] = state /\ pending'[c] = ops
         /\ \A d \in Nervure!Conns \ {c} : conn'[d] = conn[d] /\ pending'[d] = pending[d]
BY DEF NervureTypeOK, Nervure!Point

\* A step of one connection that leaves lost alone.
LEMMA PointKeeps ==
  ASSUME ConnInv, NEW c \in Nervure!Conns, NEW state \in States,
         NEW ops \in SUBSET Operations, Nervure!Point(c, state, ops),
         UNCHANGED lost, lost[c] = 0,
         listed' \subseteq listed \cup {c}, wrote \subseteq wrote',
         state # "none", state # "freed",
         "connect" \in ops => state = "connecting" /\ ops = {"connect"},
         "write" \in ops => c \in wrote'
  PROVE  ConnInv'
<1>1. /\ conn' \in [Nervure!Conns -> States]
      /\ pending' \in [Nervure!Conns -> SUBSET Operations]
      /\ conn'[c] = state /\ pending'[c] = ops
      /\ \A d \in Nervure!Conns \ {c} : conn'[d] = conn[d] /\ pending'[d] = pending[d]
  BY PointSets DEF ConnInv
<1>2. NervureTypeOK'
  BY <1>1 DEF ConnInv, NervureTypeOK
<1>3. \A d \in Nervure!Conns \ {c} : Untouched(d)
  BY <1>1 DEF Untouched
<1>4. Connection(c)'
  BY <1>1 DEF Connection
<1> QED BY <1>2, <1>3, <1>4, OneConnection

LEMMA DropKeeps ==
  ASSUME ConnInv, NEW c \in Nervure!Conns, NEW op \in {"read", "write"},
         op \in pending[c], conn[c] # "freed",
         Nervure!Drop(c, pending[c] \ {op}), UNCHANGED wrote
  PROVE  ConnInv'
<1> DEFINE ops == pending[c] \ {op}
<1>1. pending[c] \subseteq Operations /\ Connection(c) /\ lost[c] = 0
  BY DEF ConnInv, NervureTypeOK, Connection
<1>2. "connect" \notin pending[c]
  BY <1>1 DEF Connection
<1>3. ops \in SUBSET Operations /\ "freed" \in States
  BY <1>1 DEF States
<1>4. Nervure!Point(c, "freed", ops) /\ listed' = listed \ {c}
  BY DEF Nervure!Drop
<1>5. lost' = [lost EXCEPT ![c] = @ + 1]
  BY DEF Nervure!Drop
<1>6. lost' \in [Nervure!Conns -> {0, 1}] /\ lost'[c] = 1
      /\ \A d \in Nervure!Conns \ {c} : lost'[d] = lost[d]
  BY <1>1, <1>5 DEF ConnInv, NervureTypeOK
<1> HIDE DEF ops
<1>7. /\ conn' \in [Nervure!Conns -> States]
      /\ pending' \in [Nervure!Conns -> SUBSET Operations]
      /\ conn'[c] = "freed" /\ pending'[c] = ops
      /\ \A d \in Nervure!Conns \ {c} : conn'[d] = conn[d] /\ pending'[d] = pending[d]
  BY <1>3, <1>4, PointSets DEF ConnInv
<1>8. NervureTypeOK'
  BY <1>6, <1>7 DEF NervureTypeOK
<1>9. \A d \in Nervure!Conns \ {c} : Untouched(d)
  BY <1>4, <1>6, <1>7 DEF Untouched
<1>10. ops # {} => "write" \in pending[c]
  BY <1>1, <1>2 DEF ops, Operations
<1>11. "connect" \notin ops /\ ("write" \in ops => "write" \in pending[c])
  BY <1>2 DEF ops
<1>12. Connection(c)'
  BY <1>1, <1>4, <1>7, <1>10, <1>11 DEF Connection
<1> QED BY <1>8, <1>9, <1>12, OneConnection

LEMMA ConnStep ==
  ASSUME ConnInv, Places, [Nervure!Next]_(Nervure!vars)
  PROVE  ConnInv'
<1>1. ASSUME NEW c \in Nervure!Conns, Nervure!AddClient(c) PROVE ConnInv'
  <2>1. /\ Nervure!Point(c, "connecting", {"connect"}) /\ conn[c] = "none"
        /\ listed' = listed \cup {c} /\ UNCHANGED <<lost, wrote>>
    BY <1>1 DEF Nervure!AddClient, Nervure!history
  <2>2. lost[c] = 0
    BY <2>1 DEF ConnInv, NervureTypeOK, Connection
  <2> QED BY <2>1, <2>2, PointKeeps DEF States, Operations
<1>2. ASSUME NEW c \in Nervure!Conns, Nervure!HandleConnected(c) PROVE ConnInv'
  <2>1. /\ Nervure!Point(c, "valid", {}) \/ Nervure!Point(c, "error", {})
        /\ pending[c] = {"connect"} /\ UNCHANGED <<listed, lost, wrote>>
    BY <1>2 DEF Nervure!HandleConnected, Nervure!history
  <2>2. lost[c] = 0
    BY <2>1 DEF ConnInv, NervureTypeOK, Connection
  <2>3. CASE Nervure!Point(c, "valid", {})
    BY <2>1, <2>2, <2>3, PointKeeps DEF States, Operations
  <2>4. CASE Nervure!Point(c, "error", {})
    BY <2>1, <2>2, <2>4, PointKeeps DEF States, Operations
  <2> QED BY <2>1, <2>3, <2>4
<1>3. ASSUME NEW c \in Nervure!Conns, Nervure!HandleAccept(c) PROVE ConnInv'
  <2>1. PICK ops \in {{}, {"read"}} : Nervure!Point(c, "valid", ops)
    BY <1>3 DEF Nervure!HandleAccept, Nervure!StartRecv
  <2>2. conn[c] = "none" /\ listed' = listed \cup {c} /\ UNCHANGED <<lost, wrote>>
    BY <1>3 DEF Nervure!HandleAccept, Nervure!history
  <2>3. lost[c] = 0
    BY <2>2 DEF ConnInv, NervureTypeOK, Connection
  <2> QED BY <2>1, <2>2, <2>3, PointKeeps DEF States, Operations
<1>4. ASSUME NEW c \in Nervure!Conns, Nervure!Send(c) PROVE ConnInv'
  <2> DEFINE ops == pending[c] \cup {"write"}
  <2>1. /\ Nervure!Point(c, "valid", ops) /\ conn[c] = "valid"
        /\ wrote' = wrote \cup {c} /\ UNCHANGED <<listed, lost>>
    BY <1>4 DEF Nervure!Send
  <2>2. lost[c] = 0 /\ "connect" \notin ops
    BY <2>1 DEF ConnInv, NervureTypeOK, Connection
  <2>3. ops \in SUBSET Operations
    BY DEF ConnInv, NervureTypeOK, Operations
  <2> HIDE DEF ops
  <2> QED BY <2>1, <2>2, <2>3, PointKeeps DEF States
<1>5. ASSUME NEW c \in Nervure!Conns, Nervure!HandleSent(c) PROVE ConnInv'
  <2> DEFINE ops == pending[c] \ {"write"}
  <2>1. /\ Nervure!Point(c, "valid", ops) /\ conn[c] = "valid"
        /\ UNCHANGED <<listed, lost, wrote>>
    BY <1>5 DEF Nervure!HandleSent, Nervure!history
  <2>2. lost[c] = 0 /\ "connect" \notin ops /\ "write" \notin ops
    BY <2>1 DEF ConnInv, NervureTypeOK, Connection
  <2>3. ops \in SUBSET Operations
    BY DEF ConnInv, NervureTypeOK, Operations
  <2> HIDE DEF ops
  <2> QED BY <2>1, <2>2, <2>3, PointKeeps DEF States
<1>6. ASSUME NEW c \in Nervure!Conns, NEW op \in {"read", "write"},
             Nervure!HandleError(c, op)
      PROVE  ConnInv'
  BY <1>6, DropKeeps DEF Nervure!HandleError
<1>7. CASE Nervure!StopInHandler \/ Nervure!HandlePosted
  <2>1. /\ conn' = [c \in Nervure!Conns |-> IF c \in listed THEN "freed" ELSE conn[c]]
        /\ pending' = [c \in Nervure!Conns |-> {}]
        /\ listed' = {} /\ UNCHANGED <<lost, wrote>>
    BY <1>7 DEF Nervure!StopInHandler, Nervure!HandlePosted, Nervure!InternalStop, Nervure!history
  <2>2. NervureTypeOK'
    BY <2>1 DEF ConnInv, NervureTypeOK, States
  <2>3. \A c \in Nervure!Conns : Connection(c)'
    BY <2>1 DEF ConnInv, Connection
  <2> QED BY <2>2, <2>3 DEF ConnInv
<1>8. CASE UNCHANGED <<conn, pending, listed, lost, wrote>>
  BY <1>8 DEF ConnInv, NervureTypeOK, Connection
<1>12. ASSUME NEW c \in Nervure!Conns, Nervure!HandleReceived(c) PROVE ConnInv'
  <2> DEFINE ops == pending[c] \ {"read"}
  <2>1. /\ Nervure!Point(c, "valid", ops) /\ conn[c] = "valid"
        /\ UNCHANGED <<listed, lost, wrote>>
    BY <1>12 DEF Nervure!HandleReceived, Nervure!history
  <2>2. lost[c] = 0 /\ "connect" \notin ops /\ ("write" \in ops => c \in wrote)
    BY <2>1 DEF ConnInv, NervureTypeOK, Connection
  <2>3. ops \in SUBSET Operations
    BY DEF ConnInv, NervureTypeOK, Operations
  <2> HIDE DEF ops
  <2> QED BY <2>1, <2>2, <2>3, PointKeeps DEF States
<1>13. CASE Nervure!HandlerEnds
  <2>1. UNCHANGED <<conn, listed, lost, wrote>>
    BY <1>13 DEF Nervure!HandlerEnds, Nervure!history
  <2>2. CASE UNCHANGED pending
    BY <2>1, <2>2 DEF ConnInv, NervureTypeOK, Connection
  <2>3. ASSUME NEW c \in Nervure!Conns, inside = c, conn[c] # "freed",
               NEW ops \in {pending[c], pending[c] \cup {"read"}},
               pending' = [pending EXCEPT ![c] = ops]
        PROVE  ConnInv'
    <3>1. conn[c] = "valid" /\ lost[c] # 1 /\ pending[c] \subseteq Operations
          /\ "connect" \notin pending[c] /\ ("write" \in pending[c] => c \in wrote)
      BY <2>3 DEF Places, ConnInv, NervureTypeOK, Connection
    <3>2. ops \subseteq Operations /\ "connect" \notin ops /\ ("write" \in ops => c \in wrote)
      BY <2>3, <3>1 DEF Operations
    <3>3. /\ pending' \in [Nervure!Conns -> SUBSET Operations] /\ pending'[c] = ops
          /\ \A d \in Nervure!Conns \ {c} : pending'[d] = pending[d]
      BY <2>3, <3>2 DEF ConnInv, NervureTypeOK
    <3>4. NervureTypeOK'
      BY <2>1, <3>3 DEF ConnInv, NervureTypeOK
    <3>5. \A d \in Nervure!Conns \ {c} : Untouched(d)
      BY <2>1, <3>3 DEF Untouched
    <3>6. Connection(c)'
      BY <2>1, <3>1, <3>2, <3>3 DEF Connection
    <3> QED BY <3>4, <3>5, <3>6, OneConnection
  <2> QED BY <1>13, <2>2, <2>3 DEF Nervure!HandlerEnds, Nervure!StartRecv
<1>9. ASSUME NEW c \in Nervure!Conns, Nervure!HandleFreed(c)
      PROVE  UNCHANGED <<conn, pending, listed, lost, wrote>>
  BY <1>9 DEF Nervure!HandleFreed, Nervure!connVars, Nervure!history
<1>10. ASSUME NEW t \in Stoppers, Nervure!StopCalled(t) \/ Nervure!Stopping(t)
       PROVE  UNCHANGED <<conn, pending, listed, lost, wrote>>
  BY <1>10 DEF Nervure!StopCalled, Nervure!Stopping, Nervure!StopPosts, Nervure!StopWakes,
               Nervure!connVars, Nervure!history
<1>11. ASSUME Nervure!HandleAcceptError \/ Nervure!Run \/ Nervure!RunReturns \/ Nervure!Rerun
              \/ UNCHANGED Nervure!vars
       PROVE  UNCHANGED <<conn, pending, listed, lost, wrote>>
  BY <1>11 DEF Nervure!HandleAcceptError, Nervure!Run, Nervure!RunReturns, Nervure!Rerun, Nervure!vars,
               Nervure!connVars, Nervure!history
<1> QED BY <1>1, <1>2, <1>3, <1>4, <1>5, <1>6, <1>7, <1>8, <1>9, <1>10, <1>11, <1>12, <1>13
        DEF Nervure!Next, Nervure!Handlers, Nervure!Program

\* Only stop() takes the object of the handler that is on the stack.
LEMMA PlacesStep ==
  ASSUME NervureAssumption, ConnInv, Places, [Nervure!Next]_(Nervure!vars)
  PROVE  Places'
<1> DEFINE Same == UNCHANGED <<acceptor, io, stoppedIn, undefined, wrote>>
<1>1. \A c \in Nervure!Conns : c \notin {"none", "server", "lost"}
  BY DEF NervureAssumption, Nervure!Conns
<1>2. ASSUME NEW c \in Nervure!Conns, NEW state \in States \ {"freed"}, NEW ops \in SUBSET Operations,
             Nervure!Point(c, state, ops), UNCHANGED inside, state = "valid" \/ conn[c] \in {"none", "connecting"},
             UNCHANGED <<acceptor, io, stoppedIn, undefined>>, wrote \subseteq wrote'
      PROVE  Places'
  <2>1. conn'[c] = state /\ \A d \in Nervure!Conns \ {c} : conn'[d] = conn[d]
    BY <1>2, PointSets DEF ConnInv
  <2> QED BY <1>2, <2>1 DEF Places, States
<1>3. ASSUME NEW c \in Nervure!Conns, NEW ops \in SUBSET Operations,
             Nervure!Point(c, "valid", ops), inside' \in {c, "server"}, io = "running", ~undefined, Same
      PROVE  Places'
  <2>1. conn'[c] = "valid"
    BY <1>3, PointSets DEF ConnInv, States
  <2> QED BY <1>1, <1>3, <2>1 DEF Places
<1>4. ASSUME NEW c \in Nervure!Conns, Nervure!AddClient(c) PROVE Places'
  <2>1. Nervure!Point(c, "connecting", {"connect"}) /\ conn[c] = "none"
        /\ UNCHANGED <<acceptor, inside, io, stoppedIn, undefined, wrote>>
    BY <1>4 DEF Nervure!AddClient, Nervure!stopVars, Nervure!history
  <2> QED BY <1>2, <2>1 DEF States, Operations
<1>5. ASSUME NEW c \in Nervure!Conns, Nervure!HandleConnected(c) PROVE Places'
  <2>1. io = "running" /\ ~undefined /\ Same /\ inside = "none" /\ pending[c] = {"connect"}
    BY <1>5 DEF Nervure!HandleConnected, Nervure!Handling, Nervure!stopVars, Nervure!history
  <2>2. CASE Nervure!Point(c, "valid", {}) /\ inside' = c
    BY <1>3, <2>1, <2>2
  <2>3. CASE Nervure!Point(c, "error", {}) /\ UNCHANGED inside
    <3>1. conn[c] = "connecting"
      BY <2>1 DEF ConnInv, Connection
    <3> QED BY <1>2, <2>1, <2>3, <3>1 DEF States
  <2> QED BY <1>5, <2>2, <2>3 DEF Nervure!HandleConnected
<1>6. ASSUME NEW c \in Nervure!Conns, Nervure!HandleAccept(c) PROVE Places'
  <2>1. PICK ops \in {{}, {"read"}} : Nervure!Point(c, "valid", ops)
    BY <1>6 DEF Nervure!HandleAccept, Nervure!StartRecv
  <2>2. io = "running" /\ ~undefined /\ Same /\ inside' = "server"
    BY <1>6 DEF Nervure!HandleAccept, Nervure!Handling, Nervure!stopVars, Nervure!history
  <2> QED BY <1>3, <2>1, <2>2 DEF Operations
<1>7. ASSUME NEW c \in Nervure!Conns, Nervure!HandleReceived(c) PROVE Places'
  <2>1. Nervure!Point(c, "valid", pending[c] \ {"read"}) /\ io = "running" /\ ~undefined /\ Same /\ inside' = c
    BY <1>7 DEF Nervure!HandleReceived, Nervure!Handling, Nervure!stopVars, Nervure!history
  <2>2. pending[c] \ {"read"} \in SUBSET Operations
    BY DEF ConnInv, NervureTypeOK
  <2> QED BY <1>3, <2>1, <2>2
<1>8. ASSUME NEW c \in Nervure!Conns, Nervure!Send(c) \/ Nervure!HandleSent(c) PROVE Places'
  <2>1. /\ \/ Nervure!Point(c, "valid", pending[c] \cup {"write"})
           \/ Nervure!Point(c, "valid", pending[c] \ {"write"})
        /\ UNCHANGED <<acceptor, inside, io, stoppedIn, undefined>> /\ wrote \subseteq wrote'
    BY <1>8 DEF Nervure!Send, Nervure!HandleSent, Nervure!stopVars, Nervure!history
  <2>2. pending[c] \cup {"write"} \in SUBSET Operations /\ pending[c] \ {"write"} \in SUBSET Operations
    BY DEF ConnInv, NervureTypeOK, Operations
  <2> QED BY <1>2, <2>1, <2>2 DEF States
<1>9. ASSUME NEW c \in Nervure!Conns, NEW op \in {"read", "write"}, Nervure!HandleError(c, op) PROVE Places'
  <2>1. inside' = "lost" /\ ~undefined /\ Same
    BY <1>9 DEF Nervure!HandleError, Nervure!Handling, Nervure!stopVars
  <2> QED BY <1>1, <2>1 DEF Places
<1>10. ASSUME NEW c \in Nervure!Conns, Nervure!HandleFreed(c) PROVE Places'
  <2>1. inside = "none" /\ UNCHANGED <<acceptor, conn, inside, io, stoppedIn, wrote>>
    BY <1>10 DEF Nervure!HandleFreed, Nervure!Handling, Nervure!connVars, Nervure!stopVars, Nervure!history
  <2>2. wrote # {}
    BY <1>10 DEF Nervure!HandleFreed, ConnInv, Connection
  <2> QED BY <2>1, <2>2 DEF Places
<1>11. CASE Nervure!HandlerEnds
  <2>1. inside' = "none" /\ UNCHANGED <<acceptor, conn, io, stoppedIn, wrote>>
    BY <1>11 DEF Nervure!HandlerEnds, Nervure!stopVars, Nervure!history
  <2>2. undefined' => wrote # {} \/ stoppedIn \in Nervure!Conns \cup {"server"}
    <3>1. CASE UNCHANGED undefined
      BY <3>1 DEF Places
    <3>2. CASE inside \in Nervure!Conns /\ conn[inside] = "freed"
      BY <3>2 DEF Places
    <3>3. CASE inside = "server" /\ undefined' = (acceptor = "closed")
      BY <3>3 DEF Places
    <3> QED BY <1>11, <3>1, <3>2, <3>3 DEF Nervure!HandlerEnds
  <2> QED BY <1>1, <2>1, <2>2 DEF Places
<1>12. CASE Nervure!StopInHandler \/ Nervure!HandlePosted
  <2>1. /\ io' = "stopped" /\ UNCHANGED <<inside, undefined, wrote>>
        /\ conn' = [c \in Nervure!Conns |-> IF c \in listed THEN "freed" ELSE conn[c]]
        /\ \/ stoppedIn' = inside /\ inside # "none"
           \/ inside = "none" /\ UNCHANGED stoppedIn
    BY <1>12 DEF Nervure!StopInHandler, Nervure!HandlePosted, Nervure!InternalStop, Nervure!InProgram, Nervure!Handling,
                 Nervure!history
  <2>2. ~undefined
    BY <1>12 DEF Places, Nervure!StopInHandler, Nervure!HandlePosted, Nervure!InProgram, Nervure!Handling
  <2> QED BY <1>1, <2>1, <2>2 DEF Places
<1>13. CASE \/ Nervure!HandleAcceptError \/ Nervure!Run \/ Nervure!RunReturns \/ Nervure!Rerun
            \/ \E t \in Stoppers : Nervure!StopCalled(t) \/ Nervure!Stopping(t)
  <2>1. /\ UNCHANGED <<conn, inside, stoppedIn, undefined, wrote>>
        /\ acceptor' \in {acceptor, "deaf"}
        /\ io' = io \/ io \in {"made", "running"}
    BY <1>13 DEF Nervure!HandleAcceptError, Nervure!Run, Nervure!RunReturns, Nervure!Rerun,
                 Nervure!StopCalled, Nervure!Stopping, Nervure!StopPosts, Nervure!StopWakes,
                 Nervure!Handling, Nervure!connVars, Nervure!stopVars, Nervure!history
  <2> QED BY <2>1 DEF Places
<1>14. CASE UNCHANGED Nervure!vars
  BY <1>14 DEF Places, Nervure!vars, Nervure!connVars, Nervure!stopVars, Nervure!history
<1> QED BY <1>4, <1>5, <1>6, <1>7, <1>8, <1>9, <1>10, <1>11, <1>12, <1>13, <1>14
        DEF Nervure!Next, Nervure!Handlers, Nervure!Program

LEMMA NervureInvariant == Nervure!Spec => []NervureInv
<1>1. Nervure!Init => NervureInv
  <2> SUFFICES ASSUME Nervure!Init PROVE NervureInv
    OBVIOUS
  <2>1. /\ conn = [c \in Nervure!Conns |-> "none"] /\ pending = [c \in Nervure!Conns |-> {}]
        /\ lost = [c \in Nervure!Conns |-> 0]
        /\ inside = "none" /\ acceptor # "closed" /\ undefined = FALSE
    BY DEF Nervure!Init
  <2>2. ConnInv
    BY <2>1 DEF ConnInv, NervureTypeOK, Connection, States, Operations
  <2>3. \A c \in Nervure!Conns : inside # c
    BY <2>1, NervureAssumption DEF Nervure!Conns
  <2> QED BY <2>1, <2>2, <2>3 DEF NervureInv, Places
<1>2. NervureInv /\ [Nervure!Next]_(Nervure!vars) => NervureInv'
  BY ConnStep, PlacesStep, NervureAssumption DEF NervureInv
<1> QED BY <1>1, <1>2, PTL DEF Nervure!Spec

\* However the failures of a read and of a write, a stop and the ends of other
\* connections come, on_conn_recv_or_send_error tells the program at most once
\* that it has lost a connection, and the nervure does not list it then (LostOnce).
THEOREM LossIsToldOnce == Nervure!Spec => []LostOnce
<1>1. NervureInv => LostOnce
  BY DEF NervureInv, ConnInv, NervureTypeOK, Connection, LostOnce, Nervure!LostOnce
<1> QED BY <1>1, NervureInvariant, PTL

\* A connection is freed with a handler still to come, or on the stack, only if
\* something was sent on it or its own handler called stop(); and a handler runs on an
\* object that is gone only after one of these or a stop() as the server accepts
\* (FreedInUse): on_conn_recv_or_send_error and internal_stop, posted from another
\* thread, free no connection that only receives while it is in use.
THEOREM FreedInUseNeedsACause == Nervure!Spec => []FreedInUse
<1>1. NervureInv => FreedInUse
  BY DEF NervureInv, ConnInv, Connection, Places, FreedInUse, Nervure!FreedInUse
<1> QED BY <1>1, NervureInvariant, PTL

-----------------------------------------------------------------------------
(***************************************************************************)
(* A request over https.  A client runs once, in the first call of         *)
(* result(), for the io_service has stopped afterwards; what it has of the *)
(* body are the units that were read behind the headers.                   *)
(***************************************************************************)
Phases == {"idle", "resolve", "connect", "handshake", "write", "status", "headers", "content"}

HttpsTypeOK ==
  /\ answer \in Https!Answers /\ phase \in Phases /\ read \in Nat
  /\ response \in Seq(Nat) /\ result \in Seq(Nat)
  /\ skipped \in Nat
  /\ asked \in Seq(Seq(Nat)) /\ m_result \in Seq(Nat) /\ stopped \in BOOLEAN

HttpsInv ==
  /\ HttpsTypeOK
  /\ phase # "idle" => ~stopped
  /\ ~stopped => asked = <<>> /\ m_result = <<>>
  /\ stopped => asked # <<>> /\ m_result = asked[1]
  /\ phase \in Phases \ {"idle", "content"} => result = <<>>
  /\ phase = "content" => response = <<>> /\ skipped <= read /\ result = Https!Units(skipped, read)

LEMMA UnitsType ==
  ASSUME NEW a \in Nat, NEW b \in Nat, a <= b
  PROVE  Https!Units(a, b) \in Seq(Nat) /\ Len(Https!Units(a, b)) = b - a
<1>1. b - a \in Nat /\ \A i \in 1 .. b - a : a + i \in Nat
  OBVIOUS
<1> QED BY <1>1 DEF Https!Units

LEMMA NoUnits ==
  ASSUME NEW a \in Nat PROVE Https!Units(a, a) = <<>>
<1>1. Https!Units(a, a) \in Seq(Nat) /\ Len(Https!Units(a, a)) = 0
  BY UnitsType
<1> QED BY <1>1, EmptySeq

LEMMA UnitsJoin ==
  ASSUME NEW a \in Nat, NEW b \in Nat, NEW c \in Nat, a <= b, b <= c
  PROVE  Https!Units(a, b) \o Https!Units(b, c) = Https!Units(a, c)
<1> DEFINE s == Https!Units(a, b)
           t == Https!Units(b, c)
           u == Https!Units(a, c)
<1>0. a <= c
  OBVIOUS
<1>1. /\ s \in Seq(Nat) /\ t \in Seq(Nat) /\ u \in Seq(Nat)
      /\ Len(s) = b - a /\ Len(t) = c - b /\ Len(u) = c - a
  BY <1>0, UnitsType, Zenon
<1>2. /\ \A i \in 1 .. b - a : s[i] = a + i
      /\ \A i \in 1 .. c - b : t[i] = b + i
      /\ \A i \in 1 .. c - a : u[i] = a + i
  BY DEF Https!Units
<1> HIDE DEF s, t, u
<1>3. /\ s \o t \in Seq(Nat) /\ Len(s \o t) = Len(s) + Len(t)
      /\ \A i \in 1 .. Len(s) + Len(t) :
           (s \o t)[i] = IF i <= Len(s) THEN s[i] ELSE t[i - Len(s)]
  BY <1>1, ConcatProperties, Zenon
<1>4. Len(s) + Len(t) = Len(u) /\ Len(u) = c - a
  BY <1>1
<1>5. ASSUME NEW i \in 1 .. Len(u) PROVE (s \o t)[i] = u[i]
  <2>1. (s \o t)[i] = (IF i <= Len(s) THEN s[i] ELSE t[i - Len(s)]) /\ u[i] = a + i
    BY <1>2, <1>3, <1>4
  <2>2. CASE i <= Len(s)
    BY <1>1, <1>2, <1>4, <2>1, <2>2
  <2>3. CASE ~(i <= Len(s))
    <3>1. i - Len(s) \in 1 .. c - b /\ b + (i - Len(s)) = a + i
      BY <1>1, <1>4, <2>3
    <3> QED BY <1>2, <2>1, <2>3, <3>1
  <2> QED BY <2>2, <2>3
<1>6. s \o t = u
  BY <1>1, <1>3, <1>4, <1>5, SeqEqual
<1> QED BY <1>6 DEF s, t, u

\* A handler that starts no other operation
LEMMA StopKeeps ==
  ASSUME HttpsInv, Https!Stop(result), phase # "idle", UNCHANGED <<answer, skipped, result>>,
         read' \in Nat, response' \in Seq(Nat)
  PROVE  HttpsInv'
<1>1. /\ phase' = "idle" /\ stopped' = TRUE /\ m_result' = result
      /\ asked' = Append(asked, result)
  BY DEF Https!Stop, Https!Return
<1>2. asked = <<>> /\ asked \in Seq(Seq(Nat)) /\ result \in Seq(Nat)
  BY DEF HttpsInv, HttpsTypeOK
<1>3. asked' \in Seq(Seq(Nat)) /\ Len(asked') = 1 /\ asked'[1] = result
  BY <1>1, <1>2, AppendProperties
<1>4. HttpsTypeOK'
  BY <1>1, <1>3 DEF HttpsInv, HttpsTypeOK, Phases
<1>5. asked' # <<>>
  <2>1. asked' \in Seq(Seq(Nat)) /\ Len(asked') # 0
    BY <1>3
  <2> QED BY <2>1, EmptySeq
<1> QED BY <1>1, <1>3, <1>4, <1>5 DEF HttpsInv

LEMMA BodyLeft ==
  ASSUME MaxBody \in Nat, HttpsInv, NEW least \in Nat, NEW n \in least .. answer.body - read
  PROVE  n \in Nat /\ read + n \in Nat /\ read <= read + n
<1>1. answer \in Https!Answers /\ read \in Nat
  BY DEF HttpsInv, HttpsTypeOK
<1>2. answer.body \in 0 .. MaxBody
  BY <1>1, Zenon DEF Https!Answers
<1> QED BY <1>1, <1>2

\* A call of a client that has stopped
LEMMA AgainGives ==
  ASSUME HttpsInv, Https!Result, stopped
  PROVE  /\ asked # <<>> /\ m_result = asked[1] /\ UNCHANGED <<m_result, phase>>
         /\ asked' \in Seq(Seq(Nat)) /\ asked' # <<>> /\ asked'[1] = asked[1]
         /\ asked'[Len(asked')] = asked[1]
<1>1. asked' = Append(asked, m_result) /\ UNCHANGED <<m_result, phase>>
  BY DEF Https!Result, Https!Return
<1>2. asked \in Seq(Seq(Nat)) /\ asked # <<>> /\ m_result \in Seq(Nat) /\ m_result = asked[1]
  BY DEF HttpsInv, HttpsTypeOK
<1>3. Len(asked) \in Nat /\ Len(asked) # 0
  BY <1>2, LenProperties, EmptySeq
<1>4. /\ asked' \in Seq(Seq(Nat)) /\ Len(asked') = Len(asked) + 1 /\ asked'[Len(asked) + 1] = m_result
      /\ \A i \in 1 .. Len(asked) : asked'[i] = asked[i]
  BY <1>1, <1>2, AppendProperties
<1>5. 1 \in 1 .. Len(asked) /\ Len(asked') # 0
  BY <1>3, <1>4
<1>6. asked' # <<>>
  BY <1>4, <1>5, EmptySeq
<1> QED BY <1>1, <1>2, <1>4, <1>5, <1>6

LEMMA HttpsStep == MaxBody \in Nat /\ HttpsInv /\ [Https!Next]_(Https!vars) => HttpsInv'
<1> SUFFICES ASSUME MaxBody \in Nat, HttpsInv, [Https!Next]_(Https!vars) PROVE HttpsInv'
  OBVIOUS
<1>1. CASE Https!Result
  <2>1. /\ phase = "idle" /\ answer' \in Https!Answers
        /\ read' = 0 /\ response' = <<>> /\ skipped' = 0 /\ result' = <<>> /\ UNCHANGED stopped
    BY <1>1 DEF Https!Result
  <2>2. CASE stopped
    <3>1. /\ asked' \in Seq(Seq(Nat)) /\ asked' # <<>> /\ m_result' = asked'[1] /\ UNCHANGED <<m_result, phase>>
      BY <1>1, <2>2, AgainGives
    <3>2. HttpsTypeOK'
      BY <2>1, <3>1 DEF HttpsInv, HttpsTypeOK
    <3> QED BY <2>1, <2>2, <3>1, <3>2 DEF HttpsInv
  <2>3. CASE ~stopped
    <3>1. phase' = "resolve" /\ UNCHANGED <<asked, m_result>>
      BY <1>1, <2>3 DEF Https!Result, HttpsInv
    <3>2. HttpsTypeOK'
      BY <2>1, <3>1 DEF HttpsInv, HttpsTypeOK, Phases
    <3> QED BY <2>1, <2>3, <3>1, <3>2 DEF HttpsInv
  <2> QED BY <2>2, <2>3
<1>2. CASE Https!Step
  <2>1. /\ phase \in {"resolve", "connect", "handshake", "write"}
        /\ phase' \in {"connect", "handshake", "write", "status"}
        /\ UNCHANGED <<answer, asked, m_result, stopped, read, response, skipped, result>>
    BY <1>2 DEF Https!Step, Https!After
  <2>2. result = <<>> /\ ~stopped
    BY <2>1 DEF HttpsInv, Phases
  <2>3. HttpsTypeOK'
    BY <2>1 DEF HttpsInv, HttpsTypeOK, Phases
  <2> QED BY <2>1, <2>2, <2>3 DEF HttpsInv
<1>3. CASE Https!StatusLine
  <2>1. PICK n \in 0 .. answer.body - read :
          read' = read + n /\ response' = response \o Https!Units(read, read + n)
    BY <1>3 DEF Https!StatusLine, Https!Bring
  <2>2. read \in Nat /\ read + n \in Nat /\ read <= read + n
    BY <2>1, BodyLeft DEF HttpsInv, HttpsTypeOK
  <2>3. phase = "status" /\ result = <<>> /\ response \in Seq(Nat)
    BY <1>3 DEF Https!StatusLine, HttpsInv, HttpsTypeOK, Phases
  <2>4. read' \in Nat /\ response' \in Seq(Nat)
    <3>1. Https!Units(read, read + n) \in Seq(Nat)
      BY <2>2, UnitsType, Zenon
    <3> QED BY <2>1, <2>2, <2>3, <3>1, ConcatProperties
  <2>5. CASE answer.status = "ok"
    <3>1. phase' = "headers" /\ UNCHANGED <<stopped, asked, m_result, answer, skipped, result>>
      BY <1>3, <2>5 DEF Https!StatusLine
    <3>2. HttpsTypeOK'
      BY <2>4, <3>1 DEF HttpsInv, HttpsTypeOK, Phases
    <3> QED BY <2>3, <3>1, <3>2 DEF HttpsInv
  <2>6. CASE answer.status # "ok"
    <3>1. Https!Stop(result) /\ UNCHANGED <<answer, skipped, result>>
      BY <1>3, <2>6 DEF Https!StatusLine
    <3> QED BY <2>3, <2>4, <3>1, StopKeeps
  <2> QED BY <2>5, <2>6
<1>4. CASE Https!Headers
  <2>1. PICK n \in 0 .. answer.body - read : read' = read + n
    BY <1>4 DEF Https!Headers
  <2>2. /\ phase = "headers" /\ phase' = "content" /\ response' = <<>> /\ skipped' = read'
        /\ UNCHANGED <<answer, asked, m_result, stopped, result>>
    BY <1>4 DEF Https!Headers
  <2>3. read' \in Nat /\ result = <<>>
    BY <2>1, <2>2, BodyLeft DEF HttpsInv, Phases
  <2>4. HttpsTypeOK'
    BY <2>2, <2>3 DEF HttpsInv, HttpsTypeOK, Phases
  <2>5. result' = Https!Units(skipped', read') /\ skipped' <= read'
    BY <2>2, <2>3, NoUnits
  <2> QED BY <2>2, <2>3, <2>4, <2>5 DEF HttpsInv
<1>5. CASE Https!Content
  <2>1. PICK n \in 1 .. answer.body - read :
          read' = read + n /\ result' = result \o response \o Https!Units(read, read + n)
    BY <1>5 DEF Https!Content
  <2>2. /\ phase = "content" /\ response' = <<>>
        /\ UNCHANGED <<answer, asked, m_result, stopped, phase, skipped>>
    BY <1>5 DEF Https!Content
  <2>3. /\ response = <<>> /\ result = Https!Units(skipped, read)
        /\ result \in Seq(Nat) /\ skipped \in Nat /\ skipped <= read /\ read \in Nat
    BY <2>2 DEF HttpsInv, HttpsTypeOK
  <2>4. n \in Nat /\ read + n \in Nat /\ read <= read + n /\ skipped <= read + n
    BY <2>1, <2>3, BodyLeft
  <2>5. result \o response = result
    BY <2>3
  <2>6. result' = Https!Units(skipped, read')
    <3>1. Https!Units(skipped, read) \o Https!Units(read, read + n) = Https!Units(skipped, read + n)
      BY <2>3, <2>4, UnitsJoin, Zenon
    <3> QED BY <2>1, <2>3, <2>5, <3>1
  <2>7. result' \in Seq(Nat) /\ read' \in Nat /\ skipped <= read'
    <3>1. read' \in Nat /\ skipped <= read'
      BY <2>1, <2>4
    <3> QED BY <2>3, <2>6, <3>1, UnitsType, Zenon
  <2>8. HttpsTypeOK'
    BY <2>2, <2>7, EmptySeq DEF HttpsInv, HttpsTypeOK
  <2> QED BY <2>2, <2>6, <2>7, <2>8 DEF HttpsInv
<1>6. CASE Https!Fails
  <2>1. /\ phase # "idle" /\ Https!Stop(result) /\ UNCHANGED <<answer, read, response, skipped, result>>
    BY <1>6 DEF Https!Fails
  <2> QED BY <2>1, StopKeeps DEF HttpsInv, HttpsTypeOK
<1>7. CASE UNCHANGED Https!vars
  BY <1>7 DEF Https!vars, Https!client, HttpsInv, HttpsTypeOK
<1> QED BY <1>1, <1>2, <1>3, <1>4, <1>5, <1>6, <1>7 DEF Https!Next

\* A handler that ends the first call returns what the client has.
LEMMA FirstGives ==
  ASSUME HttpsInv, Https!StatusLine \/ Https!Fails, asked' # asked
  PROVE  Https!Returned(asked'[Len(asked')])
<1>1. asked' = Append(asked, result) /\ phase \notin {"idle"} /\ (phase = "content" \/ result = <<>>)
  BY DEF Https!StatusLine, Https!Fails, Https!Stop, Https!Return, HttpsInv, HttpsTypeOK, Phases
<1>2. asked = <<>> /\ asked \in Seq(Seq(Nat)) /\ result \in Seq(Nat)
  BY <1>1 DEF HttpsInv, HttpsTypeOK
<1>3. Len(asked') = 1 /\ asked'[1] = result
  BY <1>1, <1>2, AppendProperties
<1>4. result = IF phase = "content" THEN Https!Units(skipped, read) ELSE <<>>
  BY <1>1 DEF HttpsInv
<1> QED BY <1>2, <1>3, <1>4 DEF Https!Returned

\* For a body of any length: the first call of result() returns exactly the units that
\* were read behind the headers, whichever reads brought how much and whatever failed,
\* and every later call the same again (AnswersAreAsRead).
THEOREM AnswersGiveWhatWasRead == MaxBody \in Nat => (Https!Spec => AnswersAreAsRead)
<1> SUFFICES ASSUME MaxBody \in Nat PROVE Https!Spec => AnswersAreAsRead
  OBVIOUS
<1>1. Https!Init => HttpsInv
  <2> SUFFICES ASSUME Https!Init PROVE HttpsInv
    OBVIOUS
  <2>1. /\ answer \in Https!Answers /\ asked = <<>> /\ m_result = <<>> /\ stopped = FALSE
        /\ phase = "idle" /\ read = 0 /\ response = <<>> /\ skipped = 0 /\ result = <<>>
    BY DEF Https!Init
  <2>2. HttpsTypeOK
    BY <2>1, EmptySeq DEF HttpsTypeOK, Phases
  <2> QED BY <2>1, <2>2 DEF HttpsInv
<1>2. HttpsInv /\ [Https!Next]_(Https!vars) => HttpsInv'
  BY HttpsStep
<1>3. HttpsInv /\ [Https!Next]_(Https!vars)
        => [asked' # asked => Https!Returned(asked'[Len(asked')])]_(Https!vars)
  <2> SUFFICES ASSUME HttpsInv, Https!Next, asked' # asked
               PROVE  Https!Returned(asked'[Len(asked')])
    OBVIOUS
  <2>1. CASE Https!Result
    <3>1. stopped
      BY <2>1 DEF Https!Result, HttpsInv
    <3> QED BY <2>1, <3>1, AgainGives DEF Https!Returned
  <2>2. CASE Https!StatusLine \/ Https!Fails
    BY <2>2, FirstGives
  <2>3. CASE Https!Step \/ Https!Headers \/ Https!Content
    BY <2>3 DEF Https!Step, Https!Headers, Https!Content
  <2> QED BY <2>1, <2>2, <2>3 DEF Https!Next
<1> QED BY <1>1, <1>2, <1>3, PTL DEF Https!Spec, AnswersAreAsRead, Https!AnswersAreAsRead

-----------------------------------------------------------------------------
(***************************************************************************)
(* The hubs.  A hub that has a handler for an id has a creator for it, and *)
(* a hub that a cache names handles the package; hubs are only added to.   *)
(***************************************************************************)

\* No package class is named as the model names the absence of one.
HubAssumption == Hubs \in Nat /\ Hub!None \notin Types

Class == Types \cup {Hub!None}

HubTypeOK ==
  /\ creator \in [1 .. Hubs -> [Hub!Ids -> Class]]
  /\ handler \in [1 .. Hubs -> [Hub!Kinds -> [Hub!Ids -> Class]]]
  /\ cache \in [Hub!Points -> [Hub!Ids -> 0 .. Hubs]]

OfItsId ==
  \A h \in 1 .. Hubs, i \in Hub!Ids :
    /\ creator[h][i] # Hub!None => Id[creator[h][i]] = i
    /\ \A k \in Hub!Kinds : handler[h][k][i] # Hub!None =>
         Id[handler[h][k][i]] = i /\ creator[h][i] # Hub!None

CacheHandles ==
  \A p \in Hub!Points, i \in Hub!Ids :
    cache[p][i] # 0 => Hub!ToHandle(cache[p][i], p, i)

HubInv == HubTypeOK /\ OfItsId /\ CacheHandles

\* map::insert adds a value where there is none, and changes no other.
LEMMA InsertAdds ==
  ASSUME NEW map \in [Hub!Ids -> Class], NEW key \in Hub!Ids, NEW value \in Types,
         Hub!None \notin Types
  PROVE  /\ Hub!Insert(map, key, value) \in [Hub!Ids -> Class]
         /\ Hub!Insert(map, key, value)[key] \in {map[key], value} \ {Hub!None}
         /\ \A i \in Hub!Ids : map[i] # Hub!None => Hub!Insert(map, key, value)[i] = map[i]
         /\ \A i \in Hub!Ids \ {key} : Hub!Insert(map, key, value)[i] = map[i]
BY DEF Hub!Insert, Class

LEMMA ToRecvKeeps ==
  ASSUME HubAssumption, HubInv, NEW h \in 1 .. Hubs, NEW k \in Hub!Kinds, NEW t \in Types,
         Hub!ToRecv(h, k, t)
  PROVE  HubInv'
<1> DEFINE id   == Id[t]
           made == Hub!Insert(creator[h], id, t)
           has  == Hub!Insert(handler[h][k], id, t)
<1>1. /\ creator' = [creator EXCEPT ![h] = made]
      /\ handler' = [handler EXCEPT ![h][k] = has] /\ UNCHANGED cache
  BY DEF Hub!ToRecv
<1>2. id \in Hub!Ids /\ Hub!None \notin Types
  BY DEF Hub!Ids, HubAssumption
<1>3. creator[h] \in [Hub!Ids -> Class] /\ handler[h][k] \in [Hub!Ids -> Class]
  BY DEF HubInv, HubTypeOK
<1> HIDE DEF id
<1>4. /\ made \in [Hub!Ids -> Class] /\ made[id] \in {creator[h][id], t} \ {Hub!None}
      /\ \A i \in Hub!Ids : creator[h][i] # Hub!None => made[i] = creator[h][i]
      /\ \A i \in Hub!Ids \ {id} : made[i] = creator[h][i]
  BY <1>2, <1>3, InsertAdds
<1>5. /\ has \in [Hub!Ids -> Class] /\ has[id] \in {handler[h][k][id], t} \ {Hub!None}
      /\ \A i \in Hub!Ids : handler[h][k][i] # Hub!None => has[i] = handler[h][k][i]
      /\ \A i \in Hub!Ids \ {id} : has[i] = handler[h][k][i]
  <2> DEFINE map == handler[h][k]
  <2>1. map \in [Hub!Ids -> Class]
    BY <1>3
  <2> HIDE DEF map
  <2>2. /\ Hub!Insert(map, id, t) \in [Hub!Ids -> Class]
        /\ Hub!Insert(map, id, t)[id] \in {map[id], t} \ {Hub!None}
        /\ \A i \in Hub!Ids : map[i] # Hub!None => Hub!Insert(map, id, t)[i] = map[i]
        /\ \A i \in Hub!Ids \ {id} : Hub!Insert(map, id, t)[i] = map[i]
    BY <1>2, <2>1, InsertAdds
  <2> QED BY <2>2 DEF map
<1> HIDE DEF made, has
<1>6. HubTypeOK'
  BY <1>1, <1>4, <1>5 DEF HubInv, HubTypeOK
<1>7. /\ creator'[h] = made /\ \A g \in 1 .. Hubs \ {h} : creator'[g] = creator[g]
      /\ handler'[h][k] = has
      /\ \A g \in 1 .. Hubs, l \in Hub!Kinds :
           g # h \/ l # k => handler'[g][l] = handler[g][l]
  BY <1>1, <1>4, <1>5 DEF HubInv, HubTypeOK
<1>8. Id[t] = id
  BY DEF id
<1>9. ASSUME NEW g \in 1 .. Hubs, NEW i \in Hub!Ids
      PROVE  /\ creator'[g][i] # Hub!None => Id[creator'[g][i]] = i
             /\ creator[g][i] # Hub!None => creator'[g][i] # Hub!None
  <2>1. CASE g # h
    BY <1>7, <2>1 DEF HubInv, OfItsId
  <2>2. CASE g = h /\ i # id
    BY <1>4, <1>7, <2>2 DEF HubInv, OfItsId
  <2>3. CASE g = h /\ i = id
    BY <1>4, <1>7, <1>8, <2>3 DEF HubInv, OfItsId
  <2> QED BY <2>1, <2>2, <2>3
<1>10. ASSUME NEW g \in 1 .. Hubs, NEW i \in Hub!Ids, NEW l \in Hub!Kinds,
              handler'[g][l][i] # Hub!None
       PROVE  Id[handler'[g][l][i]] = i /\ creator'[g][i] # Hub!None
  <2>1. CASE handler'[g][l][i] = handler[g][l][i]
    BY <1>9, <1>10, <2>1 DEF HubInv, OfItsId
  <2>2. CASE handler'[g][l][i] # handler[g][l][i]
    <3>1. g = h /\ l = k /\ i = id
      BY <1>5, <1>7, <2>2
    <3>2. handler'[g][l][i] = t
      BY <1>5, <1>7, <2>2, <3>1
    <3> QED BY <1>4, <1>7, <1>8, <3>1, <3>2
  <2> QED BY <2>1, <2>2
<1>11. ASSUME NEW g \in 1 .. Hubs, NEW i \in Hub!Ids, NEW l \in Hub!Kinds,
              handler[g][l][i] # Hub!None
       PROVE  handler'[g][l][i] # Hub!None
  <2>1. CASE g = h /\ l = k
    BY <1>5, <1>7, <1>11, <2>1
  <2>2. CASE g # h \/ l # k
    BY <1>7, <1>11, <2>2
  <2> QED BY <2>1, <2>2
<1>12. CacheHandles'
  <2> SUFFICES ASSUME NEW p \in Hub!Points, NEW i \in Hub!Ids, cache[p][i] # 0
               PROVE  Hub!ToHandle(cache[p][i], p, i)'
    BY <1>1 DEF CacheHandles
  <2>1. cache[p][i] \in 1 .. Hubs /\ p \in Hub!Kinds /\ "pkg" \in Hub!Kinds
    BY DEF HubInv, HubTypeOK, Hub!Points, Hub!Kinds, HubAssumption
  <2>2. Hub!ToHandle(cache[p][i], p, i)
    BY DEF HubInv, CacheHandles
  <2> QED BY <1>1, <1>11, <2>1, <2>2 DEF Hub!ToHandle
<1>13. OfItsId'
  BY <1>9, <1>10 DEF OfItsId
<1> QED BY <1>6, <1>12, <1>13 DEF HubInv

\* The first hub of several
LEMMA FirstHub ==
  ASSUME NEW hubs \in SUBSET (1 .. Hubs), hubs # {}, Hubs \in Nat
  PROVE  \E h \in hubs : \A g \in hubs : h <= g
<1>1. hubs \in SUBSET Nat
  OBVIOUS
<1>2. PICK h \in hubs : \A g \in hubs : ~(g < h)
  BY <1>1, LeastNatural
<1> QED BY <1>1, <1>2

LEMMA DispatchedHandle ==
  ASSUME HubAssumption, HubInv, NEW p \in Hub!Points, NEW i \in Hub!Ids
  PROVE  /\ Hub!Dispatched(p, i) \in SUBSET (1 .. Hubs)
         /\ \A h \in Hub!Dispatched(p, i) : Hub!ToHandle(h, p, i)
         /\ (\E h \in 1 .. Hubs : Hub!ToHandle(h, p, i)) => Hub!Dispatched(p, i) # {}
<1>1. cache[p][i] \in 0 .. Hubs
  BY DEF HubInv, HubTypeOK
<1>2. CASE cache[p][i] # 0
  <2>1. Hub!Dispatched(p, i) = {cache[p][i]}
    BY <1>2 DEF Hub!Dispatched
  <2>2. Hub!ToHandle(cache[p][i], p, i) /\ cache[p][i] \in 1 .. Hubs
    BY <1>1, <1>2 DEF HubInv, CacheHandles, HubAssumption
  <2> QED BY <2>1, <2>2
<1>3. CASE cache[p][i] = 0
  <2>1. Hub!Dispatched(p, i) = {h \in 1 .. Hubs : Hub!ToHandle(h, p, i)}
    BY <1>3 DEF Hub!Dispatched
  <2> QED BY <2>1
<1> QED BY <1>2, <1>3

LEMMA ReceiveKeeps ==
  ASSUME HubAssumption, HubInv, NEW p \in Hub!Points, NEW t \in Types, Hub!Receive(p, t)
  PROVE  HubInv'
<1> DEFINE id    == Id[t]
           hubs  == Hub!Dispatched(p, id)
           first == Hub!Cached(p, id)
<1>1. /\ cache' = [cache EXCEPT ![p][id] = first] /\ UNCHANGED <<creator, handler>>
  BY DEF Hub!Receive
<1>2. id \in Hub!Ids
  BY DEF Hub!Ids
<1> HIDE DEF id
<1>3. hubs \in SUBSET (1 .. Hubs) /\ \A h \in hubs : Hub!ToHandle(h, p, id)
  BY <1>2, DispatchedHandle
<1>4. first \in hubs \cup {0}
  <2>1. CASE hubs = {}
    BY <2>1 DEF Hub!Cached
  <2>2. CASE hubs # {}
    <3>1. first = CHOOSE h \in hubs : \A g \in hubs : h <= g
      BY <2>2 DEF Hub!Cached
    <3>2. \E h \in hubs : \A g \in hubs : h <= g
      BY <1>3, <2>2, FirstHub DEF HubAssumption
    <3> HIDE DEF hubs
    <3> QED BY <3>1, <3>2
  <2> QED BY <2>1, <2>2
<1> HIDE DEF hubs, first
<1>5. first \in 0 .. Hubs /\ (first # 0 => Hub!ToHandle(first, p, id))
  BY <1>3, <1>4 DEF HubAssumption
<1>6. HubTypeOK'
  BY <1>1, <1>5 DEF HubInv, HubTypeOK
<1>7. OfItsId'
  BY <1>1 DEF HubInv, OfItsId
<1>8. CacheHandles'
  <2> SUFFICES ASSUME NEW q \in Hub!Points, NEW i \in Hub!Ids, cache'[q][i] # 0
               PROVE  Hub!ToHandle(cache'[q][i], q, i)
    BY <1>1 DEF CacheHandles, Hub!ToHandle
  <2>1. CASE q = p /\ i = id
    BY <1>1, <1>2, <1>5, <2>1 DEF HubInv, HubTypeOK
  <2>2. CASE q # p \/ i # id
    BY <1>1, <2>2 DEF HubInv, HubTypeOK, CacheHandles
  <2> QED BY <2>1, <2>2
<1> QED BY <1>6, <1>7, <1>8 DEF HubInv

LEMMA HubStep == HubAssumption /\ HubInv /\ [Hub!Next]_(Hub!vars) => HubInv'
<1> SUFFICES ASSUME HubAssumption, HubInv, [Hub!Next]_(Hub!vars) PROVE HubInv'
  OBVIOUS
<1>1. CASE UNCHANGED Hub!vars
  <2>1. UNCHANGED <<creator, handler, cache>>
    BY <1>1 DEF Hub!vars
  <2> QED BY <2>1 DEF HubInv, HubTypeOK, OfItsId, CacheHandles, Hub!ToHandle
<1>2. CASE Hub!Next
  BY <1>2, ToRecvKeeps, ReceiveKeeps DEF Hub!Next
<1> QED BY <1>1, <1>2

\* A package whose id no other class has, when a hub has a handler for it
LEMMA PackageReaches ==
  ASSUME HubAssumption, HubInv, NEW p \in Hub!Points, NEW t \in Types
  PROVE  Hub!Reaches(p, t)
<1> DEFINE id == Id[t]
<1> SUFFICES ASSUME Hub!Receive(p, t), Hub!OwnId(t),
                    \E h \in 1 .. Hubs : Hub!ToHandle(h, p, id)
             PROVE  handled' # {} /\ \A c \in handled' : c.pkg = t
  BY DEF Hub!Reaches
<1>1. id \in Hub!Ids /\ p \in Hub!Kinds /\ "pkg" \in Hub!Kinds
  BY DEF Hub!Ids, Hub!Points, Hub!Kinds
<1>2. handled' = UNION {Hub!HandlePkg(h, p, id) : h \in Hub!Dispatched(p, id)}
  BY DEF Hub!Receive
<1>3. \A u \in Types : Id[u] = id => u = t
  BY DEF Hub!OwnId
<1> HIDE DEF id
<1>4. /\ Hub!Dispatched(p, id) \in SUBSET (1 .. Hubs) /\ Hub!Dispatched(p, id) # {}
      /\ \A h \in Hub!Dispatched(p, id) : Hub!ToHandle(h, p, id)
  BY <1>1, DispatchedHandle
<1>5. ASSUME NEW h \in 1 .. Hubs, NEW k \in Hub!Kinds, handler[h][k][id] # Hub!None
      PROVE  Hub!Cast(h, k, id) = t
  <2>1. handler[h][k][id] \in Types /\ Id[handler[h][k][id]] = id
    BY <1>1, <1>5 DEF HubInv, HubTypeOK, OfItsId, Class
  <2>2. creator[h][id] \in Types /\ Id[creator[h][id]] = id
    BY <1>1, <1>5 DEF HubInv, HubTypeOK, OfItsId, Class
  <2>3. handler[h][k][id] = t /\ creator[h][id] = t
    BY <1>3, <2>1, <2>2
  <2> QED BY <2>3 DEF Hub!Cast
<1>6. \A h \in Hub!Dispatched(p, id) : Hub!HandlePkg(h, p, id) # {}
  BY <1>1, <1>4 DEF Hub!HandlePkg, Hub!ToHandle
<1>7. \A h \in Hub!Dispatched(p, id) : \A c \in Hub!HandlePkg(h, p, id) : c.pkg = t
  BY <1>1, <1>4, <1>5 DEF Hub!HandlePkg
<1> QED BY <1>2, <1>4, <1>6, <1>7

\* For any classes, ids and number of hubs: a package with an id of its own
\* reaches a handler if any hub has one for it, as what it is, whatever a point
\* has cached before the handlers were registered (PackagesReachHandlers).
THEOREM EveryPackageReachesItsHandlers ==
  HubAssumption => (Hub!Spec => PackagesReachHandlers)
<1> SUFFICES ASSUME HubAssumption PROVE Hub!Spec => PackagesReachHandlers
  OBVIOUS
<1>1. Hub!Init => HubInv
  <2> SUFFICES ASSUME Hub!Init PROVE HubInv
    OBVIOUS
  <2>1. /\ creator = [h \in 1 .. Hubs |-> [i \in Hub!Ids |-> Hub!None]]
        /\ handler = [h \in 1 .. Hubs |-> [k \in Hub!Kinds |-> [i \in Hub!Ids |-> Hub!None]]]
        /\ cache = [p \in Hub!Points |-> [i \in Hub!Ids |-> 0]]
    BY DEF Hub!Init
  <2>2. HubTypeOK
    BY <2>1 DEF HubTypeOK, Class, HubAssumption
  <2> QED BY <2>1, <2>2 DEF HubInv, OfItsId, CacheHandles
<1>2. HubInv /\ [Hub!Next]_(Hub!vars) => HubInv'
  BY HubStep
<1>3. HubInv => [\A p \in Hub!Points, t \in Types : Hub!Reaches(p, t)]_(Hub!vars)
  BY PackageReaches
<1> QED BY <1>1, <1>2, <1>3, PTL DEF Hub!Spec, PackagesReachHandlers, Hub!PackagesReachHandlers

-----------------------------------------------------------------------------
(***************************************************************************)
(* Rows as handles.  No two places of a vector share a content, and one    *)
(* that nothing refers to can always be found: there are three more than   *)
(* a vector has places.                                                    *)
(***************************************************************************)
ObjectsAssumption == MaxRows \in Nat /\ Blank \in RowValues

Fields == [Columns -> RowValues]

ObjectsInv ==
  /\ data \in Objects!Contents /\ copied \in Objects!Contents
  /\ rows \in Seq(Objects!Contents) /\ Len(rows) <= MaxRows
  /\ content \in [Objects!Live -> Fields]
  /\ \A i, j \in DOMAIN rows : rows[i] = rows[j] => i = j

\* Counting the contents that something refers to
LEMMA UpToCardinality ==
  ASSUME NEW n \in Nat
  PROVE  IsFiniteSet(1 .. n) /\ Cardinality(1 .. n) = n
<1>1. IsFiniteSet(1 .. n) /\ Cardinality(1 .. n) = IF 1 > n THEN 0 ELSE n - 1 + 1
  BY FS_Interval
<1> QED BY <1>1

LEMMA OneMore ==
  ASSUME NEW S, IsFiniteSet(S), NEW x, NEW n \in Nat, Cardinality(S) <= n
  PROVE  IsFiniteSet(S \cup {x}) /\ Cardinality(S \cup {x}) <= n + 1
<1>1. Cardinality(S) \in Nat
  BY FS_CardinalityType
<1>2. /\ IsFiniteSet(S \cup {x})
      /\ x \in S => Cardinality(S \cup {x}) = Cardinality(S)
      /\ x \notin S => Cardinality(S \cup {x}) = Cardinality(S) + 1
  BY FS_AddElement
<1> QED BY <1>1, <1>2

\* A vector has no more contents than places, and the two ntobjects no more
\* than two: there is one that is free.
LEMMA FreshIsFree ==
  ASSUME ObjectsAssumption, ObjectsInv
  PROVE  Objects!Fresh \in Objects!Contents \ Objects!Live
<1> DEFINE Held == {rows[i] : i \in DOMAIN rows}
<1>1. DOMAIN rows = 1 .. Len(rows) /\ Len(rows) \in Nat
  BY LenProperties DEF ObjectsInv
<1>2. IsFiniteSet(1 .. Len(rows)) /\ Cardinality(1 .. Len(rows)) = Len(rows)
  BY <1>1, UpToCardinality
<1>3. IsFiniteSet(Held) /\ Cardinality(Held) <= Len(rows)
  <2>1. Held = {rows[i] : i \in 1 .. Len(rows)}
    BY <1>1
  <2> DEFINE f == [i \in 1 .. Len(rows) |-> rows[i]]
  <2>2. f \in Surjection(1 .. Len(rows), Held)
    BY <2>1 DEF Surjection
  <2> HIDE DEF f, Held
  <2> QED BY <1>2, <2>2, FS_Surjection
<1> HIDE DEF Held
<1>4. IsFiniteSet(Held \cup {data}) /\ Cardinality(Held \cup {data}) <= Len(rows) + 1
  BY <1>1, <1>3, OneMore
<1>5. IsFiniteSet(Held \cup {data} \cup {copied})
      /\ Cardinality(Held \cup {data} \cup {copied}) <= Len(rows) + 2
  <2> DEFINE Both == Held \cup {data}
             n    == Len(rows) + 1
  <2>1. n \in Nat /\ n + 1 = Len(rows) + 2 /\ IsFiniteSet(Both) /\ Cardinality(Both) <= n
    BY <1>1, <1>4
  <2> HIDE DEF Both, n
  <2>2. IsFiniteSet(Both \cup {copied}) /\ Cardinality(Both \cup {copied}) <= n + 1
    BY <2>1, OneMore
  <2> QED BY <2>1, <2>2 DEF Both
<1>6. Objects!Live = Held \cup {data} \cup {copied}
  BY DEF Objects!Live, Held
<1>7. Len(rows) <= MaxRows /\ MaxRows + 3 \in Nat /\ MaxRows \in Nat
  BY DEF ObjectsInv, ObjectsAssumption
<1>8. IsFiniteSet(1 .. MaxRows + 3) /\ Cardinality(1 .. MaxRows + 3) = MaxRows + 3
  BY <1>7, UpToCardinality
<1>9. Objects!Contents \ Objects!Live # {}
  <2> SUFFICES ASSUME Objects!Contents \subseteq Objects!Live PROVE FALSE
    OBVIOUS
  <2>1. IsFiniteSet(Objects!Live) /\ Cardinality(Objects!Live) <= Len(rows) + 2
        /\ Cardinality(Objects!Live) \in Nat
    BY <1>5, <1>6, FS_CardinalityType
  <2>2. Cardinality(Objects!Contents) <= Cardinality(Objects!Live)
    BY <2>1, FS_Subset
  <2> QED BY <1>1, <1>7, <1>8, <2>1, <2>2 DEF Objects!Contents
<1>10. Objects!Contents \ Objects!Live \in SUBSET Nat
  BY <1>7 DEF Objects!Contents
<1>11. PICK c \in Objects!Contents \ Objects!Live :
         \A d \in Objects!Contents \ Objects!Live : ~(d < c)
  BY <1>9, <1>10, LeastNatural
<1>12. \A d \in Objects!Contents \ Objects!Live : c <= d
  BY <1>10, <1>11
<1> QED BY <1>12 DEF Objects!Fresh, Objects!Min


\* What Keep makes of the contents
LEMMA KeepContents ==
  ASSUME NEW mem, Objects!Keep(mem), \A c \in Objects!Live' : mem[c] \in Fields
  PROVE  /\ content' \in [Objects!Live' -> Fields]
         /\ \A c \in Objects!Live' : content'[c] = mem[c]
BY DEF Objects!Keep

\* A free content is written, and the vector stays as it is.
LEMMA FreshKeeps ==
  ASSUME ObjectsAssumption, ObjectsInv, NEW fields \in Fields,
         Objects!Keep(Objects!With(content, Objects!Fresh, fields)),
         data' \in {data, Objects!Fresh}, UNCHANGED <<copied, rows>>
  PROVE  ObjectsInv' /\ \A i \in DOMAIN rows : content'[rows[i]] = content[rows[i]]
<1> DEFINE fresh == Objects!Fresh
           mem   == Objects!With(content, fresh, fields)
<1>1. fresh \in Objects!Contents \ Objects!Live
  BY FreshIsFree
<1>2. content \in [Objects!Live -> Fields]
  BY DEF ObjectsInv
<1> HIDE DEF fresh
<1>3. mem[fresh] = fields /\ \A c \in Objects!Live : mem[c] = content[c]
  <2>1. DOMAIN content = Objects!Live /\ fresh \notin Objects!Live
    BY <1>1, <1>2
  <2>2. mem[fresh] = fields /\ \A d \in DOMAIN content \ {fresh} : mem[d] = content[d]
    BY DEF Objects!With
  <2> QED BY <2>1, <2>2
<1>4. Objects!Live' \subseteq Objects!Live \cup {fresh}
  BY DEF Objects!Live, fresh
<1> HIDE DEF mem
<1>5. \A c \in Objects!Live' : mem[c] \in Fields
  BY <1>2, <1>3, <1>4
<1>6. content' \in [Objects!Live' -> Fields] /\ \A c \in Objects!Live' : content'[c] = mem[c]
  BY <1>5, KeepContents DEF mem, fresh
<1>7. \A i \in DOMAIN rows : rows[i] \in Objects!Live /\ rows[i] \in Objects!Live'
  BY DEF Objects!Live
<1>8. data' \in Objects!Contents
  BY <1>1 DEF ObjectsInv, fresh
<1> QED BY <1>3, <1>6, <1>7, <1>8 DEF ObjectsInv

\* What is referred to when the vector has a new place
LEMMA PlaceAdds ==
  ASSUME rows \in Seq(Objects!Contents), NEW c \in Objects!Contents,
         rows' = Append(rows, c), UNCHANGED <<data, copied>>
  PROVE  /\ Len(rows) \in Nat /\ DOMAIN rows = 1 .. Len(rows)
         /\ rows' \in Seq(Objects!Contents) /\ Len(rows') = Len(rows) + 1
         /\ DOMAIN rows' = 1 .. Len(rows) + 1
         /\ rows'[Len(rows) + 1] = c /\ \A i \in 1 .. Len(rows) : rows'[i] = rows[i]
         /\ Objects!Live' = Objects!Live \cup {c}
<1>1. rows \in Seq(Objects!Contents) /\ Len(rows) \in Nat /\ DOMAIN rows = 1 .. Len(rows)
  BY LenProperties
<1>2. /\ rows' \in Seq(Objects!Contents) /\ Len(rows') = Len(rows) + 1
      /\ rows'[Len(rows) + 1] = c /\ \A i \in 1 .. Len(rows) : rows'[i] = rows[i]
  BY <1>1, AppendProperties
<1>3. DOMAIN rows' = 1 .. Len(rows) + 1
  BY <1>2, LenProperties
<1>4. Objects!Live' = Objects!Live \cup {c}
  <2>1. {rows'[i] : i \in 1 .. Len(rows) + 1} = {rows[i] : i \in 1 .. Len(rows)} \cup {c}
    <3>1. ASSUME NEW i \in 1 .. Len(rows) + 1
          PROVE  rows'[i] \in {rows[j] : j \in 1 .. Len(rows)} \cup {c}
      <4>1. CASE i = Len(rows) + 1
        BY <1>2, <4>1
      <4>2. CASE i # Len(rows) + 1
        BY <1>1, <1>2, <4>2
      <4> QED BY <4>1, <4>2
    <3>2. ASSUME NEW i \in 1 .. Len(rows) PROVE rows[i] \in {rows'[j] : j \in 1 .. Len(rows) + 1}
      BY <1>1, <1>2
    <3>3. c \in {rows'[j] : j \in 1 .. Len(rows) + 1}
      BY <1>1, <1>2
    <3> QED BY <3>1, <3>2, <3>3
  <2> QED BY <1>1, <1>3, <2>1 DEF Objects!Live
<1> QED BY <1>1, <1>2, <1>3, <1>4

\* A new place with a content of its own: the caller's, or a free one
LEMMA PlaceKeeps ==
  ASSUME ObjectsAssumption, ObjectsInv, NEW c \in Objects!Contents, Len(rows) < MaxRows,
         \A i \in DOMAIN rows : rows[i] # c,
         rows' = Append(rows, c), UNCHANGED <<data, copied>>,
         content' \in [Objects!Live \cup {c} -> Fields]
  PROVE  ObjectsInv'
<1>1. /\ Len(rows) \in Nat /\ DOMAIN rows = 1 .. Len(rows)
      /\ rows' \in Seq(Objects!Contents) /\ Len(rows') = Len(rows) + 1
      /\ DOMAIN rows' = 1 .. Len(rows) + 1
      /\ rows'[Len(rows) + 1] = c /\ \A i \in 1 .. Len(rows) : rows'[i] = rows[i]
      /\ Objects!Live' = Objects!Live \cup {c}
  BY PlaceAdds DEF ObjectsInv
<1>2. Len(rows') <= MaxRows
  BY <1>1 DEF ObjectsAssumption
<1>3. ASSUME NEW i \in 1 .. Len(rows) + 1, NEW j \in 1 .. Len(rows) + 1, rows'[i] = rows'[j]
      PROVE  i = j
  <2>1. CASE i = Len(rows) + 1 \/ j = Len(rows) + 1
    BY <1>1, <1>3, <2>1
  <2>2. CASE i \in 1 .. Len(rows) /\ j \in 1 .. Len(rows)
    BY <1>1, <1>3, <2>2 DEF ObjectsInv
  <2> QED BY <1>1, <2>1, <2>2
<1> QED BY <1>1, <1>2, <1>3 DEF ObjectsInv

LEMMA ObjectsTypes ==
  ASSUME ObjectsAssumption, ObjectsInv
  PROVE  /\ content \in [Objects!Live -> Fields]
         /\ data \in Objects!Live /\ copied \in Objects!Live
         /\ \A i \in DOMAIN rows : rows[i] \in Objects!Live
         /\ \A c \in Objects!Live : c \in Objects!Contents /\ content[c] \in Fields
         /\ [CT \in Columns |-> Blank] \in Fields
         /\ DOMAIN rows = 1 .. Len(rows) /\ Len(rows) \in Nat
         /\ rows \in Seq(Objects!Contents)
<1>1. DOMAIN rows = 1 .. Len(rows) /\ Len(rows) \in Nat
  BY LenProperties DEF ObjectsInv
<1>2. \A i \in DOMAIN rows : rows[i] \in Objects!Contents
  BY <1>1, ElementOfSeq DEF ObjectsInv
<1> QED BY <1>1, <1>2 DEF ObjectsInv, ObjectsAssumption, Objects!Live, Fields

Table == [i \in DOMAIN rows |-> content[rows[i]]]

\* The contents of the places as they were
LEMMA TableStays ==
  ASSUME UNCHANGED rows, \A i \in DOMAIN rows : content'[rows[i]] = content[rows[i]]
  PROVE  UNCHANGED Table
BY DEF Table

\* One row more
LEMMA TablePush ==
  ASSUME ObjectsAssumption, ObjectsInv, NEW c \in Objects!Contents,
         rows' = Append(rows, c), content'[c] \in Fields,
         \A i \in DOMAIN rows : content'[rows[i]] = content[rows[i]]
  PROVE  Table' = Append(Table, content'[c])
<1> DEFINE row == content'[c]
<1>1. /\ rows \in Seq(Objects!Contents) /\ Len(rows) \in Nat /\ DOMAIN rows = 1 .. Len(rows)
      /\ \A i \in DOMAIN rows : content[rows[i]] \in Fields
  BY ObjectsTypes
<1>2. /\ rows' \in Seq(Objects!Contents) /\ Len(rows') = Len(rows) + 1
      /\ rows'[Len(rows) + 1] = c /\ \A i \in 1 .. Len(rows) : rows'[i] = rows[i]
  BY <1>1, AppendProperties
<1>3. DOMAIN rows' = 1 .. Len(rows) + 1
  BY <1>2, LenProperties
<1>4. Table \in Seq(Fields) /\ Len(Table) = Len(rows)
  BY <1>1 DEF Table
<1>5. /\ Append(Table, row) \in Seq(Fields) /\ Len(Append(Table, row)) = Len(rows) + 1
      /\ Append(Table, row)[Len(rows) + 1] = row
      /\ \A i \in 1 .. Len(rows) : Append(Table, row)[i] = Table[i]
  <2> HIDE DEF row
  <2>1. row \in Fields
    BY DEF row
  <2> QED BY <1>4, <2>1, AppendProperties
<1>6. ASSUME NEW i \in 1 .. Len(rows) + 1
      PROVE  content'[rows'[i]] = Append(Table, row)[i] /\ content'[rows'[i]] \in Fields
  <2>1. CASE i = Len(rows) + 1
    BY <1>2, <1>5, <2>1
  <2>2. CASE i \in 1 .. Len(rows)
    <3>1. content'[rows'[i]] = content[rows[i]] /\ Table[i] = content[rows[i]]
      BY <1>1, <1>2, <2>2 DEF Table
    <3> QED BY <1>1, <1>5, <2>2, <3>1
  <2>3. i = Len(rows) + 1 \/ i \in 1 .. Len(rows)
    BY <1>1
  <2> QED BY <2>1, <2>2, <2>3
<1>7. Table' \in Seq(Fields) /\ Len(Table') = Len(rows) + 1
      /\ \A i \in 1 .. Len(rows) + 1 : Table'[i] = content'[rows'[i]]
  BY <1>1, <1>3, <1>6 DEF Table
<1> HIDE DEF row
<1>8. \A i \in 1 .. Len(Table') : Table'[i] = Append(Table, row)[i]
  BY <1>6, <1>7
<1>9. Table' = Append(Table, row)
  BY <1>5, <1>7, <1>8, SeqEqual
<1> QED BY <1>9 DEF row

\* A swap goes by way of a free content.
LEMMA SwapKeeps ==
  ASSUME ObjectsAssumption, ObjectsInv, UNCHANGED <<data, copied, rows>>,
         NEW i \in DOMAIN rows, NEW j \in DOMAIN rows, Objects!Keep(Objects!Exchanged(i, j))
  PROVE  ObjectsInv' /\ Table' = [Table EXCEPT ![i] = Table[j], ![j] = Table[i]]
<1> DEFINE fresh == Objects!Fresh
           one   == Objects!Assign(content, fresh, rows[i])
           two   == Objects!Assign(one, rows[i], rows[j])
           mem   == Objects!Assign(two, rows[j], fresh)
<1>1. Objects!Exchanged(i, j) = mem
  BY DEF Objects!Exchanged
<1>2. fresh \notin Objects!Live
  BY FreshIsFree
<1>3. /\ DOMAIN content = Objects!Live /\ \A c \in Objects!Live : content[c] \in Fields
      /\ \A k \in DOMAIN rows : rows[k] \in Objects!Live
  BY ObjectsTypes
<1> HIDE DEF fresh
<1>4. /\ DOMAIN one = Objects!Live \cup {fresh} /\ one[fresh] = content[rows[i]]
      /\ \A c \in Objects!Live : one[c] = content[c]
  <2>1. /\ DOMAIN one = DOMAIN content \cup {fresh} /\ one[fresh] = content[rows[i]]
        /\ \A e \in DOMAIN content \ {fresh} : one[e] = content[e]
    BY DEF Objects!Assign, Objects!With
  <2> QED BY <1>2, <1>3, <2>1
<1> HIDE DEF one
<1>5. /\ DOMAIN two = Objects!Live \cup {fresh} /\ two[rows[i]] = content[rows[j]]
      /\ \A c \in Objects!Live \cup {fresh} : c # rows[i] => two[c] = one[c]
  <2>1. /\ DOMAIN two = DOMAIN one \cup {rows[i]} /\ two[rows[i]] = one[rows[j]]
        /\ \A e \in DOMAIN one \ {rows[i]} : two[e] = one[e]
    BY DEF Objects!Assign, Objects!With
  <2> QED BY <1>3, <1>4, <2>1
<1> HIDE DEF two
<1>6. /\ mem[rows[j]] = two[fresh]
      /\ \A c \in Objects!Live : c # rows[j] => mem[c] = two[c]
  <2>1. /\ DOMAIN mem = DOMAIN two \cup {rows[j]} /\ mem[rows[j]] = two[fresh]
        /\ \A e \in DOMAIN two \ {rows[j]} : mem[e] = two[e]
    BY DEF Objects!Assign, Objects!With
  <2> QED BY <1>3, <1>5, <2>1
<1> HIDE DEF mem
<1>7. /\ mem[rows[j]] = content[rows[i]]
      /\ i # j => rows[i] # rows[j] /\ mem[rows[i]] = content[rows[j]]
      /\ \A c \in Objects!Live : c # rows[i] /\ c # rows[j] => mem[c] = content[c]
  <2>1. rows[i] # fresh /\ rows[j] # fresh /\ (i # j => rows[i] # rows[j])
    BY <1>2, <1>3 DEF ObjectsInv
  <2> QED BY <1>3, <1>4, <1>5, <1>6, <2>1
<1>8. UNCHANGED Objects!Live
  BY DEF Objects!Live
<1>9. \A c \in Objects!Live : mem[c] \in Fields
  BY <1>3, <1>7
<1>10. content' \in [Objects!Live' -> Fields] /\ \A c \in Objects!Live : content'[c] = mem[c]
  BY <1>1, <1>8, <1>9, KeepContents
<1>11. ObjectsInv'
  BY <1>10 DEF ObjectsInv
<1>12. ASSUME NEW k \in DOMAIN rows
       PROVE  content'[rows[k]] = IF k = j THEN content[rows[i]]
                                  ELSE IF k = i THEN content[rows[j]] ELSE content[rows[k]]
  <2>1. rows[k] = rows[i] => k = i
    BY DEF ObjectsInv
  <2>2. rows[k] = rows[j] => k = j
    BY DEF ObjectsInv
  <2> QED BY <1>3, <1>7, <1>10, <2>1, <2>2
<1>13. Table' = [Table EXCEPT ![i] = Table[j], ![j] = Table[i]]
  BY <1>12 DEF Table
<1> QED BY <1>11, <1>13

\* One step of the objects is one of the table, or changes nothing of it.
LEMMA ObjectsStep ==
  ASSUME ObjectsAssumption, ObjectsInv, [Objects!Next]_(Objects!vars)
  PROVE  /\ ObjectsInv'
         /\ \/ UNCHANGED Table
            \/ \E row \in Fields : Table' = Append(Table, row)
            \/ \E i, j \in DOMAIN Table : Table' = [Table EXCEPT ![i] = Table[j], ![j] = Table[i]]
            \/ Table' = <<>>
<1> DEFINE fresh == Objects!Fresh
           blank == [CT \in Columns |-> Blank]
<1>1. fresh \in Objects!Contents \ Objects!Live
  BY FreshIsFree
<1>2. /\ DOMAIN content = Objects!Live /\ content \in [Objects!Live -> Fields]
      /\ data \in Objects!Live /\ copied \in Objects!Live
      /\ \A i \in DOMAIN rows : rows[i] \in Objects!Live
      /\ \A c \in Objects!Live : c \in Objects!Contents /\ content[c] \in Fields
      /\ blank \in Fields /\ rows \in Seq(Objects!Contents)
  BY ObjectsTypes
<1>3. CASE Objects!Construct
  BY <1>2, <1>3, FreshKeeps, TableStays DEF Objects!Construct, Objects!New
<1>4. CASE Objects!SetField
  <2>1. PICK CT \in Columns, value \in RowValues : content' = [content EXCEPT ![data][CT] = value]
    BY <1>4 DEF Objects!SetField, Objects!Set
  <2>2. /\ UNCHANGED <<data, copied, rows>> /\ \A i \in DOMAIN rows : rows[i] # data
    BY <1>4 DEF Objects!SetField
  <2>3. UNCHANGED Objects!Live
    BY <2>2 DEF Objects!Live
  <2>4. content' \in [Objects!Live' -> Fields]
    BY <1>2, <2>1, <2>3 DEF Fields
  <2>5. ObjectsInv'
    BY <2>2, <2>4 DEF ObjectsInv
  <2>6. \A i \in DOMAIN rows : content'[rows[i]] = content[rows[i]]
    BY <1>2, <2>1, <2>2
  <2> QED BY <2>2, <2>5, <2>6, TableStays
<1>5. CASE Objects!HandOver
  <2>1. /\ Len(rows) < MaxRows /\ \A i \in DOMAIN rows : rows[i] # data
        /\ rows' = Append(rows, data) /\ UNCHANGED <<content, data, copied>>
    BY <1>5 DEF Objects!HandOver
  <2>2. Objects!Live \cup {data} = Objects!Live /\ content' \in [Objects!Live \cup {data} -> Fields]
    BY <1>2, <2>1
  <2>3. ObjectsInv'
    BY <1>2, <2>1, <2>2, PlaceKeeps
  <2>4. Table' = Append(Table, content'[data])
    BY <1>2, <2>1, TablePush
  <2> QED BY <1>2, <2>1, <2>3, <2>4
<1>6. CASE Objects!PushCopy
  <2> DEFINE mem == Objects!Assign(content, fresh, data)
  <2>1. /\ Len(rows) < MaxRows /\ rows' = Append(rows, fresh) /\ UNCHANGED <<data, copied>>
        /\ Objects!Keep(mem)
    BY <1>6 DEF Objects!PushCopy
  <2>2. Objects!Live' = Objects!Live \cup {fresh}
    BY <1>1, <1>2, <2>1, PlaceAdds
  <2> HIDE DEF fresh
  <2>3. mem[fresh] = content[data] /\ \A c \in Objects!Live : mem[c] = content[c]
    BY <1>1, <1>2 DEF Objects!Assign, Objects!With
  <2> HIDE DEF mem
  <2>4. content' \in [Objects!Live' -> Fields] /\ \A c \in Objects!Live' : content'[c] = mem[c]
    BY <1>2, <2>1, <2>2, <2>3, KeepContents
  <2>5. ObjectsInv'
    BY <1>1, <1>2, <2>1, <2>2, <2>4, PlaceKeeps
  <2>6. content'[fresh] \in Fields /\ \A i \in DOMAIN rows : content'[rows[i]] = content[rows[i]]
    BY <1>2, <2>2, <2>3, <2>4
  <2>7. Table' = Append(Table, content'[fresh])
    BY <1>1, <2>1, <2>6, TablePush
  <2> QED BY <2>5, <2>6, <2>7
<1>7. CASE Objects!OutputValue
  <2>1. PICK i \in DOMAIN rows : copied' = rows[i]
    BY <1>7 DEF Objects!OutputValue
  <2>2. UNCHANGED <<data, rows>> /\ Objects!Keep(content)
    BY <1>7 DEF Objects!OutputValue
  <2>3. Objects!Live' \subseteq Objects!Live
    BY <2>1, <2>2 DEF Objects!Live
  <2>4. content' \in [Objects!Live' -> Fields] /\ \A c \in Objects!Live' : content'[c] = content[c]
    BY <1>2, <2>2, <2>3, KeepContents
  <2>5. copied' \in Objects!Contents
    BY <1>2, <2>1
  <2>6. ObjectsInv'
    BY <2>2, <2>4, <2>5 DEF ObjectsInv
  <2>7. \A k \in DOMAIN rows : content'[rows[k]] = content[rows[k]]
    BY <2>2, <2>4 DEF Objects!Live
  <2> QED BY <2>2, <2>6, <2>7, TableStays
<1>8. CASE Objects!CopyOutput
  BY <1>2, <1>8, FreshKeeps, TableStays DEF Objects!CopyOutput, Objects!Assign
<1>9. CASE Objects!Swap
  <2>1. PICK i \in DOMAIN rows, j \in DOMAIN rows : Objects!Keep(Objects!Exchanged(i, j))
    BY <1>9 DEF Objects!Swap
  <2>2. UNCHANGED <<data, copied, rows>>
    BY <1>9 DEF Objects!Swap
  <2>3. ObjectsInv' /\ Table' = [Table EXCEPT ![i] = Table[j], ![j] = Table[i]]
    BY <2>1, <2>2, SwapKeeps
  <2>4. DOMAIN Table = DOMAIN rows
    BY DEF Table
  <2> QED BY <2>3, <2>4
<1>10. CASE Objects!Clear
  <2>1. rows' = <<>> /\ UNCHANGED <<data, copied>> /\ Objects!Keep(content)
    BY <1>10 DEF Objects!Clear
  <2>2. DOMAIN rows' = {} /\ rows' \in Seq(Objects!Contents) /\ Len(rows') = 0
    BY <2>1, EmptySeq
  <2>3. Objects!Live' \subseteq Objects!Live
    BY <2>1, <2>2 DEF Objects!Live
  <2>4. content' \in [Objects!Live' -> Fields]
    BY <1>2, <2>1, <2>3, KeepContents
  <2>5. ObjectsInv'
    BY <2>1, <2>2, <2>4 DEF ObjectsInv, ObjectsAssumption
  <2>6. Table' = <<>>
    BY <2>2 DEF Table
  <2> QED BY <2>5, <2>6
<1>11. CASE UNCHANGED Objects!vars
  BY <1>11 DEF Objects!vars, ObjectsInv, Objects!Live, Table
<1> QED BY <1>3, <1>4, <1>5, <1>6, <1>7, <1>8, <1>9, <1>10, <1>11 DEF Objects!Next

LEMMA ObjectsInvariant == ObjectsAssumption => (Objects!Spec => []ObjectsInv)
<1> SUFFICES ASSUME ObjectsAssumption PROVE Objects!Spec => []ObjectsInv
  OBVIOUS
<1>1. Objects!Init => ObjectsInv
  <2> SUFFICES ASSUME Objects!Init PROVE ObjectsInv
    OBVIOUS
  <2>1. content = [c \in {1} |-> [CT \in Columns |-> Blank]] /\ data = 1 /\ copied = 1 /\ rows = <<>>
    BY DEF Objects!Init
  <2>2. DOMAIN rows = {} /\ Len(rows) = 0 /\ rows \in Seq(Objects!Contents)
    BY <2>1, EmptySeq
  <2>3. Objects!Live = {1} /\ 1 \in Objects!Contents
    BY <2>1, <2>2 DEF Objects!Live, Objects!Contents, ObjectsAssumption
  <2>4. content \in [Objects!Live -> Fields]
    BY <2>1, <2>3 DEF Fields, ObjectsAssumption
  <2> QED BY <2>1, <2>2, <2>3, <2>4 DEF ObjectsInv, ObjectsAssumption
<1>2. ObjectsInv /\ [Objects!Next]_(Objects!vars) => ObjectsInv'
  BY ObjectsStep
<1> QED BY <1>1, <1>2, PTL DEF Objects!Spec

\* For any columns, values and length of the vector: although ntobjects are
\* handles, the vector is a table whose rows are their own, through every hand
\* over, copy, output and exchange (RowsAreTheirOwn).
THEOREM HandlesMakeATable ==
  ObjectsAssumption => (Objects!Spec => RowsAreTheirOwn)
<1> SUFFICES ASSUME ObjectsAssumption PROVE Objects!Spec => RowsAreTheirOwn
  OBVIOUS
<1>1. Objects!Init => Table = <<>>
  BY DEF Objects!Init, Table
<1>2. ObjectsInv /\ [Objects!Next]_(Objects!vars) => [Objects!Rows!Next]_(Objects!Rows!vars)
  <2> SUFFICES ASSUME ObjectsInv, [Objects!Next]_(Objects!vars)
               PROVE  [Objects!Rows!Next]_(Objects!Rows!vars)
    OBVIOUS
  <2>1. CASE UNCHANGED Table
    BY <2>1 DEF Objects!Rows!vars, Table
  <2>2. ASSUME NEW row \in Fields, Table' = Append(Table, row) PROVE Objects!Rows!Push
    BY <2>2 DEF Objects!Rows!Push, Objects!Rows!Rows, Table, Fields
  <2>3. ASSUME NEW i \in DOMAIN Table, NEW j \in DOMAIN Table,
               Table' = [Table EXCEPT ![i] = Table[j], ![j] = Table[i]]
        PROVE  Objects!Rows!Exchange
    BY <2>3 DEF Objects!Rows!Exchange, Table
  <2>4. CASE Table' = <<>>
    BY <2>4 DEF Objects!Rows!Next, Objects!Rows!Clear, Table
  <2> QED BY <2>1, <2>2, <2>3, <2>4, ObjectsStep DEF Objects!Rows!Next
<1> QED BY <1>1, <1>2, ObjectsInvariant, PTL
    DEF Objects!Spec, RowsAreTheirOwn, Objects!RowsAreTheirOwn, Objects!Rows!Spec, Table

-----------------------------------------------------------------------------
(***************************************************************************)
(* A collection read page by page.  A page that gave rows stays the input  *)
(* of json_to_data_batch, and the next row is the next of its rows.        *)
(***************************************************************************)
IsAscending(s, S) ==
  /\ s \in [1 .. Cardinality(S) -> S]
  /\ \A i, j \in DOMAIN s : i < j => s[i] < s[j]

\* Any finite set of numbers can be put in order.
LEMMA AscendingExists ==
  ASSUME NEW S \in SUBSET Nat, IsFiniteSet(S)
  PROVE  \E s : IsAscending(s, S)
<1> DEFINE Bad(n) == \E U \in SUBSET Nat : /\ IsFiniteSet(U) /\ Cardinality(U) = n
                                          /\ \A s : ~IsAscending(s, U)
           T == {n \in Nat : Bad(n)}
<1>1. SUFFICES ASSUME T # {} PROVE FALSE
  <2>1. Cardinality(S) \in Nat
    BY FS_CardinalityType
  <2> QED BY <2>1
<1>2. PICK n \in T : \A m \in T : ~(m < n)
  <2> HIDE DEF T
  <2>1. T \in SUBSET Nat
    BY DEF T
  <2> QED BY <1>1, <2>1, LeastNatural
<1>3. PICK U \in SUBSET Nat : /\ IsFiniteSet(U) /\ Cardinality(U) = n
                              /\ \A s : ~IsAscending(s, U)
  OBVIOUS
<1>4. n # 0
  <2> SUFFICES ASSUME n = 0 PROVE FALSE
    OBVIOUS
  <2>1. U = {}
    BY <1>3, FS_EmptySet
  <2>2. IsAscending([i \in 1 .. 0 |-> 0], U)
    BY <1>3, <2>1 DEF IsAscending
  <2> QED BY <1>3, <2>2
<1>5. PICK u \in U : \A v \in U : ~(v < u)
  <2>1. U # {}
    BY <1>3, <1>4, FS_EmptySet
  <2> QED BY <1>3, <2>1, LeastNatural
<1> DEFINE V == U \ {u}
<1>6. IsFiniteSet(V) /\ Cardinality(V) = n - 1 /\ V \in SUBSET Nat /\ n - 1 \in Nat
  <2>1. IsFiniteSet(V) /\ Cardinality(V) = n - 1
    BY <1>3, <1>5, FS_RemoveElement
  <2>2. n \in Nat
    OBVIOUS
  <2> QED BY <1>4, <2>1, <2>2
<1>7. ~Bad(n - 1)
  <2>1. n - 1 < n /\ n \in Nat
    BY <1>6
  <2> QED BY <1>2, <1>6, <2>1
<1>8. PICK s : IsAscending(s, V)
  BY <1>6, <1>7
<1> DEFINE t == [i \in 1 .. n |-> IF i = 1 THEN u ELSE s[i - 1]]
<1>9. IsAscending(t, U)
  <2>1. n \in Nat /\ s \in [1 .. n - 1 -> V] /\ u \in Nat
        /\ \A i, j \in 1 .. n - 1 : i < j => s[i] < s[j]
    BY <1>5, <1>6, <1>8 DEF IsAscending
  <2>2. \A i \in 2 .. n : i - 1 \in 1 .. n - 1 /\ s[i - 1] \in V
    BY <2>1
  <2>3. t \in [1 .. n -> U]
    BY <1>5, <2>1, <2>2
  <2>4. \A v \in V : u < v
    BY <1>5
  <2>5. ASSUME NEW i \in 1 .. n, NEW j \in 1 .. n, i < j PROVE t[i] < t[j]
    <3>1. j \in 2 .. n /\ t[j] = s[j - 1]
      BY <2>1, <2>5
    <3>2. CASE i = 1
      BY <3>1, <3>2, <2>2, <2>4
    <3>3. CASE i # 1
      <4>1. i \in 2 .. n /\ t[i] = s[i - 1] /\ i - 1 < j - 1
        BY <2>1, <2>5, <3>3
      <4> QED BY <4>1, <3>1, <2>1, <2>2
    <3> QED BY <3>2, <3>3
  <2> HIDE DEF t, V
  <2>6. DOMAIN t = 1 .. n
    BY <2>3
  <2> QED BY <1>3, <2>3, <2>5, <2>6 DEF IsAscending
<1> QED BY <1>3, <1>9

LEMMA AscendingIsASequence ==
  ASSUME NEW S \in SUBSET Nat, IsFiniteSet(S)
  PROVE  Pages!Ascending(S) \in Seq(Nat)
<1>1. \E s \in [1 .. Cardinality(S) -> S] : \A i, j \in DOMAIN s : i < j => s[i] < s[j]
  BY AscendingExists DEF IsAscending
<1>2. Pages!Ascending(S) \in [1 .. Cardinality(S) -> S]
  <2>1. Pages!Cardinality(S) = Cardinality(S)
    BY DEF Pages!Cardinality, Cardinality
  <2> QED BY <1>1, <2>1 DEF Pages!Ascending
<1>3. Cardinality(S) \in Nat
  BY FS_CardinalityType
<1>4. Pages!Ascending(S) \in [1 .. Cardinality(S) -> Nat]
  BY <1>2
<1> QED BY <1>3, <1>4, IsASeq

\* One more, counted round and round.
LEMMA ModNext ==
  ASSUME NEW n \in Nat, NEW L \in Nat \ {0}
  PROVE  /\ (n % L) + 1 < L => (n + 1) % L = (n % L) + 1
         /\ (n % L) + 1 >= L => (n + 1) % L = 0
<1> DEFINE a == n \div L
           b == (n + 1) \div L
           r == n % L
           q == (n + 1) % L
<1>1. a \in Int /\ b \in Int /\ r \in 0 .. L - 1 /\ q \in 0 .. L - 1
  OBVIOUS
<1>2. n = L * a + r /\ n + 1 = L * b + q
  OBVIOUS
<1> HIDE DEF a, b, r, q
<1>3. L * b - L * a = r + 1 - q
  BY <1>1, <1>2
<1>4. b >= a
  <2> SUFFICES ASSUME b <= a - 1 PROVE FALSE
    BY <1>1
  <2>1. L * b <= L * (a - 1) /\ L * (a - 1) = L * a - L
    BY <1>1
  <2> QED BY <1>1, <1>3, <2>1
<1>5. b <= a + 1
  <2> SUFFICES ASSUME b >= a + 2 PROVE FALSE
    BY <1>1
  <2>1. L * b >= L * (a + 2) /\ L * (a + 2) = L * a + 2 * L
    BY <1>1
  <2> QED BY <1>1, <1>3, <2>1
<1>6. CASE b = a
  BY <1>1, <1>3, <1>6 DEF r, q
<1>7. CASE b = a + 1
  <2>1. L * b = L * a + L
    BY <1>1, <1>7
  <2> QED BY <1>1, <1>3, <2>1 DEF r, q
<1> QED BY <1>1, <1>4, <1>5, <1>6, <1>7

\* The rows that were given are those of the page at hand, round and round, and as
\* long as the history grows the next is the one behind m_next_data_index.
Given ==
  /\ page.kind = "page" /\ m_all_data = Pages!Parsed /\ turn = "json"
  /\ m_next_data_index \in 0 .. Len(m_all_data) - 1
  /\ parsed # <<>>
  /\ Len(parsed) < MaxParsed => (Len(parsed) - 1) % Len(m_all_data) = m_next_data_index
  /\ \A i \in DOMAIN parsed : parsed[i] = m_all_data[1 + ((i - 1) % Len(m_all_data))]

PagesInv ==
  /\ total \in Nat /\ m_index \in Nat
  /\ page.kind = "page" => page.start \in Nat /\ page.end \in Nat
  /\ m_all_data \in Seq(Nat) /\ parsed \in Seq(Nat) /\ m_next_data_index \in Nat
  /\ IF m_all_data = <<>> THEN parsed = <<>> ELSE Given

LEMMA ParsedIsASequence ==
  ASSUME PagesInv, page.kind = "page"
  PROVE  Pages!Parsed \in Seq(Nat)
<1> DEFINE S == {r \in page.start + 1 .. page.end : r \notin invalid}
<1>1. page.start \in Nat /\ page.end \in Nat
  BY DEF PagesInv
<1>2. S \in SUBSET Nat /\ S \subseteq page.start + 1 .. page.end
  BY <1>1
<1>3. IsFiniteSet(S)
  <2>1. page.start + 1 \in Int /\ page.end \in Int
    BY <1>1
  <2>2. IsFiniteSet(page.start + 1 .. page.end)
    BY <2>1, FS_Interval, ZenonT(60)
  <2> QED BY <1>2, <2>2, FS_Subset
<1> HIDE DEF S
<1>4. Pages!Ascending(S) \in Seq(Nat)
  BY <1>2, <1>3, AscendingIsASequence
<1> QED BY <1>4 DEF S, Pages!Parsed

\* A row more of those that are parsed.
LEMMA OneMoreRow ==
  ASSUME PagesInv, Given, m_next_data_index + 1 < Len(m_all_data), Len(parsed) < MaxParsed,
         parsed' = Append(parsed, m_all_data[m_next_data_index + 2]),
         m_next_data_index' = m_next_data_index + 1,
         UNCHANGED <<page, m_all_data, turn, total, m_index, invalid>>
  PROVE  PagesInv'
<1> DEFINE L == Len(m_all_data)
           n == Len(parsed) - 1
<1>1. L \in Nat \ {0} /\ n \in Nat /\ parsed \in Seq(Nat) /\ m_all_data \in Seq(Nat)
      /\ m_next_data_index \in 0 .. L - 1
  BY DEF PagesInv, Given
<1>2. n % L = m_next_data_index /\ n + 1 = Len(parsed)
  BY <1>1 DEF Given
<1>3. (n + 1) % L = m_next_data_index + 1
  <2> HIDE DEF n, L
  <2> QED BY <1>1, <1>2, ModNext DEF L
<1>4. m_all_data[m_next_data_index + 2] \in Nat
  BY <1>1
<1> DEFINE x == m_all_data[m_next_data_index + 2]
<1>5. /\ parsed' \in Seq(Nat) /\ Len(parsed') = n + 2 /\ parsed' # <<>>
      /\ \A i \in 1 .. n + 1 : parsed'[i] = parsed[i]
      /\ parsed'[n + 2] = x
  <2>1. x \in Nat /\ parsed' = Append(parsed, x)
    BY <1>4
  <2> HIDE DEF x
  <2>2. /\ parsed' \in Seq(Nat) /\ Len(parsed') = Len(parsed) + 1
        /\ \A i \in 1 .. Len(parsed) : parsed'[i] = parsed[i]
        /\ parsed'[Len(parsed) + 1] = x
    BY <2>1, <1>1, AppendProperties
  <2>3. Len(parsed) = n + 1 /\ Len(parsed) + 1 = n + 2
    BY <1>1, <1>2
  <2> QED BY <1>1, <2>2, <2>3
<1>6. ASSUME NEW i \in DOMAIN parsed'
      PROVE  parsed'[i] = m_all_data[1 + ((i - 1) % L)]
  <2>1. i \in 1 .. n + 2
    BY <1>5, <1>1
  <2>2. CASE i \in 1 .. n + 1
    <3>1. i \in DOMAIN parsed
      BY <1>1, <1>2, <2>2
    <3> QED BY <3>1, <2>2, <1>5 DEF Given
  <2>3. CASE i = n + 2
    <3>1. i - 1 = n + 1
      BY <2>3, <1>1
    <3>2. (i - 1) % L = m_next_data_index + 1
      BY <3>1, <1>3
    <3>3. 1 + ((i - 1) % L) = m_next_data_index + 2
      BY <3>2, <1>1
    <3> QED BY <3>3, <2>3, <1>5
  <2> QED BY <2>1, <2>2, <2>3, <1>1
<1>7. Len(parsed') - 1 = n + 1
  BY <1>5, <1>1
<1>8. Pages!Parsed' = Pages!Parsed
  BY DEF Pages!Parsed
<1>9. Given'
  <2>1. (Len(parsed') - 1) % Len(m_all_data') = m_next_data_index'
    BY <1>3, <1>7
  <2>2. m_next_data_index' \in 0 .. Len(m_all_data') - 1
    BY <1>1
  <2>3. page'.kind = "page" /\ m_all_data' = Pages!Parsed' /\ turn' = "json"
    BY <1>8 DEF Given
  <2> QED BY <2>1, <2>2, <2>3, <1>5, <1>6, SMTT(30) DEF Given
<1>10. m_all_data' # <<>>
  BY <1>1
<1> QED BY <1>1, <1>5, <1>9, <1>10 DEF PagesInv

\* The page at hand is parsed, once more if it gave rows.
LEMMA PageParsed ==
  ASSUME PagesInv, page.kind = "page", turn = "json",
         m_all_data = <<>> \/ ~(m_next_data_index + 1 < Len(m_all_data)),
         Pages!Parsed # <<>>, Len(parsed) < MaxParsed,
         m_all_data' = Pages!Parsed, m_next_data_index' = 0,
         parsed' = Append(parsed, Pages!Parsed[1]),
         UNCHANGED <<page, turn, total, m_index, invalid>>
  PROVE  PagesInv'
<1> DEFINE all == Pages!Parsed
           L == Len(all)
<1>1. all \in Seq(Nat) /\ all # <<>> /\ parsed \in Seq(Nat)
  BY ParsedIsASequence DEF PagesInv
<1>2. Pages!Parsed' = all
  BY DEF Pages!Parsed
<1>3. /\ Len(parsed) % L = 0
      /\ \A i \in DOMAIN parsed : parsed[i] = all[1 + ((i - 1) % L)]
  <2> HIDE DEF all
  <2>1. L \in Nat \ {0}
    BY <1>1
  <2>2. CASE m_all_data = <<>>
    <3>1. parsed = <<>>
      BY <2>2 DEF PagesInv
    <3>2. 0 % L = 0
      BY <2>1
    <3> QED BY <3>1, <3>2
  <2>3. CASE m_all_data # <<>>
    <3>1. Given /\ m_all_data = all
      BY <2>3 DEF PagesInv, Given, all
    <3> DEFINE n == Len(parsed) - 1
    <3>2. n \in Nat /\ n + 1 = Len(parsed) /\ n % L = m_next_data_index
          /\ m_next_data_index \in 0 .. L - 1
      BY <3>1, <1>1 DEF Given
    <3>3. (n % L) + 1 >= L
      BY <3>1, <3>2, <2>1, <2>3
    <3>4. (n + 1) % L = 0
      <4> HIDE DEF n, L
      <4> QED BY <3>2, <3>3, <2>1, ModNext
    <3> QED BY <3>1, <3>2, <3>4 DEF Given
  <2> QED BY <2>2, <2>3
<1> HIDE DEF all
<1>4. all[1] \in Nat /\ L \in Nat \ {0}
  BY <1>1
<1> DEFINE g == Len(parsed)
<1>5. /\ g \in Nat /\ parsed' \in Seq(Nat) /\ Len(parsed') = g + 1 /\ parsed' # <<>>
      /\ DOMAIN parsed' = 1 .. g + 1 /\ DOMAIN parsed = 1 .. g
      /\ \A i \in 1 .. g : parsed'[i] = parsed[i]
      /\ parsed'[g + 1] = all[1]
  BY <1>1, <1>4 DEF all
<1>6. ASSUME NEW i \in DOMAIN parsed'
      PROVE  parsed'[i] = all[1 + ((i - 1) % L)]
  <2>1. CASE i \in 1 .. g
    BY <2>1, <1>3, <1>5
  <2>2. CASE i = g + 1
    <3>1. i - 1 = g
      BY <2>2, <1>5
    <3>2. (i - 1) % L = 0
      BY <3>1, <1>3
    <3>3. 1 + ((i - 1) % L) = 1
      BY <3>2
    <3> HIDE DEF L
    <3>4. parsed'[i] = all[1]
      BY <2>2, <1>5
    <3> QED BY <3>3, <3>4
  <2> QED BY <2>1, <2>2, <1>5
<1>7. Len(parsed') - 1 = g
  BY <1>5
<1>8. Given'
  <2>1. m_all_data' = all
    BY DEF all
  <2>2. (Len(parsed') - 1) % Len(m_all_data') = m_next_data_index'
    BY <1>3, <1>7, <2>1
  <2>3. m_next_data_index' \in 0 .. Len(m_all_data') - 1
    BY <1>4, <2>1
  <2>4. ASSUME NEW i \in DOMAIN parsed'
        PROVE  parsed'[i] = m_all_data'[1 + ((i - 1) % Len(m_all_data'))]
    BY <2>1, <1>6
  <2>5. /\ page'.kind = "page" /\ m_all_data' = Pages!Parsed' /\ turn' = "json"
        /\ parsed' # <<>>
    BY <1>2, <1>5, <2>1
  <2> HIDE DEF L, g
  <2> QED BY <2>2, <2>3, <2>4, <2>5 DEF Given
<1> QED BY <1>1, <1>2, <1>5, <1>8 DEF PagesInv, all

\* A row more when the history is full.
LEMMA PageStays ==
  ASSUME PagesInv, m_all_data # <<>>, ~(Len(parsed) < MaxParsed),
         m_next_data_index' \in 0 .. Len(m_all_data) - 1,
         UNCHANGED <<parsed, page, m_all_data, turn, total, m_index, invalid>>
  PROVE  PagesInv'
<1>1. Pages!Parsed' = Pages!Parsed
  BY DEF Pages!Parsed
<1>2. Given /\ m_all_data \in Seq(Nat)
  BY DEF PagesInv
<1>3. Given' /\ m_next_data_index' \in Nat
  BY <1>1, <1>2 DEF Given
<1> QED BY <1>2, <1>3 DEF PagesInv

LEMMA PagesStep ==
  ASSUME PagesInv, [Pages!Next]_(Pages!vars)
  PROVE  PagesInv'
<1>1. CASE Pages!ProcessPages
  <2>1. turn = "pages" /\ m_all_data = <<>> /\ parsed = <<>>
        /\ UNCHANGED <<total, m_all_data, m_next_data_index, parsed>>
    BY <1>1 DEF Pages!ProcessPages, Pages!json, PagesInv, Given
  <2>2. CASE UNCHANGED <<page, m_index>>
    BY <2>1, <2>2 DEF PagesInv
  <2>3. ASSUME NEW r \in Pages!Responses(m_index), Pages!Placed(r), page' = r, m_index' = r.end
        PROVE  PagesInv'
    <3>1. PageLimit \in Nat /\ total \in Nat /\ m_index \in Nat
      BY PagesAssumption DEF PagesInv
    <3>2. Pages!End(m_index) \in Nat
      BY <3>1 DEF Pages!End
    <3>3. r.start = m_index /\ r.end = Pages!End(m_index)
      <4>1. r.kind \in {"page", "no data"}
        BY <2>3 DEF Pages!Placed
      <4>2. r # Pages!None /\ r # [kind |-> "unplaced"]
        <5>1. Pages!None.kind = "none" /\ [kind |-> "unplaced"].kind = "unplaced"
          BY DEF Pages!None
        <5> QED BY <4>1, <5>1
      <4>3. PICK k \in {"page", "no data"} :
                 r = [kind |-> k, start |-> m_index, end |-> Pages!End(m_index)]
        BY <2>3, <4>2 DEF Pages!Responses
      <4> QED BY <4>3
    <3> QED BY <2>1, <2>3, <3>1, <3>2, <3>3 DEF PagesInv
  <2> QED BY <1>1, <2>2, <2>3 DEF Pages!ProcessPages
<1>2. CASE Pages!ProcessJson
  <2>1. turn = "json" /\ UNCHANGED <<total, invalid, m_index>>
    BY <1>2 DEF Pages!ProcessJson, Pages!pages
  <2>2. m_all_data \in Seq(Nat) /\ (m_all_data # <<>> => Given)
    BY DEF PagesInv
  <2>3. CASE m_all_data # <<>> /\ m_next_data_index + 1 < Len(m_all_data)
    <3>1. /\ m_next_data_index' = m_next_data_index + 1
          /\ Pages!Output(m_all_data, m_next_data_index')
          /\ UNCHANGED <<m_all_data, page>>
      BY <1>2, <2>3 DEF Pages!ProcessJson
    <3>2. /\ parsed' = IF Len(parsed) < MaxParsed
                       THEN Append(parsed, m_all_data[m_next_data_index' + 1]) ELSE parsed
          /\ UNCHANGED turn
      BY <2>3, <3>1 DEF Pages!Output
    <3>3. m_next_data_index' + 1 = m_next_data_index + 2
      BY <2>2, <2>3, <3>1 DEF Given
    <3>4. CASE Len(parsed) < MaxParsed
      BY <2>1, <2>2, <2>3, <3>1, <3>2, <3>3, <3>4, OneMoreRow
    <3>5. CASE ~(Len(parsed) < MaxParsed)
      <4>1. m_next_data_index' \in 0 .. Len(m_all_data) - 1
        BY <2>2, <2>3, <3>1 DEF Given
      <4> QED BY <2>1, <2>3, <3>1, <3>2, <3>5, <4>1, PageStays
    <3> QED BY <3>4, <3>5
  <2>4. CASE m_all_data = <<>> \/ ~(m_next_data_index + 1 < Len(m_all_data))
    <3>1. ~(m_next_data_index + 1 < Len(m_all_data))
      BY <2>4 DEF PagesInv
    <3>2. CASE page.kind = "page"
      <4>1. /\ m_next_data_index' = 0 /\ m_all_data' = Pages!Parsed
            /\ Pages!Output(Pages!Parsed, 0) /\ UNCHANGED page
        BY <1>2, <3>1, <3>2 DEF Pages!ProcessJson
      <4>2. CASE Pages!Parsed = <<>>
        <5>1. m_all_data = <<>>
          BY <2>2, <4>2 DEF Given
        <5>2. parsed = <<>> /\ parsed' = <<>> /\ m_all_data' = <<>>
          BY <4>1, <4>2, <5>1 DEF Pages!Output, PagesInv
        <5> QED BY <2>1, <4>1, <5>2 DEF PagesInv
      <4>3. CASE Pages!Parsed # <<>>
        <5>1. /\ parsed' = IF Len(parsed) < MaxParsed THEN Append(parsed, Pages!Parsed[1]) ELSE parsed
              /\ UNCHANGED turn
          BY <4>1, <4>3 DEF Pages!Output
        <5>2. CASE Len(parsed) < MaxParsed
          BY <2>1, <2>4, <3>2, <4>1, <4>3, <5>1, <5>2, PageParsed
        <5>3. CASE ~(Len(parsed) < MaxParsed)
          <6>1. m_all_data # <<>>
            BY <5>3, PagesAssumption DEF PagesInv
          <6>2. m_all_data' = m_all_data /\ 0 \in 0 .. Len(m_all_data) - 1
            BY <2>2, <4>1, <6>1 DEF Given
          <6> QED BY <2>1, <4>1, <5>1, <5>3, <6>1, <6>2, PageStays
        <5> QED BY <5>2, <5>3
      <4> QED BY <4>2, <4>3
    <3>3. CASE page.kind # "page"
      <4>1. m_all_data = <<>> /\ parsed = <<>>
        BY <2>2, <3>3 DEF Given, PagesInv
      <4>2. /\ m_next_data_index' = 0 /\ m_all_data' = <<>> /\ page' = Pages!None
            /\ parsed' = parsed
        BY <1>2, <3>1, <3>3 DEF Pages!ProcessJson
      <4>3. page'.kind # "page"
        BY <4>2 DEF Pages!None
      <4> QED BY <2>1, <4>1, <4>2, <4>3 DEF PagesInv
    <3> QED BY <3>2, <3>3
  <2> QED BY <2>3, <2>4
<1>3. CASE UNCHANGED Pages!vars
  BY <1>3 DEF Pages!vars, Pages!pages, Pages!json, PagesInv, Given, Pages!Parsed
<1> QED BY <1>1, <1>2, <1>3 DEF Pages!Next

LEMMA PagesInvariant == Pages!Spec => []PagesInv
<1>1. Pages!Init => PagesInv
  <2> SUFFICES ASSUME Pages!Init PROVE PagesInv
    OBVIOUS
  <2>1. total \in Nat /\ page.kind # "page" /\ m_index = 0 /\ m_next_data_index = 0
        /\ m_all_data = <<>> /\ parsed = <<>>
    BY PagesAssumption DEF Pages!Init, Pages!None
  <2> QED BY <2>1 DEF PagesInv
<1>2. PagesInv /\ [Pages!Next]_(Pages!vars) => PagesInv'
  BY PagesStep
<1> QED BY <1>1, <1>2, PTL DEF Pages!Spec

\* json_to_data_batch does not consume a page it could parse, so its output is the
\* rows of the first page that has any, round and round, however the requests
\* fail; and it ends only if there is no such page (FirstPageForEver).
THEOREM FirstPageIsAll == Pages!Spec => []FirstPageForEver
<1>1. PagesInv => FirstPageForEver
  <2> SUFFICES ASSUME PagesInv PROVE FirstPageForEver
    OBVIOUS
  <2>1. parsed # <<>> => m_all_data # <<>> /\ Given
    BY DEF PagesInv
  <2>2. ASSUME parsed # <<>>
        PROVE  /\ page.kind = "page" /\ Pages!Parsed # <<>> /\ turn # "end"
               /\ \A i \in DOMAIN parsed :
                    parsed[i] = Pages!Parsed[1 + ((i - 1) % Len(Pages!Parsed))]
    BY <2>1, <2>2 DEF Given
  <2> QED BY <2>2 DEF FirstPageForEver, Pages!FirstPageForEver
<1> QED BY <1>1, PagesInvariant, PTL

-----------------------------------------------------------------------------
(***************************************************************************)
(* k-means and its stream.  Each run of Lloyd's after the first adds rows  *)
(* to a stream that has been asked for more than it had: the first of them *)
(* has been stepped over.                                                  *)
(***************************************************************************)
ClassifiedRows == [point : Coordinates, iid : 1 .. Clusters]

LEMMA AssignedIsASequence ==
  ASSUME points \in Seq(Coordinates), NEW i
  PROVE  Clustering!Assigned(i) \in Seq(Coordinates)
<1> DEFINE Order(s) == \A k, l \in DOMAIN s : k < l => s[k] < s[l]
           where == {j \in DOMAIN points : Clustering!Index(points[j], means) = i}
           order == CHOOSE s \in [1 .. Clustering!Cardinality(where) -> where] :
                      \A k, l \in DOMAIN s : k < l => s[k] < s[l]
<1>1. where \in SUBSET Nat /\ where \subseteq 1 .. Len(points) /\ Len(points) \in Nat
  OBVIOUS
<1> HIDE DEF where
<1>2. IsFiniteSet(where)
  <2>1. IsFiniteSet(1 .. Len(points))
    BY <1>1, FS_Interval
  <2> QED BY <1>1, <2>1, FS_Subset
<1>3. Clustering!Cardinality(where) = Cardinality(where) /\ Cardinality(where) \in Nat
  BY <1>2, FS_CardinalityType DEF Clustering!Cardinality, Cardinality
<1>4. order \in [1 .. Cardinality(where) -> where]
  <2> DEFINE W == [1 .. Clustering!Cardinality(where) -> where]
  <2>1. \E s \in W : Order(s)
    BY <1>1, <1>2, <1>3, AscendingExists DEF IsAscending
  <2>2. order = CHOOSE s \in W : Order(s)
    OBVIOUS
  <2>3. order \in W
    <3> HIDE DEF W, Order, order
    <3> QED BY <2>1, <2>2
  <2> HIDE DEF order
  <2> QED BY <1>3, <2>3
<1> HIDE DEF order
<1>5. [k \in DOMAIN order |-> points[order[k]]] \in [1 .. Cardinality(where) -> Coordinates]
  <2>1. DOMAIN order = 1 .. Cardinality(where) /\ \A k \in DOMAIN order : order[k] \in 1 .. Len(points)
    BY <1>1, <1>4
  <2>2. \A j \in 1 .. Len(points) : points[j] \in Coordinates
    OBVIOUS
  <2> QED BY <2>1, <2>2
<1>6. [k \in DOMAIN order |-> points[order[k]]] \in Seq(Coordinates)
  BY <1>3, <1>5, IsASeq
<1> QED BY <1>6 DEF Clustering!Assigned, where, order

IsFlat(f, seqs) ==
  f = [i \in 1 .. Len(seqs) |-> IF i = 1 THEN seqs[i] ELSE f[i - 1] \o seqs[i]]

\* One after the other, sequences are a sequence.
LEMMA FlatExists ==
  ASSUME NEW S, NEW seqs \in Seq(Seq(S))
  PROVE  \E f : IsFlat(f, seqs)
<1> DEFINE Part(f, m) == f = [i \in 1 .. m |-> IF i = 1 THEN seqs[i] ELSE f[i - 1] \o seqs[i]]
           T == {m \in Nat : \A f : ~Part(f, m)}
<1>1. SUFFICES ASSUME T # {} PROVE FALSE
  <2>1. Len(seqs) \in Nat
    OBVIOUS
  <2>2. \A f : Part(f, Len(seqs)) <=> IsFlat(f, seqs)
    BY DEF IsFlat
  <2>3. (\E f : Part(f, Len(seqs))) \/ Len(seqs) \in T
    <3> HIDE DEF Part
    <3> QED BY <2>1
  <2> HIDE DEF T, Part
  <2> QED BY <2>2, <2>3
<1>2. PICK m \in T : \A k \in T : ~(k < m)
  <2> HIDE DEF T
  <2>1. T \in SUBSET Nat
    BY DEF T
  <2> QED BY <1>1, <2>1, LeastNatural
<1> DEFINE e(f, i) == IF i = 1 THEN seqs[i] ELSE f[i - 1] \o seqs[i]
<1>3. CASE m = 0
  <2>1. Part(<<>>, 0)
    OBVIOUS
  <2> QED BY <1>3, <2>1
<1>4. CASE m # 0
  <2>1. m - 1 \in Nat /\ m \in Nat /\ m - 1 < m
    BY <1>4
  <2>2. PICK f : Part(f, m - 1)
    BY <1>2, <2>1
  <2> DEFINE last1 == e(f, m)
             g == [i \in 1 .. m |-> IF i = m THEN last1 ELSE f[i]]
  <2>3. g = [i \in 1 .. m |-> e(g, i)]
    <3>1. \A i \in 1 .. m - 1 : f[i] = e(f, i)
      BY <2>2
    <3>2. \A i \in 1 .. m : i # 1 => i - 1 \in 1 .. m /\ i - 1 # m /\ g[i - 1] = f[i - 1]
      BY <2>1
    <3>3. \A i \in 1 .. m : i # m => i \in 1 .. m - 1
      BY <2>1
    <3>4. \A i \in 1 .. m : e(g, i) = e(f, i)
      BY <3>2
    <3>5. \A i \in 1 .. m : g[i] = e(f, i)
      BY <3>1, <3>3
    <3>6. \A i \in 1 .. m : g[i] = e(g, i)
      BY <3>4, <3>5
    <3>7. g = [i \in 1 .. m |-> g[i]]
      OBVIOUS
    <3> HIDE DEF g, e
    <3> QED BY <3>6, <3>7
  <2>4. Part(g, m)
    BY <2>3
  <2> QED BY <2>4
<1> QED BY <1>3, <1>4

LEMMA FlattenIsASequence ==
  ASSUME NEW S, NEW seqs \in Seq(Seq(S))
  PROVE  Clustering!FlattenSeq(seqs) \in Seq(S)
<1> DEFINE n == Len(seqs)
           h == CHOOSE f : IsFlat(f, seqs)
<1>1. n \in Nat /\ \A i \in 1 .. n : seqs[i] \in Seq(S)
  OBVIOUS
<1>2. CASE n = 0
  <2>1. seqs = <<>>
    BY <1>2, EmptySeq
  <2>2. Clustering!FlattenSeq(seqs) = <<>>
    BY <1>2, <2>1 DEF Clustering!FlattenSeq
  <2> QED BY <2>2
<1>3. CASE n # 0
  <2>1. IsFlat(h, seqs)
    BY FlatExists
  <2>2. Clustering!FlattenSeq(seqs) = h[n]
    BY <1>3 DEF Clustering!FlattenSeq, IsFlat
  <2> HIDE DEF h
  <2> DEFINE T == {m \in 1 .. n : h[m] \notin Seq(S)}
  <2>3. T = {}
    <3> SUFFICES ASSUME T # {} PROVE FALSE
      OBVIOUS
    <3>1. PICK m \in T : \A k \in T : ~(k < m)
      <4>1. T \in SUBSET Nat
        BY <1>1
      <4> HIDE DEF T
      <4> QED BY <4>1, LeastNatural
    <3>2. h[m] = IF m = 1 THEN seqs[m] ELSE h[m - 1] \o seqs[m]
      BY <2>1, <3>1 DEF IsFlat
    <3>3. m \in 1 .. n /\ h[m] \notin Seq(S) /\ seqs[m] \in Seq(S)
      BY <1>1, <3>1
    <3>4. m # 1 /\ m - 1 \in 1 .. n /\ m - 1 < m
      BY <1>1, <3>2, <3>3
    <3>5. h[m - 1] \in Seq(S)
      BY <3>1, <3>4
    <3> QED BY <3>2, <3>3, <3>4, <3>5
  <2> QED BY <1>1, <1>3, <2>2, <2>3
<1> QED BY <1>2, <1>3

LEMMA ClassifiedIsASequence ==
  ASSUME clusters \in [1 .. Clusters -> Seq(Coordinates)]
  PROVE  Clustering!Classified \in Seq(ClassifiedRows)
<1> DEFINE seqs == [i \in 1 .. Clusters |-> [j \in DOMAIN clusters[i] |->
                                              [point |-> clusters[i][j], iid |-> i]]]
<1>1. ASSUME NEW i \in 1 .. Clusters PROVE seqs[i] \in Seq(ClassifiedRows)
  <2> DEFINE c == clusters[i]
             s == [j \in DOMAIN c |-> [point |-> c[j], iid |-> i]]
  <2>1. c \in Seq(Coordinates)
    OBVIOUS
  <2> HIDE DEF c
  <2>2. Len(c) \in Nat /\ DOMAIN c = 1 .. Len(c) /\ \A j \in DOMAIN c : c[j] \in Coordinates
    BY <2>1
  <2>3. s \in [1 .. Len(c) -> ClassifiedRows]
    BY <2>2 DEF ClassifiedRows
  <2>4. s \in Seq(ClassifiedRows)
    <3> HIDE DEF s
    <3> QED BY <2>2, <2>3, IsASeq
  <2> QED BY <2>4 DEF c
<1> HIDE DEF seqs
<1>2. seqs \in [1 .. Clusters -> Seq(ClassifiedRows)]
  BY <1>1 DEF seqs
<1>3. seqs \in Seq(Seq(ClassifiedRows))
  BY <1>2, KMeansAssumption, IsASeq
<1>4. Clustering!FlattenSeq(seqs) \in Seq(ClassifiedRows)
  BY <1>3, FlattenIsASequence
<1> QED BY <1>4 DEF seqs, Clustering!Classified, Clustering!K

-----------------------------------------------------------------------------
\* All that the stream had to give when it was asked so far; or a row that it
\* stepped over, which it does not go back to.
GivenAll ==
  given = [i \in 1 .. (IF index < Len(stream) THEN index + 1 ELSE Len(stream)) |-> i]

SteppedOver(s) ==
  s # 1 /\ s <= index + 1 /\ \A i \in DOMAIN given : given[i] # s

KMeansInv ==
  /\ points \in Seq(Coordinates) /\ stream \in Seq(ClassifiedRows) /\ input \in Seq(Coordinates)
  /\ kmeansTurn = "rounds" => clusters \in [1 .. Clusters -> Seq(Coordinates)]
  /\ index \in Int /\ index >= -1 /\ (stream = <<>> => index = -1)
  /\ fed \in Nat
  /\ given \in Seq(1 .. Len(stream))
  /\ starts \in SUBSET (1 .. Len(stream)) /\ (stream # <<>> => 1 \in starts)
  /\ kmeansTurn # "stream" /\ stream # <<>> => index >= Len(stream)
  /\ IF starts \subseteq {1} THEN GivenAll ELSE \E s \in starts : SteppedOver(s)

\* process() of the stream.
LEMMA StreamKeeps ==
  ASSUME KMeansInv, Clustering!Stream
  PROVE  KMeansInv'
<1> DEFINE L == Len(stream)
<1>1. /\ kmeansTurn = "stream" /\ L \in Nat /\ index \in Int /\ index >= -1
      /\ given \in Seq(1 .. L) /\ stream \in Seq(ClassifiedRows)
      /\ UNCHANGED <<input, fed, points, clusters, stream, starts>>
      /\ kmeansTurn' # "rounds" \/ kmeansTurn' = kmeansTurn
  BY DEF KMeansInv, Clustering!Stream, Clustering!lloyd
<1>2. CASE stream # <<>> /\ index + 1 < L
  <2>1. index' = index + 1 /\ given' = Append(given, index + 2) /\ kmeansTurn' = kmeansTurn
    BY <1>1, <1>2 DEF Clustering!Stream
  <2>2. index + 2 \in 1 .. L
    BY <1>1, <1>2
  <2>3. /\ given' \in Seq(1 .. L) /\ Len(given') = Len(given) + 1
        /\ \A i \in 1 .. Len(given) : given'[i] = given[i]
        /\ given'[Len(given) + 1] = index + 2
    <3> HIDE DEF L
    <3> QED BY <1>1, <2>1, <2>2, AppendProperties
  <2>4. DOMAIN given' = 1 .. Len(given) + 1 /\ Len(given) \in Nat /\ DOMAIN given = 1 .. Len(given)
    BY <1>1, <2>3
  <2>5. ASSUME GivenAll PROVE GivenAll'
    <3>1. given = [i \in 1 .. index + 1 |-> i] /\ index + 1 \in Nat
      BY <1>1, <1>2, <2>5 DEF GivenAll
    <3>2. Len(given) = index + 1
      BY <3>1, <2>4
    <3>3. \A i \in 1 .. index + 2 : i \in 1 .. index + 1 \/ i = index + 2
      BY <1>1
    <3>4. \A i \in 1 .. index + 2 : given'[i] = i
      BY <2>3, <3>1, <3>2, <3>3
    <3>5. DOMAIN given' = 1 .. index + 2
      BY <1>1, <2>4, <3>2
    <3>6. given' = [i \in 1 .. index + 2 |-> i]
      BY <2>3, <3>4, <3>5
    <3> QED BY <1>1, <1>2, <2>1, <3>6 DEF GivenAll
  <2>6. ASSUME NEW s \in starts, SteppedOver(s) PROVE SteppedOver(s)'
    <3>1. s \in Int /\ s # 1 /\ s <= index + 1 /\ \A i \in DOMAIN given : given[i] # s
      BY <1>1, <2>6 DEF KMeansInv, SteppedOver
    <3>2. ASSUME NEW i \in DOMAIN given' PROVE given'[i] # s
      <4>1. i \in 1 .. Len(given) \/ i = Len(given) + 1
        BY <2>4
      <4>2. i \in 1 .. Len(given) => given'[i] # s
        BY <2>3, <2>4, <3>1
      <4>3. given'[Len(given) + 1] # s
        BY <1>1, <2>3, <3>1
      <4> QED BY <4>1, <4>2, <4>3
    <3> QED BY <1>1, <2>1, <3>1, <3>2 DEF SteppedOver
  <2>7. IF starts' \subseteq {1} THEN GivenAll' ELSE \E s \in starts' : SteppedOver(s)'
    BY <1>1, <2>5, <2>6 DEF KMeansInv
  <2> QED BY <1>1, <1>2, <2>1, <2>3, <2>7 DEF KMeansInv
<1>3. CASE stream # <<>> /\ ~(index + 1 < L)
  <2>1. index' = index + 1 /\ given' = given /\ index' >= L
    BY <1>1, <1>3 DEF Clustering!Stream
  <2>2. GivenAll => GivenAll'
    BY <1>1, <1>3, <2>1 DEF GivenAll
  <2>3. ASSUME NEW s \in starts, SteppedOver(s) PROVE SteppedOver(s)'
    BY <1>1, <2>1, <2>3 DEF SteppedOver, KMeansInv
  <2>4. IF starts' \subseteq {1} THEN GivenAll' ELSE \E s \in starts' : SteppedOver(s)'
    BY <1>1, <2>2, <2>3 DEF KMeansInv
  <2>5. kmeansTurn' # "rounds"
    BY <1>3 DEF Clustering!Stream
  <2> QED BY <1>1, <1>3, <2>1, <2>4, <2>5 DEF KMeansInv
<1>4. CASE stream = <<>>
  <2>1. index' = index /\ given' = given /\ kmeansTurn' # "rounds"
    BY <1>4 DEF Clustering!Stream
  <2> QED BY <1>1, <1>4, <2>1 DEF KMeansInv, GivenAll, SteppedOver
<1> QED BY <1>2, <1>3, <1>4

\* A run of Lloyd's is over: its rows are added.
LEMMA FinishKeeps ==
  ASSUME KMeansInv, Clustering!Finish
  PROVE  KMeansInv'
<1> DEFINE L == Len(stream)
           new == Clustering!Classified
<1>1. /\ kmeansTurn = "rounds" /\ L \in Nat /\ index \in Int /\ index >= -1
      /\ given \in Seq(1 .. L) /\ stream \in Seq(ClassifiedRows)
      /\ UNCHANGED <<input, fed, index, given>>
      /\ points' = <<>> /\ kmeansTurn' = "stream"
      /\ stream' = stream \o new
      /\ starts' = IF new = <<>> THEN starts ELSE starts \cup {L + 1}
      /\ stream # <<>> => index >= L
  BY DEF KMeansInv, Clustering!Finish
<1>2. new \in Seq(ClassifiedRows)
  BY <1>1, ClassifiedIsASequence DEF KMeansInv
<1> HIDE DEF new
<1>3. /\ stream' \in Seq(ClassifiedRows) /\ Len(stream') = L + Len(new) /\ Len(new) \in Nat
      /\ new = <<>> => stream' = stream
      /\ new # <<>> => Len(new) > 0
  BY <1>1, <1>2, EmptySeq, ConcatProperties
<1>4. CASE new = <<>>
  BY <1>1, <1>3, <1>4 DEF KMeansInv, GivenAll, SteppedOver
<1>5. CASE new # <<>>
  <2>1. given' \in Seq(1 .. Len(stream'))
    <3>1. 1 .. L \subseteq 1 .. Len(stream')
      BY <1>1, <1>3
    <3>2. \A i \in 1 .. Len(given) : given[i] \in 1 .. Len(stream')
      BY <1>1, <3>1
    <3>3. given \in [1 .. Len(given) -> 1 .. Len(stream')]
      BY <1>1, <3>2
    <3> QED BY <1>1, <3>3, IsASeq
  <2>2. starts' \in SUBSET (1 .. Len(stream'))
    <3>1. starts \subseteq 1 .. L /\ 1 .. L \subseteq 1 .. L + Len(new)
      BY <1>1, <1>3 DEF KMeansInv
    <3>2. L + 1 \in 1 .. L + Len(new)
      BY <1>1, <1>3, <1>5
    <3>3. starts' = starts \cup {L + 1}
      BY <1>1, <1>5
    <3> HIDE DEF L
    <3> QED BY <1>3, <3>1, <3>2, <3>3
  <2>3. CASE stream = <<>>
    <3>1. L = 0 /\ index = -1 /\ starts' = {1}
      <4>1. L = 0
        BY <2>3, EmptySeq
      <4>2. index = -1 /\ starts \subseteq 1 .. L
        BY <2>3 DEF KMeansInv
      <4>3. starts = {}
        BY <4>1, <4>2
      <4> QED BY <1>1, <1>5, <4>1, <4>2, <4>3
    <3>2. given = <<>>
      <4>1. Len(given) = 0
        <5>1. Len(given) \in Nat /\ \A i \in 1 .. Len(given) : given[i] \in 1 .. L
          BY <1>1
        <5>2. \A i \in 1 .. Len(given) : FALSE
          BY <5>1, <3>1
        <5> QED BY <5>1, <5>2
      <4> QED BY <1>1, <4>1, EmptySeq
    <3>3. GivenAll'
      BY <1>1, <1>3, <1>5, <3>1, <3>2 DEF GivenAll
    <3> QED BY <1>1, <1>3, <2>1, <2>2, <3>1, <3>3 DEF KMeansInv
  <2>4. CASE stream # <<>>
    <3>1. index >= L /\ L > 0 /\ 1 \in starts /\ L + 1 \in starts'
      <4>1. L # 0
        BY <1>1, <2>4, EmptySeq
      <4>2. 1 \in starts
        BY <2>4 DEF KMeansInv
      <4> QED BY <1>1, <1>5, <2>4, <4>1, <4>2
    <3>2. \A i \in DOMAIN given : given[i] # L + 1
      <4>1. \A i \in DOMAIN given : given[i] \in 1 .. L
        BY <1>1
      <4> HIDE DEF L
      <4> QED BY <1>1, <4>1
    <3>3. \E s \in starts' : SteppedOver(s)'
      <4>1. PICK s \in starts' : s = L + 1
        BY <3>1
      <4>2. s # 1 /\ s <= index + 1
        BY <1>1, <3>1, <4>1
      <4>3. \A i \in DOMAIN given : given[i] # s
        BY <3>2, <4>1
      <4>4. index' = index /\ given' = given
        BY <1>1
      <4> HIDE DEF L
      <4>5. SteppedOver(s)'
        BY <4>2, <4>3, <4>4 DEF SteppedOver
      <4> QED BY <4>5
    <3>4. ~(starts' \subseteq {1})
      <4>1. L + 1 # 1
        BY <1>1, <3>1
      <4> QED BY <3>1, <4>1
    <3>5. stream' # <<>> /\ 1 \in starts'
      <4>1. Len(stream') > 0
        BY <1>1, <1>3, <3>1
      <4> QED BY <1>1, <1>5, <3>1, <4>1, EmptySeq
    <3> QED BY <1>1, <1>3, <2>1, <2>2, <3>1, <3>3, <3>4, <3>5 DEF KMeansInv
  <2> QED BY <2>3, <2>4
<1> QED BY <1>4, <1>5

LEMMA KMeansStep ==
  ASSUME KMeansInv, [Clustering!Next]_(Clustering!vars)
  PROVE  KMeansInv'
<1>1. ASSUME UNCHANGED <<input, stream, index, starts, given>>,
             points' \in Seq(Coordinates), fed' \in Nat, kmeansTurn # "stream",
             kmeansTurn' = "rounds" => clusters' \in [1 .. Clusters -> Seq(Coordinates)]
      PROVE  KMeansInv'
  BY <1>1 DEF KMeansInv, GivenAll, SteppedOver
<1>2. ASSUME NEW all, Clustering!Run(all)
      PROVE  kmeansTurn' = "rounds" => clusters' \in [1 .. Clusters -> Seq(Coordinates)]
  <2>1. clusters' = [i \in 1 .. Clusters |-> <<>>] \/ kmeansTurn' = "thrown"
    BY <1>2 DEF Clustering!Run, Clustering!K
  <2>2. <<>> \in Seq(Coordinates)
    BY EmptySeq
  <2> QED BY <2>1, <2>2
<1>3. CASE Clustering!Collect
  <2>1. /\ kmeansTurn = "kmeans" /\ fed < Len(input) /\ fed' = fed + 1
        /\ points' = Append(points, input[fed + 1])
        /\ UNCHANGED <<input, stream, index, starts, given>>
        /\ UNCHANGED kmeansTurn \/ Clustering!Run(points')
    BY <1>3 DEF Clustering!Collect
  <2>2. fed' \in Nat /\ input[fed + 1] \in Coordinates
    BY <2>1 DEF KMeansInv
  <2>3. points' \in Seq(Coordinates)
    BY <2>1, <2>2 DEF KMeansInv
  <2> QED BY <2>1, <2>2, <2>3, <1>1, <1>2
<1>4. CASE Clustering!InputEnds
  <2>1. /\ kmeansTurn = "kmeans" /\ UNCHANGED <<fed, points>>
        /\ UNCHANGED <<input, stream, index, starts, given>>
        /\ kmeansTurn' = "stream" \/ Clustering!Run(points)
    BY <1>4 DEF Clustering!InputEnds
  <2>2. fed' \in Nat /\ points' \in Seq(Coordinates)
    BY <2>1 DEF KMeansInv
  <2> QED BY <2>1, <2>2, <1>1, <1>2
<1>5. CASE Clustering!Round
  <2>1. /\ kmeansTurn = "rounds" /\ UNCHANGED <<fed, points>>
        /\ UNCHANGED <<input, stream, index, starts, given>>
        /\ clusters' = [i \in 1 .. Clusters |-> Clustering!Assigned(i)]
    BY <1>5 DEF Clustering!Round, Clustering!K
  <2>2. points \in Seq(Coordinates) /\ fed \in Nat
    BY DEF KMeansInv
  <2>3. \A i : Clustering!Assigned(i) \in Seq(Coordinates)
    BY <2>2, AssignedIsASequence
  <2>4. clusters' \in [1 .. Clusters -> Seq(Coordinates)]
    BY <2>1, <2>3
  <2> QED BY <2>1, <2>2, <2>4, <1>1
<1>6. CASE UNCHANGED Clustering!vars
  BY <1>6 DEF Clustering!vars, Clustering!lloyd, KMeansInv, GivenAll, SteppedOver
<1> QED BY <1>3, <1>4, <1>5, <1>6, StreamKeeps, FinishKeeps DEF Clustering!Next

LEMMA KMeansInvariant == Clustering!Spec => []KMeansInv
<1>1. Clustering!Init => KMeansInv
  <2> SUFFICES ASSUME Clustering!Init PROVE KMeansInv
    OBVIOUS
  <2>1. /\ points = <<>> /\ stream = <<>> /\ index = -1 /\ starts = {} /\ given = <<>> /\ fed = 0
        /\ kmeansTurn = "stream"
    BY DEF Clustering!Init
  <2>2. input \in Seq(Coordinates)
    <3>1. PICK n \in 1 .. MaxPoints : input \in [1 .. n -> Coordinates]
      BY DEF Clustering!Init
    <3>2. n \in Nat
      OBVIOUS
    <3> QED BY <3>1, <3>2, IsASeq
  <2> QED BY <2>1, <2>2, EmptySeq DEF KMeansInv, GivenAll
<1>2. KMeansInv /\ [Clustering!Next]_(Clustering!vars) => KMeansInv'
  BY KMeansStep
<1> QED BY <1>1, <1>2, PTL DEF Clustering!Spec

\* For any points, pickers, clusters and batches: the stream gives all the rows
\* that were added to it if one run of Lloyd's added them, and has lost a row of
\* each later run that added some (OneRunIsGiven).
THEOREM LaterRunsLoseRows == Clustering!Spec => []OneRunIsGiven
<1>1. KMeansInv => OneRunIsGiven
  <2> SUFFICES ASSUME KMeansInv, kmeansTurn = "end"
               PROVE  given = [i \in DOMAIN stream |-> i] <=> Clustering!Cardinality(starts) <= 1
    BY DEF OneRunIsGiven, Clustering!OneRunIsGiven
  <2>1. /\ stream \in Seq(ClassifiedRows) /\ Len(stream) \in Nat /\ DOMAIN stream = 1 .. Len(stream)
        /\ starts \in SUBSET (1 .. Len(stream)) /\ (stream # <<>> => 1 \in starts)
        /\ index \in Int /\ (stream # <<>> => index >= Len(stream))
    BY DEF KMeansInv
  <2>2. Clustering!Cardinality(starts) = Cardinality(starts)
    BY DEF Clustering!Cardinality, Cardinality
  <2>3. IsFiniteSet(starts)
    <3>1. IsFiniteSet(1 .. Len(stream))
      BY <2>1, FS_Interval
    <3> QED BY <2>1, <3>1, FS_Subset
  <2>4. CASE starts \subseteq {1}
    <3>1. Cardinality(starts) <= 1
      <4>1. IsFiniteSet({1}) /\ Cardinality({1}) = 1
        BY FS_Singleton
      <4> QED BY <2>4, <4>1, FS_Subset
    <3>2. given = [i \in DOMAIN stream |-> i]
      <4>1. stream = <<>> => Len(stream) = 0
        BY EmptySeq
      <4>2. given = [i \in 1 .. (IF index < Len(stream) THEN index + 1 ELSE Len(stream)) |-> i]
        BY <2>4 DEF KMeansInv, GivenAll
      <4>3. (IF index < Len(stream) THEN index + 1 ELSE Len(stream)) = Len(stream)
        <5>1. CASE stream = <<>>
          <6>1. index = -1 /\ Len(stream) = 0
            BY <4>1, <5>1 DEF KMeansInv
          <6> QED BY <6>1
        <5>2. CASE stream # <<>>
          <6>1. index >= Len(stream) /\ index \in Int /\ Len(stream) \in Nat
            BY <2>1, <5>2
          <6>2. ~(index < Len(stream))
            BY <6>1
          <6> QED BY <6>2
        <5> QED BY <5>1, <5>2
      <4> QED BY <2>1, <4>2, <4>3
    <3> QED BY <2>2, <3>1, <3>2
  <2>5. CASE ~(starts \subseteq {1})
    <3>1. PICK s \in starts : SteppedOver(s)
      BY <2>5 DEF KMeansInv
    <3>2. 1 \in starts /\ s # 1
      <4>1. stream # <<>>
        BY <2>1, EmptySeq
      <4> QED BY <2>1, <3>1, <4>1 DEF SteppedOver
    <3>3. ~(Cardinality(starts) <= 1)
      <4>1. IsFiniteSet({1}) /\ Cardinality({1}) = 1
        BY FS_Singleton
      <4>2. IsFiniteSet({1} \cup {s}) /\ Cardinality({1} \cup {s}) = 2
        BY <3>2, <4>1, FS_AddElement
      <4>3. {1} \cup {s} \subseteq starts
        BY <3>1, <3>2
      <4>4. Cardinality({1} \cup {s}) <= Cardinality(starts) /\ Cardinality(starts) \in Nat
        BY <2>3, <4>3, FS_Subset, FS_CardinalityType
      <4> QED BY <4>2, <4>4
    <3>4. given # [i \in DOMAIN stream |-> i]
      BY <2>1, <3>1 DEF SteppedOver
    <3> QED BY <2>2, <3>3, <3>4
  <2> QED BY <2>4, <2>5
<1> QED BY <1>1, KMeansInvariant, PTL

-----------------------------------------------------------------------------
(***************************************************************************)
(* A compact array.  The collects of a layout have as many elements as the *)
(* array has rows, and a column is where the layout first lists it.        *)
(***************************************************************************)
\* An array of n rows: of each collect that many records of its columns.
Records(columns) == [columns -> ArrayValues]

Array(lay, arr, n) ==
  /\ DOMAIN arr = DOMAIN lay
  /\ \A k \in DOMAIN lay : /\ arr[k] \in Seq(Records(Compact!ToSet(lay[k])))
                           /\ Len(arr[k]) = n

LEMMA LayoutShape ==
  ASSUME NEW lay \in Layouts
  PROVE  /\ lay \in Seq(Seq(Names)) /\ DOMAIN lay = 1 .. Len(lay) /\ 1 \in DOMAIN lay
         /\ \A k \in DOMAIN lay : lay[k] \in Seq(Names)
<1>1. lay \in Seq(Seq(Names)) /\ lay # <<>>
  BY ArrayAssumption
<1>2. Len(lay) \in Nat \ {0}
  BY <1>1, EmptySeq
<1> QED BY <1>1, <1>2

LEMMA CIndexPlace ==
  ASSUME NEW lay \in Layouts, NEW c \in Compact!ColumnsOf(lay)
  PROVE  /\ Compact!CIndex(lay, c) \in DOMAIN lay
         /\ c \in Compact!ToSet(lay[Compact!CIndex(lay, c)])
<1> DEFINE I == {k \in 1 .. Len(lay) : Compact!Contains(lay[k], c)}
<1>1. I \in SUBSET Nat /\ DOMAIN lay = 1 .. Len(lay)
  BY LayoutShape
<1>2. \A k \in DOMAIN lay : Compact!Contains(lay[k], c) <=> c \in Compact!ToSet(lay[k])
  <2> SUFFICES ASSUME NEW k \in DOMAIN lay
               PROVE  Compact!Contains(lay[k], c) <=> c \in Compact!ToSet(lay[k])
    OBVIOUS
  <2>1. DOMAIN lay[k] = 1 .. Len(lay[k])
    BY LayoutShape
  <2> QED BY <2>1 DEF Compact!Contains, Compact!ToSet
<1>3. I # {}
  BY <1>1, <1>2 DEF Compact!ColumnsOf
<1>4. \E x \in I : \A y \in I : x =< y
  <2> HIDE DEF I
  <2>1. PICK x \in I : \A y \in I : ~(y < x)
    BY <1>1, <1>3, LeastNatural
  <2> QED BY <1>1, <2>1
<1>5. Compact!Min(I) \in I
  <2> HIDE DEF I
  <2> QED BY <1>4 DEF Compact!Min
<1>6. Compact!CIndex(lay, c) = Compact!Min(I)
  BY <1>3 DEF Compact!CIndex, Compact!SelectInSeq
<1> QED BY <1>1, <1>2, <1>5, <1>6

LEMMA SizeOfArray ==
  ASSUME NEW lay \in Layouts, NEW arr, NEW n, Array(lay, arr, n)
  PROVE  Compact!Size(arr) = n
BY LayoutShape DEF Array, Compact!Size

LEMMA RowOfArray ==
  ASSUME NEW lay \in Layouts, NEW arr, NEW n \in Nat, Array(lay, arr, n), NEW i \in 1 .. n
  PROVE  /\ Compact!Row(lay, arr, i) \in Records(Compact!ColumnsOf(lay))
         /\ \A c \in Compact!ColumnsOf(lay) :
              Compact!Row(lay, arr, i)[c] = arr[Compact!CIndex(lay, c)][i][c]
<1>1. ASSUME NEW c \in Compact!ColumnsOf(lay)
      PROVE  arr[Compact!CIndex(lay, c)][i][c] \in ArrayValues
  <2> DEFINE k == Compact!CIndex(lay, c)
  <2>1. k \in DOMAIN lay /\ c \in Compact!ToSet(lay[k])
    BY CIndexPlace
  <2> HIDE DEF k
  <2>2. arr[k] \in Seq(Records(Compact!ToSet(lay[k]))) /\ Len(arr[k]) = n
    BY <2>1 DEF Array
  <2>3. arr[k][i] \in Records(Compact!ToSet(lay[k]))
    BY <2>2
  <2>4. arr[k][i][c] \in ArrayValues
    BY <2>1, <2>3 DEF Records
  <2> QED BY <2>4 DEF k
<1> QED BY <1>1 DEF Compact!Row, Compact!Get, Records

\* set changes the columns it is given in the row it is given.
LEMMA FieldsSet ==
  ASSUME NEW lay \in Layouts, NEW arr, NEW n \in Nat, Array(lay, arr, n), NEW i \in 1 .. n,
         NEW C, NEW fields \in Records(C)
  PROVE  /\ Array(lay, Compact!SetFields(lay, arr, i, fields), n)
         /\ \A j \in 1 .. n \ {i} :
              Compact!Row(lay, Compact!SetFields(lay, arr, i, fields), j) = Compact!Row(lay, arr, j)
         /\ \A c \in Compact!ColumnsOf(lay) :
              Compact!Row(lay, Compact!SetFields(lay, arr, i, fields), i)[c] =
                IF c \in C THEN fields[c] ELSE Compact!Row(lay, arr, i)[c]
<1> DEFINE more == Compact!SetFields(lay, arr, i, fields)
           new(k) == [c \in DOMAIN arr[k][i] |->
                        IF c \in DOMAIN fields /\ Compact!CIndex(lay, c) = k
                        THEN fields[c] ELSE arr[k][i][c]]
<1>1. DOMAIN more = DOMAIN lay /\ DOMAIN fields = C
      /\ \A c \in C : fields[c] \in ArrayValues
  BY DEF Compact!SetFields, Array, Records
<1>2. ASSUME NEW k \in DOMAIN lay
      PROVE  /\ arr[k] \in Seq(Records(Compact!ToSet(lay[k]))) /\ Len(arr[k]) = n
             /\ DOMAIN arr[k] = 1 .. n
             /\ arr[k][i] \in Records(Compact!ToSet(lay[k]))
             /\ DOMAIN arr[k][i] = Compact!ToSet(lay[k])
             /\ more[k] = [arr[k] EXCEPT ![i] = new(k)]
  <2>1. arr[k] \in Seq(Records(Compact!ToSet(lay[k]))) /\ Len(arr[k]) = n
    BY DEF Array
  <2>2. arr[k][i] \in Records(Compact!ToSet(lay[k])) /\ DOMAIN arr[k] = 1 .. n
    BY <2>1
  <2>3. DOMAIN arr[k][i] = Compact!ToSet(lay[k])
    BY <2>2 DEF Records
  <2>4. more[k] = [arr[k] EXCEPT ![i] = new(k)]
    BY DEF Compact!SetFields, Array
  <2> QED BY <2>1, <2>2, <2>3, <2>4
<1> HIDE DEF more
<1>3. ASSUME NEW k \in DOMAIN lay
      PROVE  /\ new(k) \in Records(Compact!ToSet(lay[k]))
             /\ \A c \in Compact!ToSet(lay[k]) :
                  new(k)[c] = IF c \in C /\ Compact!CIndex(lay, c) = k
                              THEN fields[c] ELSE arr[k][i][c]
  BY <1>1, <1>2, Zenon DEF Records
<1> HIDE DEF new
<1>4. ASSUME NEW k \in DOMAIN lay
      PROVE  /\ more[k] \in Seq(Records(Compact!ToSet(lay[k]))) /\ Len(more[k]) = n
             /\ more[k][i] = new(k)
             /\ \A j \in 1 .. n \ {i} : more[k][j] = arr[k][j]
  <2> DEFINE s == arr[k]
             x == new(k)
             S == Records(Compact!ToSet(lay[k]))
  <2>1. s \in Seq(S) /\ Len(s) = n /\ x \in S /\ more[k] = [s EXCEPT ![i] = x]
    BY <1>2, <1>3
  <2> HIDE DEF s, x, S
  <2>2. /\ more[k] \in Seq(S) /\ Len(more[k]) = n /\ more[k][i] = x
        /\ \A j \in 1 .. n \ {i} : more[k][j] = s[j]
    BY <2>1
  <2> QED BY <2>2 DEF s, x, S
<1>5. Array(lay, more, n)
  BY <1>1, <1>4 DEF Array
<1>6. ASSUME NEW j \in 1 .. n \ {i}
      PROVE  Compact!Row(lay, more, j) = Compact!Row(lay, arr, j)
  <2>1. \A c \in Compact!ColumnsOf(lay) :
          more[Compact!CIndex(lay, c)][j][c] = arr[Compact!CIndex(lay, c)][j][c]
    BY <1>4, CIndexPlace
  <2> QED BY <2>1 DEF Compact!Row, Compact!Get
<1>7. ASSUME NEW c \in Compact!ColumnsOf(lay)
      PROVE  Compact!Row(lay, more, i)[c] =
               IF c \in C THEN fields[c] ELSE Compact!Row(lay, arr, i)[c]
  <2>1. Compact!CIndex(lay, c) \in DOMAIN lay
        /\ c \in Compact!ToSet(lay[Compact!CIndex(lay, c)])
    BY CIndexPlace
  <2>2. more[Compact!CIndex(lay, c)][i][c] =
          IF c \in C THEN fields[c] ELSE arr[Compact!CIndex(lay, c)][i][c]
    BY <1>3, <1>4, <2>1
  <2> QED BY <2>2 DEF Compact!Row, Compact!Get
<1> QED BY <1>5, <1>6, <1>7 DEF more

\* emplace_back adds a row of blanks.
LEMMA BlankRow ==
  ASSUME NEW lay \in Layouts, NEW arr, NEW n \in Nat, Array(lay, arr, n)
  PROVE  /\ Array(lay, Compact!EmplaceBack(lay, arr), n + 1)
         /\ \A j \in 1 .. n :
              Compact!Row(lay, Compact!EmplaceBack(lay, arr), j) = Compact!Row(lay, arr, j)
<1> DEFINE more == Compact!EmplaceBack(lay, arr)
           blank(k) == [c \in Compact!ToSet(lay[k]) |-> Blank]
<1>1. DOMAIN more = DOMAIN lay /\ \A k \in DOMAIN lay : more[k] = Append(arr[k], blank(k))
  BY DEF Compact!EmplaceBack, Array
<1> HIDE DEF more
<1>2. \A k \in DOMAIN lay : blank(k) \in Records(Compact!ToSet(lay[k]))
  BY ArrayAssumption DEF Records
<1> HIDE DEF blank
<1>3. ASSUME NEW k \in DOMAIN lay
      PROVE  /\ more[k] \in Seq(Records(Compact!ToSet(lay[k]))) /\ Len(more[k]) = n + 1
             /\ \A j \in 1 .. n : more[k][j] = arr[k][j]
  <2>1. arr[k] \in Seq(Records(Compact!ToSet(lay[k]))) /\ Len(arr[k]) = n
    BY DEF Array
  <2> QED BY <1>1, <1>2, <2>1, AppendProperties
<1>4. Array(lay, more, n + 1)
  BY <1>1, <1>3 DEF Array
<1>5. ASSUME NEW j \in 1 .. n
      PROVE  Compact!Row(lay, more, j) = Compact!Row(lay, arr, j)
  <2>1. \A c \in Compact!ColumnsOf(lay) :
          more[Compact!CIndex(lay, c)][j][c] = arr[Compact!CIndex(lay, c)][j][c]
    BY <1>3, CIndexPlace
  <2> QED BY <2>1 DEF Compact!Row, Compact!Get
<1> QED BY <1>4, <1>5 DEF more

\* push_back adds a row of what it is given, and leaves the others.
LEMMA FieldsPushed ==
  ASSUME NEW lay \in Layouts, NEW arr, NEW n \in Nat, Array(lay, arr, n),
         NEW C, NEW fields \in Records(C)
  PROVE  /\ Array(lay, Compact!PushFields(lay, arr, fields), n + 1)
         /\ \A j \in 1 .. n :
              Compact!Row(lay, Compact!PushFields(lay, arr, fields), j) = Compact!Row(lay, arr, j)
         /\ \A c \in C \cap Compact!ColumnsOf(lay) :
              Compact!Row(lay, Compact!PushFields(lay, arr, fields), n + 1)[c] = fields[c]
<1> DEFINE more == Compact!EmplaceBack(lay, arr)
           set == Compact!SetFields(lay, more, n + 1, fields)
<1>1. Array(lay, more, n + 1) /\ n + 1 \in Nat /\ n + 1 \in 1 .. n + 1
      /\ \A j \in 1 .. n : Compact!Row(lay, more, j) = Compact!Row(lay, arr, j)
  BY BlankRow
<1>2. Compact!PushFields(lay, arr, fields) = set
  BY <1>1, SizeOfArray DEF Compact!PushFields
<1> HIDE DEF more
<1>3. /\ Array(lay, set, n + 1)
      /\ \A j \in 1 .. n + 1 \ {n + 1} : Compact!Row(lay, set, j) = Compact!Row(lay, more, j)
      /\ \A c \in Compact!ColumnsOf(lay) :
           Compact!Row(lay, set, n + 1)[c] =
             IF c \in C THEN fields[c] ELSE Compact!Row(lay, more, n + 1)[c]
  BY <1>1, FieldsSet
<1> HIDE DEF set
<1>4. \A j \in 1 .. n : j \in 1 .. n + 1 \ {n + 1}
  OBVIOUS
<1>5. \A j \in 1 .. n : Compact!Row(lay, set, j) = Compact!Row(lay, arr, j)
  BY <1>1, <1>3, <1>4
<1> QED BY <1>2, <1>3, <1>5

\* The rows of the array, as a table.
Listed(lay, arr, n) == [i \in 1 .. n |-> Compact!Row(lay, arr, i)]

LEMMA PushAddsARow ==
  ASSUME NEW lay \in Layouts, NEW arr, NEW n \in Nat, Array(lay, arr, n),
         NEW C, NEW fields \in Records(C)
  PROVE  \E row \in Records(Compact!ColumnsOf(lay)) :
           Listed(lay, Compact!PushFields(lay, arr, fields), n + 1)
             = Append(Listed(lay, arr, n), row)
<1> DEFINE more == Compact!PushFields(lay, arr, fields)
           row == Compact!Row(lay, more, n + 1)
           S == Records(Compact!ColumnsOf(lay))
           t == Listed(lay, arr, n)
           u == Listed(lay, more, n + 1)
<1>1. Array(lay, more, n + 1)
      /\ \A j \in 1 .. n : Compact!Row(lay, more, j) = Compact!Row(lay, arr, j)
  BY FieldsPushed
<1> HIDE DEF more
<1>2. n + 1 \in Nat /\ n + 1 \in 1 .. n + 1 /\ \A j \in 1 .. n : j \in 1 .. n + 1
  OBVIOUS
<1>3. row \in S
  BY <1>1, <1>2, RowOfArray
<1>4. t \in [1 .. n -> S]
  BY RowOfArray DEF Listed
<1>5. u = [i \in 1 .. n + 1 |-> IF i = n + 1 THEN row ELSE t[i]]
  <2>1. \A i \in 1 .. n + 1 : i # n + 1 => i \in 1 .. n /\ t[i] = Compact!Row(lay, more, i)
    BY <1>1 DEF Listed
  <2> HIDE DEF t
  <2> QED BY <2>1 DEF Listed
<1> HIDE DEF row, S, t, u
<1>6. t \in Seq(S) /\ Len(t) = n
  BY <1>4, IsASeq
<1>7. u = Append(t, row)
  <2>1. /\ Append(t, row) \in Seq(S) /\ Len(Append(t, row)) = n + 1
        /\ \A i \in 1 .. n : Append(t, row)[i] = t[i]
        /\ Append(t, row)[n + 1] = row
    BY <1>3, <1>6, AppendProperties
  <2>2. \A i \in 1 .. n + 1 : i # n + 1 => i \in 1 .. n
    OBVIOUS
  <2>3. u \in [1 .. n + 1 -> S]
    BY <1>3, <1>4, <1>5, <2>2
  <2>4. u \in Seq(S) /\ Len(u) = n + 1
    BY <2>3, <1>2, IsASeq
  <2>5. \A i \in 1 .. n + 1 : u[i] = Append(t, row)[i]
    BY <1>5, <2>1, <2>2
  <2> QED BY <2>1, <2>4, <2>5, SeqEqual
<1> QED BY <1>3, <1>7 DEF more, row, S, t, u

-----------------------------------------------------------------------------
(* reshape pushes the rows one after the other to an empty array. *)

IsCopy(f, lay, n) ==
  f = [i \in 0 .. n |-> IF i = 0 THEN Compact!NoRows(lay)
                        ELSE Compact!PushRow(lay, f[i - 1], Compact!Row(layout, m_data, i))]

LEMMA CopyExists ==
  ASSUME NEW lay, NEW n \in Nat
  PROVE  \E f : IsCopy(f, lay, n)
<1> DEFINE T == {m \in Nat : \A f : ~IsCopy(f, lay, m)}
<1>1. SUFFICES ASSUME T # {} PROVE FALSE
  OBVIOUS
<1>2. PICK m \in T : \A k \in T : ~(k < m)
  <2> HIDE DEF T
  <2>1. T \in SUBSET Nat
    BY DEF T
  <2> QED BY <1>1, <2>1, LeastNatural
<1> DEFINE first == Compact!NoRows(lay)
           next(a, i) == Compact!PushRow(lay, a, Compact!Row(layout, m_data, i))
<1>3. CASE m = 0
  <2>1. IsCopy([i \in 0 .. 0 |-> first], lay, 0)
    <3> HIDE DEF first, next
    <3>1. [i \in 0 .. 0 |-> first]
            = [i \in 0 .. 0 |-> IF i = 0 THEN first ELSE next([j \in 0 .. 0 |-> first][i - 1], i)]
      OBVIOUS
    <3> QED BY <3>1 DEF first, next, IsCopy
  <2> QED BY <1>3, <2>1
<1>4. CASE m # 0
  <2>1. m - 1 \in Nat /\ m \in Nat /\ m - 1 < m
    BY <1>4
  <2>2. PICK f : IsCopy(f, lay, m - 1)
    BY <1>2, <2>1
  <2> DEFINE g == [i \in 0 .. m |-> IF i = m THEN next(f[m - 1], m) ELSE f[i]]
  <2>3. f = [i \in 0 .. m - 1 |-> IF i = 0 THEN first ELSE next(f[i - 1], i)]
    BY <2>2 DEF IsCopy
  <2>4. g = [i \in 0 .. m |-> IF i = 0 THEN first ELSE next(g[i - 1], i)]
    <3> HIDE DEF first, next
    <3>1. \A i \in 0 .. m - 1 : f[i] = IF i = 0 THEN first ELSE next(f[i - 1], i)
      BY <2>3
    <3>2. \A i \in 0 .. m : i # 0 => i - 1 \in 0 .. m /\ i - 1 # m /\ g[i - 1] = f[i - 1]
      BY <2>1
    <3>3. \A i \in 0 .. m : i # m => i \in 0 .. m - 1
      BY <2>1
    <3>4. \A i \in 0 .. m : g[i] = IF i = 0 THEN first ELSE next(g[i - 1], i)
      BY <1>4, <3>1, <3>2, <3>3
    <3> QED BY <3>4
  <2>5. IsCopy(g, lay, m)
    BY <2>4 DEF IsCopy
  <2> QED BY <2>5
<1> QED BY <1>3, <1>4

LEMMA ReshapedIsCopy ==
  ASSUME NEW lay
  PROVE  Compact!Size(m_data) \in Nat =>
           \E f : IsCopy(f, lay, Compact!Size(m_data))
                 /\ Compact!Reshaped(lay) = f[Compact!Size(m_data)]
<1> SUFFICES ASSUME Compact!Size(m_data) \in Nat
             PROVE  \E f : IsCopy(f, lay, Compact!Size(m_data))
                          /\ Compact!Reshaped(lay) = f[Compact!Size(m_data)]
  OBVIOUS
<1> DEFINE n == Compact!Size(m_data)
           h == CHOOSE f : IsCopy(f, lay, n)
<1>1. IsCopy(h, lay, n)
  BY CopyExists
<1>2. Compact!Reshaped(lay) = h[n]
  BY DEF Compact!Reshaped, IsCopy
<1> QED BY <1>1, <1>2

LEMMA RowsCopied ==
  ASSUME layout \in Layouts, NEW lay \in Layouts, NEW n \in Nat, Array(layout, m_data, n),
         Compact!ColumnsOf(lay) \subseteq Compact!ColumnsOf(layout)
  PROVE  /\ Array(lay, Compact!Reshaped(lay), n)
         /\ \A j \in 1 .. n : \A c \in Compact!ColumnsOf(lay) :
              Compact!Row(lay, Compact!Reshaped(lay), j)[c] = Compact!Row(layout, m_data, j)[c]
<1> DEFINE row(i) == Compact!Row(layout, m_data, i)
           C == Compact!ColumnsOf(lay)
           Good(f, m) == /\ Array(lay, f[m], m)
                         /\ \A j \in 1 .. m : \A c \in C : Compact!Row(lay, f[m], j)[c] = row(j)[c]
<1>1. Compact!Size(m_data) = n
  BY SizeOfArray
<1>2. PICK f : IsCopy(f, lay, n) /\ Compact!Reshaped(lay) = f[n]
  BY <1>1, ReshapedIsCopy
<1>3. Good(f, 0)
  <2>1. f[0] = Compact!NoRows(lay)
    BY <1>2 DEF IsCopy
  <2>2. Array(lay, f[0], 0)
    BY <2>1, EmptySeq DEF Array, Compact!NoRows
  <2> QED BY <2>2
<1>4. ASSUME NEW m \in 1 .. n, Good(f, m - 1) PROVE Good(f, m)
  <2> DEFINE fields == [c \in C |-> row(m)[c]]
             arr == f[m - 1]
  <2>1. f[m] = Compact!PushRow(lay, arr, row(m))
    BY <1>2 DEF IsCopy
  <2>2. f[m] = Compact!PushFields(lay, arr, fields)
    BY <2>1 DEF Compact!PushRow
  <2>3. fields \in Records(C)
    <3>1. row(m) \in Records(Compact!ColumnsOf(layout))
      BY RowOfArray
    <3> QED BY <3>1 DEF Records
  <2>4. m - 1 \in Nat /\ m - 1 + 1 = m /\ m \in Nat
    OBVIOUS
  <2>5. \A c \in C : fields[c] = row(m)[c]
    OBVIOUS
  <2>6. Array(lay, arr, m - 1)
        /\ \A j \in 1 .. m - 1 : \A c \in C : Compact!Row(lay, arr, j)[c] = row(j)[c]
    BY <1>4
  <2> HIDE DEF fields, arr, row, Good
  <2>7. /\ Array(lay, f[m], m)
        /\ \A j \in 1 .. m - 1 : Compact!Row(lay, f[m], j) = Compact!Row(lay, arr, j)
        /\ \A c \in C \cap C : Compact!Row(lay, f[m], m)[c] = fields[c]
    BY <2>2, <2>3, <2>4, <2>6, FieldsPushed
  <2>8. \A j \in 1 .. m : j \in 1 .. m - 1 \/ j = m
    OBVIOUS
  <2>9. \A j \in 1 .. m : \A c \in C : Compact!Row(lay, f[m], j)[c] = row(j)[c]
    BY <2>5, <2>6, <2>7, <2>8
  <2> QED BY <2>7, <2>9 DEF Good
<1>5. Good(f, n)
  <2> HIDE DEF Good
  <2> DEFINE T == {m \in 0 .. n : ~Good(f, m)}
  <2>1. SUFFICES ASSUME T # {} PROVE FALSE
    OBVIOUS
  <2>2. PICK m \in T : \A k \in T : ~(k < m)
    <3>1. T \in SUBSET Nat
      OBVIOUS
    <3> HIDE DEF T
    <3> QED BY <2>1, <3>1, LeastNatural
  <2>3. m \in 1 .. n /\ m - 1 \in 0 .. n /\ m - 1 < m
    BY <1>3
  <2>4. Good(f, m - 1)
    BY <2>2, <2>3
  <2> QED BY <1>4, <2>3, <2>4
<1> QED BY <1>2, <1>5

-----------------------------------------------------------------------------
CompactTable == Listed(layout, m_data, Compact!Size(m_data))

\* Only the number of elements in each collect has to be known.
CompactInv ==
  /\ layout \in Layouts
  /\ Compact!Size(m_data) \in Nat /\ Array(layout, m_data, Compact!Size(m_data))

\* What an action does to the array it leaves.
TableChange ==
  LET t == CompactTable
      cols == Compact!ColumnsOf(layout)
  IN  \/ UNCHANGED <<layout, CompactTable>>
      \/ UNCHANGED layout /\ \E row \in Records(cols) : CompactTable' = Append(t, row)
      \/ /\ UNCHANGED layout
         /\ \E i \in DOMAIN t, row \in Records(cols) : CompactTable' = [t EXCEPT ![i] = row]
      \/ UNCHANGED layout /\ t # <<>> /\ CompactTable' = SubSeq(t, 1, Len(t) - 1)
      \/ UNCHANGED layout /\ CompactTable' = <<>>
      \/ /\ Compact!ColumnsOf(layout') \in SUBSET cols
         /\ CompactTable' = [i \in DOMAIN t |-> [c \in Compact!ColumnsOf(layout') |-> t[i][c]]]

LEMMA ListedType ==
  ASSUME NEW lay \in Layouts, NEW arr, NEW n \in Nat, Array(lay, arr, n)
  PROVE  /\ Listed(lay, arr, n) \in Seq(Records(Compact!ColumnsOf(lay)))
         /\ Len(Listed(lay, arr, n)) = n /\ DOMAIN Listed(lay, arr, n) = 1 .. n
<1> DEFINE t == Listed(lay, arr, n)
           S == Records(Compact!ColumnsOf(lay))
<1>1. t \in [1 .. n -> S]
  BY RowOfArray DEF Listed
<1> HIDE DEF t, S
<1>2. t \in Seq(S) /\ Len(t) = n /\ DOMAIN t = 1 .. n
  BY <1>1, IsASeq
<1> QED BY <1>2 DEF t, S

\* A push, whatever is given.
LEMMA PushKeeps ==
  ASSUME CompactInv, UNCHANGED layout, NEW C, NEW fields \in Records(C),
         m_data' = Compact!PushFields(layout, m_data, fields)
  PROVE  CompactInv' /\ TableChange
<1> DEFINE n == Compact!Size(m_data)
<1>1. layout \in Layouts /\ n \in Nat /\ Array(layout, m_data, n)
  BY DEF CompactInv
<1> HIDE DEF n
<1>2. Array(layout, m_data', n + 1)
  BY <1>1, FieldsPushed
<1>3. Compact!Size(m_data)' = n + 1
  <2>1. Compact!Size(m_data') = n + 1
    BY <1>1, <1>2, SizeOfArray
  <2> QED BY <2>1 DEF Compact!Size
<1>4. \E row \in Records(Compact!ColumnsOf(layout)) :
        Listed(layout, m_data', n + 1) = Append(Listed(layout, m_data, n), row)
  BY <1>1, PushAddsARow
<1>5. CompactTable' = Listed(layout, m_data', n + 1)
  BY <1>3 DEF CompactTable, Listed
<1>6. CompactInv'
  BY <1>1, <1>2, <1>3 DEF CompactInv, Array
<1> QED BY <1>4, <1>5, <1>6 DEF TableChange, CompactTable, n

\* set, in one row.
LEMMA SetKeeps ==
  ASSUME CompactInv, UNCHANGED layout, NEW C, NEW fields \in Records(C),
         NEW i \in 1 .. Compact!Size(m_data),
         m_data' = Compact!SetFields(layout, m_data, i, fields)
  PROVE  CompactInv' /\ TableChange
<1> DEFINE n == Compact!Size(m_data)
           row == Compact!Row(layout, m_data', i)
           t == Listed(layout, m_data, n)
           u == Listed(layout, m_data', n)
<1>1. layout \in Layouts /\ n \in Nat /\ Array(layout, m_data, n) /\ i \in 1 .. n
  BY DEF CompactInv
<1> HIDE DEF n
<1>2. /\ Array(layout, m_data', n)
      /\ \A j \in 1 .. n \ {i} : Compact!Row(layout, m_data', j) = Compact!Row(layout, m_data, j)
  BY <1>1, FieldsSet
<1>3. Compact!Size(m_data)' = n
  <2>1. Compact!Size(m_data') = n
    BY <1>1, <1>2, SizeOfArray
  <2> QED BY <2>1 DEF Compact!Size
<1>4. row \in Records(Compact!ColumnsOf(layout))
  BY <1>1, <1>2, RowOfArray
<1>5. u = [t EXCEPT ![i] = row]
  <2>1. \A j \in 1 .. n : u[j] = IF j = i THEN row ELSE t[j]
    BY <1>2 DEF Listed
  <2>2. DOMAIN u = 1 .. n /\ DOMAIN t = 1 .. n /\ u = [j \in 1 .. n |-> u[j]]
    BY DEF Listed
  <2> HIDE DEF row, t, u
  <2> QED BY <2>1, <2>2
<1>6. CompactTable' = u /\ CompactTable = t /\ i \in DOMAIN t
  BY <1>1, <1>3 DEF CompactTable, Listed, n
<1>7. CompactInv'
  BY <1>1, <1>2, <1>3 DEF CompactInv, Array
<1> HIDE DEF t, u, row
<1> QED BY <1>4, <1>5, <1>6, <1>7 DEF TableChange

\* pop_back, in a build in which it goes on.
LEMMA PopKeeps ==
  ASSUME CompactInv, UNCHANGED layout, Compact!Size(m_data) > 0,
         m_data' = [k \in DOMAIN m_data |-> Compact!Front(m_data[k])]
  PROVE  CompactInv' /\ TableChange
<1> DEFINE n == Compact!Size(m_data)
           t == Listed(layout, m_data, n)
           u == Listed(layout, m_data', n - 1)
<1>1. layout \in Layouts /\ n \in Nat /\ n > 0 /\ Array(layout, m_data, n) /\ n - 1 \in Nat
  BY DEF CompactInv
<1> HIDE DEF n
<1>2. ASSUME NEW k \in DOMAIN layout
      PROVE  /\ m_data'[k] \in Seq(Records(Compact!ToSet(layout[k]))) /\ Len(m_data'[k]) = n - 1
             /\ \A j \in 1 .. n - 1 : m_data'[k][j] = m_data[k][j]
  <2> DEFINE S == Records(Compact!ToSet(layout[k]))
             s == m_data[k]
  <2>1. s \in Seq(S) /\ Len(s) = n /\ m_data'[k] = SubSeq(s, 1, n - 1)
    BY <1>1 DEF Array, Compact!Front
  <2> HIDE DEF S, s
  <2>2. /\ SubSeq(s, 1, n - 1) \in Seq(S) /\ Len(SubSeq(s, 1, n - 1)) = n - 1
        /\ \A j \in 1 .. n - 1 : SubSeq(s, 1, n - 1)[j] = s[j]
    BY <2>1, <1>1
  <2> QED BY <2>1, <2>2 DEF S, s
<1>3. Array(layout, m_data', n - 1)
  BY <1>1, <1>2 DEF Array
<1>4. \A j \in 1 .. n - 1 : Compact!Row(layout, m_data', j) = Compact!Row(layout, m_data, j)
  <2> SUFFICES ASSUME NEW j \in 1 .. n - 1
               PROVE  Compact!Row(layout, m_data', j) = Compact!Row(layout, m_data, j)
    OBVIOUS
  <2>1. \A c \in Compact!ColumnsOf(layout) :
          m_data'[Compact!CIndex(layout, c)][j][c] = m_data[Compact!CIndex(layout, c)][j][c]
    BY <1>1, <1>2, CIndexPlace
  <2> QED BY <2>1 DEF Compact!Row, Compact!Get
<1>5. Compact!Size(m_data)' = n - 1
  <2>1. Compact!Size(m_data') = n - 1
    BY <1>1, <1>3, SizeOfArray
  <2> QED BY <2>1 DEF Compact!Size
<1>6. t \in Seq(Records(Compact!ColumnsOf(layout))) /\ Len(t) = n
      /\ u \in Seq(Records(Compact!ColumnsOf(layout))) /\ Len(u) = n - 1
  BY <1>1, <1>3, ListedType
<1>7. \A j \in 1 .. n - 1 : u[j] = t[j]
  BY <1>1, <1>4 DEF Listed
<1>8. CompactTable' = u /\ CompactTable = t
  BY <1>5 DEF CompactTable, Listed, n
<1>9. CompactInv'
  BY <1>1, <1>3, <1>5 DEF CompactInv, Array
<1>10. t # <<>> /\ u = SubSeq(t, 1, Len(t) - 1)
  <2> DEFINE S == Records(Compact!ColumnsOf(layout))
             v == SubSeq(t, 1, n - 1)
  <2> HIDE DEF t, u, S
  <2>1. t \in Seq(S) /\ Len(t) = n /\ u \in Seq(S) /\ Len(u) = n - 1
    BY <1>6 DEF S
  <2>2. v \in Seq(S) /\ Len(v) = n - 1 /\ \A j \in 1 .. n - 1 : v[j] = t[j]
    BY <2>1, <1>1
  <2>3. u = v
    <3> HIDE DEF v
    <3> QED BY <2>1, <2>2, <1>7, SeqEqual
  <2> QED BY <2>1, <2>3, <1>1
<1> HIDE DEF t, u
<1> QED BY <1>8, <1>9, <1>10 DEF TableChange

\* clear, and the array of a reshape with no rows.
LEMMA ClearKeeps ==
  ASSUME CompactInv, UNCHANGED layout, m_data' = Compact!NoRows(layout)
  PROVE  CompactInv' /\ TableChange
<1>1. layout \in Layouts
  BY DEF CompactInv
<1>2. Array(layout, m_data', 0)
  BY EmptySeq DEF Array, Compact!NoRows
<1>3. Compact!Size(m_data)' = 0
  <2>1. Compact!Size(m_data') = 0
    BY <1>1, <1>2, SizeOfArray
  <2> QED BY <2>1 DEF Compact!Size
<1>4. CompactTable' = <<>>
  <2>1. Listed(layout, m_data', 0) = <<>>
    BY DEF Listed
  <2> QED BY <2>1, <1>3 DEF CompactTable, Listed
<1>5. CompactInv'
  BY <1>1, <1>2, <1>3 DEF CompactInv, Array
<1> QED BY <1>4, <1>5 DEF TableChange

LEMMA ReshapeKeeps ==
  ASSUME CompactInv, NEW lay \in Layouts,
         Compact!ColumnsOf(lay) \subseteq Compact!ColumnsOf(layout),
         layout' = lay, m_data' = Compact!Reshaped(lay)
  PROVE  CompactInv' /\ TableChange
<1> DEFINE n == Compact!Size(m_data)
           C == Compact!ColumnsOf(lay)
           t == Listed(layout, m_data, n)
           u == Listed(lay, m_data', n)
<1>1. layout \in Layouts /\ n \in Nat /\ Array(layout, m_data, n)
  BY DEF CompactInv
<1>2. /\ Array(lay, m_data', n)
      /\ \A j \in 1 .. n : \A c \in C :
           Compact!Row(lay, m_data', j)[c] = Compact!Row(layout, m_data, j)[c]
  <2> HIDE DEF n
  <2> QED BY <1>1, RowsCopied
<1>3. Compact!Size(m_data)' = n
  <2>1. Compact!Size(m_data') = n
    BY <1>1, <1>2, SizeOfArray
  <2> QED BY <2>1 DEF Compact!Size
<1> HIDE DEF n
<1>4. u = [i \in 1 .. n |-> [c \in C |-> t[i][c]]]
  <2>1. ASSUME NEW j \in 1 .. n PROVE Compact!Row(lay, m_data', j) = [c \in C |-> t[j][c]]
    <3>1. \A c \in C : Compact!Row(lay, m_data', j)[c] = t[j][c]
      BY <1>2 DEF Listed
    <3>2. Compact!Row(lay, m_data', j) = [c \in C |-> Compact!Row(lay, m_data', j)[c]]
      BY DEF Compact!Row
    <3> HIDE DEF t
    <3> QED BY <3>1, <3>2
  <2> HIDE DEF t
  <2> QED BY <2>1 DEF Listed
<1>5. CompactTable' = u /\ CompactTable = t /\ DOMAIN t = 1 .. n
  BY <1>3 DEF CompactTable, Listed, n
<1>6. CompactInv'
  BY <1>1, <1>2, <1>3 DEF CompactInv, Array
<1>7. C \in SUBSET Compact!ColumnsOf(layout) /\ Compact!ColumnsOf(layout') = C
  OBVIOUS
<1> HIDE DEF t, u, C
<1> QED BY <1>4, <1>5, <1>6, <1>7 DEF TableChange

LEMMA CompactStep ==
  ASSUME CompactInv, [Compact!Next]_(Compact!vars)
  PROVE  CompactInv' /\ TableChange
<1> DEFINE n == Compact!Size(m_data)
           cols == Compact!ColumnsOf(layout)
<1>1. layout \in Layouts /\ n \in Nat /\ Array(layout, m_data, n)
  BY DEF CompactInv
<1>2. ASSUME NEW C, NEW fields \in Compact!Fields(C)
      PROVE  \E D : fields \in Records(D)
  BY <1>2 DEF Compact!Fields, Records
<1>3. CASE UNCHANGED <<layout, m_data>>
  <2>1. UNCHANGED CompactTable
    BY <1>3 DEF CompactTable, Listed, Compact!Size
  <2>2. CompactInv'
    BY <1>1, <1>3 DEF CompactInv, Array, Compact!Size
  <2> QED BY <1>3, <2>1, <2>2 DEF TableChange
<1>4. CASE Compact!PushElements
  <2>1. UNCHANGED layout /\ \E fields \in Compact!Fields(cols) :
          m_data' = Compact!PushFields(layout, m_data, fields)
    BY <1>4 DEF Compact!PushElements
  <2> QED BY <2>1, <1>2, PushKeeps
<1>5. CASE Compact!PushObject
  <2>1. PICK row \in Records(Names) : /\ m_data' = Compact!PushRow(layout, m_data, row)
                                      /\ UNCHANGED layout
    BY <1>5 DEF Compact!PushObject, Records
  <2>2. cols \subseteq Names
    BY <1>1, LayoutShape DEF Compact!ColumnsOf, Compact!ToSet
  <2>3. [c \in cols |-> row[c]] \in Records(cols)
    BY <2>1, <2>2 DEF Records
  <2>4. m_data' = Compact!PushFields(layout, m_data, [c \in cols |-> row[c]])
    BY <2>1 DEF Compact!PushRow
  <2> HIDE DEF cols
  <2> QED BY <2>1, <2>3, <2>4, PushKeeps
<1>6. CASE Compact!PushElement
  <2> DEFINE more == Compact!EmplaceBack(layout, m_data)
             fields == Compact!Row(layout, more, here)
  <2>1. /\ here \in 1 .. n /\ UNCHANGED layout
        /\ m_data' = Compact!SetFields(layout, more, Compact!Size(more), fields)
    BY <1>6 DEF Compact!PushElement
  <2>2. Array(layout, more, n + 1) /\ n + 1 \in Nat /\ here \in 1 .. n + 1
    BY <1>1, <2>1, BlankRow
  <2> HIDE DEF more, n
  <2>3. fields \in Records(cols)
    BY <1>1, <2>2, RowOfArray
  <2> HIDE DEF fields
  <2>4. m_data' = Compact!PushFields(layout, m_data, fields)
    BY <2>1 DEF Compact!PushFields, more
  <2> QED BY <2>1, <2>3, <2>4, PushKeeps
<1>7. CASE Compact!SetElement
  <2>1. /\ here \in 1 .. n /\ UNCHANGED layout
        /\ \E fields \in Compact!Fields(cols) :
             m_data' = Compact!SetFields(layout, m_data, here, fields)
    BY <1>7 DEF Compact!SetElement
  <2> QED BY <2>1, <1>2, SetKeeps
<1>8. CASE Compact!PopBack
  <2>1. /\ n > 0 /\ UNCHANGED layout
        /\ \/ UNCHANGED m_data
           \/ m_data' = [k \in DOMAIN m_data |-> Compact!Front(m_data[k])]
    BY <1>8 DEF Compact!PopBack
  <2> QED BY <2>1, <1>3, PopKeeps
<1>9. CASE Compact!Clear
  <2>1. UNCHANGED layout /\ (UNCHANGED m_data \/ m_data' = Compact!NoRows(layout))
    BY <1>9 DEF Compact!Clear
  <2> QED BY <2>1, <1>3, ClearKeeps
<1>10. CASE Compact!Reshape
  <2>1. PICK lay \in Layouts : /\ Compact!ColumnsOf(lay) \subseteq Compact!ColumnsOf(layout)
                               /\ layout' = lay /\ m_data' = Compact!Reshaped(lay)
    BY <1>10 DEF Compact!Reshape
  <2> QED BY <2>1, ReshapeKeeps
<1>11. CASE Compact!Move \/ UNCHANGED Compact!vars
  BY <1>11, <1>3 DEF Compact!Move, Compact!vars
<1> QED BY <1>4, <1>5, <1>6, <1>7, <1>8, <1>9, <1>10, <1>11 DEF Compact!Next

LEMMA CompactInvariant == Compact!Spec => []CompactInv
<1>1. Compact!Init => CompactInv
  <2> SUFFICES ASSUME Compact!Init PROVE CompactInv
    OBVIOUS
  <2>1. layout \in Layouts /\ m_data = Compact!NoRows(layout)
    BY DEF Compact!Init
  <2>2. Array(layout, m_data, 0)
    BY <2>1, EmptySeq DEF Array, Compact!NoRows
  <2>3. Compact!Size(m_data) = 0
    BY <2>1, <2>2, SizeOfArray
  <2> QED BY <2>1, <2>2, <2>3 DEF CompactInv
<1>2. CompactInv /\ [Compact!Next]_(Compact!vars) => CompactInv'
  BY CompactStep
<1> QED BY <1>1, <1>2, PTL DEF Compact!Spec

\* For any columns, values and layouts an ntcompact_array is a table: a push, also of
\* one of its own elements while its vectors grow, adds one row, a set changes one, and a
\* reshape keeps the columns it takes, whatever collects they lie in (ImplementsTable).
THEOREM CollectsMakeATable == Compact!Spec => ImplementsTable
<1>1. Compact!Init => CompactTable = <<>>
  <2> SUFFICES ASSUME Compact!Init PROVE CompactTable = <<>>
    OBVIOUS
  <2>1. layout \in Layouts /\ m_data = Compact!NoRows(layout)
    BY DEF Compact!Init
  <2>2. Array(layout, m_data, 0)
    BY <2>1, EmptySeq DEF Array, Compact!NoRows
  <2>3. Compact!Size(m_data) = 0
    BY <2>1, <2>2, SizeOfArray
  <2> QED BY <2>3 DEF CompactTable, Listed
<1>2. CompactInv /\ [Compact!Next]_(Compact!vars) => [Compact!Rows!Next]_(Compact!Rows!vars)
  <2> SUFFICES ASSUME CompactInv, [Compact!Next]_(Compact!vars)
               PROVE  [Compact!Rows!Next]_(Compact!Rows!vars)
    OBVIOUS
  <2> DEFINE t == CompactTable
             cols == Compact!ColumnsOf(layout)
  <2>1. UNCHANGED layout => UNCHANGED cols
    BY DEF Compact!ColumnsOf
  <2>2. CASE UNCHANGED <<layout, CompactTable>>
    BY <2>1, <2>2 DEF Compact!Rows!vars, CompactTable, Listed
  <2>3. ASSUME UNCHANGED layout, NEW row \in Records(cols), CompactTable' = Append(t, row)
        PROVE  Compact!Rows!Push
    BY <2>1, <2>3 DEF Compact!Rows!Push, Compact!Rows!Rows, CompactTable, Listed, Records
  <2>4. ASSUME UNCHANGED layout, NEW i \in DOMAIN t, NEW row \in Records(cols),
               CompactTable' = [t EXCEPT ![i] = row]
        PROVE  Compact!Rows!Change
    BY <2>1, <2>4 DEF Compact!Rows!Change, Compact!Rows!Rows, CompactTable, Listed, Records
  <2>5. ASSUME UNCHANGED layout, t # <<>>, CompactTable' = SubSeq(t, 1, Len(t) - 1)
        PROVE  Compact!Rows!Pop
    BY <2>1, <2>5 DEF Compact!Rows!Pop, CompactTable, Listed
  <2>6. ASSUME UNCHANGED layout, CompactTable' = <<>> PROVE Compact!Rows!Clear
    BY <2>1, <2>6 DEF Compact!Rows!Clear, CompactTable, Listed
  <2>7. ASSUME Compact!ColumnsOf(layout') \in SUBSET cols,
               CompactTable' = [i \in DOMAIN t |-> [c \in Compact!ColumnsOf(layout') |-> t[i][c]]]
        PROVE  Compact!Rows!Project
    <3>1. cols' = Compact!ColumnsOf(layout')
      BY DEF Compact!ColumnsOf
    <3> QED BY <2>7, <3>1 DEF Compact!Rows!Project, CompactTable, Listed
  <2> QED BY <2>2, <2>3, <2>4, <2>5, <2>6, <2>7, CompactStep DEF TableChange, Compact!Rows!Next
<1> QED BY <1>1, <1>2, CompactInvariant, PTL
    DEF Compact!Spec, ImplementsTable, Compact!ImplementsTable, Compact!Rows!Spec,
        CompactTable, Listed

-----------------------------------------------------------------------------
(***************************************************************************)
(* A table of a database.  What is said of a condition is said of its      *)
(* operands first: a function on finite trees is there, and by a least     *)
(* counterexample the values that are bound fit the placeholders of the    *)
(* text.  While a call stores its rows the session sees those of the last  *)
(* commit with what the rows so far have made of them.                     *)
(***************************************************************************)
Deeper(depth) ==
  /\ depth \in [Conditions -> 0 .. Nested]
  /\ \A c \in Conditions : Sql!Joins(c) =>
       /\ c.left \in Conditions /\ c.right \in Conditions
       /\ depth[c.left] < depth[c] /\ depth[c.right] < depth[c]

LEMMA DepthExists == SqlAssumption => \E depth : Deeper(depth)
BY Zenon DEF SqlAssumption, Sql!Trees, Deeper

LEMMA DepthIsANumber ==
  ASSUME SqlAssumption, NEW depth, Deeper(depth), NEW c \in Conditions
  PROVE  depth[c] \in Nat /\ depth[c] < Nested + 1
BY DEF SqlAssumption, Deeper

\* A set of conditions that is not empty has one with no operand in it.
LEMMA LeastCondition ==
  ASSUME SqlAssumption, NEW T \in SUBSET Conditions, T # {}
  PROVE  \E c \in T : Sql!Joins(c) => /\ c.left \in Conditions \ T
                                      /\ c.right \in Conditions \ T
<1>1. PICK depth : Deeper(depth)
  BY DepthExists
<1> DEFINE D == {depth[c] : c \in T}
<1>2. D \in SUBSET Nat /\ D # {}
  BY <1>1 DEF Deeper, SqlAssumption
<1>3. PICK n \in D : \A m \in D : ~(m < n)
  <2> HIDE DEF D
  <2> QED BY <1>2, LeastNatural
<1>4. PICK c \in T : depth[c] = n
  OBVIOUS
<1> QED BY <1>1, <1>3, <1>4 DEF Deeper

\* Values of a kind for each condition, and what makes one of two.
OfKind(V) == {F \in [Conditions -> UNION {V[c] : c \in Conditions}] :
                \A c \in Conditions : F[c] \in V[c]}
Makes(node, V) == \A c \in Conditions :
                    Sql!Joins(c) => node[c] \in [V[c.left] -> [V[c.right] -> V[c]]]

\* What is said of a condition by what is said of its operands is a function.
LEMMA TreeFunction ==
  ASSUME SqlAssumption, NEW V, NEW node, Makes(node, V), NEW leaf \in OfKind(V)
  PROVE  \E F \in OfKind(V) :
           F = [c \in Conditions |-> IF Sql!Joins(c) THEN node[c][F[c.left]][F[c.right]]
                                                     ELSE leaf[c]]
<1> DEFINE e(F, c) == IF Sql!Joins(c) THEN node[c][F[c.left]][F[c.right]] ELSE leaf[c]
<1>1. PICK depth : Deeper(depth)
  BY DepthExists
<1> DEFINE Part(F, m) == \A c \in Conditions : depth[c] < m => F[c] = e(F, c)
           T == {m \in Nat : \A F \in OfKind(V) : ~Part(F, m)}
<1>2. \A F \in OfKind(V), c \in Conditions : e(F, c) \in V[c]
  <2> SUFFICES ASSUME NEW F \in OfKind(V), NEW c \in Conditions PROVE e(F, c) \in V[c]
    OBVIOUS
  <2>1. CASE Sql!Joins(c)
    <3>1. c.left \in Conditions /\ c.right \in Conditions
      BY <1>1, <2>1 DEF Deeper
    <3>2. F[c.left] \in V[c.left] /\ F[c.right] \in V[c.right]
      BY <3>1 DEF OfKind
    <3>3. node[c] \in [V[c.left] -> [V[c.right] -> V[c]]]
      BY <2>1 DEF Makes
    <3>4. node[c][F[c.left]] \in [V[c.right] -> V[c]]
      BY <3>2, <3>3
    <3> QED BY <2>1, <3>2, <3>4
  <2> QED BY <2>1 DEF OfKind
<1>3. T = {}
  <2> SUFFICES ASSUME T # {} PROVE FALSE
    OBVIOUS
  <2>1. PICK m \in T : \A k \in T : ~(k < m)
    <3>1. T \in SUBSET Nat
      OBVIOUS
    <3> HIDE DEF T
    <3> QED BY <3>1, LeastNatural
  <2>2. leaf \in OfKind(V) /\ Part(leaf, 0)
    BY <1>1, DepthIsANumber
  <2>3. m # 0
    BY <2>1, <2>2
  <2>4. m - 1 \in Nat /\ m - 1 < m /\ m \in Nat
    BY <2>1, <2>3
  <2>5. PICK F \in OfKind(V) : Part(F, m - 1)
    BY <2>1, <2>4
  <2> DEFINE G == [c \in Conditions |-> e(F, c)]
  <2>6. G \in OfKind(V)
    BY <1>2 DEF OfKind
  <2>7. ASSUME NEW c \in Conditions, depth[c] < m PROVE G[c] = e(G, c)
    <3>1. CASE ~Sql!Joins(c)
      BY <3>1
    <3>2. CASE Sql!Joins(c)
      <4>1. /\ c.left \in Conditions /\ c.right \in Conditions
            /\ depth[c.left] < m - 1 /\ depth[c.right] < m - 1
        <5>1. /\ c.left \in Conditions /\ c.right \in Conditions
              /\ depth[c.left] < depth[c] /\ depth[c.right] < depth[c]
          BY <1>1, <3>2 DEF Deeper
        <5>2. depth[c] \in Nat /\ depth[c.left] \in Nat /\ depth[c.right] \in Nat
          BY <1>1, <5>1, DepthIsANumber
        <5> QED BY <2>4, <2>7, <5>1, <5>2
      <4>2. F[c.left] = e(F, c.left) /\ F[c.right] = e(F, c.right)
        BY <2>5, <4>1
      <4>3. G[c.left] = F[c.left] /\ G[c.right] = F[c.right]
        BY <4>1, <4>2
      <4> QED BY <3>2, <4>3
    <3> QED BY <3>1, <3>2
  <2> HIDE DEF G, e
  <2>8. Part(G, m)
    BY <2>7
  <2> QED BY <2>1, <2>6, <2>8
<1>4. PICK F \in OfKind(V) : Part(F, Nested + 1)
  <2>1. Nested + 1 \in Nat
    BY DEF SqlAssumption
  <2> HIDE DEF Part
  <2> QED BY <1>3, <2>1
<1>5. \A c \in Conditions : depth[c] < Nested + 1
  BY <1>1, DepthIsANumber
<1>6. F = [c \in Conditions |-> e(F, c)]
  <2>1. \A c \in Conditions : F[c] = e(F, c)
    BY <1>4, <1>5
  <2>2. F = [c \in Conditions |-> F[c]]
    BY DEF OfKind
  <2> HIDE DEF e
  <2> QED BY <2>1, <2>2
<1> QED BY <1>6

LEMMA Operands ==
  ASSUME SqlAssumption, NEW c \in Conditions
  PROVE  /\ Sql!Joins(c) => c.left \in Conditions /\ c.right \in Conditions
         /\ ~Sql!Joins(c) /\ c.op # "true" => c.value \in SqlValues
BY Zenon DEF SqlAssumption, Sql!Trees

\* Sequences put together from those of the operands.
Together(F, leaf) ==
  F = [c \in Conditions |-> IF Sql!Joins(c) THEN F[c.left] \o F[c.right] ELSE leaf[c]]

LEMMA TogetherExists ==
  ASSUME SqlAssumption, NEW S, NEW leaf \in [Conditions -> Seq(S)]
  PROVE  \E F : Together(F, leaf)
<1> DEFINE V == [c \in Conditions |-> Seq(S)]
           node == [c \in Conditions |-> [a \in Seq(S) |-> [b \in Seq(S) |-> a \o b]]]
<1>1. leaf \in OfKind(V)
  BY DEF OfKind
<1>2. Makes(node, V)
  BY Operands DEF Makes
<1> HIDE DEF V, node
<1>3. PICK F \in OfKind(V) :
        F = [c \in Conditions |-> IF Sql!Joins(c) THEN node[c][F[c.left]][F[c.right]]
                                                  ELSE leaf[c]]
  BY <1>1, <1>2, TreeFunction
<1>4. \A c \in Conditions : F[c] = IF Sql!Joins(c) THEN F[c.left] \o F[c.right] ELSE leaf[c]
  <2> SUFFICES ASSUME NEW c \in Conditions
               PROVE  F[c] = IF Sql!Joins(c) THEN F[c.left] \o F[c.right] ELSE leaf[c]
    OBVIOUS
  <2>1. F[c] = IF Sql!Joins(c) THEN node[c][F[c.left]][F[c.right]] ELSE leaf[c]
    BY <1>3
  <2>2. CASE Sql!Joins(c)
    <3>1. F[c.left] \in Seq(S) /\ F[c.right] \in Seq(S)
      BY <1>3, <2>2, Operands DEF V, OfKind
    <3> QED BY <2>1, <2>2, <3>1 DEF node
  <2> QED BY <2>1, <2>2
<1> QED BY <1>3, <1>4 DEF Together

LEMMA TogetherIsASequence ==
  ASSUME SqlAssumption, NEW S, NEW leaf \in [Conditions -> Seq(S)],
         NEW F, Together(F, leaf), NEW d \in Conditions
  PROVE  F[d] \in Seq(S)
<1> DEFINE T == {c \in Conditions : F[c] \notin Seq(S)}
<1>1. T = {}
  <2> SUFFICES ASSUME T # {} PROVE FALSE
    OBVIOUS
  <2>1. PICK c \in T : Sql!Joins(c) => c.left \in Conditions \ T /\ c.right \in Conditions \ T
    BY LeastCondition
  <2>2. F[c] = IF Sql!Joins(c) THEN F[c.left] \o F[c.right] ELSE leaf[c]
    BY DEF Together
  <2>3. CASE Sql!Joins(c)
    <3>1. F[c.left] \in Seq(S) /\ F[c.right] \in Seq(S)
      BY <2>1, <2>3
    <3>2. F[c] \in Seq(S)
      BY <2>2, <2>3, <3>1, ConcatProperties
    <3> QED BY <3>2
  <2> QED BY <2>2, <2>3
<1> QED BY <1>1

LEMMA LeavesOfTree ==
  ASSUME SqlAssumption
  PROVE  \A c \in Conditions :
           /\ Sql!Leaves[c] \in Seq(Conditions)
           /\ Sql!Leaves[c] = IF Sql!Joins(c) THEN Sql!Leaves[c.left] \o Sql!Leaves[c.right]
                              ELSE IF c.op = "true" THEN <<>> ELSE <<c>>
<1> DEFINE leaf == [c \in Conditions |-> IF c.op = "true" THEN <<>> ELSE <<c>>]
<1>1. leaf \in [Conditions -> Seq(Conditions)]
  OBVIOUS
<1>2. \A F : Together(F, leaf) <=>
               F = [c \in Conditions |-> IF Sql!Joins(c) THEN F[c.left] \o F[c.right]
                                         ELSE IF c.op = "true" THEN <<>> ELSE <<c>>]
  <2> SUFFICES ASSUME NEW F
               PROVE  [c \in Conditions |-> IF Sql!Joins(c) THEN F[c.left] \o F[c.right] ELSE leaf[c]]
                      = [c \in Conditions |-> IF Sql!Joins(c) THEN F[c.left] \o F[c.right]
                                         ELSE IF c.op = "true" THEN <<>> ELSE <<c>>]
    BY DEF Together
  <2> QED OBVIOUS
<1> HIDE DEF leaf
<1>3. \E F : Together(F, leaf)
  BY <1>1, TogetherExists
<1>4. Together(Sql!Leaves, leaf)
  BY <1>2, <1>3 DEF Sql!Leaves
<1>5. \A c \in Conditions : Sql!Leaves[c] \in Seq(Conditions)
  BY <1>1, <1>4, TogetherIsASequence
<1> QED BY <1>2, <1>4, <1>5

\* There are as many values as placeholders.
LEMMA BoundValuesFit ==
  ASSUME SqlAssumption
  PROVE  \A c \in Conditions :
           /\ Sql!BoundValues[c] \in Sql!Filled(c)
           /\ Sql!BoundValues[c] =
                IF Sql!Joins(c) THEN Sql!BoundValues[c.left] \o Sql!BoundValues[c.right]
                ELSE IF c.op = "true" THEN <<>> ELSE <<c.value>>
<1> DEFINE b == Sql!BoundValues
           leaf == [c \in Conditions |-> IF Sql!Joins(c) \/ c.op = "true" THEN <<>> ELSE <<c.value>>]
<1>1. leaf \in [Conditions -> Seq(SqlValues)]
  BY Operands
<1>2. \A F : Together(F, leaf) <=>
               F = [c \in Conditions |-> IF Sql!Joins(c) THEN Sql!LeftFirst(F[c.left], F[c.right])
                                         ELSE IF c.op = "true" THEN <<>> ELSE <<c.value>>]
  <2> SUFFICES ASSUME NEW F
               PROVE  [c \in Conditions |-> IF Sql!Joins(c) THEN F[c.left] \o F[c.right] ELSE leaf[c]]
                      = [c \in Conditions |-> IF Sql!Joins(c) THEN Sql!LeftFirst(F[c.left], F[c.right])
                                         ELSE IF c.op = "true" THEN <<>> ELSE <<c.value>>]
    BY DEF Together
  <2> QED BY DEF Sql!LeftFirst
<1> HIDE DEF leaf
<1>3. \E F : Together(F, leaf)
  BY <1>1, TogetherExists
<1>4. Together(b, leaf)
  BY <1>2, <1>3 DEF Sql!BoundValues
<1>5. \A c \in Conditions : b[c] \in Seq(SqlValues)
  BY <1>1, <1>4, TogetherIsASequence
<1>6. \A c \in Conditions : b[c] = IF Sql!Joins(c) THEN b[c.left] \o b[c.right]
                                   ELSE IF c.op = "true" THEN <<>> ELSE <<c.value>>
  <2> HIDE DEF b
  <2> QED BY <1>2, <1>4 DEF Sql!LeftFirst
<1> HIDE DEF b
<1> DEFINE T == {c \in Conditions : Len(b[c]) # Len(Sql!Leaves[c])}
<1>7. T = {}
  <2> SUFFICES ASSUME T # {} PROVE FALSE
    OBVIOUS
  <2>1. PICK c \in T : Sql!Joins(c) => c.left \in Conditions \ T /\ c.right \in Conditions \ T
    BY LeastCondition
  <2>2. c \in Conditions /\ Len(b[c]) # Len(Sql!Leaves[c])
    OBVIOUS
  <2>3. CASE Sql!Joins(c)
    <3>1. /\ b[c] = b[c.left] \o b[c.right] /\ b[c.left] \in Seq(SqlValues) /\ b[c.right] \in Seq(SqlValues)
          /\ Len(b[c.left]) = Len(Sql!Leaves[c.left]) /\ Len(b[c.right]) = Len(Sql!Leaves[c.right])
      BY <1>5, <1>6, <2>1, <2>2, <2>3
    <3>2. /\ Sql!Leaves[c] = Sql!Leaves[c.left] \o Sql!Leaves[c.right]
          /\ Sql!Leaves[c.left] \in Seq(Conditions) /\ Sql!Leaves[c.right] \in Seq(Conditions)
      BY <2>1, <2>2, <2>3, LeavesOfTree
    <3>3. Len(b[c]) = Len(b[c.left]) + Len(b[c.right])
      <4>1. Len(b[c.left] \o b[c.right]) = Len(b[c.left]) + Len(b[c.right])
        BY <3>1, ConcatProperties, Zenon
      <4> QED BY <3>1, <4>1
    <3>4. Len(Sql!Leaves[c]) = Len(Sql!Leaves[c.left]) + Len(Sql!Leaves[c.right])
      BY <3>2, ConcatProperties
    <3> QED BY <2>2, <3>1, <3>3, <3>4
  <2>4. CASE ~Sql!Joins(c)
    <3>1. b[c] = IF c.op = "true" THEN <<>> ELSE <<c.value>>
      BY <1>6, <2>2, <2>4
    <3>2. Sql!Leaves[c] = IF c.op = "true" THEN <<>> ELSE <<c>>
      BY <2>2, <2>4, LeavesOfTree
    <3>3. Len(b[c]) = Len(Sql!Leaves[c])
      BY <3>1, <3>2
    <3> QED BY <2>2, <3>3
  <2> QED BY <2>3, <2>4
<1> QED BY <1>5, <1>6, <1>7 DEF Sql!Filled, b

\* The rows of two conditions that are joined are rows.
LEMMA JoinedRows ==
  ASSUME NEW op, NEW a \in SUBSET Sql!Row, NEW b \in SUBSET Sql!Row
  PROVE  Sql!Join(op, a, b) \in SUBSET Sql!Row
BY Zenon DEF Sql!Join

LEMMA FoundRows ==
  ASSUME NEW c, NEW v
  PROVE  Sql!Found(c, v) \in SUBSET Sql!Row
BY Zenon DEF Sql!Found

\* The values of two conditions that are joined are those of the left one, then those
\* of the right one.
LEMMA FilledOperands ==
  ASSUME SqlAssumption, NEW c \in Conditions, Sql!Joins(c), NEW vals \in Sql!Filled(c)
  PROVE  /\ SubSeq(vals, 1, Len(Sql!Leaves[c.left])) \in Sql!Filled(c.left)
         /\ SubSeq(vals, Len(Sql!Leaves[c.left]) + 1, Len(vals)) \in Sql!Filled(c.right)
<1> DEFINE n == Len(Sql!Leaves[c.left])
           m == Len(Sql!Leaves[c.right])
<1>1. c.left \in Conditions /\ c.right \in Conditions
  BY Operands
<1>2. /\ Sql!Leaves[c.left] \in Seq(Conditions) /\ Sql!Leaves[c.right] \in Seq(Conditions)
      /\ Sql!Leaves[c] = Sql!Leaves[c.left] \o Sql!Leaves[c.right]
  BY <1>1, LeavesOfTree
<1>3. n \in Nat /\ m \in Nat /\ Len(Sql!Leaves[c]) = n + m
  <2>1. Len(Sql!Leaves[c.left] \o Sql!Leaves[c.right]) = n + m
    BY <1>2, ConcatProperties, Zenon
  <2> QED BY <1>2, <2>1
<1> HIDE DEF n, m
<1>4. vals \in Seq(SqlValues) /\ Len(vals) = n + m
  BY <1>3 DEF Sql!Filled
<1>5. SubSeq(vals, 1, n) \in Seq(SqlValues) /\ Len(SubSeq(vals, 1, n)) = n
  BY <1>3, <1>4
<1>6. /\ SubSeq(vals, n + 1, n + m) \in Seq(SqlValues)
      /\ Len(SubSeq(vals, n + 1, n + m)) = m
  BY <1>3, <1>4
<1> QED BY <1>4, <1>5, <1>6 DEF Sql!Filled, n, m

IsMeant(F) ==
  F = [c \in Conditions |->
         IF Sql!Joins(c) THEN Sql!Join(c.op, F[c.left], F[c.right])
         ELSE IF c.op = "true" THEN Sql!Row ELSE Sql!Found(c, c.value)]

LEMMA MeantOfTree == SqlAssumption => IsMeant(Sql!Meant)
<1> SUFFICES ASSUME SqlAssumption PROVE \E F : IsMeant(F)
  BY DEF Sql!Meant, IsMeant
<1> DEFINE V == [c \in Conditions |-> SUBSET Sql!Row]
           leaf == [c \in Conditions |-> IF c.op = "true" THEN Sql!Row ELSE Sql!Found(c, c.value)]
           node == [c \in Conditions |-> [a \in SUBSET Sql!Row |-> [b \in SUBSET Sql!Row |->
                      Sql!Join(c.op, a, b)]]]
<1>1. leaf \in OfKind(V)
  BY FoundRows DEF OfKind
<1>2. Makes(node, V)
  BY Operands, JoinedRows DEF Makes
<1> HIDE DEF V, node, leaf
<1>3. PICK F \in OfKind(V) :
        F = [c \in Conditions |-> IF Sql!Joins(c) THEN node[c][F[c.left]][F[c.right]]
                                                  ELSE leaf[c]]
  BY <1>1, <1>2, TreeFunction
<1>4. ASSUME NEW c \in Conditions
      PROVE  F[c] = IF Sql!Joins(c) THEN Sql!Join(c.op, F[c.left], F[c.right])
                    ELSE IF c.op = "true" THEN Sql!Row ELSE Sql!Found(c, c.value)
  <2>1. F[c] = IF Sql!Joins(c) THEN node[c][F[c.left]][F[c.right]] ELSE leaf[c]
    BY <1>3
  <2>2. CASE Sql!Joins(c)
    <3>1. F[c.left] \in SUBSET Sql!Row /\ F[c.right] \in SUBSET Sql!Row
      BY <2>2, Operands DEF V, OfKind
    <3> QED BY <2>1, <2>2, <3>1 DEF node
  <2> QED BY <2>1, <2>2 DEF leaf
<1> QED BY <1>3, <1>4 DEF IsMeant

IsHolds(F) ==
  F = [c \in Conditions |-> [vals \in Sql!Filled(c) |->
         IF Sql!Joins(c)
         THEN Sql!Join(c.op, F[c.left][SubSeq(vals, 1, Len(Sql!Leaves[c.left]))],
                F[c.right][SubSeq(vals, Len(Sql!Leaves[c.left]) + 1, Len(vals))])
         ELSE IF c.op = "true" THEN Sql!Row ELSE Sql!Found(c, vals[1])]]

LEMMA HoldsOfTree == SqlAssumption => IsHolds(Sql!Holds)
<1> SUFFICES ASSUME SqlAssumption PROVE \E F : IsHolds(F)
  BY DEF Sql!Holds, IsHolds
<1> DEFINE V == [c \in Conditions |-> [Sql!Filled(c) -> SUBSET Sql!Row]]
           leaf == [c \in Conditions |-> [vals \in Sql!Filled(c) |->
                      IF c.op = "true" THEN Sql!Row ELSE Sql!Found(c, vals[1])]]
           first(c, vals) == SubSeq(vals, 1, Len(Sql!Leaves[c.left]))
           rest(c, vals) == SubSeq(vals, Len(Sql!Leaves[c.left]) + 1, Len(vals))
           node == [c \in Conditions |-> [a \in V[c.left] |-> [b \in V[c.right] |->
                      [vals \in Sql!Filled(c) |->
                         Sql!Join(c.op, a[first(c, vals)], b[rest(c, vals)])]]]]
<1>1. leaf \in OfKind(V)
  BY FoundRows DEF OfKind
<1>2. Makes(node, V)
  <2> SUFFICES ASSUME NEW c \in Conditions, Sql!Joins(c),
                      NEW a \in V[c.left], NEW b \in V[c.right], NEW vals \in Sql!Filled(c)
               PROVE  Sql!Join(c.op, a[first(c, vals)], b[rest(c, vals)]) \in SUBSET Sql!Row
    <3> DEFINE made(c, a, b) == [vals \in Sql!Filled(c) |->
                                   Sql!Join(c.op, a[first(c, vals)], b[rest(c, vals)])]
    <3>1. SUFFICES ASSUME NEW c \in Conditions, Sql!Joins(c),
                          NEW a \in V[c.left], NEW b \in V[c.right]
                   PROVE  made(c, a, b) \in V[c]
      <4> HIDE DEF made, V
      <4>1. \A c \in Conditions : node[c] = [a \in V[c.left] |-> [b \in V[c.right] |-> made(c, a, b)]]
        BY DEF made
      <4>2. \A c \in Conditions : Sql!Joins(c) => \A a \in V[c.left] :
              [b \in V[c.right] |-> made(c, a, b)] \in [V[c.right] -> V[c]]
        OBVIOUS
      <4> HIDE DEF node
      <4>3. ASSUME NEW c \in Conditions, Sql!Joins(c)
            PROVE  node[c] \in [V[c.left] -> [V[c.right] -> V[c]]]
        <5> DEFINE at(a) == [b \in V[c.right] |-> made(c, a, b)]
        <5>1. \A a \in V[c.left] : at(a) \in [V[c.right] -> V[c]]
          BY <4>2, <4>3
        <5>2. node[c] = [a \in V[c.left] |-> at(a)]
          BY <4>1, Zenon
        <5> HIDE DEF at
        <5> QED BY <5>1, <5>2
      <4> QED BY <4>3 DEF Makes
    <3> QED BY <3>1
  <2>1. c.left \in Conditions /\ c.right \in Conditions
    BY Operands
  <2>2. first(c, vals) \in Sql!Filled(c.left) /\ rest(c, vals) \in Sql!Filled(c.right)
    BY FilledOperands
  <2>3. a[first(c, vals)] \in SUBSET Sql!Row /\ b[rest(c, vals)] \in SUBSET Sql!Row
    BY <2>1, <2>2
  <2> QED BY <2>3, JoinedRows
<1> HIDE DEF V, node, leaf
<1>3. PICK F \in OfKind(V) :
        F = [c \in Conditions |-> IF Sql!Joins(c) THEN node[c][F[c.left]][F[c.right]]
                                                  ELSE leaf[c]]
  BY <1>1, <1>2, TreeFunction
<1>4. ASSUME NEW c \in Conditions
      PROVE  F[c] = [vals \in Sql!Filled(c) |->
                       IF Sql!Joins(c)
                       THEN Sql!Join(c.op, F[c.left][first(c, vals)], F[c.right][rest(c, vals)])
                       ELSE IF c.op = "true" THEN Sql!Row ELSE Sql!Found(c, vals[1])]
  <2>1. F[c] = IF Sql!Joins(c) THEN node[c][F[c.left]][F[c.right]] ELSE leaf[c]
    BY <1>3
  <2>2. CASE Sql!Joins(c)
    <3>1. F[c.left] \in V[c.left] /\ F[c.right] \in V[c.right]
      BY <2>2, Operands DEF OfKind
    <3> HIDE DEF first, rest
    <3>2. node[c][F[c.left]][F[c.right]] =
            [vals \in Sql!Filled(c) |->
               Sql!Join(c.op, F[c.left][first(c, vals)], F[c.right][rest(c, vals)])]
      BY <3>1 DEF node
    <3> QED BY <2>1, <2>2, <3>2
  <2> QED BY <2>1, <2>2 DEF leaf
<1> DEFINE E(c) == [vals \in Sql!Filled(c) |->
                      IF Sql!Joins(c)
                      THEN Sql!Join(c.op, F[c.left][first(c, vals)], F[c.right][rest(c, vals)])
                      ELSE IF c.op = "true" THEN Sql!Row ELSE Sql!Found(c, vals[1])]
<1>5. \A c \in Conditions : F[c] = E(c)
  BY <1>4, Zenon
<1>6. F = [c \in Conditions |-> E(c)]
  <2> HIDE DEF E
  <2> QED BY <1>3, <1>5
<1> QED BY <1>6, Zenon DEF IsHolds

\* Two sequences that were joined can be taken apart.
LEMMA PartsOfJoined ==
  ASSUME NEW S, NEW x \in Seq(S), NEW y \in Seq(S)
  PROVE  /\ SubSeq(x \o y, 1, Len(x)) = x
         /\ SubSeq(x \o y, Len(x) + 1, Len(x \o y)) = y
<1>1. /\ x \o y \in Seq(S) /\ Len(x \o y) = Len(x) + Len(y)
      /\ Len(x) \in Nat /\ Len(y) \in Nat
      /\ \A i \in 1 .. Len(x) + Len(y) : (x \o y)[i] = IF i <= Len(x) THEN x[i] ELSE y[i - Len(x)]
  BY ConcatProperties
<1> DEFINE z == x \o y
<1> HIDE DEF z
<1>2. SubSeq(z, 1, Len(x)) \in Seq(S) /\ Len(SubSeq(z, 1, Len(x))) = Len(x)
      /\ \A i \in 1 .. Len(x) : SubSeq(z, 1, Len(x))[i] = x[i]
  BY <1>1 DEF z
<1>3. /\ SubSeq(z, Len(x) + 1, Len(z)) \in Seq(S)
      /\ Len(SubSeq(z, Len(x) + 1, Len(z))) = Len(y)
      /\ \A i \in 1 .. Len(y) : SubSeq(z, Len(x) + 1, Len(z))[i] = y[i]
  BY <1>1 DEF z
<1>4. SubSeq(z, 1, Len(x)) = x
  BY <1>2, SeqEqual
<1>5. SubSeq(z, Len(x) + 1, Len(z)) = y
  BY <1>3, SeqEqual
<1> QED BY <1>4, <1>5 DEF z

\* The placeholders take the values that were written beside them.
LEMMA AsWritten ==
  ASSUME SqlAssumption, NEW d \in Conditions
  PROVE  Sql!Holds[d][Sql!BoundValues[d]] = Sql!Meant[d]
<1> DEFINE h == Sql!Holds
           b == Sql!BoundValues
           m == Sql!Meant
           n(c) == Len(Sql!Leaves[c.left])
           T == {c \in Conditions : h[c][b[c]] # m[c]}
<1>1. SUFFICES ASSUME T # {} PROVE FALSE
  OBVIOUS
<1>2. PICK c \in T : Sql!Joins(c) => c.left \in Conditions \ T /\ c.right \in Conditions \ T
  BY <1>1, LeastCondition
<1>3. c \in Conditions /\ h[c][b[c]] # m[c] /\ b[c] \in Sql!Filled(c)
  BY BoundValuesFit
<1>4. h[c][b[c]] = IF Sql!Joins(c)
                   THEN Sql!Join(c.op, h[c.left][SubSeq(b[c], 1, n(c))],
                                       h[c.right][SubSeq(b[c], n(c) + 1, Len(b[c]))])
                   ELSE IF c.op = "true" THEN Sql!Row ELSE Sql!Found(c, b[c][1])
  <2> HIDE DEF b
  <2> QED BY <1>3, HoldsOfTree DEF IsHolds
<1>5. m[c] = IF Sql!Joins(c) THEN Sql!Join(c.op, m[c.left], m[c.right])
             ELSE IF c.op = "true" THEN Sql!Row ELSE Sql!Found(c, c.value)
  BY <1>3, MeantOfTree DEF IsMeant
<1>6. CASE Sql!Joins(c)
  <2>1. /\ c.left \in Conditions /\ c.right \in Conditions
        /\ h[c.left][b[c.left]] = m[c.left] /\ h[c.right][b[c.right]] = m[c.right]
    BY <1>2, <1>6
  <2>2. b[c] = b[c.left] \o b[c.right]
    BY <1>3, <1>6, BoundValuesFit
  <2>3. /\ b[c.left] \in Seq(SqlValues) /\ b[c.right] \in Seq(SqlValues)
        /\ Len(b[c.left]) = n(c)
    BY <2>1, BoundValuesFit DEF Sql!Filled
  <2> HIDE DEF b, n, h, m
  <2>4. /\ SubSeq(b[c], 1, n(c)) = b[c.left]
        /\ SubSeq(b[c], n(c) + 1, Len(b[c])) = b[c.right]
    <3> DEFINE x == b[c.left]
               y == b[c.right]
    <3>1. x \in Seq(SqlValues) /\ y \in Seq(SqlValues)
      BY <2>3
    <3> HIDE DEF x, y
    <3>2. SubSeq(x \o y, 1, Len(x)) = x /\ SubSeq(x \o y, Len(x) + 1, Len(x \o y)) = y
      BY <3>1, PartsOfJoined
    <3> QED BY <2>2, <2>3, <3>2 DEF x, y
  <2> QED BY <1>3, <1>4, <1>5, <1>6, <2>1, <2>4
<1>7. CASE ~Sql!Joins(c)
  <2>1. b[c] = IF c.op = "true" THEN <<>> ELSE <<c.value>>
    BY <1>3, <1>7, BoundValuesFit
  <2> HIDE DEF b, n, h, m
  <2> QED BY <1>3, <1>4, <1>5, <1>7, <2>1
<1> QED BY <1>6, <1>7

\* A sequence of as many different elements as a set has is of all of them.
LEMMA AllOfThem ==
  ASSUME NEW S, IsFiniteSet(S), NEW s \in [1 .. Cardinality(S) -> S],
         \A i, j \in 1 .. Cardinality(S) : i # j => s[i] # s[j]
  PROVE  \A x \in S : \E i \in 1 .. Cardinality(S) : s[i] = x
<1> DEFINE n == Cardinality(S)
<1>1. n \in Nat /\ IsFiniteSet(1 .. n) /\ Cardinality(1 .. n) = n
  BY FS_CardinalityType, FS_Interval
<1>2. s \in Injection(1 .. n, S)
  BY DEF Injection, IsInjective
<1>3. s \in Surjection(1 .. n, S)
  BY <1>1, <1>2, FS_Injection
<1> QED BY <1>3 DEF Surjection

LEMMA SeqsOfASet ==
  ASSUME NEW S, IsFiniteSet(S), NEW s \in Sql!SetToSeqs(S)
  PROVE  /\ s \in Seq(S) /\ Len(s) = Cardinality(S)
         /\ \A x \in S : \E i \in 1 .. Len(s) : s[i] = x
<1>1. Sql!Cardinality(S) = Cardinality(S) /\ Cardinality(S) \in Nat
  BY FS_CardinalityType DEF Sql!Cardinality, Cardinality
<1>2. /\ s \in [1 .. Cardinality(S) -> S]
      /\ \A i, j \in 1 .. Cardinality(S) : i # j => s[i] # s[j]
  BY <1>1 DEF Sql!SetToSeqs
<1>3. s \in Seq(S) /\ Len(s) = Cardinality(S)
  BY <1>1, <1>2, IsASeq
<1>4. \A x \in S : \E i \in 1 .. Cardinality(S) : s[i] = x
  BY <1>2, AllOfThem
<1> QED BY <1>3, <1>4

\* What a select gives of the rows found.
Answers(hits, order, limit, got) ==
  LET left == hits \ Sql!Range(got)
  IN  /\ Sql!Range(got) \subseteq hits
      /\ left # {} => Len(got) = limit
      /\ Sql!InOrder(order, got)
      /\ \A r \in left : got = <<>> \/ Sql!InOrder(order, <<Sql!Last(got), r>>)

\* The first rows of those found, in their order.
LEMMA FirstOfHits ==
  ASSUME NEW hits, IsFiniteSet(hits), NEW s \in Sql!SetToSeqs(hits), NEW order,
         Sql!InOrder(order, s), NEW limit \in Nat,
         NEW size, size = IF limit = 0 \/ limit > Sql!Cardinality(hits)
                          THEN Sql!Cardinality(hits) ELSE limit,
         NEW got, got = SubSeq(s, 1, size)
  PROVE  Answers(hits, order, limit, got)
<1> DEFINE n == Cardinality(hits)
           left == hits \ Sql!Range(got)
<1>1. Sql!Cardinality(hits) = n /\ n \in Nat
  BY FS_CardinalityType DEF Sql!Cardinality, Cardinality
<1>2. s \in Seq(hits) /\ Len(s) = n /\ \A x \in hits : \E i \in 1 .. n : s[i] = x
  BY SeqsOfASet
<1>3. size \in 0 .. n /\ (size # n => size = limit)
  BY <1>1
<1> HIDE DEF n
<1>4. /\ got \in Seq(hits) /\ Len(got) = size
      /\ \A i \in 1 .. size : i \in 1 .. n /\ got[i] = s[i]
  BY <1>2, <1>3
<1>5. DOMAIN s = 1 .. n /\ DOMAIN got = 1 .. size
  BY <1>2, <1>4
<1>6. Sql!Range(got) = {s[i] : i \in 1 .. size}
  BY <1>4, <1>5 DEF Sql!Range
<1>7. Sql!Range(got) \subseteq hits
  BY <1>2, <1>4, <1>5, <1>6
<1>8. \A r \in left : \E k \in 1 .. n : k \notin 1 .. size /\ s[k] = r
  BY <1>2, <1>6
<1>9. left # {} => Len(got) = limit
  BY <1>1, <1>3, <1>4, <1>8
<1>10. Sql!InOrder(order, got)
  <2> DEFINE after(i, j) == IF order.desc THEN s[i][order.col] >= s[j][order.col]
                                          ELSE s[i][order.col] <= s[j][order.col]
  <2>1. order.col # "none" => \A i, j \in 1 .. n : i < j => after(i, j)
    BY <1>5, Zenon DEF Sql!InOrder
  <2>2. Sql!InOrder(order, got) <=>
          (order.col # "none" => \A i, j \in 1 .. size : i < j => after(i, j))
    <3> DEFINE goes(i, j) == IF order.desc THEN got[i][order.col] >= got[j][order.col]
                                           ELSE got[i][order.col] <= got[j][order.col]
    <3>1. Sql!InOrder(order, got) <=>
            (order.col # "none" => \A i, j \in 1 .. size : i < j => goes(i, j))
      BY <1>5, Zenon DEF Sql!InOrder
    <3>2. \A i, j \in 1 .. size : goes(i, j) <=> after(i, j)
      BY <1>4, Zenon
    <3> HIDE DEF goes, after
    <3> QED BY <3>1, <3>2, Zenon
  <2> HIDE DEF after
  <2> QED BY <1>4, <2>1, <2>2, Zenon
<1>11. ASSUME NEW r \in left, got # <<>>
       PROVE  Sql!InOrder(order, <<Sql!Last(got), r>>)
  <2>1. PICK k \in 1 .. n : k \notin 1 .. size /\ s[k] = r
    BY <1>8
  <2>2. size # 0
    BY <1>4, <1>11, EmptySeq
  <2>3. size \in 1 .. n /\ size < k /\ k \in 1 .. n
    BY <1>1, <1>3, <2>1, <2>2
  <2>4. Sql!Last(got) = s[size]
    BY <1>4, <2>3 DEF Sql!Last
  <2>5. order.col # "none" => IF order.desc THEN s[size][order.col] >= s[k][order.col]
                                            ELSE s[size][order.col] <= s[k][order.col]
    BY <1>5, <2>3 DEF Sql!InOrder
  <2> DEFINE two == <<Sql!Last(got), r>>
  <2>6. DOMAIN two = {1, 2} /\ two[1] = s[size] /\ two[2] = s[k]
    BY <2>1, <2>4
  <2> HIDE DEF two
  <2>7. \A i, j \in DOMAIN two : i < j => i = 1 /\ j = 2
    BY <2>6
  <2>8. Sql!InOrder(order, two)
    BY <2>5, <2>6, <2>7, Zenon DEF Sql!InOrder
  <2> QED BY <2>8 DEF two
<1> QED BY <1>7, <1>9, <1>10, <1>11 DEF Answers

LEMMA SelectKeeps ==
  ASSUME SqlAssumption, IsFiniteSet(view), NEW cond \in Asked, NEW order,
         NEW limit \in {-1, 0, 1}, Sql!SelectRows(cond, order, limit)
  PROVE  Sql!SelectsWhatIsAsked'
<1> DEFINE hits == view \cap Sql!Meant[cond]
<1>1. UNCHANGED view
  BY DEF Sql!SelectRows, Sql!data
<1>2. CASE ~Sql!Works \/ limit < 0
  <2>1. call' = [Sql!Called("select") EXCEPT !.at = "thrown"]
    BY <1>2 DEF Sql!SelectRows, Sql!Begin
  <2>2. call'.at = "thrown"
    BY <2>1 DEF Sql!Called
  <2> QED BY <2>2 DEF Sql!SelectsWhatIsAsked
<1>3. CASE ~(~Sql!Works \/ limit < 0)
  <2> DEFINE size == IF limit = 0 \/ limit > Sql!Cardinality(hits)
                     THEN Sql!Cardinality(hits) ELSE limit
  <2>1. Sql!Holds[cond][Sql!BoundValues[cond]] = Sql!Meant[cond]
    BY AsWritten DEF SqlAssumption
  <2>2. \E s \in Sql!SetToSeqs(hits) :
          /\ Sql!InOrder(order, s)
          /\ Sql!Begin([Sql!Called("select") EXCEPT !.at = "returned", !.cond = cond,
                        !.order = order, !.limit = limit, !.result = SubSeq(s, 1, size)])
    BY <1>3, <2>1 DEF Sql!SelectRows
  <2> HIDE DEF size, hits
  <2>3. PICK s \in Sql!SetToSeqs(hits) :
          /\ Sql!InOrder(order, s)
          /\ call' = [Sql!Called("select") EXCEPT !.at = "returned", !.cond = cond,
                      !.order = order, !.limit = limit, !.result = SubSeq(s, 1, size)]
    BY <2>2, Zenon DEF Sql!Begin
  <2>4. /\ call'.cond = cond /\ call'.order = order /\ call'.limit = limit
        /\ call'.result = SubSeq(s, 1, size)
    BY <2>3 DEF Sql!Called
  <2>5. IsFiniteSet(hits)
    BY FS_Subset DEF hits
  <2>6. limit \in Nat
    BY <1>3
  <2>7. Answers(hits, call'.order, call'.limit, call'.result)
    <3>1. size = IF limit = 0 \/ limit > Sql!Cardinality(hits)
                 THEN Sql!Cardinality(hits) ELSE limit
      BY DEF size
    <3>2. Answers(hits, order, limit, SubSeq(s, 1, size))
      BY <2>3, <2>5, <2>6, <3>1, FirstOfHits
    <3> QED BY <2>4, <3>2
  <2>8. hits = view' \cap Sql!Meant[call'.cond]
    BY <1>1, <2>4 DEF hits
  <2> QED BY <2>4, <2>7, <2>8 DEF Sql!SelectsWhatIsAsked, Answers
<1> QED BY <1>2, <1>3

\* What the first k rows of a call, which give the columns named, have made of old.
KeysOf(rs, k) == {rs[j][KeyColumn] : j \in 1 .. k}

Made(seen, old, rs, k, named, name) ==
  /\ \A r \in seen, i \in 1 .. k :
       (/\ rs[i][KeyColumn] = r[KeyColumn]
        /\ \A j \in 1 .. k : rs[j][KeyColumn] = r[KeyColumn] => j <= i)
       => \A c \in named : r[c] = rs[i][c]
  /\ name = "insert" => \A i \in 1 .. k : \E r \in seen : r[KeyColumn] = rs[i][KeyColumn]
  /\ \A r \in seen \cup old : r[KeyColumn] \notin KeysOf(rs, k) => (r \in seen <=> r \in old)
  /\ name = "update" => \A r \in old : \E q \in seen :
       \A c \in Sql!AllColumns \ (named \ {KeyColumn}) : q[c] = r[c]

Modifies ==
  /\ call.rows \in Seq(Sql!Row)
  /\ call.next \in 1 .. Len(call.rows) + 1
  /\ call.at \in {"run", "rows"} => call.next <= Len(call.rows)
  /\ call.at = "run" => call.next = 1
  /\ call.at = "commit" => call.next = Len(call.rows) + 1
  /\ \/ call.name = "insert" /\ call.cols = SqlColumns
     \/ call.name = "update" /\ call.cols \in Updates

RowSets ==
  /\ view \in SUBSET Sql!Row /\ IsFiniteSet(view)
  /\ stored \in SUBSET Sql!Row /\ IsFiniteSet(stored)

SqlInv ==
  /\ RowSets
  /\ "at" \in DOMAIN call
  /\ ~Sql!Idle => Modifies
  /\ call.at \in {"rows", "commit"} =>
       Made(view, stored, call.rows, call.next - 1, Sql!Range(call.cols), call.name)
  /\ Sql!SelectsWhatIsAsked

\* One more row: the last row of a key that is not its own stays the last.
LEMMA OneMoreKey ==
  ASSUME NEW rs, NEW k \in Nat, NEW key
  PROVE  /\ rs[k + 1][KeyColumn] = key =>
              \A i \in 1 .. k + 1 :
                (\A j \in 1 .. k + 1 : rs[j][KeyColumn] = key => j <= i) => i = k + 1
         /\ rs[k + 1][KeyColumn] # key =>
              \A i \in 1 .. k + 1 : rs[i][KeyColumn] = key => i \in 1 .. k
         /\ KeysOf(rs, k + 1) = KeysOf(rs, k) \cup {rs[k + 1][KeyColumn]}
<1>1. 1 .. k + 1 = (1 .. k) \cup {k + 1}
  OBVIOUS
<1>2. ASSUME rs[k + 1][KeyColumn] = key, NEW i \in 1 .. k + 1,
             \A j \in 1 .. k + 1 : rs[j][KeyColumn] = key => j <= i
      PROVE  i = k + 1
  <2>1. k + 1 <= i
    BY <1>1, <1>2
  <2> QED BY <2>1
<1>3. KeysOf(rs, k + 1) = KeysOf(rs, k) \cup {rs[k + 1][KeyColumn]}
  BY <1>1, Zenon DEF KeysOf
<1>4. ASSUME rs[k + 1][KeyColumn] # key, NEW i \in 1 .. k + 1, rs[i][KeyColumn] = key
      PROVE  i \in 1 .. k
  BY <1>1, <1>4
<1> QED BY <1>2, <1>3, <1>4

LEMMA InsertMakes ==
  ASSUME NEW seen \in SUBSET Sql!Row, NEW old \in SUBSET Sql!Row, NEW k \in Nat,
         NEW rs, rs[k + 1] \in Sql!Row, NEW named,
         Made(seen, old, rs, k, named, "insert"),
         NEW new, new = {r \in seen : r[KeyColumn] # rs[k + 1][KeyColumn]} \cup {rs[k + 1]}
  PROVE  Made(new, old, rs, k + 1, named, "insert")
<1> DEFINE row == rs[k + 1]
           key == row[KeyColumn]
<1>1. \A r \in new : (r = row) \/ (r \in seen /\ r[KeyColumn] # key)
  OBVIOUS
<1>2. ASSUME NEW r \in new, NEW i \in 1 .. k + 1, rs[i][KeyColumn] = r[KeyColumn],
             \A j \in 1 .. k + 1 : rs[j][KeyColumn] = r[KeyColumn] => j <= i,
             NEW c \in named
      PROVE  r[c] = rs[i][c]
  <2>1. CASE r[KeyColumn] = key
    <3>1. r = row
      BY <1>1, <2>1
    <3>2. i = k + 1
      BY <1>2, <2>1, OneMoreKey
    <3> QED BY <3>1, <3>2
  <2>2. CASE r[KeyColumn] # key
    <3>1. r \in seen
      BY <1>1, <2>2
    <3>2. i \in 1 .. k
      BY <1>2, <2>2, OneMoreKey
    <3>3. \A j \in 1 .. k : j \in 1 .. k + 1
      OBVIOUS
    <3> HIDE DEF row, key
    <3> QED BY <1>2, <3>1, <3>2, <3>3, Zenon DEF Made
  <2> QED BY <2>1, <2>2
<1>3. ASSUME NEW i \in 1 .. k + 1 PROVE \E r \in new : r[KeyColumn] = rs[i][KeyColumn]
  <2>1. CASE rs[i][KeyColumn] = key
    BY <2>1
  <2>2. CASE rs[i][KeyColumn] # key
    <3>1. i \in 1 .. k
      BY <2>2
    <3>2. PICK r \in seen : r[KeyColumn] = rs[i][KeyColumn]
      BY <3>1 DEF Made
    <3> QED BY <2>2, <3>2
  <2> QED BY <2>1, <2>2
<1>4. ASSUME NEW r \in new \cup old, r[KeyColumn] \notin KeysOf(rs, k + 1)
      PROVE  r \in new <=> r \in old
  <2>1. r[KeyColumn] # key /\ r[KeyColumn] \notin KeysOf(rs, k)
    BY <1>4, OneMoreKey
  <2>2. r \in new <=> r \in seen
    BY <2>1
  <2> QED BY <1>4, <2>1, <2>2 DEF Made
<1> QED BY <1>2, <1>3, <1>4 DEF Made

\* An update puts the columns named, and the key, into the rows of its key.
Puts(put, seen, row, named) ==
  \A r \in seen : put[r] =
    IF r[KeyColumn] = row[KeyColumn]
    THEN [c \in Sql!AllColumns |-> IF c \in named \cup {KeyColumn} THEN row[c] ELSE r[c]]
    ELSE r
Image(put, seen) == {put[r] : r \in seen}

LEMMA UpdateMakes ==
  ASSUME KeyColumn \in Sql!AllColumns,
         NEW seen \in SUBSET Sql!Row, NEW old \in SUBSET Sql!Row, NEW k \in Nat,
         NEW rs, rs[k + 1] \in Sql!Row, NEW named \in SUBSET Sql!AllColumns,
         Made(seen, old, rs, k, named, "update"),
         NEW put, Puts(put, seen, rs[k + 1], named),
         NEW new, new = Image(put, seen)
  PROVE  Made(new, old, rs, k + 1, named, "update") /\ new \in SUBSET Sql!Row
<1> DEFINE row == rs[k + 1]
           key == row[KeyColumn]
<1>1. ASSUME NEW r \in seen
      PROVE  /\ put[r] \in Sql!Row
             /\ put[r][KeyColumn] = r[KeyColumn]
             /\ r[KeyColumn] = key => \A c \in named : put[r][c] = row[c]
             /\ r[KeyColumn] # key => put[r] = r
             /\ \A c \in Sql!AllColumns \ (named \ {KeyColumn}) : put[r][c] = r[c]
  <2>1. r \in [Sql!AllColumns -> SqlValues] /\ row \in [Sql!AllColumns -> SqlValues]
    BY DEF Sql!Row
  <2>2. CASE r[KeyColumn] # key
    BY <2>2 DEF Puts
  <2>3. CASE r[KeyColumn] = key
    <3>1. put[r] = [c \in Sql!AllColumns |-> IF c \in named \cup {KeyColumn} THEN row[c] ELSE r[c]]
      BY <2>3 DEF Puts
    <3> HIDE DEF row
    <3>2. put[r] \in Sql!Row
      BY <2>1, <3>1 DEF Sql!Row
    <3> QED BY <2>1, <2>3, <3>1, <3>2
  <2> QED BY <2>2, <2>3
<1>2. new = {put[r] : r \in seen} /\ \A q \in new : \E r \in seen : q = put[r]
  BY DEF Image
<1>3. ASSUME NEW q \in new, NEW i \in 1 .. k + 1, rs[i][KeyColumn] = q[KeyColumn],
             \A j \in 1 .. k + 1 : rs[j][KeyColumn] = q[KeyColumn] => j <= i,
             NEW c \in named
      PROVE  q[c] = rs[i][c]
  <2>1. PICK r \in seen : q = put[r]
    BY <1>2
  <2>2. q[KeyColumn] = r[KeyColumn]
    BY <1>1, <2>1
  <2>3. CASE r[KeyColumn] = key
    <3>1. i = k + 1
      BY <1>3, <2>2, <2>3, OneMoreKey
    <3> QED BY <1>1, <2>1, <2>3, <3>1
  <2>4. CASE r[KeyColumn] # key
    <3>1. q \in seen
      BY <1>1, <2>1, <2>4
    <3>2. i \in 1 .. k
      BY <1>3, <2>2, <2>4, OneMoreKey
    <3>3. \A j \in 1 .. k : j \in 1 .. k + 1
      OBVIOUS
    <3> HIDE DEF row, key
    <3> QED BY <1>3, <3>1, <3>2, <3>3, Zenon DEF Made
  <2> QED BY <2>3, <2>4
<1>4. ASSUME NEW q \in new \cup old, q[KeyColumn] \notin KeysOf(rs, k + 1)
      PROVE  q \in new <=> q \in old
  <2>1. q[KeyColumn] # key /\ q[KeyColumn] \notin KeysOf(rs, k)
    <3>1. KeysOf(rs, k + 1) = KeysOf(rs, k) \cup {key}
      BY OneMoreKey
    <3> QED BY <1>4, <3>1
  <2>2. q \in new => q \in seen
    <3> SUFFICES ASSUME q \in new PROVE q \in seen
      OBVIOUS
    <3>1. PICK r \in seen : q = put[r]
      BY <1>2
    <3> QED BY <1>1, <2>1, <3>1
  <2>3. q \in seen => q \in new
    <3> SUFFICES ASSUME q \in seen PROVE q \in new
      OBVIOUS
    <3>1. put[q] = q
      BY <1>1, <2>1
    <3> QED BY <1>2, <3>1
  <2> QED BY <1>4, <2>1, <2>2, <2>3 DEF Made
<1>5. ASSUME NEW r \in old
      PROVE  \E q \in new : \A c \in Sql!AllColumns \ (named \ {KeyColumn}) : q[c] = r[c]
  <2>1. PICK p \in seen : \A c \in Sql!AllColumns \ (named \ {KeyColumn}) : p[c] = r[c]
    BY DEF Made
  <2>2. put[p] \in new /\ \A c \in Sql!AllColumns \ (named \ {KeyColumn}) : put[p][c] = p[c]
    BY <1>1, <1>2
  <2> QED BY <2>1, <2>2
<1>6. new \in SUBSET Sql!Row
  BY <1>1, <1>2
<1> QED BY <1>3, <1>4, <1>5, <1>6 DEF Made

LEMMA OtherColumns ==
  ASSUME NEW cols \in Seq(Sql!AllColumns)
  PROVE  /\ Sql!Others(cols) \in Seq(Sql!AllColumns)
         /\ Sql!Range(Sql!Others(cols)) = Sql!Range(cols) \ {KeyColumn}
<1> DEFINE kept == {i \in DOMAIN cols : cols[i] # KeyColumn}
           Order(s) == \A k, l \in DOMAIN s : k < l => s[k] < s[l]
           W == [1 .. Sql!Cardinality(kept) -> kept]
           order == CHOOSE s \in W : Order(s)
<1>1. DOMAIN cols = 1 .. Len(cols) /\ Len(cols) \in Nat
  OBVIOUS
<1>2. kept \in SUBSET Nat /\ kept \subseteq 1 .. Len(cols)
  BY <1>1
<1>3. IsFiniteSet(kept)
  <2>1. IsFiniteSet(1 .. Len(cols))
    BY <1>1, FS_Interval
  <2> QED BY <1>2, <2>1, FS_Subset
<1> HIDE DEF kept
<1>4. Sql!Cardinality(kept) = Cardinality(kept) /\ Cardinality(kept) \in Nat
  BY <1>3, FS_CardinalityType DEF Sql!Cardinality, Cardinality
<1>5. \E s \in W : Order(s)
  BY <1>2, <1>3, <1>4, AscendingExists DEF IsAscending
<1>6. order \in W /\ Order(order)
  <2> HIDE DEF W, Order
  <2> QED BY <1>5
<1>7. Sql!Others(cols) = [k \in DOMAIN order |-> cols[order[k]]]
  BY DEF Sql!Others, kept
<1> HIDE DEF order
<1>8. /\ order \in [1 .. Cardinality(kept) -> kept]
      /\ \A i, j \in 1 .. Cardinality(kept) : i # j => order[i] # order[j]
  <2>1. order \in [1 .. Cardinality(kept) -> kept]
    BY <1>4, <1>6
  <2>2. ASSUME NEW i \in 1 .. Cardinality(kept), NEW j \in 1 .. Cardinality(kept), i # j
        PROVE  order[i] # order[j]
    <3>1. order[i] \in Nat /\ order[j] \in Nat /\ (i < j => order[i] < order[j])
          /\ (j < i => order[j] < order[i])
      BY <1>2, <1>6, <2>1
    <3> QED BY <1>4, <2>2, <3>1
  <2> QED BY <2>1, <2>2
<1>9. \A x \in kept : \E i \in 1 .. Cardinality(kept) : order[i] = x
  BY <1>3, <1>8, AllOfThem
<1> DEFINE o == Sql!Others(cols)
<1>10. DOMAIN o = 1 .. Cardinality(kept) /\ \A k \in DOMAIN o : o[k] = cols[order[k]]
  BY <1>7, <1>8
<1>11. o \in [1 .. Cardinality(kept) -> Sql!AllColumns]
  <2>1. \A k \in 1 .. Cardinality(kept) : cols[order[k]] \in Sql!AllColumns
    <3>1. \A j \in 1 .. Len(cols) : cols[j] \in Sql!AllColumns
      OBVIOUS
    <3>2. \A k \in 1 .. Cardinality(kept) : order[k] \in 1 .. Len(cols)
      BY <1>2, <1>8
    <3> QED BY <3>1, <3>2
  <2>2. o = [k \in 1 .. Cardinality(kept) |-> cols[order[k]]]
    BY <1>7, <1>8
  <2> QED BY <2>1, <2>2
<1>12. o \in Seq(Sql!AllColumns)
  BY <1>4, <1>11, IsASeq
<1> HIDE DEF o
<1>13. Sql!Range(o) = {cols[i] : i \in kept}
  <2>1. Sql!Range(o) = {o[k] : k \in DOMAIN o}
    BY DEF Sql!Range
  <2> QED BY <1>8, <1>9, <1>10, <2>1
<1>14. {cols[i] : i \in kept} = Sql!Range(cols) \ {KeyColumn}
  BY DEF kept, Sql!Range
<1> QED BY <1>12, <1>13, <1>14 DEF o

\* The values that are bound are those of the row, and the key's is the key's.
LEMMA BoundRow ==
  ASSUME SqlAssumption, Modifies, call.at = "rows"
  PROVE  LET row == call.rows[call.next]
         IN  /\ row \in Sql!Row
             /\ Sql!Bound = [c \in Sql!Range(call.cols) \cup {KeyColumn} |-> row[c]]
             /\ Sql!Range(call.cols) \in SUBSET Sql!AllColumns
<1> DEFINE row == call.rows[call.next]
           places == Sql!Placeholders
<1>1. row \in Sql!Row
  BY DEF Modifies
<1>2. call.cols \in Seq(Sql!AllColumns)
  BY DEF Modifies, SqlAssumption
<1>3. Sql!Range(call.cols) \in SUBSET Sql!AllColumns
  BY <1>2 DEF Sql!Range
<1>4. Sql!Range(places) = Sql!Range(call.cols) \cup {KeyColumn}
  <2>1. CASE call.name = "insert"
    <3>1. places = call.cols /\ Sql!Range(call.cols) = Sql!AllColumns
      BY <2>1 DEF Sql!Placeholders, Modifies, Sql!AllColumns
    <3> QED BY <3>1 DEF SqlAssumption
  <2>2. CASE call.name # "insert"
    <3> DEFINE o == Sql!Others(call.cols)
    <3>1. places = Append(o, KeyColumn)
      BY <2>2 DEF Sql!Placeholders
    <3>2. o \in Seq(Sql!AllColumns) /\ Sql!Range(o) = Sql!Range(call.cols) \ {KeyColumn}
      BY <1>2, OtherColumns
    <3> HIDE DEF o
    <3>3. /\ DOMAIN places = 1 .. Len(o) + 1 /\ Len(o) \in Nat /\ DOMAIN o = 1 .. Len(o)
          /\ \A i \in 1 .. Len(o) : places[i] = o[i]
          /\ places[Len(o) + 1] = KeyColumn
      BY <3>1, <3>2
    <3>4. 1 .. Len(o) + 1 = (1 .. Len(o)) \cup {Len(o) + 1}
      BY <3>3
    <3> HIDE DEF places
    <3>5. Sql!Range(places) = Sql!Range(o) \cup {KeyColumn}
      BY <3>3, <3>4 DEF Sql!Range
    <3> QED BY <3>2, <3>5
  <2> QED BY <2>1, <2>2
<1>5. Sql!BindOrder(call.name, call.cols) = places
  BY DEF Sql!BindOrder, Sql!Placeholders
<1> HIDE DEF places
<1>6. Sql!Bound = [c \in Sql!Range(places) |->
                    row[places[CHOOSE i \in DOMAIN places : places[i] = c]]]
  BY <1>5 DEF Sql!Bound, places
<1>7. ASSUME NEW c \in Sql!Range(places)
      PROVE  places[CHOOSE i \in DOMAIN places : places[i] = c] = c
  <2>1. \E i \in DOMAIN places : places[i] = c
    BY DEF Sql!Range
  <2> QED BY <2>1, Zenon
<1>8. Sql!Bound = [c \in Sql!Range(places) |-> row[c]]
  <2> DEFINE at(c) == CHOOSE i \in DOMAIN places : places[i] = c
  <2>1. \A c \in Sql!Range(places) : places[at(c)] = c
    BY <1>7, Zenon
  <2>2. Sql!Bound = [c \in Sql!Range(places) |-> row[places[at(c)]]]
    BY <1>6, Zenon
  <2> HIDE DEF row, at
  <2> QED BY <2>1, <2>2
<1> QED BY <1>1, <1>3, <1>4, <1>8

LEMMA EndedKeeps ==
  ASSUME RowSets', "at" \in DOMAIN call', call'.at \in {"returned", "thrown"},
         call'.name # "select" \/ call'.at = "thrown"
  PROVE  SqlInv'
BY DEF SqlInv, Sql!Idle, Sql!SelectsWhatIsAsked

LEMMA EmptyRows == {} \in SUBSET Sql!Row /\ IsFiniteSet({})
BY FS_EmptySet

LEMMA ModifyKeeps ==
  ASSUME SqlInv, NEW name \in {"insert", "update"}, NEW cols,
         (name = "insert" /\ cols = SqlColumns) \/ (name = "update" /\ cols \in Updates),
         NEW n \in Nat, NEW rs \in [1 .. n -> Sql!Row], Sql!Modify(name, cols, rs)
  PROVE  SqlInv'
<1>1. RowSets'
  BY DEF Sql!Modify, Sql!data, SqlInv, RowSets
<1>2. call' = [Sql!Called(name) EXCEPT !.cols = cols, !.rows = rs,
                 !.at = IF rs = <<>> THEN "returned" ELSE "run"]
  BY DEF Sql!Modify, Sql!Begin
<1>3. /\ "at" \in DOMAIN call' /\ call'.name = name /\ call'.cols = cols /\ call'.rows = rs /\ call'.next = 1
      /\ call'.at = IF rs = <<>> THEN "returned" ELSE "run"
  BY <1>2 DEF Sql!Called
<1>4. CASE rs = <<>>
  BY <1>1, <1>3, <1>4, EndedKeeps
<1>5. CASE rs # <<>>
  <2>1. rs \in Seq(Sql!Row) /\ Len(rs) \in Nat /\ Len(rs) # 0
    BY <1>5, IsASeq, EmptySeq
  <2>2. Modifies'
    BY <1>3, <1>5, <2>1 DEF Modifies
  <2> QED BY <1>1, <1>3, <1>5, <2>2 DEF SqlInv, Sql!SelectsWhatIsAsked
<1> QED BY <1>4, <1>5

LEMMA StartKeeps == SqlInv /\ Sql!StartTransaction => SqlInv'
<1> SUFFICES ASSUME SqlInv, Sql!StartTransaction PROVE SqlInv'
  OBVIOUS
<1>1. call.at = "run" /\ UNCHANGED view /\ Modifies /\ "at" \in DOMAIN call
  BY DEF Sql!StartTransaction, SqlInv, Sql!Idle
<1>2. CASE schema
  <2>1. stored' = view /\ call' = [call EXCEPT !.at = "rows"]
    BY <1>2 DEF Sql!StartTransaction, Sql!Ended
  <2>2. RowSets'
    BY <1>1, <2>1 DEF SqlInv, RowSets
  <2>3. /\ call'.at = "rows" /\ call'.rows = call.rows /\ call'.next = call.next
        /\ call'.name = call.name /\ call'.cols = call.cols /\ "at" \in DOMAIN call'
    BY <1>1, <2>1 DEF Modifies
  <2>4. Modifies' /\ call'.next = 1 /\ call'.name # "select"
    BY <1>1, <2>3 DEF Modifies
  <2>5. \A rs, cols, name : Made(view, view, rs, 0, cols, name)
    BY DEF Made
  <2>6. Made(view, stored, call.rows, call.next - 1, Sql!Range(call.cols), call.name)'
    <3>1. call'.next - 1 = 0
      BY <2>4
    <3> QED BY <1>1, <2>1, <2>5, <3>1 DEF Sql!Range, Made, KeysOf
  <2> QED BY <2>2, <2>3, <2>4, <2>6 DEF SqlInv, Sql!SelectsWhatIsAsked
<1>3. CASE ~schema
  <2>1. UNCHANGED stored /\ call' = [call EXCEPT !.at = "thrown"]
    BY <1>3 DEF Sql!StartTransaction, Sql!Ended
  <2>2. RowSets'
    BY <1>1, <2>1 DEF SqlInv, RowSets
  <2>3. call'.at = "thrown" /\ "at" \in DOMAIN call'
    BY <1>1, <2>1 DEF Modifies
  <2> QED BY <2>2, <2>3, EndedKeeps
<1> QED BY <1>2, <1>3

\* What one row of an insert and of an update makes of the rows.
LEMMA EffectMakes ==
  ASSUME SqlAssumption, RowSets, Modifies, call.at = "rows",
         Made(view, stored, call.rows, call.next - 1, Sql!Range(call.cols), call.name)
  PROVE  LET new == Sql!Effect(view, Sql!Bound)
         IN  /\ new \in SUBSET Sql!Row /\ IsFiniteSet(new)
             /\ Made(new, stored, call.rows, call.next, Sql!Range(call.cols), call.name)
<1> DEFINE new == Sql!Effect(view, Sql!Bound)
           b == Sql!Bound
           rs == call.rows
           k == call.next - 1
           row == rs[call.next]
           cols == Sql!Range(call.cols)
<1>1. k \in Nat /\ call.next = k + 1 /\ KeyColumn \in Sql!AllColumns
  BY DEF Modifies, SqlAssumption
<1>2. row \in Sql!Row /\ b = [c \in cols \cup {KeyColumn} |-> row[c]] /\ cols \in SUBSET Sql!AllColumns
  BY BoundRow
<1>3. b[KeyColumn] = row[KeyColumn]
  BY <1>2
<1>4. CASE call.name = "insert"
  <2>1. cols \cup {KeyColumn} = Sql!AllColumns
    BY <1>1, <1>4 DEF Modifies, Sql!AllColumns
  <2>2. b = row
    BY <1>2, <2>1 DEF Sql!Row
  <2>3. new = {r \in view : r[KeyColumn] # row[KeyColumn]} \cup {row}
    BY <1>4, <2>2 DEF Sql!Effect
  <2> HIDE DEF new, b, row, cols
  <2>4. IsFiniteSet({r \in view : r[KeyColumn] # row[KeyColumn]})
    BY FS_Subset DEF RowSets
  <2>5. IsFiniteSet(new)
    BY <2>3, <2>4, FS_AddElement
  <2>6. new \in SUBSET Sql!Row
    BY <1>2, <2>3 DEF RowSets
  <2>7. Made(new, stored, rs, k + 1, cols, "insert")
    <3>1. row = rs[k + 1]
      BY <1>1 DEF row
    <3> HIDE DEF rs, k
    <3>2. Made(view, stored, rs, k, cols, "insert")
      BY <1>4 DEF rs, k, cols
    <3> QED BY <1>1, <1>2, <2>3, <3>1, <3>2, InsertMakes DEF RowSets
  <2> QED BY <1>1, <1>4, <2>5, <2>6, <2>7 DEF new, b, cols
<1>5. CASE call.name # "insert"
  <2> DEFINE set(r) == IF r[KeyColumn] = b[KeyColumn]
                       THEN [c \in Sql!AllColumns |-> IF c \in DOMAIN b THEN b[c] ELSE r[c]]
                       ELSE r
             put == [r \in view |-> set(r)]
  <2>1. call.name = "update"
    BY <1>5 DEF Modifies
  <2>2. new = {put[r] : r \in view}
    <3>1. new = {set(r) : r \in view}
      BY <1>5 DEF Sql!Effect
    <3> HIDE DEF set, new
    <3> QED BY <3>1
  <2>3. \A r \in view : put[r] =
          IF r[KeyColumn] = row[KeyColumn]
          THEN [c \in Sql!AllColumns |-> IF c \in cols \cup {KeyColumn} THEN row[c] ELSE r[c]]
          ELSE r
    <3> SUFFICES ASSUME NEW r
                 PROVE  [c \in Sql!AllColumns |-> IF c \in DOMAIN b THEN b[c] ELSE r[c]]
                        = [c \in Sql!AllColumns |-> IF c \in cols \cup {KeyColumn} THEN row[c] ELSE r[c]]
      BY <1>3
    <3>1. DOMAIN b = cols \cup {KeyColumn} /\ \A c \in cols \cup {KeyColumn} : b[c] = row[c]
      BY <1>2
    <3> HIDE DEF b, row, cols
    <3> QED BY <3>1
  <2> HIDE DEF new, b, row, cols, put
  <2>4. IsFiniteSet(new)
    <3>1. put \in Surjection(view, new)
      BY <2>2 DEF Surjection, put
    <3> QED BY <3>1, FS_Surjection DEF RowSets
  <2>5. Made(new, stored, rs, k + 1, cols, "update") /\ new \in SUBSET Sql!Row
    <3>1. row = rs[k + 1]
      BY <1>1 DEF row
    <3> HIDE DEF rs, k
    <3>2. Made(view, stored, rs, k, cols, "update")
      BY <2>1 DEF rs, k, cols
    <3>3. view \in SUBSET Sql!Row /\ stored \in SUBSET Sql!Row
      BY DEF RowSets
    <3>4. /\ rs[k + 1] \in Sql!Row /\ k \in Nat /\ KeyColumn \in Sql!AllColumns
          /\ cols \in SUBSET Sql!AllColumns
      BY <1>1, <1>2, <3>1
    <3>5. Puts(put, view, rs[k + 1], cols) /\ new = Image(put, view)
      BY <2>2, <2>3, <3>1, Zenon DEF Puts, Image
    <3> QED BY <3>2, <3>3, <3>4, <3>5, UpdateMakes
  <2> QED BY <1>1, <2>1, <2>4, <2>5 DEF new, b, cols
<1> QED BY <1>4, <1>5

LEMMA ExecuteKeeps == SqlAssumption /\ SqlInv /\ Sql!ExecuteRow => SqlInv'
<1> SUFFICES ASSUME SqlAssumption, SqlInv, Sql!ExecuteRow PROVE SqlInv'
  OBVIOUS
<1>1. /\ "at" \in DOMAIN call /\ call.at = "rows" /\ UNCHANGED stored /\ Modifies /\ RowSets
      /\ view' = Sql!Effect(view, Sql!Bound)
      /\ call' = [call EXCEPT !.next = @ + 1,
                     !.at = IF call.next = Len(call.rows) THEN "commit" ELSE "rows"]
      /\ Made(view, stored, call.rows, call.next - 1, Sql!Range(call.cols), call.name)
  BY DEF Sql!ExecuteRow, SqlInv, Sql!Idle
<1>2. /\ view' \in SUBSET Sql!Row /\ IsFiniteSet(view')
      /\ Made(view', stored, call.rows, call.next, Sql!Range(call.cols), call.name)
  BY <1>1, EffectMakes
<1>3. RowSets'
  BY <1>1, <1>2 DEF RowSets
<1>4. /\ call'.rows = call.rows /\ call'.name = call.name /\ call'.cols = call.cols
      /\ call'.next = call.next + 1 /\ "at" \in DOMAIN call'
      /\ call'.at = IF call.next = Len(call.rows) THEN "commit" ELSE "rows"
  BY <1>1 DEF Modifies
<1>5. Modifies' /\ call'.name # "select" /\ call'.next - 1 = call.next
  BY <1>1, <1>4 DEF Modifies
<1>6. Made(view, stored, call.rows, call.next - 1, Sql!Range(call.cols), call.name)'
  BY <1>1, <1>2, <1>4, <1>5 DEF Made, KeysOf, Sql!Range
<1> QED BY <1>3, <1>4, <1>5, <1>6 DEF SqlInv, Sql!SelectsWhatIsAsked

LEMMA SqlStep == SqlAssumption /\ SqlInv /\ [Sql!Next]_(Sql!vars) => SqlInv'
<1> SUFFICES ASSUME SqlAssumption, SqlInv, [Sql!Next]_(Sql!vars) PROVE SqlInv'
  OBVIOUS
<1>1. RowSets /\ "at" \in DOMAIN call
  BY DEF SqlInv
<1>2. UNCHANGED <<view, stored>> => RowSets'
  BY <1>1 DEF RowSets
<1>3. CASE UNCHANGED Sql!vars
  BY <1>2, <1>3 DEF Sql!vars, SqlInv, Modifies, Made, KeysOf, Sql!Idle, Sql!SelectsWhatIsAsked, Sql!Range,
                    Sql!InOrder
<1>4. CASE Sql!WrongThread("any")
  <2>1. /\ call' = [Sql!Called("any") EXCEPT !.at = "thrown"]
        /\ UNCHANGED <<view, stored>>
    BY <1>4 DEF Sql!WrongThread, Sql!Begin, Sql!data
  <2>2. call'.at = "thrown" /\ "at" \in DOMAIN call'
    BY <2>1 DEF Sql!Called
  <2> QED BY <1>2, <2>1, <2>2, EndedKeeps
<1>5. CASE Sql!CreateDatabase
  <2>1. PICK how \in {"returned", "thrown"} :
          /\ call' = [Sql!Called("create_database") EXCEPT !.at = how]
          /\ UNCHANGED view /\ stored' \in {view, stored}
    BY <1>5 DEF Sql!CreateDatabase, Sql!Begin, Sql!data
  <2>2. call'.at = how /\ "at" \in DOMAIN call' /\ call'.name = "create_database"
    BY <2>1 DEF Sql!Called
  <2>3. RowSets'
    BY <1>1, <2>1 DEF RowSets
  <2> QED BY <2>1, <2>2, <2>3, EndedKeeps
<1>6. CASE Sql!CreateTable
  <2>1. PICK how \in {"thrown", "returned"} : call' = [Sql!Called("create_table") EXCEPT !.at = how]
    BY <1>6 DEF Sql!CreateTable, Sql!Begin
  <2>2. call'.at = how /\ "at" \in DOMAIN call' /\ call'.name = "create_table"
    BY <2>1 DEF Sql!Called
  <2>3. UNCHANGED view /\ stored' \in {view, stored}
    BY <1>6 DEF Sql!CreateTable, Sql!data
  <2>4. RowSets'
    BY <1>1, <2>3 DEF RowSets
  <2> QED BY <2>1, <2>2, <2>4, EndedKeeps
<1>7. CASE Sql!DropTable
  <2>1. PICK how \in {"thrown", "returned"} : call' = [Sql!Called("drop_table") EXCEPT !.at = how]
    BY <1>7 DEF Sql!DropTable, Sql!Begin
  <2>2. call'.at = how /\ "at" \in DOMAIN call' /\ call'.name = "drop_table"
    BY <2>1 DEF Sql!Called
  <2>3. UNCHANGED <<view, stored>> \/ (view' = {} /\ stored' = {})
    BY <1>7 DEF Sql!DropTable, Sql!data
  <2>4. RowSets'
    BY <1>2, <2>3, EmptyRows DEF RowSets
  <2> QED BY <2>1, <2>2, <2>4, EndedKeeps
<1>8. CASE Sql!ClearTable
  <2>1. PICK how \in {"thrown", "returned"} : call' = [Sql!Called("clear_table") EXCEPT !.at = how]
    BY <1>8 DEF Sql!ClearTable, Sql!Begin
  <2>2. call'.at = how /\ "at" \in DOMAIN call' /\ call'.name = "clear_table"
    BY <2>1 DEF Sql!Called
  <2>3. UNCHANGED <<view, stored>> \/ (view' = {} /\ stored' \in {stored, {}})
    BY <1>8 DEF Sql!ClearTable, Sql!Write, Sql!data
  <2>4. RowSets'
    BY <1>1, <1>2, <2>3, EmptyRows DEF RowSets
  <2> QED BY <2>1, <2>2, <2>4, EndedKeeps
<1>9. CASE Sql!DeleteRows
  <2>1. /\ call' = [Sql!Called("delete_rows") EXCEPT !.at = "thrown"]
        /\ UNCHANGED <<view, stored>>
    BY <1>9 DEF Sql!DeleteRows, Sql!Begin, Sql!data
  <2>2. call'.at = "thrown" /\ "at" \in DOMAIN call'
    BY <2>1 DEF Sql!Called
  <2> QED BY <1>2, <2>1, <2>2, EndedKeeps
<1>10. CASE Sql!Insert
  <2>1. PICK n \in 0 .. SqlRows : \E rs \in [1 .. n -> Sql!Row] : Sql!Modify("insert", SqlColumns, rs)
    BY <1>10 DEF Sql!Insert
  <2>2. n \in Nat
    BY DEF SqlAssumption
  <2> QED BY <2>1, <2>2, ModifyKeeps
<1>11. CASE Sql!Update
  <2>1. PICK cols \in Updates, n \in 0 .. SqlRows :
          \E rs \in [1 .. n -> Sql!Row] : Sql!Modify("update", cols, rs)
    BY <1>11 DEF Sql!Update
  <2>2. n \in Nat
    BY DEF SqlAssumption
  <2> QED BY <2>1, <2>2, ModifyKeeps
<1>12. CASE Sql!RowFails
  <2>1. call.at \in {"rows", "commit"} /\ call' = [call EXCEPT !.at = "thrown"]
        /\ UNCHANGED <<view, stored>>
    BY <1>12 DEF Sql!RowFails, Sql!Ended, Sql!data
  <2>2. call' = [call EXCEPT !.at = "thrown"] /\ call'.at = "thrown" /\ "at" \in DOMAIN call'
    BY <1>1, <2>1
  <2> QED BY <1>2, <2>1, <2>2, EndedKeeps
<1>13. CASE Sql!Commit
  <2>1. call.at = "commit" /\ stored' = view /\ call' = [call EXCEPT !.at = "returned"] /\ UNCHANGED view
    BY <1>13 DEF Sql!Commit, Sql!Ended
  <2>2. call'.at = "returned" /\ "at" \in DOMAIN call' /\ call'.name = call.name /\ Modifies
    BY <1>1, <2>1 DEF SqlInv, Sql!Idle
  <2>3. RowSets'
    BY <1>1, <2>1 DEF RowSets
  <2> QED BY <2>2, <2>3, EndedKeeps DEF Modifies
<1>14. CASE Sql!ConnectionLost
  <2>1. view' = stored' /\ stored' \in {view, stored} /\ call' = [call EXCEPT !.at = "thrown"]
    BY <1>14 DEF Sql!ConnectionLost, Sql!Ended
  <2>2. call'.at = "thrown" /\ "at" \in DOMAIN call'
    BY <1>1, <2>1
  <2>3. RowSets'
    BY <1>1, <2>1 DEF RowSets
  <2> QED BY <2>2, <2>3, EndedKeeps
<1>15. ASSUME NEW cond \in Asked, NEW order, NEW limit \in {-1, 0, 1}, Sql!SelectRows(cond, order, limit)
       PROVE  SqlInv'
  <2>1. Sql!SelectsWhatIsAsked'
    BY <1>1, <1>15, SelectKeeps DEF RowSets
  <2>2. UNCHANGED <<view, stored>>
    BY <1>15 DEF Sql!SelectRows, Sql!data
  <2>3. call'.at \in {"thrown", "returned"} /\ "at" \in DOMAIN call'
    BY <1>15 DEF Sql!SelectRows, Sql!Begin, Sql!Called
  <2> QED BY <1>2, <2>1, <2>2, <2>3 DEF SqlInv, Sql!Idle
<1> QED BY <1>3, <1>4, <1>5, <1>6, <1>7, <1>8, <1>9, <1>10, <1>11, <1>12, <1>13, <1>14, <1>15,
           StartKeeps, ExecuteKeeps DEF Sql!Next

LEMMA SqlInvariant == Sql!Spec => []SqlInv
<1>1. Sql!Init => SqlInv
  <2> SUFFICES ASSUME Sql!Init PROVE SqlInv
    OBVIOUS
  <2>1. view = {} /\ stored = {} /\ call = [Sql!Called("none") EXCEPT !.at = "returned"]
    BY DEF Sql!Init
  <2>2. "at" \in DOMAIN call /\ call.at = "returned" /\ call.name = "none"
    BY <2>1 DEF Sql!Called
  <2>3. RowSets
    BY <2>1, EmptyRows DEF RowSets
  <2> QED BY <2>2, <2>3 DEF SqlInv, Sql!Idle, Sql!SelectsWhatIsAsked
<1>2. SqlInv /\ [Sql!Next]_(Sql!vars) => SqlInv'
  BY SqlAssumption, SqlStep
<1> QED BY <1>1, <1>2, PTL DEF Sql!Spec

\* For any finite trees of conditions, columns and values: a select gives rows that
\* satisfy the condition as it was written, however its text numbers the placeholders
\* and in whatever order its values are bound, in the order asked for, and leaves out
\* only those that come after its limit (SelectsWhatIsAsked).
THEOREM SelectsGiveWhatWasWritten == Sql!Spec => []SelectsWhatIsAsked
<1>1. SqlInv => SelectsWhatIsAsked
  BY DEF SqlInv, SelectsWhatIsAsked
<1> QED BY <1>1, SqlInvariant, PTL

\* The last row with a key is the one that is stored.
LEMMA LastRow ==
  ASSUME NEW rs \in Seq(Sql!Row), NEW key \in KeysOf(rs, Len(rs))
  PROVE  \E i \in 1 .. Len(rs) :
           /\ Sql!LastWith(rs, key) = rs[i] /\ rs[i][KeyColumn] = key
           /\ \A j \in 1 .. Len(rs) : rs[j][KeyColumn] = key => j <= i
<1> DEFINE n == Len(rs)
           same == {i \in DOMAIN rs : rs[i][KeyColumn] = key}
           below == {m \in 1 .. n : rs[n + 1 - m][KeyColumn] = key}
           Greatest(i) == \A j \in same : j <= i
<1>1. DOMAIN rs = 1 .. n /\ n \in Nat
  OBVIOUS
<1>2. PICK j \in 1 .. n : rs[j][KeyColumn] = key
  BY DEF KeysOf
<1>3. n + 1 - j \in below
  <2>1. n + 1 - j \in 1 .. n /\ n + 1 - (n + 1 - j) = j
    BY <1>1
  <2> QED BY <1>2, <2>1
<1>4. PICK m \in below : \A k \in below : ~(k < m)
  <2>1. below \subseteq 1 .. n /\ below # {}
    BY <1>3
  <2>2. below \in SUBSET Nat
    BY <2>1
  <2> HIDE DEF below
  <2> QED BY <2>1, <2>2, LeastNatural
<1>5. n + 1 - m \in same /\ Greatest(n + 1 - m)
  <2>1. n + 1 - m \in 1 .. n /\ rs[n + 1 - m][KeyColumn] = key
    BY <1>1
  <2>2. ASSUME NEW k \in same PROVE k <= n + 1 - m
    <3>1. k \in 1 .. n /\ n + 1 - k \in 1 .. n /\ n + 1 - (n + 1 - k) = k
      BY <1>1
    <3>2. n + 1 - k \in below
      BY <3>1
    <3>3. ~(n + 1 - k < m) /\ m \in 1 .. n
      BY <1>4, <3>2
    <3> QED BY <1>1, <3>1, <3>3
  <2> QED BY <1>1, <2>1, <2>2
<1> DEFINE i == CHOOSE x \in same : Greatest(x)
<1>6. i \in same /\ Greatest(i)
  <2> HIDE DEF same, Greatest
  <2> QED BY <1>5
<1>7. Sql!LastWith(rs, key) = rs[i]
  BY DEF Sql!LastWith
<1> HIDE DEF i
<1> QED BY <1>1, <1>6, <1>7

\* For any rows, columns and database: when insert_or_replace_rows or update_rows returns
\* true each row of the call is committed, the last one of a key with the values given,
\* and nothing else was changed (ReturnedIsStored), whatever the order of the columns
\* and the place of the key among them.
THEOREM ReturnedRowsAreStored == Sql!Spec => ReturnedIsStored
<1> DEFINE keys == {call.rows[i][KeyColumn] : i \in DOMAIN call.rows}
           named == Sql!Range(call.cols)
           Stored ==
             /\ ~open'
             /\ \A r \in stored' : r[KeyColumn] \in keys =>
                  \A c \in named : r[c] = Sql!LastWith(call.rows, r[KeyColumn])[c]
             /\ call.name = "insert" =>
                  \A k \in keys : \E r \in stored' : r[KeyColumn] = k
             /\ {r \in stored' : r[KeyColumn] \notin keys} = {r \in stored : r[KeyColumn] \notin keys}
             /\ call.name = "update" => \A r \in stored : \E q \in stored' :
                  \A c \in Sql!AllColumns \ (named \ {KeyColumn}) : q[c] = r[c]
<1>1. SqlInv /\ Sql!Commit /\ call.at = "commit" => Stored
  <2> SUFFICES ASSUME SqlInv, Sql!Commit, call.at = "commit" PROVE Stored
    OBVIOUS
  <2> DEFINE n == Len(call.rows)
  <2>1. stored' = view /\ open' = FALSE
    BY DEF Sql!Commit
  <2>2. /\ call.rows \in Seq(Sql!Row) /\ call.next = n + 1 /\ n \in Nat
        /\ DOMAIN call.rows = 1 .. n
    BY DEF SqlInv, Sql!Idle, Modifies
  <2>3. Made(view, stored, call.rows, n, named, call.name)
    <3>1. call.next - 1 = n
      BY <2>2
    <3> QED BY <3>1 DEF SqlInv
  <2>4. keys = KeysOf(call.rows, n)
    BY <2>2, Zenon DEF KeysOf
  <2> HIDE DEF keys, named, n
  <2>5. ASSUME NEW r \in view, r[KeyColumn] \in keys, NEW c \in named
        PROVE  r[c] = Sql!LastWith(call.rows, r[KeyColumn])[c]
    <3>1. PICK i \in 1 .. n :
            /\ Sql!LastWith(call.rows, r[KeyColumn]) = call.rows[i]
            /\ call.rows[i][KeyColumn] = r[KeyColumn]
            /\ \A j \in 1 .. n : call.rows[j][KeyColumn] = r[KeyColumn] => j <= i
      BY <2>2, <2>4, <2>5, LastRow DEF n
    <3>2. \A x \in view, m \in 1 .. n :
            (/\ call.rows[m][KeyColumn] = x[KeyColumn]
             /\ \A j \in 1 .. n : call.rows[j][KeyColumn] = x[KeyColumn] => j <= m)
            => \A d \in named : x[d] = call.rows[m][d]
      BY <2>3, Zenon DEF Made
    <3>3. r[c] = call.rows[i][c]
      BY <2>5, <3>1, <3>2
    <3> QED BY <3>1, <3>3
  <2>6. call.name = "insert" => \A k \in keys : \E r \in view : r[KeyColumn] = k
    BY <2>3, <2>4 DEF Made, KeysOf
  <2>7. {r \in view : r[KeyColumn] \notin keys} = {r \in stored : r[KeyColumn] \notin keys}
    BY <2>3, <2>4 DEF Made
  <2>8. call.name = "update" => \A r \in stored : \E q \in view :
          \A c \in Sql!AllColumns \ (named \ {KeyColumn}) : q[c] = r[c]
    BY <2>3 DEF Made
  <2> QED BY <2>1, <2>5, <2>6, <2>7, <2>8
<1>2. SqlInv => [(Sql!Commit /\ call.at = "commit") => Stored]_(Sql!vars)
  BY <1>1
<1>3. [][(Sql!Commit /\ call.at = "commit") => Stored]_(Sql!vars) <=> ReturnedIsStored
  BY DEF ReturnedIsStored, Sql!ReturnedIsStored, Stored, keys, named
<1> QED BY <1>2, <1>3, SqlInvariant, PTL

-----------------------------------------------------------------------------
(***************************************************************************)
(* The archive.  Each field has a place: where the fields before it end.   *)
(* The first pass finds the places, the second one writes the bytes of     *)
(* each field at its own, and the third one, as long as no helper sends it *)
(* astray, comes to the same places and finds the values there.  That the  *)
(* bytes of the parts of a field lie one after the other, all of the same  *)
(* length, is again the absence of a least counterexample.                 *)
(***************************************************************************)
LEMMA Multiples ==
  ASSUME NEW j \in Nat, NEW m \in Nat, NEW n \in Nat, j <= m
  PROVE  j * n \in Nat /\ m * n \in Nat /\ j * n <= m * n
<1>1. PICK d \in Nat : m = j + d
  <2>1. m - j \in Nat /\ m = j + (m - j)
    OBVIOUS
  <2> QED BY <2>1
<1>2. d * n \in Nat /\ j * n \in Nat /\ m * n = j * n + d * n
  BY <1>1
<1> QED BY <1>2

\* The m-th group of n is before those after it.
LEMMA Groups ==
  ASSUME NEW m \in Nat \ {0}, NEW n \in Nat
  PROVE  /\ (m - 1) * n \in Nat /\ m * n = (m - 1) * n + n
         /\ \A j \in 1 .. m : j # m =>
              (j - 1) * n \in Nat /\ (j - 1) * n + n <= (m - 1) * n
<1>1. m - 1 \in Nat /\ m - 1 <= m - 1
  OBVIOUS
<1>2. (m - 1) * n \in Nat
  BY <1>1, Multiples
<1>3. ASSUME NEW k \in Nat \ {0} PROVE k * n = (k - 1) * n + n
  OBVIOUS
<1>4. ASSUME NEW j \in 1 .. m, j # m
      PROVE  (j - 1) * n \in Nat /\ (j - 1) * n + n <= (m - 1) * n
  <2>1. j \in Nat \ {0} /\ j - 1 \in Nat /\ j <= m - 1 /\ j - 1 <= m - 1
    BY <1>4
  <2>2. j * n = (j - 1) * n + n
    BY <1>3, <2>1
  <2>3. j * n <= (m - 1) * n /\ (j - 1) * n \in Nat
    BY <1>1, <2>1, Multiples
  <2> QED BY <2>2, <2>3
<1> QED BY <1>2, <1>3, <1>4

LEMMA JoinedElements ==
  ASSUME NEW S, NEW a \in Seq(S), NEW b \in Seq(S)
  PROVE  /\ a \o b \in Seq(S) /\ Len(a \o b) = Len(a) + Len(b)
         /\ \A i \in 1 .. Len(a) : (a \o b)[i] = a[i]
         /\ \A i \in 1 .. Len(b) : (a \o b)[Len(a) + i] = b[i]
OBVIOUS

\* Sequences of the same length, one after the other: the elements of each are where
\* its number says.
LEMMA FlatOfSameLength ==
  ASSUME NEW S, NEW seqs \in Seq(Seq(S)), NEW n \in Nat,
         \A i \in 1 .. Len(seqs) : Len(seqs[i]) = n
  PROVE  /\ Marshal!FlattenSeq(seqs) \in Seq(S)
         /\ Len(Marshal!FlattenSeq(seqs)) = Len(seqs) * n
         /\ \A j \in 1 .. Len(seqs), i \in 1 .. n :
              Marshal!FlattenSeq(seqs)[(j - 1) * n + i] = seqs[j][i]
<1> DEFINE l == Len(seqs)
           h == CHOOSE f : IsFlat(f, seqs)
           Laid(s, m) == /\ s \in Seq(S) /\ Len(s) = m * n
                         /\ \A j \in 1 .. m, i \in 1 .. n : s[(j - 1) * n + i] = seqs[j][i]
<1>1. l \in Nat /\ \A i \in 1 .. l : seqs[i] \in Seq(S) /\ Len(seqs[i]) = n
  OBVIOUS
<1>2. CASE l = 0
  <2>1. seqs = <<>>
    BY <1>2, EmptySeq
  <2>2. Marshal!FlattenSeq(seqs) = <<>>
    BY <1>2, <2>1 DEF Marshal!FlattenSeq
  <2> QED BY <1>2, <2>2
<1>3. CASE l # 0
  <2>1. IsFlat(h, seqs)
    BY FlatExists
  <2>2. Marshal!FlattenSeq(seqs) = h[l]
    BY <1>3 DEF Marshal!FlattenSeq, IsFlat
  <2> HIDE DEF h
  <2> DEFINE T == {m \in 1 .. l : ~Laid(h[m], m)}
  <2>3. T = {}
    <3> SUFFICES ASSUME T # {} PROVE FALSE
      OBVIOUS
    <3>1. PICK m \in T : \A k \in T : ~(k < m)
      <4>1. T \in SUBSET Nat
        BY <1>1
      <4> HIDE DEF T
      <4> QED BY <4>1, LeastNatural
    <3>2. m \in 1 .. l /\ ~Laid(h[m], m) /\ m \in Nat
      BY <1>1
    <3>3. h[m] = IF m = 1 THEN seqs[m] ELSE h[m - 1] \o seqs[m]
      BY <2>1, <3>2 DEF IsFlat
    <3>4. CASE m = 1
      <4>1. h[1] = seqs[1] /\ seqs[1] \in Seq(S) /\ Len(seqs[1]) = 1 * n
        BY <1>1, <3>2, <3>3, <3>4
      <4>2. \A j \in 1 .. 1, i \in 1 .. n : j = 1 /\ (j - 1) * n + i = i
        OBVIOUS
      <4>3. Laid(h[1], 1)
        BY <4>1, <4>2
      <4> QED BY <3>2, <3>4, <4>3
    <3>5. CASE m # 1
      <4> DEFINE a == h[m - 1]
                 b == seqs[m]
      <4>1. m - 1 \in 1 .. l /\ m - 1 \notin T /\ m - 1 \in Nat
        <5>1. m - 1 \in 1 .. l /\ m - 1 \in Nat /\ m - 1 < m
          BY <1>1, <3>2, <3>5
        <5> HIDE DEF T
        <5> QED BY <3>1, <5>1
      <4>2. Laid(a, m - 1) /\ b \in Seq(S) /\ Len(b) = n /\ h[m] = a \o b
        BY <1>1, <3>2, <3>3, <3>5, <4>1
      <4> HIDE DEF a, b, T
      <4>3. /\ (m - 1) * n \in Nat /\ m * n = (m - 1) * n + n
            /\ \A j \in 1 .. m : j # m =>
                 (j - 1) * n \in Nat /\ (j - 1) * n + n <= (m - 1) * n
        <5>1. m \in Nat \ {0}
          BY <3>2
        <5> QED BY <5>1, Groups
      <4> DEFINE p == (m - 1) * n
      <4>4. /\ a \o b \in Seq(S) /\ Len(a \o b) = p + n
            /\ \A i \in 1 .. p : (a \o b)[i] = a[i]
            /\ \A i \in 1 .. n : (a \o b)[p + i] = b[i]
        <5>1. a \in Seq(S) /\ Len(a) = p /\ b \in Seq(S) /\ Len(b) = n
          BY <4>2
        <5> HIDE DEF p, Laid
        <5>2. /\ a \o b \in Seq(S) /\ Len(a \o b) = Len(a) + Len(b)
              /\ \A i \in 1 .. Len(a) : (a \o b)[i] = a[i]
              /\ \A i \in 1 .. Len(b) : (a \o b)[Len(a) + i] = b[i]
          <6>1. a \in Seq(S) /\ b \in Seq(S)
            BY <5>1
          <6>2. \A x \in Seq(S), y \in Seq(S) :
                  /\ x \o y \in Seq(S) /\ Len(x \o y) = Len(x) + Len(y)
                  /\ \A i \in 1 .. Len(x) : (x \o y)[i] = x[i]
                  /\ \A i \in 1 .. Len(y) : (x \o y)[Len(x) + i] = y[i]
            BY JoinedElements
          <6> QED BY <6>1, <6>2, Zenon
        <5> QED BY <5>1, <5>2
      <4>5. ASSUME NEW j \in 1 .. m, NEW i \in 1 .. n
            PROVE  (a \o b)[(j - 1) * n + i] = seqs[j][i]
        <5>1. CASE j = m
          BY <4>4, <5>1 DEF b
        <5>2. CASE j # m
          <6> DEFINE q == (j - 1) * n
          <6>1. j \in 1 .. m - 1
            BY <3>2, <5>2
          <6>2. p \in Nat /\ q \in Nat /\ q + n <= p
            BY <4>3, <5>2
          <6>3. a[q + i] = seqs[j][i]
            BY <4>2, <6>1
          <6> HIDE DEF p, q
          <6>4. q + i \in 1 .. p
            BY <6>2
          <6>5. (a \o b)[q + i] = a[q + i]
            BY <4>4, <6>4
          <6> QED BY <6>3, <6>5 DEF q
        <5> QED BY <5>1, <5>2
      <4>6. Laid(a \o b, m)
        BY <4>3, <4>4, <4>5
      <4>7. h[m] = a \o b
        BY <4>2
      <4> HIDE DEF Laid, h
      <4>8. Laid(h[m], m)
        BY <4>6, <4>7
      <4> QED BY <3>2, <4>8
    <3> QED BY <3>4, <3>5
  <2>4. Laid(h[l], l)
    <3> HIDE DEF Laid, h
    <3>1. l \in 1 .. l
      BY <1>1, <1>3
    <3>2. l \notin T
      BY <2>3
    <3> QED BY <3>1, <3>2
  <2> QED BY <2>2, <2>4
<1> QED BY <1>2, <1>3

Byte == (Parts \cup Nat) \X Nat \X Nat
StartOf(f) == IF Marshal!HasCount(f) THEN SizeOfSize ELSE 0

LEMMA ValueBytes ==
  ASSUME NEW x \in Parts \cup Nat, NEW n \in Nat
  PROVE  /\ Marshal!Bytes(x, n) \in Seq(Byte) /\ Len(Marshal!Bytes(x, n)) = n
         /\ \A i \in 1 .. n : Marshal!Bytes(x, n)[i] = <<x, i, n>>
<1>1. Marshal!Bytes(x, n) \in [1 .. n -> Byte]
  BY DEF Marshal!Bytes, Byte
<1>2. Marshal!Bytes(x, n) \in Seq(Byte) /\ Len(Marshal!Bytes(x, n)) = n
  BY <1>1, IsASeq
<1> QED BY <1>2 DEF Marshal!Bytes

LEMMA FieldSizes ==
  ASSUME ArchiveAssumption, NEW f \in Marshal!Field
  PROVE  /\ f.parts \in Seq(Parts) /\ Len(f.parts) \in Nat
         /\ SizeOfPart[f.kind] \in Nat \ {0} /\ SizeOfSize \in Nat \ {0}
         /\ StartOf(f) \in Nat /\ Len(f.parts) * SizeOfPart[f.kind] \in Nat
         /\ Marshal!LengthOf(f) \in Nat
         /\ Marshal!LengthOf(f) = StartOf(f) + Len(f.parts) * SizeOfPart[f.kind]
         /\ \A j \in 1 .. Len(f.parts) :
              /\ (j - 1) * SizeOfPart[f.kind] \in Nat
              /\ (j - 1) * SizeOfPart[f.kind] + SizeOfPart[f.kind]
                   <= Len(f.parts) * SizeOfPart[f.kind]
<1> DEFINE n == SizeOfPart[f.kind]
           c == Len(f.parts)
<1>1. f.parts \in Seq(Parts) /\ c \in Nat /\ n \in Nat \ {0} /\ SizeOfSize \in Nat \ {0}
  BY DEF Marshal!Field, ArchiveAssumption
<1>2. Marshal!LengthOf(f) = c * n + StartOf(f)
  BY DEF Marshal!LengthOf, Marshal!Count, StartOf
<1> HIDE DEF n, c
<1>3. StartOf(f) \in Nat /\ c * n \in Nat
  BY <1>1, Multiples DEF StartOf
<1>4. ASSUME NEW j \in 1 .. c PROVE (j - 1) * n \in Nat /\ (j - 1) * n + n <= c * n
  <2>1. j \in Nat \ {0} /\ j \in Nat /\ j <= c
    BY <1>1
  <2>2. (j - 1) * n \in Nat /\ j * n = (j - 1) * n + n
    BY <1>1, <2>1, Groups
  <2>3. j * n <= c * n
    BY <1>1, <2>1, Multiples
  <2> QED BY <2>2, <2>3
<1> QED BY <1>1, <1>2, <1>3, <1>4 DEF n, c

LEMMA FieldBytes ==
  ASSUME ArchiveAssumption, NEW f \in Marshal!Field
  PROVE  /\ Marshal!BytesOf(f) \in Seq(Byte)
         /\ Len(Marshal!BytesOf(f)) = Marshal!LengthOf(f)
         /\ Marshal!HasCount(f) => \A i \in 1 .. SizeOfSize :
              Marshal!BytesOf(f)[i] = <<Len(f.parts), i, SizeOfSize>>
         /\ \A j \in 1 .. Len(f.parts), i \in 1 .. SizeOfPart[f.kind] :
              Marshal!BytesOf(f)[StartOf(f) + ((j - 1) * SizeOfPart[f.kind] + i)]
                = <<f.parts[j], i, SizeOfPart[f.kind]>>
<1> DEFINE n == SizeOfPart[f.kind]
           c == Len(f.parts)
           head == IF Marshal!HasCount(f) THEN Marshal!Bytes(c, SizeOfSize) ELSE <<>>
           seqs == [i \in 1 .. c |-> Marshal!Bytes(f.parts[i], n)]
           tail == Marshal!FlattenSeq(seqs)
<1>1. /\ f.parts \in Seq(Parts) /\ c \in Nat /\ n \in Nat /\ SizeOfSize \in Nat
      /\ StartOf(f) \in Nat /\ c * n \in Nat /\ Marshal!LengthOf(f) = StartOf(f) + c * n
      /\ \A j \in 1 .. c : (j - 1) * n \in Nat /\ (j - 1) * n + n <= c * n
  BY FieldSizes
<1>2. Marshal!BytesOf(f) = head \o tail
  BY DEF Marshal!BytesOf, Marshal!Count
<1>3. /\ head \in Seq(Byte) /\ Len(head) = StartOf(f)
      /\ Marshal!HasCount(f) => \A i \in 1 .. SizeOfSize : head[i] = <<c, i, SizeOfSize>>
  BY <1>1, ValueBytes, EmptySeq DEF StartOf
<1>4. \A i \in 1 .. c : /\ Marshal!Bytes(f.parts[i], n) \in Seq(Byte)
                        /\ Len(Marshal!Bytes(f.parts[i], n)) = n
                        /\ \A k \in 1 .. n : Marshal!Bytes(f.parts[i], n)[k] = <<f.parts[i], k, n>>
  <2> SUFFICES ASSUME NEW i \in 1 .. c
               PROVE  /\ Marshal!Bytes(f.parts[i], n) \in Seq(Byte)
                      /\ Len(Marshal!Bytes(f.parts[i], n)) = n
                      /\ \A k \in 1 .. n : Marshal!Bytes(f.parts[i], n)[k] = <<f.parts[i], k, n>>
    OBVIOUS
  <2>1. f.parts[i] \in Parts \cup Nat
    BY <1>1
  <2> QED BY <1>1, <2>1, ValueBytes
<1>5. seqs \in [1 .. c -> Seq(Byte)] /\ seqs \in Seq(Seq(Byte)) /\ Len(seqs) = c
  <2>1. seqs \in [1 .. c -> Seq(Byte)]
    BY <1>4
  <2>2. c \in Nat
    BY <1>1
  <2> HIDE DEF seqs, c, n
  <2> QED BY <2>1, <2>2, IsASeq
<1>6. \A i \in 1 .. Len(seqs) : Len(seqs[i]) = n
  BY <1>4, <1>5
<1>7. /\ tail \in Seq(Byte) /\ Len(tail) = c * n
      /\ \A j \in 1 .. c, i \in 1 .. n : tail[(j - 1) * n + i] = seqs[j][i]
  <2> HIDE DEF seqs, n, c
  <2>1. /\ tail \in Seq(Byte) /\ Len(tail) = Len(seqs) * n
        /\ \A j \in 1 .. Len(seqs), i \in 1 .. n : tail[(j - 1) * n + i] = seqs[j][i]
    <3>1. n \in Nat
      BY <1>1
    <3>2. \A q \in Seq(Seq(Byte)) : (\A i \in 1 .. Len(q) : Len(q[i]) = n) =>
            /\ Marshal!FlattenSeq(q) \in Seq(Byte) /\ Len(Marshal!FlattenSeq(q)) = Len(q) * n
            /\ \A j \in 1 .. Len(q), i \in 1 .. n :
                 Marshal!FlattenSeq(q)[(j - 1) * n + i] = q[j][i]
      <4> SUFFICES ASSUME NEW q \in Seq(Seq(Byte)), \A i \in 1 .. Len(q) : Len(q[i]) = n
                   PROVE  /\ Marshal!FlattenSeq(q) \in Seq(Byte)
                          /\ Len(Marshal!FlattenSeq(q)) = Len(q) * n
                          /\ \A j \in 1 .. Len(q), i \in 1 .. n :
                               Marshal!FlattenSeq(q)[(j - 1) * n + i] = q[j][i]
        OBVIOUS
      <4> QED BY <3>1, FlatOfSameLength, ZenonT(60)
    <3> QED BY <1>5, <1>6, <3>2
  <2> HIDE DEF tail
  <2> QED BY <1>5, <2>1
<1>8. \A j \in 1 .. c, i \in 1 .. n : seqs[j][i] = <<f.parts[j], i, n>>
  BY <1>4
<1> HIDE DEF head, tail, seqs, n, c
<1>9. /\ head \o tail \in Seq(Byte) /\ Len(head \o tail) = StartOf(f) + c * n
      /\ \A i \in 1 .. StartOf(f) : (head \o tail)[i] = head[i]
      /\ \A i \in 1 .. c * n : (head \o tail)[StartOf(f) + i] = tail[i]
  <2>1. head \in Seq(Byte) /\ tail \in Seq(Byte)
    BY <1>3, <1>7
  <2>2. \A x \in Seq(Byte), y \in Seq(Byte) :
          /\ x \o y \in Seq(Byte) /\ Len(x \o y) = Len(x) + Len(y)
          /\ \A i \in 1 .. Len(x) : (x \o y)[i] = x[i]
          /\ \A i \in 1 .. Len(y) : (x \o y)[Len(x) + i] = y[i]
    BY JoinedElements
  <2>3. /\ head \o tail \in Seq(Byte) /\ Len(head \o tail) = Len(head) + Len(tail)
        /\ \A i \in 1 .. Len(head) : (head \o tail)[i] = head[i]
        /\ \A i \in 1 .. Len(tail) : (head \o tail)[Len(head) + i] = tail[i]
    BY <2>1, <2>2, Zenon
  <2> QED BY <1>3, <1>7, <2>3
<1>10. ASSUME Marshal!HasCount(f), NEW i \in 1 .. SizeOfSize
       PROVE  (head \o tail)[i] = <<c, i, SizeOfSize>>
  BY <1>3, <1>9, <1>10 DEF StartOf
<1>11. ASSUME NEW j \in 1 .. c, NEW i \in 1 .. n
       PROVE  (head \o tail)[StartOf(f) + ((j - 1) * n + i)] = <<f.parts[j], i, n>>
  <2> DEFINE q == (j - 1) * n
             all == c * n
  <2>1. q \in Nat /\ q + n <= all /\ all \in Nat
    BY <1>1
  <2> HIDE DEF q, all
  <2>2. q + i \in 1 .. all
    BY <1>1, <2>1
  <2>3. (head \o tail)[StartOf(f) + (q + i)] = tail[q + i]
    BY <1>9, <2>2 DEF all
  <2>4. tail[q + i] = seqs[j][i]
    BY <1>7 DEF q
  <2> QED BY <1>8, <2>3, <2>4 DEF q
<1> QED BY <1>1, <1>2, <1>9, <1>10, <1>11 DEF n, c

\* The bytes of a field lie in a buffer behind a place.
Lies(bytes, at, f) ==
  /\ at \in Nat
  /\ at + Marshal!LengthOf(f) <= Len(bytes)
  /\ \A k \in 1 .. Marshal!LengthOf(f) : bytes[at + k] = Marshal!BytesOf(f)[k]

LEMMA ValueIsRead ==
  ASSUME NEW at \in Nat, NEW n \in Nat \ {0}, NEW x, at + n <= Len(buffer),
         \A i \in 1 .. n : buffer[at + i] = <<x, i, n>>
  PROVE  Marshal!ReadAt(at, n) = x
<1>1. 1 \in 1 .. n
  OBVIOUS
<1>2. buffer[at + 1][1] = x
  BY <1>1
<1>3. \A i \in 1 .. n : buffer[at + i] = <<buffer[at + 1][1], i, n>>
  BY <1>2
<1> QED BY <1>2, <1>3 DEF Marshal!ReadAt

LEMMA CountIsRead ==
  ASSUME ArchiveAssumption, NEW f \in Marshal!Field, NEW at, Lies(buffer, at, f),
         Marshal!HasCount(f)
  PROVE  Marshal!ReadAt(at, SizeOfSize) = Len(f.parts)
<1> DEFINE c == Len(f.parts)
           all == Len(f.parts) * SizeOfPart[f.kind]
           l == Marshal!LengthOf(f)
<1>1. /\ SizeOfSize \in Nat \ {0} /\ all \in Nat /\ l = SizeOfSize + all
  BY FieldSizes DEF StartOf
<1>2. \A i \in 1 .. SizeOfSize : Marshal!BytesOf(f)[i] = <<c, i, SizeOfSize>>
  BY FieldBytes
<1>3. at \in Nat /\ at + l <= Len(buffer) /\ \A k \in 1 .. l : buffer[at + k] = Marshal!BytesOf(f)[k]
  BY DEF Lies
<1> HIDE DEF c, all, l
<1>4. at + SizeOfSize <= Len(buffer)
  <2>1. at + SizeOfSize <= at + l
    BY <1>1, <1>3
  <2>2. CASE Len(buffer) \in Int
    BY <1>1, <1>3, <2>2
  <2> QED BY <1>1, <1>3
<1>5. \A i \in 1 .. SizeOfSize : i \in 1 .. l
  BY <1>1
<1>6. \A i \in 1 .. SizeOfSize : buffer[at + i] = <<c, i, SizeOfSize>>
  BY <1>2, <1>3, <1>5
<1> QED BY <1>1, <1>3, <1>4, <1>6, ValueIsRead DEF c

LEMMA PartIsRead ==
  ASSUME ArchiveAssumption, buffer \in Seq(Byte), NEW f \in Marshal!Field, NEW at, Lies(buffer, at, f),
         NEW j \in 1 .. Len(f.parts)
  PROVE  Marshal!ReadAt(at + StartOf(f) + (j - 1) * SizeOfPart[f.kind], SizeOfPart[f.kind]) = f.parts[j]
<1> DEFINE n == SizeOfPart[f.kind]
           s == StartOf(f)
           q == (j - 1) * n
           all == Len(f.parts) * n
           l == Marshal!LengthOf(f)
           bytes == Marshal!BytesOf(f)
<1>1. /\ n \in Nat \ {0} /\ s \in Nat /\ all \in Nat /\ l = s + all
      /\ q \in Nat /\ q + n <= all
  BY FieldSizes
<1>2. \A i \in 1 .. n : bytes[s + (q + i)] = <<f.parts[j], i, n>>
  BY FieldBytes
<1>3. at \in Nat /\ at + l <= Len(buffer) /\ \A k \in 1 .. l : buffer[at + k] = bytes[k]
  BY DEF Lies
<1> HIDE DEF n, s, q, all, l, bytes
<1>4. Len(buffer) \in Nat
  OBVIOUS
<1>5. at + s + q \in Nat /\ at + s + q + n <= Len(buffer)
  BY <1>1, <1>3, <1>4
<1>6. \A i \in 1 .. n : s + (q + i) \in 1 .. l /\ at + (s + (q + i)) = at + s + q + i
  BY <1>1, <1>3
<1>7. \A i \in 1 .. n : buffer[at + s + q + i] = <<f.parts[j], i, n>>
  <2> SUFFICES ASSUME NEW i \in 1 .. n PROVE buffer[at + s + q + i] = <<f.parts[j], i, n>>
    OBVIOUS
  <2>1. buffer[at + (s + (q + i))] = bytes[s + (q + i)]
    BY <1>3, <1>6
  <2> QED BY <1>2, <1>6, <2>1
<1>8. Marshal!ReadAt(at + s + q, n) = f.parts[j]
  BY <1>1, <1>5, <1>7, ValueIsRead
<1> QED BY <1>8 DEF n, s, q

\* Where the fields lie, up to the m-th.
Offsets(off, m) ==
  /\ off \in [1 .. m -> Nat]
  /\ off[1] = 0
  /\ \A i \in 1 .. m : i # m => off[i + 1] = off[i] + Marshal!LengthOf(package[i])

Written(bytes, off, m) ==
  /\ bytes \in Seq(Byte)
  /\ Len(bytes) = off[m]
  /\ \A i \in 1 .. m - 1 : Lies(bytes, off[i], package[i])

\* The first m fields.
First(got, m) ==
  /\ got \in Seq(Marshal!Field)
  /\ Len(got) = m
  /\ \A i \in 1 .. m : got[i] = package[i]

At(off) ==
  /\ Offsets(off, IF pass = "length" THEN field ELSE Len(package) + 1)
  /\ pass \in {"length", "write"} => base = off[field] /\ unpacked = <<>>
  /\ pass = "length" => buffer = <<>>
  /\ pass # "length" => length = off[Len(package) + 1]
  /\ pass = "write" => Written(buffer, off, field)
  /\ pass \in {"read", "done"} => Written(buffer, off, Len(package) + 1)
  /\ (pass = "read" /\ Marshal!HelperIsLast) =>
       /\ First(unpacked, field - 1)
       /\ field <= Len(package) => base = off[field]

ArchiveInv ==
  /\ package \in Seq(Marshal!Field)
  /\ field \in 1 .. Len(package) + 1
  /\ pass \in {"length", "write", "read", "done"}
  /\ \E off : At(off)
  /\ (pass = "done" /\ Marshal!HelperIsLast) => unpacked = package

LEMMA CountKeeps ==
  ASSUME ArchiveAssumption, ArchiveInv, Marshal!CountField
  PROVE  ArchiveInv'
<1>1. /\ pass = "length" /\ field <= Len(package) /\ field' = field + 1
      /\ base' = base + Marshal!LengthOf(package[field])
      /\ UNCHANGED <<package, pass, length, buffer, unpacked>>
  BY DEF Marshal!CountField, Marshal!StepTo, Marshal!Now
<1>2. PICK off : At(off)
  BY DEF ArchiveInv
<1>3. package[field] \in Marshal!Field /\ Len(package) \in Nat /\ field \in Nat \ {0}
  BY <1>1 DEF ArchiveInv
<1>4. Marshal!LengthOf(package[field]) \in Nat
  BY <1>3, FieldSizes
<1>5. /\ off \in [1 .. field -> Nat] /\ off[1] = 0 /\ base = off[field] /\ base \in Nat
      /\ \A i \in 1 .. field : i # field => off[i + 1] = off[i] + Marshal!LengthOf(package[i])
  BY <1>1, <1>2, <1>3 DEF At, Offsets
<1> DEFINE further == [i \in 1 .. field + 1 |-> IF i = field + 1 THEN base' ELSE off[i]]
<1>11. PICK new : new = further
  OBVIOUS
<1>6. Offsets(new, field + 1)
  <2>1. new \in [1 .. field + 1 -> Nat]
    BY <1>1, <1>3, <1>4, <1>5, <1>11
  <2>2. new[1] = 0 /\ new[field] = base /\ new[field + 1] = base'
    BY <1>3, <1>5, <1>11
  <2>3. ASSUME NEW i \in 1 .. field + 1, i # field + 1
        PROVE  new[i + 1] = new[i] + Marshal!LengthOf(package[i])
    <3>1. CASE i = field
      BY <1>1, <2>2, <3>1
    <3>2. CASE i # field
      <4>1. i \in 1 .. field /\ i + 1 \in 1 .. field /\ i + 1 # field + 1
        BY <1>3, <2>3, <3>2
      <4>2. new[i] = off[i] /\ new[i + 1] = off[i + 1]
        BY <1>3, <1>11, <2>3, <4>1
      <4> QED BY <1>5, <3>2, <4>1, <4>2
    <3> QED BY <3>1, <3>2
  <2> QED BY <2>1, <2>2, <2>3 DEF Offsets
<1>7. new[field + 1] = base'
  BY <1>3, <1>11
<1> HIDE DEF further
<1>8. Offsets(new, field)'
  BY <1>1, <1>6 DEF Offsets, Marshal!LengthOf, Marshal!Count, Marshal!HasCount
<1>9. At(new)'
  BY <1>1, <1>2, <1>7, <1>8 DEF At
<1>10. field' \in 1 .. Len(package') + 1
  BY <1>1, <1>3
<1> QED BY <1>1, <1>9, <1>10 DEF ArchiveInv

LEMMA LiesStill ==
  ASSUME ArchiveAssumption, NEW f \in Marshal!Field, NEW at, NEW bytes \in Seq(Byte),
         NEW more \in Seq(Byte), Lies(bytes, at, f)
  PROVE  Lies(bytes \o more, at, f)
<1> DEFINE l == Marshal!LengthOf(f)
           all == bytes \o more
<1>1. l \in Nat /\ Len(bytes) \in Nat /\ Len(more) \in Nat
  BY FieldSizes
<1>2. Len(all) = Len(bytes) + Len(more) /\ \A i \in 1 .. Len(bytes) : all[i] = bytes[i]
  BY JoinedElements
<1>3. at \in Nat /\ at + l <= Len(bytes) /\ \A k \in 1 .. l : bytes[at + k] = Marshal!BytesOf(f)[k]
  BY DEF Lies
<1> HIDE DEF all, l
<1>4. at + l <= Len(all)
  BY <1>1, <1>2, <1>3
<1>5. \A k \in 1 .. l : at + k \in 1 .. Len(bytes)
  BY <1>1, <1>3
<1>6. \A k \in 1 .. l : all[at + k] = Marshal!BytesOf(f)[k]
  BY <1>2, <1>3, <1>5
<1> QED BY <1>3, <1>4, <1>6 DEF Lies, all, l

LEMMA LiesBehind ==
  ASSUME ArchiveAssumption, NEW f \in Marshal!Field, NEW bytes \in Seq(Byte)
  PROVE  /\ Lies(bytes \o Marshal!BytesOf(f), Len(bytes), f)
         /\ bytes \o Marshal!BytesOf(f) \in Seq(Byte)
         /\ Len(bytes \o Marshal!BytesOf(f)) = Len(bytes) + Marshal!LengthOf(f)
<1> DEFINE b == Marshal!BytesOf(f)
           all == bytes \o b
<1>1. b \in Seq(Byte) /\ Len(b) = Marshal!LengthOf(f) /\ Marshal!LengthOf(f) \in Nat
  BY FieldBytes, FieldSizes
<1> HIDE DEF b
<1>2. /\ all \in Seq(Byte) /\ Len(all) = Len(bytes) + Len(b)
      /\ \A i \in 1 .. Len(b) : all[Len(bytes) + i] = b[i]
  <2>1. \A x \in Seq(Byte), y \in Seq(Byte) :
          /\ x \o y \in Seq(Byte) /\ Len(x \o y) = Len(x) + Len(y)
          /\ \A i \in 1 .. Len(x) : (x \o y)[i] = x[i]
          /\ \A i \in 1 .. Len(y) : (x \o y)[Len(x) + i] = y[i]
    BY JoinedElements
  <2>2. bytes \in Seq(Byte)
    OBVIOUS
  <2> QED BY <1>1, <2>1, <2>2, Zenon
<1>3. Len(bytes) \in Nat
  OBVIOUS
<1> HIDE DEF all
<1>4. Lies(all, Len(bytes), f)
  BY <1>1, <1>2, <1>3 DEF Lies, b
<1> QED BY <1>1, <1>2, <1>4 DEF all, b

LEMMA WriteKeeps ==
  ASSUME ArchiveAssumption, ArchiveInv, Marshal!WriteField
  PROVE  ArchiveInv'
<1> DEFINE f == package[field]
<1>1. /\ pass = "write" /\ field <= Len(package) /\ field' = field + 1
      /\ buffer' = SubSeq(buffer, 1, base) \o Marshal!BytesOf(f)
      /\ base' = base + Len(Marshal!BytesOf(f))
      /\ UNCHANGED <<package, pass, length, unpacked>>
  BY DEF Marshal!WriteField, Marshal!StepTo, Marshal!Now
<1>2. PICK off : At(off)
  BY DEF ArchiveInv
<1>3. /\ f \in Marshal!Field /\ Len(package) \in Nat /\ field \in Nat \ {0}
      /\ \A i \in 1 .. field : package[i] \in Marshal!Field
  BY <1>1 DEF ArchiveInv
<1>4. /\ Offsets(off, Len(package) + 1) /\ base = off[field] /\ Written(buffer, off, field)
      /\ length = off[Len(package) + 1] /\ unpacked = <<>>
  BY <1>1, <1>2 DEF At
<1> HIDE DEF f
<1>5. /\ buffer \in Seq(Byte) /\ Len(buffer) = base
      /\ \A i \in 1 .. field - 1 : Lies(buffer, off[i], package[i])
  BY <1>4 DEF Written
<1>6. SubSeq(buffer, 1, base) = buffer
  BY <1>5
<1>7. buffer' = buffer \o Marshal!BytesOf(f)
  BY <1>1, <1>6
<1>8. /\ Lies(buffer', base, f) /\ buffer' \in Seq(Byte)
      /\ Len(buffer') = base + Marshal!LengthOf(f)
  BY <1>3, <1>5, <1>7, LiesBehind
<1>9. off[field + 1] = base + Marshal!LengthOf(f)
  <2>1. field \in 1 .. Len(package) + 1 /\ field # Len(package) + 1
    BY <1>1, <1>3
  <2>2. off[field + 1] = off[field] + Marshal!LengthOf(package[field])
    BY <1>4, <2>1 DEF Offsets
  <2> QED BY <1>4, <2>2 DEF f
<1>10. base' = off[field + 1]
  BY <1>1, <1>3, <1>9, FieldBytes
<1>11. ASSUME NEW i \in 1 .. field PROVE Lies(buffer', off[i], package[i])
  <2>1. CASE i = field
    BY <1>4, <1>8, <2>1 DEF f
  <2>2. CASE i # field
    <3>1. i \in 1 .. field - 1 /\ package[i] \in Marshal!Field
      BY <1>3, <2>2
    <3>2. Lies(buffer, off[i], package[i]) /\ Marshal!BytesOf(f) \in Seq(Byte)
      BY <1>3, <1>5, <3>1, FieldBytes
    <3> QED BY <1>5, <1>7, <3>1, <3>2, LiesStill
  <2> QED BY <2>1, <2>2
<1>12. Written(buffer', off, field + 1)
  <2>1. field + 1 - 1 = field
    BY <1>3
  <2>2. Len(buffer') = off[field + 1] /\ buffer' \in Seq(Byte)
    BY <1>8, <1>9
  <2>3. PICK next, end : next = buffer' /\ end = field + 1
    OBVIOUS
  <2>4. ASSUME NEW i \in 1 .. end - 1 PROVE Lies(next, off[i], package[i])
    <3>1. i \in 1 .. field
      BY <1>3, <2>1, <2>3
    <3> QED BY <1>11, <2>3, <3>1
  <2>5. Written(next, off, end)
    BY <2>2, <2>3, <2>4 DEF Written
  <2> QED BY <2>3, <2>5
<1>13. Written(buffer, off, field)'
  BY <1>1, <1>12 DEF Written
<1>14. Offsets(off, Len(package) + 1)'
  BY <1>1, <1>4 DEF Offsets, Marshal!LengthOf, Marshal!Count, Marshal!HasCount
<1>15. At(off)'
  BY <1>1, <1>4, <1>10, <1>13, <1>14 DEF At
<1>16. field' \in 1 .. Len(package') + 1
  BY <1>1, <1>3
<1> QED BY <1>1, <1>15, <1>16 DEF ArchiveInv

LEMMA CountOfField ==
  ASSUME ArchiveAssumption, NEW off, At(off), pass = "read", field \in 1 .. Len(package),
         package \in Seq(Marshal!Field), Marshal!HelperIsLast
  PROVE  /\ Lies(buffer, base, package[field])
         /\ Marshal!CountRead = Marshal!Count(package[field])
<1>1. Lies(buffer, base, package[field])
  <2>1. Len(package) \in Nat /\ field \in 1 .. Len(package) + 1 - 1 /\ field <= Len(package)
    OBVIOUS
  <2> QED BY <2>1 DEF At, Written
<1>2. package[field] \in Marshal!Field
  OBVIOUS
<1> QED BY <1>1, <1>2, CountIsRead DEF Marshal!CountRead, Marshal!Now, Marshal!Count

LEMMA ReadKeeps ==
  ASSUME ArchiveAssumption, ArchiveInv, Marshal!ReadField
  PROVE  ArchiveInv'
<1> DEFINE f == package[field]
           n == SizeOfPart[f.kind]
           start == IF Marshal!HasCount(f) THEN base + SizeOfSize ELSE base
           count == Marshal!CountRead
           once == [kind |-> f.kind, parts |->
                      [i \in 1 .. count |-> Marshal!ReadAt(start + (i - 1) * n, n)]]
<1>1. /\ pass = "read" /\ field <= Len(package) /\ field' = field + 1
      /\ unpacked' = Append(unpacked, once)
      /\ base' = IF f.kind = "helper" THEN base + SizeOfData ELSE start + count * n
      /\ UNCHANGED <<package, pass, length, buffer>>
  BY DEF Marshal!ReadField, Marshal!StepTo, Marshal!Now
<1>2. PICK off : At(off)
  BY DEF ArchiveInv
<1>3. /\ f \in Marshal!Field /\ Len(package) \in Nat /\ field \in Nat \ {0}
      /\ package \in Seq(Marshal!Field) /\ field \in 1 .. Len(package)
  BY <1>1 DEF ArchiveInv
<1>4. /\ Offsets(off, Len(package) + 1) /\ length = off[Len(package) + 1]
      /\ Written(buffer, off, Len(package) + 1)
  BY <1>1, <1>2 DEF At
<1>5. (Offsets(off, Len(package) + 1) /\ Written(buffer, off, Len(package) + 1))'
  BY <1>1, <1>4 DEF Offsets, Written
<1>6. field' \in 1 .. Len(package') + 1
  BY <1>1, <1>3
<1>7. ASSUME Marshal!HelperIsLast
      PROVE  /\ First(unpacked', field)
             /\ field + 1 <= Len(package) => base' = off[field + 1]
  <2>1. Lies(buffer, base, f) /\ count = Len(f.parts)
    BY <1>1, <1>2, <1>3, <1>7, CountOfField DEF Marshal!Count
  <2>2. First(unpacked, field - 1) /\ base = off[field]
    BY <1>1, <1>2, <1>7 DEF At
  <2>3. /\ f.parts \in Seq(Parts) /\ Len(f.parts) \in Nat /\ StartOf(f) \in Nat
        /\ Marshal!LengthOf(f) = StartOf(f) + Len(f.parts) * n
    BY <1>3, FieldSizes
  <2>4. start = base + StartOf(f) /\ base \in Nat
    BY <2>1 DEF StartOf, Lies
  <2>5. \A i \in 1 .. Len(f.parts) : Marshal!ReadAt(start + (i - 1) * n, n) = f.parts[i]
    <3>1. buffer \in Seq(Byte)
      BY <1>4 DEF Written
    <3> HIDE DEF f, start
    <3> QED BY <1>3, <2>1, <2>4, <3>1, PartIsRead
  <2>6. once = f
    <3>1. f.parts = [i \in 1 .. Len(f.parts) |-> f.parts[i]]
      BY <2>3
    <3>2. f = [kind |-> f.kind, parts |-> f.parts]
      BY <1>3 DEF Marshal!Field
    <3> HIDE DEF f, start, n
    <3>3. once.parts = f.parts
      BY <2>1, <2>5, <3>1
    <3> QED BY <3>2, <3>3
  <2>7. First(unpacked', field)
    <3>1. unpacked \in Seq(Marshal!Field) /\ Len(unpacked) = field - 1
          /\ \A i \in 1 .. field - 1 : unpacked[i] = package[i]
      BY <2>2 DEF First
    <3> HIDE DEF once
    <3>2. unpacked' = Append(unpacked, f)
      BY <1>1, <2>6
    <3>3. unpacked' \in Seq(Marshal!Field) /\ Len(unpacked') = field
      BY <1>3, <3>1, <3>2
    <3>4. \A i \in 1 .. field : unpacked'[i] = package[i]
      <4> SUFFICES ASSUME NEW i \in 1 .. field PROVE unpacked'[i] = package[i]
        OBVIOUS
      <4>1. CASE i = field
        BY <1>3, <3>1, <3>2, <4>1
      <4>2. CASE i # field
        <5>1. i \in 1 .. field - 1
          BY <1>3, <4>2
        <5> HIDE DEF f
        <5> QED BY <1>3, <3>1, <3>2, <5>1
      <4> QED BY <4>1, <4>2
    <3> QED BY <3>3, <3>4 DEF First
  <2>8. ASSUME field + 1 <= Len(package) PROVE base' = off[field + 1]
    <3>1. f.kind # "helper"
      BY <1>3, <1>7, <2>8 DEF Marshal!HelperIsLast
    <3>2. off[field + 1] = off[field] + Marshal!LengthOf(f)
      BY <1>3, <1>4 DEF Offsets
    <3>3. base' = start + Len(f.parts) * n
      BY <1>1, <2>1, <3>1
    <3>4. Len(f.parts) * n \in Nat
      BY <1>3, FieldSizes
    <3> DEFINE all == Len(f.parts) * n
               at == off[field]
    <3> HIDE DEF f, start, n, all
    <3> QED BY <2>2, <2>3, <2>4, <3>2, <3>3, <3>4 DEF all
  <2> QED BY <2>7, <2>8
<1>8. ASSUME Marshal!HelperIsLast' PROVE First(unpacked, field - 1)' /\ (field' <= Len(package') => base' = off[field'])
  <2>1. Marshal!HelperIsLast
    BY <1>1, <1>8 DEF Marshal!HelperIsLast
  <2>2. First(unpacked', field) /\ (field + 1 <= Len(package) => base' = off[field + 1])
    BY <1>7, <2>1
  <2>3. field' - 1 = field
    BY <1>1, <1>3
  <2> QED BY <1>1, <2>2, <2>3 DEF First
<1>9. At(off)'
  BY <1>1, <1>4, <1>5, <1>8 DEF At
<1> QED BY <1>1, <1>6, <1>9 DEF ArchiveInv

LEMMA NextPassKeeps ==
  ASSUME ArchiveAssumption, ArchiveInv, Marshal!NextPass
  PROVE  ArchiveInv'
<1> DEFINE end == Len(package) + 1
<1>1. /\ field = end /\ field' = 1 /\ base' = 0 /\ UNCHANGED <<package, buffer, unpacked>>
      /\ \/ pass = "length" /\ pass' = "write" /\ length' = base
         \/ pass = "write" /\ pass' = "read" /\ length' = length
         \/ pass = "read" /\ pass' = "done" /\ length' = length
  BY DEF Marshal!NextPass, ArchiveInv
<1>2. PICK off : At(off)
  BY DEF ArchiveInv
<1>3. package \in Seq(Marshal!Field) /\ Len(package) \in Nat /\ end \in Nat \ {0}
  BY DEF ArchiveInv
<1>4. Offsets(off, end) /\ off[1] = 0
  BY <1>1, <1>2 DEF At, Offsets
<1>5. Offsets(off, end)'
  BY <1>1, <1>4 DEF Offsets
<1>6. CASE pass = "length"
  <2>1. pass' = "write" /\ length' = base /\ base = off[end] /\ unpacked = <<>> /\ buffer = <<>>
    BY <1>1, <1>2, <1>6 DEF At
  <2>2. Written(<<>>, off, 1)
    BY <1>4, EmptySeq DEF Written
  <2>3. Written(buffer, off, field)'
    BY <1>1, <2>1, <2>2 DEF Written
  <2>4. At(off)'
    BY <1>1, <1>4, <1>5, <2>1, <2>3 DEF At
  <2> QED BY <1>1, <1>3, <2>1, <2>4 DEF ArchiveInv
<1>7. CASE pass = "write"
  <2>1. /\ pass' = "read" /\ length' = length /\ unpacked = <<>> /\ length = off[end]
        /\ Written(buffer, off, end)
    BY <1>1, <1>2, <1>7 DEF At
  <2>2. Written(buffer, off, end)'
    BY <1>1, <2>1 DEF Written
  <2>3. First(unpacked, field - 1)'
    BY <1>1, <2>1, EmptySeq DEF First
  <2>4. At(off)'
    BY <1>1, <1>4, <1>5, <2>1, <2>2, <2>3 DEF At
  <2> QED BY <1>1, <1>3, <2>1, <2>4 DEF ArchiveInv
<1>8. CASE pass = "read"
  <2>1. /\ pass' = "done" /\ length' = length /\ length = off[end]
        /\ Written(buffer, off, end)
        /\ Marshal!HelperIsLast => First(unpacked, field - 1)
    BY <1>1, <1>2, <1>8 DEF At
  <2>2. Written(buffer, off, end)'
    BY <1>1, <2>1 DEF Written
  <2>3. At(off)'
    BY <1>1, <1>5, <2>1, <2>2 DEF At
  <2>4. ASSUME Marshal!HelperIsLast' PROVE unpacked' = package'
    <3>1. Marshal!HelperIsLast
      BY <1>1, <2>4 DEF Marshal!HelperIsLast
    <3>2. /\ unpacked \in Seq(Marshal!Field) /\ Len(unpacked) = Len(package)
          /\ \A i \in 1 .. Len(unpacked) : unpacked[i] = package[i]
      BY <1>1, <1>3, <2>1, <3>1 DEF First
    <3>3. unpacked = package
      BY <1>3, <3>2, SeqEqual
    <3> QED BY <1>1, <3>3
  <2> QED BY <1>1, <1>3, <2>1, <2>3, <2>4 DEF ArchiveInv
<1> QED BY <1>1, <1>6, <1>7, <1>8

LEMMA ArchiveStep ==
  ASSUME ArchiveAssumption, ArchiveInv, [Marshal!Next]_archiveVars
  PROVE  ArchiveInv'
<1>1. CASE Marshal!CountField
  BY <1>1, CountKeeps
<1>2. CASE Marshal!WriteField
  BY <1>2, WriteKeeps
<1>3. CASE Marshal!ReadField
  BY <1>3, ReadKeeps
<1>4. CASE Marshal!NextPass
  BY <1>4, NextPassKeeps
<1>5. CASE UNCHANGED archiveVars
  <2>1. UNCHANGED <<package, pass, field, base, length, buffer, unpacked>>
    BY <1>5 DEF archiveVars
  <2>2. PICK off : At(off)
    BY DEF ArchiveInv
  <2>3. At(off)'
    BY <2>1, <2>2 DEF At, Offsets, Written, First, Marshal!HelperIsLast
  <2> QED BY <2>1, <2>3 DEF ArchiveInv, Marshal!HelperIsLast
<1> QED BY <1>1, <1>2, <1>3, <1>4, <1>5 DEF Marshal!Next

LEMMA ArchiveStarts ==
  ASSUME ArchiveAssumption, Marshal!Init
  PROVE  ArchiveInv
<1>1. /\ package \in ArchivePackages /\ pass = "length" /\ field = 1 /\ base = 0
      /\ buffer = <<>> /\ unpacked = <<>>
  BY DEF Marshal!Init
<1>2. package \in Seq(Marshal!Field) /\ Len(package) \in Nat
  BY <1>1 DEF ArchiveAssumption
<1>3. PICK off : off = [i \in 1 .. 1 |-> 0]
  OBVIOUS
<1>4. Offsets(off, 1) /\ off[1] = 0
  BY <1>3 DEF Offsets
<1>5. At(off)
  BY <1>1, <1>4 DEF At
<1> QED BY <1>1, <1>2, <1>5 DEF ArchiveInv

LEMMA PassesOfArchive ==
  ASSUME ArchiveAssumption, ArchiveInv
  PROVE  Marshal!PassesAgree
<1>1. PICK off : At(off)
  BY DEF ArchiveInv
<1>2. package \in Seq(Marshal!Field) /\ field \in 1 .. Len(package) + 1 /\ Len(package) \in Nat
  BY DEF ArchiveInv
<1>3. ASSUME pass = "write", field = Len(package) + 1
      PROVE  base = length /\ Len(buffer) = length
  BY <1>1, <1>3 DEF At, Written
<1>4. ASSUME pass = "read", field <= Len(package), Marshal!HelperIsLast
      PROVE  Marshal!CountRead = Marshal!Count(Marshal!Now)
  <2>1. field \in 1 .. Len(package)
    BY <1>2, <1>4
  <2> QED BY <1>1, <1>2, <1>4, <2>1, CountOfField DEF Marshal!Now
<1> QED BY <1>3, <1>4 DEF Marshal!PassesAgree, ArchiveInv

\* A package is written into exactly the bytes that the first pass counted for it;
\* and unless a field with a helper comes before another, the count of every field is
\* found where the third pass reads it, and what that pass has read is the package
\* that was sent: marshaler of archive.h, for packages of any length.
THEOREM PassesOfAPackageAgree == Marshal!Spec => []PassesAgree
<1>1. Marshal!Init => ArchiveInv
  BY ArchiveAssumption, ArchiveStarts
<1>2. ArchiveInv /\ [Marshal!Next]_archiveVars => ArchiveInv'
  BY ArchiveAssumption, ArchiveStep
<1>3. ArchiveInv => PassesAgree
  BY ArchiveAssumption, PassesOfArchive DEF PassesAgree
<1> QED BY <1>1, <1>2, <1>3, PTL DEF Marshal!Spec, Marshal!vars, archiveVars
=============================================================================
