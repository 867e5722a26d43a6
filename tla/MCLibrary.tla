------------------------------ MODULE MCLibrary ------------------------------
(***************************************************************************)
(* For TLC: a TCP connection and the parts of Library.  Each behaviour is  *)
(* one of one part, chosen in its first state, and leaves the others as    *)
(* they are.                                                               *)
(***************************************************************************)
EXTENDS Library, MCTcp

CONSTANT Chosen  \* the parts of a run

VARIABLE part

\* hub: two packages of ntpackage<0, ...> and one with an id of its own
MCId == [Entry |-> 0, Distance |-> 0, Flag |-> 8568956]

\* archive: packages of one to n fields
MCSizes == [number |-> 3, string |-> 1, vector |-> 2, helper |-> 2]
PartsOf(kind) ==
  CASE kind = "number" -> {<<1>>, <<1, 2>>}
    [] kind = "helper" -> {<<1, 2, 3>>}
    [] OTHER           -> {<<>>, <<1>>, <<2, 1>>}
MCFields == UNION {[kind : {k}, parts : PartsOf(k)] : k \in DOMAIN MCSizes}
MCArchived == UNION {[1 .. n -> MCFields] : n \in 1 .. 3}
Unsent == <<[kind |-> "helper", parts |-> <<1, 2, 3>>],
            [kind |-> "string", parts |-> <<>>]>>

\* array: a row in one struct, in two, and rows that have lost a column
MCNames   == {"uid", "uname", "email"}
OneStruct == <<<<"email", "uid", "uname">>>>
MCLayouts == {OneStruct, <<<<"email">>, <<"uname", "uid">>>>,
              <<<<"uid", "uname">>>>, <<<<"uname">>, <<"uid">>>>}

\* sql: a condition that nests to the left and to the right, with its operands,
\* and the key of an update in the middle and last
MCColumns == <<"ts", "id", "ev">>
MCUpdates == {<<"ts", "id", "ev">>, <<"ts", "id">>}
Is(op, col, value)    == [op |-> op, col |-> col, value |-> value]
Both(op, left, right) == [op |-> op, left |-> left, right |-> right]
Early      == Is("le", "ts", 0)
First      == Is("eq", "id", 1)
Marked     == Is("ge", "ev", 1)
NotLate    == Is("ne", "ts", 1)
Left       == Both("or", Early, First)
Right      == Both("or", Marked, NotLate)
MCAsked      == {[op |-> "true"], Both("and", Left, Right)}
MCConditions == MCAsked \cup {Early, First, Marked, NotLate, Left, Right}

\* stream: a program that starts late, and reads that garble a package, with one
\* value; owners that end early, with up to one; and all else with up to two.
MCStreamed ==
  /\ ~whole => early = {}
  /\ fromIo = "none" \/ ~whole => values = 1
  /\ early # {} => values <= 1
Unstreamed == values = 0 /\ early = {} /\ whole /\ fromIo = "none"

\* Parts that are not chosen have one initial state.
MCInit ==
  /\ part \in Chosen
  /\ Init /\ (part # "tcp" => use = PingPong)
  /\ Stream!Init /\ (IF part = "stream" THEN MCStreamed ELSE Unstreamed)
  /\ Nervure!Init /\ (part # "nervure" => acceptor = "none")
  /\ Hub!Init
  /\ Udp!Init
  /\ Marshal!Init /\ (part # "archive" => package = Unsent)
  /\ Https!Init /\ (part # "https" => answer = [status |-> "ok", body |-> 0])
  /\ Pages!Init /\ total = 0
  /\ Clustering!Init /\ (part # "kmeans" => input = <<0>> /\ picker = "even" /\ max = 1)
  /\ Compact!Init /\ (part # "array" => layout = OneStruct)
  /\ Objects!Init
  /\ Sql!Init /\ (part # "sql" => schema)

\* The pages are the matter of a run of their own.
MCNext ==
  /\ UNCHANGED <<part, pagesVars>>
  /\ \/ /\ part = "tcp" /\ Next
        /\ UNCHANGED <<streamVars, nervureVars, hubVars, udpVars, archiveVars, httpsVars,
                       kmeansVars, arrayVars, objectsVars, sqlVars>>
     \/ /\ part = "stream" /\ Stream!Next
        /\ UNCHANGED <<vars, nervureVars, hubVars, udpVars, archiveVars, httpsVars,
                       kmeansVars, arrayVars, objectsVars, sqlVars>>
     \/ /\ part = "nervure" /\ Nervure!Next
        /\ UNCHANGED <<vars, streamVars, hubVars, udpVars, archiveVars, httpsVars,
                       kmeansVars, arrayVars, objectsVars, sqlVars>>
     \/ /\ part = "hub" /\ Hub!Next
        /\ UNCHANGED <<vars, streamVars, nervureVars, udpVars, archiveVars, httpsVars,
                       kmeansVars, arrayVars, objectsVars, sqlVars>>
     \/ /\ part = "udp" /\ Udp!Next
        /\ UNCHANGED <<vars, streamVars, nervureVars, hubVars, archiveVars, httpsVars,
                       kmeansVars, arrayVars, objectsVars, sqlVars>>
     \/ /\ part = "archive" /\ Marshal!Next
        /\ UNCHANGED <<vars, streamVars, nervureVars, hubVars, udpVars, httpsVars,
                       kmeansVars, arrayVars, objectsVars, sqlVars>>
     \/ /\ part = "https" /\ Https!Next
        /\ UNCHANGED <<vars, streamVars, nervureVars, hubVars, udpVars, archiveVars,
                       kmeansVars, arrayVars, objectsVars, sqlVars>>
     \/ /\ part = "kmeans" /\ Clustering!Next
        /\ UNCHANGED <<vars, streamVars, nervureVars, hubVars, udpVars, archiveVars,
                       httpsVars, arrayVars, objectsVars, sqlVars>>
     \/ /\ part = "array" /\ Compact!Next
        /\ UNCHANGED <<vars, streamVars, nervureVars, hubVars, udpVars, archiveVars,
                       httpsVars, kmeansVars, objectsVars, sqlVars>>
     \/ /\ part = "objects" /\ Objects!Next
        /\ UNCHANGED <<vars, streamVars, nervureVars, hubVars, udpVars, archiveVars,
                       httpsVars, kmeansVars, arrayVars, sqlVars>>
     \/ /\ part = "sql" /\ Sql!Next
        /\ UNCHANGED <<vars, streamVars, nervureVars, hubVars, udpVars, archiveVars,
                       httpsVars, kmeansVars, arrayVars, objectsVars>>

allVars == <<part, vars, streamVars, nervureVars, hubVars, udpVars, archiveVars, httpsVars,
             pagesVars, kmeansVars, arrayVars, objectsVars, sqlVars>>

\* The fairness of each module; a part that is not chosen takes no step.
Of(which, action) == part = which /\ action
MCSpec ==
  /\ MCInit /\ [][MCNext]_allVars
  /\ WF_vars(Sending) /\ WF_vars(Take) /\ WF_vars(HandleSent) /\ WF_vars(Receive)
  /\ WF_streamVars(Of("stream", Stream!ToCaller)) /\ WF_streamVars(Of("stream", Stream!ToIo))
  /\ SF_streamVars(Of("stream", Stream!FromIo)) /\ WF_streamVars(Of("stream", Stream!FromStep))
  /\ SF_streamVars(Of("stream", Stream!FromDestroy))
  /\ WF_nervureVars(Of("nervure", Nervure!HandlerEnds))
  /\ SF_nervureVars(Of("nervure", Nervure!HandlePosted))
  /\ \A t \in Stoppers : WF_nervureVars(Of("nervure", Nervure!Stopping(t)))
  /\ WF_udpVars(Of("udp", Udp!HandleSent))
  /\ WF_archiveVars(Of("archive", Marshal!Next))
  /\ WF_kmeansVars(Of("kmeans", Clustering!Next))
==============================================================================
