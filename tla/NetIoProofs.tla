------------------------------ MODULE NetIoProofs ------------------------------
(***************************************************************************)
(* The stream between to_net and from_net loses, repeats and reorders      *)
(* nothing, and says that it has ended only when it has, for every number  *)
(* of values.                                                              *)
(***************************************************************************)
EXTENDS Library, SequenceTheorems, TLAPS

-----------------------------------------------------------------------------
(***************************************************************************)
(* The inductive invariant.                                                *)
(***************************************************************************)

TypeOK ==
  /\ values \in 0 .. MaxValues /\ early \in SUBSET Stream!Sides
  /\ whole \in BOOLEAN /\ failed \in BOOLEAN /\ ioSending \in BOOLEAN
  /\ ioSent \in Seq(Nat) /\ line \in Seq(Nat) /\ queue \in Seq(Nat) /\ out \in Seq(Nat)
  /\ taken \in Nat /\ taken <= Len(line)
  /\ to \in {"wait", "value", "flag", "join", "done", "undefined"}
  /\ server \in {"unset", "live", "error", "freed"}
  /\ toIo \in {"connecting", "up", "ended", "undefined"}
  /\ write \in {"none", "busy", "clear"}
  /\ from \in {"idle", "lock", "test", "wait", "asleep", "ready", "take", "eof",
               "stop", "stopping", "join", "done"}
  /\ fromIo \in {"none", "made", "run", "notify", "stopped", "returned"}
  /\ mutex \in {"free", "caller"}
  /\ client \in {"none", "live", "lost"}
  /\ running \in BOOLEAN /\ safe \in BOOLEAN
  /\ posted \in BOOLEAN /\ gotEnd \in BOOLEAN

\* The numbers k + 1, k + 2, ... at the first n places of a sequence: the values
\* are numbered in the order in which to_net consumes them.
Counts(s, k, n) == n <= Len(s) /\ \A i \in 1 .. n : s[i] = k + i

Numbered == Counts(ioSent, 0, Len(ioSent)) /\ Len(ioSent) <= values

\* The end flag is the last package, if it was sent; the others are values.
Flagged == line # <<>> /\ line[Len(line)] = Stream!End
Load    == IF Flagged THEN Len(line) - 1 ELSE Len(line)
Arrived == Len(out) + Len(queue)

\* What was handed on, what is queued by from_net, and what is on its way, on the
\* wire or still in m_oToSendPkgs, follow each other.
InOrder ==
  /\ Counts(out, 0, Len(out))
  /\ Counts(queue, Len(out), Len(queue))
  /\ Counts(line, Arrived, Load)
  /\ Arrived + Load <= Len(ioSent)

\* As long as the connection takes what is sent nothing of it is missing, and the
\* end flag comes behind all of it.
Complete ==
  /\ to \in {"wait", "value"} => ~Flagged /\ ~gotEnd
  /\ server \in {"unset", "live"} => Arrived + Load = Len(ioSent)
  /\ Flagged => Arrived + Load = Len(ioSent) /\ ~gotEnd
  /\ gotEnd => line = <<>> /\ Arrived = Len(ioSent)
  /\ Flagged \/ gotEnd => Len(ioSent) = values \/ early # {}

\* got_end_flag_mtx, and what process() knows while it holds it.
Locked ==
  /\ from \in {"test", "wait", "ready", "take"} => mutex = "caller"
  /\ from \in {"idle", "lock", "asleep", "eof", "done"} => mutex = "free"
  /\ from \in {"stop", "stopping", "join"} /\ mutex = "caller" => gotEnd
  /\ from \in {"ready", "take"} => queue # <<>> \/ gotEnd
  /\ from = "eof" => gotEnd /\ (whole => queue = <<>>)

\* from_net's io service stops only after the end flag or when its owner does not
\* wait for it; to_net's connection is lost only after that, or by the network.
Ending ==
  /\ from \in {"stop", "stopping", "join", "done"} \/ posted => gotEnd \/ early # {}
  /\ fromIo = "stopped" => posted
  /\ server \in {"error", "freed"} => failed \/ fromIo = "stopped"
  /\ toIo = "connecting" => server = "unset"
  /\ toIo = "undefined" => server = "freed"
  /\ to = "undefined" => server = "freed" \/ early # {}

StreamInv ==
  TypeOK /\ Numbered /\ (whole => InOrder /\ Complete) /\ Locked /\ Ending

-----------------------------------------------------------------------------
(***************************************************************************)
(* Sequences of consecutive numbers.                                       *)
(***************************************************************************)

LEMMA CountsMore ==
  ASSUME NEW s \in Seq(Nat), NEW k \in Nat, Counts(s, k, Len(s)),
         NEW v \in Nat, v = k + Len(s) + 1
  PROVE  /\ Append(s, v) \in Seq(Nat) /\ Len(Append(s, v)) = Len(s) + 1
         /\ Counts(Append(s, v), k, Len(s) + 1)
<1> DEFINE t == Append(s, v)
           n == Len(s)
<1>1. n \in Nat
  BY LenProperties
<1>2. /\ t \in Seq(Nat) /\ Len(t) = n + 1
      /\ \A i \in 1 .. n : t[i] = s[i]
      /\ t[n + 1] = v
  BY AppendProperties
<1>3. \A i \in 1 .. n : s[i] = k + i
  BY DEF Counts
<1> HIDE DEF t, n
<1>4. v = k + (n + 1)
  BY <1>1 DEF n
<1>5. ASSUME NEW i \in 1 .. n + 1 PROVE t[i] = k + i
  <2>1. i \in 1 .. n \/ i = n + 1
    BY <1>1
  <2> QED BY <1>2, <1>3, <1>4, <2>1
<1> QED BY <1>1, <1>2, <1>5 DEF Counts, t, n

LEMMA CountsLess ==
  ASSUME NEW s \in Seq(Nat), s # <<>>, NEW k \in Nat, NEW n \in Nat, Counts(s, k, n)
  PROVE  /\ Tail(s) \in Seq(Nat) /\ Len(Tail(s)) = Len(s) - 1
         /\ Len(s) \in Nat \ {0} /\ Head(s) = s[1] /\ Head(s) \in Nat
         /\ n > 0 => Head(s) = k + 1 /\ Counts(Tail(s), k + 1, n - 1)
         /\ Tail(s) # <<>> => Tail(s)[Len(s) - 1] = s[Len(s)]
<1> DEFINE t == Tail(s)
<1>1. Len(s) \in Nat \ {0} /\ Head(s) = s[1] /\ Head(s) \in Nat
  BY EmptySeq, HeadTailProperties
<1>2. t \in Seq(Nat) /\ Len(t) = Len(s) - 1 /\ \A i \in 1 .. Len(t) : t[i] = s[i + 1]
  BY HeadTailProperties
<1>3. n <= Len(s) /\ \A i \in 1 .. n : s[i] = k + i
  BY DEF Counts
<1> HIDE DEF t
<1>4. ASSUME n > 0 PROVE Head(s) = k + 1 /\ Counts(t, k + 1, n - 1)
  <2>1. 1 \in 1 .. n
    BY <1>4
  <2>2. ASSUME NEW i \in 1 .. n - 1 PROVE t[i] = k + 1 + i
    <3>1. i + 1 \in 1 .. n /\ i \in 1 .. Len(s) - 1
      BY <1>1, <1>3
    <3>2. t[i] = s[i + 1] /\ s[i + 1] = k + (i + 1)
      BY <3>1, <1>2, <1>3
    <3> QED BY <3>2
  <2>3. n - 1 <= Len(t)
    BY <1>1, <1>2, <1>3
  <2> QED BY <1>1, <1>3, <2>1, <2>2, <2>3 DEF Counts
<1>5. t # <<>> => t[Len(s) - 1] = s[Len(s)]
  <2>1. t # <<>> => Len(t) \in Nat \ {0}
    BY <1>2, EmptySeq
  <2> QED BY <1>1, <1>2, <2>1
<1> QED BY <1>1, <1>2, <1>4, <1>5 DEF t

LEMMA Lengths ==
  ASSUME TypeOK
  PROVE  /\ Len(ioSent) \in Nat /\ Len(line) \in Nat /\ Len(queue) \in Nat /\ Len(out) \in Nat
         /\ Load \in Nat /\ Load <= Len(line) /\ Len(line) - Load \in {0, 1}
         /\ Arrived \in Nat
         /\ Len(line) = 0 <=> line = <<>>
         /\ Len(queue) = 0 <=> queue = <<>>
<1>1. /\ Len(ioSent) \in Nat /\ Len(line) \in Nat /\ Len(queue) \in Nat /\ Len(out) \in Nat
      /\ line # <<>> => Len(line) > 0
      /\ queue # <<>> => Len(queue) > 0
  BY EmptySeq, LenProperties DEF TypeOK
<1>2. Len(<<>>) = 0
  BY EmptySeq
<1> QED BY <1>1, <1>2 DEF Load, Arrived, Flagged

-----------------------------------------------------------------------------
(***************************************************************************)
(* The steps that move a package.                                          *)
(***************************************************************************)

\* to_net queues a package while the connection is there.
LEMMA PushKeeps ==
  ASSUME StreamInv, whole, to = "wait", server = "live", NEW p \in Nat,
         line' = Append(line, p), UNCHANGED <<queue, out>>
  PROVE  /\ ~Flagged /\ Load = Len(line) /\ ~gotEnd /\ Arrived + Len(line) = Len(ioSent)
         /\ Flagged' <=> p = Stream!End
         /\ Arrived' = Arrived
         /\ p = Stream!End => Counts(line', Arrived, Len(line))
         /\ p = Len(ioSent) + 1 => Counts(line', Arrived, Len(line) + 1)
<1>1. TypeOK /\ InOrder /\ Complete
  BY DEF StreamInv
<1>2. ~Flagged /\ ~gotEnd /\ Load = Len(line) /\ Arrived + Len(line) = Len(ioSent)
  BY <1>1 DEF Complete, Load
<1>3. /\ line' \in Seq(Nat) /\ Len(line') = Len(line) + 1
      /\ \A i \in 1 .. Len(line) : line'[i] = line[i]
      /\ line'[Len(line) + 1] = p /\ line' # <<>>
  <2>1. line \in Seq(Nat)
    BY <1>1 DEF TypeOK
  <2> QED BY <2>1, AppendProperties
<1>4. Flagged' <=> p = Stream!End
  BY <1>3 DEF Flagged
<1>5. \A i \in 1 .. Len(line) : line[i] = Arrived + i
  BY <1>1, <1>2 DEF InOrder, Counts
<1>6. Counts(line', Arrived, Len(line))
  BY <1>1, <1>3, <1>5, Lengths DEF Counts
<1>7. p = Len(ioSent) + 1 => Counts(line', Arrived, Len(line) + 1)
  <2>1. p = Len(ioSent) + 1 => p = Arrived + Len(line) + 1
    BY <1>2
  <2> QED BY <1>1, <1>2, <2>1, CountsMore, Lengths DEF TypeOK, InOrder
<1> QED BY <1>2, <1>3, <1>4, <1>6, <1>7 DEF Arrived

LEMMA PushType ==
  ASSUME TypeOK, NEW p \in Nat
  PROVE  /\ Append(line, p) \in Seq(Nat) /\ Len(Append(line, p)) = Len(line) + 1
         /\ taken <= Len(line) + 1
<1>1. line \in Seq(Nat) /\ Len(line) \in Nat
  BY Lengths DEF TypeOK
<1> QED BY <1>1, AppendProperties DEF TypeOK

\* A value that comes when the connection has an error is refused; nothing is
\* sent behind it.
LEMMA ToProcessMoves ==
  ASSUME StreamInv, Stream!ToProcess
  PROVE  TypeOK' /\ Numbered' /\ (whole => InOrder' /\ Complete')
<1>1. TypeOK /\ Numbered /\ to = "wait" /\ Len(ioSent) < values
  BY DEF StreamInv, Stream!ToProcess
<1>2. /\ UNCHANGED <<values, early, whole, failed, server, toIo, taken, ioSending, write>>
      /\ UNCHANGED <<from, fromIo, client, running, safe, posted, mutex, queue, gotEnd, out>>
      /\ ioSent \in Seq(Nat) /\ Len(ioSent) \in Nat
      /\ Stream!Push(Len(ioSent) + 1, "value", "wait") /\ Stream!Consume
  BY <1>1, Lengths DEF Stream!ToProcess, Stream!fromVars, TypeOK
<1>3. CASE server \notin {"live", "error"}
  <2>1. UNCHANGED <<ioSent, line>> /\ to' = "undefined"
    BY <1>2, <1>3 DEF Stream!Push, Stream!Consume
  <2>2. TypeOK' /\ Numbered'
    BY <1>1, <1>2, <2>1 DEF TypeOK, Numbered, Counts
  <2>3. whole => InOrder' /\ Complete'
    BY <1>1, <1>2, <1>3, <2>1 DEF StreamInv, InOrder, Complete, Arrived, Load, Flagged, Counts
  <2> QED BY <2>2, <2>3
<1>4. CASE server \in {"live", "error"}
  <2>1. ioSent' = Append(ioSent, Len(ioSent) + 1) /\ to' \in {"wait", "value"}
    BY <1>2, <1>4 DEF Stream!Push, Stream!Consume
  <2>2. /\ ioSent' \in Seq(Nat) /\ Len(ioSent') = Len(ioSent) + 1
        /\ Counts(ioSent', 0, Len(ioSent'))
    <3>1. Counts(ioSent, 0, Len(ioSent)) /\ Len(ioSent) + 1 = 0 + Len(ioSent) + 1
      BY <1>1, <1>2 DEF Numbered
    <3> QED BY <1>2, <2>1, <3>1, CountsMore
  <2>3. Numbered'
    BY <1>1, <1>2, <2>2 DEF Numbered, TypeOK
  <2>4. CASE server = "error"
    <3>1. line' = line
      BY <1>2, <2>4 DEF Stream!Push
    <3>2. TypeOK'
      BY <1>1, <1>2, <2>1, <2>2, <3>1 DEF TypeOK
    <3>3. UNCHANGED <<Arrived, Load, Flagged>>
      BY <1>2, <3>1 DEF Arrived, Load, Flagged
    <3>4. ASSUME whole PROVE InOrder' /\ Complete'
      <4>1. InOrder /\ Complete
        BY <3>4 DEF StreamInv
      <4>2. InOrder'
        BY <1>1, <1>2, <2>2, <3>1, <3>3, <4>1, Lengths DEF InOrder, Counts
      <4>3. Complete'
        BY <1>1, <1>2, <2>1, <2>4, <3>1, <3>3, <4>1 DEF Complete
      <4> QED BY <4>2, <4>3
    <3> QED BY <2>3, <3>2, <3>4
  <2>5. CASE server = "live"
    <3>1. line' = Append(line, Len(ioSent) + 1) /\ Len(ioSent) + 1 \in Nat
      BY <1>2, <2>5 DEF Stream!Push
    <3>2. line' \in Seq(Nat) /\ Len(line') = Len(line) + 1 /\ taken <= Len(line) + 1
      BY <1>1, <3>1, PushType
    <3>3. TypeOK'
      BY <1>1, <1>2, <2>1, <2>2, <3>2 DEF TypeOK
    <3>4. ASSUME whole PROVE InOrder' /\ Complete'
      <4>1. InOrder /\ Complete
        BY <3>4 DEF StreamInv
      <4>2. Len(ioSent) + 1 # Stream!End
        BY <1>2 DEF Stream!End
      <4>3. /\ ~gotEnd /\ Arrived + Len(line) = Len(ioSent)
            /\ ~Flagged' /\ Arrived' = Arrived
            /\ Counts(line', Arrived, Len(line) + 1)
        BY <1>1, <1>2, <2>5, <3>1, <3>4, <4>2, PushKeeps
      <4>4. Load' = Len(line) + 1 /\ Arrived' + Load' = Len(ioSent')
        BY <1>1, <2>2, <3>2, <4>3, Lengths DEF Load
      <4>5. InOrder'
        <5>1. Counts(out', 0, Len(out')) /\ Counts(queue', Len(out'), Len(queue'))
          BY <1>2, <4>1 DEF InOrder
        <5>2. Counts(line', Arrived', Load')
          BY <4>3, <4>4
        <5>3. Arrived' + Load' <= Len(ioSent')
          BY <2>2, <4>4, LenProperties
        <5> QED BY <5>1, <5>2, <5>3 DEF InOrder
      <4>6. Complete'
        BY <1>2, <2>1, <4>3, <4>4 DEF Complete
      <4> QED BY <4>5, <4>6
    <3> QED BY <2>3, <3>3, <3>4
  <2> QED BY <1>4, <2>4, <2>5
<1> QED BY <1>3, <1>4

\* The end flag comes behind every value, or finds the connection with an error.
LEMMA ToDestroyMoves ==
  ASSUME StreamInv, Stream!ToDestroy
  PROVE  TypeOK' /\ Numbered' /\ (whole => InOrder' /\ Complete')
<1>1. TypeOK /\ Numbered /\ to = "wait" /\ (Len(ioSent) = values \/ early # {})
  BY DEF StreamInv, Stream!ToDestroy
<1>2. /\ UNCHANGED <<values, early, whole, failed, ioSent, server, toIo, taken, ioSending, write>>
      /\ UNCHANGED <<from, fromIo, client, running, safe, posted, mutex, queue, gotEnd, out>>
      /\ Stream!Push(Stream!End, "flag", "join") /\ Stream!End \in Nat
  BY DEF Stream!ToDestroy, Stream!fromVars, Stream!End
<1>3. Numbered'
  BY <1>1, <1>2 DEF Numbered, Counts
<1>4. CASE server = "live"
  <2>1. line' = Append(line, Stream!End) /\ to' = "flag"
    BY <1>2, <1>4 DEF Stream!Push
  <2>2. line' \in Seq(Nat) /\ Len(line') = Len(line) + 1 /\ taken <= Len(line) + 1
    BY <1>1, <1>2, <2>1, PushType
  <2>3. TypeOK'
    BY <1>1, <1>2, <2>1, <2>2 DEF TypeOK
  <2>4. ASSUME whole PROVE InOrder' /\ Complete'
    <3>1. InOrder /\ Complete
      BY <2>4 DEF StreamInv
    <3>2. /\ ~gotEnd /\ Arrived + Len(line) = Len(ioSent)
          /\ Flagged' /\ Arrived' = Arrived
          /\ Counts(line', Arrived, Len(line))
      BY <1>1, <1>2, <1>4, <2>1, <2>4, PushKeeps
    <3>3. Load' = Len(line)
      BY <1>1, <2>2, <3>2, Lengths DEF Load
    <3>4. InOrder'
      BY <1>2, <3>1, <3>2, <3>3, Lengths, <1>1 DEF InOrder
    <3>5. Complete'
      BY <1>1, <1>2, <2>1, <3>2, <3>3 DEF Complete
    <3> QED BY <3>4, <3>5
  <2> QED BY <1>3, <2>3, <2>4
<1>5. CASE server # "live"
  <2>1. line' = line /\ to' \in {"join", "undefined"}
    BY <1>2, <1>5 DEF Stream!Push
  <2>2. TypeOK'
    BY <1>1, <1>2, <2>1 DEF TypeOK
  <2>3. whole => InOrder' /\ Complete'
    BY <1>1, <1>2, <2>1 DEF StreamInv, InOrder, Complete, Arrived, Load, Flagged, Counts
  <2> QED BY <1>3, <2>2, <2>3
<1> QED BY <1>4, <1>5

\* The first package of the line leaves it.
LEMMA ShiftType ==
  ASSUME TypeOK, taken > 0
  PROVE  /\ line # <<>> /\ Tail(line) \in Seq(Nat) /\ Len(Tail(line)) = Len(line) - 1
         /\ Head(line) = line[1] /\ Head(line) \in Nat
         /\ taken - 1 \in Nat /\ taken - 1 <= Len(line) - 1
<1>1. line \in Seq(Nat) /\ Len(line) \in Nat /\ taken \in Nat /\ taken <= Len(line)
  BY Lengths DEF TypeOK
<1>2. line # <<>>
  BY <1>1, EmptySeq
<1> QED BY <1>1, <1>2, EmptySeq, HeadTailProperties

\* A value from the wire goes to the end of the queue.
LEMMA RecvDataMoves ==
  ASSUME StreamInv, Stream!RecvData
  PROVE  TypeOK' /\ Numbered' /\ (whole => InOrder' /\ Complete')
<1>1. /\ TypeOK /\ Numbered
      /\ line \in Seq(Nat) /\ queue \in Seq(Nat) /\ taken > 0 /\ Head(line) # Stream!End
  BY DEF StreamInv, Stream!RecvData, TypeOK
<1>2. /\ UNCHANGED <<values, early, whole, failed, ioSent, to, server, toIo, ioSending, write>>
      /\ UNCHANGED <<from, client, running, safe, posted, mutex, gotEnd, out>>
      /\ queue' = Append(queue, Head(line)) /\ line' = Tail(line) /\ taken' = taken - 1
      /\ fromIo' = "notify"
  BY DEF Stream!RecvData, Stream!Enqueue, Stream!toVars
<1>3. /\ line # <<>> /\ line' \in Seq(Nat) /\ Len(line') = Len(line) - 1
      /\ Head(line) = line[1] /\ Head(line) \in Nat
      /\ taken' \in Nat /\ taken' <= Len(line')
  BY <1>1, <1>2, ShiftType
<1>4. queue' \in Seq(Nat)
  BY <1>1, <1>2, <1>3, AppendProperties
<1>5. TypeOK' /\ Numbered'
  BY <1>1, <1>2, <1>3, <1>4 DEF TypeOK, Numbered, Counts
<1>6. ASSUME whole PROVE InOrder' /\ Complete'
  <2>1. InOrder /\ Complete
    BY <1>6 DEF StreamInv
  <2>2. /\ Load > 0 => Head(line) = Arrived + 1 /\ Counts(Tail(line), Arrived + 1, Load - 1)
        /\ Tail(line) # <<>> => Tail(line)[Len(line) - 1] = line[Len(line)]
    BY <1>1, <1>3, <2>1, CountsLess, Lengths DEF InOrder
  <2>3. Load > 0
    BY <1>1, <1>3, Lengths DEF Load, Flagged
  <2>4. Head(line) = Len(out) + Len(queue) + 1 /\ Counts(queue, Len(out), Len(queue))
    BY <1>1, <2>1, <2>2, <2>3 DEF Arrived, InOrder
  <2>5. Len(queue') = Len(queue) + 1 /\ Counts(queue', Len(out), Len(queue) + 1)
    BY <1>1, <1>2, <1>3, <2>4, CountsMore, Lengths
  <2>6. Arrived' = Arrived + 1
    BY <1>1, <1>2, <2>5, Lengths DEF Arrived
  <2>7. (Flagged' <=> Flagged) /\ Load' = Load - 1
    <3>1. Flagged => Len(line) > 1
      BY <1>1, <1>3, Lengths DEF Flagged
    <3>2. line' # <<>> <=> Len(line) > 1
      <4>1. Len(<<>>) = 0 /\ \A s \in Seq(Nat) : s # <<>> => Len(s) \in Nat \ {0}
        BY EmptySeq
      <4> QED BY <1>1, <1>3, <4>1
    <3>3. Flagged' <=> Flagged
      BY <1>1, <1>2, <1>3, <2>2, <3>1, <3>2 DEF Flagged
    <3> QED BY <1>1, <1>2, <1>3, <3>3, Lengths DEF Load
  <2>8. InOrder'
    <3>1. Counts(line', Arrived', Load') /\ Counts(queue', Len(out'), Len(queue'))
      BY <1>2, <2>2, <2>3, <2>5, <2>6, <2>7
    <3>2. Arrived' + Load' = Arrived + Load
      BY <1>1, <2>6, <2>7, Lengths
    <3> QED BY <1>1, <1>2, <2>1, <3>1, <3>2 DEF InOrder
  <2>9. Complete'
    <3>1. ~gotEnd
      BY <1>3, <2>1 DEF Complete
    <3>2. Arrived' + Load' = Arrived + Load
      BY <1>1, <2>6, <2>7, Lengths
    <3> QED BY <1>2, <2>1, <2>7, <3>1, <3>2 DEF Complete
  <2> QED BY <2>8, <2>9
<1> QED BY <1>5, <1>6

\* The end flag is handled when nothing is left on the wire.
LEMMA RecvEndMoves ==
  ASSUME StreamInv, Stream!RecvEnd
  PROVE  TypeOK' /\ Numbered' /\ (whole => InOrder' /\ Complete')
<1>1. TypeOK /\ Numbered /\ line \in Seq(Nat) /\ taken > 0 /\ Head(line) = Stream!End
  BY DEF StreamInv, Stream!RecvEnd, TypeOK
<1>2. /\ UNCHANGED <<values, early, whole, failed, ioSent, to, server, toIo, ioSending, write>>
      /\ UNCHANGED <<fromIo, client, running, safe, posted, mutex, queue, out>>
      /\ gotEnd' = TRUE /\ line' = Tail(line) /\ taken' = taken - 1 /\ from' = Stream!Woken
  BY DEF Stream!RecvEnd, Stream!toVars
<1>3. /\ line # <<>> /\ line' \in Seq(Nat) /\ Len(line') = Len(line) - 1
      /\ Head(line) = line[1]
      /\ taken' \in Nat /\ taken' <= Len(line')
  BY <1>1, <1>2, ShiftType
<1>4. TypeOK' /\ Numbered'
  BY <1>1, <1>2, <1>3 DEF TypeOK, Numbered, Counts, Stream!Woken
<1>5. ASSUME whole PROVE InOrder' /\ Complete'
  <2>1. InOrder /\ Complete
    BY <1>5 DEF StreamInv
  <2>2. Load > 0 => Head(line) = Arrived + 1
    BY <1>1, <1>3, <2>1, CountsLess, Lengths DEF InOrder
  <2>3. Load = 0 /\ Flagged /\ Len(line) = 1
    BY <1>1, <1>3, <2>2, Lengths DEF Load, Stream!End
  <2>4. line' = <<>>
    BY <1>3, <2>3, EmptySeq
  <2>5. Arrived = Len(ioSent) /\ to \notin {"wait", "value"} /\ (Len(ioSent) = values \/ early # {})
    BY <1>1, <2>1, <2>3, Lengths DEF Complete
  <2>6. UNCHANGED Arrived /\ Load' = 0 /\ ~Flagged'
    BY <1>2, <2>4, EmptySeq DEF Arrived, Load, Flagged
  <2>7. InOrder'
    BY <1>1, <1>2, <2>1, <2>4, <2>5, <2>6, EmptySeq, Lengths DEF InOrder, Counts
  <2>8. Complete'
    BY <1>1, <1>2, <2>4, <2>5, <2>6, Lengths DEF Complete
  <2> QED BY <2>7, <2>8
<1> QED BY <1>4, <1>5

\* process() hands on the first value of the queue.
LEMMA TakeMoves ==
  ASSUME StreamInv, Stream!Take
  PROVE  TypeOK' /\ Numbered' /\ (whole => InOrder' /\ Complete')
<1>1. /\ TypeOK /\ Numbered
      /\ out \in Seq(Nat) /\ queue \in Seq(Nat)
  BY DEF StreamInv, TypeOK
<1>2. /\ UNCHANGED <<values, early, whole, failed, ioSent, to, server, toIo, ioSending, write>>
      /\ UNCHANGED <<line, taken, fromIo, client, running, safe, posted, gotEnd>>
      /\ mutex' = "free"
  BY DEF Stream!Take, Stream!toVars, Stream!lineVars
<1>3. CASE from' = "eof" /\ UNCHANGED <<queue, out>>
  <2>1. TypeOK' /\ Numbered'
    BY <1>1, <1>2, <1>3 DEF TypeOK, Numbered, Counts
  <2>2. whole => InOrder' /\ Complete'
    BY <1>1, <1>2, <1>3 DEF StreamInv, InOrder, Complete, Arrived, Load, Flagged, Counts
  <2> QED BY <2>1, <2>2
<1>4. CASE Stream!Dequeue /\ from' = "idle"
  <2>1. queue # <<>> /\ out' = Append(out, Head(queue)) /\ queue' = Tail(queue)
    BY <1>4 DEF Stream!Dequeue
  <2>2. /\ queue' \in Seq(Nat) /\ Len(queue') = Len(queue) - 1
        /\ Len(queue) > 0 /\ Head(queue) \in Nat
        /\ out' \in Seq(Nat) /\ Len(out') = Len(out) + 1
    BY <1>1, <2>1, EmptySeq, HeadTailProperties, AppendProperties
  <2>3. TypeOK' /\ Numbered'
    BY <1>1, <1>2, <1>4, <2>2 DEF TypeOK, Numbered, Counts
  <2>4. ASSUME whole PROVE InOrder' /\ Complete'
    <3>1. InOrder /\ Complete
      BY <2>4 DEF StreamInv
    <3>2. Head(queue) = Len(out) + 1 /\ Counts(queue', Len(out) + 1, Len(queue) - 1)
      BY <1>1, <2>1, <2>2, <3>1, CountsLess, Lengths DEF InOrder
    <3>3. Head(queue) = 0 + Len(out) + 1 /\ Counts(out, 0, Len(out))
      BY <1>1, <3>1, <3>2, Lengths DEF InOrder
    <3>4. Counts(out', 0, Len(out) + 1)
      BY <1>1, <2>1, <2>2, <3>3, CountsMore
    <3>5. Arrived' = Arrived /\ UNCHANGED <<Load, Flagged>>
      BY <1>1, <1>2, <2>2, Lengths DEF Arrived, Load, Flagged
    <3>6. InOrder'
      BY <1>1, <1>2, <2>2, <3>1, <3>2, <3>4, <3>5 DEF InOrder
    <3>7. Complete'
      BY <1>1, <1>2, <3>1, <3>5 DEF Complete
    <3> QED BY <3>6, <3>7
  <2> QED BY <2>3, <2>4
<1> QED BY <1>3, <1>4 DEF Stream!Take

\* A read cut inside a package says nothing of a stream whose reads are not.
LEMMA MisreadMoves ==
  ASSUME StreamInv, Stream!Misread
  PROVE  TypeOK' /\ Numbered' /\ ~whole
<1>1. /\ TypeOK /\ Numbered /\ ~whole /\ line \in Seq(Nat) /\ Len(line) \in Nat
      /\ taken \in Nat /\ taken > 1 /\ taken <= Len(line)
  BY Lengths DEF StreamInv, Stream!Misread, TypeOK
<1>2. PICK p \in {<<>>} \cup {<<v>> : v \in 0 .. MaxValues} :
        /\ line' = <<Head(line)>> \o p \o Tail(Tail(line))
        /\ taken' = taken - 1 + Len(p)
  BY DEF Stream!Misread
<1>3. /\ UNCHANGED <<values, early, whole, failed, ioSent, to, server, toIo, ioSending, write>>
      /\ UNCHANGED <<from, fromIo, client, running, safe, posted, mutex, queue, gotEnd, out>>
  BY DEF Stream!Misread, Stream!toVars, Stream!fromVars
<1>4. p \in Seq(Nat) /\ Len(p) \in Nat
  <2>1. CASE p = <<>>
    BY <2>1, EmptySeq
  <2>2. CASE \E v \in Nat : p = <<v>>
    BY <2>2
  <2> QED BY <1>2, <2>1, <2>2
<1>5. /\ line # <<>> /\ Head(line) \in Nat
      /\ Tail(line) \in Seq(Nat) /\ Len(Tail(line)) = Len(line) - 1
  BY <1>1, EmptySeq, HeadTailProperties
<1>6. Tail(line) # <<>>
  <2> DEFINE t == Tail(line)
  <2>1. Len(t) > 0
    BY <1>1, <1>5
  <2> HIDE DEF t
  <2>2. t # <<>>
    BY <2>1, EmptySeq
  <2> QED BY <2>2 DEF t
<1>7. Tail(Tail(line)) \in Seq(Nat) /\ Len(Tail(Tail(line))) = Len(line) - 2
  BY <1>1, <1>5, <1>6, HeadTailProperties
<1>8. <<Head(line)>> \in Seq(Nat) /\ Len(<<Head(line)>>) = 1
  BY <1>5
<1>9. <<Head(line)>> \o p \in Seq(Nat) /\ Len(<<Head(line)>> \o p) = 1 + Len(p)
  BY <1>4, <1>8, ConcatProperties
<1>10. line' \in Seq(Nat) /\ Len(line') = 1 + Len(p) + (Len(line) - 2)
  <2> DEFINE s == <<Head(line)>> \o p
             t == Tail(Tail(line))
  <2>1. s \in Seq(Nat) /\ t \in Seq(Nat) /\ line' = s \o t
    BY <1>2, <1>7, <1>9
  <2>2. Len(s) = 1 + Len(p) /\ Len(t) = Len(line) - 2
    BY <1>7, <1>9
  <2> HIDE DEF s, t
  <2>3. s \o t \in Seq(Nat) /\ Len(s \o t) = Len(s) + Len(t)
    BY <2>1, ConcatProperties
  <2> QED BY <2>1, <2>2, <2>3
<1>11. taken' \in Nat /\ taken' <= Len(line')
  <2> DEFINE n == Len(p)
             m == Len(line)
             k == Len(line')
  <2>1. /\ taken' = taken - 1 + n /\ k = 1 + n + (m - 2)
        /\ n \in Nat /\ m \in Nat /\ taken \in Nat /\ taken > 1 /\ taken <= m
    BY <1>1, <1>2, <1>4, <1>10
  <2> HIDE DEF n, m, k
  <2>2. taken' \in Nat /\ taken' <= k
    BY <2>1
  <2> QED BY <2>2 DEF k
<1> QED BY <1>1, <1>3, <1>10, <1>11 DEF TypeOK, Numbered, Counts

-----------------------------------------------------------------------------
(***************************************************************************)
(* The steps that move none.                                               *)
(***************************************************************************)

Still ==
  /\ UNCHANGED <<values, early, whole, ioSent, line, queue, out, gotEnd>>
  /\ to' \in {"wait", "value"} => to \in {"wait", "value"}
  /\ server' \in {"unset", "live"} => server \in {"unset", "live"}

ToSteps    == Stream!TestSending \/ Stream!ToJoin
ToIoSteps  == Stream!Connect \/ Stream!HandleSent \/ Stream!Clear \/ Stream!ToError \/ Stream!ToErase
IoSteps    == Stream!Bind \/ Stream!Run \/ Stream!Accept \/ Stream!NotifyData \/ Stream!InternalStop
LossSteps  == Stream!Fail \/ Stream!FromLost \/ Stream!Deaf
CallSteps  == Stream!FromProcess \/ Stream!Lock \/ Stream!Test \/ Stream!Wait \/ Stream!SpuriousWake \/ Stream!Ready \/ Stream!FromAgain
StopSteps  == Stream!FromDestroy \/ Stream!Stop \/ Stream!Stopping \/ Stream!FromJoin
QuietSteps == ToSteps \/ ToIoSteps \/ IoSteps \/ LossSteps \/ CallSteps \/ StopSteps

LEMMA StartSendType ==
  ASSUME TypeOK, NEW nothing \in {"none", "clear"}, Stream!StartSend(nothing)
  PROVE  taken' \in Nat /\ taken' <= Len(line) /\ write' \in {"busy", nothing}
BY Lengths DEF TypeOK, Stream!StartSend

LEMMA QuietIsStill ==
  ASSUME TypeOK, Ending, QuietSteps
  PROVE  Still /\ TypeOK'
<1>1. CASE ToSteps
  <2>1. /\ UNCHANGED <<values, early, whole, failed, ioSent, server, toIo, line>>
        /\ UNCHANGED <<from, fromIo, client, running, safe, posted, mutex, queue, gotEnd, out>>
        /\ to' \in {"wait", "join", "done", "undefined"}
        /\ to' = "wait" => to = "value"
    BY <1>1 DEF ToSteps, Stream!TestSending, Stream!ToJoin, Stream!lineVars, Stream!fromVars
  <2>2. Still
    BY <2>1 DEF Still
  <2>3. /\ taken' \in Nat /\ taken' <= Len(line) /\ write' \in {"none", "busy", "clear"}
        /\ ioSending' \in BOOLEAN
    <3>1. CASE UNCHANGED <<taken, ioSending, write>>
      BY <3>1 DEF TypeOK
    <3>2. CASE Stream!StartSend("none") /\ ioSending' = (write' = "busy")
      BY <3>2, StartSendType
    <3> QED BY <1>1, <3>1, <3>2 DEF ToSteps, Stream!TestSending, Stream!ToJoin, Stream!lineVars
  <2> QED BY <2>1, <2>2, <2>3 DEF TypeOK
<1>2. CASE ToIoSteps
  <2>1. /\ UNCHANGED <<values, early, whole, ioSent, to, line>>
        /\ UNCHANGED <<from, fromIo, client, running, safe, posted, mutex, queue, gotEnd, out>>
    BY <1>2 DEF ToIoSteps, Stream!Connect, Stream!HandleSent, Stream!Clear, Stream!ToError, Stream!ToErase, Stream!lineVars,
                Stream!fromVars
  <2>4. /\ server' \in {"live", "error", "freed", server}
        /\ server' = "live" => server \in {"unset", "live"}
        /\ server' = "unset" => server = "unset"
        /\ toIo' \in {"up", "ended", "undefined", toIo}
    BY <1>2 DEF Ending, ToIoSteps, Stream!Connect, Stream!HandleSent, Stream!Clear, Stream!ToError, Stream!ToErase
  <2>2. Still
    BY <2>1, <2>4 DEF Still
  <2>3. /\ taken' \in Nat /\ taken' <= Len(line) /\ write' \in {"none", "busy", "clear"}
        /\ ioSending' \in BOOLEAN /\ failed' \in BOOLEAN
    <3>1. CASE Stream!HandleSent
      BY <3>1, StartSendType DEF TypeOK, Stream!HandleSent
    <3>2. CASE ~Stream!HandleSent
      BY <1>2, <3>2 DEF TypeOK, ToIoSteps, Stream!Connect, Stream!Clear, Stream!ToError, Stream!ToErase, Stream!lineVars
    <3> QED BY <3>1, <3>2
  <2> QED BY <2>1, <2>2, <2>3, <2>4 DEF TypeOK
<1>3. CASE IoSteps \/ LossSteps
  <2>1. /\ UNCHANGED <<values, early, whole, ioSent, to, server, toIo, ioSending, write>>
        /\ UNCHANGED <<line, taken, running, posted, mutex, queue, gotEnd, out>>
        /\ from' \in {from, "lock"}
        /\ fromIo' \in {fromIo, "made", "run", "stopped", "returned"}
    BY <1>3 DEF IoSteps, LossSteps, Stream!Bind, Stream!Run, Stream!Accept, Stream!NotifyData, Stream!InternalStop, Stream!Woken,
                Stream!Fail, Stream!FromLost, Stream!Deaf, Stream!fromVars, Stream!toVars, Stream!lineVars
  <2>2. Still
    BY <2>1 DEF Still
  <2>3. client' \in {client, "live", "lost"} /\ safe' \in BOOLEAN /\ failed' \in BOOLEAN
    BY <1>3 DEF TypeOK, IoSteps, LossSteps, Stream!Bind, Stream!Run, Stream!Accept, Stream!NotifyData, Stream!InternalStop,
                Stream!Fail, Stream!FromLost, Stream!Deaf, Stream!fromVars
  <2> QED BY <2>1, <2>2, <2>3 DEF TypeOK
<1>4. CASE CallSteps
  <2>1. /\ UNCHANGED <<values, early, whole, ioSent, to, server, toIo, ioSending, write>>
        /\ UNCHANGED <<line, taken, failed, fromIo, client, running, safe, posted, queue, gotEnd, out>>
        /\ from' \in {"idle", "lock", "test", "wait", "asleep", "ready", "take", "stop"}
        /\ mutex' \in {mutex, "free", "caller"}
    BY <1>4 DEF CallSteps, Stream!FromProcess, Stream!Lock, Stream!Test, Stream!Wait, Stream!SpuriousWake, Stream!Ready,
                Stream!FromAgain, Stream!Caller, Stream!toVars, Stream!lineVars
  <2> QED BY <2>1 DEF TypeOK, Still
<1>5. CASE StopSteps
  <2>1. /\ UNCHANGED <<values, early, whole, ioSent, to, server, toIo, ioSending, write>>
        /\ UNCHANGED <<line, taken, failed, fromIo, client, safe, mutex, queue, gotEnd, out>>
        /\ from' \in {"stop", "done", "join", "stopping", "take"}
        /\ running' \in BOOLEAN /\ posted' \in BOOLEAN
    BY <1>5 DEF TypeOK, StopSteps, Stream!FromDestroy, Stream!Stop, Stream!Stopping, Stream!FromJoin, Stream!Caller,
                Stream!toVars, Stream!lineVars
  <2> QED BY <2>1 DEF TypeOK, Still
<1> QED BY <1>1, <1>2, <1>3, <1>4, <1>5 DEF QuietSteps

LEMMA StillKeeps ==
  ASSUME TypeOK, InOrder, Complete, Still
  PROVE  InOrder' /\ Complete'
<1>1. UNCHANGED <<Arrived, Load, Flagged>>
  BY DEF Still, Arrived, Load, Flagged
<1>2. InOrder'
  BY <1>1 DEF Still, InOrder
<1>3. Complete'
  BY <1>1 DEF Still, Complete, TypeOK
<1> QED BY <1>2, <1>3

LEMMA NextSteps ==
  Stream!Next <=> \/ Stream!ToProcess \/ Stream!ToDestroy \/ Stream!RecvData \/ Stream!RecvEnd \/ Stream!Take
                  \/ Stream!Misread \/ QuietSteps
BY DEF Stream!Next, Stream!ToCaller, Stream!ToIo, Stream!FromIo, Stream!FromStep, Stream!Network,
       QuietSteps, ToSteps, ToIoSteps, IoSteps, LossSteps, CallSteps, StopSteps

-----------------------------------------------------------------------------
(***************************************************************************)
(* The mutex and the end of the two threads.                               *)
(***************************************************************************)

LEMMA LockedStep ==
  ASSUME StreamInv, Stream!Next
  PROVE  Locked'
<1>1. TypeOK /\ Locked /\ (whole => Complete)
  BY DEF StreamInv
<1>2. CASE Stream!ToProcess \/ Stream!ToDestroy \/ Stream!Misread \/ ToSteps \/ ToIoSteps
  <2>1. UNCHANGED <<from, mutex, gotEnd, queue, whole>>
    BY <1>2 DEF Stream!ToProcess, Stream!ToDestroy, Stream!Misread, ToSteps, Stream!TestSending, Stream!ToJoin, ToIoSteps,
                Stream!Connect, Stream!HandleSent, Stream!Clear, Stream!ToError, Stream!ToErase, Stream!toVars, Stream!fromVars
  <2> QED BY <1>1, <2>1 DEF Locked
<1>3. CASE IoSteps \/ LossSteps
  <2>1. /\ UNCHANGED <<mutex, gotEnd, queue, whole>>
        /\ from' = from \/ (from = "asleep" /\ from' = "lock")
    BY <1>3 DEF IoSteps, LossSteps, Stream!Bind, Stream!Run, Stream!Accept, Stream!NotifyData, Stream!InternalStop, Stream!Woken,
                Stream!Fail, Stream!FromLost, Stream!Deaf, Stream!toVars, Stream!fromVars
  <2> QED BY <1>1, <2>1 DEF Locked
<1>4. CASE Stream!RecvData
  <2>1. UNCHANGED <<from, mutex, gotEnd, whole>> /\ queue' = Append(queue, Head(line)) /\ taken > 0
    BY <1>4 DEF Stream!RecvData, Stream!Enqueue, Stream!toVars
  <2>2. line # <<>> /\ queue' # <<>>
    <3>1. queue \in Seq(Nat) /\ line # <<>> /\ Head(line) \in Nat
      BY <1>1, <2>1, ShiftType DEF TypeOK
    <3> QED BY <2>1, <3>1, AppendProperties
  <2>3. whole => ~gotEnd
    BY <1>1, <2>2 DEF Complete
  <2> QED BY <1>1, <2>1, <2>2, <2>3 DEF Locked
<1>5. CASE Stream!RecvEnd
  BY <1>1, <1>5 DEF TypeOK, Locked, Stream!RecvEnd, Stream!Woken, Stream!toVars
<1>6. CASE Stream!Take
  BY <1>1, <1>6 DEF TypeOK, Locked, Stream!Take, Stream!Dequeue, Stream!toVars
<1>7. CASE CallSteps
  BY <1>1, <1>7 DEF TypeOK, Locked, CallSteps, Stream!FromProcess, Stream!Lock, Stream!Test, Stream!Wait, Stream!SpuriousWake, Stream!Ready,
                    Stream!FromAgain, Stream!Caller, Stream!toVars
<1>8. CASE StopSteps
  BY <1>1, <1>8 DEF TypeOK, Locked, StopSteps, Stream!FromDestroy, Stream!Stop, Stream!Stopping, Stream!FromJoin, Stream!Caller, Stream!toVars
<1> QED BY <1>2, <1>3, <1>4, <1>5, <1>6, <1>7, <1>8, NextSteps DEF QuietSteps

\* What a step leaves of the excuses stays one.
LEMMA EndingStep ==
  ASSUME StreamInv, Stream!Next
  PROVE  Ending'
<1>1. TypeOK /\ Locked /\ Ending
  BY DEF StreamInv
<1>2. CASE Stream!ToProcess \/ Stream!ToDestroy
  <2>1. UNCHANGED <<from, fromIo, posted, gotEnd, early, failed, server, toIo>> /\ to = "wait"
    BY <1>2 DEF Stream!ToProcess, Stream!ToDestroy, Stream!fromVars
  <2>2. to' = "undefined" => server = "freed" \/ early # {}
    BY <1>1, <1>2 DEF Stream!ToProcess, Stream!ToDestroy, Stream!Push, TypeOK
  <2> QED BY <1>1, <2>1, <2>2 DEF Ending
<1>3. CASE ToSteps
  <2>1. UNCHANGED <<from, fromIo, posted, gotEnd, early, failed, server, toIo>>
    BY <1>3 DEF ToSteps, Stream!TestSending, Stream!ToJoin, Stream!fromVars
  <2>2. to' = "undefined" => server = "freed" \/ to = "undefined"
    BY <1>3 DEF ToSteps, Stream!TestSending, Stream!ToJoin
  <2> QED BY <1>1, <2>1, <2>2 DEF Ending
<1>4. CASE ToIoSteps
  <2>1. UNCHANGED <<from, fromIo, posted, gotEnd, early, to>>
    BY <1>4 DEF ToIoSteps, Stream!Connect, Stream!HandleSent, Stream!Clear, Stream!ToError, Stream!ToErase, Stream!fromVars
  <2>2. failed => failed'
    BY <1>4 DEF ToIoSteps, Stream!Connect, Stream!HandleSent, Stream!Clear, Stream!ToError, Stream!ToErase
  <2>3. server' \in {"error", "freed"} => failed' \/ fromIo = "stopped"
    BY <1>1, <1>4, <2>2 DEF Ending, ToIoSteps, Stream!Connect, Stream!HandleSent, Stream!Clear, Stream!ToError, Stream!ToErase
  <2>4. /\ toIo' = "connecting" => server' = "unset"
        /\ toIo' = "undefined" => server' = "freed"
        /\ server = "freed" => server' = "freed"
    BY <1>1, <1>4 DEF Ending, ToIoSteps, Stream!Connect, Stream!HandleSent, Stream!Clear, Stream!ToError, Stream!ToErase
  <2> QED BY <1>1, <2>1, <2>3, <2>4 DEF Ending
<1>5. CASE IoSteps \/ LossSteps \/ Stream!RecvData \/ Stream!RecvEnd \/ Stream!Take \/ Stream!Misread
  <2>1. /\ UNCHANGED <<early, server, toIo, to, posted>>
        /\ gotEnd => gotEnd'
        /\ failed => failed'
        /\ fromIo = "stopped" => fromIo' = "stopped"
        /\ fromIo' = "stopped" => fromIo = "stopped" \/ posted
        /\ from' \in {from, "lock", "idle", "eof"}
    <3>1. CASE IoSteps
      BY <3>1 DEF IoSteps, Stream!Bind, Stream!Run, Stream!Accept, Stream!NotifyData, Stream!InternalStop,
                  Stream!Io, Stream!Woken, Stream!toVars, Stream!fromVars
    <3>2. CASE LossSteps
      BY <3>2 DEF LossSteps, Stream!Fail, Stream!FromLost, Stream!Deaf, Stream!Io, Stream!toVars, Stream!fromVars
    <3>3. CASE Stream!RecvData \/ Stream!RecvEnd \/ Stream!Take \/ Stream!Misread
      BY <1>1, <3>3 DEF TypeOK, Stream!RecvData, Stream!RecvEnd, Stream!Take, Stream!Dequeue, Stream!Misread,
                  Stream!Io, Stream!Woken, Stream!toVars, Stream!fromVars
    <3> QED BY <1>5, <3>1, <3>2, <3>3
  <2> QED BY <1>1, <2>1 DEF Ending
<1>6. CASE CallSteps
  BY <1>1, <1>6 DEF Ending, Locked, TypeOK, CallSteps, Stream!FromProcess, Stream!Lock, Stream!Test, Stream!Wait, Stream!SpuriousWake,
                    Stream!Ready, Stream!FromAgain, Stream!Caller, Stream!toVars
<1>7. CASE StopSteps
  BY <1>1, <1>7 DEF Ending, Locked, TypeOK, StopSteps, Stream!FromDestroy, Stream!Stop, Stream!Stopping, Stream!FromJoin,
                    Stream!Caller, Stream!toVars
<1> QED BY <1>2, <1>3, <1>4, <1>5, <1>6, <1>7, NextSteps DEF QuietSteps

-----------------------------------------------------------------------------
(***************************************************************************)
(* The theorems.                                                           *)
(***************************************************************************)

LEMMA StreamInit ==
  ASSUME MaxValues \in Nat, Stream!Init
  PROVE  StreamInv
<1>2. Len(<<>>) = 0 /\ <<>> \in Seq(Nat)
  BY EmptySeq
<1>1. TypeOK
  <2>1. /\ values \in 0 .. MaxValues /\ early \in SUBSET Stream!Sides /\ whole \in BOOLEAN
        /\ failed = FALSE /\ ioSending = FALSE /\ running = TRUE /\ safe = TRUE /\ posted = FALSE /\ gotEnd = FALSE
    BY DEF Stream!Init
  <2>2. /\ ioSent = <<>> /\ line = <<>> /\ queue = <<>> /\ out = <<>> /\ taken = 0
        /\ to = "wait" /\ server = "unset" /\ toIo = "connecting" /\ write = "none"
        /\ from = "idle" /\ fromIo \in {"none", "made"} /\ client = "none" /\ mutex = "free"
    BY DEF Stream!Init
  <2>3. taken \in Nat /\ taken <= Len(line)
    BY <1>2, <2>2
  <2> QED BY <1>2, <2>1, <2>2, <2>3 DEF TypeOK
<1>3. Arrived = 0 /\ Load = 0 /\ ~Flagged
  BY <1>2 DEF Stream!Init, Arrived, Load, Flagged
<1>4. Numbered /\ InOrder /\ Complete
  BY <1>1, <1>2, <1>3 DEF Stream!Init, Numbered, InOrder, Complete, Counts, TypeOK
<1>5. Locked /\ Ending
  BY DEF Stream!Init, Locked, Ending
<1> QED BY <1>1, <1>4, <1>5 DEF StreamInv

LEMMA StreamStep == StreamInv /\ [Stream!Next]_(Stream!vars) => StreamInv'
<1>1. ASSUME StreamInv, Stream!Next PROVE StreamInv'
  <2>1. /\ TypeOK' /\ Numbered' /\ (whole => InOrder' /\ Complete')
        /\ whole' = whole
    <3>1. CASE QuietSteps
      <4>1. TypeOK' /\ Still
        BY <1>1, <3>1, QuietIsStill DEF StreamInv
      <4>2. Numbered'
        BY <1>1, <4>1 DEF StreamInv, Numbered, Counts, Still
      <4> QED BY <1>1, <4>1, <4>2, StillKeeps DEF StreamInv, Still
    <3>2. CASE Stream!Misread
      BY <1>1, <3>2, MisreadMoves DEF Stream!Misread, Stream!toVars
    <3>3. CASE Stream!ToProcess \/ Stream!ToDestroy \/ Stream!RecvData \/ Stream!RecvEnd \/ Stream!Take
      <4>1. whole' = whole
        BY <3>3 DEF Stream!ToProcess, Stream!ToDestroy, Stream!RecvData, Stream!RecvEnd, Stream!Take, Stream!toVars
      <4> QED BY <1>1, <3>3, <4>1, ToProcessMoves, ToDestroyMoves, RecvDataMoves, RecvEndMoves, TakeMoves
    <3> QED BY <1>1, <3>1, <3>2, <3>3, NextSteps
  <2> QED BY <1>1, <2>1, LockedStep, EndingStep DEF StreamInv
<1>2. ASSUME StreamInv, UNCHANGED Stream!vars PROVE StreamInv'
  <2>1. TypeOK' /\ Numbered' /\ Locked' /\ Ending'
    BY <1>2 DEF StreamInv, TypeOK, Numbered, Counts, Locked, Ending, Stream!vars, Stream!toVars, Stream!lineVars, Stream!fromVars
  <2>2. whole' => InOrder' /\ Complete'
    BY <1>2 DEF StreamInv, InOrder, Complete, Arrived, Load, Flagged, Counts, Stream!vars, Stream!toVars, Stream!lineVars, Stream!fromVars
  <2> QED BY <2>1, <2>2 DEF StreamInv
<1> QED BY <1>1, <1>2

\* The invariant holds in every state.
THEOREM StreamInvariant == MaxValues \in Nat => (Stream!Spec => []StreamInv)
<1> SUFFICES ASSUME MaxValues \in Nat PROVE Stream!Spec => []StreamInv
  OBVIOUS
<1> QED BY StreamInit, StreamStep, PTL DEF Stream!Spec

\* process() of from_net returns false only when it has returned every value that
\* to_net took: on_recv_end_flag finds every value before it in the queue, and
\* process() empties the queue before it believes the flag (netio.h).
THEOREM FalseMeansTheEnd == MaxValues \in Nat => (Stream!Spec => []FalseOnlyAtTheEnd)
<1> SUFFICES ASSUME MaxValues \in Nat PROVE Stream!Spec => []FalseOnlyAtTheEnd
  OBVIOUS
<1>1. StreamInv => FalseOnlyAtTheEnd
  <2> SUFFICES ASSUME StreamInv, whole, from = "eof" PROVE out = ioSent
    BY DEF FalseOnlyAtTheEnd, Stream!FalseOnlyAtTheEnd
  <2>1. /\ TypeOK /\ queue = <<>> /\ Arrived = Len(ioSent)
        /\ Counts(ioSent, 0, Len(ioSent)) /\ Counts(out, 0, Len(out))
    BY DEF StreamInv, Numbered, Locked, Complete, InOrder
  <2>2. Len(out) = Len(ioSent) /\ ioSent \in Seq(Nat) /\ out \in Seq(Nat)
    BY <2>1, Lengths, EmptySeq DEF Arrived, TypeOK
  <2>3. \A i \in 1 .. Len(ioSent) : out[i] = ioSent[i]
    BY <2>1, <2>2 DEF Counts
  <2> QED BY <2>2, <2>3, SeqEqual
<1> QED BY <1>1, StreamInvariant, PTL

\* to_net uses a connection that is gone, in its caller's send() or in a handler
\* that is still to come, only if a processor is destroyed early, the network failed
\* or garbled a package, or the receiver has the end flag and with it everything: a
\* stream that nothing disturbs is not cut short by its own two destructors.
THEOREM UndefinedUseNeedsALoss == MaxValues \in Nat => (Stream!Spec => []UndefinedOnlyAtALoss)
<1> SUFFICES ASSUME MaxValues \in Nat PROVE Stream!Spec => []UndefinedOnlyAtALoss
  OBVIOUS
<1>1. StreamInv => UndefinedOnlyAtALoss
  <2> SUFFICES ASSUME StreamInv, Stream!Undefined, early = {}, ~failed, whole
               PROVE  gotEnd /\ Len(ioSent) = values
    BY DEF UndefinedOnlyAtALoss, Stream!UndefinedOnlyAtALoss
  <2>1. server = "freed" /\ fromIo = "stopped" /\ posted /\ gotEnd
    BY DEF StreamInv, Ending, Stream!Undefined
  <2> QED BY <2>1 DEF StreamInv, Complete
<1> QED BY <1>1, StreamInvariant, PTL

-----------------------------------------------------------------------------
(***************************************************************************)
(* Refinement: the steps of the stream are steps of a channel.             *)
(***************************************************************************)

\* A stream that an owner, the network or the race of the flag ended stays ended.
LEMMA AbandonedStays ==
  ASSUME StreamInv, Stream!Next, whole, Stream!Abandoned
  PROVE  Stream!Abandoned'
<1>1. TypeOK /\ Locked /\ line \in Seq(Nat) /\ Len(line) \in Nat /\ taken \in Nat
  BY Lengths DEF StreamInv, TypeOK
<1>2. CASE Stream!Left
  <2>1. /\ to \in {"join", "done"} /\ taken < Len(line) /\ write = "none" /\ ~ioSending
    BY <1>2 DEF Stream!Left
  <2>2. CASE Stream!RecvData \/ Stream!RecvEnd
    <3>1. taken > 0 /\ line' = Tail(line) /\ taken' = taken - 1 /\ UNCHANGED <<to, write, ioSending>>
      BY <2>2 DEF Stream!RecvData, Stream!RecvEnd, Stream!toVars
    <3>2. Len(line') = Len(line) - 1
      BY <1>1, <3>1, ShiftType
    <3> QED BY <1>1, <2>1, <3>1, <3>2 DEF Stream!Abandoned, Stream!Left
  <2>3. CASE ToSteps \/ ToIoSteps
    <3>1. UNCHANGED <<line, taken, write, ioSending>> /\ to' \in {"join", "done"}
      BY <2>1, <2>3 DEF ToSteps, ToIoSteps, Stream!TestSending, Stream!ToJoin, Stream!Connect, Stream!HandleSent, Stream!Clear,
                        Stream!ToError, Stream!ToErase, Stream!lineVars
    <3> QED BY <2>1, <3>1 DEF Stream!Abandoned, Stream!Left
  <2>4. CASE IoSteps \/ LossSteps \/ CallSteps \/ StopSteps \/ Stream!Take
    <3>1. UNCHANGED <<to, line, taken, write, ioSending>>
      <4>1. CASE IoSteps \/ LossSteps
        BY <4>1 DEF IoSteps, LossSteps, Stream!Bind, Stream!Run, Stream!Accept, Stream!NotifyData, Stream!InternalStop,
                    Stream!Fail, Stream!FromLost, Stream!Deaf, Stream!toVars, Stream!lineVars
      <4>2. CASE CallSteps \/ StopSteps \/ Stream!Take
        BY <4>2 DEF CallSteps, StopSteps, Stream!FromProcess, Stream!Lock, Stream!Test, Stream!Wait, Stream!SpuriousWake, Stream!Ready,
                    Stream!FromAgain, Stream!Take, Stream!FromDestroy, Stream!Stop, Stream!Stopping, Stream!FromJoin,
                    Stream!toVars, Stream!lineVars
      <4> QED BY <2>4, <4>1, <4>2
    <3> QED BY <2>1, <3>1 DEF Stream!Abandoned, Stream!Left
  <2>5. ~(Stream!ToProcess \/ Stream!ToDestroy \/ Stream!Misread)
    BY <2>1 DEF Stream!ToProcess, Stream!ToDestroy, Stream!Misread
  <2> QED BY <2>2, <2>3, <2>4, <2>5, NextSteps DEF QuietSteps
<1>3. CASE to = "undefined" \/ failed
  <2>1. failed => failed'
    BY NextSteps DEF QuietSteps, ToSteps, ToIoSteps, IoSteps, LossSteps, CallSteps, StopSteps,
       Stream!ToProcess, Stream!ToDestroy, Stream!RecvData, Stream!RecvEnd, Stream!Take, Stream!Misread,
       Stream!TestSending, Stream!ToJoin, Stream!Connect, Stream!HandleSent, Stream!Clear, Stream!ToError, Stream!ToErase,
       Stream!Bind, Stream!Run, Stream!Accept, Stream!NotifyData, Stream!InternalStop, Stream!Fail, Stream!FromLost, Stream!Deaf,
       Stream!FromProcess, Stream!Lock, Stream!Test, Stream!Wait, Stream!SpuriousWake, Stream!Ready, Stream!FromAgain,
       Stream!FromDestroy, Stream!Stop, Stream!Stopping, Stream!FromJoin
  <2>2. to = "undefined" => to' = "undefined"
    BY NextSteps DEF QuietSteps, ToSteps, ToIoSteps, IoSteps, LossSteps, CallSteps, StopSteps, Stream!toVars,
       Stream!ToProcess, Stream!ToDestroy, Stream!RecvData, Stream!RecvEnd, Stream!Take, Stream!Misread,
       Stream!TestSending, Stream!ToJoin, Stream!Connect, Stream!HandleSent, Stream!Clear, Stream!ToError, Stream!ToErase,
       Stream!Bind, Stream!Run, Stream!Accept, Stream!NotifyData, Stream!InternalStop, Stream!Fail, Stream!FromLost, Stream!Deaf,
       Stream!FromProcess, Stream!Lock, Stream!Test, Stream!Wait, Stream!SpuriousWake, Stream!Ready, Stream!FromAgain,
       Stream!FromDestroy, Stream!Stop, Stream!Stopping, Stream!FromJoin
  <2> QED BY <1>3, <2>1, <2>2 DEF Stream!Abandoned
<1>4. CASE from \in {"stop", "stopping", "join", "done"} /\ mutex = "free"
  <2>1. from' \in {"stop", "stopping", "join", "done"} /\ mutex' = "free"
    <3>1. CASE Stream!ToProcess \/ Stream!ToDestroy \/ Stream!Misread \/ ToSteps \/ ToIoSteps
      BY <1>4, <3>1 DEF Stream!ToProcess, Stream!ToDestroy, Stream!Misread, ToSteps, Stream!TestSending, Stream!ToJoin, ToIoSteps,
                Stream!Connect, Stream!HandleSent, Stream!Clear, Stream!ToError, Stream!ToErase, Stream!fromVars
    <3>2. CASE IoSteps \/ LossSteps \/ Stream!RecvData \/ Stream!RecvEnd
      BY <1>4, <3>2 DEF IoSteps, LossSteps, Stream!Bind, Stream!Run, Stream!Accept, Stream!NotifyData, Stream!InternalStop,
                Stream!RecvData, Stream!RecvEnd, Stream!Woken, Stream!Fail, Stream!FromLost, Stream!Deaf, Stream!fromVars
    <3>3. CASE CallSteps \/ StopSteps \/ Stream!Take
      BY <1>4, <3>3 DEF CallSteps, StopSteps, Stream!FromProcess, Stream!Lock, Stream!Test, Stream!Wait, Stream!SpuriousWake,
                Stream!Ready, Stream!FromAgain, Stream!Take, Stream!FromDestroy, Stream!Stop, Stream!Stopping, Stream!FromJoin,
                Stream!Caller
    <3> QED BY <3>1, <3>2, <3>3, NextSteps DEF QuietSteps
  <2> QED BY <2>1 DEF Stream!Abandoned
<1> QED BY <1>2, <1>3, <1>4 DEF Stream!Abandoned

\* The variables of the channel, of a stream whose reads are whole.
ChSent   == IF whole THEN ioSent ELSE <<>>
ChGot    == IF whole THEN out ELSE <<>>
ChBroken == whole /\ Stream!Abandoned

LEMMA NothingPassed ==
  ASSUME UNCHANGED <<ChSent, ChGot>>, ChBroken => ChBroken'
  PROVE  [Stream!Values!Next]_(Stream!Values!vars)
<1>1. CASE ChBroken <=> ChBroken'
  <2>1. ChBroken' = ChBroken
    BY <1>1 DEF ChBroken, Stream!Abandoned
  <2> QED BY <2>1 DEF Stream!Values!vars, ChSent, ChGot, ChBroken
<1>2. CASE ~ChBroken /\ ChBroken'
  <2>1. ChBroken' = TRUE
    BY <1>2 DEF ChBroken, Stream!Abandoned
  <2> QED BY <2>1 DEF Stream!Values!Next, Stream!Values!Break, ChSent, ChGot, ChBroken
<1> QED BY <1>1, <1>2

LEMMA SendsOne ==
  ASSUME MaxValues \in Nat, StreamInv, whole, Stream!ToProcess, ioSent' # ioSent
  PROVE  Stream!Values!Next
<1>1. /\ ioSent' = Append(ioSent, Len(ioSent) + 1) /\ to = "wait" /\ to' \in {"wait", "value"}
      /\ UNCHANGED <<from, mutex, out, failed, whole>>
  BY DEF TypeOK, StreamInv, Stream!ToProcess, Stream!Push, Stream!Consume, Stream!fromVars
<1>2. ~Stream!Left /\ ~Stream!Left'
  BY <1>1 DEF Stream!Left
<1>3. Stream!Abandoned' = Stream!Abandoned
  BY <1>1, <1>2 DEF Stream!Abandoned
<1>4. Len(ioSent) + 1 \in 1 .. MaxValues
  BY Lengths DEF StreamInv, TypeOK, Stream!ToProcess
<1> QED BY <1>1, <1>3, <1>4 DEF Stream!Values!Next, Stream!Values!Send

LEMMA DeliversOne ==
  ASSUME StreamInv, whole, Stream!Take, out' # out
  PROVE  Stream!Values!Next
<1> DEFINE n == Len(out) + 1
<1>1. /\ TypeOK /\ InOrder /\ Counts(ioSent, 0, Len(ioSent))
      /\ ioSent \in Seq(Nat) /\ out \in Seq(Nat) /\ queue \in Seq(Nat)
  BY DEF StreamInv, Numbered, TypeOK
<1>2. /\ queue # <<>> /\ out' = Append(out, Head(queue)) /\ from = "take" /\ from' = "idle"
      /\ UNCHANGED <<to, ioSent, whole, failed, line, taken, write, ioSending>>
  BY DEF Stream!Take, Stream!Dequeue, Stream!toVars, Stream!lineVars
<1>3. Stream!Abandoned' = Stream!Abandoned
  BY <1>2 DEF Stream!Abandoned, Stream!Left
<1>4. Len(queue) > 0 /\ Head(queue) = n /\ Head(queue) \in Nat
  BY <1>1, <1>2, CountsLess, Lengths DEF InOrder
<1>5. /\ out' \in Seq(Nat) /\ Len(out') = n
      /\ \A i \in 1 .. Len(out) : out'[i] = out[i]
      /\ out'[n] = n
  BY <1>1, <1>2, <1>4, AppendProperties
<1>6. n \in Len(out) + 1 .. Len(ioSent)
  BY <1>1, <1>4, Lengths DEF InOrder, Arrived
<1>7. /\ SubSeq(ioSent, 1, n) \in Seq(Nat) /\ Len(SubSeq(ioSent, 1, n)) = n
      /\ \A i \in 1 .. n : SubSeq(ioSent, 1, n)[i] = ioSent[i]
  <2>1. n \in Nat \ {0} /\ n <= Len(ioSent)
    BY <1>1, <1>6, Lengths
  <2>2. \A i \in 1 .. n : ioSent[i] \in Nat
    BY <1>1, <2>1, ElementOfSeq
  <2> HIDE DEF n
  <2>3. /\ SubSeq(ioSent, 1, n) \in Seq(Nat)
        /\ Len(SubSeq(ioSent, 1, n)) = n - 1 + 1
        /\ \A i \in 1 .. n - 1 + 1 : SubSeq(ioSent, 1, n)[i] = ioSent[1 + i - 1]
    BY <2>1, <2>2, SubSeqProperties
  <2> QED BY <2>1, <2>3
<1>8. ASSUME NEW i \in 1 .. n PROVE out'[i] = ioSent[i]
  <2>1. ioSent[i] = i
    BY <1>1, <1>6, <1>8, Lengths DEF InOrder, Counts
  <2>2. CASE i = n
    BY <1>5, <2>1, <2>2
  <2>3. CASE i \in 1 .. Len(out)
    <3>1. out[i] = 0 + i
      BY <1>1, <2>3 DEF InOrder, Counts
    <3> QED BY <1>5, <2>1, <2>3, <3>1
  <2> QED BY <1>1, <2>2, <2>3, Lengths
<1> HIDE DEF n
<1>9. out' = SubSeq(ioSent, 1, n)
  BY <1>5, <1>7, <1>8, SeqEqual
<1> QED BY <1>2, <1>3, <1>6, <1>9 DEF Stream!Values!Next, Stream!Values!Deliver

\* If no read garbles a package, what process() of from_net returns is at every
\* moment the beginning of what to_net consumed, and grows by its next value: nothing
\* is lost in between, doubled or overtaken on the way through two programs, four
\* threads, m_oToSendPkgs whose sender changes, and two mutexes.  (That
\* everything arrives is a liveness property and not part of the theorem.)
THEOREM StreamIsAChannel ==
  MaxValues \in Nat =>
    (Stream!Spec => Stream!Values!Init /\ [][Stream!Values!Next]_(Stream!Values!vars))
<1> SUFFICES ASSUME MaxValues \in Nat
             PROVE  Stream!Spec => Stream!Values!Init /\ [][Stream!Values!Next]_(Stream!Values!vars)
  OBVIOUS
<1>1. Stream!Init => Stream!Values!Init
  BY DEF Stream!Init, Stream!Values!Init, Stream!Abandoned, Stream!Left
<1>2. StreamInv /\ [Stream!Next]_(Stream!vars) => [Stream!Values!Next]_(Stream!Values!vars)
  <2>1. ASSUME StreamInv, Stream!Next PROVE [Stream!Values!Next]_(Stream!Values!vars)
    <3>1. whole' = whole
      BY <2>1, NextSteps, QuietIsStill DEF StreamInv, Still, Stream!ToProcess, Stream!ToDestroy, Stream!RecvData, Stream!RecvEnd,
                        Stream!Take, Stream!Misread, Stream!toVars
    <3>2. CASE UNCHANGED <<ChSent, ChGot>>
      <4>1. ChBroken => ChBroken'
        BY <2>1, <3>1, AbandonedStays DEF ChBroken
      <4> QED BY <3>2, <4>1, NothingPassed
    <3>3. CASE whole /\ ~UNCHANGED <<ChSent, ChGot>>
      <4>1. ~UNCHANGED <<ioSent, out>>
        BY <3>1, <3>3 DEF ChSent, ChGot
      <4>2. CASE Stream!ToProcess
        BY <2>1, <3>3, <4>1, <4>2, SendsOne DEF Stream!ToProcess, Stream!fromVars
      <4>3. CASE Stream!Take
        BY <2>1, <3>3, <4>1, <4>3, DeliversOne DEF Stream!Take, Stream!toVars
      <4>4. CASE Stream!ToDestroy \/ Stream!RecvData \/ Stream!RecvEnd
        BY <4>1, <4>4 DEF Stream!ToDestroy, Stream!RecvData, Stream!RecvEnd, Stream!fromVars, Stream!toVars
      <4>5. CASE QuietSteps
        BY <2>1, <4>1, <4>5, QuietIsStill DEF Still, StreamInv
      <4>6. CASE Stream!Misread
        BY <3>3, <4>6 DEF Stream!Misread
      <4> QED BY <2>1, <4>2, <4>3, <4>4, <4>5, <4>6, NextSteps
    <3>4. ~whole => UNCHANGED <<ChSent, ChGot>>
      BY <3>1 DEF ChSent, ChGot
    <3> QED BY <3>2, <3>3, <3>4
  <2>2. CASE UNCHANGED Stream!vars
    BY <2>2 DEF Stream!vars, Stream!toVars, Stream!lineVars, Stream!fromVars, Stream!Values!vars, Stream!Abandoned, Stream!Left
  <2> QED BY <2>1, <2>2
<1> QED BY <1>1, <1>2, StreamInvariant, PTL DEF Stream!Spec
=============================================================================
