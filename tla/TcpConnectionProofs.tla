------------------------- MODULE TcpConnectionProofs -------------------------
(***************************************************************************)
(* A TCP connection, for any packages, lengths and buffer sizes: SenderInv *)
(* is inductive for every use, and with StreamInv, which says where in the *)
(* stream of frames each byte lies, the connection implements Channel for  *)
(* the uses that WholeUses names.                                          *)
(***************************************************************************)
EXTENDS TcpConnection, SequenceTheorems, WellFoundedInduction, TLAPS

USE BufferAssumption, TcpAssumption

-----------------------------------------------------------------------------
(* The operations on a buffer. *)

LEMMA ByteTypes ==
  /\ Zero \in Bytes
  /\ \A p \in Packages : /\ Header(p) \in Seq(Bytes) /\ Len(Header(p)) = Word
                         /\ Content(p) \in Seq(Bytes) /\ Len(Content(p)) = Length[p]
<1>1. Zero \in Bytes
  BY DEF Zero, Bytes
<1>2. ASSUME NEW p \in Packages, NEW i \in Nat PROVE Byte(p, i) \in Bytes
  BY DEF Byte, Bytes
<1>3. ASSUME NEW p \in Packages PROVE Header(p) \in Seq(Bytes) /\ Len(Header(p)) = Word
  BY <1>2, <1>3 DEF Header
<1>4. ASSUME NEW p \in Packages PROVE Content(p) \in Seq(Bytes) /\ Len(Content(p)) = Length[p]
  <2>1. Length[p] \in Nat
    BY <1>4
  <2>2. \A i \in 1 .. Length[p] : Byte(p, Word + i) \in Bytes
    BY <1>2, <1>4, <2>1
  <2>3. QED
    BY <2>1, <2>2 DEF Content
<1>5. QED
  BY <1>1, <1>3, <1>4

LEMMA ResizeType ==
  ASSUME NEW b \in Buffers, NEW n \in Nat
  PROVE  /\ Resize(b, n) \in Buffers /\ Size(Resize(b, n)) = n
         /\ Resize(b, n).write = b.write /\ Resize(b, n).read = b.read
<1> DEFINE data == [i \in 1 .. n |-> IF i <= Size(b) THEN b.data[i] ELSE Zero]
<1>1. \A i \in 1 .. n : (IF i <= Size(b) THEN b.data[i] ELSE Zero) \in Bytes
  BY ByteTypes DEF Buffers, Size
<1>2. data \in Seq(Bytes) /\ Len(data) = n
  BY <1>1
<1>3. Resize(b, n) = [b EXCEPT !.data = data]
  BY DEF Resize
<1>4. QED
  BY <1>2, <1>3 DEF Buffers, Size

LEMMA StoreType ==
  ASSUME NEW b \in Buffers, NEW bytes \in Seq(Bytes)
  PROVE  /\ Store(b, bytes) \in Buffers /\ Size(Store(b, bytes)) = Size(b)
         /\ Store(b, bytes).write = b.write + Len(bytes) /\ Store(b, bytes).read = b.read
<1> DEFINE data == [i \in 1 .. Size(b) |->
                     IF i - b.write \in DOMAIN bytes THEN bytes[i - b.write] ELSE b.data[i]]
<1>1. \A i \in 1 .. Size(b) : data[i] \in Bytes
  BY DEF Buffers, Size
<1>2. Size(b) \in Nat
  BY DEF Buffers, Size
<1>3. data \in Seq(Bytes) /\ Len(data) = Size(b)
  BY <1>1, <1>2
<1>4. Store(b, bytes) = [b EXCEPT !.data = data, !.write = b.write + Len(bytes)]
  BY DEF Store, Buffers
<1> HIDE DEF data
<1>5. b.write + Len(bytes) \in Nat
  BY DEF Buffers
<1>6. QED
  BY <1>3, <1>4, <1>5 DEF Buffers, Size

LEMMA WriteableType ==
  ASSUME NEW b \in Buffers
  PROVE  /\ Writeable(b) \in Buffers
         /\ Writeable(b).write = b.write /\ Writeable(b).read = b.read
         /\ Size(Writeable(b)) = IF Size(b) - b.write < Inc THEN Size(b) + Inc ELSE Size(b)
<1>1. Size(b) + Inc \in Nat
  BY DEF Size, Buffers
<1>2. QED
  BY <1>1, ResizeType DEF Writeable, Idle

LEMMA ReserveType ==
  ASSUME NEW b \in Buffers, NEW n \in Nat
  PROVE  /\ Reserve(b, n) \in Buffers
         /\ Reserve(b, n).write = b.write /\ Reserve(b, n).read = b.read
         /\ Size(Reserve(b, n)) = IF Size(b) - b.write < n THEN b.write + n ELSE Size(b)
<1>1. b.write + n \in Nat
  BY DEF Buffers
<1>2. QED
  BY <1>1, ResizeType DEF Reserve, Idle

(* pack leaves no more than two increments behind what it wrote. *)
LEMMA PackType ==
  ASSUME NEW b \in Buffers, NEW p \in Packages
  PROVE  /\ Pack(b, p) \in Buffers
         /\ Pack(b, p).read = b.read
         /\ Pack(b, p).write = b.write + Word + Length[p]
         /\ (Size(b) # 0 => Size(b) <= b.write + 2 * Inc)
            => Size(Pack(b, p)) <= b.write + Word + Length[p] + 2 * Inc
<1> DEFINE n  == Length[p] + Word
           b1 == Reserve(b, n)
           b2 == Writeable(b1)
           b3 == Store(b2, Header(p))
           b4 == Writeable(b3)
<1>0. n \in Nat /\ Length[p] \in Nat /\ b.write \in Nat /\ Size(b) \in Nat
  BY DEF Buffers, Size
<1>1. /\ b1 \in Buffers /\ b1.write = b.write /\ b1.read = b.read
      /\ Size(b1) = IF Size(b) - b.write < n THEN b.write + n ELSE Size(b)
  BY <1>0, ReserveType
<1>2. /\ b2 \in Buffers /\ b2.write = b.write /\ b2.read = b.read
      /\ Size(b2) = IF Size(b1) - b1.write < Inc THEN Size(b1) + Inc ELSE Size(b1)
  BY <1>1, WriteableType
<1>3. b3 \in Buffers /\ b3.write = b.write + Word /\ b3.read = b.read /\ Size(b3) = Size(b2)
  BY <1>2, StoreType, ByteTypes
<1>4. /\ b4 \in Buffers /\ b4.write = b3.write /\ b4.read = b.read
      /\ Size(b4) = IF Size(b3) - b3.write < Inc THEN Size(b3) + Inc ELSE Size(b3)
  BY <1>3, WriteableType
<1>5. Pack(b, p) = Store(b4, Content(p))
  BY DEF Pack
<1>6. /\ Pack(b, p) \in Buffers /\ Size(Pack(b, p)) = Size(b4)
      /\ Pack(b, p).write = b4.write + Length[p] /\ Pack(b, p).read = b.read
  BY <1>4, <1>5, StoreType, ByteTypes
<1> HIDE DEF n, b1, b2, b3, b4
<1>7. ASSUME Size(b) # 0 => Size(b) <= b.write + 2 * Inc
      PROVE  Size(Pack(b, p)) <= b.write + Word + Length[p] + 2 * Inc
  <2>1. Size(b) <= b.write + 2 * Inc
    BY <1>0, <1>7
  <2>2. n = Length[p] + Word
    BY DEF n
  <2>3. Size(b1) \in Nat /\ Size(b1) <= b.write + n + 2 * Inc
        /\ (Size(b1) <= b.write + 2 * Inc \/ Size(b1) = b.write + n)
    BY <1>0, <1>1, <2>1
  <2>4. Size(b2) \in Nat /\ Size(b2) <= b.write + n + 2 * Inc
    BY <1>0, <1>1, <1>2, <2>3
  <2>5. Size(b4) <= b.write + n + 2 * Inc
    BY <1>0, <1>2, <1>3, <1>4, <2>2, <2>4
  <2>6. QED
    BY <1>0, <1>6, <2>2, <2>5
<1>8. QED
  BY <1>0, <1>3, <1>4, <1>6, <1>7

LEMMA ReadableType ==
  ASSUME NEW b \in Buffers
  PROVE  Readable(b) \in Seq(Bytes) /\ Len(Readable(b)) = b.write
<1> DEFINE byte(i) == IF b.read + i <= Size(b) THEN b.data[b.read + i] ELSE Zero
<1>1. \A i \in 1 .. b.write : byte(i) \in Bytes
  BY ByteTypes DEF Buffers, Size
<1>2. b.write \in Nat /\ Readable(b) = [i \in 1 .. b.write |-> byte(i)]
  BY DEF Buffers, Readable
<1> HIDE DEF byte
<1>3. QED
  BY <1>1, <1>2

(* erase_buffer keeps the slack, and gives back a buffer that holds nothing with *)
(* both indices at its beginning.                                             *)
LEMMA EraseType ==
  ASSUME NEW b \in Buffers, NEW n \in Nat,
         b.write = 0 => b.read = 0,
         Size(b) # 0 => Size(b) <= Filled(b) + 2 * Inc
  PROVE  /\ Erase(b, n) \in Buffers
         /\ Erase(b, n).write = 0 \/ Filled(Erase(b, n)) = 0 => Erase(b, n).read = 0
         /\ Size(Erase(b, n)) # 0 => Size(Erase(b, n)) <= Filled(Erase(b, n)) + 2 * Inc
<1> DEFINE len == IF n >= b.write THEN b.write ELSE n
           rest == SubSeq(b.data, len + 1, Size(b))
           cut == [data |-> rest, write |-> b.write, read |-> b.read + len]
<1>0. /\ b.write \in Nat /\ b.read \in Nat /\ len \in Nat /\ Size(b) \in Nat
      /\ b.data \in Seq(Bytes) /\ Size(b) = Len(b.data)
  BY DEF Buffers, Size
<1>1. rest \in Seq(Bytes) /\ Len(rest) = IF len <= Size(b) THEN Size(b) - len ELSE 0
  BY <1>0, SMTT(30)
<1>2. Erase(b, n) = IF cut.read = cut.write THEN [cut EXCEPT !.write = 0, !.read = 0] ELSE cut
  BY DEF Erase
<1> HIDE DEF rest
<1>3. cut \in Buffers
  BY <1>0, <1>1 DEF Buffers
<1>4. CASE cut.read = cut.write
  <2>1. Erase(b, n) = [data |-> rest, write |-> 0, read |-> 0]
    BY <1>2, <1>4
  <2>2. Size(b) # 0 => Size(b) <= b.read + len - b.read + 2 * Inc
    BY <1>0, <1>4 DEF Filled
  <2>3. Len(rest) <= 2 * Inc
    BY <1>0, <1>1, <2>2
  <2>4. QED
    BY <1>1, <2>1, <2>3 DEF Buffers, Size, Filled
<1>5. CASE cut.read # cut.write
  <2>1. Erase(b, n) = cut
    BY <1>2, <1>5
  <2>2. b.write # 0
    BY <1>0, <1>5
  <2>3. cut.write - cut.read # 0
    BY <1>0, <1>5
  <2>4. Len(rest) # 0 => Len(rest) <= cut.write - cut.read + 2 * Inc
    BY <1>0, <1>1, SMTT(30) DEF Filled
  <2>5. QED
    BY <1>3, <2>1, <2>2, <2>3, <2>4 DEF Size, Filled
<1>6. QED
  BY <1>4, <1>5

-----------------------------------------------------------------------------
LEMMA InitSender == Init => SenderInv
<1> SUFFICES ASSUME Init PROVE SenderInv
  OBVIOUS
<1>1. Empty \in Buffers /\ Size(Empty) = Inc /\ Filled(Empty) = 0 /\ Empty.write = 0 /\ Empty.read = 0
  <2>1. [i \in 1 .. Inc |-> Zero] \in Seq(Bytes) /\ Len([i \in 1 .. Inc |-> Zero]) = Inc
    BY ByteTypes
  <2>2. QED
    BY <2>1 DEF Empty, Buffers, Size, Filled
<1>2. Senders = {}
  BY DEF Init, Senders, Threads
<1>3. SenderTypeOK
  <2>1. at \in [Threads -> {"idle", "test", "start", "clear"}] /\ at["io"] # "test"
    BY DEF Init, Threads
  <2>2. toSend \in Seq(Packages) /\ writing \in Seq(Bytes)
    BY DEF Init
  <2>3. use \in Uses /\ isSending \in BOOLEAN /\ sendBuf \in Buffers /\ written \in Nat
    BY <1>1 DEF Init
  <2>4. point \in {"init", "valid", "error", "closed"}
    BY DEF Init
  <2>5. QED
    BY <2>1, <2>2, <2>3, <2>4 DEF SenderTypeOK
<1>4. QED
  BY <1>1, <1>2, <1>3 DEF Init, SenderInv, OneSender, AttendedInHandlers, Attended, RoomToPack, Slack, Turns, Unused, Threads

(* Whoever is seen to have the send buffer has it alone. *)
LEMMA SoleSender ==
  ASSUME SenderTypeOK, OneSender
  PROVE  /\ \A t \in Threads : at[t] \in {"start", "clear"} => Senders = {t}
         /\ writing # <<>> => Senders = {"write"}
         /\ written > 0 => Senders = {"handler"}
         /\ Senders # {} => isSending
<1>1. \A t \in Threads : at[t] \in {"start", "clear"} => t \in Senders
  BY DEF Senders
<1>2. writing # <<>> => "write" \in Senders
  BY DEF Senders
<1>3. written > 0 => "handler" \in Senders
  BY DEF Senders
<1>4. QED
  BY <1>1, <1>2, <1>3 DEF OneSender

(* What the sender does not look at changes nothing for it. *)
LEMMA OtherSteps ==
  ASSUME SenderInv, UNCHANGED <<use, sendVars, at, writing, written>>,
         point' \in {"init", "valid", "error", "closed"},
         point' \in {point, "error"} \/ point = "init"
  PROVE  SenderInv'
<1>1. Senders' = Senders
  BY DEF Senders
<1>2. QED
  BY <1>1 DEF SenderInv, SenderTypeOK, OneSender, AttendedInHandlers, Attended, RoomToPack, Slack, Turns, Unused, sendVars

LEMMA SendStep == ASSUME SenderInv, NEW p \in Packages, Send(p) PROVE SenderInv'
<1>1. at["caller"] = "idle" /\ at' = [at EXCEPT !["caller"] = "test"] /\ at'["caller"] = "test" /\ at'["io"] = at["io"]
  BY DEF Send, Goto, SenderInv, SenderTypeOK, Threads
<1>2. Senders' = Senders
  BY <1>1 DEF Send, Senders, netVars, Threads
<1>3. SenderTypeOK'
  <2>1. toSend' \in Seq(Packages)
    BY DEF Send, SenderInv, SenderTypeOK
  <2>2. at' \in [Threads -> {"idle", "test", "start", "clear"}] /\ at'["io"] # "test"
    BY <1>1 DEF SenderInv, SenderTypeOK
  <2>3. QED
    BY <2>1, <2>2 DEF Send, SenderInv, SenderTypeOK, netVars
<1>4. OneSender'
  BY <1>2 DEF Send, SenderInv, OneSender
<1>5. AttendedInHandlers'
  BY <1>1 DEF AttendedInHandlers, Attended
<1>6. Slack'
  BY <1>1 DEF Send, SenderInv, Slack, Threads
<1>7. Turns'
  BY <1>1, <1>2 DEF Send, Turn, SenderInv, Turns, Threads
<1>8. Unused'
  BY DEF Send, Unused
<1>9. RoomToPack'
  BY <1>3, <1>6 DEF SenderTypeOK, Slack, RoomToPack, Buffers, Size, Filled
<1>10. QED
  BY <1>3, <1>4, <1>5, <1>6, <1>7, <1>8, <1>9 DEF SenderInv

LEMMA TestStep == ASSUME SenderInv, Test PROVE SenderInv'
<1>0. isSending \in BOOLEAN /\ isSending' = TRUE
  BY DEF Test, SenderInv, SenderTypeOK
<1>1. /\ at["caller"] = "test" /\ at'["io"] = at["io"]
      /\ at'["caller"] = IF isSending THEN "idle" ELSE "start"
      /\ at' \in [Threads -> {"idle", "test", "start", "clear"}]
  BY DEF Test, Goto, SenderInv, SenderTypeOK, Threads
<1>2. Senders' = IF isSending THEN Senders ELSE {"caller"}
  <2>1. CASE isSending
    BY <1>1, <2>1 DEF Test, Senders, netVars, Threads
  <2>2. CASE ~isSending
    <3>1. Senders = {}
      BY <2>2 DEF SenderInv, OneSender
    <3>2. QED
      BY <1>1, <2>2, <3>1 DEF Test, Senders, netVars, Threads
  <2>3. QED
    BY <2>1, <2>2
<1>3. SenderTypeOK'
  BY <1>0, <1>1 DEF Test, SenderInv, SenderTypeOK, netVars
<1>4. OneSender'
  BY <1>0, <1>2 DEF SenderInv, OneSender
<1>5. AttendedInHandlers'
  BY <1>2 DEF Test, SenderInv, AttendedInHandlers, Attended, Turns
<1>6. Slack'
  BY <1>0, <1>1 DEF Test, SenderInv, Slack, Threads
<1>7. Turns'
  BY <1>1, <1>2 DEF Test, SenderInv, Turns, Threads
<1>8. Unused'
  BY <1>1 DEF Test, SenderInv, Unused
<1>9. RoomToPack'
  BY <1>3, <1>6 DEF SenderTypeOK, Slack, RoomToPack, Buffers, Size, Filled
<1>10. QED
  BY <1>3, <1>4, <1>5, <1>6, <1>7, <1>8, <1>9 DEF SenderInv

LEMMA PackStep == ASSUME SenderInv, NEW t \in Threads, PackNext(t) PROVE SenderInv'
<1> DEFINE p == Head(toSend)
<1>0. /\ at[t] = "start" /\ toSend # <<>> /\ toSend' = Tail(toSend) /\ sendBuf' = Pack(sendBuf, p)
      /\ UNCHANGED <<use, point, isSending, at, writing, written>>
  BY DEF PackNext, netVars
<1>1. p \in Packages /\ toSend' \in Seq(Packages) /\ sendBuf \in Buffers
  BY <1>0 DEF SenderInv, SenderTypeOK
<1>2. Senders' = Senders /\ Senders = {t} /\ isSending
  <2>1. Senders' = Senders
    BY <1>0 DEF Senders
  <2>2. QED
    BY <1>0, <2>1, SoleSender DEF SenderInv
<1> HIDE DEF p
<1>3. SenderTypeOK'
  BY <1>0, <1>1, PackType DEF SenderInv, SenderTypeOK
<1>4. OneSender'
  BY <1>0, <1>2 DEF OneSender
<1>5. AttendedInHandlers'
  BY <1>2 DEF AttendedInHandlers, Attended
<1>6. Slack'
  <2>1. sendBuf.read = 0
    BY <1>0 DEF SenderInv, Slack
  <2>2. /\ sendBuf'.read = 0 /\ sendBuf'.write = sendBuf.write + Word + Length[p]
        /\ Size(sendBuf') <= sendBuf'.write + 2 * Inc
    <3>1. Size(sendBuf) # 0 => Size(sendBuf) <= sendBuf.write + 2 * Inc
      BY <1>1, <2>1 DEF SenderInv, Slack, Filled, Buffers
    <3>2. QED
      BY <1>0, <1>1, <2>1, <3>1, PackType
  <2>3. sendBuf' \in Buffers
    BY <1>3 DEF SenderTypeOK
  <2>4. QED
    BY <2>2, <2>3 DEF Slack, Size, Filled, Buffers
<1>7. Turns'
  <2>1. \A u \in Threads : at[u] = "clear" => FALSE
    BY <1>0, <1>2, SoleSender DEF SenderInv
  <2>2. QED
    BY <1>0, <1>2, <2>1 DEF SenderInv, Turns
<1>8. Unused'
  BY <1>0, <1>2 DEF SenderInv, Unused
<1>9. RoomToPack'
  BY <1>3, <1>6 DEF SenderTypeOK, Slack, RoomToPack, Buffers, Size, Filled
<1>10. QED
  BY <1>3, <1>4, <1>5, <1>6, <1>7, <1>8, <1>9 DEF SenderInv

LEMMA WriteStep == ASSUME SenderInv, NEW t \in Threads, Write(t) PROVE SenderInv'
<1>0. /\ at[t] = "start" /\ (toSend = <<>> \/ Size(sendBuf) >= Limit)
      /\ UNCHANGED <<use, point, toSend, sendBuf, isSending, written>>
      /\ at' = [at EXCEPT ![t] = IF Filled(sendBuf) # 0 THEN "idle" ELSE "clear"]
      /\ writing' = IF Filled(sendBuf) # 0 THEN Readable(sendBuf) ELSE writing
  BY DEF Write, Goto, sendVars
<1>1. /\ at' \in [Threads -> {"idle", "test", "start", "clear"}] /\ at'["io"] # "test"
      /\ at'[t] = IF Filled(sendBuf) # 0 THEN "idle" ELSE "clear"
      /\ \A u \in Threads \ {t} : at'[u] = at[u]
  BY <1>0 DEF SenderInv, SenderTypeOK, Threads
<1>2. /\ Senders = {t} /\ isSending /\ writing = <<>> /\ ~(written > 0)
      /\ \A u \in Threads \ {t} : at[u] \notin {"start", "clear"}
  <2>1. Senders = {t} /\ isSending
    BY <1>0, SoleSender DEF SenderInv
  <2>2. QED
    BY <2>1, SoleSender DEF SenderInv, Threads
<1>3. Filled(sendBuf) # 0 => writing' # <<>>
  <2>1. Filled(sendBuf) # 0 => sendBuf.write # 0
    BY DEF SenderInv, SenderTypeOK, Slack, Filled, Buffers
  <2>2. sendBuf \in Buffers
    BY DEF SenderInv, SenderTypeOK
  <2>3. QED
    BY <1>0, <2>1, <2>2, ReadableType
<1>4. Senders' = IF Filled(sendBuf) # 0 THEN {"write"} ELSE {t}
  BY <1>0, <1>1, <1>2, <1>3 DEF Senders
<1>5. SenderTypeOK'
  <2>1. sendBuf \in Buffers /\ writing' \in Seq(Bytes)
    BY <1>0, ReadableType DEF SenderInv, SenderTypeOK
  <2>2. QED
    BY <1>0, <1>1, <2>1 DEF SenderInv, SenderTypeOK
<1>6. OneSender' /\ AttendedInHandlers'
  BY <1>0, <1>2, <1>4 DEF OneSender, AttendedInHandlers, Attended
<1>7. Slack'
  BY <1>0, <1>2 DEF SenderInv, Slack, Filled
<1>8. RoomToPack'
  BY <1>0 DEF SenderInv, RoomToPack, Filled
<1>9. Turns'
  <2>1. Filled(sendBuf) = 0 => toSend = <<>>
    BY <1>0 DEF SenderInv, SenderTypeOK, RoomToPack, Size, Buffers
  <2>2. use.threads = 1 => at'["caller"] = "idle" \/ at'["io"] = "idle"
    BY <1>0, <1>1 DEF SenderInv, Turns, Threads
  <2>3. \A u \in Threads : at'[u] = "clear" => u = t /\ Filled(sendBuf) = 0
    BY <1>1, <1>2
  <2>4. QED
    BY <1>0, <1>4, <2>1, <2>2, <2>3 DEF Turns
<1>10. Unused'
  BY <1>0, <1>2 DEF SenderInv, Unused
<1>11. QED
  BY <1>5, <1>6, <1>7, <1>8, <1>9, <1>10 DEF SenderInv

LEMMA ClearStep == ASSUME SenderInv, NEW t \in Threads, Clear(t) PROVE SenderInv'
<1>0. /\ at[t] = "clear" /\ isSending' = FALSE /\ at' = [at EXCEPT ![t] = "idle"]
      /\ UNCHANGED <<use, point, toSend, sendBuf, writing, written>>
  BY DEF Clear, Goto, netVars
<1>1. /\ at' \in [Threads -> {"idle", "test", "start", "clear"}] /\ at'["io"] # "test"
      /\ at'[t] = "idle" /\ \A u \in Threads \ {t} : at'[u] = at[u]
  BY <1>0 DEF SenderInv, SenderTypeOK, Threads
<1>2. Senders = {t} /\ isSending
  BY <1>0, SoleSender DEF SenderInv
<1>3. /\ writing = <<>> /\ ~(written > 0)
      /\ \A u \in Threads \ {t} : at[u] \notin {"start", "clear"}
  BY <1>2, SoleSender DEF SenderInv, Threads
<1>4. Senders' = {}
  BY <1>0, <1>1, <1>3 DEF Senders
<1>5. SenderTypeOK'
  BY <1>0, <1>1 DEF SenderInv, SenderTypeOK
<1>6. OneSender'
  BY <1>4 DEF OneSender
<1>7. AttendedInHandlers'
  <2>1. use.threads = 1 => toSend = <<>>
    BY <1>0 DEF SenderInv, Turns
  <2>2. QED
    BY <1>0, <2>1 DEF AttendedInHandlers, Attended
<1>8. Slack' /\ RoomToPack'
  BY <1>0 DEF SenderInv, Slack, RoomToPack, Filled, Size
<1>9. Turns' /\ Unused'
  <2>1. \A u \in Threads : at'[u] # "clear"
    BY <1>1, <1>3
  <2>2. point # "init"
    BY <1>2 DEF SenderInv, Unused
  <2>3. QED
    BY <1>0, <1>1, <2>1, <2>2 DEF SenderInv, Turns, Unused, Threads
<1>10. QED
  BY <1>5, <1>6, <1>7, <1>8, <1>9 DEF SenderInv

LEMMA TakeStep == ASSUME SenderInv, Take PROVE SenderInv'
<1>0. /\ writing # <<>> /\ writing' = <<>> /\ written' \in 1 .. Len(writing)
      /\ UNCHANGED <<use, point, toSend, sendBuf, isSending, at>>
  BY DEF Take, sendVars
<1>1. written' \in Nat /\ written' > 0
  BY <1>0 DEF SenderInv, SenderTypeOK
<1>2. Senders = {"write"} /\ isSending
  BY <1>0, SoleSender DEF SenderInv
<1>3. \A t \in Threads : at[t] \notin {"start", "clear"}
  BY <1>2, SoleSender DEF SenderInv, Threads
<1>4. Senders' = {"handler"}
  BY <1>0, <1>1, <1>3 DEF Senders
<1>5. SenderTypeOK'
  BY <1>0, <1>1 DEF SenderInv, SenderTypeOK
<1>6. OneSender' /\ AttendedInHandlers'
  BY <1>0, <1>2, <1>4 DEF OneSender, AttendedInHandlers, Attended
<1>7. Slack' /\ RoomToPack' /\ Unused'
  BY <1>0 DEF SenderInv, Slack, RoomToPack, Unused, Filled, Size
<1>8. Turns'
  BY <1>0, <1>4 DEF SenderInv, Turns
<1>9. QED
  BY <1>5, <1>6, <1>7, <1>8 DEF SenderInv

LEMMA HandleSentStep == ASSUME SenderInv, HandleSent PROVE SenderInv'
<1>0. /\ written > 0 /\ written' = 0 /\ at["io"] = "idle" /\ sendBuf' = Erase(sendBuf, written)
      /\ UNCHANGED <<use, point, toSend, isSending>>
      /\ writing' = IF Filled(sendBuf') # 0 THEN Readable(sendBuf') ELSE writing
      /\ at' = IF Filled(sendBuf') # 0 THEN at ELSE [at EXCEPT !["io"] = "start"]
  BY DEF HandleSent, Goto
<1>1. /\ at' \in [Threads -> {"idle", "test", "start", "clear"}] /\ at'["caller"] = at["caller"]
      /\ at'["io"] = IF Filled(sendBuf') # 0 THEN "idle" ELSE "start"
  BY <1>0 DEF SenderInv, SenderTypeOK, Threads
<1>2. /\ sendBuf' \in Buffers
      /\ sendBuf'.write = 0 \/ Filled(sendBuf') = 0 => sendBuf'.read = 0
      /\ Size(sendBuf') # 0 => Size(sendBuf') <= Filled(sendBuf') + 2 * Inc
  BY <1>0, EraseType DEF SenderInv, SenderTypeOK, Slack
<1>3. Senders = {"handler"} /\ isSending
  BY <1>0, SoleSender DEF SenderInv
<1>4. /\ writing = <<>>
      /\ \A t \in Threads : at[t] \notin {"start", "clear"}
  BY <1>3, SoleSender DEF SenderInv, Threads
<1>5. Filled(sendBuf') # 0 => writing' # <<>> /\ writing' \in Seq(Bytes)
  <2>1. Filled(sendBuf') # 0 => sendBuf'.write # 0
    BY <1>2 DEF Filled, Buffers
  <2>2. QED
    BY <1>0, <1>2, <2>1, ReadableType
<1>6. Senders' = IF Filled(sendBuf') # 0 THEN {"write"} ELSE {"io"}
  BY <1>0, <1>1, <1>4, <1>5 DEF Senders, Threads
<1>7. SenderTypeOK'
  BY <1>0, <1>1, <1>2, <1>5 DEF SenderInv, SenderTypeOK
<1>8. OneSender' /\ AttendedInHandlers'
  BY <1>0, <1>3, <1>6 DEF OneSender, AttendedInHandlers, Attended
<1>9. Slack'
  <2>1. \A t \in Threads : at'[t] \in {"start", "clear"} => Filled(sendBuf') = 0
    BY <1>1, <1>4 DEF Threads
  <2>2. QED
    BY <1>0, <1>2, <1>3, <2>1 DEF Slack
<1>10. RoomToPack'
  BY <1>2, <1>7 DEF RoomToPack, Size, Filled, Buffers
<1>11. Turns'
  <2>1. \A t \in Threads : at'[t] # "clear"
    BY <1>1, <1>4 DEF Threads
  <2>2. use.threads = 1 => at["caller"] = "idle"
    BY DEF HandleSent, Turn, Threads
  <2>3. QED
    BY <1>0, <1>1, <1>6, <2>1, <2>2 DEF Turns
<1>12. Unused'
  BY <1>0, <1>3 DEF SenderInv, Unused
<1>13. QED
  BY <1>7, <1>8, <1>9, <1>10, <1>11, <1>12 DEF SenderInv

LEMMA HandleErrorStep == ASSUME SenderInv, HandleError PROVE SenderInv'
<1>0. /\ point' = "closed" /\ writing' = <<>> /\ written' = 0
      /\ UNCHANGED <<use, toSend, sendBuf, isSending, at>>
      /\ \A t \in Threads : at[t] = "idle"
  BY DEF HandleError, sendVars
<1>1. Senders' = {}
  BY <1>0 DEF Senders
<1>2. SenderTypeOK'
  BY <1>0 DEF SenderInv, SenderTypeOK
<1>3. OneSender' /\ AttendedInHandlers' /\ Unused'
  BY <1>0, <1>1 DEF OneSender, AttendedInHandlers, Attended, Unused
<1>4. Slack' /\ RoomToPack'
  BY <1>0 DEF SenderInv, Slack, RoomToPack, Filled, Size
<1>5. Turns'
  BY <1>0 DEF Turns, Threads
<1>6. QED
  BY <1>2, <1>3, <1>4, <1>5 DEF SenderInv

LEMMA SenderSteps == SenderInv /\ [Next]_vars => SenderInv'
<1> SUFFICES ASSUME SenderInv, [Next]_vars PROVE SenderInv'
  OBVIOUS
<1>1. CASE Connected
  BY <1>1, OtherSteps DEF Connected, netVars
<1>2. CASE Break
  BY <1>2, OtherSteps DEF Break, netVars, SenderInv, SenderTypeOK
<1>3. CASE Receive
  BY <1>3, OtherSteps DEF Receive, SenderInv, SenderTypeOK
<1>4. CASE UNCHANGED vars
  BY <1>4, OtherSteps DEF vars, netVars, SenderInv, SenderTypeOK
<1>5. CASE Sending
  BY <1>5, TestStep, PackStep, WriteStep, ClearStep DEF Sending
<1>6. ASSUME NEW p \in Packages, Send(p) PROVE SenderInv'
  BY <1>6, SendStep
<1>7. QED
  BY <1>1, <1>2, <1>3, <1>4, <1>5, <1>6, TakeStep, HandleSentStep, HandleErrorStep DEF Next

-----------------------------------------------------------------------------
(* Whatever threads send, whatever part of a write the socket takes and however *)
(* the stream is read, the sending side of a connection keeps its invariant.    *)
THEOREM SenderInvariant == Spec => []SenderInv
BY InitSender, SenderSteps, PTL DEF Spec

(* m_bIsSending is a lock: two threads, writes or handlers never have the send *)
(* buffer at once, also when send() is called by another thread.               *)
THEOREM SendBufferHasOneOwner == Spec => []OneSender
<1>1. SenderInv => OneSender
  BY DEF SenderInv
<1>2. QED
  BY <1>1, SenderInvariant, PTL

(* When send() is called in handlers, no package is left in the queue with     *)
(* nobody to send it.                                                          *)
THEOREM NothingLeftQueued == Spec => []AttendedInHandlers
<1>1. SenderInv => AttendedInHandlers
  BY DEF SenderInv
<1>2. QED
  BY <1>1, SenderInvariant, PTL

-----------------------------------------------------------------------------
(* The bytes in a buffer. *)

LEMMA ResizeBytes ==
  ASSUME NEW b \in Buffers, NEW n \in Nat
  PROVE  \A i \in 1 .. n : i <= Size(b) => Resize(b, n).data[i] = b.data[i]
BY DEF Resize, Buffers

LEMMA StoreBytes ==
  ASSUME NEW b \in Buffers, NEW bytes \in Seq(Bytes), b.write + Len(bytes) <= Size(b)
  PROVE  /\ \A i \in 1 .. b.write : Store(b, bytes).data[i] = b.data[i]
         /\ \A i \in 1 .. Len(bytes) : Store(b, bytes).data[b.write + i] = bytes[i]
<1>1. b.write \in Nat /\ Size(b) \in Nat /\ Len(bytes) \in Nat /\ DOMAIN bytes = 1 .. Len(bytes)
  BY DEF Buffers, Size
<1>2. \A i \in 1 .. Size(b) : Store(b, bytes).data[i] =
        IF i - b.write \in DOMAIN bytes THEN bytes[i - b.write] ELSE b.data[i]
  BY DEF Store, Buffers
<1>3. ASSUME NEW i \in 1 .. b.write PROVE Store(b, bytes).data[i] = b.data[i]
  <2>1. i \in 1 .. Size(b) /\ i - b.write \notin DOMAIN bytes
    BY <1>1
  <2> QED BY <1>2, <2>1
<1>4. ASSUME NEW i \in 1 .. Len(bytes) PROVE Store(b, bytes).data[b.write + i] = bytes[i]
  <2>1. PICK j : j = b.write + i
    OBVIOUS
  <2>2. j \in 1 .. Size(b) /\ j - b.write = i /\ i \in DOMAIN bytes
    BY <1>1, <2>1
  <2>3. Store(b, bytes).data[j] = bytes[i]
    BY <1>2, <2>2
  <2> QED BY <2>1, <2>3
<1> QED BY <1>3, <1>4

LEMMA WriteableBytes ==
  ASSUME NEW b \in Buffers
  PROVE  \A i \in 1 .. Size(b) : Writeable(b).data[i] = b.data[i]
<1>1. Size(b) \in Nat /\ Size(b) + Inc \in Nat /\ \A i \in 1 .. Size(b) : i \in 1 .. Size(b) + Inc /\ i <= Size(b)
  BY DEF Buffers, Size
<1> QED BY <1>1, ResizeBytes DEF Writeable

LEMMA ReserveBytes ==
  ASSUME NEW b \in Buffers, NEW n \in Nat, b.write <= Size(b)
  PROVE  \A i \in 1 .. b.write : Reserve(b, n).data[i] = b.data[i]
<1>1. /\ Size(b) \in Nat /\ b.write \in Nat /\ b.write + n \in Nat
      /\ \A i \in 1 .. b.write : i \in 1 .. b.write + n /\ i <= Size(b)
  BY DEF Buffers, Size
<1> QED BY <1>1, ResizeBytes DEF Reserve

\* The bytes a package takes in a stream.
Whole(p) == Word + Length[p]

\* pack leaves what is in the buffer, and puts the length and the package behind it.
LEMMA PackBytes ==
  ASSUME NEW b \in Buffers, NEW p \in Packages, b.write <= Size(b)
  PROVE  /\ Pack(b, p).write = b.write + Whole(p)
         /\ Pack(b, p).write <= Size(Pack(b, p))
         /\ \A i \in 1 .. b.write : Pack(b, p).data[i] = b.data[i]
         /\ \A k \in 1 .. Whole(p) : Pack(b, p).data[b.write + k] = Byte(p, k)
<1> DEFINE n  == Length[p] + Word
           b1 == Reserve(b, n)
           b2 == Writeable(b1)
           b3 == Store(b2, Header(p))
           b4 == Writeable(b3)
           b5 == Store(b4, Content(p))
<1>0. n \in Nat /\ Length[p] \in Nat /\ b.write \in Nat /\ Size(b) \in Nat
  BY DEF Buffers, Size
<1>1. /\ b1 \in Buffers /\ b1.write = b.write /\ b.write + n <= Size(b1) /\ Size(b1) \in Nat
      /\ \A i \in 1 .. b.write : b1.data[i] = b.data[i]
  <2>1. /\ b1 \in Buffers /\ b1.write = b.write
        /\ Size(b1) = IF Size(b) - b.write < n THEN b.write + n ELSE Size(b)
    BY <1>0, ReserveType
  <2>2. \A i \in 1 .. b.write : b1.data[i] = b.data[i]
    BY <1>0, ReserveBytes
  <2> HIDE DEF b1, n
  <2> QED BY <1>0, <2>1, <2>2
<1>2. /\ b2 \in Buffers /\ b2.write = b.write /\ b.write + n <= Size(b2) /\ Size(b2) \in Nat
      /\ \A i \in 1 .. b.write : b2.data[i] = b.data[i]
  <2>1. b2 \in Buffers /\ b2.write = b.write /\ b.write + n <= Size(b2) /\ Size(b2) \in Nat
    BY <1>0, <1>1, WriteableType
  <2>2. \A i \in 1 .. Size(b1) : b2.data[i] = b1.data[i]
    BY <1>1, WriteableBytes
  <2>3. \A i \in 1 .. b.write : i \in 1 .. Size(b1)
    BY <1>0, <1>1
  <2> HIDE DEF b2, b1
  <2> QED BY <1>1, <2>1, <2>2, <2>3
<1>3. /\ b3 \in Buffers /\ b3.write = b.write + Word /\ b.write + n <= Size(b3) /\ Size(b3) \in Nat
      /\ \A i \in 1 .. b.write : b3.data[i] = b.data[i]
      /\ \A k \in 1 .. Word : b3.data[b.write + k] = Byte(p, k)
  <2>1. Header(p) \in Seq(Bytes) /\ Len(Header(p)) = Word /\ \A k \in 1 .. Word : Header(p)[k] = Byte(p, k)
    BY ByteTypes DEF Header
  <2>2. b2.write + Len(Header(p)) <= Size(b2)
    BY <1>0, <1>2, <2>1
  <2> HIDE DEF b1, b2
  <2>3. /\ b3 \in Buffers /\ b3.write = b.write + Word /\ Size(b3) = Size(b2)
    BY <1>2, <2>1, StoreType
  <2>4. /\ \A i \in 1 .. b2.write : b3.data[i] = b2.data[i]
        /\ \A i \in 1 .. Len(Header(p)) : b3.data[b2.write + i] = Header(p)[i]
    BY <1>2, <2>1, <2>2, StoreBytes
  <2> HIDE DEF b3
  <2> QED BY <1>2, <2>1, <2>3, <2>4
<1>4. /\ b4 \in Buffers /\ b4.write = b.write + Word /\ b.write + n <= Size(b4) /\ Size(b4) \in Nat
      /\ \A i \in 1 .. b.write : b4.data[i] = b.data[i]
      /\ \A k \in 1 .. Word : b4.data[b.write + k] = Byte(p, k)
  <2> HIDE DEF b3
  <2>1. b4 \in Buffers /\ b4.write = b3.write /\ b.write + n <= Size(b4) /\ Size(b4) \in Nat
    BY <1>0, <1>3, WriteableType
  <2>2. \A i \in 1 .. Size(b3) : b4.data[i] = b3.data[i]
    BY <1>3, WriteableBytes
  <2>3. /\ \A i \in 1 .. b.write : i \in 1 .. Size(b3)
        /\ \A k \in 1 .. Word : b.write + k \in 1 .. Size(b3)
    BY <1>0, <1>3
  <2> HIDE DEF b4
  <2> QED BY <1>3, <2>1, <2>2, <2>3
<1>5. /\ b5.write = b.write + Whole(p) /\ b.write + n <= Size(b5)
      /\ \A i \in 1 .. b.write : b5.data[i] = b.data[i]
      /\ \A k \in 1 .. Whole(p) : b5.data[b.write + k] = Byte(p, k)
  <2> HIDE DEF b4
  <2>1. /\ Content(p) \in Seq(Bytes) /\ Len(Content(p)) = Length[p]
        /\ \A k \in 1 .. Length[p] : Content(p)[k] = Byte(p, Word + k)
    BY ByteTypes DEF Content
  <2>2. b4.write + Len(Content(p)) <= Size(b4)
    BY <1>0, <1>4, <2>1
  <2>3. /\ b5.write = b.write + Word + Length[p] /\ Size(b5) = Size(b4)
    BY <1>4, <2>1, StoreType
  <2>4. /\ \A i \in 1 .. b4.write : b5.data[i] = b4.data[i]
        /\ \A i \in 1 .. Len(Content(p)) : b5.data[b4.write + i] = Content(p)[i]
    BY <1>4, <2>1, <2>2, StoreBytes
  <2> HIDE DEF b5, n
  <2>5. \A i \in 1 .. b.write : b5.data[i] = b.data[i]
    <3>1. \A i \in 1 .. b.write : i \in 1 .. b4.write
      BY <1>0, <1>4
    <3> QED BY <1>4, <2>4, <3>1
  <2>6. ASSUME NEW k \in 1 .. Whole(p) PROVE b5.data[b.write + k] = Byte(p, k)
    <3>1. CASE k <= Word
      <4>1. k \in 1 .. Word /\ b.write + k \in 1 .. b4.write
        BY <1>0, <1>4, <3>1 DEF Whole
      <4> QED BY <1>4, <2>4, <4>1
    <3>2. CASE k > Word
      <4>1. k - Word \in 1 .. Length[p] /\ b4.write + (k - Word) = b.write + k /\ Word + (k - Word) = k
        BY <1>0, <1>4, <2>6, <3>2 DEF Whole
      <4>2. b5.data[b4.write + (k - Word)] = Content(p)[k - Word]
        BY <2>1, <2>4, <4>1
      <4>3. Content(p)[k - Word] = Byte(p, Word + (k - Word))
        BY <2>1, <4>1
      <4> QED BY <4>1, <4>2, <4>3
    <3> QED BY <1>0, <2>6, <3>1, <3>2 DEF Whole
  <2>7. b5.write = b.write + Whole(p)
    BY <1>0, <2>3 DEF Whole
  <2> QED BY <1>4, <2>3, <2>5, <2>6, <2>7
<1>6. Pack(b, p) = b5
  BY DEF Pack
<1>7. b.write + n = b.write + Whole(p)
  BY <1>0 DEF Whole
<1> HIDE DEF b5, n
<1> QED BY <1>5, <1>6, <1>7

\* What was written whole leaves an empty buffer.
LEMMA EraseWhole ==
  ASSUME NEW b \in Buffers, b.read = 0
  PROVE  /\ Erase(b, b.write) \in Buffers
         /\ Erase(b, b.write).read = 0 /\ Erase(b, b.write).write = 0
<1>1. b.write \in Nat /\ b.data \in Seq(Bytes) /\ Size(b) \in Nat /\ Size(b) = Len(b.data)
  BY DEF Buffers, Size
<1> DEFINE data == SubSeq(b.data, b.write + 1, Size(b))
<1>2. data \in Seq(Bytes)
  BY <1>1
<1>3. Erase(b, b.write) = [data |-> data, write |-> 0, read |-> 0]
  <2>1. b.write >= b.write /\ b.read + b.write = b.write
    BY <1>1
  <2> QED BY <2>1 DEF Erase
<1> HIDE DEF data
<1> QED BY <1>2, <1>3 DEF Buffers

Less == {ss \in Nat \X Nat : ss[1] < ss[2]}

LEMMA LessIsWellFounded == IsWellFoundedOn(Less, Nat)
BY NatLessThanWellFounded DEF OpToRel, Less

\* A set of numbers that is not empty has a least one.
LEMMA LeastNatural ==
  ASSUME NEW T \in SUBSET Nat, T # {}
  PROVE  \E n \in T : \A m \in T : ~(m < n)
<1>1. \E n \in T : \A m \in T : <<m, n>> \notin Less
  BY LessIsWellFounded, WFMin
<1> QED BY <1>1 DEF Less

-----------------------------------------------------------------------------
(* The stream of frames, and what the receiver finds in its buffer. *)

\* Where the frames of packages begin in a stream, and where the last one ends.
Marks(off, pkgs) ==
  /\ off \in [1 .. Len(pkgs) + 1 -> Nat]
  /\ off[1] = 0
  /\ \A i \in 1 .. Len(pkgs) : off[i + 1] = off[i] + Whole(pkgs[i])

\* The stream of the frames.
Laid(stream, off, pkgs) ==
  /\ stream \in Seq(Bytes)
  /\ Len(stream) = off[Len(pkgs) + 1]
  /\ \A i \in 1 .. Len(pkgs) : \A k \in 1 .. Whole(pkgs[i]) : stream[off[i] + k] = Byte(pkgs[i], k)

\* A buffer holds the bytes of the stream behind a place, from its beginning on.
Lies(b, stream, from) ==
  /\ b \in Buffers /\ b.read = 0 /\ b.write <= Size(b)
  /\ \A i \in 1 .. b.write : b.data[i] = stream[from + i]

\* A buffer in which the frames behind the first g packages begin.
Reads(b, stream, off, pkgs, g) ==
  /\ pkgs \in Seq(Packages) /\ Marks(off, pkgs) /\ Laid(stream, off, pkgs)
  /\ g \in 0 .. Len(pkgs)
  /\ Lies(b, stream, off[g + 1])
  /\ off[g + 1] + b.write <= Len(stream)

LEMMA Wholes ==
  ASSUME NEW p \in Packages
  PROVE  /\ Whole(p) \in Nat \ {0} /\ Length[p] \in Nat \ {0} /\ Whole(p) = Word + Length[p]
BY DEF Whole

LEMMA MarksGrow ==
  ASSUME NEW pkgs \in Seq(Packages), NEW off, Marks(off, pkgs),
         NEW i \in 1 .. Len(pkgs) + 1, NEW j \in 1 .. Len(pkgs) + 1, i <= j
  PROVE  off[i] <= off[j]
<1> DEFINE n == Len(pkgs)
           T == {k \in Nat : i <= k /\ k <= n + 1 /\ ~(off[i] <= off[k])}
<1>1. n \in Nat /\ i \in Nat /\ j \in Nat
  OBVIOUS
<1>2. /\ \A k \in 1 .. n + 1 : off[k] \in Nat
      /\ \A k \in 1 .. n : off[k + 1] = off[k] + Whole(pkgs[k]) /\ Whole(pkgs[k]) \in Nat
  <2>1. \A k \in 1 .. n : pkgs[k] \in Packages
    OBVIOUS
  <2>2. \A k \in 1 .. n : Whole(pkgs[k]) \in Nat
    BY <2>1, Wholes
  <2> QED BY <2>2 DEF Marks
<1>3. T = {}
  <2> SUFFICES ASSUME T # {} PROVE FALSE
    OBVIOUS
  <2>1. PICK k \in T : \A l \in T : ~(l < k)
    <3>1. T \in SUBSET Nat
      OBVIOUS
    <3> HIDE DEF T
    <3> QED BY <3>1, LeastNatural
  <2>2. k \in Nat /\ i < k /\ k <= n + 1 /\ ~(off[i] <= off[k])
    BY <1>1, <1>2
  <2>3. k - 1 \in 1 .. n /\ i <= k - 1 /\ k - 1 \in Nat /\ k - 1 < k /\ k - 1 + 1 = k
    BY <1>1, <2>2
  <2>4. k - 1 \notin T
    <3> HIDE DEF T
    <3> QED BY <2>1, <2>3
  <2>5. off[i] <= off[k - 1]
    BY <1>1, <2>3, <2>4
  <2>6. off[k] = off[k - 1] + Whole(pkgs[k - 1]) /\ Whole(pkgs[k - 1]) \in Nat
    BY <1>2, <2>3
  <2>7. off[k - 1] \in Nat /\ off[i] \in Nat
    BY <1>1, <1>2, <2>3
  <2> QED BY <2>2, <2>5, <2>6, <2>7
<1>4. j \notin T
  BY <1>3
<1> QED BY <1>1, <1>4

LEMMA LengthIsThere ==
  ASSUME NEW b, NEW stream, NEW off, NEW pkgs, NEW g, Reads(b, stream, off, pkgs, g),
         NEW i \in g + 1 .. Len(pkgs), NEW place \in Nat, off[g + 1] + place = off[i],
         place + Word <= b.write, NEW wrong
  PROVE  LengthAt(b, place, wrong) = Length[pkgs[i]]
<1> DEFINE p == pkgs[i]
           piece == SubSeq(b.data, place + 1, place + Word)
<1>1. /\ pkgs \in Seq(Packages) /\ Len(pkgs) \in Nat /\ g \in Nat /\ i \in 1 .. Len(pkgs) /\ p \in Packages
      /\ off[g + 1] \in Nat /\ off[i] \in Nat
  <2>1. pkgs \in Seq(Packages) /\ Len(pkgs) \in Nat /\ g \in 0 .. Len(pkgs)
    BY DEF Reads
  <2>2. i \in 1 .. Len(pkgs) /\ i \in 1 .. Len(pkgs) + 1 /\ g + 1 \in 1 .. Len(pkgs) + 1 /\ p \in Packages
    BY <2>1
  <2>3. off \in [1 .. Len(pkgs) + 1 -> Nat]
    BY DEF Reads, Marks
  <2>4. off[g + 1] \in Nat /\ off[i] \in Nat
    BY <2>2, <2>3
  <2>5. g \in Nat
    BY <2>1
  <2> HIDE DEF p
  <2> QED BY <2>1, <2>2, <2>4, <2>5
<1>2. /\ b.data \in Seq(Bytes) /\ b.write \in Nat /\ Len(b.data) \in Nat /\ b.write <= Len(b.data)
      /\ \A k \in 1 .. b.write : b.data[k] = stream[off[g + 1] + k]
  BY DEF Reads, Lies, Buffers, Size
<1>3. \A k \in 1 .. Word : stream[off[i] + k] = Byte(p, k)
  <2>1. \A k \in 1 .. Whole(p) : stream[off[i] + k] = Byte(p, k)
    BY <1>1 DEF Reads, Laid
  <2>2. \A k \in 1 .. Word : k \in 1 .. Whole(p)
    <3> DEFINE w == Whole(p)
               L == Length[p]
    <3>1. p \in Packages
      BY <1>1
    <3>2. w = Word + L /\ L \in Nat
      BY <3>1, Wholes
    <3> HIDE DEF w, L
    <3>3. \A k \in 1 .. Word : k \in 1 .. w
      BY <3>2
    <3> QED BY <3>3 DEF w
  <2> QED BY <2>1, <2>2
<1> HIDE DEF p
<1>4. \A k \in 1 .. Word : b.data[place + k] = Byte(p, k)
  <2> SUFFICES ASSUME NEW k \in 1 .. Word PROVE b.data[place + k] = Byte(p, k)
    OBVIOUS
  <2> DEFINE c == off[g + 1]
             o == off[i]
  <2>1. c \in Nat /\ o \in Nat /\ c + place = o
    BY <1>1
  <2> HIDE DEF c, o
  <2>2. place + k \in 1 .. b.write /\ c + (place + k) = o + k
    BY <1>2, <2>1
  <2>3. b.data[place + k] = stream[c + (place + k)]
    BY <1>2, <2>2 DEF c
  <2> QED BY <1>3, <2>2, <2>3 DEF o
<1>5. piece = Header(p)
  <2>1. /\ piece \in Seq(Bytes) /\ Len(piece) = Word
        /\ \A k \in 1 .. Word : piece[k] = b.data[place + k]
    BY <1>2
  <2>2. Header(p) \in Seq(Bytes) /\ Len(Header(p)) = Word /\ \A k \in 1 .. Word : Header(p)[k] = Byte(p, k)
    BY <1>1, ByteTypes DEF Header
  <2> HIDE DEF piece
  <2> QED BY <1>4, <2>1, <2>2, SeqEqual
<1>6. b.data[place + 1].of = p
  <2>1. b.data[place + 1] = Byte(p, 1)
    BY <1>4
  <2> QED BY <2>1 DEF Byte
<1> QED BY <1>1, <1>5, <1>6 DEF LengthAt, p

LEMMA PieceIsThere ==
  ASSUME NEW b, NEW stream, NEW off, NEW pkgs, NEW g, Reads(b, stream, off, pkgs, g),
         NEW i \in g + 1 .. Len(pkgs), NEW place \in Nat, off[g + 1] + place = off[i],
         place + Whole(pkgs[i]) <= b.write, NEW wrong
  PROVE  Piece(b, place, wrong) = Content(pkgs[i])
<1> DEFINE p == pkgs[i]
           start == place + Word
           piece == SubSeq(b.data, start + 1, start + Length[p])
<1>1. /\ pkgs \in Seq(Packages) /\ Len(pkgs) \in Nat /\ g \in Nat /\ i \in 1 .. Len(pkgs) /\ p \in Packages
      /\ off[g + 1] \in Nat /\ off[i] \in Nat
  <2>1. pkgs \in Seq(Packages) /\ Len(pkgs) \in Nat /\ g \in 0 .. Len(pkgs)
    BY DEF Reads
  <2>2. i \in 1 .. Len(pkgs) /\ i \in 1 .. Len(pkgs) + 1 /\ g + 1 \in 1 .. Len(pkgs) + 1 /\ p \in Packages
    BY <2>1
  <2>3. off \in [1 .. Len(pkgs) + 1 -> Nat]
    BY DEF Reads, Marks
  <2>4. off[g + 1] \in Nat /\ off[i] \in Nat
    BY <2>2, <2>3
  <2>5. g \in Nat
    BY <2>1
  <2> HIDE DEF p
  <2> QED BY <2>1, <2>2, <2>4, <2>5
<1>2. /\ b.data \in Seq(Bytes) /\ b.write \in Nat /\ Len(b.data) \in Nat /\ b.write <= Len(b.data)
      /\ b.read = 0 /\ \A k \in 1 .. b.write : b.data[k] = stream[off[g + 1] + k]
  BY DEF Reads, Lies, Buffers, Size
<1>3. /\ Length[p] \in Nat /\ Whole(p) = Word + Length[p]
      /\ \A k \in 1 .. Whole(p) : stream[off[i] + k] = Byte(p, k)
  BY <1>1, Wholes DEF Reads, Laid
<1>4. LengthAt(b, place, wrong) = Length[p]
  <2>1. place + Word <= b.write
    BY <1>1, <1>2, <1>3
  <2> QED BY <2>1, LengthIsThere
<1> HIDE DEF p
<1>5. \A k \in 1 .. Length[p] : b.data[start + k] = Byte(p, Word + k)
  <2> SUFFICES ASSUME NEW k \in 1 .. Length[p] PROVE b.data[start + k] = Byte(p, Word + k)
    OBVIOUS
  <2> DEFINE c == off[g + 1]
             o == off[i]
             w == Whole(p)
  <2>1. c \in Nat /\ o \in Nat /\ c + place = o /\ w = Word + Length[p] /\ place + w <= b.write
    BY <1>1, <1>3 DEF p
  <2> HIDE DEF c, o, w
  <2>2. start + k \in 1 .. b.write /\ c + (start + k) = o + (Word + k) /\ Word + k \in 1 .. w
    <3> DEFINE L == Length[p]
               e == b.write
    <3>1. /\ L \in Nat /\ e \in Nat /\ k \in 1 .. L /\ c \in Nat /\ o \in Nat
          /\ c + place = o /\ w = Word + L /\ place + w <= e
      BY <1>2, <1>3, <2>1
    <3> HIDE DEF L, e
    <3>2. start + k \in 1 .. e /\ c + (start + k) = o + (Word + k) /\ Word + k \in 1 .. w
      BY <3>1
    <3> QED BY <3>2 DEF e
  <2>3. b.data[start + k] = stream[c + (start + k)]
    BY <1>2, <2>2 DEF c
  <2>4. stream[o + (Word + k)] = Byte(p, Word + k)
    BY <1>3, <2>2 DEF o, w
  <2> QED BY <2>2, <2>3, <2>4
<1>6. piece = Content(p)
  <2>1. /\ piece \in Seq(Bytes) /\ Len(piece) = Length[p]
        /\ \A k \in 1 .. Length[p] : piece[k] = b.data[start + k]
    <3>1. start \in Nat /\ start + Length[p] <= Len(b.data)
      <4> DEFINE L == Length[p]
                 e == b.write
                 z == Len(b.data)
      <4>1. L \in Nat /\ e \in Nat /\ z \in Nat /\ e <= z /\ Whole(p) = Word + L
        BY <1>2, <1>3
      <4>2. place + Whole(p) <= e
        BY DEF p
      <4> HIDE DEF L, e, z
      <4>3. start \in Nat /\ start + L <= z
        BY <4>1, <4>2
      <4> QED BY <4>3 DEF L, z
    <3> HIDE DEF start
    <3>2. \A x \in Nat, y \in Nat : x + y <= Len(b.data) =>
            /\ SubSeq(b.data, x + 1, x + y) \in Seq(Bytes) /\ Len(SubSeq(b.data, x + 1, x + y)) = y
            /\ \A k \in 1 .. y : SubSeq(b.data, x + 1, x + y)[k] = b.data[x + k]
      BY <1>2
    <3> QED BY <1>3, <3>1, <3>2
  <2>2. /\ Content(p) \in Seq(Bytes) /\ Len(Content(p)) = Length[p]
        /\ \A k \in 1 .. Length[p] : Content(p)[k] = Byte(p, Word + k)
    BY <1>1, ByteTypes DEF Content
  <2> HIDE DEF piece
  <2>3. \A k \in 1 .. Len(piece) : piece[k] = Content(p)[k]
    BY <1>5, <2>1, <2>2
  <2>4. piece \in Seq(Bytes) /\ Content(p) \in Seq(Bytes) /\ Len(piece) = Len(Content(p))
    BY <2>1, <2>2
  <2> QED BY <2>3, <2>4, SeqEqual
<1>7. b.read + place + Word = start /\ b.read + place = place
  BY <1>2
<1> QED BY <1>4, <1>6, <1>7 DEF Piece, p

\* What a handler is given is the package.
LEMMA PackageOfContent ==
  ASSUME NEW p \in Packages
  PROVE  Package(Content(p)) = p
<1>1. ASSUME NEW q \in Packages, Content(q) = Content(p) PROVE q = p
  <2>1. 1 \in 1 .. Length[p] /\ 1 \in 1 .. Length[q]
    BY Wholes
  <2>2. Content(p)[1] = Byte(p, Word + 1) /\ Content(q)[1] = Byte(q, Word + 1)
    BY <2>1 DEF Content
  <2>3. Byte(p, Word + 1).of = p /\ Byte(q, Word + 1).of = q
    BY DEF Byte
  <2> QED BY <1>1, <2>2, <2>3
<1>2. Package(Content(p)) = CHOOSE q \in Packages : Content(p) = Content(q)
  BY DEF Package
<1> QED BY <1>1, <1>2

LEMMA LengthType ==
  ASSUME NEW b \in Buffers, NEW place \in Nat, place + Word <= Size(b), NEW wrong \in Nat
  PROVE  LengthAt(b, place, wrong) \in Nat
<1>1. CASE \E p \in Packages : SubSeq(b.data, place + 1, place + Word) = Header(p)
  <2>1. PICK p \in Packages : SubSeq(b.data, place + 1, place + Word) = Header(p)
    BY <1>1
  <2>2. SubSeq(b.data, place + 1, place + Word)[1] = b.data[place + 1]
    BY DEF Buffers, Size
  <2>3. Header(p)[1] = Byte(p, 1)
    BY DEF Header
  <2>4. b.data[place + 1].of = p
    BY <2>1, <2>2, <2>3 DEF Byte
  <2> QED BY <1>1, <2>4 DEF LengthAt
<1>2. CASE ~\E p \in Packages : SubSeq(b.data, place + 1, place + Word) = Header(p)
  BY <1>2 DEF LengthAt
<1> QED BY <1>1, <1>2

NextCut(f, b, wrong, bi) ==
  IF FrameAt(b, bi, wrong)
  THEN <<bi>> \o f[bi + Word + LengthAt(b, b.read + bi, wrong)]
  ELSE <<bi>>

IsNext(f, b, wrong) == f = [bi \in 0 .. Filled(b) |-> NextCut(f, b, wrong, bi)]

LEMMA FrameFits ==
  ASSUME NEW b \in Buffers, b.read = 0, b.write <= Size(b), NEW wrong \in Nat,
         NEW bi \in 0 .. Filled(b), FrameAt(b, bi, wrong)
  PROVE  bi + Word + LengthAt(b, b.read + bi, wrong) \in bi + 1 .. Filled(b)
<1>1. b.write \in Nat /\ Size(b) \in Nat /\ Filled(b) = b.write /\ bi \in Nat /\ b.read + bi = bi
  BY DEF Buffers, Size, Filled
<1>2. b.write - bi >= Word /\ b.write - bi - Word >= LengthAt(b, bi, wrong)
  BY <1>1 DEF FrameAt
<1>3. LengthAt(b, bi, wrong) \in Nat
  <2>1. bi + Word <= Size(b)
    BY <1>1, <1>2
  <2> QED BY <1>1, <2>1, LengthType
<1> DEFINE l == LengthAt(b, bi, wrong)
<1> HIDE DEF l
<1>4. bi + Word + l \in bi + 1 .. b.write
  BY <1>1, <1>2, <1>3 DEF l
<1> QED BY <1>1, <1>4 DEF l

LEMMA NextExists ==
  ASSUME NEW b \in Buffers, b.read = 0, b.write <= Size(b), NEW wrong \in Nat
  PROVE  \E f : IsNext(f, b, wrong)
<1> DEFINE n == Filled(b)
           Part(f, m) == f = [bi \in n + 1 - m .. n |-> NextCut(f, b, wrong, bi)]
           T == {m \in 0 .. n + 1 : \A f : ~Part(f, m)}
<1>0. n \in Nat
  BY DEF Filled, Buffers
<1>1. SUFFICES ASSUME T # {} PROVE FALSE
  <2>1. n + 1 \in 0 .. n + 1 /\ n + 1 - (n + 1) = 0
    BY <1>0
  <2>2. \A f : Part(f, n + 1) <=> IsNext(f, b, wrong)
    <3> HIDE DEF n
    <3> QED BY <2>1 DEF IsNext, n
  <2>3. (\E f : Part(f, n + 1)) \/ n + 1 \in T
    <3> HIDE DEF Part
    <3> QED BY <2>1
  <2> HIDE DEF T, Part
  <2> QED BY <2>2, <2>3
<1>2. PICK m \in T : \A k \in T : ~(k < m)
  <2>1. T \in SUBSET Nat
    BY <1>0
  <2> HIDE DEF T
  <2> QED BY <1>1, <2>1, LeastNatural
<1>3. m \in 0 .. n + 1 /\ m \in Nat /\ \A f : ~Part(f, m)
  BY <1>0
<1>4. CASE m = 0
  <2>1. n + 1 - m .. n = {}
    BY <1>0, <1>4
  <2>2. PICK f : f = [bi \in n + 1 - m .. n |-> <<>>]
    OBVIOUS
  <2>3. Part(f, m)
    BY <2>1, <2>2
  <2> HIDE DEF Part
  <2> QED BY <1>3, <2>3
<1>5. CASE m # 0
  <2> DEFINE low == n + 1 - m
  <2>1. m - 1 \in 0 .. n + 1 /\ m - 1 < m /\ m - 1 \in Nat /\ n + 1 - (m - 1) = low + 1
        /\ low \in 0 .. n /\ low \in Nat
    BY <1>0, <1>3, <1>5
  <2>2. PICK f : Part(f, m - 1)
    <3>1. m - 1 \notin T
      <4> HIDE DEF T
      <4> QED BY <1>2, <2>1
    <3> HIDE DEF Part
    <3> QED BY <2>1, <3>1
  <2>3. f = [bi \in low + 1 .. n |-> NextCut(f, b, wrong, bi)]
    <3> HIDE DEF low, n
    <3> QED BY <2>1, <2>2
  <2> HIDE DEF T, Part, low, n
  <2>4. PICK g : g = [bi \in low .. n |-> IF bi = low THEN NextCut(f, b, wrong, bi) ELSE f[bi]]
    OBVIOUS
  <2>5. \A bi \in low + 1 .. n : bi \in low .. n /\ bi # low /\ g[bi] = f[bi]
    BY <1>0, <2>1, <2>4
  <2>6. ASSUME NEW bi \in low .. n PROVE NextCut(g, b, wrong, bi) = NextCut(f, b, wrong, bi)
    <3>1. CASE FrameAt(b, bi, wrong)
      <4> DEFINE step == bi + Word + LengthAt(b, b.read + bi, wrong)
      <4>1. step \in low + 1 .. n
        <5>1. bi \in 0 .. n
          BY <1>0, <2>1
        <5>2. step \in bi + 1 .. n
          <6>1. bi \in 0 .. Filled(b)
            BY <5>1 DEF n
          <6> QED BY <3>1, <6>1, FrameFits DEF n
        <5> HIDE DEF step
        <5> QED BY <1>0, <2>1, <5>1, <5>2
      <4>2. g[step] = f[step]
        <5> HIDE DEF step
        <5> QED BY <2>5, <4>1
      <4> QED BY <3>1, <4>2 DEF NextCut
    <3>2. CASE ~FrameAt(b, bi, wrong)
      BY <3>2 DEF NextCut
    <3> QED BY <3>1, <3>2
  <2>7. ASSUME NEW bi \in low .. n PROVE g[bi] = NextCut(g, b, wrong, bi)
    <3>1. CASE bi = low
      BY <2>4, <2>6, <3>1
    <3>2. CASE bi # low
      <4>1. bi \in low + 1 .. n
        BY <1>0, <2>1, <3>2
      <4>2. f[bi] = NextCut(f, b, wrong, bi)
        BY <2>3, <4>1
      <4> QED BY <2>5, <2>6, <4>1, <4>2
    <3> QED BY <3>1, <3>2
  <2>8. g = [bi \in low .. n |-> NextCut(g, b, wrong, bi)]
    <3>1. g = [bi \in low .. n |-> g[bi]]
      BY <2>4
    <3> QED BY <2>7, <3>1
  <2>9. Part(g, m)
    BY <2>8 DEF Part, low
  <2> QED BY <1>3, <2>9
<1> QED BY <1>4, <1>5

\* How many packages lie whole in the buffer: m.
Complete(b, off, pkgs, g, m) ==
  /\ m \in 0 .. Len(pkgs) - g
  /\ off[g + m + 1] <= off[g + 1] + b.write
  /\ g + m < Len(pkgs) => off[g + 1] + b.write < off[g + m + 2]

LEMMA CompleteExists ==
  ASSUME NEW b, NEW stream, NEW off, NEW pkgs, NEW g, Reads(b, stream, off, pkgs, g)
  PROVE  \E m : Complete(b, off, pkgs, g, m)
<1> DEFINE n == Len(pkgs)
           top == off[g + 1] + b.write
           T == {k \in 0 .. n - g : off[n - k + 1] <= top}
<1>1. n \in Nat /\ g \in 0 .. n /\ n - g \in Nat /\ off \in [1 .. n + 1 -> Nat] /\ b.write \in Nat
  BY DEF Reads, Marks, Lies, Buffers
<1>2. T # {} /\ T \in SUBSET Nat
  <2>1. n - (n - g) + 1 = g + 1 /\ g + 1 \in 1 .. n + 1
    BY <1>1
  <2>2. off[g + 1] <= off[g + 1] + b.write
    BY <1>1, <2>1
  <2>3. n - g \in T
    BY <1>1, <2>1, <2>2
  <2>4. T \in SUBSET Nat
    BY <1>1
  <2> HIDE DEF T
  <2> QED BY <2>3, <2>4
<1>3. PICK k \in T : \A l \in T : ~(l < k)
  <2> HIDE DEF T
  <2> QED BY <1>2, LeastNatural
<1>4. k \in 0 .. n - g /\ k \in Nat /\ off[n - k + 1] <= top
  BY <1>1, <1>3
<1>5. PICK m : m = n - k - g
  OBVIOUS
<1>6. m \in 0 .. n - g /\ g + m + 1 = n - k + 1
  BY <1>1, <1>4, <1>5
<1>7. ASSUME g + m < n PROVE top < off[g + m + 2]
  <2>1. k - 1 \in 0 .. n - g /\ k - 1 < k /\ n - (k - 1) + 1 = g + m + 2 /\ g + m + 2 \in 1 .. n + 1 /\ g + 1 \in 1 .. n + 1
    BY <1>1, <1>4, <1>5, <1>7
  <2>2. k - 1 \notin T
    <3> HIDE DEF T
    <3> QED BY <1>3, <2>1
  <2>3. ~(off[g + m + 2] <= top)
    <3> HIDE DEF top
    <3> QED BY <2>1, <2>2
  <2>4. off[g + m + 2] \in Nat /\ off[g + 1] \in Nat
    BY <1>1, <2>1
  <2> QED BY <1>1, <2>3, <2>4
<1>8. off[g + m + 1] <= top
  BY <1>4, <1>6
<1> QED BY <1>6, <1>7, <1>8 DEF Complete

\* split finds the packages that lie whole in the buffer.
LEMMA CutsAre ==
  ASSUME NEW b, NEW stream, NEW off, NEW pkgs, NEW g, Reads(b, stream, off, pkgs, g),
         NEW m, Complete(b, off, pkgs, g, m), NEW wrong \in Nat
  PROVE  Cuts(b, wrong) = [j \in 1 .. m + 1 |-> off[g + j] - off[g + 1]]
<1> DEFINE n == Len(pkgs)
           c == off[g + 1]
           W == b.write
           f == CHOOSE h : IsNext(h, b, wrong)
           place(d) == off[g + m + 1 - d] - c
           tail(d) == [j \in 1 .. d + 1 |-> off[g + m - d + j] - c]
           T == {d \in 0 .. m : f[place(d)] # tail(d)}
<1>1. /\ n \in Nat /\ g \in 0 .. n /\ m \in 0 .. n - g /\ m \in Nat /\ g \in Nat
      /\ pkgs \in Seq(Packages) /\ W \in Nat /\ b \in Buffers /\ b.read = 0 /\ W <= Size(b)
  BY DEF Reads, Lies, Complete, Buffers
<1>2. /\ off \in [1 .. n + 1 -> Nat]
      /\ \A i \in 1 .. n : off[i + 1] = off[i] + Whole(pkgs[i])
      /\ c + W <= off[n + 1]
  BY DEF Reads, Marks, Laid
<1>3. Filled(b) = W
  BY <1>1 DEF Filled
<1>4. IsNext(f, b, wrong)
  BY <1>1, NextExists
<1>5. \A bi \in 0 .. W : f[bi] = NextCut(f, b, wrong, bi)
  <2> HIDE DEF f
  <2> QED BY <1>3, <1>4 DEF IsNext
<1>6. Cuts(b, wrong) = f[0]
  BY DEF Cuts, IsNext, NextCut
<1> HIDE DEF f
<1>7. c \in Nat /\ \A i \in g + 1 .. n + 1 : off[i] \in Nat /\ c <= off[i]
  <2>1. g + 1 \in 1 .. n + 1 /\ \A i \in g + 1 .. n + 1 : i \in 1 .. n + 1 /\ g + 1 <= i
    BY <1>1
  <2>2. Marks(off, pkgs)
    BY DEF Reads
  <2> QED BY <1>1, <1>2, <2>1, <2>2, MarksGrow
<1>8. \A i \in g + 1 .. g + m + 1 : off[i] - c \in 0 .. W /\ i \in 1 .. n + 1 /\ i \in g + 1 .. n + 1
  <2> SUFFICES ASSUME NEW i \in g + 1 .. g + m + 1
               PROVE  off[i] - c \in 0 .. W /\ i \in 1 .. n + 1 /\ i \in g + 1 .. n + 1
    OBVIOUS
  <2>1. i \in g + 1 .. n + 1 /\ i \in 1 .. n + 1 /\ g + m + 1 \in 1 .. n + 1 /\ i <= g + m + 1
        /\ g + m + 1 \in g + 1 .. n + 1
    BY <1>1
  <2>2. off[i] <= off[g + m + 1]
    <3>1. Marks(off, pkgs)
      BY DEF Reads
    <3> QED BY <1>1, <2>1, <3>1, MarksGrow
  <2>3. off[g + m + 1] <= c + W
    BY DEF Complete
  <2>4. off[i] \in Nat /\ c <= off[i] /\ off[g + m + 1] \in Nat
    BY <1>7, <2>1
  <2> DEFINE o == off[i]
             e == off[g + m + 1]
  <2>5. o \in Nat /\ c <= o /\ o <= e /\ e \in Nat /\ e <= c + W /\ c \in Nat /\ W \in Nat
    BY <1>1, <1>7, <2>2, <2>3, <2>4
  <2> HIDE DEF o, e, c
  <2>6. o - c \in 0 .. W
    BY <2>5
  <2> QED BY <2>1, <2>6 DEF o
<1>9. \A i \in g + 1 .. n : pkgs[i] \in Packages /\ Whole(pkgs[i]) = Word + Length[pkgs[i]] /\ Length[pkgs[i]] \in Nat
  <2>1. \A i \in g + 1 .. n : pkgs[i] \in Packages
    BY <1>1
  <2> QED BY <2>1, Wholes
<1>10. f[place(0)] = tail(0)
  <2> DEFINE at0 == off[g + m + 1] - c
  <2>1. g + m + 1 \in g + 1 .. g + m + 1 /\ g + m + 1 - 0 = g + m + 1
    BY <1>1
  <2>2. at0 \in 0 .. W
    BY <1>8, <2>1
  <2>3. ~FrameAt(b, at0, wrong)
    <3>1. CASE g + m = n
      <4>1. off[g + m + 1] = off[n + 1] /\ off[n + 1] \in Nat
        <5>1. g + m + 1 = n + 1 /\ n + 1 \in 1 .. n + 1
          BY <1>1, <3>1
        <5> QED BY <1>2, <5>1
      <4>2. W - at0 = 0
        BY <1>1, <1>2, <1>7, <2>2, <4>1
      <4> HIDE DEF at0
      <4> QED BY <1>3, <4>2 DEF FrameAt
    <3>2. CASE g + m # n
      <4> DEFINE i == g + m + 1
      <4>1. g + m < n /\ i \in g + 1 .. n /\ i \in 1 .. n /\ i + 1 = g + m + 2
        BY <1>1, <3>2
      <4>2. c + W < off[i + 1] /\ off[i + 1] = off[i] + Whole(pkgs[i])
        BY <1>2, <4>1 DEF Complete
      <4>3. off[i] \in Nat /\ Whole(pkgs[i]) = Word + Length[pkgs[i]] /\ Length[pkgs[i]] \in Nat
        BY <1>2, <1>9, <4>1
      <4>4. at0 = off[i] - c
        OBVIOUS
      <4> HIDE DEF i, at0, c
      <4>5. W - at0 < Word + Length[pkgs[i]]
        <5> DEFINE L == Length[pkgs[i]]
                   o == off[i]
        <5>1. /\ W \in Nat /\ c \in Nat /\ o \in Nat /\ L \in Nat /\ at0 = o - c
              /\ c + W < o + (Word + L)
          BY <1>1, <1>7, <4>2, <4>3, <4>4
        <5> HIDE DEF L, o, W
        <5>2. W - at0 < Word + L
          BY <5>1
        <5> QED BY <5>2 DEF L, W
      <4>6. CASE W - at0 >= Word
        <5>1. at0 + Word <= W /\ at0 \in Nat /\ c + at0 = off[i]
          <6> DEFINE o == off[i]
          <6>1. W \in Nat /\ c \in Nat /\ o \in Nat /\ at0 = o - c /\ at0 \in 0 .. W
            BY <1>1, <1>7, <2>2, <4>3, <4>4
          <6>2. W - at0 >= Word
            BY <4>6
          <6> HIDE DEF o, W
          <6>3. at0 + Word <= W /\ at0 \in Nat /\ c + at0 = o
            BY <6>1, <6>2
          <6> QED BY <6>3 DEF o, W
        <5>2. LengthAt(b, at0, wrong) = Length[pkgs[i]]
          BY <4>1, <5>1, LengthIsThere DEF c
        <5>3. b.read + at0 = at0
          BY <1>1, <5>1
        <5>4. ~(W - at0 - Word >= LengthAt(b, b.read + at0, wrong))
          <6> DEFINE L == Length[pkgs[i]]
          <6>1. LengthAt(b, b.read + at0, wrong) = L
            BY <5>2, <5>3
          <6>2. W \in Nat /\ at0 \in Nat /\ L \in Nat /\ W - at0 < Word + L
            BY <1>1, <4>3, <4>5, <5>1
          <6> HIDE DEF L, W
          <6>3. ~(W - at0 - Word >= L)
            BY <6>2
          <6> QED BY <6>1, <6>3
        <5> QED BY <1>3, <5>4 DEF FrameAt
      <4>7. CASE ~(W - at0 >= Word)
        BY <1>3, <4>7 DEF FrameAt
      <4> QED BY <4>6, <4>7
    <3> QED BY <3>1, <3>2
  <2>4. f[at0] = <<at0>>
    <3> HIDE DEF at0
    <3> QED BY <1>5, <2>2, <2>3 DEF NextCut
  <2>5. place(0) = at0
    BY <2>1
  <2>6. tail(0) = <<at0>>
    <3>1. \A j \in 1 .. 0 + 1 : j = 1 /\ g + m - 0 + j = g + m + 1
      BY <1>1
    <3>2. tail(0) = [j \in 1 .. 1 |-> at0]
      BY <3>1
    <3> HIDE DEF at0
    <3> QED BY <3>2
  <2> HIDE DEF at0, tail, place
  <2> QED BY <2>4, <2>5, <2>6
<1>11. T = {}
  <2> SUFFICES ASSUME T # {} PROVE FALSE
    OBVIOUS
  <2>1. PICK d \in T : \A e \in T : ~(e < d)
    <3>1. T \in SUBSET Nat
      BY <1>1
    <3> HIDE DEF T
    <3> QED BY <3>1, LeastNatural
  <2>2. d \in 0 .. m /\ d \in Nat /\ f[place(d)] # tail(d)
    BY <1>1
  <2>3. d # 0
    <3> HIDE DEF place, tail
    <3> QED BY <1>10, <2>2
  <2> DEFINE i == g + m + 1 - d
  <2>4. /\ d - 1 \in 0 .. m /\ d - 1 \in Nat /\ d - 1 < d
        /\ i \in g + 1 .. n /\ i \in 1 .. n /\ i \in g + 1 .. g + m + 1 /\ i + 1 \in g + 1 .. g + m + 1
        /\ g + m + 1 - (d - 1) = i + 1
    <3>1. d - 1 \in 0 .. m /\ d - 1 \in Nat /\ d - 1 < d
      BY <1>1, <2>2, <2>3
    <3>2. i \in g + 1 .. n /\ i \in 1 .. n
      BY <1>1, <2>2, <2>3
    <3>3. i \in g + 1 .. g + m + 1 /\ i + 1 \in g + 1 .. g + m + 1
      BY <1>1, <2>2, <2>3
    <3>4. g + m + 1 - (d - 1) = i + 1
      BY <1>1, <2>2
    <3> HIDE DEF i
    <3> QED BY <3>1, <3>2, <3>3, <3>4
  <2>5. f[place(d - 1)] = tail(d - 1)
    <3>1. d - 1 \notin T
      <4> HIDE DEF T
      <4> QED BY <2>1, <2>4
    <3> HIDE DEF place, tail
    <3> QED BY <2>4, <3>1
  <2> DEFINE here == off[i] - c
             next == off[i + 1] - c
             len == Length[pkgs[i]]
  <2>6. /\ here \in 0 .. W /\ next \in 0 .. W /\ next = here + Word + len /\ len \in Nat
        /\ c + here = off[i]
    <3>1. off[i + 1] = off[i] + Word + len /\ len \in Nat /\ off[i] \in Nat
      <4>1. off[i + 1] = off[i] + Whole(pkgs[i]) /\ off[i] \in Nat
        BY <1>2, <2>4
      <4>2. Whole(pkgs[i]) = Word + len /\ len \in Nat
        BY <1>9, <2>4
      <4> HIDE DEF len, i
      <4> QED BY <4>1, <4>2
    <3>2. here \in 0 .. W /\ next \in 0 .. W
      BY <1>8, <2>4
    <3> HIDE DEF len, i, c
    <3> QED BY <1>7, <3>1, <3>2
  <2>7. place(d) = here /\ place(d - 1) = next
    BY <2>4
  <2> HIDE DEF here, next, len, place, T
  <2>8. LengthAt(b, here, wrong) = len
    <3>1. here \in Nat /\ here + Word <= W
      BY <1>1, <2>6
    <3> HIDE DEF i
    <3> QED BY <2>4, <2>6, <3>1, LengthIsThere DEF len
  <2>9. FrameAt(b, here, wrong) /\ b.read + here = here
    <3>1. W - here >= Word /\ W - here - Word >= len /\ b.read + here = here
      BY <1>1, <2>6
    <3> QED BY <1>3, <2>8, <3>1 DEF FrameAt
  <2>10. f[here] = <<here>> \o tail(d - 1)
    <3>1. f[here] = NextCut(f, b, wrong, here)
      BY <1>5, <2>6
    <3>2. f[here] = <<here>> \o f[next]
      BY <2>6, <2>8, <2>9, <3>1 DEF NextCut
    <3> HIDE DEF tail
    <3> QED BY <2>5, <2>7, <3>2
  <2>11. tail(d) = <<here>> \o tail(d - 1)
    <3> DEFINE s == tail(d - 1)
               t == tail(d)
    <3>1. s = [j \in 1 .. d |-> off[i + j] - c]
      <4>1. d - 1 + 1 = d /\ \A j \in 1 .. d : g + m - (d - 1) + j = i + j
        BY <1>1, <2>2
      <4> HIDE DEF i, c
      <4> QED BY <4>1
    <3>2. t = [j \in 1 .. d + 1 |-> off[i + j - 1] - c]
      <4>1. \A j \in 1 .. d + 1 : g + m - d + j = i + j - 1
        BY <1>1, <2>2
      <4> HIDE DEF i, c
      <4> QED BY <4>1
    <3>3. \A j \in 1 .. d + 1 : off[i + j - 1] - c \in Nat
      <4>1. \A j \in 1 .. d + 1 : i + j - 1 \in g + 1 .. g + m + 1
        BY <1>1, <2>2
      <4> HIDE DEF i, c
      <4> QED BY <1>8, <4>1
    <3>4. \A j \in 1 .. d : off[i + j] - c \in Nat
      <4>1. \A j \in 1 .. d : i + j \in g + 1 .. g + m + 1
        BY <1>1, <2>2
      <4> HIDE DEF i, c
      <4> QED BY <1>8, <4>1
    <3> HIDE DEF s, t
    <3>5. s \in Seq(Nat) /\ Len(s) = d /\ t \in Seq(Nat) /\ Len(t) = d + 1
      <4>1. s \in [1 .. d -> Nat] /\ t \in [1 .. d + 1 -> Nat]
        BY <3>1, <3>2, <3>3, <3>4
      <4>2. d \in Nat /\ d + 1 \in Nat
        BY <2>2
      <4> QED BY <4>1, <4>2, IsASeq
    <3>6. \A j \in 1 .. d : s[j] = off[i + j] - c
      BY <3>1
    <3>7. /\ <<here>> \o s \in Seq(Nat) /\ Len(<<here>> \o s) = d + 1 /\ (<<here>> \o s)[1] = here
          /\ \A j \in 1 .. d : (<<here>> \o s)[j + 1] = s[j]
      <4>1. here \in Nat /\ d \in Nat
        BY <2>2, <2>6
      <4> QED BY <3>5, <4>1
    <3>8. t[1] = here
      <4>1. 1 \in 1 .. d + 1 /\ i + 1 - 1 = i
        BY <2>2, <2>4
      <4> HIDE DEF i, c
      <4> QED BY <3>2, <4>1 DEF here
    <3>9. \A j \in 1 .. d : t[j + 1] = s[j]
      <4>1. \A j \in 1 .. d : j + 1 \in 1 .. d + 1 /\ i + (j + 1) - 1 = i + j
        BY <2>2, <2>4
      <4> HIDE DEF i, c
      <4> QED BY <3>2, <3>6, <4>1
    <3>10. \A j \in 1 .. d + 1 : t[j] = (<<here>> \o s)[j]
      <4> SUFFICES ASSUME NEW j \in 1 .. d + 1 PROVE t[j] = (<<here>> \o s)[j]
        OBVIOUS
      <4>1. CASE j = 1
        BY <3>7, <3>8, <4>1
      <4>2. CASE j # 1
        <5>1. j - 1 \in 1 .. d /\ j - 1 + 1 = j
          BY <2>2, <4>2
        <5> QED BY <3>7, <3>9, <5>1
      <4> QED BY <4>1, <4>2
    <3>11. t = <<here>> \o s
      BY <3>5, <3>7, <3>10, SeqEqual
    <3> QED BY <3>11 DEF s, t
  <2> HIDE DEF tail
  <2> QED BY <2>2, <2>7, <2>10, <2>11
<1>12. f[place(m)] = tail(m)
  <2>1. m \in 0 .. m
    BY <1>1
  <2>2. m \notin T
    BY <1>11
  <2> HIDE DEF place, tail
  <2> QED BY <2>1, <2>2
<1>13. place(m) = 0 /\ tail(m) = [j \in 1 .. m + 1 |-> off[g + j] - c]
  <2>1. g + m + 1 - m = g + 1 /\ \A j \in 1 .. m + 1 : g + m - m + j = g + j
    BY <1>1
  <2>2. c - c = 0
    BY <1>7
  <2> QED BY <2>1, <2>2
<1> HIDE DEF place, tail
<1> QED BY <1>6, <1>12, <1>13

\* What split makes of a buffer in which m packages lie whole.
Separates(b, off, pkgs, g, m, wrong) ==
  /\ Split(b, wrong).pieces = [j \in 1 .. m |-> Content(pkgs[g + j])]
  /\ Split(b, wrong).rest =
       IF off[g + m + 1] = off[g + 1] + b.write THEN [b EXCEPT !.read = 0, !.write = 0]
       ELSE [b EXCEPT !.read = off[g + m + 1] - off[g + 1]]

LEMMA SplitSeparates ==
  ASSUME NEW b, NEW stream, NEW off, NEW pkgs, NEW g, Reads(b, stream, off, pkgs, g),
         NEW m, Complete(b, off, pkgs, g, m), NEW wrong \in Nat
  PROVE  Separates(b, off, pkgs, g, m, wrong)
<1> SUFFICES
      /\ Split(b, wrong).pieces = [j \in 1 .. m |-> Content(pkgs[g + j])]
      /\ Split(b, wrong).rest =
           IF off[g + m + 1] = off[g + 1] + b.write THEN [b EXCEPT !.read = 0, !.write = 0]
           ELSE [b EXCEPT !.read = off[g + m + 1] - off[g + 1]]
  BY Zenon DEF Separates
<1> DEFINE n == Len(pkgs)
           c == off[g + 1]
           W == b.write
           end == off[g + m + 1]
<1>1. /\ n \in Nat /\ g \in 0 .. n /\ m \in 0 .. n - g /\ m \in Nat /\ g \in Nat
      /\ pkgs \in Seq(Packages) /\ W \in Nat /\ b \in Buffers /\ b.read = 0 /\ W <= Size(b)
  BY DEF Reads, Lies, Complete, Buffers
<1>2. /\ off \in [1 .. n + 1 -> Nat]
      /\ \A i \in 1 .. n : off[i + 1] = off[i] + Whole(pkgs[i])
      /\ Marks(off, pkgs)
  BY DEF Reads, Marks
<1>3. Filled(b) = W
  BY <1>1 DEF Filled
<1>4. g + 1 \in 1 .. n + 1 /\ g + m + 1 \in 1 .. n + 1 /\ g + 1 <= g + m + 1
  BY <1>1
<1>5. c \in Nat /\ end \in Nat /\ c <= end
  <2>1. off[g + 1] <= off[g + m + 1]
    BY <1>1, <1>2, <1>4, MarksGrow
  <2> QED BY <1>2, <1>4, <2>1
<1>6. end <= c + W
  BY DEF Complete
<1>7. CASE W <= Word
  <2>1. m = 0
    <3> SUFFICES ASSUME m # 0 PROVE FALSE
      OBVIOUS
    <3>1. g + 1 \in 1 .. n /\ g + 1 + 1 \in 1 .. n + 1 /\ g + 1 + 1 <= g + m + 1
      BY <1>1
    <3>2. off[g + 1 + 1] <= end
      BY <1>1, <1>2, <1>4, <3>1, MarksGrow
    <3>3. pkgs[g + 1] \in Packages
      BY <1>1, <3>1
    <3>4. Whole(pkgs[g + 1]) \in Nat /\ Whole(pkgs[g + 1]) > Word
      BY <3>3, Wholes
    <3>5. off[g + 1 + 1] = c + Whole(pkgs[g + 1])
      BY <1>2, <3>1
    <3> DEFINE w == Whole(pkgs[g + 1])
    <3>6. /\ w \in Nat /\ w > Word /\ c + w <= end /\ end <= c + W /\ W <= Word
          /\ c \in Nat /\ end \in Nat /\ W \in Nat
      BY <1>1, <1>5, <1>6, <1>7, <3>2, <3>4, <3>5
    <3> HIDE DEF w, c, end, W
    <3> QED BY <3>6
  <2>2. Split(b, wrong) = [pieces |-> <<>>, rest |-> b]
    BY <1>3, <1>7 DEF Split
  <2>3. g + m + 1 = g + 1 /\ end = c /\ end - c = 0
    BY <1>1, <1>5, <2>1
  <2>4. [j \in 1 .. m |-> Content(pkgs[g + j])] = <<>>
    BY <2>1
  <2>5. end = c + W => W = 0
    BY <1>1, <1>5, <2>3
  <2>6. b = [b EXCEPT !.read = 0] /\ (W = 0 => b = [b EXCEPT !.read = 0, !.write = 0])
    BY <1>1 DEF Buffers
  <2> HIDE DEF c, end
  <2>7. b = IF end = c + W THEN [b EXCEPT !.read = 0, !.write = 0] ELSE [b EXCEPT !.read = end - c]
    BY <2>3, <2>5, <2>6
  <2> QED BY <2>2, <2>4, <2>7 DEF c, end
<1>8. CASE ~(W <= Word)
  <2> DEFINE cuts == Cuts(b, wrong)
             last == cuts[Len(cuts)]
  <2>1. cuts = [j \in 1 .. m + 1 |-> off[g + j] - c]
    BY CutsAre
  <2>2. \A j \in 1 .. m + 1 : off[g + j] \in Nat /\ c <= off[g + j] /\ g + j \in 1 .. n + 1 /\ off[g + j] <= end
    <3> SUFFICES ASSUME NEW j \in 1 .. m + 1
                 PROVE  off[g + j] \in Nat /\ c <= off[g + j] /\ g + j \in 1 .. n + 1 /\ off[g + j] <= end
      OBVIOUS
    <3>1. g + j \in 1 .. n + 1 /\ g + 1 <= g + j /\ g + j <= g + m + 1
      BY <1>1
    <3>2. off[g + 1] <= off[g + j] /\ off[g + j] <= off[g + m + 1]
      BY <1>1, <1>2, <1>4, <3>1, MarksGrow
    <3> QED BY <1>2, <3>1, <3>2
  <2>3. Len(cuts) = m + 1 /\ last = end - c /\ \A j \in 1 .. m + 1 : cuts[j] = off[g + j] - c
    <3>1. \A j \in 1 .. m + 1 : off[g + j] - c \in Nat
      BY <1>5, <2>2
    <3>2. cuts \in [1 .. m + 1 -> Nat]
      BY <2>1, <3>1
    <3>3. Len(cuts) = m + 1
      <4>1. m + 1 \in Nat
        BY <1>1
      <4> HIDE DEF cuts
      <4> QED BY <3>2, <4>1, IsASeq
    <3>4. \A j \in 1 .. m + 1 : cuts[j] = off[g + j] - c
      BY <2>1
    <3>5. m + 1 \in 1 .. m + 1 /\ g + (m + 1) = g + m + 1
      BY <1>1
    <3> HIDE DEF cuts
    <3> QED BY <3>3, <3>4, <3>5
  <2>4. Split(b, wrong) = [pieces |-> [i \in 1 .. Len(cuts) - 1 |-> Piece(b, cuts[i], wrong)],
          rest |-> IF last = b.write THEN [b EXCEPT !.read = 0, !.write = 0] ELSE [b EXCEPT !.read = last]]
    BY <1>3, <1>8 DEF Split
  <2>5. ASSUME NEW j \in 1 .. m PROVE Piece(b, cuts[j], wrong) = Content(pkgs[g + j])
    <3> DEFINE i == g + j
               place == off[i] - c
    <3>1. j \in 1 .. m + 1 /\ j + 1 \in 1 .. m + 1 /\ i \in g + 1 .. n /\ i \in 1 .. n /\ g + (j + 1) = i + 1
      BY <1>1
    <3>2. off[i] \in Nat /\ c <= off[i] /\ off[i + 1] <= end /\ off[i + 1] \in Nat
      BY <2>2, <3>1
    <3>3. off[i + 1] = off[i] + Whole(pkgs[i])
      BY <1>2, <3>1
    <3>4. Whole(pkgs[i]) \in Nat
      <4>1. pkgs[i] \in Packages
        BY <1>1, <3>1
      <4> QED BY <4>1, Wholes
    <3>5. cuts[j] = place
      BY <2>3, <3>1
    <3> DEFINE o == off[i]
               w == Whole(pkgs[i])
    <3>6. /\ o \in Nat /\ w \in Nat /\ c \in Nat /\ W \in Nat /\ end \in Nat /\ place = o - c
          /\ c <= o /\ o + w <= end /\ end <= c + W
      BY <1>1, <1>5, <1>6, <3>2, <3>3, <3>4
    <3> HIDE DEF i, o, w, c, W, end, place
    <3>7. place \in Nat /\ c + place = o /\ place + w <= W
      BY <3>6
    <3>8. Piece(b, place, wrong) = Content(pkgs[i])
      BY <3>1, <3>7, PieceIsThere DEF o, w, c, W
    <3> HIDE DEF cuts
    <3> QED BY <3>5, <3>8 DEF i
  <2>6. Len(cuts) - 1 = m
    BY <1>1, <2>3
  <2>7. last = b.write <=> end = c + W
    <3>1. last = end - c /\ end \in Nat /\ c \in Nat /\ W \in Nat
      BY <1>1, <1>5, <2>3
    <3> HIDE DEF last, end, c, W
    <3>2. last = W <=> end = c + W
      BY <3>1
    <3> QED BY <3>2 DEF W
  <2> HIDE DEF cuts, last, end, c
  <2>8. [i \in 1 .. Len(cuts) - 1 |-> Piece(b, cuts[i], wrong)] = [j \in 1 .. m |-> Content(pkgs[g + j])]
    BY <2>5, <2>6
  <2>9. Split(b, wrong).rest = IF end = c + W THEN [b EXCEPT !.read = 0, !.write = 0] ELSE [b EXCEPT !.read = end - c]
    BY <2>3, <2>4, <2>7
  <2> QED BY <2>4, <2>8, <2>9 DEF c, end
<1> QED BY <1>7, <1>8

-----------------------------------------------------------------------------
(* Where the bytes of the stream are: StreamInv is inductive. *)

\* The uses for which the code keeps the promise: the socket takes what it is
\* given, and no read ends inside a package behind a whole one.
WholeUses == \A u \in Uses : ~u.partial /\ (u.window <= 1 \/ ~u.ragged)

\* What has been sent and is not in got lies, a byte behind the other, in the
\* receiver's buffer and on the wire: that ends so many bytes into the stream.
Ahead(off) == off[Len(got) + 1] + recvBuf.write + Len(wire)

Arrives(stream, off) ==
  /\ got \in Seq(Packages) /\ Len(got) <= Len(sent)
  /\ \A i \in 1 .. Len(got) : got[i] = sent[i]
  /\ Lies(recvBuf, stream, off[Len(got) + 1])
  /\ wire \in Seq(Bytes) /\ Ahead(off) <= Len(stream)
  /\ \A i \in 1 .. Len(wire) : wire[i] = stream[off[Len(got) + 1] + recvBuf.write + i]

\* How many packages have been packed.
Packed == Len(sent) - Len(toSend)

\* What is packed lies in the sender's buffer, which begins where the wire ends,
\* until the wire has taken it and the handler of the write has not run.
Leaves(stream, off, from) ==
  /\ Len(toSend) <= Len(sent)
  /\ \A i \in 1 .. Len(toSend) : toSend[i] = sent[Packed + i]
  /\ Lies(sendBuf, stream, from)
  /\ from + sendBuf.write = off[Packed + 1]
  /\ Ahead(off) = IF written = 0 THEN from ELSE from + sendBuf.write
  /\ writing # <<>> => /\ Len(writing) = sendBuf.write
                       /\ \A i \in 1 .. Len(writing) : writing[i] = stream[from + i]
  /\ written # 0 => written = sendBuf.write

Flow(stream, off) ==
  /\ Marks(off, sent) /\ Laid(stream, off, sent)
  /\ Arrives(stream, off)
  /\ point # "closed" => \E from \in Nat : Leaves(stream, off, from)

\* A connection that is closed sends nothing any more.
Quiet == point = "closed" => writing = <<>> /\ written = 0 /\ \A t \in Threads : at[t] = "idle"

StreamInv ==
  /\ sent \in Seq(Packages)
  /\ \E stream, off : Flow(stream, off)
  /\ Quiet
  /\ use.window <= 1 => Len(sent) - Len(got) <= 1

LEMMA ReadableBytes ==
  ASSUME NEW b \in Buffers, b.read = 0, b.write <= Size(b)
  PROVE  /\ Readable(b) \in Seq(Bytes) /\ Len(Readable(b)) = b.write
         /\ \A i \in 1 .. b.write : Readable(b)[i] = b.data[i]
<1>1. Readable(b) \in Seq(Bytes) /\ Len(Readable(b)) = b.write
  BY ReadableType
<1>2. b.write \in Nat /\ Size(b) \in Nat
  BY DEF Buffers, Size
<1>3. ASSUME NEW i \in 1 .. b.write PROVE Readable(b)[i] = b.data[i]
  <2>1. b.read + i = i /\ i <= Size(b)
    BY <1>2
  <2> QED BY <2>1 DEF Readable
<1> QED BY <1>1, <1>3

LEMMA Joined ==
  ASSUME NEW a \in Seq(Bytes), NEW b \in Seq(Bytes)
  PROVE  /\ a \o b \in Seq(Bytes) /\ Len(a \o b) = Len(a) + Len(b)
         /\ \A i \in 1 .. Len(a) : (a \o b)[i] = a[i]
         /\ \A i \in 1 .. Len(b) : (a \o b)[Len(a) + i] = b[i]
OBVIOUS

\* One package more is one frame more.
LEMMA Extend ==
  ASSUME NEW pkgs \in Seq(Packages), NEW p \in Packages, NEW stream, NEW off,
         Marks(off, pkgs), Laid(stream, off, pkgs)
  PROVE  \E s, o : /\ Marks(o, Append(pkgs, p)) /\ Laid(s, o, Append(pkgs, p))
                   /\ \A i \in 1 .. Len(pkgs) + 1 : o[i] = off[i]
                   /\ Len(stream) <= Len(s)
                   /\ \A i \in 1 .. Len(stream) : s[i] = stream[i]
<1> DEFINE n == Len(pkgs)
           w == Whole(p)
           L == Len(stream)
           more == Append(pkgs, p)
           frame == [k \in 1 .. w |-> Byte(p, k)]
           s == stream \o frame
           o == [i \in 1 .. n + 2 |-> IF i = n + 2 THEN L + w ELSE off[i]]
<1>1. n \in Nat /\ w \in Nat /\ L \in Nat /\ stream \in Seq(Bytes) /\ L = off[n + 1]
  BY Wholes DEF Laid
<1>2. /\ off \in [1 .. n + 1 -> Nat] /\ off[1] = 0
      /\ \A i \in 1 .. n : off[i + 1] = off[i] + Whole(pkgs[i])
  BY DEF Marks
<1>3. /\ more \in Seq(Packages) /\ Len(more) = n + 1 /\ more[n + 1] = p
      /\ \A i \in 1 .. n : more[i] = pkgs[i]
  OBVIOUS
<1>4. frame \in Seq(Bytes) /\ Len(frame) = w /\ \A k \in 1 .. w : frame[k] = Byte(p, k)
  <2>1. \A k \in 1 .. w : Byte(p, k) \in Bytes
    BY DEF Byte, Bytes
  <2>2. frame \in [1 .. w -> Bytes]
    BY <2>1
  <2>3. frame \in Seq(Bytes) /\ Len(frame) = w
    <3> HIDE DEF frame, w
    <3> QED BY <1>1, <2>2, IsASeq
  <2> QED BY <2>3
<1> HIDE DEF frame
<1>5. /\ s \in Seq(Bytes) /\ Len(s) = L + w
      /\ \A i \in 1 .. L : s[i] = stream[i]
      /\ \A k \in 1 .. w : s[L + k] = Byte(p, k)
  <2> HIDE DEF w
  <2> QED BY <1>1, <1>4, Joined
<1>6. /\ o \in [1 .. n + 2 -> Nat] /\ o[n + 2] = L + w
      /\ \A i \in 1 .. n + 1 : o[i] = off[i]
  <2>1. \A i \in 1 .. n + 1 : i \in 1 .. n + 2 /\ i # n + 2
    BY <1>1
  <2>2. \A i \in 1 .. n + 2 : i # n + 2 => i \in 1 .. n + 1
    BY <1>1
  <2>3. n + 2 \in 1 .. n + 2 /\ L + w \in Nat
    BY <1>1
  <2> HIDE DEF n, L, w
  <2> QED BY <1>2, <2>1, <2>2, <2>3
<1> HIDE DEF s, o, more
<1>7. Marks(o, more)
  <2>1. o[1] = 0 /\ n + 1 + 1 = n + 2
    BY <1>1, <1>2, <1>6
  <2>2. ASSUME NEW i \in 1 .. n + 1 PROVE o[i + 1] = o[i] + Whole(more[i])
    <3>1. CASE i = n + 1
      <4>1. i + 1 = n + 2
        BY <1>1, <3>1
      <4> QED BY <1>1, <1>3, <1>6, <3>1, <4>1
    <3>2. CASE i # n + 1
      <4>1. i \in 1 .. n /\ i + 1 \in 1 .. n + 1 /\ i \in 1 .. n + 1
        <5> HIDE DEF n
        <5> QED BY <1>1, <3>2
      <4> QED BY <1>2, <1>3, <1>6, <4>1
    <3> QED BY <3>1, <3>2
  <2> QED BY <1>3, <1>6, <2>1, <2>2 DEF Marks
<1>8. Laid(s, o, more)
  <2>1. Len(s) = o[Len(more) + 1]
    <3>1. n + 1 + 1 = n + 2
      BY <1>1
    <3> QED BY <1>3, <1>5, <1>6, <3>1
  <2>2. ASSUME NEW i \in 1 .. n + 1, NEW k \in 1 .. Whole(more[i])
        PROVE  s[o[i] + k] = Byte(more[i], k)
    <3>1. CASE i = n + 1
      <4>1. o[i] = L /\ more[i] = p
        BY <1>1, <1>3, <1>6, <3>1
      <4> QED BY <1>5, <4>1
    <3>2. CASE i # n + 1
      <4>1. i \in 1 .. n /\ i + 1 \in 1 .. n + 1 /\ n + 1 \in 1 .. n + 1 /\ i + 1 <= n + 1 /\ i \in 1 .. n + 1
        <5> HIDE DEF n
        <5> QED BY <1>1, <3>2
      <4>2. more[i] = pkgs[i] /\ o[i] = off[i] /\ pkgs[i] \in Packages /\ off[i] \in Nat
        <5> HIDE DEF n
        <5> QED BY <1>2, <1>3, <1>6, <4>1
      <4>3. off[i + 1] = off[i] + Whole(pkgs[i]) /\ off[i + 1] <= off[n + 1] /\ Whole(pkgs[i]) \in Nat
        BY <1>2, <4>1, <4>2, MarksGrow, Wholes
      <4>4. off[i] + k \in 1 .. L
        <5> DEFINE x == off[i]
                   v == Whole(pkgs[i])
        <5>1. x \in Nat /\ v \in Nat /\ x + v <= L /\ k \in 1 .. v
          BY <1>1, <4>2, <4>3
        <5> HIDE DEF x, v, L
        <5>2. x + k \in 1 .. L
          BY <1>1, <5>1
        <5> QED BY <5>2 DEF x
      <4>5. stream[off[i] + k] = Byte(pkgs[i], k)
        BY <4>1, <4>2 DEF Laid
      <4> QED BY <1>5, <4>2, <4>4, <4>5
    <3> QED BY <3>1, <3>2
  <2> QED BY <1>3, <1>5, <2>1, <2>2 DEF Laid
<1>9. Len(stream) <= Len(s)
  BY <1>1, <1>5
<1> QED BY <1>5, <1>6, <1>7, <1>8, <1>9 DEF more

LEMMA ArrivesSame ==
  ASSUME NEW stream, NEW off, Arrives(stream, off), UNCHANGED <<got, recvBuf, wire, sent>>
  PROVE  Arrives(stream, off)' /\ Ahead(off)' = Ahead(off)
BY DEF Arrives, Ahead

\* Steps that move no byte.
LEMMA StillStep ==
  ASSUME StreamInv, UNCHANGED <<use, toSend, sendBuf, writing, written, wire, recvBuf, sent, got>>,
         point' = "closed" <=> point = "closed", point = "closed" => UNCHANGED at
  PROVE  StreamInv'
<1>1. PICK stream, off : Flow(stream, off)
  BY DEF StreamInv
<1>2. Arrives(stream, off)' /\ Ahead(off)' = Ahead(off)
  BY <1>1, ArrivesSame DEF Flow
<1>3. ASSUME NEW from \in Nat, Leaves(stream, off, from) PROVE Leaves(stream, off, from)'
  BY <1>2, <1>3 DEF Leaves, Packed
<1>4. Flow(stream, off)'
  <2>1. Marks(off, sent)' /\ Laid(stream, off, sent)'
    BY <1>1 DEF Flow
  <2>2. point' # "closed" => \E from \in Nat : Leaves(stream, off, from)'
    <3>1. CASE point = "closed"
      BY <3>1
    <3>2. CASE point # "closed"
      BY <1>1, <1>3, <3>2 DEF Flow
    <3> QED BY <3>1, <3>2
  <2> QED BY <1>2, <2>1, <2>2 DEF Flow
<1> QED BY <1>4 DEF StreamInv, Quiet

LEMMA CloseStep == ASSUME StreamInv, HandleError PROVE StreamInv'
<1>1. PICK stream, off : Flow(stream, off)
  BY DEF StreamInv
<1>2. /\ point' = "closed" /\ writing' = <<>> /\ written' = 0 /\ \A t \in Threads : at'[t] = "idle"
      /\ UNCHANGED <<use, wire, recvBuf, sent, got>>
  BY DEF HandleError
<1>3. Arrives(stream, off)'
  BY <1>1, <1>2, ArrivesSame DEF Flow
<1>4. Flow(stream, off)'
  BY <1>1, <1>2, <1>3 DEF Flow
<1> QED BY <1>2, <1>4 DEF StreamInv, Quiet

\* A step of a connection that is not closed, whose stream stays.
LEMMA FlowKept ==
  ASSUME StreamInv, NEW stream, NEW off, Flow(stream, off), point # "closed",
         Arrives(stream, off)', NEW from \in Nat, Leaves(stream, off, from)',
         UNCHANGED <<use, point, sent, got>>
  PROVE  StreamInv'
<1>1. Flow(stream, off)'
  BY DEF Flow
<1> QED BY <1>1 DEF StreamInv, Quiet

LEMMA SendFlow == ASSUME SenderInv, StreamInv, NEW p \in Packages, Send(p) PROVE StreamInv'
<1>0. /\ point = "valid" /\ toSend' = Append(toSend, p) /\ sent' = Append(sent, p)
      /\ Len(sent) - Len(got) < use.window
      /\ UNCHANGED <<use, point, sendBuf, writing, written, wire, recvBuf, got>>
  BY DEF Send, netVars
<1>1. PICK stream, off : Flow(stream, off)
  BY DEF StreamInv
<1>2. PICK from \in Nat : Leaves(stream, off, from)
  BY <1>0, <1>1 DEF Flow
<1>3. /\ sent \in Seq(Packages) /\ toSend \in Seq(Packages) /\ got \in Seq(Packages)
      /\ Len(sent) \in Nat /\ Len(toSend) \in Nat /\ Len(got) \in Nat
      /\ Len(got) <= Len(sent) /\ Len(toSend) <= Len(sent)
      /\ sent' \in Seq(Packages) /\ Len(sent') = Len(sent) + 1 /\ sent'[Len(sent) + 1] = p
      /\ \A i \in 1 .. Len(sent) : sent'[i] = sent[i]
      /\ Len(toSend') = Len(toSend) + 1 /\ toSend'[Len(toSend) + 1] = p
      /\ \A i \in 1 .. Len(toSend) : toSend'[i] = toSend[i]
  <2>1. sent \in Seq(Packages) /\ toSend \in Seq(Packages) /\ got \in Seq(Packages)
    BY <1>1 DEF StreamInv, SenderInv, SenderTypeOK, Flow, Arrives
  <2>2. Len(got) <= Len(sent) /\ Len(toSend) <= Len(sent)
    BY <1>1, <1>2 DEF Flow, Arrives, Leaves
  <2>3. \A q \in Seq(Packages) : /\ Append(q, p) \in Seq(Packages) /\ Len(Append(q, p)) = Len(q) + 1
                                /\ Append(q, p)[Len(q) + 1] = p
                                /\ \A i \in 1 .. Len(q) : Append(q, p)[i] = q[i]
    OBVIOUS
  <2> QED BY <1>0, <2>1, <2>2, <2>3
<1>4. PICK s, o : /\ Marks(o, sent') /\ Laid(s, o, sent')
                  /\ \A i \in 1 .. Len(sent) + 1 : o[i] = off[i]
                  /\ Len(stream) <= Len(s)
                  /\ \A i \in 1 .. Len(stream) : s[i] = stream[i]
  <2>1. \E s, o : /\ Marks(o, Append(sent, p)) /\ Laid(s, o, Append(sent, p))
                  /\ \A i \in 1 .. Len(sent) + 1 : o[i] = off[i]
                  /\ Len(stream) <= Len(s)
                  /\ \A i \in 1 .. Len(stream) : s[i] = stream[i]
    <3>1. Marks(off, sent) /\ Laid(stream, off, sent) /\ sent \in Seq(Packages)
      BY <1>1, <1>3 DEF Flow
    <3> DEFINE More(q, e, old, m) ==
                 \E s, o : /\ Marks(o, Append(q, e)) /\ Laid(s, o, Append(q, e))
                           /\ \A i \in 1 .. Len(q) + 1 : o[i] = m[i]
                           /\ Len(old) <= Len(s)
                           /\ \A i \in 1 .. Len(old) : s[i] = old[i]
    <3>2. \A q \in Seq(Packages), e \in Packages : \A old, m :
            Marks(m, q) /\ Laid(old, m, q) => More(q, e, old, m)
      BY Extend
    <3>3. More(sent, p, stream, off)
      <4> HIDE DEF More
      <4> QED BY <3>1, <3>2, Zenon
    <3> QED BY <3>3
  <2> QED BY <1>0, <2>1
<1> DEFINE g == Len(got)
           c == off[g + 1]
           r == recvBuf.write
           k == Packed
           L == Len(stream)
<1>5. /\ g \in Nat /\ c \in Nat /\ r \in Nat /\ k \in Nat /\ L \in Nat /\ Len(s) \in Nat
      /\ g + 1 \in 1 .. Len(sent) + 1 /\ k + 1 \in 1 .. Len(sent) + 1 /\ off[k + 1] <= L /\ off[k + 1] \in Nat
      /\ o[g + 1] = c /\ o[k + 1] = off[k + 1] /\ Len(wire) \in Nat /\ wire \in Seq(Bytes)
      /\ Packed' = k
  <2>1. stream \in Seq(Bytes) /\ s \in Seq(Bytes) /\ L = off[Len(sent) + 1] /\ Marks(off, sent)
    BY <1>1, <1>4 DEF Flow, Laid
  <2>2. wire \in Seq(Bytes) /\ r \in Nat
    BY <1>1 DEF Flow, Arrives, Lies, Buffers
  <2>3. k \in Nat /\ k <= Len(sent) /\ Packed' = k
    BY <1>3 DEF Packed
  <2>4. g + 1 \in 1 .. Len(sent) + 1 /\ k + 1 \in 1 .. Len(sent) + 1 /\ Len(sent) + 1 \in 1 .. Len(sent) + 1
        /\ k + 1 <= Len(sent) + 1
    <3> HIDE DEF k
    <3> QED BY <1>3, <2>3
  <2>5. off[k + 1] <= off[Len(sent) + 1] /\ off[k + 1] \in Nat /\ c \in Nat
    <3>1. off \in [1 .. Len(sent) + 1 -> Nat]
      BY <2>1 DEF Marks
    <3> HIDE DEF k, g
    <3> QED BY <1>3, <2>1, <2>4, <3>1, MarksGrow
  <2>6. o[g + 1] = c /\ o[k + 1] = off[k + 1]
    <3> HIDE DEF k, g
    <3> QED BY <1>4, <2>4
  <2>7. g \in Nat /\ L \in Nat /\ Len(s) \in Nat
    BY <1>3, <2>1
  <2> HIDE DEF g, k, c, r, L
  <2> QED BY <2>1, <2>2, <2>3, <2>4, <2>5, <2>6, <2>7
<1>6. c + r + Len(wire) <= L
  BY <1>1 DEF Flow, Arrives, Ahead
<1>7. Arrives(s, o)' /\ Ahead(o)' = Ahead(off)
  <2>1. Ahead(o)' = Ahead(off) /\ Ahead(off) = c + r + Len(wire)
    BY <1>0, <1>5 DEF Ahead
  <2>2. Lies(recvBuf, s, c)
    <3>1. Lies(recvBuf, stream, c)
      BY <1>1 DEF Flow, Arrives
    <3>2. ASSUME NEW i \in 1 .. r PROVE recvBuf.data[i] = s[c + i]
      <4>1. c + i \in 1 .. L
        <5> HIDE DEF c, r, L
        <5> QED BY <1>5, <1>6
      <4> QED BY <1>4, <3>1, <4>1 DEF Lies
    <3> QED BY <3>1, <3>2 DEF Lies
  <2>3. ASSUME NEW i \in 1 .. Len(wire) PROVE wire[i] = s[c + r + i]
    <3>1. c + r + i \in 1 .. L
      <4> HIDE DEF c, r, L
      <4> QED BY <1>5, <1>6
    <3>2. wire[i] = stream[c + r + i]
      BY <1>1 DEF Flow, Arrives
    <3> QED BY <1>4, <3>1, <3>2
  <2>4. Ahead(o)' <= Len(s)
    <3> DEFINE a == Len(s)
    <3>1. L <= a /\ a \in Nat
      BY <1>4, <1>5
    <3> HIDE DEF c, r, L, a
    <3>2. c + r + Len(wire) <= a
      BY <1>5, <1>6, <3>1
    <3> QED BY <2>1, <3>2 DEF a
  <2>5. Len(got') <= Len(sent') /\ \A i \in 1 .. Len(got') : got'[i] = sent'[i]
    <3>1. \A i \in 1 .. Len(got) : got[i] = sent[i] /\ i \in 1 .. Len(sent)
      BY <1>1, <1>3 DEF Flow, Arrives
    <3>2. Len(got) <= Len(sent) + 1
      BY <1>3
    <3> QED BY <1>0, <1>3, <3>1, <3>2
  <2>6. Lies(recvBuf, s, o[Len(got) + 1])'
    BY <1>0, <1>5, <2>2 DEF Lies
  <2>7. \A i \in 1 .. Len(wire') : wire'[i] = s[o[Len(got') + 1] + recvBuf'.write + i]
    BY <1>0, <1>5, <2>3
  <2> QED BY <1>0, <1>3, <1>5, <2>1, <2>4, <2>5, <2>6, <2>7 DEF Arrives
<1>8. Leaves(s, o, from)'
  <2>1. Len(toSend') <= Len(sent') /\ \A i \in 1 .. Len(toSend') : toSend'[i] = sent'[Packed' + i]
    <3>1. ASSUME NEW i \in 1 .. Len(toSend) + 1 PROVE toSend'[i] = sent'[k + i]
      <4>1. CASE i = Len(toSend) + 1
        <5>1. k + i = Len(sent) + 1
          BY <1>3, <4>1 DEF Packed
        <5> QED BY <1>3, <4>1, <5>1
      <4>2. CASE i # Len(toSend) + 1
        <5>1. i \in 1 .. Len(toSend) /\ k + i \in 1 .. Len(sent)
          <6> DEFINE n == Len(toSend)
                     m == Len(sent)
          <6>1. n \in Nat /\ m \in Nat /\ n <= m /\ k = m - n /\ i \in 1 .. n + 1 /\ i # n + 1
            BY <1>3, <4>2 DEF Packed
          <6> HIDE DEF n, m, k
          <6>2. i \in 1 .. n /\ k + i \in 1 .. m
            BY <6>1
          <6> QED BY <6>2 DEF n, m
        <5>2. toSend[i] = sent[k + i]
          BY <1>2, <5>1 DEF Leaves
        <5> QED BY <1>3, <5>1, <5>2
      <4> QED BY <4>1, <4>2
    <3>2. Len(toSend) + 1 <= Len(sent) + 1
      BY <1>3
    <3> HIDE DEF k
    <3> QED BY <1>3, <1>5, <3>1, <3>2
  <2>2. /\ Lies(sendBuf, stream, from) /\ from + sendBuf.write = off[k + 1] /\ sendBuf.write \in Nat
        /\ writing # <<>> => /\ Len(writing) = sendBuf.write
                             /\ \A i \in 1 .. Len(writing) : writing[i] = stream[from + i]
    BY <1>2 DEF Leaves, Lies, Buffers
  <2>3. \A i \in 1 .. sendBuf.write : stream[from + i] = s[from + i]
    <3> SUFFICES ASSUME NEW i \in 1 .. sendBuf.write PROVE stream[from + i] = s[from + i]
      OBVIOUS
    <3>1. from + i \in 1 .. L
      <4> DEFINE e == off[k + 1]
                 w == sendBuf.write
      <4>1. e \in Nat /\ w \in Nat /\ from + w = e /\ e <= L
        BY <1>5, <2>2
      <4> HIDE DEF e, L, w
      <4>2. i \in 1 .. w
        BY DEF w
      <4> QED BY <1>5, <4>1, <4>2
    <3> QED BY <1>4, <3>1
  <2>4. Lies(sendBuf, s, from)'
    BY <1>0, <2>2, <2>3 DEF Lies
  <2>5. from + sendBuf'.write = o[Packed' + 1]
    <3> HIDE DEF k
    <3> QED BY <1>0, <1>5, <2>2
  <2>6. Ahead(o)' = IF written' = 0 THEN from ELSE from + sendBuf'.write
    BY <1>0, <1>2, <1>7 DEF Leaves
  <2>7. /\ writing' # <<>> => /\ Len(writing') = sendBuf'.write
                              /\ \A i \in 1 .. Len(writing') : writing'[i] = s[from + i]
        /\ written' # 0 => written' = sendBuf'.write
    BY <1>0, <1>2, <2>2, <2>3 DEF Leaves
  <2> QED BY <2>1, <2>4, <2>5, <2>6, <2>7 DEF Leaves
<1>9. Flow(s, o)'
  BY <1>4, <1>7, <1>8 DEF Flow
<1>10. use'.window <= 1 => Len(sent') - Len(got') <= 1
  <2>1. use.window \in Nat
    BY DEF SenderInv, SenderTypeOK
  <2>2. use.window <= 1 => Len(sent) - Len(got) <= 0
    BY <1>0, <1>3, <2>1
  <2> QED BY <1>0, <1>3, <2>2
<1> QED BY <1>0, <1>3, <1>9, <1>10 DEF StreamInv, Quiet

LEMMA PackFlow == ASSUME SenderInv, StreamInv, NEW t \in Threads, PackNext(t) PROVE StreamInv'
<1> DEFINE p == Head(toSend)
           k == Packed
<1>0. /\ at[t] = "start" /\ toSend # <<>> /\ toSend' = Tail(toSend) /\ sendBuf' = Pack(sendBuf, p)
      /\ UNCHANGED <<use, point, writing, written, wire, recvBuf, sent, got>>
  BY DEF PackNext, netVars
<1>1. writing = <<>> /\ written = 0 /\ point # "closed"
  <2>1. Senders = {t} /\ (writing # <<>> => Senders = {"write"}) /\ (written > 0 => Senders = {"handler"})
    BY <1>0, SoleSender DEF SenderInv
  <2>2. t # "write" /\ t # "handler" /\ written \in Nat
    BY DEF Threads, SenderInv, SenderTypeOK
  <2>3. point # "closed"
    BY <1>0 DEF StreamInv, Quiet
  <2> QED BY <2>1, <2>2, <2>3
<1>2. PICK stream, off : Flow(stream, off)
  BY DEF StreamInv
<1>3. PICK from \in Nat : Leaves(stream, off, from)
  BY <1>1, <1>2 DEF Flow
<1>4. /\ sent \in Seq(Packages) /\ toSend \in Seq(Packages) /\ Len(toSend) \in Nat \ {0} /\ Len(sent) \in Nat
      /\ Len(toSend) <= Len(sent) /\ p \in Packages /\ p = toSend[1]
      /\ Len(toSend') = Len(toSend) - 1 /\ \A i \in 1 .. Len(toSend) - 1 : toSend'[i] = toSend[i + 1]
  <2>1. sent \in Seq(Packages) /\ toSend \in Seq(Packages) /\ Len(toSend) <= Len(sent)
    BY <1>3 DEF StreamInv, SenderInv, SenderTypeOK, Leaves
  <2>2. \A q \in Seq(Packages) : q # <<>> =>
          /\ Len(q) \in Nat \ {0} /\ Head(q) \in Packages /\ Head(q) = q[1] /\ Len(Tail(q)) = Len(q) - 1
          /\ \A i \in 1 .. Len(q) - 1 : Tail(q)[i] = q[i + 1]
    OBVIOUS
  <2> QED BY <1>0, <2>1, <2>2
<1>5. k \in Nat /\ k + 1 \in 1 .. Len(sent) /\ Packed' = k + 1
  BY <1>0, <1>4 DEF Packed
<1> HIDE DEF p, k
<1>6. p = sent[k + 1]
  <2>1. 1 \in 1 .. Len(toSend)
    BY <1>4
  <2> QED BY <1>3, <1>4, <2>1 DEF Leaves, k
<1>7. /\ Lies(sendBuf, stream, from) /\ from + sendBuf.write = off[k + 1]
      /\ sendBuf \in Buffers /\ sendBuf.read = 0 /\ sendBuf.write <= Size(sendBuf) /\ sendBuf.write \in Nat
  BY <1>3 DEF Leaves, Lies, k, Buffers
<1>8. /\ sendBuf' \in Buffers /\ sendBuf'.read = 0
      /\ sendBuf'.write = sendBuf.write + Whole(p)
      /\ sendBuf'.write <= Size(sendBuf')
      /\ \A i \in 1 .. sendBuf.write : sendBuf'.data[i] = sendBuf.data[i]
      /\ \A j \in 1 .. Whole(p) : sendBuf'.data[sendBuf.write + j] = Byte(p, j)
  <2>1. Pack(sendBuf, p) \in Buffers /\ Pack(sendBuf, p).read = 0
    BY <1>4, <1>7, PackType
  <2>2. /\ Pack(sendBuf, p).write = sendBuf.write + Whole(p)
        /\ Pack(sendBuf, p).write <= Size(Pack(sendBuf, p))
        /\ \A i \in 1 .. sendBuf.write : Pack(sendBuf, p).data[i] = sendBuf.data[i]
        /\ \A j \in 1 .. Whole(p) : Pack(sendBuf, p).data[sendBuf.write + j] = Byte(p, j)
    BY <1>4, <1>7, PackBytes
  <2> QED BY <1>0, <2>1, <2>2
<1>9. /\ \A j \in 1 .. Whole(p) : stream[off[k + 1] + j] = Byte(p, j)
      /\ off[k + 1 + 1] = off[k + 1] + Whole(p) /\ off[k + 1] \in Nat
  <2>1. k + 1 \in 1 .. Len(sent) + 1
    BY <1>4, <1>5
  <2> QED BY <1>2, <1>5, <1>6, <2>1 DEF Flow, Laid, Marks
<1>10. Whole(p) \in Nat
  BY <1>4, Wholes
<1>11. ASSUME NEW i \in 1 .. sendBuf'.write PROVE sendBuf'.data[i] = stream[from + i]
  <2> DEFINE w == sendBuf.write
             v == Whole(p)
             e == off[k + 1]
  <2>1. w \in Nat /\ v \in Nat /\ e \in Nat /\ from + w = e /\ i \in 1 .. w + v
    BY <1>7, <1>8, <1>9, <1>10, <1>11
  <2>2. CASE i <= w
    <3>1. i \in 1 .. w
      <4> HIDE DEF w, v
      <4> QED BY <2>1, <2>2
    <3> QED BY <1>7, <1>8, <3>1 DEF Lies
  <2>3. CASE ~(i <= w)
    <3>1. PICK j : j = i - w
      OBVIOUS
    <3>2. j \in 1 .. v /\ w + j = i /\ e + j = from + i
      <4> HIDE DEF w, v, e
      <4> QED BY <2>1, <2>3, <3>1
    <3>3. sendBuf'.data[w + j] = Byte(p, j) /\ stream[e + j] = Byte(p, j)
      BY <1>8, <1>9, <3>2
    <3> HIDE DEF w, v, e
    <3> QED BY <3>2, <3>3
  <2> QED BY <2>2, <2>3
<1>12. Arrives(stream, off)' /\ Ahead(off)' = Ahead(off)
  BY <1>0, <1>2, ArrivesSame DEF Flow
<1>13. Leaves(stream, off, from)'
  <2>1. Len(toSend') <= Len(sent')
    BY <1>0, <1>4
  <2>2. ASSUME NEW i \in 1 .. Len(toSend') PROVE toSend'[i] = sent'[Packed' + i]
    <3>1. i \in 1 .. Len(toSend) - 1 /\ i + 1 \in 1 .. Len(toSend) /\ k + (i + 1) = k + 1 + i
      <4> DEFINE n == Len(toSend)
      <4>1. n \in Nat \ {0} /\ i \in 1 .. n - 1
        BY <1>4, <2>2
      <4> HIDE DEF n
      <4>2. i \in 1 .. n - 1 /\ i + 1 \in 1 .. n /\ k + (i + 1) = k + 1 + i
        BY <1>5, <4>1
      <4> QED BY <4>2 DEF n
    <3>2. toSend[i + 1] = sent[k + (i + 1)]
      BY <1>3, <3>1 DEF Leaves, k
    <3>3. toSend'[i] = toSend[i + 1]
      BY <1>4, <3>1
    <3> QED BY <1>0, <1>5, <3>1, <3>2, <3>3
  <2>3. Lies(sendBuf, stream, from)'
    BY <1>8, <1>11 DEF Lies
  <2>4. from + sendBuf'.write = off[Packed' + 1]
    <3> DEFINE w == sendBuf.write
               v == Whole(p)
               e == off[k + 1]
               u == off[k + 1 + 1]
    <3>1. w \in Nat /\ v \in Nat /\ e \in Nat /\ from + w = e /\ u = e + v /\ sendBuf'.write = w + v
      BY <1>7, <1>8, <1>9, <1>10
    <3>2. from + (w + v) = u
      <4> HIDE DEF w, v, e, u
      <4> QED BY <3>1
    <3> HIDE DEF w, v
    <3> QED BY <1>5, <3>1, <3>2
  <2>5. Ahead(off)' = from
    BY <1>1, <1>3, <1>12 DEF Leaves
  <2> QED BY <1>0, <1>1, <2>1, <2>2, <2>3, <2>4, <2>5 DEF Leaves
<1> QED BY <1>0, <1>1, <1>2, <1>12, <1>13, FlowKept

LEMMA WriteFlow ==
  ASSUME SenderInv, StreamInv, NEW t \in Threads, Write(t) PROVE StreamInv'
<1>0. /\ at[t] = "start"
      /\ UNCHANGED <<use, point, toSend, sendBuf, written, wire, recvBuf, sent, got>>
      /\ IF Filled(sendBuf) # 0 THEN writing' = Readable(sendBuf) ELSE UNCHANGED writing
  BY DEF Write, sendVars
<1>1. point # "closed"
  BY <1>0 DEF StreamInv, Quiet
<1>2. CASE Filled(sendBuf) = 0
  BY <1>0, <1>1, <1>2, StillStep
<1>3. CASE Filled(sendBuf) # 0
  <2>1. PICK stream, off : Flow(stream, off)
    BY DEF StreamInv
  <2>2. PICK from \in Nat : Leaves(stream, off, from)
    BY <1>1, <2>1 DEF Flow
  <2>3. Arrives(stream, off)' /\ Ahead(off)' = Ahead(off)
    BY <1>0, <2>1, ArrivesSame DEF Flow
  <2>4. /\ sendBuf \in Buffers /\ sendBuf.read = 0 /\ sendBuf.write <= Size(sendBuf)
        /\ \A i \in 1 .. sendBuf.write : sendBuf.data[i] = stream[from + i]
    BY <2>2 DEF Leaves, Lies
  <2>5. /\ Len(writing') = sendBuf.write
        /\ \A i \in 1 .. sendBuf.write : writing'[i] = stream[from + i]
    BY <1>0, <1>3, <2>4, ReadableBytes
  <2>6. Leaves(stream, off, from)'
    BY <1>0, <2>2, <2>3, <2>5 DEF Leaves, Packed, Lies
  <2> QED BY <1>0, <1>1, <2>1, <2>3, <2>6, FlowKept
<1> QED BY <1>2, <1>3

LEMMA TakeFlow ==
  ASSUME WholeUses, SenderInv, StreamInv, Take PROVE StreamInv'
<1>0. /\ writing # <<>> /\ writing' = <<>>
      /\ UNCHANGED <<use, point, toSend, sendBuf, at, recvBuf, sent, got>>
  BY DEF Take, sendVars
<1>1. writing \in Seq(Bytes) /\ Len(writing) \in Nat \ {0} /\ wire' = wire \o writing /\ written' = Len(writing)
  <2>1. ~use.partial /\ writing \in Seq(Bytes)
    BY DEF WholeUses, SenderInv, SenderTypeOK
  <2>2. wire' = wire \o SubSeq(writing, 1, Len(writing)) /\ written' = Len(writing)
    BY <2>1 DEF Take
  <2>3. \A q \in Seq(Bytes) : SubSeq(q, 1, Len(q)) = q /\ (q # <<>> => Len(q) \in Nat \ {0})
    OBVIOUS
  <2> QED BY <1>0, <2>1, <2>2, <2>3
<1>2. written = 0 /\ point # "closed"
  <2>1. written > 0 => FALSE
    BY <1>0, SoleSender DEF SenderInv
  <2>2. written \in Nat /\ point # "closed"
    BY <1>0 DEF SenderInv, SenderTypeOK, StreamInv, Quiet
  <2> QED BY <2>1, <2>2
<1>3. PICK stream, off : Flow(stream, off)
  BY DEF StreamInv
<1>4. PICK from \in Nat : Leaves(stream, off, from)
  BY <1>2, <1>3 DEF Flow
<1> DEFINE c == off[Len(got) + 1]
           r == recvBuf.write
           x == Len(wire)
           n == Len(writing)
           e == off[Packed + 1]
<1>5. /\ c + r + x = from /\ n = sendBuf.write /\ from + n = e
      /\ \A i \in 1 .. n : writing[i] = stream[from + i]
  BY <1>0, <1>2, <1>4 DEF Leaves, Ahead
<1>6. wire \in Seq(Bytes) /\ x \in Nat /\ r \in Nat /\ c \in Nat /\ n \in Nat
  <2>1. wire \in Seq(Bytes) /\ r \in Nat
    BY <1>3 DEF Flow, Arrives, Lies, Buffers
  <2>2. c \in Nat
    <3>1. off \in [1 .. Len(sent) + 1 -> Nat] /\ got \in Seq(Packages) /\ sent \in Seq(Packages) /\ Len(got) <= Len(sent)
      BY <1>3 DEF Flow, Arrives, Marks, StreamInv
    <3> QED BY <3>1
  <2>3. n \in Nat
    BY <1>1
  <2> QED BY <2>1, <2>2, <2>3
<1>7. wire' \in Seq(Bytes) /\ Len(wire') = x + n
      /\ (\A i \in 1 .. x : wire'[i] = wire[i]) /\ \A i \in 1 .. n : wire'[x + i] = writing[i]
  BY <1>1, <1>6, Joined
<1>8. e <= Len(stream)
  <2>1. /\ sent \in Seq(Packages) /\ toSend \in Seq(Packages) /\ Len(toSend) <= Len(sent)
        /\ Marks(off, sent) /\ Len(stream) = off[Len(sent) + 1]
    BY <1>3, <1>4 DEF StreamInv, SenderInv, SenderTypeOK, Flow, Leaves, Laid
  <2>2. Packed + 1 \in 1 .. Len(sent) + 1 /\ Len(sent) + 1 \in 1 .. Len(sent) + 1 /\ Packed + 1 <= Len(sent) + 1
    <3>1. Packed \in 0 .. Len(sent)
      BY <2>1 DEF Packed
    <3> QED BY <2>1, <3>1
  <2>3. off[Packed + 1] <= off[Len(sent) + 1]
    <3> HIDE DEF e
    <3> QED BY <2>1, <2>2, MarksGrow
  <2> QED BY <2>1, <2>3
<1>9. Ahead(off)' = e
  <2>1. Ahead(off)' = c + r + (x + n)
    BY <1>0, <1>7 DEF Ahead
  <2>2. c + r + x = from /\ from + n = e
    BY <1>5
  <2> HIDE DEF c, r, x, n, e
  <2>3. c + r + (x + n) = e
    BY <1>6, <2>2
  <2> QED BY <2>1, <2>3
<1>10. Arrives(stream, off)'
  <2>1. ASSUME NEW i \in 1 .. x + n PROVE wire'[i] = stream[c + r + i]
    <3>1. CASE i <= x
      <4>1. i \in 1 .. x
        <5> HIDE DEF x, n
        <5> QED BY <1>6, <3>1
      <4>2. wire[i] = stream[c + r + i]
        BY <1>3, <4>1 DEF Flow, Arrives
      <4> QED BY <1>7, <4>1, <4>2
    <3>2. CASE ~(i <= x)
      <4>1. PICK j : j = i - x
        OBVIOUS
      <4>2. j \in 1 .. n /\ x + j = i /\ from + j = c + r + i
        <5> HIDE DEF x, n, c, r, e
        <5> QED BY <1>5, <1>6, <3>2, <4>1
      <4>3. wire'[x + j] = writing[j] /\ writing[j] = stream[from + j]
        BY <1>5, <1>7, <4>2
      <4> HIDE DEF x, n, c, r, e
      <4> QED BY <4>2, <4>3
    <3> QED BY <3>1, <3>2
  <2>2. /\ got \in Seq(Packages) /\ Len(got) <= Len(sent)
        /\ \A i \in 1 .. Len(got) : got[i] = sent[i]
        /\ Lies(recvBuf, stream, c)
    BY <1>3 DEF Flow, Arrives
  <2> QED BY <1>0, <1>7, <1>8, <1>9, <2>1, <2>2 DEF Arrives, Lies
<1>11. Leaves(stream, off, from)'
  <2>1. /\ Len(toSend) <= Len(sent)
        /\ \A i \in 1 .. Len(toSend) : toSend[i] = sent[Packed + i]
        /\ Lies(sendBuf, stream, from)
    BY <1>4 DEF Leaves
  <2>2. written' # 0 /\ written' = sendBuf.write
    BY <1>1, <1>5
  <2>3. from + sendBuf.write = e
    BY <1>5
  <2>4. Packed' = Packed
    BY <1>0 DEF Packed
  <2> HIDE DEF e
  <2> QED BY <1>0, <1>9, <2>1, <2>2, <2>3, <2>4 DEF Leaves, Lies, e
<1> QED BY <1>0, <1>2, <1>3, <1>10, <1>11, FlowKept

LEMMA SentFlow ==
  ASSUME SenderInv, StreamInv, HandleSent PROVE StreamInv'
<1>0. /\ written > 0 /\ sendBuf' = Erase(sendBuf, written) /\ written' = 0
      /\ UNCHANGED <<use, point, toSend, wire, recvBuf, sent, got>>
      /\ Filled(sendBuf') = 0 => UNCHANGED writing
  BY DEF HandleSent
<1>1. writing = <<>> /\ point # "closed" /\ written # 0
  <2>1. writing = <<>>
    BY <1>0, SoleSender DEF SenderInv
  <2>2. written \in Nat /\ (point = "closed" => written = 0)
    BY DEF StreamInv, Quiet, SenderInv, SenderTypeOK
  <2> QED BY <1>0, <2>1, <2>2
<1>2. PICK stream, off : Flow(stream, off)
  BY DEF StreamInv
<1>3. PICK from \in Nat : Leaves(stream, off, from)
  BY <1>1, <1>2 DEF Flow
<1>4. /\ sendBuf \in Buffers /\ sendBuf.read = 0 /\ written = sendBuf.write
      /\ from + sendBuf.write = off[Packed + 1] /\ Ahead(off) = off[Packed + 1]
  BY <1>1, <1>3 DEF Leaves, Lies
<1>5. sendBuf' \in Buffers /\ sendBuf'.read = 0 /\ sendBuf'.write = 0 /\ Size(sendBuf') \in Nat
  <2>1. sendBuf' \in Buffers /\ sendBuf'.read = 0 /\ sendBuf'.write = 0
    BY <1>0, <1>4, EraseWhole
  <2> QED BY <2>1 DEF Buffers, Size
<1>6. writing' = <<>>
  <2>1. Filled(sendBuf') = 0
    BY <1>5 DEF Filled
  <2> QED BY <1>0, <1>1, <2>1
<1>7. Arrives(stream, off)' /\ Ahead(off)' = Ahead(off)
  BY <1>0, <1>2, ArrivesSame DEF Flow
<1>8. PICK next \in Nat : next = off[Packed + 1] /\ next + 0 = next
  <2>1. from + sendBuf.write \in Nat
    BY <1>4 DEF Buffers
  <2>2. off[Packed + 1] \in Nat /\ off[Packed + 1] + 0 = off[Packed + 1]
    BY <1>4, <2>1
  <2> QED BY <2>2
<1>9. Leaves(stream, off, next)'
  <2>1. /\ Len(toSend) <= Len(sent)
        /\ \A i \in 1 .. Len(toSend) : toSend[i] = sent[Packed + i]
    BY <1>3 DEF Leaves
  <2>2. Lies(sendBuf', stream, next)
    BY <1>5 DEF Lies
  <2>3. Packed' = Packed
    BY <1>0 DEF Packed
  <2> QED BY <1>0, <1>4, <1>5, <1>6, <1>7, <1>8, <2>1, <2>2, <2>3 DEF Leaves, Lies
<1> QED BY <1>0, <1>1, <1>2, <1>7, <1>8, <1>9, FlowKept

\* What a step hands to the handlers, Channel allows.
Hands == UNCHANGED got \/ \E n \in Len(got) + 1 .. Len(sent) : got' = SubSeq(sent, 1, n)

\* The receiver's buffer once n bytes of the wire are stored in it.
LEMMA StoredReads ==
  ASSUME sent \in Seq(Packages), NEW stream, NEW off, Flow(stream, off),
         NEW n \in 1 .. Len(wire), n <= Idle(recvBuf),
         NEW b, b = Store(recvBuf, SubSeq(wire, 1, n))
  PROVE  /\ Reads(b, stream, off, sent, Len(got))
         /\ b.write = recvBuf.write + n
<1> DEFINE g == Len(got)
           c == off[g + 1]
           r == recvBuf.write
           x == Len(wire)
           bytes == SubSeq(wire, 1, n)
<1>1. /\ recvBuf \in Buffers /\ recvBuf.read = 0 /\ r \in Nat /\ Size(recvBuf) \in Nat /\ r <= Size(recvBuf)
      /\ \A i \in 1 .. r : recvBuf.data[i] = stream[c + i]
  BY DEF Flow, Arrives, Lies, Buffers, Size
<1>2. wire \in Seq(Bytes) /\ x \in Nat /\ n \in Nat /\ n <= x
  BY DEF Flow, Arrives
<1>3. \A i \in 1 .. x : wire[i] = stream[c + r + i]
  BY DEF Flow, Arrives
<1>4. g \in Nat /\ g \in 0 .. Len(sent) /\ c \in Nat
  <2>1. off \in [1 .. Len(sent) + 1 -> Nat] /\ got \in Seq(Packages) /\ Len(got) <= Len(sent)
    BY DEF Flow, Arrives, Marks
  <2>2. Len(got) \in Nat /\ Len(got) \in 0 .. Len(sent) /\ Len(got) + 1 \in 1 .. Len(sent) + 1
    BY <2>1
  <2> QED BY <2>1, <2>2
<1>5. c + r + x <= Len(stream) /\ Len(stream) \in Nat
  BY DEF Flow, Arrives, Ahead, Laid
<1>6. bytes \in Seq(Bytes) /\ Len(bytes) = n /\ \A i \in 1 .. n : bytes[i] = wire[i]
  BY <1>2
<1> HIDE DEF bytes
<1>7. r + n <= Size(recvBuf)
  BY <1>1, <1>2 DEF Idle
<1>8. /\ b \in Buffers /\ Size(b) = Size(recvBuf) /\ b.write = r + n /\ b.read = 0
  BY <1>1, <1>6, StoreType DEF bytes
<1>9. /\ \A i \in 1 .. r : b.data[i] = recvBuf.data[i]
      /\ \A i \in 1 .. n : b.data[r + i] = bytes[i]
  <2>1. recvBuf.write + Len(bytes) <= Size(recvBuf)
    BY <1>6, <1>7
  <2>2. b = Store(recvBuf, bytes)
    BY DEF bytes
  <2>3. /\ \A i \in 1 .. recvBuf.write : Store(recvBuf, bytes).data[i] = recvBuf.data[i]
        /\ \A i \in 1 .. Len(bytes) : Store(recvBuf, bytes).data[recvBuf.write + i] = bytes[i]
    BY <1>1, <1>6, <2>1, StoreBytes
  <2> QED BY <1>6, <2>2, <2>3
<1>10. ASSUME NEW i \in 1 .. r + n PROVE b.data[i] = stream[c + i]
  <2>1. CASE i <= r
    <3>1. i \in 1 .. r
      <4> HIDE DEF r
      <4> QED BY <1>1, <2>1
    <3> QED BY <1>1, <1>9, <3>1
  <2>2. CASE ~(i <= r)
    <3>1. PICK j : j = i - r
      OBVIOUS
    <3>2. j \in 1 .. n /\ j \in 1 .. x /\ r + j = i /\ c + r + j = c + i
      <4> HIDE DEF r, x, c
      <4> QED BY <1>1, <1>2, <1>4, <2>2, <3>1
    <3>3. b.data[r + j] = wire[j] /\ wire[j] = stream[c + r + j]
      BY <1>3, <1>6, <1>9, <3>2
    <3> HIDE DEF r, c
    <3> QED BY <3>2, <3>3
  <2> QED BY <2>1, <2>2
<1>11. c + (r + n) <= Len(stream)
  <2> DEFINE L == Len(stream)
  <2>1. c + r + x <= L /\ L \in Nat
    BY <1>5
  <2> HIDE DEF c, r, x, L
  <2>2. c + (r + n) <= L
    BY <1>1, <1>2, <1>4, <2>1
  <2> QED BY <2>2 DEF L
<1>12. Lies(b, stream, c)
  BY <1>1, <1>7, <1>8, <1>10 DEF Lies
<1>13. Marks(off, sent) /\ Laid(stream, off, sent)
  BY DEF Flow
<1> QED BY <1>4, <1>8, <1>11, <1>12, <1>13 DEF Reads

\* A read that ends where the code can go on: either no package is whole yet or
\* nothing lies behind the last one.
LEMMA EndsWell ==
  ASSUME WholeUses, SenderTypeOK, StreamInv, NEW stream, NEW off, NEW b,
         Reads(b, stream, off, sent, Len(got)), b.write # 0,
         NEW m, Complete(b, off, sent, Len(got), m), NEW wrong \in Nat,
         use.ragged \/ Even(Split(b, wrong))
  PROVE  m = 0 \/ off[Len(got) + m + 1] = off[Len(got) + 1] + b.write
<1> DEFINE g == Len(got)
           end == off[g + m + 1]
           top == off[g + 1] + b.write
<1> SUFFICES ASSUME m # 0, end # top PROVE FALSE
  OBVIOUS
<1>1. /\ g \in 0 .. Len(sent) /\ m \in 0 .. Len(sent) - g /\ Len(sent) \in Nat /\ end <= top
      /\ top <= Len(stream) /\ Len(stream) = off[Len(sent) + 1]
  BY DEF Reads, Complete, Laid, StreamInv
<1>2. CASE ~use.ragged
  <2>1. Even(Split(b, wrong))
    BY <1>2
  <2>2. /\ Split(b, wrong).pieces = [j \in 1 .. m |-> Content(sent[g + j])]
        /\ Split(b, wrong).rest = [b EXCEPT !.read = end - off[g + 1]]
    <3>1. Separates(b, off, sent, g, m, wrong)
      BY SplitSeparates
    <3> QED BY <3>1 DEF Separates
  <2>3. Split(b, wrong).rest.write = b.write
    BY <2>2 DEF Reads, Lies, Buffers
  <2>4. Split(b, wrong).pieces # <<>>
    <3>1. 1 \in 1 .. m
      BY <1>1
    <3>2. DOMAIN Split(b, wrong).pieces = 1 .. m
      BY <2>2
    <3>3. DOMAIN <<>> = {}
      OBVIOUS
    <3> HIDE DEF g
    <3> QED BY <3>1, <3>2, <3>3, Zenon
  <2> QED BY <2>1, <2>3, <2>4 DEF Even
<1>3. CASE use.ragged
  <2>1. use.window <= 1
    BY <1>3 DEF WholeUses, SenderTypeOK
  <2>2. Len(sent) - g <= 1
    BY <2>1 DEF StreamInv
  <2>3. g + m + 1 = Len(sent) + 1
    BY <1>1, <2>2
  <2>4. end = Len(stream)
    BY <1>1, <2>3
  <2>5. off[g + 1] \in Nat /\ b.write \in Nat /\ end \in Nat
    <3>1. off \in [1 .. Len(sent) + 1 -> Nat] /\ b.write \in Nat
      BY DEF Reads, Marks, Lies, Buffers
    <3>2. g + 1 \in 1 .. Len(sent) + 1 /\ g + m + 1 \in 1 .. Len(sent) + 1
      BY <1>1
    <3>3. top = off[g + 1] + b.write
      OBVIOUS
    <3>4. off[g + 1] \in Nat
      <4> HIDE DEF g
      <4> QED BY <3>1, <3>2
    <3>5. end \in Nat
      <4> HIDE DEF g
      <4> QED BY <3>1, <3>2
    <3> QED BY <3>1, <3>4, <3>5
  <2>6. top \in Nat
    BY <2>5
  <2> HIDE DEF top, end
  <2> QED BY <1>1, <2>4, <2>5, <2>6
<1> QED BY <1>2, <1>3

LEMMA ReceiveFlow ==
  ASSUME WholeUses, SenderInv, StreamInv, Receive PROVE StreamInv' /\ Hands
<1>1. PICK n \in 1 .. Len(wire), wrong \in Wrong :
        /\ n <= Idle(recvBuf)
        /\ LET found == Split(Store(recvBuf, SubSeq(wire, 1, n)), wrong) IN
           /\ use.ragged \/ Even(found)
           /\ got' = got \o [i \in DOMAIN found.pieces |-> Package(found.pieces[i])]
           /\ recvBuf' = Writeable(found.rest)
           /\ wire' = SubSeq(wire, n + 1, Len(wire))
  BY DEF Receive
<1>2. UNCHANGED <<use, point, toSend, sendBuf, at, writing, written, sent>>
  BY DEF Receive, sendVars
<1>3. PICK stream, off : Flow(stream, off)
  BY DEF StreamInv
<1>4. PICK b : b = Store(recvBuf, SubSeq(wire, 1, n))
  OBVIOUS
<1>5. /\ use.ragged \/ Even(Split(b, wrong))
      /\ got' = got \o [i \in DOMAIN Split(b, wrong).pieces |-> Package(Split(b, wrong).pieces[i])]
      /\ recvBuf' = Writeable(Split(b, wrong).rest)
      /\ wire' = SubSeq(wire, n + 1, Len(wire))
      /\ wrong \in Nat
  BY <1>1, <1>4
<1>6. sent \in Seq(Packages) /\ SenderTypeOK
  BY DEF StreamInv, SenderInv
<1>7. PICK g : g = Len(got)
  OBVIOUS
<1>8. Reads(b, stream, off, sent, g) /\ b.write = recvBuf.write + n
  BY <1>1, <1>3, <1>4, <1>6, <1>7, StoredReads
<1>9. PICK m : Complete(b, off, sent, g, m)
  BY <1>8, CompleteExists
<1> DEFINE c == off[g + 1]
           r == recvBuf.write
           x == Len(wire)
           end == off[g + m + 1]
<1>10. /\ g \in Nat /\ m \in Nat /\ g + m <= Len(sent) /\ Len(sent) \in Nat /\ got \in Seq(Packages)
       /\ \A i \in 1 .. g : got[i] = sent[i]
       /\ wire \in Seq(Bytes) /\ x \in Nat /\ n \in 1 .. x /\ r \in Nat /\ c \in Nat /\ end \in Nat
  <2>1. /\ g \in 0 .. Len(sent) /\ m \in 0 .. Len(sent) - g
    BY <1>8, <1>9 DEF Reads, Complete
  <2>2. /\ got \in Seq(Packages) /\ (\A i \in 1 .. g : got[i] = sent[i])
        /\ wire \in Seq(Bytes) /\ r \in Nat /\ off \in [1 .. Len(sent) + 1 -> Nat]
    BY <1>3, <1>7 DEF Flow, Arrives, Lies, Buffers, Marks
  <2>3. g + 1 \in 1 .. Len(sent) + 1 /\ g + m + 1 \in 1 .. Len(sent) + 1
    BY <1>6, <2>1
  <2>4. c \in Nat /\ end \in Nat
    BY <2>2, <2>3
  <2> QED BY <1>6, <2>1, <2>2, <2>4
<1>11. m = 0 \/ end = c + b.write
  <2>1. b.write # 0
    BY <1>8, <1>10
  <2> QED BY <1>5, <1>6, <1>7, <1>8, <1>9, <2>1, EndsWell
<1>12. /\ Split(b, wrong).pieces = [j \in 1 .. m |-> Content(sent[g + j])]
       /\ Split(b, wrong).rest = IF end = c + b.write THEN [b EXCEPT !.read = 0, !.write = 0]
                                 ELSE [b EXCEPT !.read = end - c]
  <2>1. Separates(b, off, sent, g, m, wrong)
    BY <1>5, <1>8, <1>9, SplitSeparates
  <2> QED BY <2>1 DEF Separates
\* the handlers
<1>13. /\ got' \in Seq(Packages) /\ Len(got') = g + m
       /\ \A i \in 1 .. g + m : got'[i] = sent[i]
  <2> DEFINE new == [j \in 1 .. m |-> sent[g + j]]
  <2>1. \A j \in 1 .. m : g + j \in 1 .. Len(sent) /\ sent[g + j] \in Packages
    <3> SUFFICES ASSUME NEW j \in 1 .. m
                 PROVE  g + j \in 1 .. Len(sent) /\ sent[g + j] \in Packages
      OBVIOUS
    <3>1. g \in Nat /\ m \in Nat /\ g + m <= Len(sent) /\ Len(sent) \in Nat
      BY <1>10
    <3>2. g + j \in 1 .. Len(sent)
      BY <3>1
    <3>3. sent \in Seq(Packages)
      BY <1>6
    <3> QED BY <3>2, <3>3
  <2>2. [i \in DOMAIN Split(b, wrong).pieces |-> Package(Split(b, wrong).pieces[i])] = new
    <3>1. \A j \in 1 .. m : Package(Content(sent[g + j])) = sent[g + j]
      BY <2>1, PackageOfContent
    <3> QED BY <1>12, <3>1
  <2>3. new \in Seq(Packages) /\ Len(new) = m
    <3>1. new \in [1 .. m -> Packages]
      BY <2>1
    <3> HIDE DEF new
    <3> QED BY <1>10, <3>1, IsASeq
  <2>4. \A j \in 1 .. m : new[j] = sent[g + j]
    OBVIOUS
  <2> HIDE DEF new
  <2>5. /\ got' = got \o new /\ got' \in Seq(Packages) /\ Len(got') = g + m
        /\ \A i \in 1 .. g : got'[i] = got[i]
        /\ \A j \in 1 .. m : got'[g + j] = new[j]
    <3>1. \A p, q \in Seq(Packages) : /\ p \o q \in Seq(Packages) /\ Len(p \o q) = Len(p) + Len(q)
                                      /\ \A i \in 1 .. Len(p) : (p \o q)[i] = p[i]
                                      /\ \A j \in 1 .. Len(q) : (p \o q)[Len(p) + j] = q[j]
      OBVIOUS
    <3>2. got' = got \o new
      BY <1>5, <2>2
    <3> QED BY <1>7, <1>10, <2>3, <3>1, <3>2
  <2>6. ASSUME NEW i \in 1 .. g + m PROVE got'[i] = sent[i]
    <3>1. CASE i <= g
      <4>1. i \in 1 .. g
        BY <1>10, <3>1
      <4> QED BY <1>10, <2>5, <4>1
    <3>2. CASE ~(i <= g)
      <4>1. PICK j : j = i - g
        OBVIOUS
      <4>2. j \in 1 .. m /\ g + j = i
        BY <1>10, <3>2, <4>1
      <4> QED BY <2>4, <2>5, <4>2
    <3> QED BY <3>1, <3>2
  <2> QED BY <2>5, <2>6
<1>14. Hands
  <2>1. CASE m = 0
    <3>1. got' = got
      BY <1>7, <1>10, <1>13, <2>1, SeqEqual
    <3> QED BY <3>1 DEF Hands
  <2>2. CASE m # 0
    <3>1. g + m \in Len(got) + 1 .. Len(sent)
      BY <1>7, <1>10, <2>2
    <3>2. /\ SubSeq(sent, 1, g + m) \in Seq(Packages) /\ Len(SubSeq(sent, 1, g + m)) = g + m
          /\ \A i \in 1 .. g + m : SubSeq(sent, 1, g + m)[i] = sent[i]
      <4>1. \A q \in Seq(Packages) : \A j \in 0 .. Len(q) :
              /\ SubSeq(q, 1, j) \in Seq(Packages) /\ Len(SubSeq(q, 1, j)) = j
              /\ \A i \in 1 .. j : SubSeq(q, 1, j)[i] = q[i]
        OBVIOUS
      <4>2. g + m \in 0 .. Len(sent)
        BY <1>10
      <4> QED BY <1>6, <4>1, <4>2
    <3>3. got' = SubSeq(sent, 1, g + m)
      BY <1>13, <3>2, SeqEqual
    <3> QED BY <3>1, <3>3 DEF Hands
  <2> QED BY <2>1, <2>2
\* what stays in the buffer
<1>15. Lies(recvBuf', stream, end) /\ end + recvBuf'.write = c + b.write
  <2> DEFINE rest == Split(b, wrong).rest
  <2>1. /\ b \in Buffers /\ b.read = 0 /\ b.write \in Nat /\ b.write <= Size(b) /\ Size(b) \in Nat
        /\ \A i \in 1 .. b.write : b.data[i] = stream[c + i]
    BY <1>8 DEF Reads, Lies, Buffers, Size
  <2>2. /\ rest \in Buffers /\ rest.read = 0 /\ rest.data = b.data /\ Size(rest) = Size(b)
        /\ rest.write \in Nat /\ rest.write <= b.write /\ end + rest.write = c + b.write
        /\ end = c + b.write => rest.write = 0
    <3>1. CASE end = c + b.write
      <4>1. rest = [b EXCEPT !.read = 0, !.write = 0]
        BY <1>12, <3>1
      <4>2. /\ rest \in Buffers /\ rest.read = 0 /\ rest.data = b.data /\ Size(rest) = Size(b) /\ rest.write = 0
        BY <2>1, <4>1 DEF Buffers, Size
      <4> HIDE DEF rest, c, end
      <4> QED BY <1>10, <2>1, <3>1, <4>2
    <3>2. CASE end # c + b.write
      <4>1. m = 0 /\ g + m + 1 = g + 1
        BY <1>10, <1>11, <3>2
      <4>2. end = c /\ end - c = 0
        BY <1>10, <4>1
      <4>3. rest = [b EXCEPT !.read = 0]
        BY <1>12, <3>2, <4>2
      <4>4. /\ rest \in Buffers /\ rest.read = 0 /\ rest.data = b.data /\ Size(rest) = Size(b)
            /\ rest.write = b.write
        BY <2>1, <4>3 DEF Buffers, Size
      <4> HIDE DEF rest, c, end
      <4> QED BY <1>10, <2>1, <3>2, <4>2, <4>4
    <3> QED BY <3>1, <3>2
  <2>3. rest.write # 0 => end = c
    <3>1. m = 0 => g + m + 1 = g + 1
      BY <1>10
    <3> QED BY <1>11, <2>2, <3>1
  <2> HIDE DEF rest
  <2>4. /\ recvBuf' \in Buffers /\ recvBuf'.read = 0 /\ recvBuf'.write = rest.write
        /\ Size(recvBuf') = IF Size(rest) - rest.write < Inc THEN Size(rest) + Inc ELSE Size(rest)
    BY <1>5, <2>2, WriteableType DEF rest
  <2>5. \A i \in 1 .. Size(rest) : recvBuf'.data[i] = rest.data[i]
    BY <1>5, <2>2, WriteableBytes DEF rest
  <2>6. ASSUME NEW i \in 1 .. rest.write PROVE recvBuf'.data[i] = stream[end + i]
    <3>1. i \in 1 .. b.write /\ i \in 1 .. Size(rest) /\ rest.write # 0
      BY <2>1, <2>2
    <3>2. recvBuf'.data[i] = b.data[i] /\ b.data[i] = stream[c + i]
      BY <2>1, <2>2, <2>5, <3>1
    <3> HIDE DEF c, end
    <3> QED BY <2>3, <3>1, <3>2
  <2>7. recvBuf'.write <= Size(recvBuf')
    BY <2>1, <2>2, <2>4
  <2> HIDE DEF c, end
  <2> QED BY <2>2, <2>4, <2>6, <2>7 DEF Lies
\* what stays on the wire
<1>16. /\ wire' \in Seq(Bytes) /\ Len(wire') = x - n
       /\ \A i \in 1 .. x - n : wire'[i] = wire[n + i]
  <2>1. \A q \in Seq(Bytes) : \A j \in 1 .. Len(q) :
          /\ SubSeq(q, j + 1, Len(q)) \in Seq(Bytes) /\ Len(SubSeq(q, j + 1, Len(q))) = Len(q) - j
          /\ \A i \in 1 .. Len(q) - j : SubSeq(q, j + 1, Len(q))[i] = q[j + i]
    OBVIOUS
  <2> QED BY <1>5, <1>10, <2>1
<1>17. \A i \in 1 .. x : wire[i] = stream[c + r + i]
  BY <1>3, <1>7 DEF Flow, Arrives
<1>18. recvBuf'.write \in Nat
  BY <1>15 DEF Lies, Buffers
<1>19. Ahead(off)' = Ahead(off) /\ Ahead(off) <= Len(stream)
  <2>1. Ahead(off) = c + r + x /\ Ahead(off) <= Len(stream)
    BY <1>3, <1>7 DEF Flow, Arrives, Ahead
  <2>2. Ahead(off)' = end + recvBuf'.write + (x - n)
    BY <1>13, <1>16 DEF Ahead
  <2>3. end + recvBuf'.write = c + (r + n)
    BY <1>8, <1>15
  <2> HIDE DEF c, r, x, end
  <2>4. end + recvBuf'.write + (x - n) = c + r + x
    BY <1>10, <1>18, <2>3
  <2> QED BY <2>1, <2>2, <2>4
<1>20. ASSUME NEW i \in 1 .. Len(wire') PROVE wire'[i] = stream[end + recvBuf'.write + i]
  <2>1. end + recvBuf'.write = c + (r + n)
    BY <1>8, <1>15
  <2>2. i \in 1 .. x - n
    BY <1>16, <1>20
  <2>3. wire'[i] = wire[n + i]
    BY <1>16, <2>2
  <2> DEFINE next == recvBuf'.write
  <2>4. n + i \in 1 .. x /\ c + r + (n + i) = end + next + i
    <3> HIDE DEF c, r, x, end, next
    <3>1. end + next = c + (r + n) /\ next \in Nat
      BY <1>18, <2>1 DEF next
    <3> QED BY <1>10, <2>2, <3>1
  <2>5. wire[n + i] = stream[c + r + (n + i)]
    BY <1>17, <2>4
  <2> HIDE DEF c, r, x, end
  <2> QED BY <2>3, <2>4, <2>5
<1>21. Arrives(stream, off)'
  <2>1. off[Len(got') + 1] = end
    BY <1>13
  <2>2. Len(got') <= Len(sent) /\ \A i \in 1 .. Len(got') : got'[i] = sent[i]
    BY <1>10, <1>13
  <2> HIDE DEF end
  <2> QED BY <1>2, <1>13, <1>15, <1>16, <1>19, <1>20, <2>1, <2>2 DEF Arrives, Lies
<1>22. Flow(stream, off)'
  <2>1. \A from \in Nat : Leaves(stream, off, from) => Leaves(stream, off, from)'
    BY <1>2, <1>19 DEF Leaves, Packed, Lies
  <2>2. (Marks(off, sent) /\ Laid(stream, off, sent))'
    BY <1>2, <1>3 DEF Flow
  <2>3. (point # "closed" => \E from \in Nat : Leaves(stream, off, from))'
    BY <1>2, <1>3, <2>1 DEF Flow
  <2> QED BY <1>21, <2>2, <2>3 DEF Flow
<1>23. use'.window <= 1 => Len(sent') - Len(got') <= 1
  <2>1. use.window <= 1 => Len(sent) - g <= 1
    BY <1>7 DEF StreamInv
  <2>2. Len(sent) - (g + m) <= Len(sent) - g
    BY <1>10
  <2>3. Len(sent) - (g + m) \in Int /\ Len(sent) - g \in Int
    BY <1>10
  <2> QED BY <1>2, <1>13, <2>1, <2>2, <2>3
<1>24. StreamInv'
  BY <1>2, <1>6, <1>22, <1>23 DEF StreamInv, Quiet
<1> QED BY <1>14, <1>24

LEMMA InitStream == Init => StreamInv
<1> SUFFICES ASSUME Init PROVE StreamInv
  OBVIOUS
<1>1. /\ sent = <<>> /\ got = <<>> /\ toSend = <<>> /\ wire = <<>> /\ writing = <<>> /\ written = 0
      /\ sendBuf = Empty /\ recvBuf = Empty /\ point = "init"
  BY DEF Init
<1>2. /\ Empty \in Buffers /\ Empty.write = 0 /\ Empty.read = 0 /\ Size(Empty) \in Nat
  <2>1. [i \in 1 .. Inc |-> Zero] \in Seq(Bytes) /\ Len([i \in 1 .. Inc |-> Zero]) = Inc
    BY ByteTypes
  <2> QED BY <2>1 DEF Empty, Buffers, Size
<1>3. PICK stream : stream = <<>>
  OBVIOUS
<1>4. PICK off : off = [i \in 1 .. 1 |-> 0]
  OBVIOUS
<1>5. \A q : /\ <<>> \in Seq(q) /\ Len(<<>>) = 0
  OBVIOUS
<1>6. 0 + 1 = 1 /\ 1 .. 0 = {} /\ off \in [1 .. 1 -> Nat] /\ off[1] = 0
  BY <1>4
<1>7. Marks(off, <<>>) /\ Laid(<<>>, off, <<>>)
  BY <1>5, <1>6 DEF Marks, Laid
<1>8. Lies(Empty, <<>>, 0)
  BY <1>2, <1>6 DEF Lies
<1>9. Ahead(off) = 0
  BY <1>1, <1>2, <1>5, <1>6 DEF Ahead
<1>10. Arrives(<<>>, off)
  BY <1>1, <1>5, <1>6, <1>8, <1>9 DEF Arrives
<1>11. Leaves(<<>>, off, 0)
  <2>1. Packed = 0
    BY <1>1, <1>5 DEF Packed
  <2> QED BY <1>1, <1>2, <1>5, <1>6, <1>8, <1>9, <2>1 DEF Leaves
<1>12. Flow(<<>>, off)
  BY <1>1, <1>7, <1>10, <1>11 DEF Flow
<1>13. Quiet
  BY <1>1 DEF Quiet
<1>14. Len(sent) - Len(got) <= 1
  BY <1>1, <1>5
<1> QED BY <1>1, <1>5, <1>12, <1>13, <1>14 DEF StreamInv

LEMMA StreamSteps ==
  ASSUME WholeUses, SenderInv, StreamInv, [Next]_vars
  PROVE  StreamInv'
<1>1. CASE Connected
  <2>1. point = "init" /\ point' \in {"valid", "error"}
    BY <1>1 DEF Connected
  <2>2. UNCHANGED <<use, toSend, sendBuf, writing, written, wire, recvBuf, sent, got>>
    BY <1>1 DEF Connected, sendVars, netVars
  <2> QED BY <2>1, <2>2, StillStep
<1>2. CASE Break \/ UNCHANGED vars
  <2>1. UNCHANGED <<use, point, at, toSend, sendBuf, writing, written, wire, recvBuf, sent, got>>
    BY <1>2 DEF Break, vars, sendVars, netVars
  <2> QED BY <2>1, StillStep
<1>3. CASE Test \/ \E t \in Threads : Clear(t)
  <2>1. UNCHANGED <<use, point, toSend, sendBuf, writing, written, wire, recvBuf, sent, got>>
    BY <1>3 DEF Test, Clear, netVars
  <2>2. point # "closed"
    <3>1. \E t \in Threads : at[t] # "idle"
      BY <1>3 DEF Test, Clear, Threads
    <3> QED BY <3>1 DEF StreamInv, Quiet
  <2> QED BY <2>1, <2>2, StillStep
<1>4. CASE \E t \in Threads : PackNext(t)
  BY <1>4, PackFlow
<1>5. CASE \E t \in Threads : Write(t)
  BY <1>5, WriteFlow
<1>6. CASE \E p \in Packages : Send(p)
  BY <1>6, SendFlow
<1>7. CASE HandleError
  BY <1>7, CloseStep
<1>8. CASE Take
  BY <1>8, TakeFlow
<1>9. CASE HandleSent
  BY <1>9, SentFlow
<1>10. CASE Receive
  BY <1>10, ReceiveFlow
<1> QED BY <1>1, <1>2, <1>3, <1>4, <1>5, <1>6, <1>7, <1>8, <1>9, <1>10 DEF Next, Sending

LEMMA ChannelSteps ==
  ASSUME WholeUses, SenderInv, StreamInv, [Next]_vars
  PROVE  [C!Next]_(C!vars)
<1>1. CASE Receive
  <2>1. Hands /\ UNCHANGED <<sent, broken>>
    BY <1>1, ReceiveFlow DEF Receive
  <2>2. CASE UNCHANGED got
    BY <2>1, <2>2 DEF C!vars
  <2>3. CASE \E n \in Len(got) + 1 .. Len(sent) : got' = SubSeq(sent, 1, n)
    BY <2>1, <2>3 DEF C!Next, C!Deliver
  <2> QED BY <2>1, <2>2, <2>3 DEF Hands
<1>2. ASSUME NEW p \in Packages, Send(p) PROVE C!Next
  <2>1. C!Send(p)
    BY <1>2 DEF Send, C!Send
  <2> QED BY <2>1 DEF C!Next
<1>3. CASE Connected \/ Break
  <2>1. UNCHANGED <<sent, got>> /\ (UNCHANGED broken \/ broken' = TRUE)
    BY <1>3 DEF Connected, Break
  <2> QED BY <2>1 DEF C!Next, C!Break, C!vars
<1>4. CASE HandleError \/ Take \/ HandleSent \/ Sending \/ UNCHANGED vars
  <2>1. UNCHANGED <<sent, got, broken>>
    BY <1>4 DEF HandleError, Take, HandleSent, Sending, Test, PackNext, Write, Clear, vars
  <2> QED BY <2>1 DEF C!vars
<1> QED BY <1>1, <1>2, <1>3, <1>4 DEF Next

-----------------------------------------------------------------------------
(* What is sent, packed, written, on the wire and read is one stream of frames. *)
LEMMA StreamInvariant == ASSUME WholeUses PROVE Spec => []StreamInv
<1>1. StreamInv /\ SenderInv /\ [Next]_vars => StreamInv'
  BY StreamSteps
<1> QED BY <1>1, InitStream, SenderInvariant, PTL DEF Spec

(* length_packer and net_buffer: where the socket takes what it is given and no   *)
(* read ends inside a package behind a whole one, or one package is under way at  *)
(* a time, the handlers of the other side get a prefix of what was sent.          *)
THEOREM PackagesArriveIntact == ASSUME WholeUses PROVE Spec => []Intact
<1>1. StreamInv => Intact
  <2> SUFFICES ASSUME StreamInv PROVE Intact
    OBVIOUS
  <2>1. /\ sent \in Seq(Packages) /\ got \in Seq(Packages) /\ Len(got) <= Len(sent)
        /\ \A i \in 1 .. Len(got) : got[i] = sent[i]
    BY DEF StreamInv, Flow, Arrives
  <2>2. /\ SubSeq(sent, 1, Len(got)) \in Seq(Packages) /\ Len(SubSeq(sent, 1, Len(got))) = Len(got)
        /\ \A i \in 1 .. Len(got) : SubSeq(sent, 1, Len(got))[i] = sent[i]
    BY <2>1
  <2>3. got = SubSeq(sent, 1, Len(got))
    BY <2>1, <2>2, SeqEqual
  <2> QED BY <2>1, <2>3 DEF Intact
<1> QED BY <1>1, StreamInvariant, PTL

(* The connection implements Channel, but for the fairness: every step of it is a *)
(* step of the channel or none, for any packages, lengths, increments and limit   *)
(* and whatever threads send.                                                     *)
THEOREM ConnectionIsAChannel == ASSUME WholeUses PROVE Spec => C!Init /\ [][C!Next]_(C!vars)
<1>1. Init => C!Init
  BY DEF Init, C!Init
<1>2. StreamInv /\ SenderInv /\ [Next]_vars => [C!Next]_(C!vars)
  BY ChannelSteps
<1> QED BY <1>1, <1>2, StreamInvariant, SenderInvariant, PTL DEF Spec
=============================================================================
