------------------------------ MODULE NetBuffer ------------------------------
(***************************************************************************)
(* The buffer of a connection (net_buffer.cpp, net_buffer.h) and the way   *)
(* packages lie in it (length_packer.cpp): each behind its length.         *)
(*                                                                         *)
(* A byte is known by the package it belongs to and its place in that      *)
(* package's frame; what no frame put there is Zero, as resize() leaves    *)
(* it.                                                                     *)
(***************************************************************************)
EXTENDS Integers, Sequences

CONSTANTS
  Packages,  \* what can be sent
  Length,    \* how many bytes a package takes when serialized, its type id included
  Word,      \* sizeof(uint32_t): the bytes of a length, and of a type id
  Inc        \* BUFFER_INC_STEP

ASSUME BufferAssumption ==
  /\ Word \in Nat \ {0}
  /\ Inc \in Nat \ {0}
  /\ Length \in [Packages -> Nat] /\ \A p \in Packages : Length[p] >= Word

Zero == [of |-> "none", i |-> 0]
Byte(p, i) == [of |-> p, i |-> i]
Header(p)  == [i \in 1 .. Word |-> Byte(p, i)]
Bytes      == [of : Packages \cup {"none"}, i : Nat]
Content(p) == [i \in 1 .. Length[p] |-> Byte(p, Word + i)]

\* A buffer: data is m_oBuffer, write m_iToWriteBufIndex (filled()) and read m_iToReadBufIndex.
Buffers == [data : Seq(Bytes), write : Nat, read : Nat]
Empty == [data |-> [i \in 1 .. Inc |-> Zero], write |-> 0, read |-> 0]

Filled(b) == b.write - b.read    \* length()
Size(b)   == Len(b.data)
Idle(b)   == Size(b) - b.write

Resize(b, n) == [b EXCEPT !.data = [i \in 1 .. n |-> IF i <= Size(b) THEN b.data[i] ELSE Zero]]

\* writeable() and reserve_idle(): room for what comes next.
Writeable(b)   == IF Idle(b) < Inc THEN Resize(b, Size(b) + Inc) ELSE b
Reserve(b, n)  == IF Idle(b) < n THEN Resize(b, b.write + n) ELSE b

\* Bytes stored from the write index on; filled() += n.
Store(b, bytes) ==
  [b EXCEPT !.data = [i \in 1 .. Size(b) |->
                        IF i - b.write \in DOMAIN bytes THEN bytes[i - b.write] ELSE b.data[i]],
            !.write = @ + Len(bytes)]

\* length_packer::pack of a package.
Pack(b, p) == Store(Writeable(Store(Writeable(Reserve(b, Length[p] + Word)), Header(p))), Content(p))

\* readable(): from the read index, but as many bytes as the write index says;
\* what lies behind the vector is taken for Zero.
Readable(b) == [i \in 1 .. b.write |-> IF b.read + i <= Size(b) THEN b.data[b.read + i] ELSE Zero]

\* Faulty: the indices stay where they are in a buffer that is empty.
EraseKeepsIndices(b, n) ==
  LET len == IF n >= b.write THEN b.write ELSE n
  IN [data |-> SubSeq(b.data, len + 1, Size(b)), write |-> b.write, read |-> b.read + len]

\* erase_buffer: the front of the vector goes and the read index moves as well.
Erase(b, n) ==
  LET len == IF n >= b.write THEN b.write ELSE n
      cut == [data |-> SubSeq(b.data, len + 1, Size(b)), write |-> b.write, read |-> b.read + len]
  IN IF cut.read = cut.write THEN [cut EXCEPT !.write = 0, !.read = 0] ELSE cut

-----------------------------------------------------------------------------
\* length_packer::split: bytes that are no length are read as some number, wrong.
LengthAt(b, at, wrong) ==
  IF \E p \in Packages : SubSeq(b.data, at + 1, at + Word) = Header(p)
  THEN Length[b.data[at + 1].of] ELSE wrong

\* Faulty: a package is seen only when something follows it.
FrameAtLate(b, bi, wrong) ==
  /\ Filled(b) - bi >= Word
  /\ Filled(b) - bi - Word > LengthAt(b, b.read + bi, wrong)

\* Whether a length and as many bytes as it says lie bi bytes behind the read index.
FrameAt(b, bi, wrong) ==
  /\ Filled(b) - bi >= Word
  /\ Filled(b) - bi - Word >= LengthAt(b, b.read + bi, wrong)

\* Where each frame found begins, in bytes behind the read index, and where
\* the loop ends.
Cuts(b, wrong) ==
  LET next[bi \in 0 .. Filled(b)] ==
        IF FrameAt(b, bi, wrong)
        THEN <<bi>> \o next[bi + Word + LengthAt(b, b.read + bi, wrong)]
        ELSE <<bi>>
  IN next[0]

Piece(b, bi, wrong) ==
  LET from == b.read + bi + Word IN SubSeq(b.data, from + 1, from + LengthAt(b, b.read + bi, wrong))

\* The packages found, and the indices split() leaves: read is where the loop
\* ended, counted from where it began.
Split(b, wrong) ==
  IF Filled(b) <= Word THEN [pieces |-> <<>>, rest |-> b]
  ELSE LET cuts == Cuts(b, wrong)
           bi   == cuts[Len(cuts)]
       IN [pieces |-> [i \in 1 .. Len(cuts) - 1 |-> Piece(b, cuts[i], wrong)],
           rest   |-> IF bi = b.write THEN [b EXCEPT !.read = 0, !.write = 0] ELSE [b EXCEPT !.read = bi]]
=============================================================================
