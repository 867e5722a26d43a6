-------------------------------- MODULE Archive --------------------------------
(***************************************************************************)
(* marshaler of include/ff/net/common/archive.h and archive_data.h, and    *)
(* the archive() of an ntpackage: the fields of a package go one after the *)
(* other through three passes, which count, write and read.  A buffer is a *)
(* sequence of bytes; a byte says which one it is of which value.          *)
(* The helper of a user type is that of doc_example/3.4/common.h.          *)
(***************************************************************************)
EXTENDS Integers, Sequences, SequencesExt

CONSTANTS
  Packages,    \* the packages: sequences of fields [kind, parts]
  Parts,       \* arithmetic values
  SizeOfSize,  \* sizeof(size_t)
  SizeOfPart,  \* the size of an arithmetic value, by kind of the field
  SizeOfData   \* sizeof(d) of the class a helper is for, in memory

VARIABLES
  package,  \* the package sent
  pass,     \* "length", "write", "read", "done"
  field,    \* the field the pass has come to
  base,     \* m_iBase
  length,   \* what the first pass found, and the size of the buffer
  buffer,   \* the bytes written
  got       \* the fields read

vars == <<package, pass, field, base, length, buffer, got>>

Kinds == {"number", "string", "vector", "helper"}
Field == [kind : Kinds, parts : Seq(Parts)]

Init ==
  /\ package \in Packages
  /\ pass = "length"
  /\ field = 1
  /\ base = 0
  /\ length = 0
  /\ buffer = <<>>
  /\ got = <<>>

Now == package[field]
Count(f) == Len(f.parts)

\* The kinds: one arithmetic value or an array of them ("number"), a string, a
\* vector, whose count goes before them, and a user type with a helper.
HasCount(f) == f.kind \in {"string", "vector"}

\* Faulty: the count is not counted.
LengthOfParts(f) == Count(f) * SizeOfPart[f.kind]

LengthOf(f) ==
  Count(f) * SizeOfPart[f.kind] + (IF HasCount(f) THEN SizeOfSize ELSE 0)

Bytes(x, n) == [i \in 1 .. n |-> <<x, i, n>>]

\* What the serializer copies of a field: its count, then its parts.
BytesOf(f) ==
  (IF HasCount(f) THEN Bytes(Count(f), SizeOfSize) ELSE <<>>)
    \o FlattenSeq([i \in 1 .. Count(f) |-> Bytes(f.parts[i], SizeOfPart[f.kind])])

StepTo(newBase) ==
  /\ field' = field + 1
  /\ base' = newBase

CountField ==
  /\ pass = "length"
  /\ field <= Len(package)
  /\ StepTo(base + LengthOf(Now))
  /\ UNCHANGED <<package, pass, length, buffer, got>>

WriteField ==
  /\ pass = "write"
  /\ field <= Len(package)
  /\ buffer' = SubSeq(buffer, 1, base) \o BytesOf(Now)
  /\ StepTo(base + Len(BytesOf(Now)))
  /\ UNCHANGED <<package, pass, length, got>>

Garbage == -1

\* The value that n bytes make, if they are those of one value.
ReadAt(at, n) ==
  IF at + n <= Len(buffer)
     /\ \A i \in 1 .. n : buffer[at + i] = <<buffer[at + 1][1], i, n>>
  THEN buffer[at + 1][1] ELSE Garbage

\* The deserializer takes the count from the bytes; an array's is in its type.
CountRead == IF HasCount(Now) THEN ReadAt(base, SizeOfSize) ELSE Count(Now)

\* A helper returns the size of the class and not what it has read.
ReadField ==
  /\ pass = "read"
  /\ field <= Len(package)
  /\ LET size  == SizeOfPart[Now.kind]
         count == CountRead
         start == IF HasCount(Now) THEN base + SizeOfSize ELSE base
     IN  /\ count # Garbage
         /\ got' = Append(got, [kind |-> Now.kind,
                      parts |-> [i \in 1 .. count |-> ReadAt(start + (i - 1) * size, size)]])
         /\ StepTo(IF Now.kind = "helper" THEN base + SizeOfData
                                          ELSE start + count * size)
  /\ UNCHANGED <<package, pass, length, buffer>>

\* Each pass is a marshaler of its own; the buffer is made as long as the first
\* one found.
NextPass ==
  /\ pass # "done"
  /\ field = Len(package) + 1
  /\ pass' = CASE pass = "length" -> "write" [] pass = "write" -> "read" [] pass = "read" -> "done"
  /\ length' = IF pass = "length" THEN base ELSE length
  /\ field' = 1
  /\ base' = 0
  /\ UNCHANGED <<package, buffer, got>>

Next == CountField \/ WriteField \/ ReadField \/ NextPass

Spec == Init /\ [][Next]_vars /\ WF_vars(Next)

-----------------------------------------------------------------------------
HelperIsLast == \A i \in DOMAIN package : package[i].kind = "helper" => i = Len(package)

\* A package is written into exactly the bytes that were counted for it; unless a
\* field with a helper is followed by another, the count of a field is there where it
\* is read, and what is read at the end is what was sent.
PassesAgree ==
  /\ (pass = "write" /\ field = Len(package) + 1) => base = length /\ Len(buffer) = length
  /\ (pass = "read" /\ field <= Len(package) /\ HelperIsLast) => CountRead = Count(Now)
  /\ (pass = "done" /\ HelperIsLast) => got = package

\* The three passes agree: a package is written into exactly the bytes that were
\* counted for it, it is read to its last field, and it is the package that was
\* sent, as long as a field with a helper is the last one.
PackageArrives ==
  /\ [](pass # "length" => PassesAgree)
  /\ HelperIsLast ~> (pass = "done" /\ got = package)
=============================================================================
