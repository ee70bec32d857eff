------------------------------ MODULE Protobuf ------------------------------
(***************************************************************************)
(* The envelope of every request and response: protobuf fields, as the     *)
(* generated encoder and pbReader write and read them                      *)
(* (src/internal/python.go:40-326).                                        *)
(*                                                                         *)
(* The sizes are parameters.  In the code a byte has 256 values, a word    *)
(* (uint64) 8 bytes and a half word (uint32, int32) 4.                     *)
(***************************************************************************)
EXTENDS Integers, SequencesExt, FiniteSetsExt

CONSTANTS
  ByteSize,   \* values of a byte, a power of 2
  WordBytes,  \* bytes of a uint64
  HalfBytes   \* bytes of a uint32

(* The number of values of so many bytes. *)
Power[n \in Nat] == IF n = 0 THEN 1 ELSE ByteSize * Power[n - 1]

ASSUME SizesAssumption ==
  /\ ByteSize \in Nat /\ ByteSize > 9   \* every tag of the wire is a byte
  /\ WordBytes \in Nat /\ HalfBytes \in 1 .. WordBytes
  /\ Power[HalfBytes] > 15             \* a half word holds every field number
  /\ Power[WordBytes] > 127            \* and a word every tag of a field
  /\ Power[HalfBytes] <= Power[WordBytes] \div 2  \* an int, every half word

WordSize == Power[WordBytes]
HalfSize == Power[HalfBytes]
Word == 0 .. WordSize - 1

(* The two's complement number whose bits, as an unsigned number, are u. *)
Signed(u, size) == IF u < size \div 2 THEN u ELSE u - size

(* The first bit of a byte says that the varint goes on. *)
GoesOn == ByteSize \div 2

-----------------------------------------------------------------------------
AppendVarint[v \in Word] ==
  IF v < GoesOn THEN <<v>>
                ELSE <<GoesOn + (v % GoesOn)>> \o AppendVarint[v \div GoesOn]

AppendTag(field, wireType) == AppendVarint[field * 8 + wireType]

AppendUint64(field, v) == AppendTag(field, 0) \o AppendVarint[v]

(* uint64(v) of an int32 extends its sign. *)
AppendInt32(field, v) == AppendTag(field, 0) \o AppendVarint[v % WordSize]

AppendBytes(field, data) ==
  AppendTag(field, 2) \o AppendVarint[Len(data) % WordSize] \o data

(* A field of a fixed width: a double or a float. *)
AppendFixed(field, data) ==
  AppendTag(field, IF Len(data) = WordBytes THEN 1 ELSE 5) \o data

-----------------------------------------------------------------------------
(* pbReader: the data and how much of it has been read.  A reading         *)
(* operator returns what it has read, v, and the reader after that, r.     *)
Reader(data) == [data |-> data, pos |-> 0]

(* Mutant: the end of the data counts as data. *)
HasDataAtEnd(r) == r.pos <= Len(r.data)

HasData(r) == r.pos < Len(r.data)

(* Up to the first byte that does not say that the varint goes on, or to   *)
(* the end of the data.  Bits beyond a word are shifted out.               *)
ReadVarint(r) ==
  LET Indices == r.pos + 1 .. Len(r.data) + 1
      Ends(i) == i > Len(r.data) \/ r.data[i] < GoesOn
      bits[i \in Indices] ==
        IF i > Len(r.data) THEN 0
        ELSE (r.data[i] % GoesOn)
               + (IF Ends(i) THEN 0 ELSE GoesOn * bits[i + 1])
      end[i \in Indices] == IF Ends(i) THEN i ELSE end[i + 1]
  IN  [v |-> bits[r.pos + 1] % WordSize,
       r |-> [r EXCEPT !.pos = Min({end[@ + 1], Len(r.data)})]]

NextTag(r) ==
  LET tag == ReadVarint(r)
  IN  [field |-> (tag.v \div 8) % HalfSize, wireType |-> tag.v % 8, r |-> tag.r]

ReadInt32(r) ==
  LET u == ReadVarint(r) IN [u EXCEPT !.v = Signed(@ % HalfSize, HalfSize)]

(* readBytes and readString: a length beyond the end is cut down to it. *)
ReadBytes(r) ==
  LET n   == ReadVarint(r)
      end == Min({n.r.pos + Signed(n.v, WordSize), Len(r.data)})
  IN  [v |-> SubSeq(r.data, n.r.pos + 1, end), r |-> [r EXCEPT !.pos = end]]

(* Mutant: a field is skipped without a look at the end. *)
SkipPastEnd(r, wireType) ==
  CASE wireType = 0 -> ReadVarint(r).r
    [] wireType = 1 -> [r EXCEPT !.pos = @ + WordBytes]
    [] wireType = 2 -> LET n == ReadVarint(r)
                       IN  [n.r EXCEPT !.pos = @ + Signed(n.v, WordSize)]
    [] wireType = 5 -> [r EXCEPT !.pos = @ + HalfBytes]
    [] OTHER        -> r

Skip(r, wireType) ==
  LET n    == ReadVarint(r)
      past == CASE wireType = 0 -> n.r.pos
                [] wireType = 1 -> r.pos + WordBytes
                [] wireType = 2 -> n.r.pos + Signed(n.v, WordSize)
                [] wireType = 5 -> r.pos + HalfBytes
                [] OTHER        -> r.pos
  IN  [r EXCEPT !.pos = Min({past, Len(r.data)})]
=============================================================================
