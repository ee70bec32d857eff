-------------------------------- MODULE Wire --------------------------------
(***************************************************************************)
(* The typed value protocol: nodes for Python values (src/wire.go) and the *)
(* Go values they are made from (src/value.go).                            *)
(***************************************************************************)
EXTENDS Protobuf

CONSTANT ShortBytes  \* bytes of a uint16

ASSUME ShortAssumption == ShortBytes \in 1 .. HalfBytes

(* Node tags (src/wire.go:18-29).                                          *)
wireNone    == 0
wireBool    == 1
wireInt     == 2
wireBigInt  == 3
wireFloat   == 4
wireComplex == 5
wireStr     == 6
wireBytes   == 7
wireObject  == 8

(***************************************************************************)
(* Values.  An int64 is a small int and everything beyond it a big one; a  *)
(* float is the word that holds its bits.  A handle is what its node says. *)
(***************************************************************************)
IsInt64(n) == -(WordSize \div 2) <= n /\ n < WordSize \div 2

NoneValue         == [kind |-> "none"]
BoolValue(b)      == [kind |-> "bool", b |-> b]
IntValue(n, big)  == [kind |-> "int", n |-> n, big |-> big]
FloatValue(f)     == [kind |-> "float", f |-> f]
ComplexValue(c)   == [kind |-> "complex", c |-> c]
StrValue(s)       == [kind |-> "str", s |-> s]
BytesValue(s)     == [kind |-> "bytes", s |-> s]
ObjectValue(id, kind, callable, typeName) ==
  [kind |-> "object", id |-> id, of |-> kind, callable |-> callable,
   typeName |-> typeName]

(* Mutant: an integer beyond int64 is taken for one. *)
Int64FromUint64(u) == IntValue(Signed(u, WordSize), FALSE)

intFromUint64(u) ==
  IF u <= WordSize \div 2 - 1 THEN IntValue(u, FALSE) ELSE IntValue(u, TRUE)

intFromBig(n) == IF IsInt64(n) THEN IntValue(n, FALSE) ELSE IntValue(n, TRUE)

(* ValueOf for the Go types whose conversion does something. *)
ValueOf(type, x) ==
  CASE type = "int64"   -> IntValue(x, FALSE)
    [] type = "uint64"  -> intFromUint64(x)
    [] type = "big.Int" -> intFromBig(x)

-----------------------------------------------------------------------------
(* Little-endian numbers of a fixed width. *)
LittleEndian(v, width) ==
  [i \in 1 .. width |-> (v \div Power[i - 1]) % ByteSize]

FromLittleEndian(s) ==
  FoldRight(LAMBDA digit, v : digit + ByteSize * v, s, 0)

Prefixed(s, width) == LittleEndian(Len(s), width) \o s

LenBytes(s) == Prefixed(s, HalfBytes)

Flag(b) == IF b THEN <<1>> ELSE <<0>>

(* The magnitude without leading zeros. *)
Magnitude[m \in Nat] ==
  IF m = 0 THEN <<>> ELSE <<m % ByteSize>> \o Magnitude[m \div ByteSize]

Absolute(n) == IF n < 0 THEN -n ELSE n

(* What a node can hold: numbers in their range, and bytes whose number is *)
(* one of the width that it is written with.                               *)
Byte == 0 .. ByteSize - 1

IsText(s, width) == s \in Seq(Byte) /\ Len(s) < Power[width]

IsBigInt(n) == n \in Int /\ Len(Magnitude[Absolute(n)]) < HalfSize

Encodable(v) ==
  \/ v = NoneValue
  \/ v.kind = "bool" /\ v = BoolValue(v.b) /\ v.b \in BOOLEAN
  \/ v.kind = "int" /\ v = IntValue(v.n, ~IsInt64(v.n)) /\ IsBigInt(v.n)
  \/ v.kind = "float" /\ v = FloatValue(v.f) /\ v.f \in Word
  \/ v.kind = "complex" /\ v = ComplexValue(v.c) /\ v.c \in Word \X Word
  \/ v.kind = "str" /\ v = StrValue(v.s) /\ IsText(v.s, HalfBytes)
  \/ v.kind = "bytes" /\ v = BytesValue(v.s) /\ IsText(v.s, HalfBytes)
  \/ /\ v.kind = "object" /\ v = ObjectValue(v.id, v.of, v.callable, v.typeName)
     /\ v.id \in Word /\ v.of \in Byte /\ v.callable \in BOOLEAN
     /\ IsText(v.typeName, ShortBytes)

BigIntNode(n) ==
  <<wireBigInt>> \o Flag(n < 0) \o LenBytes(Magnitude[Absolute(n)])

(* An object node's type name travels from the guest to the host only. *)
ObjectNode(v, typeName) ==
  <<wireObject>> \o LittleEndian(v.id, WordBytes) \o <<v.of>>
    \o Flag(v.callable) \o Prefixed(typeName, ShortBytes)

encodeValue(v) ==
  CASE v.kind = "none"    -> <<wireNone>>
    [] v.kind = "bool"    -> <<wireBool>> \o Flag(v.b)
    [] v.kind = "int"     ->
         IF v.big THEN BigIntNode(v.n)
                  ELSE <<wireInt>> \o LittleEndian(v.n % WordSize, WordBytes)
    [] v.kind = "float"   -> <<wireFloat>> \o LittleEndian(v.f, WordBytes)
    [] v.kind = "complex" -> <<wireComplex>> \o LittleEndian(v.c[1], WordBytes)
                                             \o LittleEndian(v.c[2], WordBytes)
    [] v.kind = "str"     -> <<wireStr>> \o LenBytes(v.s)
    [] v.kind = "bytes"   -> <<wireBytes>> \o LenBytes(v.s)
    [] v.kind = "object"  -> ObjectNode(v, <<>>)

(* A node of the guest: of an object it tells the type name, too. *)
NodeOf(v) ==
  IF v.kind = "object" THEN ObjectNode(v, v.typeName) ELSE encodeValue(v)

(* encodeList; encodeCallArgs' keyword list has a name before every node. *)
encodeList(nodes) == LittleEndian(Len(nodes), HalfBytes) \o FlattenSeq(nodes)

(* encodeDictItems: keys and values in turn, in one list. *)
encodeDictItems(items) ==
  encodeList(FlattenSeq(
    [i \in DOMAIN items |->
       <<encodeValue(items[i][1]), encodeValue(items[i][2])>>]))

encodeKeywords(names, nodes) ==
  encodeList([i \in 1 .. Len(names) |-> LenBytes(names[i]) \o nodes[i]])

-----------------------------------------------------------------------------
(* nodeReader: a read beyond the end yields zero and sets fail for good.   *)
NodeReader(b) == [data |-> b, pos |-> 0, fail |-> FALSE]

Need(r, n) == ~r.fail /\ Len(r.data) - r.pos >= n

(* Mutant: a read beyond the end yields zero, and nothing tells. *)
PastSilently(r, n) == IF Need(r, n) THEN [r EXCEPT !.pos = @ + n] ELSE r

(* One read or several in a row: n bytes are consumed, or fail is set. *)
Past(r, n) == IF Need(r, n) THEN [r EXCEPT !.pos = @ + n]
                            ELSE [r EXCEPT !.fail = TRUE]

(* bytes(n), after off bytes that are read before *)
Chunk(r, off, n) ==
  IF Need(r, off + n) THEN SubSeq(r.data, r.pos + off + 1, r.pos + off + n)
                      ELSE <<>>

(* u8, u16, u32, u64, after off bytes: zero if there is nothing to read *)
Number(r, off, width) == FromLittleEndian(Chunk(r, off, width))

(* lenBytes, after off bytes; the length of a type name is a u16. *)
Text(r, off, width) == Chunk(r, off + width, Number(r, off, width))

PastText(r, off, width) == Past(r, off + width + Number(r, off, width))

(* A decoder's result; the error is decided by fail or by the tag. *)
Node(v, r) == [ok |-> TRUE, v |-> v, r |-> r]

Malformed(r) == [ok |-> FALSE, v |-> NoneValue, r |-> r]

Checked(v, r) == IF r.fail THEN Malformed(r) ELSE Node(v, r)

(* decodeNode.  Numbers are not asked whether they were there. *)
DecodeNode(r) ==
  LET tag   == Number(r, 0, 1)
      byte  == Number(r, 1, 1)
      word  == Number(r, 1, WordBytes)
      text  == Text(r, 1, HalfBytes)
      pastText  == PastText(r, 1, HalfBytes)
      magnitude == FromLittleEndian(Text(r, 2, HalfBytes))
      object == ObjectValue(word, Number(r, 1 + WordBytes, 1),
                            Number(r, 2 + WordBytes, 1) % 2 = 1,
                            Text(r, 3 + WordBytes, ShortBytes))
  IN  IF ~Need(r, 1) THEN Malformed(Past(r, 1)) ELSE
      CASE tag = wireNone     -> Node(NoneValue, Past(r, 1))
        [] tag = wireBool     -> Node(BoolValue(byte # 0), Past(r, 2))
        [] tag = wireInt      -> Node(IntValue(Signed(word, WordSize), FALSE),
                                      Past(r, 1 + WordBytes))
        [] tag = wireBigInt   ->
             Checked(intFromBig(IF byte # 0 THEN -magnitude ELSE magnitude),
                     PastText(r, 2, HalfBytes))
        [] tag = wireFloat    -> Node(FloatValue(word), Past(r, 1 + WordBytes))
        [] tag = wireComplex  ->
             Node(ComplexValue(<<word, Number(r, 1 + WordBytes, WordBytes)>>),
                  Past(r, 1 + 2 * WordBytes))
        [] tag = wireStr      -> Checked(StrValue(text), pastText)
        [] tag = wireBytes    -> Checked(BytesValue(text), pastText)
        [] tag = wireObject   ->
             Checked(object, PastText(r, 3 + WordBytes, ShortBytes))
        [] OTHER              -> Malformed(Past(r, 1))
=============================================================================
