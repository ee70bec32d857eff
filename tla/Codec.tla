-------------------------------- MODULE Codec --------------------------------
(***************************************************************************)
(* An operation's way across the boundary and back.  The guest reads the   *)
(* fields of the request that its export takes, and answers.  valueOp,     *)
(* pyNew and addrOp look for an error and then for the value in the fields *)
(* of the answer (src/internal/instance.go:341-408), and a decodeXResult   *)
(* reads the envelope and its nodes (src/wire.go:362-527), DictItems and   *)
(* As what it has decoded.  The arguments of a Go function come without    *)
(* fields and without a request (src/bridge.go:134-168).                   *)
(*                                                                         *)
(* sent is what was encoded, as values; taken is what the guest has read   *)
(* of the request, got what the host has decoded of the answer.            *)
(***************************************************************************)
EXTENDS Requests

CONSTANTS
  Messages,  \* the operations with their answers, and the argument lists
  Others,    \* the fields there may be before and after the one looked for
  Short      \* TRUE: the end of the bytes may be missing

ASSUME ShortIsSwitch == Short \in BOOLEAN

-----------------------------------------------------------------------------
(* What a message can be: the numbers are in the range of their type, and   *)
(* of a text or a list the length fits before it.                           *)
IsEntry(e) ==
  \/ e.as = "value" /\ Encodable(e.x)
  \/ /\ e.as \in {"int64", "uint64", "big.Int", "guest"} /\ IsBigInt(e.x)
     /\ e.as = "int64" => IsInt64(e.x)
     /\ e.as = "uint64" => e.x \in Word

Counts(m, entries, texts) == Len(m.entries) = entries /\ Len(m.texts) = texts

(* In the answer, an envelope is in field 1 or no field. *)
NoEnvelope == {"checked", "word", "half"}

IsAnswer(m) ==
  LET answers == Called(m.op).answers
      outputs == IF answers = "eval" THEN 2 ELSE 0
  IN  \/ m.status = "error" /\ m.num = 0 /\ Counts(m, 0, 1)
      \/ /\ m.status = "raised" /\ m.num = 0 /\ answers \notin NoEnvelope
         /\ Counts(m, 1, 3 + outputs) /\ m.entries[1].as = "value"
         /\ m.entries[1].x = NoneValue \/ m.entries[1].x.kind = "object"
      \/ /\ m.status = "exit" /\ answers \notin NoEnvelope
         /\ m.num \in -(HalfSize \div 2) .. HalfSize \div 2 - 1
         /\ Counts(m, 0, outputs)
      \/ /\ m.status = "ok"
         /\ CASE answers = "word" -> m.num \in Word /\ Counts(m, 0, 0)
              [] answers = "half" -> m.num \in 0 .. HalfSize - 1 /\ Counts(m, 0, 0)
              [] answers = "i64"  -> /\ m.num \in Int /\ IsInt64(m.num)
                                     /\ Counts(m, 0, 0)
              [] answers = "bool"   -> m.num \in {0, 1} /\ Counts(m, 0, 0)
              [] answers = "exists" -> m.num \in {0, 1} /\ Counts(m, 1, 0)
              [] answers = "text"   -> m.num = 0 /\ Counts(m, 0, 1)
              [] answers = "node"   -> m.num = 0 /\ Counts(m, 1, 0)
              [] answers = "eval"   -> m.num = 0 /\ Counts(m, 1, 2)
              [] answers \in {"list", "items"} ->
                   /\ m.num = 0 /\ Len(m.entries) < HalfSize /\ Len(m.texts) = 0
                   /\ answers = "items" => Len(m.entries) % 2 = 0
              [] answers \in {"empty", "checked"} -> m.num = 0 /\ Counts(m, 0, 0)

(* The last of a Go function's arguments have names. *)
IsArgumentList(m) ==
  /\ m.status = "ok" /\ m.num = 0
  /\ Len(m.texts) <= Len(m.entries) /\ Len(m.entries) < HalfSize

VARIABLES
  sent,   \* the message
  taken,  \* the fields of the request, by number, as far as they are read
  whole,  \* all bytes of the answer are there
  resp,   \* the bytes that are read
  at,     \* the program point
  tag,    \* field and wire type of the tag that was read last
  r,      \* the reader: a pbReader, then a nodeReader
  left,   \* nodes that the loop has yet to read
  got     \* the outcome, as far as it is known

vars == <<sent, taken, whole, resp, at, tag, r, left, got>>

NoTag == [field |-> -1, wireType |-> 0]

(* What the host expects: the arguments of a Go function, or an answer.    *)
Want ==
  IF sent.op = "GoFunc" THEN "call" ELSE Decoder[sent.op]

-----------------------------------------------------------------------------
(* A value that is sent: a Go number through ValueOf, any other Value, or  *)
(* an int for which the guest chooses the long form itself.                *)
GuestNode(e) ==
  CASE e.as = "guest" -> BigIntNode(e.x)
    [] e.as = "value" -> NodeOf(e.x)
    [] OTHER          -> encodeValue(ValueOf(e.as, e.x))

(* The Value it is; an int is big when it does not fit in an int64.        *)
Meaning(e) == IF e.as = "value" THEN e.x ELSE IntValue(e.x, ~IsInt64(e.x))

Nodes(m) == [i \in DOMAIN m.entries |-> GuestNode(m.entries[i])]

Outcome(status, vals, texts, num) ==
  [status |-> status, vals |-> vals, texts |-> texts, num |-> num]

Blank == Outcome("pending", <<>>, <<>>, 0)

(* DictItems: the flat list as pairs of a key and a value. *)
Paired(vals) ==
  [i \in 1 .. Len(vals) \div 2 |-> <<vals[2 * i - 1], vals[2 * i]>>]

Expected(m) ==
  LET vals == [i \in DOMAIN m.entries |-> Meaning(m.entries[i])]
  IN  CASE m.status = "ok" /\ m.op = "DictItemsOp" ->
             Outcome("ok", Paired(vals), <<>>, 0)
        [] m.op = "drainReleases" -> Outcome("ok", <<>>, <<>>, 0)
        [] m.op \in DOMAIN As /\ m.status = "ok" /\ ~Accepts(m.op, vals[1]) ->
             Outcome("mistyped", <<>>, <<>>, 0)
        [] OTHER -> Outcome(m.status, vals, m.texts, m.num)

(* The guest's encoder (not under src/): the payload that the export's     *)
(* comment names.  The texts are type, message and traceback of what was   *)
(* raised, or the text, and last what eval wrote to stdout and stderr.     *)
Texts(texts) == FlattenSeq([i \in DOMAIN texts |-> LenBytes(texts[i])])

OkPayload(m) ==
  LET answers == Called(m.op).answers
  IN  CASE answers = "i64"    -> LittleEndian(m.num % WordSize, WordBytes)
        [] answers = "bool"   -> LittleEndian(m.num, 1)
        [] answers = "exists" -> LittleEndian(m.num, 1) \o FlattenSeq(Nodes(m))
        [] answers \in {"list", "items"} -> encodeList(Nodes(m))
        [] OTHER              -> FlattenSeq(Nodes(m)) \o Texts(m.texts)

GuestEnvelope(m) ==
  CASE m.status = "ok"     -> <<0>> \o OkPayload(m)
    [] m.status = "raised" -> <<1>> \o Texts(SubSeq(m.texts, 1, 3))
                                \o FlattenSeq(Nodes(m))
                                \o Texts(SubSeq(m.texts, 4, Len(m.texts)))
    [] m.status = "exit"   -> <<2>> \o LittleEndian(m.num % HalfSize, HalfBytes)
                                \o Texts(m.texts)

GuestField(m) ==
  LET answers == Called(m.op).answers
  IN  IF m.status = "error" THEN AppendBytes(15, m.texts[1]) ELSE
      CASE answers = "checked"          -> <<>>
        [] answers \in {"word", "half"} -> AppendUint64(1, m.num)
        [] OTHER                        -> AppendBytes(1, GuestEnvelope(m))

(* encodeCallArgs: the last entries are the keyword arguments. *)
CallArguments(m) ==
  LET n == Len(m.entries) - Len(m.texts)
  IN  encodeList(SubSeq(Nodes(m), 1, n))
        \o encodeKeywords(m.texts, SubSeq(Nodes(m), n + 1, Len(m.entries)))

(* What is sent, and what else there may be in the fields around it.       *)
IsSent(m) ==
  /\ m.entries \in Seq(Range(m.entries)) /\ \A e \in Range(m.entries) : IsEntry(e)
  /\ m.texts \in Seq(Range(m.texts))
  /\ \A t \in Range(m.texts) : IsText(t, HalfBytes)
  /\ IF m.op = "GoFunc"
     THEN IsArgumentList(m)
     ELSE /\ m.op \in DOMAIN Entry /\ IsAnswer(m) /\ AreArguments(m.op, m.args)
          /\ m.status # "error" /\ Called(m.op).answers \notin NoEnvelope =>
               Len(GuestEnvelope(m)) < WordSize \div 2

(* A field as protobuf encoders write it, or a tag of a wire type that     *)
(* skip does not know, with nothing after it.                              *)
IsField(s, f) ==
  \/ \E v \in Word : s = AppendUint64(f, v)
  \/ \E w \in {3, 4, 6, 7} : s = AppendTag(f, w)
  \/ \E n \in 0 .. Len(s) :
       LET data == SubSeq(s, n + 1, Len(s))
       IN  \/ s = AppendBytes(f, data) /\ Len(data) < WordSize \div 2
           \/ s = AppendFixed(f, data) /\ Len(data) \in {WordBytes, HalfBytes}

ASSUME MessagesAssumption == \A m \in Messages : IsSent(m)

ASSUME OthersAssumption ==
  \A s \in Others :
    s \in Seq(Byte) /\ (s = <<>> \/ \E f \in 2 .. 14 : IsField(s, f))

Begins(point, bytes, reader) ==
  /\ at = point /\ resp = bytes /\ r = reader

Init ==
  /\ sent \in Messages
  /\ tag = NoTag /\ left = 0 /\ got = Blank
  /\ IF sent.op = "GoFunc"
     THEN LET all == CallArguments(sent)
          IN  /\ taken = <<>>
              /\ \E n \in IF Short THEN 0 .. Len(all) ELSE {Len(all)} :
                   /\ Begins("payload", SubSeq(all, 1, n),
                             NodeReader(SubSeq(all, 1, n)))
                   /\ whole = (n = Len(all))
     ELSE LET request == Request(sent.op, sent.args)
          IN  /\ taken = NotThere(sent.op)
              /\ Begins("request", request, Reader(request))
              /\ whole = TRUE
-----------------------------------------------------------------------------
Done(outcome, reader) ==
  /\ at' = "done" /\ got' = outcome /\ r' = reader
  /\ tag' = NoTag
  /\ UNCHANGED <<sent, taken, whole, resp, left>>

DoneMalformed(reader) == Done([Blank EXCEPT !.status = "malformed"], reader)

GoOn(point, reader, n) ==
  /\ at' = point /\ r' = reader /\ left' = n /\ tag' = NoTag
  /\ UNCHANGED <<sent, taken, whole, resp>>

(***************************************************************************)
(* The fields: the guest takes those of the request; pbExtractError, then  *)
(* readScalarAtField for field 1 read those of the answer.                 *)
(***************************************************************************)
Scanning == {"request", "error", "field"}

Target == IF at = "error" THEN 15 ELSE 1

(* next, unless the data is at its end *)
ReadTag ==
  /\ at \in Scanning /\ tag = NoTag /\ HasData(r)
  /\ LET next == NextTag(r)
     IN  /\ tag' = [field |-> next.field, wireType |-> next.wireType]
         /\ r' = next.r
  /\ UNCHANGED <<sent, taken, whole, resp, at, left, got>>

TakeParameter ==
  /\ at = "request" /\ tag.field \in DOMAIN taken
  /\ LET value == Parameter(Called(sent.op).takes[tag.field], r)
     IN  taken' = [taken EXCEPT ![tag.field] = value.v] /\ r' = value.r
  /\ tag' = NoTag
  /\ UNCHANGED <<sent, whole, resp, at, left, got>>

(* The host may read less of the answer than there is. *)
GuestAnswers ==
  /\ at = "request" /\ tag = NoTag /\ ~HasData(r)
  /\ \E pre, post \in Others :
       LET all == pre \o GuestField(sent) \o post
       IN  \E n \in IF Short THEN 0 .. Len(all) ELSE {Len(all)} :
             /\ resp' = SubSeq(all, 1, n)
             /\ whole' = (n = Len(all))
  /\ r' = Reader(resp')
  /\ IF Want = "nothing"
     THEN at' = "done" /\ got' = Outcome("ok", <<>>, <<>>, 0)
     ELSE at' = "error" /\ UNCHANGED got
  /\ UNCHANGED <<sent, taken, tag, left>>

SkipField ==
  /\ at \in Scanning /\ tag # NoTag
  /\ tag.field \notin IF at = "request" THEN DOMAIN taken ELSE {Target}
  /\ GoOn(at, Skip(r, tag.wireType), 0)
  /\ UNCHANGED got

ErrorFound ==
  /\ at = "error" /\ tag.field = Target
  /\ LET text == ReadBytes(r)
     IN  Done(Outcome("error", <<>>, <<text.v>>, 0), text.r)

NoError ==
  /\ at = "error" /\ tag = NoTag /\ ~HasData(r)
  /\ IF Want = "checked"
     THEN Done(Outcome("ok", <<>>, <<>>, 0), r)
     ELSE GoOn("field", Reader(resp), 0) /\ UNCHANGED got

IsNumber == Want \in {"word", "half"}

ReadNumber ==
  CASE Want = "word" -> ReadVarint(r)
    [] Want = "half" -> [ReadVarint(r) EXCEPT !.v = @ % HalfSize]

(* A number is given back as it is, an operation's answer is decoded.      *)
ValueFound ==
  /\ at = "field" /\ tag.field = Target
  /\ IF IsNumber
     THEN Done(Outcome("ok", <<>>, <<>>, ReadNumber.v), ReadNumber.r)
     ELSE GoOn("envelope", NodeReader(ReadBytes(r).v), 0) /\ UNCHANGED got

(* "Missing field returns the zero value." *)
NoValue ==
  /\ at = "field" /\ tag = NoTag /\ ~HasData(r)
  /\ IF IsNumber
     THEN Done(Outcome("ok", <<>>, <<>>, 0), r)
     ELSE GoOn("envelope", NodeReader(<<>>), 0) /\ UNCHANGED got

(***************************************************************************)
(* The envelope.                                                           *)
(***************************************************************************)
Envelope ==
  /\ at = "envelope"
  /\ LET status == Number(r, 0, 1)
     IN  CASE status = 0 -> GoOn("payload", Past(r, 1), 0) /\ UNCHANGED got
           [] status = 1 -> GoOn("raised", Past(r, 1), 3) /\ UNCHANGED got
           [] status = 2 -> GoOn("exit", Past(r, 1), 0) /\ UNCHANGED got
           [] OTHER      -> DoneMalformed(Past(r, 1))

(* After a node, what was raised, or the exit code: eval's output follows. *)
AfterStatus(outcome, reader) ==
  IF Want = "eval" THEN GoOn("output", reader, 2) /\ got' = outcome
                   ELSE Done(outcome, reader)

(* Type, message and traceback of what was raised, and eval's two outputs. *)
ReadText ==
  /\ at \in {"raised", "output"} /\ left > 0
  /\ GoOn(at, PastText(r, 0, HalfBytes), left - 1)
  /\ got' = [got EXCEPT !.texts = Append(@, Text(r, 0, HalfBytes))]

Raised ==
  /\ at = "raised" /\ left = 0
  /\ LET node  == DecodeNode(r)
         value == IF node.v.kind = "object" THEN node.v ELSE NoneValue
     IN  IF r.fail \/ ~node.ok
         THEN DoneMalformed(node.r)
         ELSE AfterStatus([got EXCEPT !.status = "raised", !.vals = <<value>>],
                          node.r)

(* The code is not asked whether it was there. *)
Exit ==
  /\ at = "exit"
  /\ AfterStatus(Outcome("exit", <<>>, <<>>,
                         Signed(Number(r, 0, HalfBytes), HalfSize)),
                 Past(r, HalfBytes))

OutputRead ==
  /\ at = "output" /\ left = 0
  /\ IF r.fail THEN DoneMalformed(r) ELSE Done(got, r)

(***************************************************************************)
(* The payload of an ok envelope, and the arguments of a Go function.      *)
(***************************************************************************)
Plain ==
  /\ at = "payload" /\ Want \in {"i64", "bool", "text"}
  /\ LET word == Signed(Number(r, 0, WordBytes), WordSize)
         flag == IF Number(r, 0, 1) # 0 THEN 1 ELSE 0
         rest == CASE Want = "i64"  -> Past(r, WordBytes)
                   [] Want = "bool" -> Past(r, 1)
                   [] Want = "text" -> PastText(r, 0, HalfBytes)
     IN  IF rest.fail
         THEN DoneMalformed(rest)
         ELSE Done(CASE Want = "i64"  -> Outcome("ok", <<>>, <<>>, word)
                     [] Want = "bool" -> Outcome("ok", <<>>, <<>>, flag)
                     [] Want = "text" ->
                          Outcome("ok", <<>>, <<Text(r, 0, HalfBytes)>>, 0),
                   rest)

Empty ==
  /\ at = "payload" /\ Want = "empty"
  /\ Done(Outcome("ok", <<>>, <<>>, 0), r)

OneNode ==
  /\ at = "payload" /\ Want \in {"node", "eval"}
  /\ GoOn("nodes", r, 1)
  /\ got' = [got EXCEPT !.status = "ok"]

ExistsNode ==
  /\ at = "payload" /\ Want = "exists"
  /\ GoOn("nodes", Past(r, 1), 1)
  /\ got' = Outcome("ok", <<>>, <<>>, IF Number(r, 0, 1) # 0 THEN 1 ELSE 0)

CountNodes ==
  /\ at = "payload" /\ Want \in {"list", "items", "call"}
  /\ IF Need(r, HalfBytes)
     THEN GoOn("nodes", Past(r, HalfBytes), Number(r, 0, HalfBytes))
          /\ got' = [got EXCEPT !.status = "ok"]
     ELSE DoneMalformed(Past(r, HalfBytes))

ReadNode ==
  /\ at = "nodes" /\ left > 0
  /\ LET node == DecodeNode(r)
     IN  IF node.ok
         THEN GoOn("nodes", node.r, left - 1)
              /\ got' = [got EXCEPT !.vals = Append(@, node.v)]
         ELSE DoneMalformed(node.r)

NodesRead ==
  /\ at = "nodes" /\ left = 0
  /\ CASE Want = "call"  -> GoOn("keywords", r, 0) /\ UNCHANGED got
       [] Want = "items" -> IF Len(got.vals) % 2 # 0
                            THEN DoneMalformed(r)
                            ELSE Done([got EXCEPT !.vals = Paired(@)], r)
       [] Want = "node" /\ ~Accepts(sent.op, got.vals[1]) ->
                            Done(Outcome("mistyped", <<>>, <<>>, 0), r)
       [] OTHER          -> AfterStatus(got, r)

(* A count that is not there is no keywords. *)
CountKeywords ==
  /\ at = "keywords"
  /\ IF Number(r, 0, HalfBytes) > 0
     THEN GoOn("pairs", Past(r, HalfBytes), Number(r, 0, HalfBytes))
          /\ UNCHANGED got
     ELSE Done(got, Past(r, HalfBytes))

ReadPair ==
  /\ at = "pairs" /\ left > 0
  /\ LET node == DecodeNode(PastText(r, 0, HalfBytes))
     IN  IF node.ok
         THEN GoOn("pairs", node.r, left - 1)
              /\ got' = [got EXCEPT !.vals = Append(@, node.v),
                                    !.texts = Append(@, Text(r, 0, HalfBytes))]
         ELSE DoneMalformed(node.r)

PairsRead ==
  /\ at = "pairs" /\ left = 0
  /\ Done(got, r)

Next ==
  \/ ReadTag \/ TakeParameter \/ GuestAnswers \/ SkipField
  \/ ErrorFound \/ NoError \/ ValueFound \/ NoValue
  \/ Envelope \/ ReadText \/ Raised \/ Exit \/ OutputRead
  \/ Plain \/ Empty \/ OneNode \/ ExistsNode \/ CountNodes
  \/ ReadNode \/ NodesRead \/ CountKeywords \/ ReadPair \/ PairsRead

(* One goroutine decodes, and nothing makes it wait. *)
Spec == Init /\ [][Next]_vars /\ WF_vars(Next)
-----------------------------------------------------------------------------
(* The reader of an encoder's message stays within the bytes, whatever is  *)
(* missing of them and whatever fields are around the answer's             *)
(* (src/internal/python.go:210-326, src/wire.go:199-269).                  *)
ReaderInBounds ==
  /\ at \in {"request", "error", "field", "envelope", "raised", "exit",
             "output", "payload", "nodes", "keywords", "pairs", "done"}
  /\ r.pos \in 0 .. Len(r.data)
  /\ left \in Nat
  /\ got.status \in {"pending", "ok", "raised", "exit", "error", "malformed",
                     "mistyped"}

(* The export that an operation enters takes from the request what the     *)
(* operation was given: each argument at its place, every byte of it, and  *)
(* every number unchanged (src/internal/instance.go:327-608 against the    *)
(* wrappers of src/internal/python.go:859-1344).                           *)
RequestsUnderstood ==
  sent.op # "GoFunc" /\ at # "request" => Understood(sent.op, taken) = sent.args

(* What is encoded decodes to itself: every kind of value, every number at *)
(* the ends of its range, between and behind any other fields; an int is   *)
(* big exactly when it does not fit in an int64; and what the caller asked *)
(* for as a list, a dict or a module is one, or an error.                  *)
WholeExact == whole /\ at = "done" => got = Expected(sent)

(* "Any overrun flips fail" (src/wire.go:199): what a nodeReader has       *)
(* decoded of bytes that are cut short without the flag is what was sent.  *)
(* The decoders that look at the flag answer what was sent or an error.    *)
Looked ==
  \/ Want = "eval"
  \/ Want \in {"i64", "bool", "text"} /\ got.status = "ok"

CutShortTold ==
  /\ at = "done" /\ got.status \notin {"error", "malformed"}
  /\ Want \notin {"word", "half", "checked", "nothing"}
  => \/ got = Expected(sent)
     \/ r.fail /\ ~Looked

(* The scans for a field and the decoders end, wherever the message is cut *)
(* and whatever fields are around the answer's, also one of a wire type    *)
(* that skip does not know (src/internal/python.go:311-338,                *)
(* src/wire.go:199-213).  The fields have the lengths of what they hold: a *)
(* length that is negative as an int, which no encoder writes, takes skip  *)
(* back to where it was.                                                   *)
DecodingEnds == <>(at = "done")
=============================================================================
