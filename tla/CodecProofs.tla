---------------------------- MODULE CodecProofs -----------------------------
(***************************************************************************)
(* Theorems about module Codec, for every message, every bound on the      *)
(* sizes and every place where the bytes are cut: the guest takes from a   *)
(* request what was sent (src/internal/python.go:33-1178), an answer that  *)
(* is whole comes back as it was given, one that is cut short is told      *)
(* (src/bridge.go:25-130, src/wire.go:273-360), and no reader leaves its   *)
(* bytes. CodecInvariant is the argument: one fact for each phase, about   *)
(* what has been read and what lies ahead. The lemmas before it say how    *)
(* bytes are laid out; then there is one for each action of the module.    *)
(***************************************************************************)
EXTENDS Codec, WireProofs

-----------------------------------------------------------------------------
(***************************************************************************)
(* What is known while an answer is decoded. Want is what the guest laid   *)
(* into the bytes; the reader is at one of the parts of it, has got what   *)
(* lies before, and finds the rest ahead, or the bytes end there because   *)
(* they were cut.                                                          *)
(***************************************************************************)

(* Where the module reads nodes and texts, rather than fields. *)
NodePhases == {"envelope", "raised", "exit", "output", "payload", "nodes",
               "keywords", "pairs"}

(* An answer with an envelope, or the arguments of a Go function. *)
IsDecoded(m) ==
  \/ m.op = "GoFunc"
  \/ m.status # "error" /\ Called(m.op).answers \notin NoEnvelope

(* All the bytes that a nodeReader can be given of m. *)
Full(m) == IF m.op = "GoFunc" THEN CallArguments(m) ELSE GuestEnvelope(m)

(* The values that m holds, and the bytes of its texts. *)
Vals(m) == [i \in DOMAIN m.entries |-> Meaning(m.entries[i])]

TextParts(texts) == [i \in DOMAIN texts |-> LenBytes(texts[i])]

(* The nodes before the keyword arguments, and those of the latter. *)
Positional(m) == IF m.op = "GoFunc" THEN Len(m.entries) - Len(m.texts)
                                    ELSE Len(m.entries)

Named(m) == SubSeq(Nodes(m), Positional(m) + 1, Len(m.entries))

(* The keyword arguments: each a name and the node of its value. *)
PairParts(m) == [i \in 1 .. Len(m.texts) |-> LenBytes(m.texts[i]) \o Named(m)[i]]

(* What comes after the nodes of an ok envelope or of the arguments. *)
AfterNodes(m) ==
  IF m.op = "GoFunc" THEN encodeKeywords(m.texts, Named(m)) ELSE Texts(m.texts)

(* p is behind the first k of these parts; rest follows the last of them.  *)
Within(full, p, parts, rest, k) ==
  \E start \in 0 .. Len(full) :
    /\ Holds(full, start, FlattenSeq(parts) \o rest)
    /\ p = start + Before(parts, k)

(* At the beginning nothing is read. *)
EnvelopeTrack == r.pos = 0 /\ got = Blank

(* After the status byte, or at a Go function's arguments: the payload. *)
PayloadTrack ==
  /\ sent.status = "ok" /\ got = Blank
  /\ Holds(Full(sent), r.pos,
           IF sent.op = "GoFunc" THEN CallArguments(sent) ELSE OkPayload(sent))

(* Of the three texts of an exception, left are still ahead. *)
RaisedTrack ==
  /\ sent.status = "raised" /\ left \in 0 .. 3
  /\ got = Outcome("pending", <<>>, SubSeq(sent.texts, 1, 3 - left), 0)
  /\ Within(Full(sent), r.pos, TextParts(SubSeq(sent.texts, 1, 3)),
            FlattenSeq(Nodes(sent))
              \o Texts(SubSeq(sent.texts, 4, Len(sent.texts))), 3 - left)

(* The exit code is ahead, and the output after it. *)
ExitTrack ==
  /\ sent.status = "exit" /\ got = Blank
  /\ Holds(Full(sent), r.pos,
           LittleEndian(sent.num % HalfSize, HalfBytes) \o Texts(sent.texts))

(* Of the two texts of the output, left are still ahead. *)
OutputTrack ==
  LET n == Len(sent.texts)
  IN  /\ left \in 0 .. 2 /\ n >= 2
      /\ got = Outcome(sent.status, Vals(sent), SubSeq(sent.texts, 1, n - left),
                       sent.num)
      /\ Within(Full(sent), r.pos, TextParts(SubSeq(sent.texts, n - 1, n)), <<>>, 2 - left)

(* Of the nodes, left are still ahead. *)
NodesTrack ==
  LET n == Positional(sent)
  IN  /\ sent.status = "ok" /\ left \in 0 .. n
      /\ got = Outcome("ok", SubSeq(Vals(sent), 1, n - left), <<>>, sent.num)
      /\ Within(Full(sent), r.pos, SubSeq(Nodes(sent), 1, n), AfterNodes(sent), n - left)

(* The positional arguments are read, their names are ahead. *)
KeywordsTrack ==
  /\ got = Outcome("ok", SubSeq(Vals(sent), 1, Positional(sent)), <<>>, 0)
  /\ Holds(Full(sent), r.pos, AfterNodes(sent))

(* Of the keyword arguments, left are still ahead. *)
PairsTrack ==
  LET n == Len(sent.texts)
  IN  /\ left \in 0 .. n
      /\ got = Outcome("ok", SubSeq(Vals(sent), 1, Len(sent.entries) - left),
                       SubSeq(sent.texts, 1, n - left), 0)
      /\ Within(Full(sent), r.pos, PairParts(sent), <<>>, n - left)

(* What has been read is what was sent, and the rest is ahead. *)
OnTrack ==
  /\ IsDecoded(sent) /\ ~r.fail
  /\ at = "envelope" => EnvelopeTrack
  /\ at = "payload" => PayloadTrack
  /\ at = "raised" => RaisedTrack
  /\ at = "exit" => ExitTrack
  /\ at = "output" => OutputTrack
  /\ at = "nodes" => NodesTrack
  /\ at = "keywords" => KeywordsTrack
  /\ at = "pairs" => PairsTrack

(* Each point is reached by its own decoders only. *)
WantOf ==
  /\ Want \notin NoEnvelope \cup {"nothing"}
  /\ at \in {"envelope", "raised", "exit", "output"} => sent.op # "GoFunc"
  /\ at = "nodes" => Want \in {"node", "eval", "exists", "list", "items", "call"}
  /\ at = "output" => Want = "eval"
  /\ at \in {"keywords", "pairs"} => Want = "call"

(* While nodes are read: on track, unless the reader has failed or there   *)
(* never was an envelope. A whole answer does not fail.                    *)
NodeInv ==
  at \in NodePhases =>
    /\ r \in NodeReaders /\ WantOf
    /\ IsDecoded(sent) => CutOf(r.data, Full(sent))
    /\ whole => IsDecoded(sent) /\ r.data = Full(sent) /\ ~r.fail
    /\ ~IsDecoded(sent) => r.data = <<>>
    /\ \/ r.fail \/ OnTrack
       \/ at = "envelope" /\ r.data = <<>> /\ r.pos = 0 /\ ~whole

(* At the end: what was sent, or the bytes were cut and the caller is      *)
(* told, or the operation looks at nothing that could tell it.             *)
DoneInv ==
  at = "done" =>
    \/ got = Expected(sent)
    \/ /\ ~whole
       /\ \/ got.status \in {"error", "malformed"}
          \/ Want \in NoEnvelope \cup {"nothing"}
          \/ r.fail /\ ~Looked

-----------------------------------------------------------------------------
(***************************************************************************)
(* What the guest writes for a message is what the reader makes of it.     *)
(***************************************************************************)

(* A Go number, or an int that the guest writes in the long form itself.   *)
LEMMA EntriesComeBack ==
  ASSUME NEW e, IsEntry(e)
  PROVE  StandsFor(GuestNode(e), Meaning(e))
<1>1. CASE e.as = "value" /\ Encodable(e.x)
  <2>1. GuestNode(e) = NodeOf(e.x) /\ Meaning(e) = e.x
    BY <1>1 DEF GuestNode, Meaning
  <2>2. QED
    BY <1>1, <2>1, NodesComeBack
<1>2. CASE /\ e.as \in {"int64", "uint64", "big.Int"} /\ IsBigInt(e.x)
           /\ e.as = "int64" => IsInt64(e.x)
           /\ e.as = "uint64" => e.x \in Word
  <2> DEFINE v == IntValue(e.x, ~IsInt64(e.x))
  <2>1. ValueOf(e.as, e.x) = v
    <3>1. CASE e.as = "int64"
      BY <1>2, <3>1 DEF ValueOf
    <3>2. CASE e.as = "uint64"
      <4>1. e.x \in Nat /\ WordSize \div 2 \in Nat
        BY <1>2, <3>2, WordNat, HalfWord
      <4>2. (e.x <= WordSize \div 2 - 1) = IsInt64(e.x)
        BY <4>1 DEF IsInt64
      <4>3. QED
        BY <3>2, <4>2 DEF ValueOf, intFromUint64
    <3>3. CASE e.as = "big.Int"
      BY <3>3 DEF ValueOf, intFromBig
    <3>4. QED
      BY <1>2, <3>1, <3>2, <3>3
  <2>2. v.kind = "int" /\ v.n = e.x /\ v.big = ~IsInt64(e.x)
    BY DEF IntValue
  <2>3. Encodable(v) /\ NodeOf(v) = encodeValue(v)
    BY <1>2, <2>2 DEF Encodable, NodeOf
  <2>4. GuestNode(e) = encodeValue(v) /\ Meaning(e) = v
    BY <1>2, <2>1 DEF GuestNode, Meaning
  <2> HIDE DEF v
  <2>5. QED
    BY <2>3, <2>4, NodesComeBack
<1>3. CASE e.as = "guest" /\ IsBigInt(e.x)
  <2> DEFINE node == BigIntNode(e.x)
             v == IntValue(e.x, ~IsInt64(e.x))
             k == Len(Magnitude[Absolute(e.x)])
  <2>1. GuestNode(e) = node /\ Meaning(e) = v
    BY <1>3 DEF GuestNode, Meaning
  <2>2. node \in Seq(Nat) /\ Len(node) = 2 + HalfBytes + k
    BY <1>3, BigBytes
  <2>3. k \in Nat /\ HalfBytes \in Nat
    BY <1>3, MagnitudeBytes, Sizes
  <2>4. ASSUME NEW q \in NodeReaders, NEW full \in Seq(Nat), CutOf(q.data, full),
               Holds(full, q.pos, node)
        PROVE  ReadsAs(q, v, 2 + HalfBytes + k)
    BY <1>3, <2>4, BigIsRead
  <2> HIDE DEF node, v, k
  <2>5. Len(node) > 0
    BY <2>2, <2>3
  <2>6. QED
    BY <2>1, <2>2, <2>4, <2>5 DEF StandsFor
<1>4. QED
  BY <1>1, <1>2, <1>3 DEF IsEntry

LEMMA MessageTexts ==
  ASSUME NEW m \in Messages
  PROVE  /\ m.texts \in Seq(Seq(Nat)) /\ Len(m.texts) \in Nat
         /\ \A i \in 1 .. Len(m.texts) :
              m.texts[i] \in Seq(Nat) /\ Len(m.texts[i]) < HalfSize
<1>1. /\ m.texts \in Seq(Range(m.texts))
      /\ \A t \in Range(m.texts) : IsText(t, HalfBytes)
  BY MessagesAssumption DEF IsSent
<1>2. \A t \in Range(m.texts) : t \in Seq(Nat) /\ Len(t) < HalfSize
  BY <1>1, TextBytes DEF HalfSize
<1>3. m.texts \in Seq(Seq(Nat)) /\ Len(m.texts) \in Nat
  BY <1>1, <1>2, SeqMonotonic
<1>4. \A i \in 1 .. Len(m.texts) : m.texts[i] \in Range(m.texts)
  BY <1>1, ElementOfSeq
<1>5. QED
  BY <1>2, <1>3, <1>4

LEMMA MessageNodes ==
  ASSUME NEW m \in Messages
  PROVE  /\ Len(m.entries) \in Nat
         /\ \A i \in 1 .. Len(m.entries) : IsEntry(m.entries[i])
         /\ Nodes(m) \in Seq(Seq(Nat)) /\ Len(Nodes(m)) = Len(m.entries)
         /\ \E S : Vals(m) \in Seq(S)
         /\ Len(Vals(m)) = Len(m.entries)
         /\ \A i \in 1 .. Len(m.entries) :
              /\ Nodes(m)[i] = GuestNode(m.entries[i])
              /\ Vals(m)[i] = Meaning(m.entries[i])
              /\ StandsFor(Nodes(m)[i], Vals(m)[i])
<1> DEFINE es == m.entries
           n == Len(es)
           S == {Meaning(es[i]) : i \in 1 .. n}
<1>1. /\ es \in Seq(Range(es))
      /\ \A e \in Range(es) : IsEntry(e)
  BY MessagesAssumption DEF IsSent
<1>2. n \in Nat /\ DOMAIN es = 1 .. n /\ \A i \in 1 .. n : IsEntry(es[i])
  <2>1. n \in Nat /\ DOMAIN es = 1 .. n
    BY <1>1, LenProperties
  <2>2. \A i \in 1 .. n : es[i] \in Range(es)
    BY <1>1, ElementOfSeq
  <2>3. QED
    BY <1>1, <2>1, <2>2
<1>3. \A i \in 1 .. n : StandsFor(GuestNode(es[i]), Meaning(es[i]))
  BY <1>2, EntriesComeBack
<1>4. Nodes(m) = [i \in 1 .. n |-> GuestNode(es[i])]
      /\ Vals(m) = [i \in 1 .. n |-> Meaning(es[i])]
  BY <1>2 DEF Nodes, Vals
<1> HIDE DEF n, es
<1>5. Nodes(m) \in [1 .. n -> Seq(Nat)]
  BY <1>3, <1>4 DEF StandsFor
<1>6. Vals(m) \in [1 .. n -> S]
  BY <1>4
<1> HIDE DEF S
<1>7. Nodes(m) \in Seq(Seq(Nat)) /\ Len(Nodes(m)) = n
  BY <1>2, <1>5, FunctionIsSeq
<1>8. Vals(m) \in Seq(S) /\ Len(Vals(m)) = n
  BY <1>2, <1>6, FunctionIsSeq
<1>9. QED
  BY <1>2, <1>3, <1>4, <1>7, <1>8 DEF n, es

LEMMA Flattened ==
  ASSUME NEW parts \in Seq(Seq(Nat))
  PROVE  FlattenSeq(parts) \in Seq(Nat)
<1>1. /\ First(parts, Len(parts)) = FlattenSeq(parts)
      /\ \A k \in 0 .. Len(parts) : First(parts, k) \in Seq(Nat)
  BY FirstParts
<1>2. Len(parts) \in 0 .. Len(parts)
  OBVIOUS
<1>3. QED
  BY <1>1, <1>2

LEMMA PartsBegin ==
  ASSUME NEW full \in Seq(Nat), NEW p \in Nat, NEW parts \in Seq(Seq(Nat)),
         NEW rest \in Seq(Nat), Holds(full, p, FlattenSeq(parts) \o rest)
  PROVE  Within(full, p, parts, rest, 0)
<1> DEFINE s == FlattenSeq(parts)
           n == Len(full)
           k == Len(s \o rest)
<1>1. s \in Seq(Nat)
  BY Flattened
<1> HIDE DEF s
<1>2. k \in Nat /\ n \in Nat
  BY <1>1
<1>3. p + k <= n
  BY DEF Holds, s
<1>4. Holds(full, p, s)
  BY <1>1, HoldsBoth DEF s
<1>5. Before(parts, 0) = 0
  BY <1>4, HoldsParts DEF s
<1> HIDE DEF k, n
<1>6. p \in 0 .. n /\ p = p + 0
  BY <1>2, <1>3
<1>7. QED
  BY <1>5, <1>6 DEF Within, n

LEMMA PartsGoOn ==
  ASSUME NEW full \in Seq(Nat), NEW p, NEW parts \in Seq(Seq(Nat)),
         NEW rest \in Seq(Nat), NEW k \in 0 .. Len(parts) - 1,
         Within(full, p, parts, rest, k)
  PROVE  /\ p \in Nat /\ parts[k + 1] \in Seq(Nat)
         /\ Holds(full, p, parts[k + 1])
         /\ Within(full, p + Len(parts[k + 1]), parts, rest, k + 1)
<1>1. PICK start \in 0 .. Len(full) :
        /\ Holds(full, start, FlattenSeq(parts) \o rest)
        /\ p = start + Before(parts, k)
  BY DEF Within
<1>2. start \in Nat /\ FlattenSeq(parts) \in Seq(Nat)
  BY Flattened
<1>3. Holds(full, start, FlattenSeq(parts))
  BY <1>1, <1>2, HoldsBoth
<1>4. /\ Before(parts, k) \in Nat /\ parts[k + 1] \in Seq(Nat)
      /\ Before(parts, k + 1) = Before(parts, k) + Len(parts[k + 1])
      /\ Holds(full, start + Before(parts, k), parts[k + 1])
  BY <1>2, <1>3, HoldsParts
<1> DEFINE b == Before(parts, k)
           m == Len(parts[k + 1])
<1>5. m \in Nat /\ b \in Nat
  BY <1>4
<1> HIDE DEF b, m
<1>6. start + (b + m) = (start + b) + m /\ start + b \in Nat
  BY <1>2, <1>5
<1>7. p + m = start + Before(parts, k + 1) /\ p \in Nat
  BY <1>1, <1>4, <1>6 DEF b, m
<1>8. QED
  BY <1>1, <1>4, <1>7 DEF Within, m

LEMMA PartsEnd ==
  ASSUME NEW full \in Seq(Nat), NEW p, NEW parts \in Seq(Seq(Nat)),
         NEW rest \in Seq(Nat), Within(full, p, parts, rest, Len(parts))
  PROVE  p \in Nat /\ Holds(full, p, rest)
<1>1. PICK start \in 0 .. Len(full) :
        /\ Holds(full, start, FlattenSeq(parts) \o rest)
        /\ p = start + Before(parts, Len(parts))
  BY DEF Within
<1>2. start \in Nat /\ FlattenSeq(parts) \in Seq(Nat)
  BY Flattened
<1>3. /\ Holds(full, start, FlattenSeq(parts))
      /\ Holds(full, start + Len(FlattenSeq(parts)), rest)
  BY <1>1, <1>2, HoldsBoth
<1>4. Before(parts, Len(parts)) = Len(FlattenSeq(parts))
      /\ Before(parts, Len(parts)) \in Nat
  BY <1>2, <1>3, HoldsParts
<1>5. QED
  BY <1>1, <1>2, <1>3, <1>4

(* A reader of a prefix of full: what it needs of what is held there, it   *)
(* has if nothing is missing; and it goes past it.                         *)
LEMMA GoesPast ==
  ASSUME NEW q \in NodeReaders, NEW full \in Seq(Nat), CutOf(q.data, full),
         NEW s \in Seq(Nat), Holds(full, q.pos, s)
  PROVE  /\ Len(s) \in Nat
         /\ Past(q, Len(s)) \in NodeReaders
         /\ Past(q, Len(s)).data = q.data
         /\ Past(q, Len(s)).fail = ~Need(q, Len(s))
         /\ ~Past(q, Len(s)).fail => Past(q, Len(s)).pos = q.pos + Len(s)
         /\ q.data = full /\ ~q.fail => Need(q, Len(s))
<1> DEFINE n == Len(s)
           k == Len(full)
           p == q.pos
<1>1. n \in Nat /\ k \in Nat /\ p \in Nat
  BY ReaderFields
<1>2. p + n <= k
  BY DEF Holds
<1>3. q.data = full /\ ~q.fail => Need(q, n)
  <2> SUFFICES ASSUME q.data = full, ~q.fail PROVE Need(q, n)
    OBVIOUS
  <2>1. Len(q.data) = k
    OBVIOUS
  <2> HIDE DEF n, k, p
  <2>2. k - p >= n
    BY <1>1, <1>2
  <2>3. QED
    BY <2>1, <2>2 DEF Need, p
<1> HIDE DEF n
<1>4. /\ Past(q, n) \in NodeReaders
      /\ Past(q, n).data = q.data
      /\ Past(q, n).fail = ~Need(q, n)
      /\ Past(q, n).pos = IF Need(q, n) THEN q.pos + n ELSE q.pos
  BY <1>1, PastBytes
<1>5. QED
  BY <1>1, <1>3, <1>4 DEF n

-----------------------------------------------------------------------------
(***************************************************************************)
(* The outcome that is wanted, for each kind of answer.                    *)
(***************************************************************************)

(* What the host reads an answer as is what the export answers; only of    *)
(* drainReleases it is not read.                                           *)
LEMMA WantIs ==
  ASSUME NEW op \in DOMAIN Entry
  PROVE  /\ Decoder[op] = IF op = "drainReleases" THEN "nothing"
                                                ELSE Called(op).answers
         /\ op \in DOMAIN As => Decoder[op] = "node"
         /\ Decoder[op] = "items" <=> op = "DictItemsOp"
         /\ op # "GoFunc"
         /\ Decoder[op] \in {"word", "half", "checked", "nothing", "i64", "bool",
                             "text", "node", "eval", "exists", "list", "items",
                             "empty"}
         /\ Called(op).answers \in {"word", "half", "checked", "i64", "bool", "text",
                                   "node", "eval", "exists", "list", "items",
                                   "empty"}
<1>1. DOMAIN As = {"ImportOp", "NewListOp", "NewTupleOp", "NewSetOp",
        "NewFrozenSetOp", "NewDictOp", "NewFunctionOp"}
  BY DEF As
<1>2. DOMAIN Entry =
        {"asyncExcAddr", "CallOp", "CallMethodOp", "Close", "ContainsOp",
          "DelItemOp", "DictGetOp", "DictItemsOp", "DictKeysOp",
          "DictValuesOp", "EvalOp", "breakerAddr", "GetAttrOp", "GetItemOp",
          "ImportOp", "IsInstanceOp", "IterOp", "kbdIntObj", "LenOp",
          "ListAppendOp", "pyNew", "NewDictOp", "NewFrozenSetOp",
          "NewFunctionOp", "NewListOp", "NewSetOp", "NewTupleOp",
          "drainReleases", "ReprOp", "SetAddOp", "SetDiscardOp",
          "EnsureDispatcher", "SetAttrOp", "SetItemOp", "StrOp"}
  BY DEF Entry
<1>3. Decoder["asyncExcAddr"] = "half" /\ Called("asyncExcAddr").answers = "half"
  <2>1. Decoder["asyncExcAddr"] = "half"
    BY DEF Decoder, ObjectDecoder, ContainerDecoder, InstanceDecoder,
           InternalDecoder, Entry
  <2>2. Called("asyncExcAddr").answers = "half"
    BY FirstRows DEF Export
  <2>3. QED
    BY <2>1, <2>2
<1>4. Decoder["CallOp"] = "node" /\ Called("CallOp").answers = "node"
  <2>1. Decoder["CallOp"] = "node"
    BY DEF Decoder, ObjectDecoder, ContainerDecoder, InstanceDecoder,
           InternalDecoder, Entry
  <2>2. Called("CallOp").answers = "node"
    BY FirstRows DEF Export
  <2>3. QED
    BY <2>1, <2>2
<1>5. Decoder["CallMethodOp"] = "node" /\ Called("CallMethodOp").answers = "node"
  <2>1. Decoder["CallMethodOp"] = "node"
    BY DEF Decoder, ObjectDecoder, ContainerDecoder, InstanceDecoder,
           InternalDecoder, Entry
  <2>2. Called("CallMethodOp").answers = "node"
    BY FirstRows DEF Export
  <2>3. QED
    BY <2>1, <2>2
<1>6. Decoder["Close"] = "checked" /\ Called("Close").answers = "checked"
  <2>1. Decoder["Close"] = "checked"
    BY DEF Decoder, ObjectDecoder, ContainerDecoder, InstanceDecoder,
           InternalDecoder, Entry
  <2>2. Called("Close").answers = "checked"
    BY FirstRows DEF Export
  <2>3. QED
    BY <2>1, <2>2
<1>7. Decoder["ContainsOp"] = "bool" /\ Called("ContainsOp").answers = "bool"
  <2>1. Decoder["ContainsOp"] = "bool"
    BY DEF Decoder, ObjectDecoder, ContainerDecoder, InstanceDecoder,
           InternalDecoder, Entry
  <2>2. Called("ContainsOp").answers = "bool"
    BY FirstRows DEF Export
  <2>3. QED
    BY <2>1, <2>2
<1>8. Decoder["DelItemOp"] = "empty" /\ Called("DelItemOp").answers = "empty"
  <2>1. Decoder["DelItemOp"] = "empty"
    BY DEF Decoder, ObjectDecoder, ContainerDecoder, InstanceDecoder,
           InternalDecoder, Entry
  <2>2. Called("DelItemOp").answers = "empty"
    BY FirstRows DEF Export
  <2>3. QED
    BY <2>1, <2>2
<1>9. Decoder["DictGetOp"] = "exists" /\ Called("DictGetOp").answers = "exists"
  <2>1. Decoder["DictGetOp"] = "exists"
    BY DEF Decoder, ObjectDecoder, ContainerDecoder, InstanceDecoder,
           InternalDecoder, Entry
  <2>2. Called("DictGetOp").answers = "exists"
    BY FirstRows DEF Export
  <2>3. QED
    BY <2>1, <2>2
<1>10. Decoder["DictItemsOp"] = "items" /\ Called("DictItemsOp").answers = "items"
  <2>1. Decoder["DictItemsOp"] = "items"
    BY DEF Decoder, ObjectDecoder, ContainerDecoder, InstanceDecoder,
           InternalDecoder, Entry
  <2>2. Called("DictItemsOp").answers = "items"
    BY FirstRows DEF Export
  <2>3. QED
    BY <2>1, <2>2
<1>11. Decoder["DictKeysOp"] = "list" /\ Called("DictKeysOp").answers = "list"
  <2>1. Decoder["DictKeysOp"] = "list"
    BY DEF Decoder, ObjectDecoder, ContainerDecoder, InstanceDecoder,
           InternalDecoder, Entry
  <2>2. Called("DictKeysOp").answers = "list"
    BY FirstRows DEF Export
  <2>3. QED
    BY <2>1, <2>2
<1>12. Decoder["DictValuesOp"] = "list" /\ Called("DictValuesOp").answers = "list"
  <2>1. Decoder["DictValuesOp"] = "list"
    BY DEF Decoder, ObjectDecoder, ContainerDecoder, InstanceDecoder,
           InternalDecoder, Entry
  <2>2. Called("DictValuesOp").answers = "list"
    BY FirstRows DEF Export
  <2>3. QED
    BY <2>1, <2>2
<1>13. Decoder["EvalOp"] = "eval" /\ Called("EvalOp").answers = "eval"
  <2>1. Decoder["EvalOp"] = "eval"
    BY DEF Decoder, ObjectDecoder, ContainerDecoder, InstanceDecoder,
           InternalDecoder, Entry
  <2>2. Called("EvalOp").answers = "eval"
    BY SecondRows DEF Export
  <2>3. QED
    BY <2>1, <2>2
<1>14. Decoder["breakerAddr"] = "half" /\ Called("breakerAddr").answers = "half"
  <2>1. Decoder["breakerAddr"] = "half"
    BY DEF Decoder, ObjectDecoder, ContainerDecoder, InstanceDecoder,
           InternalDecoder, Entry
  <2>2. Called("breakerAddr").answers = "half"
    BY SecondRows DEF Export
  <2>3. QED
    BY <2>1, <2>2
<1>15. Decoder["GetAttrOp"] = "node" /\ Called("GetAttrOp").answers = "node"
  <2>1. Decoder["GetAttrOp"] = "node"
    BY DEF Decoder, ObjectDecoder, ContainerDecoder, InstanceDecoder,
           InternalDecoder, Entry
  <2>2. Called("GetAttrOp").answers = "node"
    BY SecondRows DEF Export
  <2>3. QED
    BY <2>1, <2>2
<1>16. Decoder["GetItemOp"] = "node" /\ Called("GetItemOp").answers = "node"
  <2>1. Decoder["GetItemOp"] = "node"
    BY DEF Decoder, ObjectDecoder, ContainerDecoder, InstanceDecoder,
           InternalDecoder, Entry
  <2>2. Called("GetItemOp").answers = "node"
    BY SecondRows DEF Export
  <2>3. QED
    BY <2>1, <2>2
<1>17. Decoder["ImportOp"] = "node" /\ Called("ImportOp").answers = "node"
  <2>1. Decoder["ImportOp"] = "node"
    BY DEF Decoder, ObjectDecoder, ContainerDecoder, InstanceDecoder,
           InternalDecoder, Entry
  <2>2. Called("ImportOp").answers = "node"
    BY SecondRows DEF Export
  <2>3. QED
    BY <2>1, <2>2
<1>18. Decoder["IsInstanceOp"] = "bool" /\ Called("IsInstanceOp").answers = "bool"
  <2>1. Decoder["IsInstanceOp"] = "bool"
    BY DEF Decoder, ObjectDecoder, ContainerDecoder, InstanceDecoder,
           InternalDecoder, Entry
  <2>2. Called("IsInstanceOp").answers = "bool"
    BY SecondRows DEF Export
  <2>3. QED
    BY <2>1, <2>2
<1>19. Decoder["IterOp"] = "list" /\ Called("IterOp").answers = "list"
  <2>1. Decoder["IterOp"] = "list"
    BY DEF Decoder, ObjectDecoder, ContainerDecoder, InstanceDecoder,
           InternalDecoder, Entry
  <2>2. Called("IterOp").answers = "list"
    BY SecondRows DEF Export
  <2>3. QED
    BY <2>1, <2>2
<1>20. Decoder["kbdIntObj"] = "half" /\ Called("kbdIntObj").answers = "half"
  <2>1. Decoder["kbdIntObj"] = "half"
    BY DEF Decoder, ObjectDecoder, ContainerDecoder, InstanceDecoder,
           InternalDecoder, Entry
  <2>2. Called("kbdIntObj").answers = "half"
    BY SecondRows DEF Export
  <2>3. QED
    BY <2>1, <2>2
<1>21. Decoder["LenOp"] = "i64" /\ Called("LenOp").answers = "i64"
  <2>1. Decoder["LenOp"] = "i64"
    BY DEF Decoder, ObjectDecoder, ContainerDecoder, InstanceDecoder,
           InternalDecoder, Entry
  <2>2. Called("LenOp").answers = "i64"
    BY SecondRows DEF Export
  <2>3. QED
    BY <2>1, <2>2
<1>22. Decoder["ListAppendOp"] = "empty" /\ Called("ListAppendOp").answers = "empty"
  <2>1. Decoder["ListAppendOp"] = "empty"
    BY DEF Decoder, ObjectDecoder, ContainerDecoder, InstanceDecoder,
           InternalDecoder, Entry
  <2>2. Called("ListAppendOp").answers = "empty"
    BY SecondRows DEF Export
  <2>3. QED
    BY <2>1, <2>2
<1>23. Decoder["pyNew"] = "word" /\ Called("pyNew").answers = "word"
  <2>1. Decoder["pyNew"] = "word"
    BY DEF Decoder, ObjectDecoder, ContainerDecoder, InstanceDecoder,
           InternalDecoder, Entry
  <2>2. Called("pyNew").answers = "word"
    BY ThirdRows DEF Export
  <2>3. QED
    BY <2>1, <2>2
<1>24. Decoder["NewDictOp"] = "node" /\ Called("NewDictOp").answers = "node"
  <2>1. Decoder["NewDictOp"] = "node"
    BY DEF Decoder, ObjectDecoder, ContainerDecoder, InstanceDecoder,
           InternalDecoder, Entry
  <2>2. Called("NewDictOp").answers = "node"
    BY ThirdRows DEF Export
  <2>3. QED
    BY <2>1, <2>2
<1>25. Decoder["NewFrozenSetOp"] = "node" /\ Called("NewFrozenSetOp").answers = "node"
  <2>1. Decoder["NewFrozenSetOp"] = "node"
    BY DEF Decoder, ObjectDecoder, ContainerDecoder, InstanceDecoder,
           InternalDecoder, Entry
  <2>2. Called("NewFrozenSetOp").answers = "node"
    BY ThirdRows DEF Export
  <2>3. QED
    BY <2>1, <2>2
<1>26. Decoder["NewFunctionOp"] = "node" /\ Called("NewFunctionOp").answers = "node"
  <2>1. Decoder["NewFunctionOp"] = "node"
    BY DEF Decoder, ObjectDecoder, ContainerDecoder, InstanceDecoder,
           InternalDecoder, Entry
  <2>2. Called("NewFunctionOp").answers = "node"
    BY ThirdRows DEF Export
  <2>3. QED
    BY <2>1, <2>2
<1>27. Decoder["NewListOp"] = "node" /\ Called("NewListOp").answers = "node"
  <2>1. Decoder["NewListOp"] = "node"
    BY DEF Decoder, ObjectDecoder, ContainerDecoder, InstanceDecoder,
           InternalDecoder, Entry
  <2>2. Called("NewListOp").answers = "node"
    BY ThirdRows DEF Export
  <2>3. QED
    BY <2>1, <2>2
<1>28. Decoder["NewSetOp"] = "node" /\ Called("NewSetOp").answers = "node"
  <2>1. Decoder["NewSetOp"] = "node"
    BY DEF Decoder, ObjectDecoder, ContainerDecoder, InstanceDecoder,
           InternalDecoder, Entry
  <2>2. Called("NewSetOp").answers = "node"
    BY ThirdRows DEF Export
  <2>3. QED
    BY <2>1, <2>2
<1>29. Decoder["NewTupleOp"] = "node" /\ Called("NewTupleOp").answers = "node"
  <2>1. Decoder["NewTupleOp"] = "node"
    BY DEF Decoder, ObjectDecoder, ContainerDecoder, InstanceDecoder,
           InternalDecoder, Entry
  <2>2. Called("NewTupleOp").answers = "node"
    BY ThirdRows DEF Export
  <2>3. QED
    BY <2>1, <2>2
<1>30. Decoder["drainReleases"] = "nothing" /\ Called("drainReleases").answers = "empty"
  <2>1. Decoder["drainReleases"] = "nothing"
    BY DEF Decoder, ObjectDecoder, ContainerDecoder, InstanceDecoder,
           InternalDecoder, Entry
  <2>2. Called("drainReleases").answers = "empty"
    BY FourthRows DEF Export
  <2>3. QED
    BY <2>1, <2>2
<1>31. Decoder["ReprOp"] = "text" /\ Called("ReprOp").answers = "text"
  <2>1. Decoder["ReprOp"] = "text"
    BY DEF Decoder, ObjectDecoder, ContainerDecoder, InstanceDecoder,
           InternalDecoder, Entry
  <2>2. Called("ReprOp").answers = "text"
    BY FourthRows DEF Export
  <2>3. QED
    BY <2>1, <2>2
<1>32. Decoder["SetAddOp"] = "empty" /\ Called("SetAddOp").answers = "empty"
  <2>1. Decoder["SetAddOp"] = "empty"
    BY DEF Decoder, ObjectDecoder, ContainerDecoder, InstanceDecoder,
           InternalDecoder, Entry
  <2>2. Called("SetAddOp").answers = "empty"
    BY FourthRows DEF Export
  <2>3. QED
    BY <2>1, <2>2
<1>33. Decoder["SetDiscardOp"] = "empty" /\ Called("SetDiscardOp").answers = "empty"
  <2>1. Decoder["SetDiscardOp"] = "empty"
    BY DEF Decoder, ObjectDecoder, ContainerDecoder, InstanceDecoder,
           InternalDecoder, Entry
  <2>2. Called("SetDiscardOp").answers = "empty"
    BY FourthRows DEF Export
  <2>3. QED
    BY <2>1, <2>2
<1>34. Decoder["EnsureDispatcher"] = "checked" /\ Called("EnsureDispatcher").answers = "checked"
  <2>1. Decoder["EnsureDispatcher"] = "checked"
    BY DEF Decoder, ObjectDecoder, ContainerDecoder, InstanceDecoder,
           InternalDecoder, Entry
  <2>2. Called("EnsureDispatcher").answers = "checked"
    BY FourthRows DEF Export
  <2>3. QED
    BY <2>1, <2>2
<1>35. Decoder["SetAttrOp"] = "empty" /\ Called("SetAttrOp").answers = "empty"
  <2>1. Decoder["SetAttrOp"] = "empty"
    BY DEF Decoder, ObjectDecoder, ContainerDecoder, InstanceDecoder,
           InternalDecoder, Entry
  <2>2. Called("SetAttrOp").answers = "empty"
    BY FourthRows DEF Export
  <2>3. QED
    BY <2>1, <2>2
<1>36. Decoder["SetItemOp"] = "empty" /\ Called("SetItemOp").answers = "empty"
  <2>1. Decoder["SetItemOp"] = "empty"
    BY DEF Decoder, ObjectDecoder, ContainerDecoder, InstanceDecoder,
           InternalDecoder, Entry
  <2>2. Called("SetItemOp").answers = "empty"
    BY FourthRows DEF Export
  <2>3. QED
    BY <2>1, <2>2
<1>37. Decoder["StrOp"] = "text" /\ Called("StrOp").answers = "text"
  <2>1. Decoder["StrOp"] = "text"
    BY DEF Decoder, ObjectDecoder, ContainerDecoder, InstanceDecoder,
           InternalDecoder, Entry
  <2>2. Called("StrOp").answers = "text"
    BY FourthRows DEF Export
  <2>3. QED
    BY <2>1, <2>2
<1>38. QED
  BY <1>1, <1>2, <1>3, <1>4, <1>5, <1>6, <1>7, <1>8, <1>9, <1>10, <1>11,
     <1>12, <1>13, <1>14, <1>15, <1>16, <1>17, <1>18, <1>19, <1>20, <1>21,
     <1>22, <1>23, <1>24, <1>25, <1>26, <1>27, <1>28, <1>29, <1>30, <1>31,
     <1>32, <1>33, <1>34, <1>35, <1>36, <1>37

-----------------------------------------------------------------------------
(***************************************************************************)
(* How an envelope, a payload and an argument list are laid out.           *)
(***************************************************************************)

(* Some elements of a sequence that follow one another.                    *)
LEMMA SomeOf ==
  ASSUME NEW S, NEW s \in Seq(S), NEW a \in Nat, NEW n \in Nat,
         a + n <= Len(s)
  PROVE  /\ SubSeq(s, a + 1, a + n) \in Seq(S)
         /\ Len(SubSeq(s, a + 1, a + n)) = n
         /\ \A i \in 1 .. n : SubSeq(s, a + 1, a + n)[i] = s[a + i]
<1> DEFINE k == Len(s)
<1>1. k \in Nat /\ \A i \in 1 .. k : s[i] \in S
  BY ElementOfSeq
<1> HIDE DEF k
<1>2. \A i \in (a + 1) .. (a + n) : i \in 1 .. k
  BY DEF k
<1>3. \A i \in (a + 1) .. (a + n) : s[i] \in S
  BY <1>1, <1>2
<1> DEFINE b == a + 1
           c == a + n
<1>7. b \in Int /\ c \in Int /\ \A i \in b .. c : s[i] \in S
  BY <1>3
<1> HIDE DEF b, c
<1>8. /\ SubSeq(s, b, c) \in Seq(S)
      /\ Len(SubSeq(s, b, c)) = IF b <= c THEN c - b + 1 ELSE 0
      /\ \A i \in 1 .. c - b + 1 : SubSeq(s, b, c)[i] = s[b + i - 1]
  BY <1>7, SubSeqProperties, SMTT(40)
<1>4. /\ SubSeq(s, a + 1, a + n) \in Seq(S)
      /\ Len(SubSeq(s, a + 1, a + n)) = IF a + 1 <= a + n THEN (a + n) - (a + 1) + 1 ELSE 0
      /\ \A i \in 1 .. (a + n) - (a + 1) + 1 :
           SubSeq(s, a + 1, a + n)[i] = s[(a + 1) + i - 1]
  BY <1>8 DEF b, c
<1>5. (IF a + 1 <= a + n THEN (a + n) - (a + 1) + 1 ELSE 0) = n
      /\ (a + n) - (a + 1) + 1 = n /\ \A i \in 1 .. n : (a + 1) + i - 1 = a + i
  OBVIOUS
<1>6. QED
  BY <1>4, <1>5

LEMMA TextsParts ==
  ASSUME NEW ts \in Seq(Seq(Nat))
  PROVE  /\ Texts(ts) = FlattenSeq(TextParts(ts))
         /\ TextParts(ts) \in Seq(Seq(Nat)) /\ Len(TextParts(ts)) = Len(ts)
         /\ \A i \in 1 .. Len(ts) : TextParts(ts)[i] = LenBytes(ts[i])
         /\ Texts(ts) \in Seq(Nat)
<1> DEFINE n == Len(ts)
<1>1. n \in Nat /\ DOMAIN ts = 1 .. n /\ \A i \in 1 .. n : ts[i] \in Seq(Nat)
  BY ElementOfSeq
<1>2. TextParts(ts) = [i \in 1 .. n |-> LenBytes(ts[i])]
  BY <1>1 DEF TextParts
<1>3. \A i \in 1 .. n : LenBytes(ts[i]) \in Seq(Nat)
  BY <1>1, PrefixedBytes, Sizes DEF LenBytes
<1> HIDE DEF n
<1>4. TextParts(ts) \in [1 .. n -> Seq(Nat)]
  BY <1>2, <1>3
<1>5. TextParts(ts) \in Seq(Seq(Nat)) /\ Len(TextParts(ts)) = n
  BY <1>1, <1>4, FunctionIsSeq
<1>6. Texts(ts) = FlattenSeq(TextParts(ts))
  BY DEF Texts, TextParts
<1>7. QED
  BY <1>2, <1>5, <1>6, Flattened DEF n

LEMMA FlattenSmall ==
  /\ FlattenSeq(<<>>) = <<>>
  /\ \A s \in Seq(Nat) : FlattenSeq(<<s>>) = s
<1>1. FlattenSeq(<<>>) = <<>>
  <2>1. <<>> \in Seq(Seq(Nat)) /\ Len(<<>>) = 0
    OBVIOUS
  <2>2. First(<<>>, 0) = <<>> /\ First(<<>>, 0) = FlattenSeq(<<>>)
    BY <2>1, FirstParts
  <2>3. QED
    BY <2>2
<1>2. ASSUME NEW s \in Seq(Nat) PROVE FlattenSeq(<<s>>) = s
  <2> DEFINE p == <<s>>
  <2>1. p \in Seq(Seq(Nat)) /\ Len(p) = 1 /\ p[1] = s
    OBVIOUS
  <2> HIDE DEF p
  <2>5. 0 \in 0 .. Len(p) - 1 /\ 0 + 1 = 1
    BY <2>1
  <2>6. First(p, Len(p)) = FlattenSeq(p) /\ First(p, 0) = <<>>
        /\ First(p, 0 + 1) = First(p, 0) \o p[0 + 1]
    BY <2>1, <2>5, FirstParts
  <2>2. First(p, 0) = <<>> /\ First(p, 1) = FlattenSeq(p)
        /\ First(p, 1) = First(p, 0) \o p[1]
    BY <2>1, <2>6
  <2>3. FlattenSeq(p) = <<>> \o s
    BY <2>1, <2>2
  <2>4. QED
    BY <2>3, ConcatEmptySeq DEF p
<1>3. QED
  BY <1>1, <1>2

(* Which of the messages have an envelope, and what holds of them. *)
LEMMA Answers ==
  ASSUME NEW m \in Messages
  PROVE  /\ m.op # "GoFunc" => m.op \in DOMAIN Entry /\ IsAnswer(m)
         /\ m.op = "GoFunc" => IsArgumentList(m)
         /\ IsDecoded(m) => m.status \in {"ok", "raised", "exit"}
<1>1. IsSent(m)
  BY MessagesAssumption
<1>2. m.op # "GoFunc" => m.op \in DOMAIN Entry /\ IsAnswer(m)
  BY <1>1 DEF IsSent
<1>3. m.op = "GoFunc" => IsArgumentList(m)
  BY <1>1 DEF IsSent
<1>4. m.op # "GoFunc" => m.status \in {"error", "raised", "exit", "ok"}
  BY <1>2 DEF IsAnswer
<1>5. QED
  BY <1>2, <1>3, <1>4 DEF IsDecoded, IsArgumentList

(* What follows the status byte, in a Go function's call all there is. *)
Payload(m) == IF m.op = "GoFunc" THEN CallArguments(m) ELSE OkPayload(m)

(* The nodes and what comes after them. *)
PayloadNodes(m) ==
  FlattenSeq(SubSeq(Nodes(m), 1, Positional(m))) \o AfterNodes(m)

(* Which of the decoders reads the answer. *)
WantFor(m) == IF m.op = "GoFunc" THEN "call" ELSE Decoder[m.op]

LEMMA PositionalNodes ==
  ASSUME NEW m \in Messages, m.status = "ok", IsDecoded(m)
  PROVE  /\ Positional(m) \in 0 .. Len(m.entries)
         /\ SubSeq(Nodes(m), 1, Positional(m)) \in Seq(Seq(Nat))
         /\ Len(SubSeq(Nodes(m), 1, Positional(m))) = Positional(m)
         /\ \A i \in 1 .. Positional(m) :
              SubSeq(Nodes(m), 1, Positional(m))[i] = Nodes(m)[i]
<1> DEFINE n == Positional(m)
           k == Len(m.entries)
<1>1. k \in Nat /\ Len(m.texts) \in Nat
  BY MessageNodes, MessageTexts
<1>2. m.op = "GoFunc" => Len(m.texts) <= Len(m.entries)
  BY Answers DEF IsArgumentList
<1>9. n = IF m.op = "GoFunc" THEN k - Len(m.texts) ELSE k
  BY DEF Positional
<1>3. n \in 0 .. k
  <2> DEFINE t == Len(m.texts)
  <2>1. k \in Nat /\ t \in Nat /\ (m.op = "GoFunc" => t <= k)
        /\ n = IF m.op = "GoFunc" THEN k - t ELSE k
    BY <1>1, <1>2, <1>9
  <2> HIDE DEF n, k, t
  <2>2. CASE m.op = "GoFunc"
    <3>1. n = k - t /\ t <= k
      BY <2>1, <2>2
    <3>2. QED
      BY <2>1, <3>1
  <2>3. CASE m.op # "GoFunc"
    BY <2>1, <2>3
  <2>4. QED
    BY <2>2, <2>3
<1> HIDE DEF n
<1>4. Nodes(m) \in Seq(Seq(Nat)) /\ Len(Nodes(m)) = k
  BY MessageNodes
<1> HIDE DEF k
<1>5. 0 \in Nat /\ n \in Nat /\ 0 + n <= Len(Nodes(m)) /\ 0 + 1 = 1 /\ 0 + n = n
      /\ \A i \in 1 .. n : 0 + i = i
  BY <1>1, <1>3, <1>4
<1>6. /\ SubSeq(Nodes(m), 0 + 1, 0 + n) \in Seq(Seq(Nat))
      /\ Len(SubSeq(Nodes(m), 0 + 1, 0 + n)) = n
      /\ \A i \in 1 .. n : SubSeq(Nodes(m), 0 + 1, 0 + n)[i] = Nodes(m)[0 + i]
  BY <1>4, <1>5, SomeOf
<1>7. /\ SubSeq(Nodes(m), 1, n) \in Seq(Seq(Nat))
      /\ Len(SubSeq(Nodes(m), 1, n)) = n
      /\ \A i \in 1 .. n : SubSeq(Nodes(m), 1, n)[i] = Nodes(m)[i]
  BY <1>5, <1>6
<1>8. QED
  BY <1>3, <1>7 DEF n, k

(* The keyword arguments: a name and a node each. *)
LEMMA KeywordParts ==
  ASSUME NEW m \in Messages, m.op = "GoFunc"
  PROVE  /\ PairParts(m) \in Seq(Seq(Nat)) /\ Len(PairParts(m)) = Len(m.texts)
         /\ Len(m.texts) \in Nat /\ Len(m.texts) < HalfSize
         /\ Positional(m) + Len(m.texts) = Len(m.entries)
         /\ \A i \in 1 .. Len(m.texts) :
              PairParts(m)[i] = LenBytes(m.texts[i]) \o Nodes(m)[Positional(m) + i]
         /\ Named(m) \in Seq(Seq(Nat)) /\ Len(Named(m)) = Len(m.texts)
         /\ AfterNodes(m) =
              LittleEndian(Len(m.texts), HalfBytes) \o FlattenSeq(PairParts(m))
         /\ AfterNodes(m) \in Seq(Nat)
<1> DEFINE n == Positional(m)
           k == Len(m.texts)
           e == Len(m.entries)
<1>1. k \in Nat /\ e \in Nat /\ k <= e /\ e < HalfSize /\ n = e - k
  BY MessageNodes, MessageTexts, Answers DEF IsArgumentList, Positional
<1>2. Nodes(m) \in Seq(Seq(Nat)) /\ Len(Nodes(m)) = e
  BY MessageNodes
<1>3. HalfSize \in Nat /\ HalfBytes \in Nat
  BY WordNat, Sizes
<1>0. \A i \in 1 .. k : LenBytes(m.texts[i]) \in Seq(Nat)
  BY MessageTexts, PrefixedBytes, Sizes DEF LenBytes
<1>10. PairParts(m) = [i \in 1 .. k |-> LenBytes(m.texts[i]) \o Named(m)[i]]
  BY DEF PairParts
<1>11. Named(m) = SubSeq(Nodes(m), n + 1, e)
  BY DEF Named
<1>12. AfterNodes(m) =
         encodeList([i \in 1 .. k |-> LenBytes(m.texts[i]) \o Named(m)[i]])
  BY DEF AfterNodes, encodeKeywords
<1> HIDE DEF n, k, e
<1>4. n \in Nat /\ n + k = e /\ k < HalfSize
  BY <1>1, <1>3
<1>5. /\ Named(m) \in Seq(Seq(Nat)) /\ Len(Named(m)) = k
      /\ \A i \in 1 .. k : Named(m)[i] = Nodes(m)[n + i]
  <2>1. n + k <= Len(Nodes(m))
    BY <1>1, <1>2, <1>4
  <2>2. /\ SubSeq(Nodes(m), n + 1, n + k) \in Seq(Seq(Nat))
        /\ Len(SubSeq(Nodes(m), n + 1, n + k)) = k
        /\ \A i \in 1 .. k : SubSeq(Nodes(m), n + 1, n + k)[i] = Nodes(m)[n + i]
    BY <1>1, <1>2, <1>4, <2>1, SomeOf
  <2>3. QED
    BY <1>4, <1>11, <2>2
<1>6. \A i \in 1 .. k : LenBytes(m.texts[i]) \o Named(m)[i] \in Seq(Nat)
  <2> SUFFICES ASSUME NEW i \in 1 .. k
               PROVE  LenBytes(m.texts[i]) \o Named(m)[i] \in Seq(Nat)
    OBVIOUS
  <2>1. Named(m)[i] \in Seq(Nat)
    BY <1>5, ElementOfSeq
  <2>2. QED
    BY <1>0, <2>1, Joined
<1>7. PairParts(m) \in Seq(Seq(Nat)) /\ Len(PairParts(m)) = k
  <2>1. PairParts(m) \in [1 .. k -> Seq(Nat)]
    BY <1>6, <1>10
  <2>2. QED
    BY <1>1, <2>1, FunctionIsSeq
<1>8. AfterNodes(m) = LittleEndian(k, HalfBytes) \o FlattenSeq(PairParts(m))
  BY <1>7, <1>10, <1>12 DEF encodeList
<1>9. AfterNodes(m) \in Seq(Nat)
  BY <1>1, <1>3, <1>7, <1>8, Flattened, LittleEndianBytes, Joined
<1>13. \A i \in 1 .. k :
         PairParts(m)[i] = LenBytes(m.texts[i]) \o Nodes(m)[n + i]
  BY <1>5, <1>10
<1>14. QED
  BY <1>1, <1>4, <1>5, <1>7, <1>8, <1>9, <1>13 DEF n, k, e

(* What the guest writes behind the status of an ok envelope.              *)
LEMMA PayloadShape ==
  ASSUME NEW m \in Messages, m.status = "ok", IsDecoded(m)
  PROVE  /\ WantFor(m) = "i64" => m.num \in Int /\ IsInt64(m.num) /\
              Payload(m) = LittleEndian(m.num % WordSize, WordBytes)
         /\ WantFor(m) = "bool" => m.num \in {0, 1} /\
              Payload(m) = LittleEndian(m.num, 1)
         /\ WantFor(m) \in {"i64", "bool"} =>
              Len(m.entries) = 0 /\ Len(m.texts) = 0
         /\ WantFor(m) = "text" =>
              /\ Len(m.entries) = 0 /\ Len(m.texts) = 1 /\ m.num = 0
              /\ Payload(m) = LenBytes(m.texts[1])
         /\ WantFor(m) = "empty" =>
              Len(m.entries) = 0 /\ Len(m.texts) = 0 /\ m.num = 0
         /\ WantFor(m) = "exists" =>
              /\ m.num \in {0, 1} /\ Len(m.entries) = 1 /\ Len(m.texts) = 0
              /\ Payload(m) = LittleEndian(m.num, 1) \o PayloadNodes(m)
         /\ WantFor(m) \in {"node", "eval"} =>
              /\ m.num = 0 /\ Len(m.entries) = 1
              /\ Len(m.texts) = IF WantFor(m) = "eval" THEN 2 ELSE 0
              /\ Payload(m) = PayloadNodes(m)
         /\ WantFor(m) \in {"list", "items", "call"} =>
              /\ m.num = 0 /\ Positional(m) < HalfSize
              /\ m.op # "GoFunc" => Len(m.texts) = 0
              /\ WantFor(m) = "items" => Len(m.entries) % 2 = 0
              /\ Payload(m) = LittleEndian(Positional(m), HalfBytes)
                                \o PayloadNodes(m)
         /\ Payload(m) \in Seq(Nat) /\ PayloadNodes(m) \in Seq(Nat)
         /\ AfterNodes(m) \in Seq(Nat)
<1> DEFINE nodes == FlattenSeq(SubSeq(Nodes(m), 1, Positional(m)))
           after == AfterNodes(m)
<1>1. nodes \in Seq(Nat)
  BY PositionalNodes, Flattened
<1>2. m.texts \in Seq(Seq(Nat)) /\ Len(m.texts) \in Nat
  BY MessageTexts
<1>3. Texts(m.texts) \in Seq(Nat)
  BY <1>2, TextsParts
<1>4. Positional(m) \in Nat /\ HalfBytes \in Nat /\ WordBytes \in Nat
  BY PositionalNodes, Sizes, MessageNodes
<1>5. CASE m.op = "GoFunc"
  <2>1. after \in Seq(Nat)
    BY <1>5, KeywordParts
  <2>2. Len(SubSeq(Nodes(m), 1, Positional(m))) = Positional(m)
    BY PositionalNodes
  <2>3. encodeList(SubSeq(Nodes(m), 1, Positional(m)))
          = LittleEndian(Positional(m), HalfBytes) \o nodes
    BY <2>2 DEF encodeList
  <2>4. Payload(m) = (LittleEndian(Positional(m), HalfBytes) \o nodes) \o after
    BY <1>5, <2>3 DEF Payload, CallArguments, AfterNodes, Named, Positional
  <2>5. LittleEndian(Positional(m), HalfBytes) \in Seq(Nat)
    BY <1>4, LittleEndianBytes
  <2>6. PayloadNodes(m) = nodes \o after
    BY DEF PayloadNodes
  <2> HIDE DEF nodes, after
  <2>7. /\ Payload(m) = LittleEndian(Positional(m), HalfBytes) \o PayloadNodes(m)
        /\ Payload(m) \in Seq(Nat) /\ PayloadNodes(m) \in Seq(Nat)
    BY <1>1, <2>1, <2>4, <2>5, <2>6, ThreeJoined, SMTT(40)
  <2>8. m.num = 0 /\ Len(m.entries) < HalfSize /\ Positional(m) <= Len(m.entries)
        /\ Len(m.entries) \in Nat /\ HalfSize \in Nat
    BY <1>5, Answers, PositionalNodes, WordNat, MessageNodes DEF IsArgumentList
  <2>9. Positional(m) < HalfSize
    BY <1>4, <2>8
  <2>10. WantFor(m) = "call"
    BY <1>5 DEF WantFor
  <2>11. QED
    BY <1>5, <2>1, <2>7, <2>8, <2>9, <2>10 DEF after
<1>6. CASE m.op # "GoFunc"
  <2> DEFINE answers == Called(m.op).answers
  <2>1. m.op \in DOMAIN Entry /\ IsAnswer(m)
    BY <1>6, Answers
  <2>2. WantFor(m) = (IF m.op = "drainReleases" THEN "nothing" ELSE answers)
    BY <1>6, <2>1, WantIs DEF WantFor
  <2>3. Positional(m) = Len(m.entries) /\ after = Texts(m.texts)
        /\ Payload(m) = OkPayload(m)
    BY <1>6 DEF Positional, AfterNodes, Payload
  <2>4. SubSeq(Nodes(m), 1, Positional(m)) = Nodes(m)
    BY <2>3, MessageNodes, SubSeqFull
  <2>5. nodes = FlattenSeq(Nodes(m)) /\ PayloadNodes(m) = nodes \o after
    BY <2>4 DEF PayloadNodes
  <2>6. /\ answers = "i64" => m.num \in Int /\ IsInt64(m.num) /\ Counts(m, 0, 0)
        /\ answers = "bool" => m.num \in {0, 1} /\ Counts(m, 0, 0)
        /\ answers = "exists" => m.num \in {0, 1} /\ Counts(m, 1, 0)
        /\ answers = "text" => m.num = 0 /\ Counts(m, 0, 1)
        /\ answers = "node" => m.num = 0 /\ Counts(m, 1, 0)
        /\ answers = "eval" => m.num = 0 /\ Counts(m, 1, 2)
        /\ answers \in {"list", "items"} =>
             /\ m.num = 0 /\ Len(m.entries) < HalfSize /\ Len(m.texts) = 0
             /\ answers = "items" => Len(m.entries) % 2 = 0
        /\ answers = "empty" => m.num = 0 /\ Counts(m, 0, 0)
    BY <2>1 DEF IsAnswer
  <2>7. after \in Seq(Nat)
    BY <1>3, <2>3
  <2>8. /\ nodes \o after \in Seq(Nat)
        /\ (Len(m.texts) = 0 => after = <<>>)
        /\ (Len(m.entries) = 0 => nodes = <<>>)
    <3>1. Len(m.texts) = 0 => after = <<>>
      <4> SUFFICES ASSUME Len(m.texts) = 0 PROVE after = <<>>
        OBVIOUS
      <4>1. TextParts(m.texts) = <<>>
        BY <1>2, TextsParts, EmptySeq
      <4>2. Texts(m.texts) = FlattenSeq(<<>>)
        BY <1>2, <4>1, TextsParts
      <4>3. QED
        BY <2>3, <4>2, FlattenSmall
    <3>2. Len(m.entries) = 0 => nodes = <<>>
      <4> SUFFICES ASSUME Len(m.entries) = 0 PROVE nodes = <<>>
        OBVIOUS
      <4>1. Nodes(m) = <<>>
        BY MessageNodes, EmptySeq
      <4>2. QED
        BY <2>5, <4>1, FlattenSmall
    <3>3. QED
      BY <1>1, <2>7, <3>1, <3>2, Joined
  <2>9. /\ answers = "i64" =>
             OkPayload(m) = LittleEndian(m.num % WordSize, WordBytes)
        /\ answers = "bool" => OkPayload(m) = LittleEndian(m.num, 1)
        /\ answers = "exists" =>
             OkPayload(m) = LittleEndian(m.num, 1) \o FlattenSeq(Nodes(m))
        /\ answers \in {"list", "items"} => OkPayload(m) = encodeList(Nodes(m))
        /\ answers \in {"text", "node", "eval", "empty"} =>
             OkPayload(m) = FlattenSeq(Nodes(m)) \o Texts(m.texts)
    BY DEF OkPayload
  <2>10. encodeList(Nodes(m)) = LittleEndian(Positional(m), HalfBytes) \o nodes
    BY <2>3, <2>5, MessageNodes DEF encodeList
  <2>11. answers = "text" => FlattenSeq(Nodes(m)) \o Texts(m.texts) = LenBytes(m.texts[1])
    <3> SUFFICES ASSUME answers = "text"
                 PROVE  FlattenSeq(Nodes(m)) \o Texts(m.texts) = LenBytes(m.texts[1])
      OBVIOUS
    <3>1. Len(m.entries) = 0 /\ Len(m.texts) = 1
      BY <2>6 DEF Counts
    <3>2. LenBytes(m.texts[1]) \in Seq(Nat)
      BY <3>1, MessageTexts, PrefixedBytes, Sizes DEF LenBytes
    <3> DEFINE b == LenBytes(m.texts[1])
               p == TextParts(m.texts)
    <3>3. p \in Seq(Seq(Nat)) /\ Len(p) = 1 /\ p[1] = b /\ Texts(m.texts) = FlattenSeq(p)
      <4>1. 1 \in 1 .. Len(m.texts)
        BY <3>1
      <4>2. /\ p \in Seq(Seq(Nat)) /\ Len(p) = Len(m.texts)
            /\ \A i \in 1 .. Len(m.texts) : p[i] = LenBytes(m.texts[i])
            /\ Texts(m.texts) = FlattenSeq(p)
        BY <1>2, TextsParts
      <4>3. QED
        BY <3>1, <4>1, <4>2
    <3> HIDE DEF b, p
    <3>4. p = <<b>>
      BY <3>3
    <3>5. Texts(m.texts) = b
      BY <3>2, <3>3, <3>4, FlattenSmall DEF b
    <3>6. FlattenSeq(Nodes(m)) = <<>>
      BY <2>5, <2>8, <3>1
    <3>7. QED
      BY <3>2, <3>5, <3>6, ConcatEmptySeq DEF b
  <2>12. answers \in {"i64", "bool", "text", "node", "eval", "exists", "list",
                      "items", "empty"}
    BY <1>6, <2>1, WantIs DEF IsDecoded, NoEnvelope
  <2> HIDE DEF nodes, after, answers
  <2>13. \A s \in Seq(Nat) : s \o <<>> = s
    BY ConcatEmptySeq
  <2>14. /\ answers = "i64" => m.num % WordSize \in Nat
         /\ answers \in {"bool", "exists"} => m.num \in Nat
    BY <2>6, Int64ComesBack, WordNat
  <2>15. /\ answers \in {"bool", "exists"} => LittleEndian(m.num, 1) \in Seq(Nat)
         /\ LittleEndian(Positional(m), HalfBytes) \in Seq(Nat)
         /\ answers = "i64" =>
              LittleEndian(m.num % WordSize, WordBytes) \in Seq(Nat)
    BY <1>4, <2>14, LittleEndianBytes
  <2>16. answers \in {"exists", "list", "items"} => nodes \o after = nodes
    BY <1>1, <2>6, <2>8, <2>13 DEF Counts
  <2>17. PayloadNodes(m) \in Seq(Nat)
    BY <2>5, <2>8
  <2>18. answers = "text" => LenBytes(m.texts[1]) \in Seq(Nat)
    BY <2>6, MessageTexts, PrefixedBytes, Sizes DEF LenBytes, Counts
  <2>19. /\ answers = "exists" =>
              Payload(m) = LittleEndian(m.num, 1) \o PayloadNodes(m)
         /\ answers \in {"list", "items"} =>
              Payload(m) = LittleEndian(Positional(m), HalfBytes) \o PayloadNodes(m)
         /\ answers \in {"node", "eval", "empty"} => Payload(m) = PayloadNodes(m)
         /\ answers = "text" => Payload(m) = LenBytes(m.texts[1])
         /\ answers = "i64" =>
              Payload(m) = LittleEndian(m.num % WordSize, WordBytes)
         /\ answers = "bool" => Payload(m) = LittleEndian(m.num, 1)
    BY <2>3, <2>5, <2>9, <2>10, <2>11, <2>16
  <2>20. Payload(m) \in Seq(Nat)
    BY <2>12, <2>15, <2>17, <2>18, <2>19, Joined
  <2>21. answers \in {"list", "items"} => Positional(m) < HalfSize
    BY <2>3, <2>6
  <2> DEFINE want == WantFor(m)
  <2>22. want = "nothing" \/ want = answers
    BY <2>2
  <2>23. /\ answers = "i64" => m.num \in Int /\ IsInt64(m.num)
         /\ answers \in {"bool", "exists"} => m.num \in {0, 1}
         /\ answers \in {"text", "node", "eval", "list", "items", "empty"} => m.num = 0
         /\ answers \in {"i64", "bool", "text", "empty"} => Len(m.entries) = 0
         /\ answers \in {"exists", "node", "eval"} => Len(m.entries) = 1
         /\ answers \in {"i64", "bool", "empty", "exists", "node", "list", "items"} =>
              Len(m.texts) = 0
         /\ answers = "text" => Len(m.texts) = 1
         /\ answers = "eval" => Len(m.texts) = 2
         /\ answers = "items" => Len(m.entries) % 2 = 0
    BY <2>6 DEF Counts
  <2> HIDE DEF want
  <2>24. /\ want = "i64" => m.num \in Int /\ IsInt64(m.num) /\
              Payload(m) = LittleEndian(m.num % WordSize, WordBytes)
         /\ want = "bool" => m.num \in {0, 1} /\
              Payload(m) = LittleEndian(m.num, 1)
         /\ want \in {"i64", "bool"} =>
              Len(m.entries) = 0 /\ Len(m.texts) = 0
         /\ want = "text" =>
              /\ Len(m.entries) = 0 /\ Len(m.texts) = 1 /\ m.num = 0
              /\ Payload(m) = LenBytes(m.texts[1])
         /\ want = "empty" =>
              Len(m.entries) = 0 /\ Len(m.texts) = 0 /\ m.num = 0
    BY <2>19, <2>22, <2>23
  <2>25. /\ want = "exists" =>
              /\ m.num \in {0, 1} /\ Len(m.entries) = 1 /\ Len(m.texts) = 0
              /\ Payload(m) = LittleEndian(m.num, 1) \o PayloadNodes(m)
         /\ want \in {"node", "eval"} =>
              /\ m.num = 0 /\ Len(m.entries) = 1
              /\ Len(m.texts) = IF want = "eval" THEN 2 ELSE 0
              /\ Payload(m) = PayloadNodes(m)
         /\ want \in {"list", "items", "call"} =>
              /\ m.num = 0 /\ Positional(m) < HalfSize
              /\ m.op # "GoFunc" => Len(m.texts) = 0
              /\ want = "items" => Len(m.entries) % 2 = 0
              /\ Payload(m) = LittleEndian(Positional(m), HalfBytes)
                                \o PayloadNodes(m)
    <3>1. want # "call"
      BY <2>12, <2>22
    <3>2. QED
      BY <2>19, <2>21, <2>22, <2>23, <3>1
  <2>26. QED
    BY <2>7, <2>17, <2>20, <2>24, <2>25 DEF after, want
<1>7. QED
  BY <1>5, <1>6

(* After the texts of an exception: its node, and the output. *)
RaisedRest(m) ==
  FlattenSeq(Nodes(m)) \o Texts(SubSeq(m.texts, 4, Len(m.texts)))

RaisedTexts(m) == SubSeq(m.texts, 1, 3)

(* An exit: the code, and the output. *)
ExitBytes(m) == LittleEndian(m.num % HalfSize, HalfBytes) \o Texts(m.texts)

LEMMA EvalWants ==
  ASSUME NEW m \in Messages, IsDecoded(m), m.op # "GoFunc"
  PROVE  /\ IsAnswer(m)
         /\ (IF Called(m.op).answers = "eval" THEN 2 ELSE 0)
              = (IF WantFor(m) = "eval" THEN 2 ELSE 0)
<1>1. m.op \in DOMAIN Entry /\ IsAnswer(m)
  BY Answers
<1>2. WantFor(m) = IF m.op = "drainReleases" THEN "nothing" ELSE Called(m.op).answers
  BY <1>1, WantIs DEF WantFor
<1>3. m.op = "drainReleases" => Called(m.op).answers # "eval"
  BY FourthRows DEF Export
<1>4. QED
  BY <1>1, <1>2, <1>3

LEMMA RaisedShape ==
  ASSUME NEW m \in Messages, IsDecoded(m), m.status = "raised"
  PROVE  /\ m.op # "GoFunc" /\ m.num = 0 /\ Len(m.entries) = 1
         /\ Len(m.texts) = 3 + IF WantFor(m) = "eval" THEN 2 ELSE 0
         /\ Vals(m)[1] = NoneValue \/ Vals(m)[1].kind = "object"
         /\ RaisedTexts(m) \in Seq(Seq(Nat)) /\ Len(RaisedTexts(m)) = 3
         /\ \A i \in 1 .. 3 : RaisedTexts(m)[i] = m.texts[i]
         /\ RaisedRest(m) \in Seq(Nat) /\ Texts(RaisedTexts(m)) \in Seq(Nat)
         /\ Full(m) = <<1>> \o (Texts(RaisedTexts(m)) \o RaisedRest(m))
         /\ SubSeq(m.texts, 4, Len(m.texts)) \in Seq(Seq(Nat))
<1>1. m.op # "GoFunc"
  BY Answers DEF IsArgumentList
<1>2. IsAnswer(m)
  BY <1>1, EvalWants
<1> DEFINE outputs == IF Called(m.op).answers = "eval" THEN 2 ELSE 0
<1>3. /\ m.num = 0 /\ Counts(m, 1, 3 + outputs) /\ m.entries[1].as = "value"
      /\ m.entries[1].x = NoneValue \/ m.entries[1].x.kind = "object"
  BY <1>2 DEF IsAnswer
<1>4. Len(m.entries) = 1 /\ Len(m.texts) = 3 + outputs
  BY <1>3 DEF Counts
<1>5. Len(m.texts) = 3 + (IF WantFor(m) = "eval" THEN 2 ELSE 0)
  BY <1>1, <1>4, EvalWants
<1>6. Vals(m)[1] = Meaning(m.entries[1])
  BY <1>4, MessageNodes
<1>7. Vals(m)[1] = m.entries[1].x
  BY <1>3, <1>6 DEF Meaning
<1> HIDE DEF outputs
<1>8. Len(m.texts) \in {3, 5}
  BY <1>5
<1>9. m.texts \in Seq(Seq(Nat))
  BY MessageTexts
<1>10. /\ RaisedTexts(m) \in Seq(Seq(Nat)) /\ Len(RaisedTexts(m)) = 3
       /\ \A i \in 1 .. 3 : RaisedTexts(m)[i] = m.texts[i]
  <2> DEFINE k == Len(m.texts)
  <2>1. k \in {3, 5}
    BY <1>8
  <2> HIDE DEF k
  <2>2. 3 \in 0 .. k
    BY <2>1
  <2>3. 0 + 3 <= k /\ 0 \in Nat /\ 3 \in Nat /\ 0 + 1 = 1 /\ 0 + 3 = 3
        /\ \A i \in 1 .. 3 : 0 + i = i
    BY <2>1
  <2>4. /\ SubSeq(m.texts, 0 + 1, 0 + 3) \in Seq(Seq(Nat))
        /\ Len(SubSeq(m.texts, 0 + 1, 0 + 3)) = 3
        /\ \A i \in 1 .. 3 : SubSeq(m.texts, 0 + 1, 0 + 3)[i] = m.texts[0 + i]
    BY <1>9, <2>3, SomeOf DEF k
  <2>5. QED
    BY <2>3, <2>4 DEF RaisedTexts
<1> DEFINE b == SubSeq(m.texts, 4, Len(m.texts))
<1>11. b \in Seq(Seq(Nat))
  <2> DEFINE k == Len(m.texts)
             n == k - 3
  <2>1. k \in {3, 5}
    BY <1>8
  <2> HIDE DEF k
  <2>2. 3 \in Nat /\ n \in Nat /\ 3 + n <= k /\ 3 + n = k /\ 3 + 1 = 4
    BY <2>1
  <2> HIDE DEF n
  <2>3. SubSeq(m.texts, 3 + 1, 3 + n) \in Seq(Seq(Nat))
    BY <1>9, <2>2, SomeOf DEF k
  <2>4. QED
    BY <2>2, <2>3 DEF k
<1>12. FlattenSeq(Nodes(m)) \in Seq(Nat) /\ Texts(b) \in Seq(Nat)
       /\ Texts(RaisedTexts(m)) \in Seq(Nat)
  BY <1>10, <1>11, MessageNodes, Flattened, TextsParts
<1>13. RaisedRest(m) \in Seq(Nat) /\ RaisedRest(m) = FlattenSeq(Nodes(m)) \o Texts(b)
  BY <1>12, Joined DEF RaisedRest
<1>14. Full(m) = ((<<1>> \o Texts(RaisedTexts(m))) \o FlattenSeq(Nodes(m))) \o Texts(b)
  BY <1>1 DEF Full, GuestEnvelope, RaisedTexts
<1> HIDE DEF b
<1> DEFINE x == Texts(RaisedTexts(m))
           y == FlattenSeq(Nodes(m))
           z == Texts(b)
           one == <<1>>
<1>15. one \in Seq(Nat) /\ x \in Seq(Nat) /\ y \in Seq(Nat) /\ z \in Seq(Nat)
  BY <1>12
<1>16. Full(m) = ((one \o x) \o y) \o z /\ RaisedRest(m) = y \o z
  BY <1>13, <1>14
<1> HIDE DEF x, y, z, one
<1>17. Full(m) = one \o (x \o RaisedRest(m))
  <2> DEFINE J(s, t) == s \o t
  <2>1. \A s, t \in Seq(Nat) : J(s, t) \in Seq(Nat)
    BY JoinClosed
  <2>2. \A s, t, u \in Seq(Nat) : J(J(s, t), u) = J(s, J(t, u))
    BY JoinAssociative
  <2>3. Full(m) = J(J(J(one, x), y), z) /\ RaisedRest(m) = J(y, z)
    BY <1>16
  <2> HIDE DEF J
  <2>4. Full(m) = J(one, J(x, RaisedRest(m)))
    BY <1>15, <2>1, <2>2, <2>3
  <2>5. QED
    BY <2>4 DEF J
<1>18. QED
  BY <1>1, <1>3, <1>4, <1>5, <1>7, <1>10, <1>11, <1>12, <1>13, <1>17
     DEF one, x, b

LEMMA ExitShape ==
  ASSUME NEW m \in Messages, IsDecoded(m), m.status = "exit"
  PROVE  /\ m.op # "GoFunc" /\ Len(m.entries) = 0
         /\ m.num \in -(HalfSize \div 2) .. HalfSize \div 2 - 1
         /\ Len(m.texts) = IF WantFor(m) = "eval" THEN 2 ELSE 0
         /\ m.num % HalfSize \in Nat /\ m.num % HalfSize < HalfSize
         /\ Signed(m.num % HalfSize, HalfSize) = m.num
         /\ ExitBytes(m) \in Seq(Nat) /\ Texts(m.texts) \in Seq(Nat)
         /\ Full(m) = <<2>> \o ExitBytes(m)
<1>1. m.op # "GoFunc"
  BY Answers DEF IsArgumentList
<1>2. IsAnswer(m)
  BY <1>1, EvalWants
<1>3. /\ m.num \in -(HalfSize \div 2) .. HalfSize \div 2 - 1
      /\ Counts(m, 0, IF Called(m.op).answers = "eval" THEN 2 ELSE 0)
  BY <1>2 DEF IsAnswer
<1>4. Len(m.entries) = 0 /\ Len(m.texts) = IF WantFor(m) = "eval" THEN 2 ELSE 0
  BY <1>1, <1>3, EvalWants DEF Counts
<1>5. /\ m.num % HalfSize \in Nat /\ m.num % HalfSize < HalfSize
      /\ Signed(m.num % HalfSize, HalfSize) = m.num
  <2> DEFINE h == HalfSize \div 2
             n == m.num
  <2>1. HalfSize \in Nat \ {0} /\ HalfSize > 15
    BY HalfWord
  <2>2. h \in Nat /\ 2 * h <= HalfSize /\ HalfSize <= 2 * h + 1
    BY <2>1
  <2>3. n \in Int /\ -h <= n /\ n < h
    BY <1>3, <2>2
  <2>4. CASE n >= 0
    <3>1. n \in Nat /\ n < HalfSize
      BY <2>1, <2>2, <2>3, <2>4
    <3>2. n % HalfSize = n
      BY <2>1, <3>1, SmallRemainder
    <3>3. QED
      BY <2>3, <3>1, <3>2 DEF Signed
  <2>5. CASE n < 0
    <3>1. n + HalfSize \in 0 .. HalfSize - 1 /\ n + HalfSize >= h
      BY <2>1, <2>2, <2>3, <2>5
    <3>2. n % HalfSize = n + HalfSize
      BY <2>1, <2>3, <3>1
    <3>3. QED
      BY <2>1, <2>3, <3>1, <3>2 DEF Signed
  <2>6. QED
    BY <2>3, <2>4, <2>5
<1>6. LittleEndian(m.num % HalfSize, HalfBytes) \in Seq(Nat)
  BY <1>5, Sizes, LittleEndianBytes
<1>7. Texts(m.texts) \in Seq(Nat)
  BY MessageTexts, TextsParts
<1>8. ExitBytes(m) \in Seq(Nat)
  BY <1>6, <1>7, Joined DEF ExitBytes
<1>9. Full(m) = (<<2>> \o LittleEndian(m.num % HalfSize, HalfBytes)) \o Texts(m.texts)
  BY <1>1 DEF Full, GuestEnvelope
<1>10. Full(m) = <<2>> \o ExitBytes(m)
  BY <1>6, <1>7, <1>9, ThreeJoined, SMTT(40) DEF ExitBytes
<1>11. QED
  BY <1>1, <1>3, <1>4, <1>5, <1>7, <1>8, <1>10

LEMMA FullShape ==
  ASSUME NEW m \in Messages, IsDecoded(m)
  PROVE  /\ Full(m) \in Seq(Nat)
         /\ m.op = "GoFunc" => m.status = "ok" /\ Full(m) = Payload(m)
         /\ m.op # "GoFunc" /\ m.status = "ok" => Full(m) = <<0>> \o Payload(m)
<1>1. CASE m.op = "GoFunc"
  <2>1. m.status = "ok"
    BY <1>1, Answers DEF IsArgumentList
  <2>2. QED
    BY <1>1, <2>1, PayloadShape DEF Full, Payload
<1>2. CASE m.op # "GoFunc"
  <2>1. m.status \in {"ok", "raised", "exit"}
    BY Answers
  <2>2. CASE m.status = "ok"
    <3>1. Full(m) = <<0>> \o Payload(m)
      BY <1>2, <2>2 DEF Full, GuestEnvelope, Payload
    <3>2. QED
      BY <1>2, <2>2, <3>1, PayloadShape, Appended
  <2>3. CASE m.status = "raised"
    <3>1. Texts(RaisedTexts(m)) \o RaisedRest(m) \in Seq(Nat)
      BY <2>3, RaisedShape, Joined
    <3>2. Full(m) = <<1>> \o (Texts(RaisedTexts(m)) \o RaisedRest(m))
      BY <2>3, RaisedShape
    <3>3. 1 \in Nat
      OBVIOUS
    <3>4. Full(m) \in Seq(Nat)
      BY <3>1, <3>2, <3>3, Appended
    <3>5. QED
      BY <1>2, <2>3, <3>4
  <2>4. CASE m.status = "exit"
    BY <1>2, <2>4, ExitShape, Appended
  <2>5. QED
    BY <2>1, <2>2, <2>3, <2>4
<1>3. QED
  BY <1>1, <1>2

-----------------------------------------------------------------------------
(***************************************************************************)
(* A step of the nodeReader: how it goes on, ends, or fails.               *)
(***************************************************************************)

(* The values of at, and those of the status of an outcome. *)
Points == NodePhases \cup {"request", "error", "field", "done"}

Statuses == {"pending", "ok", "raised", "exit", "error", "malformed", "mistyped"}

(* An outcome as the actions make it. *)
Recorded(g) ==
  g = Outcome(g.status, g.vals, g.texts, g.num) /\ g.status \in Statuses

Types ==
  /\ sent \in Messages /\ whole \in BOOLEAN /\ left \in Nat
  /\ at \in Points /\ Recorded(got)

(* A state in which a nodeReader reads. *)
NodeState == Types /\ NodeInv /\ at \in NodePhases

LEMMA NodeFacts ==
  ASSUME NodeState
  PROVE  /\ sent \in Messages /\ whole \in BOOLEAN /\ left \in Nat /\ Recorded(got)
         /\ r \in NodeReaders /\ WantOf /\ Want = WantFor(sent)
         /\ whole => IsDecoded(sent) /\ r.data = Full(sent) /\ ~r.fail
         /\ ~OnTrack => ~whole
         /\ ~OnTrack => r.fail \/ (at = "envelope" /\ ~Need(r, 1))
         /\ OnTrack => /\ IsDecoded(sent) /\ ~r.fail
                       /\ Full(sent) \in Seq(Nat) /\ CutOf(r.data, Full(sent))
<1>1. sent \in Messages /\ whole \in BOOLEAN /\ left \in Nat /\ Recorded(got)
  BY DEF NodeState, Types
<1>2. /\ r \in NodeReaders /\ WantOf
      /\ IsDecoded(sent) => CutOf(r.data, Full(sent))
      /\ whole => IsDecoded(sent) /\ r.data = Full(sent) /\ ~r.fail
      /\ \/ r.fail \/ OnTrack
         \/ at = "envelope" /\ r.data = <<>> /\ r.pos = 0 /\ ~whole
  BY DEF NodeState, NodeInv
<1>3. r.data = <<>> /\ r.pos = 0 => ~Need(r, 1)
  BY DEF Need
<1>4. OnTrack => IsDecoded(sent) /\ ~r.fail
  BY DEF OnTrack
<1>5. Want = WantFor(sent)
  BY DEF Want, WantFor
<1>6. QED
  BY <1>1, <1>2, <1>3, <1>4, <1>5, FullShape

LEMMA NodeGoesOn ==
  ASSUME NodeState, UNCHANGED <<sent, whole>>, at' \in NodePhases, WantOf',
         r' \in NodeReaders, r'.data = r.data, whole => ~r'.fail,
         r'.fail \/ OnTrack'
  PROVE  NodeInv' /\ DoneInv'
<1>1. /\ IsDecoded(sent) => CutOf(r.data, Full(sent))
      /\ whole => IsDecoded(sent) /\ r.data = Full(sent)
      /\ ~IsDecoded(sent) => r.data = <<>>
  BY DEF NodeState, NodeInv
<1>2. /\ IsDecoded(sent') => CutOf(r'.data, Full(sent'))
      /\ whole' => IsDecoded(sent') /\ r'.data = Full(sent') /\ ~r'.fail
      /\ ~IsDecoded(sent') => r'.data = <<>>
  BY <1>1
<1>3. NodeInv'
  BY <1>2 DEF NodeInv
<1>4. at' # "done"
  BY DEF NodePhases
<1>5. QED
  BY <1>3, <1>4 DEF DoneInv

LEMMA NodeEnds ==
  ASSUME NodeState, UNCHANGED <<sent, whole>>, at' = "done",
         \/ got' = Expected(sent)
         \/ ~whole /\ got'.status = "malformed"
         \/ ~whole /\ r'.fail /\ ~Looked'
  PROVE  NodeInv' /\ DoneInv'
<1>1. at' \notin NodePhases
  BY DEF NodePhases
<1>2. NodeInv'
  BY <1>1 DEF NodeInv
<1>3. DoneInv'
  BY DEF DoneInv
<1>4. QED
  BY <1>2, <1>3

LEMMA MalformedEnds ==
  ASSUME NodeState, ~whole, NEW q, DoneMalformed(q)
  PROVE  NodeInv' /\ DoneInv'
<1>1. /\ at' = "done" /\ UNCHANGED <<sent, whole>>
      /\ got' = [Blank EXCEPT !.status = "malformed"]
  BY DEF DoneMalformed, Done
<1>2. got'.status = "malformed"
  BY <1>1 DEF Blank, Outcome
<1>3. QED
  BY <1>1, <1>2, NodeEnds

(* Once the flag is set, it stays set. *)
LEMMA Fails ==
  ASSUME NEW q \in NodeReaders, q.fail, NEW n \in Nat
  PROVE  /\ Past(q, n) \in NodeReaders /\ Past(q, n).data = q.data
         /\ Past(q, n).fail
         /\ ~Need(q, n) /\ Number(q, 0, n) = 0
<1>1. ~Need(q, n) /\ 0 + n = n
  BY DEF Need
<1>2. ~Need(q, 0 + n)
  BY <1>1
<1>3. Number(q, 0, n) = 0
  BY <1>2, NumberOfNothing
<1>4. QED
  BY <1>1, <1>3, PastBytes

(* What is read with the flag set. *)
LEMMA FailsOn ==
  ASSUME NEW q \in NodeReaders, q.fail
  PROVE  /\ PastText(q, 0, HalfBytes) \in NodeReaders
         /\ PastText(q, 0, HalfBytes).data = q.data
         /\ PastText(q, 0, HalfBytes).fail
         /\ DecodeNode(q).ok = FALSE
         /\ DecodeNode(PastText(q, 0, HalfBytes)).ok = FALSE
<1> DEFINE n == 0 + HalfBytes + Number(q, 0, HalfBytes)
           t == PastText(q, 0, HalfBytes)
<1>1. n \in Nat
  BY Sizes, NumberNat
<1>2. t = Past(q, n)
  BY DEF PastText
<1> HIDE DEF n
<1>3. t \in NodeReaders /\ t.data = q.data /\ t.fail
  BY <1>1, <1>2, Fails
<1>4. \A x \in NodeReaders : x.fail => DecodeNode(x).ok = FALSE
  <2> SUFFICES ASSUME NEW x \in NodeReaders, x.fail PROVE DecodeNode(x).ok = FALSE
    OBVIOUS
  <2>1. ~Need(x, 1)
    BY DEF Need
  <2>2. DecodeNode(x) = Malformed(Past(x, 1))
    BY <2>1 DEF DecodeNode
  <2>3. QED
    BY <2>2 DEF Malformed
<1> HIDE DEF t
<1>5. DecodeNode(q).ok = FALSE /\ DecodeNode(t).ok = FALSE
  BY <1>3, <1>4
<1>6. QED
  BY <1>3, <1>5 DEF t

LEMMA FullHeld ==
  ASSUME NEW full \in Seq(Nat)
  PROVE  Holds(full, 0, full)
BY DEF Holds

(* A byte and what follows it, where the reader is. *)
LEMMA ByteThere ==
  ASSUME NEW q \in NodeReaders, NEW full \in Seq(Nat), CutOf(q.data, full),
         NEW b \in Nat, NEW s \in Seq(Nat), Holds(full, q.pos, <<b>> \o s)
  PROVE  /\ Past(q, 1) \in NodeReaders /\ Past(q, 1).data = q.data
         /\ Past(q, 1).fail = ~Need(q, 1)
         /\ q.data = full /\ ~q.fail => Need(q, 1)
         /\ Need(q, 1) => /\ Number(q, 0, 1) = b /\ Past(q, 1).pos = q.pos + 1
                          /\ ~Past(q, 1).fail
         /\ Holds(full, q.pos + 1, s)
<1> DEFINE one == <<b>>
<1>1. one \in Seq(Nat) /\ Len(one) = 1 /\ q.pos \in Nat
  BY ReaderFields
<1>2. Holds(full, q.pos, one \o s)
  OBVIOUS
<1> HIDE DEF one
<1>3. Holds(full, q.pos, one)
  BY <1>1, <1>2, HoldsBoth
<1>4. /\ Past(q, 1) \in NodeReaders /\ Past(q, 1).data = q.data
      /\ Past(q, 1).fail = ~Need(q, 1)
      /\ ~Past(q, 1).fail => Past(q, 1).pos = q.pos + 1
      /\ q.data = full /\ ~q.fail => Need(q, 1)
  <2> DEFINE k == Len(one)
  <2>1. /\ Past(q, k) \in NodeReaders /\ Past(q, k).data = q.data
        /\ Past(q, k).fail = ~Need(q, k)
        /\ ~Past(q, k).fail => Past(q, k).pos = q.pos + k
        /\ q.data = full /\ ~q.fail => Need(q, k)
    BY <1>1, <1>3, GoesPast
  <2>2. k = 1
    BY <1>1
  <2> HIDE DEF k
  <2>3. QED
    BY <2>1, <2>2
<1>5. Need(q, 1) => Number(q, 0, 1) = b
  BY TagIs
<1>6. Holds(full, q.pos + 1, s)
  BY TagIs
<1>7. QED
  BY <1>4, <1>5, <1>6

LEMMA EnvelopeStep ==
  ASSUME NodeState, Envelope
  PROVE  NodeInv' /\ DoneInv'
<1>1. /\ sent \in Messages /\ whole \in BOOLEAN /\ r \in NodeReaders /\ WantOf
      /\ at = "envelope"
  BY NodeFacts DEF Envelope
<1>2. Past(r, 1) \in NodeReaders /\ Past(r, 1).data = r.data
      /\ Past(r, 1).fail = ~Need(r, 1)
  BY <1>1, PastBytes
<1>3. \A point \in {"payload", "raised", "exit"} :
        at' = point /\ sent' = sent => at' \in NodePhases /\ WantOf'
  BY <1>1 DEF WantOf, Want, NodePhases
<1>4. CASE ~Need(r, 1) /\ ~whole
  <2>1. Number(r, 0, 1) = 0
    BY <1>4, NumberOfNothing
  <2>2. GoOn("payload", Past(r, 1), 0)
    BY <2>1 DEF Envelope
  <2>3. /\ UNCHANGED <<sent, whole>> /\ at' = "payload" /\ r' = Past(r, 1)
    BY <2>2 DEF GoOn
  <2>4. at' \in NodePhases /\ WantOf'
    BY <1>3, <2>3
  <2>5. QED
    BY <1>2, <1>4, <2>3, <2>4, NodeGoesOn
<1>5. CASE OnTrack
  <2>1. IsDecoded(sent) /\ ~r.fail /\ Full(sent) \in Seq(Nat)
        /\ CutOf(r.data, Full(sent)) /\ (whole => r.data = Full(sent))
    BY <1>5, NodeFacts
  <2>2. r.pos = 0 /\ got = Blank /\ sent.op # "GoFunc"
    BY <1>1, <1>5 DEF OnTrack, EnvelopeTrack, WantOf
  <2>3. Holds(Full(sent), r.pos, Full(sent))
    BY <2>1, <2>2, FullHeld
  <2>4. ASSUME NEW b \in {0, 1, 2}, NEW s \in Seq(Nat),
               Full(sent) = <<b>> \o s, NEW point \in {"payload", "raised", "exit"},
               NEW n,
               Number(r, 0, 1) = b => GoOn(point, Past(r, 1), n) /\ UNCHANGED got,
               /\ Holds(Full(sent), 0 + 1, s) /\ at' = point /\ left' = n
               /\ got' = got /\ sent' = sent /\ r'.pos = 0 + 1 /\ ~r'.fail
               => OnTrack'
        PROVE  NodeInv' /\ DoneInv'
    <3>1. b \in Nat /\ Holds(Full(sent), r.pos, <<b>> \o s)
      BY <2>3, <2>4
    <3>2. /\ r.data = Full(sent) => Need(r, 1)
          /\ Need(r, 1) => /\ Number(r, 0, 1) = b
                           /\ Past(r, 1).pos = r.pos + 1 /\ ~Past(r, 1).fail
          /\ Holds(Full(sent), r.pos + 1, s)
      BY <1>1, <2>1, <3>1, ByteThere
    <3>3. CASE ~Need(r, 1)
      BY <1>4, <2>1, <3>2, <3>3
    <3>4. CASE Need(r, 1)
      <4>1. GoOn(point, Past(r, 1), n) /\ UNCHANGED got
        BY <2>4, <3>2, <3>4
      <4>2. /\ UNCHANGED <<sent, whole>> /\ at' = point /\ r' = Past(r, 1)
            /\ left' = n /\ got' = got
        BY <4>1 DEF GoOn
      <4>3. at' \in NodePhases /\ WantOf'
        BY <1>3, <4>2
      <4>4. OnTrack'
        BY <2>2, <2>4, <3>2, <3>4, <4>2
      <4>5. QED
        BY <1>2, <3>2, <3>4, <4>2, <4>3, <4>4, NodeGoesOn
    <3>5. QED
      BY <3>3, <3>4
  <2>5. CASE sent.status = "ok"
    <3>1. Full(sent) = <<0>> \o Payload(sent) /\ Payload(sent) \in Seq(Nat)
      BY <1>1, <2>1, <2>2, <2>5, FullShape, PayloadShape
    <3>2. Number(r, 0, 1) = 0 => GoOn("payload", Past(r, 1), 0) /\ UNCHANGED got
      BY DEF Envelope
    <3>3. /\ Holds(Full(sent), 0 + 1, Payload(sent)) /\ at' = "payload"
          /\ left' = 0 /\ got' = got /\ sent' = sent /\ r'.pos = 0 + 1 /\ ~r'.fail
          => OnTrack'
      BY <2>1, <2>2, <2>5 DEF OnTrack, PayloadTrack, Payload, Blank
    <3>4. QED
      BY <2>4, <3>1, <3>2, <3>3
  <2>6. CASE sent.status = "raised"
    <3> DEFINE s == Texts(RaisedTexts(sent)) \o RaisedRest(sent)
               parts == TextParts(RaisedTexts(sent))
    <3>1. /\ RaisedTexts(sent) \in Seq(Seq(Nat)) /\ RaisedRest(sent) \in Seq(Nat)
          /\ Texts(RaisedTexts(sent)) \in Seq(Nat) /\ Full(sent) = <<1>> \o s
      BY <1>1, <2>1, <2>6, RaisedShape
    <3>2. s \in Seq(Nat)
      BY <3>1, Joined
    <3>3. Number(r, 0, 1) = 1 => GoOn("raised", Past(r, 1), 3) /\ UNCHANGED got
      BY DEF Envelope
    <3>4. parts \in Seq(Seq(Nat)) /\ s = FlattenSeq(parts) \o RaisedRest(sent)
      BY <3>1, TextsParts
    <3> HIDE DEF s, parts
    <3>5. Holds(Full(sent), 0 + 1, s) =>
            Within(Full(sent), 0 + 1, parts, RaisedRest(sent), 0)
      <4>1. 0 + 1 \in Nat
        OBVIOUS
      <4>2. QED
        BY <2>1, <3>1, <3>4, <4>1, PartsBegin
    <3>6. SubSeq(sent.texts, 1, 3 - 3) = <<>>
      <4>1. 3 - 3 = 0
        OBVIOUS
      <4>2. SubSeq(sent.texts, 1, 0) = <<>>
        BY <1>1, MessageTexts, FirstOnes
      <4>3. QED
        BY <4>1, <4>2
    <3>7. ASSUME Holds(Full(sent), 0 + 1, s), at' = "raised", left' = 3,
                 got' = got, sent' = sent, r'.pos = 0 + 1, ~r'.fail
          PROVE  OnTrack'
      <4>1. Within(Full(sent), r'.pos, parts, RaisedRest(sent), 3 - left')
        BY <3>5, <3>7
      <4>2. left' \in 0 .. 3
            /\ got' = Outcome("pending", <<>>, SubSeq(sent.texts, 1, 3 - left'), 0)
        <5>1. left' \in 0 .. 3 /\ 3 - left' = 3 - 3
          BY <3>7
        <5>2. SubSeq(sent.texts, 1, 3 - left') = <<>>
          BY <3>6, <5>1
        <5>3. got' = Outcome("pending", <<>>, <<>>, 0)
          BY <2>2, <3>7 DEF Blank
        <5>4. QED
          BY <5>1, <5>2, <5>3
      <4>3. RaisedTrack'
        BY <2>6, <3>7, <4>1, <4>2 DEF RaisedTrack, RaisedTexts, RaisedRest, parts
      <4>4. QED
        BY <2>1, <3>7, <4>3 DEF OnTrack
    <3>8. QED
      BY <2>4, <3>1, <3>2, <3>3, <3>7
  <2>7. CASE sent.status = "exit"
    <3>1. Full(sent) = <<2>> \o ExitBytes(sent) /\ ExitBytes(sent) \in Seq(Nat)
      BY <1>1, <2>1, <2>7, ExitShape
    <3>2. Number(r, 0, 1) = 2 => GoOn("exit", Past(r, 1), 0) /\ UNCHANGED got
      BY DEF Envelope
    <3>3. /\ Holds(Full(sent), 0 + 1, ExitBytes(sent)) /\ at' = "exit"
          /\ left' = 0 /\ got' = got /\ sent' = sent /\ r'.pos = 0 + 1 /\ ~r'.fail
          => OnTrack'
      BY <2>1, <2>2, <2>7 DEF OnTrack, ExitTrack, ExitBytes
    <3>4. QED
      BY <2>4, <3>1, <3>2, <3>3
  <2>8. QED
    BY <1>1, <2>1, <2>5, <2>6, <2>7, Answers
<1>6. CASE ~OnTrack
  <2>1. ~whole /\ ~Need(r, 1)
    BY <1>6, NodeFacts DEF Need
  <2>2. QED
    BY <1>4, <2>1
<1>7. QED
  BY <1>5, <1>6

LEMMA TextThere ==
  ASSUME NEW q \in NodeReaders, NEW full \in Seq(Nat), CutOf(q.data, full),
         NEW s \in Seq(Nat), Len(s) < HalfSize, Holds(full, q.pos, LenBytes(s))
  PROVE  /\ PastText(q, 0, HalfBytes) \in NodeReaders
         /\ PastText(q, 0, HalfBytes).data = q.data
         /\ q.data = full /\ ~q.fail => ~PastText(q, 0, HalfBytes).fail
         /\ ~PastText(q, 0, HalfBytes).fail =>
              /\ Text(q, 0, HalfBytes) = s
              /\ PastText(q, 0, HalfBytes).pos = q.pos + Len(LenBytes(s))
<1> DEFINE n == Len(LenBytes(s))
           h == HalfBytes
           k == Len(s)
           size == TextSize(q, 0, h)
<1>1. h \in Nat /\ k \in Nat /\ k < Power[h] /\ n = h + k /\ q.pos \in Nat
      /\ LenBytes(s) \in Seq(Nat)
  BY Sizes, PrefixedBytes, ReaderFields DEF LenBytes, HalfSize
<1>2. Holds(full, q.pos + 0, Prefixed(s, h))
  <2>1. q.pos + 0 = q.pos
    BY <1>1
  <2>2. QED
    BY <2>1 DEF LenBytes
<1>3. /\ Need(q, 0 + h + k) => size = 0 + h + k /\ Text(q, 0, h) = s
      /\ ~Need(q, 0 + h + k) => ~Need(q, size)
  <2>1. 0 \in Nat
    OBVIOUS
  <2>2. QED
    BY <1>1, <1>2, <2>1, TextIs
<1>4. PastText(q, 0, h) = Past(q, size)
  BY DEF PastText, TextSize
<1>5. size \in Nat
  <2>1. Number(q, 0, h) \in Nat
    BY <1>1, NumberNat
  <2>2. QED
    BY <1>1, <2>1 DEF TextSize
<1>6. /\ Past(q, n).fail = ~Need(q, n)
      /\ q.data = full /\ ~q.fail => Need(q, n)
  BY <1>1, GoesPast
<1> HIDE DEF n, k, h, size
<1>7. 0 + h + k = n
  BY <1>1
<1>8. /\ Past(q, size) \in NodeReaders
      /\ Past(q, size).data = q.data
      /\ Past(q, size).fail = ~Need(q, size)
      /\ Past(q, size).pos = IF Need(q, size) THEN q.pos + size ELSE q.pos
  BY <1>5, PastBytes
<1>9. Need(q, n) => size = n /\ Text(q, 0, h) = s
  BY <1>3, <1>7
<1>10. ~Need(q, n) => ~Need(q, size)
  BY <1>3, <1>7
<1>11. QED
  BY <1>4, <1>6, <1>8, <1>9, <1>10 DEF n, h

(* Of the last texts of a message, and of the outcome so far, the next.    *)
LEMMA NextText ==
  ASSUME NEW ts \in Seq(Seq(Nat)), NEW a \in Nat, NEW n \in Nat,
         a + n <= Len(ts), NEW k \in 0 .. n - 1
  PROVE  /\ TextParts(SubSeq(ts, a + 1, a + n)) \in Seq(Seq(Nat))
         /\ k \in 0 .. Len(TextParts(SubSeq(ts, a + 1, a + n))) - 1
         /\ TextParts(SubSeq(ts, a + 1, a + n))[k + 1] = LenBytes(ts[a + k + 1])
         /\ a + k + 1 \in 1 .. Len(ts)
         /\ Append(SubSeq(ts, 1, a + k), ts[a + k + 1]) = SubSeq(ts, 1, a + k + 1)
<1> DEFINE b == SubSeq(ts, a + 1, a + n)
           m == Len(ts)
<1>1. /\ b \in Seq(Seq(Nat)) /\ Len(b) = n
      /\ \A i \in 1 .. n : b[i] = ts[a + i]
  BY SomeOf
<1> HIDE DEF b
<1>2. /\ TextParts(b) \in Seq(Seq(Nat)) /\ Len(TextParts(b)) = n
      /\ \A i \in 1 .. n : TextParts(b)[i] = LenBytes(b[i])
  BY <1>1, TextsParts
<1>3. m \in Nat
  OBVIOUS
<1> HIDE DEF m
<1>4. k + 1 \in 1 .. n /\ a + (k + 1) = a + k + 1 /\ a + k + 1 \in 1 .. m
      /\ a + k \in 0 .. m - 1 /\ k \in 0 .. n - 1
  BY <1>3 DEF m
<1>5. Append(SubSeq(ts, 1, a + k), ts[a + k + 1]) = SubSeq(ts, 1, a + k + 1)
  BY <1>4, FirstOnes DEF m
<1>6. TextParts(b)[k + 1] = LenBytes(ts[a + k + 1])
  BY <1>1, <1>2, <1>4, ZenonT(40)
<1>7. QED
  BY <1>2, <1>4, <1>5, <1>6 DEF b, m

LEMMA NodeThere ==
  ASSUME NEW q \in NodeReaders, NEW full \in Seq(Nat), CutOf(q.data, full),
         NEW node, NEW v, StandsFor(node, v), Holds(full, q.pos, node)
  PROVE  LET d == DecodeNode(q)
         IN  /\ d.r \in NodeReaders /\ d.r.data = q.data
             /\ q.data = full /\ ~q.fail => d.ok = TRUE /\ ~d.r.fail
             /\ ~d.r.fail => /\ d.ok = TRUE /\ d.v = v
                             /\ d.r.pos = q.pos + Len(node)
<1> DEFINE d == DecodeNode(q)
           n == Len(node)
<1>1. d.r \in NodeReaders /\ d.r.data = q.data
  BY DecodingIsTotal
<1>2. node \in Seq(Nat) /\ ReadsAs(q, v, n)
  BY DEF StandsFor
<1>3. /\ Need(q, n) => d.ok = TRUE /\ d.v = v /\ d.r = Past(q, n)
      /\ ~Need(q, n) => d.r.fail = TRUE
  BY <1>2 DEF ReadsAs
<1>4. /\ Past(q, n).fail = ~Need(q, n)
      /\ ~Past(q, n).fail => Past(q, n).pos = q.pos + n
      /\ q.data = full /\ ~q.fail => Need(q, n)
  BY <1>2, GoesPast
<1> HIDE DEF d, n
<1>5. /\ q.data = full /\ ~q.fail => d.ok = TRUE /\ ~d.r.fail
      /\ ~d.r.fail => d.ok = TRUE /\ d.v = v /\ d.r.pos = q.pos + n
  BY <1>3, <1>4
<1>6. QED
  BY <1>1, <1>5 DEF d, n

LEMMA ReadTextStep ==
  ASSUME NodeState, ReadText
  PROVE  NodeInv' /\ DoneInv'
<1> DEFINE t == PastText(r, 0, HalfBytes)
           w == Text(r, 0, HalfBytes)
<1>1. /\ sent \in Messages /\ whole \in BOOLEAN /\ r \in NodeReaders /\ WantOf
      /\ at \in {"raised", "output"} /\ left \in Nat /\ left > 0
      /\ at' = at /\ r' = t /\ left' = left - 1 /\ UNCHANGED <<sent, whole>>
      /\ got' = [got EXCEPT !.texts = Append(@, w)]
  BY NodeFacts DEF ReadText, GoOn
<1>2. at' \in NodePhases /\ WantOf'
  BY <1>1 DEF WantOf, Want, NodePhases
<1>4. CASE ~OnTrack
  <2>1. ~whole /\ r.fail
    BY <1>1, <1>4, NodeFacts
  <2>2. t \in NodeReaders /\ t.data = r.data /\ t.fail
    BY <1>1, <2>1, FailsOn
  <2> HIDE DEF t, w
  <2>3. QED
    BY <1>1, <1>2, <2>1, <2>2, NodeGoesOn
<1>5. CASE OnTrack
  <2> DEFINE full == Full(sent)
             ts == sent.texts
  <2>1. /\ IsDecoded(sent) /\ ~r.fail /\ full \in Seq(Nat) /\ CutOf(r.data, full)
        /\ whole => r.data = full
    BY <1>5, NodeFacts
  <2>2. /\ ts \in Seq(Seq(Nat)) /\ Len(ts) \in Nat
        /\ \A i \in 1 .. Len(ts) : ts[i] \in Seq(Nat) /\ Len(ts[i]) < HalfSize
    BY <1>1, MessageTexts
  (* b texts were read before these n, and k of them. *)
  <2>3. ASSUME NEW b \in Nat, NEW n \in Nat, b + n <= Len(ts), left \in 1 .. n,
               NEW rest \in Seq(Nat), NEW status, NEW vals, NEW num,
               got = Outcome(status, vals, SubSeq(ts, 1, b + (n - left)), num),
               Within(full, r.pos, TextParts(SubSeq(ts, b + 1, b + n)), rest,
                      n - left),
               /\ got' = Outcome(status, vals, SubSeq(ts, 1, b + (n - left')), num)
               /\ left' \in 0 .. n /\ sent' = sent /\ at' = at /\ ~r'.fail
               /\ Within(full, r'.pos, TextParts(SubSeq(ts, b + 1, b + n)), rest,
                         n - left')
               => OnTrack'
        PROVE  NodeInv' /\ DoneInv'
    <3> DEFINE k == n - left
               parts == TextParts(SubSeq(ts, b + 1, b + n))
               s == ts[b + k + 1]
    <3>1. k \in 0 .. n - 1 /\ n - (left - 1) = k + 1 /\ left - 1 \in 0 .. n
          /\ b + (k + 1) = b + k + 1
      <4>1. left \in 1 .. n
        BY <2>3
      <4> DEFINE l == left
      <4>2. l \in 1 .. n
        BY <4>1
      <4> HIDE DEF l
      <4>3. n - l \in 0 .. n - 1 /\ n - (l - 1) = (n - l) + 1 /\ l - 1 \in 0 .. n
            /\ b + ((n - l) + 1) = b + (n - l) + 1
        BY <4>2
      <4>4. QED
        BY <4>3 DEF l
    <3>2. Within(full, r.pos, parts, rest, k)
      BY <2>3
    <3> HIDE DEF k
    <3>3. /\ parts \in Seq(Seq(Nat)) /\ k \in 0 .. Len(parts) - 1
          /\ parts[k + 1] = LenBytes(s) /\ b + k + 1 \in 1 .. Len(ts)
          /\ Append(SubSeq(ts, 1, b + k), s) = SubSeq(ts, 1, b + k + 1)
      BY <2>2, <2>3, <3>1, NextText, ZenonT(40)
    <3>4. s \in Seq(Nat) /\ Len(s) < HalfSize
      BY <2>2, <3>3
    <3> HIDE DEF parts, s
    <3>5. /\ Holds(full, r.pos, LenBytes(s))
          /\ Within(full, r.pos + Len(LenBytes(s)), parts, rest, k + 1)
      BY <2>1, <3>2, <3>3, PartsGoOn
    <3>6. /\ t \in NodeReaders /\ t.data = r.data
          /\ r.data = full => ~t.fail
          /\ ~t.fail => w = s /\ t.pos = r.pos + Len(LenBytes(s))
      BY <1>1, <2>1, <3>4, <3>5, TextThere
    <3>7. got' = Outcome(status, vals, Append(SubSeq(ts, 1, b + k), w), num)
      BY <1>1, <2>3 DEF Outcome, k
    <3> HIDE DEF t, w, ts, full
    <3>8. ASSUME ~t.fail PROVE OnTrack'
      <4>1. n - left' = k + 1 /\ left' \in 0 .. n
        BY <1>1, <3>1
      <4>2. got' = Outcome(status, vals, SubSeq(ts, 1, b + (n - left')), num)
        BY <3>1, <3>3, <3>6, <3>7, <3>8, <4>1
      <4>3. Within(full, r'.pos, parts, rest, n - left')
        BY <1>1, <3>5, <3>6, <3>8, <4>1
      <4>4. QED
        BY <1>1, <2>3, <3>8, <4>1, <4>2, <4>3 DEF parts
    <3>9. QED
      BY <1>1, <1>2, <2>1, <3>6, <3>8, NodeGoesOn
  <2>4. CASE at = "raised"
    <3>1. RaisedTrack
      BY <1>5, <2>4 DEF OnTrack
    <3>2. sent.status = "raised" /\ left \in 0 .. 3
          /\ got = Outcome("pending", <<>>, SubSeq(ts, 1, 3 - left), 0)
          /\ Within(full, r.pos, TextParts(SubSeq(ts, 1, 3)), RaisedRest(sent),
                    3 - left)
      BY <3>1 DEF RaisedTrack, RaisedRest
    <3>3. RaisedRest(sent) \in Seq(Nat) /\ Len(ts) \in {3, 5}
      <4>1. Len(ts) = 3 + IF WantFor(sent) = "eval" THEN 2 ELSE 0
        BY <1>1, <2>1, <3>2, RaisedShape
      <4>2. QED
        BY <1>1, <2>1, <3>2, <4>1, RaisedShape
    <3>4. 0 + 3 <= Len(ts) /\ left \in 1 .. 3 /\ 0 + 1 = 1 /\ 0 + 3 = 3
          /\ 0 + (3 - left) = 3 - left
      <4> DEFINE n == Len(ts)
                 l == left
      <4>1. n \in {3, 5} /\ l \in 0 .. 3 /\ l > 0
        BY <1>1, <3>2, <3>3
      <4> HIDE DEF n, l
      <4>2. 0 + 3 <= n /\ l \in 1 .. 3 /\ 0 + 1 = 1 /\ 0 + 3 = 3
            /\ 0 + (3 - l) = 3 - l
        BY <4>1
      <4>3. QED
        BY <4>2 DEF n, l
    <3>5. ASSUME got' = Outcome("pending", <<>>, SubSeq(ts, 1, 0 + (3 - left')), 0),
                 left' \in 0 .. 3, sent' = sent, at' = at, ~r'.fail,
                 Within(full, r'.pos, TextParts(SubSeq(ts, 0 + 1, 0 + 3)),
                        RaisedRest(sent), 3 - left')
          PROVE  OnTrack'
      <4>1. 0 + (3 - left') = 3 - left'
        BY <3>5
      <4>2. RaisedTrack'
        BY <3>2, <3>4, <3>5, <4>1 DEF RaisedTrack, RaisedRest
      <4>3. QED
        BY <2>1, <2>4, <3>5, <4>2 DEF OnTrack
    <3> HIDE DEF t, w, ts, full
    <3>6. QED
      BY <2>3, <3>2, <3>3, <3>4, <3>5
  <2>5. CASE at = "output"
    <3> DEFINE b == Len(ts) - 2
    <3>1. OutputTrack
      BY <1>5, <2>5 DEF OnTrack
    <3>2. /\ left \in 0 .. 2 /\ Len(ts) >= 2
          /\ got = Outcome(sent.status, Vals(sent), SubSeq(ts, 1, Len(ts) - left),
                           sent.num)
          /\ Within(full, r.pos, TextParts(SubSeq(ts, Len(ts) - 1, Len(ts))), <<>>,
                    2 - left)
      BY <3>1 DEF OutputTrack
    <3>3. b \in Nat /\ b + 2 = Len(ts) /\ b + 1 = Len(ts) - 1 /\ left \in 1 .. 2
          /\ \A i \in Nat : b + (2 - i) = Len(ts) - i
      <4> DEFINE n == Len(ts)
      <4>1. n \in Nat /\ n >= 2 /\ left \in 1 .. 2
        BY <1>1, <2>2, <3>2
      <4> HIDE DEF n
      <4>2. n - 2 \in Nat /\ (n - 2) + 2 = n /\ (n - 2) + 1 = n - 1
            /\ \A i \in Nat : (n - 2) + (2 - i) = n - i
        BY <4>1
      <4>3. QED
        BY <4>1, <4>2 DEF n
    <3>4. <<>> \in Seq(Nat)
      OBVIOUS
    <3> HIDE DEF b
    <3>5. ASSUME got' = Outcome(sent.status, Vals(sent),
                                SubSeq(ts, 1, b + (2 - left')), sent.num),
                 left' \in 0 .. 2, sent' = sent, at' = at, ~r'.fail,
                 Within(full, r'.pos, TextParts(SubSeq(ts, b + 1, b + 2)), <<>>,
                        2 - left')
          PROVE  OnTrack'
      <4>1. b + (2 - left') = Len(ts) - left'
        BY <3>3, <3>5
      <4>2. OutputTrack'
        BY <3>2, <3>3, <3>5, <4>1 DEF OutputTrack
      <4>3. QED
        BY <2>1, <2>5, <3>5, <4>2 DEF OnTrack
    <3>6. /\ b + 2 <= Len(ts)
          /\ got = Outcome(sent.status, Vals(sent), SubSeq(ts, 1, b + (2 - left)),
                           sent.num)
          /\ Within(full, r.pos, TextParts(SubSeq(ts, b + 1, b + 2)), <<>>, 2 - left)
      BY <1>1, <2>2, <3>2, <3>3
    <3> HIDE DEF t, w, ts, full
    <3>7. QED
      BY <2>3, <3>3, <3>4, <3>5, <3>6
  <2>6. QED
    BY <1>1, <2>4, <2>5
<1>6. QED
  BY <1>4, <1>5

(* The outcome of m if all of it is read. *)
Sent(m) == Outcome(m.status, Vals(m), m.texts, m.num)

LEMMA ExpectedIs ==
  ASSUME NEW m \in Messages, WantFor(m) # "nothing",
         m.status = "ok" => WantFor(m) # "items",
         m.status = "ok" /\ m.op \in DOMAIN As => Accepts(m.op, Vals(m)[1])
  PROVE  Expected(m) = Sent(m)
<1>1. m.op \notin {"GoFunc"} => m.op \in DOMAIN Entry
  BY Answers
<1>2. m.op # "drainReleases"
  BY <1>1, WantIs DEF WantFor
<1>3. m.status = "ok" => m.op # "DictItemsOp"
  BY <1>1, WantIs DEF WantFor
<1>4. Vals(m) = [i \in DOMAIN m.entries |-> Meaning(m.entries[i])]
  BY DEF Vals
<1>5. QED
  BY <1>2, <1>3, <1>4 DEF Expected, Sent

(* Where eval's two outputs follow, they are the last texts.               *)
LEMMA AfterStatusStep ==
  ASSUME NodeState, OnTrack, sent.op # "GoFunc",
         NEW q \in NodeReaders, q.data = r.data, ~q.fail,
         LET n == Len(sent.texts)
         IN  /\ n >= IF Want = "eval" THEN 2 ELSE 0
             /\ AfterStatus(Outcome(sent.status, Vals(sent),
                                    SubSeq(sent.texts, 1,
                                           n - IF Want = "eval" THEN 2 ELSE 0),
                                    sent.num), q)
             /\ Want = "eval" =>
                  Holds(Full(sent), q.pos, Texts(SubSeq(sent.texts, n - 1, n))),
         Want # "eval" => Expected(sent) = Sent(sent)
  PROVE  NodeInv' /\ DoneInv'
<1> DEFINE ts == sent.texts
           n == Len(ts)
           full == Full(sent)
           outcome == Outcome(sent.status, Vals(sent),
                              SubSeq(ts, 1, n - IF Want = "eval" THEN 2 ELSE 0),
                              sent.num)
<1>1. /\ sent \in Messages /\ whole \in BOOLEAN /\ WantOf /\ IsDecoded(sent)
      /\ full \in Seq(Nat)
  BY NodeFacts
<1>2. ts \in Seq(Seq(Nat)) /\ n \in Nat
  BY <1>1, MessageTexts
<1>3. CASE Want = "eval"
  <2> DEFINE b == SubSeq(ts, n - 1, n)
             first == SubSeq(ts, 1, n - 2)
  <2>1. n >= 2 /\ Holds(full, q.pos, Texts(b))
        /\ outcome = Outcome(sent.status, Vals(sent), first, sent.num)
    BY <1>3
  <2>2. GoOn("output", q, 2) /\ got' = outcome
    BY <1>3 DEF AfterStatus
  <2>3. at' = "output" /\ r' = q /\ left' = 2 /\ UNCHANGED <<sent, whole>>
    BY <2>2 DEF GoOn
  <2>4. b \in Seq(Seq(Nat))
    <3> DEFINE k == n - 2
    <3>1. k \in Nat /\ k + 2 <= n /\ k + 1 = n - 1 /\ k + 2 = n /\ 2 \in Nat
      <4> HIDE DEF n
      <4>1. QED
        BY <1>2, <2>1
    <3> HIDE DEF k
    <3>2. SubSeq(ts, k + 1, k + 2) \in Seq(Seq(Nat))
      BY <1>2, <3>1, SomeOf
    <3>3. QED
      BY <3>1, <3>2
  <2>5. q.pos \in Nat /\ <<>> \in Seq(Nat)
    BY ReaderFields
  <2>6. TextParts(b) \in Seq(Seq(Nat)) /\ Texts(b) = FlattenSeq(TextParts(b))
        /\ Texts(b) \in Seq(Nat)
    BY <2>4, TextsParts
  <2>7. Texts(b) \o <<>> = Texts(b)
    BY <2>6, ConcatEmptySeq
  <2>8. Holds(full, q.pos, FlattenSeq(TextParts(b)) \o <<>>)
    BY <2>1, <2>6, <2>7
  <2>9. Within(full, q.pos, TextParts(b), <<>>, 0)
    <3> HIDE DEF b, full
    <3>1. QED
      BY <1>1, <2>5, <2>6, <2>8, PartsBegin
  <2>10. OutputTrack'
    <3>1. 2 - left' = 0 /\ left' \in 0 .. 2 /\ n - left' = n - 2
      BY <2>3
    <3>2. got' = Outcome(sent.status, Vals(sent), SubSeq(ts, 1, n - left'), sent.num)
      BY <2>1, <2>2, <3>1
    <3>3. Within(full, r'.pos, TextParts(b), <<>>, 2 - left')
      BY <2>3, <2>9, <3>1
    <3>4. QED
      BY <2>1, <2>3, <3>1, <3>2, <3>3 DEF OutputTrack
  <2>11. OnTrack'
    BY <1>1, <2>3, <2>10 DEF OnTrack
  <2>12. at' \in NodePhases /\ WantOf'
    BY <1>1, <1>3, <2>3 DEF WantOf, Want, NodePhases
  <2>13. QED
    BY <2>3, <2>11, <2>12, NodeGoesOn
<1>4. CASE Want # "eval"
  <2>1. n - 0 = n /\ SubSeq(ts, 1, n) = ts
    BY <1>2, FirstOnes
  <2>2. outcome = Sent(sent)
    BY <1>4, <2>1 DEF Sent
  <2>3. Done(outcome, q)
    BY <1>4 DEF AfterStatus
  <2>4. at' = "done" /\ got' = Expected(sent) /\ UNCHANGED <<sent, whole>>
    BY <1>4, <2>2, <2>3 DEF Done
  <2>5. QED
    BY <2>4, NodeEnds
<1>5. QED
  BY <1>3, <1>4

(* With the flag set, an outcome without a look at it comes after it.      *)
LEMMA AfterStatusFails ==
  ASSUME NodeState, ~whole, NEW q \in NodeReaders, q.data = r.data, q.fail,
         NEW outcome, AfterStatus(outcome, q),
         Want = "eval" => sent.op # "GoFunc",
         Want \notin {"i64", "bool", "text"} \/ outcome.status # "ok"
  PROVE  NodeInv' /\ DoneInv'
<1>1. WantOf
  BY NodeFacts
<1>2. CASE Want = "eval"
  <2>1. GoOn("output", q, 2)
    BY <1>2 DEF AfterStatus
  <2>2. at' = "output" /\ r' = q /\ UNCHANGED <<sent, whole>>
    BY <2>1 DEF GoOn
  <2>3. at' \in NodePhases /\ WantOf'
    BY <1>1, <1>2, <2>2 DEF WantOf, Want, NodePhases
  <2>4. QED
    BY <2>2, <2>3, NodeGoesOn
<1>3. CASE Want # "eval"
  <2>1. Done(outcome, q)
    BY <1>3 DEF AfterStatus
  <2>2. at' = "done" /\ r' = q /\ got' = outcome /\ UNCHANGED <<sent, whole>>
    BY <2>1 DEF Done
  <2>3. ~Looked'
    BY <1>3, <2>2 DEF Looked, Want
  <2>4. QED
    BY <2>2, <2>3, NodeEnds
<1>4. QED
  BY <1>2, <1>3

LEMMA OutputReadStep ==
  ASSUME NodeState, OutputRead
  PROVE  NodeInv' /\ DoneInv'
<1>1. /\ sent \in Messages /\ at = "output" /\ left = 0 /\ WantOf
      /\ Want = WantFor(sent)
  BY NodeFacts DEF OutputRead
<1>2. CASE r.fail
  <2>1. DoneMalformed(r)
    BY <1>2 DEF OutputRead
  <2>2. ~OnTrack
    BY <1>2, NodeFacts
  <2>3. QED
    BY <2>1, <2>2, NodeFacts, MalformedEnds
<1>3. CASE ~r.fail
  <2>1. OnTrack /\ OutputTrack
    BY <1>1, <1>3, NodeFacts DEF OnTrack
  <2>2. Want = "eval" /\ sent.op # "GoFunc"
    BY <1>1 DEF WantOf
  <2>3. sent.op \in DOMAIN Entry
    BY <1>1, <2>2, Answers
  <2>4. sent.op \notin DOMAIN As /\ Want = Decoder[sent.op]
    BY <1>1, <2>2, <2>3, WantIs DEF Want
  <2>5. Expected(sent) = Sent(sent)
    BY <1>1, <2>2, <2>4, ExpectedIs
  <2>6. Len(sent.texts) - left = Len(sent.texts)
        /\ SubSeq(sent.texts, 1, Len(sent.texts)) = sent.texts
    BY <1>1, MessageTexts, FirstOnes
  <2>7. got = Sent(sent)
    BY <2>1, <2>6 DEF OutputTrack, Sent
  <2>8. Done(got, r)
    BY <1>3 DEF OutputRead
  <2>9. at' = "done" /\ got' = Expected(sent) /\ UNCHANGED <<sent, whole>>
    BY <2>5, <2>7, <2>8 DEF Done
  <2>10. QED
    BY <2>9, NodeEnds
<1>4. QED
  BY <1>2, <1>3

LEMMA OneVal ==
  ASSUME NEW m \in Messages, Len(m.entries) = 1
  PROVE  /\ Vals(m) = <<Vals(m)[1]>>
         /\ FlattenSeq(Nodes(m)) = Nodes(m)[1] /\ Nodes(m)[1] \in Seq(Nat)
         /\ StandsFor(Nodes(m)[1], Vals(m)[1])
<1> DEFINE v == Vals(m)
           x == Nodes(m)
<1>1. PICK S : v \in Seq(S)
  BY MessageNodes
<1>2. Len(v) = 1 /\ x \in Seq(Seq(Nat)) /\ Len(x) = 1 /\ StandsFor(x[1], v[1])
  BY MessageNodes
<1> HIDE DEF v, x
<1>3. v = <<v[1]>> /\ x = <<x[1]>> /\ x[1] \in Seq(Nat)
  BY <1>1, <1>2
<1>4. FlattenSeq(x) = x[1]
  <2> DEFINE y == x[1]
  <2>1. x = <<y>> /\ y \in Seq(Nat)
    BY <1>3
  <2> HIDE DEF y
  <2>2. FlattenSeq(x) = y
    BY <2>1, FlattenSmall
  <2>3. QED
    BY <2>2 DEF y
<1>5. QED
  BY <1>2, <1>3, <1>4 DEF v, x

LEMMA RaisedStep ==
  ASSUME NodeState, Raised
  PROVE  NodeInv' /\ DoneInv'
<1> DEFINE node == DecodeNode(r)
           value == IF node.v.kind = "object" THEN node.v ELSE NoneValue
           outcome == [got EXCEPT !.status = "raised", !.vals = <<value>>]
<1>1. /\ sent \in Messages /\ r \in NodeReaders /\ WantOf /\ Want = WantFor(sent)
      /\ at = "raised" /\ left = 0 /\ Recorded(got)
  BY NodeFacts DEF Raised
<1>2. /\ r.fail \/ ~node.ok => DoneMalformed(node.r)
      /\ ~(r.fail \/ ~node.ok) => AfterStatus(outcome, node.r)
  BY DEF Raised
<1>3. CASE ~OnTrack
  <2>1. ~whole /\ r.fail
    BY <1>1, <1>3, NodeFacts
  <2>2. QED
    BY <1>2, <2>1, MalformedEnds
<1>4. CASE OnTrack
  <2> DEFINE full == Full(sent)
             ts == sent.texts
             b == SubSeq(ts, 4, Len(ts))
             x == Nodes(sent)[1]
             v == Vals(sent)[1]
  <2>1. /\ IsDecoded(sent) /\ ~r.fail /\ full \in Seq(Nat) /\ CutOf(r.data, full)
        /\ whole => r.data = full
    BY <1>4, NodeFacts
  <2>2. RaisedTrack
    BY <1>1, <1>4 DEF OnTrack
  <2>3. /\ sent.status = "raised" /\ 3 - left = 3
        /\ got = Outcome("pending", <<>>, SubSeq(ts, 1, 3), 0)
        /\ Within(full, r.pos, TextParts(RaisedTexts(sent)), RaisedRest(sent), 3)
    BY <1>1, <2>2 DEF RaisedTrack, RaisedTexts, RaisedRest
  <2>4. /\ sent.op # "GoFunc" /\ sent.num = 0 /\ Len(sent.entries) = 1
        /\ Len(ts) = 3 + IF WantFor(sent) = "eval" THEN 2 ELSE 0
        /\ v = NoneValue \/ v.kind = "object"
        /\ RaisedTexts(sent) \in Seq(Seq(Nat)) /\ Len(RaisedTexts(sent)) = 3
        /\ RaisedRest(sent) \in Seq(Nat) /\ b \in Seq(Seq(Nat))
    BY <1>1, <2>1, <2>3, RaisedShape
  <2>5. /\ Vals(sent) = <<v>> /\ x \in Seq(Nat) /\ StandsFor(x, v)
        /\ RaisedRest(sent) = x \o Texts(b) /\ Texts(b) \in Seq(Nat)
    BY <1>1, <2>4, OneVal, TextsParts DEF RaisedRest
  <2>6. r.pos \in Nat /\ Holds(full, r.pos, RaisedRest(sent))
    <3> DEFINE parts == TextParts(RaisedTexts(sent))
    <3>1. parts \in Seq(Seq(Nat)) /\ Len(parts) = 3
      BY <2>4, TextsParts
    <3> HIDE DEF parts, full
    <3>2. Within(full, r.pos, parts, RaisedRest(sent), Len(parts))
      BY <2>3, <3>1 DEF parts, full
    <3>3. QED
      BY <2>1, <2>4, <3>1, <3>2, PartsEnd DEF full
  <2> HIDE DEF full, b, x, v
  <2>7. Holds(full, r.pos, x) /\ Holds(full, r.pos + Len(x), Texts(b))
    BY <2>1, <2>5, <2>6, HoldsBoth
  <2>8. /\ node.r \in NodeReaders /\ node.r.data = r.data
        /\ r.data = full => ~node.r.fail
        /\ ~node.r.fail => /\ node.ok = TRUE /\ node.v = v
                           /\ node.r.pos = r.pos + Len(x)
    BY <1>1, <2>1, <2>5, <2>7, NodeThere
  <2>9. outcome = Outcome("raised", <<value>>, SubSeq(ts, 1, 3), 0)
    <3> DEFINE w == SubSeq(ts, 1, 3)
               vals == <<value>>
    <3>1. got = Outcome("pending", <<>>, w, 0)
      BY <2>3
    <3> HIDE DEF w, value, node, vals
    <3>2. [got EXCEPT !.status = "raised", !.vals = vals]
            = Outcome("raised", vals, w, 0)
      <4> DEFINE g == [got EXCEPT !.status = "raised"]
      <4>1. g = Outcome("raised", <<>>, w, 0)
        BY <3>1 DEF Outcome
      <4>2. [got EXCEPT !.status = "raised", !.vals = vals] = [g EXCEPT !.vals = vals]
        BY <3>1 DEF Outcome
      <4> HIDE DEF g
      <4>3. [g EXCEPT !.vals = vals] = Outcome("raised", vals, w, 0)
        BY <4>1 DEF Outcome
      <4>4. QED
        BY <4>2, <4>3
    <3>3. QED
      BY <3>2 DEF w, vals
  <2> HIDE DEF node
  <2>10. CASE node.r.fail
    <3>1. ~whole
      BY <2>1, <2>8, <2>10
    <3>2. outcome.status = "raised"
      BY <2>9 DEF Outcome
    <3> HIDE DEF outcome
    <3>3. CASE ~node.ok
      BY <1>2, <3>1, <3>3, MalformedEnds
    <3>4. CASE node.ok
      <4>1. AfterStatus(outcome, node.r)
        BY <1>2, <2>1, <3>4
      <4>2. outcome.status # "ok"
        BY <3>2
      <4>3. QED
        BY <2>4, <2>8, <2>10, <3>1, <4>1, <4>2, AfterStatusFails
    <3>5. QED
      BY <3>3, <3>4
  <2>11. CASE ~node.r.fail
    <3> DEFINE n == Len(ts)
               e == IF Want = "eval" THEN 2 ELSE 0
    <3>1. node.ok = TRUE /\ node.v = v /\ node.r.pos = r.pos + Len(x)
      BY <2>8, <2>11
    <3>2. value = v
      <4>1. value = IF v.kind = "object" THEN v ELSE NoneValue
        BY <3>1
      <4> HIDE DEF value
      <4>2. QED
        BY <2>4, <4>1
    <3>3. n = 3 + e /\ e \in {0, 2} /\ n - e = 3 /\ (Want = "eval" => n - 1 = 4)
      BY <1>1, <2>4
    <3> HIDE DEF e
    <3>4. outcome = Outcome(sent.status, Vals(sent), SubSeq(ts, 1, n - e), sent.num)
      BY <2>3, <2>4, <2>5, <2>9, <3>2, <3>3
    <3>5. AfterStatus(outcome, node.r)
      BY <1>2, <2>1, <3>1
    <3>6. Want = "eval" => Holds(full, node.r.pos, Texts(SubSeq(ts, n - 1, n)))
      BY <2>7, <3>1, <3>3 DEF b
    <3>7. n >= e
      BY <3>3
    <3>8. Want # "nothing" /\ sent.status # "ok"
      BY <1>1, <2>3 DEF WantOf
    <3>9. Expected(sent) = Sent(sent)
      BY <1>1, <3>8, ExpectedIs
    <3> HIDE DEF outcome
    <3>10. AfterStatus(Outcome(sent.status, Vals(sent), SubSeq(ts, 1, n - e), sent.num),
                      node.r)
      BY <3>4, <3>5
    <3> DEFINE q == node.r
    <3>11. q \in NodeReaders /\ q.data = r.data /\ ~q.fail
      BY <2>8, <2>11
    <3>12. AfterStatus(Outcome(sent.status, Vals(sent), SubSeq(ts, 1, n - e), sent.num), q)
           /\ (Want = "eval" => Holds(full, q.pos, Texts(SubSeq(ts, n - 1, n))))
      BY <3>6, <3>10
    <3> HIDE DEF q
    <3>13. QED
      BY <1>4, <2>4, <3>7, <3>9, <3>11, <3>12, AfterStatusStep DEF e, full
  <2>12. QED
    BY <2>10, <2>11
<1>5. QED
  BY <1>3, <1>4

LEMMA ExitStep ==
  ASSUME NodeState, Exit
  PROVE  NodeInv' /\ DoneInv'
<1> DEFINE q == Past(r, HalfBytes)
           code == Signed(Number(r, 0, HalfBytes), HalfSize)
           outcome == Outcome("exit", <<>>, <<>>, code)
<1>1. /\ sent \in Messages /\ r \in NodeReaders /\ WantOf /\ Want = WantFor(sent)
      /\ at = "exit" /\ AfterStatus(outcome, q)
  BY NodeFacts DEF Exit
<1>2. sent.op # "GoFunc" /\ outcome.status = "exit"
  BY <1>1 DEF WantOf, Outcome
<1>3. /\ q \in NodeReaders /\ q.data = r.data /\ q.fail = ~Need(r, HalfBytes)
      /\ q.pos = IF Need(r, HalfBytes) THEN r.pos + HalfBytes ELSE r.pos
      /\ HalfBytes \in Nat /\ r.pos \in Nat
  BY <1>1, Sizes, PastBytes, ReaderFields
<1>4. CASE ~whole /\ q.fail
  <2> HIDE DEF q, outcome
  <2>1. QED
    BY <1>1, <1>2, <1>3, <1>4, AfterStatusFails
<1>5. CASE ~OnTrack
  <2>1. ~whole /\ r.fail
    BY <1>1, <1>5, NodeFacts
  <2>2. q.fail
    BY <1>3, <2>1 DEF Need
  <2>3. QED
    BY <1>4, <2>1, <2>2
<1>6. CASE OnTrack
  <2> DEFINE full == Full(sent)
             ts == sent.texts
             u == sent.num % HalfSize
             s == LittleEndian(u, HalfBytes)
             n == Len(ts)
             e == IF Want = "eval" THEN 2 ELSE 0
  <2>1. /\ IsDecoded(sent) /\ ~r.fail /\ full \in Seq(Nat) /\ CutOf(r.data, full)
        /\ whole => r.data = full
    BY <1>6, NodeFacts
  <2>2. ExitTrack
    BY <1>1, <1>6 DEF OnTrack
  <2>3. /\ sent.status = "exit" /\ Holds(full, r.pos, s \o Texts(ts))
    BY <2>2 DEF ExitTrack
  <2>4. /\ Len(sent.entries) = 0 /\ n = e
        /\ u \in Nat /\ u < HalfSize /\ Signed(u, HalfSize) = sent.num
        /\ Texts(ts) \in Seq(Nat)
    BY <1>1, <2>1, <2>3, ExitShape
  <2>5. s \in Seq(Nat) /\ Len(s) = HalfBytes
    BY <1>3, <2>4, LittleEndianBytes
  <2>6. Holds(full, r.pos, s) /\ Holds(full, r.pos + HalfBytes, Texts(ts))
    <3> HIDE DEF s, full
    <3>1. Holds(full, r.pos, s) /\ Holds(full, r.pos + Len(s), Texts(ts))
      BY <1>3, <2>1, <2>3, <2>4, <2>5, HoldsBoth
    <3>2. QED
      BY <2>5, <3>1
  <2>7. whole => Need(r, HalfBytes)
    <3> HIDE DEF s, full
    <3>1. r.data = full /\ ~r.fail => Need(r, Len(s))
      BY <1>1, <2>1, <2>5, <2>6, GoesPast
    <3>2. QED
      BY <2>1, <2>5, <3>1
  <2>8. CASE ~Need(r, HalfBytes)
    BY <1>3, <1>4, <2>7, <2>8
  <2>9. CASE Need(r, HalfBytes)
    <3>1. Number(r, 0, HalfBytes) = u
      <4> HIDE DEF u, full
      <4>1. 0 \in Nat /\ r.pos + 0 = r.pos /\ 0 + HalfBytes = HalfBytes
            /\ u < Power[HalfBytes]
        BY <1>3, <2>4 DEF HalfSize
      <4>2. Holds(full, r.pos + 0, LittleEndian(u, HalfBytes)) /\ Need(r, 0 + HalfBytes)
        BY <2>6, <2>9, <4>1
      <4>3. QED
        BY <1>1, <1>3, <2>1, <2>4, <4>1, <4>2, NumberIs
    <3>2. code = sent.num
      BY <2>4, <3>1
    <3>3. ts \in Seq(Seq(Nat)) /\ SubSeq(ts, 1, 0) = <<>> /\ SubSeq(ts, 1, n) = ts
      BY <1>1, MessageTexts, FirstOnes
    <3>4. Vals(sent) = <<>>
      <4>1. PICK S : Vals(sent) \in Seq(S)
        BY <1>1, MessageNodes
      <4>2. Len(Vals(sent)) = 0
        BY <1>1, <2>4, MessageNodes
      <4>3. QED
        BY <4>1, <4>2, EmptySeq
    <3>5. n >= e /\ n - e = 0 /\ e \in {0, 2}
      BY <2>4
    <3>6. outcome = Outcome(sent.status, Vals(sent), SubSeq(ts, 1, n - e), sent.num)
      BY <2>3, <3>2, <3>3, <3>4, <3>5
    <3>7. Want = "eval" => Holds(full, q.pos, Texts(SubSeq(ts, n - 1, n)))
      <4> SUFFICES ASSUME Want = "eval"
                   PROVE  Holds(full, q.pos, Texts(SubSeq(ts, n - 1, n)))
        OBVIOUS
      <4>1. n = 2 /\ n - 1 = 1
        BY <2>4
      <4>2. SubSeq(ts, n - 1, n) = ts
        BY <3>3, <4>1
      <4>3. q.pos = r.pos + HalfBytes
        BY <1>3, <2>9
      <4> HIDE DEF q, full
      <4>4. QED
        BY <2>6, <4>2, <4>3
    <3>8. Want # "nothing" /\ sent.status # "ok"
      BY <1>1, <2>3 DEF WantOf
    <3>9. Expected(sent) = Sent(sent)
      BY <1>1, <3>8, ExpectedIs
    <3>10. ~q.fail /\ q \in NodeReaders /\ q.data = r.data
      BY <1>3, <2>9
    <3>11. AfterStatus(Outcome(sent.status, Vals(sent), SubSeq(ts, 1, n - e), sent.num), q)
      BY <1>1, <3>6
    <3> HIDE DEF q, outcome
    <3>12. QED
      BY <1>2, <1>6, <3>5, <3>7, <3>9, <3>10, <3>11, AfterStatusStep
  <2>10. QED
    BY <2>8, <2>9
<1>7. QED
  BY <1>5, <1>6

LEMMA NumberThere ==
  ASSUME NEW q \in NodeReaders, NEW full \in Seq(Nat), CutOf(q.data, full),
         NEW u \in Nat, NEW w \in Nat, u < Power[w],
         Holds(full, q.pos, LittleEndian(u, w))
  PROVE  /\ Past(q, w) \in NodeReaders /\ Past(q, w).data = q.data
         /\ Past(q, w).fail = ~Need(q, w)
         /\ q.data = full /\ ~q.fail => Need(q, w)
         /\ Need(q, w) => Number(q, 0, w) = u /\ Past(q, w).pos = q.pos + w
<1> DEFINE s == LittleEndian(u, w)
<1>1. s \in Seq(Nat) /\ Len(s) = w
  BY LittleEndianBytes
<1>2. 0 \in Nat /\ q.pos + 0 = q.pos /\ 0 + w = w
  BY ReaderFields
<1>3. Need(q, w) => Number(q, 0, w) = u
  <2> SUFFICES ASSUME Need(q, w) PROVE Number(q, 0, w) = u
    OBVIOUS
  <2>1. Holds(full, q.pos + 0, LittleEndian(u, w)) /\ Need(q, 0 + w)
    BY <1>2
  <2>2. QED
    BY <1>2, <2>1, NumberIs
<1> HIDE DEF s
<1>4. q.data = full /\ ~q.fail => Need(q, w)
  <2>1. q.data = full /\ ~q.fail => Need(q, Len(s))
    BY <1>1, GoesPast DEF s
  <2>2. QED
    BY <1>1, <2>1
<1>5. /\ Past(q, w) \in NodeReaders
      /\ Past(q, w).data = q.data
      /\ Past(q, w).fail = ~Need(q, w)
      /\ Past(q, w).pos = IF Need(q, w) THEN q.pos + w ELSE q.pos
  BY PastBytes
<1>6. QED
  BY <1>3, <1>4, <1>5

LEMMA NoVals ==
  ASSUME NEW m \in Messages
  PROVE  /\ Len(m.entries) = 0 => Vals(m) = <<>>
         /\ Len(m.texts) = 0 => m.texts = <<>>
         /\ Len(m.texts) = 1 => m.texts = <<m.texts[1]>>
         /\ m.op \in DOMAIN As => WantFor(m) = "node"
<1>1. Len(m.entries) = 0 => Vals(m) = <<>>
  <2>1. PICK S : Vals(m) \in Seq(S)
    BY MessageNodes
  <2>2. Len(Vals(m)) = Len(m.entries)
    BY MessageNodes
  <2>3. QED
    BY <2>1, <2>2, EmptySeq
<1>2. /\ Len(m.texts) = 0 => m.texts = <<>>
      /\ Len(m.texts) = 1 => m.texts = <<m.texts[1]>>
  <2> DEFINE ts == m.texts
  <2>1. ts \in Seq(Seq(Nat))
    BY MessageTexts
  <2> HIDE DEF ts
  <2>2. QED
    BY <2>1 DEF ts
<1>3. m.op = "GoFunc" => m.op \notin DOMAIN As
  BY DEF As
<1>4. QED
  BY <1>1, <1>2, <1>3, Answers, WantIs DEF WantFor

LEMMA FlagOf ==
  ASSUME NEW n \in {0, 1}
  PROVE  n \in Nat /\ n < Power[1] /\ n = IF n # 0 THEN 1 ELSE 0
<1>1. Power[0 + 1] = ByteSize * Power[0] /\ Power[0] = 1 /\ ByteSize \in Nat
      /\ ByteSize > 9 /\ 0 + 1 = 1
  BY PowerStep, SizesAssumption
<1>2. Power[1] = ByteSize
  BY <1>1
<1>3. QED
  BY <1>1, <1>2

LEMMA PlainStep ==
  ASSUME NodeState, Plain
  PROVE  NodeInv' /\ DoneInv'
<1> DEFINE word == Signed(Number(r, 0, WordBytes), WordSize)
           flag == IF Number(r, 0, 1) # 0 THEN 1 ELSE 0
           text == Text(r, 0, HalfBytes)
           rest == CASE Want = "i64"  -> Past(r, WordBytes)
                     [] Want = "bool" -> Past(r, 1)
                     [] Want = "text" -> PastText(r, 0, HalfBytes)
           outcome == CASE Want = "i64"  -> Outcome("ok", <<>>, <<>>, word)
                        [] Want = "bool" -> Outcome("ok", <<>>, <<>>, flag)
                        [] Want = "text" -> Outcome("ok", <<>>, <<text>>, 0)
<1>1. /\ sent \in Messages /\ r \in NodeReaders /\ Want = WantFor(sent)
      /\ at = "payload" /\ Want \in {"i64", "bool", "text"}
      /\ rest.fail => DoneMalformed(rest)
      /\ ~rest.fail => Done(outcome, rest)
      /\ WordBytes \in Nat
  BY NodeFacts, Sizes DEF Plain
<1>2. /\ Want = "i64" => rest = Past(r, WordBytes) /\ outcome = Outcome("ok", <<>>, <<>>, word)
      /\ Want = "bool" => rest = Past(r, 1) /\ outcome = Outcome("ok", <<>>, <<>>, flag)
      /\ Want = "text" => rest = PastText(r, 0, HalfBytes)
                          /\ outcome = Outcome("ok", <<>>, <<text>>, 0)
  OBVIOUS
<1> HIDE DEF rest, outcome
<1>3. CASE ~OnTrack
  <2>1. ~whole /\ r.fail
    BY <1>1, <1>3, NodeFacts
  <2>2. Past(r, WordBytes).fail /\ Past(r, 1).fail /\ PastText(r, 0, HalfBytes).fail
    BY <1>1, <2>1, Fails, FailsOn
  <2>3. rest.fail
    BY <1>1, <1>2, <2>2
  <2>4. QED
    BY <1>1, <2>1, <2>3, MalformedEnds
<1>4. CASE OnTrack
  <2> DEFINE full == Full(sent)
  <2>1. /\ IsDecoded(sent) /\ ~r.fail /\ full \in Seq(Nat) /\ CutOf(r.data, full)
        /\ whole => r.data = full
    BY <1>4, NodeFacts
  <2>2. PayloadTrack
    BY <1>1, <1>4 DEF OnTrack
  <2>3. sent.status = "ok" /\ Holds(full, r.pos, Payload(sent))
    BY <2>2 DEF PayloadTrack, Payload
  <2>4. Want \notin {"nothing", "items", "node"}
    BY <1>1
  <2>5. Expected(sent) = Outcome("ok", Vals(sent), sent.texts, sent.num)
    BY <1>1, <2>3, <2>4, ExpectedIs, NoVals DEF Sent
  <2> HIDE DEF full
  <2>6. ASSUME whole => ~rest.fail, ~rest.fail => outcome = Expected(sent)
        PROVE  NodeInv' /\ DoneInv'
    <3>1. CASE rest.fail
      BY <1>1, <2>6, <3>1, MalformedEnds
    <3>2. CASE ~rest.fail
      <4>1. at' = "done" /\ got' = Expected(sent) /\ UNCHANGED <<sent, whole>>
        BY <1>1, <2>6, <3>2 DEF Done
      <4>2. QED
        BY <4>1, NodeEnds
    <3>3. QED
      BY <3>1, <3>2
  <2>7. CASE Want = "i64"
    <3> DEFINE u == sent.num % WordSize
    <3>1. /\ sent.num \in Int /\ IsInt64(sent.num)
          /\ Payload(sent) = LittleEndian(u, WordBytes)
          /\ Len(sent.entries) = 0 /\ Len(sent.texts) = 0
      BY <1>1, <2>1, <2>3, <2>7, PayloadShape
    <3>2. u \in Nat /\ u < Power[WordBytes] /\ Signed(u, WordSize) = sent.num
      BY <3>1, Int64ComesBack, WordNat
    <3>3. Expected(sent) = Outcome("ok", <<>>, <<>>, sent.num)
      BY <1>1, <2>5, <3>1, NoVals
    <3> HIDE DEF u
    <3>4. /\ Past(r, WordBytes).fail = ~Need(r, WordBytes)
          /\ r.data = full /\ ~r.fail => Need(r, WordBytes)
          /\ Need(r, WordBytes) => Number(r, 0, WordBytes) = u
      BY <1>1, <2>1, <2>3, <3>1, <3>2, NumberThere
    <3>5. whole => ~rest.fail
      BY <1>2, <2>1, <2>7, <3>4
    <3>6. ~rest.fail => word = sent.num
      BY <1>2, <2>7, <3>2, <3>4
    <3>7. QED
      BY <1>2, <2>6, <2>7, <3>3, <3>5, <3>6
  <2>8. CASE Want = "bool"
    <3> DEFINE u == sent.num
    <3>1. /\ u \in {0, 1} /\ Payload(sent) = LittleEndian(u, 1)
          /\ Len(sent.entries) = 0 /\ Len(sent.texts) = 0
      BY <1>1, <2>1, <2>3, <2>8, PayloadShape
    <3>2. u \in Nat /\ u < Power[1] /\ u = IF u # 0 THEN 1 ELSE 0
      BY <3>1, FlagOf
    <3>3. Expected(sent) = Outcome("ok", <<>>, <<>>, u)
      BY <1>1, <2>5, <3>1, NoVals
    <3> HIDE DEF u
    <3>4. /\ Past(r, 1).fail = ~Need(r, 1)
          /\ r.data = full /\ ~r.fail => Need(r, 1)
          /\ Need(r, 1) => Number(r, 0, 1) = u
      <4>1. 1 \in Nat
        OBVIOUS
      <4>2. QED
        BY <1>1, <2>1, <2>3, <3>1, <3>2, <4>1, NumberThere
    <3>5. whole => ~rest.fail
      BY <1>2, <2>1, <2>8, <3>4
    <3>6. ~rest.fail => flag = u
      BY <1>2, <2>8, <3>2, <3>4
    <3>7. QED
      BY <1>2, <2>6, <2>8, <3>3, <3>5, <3>6
  <2>9. CASE Want = "text"
    <3> DEFINE t == sent.texts[1]
    <3>1. /\ sent.num = 0 /\ Payload(sent) = LenBytes(t)
          /\ Len(sent.entries) = 0 /\ Len(sent.texts) = 1
      BY <1>1, <2>1, <2>3, <2>9, PayloadShape
    <3>2. t \in Seq(Nat) /\ Len(t) < HalfSize
      <4>1. 1 \in 1 .. Len(sent.texts)
        BY <3>1
      <4>2. QED
        BY <1>1, <4>1, MessageTexts
    <3>3. Expected(sent) = Outcome("ok", <<>>, <<t>>, 0)
      BY <1>1, <2>5, <3>1, NoVals
    <3> HIDE DEF t
    <3>4. /\ r.data = full /\ ~r.fail => ~PastText(r, 0, HalfBytes).fail
          /\ ~PastText(r, 0, HalfBytes).fail => text = t
      BY <1>1, <2>1, <2>3, <3>1, <3>2, TextThere
    <3>5. whole => ~rest.fail
      BY <1>2, <2>1, <2>9, <3>4
    <3>6. ~rest.fail => text = t
      BY <1>2, <2>9, <3>4
    <3>7. QED
      BY <1>2, <2>6, <2>9, <3>3, <3>5, <3>6
  <2>10. QED
    BY <1>1, <2>7, <2>8, <2>9
<1>5. QED
  BY <1>3, <1>4

LEMMA EmptyStep ==
  ASSUME NodeState, Empty
  PROVE  NodeInv' /\ DoneInv'
<1>1. /\ sent \in Messages /\ Want = WantFor(sent) /\ at = "payload" /\ Want = "empty"
      /\ Done(Outcome("ok", <<>>, <<>>, 0), r)
  BY NodeFacts DEF Empty
<1>2. /\ at' = "done" /\ got' = Outcome("ok", <<>>, <<>>, 0) /\ r' = r
      /\ UNCHANGED <<sent, whole>>
  BY <1>1 DEF Done
<1>3. CASE ~OnTrack
  <2>1. ~whole /\ r.fail
    BY <1>1, <1>3, NodeFacts
  <2>2. ~Looked'
    BY <1>1, <1>2 DEF Looked, Want
  <2>3. QED
    BY <1>2, <2>1, <2>2, NodeEnds
<1>4. CASE OnTrack
  <2>1. IsDecoded(sent) /\ PayloadTrack
    BY <1>1, <1>4 DEF OnTrack
  <2>2. sent.status = "ok"
    BY <2>1 DEF PayloadTrack
  <2>3. Len(sent.entries) = 0 /\ Len(sent.texts) = 0 /\ sent.num = 0
    BY <1>1, <2>1, <2>2, PayloadShape
  <2>4. Want \notin {"nothing", "items", "node"}
    BY <1>1
  <2>5. Expected(sent) = Outcome("ok", <<>>, <<>>, 0)
    BY <1>1, <2>2, <2>3, <2>4, ExpectedIs, NoVals DEF Sent
  <2>6. QED
    BY <1>2, <2>5, NodeEnds
<1>5. QED
  BY <1>3, <1>4

(* The nodes of a payload begin where the reader goes on. *)
LEMMA NodesBegin ==
  ASSUME sent \in Messages, IsDecoded(sent), sent.status = "ok",
         sent' = sent, at' = "nodes", left' = Positional(sent),
         got' = Outcome("ok", <<>>, <<>>, sent.num), ~r'.fail, r' \in NodeReaders,
         Holds(Full(sent), r'.pos, PayloadNodes(sent))
  PROVE  OnTrack'
<1> DEFINE n == Positional(sent)
           parts == SubSeq(Nodes(sent), 1, n)
           full == Full(sent)
<1>1. /\ n \in 0 .. Len(sent.entries) /\ parts \in Seq(Seq(Nat)) /\ Len(parts) = n
      /\ Len(sent.entries) \in Nat
  BY PositionalNodes, MessageNodes
<1>2. AfterNodes(sent) \in Seq(Nat) /\ full \in Seq(Nat)
  BY PayloadShape, FullShape
<1>3. r'.pos \in Nat
  BY ReaderFields
<1>4. Holds(full, r'.pos, FlattenSeq(parts) \o AfterNodes(sent))
  BY DEF PayloadNodes
<1>5. SubSeq(Vals(sent), 1, 0) = <<>>
  <2>1. PICK S : Vals(sent) \in Seq(S)
    BY MessageNodes
  <2>2. QED
    BY <2>1, FirstOnes
<1> HIDE DEF parts, full
<1>6. Within(full, r'.pos, parts, AfterNodes(sent), 0)
  BY <1>1, <1>2, <1>3, <1>4, PartsBegin
<1> HIDE DEF n
<1>7. n - left' = 0 /\ left' \in 0 .. n
  BY <1>1 DEF n
<1>8. got' = Outcome("ok", SubSeq(Vals(sent), 1, n - left'), <<>>, sent.num)
  BY <1>5, <1>7
<1>9. Within(full, r'.pos, parts, AfterNodes(sent), n - left')
  BY <1>6, <1>7
<1>10. NodesTrack'
  BY <1>7, <1>8, <1>9 DEF NodesTrack, n, parts, full
<1>11. QED
  BY <1>10 DEF OnTrack

LEMMA OneNodeStep ==
  ASSUME NodeState, OneNode
  PROVE  NodeInv' /\ DoneInv'
<1>1. /\ sent \in Messages /\ r \in NodeReaders /\ WantOf /\ Want = WantFor(sent)
      /\ at = "payload" /\ Want \in {"node", "eval"}
      /\ at' = "nodes" /\ r' = r /\ left' = 1 /\ UNCHANGED <<sent, whole>>
      /\ got' = [got EXCEPT !.status = "ok"]
  BY NodeFacts DEF OneNode, GoOn
<1>2. at' \in NodePhases /\ WantOf'
  BY <1>1 DEF WantOf, Want, NodePhases
<1>3. CASE ~OnTrack
  <2>1. ~whole /\ r.fail
    BY <1>1, <1>3, NodeFacts
  <2>2. QED
    BY <1>1, <1>2, <2>1, NodeGoesOn
<1>4. CASE OnTrack
  <2>1. IsDecoded(sent) /\ ~r.fail /\ PayloadTrack
    BY <1>1, <1>4 DEF OnTrack
  <2>2. sent.status = "ok" /\ got = Blank /\ Holds(Full(sent), r.pos, Payload(sent))
    BY <2>1 DEF PayloadTrack, Payload
  <2>3. /\ sent.num = 0 /\ Len(sent.entries) = 1 /\ Payload(sent) = PayloadNodes(sent)
    BY <1>1, <2>1, <2>2, PayloadShape
  <2>4. sent.op # "GoFunc"
    BY <1>1 DEF Want
  <2>5. Positional(sent) = 1
    BY <2>3, <2>4 DEF Positional
  <2>6. got' = Outcome("ok", <<>>, <<>>, 0)
    BY <1>1, <2>2 DEF Blank, Outcome
  <2>7. OnTrack'
    BY <1>1, <2>1, <2>2, <2>3, <2>5, <2>6, NodesBegin
  <2>8. QED
    BY <1>1, <1>2, <2>1, <2>7, NodeGoesOn
<1>5. QED
  BY <1>3, <1>4

LEMMA ExistsNodeStep ==
  ASSUME NodeState, ExistsNode
  PROVE  NodeInv' /\ DoneInv'
<1> DEFINE q == Past(r, 1)
           u == Number(r, 0, 1)
<1>1. /\ sent \in Messages /\ r \in NodeReaders /\ WantOf /\ Want = WantFor(sent)
      /\ at = "payload" /\ Want = "exists"
      /\ at' = "nodes" /\ r' = q /\ left' = 1 /\ UNCHANGED <<sent, whole>>
      /\ got' = Outcome("ok", <<>>, <<>>, IF u # 0 THEN 1 ELSE 0)
  BY NodeFacts DEF ExistsNode, GoOn
<1>2. at' \in NodePhases /\ WantOf'
  BY <1>1 DEF WantOf, Want, NodePhases
<1>3. q \in NodeReaders /\ q.data = r.data /\ q.fail = ~Need(r, 1)
      /\ q.pos = IF Need(r, 1) THEN r.pos + 1 ELSE r.pos
  BY <1>1, PastBytes
<1>4. CASE ~OnTrack
  <2>1. ~whole /\ q.fail
    BY <1>1, <1>3, <1>4, NodeFacts DEF Need
  <2> HIDE DEF q, u
  <2>2. QED
    BY <1>1, <1>2, <1>3, <2>1, NodeGoesOn
<1>5. CASE OnTrack
  <2> DEFINE full == Full(sent)
             n == sent.num
  <2>1. /\ IsDecoded(sent) /\ ~r.fail /\ PayloadTrack /\ full \in Seq(Nat)
        /\ CutOf(r.data, full) /\ (whole => r.data = full)
    BY <1>1, <1>5, NodeFacts DEF OnTrack
  <2>2. sent.status = "ok" /\ Holds(full, r.pos, Payload(sent))
    BY <2>1 DEF PayloadTrack, Payload
  <2>3. /\ n \in {0, 1} /\ Len(sent.entries) = 1
        /\ Payload(sent) = LittleEndian(n, 1) \o PayloadNodes(sent)
        /\ PayloadNodes(sent) \in Seq(Nat)
    BY <1>1, <2>1, <2>2, PayloadShape
  <2>4. sent.op # "GoFunc"
    BY <1>1 DEF Want
  <2>5. Positional(sent) = 1
    BY <2>3, <2>4 DEF Positional
  <2>6. n \in Nat /\ n < Power[1] /\ n = IF n # 0 THEN 1 ELSE 0
    BY <2>3, FlagOf
  <2>7. LittleEndian(n, 1) \in Seq(Nat) /\ Len(LittleEndian(n, 1)) = 1 /\ r.pos \in Nat
    <3>1. 1 \in Nat
      OBVIOUS
    <3>2. QED
      <4>1. n \in Nat
        BY <2>6
      <4> HIDE DEF n, u, q, full
      <4>2. LittleEndian(n, 1) \in Seq(Nat) /\ Len(LittleEndian(n, 1)) = 1
        BY <3>1, <4>1, LittleEndianBytes
      <4>3. QED
        BY <1>1, <4>2, ReaderFields
  <2> HIDE DEF q, u, full, n
  <2>8. Holds(full, r.pos, LittleEndian(n, 1))
        /\ Holds(full, r.pos + 1, PayloadNodes(sent))
    <3> DEFINE s == LittleEndian(n, 1)
    <3> HIDE DEF s
    <3>1. Holds(full, r.pos, s) /\ Holds(full, r.pos + Len(s), PayloadNodes(sent))
      BY <2>1, <2>2, <2>3, <2>7, HoldsBoth DEF s
    <3>2. QED
      BY <2>7, <3>1 DEF s
  <2>9. /\ r.data = full /\ ~r.fail => Need(r, 1)
        /\ Need(r, 1) => u = n
    <3>1. 1 \in Nat
      OBVIOUS
    <3>2. QED
      BY <1>1, <2>1, <2>6, <2>8, <3>1, NumberThere DEF u
  <2>10. ~q.fail => OnTrack'
    <3> SUFFICES ASSUME ~q.fail PROVE OnTrack'
      OBVIOUS
    <3>1. u = n /\ q.pos = r.pos + 1
      BY <1>3, <2>9
    <3>2. got' = Outcome("ok", <<>>, <<>>, sent.num)
      BY <1>1, <2>6, <3>1 DEF n
    <3>3. Holds(Full(sent), r'.pos, PayloadNodes(sent))
      BY <1>1, <2>8, <3>1 DEF full
    <3>4. ~r'.fail /\ r' \in NodeReaders /\ left' = Positional(sent)
      BY <1>1, <1>3, <2>5
    <3>5. QED
      BY <1>1, <2>1, <2>2, <3>2, <3>3, <3>4, NodesBegin
  <2>11. whole => ~q.fail
    BY <1>3, <2>1, <2>9
  <2>12. QED
    BY <1>1, <1>2, <1>3, <2>10, <2>11, NodeGoesOn
<1>6. QED
  BY <1>4, <1>5

LEMMA CountNodesStep ==
  ASSUME NodeState, CountNodes
  PROVE  NodeInv' /\ DoneInv'
<1> DEFINE h == HalfBytes
           q == Past(r, h)
           u == Number(r, 0, h)
<1>1. /\ sent \in Messages /\ r \in NodeReaders /\ WantOf /\ Want = WantFor(sent)
      /\ at = "payload" /\ Want \in {"list", "items", "call"} /\ h \in Nat
      /\ Need(r, h) => GoOn("nodes", q, u) /\ got' = [got EXCEPT !.status = "ok"]
      /\ ~Need(r, h) => DoneMalformed(q)
  BY NodeFacts, Sizes DEF CountNodes
<1>2. q \in NodeReaders /\ q.data = r.data /\ q.fail = ~Need(r, h)
      /\ q.pos = IF Need(r, h) THEN r.pos + h ELSE r.pos
  BY <1>1, PastBytes
<1>3. CASE ~OnTrack
  <2>1. ~whole /\ ~Need(r, h)
    BY <1>1, <1>3, NodeFacts DEF Need
  <2>2. QED
    BY <1>1, <2>1, MalformedEnds
<1>4. CASE OnTrack
  <2> DEFINE full == Full(sent)
             n == Positional(sent)
             s == LittleEndian(n, h)
  <2>1. /\ IsDecoded(sent) /\ ~r.fail /\ PayloadTrack /\ full \in Seq(Nat)
        /\ CutOf(r.data, full) /\ (whole => r.data = full)
    BY <1>1, <1>4, NodeFacts DEF OnTrack
  <2>2. sent.status = "ok" /\ got = Blank /\ Holds(full, r.pos, Payload(sent))
    BY <2>1 DEF PayloadTrack, Payload
  <2>3. /\ n < HalfSize /\ sent.num = 0
        /\ Payload(sent) = s \o PayloadNodes(sent)
        /\ PayloadNodes(sent) \in Seq(Nat)
    BY <1>1, <2>1, <2>2, PayloadShape
  <2>4. n \in Nat /\ n < Power[h]
    BY <1>1, <2>1, <2>2, <2>3, PositionalNodes, MessageNodes DEF HalfSize
  <2>5. s \in Seq(Nat) /\ Len(s) = h /\ r.pos \in Nat
    BY <1>1, <2>4, LittleEndianBytes, ReaderFields
  <2> HIDE DEF q, u, full, n, h
  <2>6. Holds(full, r.pos, s) /\ Holds(full, r.pos + h, PayloadNodes(sent))
    <3> HIDE DEF s
    <3>1. Holds(full, r.pos, s) /\ Holds(full, r.pos + Len(s), PayloadNodes(sent))
      BY <2>1, <2>2, <2>3, <2>5, HoldsBoth
    <3>2. QED
      BY <2>5, <3>1
  <2>7. /\ r.data = full /\ ~r.fail => Need(r, h)
        /\ Need(r, h) => Number(r, 0, h) = n
    BY <1>1, <2>1, <2>4, <2>6, NumberThere
  <2>8. CASE ~Need(r, h)
    BY <1>1, <2>1, <2>7, <2>8, MalformedEnds
  <2>9. CASE Need(r, h)
    <3>1. u = n /\ q.pos = r.pos + h /\ ~q.fail
      BY <1>2, <2>7, <2>9 DEF u
    <3>2. GoOn("nodes", q, u) /\ got' = [got EXCEPT !.status = "ok"]
      BY <1>1, <2>9
    <3>3. at' = "nodes" /\ r' = q /\ left' = u /\ UNCHANGED <<sent, whole>>
      BY <3>2 DEF GoOn
    <3>4. at' \in NodePhases /\ WantOf'
      BY <1>1, <3>3 DEF WantOf, Want, NodePhases
    <3>5. got' = Outcome("ok", <<>>, <<>>, sent.num)
      BY <2>2, <2>3, <3>2 DEF Blank, Outcome
    <3>6. Holds(Full(sent), r'.pos, PayloadNodes(sent)) /\ left' = Positional(sent)
          /\ r' \in NodeReaders /\ ~r'.fail
      BY <1>2, <2>6, <3>1, <3>3 DEF full, n
    <3>7. OnTrack'
      BY <1>1, <2>1, <2>2, <3>3, <3>5, <3>6, NodesBegin
    <3>8. QED
      BY <1>2, <3>1, <3>3, <3>4, <3>7, NodeGoesOn
  <2>10. QED
    BY <2>8, <2>9
<1>5. QED
  BY <1>3, <1>4

(* The outcome of a list of nodes whose values are vals. *)
ItemsExpected(m, vals) ==
  CASE m.status = "ok" /\ m.op = "DictItemsOp" ->
             Outcome("ok", Paired(vals), <<>>, 0)
    [] m.op = "drainReleases" -> Outcome("ok", <<>>, <<>>, 0)
    [] m.op \in DOMAIN As /\ m.status = "ok" /\ ~Accepts(m.op, vals[1]) ->
             Outcome("mistyped", <<>>, <<>>, 0)
    [] OTHER -> Outcome(m.status, vals, m.texts, m.num)

LEMMA ItemsAreExpected ==
  ASSUME NEW m, m.status = "ok", m.op = "DictItemsOp"
  PROVE  Expected(m) = Outcome("ok", Paired(Vals(m)), <<>>, 0)
<1>1. Expected(m) = ItemsExpected(m, Vals(m))
  BY DEF Expected, ItemsExpected, Vals
<1>2. "DictItemsOp" \notin DOMAIN As
  BY DEF As
<1> DEFINE vals == Vals(m)
           paired == Paired(vals)
<1>3. ItemsExpected(m, vals) =
        CASE m.status = "ok" /\ m.op = "DictItemsOp" ->
                   Outcome("ok", paired, <<>>, 0)
          [] m.op = "drainReleases" -> Outcome("ok", <<>>, <<>>, 0)
          [] m.op \in DOMAIN As /\ m.status = "ok" /\ ~Accepts(m.op, vals[1]) ->
                   Outcome("mistyped", <<>>, <<>>, 0)
          [] OTHER -> Outcome(m.status, vals, m.texts, m.num)
  BY DEF ItemsExpected
<1> HIDE DEF vals, paired
<1>4. m.op # "drainReleases" /\ ~(m.op \in DOMAIN As) /\ m.status = "ok" /\ m.op = "DictItemsOp"
  BY <1>2
<1>5. ItemsExpected(m, vals) = Outcome("ok", paired, <<>>, 0)
  BY <1>3, <1>4
<1>6. QED
  BY <1>1, <1>5 DEF vals, paired

LEMMA ReadNodeStep ==
  ASSUME NodeState, ReadNode
  PROVE  NodeInv' /\ DoneInv'
<1> DEFINE node == DecodeNode(r)
<1>1. /\ sent \in Messages /\ r \in NodeReaders /\ WantOf /\ left \in Nat
      /\ at = "nodes" /\ left > 0
      /\ node.ok => /\ GoOn("nodes", node.r, left - 1)
                    /\ got' = [got EXCEPT !.vals = Append(@, node.v)]
      /\ ~node.ok => DoneMalformed(node.r)
  BY NodeFacts DEF ReadNode
<1>2. node.r \in NodeReaders /\ node.r.data = r.data /\ (r.fail => node.r.fail)
  BY <1>1, DecodingIsTotal
<1>3. CASE ~OnTrack
  <2>1. ~whole /\ r.fail
    BY <1>1, <1>3, NodeFacts
  <2>2. node.ok = FALSE
    BY <1>1, <2>1, FailsOn
  <2>3. QED
    BY <1>1, <2>1, <2>2, MalformedEnds
<1>4. CASE OnTrack
  <2> DEFINE full == Full(sent)
             n == Positional(sent)
             parts == SubSeq(Nodes(sent), 1, n)
             k == n - left
             vs == Vals(sent)
             x == Nodes(sent)[k + 1]
  <2>1. /\ IsDecoded(sent) /\ ~r.fail /\ NodesTrack /\ full \in Seq(Nat)
        /\ CutOf(r.data, full) /\ (whole => r.data = full)
    BY <1>1, <1>4, NodeFacts DEF OnTrack
  <2>2. /\ sent.status = "ok" /\ left \in 0 .. n
        /\ got = Outcome("ok", SubSeq(vs, 1, k), <<>>, sent.num)
        /\ Within(full, r.pos, parts, AfterNodes(sent), k)
    BY <2>1 DEF NodesTrack
  <2>3. /\ n \in 0 .. Len(sent.entries) /\ parts \in Seq(Seq(Nat)) /\ Len(parts) = n
        /\ \A i \in 1 .. n : parts[i] = Nodes(sent)[i]
        /\ AfterNodes(sent) \in Seq(Nat) /\ Len(sent.entries) \in Nat
    BY <1>1, <2>1, <2>2, PositionalNodes, PayloadShape, MessageNodes
  <2>4. k \in 0 .. n - 1 /\ n - (left - 1) = k + 1 /\ left - 1 \in 0 .. n
        /\ k + 1 \in 1 .. n /\ k + 1 \in 1 .. Len(sent.entries)
        /\ k \in 0 .. Len(sent.entries) - 1
    <3> DEFINE l == left
               e == Len(sent.entries)
    <3>1. e \in Nat /\ n \in 0 .. e /\ l \in 0 .. n /\ l > 0 /\ k = n - l
      BY <1>1, <2>2, <2>3
    <3> HIDE DEF n, l, e, k
    <3>2. k \in 0 .. n - 1 /\ n - (l - 1) = k + 1 /\ l - 1 \in 0 .. n
          /\ k + 1 \in 1 .. n /\ k + 1 \in 1 .. e /\ k \in 0 .. e - 1
      BY <3>1
    <3>3. QED
      BY <3>2 DEF l, e
  <2>5. StandsFor(x, vs[k + 1])
    BY <1>1, <2>4, MessageNodes
  <2>6. Append(SubSeq(vs, 1, k), vs[k + 1]) = SubSeq(vs, 1, k + 1)
    <3>1. PICK S : vs \in Seq(S)
      BY <1>1, MessageNodes
    <3>2. Len(vs) = Len(sent.entries)
      BY <1>1, MessageNodes
    <3> HIDE DEF vs, k
    <3>3. QED
      BY <2>4, <3>1, <3>2, FirstOnes
  <2>7. parts[k + 1] = x
    BY <2>3, <2>4
  <2> HIDE DEF full, parts, k, x, n, vs
  <2>8. /\ Holds(full, r.pos, x)
        /\ Within(full, r.pos + Len(x), parts, AfterNodes(sent), k + 1)
    <3>1. k \in 0 .. Len(parts) - 1
      BY <2>3, <2>4
    <3>2. /\ Holds(full, r.pos, parts[k + 1])
          /\ Within(full, r.pos + Len(parts[k + 1]), parts, AfterNodes(sent), k + 1)
      BY <2>1, <2>2, <2>3, <3>1, PartsGoOn
    <3>3. QED
      BY <2>7, <3>2
  <2>9. /\ r.data = full => ~node.r.fail
        /\ ~node.r.fail => /\ node.ok = TRUE /\ node.v = vs[k + 1]
                           /\ node.r.pos = r.pos + Len(x)
    BY <1>1, <2>1, <2>5, <2>8, NodeThere
  <2> HIDE DEF node
  <2>10. CASE ~node.ok
    <3>1. ~whole
      BY <2>1, <2>9, <2>10
    <3>2. QED
      BY <1>1, <2>10, <3>1, MalformedEnds
  <2>11. CASE node.ok
    <3>1. /\ at' = "nodes" /\ r' = node.r /\ left' = left - 1
          /\ UNCHANGED <<sent, whole>>
          /\ got' = [got EXCEPT !.vals = Append(@, node.v)]
      BY <1>1, <2>11 DEF GoOn
    <3>2. at' \in NodePhases /\ WantOf'
      BY <1>1, <3>1 DEF WantOf, Want, NodePhases
    <3>3. ASSUME ~node.r.fail PROVE OnTrack'
      <4>1. got' = Outcome("ok", Append(SubSeq(vs, 1, k), node.v), <<>>, sent.num)
        BY <2>2, <3>1 DEF Outcome
      <4>2. n - left' = k + 1 /\ left' \in 0 .. n
        BY <2>4, <3>1
      <4>3. got' = Outcome("ok", SubSeq(vs, 1, n - left'), <<>>, sent.num)
        BY <2>6, <2>9, <3>3, <4>1, <4>2
      <4>4. Within(full, r'.pos, parts, AfterNodes(sent), n - left')
        BY <2>8, <2>9, <3>1, <3>3, <4>2
      <4>5. NodesTrack'
        BY <2>2, <3>1, <4>2, <4>3, <4>4 DEF NodesTrack, full, parts, n, vs
      <4>6. QED
        BY <2>1, <3>1, <3>3, <4>5 DEF OnTrack
    <3>4. QED
      BY <1>2, <2>1, <2>9, <3>1, <3>2, <3>3, NodeGoesOn
  <2>12. QED
    BY <2>10, <2>11
<1>5. QED
  BY <1>3, <1>4

LEMMA NodesReadFails ==
  ASSUME NodeState, NodesRead, r.fail
  PROVE  NodeInv' /\ DoneInv'
<1>1. /\ sent \in Messages /\ r \in NodeReaders /\ WantOf /\ ~whole
      /\ at = "nodes" /\ left = 0
      /\ Want \in {"node", "eval", "exists", "list", "items", "call"}
  BY NodeFacts DEF NodesRead, WantOf
<1>2. ASSUME NEW outcome, Done(outcome, r), Want # "eval"
      PROVE  NodeInv' /\ DoneInv'
  <2>1. at' = "done" /\ r' = r /\ UNCHANGED <<sent, whole>>
    BY <1>2 DEF Done
  <2>2. ~Looked'
    BY <1>1, <1>2, <2>1 DEF Looked, Want
  <2>3. QED
    BY <1>1, <2>1, <2>2, NodeEnds
<1>3. CASE Want = "call"
  <2>1. GoOn("keywords", r, 0)
    BY <1>3 DEF NodesRead
  <2>2. at' = "keywords" /\ r' = r /\ UNCHANGED <<sent, whole>>
    BY <2>1 DEF GoOn
  <2>3. at' \in NodePhases /\ WantOf'
    BY <1>1, <1>3, <2>2 DEF WantOf, Want, NodePhases
  <2>4. QED
    BY <1>1, <2>2, <2>3, NodeGoesOn
<1>4. CASE Want = "items"
  <2>1. DoneMalformed(r) \/ Done([got EXCEPT !.vals = Paired(@)], r)
    BY <1>4 DEF NodesRead
  <2>2. QED
    BY <1>1, <1>2, <1>4, <2>1, MalformedEnds
<1>5. CASE Want = "node" /\ ~Accepts(sent.op, got.vals[1])
  <2>1. Done(Outcome("mistyped", <<>>, <<>>, 0), r)
    BY <1>5 DEF NodesRead
  <2>2. QED
    BY <1>2, <1>5, <2>1
<1>6. CASE Want \notin {"call", "items"} /\ ~(Want = "node" /\ ~Accepts(sent.op, got.vals[1]))
  <2>1. AfterStatus(got, r)
    BY <1>6 DEF NodesRead
  <2>2. Want = "eval" => sent.op # "GoFunc"
    BY DEF Want
  <2>3. QED
    BY <1>1, <2>1, <2>2, AfterStatusFails
<1>7. QED
  BY <1>3, <1>4, <1>5, <1>6

LEMMA NodesReadStep ==
  ASSUME NodeState, NodesRead
  PROVE  NodeInv' /\ DoneInv'
<1>1. /\ sent \in Messages /\ r \in NodeReaders /\ WantOf /\ Want = WantFor(sent)
      /\ at = "nodes" /\ left = 0
      /\ Want \in {"node", "eval", "exists", "list", "items", "call"}
  BY NodeFacts DEF NodesRead, WantOf
<1>2. CASE ~OnTrack
  BY <1>1, <1>2, NodeFacts, NodesReadFails
<1>3. CASE OnTrack
  <2> DEFINE full == Full(sent)
             n == Positional(sent)
             parts == SubSeq(Nodes(sent), 1, n)
             vs == Vals(sent)
             ts == sent.texts
  <2>1. /\ IsDecoded(sent) /\ ~r.fail /\ NodesTrack /\ full \in Seq(Nat)
    BY <1>1, <1>3, NodeFacts DEF OnTrack
  <2>2. /\ n \in 0 .. Len(sent.entries) /\ parts \in Seq(Seq(Nat)) /\ Len(parts) = n
        /\ AfterNodes(sent) \in Seq(Nat)
    BY <1>1, <2>1, PositionalNodes, PayloadShape DEF NodesTrack
  <2>3. n - left = n
    <3> HIDE DEF n
    <3>1. QED
      BY <1>1, <2>2
  <2>4. /\ sent.status = "ok" /\ got = Outcome("ok", SubSeq(vs, 1, n), <<>>, sent.num)
        /\ Within(full, r.pos, parts, AfterNodes(sent), n)
    BY <2>1, <2>3 DEF NodesTrack
  <2>5. Holds(full, r.pos, AfterNodes(sent))
    <3> HIDE DEF full, parts, n
    <3>1. QED
      BY <2>1, <2>2, <2>4, PartsEnd
  <2>6. sent.op # "GoFunc" => /\ n = Len(sent.entries) /\ SubSeq(vs, 1, n) = vs
                              /\ AfterNodes(sent) = Texts(ts)
    <3> SUFFICES ASSUME sent.op # "GoFunc"
                 PROVE  /\ n = Len(sent.entries) /\ SubSeq(vs, 1, n) = vs
                        /\ AfterNodes(sent) = Texts(ts)
      OBVIOUS
    <3>1. n = Len(sent.entries) /\ AfterNodes(sent) = Texts(ts)
      BY DEF Positional, AfterNodes
    <3>2. PICK S : vs \in Seq(S)
      BY <1>1, MessageNodes
    <3>3. Len(vs) = n
      BY <1>1, <3>1, MessageNodes
    <3> HIDE DEF vs, n
    <3>4. QED
      BY <3>1, <3>2, <3>3, FirstOnes
  <2>7. CASE Want = "call"
    <3>1. GoOn("keywords", r, 0) /\ got' = got
      BY <2>7 DEF NodesRead
    <3>2. at' = "keywords" /\ r' = r /\ UNCHANGED <<sent, whole>> /\ got' = got
      BY <3>1 DEF GoOn
    <3>3. at' \in NodePhases /\ WantOf'
      BY <1>1, <2>7, <3>2 DEF WantOf, Want, NodePhases
    <3>4. sent.num = 0
      BY <1>1, <2>1, <2>4, <2>7, PayloadShape
    <3>5. KeywordsTrack'
      BY <2>4, <2>5, <3>2, <3>4 DEF KeywordsTrack
    <3>6. OnTrack'
      BY <2>1, <3>2, <3>5 DEF OnTrack
    <3>7. QED
      BY <1>1, <2>1, <3>2, <3>3, <3>6, NodeGoesOn
  <2>8. ASSUME NEW outcome, Done(outcome, r), outcome = Expected(sent)
        PROVE  NodeInv' /\ DoneInv'
    <3>1. at' = "done" /\ got' = Expected(sent) /\ UNCHANGED <<sent, whole>>
      BY <2>8 DEF Done
    <3>2. QED
      BY <3>1, NodeEnds
  <2>9. ASSUME Want # "call"
        PROVE  /\ sent.op # "GoFunc" /\ sent.op \in DOMAIN Entry
               /\ Want = Decoder[sent.op]
               /\ got = Outcome("ok", vs, <<>>, sent.num)
    <3>1. sent.op # "GoFunc"
      BY <2>9 DEF Want
    <3>2. QED
      BY <1>1, <2>4, <2>6, <3>1, Answers DEF Want
  <2> HIDE DEF full, parts, n, vs
  <2>10. CASE Want = "items"
    <3>1. sent.num = 0 /\ Len(sent.entries) % 2 = 0 /\ sent.op = "DictItemsOp"
      BY <1>1, <2>1, <2>4, <2>9, <2>10, PayloadShape, WantIs, ZenonT(40)
    <3>2. got.vals = vs /\ Len(vs) = Len(sent.entries)
      BY <1>1, <2>9, <2>10, MessageNodes DEF Outcome, vs
    <3>3. Done([got EXCEPT !.vals = Paired(@)], r)
      BY <2>10, <3>1, <3>2 DEF NodesRead
    <3>4. [got EXCEPT !.vals = Paired(@)] = Outcome("ok", Paired(vs), <<>>, 0)
      BY <2>9, <2>10, <3>1 DEF Outcome
    <3>5. Expected(sent) = Outcome("ok", Paired(vs), <<>>, 0)
      BY <2>4, <3>1, ItemsAreExpected DEF vs
    <3>6. QED
      BY <2>8, <3>3, <3>4, <3>5
  <2>11. CASE Want = "node" /\ ~Accepts(sent.op, got.vals[1])
    <3>1. Done(Outcome("mistyped", <<>>, <<>>, 0), r)
      BY <2>11 DEF NodesRead
    <3>2. got.vals = vs /\ sent.op \in DOMAIN As
      BY <2>9, <2>11 DEF Outcome, Accepts
    <3>3. sent.op # "DictItemsOp" /\ sent.op # "drainReleases"
      BY <2>9, <2>11, WantIs
    <3>4. Expected(sent) = Outcome("mistyped", <<>>, <<>>, 0)
      <4>1. vs = [i \in DOMAIN sent.entries |-> Meaning(sent.entries[i])]
        BY DEF vs, Vals
      <4>2. QED
        BY <2>4, <2>11, <3>2, <3>3, <4>1 DEF Expected
    <3>5. QED
      BY <2>8, <3>1, <3>4
  <2>12. CASE /\ Want \notin {"call", "items"}
              /\ ~(Want = "node" /\ ~Accepts(sent.op, got.vals[1]))
    <3> DEFINE e == IF Want = "eval" THEN 2 ELSE 0
               k == Len(ts)
    <3>1. AfterStatus(got, r)
      BY <2>12 DEF NodesRead
    <3>2. k = e
      BY <1>1, <2>1, <2>4, <2>9, <2>12, PayloadShape
    <3>3. SubSeq(ts, 1, 0) = <<>> /\ SubSeq(ts, 1, k) = ts
      BY <1>1, MessageTexts, FirstOnes
    <3>4. k >= e /\ k - e = 0 /\ e \in {0, 2}
      BY <3>2
    <3>5. got = Outcome(sent.status, Vals(sent), SubSeq(ts, 1, k - e), sent.num)
      BY <2>4, <2>9, <2>12, <3>3, <3>4 DEF vs
    <3>6. Want = "eval" => Holds(full, r.pos, Texts(SubSeq(ts, k - 1, k)))
      <4> SUFFICES ASSUME Want = "eval"
                   PROVE  Holds(full, r.pos, Texts(SubSeq(ts, k - 1, k)))
        OBVIOUS
      <4>1. k = 2 /\ k - 1 = 1
        BY <3>2
      <4>2. SubSeq(ts, k - 1, k) = ts
        BY <3>3, <4>1
      <4>3. QED
        BY <2>5, <2>6, <2>9, <2>12, <4>2
    <3>7. Want # "eval" => Expected(sent) = Sent(sent)
      <4>1. got.vals = vs
        BY <2>9, <2>12 DEF Outcome
      <4>2. sent.op \in DOMAIN As => Accepts(sent.op, Vals(sent)[1])
        BY <1>1, <2>12, <4>1, NoVals DEF vs
      <4>3. WantFor(sent) # "nothing" /\ WantFor(sent) # "items"
        BY <1>1, <2>12
      <4>4. QED
        BY <1>1, <4>2, <4>3, ExpectedIs
    <3>8. AfterStatus(Outcome(sent.status, Vals(sent), SubSeq(ts, 1, k - e), sent.num), r)
      BY <3>1, <3>5
    <3>9. QED
      BY <1>1, <1>3, <2>1, <2>9, <2>12, <3>4, <3>6, <3>7, <3>8, AfterStatusStep DEF full
  <2>13. QED
    BY <2>7, <2>10, <2>11, <2>12
<1>4. QED
  BY <1>2, <1>3

(* The arguments of a Go function, once they are read. *)
LEMMA AllArguments ==
  ASSUME NEW m \in Messages, m.op = "GoFunc"
  PROVE  /\ Expected(m) = Outcome("ok", SubSeq(Vals(m), 1, Len(m.entries)),
                                  SubSeq(m.texts, 1, Len(m.texts)), 0)
         /\ SubSeq(m.texts, 1, 0) = <<>> /\ m.num = 0
         /\ Len(m.texts) = 0 => m.texts = <<>>
<1>1. m.status = "ok" /\ m.num = 0
  BY Answers DEF IsArgumentList
<1>2. WantFor(m) = "call"
  BY DEF WantFor
<1>3. Expected(m) = Sent(m)
  BY <1>1, <1>2, ExpectedIs, NoVals
<1>4. SubSeq(m.texts, 1, Len(m.texts)) = m.texts /\ SubSeq(m.texts, 1, 0) = <<>>
  BY MessageTexts, FirstOnes
<1>5. SubSeq(Vals(m), 1, Len(m.entries)) = Vals(m)
  <2> DEFINE vs == Vals(m)
             n == Len(m.entries)
  <2>1. PICK S : vs \in Seq(S)
    BY MessageNodes
  <2>2. Len(vs) = n
    BY MessageNodes
  <2> HIDE DEF vs, n
  <2>3. SubSeq(vs, 1, n) = vs
    BY <2>1, <2>2, FirstOnes
  <2>4. QED
    BY <2>3 DEF vs, n
<1>6. QED
  BY <1>1, <1>3, <1>4, <1>5, NoVals DEF Sent

LEMMA CallEnds ==
  ASSUME NodeState, Want = "call", NEW q, Done(got, q),
         (~whole /\ q.fail) \/ got = Expected(sent)
  PROVE  NodeInv' /\ DoneInv'
<1>1. at' = "done" /\ r' = q /\ got' = got /\ UNCHANGED <<sent, whole>>
  BY DEF Done
<1>2. ~Looked'
  BY <1>1 DEF Looked, Want
<1>3. QED
  BY <1>1, <1>2, NodeEnds

LEMMA CountKeywordsStep ==
  ASSUME NodeState, CountKeywords
  PROVE  NodeInv' /\ DoneInv'
<1> DEFINE h == HalfBytes
           q == Past(r, h)
           u == Number(r, 0, h)
<1>1. /\ sent \in Messages /\ r \in NodeReaders /\ WantOf /\ Want = WantFor(sent)
      /\ at = "keywords" /\ Want = "call" /\ h \in Nat
      /\ u > 0 => GoOn("pairs", q, u) /\ got' = got
      /\ ~(u > 0) => Done(got, q)
  BY NodeFacts, Sizes DEF CountKeywords, WantOf
<1>2. q \in NodeReaders /\ q.data = r.data /\ q.fail = ~Need(r, h)
      /\ q.pos = IF Need(r, h) THEN r.pos + h ELSE r.pos
  BY <1>1, PastBytes
<1>3. sent.op = "GoFunc"
  <2>1. sent.op # "GoFunc" => sent.op \in DOMAIN Entry
    BY <1>1, Answers
  <2>2. sent.op # "GoFunc" => Want # "call"
    BY <2>1, WantIs DEF Want
  <2>3. QED
    BY <1>1, <2>2
<1>4. CASE ~whole /\ ~Need(r, h)
  <2>1. u = 0
    <3>1. ~Need(r, 0 + h)
      <4> HIDE DEF h
      <4>1. 0 + h = h
        BY <1>1
      <4>2. QED
        BY <1>4, <4>1
    <3>2. QED
      BY <3>1, NumberOfNothing
  <2>2. Done(got, q) /\ q.fail
    <3> HIDE DEF u, q, h
    <3>1. ~(u > 0)
      BY <2>1
    <3>2. QED
      BY <1>1, <1>2, <1>4, <3>1
  <2> HIDE DEF q
  <2>3. QED
    BY <1>1, <1>4, <2>2, CallEnds
<1>5. CASE ~OnTrack
  BY <1>1, <1>4, <1>5, NodeFacts DEF Need
<1>6. CASE OnTrack
  <2> DEFINE full == Full(sent)
             n == Len(sent.texts)
             e == Len(sent.entries)
             s == LittleEndian(n, h)
             parts == PairParts(sent)
             after == AfterNodes(sent)
  <2>1. /\ IsDecoded(sent) /\ ~r.fail /\ KeywordsTrack /\ full \in Seq(Nat)
        /\ CutOf(r.data, full) /\ (whole => r.data = full)
    BY <1>1, <1>6, NodeFacts DEF OnTrack
  <2>2. /\ got = Outcome("ok", SubSeq(Vals(sent), 1, Positional(sent)), <<>>, 0)
        /\ Holds(full, r.pos, after)
    BY <2>1 DEF KeywordsTrack
  <2>3. /\ parts \in Seq(Seq(Nat)) /\ Len(parts) = n /\ n \in Nat /\ n < HalfSize
        /\ Positional(sent) + n = e /\ after = s \o FlattenSeq(parts)
    BY <1>1, <1>3, KeywordParts
  <2>4. e \in Nat /\ Positional(sent) = e - n
    BY <1>1, <1>3, MessageNodes DEF Positional
  <2>5. s \in Seq(Nat) /\ Len(s) = h /\ r.pos \in Nat /\ FlattenSeq(parts) \in Seq(Nat)
        /\ n < Power[h]
    <3>1. n < Power[h] /\ r.pos \in Nat
      BY <1>1, <2>3, ReaderFields DEF HalfSize
    <3>2. FlattenSeq(parts) \in Seq(Nat)
      BY <2>3, Flattened
    <3>3. s \in Seq(Nat) /\ Len(s) = h
      <4>1. n \in Nat /\ h \in Nat
        BY <1>1, <2>3
      <4> HIDE DEF n, h
      <4>2. QED
        BY <4>1, LittleEndianBytes
    <3>4. QED
      BY <3>1, <3>2, <3>3
  <2> HIDE DEF q, u, full, n, h, e, parts, after
  <2>6. Holds(full, r.pos, s) /\ Holds(full, r.pos + h, FlattenSeq(parts))
    <3> HIDE DEF s
    <3>1. Holds(full, r.pos, s) /\ Holds(full, r.pos + Len(s), FlattenSeq(parts))
      BY <2>1, <2>2, <2>3, <2>5, HoldsBoth
    <3>2. QED
      BY <2>5, <3>1
  <2>7. /\ r.data = full /\ ~r.fail => Need(r, h)
        /\ Need(r, h) => Number(r, 0, h) = n
    BY <1>1, <2>1, <2>3, <2>5, <2>6, NumberThere
  <2>8. CASE ~Need(r, h)
    BY <1>4, <2>1, <2>7, <2>8
  <2>9. CASE Need(r, h)
    <3>1. u = n /\ q.pos = r.pos + h /\ ~q.fail
      BY <1>2, <2>7, <2>9 DEF u
    <3>2. CASE n = 0
      <4>1. Done(got, q)
        BY <1>1, <3>1, <3>2
      <4>2. Positional(sent) = e
        BY <2>4, <3>2
      <4>3. got = Expected(sent)
        <5>1. sent.texts = <<>> /\ SubSeq(sent.texts, 1, n) = <<>>
          BY <1>1, <1>3, <3>2, AllArguments DEF n
        <5>2. Expected(sent) = Outcome("ok", SubSeq(Vals(sent), 1, e),
                                       SubSeq(sent.texts, 1, n), 0)
          BY <1>1, <1>3, AllArguments DEF e, n
        <5>3. QED
          BY <2>2, <4>2, <5>1, <5>2
      <4>4. QED
        BY <1>1, <4>1, <4>3, CallEnds
    <3>3. CASE n > 0
      <4>1. GoOn("pairs", q, u) /\ got' = got
        BY <1>1, <3>1, <3>3
      <4>2. at' = "pairs" /\ r' = q /\ left' = n /\ UNCHANGED <<sent, whole>>
            /\ got' = got
        BY <3>1, <4>1 DEF GoOn
      <4>3. at' \in NodePhases /\ WantOf'
        BY <1>1, <4>2 DEF WantOf, Want, NodePhases
      <4>4. n - left' = 0 /\ left' \in 0 .. n /\ e - left' = Positional(sent)
        BY <2>3, <2>4, <4>2
      <4>5. got' = Outcome("ok", SubSeq(Vals(sent), 1, e - left'),
                           SubSeq(sent.texts, 1, n - left'), 0)
        BY <1>1, <1>3, <2>2, <4>2, <4>4, AllArguments
      <4>6. Within(full, r'.pos, parts, <<>>, n - left')
        <5> DEFINE p == r.pos + h
                   f == FlattenSeq(parts)
        <5>1. p \in Nat /\ f \in Seq(Nat) /\ Holds(full, p, f) /\ <<>> \in Seq(Nat)
          BY <1>1, <2>5, <2>6
        <5>2. r'.pos = p
          BY <3>1, <4>2
        <5> HIDE DEF p, f
        <5>3. f \o <<>> = f
          BY <5>1, ConcatEmptySeq
        <5>4. Holds(full, p, FlattenSeq(parts) \o <<>>)
          BY <5>1, <5>3 DEF f
        <5>5. Within(full, p, parts, <<>>, 0)
          BY <2>1, <2>3, <5>1, <5>4, PartsBegin
        <5>6. QED
          BY <4>4, <5>2, <5>5
      <4>7. PairsTrack'
        BY <4>2, <4>4, <4>5, <4>6 DEF PairsTrack, full, parts, n, e
      <4>8. OnTrack'
        BY <2>1, <3>1, <4>2, <4>7 DEF OnTrack
      <4>9. QED
        BY <1>2, <3>1, <4>2, <4>3, <4>8, NodeGoesOn
    <3>4. QED
      BY <2>3, <3>2, <3>3
  <2>10. QED
    BY <2>8, <2>9
<1>7. QED
  BY <1>5, <1>6

LEMMA PairsReadStep ==
  ASSUME NodeState, PairsRead
  PROVE  NodeInv' /\ DoneInv'
<1>1. /\ sent \in Messages /\ WantOf /\ Want = WantFor(sent)
      /\ at = "pairs" /\ left = 0 /\ Want = "call" /\ Done(got, r)
  BY NodeFacts DEF PairsRead, WantOf
<1>2. sent.op = "GoFunc"
  <2>1. sent.op # "GoFunc" => sent.op \in DOMAIN Entry
    BY <1>1, Answers
  <2>2. sent.op # "GoFunc" => Want # "call"
    BY <2>1, WantIs DEF Want
  <2>3. QED
    BY <1>1, <2>2
<1>3. CASE ~OnTrack
  BY <1>1, <1>3, NodeFacts, CallEnds
<1>4. CASE OnTrack
  <2> DEFINE n == Len(sent.texts)
             e == Len(sent.entries)
  <2>1. PairsTrack
    BY <1>1, <1>4 DEF OnTrack
  <2>2. n \in Nat /\ e \in Nat
    BY <1>1, MessageTexts, MessageNodes
  <2>3. n - left = n /\ e - left = e
    <3> HIDE DEF n, e
    <3>1. QED
      BY <1>1, <2>2
  <2>4. got = Outcome("ok", SubSeq(Vals(sent), 1, e), SubSeq(sent.texts, 1, n), 0)
    BY <2>1, <2>3 DEF PairsTrack
  <2>5. got = Expected(sent)
    BY <1>1, <1>2, <2>4, AllArguments
  <2>6. QED
    BY <1>1, <2>5, CallEnds
<1>5. QED
  BY <1>3, <1>4

LEMMA ReadPairStep ==
  ASSUME NodeState, ReadPair
  PROVE  NodeInv' /\ DoneInv'
<1> DEFINE t == PastText(r, 0, HalfBytes)
           w == Text(r, 0, HalfBytes)
           node == DecodeNode(t)
<1>1. /\ sent \in Messages /\ r \in NodeReaders /\ WantOf /\ Want = WantFor(sent)
      /\ at = "pairs" /\ left \in Nat /\ left > 0 /\ Want = "call"
      /\ node.ok => /\ GoOn("pairs", node.r, left - 1)
                    /\ got' = [got EXCEPT !.vals = Append(@, node.v),
                                          !.texts = Append(@, w)]
      /\ ~node.ok => DoneMalformed(node.r)
  BY NodeFacts DEF ReadPair, WantOf
<1>2. sent.op = "GoFunc"
  <2>1. sent.op # "GoFunc" => sent.op \in DOMAIN Entry
    BY <1>1, Answers
  <2>2. sent.op # "GoFunc" => Want # "call"
    BY <2>1, WantIs DEF Want
  <2>3. QED
    BY <1>1, <2>2
<1>3. CASE ~OnTrack
  <2>1. ~whole /\ r.fail
    BY <1>1, <1>3, NodeFacts
  <2>2. node.ok = FALSE
    BY <1>1, <2>1, FailsOn
  <2>3. QED
    BY <1>1, <2>1, <2>2, MalformedEnds
<1>4. CASE OnTrack
  <2> DEFINE full == Full(sent)
             ts == sent.texts
             n == Len(ts)
             e == Len(sent.entries)
             b == Positional(sent)
             k == n - left
             vs == Vals(sent)
             parts == PairParts(sent)
             x == Nodes(sent)[b + (k + 1)]
             s == ts[k + 1]
  <2>1. /\ IsDecoded(sent) /\ ~r.fail /\ PairsTrack /\ full \in Seq(Nat)
        /\ CutOf(r.data, full) /\ (whole => r.data = full)
    BY <1>1, <1>4, NodeFacts DEF OnTrack
  <2>2. /\ left \in 0 .. n
        /\ got = Outcome("ok", SubSeq(vs, 1, e - left), SubSeq(ts, 1, k), 0)
        /\ Within(full, r.pos, parts, <<>>, k)
    BY <2>1 DEF PairsTrack
  <2>3. /\ parts \in Seq(Seq(Nat)) /\ Len(parts) = n /\ n \in Nat /\ b + n = e
        /\ \A i \in 1 .. n : parts[i] = LenBytes(ts[i]) \o Nodes(sent)[b + i]
    BY <1>1, <1>2, KeywordParts
  <2>4. b \in Nat /\ e \in Nat
    <3>1. sent.status = "ok"
      BY <1>1, <1>2, Answers DEF IsArgumentList
    <3>2. b \in 0 .. e /\ e \in Nat
      BY <1>1, <2>1, <3>1, PositionalNodes, MessageNodes
    <3> HIDE DEF b, e
    <3>3. QED
      BY <3>2
  <2>5. /\ k \in 0 .. n - 1 /\ n - (left - 1) = k + 1 /\ left - 1 \in 0 .. n
        /\ k + 1 \in 1 .. n /\ b + (k + 1) \in 1 .. e /\ e - left = b + k
        /\ b + k \in 0 .. e - 1 /\ (b + k) + 1 = b + (k + 1)
        /\ e - (left - 1) = b + (k + 1)
    <3> DEFINE l == left
    <3>1. e \in Nat /\ n \in Nat /\ b \in Nat /\ b + n = e /\ l \in 0 .. n /\ l > 0
          /\ k = n - l
      BY <1>1, <2>2, <2>3, <2>4
    <3> HIDE DEF n, l, e, k, b
    <3>2. /\ k \in 0 .. n - 1 /\ n - (l - 1) = k + 1 /\ l - 1 \in 0 .. n
          /\ k + 1 \in 1 .. n /\ b + (k + 1) \in 1 .. e /\ e - l = b + k
          /\ b + k \in 0 .. e - 1 /\ (b + k) + 1 = b + (k + 1)
          /\ e - (l - 1) = b + (k + 1)
      BY <3>1
    <3>3. QED
      BY <3>2 DEF l
  <2>6. StandsFor(x, vs[b + (k + 1)])
    BY <1>1, <2>5, MessageNodes
  <2>7. Append(SubSeq(vs, 1, b + k), vs[b + (k + 1)]) = SubSeq(vs, 1, b + (k + 1))
    <3>1. PICK S : vs \in Seq(S)
      BY <1>1, MessageNodes
    <3>2. Len(vs) = e
      BY <1>1, MessageNodes
    <3> DEFINE i == b + k
               j == b + (k + 1)
    <3>3. i \in 0 .. Len(vs) - 1 /\ i + 1 = j
      BY <2>5, <3>2
    <3> HIDE DEF vs, i, j
    <3>4. Append(SubSeq(vs, 1, i), vs[i + 1]) = SubSeq(vs, 1, i + 1)
      BY <3>1, <3>3, FirstOnes
    <3>5. QED
      BY <3>3, <3>4 DEF i, j
  <2>8. /\ s \in Seq(Nat) /\ Len(s) < HalfSize
        /\ Append(SubSeq(ts, 1, k), s) = SubSeq(ts, 1, k + 1)
    <3>1. /\ ts \in Seq(Seq(Nat))
          /\ \A i \in 1 .. Len(ts) : ts[i] \in Seq(Nat) /\ Len(ts[i]) < HalfSize
      BY <1>1, MessageTexts
    <3>2. k \in 0 .. Len(ts) - 1 /\ k + 1 \in 1 .. Len(ts)
      BY <2>5
    <3> HIDE DEF ts, k
    <3>3. QED
      BY <3>1, <3>2, FirstOnes
  <2>9. parts[k + 1] = LenBytes(s) \o x
    BY <2>3, <2>5
  <2>10. x \in Seq(Nat) /\ LenBytes(s) \in Seq(Nat)
    <3>1. x \in Seq(Nat)
      BY <2>6 DEF StandsFor
    <3>2. QED
      BY <2>8, <3>1, PrefixedBytes, Sizes DEF LenBytes
  <2> HIDE DEF full, parts, k, x, n, vs, e, b, ts, s, t, w, node
  <2>11. /\ r.pos \in Nat /\ Holds(full, r.pos, parts[k + 1])
         /\ Within(full, r.pos + Len(parts[k + 1]), parts, <<>>, k + 1)
    <3>1. k \in 0 .. Len(parts) - 1
      BY <2>3, <2>5
    <3>2. <<>> \in Seq(Nat)
      OBVIOUS
    <3>3. QED
      BY <2>1, <2>2, <2>3, <3>1, <3>2, PartsGoOn
  <2> DEFINE one == LenBytes(s)
  <2>12. /\ Holds(full, r.pos, one) /\ Holds(full, r.pos + Len(one), x)
         /\ r.pos + Len(parts[k + 1]) = (r.pos + Len(one)) + Len(x)
    <3>1. one \in Seq(Nat) /\ Holds(full, r.pos, one \o x)
      BY <2>9, <2>10, <2>11
    <3> HIDE DEF one
    <3>2. Holds(full, r.pos, one) /\ Holds(full, r.pos + Len(one), x)
      BY <2>1, <2>10, <2>11, <3>1, HoldsBoth
    <3>3. Len(one \o x) = Len(one) + Len(x) /\ Len(one) \in Nat /\ Len(x) \in Nat
      BY <2>10, <3>1
    <3>4. r.pos + Len(one \o x) = (r.pos + Len(one)) + Len(x)
      BY <2>11, <3>3
    <3>5. QED
      BY <2>9, <3>2, <3>4 DEF one
  <2>13. /\ t \in NodeReaders /\ t.data = r.data
         /\ r.data = full => ~t.fail
         /\ ~t.fail => w = s /\ t.pos = r.pos + Len(one)
    BY <1>1, <2>1, <2>8, <2>12, TextThere DEF t, w
  <2> HIDE DEF one
  <2>14. CASE t.fail
    <3>1. ~whole /\ node.ok = FALSE
      BY <2>1, <2>13, <2>14, FailsOn DEF node
    <3>2. QED
      BY <1>1, <3>1, MalformedEnds DEF node, t, w
  <2>15. CASE ~t.fail
    <3>1. Holds(full, t.pos, x) /\ CutOf(t.data, full)
      BY <2>1, <2>12, <2>13, <2>15
    <3>2. /\ node.r \in NodeReaders /\ node.r.data = t.data
          /\ t.data = full => node.ok = TRUE /\ ~node.r.fail
          /\ ~node.r.fail => /\ node.ok = TRUE /\ node.v = vs[b + (k + 1)]
                             /\ node.r.pos = t.pos + Len(x)
      BY <2>1, <2>6, <2>13, <2>15, <3>1, NodeThere, ZenonT(40) DEF node
    <3>3. CASE ~node.ok
      <4>1. ~whole
        BY <2>1, <2>13, <3>2, <3>3
      <4>2. QED
        BY <1>1, <3>3, <4>1, MalformedEnds DEF node, t, w
    <3>4. CASE node.ok
      <4>1. /\ at' = "pairs" /\ r' = node.r /\ left' = left - 1
            /\ UNCHANGED <<sent, whole>>
            /\ got' = [got EXCEPT !.vals = Append(@, node.v),
                                  !.texts = Append(@, w)]
        BY <1>1, <3>4 DEF GoOn, node, t, w
      <4>2. at' \in NodePhases /\ WantOf'
        BY <1>1, <4>1 DEF WantOf, Want, NodePhases
      <4>3. ASSUME ~node.r.fail PROVE OnTrack'
        <5> DEFINE v0 == SubSeq(vs, 1, b + k)
                   t0 == SubSeq(ts, 1, k)
                   v1 == Append(v0, node.v)
                   t1 == Append(t0, w)
        <5>1. got = Outcome("ok", v0, t0, 0)
          BY <2>2, <2>5
        <5>2. got.vals = v0 /\ got.texts = t0
          <6> HIDE DEF v0, t0
          <6>1. QED
            BY <5>1 DEF Outcome
        <5>3. got' = [got EXCEPT !.vals = v1, !.texts = t1]
          BY <4>1, <5>2
        <5> HIDE DEF v0, t0, v1, t1
        <5>4. got' = Outcome("ok", v1, t1, 0)
          BY <5>1, <5>3 DEF Outcome
        <5>5. v1 = SubSeq(vs, 1, b + (k + 1)) /\ t1 = SubSeq(ts, 1, k + 1)
          BY <2>7, <2>8, <2>13, <2>15, <3>2, <4>3 DEF v0, t0, v1, t1
        <5>6. n - left' = k + 1 /\ left' \in 0 .. n /\ e - left' = b + (k + 1)
          BY <2>5, <4>1
        <5>7. got' = Outcome("ok", SubSeq(vs, 1, e - left'),
                             SubSeq(ts, 1, n - left'), 0)
          BY <5>4, <5>5, <5>6
        <5>8. r'.pos = r.pos + Len(parts[k + 1])
          BY <2>12, <2>13, <2>15, <3>2, <4>1, <4>3
        <5>9. Within(full, r'.pos, parts, <<>>, n - left')
          BY <2>11, <5>6, <5>8
        <5>10. PairsTrack'
          BY <4>1, <5>6, <5>7, <5>9, SMTT(40) DEF PairsTrack, full, parts, n, vs, e, ts
        <5>11. QED
          BY <2>1, <4>1, <4>3, <5>10 DEF OnTrack
      <4>4. QED
        BY <2>1, <2>13, <3>2, <4>1, <4>2, <4>3, NodeGoesOn
    <3>5. QED
      BY <3>3, <3>4
  <2>16. QED
    BY <2>14, <2>15
<1>5. QED
  BY <1>3, <1>4

(* The actions of the nodeReader. *)
NodeAction ==
  \/ Envelope \/ ReadText \/ Raised \/ Exit \/ OutputRead
  \/ Plain \/ Empty \/ OneNode \/ ExistsNode \/ CountNodes
  \/ ReadNode \/ NodesRead \/ CountKeywords \/ ReadPair \/ PairsRead

(* A reader is nowhere but within its bytes, or at their end. *)
Bounds == r.data \in Seq(Nat) /\ r.pos \in 0 .. Len(r.data)

LEMMA OutcomesRecorded ==
  /\ \A s \in Statuses : \A v, t, n : Recorded(Outcome(s, v, t, n))
  /\ Recorded(Blank)
  /\ \A g : Recorded(g) =>
       /\ \A v : Recorded([g EXCEPT !.vals = v])
       /\ \A t : Recorded([g EXCEPT !.texts = t])
       /\ \A v, t : Recorded([g EXCEPT !.vals = v, !.texts = t])
       /\ \A s \in Statuses : Recorded([g EXCEPT !.status = s])
       /\ \A s \in Statuses : \A v : Recorded([g EXCEPT !.status = s, !.vals = v])
<1>1. \A s \in Statuses : \A v, t, n : Recorded(Outcome(s, v, t, n))
  BY DEF Recorded, Outcome
<1>2. Recorded(Blank)
  BY <1>1 DEF Blank, Statuses
<1>3. ASSUME NEW g, Recorded(g)
      PROVE  /\ \A v : Recorded([g EXCEPT !.vals = v])
             /\ \A t : Recorded([g EXCEPT !.texts = t])
             /\ \A v, t : Recorded([g EXCEPT !.vals = v, !.texts = t])
             /\ \A s \in Statuses : Recorded([g EXCEPT !.status = s])
             /\ \A s \in Statuses : \A v : Recorded([g EXCEPT !.status = s, !.vals = v])
  <2>7. PICK s0 \in Statuses : \E v, t, n : g = Outcome(s0, v, t, n)
    BY <1>3 DEF Recorded
  <2>1. PICK v0, t0, n0 : g = Outcome(s0, v0, t0, n0)
    BY <2>7
  <2>2. ASSUME NEW h, NEW s1 \in Statuses, NEW v1, NEW t1, NEW n1,
               h = Outcome(s1, v1, t1, n1)
        PROVE  /\ \A v : [h EXCEPT !.vals = v] = Outcome(s1, v, t1, n1)
               /\ \A t : [h EXCEPT !.texts = t] = Outcome(s1, v1, t, n1)
               /\ \A s : [h EXCEPT !.status = s] = Outcome(s, v1, t1, n1)
    BY <2>2 DEF Outcome
  <2>3. ASSUME NEW v PROVE Recorded([g EXCEPT !.vals = v])
    <3>1. [g EXCEPT !.vals = v] = Outcome(s0, v, t0, n0)
      BY <2>1, <2>2
    <3>2. QED
      BY <1>1, <2>1, <3>1
  <2>4. ASSUME NEW t PROVE Recorded([g EXCEPT !.texts = t])
    <3>1. [g EXCEPT !.texts = t] = Outcome(s0, v0, t, n0)
      BY <2>1, <2>2
    <3>2. QED
      BY <1>1, <2>1, <3>1
  <2>5. ASSUME NEW s \in Statuses PROVE Recorded([g EXCEPT !.status = s])
    <3>1. [g EXCEPT !.status = s] = Outcome(s, v0, t0, n0)
      BY <2>1, <2>2
    <3>2. QED
      BY <1>1, <2>1, <3>1
  <2>6. ASSUME NEW v, NEW t PROVE Recorded([g EXCEPT !.vals = v, !.texts = t])
    <3> DEFINE h == [g EXCEPT !.vals = v]
    <3>1. h = Outcome(s0, v, t0, n0)
      BY <2>1, <2>2
    <3>2. [g EXCEPT !.vals = v, !.texts = t] = [h EXCEPT !.texts = t]
      OBVIOUS
    <3> HIDE DEF h
    <3>3. [h EXCEPT !.texts = t] = Outcome(s0, v, t, n0)
      BY <2>1, <2>2, <3>1
    <3>4. QED
      BY <1>1, <2>1, <3>2, <3>3
  <2>8. ASSUME NEW s \in Statuses, NEW v
        PROVE  Recorded([g EXCEPT !.status = s, !.vals = v])
    <3> DEFINE h == [g EXCEPT !.status = s]
    <3>1. h = Outcome(s, v0, t0, n0)
      BY <2>1, <2>2
    <3>2. [g EXCEPT !.status = s, !.vals = v] = [h EXCEPT !.vals = v]
      OBVIOUS
    <3> HIDE DEF h
    <3>3. [h EXCEPT !.vals = v] = Outcome(s, v, t0, n0)
      BY <2>1, <2>2, <3>1
    <3>4. QED
      BY <1>1, <2>1, <3>2, <3>3
  <2>9. QED
    BY <2>3, <2>4, <2>5, <2>6, <2>8
<1>4. QED
  BY <1>1, <1>2, <1>3

(* What a step that ends, or that goes on, leaves. *)
LEMMA DoneTypes ==
  ASSUME Types, NEW g, NEW q, Done(g, q), Recorded(g)
  PROVE  Types' /\ r' = q
<1>1. /\ sent' = sent /\ whole' = whole /\ left' = left /\ at' = "done"
      /\ got' = g /\ r' = q
  BY DEF Done
<1>2. Recorded(got')
  BY <1>1
<1>3. QED
  BY <1>1, <1>2 DEF Types, Points

LEMMA MalformedTypes ==
  ASSUME Types, NEW q, DoneMalformed(q)
  PROVE  Types' /\ r' = q
<1>1. Recorded([Blank EXCEPT !.status = "malformed"])
  BY OutcomesRecorded DEF Statuses
<1>2. QED
  BY <1>1, DoneTypes, SMTT(40) DEF DoneMalformed

LEMMA GoOnTypes ==
  ASSUME Types, NEW point \in Points, NEW q, NEW n \in Nat, GoOn(point, q, n),
         Recorded(got')
  PROVE  Types' /\ r' = q
<1>1. sent' = sent /\ whole' = whole /\ left' = n /\ at' = point /\ r' = q
  BY DEF GoOn
<1>2. QED
  BY <1>1 DEF Types

LEMMA NodeReaderBounds ==
  ASSUME NEW q \in NodeReaders
  PROVE  q.data \in Seq(Nat) /\ q.pos \in 0 .. Len(q.data)
BY ReaderFields

LEMMA AfterStatusTypes ==
  ASSUME Types, NEW outcome, Recorded(outcome), NEW q \in NodeReaders,
         AfterStatus(outcome, q)
  PROVE  Types' /\ r' \in NodeReaders
<1>1. CASE Want = "eval"
  <2>1. GoOn("output", q, 2) /\ got' = outcome
    BY <1>1 DEF AfterStatus
  <2>2. Recorded(got') /\ "output" \in Points /\ 2 \in Nat
    BY <2>1 DEF Points, NodePhases
  <2>3. QED
    BY <2>1, <2>2, DoneTypes, MalformedTypes, GoOnTypes
<1>2. CASE Want # "eval"
  <2>1. Done(outcome, q)
    BY <1>2 DEF AfterStatus
  <2>2. QED
    BY <2>1, DoneTypes, MalformedTypes, GoOnTypes
<1>3. QED
  BY <1>1, <1>2

(* The readers that a node's action goes on with, and what it has read. *)
LEMMA NodeTypes ==
  ASSUME NodeState, NodeAction
  PROVE  Types' /\ r' \in NodeReaders
<1>1. /\ Types /\ r \in NodeReaders /\ left \in Nat /\ Recorded(got)
      /\ HalfBytes \in Nat /\ WordBytes \in Nat
  BY NodeFacts, Sizes DEF NodeState
<1>2. \A n \in Nat : Past(r, n) \in NodeReaders
  BY <1>1, PastBytes
<1>3. /\ PastText(r, 0, HalfBytes) \in NodeReaders
      /\ Number(r, 0, HalfBytes) \in Nat
  <2>1. Number(r, 0, HalfBytes) \in Nat
    BY <1>1, NumberNat
  <2> DEFINE n == 0 + HalfBytes + Number(r, 0, HalfBytes)
  <2>2. n \in Nat
    BY <1>1, <2>1
  <2>3. PastText(r, 0, HalfBytes) = Past(r, n)
    BY DEF PastText
  <2> HIDE DEF n
  <2>4. QED
    BY <1>2, <2>1, <2>2, <2>3
<1>4. /\ DecodeNode(r).r \in NodeReaders
      /\ DecodeNode(PastText(r, 0, HalfBytes)).r \in NodeReaders
  BY <1>1, <1>3, DecodingIsTotal
<1>5. /\ {"payload", "raised", "exit", "output", "nodes", "keywords",
          "pairs"} \subseteq Points
      /\ {"pending", "ok", "raised", "exit", "mistyped"} \subseteq Statuses
  BY DEF Points, NodePhases, Statuses
<1>6. 0 \in Nat /\ 1 \in Nat /\ 3 \in Nat /\ (left > 0 => left - 1 \in Nat)
  BY <1>1
<1>7. CASE Envelope
  <2>1. \/ \E point \in {"payload", "raised", "exit"}, n \in {0, 3} :
             GoOn(point, Past(r, 1), n) /\ got' = got
        \/ DoneMalformed(Past(r, 1))
    BY <1>7 DEF Envelope
  <2>2. QED
    BY <1>1, <1>2, <1>5, <1>6, <2>1, DoneTypes, MalformedTypes, GoOnTypes
<1>8. CASE ReadText
  <2>1. /\ at \in {"raised", "output"} /\ left > 0
        /\ GoOn(at, PastText(r, 0, HalfBytes), left - 1)
        /\ got' = [got EXCEPT !.texts = Append(@, Text(r, 0, HalfBytes))]
    BY <1>8 DEF ReadText
  <2>2. Recorded(got')
    BY <1>1, <2>1, OutcomesRecorded
  <2>3. QED
    BY <1>1, <1>3, <1>5, <1>6, <2>1, <2>2, DoneTypes, MalformedTypes, GoOnTypes
<1>9. CASE Raised
  <2> DEFINE node == DecodeNode(r)
             value == IF node.v.kind = "object" THEN node.v ELSE NoneValue
             outcome == [got EXCEPT !.status = "raised", !.vals = <<value>>]
  <2>1. DoneMalformed(node.r) \/ AfterStatus(outcome, node.r)
    BY <1>9 DEF Raised
  <2>2. Recorded(outcome)
    BY <1>1, <1>5, OutcomesRecorded
  <2> HIDE DEF outcome
  <2>3. QED
    BY <1>1, <1>4, <2>1, <2>2, DoneTypes, MalformedTypes, GoOnTypes, AfterStatusTypes
<1>10. CASE Exit
  <2> DEFINE outcome == Outcome("exit", <<>>, <<>>,
                                Signed(Number(r, 0, HalfBytes), HalfSize))
  <2>1. AfterStatus(outcome, Past(r, HalfBytes))
    BY <1>10 DEF Exit
  <2>2. Recorded(outcome)
    BY <1>5, OutcomesRecorded
  <2> HIDE DEF outcome
  <2>3. QED
    BY <1>1, <1>2, <2>1, <2>2, AfterStatusTypes
<1>11. CASE OutputRead
  BY <1>1, <1>11, DoneTypes, MalformedTypes, GoOnTypes DEF OutputRead
<1>12. CASE Plain
  <2>1. PICK q, v, t, n : /\ q \in NodeReaders
                          /\ DoneMalformed(q) \/ Done(Outcome("ok", v, t, n), q)
    <3> DEFINE word == Signed(Number(r, 0, WordBytes), WordSize)
               flag == IF Number(r, 0, 1) # 0 THEN 1 ELSE 0
               text == Text(r, 0, HalfBytes)
               rest == CASE Want = "i64"  -> Past(r, WordBytes)
                         [] Want = "bool" -> Past(r, 1)
                         [] Want = "text" -> PastText(r, 0, HalfBytes)
               outcome == CASE Want = "i64"  -> Outcome("ok", <<>>, <<>>, word)
                            [] Want = "bool" -> Outcome("ok", <<>>, <<>>, flag)
                            [] Want = "text" -> Outcome("ok", <<>>, <<text>>, 0)
    <3>1. /\ Want \in {"i64", "bool", "text"}
          /\ DoneMalformed(rest) \/ Done(outcome, rest)
      BY <1>12 DEF Plain
    <3>2. rest \in NodeReaders
      BY <1>1, <1>2, <1>3, <1>6, <3>1
    <3>3. \E v, t, n : outcome = Outcome("ok", v, t, n)
      <4> HIDE DEF word, flag, text
      <4>1. QED
        BY <3>1
    <3> HIDE DEF rest, outcome
    <3>4. QED
      BY <3>1, <3>2, <3>3
  <2>2. Recorded(Outcome("ok", v, t, n))
    BY <1>5, OutcomesRecorded
  <2>3. QED
    BY <1>1, <2>1, <2>2, DoneTypes, MalformedTypes, GoOnTypes
<1>13. CASE Empty
  <2>1. Recorded(Outcome("ok", <<>>, <<>>, 0))
    BY <1>5, OutcomesRecorded
  <2>2. QED
    BY <1>1, <1>13, <2>1, DoneTypes, MalformedTypes, GoOnTypes DEF Empty
<1>14. CASE OneNode
  <2>1. GoOn("nodes", r, 1) /\ got' = [got EXCEPT !.status = "ok"]
    BY <1>14 DEF OneNode
  <2>2. Recorded(got')
    BY <1>1, <1>5, <2>1, OutcomesRecorded
  <2>3. QED
    BY <1>1, <1>5, <1>6, <2>1, <2>2, DoneTypes, MalformedTypes, GoOnTypes
<1>15. CASE ExistsNode
  <2> DEFINE n == IF Number(r, 0, 1) # 0 THEN 1 ELSE 0
  <2>1. /\ GoOn("nodes", Past(r, 1), 1)
        /\ got' = Outcome("ok", <<>>, <<>>, n)
    BY <1>15 DEF ExistsNode
  <2> HIDE DEF n
  <2>2. Recorded(got')
    <3>1. "ok" \in Statuses
      BY <1>5
    <3>2. Recorded(Outcome("ok", <<>>, <<>>, n))
      BY <3>1, OutcomesRecorded
    <3>3. QED
      BY <2>1, <3>2
  <2>3. QED
    BY <1>1, <1>2, <1>5, <1>6, <2>1, <2>2, DoneTypes, MalformedTypes, GoOnTypes
<1>16. CASE CountNodes
  <2>1. \/ /\ GoOn("nodes", Past(r, HalfBytes), Number(r, 0, HalfBytes))
           /\ got' = [got EXCEPT !.status = "ok"]
        \/ DoneMalformed(Past(r, HalfBytes))
    BY <1>16 DEF CountNodes
  <2>2. Recorded([got EXCEPT !.status = "ok"])
    BY <1>1, <1>5, OutcomesRecorded
  <2>3. QED
    BY <1>1, <1>2, <1>3, <1>5, <2>1, <2>2, DoneTypes, MalformedTypes, GoOnTypes
<1>17. CASE ReadNode
  <2> DEFINE node == DecodeNode(r)
  <2>1. \/ /\ left > 0 /\ GoOn("nodes", node.r, left - 1)
           /\ got' = [got EXCEPT !.vals = Append(@, node.v)]
        \/ DoneMalformed(node.r)
    BY <1>17 DEF ReadNode
  <2>2. \A v : Recorded([got EXCEPT !.vals = v])
    BY <1>1, OutcomesRecorded
  <2>3. QED
    BY <1>1, <1>4, <1>5, <1>6, <2>1, <2>2, DoneTypes, MalformedTypes, GoOnTypes
<1>18. CASE NodesRead
  <2>1. /\ Recorded(Outcome("mistyped", <<>>, <<>>, 0))
        /\ Recorded([got EXCEPT !.vals = Paired(@)])
    BY <1>1, <1>5, OutcomesRecorded
  <2>2. \/ GoOn("keywords", r, 0) /\ got' = got
        \/ DoneMalformed(r)
        \/ Done([got EXCEPT !.vals = Paired(@)], r)
        \/ Done(Outcome("mistyped", <<>>, <<>>, 0), r)
        \/ AfterStatus(got, r)
    BY <1>18 DEF NodesRead
  <2>3. QED
    BY <1>1, <1>5, <1>6, <2>1, <2>2, DoneTypes, MalformedTypes, GoOnTypes, AfterStatusTypes
<1>19. CASE CountKeywords
  <2>1. \/ /\ GoOn("pairs", Past(r, HalfBytes), Number(r, 0, HalfBytes))
           /\ got' = got
        \/ Done(got, Past(r, HalfBytes))
    BY <1>19 DEF CountKeywords
  <2>2. QED
    BY <1>1, <1>2, <1>3, <1>5, <2>1, DoneTypes, MalformedTypes, GoOnTypes
<1>20. CASE ReadPair
  <2> DEFINE node == DecodeNode(PastText(r, 0, HalfBytes))
  <2>1. \/ /\ left > 0 /\ GoOn("pairs", node.r, left - 1)
           /\ got' = [got EXCEPT !.vals = Append(@, node.v),
                                 !.texts = Append(@, Text(r, 0, HalfBytes))]
        \/ DoneMalformed(node.r)
    BY <1>20 DEF ReadPair
  <2>2. \A v, t : Recorded([got EXCEPT !.vals = v, !.texts = t])
    BY <1>1, OutcomesRecorded
  <2>3. QED
    BY <1>1, <1>4, <1>5, <1>6, <2>1, <2>2, DoneTypes, MalformedTypes, GoOnTypes, ZenonT(40)
<1>21. CASE PairsRead
  BY <1>1, <1>21, DoneTypes, MalformedTypes, GoOnTypes DEF PairsRead
<1>22. QED
  BY <1>7, <1>8, <1>9, <1>10, <1>11, <1>12, <1>13, <1>14, <1>15, <1>16, <1>17,
     <1>18, <1>19, <1>20, <1>21 DEF NodeAction

(* Every step of a nodeReader keeps to what was sent. *)
LEMMA NodeStep ==
  ASSUME NodeState, NodeAction
  PROVE  NodeInv' /\ DoneInv' /\ Types' /\ r' \in NodeReaders
<1>1. NodeInv' /\ DoneInv'
  BY EnvelopeStep, ReadTextStep, RaisedStep, ExitStep, OutputReadStep, PlainStep,
     EmptyStep, OneNodeStep, ExistsNodeStep, CountNodesStep, ReadNodeStep,
     NodesReadStep, CountKeywordsStep, ReadPairStep, PairsReadStep DEF NodeAction
<1>2. QED
  BY <1>1, NodeTypes

-----------------------------------------------------------------------------
(***************************************************************************)
(* The fields of the answer, of which the decoder looks for two.           *)
(***************************************************************************)

(* The field of the guest's answer: its number, wire type, data and body. *)
GuestNumber(m) == IF m.status = "error" THEN 15 ELSE 1

GuestWire(m) ==
  IF m.status # "error" /\ Called(m.op).answers \in {"word", "half"} THEN 0 ELSE 2

GuestData(m) == IF m.status = "error" THEN m.texts[1] ELSE GuestEnvelope(m)

GuestBody(m) ==
  IF m.status # "error" /\ Called(m.op).answers \in {"word", "half"}
  THEN AppendVarint[m.num]
  ELSE AppendVarint[Len(GuestData(m))] \o GuestData(m)

(* An answer of which the status alone is told has no such field. *)
IsSilent(m) == m.status # "error" /\ Called(m.op).answers = "checked"

(* The field in which the guest answers. *)
LEMMA GuestPiece ==
  ASSUME NEW m \in Messages, m.op # "GoFunc"
  PROVE  /\ GuestNumber(m) \in {1, 15} /\ GuestWire(m) \in {0, 2}
         /\ GuestField(m) \in Seq(Nat)
         /\ IsSilent(m) => GuestField(m) = <<>>
         /\ ~IsSilent(m) =>
              IsPiece(GuestField(m), GuestNumber(m), GuestWire(m), GuestBody(m))
         /\ GuestWire(m) = 2 /\ ~IsSilent(m) =>
              /\ GuestData(m) \in Seq(Nat) /\ Len(GuestData(m)) < WordSize \div 2
              /\ GuestBody(m) = AppendVarint[Len(GuestData(m))] \o GuestData(m)
<1>1. m.op \in DOMAIN Entry /\ IsAnswer(m)
  BY Answers
<1>2. 1 \in 0 .. 15 /\ 15 \in 0 .. 15 /\ <<>> \in Seq(Nat)
  OBVIOUS
<1>3. CASE m.status = "error"
  <2> DEFINE t == m.texts[1]
  <2>1. Len(m.texts) = 1
    BY <1>1, <1>3 DEF IsAnswer, Counts
  <2>2. t \in Seq(Nat) /\ Len(t) < HalfSize
    <3>1. 1 \in 1 .. Len(m.texts)
      BY <2>1
    <3>2. QED
      BY <3>1, MessageTexts
  <2>3. /\ ~IsSilent(m) /\ GuestNumber(m) = 15 /\ GuestWire(m) = 2
        /\ GuestData(m) = t /\ GuestBody(m) = AppendVarint[Len(t)] \o t
        /\ GuestField(m) = AppendBytes(15, t)
    BY <1>3 DEF IsSilent, GuestNumber, GuestWire, GuestData, GuestBody, GuestField
  <2> HIDE DEF t
  <2>4. /\ IsPiece(AppendBytes(15, t), 15, 2, AppendVarint[Len(t)] \o t)
        /\ AppendBytes(15, t) \in Seq(Nat) /\ Len(t) < WordSize \div 2
    BY <1>2, <2>2, TextFits, BytesPiece
  <2>5. QED
    BY <2>2, <2>3, <2>4
<1>4. CASE m.status # "error" /\ Called(m.op).answers = "checked"
  <2>1. GuestField(m) = <<>>
    BY <1>4 DEF GuestField
  <2>2. GuestNumber(m) = 1 /\ GuestWire(m) = 2 /\ IsSilent(m)
    BY <1>4 DEF GuestNumber, GuestWire, IsSilent
  <2>3. QED
    BY <1>2, <2>1, <2>2
<1>5. CASE m.status # "error" /\ Called(m.op).answers \in {"word", "half"}
  <2>1. m.status = "ok"
    BY <1>1, <1>5 DEF IsAnswer, NoEnvelope
  <2>2. m.num \in Word
    <3>1. /\ Called(m.op).answers = "word" => m.num \in Word
          /\ Called(m.op).answers = "half" => m.num \in 0 .. HalfSize - 1
      <4>1. CASE Called(m.op).answers = "word"
        BY <1>1, <2>1, <4>1 DEF IsAnswer
      <4>2. CASE Called(m.op).answers = "half"
        BY <1>1, <2>1, <4>2 DEF IsAnswer
      <4>3. QED
        BY <4>1, <4>2
    <3>2. HalfSize <= WordSize \div 2 /\ WordSize \div 2 <= WordSize
          /\ WordSize \in Nat /\ HalfSize \in Nat /\ WordSize \div 2 \in Nat
      BY HalfWord, SizesAssumption DEF HalfSize, WordSize
    <3>3. 0 .. HalfSize - 1 \subseteq Word
      BY <3>2 DEF Word
    <3>4. QED
      BY <1>5, <3>1, <3>3
  <2>3. /\ ~IsSilent(m) /\ GuestNumber(m) = 1 /\ GuestWire(m) = 0
        /\ GuestBody(m) = AppendVarint[m.num]
    BY <1>5 DEF IsSilent, GuestNumber, GuestWire, GuestBody
  <2>4. GuestField(m) = AppendUint64(1, m.num)
    BY <1>5 DEF GuestField
  <2>5. QED
    BY <1>2, <2>2, <2>3, <2>4, NumberPiece
<1>6. CASE m.status # "error" /\ Called(m.op).answers \notin NoEnvelope
  <2> DEFINE t == GuestEnvelope(m)
  <2>1. IsDecoded(m)
    BY <1>6 DEF IsDecoded
  <2>2. t \in Seq(Nat)
    BY <2>1, FullShape DEF Full
  <2>3. Len(t) < WordSize \div 2
    BY <1>6, MessagesAssumption DEF IsSent
  <2>4. /\ ~IsSilent(m) /\ GuestNumber(m) = 1 /\ GuestWire(m) = 2
        /\ GuestData(m) = t /\ GuestBody(m) = AppendVarint[Len(t)] \o t
    BY <1>6 DEF IsSilent, GuestNumber, GuestWire, GuestData, GuestBody, NoEnvelope
  <2>5. GuestField(m) = AppendBytes(1, t)
    <3> HIDE DEF t
    <3>1. Called(m.op).answers \notin {"checked", "word", "half"}
      BY <1>6 DEF NoEnvelope
    <3>2. QED
      BY <1>6, <3>1 DEF GuestField, t
  <2> HIDE DEF t
  <2>6. /\ IsPiece(AppendBytes(1, t), 1, 2, AppendVarint[Len(t)] \o t)
        /\ AppendBytes(1, t) \in Seq(Nat)
    BY <1>2, <2>2, <2>3, BytesPiece
  <2>7. QED
    BY <2>2, <2>3, <2>4, <2>5, <2>6
<1>7. QED
  BY <1>3, <1>4, <1>5, <1>6 DEF NoEnvelope

(* Any other field is nothing, or a field that is skipped. *)
LEMMA OtherPiece ==
  ASSUME NEW s \in Others
  PROVE  /\ s \in Seq(Nat)
         /\ s # <<>> => \E f \in 2 .. 14, w \in 0 .. 7, body \in Seq(Nat) : IsPiece(s, f, w, body)
<1>1. s \in Seq(Byte) /\ (s = <<>> \/ \E f \in 2 .. 14 : IsField(s, f))
  BY OthersAssumption
<1>2. Byte \subseteq Nat
  BY SizesAssumption DEF Byte
<1>3. s \in Seq(Nat)
  BY <1>1, <1>2, SeqMonotonic
<1>4. ASSUME s # <<>>
      PROVE  \E f \in 2 .. 14, w \in 0 .. 7, body \in Seq(Nat) : IsPiece(s, f, w, body)
  <2>1. PICK f \in 2 .. 14 : IsField(s, f)
    BY <1>1, <1>4
  <2>2. f \in 0 .. 15 /\ {0, 1, 2, 5} \subseteq 0 .. 7
    OBVIOUS
  <2>3. CASE \E v \in Word : s = AppendUint64(f, v)
    <3>1. PICK v \in Word : s = AppendUint64(f, v)
      BY <2>3
    <3>2. IsPiece(s, f, 0, AppendVarint[v])
      BY <2>2, <3>1, NumberPiece
    <3>3. AppendVarint[v] \in Seq(Nat)
      BY VarintIs
    <3>4. QED
      BY <2>2, <3>2, <3>3
  <2>4. ASSUME NEW n \in 0 .. Len(s)
        PROVE  SubSeq(s, n + 1, Len(s)) \in Seq(Nat)
    <3> DEFINE k == Len(s) - n
    <3>1. n \in Nat /\ k \in Nat /\ n + k = Len(s)
      BY <1>3, <2>4
    <3>2. SubSeq(s, n + 1, n + k) \in Seq(Nat)
      <4> HIDE DEF k
      <4>1. n + k <= Len(s)
        BY <1>3, <3>1
      <4>2. QED
        BY <1>3, <3>1, <4>1, SomeOf
    <3>3. QED
      BY <3>1, <3>2
  <2>5. CASE \E n \in 0 .. Len(s) :
               /\ s = AppendBytes(f, SubSeq(s, n + 1, Len(s)))
               /\ Len(SubSeq(s, n + 1, Len(s))) < WordSize \div 2
    <3>1. PICK n \in 0 .. Len(s) :
               /\ s = AppendBytes(f, SubSeq(s, n + 1, Len(s)))
               /\ Len(SubSeq(s, n + 1, Len(s))) < WordSize \div 2
      BY <2>5
    <3> DEFINE data == SubSeq(s, n + 1, Len(s))
    <3>2. data \in Seq(Nat) /\ s = AppendBytes(f, data) /\ Len(data) < WordSize \div 2
      BY <2>4, <3>1
    <3> HIDE DEF data
    <3>3. IsPiece(s, f, 2, AppendVarint[Len(data)] \o data)
      BY <2>2, <3>2, BytesPiece
    <3>4. AppendVarint[Len(data)] \o data \in Seq(Nat)
      BY <3>2, LengthBytes
    <3>5. QED
      BY <2>2, <3>3, <3>4
  <2>6. CASE \E n \in 0 .. Len(s) :
               /\ s = AppendFixed(f, SubSeq(s, n + 1, Len(s)))
               /\ Len(SubSeq(s, n + 1, Len(s))) \in {WordBytes, HalfBytes}
    <3>1. PICK n \in 0 .. Len(s) :
               /\ s = AppendFixed(f, SubSeq(s, n + 1, Len(s)))
               /\ Len(SubSeq(s, n + 1, Len(s))) \in {WordBytes, HalfBytes}
      BY <2>6
    <3> DEFINE data == SubSeq(s, n + 1, Len(s))
               w == IF Len(data) = WordBytes THEN 1 ELSE 5
    <3>2. /\ data \in Seq(Nat) /\ s = AppendFixed(f, data)
          /\ Len(data) \in {WordBytes, HalfBytes}
      BY <2>4, <3>1
    <3> HIDE DEF data
    <3>3. s = AppendTag(f, w) \o data
      BY <3>2 DEF AppendFixed
    <3>4. Body(w, data)
      BY <3>2 DEF Body
    <3>5. w \in 0 .. 7
      OBVIOUS
    <3> HIDE DEF w
    <3>6. IsPiece(s, f, w, data)
      BY <3>3, <3>4 DEF IsPiece
    <3>7. QED
      BY <3>2, <3>5, <3>6
  <2>7. CASE \E w \in {3, 4, 6, 7} : s = AppendTag(f, w)
    <3>1. PICK w \in {3, 4, 6, 7} : s = AppendTag(f, w)
      BY <2>7
    <3>2. s = AppendTag(f, w) \o <<>>
      BY <1>3, <3>1, ConcatEmptySeq
    <3>3. IsPiece(s, f, w, <<>>)
      BY <3>2 DEF IsPiece, Body
    <3>4. w \in 0 .. 7 /\ <<>> \in Seq(Nat)
      BY EmptySeq
    <3>5. QED
      BY <2>2, <3>3, <3>4
  <2>8. QED
    BY <2>1, <2>3, <2>5, <2>6, <2>7 DEF IsField
<1>5. QED
  BY <1>3, <1>4

(* Where the fields of an answer are read. *)
FieldPhases == {"error", "field"}

(* The field that is looked for is that of the guest. *)
Awaited == sent.status = "error" <=> at = "error"

(* The answer: the guest's field, and what may be around it. *)
Answer(pre, post) == pre \o GuestField(sent) \o post

(* b1, b2 and b3 are where the fields end. *)
FieldTrack(full, b1, b2, b3) ==
  \/ /\ tag = NoTag /\ r.pos \in {0, b1, b2, b3}
     /\ Awaited => r.pos <= b1
  \/ \E f \in 2 .. 14, w \in 0 .. 7, body \in Seq(Nat) :
       /\ tag = [field |-> f, wireType |-> w] /\ Body(w, body)
       /\ Holds(full, r.pos, body)
       /\ \/ r.pos + Len(body) = b1
          \/ r.pos + Len(body) = b3 /\ ~Awaited
  \/ /\ tag = [field |-> GuestNumber(sent), wireType |-> GuestWire(sent)]
     /\ ~IsSilent(sent) /\ Holds(full, r.pos, GuestBody(sent))
     /\ r.pos + Len(GuestBody(sent)) = b2
  \/ ~whole /\ r.pos = Len(resp)

(* The resp is such an answer, or the beginning of one. *)
FieldAt(pre, post) ==
  /\ CutOf(resp, Answer(pre, post)) /\ (whole => resp = Answer(pre, post))
  /\ FieldTrack(Answer(pre, post), Len(pre), Len(pre) + Len(GuestField(sent)),
                Len(Answer(pre, post)))

(* While fields are read. *)
FieldInv ==
  at \in FieldPhases =>
    /\ sent.op # "GoFunc" /\ Want # "nothing" /\ got = Blank
    /\ at = "field" => Want # "checked"
    /\ at = "field" /\ whole => sent.status # "error"
    /\ r \in PbReaders /\ r.data = resp
    /\ \E pre, post \in Others : FieldAt(pre, post)

(* A state in which the fields of an answer are read. *)
FieldState == Types /\ FieldInv /\ at \in FieldPhases

(* What a step of it has to keep. *)
Kept == FieldInv' /\ NodeInv' /\ DoneInv' /\ Types' /\ Bounds'

LEMMA WantFacts ==
  ASSUME FieldState
  PROVE  /\ sent \in Messages /\ sent.op # "GoFunc" /\ sent.op \in DOMAIN Entry
         /\ Want = WantFor(sent) /\ Want = Called(sent.op).answers
         /\ WantFor(sent) # "nothing" /\ IsAnswer(sent)
         /\ Awaited => ~IsSilent(sent)
         /\ Awaited <=> GuestNumber(sent) = Target
         /\ IsDecoded(sent) <=> sent.status # "error" /\ Want \notin NoEnvelope
<1>1. /\ sent \in Messages /\ sent.op # "GoFunc" /\ Want # "nothing"
      /\ at \in FieldPhases /\ (at = "field" => Want # "checked")
  BY DEF FieldState, FieldInv, Types
<1>2. sent.op \in DOMAIN Entry /\ IsAnswer(sent)
  BY <1>1, Answers
<1>3. Want = WantFor(sent) /\ Want = Decoder[sent.op]
  BY <1>1 DEF Want, WantFor
<1>4. Want = Called(sent.op).answers
  BY <1>1, <1>2, <1>3, WantIs
<1>5. Awaited => ~IsSilent(sent)
  BY <1>1, <1>4 DEF Awaited, IsSilent, FieldPhases
<1>6. Awaited <=> GuestNumber(sent) = Target
  BY <1>1 DEF Awaited, GuestNumber, Target, FieldPhases
<1>7. IsDecoded(sent) <=> sent.status # "error" /\ Want \notin NoEnvelope
  BY <1>1, <1>4 DEF IsDecoded
<1>8. QED
  BY <1>1, <1>2, <1>3, <1>4, <1>5, <1>6, <1>7

(* The bytes of the answer: the guest's field between two others. *)
LEMMA AnswerShape ==
  ASSUME NEW m \in Messages, m.op # "GoFunc", NEW pre \in Others, NEW post \in Others
  PROVE  LET mid == GuestField(m)
             full == pre \o mid \o post
             b1 == Len(pre)
             b2 == b1 + Len(mid)
         IN  /\ full \in Seq(Nat) /\ pre \in Seq(Nat) /\ mid \in Seq(Nat)
             /\ post \in Seq(Nat) /\ b1 \in Nat /\ b2 \in Nat /\ Len(full) \in Nat
             /\ Holds(full, 0, pre) /\ Holds(full, b1, mid) /\ Holds(full, b2, post)
             /\ Len(full) = b2 + Len(post)
             /\ pre = <<>> <=> b1 = 0
             /\ mid = <<>> <=> Len(mid) = 0
             /\ post = <<>> <=> Len(post) = 0
<1> DEFINE mid == GuestField(m)
<1>1. pre \in Seq(Nat) /\ mid \in Seq(Nat) /\ post \in Seq(Nat)
  BY GuestPiece, OtherPiece
<1> HIDE DEF mid
<1> DEFINE two == pre \o mid
           full == two \o post
<1>2. /\ two \in Seq(Nat) /\ full \in Seq(Nat)
      /\ Len(two) = Len(pre) + Len(mid) /\ Len(full) = Len(two) + Len(post)
  BY <1>1
<1>3. /\ \A i \in 1 .. Len(pre) : full[0 + i] = pre[i]
      /\ \A i \in 1 .. Len(mid) : full[Len(pre) + i] = mid[i]
      /\ \A i \in 1 .. Len(post) : full[Len(two) + i] = post[i]
  BY <1>1
<1>4. Len(pre) \in Nat /\ Len(mid) \in Nat /\ Len(post) \in Nat
  BY <1>1
<1>5. /\ pre = <<>> <=> Len(pre) = 0
      /\ mid = <<>> <=> Len(mid) = 0
      /\ post = <<>> <=> Len(post) = 0
  BY <1>1
<1> HIDE DEF two, full
<1>6. Holds(full, 0, pre) /\ Holds(full, Len(pre), mid)
      /\ Holds(full, Len(pre) + Len(mid), post)
  BY <1>2, <1>3, <1>4 DEF Holds
<1>7. QED
  BY <1>1, <1>2, <1>4, <1>5, <1>6 DEF mid, two, full

LEMMA FieldFacts ==
  ASSUME FieldState
  PROVE  /\ Types /\ at \in FieldPhases /\ got = Blank /\ whole \in BOOLEAN
         /\ r \in PbReaders /\ r.data = resp
         /\ at = "field" => Want # "checked"
         /\ at = "field" /\ whole => sent.status # "error"
         /\ \E pre, post \in Others : FieldAt(pre, post)
BY DEF FieldState, FieldInv, Types

LEMMA PbBounds ==
  ASSUME NEW q \in PbReaders
  PROVE  q.data \in Seq(Nat) /\ q.pos \in 0 .. Len(q.data)
BY PbFields

(* The next step is among the fields, too. *)
LEMMA FieldGoesOn ==
  ASSUME FieldState, UNCHANGED <<sent, whole, resp, got>>, at' \in FieldPhases,
         left' \in Nat, r' \in PbReaders, r'.data = resp,
         at' = "field" => Want # "checked",
         at' = "field" /\ whole => sent.status # "error",
         NEW pre \in Others, NEW post \in Others, FieldAt(pre, post)'
  PROVE  Kept
<1>1. /\ sent.op # "GoFunc" /\ Want # "nothing" /\ got = Blank
  BY DEF FieldState, FieldInv
<1>2. Want' = Want
  BY DEF Want
<1>3. FieldInv'
  BY <1>1, <1>2 DEF FieldInv
<1>4. at' \notin NodePhases /\ at' # "done" /\ at' \in Points
  BY DEF FieldPhases, NodePhases, Points
<1>5. NodeInv' /\ DoneInv'
  BY <1>4 DEF NodeInv, DoneInv
<1>6. Types'
  BY <1>4 DEF Types, FieldState
<1>7. Bounds'
  BY PbBounds DEF Bounds
<1>8. QED
  BY <1>3, <1>5, <1>6, <1>7 DEF Kept

(* One of the other fields begins where the reader is. *)
OtherAhead(full, b1, s, f, w, body) ==
  /\ IsPiece(s, f, w, body) /\ Holds(full, r.pos, s)
  /\ \/ r.pos + Len(s) = b1
     \/ r.pos + Len(s) = Len(full) /\ ~Awaited

LEMMA Between ==
  ASSUME NEW p \in Nat, NEW a \in Nat, NEW m \in Nat, NEW c \in Nat,
         p < a + m + c, p \in {0, a, a + m, a + m + c}
  PROVE  \/ p = 0 /\ a # 0
         \/ p = a /\ m # 0
         \/ p = a + m /\ c # 0
OBVIOUS

(* A field is not empty. *)
LEMMA PieceIsSome ==
  ASSUME NEW f \in 0 .. 15, NEW w \in 0 .. 7, NEW body, NEW s, IsPiece(s, f, w, body)
  PROVE  s # <<>>
<1>1. /\ AppendTag(f, w) \in Seq(Nat) /\ body \in Seq(Nat)
      /\ s = AppendTag(f, w) \o body
  BY BodyBytes, TagBytes DEF IsPiece
<1>2. Len(AppendTag(f, w)) > 0
  BY TagParts, VarintIs DEF AppendTag
<1>3. QED
  BY <1>1, <1>2

(* With data left, a field begins where the reader is. *)
LEMMA FieldBegins ==
  ASSUME FieldState, NEW pre \in Others, NEW post \in Others, FieldAt(pre, post),
         tag = NoTag, HasData(r)
  PROVE  LET full == Answer(pre, post)
             b1 == Len(pre)
             b2 == b1 + Len(GuestField(sent))
         IN  \/ \E f \in 2 .. 14, w \in 0 .. 7, body \in Seq(Nat), s \in Seq(Nat) :
                  OtherAhead(full, b1, s, f, w, body)
             \/ /\ ~IsSilent(sent) /\ Holds(full, r.pos, GuestField(sent))
                /\ r.pos + Len(GuestField(sent)) = b2
<1> DEFINE mid == GuestField(sent)
           full == Answer(pre, post)
           b1 == Len(pre)
           b2 == b1 + Len(mid)
           b3 == Len(full)
<1>1. /\ sent \in Messages /\ sent.op # "GoFunc" /\ (Awaited => ~IsSilent(sent))
      /\ r \in PbReaders /\ r.data = resp
  BY WantFacts, FieldFacts
<1>2. /\ full \in Seq(Nat) /\ pre \in Seq(Nat) /\ mid \in Seq(Nat)
      /\ post \in Seq(Nat) /\ b1 \in Nat /\ b2 \in Nat /\ b3 \in Nat
      /\ Holds(full, 0, pre) /\ Holds(full, b1, mid) /\ Holds(full, b2, post)
      /\ b3 = b2 + Len(post)
      /\ pre = <<>> <=> b1 = 0
      /\ mid = <<>> <=> Len(mid) = 0
      /\ post = <<>> <=> Len(post) = 0
  BY <1>1, AnswerShape DEF Answer
<1>3. CutOf(resp, full) /\ FieldTrack(full, b1, b2, b3)
  BY DEF FieldAt
<1>4. r.pos < Len(resp) /\ Len(resp) <= b3 /\ r.pos \in Nat /\ Len(resp) \in Nat
  BY <1>1, <1>3, PbFields, SMTT(40) DEF HasData, CutOf
<1>5. r.pos \in {0, b1, b2, b3} /\ (Awaited => r.pos <= b1)
  <2>1. /\ \A f \in 2 .. 14 : \A w : tag # [field |-> f, wireType |-> w]
        /\ \A w : tag # [field |-> GuestNumber(sent), wireType |-> w]
    BY <1>1, GuestPiece DEF NoTag
  <2>2. r.pos # Len(resp)
    BY <1>4
  <2> HIDE DEF full, b1, b2, b3
  <2>3. QED
    BY <1>3, <2>1, <2>2 DEF FieldTrack
<1>6. mid # <<>> => ~IsSilent(sent)
  BY <1>1, GuestPiece
<1>7. Awaited => mid # <<>>
  <2>1. ~IsSilent(sent) =>
          IsPiece(mid, GuestNumber(sent), GuestWire(sent), GuestBody(sent))
    BY <1>1, GuestPiece
  <2>2. /\ GuestNumber(sent) \in 0 .. 15 /\ GuestWire(sent) \in 0 .. 7
    BY <1>1, GuestPiece
  <2> HIDE DEF mid
  <2>3. QED
    BY <1>1, <2>1, <2>2, PieceIsSome
<1>8. /\ pre # <<>> => \E f \in 2 .. 14, w \in 0 .. 7, body \in Seq(Nat) :
           IsPiece(pre, f, w, body)
      /\ post # <<>> => \E f \in 2 .. 14, w \in 0 .. 7, body \in Seq(Nat) :
           IsPiece(post, f, w, body)
  BY OtherPiece
<1> HIDE DEF mid, full, b1, b2, b3
<1>9. \/ r.pos = 0 /\ pre # <<>>
      \/ r.pos = b1 /\ mid # <<>>
      \/ r.pos = b2 /\ post # <<>>
  <2> DEFINE lm == Len(mid)
             lp == Len(post)
  <2>1. lm \in Nat /\ lp \in Nat /\ b2 = b1 + lm /\ b3 = b2 + lp
    BY <1>2 DEF b2
  <2> HIDE DEF lm, lp
  <2>2. r.pos \in {0, b1, b1 + lm, b1 + lm + lp}
    BY <1>5, <2>1
  <2>3. r.pos < b1 + lm + lp /\ r.pos \in Nat /\ b1 \in Nat
    BY <1>2, <1>4, <2>1
  <2>4. \/ r.pos = 0 /\ b1 # 0
        \/ r.pos = b1 /\ lm # 0
        \/ r.pos = b2 /\ lp # 0
    BY <2>1, <2>2, <2>3, Between
  <2>5. QED
    BY <1>2, <2>4 DEF lm, lp
<1>10. CASE r.pos = 0 /\ pre # <<>>
  <2>1. r.pos + Len(pre) = b1
    BY <1>2, <1>10 DEF b1
  <2>2. PICK f \in 2 .. 14, w \in 0 .. 7, body \in Seq(Nat) : IsPiece(pre, f, w, body)
    BY <1>8, <1>10
  <2>3. pre \in Seq(Nat) /\ Holds(full, r.pos, pre)
    BY <1>2, <1>10
  <2>4. \E g \in 2 .. 14, v \in 0 .. 7, rest \in Seq(Nat), s \in Seq(Nat) :
          OtherAhead(full, b1, s, g, v, rest)
    <3>1. OtherAhead(full, b1, pre, f, w, body)
      BY <2>1, <2>2, <2>3 DEF OtherAhead
    <3>2. QED
      BY <2>2, <2>3, <3>1
  <2>5. QED
    BY <2>4 DEF full, b1
<1>11. CASE r.pos = b1 /\ mid # <<>>
  <2>1. r.pos + Len(mid) = b2
    BY <1>11 DEF b2
  <2>2. QED
    BY <1>2, <1>6, <1>11, <2>1 DEF full, b1, b2, mid
<1>12. CASE r.pos = b2 /\ post # <<>> /\ ~(r.pos = b1 /\ mid # <<>>)
  <2>1. r.pos + Len(post) = b3
    BY <1>2, <1>12
  <2>2. ~Awaited
    <3>1. ASSUME Awaited PROVE FALSE
      <4>1. b2 <= b1 /\ mid # <<>>
        BY <1>5, <1>7, <1>12, <3>1
      <4>2. Len(mid) \in Nat /\ Len(mid) # 0 /\ b2 = b1 + Len(mid)
        BY <1>2, <4>1 DEF b2
      <4>3. QED
        BY <1>2, <4>1, <4>2
    <3>2. QED
      BY <3>1
  <2>3. PICK f \in 2 .. 14, w \in 0 .. 7, body \in Seq(Nat) : IsPiece(post, f, w, body)
    BY <1>8, <1>12
  <2>4. post \in Seq(Nat) /\ Holds(full, r.pos, post) /\ b3 = Len(full)
    BY <1>2, <1>12 DEF b3
  <2>5. \E g \in 2 .. 14, v \in 0 .. 7, rest \in Seq(Nat), s \in Seq(Nat) :
          OtherAhead(full, b1, s, g, v, rest)
    <3>1. OtherAhead(full, b1, post, f, w, body)
      BY <2>1, <2>2, <2>3, <2>4 DEF OtherAhead
    <3>2. QED
      BY <2>3, <2>4, <3>1
  <2>6. QED
    BY <2>5 DEF full, b1
<1>13. QED
  BY <1>9, <1>10, <1>11, <1>12

-----------------------------------------------------------------------------
(***************************************************************************)
(* A step over a field of the answer.                                      *)
(***************************************************************************)

(* The tag of a piece is read. *)
LEMMA PieceTag ==
  ASSUME NEW q \in PbReaders, NEW full \in Seq(Nat), CutOf(q.data, full),
         NEW f \in 0 .. 15, NEW w \in 0 .. 7, NEW body, NEW s,
         IsPiece(s, f, w, body), Holds(full, q.pos, s)
  PROVE  /\ NextTag(q).r \in PbReaders /\ NextTag(q).r.data = q.data
         /\ \/ /\ NextTag(q).field = f /\ NextTag(q).wireType = w
               /\ Holds(full, NextTag(q).r.pos, body)
               /\ NextTag(q).r.pos + Len(body) = q.pos + Len(s)
            \/ NextTag(q).r.pos = Len(q.data) /\ q.data # full
<1> DEFINE next == NextTag(q)
<1>2. next = NextTag(q)
  BY SMTT(40)
<1> HIDE DEF next
<1>3. /\ next.r \in PbReaders /\ next.r.data = q.data
      /\ \/ /\ next.field = f /\ next.wireType = w
            /\ Holds(full, next.r.pos, body)
            /\ next.r.pos + Len(body) = q.pos + Len(s)
         \/ next.r.pos = Len(q.data) /\ q.data # full
  BY <1>2, TagRead, SMTT(40)
<1>4. QED
  BY <1>3 DEF next

LEMMA FieldReadTagStep ==
  ASSUME FieldState, ReadTag
  PROVE  Kept
<1> DEFINE next == NextTag(r)
<1>1. /\ Types /\ at \in FieldPhases /\ r \in PbReaders /\ r.data = resp
      /\ at = "field" => Want # "checked"
      /\ at = "field" /\ whole => sent.status # "error"
      /\ sent \in Messages /\ sent.op # "GoFunc" /\ left \in Nat
  BY FieldFacts, WantFacts DEF Types
<1>2. /\ tag = NoTag /\ HasData(r) /\ r' = next.r
      /\ tag' = [field |-> next.field, wireType |-> next.wireType]
      /\ UNCHANGED <<sent, whole, resp, at, left, got>>
  BY DEF ReadTag
<1>3. PICK pre \in Others, post \in Others : FieldAt(pre, post)
  BY FieldFacts
<1> DEFINE mid == GuestField(sent)
           full == Answer(pre, post)
           b1 == Len(pre)
           b2 == b1 + Len(mid)
           b3 == Len(full)
<1>4. full \in Seq(Nat) /\ CutOf(resp, full) /\ (whole => resp = full)
  BY <1>1, <1>3, AnswerShape DEF FieldAt, Answer
<1>5. /\ GuestNumber(sent) \in 0 .. 15 /\ GuestWire(sent) \in 0 .. 7
      /\ ~IsSilent(sent) =>
           IsPiece(mid, GuestNumber(sent), GuestWire(sent), GuestBody(sent))
  BY <1>1, GuestPiece
<1>6. Awaited' = Awaited /\ IsSilent(sent') = IsSilent(sent)
  BY <1>2 DEF Awaited
<1>7. \/ \E f \in 2 .. 14, w \in 0 .. 7, body \in Seq(Nat), s \in Seq(Nat) :
           OtherAhead(full, b1, s, f, w, body)
      \/ ~IsSilent(sent) /\ Holds(full, r.pos, mid) /\ r.pos + Len(mid) = b2
  BY <1>2, <1>3, FieldBegins
<1>8. ASSUME next.r \in PbReaders, next.r.data = r.data, FieldTrack(full, b1, b2, b3)'
      PROVE  Kept
  <2>1. FieldAt(pre, post)'
    BY <1>2, <1>4, <1>8, SMTT(40) DEF FieldAt, Answer
  <2>2. QED
    BY <1>1, <1>2, <1>3, <1>8, <2>1, FieldGoesOn
<1>9. ASSUME next.r.pos = Len(r.data), r.data # full
      PROVE  FieldTrack(full, b1, b2, b3)'
  BY <1>1, <1>2, <1>4, <1>9 DEF FieldTrack
<1>13. full' = full /\ b1' = b1 /\ b2' = b2 /\ b3' = b3
  BY <1>2, SMTT(40) DEF Answer
(* The tag of a piece. *)
<1>14. ASSUME NEW f \in 0 .. 15, NEW w \in 0 .. 7, NEW body, NEW s, IsPiece(s, f, w, body),
              Holds(full, r.pos, s)
       PROVE  /\ next.r \in PbReaders /\ next.r.data = r.data
              /\ \/ /\ next.field = f /\ next.wireType = w
                    /\ Holds(full, next.r.pos, body)
                    /\ next.r.pos + Len(body) = r.pos + Len(s)
                 \/ next.r.pos = Len(r.data) /\ r.data # full
  <2>1. CutOf(r.data, full) /\ full \in Seq(Nat)
    BY <1>1, <1>4
  <2> HIDE DEF full
  <2>2. QED
    BY <1>1, <1>14, <2>1, PieceTag, SMTT(40)
<1> HIDE DEF next, mid, full, b1, b2, b3
<1>10. CASE \E f \in 2 .. 14, w \in 0 .. 7, body \in Seq(Nat), s \in Seq(Nat) :
              OtherAhead(full, b1, s, f, w, body)
  <2>1. PICK f \in 2 .. 14, w \in 0 .. 7, body \in Seq(Nat), s \in Seq(Nat) :
              OtherAhead(full, b1, s, f, w, body)
    BY <1>10
  <2>2. /\ IsPiece(s, f, w, body) /\ Body(w, body) /\ Holds(full, r.pos, s)
        /\ \/ r.pos + Len(s) = b1
           \/ r.pos + Len(s) = b3 /\ ~Awaited
    BY <2>1 DEF OtherAhead, IsPiece, b3
  <2>3. f \in 0 .. 15
    OBVIOUS
  <2>4. /\ next.r \in PbReaders /\ next.r.data = r.data
        /\ \/ /\ next.field = f /\ next.wireType = w
              /\ Holds(full, next.r.pos, body)
              /\ next.r.pos + Len(body) = r.pos + Len(s)
           \/ next.r.pos = Len(r.data) /\ r.data # full
    BY <1>14, <2>2, <2>3
  <2>5. CASE next.r.pos = Len(r.data) /\ r.data # full
    BY <1>8, <1>9, <2>4, <2>5
  <2>6. CASE /\ next.field = f /\ next.wireType = w
             /\ Holds(full, next.r.pos, body)
             /\ next.r.pos + Len(body) = r.pos + Len(s)
    <3>1. /\ tag' = [field |-> f, wireType |-> w] /\ Body(w, body)
          /\ Holds(full, r'.pos, body)
          /\ \/ r'.pos + Len(body) = b1
             \/ r'.pos + Len(body) = b3 /\ ~Awaited'
      BY <1>2, <1>6, <2>2, <2>6, SMTT(40)
    <3>2. FieldTrack(full, b1, b2, b3)'
      <4>1. \E f0 \in 2 .. 14, w0 \in 0 .. 7, body0 \in Seq(Nat) :
              /\ tag' = [field |-> f0, wireType |-> w0] /\ Body(w0, body0)
              /\ Holds(full, r'.pos, body0)
              /\ \/ r'.pos + Len(body0) = b1
                 \/ r'.pos + Len(body0) = b3 /\ ~Awaited'
        BY <2>1, <3>1
      <4>2. QED
        BY <1>13, <4>1 DEF FieldTrack
    <3>3. QED
      BY <1>8, <2>4, <3>2
  <2>7. QED
    BY <2>4, <2>5, <2>6
<1>11. CASE ~IsSilent(sent) /\ Holds(full, r.pos, mid) /\ r.pos + Len(mid) = b2
  <2> DEFINE f == GuestNumber(sent)
             w == GuestWire(sent)
             body == GuestBody(sent)
  <2>1. f \in 0 .. 15 /\ w \in 0 .. 7 /\ IsPiece(mid, f, w, body)
    BY <1>5, <1>11
  <2> HIDE DEF f, w, body
  <2>2. /\ next.r \in PbReaders /\ next.r.data = r.data
        /\ \/ /\ next.field = f /\ next.wireType = w
              /\ Holds(full, next.r.pos, body)
              /\ next.r.pos + Len(body) = r.pos + Len(mid)
           \/ next.r.pos = Len(r.data) /\ r.data # full
    BY <1>11, <1>14, <2>1
  <2>3. CASE next.r.pos = Len(r.data) /\ r.data # full
    BY <1>8, <1>9, <2>2, <2>3
  <2>4. CASE /\ next.field = f /\ next.wireType = w
             /\ Holds(full, next.r.pos, body)
             /\ next.r.pos + Len(body) = r.pos + Len(mid)
    <3>1. /\ tag' = [field |-> f, wireType |-> w]
          /\ Holds(full, r'.pos, body) /\ r'.pos + Len(body) = b2
      BY <1>2, <1>11, <2>4
    <3>2. /\ tag' = [field |-> GuestNumber(sent'), wireType |-> GuestWire(sent')]
          /\ ~IsSilent(sent') /\ Holds(full, r'.pos, GuestBody(sent'))
          /\ r'.pos + Len(GuestBody(sent')) = b2
      BY <1>2, <1>11, <3>1, SMTT(40) DEF f, w, body
    <3>3. FieldTrack(full, b1, b2, b3)'
      BY <1>13, <3>2 DEF FieldTrack
    <3>4. QED
      BY <1>8, <2>2, <3>3
  <2>5. QED
    BY <2>2, <2>3, <2>4
<1>12. QED
  BY <1>7, <1>10, <1>11

(* Without bytes left, nothing is read. *)
LEMMA AtTheEnd ==
  ASSUME NEW q \in PbReaders, q.pos = Len(q.data)
  PROVE  /\ \A w : /\ Skip(q, w) \in PbReaders /\ Skip(q, w).data = q.data
                   /\ Skip(q, w).pos = Len(q.data)
         /\ ReadBytes(q).v = <<>> /\ ReadBytes(q).r \in PbReaders
         /\ ReadVarint(q).v = 0 /\ ReadVarint(q).r \in PbReaders
<1> DEFINE p == Len(q.data)
           end == [q EXCEPT !.pos = p]
<1>1. p \in 0 .. Len(q.data)
  BY PbFields
<1>2. end \in PbReaders /\ end.data = q.data /\ end.pos = p
  <2> HIDE DEF p
  <2>1. QED
    BY <1>1, AtPosition
<1>3. /\ \A w : Skip(q, w) = end
      /\ ReadBytes(q) = [v |-> <<>>, r |-> end]
      /\ ReadVarint(q) = [v |-> 0, r |-> end]
  BY NothingAtEnd, VarintAtEnd, SMTT(40)
<1> HIDE DEF end
<1>4. QED
  BY <1>2, <1>3

LEMMA SkipFieldStep ==
  ASSUME FieldState, SkipField
  PROVE  Kept
<1>1. /\ Types /\ at \in FieldPhases /\ r \in PbReaders /\ r.data = resp
      /\ at = "field" => Want # "checked"
      /\ at = "field" /\ whole => sent.status # "error"
      /\ sent \in Messages /\ sent.op # "GoFunc"
      /\ (Awaited <=> GuestNumber(sent) = Target)
  BY FieldFacts, WantFacts DEF Types
<1> DEFINE after == Skip(r, tag.wireType)
<1>2. /\ tag # NoTag /\ tag.field # Target /\ at' = at /\ r' = after
      /\ tag' = NoTag /\ left' = 0
      /\ UNCHANGED <<sent, whole, resp, got>>
  BY <1>1 DEF SkipField, GoOn, FieldPhases
<1>3. PICK pre \in Others, post \in Others : FieldAt(pre, post)
  BY FieldFacts
<1> DEFINE mid == GuestField(sent)
           full == Answer(pre, post)
           b1 == Len(pre)
           b2 == b1 + Len(mid)
           b3 == Len(full)
<1>4. full \in Seq(Nat) /\ CutOf(resp, full) /\ (whole => resp = full)
  BY <1>1, <1>3, AnswerShape DEF FieldAt, Answer
<1>5. FieldTrack(full, b1, b2, b3)
  BY <1>3 DEF FieldAt
<1>6. Awaited' = Awaited
  BY <1>2 DEF Awaited
<1>7. full' = full /\ b1' = b1 /\ b2' = b2 /\ b3' = b3
  BY <1>2 DEF Answer
<1>8. ASSUME after \in PbReaders, after.data = r.data,
             \/ after.pos \in {b1, b2, b3} /\ (Awaited => after.pos = b1)
             \/ after.pos = Len(r.data) /\ ~whole
      PROVE  Kept
  <2>1. FieldTrack(full, b1, b2, b3)'
    <3>1. \/ r'.pos \in {b1, b2, b3} /\ (Awaited' => r'.pos = b1)
          \/ r'.pos = Len(resp) /\ ~whole
      BY <1>1, <1>2, <1>6, <1>8
    <3> HIDE DEF full, b1, b2, b3, after
    <3>2. CASE r'.pos \in {b1, b2, b3} /\ (Awaited' => r'.pos = b1)
      <4>1. Awaited' => r'.pos <= b1'
        <5>1. b1 \in Nat
          BY <1>1, <1>3, AnswerShape DEF b1
        <5>2. QED
          BY <1>7, <3>2, <5>1
      <4>2. r'.pos \in {0, b1', b2', b3'} /\ tag' = NoTag
        BY <1>2, <1>7, <3>2
      <4>3. QED
        BY <4>1, <4>2 DEF FieldTrack
    <3>3. CASE r'.pos = Len(resp) /\ ~whole
      BY <1>2, <3>3 DEF FieldTrack
    <3>4. QED
      BY <3>1, <3>2, <3>3
  <2>2. FieldAt(pre, post)'
    BY <1>2, <1>4, <2>1 DEF FieldAt, Answer
  <2>3. at' \in FieldPhases /\ left' \in Nat /\ r' \in PbReaders /\ r'.data = resp
        /\ (at' = "field" => Want # "checked")
        /\ (at' = "field" /\ whole => sent.status # "error")
    BY <1>1, <1>2, <1>8
  <2>4. QED
    BY <1>2, <1>3, <2>2, <2>3, FieldGoesOn
<1>9. ASSUME NEW w, NEW s, tag.wireType = w, Body(w, s), Holds(full, r.pos, s)
      PROVE  /\ after \in PbReaders /\ after.data = r.data
             /\ \/ after.pos = r.pos + Len(s)
                \/ after.pos = Len(r.data) /\ ~whole
  <2>1. CutOf(r.data, full) /\ full \in Seq(Nat) /\ (r.data # full => ~whole)
    BY <1>1, <1>4
  <2>2. after = Skip(r, w)
    BY <1>9
  <2> HIDE DEF full, after
  <2>3. /\ Skip(r, w) \in PbReaders /\ Skip(r, w).data = r.data
        /\ \/ Skip(r, w).pos = r.pos + Len(s)
           \/ Skip(r, w).pos = Len(r.data) /\ r.data # full
    BY <1>1, <1>9, <2>1, FieldSkipped
  <2>4. QED
    BY <2>1, <2>2, <2>3
<1> HIDE DEF after, mid, full, b1, b2, b3
<1>10. CASE \E f \in 2 .. 14, w \in 0 .. 7, body \in Seq(Nat) :
              /\ tag = [field |-> f, wireType |-> w] /\ Body(w, body)
              /\ Holds(full, r.pos, body)
              /\ \/ r.pos + Len(body) = b1
                 \/ r.pos + Len(body) = b3 /\ ~Awaited
  <2>1. PICK f \in 2 .. 14, w \in 0 .. 7, body \in Seq(Nat) :
              /\ tag = [field |-> f, wireType |-> w] /\ Body(w, body)
              /\ Holds(full, r.pos, body)
              /\ \/ r.pos + Len(body) = b1
                 \/ r.pos + Len(body) = b3 /\ ~Awaited
    BY <1>10
  <2>2. tag.wireType = w
    BY <2>1
  <2>3. /\ after \in PbReaders /\ after.data = r.data
        /\ \/ after.pos = r.pos + Len(body)
           \/ after.pos = Len(r.data) /\ ~whole
    BY <1>9, <2>1, <2>2
  <2>4. QED
    BY <1>8, <2>1, <2>3, SMTT(40)
<1>11. CASE /\ tag = [field |-> GuestNumber(sent), wireType |-> GuestWire(sent)]
            /\ ~IsSilent(sent) /\ Holds(full, r.pos, GuestBody(sent))
            /\ r.pos + Len(GuestBody(sent)) = b2
  <2>1. tag.wireType = GuestWire(sent) /\ tag.field = GuestNumber(sent)
    BY <1>11
  <2>2. ~Awaited
    BY <1>1, <1>2, <2>1
  <2>3. Body(GuestWire(sent), GuestBody(sent))
    BY <1>1, <1>11, GuestPiece DEF IsPiece
  <2>4. /\ after \in PbReaders /\ after.data = r.data
        /\ \/ after.pos = r.pos + Len(GuestBody(sent))
           \/ after.pos = Len(r.data) /\ ~whole
    BY <1>9, <1>11, <2>1, <2>3
  <2>5. QED
    BY <1>8, <1>11, <2>2, <2>4
<1>12. CASE ~whole /\ r.pos = Len(resp)
  <2>1. after \in PbReaders /\ after.data = r.data /\ after.pos = Len(r.data)
    BY <1>1, <1>12, AtTheEnd DEF after
  <2>2. QED
    BY <1>8, <1>12, <2>1
<1>13. QED
  BY <1>2, <1>5, <1>10, <1>11, <1>12, ZenonT(40) DEF FieldTrack

(* The answer is known. *)
LEMMA FieldEnds ==
  ASSUME FieldState, NEW outcome, NEW q \in PbReaders, Done(outcome, q),
         Recorded(outcome),
         \/ outcome = Expected(sent)
         \/ ~whole /\ outcome.status \in {"error", "malformed"}
         \/ ~whole /\ Want \in NoEnvelope
  PROVE  Kept
<1>1. /\ at' = "done" /\ got' = outcome /\ r' = q /\ UNCHANGED <<sent, whole>>
  BY DEF Done
<1>2. Want' = Want
  BY <1>1 DEF Want
<1>3. FieldInv' /\ NodeInv'
  BY <1>1 DEF FieldInv, NodeInv, FieldPhases, NodePhases
<1>4. DoneInv'
  BY <1>1, <1>2 DEF DoneInv
<1>5. Types'
  BY DoneTypes DEF FieldState
<1>6. Bounds'
  BY <1>1, PbBounds DEF Bounds
<1>7. QED
  BY <1>3, <1>4, <1>5, <1>6 DEF Kept

LEMMA ErrorIs ==
  ASSUME NEW m \in Messages, m.op # "GoFunc", m.status = "error",
         WantFor(m) # "nothing"
  PROVE  Expected(m) = Outcome("error", <<>>, <<m.texts[1]>>, 0)
<1>1. IsAnswer(m)
  BY Answers
<1>2. m.num = 0 /\ Len(m.entries) = 0 /\ Len(m.texts) = 1
  BY <1>1 DEF IsAnswer, Counts
<1>3. Vals(m) = <<>> /\ m.texts = <<m.texts[1]>>
  BY <1>2, NoVals
<1>4. Expected(m) = Sent(m)
  BY ExpectedIs, SMTT(40)
<1>5. QED
  BY <1>2, <1>3, <1>4 DEF Sent

LEMMA ErrorFoundStep ==
  ASSUME FieldState, ErrorFound
  PROVE  Kept
<1>1. /\ Types /\ at = "error" /\ r \in PbReaders /\ r.data = resp
      /\ sent \in Messages /\ sent.op # "GoFunc" /\ WantFor(sent) # "nothing"
      /\ tag.field = 15
  BY FieldFacts, WantFacts DEF ErrorFound, Target
<1> DEFINE b == ReadBytes(r)
           outcome == Outcome("error", <<>>, <<b.v>>, 0)
<1>2. Done(outcome, b.r)
  BY DEF ErrorFound
<1>3. PICK pre \in Others, post \in Others : FieldAt(pre, post)
  BY FieldFacts
<1> DEFINE full == Answer(pre, post)
           b1 == Len(pre)
           b2 == b1 + Len(GuestField(sent))
           b3 == Len(full)
<1>4. full \in Seq(Nat) /\ CutOf(r.data, full) /\ (r.data # full => ~whole)
  BY <1>1, <1>3, AnswerShape DEF FieldAt, Answer
<1>5. FieldTrack(full, b1, b2, b3)
  BY <1>3 DEF FieldAt
<1>6. Recorded(outcome) /\ outcome.status = "error"
  BY OutcomesRecorded DEF Outcome, Statuses
<1>7. ASSUME b.r \in PbReaders, ~whole \/ outcome = Expected(sent)
      PROVE  Kept
  <2>1. \/ outcome = Expected(sent)
        \/ ~whole /\ outcome.status \in {"error", "malformed"}
    BY <1>6, <1>7
  <2> HIDE DEF outcome, b
  <2>2. QED
    BY <1>2, <1>6, <1>7, <2>1, FieldEnds
<1> HIDE DEF full, b1, b2, b3
<1>8. tag # NoTag /\ \A f \in 2 .. 14 : \A w : tag # [field |-> f, wireType |-> w]
  BY <1>1 DEF NoTag
<1>9. CASE /\ tag = [field |-> GuestNumber(sent), wireType |-> GuestWire(sent)]
           /\ ~IsSilent(sent) /\ Holds(full, r.pos, GuestBody(sent))
  <2> DEFINE s == GuestData(sent)
  <2>1. GuestNumber(sent) = 15
    BY <1>1, <1>9
  <2>2. sent.status = "error"
    BY <2>1 DEF GuestNumber
  <2>3. GuestWire(sent) = 2 /\ s = sent.texts[1]
    BY <2>2 DEF GuestWire, GuestData
  <2>4. s \in Seq(Nat) /\ Len(s) < WordSize \div 2
        /\ GuestBody(sent) = AppendVarint[Len(s)] \o s
    BY <1>1, <1>9, <2>3, GuestPiece
  <2>5. IsPacked(GuestBody(sent), s)
    BY <2>4 DEF IsPacked
  <2> DEFINE body == GuestBody(sent)
  <2>9. /\ r \in PbReaders /\ full \in Seq(Nat) /\ CutOf(r.data, full)
        /\ s \in Seq(Nat) /\ Len(s) < WordSize \div 2
        /\ IsPacked(body, s) /\ Holds(full, r.pos, body)
    BY <1>1, <1>4, <1>9, <2>4, <2>5
  <2> HIDE DEF s, body
  <2>6. ReadBytes(r).r \in PbReaders /\ (ReadBytes(r).v = s \/ r.data # full)
    BY <2>9, BytesFound
  <2>7. Expected(sent) = Outcome("error", <<>>, <<s>>, 0)
    BY <1>1, <2>2, <2>3, ErrorIs
  <2>8. QED
    BY <1>4, <1>7, <2>6, <2>7
<1>10. CASE ~whole /\ r.pos = Len(resp)
  BY <1>1, <1>7, <1>10, AtTheEnd
<1>11. QED
  BY <1>5, <1>8, <1>9, <1>10, ZenonT(40) DEF FieldTrack

(* Behind all the bytes, the field that is looked for is not there. *)
LEMMA NothingFound ==
  ASSUME FieldState, tag = NoTag, ~HasData(r), whole
  PROVE  ~Awaited
<1>1. /\ at \in FieldPhases /\ r \in PbReaders /\ r.data = resp
      /\ sent \in Messages /\ sent.op # "GoFunc"
      /\ (Awaited => ~IsSilent(sent))
  BY FieldFacts, WantFacts
<1>2. PICK pre \in Others, post \in Others : FieldAt(pre, post)
  BY FieldFacts
<1> DEFINE mid == GuestField(sent)
           full == Answer(pre, post)
           b1 == Len(pre)
           b2 == b1 + Len(mid)
           b3 == Len(full)
<1>3. /\ full \in Seq(Nat) /\ b1 \in Nat /\ b3 = b2 + Len(post) /\ Len(post) \in Nat
      /\ mid \in Seq(Nat) /\ (Len(mid) = 0 => mid = <<>>)
  BY <1>1, <1>2, AnswerShape DEF Answer
<1>4. resp = full /\ FieldTrack(full, b1, b2, b3)
  BY <1>2 DEF FieldAt
<1>5. r.pos = Len(full)
  <2>1. r.pos <= Len(r.data) /\ r.pos \in Nat
    BY <1>1, PbFields
  <2>2. r.data = full /\ Len(full) \in Nat /\ ~(r.pos < Len(r.data))
    BY <1>1, <1>3, <1>4, SMTT(40) DEF HasData
  <2> HIDE DEF full
  <2>3. QED
    BY <2>1, <2>2
<1>6. Awaited => r.pos <= b1
  <2>1. /\ \A f \in 2 .. 14 : \A w : tag # [field |-> f, wireType |-> w]
        /\ \A w : tag # [field |-> GuestNumber(sent), wireType |-> w]
    BY <1>1, GuestPiece DEF NoTag
  <2> HIDE DEF full, b1, b2, b3
  <2>2. QED
    BY <1>4, <2>1 DEF FieldTrack
<1>7. Awaited => mid # <<>>
  <2>1. ~IsSilent(sent) =>
          IsPiece(mid, GuestNumber(sent), GuestWire(sent), GuestBody(sent))
    BY <1>1, GuestPiece
  <2>2. GuestNumber(sent) \in 0 .. 15 /\ GuestWire(sent) \in 0 .. 7
    BY <1>1, GuestPiece
  <2> HIDE DEF mid
  <2>3. QED
    BY <1>1, <2>1, <2>2, PieceIsSome
<1>8. Len(mid) \in Nat
  BY <1>3
<1> DEFINE k == Len(mid)
           c == Len(post)
<1>9. k \in Nat /\ c \in Nat /\ b3 = b1 + k + c /\ (k = 0 => mid = <<>>)
  BY <1>3, <1>8
<1> HIDE DEF k, c
<1>10. r.pos = b3
  BY <1>5
<1> HIDE DEF mid, b1, b2, b3, full
<1>11. QED
  BY <1>3, <1>6, <1>7, <1>9, <1>10

(* An answer without an envelope is a number, or nothing. *)
LEMMA PlainAnswer ==
  ASSUME NEW m \in Messages, m.op # "GoFunc", m.status # "error",
         WantFor(m) = Called(m.op).answers, WantFor(m) \in NoEnvelope
  PROVE  /\ Expected(m) = Outcome("ok", <<>>, <<>>, m.num)
         /\ WantFor(m) = "checked" => m.num = 0
         /\ WantFor(m) = "word" => m.num \in Word
         /\ WantFor(m) = "half" => m.num \in 0 .. HalfSize - 1
<1>1. IsAnswer(m)
  BY Answers
<1> DEFINE w == WantFor(m)
<1>2. Called(m.op).answers = w /\ w \in {"checked", "word", "half"}
  BY DEF NoEnvelope
<1>3. w \notin {"nothing", "items", "node"}
  BY <1>2
<1> HIDE DEF w
<1>4. m.status = "ok"
  BY <1>1, <1>2 DEF IsAnswer, NoEnvelope
<1>5. /\ Len(m.entries) = 0 /\ Len(m.texts) = 0
      /\ w = "checked" => m.num = 0
      /\ w = "word" => m.num \in Word
      /\ w = "half" => m.num \in 0 .. HalfSize - 1
  <2>1. CASE w = "checked"
    BY <1>1, <1>2, <1>4, <2>1 DEF IsAnswer, Counts
  <2>2. CASE w = "word"
    BY <1>1, <1>2, <1>4, <2>2 DEF IsAnswer, Counts
  <2>3. CASE w = "half"
    BY <1>1, <1>2, <1>4, <2>3 DEF IsAnswer, Counts
  <2>4. QED
    BY <1>2, <2>1, <2>2, <2>3
<1>6. Vals(m) = <<>> /\ m.texts = <<>> /\ m.op \notin DOMAIN As
  BY <1>3, <1>5, NoVals DEF w
<1>7. Expected(m) = Sent(m)
  BY <1>3, <1>6, ExpectedIs DEF w
<1>8. QED
  BY <1>4, <1>5, <1>6, <1>7 DEF Sent, w

LEMMA NoErrorStep ==
  ASSUME FieldState, NoError
  PROVE  Kept
<1>1. /\ Types /\ at = "error" /\ r \in PbReaders /\ r.data = resp
      /\ sent \in Messages /\ sent.op # "GoFunc" /\ WantFor(sent) # "nothing"
      /\ Want = WantFor(sent) /\ Want = Called(sent.op).answers
      /\ tag = NoTag /\ ~HasData(r) /\ got = Blank /\ whole \in BOOLEAN
  BY FieldFacts, WantFacts DEF NoError
<1>2. whole => sent.status # "error"
  BY <1>1, NothingFound DEF Awaited
<1>3. CASE Want = "checked"
  <2> DEFINE outcome == Outcome("ok", <<>>, <<>>, 0)
  <2>1. Done(outcome, r)
    BY <1>3, SMTT(40) DEF NoError
  <2>2. Recorded(outcome)
    BY OutcomesRecorded DEF Statuses
  <2>3. Want \in NoEnvelope
    BY <1>3 DEF NoEnvelope
  <2>4. whole => outcome = Expected(sent)
    BY <1>1, <1>2, <1>3, <2>3, PlainAnswer
  <2> HIDE DEF outcome
  <2>5. QED
    BY <1>1, <2>1, <2>2, <2>3, <2>4, FieldEnds
<1>4. CASE Want # "checked"
  <2> DEFINE q == Reader(resp)
  <2>1. GoOn("field", q, 0) /\ got' = got
    BY <1>4 DEF NoError
  <2>2. /\ at' = "field" /\ r' = q /\ left' = 0 /\ tag' = NoTag
        /\ UNCHANGED <<sent, whole, resp, got>>
    BY <2>1 DEF GoOn
  <2>3. resp \in Seq(Nat)
    BY <1>1, PbFields
  <2>4. q \in PbReaders /\ q.data = resp /\ q.pos = 0
    <3>1. Len(resp) \in Nat /\ 0 \in 0 .. Len(resp)
      BY <2>3
    <3>2. QED
      BY <2>3, <3>1 DEF Reader, PbReaders
  <2>5. PICK pre \in Others, post \in Others : FieldAt(pre, post)
    BY FieldFacts
  <2> DEFINE full == Answer(pre, post)
             b1 == Len(pre)
             b2 == b1 + Len(GuestField(sent))
             b3 == Len(full)
  <2>6. CutOf(resp, full) /\ (whole => resp = full)
    BY <2>5 DEF FieldAt
  <2>7. full' = full /\ b1' = b1 /\ b2' = b2 /\ b3' = b3 /\ b1 \in Nat
    BY <1>1, <2>2, <2>5, AnswerShape DEF Answer
  <2> HIDE DEF q
  <2>8. FieldTrack(full, b1, b2, b3)'
    <3> HIDE DEF full, b1, b2, b3
    <3>1. tag' = NoTag /\ r'.pos = 0 /\ 0 <= b1'
      BY <2>2, <2>4, <2>7
    <3>2. QED
      BY <3>1 DEF FieldTrack
  <2>9. FieldAt(pre, post)'
    BY <2>2, <2>6, <2>8 DEF FieldAt, Answer
  <2>10. at' \in FieldPhases /\ left' \in Nat /\ r' \in PbReaders /\ r'.data = resp
         /\ (at' = "field" => Want # "checked")
         /\ (at' = "field" /\ whole => sent.status # "error")
    BY <1>2, <1>4, <2>2, <2>4 DEF FieldPhases
  <2>11. QED
    BY <2>2, <2>5, <2>9, <2>10, FieldGoesOn
<1>5. QED
  BY <1>3, <1>4

LEMMA NothingIsCut ==
  ASSUME NEW m \in Messages, m.op # "GoFunc", IsDecoded(m)
  PROVE  CutOf(<<>>, GuestEnvelope(m))
<1> DEFINE data == <<>>
<1>1. GuestEnvelope(m) \in Seq(Nat)
  BY FullShape DEF Full
<1>2. Len(data) = 0 /\ Len(GuestEnvelope(m)) \in Nat
  BY <1>1
<1> HIDE DEF data
<1>3. CutOf(data, GuestEnvelope(m))
  BY <1>2 DEF CutOf
<1>4. QED
  BY <1>3 DEF data

(* The envelope is read. *)
LEMMA EnvelopeBegins ==
  ASSUME FieldState, at = "field", Want \notin NoEnvelope, NEW data \in Seq(Nat),
         GoOn("envelope", NodeReader(data), 0), got' = got,
         IsDecoded(sent) => CutOf(data, GuestEnvelope(sent)),
         whole => IsDecoded(sent) /\ data = GuestEnvelope(sent),
         ~IsDecoded(sent) => data = <<>>
  PROVE  Kept
<1>1. /\ Types /\ sent.op # "GoFunc" /\ got = Blank /\ whole \in BOOLEAN
      /\ Want # "nothing" /\ Want = WantFor(sent)
  BY FieldFacts, WantFacts
<1> DEFINE q == NodeReader(data)
<1>2. /\ at' = "envelope" /\ r' = q /\ left' = 0 /\ UNCHANGED <<sent, whole>>
  BY DEF GoOn
<1>3. q \in NodeReaders /\ q.data = data /\ q.pos = 0 /\ q.fail = FALSE
  <2>1. Len(data) \in Nat
    OBVIOUS
  <2>2. QED
    BY <2>1 DEF NodeReader, NodeReaders
<1> HIDE DEF q
<1>4. Want' = Want
  BY <1>2 DEF Want
<1>5. FieldInv' /\ DoneInv' /\ at' \in NodePhases /\ at' \in Points
  BY <1>2 DEF FieldInv, DoneInv, FieldPhases, NodePhases, Points
<1>6. Types'
  BY <1>1, <1>2, <1>5 DEF Types
<1>7. Bounds'
  BY <1>2, <1>3, NodeReaderBounds DEF Bounds
<1>8. Full(sent) = GuestEnvelope(sent)
  BY <1>1 DEF Full
<1>9. WantOf'
  BY <1>1, <1>2, <1>4 DEF WantOf
<1>10. IsDecoded(sent) => OnTrack'
  BY <1>1, <1>2, <1>3 DEF OnTrack, EnvelopeTrack
<1>11. /\ r' \in NodeReaders
       /\ IsDecoded(sent') => CutOf(r'.data, Full(sent'))
       /\ whole' => IsDecoded(sent') /\ r'.data = Full(sent') /\ ~r'.fail
       /\ ~IsDecoded(sent') => r'.data = <<>>
  BY <1>2, <1>3, <1>8
<1>12. \/ OnTrack'
       \/ at' = "envelope" /\ r'.data = <<>> /\ r'.pos = 0 /\ ~whole'
  <2>1. CASE IsDecoded(sent)
    BY <1>10, <2>1
  <2>2. CASE ~IsDecoded(sent)
    BY <1>2, <1>3, <2>2
  <2>3. QED
    BY <2>1, <2>2
<1>13. NodeInv'
  BY <1>9, <1>11, <1>12 DEF NodeInv
<1>14. QED
  BY <1>5, <1>6, <1>7, <1>13 DEF Kept

LEMMA NoValueStep ==
  ASSUME FieldState, NoValue
  PROVE  Kept
<1>1. /\ Types /\ at = "field" /\ r \in PbReaders
      /\ sent \in Messages /\ sent.op # "GoFunc"
      /\ tag = NoTag /\ ~HasData(r) /\ got = Blank /\ whole \in BOOLEAN
      /\ Want # "checked" /\ (whole => sent.status # "error")
  BY FieldFacts, WantFacts DEF NoValue
<1>2. ~whole
  BY <1>1, NothingFound DEF Awaited
<1>3. CASE IsNumber
  <2> DEFINE outcome == Outcome("ok", <<>>, <<>>, 0)
  <2>1. Done(outcome, r)
    BY <1>3 DEF NoValue
  <2>2. Recorded(outcome)
    BY OutcomesRecorded DEF Statuses
  <2>3. Want \in NoEnvelope
    BY <1>3 DEF IsNumber, NoEnvelope
  <2> HIDE DEF outcome
  <2>4. QED
    BY <1>1, <1>2, <2>1, <2>2, <2>3, FieldEnds
<1>4. CASE ~IsNumber
  <2> DEFINE data == <<>>
  <2>1. GoOn("envelope", NodeReader(data), 0) /\ got' = got
    BY <1>4 DEF NoValue
  <2>2. Want \notin NoEnvelope
    BY <1>1, <1>4 DEF IsNumber, NoEnvelope
  <2>3. data \in Seq(Nat) /\ data = <<>>
    OBVIOUS
  <2>4. IsDecoded(sent) => CutOf(data, GuestEnvelope(sent))
    BY <1>1, NothingIsCut
  <2> HIDE DEF data
  <2>5. QED
    BY <1>1, <1>2, <2>1, <2>2, <2>3, <2>4, EnvelopeBegins
<1>5. QED
  BY <1>3, <1>4

LEMMA ValueFoundStep ==
  ASSUME FieldState, ValueFound
  PROVE  Kept
<1>1. /\ Types /\ at = "field" /\ r \in PbReaders /\ r.data = resp
      /\ sent \in Messages /\ sent.op # "GoFunc"
      /\ Want = WantFor(sent) /\ Want = Called(sent.op).answers
      /\ tag.field = 1 /\ got = Blank /\ whole \in BOOLEAN
      /\ Want # "checked" /\ (whole => sent.status # "error")
      /\ (IsDecoded(sent) <=> sent.status # "error" /\ Want \notin NoEnvelope)
  BY FieldFacts, WantFacts DEF ValueFound, Target
<1>2. PICK pre \in Others, post \in Others : FieldAt(pre, post)
  BY FieldFacts
<1> DEFINE full == Answer(pre, post)
           b1 == Len(pre)
           b2 == b1 + Len(GuestField(sent))
           b3 == Len(full)
<1>3. full \in Seq(Nat) /\ CutOf(r.data, full) /\ (r.data # full => ~whole)
  BY <1>1, <1>2, AnswerShape, SMTT(40) DEF FieldAt, Answer
<1>4. FieldTrack(full, b1, b2, b3)
  BY <1>2 DEF FieldAt
<1> HIDE DEF full, b1, b2, b3
<1>5. \/ /\ ~IsSilent(sent) /\ Holds(full, r.pos, GuestBody(sent))
         /\ GuestNumber(sent) = 1
      \/ ~whole /\ r.pos = Len(r.data)
  <2>1. tag # NoTag /\ \A f \in 2 .. 14 : \A w : tag # [field |-> f, wireType |-> w]
    BY <1>1 DEF NoTag
  <2>2. tag = [field |-> GuestNumber(sent), wireType |-> GuestWire(sent)]
          => GuestNumber(sent) = 1
    BY <1>1
  <2>3. QED
    BY <1>1, <1>4, <2>1, <2>2 DEF FieldTrack
<1>6. GuestNumber(sent) = 1 => sent.status # "error"
  BY DEF GuestNumber
<1>7. CASE IsNumber
  <2> DEFINE u == ReadVarint(r)
             v == ReadNumber.v
             q == ReadNumber.r
             outcome == Outcome("ok", <<>>, <<>>, v)
  <2>1. Done(outcome, q)
    BY <1>7, SMTT(40) DEF ValueFound
  <2>2. Recorded(outcome)
    BY OutcomesRecorded DEF Statuses
  <2>3. Want \in NoEnvelope /\ Want \in {"word", "half"}
    BY <1>7 DEF IsNumber, NoEnvelope
  <2>4. u = [v |-> u.v, r |-> u.r]
    BY DEF ReadVarint
  <2>5. /\ Want = "word" => v = u.v
        /\ Want = "half" => v = u.v % HalfSize
        /\ q = u.r
    <3> HIDE DEF u
    <3>1. CASE Want = "word"
      <4>1. ReadNumber = u
        BY <3>1 DEF ReadNumber, u
      <4>2. QED
        BY <3>1, <4>1
    <3>2. CASE Want = "half"
      <4>1. ReadNumber = [u EXCEPT !.v = @ % HalfSize]
        BY <3>2 DEF ReadNumber, u
      <4>2. ReadNumber.v = u.v % HalfSize /\ ReadNumber.r = u.r
        BY <2>4, <4>1
      <4>3. QED
        BY <3>2, <4>2
    <3>3. QED
      BY <2>3, <3>1, <3>2
  <2> HIDE DEF u, v, q
  <2>6. CASE /\ ~IsSilent(sent) /\ Holds(full, r.pos, GuestBody(sent))
             /\ GuestNumber(sent) = 1
    <3>1. sent.status # "error"
      BY <1>6, <2>6
    <3>2. GuestBody(sent) = AppendVarint[sent.num]
      BY <1>1, <2>3, <3>1 DEF GuestBody
    <3>3. /\ Expected(sent) = Outcome("ok", <<>>, <<>>, sent.num)
          /\ Want = "word" => sent.num \in Word
          /\ Want = "half" => sent.num \in 0 .. HalfSize - 1
      BY <1>1, <2>3, <3>1, PlainAnswer
    <3>4. /\ sent.num \in Word
          /\ Want = "half" => sent.num % HalfSize = sent.num
      <4> DEFINE k == sent.num
      <4>1. WordSize \in Nat /\ HalfSize \in Nat \ {0} /\ HalfSize <= WordSize
        BY HalfIsWord
      <4>2. /\ Want = "word" => k \in Word
            /\ Want = "half" => k \in 0 .. HalfSize - 1
        BY <3>3
      <4> HIDE DEF k
      <4>3. Word = 0 .. WordSize - 1
        BY DEF Word
      <4>4. k \in 0 .. HalfSize - 1 => k \in Word /\ k % HalfSize = k
        BY <4>1, <4>3, SmallModulus
      <4>5. k \in Word /\ (Want = "half" => k % HalfSize = k)
        BY <2>3, <4>2, <4>4
      <4>6. QED
        BY <4>5 DEF k
    <3> DEFINE k == sent.num
    <3>5. k \in Word /\ Holds(full, r.pos, AppendVarint[k])
      BY <2>6, <3>2, <3>4
    <3> HIDE DEF k
    <3>6. u.r \in PbReaders /\ (u.v = k \/ r.data # full)
      BY <1>1, <1>3, <3>5, VarintFound DEF u
    <3>7. whole => outcome = Expected(sent)
      <4> SUFFICES ASSUME whole PROVE v = sent.num
        BY <3>3
      <4>1. u.v = sent.num
        BY <1>3, <3>6 DEF k
      <4>2. QED
        BY <2>3, <2>5, <3>4, <4>1
    <3> HIDE DEF outcome
    <3>8. QED
      BY <1>1, <2>1, <2>2, <2>3, <2>5, <3>6, <3>7, FieldEnds
  <2>7. CASE ~whole /\ r.pos = Len(r.data)
    <3>1. u.r \in PbReaders
      BY <1>1, <2>7, AtTheEnd DEF u
    <3> HIDE DEF outcome
    <3>2. QED
      BY <2>1, <2>2, <2>3, <2>5, <2>7, <3>1, FieldEnds
  <2>8. QED
    BY <1>5, <2>6, <2>7
<1>8. CASE ~IsNumber
  <2> DEFINE data == ReadBytes(r).v
             envelope == GuestEnvelope(sent)
  <2>1. GoOn("envelope", NodeReader(data), 0) /\ got' = got
    BY <1>8 DEF ValueFound
  <2>2. Want \notin NoEnvelope
    BY <1>1, <1>8 DEF IsNumber, NoEnvelope
  <2>3. CASE /\ ~IsSilent(sent) /\ Holds(full, r.pos, GuestBody(sent))
             /\ GuestNumber(sent) = 1
    <3>1. sent.status # "error" /\ IsDecoded(sent)
      BY <1>1, <1>6, <2>2, <2>3
    <3>2. GuestWire(sent) = 2 /\ GuestData(sent) = envelope
      BY <1>1, <2>2, <3>1 DEF GuestWire, GuestData, NoEnvelope
    <3>3. /\ envelope \in Seq(Nat) /\ Len(envelope) < WordSize \div 2
          /\ GuestBody(sent) = AppendVarint[Len(envelope)] \o envelope
      BY <1>1, <2>3, <3>2, GuestPiece
    <3> DEFINE body == GuestBody(sent)
    <3>4. /\ r \in PbReaders /\ full \in Seq(Nat) /\ CutOf(r.data, full)
          /\ envelope \in Seq(Nat) /\ Len(envelope) < WordSize \div 2
          /\ IsPacked(body, envelope) /\ Holds(full, r.pos, body)
      BY <1>1, <1>3, <2>3, <3>3 DEF IsPacked
    <3> HIDE DEF envelope, body
    <3>5. /\ ReadBytes(r).v \in Seq(Nat) /\ CutOf(ReadBytes(r).v, envelope)
          /\ ReadBytes(r).v = envelope \/ r.data # full
      BY <3>4, BytesFound
    <3>6. data \in Seq(Nat) /\ CutOf(data, envelope) /\ (whole => data = envelope)
      BY <1>3, <3>5
    <3> HIDE DEF data
    <3>7. QED
      BY <1>1, <2>1, <2>2, <3>1, <3>6, EnvelopeBegins DEF envelope
  <2>4. CASE ~whole /\ r.pos = Len(r.data)
    <3>1. data = <<>>
      BY <1>1, <2>4, AtTheEnd
    <3>2. data \in Seq(Nat)
      BY <3>1
    <3>3. IsDecoded(sent) => CutOf(data, envelope)
      BY <1>1, <3>1, NothingIsCut
    <3> HIDE DEF data
    <3>4. QED
      BY <1>1, <2>1, <2>2, <2>4, <3>1, <3>2, <3>3, EnvelopeBegins
  <2>5. QED
    BY <1>5, <2>3, <2>4
<1>9. QED
  BY <1>7, <1>8

-----------------------------------------------------------------------------
(***************************************************************************)
(* What is known while the guest reads a request: the fields that it has   *)
(* passed are taken, those ahead are whole. With it the invariant is       *)
(* complete.                                                               *)
(***************************************************************************)

(* The parameters of the export that is called. *)
Fields == Called(sent.op).takes

(* The guest has taken k fields, and maybe the tag of the next. *)
ReadTo(given, ends, k) ==
  /\ taken = [f \in 1 .. Len(Fields) |->
                IF f <= k THEN given[f] ELSE NotThere(sent.op)[f]]
  /\ \/ tag = NoTag /\ r.pos = ends[k]
     \/ /\ k < Len(Fields)
        /\ tag = [field |-> k + 1, wireType |-> FieldWire(Fields[k + 1])]
        /\ Holds(resp, r.pos, FieldBody(Fields[k + 1], given[k + 1]))
        /\ r.pos + Len(FieldBody(Fields[k + 1], given[k + 1])) = ends[k + 1]

(* The request has the fields of given, of which the guest has read some. *)
RequestAt(given, ends) ==
  /\ Taken(sent.op, sent.args, given)
  /\ LaidAt(resp, Fields, given, Len(Fields), ends)
  /\ \E k \in 0 .. Len(Fields) : ReadTo(given, ends, k)

(* While the guest reads, the fields that it expects are all there. *)
RequestInv ==
  at = "request" =>
    /\ sent.op # "GoFunc" /\ whole /\ got = Blank /\ r \in PbReaders /\ r.data = resp
    /\ \E given : \E ends : RequestAt(given, ends)

(* Afterwards, what it has taken is what was meant. *)
TakenInv ==
  at # "request" /\ sent.op # "GoFunc" => Understood(sent.op, taken) = sent.args

(* The inductive invariant: one conjunct for each phase, and the types. *)
IInv ==
  /\ Types /\ Bounds
  /\ RequestInv /\ FieldInv /\ NodeInv /\ DoneInv /\ TakenInv

(* A state in which the guest reads. *)
RequestState == Types /\ RequestInv /\ at = "request"

LEMMA RequestFacts ==
  ASSUME RequestState, NEW given, NEW ends, RequestAt(given, ends)
  PROVE  /\ Fields \in Seq(ParameterKinds) /\ Len(Fields) \in 1 .. 14
         /\ given = [k \in 1 .. Len(Fields) |-> given[k]]
         /\ Understood(sent.op, given) = sent.args
         /\ resp \in Seq(Nat) /\ ends \in [0 .. Len(Fields) -> Nat]
         /\ ends[0] = 0 /\ ends[Len(Fields)] = Len(resp)
         /\ \A k \in 1 .. Len(Fields) :
              /\ Takes(Fields[k], given[k])
              /\ Holds(resp, ends[k - 1], FieldFor(Fields[k], k, given[k]))
              /\ ends[k] = ends[k - 1] + Len(FieldFor(Fields[k], k, given[k]))
<1>1. Taken(sent.op, sent.args, given) /\ LaidAt(resp, Fields, given, Len(Fields), ends)
  BY DEF RequestAt
<1>2. /\ Fields \in Seq(ParameterKinds) /\ Len(Fields) \in 1 .. 14
      /\ given = [k \in 1 .. Len(Fields) |-> given[k]]
      /\ Understood(sent.op, given) = sent.args
  BY <1>1 DEF Taken, Fields
<1> DEFINE t == Fields
<1>3. LaidAt(resp, t, given, Len(t), ends)
  BY <1>1
<1> HIDE DEF t
<1>4. /\ resp \in Seq(Nat) /\ ends \in [0 .. Len(t) -> Nat]
      /\ ends[0] = 0 /\ ends[Len(t)] = Len(resp)
      /\ \A k \in 1 .. Len(t) :
           /\ Takes(t[k], given[k])
           /\ Holds(resp, ends[k - 1], FieldFor(t[k], k, given[k]))
           /\ ends[k] = ends[k - 1] + Len(FieldFor(t[k], k, given[k]))
  BY <1>3 DEF LaidAt
<1>5. QED
  BY <1>2, <1>4 DEF t

(* Before the last field is taken, a piece lies ahead. *)
LEMMA FieldAhead ==
  ASSUME RequestState, NEW given, NEW ends, RequestAt(given, ends),
         NEW k \in 0 .. Len(Fields), k < Len(Fields)
  PROVE  /\ k + 1 \in 1 .. Len(Fields) /\ k + 1 \in 0 .. 15
         /\ Takes(Fields[k + 1], given[k + 1])
         /\ IsPiece(FieldFor(Fields[k + 1], k + 1, given[k + 1]), k + 1,
                    FieldWire(Fields[k + 1]), FieldBody(Fields[k + 1], given[k + 1]))
         /\ FieldWire(Fields[k + 1]) \in 0 .. 7
         /\ Holds(resp, ends[k], FieldFor(Fields[k + 1], k + 1, given[k + 1]))
         /\ ends[k + 1] = ends[k] + Len(FieldFor(Fields[k + 1], k + 1, given[k + 1]))
         /\ ends[k] \in Nat /\ ends[k] < Len(resp)
<1> DEFINE n == Len(Fields)
           m == k + 1
           x == FieldFor(Fields[m], m, given[m])
<1>1. /\ n \in 1 .. 14 /\ resp \in Seq(Nat) /\ ends \in [0 .. n -> Nat]
      /\ \A i \in 1 .. n :
           /\ Takes(Fields[i], given[i])
           /\ Holds(resp, ends[i - 1], FieldFor(Fields[i], i, given[i]))
           /\ ends[i] = ends[i - 1] + Len(FieldFor(Fields[i], i, given[i]))
  BY RequestFacts
<1>2. k \in 0 .. n /\ k < n
  OBVIOUS
<1> HIDE DEF n
<1>3. m \in 1 .. n /\ m \in 0 .. 15 /\ m - 1 = k
  BY <1>1, <1>2
<1> HIDE DEF m
<1>4. /\ Takes(Fields[m], given[m]) /\ Holds(resp, ends[k], x)
      /\ ends[m] = ends[k] + Len(x) /\ ends[k] \in Nat
  BY <1>1, <1>2, <1>3
<1>5. /\ IsPiece(x, m, FieldWire(Fields[m]), FieldBody(Fields[m], given[m]))
      /\ x \in Seq(Nat) /\ FieldWire(Fields[m]) \in 0 .. 7
  BY <1>3, <1>4, FieldIsPiece
<1>6. x # <<>>
  <2> HIDE DEF x
  <2>1. QED
    BY <1>3, <1>5, PieceIsSome
<1>7. Len(x) \in Nat /\ Len(x) # 0 /\ Len(resp) \in Nat
  <2> HIDE DEF x
  <2>1. QED
    BY <1>1, <1>5, <1>6
<1>8. ends[k] + Len(x) <= Len(resp)
  <2> HIDE DEF x
  <2>1. QED
    BY <1>4 DEF Holds
<1>9. ends[k] < Len(resp)
  <2> HIDE DEF x
  <2>1. QED
    BY <1>4, <1>7, <1>8
<1>10. QED
  BY <1>3, <1>4, <1>5, <1>9 DEF m, n

(* What a step of it has to keep. *)
RequestKept ==
  /\ Types' /\ Bounds'
  /\ RequestInv' /\ FieldInv' /\ NodeInv' /\ DoneInv' /\ TakenInv'

LEMMA RequestGoesOn ==
  ASSUME RequestState, UNCHANGED <<sent, whole, resp, at, left, got>>,
         r' \in PbReaders, r'.data = resp,
         NEW given, NEW ends, RequestAt(given, ends),
         NEW k \in 0 .. Len(Fields), ReadTo(given, ends, k)'
  PROVE  RequestKept
<1>1. /\ at = "request" /\ sent.op # "GoFunc" /\ whole /\ got = Blank
  BY DEF RequestState, RequestInv
<1>2. Fields' = Fields
  BY DEF Fields
<1>3. RequestAt(given, ends)'
  <2>1. (\E i \in 0 .. Len(Fields) : ReadTo(given, ends, i))'
    BY <1>2
  <2>2. Taken(sent.op, sent.args, given)' /\ LaidAt(resp, Fields, given, Len(Fields), ends)'
    BY <1>2 DEF RequestAt
  <2>3. QED
    BY <2>1, <2>2 DEF RequestAt
<1>4. RequestInv'
  <2>1. (\E g : \E e : RequestAt(g, e))'
    BY <1>3
  <2>2. QED
    BY <1>1, <2>1 DEF RequestInv
<1>5. FieldInv' /\ NodeInv' /\ DoneInv' /\ TakenInv'
  BY <1>1 DEF FieldInv, NodeInv, DoneInv, TakenInv, FieldPhases, NodePhases
<1>6. Types'
  BY DEF RequestState, Types
<1>7. Bounds'
  BY PbBounds DEF Bounds
<1>8. QED
  BY <1>4, <1>5, <1>6, <1>7 DEF RequestKept

-----------------------------------------------------------------------------
(***************************************************************************)
(* A step of the guest over a field of the request.                        *)
(***************************************************************************)

LEMMA RequestReadTagStep ==
  ASSUME RequestState, ReadTag
  PROVE  RequestKept
<1> DEFINE next == NextTag(r)
<1>1. /\ r \in PbReaders /\ r.data = resp
  BY DEF RequestState, RequestInv
<1>2. /\ tag = NoTag /\ r.pos < Len(r.data) /\ r' = next.r
      /\ tag' = [field |-> next.field, wireType |-> next.wireType]
      /\ UNCHANGED <<sent, taken, whole, resp, at, left, got>>
  BY DEF ReadTag, HasData
<1>3. PICK given : \E ends : RequestAt(given, ends)
  BY DEF RequestState, RequestInv
<1>4. PICK ends : RequestAt(given, ends)
  BY <1>3
<1>5. PICK k \in 0 .. Len(Fields) : ReadTo(given, ends, k)
  BY <1>4 DEF RequestAt
<1>6. /\ Len(Fields) \in 1 .. 14 /\ resp \in Seq(Nat) /\ ends[Len(Fields)] = Len(resp)
  BY <1>4, RequestFacts
<1>7. r.pos = ends[k]
  <2>1. \A i \in 0 .. 14 : \A w : NoTag # [field |-> i + 1, wireType |-> w]
    BY DEF NoTag
  <2>2. k \in 0 .. 14
    <3> DEFINE n == Len(Fields)
    <3>1. n \in 1 .. 14 /\ k \in 0 .. n
      BY <1>5, <1>6
    <3> HIDE DEF n
    <3>2. QED
      BY <3>1
  <2>3. QED
    BY <1>2, <1>5, <2>1, <2>2 DEF ReadTo
<1>8. k < Len(Fields)
  <2>1. k # Len(Fields)
    <3>1. Len(resp) \in Nat
      BY <1>6
    <3>2. QED
      BY <1>1, <1>2, <1>6, <1>7, <3>1
  <2>2. QED
    BY <1>6, <2>1
<1> DEFINE m == k + 1
           t == Fields[m]
           x == FieldFor(t, m, given[m])
           body == FieldBody(t, given[m])
           w == FieldWire(t)
<1>9. /\ m \in 0 .. 15 /\ w \in 0 .. 7 /\ IsPiece(x, m, w, body)
      /\ Holds(resp, ends[k], x) /\ ends[m] = ends[k] + Len(x)
  BY <1>4, <1>8, FieldAhead
<1>10. CutOf(r.data, resp) /\ r.data = resp
  <2>1. Len(resp) \in Nat
    BY <1>6
  <2>2. QED
    BY <1>1, <2>1 DEF CutOf
<1> HIDE DEF next, m, t, x, body, w
<1>11. /\ next.r \in PbReaders /\ next.r.data = r.data
       /\ next.field = m /\ next.wireType = w
       /\ Holds(resp, next.r.pos, body)
       /\ next.r.pos + Len(body) = r.pos + Len(x)
  <2>1. /\ r \in PbReaders /\ resp \in Seq(Nat) /\ CutOf(r.data, resp)
        /\ m \in 0 .. 15 /\ w \in 0 .. 7
        /\ IsPiece(x, m, w, body) /\ Holds(resp, r.pos, x)
    BY <1>1, <1>6, <1>7, <1>9, <1>10, SMTT(40)
  <2>2. /\ NextTag(r).r \in PbReaders /\ NextTag(r).r.data = r.data
        /\ \/ /\ NextTag(r).field = m /\ NextTag(r).wireType = w
              /\ Holds(resp, NextTag(r).r.pos, body)
              /\ NextTag(r).r.pos + Len(body) = r.pos + Len(x)
           \/ NextTag(r).r.pos = Len(r.data) /\ r.data # resp
    BY <2>1, PieceTag, SMTT(40)
  <2>3. QED
    BY <1>10, <2>2 DEF next
<1>12. Fields' = Fields
  BY <1>2 DEF Fields
<1>13. ReadTo(given, ends, k)'
  <2>1. taken' = [f \in 1 .. Len(Fields)' |->
                    IF f <= k THEN given[f] ELSE NotThere(sent.op)'[f]]
    BY <1>2, <1>5, <1>12 DEF ReadTo
  <2>2. tag' = [field |-> m, wireType |-> w] /\ Holds(resp', r'.pos, body)
        /\ r'.pos + Len(body) = ends[m]
    BY <1>2, <1>7, <1>9, <1>11
  <2>3. /\ k < Len(Fields)'
        /\ tag' = [field |-> k + 1, wireType |-> FieldWire(Fields'[k + 1])]
        /\ Holds(resp', r'.pos, FieldBody(Fields'[k + 1], given[k + 1]))
        /\ r'.pos + Len(FieldBody(Fields'[k + 1], given[k + 1])) = ends[k + 1]
    BY <1>8, <1>12, <2>2 DEF m, w, t, body
  <2>4. QED
    BY <2>1, <2>3 DEF ReadTo
<1>14. QED
  BY <1>1, <1>2, <1>4, <1>11, <1>13, RequestGoesOn

LEMMA TakeParameterStep ==
  ASSUME RequestState, TakeParameter
  PROVE  RequestKept
<1>1. r \in PbReaders /\ r.data = resp
  BY DEF RequestState, RequestInv
<1> DEFINE value == Parameter(Fields[tag.field], r)
<1>2. /\ tag.field \in DOMAIN taken
      /\ taken' = [taken EXCEPT ![tag.field] = value.v] /\ r' = value.r
      /\ tag' = NoTag /\ UNCHANGED <<sent, whole, resp, at, left, got>>
  BY DEF TakeParameter, Fields
<1>3. PICK given : \E ends : RequestAt(given, ends)
  BY DEF RequestState, RequestInv
<1>4. PICK ends : RequestAt(given, ends)
  BY <1>3
<1>5. PICK k \in 0 .. Len(Fields) : ReadTo(given, ends, k)
  BY <1>4 DEF RequestAt
<1>6. Len(Fields) \in 1 .. 14
  BY <1>4, RequestFacts
<1> DEFINE m == k + 1
           n == Len(Fields)
           t == Fields[m]
           body == FieldBody(t, given[m])
<1>7. /\ k < n /\ tag = [field |-> m, wireType |-> FieldWire(t)]
      /\ Holds(resp, r.pos, body) /\ r.pos + Len(body) = ends[m]
  <2>1. tag # NoTag
    <3>1. DOMAIN taken = 1 .. Len(Fields)
      BY <1>5 DEF ReadTo
    <3>2. tag.field > 0
      BY <1>2, <1>6, <3>1
    <3>3. NoTag.field = -1
      BY DEF NoTag
    <3>4. QED
      BY <3>2, <3>3
  <2>2. QED
    BY <1>5, <2>1 DEF ReadTo
<1>8. /\ m \in 1 .. n /\ Takes(t, given[m])
  BY <1>4, <1>7, FieldAhead
<1>9. value = Parameter(t, r) /\ tag.field = m
  BY <1>7
<1> HIDE DEF value, m, t, body, n
<1>10. /\ value.v = given[m] /\ value.r \in PbReaders /\ value.r.data = r.data
       /\ value.r.pos = r.pos + Len(body)
  BY <1>1, <1>7, <1>8, <1>9, ParameterRead DEF body
<1>11. Fields' = Fields
  BY <1>2 DEF Fields
<1>12. m \in 0 .. Len(Fields) /\ n \in Nat
  BY <1>6, <1>8 DEF n
<1>13. taken' = [f \in 1 .. n |-> IF f <= m THEN given[f] ELSE NotThere(sent.op)[f]]
  <2>1. taken = [f \in 1 .. n |-> IF f <= k THEN given[f] ELSE NotThere(sent.op)[f]]
    BY <1>5 DEF ReadTo, n
  <2>2. taken' = [taken EXCEPT ![m] = given[m]]
    BY <1>2, <1>9, <1>10
  <2>3. ASSUME NEW f \in 1 .. n
        PROVE  /\ f = m => f <= m
               /\ f # m => (f <= m <=> f <= k)
    BY <1>5, <1>6, <2>3 DEF m, n
  <2> DEFINE zero == NotThere(sent.op)
  <2> HIDE DEF zero
  <2>4. taken = [f \in 1 .. n |-> IF f <= k THEN given[f] ELSE zero[f]]
    BY <2>1 DEF zero
  <2>5. taken' = [f \in 1 .. n |-> IF f <= m THEN given[f] ELSE zero[f]]
    BY <2>2, <2>3, <2>4
  <2>6. QED
    BY <2>5 DEF zero
<1>14. ReadTo(given, ends, m)'
  <2>1. r'.pos = ends[m] /\ tag' = NoTag
    BY <1>2, <1>7, <1>10
  <2>2. QED
    BY <1>2, <1>11, <1>13, <2>1 DEF ReadTo, n
<1>15. QED
  BY <1>1, <1>2, <1>4, <1>10, <1>12, <1>14, RequestGoesOn

LEMMA RequestSkipsNothing ==
  ASSUME RequestState
  PROVE  ~SkipField
<1>1. SUFFICES ASSUME SkipField PROVE FALSE
  OBVIOUS
<1>2. at = "request"
  BY DEF RequestState
<1>3. tag # NoTag /\ tag.field \notin DOMAIN taken
  BY <1>1, <1>2 DEF SkipField
<1>4. PICK given : \E ends : RequestAt(given, ends)
  BY DEF RequestState, RequestInv
<1>5. PICK ends : RequestAt(given, ends)
  BY <1>4
<1>6. PICK k \in 0 .. Len(Fields) : ReadTo(given, ends, k)
  BY <1>5 DEF RequestAt
<1>7. Len(Fields) \in 1 .. 14
  BY <1>5, RequestFacts
<1>8. k < Len(Fields) /\ tag.field = k + 1 /\ DOMAIN taken = 1 .. Len(Fields)
  BY <1>3, <1>6 DEF ReadTo
<1>9. QED
  BY <1>3, <1>6, <1>7, <1>8

(* The first n bytes, and whether they are all. *)
LEMMA CutToSize ==
  ASSUME NEW all \in Seq(Nat), NEW n \in 0 .. Len(all)
  PROVE  /\ SubSeq(all, 1, n) \in Seq(Nat) /\ CutOf(SubSeq(all, 1, n), all)
         /\ n = Len(all) => SubSeq(all, 1, n) = all
<1> DEFINE cut == SubSeq(all, 1, n)
           a == 0
<1>1. n \in Nat /\ n <= Len(all) /\ Len(all) \in Nat /\ a \in Nat /\ a + n = n /\ a + 1 = 1
  OBVIOUS
<1> HIDE DEF a
<1>2. /\ SubSeq(all, a + 1, a + n) \in Seq(Nat) /\ Len(SubSeq(all, a + 1, a + n)) = n
      /\ \A i \in 1 .. n : SubSeq(all, a + 1, a + n)[i] = all[a + i]
  BY <1>1, SomeOf
<1>3. \A i \in 1 .. n : a + i = i
  BY DEF a
<1>4. /\ cut \in Seq(Nat) /\ Len(cut) = n
      /\ \A i \in 1 .. n : cut[i] = all[i]
  BY <1>1, <1>2, <1>3
<1> HIDE DEF cut
<1>5. CutOf(cut, all)
  BY <1>1, <1>4 DEF CutOf
<1>6. n = Len(all) => cut = all
  BY <1>4, <1>5, CutIsWhole
<1>7. QED
  BY <1>4, <1>5, <1>6 DEF cut

LEMMA GuestAnswersStep ==
  ASSUME RequestState, GuestAnswers
  PROVE  RequestKept
<1>1. /\ Types /\ sent \in Messages /\ sent.op # "GoFunc" /\ got = Blank
      /\ r \in PbReaders /\ r.data = resp /\ left \in Nat
  BY DEF RequestState, RequestInv, Types
<1>2. PICK pre \in Others, post \in Others :
        \E n \in IF Short THEN 0 .. Len(Answer(pre, post)) ELSE {Len(Answer(pre, post))} :
          /\ resp' = SubSeq(Answer(pre, post), 1, n)
          /\ whole' = (n = Len(Answer(pre, post)))
  BY DEF GuestAnswers, Answer
<1> DEFINE full == Answer(pre, post)
<1>3. PICK n \in IF Short THEN 0 .. Len(full) ELSE {Len(full)} :
        resp' = SubSeq(full, 1, n) /\ whole' = (n = Len(full))
  BY <1>2
<1>4. full \in Seq(Nat) /\ Len(pre) \in Nat
  BY <1>1, <1>2, AnswerShape DEF Answer
<1>5. /\ resp' \in Seq(Nat) /\ CutOf(resp', full) /\ (whole' => resp' = full)
      /\ whole' \in BOOLEAN
  <2> HIDE DEF full
  <2>1. n \in 0 .. Len(full)
    <3>1. Len(full) \in Nat
      BY <1>4
    <3>2. n \in 0 .. Len(full) \/ n = Len(full)
      BY <1>3
    <3>3. QED
      BY <3>1, <3>2
  <2>2. QED
    BY <1>3, <1>4, <2>1, CutToSize
<1> HIDE DEF full
<1>6. /\ tag = NoTag /\ ~HasData(r) /\ r' = Reader(resp')
      /\ UNCHANGED <<sent, taken, tag, left>>
      /\ Want = "nothing" => at' = "done" /\ got' = Outcome("ok", <<>>, <<>>, 0)
      /\ Want # "nothing" => at' = "error" /\ got' = got
  BY DEF GuestAnswers
<1>7. r' \in PbReaders /\ r'.data = resp' /\ r'.pos = 0
  <2> DEFINE q == Reader(resp')
             s == resp'
  <2>1. s \in Seq(Nat) /\ Len(s) \in Nat
    BY <1>5
  <2>2. q \in PbReaders /\ q.data = s /\ q.pos = 0
    <3> HIDE DEF s
    <3>1. QED
      BY <2>1 DEF Reader, PbReaders, s
  <2>3. QED
    BY <1>6, <2>2
<1>8. Understood(sent.op, taken) = sent.args
  <2>1. PICK given : \E ends : RequestAt(given, ends)
    BY DEF RequestState, RequestInv
  <2>2. PICK ends : RequestAt(given, ends)
    BY <2>1
  <2>3. PICK k \in 0 .. Len(Fields) : ReadTo(given, ends, k)
    BY <2>2 DEF RequestAt
  <2> DEFINE m == Len(Fields)
  <2>4. /\ m \in 1 .. 14 /\ given = [i \in 1 .. m |-> given[i]]
        /\ Understood(sent.op, given) = sent.args /\ resp \in Seq(Nat)
    BY <2>2, RequestFacts
  <2>5. r.pos = ends[k]
    <3>1. \A i \in 0 .. 14 : \A w : NoTag # [field |-> i + 1, wireType |-> w]
      BY DEF NoTag
    <3>2. k \in 0 .. 14
      <4>1. m \in 1 .. 14 /\ k \in 0 .. m
        BY <2>3, <2>4
      <4> HIDE DEF m
      <4>2. QED
        BY <4>1
    <3>3. QED
      BY <1>6, <2>3, <3>1, <3>2 DEF ReadTo
  <2>6. k = m
    <3>1. ASSUME k < m PROVE FALSE
      <4>1. ends[k] \in Nat /\ ends[k] < Len(resp)
        BY <2>2, <2>3, <3>1, FieldAhead
      <4>2. QED
        BY <1>1, <1>6, <2>5, <4>1 DEF HasData
    <3>2. m \in 1 .. 14 /\ k \in 0 .. m
      BY <2>3, <2>4
    <3> HIDE DEF m
    <3>3. QED
      BY <3>1, <3>2
  <2>7. taken = given
    <3> DEFINE zero == NotThere(sent.op)
    <3>1. taken = [f \in 1 .. m |-> IF f <= k THEN given[f] ELSE zero[f]]
      BY <2>3 DEF ReadTo
    <3> HIDE DEF zero, m
    <3>2. QED
      BY <2>4, <2>6, <3>1
  <2>8. QED
    BY <2>4, <2>7
<1>9. TakenInv' /\ Want' = Want
  BY <1>6, <1>8 DEF TakenInv, Want
<1>10. Bounds'
  BY <1>7, PbBounds DEF Bounds
<1>11. at' # "request" /\ at' \notin NodePhases /\ at' \in Points
  BY <1>6 DEF NodePhases, Points
<1>12. Types'
  <2>1. Recorded(Outcome("ok", <<>>, <<>>, 0))
    BY OutcomesRecorded DEF Statuses
  <2>2. Recorded(got')
    BY <1>1, <1>6, <2>1 DEF Types
  <2>3. QED
    BY <1>1, <1>5, <1>6, <1>11, <2>2, SMTT(40) DEF Types
<1>13. RequestInv' /\ NodeInv'
  BY <1>11 DEF RequestInv, NodeInv
<1>14. FieldInv'
  <2>1. CASE Want = "nothing"
    BY <1>6, <2>1 DEF FieldInv, FieldPhases
  <2>2. CASE Want # "nothing"
    <3>1. at' = "error" /\ got' = Blank
      BY <1>1, <1>6, <2>2
    <3> DEFINE b1 == Len(pre)
               b2 == b1 + Len(GuestField(sent))
               b3 == Len(full)
    <3>2. FieldTrack(full, b1, b2, b3)'
      <4>1. b1' = b1 /\ b1 \in Nat
        BY <1>4
      <4> HIDE DEF b1, b2, b3
      <4>2. tag' = NoTag /\ r'.pos = 0 /\ 0 <= b1'
        BY <1>6, <1>7, <4>1
      <4>3. QED
        BY <4>2 DEF FieldTrack
    <3>3. FieldAt(pre, post)'
      BY <1>5, <1>6, <3>2 DEF FieldAt, Answer, full
    <3>4. QED
      BY <1>1, <1>2, <1>6, <1>7, <1>9, <2>2, <3>1, <3>3 DEF FieldInv
  <2>3. QED
    BY <2>1, <2>2
<1>15. DoneInv'
  <2>1. CASE Want # "nothing"
    BY <1>6, <2>1 DEF DoneInv
  <2>2. CASE Want = "nothing"
    <3>1. got' = Outcome("ok", <<>>, <<>>, 0)
      BY <1>6, <2>2
    <3>2. Expected(sent) = Outcome("ok", <<>>, <<>>, 0)
      <4>1. sent.op \in DOMAIN Entry /\ Decoder[sent.op] = "nothing"
        BY <1>1, <2>2, Answers DEF Want
      <4>2. IsAnswer(sent)
        BY <1>1, Answers
      <4>3. sent.op = "drainReleases"
        <5>1. ASSUME sent.op # "drainReleases" PROVE FALSE
          <6>1. Called(sent.op).answers = "nothing"
            BY <4>1, <5>1, WantIs
          <6>2. QED
            BY <4>1, <6>1, WantIs
        <5>2. QED
          BY <5>1
      <4>4. "drainReleases" \notin DOMAIN As /\ "drainReleases" # "DictItemsOp"
        BY DEF As
      <4>5. QED
        BY <4>3, <4>4 DEF Expected
    <3>3. QED
      BY <1>6, <3>1, <3>2 DEF DoneInv
  <2>3. QED
    BY <2>1, <2>2
<1>16. QED
  BY <1>9, <1>10, <1>12, <1>13, <1>14, <1>15 DEF RequestKept

-----------------------------------------------------------------------------
(***************************************************************************)
(* The phases follow one another: the invariant holds from the first       *)
(* state on.                                                               *)
(***************************************************************************)

LEMMA RequestBegins ==
  ASSUME Init, sent.op # "GoFunc"
  PROVE  IInv
<1> DEFINE op == sent.op
           request == Request(op, sent.args)
<1>1. /\ sent \in Messages /\ tag = NoTag /\ left = 0 /\ got = Blank /\ whole = TRUE
      /\ taken = NotThere(op) /\ at = "request" /\ resp = request /\ r = Reader(request)
  BY DEF Init, Begins
<1>2. op \in DOMAIN Entry /\ AreArguments(op, sent.args)
  BY <1>1, MessagesAssumption DEF IsSent
<1>3. PICK given : Taken(op, sent.args, given)
  BY <1>2, RequestIsLaid
<1> DEFINE n == Len(Fields)
<1>4. /\ Fields \in Seq(ParameterKinds) /\ n \in 1 .. 14
      /\ Laid(request, Fields, given, n)
  BY <1>3 DEF Taken, Fields
<1>5. PICK ends : LaidAt(request, Fields, given, n, ends)
  BY <1>4 DEF Laid
<1> HIDE DEF request
<1>6. request \in Seq(Nat) /\ Len(request) \in Nat /\ ends[0] = 0
  BY <1>5 DEF LaidAt
<1>7. r \in PbReaders /\ r.data = resp /\ r.pos = 0
  BY <1>1, <1>6 DEF Reader, PbReaders
<1>8. ReadTo(given, ends, 0)
  <2> DEFINE zero == NotThere(op)
  <2>1. DOMAIN Fields = 1 .. n
    BY <1>4
  <2>2. zero = [f \in DOMAIN Fields |-> zero[f]]
    BY DEF NotThere, Fields
  <2>3. \A f \in 1 .. n : ~(f <= 0)
    BY <1>4
  <2> HIDE DEF zero, n
  <2>4. zero = [f \in 1 .. n |-> IF f <= 0 THEN given[f] ELSE zero[f]]
    BY <2>1, <2>2, <2>3
  <2>5. QED
    BY <1>1, <1>6, <1>7, <2>4 DEF ReadTo, zero, n
<1>9. RequestAt(given, ends)
  <2>1. 0 \in 0 .. n
    BY <1>4
  <2>2. LaidAt(resp, Fields, given, n, ends)
    BY <1>1, <1>5
  <2>3. QED
    BY <1>3, <1>8, <2>1, <2>2 DEF RequestAt
<1>10. RequestInv
  BY <1>1, <1>7, <1>9 DEF RequestInv
<1>11. FieldInv /\ NodeInv /\ DoneInv /\ TakenInv
  BY <1>1 DEF FieldInv, NodeInv, DoneInv, TakenInv, FieldPhases, NodePhases
<1>12. Types
  <2>1. Recorded(Blank)
    BY OutcomesRecorded DEF Statuses, Blank
  <2>2. QED
    BY <1>1, <2>1, SMTT(40) DEF Types, Points
<1>13. Bounds
  BY <1>7, PbBounds DEF Bounds
<1>14. QED
  BY <1>10, <1>11, <1>12, <1>13 DEF IInv

LEMMA CallBegins ==
  ASSUME Init, sent.op = "GoFunc"
  PROVE  IInv
<1> DEFINE all == CallArguments(sent)
<1>1. PICK n \in IF Short THEN 0 .. Len(all) ELSE {Len(all)} :
        /\ at = "payload" /\ resp = SubSeq(all, 1, n)
        /\ r = NodeReader(SubSeq(all, 1, n)) /\ whole = (n = Len(all))
  BY DEF Init, Begins
<1>2. sent \in Messages /\ left = 0 /\ got = Blank
  BY DEF Init
<1>3. IsDecoded(sent) /\ Full(sent) = all
  BY DEF IsDecoded, Full
<1>4. all \in Seq(Nat) /\ sent.status = "ok"
  BY <1>2, <1>3, FullShape
<1> HIDE DEF all
<1> DEFINE cut == SubSeq(all, 1, n)
<1>5. cut \in Seq(Nat) /\ CutOf(cut, all) /\ (whole => cut = all) /\ whole \in BOOLEAN
  <2>1. Len(all) \in Nat
    BY <1>4
  <2>2. n \in 0 .. Len(all)
    BY <1>1, <2>1
  <2>3. QED
    BY <1>1, <1>4, <2>2, CutToSize
<1>6. r \in NodeReaders /\ r.data = cut /\ r.pos = 0 /\ ~r.fail
  <2>1. Len(cut) \in Nat /\ r = NodeReader(cut)
    BY <1>1, <1>5
  <2> HIDE DEF cut
  <2>2. QED
    BY <1>5, <2>1 DEF NodeReader, NodeReaders
<1> HIDE DEF cut
<1>7. Holds(all, 0, all)
  <2>1. Len(all) \in Nat
    BY <1>4
  <2>2. QED
    BY <2>1 DEF Holds
<1>8. OnTrack
  <2>1. PayloadTrack
    BY <1>2, <1>3, <1>4, <1>6, <1>7 DEF PayloadTrack, all
  <2>2. QED
    BY <1>1, <1>3, <1>6, <2>1 DEF OnTrack
<1>9. WantOf
  BY <1>1 DEF WantOf, Want, NoEnvelope
<1>10. NodeInv
  BY <1>3, <1>5, <1>6, <1>8, <1>9 DEF NodeInv
<1>11. RequestInv /\ FieldInv /\ DoneInv /\ TakenInv
  BY <1>1 DEF RequestInv, FieldInv, DoneInv, TakenInv, FieldPhases
<1>12. Types
  <2>1. Recorded(Blank)
    BY OutcomesRecorded DEF Statuses, Blank
  <2>2. QED
    BY <1>1, <1>2, <1>5, <2>1, SMTT(40) DEF Types, Points, NodePhases
<1>13. Bounds
  BY <1>6, NodeReaderBounds DEF Bounds
<1>14. QED
  BY <1>10, <1>11, <1>12, <1>13 DEF IInv

(* No later step touches what was sent and what the guest has taken, or    *)
(* goes back to the request.                                               *)
LEMMA NodeGoesTo ==
  ASSUME NodeAction
  PROVE  /\ at \in NodePhases /\ at' \in NodePhases \cup {"done"}
         /\ UNCHANGED <<sent, taken>>
<1>1. ASSUME NEW o, NEW q, Done(o, q)
      PROVE  at' = "done" /\ UNCHANGED <<sent, taken>>
  BY <1>1 DEF Done
<1>2. ASSUME NEW q, DoneMalformed(q)
      PROVE  at' = "done" /\ UNCHANGED <<sent, taken>>
  BY <1>2 DEF DoneMalformed, Done
<1>3. ASSUME NEW p, NEW q, NEW n, GoOn(p, q, n)
      PROVE  at' = p /\ UNCHANGED <<sent, taken>>
  BY <1>3 DEF GoOn
<1>4. ASSUME NEW o, NEW q, AfterStatus(o, q)
      PROVE  at' \in {"output", "done"} /\ UNCHANGED <<sent, taken>>
  BY <1>1, <1>3, <1>4 DEF AfterStatus
<1>5. CASE Envelope
  <2>1. at' \in {"payload", "raised", "exit", "done"} /\ UNCHANGED <<sent, taken>>
    <3> DEFINE status == Number(r, 0, 1)
    <3>1. /\ status = 0 => GoOn("payload", Past(r, 1), 0)
          /\ status = 1 => GoOn("raised", Past(r, 1), 3)
          /\ status = 2 => GoOn("exit", Past(r, 1), 0)
          /\ status \notin {0, 1, 2} => DoneMalformed(Past(r, 1))
      BY <1>5 DEF Envelope
    <3> HIDE DEF status
    <3>2. QED
      BY <1>2, <1>3, <3>1
  <2>2. QED
    BY <1>5, <2>1 DEF Envelope, NodePhases
<1>6. CASE ReadText
  BY <1>3, <1>6 DEF ReadText, NodePhases
<1>7. CASE Raised
  BY <1>2, <1>4, <1>7 DEF Raised, NodePhases
<1>8. CASE Exit
  BY <1>4, <1>8 DEF Exit, NodePhases
<1>9. CASE OutputRead
  BY <1>1, <1>2, <1>9 DEF OutputRead, NodePhases
<1>10. CASE Plain
  BY <1>1, <1>2, <1>10 DEF Plain, NodePhases
<1>11. CASE Empty
  BY <1>1, <1>11 DEF Empty, NodePhases
<1>12. CASE OneNode
  BY <1>3, <1>12 DEF OneNode, NodePhases
<1>13. CASE ExistsNode
  BY <1>3, <1>13 DEF ExistsNode, NodePhases
<1>14. CASE CountNodes
  BY <1>2, <1>3, <1>14 DEF CountNodes, NodePhases
<1>15. CASE ReadNode
  BY <1>2, <1>3, <1>15 DEF ReadNode, NodePhases
<1>16. CASE NodesRead
  <2>1. \/ GoOn("keywords", r, 0) \/ DoneMalformed(r)
        \/ Done([got EXCEPT !.vals = Paired(@)], r)
        \/ Done(Outcome("mistyped", <<>>, <<>>, 0), r) \/ AfterStatus(got, r)
    BY <1>16 DEF NodesRead
  <2>2. QED
    BY <1>1, <1>2, <1>3, <1>4, <1>16, <2>1 DEF NodesRead, NodePhases
<1>17. CASE CountKeywords
  BY <1>1, <1>3, <1>17 DEF CountKeywords, NodePhases
<1>18. CASE ReadPair
  BY <1>2, <1>3, <1>18 DEF ReadPair, NodePhases
<1>19. CASE PairsRead
  BY <1>1, <1>19 DEF PairsRead, NodePhases
<1>20. QED
  BY <1>5, <1>6, <1>7, <1>8, <1>9, <1>10, <1>11, <1>12, <1>13, <1>14, <1>15, <1>16,
     <1>17, <1>18, <1>19 DEF NodeAction

(* The actions over the fields of an answer. *)
FieldAction ==
  at \in FieldPhases /\ (ReadTag \/ SkipField \/ ErrorFound \/ NoError
                           \/ ValueFound \/ NoValue)

LEMMA FieldGoesTo ==
  ASSUME FieldAction
  PROVE  at' # "request" /\ UNCHANGED <<sent, taken>>
<1>1. CASE ReadTag
  BY <1>1 DEF FieldAction, FieldPhases, ReadTag
<1>2. CASE SkipField
  BY <1>2 DEF FieldAction, FieldPhases, SkipField, GoOn
<1>3. CASE ErrorFound
  BY <1>3 DEF ErrorFound, Done
<1>4. CASE NoError
  BY <1>4 DEF NoError, Done, GoOn
<1>5. CASE ValueFound
  BY <1>5 DEF ValueFound, Done, GoOn
<1>6. CASE NoValue
  BY <1>6 DEF NoValue, Done, GoOn
<1>7. QED
  BY <1>1, <1>2, <1>3, <1>4, <1>5, <1>6 DEF FieldAction

(* The two ways to begin.                                                  *)
LEMMA InitInv ==
  Init => IInv
BY RequestBegins, CallBegins

LEMMA RequestStep ==
  ASSUME IInv, Next, at = "request"
  PROVE  IInv'
<1>1. RequestState
  BY DEF IInv, RequestState
<1>2. ReadTag \/ TakeParameter \/ GuestAnswers \/ SkipField
  BY DEF Next, ErrorFound, NoError, ValueFound, NoValue, Envelope, ReadText, Raised,
         Exit, OutputRead, Plain, Empty, OneNode, ExistsNode, CountNodes, ReadNode,
         NodesRead, CountKeywords, ReadPair, PairsRead
<1>3. RequestKept
  BY <1>1, <1>2, RequestReadTagStep, TakeParameterStep, GuestAnswersStep,
     RequestSkipsNothing
<1>4. QED
  BY <1>3 DEF RequestKept, IInv

LEMMA FieldStep ==
  ASSUME IInv, Next, at \in FieldPhases
  PROVE  IInv'
<1>1. FieldState
  BY DEF IInv, FieldState
<1>2. ReadTag \/ SkipField \/ ErrorFound \/ NoError \/ ValueFound \/ NoValue
  BY DEF Next, FieldPhases, TakeParameter, GuestAnswers, Envelope, ReadText, Raised,
         Exit, OutputRead, Plain, Empty, OneNode, ExistsNode, CountNodes, ReadNode,
         NodesRead, CountKeywords, ReadPair, PairsRead
<1>3. Kept
  BY <1>1, <1>2, FieldReadTagStep, SkipFieldStep, ErrorFoundStep, NoErrorStep,
     ValueFoundStep, NoValueStep
<1>4. at # "request" /\ at' # "request" /\ UNCHANGED <<sent, taken>>
  BY <1>2, FieldGoesTo DEF FieldAction, FieldPhases
<1>5. RequestInv' /\ TakenInv'
  BY <1>4 DEF RequestInv, TakenInv, IInv
<1>6. QED
  BY <1>3, <1>5 DEF Kept, IInv

LEMMA ReaderStep ==
  ASSUME IInv, Next, at \notin FieldPhases \cup {"request"}
  PROVE  IInv'
<1>1. NodeAction
  BY DEF Next, FieldPhases, NodeAction, ReadTag, Scanning, TakeParameter, GuestAnswers,
         SkipField, ErrorFound, NoError, ValueFound, NoValue
<1>2. /\ at \in NodePhases /\ at' \in NodePhases \cup {"done"}
      /\ UNCHANGED <<sent, taken>>
  BY <1>1, NodeGoesTo
<1>3. NodeState
  BY <1>2 DEF IInv, NodeState
<1>4. NodeInv' /\ DoneInv' /\ Types' /\ r' \in NodeReaders
  BY <1>1, <1>3, NodeStep
<1>5. Bounds'
  BY <1>4, NodeReaderBounds DEF Bounds
<1>6. RequestInv' /\ FieldInv' /\ TakenInv'
  BY <1>2 DEF RequestInv, FieldInv, TakenInv, FieldPhases, NodePhases, IInv
<1>7. QED
  BY <1>4, <1>5, <1>6 DEF IInv

LEMMA StutterInv ==
  ASSUME IInv, UNCHANGED vars
  PROVE  IInv'
<1>1. UNCHANGED <<sent, taken, whole, resp, at, tag, r, left, got>>
  BY DEF vars
<1>2. Want' = Want /\ Fields' = Fields /\ Awaited' = Awaited
  BY <1>1 DEF Want, Fields, Awaited
<1>3. Types' /\ Bounds' /\ TakenInv'
  BY <1>1 DEF IInv, Types, Bounds, TakenInv
<1>4. RequestInv'
  BY <1>1, <1>2, SMTT(40) DEF IInv, RequestInv, RequestAt, ReadTo
<1>5. FieldInv'
  BY <1>1, <1>2, SMTT(40) DEF IInv, FieldInv, FieldAt, FieldTrack, Answer
<1>6. NodeInv'
  BY <1>1, <1>2 DEF IInv, NodeInv, WantOf, OnTrack, EnvelopeTrack, PayloadTrack,
     RaisedTrack, ExitTrack, OutputTrack, NodesTrack, KeywordsTrack, PairsTrack
<1>7. DoneInv'
  BY <1>1, <1>2 DEF IInv, DoneInv, Looked
<1>8. QED
  BY <1>3, <1>4, <1>5, <1>6, <1>7 DEF IInv

LEMMA NextInv ==
  IInv /\ [Next]_vars => IInv'
BY RequestStep, FieldStep, ReaderStep, StutterInv

(* The invariant of the codec (src/internal/python.go:33-1343,             *)
(* src/wire.go:199-360): whatever the guest has read of a request is what  *)
(* was sent, whatever the decoders have read of an answer is what the      *)
(* guest wrote, and the rest of it lies ahead unless the bytes were cut.   *)
THEOREM CodecInvariant ==
  Spec => []IInv
BY InitInv, NextInv, PTL DEF Spec

(* No reader is ever behind the last of its bytes, or before the first:    *)
(* neither the nodeReader (src/wire.go:199-269) nor that of the fields     *)
(* (src/internal/python.go:210-326), for every message that an encoder     *)
(* writes (IsSent), cut short anywhere, with any other fields around the   *)
(* answer's (IsField).  A negative length is none of them: on one pbReader *)
(* moves back.                                                             *)
THEOREM ReaderBounded ==
  Spec => []ReaderInBounds
<1>1. IInv => ReaderInBounds
  BY DEF IInv, Types, Bounds, Recorded, Statuses, Points, NodePhases, ReaderInBounds
<1>2. QED
  BY <1>1, CodecInvariant, PTL

(* Of the request that a method of Python lays out                         *)
(* (src/internal/python.go:33-1178), the guest takes the arguments that    *)
(* the method was called with, and of a buffer the bytes that its length   *)
(* field counts.                                                           *)
THEOREM GuestUnderstands ==
  Spec => []RequestsUnderstood
<1>1. IInv => RequestsUnderstood
  BY DEF IInv, TakenInv, RequestsUnderstood
<1>2. QED
  BY <1>1, CodecInvariant, PTL

(* An answer that arrives whole is decoded to the outcome that the guest   *)
(* sent: values, texts, number and status, in whichever envelope           *)
(* (src/bridge.go:25-196, src/object.go, src/value.go), whatever fields    *)
(* there are around it.                                                    *)
THEOREM WholeComesBack ==
  Spec => []WholeExact
<1>1. IInv => WholeExact
  BY DEF IInv, DoneInv, WholeExact
<1>2. QED
  BY <1>1, CodecInvariant, PTL

(* What is decoded of an answer that is cut short, and is no error, is     *)
(* what the guest sent, unless the flag of the nodeReader is up and the    *)
(* decoder is one that does not look at it (src/wire.go:199-360,           *)
(* src/bridge.go:25-196, src/value.go).                                    *)
THEOREM CutIsTold ==
  Spec => []CutShortTold
<1>1. IInv => CutShortTold
  BY DEF IInv, DoneInv, NoEnvelope, CutShortTold
<1>2. QED
  BY <1>1, CodecInvariant, PTL
=============================================================================
