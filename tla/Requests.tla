------------------------------ MODULE Requests ------------------------------
(***************************************************************************)
(* The requests of the host and the exports of the guest that they go to.  *)
(*                                                                         *)
(* Both sides of the boundary are written down in src/, by different       *)
(* hands.  The host's side is written by hand: which entry point an        *)
(* operation calls and in which fields its arguments are                   *)
(* (src/internal/instance.go:327-608), and which decoder reads the answer  *)
(* (src/object.go, src/python.go).  The guest's side is generated from its *)
(* header: a wrapper per export with its fields, in the order of the C     *)
(* parameters, and the header's comment on the answer                      *)
(* (src/internal/python.go:859-1344).                                      *)
(***************************************************************************)
EXTENDS Wire

(* An operation's name is that of the function that makes the request.     *)

(* The literal N of wasm2go.Inv_0_N.  "The proto numbers the service's     *)
(* methods alphabetically over the py.h exports, so ONE added export       *)
(* renumbers every later id" (src/internal/methodids_test.go:14-16).       *)
Entry ==
  [asyncExcAddr |-> 0, CallOp |-> 1, CallMethodOp |-> 2, Close |-> 3,
   ContainsOp |-> 4, DelItemOp |-> 5, DictGetOp |-> 6, DictItemsOp |-> 7,
   DictKeysOp |-> 8, DictValuesOp |-> 9, EvalOp |-> 10, breakerAddr |-> 11,
   GetAttrOp |-> 12, GetItemOp |-> 13, ImportOp |-> 14, IsInstanceOp |-> 15,
   IterOp |-> 16, kbdIntObj |-> 17, LenOp |-> 18, ListAppendOp |-> 19,
   pyNew |-> 20, NewDictOp |-> 21, NewFrozenSetOp |-> 22, NewFunctionOp |-> 23,
   NewListOp |-> 24, NewSetOp |-> 25, NewTupleOp |-> 26, drainReleases |-> 27,
   ReprOp |-> 28, SetAddOp |-> 29, SetDiscardOp |-> 30, EnsureDispatcher |-> 31,
   SetAttrOp |-> 32, SetItemOp |-> 33, StrOp |-> 34]

-----------------------------------------------------------------------------
(* The fields of a request, as the host lays them out.  a holds the        *)
(* arguments, the interpreter's handle first.                              *)

(* Mutant: the length overwrites the field of the bytes. *)
appendBufferAtOne(f, data) ==
  AppendBytes(f, data) \o AppendUint64(f, Len(data))

(* appendBuffer and appendName: a (const char *, uint32_t len) pair. *)
appendBuffer(f, data) == AppendBytes(f, data) \o AppendUint64(f + 1, Len(data))

objOp(a) == AppendUint64(1, a[1]) \o AppendUint64(2, a[2])

keyOp(a) == objOp(a) \o appendBuffer(3, a[3])

newOp(a) == AppendUint64(1, a[1]) \o appendBuffer(2, a[2])

Request(op, a) ==
  CASE op = "pyNew"            -> AppendBytes(1, a[1])
    [] op \in {"asyncExcAddr", "breakerAddr", "kbdIntObj", "Close"}
                               -> AppendUint64(1, a[1])
    [] op = "EvalOp"           -> AppendUint64(1, a[1]) \o AppendBytes(2, a[2])
    [] op = "EnsureDispatcher" -> AppendUint64(1, a[1]) \o AppendInt32(2, a[2])
    [] op = "NewFunctionOp"    -> newOp(a) \o AppendInt32(4, a[3])
    [] op \in {"NewListOp", "NewTupleOp", "NewSetOp", "NewFrozenSetOp",
               "NewDictOp", "ImportOp", "drainReleases"} -> newOp(a)
    [] op \in {"LenOp", "StrOp", "ReprOp", "IterOp", "DictKeysOp",
               "DictValuesOp", "DictItemsOp"} -> objOp(a)
    [] op \in {"ContainsOp", "DictGetOp", "ListAppendOp", "SetAddOp",
               "SetDiscardOp", "GetAttrOp", "GetItemOp", "DelItemOp"}
                               -> keyOp(a)
    [] op = "IsInstanceOp"     -> objOp(a) \o AppendUint64(3, a[3])
    [] op \in {"CallOp", "SetAttrOp", "SetItemOp"}
                               -> keyOp(a) \o appendBuffer(5, a[4])
    [] op = "CallMethodOp"     -> keyOp(a) \o appendBuffer(5, a[4])
                                           \o appendBuffer(7, a[5])

-----------------------------------------------------------------------------
(* What the host reads the answer as: the decodeXResult of the method.     *)
ObjectDecoder ==
  [GetAttrOp |-> "node", SetAttrOp |-> "empty", GetItemOp |-> "node",
   SetItemOp |-> "empty", DelItemOp |-> "empty", LenOp |-> "i64",
   ContainsOp |-> "bool", CallOp |-> "node", CallMethodOp |-> "node",
   StrOp |-> "text", ReprOp |-> "text", IsInstanceOp |-> "bool",
   IterOp |-> "list"]

ContainerDecoder ==
  [ListAppendOp |-> "empty", DictGetOp |-> "exists", DictKeysOp |-> "list",
   DictValuesOp |-> "list", DictItemsOp |-> "items", SetAddOp |-> "empty",
   SetDiscardOp |-> "empty"]

InstanceDecoder ==
  [EvalOp |-> "eval", ImportOp |-> "node", NewListOp |-> "node",
   NewTupleOp |-> "node", NewSetOp |-> "node", NewFrozenSetOp |-> "node",
   NewDictOp |-> "node", NewFunctionOp |-> "node"]

(* Without a value: an error is looked for ("checked"), or nothing is.     *)
InternalDecoder ==
  [pyNew |-> "word", asyncExcAddr |-> "half", breakerAddr |-> "half",
   kbdIntObj |-> "half", Close |-> "checked", EnsureDispatcher |-> "checked",
   drainReleases |-> "nothing"]

Decoder ==
  [op \in DOMAIN Entry |->
     CASE op \in DOMAIN ObjectDecoder    -> ObjectDecoder[op]
       [] op \in DOMAIN ContainerDecoder -> ContainerDecoder[op]
       [] op \in DOMAIN InstanceDecoder  -> InstanceDecoder[op]
       [] op \in DOMAIN InternalDecoder  -> InternalDecoder[op]]

(* Kinds of an object node (src/wire.go:34-44) and As[T], which asks for   *)
(* one of them.                                                            *)
kindObject    == 0
kindList      == 1
kindTuple     == 2
kindDict      == 3
kindSet       == 4
kindFrozenSet == 5
kindFunction  == 6
kindModule    == 8

As ==
  [ImportOp |-> kindModule, NewListOp |-> kindList, NewTupleOp |-> kindTuple,
   NewSetOp |-> kindSet, NewFrozenSetOp |-> kindFrozenSet,
   NewDictOp |-> kindDict, NewFunctionOp |-> kindFunction]

Accepts(op, v) ==
  op \in DOMAIN As => v.kind = "object" /\ v.of = As[op]

-----------------------------------------------------------------------------
(* The exports in the order of their numbers: the fields of the wrapper,   *)
(* and what the comment says of the answer.  "data" and "size" are a pair  *)
(* of C parameters, "text" is a string that a zero byte ends.  All but New *)
(* are given the interpreter's handle.                                     *)
Object == <<"word">>
Buffer == <<"data", "size">>

Export(fields, answers) == [takes |-> <<"word">> \o fields, answers |-> answers]

ExportsToDictValues ==
  <<Export(<<>>, "half"),                                 \* AsyncExcAddr
    Export(Object \o Buffer \o Buffer, "node"),           \* Call
    Export(Object \o Buffer \o Buffer \o Buffer, "node"), \* CallMethod
    Export(<<>>, "checked"),                              \* Close
    Export(Object \o Buffer, "bool"),                     \* Contains
    Export(Object \o Buffer, "empty"),                    \* Delitem
    Export(Object \o Buffer, "exists"),                   \* DictGet
    Export(Object, "items"),                              \* DictItems
    Export(Object, "list"),                               \* DictKeys
    Export(Object, "list")>>                              \* DictValues

ExportsToListAppend ==
  <<Export(<<"text">>, "eval"),         \* Eval
    Export(<<>>, "half"),               \* EvalBreakerAddr
    Export(Object \o Buffer, "node"),   \* Getattr
    Export(Object \o Buffer, "node"),   \* Getitem
    Export(Buffer, "node"),             \* Import
    Export(Object \o Object, "bool"),   \* Isinstance
    Export(Object, "list"),             \* Iter
    Export(<<>>, "half"),               \* KeyboardInterruptObj
    Export(Object, "i64"),              \* Len
    Export(Object \o Buffer, "empty")>> \* ListAppend

ExportsToNewTuple ==
  <<[takes |-> <<"text">>, answers |-> "word"],   \* New
    Export(Buffer, "node"),                       \* NewDict
    Export(Buffer, "node"),                       \* NewFrozenset
    Export(Buffer \o <<"int32">>, "node"),        \* NewFunction
    Export(Buffer, "node"),                       \* NewList
    Export(Buffer, "node"),                       \* NewSet
    Export(Buffer, "node")>>                      \* NewTuple

ExportsToStr ==
  <<Export(Buffer, "empty"),                      \* Release
    Export(Object, "text"),                       \* Repr
    Export(Object \o Buffer, "empty"),            \* SetAdd
    Export(Object \o Buffer, "empty"),            \* SetDiscard
    Export(<<"int32">>, "checked"),               \* SetGoDispatcher
    Export(Object \o Buffer \o Buffer, "empty"),  \* Setattr
    Export(Object \o Buffer \o Buffer, "empty"),  \* Setitem
    Export(Object, "text")>>                      \* Str

Exports ==
  ExportsToDictValues \o ExportsToListAppend
    \o ExportsToNewTuple \o ExportsToStr

Called(op) == Exports[Entry[op] + 1]

-----------------------------------------------------------------------------
(* How the guest takes the fields: a parameter that is not there is zero   *)
(* or empty, and of a pair it sees as many bytes as the size says.         *)
Parameter(takes, r) ==
  CASE takes = "word"             -> ReadVarint(r)
    [] takes = "size"             -> [ReadVarint(r) EXCEPT !.v = @ % HalfSize]
    [] takes = "int32"            -> ReadInt32(r)
    [] takes \in {"data", "text"} -> ReadBytes(r)

NotThere(op) ==
  [f \in DOMAIN Called(op).takes |->
     IF Called(op).takes[f] \in {"data", "text"} THEN <<>> ELSE 0]

(* The fields that stand for an argument. *)
Parameters(op) ==
  LET takes == Called(op).takes
      among[n \in 0 .. Len(takes)] ==  \* of the first n
        IF n = 0 THEN <<>>
        ELSE IF takes[n] = "size" THEN among[n - 1] ELSE Append(among[n - 1], n)
  IN  among[Len(takes)]

(* What can be given for a parameter of the export.                        *)
Fits(takes, a) ==
  \/ takes = "word" /\ a \in Word
  \/ takes = "int32" /\ a \in -(HalfSize \div 2) .. HalfSize \div 2 - 1
  \/ takes = "data" /\ IsText(a, HalfBytes)
  \/ takes = "text" /\ a \in Seq(Byte) /\ Len(a) < WordSize \div 2

AreArguments(op, args) ==
  LET fields == Parameters(op)
  IN  /\ args = [i \in DOMAIN fields |-> args[i]]
      /\ \A i \in DOMAIN fields : Fits(Called(op).takes[fields[i]], args[i])

Understood(op, taken) ==
  LET takes  == Called(op).takes
      fields == Parameters(op)
      Seen(f) == IF takes[f] # "data" THEN taken[f]
                 ELSE IF taken[f + 1] <= Len(taken[f])
                      THEN SubSeq(taken[f], 1, taken[f + 1])
                      ELSE <<-1>>  \* beyond the bytes of the argument
  IN  [i \in DOMAIN fields |-> Seen(fields[i])]
=============================================================================
