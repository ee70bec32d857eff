------------------------------ MODULE MCCodec ------------------------------
(* Codec for TLC: bytes of four bits, words of two bytes. *)
EXTENDS Codec

(* The arguments of an operation: the interpreter's handle h, the id of an *)
(* object, a name, nodes.                                                  *)
h     == 129
Obj   == 200
Name  == <<15, 0, 1>>
Key   == encodeValue(IntValue(-1, FALSE))
Nodes2 == encodeList(<<Key, encodeValue(NoneValue)>>)
Kwargs == encodeKeywords(<<<<2>>>>, <<encodeValue(BoolValue(TRUE))>>)

Arguments(op) ==
  CASE op = "pyNew" -> <<Name>>
    [] op \in {"asyncExcAddr", "breakerAddr", "kbdIntObj", "Close"} -> <<h>>
    [] op = "EvalOp" -> <<h, Name>>
    [] op \in {"ImportOp"} -> <<h, Name>>
    [] op \in {"NewListOp", "NewTupleOp", "NewSetOp", "NewFrozenSetOp"}
         -> <<h, Nodes2>>
    [] op = "NewDictOp" ->
         <<h, encodeDictItems(<<<<NoneValue, StrValue(<<7>>)>>>>)>>
    [] op = "drainReleases" -> <<h, LittleEndian(Obj, WordBytes)>>
    [] op \in {"LenOp", "StrOp", "ReprOp", "IterOp", "DictKeysOp",
               "DictValuesOp", "DictItemsOp"} -> <<h, Obj>>
    [] op = "GetAttrOp" -> <<h, Obj, Name>>
    [] op = "ListAppendOp" -> <<h, Obj, Nodes2>>
    [] op \in {"ContainsOp", "DictGetOp", "SetAddOp", "SetDiscardOp",
               "GetItemOp", "DelItemOp"} -> <<h, Obj, Key>>
    [] op = "IsInstanceOp" -> <<h, Obj, 7>>
    [] op = "SetAttrOp" -> <<h, Obj, Name, Key>>
    [] op = "SetItemOp" -> <<h, Obj, Key, encodeValue(StrValue(<<>>))>>
    [] op = "CallOp" -> <<h, Obj, Nodes2, Kwargs>>
    [] op = "CallMethodOp" -> <<h, Obj, Name, encodeList(<<>>), Kwargs>>

Exchange(op, args, status, entries, texts, num) ==
  [op |-> op, args |-> args, status |-> status, entries |-> entries,
   texts |-> texts, num |-> num]

Message(op, status, entries, texts, num) ==
  Exchange(op, Arguments(op), status, entries, texts, num)

Sent(as, x) == [as |-> as, x |-> x]

(* The ends of the ranges, and the numbers beyond them. *)
Int64s  == {-128, -1, 0, 127}
Uint64s == {0, 127, 128, 255}
BigInts == {-257, -129, -128, -1, 0, 127, 128, 256}

Ints == {Sent("int64", n) : n \in Int64s}
        \cup {Sent("uint64", n) : n \in Uint64s}
        \cup {Sent("big.Int", n) : n \in BigInts}
        \cup {Sent("guest", n) : n \in BigInts}

Exception == Sent("value", ObjectValue(200, 0, FALSE, <<7, 7>>))

OtherValues ==
  {Sent("value", v) : v \in
     {NoneValue, BoolValue(TRUE), BoolValue(FALSE), FloatValue(200),
      ComplexValue(<<1, 255>>), StrValue(<<>>), StrValue(<<15, 0>>),
      BytesValue(<<0>>), ObjectValue(255, 6, TRUE, <<>>)}}
  \cup {Exception}

Few == {Sent("int64", -1), Sent("guest", 128), Sent("value", NoneValue),
        Sent("value", StrValue(<<3>>))}

Lists == {<<>>} \cup {<<e>> : e \in Few} \cup (Few \X Few)

Raisings == {<<e>> : e \in {Exception, Sent("value", NoneValue)}}

ObjectOf(kind) == Sent("value", ObjectValue(3, kind, FALSE, <<>>))

Module == ObjectOf(kindModule)

(* One operation for each decoder is answered in every way; the others in  *)
(* one way each.                                                           *)
SomeMessages ==
  {Message("GetAttrOp", "ok", <<e>>, <<>>, 0) : e \in Ints \cup OtherValues}
  \cup {Message("IterOp", "ok", es, <<>>, 0) : es \in Lists}
  \cup {Message("DictItemsOp", "ok", es, <<>>, 0) : es \in {<<>>} \cup (Few \X Few)}
  \cup {Message("DictGetOp", "ok", <<e>>, <<>>, n) : e \in Few, n \in {0, 1}}
  \cup {Message("LenOp", "ok", <<>>, <<>>, n) : n \in Int64s}
  \cup {Message("ContainsOp", "ok", <<>>, <<>>, n) : n \in {0, 1}}
  \cup {Message("StrOp", "ok", <<>>, <<t>>, 0) : t \in {<<>>, <<0, 1>>}}
  \cup {Message("SetAttrOp", "ok", <<>>, <<>>, 0)}
  \cup {Message(op, "raised", e, <<<<1>>, <<>>, <<2, 3>>>>, 0) :
          op \in {"GetAttrOp", "SetAttrOp"}, e \in Raisings}
  \cup {Message(op, "exit", <<>>, <<>>, n) :
          op \in {"GetAttrOp", "SetAttrOp"}, n \in {-8, -1, 0, 1, 7}}
  \cup {Message("EvalOp", "ok", <<e>>, <<<<4>>, <<>>>>, 0) : e \in Few}
  \cup {Message("EvalOp", "raised", e, <<<<1>>, <<>>, <<2>>, <<4>>, <<5>>>>, 0) :
          e \in Raisings}
  \cup {Message("EvalOp", "exit", <<>>, <<<<4>>, <<5>>>>, n) : n \in {-1, 0, 3}}
  \cup {Message(op, "error", <<>>, <<t>>, 0) :
          op \in {"IterOp", "Close", "drainReleases"}, t \in {<<>>, <<0, 1>>}}
  \cup {Message("pyNew", "ok", <<>>, <<>>, n) : n \in {0, 7, 8, 63, 64, 255}}
  \cup {Message("breakerAddr", "ok", <<>>, <<>>, n) : n \in {0, 7, 8, 15}}
  \cup {Message(op, "ok", <<>>, <<>>, 9) : op \in {"asyncExcAddr", "kbdIntObj"}}
  \cup {Message(op, "ok", <<>>, <<>>, 0) :
          op \in {"Close", "drainReleases", "SetItemOp", "DelItemOp",
                  "ListAppendOp", "SetAddOp", "SetDiscardOp"}}
  \cup {Message(op, "ok", <<Module>>, <<>>, 0) :
          op \in {"GetItemOp", "CallOp", "CallMethodOp"}}
  \cup {Message(op, "ok", <<Module>>, <<>>, 0) :
          op \in {"DictKeysOp", "DictValuesOp"}}
  \cup {Message("ImportOp", "ok", <<e>>, <<>>, 0) :
          e \in {Module, ObjectOf(kindObject), Sent("value", NoneValue)}}
  \cup {Message(op, "ok", <<ObjectOf(As[op])>>, <<>>, 0) :
          op \in DOMAIN As \ {"ImportOp", "NewFunctionOp"}}
  \cup {Message("ReprOp", "ok", <<>>, <<<<5>>>>, 0),
        Message("IsInstanceOp", "ok", <<>>, <<>>, 1)}
  \cup {Exchange("NewFunctionOp", <<h, Name, id>>, "ok",
                 <<ObjectOf(kindFunction)>>, <<>>, 0) : id \in {1, 7, -8}}
  \cup {Exchange("EnsureDispatcher", <<h, id>>, "ok", <<>>, <<>>, 0) :
          id \in {1, -1}}
  \cup {Exchange("GoFunc", <<>>, "ok", es, SubSeq(<<<<1>>, <<2, 2>>>>, 1, n), 0) :
          es \in Few \X Few, n \in 0 .. 2}

OtherFields ==
  {<<>>, AppendUint64(2, 255), AppendFixed(3, <<1, 9>>), AppendFixed(4, <<15>>),
   AppendTag(5, 3), AppendBytes(9, <<8, 15, 8>>)}
=============================================================================
