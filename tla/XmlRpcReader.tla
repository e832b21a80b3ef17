---------------------------- MODULE XmlRpcReader ----------------------------
(***************************************************************************)
(* XML-RPC values as XML: add_xmlrpc_value() and its callers (ql_xml.qpp)  *)
(* write them; QoreXmlRpcReader and parse_xmlrpc_call(), -_response() and  *)
(* -_value() read them.                                                    *)
(*                                                                         *)
(* The reader never sees a tree: it moves over the nodes one way and tells *)
(* <x/>, which has no end node, from <x></x> by the depth of the node that *)
(* follows.                                                                *)
(***************************************************************************)
EXTENDS Integers, Sequences, SequencesExt

VARIABLES
  doc,  \* the nodes of the message that is read
  cut   \* the message was cut off: reading on at its end is an error

-----------------------------------------------------------------------------
(* Values and nodes *)

\* A value is <<kind, content>>; a hash has <<name, value>> pairs, in order.
Nothing == <<"nothing">>
List(l) == <<"list", l>>
Hash(h) == <<"hash", h>>

Node(type, name, depth) == [type |-> type, name |-> name, depth |-> depth]
Open(name, depth) == Node("element", name, depth)

\* XML-RPC element names and the kind of value each stands for.
Types == [string |-> "string", i4 |-> "int", int |-> "int", boolean |-> "boolean",
          double |-> "double", date |-> "date", base64 |-> "binary",
          struct |-> "hash", array |-> "list", nil |-> "nothing"]

\* xmlrpc_do_empty_value()
Empty(kind) ==
  CASE kind \in {"hash", "list"} -> <<kind, <<>> >>
    [] kind \in {"string", "binary"} -> <<kind, "">>
    [] kind = "nothing" -> Nothing
    [] OTHER -> <<kind, "zero">>

-----------------------------------------------------------------------------
(* Writing *)

Element(name, depth, content) ==
  <<Open(name, depth)>> \o content \o <<Node("end", name, depth)>>

\* Integers that are written as such.
Small == {"zero", "1", "2^31-1"}

\* Slip: integers of any size are written as i4.
TypeName_AnyInt(v) ==
  CASE v[1] = "int" -> "i4" [] v[1] = "binary" -> "base64" [] OTHER -> v[1]

TypeName(v) ==
  CASE v[1] = "int" -> IF v[2] \in Small THEN "i4" ELSE "string"
    [] v[1] = "binary" -> "base64"
    [] OTHER -> v[1]

\* Blank text is whitespace to the reader.
Content(text, depth) ==
  CASE text = "" -> <<>>
    [] text = "blank" -> <<Node("blank", "", depth)>>
    [] OTHER -> <<Node("text", text, depth)>>

EmptyKey == "!!empty-hash-key!!"

RECURSIVE add_xmlrpc_value_intern(_, _)
add_xmlrpc_value(v, depth) ==
  IF v = Nothing THEN <<Open("value", depth)>>
  ELSE Element("value", depth, add_xmlrpc_value_intern(v, depth + 1))

\* A member per key of a hash.
Member(key, v, depth) ==
  Element("member", depth,
          Element("name", depth + 1, Content(IF key = "" THEN EmptyKey ELSE key, depth + 2))
          \o add_xmlrpc_value(v, depth + 1))

add_xmlrpc_value_intern(v, depth) ==
  CASE v[1] = "hash" ->
         Element("struct", depth,
                 FlattenSeq([i \in DOMAIN v[2] |-> Member(v[2][i][1], v[2][i][2], depth + 1)]))
    [] v[1] = "list" ->
         Element("array", depth,
                 IF v[2] = <<>> THEN <<Open("data", depth + 1)>>
                 ELSE Element("data", depth + 1,
                              FlattenSeq([i \in DOMAIN v[2] |-> add_xmlrpc_value(v[2][i], depth + 2)])))
    [] OTHER -> Element(TypeName(v), depth, Content(v[2], depth + 1))

\* Only these types can be written.
RECURSIVE Writable(_)
Writable(v) ==
  CASE v[1] = "hash" -> \A m \in ToSet(v[2]) : Writable(m[2])
    [] v[1] = "list" -> \A e \in ToSet(v[2]) : Writable(e)
    [] OTHER -> v[1] # "object"

Params(l) ==
  Element("params", 1, FlattenSeq([i \in DOMAIN l |-> Element("param", 2, add_xmlrpc_value(l[i], 3))]))

Call(method, params) ==
  Element("methodCall", 0, Element("methodName", 1, Content(method, 2)) \o params)

\* The parameters follow the method name in the call.
make_xmlrpc_call(method, l) == Call(method, Params(l))

\* The parameters come in one argument.
make_xmlrpc_call_args(method, v) ==
  Call(method, CASE v = Nothing -> <<Open("params", 1)>>
                 [] v[1] = "list" -> IF v[2] = <<>> THEN <<>> ELSE Params(v[2])
                 [] OTHER -> Params(<<v>>))

make_xmlrpc_response(v) ==
  Element("methodResponse", 0,
          Params(CASE v = Nothing -> <<>> [] v[1] = "list" -> v[2] [] OTHER -> <<v>>))

make_xmlrpc_fault(code, text) ==
  LET member(name, type, content) ==
        Element("member", 4, Element("name", 5, Content(name, 6))
                \o Element("value", 5, Element(type, 6, Content(content, 7))))
  IN  Element("methodResponse", 0, Element("fault", 1, Element("value", 2, Element("struct", 3,
              member("faultCode", "int", code) \o member("faultString", "string", text)))))

\* XGF_ADD_FORMATTING: whitespace between two tags, but not within a string.
Formatted(nodes) ==
  LET tag(n) == n.type \in {"element", "end"}
      apart(i) == /\ tag(nodes[i]) /\ tag(nodes[i + 1])
                  /\ nodes[i].type = "end" \/ nodes[i].name # "string"
  IN  FlattenSeq([i \in DOMAIN nodes |->
        IF i < Len(nodes) /\ apart(i) THEN <<nodes[i], Node("blank", "", 0)>> ELSE <<nodes[i]>>])

-----------------------------------------------------------------------------
(* Reading.  A position is an index of doc, one past it at the end. *)

At(i) == IF i <= Len(doc) THEN doc[i] ELSE Node("none", "", 0)
IsElement(i, name) == At(i).type = "element" /\ At(i).name = name
IsEnd(i, name) == At(i).type = "end" /\ At(i).name = name

\* read() until there is something else than whitespace.
readXmlRpc(i) ==
  LET later == {j \in (i + 1)..Len(doc) : doc[j].type # "blank"}
  IN  IF later = {} THEN Len(doc) + 1 ELSE Min(later)

\* What a function of the reader gives: the value, and where the reader is.  It
\* fails with an exception, but not when it just finds no more node (read() is 0).
Ok(i, v) == [rc |-> "ok", at |-> i, v |-> v]

\* Slip: an error of read() is not told from its end.
Fail_AtEnd(i) == [rc |-> IF i > Len(doc) THEN "silent" ELSE "error", at |-> i, v |-> Nothing]

Fail(i) == [rc |-> IF i > Len(doc) /\ ~cut THEN "silent" ELSE "error", at |-> i, v |-> Nothing]

getString(i) ==
  LET close == IF At(i).type = "text" THEN readXmlRpc(i) ELSE i
  IN  IF At(close).type = "end"
      THEN Ok(close, <<"string", IF At(i).type = "text" THEN At(i).name ELSE "">>)
      ELSE Fail(close)

\* getBoolean(), getInt(), getDouble(), getDate() and getBase64()
getScalar(kind, i) ==
  LET close == IF At(i).type = "text" THEN readXmlRpc(i) ELSE i
  IN  IF At(close).type = "end"
      THEN Ok(close, IF At(i).type = "text" THEN <<kind, At(i).name>> ELSE Empty(kind))
      ELSE Fail(close)

\* On to the next node.
After(r) == IF r.rc = "ok" THEN Ok(readXmlRpc(r.at), r.v) ELSE r

RECURSIVE getValueData(_, _), Entries(_, _, _), Members(_, _, _), ParamList(_, _, _)

\* The end of the message, or of a part of it, has to be there.
Ended(r) == IF r.rc = "ok" /\ At(r.at).type # "end" THEN Fail(r.at) ELSE r

\* Slip: </value> is skipped without a look.
Closed_Unchecked(r) == After(r)

\* After <value>: nothing, or a value; then </value>, and what comes after it.
Closed(r) == After(Ended(r))
ValueOrEnd(i) == IF At(i).type = "end" THEN Ok(i, Nothing) ELSE getValueData(i, TRUE)

\* The entries of an array, up to </data>: a value is empty unless something
\* deeper follows.
Entry(j, value_depth) == IF At(j).depth > value_depth THEN Closed(ValueOrEnd(j)) ELSE Ok(j, Nothing)
MoreEntries(r, value_depth, l) ==
  IF r.rc = "ok" THEN Entries(r.at, value_depth, Append(l, r.v)) ELSE r
Entries(i, value_depth, l) ==
  IF At(i).type = "end" THEN Ok(readXmlRpc(i), List(l))
  ELSE IF ~IsElement(i, "value") THEN Fail(i)
  ELSE MoreEntries(Entry(readXmlRpc(i), value_depth), value_depth, l)

\* Slip: the reader stays at the </data> of <data></data>.
getArray_AtData(i) ==
  LET j == readXmlRpc(i)
  IN  IF At(i).type = "end" THEN Ok(i, List(<<>>))
      ELSE IF ~IsElement(i, "data") THEN Fail(i)
      ELSE IF At(j).depth > At(i).depth THEN Entries(j, At(j).depth, <<>>) ELSE Ok(j, List(<<>>))

getArray(i) ==
  LET j == readXmlRpc(i)
  IN  IF At(i).type = "end" THEN Ok(i, List(<<>>))
      ELSE IF ~IsElement(i, "data") THEN Fail(i)
      ELSE Ended(IF At(j).depth > At(i).depth THEN Entries(j, At(j).depth, <<>>)
                 ELSE IF At(j).depth = At(i).depth THEN Ok(readXmlRpc(j), List(<<>>))
                 ELSE Ok(j, List(<<>>)))

\* XmlRpcValue: the reference is to the value of a key, new or not.
Assign(h, key, v) ==
  IF \E i \in DOMAIN h : h[i][1] = key
  THEN [i \in DOMAIN h |-> IF h[i][1] = key THEN <<key, v>> ELSE h[i]]
  ELSE Append(h, <<key, v>>)

\* The members of a struct, up to </struct>: first the name, then the value.
MemberName(member) ==
  LET name == readXmlRpc(member)
      text == readXmlRpc(name)
      close == readXmlRpc(text)
  IN  CASE ~IsElement(member, "member") -> Fail(member)
        [] ~IsElement(name, "name") -> Fail(name)
        [] At(text).type # "text" -> Fail(text)
        [] At(close).type # "end" -> Fail(close)
        [] OTHER -> Ok(readXmlRpc(close), At(text).name)
MemberValue(j, member_depth) ==
  Closed(IF At(j).depth > member_depth THEN Closed(ValueOrEnd(j)) ELSE Ok(j, Nothing))
MoreMembers(r, key, member_depth, h) ==
  IF r.rc = "ok" THEN Members(r.at, member_depth, Assign(h, key, r.v)) ELSE r
ValueOf(r, member_depth, h) ==
  IF r.rc # "ok" THEN r
  ELSE IF ~IsElement(r.at, "value") THEN Fail(r.at)
  ELSE MoreMembers(MemberValue(readXmlRpc(r.at), member_depth), r.v, member_depth, h)
Members(i, member_depth, h) ==
  IF At(i).type = "end" THEN Ok(i, Hash(h)) ELSE ValueOf(MemberName(i), member_depth, h)

getStruct(i) == Members(i, At(i).depth, <<>>)

\* </value> and </param> are told apart by their names here.
Named(r, name) == IF r.rc = "ok" /\ ~IsEnd(r.at, name) THEN Fail(r.at) ELSE r

\* The parameters of a call, up to </params>.
ParamValue(k, depth) ==
  IF At(k).depth < depth THEN Ok(k, Nothing) ELSE Closed(Named(ValueOrEnd(k), "value"))
Param(j, array_depth) ==
  LET k == readXmlRpc(j)
  IN  IF At(j).depth <= array_depth THEN Ok(j, Nothing)
      ELSE IF At(j).type = "end" THEN Ok(k, Nothing)
      ELSE IF IsElement(j, "value") THEN Closed(Named(ParamValue(k, At(j).depth), "param"))
      ELSE Fail(j)
MoreParams(r, array_depth, l) ==
  IF r.rc = "ok" THEN ParamList(r.at, array_depth, Append(l, r.v)) ELSE r
ParamList(i, array_depth, l) ==
  IF At(i).type = "end" THEN Ok(i, List(l))
  ELSE IF ~IsElement(i, "param") THEN Fail(i)
  ELSE MoreParams(Param(readXmlRpc(i), array_depth), array_depth, l)

getParams(i) == ParamList(i, At(i).depth, <<>>)

\* The reader is at the name of a type, or at a string without one.  read_next:
\* go on to what comes after it.
getValueData(i, read_next) ==
  LET after(r) == IF read_next THEN After(r) ELSE r
      name == At(i).name
      j == readXmlRpc(i)
  IN  CASE At(i).type = "text" -> after(Ok(i, <<"string", name>>))
        [] At(i).type # "element" -> Fail(i)
        [] j > Len(doc) /\ (read_next \/ cut) -> Fail(i)
        [] name \notin DOMAIN Types -> Fail(i)
        [] j > Len(doc) \/ At(j).depth < At(i).depth -> Ok(j, Empty(Types[name]))
        [] At(j).depth = At(i).depth -> after(Ok(j, Empty(Types[name])))
        [] name = "string" -> after(getString(j))
        [] name = "struct" -> after(getStruct(j))
        [] name = "array" -> after(getArray(j))
        [] name = "nil" -> Fail(i)
        [] OTHER -> after(getScalar(Types[name], j))

parse_xmlrpc_value == getValueData(1, FALSE)

\* What comes after <params>, up to </methodCall>
CallParams(p) ==
  IF At(p).depth = 0 THEN Ok(p, Nothing)
  ELSE After(IF At(p).type = "end" THEN Ok(p, Nothing) ELSE getParams(p))
Tagged(r, tag) == IF r.rc = "ok" THEN Ok(r.at, <<tag, r.v>>) ELSE r

\* The value is <<methodName, params>>.
parse_xmlrpc_call ==
  LET name == readXmlRpc(1)
      text == readXmlRpc(name)
      close == readXmlRpc(text)
      params == readXmlRpc(close)
  IN  CASE ~IsElement(1, "methodCall") -> Fail(1)
        [] ~IsElement(name, "methodName") -> Fail(name)
        [] At(text).type # "text" -> Fail(text)
        [] At(close).type # "end" -> Fail(close)
        [] At(params).type = "end" -> Ok(params, <<At(text).name, Nothing>>)
        [] ~IsElement(params, "params") -> Fail(params)
        [] OTHER -> Tagged(Named(CallParams(readXmlRpc(params)), "methodCall"), At(text).name)

\* After <params>: one parameter at most, then </methodResponse>.
ResponseValue(j, depth) ==
  IF At(j).depth > depth THEN Closed(Named(Ended(getValueData(j, TRUE)), "value")) ELSE Ok(j, Nothing)
ResponseParam(i, depth) ==
  LET j == readXmlRpc(i)
  IN  CASE At(i).depth <= depth -> Ok(i, Nothing)
        [] At(i).type = "end" -> Ok(j, Nothing)
        [] IsElement(i, "value") -> Closed(Named(ResponseValue(j, At(i).depth), "param"))
        [] OTHER -> Fail(i)
ResponseParams(params) ==
  LET p == readXmlRpc(params)
  IN  CASE At(p).depth <= At(params).depth -> Ok(p, Nothing)
        [] At(p).type = "end" -> Ok(readXmlRpc(p), Nothing)
        [] IsElement(p, "param") -> Closed(ResponseParam(readXmlRpc(p), At(p).depth))
        [] OTHER -> Fail(p)

ResponseFault(fault) ==
  LET value == readXmlRpc(fault)
  IN  IF IsElement(value, "value") THEN Closed(Closed(getValueData(readXmlRpc(value), TRUE)))
      ELSE Fail(value)

\* The value is <<"params" or "fault", value>>.
parse_xmlrpc_response ==
  LET i == readXmlRpc(1)
      name == At(i).name
  IN  CASE ~IsElement(1, "methodResponse") -> Fail(1)
        [] At(i).type # "element" \/ name \notin {"params", "fault"} -> Fail(i)
        [] OTHER -> Tagged(Ended(IF name = "params" THEN ResponseParams(i) ELSE ResponseFault(i)), name)
=============================================================================
