----------------------------- MODULE XmlRpcCall -----------------------------
(***************************************************************************)
(* A call from an XmlRpcClient to an XmlRpcHandler and back, with peers of *)
(* both that write XML-RPC in another way, or something else: their message*)
(* is one of this module's with one change.  Methods are added meanwhile.  *)
(***************************************************************************)
EXTENDS XmlRpcReader, XmlRpcHandler, FiniteSetsExt

CONSTANTS
  Value,      \* the values that are sent
  CalledName, \* the method names that are called
  EditPeer    \* peers may change a message

VARIABLES
  phase,   \* where the call is
  sent,    \* the nodes of the message, without the whitespace between tags
  edited,  \* a peer changed a message
  cx,      \* the call: method name, parameters, code of the method found
  args,    \* what the client sends: a list of parameters, or a value
  due,     \* what the client should get: <<"params", value>> or <<"fault", code>>
  got      \* what the client gets from the reader

cvars == <<doc, cut, phase, sent, edited, cx, args, due, got>>
vars == <<cvars, hvars>>

NoCall == [method |-> "", params |-> Nothing, code |-> ""]

CallInit ==
  /\ doc = <<>> /\ cut = FALSE /\ sent = <<>> /\ edited = FALSE
  /\ phase = "idle" /\ cx = NoCall /\ args = Nothing /\ due = Nothing /\ got = Ok(1, Nothing)

-----------------------------------------------------------------------------
(* What a peer may do to a message *)

\* The last node of the element at i; <x/> has no other than i.
LastOf(i) ==
  IF i < Len(sent) /\ (\/ sent[i + 1].depth > sent[i].depth
                       \/ sent[i + 1].type = "end" /\ sent[i + 1].depth = sent[i].depth)
  THEN Min({j \in (i + 1)..Len(sent) : sent[j].type = "end" /\ sent[j].depth = sent[i].depth})
  ELSE i

Edits ==
  UNION {
    LET e == LastOf(i)
        n == sent[i]
        with(new) == SubSeq(sent, 1, i - 1) \o new \o SubSeq(sent, e + 1, Len(sent))
        all == SubSeq(sent, i, e)
        inner == SubSeq(sent, i + 1, e - 1)
        renamed == IF e = i THEN <<Open("x", n.depth)>> ELSE Element("x", n.depth, inner)
    IN  {with(<<>>), with(all \o all), with(<<n>>), with(Element(n.name, n.depth, <<>>)),
         with(renamed), with(all \o <<Open("x", n.depth)>>),
         with(all \o <<Node("text", "stray", n.depth)>>)}
    : i \in {j \in 2..Len(sent) : sent[j].type = "element"}}

\* A message goes out, with or without whitespace between its tags.
Write(nodes) ==
  \E fmt \in BOOLEAN :
    /\ sent' = nodes
    /\ doc' = IF fmt THEN Formatted(nodes) ELSE nodes
    /\ cut' = FALSE

Edit ==
  /\ EditPeer /\ ~edited
  /\ phase \in {"called", "answered", "written"}
  /\ edited' = TRUE
  /\ \/ \E nodes \in Edits : doc' = nodes /\ sent' = nodes /\ UNCHANGED cut
     \/ \E n \in 1..(Len(doc) - 1) : doc' = SubSeq(doc, 1, n) /\ cut' = TRUE /\ UNCHANGED sent
     \/ /\ phase # "written"
        /\ doc' = <<sent[1]>> /\ sent' = <<sent[1]>> /\ UNCHANGED cut
  /\ UNCHANGED <<phase, cx, args, due, got, hvars>>

-----------------------------------------------------------------------------
(* The call *)

\* XmlRpcClient::call(), or callArgs() with a list of parameters or with one
SendCall ==
  \E method \in CalledName, v \in Value :
    /\ phase = "idle"
    /\ Writable(v)
    /\ \/ \E l \in {<<>>, <<v>>, <<v, <<"int", "1">> >>} :
            Write(make_xmlrpc_call(method, l)) /\ args' = List(l)
       \/ /\ Write(make_xmlrpc_call_args(method, v))
          /\ args' = IF v[1] = "list" THEN v ELSE List(IF v = Nothing THEN <<>> ELSE <<v>>)
    /\ phase' = "called"
    /\ UNCHANGED <<edited, cx, due, got, hvars>>

\* An answer, as the client should get it.
Reply(answer) ==
  /\ due' = answer
  /\ phase' = "answered"
  /\ Write(IF answer[1] = "fault"
           THEN make_xmlrpc_fault(answer[2], "error") ELSE make_xmlrpc_response(answer[2]))

XMLRPC_INVALID_XML == "2001"
Fault(code) == <<"fault", code>>

\* handleRequest()
Parse ==
  /\ phase = "called"
  /\ LET r == parse_xmlrpc_call
     IN  IF r.rc = "ok"
         THEN /\ cx' = [NoCall EXCEPT !.method = r.v[1], !.params = r.v[2]]
              /\ phase' = "parsed"
              /\ UNCHANGED <<doc, cut, sent, due>>
         ELSE Reply(Fault(XMLRPC_INVALID_XML)) /\ UNCHANGED cx
  /\ UNCHANGED <<edited, args, got, hvars>>

\* callMethod(): the list is walked
FindMethod ==
  /\ phase = "parsed"
  /\ IF Matching(cx.method) # {}
     THEN /\ cx' = [cx EXCEPT !.code = methods[Found(cx.method)].code]
          /\ phase' = "running"
          /\ UNCHANGED <<doc, cut, sent, due>>
     ELSE Reply(Fault("0")) /\ UNCHANGED cx
  /\ UNCHANGED <<edited, args, got, hvars>>

\* Code of a method.  An object cannot be written: the exception becomes a fault,
\* as one that a method throws does.
First == IF cx.params[1] = "list" /\ cx.params[2] # <<>> THEN cx.params[2][1] ELSE Nothing
Returned ==
  CASE cx.code = "echo" -> First
    [] cx.code = "listMethods" -> List([i \in DOMAIN methods |-> <<"string", listMethods[i]>>])
    [] cx.code = "object" -> <<"object", "">>

CallMethod ==
  /\ phase = "running"
  /\ Reply(IF Writable(Returned) THEN <<"params", Returned>> ELSE Fault("0"))
  /\ UNCHANGED <<edited, cx, args, got, hvars>>

\* XmlRpcClient: the response is read
Receive ==
  /\ phase = "answered"
  /\ got' = parse_xmlrpc_response
  /\ phase' = "done"
  /\ UNCHANGED <<doc, cut, sent, edited, cx, args, due, hvars>>

\* make_xmlrpc_value(), and parse_xmlrpc_value() of it
WriteValue ==
  \E v \in Value :
    /\ phase = "idle"
    /\ v # Nothing /\ Writable(v)
    /\ Write(add_xmlrpc_value_intern(v, 0))
    /\ args' = v
    /\ phase' = "written"
    /\ UNCHANGED <<edited, cx, due, got, hvars>>

ReadValue ==
  /\ phase = "written"
  /\ got' = parse_xmlrpc_value
  /\ phase' = "read"
  /\ UNCHANGED <<doc, cut, sent, edited, cx, args, due, hvars>>

Add == AddMethod /\ UNCHANGED cvars

Init == CallInit /\ HandlerInit
Next == SendCall \/ Edit \/ Parse \/ FindMethod \/ CallMethod \/ Receive \/ WriteValue \/ ReadValue \/ Add
Spec == Init /\ [][Next]_vars

-----------------------------------------------------------------------------
(* What a message says, read as a tree *)

Kids(i) ==
  SetToSortSeq({j \in (i + 1)..(LastOf(i) - 1) :
                  sent[j].depth = sent[i].depth + 1 /\ sent[j].type # "end"}, <)
Tag(i) == IF sent[i].type = "element" THEN sent[i].name ELSE sent[i].type
Tags(i) == [k \in DOMAIN Kids(i) |-> Tag(Kids(i)[k])]

RECURSIVE ValidValue(_), Meaning(_)
ValidMember(m) ==
  /\ Tag(m) = "member" /\ Tags(m) = <<"name", "value">>
  /\ Tags(Kids(m)[1]) = <<"text">> /\ ValidValue(Kids(m)[2])
Key(m) == sent[Kids(Kids(m)[1])[1]].name
ValidTyped(i) ==
  CASE Tag(i) = "text" -> TRUE
    [] Tag(i) = "array" -> Tags(i) = <<"data">> /\ \A k \in ToSet(Kids(Kids(i)[1])) : ValidValue(k)
    [] Tag(i) = "struct" -> /\ \A m \in ToSet(Kids(i)) : ValidMember(m)
                            /\ IsInjective([k \in DOMAIN Kids(i) |-> Key(Kids(i)[k])])
    [] Tag(i) \in DOMAIN Types -> Tags(i) \in {<<>>, <<"text">>}
    [] OTHER -> FALSE
ValidValue(i) == Tag(i) = "value" /\ (Kids(i) = <<>> \/ (Len(Kids(i)) = 1 /\ ValidTyped(Kids(i)[1])))

Typed(i) ==
  CASE Tag(i) = "text" -> <<"string", sent[i].name>>
    [] Tag(i) = "array" -> List([k \in DOMAIN Kids(Kids(i)[1]) |-> Meaning(Kids(Kids(i)[1])[k])])
    [] Tag(i) = "struct" ->
         Hash([k \in DOMAIN Kids(i) |-> <<Key(Kids(i)[k]), Meaning(Kids(Kids(i)[k])[2])>>])
    [] OTHER -> IF Kids(i) = <<>> THEN Empty(Types[Tag(i)])
                ELSE <<Types[Tag(i)], sent[Kids(i)[1]].name>>
Meaning(i) == IF Kids(i) = <<>> THEN Nothing ELSE Typed(Kids(i)[1])

ValidParams(i) ==
  /\ Tag(i) = "params"
  /\ \A p \in ToSet(Kids(i)) : Tag(p) = "param" /\ Tags(p) = <<"value">> /\ ValidValue(Kids(p)[1])
ParamsMeaning(i) ==
  IF Kids(i) = <<>> THEN Nothing
  ELSE List([k \in DOMAIN Kids(i) |-> Meaning(Kids(Kids(i)[k])[1])])

\* Is the message what it should be, and what does it say?
Valid ==
  /\ ~cut
  /\ CASE phase = "called" ->
            /\ Len(Kids(1)) \in 1..2 /\ Tag(Kids(1)[1]) = "methodName" /\ Tags(Kids(1)[1]) = <<"text">>
            /\ Len(Kids(1)) = 2 => ValidParams(Kids(1)[2])
       [] phase = "answered" ->
            /\ Len(Kids(1)) = 1
            /\ \/ ValidParams(Kids(1)[1]) /\ Len(Kids(Kids(1)[1])) <= 1
               \/ Tags(1) = <<"fault">> /\ Tags(Kids(1)[1]) = <<"value">>
                  /\ Tags(Kids(Kids(1)[1])[1]) = <<"struct">> /\ ValidValue(Kids(Kids(1)[1])[1])
       [] OTHER -> ValidTyped(1)
Says ==
  CASE phase = "called" -> <<sent[Kids(Kids(1)[1])[1]].name,
                             IF Len(Kids(1)) = 2 THEN ParamsMeaning(Kids(1)[2]) ELSE Nothing>>
    [] phase = "answered" ->
         LET l == ParamsMeaning(Kids(1)[1])
         IN  IF Tags(1) = <<"fault">> THEN <<"fault", Meaning(Kids(Kids(1)[1])[1])>>
             ELSE <<"params", IF l = Nothing THEN Nothing ELSE l[2][1]>>
    [] OTHER -> Typed(1)

Reader ==
  CASE phase = "called" -> parse_xmlrpc_call
    [] phase = "answered" -> parse_xmlrpc_response
    [] phase = "written" -> parse_xmlrpc_value
Readable == phase \in {"called", "answered", "written"}

\* What of a value the format keeps: an integer that needs more than 32 bits goes
\* as a string, an empty key under another name, and blank text is not read.
RECURSIVE Norm(_)
Norm(v) ==
  CASE v[1] = "hash" ->
         Hash([i \in DOMAIN v[2] |-> <<IF v[2][i][1] = "" THEN EmptyKey ELSE v[2][i][1], Norm(v[2][i][2])>>])
    [] v[1] = "list" -> List([i \in DOMAIN v[2] |-> Norm(v[2][i])])
    [] v[1] = "int" /\ v[2] \notin Small -> <<"string", v[2]>>
    [] v = <<"string", "blank">> -> <<"string", "">>
    [] OTHER -> v

\* The strings and keys in a value.
RECURSIVE Texts(_)
Texts(v) ==
  CASE v[1] = "hash" -> UNION {{m[1]} \cup Texts(m[2]) : m \in ToSet(v[2])}
    [] v[1] = "list" -> UNION {Texts(e) : e \in ToSet(v[2])}
    [] OTHER -> IF v = Nothing THEN {} ELSE {v[2]}

TextsRead(v) == CASE phase = "called" -> {v[1]} \cup Texts(v[2])
                  [] phase = "answered" -> Texts(v[2])
                  [] OTHER -> Texts(v)

-----------------------------------------------------------------------------
(* Where the reader loses its place *)

\* <value></value> as an entry of an array, or as the value of a response, is
\* taken for <value/>.
HollowValue ==
  \E i \in 1..(Len(sent) - 1) :
    /\ sent[i] = Open("value", sent[i].depth) /\ sent[i + 1] = [sent[i] EXCEPT !.type = "end"]
    /\ \/ phase = "answered" /\ sent[i].depth = 3
       \/ Last(SelectSeq(SubSeq(sent, 1, i), LAMBDA n : n.depth = sent[i].depth - 1))
            = Open("data", sent[i].depth - 1)

\* What follows an element without content may be taken for its end.
AfterEmpty(k) ==
  /\ sent[k - 1].depth = sent[k].depth
  /\ \/ sent[k - 1].type = "element"
     \/ sent[k - 2].type = "element" /\ sent[k - 2].depth = sent[k].depth

-----------------------------------------------------------------------------
(* Properties *)

\* A message that is what XML-RPC asks for is accepted whatever whitespace is
\* between its tags, and read as what it says: getValueData() and its callers
\* keep their place among <x/>, <x></x> and values without a type.
ReadAsWritten ==
  Readable /\ Valid /\ ~HollowValue => LET r == Reader IN r.rc = "ok" /\ r.v = Says

\* Text that a peer put where none belongs makes the reader fail: in a message that
\* it accepts, every text is the method name, a key or a value that it read.
NothingDropped ==
  Readable /\ ~HollowValue =>
    LET r == Reader
        read == TextsRead(r.v)
    IN  r.rc = "ok" =>
          \A k \in 2..Len(sent) : sent[k].type = "text" /\ ~AfterEmpty(k) => sent[k].name \in read

\* A message that is not accepted raises an exception (readSkipWhitespace() raises
\* none when there is no more node), but for a root alone and what follows an
\* empty element.
RejectionReported ==
  Readable /\ Reader.rc = "silent" => Len(sent) = 1 \/ \E k \in 2..Len(sent) : AfterEmpty(k)

\* With no other peer, the method is called with what the client sent, and the
\* client gets what it returned or the fault; so does the reader of a single value.
\* A list that is returned is left out: see AnswerIsReturn.
Delivered ==
  IF due[1] = "params" THEN <<"params", Norm(due[2])>>
  ELSE <<"fault", Hash(<< <<"faultCode", <<"int", due[2]>> >>, <<"faultString", <<"string", "error">> >> >>)>>
AnswerArrives ==
  ~edited =>
    /\ phase \in {"parsed", "running"} =>
         cx.params = IF args[2] = <<>> THEN Nothing ELSE Norm(args)
    /\ phase = "done" => due # Fault(XMLRPC_INVALID_XML)
    /\ phase = "done" /\ (due[1] = "params" => due[2][1] # "list") => got.rc = "ok" /\ got.v = Delivered
    /\ phase = "read" => got.rc = "ok" /\ got.v = Norm(args)

\* "the return value will be serialized to XML-RPC and sent back to the caller"
\* (XmlRpcHandler.qm): the client gets it, a list too.
AnswerIsReturn == ~edited /\ phase = "done" => got.rc = "ok" /\ got.v = Delivered
=============================================================================
