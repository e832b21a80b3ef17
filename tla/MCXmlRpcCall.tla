---------------------------- MODULE MCXmlRpcCall ----------------------------
(***************************************************************************)
(* Instances of XmlRpcCall.                                                *)
(***************************************************************************)
EXTENDS XmlRpcCall

MCInstalled == <<[text |-> "listMethods", names |-> {"listMethods"}, code |-> "listMethods"],
                 [text |-> "echo", names |-> {"echo"}, code |-> "echo"]>>
MCNewMethod == {[text |-> "all", names |-> {"echo", "other"}, code |-> "object"]}

MCSome == {Nothing, <<"string", "t">>}
MCLeaf == MCSome \cup {<<"string", "">>, <<"string", "blank">>}
MCValue == MCLeaf \cup {<<"int", "1">>, <<"int", "big">>, <<"object", "">>, List(<<>>), Hash(<<>>)}
  \cup {List(<<a>>) : a \in MCLeaf} \cup {List(<<a, b>>) : a, b \in MCSome}
  \cup {Hash(<< <<"k", a>> >>) : a \in MCLeaf} \cup {Hash(<< <<"", Nothing>> >>)}
  \cup {Hash(<< <<"k", List(<<a>>)>>, <<"l", <<"int", "1">> >> >>) : a \in MCSome}
=============================================================================
