------------------------------ MODULE XmlData ------------------------------
(***************************************************************************)
(* parse_xml(): QoreXmlReader::getXmlData() (QoreXmlReader.cpp) turns the  *)
(* nodes of a document into nested hashes with the help of xml_stack       *)
(* (QoreXmlRpcReader.h).                                                   *)
(*                                                                         *)
(* The reader delivers the nodes in document order, each with its depth,   *)
(* and no node for the end of an element: the stack is what remembers where*)
(* a node belongs.  One step is one turn of the loop of getXmlData().      *)
(***************************************************************************)
EXTENDS Integers, Sequences, FiniteSets, SequencesExt

CONSTANTS
  ElementName,     \* names of elements
  MaxNodes,        \* bound: nodes of a document
  MaxDepth,        \* bound: depth of a document
  MaxOutside,      \* bound: comments and processing instructions outside of the root element
  MaxExtra,        \* bound: elements with attributes and nodes that are dropped
  Flags            \* sets of XPF_PRESERVE_ORDER ("order"), XPF_ADD_COMMENTS ("comments")

Leaf == {"text", "cdata", "comment"}

\* Nodes that getXmlData() has no branch for: a processing instruction (or what else
\* has none), and a text of nothing but whitespace.
Dropped == {"instruction", "space"}

\* No name of an element is one of the keys that are written with "^" around.
ASSUME XmlAssumption ==
  /\ MaxNodes \in Nat /\ MaxDepth \in Nat /\ MaxOutside \in Nat /\ MaxExtra \in Nat
  /\ Flags \subseteq SUBSET {"order", "comments"}
  /\ ElementName \cap (Leaf \cup {"attributes", "element"}) = {}

VARIABLES
  pflags,  \* the flags parse_xml() was called with
  doc,     \* the nodes delivered so far
  heap,    \* the Qore values: heap[0] is the result, heap[i] that of element doc[i]
  stack    \* xml_stack, its tail last

xvars == <<pflags, doc, heap, stack>>

XPF_PRESERVE_ORDER == "order" \in pflags
XPF_ADD_COMMENTS == "comments" \in pflags

\* val: the text; of an element its attributes, 0 if it has none.  Texts and
\* attributes are told apart by the number of their node.
Node(type, name, depth, val) == [type |-> type, name |-> name, depth |-> depth, val |-> val]

-----------------------------------------------------------------------------
(* Values: NOTHING, a string, or a hash.  A key <<n, i>> of a hash is "n^i" or *)
(* "^n^i^", without i when it is 0; its value is a text or, for an element,    *)
(* the value of the element, or a list of several.                             *)

Value(text, hash, entries) == [text |-> text, hash |-> hash, entries |-> entries]
Nothing == Value(0, FALSE, <<>>)
Entry(key, val, slots) == [key |-> key, val |-> val, slots |-> slots]

Keys(x) == {x.entries[k].key : k \in 1..Len(x.entries)}
Index(x, key) == CHOOSE k \in 1..Len(x.entries) : x.entries[k].key = key

\* setKeyValue()
SetKey(x, e) ==
  IF e.key \in Keys(x) THEN [x EXCEPT !.entries[Index(x, e.key)] = e]
  ELSE [x EXCEPT !.entries = Append(@, e)]

\* A string becomes the "^value^" of a hash.
IsString(x) == ~x.hash /\ x.text # 0
Entries(x) == IF IsString(x) THEN <<Entry(<<"text", 0>>, x.text, <<>>)>> ELSE x.entries
AsHash(x) == Value(0, TRUE, Entries(x))

-----------------------------------------------------------------------------
(* The stack *)

\* count: how many texts, CDATA sections and comments the hash has.
Frame(slot, depth, count) == [slot |-> slot, depth |-> depth, count |-> count]
NoCount == [kind \in Leaf |-> 0]

\* Slip: a sibling stays on the stack.
checkDepth_Sibling(depth) ==
  IF depth = 0 THEN stack
  ELSE SubSeq(stack, 1, SelectLastInSeq(stack, LAMBDA f : f.depth <= depth))

\* Frames are taken off the tail until one is above depth; none is for depth 0.
checkDepth(depth) ==
  IF depth = 0 THEN stack
  ELSE SubSeq(stack, 1, SelectLastInSeq(stack, LAMBDA f : f.depth < depth))

\* Slip: the string that was made a "^value^" is not counted.
Counted_Not(f, x) == f.count

\* The counters once the value x of the frame is a hash: a string that was made
\* its "^value^" counts.
Counted(f, x) == IF IsString(x) THEN [f.count EXCEPT !["text"] = @ + 1] ELSE f.count

\* The stack with other counters at its tail.
Recount(st, count) == [st EXCEPT ![Len(st)] = Frame(@.slot, @.depth, count)]

-----------------------------------------------------------------------------
(* getXmlData() *)

\* Slip: the first suffix is taken without a look at the keys.
FreshKey_First(x, name) == <<name, 1>>

\* The first free key "name^c".
FreshKey(x, name) ==
  <<name, CHOOSE c \in 1..(Len(x.entries) + 1) :
            <<name, c>> \notin Keys(x) /\ \A b \in 1..(c - 1) : <<name, b>> \in Keys(x)>>

\* The hash x with an element added: under a new key, or in a list with its
\* older siblings (with XPF_PRESERVE_ORDER, with the ones just before it).
AddElement(x, name, slot) ==
  LET prior == IF XPF_PRESERVE_ORDER THEN Len(x.entries) ELSE Index(x, <<name, 0>>)
  IN  IF <<name, 0>> \notin Keys(x) THEN SetKey(x, Entry(<<name, 0>>, 0, <<slot>>))
      ELSE IF x.entries[prior].key[1] = name
      THEN Value(0, TRUE, [x.entries EXCEPT ![prior] = Entry(@.key, @.val, Append(@.slots, slot))])
      ELSE SetKey(x, Entry(FreshKey(x, name), 0, <<slot>>))

\* id is the number of node n.
Element(id, n) ==
  LET st == checkDepth(n.depth)
      top == Last(st)
      x == heap[top.slot]
      own == IF n.val = 0 THEN Nothing
             ELSE Value(0, TRUE, <<Entry(<<"attributes", 0>>, n.val, <<>>)>>)
  IN  /\ n.type = "element"
      /\ heap' = [s \in DOMAIN heap \cup {id} |->
                    IF s = id THEN own
                    ELSE IF s = top.slot THEN AddElement(AsHash(x), n.name, id) ELSE heap[s]]
      /\ stack' = Append(Recount(st, Counted(top, x)), Frame(id, n.depth, NoCount))

\* Text of an element without anything else is its value.
String(id, n) ==
  LET st == checkDepth(n.depth)
      top == Last(st)
  IN  /\ n.type = "text" /\ heap[top.slot] = Nothing
      /\ heap' = [heap EXCEPT ![top.slot] = Value(id, FALSE, <<>>)]
      /\ stack' = st

\* Other text, CDATA sections and comments are entries, each under its own key.
Special(id, n) ==
  LET st == checkDepth(n.depth)
      top == Last(st)
      x == heap[top.slot]
      count == Counted(top, x)
  IN  /\ \/ n.type = "text" /\ x # Nothing
         \/ n.type = "cdata"
         \/ n.type = "comment" /\ XPF_ADD_COMMENTS
      /\ heap' = [heap EXCEPT ![top.slot] =
                    SetKey(AsHash(x), Entry(<<n.type, count[n.type]>>, id, <<>>))]
      /\ stack' = Recount(st, [count EXCEPT ![n.type] = @ + 1])

\* Nothing is done for the other nodes, with any flags.
Skipped(n) ==
  /\ n.type \in Dropped \/ (n.type = "comment" /\ ~XPF_ADD_COMMENTS)
  /\ UNCHANGED <<heap, stack>>

\* A node that can follow in a well-formed document: there is one root element,
\* outside of it there are only comments and instructions, and text is delivered in
\* one piece, with the whitespace in it.
Follows(n) ==
  LET prev == Last(doc)
      rooted == \E i \in 1..Len(doc) : doc[i].type = "element"
      outside == {i \in 1..Len(doc) : doc[i].depth = 0 /\ doc[i].type # "element"}
      texts == {"text", "space"}
  IN  IF n.depth = 0
      THEN \/ n.type \in {"comment", "instruction"} /\ Cardinality(outside) < MaxOutside
           \/ n.type = "element" /\ ~rooted
      ELSE /\ doc # <<>> /\ rooted
           /\ prev.depth = 0 => prev.type = "element"
           /\ n.depth <= prev.depth + (IF prev.type = "element" THEN 1 ELSE 0)
           /\ ~(n.type \in texts /\ prev.type \in texts /\ n.depth = prev.depth)

XmlInit ==
  /\ pflags \in Flags
  /\ doc = <<>>
  /\ heap = [s \in {0} |-> Nothing]
  /\ stack = <<Frame(0, -1, NoCount)>>

IsExtra(n) == n.type \in Dropped \/ (n.type = "element" /\ n.val # 0)
Extra == {i \in 1..Len(doc) : IsExtra(doc[i])}

Deliver(id, n) ==
  /\ Len(doc) < MaxNodes
  /\ IsExtra(n) => Cardinality(Extra) < MaxExtra
  /\ Follows(n)
  /\ doc' = Append(doc, n)
  /\ UNCHANGED pflags
  /\ Element(id, n) \/ String(id, n) \/ Special(id, n) \/ Skipped(n)

getXmlData ==
  LET id == Len(doc) + 1
  IN  \/ \E name \in ElementName, depth \in 0..MaxDepth, val \in {0, id} :
           Deliver(id, Node("element", name, depth, val))
      \/ \E type \in Leaf \cup Dropped, depth \in 0..MaxDepth :
           Deliver(id, Node(type, type, depth, id))

XmlSpec == XmlInit /\ [][getXmlData]_xvars

-----------------------------------------------------------------------------
(* What a document says of its nodes *)

\* Node i belongs into the value of node j, the innermost element around it; a
\* node of depth 0 into the result.
ParentOf(j, i) ==
  IF doc[i].depth = 0 THEN j = 0
  ELSE /\ j \in 1..(i - 1) /\ doc[j].type = "element" /\ doc[j].depth = doc[i].depth - 1
       /\ \A k \in (j + 1)..(i - 1) :
            ~(doc[k].type = "element" /\ doc[k].depth = doc[i].depth - 1)

\* A comment after the root element.  checkDepth() pops nothing for it, so it
\* goes into the element that was open last: it is not where it was.
Misplaced(i) ==
  /\ doc[i].depth = 0 /\ doc[i].type = "comment"
  /\ \E j \in 1..(i - 1) : doc[j].type = "element"

\* The nodes that the result is to have.  Instructions and whitespace are the
\* exception: they are lost without an error or a flag that would keep them.
Kept(i) ==
  /\ doc[i].type \notin Dropped
  /\ doc[i].type = "comment" => XPF_ADD_COMMENTS

\* The nodes that the entry stands for.
Contents(e) ==
  IF e.key[1] \in Leaf THEN {e.val}
  ELSE IF e.key[1] = "attributes" THEN {} ELSE ToSet(e.slots)

Place(s) == 1..Len(Entries(heap[s]))
EntryAt(s, k) == Entries(heap[s])[k]
Held(s) == UNION {Contents(EntryAt(s, k)) : k \in Place(s)}

-----------------------------------------------------------------------------
(* Properties *)

NodeType == [type: Leaf \cup Dropped \cup {"element"}, name: Leaf \cup Dropped \cup ElementName,
             depth: Nat, val: Nat]
EntryType == [key: (Leaf \cup ElementName \cup {"attributes"}) \X Nat, val: Nat, slots: Seq(Nat)]
ValueType == [text: Nat, hash: BOOLEAN, entries: Seq(EntryType)]
FrameType == [slot: Nat, depth: Int, count: [Leaf -> Nat]]

Typed ==
  /\ pflags \in Flags
  /\ doc \in Seq(NodeType)
  /\ heap \in [{0} \cup {i \in 1..Len(doc) : doc[i].type = "element"} -> ValueType]
  /\ stack \in Seq(FrameType)

\* The stack leads from the result to where the last node went, one frame per
\* depth, each the value of an element in the value of the frame before it; and
\* the counters of every frame are numbers that are free in its hash.
XmlTypeOK ==
  /\ Typed
  /\ stack # <<>> /\ stack[1].slot = 0
  /\ \A i \in 1..Len(stack) : stack[i].slot \in DOMAIN heap /\ stack[i].depth = i - 2
  /\ \A i \in 1..(Len(stack) - 1) :
       \E k \in Place(stack[i].slot) : stack[i + 1].slot \in ToSet(EntryAt(stack[i].slot, k).slots)
  /\ \A i \in 1..Len(stack), kind \in Leaf :
       <<kind, stack[i].count[kind]>> \notin Keys(heap[stack[i].slot])

\* Every node that is kept is in the value of the element around it (a misplaced
\* comment is in some value).
EachInItsPlace ==
  \A i \in 1..Len(doc) : Kept(i) =>
    \E s \in DOMAIN heap : i \in Held(s) /\ (ParentOf(s, i) \/ Misplaced(i))

\* It is there once: in no other value, in no other entry of its value,
\* and at one place of a list.
NoneTwice ==
  /\ \A s, t \in DOMAIN heap : s < t => Held(s) \cap Held(t) = {}
  /\ \A s \in DOMAIN heap : \A k, l \in Place(s) :
       k < l => Contents(EntryAt(s, k)) \cap Contents(EntryAt(s, l)) = {}
  /\ \A s \in DOMAIN heap : \A k \in Place(s) :
       LET list == EntryAt(s, k).slots
       IN  \A a, b \in 1..Len(list) : a < b => list[a] < list[b]

\* It is under its name or the key of its type, and nothing else is in a value.
NothingMadeUp ==
  \A s \in DOMAIN heap : \A k \in Place(s) : \A i \in Contents(EntryAt(s, k)) :
    i \in 1..Len(doc) /\ Kept(i) /\ doc[i].name = EntryAt(s, k).key[1]

\* An element has the attributes that it had.
AttributesKept ==
  \A s \in DOMAIN heap :
    LET of == {EntryAt(s, k).val : k \in {l \in Place(s) : EntryAt(s, l).key[1] = "attributes"}}
    IN  of = IF s = 0 \/ doc[s].val = 0 THEN {} ELSE {doc[s].val}

\* With XPF_PRESERVE_ORDER a value has its nodes in the order of the document.
InOrder ==
  XPF_PRESERVE_ORDER =>
    \A s \in DOMAIN heap : \A k, l \in Place(s) : k < l =>
      \A i \in Contents(EntryAt(s, k)), j \in Contents(EntryAt(s, l)) : i < j

\* With any flags, the result has every node that is kept once, where it belongs,
\* and no other: no value is overwritten by a later one that was given its key,
\* none goes to a frame that is left, and none is pushed out by a node that is
\* dropped.  Instructions and whitespace are not kept, and a comment after the
\* root element is kept at another place.
NothingLost ==
  EachInItsPlace /\ NoneTwice /\ NothingMadeUp /\ AttributesKept /\ InOrder
=============================================================================
