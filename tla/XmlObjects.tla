----------------------------- MODULE XmlObjects -----------------------------
(***************************************************************************)
(* XmlDoc, XmlNode and XmlReader objects and the libxml2 trees under them: *)
(* QoreXmlDocData is counted by its holders and frees its tree with the    *)
(* last one, an XmlNode::copy() owns a tree of its own, and any other node *)
(* only points into a tree.  The objects come and go in every order.       *)
(***************************************************************************)
EXTENDS Integers, FiniteSets

CONSTANTS
  Object,  \* objects
  Tree     \* what libxml2 allocates: documents and copies of nodes

ASSUME ObjectsFinite == IsFiniteSet(Object)

VARIABLES
  object,  \* the private data of each object, if it exists
  tree,    \* per tree: is its memory there?
  refs     \* per document: the references to its QoreXmlDocData

ovars == <<object, tree, refs>>

\* ptr: the tree it points into; doc: the document it refers to, if any; del: it
\* frees the tree.
Data(class, t, doc, del) == [class |-> class, ptr |-> t, doc |-> doc, del |-> del]
Nil == [class |-> "none", ptr |-> {}, doc |-> {}, del |-> FALSE]

ObjectsInit ==
  /\ object = [o \in Object |-> Nil]
  /\ tree = [t \in Tree |-> "unused"]
  /\ refs = [t \in Tree |-> 0]

-----------------------------------------------------------------------------
(* Operations.  o: the new object; p: the one whose method is called. *)

Create(o, data) == object[o] = Nil /\ object' = [object EXCEPT ![o] = data]
Allocate(t, state) == tree[t] = "unused" /\ tree' = [tree EXCEPT ![t] = state]
Ref(doc) == refs' = [t \in Tree |-> IF t \in doc THEN refs[t] + 1 ELSE refs[t]]

\* A call is made on what exists.  What a call on a dangling node does is undefined.
Usable(p, class) == object[p].class = class /\ tree[object[p].ptr] = "live"

\* XmlDoc::constructor(): when the text cannot be parsed there is no object.
NewDoc(o, t) == Create(o, Data("doc", t, {t}, FALSE)) /\ Allocate(t, "live") /\ Ref({t})

CopyDoc(o, p, t) == Usable(p, "doc") /\ NewDoc(o, t)

\* Slip: a node takes no reference.
NewNode_Borrows(o, t, doc) == Create(o, Data("node", t, doc, FALSE)) /\ UNCHANGED refs

\* QoreXmlNodeData refers to the document it was given.
NewNode(o, t, doc) == Create(o, Data("node", t, doc, FALSE)) /\ Ref(doc)

\* getRootElement(), and a node of the tree that evalXPath() finds
NodeOfDoc(o, p) ==
  /\ Usable(p, "doc")
  /\ NewNode(o, object[p].ptr, object[p].doc)
  /\ UNCHANGED tree

\* A namespace node that evalXPath() finds is a copy that is freed with the result.
NamespaceOfDoc(o, p, t) ==
  /\ Usable(p, "doc")
  /\ NewNode(o, t, object[p].doc)
  /\ Allocate(t, "freed")

\* firstElementChild(), nextElementSibling() ...: doNode() hands on the document,
\* and a copy has none.
Navigate(o, p) ==
  /\ Usable(p, "node")
  /\ NewNode(o, object[p].ptr, object[p].doc)
  /\ UNCHANGED tree

CopyNode(o, p, t) ==
  /\ Usable(p, "node")
  /\ Create(o, Data("node", t, {}, TRUE))
  /\ Allocate(t, "live")
  /\ UNCHANGED refs

\* Slip: the copy of a reader takes over the reference of the first.
NewReader_NoRef(o, p) ==
  /\ Usable(p, "doc") \/ Usable(p, "reader")
  /\ Create(o, Data("reader", object[p].ptr, object[p].doc, FALSE))
  /\ IF object[p].class = "doc" THEN Ref(object[p].doc) ELSE UNCHANGED refs
  /\ UNCHANGED tree

\* An XmlReader over a document or its copy; toQore() has one for the call.
NewReader(o, p) ==
  /\ Usable(p, "doc") \/ Usable(p, "reader")
  /\ Create(o, Data("reader", object[p].ptr, object[p].doc, FALSE))
  /\ Ref(object[p].doc)
  /\ UNCHANGED tree

\* The destructor of the document, with the last reference
LastRef(t, doc) == t \in doc /\ refs[t] = 1

\* Slip: a copied node is not freed.
Destroy_KeepsCopy(p) ==
  /\ object[p] # Nil
  /\ object' = [object EXCEPT ![p] = Nil]
  /\ refs' = [t \in Tree |-> IF t \in object[p].doc THEN refs[t] - 1 ELSE refs[t]]
  /\ tree' = [t \in Tree |-> IF LastRef(t, object[p].doc) THEN "freed" ELSE tree[t]]

\* The destructors: xmlFreeNode() for what is owned, deref() for the document.
Destroy(p) ==
  /\ object[p] # Nil
  /\ object' = [object EXCEPT ![p] = Nil]
  /\ refs' = [t \in Tree |-> IF t \in object[p].doc THEN refs[t] - 1 ELSE refs[t]]
  /\ tree' = [t \in Tree |->
       IF LastRef(t, object[p].doc) \/ (object[p].del /\ t = object[p].ptr)
       THEN "freed" ELSE tree[t]]

ObjectsNext ==
  \E o \in Object :
    \/ \E t \in Tree : NewDoc(o, t)
    \/ \E p \in Object : NodeOfDoc(o, p) \/ Navigate(o, p) \/ NewReader(o, p)
    \/ \E p \in Object, t \in Tree : CopyDoc(o, p, t) \/ CopyNode(o, p, t) \/ NamespaceOfDoc(o, p, t)
    \/ Destroy(o)

ObjectsSpec == ObjectsInit /\ [][ObjectsNext]_ovars

-----------------------------------------------------------------------------
(* Properties *)

Holders(t) == {o \in Object : t \in object[o].doc}
Owners(t) == {o \in Object : object[o].del /\ object[o].ptr = t}

\* A document is there as long as any object refers to it, however the objects were
\* made from one another and in whatever order they go; so is the tree of a copied
\* node.  Only the nodes that keep nothing alive may dangle: those reached from a
\* copy, and namespace nodes.
Alive ==
  \A o \in Object :
    object[o] # Nil /\ (object[o].ptr \in object[o].doc \/ object[o].del) => tree[object[o].ptr] = "live"

\* The references that ref() and deref() count are the objects that refer to it.
RefsCounted == \A t \in Tree : refs[t] = Cardinality(Holders(t))

\* No memory is left behind, and none is freed twice: what is live has one owner,
\* or objects that refer to it.
NothingLeaks ==
  \A t \in Tree : tree[t] = "live" => Holders(t) # {} \/ \E o \in Object : Owners(t) = {o}
=============================================================================
