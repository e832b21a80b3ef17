-------------------------- MODULE XmlObjectsProofs --------------------------
(***************************************************************************)
(* Alive, RefsCounted and NothingLeaks hold for any number of objects.     *)
(*                                                                         *)
(* The inductive invariant adds that whatever an object refers to is live  *)
(* (Held), and that the copy of a node belongs to one object and is never  *)
(* referred to as a document (Owned): so the last reference of a document  *)
(* and the destructor of a copied node can only free what nobody else has. *)
(***************************************************************************)
EXTENDS XmlObjects, FiniteSetTheorems, TLAPS

Made == [class : {"doc", "node", "reader"}, ptr : Tree, doc : SUBSET Tree, del : BOOLEAN]

ObjectsTypeOK ==
  /\ object \in [Object -> {Nil} \cup Made]
  /\ tree \in [Tree -> {"unused", "live", "freed"}]
  /\ refs \in [Tree -> Nat]

Held == \A o \in Object : \A t \in object[o].doc : tree[t] = "live"

Owned ==
  \A o \in Object : object[o].del =>
    /\ tree[object[o].ptr] = "live"
    /\ Holders(object[o].ptr) = {}
    /\ Owners(object[o].ptr) = {o}

ObjectsInv == ObjectsTypeOK /\ Held /\ Owned /\ RefsCounted /\ NothingLeaks

-----------------------------------------------------------------------------
(* A new object is one more holder of its document, or the owner of its tree. *)

LEMMA CreateCounts ==
  ASSUME ObjectsTypeOK, NEW o \in Object, NEW data \in Made, Create(o, data)
  PROVE  /\ object' \in [Object -> {Nil} \cup Made]
         /\ object'[o] = data
         /\ \A q \in Object \ {o} : object'[q] = object[q]
         /\ \A t \in Tree : /\ o \notin Holders(t)
                            /\ Holders(t)' = IF t \in data.doc THEN Holders(t) \cup {o} ELSE Holders(t)
                            /\ Owners(t)' = IF data.del /\ data.ptr = t THEN Owners(t) \cup {o} ELSE Owners(t)
<1>1. /\ object' \in [Object -> {Nil} \cup Made]
      /\ object'[o] = data
      /\ \A q \in Object \ {o} : object'[q] = object[q]
  BY DEF ObjectsTypeOK, Create
<1>2. object[o] = Nil /\ object[o].doc = {} /\ object[o].del = FALSE
  BY DEF Create, Nil
<1>3. ASSUME NEW t \in Tree
      PROVE  /\ o \notin Holders(t)
             /\ Holders(t)' = IF t \in data.doc THEN Holders(t) \cup {o} ELSE Holders(t)
  BY <1>1, <1>2 DEF Holders
<1>4. ASSUME NEW t \in Tree
      PROVE  Owners(t)' = IF data.del /\ data.ptr = t THEN Owners(t) \cup {o} ELSE Owners(t)
  BY <1>1, <1>2 DEF Owners
<1> QED BY <1>1, <1>3, <1>4

LEMMA HoldersFinite == \A t \in Tree : IsFiniteSet(Holders(t))
BY ObjectsFinite, FS_Subset DEF Holders

(* Making an object preserves the invariant when nothing is freed, what becomes *)
(* live gets a holder or an owner, and the document was live or is new.         *)
LEMMA MakingPreserves ==
  ASSUME ObjectsInv, NEW o \in Object, NEW data \in Made, Create(o, data), Ref(data.doc),
         tree' \in [Tree -> {"unused", "live", "freed"}],
         \A t \in Tree : tree[t] = "live" => tree'[t] = "live",
         \A t \in Tree : tree'[t] = "live" => tree[t] = "live" \/ t \in data.doc \/ (data.del /\ t = data.ptr),
         \A t \in data.doc : tree'[t] = "live" /\ (tree[t] = "unused" \/ Holders(t) # {}),
         data.del => data.doc = {} /\ tree[data.ptr] = "unused" /\ tree'[data.ptr] = "live"
  PROVE  ObjectsInv'
<1> USE DEF ObjectsInv
<1>0. data.doc \subseteq Tree /\ data.ptr \in Tree BY DEF Made
<1>1. /\ object' \in [Object -> {Nil} \cup Made]
      /\ object'[o] = data
      /\ \A q \in Object \ {o} : object'[q] = object[q]
      /\ \A t \in Tree : /\ o \notin Holders(t)
                         /\ Holders(t)' = IF t \in data.doc THEN Holders(t) \cup {o} ELSE Holders(t)
                         /\ Owners(t)' = IF data.del /\ data.ptr = t THEN Owners(t) \cup {o} ELSE Owners(t)
  BY CreateCounts
<1>2. refs' = [t \in Tree |-> IF t \in data.doc THEN refs[t] + 1 ELSE refs[t]] BY DEF Ref
<1>3. ObjectsTypeOK' BY <1>1, <1>2 DEF ObjectsTypeOK
<1>4. \A q \in Object : object[q].doc \subseteq Tree /\ (object[q].del => object[q].ptr \in Tree)
  BY DEF ObjectsTypeOK, Made, Nil
<1>5. Held'
  <2> SUFFICES ASSUME NEW q \in Object, NEW t \in object'[q].doc PROVE tree'[t] = "live"
    BY DEF Held
  <2>1. CASE q = o BY <2>1, <1>1
  <2>2. CASE q # o BY <2>2, <1>1, <1>4 DEF Held
  <2> QED BY <2>1, <2>2
<1>6. Owned'
  <2> SUFFICES ASSUME NEW q \in Object, object'[q].del, NEW t \in Tree, t = object'[q].ptr
               PROVE  tree'[t] = "live" /\ Holders(t)' = {} /\ Owners(t)' = {q}
    <3>1. \A q \in Object : object'[q].del => object'[q].ptr \in Tree BY <1>3 DEF ObjectsTypeOK, Made, Nil
    <3> QED BY <3>1 DEF Owned, Holders, Owners
  <2>1. CASE q = o
    <3>1. t = data.ptr /\ data.del BY <2>1, <1>1
    <3>2. Holders(t) = {} BY <3>1, <1>1 DEF Held, Holders
    <3>3. Owners(t) = {} BY <3>1, <1>1 DEF Owned, Owners
    <3> QED BY <2>1, <3>1, <3>2, <3>3, <1>1
  <2>2. CASE q # o
    <3>1. object[q].del /\ t = object[q].ptr BY <2>2, <1>1
    <3>2. tree[t] = "live" /\ Holders(t) = {} /\ Owners(t) = {q} BY <3>1 DEF Owned
    <3>3. t \notin data.doc /\ ~(data.del /\ data.ptr = t) BY <3>2
    <3>4. Holders(t)' = {} /\ Owners(t)' = {q} BY <3>2, <3>3, <1>1
    <3> QED BY <3>2, <3>4
  <2> QED BY <2>1, <2>2
<1>7. RefsCounted'
  <2> SUFFICES ASSUME NEW t \in Tree PROVE refs'[t] = Cardinality(Holders(t)')
    BY DEF RefsCounted, Holders
  <2>1. refs[t] = Cardinality(Holders(t)) /\ IsFiniteSet(Holders(t))
    BY HoldersFinite DEF RefsCounted
  <2>2. CASE t \in data.doc
    <3>1. Cardinality(Holders(t) \cup {o}) = Cardinality(Holders(t)) + 1
      BY <2>1, <1>1, FS_AddElement
    <3> QED BY <3>1, <2>1, <2>2, <1>1, <1>2
  <2>3. CASE t \notin data.doc BY <2>1, <2>3, <1>1, <1>2
  <2> QED BY <2>2, <2>3
<1>8. NothingLeaks'
  <2> SUFFICES ASSUME NEW t \in Tree, tree'[t] = "live"
               PROVE  Holders(t)' # {} \/ \E q \in Object : Owners(t)' = {q}
    BY DEF NothingLeaks, Holders, Owners
  <2>1. CASE t \in data.doc BY <2>1, <1>1
  <2>2. CASE data.del /\ t = data.ptr
    <3>1. Owners(t) = {} BY <2>2, <1>0 DEF Owned, Owners
    <3> QED BY <2>2, <3>1, <1>1
  <2>3. CASE t \notin data.doc /\ ~(data.del /\ t = data.ptr)
    BY <2>3, <1>1 DEF NothingLeaks
  <2> QED BY <2>1, <2>2, <2>3
<1> QED BY <1>3, <1>5, <1>6, <1>7, <1>8

-----------------------------------------------------------------------------
(* The operations that make an object *)

LEMMA NewDocPreserves ==
  ASSUME ObjectsInv, NEW o \in Object, NEW t \in Tree, NewDoc(o, t)
  PROVE  ObjectsInv'
<1> DEFINE data == Data("doc", t, {t}, FALSE)
<1>1. data \in Made /\ data.doc = {t} /\ data.ptr = t /\ data.del = FALSE BY DEF Data, Made
<1>2. Create(o, data) /\ Ref(data.doc) /\ tree[t] = "unused"
      /\ tree' = [tree EXCEPT ![t] = "live"]
  BY <1>1 DEF NewDoc, Allocate
<1>3. tree \in [Tree -> {"unused", "live", "freed"}] BY DEF ObjectsInv, ObjectsTypeOK
<1> HIDE DEF data
<1> QED BY <1>1, <1>2, <1>3, MakingPreserves

\* What a document or a reader has: a document that is live and held.
LEMMA DocOf ==
  ASSUME ObjectsInv, NEW p \in Object, object[p] # Nil
  PROVE  /\ object[p] \in Made
         /\ \A t \in object[p].doc : tree[t] = "live" /\ Holders(t) # {}
BY DEF ObjectsInv, ObjectsTypeOK, Held, Holders

\* A node or a reader that refers to the document of the object it is made from.
LEMMA SharingPreserves ==
  ASSUME ObjectsInv, NEW o \in Object, NEW p \in Object, object[p] # Nil,
         NEW class \in {"node", "reader"}, NEW t \in Tree,
         Create(o, Data(class, t, object[p].doc, FALSE)), Ref(object[p].doc),
         \/ UNCHANGED tree
         \/ Allocate(t, "freed")
  PROVE  ObjectsInv'
<1> DEFINE data == Data(class, t, object[p].doc, FALSE)
<1>1. /\ data.doc = object[p].doc /\ data.ptr = t /\ data.del = FALSE
      /\ Create(o, data) /\ Ref(data.doc)
  BY DEF Data
<1>2. data \in Made BY DocOf DEF Data, Made
<1>3. \A d \in data.doc : d \in Tree /\ tree[d] = "live" /\ Holders(d) # {}
  BY <1>1, DocOf DEF Made
<1>4. tree \in [Tree -> {"unused", "live", "freed"}] BY DEF ObjectsInv, ObjectsTypeOK
<1> HIDE DEF data
<1>5. CASE UNCHANGED tree BY <1>1, <1>2, <1>3, <1>4, <1>5, MakingPreserves
<1>6. CASE Allocate(t, "freed") BY <1>1, <1>2, <1>3, <1>4, <1>6, MakingPreserves DEF Allocate
<1> QED BY <1>5, <1>6

LEMMA CopyNodePreserves ==
  ASSUME ObjectsInv, NEW o \in Object, NEW p \in Object, NEW t \in Tree, CopyNode(o, p, t)
  PROVE  ObjectsInv'
<1> DEFINE data == Data("node", t, {}, TRUE)
<1>1. data \in Made /\ data.doc = {} /\ data.ptr = t /\ data.del = TRUE BY DEF Data, Made
<1>2. tree \in [Tree -> {"unused", "live", "freed"}] /\ refs \in [Tree -> Nat]
  BY DEF ObjectsInv, ObjectsTypeOK
<1>3. /\ Create(o, data) /\ tree[t] = "unused" /\ tree' = [tree EXCEPT ![t] = "live"]
      /\ Ref(data.doc)
  BY <1>1, <1>2 DEF CopyNode, Allocate, Ref
<1> HIDE DEF data
<1> QED BY <1>1, <1>2, <1>3, MakingPreserves

-----------------------------------------------------------------------------
(* The destructors: the last reference frees a document that nobody holds any *)
(* more, and the owner of a copied node frees what only it can reach.         *)

LEMMA DestroyPreserves ==
  ASSUME ObjectsInv, NEW p \in Object, Destroy(p)
  PROVE  ObjectsInv'
<1> USE DEF ObjectsInv
<1>1. /\ object[p] # Nil /\ object[p] \in Made
      /\ object' = [object EXCEPT ![p] = Nil]
      /\ refs' = [t \in Tree |-> IF t \in object[p].doc THEN refs[t] - 1 ELSE refs[t]]
      /\ tree' = [t \in Tree |->
           IF LastRef(t, object[p].doc) \/ (object[p].del /\ t = object[p].ptr)
           THEN "freed" ELSE tree[t]]
  BY DEF Destroy, ObjectsTypeOK
<1>2. /\ object' \in [Object -> {Nil} \cup Made]
      /\ object'[p] = Nil /\ object'[p].doc = {} /\ object'[p].del = FALSE
      /\ \A q \in Object \ {p} : object'[q] = object[q]
  BY <1>1 DEF ObjectsTypeOK, Nil
<1>3. ASSUME NEW t \in Tree
      PROVE  Holders(t)' = Holders(t) \ {p} /\ Owners(t)' = Owners(t) \ {p}
  BY <1>2 DEF Holders, Owners
<1>4. \A t \in Tree : t \in object[p].doc <=> p \in Holders(t) BY DEF Holders
<1>5. ASSUME NEW t \in Tree
      PROVE  /\ refs[t] = Cardinality(Holders(t)) /\ refs[t] \in Nat
             /\ IsFiniteSet(Holders(t)) /\ IsFiniteSet(Holders(t) \ {p})
             /\ Cardinality(Holders(t) \ {p})
                  = IF p \in Holders(t) THEN Cardinality(Holders(t)) - 1 ELSE Cardinality(Holders(t))
  BY HoldersFinite, FS_RemoveElement DEF RefsCounted, ObjectsTypeOK
<1>6. ASSUME NEW t \in Tree
      PROVE  LastRef(t, object[p].doc) <=> Holders(t) = {p}
  <2>1. LastRef(t, object[p].doc) <=> p \in Holders(t) /\ Cardinality(Holders(t)) = 1
    BY <1>4, <1>5 DEF LastRef
  <2>2. p \in Holders(t) => (Cardinality(Holders(t)) = 1 <=> Cardinality(Holders(t) \ {p}) = 0)
    BY <1>5
  <2>3. Cardinality(Holders(t) \ {p}) = 0 <=> Holders(t) \ {p} = {} BY <1>5, FS_EmptySet
  <2> QED BY <2>1, <2>2, <2>3
<1>7. ObjectsTypeOK'
  <2>1. ASSUME NEW t \in Tree, t \in object[p].doc PROVE refs[t] - 1 \in Nat
    <3>1. p \in Holders(t) BY <2>1, <1>4
    <3>2. Cardinality(Holders(t)) # 0 BY <3>1, <1>5, FS_EmptySet
    <3>3. refs[t] \in Nat /\ refs[t] # 0 BY <3>2, <1>5
    <3> QED BY <3>3
  <2> QED BY <2>1, <1>1, <1>2 DEF ObjectsTypeOK
\* What is freed has no holder or owner but p.
<1>8. ASSUME NEW t \in Tree, tree'[t] # tree[t]
      PROVE  /\ tree'[t] = "freed"
             /\ Holders(t) \subseteq {p}
             /\ Owners(t) \subseteq {p}
  <2>1. LastRef(t, object[p].doc) \/ (object[p].del /\ t = object[p].ptr) BY <1>8, <1>1
  <2>2. CASE LastRef(t, object[p].doc)
    <3>1. Holders(t) = {p} BY <2>2, <1>6
    <3>2. Owners(t) = {} BY <3>1 DEF Owned, Owners
    <3> QED BY <2>1, <3>1, <3>2, <1>1
  <2>3. CASE object[p].del /\ t = object[p].ptr BY <2>1, <2>3, <1>1 DEF Owned
  <2> QED BY <2>1, <2>2, <2>3
<1>9. Held'
  <2> SUFFICES ASSUME NEW q \in Object, NEW t \in object'[q].doc PROVE tree'[t] = "live"
    BY DEF Held
  <2>1. q # p /\ t \in object[q].doc /\ t \in Tree BY <1>2 DEF ObjectsTypeOK, Made, Nil
  <2>2. tree[t] = "live" /\ q \in Holders(t) BY <2>1 DEF Held, Holders
  <2> QED BY <2>1, <2>2, <1>8
<1>10. Owned'
  <2> SUFFICES ASSUME NEW q \in Object, object'[q].del, NEW t \in Tree, t = object'[q].ptr
               PROVE  tree'[t] = "live" /\ Holders(t)' = {} /\ Owners(t)' = {q}
    <3>1. \A q \in Object : object'[q].del => object'[q].ptr \in Tree
      BY <1>2 DEF ObjectsTypeOK, Made, Nil
    <3> QED BY <3>1 DEF Owned, Holders, Owners
  <2>1. q # p /\ object[q].del /\ t = object[q].ptr BY <1>2
  <2>2. tree[t] = "live" /\ Holders(t) = {} /\ Owners(t) = {q} BY <2>1 DEF Owned
  <2>3. tree'[t] = "live" BY <2>1, <2>2, <1>8
  <2> QED BY <2>1, <2>2, <2>3, <1>3
<1>11. RefsCounted'
  <2> SUFFICES ASSUME NEW t \in Tree PROVE refs'[t] = Cardinality(Holders(t)')
    BY DEF RefsCounted, Holders
  <2> QED BY <1>1, <1>3, <1>4, <1>5
<1>12. NothingLeaks'
  <2> SUFFICES ASSUME NEW t \in Tree, tree'[t] = "live"
               PROVE  Holders(t)' # {} \/ \E q \in Object : Owners(t)' = {q}
    BY DEF NothingLeaks, Holders, Owners
  <2>1. tree[t] = "live" BY <1>8
  <2>2. Holders(t) # {p} /\ ~(object[p].del /\ t = object[p].ptr) BY <1>1, <1>6
  <2>3. CASE Holders(t) # {} BY <2>2, <2>3, <1>3
  <2>4. CASE Holders(t) = {}
    <3>1. PICK q \in Object : Owners(t) = {q} BY <2>1, <2>4 DEF NothingLeaks
    <3>2. q # p BY <2>2, <3>1 DEF Owners
    <3> QED BY <3>1, <3>2, <1>3
  <2> QED BY <2>3, <2>4
<1> QED BY <1>7, <1>9, <1>10, <1>11, <1>12

-----------------------------------------------------------------------------

LEMMA NextPreserves == ObjectsInv /\ [ObjectsNext]_ovars => ObjectsInv'
<1> SUFFICES ASSUME ObjectsInv, [ObjectsNext]_ovars PROVE ObjectsInv' OBVIOUS
<1>1. ASSUME NEW o \in Object, NEW t \in Tree, NewDoc(o, t) PROVE ObjectsInv'
  BY <1>1, NewDocPreserves
<1>2. ASSUME NEW o \in Object, NEW p \in Object, NodeOfDoc(o, p) PROVE ObjectsInv'
  <2>1. object[p] # Nil /\ object[p] \in Made BY <1>2 DEF NodeOfDoc, Usable, Nil, ObjectsInv, ObjectsTypeOK
  <2>2. object[p].ptr \in Tree BY <2>1 DEF Made
  <2> QED BY <1>2, <2>1, <2>2, SharingPreserves DEF NodeOfDoc, NewNode
<1>3. ASSUME NEW o \in Object, NEW p \in Object, Navigate(o, p) PROVE ObjectsInv'
  <2>1. object[p] # Nil /\ object[p] \in Made BY <1>3 DEF Navigate, Usable, Nil, ObjectsInv, ObjectsTypeOK
  <2>2. object[p].ptr \in Tree BY <2>1 DEF Made
  <2> QED BY <1>3, <2>1, <2>2, SharingPreserves DEF Navigate, NewNode
<1>4. ASSUME NEW o \in Object, NEW p \in Object, NewReader(o, p) PROVE ObjectsInv'
  <2>1. object[p] # Nil /\ object[p] \in Made BY <1>4 DEF NewReader, Usable, Nil, ObjectsInv, ObjectsTypeOK
  <2>2. object[p].ptr \in Tree BY <2>1 DEF Made
  <2> QED BY <1>4, <2>1, <2>2, SharingPreserves DEF NewReader
<1>5. ASSUME NEW o \in Object, NEW p \in Object, NEW t \in Tree, CopyDoc(o, p, t) PROVE ObjectsInv'
  BY <1>5, NewDocPreserves DEF CopyDoc
<1>6. ASSUME NEW o \in Object, NEW p \in Object, NEW t \in Tree, CopyNode(o, p, t) PROVE ObjectsInv'
  BY <1>6, CopyNodePreserves
<1>7. ASSUME NEW o \in Object, NEW p \in Object, NEW t \in Tree, NamespaceOfDoc(o, p, t)
      PROVE  ObjectsInv'
  <2>1. object[p] # Nil BY <1>7 DEF NamespaceOfDoc, Usable, Nil
  <2> QED BY <1>7, <2>1, SharingPreserves DEF NamespaceOfDoc, NewNode
<1>8. ASSUME NEW o \in Object, Destroy(o) PROVE ObjectsInv' BY <1>8, DestroyPreserves
<1>9. CASE UNCHANGED ovars
  BY <1>9 DEF ovars, ObjectsInv, ObjectsTypeOK, Held, Owned, RefsCounted, NothingLeaks, Holders, Owners
<1> QED BY <1>1, <1>2, <1>3, <1>4, <1>5, <1>6, <1>7, <1>8, <1>9 DEF ObjectsNext

LEMMA InitEstablishes == ObjectsInit => ObjectsInv
<1> SUFFICES ASSUME ObjectsInit PROVE ObjectsInv OBVIOUS
<1>1. \A t \in Tree : Holders(t) = {} BY DEF ObjectsInit, Holders, Nil
<1>2. ObjectsTypeOK BY DEF ObjectsInit, ObjectsTypeOK
<1>3. Held BY DEF ObjectsInit, Held, Nil
<1>4. Owned BY DEF ObjectsInit, Owned, Nil
<1>5. RefsCounted BY <1>1, FS_EmptySet DEF ObjectsInit, RefsCounted
<1>6. NothingLeaks BY DEF ObjectsInit, NothingLeaks
<1> QED BY <1>2, <1>3, <1>4, <1>5, <1>6 DEF ObjectsInv

\* The data of the objects, the trees and the references are what they should be, what
\* is referred to is live, and copied nodes have one owner: the inductive invariant.
THEOREM Lifetimes == ObjectsSpec => []ObjectsInv
BY InitEstablishes, NextPreserves, PTL DEF ObjectsSpec

\* No object that keeps its tree alive ever points into memory that was freed, in
\* whatever order the destructors of XmlDoc, XmlNode and XmlReader run.
THEOREM NeverDangles == ObjectsSpec => []Alive
<1>1. ObjectsInv => Alive
  BY DEF ObjectsInv, Alive, Held, Owned
<1> QED BY <1>1, Lifetimes, PTL

\* The count that ref() and deref() keep in QoreXmlDocData is the number of objects
\* that refer to the document.
THEOREM CountIsExact == ObjectsSpec => []RefsCounted
<1>1. ObjectsInv => RefsCounted BY DEF ObjectsInv
<1> QED BY <1>1, Lifetimes, PTL

\* When the last object that uses a document, or the owner of a copied node, has been
\* destroyed, its destructor has freed the memory.
THEOREM AllIsFreed == ObjectsSpec => []NothingLeaks
<1>1. ObjectsInv => NothingLeaks BY DEF ObjectsInv
<1> QED BY <1>1, Lifetimes, PTL
=============================================================================
