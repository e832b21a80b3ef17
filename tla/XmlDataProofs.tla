--------------------------- MODULE XmlDataProofs ---------------------------
(***************************************************************************)
(* Proofs about the loop of getXmlData(), for documents of any length and  *)
(* depth, any names and any flags.                                         *)
(*                                                                         *)
(* A turn of the loop adds one node at one place of one value: the value   *)
(* of the frame that checkDepth() leaves at the tail.  That frame is the   *)
(* innermost element around the node (Path), and the place is new or the   *)
(* end of a list (Counters, KeysDiffer): so nothing is overwritten.        *)
(***************************************************************************)
EXTENDS XmlData, TLAPS, FiniteSetTheorems, WellFoundedInduction

-----------------------------------------------------------------------------
(* The inductive invariant *)

\* A value is a hash or a string, or nothing.
Shape == \A s \in DOMAIN heap : IF heap[s].hash THEN heap[s].text = 0 ELSE heap[s].entries = <<>>

\* A hash has a key once.
KeysDiffer ==
  \A s \in DOMAIN heap : \A k, l \in Place(s) : EntryAt(s, k).key = EntryAt(s, l).key => k = l

\* The frames are the last elements of each depth.
Path ==
  /\ Len(stack) >= 1 /\ stack[1].slot = 0
  /\ \A i \in 1..Len(stack) : stack[i].depth = i - 2
  /\ \A i \in 2..Len(stack) :
       /\ stack[i].slot \in 1..Len(doc)
       /\ doc[stack[i].slot].type = "element" /\ doc[stack[i].slot].depth = i - 2
       /\ \A k \in (stack[i].slot + 1)..Len(doc) :
            ~(doc[k].type = "element" /\ doc[k].depth = i - 2)

\* The element of a frame is in the value of the frame before it.
Linked ==
  \A i \in 1..(Len(stack) - 1) :
    \E k \in Place(stack[i].slot) : stack[i + 1].slot \in ToSet(EntryAt(stack[i].slot, k).slots)

\* The counters are above every number that is taken.
Counters ==
  \A i \in 1..Len(stack) : \A k \in Place(stack[i].slot) :
    LET key == EntryAt(stack[i].slot, k).key
    IN  key[1] \in Leaf => key[2] < Counted(stack[i], heap[stack[i].slot])[key[1]]

\* The elements around the next node are on the stack.
AllOpen ==
  /\ doc # <<>> => Len(stack) >= Last(doc).depth + (IF Last(doc).type = "element" THEN 2 ELSE 1)
  /\ (\A i \in 1..Len(doc) : doc[i].type # "element") => Len(stack) = 1

XmlInv ==
  /\ Typed
  /\ Shape
  /\ KeysDiffer
  /\ Path
  /\ Linked
  /\ Counters
  /\ AllOpen
  /\ NothingLost

-----------------------------------------------------------------------------
(* Sequences of entries *)

\* The entries F are E with node id added at place p: in a new entry, or at the
\* end of the list of an element's older siblings.
Grown(E, F, p, id, name) ==
  /\ p \in 1..Len(F) /\ Len(E) <= Len(F)
  /\ \A k \in 1..Len(F) : k # p => k \in 1..Len(E) /\ F[k] = E[k]
  /\ F[p].key[1] = name /\ id \in Contents(F[p])
  /\ p <= Len(E) =>
       /\ E[p].key[1] \notin Leaf \cup {"attributes"}
       /\ F[p].key = E[p].key /\ F[p].slots = Append(E[p].slots, id)
       /\ Contents(F[p]) = Contents(E[p]) \cup {id}
  /\ p > Len(E) =>
       /\ Len(F[p].slots) <= 1 /\ Contents(F[p]) = {id}
       /\ \A k \in 1..Len(E) : E[k].key # F[p].key

LEMMA LeastNatural ==
  ASSUME NEW S, S \subseteq Nat, S # {}
  PROVE  \E n \in S : \A m \in S : n <= m
<1>1. PICK n \in S : \A m \in S : ~ (<<m, n>> \in OpToRel(<, Nat))
  BY NatLessThanWellFounded, WFMin
<1>2. \A m \in S : ~ (m < n)
  BY <1>1 DEF OpToRel
<1> QED
  BY <1>2

\* A list has its old members and the new one.
LEMMA ListGrows ==
  ASSUME NEW list \in Seq(Nat), NEW id \in Nat
  PROVE  /\ Append(list, id) \in Seq(Nat)
         /\ ToSet(Append(list, id)) = ToSet(list) \cup {id}
<1>1. Len(Append(list, id)) = Len(list) + 1 /\ Append(list, id)[Len(list) + 1] = id
      /\ \A k \in 1..Len(list) : Append(list, id)[k] = list[k]
  OBVIOUS
<1> QED
  BY <1>1 DEF ToSet

\* An increasing list goes on increasing with a number above its members.
LEMMA ListIncreases ==
  ASSUME NEW list \in Seq(Nat), NEW id \in Nat,
         \A c \in 1..Len(list) : list[c] < id,
         \A c, d \in 1..Len(list) : c < d => list[c] < list[d],
         NEW a \in 1..Len(Append(list, id)), NEW b \in 1..Len(Append(list, id)), a < b
  PROVE  Append(list, id)[a] < Append(list, id)[b]
<1> DEFINE m == Len(list)
           longer == Append(list, id)
<1>1. m \in Nat /\ Len(longer) = m + 1
  OBVIOUS
<1>2. longer[m + 1] = id /\ \A c \in 1..m : longer[c] = list[c]
  OBVIOUS
<1>3. a \in 1..m /\ (b \in 1..m \/ b = m + 1)
  BY <1>1
<1> QED
  BY <1>2, <1>3

\* A new entry with a key of its own.
LEMMA NewEntry ==
  ASSUME NEW E \in Seq(EntryType), NEW e \in EntryType, NEW id, NEW name,
         e.key[1] = name, Contents(e) = {id}, Len(e.slots) <= 1,
         \A k \in 1..Len(E) : E[k].key # e.key
  PROVE  Append(E, e) \in Seq(EntryType) /\ Grown(E, Append(E, e), Len(E) + 1, id, name)
<1>1. Len(Append(E, e)) = Len(E) + 1 /\ Append(E, e)[Len(E) + 1] = e
      /\ \A k \in 1..Len(E) : Append(E, e)[k] = E[k]
  OBVIOUS
<1> QED
  BY <1>1 DEF Grown

\* An element at the end of the list of its siblings.
LEMMA LongerList ==
  ASSUME XmlAssumption, NEW E \in Seq(EntryType), NEW p \in 1..Len(E), NEW id \in Nat,
         NEW name \in ElementName, E[p].key[1] = name
  PROVE  LET F == [E EXCEPT ![p] = Entry(@.key, @.val, Append(@.slots, id))]
         IN  F \in Seq(EntryType) /\ Grown(E, F, p, id, name)
<1> DEFINE e == Entry(E[p].key, E[p].val, Append(E[p].slots, id))
           F == [E EXCEPT ![p] = e]
<1>1. E[p] \in EntryType /\ Len(E) \in Nat
  OBVIOUS
<1>2. Append(E[p].slots, id) \in Seq(Nat)
      /\ ToSet(Append(E[p].slots, id)) = ToSet(E[p].slots) \cup {id}
  BY <1>1, ListGrows DEF EntryType
<1>3. e \in EntryType
  BY <1>1, <1>2 DEF EntryType, Entry
<1>4. F \in Seq(EntryType) /\ Len(F) = Len(E) /\ F[p] = e
      /\ \A k \in 1..Len(E) : k # p => F[k] = E[k]
  BY <1>1, <1>3
<1>5. e.key = E[p].key /\ e.slots = Append(E[p].slots, id)
  BY DEF Entry
<1>6. name \notin Leaf /\ name # "attributes"
  BY DEF XmlAssumption
<1>7. Contents(e) = Contents(E[p]) \cup {id} /\ id \in Contents(e)
  BY <1>2, <1>5, <1>6 DEF Contents
<1> HIDE DEF e, F
<1>8. Grown(E, F, p, id, name)
  BY <1>1, <1>4, <1>5, <1>6, <1>7 DEF Grown
<1> QED
  BY <1>4, <1>8 DEF e, F

-----------------------------------------------------------------------------
(* Values *)

\* What a value has as a hash.
LEMMA HashFacts ==
  ASSUME NEW x \in ValueType
  PROVE  /\ Entries(x) \in Seq(EntryType)
         /\ AsHash(x) \in ValueType /\ AsHash(x).entries = Entries(x) /\ AsHash(x).hash
         /\ Entries(AsHash(x)) = Entries(x) /\ AsHash(x).text = 0
<1>1. "text" \in Leaf
  BY DEF Leaf
<1>2. x.entries \in Seq(EntryType) /\ x.text \in Nat
  BY DEF ValueType
<1>3. Entry(<<"text", 0>>, x.text, <<>>) \in EntryType
  BY <1>1, <1>2 DEF Entry, EntryType
<1>4. Entries(x) \in Seq(EntryType)
  BY <1>2, <1>3 DEF Entries
<1> QED
  BY <1>4 DEF AsHash, Value, ValueType, Entries, IsString

\* A new key.
LEMMA KeyIsSet ==
  ASSUME NEW x \in ValueType, NEW e \in EntryType, e.key \notin Keys(x), x.hash, x.text = 0
  PROVE  /\ SetKey(x, e) \in ValueType /\ SetKey(x, e).hash /\ SetKey(x, e).text = 0
         /\ Entries(SetKey(x, e)) = Append(x.entries, e)
  BY DEF SetKey, ValueType, Entries, IsString

\* More numbers than places share a place.
LEMMA PlacesRunOut ==
  ASSUME NEW n \in Nat, NEW f \in [1..(n + 1) -> 1..n]
  PROVE  \E a, b \in 1..(n + 1) : a # b /\ f[a] = f[b]
<1>1. /\ IsFiniteSet(1..(n + 1)) /\ Cardinality(1..(n + 1)) = n + 1
      /\ IsFiniteSet(1..n) /\ Cardinality(1..n) = n
  BY FS_Interval, n + 1 \in Int, n \in Int, 1 \in Int, (n + 1) - 1 + 1 = n + 1, n - 1 + 1 = n
<1>2. Cardinality(1..(n + 1)) > Cardinality(1..n)
  BY <1>1
<1> DEFINE S == 1..(n + 1)
           T == 1..n
<1>3. IsFiniteSet(S) /\ IsFiniteSet(T) /\ Cardinality(S) > Cardinality(T) /\ f \in [S -> T]
  BY <1>1, <1>2
<1> HIDE DEF S, T
<1>4. \E a, b \in S : a # b /\ f[a] = f[b]
  BY <1>3, FS_PigeonHole
<1> QED
  BY <1>4 DEF S

\* A free number is found.
LEMMA FreshKeyIsFree ==
  ASSUME NEW x \in ValueType, NEW name
  PROVE  \E c \in Nat : FreshKey(x, name) = <<name, c>> /\ <<name, c>> \notin Keys(x)
<1> DEFINE L == Len(x.entries)
           free == {c \in 1..(L + 1) : <<name, c>> \notin Keys(x)}
<1>1. L \in Nat
  BY DEF ValueType
<1>2. free # {}
  <2> SUFFICES ASSUME \A c \in 1..(L + 1) : <<name, c>> \in Keys(x)
               PROVE  FALSE
    OBVIOUS
  <2> DEFINE f == [c \in 1..(L + 1) |-> Index(x, <<name, c>>)]
  <2>1. \A c \in 1..(L + 1) : f[c] \in 1..L /\ x.entries[f[c]].key = <<name, c>>
    BY DEF Keys, Index
  <2>2. f \in [1..(L + 1) -> 1..L]
    BY <2>1
  <2>3. PICK a, b \in 1..(L + 1) : a # b /\ f[a] = f[b]
    <3> HIDE DEF f, L
    <3> QED
      BY <1>1, <2>2, PlacesRunOut
  <2>4. <<name, a>> = <<name, b>>
    <3> HIDE DEF f, L
    <3> QED
      BY <2>1, <2>3
  <2> QED
    BY <2>3, <2>4
<1>3. PICK c \in free : \A b \in free : c <= b
  <2> HIDE DEF L
  <2>1. free \subseteq Nat
    BY <1>1
  <2> QED
    BY <1>2, <2>1, LeastNatural
<1>4. /\ c \in 1..(L + 1) /\ <<name, c>> \notin Keys(x)
      /\ \A b \in 1..(c - 1) : <<name, b>> \in Keys(x)
  <2> HIDE DEF L
  <2> QED
    BY <1>1, <1>3
<1> QED
  BY <1>1, <1>4 DEF FreshKey

-----------------------------------------------------------------------------
(* The frame of a node *)

\* The stack is deep enough for a node that may follow; it has one frame when
\* the node is the root element or comes before it.
LEMMA DeepEnough ==
  ASSUME Typed, Path, AllOpen, NEW n \in NodeType, Follows(n)
  PROVE  /\ Len(stack) >= n.depth + 1
         /\ n.depth = 0 =>
              \/ Len(stack) = 1
              \/ /\ n.type \in {"comment", "instruction"}
                 /\ \E i \in 1..Len(doc) : doc[i].type = "element"
<1>1. n.depth \in Nat /\ Len(stack) \in Nat /\ Len(doc) \in Nat
  BY DEF NodeType, Typed
<1>2. CASE n.depth = 0
  BY <1>1, <1>2 DEF Path, AllOpen, Follows
<1>3. CASE n.depth # 0
  <2>1. /\ doc # <<>>
        /\ n.depth <= Last(doc).depth + (IF Last(doc).type = "element" THEN 1 ELSE 0)
    BY <1>3 DEF Follows
  <2>2. Last(doc) \in NodeType
    BY <2>1 DEF Typed, Last
  <2>3. Last(doc).depth \in Nat
    BY <2>2 DEF NodeType
  <2>4. Len(stack) >= Last(doc).depth + (IF Last(doc).type = "element" THEN 2 ELSE 1)
    BY <2>1 DEF AllOpen
  <2> QED
    BY <1>1, <1>3, <2>1, <2>3, <2>4
<1> QED
  BY <1>2, <1>3

\* What checkDepth() leaves.
LEMMA WhatIsLeft ==
  ASSUME Typed, Path, AllOpen, NEW n \in NodeType, Follows(n)
  PROVE  LET st == checkDepth(n.depth)
         IN  /\ st \in Seq(FrameType) /\ Len(st) \in 1..Len(stack)
             /\ \A i \in 1..Len(st) : st[i] = stack[i]
             /\ n.depth # 0 => Len(st) = n.depth + 1
             /\ n.depth = 0 => st = stack
<1>1. n.depth \in Nat /\ Len(stack) \in Nat /\ stack \in Seq(FrameType) /\ Len(stack) >= 1
  BY DEF NodeType, Typed, Path
<1>2. CASE n.depth = 0
  BY <1>1, <1>2 DEF checkDepth
<1>3. CASE n.depth # 0
  <2> DEFINE shallow == {i \in 1..Len(stack) : stack[i].depth < n.depth}
             d == n.depth + 1
  <2>1. Len(stack) >= d /\ d \in Nat
    BY <1>1, DeepEnough
  <2>2. \A i \in 1..Len(stack) : stack[i].depth = i - 2
    BY DEF Path
  <2>3. shallow = 1..d
    BY <1>1, <2>1, <2>2
  <2>4. SelectLastInSeq(stack, LAMBDA f : f.depth < n.depth) = IF shallow # {} THEN Max(shallow) ELSE 0
    BY DEF SelectLastInSeq
  <2>5. d \in shallow /\ \A i \in shallow : d >= i
    BY <1>1, <2>1, <2>3
  <2>6. Max(shallow) = d
    <3> HIDE DEF shallow
    <3>1. Max(shallow) \in shallow /\ \A i \in shallow : Max(shallow) >= i
      BY <2>5 DEF Max
    <3>2. Max(shallow) \in 1..d
      BY <2>3, <3>1
    <3> QED
      BY <2>1, <2>5, <3>1, <3>2
  <2>7. checkDepth(n.depth) = SubSeq(stack, 1, d)
    <3> HIDE DEF shallow, d
    <3> QED
      BY <1>3, <2>4, <2>5, <2>6 DEF checkDepth
  <2> QED
    BY <1>1, <1>3, <2>1, <2>7
<1> QED
  BY <1>2, <1>3

\* Its tail is the frame of the innermost element around the node.
LEMMA FrameOfParent ==
  ASSUME Typed, Path, AllOpen, NEW n \in NodeType, n.type \notin Dropped, Follows(n),
         doc' = Append(doc, n), NEW id, id = Len(doc) + 1, NEW slot, slot = Last(checkDepth(n.depth)).slot
  PROVE  /\ slot \in DOMAIN heap
         /\ ParentOf(slot, id)' \/ Misplaced(id)'
<1>1. n.depth \in Nat /\ Len(stack) \in Nat /\ Len(doc) \in Nat
  BY DEF NodeType, Typed
<1>2. /\ Len(doc') = id /\ doc'[id] = n /\ \A i \in 1..Len(doc) : doc'[i] = doc[i]
  BY DEF Typed
<1>3. PICK m \in 1..Len(stack) :
        slot = stack[m].slot /\ m = IF n.depth = 0 THEN Len(stack) ELSE n.depth + 1
  BY <1>1, WhatIsLeft DEF Last
<1>4. slot \in DOMAIN heap
  <2>1. DOMAIN heap = {0} \cup {i \in 1..Len(doc) : doc[i].type = "element"}
    BY DEF Typed
  <2>2. CASE m = 1
    BY <1>3, <2>1, <2>2 DEF Path
  <2>3. CASE m \in 2..Len(stack)
    BY <1>3, <2>1, <2>3 DEF Path
  <2>4. m = 1 \/ m \in 2..Len(stack)
    BY <1>1, m \in 1..Len(stack)
  <2> QED
    BY <2>2, <2>3, <2>4
<1>5. ParentOf(slot, id)' \/ Misplaced(id)'
  <2>1. CASE n.depth = 0
    <3>1. CASE Len(stack) = 1
      BY <1>1, <1>2, <1>3, <2>1, <3>1 DEF ParentOf, Path
    <3>2. CASE n.type = "comment" /\ \E i \in 1..Len(doc) : doc[i].type = "element"
      BY <1>1, <1>2, <2>1, <3>2 DEF Misplaced
    <3> QED
      BY <2>1, <3>1, <3>2, DeepEnough DEF Dropped
  <2>2. CASE n.depth # 0
    <3>1. /\ slot \in 1..Len(doc)
          /\ doc[slot].type = "element" /\ doc[slot].depth = n.depth - 1
          /\ \A k \in (slot + 1)..Len(doc) :
               ~(doc[k].type = "element" /\ doc[k].depth = n.depth - 1)
      <4>1. m \in 2..Len(stack) /\ m - 2 = n.depth - 1
        BY <1>1, <1>3, <2>2
      <4> QED
        BY <1>3, <4>1 DEF Path
    <3>2. id - 1 = Len(doc) /\ 1..(id - 1) = 1..Len(doc)
      BY <1>1
    <3>3. doc'[slot] = doc[slot] /\ \A k \in (slot + 1)..Len(doc) : doc'[k] = doc[k]
      BY <1>1, <1>2, <3>1
    <3> QED
      BY <1>2, <2>2, <3>1, <3>2, <3>3 DEF ParentOf
  <2> QED
    BY <2>1, <2>2
<1> QED
  BY <1>4, <1>5

-----------------------------------------------------------------------------
(* The value that a node is added to *)

\* An element.
LEMMA ElementAdded ==
  ASSUME XmlAssumption, NEW x \in ValueType, NEW name \in ElementName, NEW id \in Nat
  PROVE  LET y == AddElement(AsHash(x), name, id)
         IN  /\ y \in ValueType /\ y.hash /\ y.text = 0
             /\ \E p \in Nat : /\ Grown(Entries(x), Entries(y), p, id, name)
                               /\ XPF_PRESERVE_ORDER => p = Len(Entries(y))
<1> SUFFICES ASSUME NEW y, y = AddElement(AsHash(x), name, id)
             PROVE  /\ y \in ValueType /\ y.hash /\ y.text = 0
                    /\ \E p \in Nat : /\ Grown(Entries(x), Entries(y), p, id, name)
                                      /\ XPF_PRESERVE_ORDER => p = Len(Entries(y))
  OBVIOUS
<1> DEFINE h == AsHash(x)
           E == Entries(x)
           prior == IF XPF_PRESERVE_ORDER THEN Len(h.entries) ELSE Index(h, <<name, 0>>)
<1>1. /\ E \in Seq(EntryType) /\ h \in ValueType /\ h.entries = E /\ h.hash /\ h.text = 0
      /\ Entries(h) = E
  BY HashFacts
<1>2. name \notin Leaf /\ name # "attributes"
  BY DEF XmlAssumption
<1>3. ASSUME NEW c \in Nat, <<name, c>> \notin Keys(h),
             y = SetKey(h, Entry(<<name, c>>, 0, <<id>>))
      PROVE  /\ y \in ValueType /\ y.hash /\ y.text = 0
             /\ Grown(E, Entries(y), Len(E) + 1, id, name) /\ Len(Entries(y)) = Len(E) + 1
  <2> DEFINE e == Entry(<<name, c>>, 0, <<id>>)
  <2>1. /\ e \in EntryType /\ e.key = <<name, c>> /\ e.slots = <<id>>
        /\ e.key[1] = name /\ Len(e.slots) <= 1
    BY DEF Entry, EntryType
  <2>2. Contents(e) = {id}
    BY <1>2, <2>1 DEF Contents, ToSet
  <2>3. \A k \in 1..Len(E) : E[k].key # <<name, c>>
    BY <1>1, <1>3 DEF Keys
  <2>e. y = SetKey(h, e) /\ e.key \notin Keys(h)
    BY <1>3, <2>1
  <2> HIDE DEF e, h, E
  <2>4. /\ y \in ValueType /\ y.hash /\ y.text = 0 /\ Entries(y) = Append(E, e)
    BY <1>1, <2>1, <2>e, KeyIsSet
  <2>5. Grown(E, Append(E, e), Len(E) + 1, id, name)
    BY <1>1, <2>1, <2>2, <2>3, NewEntry
  <2> QED
    BY <1>1, <2>1, <2>4, <2>5
<1>4. CASE <<name, 0>> \notin Keys(h)
  <2>1. y = SetKey(h, Entry(<<name, 0>>, 0, <<id>>))
    BY <1>4 DEF AddElement
  <2> QED
    BY <1>1, <1>3, <1>4, <2>1
<1>5. CASE <<name, 0>> \in Keys(h) /\ h.entries[prior].key[1] # name
  <2>1. y = SetKey(h, Entry(FreshKey(h, name), 0, <<id>>))
    BY <1>5 DEF AddElement
  <2> HIDE DEF h, prior
  <2>2. PICK c \in Nat : FreshKey(h, name) = <<name, c>> /\ <<name, c>> \notin Keys(h)
    BY <1>1, FreshKeyIsFree
  <2> QED
    BY <1>1, <1>3, <2>1, <2>2
<1>6. CASE <<name, 0>> \in Keys(h) /\ h.entries[prior].key[1] = name
  <2> DEFINE F == [E EXCEPT ![prior] = Entry(@.key, @.val, Append(@.slots, id))]
  <2>1. y = Value(0, TRUE, F)
    BY <1>1, <1>6 DEF AddElement
  <2>2. prior \in 1..Len(E)
    BY <1>1, <1>6 DEF Keys, Index
  <2> HIDE DEF h, E, prior
  <2>3. F \in Seq(EntryType) /\ Grown(E, F, prior, id, name)
    BY <1>1, <1>6, <2>2, LongerList
  <2>4. Len(F) = Len(E)
    BY <1>1, <2>3
  <2> HIDE DEF F
  <2>5. y \in ValueType /\ y.hash /\ y.text = 0 /\ Entries(y) = F
    BY <2>1, <2>3 DEF Value, ValueType, Entries, IsString
  <2>6. XPF_PRESERVE_ORDER => prior = Len(Entries(y))
    BY <1>1, <2>4, <2>5 DEF prior
  <2> QED
    BY <1>1, <2>2, <2>3, <2>5, <2>6 DEF E
<1> QED
  BY <1>4, <1>5, <1>6

\* Text, a CDATA section or a comment.
LEMMA LeafAdded ==
  ASSUME NEW x \in ValueType, NEW e \in EntryType,
         \A k \in 1..Len(Entries(x)) : Entries(x)[k].key # e.key
  PROVE  LET y == SetKey(AsHash(x), e)
         IN  y \in ValueType /\ y.hash /\ y.text = 0 /\ Entries(y) = Append(Entries(x), e)
<1> DEFINE h == AsHash(x)
<1>1. h \in ValueType /\ h.entries = Entries(x) /\ h.hash /\ h.text = 0
  BY HashFacts
<1>2. e.key \notin Keys(h)
  BY <1>1 DEF Keys
<1> HIDE DEF h
<1>3. LET y == SetKey(h, e)
      IN  y \in ValueType /\ y.hash /\ y.text = 0 /\ Entries(y) = Append(h.entries, e)
  BY <1>1, <1>2, KeyIsSet
<1> QED
  BY <1>1, <1>3 DEF h

\* Text that is all there is.
LEMMA StringAdded ==
  ASSUME NEW id \in Nat \ {0}, NEW y, y = Value(id, FALSE, <<>>)
  PROVE  /\ y \in ValueType /\ ~y.hash /\ y.entries = <<>> /\ IsString(y)
         /\ Entries(Nothing) = <<>>
         /\ Grown(Entries(Nothing), Entries(y), 1, id, "text")
         /\ Len(Entries(y)) = 1 /\ Entries(y)[1].key = <<"text", 0>>
<1>1. "text" \in Leaf
  BY DEF Leaf
<1>2. y \in ValueType /\ ~y.hash /\ y.entries = <<>> /\ IsString(y) /\ y.text = id
  BY DEF Value, ValueType, IsString
<1>3. Entries(Nothing) = <<>>
  BY DEF Nothing, Value, Entries, IsString
<1> DEFINE e == Entry(<<"text", 0>>, id, <<>>)
<1>4. Entries(y) = <<e>>
  BY <1>2 DEF Entries
<1>5. /\ e \in EntryType /\ e.key = <<"text", 0>> /\ Contents(e) = {id}
      /\ e.key[1] = "text" /\ Len(e.slots) <= 1
  BY <1>1 DEF Entry, EntryType, Contents
<1> HIDE DEF e
<1>6. Append(<<>>, e) = <<e>> /\ <<>> \in Seq(EntryType) /\ Len(<<>>) = 0
      /\ \A k \in 1..Len(<<>>) : <<>>[k].key # e.key
      /\ Len(<<e>>) = 1 /\ <<e>>[1] = e
  BY <1>5
<1>7. Grown(<<>>, Append(<<>>, e), Len(<<>>) + 1, id, "text")
  BY <1>5, <1>6, NewEntry
<1>8. Len(<<>>) + 1 = 1
  BY <1>6
<1>9. Grown(Entries(Nothing), Entries(y), 1, id, "text")
  BY <1>3, <1>4, <1>6, <1>7, <1>8, Zenon
<1>10. Len(Entries(y)) = 1 /\ Entries(y)[1].key = <<"text", 0>>
  <2>1. ASSUME NEW E, E = <<e>> PROVE E[1] = e /\ Len(E) = 1
    BY <2>1
  <2>2. Entries(y)[1] = e /\ Len(Entries(y)) = 1
    BY <1>4, <2>1, Zenon
  <2> QED
    BY <1>5, <2>2
<1> QED
  BY <1>2, <1>3, <1>9, <1>10, Zenon

-----------------------------------------------------------------------------
(* A node is added *)

\* Element n starts with its attributes.
Own(n) ==
  IF n.val = 0 THEN Nothing ELSE Value(0, TRUE, <<Entry(<<"attributes", 0>>, n.val, <<>>)>>)

\* Node n, the next of the document, is added at place p of the value at top.
Adds(id, n, top, p) ==
  /\ n \in NodeType /\ n.type \notin Dropped /\ (n.type = "element" => n.name \in ElementName)
  /\ id = Len(doc) + 1 /\ doc' = Append(doc, n) /\ pflags' = pflags
  /\ heap' \in [{0} \cup {i \in 1..Len(doc') : doc'[i].type = "element"} -> ValueType]
  /\ top \in DOMAIN heap /\ (ParentOf(top, id) \/ Misplaced(id))'
  /\ \A s \in DOMAIN heap : s # top => heap'[s] = heap[s]
  /\ Grown(Entries(heap[top]), Entries(heap'[top]), p, id, n.name)
  /\ XPF_PRESERVE_ORDER => p = Len(Entries(heap'[top]))
  /\ IF heap'[top].hash THEN heap'[top].text = 0 ELSE heap'[top].entries = <<>>
  /\ n.type = "element" => heap'[id] = Own(n)
  /\ n.type = "comment" => XPF_ADD_COMMENTS

\* The document before.
LEMMA DocAdded ==
  ASSUME Typed, NEW n \in NodeType, doc' = Append(doc, n), NEW id, id = Len(doc) + 1
  PROVE  /\ id \in Nat /\ id >= 1 /\ Len(doc) \in Nat
         /\ doc' \in Seq(NodeType) /\ Len(doc') = id /\ doc'[id] = n
         /\ 1..Len(doc') = 1..Len(doc) \cup {id}
         /\ \A i \in 1..Len(doc) : i \in 1..Len(doc') /\ i < id /\ doc'[i] = doc[i]
BY DEF Typed

\* What was in its place stays there.
LEMMA PlacesStay ==
  ASSUME Typed, NEW n \in NodeType, doc' = Append(doc, n), NEW i \in 1..Len(doc), NEW s,
         ParentOf(s, i) \/ Misplaced(i)
  PROVE  (ParentOf(s, i) \/ Misplaced(i))'
<1>1. \A j \in 1..i : doc'[j] = doc[j]
  BY DocAdded
<1>2. i \in 1..i /\ \A j \in 1..(i - 1) : j \in 1..i
  BY DocAdded
<1>3. \A j \in 1..(i - 1) : \A k \in (j + 1)..(i - 1) : k \in 1..i
  BY DocAdded
<1>4. CASE Misplaced(i)
  BY <1>1, <1>2, <1>4 DEF Misplaced
<1>5. CASE ParentOf(s, i)
  BY <1>1, <1>2, <1>3, <1>5 DEF ParentOf
<1> QED
  BY <1>4, <1>5

\* The own value of an element has its attributes only.
LEMMA OwnEntries ==
  ASSUME NEW n \in NodeType
  PROVE  /\ Own(n) \in ValueType
         /\ IF Own(n).hash THEN Own(n).text = 0 ELSE Own(n).entries = <<>>
         /\ n.val = 0 => Len(Entries(Own(n))) = 0
         /\ n.val # 0 =>
              /\ Len(Entries(Own(n))) = 1
              /\ Entries(Own(n))[1] = Entry(<<"attributes", 0>>, n.val, <<>>)
<1>1. n.val \in Nat
  BY DEF NodeType
<1>2. CASE n.val = 0
  BY <1>2 DEF Own, Nothing, Value, ValueType, Entries, IsString
<1>3. CASE n.val # 0
  <2> DEFINE e == Entry(<<"attributes", 0>>, n.val, <<>>)
  <2>1. e \in EntryType
    BY <1>1 DEF Entry, EntryType
  <2> HIDE DEF e
  <2>2. Own(n) = Value(0, TRUE, <<e>>)
    BY <1>3 DEF Own, e
  <2>3. /\ Own(n) \in ValueType /\ Own(n).hash /\ Own(n).text = 0
        /\ Entries(Own(n)) = <<e>>
    BY <2>1, <2>2 DEF Value, ValueType, Entries, IsString
  <2>4. ASSUME NEW E, E = <<e>> PROVE E[1] = e /\ Len(E) = 1
    BY <2>4
  <2>5. Entries(Own(n))[1] = e /\ Len(Entries(Own(n))) = 1
    BY <2>3, <2>4, Zenon
  <2> QED
    BY <1>3, <2>3, <2>5 DEF e
<1> QED
  BY <1>2, <1>3

\* A place after the step is an old one, the one of the new node, or holds the
\* attributes of the new element.
LEMMA Places ==
  ASSUME Typed, NEW id, NEW n, NEW top, NEW p, Adds(id, n, top, p),
         NEW s \in DOMAIN heap', NEW k \in Place(s)'
  PROVE  \/ /\ s \in DOMAIN heap /\ k \in Place(s) /\ ~(s = top /\ k = p)
            /\ EntryAt(s, k)' = EntryAt(s, k)
         \/ s = top /\ k = p
         \/ /\ s = id /\ k = 1 /\ n.type = "element" /\ n.val # 0
            /\ EntryAt(s, k)' = Entry(<<"attributes", 0>>, n.val, <<>>)
<1>1. /\ id \in Nat /\ Len(doc') = id /\ doc'[id] = n /\ id \notin 1..Len(doc)
      /\ \A i \in 1..Len(doc) : doc'[i] = doc[i]
      /\ 1..Len(doc') = 1..Len(doc) \cup {id}
  BY DocAdded DEF Adds
<1>2. DOMAIN heap = {0} \cup {i \in 1..Len(doc) : doc[i].type = "element"}
  BY DEF Typed
<1>3. DOMAIN heap' = {0} \cup {i \in 1..Len(doc') : doc'[i].type = "element"}
  BY DEF Adds
<1>4. s \in DOMAIN heap \/ (s = id /\ n.type = "element" /\ s \notin DOMAIN heap)
  BY <1>1, <1>2, <1>3
<1>5. CASE s \in DOMAIN heap /\ s # top
  BY <1>5 DEF Adds, Place, EntryAt
<1>6. CASE s = top
  BY <1>6 DEF Adds, Place, EntryAt, Grown
<1>7. CASE s = id /\ n.type = "element" /\ s \notin DOMAIN heap
  <2>1. heap'[id] = Own(n) /\ n \in NodeType
    BY <1>7 DEF Adds
  <2>2. k \in 1..Len(Entries(Own(n)))
    BY <1>7, <2>1 DEF Place
  <2>3. n.val # 0 /\ k = 1
    <3>1. n.val = 0 => Len(Entries(Own(n))) = 0
      BY <2>1, OwnEntries
    <3>2. n.val # 0 => Len(Entries(Own(n))) = 1
      BY <2>1, OwnEntries
    <3>3. k \notin 1..0 /\ 1..1 = {1}
      OBVIOUS
    <3>4. n.val # 0
      BY <2>2, <3>1, <3>3, Zenon
    <3>5. k \in 1..1
      BY <2>2, <3>2, <3>4, Zenon
    <3> QED
      BY <3>3, <3>4, <3>5
  <2>4. EntryAt(s, k)' = Entry(<<"attributes", 0>>, n.val, <<>>)
    BY <1>7, <2>1, <2>3, OwnEntries DEF EntryAt
  <2> QED
    BY <1>7, <2>3, <2>4
<1> QED
  BY <1>4, <1>5, <1>6, <1>7

\* The old places are still there, with their keys and what they held; the new
\* node is at the new one.
LEMMA OldPlaces ==
  ASSUME Typed, NEW id, NEW n, NEW top, NEW p, Adds(id, n, top, p)
  PROVE  /\ DOMAIN heap \subseteq DOMAIN heap'
         /\ \A s \in DOMAIN heap : \A k \in Place(s) :
              /\ k \in Place(s)' /\ EntryAt(s, k).key = EntryAt(s, k)'.key
              /\ Contents(EntryAt(s, k)) \subseteq Contents(EntryAt(s, k)')
              /\ ToSet(EntryAt(s, k).slots) \subseteq ToSet(EntryAt(s, k)'.slots)
              /\ s # top \/ k # p => EntryAt(s, k)' = EntryAt(s, k)
         /\ p \in Place(top)' /\ EntryAt(top, p)'.key[1] = n.name
         /\ \A i \in Contents(EntryAt(top, p)') :
              i = id \/ (p \in Place(top) /\ i \in Contents(EntryAt(top, p)))
         /\ id \in Contents(EntryAt(top, p)')
<1>1. DOMAIN heap \subseteq DOMAIN heap'
  BY DocAdded DEF Typed, Adds
<1> DEFINE E == Entries(heap[top])
           F == Entries(heap'[top])
<1>2. E \in Seq(EntryType) /\ F \in Seq(EntryType)
  BY <1>1, HashFacts DEF Typed, Adds
<1>3. Grown(E, F, p, id, n.name)
  BY DEF Adds
<1> HIDE DEF E, F
<1>4. \A k \in 1..Len(E) :
        /\ k \in 1..Len(F) /\ E[k].key = F[k].key
        /\ Contents(E[k]) \subseteq Contents(F[k])
        /\ k # p => F[k] = E[k]
  BY <1>2, <1>3 DEF Grown
<1>4a. \A k \in 1..Len(E) : ToSet(E[k].slots) \subseteq ToSet(F[k].slots)
  <2> SUFFICES ASSUME NEW k \in 1..Len(E) PROVE ToSet(E[k].slots) \subseteq ToSet(F[k].slots)
    OBVIOUS
  <2>1. CASE k # p
    BY <1>4, <2>1
  <2>2. CASE k = p
    <3>0. E[k] \in EntryType
      BY <1>2
    <3>1. E[k].slots \in Seq(Nat)
      BY <3>0 DEF EntryType
    <3>2. id \in Nat
      BY DocAdded DEF Adds
    <3>3. F[k].slots = Append(E[k].slots, id)
      BY <1>2, <1>3, <2>2 DEF Grown
    <3> QED
      BY <3>1, <3>2, <3>3, ListGrows
  <2> QED
    BY <2>1, <2>2
<1>5. /\ p \in 1..Len(F) /\ F[p].key[1] = n.name
      /\ \A i \in Contents(F[p]) : i = id \/ (p \in 1..Len(E) /\ i \in Contents(E[p]))
      /\ id \in Contents(F[p])
  BY <1>2, <1>3 DEF Grown
<1>6. \A s \in DOMAIN heap : s # top => heap'[s] = heap[s]
  BY DEF Adds
<1> QED
  BY <1>1, <1>4, <1>4a, <1>5, <1>6 DEF Place, EntryAt, E, F

\* Where a node is: the new one at its place, every other one where it was.
LEMMA WhereHeld ==
  ASSUME Typed, NothingMadeUp, NEW id, NEW n, NEW top, NEW p, Adds(id, n, top, p),
         NEW s \in DOMAIN heap', NEW k \in Place(s)', NEW i \in Contents(EntryAt(s, k)')
  PROVE  \/ i = id /\ s = top /\ k = p
         \/ /\ i \in 1..Len(doc) /\ i < id
            /\ s \in DOMAIN heap /\ k \in Place(s) /\ i \in Contents(EntryAt(s, k))
<1>1. \A j \in 1..Len(doc) : j < id
  BY DocAdded DEF Adds
<1>2. CASE /\ s \in DOMAIN heap /\ k \in Place(s) /\ ~(s = top /\ k = p)
           /\ EntryAt(s, k)' = EntryAt(s, k)
  BY <1>1, <1>2 DEF NothingMadeUp
<1>3. CASE s = top /\ k = p
  <2>1. top \in DOMAIN heap
    BY DEF Adds
  <2> QED
    BY <1>1, <1>3, <2>1, OldPlaces DEF NothingMadeUp
<1>4. CASE EntryAt(s, k)' = Entry(<<"attributes", 0>>, n.val, <<>>)
  <2>1. "attributes" \notin Leaf
    BY DEF Leaf
  <2> QED
    BY <1>4, <2>1 DEF Contents, Entry
<1> QED
  BY <1>2, <1>3, <1>4, Places

-----------------------------------------------------------------------------
(* Nothing is lost when a node is added *)

LEMMA KeysDifferStep ==
  ASSUME Typed, KeysDiffer, NEW id, NEW n, NEW top, NEW p, Adds(id, n, top, p)
  PROVE  KeysDiffer'
<1> SUFFICES ASSUME NEW s \in DOMAIN heap', NEW k \in Place(s)', NEW l \in Place(s)',
                    EntryAt(s, k)'.key = EntryAt(s, l)'.key
             PROVE  k = l
  BY DEF KeysDiffer
<1>1. id \notin DOMAIN heap /\ top \in DOMAIN heap
  BY DocAdded DEF Typed, Adds
<1>2. CASE s \notin DOMAIN heap
  BY <1>1, <1>2, Places
<1>3. CASE s \in DOMAIN heap /\ s # top
  BY <1>1, <1>3, Places DEF KeysDiffer
<1>4. CASE s = top
  <2> DEFINE E == Entries(heap[top])
             F == Entries(heap'[top])
  <2>1. E \in Seq(EntryType) /\ F \in Seq(EntryType)
    BY DocAdded, HashFacts DEF Typed, Adds
  <2>2. Grown(E, F, p, id, n.name)
    BY DEF Adds
  <2>3. k \in 1..Len(F) /\ l \in 1..Len(F) /\ F[k].key = F[l].key
    BY <1>4 DEF Place, EntryAt
  <2>4. \A a, b \in 1..Len(E) : E[a].key = E[b].key => a = b
    BY <1>1 DEF KeysDiffer, Place, EntryAt
  <2> HIDE DEF E, F
  <2> QED
    BY <2>1, <2>2, <2>3, <2>4 DEF Grown
<1> QED
  BY <1>2, <1>3, <1>4

LEMMA NothingMadeUpStep ==
  ASSUME Typed, NothingMadeUp, NEW id, NEW n, NEW top, NEW p, Adds(id, n, top, p)
  PROVE  NothingMadeUp'
<1> SUFFICES ASSUME NEW s \in DOMAIN heap', NEW k \in Place(s)', NEW i \in Contents(EntryAt(s, k)')
             PROVE  i \in 1..Len(doc') /\ Kept(i)' /\ doc'[i].name = EntryAt(s, k)'.key[1]
  BY DEF NothingMadeUp
<1>1. /\ id \in 1..Len(doc') /\ doc'[id] = n
      /\ \A j \in 1..Len(doc) : j \in 1..Len(doc') /\ doc'[j] = doc[j]
  BY DocAdded DEF Adds
<1>2. pflags' = pflags /\ (n.type = "comment" => XPF_ADD_COMMENTS)
  BY DEF Adds
<1>3. CASE i = id /\ s = top /\ k = p
  BY <1>1, <1>2, <1>3, OldPlaces DEF Kept, XPF_ADD_COMMENTS, Adds
<1>4. CASE /\ i \in 1..Len(doc) /\ s \in DOMAIN heap /\ k \in Place(s)
           /\ i \in Contents(EntryAt(s, k))
  <2>1. Kept(i) /\ doc[i].name = EntryAt(s, k).key[1]
    BY <1>4 DEF NothingMadeUp
  <2>2. EntryAt(s, k).key = EntryAt(s, k)'.key
    BY <1>4, OldPlaces
  <2> QED
    BY <1>1, <1>2, <1>4, <2>1, <2>2 DEF Kept, XPF_ADD_COMMENTS
<1> QED
  BY <1>3, <1>4, WhereHeld

LEMMA EachInItsPlaceStep ==
  ASSUME Typed, EachInItsPlace, NEW id, NEW n, NEW top, NEW p, Adds(id, n, top, p)
  PROVE  EachInItsPlace'
<1> SUFFICES ASSUME NEW i \in 1..Len(doc'), Kept(i)'
             PROVE  \E s \in DOMAIN heap' : i \in Held(s)' /\ (ParentOf(s, i) \/ Misplaced(i))'
  BY DEF EachInItsPlace
<1>1. i \in 1..Len(doc) \/ i = id
  BY DocAdded DEF Adds
<1>2. CASE i = id
  <2>1. p \in Place(top)' /\ id \in Contents(EntryAt(top, p)')
    BY OldPlaces
  <2>2. id \in Held(top)'
    BY <2>1 DEF Held
  <2>3. top \in DOMAIN heap'
    BY OldPlaces DEF Adds
  <2> QED
    BY <1>2, <2>2, <2>3 DEF Adds
<1>3. CASE i \in 1..Len(doc)
  <2>1. Kept(i)
    BY <1>3, DocAdded DEF Kept, XPF_ADD_COMMENTS, Adds
  <2>2. PICK s \in DOMAIN heap : i \in Held(s) /\ (ParentOf(s, i) \/ Misplaced(i))
    BY <1>3, <2>1 DEF EachInItsPlace
  <2>3. s \in DOMAIN heap' /\ i \in Held(s)'
    BY <2>2, OldPlaces DEF Held
  <2>4. (ParentOf(s, i) \/ Misplaced(i))'
    BY <1>3, <2>2, PlacesStay DEF Adds
  <2> QED
    BY <2>3, <2>4
<1> QED
  BY <1>1, <1>2, <1>3

LEMMA NoneTwiceStep ==
  ASSUME Typed, NothingMadeUp, NoneTwice, NEW id, NEW n, NEW top, NEW p, Adds(id, n, top, p)
  PROVE  NoneTwice'
<1>1. ASSUME NEW s \in DOMAIN heap', NEW t \in DOMAIN heap',
             NEW k \in Place(s)', NEW l \in Place(t)', NEW i,
             i \in Contents(EntryAt(s, k)'), i \in Contents(EntryAt(t, l)')
      PROVE  s = t /\ ~(k < l)
  <2>0. DOMAIN heap \subseteq Nat
    BY DocAdded DEF Typed, Adds
  <2>1. CASE i = id
    <3>1. id \notin 1..Len(doc) /\ p \in Nat
      BY DocAdded DEF Adds, Grown
    <3>2. s = top /\ k = p /\ t = top /\ l = p
      BY <1>1, <2>1, <3>1, WhereHeld
    <3> QED
      BY <3>1, <3>2
  <2>2. CASE i # id
    <3>1. /\ s \in DOMAIN heap /\ k \in Place(s) /\ i \in Contents(EntryAt(s, k))
          /\ t \in DOMAIN heap /\ l \in Place(t) /\ i \in Contents(EntryAt(t, l))
      BY <1>1, <2>2, WhereHeld
    <3>2. i \in Held(s) /\ i \in Held(t)
      BY <3>1 DEF Held
    <3>3. ~(s < t) /\ ~(t < s)
      BY <3>1, <3>2 DEF NoneTwice
    <3>4. s = t
      BY <2>0, <3>1, <3>3
    <3> QED
      BY <3>1, <3>4 DEF NoneTwice
  <2> QED
    BY <2>1, <2>2
<1>2. \A s, t \in DOMAIN heap' : s < t => Held(s)' \cap Held(t)' = {}
  <2> SUFFICES ASSUME NEW s \in DOMAIN heap', NEW t \in DOMAIN heap', s < t,
                      NEW i \in Held(s)', i \in Held(t)'
               PROVE  FALSE
    OBVIOUS
  <2>1. PICK k \in Place(s)' : i \in Contents(EntryAt(s, k)')
    BY DEF Held
  <2>2. PICK l \in Place(t)' : i \in Contents(EntryAt(t, l)')
    BY DEF Held
  <2>3. s = t
    BY <1>1, <2>1, <2>2
  <2>4. s \in Nat
    BY DocAdded DEF Adds
  <2> QED
    BY <2>3, <2>4
<1>3. \A s \in DOMAIN heap' : \A k, l \in Place(s)' :
        k < l => Contents(EntryAt(s, k)') \cap Contents(EntryAt(s, l)') = {}
  BY <1>1
<1>4. ASSUME NEW s \in DOMAIN heap', NEW k \in Place(s)',
             NEW a \in 1..Len(EntryAt(s, k)'.slots), NEW b \in 1..Len(EntryAt(s, k)'.slots), a < b
      PROVE  EntryAt(s, k)'.slots[a] < EntryAt(s, k)'.slots[b]
  <2>1. CASE s \in DOMAIN heap /\ k \in Place(s) /\ EntryAt(s, k)' = EntryAt(s, k)
    BY <1>4, <2>1 DEF NoneTwice
  <2>2. CASE EntryAt(s, k)' = Entry(<<"attributes", 0>>, n.val, <<>>)
    BY <1>4, <2>2 DEF Entry
  <2>3. CASE s = top /\ k = p
    <3> DEFINE E == Entries(heap[top])
               F == Entries(heap'[top])
    <3>1. E \in Seq(EntryType) /\ F \in Seq(EntryType)
      <4>1. heap[top] \in ValueType
        BY DEF Typed, Adds
      <4>2. top \in DOMAIN heap'
        BY OldPlaces DEF Adds
      <4>3. heap'[top] \in ValueType
        BY <4>2 DEF Adds
      <4> QED
        BY <4>1, <4>3, HashFacts
    <3>2. Grown(E, F, p, id, n.name)
      BY DEF Adds
    <3>3. EntryAt(s, k)' = F[p]
      BY <2>3 DEF EntryAt
    <3>4. \A i \in 1..Len(doc) : i < id
      BY DocAdded DEF Adds
    <3>5. id \in Nat /\ top \in DOMAIN heap
      BY DocAdded DEF Adds
    <3>6. p \in 1..Len(E) => EntryAt(top, p) = E[p] /\ p \in Place(top)
      BY DEF EntryAt, Place
    <3> HIDE DEF E, F
    <3>7. CASE p > Len(E)
      BY <1>4, <3>1, <3>2, <3>3, <3>7 DEF Grown, EntryType
    <3>8. CASE p <= Len(E)
      <4> DEFINE list == E[p].slots
      <4>1. p \in 1..Len(E)
        BY <3>1, <3>2, <3>8 DEF Grown
      <4>2. E[p] \in EntryType
        BY <3>1, <4>1
      <4>3. list \in Seq(Nat)
        BY <4>2 DEF EntryType
      <4>4. F[p].slots = Append(list, id) /\ E[p].key[1] \notin Leaf \cup {"attributes"}
        BY <3>2, <3>8 DEF Grown
      <4>5. \A c \in 1..Len(list) : list[c] \in Contents(E[p])
        BY <4>3, <4>4 DEF Contents, ToSet
      <4>6. \A c \in 1..Len(list) : list[c] < id
        BY <3>4, <3>5, <3>6, <4>1, <4>5 DEF NothingMadeUp
      <4>7. \A c, d \in 1..Len(list) : c < d => list[c] < list[d]
        BY <3>5, <3>6, <4>1 DEF NoneTwice
      <4>8. a \in 1..Len(Append(list, id)) /\ b \in 1..Len(Append(list, id))
        BY <3>3, <4>4
      <4> HIDE DEF list
      <4>9. Append(list, id)[a] < Append(list, id)[b]
        BY <1>4, <3>5, <4>3, <4>6, <4>7, <4>8, ListIncreases
      <4> QED
        BY <3>3, <4>4, <4>9
    <3>9. p \in Nat /\ Len(E) \in Nat
      BY <3>1, <3>2 DEF Grown
    <3> QED
      BY <3>7, <3>8, <3>9
  <2> QED
    BY <2>1, <2>2, <2>3, Places
<1> QED
  BY <1>2, <1>3, <1>4 DEF NoneTwice

LEMMA AttributesKeptStep ==
  ASSUME XmlAssumption, Typed, AttributesKept,
         NEW id, NEW n, NEW top, NEW p, Adds(id, n, top, p)
  PROVE  AttributesKept'
<1>0. n.name # "attributes"
  BY DEF XmlAssumption, Adds, NodeType, Leaf, Dropped
<1> DEFINE before(s) == {EntryAt(s, k).val : k \in {l \in Place(s) : EntryAt(s, l).key[1] = "attributes"}}
           after(s) == {EntryAt(s, k)'.val : k \in {l \in Place(s)' : EntryAt(s, l)'.key[1] = "attributes"}}
<1>1. /\ id \in Nat /\ id # 0 /\ id \notin 1..Len(doc) /\ doc'[id] = n /\ top \in DOMAIN heap
      /\ \A i \in 1..Len(doc) : doc'[i] = doc[i]
      /\ 1..Len(doc') = 1..Len(doc) \cup {id}
  BY DocAdded DEF Adds
<1>2. ASSUME NEW s \in DOMAIN heap
      PROVE  after(s) = before(s)
  <2>1. s # id
    BY <1>1 DEF Typed
  <2>2. ASSUME NEW k \in Place(s), EntryAt(s, k).key[1] = "attributes"
        PROVE  k \in Place(s)' /\ EntryAt(s, k)' = EntryAt(s, k)
    BY <1>0, <2>2, OldPlaces
  <2>3. ASSUME NEW k \in Place(s)', EntryAt(s, k)'.key[1] = "attributes"
        PROVE  k \in Place(s) /\ EntryAt(s, k)' = EntryAt(s, k)
    <3>1. s \in DOMAIN heap'
      BY OldPlaces
    <3> QED
      BY <1>0, <2>1, <2>3, <3>1, OldPlaces, Places
  <2> QED
    BY <2>2, <2>3
<1>3. ASSUME NEW s \in DOMAIN heap', s \notin DOMAIN heap
      PROVE  after(s) = IF n.val = 0 THEN {} ELSE {n.val}
  <2>1. s = id /\ n.type = "element"
    BY <1>1, <1>3 DEF Typed, Adds
  <2>2. heap'[s] = Own(n) /\ n \in NodeType
    BY <2>1 DEF Adds
  <2>3. CASE n.val = 0
    <3>1. Place(s)' = 1..0
      BY <2>2, <2>3, OwnEntries, Zenon DEF Place
    <3>2. 1..0 = {}
      OBVIOUS
    <3> QED
      BY <2>3, <3>1, <3>2
  <2>4. CASE n.val # 0
    <3>1. Place(s)' = 1..1
      BY <2>2, <2>4, OwnEntries, Zenon DEF Place
    <3>2. 1..1 = {1}
      OBVIOUS
    <3>3. EntryAt(s, 1)' = Entry(<<"attributes", 0>>, n.val, <<>>)
      BY <2>2, <2>4, OwnEntries, Zenon DEF EntryAt
    <3>4. EntryAt(s, 1)'.key[1] = "attributes" /\ EntryAt(s, 1)'.val = n.val
      BY <3>3 DEF Entry
    <3>5. {l \in Place(s)' : EntryAt(s, l)'.key[1] = "attributes"} = {1}
      BY <3>1, <3>2, <3>4
    <3> QED
      BY <2>4, <3>4, <3>5
  <2> QED
    BY <2>3, <2>4
<1>4. \A s \in DOMAIN heap : before(s) = IF s = 0 \/ doc[s].val = 0 THEN {} ELSE {doc[s].val}
  BY DEF AttributesKept
<1>5. \A s \in DOMAIN heap' : after(s) = IF s = 0 \/ doc'[s].val = 0 THEN {} ELSE {doc'[s].val}
  <2> SUFFICES ASSUME NEW s \in DOMAIN heap'
               PROVE  after(s) = IF s = 0 \/ doc'[s].val = 0 THEN {} ELSE {doc'[s].val}
    OBVIOUS
  <2> HIDE DEF after, before
  <2>1. CASE s \in DOMAIN heap
    <3>1. s = 0 \/ s \in 1..Len(doc)
      BY <2>1 DEF Typed
    <3> QED
      BY <1>1, <1>2, <1>4, <2>1, <3>1
  <2>2. CASE s \notin DOMAIN heap
    <3>1. s = id
      BY <1>1, <2>2 DEF Typed, Adds
    <3> QED
      BY <1>1, <1>3, <2>2, <3>1
  <2> QED
    BY <2>1, <2>2
<1> QED
  BY <1>5 DEF AttributesKept

LEMMA InOrderStep ==
  ASSUME Typed, NothingMadeUp, InOrder, NEW id, NEW n, NEW top, NEW p, Adds(id, n, top, p)
  PROVE  InOrder'
<1> SUFFICES ASSUME XPF_PRESERVE_ORDER',
                    NEW s \in DOMAIN heap', NEW k \in Place(s)', NEW l \in Place(s)', k < l,
                    NEW i \in Contents(EntryAt(s, k)'), NEW j \in Contents(EntryAt(s, l)')
             PROVE  i < j
  BY DEF InOrder
<1>1. XPF_PRESERVE_ORDER
  BY DEF XPF_PRESERVE_ORDER, Adds
<1>2. s = top => k <= p /\ l <= p
  BY <1>1 DEF Adds, Place
<1>3. p \in Nat /\ k \in Nat /\ l \in Nat
  BY DEF Adds, Grown, Place
<1>4. i = id => ~(s = top /\ k = p)
  BY <1>2, <1>3
<1>5. /\ i \in 1..Len(doc) /\ i < id /\ s \in DOMAIN heap
      /\ k \in Place(s) /\ i \in Contents(EntryAt(s, k))
  BY <1>2, <1>3, WhereHeld
<1>6. CASE j = id
  BY <1>5, <1>6
<1>7. CASE j # id
  <2>1. l \in Place(s) /\ j \in Contents(EntryAt(s, l))
    BY <1>7, WhereHeld
  <2> QED
    BY <1>1, <1>5, <2>1 DEF InOrder
<1> QED
  BY <1>6, <1>7

-----------------------------------------------------------------------------
(* The stack when a node is added *)

\* The first m frames stay, the last of them with other counters; an element
\* gets a frame of its own.
Restacks(id, n, top, m) ==
  /\ m \in 1..Len(stack) /\ top = stack[m].slot
  /\ IF n.depth = 0 THEN m = Len(stack) /\ (n.type = "element" => m = 1) ELSE m = n.depth + 1
  /\ stack' \in Seq(FrameType)
  /\ Len(stack') = IF n.type = "element" THEN m + 1 ELSE m
  /\ \A i \in 1..m : stack'[i].slot = stack[i].slot /\ stack'[i].depth = stack[i].depth
  /\ \A i \in 1..(m - 1) : stack'[i] = stack[i]
  /\ n.type = "element" => stack'[m + 1] = Frame(id, n.depth, NoCount)
  /\ \A k \in Place(top)' :
       LET key == EntryAt(top, k)'.key
       IN  key[1] \in Leaf => key[2] < Counted(stack'[m], heap'[top])[key[1]]

\* The frames have different slots.
LEMMA SlotsDiffer ==
  ASSUME Path, NEW i \in 1..Len(stack), NEW j \in 1..Len(stack), stack[i].slot = stack[j].slot,
         Len(stack) \in Nat, Len(doc) \in Nat
  PROVE  i = j
<1>1. \A k \in 1..Len(stack) : k = 1 \/ k \in 2..Len(stack)
  OBVIOUS
<1>2. \A k \in 2..Len(stack) : stack[k].slot \in 1..Len(doc) /\ doc[stack[k].slot].depth = k - 2
  BY DEF Path
<1>3. stack[1].slot = 0
  BY DEF Path
<1>4. 0 \notin 1..Len(doc) /\ i \in Int /\ j \in Int
  OBVIOUS
<1>5. CASE i = 1 \/ j = 1
  BY <1>1, <1>2, <1>3, <1>4, <1>5
<1>6. CASE i \in 2..Len(stack) /\ j \in 2..Len(stack)
  <2>1. i - 2 = j - 2
    BY <1>2, <1>6
  <2> QED
    BY <1>4, <2>1
<1> QED
  BY <1>1, <1>5, <1>6

LEMMA PathStep ==
  ASSUME Typed, Path, NEW id, NEW n, NEW top, NEW p, NEW m,
         Adds(id, n, top, p), Restacks(id, n, top, m)
  PROVE  Path'
<1>1. /\ id \in Nat /\ id >= 1 /\ Len(doc') = id /\ id = Len(doc) + 1 /\ doc'[id] = n
      /\ \A i \in 1..Len(doc) : doc'[i] = doc[i]
      /\ Len(doc) \in Nat /\ Len(stack) \in Nat
  BY DocAdded DEF Adds, Typed
<1>2. n.depth \in Nat
  BY DEF Adds, NodeType
<1>3. /\ m \in 1..Len(stack)
      /\ IF n.depth = 0 THEN m = Len(stack) /\ (n.type = "element" => m = 1) ELSE m = n.depth + 1
      /\ Len(stack') = IF n.type = "element" THEN m + 1 ELSE m
      /\ \A i \in 1..m : stack'[i].slot = stack[i].slot /\ stack'[i].depth = stack[i].depth
      /\ n.type = "element" => stack'[m + 1].slot = id /\ stack'[m + 1].depth = n.depth
  BY DEF Restacks, Frame
<1>4. n.type = "element" => n.depth = m - 1
  BY <1>1, <1>2, <1>3
<1>5. Len(stack') >= 1 /\ stack'[1].slot = 0
  BY <1>1, <1>3 DEF Path
<1>6. ASSUME NEW i \in 1..Len(stack')
      PROVE  stack'[i].depth = i - 2
  <2>1. CASE i \in 1..m
    BY <1>1, <1>3, <2>1 DEF Path
  <2>2. CASE i \notin 1..m
    <3>1. n.type = "element" /\ i = m + 1
      BY <1>1, <1>3, <2>2
    <3> QED
      BY <1>1, <1>3, <1>4, <3>1
  <2> QED
    BY <2>1, <2>2
<1>7. ASSUME NEW i \in 2..Len(stack')
      PROVE  /\ stack'[i].slot \in 1..Len(doc')
             /\ doc'[stack'[i].slot].type = "element" /\ doc'[stack'[i].slot].depth = i - 2
             /\ \A k \in (stack'[i].slot + 1)..Len(doc') :
                  ~(doc'[k].type = "element" /\ doc'[k].depth = i - 2)
  <2>1. CASE i \in 2..m
    <3> DEFINE slot == stack[i].slot
    <3>1. /\ slot \in 1..Len(doc) /\ stack'[i].slot = slot
          /\ doc[slot].type = "element" /\ doc[slot].depth = i - 2
          /\ \A k \in (slot + 1)..Len(doc) : ~(doc[k].type = "element" /\ doc[k].depth = i - 2)
      BY <1>1, <1>3, <2>1 DEF Path
    <3>2. n.type = "element" => n.depth # i - 2
      BY <1>1, <1>3, <1>4, <2>1
    <3> HIDE DEF slot
    <3>3. \A k \in (slot + 1)..Len(doc') : k = id \/ k \in (slot + 1)..Len(doc)
      BY <1>1, <3>1
    <3>4. \A k \in (slot + 1)..Len(doc) : k \in 1..Len(doc)
      BY <1>1, <3>1
    <3>5. slot \in 1..Len(doc')
      BY <1>1, <3>1
    <3> QED
      BY <1>1, <3>1, <3>2, <3>3, <3>4, <3>5
  <2>2. CASE i \notin 2..m
    <3>1. n.type = "element" /\ i = m + 1
      BY <1>1, <1>3, <2>2
    <3>2. stack'[i].slot = id /\ n.depth = i - 2 /\ id \in 1..Len(doc')
      BY <1>1, <1>3, <1>4, <3>1
    <3>3. (id + 1)..Len(doc') = {}
      BY <1>1
    <3> QED
      BY <1>1, <3>1, <3>2, <3>3
  <2> QED
    BY <2>1, <2>2
<1> QED
  BY <1>5, <1>6, <1>7 DEF Path

LEMMA LinkedStep ==
  ASSUME XmlAssumption, Typed, Path, Linked, NEW id, NEW n, NEW top, NEW p, NEW m,
         Adds(id, n, top, p), Restacks(id, n, top, m)
  PROVE  Linked'
<1> SUFFICES ASSUME NEW i \in 1..(Len(stack') - 1), NEW slot, slot = stack'[i].slot
             PROVE  \E k \in Place(slot)' :
                      stack'[i + 1].slot \in ToSet(EntryAt(slot, k)'.slots)
  BY DEF Linked, Place, EntryAt
<1>1. /\ m \in 1..Len(stack) /\ top = stack[m].slot
      /\ Len(stack') = IF n.type = "element" THEN m + 1 ELSE m
      /\ \A j \in 1..m : stack'[j].slot = stack[j].slot
      /\ n.type = "element" => stack'[m + 1].slot = id
  BY DEF Restacks, Frame
<1>2. Len(stack) \in Nat
  BY DEF Typed
<1>3. CASE i \in 1..(m - 1)
  <2>1. /\ i \in 1..(Len(stack) - 1)
        /\ slot = stack[i].slot /\ stack'[i + 1].slot = stack[i + 1].slot
    <3>1. i \in 1..m /\ i + 1 \in 1..m /\ i \in 1..(Len(stack) - 1)
      BY <1>1, <1>2, <1>3
    <3> QED
      BY <1>1, <3>1
  <2>2. PICK k \in Place(slot) : stack[i + 1].slot \in ToSet(EntryAt(slot, k).slots)
    BY <2>1 DEF Linked
  <2>3. slot \in DOMAIN heap
    <3>1. i = 1 \/ i \in 2..Len(stack)
      BY <1>2, <2>1
    <3> QED
      BY <2>1, <3>1 DEF Path, Typed
  <2>4. k \in Place(slot)' /\ ToSet(EntryAt(slot, k).slots) \subseteq ToSet(EntryAt(slot, k)'.slots)
    BY <2>2, <2>3, OldPlaces
  <2> QED
    BY <2>1, <2>2, <2>4
<1>4. CASE i \notin 1..(m - 1)
  <2>1. n.type = "element" /\ i = m
    BY <1>1, <1>2, <1>4
  <2>2. slot = top /\ stack'[i + 1].slot = id
    BY <1>1, <1>2, <2>1
  <2>3. /\ p \in Place(top)' /\ EntryAt(top, p)'.key[1] = n.name
        /\ id \in Contents(EntryAt(top, p)')
    BY OldPlaces
  <2>4. n.name \notin Leaf /\ n.name # "attributes"
    BY <2>1 DEF XmlAssumption, Adds
  <2>5. id \in ToSet(EntryAt(top, p)'.slots)
    BY <2>3, <2>4 DEF Contents
  <2> QED
    BY <2>2, <2>3, <2>5
<1> QED
  BY <1>3, <1>4

LEMMA CountersStep ==
  ASSUME Typed, Path, Counters, NEW id, NEW n, NEW top, NEW p, NEW m,
         Adds(id, n, top, p), Restacks(id, n, top, m)
  PROVE  Counters'
<1> SUFFICES ASSUME NEW i \in 1..Len(stack'), NEW slot, slot = stack'[i].slot,
                    NEW k \in Place(slot)', EntryAt(slot, k)'.key[1] \in Leaf
             PROVE  EntryAt(slot, k)'.key[2]
                      < Counted(stack'[i], heap'[slot])[EntryAt(slot, k)'.key[1]]
  BY DEF Counters, Place, EntryAt
<1>1. /\ m \in 1..Len(stack) /\ top = stack[m].slot
      /\ Len(stack') = IF n.type = "element" THEN m + 1 ELSE m
      /\ \A j \in 1..m : stack'[j].slot = stack[j].slot
      /\ \A j \in 1..(m - 1) : stack'[j] = stack[j]
      /\ n.type = "element" => stack'[m + 1].slot = id
  BY DEF Restacks, Frame
<1>2. Len(stack) \in Nat /\ Len(doc) \in Nat
  BY DEF Typed
<1>3. CASE i \in 1..(m - 1)
  <2>1. i \in 1..Len(stack) /\ stack'[i] = stack[i] /\ i # m /\ slot = stack[i].slot
    BY <1>1, <1>2, <1>3
  <2>2. slot # top
    BY <1>1, <1>2, <2>1, SlotsDiffer
  <2>3. slot \in DOMAIN heap
    <3>1. i = 1 \/ i \in 2..Len(stack)
      BY <1>2, <2>1
    <3> QED
      BY <2>1, <3>1 DEF Path, Typed
  <2>4. heap'[slot] = heap[slot]
    BY <2>2, <2>3 DEF Adds
  <2> QED
    BY <2>1, <2>4 DEF Counters, Place, EntryAt
<1>4. CASE i = m
  <2>1. slot = top
    BY <1>1, <1>2, <1>4
  <2> QED
    BY <1>4, <2>1 DEF Restacks
<1>5. CASE i \notin 1..m
  <2>1. n.type = "element" /\ slot = id
    BY <1>1, <1>2, <1>5
  <2>2. id \notin DOMAIN heap /\ top \in DOMAIN heap /\ id \in DOMAIN heap'
    BY <2>1, DocAdded DEF Typed, Adds
  <2>3. EntryAt(id, k)' = Entry(<<"attributes", 0>>, n.val, <<>>)
    BY <2>1, <2>2, Places
  <2> QED
    BY <2>1, <2>3 DEF Entry, Leaf
<1> QED
  BY <1>1, <1>2, <1>3, <1>4, <1>5

LEMMA AllOpenStep ==
  ASSUME Typed, Path, AllOpen, NEW id, NEW n, NEW top, NEW p, NEW m,
         Adds(id, n, top, p), Restacks(id, n, top, m)
  PROVE  AllOpen'
<1>1. /\ id \in Nat /\ Len(doc') = id /\ doc'[id] = n /\ id \in 1..Len(doc')
      /\ \A i \in 1..Len(doc) : i \in 1..Len(doc') /\ doc'[i] = doc[i]
  BY DocAdded DEF Adds
<1>2. /\ m \in 1..Len(stack)
      /\ IF n.depth = 0 THEN m = Len(stack) /\ (n.type = "element" => m = 1) ELSE m = n.depth + 1
      /\ Len(stack') = IF n.type = "element" THEN m + 1 ELSE m
  BY DEF Restacks
<1>3. n.depth \in Nat /\ Len(stack) \in Nat
  BY DEF Adds, NodeType, Typed
<1>4. Last(doc') = n
  BY <1>1 DEF Last
<1>5. Len(stack') >= n.depth + (IF n.type = "element" THEN 2 ELSE 1)
  BY <1>2, <1>3
<1>6. (\A i \in 1..Len(doc') : doc'[i].type # "element") => Len(stack') = 1
  <2> SUFFICES ASSUME \A i \in 1..Len(doc') : doc'[i].type # "element"
               PROVE  Len(stack') = 1
    OBVIOUS
  <2>1. n.type # "element" /\ \A i \in 1..Len(doc) : doc[i].type # "element"
    BY <1>1
  <2>2. Len(stack) = 1
    BY <2>1 DEF AllOpen
  <2> QED
    BY <1>2, <1>3, <2>1, <2>2
<1> QED
  BY <1>4, <1>5, <1>6 DEF AllOpen

-----------------------------------------------------------------------------
(* Every turn of the loop adds a node, or skips it *)

\* The counters that the frame of value x goes on with.
LEMMA CountedFacts ==
  ASSUME NEW f \in FrameType, NEW x
  PROVE  /\ Counted(f, x) \in [Leaf -> Nat]
         /\ x.hash => Counted(f, x) = f.count
         /\ IsString(x) => Counted(f, x)["text"] > 0
<1>1. f.count \in [Leaf -> Nat] /\ "text" \in Leaf
  BY DEF FrameType, Leaf
<1>2. CASE IsString(x)
  <2>1. Counted(f, x) = [f.count EXCEPT !["text"] = @ + 1] /\ ~x.hash
    BY <1>2 DEF Counted, IsString
  <2> QED
    BY <1>1, <1>2, <2>1
<1>3. CASE ~IsString(x)
  BY <1>1, <1>3 DEF Counted
<1> QED
  BY <1>2, <1>3

\* The frames when the counters of the tail change.
LEMMA RecountFacts ==
  ASSUME NEW st \in Seq(FrameType), Len(st) >= 1, NEW count \in [Leaf -> Nat]
  PROVE  LET after == Recount(st, count)
             m == Len(st)
         IN  /\ after \in Seq(FrameType) /\ Len(after) = m
             /\ \A i \in 1..(m - 1) : after[i] = st[i]
             /\ after[m].slot = st[m].slot /\ after[m].depth = st[m].depth
             /\ after[m].count = count
<1> SUFFICES ASSUME NEW after, after = Recount(st, count), NEW m, m = Len(st)
             PROVE  /\ after \in Seq(FrameType) /\ Len(after) = m
                    /\ \A i \in 1..(m - 1) : after[i] = st[i]
                    /\ after[m].slot = st[m].slot /\ after[m].depth = st[m].depth
                    /\ after[m].count = count
  OBVIOUS
<1> DEFINE f == Frame(st[m].slot, st[m].depth, count)
<1>1. m \in Nat /\ m \in 1..Len(st) /\ st[m] \in FrameType
  OBVIOUS
<1>2. f \in FrameType /\ f.slot = st[m].slot /\ f.depth = st[m].depth /\ f.count = count
  BY <1>1 DEF Frame, FrameType
<1>3. after = [st EXCEPT ![m] = f]
  BY <1>1 DEF Recount
<1> HIDE DEF f
<1> QED
  BY <1>1, <1>2, <1>3

\* The frame that checkDepth() leaves at the tail, as a place on the stack.
LEMMA TailFacts ==
  ASSUME Typed, Path, AllOpen, NEW n \in NodeType, n.type \notin Dropped, Follows(n),
         doc' = Append(doc, n), NEW id, id = Len(doc) + 1
  PROVE  \E st, m, top :
           /\ st = checkDepth(n.depth) /\ m = Len(st) /\ Last(st) = st[m] /\ top = st[m].slot
           /\ st \in Seq(FrameType) /\ m \in 1..Len(stack) /\ m \in Nat \ {0}
           /\ st[m] \in FrameType /\ \A i \in 1..m : st[i] = stack[i]
           /\ IF n.depth = 0 THEN m = Len(stack) /\ (n.type = "element" => m = 1)
              ELSE m = n.depth + 1
           /\ top \in DOMAIN heap /\ heap[top] \in ValueType
           /\ (ParentOf(top, id) \/ Misplaced(id))'
<1>a. PICK st : st = checkDepth(n.depth)
  OBVIOUS
<1>b. PICK m : m = Len(st)
  OBVIOUS
<1>c. PICK top : top = Last(st).slot
  OBVIOUS
<1>1. /\ st \in Seq(FrameType) /\ Len(st) \in 1..Len(stack)
      /\ \A i \in 1..Len(st) : st[i] = stack[i]
      /\ n.depth # 0 => Len(st) = n.depth + 1
      /\ n.depth = 0 => st = stack
  BY <1>a, WhatIsLeft
<1>2. Len(stack) \in Nat /\ m \in Nat
  BY <1>b, <1>1 DEF Typed
<1>3. m \in 1..Len(stack) /\ m \in Nat \ {0} /\ m \in 1..Len(st) /\ \A i \in 1..m : st[i] = stack[i]
  BY <1>b, <1>1, <1>2
<1>4. st[m] \in FrameType /\ Last(st) = st[m] /\ top = st[m].slot
  BY <1>b, <1>c, <1>1, <1>3 DEF Last
<1>5. n.depth = 0 /\ n.type = "element" => Len(stack) = 1
  BY DeepEnough
<1>6. IF n.depth = 0 THEN m = Len(stack) /\ (n.type = "element" => m = 1) ELSE m = n.depth + 1
  BY <1>b, <1>1, <1>5
<1>7. top = Last(checkDepth(n.depth)).slot
  BY <1>a, <1>c
<1>8. top \in DOMAIN heap /\ (ParentOf(top, id) \/ Misplaced(id))'
  BY <1>7, FrameOfParent
<1>9. heap[top] \in ValueType
  BY <1>8 DEF Typed
<1> QED
  BY <1>a, <1>b, <1>1, <1>3, <1>4, <1>6, <1>8, <1>9

LEMMA ElementStep ==
  ASSUME XmlAssumption, Typed, Path, AllOpen, Counters,
         NEW n \in NodeType, n.name \in ElementName, Follows(n),
         doc' = Append(doc, n), pflags' = pflags, NEW id, id = Len(doc) + 1, Element(id, n)
  PROVE  \E top, p, m : Adds(id, n, top, p) /\ Restacks(id, n, top, m)
<1>k. n.type \notin Dropped
  BY DEF Element, Dropped
<1>p. PICK st, m, top :
        /\ st = checkDepth(n.depth) /\ m = Len(st) /\ Last(st) = st[m] /\ top = st[m].slot
        /\ st \in Seq(FrameType) /\ m \in 1..Len(stack) /\ m \in Nat \ {0}
        /\ st[m] \in FrameType /\ \A i \in 1..m : st[i] = stack[i]
        /\ IF n.depth = 0 THEN m = Len(stack) /\ (n.type = "element" => m = 1)
           ELSE m = n.depth + 1
        /\ top \in DOMAIN heap /\ heap[top] \in ValueType
        /\ (ParentOf(top, id) \/ Misplaced(id))'
  BY <1>k, TailFacts
<1>2. /\ m \in 1..m /\ st[m] = stack[m] /\ top = stack[m].slot
      /\ \A i \in 1..m : i = m \/ i \in 1..(m - 1)
  BY <1>p
<1>x. PICK x : x = heap[top]
  OBVIOUS
<1>v. x \in ValueType
  BY <1>p, <1>x
<1>c. PICK count : count = Counted(st[m], x)
  OBVIOUS
<1>d. count \in [Leaf -> Nat] /\ (x.hash => count = st[m].count)
  <2>1. st[m] \in FrameType
    BY <1>p
  <2> QED
    BY <1>c, <2>1, CountedFacts
<1>y. PICK y : y = AddElement(AsHash(x), n.name, id)
  OBVIOUS
<1>3. /\ n.type = "element"
      /\ heap' = [s \in DOMAIN heap \cup {id} |->
                    IF s = id THEN Own(n) ELSE IF s = top THEN y ELSE heap[s]]
      /\ stack' = Append(Recount(st, count), Frame(id, n.depth, NoCount))
  BY <1>p, <1>x, <1>y, <1>c, <1>2 DEF Element, Own
<1>4. /\ id \in Nat /\ Len(doc) \in Nat /\ Len(doc') = id /\ doc'[id] = n /\ id \notin 1..Len(doc)
      /\ \A i \in 1..Len(doc) : doc'[i] = doc[i]
      /\ 1..Len(doc') = 1..Len(doc) \cup {id}
  BY DocAdded
<1>5. /\ y \in ValueType /\ y.hash /\ y.text = 0
      /\ \E p \in Nat : /\ Grown(Entries(x), Entries(y), p, id, n.name)
                        /\ XPF_PRESERVE_ORDER => p = Len(Entries(y))
  <2>1. id \in Nat
    BY <1>4
  <2>2. PICK name \in ElementName : name = n.name
    OBVIOUS
  <2>3. y = AddElement(AsHash(x), name, id)
    BY <1>y, <2>2
  <2>4. /\ y \in ValueType /\ y.hash /\ y.text = 0
        /\ \E p \in Nat : /\ Grown(Entries(x), Entries(y), p, id, name)
                          /\ XPF_PRESERVE_ORDER => p = Len(Entries(y))
    BY <1>v, <2>1, <2>3, ElementAdded
  <2> QED
    BY <2>2, <2>4
<1>6. PICK p \in Nat : /\ Grown(Entries(x), Entries(y), p, id, n.name)
                       /\ XPF_PRESERVE_ORDER => p = Len(Entries(y))
  BY <1>5
<1>7. DOMAIN heap = {0} \cup {i \in 1..Len(doc) : doc[i].type = "element"}
  BY DEF Typed
<1>8. id \notin DOMAIN heap /\ top # id
  BY <1>p, <1>2, <1>4, <1>7
<1>9. heap' \in [{0} \cup {i \in 1..Len(doc') : doc'[i].type = "element"} -> ValueType]
  <2>1. DOMAIN heap \cup {id} = {0} \cup {i \in 1..Len(doc') : doc'[i].type = "element"}
    BY <1>3, <1>4, <1>7
  <2>2. Own(n) \in ValueType /\ \A s \in DOMAIN heap : heap[s] \in ValueType
    BY OwnEntries DEF Typed
  <2> QED
    BY <1>3, <1>5, <2>1, <2>2
<1>10. heap'[top] = y /\ heap'[id] = Own(n) /\ \A s \in DOMAIN heap : s # top => heap'[s] = heap[s]
  BY <1>p, <1>2, <1>3, <1>8
<1>11. Adds(id, n, top, p)
  <2>1. /\ Grown(Entries(heap[top]), Entries(heap'[top]), p, id, n.name)
        /\ XPF_PRESERVE_ORDER => p = Len(Entries(heap'[top]))
        /\ heap'[top].hash /\ heap'[top].text = 0
    BY <1>x, <1>5, <1>6, <1>10, Zenon
  <2>2. top \in DOMAIN heap /\ (ParentOf(top, id) \/ Misplaced(id))'
    BY <1>p
  <2>3. n.type # "comment" /\ n.type \notin Dropped
    BY <1>3 DEF Dropped
  <2> QED
    BY <1>3, <1>9, <1>10, <2>1, <2>2, <2>3 DEF Adds
<1>r. PICK r : r = Recount(st, count)
  OBVIOUS
<1>12. /\ r \in Seq(FrameType) /\ Len(r) = m
       /\ \A i \in 1..(m - 1) : r[i] = st[i]
       /\ r[m].slot = st[m].slot /\ r[m].depth = st[m].depth
       /\ r[m].count = count
  <2>1. st \in Seq(FrameType) /\ m = Len(st) /\ Len(st) >= 1
    BY <1>p
  <2> QED
    BY <1>d, <1>r, <2>1, RecountFacts
<1>13. Frame(id, n.depth, NoCount) \in FrameType
  BY <1>4 DEF Frame, FrameType, NoCount, NodeType
<1>14. /\ stack' \in Seq(FrameType) /\ Len(stack') = m + 1
       /\ stack'[m + 1] = Frame(id, n.depth, NoCount)
       /\ \A i \in 1..m : stack'[i] = r[i]
  BY <1>3, <1>r, <1>12, <1>13
<1>15. m \in Nat /\ m \in 1..m /\ \A i \in 1..m : i = m \/ i \in 1..(m - 1)
  BY <1>p, <1>2
<1>m. stack'[m] = r[m] /\ \A i \in 1..(m - 1) : stack'[i] = r[i]
  BY <1>14, <1>15
<1>n. \A i \in 1..(m - 1) : stack'[i] = stack[i]
  <2> SUFFICES ASSUME NEW i \in 1..(m - 1) PROVE stack'[i] = stack[i]
    OBVIOUS
  <2>1. stack'[i] = r[i] /\ r[i] = st[i]
    BY <1>12, <1>m
  <2>2. i \in 1..m
    BY <1>15
  <2> QED
    BY <1>p, <2>1, <2>2
<1>o. stack'[m].slot = stack[m].slot /\ stack'[m].depth = stack[m].depth
  BY <1>2, <1>12, <1>m
<1>16. /\ \A i \in 1..m : stack'[i].slot = stack[i].slot /\ stack'[i].depth = stack[i].depth
       /\ \A i \in 1..(m - 1) : stack'[i] = stack[i]
  BY <1>15, <1>n, <1>o
<1>17. ASSUME NEW k \in Place(top)', EntryAt(top, k)'.key[1] \in Leaf
       PROVE  EntryAt(top, k)'.key[2]
                < Counted(stack'[m], heap'[top])[EntryAt(top, k)'.key[1]]
  <2>1. Counted(stack'[m], heap'[top]) = count
    <3>1. stack'[m] \in FrameType /\ stack'[m].count = count
      BY <1>12, <1>14, <1>15, <1>m
    <3>2. heap'[top].hash
      BY <1>5, <1>10
    <3> QED
      BY <3>1, <3>2, CountedFacts
  <2>2. n.name \notin Leaf
    BY DEF XmlAssumption
  <2>3. p \in Place(top)' /\ EntryAt(top, p)'.key[1] = n.name /\ top \in DOMAIN heap'
    <3>1. top \in DOMAIN heap
      BY <1>p
    <3> QED
      BY <1>11, <3>1, OldPlaces
  <2>4. k # p
    BY <1>17, <2>2, <2>3
  <2>5. k \in Place(top) /\ EntryAt(top, k)' = EntryAt(top, k)
    BY <1>8, <1>11, <2>3, <2>4, Places
  <2>6. \A l \in Place(top) : EntryAt(top, l).key[1] \in Leaf =>
          EntryAt(top, l).key[2] < Counted(stack[m], heap[top])[EntryAt(top, l).key[1]]
    BY <1>p, <1>2 DEF Counters
  <2>7. Counted(stack[m], heap[top]) = count
    BY <1>x, <1>c, <1>2
  <2>8. EntryAt(top, k).key[1] \in Leaf =>
          EntryAt(top, k).key[2] < count[EntryAt(top, k).key[1]]
    BY <2>5, <2>6, <2>7, Zenon
  <2> QED
    BY <1>17, <2>1, <2>5, <2>8
<1>f. \A k \in Place(top)' :
        LET key == EntryAt(top, k)'.key
        IN  key[1] \in Leaf => key[2] < Counted(stack'[m], heap'[top])[key[1]]
  BY <1>17
<1>18. Restacks(id, n, top, m)
  BY <1>p, <1>2, <1>3, <1>14, <1>16, <1>f DEF Restacks
<1> QED
  BY <1>11, <1>18

LEMMA StringStep ==
  ASSUME XmlAssumption, Typed, Path, AllOpen,
         NEW n \in NodeType, n.name = n.type, Follows(n),
         doc' = Append(doc, n), pflags' = pflags, NEW id, id = Len(doc) + 1, String(id, n)
  PROVE  \E top, p, m : Adds(id, n, top, p) /\ Restacks(id, n, top, m)
<1>k. n.type \notin Dropped
  BY DEF String, Dropped
<1>p. PICK st, m, top :
        /\ st = checkDepth(n.depth) /\ m = Len(st) /\ Last(st) = st[m] /\ top = st[m].slot
        /\ st \in Seq(FrameType) /\ m \in 1..Len(stack) /\ m \in Nat \ {0}
        /\ st[m] \in FrameType /\ \A i \in 1..m : st[i] = stack[i]
        /\ IF n.depth = 0 THEN m = Len(stack) /\ (n.type = "element" => m = 1)
           ELSE m = n.depth + 1
        /\ top \in DOMAIN heap /\ heap[top] \in ValueType
        /\ (ParentOf(top, id) \/ Misplaced(id))'
  BY <1>k, TailFacts
<1>2. /\ m \in 1..m /\ st[m] = stack[m] /\ top = stack[m].slot
      /\ \A i \in 1..m : i = m \/ i \in 1..(m - 1)
  BY <1>p
<1>y. PICK y : y = Value(id, FALSE, <<>>)
  OBVIOUS
<1>3. /\ n.type = "text" /\ n.name = "text" /\ heap[top] = Nothing
      /\ heap' = [heap EXCEPT ![top] = y] /\ stack' = st
  BY <1>p, <1>y DEF String
<1>4. /\ id \in Nat /\ id \in Nat \ {0} /\ Len(doc') = id /\ doc'[id] = n
      /\ \A i \in 1..Len(doc) : doc'[i] = doc[i]
      /\ 1..Len(doc') = 1..Len(doc) \cup {id}
  BY DocAdded
<1>5. /\ y \in ValueType /\ ~y.hash /\ y.entries = <<>> /\ IsString(y)
      /\ Grown(Entries(Nothing), Entries(y), 1, id, "text")
      /\ Len(Entries(y)) = 1 /\ Entries(y)[1].key = <<"text", 0>>
  BY <1>p, <1>y, <1>4, StringAdded
<1>6. heap' \in [{0} \cup {i \in 1..Len(doc') : doc'[i].type = "element"} -> ValueType]
  <2>1. {i \in 1..Len(doc') : doc'[i].type = "element"} = {i \in 1..Len(doc) : doc[i].type = "element"}
    BY <1>3, <1>4
  <2> QED
    BY <1>3, <1>5, <2>1 DEF Typed
<1>7. heap'[top] = y /\ \A s \in DOMAIN heap : s # top => heap'[s] = heap[s]
  BY <1>p, <1>2, <1>3
<1>8. Grown(Entries(heap[top]), Entries(heap'[top]), 1, id, n.name)
  BY <1>3, <1>5, <1>7, Zenon
<1>9. Adds(id, n, top, 1)
  BY <1>p, <1>2, <1>3, <1>5, <1>6, <1>7, <1>8 DEF Adds, Dropped
<1>10. m \in Nat /\ m \in 1..m /\ \A i \in 1..(m - 1) : i \in 1..m
  BY <1>p, <1>2 DEF Typed
<1>11. /\ \A i \in 1..m : stack'[i].slot = stack[i].slot /\ stack'[i].depth = stack[i].depth
       /\ \A i \in 1..(m - 1) : stack'[i] = stack[i]
       /\ stack' \in Seq(FrameType) /\ Len(stack') = m
  BY <1>p, <1>y, <1>2, <1>3, <1>10
<1>12. ASSUME NEW k \in Place(top)'
       PROVE  EntryAt(top, k)'.key[2]
                < Counted(stack'[m], heap'[top])[EntryAt(top, k)'.key[1]]
  <2>1. k \in 1..1 /\ EntryAt(top, k)' = Entries(y)[k]
    BY <1>5, <1>7, Zenon DEF Place, EntryAt
  <2>2. EntryAt(top, k)'.key = <<"text", 0>>
    BY <1>5, <2>1
  <2>3. Counted(stack'[m], heap'[top])["text"] > 0
    BY <1>p, <1>y, <1>2, <1>3, <1>5, <1>7, CountedFacts
  <2> QED
    BY <2>2, <2>3
<1>13. Restacks(id, n, top, m)
  BY <1>p, <1>2, <1>3, <1>11, <1>12 DEF Restacks
<1> QED
  BY <1>9, <1>13

LEMMA SpecialStep ==
  ASSUME XmlAssumption, Typed, Path, AllOpen, Counters,
         NEW n \in NodeType, n.type \in Leaf, n.name = n.type, Follows(n),
         doc' = Append(doc, n), pflags' = pflags, NEW id, id = Len(doc) + 1, Special(id, n)
  PROVE  \E top, p, m : Adds(id, n, top, p) /\ Restacks(id, n, top, m)
<1>k. n.type \notin Dropped
  BY DEF Special, Dropped
<1>p. PICK st, m, top :
        /\ st = checkDepth(n.depth) /\ m = Len(st) /\ Last(st) = st[m] /\ top = st[m].slot
        /\ st \in Seq(FrameType) /\ m \in 1..Len(stack) /\ m \in Nat \ {0}
        /\ st[m] \in FrameType /\ \A i \in 1..m : st[i] = stack[i]
        /\ IF n.depth = 0 THEN m = Len(stack) /\ (n.type = "element" => m = 1)
           ELSE m = n.depth + 1
        /\ top \in DOMAIN heap /\ heap[top] \in ValueType
        /\ (ParentOf(top, id) \/ Misplaced(id))'
  BY <1>k, TailFacts
<1>2. /\ m \in 1..m /\ st[m] = stack[m] /\ top = stack[m].slot
      /\ \A i \in 1..m : i = m \/ i \in 1..(m - 1)
  BY <1>p
<1>x. PICK x : x = heap[top]
  OBVIOUS
<1>v. x \in ValueType
  BY <1>p, <1>x
<1>c. PICK count : count = Counted(st[m], x)
  OBVIOUS
<1>y. PICK y : y = SetKey(AsHash(x), Entry(<<n.type, count[n.type]>>, id, <<>>))
  OBVIOUS
<1> DEFINE next == [count EXCEPT ![n.type] = @ + 1]
<1>3. /\ n.type = "comment" => XPF_ADD_COMMENTS
      /\ heap' = [heap EXCEPT ![top] = y] /\ stack' = Recount(st, next)
  BY <1>p, <1>x, <1>c, <1>y DEF Special
<1>4. /\ id \in Nat /\ Len(doc') = id /\ doc'[id] = n
      /\ \A i \in 1..Len(doc) : doc'[i] = doc[i]
      /\ 1..Len(doc') = 1..Len(doc) \cup {id}
  BY DocAdded
<1>5. /\ count \in [Leaf -> Nat] /\ next \in [Leaf -> Nat] /\ next[n.type] = count[n.type] + 1
      /\ \A kind \in Leaf : next[kind] >= count[kind]
  <2>1. count \in [Leaf -> Nat]
    BY <1>p, <1>c, CountedFacts
  <2> QED
    BY <2>1
<1> HIDE DEF next
<1>6. \A k \in 1..Len(Entries(x)) :
        Entries(x)[k].key[1] \in Leaf => Entries(x)[k].key[2] < count[Entries(x)[k].key[1]]
  <2>1. \A k \in 1..Len(Entries(heap[top])) :
          Entries(heap[top])[k].key[1] \in Leaf =>
            Entries(heap[top])[k].key[2] < Counted(stack[m], heap[top])[Entries(heap[top])[k].key[1]]
    BY <1>p, <1>2 DEF Counters, Place, EntryAt
  <2>2. Counted(stack[m], heap[top]) = count
    BY <1>x, <1>c, <1>2
  <2> QED
    BY <1>x, <2>1, <2>2, Zenon
<1>7. \A k \in 1..Len(Entries(x)) : Entries(x)[k].key # <<n.type, count[n.type]>>
  <2> SUFFICES ASSUME NEW k \in 1..Len(Entries(x)), Entries(x)[k].key = <<n.type, count[n.type]>>
               PROVE  FALSE
    OBVIOUS
  <2>1. Entries(x)[k].key[1] = n.type /\ Entries(x)[k].key[2] = count[n.type]
    OBVIOUS
  <2>2. count[n.type] < count[n.type]
    BY <1>6, <2>1
  <2>3. count[n.type] \in Nat
    BY <1>5
  <2> QED
    BY <2>2, <2>3
<1>8. count[n.type] \in Nat
  BY <1>5
<1>9. /\ y \in ValueType /\ y.hash /\ y.text = 0
      /\ Grown(Entries(x), Entries(y), Len(Entries(y)), id, n.type)
      /\ Len(Entries(y)) = Len(Entries(x)) + 1
      /\ Entries(y)[Len(Entries(y))].key = <<n.type, count[n.type]>>
  <2>1. id \in Nat
    BY <1>4
  <2>2. PICK e : e = Entry(<<n.type, count[n.type]>>, id, <<>>)
    OBVIOUS
  <2>3. /\ e \in EntryType /\ e.key = <<n.type, count[n.type]>> /\ e.key[1] = n.type
        /\ Contents(e) = {id} /\ Len(e.slots) <= 1
    BY <1>8, <2>1, <2>2 DEF Entry, EntryType, Contents
  <2>4. \A k \in 1..Len(Entries(x)) : Entries(x)[k].key # e.key
    BY <1>7, <2>3, Zenon
  <2>5. y = SetKey(AsHash(x), e)
    BY <1>y, <2>2, Zenon
  <2>6. /\ y \in ValueType /\ y.hash /\ y.text = 0
        /\ Grown(Entries(x), Entries(y), Len(Entries(y)), id, n.type)
        /\ Entries(y) = Append(Entries(x), e)
    <3>1. /\ e \in EntryType /\ e.key[1] = n.type /\ Contents(e) = {id} /\ Len(e.slots) <= 1
          /\ Entries(x) \in Seq(EntryType)
      BY <1>v, <2>3, HashFacts
    <3>2. y \in ValueType /\ y.hash /\ y.text = 0 /\ Entries(y) = Append(Entries(x), e)
      BY <1>v, <2>4, <2>5, <3>1, LeafAdded
    <3>3. Grown(Entries(x), Append(Entries(x), e), Len(Entries(x)) + 1, id, n.type)
      BY <2>4, <3>1, NewEntry
    <3>4. Len(Append(Entries(x), e)) = Len(Entries(x)) + 1
      BY <3>1
    <3> QED
      BY <3>2, <3>3, <3>4
  <2>7. /\ Len(Append(Entries(x), e)) = Len(Entries(x)) + 1
        /\ Append(Entries(x), e)[Len(Entries(x)) + 1] = e
    <3>1. Entries(x) \in Seq(EntryType)
      BY <1>v, HashFacts
    <3> QED
      BY <2>3, <3>1
  <2> QED
    BY <2>3, <2>6, <2>7
<1>10. PICK p : p = Len(Entries(y))
  OBVIOUS
<1>11. n.type # "element"
  BY DEF Leaf
<1>12. heap' \in [{0} \cup {i \in 1..Len(doc') : doc'[i].type = "element"} -> ValueType]
  <2>1. {i \in 1..Len(doc') : doc'[i].type = "element"} = {i \in 1..Len(doc) : doc[i].type = "element"}
    BY <1>4, <1>11
  <2> QED
    BY <1>3, <1>9, <2>1 DEF Typed
<1>13. heap'[top] = y /\ \A s \in DOMAIN heap : s # top => heap'[s] = heap[s]
  BY <1>p, <1>2, <1>3
<1>14. Grown(Entries(heap[top]), Entries(heap'[top]), p, id, n.name)
  BY <1>p, <1>x, <1>c, <1>y, <1>9, <1>10, <1>13, Zenon
<1>15. Adds(id, n, top, p)
  BY <1>p, <1>2, <1>3, <1>9, <1>10, <1>11, <1>12, <1>13, <1>14 DEF Adds, Leaf, Dropped
<1>16. m \in Nat /\ m \in 1..m /\ \A i \in 1..m : i = m \/ i \in 1..(m - 1)
  BY <1>p, <1>2 DEF Typed
<1>17. /\ stack' \in Seq(FrameType) /\ Len(stack') = m
       /\ \A i \in 1..(m - 1) : stack'[i] = st[i]
       /\ stack'[m].slot = st[m].slot /\ stack'[m].depth = st[m].depth
       /\ stack'[m].count = next
  <2>1. st \in Seq(FrameType) /\ m = Len(st) /\ Len(st) >= 1
    BY <1>p
  <2>2. next \in [Leaf -> Nat]
    BY <1>5
  <2>3. stack' = Recount(st, next)
    BY <1>3
  <2> HIDE DEF next
  <2>4. LET after == Recount(st, next)
            l == Len(st)
        IN  /\ after \in Seq(FrameType) /\ Len(after) = l
            /\ \A i \in 1..(l - 1) : after[i] = st[i]
            /\ after[l].slot = st[l].slot /\ after[l].depth = st[l].depth
            /\ after[l].count = next
    BY <2>1, <2>2, RecountFacts
  <2> QED
    BY <2>1, <2>3, <2>4
<1>18. /\ \A i \in 1..m : stack'[i].slot = stack[i].slot /\ stack'[i].depth = stack[i].depth
       /\ \A i \in 1..(m - 1) : stack'[i] = stack[i]
  <2>1. \A i \in 1..m : st[i] = stack[i]
    BY <1>p
  <2>2. \A i \in 1..(m - 1) : i \in 1..m /\ stack'[i] = stack[i]
    BY <1>16, <1>17, <2>1
  <2>3. stack'[m].slot = stack[m].slot /\ stack'[m].depth = stack[m].depth
    BY <1>16, <1>17, <2>1
  <2> QED
    BY <1>16, <2>2, <2>3
<1>19. ASSUME NEW k \in Place(top)', EntryAt(top, k)'.key[1] \in Leaf
       PROVE  EntryAt(top, k)'.key[2]
                < Counted(stack'[m], heap'[top])[EntryAt(top, k)'.key[1]]
  <2>1. Counted(stack'[m], heap'[top]) = next
    <3>1. stack'[m] \in FrameType
      BY <1>16, <1>17
    <3> QED
      BY <1>9, <1>13, <1>17, <3>1, CountedFacts
  <2>2. EntryAt(top, k)' = Entries(y)[k]
    BY <1>13 DEF EntryAt
  <2>3. CASE k = p
    <3>1. EntryAt(top, k)'.key = <<n.type, count[n.type]>>
      BY <1>9, <1>10, <2>2, <2>3
    <3>2. EntryAt(top, k)'.key[1] = n.type /\ EntryAt(top, k)'.key[2] = count[n.type]
      BY <3>1
    <3> QED
      BY <1>5, <1>8, <2>1, <3>2
  <2>4. CASE k # p
    <3>1. k \in 1..Len(Entries(x)) /\ Entries(y)[k] = Entries(x)[k]
      BY <1>9, <1>10, <1>13, <2>4 DEF Grown, Place
    <3> DEFINE key == Entries(x)[k].key
    <3>2. key[1] \in Leaf /\ EntryAt(top, k)'.key = key
      BY <1>19, <2>2, <3>1
    <3>3. key[2] < count[key[1]]
      BY <1>6, <3>1, <3>2
    <3>4. Entries(x) \in Seq(EntryType)
      BY <1>v, HashFacts
    <3>5. Entries(x)[k] \in EntryType
      BY <3>1, <3>4
    <3>6. key[2] \in Nat
      BY <3>5 DEF EntryType
    <3> HIDE DEF key
    <3>7. count[key[1]] \in Nat /\ next[key[1]] \in Nat /\ next[key[1]] >= count[key[1]]
      BY <1>5, <3>2
    <3>8. key[2] < next[key[1]]
      BY <3>3, <3>6, <3>7
    <3> QED
      BY <2>1, <3>2, <3>8
  <2> QED
    BY <2>3, <2>4
<1>f. \A k \in Place(top)' :
        LET key == EntryAt(top, k)'.key
        IN  key[1] \in Leaf => key[2] < Counted(stack'[m], heap'[top])[key[1]]
  BY <1>19
<1>20. Restacks(id, n, top, m)
  BY <1>p, <1>2, <1>11, <1>17, <1>18, <1>f DEF Restacks
<1> QED
  BY <1>15, <1>20

-----------------------------------------------------------------------------
(* The invariant *)

LEMMA NodeAdded ==
  ASSUME XmlAssumption, XmlInv, NEW id, NEW n, NEW top, NEW p, NEW m,
         Adds(id, n, top, p), Restacks(id, n, top, m)
  PROVE  XmlInv'
<1>1. /\ Typed /\ Shape /\ KeysDiffer /\ Path /\ Linked /\ Counters /\ AllOpen
      /\ EachInItsPlace /\ NoneTwice /\ NothingMadeUp /\ AttributesKept /\ InOrder
  BY DEF XmlInv, NothingLost
<1>2. Typed'
  <2>1. n \in NodeType /\ doc' = Append(doc, n) /\ id = Len(doc) + 1 /\ pflags' = pflags
    BY DEF Adds
  <2>2. doc' \in Seq(NodeType)
    BY <1>1, <2>1, DocAdded
  <2>3. heap' \in [{0} \cup {i \in 1..Len(doc') : doc'[i].type = "element"} -> ValueType]
    BY DEF Adds
  <2>4. stack' \in Seq(FrameType)
    BY DEF Restacks
  <2> QED
    BY <1>1, <2>1, <2>2, <2>3, <2>4 DEF Typed
<1>3. Shape'
  <2> SUFFICES ASSUME NEW s \in DOMAIN heap'
               PROVE  IF heap'[s].hash THEN heap'[s].text = 0 ELSE heap'[s].entries = <<>>
    BY DEF Shape
  <2>1. CASE s = top
    BY <2>1 DEF Adds
  <2>2. CASE s \in DOMAIN heap /\ s # top
    BY <1>1, <2>2 DEF Adds, Shape
  <2>3. CASE s \notin DOMAIN heap
    <3>1. /\ Len(doc') = id /\ doc'[id] = n /\ \A i \in 1..Len(doc) : doc'[i] = doc[i]
          /\ 1..Len(doc') = 1..Len(doc) \cup {id}
      BY <1>1, DocAdded DEF Adds
    <3>2. s = id /\ n.type = "element"
      BY <1>1, <2>3, <3>1 DEF Typed, Adds
    <3>3. heap'[s] = Own(n) /\ n \in NodeType
      BY <3>2 DEF Adds
    <3> QED
      BY <3>3, OwnEntries
  <2> QED
    BY <2>1, <2>2, <2>3
<1>4. KeysDiffer'
  BY <1>1, KeysDifferStep
<1>5. Path'
  BY <1>1, PathStep
<1>6. Linked'
  BY <1>1, LinkedStep
<1>7. Counters'
  BY <1>1, CountersStep
<1>8. AllOpen'
  BY <1>1, AllOpenStep
<1>9. EachInItsPlace'
  BY <1>1, EachInItsPlaceStep
<1>10. NoneTwice'
  BY <1>1, NoneTwiceStep
<1>11. NothingMadeUp'
  BY <1>1, NothingMadeUpStep
<1>12. AttributesKept'
  BY <1>1, AttributesKeptStep
<1>13. InOrder'
  BY <1>1, InOrderStep
<1> QED
  BY <1>2, <1>3, <1>4, <1>5, <1>6, <1>7, <1>8, <1>9, <1>10, <1>11, <1>12, <1>13
  DEF XmlInv, NothingLost

\* The attributes stay when the values do.
LEMMA AttributesStay ==
  ASSUME AttributesKept, heap' = heap, \A s \in DOMAIN heap : s = 0 \/ doc'[s] = doc[s]
  PROVE  AttributesKept'
<1> DEFINE before(s) == {EntryAt(s, k).val : k \in {l \in Place(s) : EntryAt(s, l).key[1] = "attributes"}}
           after(s) == {EntryAt(s, k)'.val : k \in {l \in Place(s)' : EntryAt(s, l)'.key[1] = "attributes"}}
<1>1. \A s : Place(s)' = Place(s) /\ \A k : EntryAt(s, k)' = EntryAt(s, k)
  BY DEF Place, EntryAt
<1>2. \A s \in DOMAIN heap : after(s) = before(s)
  BY <1>1
<1>3. \A s \in DOMAIN heap : before(s) = IF s = 0 \/ doc[s].val = 0 THEN {} ELSE {doc[s].val}
  BY DEF AttributesKept
<1>4. \A s \in DOMAIN heap' : after(s) = IF s = 0 \/ doc'[s].val = 0 THEN {} ELSE {doc'[s].val}
  <2> HIDE DEF after, before
  <2> QED
    BY <1>2, <1>3
<1> QED
  BY <1>4 DEF AttributesKept

\* So does where the nodes are.
LEMMA NoneTwiceStays ==
  ASSUME NoneTwice, heap' = heap
  PROVE  NoneTwice'
<1>1. /\ \A s : Place(s)' = Place(s) /\ Held(s)' = Held(s)
      /\ \A s, k : EntryAt(s, k)' = EntryAt(s, k)
  BY DEF Held, Place, EntryAt
<1> QED
  BY <1>1, Zenon DEF NoneTwice

\* A node that is dropped changes the document only, and so does a comment that is
\* not asked for.
LEMMA NodeSkipped ==
  ASSUME XmlInv, NEW n \in NodeType, Follows(n), doc' = Append(doc, n), pflags' = pflags,
         Skipped(n)
  PROVE  XmlInv'
<1>1. /\ Typed /\ Shape /\ KeysDiffer /\ Path /\ Linked /\ Counters /\ AllOpen
      /\ EachInItsPlace /\ NoneTwice /\ NothingMadeUp /\ AttributesKept /\ InOrder
  BY DEF XmlInv, NothingLost
<1>2. /\ n.type \in Dropped \/ (n.type = "comment" /\ ~XPF_ADD_COMMENTS)
      /\ n.type # "element" /\ heap' = heap /\ stack' = stack
  BY DEF Skipped, Dropped
<1>s. /\ \A s : Place(s)' = Place(s) /\ Held(s)' = Held(s)
      /\ \A s, k : EntryAt(s, k)' = EntryAt(s, k)
  BY <1>2 DEF Held, Place, EntryAt
<1>3. PICK id : id = Len(doc) + 1
  OBVIOUS
<1>4. /\ id \in Nat /\ Len(doc') = id /\ doc'[id] = n /\ doc' \in Seq(NodeType)
      /\ 1..Len(doc') = 1..Len(doc) \cup {id} /\ id \notin 1..Len(doc)
      /\ \A i \in 1..Len(doc) : i \in 1..Len(doc') /\ i < id /\ doc'[i] = doc[i]
  BY <1>1, <1>3, DocAdded
<1>5. Typed'
  <2>1. {i \in 1..Len(doc') : doc'[i].type = "element"} = {i \in 1..Len(doc) : doc[i].type = "element"}
    BY <1>2, <1>4
  <2> QED
    BY <1>1, <1>2, <1>4, <2>1 DEF Typed
<1>6. Shape'
  BY <1>1, <1>2 DEF Shape
<1>7. KeysDiffer'
  BY <1>1, <1>2 DEF KeysDiffer, Place, EntryAt
<1>8. Path'
  <2>1. \A i \in 2..Len(stack) : stack[i].slot \in Nat
    BY <1>1 DEF Path
  <2> QED
    BY <1>1, <1>2, <1>4, <2>1 DEF Path
<1>9. Linked'
  BY <1>1, <1>2 DEF Linked, Place, EntryAt
<1>10. Counters'
  BY <1>1, <1>2 DEF Counters, Place, EntryAt
<1>11. AllOpen'
  <2>1. Last(doc') = n /\ n.depth \in Nat /\ Len(stack) \in Nat
    BY <1>1, <1>4 DEF Last, NodeType, Typed
  <2>2. Len(stack) >= n.depth + 1
    BY <1>1, DeepEnough
  <2>3. (\A i \in 1..Len(doc') : doc'[i].type # "element") => Len(stack) = 1
    BY <1>1, <1>4 DEF AllOpen
  <2> QED
    BY <1>2, <2>1, <2>2, <2>3 DEF AllOpen
<1>12. EachInItsPlace'
  <2> SUFFICES ASSUME NEW i \in 1..Len(doc'), Kept(i)'
               PROVE  \E s \in DOMAIN heap' : i \in Held(s)' /\ (ParentOf(s, i) \/ Misplaced(i))'
    BY DEF EachInItsPlace
  <2>1. i \in 1..Len(doc) /\ Kept(i)
    BY <1>2, <1>4 DEF Kept, XPF_ADD_COMMENTS
  <2>2. PICK s \in DOMAIN heap : i \in Held(s) /\ (ParentOf(s, i) \/ Misplaced(i))
    BY <1>1, <2>1 DEF EachInItsPlace
  <2>3. (ParentOf(s, i) \/ Misplaced(i))'
    BY <1>1, <2>1, <2>2, PlacesStay
  <2>4. i \in Held(s)'
    BY <1>2, <2>2 DEF Held, Place, EntryAt
  <2> QED
    BY <1>2, <2>3, <2>4
<1>13. NoneTwice'
  BY <1>1, <1>2, NoneTwiceStays
<1>14. NothingMadeUp'
  <2> SUFFICES ASSUME NEW s \in DOMAIN heap', NEW k \in Place(s)', NEW i \in Contents(EntryAt(s, k)')
               PROVE  i \in 1..Len(doc') /\ Kept(i)' /\ doc'[i].name = EntryAt(s, k)'.key[1]
    BY DEF NothingMadeUp
  <2>1. s \in DOMAIN heap /\ k \in Place(s) /\ EntryAt(s, k)' = EntryAt(s, k)
    BY <1>2 DEF Place, EntryAt
  <2>2. i \in 1..Len(doc) /\ Kept(i) /\ doc[i].name = EntryAt(s, k).key[1]
    BY <1>1, <2>1 DEF NothingMadeUp
  <2> QED
    BY <1>2, <1>4, <2>1, <2>2 DEF Kept, XPF_ADD_COMMENTS
<1>15. AttributesKept'
  <2>1. \A s \in DOMAIN heap : s = 0 \/ doc'[s] = doc[s]
    BY <1>1, <1>4 DEF Typed
  <2> QED
    BY <1>1, <1>2, <2>1, AttributesStay
<1>16. InOrder'
  BY <1>1, <1>2, <1>s DEF InOrder, XPF_PRESERVE_ORDER
<1> QED
  BY <1>5, <1>6, <1>7, <1>8, <1>9, <1>10, <1>11, <1>12, <1>13, <1>14, <1>15, <1>16
  DEF XmlInv, NothingLost

LEMMA XmlInvInit ==
  ASSUME XmlInit
  PROVE  XmlInv
<1>1. /\ pflags \in Flags /\ doc = <<>> /\ Len(doc) = 0 /\ 1..Len(doc) = {}
      /\ heap = [s \in {0} |-> Nothing] /\ stack = <<Frame(0, -1, NoCount)>>
  BY DEF XmlInit
<1>2. DOMAIN heap = {0} /\ heap[0] = Nothing /\ Len(Entries(heap[0])) = 0
  BY <1>1 DEF Entries, Nothing, Value, IsString
<1>3. \A s \in DOMAIN heap : Place(s) = {}
  BY <1>2 DEF Place
<1>4. Nothing \in ValueType /\ ~Nothing.hash /\ Nothing.entries = <<>>
  BY DEF Nothing, Value, ValueType
<1> DEFINE f == Frame(0, -1, NoCount)
<1>5. f \in FrameType /\ f.slot = 0 /\ f.depth = -1
  BY DEF Frame, FrameType, NoCount
<1> HIDE DEF f
<1>6. stack \in Seq(FrameType) /\ Len(stack) = 1 /\ stack[1] = f
  BY <1>1, <1>5 DEF f
<1>7. 1..Len(stack) = {1} /\ 2..Len(stack) = {} /\ 1..(Len(stack) - 1) = {}
  BY <1>6
<1>8. Typed
  <2>1. heap \in [{0} \cup {i \in 1..Len(doc) : doc[i].type = "element"} -> ValueType]
    BY <1>1, <1>4
  <2> QED
    BY <1>1, <1>6, <2>1 DEF Typed
<1>9. Shape /\ KeysDiffer
  BY <1>2, <1>3, <1>4 DEF Shape, KeysDiffer
<1>10. Path /\ Linked
  BY <1>5, <1>6, <1>7 DEF Path, Linked
<1>11. Counters
  BY <1>2, <1>3, <1>5, <1>6, <1>7 DEF Counters
<1>12. AllOpen
  BY <1>1, <1>6 DEF AllOpen
<1>13. EachInItsPlace /\ NothingMadeUp /\ InOrder
  BY <1>1, <1>3 DEF EachInItsPlace, NothingMadeUp, InOrder
<1>14. NoneTwice
  BY <1>2, <1>3 DEF NoneTwice
<1>15. AttributesKept
  BY <1>2, <1>3 DEF AttributesKept
<1> QED
  BY <1>8, <1>9, <1>10, <1>11, <1>12, <1>13, <1>14, <1>15 DEF XmlInv, NothingLost

LEMMA XmlInvDeliver ==
  ASSUME XmlAssumption, XmlInv, NEW id, id = Len(doc) + 1, NEW n \in NodeType, Deliver(id, n),
         IF n.type = "element" THEN n.name \in ElementName
         ELSE n.type \in Leaf \cup Dropped /\ n.name = n.type
  PROVE  XmlInv'
<1>1. Typed /\ Path /\ AllOpen /\ Counters
  BY DEF XmlInv
<1>2. Follows(n) /\ doc' = Append(doc, n) /\ pflags' = pflags
  BY DEF Deliver
<1>3. CASE Element(id, n)
  <2>1. n.name \in ElementName
    BY <1>3 DEF Element
  <2>2. PICK top, p, m : Adds(id, n, top, p) /\ Restacks(id, n, top, m)
    BY <1>1, <1>2, <1>3, <2>1, ElementStep
  <2> QED
    BY <2>2, NodeAdded
<1>4. CASE String(id, n)
  <2>1. n.name = n.type
    BY <1>4 DEF String
  <2>2. PICK top, p, m : Adds(id, n, top, p) /\ Restacks(id, n, top, m)
    BY <1>1, <1>2, <1>4, <2>1, StringStep
  <2> QED
    BY <2>2, NodeAdded
<1>5. CASE Special(id, n)
  <2>1. n.type \in Leaf /\ n.name = n.type
    BY <1>5 DEF Special, Leaf
  <2>2. PICK top, p, m : Adds(id, n, top, p) /\ Restacks(id, n, top, m)
    BY <1>1, <1>2, <1>5, <2>1, SpecialStep
  <2> QED
    BY <2>2, NodeAdded
<1>6. CASE Skipped(n)
  BY <1>2, <1>6, NodeSkipped
<1> QED
  BY <1>3, <1>4, <1>5, <1>6 DEF Deliver

LEMMA XmlInvNext ==
  ASSUME XmlAssumption, XmlInv, [getXmlData]_xvars
  PROVE  XmlInv'
<1>1. CASE UNCHANGED xvars
  <2>1. pflags' = pflags /\ doc' = doc /\ heap' = heap /\ stack' = stack
    BY <1>1 DEF xvars
  <2>2. /\ Typed /\ Shape /\ KeysDiffer /\ Path /\ Linked /\ Counters /\ AllOpen
        /\ EachInItsPlace /\ NoneTwice /\ NothingMadeUp /\ AttributesKept /\ InOrder
    BY DEF XmlInv, NothingLost
  <2>3. Typed' /\ Shape' /\ KeysDiffer'
    BY <2>1, <2>2 DEF Typed, Shape, KeysDiffer, Place, EntryAt
  <2>4. Path' /\ Linked' /\ Counters' /\ AllOpen'
    BY <2>1, <2>2 DEF Path, Linked, Counters, AllOpen, Place, EntryAt
  <2>5. EachInItsPlace' /\ NothingMadeUp'
    <3>1. \A s : Held(s)' = Held(s) /\ Place(s)' = Place(s)
      BY <2>1 DEF Held, Place, EntryAt
    <3>2. \A s, k : EntryAt(s, k)' = EntryAt(s, k)
      BY <2>1 DEF EntryAt
    <3>3. \A i : (Kept(i)' <=> Kept(i)) /\ (Misplaced(i)' <=> Misplaced(i))
      BY <2>1 DEF Kept, Misplaced, XPF_ADD_COMMENTS
    <3>4. \A s, i : ParentOf(s, i)' <=> ParentOf(s, i)
      BY <2>1 DEF ParentOf
    <3>5. EachInItsPlace'
      BY <2>1, <2>2, <3>1, <3>3, <3>4 DEF EachInItsPlace
    <3> QED
      BY <2>1, <2>2, <3>1, <3>2, <3>3, <3>5 DEF NothingMadeUp
  <2>6. NoneTwice'
    BY <2>1, <2>2, NoneTwiceStays
  <2>7. InOrder'
    BY <2>1, <2>2 DEF InOrder, Place, EntryAt, XPF_PRESERVE_ORDER
  <2>8. AttributesKept'
    BY <2>1, <2>2, AttributesStay
  <2> QED
    BY <2>3, <2>4, <2>5, <2>6, <2>7, <2>8 DEF XmlInv, NothingLost
<1>2. CASE getXmlData
  <2>1. PICK id : id = Len(doc) + 1
    OBVIOUS
  <2>2. id \in Nat
    BY <2>1 DEF XmlInv, Typed
  <2>3. CASE \E name \in ElementName, depth \in 0..MaxDepth, val \in {0, id} :
               Deliver(id, Node("element", name, depth, val))
    <3>1. PICK name \in ElementName, depth \in 0..MaxDepth, val \in {0, id} :
            Deliver(id, Node("element", name, depth, val))
      BY <2>3
    <3>2. PICK n : n = Node("element", name, depth, val)
      OBVIOUS
    <3>3. n \in NodeType /\ n.type = "element" /\ n.name = name
      BY <2>2, <3>2 DEF Node, NodeType
    <3>4. Deliver(id, n)
      BY <3>1, <3>2
    <3> QED
      BY <2>1, <3>3, <3>4, XmlInvDeliver
  <2>4. CASE \E type \in Leaf \cup Dropped, depth \in 0..MaxDepth :
               Deliver(id, Node(type, type, depth, id))
    <3>1. PICK type \in Leaf \cup Dropped, depth \in 0..MaxDepth :
            Deliver(id, Node(type, type, depth, id))
      BY <2>4
    <3>2. PICK n : n = Node(type, type, depth, id)
      OBVIOUS
    <3>3. n \in NodeType /\ n.type = type /\ n.name = type /\ type # "element"
      BY <2>2, <3>2 DEF Node, NodeType, Leaf, Dropped
    <3>4. Deliver(id, n)
      BY <3>1, <3>2
    <3> QED
      BY <2>1, <3>3, <3>4, XmlInvDeliver
  <2> QED
    BY <1>2, <2>1, <2>3, <2>4 DEF getXmlData
<1> QED
  BY <1>1, <1>2

\* getXmlData() keeps the stack, the counters and the values consistent with
\* the document.
THEOREM XmlInvariance == XmlSpec => []XmlInv
<1>1. XmlInit => XmlInv
  BY XmlInvInit
<1>2. XmlInv /\ [getXmlData]_xvars => XmlInv'
  BY XmlAssumption, XmlInvNext
<1> QED
  BY <1>1, <1>2, PTL DEF XmlSpec

\* The stack leads from the result to where the last node went, and the counters
\* of its frames are free: QoreXmlReader::getXmlData() with xml_stack.
THEOREM StackIsPath == XmlSpec => []XmlTypeOK
<1>1. XmlInv => XmlTypeOK
  <2> SUFFICES ASSUME XmlInv PROVE XmlTypeOK
    OBVIOUS
  <2>1. Typed /\ Shape /\ Path /\ Linked /\ Counters
    BY DEF XmlInv
  <2>2. Len(stack) \in Nat /\ stack \in Seq(FrameType) /\ stack # <<>> /\ stack[1].slot = 0
    BY <2>1 DEF Typed, Path
  <2>3. DOMAIN heap = {0} \cup {i \in 1..Len(doc) : doc[i].type = "element"}
    BY <2>1 DEF Typed
  <2>4. ASSUME NEW i \in 1..Len(stack)
        PROVE  stack[i].slot \in DOMAIN heap /\ stack[i].depth = i - 2
    <3>1. i = 1 \/ i \in 2..Len(stack)
      BY <2>2
    <3> QED
      BY <2>1, <2>3, <3>1 DEF Path
  <2>5. ASSUME NEW i \in 1..Len(stack), NEW kind \in Leaf
        PROVE  <<kind, stack[i].count[kind]>> \notin Keys(heap[stack[i].slot])
    <3>1. PICK x : x = heap[stack[i].slot]
      OBVIOUS
    <3>2. PICK c : c = stack[i].count[kind]
      OBVIOUS
    <3>3. stack[i] \in FrameType
      BY <2>2
    <3>4. c \in Nat
      BY <3>2, <3>3 DEF FrameType
    <3>5. IF x.hash THEN x.text = 0 ELSE x.entries = <<>>
      BY <2>1, <2>4, <3>1 DEF Shape
    <3>6. CASE ~x.hash
      <4>1. Len(x.entries) = 0
        BY <3>5, <3>6
      <4> QED
        BY <3>1, <4>1 DEF Keys
    <3>7. CASE x.hash
      <4> SUFFICES ASSUME NEW k \in 1..Len(x.entries), x.entries[k].key = <<kind, c>>
                   PROVE  FALSE
        BY <3>1, <3>2 DEF Keys
      <4>1. Entries(x) = x.entries /\ Counted(stack[i], x) = stack[i].count
        BY <3>7 DEF Entries, IsString, Counted
      <4>2. x.entries[k].key[1] = kind /\ x.entries[k].key[2] = c
        OBVIOUS
      <4>3. \A l \in 1..Len(Entries(x)) : Entries(x)[l].key[1] \in Leaf =>
              Entries(x)[l].key[2] < Counted(stack[i], x)[Entries(x)[l].key[1]]
        BY <2>1, <3>1 DEF Counters, Place, EntryAt
      <4>4. c < stack[i].count[kind]
        BY <4>1, <4>2, <4>3
      <4> QED
        BY <3>2, <3>4, <4>4
    <3> QED
      BY <3>6, <3>7
  <2> QED
    BY <2>1, <2>2, <2>4, <2>5 DEF XmlTypeOK, Linked
<1> QED
  BY <1>1, XmlInvariance, PTL

\* With any flags, the result has every element, text, CDATA section and (if they
\* are asked for) comment once, in the value of the element around it, and no other
\* node: no key is overwritten, and no node goes to a frame that checkDepth() had to
\* leave.  A comment after the root element goes to another value, and processing
\* instructions and whitespace are lost; what is kept is the same without them.
THEOREM NothingIsLost == XmlSpec => []NothingLost
<1>1. XmlInv => NothingLost
  BY DEF XmlInv
<1> QED
  BY <1>1, XmlInvariance, PTL
=============================================================================
