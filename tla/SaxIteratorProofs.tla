------------------------- MODULE SaxIteratorProofs -------------------------
(***************************************************************************)
(* Proofs about SaxIterator, for every document, source and sequence of    *)
(* calls: what valid() vouches for is wanted, and the iterator delivers    *)
(* what ElementIterator promises.                                          *)
(*                                                                         *)
(* The argument: while a pass goes on, the reader stands on a wanted       *)
(* element, no malformed node is behind it, and element_depth is the depth *)
(* of the first wanted one; then the next place where the loop of next()   *)
(* stops is the next wanted element, or there is none.                     *)
(***************************************************************************)
EXTENDS SaxIterator, FiniteSetTheorems, WellFoundedInduction, TLAPS

-----------------------------------------------------------------------------
(* The inductive invariant *)

\* What the elements are that have the name before the first error, and which of
\* them is the first.
Good(k) == \A j \in 1..k : doc[j].type # "bad"
Named == {k \in 1..Len(doc) : Good(k) /\ doc[k].type = "element" /\ doc[k].wanted}
FirstNamed(j) == j \in Named /\ \A i \in Named : j <= i

\* The depth that is kept is the one that counts.
DepthKnown ==
  /\ element_depth # -1 => \E j \in Named : FirstNamed(j) /\ doc[j].depth = element_depth
  /\ val /\ reader.pos # 0 => element_depth # -1

\* No reader gets past a malformed node.
NothingBadPassed == \A j \in 1..Len(doc) : j < reader.pos => doc[j].type # "bad"

\* A pass ends at the end of the document or at a malformed node.
PassOver ==
  ~val /\ reader.pos # 0 => reader.pos = Len(doc) + 1 \/ doc[reader.pos].type = "bad"

ClosedAtStart == ~reader.open => reader.pos = 0 /\ kind # "string"

SaxInv ==
  /\ SaxTypeOK /\ ValidIsWanted
  /\ DepthKnown /\ NothingBadPassed /\ PassOver /\ ClosedAtStart

-----------------------------------------------------------------------------
(* Documents *)

LEMMA DocumentFacts ==
  ASSUME doc \in Documents
  PROVE  /\ Len(doc) \in Nat
         /\ \A k \in 1..Len(doc) : doc[k] \in Node /\ doc[k].depth \in Nat /\ doc[k].depth # -1
<1>1. doc \in Seq(Node)
  BY SaxAssumption
<1>2. \A k \in 1..Len(doc) : doc[k] \in Node
  BY <1>1
<1>3. \A n \in Node : n.depth \in Nat /\ n.depth # -1
  BY DEF Node
<1> QED
  BY <1>1, <1>2, <1>3

LEMMA WantedFacts ==
  ASSUME doc \in Documents
  PROVE  /\ Wanted \subseteq Named
         /\ Named \subseteq 1..Len(doc)
         /\ \A k \in Named : k \in Wanted <=> \E j \in Named : FirstNamed(j) /\ doc[k].depth = doc[j].depth
BY DEF Wanted, Named, FirstNamed, Good

LEMMA FiniteWanted ==
  ASSUME doc \in Documents, NEW n
  PROVE  /\ IsFiniteSet(Wanted) /\ Cardinality(Wanted) \in Nat
         /\ IsFiniteSet({k \in Wanted : k <= n}) /\ Cardinality({k \in Wanted : k <= n}) \in Nat
<1>1. IsFiniteSet(1..Len(doc))
  BY DocumentFacts, FS_Interval
<1>2. Wanted \subseteq 1..Len(doc)
  BY WantedFacts
<1> QED
  BY <1>1, <1>2, FS_Subset, FS_CardinalityType

-----------------------------------------------------------------------------
(* Where the loop of next() stops *)

From(r) == IF r.pos \in 1..Len(doc) /\ doc[r.pos].type = "bad" THEN r.pos ELSE r.pos + 1
Hit(k) == doc[k].type = "bad" \/ Matches(doc, element_depth, k)

LEMMA LeastNatural ==
  ASSUME NEW S, S \subseteq Nat, S # {}
  PROVE  \E n \in S : \A m \in S : n <= m
<1>1. PICK n \in S : \A m \in S : ~ (<<m, n>> \in OpToRel(<, Nat))
  BY NatLessThanWellFounded, WFMin
<1>2. \A m \in S : ~ (m < n)
  BY <1>1 DEF OpToRel
<1> QED
  BY <1>2

LEMMA StopIsFirst ==
  ASSUME SaxTypeOK, NEW r, r.pos \in 0..(Len(doc) + 1)
  PROVE  LET k == Stop(r, element_depth)
         IN  /\ k \in 1..(Len(doc) + 1)
             /\ k <= Len(doc) => k >= From(r) /\ Hit(k)
             /\ \A j \in From(r)..Len(doc) : j < k => ~Hit(j)
<1> DEFINE hits == {k \in From(r)..Len(doc) : Hit(k)}
<1>1. Len(doc) \in Nat /\ From(r) \in Nat /\ From(r) >= 1
  BY DocumentFacts DEF SaxTypeOK, From
<1>2. Stop(r, element_depth)
        = IF hits = {} THEN Len(doc) + 1 ELSE CHOOSE k \in hits : \A j \in hits : k <= j
  BY DEF Stop, From, Hit
<1>3. CASE hits = {}
  <2>1. Stop(r, element_depth) = Len(doc) + 1
    BY <1>2, <1>3
  <2>2. \A j \in From(r)..Len(doc) : ~Hit(j)
    BY <1>3
  <2> QED
    BY <1>1, <2>1, <2>2
<1>4. CASE hits # {}
  <2>1. hits \in SUBSET Nat
    BY <1>1
  <2>2. \E k \in hits : \A j \in hits : k <= j
    BY <2>1, <1>4, LeastNatural
  <2>3. Stop(r, element_depth) \in hits /\ \A j \in hits : Stop(r, element_depth) <= j
    BY <1>2, <1>4, <2>2
  <2>4. \A j \in From(r)..Len(doc) : j < Stop(r, element_depth) => j \notin hits
    BY <1>1, <2>3
  <2> HIDE DEF hits
  <2>5. Stop(r, element_depth) \in From(r)..Len(doc) /\ Hit(Stop(r, element_depth))
    BY <2>3 DEF hits
  <2>6. \A j \in From(r)..Len(doc) : j < Stop(r, element_depth) => ~Hit(j)
    BY <2>4 DEF hits
  <2> QED
    BY <1>1, <2>5, <2>6
<1> QED
  BY <1>3, <1>4

\* A reader that begins a pass or goes on with one, and a reader whose pass is over.
InPass(r) == r.pos = 0 \/ (r.pos \in Wanted /\ element_depth # -1)
Over(r) == r.pos = Len(doc) + 1 \/ (r.pos \in 1..Len(doc) /\ doc[r.pos].type = "bad")

\* In a pass every wanted element that follows makes the loop stop.
LEMMA WantedIsHit ==
  ASSUME SaxTypeOK, DepthKnown, NEW w \in Wanted
  PROVE  Hit(w)
<1>1. w \in Named /\ w \in 1..Len(doc)
  BY WantedFacts DEF SaxTypeOK
<1>2. doc[w].type = "element" /\ doc[w].wanted
  BY <1>1 DEF Named
<1>3. ASSUME element_depth >= 0
      PROVE  doc[w].depth = element_depth
  <2>1. element_depth # -1
    BY <1>3
  <2>2. PICK j \in Named : FirstNamed(j) /\ doc[j].depth = element_depth
    BY <2>1 DEF DepthKnown
  <2>3. PICK i \in Named : FirstNamed(i) /\ doc[w].depth = doc[i].depth
    BY <1>1, WantedFacts DEF SaxTypeOK
  <2>4. i = j
    BY <2>2, <2>3, DocumentFacts, WantedFacts DEF FirstNamed, SaxTypeOK
  <2> QED
    BY <2>2, <2>3, <2>4
<1> QED
  BY <1>2, <1>3 DEF Hit, Matches

\* The loop stops at the next wanted element; where it stops elsewhere, there is none.
LEMMA NextWanted ==
  ASSUME SaxTypeOK, DepthKnown, NEW r, r.pos \in 0..(Len(doc) + 1), InPass(r)
  PROVE  LET k == Stop(r, element_depth)
             found == k <= Len(doc) /\ doc[k].type # "bad"
         IN  /\ k > r.pos
             /\ \A j \in 1..Len(doc) : j < k => doc[j].type # "bad"
             /\ \A w \in Wanted : w > r.pos => w >= k
             /\ found => /\ k \in Wanted /\ k \in Named
                         /\ element_depth = -1 => FirstNamed(k)
                         /\ element_depth # -1 => doc[k].depth = element_depth
             /\ ~found => \A w \in Wanted : w <= r.pos
<1> DEFINE k == Stop(r, element_depth)
<1>1. Len(doc) \in Nat /\ r.pos \in Nat /\ doc \in Documents
  BY DocumentFacts DEF SaxTypeOK
<1>2. /\ k \in 1..(Len(doc) + 1)
      /\ k <= Len(doc) => k >= From(r) /\ Hit(k)
      /\ \A j \in From(r)..Len(doc) : j < k => ~Hit(j)
  BY StopIsFirst
<1> HIDE DEF k
<1>3. \A j \in 1..Len(doc) : j <= r.pos => doc[j].type # "bad"
  <2>1. CASE r.pos = 0
    BY <2>1
  <2>2. CASE r.pos \in Wanted
    BY <1>1, <2>2, WantedFacts DEF Named, Good
  <2> QED
    BY <2>1, <2>2 DEF InPass
<1>4. From(r) = r.pos + 1 /\ r.pos <= Len(doc)
  BY <1>1, <1>3, WantedFacts DEF From, InPass
<1>5. k > r.pos
  BY <1>1, <1>2, <1>4
<1>6. \A j \in 1..Len(doc) : j < k => doc[j].type # "bad"
  <2> SUFFICES ASSUME NEW j \in 1..Len(doc), j < k
               PROVE  doc[j].type # "bad"
    OBVIOUS
  <2>1. CASE j <= r.pos
    BY <1>3, <2>1
  <2>2. CASE j > r.pos
    BY <1>1, <1>2, <1>4, <2>2 DEF Hit
  <2> QED
    BY <1>1, <2>1, <2>2
<1>7. \A w \in Wanted : w > r.pos => w >= k
  <2> SUFFICES ASSUME NEW w \in Wanted, w > r.pos, w < k
               PROVE  FALSE
    BY <1>1, <1>2, WantedFacts
  <2>1. w \in From(r)..Len(doc)
    BY <1>1, <1>4, WantedFacts
  <2> QED
    BY <1>2, <2>1, WantedIsHit
<1>8. ASSUME k <= Len(doc), doc[k].type # "bad"
      PROVE  /\ k \in Wanted /\ k \in Named
             /\ element_depth = -1 => FirstNamed(k)
             /\ element_depth # -1 => doc[k].depth = element_depth
  <2>1. k \in 1..Len(doc) /\ Matches(doc, element_depth, k)
    BY <1>1, <1>2, <1>8 DEF Hit
  <2>2. k \in Named
    <3>1. Good(k)
      BY <1>1, <1>6, <1>8, <2>1 DEF Good
    <3> QED
      BY <2>1, <3>1 DEF Named, Matches
  <2>3. ASSUME element_depth = -1
        PROVE  FirstNamed(k)
    <3>1. r.pos = 0
      BY <2>3 DEF InPass
    <3> SUFFICES ASSUME NEW i \in Named, i < k
                 PROVE  FALSE
      BY <1>1, <2>1, <2>2, WantedFacts DEF FirstNamed
    <3>2. i \in 1..Len(doc) /\ doc[i].type = "element" /\ doc[i].wanted
      BY DEF Named
    <3>3. Hit(i)
      BY <2>3, <3>2 DEF Hit, Matches
    <3>4. i \in From(r)..Len(doc)
      BY <1>4, <3>1, <3>2
    <3> QED
      BY <1>2, <3>3, <3>4
  <2>4. ASSUME element_depth # -1
        PROVE  doc[k].depth = element_depth /\ \E j \in Named : FirstNamed(j) /\ doc[k].depth = doc[j].depth
    <3>1. PICK j \in Named : FirstNamed(j) /\ doc[j].depth = element_depth
      BY <2>4 DEF DepthKnown
    <3>2. element_depth >= 0
      BY <3>1, DocumentFacts, WantedFacts DEF SaxTypeOK
    <3> QED
      BY <2>1, <3>1, <3>2 DEF Matches
  <2>5. k \in Wanted
    BY <1>1, <2>2, <2>3, <2>4, WantedFacts
  <2> QED
    BY <2>2, <2>3, <2>4, <2>5
<1>9. ASSUME ~(k <= Len(doc) /\ doc[k].type # "bad"), NEW w \in Wanted
      PROVE  w <= r.pos
  <2> SUFFICES ASSUME w > r.pos
               PROVE  FALSE
    BY <1>1, WantedFacts
  <2>1. w \in 1..Len(doc) /\ Good(w)
    BY WantedFacts, <1>1 DEF Named
  <2>2. w >= k
    BY <1>7
  <2>3. k \in 1..w /\ k <= Len(doc)
    BY <1>1, <1>2, <2>1, <2>2
  <2> QED
    BY <1>9, <2>1, <2>3 DEF Good
<1> QED
  BY <1>5, <1>6, <1>7, <1>8, <1>9 DEF k

\* After the pass the loop stops where it stands.
LEMMA StaysOver ==
  ASSUME SaxTypeOK, NEW r, Over(r)
  PROVE  LET k == Stop(r, element_depth)
         IN  k = r.pos /\ ~(k <= Len(doc) /\ doc[k].type # "bad")
<1>1. Len(doc) \in Nat
  BY DocumentFacts DEF SaxTypeOK
<1>2. r.pos \in 0..(Len(doc) + 1)
  BY <1>1 DEF Over
<1>3. CASE r.pos = Len(doc) + 1
  <2>1. From(r) = Len(doc) + 2
    BY <1>1, <1>3 DEF From
  <2>2. Stop(r, element_depth) \in 1..(Len(doc) + 1)
        /\ (Stop(r, element_depth) <= Len(doc) => Stop(r, element_depth) >= Len(doc) + 2)
    BY <1>2, <2>1, StopIsFirst
  <2>3. Stop(r, element_depth) = Len(doc) + 1
    BY <1>1, <2>2
  <2> QED
    BY <1>1, <1>3, <2>3
<1>4. CASE r.pos \in 1..Len(doc) /\ doc[r.pos].type = "bad"
  <2>1. From(r) = r.pos /\ Hit(r.pos)
    BY <1>4 DEF From, Hit
  <2> QED
    BY <1>1, <1>2, <1>4, <2>1, StopIsFirst
<1> QED
  BY <1>3, <1>4 DEF Over

-----------------------------------------------------------------------------
(* The invariant *)

\* What next() may scan: a reader in a pass, or its own after the pass.
Readers == [open: BOOLEAN, pos: 0..(Len(doc) + 1), schema: BOOLEAN, violated: BOOLEAN]
Scannable(r) ==
  /\ r \in Readers /\ (r.violated => r.schema) /\ (~r.open => r.pos = 0 /\ kind # "string")
  /\ IsValid(r) => IsValid(reader)
  /\ \/ InPass(r) /\ (r = reader \/ (~val /\ r.pos = 0))
     \/ Over(r) /\ r = reader /\ ~val

LEMMA OwnReaderScannable ==
  ASSUME SaxInv
  PROVE  Scannable(reader)
<1>1. Len(doc) \in Nat
  BY DocumentFacts DEF SaxInv, SaxTypeOK
<1>2. /\ reader \in Readers /\ (reader.violated => reader.schema)
      /\ ~reader.open => reader.pos = 0 /\ kind # "string"
  BY DEF SaxInv, SaxTypeOK, ClosedAtStart, Readers
<1>3. CASE reader.pos = 0
  BY <1>2, <1>3 DEF Scannable, InPass
<1>4. CASE reader.pos # 0 /\ val
  BY <1>2, <1>4 DEF Scannable, InPass, SaxInv, ValidIsWanted, UnreadButValid, DepthKnown
<1>5. CASE reader.pos # 0 /\ ~val
  BY <1>1, <1>2, <1>5 DEF Scannable, Over, SaxInv, PassOver, Readers
<1> QED
  BY <1>3, <1>4, <1>5

LEMMA NewReaderScannable ==
  ASSUME SaxInv, NEW r \in ResetReaders
  PROVE  /\ r \in Readers /\ r.pos = 0 /\ (r.violated => r.schema)
         /\ ~r.open => kind # "string"
         /\ kind # "stream" /\ ~IsValid(r)
         /\ ~val => Scannable(r)
<1>1. Len(doc) \in Nat
  BY DocumentFacts DEF SaxInv, SaxTypeOK
<1>2. kind \in {"string", "file", "stream"}
  BY SaxAssumption DEF SaxInv, SaxTypeOK
<1>3. kind # "stream" /\ (r = Fresh \/ (r = Closed /\ kind = "file"))
  BY <1>2 DEF ResetReaders
<1>4. r \in Readers /\ r.pos = 0 /\ ~r.violated /\ ~IsValid(r) /\ (~r.open => kind # "string")
  <2>1. CASE r = Fresh
    BY <1>1, <2>1 DEF Fresh, ReaderAt, Readers, IsValid
  <2>2. CASE r = Closed /\ kind = "file"
    BY <1>1, <2>2 DEF Closed, Readers, IsValid
  <2> QED
    BY <1>3, <2>1, <2>2
<1> QED
  BY <1>3, <1>4 DEF Scannable, InPass

LEMMA ScanInv ==
  ASSUME SaxInv, NEW r, Scannable(r), NEW f \in BOOLEAN, Scan(r, f),
         UNCHANGED <<doc, kind, xsd, rewinds>>
  PROVE  SaxInv'
<1> DEFINE k == Stop(r, element_depth)
           found == k <= Len(doc) /\ doc[k].type # "bad"
<1>1. /\ Len(doc) \in Nat /\ r \in Readers /\ r.pos \in 0..(Len(doc) + 1)
      /\ SaxTypeOK /\ DepthKnown /\ doc \in Documents
  BY DocumentFacts DEF SaxInv, SaxTypeOK, Scannable, Readers
<1>2. k \in 1..(Len(doc) + 1)
  BY <1>1, StopIsFirst
<1> DEFINE violated == r.schema /\ \E j \in (r.pos + 1)..k : j <= Len(doc) /\ ~doc[j].ok
<1>3a. ASSUME r.open
       PROVE  /\ reader' \in Readers /\ (reader'.violated => reader'.schema)
              /\ reader'.pos = k /\ reader'.open
  <2>1. reader' = ReaderAt(k, r.schema, r.violated \/ violated)
    BY <1>3a DEF Scan
  <2>2. r.schema \in BOOLEAN /\ r.violated \in BOOLEAN
    BY <1>1 DEF Readers
  <2>3. violated \in BOOLEAN /\ (violated => r.schema)
    OBVIOUS
  <2> HIDE DEF k, violated
  <2>4. PICK b \in BOOLEAN : b = (r.violated \/ violated)
    OBVIOUS
  <2>5. reader' = [open |-> TRUE, pos |-> k, schema |-> r.schema, violated |-> b]
    BY <2>1, <2>4 DEF ReaderAt
  <2>6. reader' \in Readers /\ reader'.violated = b /\ reader'.pos = k
        /\ reader'.schema = r.schema /\ reader'.open
    BY <1>2, <2>2, <2>5 DEF Readers
  <2> QED
    BY <2>2, <2>3, <2>4, <2>6 DEF Scannable
<1>3b. ASSUME ~r.open
       PROVE  reader' = r /\ ~val'
  BY <1>3b DEF Scan
<1>3. /\ val' = (r.open /\ found)
      /\ element_depth' = IF val' /\ element_depth = -1 THEN doc[k].depth ELSE element_depth
      /\ ret' \in {"none", "element", "invalid", "end", "error"}
  <2> HIDE DEF violated
  <2>1. val' = (r.open /\ found)
    BY DEF Scan
  <2>2. element_depth' = IF val' /\ element_depth = -1 THEN doc[k].depth ELSE element_depth
    BY DEF Scan
  <2>3. ret' \in {"none", "element", "invalid", "end", "error"}
    BY DEF Scan
  <2> QED
    BY <2>1, <2>2, <2>3
<1>4. InPass(r) \/ (Over(r) /\ ~found)
  BY <1>1, StaysOver DEF Scannable
<1>5. found =>
        /\ InPass(r) /\ k \in Wanted /\ k \in Named
        /\ element_depth = -1 => FirstNamed(k)
        /\ element_depth # -1 => doc[k].depth = element_depth
  BY <1>1, <1>4, NextWanted
<1>6. \A j \in 1..Len(doc) : j < k => (doc[j].type # "bad" \/ (Over(r) /\ r = reader))
  BY <1>1, NextWanted DEF Scannable
<1>7. Wanted' = Wanted /\ Named' = Named /\ \A j : FirstNamed(j)' <=> FirstNamed(j)
  BY DEF Wanted, Named, Good, FirstNamed
<1>8. doc' = doc /\ kind' = kind /\ xsd' = xsd /\ rewinds' = rewinds
  OBVIOUS
<1> HIDE DEF k
<1>9. SaxTypeOK'
  <2>1. element_depth' \in {-1} \cup {doc[j].depth : j \in 1..Len(doc)}
    <3>1. CASE val' /\ element_depth = -1
      <4>1. found
        BY <1>3, <3>1
      <4>2. k \in 1..Len(doc)
        BY <1>1, <1>2, <4>1
      <4> QED
        BY <1>3, <3>1, <4>2
    <3>2. CASE ~(val' /\ element_depth = -1)
      BY <1>1, <1>3, <3>2 DEF SaxTypeOK
    <3> QED
      BY <3>1, <3>2
  <2>2. reader' \in Readers /\ (reader'.violated => reader'.schema)
    BY <1>1, <1>3a, <1>3b DEF Scannable
  <2>3. val' \in BOOLEAN
    BY <1>3
  <2> QED
    BY <1>1, <1>3, <1>8, <2>1, <2>2, <2>3 DEF SaxTypeOK, Readers
<1>10. ValidIsWanted' /\ ClosedAtStart'
  BY <1>3, <1>3a, <1>3b, <1>5, <1>7, <1>8, <1>1 DEF ValidIsWanted, ClosedAtStart, Readers, Scannable
<1>11. DepthKnown'
  <2>1. CASE val' /\ element_depth = -1
    <3>1. FirstNamed(k) /\ k \in Named /\ element_depth' = doc[k].depth /\ doc[k].depth # -1
      BY <1>1, <1>3, <1>3a, <1>3b, <1>5, <2>1, DocumentFacts, WantedFacts
    <3> QED
      BY <1>7, <1>8, <3>1 DEF DepthKnown
  <2>2. CASE ~(val' /\ element_depth = -1)
    BY <1>1, <1>3, <1>3a, <1>3b, <1>7, <1>8, <2>2 DEF DepthKnown
  <2> QED
    BY <2>1, <2>2
<1>12. NothingBadPassed'
  <2>1. CASE Over(r) /\ r = reader /\ r.open
    <3>1. k = r.pos
      BY <1>1, StaysOver, <2>1 DEF k
    <3> QED
      BY <1>1, <1>3, <1>3a, <1>3b, <1>8, <2>1, <3>1 DEF SaxInv, NothingBadPassed, Readers
  <2>2. CASE ~(Over(r) /\ r = reader) /\ r.open
    BY <1>1, <1>3, <1>3a, <1>3b, <1>6, <1>8, <2>2 DEF NothingBadPassed, Readers
  <2>3. CASE ~r.open
    BY <1>1, <1>3, <1>3a, <1>3b, <1>8, <2>3 DEF NothingBadPassed, Readers, Scannable
  <2> QED
    BY <2>1, <2>2, <2>3
<1>13. PassOver'
  <2>1. CASE r.open
    BY <1>1, <1>2, <1>3, <1>3a, <1>3b, <1>8, <2>1 DEF PassOver, Readers
  <2>2. CASE ~r.open
    BY <1>3, <1>3a, <1>3b, <2>2 DEF PassOver, Scannable
  <2> QED
    BY <2>1, <2>2
<1> QED
  BY <1>9, <1>10, <1>11, <1>12, <1>13 DEF SaxInv

LEMMA InitSaxInv == SaxInit => SaxInv
<1> SUFFICES ASSUME SaxInit
             PROVE  SaxInv
  OBVIOUS
<1>1. Len(doc) \in Nat
  BY DocumentFacts DEF SaxInit
<1> QED
  <2>1. ValidIsWanted
    BY DEF SaxInit, ReaderAt, ValidIsWanted, UnreadButValid
  <2>2. SaxTypeOK
    BY <1>1, SaxAssumption DEF SaxInit, ReaderAt, SaxTypeOK
  <2> QED
    BY <1>1, <2>1, <2>2 DEF SaxInit, ReaderAt, SaxInv, DepthKnown,
       NothingBadPassed, PassOver, ClosedAtStart

LEMMA NextSaxInv ==
  ASSUME SaxInv, [SaxNext]_svars
  PROVE  SaxInv'
<1>1. ASSUME next
      PROVE  SaxInv'
  <2>1. ASSUME ~MustReset, Scan(reader, FALSE)
        PROVE  SaxInv'
    BY <1>1, <2>1, OwnReaderScannable, ScanInv DEF next
  <2>2. ASSUME MustReset, NEW r \in ResetReaders, Scan(r, FALSE)
        PROVE  SaxInv'
    BY <1>1, <2>2, NewReaderScannable, ScanInv DEF next, MustReset
  <2>3. ASSUME MustReset, Scan(reader, TRUE)
        PROVE  SaxInv'
    BY <1>1, <2>3, OwnReaderScannable, ScanInv DEF next
  <2> QED
    BY <1>1, <2>1, <2>2, <2>3 DEF next
<1>2. ASSUME NEW r \in ResetReaders, reader' = r, UNCHANGED doc,
             rewinds < MaxRewinds, rewinds' = rewinds + 1, UNCHANGED <<kind, xsd>>,
             ret' \in {"none", "error"},
             UNCHANGED <<val, element_depth>> \/ (val' = FALSE /\ element_depth' = -1)
      PROVE  SaxInv'
  <2>1. r \in Readers /\ r.pos = 0 /\ (r.violated => r.schema)
    BY NewReaderScannable
  <2>2. \A j : FirstNamed(j)' <=> FirstNamed(j)
    BY <1>2 DEF Named, Good, FirstNamed
  <2>3. Named' = Named
    BY <1>2 DEF Named, Good
  <2>4. SaxTypeOK'
    <3>1. rewinds' \in 0..MaxRewinds /\ val' \in BOOLEAN
          /\ element_depth' \in {-1} \cup {doc[k].depth : k \in 1..Len(doc)}
      <4>1. rewinds' \in 0..MaxRewinds
        BY <1>2, SaxAssumption DEF SaxInv, SaxTypeOK
      <4>2. CASE UNCHANGED <<val, element_depth>>
        BY <4>1, <4>2 DEF SaxInv, SaxTypeOK
      <4>3. CASE val' = FALSE /\ element_depth' = -1
        BY <4>1, <4>3
      <4> QED
        BY <1>2, <4>2, <4>3
    <3> QED
      BY <1>2, <2>1, <3>1 DEF SaxInv, SaxTypeOK, Readers
  <2>5. DepthKnown'
    BY <1>2, <2>1, <2>2, <2>3 DEF SaxInv, DepthKnown
  <2>6. NothingBadPassed'
    BY <1>2, <2>1 DEF NothingBadPassed
  <2>7. rewinds' > 0
    BY <1>2 DEF SaxInv, SaxTypeOK
  <2> QED
    BY <1>2, <2>1, <2>4, <2>5, <2>6, <2>7, NewReaderScannable
       DEF SaxInv, ValidIsWanted, UnreadButValid, PassOver, ClosedAtStart
<1>3. ASSUME UNCHANGED <<doc, kind, xsd, reader, val, element_depth>>,
             rewinds' \in 0..MaxRewinds, rewinds' >= rewinds,
             ret' \in {"none", "element", "invalid", "end", "error"}
      PROVE  SaxInv'
  BY <1>3 DEF SaxInv, SaxTypeOK, ValidIsWanted, UnreadButValid, DepthKnown, NothingBadPassed, PassOver, ClosedAtStart,
     Wanted, Named, Good, FirstNamed
<1>4. ASSUME reset
      PROVE  SaxInv'
  <2>1. ASSUME NEW r \in ResetReaders, reader' = r, ret' = IF r.open THEN "none" ELSE "error"
        PROVE  SaxInv'
    BY <1>2, <1>4, <2>1 DEF reset
  <2>2. ASSUME reader' = reader, ret' = "error"
        PROVE  SaxInv'
    <3>1. rewinds' \in 0..MaxRewinds /\ rewinds' >= rewinds
      BY <1>4, SaxAssumption DEF reset, SaxInv, SaxTypeOK
    <3> QED
      BY <1>3, <1>4, <2>2, <3>1 DEF reset
  <2> QED
    BY <1>4, <2>1, <2>2 DEF reset
<1>5. ASSUME copy
      PROVE  SaxInv'
  BY <1>2, <1>5 DEF copy
<1>6. ASSUME UNCHANGED svars
      PROVE  SaxInv'
  BY <1>3, <1>6 DEF svars, SaxInv, SaxTypeOK
<1> QED
  BY <1>1, <1>4, <1>5, <1>6 DEF SaxNext

\* The invariant of the iterators: the argument behind the theorems that follow.
THEOREM PassInvariant == SaxSpec => []SaxInv
BY InitSaxInv, NextSaxInv, PTL DEF SaxSpec

\* The iterators' fields keep their types, and only a reader that validates
\* reports an invalid document.
THEOREM SaxTyped == SaxSpec => []SaxTypeOK
BY PassInvariant, PTL DEF SaxInv

\* When valid() is true the iterator is on a wanted element of the document, or
\* nothing was read yet by a stream iterator or since a reset().
THEOREM ValidElement == SaxSpec => []ValidIsWanted
BY PassInvariant, PTL DEF SaxInv
-----------------------------------------------------------------------------
(* The iterator delivers the elements *)

\* What ElementIterator sees of the iterator.
Upto(k) == {w \in Wanted : w <= k}
Cur == IF val /\ reader.open /\ reader.pos \in Wanted THEN Cardinality(Upto(reader.pos)) ELSE 0
Done == ~reader.open \/ (~val /\ reader.pos # 0)

\* The wanted elements up to the next one are one more.
LEMMA NextCounts ==
  ASSUME doc \in Documents, NEW n \in Nat, NEW k \in Wanted, k > n,
         \A w \in Wanted : w > n => w >= k
  PROVE  /\ Cardinality(Upto(k)) = Cardinality(Upto(n)) + 1
         /\ Cardinality(Upto(n)) < Cardinality(Wanted)
         /\ Cardinality(Upto(n)) \in Nat
<1>1. \A w \in Wanted : w \in Nat
  <2>1. \A w \in 1..Len(doc) : w \in Nat
    BY DocumentFacts
  <2> QED
    BY <2>1, WantedFacts
<1>2. Upto(k) = Upto(n) \cup {k} /\ k \notin Upto(n)
  <2>1. \A w \in Wanted : w <= k <=> w <= n \/ w = k
    BY <1>1
  <2>2. ~(k <= n)
    BY <1>1
  <2> QED
    BY <2>1, <2>2 DEF Upto
<1>3. IsFiniteSet(Upto(n)) /\ Cardinality(Upto(n)) \in Nat
  BY FiniteWanted DEF Upto
<1>4. Cardinality(Upto(k)) = Cardinality(Upto(n)) + 1
  BY <1>2, <1>3, FS_AddElement
<1>5. Cardinality(Upto(k)) <= Cardinality(Wanted) /\ Cardinality(Wanted) \in Nat
  BY FiniteWanted, FS_Subset DEF Upto
<1> QED
  BY <1>3, <1>4, <1>5

LEMMA ZeroNotWanted ==
  ASSUME doc \in Documents
  PROVE  0 \notin Wanted /\ Len(doc) + 1 \notin Wanted /\ Cardinality(Upto(0)) = 0
<1>1. Wanted \subseteq 1..Len(doc) /\ Len(doc) \in Nat
  BY WantedFacts, DocumentFacts
<1>2. \A w \in 1..Len(doc) : ~(w <= 0)
  BY <1>1
<1>3. Upto(0) = {}
  BY <1>1, <1>2 DEF Upto
<1> QED
  BY <1>1, <1>3, FS_EmptySet

\* What next()'s loop does to what the caller sees.  Restarted: where the reader is
\* not the iterator's own, the document did not conform; and a pass that is over is
\* scanned again only when it conformed, or when a stream refused to start again.
LEMMA ScanDelivers ==
  ASSUME SaxInv, NEW r, Scannable(r), NEW f \in BOOLEAN, Scan(r, f), UNCHANGED <<doc, kind>>,
         r = reader \/ ~IsValid(reader),
         Over(r) => IsValid(reader) \/ (kind = "stream" /\ f)
  PROVE  /\ IsValid(reader)' => IsValid(reader)
         /\ \/ /\ Cur < Cardinality(Wanted) /\ (Done => ~IsValid(reader))
               /\ Cur' = Cur + 1 /\ ~Done' /\ ret' \in {"element", "invalid"}
            \/ Cur = Cardinality(Wanted) /\ Cur' = 0 /\ Done' /\ ret' \in {"end", "error"}
            \/ /\ Done /\ IsValid(reader) /\ Done' /\ IsValid(reader)'
               /\ Cur = 0 /\ Cur' = 0 /\ ret' \in {"end", "error"}
            \/ kind # "string" /\ Cur' = 0 /\ Done' /\ ret' = "error"
<1> DEFINE k == Stop(r, element_depth)
           found == k <= Len(doc) /\ doc[k].type # "bad"
           violated == r.schema /\ \E j \in (r.pos + 1)..k : j <= Len(doc) /\ ~doc[j].ok
<1>1. /\ Len(doc) \in Nat /\ r.pos \in 0..(Len(doc) + 1)
      /\ SaxTypeOK /\ DepthKnown /\ doc \in Documents
  BY DocumentFacts DEF SaxInv, SaxTypeOK, Scannable, Readers
<1>2. k \in 1..(Len(doc) + 1)
  BY <1>1, StopIsFirst
<1>3. Wanted' = Wanted
  BY DEF Wanted
<1>4. CASE ~r.open
  <2>1. reader' = r /\ ret' = "error" /\ ~val' /\ kind # "string"
    BY <1>4 DEF Scan, Scannable
  <2> QED
    BY <1>4, <2>1 DEF Cur, Done, IsValid
<1>5. ASSUME r.open
      PROVE  /\ reader'.open /\ reader'.pos = k /\ val' = found
             /\ IsValid(reader)' => IsValid(reader)
             /\ IsValid(reader)' <=> IsValid(r) /\ ~violated
             /\ ~found /\ f => ret' = "error"
             /\ found => ret' \in {"element", "invalid"}
             /\ ~found => ret' \in {"end", "error"}
  <2>1. reader' = ReaderAt(k, r.schema, r.violated \/ violated)
    BY <1>5 DEF Scan
  <2> HIDE DEF violated
  <2>2. val' = found
    BY <1>5 DEF Scan
  <2>3. (found => ret' \in {"element", "invalid"}) /\ (~found => ret' \in {"end", "error"})
    BY <1>5 DEF Scan
  <2>4. ~found /\ f => ret' = "error"
    BY <1>5 DEF Scan
  <2>5. IsValid(reader)' <=> IsValid(r) /\ ~violated
    BY <1>5, <2>1 DEF ReaderAt, IsValid
  <2> QED
    BY <2>1, <2>2, <2>3, <2>4, <2>5 DEF ReaderAt, Scannable
<1>6. ASSUME InPass(r)
      PROVE  Cur = Cardinality(Upto(r.pos))
  <2>1. CASE r.pos = 0
    <3>1. ~val \/ reader.pos = 0
      BY <2>1, <1>1, ZeroNotWanted DEF Scannable, Over
    <3> QED
      BY <1>1, <2>1, <3>1, ZeroNotWanted DEF Cur
  <2>2. CASE r.pos \in Wanted
    <3>1. r = reader /\ r.pos # 0 /\ r.pos \in 1..Len(doc) /\ doc[r.pos].type # "bad"
      <4>1. r.pos \in Named /\ r.pos \in 1..Len(doc)
        BY <1>1, <2>2, WantedFacts
      <4>2. doc[r.pos].type # "bad"
        BY <4>1 DEF Named
      <4> QED
        BY <1>1, <4>1, <4>2, <2>2, ZeroNotWanted DEF Scannable
    <3>2. val
      BY <1>1, <3>1 DEF SaxInv, PassOver
    <3>3. reader.open
      BY <3>1 DEF SaxInv, ClosedAtStart
    <3> QED
      BY <2>2, <3>1, <3>2, <3>3 DEF Cur
  <2> QED
    BY <1>6, <2>1, <2>2 DEF InPass
<1>7. CASE r.open /\ InPass(r) /\ found
  <2>1. k \in Wanted /\ k > r.pos /\ \A w \in Wanted : w > r.pos => w >= k
    BY <1>1, <1>7, NextWanted
  <2>2. Cur' = Cardinality(Upto(k))
    BY <1>3, <1>5, <1>7, <2>1 DEF Cur, Upto
  <2>3. r.pos \in Nat
    BY <1>1
  <2>4. Done => ~IsValid(reader)
    <3> SUFFICES ASSUME Done, IsValid(reader)
                 PROVE  FALSE
      OBVIOUS
    <3>1. r = reader /\ ~val /\ reader.pos # 0
      BY DEF Done, IsValid
    <3>2. Over(reader)
      BY <1>1, <3>1 DEF SaxInv, PassOver, Over
    <3>3. reader.pos \in Wanted /\ reader.pos \in 1..Len(doc) /\ doc[reader.pos].type # "bad"
      <4>1. reader.pos \in Named /\ reader.pos \in Wanted
        BY <1>1, <1>7, <3>1, WantedFacts DEF InPass
      <4> QED
        BY <1>1, <4>1, WantedFacts DEF Named, Good
    <3> QED
      BY <1>1, <3>2, <3>3, ZeroNotWanted DEF Over
  <2> HIDE DEF k
  <2>5. Cur < Cardinality(Wanted) /\ Cur' = Cur + 1
    BY <1>1, <1>6, <1>7, <2>1, <2>2, <2>3, NextCounts
  <2> HIDE DEF violated
  <2>6. ~Done' /\ ret' \in {"element", "invalid"} /\ (IsValid(reader)' => IsValid(reader))
    BY <1>5, <1>7 DEF Done
  <2> QED
    BY <2>4, <2>5, <2>6
<1>8. CASE r.open /\ InPass(r) /\ ~found
  <2>1. \A w \in Wanted : w <= r.pos
    BY <1>1, <1>8, NextWanted
  <2>2. Upto(r.pos) = Wanted
    BY <2>1 DEF Upto
  <2> HIDE DEF k
  <2>3. /\ ~val' /\ reader'.pos # 0 /\ ret' \in {"end", "error"}
        /\ IsValid(reader)' => IsValid(reader)
    <3>1. k # 0
      BY <1>1, <1>2
    <3> QED
      BY <1>5, <1>8, <3>1
  <2> QED
    BY <1>6, <1>8, <2>2, <2>3 DEF Cur, Done
<1>9. CASE r.open /\ ~InPass(r)
  <2>1. Over(r) /\ r = reader /\ ~val
    BY <1>9 DEF Scannable
  <2>2. k = r.pos /\ ~found /\ reader.pos # 0
    BY <1>1, <2>1, StaysOver DEF Over
  <2>3. ~violated
    BY <1>1, <2>2
  <2> HIDE DEF k, violated
  <2>4. Done /\ Cur = 0 /\ ~val' /\ reader'.pos # 0
    BY <1>5, <1>9, <2>1, <2>2 DEF Done, Cur
  <2>5. Done' /\ Cur' = 0
    BY <2>4 DEF Done, Cur
  <2>6. CASE IsValid(reader)
    <3>1. IsValid(reader)'
      BY <1>5, <1>9, <2>1, <2>3, <2>6
    <3> QED
      BY <1>5, <1>9, <2>2, <2>4, <2>5, <2>6, <3>1
  <2>7. CASE kind = "stream" /\ f
    BY <1>5, <1>9, <2>2, <2>5, <2>7
  <2> QED
    BY <2>1, <2>6, <2>7
<1> QED
  BY <1>4, <1>7, <1>8, <1>9

LEMMA RewindDelivers ==
  ASSUME SaxInv, NEW r \in ResetReaders, reader' = r, UNCHANGED doc
  PROVE  Cur' = 0 /\ ~IsValid(reader)' /\ (~r.open => Done') /\ (r.open => ~Done')
<1>1. r.pos = 0 /\ ~IsValid(r)
  BY NewReaderScannable
<1>2. 0 \notin Wanted /\ Wanted' = Wanted
  BY ZeroNotWanted DEF Wanted, SaxInv, SaxTypeOK
<1> QED
  BY <1>1, <1>2 DEF Cur, Done, IsValid

LEMMA InitDelivers == SaxInit => Abstract!EInit
<1> SUFFICES ASSUME SaxInit
             PROVE  Abstract!EInit
  OBVIOUS
<1>1. doc \in Documents /\ reader.pos = 0 /\ reader.open /\ ret = "none"
  BY DEF SaxInit, ReaderAt
<1>2. 0 \notin Wanted /\ Cardinality(Wanted) \in Nat
  BY <1>1, ZeroNotWanted, FiniteWanted
<1> QED
  BY <1>1, <1>2 DEF Abstract!EInit, IsValid, SaxInit, ReaderAt

\* What the caller sees of a step is one of the abstract steps.
LEMMA SeenStep ==
  ASSUME UNCHANGED <<doc, kind>>, IsValid(reader)' => IsValid(reader),
         \/ /\ Cur < Cardinality(Wanted) /\ (Done => ~IsValid(reader))
            /\ Cur' = Cur + 1 /\ ~Done' /\ ret' \in {"element", "invalid"}
         \/ Cur = Cardinality(Wanted) /\ Cur' = 0 /\ Done' /\ ret' \in {"end", "error"}
         \/ /\ Done /\ IsValid(reader) /\ Done' /\ IsValid(reader)'
            /\ Cur = 0 /\ Cur' = 0 /\ ret' \in {"end", "error"}
         \/ kind # "string" /\ Cur' = 0 /\ Done' /\ ret' = "error"
         \/ kind # "stream" /\ Cur' = 0 /\ ~Done' /\ ret' = "none" /\ ~IsValid(reader)'
         \/ /\ kind = "stream" /\ Cur' = Cur /\ (Done' <=> Done) /\ ret' = "error"
            /\ (IsValid(reader)' <=> IsValid(reader))
  PROVE  Abstract!ENext
<1>1. Wanted' = Wanted
  BY DEF Wanted
<1> USE DEF Cur, Done, Upto, Abstract!Source
<1>2. ASSUME Cur < Cardinality(Wanted), Done => ~IsValid(reader),
             Cur' = Cur + 1, ~Done', ret' \in {"element", "invalid"}
      PROVE  Abstract!Advance
  BY <1>1, <1>2 DEF Abstract!Advance
<1>3. ASSUME Cur = Cardinality(Wanted), Cur' = 0, Done', ret' \in {"end", "error"}
      PROVE  Abstract!Finish
  BY <1>1, <1>3 DEF Abstract!Finish
<1>4. ASSUME Done, IsValid(reader), Done', IsValid(reader)', Cur = 0, Cur' = 0, ret' \in {"end", "error"}
      PROVE  Abstract!Exhausted
  BY <1>1, <1>4 DEF Abstract!Exhausted, IsValid
<1>5. ASSUME kind # "string", Cur' = 0, Done', ret' = "error"
      PROVE  Abstract!Gone
  BY <1>1, <1>5 DEF Abstract!Gone
<1>6. ASSUME kind # "stream", Cur' = 0, ~Done', ret' = "none", ~IsValid(reader)'
      PROVE  Abstract!Rewind
  BY <1>1, <1>6 DEF Abstract!Rewind, IsValid
<1>7. ASSUME kind = "stream", Cur' = Cur, Done' <=> Done, ret' = "error", IsValid(reader)' <=> IsValid(reader)
      PROVE  Abstract!Refuse
  BY <1>1, <1>7 DEF Abstract!Refuse, IsValid
<1> QED
  BY <1>2, <1>3, <1>4, <1>5, <1>6, <1>7 DEF Abstract!ENext

LEMMA NextDelivers ==
  ASSUME SaxInv, [SaxNext]_svars
  PROVE  [Abstract!ENext]_(Abstract!evars)
<1>1. ASSUME next
      PROVE  Abstract!ENext
  <2>1. ASSUME ~MustReset, Scan(reader, FALSE)
        PROVE  Abstract!ENext
    <3>1. Scannable(reader)
      BY OwnReaderScannable
    <3>2. Over(reader) => IsValid(reader)
      <4>1. CASE val
        <5>1. doc \in Documents /\ Len(doc) \in Nat
          BY DocumentFacts DEF SaxInv, SaxTypeOK
        <5>2. reader.pos = 0 \/ reader.pos \in Wanted
          BY <4>1 DEF SaxInv, ValidIsWanted, UnreadButValid
        <5>3. \A w \in Wanted : w \in 1..Len(doc) /\ doc[w].type # "bad"
          BY <5>1, WantedFacts DEF Named, Good
        <5> QED
          BY <5>1, <5>2, <5>3 DEF Over
      <4>2. CASE ~val
        BY <2>1, <4>2 DEF MustReset
      <4> QED
        BY <4>1, <4>2
    <3> QED
      BY <1>1, <2>1, <3>1, <3>2, ScanDelivers, SeenStep DEF next
  <2>2. ASSUME MustReset, NEW r \in ResetReaders, Scan(r, FALSE)
        PROVE  Abstract!ENext
    <3>1. Scannable(r) /\ r.pos = 0 /\ ~IsValid(reader)
      BY <2>2, NewReaderScannable DEF MustReset
    <3>2. ~Over(r)
      BY <3>1, DocumentFacts DEF Over, SaxInv, SaxTypeOK
    <3> QED
      BY <1>1, <2>2, <3>1, <3>2, ScanDelivers, SeenStep DEF next
  <2>3. ASSUME ResetReaders = {}, Scan(reader, TRUE)
        PROVE  Abstract!ENext
    <3>1. kind = "stream"
      BY <2>3, SaxAssumption DEF ResetReaders, SaxInv, SaxTypeOK
    <3> QED
      BY <1>1, <2>3, <3>1, OwnReaderScannable, ScanDelivers, SeenStep DEF next
  <2> QED
    BY <1>1, <2>1, <2>2, <2>3 DEF next
<1>2. ASSUME reset
      PROVE  Abstract!ENext
  <2>1. ASSUME NEW r \in ResetReaders, reader' = r, ret' = IF r.open THEN "none" ELSE "error"
        PROVE  Abstract!ENext
    BY <1>2, <2>1, NewReaderScannable, RewindDelivers, SeenStep DEF reset
  <2>2. ASSUME ResetReaders = {}, reader' = reader, ret' = "error"
        PROVE  Abstract!ENext
    <3>1. Cur' = Cur /\ (Done' <=> Done) /\ (IsValid(reader)' <=> IsValid(reader))
      BY <1>2, <2>2 DEF reset, Cur, Done, Upto, Wanted, IsValid
    <3>2. kind = "stream"
      BY <2>2, SaxAssumption DEF ResetReaders, SaxInv, SaxTypeOK
    <3> QED
      BY <1>2, <2>2, <3>1, <3>2, SeenStep DEF reset
  <2> QED
    BY <1>2, <2>1, <2>2 DEF reset
<1>3. ASSUME copy
      PROVE  Abstract!ENext
  <2>1. PICK r \in ResetReaders \ {Closed} : reader' = r
    BY <1>3 DEF copy
  <2>2. r.open
    BY <2>1, SaxAssumption DEF ResetReaders, Fresh, ReaderAt, SaxInv, SaxTypeOK
  <2> QED
    BY <1>3, <2>1, <2>2, NewReaderScannable, RewindDelivers, SeenStep DEF copy
<1>4. ASSUME UNCHANGED svars
      PROVE  UNCHANGED Abstract!evars
  BY <1>4 DEF svars, Abstract!evars, Wanted, IsValid
<1> QED
  BY <1>1, <1>2, <1>3, <1>4 DEF SaxNext

\* SaxIterator implements ElementIterator: next() delivers every wanted element
\* once and in order, over every document, every kind of source, and every
\* sequence of next(), reset() and copy().
THEOREM ElementsDelivered == SaxSpec => DeliversElements
<1>1. SaxInit => Abstract!EInit
  BY InitDelivers
<1>2. SaxInv /\ [SaxNext]_svars => [Abstract!ENext]_(Abstract!evars)
  BY NextDelivers
<1> QED
  BY <1>1, <1>2, PassInvariant, PTL DEF SaxSpec, DeliversElements, Abstract!ESpec
=============================================================================
