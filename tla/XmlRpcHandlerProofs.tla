------------------------- MODULE XmlRpcHandlerProofs -------------------------
(***************************************************************************)
(* As long as no two threads are inside addMethodInternal() at once, a name*)
(* that is served keeps its method, for any number of threads and methods  *)
(* and whatever regular expressions they have.                             *)
(*                                                                         *)
(* The index that addMethodInternal() took is still the end of the list    *)
(* when it stores the method: nothing else extends the list in between.    *)
(* So methods only come after the others, and the first match stays.  Two  *)
(* threads that take the same index are the only way to lose a method.     *)
(***************************************************************************)
EXTENDS XmlRpcHandler, WellFoundedInduction, TLAPS

Method == [text : STRING, names : SUBSET STRING, code : STRING]

HandlerTypeOK ==
  /\ methods \in Seq(Method)
  /\ adding \in [Adder -> SUBSET NewMethod]
  /\ index \in [Adder -> Nat]
  /\ added \subseteq NewMethod

IndexIsEnd == \A a \in Adder : adding[a] # {} => index[a] = Len(methods) + 1

AddedAreThere == \A m \in added : \E i \in DOMAIN methods : methods[i] = m

HandlerInv == HandlerTypeOK /\ IndexIsEnd /\ AddedAreThere

\* No two threads are between taking an index and storing the method.
NoIndexRace == \A a, b \in Adder : adding[a] # {} /\ adding[b] # {} => a = b

-----------------------------------------------------------------------------
(* A set of indices has a least one, and a larger index does not change it. *)

LEMMA LeastExists ==
  ASSUME NEW S \in SUBSET Nat, S # {}
  PROVE  \E i \in S : \A j \in S : i <= j
<1>1. IsWellFoundedOn(OpToRel(<, Nat), Nat) BY NatLessThanWellFounded
<1>2. PICK i \in S : \A j \in S : ~ (<<j, i>> \in OpToRel(<, Nat)) BY <1>1, WFMin
<1>3. ASSUME NEW j \in S PROVE i <= j
  <2>1. <<j, i>> \in OpToRel(<, Nat) <=> j < i BY DEF OpToRel
  <2>2. ~ (j < i) BY <1>2, <2>1
  <2> QED BY <2>2
<1> QED BY <1>3

LEMMA FoundIsFirst ==
  ASSUME HandlerTypeOK, NEW name, Matching(name) # {}
  PROVE  /\ Found(name) \in Matching(name)
         /\ \A j \in Matching(name) : Found(name) <= j
<1>1. Matching(name) \in SUBSET Nat BY DEF HandlerTypeOK, Matching
<1>2. \E i \in Matching(name) : \A j \in Matching(name) : i <= j BY <1>1, LeastExists
<1> QED BY <1>2 DEF Found

-----------------------------------------------------------------------------

\* addMethodInternal() stores at the end.
LEMMA StoreAppends ==
  ASSUME HandlerInv, NEW a \in Adder, NEW m \in NewMethod, AddStore(a, m)
  PROVE  methods' = Append(methods, m)
<1>1. index[a] = Len(methods) + 1 BY DEF HandlerInv, IndexIsEnd, AddStore
<1>2. index[a] \notin DOMAIN methods BY <1>1 DEF HandlerInv, HandlerTypeOK
<1> QED BY <1>2 DEF AddStore

LEMMA AppendKeeps ==
  ASSUME HandlerTypeOK, NEW m \in Method
  PROVE  /\ Append(methods, m) \in Seq(Method)
         /\ DOMAIN Append(methods, m) = DOMAIN methods \cup {Len(methods) + 1}
         /\ \A i \in DOMAIN methods : Append(methods, m)[i] = methods[i]
         /\ Append(methods, m)[Len(methods) + 1] = m
BY DEF HandlerTypeOK

LEMMA InitHolds == HandlerInit => HandlerInv
BY HandlerAssumption DEF Method, HandlerInit, HandlerInv, HandlerTypeOK, IndexIsEnd, AddedAreThere

LEMMA NextHolds ==
  ASSUME NoIndexRace, HandlerInv, [AddMethod]_hvars
  PROVE  HandlerInv'
<1>1. ASSUME NEW a \in Adder, NEW m \in NewMethod, AddIndex(a, m) PROVE HandlerInv'
  BY <1>1 DEF AddIndex, HandlerInv, HandlerTypeOK, IndexIsEnd, AddedAreThere
<1>2. ASSUME NEW a \in Adder, NEW m \in NewMethod, AddStore(a, m) PROVE HandlerInv'
  <2>1. methods' = Append(methods, m) BY <1>2, StoreAppends
  <2>2. m \in Method BY HandlerAssumption DEF Method
  <2>3. HandlerTypeOK' BY <1>2, <2>1, <2>2, AppendKeeps DEF AddStore, HandlerInv, HandlerTypeOK
  <2>4. IndexIsEnd'
    <3>1. \A b \in Adder : adding'[b] = {}
      BY <1>2 DEF AddStore, NoIndexRace, HandlerInv, HandlerTypeOK
    <3> QED BY <3>1 DEF IndexIsEnd
  <2>5. AddedAreThere'
    <3> SUFFICES ASSUME NEW n \in added' PROVE \E i \in DOMAIN methods' : methods'[i] = n
      BY DEF AddedAreThere
    <3>1. n \in added \/ n = m BY <1>2 DEF AddStore
    <3> QED BY <2>1, <2>2, <3>1, AppendKeeps DEF HandlerInv, AddedAreThere
  <2> QED BY <2>3, <2>4, <2>5 DEF HandlerInv
<1>3. CASE UNCHANGED hvars
  BY <1>3 DEF hvars, HandlerInv, HandlerTypeOK, IndexIsEnd, AddedAreThere
<1> QED BY <1>1, <1>2, <1>3 DEF AddMethod

\* The first match is the same after a step.
LEMMA StepSteady ==
  ASSUME HandlerInv, HandlerInv', [AddMethod]_hvars, NEW name, Matching(name) # {}
  PROVE  Matching(name)' # {} /\ methods'[Found(name)'] = methods[Found(name)]
<1>1. CASE methods' = methods
  <2>1. Matching(name)' = Matching(name) BY <1>1 DEF Matching
  <2>2. Found(name)' = Found(name) BY <1>1, <2>1 DEF Found
  <2> QED BY <1>1, <2>1, <2>2
<1>2. ASSUME NEW a \in Adder, NEW m \in NewMethod, AddStore(a, m)
      PROVE  Matching(name)' # {} /\ methods'[Found(name)'] = methods[Found(name)]
  <2> DEFINE i == Found(name)
             k == Found(name)'
             end == Len(methods) + 1
  <2>1. methods' = Append(methods, m) /\ m \in Method
    BY <1>2, StoreAppends, HandlerAssumption DEF Method
  <2>2. /\ DOMAIN methods' = DOMAIN methods \cup {end}
        /\ \A j \in DOMAIN methods : methods'[j] = methods[j]
    BY <2>1, AppendKeeps DEF HandlerInv
  <2>3. /\ Matching(name) \subseteq Matching(name)'
        /\ Matching(name)' \subseteq Matching(name) \cup {end}
    BY <2>2 DEF Matching
  <2>4. i \in Matching(name) /\ \A j \in Matching(name) : i <= j
    BY FoundIsFirst DEF HandlerInv
  <2>5. k \in Matching(name)' /\ \A j \in Matching(name)' : k <= j
    <3>1. HandlerTypeOK' /\ Matching(name)' # {} BY <2>3 DEF HandlerInv
    <3>2. \E j \in Matching(name)' : \A l \in Matching(name)' : j <= l
      <4>1. Matching(name)' \in SUBSET Nat BY <3>1 DEF HandlerTypeOK, Matching
      <4> QED BY <3>1, <4>1, LeastExists
    <3> QED BY <3>2 DEF Found
  <2>6. i \in DOMAIN methods /\ i \in Nat /\ i < end /\ end \in Nat
    BY <2>4 DEF Matching, HandlerInv, HandlerTypeOK
  <2>7. k <= i BY <2>3, <2>4, <2>5
  <2>8. k \in Matching(name)
    <3> HIDE DEF k, i, end
    <3> QED BY <2>3, <2>5, <2>6, <2>7
  <2>9. k = i
    <3>1. k \in Nat BY <2>8 DEF Matching, HandlerInv, HandlerTypeOK
    <3>2. i <= k BY <2>4, <2>8
    <3> HIDE DEF k, i, end
    <3> QED BY <2>6, <2>7, <3>1, <3>2
  <2> QED BY <2>2, <2>3, <2>6, <2>9
<1> QED BY <1>1, <1>2 DEF AddMethod, AddIndex, hvars

-----------------------------------------------------------------------------

\* Unless two threads are inside addMethodInternal() at once, the methods of a
\* handler are only ever added after the others, and those whose addMethod()
\* returned are there.
THEOREM Registered == HandlerSpec /\ []NoIndexRace => []HandlerInv
<1>1. NoIndexRace /\ HandlerInv /\ [AddMethod]_hvars => HandlerInv' BY NextHolds
<1> QED BY <1>1, InitHolds, PTL DEF HandlerSpec

\* Unless two threads are inside addMethodInternal() at once, callMethod() finds
\* for a name that is served the same method ever after, and addMethod() loses none.
THEOREM DispatchIsSteady == HandlerSpec /\ []NoIndexRace => SteadyDispatch
<1> DEFINE Steady ==
      /\ \A m \in NewMethod : \A name \in m.names :
           Matching(name) # {} => Matching(name)' # {} /\ methods'[Found(name)'] = methods[Found(name)]
      /\ \A m \in added' : \E i \in DOMAIN methods' : methods'[i] = m
<1>1. HandlerInv /\ HandlerInv' /\ [AddMethod]_hvars => [Steady]_hvars
  <2> SUFFICES ASSUME HandlerInv, HandlerInv', [AddMethod]_hvars PROVE Steady OBVIOUS
  <2>1. \A m \in added' : \E i \in DOMAIN methods' : methods'[i] = m
    BY DEF HandlerInv, AddedAreThere
  <2> QED BY <2>1, StepSteady
<1> QED BY <1>1, Registered, PTL DEF HandlerSpec, SteadyDispatch

\* One thread that adds methods races with nobody.
THEOREM OneAdderIsSteady ==
  ASSUME \A a, b \in Adder : a = b
  PROVE  HandlerSpec => SteadyDispatch
<1>1. NoIndexRace BY DEF NoIndexRace
<1> QED BY <1>1, DispatchIsSteady, PTL
=============================================================================
