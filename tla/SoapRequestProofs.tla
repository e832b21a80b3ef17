------------------------- MODULE SoapRequestProofs -------------------------
(***************************************************************************)
(* Proofs about SoapHandler and SoapRequest: for every registry, every set *)
(* of requests and every interleaving of a request's lookups with          *)
(* registrations and removals.                                             *)
(*                                                                         *)
(* The registry comes first.  What makes a removal exact is that forward   *)
(* and reverse maps agree (IInv); a request that only reads keeps all of it.*)
(*                                                                         *)
(* A request's history variables tie it to the registry: what is in steady *)
(* is registered now, and what is registered now is in seen.  So what      *)
(* UriReachable says of the registry holds, at every lookup, of the        *)
(* registrations in steady; a stage that was left with nothing found       *)
(* rules out the registrations it would have found.                        *)
(***************************************************************************)
EXTENDS SoapRequest, TLAPS

-----------------------------------------------------------------------------
(* The inductive invariant *)

\* The maps of SOAP routes hold SOAP registrations only.
SoapOnly == \A s \in Slot : table[s] # None => BindingOf[table[s].op] = "soap"

\* Threads in an HTTP registration register HTTP operations.
HttpOnlyInThreads ==
  \A t \in Thread : pc[t] # Idle => BindingOf[pc[t].call.op] = "http"

IInv ==
  /\ TypeOK
  /\ RevConsistent
  /\ NoStaleRoute
  /\ SoapOnly
  /\ HttpOnlyInThreads

-----------------------------------------------------------------------------
(* Facts about registrations and keys *)

\* A registration is a record of the declared type, and so are its path and
\* its names.
LEMMA CallFacts ==
  ASSUME NEW c \in Call
  PROVE  /\ c # None /\ c.ws \in Service /\ c.op \in Operation
         /\ c.path \in Path \cup {None} /\ c.uid \in Uid \cup {None}
         /\ AltPath(c) \in Path \cup {None}
         /\ SoapSlots(c) \subseteq Slot
BY ConstantsAssumption DEF CallType, AltPath, SoapSlots

\* The keys a registration claims under a path are those of its own path, and
\* the path itself is one of them.
LEMMA PathKeys ==
  ASSUME NEW c \in Call, NEW s \in SoapSlots(c),
         s[1] \in {"uri_sam", "uri_methods", "wsph"}
  PROVE  /\ s[2] = AltPath(c) /\ AltPath(c) \in Path
         /\ <<"wsph", AltPath(c), None>> \in SoapSlots(c)
<1> DEFINE p == AltPath(c)
           a == ActionOf[c.op]
           names == MethodNames(c.op)
<1>1. s \in Slot
  BY DEF SoapSlots
<1>2. s \in ({"uri_sam"} \X {p} \X {a}) \cup ({"wsph"} \X {p} \X {None})
            \cup ({"uri_methods"} \X {p} \X names)
  BY DEF SoapSlots
<1>3. s[2] = p
  BY <1>2
<1>4. s[2] \in Path
  BY <1>1 DEF Slot
<1>5. <<"wsph", p, None>> \in Slot
  BY <1>3, <1>4 DEF Slot
<1> QED
  BY <1>3, <1>4, <1>5 DEF SoapSlots

\* A registration with a path claims the path.
LEMMA OwnPathKey ==
  ASSUME NEW c \in Call, AltPath(c) # None
  PROVE  <<"wsph", AltPath(c), None>> \in SoapSlots(c)
<1>1. AltPath(c) \in Path
  BY CallFacts
<1>2. <<"wsph", AltPath(c), None>> \in Slot
  BY <1>1 DEF Slot
<1> QED
  BY <1>2 DEF SoapSlots

-----------------------------------------------------------------------------
(* Invariance of IInv *)

\* An empty registry satisfies the invariant.
LEMMA InitIInv == Init => IInv
BY DEF Init, IInv, TypeOK, RevConsistent, NoStaleRoute, SoapOnly, HttpOnlyInThreads, Idle, Ok

\* A SOAP registration keeps it: it fills free keys only, and records those it filled.
LEMMA AddSoapIInv ==
  ASSUME IInv, NEW c \in Call, AddSoap(c)
  PROVE  IInv'
<1> USE DEF IInv
<1>1. Claimed(c) \subseteq Slot /\ Claimed(c) \subseteq SoapSlots(c) /\ c # None
  BY CallFacts DEF Claimed
<1>2. \A s \in Slot : table'[s] = IF s \in Claimed(c) THEN c ELSE table[s]
  BY DEF AddSoap
<1>3. \A u \in Uid : rtable'[u] = IF u = c.uid THEN rtable[u] \cup Claimed(c) ELSE rtable[u]
  BY DEF AddSoap
<1>4. \A s \in Claimed(c) : table[s] = None
  BY DEF Claimed
<1>5. TypeOK'
  <2>1. table' \in [Slot -> Call \cup {None}]
    BY DEF AddSoap, TypeOK
  <2>2. rtable' \in [Uid -> SUBSET Slot]
    BY <1>1 DEF AddSoap, TypeOK
  <2>3. http' = http /\ pc' = pc /\ live' = live \cup {c} /\ outcome' = Ok
    BY DEF AddSoap
  <2>4. live' \subseteq Call
    BY <2>3 DEF TypeOK
  <2> QED
    BY <2>1, <2>2, <2>3, <2>4, Zenon DEF TypeOK
<1>6. RevConsistent'
  <2> SUFFICES ASSUME NEW u \in Uid, NEW s \in Slot
               PROVE  s \in rtable'[u] <=> (table'[s] # None /\ table'[s].uid = u)
    BY DEF RevConsistent
  <2>1. s \in rtable[u] <=> (table[s] # None /\ table[s].uid = u)
    BY DEF RevConsistent
  <2>2. CASE s \in Claimed(c)
    <3>1. table'[s] = c /\ s \notin rtable[u]
      BY <1>2, <1>4, <2>1, <2>2
    <3>2. s \in rtable'[u] <=> u = c.uid
      BY <1>3, <2>2, <3>1
    <3> QED
      BY <1>1, <3>1, <3>2
  <2>3. CASE s \notin Claimed(c)
    <3>1. table'[s] = table[s]
      BY <1>2, <2>3
    <3>2. s \in rtable'[u] <=> s \in rtable[u]
      BY <1>3, <2>3
    <3> QED
      BY <2>1, <3>1, <3>2
  <2> QED
    BY <2>2, <2>3
<1>7. NoStaleRoute'
  BY <1>1, <1>2 DEF AddSoap, NoStaleRoute
<1>8. SoapOnly'
  BY <1>2 DEF AddSoap, SoapOnly
<1>9. HttpOnlyInThreads'
  BY DEF AddSoap, HttpOnlyInThreads
<1> QED
  BY <1>5, <1>6, <1>7, <1>8, <1>9

\* removeService() keeps it: what it clears is what the reverse maps record.
LEMMA RemoveServiceIInv ==
  ASSUME IInv, NEW u \in Uid, RemoveService(u)
  PROVE  IInv'
<1> USE DEF IInv
<1>1. \A s \in Slot : table'[s] = IF s \in rtable[u] THEN None ELSE table[s]
  BY DEF RemoveService
<1>2. \A w \in Uid : rtable'[w] = IF w = u THEN {} ELSE rtable[w]
  BY DEF RemoveService, TypeOK
<1>3. TypeOK'
  <2>1. table' \in [Slot -> Call \cup {None}]
    BY DEF RemoveService, TypeOK
  <2>2. rtable' \in [Uid -> SUBSET Slot]
    BY DEF RemoveService, TypeOK
  <2> QED
    BY <2>1, <2>2 DEF RemoveService, TypeOK
<1>4. RevConsistent'
  BY <1>1, <1>2 DEF RevConsistent
<1>5. NoStaleRoute'
  <2> SUFFICES ASSUME NEW s \in Slot, table'[s] # None
               PROVE  table'[s] \in live' /\ s \in SoapSlots(table'[s])
    BY DEF NoStaleRoute
  <2>1. table'[s] = table[s] /\ s \notin rtable[u]
    BY <1>1
  <2>2. table[s].uid # u
    BY <2>1 DEF RevConsistent
  <2> QED
    BY <2>1, <2>2 DEF RemoveService, NoStaleRoute
<1>6. SoapOnly'
  BY <1>1 DEF SoapOnly
<1>7. HttpOnlyInThreads'
  BY DEF RemoveService, HttpOnlyInThreads
<1> QED
  BY <1>3, <1>4, <1>5, <1>6, <1>7

\* The other steps leave the seven maps alone.
LEMMA OtherStepsIInv ==
  ASSUME IInv,
         \/ \E c \in Call : RejectSoap(c) \/ AddUnbound(c)
         \/ \E t \in Thread : HttpCreate(t) \/ HttpPut(t) \/ \E c \in Call : HttpCheck(t, c)
         \/ UNCHANGED vars
  PROVE  IInv'
<1> USE DEF IInv
<1>1. ASSUME table' = table, rtable' = rtable, live \subseteq live', TypeOK',
             HttpOnlyInThreads'
      PROVE  IInv'
  BY <1>1 DEF RevConsistent, NoStaleRoute, SoapOnly
<1>2. ASSUME NEW c \in Call, RejectSoap(c) \/ AddUnbound(c)
      PROVE  IInv'
  <2>1. TypeOK'
    BY <1>2 DEF RejectSoap, AddUnbound, TypeOK
  <2>2. HttpOnlyInThreads'
    BY <1>2 DEF RejectSoap, AddUnbound, HttpOnlyInThreads
  <2> QED
    BY <1>1, <1>2, <2>1, <2>2 DEF RejectSoap, AddUnbound
<1>3. ASSUME NEW t \in Thread, NEW c \in Call, HttpCheck(t, c)
      PROVE  IInv'
  <2>1. VerbOf[c.op] \in Verb
    BY CallFacts, ConstantsAssumption
  <2>2. TypeOK'
    BY <1>3, <2>1, CallFacts DEF HttpCheck, TypeOK, Idle
  <2>3. HttpOnlyInThreads'
    BY <1>3 DEF HttpCheck, TypeOK, HttpOnlyInThreads
  <2> QED
    BY <1>1, <1>3, <2>2, <2>3 DEF HttpCheck
<1>4. ASSUME NEW t \in Thread, HttpCreate(t)
      PROVE  IInv'
  <2> DEFINE c == pc[t].call
             v == VerbOf[c.op]
  <2>1. c \in Call /\ v \in Verb
    BY <1>4, CallFacts, ConstantsAssumption DEF HttpCreate, TypeOK, Idle
  <2>2. EmptyTree \in [Path -> Call \cup {None}] /\ EmptyTree # None
    BY ConstantsAssumption DEF EmptyTree
  <2>3. TypeOK'
    BY <1>4, <2>1, <2>2 DEF HttpCreate, TypeOK, Idle
  <2>4. HttpOnlyInThreads'
    BY <1>4 DEF HttpCreate, TypeOK, HttpOnlyInThreads, Idle
  <2> QED
    BY <1>1, <1>4, <2>3, <2>4 DEF HttpCreate
<1>5. ASSUME NEW t \in Thread, HttpPut(t)
      PROVE  IInv'
  <2> DEFINE c == pc[t].call
             v == VerbOf[c.op]
             p == HttpPath(c)
  <2>1. c \in Call /\ v \in Verb /\ p \in Path
    <3>1. c \in Call
      <4>1. pc[t].at = "put" /\ pc[t] \in {Idle} \cup [at: {"create", "put"}, call: Call]
        BY <1>5 DEF HttpPut, TypeOK
      <4> QED
        BY <4>1 DEF Idle
    <3>2. c.op \in Operation /\ c.path \in Path \cup {None}
      BY <3>1, CallFacts
    <3> QED
      BY <3>1, <3>2, ConstantsAssumption DEF HttpPath
  <2>2. http[v] \in [Path -> Call \cup {None}]
    BY <1>5, <2>1 DEF HttpPut, TypeOK
  <2>3. pc' \in [Thread -> {Idle} \cup [at: {"create", "put"}, call: Call]]
    BY <1>5 DEF HttpPut, TypeOK
  <2>4. HttpOnlyInThreads'
    BY <1>5 DEF HttpPut, TypeOK, HttpOnlyInThreads
  <2>5. CASE p \in WithQuery
    <3>1. TypeOK'
      <4>1. http' = http /\ live' = live /\ outcome' = [code |-> "SOAPACTION-ERROR", call |-> c]
        BY <1>5, <2>5 DEF HttpPut
      <4>2. \A r \in Thread : pc'[r].at = "put" => pc'[r] = pc[r]
        BY <1>5 DEF HttpPut, TypeOK, Idle
      <4> QED
        BY <1>5, <2>1, <2>3, <4>1, <4>2 DEF HttpPut, TypeOK
    <3> QED
      BY <1>1, <1>5, <2>5, <2>4, <3>1 DEF HttpPut
  <2>6. CASE p \notin WithQuery
    <3>1. http' = [http EXCEPT ![v] = [http[v] EXCEPT ![p] = c]]
      BY <1>5, <2>6 DEF HttpPut
    <3>2. [http[v] EXCEPT ![p] = c] \in [Path -> Call \cup {None}]
      BY <2>1, <2>2
    <3>3. [http[v] EXCEPT ![p] = c] # None
      BY <3>2, ConstantsAssumption
    <3>4. http' \in [Verb -> {None} \cup [Path -> Call \cup {None}]]
      BY <3>1, <3>2, <2>1 DEF TypeOK
    <3>5. \A w \in Verb : http[w] # None => http'[w] # None
      BY <3>1, <3>3, <2>1 DEF TypeOK
    <3>6. \A r \in Thread : pc'[r].at = "put" => http'[VerbOf[pc'[r].call.op]] # None
      <4> SUFFICES ASSUME NEW r \in Thread, pc'[r].at = "put"
                   PROVE  http'[VerbOf[pc'[r].call.op]] # None
        OBVIOUS
      <4>1. pc'[r] = pc[r]
        BY <1>5 DEF HttpPut, TypeOK, Idle
      <4>2. pc[r].call \in Call /\ VerbOf[pc[r].call.op] \in Verb
        BY <4>1, CallFacts, ConstantsAssumption DEF TypeOK, Idle
      <4> QED
        BY <4>1, <4>2, <3>5 DEF TypeOK
    <3>7. TypeOK'
      BY <1>5, <2>1, <2>3, <2>6, <3>4, <3>6 DEF HttpPut, TypeOK, Ok
    <3> QED
      BY <1>1, <1>5, <2>6, <2>4, <3>7 DEF HttpPut
  <2> QED
    BY <2>5, <2>6
<1>6. ASSUME UNCHANGED vars
      PROVE  IInv'
  <2>1. TypeOK'
    BY <1>6 DEF vars, TypeOK
  <2>2. HttpOnlyInThreads'
    BY <1>6 DEF vars, HttpOnlyInThreads
  <2> QED
    BY <1>1, <1>6, <2>1, <2>2 DEF vars
<1> QED
  BY <1>2, <1>3, <1>4, <1>5, <1>6

\* The inductive invariant of the registry, from which the theorems below follow.
THEOREM Invariance == Spec => []IInv
<1>1. ASSUME IInv, [Next]_vars
      PROVE  IInv'
  BY <1>1, AddSoapIInv, RemoveServiceIInv, OtherStepsIInv DEF Next
<1> QED
  BY InitIInv, <1>1, PTL DEF Spec

\* The registry's maps, HTTP trees and threads keep their types; a thread that
\* is about to put an HTTP operation always finds a TreeMap.
THEOREM TypeCorrect == Spec => []TypeOK
BY Invariance, PTL DEF IInv

\* removeService() removes exactly what the service registered.
THEOREM RemovalIsExact == Spec => []RevConsistent
BY Invariance, PTL DEF IInv

\* Requests are routed to registrations that were not removed.
THEOREM RoutesAreLive == Spec => []NoStaleRoute
BY Invariance, PTL DEF IInv

-----------------------------------------------------------------------------
(* Action properties *)

\* A key that is served keeps its operation until the service is removed.
THEOREM RoutesAreStable == Spec => RouteStable
<1> DEFINE Stable == \A s \in Slot : table[s] # None /\ table'[s] # table[s]
                                      => table[s] \notin live'
<1>1. ASSUME IInv, [Next]_vars
      PROVE  Stable
  <2>1. ASSUME NEW c \in Call, AddSoap(c)
        PROVE  Stable
    BY <2>1 DEF AddSoap, Claimed
  <2>2. ASSUME NEW u \in Uid, RemoveService(u)
        PROVE  Stable
    <3> SUFFICES ASSUME NEW s \in Slot, table[s] # None, table'[s] # table[s]
                 PROVE  table[s] \notin live'
      OBVIOUS
    <3>1. s \in rtable[u]
      BY <2>2 DEF RemoveService
    <3>2. table[s].uid = u
      BY <1>1, <3>1 DEF IInv, RevConsistent
    <3> QED
      BY <2>2, <3>2 DEF RemoveService
  <2>3. ASSUME table' = table
        PROVE  Stable
    BY <2>3
  <2> QED
    BY <1>1, <2>1, <2>2, <2>3
    DEF Next, vars, RejectSoap, AddUnbound, HttpCreate, HttpPut, HttpCheck
<1> QED
  BY Invariance, <1>1, PTL DEF Spec, RouteStable

\* A registration claims no SOAPAction but its operation's.
LEMMA ActionKey ==
  ASSUME NEW c \in Call, NEW a \in Action, <<"sam", None, a>> \in SoapSlots(c)
  PROVE  ActionOf[c.op] = a
BY DEF SoapSlots

\* addMethod() refuses an operation only because of one that is still there.
THEOREM RejectionsHaveACause == Spec => RejectedForCause
<1> DEFINE PathHasCause == LET c == outcome'.call IN
             outcome' # outcome /\ outcome'.code = "SOAP-PATH-ERROR" =>
               \E d \in live : d.ws # c.ws /\ AltPath(d) = AltPath(c)
           ActionHasCause == LET c == outcome'.call IN
             outcome' # outcome /\ outcome'.code = "SOAPACTION-ERROR"
             /\ BindingOf[c.op] = "soap" =>
               /\ AltPath(c) = None
               /\ \E d \in live : d.op # c.op /\ ActionOf[d.op] = ActionOf[c.op]
<1>1. ASSUME IInv, [Next]_vars
      PROVE  PathHasCause /\ ActionHasCause
  <2>1. ASSUME outcome' = outcome \/ outcome' = Ok
        PROVE  PathHasCause /\ ActionHasCause
    BY <2>1 DEF Ok
  <2>2. ASSUME NEW c \in Call, RejectSoap(c), ActionConflict(c)
        PROVE  PathHasCause /\ ActionHasCause
    <3> DEFINE s == <<"sam", None, ActionOf[c.op]>>
               d == table[s]
    <3>1. outcome' = [code |-> "SOAPACTION-ERROR", call |-> c]
      BY <2>2 DEF RejectSoap
    <3>2. s \in Slot /\ AltPath(c) = None /\ d # None /\ d.op # c.op
      BY <2>2 DEF ActionConflict
    <3>3. d \in live /\ d \in Call /\ s \in SoapSlots(d)
      BY <1>1, <3>2 DEF IInv, NoStaleRoute, TypeOK
    <3>4. ActionOf[c.op] \in Action
      BY <3>2 DEF Slot
    <3>5. ActionOf[d.op] = ActionOf[c.op]
      BY <3>3, <3>4, ActionKey
    <3> QED
      BY <3>1, <3>2, <3>3, <3>5
  <2>3. ASSUME NEW c \in Call, RejectSoap(c), ~ActionConflict(c)
        PROVE  PathHasCause /\ ActionHasCause
    <3> DEFINE s == <<"wsph", AltPath(c), None>>
               d == table[s]
    <3>1. outcome' = [code |-> "SOAP-PATH-ERROR", call |-> c] /\ PathConflict(c)
      BY <2>3 DEF RejectSoap
    <3>2. s \in Slot /\ d # None /\ d.ws # c.ws
      BY <3>1 DEF PathConflict
    <3>3. d \in live /\ d \in Call /\ s \in SoapSlots(d)
      BY <1>1, <3>2 DEF IInv, NoStaleRoute, TypeOK
    <3>4. AltPath(d) = AltPath(c)
      BY <3>3, PathKeys
    <3> QED
      BY <3>1, <3>2, <3>3, <3>4
  <2>4. ASSUME NEW c \in Call, AddUnbound(c)
        PROVE  PathHasCause /\ ActionHasCause
    BY <2>4 DEF AddUnbound
  <2>5. ASSUME NEW t \in Thread, HttpPut(t)
        PROVE  PathHasCause /\ ActionHasCause
    <3>1. BindingOf[pc[t].call.op] = "http"
      BY <1>1, <2>5 DEF HttpPut, IInv, HttpOnlyInThreads, Idle
    <3>2. \/ outcome' = Ok
          \/ outcome' = [code |-> "SOAPACTION-ERROR", call |-> pc[t].call]
      BY <2>5 DEF HttpPut
    <3> QED
      BY <2>1, <3>1, <3>2
  <2>6. ASSUME \/ \E c \in Call : AddSoap(c)
               \/ \E u \in Uid : RemoveService(u)
               \/ \E t \in Thread : HttpCreate(t) \/ \E c \in Call : HttpCheck(t, c)
               \/ UNCHANGED vars
        PROVE  PathHasCause /\ ActionHasCause
    BY <2>1, <2>6 DEF AddSoap, RemoveService, HttpCreate, HttpCheck, vars
  <2> HIDE DEF PathHasCause, ActionHasCause
  <2> QED
    BY <1>1, <2>2, <2>3, <2>4, <2>5, <2>6 DEF Next
<1> QED
  BY Invariance, <1>1, PTL DEF Spec, RejectedForCause

-----------------------------------------------------------------------------
(* Paths, with one unique_id for each service *)

\* Steps that change neither the maps nor the SOAP registrations keep the paths.
LEMMA LiveUnchangedPaths ==
  ASSUME UriReachable, IInv, table' = table, LiveSoap' = LiveSoap
  PROVE  UriReachable'
BY DEF UriReachable

\* A registration that passed the check for a path conflict takes no path from another
\* service, and claims or finds filled every key under its own.
LEMMA AddSoapPaths ==
  ASSUME UriReachable, IInv, NEW c \in Call, AddSoap(c)
  PROVE  UriReachable'
<1> SUFFICES ASSUME OneIdPerService, NEW d \in LiveSoap', NEW s \in SoapSlots(d),
                    s[1] \in {"uri_sam", "uri_methods", "wsph"}
             PROVE  table'[s] # None /\ table'[s].ws = d.ws
  BY DEF UriReachable
<1>1. live \subseteq Call /\ c # None
  BY CallFacts DEF IInv, TypeOK
<1>2. d \in Call /\ (d \in LiveSoap \/ d = c)
  BY <1>1 DEF LiveSoap, AddSoap
<1>3. s \in Slot
  BY <1>2, CallFacts
<1>4. table'[s] = IF s \in Claimed(c) THEN c ELSE table[s]
  BY <1>3 DEF AddSoap
<1>5. ASSUME NEW e \in LiveSoap, NEW k \in SoapSlots(e),
             k[1] \in {"uri_sam", "uri_methods", "wsph"}
      PROVE  table[k] # None /\ table[k].ws = e.ws
  BY <1>5 DEF UriReachable
<1>6. CASE d \in LiveSoap
  BY <1>3, <1>4, <1>5, <1>6 DEF Claimed
<1>7. CASE d = c
  <2>1. CASE table[s] = None
    BY <1>1, <1>4, <1>7, <2>1 DEF Claimed
  <2>2. CASE table[s] # None
    <3> DEFINE e == table[s]
               k == <<"wsph", AltPath(c), None>>
    <3>1. e \in LiveSoap /\ e \in Call /\ s \in SoapSlots(e)
      BY <1>1, <1>3, <2>2 DEF IInv, NoStaleRoute, SoapOnly, LiveSoap
    <3>2. s[2] = AltPath(c) /\ k \in SoapSlots(c)
      BY <1>7, PathKeys
    <3>3. AltPath(e) = AltPath(c) /\ k \in SoapSlots(e)
      BY <3>1, <3>2, PathKeys
    <3>4. table[k] # None /\ table[k].ws = e.ws
      BY <1>5, <3>1, <3>3
    <3>5. k \in Slot
      BY <3>2, CallFacts
    <3>6. table[k].ws = c.ws
      BY <3>4, <3>5 DEF AddSoap, PathConflict
    <3> QED
      BY <1>4, <1>7, <2>2, <3>4, <3>6 DEF Claimed
  <2> QED
    BY <2>1, <2>2
<1> QED
  BY <1>2, <1>6, <1>7

\* removeService() frees the paths of the removed service and no others.
LEMMA RemoveServicePaths ==
  ASSUME UriReachable, IInv, NEW u \in Uid, RemoveService(u)
  PROVE  UriReachable'
<1> SUFFICES ASSUME OneIdPerService, NEW d \in LiveSoap', NEW s \in SoapSlots(d),
                    s[1] \in {"uri_sam", "uri_methods", "wsph"}
             PROVE  table'[s] # None /\ table'[s].ws = d.ws
  BY DEF UriReachable
<1>1. d \in LiveSoap /\ d \in Call /\ d.uid # u
  BY DEF LiveSoap, RemoveService, IInv, TypeOK
<1>2. s \in Slot
  BY <1>1, CallFacts
<1>3. table[s] # None /\ table[s].ws = d.ws
  BY <1>1 DEF UriReachable
<1>4. table[s] \in Call
  BY <1>2, <1>3 DEF IInv, TypeOK
<1>5. table[s].uid # u
  BY <1>1, <1>3, <1>4 DEF OneIdPerService
<1>6. s \notin rtable[u]
  BY <1>2, <1>5 DEF IInv, RevConsistent
<1> QED
  BY <1>2, <1>3, <1>6 DEF RemoveService

\* Every operation registered under a path is found there, and what is found
\* under its path is of its service.
THEOREM PathsAreReachable == Spec => []UriReachable
<1>1. Init => UriReachable
  BY DEF Init, UriReachable, LiveSoap
<1>2. ASSUME IInv, UriReachable, [Next]_vars
      PROVE  UriReachable'
  <2>1. CASE \E c \in Call : AddSoap(c)
    BY <1>2, <2>1, AddSoapPaths
  <2>2. CASE \E u \in Uid : RemoveService(u)
    BY <1>2, <2>2, RemoveServicePaths
  <2>3. CASE \E c \in Call : RejectSoap(c) \/ AddUnbound(c)
    BY <1>2, <2>3, LiveUnchangedPaths DEF RejectSoap, AddUnbound, LiveSoap
  <2>4. CASE \E t \in Thread : HttpCreate(t) \/ \E c \in Call : HttpCheck(t, c)
    BY <1>2, <2>4, LiveUnchangedPaths DEF HttpCreate, HttpCheck, LiveSoap
  <2>5. ASSUME NEW t \in Thread, HttpPut(t)
        PROVE  UriReachable'
    <3>1. table' = table
      BY <2>5 DEF HttpPut
    <3>2. LiveSoap' = LiveSoap
      <4>1. BindingOf[pc[t].call.op] = "http"
        BY <1>2, <2>5 DEF HttpPut, IInv, HttpOnlyInThreads, Idle
      <4>2. live' = live \/ live' = live \cup {pc[t].call}
        BY <2>5 DEF HttpPut
      <4> QED
        BY <4>1, <4>2 DEF LiveSoap
    <3> QED
      BY <1>2, <3>1, <3>2, LiveUnchangedPaths
  <2>6. CASE UNCHANGED vars
    BY <1>2, <2>6, LiveUnchangedPaths DEF vars, LiveSoap
  <2> QED
    BY <1>2, <2>1, <2>2, <2>3, <2>4, <2>5, <2>6 DEF Next
<1> QED
  BY Invariance, <1>1, <1>2, PTL DEF Spec

\* Two services are never registered under the same path.
THEOREM PathsAreExclusive == Spec => []PathExclusive
<1>1. IInv /\ UriReachable => PathExclusive
  <2> SUFFICES ASSUME IInv, UriReachable, OneIdPerService,
                      NEW c \in LiveSoap, NEW d \in LiveSoap,
                      AltPath(c) # None, AltPath(c) = AltPath(d)
               PROVE  c.ws = d.ws
    BY DEF PathExclusive
  <2> DEFINE k == <<"wsph", AltPath(c), None>>
  <2>1. c \in Call /\ d \in Call
    BY DEF LiveSoap, IInv, TypeOK
  <2>2. k \in SoapSlots(c) /\ k \in SoapSlots(d)
    BY <2>1, OwnPathKey
  <2>3. k[1] = "wsph"
    OBVIOUS
  <2> QED
    BY <2>2, <2>3 DEF UriReachable
<1> QED
  BY Invariance, PathsAreReachable, <1>1, PTL
-----------------------------------------------------------------------------
(* HTTP bindings *)

\* No two threads are about to create the TreeMap of the same verb.
NoCreateRace ==
  \A t, u \in Thread :
    /\ pc[t].at = "create" /\ pc[u].at = "create"
    /\ VerbOf[pc[t].call.op] = VerbOf[pc[u].call.op]
    => t = u

\* A thread creates the TreeMap of a verb only as long as there is none.
CreatesMissing ==
  \A t \in Thread : pc[t].at = "create" => http[VerbOf[pc[t].call.op]] = None

\* An HTTP operation whose registration returned stays reachable under its verb
\* and path, unless two threads ever were about to create the TreeMap of one verb:
\* of all that the read-locked writes may do to each other, only this loses one.
THEOREM HttpStaysRegistered == Spec /\ []NoCreateRace => []HttpRegistered
<1> DEFINE HInv == HttpRegistered /\ CreatesMissing
<1>1. Init => HInv
  BY DEF Init, HttpRegistered, CreatesMissing, Idle
<1>2. ASSUME IInv, NoCreateRace, HInv, [Next]_vars
      PROVE  HInv'
  <2>1. HttpRegistered /\ CreatesMissing /\ TypeOK
    BY <1>2 DEF IInv
  <2>2. ASSUME http' = http, pc' = pc,
               \A c \in live' : BindingOf[c.op] = "http" => c \in live
        PROVE  HttpRegistered' /\ CreatesMissing'
    BY <2>1, <2>2 DEF HttpRegistered, CreatesMissing
  <2>3. ASSUME NEW c \in Call, AddSoap(c)
        PROVE  HttpRegistered' /\ CreatesMissing'
    BY <2>2, <2>3 DEF AddSoap
  <2>4. ASSUME \/ \E c \in Call : RejectSoap(c) \/ AddUnbound(c)
               \/ \E u \in Uid : RemoveService(u)
               \/ UNCHANGED vars
        PROVE  HttpRegistered' /\ CreatesMissing'
    BY <2>2, <2>4 DEF RejectSoap, AddUnbound, RemoveService, vars
  <2>5. ASSUME NEW t \in Thread, NEW c \in Call, HttpCheck(t, c)
        PROVE  HttpRegistered' /\ CreatesMissing'
    <3>1. HttpRegistered'
      BY <2>1, <2>5 DEF HttpCheck, HttpRegistered
    <3>2. CreatesMissing'
      BY <2>1, <2>5 DEF HttpCheck, CreatesMissing, TypeOK
    <3> QED
      BY <3>1, <3>2
  <2>6. ASSUME NEW t \in Thread, pc[t].at \in {"create", "put"}
        PROVE  /\ pc[t].call \in Call /\ VerbOf[pc[t].call.op] \in Verb
               /\ HttpPath(pc[t].call) \in Path
    <3>1. pc[t] \in {Idle} \cup [at: {"create", "put"}, call: Call]
      BY <2>1 DEF TypeOK
    <3>2. pc[t].call \in Call
      BY <2>6, <3>1 DEF Idle
    <3> QED
      BY <3>2, CallFacts, ConstantsAssumption DEF HttpPath
  <2>7. ASSUME NEW t \in Thread, HttpCreate(t)
        PROVE  HttpRegistered' /\ CreatesMissing'
    <3> DEFINE v == VerbOf[pc[t].call.op]
    <3>1. v \in Verb /\ http[v] = None
      BY <2>1, <2>6, <2>7 DEF HttpCreate, CreatesMissing
    <3>2. \A w \in Verb : http[w] # None => http'[w] = http[w]
      BY <2>1, <2>7, <3>1 DEF HttpCreate, TypeOK
    <3>3. HttpRegistered'
      <4> SUFFICES ASSUME NEW c \in live, BindingOf[c.op] = "http"
                   PROVE  http'[VerbOf[c.op]] # None /\ http'[VerbOf[c.op]][HttpPath(c)] # None
        BY <2>7 DEF HttpCreate, HttpRegistered
      <4>1. http[VerbOf[c.op]] # None /\ http[VerbOf[c.op]][HttpPath(c)] # None
        BY <2>1 DEF HttpRegistered
      <4>2. VerbOf[c.op] \in Verb
        BY <2>1, CallFacts, ConstantsAssumption DEF TypeOK
      <4> QED
        BY <3>2, <4>1, <4>2
    <3>4. CreatesMissing'
      <4> SUFFICES ASSUME NEW u \in Thread, pc'[u].at = "create"
                   PROVE  http'[VerbOf[pc'[u].call.op]] = None
        BY DEF CreatesMissing
      <4>1. u # t /\ pc'[u] = pc[u]
        BY <2>1, <2>7 DEF HttpCreate, TypeOK
      <4>2. http[VerbOf[pc[u].call.op]] = None
        BY <2>1, <4>1 DEF CreatesMissing
      <4>3. VerbOf[pc[u].call.op] # v
        BY <1>2, <2>7, <4>1 DEF NoCreateRace, HttpCreate
      <4>4. VerbOf[pc[u].call.op] \in Verb
        BY <2>6, <4>1
      <4> QED
        BY <2>1, <2>7, <3>1, <4>1, <4>2, <4>3, <4>4 DEF HttpCreate, TypeOK
    <3> QED
      BY <3>3, <3>4
  <2>8. ASSUME NEW t \in Thread, HttpPut(t)
        PROVE  HttpRegistered' /\ CreatesMissing'
    <3> DEFINE c == pc[t].call
               v == VerbOf[c.op]
               p == HttpPath(c)
    <3>1. c \in Call /\ v \in Verb /\ p \in Path /\ http[v] # None
      BY <2>1, <2>6, <2>8 DEF HttpPut, TypeOK
    <3>2. http[v] \in [Path -> Call \cup {None}]
      BY <2>1, <3>1 DEF TypeOK
    <3>3. CreatesMissing'
      <4> SUFFICES ASSUME NEW u \in Thread, pc'[u].at = "create"
                   PROVE  http'[VerbOf[pc'[u].call.op]] = None
        BY DEF CreatesMissing
      <4>1. u # t /\ pc'[u] = pc[u]
        BY <2>1, <2>8 DEF HttpPut, TypeOK, Idle
      <4>2. http[VerbOf[pc[u].call.op]] = None
        BY <2>1, <4>1 DEF CreatesMissing
      <4>3. VerbOf[pc[u].call.op] \in Verb /\ VerbOf[pc[u].call.op] # v
        BY <2>6, <3>1, <4>1, <4>2
      <4>4. http' = http \/ http' = [http EXCEPT ![v] = [http[v] EXCEPT ![p] = c]]
        BY <2>8 DEF HttpPut
      <4> QED
        BY <2>1, <3>1, <4>1, <4>2, <4>3, <4>4 DEF TypeOK
    <3>4. CASE p \in WithQuery
      <4>1. http' = http /\ live' = live
        BY <2>8, <3>4 DEF HttpPut
      <4> QED
        BY <2>1, <3>3, <4>1 DEF HttpRegistered
    <3>5. CASE p \notin WithQuery
      <4>1. /\ http' = [http EXCEPT ![v] = [http[v] EXCEPT ![p] = c]]
            /\ live' = live \cup {c}
        BY <2>8, <3>5 DEF HttpPut
      <4>2. [http[v] EXCEPT ![p] = c] # None
        <5>1. [http[v] EXCEPT ![p] = c] \in [Path -> Call \cup {None}]
          BY <3>1, <3>2
        <5> QED
          BY <5>1, ConstantsAssumption
      <4>3. ASSUME NEW w \in Verb, http[w] # None
            PROVE  /\ http'[w] # None
                   /\ \A q \in Path : http[w][q] # None \/ (w = v /\ q = p) => http'[w][q] # None
        <5>1. CASE w = v
          <6>1. http'[w] = [http[v] EXCEPT ![p] = c]
            BY <2>1, <3>1, <4>1, <5>1 DEF TypeOK
          <6> QED
            BY <3>1, <3>2, <4>2, <5>1, <6>1, CallFacts
        <5>2. CASE w # v
          BY <2>1, <4>1, <4>3, <5>2 DEF TypeOK
        <5> QED
          BY <5>1, <5>2
      <4>4. ASSUME NEW d \in live', BindingOf[d.op] = "http"
            PROVE  http'[VerbOf[d.op]] # None /\ http'[VerbOf[d.op]][HttpPath(d)] # None
        <5>1. d \in Call
          BY <2>1, <3>1, <4>1 DEF TypeOK
        <5>2. VerbOf[d.op] \in Verb /\ HttpPath(d) \in Path
          BY <5>1, CallFacts, ConstantsAssumption DEF HttpPath
        <5>3. http[VerbOf[d.op]] # None
              /\ (http[VerbOf[d.op]][HttpPath(d)] # None \/ d = c)
          BY <2>1, <3>1, <4>1, <4>4 DEF HttpRegistered
        <5> QED
          BY <4>3, <5>2, <5>3
      <4> QED
        BY <3>3, <4>4 DEF HttpRegistered
    <3> QED
      BY <3>4, <3>5
  <2> QED
    BY <1>2, <2>3, <2>4, <2>5, <2>7, <2>8 DEF Next
<1> QED
  BY Invariance, <1>1, <1>2, PTL DEF Spec

-----------------------------------------------------------------------------
(* The registry under requests *)

\* A request changes nothing in the registry: with requests it behaves as without.
THEOREM RequestsOnlyRead == RequestSpec => Spec
<1>1. RequestInit => Init
  BY DEF RequestInit
<1>2. [RequestNext]_reqVars => [Next]_vars
  BY DEF RequestNext, Registry, Handle, reqVars, vars
<1> QED
  BY <1>1, <1>2, PTL DEF RequestSpec, Spec

\* The entry of a path in a TreeMap was registered for that path.
TreeEntries ==
  \A v \in Verb : http[v] # None =>
    \A p \in Path : http[v][p] # None => HttpPath(http[v][p]) = p

LEMMA TreeEntriesKept ==
  ASSUME IInv, TreeEntries, [Next]_vars
  PROVE  TreeEntries'
<1>1. TypeOK
  BY DEF IInv
<1>2. ASSUME http' = http
      PROVE  TreeEntries'
  BY <1>2 DEF TreeEntries
<1>3. ASSUME NEW t \in Thread, pc[t].at \in {"create", "put"}
      PROVE  /\ pc[t].call \in Call /\ VerbOf[pc[t].call.op] \in Verb
             /\ HttpPath(pc[t].call) \in Path
  <2>1. pc[t] \in {Idle} \cup [at: {"create", "put"}, call: Call]
    BY <1>1 DEF TypeOK
  <2>2. pc[t].call \in Call
    BY <1>3, <2>1 DEF Idle
  <2> QED
    BY <2>2, CallFacts, ConstantsAssumption DEF HttpPath
<1>4. ASSUME NEW t \in Thread, HttpCreate(t)
      PROVE  TreeEntries'
  <2> DEFINE v == VerbOf[pc[t].call.op]
  <2>1. v \in Verb
    BY <1>3, <1>4 DEF HttpCreate
  <2>2. \A w \in Verb : http'[w] = IF w = v THEN EmptyTree ELSE http[w]
    BY <1>1, <1>4, <2>1 DEF HttpCreate, TypeOK
  <2> QED
    BY <2>2 DEF TreeEntries, EmptyTree
<1>5. ASSUME NEW t \in Thread, HttpPut(t)
      PROVE  TreeEntries'
  <2> DEFINE c == pc[t].call
             v == VerbOf[c.op]
             q == HttpPath(c)
  <2>1. c \in Call /\ v \in Verb /\ q \in Path /\ http[v] # None
    BY <1>1, <1>3, <1>5 DEF HttpPut, TypeOK
  <2>2. http[v] \in [Path -> Call \cup {None}]
    BY <1>1, <2>1 DEF TypeOK
  <2>3. CASE q \in WithQuery
    BY <1>2, <1>5, <2>3 DEF HttpPut
  <2>4. CASE q \notin WithQuery
    <3>1. http' = [http EXCEPT ![v] = [http[v] EXCEPT ![q] = c]]
      BY <1>5, <2>4 DEF HttpPut
    <3>2. \A w \in Verb : http'[w] = IF w = v THEN [http[v] EXCEPT ![q] = c] ELSE http[w]
      BY <1>1, <2>1, <3>1 DEF TypeOK
    <3>3. \A p \in Path : [http[v] EXCEPT ![q] = c][p] = IF p = q THEN c ELSE http[v][p]
      BY <2>1, <2>2
    <3> SUFFICES ASSUME NEW w \in Verb, http'[w] # None, NEW p \in Path, http'[w][p] # None
                 PROVE  HttpPath(http'[w][p]) = p
      BY DEF TreeEntries
    <3>4. CASE w = v /\ p = q
      BY <3>2, <3>3, <3>4
    <3>5. CASE ~(w = v /\ p = q)
      <4>1. http[w] # None /\ http'[w][p] = http[w][p]
        BY <2>1, <3>2, <3>3, <3>5
      <4> QED
        BY <4>1 DEF TreeEntries
    <3> QED
      BY <3>4, <3>5
  <2> QED
    BY <2>3, <2>4
<1> QED
  BY <1>2, <1>4, <1>5
  DEF Next, AddSoap, RejectSoap, AddUnbound, RemoveService, HttpCheck, vars

-----------------------------------------------------------------------------
(* What the lookups find *)

LEMMA RequestFacts ==
  ASSUME NEW r \in Request
  PROVE  /\ r # None /\ r.verb \in Verb /\ r.path \in Path /\ r.path # None
         /\ r.alt \in Path \cup {None} /\ r.action \in Action \cup {None}
         /\ r.element \in Name \cup {None}
         /\ Bare[r.path] \in Path /\ BaseName[Bare[r.path]] \in Path
BY RequestAssumption, ConstantsAssumption DEF RequestType

\* a ?? b is a or b, and a when it is there.
LEMMA Coalesce ==
  ASSUME NEW a, NEW b
  PROVE  /\ (a ?? b) \in {a, b}
         /\ a # None => (a ?? b) = a
         /\ a = None => (a ?? b) = b
BY DEF ??

\* What a key holds is a registration that was not removed.
LEMMA AtFacts ==
  ASSUME TypeOK, NoStaleRoute, NEW s
  PROVE  At(s) \in Call \cup {None} /\ (At(s) # None => At(s) \in live)
BY DEF At, TypeOK, NoStaleRoute

LEMMA CoalesceFound ==
  ASSUME TypeOK, NEW a \in live \cup {None}, NEW b \in live \cup {None}
  PROVE  (a ?? b) \in live \cup {None}
BY DEF ??

LEMMA FoundIsLive ==
  ASSUME TypeOK, NoStaleRoute, NEW r \in Request
  PROVE  /\ ByAction(r) \in live \cup {None}
         /\ ByElement(r) \in live \cup {None}
         /\ ByService(r) \in live \cup {None}
<1>1. \A s : At(s) \in live \cup {None}
  BY AtFacts
<1>2. \A p : TryMatch(p) \in live \cup {None}
  BY <1>1, CoalesceFound DEF TryMatch
<1> QED
  BY <1>1, <1>2, CoalesceFound DEF ByAction, ByElement, ByService

\* The tree lookup finds a registration; without a root path and for an operation
\* that must match the whole path, the one registered under the path.
LEMMA FoundInTree ==
  ASSUME TypeOK, TreeEntries, NEW r \in Request
  PROVE  /\ ByHttp(r) \in Call \cup {None}
         /\ ByHttp(r) # None /\ r.alt = None /\ ByHttp(r).op \in Exact
              => HttpPath(ByHttp(r)) \in {r.path, Bare[r.path]}
<1> DEFINE tree == http[r.verb]
<1>1. r.path \in Path /\ r.alt \in Path \cup {None} /\ r.verb \in Verb /\ None \notin Path
  BY RequestFacts, ConstantsAssumption
<1>2. CASE tree = None
  BY <1>2 DEF ByHttp
<1>3. CASE tree # None
  <2>1. tree \in [Path -> Call \cup {None}]
    BY <1>1, <1>3 DEF TypeOK
  <2> HIDE DEF tree
  <2>2. ASSUME NEW p \in Path
        PROVE  /\ LongestPrefix(tree, p) \in Path \cup {None}
               /\ TreeGet(tree, p) \in Call \cup {None}
    <3> DEFINE keys == {q \in Path : tree[q] # None /\ <<p, q>> \in Under}
    <3>1. CASE keys = {}
      BY <3>1 DEF LongestPrefix, TreeGet
    <3>2. CASE keys # {}
      <4>1. keys \in SUBSET {q \in Path : <<p, q>> \in Under}
        OBVIOUS
      <4>2. \E q \in keys : \A k \in keys : <<q, k>> \in Under
        BY <3>2, <4>1, LeadingParts
      <4>3. LongestPrefix(tree, p) = CHOOSE q \in keys : \A k \in keys : <<q, k>> \in Under
        BY <3>2 DEF LongestPrefix
      <4>4. LongestPrefix(tree, p) \in keys
        BY <4>2, <4>3
      <4> QED
        BY <2>1, <4>4 DEF TreeGet
    <3> QED
      BY <3>1, <3>2
  <2>3. MatchMethod(tree, r.path) \in {TreeGet(tree, r.path), None}
    BY DEF MatchMethod
  <2>4. ByHttp(r) = (MatchMethod(tree, r.path)
                       ?? (IF r.alt = None THEN None ELSE TreeGet(tree, r.alt)))
    BY <1>3 DEF ByHttp, tree
  <2>5. ByHttp(r) \in Call \cup {None}
    BY <1>1, <2>2, <2>3, <2>4 DEF ??
  <2>6. ASSUME ByHttp(r) # None, r.alt = None, ByHttp(r).op \in Exact
        PROVE  HttpPath(ByHttp(r)) \in {r.path, Bare[r.path]}
    <3>1. ByHttp(r) = MatchMethod(tree, r.path)
      BY <2>4, <2>6 DEF ??
    <3>2. ByHttp(r) = TreeGet(tree, r.path) /\ LongestPrefix(tree, r.path) \in {r.path, Bare[r.path]}
      BY <2>6, <3>1 DEF MatchMethod
    <3>3. PICK p \in {r.path, Bare[r.path]} : ByHttp(r) = tree[p] /\ p \in Path
      BY <1>1, <3>2, RequestFacts DEF TreeGet
    <3> QED
      BY <1>1, <1>3, <2>6, <3>3 DEF TreeEntries, tree
  <2> QED
    BY <2>5, <2>6
<1> QED
  BY <1>2, <1>3

\* The keys of a registration under its own path.
LEMMA OwnKeys ==
  ASSUME NEW c \in Call, AltPath(c) # None
  PROVE  /\ <<"wsph", AltPath(c), None>> \in SoapSlots(c)
         /\ ActionOf[c.op] # None => <<"uri_sam", AltPath(c), ActionOf[c.op]>> \in SoapSlots(c)
         /\ \A n \in MethodNames(c.op) : <<"uri_methods", AltPath(c), n>> \in SoapSlots(c)
<1>1. AltPath(c) \in Path /\ c.op \in Operation
  BY CallFacts
<1>2. ActionOf[c.op] # None => ActionOf[c.op] \in Action
  BY <1>1, ConstantsAssumption
<1>3. \A n \in MethodNames(c.op) : n \in Name
  BY <1>1, ConstantsAssumption DEF MethodNames
<1>4. <<"wsph", AltPath(c), None>> \in SoapSlots(c)
  BY OwnPathKey
<1>5. ASSUME ActionOf[c.op] # None
      PROVE  <<"uri_sam", AltPath(c), ActionOf[c.op]>> \in SoapSlots(c)
  <2>1. <<"uri_sam", AltPath(c), ActionOf[c.op]>> \in Slot
    BY <1>1, <1>2, <1>5 DEF Slot
  <2> QED
    BY <2>1 DEF SoapSlots
<1>6. ASSUME NEW n \in MethodNames(c.op)
      PROVE  <<"uri_methods", AltPath(c), n>> \in SoapSlots(c)
  <2>1. <<"uri_methods", AltPath(c), n>> \in Slot
    BY <1>1, <1>3 DEF Slot
  <2> QED
    BY <2>1 DEF SoapSlots
<1> QED
  BY <1>4, <1>5, <1>6

\* The paths under which the lookups look.
Asked(r) == r.verb = "GET" /\ r.wsdl
LookedUnder(r) == {OwnPath(r), r.alt} \cup (IF Asked(r) THEN {BaseName[OwnPath(r)]} ELSE {})

LEMMA PathsOfRequest ==
  ASSUME NEW r
  PROVE  /\ r.verb = "POST" => OwnPath(r) = r.path /\ LookedUnder(r) = {r.path, r.alt}
         /\ Asked(r) => OwnPath(r) = Bare[r.path]
         /\ Asked(r) => LookedUnder(r) = {OwnPath(r), r.alt, BaseName[OwnPath(r)]}
BY DEF OwnPath, LookedUnder, Asked

\* A registration under one of these paths makes the lookup succeed; under the
\* request's own path, what is found is of its service.
LEMMA LiveIsFound ==
  ASSUME TypeOK, UriReachable, OneIdPerService, NEW r \in Request,
         NEW c \in LiveSoap, AltPath(c) # None, AltPath(c) \in LookedUnder(r)
  PROVE  /\ r.verb = "POST" /\ r.action # None /\ ActionOf[c.op] = r.action =>
              /\ ByAction(r) # None
              /\ AltPath(c) = OwnPath(r) => ByAction(r).ws = c.ws
         /\ r.verb = "POST" /\ r.element \in MethodNames(c.op) =>
              /\ ByElement(r) # None
              /\ AltPath(c) = OwnPath(r) => ByElement(r).ws = c.ws
         /\ Asked(r) =>
              /\ ByService(r) # None
              /\ AltPath(c) = OwnPath(r) => ByService(r).ws = c.ws
<1>1. c \in Call
  BY DEF LiveSoap, TypeOK
<1>2. SoapSlots(c) \subseteq Slot
  BY <1>1, CallFacts
<1>3. \A s \in SoapSlots(c) :
        s[1] \in {"uri_sam", "uri_methods", "wsph"} => At(s) # None /\ At(s).ws = c.ws
  BY <1>2 DEF UriReachable, At
<1>4. ASSUME r.verb = "POST", r.action # None, ActionOf[c.op] = r.action
      PROVE  ByAction(r) # None /\ (AltPath(c) = OwnPath(r) => ByAction(r).ws = c.ws)
  <2>1. <<"uri_sam", AltPath(c), r.action>> \in SoapSlots(c)
    BY <1>1, <1>4, OwnKeys
  <2>2. At(<<"uri_sam", AltPath(c), r.action>>) # None
        /\ At(<<"uri_sam", AltPath(c), r.action>>).ws = c.ws
    BY <1>3, <2>1
  <2> QED
    BY <1>4, <2>2, PathsOfRequest DEF ByAction, ??
<1>5. ASSUME r.verb = "POST", r.element \in MethodNames(c.op)
      PROVE  ByElement(r) # None /\ (AltPath(c) = OwnPath(r) => ByElement(r).ws = c.ws)
  <2>1. <<"uri_methods", AltPath(c), r.element>> \in SoapSlots(c)
    BY <1>1, <1>5, OwnKeys
  <2>2. At(<<"uri_methods", AltPath(c), r.element>>) # None
        /\ At(<<"uri_methods", AltPath(c), r.element>>).ws = c.ws
    BY <1>3, <2>1
  <2> QED
    BY <1>5, <2>2, PathsOfRequest DEF ByElement, ??
<1>6. ASSUME Asked(r)
      PROVE  ByService(r) # None /\ (AltPath(c) = OwnPath(r) => ByService(r).ws = c.ws)
  <2>1. <<"wsph", AltPath(c), None>> \in SoapSlots(c)
    BY <1>1, OwnKeys
  <2>2. At(<<"wsph", AltPath(c), None>>) # None /\ At(<<"wsph", AltPath(c), None>>).ws = c.ws
    BY <1>3, <2>1
  <2>3. TryMatch(AltPath(c)) = At(<<"wsph", AltPath(c), None>>)
    BY <2>2 DEF TryMatch, ??
  <2> QED
    BY <1>6, <2>2, <2>3, PathsOfRequest DEF ByService, ??
<1> QED
  BY <1>4, <1>5, <1>6
-----------------------------------------------------------------------------
(* The inductive invariant of a request *)

\* The stages, and what the request must be like to get there.
Stages ==
  /\ req.at = "idle" <=> req = NoRequest
  /\ req.at = "action" => req.in.verb = "POST" /\ req.in.action # None
  /\ req.at = "element" => req.in.verb = "POST"
  /\ req.at = "wsdl" => req.in.verb = "GET" /\ req.in.wsdl

\* What the history variables remember of the registry.
History ==
  req.at # "idle" => req.in \in Request /\ req.steady \subseteq live /\ live \subseteq req.seen

\* A SOAP registration where the request is looked for, there since it arrived.
Steady(c) ==
  /\ c \in req.steady /\ BindingOf[c.op] = "soap"
  /\ AltPath(c) # None /\ AltPath(c) \in LookedUnder(req.in)

\* When the SOAPAction was looked up in vain, none of them has it.
ActionMissed ==
  OneIdPerService /\ req.at \in {"http", "element", "wsdl", "failed"} =>
    \A c : Steady(c) /\ req.in.verb = "POST" /\ req.in.action # None =>
             ActionOf[c.op] # req.in.action

\* SteadyServed and OwnPathFirst, said of what is Steady.
NoneRefused ==
  OneIdPerService /\ req.at = "failed" =>
    \A c : Steady(c) => ~Serves(c, req.in)
OwnServiceFound ==
  OneIdPerService /\ req.at = "call" /\ req.via # "http" =>
    \A c : /\ Steady(c)
           /\ AltPath(c) = OwnPath(req.in)
           /\ \/ req.via = "action" /\ ActionOf[c.op] = req.in.action
              \/ req.via = "element" /\ req.in.element \in MethodNames(c.op)
              \/ req.via = "wsdl"
           => req.found.ws = c.ws

ReqInv ==
  /\ RequestTypeOK /\ Stages /\ History /\ ActionMissed
  /\ NoneRefused /\ OwnServiceFound /\ NotRemovedBefore /\ ExactMatchRespected

RegInv == IInv /\ UriReachable /\ TreeEntries

\* What is steady is a live SOAP registration.
LEMMA SteadyIsLive ==
  ASSUME History, req.at # "idle", NEW c
  PROVE  Steady(c) => c \in LiveSoap
BY DEF History, Steady, LiveSoap

LEMMA PathProperties == ReqInv => SteadyServed /\ OwnPathFirst
<1> SUFFICES ASSUME ReqInv
             PROVE  SteadyServed /\ OwnPathFirst
  OBVIOUS
<1>1. req.at # "idle" => \A c : c \in req.steady \cap LiveSoap
                                  => c \in req.steady /\ BindingOf[c.op] = "soap"
  BY DEF LiveSoap
<1>2. req.at # "idle" => OwnPath(req.in) # None
  BY RequestFacts, ConstantsAssumption DEF ReqInv, History, OwnPath
<1>3. SteadyServed
  <2> SUFFICES ASSUME req.at = "failed", OneIdPerService,
                      NEW c \in req.steady \cap LiveSoap, AltPath(c) # None,
                      Serves(c, req.in), ~HiddenByQuery(c, req.in)
               PROVE  FALSE
    BY DEF SteadyServed
  <2>1. AltPath(c) \in LookedUnder(req.in)
    <3>1. CASE req.in.verb = "POST"
      BY <3>1, PathsOfRequest DEF Serves
    <3>2. CASE Asked(req.in)
      BY <3>2, PathsOfRequest DEF Serves, HiddenByQuery, Asked
    <3> QED
      BY <3>1, <3>2 DEF Serves, Asked
  <2>2. Steady(c)
    BY <1>1, <2>1 DEF Steady
  <2> QED
    BY <2>2 DEF ReqInv, NoneRefused
<1>4. OwnPathFirst
  BY <1>1, <1>2 DEF ReqInv, OwnServiceFound, OwnPathFirst, Steady, LookedUnder
<1> QED
  BY <1>3, <1>4

-----------------------------------------------------------------------------
(* Invariance *)

\* Registrations and removals between two lookups take nothing back.
LEMMA RegistryKeeps ==
  ASSUME ReqInv, IInv, IInv', Registry
  PROVE  ReqInv'
<1>1. CASE req = NoRequest
  <2>1. req' = req /\ req.at = "idle"
    BY <1>1 DEF Registry, NoRequest
  <2> QED
    BY <2>1 DEF ReqInv, RequestTypeOK, Stages, History, ActionMissed, NoneRefused, OwnServiceFound,
       NotRemovedBefore, ExactMatchRespected
<1>2. CASE req # NoRequest
  <2>1. req.at # "idle"
    BY <1>2 DEF ReqInv, Stages
  <2>2. /\ req'.at = req.at /\ req'.in = req.in /\ req'.found = req.found /\ req'.via = req.via
        /\ req'.steady = req.steady \cap live' /\ req'.seen = req.seen \cup live'
        /\ req' \in [at: {"idle", "action", "http", "element", "wsdl", "call", "failed"},
                     in: Request \cup {None}, found: Call \cup {None},
                     via: {"none", "action", "http", "element", "wsdl"},
                     steady: SUBSET Call, seen: SUBSET Call]
    <3>1. req' = [req EXCEPT !.steady = req.steady \cap live', !.seen = req.seen \cup live']
      BY <1>2 DEF Registry
    <3>2. live' \subseteq Call
      BY DEF IInv, TypeOK
    <3> QED
      BY <3>1, <3>2 DEF ReqInv, RequestTypeOK
  <2>3. \A c : Steady(c)' => Steady(c)
    BY <2>2 DEF Steady
  <2>4. RequestTypeOK' /\ History'
    BY <2>1, <2>2 DEF ReqInv, RequestTypeOK, History
  <2>5. Stages'
    BY <2>1, <2>2 DEF ReqInv, Stages, NoRequest
  <2>6. ActionMissed'
    BY <2>2, <2>3 DEF ReqInv, ActionMissed
  <2>7. NoneRefused'
    <3>1. \A c : Serves(c, req'.in) <=> Serves(c, req.in)
      BY <2>2
    <3> QED
      BY <2>2, <2>3, <3>1 DEF ReqInv, NoneRefused
  <2>8. OwnServiceFound'
    BY <2>2, <2>3 DEF ReqInv, OwnServiceFound
  <2>9. NotRemovedBefore' /\ ExactMatchRespected'
    BY <2>2 DEF ReqInv, NotRemovedBefore, ExactMatchRespected
  <2> QED
    BY <2>4, <2>5, <2>6, <2>7, <2>8, <2>9 DEF ReqInv
<1> QED
  BY <1>1, <1>2

\* A request that arrives has found and missed nothing.
LEMMA ReceiveKeeps ==
  ASSUME RegInv, NEW r \in Request, Receive(r), UNCHANGED vars
  PROVE  ReqInv'
<1>1. req' = [at |-> IF r.verb = "POST" /\ r.action # None THEN "action" ELSE "http",
              in |-> r, found |-> None, via |-> "none", steady |-> live, seen |-> live]
  BY DEF Receive
<1>2. live' = live /\ live \subseteq Call
  BY DEF vars, RegInv, IInv, TypeOK
<1>3. RequestTypeOK' /\ History'
  BY <1>1, <1>2 DEF RequestTypeOK, History
<1>4. Stages'
  BY <1>1 DEF Stages, NoRequest
<1>5. ActionMissed'
  BY <1>1 DEF ActionMissed
<1>6. NoneRefused' /\ OwnServiceFound' /\ NotRemovedBefore' /\ ExactMatchRespected'
  BY <1>1 DEF NoneRefused, OwnServiceFound, NotRemovedBefore, ExactMatchRespected
<1> QED
  BY <1>3, <1>4, <1>5, <1>6 DEF ReqInv

\* What a lookup changes: the stage, and what was found by what.
Looked(at, c, via) ==
  /\ req' \in [at: {"idle", "action", "http", "element", "wsdl", "call", "failed"},
               in: Request \cup {None}, found: Call \cup {None},
               via: {"none", "action", "http", "element", "wsdl"},
               steady: SUBSET Call, seen: SUBSET Call]
  /\ req'.at = at /\ req'.found = c /\ req'.via = via
  /\ req'.in = req.in /\ req'.steady = req.steady /\ req'.seen = req.seen

\* Lookups that fail go on to the next stage, or to the refusal.
LEMMA MissKeeps ==
  ASSUME ReqInv, UNCHANGED vars, req.at # "idle", NEW at, NEW c, NEW via, Looked(at, c, via),
         at \in {"http", "element", "wsdl", "failed"},
         at = "element" => req.in.verb = "POST",
         at = "wsdl" => req.in.verb = "GET" /\ req.in.wsdl,
         OneIdPerService /\ req.in.verb = "POST" /\ req.in.action # None =>
           \A d : Steady(d) => ActionOf[d.op] # req.in.action,
         at = "failed" /\ OneIdPerService =>
           \A d : Steady(d) => ~Serves(d, req.in)
  PROVE  ReqInv'
<1>1. \A d : Steady(d)' <=> Steady(d)
  BY DEF Steady, Looked
<1>2. live' = live
  BY DEF vars
<1>3. RequestTypeOK' /\ History'
  BY <1>2 DEF ReqInv, RequestTypeOK, History, Looked
<1>4. Stages'
  BY DEF Stages, Looked, NoRequest
<1>5. ActionMissed'
  BY <1>1 DEF ActionMissed, Looked
<1>6. NoneRefused'
  <2>1. \A d : Serves(d, req'.in) <=> Serves(d, req.in)
    BY DEF Looked
  <2> QED
    BY <1>1, <2>1 DEF Looked, NoneRefused
<1>7. OwnServiceFound' /\ NotRemovedBefore' /\ ExactMatchRespected'
  BY DEF Looked, OwnServiceFound, NotRemovedBefore, ExactMatchRespected
<1> QED
  BY <1>3, <1>4, <1>5, <1>6, <1>7 DEF ReqInv

\* Lookups that succeed find a registration that is there, and the one of the
\* service whose path it is.
LEMMA HitKeeps ==
  ASSUME ReqInv, UNCHANGED vars, req.at # "idle", NEW c, NEW via, Looked("call", c, via), c # None,
         via # "http" => c \in live,
         via = "http" /\ req.in.alt = None /\ c.op \in Exact =>
           HttpPath(c) \in {req.in.path, Bare[req.in.path]},
         via # "http" /\ OneIdPerService =>
           \A d : /\ Steady(d)
                  /\ AltPath(d) = OwnPath(req.in)
                  /\ \/ via = "action" /\ ActionOf[d.op] = req.in.action
                     \/ via = "element" /\ req.in.element \in MethodNames(d.op)
                     \/ via = "wsdl"
                  => c.ws = d.ws
  PROVE  ReqInv'
<1>1. \A d : Steady(d)' <=> Steady(d)
  BY DEF Steady, Looked
<1>2. live' = live
  BY DEF vars
<1>3. RequestTypeOK' /\ History'
  BY <1>2 DEF ReqInv, RequestTypeOK, History, Looked
<1>4. Stages'
  BY DEF Stages, Looked, NoRequest
<1>5. ActionMissed' /\ NoneRefused'
  BY DEF ActionMissed, NoneRefused, Looked
<1>6. OwnServiceFound'
  BY <1>1 DEF Looked, OwnServiceFound
<1>7. NotRemovedBefore' /\ ExactMatchRespected'
  BY DEF ReqInv, History, Looked, NotRemovedBefore, ExactMatchRespected
<1> QED
  BY <1>3, <1>4, <1>5, <1>6, <1>7 DEF ReqInv

\* Every step of the handler keeps the invariant.
LEMMA HandleKeeps ==
  ASSUME RegInv, ReqInv, Handle
  PROVE  ReqInv'
<1> DEFINE r == req.in
<1>1. UNCHANGED vars
  BY DEF Handle
<1>2. TypeOK /\ NoStaleRoute /\ UriReachable /\ TreeEntries
  BY DEF RegInv, IInv
<1>3. req \in [at: {"idle", "action", "http", "element", "wsdl", "call", "failed"},
               in: Request \cup {None}, found: Call \cup {None},
               via: {"none", "action", "http", "element", "wsdl"},
               steady: SUBSET Call, seen: SUBSET Call]
  BY DEF ReqInv, RequestTypeOK
<1>4. req.at # "idle" => r \in Request
  BY DEF ReqInv, History
<1>5. live \subseteq Call /\ None \notin live
  BY <1>2, ConstantsAssumption DEF TypeOK
<1>6. ASSUME req.at # "idle", OneIdPerService, NEW d, Steady(d)
      PROVE  /\ r.verb = "POST" /\ r.action # None /\ ActionOf[d.op] = r.action =>
                  ByAction(r) # None /\ (AltPath(d) = OwnPath(r) => ByAction(r).ws = d.ws)
             /\ r.verb = "POST" /\ r.element \in MethodNames(d.op) =>
                  ByElement(r) # None /\ (AltPath(d) = OwnPath(r) => ByElement(r).ws = d.ws)
             /\ Asked(r) =>
                  ByService(r) # None /\ (AltPath(d) = OwnPath(r) => ByService(r).ws = d.ws)
  <2>1. d \in LiveSoap /\ AltPath(d) # None /\ AltPath(d) \in LookedUnder(r)
    BY <1>6, SteadyIsLive DEF ReqInv, Steady
  <2> QED
    BY <1>2, <1>4, <1>6, <2>1, LiveIsFound
<1>7. ASSUME NEW q \in Request, Receive(q)
      PROVE  ReqInv'
    BY <1>1, <1>7, ReceiveKeeps
<1>8. ASSUME LookupAction
      PROVE  ReqInv'
  <2> DEFINE c == ByAction(r)
  <2>1. req.at = "action" /\ req.at # "idle" /\ r.verb = "POST" /\ r.action # None
    BY <1>8 DEF LookupAction, ReqInv, Stages
  <2>2. c \in live \cup {None} /\ c \in Call \cup {None}
    BY <1>2, <1>4, <1>5, <2>1, FoundIsLive
  <2> HIDE DEF c
  <2>3. CASE c = None
    <3>1. req' = [req EXCEPT !.at = "http"]
      BY <1>8, <2>3 DEF LookupAction, c
    <3>2. Looked("http", req.found, req.via)
      BY <1>3, <3>1 DEF Looked
    <3>3. OneIdPerService => \A d : Steady(d) => ActionOf[d.op] # r.action
      BY <1>6, <2>1, <2>3 DEF c
    <3> QED
      BY <1>1, <2>1, <3>2, <3>3, MissKeeps
  <2>4. CASE c # None
    <3>1. req' = [req EXCEPT !.at = "call", !.found = c, !.via = "action"]
      BY <1>8, <2>4 DEF LookupAction, c
    <3>2. Looked("call", c, "action")
      BY <1>3, <2>2, <3>1 DEF Looked
    <3>3. OneIdPerService => \A d : Steady(d) /\ AltPath(d) = OwnPath(r) /\ ActionOf[d.op] = r.action
                                      => c.ws = d.ws
      BY <1>6, <2>1 DEF c
    <3> QED
      BY <1>1, <2>1, <2>2, <2>4, <3>2, <3>3, HitKeeps
  <2> QED
    BY <2>3, <2>4
<1>9. ASSUME LookupHttp
      PROVE  ReqInv'
  <2> DEFINE c == ByHttp(r)
             next == IF c # None /\ c.op \in UrlOnly THEN "call"
                     ELSE IF r.verb = "GET" /\ r.wsdl THEN "wsdl"
                     ELSE IF c # None THEN "call"
                     ELSE IF r.verb = "POST" THEN "element"
                     ELSE "failed"
             via == IF next = "call" THEN "http" ELSE req.via
  <2>1. req.at = "http" /\ req.at # "idle"
    BY <1>9 DEF LookupHttp
  <2>2. /\ c \in Call \cup {None}
        /\ c # None /\ r.alt = None /\ c.op \in Exact => HttpPath(c) \in {r.path, Bare[r.path]}
    BY <1>2, <1>4, <2>1, FoundInTree
  <2>3. req' = [req EXCEPT !.at = next, !.found = c, !.via = via]
    BY <1>9 DEF LookupHttp
  <2>4. /\ next \in {"call", "wsdl", "element", "failed"}
        /\ next = "call" => c # None
        /\ next = "wsdl" => r.verb = "GET" /\ r.wsdl
        /\ next = "element" => r.verb = "POST"
        /\ next = "failed" => r.verb # "POST" /\ ~(r.verb = "GET" /\ r.wsdl)
        /\ via = IF next = "call" THEN "http" ELSE req.via
    OBVIOUS
  <2> HIDE DEF c, next, via
  <2>5. Looked(next, c, via)
    BY <1>3, <2>2, <2>3, <2>4 DEF Looked
  <2>6. CASE next = "call"
    BY <1>1, <2>1, <2>2, <2>4, <2>5, <2>6, HitKeeps
  <2>7. CASE next # "call"
    <3>1. OneIdPerService /\ r.verb = "POST" /\ r.action # None =>
            \A d : Steady(d) => ActionOf[d.op] # r.action
      BY <2>1 DEF ReqInv, ActionMissed
    <3>2. next = "failed" => \A d : ~Serves(d, r)
      BY <2>4 DEF Serves
    <3> QED
      BY <1>1, <2>1, <2>4, <2>5, <2>7, <3>1, <3>2, MissKeeps
  <2> QED
    BY <2>6, <2>7
<1>10. ASSUME LookupElement
       PROVE  ReqInv'
  <2> DEFINE c == ByElement(r)
  <2>1. req.at = "element" /\ req.at # "idle" /\ r.verb = "POST"
    BY <1>10 DEF LookupElement, ReqInv, Stages
  <2>2. c \in live \cup {None} /\ c \in Call \cup {None}
    BY <1>2, <1>4, <1>5, <2>1, FoundIsLive
  <2> HIDE DEF c
  <2>3. CASE c = None
    <3>1. req' = [req EXCEPT !.at = "failed"]
      BY <1>10, <2>3 DEF LookupElement, c
    <3>2. Looked("failed", req.found, req.via)
      BY <1>3, <3>1 DEF Looked
    <3>3. OneIdPerService /\ r.action # None => \A d : Steady(d) => ActionOf[d.op] # r.action
      BY <2>1 DEF ReqInv, ActionMissed
    <3>4. OneIdPerService => \A d : Steady(d) => ~(r.element \in MethodNames(d.op))
      BY <1>6, <2>1, <2>3 DEF c
    <3>5. OneIdPerService => \A d : Steady(d) => ~Serves(d, r)
      BY <2>1, <3>3, <3>4 DEF Serves
    <3> QED
      BY <1>1, <2>1, <3>2, <3>3, <3>5, MissKeeps
  <2>4. CASE c # None
    <3>1. req' = [req EXCEPT !.at = "call", !.found = c, !.via = "element"]
      BY <1>10, <2>4 DEF LookupElement, c
    <3>2. Looked("call", c, "element")
      BY <1>3, <2>2, <3>1 DEF Looked
    <3>3. OneIdPerService =>
            \A d : Steady(d) /\ AltPath(d) = OwnPath(r) /\ r.element \in MethodNames(d.op)
                     => c.ws = d.ws
      BY <1>6, <2>1 DEF c
    <3> QED
      BY <1>1, <2>1, <2>2, <2>4, <3>2, <3>3, HitKeeps
  <2> QED
    BY <2>3, <2>4
<1>11. ASSUME LookupWsdl
       PROVE  ReqInv'
  <2> DEFINE c == ByService(r)
  <2>1. req.at = "wsdl" /\ req.at # "idle" /\ r.verb = "GET" /\ r.wsdl /\ Asked(r)
    BY <1>11 DEF LookupWsdl, ReqInv, Stages, Asked
  <2>2. c \in live \cup {None} /\ c \in Call \cup {None}
    BY <1>2, <1>4, <1>5, <2>1, FoundIsLive
  <2> HIDE DEF c
  <2>3. CASE c = None
    <3>1. req' = [req EXCEPT !.at = "failed", !.found = None]
      BY <1>11, <2>3 DEF LookupWsdl, c
    <3>2. Looked("failed", None, req.via)
      BY <1>3, <3>1 DEF Looked
    <3>3. OneIdPerService => \A d : ~Steady(d)
      BY <1>6, <2>1, <2>3 DEF c
    <3> QED
      BY <1>1, <2>1, <3>2, <3>3, MissKeeps
  <2>4. CASE c # None
    <3>1. req' = [req EXCEPT !.at = "call", !.found = c, !.via = "wsdl"]
      BY <1>11, <2>4 DEF LookupWsdl, c
    <3>2. Looked("call", c, "wsdl")
      BY <1>3, <2>2, <3>1 DEF Looked
    <3>3. OneIdPerService => \A d : Steady(d) /\ AltPath(d) = OwnPath(r) => c.ws = d.ws
      BY <1>6, <2>1 DEF c
    <3> QED
      BY <1>1, <2>1, <2>2, <2>4, <3>2, <3>3, HitKeeps
  <2> QED
    BY <2>3, <2>4
<1>12. ASSUME Answer
       PROVE  ReqInv'
  BY <1>12 DEF Answer, NoRequest, ReqInv, RequestTypeOK, Stages, History, ActionMissed,
     NoneRefused, OwnServiceFound, NotRemovedBefore, ExactMatchRespected
<1> QED
  BY <1>7, <1>8, <1>9, <1>10, <1>11, <1>12 DEF Handle

LEMMA InitReqInv == RequestInit => ReqInv
BY DEF RequestInit, NoRequest, ReqInv, RequestTypeOK, Stages, History, ActionMissed,
   NoneRefused, OwnServiceFound, NotRemovedBefore, ExactMatchRespected

-----------------------------------------------------------------------------
(* The theorems *)

\* What holds of the registry holds of it while requests are answered.
LEMMA RegistryInvariant == RequestSpec => []RegInv
<1>1. Init => TreeEntries
  BY DEF Init, TreeEntries
<1>2. IInv /\ TreeEntries /\ [Next]_vars => TreeEntries'
  BY TreeEntriesKept
<1>3. Spec => []TreeEntries
  BY Invariance, <1>1, <1>2, PTL DEF Spec
<1> QED
  BY RequestsOnlyRead, Invariance, PathsAreReachable, <1>3, PTL DEF RegInv

\* And so are the registry's own properties.
THEOREM RegistryUnderRequests ==
  RequestSpec => /\ [](TypeOK /\ RevConsistent /\ NoStaleRoute /\ PathExclusive /\ UriReachable)
                 /\ RouteStable /\ RejectedForCause
BY RequestsOnlyRead, TypeCorrect, RemovalIsExact, RoutesAreLive, PathsAreExclusive,
   PathsAreReachable, RoutesAreStable, RejectionsHaveACause, PTL

\* The inductive invariant of the requests.
THEOREM RequestInvariant == RequestSpec => []ReqInv
<1>1. ASSUME RegInv, RegInv', ReqInv, [RequestNext]_reqVars
      PROVE  ReqInv'
  <2>1. CASE Registry
    BY <1>1, <2>1, RegistryKeeps DEF RegInv
  <2>2. CASE Handle
    BY <1>1, <2>2, HandleKeeps
  <2>3. CASE UNCHANGED reqVars
    BY <1>1, <2>3 DEF reqVars, ReqInv, RequestTypeOK, Stages, History, ActionMissed, Steady,
       NoneRefused, OwnServiceFound, NotRemovedBefore, ExactMatchRespected
  <2> QED
    BY <1>1, <2>1, <2>2, <2>3 DEF RequestNext
<1> QED
  BY InitReqInv, RegistryInvariant, <1>1, PTL DEF RequestSpec

\* A request is always in one of the handler's stages, with an operation of the
\* registry to call in the last one.
THEOREM RequestTyped == RequestSpec => []RequestTypeOK
BY RequestInvariant, PTL DEF ReqInv

\* A request is never refused for want of a service that was registered, under
\* its path or the path below the root, from its arrival on; except for a WSDL
\* that the query hides below the root.
THEOREM SteadyServices == RequestSpec => []SteadyServed
BY RequestInvariant, PathProperties, PTL

\* A request for the path of a service is not answered by another service.
THEOREM OwnPathWins == RequestSpec => []OwnPathFirst
BY RequestInvariant, PathProperties, PTL

\* No operation is called that was removed before the request arrived.
THEOREM CalledWasThere == RequestSpec => []NotRemovedBefore
BY RequestInvariant, PTL DEF ReqInv

\* An operation that must match the whole path is not called for a longer one.
THEOREM ExactIsExact == RequestSpec => []ExactMatchRespected
BY RequestInvariant, PTL DEF ReqInv
=============================================================================
