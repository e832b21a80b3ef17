---------------------------- MODULE SoapHandler ----------------------------
(***************************************************************************)
(* The routing registry of qlib/SoapHandler.qm: addMethod() and            *)
(* removeService().                                                        *)
(*                                                                         *)
(* The class keeps seven forward maps (sam, uri_sam, wsph, wsh, owsh,      *)
(* methods, uri_methods) and, for each, a reverse map keyed by unique_id   *)
(* that removeService() walks.  All seven are filled by the same rule: the *)
(* first registration to claim a key keeps it, and only the registration   *)
(* that filled a key records it for removal.  They are modelled as one     *)
(* table over tagged keys (Slot): the tag is the name of the map.  An      *)
(* entry is the addMethod() call that filled the key; wsph, wsh and owsh   *)
(* keep only its "ws" in the code.                                         *)
(*                                                                         *)
(* SOAP registrations and removals hold the write lock throughout, so each *)
(* is one step.  HTTP-binding registrations write under the READ lock, so  *)
(* several of them interleave: each is three steps of its thread.          *)
(***************************************************************************)
EXTENDS FiniteSets

CONSTANTS
  Service,       \* WebService objects
  Operation,     \* WSOperation objects
  Uid,           \* values of unique_id
  Path,          \* URI paths and service names
  Name,          \* method names and top-level request element names
  Action,        \* SOAPAction values
  Verb,          \* HTTP methods of HTTP bindings
  Thread,        \* threads that register HTTP bindings
  Call,          \* the addMethod() calls the application may make
  None           \* NOTHING

CONSTANTS
  OpsOf,         \* [Service -> SUBSET Operation]: WebService::listOperations()
  NameOf,        \* [Operation -> Name]: WSOperation::name
  RequestNames,  \* [Operation -> SUBSET Name]: getTopLevelRequestNames()
  ActionOf,      \* [Operation -> Action or None]: SoapBinding::soapAction
  BindingOf,     \* [Operation -> {"soap", "http", "none"}]: getBinding()
  VerbOf,        \* [Operation -> Verb]: HttpBinding::httpMethod
  Location,      \* [Operation -> Path]: HttpBinding::location
  PortPath,      \* [Service \X Path -> Path or None]: path of the first port's address
  Strip,         \* [Path -> Path or None]: one leading "/" removed; None if nothing is left
  LTrim,         \* [Path -> Path]: every leading "/" removed
  WithQuery      \* the paths that contain "?"

\* The arguments of addMethod() that decide where a method is registered.
CallType == [ws: Service, op: Operation, path: Path \cup {None},
             altpath: Path \cup {None}, uid: Uid \cup {None}]

ASSUME ConstantsAssumption ==
  /\ Call \subseteq CallType
  /\ None \notin Call
  /\ None \notin [Path -> Call \cup {None}]
  /\ None \notin Uid \cup Path \cup Action \cup Name
  /\ OpsOf \in [Service -> SUBSET Operation]
  /\ NameOf \in [Operation -> Name]
  /\ RequestNames \in [Operation -> SUBSET Name]
  /\ ActionOf \in [Operation -> Action \cup {None}]
  /\ BindingOf \in [Operation -> {"soap", "http", "none"}]
  /\ VerbOf \in [Operation -> Verb]
  /\ Location \in [Operation -> Path]
  /\ PortPath \in [Service \X Path -> Path \cup {None}]
  /\ Strip \in [Path -> Path \cup {None}]
  /\ LTrim \in [Path -> Path]
  /\ WithQuery \subseteq Path

VARIABLES
  table,     \* the seven forward maps
  rtable,    \* the seven reverse maps: unique_id -> the keys it filled
  http,      \* mapMethodPathToOperation: verb -> TreeMap, or None
  pc,        \* where each thread is in an HTTP-binding registration
  live,      \* history: the accepted registrations that were not removed
  outcome    \* how the last addMethod() call ended: Ok, or the error and the call

vars == <<table, rtable, http, pc, live, outcome>>

-----------------------------------------------------------------------------
(* The keys of the maps *)

Slot ==
  ({"sam"} \X {None} \X Action) \cup
  ({"uri_sam"} \X Path \X Action) \cup
  ({"wsph", "wsh"} \X Path \X {None}) \cup
  ({"owsh", "methods"} \X {None} \X Name) \cup
  ({"uri_methods"} \X Path \X Name)

\* The alternate path a registration is bound to: the caller's, else the
\* path of the service's port address, without its leading slash.
AltPath(c) ==
  LET raw == IF c.altpath = None /\ c.path # None
             THEN PortPath[<<c.ws, c.path>>] ELSE c.altpath
  IN  IF raw = None THEN None ELSE Strip[raw]

MethodNames(op) == RequestNames[op] \cup {NameOf[op]}

\* Every key a SOAP registration tries to fill.  A key with a missing part
\* (no SOAPAction, no path) is not in Slot, as the code skips it.
SoapSlots(c) ==
  LET p == AltPath(c)
      a == ActionOf[c.op]
      names == MethodNames(c.op)
      all == ({"sam"} \X {None} \X {a}) \cup ({"uri_sam"} \X {p} \X {a})
             \cup ({"wsph"} \X {p} \X {None}) \cup ({"wsh"} \X {c.path} \X {None})
             \cup ({"owsh"} \X {None} \X {NameOf[o] : o \in OpsOf[c.ws]})
             \cup ({"methods"} \X {None} \X names)
             \cup ({"uri_methods"} \X {p} \X names)
  IN  all \cap Slot

-----------------------------------------------------------------------------
(* SOAP bindings: under the write lock *)

Idle == [at |-> "idle", call |-> None]
Ok == [code |-> "ok", call |-> None]
NoReaders == \A t \in Thread : pc[t] = Idle

\* Without a path of its own, an operation may not share a SOAPAction with
\* another one; with a path, the path may not belong to another service.
ActionConflict(c) ==
  LET s == <<"sam", None, ActionOf[c.op]>>
  IN  /\ AltPath(c) = None
      /\ s \in Slot
      /\ table[s] # None
      /\ table[s].op # c.op

\* Slip: the conflict is looked for before the port's path is known.
PathConflict_CallerOnly(c) ==
  LET s == <<"wsph", c.altpath, None>>
  IN  s \in Slot /\ table[s] # None /\ table[s].ws # c.ws

PathConflict(c) ==
  LET s == <<"wsph", AltPath(c), None>>
  IN  /\ s \in Slot
      /\ table[s] # None
      /\ table[s].ws # c.ws

\* Slips: a filled key is overwritten; the keys under the path are filled only
\* together with the global ones.
Claimed_All(c) == SoapSlots(c)
Claimed_Nested(c) ==
  {s \in SoapSlots(c) : /\ table[s] = None
                        /\ s[1] = "uri_methods" => table[<<"methods", None, s[3]>>] = None}

Claimed(c) == {s \in SoapSlots(c) : table[s] = None}

AddSoap(c) ==
  /\ BindingOf[c.op] = "soap"
  /\ NoReaders
  /\ ~ActionConflict(c) /\ ~PathConflict(c)
  /\ table' = [s \in Slot |-> IF s \in Claimed(c) THEN c ELSE table[s]]
  /\ rtable' = [u \in Uid |-> IF u = c.uid THEN rtable[u] \cup Claimed(c)
                                           ELSE rtable[u]]
  /\ live' = live \cup {c}
  /\ outcome' = Ok
  /\ UNCHANGED <<http, pc>>

RejectSoap(c) ==
  /\ BindingOf[c.op] = "soap"
  /\ NoReaders
  /\ \/ /\ ActionConflict(c)
        /\ outcome' = [code |-> "SOAPACTION-ERROR", call |-> c]
     \/ /\ ~ActionConflict(c) /\ PathConflict(c)
        /\ outcome' = [code |-> "SOAP-PATH-ERROR", call |-> c]
  /\ UNCHANGED <<table, rtable, http, pc, live>>

AddUnbound(c) ==
  /\ BindingOf[c.op] = "none"
  /\ outcome' = [code |-> "SOAPACTION-ERROR", call |-> c]
  /\ UNCHANGED <<table, rtable, http, pc, live>>

\* What an HTTP binding put into mapMethodPathToOperation is not in the reverse
\* maps: it stays and goes on answering requests.
\*
\* Slips: one of the reverse maps is not cleared; wsph is not cleaned up.
RemoveService_KeepsReverse(u) ==
  /\ NoReaders
  /\ table' = [s \in Slot |-> IF s \in rtable[u] THEN None ELSE table[s]]
  /\ rtable' = [rtable EXCEPT ![u] = {s \in @ : s[1] = "owsh"}]
  /\ live' = {c \in live : c.uid # u}
  /\ UNCHANGED <<http, pc, outcome>>
RemoveService_KeepsPaths(u) ==
  /\ NoReaders
  /\ table' = [s \in Slot |-> IF s \in rtable[u] /\ s[1] # "wsph" THEN None ELSE table[s]]
  /\ rtable' = [rtable EXCEPT ![u] = {}]
  /\ live' = {c \in live : c.uid # u}
  /\ UNCHANGED <<http, pc, outcome>>

RemoveService(u) ==
  /\ NoReaders
  /\ table' = [s \in Slot |-> IF s \in rtable[u] THEN None ELSE table[s]]
  /\ rtable' = [rtable EXCEPT ![u] = {}]
  /\ live' = {c \in live : c.uid # u}
  /\ UNCHANGED <<http, pc, outcome>>

-----------------------------------------------------------------------------
(* HTTP bindings: under the read lock, one step per access to the map *)

HttpPath(c) == LTrim[IF c.path # None THEN c.path ELSE Location[c.op]]
EmptyTree == [p \in Path |-> None]

\* Slip: the TreeMap is never created.
HttpCheck_NeverCreate(t, c) ==
  /\ pc[t] = Idle
  /\ BindingOf[c.op] = "http"
  /\ pc' = [pc EXCEPT ![t] = [at |-> "put", call |-> c]]
  /\ UNCHANGED <<table, rtable, http, live, outcome>>

HttpCheck(t, c) ==
  /\ pc[t] = Idle
  /\ BindingOf[c.op] = "http"
  /\ pc' = [pc EXCEPT ![t] =
             [at |-> IF http[VerbOf[c.op]] = None THEN "create" ELSE "put", call |-> c]]
  /\ UNCHANGED <<table, rtable, http, live, outcome>>

HttpCreate(t) ==
  /\ pc[t].at = "create"
  /\ http' = [http EXCEPT ![VerbOf[pc[t].call.op]] = EmptyTree]
  /\ pc' = [pc EXCEPT ![t] = [at |-> "put", call |-> @.call]]
  /\ UNCHANGED <<table, rtable, live, outcome>>

\* TreeMap::put() replaces the entry an earlier registration left.
HttpPut(t) ==
  LET c == pc[t].call IN
  /\ pc[t].at = "put"
  /\ pc' = [pc EXCEPT ![t] = Idle]
  /\ IF HttpPath(c) \in WithQuery
     THEN /\ outcome' = [code |-> "SOAPACTION-ERROR", call |-> c]
          /\ UNCHANGED <<http, live>>
     ELSE /\ http' = [http EXCEPT ![VerbOf[c.op]][HttpPath(c)] = c]
          /\ live' = live \cup {c}
          /\ outcome' = Ok
  /\ UNCHANGED <<table, rtable>>

-----------------------------------------------------------------------------
Init ==
  /\ table = [s \in Slot |-> None]
  /\ rtable = [u \in Uid |-> {}]
  /\ http = [v \in Verb |-> None]
  /\ pc = [t \in Thread |-> Idle]
  /\ live = {}
  /\ outcome = Ok

Next ==
  \/ \E c \in Call : AddSoap(c) \/ RejectSoap(c) \/ AddUnbound(c)
  \/ \E u \in Uid : RemoveService(u)
  \/ \E t \in Thread : HttpCreate(t) \/ HttpPut(t) \/ \E c \in Call : HttpCheck(t, c)

Spec == Init /\ [][Next]_vars

-----------------------------------------------------------------------------
(* What the registry promises *)

\* Every map holds registrations only, and a thread that is about to put an
\* HTTP operation has a TreeMap to put it into.
TypeOK ==
  /\ table \in [Slot -> Call \cup {None}]
  /\ rtable \in [Uid -> SUBSET Slot]
  /\ http \in [Verb -> {None} \cup [Path -> Call \cup {None}]]
  /\ pc \in [Thread -> {Idle} \cup [at: {"create", "put"}, call: Call]]
  /\ live \subseteq Call
  /\ outcome \in {Ok} \cup [code: {"SOAPACTION-ERROR", "SOAP-PATH-ERROR"}, call: Call]
  /\ \A t \in Thread : pc[t].at = "put" => http[VerbOf[pc[t].call.op]] # None

\* The reverse maps record for each unique_id exactly the keys whose entry it
\* registered: removeService() can neither miss an entry of the service nor
\* drop an entry of another one.
RevConsistent ==
  \A u \in Uid, s \in Slot :
    s \in rtable[u] <=> (table[s] # None /\ table[s].uid = u)

\* A key a request can be matched by belongs to a registration that claims
\* the key and was not removed.
NoStaleRoute ==
  \A s \in Slot : table[s] # None => table[s] \in live /\ s \in SoapSlots(table[s])

\* A step never redirects a key that is being served: it changes the key's
\* entry only when the registration that filled it is removed.
RouteStable ==
  [][\A s \in Slot : table[s] # None /\ table'[s] # table[s] => table[s] \notin live']_vars

\* addMethod() throws SOAPACTION-ERROR or SOAP-PATH-ERROR for a bound operation
\* only because of a registration that is still there: after removeService()
\* the SOAPAction and the path of the service are free again.
RejectedForCause ==
  [][LET c == outcome'.call IN
     /\ outcome' # outcome /\ outcome'.code = "SOAP-PATH-ERROR" =>
          \E d \in live : d.ws # c.ws /\ AltPath(d) = AltPath(c)
     /\ outcome' # outcome /\ outcome'.code = "SOAPACTION-ERROR"
          /\ BindingOf[c.op] = "soap" =>
          /\ AltPath(c) = None
          /\ \E d \in live : d.op # c.op /\ ActionOf[d.op] = ActionOf[c.op]]_vars

-----------------------------------------------------------------------------
(* With one unique_id for all operations of a service, as addMethod()'s      *)
(* documentation asks for, a path belongs to one service and serves it.      *)

OneIdPerService ==
  \A c, d \in Call : c.uid # None /\ (c.ws = d.ws => c.uid = d.uid)

LiveSoap == {c \in live : BindingOf[c.op] = "soap"}

\* Two services are never registered under the same path: SOAP-PATH-ERROR
\* asks for the first one to be removed, and removing it frees the whole path.
PathExclusive ==
  OneIdPerService =>
    \A c, d \in LiveSoap : AltPath(c) # None /\ AltPath(c) = AltPath(d) => c.ws = d.ws

\* A registered operation with a path is found under that path, by SOAPAction,
\* by name and by request element, and what is found there is of its service,
\* whatever was registered and removed before it or after it.
UriReachable ==
  OneIdPerService =>
    \A c \in LiveSoap : \A s \in SoapSlots(c) :
      s[1] \in {"uri_sam", "uri_methods", "wsph"} =>
        table[s] # None /\ table[s].ws = c.ws

-----------------------------------------------------------------------------
(* HTTP bindings *)

\* addMethod() is atomic (the comment on "rwl"): an HTTP operation whose
\* registration returned can be found under its verb and path.
HttpRegistered ==
  \A c \in live : BindingOf[c.op] = "http" =>
    /\ http[VerbOf[c.op]] # None
    /\ http[VerbOf[c.op]][HttpPath(c)] # None
=============================================================================
