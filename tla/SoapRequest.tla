---------------------------- MODULE SoapRequest ----------------------------
(***************************************************************************)
(* SoapHandler::handleRequest(): how a request finds its operation while   *)
(* services are registered and removed.                                    *)
(*                                                                         *)
(* The handler looks an operation up in up to three places (SOAPAction,    *)
(* HTTP binding, request element), takes the read lock for each of them    *)
(* anew and calls the operation without it.  Every lookup and the call are *)
(* steps of their own; addMethod() and removeService() may come between.   *)
(* Requests only read the registry, so one at a time shows all they can    *)
(* see.                                                                    *)
(***************************************************************************)
EXTENDS SoapHandler

CONSTANTS
  Request,       \* the requests clients send
  Bare,          \* [Path -> Path]: the path without its query
  BaseName,      \* [Path -> Path]: everything up to the last "/" removed
  Under,         \* pairs <<p, q>>: q is p or a leading part of it (TreeMap::get)
  UrlOnly,       \* operations whose HTTP input is encoded in the URL
  Exact          \* operations that must match the whole path

\* path has lost one leading "/"; alt is path below cx.root_path, if any; both
\* carry the query of the URL, if any.  wsdl: this query begins with "?wsdl".
RequestType ==
  [verb: Verb, path: Path, alt: Path \cup {None}, action: Action \cup {None},
   element: Name \cup {None}, wsdl: BOOLEAN]

ASSUME RequestAssumption ==
  /\ Request \subseteq RequestType
  /\ None \notin Request
  /\ Bare \in [Path -> Path \ WithQuery]
  /\ \A p \in Path \ WithQuery : Bare[p] = p
  /\ \A r \in Request : r.wsdl => r.path \in WithQuery /\ r.alt \in WithQuery \cup {None}
  /\ BaseName \in [Path -> Path]
  /\ Under \subseteq Path \X Path
  /\ \A p \in Path : <<p, p>> \in Under
  /\ UrlOnly \subseteq Operation
  /\ Exact \subseteq Operation

\* The leading parts of a path are leading parts of one another: some are the longest.
ASSUME LeadingParts ==
  \A p \in Path : \A keys \in SUBSET {q \in Path : <<p, q>> \in Under} :
    keys # {} => \E q \in keys : \A k \in keys : <<q, k>> \in Under

VARIABLE req   \* the request being handled

reqVars == <<table, rtable, http, pc, live, outcome, req>>

NoRequest == [at |-> "idle", in |-> None, found |-> None, via |-> "none",
              steady |-> {}, seen |-> {}]

-----------------------------------------------------------------------------
(* Lookups *)

a ?? b == IF a # None THEN a ELSE b

At(s) == IF s \in Slot THEN table[s] ELSE None

\* Slip: the SOAPAction alone decides when it is known.
ByAction_GlobalFirst(r) ==
  At(<<"sam", None, r.action>>) ?? At(<<"uri_sam", r.path, r.action>>)
    ?? At(<<"uri_sam", r.alt, r.action>>)

\* 759: the path, the path below the root path, any path.
ByAction(r) ==
  At(<<"uri_sam", r.path, r.action>>) ?? At(<<"uri_sam", r.alt, r.action>>)
    ?? At(<<"sam", None, r.action>>)

\* Slip: the path below the root is forgotten.
ByElement_NoRoot(r) ==
  At(<<"uri_methods", r.path, r.element>>) ?? At(<<"methods", None, r.element>>)

\* 909
ByElement(r) ==
  At(<<"uri_methods", r.path, r.element>>) ?? At(<<"uri_methods", r.alt, r.element>>)
    ?? At(<<"methods", None, r.element>>)

\* tryMatch()
TryMatch(p) == At(<<"wsph", p, None>>) ?? At(<<"owsh", None, p>>) ?? At(<<"wsh", p, None>>)

\* 802: the path loses its query, the path below the root keeps it; then the last
\* component of the path is tried.
ByService(r) == TryMatch(Bare[r.path]) ?? TryMatch(r.alt) ?? TryMatch(BaseName[Bare[r.path]])

\* TreeMap::get(): the entry of the longest leading part of the path.
LongestPrefix(tree, p) ==
  LET keys == {q \in Path : tree[q] # None /\ <<p, q>> \in Under}
  IN  IF keys = {} THEN None
      ELSE CHOOSE q \in keys : \A k \in keys : <<q, k>> \in Under

TreeGet(tree, p) ==
  LET q == LongestPrefix(tree, p) IN IF q = None THEN None ELSE tree[q]

\* Slip: exactMatch is ignored.
MatchMethod_AnyDepth(tree, p) == TreeGet(tree, p)

\* matchMethod(): only the lookup by the whole path honours exactMatch; what is
\* left of the path may be its query.
MatchMethod(tree, p) ==
  LET c == TreeGet(tree, p)
  IN  IF c # None /\ c.op \in Exact /\ LongestPrefix(tree, p) \notin {p, Bare[p]} THEN None ELSE c

ByHttp(r) ==
  IF http[r.verb] = None THEN None
  ELSE MatchMethod(http[r.verb], r.path)
         ?? (IF r.alt = None THEN None ELSE TreeGet(http[r.verb], r.alt))

-----------------------------------------------------------------------------
(* The handler *)

Receive(r) ==
  /\ req = NoRequest
  /\ req' = [at |-> IF r.verb = "POST" /\ r.action # None THEN "action" ELSE "http",
             in |-> r, found |-> None, via |-> "none", steady |-> live, seen |-> live]

LookupAction ==
  /\ req.at = "action"
  /\ LET c == ByAction(req.in) IN
     req' = IF c = None THEN [req EXCEPT !.at = "http"]
            ELSE [req EXCEPT !.at = "call", !.found = c, !.via = "action"]

LookupHttp ==
  /\ req.at = "http"
  /\ LET r == req.in
         c == ByHttp(r)
         wsdl == r.verb = "GET" /\ r.wsdl
         next == IF c # None /\ c.op \in UrlOnly THEN "call"
                 ELSE IF wsdl THEN "wsdl"
                 ELSE IF c # None THEN "call"
                 ELSE IF r.verb = "POST" THEN "element"
                 ELSE "failed"
     IN  req' = [req EXCEPT !.at = next, !.found = c,
                            !.via = IF next = "call" THEN "http" ELSE @]

\* Slip: an unknown element is not refused.
LookupElement_Unchecked ==
  /\ req.at = "element"
  /\ req' = [req EXCEPT !.at = "call", !.found = ByElement(req.in), !.via = "element"]

LookupElement ==
  /\ req.at = "element"
  /\ LET c == ByElement(req.in) IN
     req' = IF c = None THEN [req EXCEPT !.at = "failed"]
            ELSE [req EXCEPT !.at = "call", !.found = c, !.via = "element"]

LookupWsdl ==
  /\ req.at = "wsdl"
  /\ LET c == ByService(req.in) IN
     req' = IF c = None THEN [req EXCEPT !.at = "failed", !.found = None]
            ELSE [req EXCEPT !.at = "call", !.found = c, !.via = "wsdl"]

\* callOperation() or getWSDL() runs on what was found, or 501 is answered.
Answer ==
  /\ req.at \in {"call", "failed"}
  /\ req' = NoRequest

\* steady: registered since the request arrived; seen: at some time since.
Registry ==
  /\ Next
  /\ req' = IF req = NoRequest THEN req
            ELSE [req EXCEPT !.steady = @ \cap live', !.seen = @ \cup live']

Handle ==
  /\ \/ \E r \in Request : Receive(r)
     \/ LookupAction \/ LookupHttp \/ LookupElement \/ LookupWsdl \/ Answer
  /\ UNCHANGED vars

RequestInit == Init /\ req = NoRequest
RequestNext == Registry \/ Handle
RequestSpec == RequestInit /\ [][RequestNext]_reqVars

-----------------------------------------------------------------------------
(* Properties *)

\* A request is in one of the handler's stages, with an operation to call in
\* the last one.
RequestTypeOK ==
  /\ req.at = "call" => req.found # None
  /\ req \in [at: {"idle", "action", "http", "element", "wsdl", "call", "failed"},
              in: Request \cup {None}, found: Call \cup {None},
              via: {"none", "action", "http", "element", "wsdl"},
              steady: SUBSET Call, seen: SUBSET Call]

\* The path a request is for, and the path below the root: without the query when
\* it asks for the WSDL, of which the query is the request.
OwnPath(r) == IF r.verb = "GET" /\ r.wsdl THEN Bare[r.path] ELSE r.path
BelowRoot(r) == IF r.verb = "GET" /\ r.wsdl /\ r.alt # None THEN Bare[r.alt] ELSE r.alt

\* The registration would answer the request.
Serves(c, r) ==
  \/ /\ r.verb = "POST"
     /\ AltPath(c) \in {r.path, r.alt}
     /\ \/ r.action # None /\ ActionOf[c.op] = r.action
        \/ r.element \in MethodNames(c.op)
  \/ /\ r.verb = "GET" /\ r.wsdl
     /\ AltPath(c) \in {OwnPath(r), BelowRoot(r), BaseName[OwnPath(r)]}

\* The exception: as the path below the root keeps its query (737, 802, 811), the
\* WSDL of a service on a path of several components below the root is not found.
HiddenByQuery(c, r) ==
  AltPath(c) = BelowRoot(r) /\ AltPath(c) \notin {OwnPath(r), r.alt, BaseName[OwnPath(r)]}

\* A request is refused (501 or "no operation") only if no service that was
\* registered all the while serves it under its path or the path below the
\* root, HiddenByQuery apart: a registration or removal of others between two
\* lookups hides nothing.
SteadyServed ==
  req.at = "failed" /\ OneIdPerService =>
    \A c \in req.steady \cap LiveSoap :
      AltPath(c) # None /\ Serves(c, req.in) => HiddenByQuery(c, req.in)

\* A path is not answered by another service (issue #2783): when a service
\* registered all the while has the request's path and the SOAPAction, the
\* element or the WSDL it was matched by, the operation found is of this service.
OwnPathFirst ==
  req.at = "call" /\ req.via # "http" /\ OneIdPerService =>
    \A c \in req.steady \cap LiveSoap :
      /\ AltPath(c) = OwnPath(req.in)
      /\ \/ req.via = "action" /\ ActionOf[c.op] = req.in.action
         \/ req.via = "element" /\ req.in.element \in MethodNames(c.op)
         \/ req.via = "wsdl"
      => req.found.ws = c.ws

\* The operation called may have been removed since it was looked up, but not
\* before the request arrived.
NotRemovedBefore ==
  req.at = "call" /\ req.via \in {"action", "element", "wsdl"} => req.found \in req.seen

\* Without a root path, an operation that must match the whole path is not
\* called for a longer one; a query does not make it longer.  (777 does not look
\* at exactMatch for the path below the root.)
ExactMatchRespected ==
  req.at = "call" /\ req.via = "http" /\ req.in.alt = None /\ req.found.op \in Exact =>
    HttpPath(req.found) \in {req.in.path, Bare[req.in.path]}
=============================================================================
