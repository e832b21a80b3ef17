--------------------------- MODULE MCSoapRequest ---------------------------
(***************************************************************************)
(* Requests against two services that share a path, a SOAPAction and a     *)
(* request element.  The server's root path is "r": "r/s/p" is served as   *)
(* "s/p" below it.                                                         *)
(***************************************************************************)
EXTENDS SoapRequest, TLC

CONSTANTS A, B

RqOperation == {"a1", "b1", "b2", "h1", "u1"}
RqName == {"n1", "n2", "h", "e1"}
RqPath == {"s/p", "/s/p", "p", "q", "r/s/p", "s/p/x", "svc", "r/svc",
           "s/p?wsdl", "r/s/p?wsdl", "svc?wsdl", "r/svc?wsdl"}
RqOpsOf == (A :> {"a1", "h1", "u1"}) @@ (B :> {"b1", "b2"})
RqNameOf == [o \in RqOperation |->
               IF o \in {"a1", "b1"} THEN "n1" ELSE IF o = "b2" THEN "n2" ELSE "h"]
RqRequestNames == [o \in RqOperation |-> IF o \in {"a1", "b2"} THEN {"e1"} ELSE {}]
RqActionOf == [o \in RqOperation |-> IF o \in {"a1", "b1", "b2"} THEN "x" ELSE None]
RqBindingOf == [o \in RqOperation |->
                  IF o = "u1" THEN "none" ELSE IF o = "h1" THEN "http" ELSE "soap"]
RqVerbOf == [o \in RqOperation |-> "GET"]
RqLocation == [o \in RqOperation |-> "s/p"]
RqPortPath == [sp \in {A, B} \X RqPath |-> IF sp = <<A, "svc">> THEN "/s/p" ELSE None]
RqStrip == [p \in RqPath |-> IF p = "/s/p" THEN "s/p" ELSE p]
RqBare == [p \in RqPath |->
             CASE p = "s/p?wsdl" -> "s/p" [] p = "r/s/p?wsdl" -> "r/s/p"
               [] p = "svc?wsdl" -> "svc" [] p = "r/svc?wsdl" -> "r/svc" [] OTHER -> p]
RqWithQuery == {p \in RqPath : RqBare[p] # p}
RqBaseName == [p \in RqPath |->
                 IF p \in {"s/p", "/s/p", "r/s/p"} THEN "p" ELSE IF p = "r/svc" THEN "svc" ELSE p]
RqUnder == {<<p, p>> : p \in RqPath} \cup {<<p, RqBare[p]>> : p \in RqPath} \cup {<<"s/p/x", "s/p">>}

Reg(ws, op, path, altpath, uid) ==
  [ws |-> ws, op |-> op, path |-> path, altpath |-> altpath, uid |-> uid]

\* One unique_id for each service; h1 is an HTTP operation, u1 has no binding.
\* b1 wants the path of a1, and b2 its request element.
RqCall == {Reg(A, "a1", "svc", None, "u1"),
           Reg(B, "b1", None, "/s/p", "u2"), Reg(B, "b2", None, None, "u2"),
           Reg(A, "h1", None, None, "u1"), Reg(A, "u1", None, None, "u1")}

Msg(verb, path, alt, action, element, wsdl) ==
  [verb |-> verb, path |-> path, alt |-> alt, action |-> action,
   element |-> element, wsdl |-> wsdl]

\* The WSDL is asked for by path, by path below the root (which the query hides),
\* and by the last component of the path.
RqRequest == {Msg("POST", "s/p", None, "x", "n1", FALSE), Msg("POST", "r/s/p", "s/p", "x", None, FALSE),
              Msg("POST", "r/s/p", "s/p", None, "e1", FALSE), Msg("POST", "q", None, "x", "e1", FALSE),
              Msg("GET", "r/s/p?wsdl", "s/p?wsdl", None, None, TRUE),
              Msg("GET", "r/svc?wsdl", "svc?wsdl", None, None, TRUE),
              Msg("GET", "s/p/x", None, None, None, FALSE),
              Msg("GET", "s/p?wsdl", None, None, None, TRUE)}
=============================================================================
