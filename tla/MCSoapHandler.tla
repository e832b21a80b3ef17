--------------------------- MODULE MCSoapHandler ---------------------------
(***************************************************************************)
(* Instances of SoapHandler.  Service A has two SOAP operations that share *)
(* a request element, an HTTP and an unbound one; B's operation has the    *)
(* name and the SOAPAction of A's first.  "svc" is A's service name, whose *)
(* port address has the path "p"; "/p" is "p" with a slash.                *)
(***************************************************************************)
EXTENDS SoapHandler, TLC

CONSTANTS A, B

MCOperation == {"a1", "a2", "b1", "h1", "h2", "u1"}
MCName == {"n1", "n2", "n3", "e1"}
MCPath == {"p", "q", "/p", "p?x", "svc"}
MCOpsOf == (A :> {"a1", "a2", "h1", "h2", "u1"}) @@ (B :> {"b1"})
MCNameOf == [o \in MCOperation |->
               IF o \in {"a1", "b1"} THEN "n1" ELSE IF o = "a2" THEN "n2" ELSE "n3"]
MCRequestNames == [o \in MCOperation |-> IF o \in {"a1", "a2"} THEN {"e1"} ELSE {}]
MCActionOf == [o \in MCOperation |-> IF o \in {"a1", "b1"} THEN "x" ELSE None]
MCBindingOf == [o \in MCOperation |->
                  IF o = "u1" THEN "none" ELSE IF o \in {"h1", "h2"} THEN "http" ELSE "soap"]
MCVerbOf == [o \in MCOperation |-> "GET"]
MCLocation == [o \in MCOperation |-> IF o = "h1" THEN "/p" ELSE "q"]
MCPortPath == [sp \in {A, B} \X MCPath |-> IF sp = <<A, "svc">> THEN "/p" ELSE None]
MCStrip == [p \in MCPath |-> IF p = "/p" THEN "p" ELSE p]
MCLTrim == MCStrip

Reg(ws, op, path, altpath, uid) ==
  [ws |-> ws, op |-> op, path |-> path, altpath |-> altpath, uid |-> uid]

\* Two HTTP operations with the same verb.
HttpOnly == {Reg(A, "h1", None, None, "u1"), Reg(A, "h2", None, None, "u1"),
             Reg(A, "a1", "svc", None, "u1"), Reg(B, "b1", None, "p", "u2")}
=============================================================================
