----------------------------- MODULE MCXmlInput -----------------------------
(***************************************************************************)
(* Instances of XmlInput.                                                  *)
(***************************************************************************)
EXTENDS XmlInput, TLC

\* A constructor with a schema and a callback object on any source, with an encoding
\* that is a string or not, and calls that differ from one on a stream in one option.
Imports(c) == [source |-> "stream", encoding |-> "string", xsd |-> "text", io |-> c, other |-> "none"]
Calls ==
  UNION {{[Imports(c) EXCEPT !.source = s, !.encoding = e] :
              s \in {"string", "stream", "fd"}, e \in {"string", "not_string"}}
           \cup {[Imports(c) EXCEPT !.xsd = x] : x \in {"none", "not_string"}}
           \cup {[Imports(c) EXCEPT !.other = x] : x \in {"before", "after"}} : c \in Callback}
    \cup {Imports(None), Imports("not_callback")}

Symmetry == Permutations(Thread) \cup Permutations(Callback)
=============================================================================
