----------------------------- MODULE MCXmlData -----------------------------
(***************************************************************************)
(* Instances of XmlRoundTrip: every document up to the bounds.             *)
(***************************************************************************)
EXTENDS XmlRoundTrip, TLC

Names == Permutations(ElementName)

FlagSets == {{}, {"order", "comments"}}
=============================================================================
