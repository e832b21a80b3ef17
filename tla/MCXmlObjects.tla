---------------------------- MODULE MCXmlObjects ----------------------------
(***************************************************************************)
(* Instances of XmlObjects.                                                *)
(***************************************************************************)
EXTENDS XmlObjects, TLC

Symmetry == Permutations(Object) \cup Permutations(Tree)
=============================================================================
