--------------------------- MODULE MCSaxIterator ---------------------------
(***************************************************************************)
(* Small documents for SaxIterator: wanted elements at two depths, in both *)
(* orders; none; a document that breaks off; an invalid one.               *)
(***************************************************************************)
EXTENDS SaxIterator

El(d) == [type |-> "element", depth |-> d, wanted |-> TRUE, ok |-> TRUE]
Other(d) == [type |-> "other", depth |-> d, wanted |-> FALSE, ok |-> TRUE]
Tag(d) == [type |-> "element", depth |-> d, wanted |-> FALSE, ok |-> TRUE]
Bad == [type |-> "bad", depth |-> 0, wanted |-> FALSE, ok |-> TRUE]
Invalid(n) == [n EXCEPT !.ok = FALSE]

MCDocuments ==
  {<<Tag(0), El(1), Other(2), El(1), Tag(1), El(2), Other(1), El(1), Other(0)>>,
   <<Tag(0), Tag(1), El(2), El(1), Other(1), El(2), Other(0)>>,
   <<El(0), Other(1), El(1)>>,
   <<Tag(0), Other(1)>>,
   <<Tag(0), El(1), Tag(1), Bad, El(1)>>,
   <<Tag(0), El(1), Invalid(El(1)), El(1)>>,
   <<Tag(0), El(1), Invalid(Other(1))>>}
=============================================================================
