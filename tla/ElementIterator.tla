-------------------------- MODULE ElementIterator --------------------------
(***************************************************************************)
(* What SaxIterator promises its caller (QC_SaxIterator.qpp:70-84): next() *)
(* goes through the wanted elements of the document one by one and in      *)
(* order, skips none, repeats none, and returns False only after the last  *)
(* one.  A call after that starts again: it returns True once more if the  *)
(* document has such an element (lines 73-74).                             *)
(*                                                                         *)
(* Two cases are taken out of that sentence, each by name.  Gone: a stream *)
(* cannot be read twice, a file may be gone.  Exhausted: with the option   *)
(* "xsd", next() does not start again after a document that kept to its    *)
(* schema; this is not documented, and contradicts lines 73-74.            *)
(***************************************************************************)
EXTENDS Naturals

VARIABLES
  total,       \* the number of wanted elements in the document
  source,      \* what is read: "string", "file" or "stream"
  conforming,  \* a schema is set and the document kept to it so far
  cur,         \* the element the iterator is on; 0: none
  done,        \* the end was reported and no pass was begun since
  ret          \* what the last call told the caller

evars == <<total, source, conforming, cur, done, ret>>

EInit ==
  /\ total \in Nat /\ conforming \in BOOLEAN
  /\ cur = 0 /\ done = FALSE /\ ret = "none"

\* What a document fails it does not pass later, and a restart drops the schema.
Source == UNCHANGED <<total, source>> /\ (conforming' => conforming)

\* next(): "invalid" is an element delivered with a validation exception.  Also
\* the first of a new pass, after the end of the last one.
Advance ==
  /\ cur < total
  /\ done => ~conforming
  /\ cur' = cur + 1
  /\ done' = FALSE
  /\ ret' \in {"element", "invalid"}
  /\ Source

\* next() past the last element: False, or an exception.
Finish ==
  /\ cur = total
  /\ cur' = 0
  /\ done' = TRUE
  /\ ret' \in {"end", "error"}
  /\ Source

\* next() after the end of a conforming document: the same answer as before.
Exhausted ==
  /\ done /\ conforming
  /\ ret' \in {"end", "error"}
  /\ UNCHANGED <<total, source, conforming, cur, done>>

\* A source that cannot be read again: an exception, never a silent False.
Gone ==
  /\ source # "string"
  /\ cur' = 0 /\ done' = TRUE
  /\ ret' = "error"
  /\ Source

\* reset() and copy(): from the first element, without the schema.
Rewind ==
  /\ source # "stream"
  /\ cur' = 0 /\ done' = FALSE
  /\ ret' = "none"
  /\ conforming' = FALSE
  /\ UNCHANGED <<total, source>>

\* reset() of a source that can only be read once.
Refuse ==
  /\ source = "stream"
  /\ ret' = "error"
  /\ UNCHANGED <<total, source, conforming, cur, done>>

ENext == Advance \/ Finish \/ Exhausted \/ Gone \/ Rewind \/ Refuse

ESpec == EInit /\ [][ENext]_evars
=============================================================================
