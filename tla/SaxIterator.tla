---------------------------- MODULE SaxIterator ----------------------------
(***************************************************************************)
(* SaxIterator, FileSaxIterator and InputStreamSaxIterator: QoreSaxIterator*)
(* (QC_SaxIterator.h) over QoreXmlReaderData (QC_XmlReader.h) over libxml2's*)
(* xmlTextReader.                                                          *)
(*                                                                         *)
(* A document is the sequence of nodes the reader delivers.  The reader is *)
(* libxml2's: where it stands, whether a schema is set, and whether it saw *)
(* the schema violated.  An object is bound to one thread, so its calls    *)
(* are steps.                                                              *)
(*                                                                         *)
(* The release build is modelled.  A debug build aborts on two assertions  *)
(* of a second pass: no schema is set when a reader is made again          *)
(* (QoreXmlReader.h:233), and no stream is reset (QC_XmlReader.h:77).      *)
(***************************************************************************)
EXTENDS Integers, Sequences, FiniteSets

CONSTANTS
  Documents,    \* sequences of Node
  Kinds,        \* subset of {"string", "file", "stream"}
  MaxRewinds    \* bound: calls of reset() and copy()

\* wanted: an element whose local name is element_name; bad: the text is not
\* well-formed here; ok: valid against the schema.
Node == [type: {"element", "other", "bad"}, depth: Nat, wanted: BOOLEAN, ok: BOOLEAN]

ASSUME SaxAssumption ==
  /\ \A d \in Documents : d \in Seq(Node)
  /\ Kinds \subseteq {"string", "file", "stream"}
  /\ MaxRewinds \in Nat

VARIABLES
  doc,            \* the nodes of the source
  kind,           \* which constructor was used
  xsd,            \* the "xsd" option was given
  reader,         \* the xmlTextReader; "closed" when there is none
  val,            \* the iterator's flag of the same name
  element_depth,  \* depth of the first element found, -1 before
  ret,            \* what the last call told the caller
  rewinds

svars == <<doc, kind, xsd, reader, val, element_depth, ret, rewinds>>

-----------------------------------------------------------------------------
(* The reader *)

\* pos: the node it stands on, 0 before the first read, Len(doc) + 1 at the end.
ReaderAt(pos, schema, violated) ==
  [open |-> TRUE, pos |-> pos, schema |-> schema, violated |-> violated]
Closed == [open |-> FALSE, pos |-> 0, schema |-> FALSE, violated |-> FALSE]

\* xmlTextReaderIsValid() == 1: a schema is set and was not violated so far.
IsValid(r) == r.open /\ r.schema /\ ~r.violated

\* QoreXmlReaderData::reset(): a new reader without the options of the first.
\* A file may be gone, a stream cannot be read again.  (Slip: the state of the
\* validation is kept.)
Fresh_KeepsErrors == ReaderAt(0, FALSE, reader.violated)

Fresh == ReaderAt(0, FALSE, FALSE)
ResetReaders ==
  CASE kind = "string" -> {Fresh}
    [] kind = "file"   -> {Fresh, Closed}
    [] kind = "stream" -> {}

\* Slip: nodes of other depths count.
Matches_AnyDepth(d, depth, k) == d[k].type = "element" /\ d[k].wanted

Matches(d, depth, k) ==
  /\ d[k].type = "element"
  /\ depth >= 0 => d[k].depth = depth
  /\ d[k].wanted

\* Where next()'s loop of reads ends: on a match, on the error, or at the end.
Stop(r, depth) ==
  LET from == IF r.pos \in 1..Len(doc) /\ doc[r.pos].type = "bad" THEN r.pos ELSE r.pos + 1
      hits == {k \in from..Len(doc) : doc[k].type = "bad" \/ Matches(doc, depth, k)}
  IN  IF hits = {} THEN Len(doc) + 1 ELSE CHOOSE k \in hits : \A j \in hits : k <= j

-----------------------------------------------------------------------------
(* The iterator *)

\* The loop of next() on reader r; failed: an exception was raised before.
Scan(r, failed) ==
  LET k == Stop(r, element_depth)
      found == r.open /\ k <= Len(doc) /\ doc[k].type # "bad"
      violated == r.schema /\ \E j \in (r.pos + 1)..k : j <= Len(doc) /\ ~doc[j].ok
  IN  /\ reader' = IF r.open THEN ReaderAt(k, r.schema, r.violated \/ violated) ELSE r
      /\ val' = found
      /\ element_depth' = IF found /\ element_depth = -1 THEN doc[k].depth ELSE element_depth
      /\ ret' = IF found THEN (IF violated THEN "invalid" ELSE "element")
                ELSE IF failed \/ violated \/ ~r.open \/ k <= Len(doc) THEN "error"
                ELSE "end"

\* Slip: every call starts again.
MustReset_Always == ~IsValid(reader)

MustReset == ~val /\ ~IsValid(reader)

next ==
  /\ \/ ~MustReset /\ Scan(reader, FALSE)
     \/ MustReset /\ \E r \in ResetReaders : Scan(r, FALSE)
     \/ MustReset /\ ResetReaders = {} /\ Scan(reader, TRUE)   \* XMLREADER-RESET-ERROR
  /\ UNCHANGED <<doc, kind, xsd, rewinds>>

\* reset() replaces the reader and nothing else.
reset ==
  /\ rewinds < MaxRewinds
  /\ rewinds' = rewinds + 1
  /\ \/ \E r \in ResetReaders : reader' = r /\ ret' = IF r.open THEN "none" ELSE "error"
     \/ ResetReaders = {} /\ reader' = reader /\ ret' = "error"
  /\ UNCHANGED <<doc, kind, xsd, val, element_depth>>

\* The caller goes on with a copy: a new iterator, made without the options.
copy ==
  /\ rewinds < MaxRewinds
  /\ rewinds' = rewinds + 1
  /\ \E r \in ResetReaders \ {Closed} : reader' = r
  /\ val' = FALSE
  /\ element_depth' = -1
  /\ ret' = "none"
  /\ UNCHANGED <<doc, kind, xsd>>

SaxInit ==
  /\ doc \in Documents
  /\ kind \in Kinds
  /\ xsd \in BOOLEAN
  /\ reader = ReaderAt(0, xsd, FALSE)
  /\ val = (kind = "stream")
  /\ element_depth = -1
  /\ ret = "none"
  /\ rewinds = 0

SaxNext == next \/ reset \/ copy

\* Fairness: a caller that loops on next().
SaxSpec == SaxInit /\ [][SaxNext]_svars /\ WF_svars(next)

-----------------------------------------------------------------------------
(* Properties *)

\* Types; and only a reader that validates reports the schema violated: a reader
\* made by reset() starts from a clean state.
SaxTypeOK ==
  /\ doc \in Documents /\ kind \in Kinds /\ xsd \in BOOLEAN /\ val \in BOOLEAN
  /\ reader \in [open: BOOLEAN, pos: 0..(Len(doc) + 1), schema: BOOLEAN, violated: BOOLEAN]
  /\ element_depth \in {-1} \cup {doc[k].depth : k \in 1..Len(doc)}
  /\ ret \in {"none", "element", "invalid", "end", "error"}
  /\ rewinds \in 0..MaxRewinds
  /\ reader.violated => reader.schema

\* The elements the documentation speaks of: those before the first error that
\* are wanted and as deep as the first wanted one.
Wanted ==
  LET good == {k \in 1..Len(doc) : \A j \in 1..k : doc[j].type # "bad"}
      named == {k \in good : doc[k].type = "element" /\ doc[k].wanted}
  IN  {k \in named : \E j \in named : (\A i \in named : j <= i) /\ doc[k].depth = doc[j].depth}

\* "True if the iterator is currently pointing at a valid element"
\* (QC_SaxIterator.qpp:113-114), except where nothing was read yet: in a new
\* stream iterator, and after a reset(), which leaves the flag as it was.  There
\* valid() may be true with no element under the reader.
UnreadButValid == reader.pos = 0 /\ (kind = "stream" \/ rewinds > 0)

ValidIsWanted == val => reader.pos \in Wanted \/ UnreadButValid

\* SaxIterator delivers what ElementIterator promises; its one departure from the
\* documentation of next() is ElementIterator's action Exhausted.
Abstract == INSTANCE ElementIterator WITH
  total <- Cardinality(Wanted),
  source <- kind,
  conforming <- IsValid(reader),
  cur <- IF val /\ reader.open /\ reader.pos \in Wanted
         THEN Cardinality({k \in Wanted : k <= reader.pos}) ELSE 0,
  done <- ~reader.open \/ (~val /\ reader.pos # 0),
  ret <- ret

DeliversElements == Abstract!ESpec

\* while (i.next()) {...} ends, over any source, again and again.
LoopTerminates == []<>(ret \in {"end", "error"})

\* "xsd: an XSD string for schema validation while parsing": with the option, a
\* pass that ends without an exception has read a valid document.
NoSilentInvalid == xsd /\ ret = "end" => \A k \in 1..Len(doc) : doc[k].ok
=============================================================================
