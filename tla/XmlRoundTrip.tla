---------------------------- MODULE XmlRoundTrip ----------------------------
(***************************************************************************)
(* make_xml(): add_xml_element() (ql_xml.qpp) writes the hash of parse_xml()*)
(* as XML.  The operator is recursive over nested values, so what is said  *)
(* of it here is model-checked; XmlData has what is proved.                *)
(***************************************************************************)
EXTENDS XmlData

\* The nodes of the document that the hash x is written as.
RECURSIVE make_xml(_, _)
make_xml(x, depth) ==
  LET add_xml_element(key, slot) ==
        LET v == heap[slot]
            attributes == SelectSeq(v.entries, LAMBDA e : e.key[1] = "attributes")
        IN  <<Node("element", key[1], depth, IF attributes = <<>> THEN 0 ELSE attributes[1].val)>>
            \o (IF IsString(v) THEN <<Node("text", "text", depth + 1, v.text)>>
                ELSE make_xml(v, depth + 1))
      write(e) ==
        CASE e.key[1] = "attributes" -> <<>>
          [] e.key[1] \in Leaf -> <<Node(e.key[1], e.key[1], depth, e.val)>>
          [] OTHER -> FlattenSeq([i \in 1..Len(e.slots) |-> add_xml_element(e.key, e.slots[i])])
  IN  FlattenSeq([i \in 1..Len(x.entries) |-> write(x.entries[i])])

-----------------------------------------------------------------------------
(* Properties *)

Sent == SelectSeq(doc, LAMBDA n :
          n.type \notin Dropped /\ (n.type = "comment" => XPF_ADD_COMMENTS))
AnyMisplaced == XPF_ADD_COMMENTS /\ \E i \in 1..Len(doc) : Misplaced(i)

\* XPF_PRESERVE_ORDER: "if the data structure is reserialized with make_xml(), an
\* XML string corresponding to the original input will be generated".  (Not when a
\* comment is misplaced, and never with the instructions and the whitespace of the
\* original.)  With any flags, what make_xml() writes has each other node as often
\* as the document; a misplaced comment may have another depth.
RoundTrip ==
  LET written == make_xml(heap[0], 0)
      flat(s) == IF AnyMisplaced THEN [i \in 1..Len(s) |-> [s[i] EXCEPT !.depth = 0]] ELSE s
      many(s, n) == Len(SelectSeq(s, LAMBDA m : m = n))
  IN  /\ XPF_PRESERVE_ORDER /\ ~AnyMisplaced => written = Sent
      /\ Len(written) = Len(Sent)
      /\ \A n \in ToSet(flat(Sent)) : many(flat(written), n) = many(flat(Sent), n)
=============================================================================
