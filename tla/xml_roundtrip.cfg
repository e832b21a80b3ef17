SPECIFICATION XmlSpec
CONSTANTS
  ElementName = {a, b}
  MaxNodes = 6
  MaxDepth = 2
  MaxOutside = 1
  MaxExtra = 1
  Flags <- FlagSets
SYMMETRY Names
\* The document ends.
CHECK_DEADLOCK FALSE
INVARIANTS
  XmlTypeOK
  RoundTrip
  NothingLost
