SPECIFICATION SaxSpec
CONSTANTS
  Documents <- MCDocuments
  Kinds = {"string", "file", "stream"}
  MaxRewinds = 2
INVARIANTS
  SaxTypeOK
  ValidIsWanted
PROPERTIES
  DeliversElements
  LoopTerminates
