SPECIFICATION SaxSpec
CONSTANTS
  Documents <- MCDocuments
  Kinds = {"string"}
  MaxRewinds = 1
INVARIANT NoSilentInvalid
