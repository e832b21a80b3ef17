SPECIFICATION WebDavSpec
CONSTANTS
  None = None
  Thread = {t1, t2}
  Path <- MCPath
  Parent <- MCParent
  Prop = {"x", "y"}
  DavProp = {}
  Val = {"1", "2"}
  Block = {"a", "b", "hole"}
  Request <- Patches
  InitFs <- MCInitFs
INVARIANT PatchAtomic
