SPECIFICATION WebDavSpec
CONSTANTS
  None = None
  Thread = {t1, t2}
  Path <- MCPath
  Parent <- MCParent
  Prop = {"x", "y", "dav"}
  DavProp = {"dav"}
  Val = {"1"}
  Block = {"a", "b", "hole"}
  Request <- MCRequest
  InitFs <- MCInitFs
SYMMETRY Threads
INVARIANTS
  WebDavTypeOK
  RefusalChangesNothing
  UploadStored
  DeletedIsGone
  NoOrphanProps
  PatchAllOrNothing
