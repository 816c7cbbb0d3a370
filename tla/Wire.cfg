\* Every kind and id a consumer or another program may write.
SPECIFICATION Spec
CONSTANTS
  None = None
  Texts <- SomeTexts
  Size <- SizeOf
  Bytes <- BytesOf
  Generated = {"digest"}
CHECK_DEADLOCK FALSE
INVARIANTS TypeOK NothingAcceptedIsLost FoldsOnlyReserved
PROPERTY PassedOnUnchanged
