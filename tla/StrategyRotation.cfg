\* Two threads ask for ids while salts are rotated; a debug build.
SPECIFICATION Spec
CONSTANTS
  Callers = {t1, t2}
  MaskModes = {"Balanced", "Full"}
  RawEvents <- SomeRawEvents
  Salts <- SomeSalts
  MIN_SALT_LEN = 2
  DebugAssertions = TRUE
  None = None
  ByteBits = 3
  V4Bytes = 1
  V6Bytes = 3
  MappedHigh = 7
  Prefixes <- ScaledPrefixes
  LenBytes = 2
  LenCode <- LenTable
SYMMETRY CallerSymmetry
INVARIANTS TypeOK SameIdSameVisitor StableId IdFromCurrentSalt
