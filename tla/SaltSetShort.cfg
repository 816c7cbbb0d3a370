\* A salt shorter than the minimum is set after try_new; a release build.
SPECIFICATION Spec
CONSTANTS
  Callers = {t1}
  MaskModes = {"Balanced"}
  RawEvents <- OneRawEvent
  Salts <- SomeSalts
  MIN_SALT_LEN = 2
  DebugAssertions = FALSE
  None = None
  ByteBits = 3
  V4Bytes = 1
  V6Bytes = 3
  MappedHigh = 7
  Prefixes <- ScaledPrefixes
  LenBytes = 2
  LenCode <- LenTable
INVARIANTS CheckedSaltStaysSecret
