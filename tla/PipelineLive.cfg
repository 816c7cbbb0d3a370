\* Three threads meet at the extractor; the salt never changes, a first
\* database arrives at some time.
SPECIFICATION Spec
CONSTANTS
  Workers = {w1, w2, w3}
  Processors <- FullProcessors
  RawEvents <- LiveRawEvents
  Strings <- SomeStrings
  Size <- SizeOf
  Domain <- DomainOf
  BadKinds = {""}
  MAX_URL = 2
  MAX_ID = 1
  MAX_UTM = 1
  MAX_UA = 3
  Ips <- SomeIps
  Dbs <- OneDb
  Locate <- LocateOf
  Salts <- OneSalt
  MIN_SALT_LEN = 2
  DebugAssertions = FALSE
  None = None
PROPERTIES Returns OnlyParsingWaits
