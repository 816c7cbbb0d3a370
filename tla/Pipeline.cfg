\* Two threads process seven events, with all components and with none.
SPECIFICATION Spec
CONSTANTS
  Workers = {w1, w2}
  Processors <- SomeProcessors
  RawEvents <- SomeRawEvents
  Strings <- SomeStrings
  Size <- SizeOf
  Domain <- DomainOf
  BadKinds = {""}
  MAX_URL = 2
  MAX_ID = 1
  MAX_UTM = 1
  MAX_UA = 3
  Ips <- SomeIps
  Dbs <- SomeDbs
  Locate <- LocateOf
  Salts <- SomeSalts
  MIN_SALT_LEN = 2
  DebugAssertions = FALSE
  None = None
SYMMETRY WorkerSymmetry
INVARIANTS TypeOK OneSaltThenOneDatabase Deterministic OnlyUnlimitedOverrun ErrorNamesCulprit
