\* One thread reloads (the consumer's timer), two look up.
SPECIFICATION Spec
CONSTANTS
  Reloaders = {r1}
  Lookers = {l1, l2}
  Bytes <- SomeBytes
  Valid <- Contents
  Epoch <- EpochOf
  Length <- LengthOf
  Ips <- SomeIps
  Locations <- SomeLocations
  Locate <- LocateOf
  U64Max = 12700
  None = None
INVARIANTS TypeOK NoStaleAnswer
PROPERTIES ImplementsPromise WaitFree
