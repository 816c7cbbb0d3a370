\* Two threads reload at once, one looks up; one content saturates the products.
SPECIFICATION Spec
CONSTANTS
  Reloaders = {r1, r2}
  Lookers = {l1}
  Bytes <- HugeBytes
  Valid <- HugeContents
  Epoch <- HugeEpochOf
  Length <- HugeLengthOf
  Ips <- SomeIps
  Locations <- SomeLocations
  Locate <- HugeLocateOf
  U64Max = 12700
  None = None
SYMMETRY ReloaderSymmetry
PROPERTIES InstallsWereGated UnracedInstallsAreGated NoSpuriousRefusal AnswerWasCurrent
