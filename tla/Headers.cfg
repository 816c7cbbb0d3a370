\* Every combination of headers, sent, overwritten, removed and appended to.
SPECIFICATION Spec
CONSTANTS
  None = None
  Entries <- SomeEntries
  Parse <- ParseOf
  Sent <- SomeSent
  Edge = "edge"
  Hop = "hop"
  MaxEntries = 3
CHECK_DEADLOCK FALSE
INVARIANTS TypeOK EdgeDecides FirstReadableWins
