\* Every combination of browser, device and system.
SPECIFICATION Spec
CONSTANTS
  None = None
  Agents <- SomeAgents
  Words <- WordsOf
  Spanning <- SpanningOf
CHECK_DEADLOCK FALSE
INVARIANTS TypeOK BucketsAgree
