\* Every digest of three edge bytes.
SPECIFICATION FairSpec
CONSTANTS
  N = 3
  Digests <- EdgeDigests
CHECK_DEADLOCK FALSE
INVARIANTS TypeOK QuotientFitsByte ValuePreserved LengthBounds
PROPERTIES Terminates
