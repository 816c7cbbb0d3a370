\* Every short query with every kind of referrer.
SPECIFICATION Spec
CONSTANTS
  None = None
  Texts <- SomeTexts
  Pages <- SomePages
  Referrers <- SomeReferrers
  Canonical <- CanonicalOf
  Addresses = {"1.2.3.4"}
  DomainStr <- DomainOf
  Label <- LabelOf
  Size <- SizeOf
  MAX_UTM = 256
CHECK_DEADLOCK FALSE
INVARIANTS TypeOK FirstAliasWins RefusedForWhatCounts FirstClickPays NoMixedCredit CreditUnlessDirect
