SPECIFICATION FairSpec
CONSTANTS
  Requests = {r1, r2, r3, r4}
  Variants = 2
  Capacity = 2
  MinSample = 3
  ParserMayRaise = TRUE
INVARIANTS
  TypeOK
  BreakerLedger
  PermitsConserved
  NothingFetchedIsLost
  OnlyTheBreakerSkips
  TripNeedsEvidence
PROPERTIES
  NoRequestAfterTrip
  CrawlReturns
CHECK_DEADLOCK FALSE
