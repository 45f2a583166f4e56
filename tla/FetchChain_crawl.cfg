SPECIFICATION FairSpec
CONSTANTS
  r1 = r1
  r2 = r2
  r3 = r3
  None = None
  Requests = {r1, r2, r3}
  VenueOf <- MCVenueOf
  Crawlers <- MCCrawlers
  Permits = 2
  Profiles = 4
  Interval = 2
  Backoff = 1
  FlareSolverr = TRUE
INVARIANTS
  ResourcesConserved
  OnePagePerVenue
PROPERTIES
  RequestsArePaced
  CrawlReturns
CHECK_DEADLOCK FALSE
