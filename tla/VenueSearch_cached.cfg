SPECIFICATION Spec
CONSTANTS
  courts = courts
  games = games
  Nothing = Nothing
  Workers = {w1, w2}
  Venues = {courts, games}
  Games = {games}
  Mappings <- MCMappings
  Omissions <- MCOmissions
  Ttl = 2
  MaxSearches = 3
  MaxEvents = 2
SYMMETRY MCSymmetry
INVARIANTS
  CacheIsRecent
  AnswersExplained
CHECK_DEADLOCK FALSE
