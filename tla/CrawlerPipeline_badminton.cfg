SPECIFICATION PipelineSpec
CONSTANTS
  better = better
  plain = plain
  th = th
  s1 = s1
  s2 = s2
  CompositeKeys <- BothVenues
  ReloadVenues <- ThVenues
  Sessions <- MCSessions
  Entries <- MCEntries
  Lists <- BothLists
  Activities = {1, 2}
  Blanking = {}
  Dropping = {plain}
  Window = 1
  LastDay = 0
  MaxSpaces = 1
  MaxChanges = 2
  MaxFailures = 2
  MaxAborts = 1
  Uuids = {u1, u2, u3}
SYMMETRY UuidSymmetry
INVARIANTS
  ExactWhereAnswered
