SPECIFICATION PipelineFairSpec
CONSTANTS
  better = better
  plain = plain
  th = th
  s1 = s1
  s2 = s2
  CompositeKeys <- UpsertVenues
  ReloadVenues <- NoVenues
  Sessions <- MCSessions
  Entries <- MCEntries
  Lists <- UpsertLists
  Activities = {1, 2}
  Blanking = {better}
  Dropping = {better}
  Window = 1
  LastDay = 1
  MaxSpaces = 1
  MaxChanges = 1
  MaxFailures = 1
  MaxAborts = 1
  Uuids = {}
INVARIANTS
  PipelineTypeOK
  ExactWhereAnswered
  HousekeepingKeepsUp
PROPERTIES
  EventuallyAccurate
  PastRowsArePurged
