SPECIFICATION WritersSpec
CONSTANTS
  v1 = v1
  th = th
  s1 = s1
  s2 = s2
  Runs = {w1, w2}
  CompositeKeys <- MCCompositeKeys
  ReloadVenues <- MCReloadVenues
  Sessions <- MCSessions
  Entries <- ReloadedEntries
  LastDay = 0
  MaxSpaces = 1
  Uuids = {u1, u2, u3, u4}
SYMMETRY Symmetry
PROPERTIES
  ReloadLeavesOnlyItsBatch
