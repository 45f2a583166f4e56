SPECIFICATION WritersSpec
CONSTANTS
  v1 = v1
  th = th
  s1 = s1
  s2 = s2
  Runs = {w1}
  CompositeKeys <- MCCompositeKeys
  ReloadVenues <- MCReloadVenues
  Sessions <- MCSessions
  Entries <- MixedEntries
  LastDay = 1
  MaxSpaces = 1
  Uuids = {u1, u2}
INVARIANTS
  WritersTypeOK
PROPERTIES
  StoreSpec
