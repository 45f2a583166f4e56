SPECIFICATION Spec
CONSTANTS
  v1 = v1
  v2 = v2
  th = th
  s1 = s1
  s2 = s2
  CompositeKeys <- MCCompositeKeys
  ReloadVenues <- MCReloadVenues
  Sessions <- MCSessions
  Entries <- MCEntries
  LastDay = 1
  MaxSpaces = 2
  Uuids = {u1, u2}
SYMMETRY UuidSymmetry
INVARIANTS
  TypeOK
  UidKeepsWritersApart
  OneRowPerUpsertedSlot
  RerunChangesNothing
PROPERTIES
  BoardSpec
  UpsertedRowsOnlyExpire
