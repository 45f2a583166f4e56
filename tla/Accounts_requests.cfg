SPECIFICATION Spec
CONSTANTS
  Workers = {w1, w2}
  Users = {u1}
  Notes = {n1}
  Tokens = {t1}
  Texts = {m1, m2}
  Paths <- MCPaths
  GroupOf <- MCGroupOf
  Values = {v1}
  MaxRequests = 5
  Unset = Unset
  Missing = Missing
  Unread = Unread
INVARIANTS
  AcksBounded
PROPERTIES
  OnlyWhatWasAsked
CHECK_DEADLOCK FALSE
