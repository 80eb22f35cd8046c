SPECIFICATION FairSpec
CONSTANTS
  d1 = d1 d2 = d2 v1 = v1 v2 = v2 l1 = l1 l2 = l2 l3 = l3 n1 = n1 n2 = n2
  a = a b = b unknown = unknown other = other owned = owned rent = rent
  Deal = {d1, d2}
  Venue = {v1, v2}
  Loc = {l1, l2, l3}
  Name = {n1, n2}
  None = None
  Stale = Stale
  NoSub = NoSub
  Billable = {a, b, unknown}
  Owned = owned
  Catalogue = {a, b, other}
  QueryLimit = 2
  Worlds <- MCWorlds
  MaxFaults = 1
INVARIANTS TypeOK LocationMatchesVenue CreatedOnce BackrefRight NoDuplicateRows ChargesMatch ModifiedMatches
  PaidLinesOrderFree
PROPERTIES AttachedStays Settles
CHECK_DEADLOCK FALSE
