SPECIFICATION Spec
SYMMETRY Alike
CONSTANTS
  Links = {l1, l2, l3}
  NoLink = NoLink
  Handlers = {h1, h2}
  Limit <- LimitOf
  Window <- WindowOf
  Second = 2
  MaxTime = 6
  MaxStops = 1
INVARIANTS
  TypeOK
  LinkOpensOneSession
  LinksLeftByOverlapOnly
  ClearEndsSessions
  WindowHolds
  RetryAfterSuffices
