SPECIFICATION Spec
CONSTANTS
  Users = {u1}
  Stranger = stranger
  Nobody = nobody
  Logins = {l1, l2}
  Handlers = {h1}
  Maintenance = maintenance
  MaxPending = 1
INVARIANT
  FlaggedHasSession
