SPECIFICATION FairSpec
CONSTANTS
  Users = {u1}
  Stranger = stranger
  Nobody = nobody
  Logins = {l1}
  Handlers = {h1, h2}
  Maintenance = maintenance
  MaxPending = 1
PROPERTY
  LoginEnds
