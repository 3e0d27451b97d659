CONSTANTS
  Users = {u1, u2, u3}
  Handlers = {h1}
  Service = service
  Nobody = nobody
  MaxConnected = 1
  MaxStops = 1
SPECIFICATION FairSpec
INVARIANTS
  TypeOK
  OneClientEach
  LimitPassedByOverlapOnly
PROPERTIES
  TableSpec
  UnavailableIsRetried
