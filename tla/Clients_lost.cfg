CONSTANTS
  Users = {u1}
  Handlers = {h1}
  Service = service
  Nobody = nobody
  MaxConnected = 1
  MaxStops = 1
SPECIFICATION FairSpec
PROPERTY
  LostIsRestarted
