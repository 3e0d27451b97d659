SPECIFICATION FairSpec
CONSTANTS
  u1 = u1
  u2 = u2
  Users = {u1, u2}
  Jobs = {1, 2}
  NoJob = 0
  Owner <- OwnerAB
  MaxWorkers = 1
  MaxConnectedUsers = 1
  CollisionPolicy = "rename"
  Requests = {r1}
  MaxMisses = 0
  MaxStops = 0
  MaxDrops = 0
PROPERTIES
  QueuedJobFinishes
