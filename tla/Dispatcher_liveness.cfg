SPECIFICATION FairSpec
CONSTANTS
  u1 = u1
  u2 = u2
  Users = {u1, u2}
  Jobs = {1, 2, 3}
  NoJob = 0
  Owner <- OwnerABA
  MaxWorkers = 1
  MaxConnectedUsers = 2
  CollisionPolicy = "rename"
  Requests = {r1}
  MaxMisses = 0
  MaxStops = 0
  MaxDrops = 1
INVARIANTS
  WorkerLimit
PROPERTIES
  PoolSpec
  QueuedJobFinishes
  HandlersReturn
