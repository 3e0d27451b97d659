SPECIFICATION Spec
CONSTANTS
  u1 = u1
  u2 = u2
  Users = {u1, u2}
  Jobs = {1, 2, 3}
  NoJob = 0
  Owner <- OwnerABA
  MaxWorkers = 2
  MaxConnectedUsers = 2
  CollisionPolicy = "rename"
  Requests = {r1}
  MaxMisses = 1
  MaxStops = 1
  MaxDrops = 0
INVARIANTS
  TypeOK
  OneWorkerPerUser
  ActiveRowHasWorker
  CompletedIsStored
PROPERTIES
  CancelLostOnlyInFlight
  FinishedIsNotRestarted
  StrandedOnlyByStop
  StoredIsQueuedOnlyByStop
