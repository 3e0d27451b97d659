-------------------------- MODULE DispatcherProofs --------------------------
(* Theorems about Dispatcher, for every value of its constants. *)
EXTENDS Dispatcher, FiniteSetTheorems, TLAPS

\* The pair of the variables that stand for what lies on the remote.
USE DEF cloud

\* Where task.cancel() can leave a task: exactly a task inside its try block
\* goes on to look at its row.
LEMMA CancelledFacts ==
  ASSUME NEW pc \in WorkerState
  PROVE  /\ Cancelled(pc) \in {"none", "ended", "checkStatus"}
         /\ Cancelled(pc) = "none" <=> pc = "none"
         /\ Cancelled(pc) = "checkStatus" <=> pc \in InTry
<1>1. CASE pc \in InTry
  BY <1>1 DEF Cancelled, InTry
<1>2. CASE pc \in InExcept \cup {"created"}
  BY <1>2 DEF Cancelled, InTry, InExcept
<1>3. CASE pc \in {"none", "ended"}
  BY <1>3 DEF Cancelled, InTry, InExcept
<1>4. QED
  BY <1>1, <1>2, <1>3 DEF WorkerState, Running

\* The same by cases: it leaves the task alone, ends it, or sends it to the
\* except block.
LEMMA CancelledCases ==
  \A pc \in WorkerState :
    \/ Cancelled(pc) = pc \/ Cancelled(pc) = "ended"
    \/ Cancelled(pc) = "checkStatus" /\ pc \in InTry
<1> SUFFICES ASSUME NEW pc \in WorkerState
             PROVE  \/ Cancelled(pc) = pc \/ Cancelled(pc) = "ended"
                    \/ Cancelled(pc) = "checkStatus" /\ pc \in InTry
  OBVIOUS
<1>1. CASE Cancelled(pc) = "none"
  BY <1>1, CancelledFacts
<1>2. CASE Cancelled(pc) # "none"
  BY <1>2, CancelledFacts
<1>3. QED
  BY <1>1, <1>2

\* The operators that move a handler on keep it a handler's record.
LEMMA RequestFacts ==
  /\ NoRequest \in Request
  /\ \A q \in Request : Done(q) \in Request
  /\ \A q \in Request, j \in Jobs : Advance(q, j) \in Request
<1>1. NoRequest \in Request
  BY ConstantsAssumption DEF NoRequest, Request, RequestState
<1>2. \A q \in Request : Done(q) \in Request
  BY DEF Done, Request, RequestState
<1>3. \A q \in Request, j \in Jobs : Advance(q, j) \in Request
  BY <1>2 DEF Advance, Request, RequestState
<1>4. QED
  BY <1>1, <1>2, <1>3

\* The variables are well typed at the start ...
LEMMA TypeInit == Init => TypeOK
  BY RequestFacts, ConstantsAssumption
  DEF Init, TypeOK, JobStatus, WorkerState, RemoteState

\* What rclone processes may leave: no path that was taken becomes free, only
\* their own jobs gain their file, and another object comes to lie at a job's
\* path only where one lay at a path of the same user.
LEMMA UploadsFacts ==
  ASSUME NEW S \in SUBSET Jobs, remote \in [Jobs -> RemoteState],
         NEW c \in Uploads(S)
  PROVE  /\ c \in [Jobs -> RemoteState]
         /\ \A j \in Jobs :
              /\ remote[j] # "free" => c[j] # "free"
              /\ c[j] = "own" => remote[j] = "own" \/ j \in S
              /\ c[j] = "foreign" =>
                   \E i \in Jobs : Owner[i] = Owner[j] /\ remote[i] = "foreign"
<1>1. PICK landed \in SUBSET S :
        \E replaced \in SUBSET Replaceable(landed) :
          c = [j \in Jobs |-> IF j \in landed THEN "own"
                              ELSE IF j \in replaced THEN "foreign"
                              ELSE remote[j]]
  BY DEF Uploads
<1>2. PICK replaced \in SUBSET Replaceable(landed) :
        c = [j \in Jobs |-> IF j \in landed THEN "own"
                            ELSE IF j \in replaced THEN "foreign"
                            ELSE remote[j]]
  BY <1>1
<1>3. c \in [Jobs -> RemoteState]
  BY <1>2 DEF RemoteState
<1>4. \A j \in replaced :
        \E i \in Jobs : Owner[i] = Owner[j] /\ remote[i] = "foreign"
  BY DEF Replaceable
<1>5. QED
  BY <1>2, <1>3, <1>4

\* ... and after every step.
LEMMA TypeStep == TypeOK /\ [Next]_vars => TypeOK'
<1> SUFFICES ASSUME TypeOK, [Next]_vars
             PROVE  TypeOK'
  OBVIOUS
<1> USE ConstantsAssumption DEF TypeOK, JobStatus, Active, Finished
<1>1. CASE LoopPoll
  BY <1>1 DEF LoopPoll, Scan, NextQueuedUserJobs, Heads
<1>2. ASSUME NEW j \in Jobs, Submit(j) \/ SubmitEnds(j)
      PROVE  TypeOK'
  BY <1>2 DEF Submit, SubmitEnds
<1>3. ASSUME NEW j \in Jobs, LoopAssign(j)
      PROVE  TypeOK'
  BY <1>3 DEF LoopAssign, Scan, WorkerState, Running
<1>4. ASSUME NEW j \in Jobs, Worker(j)
      PROVE  TypeOK'
  <2>1. ASSUME NEW from, NEW to \in WorkerState, Step(j, from, to),
               status' = status \/ \E s \in JobStatus :
                                     status' = [status EXCEPT ![j] = s],
               remote' \in [Jobs -> RemoteState], missed' \subseteq Users
        PROVE  TypeOK'
    BY <2>1 DEF Step
  <2>2. {"none", "ended", "created", "download", "saveDownloaded",
         "choosePath", "saveUploading", "spawn", "upload", "verify",
         "saveCompleted", "report", "failing", "removeFailed",
         "reportFailure", "checkStatus", "requeue"} \subseteq WorkerState
    BY DEF WorkerState, Running, InTry, InExcept
  <2>3. CASE WorkerStart(j)
    BY <2>1, <2>2, <2>3 DEF WorkerStart
  <2>4. CASE WorkerDownload(j) \/ WorkerSpawn(j)
    BY <2>1, <2>2, <2>4 DEF WorkerDownload, WorkerSpawn
  <2>5. CASE WorkerSaveDownloaded(j) \/ WorkerSaveUploading(j)
    BY <2>1, <2>2, <2>5 DEF WorkerSaveDownloaded, WorkerSaveUploading, Save
  <2>6. CASE WorkerChoosePath(j) \/ WorkerUploadEnds(j)
    <3>1. remote' \in [Jobs -> RemoteState] /\ missed' \subseteq Users
      <4>1. CASE WorkerChoosePath(j)
        BY <4>1 DEF WorkerChoosePath, RemoteState
      <4>2. CASE WorkerUploadEnds(j)
        BY <4>2, UploadsFacts DEF WorkerUploadEnds
      <4>3. QED
        BY <2>6, <4>1, <4>2
    <3>2. QED
      BY <2>1, <2>2, <2>6, <3>1 DEF WorkerChoosePath, WorkerUploadEnds
  <2>7. CASE WorkerVerify(j)
    BY <2>1, <2>2, <2>7 DEF WorkerVerify
  <2>8. CASE WorkerSaveCompleted(j) \/ WorkerSaveFailed(j) \/ WorkerRequeue(j)
    BY <2>1, <2>2, <2>8
    DEF WorkerSaveCompleted, WorkerSaveFailed, WorkerRequeue, Save
  <2>9. CASE WorkerReport(j) \/ WorkerReportFailure(j)
    BY <2>1, <2>2, <2>9 DEF WorkerReport, WorkerReportFailure
  <2>10. CASE WorkerFails(j)
    <3>1. remote' \in [Jobs -> RemoteState] /\ missed' \subseteq Users
      BY <2>10, UploadsFacts DEF WorkerFails
    <3>2. QED
      BY <2>1, <2>2, <2>10, <3>1 DEF WorkerFails
  <2>11. CASE WorkerCheckStatus(j)
    BY <2>1, <2>2, <2>11 DEF WorkerCheckStatus
  <2>12. QED
    BY <1>4, <2>3, <2>4, <2>5, <2>6, <2>7, <2>8, <2>9, <2>10, <2>11 DEF Worker
<1>5. ASSUME NEW j \in Jobs, ReleaseWorker(j)
      PROVE  TypeOK'
  BY <1>5 DEF ReleaseWorker, WorkerState
<1>6. ASSUME NEW r \in Requests, RequestStep(r)
      PROVE  TypeOK'
  <2>1. ASSUME NEW j \in Jobs, CancelWrite(r, j)
        PROVE  TypeOK'
    <3>1. [requests[r] EXCEPT !.pc = "terminating"] \in Request
      BY DEF Request, RequestState
    <3>2. Advance(requests[r], j) \in Request
      BY RequestFacts
    <3>3. Cancelled(worker[j]) \in WorkerState
      BY CancelledFacts DEF WorkerState, Running, InExcept
    <3>4. QED
      BY <2>1, <3>1, <3>2, <3>3 DEF CancelWrite
  <2>2. ASSUME NEW j \in Jobs, CancelTerminated(r, j)
        PROVE  TypeOK'
    <3>1. Advance(requests[r], j) \in Request
      BY RequestFacts
    <3>2. Cancelled(worker[j]) \in WorkerState
      BY CancelledFacts DEF WorkerState, Running, InExcept
    <3>3. QED
      BY <2>2, <3>1, <3>2 DEF CancelTerminated
  <2>3. CASE ClearStopUser(r)
    <3>1. [requests[r] EXCEPT !.pc = "clearRows", !.wait = {}] \in Request
      BY DEF Request, RequestState
    <3>2. QED
      BY <2>3, <3>1 DEF ClearStopUser
  <2>4. CASE ClearUserAccess(r)
    <3>1. Done(requests[r]) \in Request
      BY RequestFacts
    <3>2. QED
      BY <2>4, <3>1 DEF ClearUserAccess
  <2>5. QED
    BY <1>6, <2>1, <2>2, <2>3, <2>4 DEF RequestStep
<1>7. ASSUME NEW r \in Requests, NEW u \in Users, RequestBegins(r, u)
      PROVE  TypeOK'
  <2>1. ASSUME NEW all \in BOOLEAN, NEW todo \in SUBSET Jobs,
               NEW wait \in SUBSET Jobs, Begin(r, u, all, todo, wait)
        PROVE  TypeOK'
    <3>1. [pc |-> IF todo = {} THEN "gather" ELSE "write",
           user |-> u, all |-> all, todo |-> todo, wait |-> wait] \in Request
      BY DEF Request, RequestState
    <3>2. QED
      BY <2>1, <3>1 DEF Begin
  <2>2. CASE CancelById(r, u) \/ CancelOldest(r, u)
    <3>1. PICK j \in Jobs : Begin(r, u, FALSE, {j}, {})
      BY <2>2 DEF CancelById, CancelOldest, JobsOf
    <3>2. {j} \in SUBSET Jobs /\ {} \in SUBSET Jobs /\ FALSE \in BOOLEAN
      OBVIOUS
    <3>3. QED
      BY <2>1, <3>1, <3>2, Zenon
  <2>3. CASE CancelAll(r, u)
    <3> DEFINE rows == {j \in JobsOf(u) :
                          status[j] \in {"RECEIVED", "QUEUED"} \cup Active}
    <3>1. /\ rows \in SUBSET Jobs /\ TRUE \in BOOLEAN
          /\ rows \cap Registered(worker) \in SUBSET Jobs
      BY DEF JobsOf
    <3>2. Begin(r, u, TRUE, rows, rows \cap Registered(worker))
      BY <2>3 DEF CancelAll
    <3> HIDE DEF rows
    <3>3. QED
      BY <2>1, <3>1, <3>2, Zenon
  <2>4. QED
    BY <1>7, <2>2, <2>3 DEF RequestBegins
<1>8. ASSUME NEW u \in Users, ClientDrops(u) \/ ClientReturns(u)
      PROVE  TypeOK'
  <2>1. connected' \in [Users -> BOOLEAN]
    BY <1>8, Zenon DEF ClientDrops, ClientReturns
  <2>2. drops' \in 0..MaxDrops
    BY <1>8 DEF ClientDrops, ClientReturns
  <2>3. QED
    BY <1>8, <2>1, <2>2 DEF ClientDrops, ClientReturns
<1>9. CASE Shutdown
  <2>1. \A j \in Jobs : Cancelled(worker[j]) \in WorkerState
    BY CancelledFacts DEF WorkerState, Running, InExcept
  <2>2. remote' \in [Jobs -> RemoteState]
    BY <1>9, UploadsFacts DEF Shutdown, Abandoned
  <2>3. QED
    BY <1>9, <2>1, <2>2 DEF Shutdown
<1>10. CASE ShutdownEnds \/ Crash
  <2>1. stops' \in 0..MaxStops
    BY <1>10 DEF ShutdownEnds, Crash
  <2>2. LoseMemory
    BY <1>10 DEF ShutdownEnds, Crash
  <2>3. connected' \in [Users -> BOOLEAN]
    BY <2>2, Zenon DEF LoseMemory
  <2>4. requests' \in [Requests -> Request]
    BY <2>2, RequestFacts DEF LoseMemory
  <2>5. remote' \in [Jobs -> RemoteState]
    BY <2>2, UploadsFacts DEF LoseMemory, Abandoned
  <2>6. QED
    BY <2>1, <2>2, <2>3, <2>4, <2>5 DEF LoseMemory, WorkerState
<1>11. CASE Restart
  BY <1>11 DEF Restart, RecoverWith
<1>12. CASE UNCHANGED vars
  BY <1>12 DEF vars
<1>13. QED
  BY <1>1, <1>2, <1>3, <1>4, <1>5, <1>6, <1>7, <1>8, <1>9, <1>10, <1>11,
     <1>12 DEF Next

\* The variables of the dispatcher always have the types of the code's maps,
\* sets and enumerations.
THEOREM TypeCorrect == Spec => []TypeOK
  BY TypeInit, TypeStep, PTL DEF Spec

-----------------------------------------------------------------------------
(* A process that is gone runs nothing. *)

\* No step makes a process that is gone run anything.
LEMMA StoppedStep ==
  ASSUME TypeOK, StoppedIsEmpty, [Next]_vars
  PROVE  StoppedIsEmpty'
<1> USE DEF StoppedIsEmpty
<1>1. CASE LoopPoll
  BY <1>1 DEF LoopPoll
<1>2. ASSUME NEW j \in Jobs, Submit(j) \/ SubmitEnds(j)
      PROVE  StoppedIsEmpty'
  BY <1>2 DEF Submit, SubmitEnds
<1>3. ASSUME NEW j \in Jobs, LoopAssign(j)
      PROVE  StoppedIsEmpty'
  BY <1>3 DEF LoopAssign, First
<1>4. ASSUME NEW j \in Jobs, Worker(j)
      PROVE  StoppedIsEmpty'
  BY <1>4
  DEF Worker, Step, Save, WorkerStart, WorkerDownload, WorkerSaveDownloaded,
      WorkerChoosePath, WorkerSaveUploading, WorkerSpawn, WorkerUploadEnds,
      WorkerVerify, WorkerSaveCompleted, WorkerReport, WorkerFails,
      WorkerSaveFailed, WorkerReportFailure, WorkerCheckStatus, WorkerRequeue
<1>5. ASSUME NEW j \in Jobs, ReleaseWorker(j)
      PROVE  StoppedIsEmpty'
  BY <1>5 DEF ReleaseWorker
<1>6. ASSUME NEW r \in Requests, RequestStep(r)
      PROVE  StoppedIsEmpty'
  BY <1>6 DEF RequestStep, CancelWrite, CancelTerminated, ClearStopUser,
              ClearUserAccess
<1>7. ASSUME NEW r \in Requests, NEW u \in Users, RequestBegins(r, u)
      PROVE  StoppedIsEmpty'
  BY <1>7 DEF RequestBegins, CancelById, CancelOldest, CancelAll, Begin
<1>8. ASSUME NEW u \in Users, ClientDrops(u) \/ ClientReturns(u)
      PROVE  StoppedIsEmpty'
  BY <1>8 DEF ClientDrops, ClientReturns
<1>9. CASE Shutdown \/ Restart
  BY <1>9 DEF Shutdown, Restart, RecoverWith
<1>10. CASE ShutdownEnds \/ Crash
  <2>1. LoseMemory
    BY <1>10 DEF ShutdownEnds, Crash
  <2>2. \A q \in Request : Done(q).pc = "done"
    BY DEF Done, Request
  <2>3. \A r \in Requests : requests'[r].pc \in {"idle", "done"}
    BY <2>1, <2>2 DEF LoseMemory, TypeOK
  <2>4. QED
    BY <2>1, <2>3 DEF LoseMemory
<1>11. CASE UNCHANGED vars
  BY <1>11 DEF vars
<1>12. QED
  BY <1>1, <1>2, <1>3, <1>4, <1>5, <1>6, <1>7, <1>8, <1>9, <1>10, <1>11
     DEF Next

-----------------------------------------------------------------------------
(* The inductive invariant *)

\* _jobs is finite, so its size is a number.
LEMMA RegisteredFacts ==
  ASSUME NEW wk
  PROVE  /\ IsFiniteSet(Registered(wk))
         /\ Cardinality(Registered(wk)) \in Nat
  BY ConstantsAssumption, FS_Subset, FS_CardinalityType DEF Registered

\* One more element makes a set at most one larger.
LEMMA AddOne ==
  ASSUME NEW S, NEW x, IsFiniteSet(S)
  PROVE  Cardinality(S \cup {x}) <= Cardinality(S) + 1
<1>1. Cardinality(S) \in Nat
  BY FS_CardinalityType
<1>2. Cardinality(S \cup {x})
        = IF x \in S THEN Cardinality(S) ELSE Cardinality(S) + 1
  BY FS_AddElement
<1>3. QED
  BY <1>1, <1>2

\* The invariant holds when the service starts for the first time.
LEMMA JobInit == Init => JobInv
<1> SUFFICES ASSUME Init PROVE JobInv
  OBVIOUS
<1>1. TypeOK
  BY TypeInit
<1>2. WorkerLimit
  <2>1. Registered(worker) = {}
    BY DEF Init, Registered
  <2>2. QED
    BY <2>1, FS_EmptySet, ConstantsAssumption DEF WorkerLimit
<1>3. QED
  BY <1>1, <1>2, ConstantsAssumption
  DEF Init, JobInv, OneWorkerPerUser, ActiveRowHasWorker, CompletedIsStored,
      BatchIsFresh, FirstIsAssignable, ReplyPrecedesQueue,
      CancelledTaskHasCancelledRow, TerminatedTaskStops, Terminating,
      OutcomeIsWritten, ForeignIsTaken, StoppedIsEmpty, NoRequest, Registered,
      Active

\* What rclone processes leave behind keeps paths taken, and another object
\* lies only where it may.
LEMMA UploadsKeep ==
  ASSUME JobInv, NEW S \in SUBSET Jobs, remote' \in Uploads(S),
         missed' = missed
  PROVE  /\ ForeignIsTaken'
         /\ \A j \in Jobs : remote[j] # "free" => remote'[j] # "free"
<1>1. \A j \in Jobs :
        /\ remote[j] # "free" => remote'[j] # "free"
        /\ remote'[j] = "foreign" =>
             \E i \in Jobs : Owner[i] = Owner[j] /\ remote[i] = "foreign"
  BY UploadsFacts DEF JobInv, TypeOK
<1>2. ForeignIsTaken'
  BY <1>1 DEF JobInv, ForeignIsTaken, Occupiable
<1>3. QED
  BY <1>1, <1>2

\* A step that completes no job and frees no path keeps the outcomes true.
LEMMA CompletedKept ==
  ASSUME JobInv, TypeOK', ForeignIsTaken',
         \A j \in Jobs : remote[j] # "free" => remote'[j] # "free",
         \A j \in Jobs : status'[j] = "COMPLETED" => status[j] = "COMPLETED"
  PROVE  CompletedIsStored'
<1>1. \A j \in Jobs : status'[j] = "COMPLETED" => remote'[j] # "free"
  BY DEF JobInv, CompletedIsStored
<1>2. \A j \in Jobs : remote'[j] \in RemoteState
  BY DEF TypeOK
<1>3. QED
  BY <1>1, <1>2 DEF CompletedIsStored, ForeignIsTaken, RemoteState

\* A step that registers no task and adds no candidate keeps the two bounds.
LEMMA BoundsKept ==
  ASSUME JobInv,
         \A j \in Jobs : worker[j] = "none" => worker'[j] = "none",
         batch' \subseteq batch
  PROVE  WorkerLimit' /\ FirstIsAssignable'
<1>1. Registered(worker') \subseteq Registered(worker)
  BY DEF Registered
<1>2. Cardinality(Registered(worker')) <= Cardinality(Registered(worker))
  BY <1>1, RegisteredFacts, FS_Subset
<1>3. QED
  BY <1>2, RegisteredFacts, ConstantsAssumption
  DEF JobInv, WorkerLimit, FirstIsAssignable

\* LoopPoll: the candidates _loop takes over from the query are assignable.
LEMMA PollStep == JobInv /\ LoopPoll => JobInv'
<1> SUFFICES ASSUME JobInv, LoopPoll PROVE JobInv'
  OBVIOUS
<1> USE ConstantsAssumption DEF JobInv, LoopPoll
<1>1. TypeOK' /\ StoppedIsEmpty'
  BY TypeStep, StoppedStep DEF Next
<1>2. batch' \subseteq Heads
  BY DEF Scan, NextQueuedUserJobs
<1>3. \A j \in batch' : /\ j \in Jobs /\ status[j] = "QUEUED"
                       /\ activeUsers[Owner[j]] = NoJob /\ worker[j] = "none"
  BY <1>2 DEF Heads, OneWorkerPerUser, Registered
<1>4. BatchIsFresh'
  <2>1. \A i, j \in batch' : Owner[i] = Owner[j] => i = j
    BY <1>2 DEF Heads, JobsOf
  <2>2. \A j \in batch' : j \notin replying
    BY <1>3 DEF ReplyPrecedesQueue
  <2>3. QED
    BY <1>3, <2>1, <2>2 DEF BatchIsFresh
<1>5. WorkerLimit' /\ FirstIsAssignable'
  BY RegisteredFacts DEF WorkerLimit, FirstIsAssignable, Scan
<1>6. TerminatedTaskStops'
  BY <1>3 DEF TerminatedTaskStops, Terminating
<1>7. QED
  BY <1>1, <1>4, <1>5, <1>6
  DEF OneWorkerPerUser, ActiveRowHasWorker, CompletedIsStored,
      ReplyPrecedesQueue, CancelledTaskHasCancelledRow,
      OutcomeIsWritten, ForeignIsTaken, Occupiable

\* LoopAssign: registering the first candidate leaves the others assignable,
\* and the bound of the workers has room for it.
LEMMA AssignStep ==
  ASSUME JobInv, NEW j \in Jobs, LoopAssign(j)
  PROVE  JobInv'
<1> USE ConstantsAssumption DEF JobInv
<1>1. TypeOK' /\ StoppedIsEmpty'
  BY TypeStep, StoppedStep DEF Next
<1>2. j \in batch /\ worker[j] = "none" /\ activeUsers[Owner[j]] = NoJob
  BY DEF LoopAssign, First, BatchIsFresh
<1>3. /\ batch' \subseteq batch \ {j}
      /\ \A i \in batch' : Owner[i] # Owner[j]
  BY <1>2 DEF LoopAssign, Scan, BatchIsFresh
<1>4. BatchIsFresh'
  BY <1>1, <1>2, <1>3 DEF LoopAssign, BatchIsFresh, TypeOK
<1>5. WorkerLimit' /\ FirstIsAssignable'
  <2>1. Registered(worker') = Registered(worker) \cup {j}
    BY DEF LoopAssign, Registered, TypeOK
  <2>2. Cardinality(Registered(worker')) <= MaxWorkers
    <3>1. Cardinality(Registered(worker)) < MaxWorkers
      BY <1>2 DEF FirstIsAssignable
    <3>2. Cardinality(Registered(worker')) <= Cardinality(Registered(worker)) + 1
      BY <2>1, RegisteredFacts, AddOne
    <3>3. QED
      BY <3>1, <3>2, RegisteredFacts
  <2>3. batch' = {} \/ Cardinality(Registered(worker')) < MaxWorkers
    BY RegisteredFacts DEF LoopAssign, Scan
  <2>4. QED
    BY <2>2, <2>3 DEF WorkerLimit, FirstIsAssignable
<1>6. OneWorkerPerUser'
  <2>1. Registered(worker') = Registered(worker) \cup {j}
    BY DEF LoopAssign, Registered, TypeOK
  <2>2. \A i \in Registered(worker) : Owner[i] # Owner[j]
    BY <1>2 DEF OneWorkerPerUser, Registered
  <2>3. activeUsers' = [activeUsers EXCEPT ![Owner[j]] = j]
    BY DEF LoopAssign
  <2>4. \A i \in Registered(worker') : activeUsers'[Owner[i]] = i
    BY <2>1, <2>2, <2>3 DEF OneWorkerPerUser, Registered, TypeOK
  <2>5. \A u \in Users : activeUsers'[u] # NoJob =>
           activeUsers'[u] \in Registered(worker') \cap JobsOf(u)
    BY <2>1, <2>3 DEF OneWorkerPerUser, JobsOf, TypeOK
  <2>6. QED
    BY <2>4, <2>5 DEF OneWorkerPerUser
<1>7. ActiveRowHasWorker' /\ CompletedIsStored' /\ ForeignIsTaken'
  BY DEF LoopAssign, ActiveRowHasWorker, CompletedIsStored, ForeignIsTaken,
         Occupiable, Active, Running, TypeOK
<1>8. ReplyPrecedesQueue' /\ CancelledTaskHasCancelledRow'
  BY <1>2 DEF LoopAssign, ReplyPrecedesQueue, CancelledTaskHasCancelledRow,
         BatchIsFresh, TypeOK
<1>9. TerminatedTaskStops'
  BY <1>2, <1>3 DEF LoopAssign, TerminatedTaskStops, Terminating, TypeOK
<1>10. OutcomeIsWritten'
  BY DEF LoopAssign, OutcomeIsWritten, TypeOK
<1>11. QED
  BY <1>1, <1>4, <1>5, <1>6, <1>7, <1>8, <1>9, <1>10

\* What every step of a task leaves alone.
LEMMA WorkerFrame ==
  ASSUME JobInv, NEW j \in Jobs, NEW from, NEW to, Step(j, from, to),
         from # "none", to # "none",
         \/ status' = status
         \/ \E s \in JobStatus \ {"NONE"} : status' = [status EXCEPT ![j] = s]
  PROVE  /\ OneWorkerPerUser' /\ WorkerLimit' /\ FirstIsAssignable'
         /\ BatchIsFresh' /\ ReplyPrecedesQueue'
<1> USE ConstantsAssumption DEF JobInv
<1>1. worker[j] # "none" /\ j \notin batch /\ j \notin replying
  BY DEF Step, BatchIsFresh, ReplyPrecedesQueue
<1>2. worker' = [worker EXCEPT ![j] = to]
  BY DEF Step
<1>3. Registered(worker') = Registered(worker)
  BY <1>1, <1>2 DEF Registered, TypeOK
<1>4. OneWorkerPerUser'
  BY <1>3 DEF OneWorkerPerUser, Step
<1>5. WorkerLimit' /\ FirstIsAssignable'
  BY <1>3 DEF WorkerLimit, FirstIsAssignable, Step
<1>6. BatchIsFresh'
  BY <1>1, <1>2 DEF BatchIsFresh, Step, TypeOK
<1>7. ReplyPrecedesQueue'
  BY <1>1, <1>2 DEF ReplyPrecedesQueue, Step, TypeOK
<1>8. QED
  BY <1>4, <1>5, <1>6, <1>7

\* The steps of _process, one by one.
LEMMA WorkerStepKeeps ==
  ASSUME JobInv, NEW j \in Jobs, Worker(j)
  PROVE  JobInv'
<1> USE ConstantsAssumption DEF JobInv
<1>1. TypeOK' /\ StoppedIsEmpty'
  BY TypeStep, StoppedStep DEF Next
<1> DEFINE Rest == /\ ActiveRowHasWorker /\ CompletedIsStored
                   /\ CancelledTaskHasCancelledRow /\ TerminatedTaskStops
                   /\ OutcomeIsWritten /\ ForeignIsTaken
           Frame == /\ OneWorkerPerUser /\ WorkerLimit /\ FirstIsAssignable
                    /\ BatchIsFresh /\ ReplyPrecedesQueue
<1>2. CASE WorkerStart(j)
  <2>1. Frame'
    BY <1>2, WorkerFrame DEF WorkerStart, JobStatus, Active, Finished
  <2>2. Rest'
    BY <1>2 DEF WorkerStart, Step, TypeOK, ActiveRowHasWorker,
       CompletedIsStored, CancelledTaskHasCancelledRow, TerminatedTaskStops,
       OutcomeIsWritten, ForeignIsTaken, Occupiable, Terminating, Active,
       Finished, Running, InTry, InExcept
  <2>3. QED
    BY <1>1, <2>1, <2>2
<1>3. CASE WorkerDownload(j)
  <2>1. Frame'
    BY <1>3, WorkerFrame DEF WorkerDownload, JobStatus, Active, Finished
  <2>2. Rest'
    BY <1>3 DEF WorkerDownload, Step, TypeOK, ActiveRowHasWorker,
       CompletedIsStored, CancelledTaskHasCancelledRow, TerminatedTaskStops,
       OutcomeIsWritten, ForeignIsTaken, Occupiable, Terminating, Active,
       Finished, Running, InTry, InExcept
  <2>3. QED
    BY <1>1, <2>1, <2>2
<1>4. CASE WorkerSaveDownloaded(j)
  <2>1. Frame'
    BY <1>4, WorkerFrame DEF WorkerSaveDownloaded, Save, JobStatus, Active, Finished
  <2>2. Rest'
    BY <1>4 DEF WorkerSaveDownloaded, Save, Step, TypeOK, ActiveRowHasWorker,
       CompletedIsStored, CancelledTaskHasCancelledRow, TerminatedTaskStops,
       OutcomeIsWritten, ForeignIsTaken, Occupiable, Terminating, Active,
       Finished, Running, InTry, InExcept
  <2>3. QED
    BY <1>1, <2>1, <2>2
<1>5. CASE WorkerChoosePath(j)
  <2>1. Frame'
    BY <1>5, WorkerFrame DEF WorkerChoosePath, JobStatus, Active, Finished
  <2>2. status[j] # "COMPLETED"
    BY <1>5 DEF WorkerChoosePath, Step, OutcomeIsWritten
  <2>3. \A i \in Jobs \ {j} : remote'[i] = remote[i]
    BY <1>5 DEF WorkerChoosePath, TypeOK
  <2>4. /\ missed \subseteq missed'
        /\ remote'[j] = "foreign" =>
             CollisionPolicy = "overwrite" \/ Owner[j] \in missed'
    BY <1>5 DEF WorkerChoosePath, TypeOK
  <2>5. ForeignIsTaken' /\ CompletedIsStored'
    BY <1>5, <2>2, <2>3, <2>4
    DEF WorkerChoosePath, ForeignIsTaken, CompletedIsStored, Occupiable
  <2>6. OutcomeIsWritten'
    BY <1>5, <2>2, <2>3 DEF WorkerChoosePath, Step, OutcomeIsWritten, TypeOK
  <2>7. /\ ActiveRowHasWorker' /\ CancelledTaskHasCancelledRow'
        /\ TerminatedTaskStops'
    BY <1>5 DEF WorkerChoosePath, Step, TypeOK, ActiveRowHasWorker,
       CancelledTaskHasCancelledRow, TerminatedTaskStops, Terminating, Active,
       Finished, Running, InTry, InExcept
  <2>8. QED
    BY <1>1, <2>1, <2>5, <2>6, <2>7
<1>6. CASE WorkerSaveUploading(j)
  <2>1. Frame'
    BY <1>6, WorkerFrame DEF WorkerSaveUploading, Save, JobStatus, Active, Finished
  <2>2. Rest'
    BY <1>6 DEF WorkerSaveUploading, Save, Step, TypeOK, ActiveRowHasWorker,
       CompletedIsStored, CancelledTaskHasCancelledRow, TerminatedTaskStops,
       OutcomeIsWritten, ForeignIsTaken, Occupiable, Terminating, Active,
       Finished, Running, InTry, InExcept
  <2>3. QED
    BY <1>1, <2>1, <2>2
<1>7. CASE WorkerSpawn(j)
  <2>1. Frame'
    BY <1>7, WorkerFrame DEF WorkerSpawn, JobStatus, Active, Finished
  <2>2. Rest'
    BY <1>7 DEF WorkerSpawn, Step, TypeOK, ActiveRowHasWorker,
       CompletedIsStored, CancelledTaskHasCancelledRow, TerminatedTaskStops,
       OutcomeIsWritten, ForeignIsTaken, Occupiable, Terminating, Active,
       Finished, Running, InTry, InExcept
  <2>3. QED
    BY <1>1, <2>1, <2>2
<1>8. CASE WorkerUploadEnds(j)
  <2>1. Frame'
    BY <1>8, WorkerFrame DEF WorkerUploadEnds, JobStatus, Active, Finished
  <2>2. /\ ForeignIsTaken'
        /\ \A i \in Jobs : remote[i] # "free" => remote'[i] # "free"
    BY <1>8, UploadsKeep DEF WorkerUploadEnds, ForeignIsTaken, Occupiable
  <2>3. CompletedIsStored'
    BY <1>1, <1>8, <2>2, CompletedKept DEF WorkerUploadEnds
  <2>4. OutcomeIsWritten'
    BY <1>8, <2>2 DEF WorkerUploadEnds, Step, OutcomeIsWritten, TypeOK
  <2>5. /\ ActiveRowHasWorker' /\ CancelledTaskHasCancelledRow'
        /\ TerminatedTaskStops'
    BY <1>8 DEF WorkerUploadEnds, Step, TypeOK, ActiveRowHasWorker,
       CancelledTaskHasCancelledRow, TerminatedTaskStops, Terminating, Active,
       Finished, Running, InTry, InExcept
  <2>6. QED
    BY <1>1, <2>1, <2>2, <2>3, <2>4, <2>5
<1>9. CASE WorkerVerify(j)
  <2>1. Frame'
    BY <1>9, WorkerFrame DEF WorkerVerify, JobStatus, Active, Finished
  <2>2. Rest'
    BY <1>9 DEF WorkerVerify, Step, TypeOK, ActiveRowHasWorker,
       CompletedIsStored, CancelledTaskHasCancelledRow, TerminatedTaskStops,
       OutcomeIsWritten, ForeignIsTaken, Occupiable, Terminating, Active,
       Finished, Running, InTry, InExcept
  <2>3. QED
    BY <1>1, <2>1, <2>2
<1>10. CASE WorkerSaveCompleted(j)
  <2>1. Frame'
    BY <1>10, WorkerFrame DEF WorkerSaveCompleted, Save, JobStatus, Active, Finished
  <2>2. remote[j] # "free" /\ remote' = remote /\ missed' = missed
    BY <1>10 DEF WorkerSaveCompleted, Save, Step, OutcomeIsWritten
  <2>3. \A i \in Jobs \ {j} : status'[i] = status[i]
    BY <1>10 DEF WorkerSaveCompleted, Save, TypeOK
  <2>4. ForeignIsTaken' /\ CompletedIsStored'
    <3>1. remote[j] \in {"own", "foreign"}
      BY <2>2 DEF TypeOK, RemoteState
    <3>2. QED
      BY <2>2, <2>3, <3>1 DEF ForeignIsTaken, CompletedIsStored, Occupiable
  <2>5. OutcomeIsWritten'
    BY <1>10 DEF WorkerSaveCompleted, Save, Step, OutcomeIsWritten, TypeOK,
       Finished
  <2>6. /\ ActiveRowHasWorker' /\ CancelledTaskHasCancelledRow'
        /\ TerminatedTaskStops'
    BY <1>10 DEF WorkerSaveCompleted, Save, Step, TypeOK, ActiveRowHasWorker,
       CancelledTaskHasCancelledRow, TerminatedTaskStops, OutcomeIsWritten,
       Terminating, Active, Finished, Running, InTry, InExcept
  <2>7. QED
    BY <1>1, <2>1, <2>4, <2>5, <2>6
<1>11. CASE WorkerReport(j)
  <2>1. Frame'
    BY <1>11, WorkerFrame DEF WorkerReport, JobStatus, Active, Finished
  <2>2. Rest'
    BY <1>11 DEF WorkerReport, Step, TypeOK, ActiveRowHasWorker,
       CompletedIsStored, CancelledTaskHasCancelledRow, TerminatedTaskStops,
       OutcomeIsWritten, ForeignIsTaken, Occupiable, Terminating, Active,
       Finished, Running, InTry, InExcept
  <2>3. QED
    BY <1>1, <2>1, <2>2
<1>12. CASE WorkerFails(j)
  <2>1. Frame'
    BY <1>12, WorkerFrame DEF WorkerFails, JobStatus, Active, Finished
  <2>2. /\ ForeignIsTaken'
        /\ \A i \in Jobs : remote[i] # "free" => remote'[i] # "free"
    BY <1>12, UploadsKeep DEF WorkerFails, ForeignIsTaken, Occupiable
  <2>3. CompletedIsStored'
    BY <1>1, <1>12, <2>2, CompletedKept DEF WorkerFails
  <2>4. OutcomeIsWritten'
    BY <1>12, <2>2 DEF WorkerFails, Step, OutcomeIsWritten, TypeOK
  <2>5. /\ ActiveRowHasWorker' /\ CancelledTaskHasCancelledRow'
        /\ TerminatedTaskStops'
    BY <1>12 DEF WorkerFails, Step, TypeOK, ActiveRowHasWorker,
       CancelledTaskHasCancelledRow, TerminatedTaskStops, Terminating, Active,
       Finished, Running, InTry, InExcept
  <2>6. QED
    BY <1>1, <2>1, <2>2, <2>3, <2>4, <2>5
<1>13. CASE WorkerSaveFailed(j)
  <2>1. Frame'
    BY <1>13, WorkerFrame DEF WorkerSaveFailed, Save, JobStatus, Active, Finished
  <2>2. Rest'
    BY <1>13 DEF WorkerSaveFailed, Save, Step, TypeOK, ActiveRowHasWorker,
       CompletedIsStored, CancelledTaskHasCancelledRow, TerminatedTaskStops,
       OutcomeIsWritten, ForeignIsTaken, Occupiable, Terminating, Active,
       Finished, Running, InTry, InExcept
  <2>3. QED
    BY <1>1, <2>1, <2>2
<1>14. CASE WorkerReportFailure(j)
  <2>1. Frame'
    BY <1>14, WorkerFrame DEF WorkerReportFailure, JobStatus, Active, Finished
  <2>2. Rest'
    BY <1>14 DEF WorkerReportFailure, Step, TypeOK, ActiveRowHasWorker,
       CompletedIsStored, CancelledTaskHasCancelledRow, TerminatedTaskStops,
       OutcomeIsWritten, ForeignIsTaken, Occupiable, Terminating, Active,
       Finished, Running, InTry, InExcept
  <2>3. QED
    BY <1>1, <2>1, <2>2
<1>15. CASE WorkerCheckStatus(j)
  <2>1. Frame'
    BY <1>15, WorkerFrame DEF WorkerCheckStatus, JobStatus, Active, Finished
  <2>2. Rest'
    BY <1>15 DEF WorkerCheckStatus, Step, TypeOK, ActiveRowHasWorker,
       CompletedIsStored, CancelledTaskHasCancelledRow, TerminatedTaskStops,
       OutcomeIsWritten, ForeignIsTaken, Occupiable, Terminating, Active,
       Finished, Running, InTry, InExcept
  <2>3. QED
    BY <1>1, <2>1, <2>2
<1>16. CASE WorkerRequeue(j)
  <2>1. Frame'
    BY <1>16, WorkerFrame DEF WorkerRequeue, Save, JobStatus, Active, Finished
  <2>2. Rest'
    BY <1>16 DEF WorkerRequeue, Save, Step, TypeOK, ActiveRowHasWorker,
       CompletedIsStored, CancelledTaskHasCancelledRow, TerminatedTaskStops,
       OutcomeIsWritten, ForeignIsTaken, Occupiable, Terminating, Active,
       Finished, Running, InTry, InExcept
  <2>3. QED
    BY <1>1, <2>1, <2>2
<1>17. QED
  BY <1>2, <1>3, <1>4, <1>5, <1>6, <1>7, <1>8, <1>9,
     <1>10, <1>11, <1>12, <1>13, <1>14, <1>15, <1>16 DEF Worker

\* A submission moves only a row that no task and no candidate knows.
LEMMA SubmitKeeps ==
  ASSUME JobInv, NEW j \in Jobs, Submit(j) \/ SubmitEnds(j)
  PROVE  JobInv'
<1> USE ConstantsAssumption DEF JobInv
<1>1. TypeOK' /\ StoppedIsEmpty'
  BY TypeStep, StoppedStep DEF Next
<1>2. worker[j] = "none" /\ worker' = worker /\ j \notin batch
  BY DEF Submit, SubmitEnds, ReplyPrecedesQueue, BatchIsFresh
<1>3. WorkerLimit' /\ FirstIsAssignable'
  BY BoundsKept, <1>2 DEF Submit, SubmitEnds
<1>4. OneWorkerPerUser'
  BY <1>2 DEF Submit, SubmitEnds, OneWorkerPerUser, Registered
<1>5. BatchIsFresh'
  <2>1. \A i \in Jobs \ {j} : /\ status'[i] = status[i]
                              /\ i \in replying' <=> i \in replying
    BY DEF Submit, SubmitEnds, TypeOK
  <2>2. batch' = batch /\ activeUsers' = activeUsers /\ batch \subseteq Jobs
    BY DEF Submit, SubmitEnds, TypeOK
  <2>3. QED
    BY <1>2, <2>1, <2>2 DEF BatchIsFresh
<1>6. ReplyPrecedesQueue'
  <2>1. CASE Submit(j)
    BY <1>2, <2>1 DEF Submit, ReplyPrecedesQueue, TypeOK
  <2>2. CASE SubmitEnds(j)
    BY <1>2, <2>2 DEF SubmitEnds, ReplyPrecedesQueue, TypeOK
  <2>3. QED
    BY <2>1, <2>2
<1>7. /\ ActiveRowHasWorker' /\ CompletedIsStored' /\ OutcomeIsWritten'
      /\ CancelledTaskHasCancelledRow' /\ ForeignIsTaken'
  BY <1>2 DEF Submit, SubmitEnds, ActiveRowHasWorker, CompletedIsStored,
              OutcomeIsWritten, CancelledTaskHasCancelledRow, ForeignIsTaken,
              Occupiable, Active, TypeOK
<1>8. TerminatedTaskStops'
  BY <1>2 DEF Submit, SubmitEnds, TerminatedTaskStops, Terminating, TypeOK
<1>9. QED
  BY <1>1, <1>3, <1>4, <1>5, <1>6, <1>7, <1>8

\* The done callback frees the entry of its own job.
LEMMA ReleaseKeeps ==
  ASSUME JobInv, NEW j \in Jobs, ReleaseWorker(j)
  PROVE  JobInv'
<1> USE ConstantsAssumption DEF JobInv
<1>1. TypeOK' /\ StoppedIsEmpty'
  BY TypeStep, StoppedStep DEF Next
<1>2. /\ worker[j] = "ended" /\ worker' = [worker EXCEPT ![j] = "none"]
      /\ activeUsers[Owner[j]] = j
      /\ activeUsers' = [activeUsers EXCEPT ![Owner[j]] = NoJob]
  BY DEF ReleaseWorker, OneWorkerPerUser, Registered, TypeOK
<1>3. WorkerLimit' /\ FirstIsAssignable'
  BY BoundsKept, <1>2 DEF ReleaseWorker, TypeOK
<1>4. OneWorkerPerUser'
  BY <1>2 DEF ReleaseWorker, OneWorkerPerUser, Registered, JobsOf, TypeOK
<1>5. BatchIsFresh' /\ ReplyPrecedesQueue'
  BY <1>2 DEF ReleaseWorker, BatchIsFresh, ReplyPrecedesQueue, TypeOK
<1>6. /\ ActiveRowHasWorker' /\ CompletedIsStored' /\ OutcomeIsWritten'
      /\ CancelledTaskHasCancelledRow' /\ ForeignIsTaken'
  BY <1>2 DEF ReleaseWorker, ActiveRowHasWorker, CompletedIsStored,
              OutcomeIsWritten, CancelledTaskHasCancelledRow, ForeignIsTaken,
              Occupiable, Active, Running, InTry, InExcept, TypeOK
<1>7. TerminatedTaskStops'
  BY <1>2 DEF ReleaseWorker, TerminatedTaskStops, Terminating, TypeOK
<1>8. QED
  BY <1>1, <1>3, <1>4, <1>5, <1>6, <1>7

\* A handler that is through with a job does not wait for rclone.
LEMMA AdvanceMovesOn ==
  \A q \in Request, j \in Jobs : Advance(q, j).pc # "terminating"
BY DEF Advance, Done, Request, RequestState

\* What cancelling the task of one job leaves alone, whoever cancels it.
LEMMA CancelFrame ==
  ASSUME JobInv, NEW j \in Jobs,
         worker' = worker \/ worker' = [worker EXCEPT ![j] = Cancelled(@)],
         status' = status \/ status' = [status EXCEPT ![j] = "CANCELLED"],
         UNCHANGED <<batch, activeUsers, replying, cloud>>
  PROVE  /\ OneWorkerPerUser' /\ WorkerLimit' /\ FirstIsAssignable'
         /\ BatchIsFresh' /\ ReplyPrecedesQueue' /\ CompletedIsStored'
         /\ OutcomeIsWritten' /\ ForeignIsTaken'
<1> USE ConstantsAssumption DEF JobInv
<1>1. \A i \in Jobs : worker'[i] = "none" <=> worker[i] = "none"
  BY CancelledFacts DEF TypeOK
<1>2. \A i \in Jobs : \/ worker'[i] = worker[i]
                      \/ worker'[i] = "ended"
                      \/ worker'[i] = "checkStatus" /\ worker[i] \in InTry
  <2>1. \A i \in Jobs : worker'[i] = worker[i] \/ worker'[i] = Cancelled(worker[i])
    BY DEF TypeOK
  <2>2. \A i \in Jobs : worker[i] \in WorkerState
    BY DEF TypeOK
  <2>3. QED
    BY <2>1, <2>2, CancelledCases, Zenon
<1>3. WorkerLimit' /\ FirstIsAssignable'
  BY BoundsKept, <1>1
<1>4. OneWorkerPerUser'
  BY <1>1 DEF OneWorkerPerUser, Registered
<1>5. /\ BatchIsFresh' /\ ReplyPrecedesQueue' /\ CompletedIsStored'
      /\ ForeignIsTaken'
  BY <1>1 DEF BatchIsFresh, ReplyPrecedesQueue, CompletedIsStored,
              ForeignIsTaken, Occupiable, TypeOK
<1>6. OutcomeIsWritten'
  BY <1>2 DEF OutcomeIsWritten, Finished, InTry, TypeOK
<1>7. QED
  BY <1>3, <1>4, <1>5, <1>6

\* A handler writes CANCELLED and cancels the task, or waits for rclone.
LEMMA CancelWriteKeeps ==
  ASSUME JobInv, NEW r \in Requests, NEW j \in Jobs, CancelWrite(r, j)
  PROVE  JobInv'
<1> USE ConstantsAssumption DEF JobInv
<1>1. TypeOK' /\ StoppedIsEmpty'
  BY TypeStep, StoppedStep DEF Next, RequestStep
<1>2. /\ OneWorkerPerUser' /\ WorkerLimit' /\ FirstIsAssignable'
      /\ BatchIsFresh' /\ ReplyPrecedesQueue' /\ CompletedIsStored'
      /\ OutcomeIsWritten' /\ ForeignIsTaken'
  BY CancelFrame DEF CancelWrite
<1>3. \A i \in Jobs \ {j} : worker'[i] = worker[i] /\ status'[i] = status[i]
  BY DEF CancelWrite, TypeOK
<1>4. status'[j] = "CANCELLED" /\ mode' = mode
  BY DEF CancelWrite, TypeOK
<1>5. worker'[j] = "upload" \/ worker'[j] \in {"none", "ended", "checkStatus"}
  BY CancelledFacts DEF CancelWrite, TypeOK
<1>6. ActiveRowHasWorker' /\ CancelledTaskHasCancelledRow'
  BY <1>3, <1>4, <1>5
  DEF ActiveRowHasWorker, CancelledTaskHasCancelledRow, Active
<1>7. \A i \in Jobs : Terminating(i)' =>
         Terminating(i) \/ (i = j /\ worker[j] = "upload")
  <2>1. \A q \in Requests \ {r} : requests'[q] = requests[q]
    BY DEF CancelWrite, TypeOK
  <2>2. CASE worker[j] = "upload"
    <3>1. requests'[r].todo = requests[r].todo
      BY <2>2 DEF CancelWrite, TypeOK, Request
    <3>2. requests[r].todo \subseteq Nat /\ First(j, requests[r].todo)
      BY DEF CancelWrite, TypeOK, Request
    <3>3. \A i \in Jobs : First(i, requests[r].todo) => i = j
      BY <3>2 DEF First
    <3>4. QED
      BY <2>1, <2>2, <3>1, <3>3 DEF Terminating
  <2>3. CASE worker[j] # "upload"
    <3>1. requests'[r] = Advance(requests[r], j)
      BY <2>3 DEF CancelWrite, TypeOK
    <3>2. requests'[r].pc # "terminating"
      BY <3>1, AdvanceMovesOn DEF TypeOK
    <3>3. QED
      BY <2>1, <3>2 DEF Terminating
  <2>4. QED
    BY <2>2, <2>3
<1>8. mode = "up" /\ Terminating(j)' => j \notin batch /\ j \notin replying
  BY <1>7 DEF BatchIsFresh, ReplyPrecedesQueue, TerminatedTaskStops
<1>9. TerminatedTaskStops'
  BY <1>3, <1>4, <1>5, <1>7, <1>8 DEF TerminatedTaskStops, CancelWrite
<1>10. QED
  BY <1>1, <1>2, <1>6, <1>9

\* rclone has exited: whatever the task did meanwhile, cancelling it leaves no
\* row in progress behind.
LEMMA CancelTerminatedKeeps ==
  ASSUME JobInv, NEW r \in Requests, NEW j \in Jobs, CancelTerminated(r, j)
  PROVE  JobInv'
<1> USE ConstantsAssumption DEF JobInv
<1>1. TypeOK' /\ StoppedIsEmpty'
  BY TypeStep, StoppedStep DEF Next, RequestStep
<1>2. /\ OneWorkerPerUser' /\ WorkerLimit' /\ FirstIsAssignable'
      /\ BatchIsFresh' /\ ReplyPrecedesQueue' /\ CompletedIsStored'
      /\ OutcomeIsWritten' /\ ForeignIsTaken'
  BY CancelFrame DEF CancelTerminated
<1>3. \A i \in Jobs \ {j} : worker'[i] = worker[i]
  BY DEF CancelTerminated, TypeOK
<1>4. status' = status /\ mode' = mode /\ Terminating(j)
  BY DEF CancelTerminated, Terminating
<1>5. /\ worker'[j] \in {"none", "ended", "checkStatus"}
      /\ worker'[j] = "checkStatus" <=> worker[j] \in InTry
      /\ worker'[j] = "none" <=> worker[j] = "none"
  BY CancelledFacts DEF CancelTerminated, TypeOK
<1>6. mode = "up" =>
        /\ status[j] \notin Active
        /\ worker'[j] = "checkStatus" => status[j] = "CANCELLED"
  BY <1>4, <1>5 DEF TerminatedTaskStops, Active, InTry
<1>7. ActiveRowHasWorker' /\ CancelledTaskHasCancelledRow'
  BY <1>3, <1>4, <1>5, <1>6
  DEF ActiveRowHasWorker, CancelledTaskHasCancelledRow
<1>8. \A i \in Jobs : Terminating(i)' => Terminating(i)
  BY DEF CancelTerminated, Terminating, Advance, Done, First, TypeOK, Request
<1>9. TerminatedTaskStops'
  BY <1>3, <1>4, <1>5, <1>6, <1>8
  DEF TerminatedTaskStops, CancelTerminated, InTry
<1>10. QED
  BY <1>1, <1>2, <1>7, <1>9

\* A step that leaves rows, tasks and candidates alone and lets no handler
\* begin to terminate rclone.
LEMMA JobsUntouched ==
  ASSUME JobInv, TypeOK', StoppedIsEmpty',
         UNCHANGED <<status, replying, batch, worker, activeUsers, cloud, mode>>,
         \A j \in Jobs : Terminating(j)' => Terminating(j)
  PROVE  JobInv'
BY DEF JobInv, OneWorkerPerUser, WorkerLimit, ActiveRowHasWorker,
       CompletedIsStored, BatchIsFresh, FirstIsAssignable, ReplyPrecedesQueue,
       CancelledTaskHasCancelledRow, TerminatedTaskStops, OutcomeIsWritten,
       ForeignIsTaken, Occupiable, JobsOf

\* A step of handler r that does not lead into RcloneService.cancel.
LEMMA HandlerMoves ==
  ASSUME TypeOK, NEW r \in Requests, NEW q,
         requests' = [requests EXCEPT ![r] = q], q.pc # "terminating"
  PROVE  \A j \in Jobs : Terminating(j)' => Terminating(j)
<1>1. \A p \in Requests : requests'[p] = IF p = r THEN q ELSE requests[p]
  BY DEF TypeOK
<1>2. QED
  BY <1>1 DEF Terminating

\* A handler that begins changes nothing of a job.
LEMMA BeginKeeps ==
  ASSUME JobInv, NEW r \in Requests, NEW u \in Users, RequestBegins(r, u)
  PROVE  JobInv'
<1>1. TypeOK' /\ StoppedIsEmpty'
  BY TypeStep, StoppedStep DEF Next, JobInv
<1>2. PICK all, todo, wait : Begin(r, u, all, todo, wait)
  BY DEF RequestBegins, CancelById, CancelOldest, CancelAll
<1>3. \A j \in Jobs : Terminating(j)' => Terminating(j)
  <2> DEFINE q == [pc |-> IF todo = {} THEN "gather" ELSE "write",
                   user |-> u, all |-> all, todo |-> todo, wait |-> wait]
  <2>1. requests' = [requests EXCEPT ![r] = q] /\ q.pc # "terminating"
    BY <1>2 DEF Begin
  <2> HIDE DEF q
  <2>2. QED
    BY <2>1, HandlerMoves DEF JobInv
<1>4. QED
  BY <1>1, <1>2, <1>3, JobsUntouched DEF Begin

\* Nor does one that stops the user's client.
LEMMA ClearStopUserKeeps ==
  ASSUME JobInv, NEW r \in Requests, ClearStopUser(r)
  PROVE  JobInv'
<1>1. TypeOK' /\ StoppedIsEmpty'
  BY TypeStep, StoppedStep DEF Next, RequestStep, JobInv
<1>2. \A j \in Jobs : Terminating(j)' => Terminating(j)
  <2> DEFINE q == [requests[r] EXCEPT !.pc = "clearRows", !.wait = {}]
  <2>1. requests' = [requests EXCEPT ![r] = q]
    BY DEF ClearStopUser
  <2>2. q.pc # "terminating"
    BY DEF JobInv, TypeOK, Request
  <2> HIDE DEF q
  <2>3. QED
    BY <2>1, <2>2, HandlerMoves DEF JobInv
<1>3. QED
  BY <1>1, <1>2, JobsUntouched DEF ClearStopUser

\* The transaction of clear_user_access only cancels rows that no outcome was
\* written to.
LEMMA ClearUserAccessKeeps ==
  ASSUME JobInv, NEW r \in Requests, ClearUserAccess(r)
  PROVE  JobInv'
<1> USE ConstantsAssumption DEF JobInv
<1>1. TypeOK' /\ StoppedIsEmpty'
  BY TypeStep, StoppedStep DEF Next, RequestStep
<1>2. UNCHANGED <<replying, connected, batch, worker, activeUsers, cloud, mode>>
  BY DEF ClearUserAccess
<1>3. \A j \in Jobs :
         \/ status'[j] = status[j]
         \/ /\ status'[j] = "CANCELLED"
            /\ status[j] \in {"RECEIVED", "QUEUED"} \cup Active
  BY DEF ClearUserAccess
<1>4. \A j \in Jobs : Terminating(j)' => Terminating(j)
  <2>1. Done(requests[r]).pc # "terminating"
    BY DEF Done, TypeOK, Request
  <2>2. QED
    BY <2>1, HandlerMoves DEF ClearUserAccess
<1>5. OneWorkerPerUser' /\ WorkerLimit' /\ FirstIsAssignable'
  BY <1>2 DEF OneWorkerPerUser, WorkerLimit, FirstIsAssignable, JobsOf
<1>6. BatchIsFresh' /\ ReplyPrecedesQueue'
  BY <1>2, <1>3 DEF BatchIsFresh, ReplyPrecedesQueue, Active, TypeOK
<1>7. /\ ActiveRowHasWorker' /\ CompletedIsStored' /\ OutcomeIsWritten'
      /\ CancelledTaskHasCancelledRow' /\ ForeignIsTaken'
  BY <1>2, <1>3
  DEF ActiveRowHasWorker, CompletedIsStored, OutcomeIsWritten,
      CancelledTaskHasCancelledRow, ForeignIsTaken, Occupiable, Active, Finished
<1>8. TerminatedTaskStops'
  BY <1>2, <1>3, <1>4 DEF TerminatedTaskStops, Active
<1>9. QED
  BY <1>1, <1>5, <1>6, <1>7, <1>8

\* A Telegram connection that is lost or comes back changes nothing of a job.
LEMMA ClientKeeps ==
  ASSUME JobInv, NEW u \in Users, ClientDrops(u) \/ ClientReturns(u)
  PROVE  JobInv'
<1>1. TypeOK' /\ StoppedIsEmpty'
  BY TypeStep, StoppedStep DEF Next, JobInv
<1>2. UNCHANGED <<status, replying, batch, worker, activeUsers, cloud,
                  requests, mode>>
  BY DEF ClientDrops, ClientReturns
<1>3. QED
  BY <1>1, <1>2, JobsUntouched DEF Terminating

\* Shutdown cancels all the tasks at once, while mode allows requeueing.
LEMMA ShutdownKeeps == JobInv /\ Shutdown => JobInv'
<1> SUFFICES ASSUME JobInv, Shutdown PROVE JobInv'
  OBVIOUS
<1> USE ConstantsAssumption DEF JobInv
<1>1. TypeOK' /\ StoppedIsEmpty'
  BY TypeStep, StoppedStep DEF Next
<1>2. \A j \in Jobs : /\ worker'[j] = "none" <=> worker[j] = "none"
                      /\ worker'[j] \in {"none", "ended", "checkStatus"}
                      /\ worker'[j] = "checkStatus" => worker[j] \in InTry
  BY CancelledFacts DEF Shutdown, TypeOK
<1>3. /\ batch' = {} /\ mode' = "stopping"
      /\ UNCHANGED <<status, replying, activeUsers>>
  BY DEF Shutdown
<1>4. WorkerLimit' /\ FirstIsAssignable'
  BY BoundsKept, <1>2, <1>3
<1>5. OneWorkerPerUser'
  BY <1>2, <1>3 DEF OneWorkerPerUser, Registered, JobsOf
<1>6. BatchIsFresh' /\ ReplyPrecedesQueue'
  BY <1>2, <1>3 DEF BatchIsFresh, ReplyPrecedesQueue, TypeOK
<1>7. ForeignIsTaken' /\ CompletedIsStored' /\ OutcomeIsWritten'
  <2>1. /\ ForeignIsTaken'
        /\ \A j \in Jobs : remote[j] # "free" => remote'[j] # "free"
    BY UploadsKeep DEF Shutdown, Abandoned
  <2>2. CompletedIsStored'
    BY <1>1, <1>3, <2>1, CompletedKept
  <2>3. OutcomeIsWritten'
    BY <1>2, <1>3 DEF OutcomeIsWritten, InTry
  <2>4. QED
    BY <2>1, <2>2, <2>3
<1>8. ActiveRowHasWorker' /\ CancelledTaskHasCancelledRow' /\ TerminatedTaskStops'
  BY <1>3 DEF ActiveRowHasWorker, CancelledTaskHasCancelledRow,
              TerminatedTaskStops
<1>9. QED
  BY <1>1, <1>4, <1>5, <1>6, <1>7, <1>8

\* A process that stops, by a crash or at the end of its shutdown.
LEMMA StopKeeps == JobInv /\ (ShutdownEnds \/ Crash) => JobInv'
<1> SUFFICES ASSUME JobInv, ShutdownEnds \/ Crash PROVE JobInv'
  OBVIOUS
<1> USE ConstantsAssumption DEF JobInv
<1>1. TypeOK' /\ StoppedIsEmpty'
  BY TypeStep, StoppedStep DEF Next
<1>2. LoseMemory
  BY DEF ShutdownEnds, Crash
<1>3. /\ \A j \in Jobs : worker'[j] = "none"
      /\ \A u \in Users : activeUsers'[u] = NoJob
      /\ batch' = {} /\ replying' = {} /\ mode' = "down"
      /\ UNCHANGED status
  BY <1>2 DEF LoseMemory
<1>4. WorkerLimit' /\ FirstIsAssignable'
  BY BoundsKept, <1>3
<1>5. /\ ForeignIsTaken'
      /\ \A j \in Jobs : remote[j] # "free" => remote'[j] # "free"
  BY <1>2, UploadsKeep DEF LoseMemory, Abandoned
<1>6. CompletedIsStored'
  BY <1>1, <1>3, <1>5, CompletedKept
<1>7. QED
  BY <1>1, <1>3, <1>4, <1>5, <1>6
  DEF OneWorkerPerUser, Registered, ActiveRowHasWorker,
      BatchIsFresh, ReplyPrecedesQueue, CancelledTaskHasCancelledRow,
      TerminatedTaskStops, OutcomeIsWritten

\* recover_jobs leaves no row in progress without a task.
LEMMA RestartKeeps == JobInv /\ Restart => JobInv'
<1> SUFFICES ASSUME JobInv, Restart PROVE JobInv'
  OBVIOUS
<1> USE ConstantsAssumption DEF JobInv
<1>1. TypeOK' /\ StoppedIsEmpty'
  BY TypeStep, StoppedStep DEF Next
<1>2. /\ batch' = {} /\ replying' = {}
      /\ \A j \in Jobs : worker[j] = "none"
      /\ \A r \in Requests : requests'[r].pc # "terminating"
      /\ UNCHANGED <<worker, activeUsers, cloud>>
  BY DEF Restart, RecoverWith, StoppedIsEmpty
<1>3. \A j \in Jobs :
         /\ status'[j] \notin Active
         /\ status'[j] \in {"NONE", "COMPLETED", "FAILED"} => status'[j] = status[j]
  BY DEF Restart, RecoverWith, Active
<1>4. WorkerLimit' /\ FirstIsAssignable'
  BY BoundsKept, <1>2
<1>5. OneWorkerPerUser'
  BY <1>2 DEF OneWorkerPerUser, JobsOf
<1>6. QED
  BY <1>1, <1>2, <1>3, <1>4, <1>5
  DEF ActiveRowHasWorker, CompletedIsStored, BatchIsFresh, ReplyPrecedesQueue,
      CancelledTaskHasCancelledRow, TerminatedTaskStops, Terminating,
      OutcomeIsWritten, ForeignIsTaken, Occupiable

\* The invariant is inductive.
LEMMA JobStep == JobInv /\ [Next]_vars => JobInv'
<1> SUFFICES ASSUME JobInv, [Next]_vars PROVE JobInv'
  OBVIOUS
<1>1. CASE UNCHANGED vars
  <2>1. TypeOK' /\ StoppedIsEmpty'
    BY TypeStep, StoppedStep DEF JobInv
  <2>2. QED
    BY <1>1, <2>1, JobsUntouched DEF vars, Terminating
<1>2. ASSUME NEW j \in Jobs,
             \/ Submit(j) \/ SubmitEnds(j) \/ LoopAssign(j)
             \/ Worker(j) \/ ReleaseWorker(j)
      PROVE  JobInv'
  BY <1>2, SubmitKeeps, AssignStep, WorkerStepKeeps, ReleaseKeeps
<1>3. ASSUME NEW r \in Requests, RequestStep(r)
      PROVE  JobInv'
  BY <1>3, CancelWriteKeeps, CancelTerminatedKeeps, ClearStopUserKeeps,
     ClearUserAccessKeeps DEF RequestStep
<1>4. QED
  BY <1>1, <1>2, <1>3, PollStep, BeginKeeps, ClientKeeps, ShutdownKeeps,
     StopKeeps, RestartKeeps DEF Next

\* The strengthening holds in every reachable state.
THEOREM JobInvariant == Spec => []JobInv
  BY JobInit, JobStep, PTL DEF Spec

-----------------------------------------------------------------------------
(* What follows *)

\* At most max_concurrent_user_workers files are processed at a time, at most
\* one of each user, and _active_users names exactly those.
THEOREM WorkersAreBounded == Spec => [](WorkerLimit /\ OneWorkerPerUser)
<1>1. JobInv => WorkerLimit /\ OneWorkerPerUser
  BY DEF JobInv
<1>2. QED
  BY <1>1, JobInvariant, PTL

\* The part of it about one user: _active_users and the tasks agree.
THEOREM UserHasOneWorker == Spec => []OneWorkerPerUser
  BY WorkersAreBounded, PTL

\* While the service runs no row is stuck in a status of a file in progress.
THEOREM NoStuckRow == Spec => []ActiveRowHasWorker
<1>1. JobInv => ActiveRowHasWorker
  BY DEF JobInv
<1>2. QED
  BY <1>1, JobInvariant, PTL

\* COMPLETED is only said of a file that is in the cloud, but for the objects
\* of equal size at a path that the policy "overwrite" or a failed lookup took.
THEOREM CompletionIsTrue == Spec => []CompletedIsStored
<1>1. JobInv => CompletedIsStored
  BY DEF JobInv
<1>2. QED
  BY <1>1, JobInvariant, PTL

\* A finished job is cancelled by a handler that has it in hand, queued again by
\* a task that a shutdown cancelled, or failed by its own task that could not
\* remove the local file; otherwise it keeps its outcome.
THEOREM FinishedStays == Spec => FinishedIsNotRestarted
<1> DEFINE Kept(j) ==
             \/ status'[j] = status[j]
             \/ mode = "stopping" /\ status'[j] = "QUEUED"
             \/ /\ status[j] = "COMPLETED" /\ status'[j] = "FAILED"
                /\ worker[j] = "removeFailed"
             \/ /\ status'[j] = "CANCELLED"
                /\ \E r \in Requests : /\ requests[r].pc = "write"
                                       /\ j \in requests[r].todo
<1>1. JobInv /\ [Next]_vars =>
        \A j \in Jobs : status[j] \in {"COMPLETED", "FAILED"} => Kept(j)
  <2> SUFFICES ASSUME JobInv, [Next]_vars, NEW j \in Jobs,
                      status[j] \in {"COMPLETED", "FAILED"}
               PROVE  Kept(j)
    OBVIOUS
  <2> USE DEF JobInv, TypeOK
  <2>1. ASSUME status' = status
        PROVE  Kept(j)
    BY <2>1
  <2>2. ASSUME NEW i \in Jobs, Submit(i) \/ SubmitEnds(i) \/ LoopAssign(i)
        PROVE  Kept(j)
    BY <2>2 DEF Submit, SubmitEnds, LoopAssign, First, BatchIsFresh,
                ReplyPrecedesQueue
  <2>3. ASSUME NEW i \in Jobs, NEW from, NEW s, NEW to, Save(i, from, s, to),
               from \in {"saveDownloaded", "saveUploading", "saveCompleted",
                         "failing", "removeFailed", "requeue"},
               from = "requeue" => s = "QUEUED",
               from = "removeFailed" => s = "FAILED"
        PROVE  Kept(j)
    <3>1. CASE i = j
      BY <2>3, <3>1 DEF Save, Step, OutcomeIsWritten, StoppedIsEmpty,
                        CancelledTaskHasCancelledRow
    <3>2. CASE i # j
      BY <2>3, <3>2 DEF Save
    <3>3. QED
      BY <3>1, <3>2
  <2>4. ASSUME NEW i \in Jobs, Worker(i)
        PROVE  Kept(j)
    <3>1. CASE WorkerSaveDownloaded(i)
      BY <2>3, <3>1 DEF WorkerSaveDownloaded
    <3>2. CASE WorkerSaveUploading(i)
      BY <2>3, <3>2 DEF WorkerSaveUploading
    <3>3. CASE WorkerSaveCompleted(i)
      BY <2>3, <3>3 DEF WorkerSaveCompleted
    <3>4. CASE WorkerSaveFailed(i)
      BY <2>3, <3>4 DEF WorkerSaveFailed
    <3>5. CASE WorkerRequeue(i)
      BY <2>3, <3>5 DEF WorkerRequeue
    <3>6. CASE \/ WorkerStart(i) \/ WorkerDownload(i) \/ WorkerChoosePath(i)
               \/ WorkerSpawn(i) \/ WorkerUploadEnds(i) \/ WorkerVerify(i)
               \/ WorkerReport(i) \/ WorkerFails(i) \/ WorkerReportFailure(i)
               \/ WorkerCheckStatus(i)
      BY <2>1, <3>6
      DEF WorkerStart, WorkerDownload, WorkerChoosePath, WorkerSpawn,
          WorkerUploadEnds, WorkerVerify, WorkerReport, WorkerFails,
          WorkerReportFailure, WorkerCheckStatus
    <3>7. QED
      BY <2>4, <3>1, <3>2, <3>3, <3>4, <3>5, <3>6 DEF Worker
  <2>5. ASSUME NEW r \in Requests, RequestStep(r)
        PROVE  Kept(j)
    <3>1. ASSUME NEW i \in Jobs, CancelWrite(r, i)
          PROVE  Kept(j)
      BY <3>1 DEF CancelWrite, First
    <3>2. CASE ClearUserAccess(r)
      BY <3>2 DEF ClearUserAccess, Active
    <3>3. ASSUME NEW i \in Jobs, CancelTerminated(r, i)
          PROVE  Kept(j)
      BY <2>1, <3>3 DEF CancelTerminated
    <3>4. CASE ClearStopUser(r)
      BY <2>1, <3>4 DEF ClearStopUser
    <3>5. QED
      BY <2>5, <3>1, <3>2, <3>3, <3>4 DEF RequestStep
  <2>6. CASE Restart
    BY <2>6 DEF Restart, RecoverWith, Active
  <2>7. QED
    BY <2>1, <2>2, <2>3, <2>4, <2>5, <2>6
    DEF Next, vars, LoopPoll, ReleaseWorker, RequestBegins, CancelById,
        CancelOldest, CancelAll, Begin, ClientDrops, ClientReturns, Shutdown,
        ShutdownEnds, Crash, LoseMemory
<1>2. JobInv /\ [Next]_vars =>
        \A j \in Jobs :
          status[j] \in {"COMPLETED", "FAILED"} /\ status'[j] # status[j] =>
            \/ mode = "stopping" /\ status'[j] = "QUEUED"
            \/ /\ status[j] = "COMPLETED" /\ status'[j] = "FAILED"
               /\ worker[j] = "removeFailed"
            \/ /\ status'[j] = "CANCELLED"
               /\ \E r \in Requests : /\ requests[r].pc = "write"
                                      /\ j \in requests[r].todo
  BY <1>1
<1>3. QED
  BY <1>2, JobInvariant, PTL DEF Spec, FinishedIsNotRestarted

\* Nothing is stored for a job before its submission is over: only a task
\* stores, and a job whose submission is not over has none.
LEMMA StoredStep ==
  ASSUME JobInv, StoredWasSubmitted, [Next]_vars
  PROVE  StoredWasSubmitted'
<1> USE DEF JobInv, TypeOK
<1> DEFINE Fresh(j) == j \in replying \/ status[j] = "NONE"
<1>1. ASSUME Stored' \subseteq Stored,
             \A j \in Jobs : (Fresh(j))' => Fresh(j)
      PROVE  StoredWasSubmitted'
  BY <1>1 DEF StoredWasSubmitted, Stored
<1>2. ASSUME replying' \subseteq replying, remote' = remote,
             \A j \in Jobs : status'[j] = "NONE" => status[j] = "NONE"
      PROVE  StoredWasSubmitted'
  BY <1>1, <1>2 DEF Stored
<1>3. ASSUME NEW S \in SUBSET {j \in Jobs : worker[j] # "none"},
             remote' \in Uploads(S), replying' \subseteq replying,
             status' = status
      PROVE  StoredWasSubmitted'
  <2>1. \A j \in S : j \notin replying /\ status[j] # "NONE"
    BY DEF ReplyPrecedesQueue
  <2>2. \A j \in Stored' : j \in Jobs /\ (j \in Stored \/ j \in S)
    BY <1>3, UploadsFacts DEF Stored
  <2>3. QED
    BY <1>3, <2>1, <2>2 DEF StoredWasSubmitted
<1>4. ASSUME NEW i \in Jobs, Submit(i) \/ SubmitEnds(i) \/ LoopAssign(i)
      PROVE  StoredWasSubmitted'
  BY <1>1, <1>4 DEF Submit, SubmitEnds, LoopAssign, Stored
<1>5. ASSUME NEW i \in Jobs, Worker(i)
      PROVE  StoredWasSubmitted'
  <2>1. CASE WorkerUploadEnds(i)
    BY <1>3, <2>1 DEF WorkerUploadEnds, Step
  <2>2. CASE WorkerFails(i)
    BY <1>2, <1>3, <2>2 DEF WorkerFails, Step
  <2>3. CASE WorkerChoosePath(i)
    BY <1>1, <2>3 DEF WorkerChoosePath, Step, Stored
  <2>4. QED
    BY <1>2, <1>5, <2>1, <2>2, <2>3
    DEF Worker, Step, Save, WorkerStart, WorkerDownload, WorkerSaveDownloaded,
        WorkerSaveUploading, WorkerSpawn, WorkerVerify, WorkerSaveCompleted,
        WorkerReport, WorkerSaveFailed, WorkerReportFailure, WorkerCheckStatus,
        WorkerRequeue
<1>6. ASSUME NEW r \in Requests, RequestStep(r)
      PROVE  StoredWasSubmitted'
  BY <1>2, <1>6
  DEF RequestStep, CancelWrite, CancelTerminated, ClearStopUser,
      ClearUserAccess
<1>7. CASE Restart
  BY <1>2, <1>7 DEF Restart, RecoverWith
<1>8. CASE Shutdown \/ LoseMemory
  <2>1. Abandoned \in SUBSET {j \in Jobs : worker[j] # "none"}
    BY DEF Abandoned
  <2>2. QED
    BY <1>3, <1>8, <2>1 DEF Shutdown, LoseMemory
<1>9. QED
  BY <1>2, <1>4, <1>5, <1>6, <1>7, <1>8
  DEF Next, vars, LoopPoll, ReleaseWorker, RequestBegins, CancelById,
      CancelOldest, CancelAll, Begin, ClientDrops, ClientReturns,
      ShutdownEnds, Crash

\* A file in the cloud is uploaded once more only because the process stopped.
THEOREM OnlyStopUploadsAgain == Spec => StoredIsQueuedOnlyByStop
<1>1. Init => StoredWasSubmitted
  BY DEF Init, StoredWasSubmitted, Stored
<1>2. JobInv /\ StoredWasSubmitted /\ [Next]_vars =>
        \A j \in Stored : status'[j] = "QUEUED" /\ status[j] # "QUEUED" =>
          mode # "up"
  <2> SUFFICES ASSUME JobInv, StoredWasSubmitted, [Next]_vars, mode = "up",
                      NEW j \in Stored, status'[j] = "QUEUED"
               PROVE  status[j] = "QUEUED"
    OBVIOUS
  <2> USE DEF JobInv, TypeOK
  <2>1. j \in Jobs /\ j \notin replying
    BY DEF StoredWasSubmitted, Stored
  <2>2. ASSUME NEW i \in Jobs, Submit(i) \/ SubmitEnds(i) \/ LoopAssign(i)
        PROVE  status[j] = "QUEUED"
    BY <2>1, <2>2 DEF Submit, SubmitEnds, LoopAssign
  <2>3. ASSUME NEW i \in Jobs, Worker(i)
        PROVE  status[j] = "QUEUED"
    <3>1. worker[i] # "requeue"
      BY DEF CancelledTaskHasCancelledRow
    <3>2. QED
      BY <2>1, <2>3, <3>1
      DEF Worker, Step, Save, WorkerStart, WorkerDownload,
          WorkerSaveDownloaded, WorkerChoosePath, WorkerSaveUploading,
          WorkerSpawn, WorkerUploadEnds, WorkerVerify, WorkerSaveCompleted,
          WorkerReport, WorkerFails, WorkerSaveFailed, WorkerReportFailure,
          WorkerCheckStatus, WorkerRequeue
  <2>4. ASSUME NEW r \in Requests, RequestStep(r)
        PROVE  status[j] = "QUEUED"
    BY <2>1, <2>4
    DEF RequestStep, CancelWrite, CancelTerminated, ClearStopUser,
        ClearUserAccess
  <2>5. QED
    BY <2>1, <2>2, <2>3, <2>4
    DEF Next, vars, LoopPoll, ReleaseWorker, RequestBegins, CancelById,
        CancelOldest, CancelAll, Begin, ClientDrops, ClientReturns, Shutdown,
        ShutdownEnds, Crash, LoseMemory, Restart, RecoverWith
<1>3. QED
  BY <1>1, <1>2, StoredStep, JobInvariant, PTL
  DEF Spec, StoredIsQueuedOnlyByStop

\* Only the end of the process leaves a RECEIVED row without its submission.
THEOREM OnlyStopStrands == Spec => StrandedOnlyByStop
<1> DEFINE Excused == \A j \in Jobs :
             status'[j] = "RECEIVED" /\ j \notin replying' =>
               \/ status[j] = "RECEIVED" /\ j \notin replying
               \/ mode' = "down"
<1>1. TypeOK /\ [Next]_vars => Excused
  <2> SUFFICES ASSUME TypeOK, [Next]_vars
               PROVE  Excused
    OBVIOUS
  <2> USE DEF TypeOK
  <2>1. ASSUME replying' = replying,
               \A j \in Jobs : status'[j] = "RECEIVED" => status[j] = "RECEIVED"
        PROVE  Excused
    BY <2>1
  <2>2. ASSUME NEW i \in Jobs, Submit(i)
        PROVE  Excused
    BY <2>2 DEF Submit
  <2>3. ASSUME NEW i \in Jobs, SubmitEnds(i)
        PROVE  Excused
    BY <2>3 DEF SubmitEnds
  <2>4. ASSUME NEW i \in Jobs, LoopAssign(i) \/ ReleaseWorker(i)
        PROVE  Excused
    BY <2>1, <2>4 DEF LoopAssign, ReleaseWorker
  <2>5. ASSUME NEW i \in Jobs, NEW from, NEW s, NEW to, Save(i, from, s, to),
               s # "RECEIVED"
        PROVE  Excused
    BY <2>1, <2>5 DEF Save, Step
  <2>6. ASSUME NEW i \in Jobs, Worker(i)
        PROVE  Excused
    <3>1. CASE \/ WorkerSaveDownloaded(i) \/ WorkerSaveUploading(i)
               \/ WorkerSaveCompleted(i) \/ WorkerSaveFailed(i)
               \/ WorkerRequeue(i)
      BY <2>5, <3>1
      DEF WorkerSaveDownloaded, WorkerSaveUploading, WorkerSaveCompleted,
          WorkerSaveFailed, WorkerRequeue
    <3>2. CASE \/ WorkerStart(i) \/ WorkerDownload(i) \/ WorkerChoosePath(i)
               \/ WorkerSpawn(i) \/ WorkerUploadEnds(i) \/ WorkerVerify(i)
               \/ WorkerReport(i) \/ WorkerFails(i) \/ WorkerReportFailure(i)
               \/ WorkerCheckStatus(i)
      BY <2>1, <3>2
      DEF WorkerStart, WorkerDownload, WorkerChoosePath, WorkerSpawn,
          WorkerUploadEnds, WorkerVerify, WorkerReport, WorkerFails,
          WorkerReportFailure, WorkerCheckStatus, Step
    <3>3. QED
      BY <2>6, <3>1, <3>2 DEF Worker
  <2>7. ASSUME NEW r \in Requests, RequestStep(r)
        PROVE  Excused
    BY <2>1, <2>7 DEF RequestStep, CancelWrite, CancelTerminated, ClearStopUser,
                      ClearUserAccess
  <2>8. CASE Restart
    BY <2>1, <2>8 DEF Restart, RecoverWith
  <2>9. CASE ShutdownEnds \/ Crash
    BY <2>9 DEF ShutdownEnds, Crash, LoseMemory
  <2>10. QED
    BY <2>1, <2>2, <2>3, <2>4, <2>6, <2>7, <2>8, <2>9
    DEF Next, vars, LoopPoll, RequestBegins, CancelById, CancelOldest,
        CancelAll, Begin, ClientDrops, ClientReturns, Shutdown
<1>2. JobInv => TypeOK
  BY DEF JobInv
<1>3. QED
  BY <1>1, <1>2, JobInvariant, PTL DEF Spec, StrandedOnlyByStop
-----------------------------------------------------------------------------
(* Cancellation is final outside its four windows *)

\* Only cancel_all leads a handler to gather tasks and to clear rows.
LEMMA ClearingStep ==
  ASSUME TypeOK, ClearingIsForAll, [Next]_vars
  PROVE  ClearingIsForAll'
<1> USE DEF ClearingIsForAll
<1>1. CASE UNCHANGED requests
  BY <1>1
<1>2. ASSUME NEW r \in Requests, NEW q,
             requests' = [requests EXCEPT ![r] = q],
             q.pc \in {"gather", "clearRows"} => q.all
      PROVE  ClearingIsForAll'
  BY <1>2 DEF TypeOK
<1>3. /\ \A q \in Request : Done(q).pc = "done"
      /\ \A q \in Request, j \in Jobs :
           Advance(q, j).pc \in {"gather", "clearRows"} => Advance(q, j).all
  BY DEF Done, Advance, Request
<1>4. ASSUME NEW r \in Requests, RequestStep(r)
      PROVE  ClearingIsForAll'
  <2>1. ASSUME NEW j \in Jobs, CancelWrite(r, j) \/ CancelTerminated(r, j)
        PROVE  ClearingIsForAll'
    <3>1. \/ requests' = [requests EXCEPT ![r] = Advance(requests[r], j)]
          \/ requests' = [requests EXCEPT ![r] =
                            [requests[r] EXCEPT !.pc = "terminating"]]
      BY <2>1 DEF CancelWrite, CancelTerminated
    <3>2. requests[r] \in Request
      BY DEF TypeOK
    <3>3. [requests[r] EXCEPT !.pc = "terminating"].pc = "terminating"
      BY <3>2 DEF Request
    <3>4. QED
      BY <1>2, <1>3, <3>1, <3>2, <3>3
  <2>2. CASE ClearStopUser(r)
    <3>1. requests[r] \in Request /\ requests[r].all
      BY <2>2 DEF ClearStopUser, TypeOK
    <3>2. [requests[r] EXCEPT !.pc = "clearRows", !.wait = {}].all
      BY <3>1 DEF Request
    <3>3. QED
      BY <1>2, <2>2, <3>2 DEF ClearStopUser
  <2>3. CASE ClearUserAccess(r)
    <3>1. requests[r] \in Request
      BY DEF TypeOK
    <3>2. requests' = [requests EXCEPT ![r] = Done(requests[r])]
      BY <2>3 DEF ClearUserAccess
    <3> DEFINE q == Done(requests[r])
    <3>3. q.pc = "done"
      BY <1>3, <3>1
    <3>4. requests' = [requests EXCEPT ![r] = q]
      BY <3>2
    <3> HIDE DEF q
    <3>5. QED
      BY <1>2, <3>3, <3>4
  <2>4. QED
    BY <1>4, <2>1, <2>2, <2>3 DEF RequestStep
<1>5. ASSUME NEW r \in Requests, NEW u \in Users, RequestBegins(r, u)
      PROVE  ClearingIsForAll'
  <2>1. PICK all, todo, wait :
          Begin(r, u, all, todo, wait) /\ (todo = {} => all)
    BY <1>5 DEF RequestBegins, CancelById, CancelOldest, CancelAll
  <2> DEFINE q == [pc |-> IF todo = {} THEN "gather" ELSE "write",
                   user |-> u, all |-> all, todo |-> todo, wait |-> wait]
  <2>2. requests' = [requests EXCEPT ![r] = q]
    BY <2>1 DEF Begin
  <2>3. q.pc \in {"gather", "clearRows"} => q.all
    BY <2>1
  <2> HIDE DEF q
  <2>4. QED
    BY <1>2, <2>2, <2>3
<1>6. CASE LoseMemory
  <2>1. \A r \in Requests : requests[r] \in Request
    BY DEF TypeOK
  <2>2. \A r \in Requests : requests'[r] = requests[r]
                            \/ requests'[r] = Done(requests[r])
    BY <1>6 DEF LoseMemory
  <2>3. \A r \in Requests : Done(requests[r]).pc = "done"
    BY <1>3, <2>1
  <2>4. QED
    BY <2>2, <2>3
<1>7. QED
  BY <1>1, <1>4, <1>5, <1>6
  DEF Next, vars, LoopPoll, Submit, SubmitEnds, LoopAssign, ReleaseWorker,
      ClientDrops, ClientReturns, Shutdown, ShutdownEnds, Crash, Restart,
      RecoverWith, Worker, Step, Save, WorkerStart, WorkerDownload,
      WorkerSaveDownloaded, WorkerChoosePath, WorkerSaveUploading, WorkerSpawn,
      WorkerUploadEnds, WorkerVerify, WorkerSaveCompleted, WorkerReport,
      WorkerFails, WorkerSaveFailed, WorkerReportFailure, WorkerCheckStatus,
      WorkerRequeue

\* Once clear_user_access has run for a user it has run.
LEMMA ClearedStays ==
  ASSUME TypeOK, [Next]_vars, NEW u, Cleared(u)
  PROVE  Cleared(u)'
<1>1. PICK r \in Requests :
        requests[r].pc = "done" /\ requests[r].all /\ requests[r].user = u
  BY DEF Cleared
<1>2. requests'[r] = requests[r] \/ requests'[r] = Done(requests[r])
  <2>1. CASE UNCHANGED requests
    BY <2>1
  <2>2. ASSUME NEW q \in Requests, RequestStep(q)
        PROVE  requests'[r] = requests[r]
    BY <1>1, <2>2 DEF RequestStep, CancelWrite, CancelTerminated,
                      ClearStopUser, ClearUserAccess, TypeOK
  <2>3. ASSUME NEW q \in Requests, NEW v \in Users, RequestBegins(q, v)
        PROVE  requests'[r] = requests[r]
    BY <1>1, <2>3 DEF RequestBegins, CancelById, CancelOldest, CancelAll,
                      Begin, TypeOK
  <2>4. CASE LoseMemory
    BY <1>1, <2>4 DEF LoseMemory
  <2>5. QED
    BY <2>1, <2>2, <2>3, <2>4
    DEF Next, vars, LoopPoll, Submit, SubmitEnds, LoopAssign, ReleaseWorker,
        ClientDrops, ClientReturns, Shutdown, ShutdownEnds, Crash, Restart,
        RecoverWith, Worker, Step, Save, WorkerStart, WorkerDownload,
        WorkerSaveDownloaded, WorkerChoosePath, WorkerSaveUploading,
        WorkerSpawn, WorkerUploadEnds, WorkerVerify, WorkerSaveCompleted,
        WorkerReport, WorkerFails, WorkerSaveFailed, WorkerReportFailure,
        WorkerCheckStatus, WorkerRequeue
<1>3. requests[r] \in Request
  BY DEF TypeOK
<1>4. /\ requests'[r].pc = "done" /\ requests'[r].all
      /\ requests'[r].user = u
  BY <1>1, <1>2, <1>3 DEF Done, Request
<1>5. QED
  BY <1>4 DEF Cleared

\* A step of another job, or of none, keeps what is known of job j.
LEMMA RowKept ==
  ASSUME TypeOK, CancelledRowStopsTask, [Next]_vars, NEW j \in Jobs,
         status'[j] = status[j], worker'[j] = worker[j],
         Terminating(j) => Terminating(j)'
  PROVE  status'[j] = "CANCELLED" =>
           \/ worker'[j] \in {"none", "ended", "checkStatus"}
           \/ worker'[j] \in {"upload", "verify", "failing"} /\ Terminating(j)'
           \/ worker'[j] \in Running /\ Cleared(Owner[j])'
BY ClearedStays DEF CancelledRowStopsTask

\* A handler that has not begun to terminate rclone for j leaves the others to it.
LEMMA OthersTerminate ==
  ASSUME TypeOK, NEW r \in Requests, NEW q, NEW j \in Jobs,
         requests' = [requests EXCEPT ![r] = q], Terminating(j),
         requests[r].pc = "terminating" => ~First(j, requests[r].todo)
  PROVE  Terminating(j)'
<1>1. PICK p \in Requests :
        requests[p].pc = "terminating" /\ First(j, requests[p].todo)
  BY DEF Terminating
<1>2. requests'[p] = requests[p]
  BY <1>1 DEF TypeOK
<1>3. QED
  BY <1>1, <1>2 DEF Terminating

\* No step leaves a task with a CANCELLED row that would go on for good.
LEMMA RowStep ==
  ASSUME JobInv, ClearingIsForAll, CancelledRowStopsTask, [Next]_vars
  PROVE  CancelledRowStopsTask'
<1> DEFINE Stops(j) ==
      \/ worker[j] \in {"none", "ended", "checkStatus"}
      \/ worker[j] \in {"upload", "verify", "failing"} /\ Terminating(j)
      \/ worker[j] \in Running /\ Cleared(Owner[j])
<1> SUFFICES ASSUME NEW j \in Jobs, status'[j] = "CANCELLED"
             PROVE  Stops(j)'
  BY DEF CancelledRowStopsTask
<1> USE ConstantsAssumption
<1>0. TypeOK /\ worker[j] \in WorkerState
  BY DEF JobInv, TypeOK
<1>1. ASSUME status'[j] = status[j], worker'[j] = worker[j],
             Terminating(j) => Terminating(j)'
      PROVE  Stops(j)'
  BY <1>0, <1>1, RowKept
<1>2. ASSUME status'[j] = status[j], worker'[j] = worker[j],
             requests' = requests
      PROVE  Stops(j)'
  BY <1>1, <1>2 DEF Terminating
<1>3. ASSUME NEW i \in Jobs, Submit(i) \/ SubmitEnds(i) \/ LoopAssign(i)
      PROVE  Stops(j)'
  <2>1. i # j
    BY <1>0, <1>3 DEF Submit, SubmitEnds, LoopAssign, TypeOK
  <2>2. QED
    BY <1>0, <1>2, <1>3, <2>1 DEF Submit, SubmitEnds, LoopAssign, TypeOK
<1>4. ASSUME NEW i \in Jobs, ReleaseWorker(i)
      PROVE  Stops(j)'
  BY <1>0, <1>2, <1>4 DEF ReleaseWorker, TypeOK
<1>5. ASSUME NEW i \in Jobs, Worker(i)
      PROVE  Stops(j)'
  <2>1. requests' = requests /\ mode' = mode
    BY <1>5
    DEF Worker, Step, Save, WorkerStart, WorkerDownload, WorkerSaveDownloaded,
        WorkerChoosePath, WorkerSaveUploading, WorkerSpawn, WorkerUploadEnds,
        WorkerVerify, WorkerSaveCompleted, WorkerReport, WorkerFails,
        WorkerSaveFailed, WorkerReportFailure, WorkerCheckStatus, WorkerRequeue
  <2>2. CASE i # j
    <3>1. status'[j] = status[j] /\ worker'[j] = worker[j]
      BY <1>0, <1>5, <2>2
      DEF Worker, Step, Save, WorkerStart, WorkerDownload,
          WorkerSaveDownloaded, WorkerChoosePath, WorkerSaveUploading,
          WorkerSpawn, WorkerUploadEnds, WorkerVerify, WorkerSaveCompleted,
          WorkerReport, WorkerFails, WorkerSaveFailed, WorkerReportFailure,
          WorkerCheckStatus, WorkerRequeue, TypeOK
    <3>2. QED
      BY <1>2, <2>1, <3>1
  <2>3. CASE i = j
    <3>1. Terminating(j)' <=> Terminating(j)
      BY <2>1 DEF Terminating
    <3>2. Cleared(Owner[j]) => Cleared(Owner[j])'
      BY <1>0, ClearedStays
    <3>3. /\ status[j] = "CANCELLED" /\ worker'[j] \in WorkerState \ {"none"}
          /\ worker[j] = "checkStatus" => worker'[j] = "ended"
          /\ worker[j] = "upload" => worker'[j] \in {"verify", "failing"}
          /\ worker[j] = "verify" => ~Terminating(j)
          /\ worker[j] \notin {"none", "ended", "failing"}
      BY <1>0, <1>5, <2>3
      DEF Worker, Step, Save, WorkerStart, WorkerDownload,
          WorkerSaveDownloaded, WorkerChoosePath, WorkerSaveUploading,
          WorkerSpawn, WorkerUploadEnds, WorkerVerify, WorkerSaveCompleted,
          WorkerReport, WorkerFails, WorkerSaveFailed, WorkerReportFailure,
          WorkerCheckStatus, WorkerRequeue, TypeOK, WorkerState, Running,
          InTry, InExcept
    <3>4. QED
      BY <3>1, <3>2, <3>3 DEF CancelledRowStopsTask, WorkerState
  <2>4. QED
    BY <2>2, <2>3
<1>6. ASSUME NEW r \in Requests, RequestStep(r)
      PROVE  Stops(j)'
  <2>1. requests[r].todo \subseteq Nat /\ requests[r] \in Request
    BY <1>0 DEF TypeOK, Request
  <2>2. ASSUME NEW i \in Jobs, i # j, First(i, requests[r].todo),
               NEW q, requests' = [requests EXCEPT ![r] = q],
               status'[j] = status[j], worker'[j] = worker[j]
        PROVE  Stops(j)'
    <3>1. ~First(j, requests[r].todo)
      BY <2>1, <2>2 DEF First
    <3>2. QED
      BY <1>0, <1>1, <2>2, <3>1, OthersTerminate
  <2>3. ASSUME NEW i \in Jobs, CancelWrite(r, i)
        PROVE  Stops(j)'
    <3>1. CASE i # j
      <4>1. PICK q : requests' = [requests EXCEPT ![r] = q]
        BY <2>3 DEF CancelWrite
      <4>2. /\ First(i, requests[r].todo)
            /\ status'[j] = status[j] /\ worker'[j] = worker[j]
        BY <1>0, <2>3, <3>1 DEF CancelWrite, TypeOK
      <4>3. QED
        BY <2>2, <3>1, <4>1, <4>2
    <3>2. CASE i = j /\ worker[j] = "upload"
      <4>1. /\ requests'[r].pc = "terminating"
            /\ First(j, requests'[r].todo) /\ worker'[j] = "upload"
        BY <1>0, <2>1, <2>3, <3>2 DEF CancelWrite, TypeOK, Request
      <4>2. QED
        BY <4>1 DEF Terminating
    <3>3. CASE i = j /\ worker[j] # "upload"
      BY <1>0, <2>3, <3>3, CancelledFacts DEF CancelWrite, TypeOK
    <3>4. QED
      BY <3>1, <3>2, <3>3
  <2>4. ASSUME NEW i \in Jobs, CancelTerminated(r, i)
        PROVE  Stops(j)'
    <3>1. CASE i # j
      <4>1. PICK q : requests' = [requests EXCEPT ![r] = q]
        BY <2>4 DEF CancelTerminated
      <4>2. /\ First(i, requests[r].todo)
            /\ status'[j] = status[j] /\ worker'[j] = worker[j]
        BY <1>0, <2>4, <3>1 DEF CancelTerminated, TypeOK
      <4>3. QED
        BY <2>2, <3>1, <4>1, <4>2
    <3>2. CASE i = j
      BY <1>0, <2>4, <3>2, CancelledFacts DEF CancelTerminated, TypeOK
    <3>3. QED
      BY <3>1, <3>2
  <2>5. ASSUME NEW q, requests' = [requests EXCEPT ![r] = q],
               requests[r].pc # "terminating",
               status'[j] = status[j], worker' = worker
        PROVE  Stops(j)'
    BY <1>0, <1>1, <2>5, OthersTerminate
  <2>6. CASE ClearStopUser(r)
    BY <2>5, <2>6 DEF ClearStopUser
  <2>7. CASE ClearUserAccess(r)
    <3>1. CASE Owner[j] # requests[r].user
      <4>1. PICK q : requests' = [requests EXCEPT ![r] = q]
        BY <2>7 DEF ClearUserAccess
      <4>2. /\ status'[j] = status[j] /\ worker' = worker
            /\ requests[r].pc # "terminating"
        BY <2>7, <3>1 DEF ClearUserAccess
      <4>3. QED
        BY <2>5, <4>1, <4>2
    <3>2. CASE Owner[j] = requests[r].user
      <4>1. requests'[r] = Done(requests[r]) /\ worker' = worker
        BY <1>0, <2>7 DEF ClearUserAccess, TypeOK
      <4>2. requests[r].all
        BY <2>7 DEF ClearUserAccess, ClearingIsForAll
      <4>3. Cleared(Owner[j])'
        BY <2>1, <3>2, <4>1, <4>2 DEF Cleared, Done, Request
      <4>4. QED
        BY <1>0, <4>1, <4>3 DEF WorkerState
    <3>3. QED
      BY <3>1, <3>2
  <2>8. QED
    BY <1>6, <2>3, <2>4, <2>6, <2>7 DEF RequestStep
<1>7. ASSUME NEW r \in Requests, NEW u \in Users, RequestBegins(r, u)
      PROVE  Stops(j)'
  <2>1. PICK all, todo, wait : Begin(r, u, all, todo, wait)
    BY <1>7 DEF RequestBegins, CancelById, CancelOldest, CancelAll
  <2>2. PICK q : requests' = [requests EXCEPT ![r] = q]
    BY <2>1 DEF Begin
  <2>3. /\ requests[r].pc # "terminating"
        /\ status'[j] = status[j] /\ worker'[j] = worker[j]
    BY <2>1 DEF Begin
  <2>4. QED
    BY <1>0, <1>1, <2>2, <2>3, OthersTerminate
<1>8. CASE Shutdown
  BY <1>0, <1>8, CancelledFacts DEF Shutdown
<1>9. CASE ShutdownEnds \/ Crash \/ Restart
  BY <1>9 DEF ShutdownEnds, Crash, LoseMemory, Restart, RecoverWith, JobInv,
              StoppedIsEmpty
<1>10. QED
  BY <1>2, <1>3, <1>4, <1>5, <1>6, <1>7, <1>8, <1>9
  DEF Next, vars, LoopPoll, ClientDrops, ClientReturns

\* There is nothing to cancel and nobody cancels at the start.
LEMMA CancelInit == Init => ClearingIsForAll /\ CancelledRowStopsTask
  BY ConstantsAssumption
  DEF Init, ClearingIsForAll, CancelledRowStopsTask, NoRequest

\* Outside four windows a cancelled row stays cancelled, whatever a worker, a
\* second handler, a failure or a restart does.
THEOREM CancellationIsFinal == Spec => CancelLostOnlyInFlight
<1> DEFINE Lost == \A j \in Jobs :
      status[j] = "CANCELLED" /\ status'[j] # "CANCELLED" =>
        \/ j \in batch /\ status'[j] = "DOWNLOADING"
        \/ j \in replying /\ status'[j] \in {"QUEUED", "FAILED"}
        \/ Terminating(j) /\ status'[j] = "FAILED"
        \/ worker[j] \in Running /\ Cleared(Owner[j])
<1>1. JobInv /\ CancelledRowStopsTask /\ [Next]_vars => Lost
  <2> SUFFICES ASSUME JobInv, CancelledRowStopsTask, [Next]_vars,
                      NEW j \in Jobs, status[j] = "CANCELLED",
                      status'[j] # "CANCELLED"
               PROVE  \/ j \in batch /\ status'[j] = "DOWNLOADING"
                      \/ j \in replying /\ status'[j] \in {"QUEUED", "FAILED"}
                      \/ Terminating(j) /\ status'[j] = "FAILED"
                      \/ worker[j] \in Running /\ Cleared(Owner[j])
    OBVIOUS
  <2>0. TypeOK
    BY DEF JobInv
  <2>1. ASSUME NEW i \in Jobs, Submit(i)
        PROVE  FALSE
    BY <2>0, <2>1 DEF Submit, TypeOK
  <2>2. ASSUME NEW i \in Jobs, SubmitEnds(i)
        PROVE  j \in replying /\ status'[j] \in {"QUEUED", "FAILED"}
    BY <2>0, <2>2 DEF SubmitEnds, TypeOK
  <2>3. ASSUME NEW i \in Jobs, LoopAssign(i)
        PROVE  j \in batch /\ status'[j] = "DOWNLOADING"
    BY <2>0, <2>3 DEF LoopAssign, First, TypeOK
  <2>4. ASSUME NEW i \in Jobs, Worker(i)
        PROVE  \/ Terminating(j) /\ status'[j] = "FAILED"
               \/ worker[j] \in Running /\ Cleared(Owner[j])
    <3>1. /\ worker[j] \notin {"none", "ended", "upload", "verify",
                              "checkStatus"}
          /\ worker[j] = "failing" => status'[j] = "FAILED"
      BY <2>0, <2>4
      DEF Worker, Step, Save, WorkerStart, WorkerDownload,
          WorkerSaveDownloaded, WorkerChoosePath, WorkerSaveUploading,
          WorkerSpawn, WorkerUploadEnds, WorkerVerify, WorkerSaveCompleted,
          WorkerReport, WorkerFails, WorkerSaveFailed, WorkerReportFailure,
          WorkerCheckStatus, WorkerRequeue, TypeOK
    <3>2. QED
      BY <3>1 DEF CancelledRowStopsTask
  <2>5. ASSUME NEW r \in Requests, RequestStep(r)
        PROVE  FALSE
    <3>1. ASSUME NEW i \in Jobs, CancelWrite(r, i)
          PROVE  FALSE
      BY <2>0, <3>1 DEF CancelWrite, TypeOK
    <3>2. CASE ClearUserAccess(r)
      BY <2>0, <3>2 DEF ClearUserAccess, TypeOK
    <3>3. QED
      BY <2>5, <3>1, <3>2 DEF RequestStep, CancelTerminated, ClearStopUser
  <2>6. CASE Restart
    BY <2>0, <2>6 DEF Restart, RecoverWith, Active, TypeOK
  <2>7. QED
    BY <2>1, <2>2, <2>3, <2>4, <2>5, <2>6
    DEF Next, vars, LoopPoll, ReleaseWorker, RequestBegins, CancelById,
        CancelOldest, CancelAll, Begin, ClientDrops, ClientReturns, Shutdown,
        ShutdownEnds, Crash, LoseMemory
<1>2. JobInv /\ ClearingIsForAll /\ CancelledRowStopsTask /\ [Next]_vars
        => (ClearingIsForAll /\ CancelledRowStopsTask)'
  BY ClearingStep, RowStep DEF JobInv
<1>3. QED
  BY <1>1, <1>2, CancelInit, JobInvariant, PTL DEF Spec, CancelLostOnlyInFlight

-----------------------------------------------------------------------------
(* Refinement *)

\* The dispatcher implements the safety part of its abstract specification:
\* every step grants a ticket to a job of a user who has none, takes one
\* ticket back, stops everything, or leaves the pool as it is.
THEOREM PoolRefinement == Spec => Pool!Safety
<1>1. Init => Pool!Init
  BY DEF Init, Pool!Init, Registered
<1>2. JobInv /\ [Next]_vars => [Pool!Next]_(Registered(worker))
  <2> SUFFICES ASSUME JobInv, [Next]_vars
               PROVE  Pool!Next \/ Registered(worker') = Registered(worker)
    BY DEF Registered
  <2>0. TypeOK
    BY DEF JobInv
  <2>1. ASSUME \A j \in Jobs : worker'[j] = "none" <=> worker[j] = "none"
        PROVE  Registered(worker') = Registered(worker)
    BY <2>1 DEF Registered
  <2>2. ASSUME NEW j \in Jobs, LoopAssign(j)
        PROVE  Pool!Grant(j)
    <3>1. Cardinality(Registered(worker)) < MaxWorkers
      BY <2>2 DEF LoopAssign, First, JobInv, FirstIsAssignable
    <3>2. \A i \in Registered(worker) : Owner[i] # Owner[j]
      BY <2>2, ConstantsAssumption
      DEF LoopAssign, First, JobInv, BatchIsFresh, OneWorkerPerUser, Registered
    <3>3. Registered(worker') = Registered(worker) \cup {j}
      BY <2>0, <2>2 DEF LoopAssign, Registered, TypeOK
    <3>4. Pool!Cardinality(Registered(worker)) = Cardinality(Registered(worker))
      BY DEF Pool!Cardinality, Cardinality
    <3>5. QED
      BY <3>1, <3>2, <3>3, <3>4 DEF Pool!Grant
  <2>3. ASSUME NEW j \in Jobs, ReleaseWorker(j)
        PROVE  Pool!Return(j)
    <3>1. j \in Registered(worker)
      BY <2>3 DEF ReleaseWorker, Registered
    <3>2. Registered(worker') = Registered(worker) \ {j}
      BY <2>0, <2>3 DEF ReleaseWorker, Registered, TypeOK
    <3>3. QED
      BY <3>1, <3>2 DEF Pool!Return, Registered
  <2>4. ASSUME NEW j \in Jobs, Worker(j)
        PROVE  Registered(worker') = Registered(worker)
    BY <2>0, <2>4
    DEF Worker, Step, Save, WorkerStart, WorkerDownload, WorkerSaveDownloaded,
        WorkerChoosePath, WorkerSaveUploading, WorkerSpawn, WorkerUploadEnds,
        WorkerVerify, WorkerSaveCompleted, WorkerReport, WorkerFails,
        WorkerSaveFailed, WorkerReportFailure, WorkerCheckStatus,
        WorkerRequeue, Registered, TypeOK
  <2>5. ASSUME NEW r \in Requests, RequestStep(r)
        PROVE  Registered(worker') = Registered(worker)
    <3>1. ASSUME NEW j \in Jobs, CancelWrite(r, j) \/ CancelTerminated(r, j)
          PROVE  Registered(worker') = Registered(worker)
      <4>1. worker' = worker \/ worker' = [worker EXCEPT ![j] = Cancelled(@)]
        BY <3>1 DEF CancelWrite, CancelTerminated
      <4>2. QED
        BY <2>0, <2>1, <4>1, CancelledFacts DEF TypeOK
    <3>2. QED
      BY <2>5, <3>1 DEF RequestStep, ClearStopUser, ClearUserAccess
  <2>6. CASE Shutdown
    BY <2>0, <2>1, <2>6, CancelledFacts DEF Shutdown, TypeOK
  <2>7. CASE ShutdownEnds \/ Crash
    BY <2>7 DEF ShutdownEnds, Crash, LoseMemory, Registered, Pool!Next,
                Pool!StopAll
  <2>8. QED
    BY <2>2, <2>3, <2>4, <2>5, <2>6, <2>7
    DEF Next, vars, LoopPoll, Submit, SubmitEnds, RequestBegins, CancelById,
        CancelOldest, CancelAll, Begin, ClientDrops, ClientReturns, Restart,
        RecoverWith, Pool!Next
<1>3. QED
  BY <1>1, <1>2, JobInvariant, PTL DEF Spec, Pool!Safety

=============================================================================
