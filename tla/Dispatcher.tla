----------------------------- MODULE Dispatcher -----------------------------
(***************************************************************************)
(* The upload queue: src/app/dispatcher.py over the upload_jobs table of   *)
(* src/app/database.py, driven by _submit_file and the /cancel, /clear and *)
(* /block handlers of src/app/bot_service.py, and by the start and stop    *)
(* sequence of src/app/main.py.                                            *)
(*                                                                         *)
(* The process is one asyncio event loop, so code between two awaits is    *)
(* atomic: an action is one database statement (or one external event)     *)
(* with the code that runs up to the next await.  Database.execute takes   *)
(* one lock around each statement and its commit, so a statement that a    *)
(* task still waits for when it is cancelled is not applied, and one that  *)
(* was applied is a step before the cancellation.  task.cancel() raises    *)
(* CancelledError at the await where the task stands: its effect on the    *)
(* task is part of the canceller's step.                                   *)
(*                                                                         *)
(* Job ids grow with created_at (both are fixed, in this order, between    *)
(* the same two awaits), so "ORDER BY created_at, id" is the order of ids. *)
(***************************************************************************)
EXTENDS Integers, FiniteSets

CONSTANTS
  Users,              \* Telegram accounts
  Jobs,               \* ids of upload_jobs rows
  NoJob,              \* "no entry" in _active_users
  Owner,              \* owner_user_id of each job
  MaxWorkers,         \* settings.max_concurrent_user_workers
  MaxConnectedUsers,  \* settings.max_connected_users, the LIMIT of the query
  CollisionPolicy,    \* settings.remote_collision_policy
  Requests,           \* bound: invocations of /cancel, /clear and /block
  MaxMisses,          \* bound: users for whom a lookup fails
  MaxStops,           \* bound: crashes and shutdowns
  MaxDrops            \* bound: lost Telegram connections

ASSUME ConstantsAssumption ==
  /\ Users # {}
  /\ Jobs \subseteq Nat /\ IsFiniteSet(Jobs)
  /\ NoJob \notin Jobs
  /\ Owner \in [Jobs -> Users]
  /\ MaxWorkers \in Nat \ {0}
  /\ MaxConnectedUsers \in Nat \ {0}
  /\ CollisionPolicy \in {"rename", "overwrite", "skip"}
  /\ MaxMisses \in Nat /\ MaxStops \in Nat /\ MaxDrops \in Nat

VARIABLES
  status,       \* upload_jobs.status, "NONE" while there is no row
  replying,     \* jobs whose submission still awaits the private reply
  connected,    \* the owner's client exists and is_connected()
  batch,        \* candidates _loop has left; the first one is being assigned
  worker,       \* where the task of _jobs stands, "none" if there is none
  activeUsers,  \* _active_users
  remote,       \* what lies at a job's remote_path: nothing, its own file, or
                \* another object, of any size and perhaps of another job
  missed,       \* history: users for one of whose jobs the lookup of a path
                \* failed where an object lay
  requests,     \* the /cancel, /clear and /block handlers
  mode,         \* "up", "stopping" (shutdown has begun), "down"
  stops, drops  \* counters of the bounds

cloud == <<remote, missed>>
vars == <<status, replying, connected, batch, worker, activeUsers, cloud,
          requests, mode, stops, drops>>

-----------------------------------------------------------------------------
Active == {"DOWNLOADING", "DOWNLOADED", "UPLOADING"}
Finished == {"COMPLETED", "FAILED", "CANCELLED"}
JobStatus == {"NONE", "RECEIVED", "QUEUED"} \cup Active \cup Finished

RemoteState == {"free", "own", "foreign"}

\* Where _process can stand: not yet run, inside its try block, inside one of
\* its except blocks, or over with its done callback still to come.  In
\* "removeFailed" the local file of a job that is COMPLETED could not go.
InTry == {"download", "saveDownloaded", "choosePath", "saveUploading",
          "spawn", "upload", "verify", "saveCompleted", "report"}
InExcept == {"failing", "removeFailed", "reportFailure", "checkStatus",
             "requeue"}
Running == {"created"} \cup InTry \cup InExcept
WorkerState == {"none", "ended"} \cup Running

RequestState == {"idle", "write", "terminating", "gather", "clearRows", "done"}
Request == [pc : RequestState, user : Users, all : BOOLEAN,
            todo : SUBSET Jobs, wait : SUBSET Jobs]

Registered(wk) == {j \in Jobs : wk[j] # "none"}     \* keys of _jobs
JobsOf(u) == {j \in Jobs : Owner[j] = u}
Stored == {j \in Jobs : remote[j] = "own"}
First(j, S) == j \in S /\ \A i \in S : j <= i
NoRequest == [pc |-> "idle", user |-> CHOOSE u \in Users : TRUE,
              all |-> FALSE, todo |-> {}, wait |-> {}]
Done(q) == [q EXCEPT !.pc = "done", !.todo = {}, !.wait = {}]

\* A handler stands in RcloneService.cancel for job j.
Terminating(j) ==
  \E r \in Requests :
    requests[r].pc = "terminating" /\ First(j, requests[r].todo)

\* A handler has run clear_user_access for user u.
Cleared(u) ==
  \E r \in Requests :
    requests[r].pc = "done" /\ requests[r].all /\ requests[r].user = u

\* task.cancel(): a task that has not run yet never enters its try block, one
\* in the try block goes to "except CancelledError", one already in an except
\* block leaves _process.
Cancelled(pc) ==
  IF pc \in InTry THEN "checkStatus"
  ELSE IF pc \in InExcept \cup {"created"} THEN "ended"
  ELSE pc

-----------------------------------------------------------------------------
Init ==
  /\ status = [j \in Jobs |-> "NONE"]
  /\ replying = {}
  /\ connected \in [Users -> BOOLEAN]
  /\ batch = {}
  /\ worker = [j \in Jobs |-> "none"]
  /\ activeUsers = [u \in Users |-> NoJob]
  /\ remote = [j \in Jobs |-> "free"] /\ missed = {}
  /\ requests = [r \in Requests |-> NoRequest]
  /\ mode = "up" /\ stops = 0 /\ drops = 0

-----------------------------------------------------------------------------
(* _submit_file: the row is created as RECEIVED, the bot replies, and then *)
(* the row becomes QUEUED, or FAILED when the reply could not be sent.     *)
(* accepting, the account's connections and its storage are looked at      *)
(* several awaits before create_job, so they do not guard it.              *)

Submit(j) ==
  /\ mode # "down"
  /\ status[j] = "NONE"
  /\ \A i \in Jobs : i < j => status[i] # "NONE"
  /\ status' = [status EXCEPT ![j] = "RECEIVED"]
  /\ replying' = replying \cup {j}
  /\ UNCHANGED <<connected, batch, worker, activeUsers, cloud, requests,
                 mode, stops, drops>>

\* Mutation of SubmitEnds: a reply that could not be sent is not recorded.
SubmitForgotten(j) ==
  /\ j \in replying
  /\ replying' = replying \ {j}
  /\ \E s \in {"QUEUED", "RECEIVED"} : status' = [status EXCEPT ![j] = s]
  /\ UNCHANGED <<connected, batch, worker, activeUsers, cloud, requests,
                 mode, stops, drops>>

SubmitEnds(j) ==
  /\ j \in replying
  /\ replying' = replying \ {j}
  /\ \E s \in {"QUEUED", "FAILED"} : status' = [status EXCEPT ![j] = s]
  /\ UNCHANGED <<connected, batch, worker, activeUsers, cloud, requests,
                 mode, stops, drops>>

-----------------------------------------------------------------------------
(* _loop *)

\* next_queued_user_jobs: the oldest queued row of each owner that has no
\* worker, in order, the first MaxConnectedUsers of them.
Heads ==
  {j \in Jobs : /\ status[j] = "QUEUED"
                /\ activeUsers[Owner[j]] = NoJob
                /\ \A i \in JobsOf(Owner[j]) : status[i] = "QUEUED" => j <= i}

NextQueuedUserJobs ==
  {j \in Heads : Cardinality({i \in Heads : i < j}) < MaxConnectedUsers}

\* Mutation of Scan: the worker count is not looked at again.
ScanUncounted(S, wk, au) ==
  {j \in S : \E i \in S : i <= j /\ wk[i] = "none" /\ au[Owner[i]] = NoJob
                                 /\ connected[Owner[i]]}

\* The body of the for loop up to its await: leave it when no worker is free,
\* skip the candidates that cannot be assigned now.
Scan(S, wk, au) ==
  LET eligible == {j \in S : /\ wk[j] = "none"
                             /\ au[Owner[j]] = NoJob
                             /\ connected[Owner[j]]}
  IN IF Cardinality(Registered(wk)) >= MaxWorkers
     THEN {}
     ELSE {j \in S : \E i \in eligible : i <= j}

LoopPoll ==
  /\ mode = "up" /\ batch = {}
  /\ MaxWorkers - Cardinality(Registered(worker)) > 0
  /\ batch' = Scan(NextQueuedUserJobs, worker, activeUsers)
  /\ UNCHANGED <<status, replying, connected, worker, activeUsers, cloud,
                 requests, mode, stops, drops>>

\* update_job(DOWNLOADING) does not look at the row it overwrites.
LoopAssign(j) ==
  /\ First(j, batch)
  /\ status' = [status EXCEPT ![j] = "DOWNLOADING"]
  /\ worker' = [worker EXCEPT ![j] = "created"]
  /\ activeUsers' = [activeUsers EXCEPT ![Owner[j]] = j]
  /\ batch' = Scan(batch \ {j}, worker', activeUsers')
  /\ UNCHANGED <<replying, connected, cloud, requests, mode, stops, drops>>

\* Mutation of ReleaseWorker: the entry of _active_users is forgotten.
ReleaseForgetsUser(j) ==
  /\ worker[j] = "ended"
  /\ worker' = [worker EXCEPT ![j] = "none"]
  /\ UNCHANGED <<status, replying, connected, batch, activeUsers, cloud,
                 requests, mode, stops, drops>>

\* The done callback of a task.
ReleaseWorker(j) ==
  /\ worker[j] = "ended"
  /\ worker' = [worker EXCEPT ![j] = "none"]
  /\ activeUsers' = [activeUsers EXCEPT
                       ![Owner[j]] = IF @ = j THEN NoJob ELSE @]
  /\ UNCHANGED <<status, replying, connected, batch, cloud, requests, mode,
                 stops, drops>>

-----------------------------------------------------------------------------
(* _process *)

Step(j, from, to) ==
  /\ worker[j] = from
  /\ worker' = [worker EXCEPT ![j] = to]
  /\ UNCHANGED <<replying, connected, batch, activeUsers, requests, mode,
                 stops, drops>>

Save(j, from, s, to) ==
  /\ Step(j, from, to)
  /\ status' = [status EXCEPT ![j] = s]
  /\ UNCHANGED cloud

WorkerStart(j) ==
  /\ Step(j, "created",
          IF connected[Owner[j]] THEN "download" ELSE "failing")
  /\ UNCHANGED <<status, cloud>>

\* Message resolution and the download, whose size is checked at the end.
WorkerDownload(j) ==
  /\ Step(j, "download", "saveDownloaded")
  /\ UNCHANGED <<status, cloud>>

WorkerSaveDownloaded(j) == Save(j, "saveDownloaded", "DOWNLOADED", "choosePath")

\* resolve_collision: a path where nothing lies; or one where an object lies,
\* this job's own perhaps, because the policy is to overwrite it or because the
\* lookup failed, which remote_exists takes for absence.  The policy "skip"
\* raises where an object is found: WorkerFails.
WorkerChoosePath(j) ==
  /\ Step(j, "choosePath", "saveUploading")
  /\ \/ remote' = [remote EXCEPT ![j] = "free"] /\ UNCHANGED missed
     \/ /\ remote' \in {remote, [remote EXCEPT ![j] = "foreign"]}
        /\ remote'[j] # "free"
        /\ missed' = IF CollisionPolicy = "overwrite" THEN missed
                     ELSE missed \cup {Owner[j]}
        /\ Cardinality(missed') <= MaxMisses
  /\ UNCHANGED status

WorkerSaveUploading(j) == Save(j, "saveUploading", "UPLOADING", "spawn")

WorkerSpawn(j) ==
  /\ Step(j, "spawn", "upload")
  /\ UNCHANGED <<status, cloud>>

\* What the rclone processes of the jobs S may leave: some have stored their
\* file, in place of what lay at its path, which may have been the object of
\* another job of the user.
Replaceable(landed) ==
  {j \in Stored \ landed :
     \E i \in landed : Owner[i] = Owner[j] /\ remote[i] = "foreign"}

Uploads(S) ==
  UNION {{[j \in Jobs |-> IF j \in landed THEN "own"
                          ELSE IF j \in replaced THEN "foreign" ELSE remote[j]]
            : replaced \in SUBSET Replaceable(landed)} : landed \in SUBSET S}

\* rclone exits by itself or because a handler terminates it; either way the
\* object may have been stored, and verify_upload decides.
WorkerUploadEnds(j) ==
  /\ Step(j, "upload", "verify")
  /\ remote' \in Uploads({j})
  /\ UNCHANGED <<status, missed>>

\* Mutation of WorkerVerify: the exit code of rclone is trusted.
VerifyTrustsExit(j) ==
  /\ ~Terminating(j)
  /\ Step(j, "verify", "saveCompleted")
  /\ UNCHANGED <<status, cloud>>

\* verify_upload compares sizes, whatever the exit code was: the file of the
\* job passes, and so does another object of the same size.  It is another
\* process: a handler that waits for the exit of the upload's process goes on
\* long before this one answers.
WorkerVerify(j) ==
  /\ ~Terminating(j)
  /\ \/ remote[j] # "free" /\ Step(j, "verify", "saveCompleted")
     \/ Step(j, "verify", "failing")
  /\ UNCHANGED <<status, cloud>>

WorkerSaveCompleted(j) == Save(j, "saveCompleted", "COMPLETED", "report")

\* The last _edit, which raises nothing, and then the local file is unlinked.
\* An error of that is an error of the try block as any other.
WorkerReport(j) ==
  /\ \/ Step(j, "report", "ended")
     \/ Step(j, "report", "removeFailed")
  /\ UNCHANGED <<status, cloud>>

\* Any exception of the download, the choice of a name, or the upload (its
\* timeout included), which may have stored the file nevertheless.
WorkerFails(j) ==
  \/ /\ \E pc \in {"download", "choosePath", "spawn"} : Step(j, pc, "failing")
     /\ UNCHANGED <<status, cloud>>
  \/ /\ Step(j, "upload", "failing")
     /\ remote' \in Uploads({j})
     /\ UNCHANGED <<status, missed>>

WorkerSaveFailed(j) ==
  \E pc \in {"failing", "removeFailed"} :
    Save(j, pc, "FAILED", "reportFailure")

WorkerReportFailure(j) ==
  /\ Step(j, "reportFailure", "ended")
  /\ UNCHANGED <<status, cloud>>

\* Mutation of WorkerCheckStatus: every cancelled task requeues its job.
RequeueAlways(j) ==
  /\ Step(j, "checkStatus", "requeue")
  /\ UNCHANGED <<status, cloud>>

\* except CancelledError: get_job, then QUEUED unless the row is CANCELLED.
WorkerCheckStatus(j) ==
  /\ Step(j, "checkStatus",
          IF status[j] = "CANCELLED" THEN "ended" ELSE "requeue")
  /\ UNCHANGED <<status, cloud>>

\* Mutation of WorkerRequeue: a status outside the enumeration is written.
RequeueAsRetry(j) == Save(j, "requeue", "RETRY", "ended")

WorkerRequeue(j) == Save(j, "requeue", "QUEUED", "ended")

Worker(j) ==
  \/ WorkerStart(j) \/ WorkerDownload(j) \/ WorkerSaveDownloaded(j)
  \/ WorkerChoosePath(j) \/ WorkerSaveUploading(j) \/ WorkerSpawn(j)
  \/ WorkerUploadEnds(j) \/ WorkerVerify(j) \/ WorkerSaveCompleted(j)
  \/ WorkerReport(j) \/ WorkerFails(j) \/ WorkerSaveFailed(j)
  \/ WorkerReportFailure(j) \/ WorkerCheckStatus(j) \/ WorkerRequeue(j)

-----------------------------------------------------------------------------
(* cancel and cancel_all.  A request works through the set todo in order   *)
(* of ids; wait is the set of tasks cancel_all gathers at its end.         *)

Begin(r, u, all, todo, wait) ==
  /\ mode # "down"
  /\ requests[r].pc = "idle"
  /\ requests' = [requests EXCEPT ![r] =
                    [pc |-> IF todo = {} THEN "gather" ELSE "write",
                     user |-> u, all |-> all, todo |-> todo, wait |-> wait]]
  /\ UNCHANGED <<status, replying, connected, batch, worker, activeUsers,
                 cloud, mode, stops, drops>>

\* /cancel <id>: get_job finds a row of this user, whatever its status.
CancelById(r, u) ==
  \E j \in JobsOf(u) : status[j] # "NONE" /\ Begin(r, u, FALSE, {j}, {})

\* /cancel: the oldest row in one of four statuses.
CancelOldest(r, u) ==
  \E j \in JobsOf(u) :
    /\ First(j, {i \in JobsOf(u) : status[i] \in {"RECEIVED", "QUEUED",
                                                  "DOWNLOADING", "UPLOADING"}})
    /\ Begin(r, u, FALSE, {j}, {})

\* cancel_all reads its rows and picks the tasks they have at that moment.
CancelAll(r, u) ==
  LET rows == {j \in JobsOf(u) : status[j] \in {"RECEIVED", "QUEUED"} \cup Active}
  IN Begin(r, u, TRUE, rows, rows \cap Registered(worker))

\* The request has dealt with job j.
Advance(q, j) ==
  IF q.todo # {j} THEN [q EXCEPT !.pc = "write", !.todo = @ \ {j}]
  ELSE IF q.all THEN [q EXCEPT !.pc = "gather", !.todo = {}]
  ELSE Done(q)

\* update_job(CANCELLED), rclone.cancel, and task.cancel() at once unless
\* rclone runs.
CancelWrite(r, j) ==
  /\ requests[r].pc = "write" /\ First(j, requests[r].todo)
  /\ status' = [status EXCEPT ![j] = "CANCELLED"]
  /\ IF worker[j] = "upload"
     THEN /\ requests' = [requests EXCEPT ![r] = [@ EXCEPT !.pc = "terminating"]]
          /\ UNCHANGED worker
     ELSE /\ requests' = [requests EXCEPT ![r] = Advance(@, j)]
          /\ worker' = [worker EXCEPT ![j] = Cancelled(@)]
  /\ UNCHANGED <<replying, connected, batch, activeUsers, cloud, mode, stops,
                 drops>>

\* The process has exited: _jobs is read again and its task cancelled.
CancelTerminated(r, j) ==
  /\ requests[r].pc = "terminating" /\ First(j, requests[r].todo)
  /\ worker[j] # "upload"
  /\ worker' = [worker EXCEPT ![j] = Cancelled(@)]
  /\ requests' = [requests EXCEPT ![r] = Advance(@, j)]
  /\ UNCHANGED <<status, replying, connected, batch, activeUsers, cloud, mode,
                 stops, drops>>

\* Mutation of ClearStopUser: the rows are polled instead of the tasks.
ClearPollsRows(r) ==
  /\ requests[r].pc = "gather"
  /\ \A j \in requests[r].wait : status[j] = "CANCELLED"
  /\ requests' = [requests EXCEPT ![r] =
                                    [@ EXCEPT !.pc = "clearRows", !.wait = {}]]
  /\ connected' = [connected EXCEPT ![requests[r].user] = FALSE]
  /\ UNCHANGED <<status, replying, batch, worker, activeUsers, cloud, mode,
                 stops, drops>>

\* gather(*tasks) returns, and _clear_user_access stops the user's client.
ClearStopUser(r) ==
  /\ requests[r].pc = "gather"
  /\ \A j \in requests[r].wait : worker[j] \in {"none", "ended"}
  /\ requests' = [requests EXCEPT ![r] =
                                    [@ EXCEPT !.pc = "clearRows", !.wait = {}]]
  /\ connected' = [connected EXCEPT ![requests[r].user] = FALSE]
  /\ UNCHANGED <<status, replying, batch, worker, activeUsers, cloud, mode,
                 stops, drops>>

\* The transaction of clear_user_access.
ClearUserAccess(r) ==
  /\ requests[r].pc = "clearRows"
  /\ status' = [j \in Jobs |->
                  IF /\ Owner[j] = requests[r].user
                     /\ status[j] \in {"RECEIVED", "QUEUED"} \cup Active
                  THEN "CANCELLED" ELSE status[j]]
  /\ requests' = [requests EXCEPT ![r] = Done(@)]
  /\ UNCHANGED <<replying, connected, batch, worker, activeUsers, cloud,
                 mode, stops, drops>>

RequestBegins(r, u) == CancelById(r, u) \/ CancelOldest(r, u) \/ CancelAll(r, u)

RequestStep(r) ==
  \/ \E j \in Jobs : CancelWrite(r, j) \/ CancelTerminated(r, j)
  \/ ClearStopUser(r) \/ ClearUserAccess(r)

-----------------------------------------------------------------------------
(* Telegram connections *)

ClientDrops(u) ==
  /\ connected[u] /\ drops < MaxDrops
  /\ connected' = [connected EXCEPT ![u] = FALSE]
  /\ drops' = drops + 1
  /\ UNCHANGED <<status, replying, batch, worker, activeUsers, cloud,
                 requests, mode, stops>>

ClientReturns(u) ==
  /\ mode = "up" /\ ~connected[u]
  /\ connected' = [connected EXCEPT ![u] = TRUE]
  /\ UNCHANGED <<status, replying, batch, worker, activeUsers, cloud,
                 requests, mode, stops, drops>>

-----------------------------------------------------------------------------
(* Stop and start of the process *)

\* The rclone processes of tasks that are gone: nobody terminates them, and
\* they store their file, or not, before the machine or the container ends them.
Abandoned == {j \in Jobs : worker[j] = "upload"}

\* JobDispatcher.shutdown up to its gather.
Shutdown ==
  /\ mode = "up" /\ stops < MaxStops
  /\ mode' = "stopping" /\ stops' = stops + 1
  /\ batch' = {}
  /\ worker' = [j \in Jobs |-> Cancelled(worker[j])]
  /\ remote' \in Uploads(Abandoned)
  /\ UNCHANGED <<status, replying, connected, activeUsers, missed, requests,
                 drops>>

\* What a process that is gone has lost: everything but the tables and the
\* remote objects.
LoseMemory ==
  /\ mode' = "down"
  /\ batch' = {} /\ replying' = {}
  /\ worker' = [j \in Jobs |-> "none"]
  /\ activeUsers' = [u \in Users |-> NoJob]
  /\ connected' = [u \in Users |-> FALSE]
  /\ requests' = [r \in Requests |-> IF requests[r].pc = "idle"
                                     THEN requests[r] ELSE Done(requests[r])]
  /\ remote' \in Uploads(Abandoned)
  /\ UNCHANGED <<status, missed, drops>>

\* The rest of the shutdown sequence, once every task has ended.
ShutdownEnds ==
  /\ mode = "stopping" /\ \A j \in Jobs : worker[j] \in {"none", "ended"}
  /\ LoseMemory
  /\ UNCHANGED stops

Crash ==
  /\ mode # "down" /\ stops < MaxStops
  /\ stops' = stops + 1
  /\ LoseMemory

\* start_all_users, recover_jobs and the new _loop.
RecoverWith(statuses) ==
  /\ mode = "down" /\ mode' = "up"
  /\ connected' \in [Users -> BOOLEAN]
  /\ status' = [j \in Jobs |->
                  IF status[j] \in statuses THEN "QUEUED" ELSE status[j]]
  /\ UNCHANGED <<replying, batch, worker, activeUsers, cloud, requests,
                 stops, drops>>

\* Mutations of Restart: recover_jobs forgets a status, or takes one too many.
RecoverLessDownloaded == RecoverWith(Active \ {"DOWNLOADED"})
RecoverFailedToo == RecoverWith(Active \cup {"FAILED"})

\* The three statuses of recover_jobs.
Restart == RecoverWith(Active)

-----------------------------------------------------------------------------
Next ==
  \/ LoopPoll
  \/ \E j \in Jobs : \/ Submit(j) \/ SubmitEnds(j) \/ LoopAssign(j)
                     \/ Worker(j) \/ ReleaseWorker(j)
  \/ \E r \in Requests : RequestStep(r) \/ \E u \in Users : RequestBegins(r, u)
  \/ \E u \in Users : ClientDrops(u) \/ ClientReturns(u)
  \/ Shutdown \/ ShutdownEnds \/ Crash \/ Restart

Spec == Init /\ [][Next]_vars

\* The event loop runs every task that is ready; Telegram and rclone calls
\* return or raise.  Nothing makes a lost Telegram connection come back, and
\* nothing restarts a process that was stopped.
Fairness ==
  /\ WF_vars(LoopPoll) /\ WF_vars(\E j \in Jobs : LoopAssign(j))
  /\ \A j \in Jobs : /\ WF_vars(SubmitEnds(j))
                     /\ WF_vars(Worker(j))
                     /\ WF_vars(ReleaseWorker(j))
  /\ \A r \in Requests : WF_vars(RequestStep(r))
  /\ WF_vars(ShutdownEnds)

FairSpec == Spec /\ Fairness

-----------------------------------------------------------------------------
(* Invariants *)

\* The type invariant of the table's column, the dispatcher's maps and the
\* places where its tasks and handlers stand.
TypeOK ==
  /\ status \in [Jobs -> JobStatus]
  /\ replying \subseteq Jobs
  /\ connected \in [Users -> BOOLEAN]
  /\ batch \subseteq Jobs
  /\ worker \in [Jobs -> WorkerState]
  /\ activeUsers \in [Users -> Jobs \cup {NoJob}]
  /\ remote \in [Jobs -> RemoteState] /\ missed \subseteq Users
  /\ requests \in [Requests -> Request]
  /\ mode \in {"up", "stopping", "down"}
  /\ stops \in 0..MaxStops /\ drops \in 0..MaxDrops

\* A user has at most one worker at a time, and _active_users names exactly
\* the registered tasks: what _loop assigns after its await, what a late done
\* callback removes and what a cancellation leaves never disagree.
OneWorkerPerUser ==
  /\ \A j \in Registered(worker) : activeUsers[Owner[j]] = j
  /\ \A u \in Users : activeUsers[u] # NoJob =>
        activeUsers[u] \in Registered(worker) \cap JobsOf(u)

\* No more than max_concurrent_user_workers files are processed at a time,
\* although _loop counts the free workers before it awaits the query.
WorkerLimit == Cardinality(Registered(worker)) <= MaxWorkers

\* While the service runs, a row that says a file is being processed has a
\* task that is still working on it: no sequence of cancellations, failures
\* and restarts leaves a row behind that nothing will ever move.
ActiveRowHasWorker ==
  mode = "up" =>
    \A j \in Jobs : status[j] \in Active => worker[j] \in Running

\* A path where an object lies can have been taken for a job of user u.
Occupiable(u) == CollisionPolicy = "overwrite" \/ u \in missed

\* A row is COMPLETED only while the file is in the cloud, whatever was
\* cancelled, requeued and uploaded again before, and however rclone exited.
\* The size is all that verify_upload compares (rclone_service.py:392), so
\* another object may lie there instead; but only when the policy is to
\* overwrite, or when the lookup for a job of this very user has failed.
CompletedIsStored ==
  \A j \in Jobs : status[j] = "COMPLETED" =>
    \/ remote[j] = "own"
    \/ remote[j] = "foreign" /\ Occupiable(Owner[j])

-----------------------------------------------------------------------------
(* How the row, the task, the batch and the handlers of a job agree: the   *)
(* strengthening that makes the invariants above inductive.                *)

\* What _loop still holds is assignable, whatever ran during its awaits: no
\* two candidates share an owner, none has a task or a pending reply, and a
\* row can only have gone from QUEUED to CANCELLED.
BatchIsFresh ==
  \A j \in batch :
    /\ worker[j] = "none" /\ activeUsers[Owner[j]] = NoJob
    /\ status[j] \in {"QUEUED", "CANCELLED"} /\ j \notin replying
    /\ \A i \in batch : Owner[i] = Owner[j] => i = j

FirstIsAssignable ==
  batch # {} => Cardinality(Registered(worker)) < MaxWorkers

ReplyPrecedesQueue ==
  /\ \A j \in replying :
        worker[j] = "none" /\ status[j] \in {"RECEIVED", "CANCELLED"}
  /\ \A j \in Jobs : status[j] = "NONE" => worker[j] = "none"

\* While the service runs, a task is cancelled only after its row is, so it
\* never requeues the job.
CancelledTaskHasCancelledRow ==
  mode = "up" =>
    \A j \in Jobs : /\ worker[j] # "requeue"
                    /\ worker[j] = "checkStatus" => status[j] = "CANCELLED"

\* While a handler waits for rclone to exit, the task can only fail or end.
TerminatedTaskStops ==
  mode = "up" =>
    \A j \in Jobs : Terminating(j) =>
      /\ j \notin batch /\ j \notin replying
      /\ \/ /\ status[j] = "CANCELLED"
            /\ worker[j] \in {"upload", "verify", "failing", "reportFailure",
                             "checkStatus", "ended", "none"}
         \/ /\ status[j] = "FAILED"
            /\ worker[j] \in {"reportFailure", "ended", "none"}

\* A task writes the row of its outcome before it reports it.
OutcomeIsWritten ==
  \A j \in Jobs :
    /\ worker[j] = "saveCompleted" => remote[j] # "free"
    /\ worker[j] \in {"report", "removeFailed", "reportFailure"} =>
         status[j] \in Finished
    /\ status[j] = "COMPLETED" =>
         worker[j] \in {"none", "report", "removeFailed", "ended",
                       "checkStatus", "requeue"}
    /\ status[j] = "FAILED" => worker[j] \in {"none", "reportFailure", "ended"}

\* Another object lies at a job's path only where an occupied path could be
\* taken, for this job or for a later one of the user.
ForeignIsTaken ==
  \A j \in Jobs : remote[j] = "foreign" => Occupiable(Owner[j])

\* A process that is gone runs nothing.
StoppedIsEmpty ==
  mode = "down" => /\ batch = {} /\ replying = {}
                   /\ \A j \in Jobs : worker[j] = "none"
                   /\ \A r \in Requests : requests[r].pc \in {"idle", "done"}

\* The inductive invariant of DispatcherProofs.
JobInv ==
  /\ TypeOK /\ OneWorkerPerUser /\ WorkerLimit /\ ActiveRowHasWorker
  /\ CompletedIsStored /\ BatchIsFresh /\ FirstIsAssignable
  /\ ReplyPrecedesQueue /\ CancelledTaskHasCancelledRow
  /\ TerminatedTaskStops /\ OutcomeIsWritten /\ ForeignIsTaken
  /\ StoppedIsEmpty

\* Only cancel_all gathers tasks, and only its callers clear rows.
ClearingIsForAll ==
  \A r \in Requests :
    requests[r].pc \in {"gather", "clearRows"} => requests[r].all

\* A task whose row is CANCELLED is about to end, unless rclone is still being
\* terminated or the row was cancelled by clear_user_access alone.
CancelledRowStopsTask ==
  \A j \in Jobs :
    status[j] = "CANCELLED" =>
      \/ worker[j] \in {"none", "ended", "checkStatus"}
      \/ worker[j] \in {"upload", "verify", "failing"} /\ Terminating(j)
      \/ worker[j] \in Running /\ Cleared(Owner[j])

\* Nothing is stored for a job before its submission is over.
StoredWasSubmitted ==
  \A j \in Stored : j \notin replying /\ status[j] # "NONE"

-----------------------------------------------------------------------------
(* What a step may never do *)

\* A cancelled row changes its status only in four windows: _loop had the job
\* in hand, its submission was still replying, the task failed while rclone
\* was being terminated, or clear_user_access cancelled the row of a task that
\* had been started behind cancel_all.  Outside them cancellation is final.
CancelLostOnlyInFlight ==
  [][\A j \in Jobs : status[j] = "CANCELLED" /\ status'[j] # "CANCELLED" =>
       \/ j \in batch /\ status'[j] = "DOWNLOADING"
       \/ j \in replying /\ status'[j] \in {"QUEUED", "FAILED"}
       \/ Terminating(j) /\ status'[j] = "FAILED"
       \/ worker[j] \in Running /\ Cleared(Owner[j])]_vars

\* A row that is COMPLETED or FAILED keeps its outcome, but for three windows:
\* a handler that has the job in hand writes CANCELLED over it; a task that a
\* shutdown cancelled puts it back to QUEUED; and a task that cannot remove
\* the local file writes FAILED over its own COMPLETED (dispatcher.py:257).
\* No error of an upload, reply or restart comes so late, and no worker takes
\* a finished job up again.
FinishedIsNotRestarted ==
  [][\A j \in Jobs :
       status[j] \in {"COMPLETED", "FAILED"} /\ status'[j] # status[j] =>
         \/ mode = "stopping" /\ status'[j] = "QUEUED"
         \/ /\ status[j] = "COMPLETED" /\ status'[j] = "FAILED"
            /\ worker[j] = "removeFailed"
         \/ /\ status'[j] = "CANCELLED"
            /\ \E r \in Requests : /\ requests[r].pc = "write"
                                   /\ j \in requests[r].todo]_vars

\* A file that is in the cloud already is queued, and so uploaded, once more
\* only by a shutdown or the recovery after it: while the service runs, no
\* cancellation, failure or late reply brings it back to the queue.
StoredIsQueuedOnlyByStop ==
  [][\A j \in Stored : status'[j] = "QUEUED" /\ status[j] # "QUEUED" =>
       mode # "up"]_vars

\* A row that is RECEIVED while no submission works on it is out of reach:
\* _loop takes QUEUED rows only and recover_jobs those in progress.  Only the
\* end of the process leaves one behind, between create_job and the reply.
StrandedOnlyByStop ==
  [][\A j \in Jobs : status'[j] = "RECEIVED" /\ j \notin replying' =>
       \/ status[j] = "RECEIVED" /\ j \notin replying
       \/ mode' = "down"]_vars

-----------------------------------------------------------------------------
(* Liveness *)

\* The registered tasks are a pool of tickets: _loop grants one only when one
\* is free and its user has none, and every task gives its ticket back.
Pool == INSTANCE WorkerPool WITH pool <- Registered(worker)
PoolSpec == Pool!Spec

\* If from some time on the service runs and a user's client is connected,
\* each of the user's queued jobs is eventually finished: other users, lost
\* connections and cancellations do not starve it.
QueuedJobFinishes ==
  \A j \in Jobs :
    <>[](mode = "up" /\ connected[Owner[j]])
      => (status[j] = "QUEUED" ~> status[j] \in Finished)

\* Every /cancel, /clear and /block handler returns: terminating rclone and
\* gathering the cancelled tasks never wait for ever.
HandlersReturn ==
  \A r \in Requests : requests[r].pc # "idle" ~> requests[r].pc = "done"
=============================================================================
