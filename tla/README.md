# Verification of the Telegram uploader

This directory holds TLA+ models of the service in `src/app`, the TLC
configurations that check them on small instances, and proofs that TLAPS checks
for every value of the constants. The models are written from the code, not from
its documentation. Where code and documentation disagree, a run shows it (see
"Where the code departs from what it says").

The service is one Python process on one asyncio event loop. That fixes the grain
of every model: code between two `await`s is atomic, and an action is the code
from one await that matters to the next. `Database.execute` holds one lock around
a statement and its commit, so a database write is one step; the steps of several
tasks interleave at their awaits.

## 1. The system

| Component | State it keeps | Operations | Talks to |
| --- | --- | --- | --- |
| Job queue and dispatcher (`dispatcher.py`, job queries of `database.py`) | `upload_jobs` rows; `_jobs` (tasks), `_active_users`, the candidates the loop holds | `start`, `_loop`, `_process`, `cancel`, `cancel_all`, `_release_worker`, `shutdown` | bot (messages), client manager (clients), rclone (upload) |
| Bot (`bot_service.py`) | none of its own beside `users` and `onboarding_tokens` rows | `_submit_file`, `/cancel`, `/clear`, `/block`, `/connect`, `/remote`, settings, reports | every service |
| Upload (`rclone_service.py`) | one child process per job, one configuration file per user, the remote objects | `create_remote`, `delete_remote`, `resolve_collision`, `upload_file`, `verify_upload`, `cancel` | dispatcher, Google connections |
| Telegram onboarding (`telegram_onboarding.py`) | `_pending` (logins with their lock, client, task, temporary session), `telegram_login_sessions` rows | `start`, `start_phone`, `submit_code`, `submit_2fa`, `_wait_for_qr`, `_finalize`, `status`, `expire_pending`, `clear_user` | client manager, web |
| Clients and maintenance (`client_manager.py`, `maintenance.py`) | `_clients`, a lock per user, permanent session files, `users.telegram_connected` | `start_user`, `stop_user`, `start_all_users`, the periodic round | onboarding, dispatcher, bot |
| Google connections (`oauth_service.py`, the disconnection in `web.py`, `/remote`) | `storage_connections`, `oauth_states`, `users.selected_remote` and `storage_connected`, the user's rclone configuration, a lock per user | `authorization_url`, `complete`, `disconnect_google`, selection | rclone, web |
| Web and tokens (`web.py`, `security.py`) | hashed single-use tokens, web sessions, rate limiter windows | `/connect`, token claim, session, the endpoints | onboarding, Google connections |
| Start and stop (`main.py`) | order of the services | `run`: start, recovery, shutdown | all |
| Configuration, models, utilities; migration script; browser page | - | validation, formatting, presentation | - |

### What is hard in it

- *Handlers beside tasks.* `/cancel`, `/clear` and `/block` write rows and cancel
  tasks while `_loop` stands between its query and its write, while a submission
  still replies, and while a task is in any of its awaits, its exception blocks
  included.
- *Late answers.* A login expires while Telegram is still answering; the answer is
  then applied.
- *Several steps, some of which fail.* Promoting a login stops a client, unlinks
  the old session files, renames the new ones, writes a flag and starts a client.
  Connecting a drive creates a remote and then a row.
- *Stop and restart.* Crashes between two writes, and a shutdown that cancels
  tasks that are still writing.
- *Limits.* Workers, connected users, pending logins, connections of a user: each
  counted before an await and used after it.

### What makes each part correct

- Queue: one worker a user, a bounded number in all; no row in progress without a
  task; COMPLETED only for a file that is in the cloud, unless an occupied path was
  taken; cancellation and outcomes are final outside known windows; a queued job of a
  connected user finishes; handlers return; the pool of workers is an instance of a
  simple abstract pool.
- Onboarding: a client runs on its owner's session only; the outcome of a login
  stays; a clear leaves nothing; every login ends; the limit of pending logins; a
  connected user has a session.
- Google connections: the limit of connections holds always; no overlap leaves a row
  beside the remote of another account; the rclone file, the rows and the user's
  selection agree when no handlers overlapped and no step failed half-way.
- Clients and maintenance: one client a user; the limit of connected users is
  passed by overlapping starts only; a user without a client gets one.
- Download: a file that passes the size check is whole, the progress is what was
  written, a restart waits for the last lane, and the lanes end.
- Tokens: a link opens one session, older links and cleared sessions are gone, and
  neither window of the limiter admits more than its limit, or refuses again who
  waited as long as it said.

## 2. The modules

| Module | What it is |
| --- | --- |
| `Dispatcher` | the upload queue from submission to outcome, with the cancelling handlers, lost connections, crash, shutdown and restart |
| `WorkerPool` | abstract specification: a pool of tickets for jobs of distinct users |
| `Download` | the download inside one worker: parallel lanes, their failure, and the sequential restart |
| `Onboarding` | logins by QR code and phone, promotion of the session, expiry, maintenance, clearing and disconnecting |
| `Clients` | the clients of the users: the start, the rounds of maintenance, logins and disconnections |
| `ClientTable` | abstract specification: at most one client or attempt a user, on a session file that nobody exchanges meanwhile |
| `Storage` | the Google Drive connections of a user, over the rclone file and the tables |
| `Access` | the setup links of a user and the two windows that `/connect` passes |
| `MCDispatcher`, `MCDownload`, `MCOnboarding`, `MCClients`, `MCStorage`, `MCAccess` | instances for TLC (with their symmetry), and the statements the violation runs refute |
| `DispatcherProofs`, `DownloadProofs`, `OnboardingProofs`, `ClientsProofs`, `StorageProofs`, `AccessProofs` | theorems about the module of the same name; `DispatcherProofs` also shows the refinement of `WorkerPool`, `ClientsProofs` that of `ClientTable` |
| `OnboardingOutcomeProofs` | how logins end, on top of `OnboardingProofs`: clears are complete, outcomes final, limits passed by late answers only |

The modules meet at the state they share. `Dispatcher` sees of a client only
whether it is connected, `Onboarding` sees of `ClientManager` only that a start
succeeds or fails, and `Clients` sees of a login only its end; each leaves the
other's part free to do what its code can do.

### Dispatcher and the code

| Variable | Code |
| --- | --- |
| `status` | `upload_jobs.status`; `"NONE"` before `create_job` |
| `replying` | submissions between `create_job` and their QUEUED or FAILED write |
| `connected` | `ClientManager.get` returns a client and `is_connected()` |
| `batch` | what the `for` loop of `_loop` has left of its query's result |
| `worker` | the await at which the task of `_jobs` stands |
| `activeUsers` | `_active_users` |
| `remote` | what lies at a job's `remote_path`: nothing, its own file, or another object |
| `missed` | auxiliary: users for one of whose jobs the lookup of a path failed where an object lay |
| `requests` | one record per `/cancel`, `/clear` or `/block` handler |
| `mode` | running, in `JobDispatcher.shutdown`, or gone |

- `Submit`, `SubmitEnds`: `_submit_file` from `create_job` on. Its earlier checks
  lie several awaits before and guard nothing at the time of the write.
- `LoopPoll`, `LoopAssign`, `ReleaseWorker`: `_loop`, with `Scan` as the body of
  its `for` up to the await, and the done callback.
- `WorkerStart` ... `WorkerRequeue`: the awaits of `_process`, of the upload and
  of its exception blocks. `Cancelled` says what `task.cancel()` makes of a task
  at each of them; a cancellation is part of the canceller's step. In `"removeFailed"`
  the unlink of dispatcher.py:257 has failed and the exception block is entered with
  the row COMPLETED.
- `WorkerChoosePath` takes a free path, or one where an object lies: because
  `CollisionPolicy` is `"overwrite"`, or because `lsjson` failed, which
  `remote_exists` takes for absence. The object may be a former upload of the job
  itself. `WorkerVerify` accepts any object that is there (it may have the same size),
  whatever the exit code was, and may fail with any. `Uploads` is what rclone can leave:
  the file stored or not, and what lay there, which may be another job's, replaced.
- `CancelById`, `CancelOldest`, `CancelAll`, `CancelWrite`, `CancelTerminated`,
  `ClearStopUser`, `ClearUserAccess`: the handlers, one step per row they write
  and per await in which they wait for rclone or for tasks.
- `ClientDrops`, `ClientReturns`: the owner's connection, with no promise that it
  returns.
- `Shutdown`, `ShutdownEnds`, `Crash`, `Restart`: the process, with `recover_jobs`.

Left out: progress messages, file names and sizes, how the original message is
found, local files but for the removal after success. The download is one await here
and has the module `Download`. Reading several rows is one step when the code does it
in one statement. Objects change by uploads alone: what is deleted or changed from
outside is not modelled, so a job finds another object at its path when an earlier
one, of this service or not, had been put there. Jobs of different users never meet
at a path: their drives are taken to be distinct, which the code does not enforce
(the unique indexes of database.py:207-222 are per user). An rclone process whose task
is gone may still store its file in the step that ends the task, not later.

### Onboarding and the code

| Variable | Code |
| --- | --- |
| `login` | a `PendingLogin`: user, method, status, whether the phone number is kept, and the account `get_me` returned |
| `listed` | keys of `_pending` |
| `late` | logins whose `expires_at` has passed |
| `online`, `temp` | the temporary client can talk to Telegram; the temporary session file exists |
| `lock` | holder of `PendingLogin.lock` |
| `pc`, `at` | the await at which a handler, a QR task or the maintenance task stands, and for which login |
| `todo`, `clearing` | what a clearing handler has popped, and for whom |
| `session` | account of the user's permanent session file |
| `running`, `flagged` | users with a client in `_clients`; `users.telegram_connected` |
| `restart` | users the maintenance round has read and not yet started |
| `cleared` | auxiliary: users for whom a clear began, with no login begun since |

- `NewPending`, `StartReady`, `StartFails`, `StartDone`: `start` and `start_phone`.
  The status is written when Telegram has answered, without another look at it,
  as the code does.
- `Submit`, `SubmitEnter`, `SignAccepted`, `SignNeedsPassword`, `SignReturns`,
  `SignFails`: `submit_code` and `submit_2fa` under `pending.lock`.
- `QrScanned` ... `QrRefreshed`: `_wait_for_qr`, one task per login.
- `GotMe`, `Promote`, `SaveConnected`, `StartUser`, `FinalizeRaises`: `_finalize`,
  run by either. `Promote` is `stop_user` with `_move_session_family`: the old
  files go before the new ones are looked for.
- `Abandon`, `Drop`, `Remove`: `_fail` and `_expire`, which take no lock. The
  status and the cancellation of the QR task come at once, the disconnection and
  the removal of the directory each after an await.
- `Poll`: `status()` and both submissions on a late login. `ExpirePending`,
  `RestartRead`, `RestartUser`: a maintenance round.
- `ClearBegin`, `ClearLogin`, `ClearAccount`: `clear_user` and the rest of
  `_clear_user_access`. `Disconnect`: `disconnect_telegram`.
- `Late`: time passes.

Abstractions. Writes of `telegram_login_sessions` are not steps, because the
running program never reads those rows back. A wrong code is "may be retried"
(`SignReturns`) or "the last attempt" (`SignFails`) without a counter.
`start_user`, and `stop_user` with the file handling after it, run under the
user's client lock and are a step each; the limit of connected users appears as
a `start_user` that fails. The removal of files and the flag write of a clear are one
step, with the guard `FlagUnderWay`: the database lock is first come, first
served, so a flag write asked for earlier lands earlier. `log_out` is part of
`Disconnect`. Process start and end (`cleanup_orphans`, `shutdown`) are left out,
and so are the texts, the QR image and the format of phone numbers.

### Download and the code

| Variable | Code |
| --- | --- |
| `size`, `lanes` | `job.file_size`; `connections`, 0 for a file below the parallel minimum |
| `file` | the target, as a function on its places; a place holds the number of the document's byte, or `Hole` |
| `phase` | where `_process` stands: lanes, their cancellation, sequential download, size check, outcome |
| `pc`, `got`, `position` | a lane's await, the parts its iterator has delivered, where it writes next |
| `transferred` | what the progress callback is told |
| `gap` | auxiliary: an iterator ended before its last part |

- `Receive`, `LaneEnds`, `LaneFails`, `LaneStalls`, `LaneTimesOut`, `LaneCloses`:
  `lane(i)` with the stall timeout around its iterator.
- `AllReceived`, `FailureSeen`, `FallBack`, `Cancel`, `Aborted`: the `gather`, the
  cancellation of the other lanes and the wait for them, and `task.cancel()` at
  each of these awaits.
- `ReceiveNext`, `SequentialEnds`: `download_media`. `CheckSize`: the comparison of
  sizes in `_process`.

Sizes count in units of half a chunk, which is enough to tell a short part from a
whole one.

### Clients and the code

| Variable | Code |
| --- | --- |
| `flagged` | users with `telegram_connected=1 AND active=1` |
| `session` | the permanent session file: none, authorized, or revoked by Telegram |
| `client` | `_clients`: no entry, a connected client, or one that is not connected any more |
| `lock`, `op` | holder of `_locks[user]`; the await at which a task stands, and for whom |
| `todo`, `booting` | users the current loop has still to visit; whether `start_all_users` has returned |

- `EnterStart`, `DropOld`, `CheckLimit`, `Connected`, `ConnectFails`: `start_user`.
- `Finalize` ... `FlagConnected`, `DisconnectTelegram` ... `UnflagUser`,
  `CancelLogin`: the callers of `start_user` and `stop_user` in the handlers.
- `Visit`, `StartEnds`, `BeginRound`: `start_all_users`, then the rounds; the start
  visits everybody who is flagged, a round those without an entry.
- `ConnectionLost`, `SessionRevoked`, `Restart`: Telegram and the process.

### Storage and the code

| Variable | Code |
| --- | --- |
| `config` | the sections of the user's rclone file, by slot: the names base, base_02, ... |
| `rows` | `storage_connections`, by the same slots |
| `selected`, `storage` | `users.selected_remote` and `storage_connected` |
| `grants` | `oauth_states` rows that can still be claimed |
| `lock`, `op` | holder of the user's lock of `GoogleOAuthService`; where the handlers stand |
| `undisturbed` | auxiliary: handlers ran one by one and none failed half-way |

- `AuthorizationUrl`, `GrantIsLost`, `Claim`, `Enter` ... `SelectRemote`:
  `authorization_url` and `complete`. A remote that does not verify goes through
  `RemoveRemote` ... `UnlinkConfig`, `disconnect_storage`.
- `Disconnect`, the same removal, `DeleteConnection`, `ReadRemaining`, `WriteUser`:
  `disconnect_google`, which takes no lock and uses the selection it read at first.
- `ChooseRemote`, `WriteChoice`: `/remote`. `ClearUser`, `ClearFiles`, `ClearRows`:
  the storage side of `/clear`. `Restart`: the process, with the storage check of
  the start, which takes a failed listing for a lost storage.

rclone can fail in every step that calls it, with and without an effect on the
file. A Google account is one value for its subject and its email address.

### Access and the code

| Variable | Code |
| --- | --- |
| `link` | `onboarding_tokens`: a token not drawn, drawn by `/connect`, unused, or used; expired and deleted rows open nothing either and count as used |
| `sessions` | links whose `web_sessions` row is valid |
| `events`, `usedAt` | the deques of the limiter for this user, one for each window, and the times in them |
| `now`, `retry` | `time.monotonic()` in ticks; auxiliary: when a user whom a window refused was told to come back |
| `opened`, `old`, `survivors` | auxiliary: sessions opened from a link, links that had a row at the last clear, links that were being exchanged just then |

- `Admit`, `Refuse`: the two outcomes of `RateLimiter.check`.
- `Command`, `RefuseCommand`: the window that every command has
  (`Outer`, bot_service.py:87). Some awaits later `Connect`, `RefuseConnect`: the
  window of `/connect` alone (`Inner`, bot_service.py:203), or `CommandEnds`: the
  user is blocked or unknown. A command that ends there has been counted by the first.
- `RevokeOlder`, `InsertLink`: the two statements of `/connect`.
- `ClaimLink`, `OpenSession`: the exchange in `web.py`.
- `LinkExpires`, `SessionExpires`, `ClearRows`, `Tick`, `Restart`.

## 3. What is checked

| Run | Instance | Question | States |
| --- | --- | --- | --- |
| `Dispatcher_safety` | 3 jobs of 2 users, 2 workers, 1 handler, 1 stop, 1 failed lookup, policy `rename` | the safety properties of the queue | 4.9 million |
| `Dispatcher_liveness` | 3 jobs of 2 users, 1 worker, 1 handler, 1 lost connection | the worker limit, the worker pool with its fairness, jobs finish, handlers return | 358 thousand |
| `Download_lanes` | sizes up to 13 units, up to 3 lanes, chunks of 2 units | the file, the progress, the restart, the end of the lanes | 99 thousand |
| `Onboarding_logins` | 2 logins of a user, 2 handlers, maintenance | the safety properties of logins | 3.9 million up to symmetry |
| `Onboarding_liveness` | 1 login, 2 handlers, maintenance | every login ends | 22 thousand |
| `Clients_sessions` | 3 users, limit 1, 1 handler beside the service, 1 stop | one client a user, the limit, the table of clients, users are retried | 270 thousand |
| `Storage_connections` | 3 accounts, limit 2 (so 3 slots), 2 handlers, 1 stop | the limit of connections, accounts of rows and remotes, agreement of file and tables | 4.1 million up to symmetry |
| `Access_links` | 3 links, 2 handlers, limits of 2 in windows of 2 and 3 ticks, 6 ticks, 1 stop | links, sessions and the two windows | 4.3 million up to symmetry |
| `Dispatcher_lost_cancel`, `Dispatcher_starvation`, `Onboarding_promotion`, `Clients_lost` | | section 4: one statement each, which is violated | |

Properties of the queue:

- `OneWorkerPerUser`: `_active_users` and `_jobs` agree and give a user one task.
  What could break it is the late done callback, or the assignment after an await;
  the run has a second worker free for a user's second job.
- `WorkerLimit`: the number of tasks, counted before two awaits, holds after them.
- `ActiveRowHasWorker`: while the service runs, a row in progress has a task that
  still works on it.
- `CompletedIsStored`: COMPLETED means that the file is there, also after requeues,
  and when rclone failed after the upload or was terminated. The exception is exact:
  since `verify_upload` compares sizes only, another object may lie there, but only if
  the policy is to overwrite, or a lookup failed for a job of the same user (the
  object may be that of an earlier job, or a later job may have replaced this one's).
- `CancelLostOnlyInFlight`: a cancelled row changes in four windows only: the loop
  had the job in hand; its submission was replying; the task failed while rclone
  was being terminated; a clear cancelled the row of a task started behind it.
- `FinishedIsNotRestarted`: COMPLETED and FAILED stay, and neither becomes the other,
  unless a handler writes CANCELLED over it (`cancel` does not look at the status,
  dispatcher.py:89), a task that a shutdown cancelled queues the job again, or the
  task cannot remove the local file and writes FAILED over its own COMPLETED
  (dispatcher.py:257 lies in the try block of 263).
- `StoredIsQueuedOnlyByStop`: a file that is in the cloud is uploaded a second time
  only because the process stopped before COMPLETED was written or reported.
- `StrandedOnlyByStop`: a RECEIVED row without a submission, which neither `_loop`
  nor `recover_jobs` takes up, is left only by the end of the process.
- `PoolSpec`: the tasks of `_jobs` implement `WorkerPool`, fairness included.
- `QueuedJobFinishes`, `HandlersReturn`: no starvation while the owner is
  connected; a handler that gathers tasks or terminates rclone returns.

Properties of logins:

- `ClientOwnsItsSession`: a running client works on a file of its owner's account.
- `OutcomeIsFinal`: a second submission or the QR task never revives a login that
  failed or connected, and neither outcome turns into the other. Only the polling of a
  late login rewrites it, to EXPIRED.
- `LimitsPassedByLateAnswerOnly`: what remains true of README.md:612 and of one login at
  a time for a user: only a late answer to an expired login passes them.
- `ClearLeavesNothing`: after `/clear` or `/block`, no login, file, client or flag
  of the user is left, though submissions and a maintenance round were under way.
  A login begun after the clear started is excluded by `cleared`.
- `LoginEnds`: a login becomes CONNECTED, EXPIRED or FAILED, or is cleared.

Properties of the download:

- `DownloadedIsWhole`: after the size check every byte is in its place, whichever
  lanes failed before. It excludes an iterator that ended early (`gap`): the target
  is extended to its size before it is filled, so the check of dispatcher.py:207
  cannot see a hole.
- `ProgressIsExact`: no byte is written by two lanes.
- `RestartsAlone`: no lane is left when the file is downloaded anew, checked or
  uploaded (README.md:117).
- `ParallelEnds`: a stalled lane does not hold up the download for ever.

Properties of the clients:

- `OneClientEach`: two tasks never connect clients of one user, nor one beside an
  entry of `_clients`.
- `LimitPassedByOverlapOnly`: what remains true of `MAX_CONNECTED_USERS`, whose check
  lies before awaits and under a lock of one user only.
- `TableSpec`: clients, attempts and session files implement `ClientTable`. The module
  knows no locks and no tasks: it says between which states callers may find a user's
  client, and that a login or disconnection exchanges the session file
  (telegram_onboarding.py:397, web.py:249) at a moment when no client is entered or
  being connected on it.
- `UnavailableIsRetried`: a user with flag and session but without a client gets one
  while there is room.

Properties of the connections:

- `ConnectionLimit`: never more rows than `multy_rclone_count`, whatever overlaps.
- `MixedByFailureOnly`: a disconnection removes the remote before its row and takes no
  lock, so that a callback can create a remote of that name for another account while
  the row is still there. No overlap leaves it so: only a failed rclone command of the
  callback, or a stop, does.
- `OneByOneTheyAgree`: what remains true of README.md:769 and of the agreement of the
  two stores: every disagreement comes from an overlap or a partial failure.

Properties of the links:

- `LinkOpensOneSession`: also when requests arrive together or a stop intervenes.
- `LinksLeftByOverlapOnly`: what remains true of bot_service.py:206, "Only the newest
  unused setup link should remain valid.", when commands overlap.
- `ClearEndsSessions`: an old link has a session after a clear only if it was being
  exchanged at that moment.
- `WindowHolds`: every interval of a window's length, wherever it lies.
- `RetryAfterSuffices`: whoever waits as long as a window's refusal said is not refused
  by that window again, unless it recorded another use since. It is a statement about
  each window, not about the command: the user who was told to wait by one window can be
  refused by the other, in either order.

Each module has one type invariant. Every property is also checked against a
mutated model, for which it must fail: a worker limit that is not looked at again,
a done callback that forgets a map, a restart that forgets a status, a login whose
lock is not taken, and so on. The mutations stand beside the operators they alter,
marked "Mutation of".

### Bounds, and why they are enough

`Requests`, `MaxStops` and `MaxDrops` bound how often handlers, stops and lost
connections occur; `Jobs`, `Users`, `Logins`, `Handlers` are small sets. `MaxMisses`
bounds for how many users a lookup fails. Nothing in the code compares more than two
jobs of a user, or a job with more than one other owner's. So three jobs of two users
contain a user's second job behind the first and a job of somebody else between them.
With two workers (`Dispatcher_safety`) tasks of both users run beside each other and a
user's second job meets a free worker and the late callback of the first; with one
(`Dispatcher_liveness`, which has `WorkerLimit` for that reason) the users compete for
it. The stop and the failed lookup are in the first run, the lost connection in the
second, so that each stays small; one of each, and one handler, meet every await of
every task. The runs have the policy `rename`: it has the failed lookups, `overwrite`
gives the same steps without them, and `skip` takes some away. The theorems cover all
three. Two logins of one user under a limit of one give a login begun while an older
one is still being expired, failed, promoted or cleared; the second handler gives
concurrent submissions, and a clear beside a submission. The theorems below do not
depend on these bounds.

`Download`: 13 units are seven parts, the last of them short, for one, two and
three lanes: lanes with different numbers of parts, a last stride that is not
full, sizes that are multiples of chunk and stride and sizes that are not, and a
file with fewer parts than lanes.

`Clients`: three users for one place and two tasks that start clients, so that the
limit is reached, passed by an overlap and freed again. `Storage`: one slot more
than the limit, an account more than connections, two handlers of any kinds, and
one stop at each step of both. `Access`: three commands for two
windows that admit two, all within a window and across its edge, in ticks of half a
second so that seconds are rounded; the windows have different lengths, either can
refuse, and MaxTime lets both pass entirely.

Symmetry is used in `Onboarding_logins`, `Storage_connections` and `Access_links`
alone, none of which has a liveness property: logins, accounts, links and handlers
are interchangeable there. Deadlock checking is off in `Download_lanes` only, where
a download ends; the other systems never have to stop.

### Fairness

`Dispatcher`: weak fairness of the loop, of every task, callback, submission and
handler. The event loop runs what is ready, and calls of Telegram and rclone
return or raise: the code puts a timeout on the upload, on the chunks of a parallel
download and on the exit of a terminated rclone, and relies on the libraries for
the other calls, as the fairness does. Nothing is assumed of lost connections
(`QueuedJobFinishes` has the owner's connection in its premise) or of restarts.

`Onboarding`: weak fairness of every process' steps and of time passing; strong
fairness of `ExpirePending(l)`, because each maintenance round looks at every
login, while the task is busy in between again and again. Users owe nothing: no
fairness of `Request`.

`Download`: weak fairness of each lane, whose wait has the timeout of
dispatcher.py:410, and of the task that waits for the lanes. Nothing bounds the
sequential download, and nothing is assumed of it.

`Clients`: weak fairness of the loop and of the steps of a task inside
`start_user`; strong fairness of `EnterStart(Service)`, since an asyncio lock is
first come, first served, and of `Connected(Service)`, since Telegram does not
refuse every attempt for ever. Logins and disconnections owe nothing.

`Storage` and `Access` promise nothing in time and state no fairness.

## 4. Where the code departs from what it says

| Run | Statement | What the code does |
| --- | --- | --- |
| `Dispatcher_lost_cancel` | README.md:214, "Cancel the specified owned job" | `_loop` writes DOWNLOADING over a row that was cancelled after its query (dispatcher.py:150) |
| `Dispatcher_starvation` | README.md:154, "no queue monopolization by one account" | the LIMIT of the query is taken up by the jobs of disconnected owners (dispatcher.py:134); shown with a limit of one connected user |
| `Onboarding_promotion` | telegram_onboarding.py:61, "atomically promotes valid sessions" | a login that expires while it is being promoted takes the user's former session with it (telegram_onboarding.py:398) |
| `Clients_lost` | README.md:70, "restarts transiently unavailable user sessions" | a round skips users that have an entry in `_clients`, connected or not (maintenance.py:44) |

README.md:612, "Global limit for simultaneous QR and phone onboarding flows", and
MAX_CONNECTED_USERS do not hold as they stand either; what remains of them is checked
and proved as `LimitsPassedByLateAnswerOnly` and `LimitPassedByOverlapOnly`. The limit
of logins is passed when an answer of Telegram comes after its login has expired and
makes it active again (telegram_onboarding.py:113), beside the login begun in the
meantime.

## 5. What is proved

Each module names its assumption on the constants, and TLC evaluates it in its runs.
`ConstantsAssumption`: a finite set of natural numbers as job ids, each with an owner,
positive limits, one of the three collision policies. `OnboardingAssumption`,
`ClientsAssumption`, `StorageAssumption`, `AccessAssumption`: the kinds of processes
and the null values are distinct from the rest, the sets that are counted are finite,
limits and windows are positive. `DownloadAssumption`: positive sizes, and `Hole` is
no number. Nothing else is assumed, so the theorems hold for any number of jobs,
users, workers, handlers, logins, accounts, links, lanes and stops.

`DispatcherProofs`:

- `JobInvariant`: `JobInv` is inductive. The properties of section 3 are not
  inductive by themselves. `WorkerLimit` needs to know that the loop stops with
  candidates in hand only while a worker is free (`FirstIsAssignable`).
  `OneWorkerPerUser` needs that the candidates have distinct owners without tasks
  (`BatchIsFresh`, `ReplyPrecedesQueue`). `ActiveRowHasWorker` needs that a task
  cancelled while the service runs has a CANCELLED row
  (`CancelledTaskHasCancelledRow`), also at the end of a wait for rclone
  (`TerminatedTaskStops`). `CompletedIsStored` needs the order of a task's writes
  (`OutcomeIsWritten`), and that another object lies at a job's path only where an
  occupied path can have been taken (`ForeignIsTaken`); what the rclone processes of
  some tasks can leave is the subject of `UploadsFacts`, `UploadsKeep` and
  `CompletedKept`, which also serve a crash in the middle of uploads. A restart needs
  `StoppedIsEmpty`.
- From it: `TypeCorrect`, `WorkersAreBounded`, `UserHasOneWorker`, `NoStuckRow`,
  `CompletionIsTrue`, and the action properties `FinishedStays` and
  `OnlyStopStrands`. `OnlyStopUploadsAgain` also needs that nothing is stored for a job
  whose submission is still replying (`StoredWasSubmitted`).
- `CancellationIsFinal` adds `ClearingIsForAll` and `CancelledRowStopsTask`: a
  task whose row is CANCELLED is about to end unless one of the windows is open.
- `PoolRefinement`: `Spec => Pool!Safety`, each step of the dispatcher being a
  grant, a return, a stop or a stutter of `WorkerPool`.

`OnboardingProofs`:

- `LoginInvariant`: `LoginInv` is inductive. Beside types it says that a working
  process works on a login that was begun for a user (`BegunForUser`,
  `WorksOnBegun`), that only the user's own account gets as far as promotion
  (`PromotesItsUser`), and that a clearing handler knows whom it clears
  (`ClearsSomeone`).
- From it: `TypeCorrect`, and `SessionsAreOwn`, which states `ClientOwnsItsSession`.

`OnboardingOutcomeProofs`:

- `ClearInvariant`, and from it `ClearIsComplete`, which states `ClearLeavesNothing`.
  That property speaks of the moment after a clear; what carries it there is that a
  temporary session file belongs to a login which is in `_pending` or in the hands of
  a clear of its user (`TempIsReachable`), so a login that is being promoted after the
  clear finds no file, and that no flag of the user is still to be written
  (`ClearedIsGone`). Most actions touch neither accounts nor the list (`Quiet`); the
  nine that do have a lemma each.
- `AttemptInvariant`, and from it `OutcomesAreFinal`, which states `OutcomeIsFinal`. A
  process attempts a login while it may still write a status other than FAILED and
  EXPIRED. At most one does, and its login has neither failed nor connected
  (`OneAttempt`). The handler that begins a QR login hands the attempt to the task; a
  submission joins only under the lock, where the status shows that nobody else attempts
  it (`AttemptsShow`): a start under way and the QR task leave other statuses, and
  another submission would hold the lock. `OneMover` says why any step keeps this: it
  moves one process on, ends some others, and takes no lock from a handler.
- `LimitsHoldButForLateAnswers`: since outcomes are final, a login that becomes active
  without having been EXPIRED is one that `_new_pending` has just counted.

`ClientsProofs`:

- `StartInvariant`: what `start_user` does between its awaits it does under the
  user's lock, and `_clients` has no entry while it connects (`StartingHoldsLock`).
  From it `TypeCorrect` and `ClientsAreSingle`.
- `OvershootIsBounded`: entries and connecting tasks together; a task that begins to
  connect has just seen fewer entries than the limit, so that the others that
  connect are all that can come on top.
- `TableRefinement`: `Spec => TableSpec`. A step of one task changes the set of users
  that are being connected by at most its own user (`ConnectingMoves`), and whoever
  holds the lock, or finds it free, finds nobody connecting the user (`LockExcludes`).

`StorageProofs`:

- `ConnectionsAreLimited`: only the holder of the lock connects
  (`ConnectingHoldsLock`), and between its count and its insertion no row is added
  by anybody else (`ConnectingHasRoom`).
- `OnlyFailuresMix`, which states `MixedByFailureOnly`: what the holder of the lock knows
  of the slot it has named (`HoldsSlot`, in the invariant `SlotInv`) survives the steps of
  handlers without the lock, because those only take remotes and rows away.
- `SerialHandlersAgree`: `OneAtATime` says for each await of each handler how the
  file, the rows and the user row stand when that handler is alone at work.

`DownloadProofs`:

- `NoLaneIsLeft`. A phase after the lanes begins only when each lane is over, and a
  lane that is over never runs again (`LaneInv`).
- `FileInvariant`: a lane stands in front of the first place it has not written
  (`LanesAtWork`), the lanes' parts hold the document's bytes in their places and
  nothing else is filled (`LanesInPlace`), a lane that is through has filled its
  places (`LanesFill`), and the sequential download writes a beginning of the document
  (`FileBegins`). It rests on the partition of the file: every place belongs to one
  part of one lane (`PlaceFacts`, `PartFacts`), which is arithmetic of division with
  the two moduli, chunk and number of lanes (`QuotientFacts`, `QuotientIs`).
- From it: `TypeCorrect`, `DownloadsAreWhole` and `ProgressIsTrue`, which counts the
  filled places.

`AccessProofs`:

- `LinkInvariant`: handlers at work have links of their own (`LinksAreOwn`) and a link
  that has opened a session or was cleared is used (`SpentIsUsed`). From it
  `LinksAreSingleUse` and `ClearIsFinal`; `LinksLeftAreFew` counts unused links and
  insertions under way against the handlers.
- `WindowInvariant`: each window's deque has every use that is not over and never more
  than the limit (`RecentIsKept`), and by the time a refusal named its first entry is
  over (`RoomAtRetry`, with the lemma `RetryIsLater` on the rounding to seconds). A step
  moves one window at most. From it `EveryWindowHolds` and `RetryIsLateEnough`, which
  states `RetryAfterSuffices`.

Every module also has `TypeCorrect`. With that every invariant and every safety action
property that a passing run checks is a theorem.

Model-checked only: the liveness properties (`QueuedJobFinishes`, `HandlersReturn`,
`LoginEnds`, `UnavailableIsRetried`, `ParallelEnds`) and the fairness part of `PoolSpec`,
because liveness under fairness and ENABLED are out of the prover's reach; and the
violation runs. The strengthened invariants (`FileInv`, `ClearInv`, `AttemptInv` and the
others) held on the instances of section 3 before they were proved.
No module uses RECURSIVE operators.

## 6. What is not modelled

- Google connections: the backfill of identities of connections made before they
  were recorded; the exchange with Google, which succeeds or fails.
- Web: `resolve_web_user` and the status endpoint, which change nothing; the limiter
  for other commands, the same with other numbers.
- Clients: the client that a cancelled `start_user` leaves connected without an entry
  (client_manager.py:66 does not see the cancellation).
- Onboarding: `cleanup_orphans` and `shutdown`, which run when nothing else does.
- Queue: progress messages, how the original message is found, local files but for
  their removal after success; objects that are deleted or changed from outside, and
  drives that two users share.
- Upload: folder listings and usage reports, which change no state.
- The order in which `main.py` builds the services.
- Configuration, formatting, texts, logging, the browser page: no control that
  the properties could tell apart. The migration script: a sequential one-off.
- The transaction state of the SQLite driver, and the network under Telegram and
  rclone other than as calls that return, raise or time out.

## 7. Plan

1. Done: `Dispatcher`, `WorkerPool`, `Download`, `Onboarding`, `Clients`,
   `ClientTable`, `Storage` and `Access`, their runs, and the theorems of section 5.
2. Compositions: the queue with the clients, which share `connected`; clearing across
   queue, logins, connections and links, with an abstract specification of a user
   who was cleared.
