----------------------------- MODULE Onboarding -----------------------------
(***************************************************************************)
(* Telegram logins: src/app/telegram_onboarding.py with the client manager *)
(* it hands a finished session to, the polling, disconnecting and clearing *)
(* handlers of src/app/web.py and src/app/bot_service.py, and the rounds   *)
(* of src/app/maintenance.py.                                              *)
(*                                                                         *)
(* A process is a request handler, the maintenance task or the QR task of  *)
(* a login.  An action is the code between two awaits that matter to the   *)
(* state kept here; the writes of telegram_login_sessions are not steps of *)
(* their own, because the running program never reads those rows.          *)
(* start_user, and stop_user with the handling of the session files that   *)
(* follows it, run under the client lock of one user: each is one step.    *)
(***************************************************************************)
EXTENDS Naturals, FiniteSets

CONSTANTS
  Users,        \* accounts that opened an onboarding link
  Stranger,     \* any other Telegram account
  Nobody,       \* no account, no holder
  Logins,       \* connection ids
  Handlers,     \* concurrent requests
  Maintenance,  \* the task of MaintenanceService
  MaxPending    \* settings.max_pending_qr_logins

Procs == Handlers \cup Logins \cup {Maintenance}  \* login l's QR task is l
Accounts == Users \cup {Stranger}

ASSUME OnboardingAssumption ==
  /\ Users # {} /\ Stranger \notin Users /\ Nobody \notin Accounts \cup Procs
  /\ Handlers \cap Logins = {} /\ Maintenance \notin Handlers \cup Logins
  /\ IsFiniteSet(Logins) /\ MaxPending \in Nat \ {0}

VARIABLES
  login,    \* PendingLogin: user, method, status, get_me's account, phone kept
  listed,   \* keys of _pending
  late,     \* logins whose expires_at has passed
  online,   \* logins whose temporary client can talk to Telegram
  temp,     \* logins whose temporary session file exists
  lock,     \* holder of PendingLogin.lock
  pc, at,   \* where each process stands, and for which login
  todo,     \* logins a clearing handler has popped and not yet shut down
  clearing, \* the user a clearing handler works for
  session,  \* account of the user's permanent session file
  running,  \* users with a connected client in _clients
  flagged,  \* users with telegram_connected = 1
  restart,  \* what the maintenance round still has to start
  cleared   \* ghost: a clear of the user began, and no login since

owned == <<session, running, flagged>>
vars == <<login, listed, late, online, temp, lock, pc, at, todo, clearing,
          session, running, flagged, restart, cleared>>

-----------------------------------------------------------------------------
Waiting == {"WAITING_FOR_SCAN", "WAITING_FOR_CODE"}
Terminal == {"CONNECTED", "EXPIRED", "FAILED"}
Status == Waiting \cup Terminal
            \cup {"NONE", "LOADING", "TWO_FACTOR_REQUIRED", "CONNECTING"}

Submitting == {"lockCode", "lockPassword", "signCode", "signPassword"}
Finalizing == {"getMe", "leaving", "saveConnected", "startUser"}
Abandoning == {"dropping", "removing"}
Scanning == {"qrWait", "qrLock", "qrRefresh"}
PC == {"none", "idle", "ended", "starting", "ready", "clearing", "restart"}
        \cup Submitting \cup Finalizing \cup Abandoning \cup Scanning

Active(l) == login[l].status \notin Terminal \cup {"NONE"}
ActiveLogins == {l \in listed : Active(l)}
UserOf(p) == login[at[p]].user

\* A process that returns, with the pending lock it may hold.
Rest(p) == IF p \in Logins THEN "ended" ELSE "idle"
Release(p) == [l \in Logins |-> IF lock[l] = p THEN Nobody ELSE lock[l]]
Finish(p) ==
  /\ pc' = [pc EXCEPT ![p] = Rest(p)]
  /\ at' = [at EXCEPT ![p] = IF p \in Logins THEN p ELSE Nobody]
  /\ lock' = Release(p)

\* A SET UPDATE users for u waits behind one that was asked for earlier.
FlagUnderWay(u) == \E p \in Procs : pc[p] = "saveConnected" /\ UserOf(p) = u

\* task.cancel() on the QR tasks of the logins in S.
CancelTasks(S, f) ==
  [p \in Procs |-> IF p \in S /\ pc[p] # "none" THEN "ended" ELSE f[p]]
ReleaseTasks(S) ==
  [l \in Logins |-> IF l \in S /\ lock[l] = l THEN Nobody ELSE lock[l]]

SetStatus(l, s) == login' = [login EXCEPT ![l].status = s]

Init ==
  /\ login = [l \in Logins |-> [user |-> Nobody, method |-> "qr",
                                status |-> "NONE", account |-> Nobody,
                                phone |-> FALSE]]
  /\ listed = {} /\ late = {} /\ online = {} /\ temp = {}
  /\ lock = [l \in Logins |-> Nobody]
  /\ pc = [p \in Procs |-> IF p \in Logins THEN "none" ELSE "idle"]
  /\ at = [p \in Procs |-> IF p \in Logins THEN p ELSE Nobody]
  /\ todo = [h \in Handlers |-> {}]
  /\ clearing = [h \in Handlers |-> Nobody]
  /\ session = [u \in Users |-> Nobody]
  /\ running = {} /\ flagged = {} /\ restart = {} /\ cleared = {}

-----------------------------------------------------------------------------
(* _fail and _expire: the status changes at once, whoever holds the lock;  *)
(* the QR task is cancelled unless it is the caller; the client is         *)
(* disconnected, and after the write of the row the directory is removed.  *)

Abandon(p, l, s) ==
  /\ login' = [login EXCEPT ![l].status = s, ![l].phone = FALSE]
  /\ pc' = CancelTasks({l} \ {p}, [pc EXCEPT ![p] = "dropping"])
  /\ at' = [at EXCEPT ![p] = l]
  /\ lock' = ReleaseTasks({l})

Drop(p) ==
  /\ pc[p] = "dropping"
  /\ pc' = [pc EXCEPT ![p] = "removing"]
  /\ online' = online \ {at[p]}
  /\ UNCHANGED <<login, listed, late, temp, lock, at, todo, clearing, owned,
                 restart, cleared>>

Remove(p) ==
  /\ pc[p] = "removing"
  /\ temp' = temp \ {at[p]}
  /\ Finish(p)
  /\ UNCHANGED <<login, listed, late, online, todo, clearing, owned, restart,
                 cleared>>

-----------------------------------------------------------------------------
(* _new_pending, start and start_phone.                                    *)

\* Mutation of NewPending: a login that is still loading is not counted.
NewPendingWaiting(h, u, m, l) ==
  LET waiting == {k \in ActiveLogins : login[k].status \in Waiting} IN
  /\ pc[h] = "idle"
  /\ login[l].status = "NONE"
  /\ \A k \in waiting : login[k].user # u
  /\ Cardinality(waiting) < MaxPending
  /\ login' = [login EXCEPT ![l] = [user |-> u, method |-> m,
                                    status |-> "LOADING", account |-> Nobody,
                                    phone |-> (m = "phone")]]
  /\ listed' = listed \cup {l}
  /\ temp' = temp \cup {l}
  /\ cleared' = cleared \ {u}
  /\ pc' = [pc EXCEPT ![h] = "starting"]
  /\ at' = [at EXCEPT ![h] = l]
  /\ UNCHANGED <<late, online, lock, todo, clearing, owned, restart>>

NewPending(h, u, m, l) ==
  /\ pc[h] = "idle"
  /\ login[l].status = "NONE"
  /\ \A k \in ActiveLogins : login[k].user # u
  /\ Cardinality(ActiveLogins) < MaxPending
  /\ login' = [login EXCEPT ![l] = [user |-> u, method |-> m,
                                    status |-> "LOADING", account |-> Nobody,
                                    phone |-> (m = "phone")]]
  /\ listed' = listed \cup {l}
  /\ temp' = temp \cup {l}
  /\ cleared' = cleared \ {u}
  /\ pc' = [pc EXCEPT ![h] = "starting"]
  /\ at' = [at EXCEPT ![h] = l]
  /\ UNCHANGED <<late, online, lock, todo, clearing, owned, restart>>

\* connect() with qr_login() or send_code_request() succeeded.  The status is
\* written without another look at it.
StartReady(h) ==
  LET l == at[h] IN
  /\ pc[h] = "starting"
  /\ l \in temp
  /\ SetStatus(l, IF login[l].method = "qr" THEN "WAITING_FOR_SCAN"
                  ELSE "WAITING_FOR_CODE")
  /\ online' = online \cup {l}
  /\ pc' = [pc EXCEPT ![h] = "ready"]
  /\ UNCHANGED <<listed, late, temp, lock, at, todo, clearing, owned, restart,
                 cleared>>

StartFails(h) ==
  /\ pc[h] = "starting"
  /\ Abandon(h, at[h], "FAILED")
  /\ UNCHANGED <<listed, late, online, temp, todo, clearing, owned, restart,
                 cleared>>

\* The row is written; a QR login gets its task.
StartDone(h) ==
  LET l == at[h] IN
  /\ pc[h] = "ready"
  /\ pc' = [pc EXCEPT ![h] = "idle",
                      ![l] = IF login[l].method = "qr" THEN "qrWait" ELSE @]
  /\ at' = [at EXCEPT ![h] = Nobody]
  /\ UNCHANGED <<login, listed, late, online, temp, lock, todo, clearing, owned,
                 restart, cleared>>

-----------------------------------------------------------------------------
(* submit_code and submit_2fa.                                             *)

\* Mutation of Poll: a status the enumeration does not have.
PollTimesOut(h, l) ==
  /\ pc[h] = "idle"
  /\ l \in listed \cap late
  /\ Abandon(h, l, "TIMED_OUT")
  /\ UNCHANGED <<listed, late, online, temp, todo, clearing, owned, restart,
                 cleared>>

\* status() and both submissions expire a late login, whatever its status and
\* without its lock.
Poll(h, l) ==
  /\ pc[h] = "idle"
  /\ l \in listed \cap late
  /\ Abandon(h, l, "EXPIRED")
  /\ UNCHANGED <<listed, late, online, temp, todo, clearing, owned, restart,
                 cleared>>

Submit(h, l, where) ==
  /\ pc[h] = "idle"
  /\ l \in listed \ late
  /\ pc' = [pc EXCEPT ![h] = where]
  /\ at' = [at EXCEPT ![h] = l]
  /\ UNCHANGED <<login, listed, late, online, temp, lock, todo, clearing,
                 owned, restart, cleared>>

WaitsForCode(l) == login[l].status = "WAITING_FOR_CODE" /\ login[l].phone
WaitsForPassword(l) == login[l].status = "TWO_FACTOR_REQUIRED"

\* Mutation of SubmitEnter: the status is checked without the lock.
SubmitUnlocked(h) ==
  LET l == at[h] IN
  /\ pc[h] \in {"lockCode", "lockPassword"}
  /\ IF (IF pc[h] = "lockCode" THEN WaitsForCode(l) ELSE WaitsForPassword(l))
     THEN /\ pc' = [pc EXCEPT ![h] = IF @ = "lockCode" THEN "signCode"
                                     ELSE "signPassword"]
          /\ UNCHANGED <<at, lock>>
     ELSE Finish(h)
  /\ UNCHANGED <<login, listed, late, online, temp, todo, clearing, owned,
                 restart, cleared>>

SubmitEnter(h) ==
  LET l == at[h] IN
  /\ pc[h] \in {"lockCode", "lockPassword"}
  /\ lock[l] = Nobody
  /\ IF (IF pc[h] = "lockCode" THEN WaitsForCode(l) ELSE WaitsForPassword(l))
     THEN /\ lock' = [lock EXCEPT ![l] = h]
          /\ pc' = [pc EXCEPT ![h] = IF @ = "lockCode" THEN "signCode"
                                     ELSE "signPassword"]
          /\ UNCHANGED at
     ELSE Finish(h)
  /\ UNCHANGED <<login, listed, late, online, temp, todo, clearing, owned,
                 restart, cleared>>

SignAccepted(h) ==
  LET l == at[h] IN
  /\ pc[h] \in {"signCode", "signPassword"}
  /\ l \in online
  /\ SetStatus(l, "CONNECTING")
  /\ pc' = [pc EXCEPT ![h] = "getMe"]
  /\ UNCHANGED <<listed, late, online, temp, lock, at, todo, clearing, owned,
                 restart, cleared>>

SignNeedsPassword(h) ==
  LET l == at[h] IN
  /\ pc[h] = "signCode"
  /\ l \in online
  /\ SetStatus(l, "TWO_FACTOR_REQUIRED")
  /\ late' = late \ {l}
  /\ Finish(h)
  /\ UNCHANGED <<listed, online, temp, todo, clearing, owned, restart, cleared>>

\* A wrong code or password that may be retried, a flood wait, or an exception
\* no clause catches: the status stays.
SignReturns(h) ==
  /\ pc[h] \in {"signCode", "signPassword"}
  /\ Finish(h)
  /\ UNCHANGED <<login, listed, late, online, temp, todo, clearing, owned,
                 restart, cleared>>

\* The last attempt, an expired code or a refusal by Telegram.
SignFails(h) ==
  /\ pc[h] \in {"signCode", "signPassword"}
  /\ Abandon(h, at[h], "FAILED")
  /\ UNCHANGED <<listed, late, online, temp, todo, clearing, owned, restart,
                 cleared>>

-----------------------------------------------------------------------------
(* _wait_for_qr.                                                           *)

QrScanned(l) ==
  /\ pc[l] = "qrWait"
  /\ l \in online \ late
  /\ SetStatus(l, "CONNECTING")
  /\ pc' = [pc EXCEPT ![l] = "getMe"]
  /\ UNCHANGED <<listed, late, online, temp, lock, at, todo, clearing, owned,
                 restart, cleared>>

QrNeedsPassword(l) ==
  /\ pc[l] = "qrWait"
  /\ l \in online \ late
  /\ SetStatus(l, "TWO_FACTOR_REQUIRED")
  /\ late' = late \ {l}
  /\ Finish(l)
  /\ UNCHANGED <<listed, online, temp, todo, clearing, owned, restart, cleared>>

QrFails(l) ==
  /\ pc[l] \in {"qrWait", "qrRefresh"}
  /\ Abandon(l, l, "FAILED")
  /\ UNCHANGED <<listed, late, online, temp, todo, clearing, owned, restart,
                 cleared>>

\* Any TimeoutError, of the token or out of _finalize.
TimesOut(l) ==
  /\ IF l \in late
     THEN Abandon(l, l, "EXPIRED")
     ELSE /\ pc' = [pc EXCEPT ![l] = "qrLock"]
          /\ UNCHANGED <<login, at, lock>>
  /\ UNCHANGED <<listed, late, online, temp, todo, clearing, owned, restart,
                 cleared>>

QrTimesOut(l) == pc[l] = "qrWait" /\ TimesOut(l)

QrEnter(l) ==
  /\ pc[l] = "qrLock"
  /\ lock[l] = Nobody
  /\ IF login[l].status = "WAITING_FOR_SCAN"
     THEN /\ lock' = [lock EXCEPT ![l] = l]
          /\ pc' = [pc EXCEPT ![l] = "qrRefresh"]
          /\ UNCHANGED at
     ELSE Finish(l)
  /\ UNCHANGED <<login, listed, late, online, temp, todo, clearing, owned,
                 restart, cleared>>

QrRefreshed(l) ==
  /\ pc[l] = "qrRefresh"
  /\ l \in online
  /\ pc' = [pc EXCEPT ![l] = "qrWait"]
  /\ lock' = Release(l)
  /\ UNCHANGED <<login, listed, late, online, temp, at, todo, clearing, owned,
                 restart, cleared>>

-----------------------------------------------------------------------------
(* _finalize, run by the QR task or by a submitting handler.               *)

\* An exception at p's await: a handler turns Telegram's own errors into
\* FAILED and lets the others out; the QR task fails for all but a timeout.
FinalizeRaises(p) ==
  /\ pc[p] \in {"getMe", "leaving", "startUser"}
  /\ \/ /\ Abandon(p, at[p], "FAILED")
        /\ UNCHANGED <<listed, late, online, temp, todo, clearing, owned,
                       restart, cleared>>
     \/ /\ p \in Handlers
        /\ Finish(p)
        /\ UNCHANGED <<login, listed, late, online, temp, todo, clearing,
                       owned, restart, cleared>>
     \/ p \in Logins /\ TimesOut(p)

\* Mutation of GotMe: any Telegram account is accepted.
GotAnyone(p, me) ==
  /\ pc[p] = "getMe"
  /\ at[p] \in online
  /\ login' = [login EXCEPT ![at[p]].account = me]
  /\ pc' = [pc EXCEPT ![p] = "leaving"]
  /\ UNCHANGED <<listed, late, online, temp, lock, at, todo, clearing,
                 owned, restart, cleared>>

\* get_me(): whose login it is, shows only now.
GotMe(p, me) ==
  LET l == at[p] IN
  /\ pc[p] = "getMe"
  /\ l \in online
  /\ IF me = login[l].user
     THEN /\ login' = [login EXCEPT ![l].account = me]
          /\ pc' = [pc EXCEPT ![p] = "leaving"]
          /\ UNCHANGED <<at, lock>>
     ELSE Abandon(p, l, "FAILED")
  /\ UNCHANGED <<listed, late, online, temp, todo, clearing, owned, restart,
                 cleared>>

\* disconnect(), stop_user() and _move_session_family: the old session files
\* are unlinked before the new ones are looked for.
Promote(p) ==
  LET l == at[p]
      u == login[l].user
  IN
  /\ pc[p] = "leaving"
  /\ online' = online \ {l}
  /\ running' = running \ {u}
  /\ IF l \in temp
     THEN /\ session' = [session EXCEPT ![u] = login[l].account]
          /\ temp' = temp \ {l}
          /\ pc' = [pc EXCEPT ![p] = "saveConnected"]
          /\ UNCHANGED <<login, at, lock>>
     ELSE /\ session' = [session EXCEPT ![u] = Nobody]
          /\ IF p \in Logins THEN Abandon(p, l, "FAILED")
             ELSE Finish(p) /\ UNCHANGED login
          /\ UNCHANGED temp
  /\ UNCHANGED <<listed, late, todo, clearing, flagged, restart, cleared>>

SaveConnected(p) ==
  /\ pc[p] = "saveConnected"
  /\ flagged' = flagged \cup {UserOf(p)}
  /\ pc' = [pc EXCEPT ![p] = "startUser"]
  /\ UNCHANGED <<login, listed, late, online, temp, lock, at, todo, clearing,
                 session, running, restart, cleared>>

\* start_user returns the connected client or opens the session, and checks
\* whose it is.
CanStart(u) == u \in running \/ session[u] = u

StartUser(p) ==
  LET l == at[p] IN
  /\ pc[p] = "startUser"
  /\ CanStart(UserOf(p))
  /\ running' = running \cup {UserOf(p)}
  /\ login' = [login EXCEPT ![l].status = "CONNECTED", ![l].phone = FALSE]
  /\ Finish(p)
  /\ UNCHANGED <<listed, late, online, temp, todo, clearing, session, flagged,
                 restart, cleared>>

-----------------------------------------------------------------------------
(* MaintenanceService._run.                                                *)

\* Mutation of Expirable: only logins that wait for the user.
ExpirableWaiting(l) == l \in listed \cap late /\ login[l].status \in Waiting

Expirable(l) == l \in listed \cap late /\ Active(l)

ExpirePending(l) ==
  /\ pc[Maintenance] = "idle"
  /\ Expirable(l)
  /\ Abandon(Maintenance, l, "EXPIRED")
  /\ UNCHANGED <<listed, late, online, temp, todo, clearing, owned, restart,
                 cleared>>

RestartRead ==
  /\ pc[Maintenance] = "idle"
  /\ flagged # {}
  /\ restart' = flagged
  /\ pc' = [pc EXCEPT ![Maintenance] = "restart"]
  /\ UNCHANGED <<login, listed, late, online, temp, lock, at, todo, clearing,
                 owned, cleared>>

RestartUser(u) ==
  /\ u \in restart
  /\ restart' = restart \ {u}
  /\ \/ CanStart(u) /\ running' = running \cup {u}
     \/ UNCHANGED running
  /\ pc' = [pc EXCEPT ![Maintenance] = IF restart = {u} THEN "idle" ELSE @]
  /\ UNCHANGED <<login, listed, late, online, temp, lock, at, todo, clearing,
                 session, flagged, cleared>>

-----------------------------------------------------------------------------
(* _clear_user_access for /clear and /block, and disconnect_telegram.      *)

\* clear_user takes the logins of u out of _pending and cancels their tasks.
ClearBegin(h, u) ==
  LET mine == {l \in listed : login[l].user = u} IN
  /\ pc[h] = "idle"
  /\ listed' = listed \ mine
  /\ todo' = [todo EXCEPT ![h] = mine]
  /\ clearing' = [clearing EXCEPT ![h] = u]
  /\ cleared' = cleared \cup {u}
  /\ pc' = CancelTasks(mine, [pc EXCEPT ![h] = "clearing"])
  /\ lock' = ReleaseTasks(mine)
  /\ UNCHANGED <<login, late, online, temp, at, owned, restart>>

\* Mutation of ClearLogin: the temporary directory stays.
ClearKeepsFiles(h, l) ==
  /\ pc[h] = "clearing"
  /\ l \in todo[h]
  /\ todo' = [todo EXCEPT ![h] = @ \ {l}]
  /\ online' = online \ {l}
  /\ UNCHANGED <<login, listed, late, temp, lock, pc, at, clearing, owned,
                 restart, cleared>>

ClearLogin(h, l) ==
  /\ pc[h] = "clearing"
  /\ l \in todo[h]
  /\ todo' = [todo EXCEPT ![h] = @ \ {l}]
  /\ online' = online \ {l}
  /\ temp' = temp \ {l}
  /\ UNCHANGED <<login, listed, late, lock, pc, at, clearing, owned, restart,
                 cleared>>

\* What clearing and disconnecting do to the account.  A flag asked for
\* earlier is written earlier.
Forget(u) ==
  /\ ~FlagUnderWay(u)
  /\ running' = running \ {u}
  /\ session' = [session EXCEPT ![u] = Nobody]
  /\ flagged' = flagged \ {u}

ClearAccount(h) ==
  /\ pc[h] = "clearing"
  /\ todo[h] = {}
  /\ Forget(clearing[h])
  /\ pc' = [pc EXCEPT ![h] = "idle"]
  /\ clearing' = [clearing EXCEPT ![h] = Nobody]
  /\ UNCHANGED <<login, listed, late, online, temp, lock, at, todo, restart,
                 cleared>>

Disconnect(h, u) ==
  /\ pc[h] = "idle"
  /\ session[u] # Nobody
  /\ Forget(u)
  /\ UNCHANGED <<login, listed, late, online, temp, lock, pc, at, todo,
                 clearing, restart, cleared>>

\* expires_at passes.
Late(l) ==
  /\ login[l].status # "NONE" /\ l \notin late
  /\ late' = late \cup {l}
  /\ UNCHANGED <<login, listed, online, temp, lock, pc, at, todo, clearing,
                 owned, restart, cleared>>

-----------------------------------------------------------------------------
Step(p) ==
  \/ Drop(p) \/ Remove(p)
  \/ \E me \in Accounts : GotMe(p, me)
  \/ Promote(p) \/ SaveConnected(p) \/ StartUser(p) \/ FinalizeRaises(p)

HandlerStep(h) ==
  \/ Step(h)
  \/ StartReady(h) \/ StartFails(h) \/ StartDone(h)
  \/ SubmitEnter(h)
  \/ SignAccepted(h) \/ SignNeedsPassword(h) \/ SignReturns(h) \/ SignFails(h)
  \/ \E l \in Logins : ClearLogin(h, l)
  \/ ClearAccount(h)

QrStep(l) ==
  \/ Step(l)
  \/ QrScanned(l) \/ QrNeedsPassword(l) \/ QrFails(l)
  \/ QrTimesOut(l) \/ QrEnter(l) \/ QrRefreshed(l)

MaintenanceStep ==
  \/ Drop(Maintenance) \/ Remove(Maintenance)
  \/ \E u \in Users : RestartUser(u)

Request(h) ==
  \/ \E u \in Users, m \in {"qr", "phone"}, l \in Logins :
       NewPending(h, u, m, l)
  \/ \E l \in Logins :
       \/ Poll(h, l)
       \/ Submit(h, l, "lockCode") \/ Submit(h, l, "lockPassword")
  \/ \E u \in Users : ClearBegin(h, u) \/ Disconnect(h, u)

Next ==
  \/ \E h \in Handlers : Request(h) \/ HandlerStep(h)
  \/ \E l \in Logins : QrStep(l) \/ Late(l)
  \/ \E l \in Logins : ExpirePending(l)
  \/ RestartRead
  \/ MaintenanceStep

Spec == Init /\ [][Next]_vars

\* Every await returns or raises, time passes, and each maintenance round
\* looks at every login; nothing is owed by the people who use the pages.
Fairness ==
  /\ \A h \in Handlers : WF_vars(HandlerStep(h))
  /\ \A l \in Logins : WF_vars(QrStep(l)) /\ WF_vars(Late(l))
  /\ WF_vars(MaintenanceStep)
  /\ \A l \in Logins : SF_vars(ExpirePending(l))

FairSpec == Spec /\ Fairness

-----------------------------------------------------------------------------
\* The type invariant of the login manager's state and of the users' columns
\* and files it changes.
TypeOK ==
  /\ login \in [Logins -> [user : Users \cup {Nobody}, method : {"qr", "phone"},
                           status : Status, account : Accounts \cup {Nobody},
                           phone : BOOLEAN]]
  /\ listed \subseteq Logins /\ late \subseteq Logins
  /\ online \subseteq Logins /\ temp \subseteq Logins
  /\ lock \in [Logins -> Handlers \cup Logins \cup {Nobody}]
  /\ pc \in [Procs -> PC]
  /\ at \in [Procs -> Logins \cup {Nobody}]
  /\ todo \in [Handlers -> SUBSET Logins]
  /\ clearing \in [Handlers -> Users \cup {Nobody}]
  /\ session \in [Users -> Accounts \cup {Nobody}]
  /\ running \subseteq Users /\ flagged \subseteq Users
  /\ restart \subseteq Users /\ cleared \subseteq Users

\* What the proofs strengthen it with: a process that works on a login works on
\* one that was begun, for a user; only that user's own login gets as far as
\* being promoted; a clearing handler knows whom it clears.
Working == {"starting", "ready"} \cup Submitting \cup Finalizing
             \cup Abandoning \cup Scanning

BegunForUser ==
  \A l \in Logins : /\ login[l].status # "NONE" => login[l].user \in Users
                    /\ l \in listed => login[l].status # "NONE"

WorksOnBegun ==
  /\ \A p \in Procs : pc[p] \in Working =>
        at[p] \in Logins /\ login[at[p]].status # "NONE"
  /\ \A l \in Logins : at[l] = l

PromotesItsUser ==
  \A p \in Procs : pc[p] = "leaving" =>
    login[at[p]].account = login[at[p]].user

ClearsSomeone ==
  \A h \in Handlers : pc[h] = "clearing" => clearing[h] \in Users

\* A connected client works on a session file of its owner: promoting a login
\* (_finalize), disconnecting and clearing all stop the client before they
\* touch the files, and no other account's session is ever promoted.
ClientOwnsItsSession ==
  \A u \in Users : /\ session[u] \in {Nobody, u}
                   /\ u \in running => session[u] = u

LoginInv ==
  /\ TypeOK /\ BegunForUser /\ WorksOnBegun /\ PromotesItsUser
  /\ ClearsSomeone /\ ClientOwnsItsSession

\* A login that failed or connected is not taken up again by a submission or
\* by its QR task, and neither outcome turns into the other: pending.lock keeps
\* a second attempt out while one is under way.  Only status() of a late login
\* still rewrites it.
OutcomeIsFinal ==
  [][\A l \in Logins : login[l].status \in {"FAILED", "CONNECTED"}
                        => login'[l].status \in {login[l].status, "EXPIRED"}]_vars

\* What remains true of the checks of _new_pending, one login at a time for a
\* user and max_pending_qr_logins in all: a login becomes active past them only
\* when a late answer revives one that had expired.
LimitsPassedByLateAnswerOnly ==
  [][\A l \in ActiveLogins' \ ActiveLogins :
       login[l].status # "EXPIRED" =>
         /\ Cardinality(ActiveLogins') <= MaxPending
         /\ \A k \in ActiveLogins' \ {l} : login'[k].user # login'[l].user]_vars

\* Once /clear or /block is over, and unless the user began a new login since
\* it started, nothing of the user is left: no listed login, no temporary or
\* permanent session file, no client and no telegram_connected flag, though
\* submissions and maintenance rounds were under way.
ClearLeavesNothing ==
  \A u \in cleared :
    (\A h \in Handlers : clearing[h] # u) =>
      /\ session[u] = Nobody /\ u \notin running \cup flagged
      /\ \A l \in listed \cup temp : login[l].user # u

\* Every login ends: it is CONNECTED, EXPIRED or FAILED, or cleared.
LoginEnds == \A l \in Logins : (l \in ActiveLogins) ~> (l \notin ActiveLogins)

-----------------------------------------------------------------------------
(* The strengthenings that make OutcomeIsFinal and ClearLeavesNothing      *)
(* inductive, on top of LoginInv.                                          *)

\* p may still write a status that is neither FAILED nor EXPIRED to its login.
Signing == {"signCode", "signPassword"} \cup Finalizing
Attempting(p) ==
  \/ pc[p] \in {"starting"} \cup Signing \cup Scanning
  \/ pc[p] = "ready" /\ login[at[p]].method = "qr"

\* Which kind of process is where.
KnownPlaces ==
  /\ \A l \in Logins :
       pc[l] \in {"none", "ended"} \cup Scanning \cup Finalizing \cup Abandoning
  /\ \A h \in Handlers : pc[h] \notin {"none", "ended", "restart"} \cup Scanning
  /\ pc[Maintenance] \in {"idle", "restart"} \cup Abandoning

\* A login is attempted by one process at a time, and only until it has failed
\* or is connected.
OneAttempt ==
  /\ \A p, q \in Procs : Attempting(p) /\ Attempting(q) /\ at[p] = at[q] => p = q
  /\ \A p \in Procs : Attempting(p) =>
       login[at[p]].status \notin {"FAILED", "CONNECTED"}

\* Why a submission that finds the lock free and its status is alone.
AttemptsShow ==
  /\ \A h \in Handlers :
       /\ pc[h] \in Signing => lock[at[h]] = h
       /\ pc[h] = "starting" => login[at[h]].status \in {"LOADING", "EXPIRED"}
       /\ pc[h] = "ready" /\ login[at[h]].method = "qr" =>
            login[at[h]].status \in {"WAITING_FOR_SCAN", "EXPIRED"}
  /\ \A l \in Logins : pc[l] \in Scanning \cup Finalizing =>
       login[l].status \in {"WAITING_FOR_SCAN", "EXPIRED", "CONNECTING"}

AttemptInv == LoginInv /\ KnownPlaces /\ OneAttempt /\ AttemptsShow

\* A temporary session is removed by whoever pops its login from _pending.
TempIsReachable ==
  \A l \in temp :
    /\ login[l].status # "NONE"
    /\ l \in listed \/ \E h \in Handlers : clearing[h] = login[l].user
                                            /\ l \in todo[h]

\* No login of a user who was cleared is listed, and once the clears of the
\* user are over nothing can bring the account back.
ClearedIsGone ==
  /\ \A h \in Handlers : pc[h] # "clearing" => clearing[h] = Nobody
  /\ \A u \in cleared :
       /\ \A l \in listed : login[l].user # u
       /\ (\A h \in Handlers : clearing[h] # u) =>
            /\ session[u] = Nobody /\ u \notin running \cup flagged
            /\ ~FlagUnderWay(u)

ClearInv == LoginInv /\ TempIsReachable /\ ClearedIsGone
=============================================================================
