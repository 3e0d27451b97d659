------------------------------ MODULE Clients ------------------------------
(***************************************************************************)
(* The Telethon clients of the users: src/app/client_manager.py, with its  *)
(* callers: start_all_users at the start of src/app/main.py, the rounds of *)
(* src/app/maintenance.py, the end of a login (_finalize of                *)
(* src/app/telegram_onboarding.py) and disconnect_telegram of              *)
(* src/app/web.py, which /clear follows too.                               *)
(*                                                                         *)
(* An action is one await with the code up to the next.  The start and,    *)
(* once it is over, the rounds of maintenance are one task, Service.       *)
(***************************************************************************)
EXTENDS Integers, FiniteSets

CONSTANTS
  Users,        \* Telegram accounts
  Handlers,     \* logins that end and disconnections, at work at a time
  Service,      \* start_all_users, then maintenance
  Nobody,       \* a lock is free
  MaxConnected, \* settings.max_connected_users
  MaxStops      \* bound: stops of the process

Tasks == Handlers \cup {Service}

ASSUME ClientsAssumption ==
  /\ Users # {} /\ IsFiniteSet(Users) /\ IsFiniteSet(Handlers)
  /\ Service \notin Handlers /\ Nobody \notin Tasks
  /\ MaxConnected \in Nat \ {0} /\ MaxStops \in Nat

VARIABLES
  flagged,   \* users with telegram_connected=1 and active=1
  session,   \* the user's telegram.session: no file, authorized or revoked
  client,    \* _clients: no entry, is_connected(), or not connected any more
  lock,      \* holder of _locks[user]
  op,        \* where the tasks stand
  todo,      \* users that the loop of Service still has to visit
  booting,   \* start_all_users has not returned
  stops      \* counter of the bound

vars == <<flagged, session, client, lock, op, todo, booting, stops>>
files == <<flagged, session>>
loop == <<todo, booting>>

\* Inside start_user: waiting for the lock, disconnecting the old client,
\* and connecting the new one.
Starting == {"lock", "drop", "connect"}
Operation ==
  [pc : Starting \cup {"idle", "stopForLogin", "flag", "stop", "unflag"},
   user : Users]

Idle == [pc |-> "idle", user |-> CHOOSE u \in Users : TRUE]
At(t, pc) == op[t].pc = pc
Goto(t, pc) == op' = [op EXCEPT ![t].pc = pc]
End(t) == op' = [op EXCEPT ![t] = Idle]
Release(u) == lock' = [lock EXCEPT ![u] = Nobody]
Owned == {u \in Users : client[u] # "none"}
ConnectingTasks == {t \in Tasks : At(t, "connect")}
BeingConnected == {op[t].user : t \in ConnectingTasks}

Init ==
  /\ flagged \in SUBSET Users
  /\ session \in [Users -> {"none", "valid", "revoked"}]
  /\ client = [u \in Users |-> "none"]
  /\ lock = [u \in Users |-> Nobody]
  /\ op = [t \in Tasks |-> Idle]
  /\ todo = flagged /\ booting = TRUE /\ stops = 0

-----------------------------------------------------------------------------
(* start_user, under the user's lock until it returns or raises.           *)

\* start_all_users takes a missing file and a refused session for the end of
\* the connection; maintenance and the logins leave the flag as it is.
Raised(t, final) ==
  /\ Release(op[t].user)
  /\ IF final /\ t = Service /\ booting THEN Goto(t, "unflag") ELSE End(t)

\* Mutation of CheckLimit: the limit is not checked.
CheckNoLimit(t, others) ==
  IF session[op[t].user] = "none" THEN Raised(t, TRUE)
  ELSE Goto(t, "connect") /\ lock' = [lock EXCEPT ![op[t].user] = t]

\* The limit, then the file: from here to the next await nothing intervenes.
CheckLimit(t, others) ==
  IF Cardinality(others) >= MaxConnected THEN Raised(t, FALSE)
  ELSE IF session[op[t].user] = "none" THEN Raised(t, TRUE)
  ELSE Goto(t, "connect") /\ lock' = [lock EXCEPT ![op[t].user] = t]

\* Mutation of EnterStart: start_user takes no lock.
EnterUnlocked(t) ==
  LET u == op[t].user IN
  /\ At(t, "lock")
  /\ \/ client[u] = "up" /\ End(t) /\ UNCHANGED lock
     \/ client[u] = "lost" /\ Goto(t, "drop") /\ lock' = [lock EXCEPT ![u] = t]
     \/ client[u] = "none" /\ CheckLimit(t, Owned)
  /\ UNCHANGED <<files, client, loop, stops>>

EnterStart(t) ==
  LET u == op[t].user IN
  /\ At(t, "lock") /\ lock[u] = Nobody
  /\ \/ client[u] = "up" /\ End(t) /\ UNCHANGED lock
     \/ client[u] = "lost" /\ Goto(t, "drop") /\ lock' = [lock EXCEPT ![u] = t]
     \/ client[u] = "none" /\ CheckLimit(t, Owned)
  /\ UNCHANGED <<files, client, loop, stops>>

DropOld(t) ==
  /\ At(t, "drop")
  /\ client' = [client EXCEPT ![op[t].user] = "none"]
  /\ CheckLimit(t, Owned \ {op[t].user})
  /\ UNCHANGED <<files, loop, stops>>

\* Mutation of Connected: the entry is made before the session is verified.
ConnectedUnverified(t) ==
  LET u == op[t].user IN
  /\ At(t, "connect")
  /\ client' = [client EXCEPT ![u] = session[u]]
  /\ Release(u) /\ End(t)
  /\ UNCHANGED <<files, loop, stops>>

Connected(t) ==
  LET u == op[t].user IN
  /\ At(t, "connect") /\ session[u] = "valid"
  /\ client' = [client EXCEPT ![u] = "up"]
  /\ Release(u) /\ End(t)
  /\ UNCHANGED <<files, loop, stops>>

\* The session is not authorized any more, or Telegram cannot be reached:
\* the new client is disconnected and the error raised again.
ConnectFails(t) ==
  /\ At(t, "connect")
  /\ \/ session[op[t].user] # "valid" /\ Raised(t, TRUE)
     \/ Raised(t, FALSE)
  /\ UNCHANGED <<files, client, loop, stops>>

-----------------------------------------------------------------------------
(* stop_user and its callers.                                              *)

\* Mutation of StopUser: stop_user does not wait for the lock.
StopUnlocked(t) ==
  LET u == op[t].user IN
  /\ client' = [client EXCEPT ![u] = "none"]
  /\ UNCHANGED <<lock, loop, stops>>

StopUser(t) ==
  LET u == op[t].user IN
  /\ lock[u] = Nobody
  /\ client' = [client EXCEPT ![u] = "none"]
  /\ UNCHANGED <<lock, loop, stops>>

Begin(h, u, pc) ==
  /\ ~booting /\ At(h, "idle")
  /\ op' = [op EXCEPT ![h] = [pc |-> pc, user |-> u]]
  /\ UNCHANGED <<files, client, lock, loop, stops>>

\* _finalize: the new session takes the place of the old one, the user is
\* flagged, and start_user follows.
Finalize(h, u) == Begin(h, u, "stopForLogin")

PromoteSession(h) ==
  /\ At(h, "stopForLogin") /\ StopUser(h)
  /\ session' = [session EXCEPT ![op[h].user] = "valid"]
  /\ Goto(h, "flag")
  /\ UNCHANGED flagged

FlagConnected(h) ==
  /\ At(h, "flag")
  /\ flagged' = flagged \cup {op[h].user}
  /\ Goto(h, "lock")
  /\ UNCHANGED <<session, client, lock, loop, stops>>

\* disconnect_telegram and /clear: the file is archived or deleted in the
\* step that stop_user ends with.
DisconnectTelegram(h, u) == Begin(h, u, "stop")

RemoveSession(h) ==
  /\ At(h, "stop") /\ StopUser(h)
  /\ session' = [session EXCEPT ![op[h].user] = "none"]
  /\ Goto(h, "unflag")
  /\ UNCHANGED flagged

UnflagUser(t) ==
  /\ At(t, "unflag")
  /\ flagged' = flagged \ {op[t].user}
  /\ End(t)
  /\ UNCHANGED <<session, client, lock, loop, stops>>

\* The task of a QR login is cancelled (its login expires, /clear) while it
\* is in start_user: nothing is entered in _clients.  (The new client is not
\* disconnected either, except Exception does not see the cancellation; a
\* client that no task and no entry refers to is not modelled.)
CancelLogin(h) ==
  LET u == op[h].user IN
  /\ op[h].pc \in Starting
  /\ End(h)
  /\ lock' = IF lock[u] = h THEN [lock EXCEPT ![u] = Nobody] ELSE lock
  /\ UNCHANGED <<files, client, loop, stops>>

-----------------------------------------------------------------------------
(* start_all_users and the rounds of maintenance.                          *)

\* A round starts with the users that are flagged when it reads them.
BeginRound ==
  /\ At(Service, "idle") /\ ~booting /\ todo = {}
  /\ todo' = flagged
  /\ UNCHANGED <<files, client, lock, op, booting, stops>>

\* Mutation of Visit: a round starts the users that have a client.
VisitServed(u) ==
  /\ At(Service, "idle") /\ u \in todo
  /\ todo' = todo \ {u}
  /\ op' = IF booting \/ client[u] # "none"
             THEN [op EXCEPT ![Service] = [pc |-> "lock", user |-> u]]
             ELSE op
  /\ UNCHANGED <<files, client, lock, booting, stops>>

\* The start visits every user, a round those that have no client.
Visit(u) ==
  /\ At(Service, "idle") /\ u \in todo
  /\ todo' = todo \ {u}
  /\ op' = IF booting \/ client[u] = "none"
             THEN [op EXCEPT ![Service] = [pc |-> "lock", user |-> u]]
             ELSE op
  /\ UNCHANGED <<files, client, lock, booting, stops>>

StartEnds ==
  /\ At(Service, "idle") /\ booting /\ todo = {}
  /\ booting' = FALSE
  /\ UNCHANGED <<files, client, lock, op, todo, stops>>

-----------------------------------------------------------------------------
(* What Telegram does, and stops of the process.                           *)

\* Telethon gives up reconnecting: the client stays in _clients.
ConnectionLost(u) ==
  /\ client[u] = "up"
  /\ client' = [client EXCEPT ![u] = "lost"]
  /\ UNCHANGED <<files, lock, op, loop, stops>>

\* The session is ended from another device.
SessionRevoked(u) ==
  /\ session[u] = "valid"
  /\ session' = [session EXCEPT ![u] = "revoked"]
  /\ client' = [client EXCEPT ![u] = IF @ = "up" THEN "lost" ELSE @]
  /\ UNCHANGED <<flagged, lock, op, loop, stops>>

\* The process stops, or crashes, and starts again.
Restart ==
  /\ stops < MaxStops /\ stops' = stops + 1
  /\ client' = [u \in Users |-> "none"]
  /\ lock' = [u \in Users |-> Nobody]
  /\ op' = [t \in Tasks |-> Idle]
  /\ todo' = flagged /\ booting' = TRUE
  /\ UNCHANGED files

Start(t) == EnterStart(t) \/ DropOld(t) \/ Connected(t) \/ ConnectFails(t)
HandlerStep(h) ==
  PromoteSession(h) \/ FlagConnected(h) \/ RemoveSession(h)
Loop == BeginRound \/ StartEnds \/ \E u \in Users : Visit(u)

Next ==
  \/ \E t \in Tasks : Start(t) \/ UnflagUser(t)
  \/ \E h \in Handlers : HandlerStep(h) \/ CancelLogin(h)
  \/ \E h \in Handlers, u \in Users : Finalize(h, u) \/ DisconnectTelegram(h, u)
  \/ Loop
  \/ \E u \in Users : ConnectionLost(u) \/ SessionRevoked(u)
  \/ Restart

Spec == Init /\ [][Next]_vars

\* A task inside start_user goes on (the others may wait for ever), a lock is
\* first come, first served, and Telegram does not refuse every attempt.
Fairness ==
  /\ WF_vars(Loop)
  /\ \A t \in Tasks : WF_vars(Start(t) \/ UnflagUser(t))
  /\ SF_vars(EnterStart(Service)) /\ SF_vars(Connected(Service))
FairSpec == Spec /\ Fairness

-----------------------------------------------------------------------------
(* Properties.                                                             *)

TypeOK ==
  /\ flagged \subseteq Users
  /\ session \in [Users -> {"none", "valid", "revoked"}]
  /\ client \in [Users -> {"none", "up", "lost"}]
  /\ lock \in [Users -> Tasks \cup {Nobody}]
  /\ op \in [Tasks -> Operation]
  /\ todo \subseteq Users /\ booting \in BOOLEAN
  /\ stops \in 0 .. MaxStops

\* client_manager.py:23: while a client of a user is being connected, no
\* other task connects one and _clients has none, whatever logins,
\* disconnections and rounds overlap.
OneClientEach ==
  \A t \in ConnectingTasks :
    /\ client[op[t].user] = "none"
    /\ \A s \in ConnectingTasks : op[s].user = op[t].user => s = t

\* The limit is read before the connection is made and no lock spans users,
\* so that it can be passed (client_manager.py:48), but never by more than
\* the tasks that connect at a time, less one.
LimitPassedByOverlapOnly ==
  Cardinality(Owned) + Cardinality(ConnectingTasks)
    <= MaxConnected - 1 + Cardinality(Tasks)

\* maintenance.py:14: a user who is flagged, has a valid session and no
\* client, and for whom there is room, does not stay without a client.
Unavailable(u) == u \in flagged /\ session[u] = "valid" /\ client[u] = "none"
UnavailableIsRetried ==
  \A u \in Users :
    []<>(~Unavailable(u) \/ Cardinality(Owned) >= MaxConnected)

\* client_manager.py:23 and the callers that move or delete session files: the
\* steps of all tasks, as far as files, clients and attempts show them, are
\* steps of ClientTable.
Table == INSTANCE ClientTable
  WITH file <- session, entry <- client, connecting <- BeingConnected
TableSpec == Table!Safety

-----------------------------------------------------------------------------
\* The strengthening that makes OneClientEach inductive: what start_user does
\* between its awaits it does under the lock of the user, so that the client
\* it found lost is still lost when it is dropped.
StartingHoldsLock ==
  \A t \in Tasks :
    /\ op[t].pc \in {"drop", "connect"} => lock[op[t].user] = t
    /\ At(t, "drop") => client[op[t].user] = "lost"
    /\ At(t, "connect") => client[op[t].user] = "none"

StartInv == TypeOK /\ StartingHoldsLock

=============================================================================
