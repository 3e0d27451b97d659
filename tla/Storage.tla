------------------------------ MODULE Storage ------------------------------
(***************************************************************************)
(* The Google Drive connections of one user: complete of                   *)
(* src/app/oauth_service.py, disconnect_google of src/app/web.py, /remote  *)
(* and /clear of src/app/bot_service.py and the storage check of           *)
(* src/app/main.py, over two stores that no transaction joins, the rclone  *)
(* configuration file of the user and the tables of src/app/database.py.   *)
(*                                                                         *)
(* Connecting holds the user's lock of GoogleOAuthService; the other       *)
(* handlers take none.  An action is one rclone command or one statement   *)
(* with the code up to the next await; rclone reads and rewrites its file  *)
(* in one step.  The names base, base_02, base_03... are the slots         *)
(* 1, 2, 3...  A Google account stands for its subject and its email.      *)
(***************************************************************************)
EXTENDS Integers, FiniteSets

CONSTANTS
  Accounts,    \* Google accounts the user may choose
  NoAccount,   \* no such row, no such section of the file
  Limit,       \* settings.multy_rclone_count
  Handlers,    \* requests and commands of the user that run at a time
  Nobody,      \* the lock is free
  MaxGrants,   \* bound: oauth_states rows that can be claimed at a time
  MaxStops     \* bound: stops of the process

ASSUME StorageAssumption ==
  /\ NoAccount \notin Accounts
  /\ Limit \in Nat \ {0}
  /\ Nobody \notin Handlers
  /\ MaxGrants \in Nat /\ MaxStops \in Nat

VARIABLES
  config,      \* the remotes of the rclone file; all NoAccount: no file
  rows,        \* storage_connections
  selected,    \* users.selected_remote, 0 for NULL
  storage,     \* users.storage_connected
  grants,      \* oauth_states rows that are neither used nor expired
  lock,        \* holder of _user_locks[user_id]
  op,          \* the handlers
  undisturbed, \* history: handlers ran one by one, no step failed half-way
  stops        \* counter of the bound

vars == <<config, rows, selected, storage, grants, lock, op, undisturbed,
          stops>>
data == <<config, rows, selected, storage, grants>>
users == <<selected, storage>>

Slots == 1 .. (Limit + 1)
Table == [Slots -> Accounts \cup {NoAccount}]
EmptyTable == [s \in Slots |-> NoAccount]
Named(t) == {s \in Slots : t[s] # NoAccount}

\* Where complete stands once it has the lock, and the whole of a handler.
Connecting == {"name", "create", "verify", "insert", "select"}
Removing == {"remove", "list", "unlink"}
Other == {"idle", "lock", "deleteRow", "readRemaining", "write", "choose",
          "clearFiles", "clearRows"}
Operation == [pc : Connecting \cup Removing \cup Other, slot : {0} \cup Slots,
              acct : Accounts \cup {NoAccount}, seen : {0} \cup Slots,
              left : SUBSET Slots]
Idle == [pc |-> "idle", slot |-> 0, acct |-> NoAccount, seen |-> 0, left |-> {}]

At(h, pc) == op[h].pc = pc
Goto(h, pc) == op' = [op EXCEPT ![h].pc = pc]
AtRest == \A h \in Handlers : At(h, "idle")

Init ==
  /\ config = EmptyTable /\ rows = EmptyTable
  /\ selected = 0 /\ storage = FALSE /\ grants = 0
  /\ lock = Nobody /\ op = [h \in Handlers |-> Idle]
  /\ undisturbed = TRUE /\ stops = 0

\* A handler starts on o; from here on it may overlap with another one.
Begin(h, o) ==
  /\ At(h, "idle")
  /\ op' = [op EXCEPT ![h] = o]
  /\ undisturbed' = (undisturbed /\ AtRest)
  /\ UNCHANGED <<lock, stops>>

\* A handler returns or raises; leaving the async with releases the lock.
End(h) ==
  /\ op' = [op EXCEPT ![h] = Idle]
  /\ lock' = IF lock = h THEN Nobody ELSE lock

-----------------------------------------------------------------------------
(* Connecting: authorization_url and complete.                             *)

\* _require_current_drive_permissions: every connection has its remote.
CurrentPermissions == Named(rows) \subseteq Named(config)

MayConnect == CurrentPermissions /\ Cardinality(Named(rows)) < Limit

AuthorizationUrl ==
  /\ MayConnect /\ grants < MaxGrants
  /\ grants' = grants + 1
  /\ UNCHANGED <<config, rows, users, lock, op, undisturbed, stops>>

\* cleanup_expired, or a claim whose exchange of the code or identity fails.
GrantIsLost ==
  /\ grants > 0 /\ grants' = grants - 1
  /\ UNCHANGED <<config, rows, users, lock, op, undisturbed, stops>>

\* The callback claims its state and learns the account a.
Claim(h, a) ==
  /\ grants > 0 /\ grants' = grants - 1
  /\ Begin(h, [Idle EXCEPT !.pc = "lock", !.acct = a])
  /\ UNCHANGED <<config, rows, users>>

\* Mutation of Enter: the lock of the user is not awaited.
EnterUnlocked(h) ==
  /\ At(h, "lock")
  /\ IF MayConnect /\ \A s \in Slots : rows[s] # op[h].acct
       THEN lock' = h /\ Goto(h, "name")
       ELSE End(h)
  /\ UNCHANGED <<data, undisturbed, stops>>

\* The lock is acquired and the rows are checked under it.
Enter(h) ==
  /\ At(h, "lock") /\ lock = Nobody
  /\ IF MayConnect /\ \A s \in Slots : rows[s] # op[h].acct
       THEN lock' = h /\ Goto(h, "name")
       ELSE End(h)
  /\ UNCHANGED <<data, undisturbed, stops>>

\* Mutation of NextRemoteName: the numbering goes on one name too far.
NextNamePastLimit(h) ==
  /\ At(h, "name")
  /\ op' = [op EXCEPT ![h].pc = "create",
                      ![h].slot = Cardinality(Named(config)) + 2]
  /\ UNCHANGED <<data, lock, undisturbed, stops>>

\* _next_remote_name: the first name that the file does not have.
NextRemoteName(h) ==
  /\ At(h, "name")
  /\ \/ \E s \in Slots \ Named(config) :
          /\ \A t \in Slots \ Named(config) : s <= t
          /\ op' = [op EXCEPT ![h].pc = "create", ![h].slot = s]
          /\ UNCHANGED lock
     \/ Named(config) # {} /\ End(h)        \* no name is left, or rclone fails
  /\ UNCHANGED <<data, undisturbed, stops>>

\* rclone config create.  A failure of it, or of the check that follows it,
\* leaves complete with created still False: what was written stays.
CreateGoogleDrive(h) ==
  LET written == [config EXCEPT ![op[h].slot] = op[h].acct] IN
  /\ At(h, "create")
  /\ \/ /\ config[op[h].slot] = NoAccount
        /\ config' = written /\ Goto(h, "verify")
        /\ UNCHANGED <<lock, undisturbed>>
     \/ /\ config[op[h].slot] = NoAccount
        /\ config' = written /\ End(h) /\ undisturbed' = FALSE
     \/ UNCHANGED <<config, undisturbed>> /\ End(h)
  /\ UNCHANGED <<rows, users, grants, stops>>

\* Mutation of VerifyConnection: a remote that does not verify is kept.
VerifyKeepsRemote(h) ==
  /\ At(h, "verify")
  /\ \/ Goto(h, "insert") /\ UNCHANGED lock
     \/ End(h)
  /\ UNCHANGED <<data, undisturbed, stops>>

VerifyConnection(h) ==
  /\ At(h, "verify")
  /\ \/ config[op[h].slot] # NoAccount /\ Goto(h, "insert")
     \/ Goto(h, "remove")
  /\ UNCHANGED <<data, lock, undisturbed, stops>>

\* Mutation of InsertConnection: a remote whose row is refused is kept.
InsertKeepsRemote(h) ==
  /\ At(h, "insert")
  /\ IF rows[op[h].slot] = NoAccount /\ \A s \in Slots : rows[s] # op[h].acct
       THEN /\ rows' = [rows EXCEPT ![op[h].slot] = op[h].acct]
            /\ Goto(h, "select") /\ UNCHANGED lock
       ELSE UNCHANGED rows /\ End(h)
  /\ UNCHANGED <<config, users, grants, undisturbed, stops>>

\* The unique indexes are on the name and on the account.
InsertConnection(h) ==
  /\ At(h, "insert")
  /\ IF rows[op[h].slot] = NoAccount /\ \A s \in Slots : rows[s] # op[h].acct
       THEN /\ rows' = [rows EXCEPT ![op[h].slot] = op[h].acct]
            /\ Goto(h, "select")
       ELSE UNCHANGED rows /\ Goto(h, "remove")
  /\ UNCHANGED <<config, users, grants, lock, undisturbed, stops>>

SelectRemote(h) ==
  /\ At(h, "select")
  /\ selected' = op[h].slot /\ storage' = TRUE
  /\ End(h)
  /\ UNCHANGED <<config, rows, grants, undisturbed, stops>>

-----------------------------------------------------------------------------
(* disconnect_storage, for a connection that did not verify (its handler   *)
(* has the lock) and for a request to disconnect.                          *)

Removed(h) == IF lock = h THEN End(h) ELSE Goto(h, "deleteRow") /\ UNCHANGED lock

\* rclone config delete; nothing to do when there is no such remote.  When
\* rclone fails the request ends with 409 and the connection stays.
RemoveRemote(h) ==
  /\ At(h, "remove")
  /\ \/ /\ config[op[h].slot] = NoAccount
        /\ UNCHANGED <<config, undisturbed>> /\ Removed(h)
     \/ /\ config[op[h].slot] # NoAccount
        /\ config' = [config EXCEPT ![op[h].slot] = NoAccount]
        /\ Goto(h, "list") /\ UNCHANGED <<lock, undisturbed>>
     \/ /\ Named(config) # {}
        /\ UNCHANGED config /\ End(h)
        /\ undisturbed' = (undisturbed /\ lock # h)
  /\ UNCHANGED <<rows, users, grants, stops>>

\* Is a remote left?  This listing may fail too, with the remote gone.
ListAfterRemoval(h) ==
  /\ At(h, "list")
  /\ \/ Named(config) = {} /\ Goto(h, "unlink") /\ UNCHANGED <<lock, undisturbed>>
     \/ Named(config) # {} /\ Removed(h) /\ UNCHANGED undisturbed
     \/ End(h) /\ undisturbed' = (undisturbed /\ lock = h)
  /\ UNCHANGED <<data, stops>>

\* The listing was empty: the file goes, with what was written to it since.
UnlinkConfig(h) ==
  /\ At(h, "unlink")
  /\ config' = EmptyTable /\ Removed(h)
  /\ UNCHANGED <<rows, users, grants, undisturbed, stops>>

-----------------------------------------------------------------------------
(* disconnect_google, /remote and /clear.                                  *)

\* The user row is read with the session: seen is its selected_remote.
Disconnect(h, s) ==
  /\ rows[s] # NoAccount
  /\ Begin(h, [Idle EXCEPT !.pc = "remove", !.slot = s, !.seen = selected])
  /\ UNCHANGED data

DeleteConnection(h) ==
  /\ At(h, "deleteRow")
  /\ rows' = [rows EXCEPT ![op[h].slot] = NoAccount]
  /\ Goto(h, "readRemaining")
  /\ UNCHANGED <<config, users, grants, lock, undisturbed, stops>>

ReadRemaining(h) ==
  /\ At(h, "readRemaining")
  /\ op' = [op EXCEPT ![h].pc = "write", ![h].left = Named(rows)]
  /\ UNCHANGED <<data, lock, undisturbed, stops>>

\* The remote that was selected if it remains, else one that remains (the
\* oldest in the code, any here), else none.
WriteUser(h) ==
  /\ At(h, "write")
  /\ selected' \in IF op[h].seen \in op[h].left THEN {op[h].seen}
                   ELSE IF op[h].left # {} THEN op[h].left ELSE {0}
  /\ storage' = (op[h].left # {})
  /\ End(h)
  /\ UNCHANGED <<config, rows, grants, undisturbed, stops>>

\* /remote: the name is looked up in the file, then written.
ChooseRemote(h, s) ==
  /\ config[s] # NoAccount
  /\ Begin(h, [Idle EXCEPT !.pc = "choose", !.slot = s])
  /\ UNCHANGED data

WriteChoice(h) ==
  /\ At(h, "choose")
  /\ selected' = op[h].slot
  /\ End(h)
  /\ UNCHANGED <<config, rows, storage, grants, undisturbed, stops>>

ClearUser(h) ==
  /\ Begin(h, [Idle EXCEPT !.pc = "clearFiles"])
  /\ UNCHANGED data

ClearFiles(h) ==
  /\ At(h, "clearFiles")
  /\ config' = EmptyTable /\ Goto(h, "clearRows")
  /\ UNCHANGED <<rows, users, grants, lock, undisturbed, stops>>

ClearRows(h) ==
  /\ At(h, "clearRows")
  /\ rows' = EmptyTable /\ selected' = 0 /\ storage' = FALSE /\ grants' = 0
  /\ End(h)
  /\ UNCHANGED <<config, undisturbed, stops>>

-----------------------------------------------------------------------------
\* The process stops and starts again: what was at work is lost.  For a user
\* with a Telegram session the start lists the remotes and takes a failure
\* or an empty list for a lost storage.
Restart ==
  /\ stops < MaxStops /\ stops' = stops + 1
  /\ op' = [h \in Handlers |-> Idle] /\ lock' = Nobody
  /\ storage' \in {storage, FALSE}
  /\ undisturbed' = (undisturbed /\ AtRest /\ storage' = storage)
  /\ UNCHANGED <<config, rows, selected, grants>>

Step(h) ==
  \/ Enter(h) \/ NextRemoteName(h) \/ CreateGoogleDrive(h)
  \/ VerifyConnection(h) \/ InsertConnection(h) \/ SelectRemote(h)
  \/ RemoveRemote(h) \/ ListAfterRemoval(h) \/ UnlinkConfig(h)
  \/ DeleteConnection(h) \/ ReadRemaining(h) \/ WriteUser(h)
  \/ WriteChoice(h) \/ ClearFiles(h) \/ ClearRows(h)

Request(h) ==
  \/ \E a \in Accounts : Claim(h, a)
  \/ \E s \in Slots : Disconnect(h, s) \/ ChooseRemote(h, s)
  \/ ClearUser(h)

Next ==
  \/ AuthorizationUrl \/ GrantIsLost \/ Restart
  \/ \E h \in Handlers : Request(h) \/ Step(h)

Spec == Init /\ [][Next]_vars

-----------------------------------------------------------------------------
(* Properties.                                                             *)

TypeOK ==
  /\ config \in Table /\ rows \in Table
  /\ selected \in {0} \cup Slots /\ storage \in BOOLEAN
  /\ grants \in 0 .. MaxGrants
  /\ lock \in Handlers \cup {Nobody}
  /\ op \in [Handlers -> Operation]
  /\ undisturbed \in BOOLEAN /\ stops \in 0 .. MaxStops

\* The user never has more connections than multy_rclone_count, whatever
\* callbacks, disconnections and clears overlap: the count that complete
\* checks is of rows that only the holder of the lock adds to
\* (oauth_service.py:118-138).
ConnectionLimit == Cardinality(Named(rows)) <= Limit

\* When handlers have run one at a time and none of them failed half-way,
\* the file, the rows and the user row agree whenever nothing is at work:
\* the rows are the remotes of the file, a remote is selected exactly when
\* there is one, and it is one of them (README.md:769, "Removing a Drive
\* selects another connected remote when available.").  So every disagreement
\* that users see comes from an overlap or from a partial failure.
Agree ==
  /\ config = rows
  /\ selected \in (IF Named(rows) = {} THEN {0} ELSE Named(rows))
  /\ storage = (Named(rows) # {})
OneByOneTheyAgree == undisturbed /\ AtRest => Agree

\* A disconnection takes the remote away before its row and waits for no lock,
\* so a callback can take up the name in between: the row names one account,
\* and files go to another.  The unique index on the name ends that
\* (oauth_service.py:183), whatever else overlaps: such a pair stays behind only
\* when the callback's last rclone command failed, or the process stopped.
Mixed(s) == rows[s] # NoAccount /\ config[s] \notin {NoAccount, rows[s]}
Settling(s) == lock # Nobody /\ op[lock].slot = s
LeftMixed(s) == Mixed(s) /\ ~Settling(s)
MixedByFailure ==
  \A s \in Slots : LeftMixed(s)' /\ ~LeftMixed(s) =>
    \/ stops' # stops
    \/ Settling(s) /\ op[lock].pc \in {"create", "remove"}
MixedByFailureOnly == [][MixedByFailure]_vars

-----------------------------------------------------------------------------
(* The strengthenings that make the invariants inductive.                  *)

\* Only the holder of the lock connects, and the lock has a holder at work.
ConnectingHoldsLock ==
  /\ \A h \in Handlers : op[h].pc \in Connecting => lock = h
  /\ lock # Nobody => op[lock].pc \in Connecting \cup Removing

\* The count that complete has checked is still right when it inserts.
ConnectingHasRoom ==
  \A h \in Handlers :
    op[h].pc \in Connecting \ {"select"} => Cardinality(Named(rows)) < Limit

LimitInv ==
  TypeOK /\ ConnectingHoldsLock /\ ConnectingHasRoom /\ ConnectionLimit

\* How the two stores and the user row stand when handler h alone is at work.
UserAgrees ==
  /\ selected \in (IF Named(rows) = {} THEN {0} ELSE Named(rows))
  /\ storage = (Named(rows) # {})
Without(t, s) == [t EXCEPT ![s] = NoAccount]
Adding(o) ==                \* o's account is not yet in the rows
  o.slot \in Slots /\ o.acct \in Accounts /\ \A s \in Slots : rows[s] # o.acct
Added(o) ==                 \* o's remote is in the file, its row is to come
  /\ Adding(o) /\ rows[o.slot] = NoAccount
  /\ config = [rows EXCEPT ![o.slot] = o.acct] /\ UserAgrees
Leaving(o) ==               \* o's row is still there
  /\ o.slot \in Slots /\ rows[o.slot] # NoAccount
  /\ o.seen = selected /\ UserAgrees

Alone(o, locked) ==
  /\ o.pc \in {"lock", "name", "create", "choose", "clearFiles"} => Agree
  /\ o.pc \in {"lock", "name"} => o.acct \in Accounts
  /\ o.pc = "name" => \A s \in Slots : rows[s] # o.acct
  /\ o.pc = "create" => Adding(o)
  /\ o.pc \in {"verify", "insert"} => Added(o)
  /\ o.pc = "remove" /\ locked => Added(o)
  /\ o.pc = "select" => config = rows /\ o.slot \in Named(rows)
  /\ o.pc \in {"list", "unlink"} /\ locked => Agree
  /\ o.pc = "remove" /\ ~locked => Agree /\ Leaving(o)
  /\ o.pc = "deleteRow" \/ (o.pc \in {"list", "unlink"} /\ ~locked) =>
       Leaving(o) /\ config = Without(rows, o.slot)
  /\ o.pc \in {"unlink", "clearRows"} => config = EmptyTable
  /\ o.pc \in {"readRemaining", "write"} => config = rows
  /\ o.pc = "write" => o.left = Named(rows)
  /\ o.pc = "choose" => o.slot \in Named(rows)

OneAtATime ==
  undisturbed =>
    /\ AtRest => Agree
    /\ \A h \in Handlers : ~At(h, "idle") =>
         /\ Alone(op[h], lock = h)
         /\ \A g \in Handlers \ {h} : At(g, "idle")

AgreeInv == TypeOK /\ ConnectingHoldsLock /\ OneAtATime

\* What the holder of the lock, standing at o, knows of the slot it has named.
HoldsSlot(o) ==
  /\ IF o.pc = "name" THEN o.slot = 0 ELSE o.slot \in Slots
  /\ o.pc \in {"create", "list", "unlink"} => config[o.slot] = NoAccount
  /\ o.pc \in {"verify", "insert", "select"} =>
       config[o.slot] \in {NoAccount, o.acct}
  /\ o.pc = "select" => rows[o.slot] \in {NoAccount, o.acct}

SlotInv ==
  /\ TypeOK /\ ConnectingHoldsLock
  /\ \A h \in Handlers : At(h, "lock") => op[h].slot = 0
  /\ lock # Nobody => HoldsSlot(op[lock])

=============================================================================
