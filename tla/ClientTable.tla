---------------------------- MODULE ClientTable ----------------------------
(***************************************************************************)
(* What TelegramClientManager promises its callers, without locks, tasks   *)
(* or flags: "exactly one long-running Telethon client per connected user" *)
(* (src/app/client_manager.py:23).  A connection is attempted only for a   *)
(* user without a client, one attempt at a time and on a session file that *)
(* is there; and the file is replaced or removed only while no client of   *)
(* the user is entered or being connected on it.                           *)
(***************************************************************************)
CONSTANT Users

VARIABLES
  file,       \* the user's session file: "none", "valid" or "revoked"
  entry,      \* the user's client: "none", "up" or "lost"
  connecting  \* users for whom a client is being connected

table == <<file, entry, connecting>>

Init ==
  /\ file \in [Users -> {"none", "valid", "revoked"}]
  /\ entry = [u \in Users |-> "none"]
  /\ connecting = {}

\* A lost client makes room for the attempt.
Attempt(u) ==
  /\ u \notin connecting /\ entry[u] # "up" /\ file[u] # "none"
  /\ entry' = [entry EXCEPT ![u] = "none"]
  /\ connecting' = connecting \cup {u}
  /\ UNCHANGED file

Succeed(u) ==
  /\ u \in connecting /\ entry[u] = "none" /\ file[u] = "valid"
  /\ entry' = [entry EXCEPT ![u] = "up"]
  /\ connecting' = connecting \ {u}
  /\ UNCHANGED file

GiveUp(u) ==
  /\ u \in connecting
  /\ connecting' = connecting \ {u}
  /\ UNCHANGED <<file, entry>>

\* A lost client goes, and no attempt is made.
Forget(u) ==
  /\ u \notin connecting /\ entry[u] = "lost"
  /\ entry' = [entry EXCEPT ![u] = "none"]
  /\ UNCHANGED <<file, connecting>>

\* A login brings a new file, a disconnection or a clear removes it.
Exchange(u, new) ==
  /\ u \notin connecting
  /\ entry' = [entry EXCEPT ![u] = "none"]
  /\ file' = [file EXCEPT ![u] = new]
  /\ UNCHANGED connecting

Lose(u) ==
  /\ entry[u] = "up"
  /\ entry' = [entry EXCEPT ![u] = "lost"]
  /\ UNCHANGED <<file, connecting>>

Revoke(u) ==
  /\ file[u] = "valid"
  /\ file' = [file EXCEPT ![u] = "revoked"]
  /\ entry' = [entry EXCEPT ![u] = IF @ = "up" THEN "lost" ELSE @]
  /\ UNCHANGED connecting

StopAll ==
  /\ entry' = [u \in Users |-> "none"]
  /\ connecting' = {}
  /\ UNCHANGED file

Next ==
  \/ StopAll
  \/ \E u \in Users :
       \/ Attempt(u) \/ Succeed(u) \/ GiveUp(u) \/ Forget(u) \/ Lose(u)
       \/ Revoke(u) \/ \E new \in {"none", "valid"} : Exchange(u, new)

Safety == Init /\ [][Next]_table
=============================================================================
