------------------------------- MODULE Access -------------------------------
(***************************************************************************)
(* The setup links of one user: /connect of src/app/bot_service.py and the *)
(* two windows of src/app/security.py that it passes, the exchange of a    *)
(* link for a web session of src/app/web.py, and what /clear and           *)
(* cleanup_expired of src/app/database.py take away.                       *)
(*                                                                         *)
(* Commands and requests run side by side; an action is one statement, or  *)
(* one transaction, with the code up to the next await.  A row that is     *)
(* used, expired or deleted opens nothing, and counts as used.  Time       *)
(* matters to the limiter alone and goes in ticks, several to a second.    *)
(***************************************************************************)
EXTENDS Integers, FiniteSets

CONSTANTS
  Links,       \* bound: /connect commands, each with the link it may draw
  NoLink,
  Handlers,    \* commands and requests of the user that run at a time
  Limit,       \* uses of /connect that each window admits
  Window,      \* length of each window, in ticks
  Second,      \* ticks of a second
  MaxTime,     \* bound: ticks
  MaxStops     \* bound: stops of the process

\* The actions that _handle_command checks, one for every command and then one
\* for /connect alone.
Outer == "bot:/connect"
Inner == "connect"
Windows == {Outer, Inner}

ASSUME AccessAssumption ==
  /\ IsFiniteSet(Links) /\ NoLink \notin Links /\ IsFiniteSet(Handlers)
  /\ Limit \in [Windows -> Nat \ {0}] /\ Window \in [Windows -> Nat \ {0}]
  /\ Second \in Nat \ {0}
  /\ MaxTime \in Nat \ {0} /\ MaxStops \in Nat

VARIABLES
  now,        \* time.monotonic()
  link,       \* onboarding_tokens: no command yet, a command that has not
              \* inserted it, unused or used
  sessions,   \* links whose row of web_sessions is valid
  events,     \* the deques of (window, user): the commands of their entries
  usedAt,     \* when a window made the entry of a command, 0 before
  op,         \* the handlers
  retry,      \* history: when a user whom a window refused was told to come
              \* back, 0 if not
  opened,     \* history: sessions opened from a link
  old,        \* history: links that had a row when the account was cleared
  survivors,  \* history: links that were being exchanged at that time
  stops       \* counter of the bound

vars == <<now, link, sessions, events, usedAt, op, retry, opened, old,
          survivors, stops>>
limiter == <<events, usedAt, retry>>
tokens == <<link, sessions, opened>>
history == <<old, survivors>>

Times == 0 .. MaxTime
LinkStates == {"fresh", "drawn", "unused", "used"}
Idle == [pc |-> "idle", link |-> NoLink]
At(h, pc) == op[h].pc = pc
Unused == {l \in Links : link[l] = "unused"}
Inserting == {h \in Handlers : At(h, "insert")}
Exchanging == {l \in Links : \E h \in Handlers :
                 At(h, "openSession") /\ op[h].link = l}

Init ==
  /\ now = 1
  /\ link = [l \in Links |-> "fresh"] /\ sessions = {}
  /\ events = [w \in Windows |-> {}]
  /\ usedAt = [w \in Windows |-> [l \in Links |-> 0]]
  /\ op = [h \in Handlers |-> Idle]
  /\ retry = [w \in Windows |-> 0] /\ opened = [l \in Links |-> 0]
  /\ old = {} /\ survivors = {} /\ stops = 0

-----------------------------------------------------------------------------
(* RateLimiter.check.                                                      *)

\* What is left of a deque when the entries that are over are gone.
Recent(w) == {l \in events[w] : usedAt[w][l] > now - Window[w]}

\* Mutation of Admitted: one more use than the limit.
AdmittedOneMore(w) == Cardinality(Recent(w)) <= Limit[w]

Admitted(w) == Cardinality(Recent(w)) < Limit[w]

\* Mutation of RetryAfter: the seconds are rounded down.
RetryRoundedDown(w, first) ==
  LET seconds == (Window[w] - (now - usedAt[w][first])) \div Second
  IN  IF seconds < 1 THEN 1 ELSE seconds

\* Whole seconds until the first entry is over.
RetryAfter(w, first) ==
  LET seconds == (Window[w] - (now - usedAt[w][first])) \div Second + 1
  IN  IF seconds < 1 THEN 1 ELSE seconds

Admit(w, l) ==
  /\ Admitted(w)
  /\ events' = [events EXCEPT ![w] = Recent(w) \cup {l}]
  /\ usedAt' = [usedAt EXCEPT ![w][l] = now]
  /\ retry' = [retry EXCEPT ![w] = 0]

\* The user is told when to come back; what an earlier refusal said counts
\* as well, until this window admits a command.
Refuse(w) ==
  /\ ~Admitted(w)
  /\ events' = [events EXCEPT ![w] = Recent(w)]
  /\ \E first \in Recent(w) :
       /\ \A l \in Recent(w) : usedAt[w][first] <= usedAt[w][l]
       /\ \E t \in {retry[w], now + RetryAfter(w, first) * Second} \ {0} :
            retry' = [retry EXCEPT ![w] = t]
  /\ UNCHANGED usedAt

-----------------------------------------------------------------------------
(* /connect.                                                               *)

\* A command arrives and passes the window that every command passes.
Command(h, l) ==
  /\ At(h, "idle") /\ link[l] = "fresh"
  /\ Admit(Outer, l)
  /\ link' = [link EXCEPT ![l] = "drawn"]
  /\ op' = [op EXCEPT ![h] = [pc |-> "asked", link |-> l]]
  /\ UNCHANGED <<now, sessions, opened, history, stops>>

RefuseCommand ==
  /\ Refuse(Outer)
  /\ UNCHANGED <<now, tokens, op, history, stops>>

\* The user is not known, or was blocked meanwhile.
CommandEnds(h) ==
  /\ At(h, "asked")
  /\ op' = [op EXCEPT ![h] = Idle]
  /\ UNCHANGED <<now, tokens, limiter, history, stops>>

\* The window of /connect itself, some awaits after the first.
Connect(h) ==
  /\ At(h, "asked")
  /\ Admit(Inner, op[h].link)
  /\ op' = [op EXCEPT ![h].pc = "revoke"]
  /\ UNCHANGED <<now, tokens, history, stops>>

\* The use that the first window recorded stays there.
RefuseConnect(h) ==
  /\ At(h, "asked")
  /\ Refuse(Inner)
  /\ op' = [op EXCEPT ![h] = Idle]
  /\ UNCHANGED <<now, tokens, history, stops>>

\* Mutation of RevokeOlder: the links that are unused stay so.
RevokeNone(h) ==
  /\ At(h, "revoke")
  /\ op' = [op EXCEPT ![h].pc = "insert"]
  /\ UNCHANGED <<now, tokens, limiter, history, stops>>

RevokeOlder(h) ==
  /\ At(h, "revoke")
  /\ link' = [l \in Links |-> IF l \in Unused THEN "used" ELSE link[l]]
  /\ op' = [op EXCEPT ![h].pc = "insert"]
  /\ UNCHANGED <<now, sessions, opened, limiter, history, stops>>

InsertLink(h) ==
  /\ At(h, "insert")
  /\ link' = [link EXCEPT ![op[h].link] = "unused"]
  /\ op' = [op EXCEPT ![h] = Idle]
  /\ UNCHANGED <<now, sessions, opened, limiter, history, stops>>

-----------------------------------------------------------------------------
(* The exchange of a link for a session.                                   *)

\* Mutation of ClaimLink: the link is looked up and not marked.
ReadLink(h, l) ==
  /\ At(h, "idle") /\ l \in Unused
  /\ op' = [op EXCEPT ![h] = [pc |-> "openSession", link |-> l]]
  /\ UNCHANGED <<now, tokens, limiter, history, stops>>

\* Mutation of ClaimLink: the request does not keep what it has claimed.
ClaimForgetsLink(h, l) ==
  /\ At(h, "idle") /\ l \in Unused
  /\ link' = [link EXCEPT ![l] = "used"]
  /\ op' = [op EXCEPT ![h].pc = "openSession"]
  /\ UNCHANGED <<now, sessions, opened, limiter, history, stops>>

\* claim_onboarding_token, one transaction.
ClaimLink(h, l) ==
  /\ At(h, "idle") /\ l \in Unused
  /\ link' = [link EXCEPT ![l] = "used"]
  /\ op' = [op EXCEPT ![h] = [pc |-> "openSession", link |-> l]]
  /\ UNCHANGED <<now, sessions, opened, limiter, history, stops>>

OpenSession(h) ==
  /\ At(h, "openSession")
  /\ sessions' = sessions \cup {op[h].link}
  /\ opened' = [opened EXCEPT ![op[h].link] = @ + 1]
  /\ op' = [op EXCEPT ![h] = Idle]
  /\ UNCHANGED <<now, link, limiter, history, stops>>

-----------------------------------------------------------------------------
(* What ends links and sessions, time, and stops of the process.           *)

\* The time of a link, or of a session, is over.
LinkExpires(l) ==
  /\ l \in Unused
  /\ link' = [link EXCEPT ![l] = "used"]
  /\ UNCHANGED <<now, sessions, opened, limiter, op, history, stops>>

SessionExpires(l) ==
  /\ l \in sessions
  /\ sessions' = sessions \ {l}
  /\ UNCHANGED <<now, link, opened, limiter, op, history, stops>>

\* Mutation of ClearRows: the rows of onboarding_tokens stay.
ClearKeepsLinks ==
  /\ sessions' = {}
  /\ old' = {l \in Links : link[l] \in {"unused", "used"}}
  /\ survivors' = Exchanging
  /\ UNCHANGED <<now, link, opened, limiter, op, stops>>

\* clear_user_access, one transaction: /clear and /block.
ClearRows ==
  /\ link' = [l \in Links |-> IF l \in Unused THEN "used" ELSE link[l]]
  /\ sessions' = {}
  /\ old' = {l \in Links : link[l] \in {"unused", "used"}}
  /\ survivors' = Exchanging
  /\ UNCHANGED <<now, opened, limiter, op, stops>>

Tick ==
  /\ now < MaxTime /\ now' = now + 1
  /\ UNCHANGED <<tokens, limiter, op, history, stops>>

\* The windows are in memory; what handlers had begun is not taken up again.
Restart ==
  /\ stops < MaxStops /\ stops' = stops + 1
  /\ events' = [w \in Windows |-> {}]
  /\ usedAt' = [w \in Windows |-> [l \in Links |-> 0]]
  /\ retry' = [w \in Windows |-> 0]
  /\ op' = [h \in Handlers |-> Idle]
  /\ UNCHANGED <<now, tokens, history>>

Next ==
  \/ \E h \in Handlers, l \in Links : Command(h, l) \/ ClaimLink(h, l)
  \/ \E h \in Handlers : \/ Connect(h) \/ RefuseConnect(h) \/ CommandEnds(h)
                         \/ RevokeOlder(h) \/ InsertLink(h) \/ OpenSession(h)
  \/ \E l \in Links : LinkExpires(l) \/ SessionExpires(l)
  \/ RefuseCommand \/ ClearRows \/ Tick \/ Restart

Spec == Init /\ [][Next]_vars

-----------------------------------------------------------------------------
(* Properties.                                                             *)

TypeOK ==
  /\ now \in 1 .. MaxTime
  /\ link \in [Links -> LinkStates] /\ sessions \subseteq Links
  /\ events \in [Windows -> SUBSET Links]
  /\ usedAt \in [Windows -> [Links -> Times]]
  /\ op \in [Handlers ->
              [pc : {"idle", "asked", "revoke", "insert", "openSession"},
               link : Links \cup {NoLink}]]
  /\ \A h \in Handlers : ~At(h, "idle") => op[h].link \in Links
  /\ retry \in [Windows -> Nat] /\ opened \in [Links -> Nat]
  /\ old \subseteq Links /\ survivors \subseteq Links
  /\ stops \in 0 .. MaxStops

\* README.md:725, "Setup links are single-use and expire.": whatever requests
\* arrive together, and whatever a stop leaves half done, a link opens one
\* session at most.
LinkOpensOneSession == \A l \in Links : opened[l] <= 1

\* bot_service.py:206, "Only the newest unused setup link should remain
\* valid.": the links are revoked and the new one inserted in two statements,
\* so that more than one remains, but not more than commands overlapped.
LinksLeftByOverlapOnly ==
  Cardinality(Unused) + Cardinality(Inserting) <= Cardinality(Handlers)

\* README.md:211, /clear removes the setup sessions: a session is later open
\* from a link of that time only if the link was being exchanged just then.
ClearEndsSessions == old \cap sessions \subseteq survivors

\* No span of a window's length, wherever it lies, admits more commands than
\* the limit of the window (security.py:37), as long as the process runs.
WindowHolds ==
  \A w \in Windows, t \in Times :
    Cardinality({l \in Links : /\ usedAt[w][l] # 0
                               /\ usedAt[w][l] > t - Window[w]
                               /\ usedAt[w][l] <= t}) <= Limit[w]

\* A user who comes back when a window's refusal said (security.py:38), to the
\* second, is not refused by that window again, unless it recorded another use
\* since: the wait is rounded up, never down.  The other window knows nothing
\* of it and can refuse the user just then.
RetryAfterSuffices ==
  \A w \in Windows : retry[w] # 0 /\ now >= retry[w] => Admitted(w)

-----------------------------------------------------------------------------
(* The strengthenings that make the invariants inductive.                  *)

\* Handlers at work have links of their own: one that no other handler has,
\* and that is where the handler is.
LinksAreOwn ==
  /\ \A g, h \in Handlers :
       ~At(g, "idle") /\ ~At(h, "idle") /\ op[g].link = op[h].link => g = h
  /\ \A h \in Handlers :
       /\ op[h].pc \in {"asked", "revoke", "insert"} =>
            link[op[h].link] = "drawn"
       /\ At(h, "openSession") => link[op[h].link] = "used"
                                  /\ opened[op[h].link] = 0

\* A link that has opened a session is used, and so is one that was cleared.
SpentIsUsed ==
  \A l \in Links : link[l] # "used" => opened[l] = 0 /\ l \notin old

LinkInv ==
  /\ TypeOK /\ LinksAreOwn /\ SpentIsUsed /\ LinkOpensOneSession
  /\ old \cap Exchanging \subseteq survivors /\ ClearEndsSessions

\* A deque has every use that is not over, and no more than the limit, and
\* there is room in it when a refused user was told to come back.
RecentIsKept(w) ==
  \A l \in Links :
    /\ usedAt[w][l] <= now
    /\ usedAt[w][l] # 0 /\ usedAt[w][l] > now - Window[w] => l \in events[w]
RoomAtRetry(w) ==
  retry[w] # 0 =>
    Cardinality({l \in events[w] : usedAt[w][l] > retry[w] - Window[w]})
      < Limit[w]

WindowInv ==
  /\ TypeOK /\ WindowHolds
  /\ \A w \in Windows : /\ RecentIsKept(w) /\ RoomAtRetry(w)
                        /\ Cardinality(events[w]) <= Limit[w]

=============================================================================
