---------------------- MODULE OnboardingOutcomeProofs ----------------------
(* What the end of a login leaves behind, for every set of users, logins   *)
(* and handlers: nothing of a user who was cleared, no second life of a    *)
(* login that failed or connected, and limits that only a late answer      *)
(* passes.                                                                 *)
EXTENDS OnboardingProofs, FiniteSetTheorems

-----------------------------------------------------------------------------
(* ClearInv.  Most steps touch neither accounts nor the list of logins.    *)

Quiet ==
  /\ UNCHANGED <<listed, todo, clearing, cleared, session, running, flagged>>
  /\ temp' \subseteq temp
  /\ \A l \in Logins : /\ login'[l].user = login[l].user
                       /\ login[l].status # "NONE" => login'[l].status # "NONE"
  /\ \A h \in Handlers : pc[h] = "clearing" => pc'[h] = "clearing"
  /\ \A p \in Procs : pc'[p] = "saveConnected" =>
       pc[p] = "saveConnected" /\ at'[p] = at[p]

\* A flag that is under way after a step that promotes nothing was under way
\* before, for the same user.
LEMMA FlagFrame ==
  ASSUME LoginInv,
         \A l \in Logins : login[l].status # "NONE" => login'[l].user = login[l].user,
         \A p \in Procs : pc'[p] = "saveConnected" =>
           pc[p] = "saveConnected" /\ at'[p] = at[p],
         NEW u, FlagUnderWay(u)'
  PROVE  FlagUnderWay(u)
<1>1. PICK p \in Procs : pc'[p] = "saveConnected" /\ login'[at'[p]].user = u
  BY DEF FlagUnderWay, UserOf
<1>2. /\ pc[p] = "saveConnected" /\ at'[p] = at[p]
      /\ at[p] \in Logins /\ login[at[p]].status # "NONE"
  BY <1>1 DEF LoginInv, WorksOnBegun, Working, Finalizing
<1> QED BY <1>1, <1>2 DEF FlagUnderWay, UserOf

LEMMA QuietKeeps ==
  ASSUME ClearInv, LoginInv', Quiet
  PROVE  ClearInv'
<1>1. TempIsReachable'
  <2>1. temp \subseteq Logins
    BY DEF ClearInv, LoginInv, TypeOK
  <2> QED BY <2>1 DEF ClearInv, TempIsReachable, Quiet
<1>2. \A u \in Users : FlagUnderWay(u)' => FlagUnderWay(u)
  BY FlagFrame DEF ClearInv, Quiet
<1>3. ClearedIsGone'
  <2>1. cleared \subseteq Users /\ listed \subseteq Logins
    BY DEF ClearInv, LoginInv, TypeOK
  <2>2. \A h \in Handlers : pc'[h] # "clearing" => clearing'[h] = Nobody
    BY DEF ClearInv, ClearedIsGone, Quiet
  <2>3. ASSUME NEW u \in cleared'
        PROVE  /\ \A l \in listed' : login'[l].user # u
               /\ (\A h \in Handlers : clearing'[h] # u) =>
                    /\ session'[u] = Nobody /\ u \notin running' \cup flagged'
                    /\ ~FlagUnderWay(u)'
    BY <1>2, <2>1, <2>3 DEF ClearInv, ClearedIsGone, Quiet
  <2> QED BY <2>2, <2>3 DEF ClearedIsGone
<1> QED BY <1>1, <1>3 DEF ClearInv

\* A process that returns.
LEMMA FinishIsQuiet ==
  ASSUME LoginInv, NEW p \in Procs, Finish(p), pc[p] # "clearing",
         UNCHANGED <<listed, todo, clearing, cleared, session, running, flagged>>,
         temp' \subseteq temp,
         \A l \in Logins : /\ login'[l].user = login[l].user
                           /\ login[l].status # "NONE" => login'[l].status # "NONE"
  PROVE  Quiet
<1>1. /\ pc'[p] \in {"ended", "idle"}
      /\ \A q \in Procs : q # p => pc'[q] = pc[q] /\ at'[q] = at[q]
  BY FinishFacts DEF LoginInv
<1> QED BY <1>1 DEF Quiet, Procs

\* A login that is given up.
LEMMA AbandonMoves ==
  ASSUME LoginInv, NEW p \in Procs, NEW l \in Logins, pc[p] # "clearing",
         NEW s \in {"FAILED", "EXPIRED"}, Abandon(p, l, s)
  PROVE  /\ \A k \in Logins : /\ login'[k].user = login[k].user
                              /\ login[k].status # "NONE" => login'[k].status # "NONE"
         /\ \A h \in Handlers : pc[h] = "clearing" => pc'[h] = "clearing"
         /\ \A q \in Procs : pc'[q] = "saveConnected" =>
              pc[q] = "saveConnected" /\ at'[q] = at[q]
<1>1. s \in Status \ {"NONE"}
  BY DEF Status, Terminal
<1>2. \A k \in Logins : /\ login'[k].user = login[k].user
                        /\ login[k].status # "NONE" => login'[k].status # "NONE"
  BY <1>1, SetStatusFacts DEF Abandon, LoginInv
<1>3. /\ pc'[p] \in {"dropping", "ended"}
      /\ \A q \in Procs : q # p => pc'[q] \in {pc[q], "ended"}
      /\ \A h \in Handlers : h # p => pc'[h] = pc[h]
  <2> DEFINE f == [pc EXCEPT ![p] = "dropping"]
  <2>1. \A q \in Procs : f[q] = IF q = p THEN "dropping" ELSE pc[q]
    BY DEF LoginInv, TypeOK
  <2>2. pc' = [q \in Procs |-> IF q \in {l} \ {p} /\ pc[q] # "none"
                              THEN "ended" ELSE f[q]]
    BY DEF Abandon, CancelTasks
  <2>3. \A h \in Handlers : h \in Procs /\ h # l
    BY OnboardingAssumption DEF Procs
  <2> HIDE DEF f
  <2> QED BY <2>1, <2>2, <2>3
<1>4. \A q \in Procs : q # p => at'[q] = at[q]
  BY DEF Abandon, LoginInv, TypeOK
<1> QED BY <1>2, <1>3, <1>4 DEF Procs

LEMMA AbandonIsQuiet ==
  ASSUME LoginInv, NEW p \in Procs, NEW l \in Logins, pc[p] # "clearing",
         NEW s \in {"FAILED", "EXPIRED"}, Abandon(p, l, s),
         UNCHANGED <<listed, todo, clearing, cleared, session, running, flagged,
                     temp>>
  PROVE  Quiet
BY AbandonMoves DEF Quiet

-----------------------------------------------------------------------------
(* The actions that are quiet: they list no login, clear nobody and leave  *)
(* the accounts alone.                                                     *)

\* The login a process works on was begun.
LEMMA WorkFacts ==
  ASSUME LoginInv, NEW p \in Procs, pc[p] \in Working
  PROVE  /\ at[p] \in Logins /\ login[at[p]].status # "NONE"
         /\ login[at[p]].user \in Users
         /\ p \in Logins => at[p] = p
BY DEF LoginInv, WorksOnBegun, BegunForUser

\* An action that writes one status, of a login that was begun.
LEMMA StatusFrame ==
  ASSUME LoginInv, NEW l \in Logins, NEW s \in Status \ {"NONE"}, SetStatus(l, s)
  PROVE  \A k \in Logins : /\ login'[k].user = login[k].user
                           /\ login[k].status # "NONE" => login'[k].status # "NONE"
BY DEF SetStatus, LoginInv, TypeOK

\* A handler or the maintenance task is not a QR task.
LEMMA ProcsDiffer == /\ \A h \in Handlers : h \in Procs /\ h \notin Logins
                     /\ \A l \in Logins : l \in Procs /\ l \notin Handlers
                     /\ Maintenance \in Procs
                     /\ Maintenance \notin Handlers \cup Logins
BY OnboardingAssumption DEF Procs

LEMMA DropIsQuiet ==
  ASSUME LoginInv, NEW p \in Procs, Drop(p)
  PROVE  Quiet
BY DEF Drop, Quiet, owned, LoginInv, TypeOK, Procs

LEMMA RemoveIsQuiet ==
  ASSUME LoginInv, NEW p \in Procs, Remove(p)
  PROVE  Quiet
BY FinishIsQuiet DEF Remove, owned

LEMMA StartReadyIsQuiet ==
  ASSUME LoginInv, NEW h \in Handlers, StartReady(h)
  PROVE  Quiet
<1>1. at[h] \in Logins
  BY WorkFacts, ProcsDiffer DEF StartReady, Working
<1>2. {"WAITING_FOR_SCAN", "WAITING_FOR_CODE"} \subseteq Status \ {"NONE"}
  BY DEF Status, Waiting
<1>3. \A k \in Logins : /\ login'[k].user = login[k].user
                        /\ login[k].status # "NONE" => login'[k].status # "NONE"
  BY <1>1, <1>2, StatusFrame DEF StartReady
<1> QED BY <1>3, ProcsDiffer DEF StartReady, Quiet, owned, LoginInv, TypeOK

LEMMA StartFailsIsQuiet ==
  ASSUME LoginInv, NEW h \in Handlers, StartFails(h)
  PROVE  Quiet
BY AbandonIsQuiet, WorkFacts, ProcsDiffer DEF StartFails, Working, owned

LEMMA StartDoneIsQuiet ==
  ASSUME LoginInv, NEW h \in Handlers, StartDone(h)
  PROVE  Quiet
BY WorkFacts, ProcsDiffer DEF StartDone, Working, Quiet, owned, LoginInv, TypeOK

LEMMA PollIsQuiet ==
  ASSUME LoginInv, NEW h \in Handlers, NEW l \in Logins, Poll(h, l)
  PROVE  Quiet
BY AbandonIsQuiet, ProcsDiffer DEF Poll, owned

LEMMA SubmitIsQuiet ==
  ASSUME LoginInv, NEW h \in Handlers, NEW l \in Logins,
         NEW w \in {"lockCode", "lockPassword"}, Submit(h, l, w)
  PROVE  Quiet
BY ProcsDiffer DEF Submit, Quiet, owned, LoginInv, TypeOK

LEMMA SubmitEnterIsQuiet ==
  ASSUME LoginInv, NEW h \in Handlers, SubmitEnter(h)
  PROVE  Quiet
<1>1. CASE Finish(h)
  BY <1>1, FinishIsQuiet, ProcsDiffer DEF SubmitEnter, owned
<1>2. CASE ~Finish(h)
  BY <1>2, ProcsDiffer DEF SubmitEnter, Quiet, owned, LoginInv, TypeOK
<1> QED BY <1>1, <1>2

LEMMA SignAcceptedIsQuiet ==
  ASSUME LoginInv, NEW h \in Handlers, SignAccepted(h)
  PROVE  Quiet
<1>1. at[h] \in Logins /\ "CONNECTING" \in Status \ {"NONE"}
  BY WorkFacts, ProcsDiffer DEF SignAccepted, Working, Submitting, Status
<1>2. \A k \in Logins : /\ login'[k].user = login[k].user
                        /\ login[k].status # "NONE" => login'[k].status # "NONE"
  BY <1>1, StatusFrame DEF SignAccepted
<1> QED BY <1>2, ProcsDiffer DEF SignAccepted, Quiet, owned, LoginInv, TypeOK

LEMMA SignNeedsPasswordIsQuiet ==
  ASSUME LoginInv, NEW h \in Handlers, SignNeedsPassword(h)
  PROVE  Quiet
<1>1. at[h] \in Logins /\ "TWO_FACTOR_REQUIRED" \in Status \ {"NONE"}
  BY WorkFacts, ProcsDiffer DEF SignNeedsPassword, Working, Submitting, Status
<1>2. \A k \in Logins : /\ login'[k].user = login[k].user
                        /\ login[k].status # "NONE" => login'[k].status # "NONE"
  BY <1>1, StatusFrame DEF SignNeedsPassword
<1> QED BY <1>2, FinishIsQuiet, ProcsDiffer DEF SignNeedsPassword, owned

LEMMA SignReturnsIsQuiet ==
  ASSUME LoginInv, NEW h \in Handlers, SignReturns(h)
  PROVE  Quiet
BY FinishIsQuiet, ProcsDiffer DEF SignReturns, owned

LEMMA SignFailsIsQuiet ==
  ASSUME LoginInv, NEW h \in Handlers, SignFails(h)
  PROVE  Quiet
BY AbandonIsQuiet, WorkFacts, ProcsDiffer DEF SignFails, Working, Submitting, owned

LEMMA QrScannedIsQuiet ==
  ASSUME LoginInv, NEW l \in Logins, QrScanned(l)
  PROVE  Quiet
<1>1. "CONNECTING" \in Status \ {"NONE"}
  BY DEF Status
<1>2. \A k \in Logins : /\ login'[k].user = login[k].user
                        /\ login[k].status # "NONE" => login'[k].status # "NONE"
  BY <1>1, StatusFrame DEF QrScanned
<1> QED BY <1>2, ProcsDiffer DEF QrScanned, Quiet, owned, LoginInv, TypeOK

LEMMA QrNeedsPasswordIsQuiet ==
  ASSUME LoginInv, NEW l \in Logins, QrNeedsPassword(l)
  PROVE  Quiet
<1>1. "TWO_FACTOR_REQUIRED" \in Status \ {"NONE"}
  BY DEF Status
<1>2. \A k \in Logins : /\ login'[k].user = login[k].user
                        /\ login[k].status # "NONE" => login'[k].status # "NONE"
  BY <1>1, StatusFrame DEF QrNeedsPassword
<1> QED BY <1>2, FinishIsQuiet, ProcsDiffer DEF QrNeedsPassword, owned

LEMMA QrFailsIsQuiet ==
  ASSUME LoginInv, NEW l \in Logins, QrFails(l)
  PROVE  Quiet
BY AbandonIsQuiet, ProcsDiffer DEF QrFails, owned

LEMMA TimesOutIsQuiet ==
  ASSUME LoginInv, NEW l \in Logins, pc[l] # "clearing", TimesOut(l)
  PROVE  Quiet
<1>1. CASE l \in late
  BY <1>1, AbandonIsQuiet, ProcsDiffer DEF TimesOut, owned
<1>2. CASE l \notin late
  BY <1>2, ProcsDiffer DEF TimesOut, Quiet, owned, LoginInv, TypeOK
<1> QED BY <1>1, <1>2

LEMMA QrEnterIsQuiet ==
  ASSUME LoginInv, NEW l \in Logins, QrEnter(l)
  PROVE  Quiet
<1>1. CASE Finish(l)
  BY <1>1, FinishIsQuiet, ProcsDiffer DEF QrEnter, owned
<1>2. CASE ~Finish(l)
  BY <1>2, ProcsDiffer DEF QrEnter, Quiet, owned, LoginInv, TypeOK
<1> QED BY <1>1, <1>2

LEMMA QrRefreshedIsQuiet ==
  ASSUME LoginInv, NEW l \in Logins, QrRefreshed(l)
  PROVE  Quiet
BY ProcsDiffer DEF QrRefreshed, Quiet, owned, LoginInv, TypeOK

LEMMA FinalizeRaisesIsQuiet ==
  ASSUME LoginInv, NEW p \in Procs, FinalizeRaises(p)
  PROVE  Quiet
<1>1. pc[p] # "clearing" /\ at[p] \in Logins
  BY WorkFacts DEF FinalizeRaises, Working, Finalizing
<1> QED BY <1>1, AbandonIsQuiet, FinishIsQuiet, TimesOutIsQuiet
        DEF FinalizeRaises, owned

LEMMA GotMeIsQuiet ==
  ASSUME LoginInv, NEW p \in Procs, NEW me \in Accounts, GotMe(p, me)
  PROVE  Quiet
<1>1. pc[p] # "clearing" /\ at[p] \in Logins
  BY WorkFacts DEF GotMe, Working, Finalizing
<1>2. CASE me # login[at[p]].user
  BY <1>1, <1>2, AbandonIsQuiet DEF GotMe, owned
<1>3. CASE me = login[at[p]].user
  BY <1>1, <1>3, ProcsDiffer DEF GotMe, Quiet, owned, LoginInv, TypeOK
<1> QED BY <1>2, <1>3

LEMMA ExpirePendingIsQuiet ==
  ASSUME LoginInv, NEW l \in Logins, ExpirePending(l)
  PROVE  Quiet
BY AbandonIsQuiet, ProcsDiffer DEF ExpirePending, owned

LEMMA RestartReadIsQuiet ==
  ASSUME LoginInv, RestartRead
  PROVE  Quiet
BY ProcsDiffer DEF RestartRead, Quiet, owned, LoginInv, TypeOK

LEMMA LateIsQuiet ==
  ASSUME LoginInv, NEW l \in Logins, Late(l)
  PROVE  Quiet
BY DEF Late, Quiet, owned

LEMMA StutterIsQuiet ==
  ASSUME LoginInv, UNCHANGED vars
  PROVE  Quiet
BY DEF vars, Quiet, owned

-----------------------------------------------------------------------------
(* The actions that move accounts or the list of logins.                   *)

\* What ClearInv says of one user, before and after a step.
Gone(u) ==
  /\ \A l \in listed : login[l].user # u
  /\ (\A h \in Handlers : clearing[h] # u) =>
       session[u] = Nobody /\ u \notin running \cup flagged /\ ~FlagUnderWay(u)

LEMMA GoneFacts ==
  ASSUME ClearInv
  PROVE  /\ LoginInv /\ cleared \subseteq Users
         /\ listed \subseteq Logins /\ temp \subseteq Logins
         /\ \A h \in Handlers : pc[h] # "clearing" => clearing[h] = Nobody
         /\ \A u \in cleared : Gone(u)
BY DEF ClearInv, ClearedIsGone, Gone, LoginInv, TypeOK

LEMMA GoneSuffices ==
  ASSUME LoginInv', TempIsReachable',
         \A h \in Handlers : pc'[h] # "clearing" => clearing'[h] = Nobody,
         \A u \in cleared' : Gone(u)'
  PROVE  ClearInv'
BY DEF ClearInv, ClearedIsGone, Gone

\* _new_pending: the user who begins a login is not a cleared one any more.
LEMMA NewPendingClears ==
  ASSUME ClearInv, LoginInv', NEW h \in Handlers, NEW u \in Users,
         NEW m \in {"qr", "phone"}, NEW l \in Logins, NewPending(h, u, m, l)
  PROVE  ClearInv'
<1>1. /\ pc[h] = "idle" /\ login[l].status = "NONE"
      /\ listed' = listed \cup {l} /\ temp' = temp \cup {l}
      /\ cleared' = cleared \ {u}
      /\ UNCHANGED <<todo, clearing, session, running, flagged>>
      /\ login'[l].user = u /\ login'[l].status = "LOADING"
      /\ \A k \in Logins : k # l => login'[k] = login[k]
      /\ pc'[h] = "starting"
      /\ \A q \in Procs : q # h => pc'[q] = pc[q] /\ at'[q] = at[q]
  BY DEF NewPending, owned, ClearInv, LoginInv, TypeOK
<1>2. TempIsReachable'
  BY <1>1, GoneFacts DEF ClearInv, TempIsReachable
<1>3. \A v \in cleared' : FlagUnderWay(v)' => FlagUnderWay(v)
  BY <1>1, FlagFrame, GoneFacts, ProcsDiffer
<1>4. \A k \in Handlers : pc'[k] # "clearing" => clearing'[k] = Nobody
  BY <1>1, GoneFacts, ProcsDiffer
<1>5. \A v \in cleared' : Gone(v)'
  BY <1>1, <1>3, GoneFacts DEF Gone
<1> QED BY <1>2, <1>4, <1>5, GoneSuffices

\* _finalize: a session is promoted only while its login is listed, or is being
\* shut down by the clear itself.
LEMMA PromoteClears ==
  ASSUME ClearInv, LoginInv', NEW p \in Procs, Promote(p)
  PROVE  ClearInv'
<1>1. PICK l \in Logins : at[p] = l /\ pc[p] = "leaving" /\ login[l].user \in Users
  BY WorkFacts, GoneFacts DEF Promote, Working, Finalizing
<1> DEFINE u == login[l].user
<1>2. /\ running' \subseteq running
      /\ UNCHANGED <<listed, todo, clearing, flagged, cleared>>
      /\ \A v \in Users : v # u => session'[v] = session[v]
      /\ l \notin temp => session'[u] = Nobody
      /\ temp' \subseteq temp
  BY <1>1, GoneFacts DEF Promote, LoginInv, TypeOK
<1>3. CASE l \in temp
  <2>1. /\ UNCHANGED <<login, at>>
        /\ pc' = [pc EXCEPT ![p] = "saveConnected"]
    BY <1>1, <1>3 DEF Promote
  <2>2. TempIsReachable'
    BY <1>2, <2>1 DEF ClearInv, TempIsReachable
  <2>3. \A h \in Handlers : pc'[h] # "clearing" => clearing'[h] = Nobody
    BY <1>1, <1>2, <2>1, GoneFacts, ProcsDiffer DEF LoginInv, TypeOK
  <2>4. u \in cleared => \E h \in Handlers : clearing[h] = u
    BY <1>3, GoneFacts DEF ClearInv, TempIsReachable, Gone
  <2>5. \A v \in Users : v # u /\ FlagUnderWay(v)' => FlagUnderWay(v)
    BY <1>1, <2>1, GoneFacts DEF FlagUnderWay, UserOf, LoginInv, TypeOK
  <2>6. \A v \in cleared' : Gone(v)'
    BY <1>2, <2>1, <2>4, <2>5, GoneFacts DEF Gone
  <2> QED BY <2>2, <2>3, <2>6, GoneSuffices
<1>4. CASE l \notin temp
  <2>1. /\ \A k \in Logins : /\ login'[k].user = login[k].user
                             /\ login[k].status # "NONE" => login'[k].status # "NONE"
        /\ \A h \in Handlers : pc[h] = "clearing" => pc'[h] = "clearing"
        /\ \A q \in Procs : pc'[q] = "saveConnected" =>
             pc[q] = "saveConnected" /\ at'[q] = at[q]
    <3>1. CASE Abandon(p, l, "FAILED")
      BY <1>1, <3>1, GoneFacts, AbandonMoves
    <3>2. CASE Finish(p) /\ UNCHANGED login
      BY <1>1, <3>2, GoneFacts, FinishFacts, ProcsDiffer DEF LoginInv
    <3> QED BY <1>1, <1>4, <3>1, <3>2 DEF Promote
  <2>2. TempIsReachable'
    BY <1>2, <2>1, GoneFacts DEF ClearInv, TempIsReachable
  <2>3. \A h \in Handlers : pc'[h] # "clearing" => clearing'[h] = Nobody
    BY <1>2, <2>1, GoneFacts
  <2>4. \A v \in Users : FlagUnderWay(v)' => FlagUnderWay(v)
    BY <2>1, FlagFrame, GoneFacts
  <2>5. \A v \in cleared' : Gone(v)'
    BY <1>2, <1>4, <2>1, <2>4, GoneFacts DEF Gone
  <2> QED BY <2>2, <2>3, <2>5, GoneSuffices
<1> QED BY <1>3, <1>4

\* set_telegram_connected: a flag that is still to be written keeps a clear
\* from being over.
LEMMA SaveConnectedClears ==
  ASSUME ClearInv, LoginInv', NEW p \in Procs, SaveConnected(p)
  PROVE  ClearInv'
<1>1. /\ UNCHANGED <<login, listed, temp, todo, clearing, session, running,
                     cleared, at>>
      /\ pc' = [pc EXCEPT ![p] = "startUser"] /\ pc[p] = "saveConnected"
      /\ flagged' = flagged \cup {UserOf(p)} /\ FlagUnderWay(UserOf(p))
  BY DEF SaveConnected, FlagUnderWay
<1>2. TempIsReachable'
  BY <1>1 DEF ClearInv, TempIsReachable
<1>3. \A v \in cleared' : FlagUnderWay(v)' => FlagUnderWay(v)
  BY <1>1, GoneFacts DEF FlagUnderWay, UserOf, LoginInv, TypeOK
<1>4. \A h \in Handlers : pc'[h] # "clearing" => clearing'[h] = Nobody
  BY <1>1, GoneFacts, ProcsDiffer DEF LoginInv, TypeOK
<1>5. \A v \in cleared' : Gone(v)'
  BY <1>1, <1>3, GoneFacts DEF Gone
<1> QED BY <1>2, <1>4, <1>5, GoneSuffices

\* A client is started only from what is left of the account.
LEMMA StartsNobodyCleared ==
  ASSUME ClearInv, NEW u \in cleared, CanStart(u)
  PROVE  \E h \in Handlers : clearing[h] = u
BY GoneFacts, OnboardingAssumption DEF CanStart, Gone, Accounts

LEMMA StartUserClears ==
  ASSUME ClearInv, LoginInv', NEW p \in Procs, StartUser(p)
  PROVE  ClearInv'
<1>1. at[p] \in Logins /\ login[at[p]].user \in Users /\ pc[p] = "startUser"
  BY WorkFacts, GoneFacts DEF StartUser, Working, Finalizing
<1> DEFINE u == login[at[p]].user
<1>2. /\ UNCHANGED <<listed, temp, todo, clearing, session, flagged, cleared>>
      /\ Finish(p) /\ CanStart(u) /\ running' = running \cup {u}
  BY DEF StartUser, UserOf, owned
<1>3. \A k \in Logins : /\ login'[k].user = login[k].user
                        /\ login[k].status # "NONE" => login'[k].status # "NONE"
  BY <1>1, GoneFacts DEF StartUser, LoginInv, TypeOK
<1>4. /\ \A h \in Handlers : pc[h] = "clearing" => pc'[h] = "clearing"
      /\ \A q \in Procs : pc'[q] = "saveConnected" =>
           pc[q] = "saveConnected" /\ at'[q] = at[q]
  BY <1>1, <1>2, GoneFacts, FinishFacts, ProcsDiffer DEF LoginInv
<1>5. TempIsReachable'
  BY <1>2, <1>3, GoneFacts DEF ClearInv, TempIsReachable
<1>6. \A v \in Users : FlagUnderWay(v)' => FlagUnderWay(v)
  BY <1>3, <1>4, FlagFrame, GoneFacts
<1>7. u \in cleared => \E h \in Handlers : clearing[h] = u
  BY <1>2, StartsNobodyCleared
<1>8. \A v \in cleared' : Gone(v)'
  BY <1>2, <1>3, <1>6, <1>7, GoneFacts DEF Gone
<1>9. \A h \in Handlers : pc'[h] # "clearing" => clearing'[h] = Nobody
  BY <1>2, <1>4, GoneFacts
<1> QED BY <1>5, <1>8, <1>9, GoneSuffices

LEMMA RestartUserClears ==
  ASSUME ClearInv, LoginInv', NEW u \in Users, RestartUser(u)
  PROVE  ClearInv'
<1>1. /\ UNCHANGED <<login, listed, temp, todo, clearing, session, flagged,
                     cleared, at>>
      /\ \/ CanStart(u) /\ running' = running \cup {u}
         \/ running' = running
  BY DEF RestartUser
<1>2. /\ \A q \in Procs : q # Maintenance => pc'[q] = pc[q]
      /\ pc'[Maintenance] \in {"idle", pc[Maintenance]}
  BY ProcsDiffer, GoneFacts DEF RestartUser, LoginInv, TypeOK
<1>3. TempIsReachable'
  BY <1>1 DEF ClearInv, TempIsReachable
<1>4. \A v \in Users : FlagUnderWay(v)' => FlagUnderWay(v)
  BY <1>1, <1>2 DEF FlagUnderWay, UserOf
<1>5. \A v \in cleared' : Gone(v)'
  BY <1>1, <1>4, GoneFacts, StartsNobodyCleared DEF Gone
<1>6. \A h \in Handlers : pc'[h] # "clearing" => clearing'[h] = Nobody
  BY <1>1, <1>2, GoneFacts, ProcsDiffer
<1> QED BY <1>3, <1>5, <1>6, GoneSuffices

\* clear_user: the logins it pops are the ones it will shut down.
LEMMA ClearBeginClears ==
  ASSUME ClearInv, LoginInv', NEW h \in Handlers, NEW u \in Users, ClearBegin(h, u)
  PROVE  ClearInv'
<1> DEFINE mine == {l \in listed : login[l].user = u}
<1>1. /\ pc[h] = "idle" /\ listed' = listed \ mine
      /\ todo'[h] = mine /\ clearing'[h] = u /\ cleared' = cleared \cup {u}
      /\ \A k \in Handlers : k # h => todo'[k] = todo[k] /\ clearing'[k] = clearing[k]
      /\ UNCHANGED <<login, temp, at, session, running, flagged>>
  BY GoneFacts DEF ClearBegin, owned, LoginInv, TypeOK
<1>2. /\ pc'[h] = "clearing"
      /\ \A q \in Procs : q # h => pc'[q] \in {pc[q], "ended"}
      /\ \A k \in Handlers : k # h => pc'[k] = pc[k]
  <2> DEFINE f == [pc EXCEPT ![h] = "clearing"]
  <2>1. \A q \in Procs : f[q] = IF q = h THEN "clearing" ELSE pc[q]
    BY GoneFacts DEF LoginInv, TypeOK
  <2>2. pc' = [q \in Procs |-> IF q \in mine /\ pc[q] # "none" THEN "ended" ELSE f[q]]
    BY DEF ClearBegin, CancelTasks
  <2>3. mine \subseteq Logins
    BY GoneFacts
  <2> HIDE DEF f, mine
  <2> QED BY <2>1, <2>2, <2>3, ProcsDiffer
<1>3. clearing[h] = Nobody
  BY <1>1, GoneFacts
<1>4. TempIsReachable'
  <2>1. ASSUME NEW l \in temp
        PROVE  \/ l \in listed'
               \/ \E k \in Handlers : clearing'[k] = login[l].user /\ l \in todo'[k]
    <3>1. login[l].user # Nobody
      BY GoneFacts, OnboardingAssumption DEF ClearInv, TempIsReachable, LoginInv,
         BegunForUser, Accounts
    <3>2. CASE l \in listed
      BY <1>1, <3>2
    <3>3. CASE l \notin listed
      <4>1. PICK k \in Handlers : clearing[k] = login[l].user /\ l \in todo[k]
        BY <3>3 DEF ClearInv, TempIsReachable
      <4>2. k # h
        BY <1>3, <3>1, <4>1
      <4> QED BY <1>1, <4>1, <4>2
    <3> QED BY <3>2, <3>3
  <2> QED BY <1>1, <2>1 DEF ClearInv, TempIsReachable
<1>5. \A v \in Users : FlagUnderWay(v)' => FlagUnderWay(v)
  BY <1>1, <1>2 DEF FlagUnderWay, UserOf
<1>6. \A k \in Handlers : pc'[k] # "clearing" => clearing'[k] = Nobody
  BY <1>1, <1>2, GoneFacts
<1>7. ASSUME NEW v \in cleared'
      PROVE  Gone(v)'
  <2>1. CASE v = u
    BY <1>1, <2>1 DEF Gone
  <2>2. CASE v # u
    <3>1. v \in cleared /\ v \in Users /\ Gone(v)
      BY <1>1, <2>2, GoneFacts
    <3>2. (\A k \in Handlers : clearing'[k] # v) => \A k \in Handlers : clearing[k] # v
      BY <1>1, <1>3, <3>1, OnboardingAssumption DEF Accounts
    <3> QED BY <1>1, <1>5, <3>1, <3>2 DEF Gone
  <2> QED BY <2>1, <2>2
<1> QED BY <1>4, <1>6, <1>7, GoneSuffices

LEMMA ClearLoginClears ==
  ASSUME ClearInv, LoginInv', NEW h \in Handlers, NEW l \in Logins, ClearLogin(h, l)
  PROVE  ClearInv'
<1>1. /\ UNCHANGED <<login, listed, clearing, session, running, flagged, cleared,
                     pc, at>>
      /\ temp' = temp \ {l}
      /\ \A k \in Handlers : todo[k] \ {l} \subseteq todo'[k]
  BY GoneFacts DEF ClearLogin, owned, LoginInv, TypeOK
<1>2. TempIsReachable'
  BY <1>1 DEF ClearInv, TempIsReachable
<1>3. \A v \in Users : FlagUnderWay(v)' => FlagUnderWay(v)
  BY <1>1 DEF FlagUnderWay, UserOf
<1>4. \A v \in cleared' : Gone(v)'
  BY <1>1, <1>3, GoneFacts DEF Gone
<1> QED BY <1>1, <1>2, <1>4, GoneFacts, GoneSuffices

\* clear_user_access: the account goes once the logins are shut down.
LEMMA ClearAccountClears ==
  ASSUME ClearInv, LoginInv', NEW h \in Handlers, ClearAccount(h)
  PROVE  ClearInv'
<1> DEFINE u == clearing[h]
<1>1. u \in Users /\ h \in Procs
  BY GoneFacts, ProcsDiffer DEF ClearAccount, LoginInv, ClearsSomeone
<1>2. /\ todo[h] = {} /\ ~FlagUnderWay(u) /\ clearing'[h] = Nobody
      /\ \A k \in Handlers : k # h => clearing'[k] = clearing[k]
      /\ session'[u] = Nobody /\ u \notin running' /\ u \notin flagged'
      /\ running' \subseteq running /\ flagged' \subseteq flagged
      /\ \A v \in Users : v # u => session'[v] = session[v]
      /\ UNCHANGED <<login, listed, temp, at, todo, cleared>>
      /\ pc' = [pc EXCEPT ![h] = "idle"]
  BY <1>1, GoneFacts DEF ClearAccount, Forget, LoginInv, TypeOK
<1>3. TempIsReachable'
  BY <1>2 DEF ClearInv, TempIsReachable
<1>4. \A v \in Users : FlagUnderWay(v)' => FlagUnderWay(v)
  BY <1>1, <1>2, GoneFacts DEF FlagUnderWay, UserOf, LoginInv, TypeOK
<1>5. \A k \in Handlers : pc'[k] # "clearing" => clearing'[k] = Nobody
  BY <1>1, <1>2, GoneFacts, ProcsDiffer DEF LoginInv, TypeOK
<1>6. ASSUME NEW v \in cleared'
      PROVE  Gone(v)'
  <2>1. v \in Users /\ Gone(v)
    BY <1>2, GoneFacts
  <2>2. CASE v = u
    BY <1>1, <1>2, <1>4, <2>1, <2>2 DEF Gone
  <2>3. CASE v # u
    BY <1>2, <1>4, <2>1, <2>3 DEF Gone
  <2> QED BY <2>2, <2>3
<1> QED BY <1>3, <1>5, <1>6, GoneSuffices

\* disconnect_telegram takes the same things from the account.
LEMMA DisconnectClears ==
  ASSUME ClearInv, LoginInv', NEW h \in Handlers, NEW u \in Users, Disconnect(h, u)
  PROVE  ClearInv'
<1>1. /\ session'[u] = Nobody
      /\ running' \subseteq running /\ flagged' \subseteq flagged
      /\ \A v \in Users : v # u => session'[v] = session[v]
      /\ UNCHANGED <<login, listed, temp, pc, at, todo, clearing, cleared>>
  BY GoneFacts DEF Disconnect, Forget, LoginInv, TypeOK
<1>2. TempIsReachable'
  BY <1>1 DEF ClearInv, TempIsReachable
<1>3. \A v \in Users : FlagUnderWay(v)' => FlagUnderWay(v)
  BY <1>1 DEF FlagUnderWay, UserOf
<1>4. \A v \in cleared' : Gone(v)'
  BY <1>1, <1>3, GoneFacts DEF Gone
<1> QED BY <1>1, <1>2, <1>4, GoneFacts, GoneSuffices

-----------------------------------------------------------------------------
(* The inductive step of ClearInv and what follows from it.                *)

LEMMA StepClears ==
  ASSUME ClearInv, LoginInv', NEW p \in Procs, Step(p)
  PROVE  ClearInv'
BY GoneFacts, QuietKeeps, DropIsQuiet, RemoveIsQuiet, GotMeIsQuiet, PromoteClears,
   SaveConnectedClears, StartUserClears, FinalizeRaisesIsQuiet DEF Step

LEMMA RequestClears ==
  ASSUME ClearInv, LoginInv', NEW h \in Handlers, Request(h)
  PROVE  ClearInv'
BY GoneFacts, QuietKeeps, NewPendingClears, PollIsQuiet, SubmitIsQuiet,
   ClearBeginClears, DisconnectClears DEF Request

LEMMA HandlerStepClears ==
  ASSUME ClearInv, LoginInv', NEW h \in Handlers, HandlerStep(h)
  PROVE  ClearInv'
BY GoneFacts, ProcsDiffer, QuietKeeps, StepClears, StartReadyIsQuiet,
   StartFailsIsQuiet, StartDoneIsQuiet, SubmitEnterIsQuiet, SignAcceptedIsQuiet,
   SignNeedsPasswordIsQuiet, SignReturnsIsQuiet, SignFailsIsQuiet, ClearLoginClears,
   ClearAccountClears DEF HandlerStep

LEMMA QrStepClears ==
  ASSUME ClearInv, LoginInv', NEW l \in Logins, QrStep(l)
  PROVE  ClearInv'
BY GoneFacts, ProcsDiffer, QuietKeeps, StepClears, QrScannedIsQuiet,
   QrNeedsPasswordIsQuiet, QrFailsIsQuiet, TimesOutIsQuiet, QrEnterIsQuiet,
   QrRefreshedIsQuiet DEF QrStep, QrTimesOut

LEMMA MaintenanceStepClears ==
  ASSUME ClearInv, LoginInv', MaintenanceStep
  PROVE  ClearInv'
BY GoneFacts, ProcsDiffer, QuietKeeps, DropIsQuiet, RemoveIsQuiet, RestartUserClears
   DEF MaintenanceStep

LEMMA InitClears == Init => ClearInv
<1> SUFFICES ASSUME Init PROVE ClearInv
  OBVIOUS
<1> QED BY InitKeeps DEF Init, ClearInv, TempIsReachable, ClearedIsGone

\* A temporary session belongs to a login somebody can still pop from _pending,
\* and of a user who was cleared nothing is left that could bring the account
\* back (telegram_onboarding.py, client_manager.py).
THEOREM ClearInvariant == Spec => []ClearInv
<1>1. ClearInv /\ LoginInv' /\ [Next]_vars => ClearInv'
  BY GoneFacts, QuietKeeps, RequestClears, HandlerStepClears, QrStepClears,
     LateIsQuiet, ExpirePendingIsQuiet, RestartReadIsQuiet, MaintenanceStepClears,
     StutterIsQuiet DEF Next
<1> QED BY <1>1, InitClears, LoginInvariant, PTL DEF Spec

\* After /clear or /block (_clear_user_access of bot_service.py) is over, no
\* session file, client, flag or pending login of the user is left, whatever
\* submissions, scans and maintenance rounds were under way.
THEOREM ClearIsComplete == Spec => []ClearLeavesNothing
<1>1. ClearInv => ClearLeavesNothing
  BY DEF ClearInv, TempIsReachable, ClearedIsGone, ClearLeavesNothing
<1> QED BY <1>1, ClearInvariant, PTL

-----------------------------------------------------------------------------
(* AttemptInv.  A step moves one process on; of the others it only ends    *)
(* some, and of the locks it takes none away from another handler.         *)

PlaceKnown(p) ==
  /\ p \in Logins =>
       pc[p] \in {"none", "ended"} \cup Scanning \cup Finalizing \cup Abandoning
  /\ p \in Handlers => pc[p] \notin {"none", "ended", "restart"} \cup Scanning
  /\ p = Maintenance => pc[p] \in {"idle", "restart"} \cup Abandoning

Shows(p) ==
  /\ p \in Handlers =>
       /\ pc[p] \in Signing => lock[at[p]] = p
       /\ pc[p] = "starting" => login[at[p]].status \in {"LOADING", "EXPIRED"}
       /\ pc[p] = "ready" /\ login[at[p]].method = "qr" =>
            login[at[p]].status \in {"WAITING_FOR_SCAN", "EXPIRED"}
  /\ p \in Logins /\ pc[p] \in Scanning \cup Finalizing =>
       login[p].status \in {"WAITING_FOR_SCAN", "EXPIRED", "CONNECTING"}

OthersStay(p) ==
  /\ \A q \in Procs : q # p =>
       \/ pc'[q] = pc[q] /\ at'[q] = at[q]
       \/ q \in Logins /\ pc'[q] = "ended"
       \/ q \in Handlers /\ pc'[q] = "idle"
  /\ \A l \in Logins, h \in Handlers : h # p /\ lock[l] = h => lock'[l] = h

\* Only a login that expires, is begun or is attempted by p changes its status.
StatusesStay(p) ==
  \A l \in Logins :
    /\ login[l].status # "NONE" => login'[l].method = login[l].method
    /\ \/ login'[l].status \in {login[l].status, "EXPIRED"}
       \/ login[l].status = "NONE"
       \/ Attempting(p) /\ at[p] = l

Alone(p) ==
  Attempting(p) => /\ login[at[p]].status \notin {"FAILED", "CONNECTED"}
                   /\ \A q \in Procs : q # p /\ at[q] = at[p] => ~Attempting(q)

Moves(p) ==
  /\ OthersStay(p) /\ StatusesStay(p)
  /\ PlaceKnown(p)' /\ Shows(p)' /\ Alone(p)'

OutcomeStays ==
  \A l \in Logins : login[l].status \in {"FAILED", "CONNECTED"}
                     => login'[l].status \in {login[l].status, "EXPIRED"}

\* The invariant, process by process.
LEMMA AttemptFacts ==
  ASSUME AttemptInv
  PROVE  /\ LoginInv /\ TypeOK
         /\ \A p \in Procs : PlaceKnown(p) /\ Shows(p) /\ Alone(p)
         /\ \A p \in Procs : Attempting(p) =>
              /\ pc[p] \in Working /\ at[p] \in Logins
              /\ login[at[p]].status # "NONE"
         /\ \A l \in Logins : at[l] = l
<1>1. LoginInv /\ TypeOK /\ \A l \in Logins : at[l] = l
  BY DEF AttemptInv, LoginInv, WorksOnBegun
<1>2. \A p \in Procs : PlaceKnown(p) /\ Shows(p)
  BY DEF AttemptInv, KnownPlaces, AttemptsShow, PlaceKnown, Shows
<1>3. \A p \in Procs : Alone(p)
  BY DEF AttemptInv, OneAttempt, Alone
<1>4. \A p \in Procs : Attempting(p) => pc[p] \in Working
  BY DEF Attempting, Working, Signing, Submitting, Finalizing, Scanning
<1>5. \A p \in Procs : Attempting(p) =>
         at[p] \in Logins /\ login[at[p]].status # "NONE"
  BY <1>1, <1>4 DEF LoginInv, WorksOnBegun
<1> QED BY <1>1, <1>2, <1>3, <1>4, <1>5

LEMMA OneMover ==
  ASSUME AttemptInv, LoginInv', NEW p \in Procs, Moves(p)
  PROVE  AttemptInv' /\ OutcomeStays
<1>1. ASSUME NEW q \in Procs, q # p, Attempting(q)'
      PROVE  Attempting(q) /\ pc'[q] = pc[q] /\ at'[q] = at[q] /\ at[q] \in Logins
  <2>1. pc'[q] = pc[q] /\ at'[q] = at[q]
    BY <1>1 DEF Moves, OthersStay, Attempting, Signing, Finalizing, Scanning
  <2>2. pc[q] \in Working
    BY <1>1, <2>1 DEF Attempting, Working, Signing, Submitting, Finalizing, Scanning
  <2>3. at[q] \in Logins /\ login[at[q]].status # "NONE"
    BY <2>2, AttemptFacts DEF LoginInv, WorksOnBegun
  <2>4. login'[at[q]].method = login[at[q]].method
    BY <2>3 DEF Moves, StatusesStay
  <2> QED BY <1>1, <2>1, <2>3, <2>4 DEF Attempting
<1>2. ASSUME NEW q \in Procs, q # p, Attempting(q)'
      PROVE  login'[at[q]].status \in {login[at[q]].status, "EXPIRED"}
  <2>1. Attempting(q) /\ at[q] \in Logins /\ login[at[q]].status # "NONE"
    BY <1>1, <1>2, AttemptFacts
  <2>2. ~(Attempting(p) /\ at[p] = at[q])
    BY <1>2, <2>1, AttemptFacts DEF Alone
  <2> QED BY <2>1, <2>2 DEF Moves, StatusesStay
<1>3. ASSUME NEW q \in Procs
      PROVE  PlaceKnown(q)' /\ Shows(q)' /\ Alone(q)'
  <2>1. CASE q = p
    BY <2>1 DEF Moves
  <2>2. CASE q # p
    <3>1. PlaceKnown(q)'
      BY <2>2, AttemptFacts, ProcsDiffer
         DEF Moves, OthersStay, PlaceKnown, Scanning, Finalizing, Abandoning
    <3>2. Shows(q)'
      <4>1. CASE Attempting(q)'
        <5>1. /\ Attempting(q) /\ pc'[q] = pc[q] /\ at'[q] = at[q] /\ at[q] \in Logins
              /\ login'[at[q]].status \in {login[at[q]].status, "EXPIRED"}
              /\ login'[at[q]].method = login[at[q]].method
          BY <1>1, <1>2, <2>2, <4>1, AttemptFacts DEF Moves, StatusesStay
        <5>2. Shows(q) /\ (q \in Logins => at[q] = q)
          BY AttemptFacts
        <5>3. q \in Handlers /\ lock[at[q]] = q => lock'[at[q]] = q
          BY <2>2, <5>1 DEF Moves, OthersStay
        <5> QED BY <5>1, <5>2, <5>3 DEF Shows
      <4>2. CASE ~Attempting(q)'
        BY <4>2 DEF Shows, Attempting, Signing
      <4> QED BY <4>1, <4>2
    <3>3. Alone(q)'
      <4>1. ASSUME Attempting(q)'
            PROVE  /\ login'[at'[q]].status \notin {"FAILED", "CONNECTED"}
                   /\ \A r \in Procs : r # q /\ at'[r] = at'[q] => ~Attempting(r)'
        <5>1. /\ Attempting(q) /\ at'[q] = at[q]
              /\ login'[at[q]].status \in {login[at[q]].status, "EXPIRED"}
          BY <1>1, <1>2, <2>2, <4>1
        <5>2. login[at[q]].status \notin {"FAILED", "CONNECTED"}
          BY <5>1, AttemptFacts DEF Alone
        <5>3. ASSUME NEW r \in Procs, r # q, at'[r] = at'[q], Attempting(r)'
              PROVE  FALSE
          <6>1. CASE r = p
            BY <2>2, <4>1, <5>3, <6>1 DEF Moves, Alone
          <6>2. CASE r # p
            BY <1>1, <5>1, <5>3, <6>2, AttemptFacts DEF Alone
          <6> QED BY <6>1, <6>2
        <5> QED BY <5>1, <5>2, <5>3
      <4> QED BY <4>1 DEF Alone
    <3> QED BY <3>1, <3>2, <3>3
  <2> QED BY <2>1, <2>2
<1>4. KnownPlaces'
  BY <1>3, ProcsDiffer DEF KnownPlaces, PlaceKnown
<1>5. AttemptsShow'
  BY <1>3, ProcsDiffer DEF AttemptsShow, Shows
<1>6. OneAttempt'
  BY <1>3 DEF OneAttempt, Alone
<1>7. OutcomeStays
  BY AttemptFacts DEF OutcomeStays, Moves, StatusesStay, Alone
<1> QED BY <1>4, <1>5, <1>6, <1>7 DEF AttemptInv

-----------------------------------------------------------------------------
(* Every action moves one process on.                                      *)

\* A process that stands at a place of its kind and attempts nothing.
LEMMA RestShows ==
  ASSUME NEW p \in Procs,
         pc'[p] \in {"none", "ended", "idle", "clearing", "restart", "lockCode",
                     "lockPassword", "dropping", "removing"}
  PROVE  Shows(p)' /\ Alone(p)'
BY DEF Shows, Alone, Attempting, Signing, Finalizing, Scanning

LEMMA FinishMoves ==
  ASSUME AttemptInv, NEW p \in Procs, Finish(p), StatusesStay(p)
  PROVE  Moves(p)
<1>1. /\ pc'[p] = Rest(p)
      /\ \A q \in Procs : q # p => pc'[q] = pc[q] /\ at'[q] = at[q]
  BY AttemptFacts, FinishFacts DEF Finish, LoginInv, TypeOK
<1>2. \A l \in Logins, h \in Handlers : h # p /\ lock[l] = h => lock'[l] = h
  BY DEF Finish, Release
<1>3. PlaceKnown(p)'
  BY <1>1, ProcsDiffer DEF PlaceKnown, Rest, Scanning, Finalizing, Abandoning
<1>4. Shows(p)' /\ Alone(p)'
  BY <1>1, RestShows DEF Rest
<1> QED BY <1>1, <1>2, <1>3, <1>4 DEF Moves, OthersStay

\* Only the process that attempts a login makes it fail.
LEMMA AbandonAttempt ==
  ASSUME AttemptInv, NEW p \in Procs, NEW l \in Logins, p \in Logins => p = l,
         NEW s \in {"FAILED", "EXPIRED"}, Abandon(p, l, s),
         s = "FAILED" => Attempting(p) /\ at[p] = l
  PROVE  Moves(p)
<1>1. /\ pc'[p] = "dropping"
      /\ \A q \in Procs : q # p => \/ pc'[q] = pc[q]
                                   \/ q \in Logins /\ pc'[q] = "ended"
      /\ \A q \in Procs : q # p => at'[q] = at[q]
  <2> DEFINE f == [pc EXCEPT ![p] = "dropping"]
  <2>1. \A q \in Procs : f[q] = IF q = p THEN "dropping" ELSE pc[q]
    BY AttemptFacts DEF TypeOK
  <2>2. pc' = [q \in Procs |-> IF q \in {l} \ {p} /\ pc[q] # "none"
                              THEN "ended" ELSE f[q]]
    BY DEF Abandon, CancelTasks
  <2>3. \A q \in Procs : q # p => at'[q] = at[q]
    BY AttemptFacts DEF Abandon, TypeOK
  <2> HIDE DEF f
  <2> QED BY <2>1, <2>2, <2>3
<1>2. \A k \in Logins, h \in Handlers : h # p /\ lock[k] = h => lock'[k] = h
  BY ProcsDiffer DEF Abandon, ReleaseTasks
<1>3. StatusesStay(p)
  BY AttemptFacts DEF StatusesStay, Abandon, TypeOK
<1>4. PlaceKnown(p)'
  BY <1>1, ProcsDiffer DEF PlaceKnown, Scanning, Abandoning
<1>5. Shows(p)' /\ Alone(p)'
  BY <1>1, RestShows
<1> QED BY <1>1, <1>2, <1>3, <1>4, <1>5 DEF Moves, OthersStay

\* A process that goes on without touching a login.
LEMMA WalkMoves ==
  ASSUME AttemptInv, NEW p \in Procs, UNCHANGED <<login, lock>>,
         \A q \in Procs : q # p => pc'[q] = pc[q] /\ at'[q] = at[q],
         PlaceKnown(p)',
         \/ pc'[p] \in {"clearing", "restart", "idle", "lockCode", "lockPassword",
                        "dropping", "removing"}
         \/ Attempting(p) /\ at'[p] = at[p] /\ Shows(p)'
  PROVE  Moves(p)
<1>1. OthersStay(p) /\ StatusesStay(p)
  BY DEF OthersStay, StatusesStay
<1>2. Shows(p)' /\ Alone(p)'
  <2>1. CASE pc'[p] \in {"clearing", "restart", "idle", "lockCode", "lockPassword",
                         "dropping", "removing"}
    BY <2>1, RestShows
  <2>2. CASE Attempting(p) /\ at'[p] = at[p] /\ Shows(p)'
    <3>1. \A q \in Procs : q # p /\ Attempting(q)' => Attempting(q)
      BY DEF Attempting
    <3> QED BY <2>2, <3>1, AttemptFacts DEF Alone
  <2> QED BY <2>1, <2>2
<1> QED BY <1>1, <1>2 DEF Moves

LEMMA DropMoves ==
  ASSUME AttemptInv, NEW p \in Procs, Drop(p)
  PROVE  Moves(p)
<1>1. pc'[p] = "removing" /\ \A q \in Procs : q # p => pc'[q] = pc[q]
  BY AttemptFacts DEF Drop, TypeOK
<1>2. PlaceKnown(p)'
  BY <1>1, ProcsDiffer DEF PlaceKnown, Scanning, Abandoning
<1> QED BY <1>1, <1>2, WalkMoves DEF Drop

LEMMA RemoveMoves ==
  ASSUME AttemptInv, NEW p \in Procs, Remove(p)
  PROVE  Moves(p)
BY FinishMoves DEF Remove, StatusesStay

LEMMA StartFailsMoves ==
  ASSUME AttemptInv, NEW h \in Handlers, StartFails(h)
  PROVE  Moves(h)
BY AbandonAttempt, AttemptFacts, ProcsDiffer DEF StartFails, Attempting

LEMMA PollMoves ==
  ASSUME AttemptInv, NEW h \in Handlers, NEW l \in Logins, Poll(h, l)
  PROVE  Moves(h)
BY AbandonAttempt, ProcsDiffer DEF Poll

LEMMA SubmitMoves ==
  ASSUME AttemptInv, NEW h \in Handlers, NEW l \in Logins,
         NEW w \in {"lockCode", "lockPassword"}, Submit(h, l, w)
  PROVE  Moves(h)
<1>1. /\ pc'[h] = w
      /\ \A q \in Procs : q # h => pc'[q] = pc[q] /\ at'[q] = at[q]
      /\ UNCHANGED <<login, lock>>
  BY AttemptFacts, ProcsDiffer DEF Submit, TypeOK
<1>2. PlaceKnown(h)'
  BY <1>1, ProcsDiffer DEF PlaceKnown, Scanning
<1> QED BY <1>1, <1>2, WalkMoves, ProcsDiffer

LEMMA SignReturnsMoves ==
  ASSUME AttemptInv, NEW h \in Handlers, SignReturns(h)
  PROVE  Moves(h)
BY FinishMoves, ProcsDiffer DEF SignReturns, StatusesStay

LEMMA SignFailsMoves ==
  ASSUME AttemptInv, NEW h \in Handlers, SignFails(h)
  PROVE  Moves(h)
<1>1. Attempting(h) /\ h \in Procs /\ h \notin Logins
  BY ProcsDiffer DEF SignFails, Attempting, Signing
<1> QED BY <1>1, AbandonAttempt, AttemptFacts DEF SignFails

LEMMA QrFailsMoves ==
  ASSUME AttemptInv, NEW l \in Logins, QrFails(l)
  PROVE  Moves(l)
<1>1. Attempting(l) /\ l \in Procs
  BY ProcsDiffer DEF QrFails, Attempting, Scanning
<1> QED BY <1>1, AbandonAttempt, AttemptFacts DEF QrFails

LEMMA TimesOutMoves ==
  ASSUME AttemptInv, NEW l \in Logins, pc[l] \in Scanning \cup Finalizing, TimesOut(l)
  PROVE  Moves(l)
<1>1. Attempting(l) /\ l \in Procs /\ at[l] = l
  BY AttemptFacts, ProcsDiffer DEF Attempting, Signing
<1>2. CASE l \in late
  BY <1>1, <1>2, AbandonAttempt DEF TimesOut
<1>3. CASE l \notin late
  <2>a. pc' = [pc EXCEPT ![l] = "qrLock"] /\ UNCHANGED <<login, at, lock>>
    BY <1>3 DEF TimesOut
  <2>1. /\ pc'[l] = "qrLock" /\ \A q \in Procs : q # l => pc'[q] = pc[q]
        /\ UNCHANGED <<login, at, lock>>
    BY <1>1, <2>a, AttemptFacts DEF TypeOK
  <2>2. PlaceKnown(l)'
    BY <2>1, ProcsDiffer DEF PlaceKnown, Scanning
  <2>3. Shows(l)'
    BY <1>1, <2>1, AttemptFacts, ProcsDiffer DEF Shows
  <2> QED BY <1>1, <2>1, <2>2, <2>3, WalkMoves
<1> QED BY <1>2, <1>3

LEMMA ExpirePendingMoves ==
  ASSUME AttemptInv, NEW l \in Logins, ExpirePending(l)
  PROVE  Moves(Maintenance)
BY AbandonAttempt, ProcsDiffer DEF ExpirePending

LEMMA RestartReadMoves ==
  ASSUME AttemptInv, RestartRead
  PROVE  Moves(Maintenance)
<1>1. /\ pc'[Maintenance] = "restart"
      /\ \A q \in Procs : q # Maintenance => pc'[q] = pc[q] /\ at'[q] = at[q]
      /\ UNCHANGED <<login, lock>>
  BY AttemptFacts, ProcsDiffer DEF RestartRead, TypeOK
<1>2. PlaceKnown(Maintenance)'
  BY <1>1, ProcsDiffer DEF PlaceKnown
<1> QED BY <1>1, <1>2, WalkMoves, ProcsDiffer

LEMMA RestartUserMoves ==
  ASSUME AttemptInv, NEW u \in Users, RestartUser(u)
  PROVE  Moves(Maintenance)
<1>1. /\ pc'[Maintenance] \in {"idle", pc[Maintenance]}
      /\ \A q \in Procs : q # Maintenance => pc'[q] = pc[q]
      /\ UNCHANGED <<login, lock, at>>
  BY AttemptFacts, ProcsDiffer DEF RestartUser, TypeOK
<1>2. PlaceKnown(Maintenance) /\ PlaceKnown(Maintenance)'
  BY <1>1, AttemptFacts, ProcsDiffer DEF PlaceKnown
<1>3. pc'[Maintenance] \in {"idle", "restart", "dropping", "removing"}
  BY <1>1, <1>2 DEF PlaceKnown, Abandoning
<1> QED BY <1>1, <1>2, <1>3, WalkMoves, ProcsDiffer

LEMMA ClearAccountMoves ==
  ASSUME AttemptInv, NEW h \in Handlers, ClearAccount(h)
  PROVE  Moves(h)
<1>1. /\ pc'[h] = "idle" /\ \A q \in Procs : q # h => pc'[q] = pc[q]
      /\ UNCHANGED <<login, lock, at>>
  BY AttemptFacts, ProcsDiffer DEF ClearAccount, TypeOK
<1>2. PlaceKnown(h)'
  BY <1>1, ProcsDiffer DEF PlaceKnown, Scanning
<1> QED BY <1>1, <1>2, WalkMoves, ProcsDiffer

LEMMA ClearBeginMoves ==
  ASSUME AttemptInv, NEW h \in Handlers, NEW u \in Users, ClearBegin(h, u)
  PROVE  Moves(h)
<1> DEFINE mine == {l \in listed : login[l].user = u}
<1>1. /\ pc'[h] = "clearing" /\ UNCHANGED <<login, at>>
      /\ \A q \in Procs : q # h => \/ pc'[q] = pc[q]
                                   \/ q \in Logins /\ pc'[q] = "ended"
  <2> DEFINE f == [pc EXCEPT ![h] = "clearing"]
  <2>1. \A q \in Procs : f[q] = IF q = h THEN "clearing" ELSE pc[q]
    BY AttemptFacts DEF TypeOK
  <2>2. pc' = [q \in Procs |-> IF q \in mine /\ pc[q] # "none" THEN "ended" ELSE f[q]]
    BY DEF ClearBegin, CancelTasks
  <2>3. mine \subseteq Logins /\ UNCHANGED <<login, at>>
    BY AttemptFacts DEF ClearBegin, TypeOK
  <2> HIDE DEF f, mine
  <2> QED BY <2>1, <2>2, <2>3, ProcsDiffer
<1>2. \A k \in Logins, g \in Handlers : g # h /\ lock[k] = g => lock'[k] = g
  BY ProcsDiffer DEF ClearBegin, ReleaseTasks
<1>3. PlaceKnown(h)' /\ Shows(h)' /\ Alone(h)'
  BY <1>1, RestShows, ProcsDiffer DEF PlaceKnown, Scanning
<1> QED BY <1>1, <1>2, <1>3 DEF Moves, OthersStay, StatusesStay

\* _new_pending: nobody works on a login that was not begun.
LEMMA NewPendingMoves ==
  ASSUME AttemptInv, NEW h \in Handlers, NEW u \in Users,
         NEW m \in {"qr", "phone"}, NEW l \in Logins, NewPending(h, u, m, l)
  PROVE  Moves(h)
<1>1. /\ pc'[h] = "starting" /\ at'[h] = l /\ UNCHANGED lock
      /\ \A q \in Procs : q # h => pc'[q] = pc[q] /\ at'[q] = at[q]
      /\ login[l].status = "NONE" /\ login'[l].status = "LOADING"
      /\ \A k \in Logins : k # l => login'[k] = login[k]
  BY AttemptFacts, ProcsDiffer DEF NewPending, TypeOK
<1>2. OthersStay(h) /\ StatusesStay(h)
  BY <1>1 DEF OthersStay, StatusesStay
<1>3. PlaceKnown(h)' /\ Shows(h)'
  BY <1>1, ProcsDiffer DEF PlaceKnown, Shows, Scanning, Signing, Finalizing
<1>4. Alone(h)'
  <2>1. ASSUME NEW q \in Procs, q # h, at'[q] = l, Attempting(q)'
        PROVE  FALSE
    <3>1. pc[q] \in Working /\ at[q] = l
      BY <1>1, <2>1 DEF Attempting, Working, Signing, Submitting, Finalizing, Scanning
    <3> QED BY <1>1, <3>1, AttemptFacts DEF LoginInv, WorksOnBegun
  <2> QED BY <1>1, <2>1 DEF Alone
<1> QED BY <1>2, <1>3, <1>4 DEF Moves

\* A step of the process that attempts login l, with or without a new status.
LEMMA AttemptGoesOn ==
  ASSUME AttemptInv, NEW p \in Procs, Attempting(p), NEW l \in Logins, at[p] = l,
         \A q \in Procs : q # p => pc'[q] = pc[q],
         UNCHANGED at,
         \A k \in Logins : /\ login'[k].method = login[k].method
                           /\ k # l => login'[k].status = login[k].status,
         \A k \in Logins, h \in Handlers : h # p /\ lock[k] = h => lock'[k] = h,
         login'[l].status \notin {"FAILED", "CONNECTED"}, PlaceKnown(p)', Shows(p)'
  PROVE  Moves(p)
<1>1. OthersStay(p) /\ StatusesStay(p)
  BY DEF OthersStay, StatusesStay
<1>2. \A q \in Procs : q # p /\ at[q] = l /\ Attempting(q)' => Attempting(q)
  BY DEF Attempting
<1>3. Alone(p)'
  BY <1>2, AttemptFacts DEF Alone
<1> QED BY <1>1, <1>3 DEF Moves

\* A write of a status, by the process that attempts the login.
LEMMA StatusWritten ==
  ASSUME AttemptInv, NEW l \in Logins, NEW s, SetStatus(l, s)
  PROVE  /\ login'[l].status = s
         /\ \A k \in Logins : /\ login'[k].method = login[k].method
                              /\ k # l => login'[k].status = login[k].status
BY AttemptFacts DEF SetStatus, TypeOK

LEMMA StartReadyMoves ==
  ASSUME AttemptInv, NEW h \in Handlers, StartReady(h)
  PROVE  Moves(h)
<1>1. Attempting(h) /\ h \in Procs /\ at[h] \in Logins
  BY AttemptFacts, ProcsDiffer DEF StartReady, Attempting
<1> DEFINE l == at[h]
<1>2. /\ pc'[h] = "ready" /\ \A q \in Procs : q # h => pc'[q] = pc[q]
      /\ UNCHANGED <<at, lock>>
  BY <1>1, AttemptFacts DEF StartReady, TypeOK
<1>3. /\ login'[l].status = IF login[l].method = "qr" THEN "WAITING_FOR_SCAN"
                            ELSE "WAITING_FOR_CODE"
      /\ \A k \in Logins : /\ login'[k].method = login[k].method
                           /\ k # l => login'[k].status = login[k].status
  BY <1>1, StatusWritten DEF StartReady
<1>4. PlaceKnown(h)' /\ Shows(h)'
  BY <1>1, <1>2, <1>3, ProcsDiffer DEF PlaceKnown, Shows, Signing, Finalizing, Scanning
<1> QED BY <1>1, <1>2, <1>3, <1>4, AttemptGoesOn

\* The QR task takes over the attempt of the handler that began the login.
LEMMA StartDoneMoves ==
  ASSUME AttemptInv, NEW h \in Handlers, StartDone(h)
  PROVE  \E p \in Procs : Moves(p)
<1>1. PICK l \in Logins : at[h] = l /\ h \in Procs /\ pc[h] = "ready"
  BY AttemptFacts, ProcsDiffer DEF StartDone, LoginInv, WorksOnBegun, Working
<1>2. /\ pc'[h] = "idle" /\ at'[h] = Nobody /\ UNCHANGED <<login, lock>>
      /\ pc'[l] = IF login[l].method = "qr" THEN "qrWait" ELSE pc[l]
      /\ \A q \in Procs \ {h, l} : pc'[q] = pc[q]
      /\ \A q \in Procs \ {h} : at'[q] = at[q]
      /\ l \in Procs /\ l # h
  BY <1>1, AttemptFacts, ProcsDiffer DEF StartDone, TypeOK
<1>3. CASE login[l].method # "qr"
  <2>1. PlaceKnown(h)'
    BY <1>1, <1>2, ProcsDiffer DEF PlaceKnown, Scanning
  <2> QED BY <1>1, <1>2, <1>3, <2>1, WalkMoves
<1>4. CASE login[l].method = "qr"
  <2>1. Attempting(h) /\ Shows(h) /\ Alone(h) /\ at[l] = l
    BY <1>1, <1>2, <1>4, AttemptFacts DEF Attempting
  <2>2. OthersStay(l) /\ StatusesStay(l)
    BY <1>1, <1>2 DEF OthersStay, StatusesStay
  <2>3. PlaceKnown(l)' /\ Shows(l)'
    BY <1>1, <1>2, <1>4, <2>1, ProcsDiffer DEF PlaceKnown, Shows, Scanning
  <2>4. \A q \in Procs : q # l /\ Attempting(q)' => Attempting(q) /\ q # h /\ at'[q] = at[q]
    BY <1>1, <1>2 DEF Attempting, Signing, Finalizing, Scanning
  <2>5. Alone(l)'
    BY <1>1, <1>2, <2>1, <2>4 DEF Alone
  <2> QED BY <1>2, <2>2, <2>3, <2>5 DEF Moves
<1> QED BY <1>3, <1>4

\* submit_code, submit_2fa: under the lock, the status shows that nobody else
\* attempts the login.
LEMMA SubmitEnterMoves ==
  ASSUME AttemptInv, NEW h \in Handlers, SubmitEnter(h)
  PROVE  Moves(h)
<1>1. at[h] \in Logins /\ h \in Procs
  BY AttemptFacts, ProcsDiffer
     DEF SubmitEnter, LoginInv, WorksOnBegun, Working, Submitting
<1> DEFINE l == at[h]
<1>2. UNCHANGED login /\ lock[l] = Nobody
  BY DEF SubmitEnter
<1>3. CASE Finish(h)
  BY <1>1, <1>2, <1>3, FinishMoves DEF StatusesStay
<1>4. CASE ~Finish(h)
  <2>1. /\ lock' = [lock EXCEPT ![l] = h] /\ UNCHANGED at
        /\ \/ pc' = [pc EXCEPT ![h] = "signCode"]
           \/ pc' = [pc EXCEPT ![h] = "signPassword"]
        /\ login[l].status \in {"WAITING_FOR_CODE", "TWO_FACTOR_REQUIRED"}
    BY <1>1, <1>4, AttemptFacts DEF SubmitEnter, WaitsForCode, WaitsForPassword, TypeOK
  <2>2. /\ pc'[h] \in {"signCode", "signPassword"} /\ lock'[l] = h
        /\ \A q \in Procs : q # h => pc'[q] = pc[q] /\ at'[q] = at[q]
        /\ \A k \in Logins : k # l => lock'[k] = lock[k]
    BY <1>1, <2>1, AttemptFacts DEF TypeOK
  <2>3. OthersStay(h) /\ StatusesStay(h)
    BY <1>2, <2>2, ProcsDiffer, OnboardingAssumption DEF OthersStay, StatusesStay
  <2>4. PlaceKnown(h)' /\ Shows(h)'
    BY <1>1, <2>1, <2>2, ProcsDiffer DEF PlaceKnown, Shows, Scanning, Finalizing
  <2>5. ASSUME NEW q \in Procs, q # h, at[q] = l, Attempting(q)
        PROVE  FALSE
    <3>1. PlaceKnown(q) /\ Shows(q)
      BY AttemptFacts
    <3>2. CASE q \in Handlers
      BY <1>2, <2>1, <2>5, <3>1, <3>2, OnboardingAssumption
         DEF Shows, PlaceKnown, Attempting, Procs
    <3>3. CASE q \in Logins
      <4>1. pc[q] \in Scanning \cup Finalizing
        BY <2>5, <3>1, <3>3 DEF PlaceKnown, Attempting, Signing, Abandoning
      <4>2. at[q] = q
        BY <3>3, AttemptFacts
      <4> QED BY <2>1, <2>5, <3>1, <3>3, <4>1, <4>2 DEF Shows
    <3>4. CASE q = Maintenance
      BY <2>5, <3>1, <3>4 DEF PlaceKnown, Attempting, Signing, Finalizing, Scanning,
         Abandoning
    <3> QED BY <3>2, <3>3, <3>4 DEF Procs
  <2>6. Alone(h)'
    <3>1. \A q \in Procs : q # h /\ Attempting(q)' => Attempting(q)
      BY <1>2, <2>2 DEF Attempting
    <3> QED BY <1>2, <2>1, <2>2, <2>5, <3>1 DEF Alone
  <2> QED BY <2>3, <2>4, <2>6 DEF Moves
<1> QED BY <1>3, <1>4

LEMMA SignAcceptedMoves ==
  ASSUME AttemptInv, NEW h \in Handlers, SignAccepted(h)
  PROVE  Moves(h)
<1>1. Attempting(h) /\ h \in Procs /\ at[h] \in Logins /\ lock[at[h]] = h
  BY AttemptFacts, ProcsDiffer DEF SignAccepted, Attempting, Signing, Shows
<1> DEFINE l == at[h]
<1>2. /\ pc'[h] = "getMe" /\ \A q \in Procs : q # h => pc'[q] = pc[q]
      /\ UNCHANGED <<at, lock>>
  BY <1>1, AttemptFacts DEF SignAccepted, TypeOK
<1>3. /\ login'[l].status = "CONNECTING"
      /\ \A k \in Logins : /\ login'[k].method = login[k].method
                           /\ k # l => login'[k].status = login[k].status
  BY <1>1, StatusWritten DEF SignAccepted
<1>4. PlaceKnown(h)' /\ Shows(h)'
  BY <1>1, <1>2, <1>3, ProcsDiffer DEF PlaceKnown, Shows, Scanning
<1> QED BY <1>1, <1>2, <1>3, <1>4, AttemptGoesOn

LEMMA QrScannedMoves ==
  ASSUME AttemptInv, NEW l \in Logins, QrScanned(l)
  PROVE  Moves(l)
<1>1. Attempting(l) /\ l \in Procs /\ at[l] = l
  BY AttemptFacts, ProcsDiffer DEF QrScanned, Attempting, Scanning
<1>2. /\ pc'[l] = "getMe" /\ \A q \in Procs : q # l => pc'[q] = pc[q]
      /\ UNCHANGED <<at, lock>>
  BY <1>1, AttemptFacts DEF QrScanned, TypeOK
<1>3. /\ login'[l].status = "CONNECTING"
      /\ \A k \in Logins : /\ login'[k].method = login[k].method
                           /\ k # l => login'[k].status = login[k].status
  BY <1>1, StatusWritten DEF QrScanned
<1>4. PlaceKnown(l)' /\ Shows(l)'
  BY <1>1, <1>2, <1>3, ProcsDiffer DEF PlaceKnown, Shows, Finalizing
<1> QED BY <1>1, <1>2, <1>3, <1>4, AttemptGoesOn

\* A process that ends its attempt with a status of its own.
LEMMA AttemptReturns ==
  ASSUME AttemptInv, NEW p \in Procs, Attempting(p), Finish(p),
         \A k \in Logins : /\ login'[k].method = login[k].method
                           /\ k # at[p] => login'[k].status = login[k].status
  PROVE  Moves(p)
BY FinishMoves DEF StatusesStay

LEMMA SignNeedsPasswordMoves ==
  ASSUME AttemptInv, NEW h \in Handlers, SignNeedsPassword(h)
  PROVE  Moves(h)
<1>1. Attempting(h) /\ h \in Procs /\ at[h] \in Logins
  BY AttemptFacts, ProcsDiffer DEF SignNeedsPassword, Attempting, Signing
<1> QED BY <1>1, AttemptReturns, StatusWritten DEF SignNeedsPassword

LEMMA QrNeedsPasswordMoves ==
  ASSUME AttemptInv, NEW l \in Logins, QrNeedsPassword(l)
  PROVE  Moves(l)
<1>1. Attempting(l) /\ l \in Procs /\ at[l] = l
  BY AttemptFacts, ProcsDiffer DEF QrNeedsPassword, Attempting, Scanning
<1> QED BY <1>1, AttemptReturns, StatusWritten DEF QrNeedsPassword

LEMMA QrEnterMoves ==
  ASSUME AttemptInv, NEW l \in Logins, QrEnter(l)
  PROVE  Moves(l)
<1>1. Attempting(l) /\ l \in Procs /\ at[l] = l /\ Shows(l) /\ Alone(l)
  BY AttemptFacts, ProcsDiffer DEF QrEnter, Attempting, Scanning
<1>2. UNCHANGED login /\ lock[l] = Nobody
  BY DEF QrEnter
<1>3. CASE Finish(l)
  BY <1>1, <1>2, <1>3, AttemptReturns
<1>4. CASE ~Finish(l)
  <2>1. lock' = [lock EXCEPT ![l] = l] /\ pc' = [pc EXCEPT ![l] = "qrRefresh"]
        /\ UNCHANGED at /\ login[l].status = "WAITING_FOR_SCAN"
    BY <1>4 DEF QrEnter
  <2>2. /\ pc'[l] = "qrRefresh" /\ \A q \in Procs : q # l => pc'[q] = pc[q]
        /\ \A k \in Logins, h \in Handlers : lock[k] = h => lock'[k] = h
    BY <1>1, <1>2, <2>1, AttemptFacts, ProcsDiffer, OnboardingAssumption
       DEF TypeOK, Procs
  <2>3. PlaceKnown(l)' /\ Shows(l)'
    BY <1>1, <1>2, <2>1, <2>2, ProcsDiffer DEF PlaceKnown, Shows, Scanning
  <2>4. login[l].status \notin {"FAILED", "CONNECTED"}
    BY <2>1
  <2> QED BY <1>1, <1>2, <2>1, <2>2, <2>3, <2>4, AttemptGoesOn
<1> QED BY <1>3, <1>4

LEMMA QrRefreshedMoves ==
  ASSUME AttemptInv, NEW l \in Logins, QrRefreshed(l)
  PROVE  Moves(l)
<1>1. Attempting(l) /\ l \in Procs /\ at[l] = l /\ Shows(l) /\ Alone(l)
  BY AttemptFacts, ProcsDiffer DEF QrRefreshed, Attempting, Scanning
<1>2. /\ pc'[l] = "qrWait" /\ \A q \in Procs : q # l => pc'[q] = pc[q]
      /\ UNCHANGED <<login, at>>
      /\ \A k \in Logins, h \in Handlers : lock[k] = h => lock'[k] = h
  BY <1>1, AttemptFacts, ProcsDiffer DEF QrRefreshed, Release, TypeOK
<1>3. PlaceKnown(l)' /\ Shows(l)'
  BY <1>1, <1>2, ProcsDiffer DEF PlaceKnown, Shows, Scanning, QrRefreshed
<1>4. login[l].status \notin {"FAILED", "CONNECTED"}
  BY <1>1 DEF Alone
<1> QED BY <1>1, <1>2, <1>3, <1>4, AttemptGoesOn

LEMMA FinalizeRaisesMoves ==
  ASSUME AttemptInv, NEW p \in Procs, FinalizeRaises(p)
  PROVE  Moves(p)
<1>1. /\ Attempting(p) /\ at[p] \in Logins /\ (p \in Logins => at[p] = p)
      /\ pc[p] \in Finalizing
  BY AttemptFacts DEF FinalizeRaises, Attempting, Signing, Finalizing
<1> QED BY <1>1, AbandonAttempt, AttemptReturns, TimesOutMoves DEF FinalizeRaises

\* A finalizing process goes on.
LEMMA FinalizingGoesOn ==
  ASSUME AttemptInv, NEW p \in Procs, pc[p] \in Finalizing,
         NEW x \in Finalizing, pc' = [pc EXCEPT ![p] = x], UNCHANGED <<at, lock>>,
         \A k \in Logins : /\ login'[k].method = login[k].method
                           /\ login'[k].status = login[k].status
  PROVE  Moves(p)
<1>1. /\ Attempting(p) /\ at[p] \in Logins /\ (p \in Logins => at[p] = p)
      /\ Shows(p) /\ Alone(p) /\ PlaceKnown(p)
  BY AttemptFacts DEF Attempting, Signing
<1>2. pc'[p] = x /\ \A q \in Procs : q # p => pc'[q] = pc[q]
  BY AttemptFacts DEF TypeOK
<1>3. PlaceKnown(p)'
  BY <1>1, <1>2, ProcsDiffer
     DEF PlaceKnown, Finalizing, Scanning, Abandoning
<1>4. Shows(p)'
  <2>1. x \in Signing /\ pc[p] \in Signing /\ x \notin {"starting", "ready"}
    BY DEF Signing, Finalizing
  <2> QED BY <1>1, <1>2, <2>1 DEF Shows
<1>5. login'[at[p]].status \notin {"FAILED", "CONNECTED"}
  BY <1>1 DEF Alone
<1> QED BY <1>1, <1>2, <1>3, <1>4, <1>5, AttemptGoesOn

LEMMA GotMeMoves ==
  ASSUME AttemptInv, NEW p \in Procs, NEW me \in Accounts, GotMe(p, me)
  PROVE  Moves(p)
<1>1. /\ Attempting(p) /\ at[p] \in Logins /\ (p \in Logins => at[p] = p)
      /\ pc[p] \in Finalizing /\ "leaving" \in Finalizing
  BY AttemptFacts DEF GotMe, Attempting, Signing, Finalizing
<1>2. CASE me # login[at[p]].user
  BY <1>1, <1>2, AbandonAttempt DEF GotMe
<1>3. CASE me = login[at[p]].user
  <2>1. /\ login' = [login EXCEPT ![at[p]].account = me]
        /\ pc' = [pc EXCEPT ![p] = "leaving"] /\ UNCHANGED <<at, lock>>
    BY <1>3 DEF GotMe
  <2>2. \A k \in Logins : /\ login'[k].method = login[k].method
                          /\ login'[k].status = login[k].status
    BY <1>1, <2>1, AttemptFacts DEF TypeOK
  <2> QED BY <1>1, <2>1, <2>2, FinalizingGoesOn
<1> QED BY <1>2, <1>3

LEMMA PromoteMoves ==
  ASSUME AttemptInv, NEW p \in Procs, Promote(p)
  PROVE  Moves(p)
<1>1. /\ Attempting(p) /\ at[p] \in Logins /\ (p \in Logins => at[p] = p)
      /\ pc[p] \in Finalizing /\ "saveConnected" \in Finalizing
  BY AttemptFacts DEF Promote, Attempting, Signing, Finalizing
<1>2. CASE at[p] \in temp
  <2>1. pc' = [pc EXCEPT ![p] = "saveConnected"] /\ UNCHANGED <<login, at, lock>>
    BY <1>2 DEF Promote
  <2> QED BY <1>1, <2>1, FinalizingGoesOn
<1>3. CASE at[p] \notin temp
  <2>1. Abandon(p, at[p], "FAILED") \/ (Finish(p) /\ UNCHANGED login)
    BY <1>3 DEF Promote
  <2> QED BY <1>1, <2>1, AbandonAttempt, AttemptReturns
<1> QED BY <1>2, <1>3

LEMMA SaveConnectedMoves ==
  ASSUME AttemptInv, NEW p \in Procs, SaveConnected(p)
  PROVE  Moves(p)
<1>1. /\ pc[p] \in Finalizing /\ "startUser" \in Finalizing
      /\ pc' = [pc EXCEPT ![p] = "startUser"] /\ UNCHANGED <<login, at, lock>>
  BY DEF SaveConnected, Finalizing
<1> QED BY <1>1, FinalizingGoesOn

LEMMA StartUserMoves ==
  ASSUME AttemptInv, NEW p \in Procs, StartUser(p)
  PROVE  Moves(p)
<1>1. Attempting(p) /\ at[p] \in Logins /\ Finish(p)
  BY AttemptFacts DEF StartUser, Attempting, Signing, Finalizing
<1>2. \A k \in Logins : /\ login'[k].method = login[k].method
                        /\ k # at[p] => login'[k].status = login[k].status
  BY <1>1, AttemptFacts DEF StartUser, TypeOK
<1> QED BY <1>1, <1>2, AttemptReturns

\* The steps that leave logins and processes alone: a clear that shuts a login
\* down, a disconnection, the passing of time.
LEMMA StillKeeps ==
  ASSUME AttemptInv, LoginInv', UNCHANGED <<login, lock, pc, at>>
  PROVE  AttemptInv' /\ OutcomeStays
BY DEF AttemptInv, KnownPlaces, OneAttempt, AttemptsShow, Attempting, OutcomeStays

-----------------------------------------------------------------------------
(* The inductive step of AttemptInv and what follows from it.              *)

\* A step of the program moves a process, or is still.
SomeoneMoves ==
  (\E p \in Procs : Moves(p)) \/ UNCHANGED <<login, lock, pc, at>>

LEMMA StepMoves ==
  ASSUME AttemptInv, NEW p \in Procs, Step(p)
  PROVE  SomeoneMoves
BY DropMoves, RemoveMoves, GotMeMoves, PromoteMoves, SaveConnectedMoves,
   StartUserMoves, FinalizeRaisesMoves DEF Step, SomeoneMoves

LEMMA RequestMoves ==
  ASSUME AttemptInv, NEW h \in Handlers, Request(h)
  PROVE  SomeoneMoves
<1>1. ASSUME NEW u \in Users, Disconnect(h, u)
      PROVE  SomeoneMoves
  BY <1>1 DEF Disconnect, SomeoneMoves
<1> QED BY <1>1, ProcsDiffer, NewPendingMoves, PollMoves, SubmitMoves,
        ClearBeginMoves DEF Request, SomeoneMoves

LEMMA HandlerStepMoves ==
  ASSUME AttemptInv, NEW h \in Handlers, HandlerStep(h)
  PROVE  SomeoneMoves
<1>1. ASSUME NEW l \in Logins, ClearLogin(h, l)
      PROVE  SomeoneMoves
  BY <1>1 DEF ClearLogin, SomeoneMoves
<1>2. CASE \/ StartReady(h) \/ StartFails(h) \/ StartDone(h) \/ SubmitEnter(h)
           \/ SignAccepted(h) \/ SignNeedsPassword(h) \/ SignReturns(h)
           \/ SignFails(h) \/ ClearAccount(h)
  BY <1>2, ProcsDiffer, StartReadyMoves, StartFailsMoves, StartDoneMoves,
     SubmitEnterMoves, SignAcceptedMoves, SignNeedsPasswordMoves, SignReturnsMoves,
     SignFailsMoves, ClearAccountMoves DEF SomeoneMoves
<1> QED BY <1>1, <1>2, StepMoves, ProcsDiffer DEF HandlerStep

LEMMA QrStepMoves ==
  ASSUME AttemptInv, NEW l \in Logins, QrStep(l)
  PROVE  SomeoneMoves
<1>1. CASE QrTimesOut(l)
  BY <1>1, ProcsDiffer, TimesOutMoves DEF QrTimesOut, Scanning, SomeoneMoves
<1>2. CASE QrScanned(l) \/ QrNeedsPassword(l) \/ QrFails(l) \/ QrEnter(l)
           \/ QrRefreshed(l)
  BY <1>2, ProcsDiffer, QrScannedMoves, QrNeedsPasswordMoves, QrFailsMoves,
     QrEnterMoves, QrRefreshedMoves DEF SomeoneMoves
<1> QED BY <1>1, <1>2, StepMoves, ProcsDiffer DEF QrStep

LEMMA MaintenanceMoves ==
  ASSUME AttemptInv,
         MaintenanceStep \/ RestartRead \/ \E l \in Logins : ExpirePending(l)
  PROVE  SomeoneMoves
BY ProcsDiffer, DropMoves, RemoveMoves, RestartUserMoves, RestartReadMoves,
   ExpirePendingMoves DEF MaintenanceStep, SomeoneMoves

LEMMA NextMoves ==
  ASSUME AttemptInv, [Next]_vars
  PROVE  SomeoneMoves
<1>1. ASSUME NEW l \in Logins, Late(l)
      PROVE  SomeoneMoves
  BY <1>1 DEF Late, SomeoneMoves
<1>2. CASE UNCHANGED vars
  BY <1>2 DEF vars, SomeoneMoves
<1> QED BY <1>1, <1>2, RequestMoves, HandlerStepMoves, QrStepMoves, MaintenanceMoves
        DEF Next

LEMMA AttemptStep ==
  ASSUME AttemptInv, LoginInv', [Next]_vars
  PROVE  AttemptInv' /\ OutcomeStays
BY NextMoves, OneMover, StillKeeps DEF SomeoneMoves

LEMMA InitAttempts == Init => AttemptInv
<1> SUFFICES ASSUME Init PROVE AttemptInv
  OBVIOUS
<1>1. \A p \in Procs : pc[p] = IF p \in Logins THEN "none" ELSE "idle"
  BY DEF Init
<1>2. KnownPlaces
  BY <1>1, ProcsDiffer DEF KnownPlaces, Scanning
<1>3. \A p \in Procs : ~Attempting(p)
  BY <1>1 DEF Attempting, Signing, Finalizing, Scanning
<1>4. AttemptsShow
  BY <1>1, ProcsDiffer DEF AttemptsShow, Signing, Finalizing, Scanning
<1> QED BY <1>2, <1>3, <1>4, InitKeeps DEF AttemptInv, OneAttempt

\* pending.lock and the status under it let one process at a time attempt a
\* login: the handler that begins it, its QR task or one submission
\* (telegram_onboarding.py).
THEOREM AttemptInvariant == Spec => []AttemptInv
<1>1. AttemptInv /\ LoginInv' /\ [Next]_vars => AttemptInv'
  BY AttemptStep
<1> QED BY <1>1, InitAttempts, LoginInvariant, PTL DEF Spec

\* A login that failed or connected (_fail, _finalize) keeps its outcome: no
\* submission and no QR task that is still under way writes another status, and
\* only its time being over makes it EXPIRED.
THEOREM OutcomesAreFinal == Spec => OutcomeIsFinal
<1>1. AttemptInv /\ LoginInv' /\ [Next]_vars => OutcomeStays
  BY AttemptStep
<1> QED BY <1>1, AttemptInvariant, LoginInvariant, PTL
        DEF Spec, OutcomeIsFinal, OutcomeStays

-----------------------------------------------------------------------------
(* The limits of _new_pending.                                             *)

\* Only _new_pending adds to _pending.
NothingListed == listed' \subseteq listed

LEMMA StepLists ==
  ASSUME NEW p \in Procs, Step(p)
  PROVE  NothingListed
BY DEF Step, NothingListed, Drop, Remove, GotMe, Promote, SaveConnected, StartUser,
   FinalizeRaises, TimesOut

LEMMA RequestLists ==
  ASSUME NEW h \in Handlers, Request(h)
  PROVE  \/ NothingListed
         \/ \E u \in Users, m \in {"qr", "phone"}, l \in Logins : NewPending(h, u, m, l)
BY DEF Request, NothingListed, Poll, Submit, ClearBegin, Disconnect

LEMMA HandlerStepLists ==
  ASSUME NEW h \in Handlers, HandlerStep(h)
  PROVE  NothingListed
<1>1. CASE \/ StartReady(h) \/ StartFails(h) \/ StartDone(h) \/ SubmitEnter(h)
           \/ SignAccepted(h) \/ SignNeedsPassword(h) \/ SignReturns(h)
           \/ SignFails(h) \/ ClearAccount(h) \/ \E l \in Logins : ClearLogin(h, l)
  BY <1>1 DEF NothingListed, StartReady, StartFails, StartDone, SubmitEnter,
     SignAccepted, SignNeedsPassword, SignReturns, SignFails, ClearAccount, ClearLogin
<1> QED BY <1>1, StepLists, ProcsDiffer DEF HandlerStep

LEMMA QrStepLists ==
  ASSUME NEW l \in Logins, QrStep(l)
  PROVE  NothingListed
<1>1. CASE \/ QrScanned(l) \/ QrNeedsPassword(l) \/ QrFails(l) \/ QrTimesOut(l)
           \/ QrEnter(l) \/ QrRefreshed(l)
  BY <1>1 DEF NothingListed, QrScanned, QrNeedsPassword, QrFails, QrTimesOut,
     TimesOut, QrEnter, QrRefreshed
<1> QED BY <1>1, StepLists, ProcsDiffer DEF QrStep

LEMMA NextLists ==
  ASSUME [Next]_vars
  PROVE  \/ NothingListed
         \/ \E h \in Handlers, u \in Users, m \in {"qr", "phone"}, l \in Logins :
              NewPending(h, u, m, l)
<1>1. CASE \E l \in Logins : Late(l) \/ ExpirePending(l)
  BY <1>1 DEF NothingListed, Late, ExpirePending
<1>2. CASE RestartRead \/ MaintenanceStep
  BY <1>2 DEF NothingListed, RestartRead, MaintenanceStep, Drop, Remove, RestartUser
<1>3. CASE UNCHANGED vars
  BY <1>3 DEF NothingListed, vars
<1> QED BY <1>1, <1>2, <1>3, RequestLists, HandlerStepLists, QrStepLists DEF Next

\* A login that is begun becomes active within the limits.
LEMMA BeginsWithinLimits ==
  ASSUME LoginInv, NEW h \in Handlers, NEW u \in Users, NEW m \in {"qr", "phone"},
         NEW l \in Logins, NewPending(h, u, m, l)
  PROVE  /\ ActiveLogins' \ ActiveLogins \subseteq {l}
         /\ Cardinality(ActiveLogins') <= MaxPending
         /\ \A k \in ActiveLogins' \ {l} : login'[k].user # login'[l].user
<1>1. /\ listed' = listed \cup {l} /\ login'[l].user = u
      /\ \A k \in Logins : k # l => login'[k] = login[k]
      /\ listed \subseteq Logins
  BY DEF NewPending, LoginInv, TypeOK
<1>2. ActiveLogins' \subseteq ActiveLogins \cup {l} /\ ActiveLogins \subseteq Logins
  BY <1>1 DEF ActiveLogins, Active
<1>3. IsFiniteSet(ActiveLogins)
  BY <1>2, FS_Subset, OnboardingAssumption
<1>4. Cardinality(ActiveLogins') <= Cardinality(ActiveLogins \cup {l})
      /\ IsFiniteSet(ActiveLogins \cup {l})
  BY <1>2, <1>3, FS_Subset, FS_AddElement
<1>5. /\ Cardinality(ActiveLogins \cup {l}) <= Cardinality(ActiveLogins) + 1
      /\ Cardinality(ActiveLogins) \in Nat
  <2>1. Cardinality(ActiveLogins) \in Nat
    BY <1>3, FS_CardinalityType
  <2>2. \/ Cardinality(ActiveLogins \cup {l}) = Cardinality(ActiveLogins)
        \/ Cardinality(ActiveLogins \cup {l}) = Cardinality(ActiveLogins) + 1
    BY <1>3, FS_AddElement, Zenon
  <2> QED BY <2>1, <2>2
<1>6. Cardinality(ActiveLogins) < MaxPending /\ MaxPending \in Nat
      /\ \A k \in ActiveLogins : login[k].user # u
  BY OnboardingAssumption DEF NewPending
<1>7. Cardinality(ActiveLogins') \in Nat
      /\ Cardinality(ActiveLogins \cup {l}) \in Nat
  BY <1>2, <1>4, FS_Subset, FS_CardinalityType
<1>8. Cardinality(ActiveLogins') <= MaxPending
  BY <1>4, <1>5, <1>6, <1>7
<1>9. \A k \in ActiveLogins' \ {l} : login'[k].user # login'[l].user
  BY <1>1, <1>2, <1>6
<1> QED BY <1>2, <1>8, <1>9

\* README.md, MAX_PENDING_QR_LOGINS: the limit, and one login at a time for a
\* user, are passed only when a late answer of Telegram revives a login that
\* status() or maintenance had expired.
THEOREM LimitsHoldButForLateAnswers == Spec => LimitsPassedByLateAnswerOnly
<1> DEFINE Within ==
      \A l \in ActiveLogins' \ ActiveLogins :
        login[l].status # "EXPIRED" =>
          /\ Cardinality(ActiveLogins') <= MaxPending
          /\ \A k \in ActiveLogins' \ {l} : login'[k].user # login'[l].user
<1>1. AttemptInv /\ LoginInv' /\ [Next]_vars => Within
  <2> SUFFICES ASSUME AttemptInv, LoginInv', [Next]_vars PROVE Within
    OBVIOUS
  <2>1. CASE NothingListed
    <3>1. ASSUME NEW l \in ActiveLogins' \ ActiveLogins, login[l].status # "EXPIRED"
          PROVE  FALSE
      <4>1. l \in listed /\ l \in Logins /\ Active(l)' /\ ~Active(l)
        BY <2>1, <3>1, AttemptFacts DEF NothingListed, ActiveLogins, TypeOK
      <4>2. login[l].status \in {"FAILED", "CONNECTED"}
        BY <3>1, <4>1, AttemptFacts DEF Active, Terminal, LoginInv, BegunForUser
      <4>3. login'[l].status \in {"FAILED", "CONNECTED", "EXPIRED"}
        BY <4>1, <4>2, AttemptStep DEF OutcomeStays
      <4> QED BY <4>1, <4>3 DEF Active, Terminal
    <3> QED BY <3>1
  <2>2. ASSUME NEW h \in Handlers, NEW u \in Users, NEW m \in {"qr", "phone"},
               NEW l \in Logins, NewPending(h, u, m, l)
        PROVE  Within
    BY <2>2, BeginsWithinLimits, AttemptFacts
  <2> QED BY <2>1, <2>2, NextLists
<1> QED BY <1>1, AttemptInvariant, LoginInvariant, PTL
        DEF Spec, LimitsPassedByLateAnswerOnly
=============================================================================
