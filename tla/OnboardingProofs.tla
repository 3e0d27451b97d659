-------------------------- MODULE OnboardingProofs --------------------------
(* Proofs about Onboarding for every set of users, logins and handlers:    *)
(* LoginInv is inductive, so the state is well typed and a connected       *)
(* client always works on its owner's session.                             *)
EXTENDS Onboarding, TLAPS

-----------------------------------------------------------------------------
(* What the operators shared by the actions do.                            *)

\* A process that returns stands nowhere; the others and the locks' types stay.
LEMMA FinishFacts ==
  ASSUME TypeOK, WorksOnBegun, NEW p \in Procs, Finish(p)
  PROVE  /\ pc' \in [Procs -> PC] /\ at' \in [Procs -> Logins \cup {Nobody}]
         /\ lock' \in [Logins -> Handlers \cup Logins \cup {Nobody}]
         /\ pc'[p] \in {"ended", "idle"}
         /\ \A q \in Procs : q # p => pc'[q] = pc[q] /\ at'[q] = at[q]
         /\ \A l \in Logins : at'[l] = l
<1>1. pc' \in [Procs -> PC] /\ pc'[p] \in {"ended", "idle"}
  BY DEF TypeOK, Finish, Rest, PC
<1>2. lock' \in [Logins -> Handlers \cup Logins \cup {Nobody}]
  BY DEF TypeOK, Finish, Release
<1>3. \A q \in Procs : q # p => pc'[q] = pc[q] /\ at'[q] = at[q]
  BY DEF TypeOK, Finish
<1>4. at' \in [Procs -> Logins \cup {Nobody}] /\ \A l \in Logins : at'[l] = l
  BY DEF TypeOK, Finish, WorksOnBegun, Procs
<1> QED BY <1>1, <1>2, <1>3, <1>4

\* Writing a status keeps a login's user and account, and the other logins.
LEMMA SetStatusFacts ==
  ASSUME TypeOK, NEW l \in Logins, NEW s \in Status \ {"NONE"}, NEW b \in BOOLEAN,
         login' = [login EXCEPT ![l].status = s, ![l].phone = b]
  PROVE  /\ login' \in [Logins -> [user : Users \cup {Nobody},
                                  method : {"qr", "phone"}, status : Status,
                                  account : Accounts \cup {Nobody},
                                  phone : BOOLEAN]]
         /\ \A k \in Logins : login'[k].user = login[k].user
         /\ \A k \in Logins : login'[k].account = login[k].account
         /\ \A k \in Logins : k # l => login'[k] = login[k]
         /\ login'[l].status # "NONE"
<1> DEFINE r == [[login[l] EXCEPT !.status = s] EXCEPT !.phone = b]
<1>1. login[l] \in [user : Users \cup {Nobody}, method : {"qr", "phone"},
                   status : Status, account : Accounts \cup {Nobody},
                   phone : BOOLEAN]
  BY DEF TypeOK
<1>2. login' = [login EXCEPT ![l] = r]
  BY DEF TypeOK
<1>3. /\ r \in [user : Users \cup {Nobody}, method : {"qr", "phone"},
                status : Status, account : Accounts \cup {Nobody},
                phone : BOOLEAN]
      /\ r.user = login[l].user /\ r.account = login[l].account
      /\ r.status = s
  BY <1>1
<1> HIDE DEF r
<1>4. login'[l] = r /\ \A k \in Logins : k # l => login'[k] = login[k]
  BY <1>2 DEF TypeOK
<1> QED BY <1>2, <1>3, <1>4 DEF TypeOK

\* Whoever gives a login up, what the invariant says of processes and logins
\* is kept.
LEMMA AbandonFacts ==
  ASSUME LoginInv, NEW p \in Procs, NEW l \in Logins,
         NEW s \in {"FAILED", "EXPIRED"}, login[l].status # "NONE",
         p \in Logins => p = l, Abandon(p, l, s), UNCHANGED <<listed, clearing>>
  PROVE  /\ login' \in [Logins -> [user : Users \cup {Nobody},
                                  method : {"qr", "phone"}, status : Status,
                                  account : Accounts \cup {Nobody},
                                  phone : BOOLEAN]]
         /\ pc' \in [Procs -> PC] /\ at' \in [Procs -> Logins \cup {Nobody}]
         /\ lock' \in [Logins -> Handlers \cup Logins \cup {Nobody}]
         /\ BegunForUser' /\ WorksOnBegun' /\ PromotesItsUser' /\ ClearsSomeone'
<1> USE DEF LoginInv
<1>1. s \in Status \ {"NONE"}
  BY DEF Status, Terminal
<1>2. /\ login' \in [Logins -> [user : Users \cup {Nobody},
                               method : {"qr", "phone"}, status : Status,
                               account : Accounts \cup {Nobody},
                               phone : BOOLEAN]]
      /\ \A k \in Logins : login'[k].user = login[k].user
      /\ \A k \in Logins : login'[k].account = login[k].account
      /\ \A k \in Logins : k # l => login'[k] = login[k]
      /\ login'[l].status # "NONE"
  BY <1>1, SetStatusFacts DEF Abandon
<1>3. /\ pc' \in [Procs -> PC]
      /\ pc'[p] \in {"dropping", "ended"}
      /\ \A q \in Procs : q # p => pc'[q] \in {pc[q], "ended"}
  <2> DEFINE f == [pc EXCEPT ![p] = "dropping"]
  <2>1. f \in [Procs -> PC] /\ \A q \in Procs : q # p => f[q] = pc[q]
    BY DEF TypeOK, PC, Abandoning
  <2>2. f[p] = "dropping"
    BY DEF TypeOK
  <2>3. pc' = [q \in Procs |-> IF q \in {l} \ {p} /\ pc[q] # "none"
                              THEN "ended" ELSE f[q]]
    BY DEF Abandon, CancelTasks
  <2> HIDE DEF f
  <2> QED BY <2>1, <2>2, <2>3 DEF PC
<1>4. /\ at' \in [Procs -> Logins \cup {Nobody}] /\ at'[p] = l
      /\ \A q \in Procs : q # p => at'[q] = at[q]
      /\ \A k \in Logins : at'[k] = k
  BY DEF TypeOK, WorksOnBegun, Abandon, Procs
<1>5. lock' \in [Logins -> Handlers \cup Logins \cup {Nobody}]
  BY DEF TypeOK, Abandon, ReleaseTasks
<1>6. BegunForUser'
  BY <1>2 DEF BegunForUser
<1>7. WorksOnBegun'
  <2>1. ASSUME NEW q \in Procs, pc'[q] \in Working
        PROVE  at'[q] \in Logins /\ login'[at'[q]].status # "NONE"
    <3>1. CASE q = p
      BY <1>2, <1>4, <3>1
    <3>2. CASE q # p
      <4>1. pc[q] \in Working /\ at'[q] = at[q]
        BY <1>3, <1>4, <2>1, <3>2 DEF Working, Submitting, Finalizing,
           Abandoning, Scanning
      <4> QED BY <1>2, <4>1 DEF WorksOnBegun
    <3> QED BY <3>1, <3>2
  <2> QED BY <1>4, <2>1 DEF WorksOnBegun
<1>8. PromotesItsUser'
  <2>1. ASSUME NEW q \in Procs, pc'[q] = "leaving"
        PROVE  login'[at'[q]].account = login'[at'[q]].user
    <3>1. q # p /\ pc[q] = "leaving" /\ at'[q] = at[q]
      BY <1>3, <1>4, <2>1
    <3>2. at[q] \in Logins
      BY <3>1 DEF WorksOnBegun, Working, Finalizing
    <3> QED BY <1>2, <3>1, <3>2 DEF PromotesItsUser
  <2> QED BY <2>1 DEF PromotesItsUser
<1>9. ClearsSomeone'
  BY <1>3 DEF ClearsSomeone, Procs
<1> QED BY <1>2, <1>3, <1>4, <1>5, <1>6, <1>7, <1>8, <1>9

AbandonStep(p, l, s) ==
  /\ Abandon(p, l, s)
  /\ UNCHANGED <<listed, late, online, temp, todo, clearing, owned, restart,
                 cleared>>

\* An action that consists of giving a login up keeps the invariant.
LEMMA AbandonKeeps ==
  ASSUME LoginInv, NEW p \in Procs, NEW l \in Logins,
         NEW s \in {"FAILED", "EXPIRED"}, login[l].status # "NONE",
         p \in Logins => p = l, AbandonStep(p, l, s)
  PROVE  LoginInv'
<1>1. /\ Abandon(p, l, s)
      /\ UNCHANGED <<listed, late, online, temp, todo, clearing, session, running,
                     flagged, restart, cleared>>
  BY DEF AbandonStep, owned
<1>2. /\ login' \in [Logins -> [user : Users \cup {Nobody},
                               method : {"qr", "phone"}, status : Status,
                               account : Accounts \cup {Nobody},
                               phone : BOOLEAN]]
      /\ pc' \in [Procs -> PC] /\ at' \in [Procs -> Logins \cup {Nobody}]
      /\ lock' \in [Logins -> Handlers \cup Logins \cup {Nobody}]
      /\ BegunForUser' /\ WorksOnBegun' /\ PromotesItsUser' /\ ClearsSomeone'
  BY <1>1, AbandonFacts
<1>3. TypeOK'
  BY <1>1, <1>2 DEF LoginInv, TypeOK
<1>4. ClientOwnsItsSession'
  BY <1>1 DEF LoginInv, ClientOwnsItsSession
<1> QED BY <1>2, <1>3, <1>4 DEF LoginInv

-----------------------------------------------------------------------------
(* One lemma for each action that is not a case of AbandonKeeps.           *)

\* start, start_phone: the login fails.
LEMMA StartFailsKeeps ==
  ASSUME LoginInv, NEW h \in Handlers, StartFails(h)
  PROVE  LoginInv'
<1>1. at[h] \in Logins /\ login[at[h]].status # "NONE"
  BY DEF Procs, LoginInv, WorksOnBegun, Working, StartFails
<1>2. AbandonStep(h, at[h], "FAILED")
  BY DEF AbandonStep, StartFails
<1> QED BY <1>1, <1>2, AbandonKeeps, OnboardingAssumption DEF Procs

\* submit_code, submit_2fa: the login fails.
LEMMA SignFailsKeeps ==
  ASSUME LoginInv, NEW h \in Handlers, SignFails(h)
  PROVE  LoginInv'
<1>1. at[h] \in Logins /\ login[at[h]].status # "NONE"
  BY DEF Procs, LoginInv, WorksOnBegun, Working, Submitting,
     SignFails
<1>2. AbandonStep(h, at[h], "FAILED")
  BY DEF AbandonStep, SignFails
<1> QED BY <1>1, <1>2, AbandonKeeps, OnboardingAssumption DEF Procs

\* status: a late login expires.
LEMMA PollKeeps ==
  ASSUME LoginInv, NEW h \in Handlers, NEW l \in Logins, Poll(h, l)
  PROVE  LoginInv'
<1>1. login[l].status # "NONE"
  BY DEF LoginInv, BegunForUser, Poll
<1>2. AbandonStep(h, l, "EXPIRED")
  BY DEF AbandonStep, Poll
<1> QED BY <1>1, <1>2, AbandonKeeps, OnboardingAssumption DEF Procs

\* expire_pending.
LEMMA ExpirePendingKeeps ==
  ASSUME LoginInv, NEW l \in Logins, ExpirePending(l)
  PROVE  LoginInv'
<1>1. login[l].status # "NONE"
  BY DEF LoginInv, BegunForUser, ExpirePending, Expirable
<1>2. AbandonStep(Maintenance, l, "EXPIRED")
  BY DEF AbandonStep, ExpirePending
<1> QED BY <1>1, <1>2, AbandonKeeps, OnboardingAssumption DEF Procs

\* _wait_for_qr: the login fails.
LEMMA QrFailsKeeps ==
  ASSUME LoginInv, NEW l \in Logins, QrFails(l)
  PROVE  LoginInv'
<1>1. login[l].status # "NONE"
  BY DEF Procs, LoginInv, WorksOnBegun, Working, Scanning,
     QrFails
<1>2. AbandonStep(l, l, "FAILED")
  BY DEF AbandonStep, QrFails
<1> QED BY <1>1, <1>2, AbandonKeeps, OnboardingAssumption DEF Procs

\* A process that leaves login l with another status and returns.
LEMMA ReturnKeeps ==
  ASSUME LoginInv, NEW p \in Procs, NEW l \in Logins, Finish(p),
         login[l].status # "NONE", login'[l].status # "NONE",
         \A k \in Logins : login'[k].user = login[k].user,
         \A k \in Logins : login'[k].account = login[k].account,
         \A k \in Logins : k # l => login'[k] = login[k],
         UNCHANGED <<listed, clearing>>
  PROVE  BegunForUser' /\ WorksOnBegun' /\ PromotesItsUser' /\ ClearsSomeone'
<1> USE DEF LoginInv
<1>1. /\ pc'[p] \in {"ended", "idle"}
      /\ \A q \in Procs : q # p => pc'[q] = pc[q] /\ at'[q] = at[q]
      /\ \A k \in Logins : at'[k] = k
  BY FinishFacts
<1>2. BegunForUser'
  BY DEF BegunForUser
<1>3. WorksOnBegun'
  <2>1. ASSUME NEW q \in Procs, pc'[q] \in Working
        PROVE  at'[q] \in Logins /\ login'[at'[q]].status # "NONE"
    <3>1. q # p
      BY <1>1, <2>1 DEF Working, Submitting, Finalizing, Abandoning, Scanning
    <3>2. pc[q] \in Working /\ at'[q] = at[q]
      BY <1>1, <2>1, <3>1
    <3> QED BY <3>2 DEF WorksOnBegun
  <2> QED BY <1>1, <2>1 DEF WorksOnBegun
<1>4. PromotesItsUser'
  <2>1. ASSUME NEW q \in Procs, pc'[q] = "leaving"
        PROVE  login'[at'[q]].account = login'[at'[q]].user
    <3>1. q # p /\ pc[q] = "leaving" /\ at'[q] = at[q]
      BY <1>1, <2>1
    <3>2. at[q] \in Logins
      BY <3>1 DEF WorksOnBegun, Working, Finalizing
    <3> QED BY <3>1, <3>2 DEF PromotesItsUser
  <2> QED BY <2>1 DEF PromotesItsUser
<1>5. ClearsSomeone'
  BY <1>1 DEF ClearsSomeone, Procs
<1> QED BY <1>2, <1>3, <1>4, <1>5

\* A process that returns and changes nothing else.
LEMMA PlainReturnKeeps ==
  ASSUME LoginInv, NEW p \in Procs, Finish(p),
         UNCHANGED <<login, listed, late, online, temp, todo, clearing, owned,
                     restart, cleared>>
  PROVE  LoginInv'
<1> USE DEF LoginInv
<1>1. TypeOK'
  BY FinishFacts DEF TypeOK, owned
<1>2. BegunForUser' /\ ClientOwnsItsSession'
  BY DEF BegunForUser, ClientOwnsItsSession, owned
<1>3. WorksOnBegun' /\ PromotesItsUser' /\ ClearsSomeone'
  BY FinishFacts DEF WorksOnBegun, PromotesItsUser, ClearsSomeone, Procs,
     Working, Submitting, Finalizing, Abandoning, Scanning
<1> QED BY <1>1, <1>2, <1>3

\* The check under the lock, by a submission.
LEMMA SubmitEnterKeeps ==
  ASSUME LoginInv, NEW h \in Handlers, SubmitEnter(h)
  PROVE  LoginInv'
<1>1. CASE Finish(h)
  BY <1>1, PlainReturnKeeps DEF SubmitEnter, Procs
<1>2. CASE ~Finish(h)
  <2> USE DEF LoginInv
  <2>1. /\ lock' = [lock EXCEPT ![at[h]] = h]
      /\ \/ pc' = [pc EXCEPT ![h] = "signCode"]
         \/ pc' = [pc EXCEPT ![h] = "signPassword"]
    BY <1>2 DEF SubmitEnter,
     TypeOK, Procs
  <2>2. UNCHANGED <<login, listed, late, online, temp, at, todo, clearing,
                    session, running, flagged, restart, cleared>>
    BY <1>2 DEF SubmitEnter, owned
  <2>3. TypeOK'
    BY <2>1, <2>2 DEF TypeOK, PC, Submitting, Scanning, Procs
  <2>4. WorksOnBegun'
    BY <2>1, <2>2 DEF WorksOnBegun, Working, Submitting, Scanning, SubmitEnter,
     TypeOK, Procs
  <2> QED BY <2>1, <2>2, <2>3, <2>4 DEF BegunForUser, PromotesItsUser,
          ClearsSomeone, ClientOwnsItsSession, TypeOK, Procs
<1> QED BY <1>1, <1>2

\* The check under the lock, by the QR task.
LEMMA QrEnterKeeps ==
  ASSUME LoginInv, NEW l \in Logins, QrEnter(l)
  PROVE  LoginInv'
<1>1. CASE Finish(l)
  BY <1>1, PlainReturnKeeps DEF QrEnter, Procs
<1>2. CASE ~Finish(l)
  <2> USE DEF LoginInv
  <2>1. /\ lock' = [lock EXCEPT ![l] = l]
      /\ pc' = [pc EXCEPT ![l] = "qrRefresh"]
    BY <1>2 DEF QrEnter,
     TypeOK, Procs
  <2>2. UNCHANGED <<login, listed, late, online, temp, at, todo, clearing,
                    session, running, flagged, restart, cleared>>
    BY <1>2 DEF QrEnter, owned
  <2>3. TypeOK'
    BY <2>1, <2>2 DEF TypeOK, PC, Submitting, Scanning, Procs
  <2>4. WorksOnBegun'
    BY <2>1, <2>2 DEF WorksOnBegun, Working, Submitting, Scanning, QrEnter,
     TypeOK, Procs
  <2> QED BY <2>1, <2>2, <2>3, <2>4 DEF BegunForUser, PromotesItsUser,
          ClearsSomeone, ClientOwnsItsSession, TypeOK, Procs
<1> QED BY <1>1, <1>2

\* The code is right and a password is wanted.
LEMMA SignNeedsPasswordKeeps ==
  ASSUME LoginInv, NEW h \in Handlers, SignNeedsPassword(h)
  PROVE  LoginInv'
<1> USE DEF LoginInv
<1>1. at[h] \in Logins /\ login[at[h]].status # "NONE"
  BY DEF SignNeedsPassword, WorksOnBegun, Working, Submitting, Procs
<1>2. login' = [login EXCEPT ![at[h]].status = "TWO_FACTOR_REQUIRED",
                             ![at[h]].phone = login[at[h]].phone]
  BY <1>1 DEF SignNeedsPassword, SetStatus, TypeOK
<1>3. /\ "TWO_FACTOR_REQUIRED" \in Status \ {"NONE"}
      /\ login[at[h]].phone \in BOOLEAN
  BY <1>1 DEF Status, TypeOK
<1>4. /\ Finish(h) /\ late' = late \ {at[h]}
      /\ UNCHANGED <<listed, online, temp, todo, clearing, session, running,
                     flagged, restart, cleared>>
  BY DEF SignNeedsPassword, owned
<1>5. TypeOK'
  BY <1>1, <1>2, <1>3, <1>4, FinishFacts, SetStatusFacts DEF TypeOK, Procs
<1>6. BegunForUser' /\ WorksOnBegun' /\ PromotesItsUser' /\ ClearsSomeone'
  BY <1>1, <1>2, <1>3, <1>4, SetStatusFacts, ReturnKeeps DEF Procs
<1> QED BY <1>4, <1>5, <1>6 DEF ClientOwnsItsSession

\* The scan is done and a password is wanted.
LEMMA QrNeedsPasswordKeeps ==
  ASSUME LoginInv, NEW l \in Logins, QrNeedsPassword(l)
  PROVE  LoginInv'
<1> USE DEF LoginInv
<1>1. l \in Logins /\ login[l].status # "NONE"
  BY DEF QrNeedsPassword, WorksOnBegun, Working, Scanning, Procs
<1>2. login' = [login EXCEPT ![l].status = "TWO_FACTOR_REQUIRED",
                             ![l].phone = login[l].phone]
  BY <1>1 DEF QrNeedsPassword, SetStatus, TypeOK
<1>3. /\ "TWO_FACTOR_REQUIRED" \in Status \ {"NONE"}
      /\ login[l].phone \in BOOLEAN
  BY <1>1 DEF Status, TypeOK
<1>4. /\ Finish(l) /\ late' = late \ {l}
      /\ UNCHANGED <<listed, online, temp, todo, clearing, session, running,
                     flagged, restart, cleared>>
  BY DEF QrNeedsPassword, owned
<1>5. TypeOK'
  BY <1>1, <1>2, <1>3, <1>4, FinishFacts, SetStatusFacts DEF TypeOK, Procs
<1>6. BegunForUser' /\ WorksOnBegun' /\ PromotesItsUser' /\ ClearsSomeone'
  BY <1>1, <1>2, <1>3, <1>4, SetStatusFacts, ReturnKeeps DEF Procs
<1> QED BY <1>4, <1>5, <1>6 DEF ClientOwnsItsSession

\* What a timeout does to a QR task that waits or is finalizing.
LEMMA TimesOutKeeps ==
  ASSUME LoginInv, NEW l \in Logins, pc[l] \in Working, TimesOut(l)
  PROVE  LoginInv'
<1>1. login[l].status # "NONE"
  BY DEF LoginInv, WorksOnBegun, Procs
<1>2. CASE l \in late
  <2>1. AbandonStep(l, l, "EXPIRED")
    BY <1>2 DEF TimesOut, AbandonStep
  <2> QED BY <1>1, <2>1, AbandonKeeps DEF Procs
<1>3. CASE l \notin late
  <2> USE DEF LoginInv
  <2>1. /\ pc' = [pc EXCEPT ![l] = "qrLock"]
        /\ UNCHANGED <<login, listed, late, online, temp, lock, at, todo, clearing,
                       session, running, flagged, restart, cleared>>
    BY <1>3 DEF TimesOut, owned
  <2>2. TypeOK'
    BY <2>1 DEF TypeOK, PC, Scanning
  <2>3. WorksOnBegun'
    BY <1>1, <2>1 DEF WorksOnBegun, TypeOK, Procs
  <2> QED BY <2>1, <2>2, <2>3 DEF BegunForUser, PromotesItsUser, ClearsSomeone,
          ClientOwnsItsSession, TypeOK, Procs
<1> QED BY <1>2, <1>3

\* The QR token or the login runs out.
LEMMA QrTimesOutKeeps ==
  ASSUME LoginInv, NEW l \in Logins, QrTimesOut(l)
  PROVE  LoginInv'
BY TimesOutKeeps DEF QrTimesOut, Working, Scanning

\* An exception in _finalize.
LEMMA FinalizeRaisesKeeps ==
  ASSUME LoginInv, NEW p \in Procs, FinalizeRaises(p)
  PROVE  LoginInv'
<1>1. pc[p] \in Working
  BY DEF FinalizeRaises, Working, Finalizing
<1>2. /\ at[p] \in Logins /\ login[at[p]].status # "NONE"
      /\ p \in Logins => at[p] = p
  BY <1>1 DEF LoginInv, WorksOnBegun
<1>3. CASE AbandonStep(p, at[p], "FAILED")
  BY <1>2, <1>3, AbandonKeeps
<1>4. CASE /\ Finish(p)
           /\ UNCHANGED <<login, listed, late, online, temp, todo, clearing, owned,
                          restart, cleared>>
  BY <1>4, PlainReturnKeeps
<1>5. CASE p \in Logins /\ TimesOut(p)
  BY <1>1, <1>5, TimesOutKeeps
<1> QED BY <1>3, <1>4, <1>5 DEF FinalizeRaises, AbandonStep

\* The identity check of _finalize.
LEMMA GotMeKeeps ==
  ASSUME LoginInv, NEW p \in Procs, NEW me \in Accounts, GotMe(p, me)
  PROVE  LoginInv'
<1>1. /\ at[p] \in Logins /\ login[at[p]].status # "NONE"
      /\ p \in Logins => at[p] = p
  BY DEF GotMe, LoginInv, WorksOnBegun, Working, Finalizing
<1>2. CASE me # login[at[p]].user
  <2>1. AbandonStep(p, at[p], "FAILED")
    BY <1>2 DEF GotMe, AbandonStep
  <2> QED BY <1>1, <2>1, AbandonKeeps
<1>3. CASE me = login[at[p]].user
  <2> USE DEF LoginInv
  <2> DEFINE l == at[p]
  <2>1. /\ login' = [login EXCEPT ![l].account = me]
        /\ pc' = [pc EXCEPT ![p] = "leaving"]
        /\ UNCHANGED <<listed, late, online, temp, lock, at, todo, clearing,
                       session, running, flagged, restart, cleared>>
    BY <1>3 DEF GotMe, owned
  <2>2. /\ login' \in [Logins -> [user : Users \cup {Nobody},
                                 method : {"qr", "phone"}, status : Status,
                                 account : Accounts \cup {Nobody},
                                 phone : BOOLEAN]]
        /\ \A k \in Logins : login'[k].user = login[k].user
        /\ \A k \in Logins : login'[k].status = login[k].status
        /\ \A k \in Logins : k # l => login'[k] = login[k]
        /\ login'[l].account = me
    BY <1>1, <2>1 DEF TypeOK
  <2> HIDE DEF l
  <2>3. TypeOK'
    BY <2>1, <2>2 DEF TypeOK, PC, Finalizing
  <2>4. BegunForUser'
    BY <2>1, <2>2 DEF BegunForUser
  <2>5. WorksOnBegun'
    BY <1>1, <2>1, <2>2 DEF WorksOnBegun, TypeOK
  <2>6. PromotesItsUser'
    <3>1. ASSUME NEW q \in Procs, pc'[q] = "leaving"
          PROVE  login'[at'[q]].account = login'[at'[q]].user
      <4>1. CASE at[q] = l
        BY <1>3, <2>1, <2>2, <4>1, <1>1 DEF l
      <4>2. CASE at[q] # l
        <5>1. pc[q] = "leaving"
          BY <2>1, <3>1, <4>2 DEF l, TypeOK
        <5>2. at[q] \in Logins
          BY <5>1 DEF WorksOnBegun, Working, Finalizing
        <5> QED BY <2>1, <2>2, <4>2, <5>1, <5>2 DEF PromotesItsUser
      <4> QED BY <4>1, <4>2
    <3> QED BY <3>1 DEF PromotesItsUser
  <2>7. ClearsSomeone' /\ ClientOwnsItsSession'
    BY <2>1 DEF ClearsSomeone, ClientOwnsItsSession, TypeOK, Procs
  <2> QED BY <2>3, <2>4, <2>5, <2>6, <2>7
<1> QED BY <1>2, <1>3

\* The session changes place, or is lost.
LEMMA PromoteKeeps ==
  ASSUME LoginInv, NEW p \in Procs, Promote(p)
  PROVE  LoginInv'
<1> USE DEF LoginInv
<1>1. PICK l \in Logins : at[p] = l /\ login[l].status # "NONE"
  BY DEF Promote, WorksOnBegun, Working, Finalizing
<1>2. PICK u \in Users : login[l].user = u /\ login[l].account = u
  BY <1>1 DEF Promote, PromotesItsUser, BegunForUser
<1>3. p \in Logins => p = l
  BY <1>1 DEF WorksOnBegun
<1>4. /\ online' = online \ {l} /\ running' = running \ {u} /\ temp' \subseteq temp
      /\ UNCHANGED <<listed, late, todo, clearing, flagged, restart, cleared>>
      /\ \/ session' = [session EXCEPT ![u] = u]
         \/ session' = [session EXCEPT ![u] = Nobody]
  BY <1>1, <1>2 DEF Promote
<1>5. ClientOwnsItsSession'
  BY <1>1, <1>2, <1>3, <1>4 DEF ClientOwnsItsSession, TypeOK
<1>6. /\ online' \subseteq Logins /\ temp' \subseteq Logins
      /\ running' \subseteq Users
      /\ session' \in [Users -> Accounts \cup {Nobody}]
  BY <1>1, <1>2, <1>3, <1>4 DEF TypeOK, Accounts
<1>7. CASE /\ pc' = [pc EXCEPT ![p] = "saveConnected"]
           /\ UNCHANGED <<login, at, lock>>
  <2>1. TypeOK'
    BY <1>4, <1>6, <1>7 DEF TypeOK, PC, Finalizing
  <2>2. WorksOnBegun'
    BY <1>1, <1>2, <1>3, <1>7 DEF WorksOnBegun, TypeOK
  <2>3. PromotesItsUser'
    BY <1>7 DEF PromotesItsUser, TypeOK
  <2>4. BegunForUser' /\ ClearsSomeone'
    BY <1>4, <1>7 DEF BegunForUser, ClearsSomeone, TypeOK, Procs
  <2> QED BY <1>5, <2>1, <2>2, <2>3, <2>4
<1>8. CASE Abandon(p, l, "FAILED")
  <2>1. /\ login' \in [Logins -> [user : Users \cup {Nobody},
                                 method : {"qr", "phone"}, status : Status,
                                 account : Accounts \cup {Nobody},
                                 phone : BOOLEAN]]
        /\ pc' \in [Procs -> PC] /\ at' \in [Procs -> Logins \cup {Nobody}]
        /\ lock' \in [Logins -> Handlers \cup Logins \cup {Nobody}]
        /\ BegunForUser' /\ WorksOnBegun' /\ PromotesItsUser' /\ ClearsSomeone'
    <3>1. UNCHANGED <<listed, clearing>> /\ "FAILED" \in {"FAILED", "EXPIRED"}
      BY <1>4
    <3> QED BY <1>1, <1>2, <1>3, <1>8, <3>1, AbandonFacts
  <2>2. TypeOK'
    BY <1>4, <1>6, <2>1 DEF TypeOK
  <2> QED BY <1>5, <2>1, <2>2
<1>9. CASE Finish(p) /\ UNCHANGED login
  <2>1. TypeOK'
    BY <1>4, <1>6, <1>9, FinishFacts DEF TypeOK
  <2>2. BegunForUser' /\ WorksOnBegun' /\ PromotesItsUser' /\ ClearsSomeone'
    <3>1. UNCHANGED <<listed, clearing>>
      BY <1>4
    <3>2. /\ login'[l].status # "NONE"
          /\ \A k \in Logins : login'[k].user = login[k].user
          /\ \A k \in Logins : login'[k].account = login[k].account
          /\ \A k \in Logins : k # l => login'[k] = login[k]
      BY <1>1, <1>2, <1>3, <1>9
    <3> QED BY <1>1, <1>2, <1>3, <1>9, <3>1, <3>2, ReturnKeeps
  <2> QED BY <1>5, <2>1, <2>2
<1> QED BY <1>1, <1>7, <1>8, <1>9 DEF Promote

\* The promoted session is started.
LEMMA StartUserKeeps ==
  ASSUME LoginInv, NEW p \in Procs, StartUser(p)
  PROVE  LoginInv'
<1> DEFINE l == at[p]
           u == login[l].user
<1> USE DEF LoginInv
<1>1. l \in Logins /\ login[l].status # "NONE" /\ u \in Users
  BY DEF StartUser, WorksOnBegun, Working, Finalizing, BegunForUser
<1>2. /\ u \in running \/ session[u] = u
      /\ running' = running \cup {u}
      /\ login' = [login EXCEPT ![l].status = "CONNECTED", ![l].phone = FALSE]
      /\ Finish(p)
      /\ UNCHANGED <<listed, late, online, temp, todo, clearing, session, flagged,
                     restart, cleared>>
  BY DEF StartUser, CanStart, UserOf
<1>3. "CONNECTED" \in Status \ {"NONE"}
  BY DEF Status, Terminal
<1> HIDE DEF l, u
<1>4. TypeOK'
  BY <1>1, <1>2, <1>3, FinishFacts, SetStatusFacts DEF TypeOK
<1>5. BegunForUser' /\ WorksOnBegun' /\ PromotesItsUser' /\ ClearsSomeone'
  BY <1>1, <1>2, <1>3, SetStatusFacts, ReturnKeeps
<1>6. ClientOwnsItsSession'
  BY <1>2 DEF ClientOwnsItsSession
<1> QED BY <1>4, <1>5, <1>6

-----------------------------------------------------------------------------
(* The actions that only set a few entries follow from the definitions.    *)

USE DEF LoginInv, TypeOK, BegunForUser, WorksOnBegun, PromotesItsUser,
        ClearsSomeone, ClientOwnsItsSession, Working, Status, Waiting, Terminal,
        Submitting, Finalizing, Abandoning, Scanning, PC, Procs, Accounts, owned

\* The steps that neither finish nor give a login up.
LEMMA DropKeeps ==
  ASSUME LoginInv, NEW p \in Procs, Drop(p)
  PROVE  LoginInv'
BY OnboardingAssumption DEF Drop

LEMMA RemoveKeeps ==
  ASSUME LoginInv, NEW p \in Procs, Remove(p)
  PROVE  LoginInv'
BY FinishFacts DEF Remove

LEMMA NewPendingKeeps ==
  ASSUME LoginInv, NEW h \in Handlers, NEW u \in Users,
         NEW m \in {"qr", "phone"}, NEW l \in Logins, NewPending(h, u, m, l)
  PROVE  LoginInv'
BY OnboardingAssumption DEF NewPending

LEMMA StartReadyKeeps ==
  ASSUME LoginInv, NEW h \in Handlers, StartReady(h)
  PROVE  LoginInv'
BY OnboardingAssumption DEF StartReady, SetStatus

LEMMA StartDoneKeeps ==
  ASSUME LoginInv, NEW h \in Handlers, StartDone(h)
  PROVE  LoginInv'
BY OnboardingAssumption DEF StartDone

LEMMA SubmitKeeps ==
  ASSUME LoginInv, NEW h \in Handlers, NEW l \in Logins,
         NEW w \in {"lockCode", "lockPassword"}, Submit(h, l, w)
  PROVE  LoginInv'
BY OnboardingAssumption DEF Submit

LEMMA SignAcceptedKeeps ==
  ASSUME LoginInv, NEW h \in Handlers, SignAccepted(h)
  PROVE  LoginInv'
BY OnboardingAssumption DEF SignAccepted, SetStatus

LEMMA SignReturnsKeeps ==
  ASSUME LoginInv, NEW h \in Handlers, SignReturns(h)
  PROVE  LoginInv'
BY PlainReturnKeeps DEF SignReturns

LEMMA QrScannedKeeps ==
  ASSUME LoginInv, NEW l \in Logins, QrScanned(l)
  PROVE  LoginInv'
BY OnboardingAssumption DEF QrScanned, SetStatus

LEMMA QrRefreshedKeeps ==
  ASSUME LoginInv, NEW l \in Logins, QrRefreshed(l)
  PROVE  LoginInv'
BY OnboardingAssumption DEF QrRefreshed, Release

LEMMA SaveConnectedKeeps ==
  ASSUME LoginInv, NEW p \in Procs, SaveConnected(p)
  PROVE  LoginInv'
BY OnboardingAssumption DEF SaveConnected, UserOf

LEMMA RestartReadKeeps ==
  ASSUME LoginInv, RestartRead
  PROVE  LoginInv'
BY OnboardingAssumption DEF RestartRead

LEMMA RestartUserKeeps ==
  ASSUME LoginInv, NEW u \in Users, RestartUser(u)
  PROVE  LoginInv'
BY OnboardingAssumption DEF RestartUser, CanStart

LEMMA ClearBeginKeeps ==
  ASSUME LoginInv, NEW h \in Handlers, NEW u \in Users, ClearBegin(h, u)
  PROVE  LoginInv'
BY OnboardingAssumption DEF ClearBegin, CancelTasks, ReleaseTasks

LEMMA ClearLoginKeeps ==
  ASSUME LoginInv, NEW h \in Handlers, NEW l \in Logins, ClearLogin(h, l)
  PROVE  LoginInv'
BY OnboardingAssumption DEF ClearLogin

LEMMA ClearAccountKeeps ==
  ASSUME LoginInv, NEW h \in Handlers, ClearAccount(h)
  PROVE  LoginInv'
BY OnboardingAssumption DEF ClearAccount, Forget

LEMMA DisconnectKeeps ==
  ASSUME LoginInv, NEW h \in Handlers, NEW u \in Users, Disconnect(h, u)
  PROVE  LoginInv'
BY OnboardingAssumption DEF Disconnect, Forget

LEMMA LateKeeps ==
  ASSUME LoginInv, NEW l \in Logins, Late(l)
  PROVE  LoginInv'
BY OnboardingAssumption DEF Late

\* No login was begun and no client runs at the start.
LEMMA InitKeeps == Init => LoginInv
BY OnboardingAssumption DEF Init

HIDE DEF LoginInv, TypeOK, BegunForUser, WorksOnBegun, PromotesItsUser,
         ClearsSomeone, ClientOwnsItsSession, Working, Status, Waiting, Terminal,
         Submitting, Finalizing, Abandoning, Scanning, PC, Procs, Accounts, owned

-----------------------------------------------------------------------------
(* The inductive step and the theorems.                                    *)

\* The disjuncts of the next-state relation, process by process.
LEMMA StepKeeps ==
  ASSUME LoginInv, NEW p \in Procs, Step(p)
  PROVE  LoginInv'
BY DropKeeps, RemoveKeeps, GotMeKeeps, PromoteKeeps, SaveConnectedKeeps,
   StartUserKeeps, FinalizeRaisesKeeps DEF Step

LEMMA RequestKeeps ==
  ASSUME LoginInv, NEW h \in Handlers, Request(h)
  PROVE  LoginInv'
BY NewPendingKeeps, PollKeeps, SubmitKeeps, ClearBeginKeeps, DisconnectKeeps
   DEF Request

LEMMA HandlerStepKeeps ==
  ASSUME LoginInv, NEW h \in Handlers, HandlerStep(h)
  PROVE  LoginInv'
BY StepKeeps, StartReadyKeeps, StartFailsKeeps, StartDoneKeeps, SubmitEnterKeeps,
   SignAcceptedKeeps, SignNeedsPasswordKeeps, SignReturnsKeeps, SignFailsKeeps,
   ClearLoginKeeps, ClearAccountKeeps DEF HandlerStep, Procs

LEMMA QrStepKeeps ==
  ASSUME LoginInv, NEW l \in Logins, QrStep(l)
  PROVE  LoginInv'
BY StepKeeps, QrScannedKeeps, QrNeedsPasswordKeeps, QrFailsKeeps, QrTimesOutKeeps,
   QrEnterKeeps, QrRefreshedKeeps DEF QrStep, Procs

LEMMA MaintenanceStepKeeps ==
  ASSUME LoginInv, MaintenanceStep
  PROVE  LoginInv'
BY DropKeeps, RemoveKeeps, RestartUserKeeps DEF MaintenanceStep, Procs

\* A step of something else.
LEMMA StutterKeeps ==
  ASSUME LoginInv, UNCHANGED vars
  PROVE  LoginInv'
BY DEF vars, owned, LoginInv, TypeOK, BegunForUser, WorksOnBegun, PromotesItsUser,
   ClearsSomeone, ClientOwnsItsSession

\* LoginInv, the type invariant with what the processes know of the logins they
\* work on (telegram_onboarding.py), holds in every reachable state.
THEOREM LoginInvariant == Spec => []LoginInv
<1>1. LoginInv /\ [Next]_vars => LoginInv'
  BY RequestKeeps, HandlerStepKeeps, QrStepKeeps, LateKeeps, ExpirePendingKeeps,
     RestartReadKeeps, MaintenanceStepKeeps, StutterKeeps DEF Next
<1> QED BY <1>1, InitKeeps, PTL DEF Spec

\* The onboarding manager's state is well typed.
THEOREM TypeCorrect == Spec => []TypeOK
<1>1. LoginInv => TypeOK
  BY DEF LoginInv
<1> QED BY <1>1, LoginInvariant, PTL

\* Whatever logins, expiries, restarts, disconnects and clears overlap, a
\* running client (client_manager.py) works on a session of its own user.
THEOREM SessionsAreOwn == Spec => []ClientOwnsItsSession
<1>1. LoginInv => ClientOwnsItsSession
  BY DEF LoginInv
<1> QED BY <1>1, LoginInvariant, PTL
=============================================================================
