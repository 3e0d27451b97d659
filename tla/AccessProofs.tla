---------------------------- MODULE AccessProofs ----------------------------
(* Theorems about Access, for every value of its constants. *)
EXTENDS Access, FiniteSetTheorems, TLAPS

\* Sets of links and of handlers are counted by natural numbers.
LEMMA CountFacts ==
  \A S, T : (S \subseteq T /\ (T \subseteq Links \/ T \subseteq Handlers)) =>
    /\ IsFiniteSet(S) /\ IsFiniteSet(T)
    /\ Cardinality(S) \in Nat /\ Cardinality(T) \in Nat
    /\ Cardinality(S) <= Cardinality(T)
<1>1. IsFiniteSet(Links) /\ IsFiniteSet(Handlers)
  BY AccessAssumption
<1>2. QED
  BY <1>1, FS_Subset, FS_CardinalityType

\* The types of what belongs to one window.
LEMMA WindowTypes ==
  ASSUME TypeOK, NEW w \in Windows
  PROVE  /\ now \in Nat /\ Window[w] \in Nat /\ Limit[w] \in Nat
         /\ Limit[w] > 0 /\ retry[w] \in Nat /\ usedAt[w] \in [Links -> Nat]
<1>1. Window[w] \in Nat \ {0} /\ Limit[w] \in Nat \ {0}
  BY AccessAssumption
<1>2. usedAt[w] \in [Links -> Nat]
  <2>1. usedAt[w] \in [Links -> Times] /\ Times \subseteq Nat
    BY DEF TypeOK, Times
  <2>2. QED
    BY <2>1
<1>3. now \in Nat /\ retry[w] \in Nat
  BY DEF TypeOK
<1>4. QED
  BY <1>1, <1>2, <1>3

\* A refused user is told a time to come, and not before the first entry of
\* the deque is over: the seconds are rounded up.
LEMMA RetryIsLater ==
  ASSUME TypeOK, NEW w \in Windows, NEW first \in Recent(w)
  PROVE  /\ RetryAfter(w, first) \in Nat
         /\ RetryAfter(w, first) * Second \in Nat
         /\ usedAt[w][first] <= (now + RetryAfter(w, first) * Second) - Window[w]
<1> DEFINE left == Window[w] - (now - usedAt[w][first])
           q == left \div Second
<1>1. /\ left \in Int /\ Second \in Nat /\ Second > 0 /\ now \in Int
      /\ usedAt[w][first] \in Int /\ Window[w] \in Int
  <2>1. first \in Links
    BY DEF TypeOK, Recent
  <2>2. QED
    BY <2>1, WindowTypes, AccessAssumption
<1>2. q \in Int /\ left < (q + 1) * Second
  <2> HIDE DEF left
  <2>1. q \in Int
    BY <1>1
  <2>2. left = q * Second + (left % Second) /\ (left % Second) < Second
    BY <1>1
  <2>3. QED
    BY <1>1, <2>1, <2>2
<1>3. RetryAfter(w, first) = IF q + 1 < 1 THEN 1 ELSE q + 1
  BY DEF RetryAfter
<1>4. RetryAfter(w, first) \in Nat /\ left <= RetryAfter(w, first) * Second
  <2> HIDE DEF left, q
  <2>1. CASE q + 1 < 1
    <3>1. (q + 1) * Second <= 0
      BY <1>1, <1>2, <2>1
    <3>2. QED
      BY <1>1, <1>2, <1>3, <2>1, <3>1
  <2>2. CASE ~(q + 1 < 1)
    BY <1>1, <1>2, <1>3, <2>2
  <2>3. QED
    BY <2>1, <2>2
<1>5. RetryAfter(w, first) * Second \in Nat
  BY <1>1, <1>4
<1>6. QED
  BY <1>1, <1>4, <1>5

-----------------------------------------------------------------------------
(* Types.                                                                  *)

LEMMA TypeInit == Init => TypeOK
  BY AccessAssumption DEF Init, TypeOK, Times, LinkStates, Idle, At

LEMMA TypeStep == ASSUME TypeOK, [Next]_vars PROVE TypeOK'
<1> USE AccessAssumption DEF Times, LinkStates, At, Idle, Unused, Recent,
      tokens, limiter, history
<1>b. ASSUME NEW w \in Windows, NEW l \in Links, Admit(w, l)
      PROVE  /\ events' \in [Windows -> SUBSET Links]
             /\ usedAt' \in [Windows -> [Links -> Times]]
             /\ retry' \in [Windows -> Nat]
  <2>1. Recent(w) \cup {l} \in SUBSET Links
    BY DEF TypeOK
  <2>2. [usedAt[w] EXCEPT ![l] = now] \in [Links -> Times]
    BY DEF TypeOK
  <2>3. QED
    BY <1>b, <2>1, <2>2 DEF TypeOK, Admit
<1>a. ASSUME NEW w \in Windows, Refuse(w)
       PROVE  /\ events' \in [Windows -> SUBSET Links] /\ usedAt' = usedAt
              /\ retry' \in [Windows -> Nat]
  <2>1. PICK first \in Recent(w) :
          \E t \in {retry[w], now + RetryAfter(w, first) * Second} \ {0} :
            retry' = [retry EXCEPT ![w] = t]
    BY <1>a DEF Refuse
  <2>2. RetryAfter(w, first) * Second \in Nat
    BY RetryIsLater
  <2>3. retry' \in [Windows -> Nat]
    BY <2>1, <2>2 DEF TypeOK
  <2>4. Recent(w) \in SUBSET Links
    BY DEF TypeOK
  <2>5. QED
    BY <1>a, <2>3, <2>4 DEF TypeOK, Refuse
<1>1. ASSUME NEW h \in Handlers, NEW l \in Links, Command(h, l)
      PROVE  TypeOK'
  BY <1>b, <1>1 DEF TypeOK, Command, Windows
<1>2. ASSUME NEW h \in Handlers, NEW l \in Links, ClaimLink(h, l)
      PROVE  TypeOK'
  BY <1>2 DEF TypeOK, ClaimLink
<1>3. ASSUME NEW h \in Handlers, RevokeOlder(h)
      PROVE  TypeOK'
  BY <1>3 DEF TypeOK, RevokeOlder
<1>4. ASSUME NEW h \in Handlers, InsertLink(h)
      PROVE  TypeOK'
  BY <1>4 DEF TypeOK, InsertLink
<1>5. ASSUME NEW h \in Handlers, OpenSession(h)
      PROVE  TypeOK'
  BY <1>5 DEF TypeOK, OpenSession
<1>6. ASSUME NEW l \in Links, LinkExpires(l) \/ SessionExpires(l)
      PROVE  TypeOK'
  BY <1>6 DEF TypeOK, LinkExpires, SessionExpires
<1>7. CASE RefuseCommand
  BY <1>a, <1>7 DEF TypeOK, RefuseCommand, Windows
<1>8. CASE ClearRows
  BY <1>8 DEF TypeOK, ClearRows, Exchanging
<1>9. CASE Tick
  BY <1>9 DEF TypeOK, Tick
<1>10. CASE Restart
  BY <1>10 DEF TypeOK, Restart
<1>11. CASE UNCHANGED vars
  BY <1>11 DEF TypeOK, vars
<1>12. ASSUME NEW h \in Handlers, Connect(h)
       PROVE  TypeOK'
  <2>1. op[h].link \in Links
    BY <1>12 DEF TypeOK, Connect
  <2>2. QED
    BY <1>b, <1>12, <2>1 DEF TypeOK, Connect, Windows
<1>13. ASSUME NEW h \in Handlers, RefuseConnect(h) \/ CommandEnds(h)
       PROVE  TypeOK'
  BY <1>a, <1>13 DEF TypeOK, RefuseConnect, CommandEnds, Windows
<1>14. QED
  BY <1>1, <1>2, <1>3, <1>4, <1>5, <1>6, <1>7, <1>8, <1>9, <1>10, <1>11,
     <1>12, <1>13 DEF Next

\* Every reachable state is well typed.
THEOREM TypeCorrect == Spec => []TypeOK
<1>1. TypeOK /\ [Next]_vars => TypeOK'
  BY TypeStep
<1>2. QED
  BY <1>1, TypeInit, PTL DEF Spec

-----------------------------------------------------------------------------
(* Links and sessions.                                                     *)

\* What the invariants of links say of a step that moves no handler to another
\* link: link states and openings move forward only.
LEMMA LinkStep == ASSUME LinkInv, [Next]_vars PROVE LinkInv'
<1> USE DEF LinkInv, TypeOK, LinksAreOwn, SpentIsUsed, LinkOpensOneSession,
            ClearEndsSessions, Exchanging, At, Idle, Unused
<1>0. TypeOK'
  BY TypeStep
<1>1. ASSUME NEW h \in Handlers, NEW l \in Links, Command(h, l)
      PROVE  LinkInv'
  <2>1. LinksAreOwn'
    BY <1>1 DEF Command
  <2>2. SpentIsUsed' /\ LinkOpensOneSession'
    BY <1>1 DEF Command, history
  <2>3. Exchanging' \subseteq Exchanging
    BY <1>1 DEF Command
  <2>4. (old \cap Exchanging \subseteq survivors /\ ClearEndsSessions)'
    BY <1>1, <2>3 DEF Command, history
  <2>5. QED
    BY <1>0, <2>1, <2>2, <2>4
<1>2. ASSUME NEW h \in Handlers, NEW l \in Links, ClaimLink(h, l)
      PROVE  LinkInv'
  <2>1. LinksAreOwn'
    BY <1>2 DEF ClaimLink
  <2>2. SpentIsUsed' /\ LinkOpensOneSession'
    BY <1>2 DEF ClaimLink, history
  <2>3. Exchanging' \subseteq Exchanging \cup {l} /\ l \notin old
    BY <1>2 DEF ClaimLink
  <2>4. (old \cap Exchanging \subseteq survivors /\ ClearEndsSessions)'
    BY <1>2, <2>3 DEF ClaimLink, history
  <2>5. QED
    BY <1>0, <2>1, <2>2, <2>4
<1>3. ASSUME NEW h \in Handlers, RevokeOlder(h)
      PROVE  LinkInv'
  <2>1. LinksAreOwn' /\ SpentIsUsed' /\ LinkOpensOneSession'
    BY <1>3 DEF RevokeOlder, history
  <2>2. Exchanging' \subseteq Exchanging
    BY <1>3 DEF RevokeOlder
  <2>3. (old \cap Exchanging \subseteq survivors /\ ClearEndsSessions)'
    BY <1>3, <2>2 DEF RevokeOlder, history
  <2>4. QED
    BY <1>0, <2>1, <2>3
<1>4. ASSUME NEW h \in Handlers, InsertLink(h)
      PROVE  LinkInv'
  <2>1. LinksAreOwn'
    BY <1>4 DEF InsertLink
  <2>2. SpentIsUsed' /\ LinkOpensOneSession'
    BY <1>4 DEF InsertLink, history
  <2>3. Exchanging' \subseteq Exchanging
    BY <1>4 DEF InsertLink
  <2>4. (old \cap Exchanging \subseteq survivors /\ ClearEndsSessions)'
    BY <1>4, <2>3 DEF InsertLink, history
  <2>5. QED
    BY <1>0, <2>1, <2>2, <2>4
<1>5. ASSUME NEW h \in Handlers, OpenSession(h)
      PROVE  LinkInv'
  <2>1. LinksAreOwn'
    BY <1>5 DEF OpenSession
  <2>2. SpentIsUsed' /\ LinkOpensOneSession'
    BY <1>5 DEF OpenSession, history
  <2>3. Exchanging' \subseteq Exchanging /\ op[h].link \in Exchanging
    BY <1>5 DEF OpenSession
  <2>4. (old \cap Exchanging \subseteq survivors /\ ClearEndsSessions)'
    BY <1>5, <2>3 DEF OpenSession, history
  <2>5. QED
    BY <1>0, <2>1, <2>2, <2>4
<1>6. ASSUME NEW l \in Links, LinkExpires(l) \/ SessionExpires(l)
      PROVE  LinkInv'
  BY <1>0, <1>6 DEF LinkExpires, SessionExpires, history
<1>7. CASE RefuseCommand \/ Tick \/ UNCHANGED vars
  BY <1>0, <1>7 DEF RefuseCommand, Tick, vars, tokens, history
<1>8. CASE ClearRows
  BY <1>0, <1>8 DEF ClearRows
<1>9. CASE Restart
  <2>1. Exchanging' = {}
    BY <1>9 DEF Restart
  <2>2. QED
    BY <1>0, <1>9, <2>1 DEF Restart, tokens, history
<1>10. ASSUME NEW h \in Handlers,
              Connect(h) \/ RefuseConnect(h) \/ CommandEnds(h)
       PROVE  LinkInv'
  <2>1. LinksAreOwn'
    <3>1. link' = link /\ opened' = opened /\ op[h].pc = "asked"
      BY <1>10 DEF Connect, RefuseConnect, CommandEnds, tokens
    <3>2. CASE op' = [op EXCEPT ![h].pc = "revoke"]
      BY <3>1, <3>2
    <3>3. CASE op' = [op EXCEPT ![h] = Idle]
      BY <3>1, <3>3
    <3>4. QED
      BY <1>10, <3>2, <3>3 DEF Connect, RefuseConnect, CommandEnds
  <2>2. SpentIsUsed' /\ LinkOpensOneSession'
    BY <1>10 DEF Connect, RefuseConnect, CommandEnds, tokens, history
  <2>3. Exchanging' \subseteq Exchanging
    BY <1>10 DEF Connect, RefuseConnect, CommandEnds
  <2>4. (old \cap Exchanging \subseteq survivors /\ ClearEndsSessions)'
    BY <1>10, <2>3 DEF Connect, RefuseConnect, CommandEnds, tokens, history
  <2>5. QED
    BY <1>0, <2>1, <2>2, <2>4
<1>11. QED
  BY <1>1, <1>2, <1>3, <1>4, <1>5, <1>6, <1>7, <1>8, <1>9, <1>10 DEF Next

\* At first nobody has a link.
LEMMA LinkInit == Init => LinkInv
  BY TypeInit
  DEF Init, LinkInv, LinksAreOwn, SpentIsUsed, LinkOpensOneSession,
      ClearEndsSessions, Exchanging, At, Idle

\* The strengthening is inductive: handlers at work have links of their own.
THEOREM LinkInvariant == Spec => []LinkInv
<1>1. LinkInv /\ [Next]_vars => LinkInv'
  BY LinkStep
<1>2. QED
  BY <1>1, LinkInit, PTL DEF Spec

\* A link opens one session at most (claim_onboarding_token marks it in the
\* transaction that finds it).
THEOREM LinksAreSingleUse == Spec => []LinkOpensOneSession
<1>1. LinkInv => LinkOpensOneSession
  BY DEF LinkInv
<1>2. QED
  BY <1>1, LinkInvariant, PTL

\* A clear leaves no session but those of links that were being exchanged.
THEOREM ClearIsFinal == Spec => []ClearEndsSessions
<1>1. LinkInv => ClearEndsSessions
  BY DEF LinkInv
<1>2. QED
  BY <1>1, LinkInvariant, PTL

\* Links that a user may still open, and commands that are about to add one.
LEMMA OverlapStep ==
  ASSUME TypeOK, LinksLeftByOverlapOnly, [Next]_vars
  PROVE  LinksLeftByOverlapOnly'
<1>0. /\ Unused \subseteq Links /\ Unused' \subseteq Links
      /\ Inserting \subseteq Handlers /\ Inserting' \subseteq Handlers
  BY DEF Unused, Inserting
<1>1. ASSUME Unused' \subseteq Unused, Inserting' \subseteq Inserting
      PROVE  LinksLeftByOverlapOnly'
  <2>1. /\ Cardinality(Unused') <= Cardinality(Unused)
        /\ Cardinality(Inserting') <= Cardinality(Inserting)
        /\ Cardinality(Unused') \in Nat /\ Cardinality(Unused) \in Nat
        /\ Cardinality(Inserting') \in Nat /\ Cardinality(Inserting) \in Nat
        /\ Cardinality(Handlers) \in Nat
    BY <1>0, <1>1, CountFacts
  <2>2. QED
    BY <2>1 DEF LinksLeftByOverlapOnly
<1>2. ASSUME NEW h \in Handlers, RevokeOlder(h)
      PROVE  LinksLeftByOverlapOnly'
  <2>1. Unused' = {}
    BY <1>2 DEF RevokeOlder, Unused, TypeOK
  <2>2. Cardinality(Unused') = 0
    BY <2>1, FS_EmptySet
  <2>3. /\ Cardinality(Inserting') <= Cardinality(Handlers)
        /\ Cardinality(Inserting') \in Nat /\ Cardinality(Handlers) \in Nat
    BY <1>0, CountFacts
  <2>4. QED
    BY <2>2, <2>3 DEF LinksLeftByOverlapOnly
<1>3. ASSUME NEW h \in Handlers, InsertLink(h)
      PROVE  LinksLeftByOverlapOnly'
  <2>1. h \in Inserting /\ Inserting' = Inserting \ {h}
    BY <1>3 DEF InsertLink, Inserting, At, Idle, TypeOK
  <2>2. Unused' \subseteq Unused \cup {op[h].link} /\ op[h].link \in Links
    BY <1>3 DEF InsertLink, Unused, At, TypeOK
  <2>3. Unused \cup {op[h].link} \subseteq Links
    BY <1>0, <2>2
  <2>4. /\ IsFiniteSet(Unused) /\ IsFiniteSet(Inserting)
        /\ Cardinality(Unused') <= Cardinality(Unused \cup {op[h].link})
        /\ Cardinality(Unused') \in Nat /\ Cardinality(Unused) \in Nat
        /\ Cardinality(Unused \cup {op[h].link}) \in Nat
        /\ Cardinality(Inserting) \in Nat /\ Cardinality(Handlers) \in Nat
    BY <1>0, <2>2, <2>3, CountFacts
  <2>5. Cardinality(Unused \cup {op[h].link}) <= Cardinality(Unused) + 1
    <3>1. Cardinality(Unused \cup {op[h].link})
            = IF op[h].link \in Unused THEN Cardinality(Unused)
              ELSE Cardinality(Unused) + 1
      BY <2>4, FS_AddElement
    <3>2. QED
      BY <2>4, <3>1
  <2>6. Cardinality(Inserting') = Cardinality(Inserting) - 1
    BY <2>1, <2>4, FS_RemoveElement
  <2>7. QED
    BY <2>4, <2>5, <2>6 DEF LinksLeftByOverlapOnly
<1>4. ASSUME NEW h \in Handlers, NEW l \in Links,
             Command(h, l) \/ ClaimLink(h, l)
      PROVE  LinksLeftByOverlapOnly'
  <2>1. Unused' \subseteq Unused /\ Inserting' \subseteq Inserting
    BY <1>4 DEF Command, ClaimLink, Unused, Inserting, At, TypeOK
  <2>2. QED
    BY <1>1, <2>1
<1>5. ASSUME NEW h \in Handlers, OpenSession(h)
      PROVE  LinksLeftByOverlapOnly'
  <2>1. Unused' \subseteq Unused /\ Inserting' \subseteq Inserting
    BY <1>5 DEF OpenSession, Unused, Inserting, At, Idle, TypeOK
  <2>2. QED
    BY <1>1, <2>1
<1>6. ASSUME NEW l \in Links, LinkExpires(l) \/ SessionExpires(l)
      PROVE  LinksLeftByOverlapOnly'
  <2>1. Unused' \subseteq Unused /\ Inserting' \subseteq Inserting
    BY <1>6 DEF LinkExpires, SessionExpires, Unused, Inserting, At, TypeOK
  <2>2. QED
    BY <1>1, <2>1
<1>7. CASE RefuseCommand \/ ClearRows \/ Tick \/ Restart \/ UNCHANGED vars
  <2>1. Unused' \subseteq Unused /\ Inserting' \subseteq Inserting
    BY <1>7
    DEF RefuseCommand, ClearRows, Tick, Restart, vars, tokens, Unused, Inserting, At,
        Idle, TypeOK
  <2>2. QED
    BY <1>1, <2>1
<1>8. ASSUME NEW h \in Handlers,
             Connect(h) \/ RefuseConnect(h) \/ CommandEnds(h)
      PROVE  LinksLeftByOverlapOnly'
  <2>1. Unused' \subseteq Unused /\ Inserting' \subseteq Inserting
    BY <1>8 DEF Connect, RefuseConnect, CommandEnds, tokens, Unused, Inserting,
                At, Idle, TypeOK
  <2>2. QED
    BY <1>1, <2>1
<1>9. QED
  BY <1>2, <1>3, <1>4, <1>5, <1>6, <1>7, <1>8 DEF Next

\* Not more links are left than /connect commands ran beside each other.
THEOREM LinksLeftAreFew == Spec => []LinksLeftByOverlapOnly
<1>1. Init => LinksLeftByOverlapOnly
  <2> SUFFICES ASSUME Init PROVE LinksLeftByOverlapOnly
    OBVIOUS
  <2>1. Unused = {} /\ Inserting = {}
    BY DEF Init, Unused, Inserting, At, Idle
  <2>2. Cardinality({}) = 0 /\ Cardinality(Handlers) \in Nat
    BY FS_EmptySet, CountFacts
  <2>3. QED
    BY <2>1, <2>2 DEF LinksLeftByOverlapOnly
<1>2. TypeOK /\ LinksLeftByOverlapOnly /\ [Next]_vars => LinksLeftByOverlapOnly'
  BY OverlapStep
<1>3. QED
  BY <1>1, <1>2, TypeCorrect, PTL DEF Spec

-----------------------------------------------------------------------------
(* The two windows of the limiter.                                         *)

\* The uses that count in the span of window w that ends at t.
UsedUpTo(w, t) ==
  {l \in Links : /\ usedAt[w][l] # 0 /\ usedAt[w][l] > t - Window[w]
                 /\ usedAt[w][l] <= t}

\* What the strengthening says of one window.
Fine(w) ==
  /\ RecentIsKept(w) /\ RoomAtRetry(w) /\ Cardinality(events[w]) <= Limit[w]
  /\ \A t \in Times : Cardinality(UsedUpTo(w, t)) <= Limit[w]

LEMMA WindowIsFine ==
  ASSUME WindowInv, NEW w \in Windows
  PROVE  Fine(w)
BY DEF WindowInv, WindowHolds, Fine, UsedUpTo

LEMMA FineIsEnough ==
  ASSUME TypeOK', \A w \in Windows : Fine(w)'
  PROVE  WindowInv'
BY DEF WindowInv, WindowHolds, Fine, UsedUpTo

\* What is counted of a deque.
LEMMA DequeFacts ==
  ASSUME TypeOK, NEW w \in Windows
  PROVE  /\ Recent(w) \subseteq events[w] /\ events[w] \subseteq Links
         /\ IsFiniteSet(Recent(w))
         /\ Cardinality(Recent(w)) \in Nat /\ Cardinality(events[w]) \in Nat
         /\ Cardinality(Recent(w)) <= Cardinality(events[w])
<1>1. Recent(w) \subseteq events[w] /\ events[w] \subseteq Links
  BY DEF TypeOK, Recent
<1>2. QED
  BY <1>1, CountFacts

\* A use of one window does not touch the other.
LEMMA FineKept ==
  ASSUME WindowInv, NEW w \in Windows, now' = now, events'[w] = events[w],
         usedAt'[w] = usedAt[w], retry'[w] = retry[w]
  PROVE  Fine(w)'
<1>1. Fine(w)
  BY WindowIsFine
<1>2. QED
  BY <1>1 DEF Fine, RecentIsKept, RoomAtRetry, UsedUpTo

\* A use that is admitted finds room in every span that it falls in.
LEMMA AdmitWindow ==
  ASSUME WindowInv, TypeOK', now' = now,
         NEW w \in Windows, NEW l \in Links, Admit(w, l)
  PROVE  WindowInv'
<1>1. TypeOK /\ Fine(w)
  BY WindowIsFine DEF WindowInv
<1>2. /\ now \in Nat /\ Window[w] \in Nat /\ Limit[w] \in Nat
      /\ usedAt[w] \in [Links -> Nat]
  BY <1>1, WindowTypes
<1>3. /\ usedAt'[w] = [usedAt[w] EXCEPT ![l] = now]
      /\ events'[w] = Recent(w) \cup {l} /\ retry'[w] = 0
  BY <1>1 DEF Admit, TypeOK
<1>4. /\ Cardinality(Recent(w) \cup {l}) <= Limit[w]
      /\ Cardinality(Recent(w) \cup {l}) \in Nat
      /\ Recent(w) \cup {l} \subseteq Links
  <2>1. Cardinality(Recent(w) \cup {l})
          = IF l \in Recent(w) THEN Cardinality(Recent(w))
            ELSE Cardinality(Recent(w)) + 1
    BY <1>1, DequeFacts, FS_AddElement
  <2>2. Cardinality(Recent(w)) < Limit[w] /\ Cardinality(Recent(w)) \in Nat
    BY <1>1, DequeFacts DEF Admit, Admitted
  <2>3. QED
    BY <1>1, <1>2, <2>1, <2>2, DequeFacts
<1>5. RecentIsKept(w)'
  BY <1>1, <1>2, <1>3 DEF Fine, RecentIsKept, Recent
<1>6. ASSUME NEW t \in Times
      PROVE  Cardinality(UsedUpTo(w, t)') <= Limit[w]
  <2>0. t \in Nat
    BY <1>6 DEF Times
  <2>1. CASE t < now
    <3>1. /\ UsedUpTo(w, t)' \subseteq UsedUpTo(w, t)
          /\ UsedUpTo(w, t) \subseteq Links
      BY <1>2, <1>3, <2>0, <2>1 DEF UsedUpTo
    <3>2. /\ Cardinality(UsedUpTo(w, t)') <= Cardinality(UsedUpTo(w, t))
          /\ Cardinality(UsedUpTo(w, t)') \in Nat
          /\ Cardinality(UsedUpTo(w, t)) \in Nat
      BY <3>1, CountFacts
    <3>3. Cardinality(UsedUpTo(w, t)) <= Limit[w]
      BY <1>1 DEF Fine
    <3>4. QED
      BY <1>2, <3>2, <3>3
  <2>2. CASE ~(t < now)
    <3>1. UsedUpTo(w, t)' \subseteq Recent(w) \cup {l}
      BY <1>1, <1>2, <1>3, <2>0, <2>2
      DEF UsedUpTo, Recent, Fine, RecentIsKept
    <3>2. /\ Cardinality(UsedUpTo(w, t)') <= Cardinality(Recent(w) \cup {l})
          /\ Cardinality(UsedUpTo(w, t)') \in Nat
      BY <1>4, <3>1, CountFacts
    <3>3. QED
      BY <1>2, <1>4, <3>2
  <2>3. QED
    BY <2>1, <2>2
<1>7. Fine(w)'
  BY <1>3, <1>4, <1>5, <1>6 DEF Fine, RoomAtRetry
<1>8. ASSUME NEW v \in Windows, v # w
      PROVE  Fine(v)'
  <2>1. /\ events'[v] = events[v] /\ usedAt'[v] = usedAt[v]
        /\ retry'[v] = retry[v]
    BY <1>1, <1>8 DEF Admit, TypeOK
  <2>2. QED
    BY <2>1, FineKept
<1>9. QED
  BY <1>7, <1>8, FineIsEnough

\* A refusal keeps the deque within the limit, and the time it names has room.
LEMMA RefuseWindow ==
  ASSUME WindowInv, TypeOK', now' = now, NEW w \in Windows, Refuse(w)
  PROVE  WindowInv'
<1>1. TypeOK /\ Fine(w)
  BY WindowIsFine DEF WindowInv
<1>2. /\ now \in Nat /\ Window[w] \in Nat /\ Limit[w] \in Nat
      /\ retry[w] \in Nat /\ usedAt[w] \in [Links -> Nat]
  BY <1>1, WindowTypes
<1>3. usedAt' = usedAt /\ events'[w] = Recent(w)
  BY <1>1 DEF Refuse, TypeOK
<1>4. RecentIsKept(w)' /\ \A t \in Times : UsedUpTo(w, t)' = UsedUpTo(w, t)
  BY <1>1, <1>2, <1>3 DEF Fine, RecentIsKept, UsedUpTo, Recent
<1>5. Cardinality(Recent(w)) <= Limit[w] /\ Cardinality(Recent(w)) \in Nat
  BY <1>1, <1>2, DequeFacts DEF Fine
<1>6. PICK first \in Recent(w) :
        \E t \in {retry[w], now + RetryAfter(w, first) * Second} \ {0} :
          retry' = [retry EXCEPT ![w] = t]
  BY DEF Refuse
<1>7. PICK t \in {retry[w], now + RetryAfter(w, first) * Second} \ {0} :
        retry' = [retry EXCEPT ![w] = t]
  BY <1>6
<1>8. retry'[w] = t
  BY <1>1, <1>7 DEF TypeOK
<1> DEFINE later == {l \in Recent(w) : usedAt[w][l] > t - Window[w]}
<1>9. Cardinality(later) < Limit[w]
  <2>1. CASE t = retry[w]
    <3> DEFINE room == {l \in events[w] : usedAt[w][l] > retry[w] - Window[w]}
    <3>1. later \subseteq room /\ room \subseteq Links
      BY <1>1, <2>1, DequeFacts
    <3>2. /\ Cardinality(later) <= Cardinality(room)
          /\ Cardinality(later) \in Nat /\ Cardinality(room) \in Nat
      BY <3>1, CountFacts
    <3>3. Cardinality(room) < Limit[w]
      BY <1>1, <1>7, <2>1 DEF Fine, RoomAtRetry
    <3>4. QED
      BY <1>2, <3>2, <3>3
  <2>2. CASE t = now + RetryAfter(w, first) * Second
    <3>1. /\ usedAt[w][first] <= t - Window[w]
          /\ RetryAfter(w, first) * Second \in Nat
      BY <1>1, <1>6, <2>2, RetryIsLater
    <3>2. t \in Nat /\ usedAt[w][first] \in Nat
      BY <1>1, <1>2, <1>6, <2>2, <3>1, DequeFacts
    <3>3. first \notin later
      BY <1>2, <3>1, <3>2
    <3>4. /\ later \subseteq Recent(w) \ {first}
          /\ Recent(w) \ {first} \subseteq Links
      BY <1>1, <3>3, DequeFacts
    <3>5. /\ Cardinality(later) <= Cardinality(Recent(w) \ {first})
          /\ Cardinality(later) \in Nat
          /\ Cardinality(Recent(w) \ {first}) \in Nat
      BY <3>4, CountFacts
    <3>6. Cardinality(Recent(w) \ {first}) = Cardinality(Recent(w)) - 1
      BY <1>1, <1>6, DequeFacts, FS_RemoveElement
    <3>7. QED
      BY <1>2, <1>5, <3>5, <3>6
  <2>3. QED
    BY <1>7, <2>1, <2>2
<1>10. RoomAtRetry(w)'
  BY <1>3, <1>8, <1>9 DEF RoomAtRetry
<1>11. Fine(w)'
  BY <1>1, <1>3, <1>4, <1>5, <1>10 DEF Fine
<1>12. ASSUME NEW v \in Windows, v # w
       PROVE  Fine(v)'
  <2>1. /\ events'[v] = events[v] /\ usedAt'[v] = usedAt[v]
        /\ retry'[v] = retry[v]
    BY <1>1, <1>7, <1>12 DEF Refuse, TypeOK
  <2>2. QED
    BY <2>1, FineKept
<1>13. QED
  BY <1>11, <1>12, FineIsEnough

LEMMA WindowStep == ASSUME WindowInv, [Next]_vars PROVE WindowInv'
<1>1. TypeOK /\ TypeOK'
  BY TypeStep DEF WindowInv
<1>2. ASSUME UNCHANGED limiter, now' = now \/ now' = now + 1
      PROVE  WindowInv'
  <2>1. ASSUME NEW w \in Windows
        PROVE  Fine(w)'
    <3>1. /\ Fine(w) /\ now \in Nat /\ Window[w] \in Nat
          /\ usedAt[w] \in [Links -> Nat]
      BY <1>1, WindowIsFine, WindowTypes
    <3>2. RecentIsKept(w)'
      BY <1>2, <3>1 DEF Fine, RecentIsKept, limiter
    <3>3. QED
      BY <1>2, <3>1, <3>2 DEF Fine, RoomAtRetry, UsedUpTo, limiter
  <2>2. QED
    BY <1>1, <2>1, FineIsEnough
<1>3. CASE Restart
  <2>1. ASSUME NEW w \in Windows
        PROVE  Fine(w)'
    <3>1. /\ events'[w] = {} /\ retry'[w] = 0
          /\ \A l \in Links : usedAt'[w][l] = 0
          /\ Cardinality({}) = 0 /\ 0 <= Limit[w] /\ now' \in Nat
      BY <1>1, <1>3, FS_EmptySet, WindowTypes DEF Restart
    <3>2. \A t \in Times : UsedUpTo(w, t)' = {}
      BY <3>1 DEF UsedUpTo
    <3>3. RecentIsKept(w)' /\ RoomAtRetry(w)'
      BY <3>1 DEF RecentIsKept, RoomAtRetry
    <3>4. QED
      BY <3>1, <3>2, <3>3 DEF Fine
  <2>2. QED
    BY <1>1, <2>1, FineIsEnough
<1>4. CASE Tick \/ ClearRows \/ UNCHANGED vars
  BY <1>2, <1>4 DEF Tick, ClearRows, vars, limiter
<1>5. ASSUME NEW h \in Handlers,
             \/ CommandEnds(h) \/ RevokeOlder(h) \/ InsertLink(h)
             \/ OpenSession(h) \/ \E l \in Links : ClaimLink(h, l)
      PROVE  WindowInv'
  BY <1>2, <1>5 DEF CommandEnds, RevokeOlder, InsertLink, OpenSession, ClaimLink
<1>6. ASSUME NEW l \in Links, LinkExpires(l) \/ SessionExpires(l)
      PROVE  WindowInv'
  BY <1>2, <1>6 DEF LinkExpires, SessionExpires
<1>7. Outer \in Windows /\ Inner \in Windows
  BY DEF Windows
<1>8. ASSUME NEW h \in Handlers, NEW l \in Links, Command(h, l)
      PROVE  WindowInv'
  BY <1>1, <1>7, <1>8, AdmitWindow DEF Command
<1>9. ASSUME NEW h \in Handlers, Connect(h) \/ RefuseConnect(h)
      PROVE  WindowInv'
  <2>1. op[h].link \in Links
    BY <1>1, <1>9 DEF TypeOK, Connect, RefuseConnect, At
  <2>2. QED
    BY <1>1, <1>7, <1>9, <2>1, AdmitWindow, RefuseWindow
    DEF Connect, RefuseConnect
<1>10. CASE RefuseCommand
  BY <1>1, <1>7, <1>10, RefuseWindow DEF RefuseCommand
<1>11. QED
  BY <1>3, <1>4, <1>5, <1>6, <1>8, <1>9, <1>10 DEF Next

LEMMA WindowInit == Init => WindowInv
<1> SUFFICES ASSUME Init PROVE WindowInv
  OBVIOUS
<1>1. TypeOK
  BY TypeInit
<1>2. ASSUME NEW w \in Windows
      PROVE  /\ RecentIsKept(w) /\ RoomAtRetry(w)
             /\ Cardinality(events[w]) <= Limit[w]
  <2>1. /\ events[w] = {} /\ retry[w] = 0 /\ now = 1
        /\ \A l \in Links : usedAt[w][l] = 0
    BY DEF Init
  <2>2. QED
    BY <1>1, <2>1, FS_EmptySet, WindowTypes DEF RecentIsKept, RoomAtRetry
<1>3. WindowHolds
  <2>1. ASSUME NEW w \in Windows, NEW t \in Times
        PROVE  UsedUpTo(w, t) = {} /\ 0 <= Limit[w]
    BY <1>1, WindowTypes DEF UsedUpTo, Init
  <2>2. QED
    BY <2>1, FS_EmptySet DEF WindowHolds, UsedUpTo
<1>4. QED
  BY <1>1, <1>2, <1>3 DEF WindowInv

\* The strengthening is inductive: what is not over is in the deque.
THEOREM WindowInvariant == Spec => []WindowInv
<1>1. WindowInv /\ [Next]_vars => WindowInv'
  BY WindowStep
<1>2. QED
  BY <1>1, WindowInit, PTL DEF Spec

\* No span of a window's length, wherever it lies, admits more than its limit.
THEOREM EveryWindowHolds == Spec => []WindowHolds
<1>1. WindowInv => WindowHolds
  BY DEF WindowInv
<1>2. QED
  BY <1>1, WindowInvariant, PTL

\* Who comes back at the time that a window's refusal named is not refused by
\* that window again, unless it recorded a use since.
THEOREM RetryIsLateEnough == Spec => []RetryAfterSuffices
<1>1. WindowInv => RetryAfterSuffices
  <2> SUFFICES ASSUME WindowInv, NEW w \in Windows,
                      retry[w] # 0, now >= retry[w]
               PROVE  Admitted(w)
    BY DEF RetryAfterSuffices
  <2> DEFINE room == {l \in events[w] : usedAt[w][l] > retry[w] - Window[w]}
  <2>1. /\ TypeOK /\ now \in Nat /\ retry[w] \in Nat /\ Window[w] \in Nat
        /\ Limit[w] \in Nat /\ usedAt[w] \in [Links -> Nat]
    <3>1. TypeOK
      BY DEF WindowInv
    <3>2. QED
      BY <3>1, WindowTypes
  <2>2. Recent(w) \subseteq room /\ room \subseteq Links
    <3>1. Recent(w) \subseteq events[w] /\ events[w] \subseteq Links
      BY <2>1, DequeFacts
    <3>2. \A l \in Recent(w) : usedAt[w][l] > now - Window[w]
      BY DEF Recent
    <3>3. \A l \in Links : usedAt[w][l] \in Nat
      BY <2>1
    <3>4. QED
      BY <2>1, <3>1, <3>2, <3>3
  <2>3. /\ Cardinality(Recent(w)) <= Cardinality(room)
        /\ Cardinality(Recent(w)) \in Nat /\ Cardinality(room) \in Nat
    BY <2>2, CountFacts
  <2>4. Cardinality(room) < Limit[w]
    BY DEF WindowInv, RoomAtRetry
  <2>5. QED
    BY <2>1, <2>3, <2>4 DEF Admitted
<1>2. QED
  BY <1>1, WindowInvariant, PTL

=============================================================================
