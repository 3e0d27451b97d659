--------------------------- MODULE ClientsProofs ---------------------------
(* Theorems about Clients, for every value of its constants. *)
EXTENDS Clients, FiniteSetTheorems, TLAPS

-----------------------------------------------------------------------------
(* Types, and the lock of the user.                                        *)

\* What Goto and End do to a task, and that the others stay where they are.
LEMMA MoveFacts ==
  ASSUME TypeOK, NEW t \in Tasks
  PROVE  /\ \A pc : Goto(t, pc) =>
              /\ op'[t].pc = pc /\ op'[t].user = op[t].user
              /\ \A s \in Tasks \ {t} : op'[s] = op[s]
         /\ End(t) => /\ op'[t].pc = "idle"
                      /\ \A s \in Tasks \ {t} : op'[s] = op[s]
         /\ \A pc \in Starting \cup {"idle", "stopForLogin", "flag", "stop",
                                     "unflag"} :
              Goto(t, pc) => op' \in [Tasks -> Operation]
         /\ End(t) => op' \in [Tasks -> Operation]
<1>1. op \in [Tasks -> Operation] /\ Idle \in Operation /\ Idle.pc = "idle"
  BY ClientsAssumption DEF TypeOK, Idle, Operation
<1>2. ASSUME NEW pc, Goto(t, pc)
      PROVE  /\ op'[t].pc = pc /\ op'[t].user = op[t].user
             /\ \A s \in Tasks \ {t} : op'[s] = op[s]
  BY <1>1, <1>2 DEF Goto, Operation
<1>3. ASSUME NEW pc \in Starting \cup {"idle", "stopForLogin", "flag", "stop",
                                       "unflag"},
             Goto(t, pc)
      PROVE  op' \in [Tasks -> Operation]
  BY <1>1, <1>3 DEF Goto, Operation
<1>4. End(t) => /\ op'[t].pc = "idle" /\ op' \in [Tasks -> Operation]
                /\ \A s \in Tasks \ {t} : op'[s] = op[s]
  BY <1>1 DEF End
<1>5. QED
  BY <1>2, <1>3, <1>4

\* A task that raises leaves the lock, and stands nowhere in start_user.
LEMMA RaisedFacts ==
  ASSUME TypeOK, NEW t \in Tasks, NEW final \in BOOLEAN, Raised(t, final)
  PROVE  /\ op' \in [Tasks -> Operation]
         /\ lock' = [lock EXCEPT ![op[t].user] = Nobody]
         /\ op'[t].pc \in {"idle", "unflag"}
         /\ \A s \in Tasks \ {t} : op'[s] = op[s]
<1>1. lock' = [lock EXCEPT ![op[t].user] = Nobody]
  BY DEF Raised, Release
<1>2. CASE End(t)
  BY <1>1, <1>2, MoveFacts
<1>3. CASE Goto(t, "unflag")
  BY <1>1, <1>3, MoveFacts
<1>4. QED
  BY <1>2, <1>3 DEF Raised

\* A step of start_user that keeps other tasks and their locks as they are.
LEMMA StartKeeps ==
  ASSUME StartInv, NEW t \in Tasks,
         op' \in [Tasks -> Operation],
         lock' \in [Users -> Tasks \cup {Nobody}],
         client' \in [Users -> {"none", "up", "lost"}],
         UNCHANGED <<files, loop, stops>>,
         \A s \in Tasks \ {t} : op'[s] = op[s],
         \A u \in Users : lock[u] \notin {t, Nobody} =>
           lock'[u] = lock[u] /\ client'[u] = client[u],
         op'[t].pc \in {"drop", "connect"} => lock'[op'[t].user] = t,
         op'[t].pc = "drop" => client'[op'[t].user] = "lost",
         op'[t].pc = "connect" => client'[op'[t].user] = "none"
  PROVE  StartInv'
<1>1. TypeOK'
  BY DEF StartInv, TypeOK, files, loop
<1>2. ASSUME NEW s \in Tasks \ {t}
      PROVE  /\ op'[s].pc \in {"drop", "connect"} => lock'[op'[s].user] = s
             /\ op'[s].pc = "drop" => client'[op'[s].user] = "lost"
             /\ op'[s].pc = "connect" => client'[op'[s].user] = "none"
  <2>1. op'[s] = op[s] /\ op[s].user \in Users /\ s # Nobody
    BY <1>2, ClientsAssumption DEF StartInv, TypeOK, Operation
  <2>2. QED
    BY <1>2, <2>1 DEF StartInv, StartingHoldsLock, At
<1>3. QED
  BY <1>1, <1>2 DEF StartInv, StartingHoldsLock, At

\* The limit and the file are checked by a task that has the lock, or finds it
\* free, and that has left no client of the user in _clients.
LEMMA CheckLimitKeeps ==
  ASSUME StartInv, NEW t \in Tasks, NEW others, CheckLimit(t, others),
         lock[op[t].user] \in {t, Nobody},
         client' = [client EXCEPT ![op[t].user] = "none"],
         UNCHANGED <<files, loop, stops>>
  PROVE  StartInv'
<1>1. /\ TypeOK /\ op[t].user \in Users
      /\ client' \in [Users -> {"none", "up", "lost"}]
  BY DEF StartInv, TypeOK, Operation
<1>2. ASSUME NEW final \in BOOLEAN, Raised(t, final)
      PROVE  StartInv'
  <2>1. lock' \in [Users -> Tasks \cup {Nobody}]
    BY <1>1, <1>2, RaisedFacts DEF TypeOK
  <2>2. \A u \in Users : lock[u] \notin {t, Nobody} =>
          lock'[u] = lock[u] /\ client'[u] = client[u]
    BY <1>1, <1>2, RaisedFacts DEF TypeOK
  <2>3. QED
    BY <1>1, <1>2, <2>1, <2>2, RaisedFacts, StartKeeps
<1>3. CASE Goto(t, "connect") /\ lock' = [lock EXCEPT ![op[t].user] = t]
  <2>1. /\ op' \in [Tasks -> Operation]
        /\ op'[t].pc = "connect" /\ op'[t].user = op[t].user
        /\ \A s \in Tasks \ {t} : op'[s] = op[s]
    BY <1>1, <1>3, MoveFacts DEF Starting
  <2>2. /\ lock' \in [Users -> Tasks \cup {Nobody}]
        /\ lock'[op[t].user] = t /\ client'[op[t].user] = "none"
        /\ \A u \in Users : lock[u] \notin {t, Nobody} =>
             lock'[u] = lock[u] /\ client'[u] = client[u]
    BY <1>1, <1>3 DEF TypeOK
  <2>3. QED
    BY <1>1, <2>1, <2>2, StartKeeps
<1>4. QED
  BY <1>2, <1>3 DEF CheckLimit

\* The steps of start_user.
LEMMA StartUserKeeps ==
  ASSUME StartInv, NEW t \in Tasks, Start(t)
  PROVE  StartInv'
<1>1. TypeOK /\ op[t].user \in Users
  BY DEF StartInv, TypeOK, Operation
<1>2. CASE EnterStart(t)
  <2>1. UNCHANGED <<files, client, loop, stops>> /\ lock[op[t].user] = Nobody
    BY <1>2 DEF EnterStart
  <2>2. CASE End(t) /\ UNCHANGED lock
    BY <1>1, <2>1, <2>2, MoveFacts, StartKeeps DEF TypeOK
  <2>3. CASE /\ client[op[t].user] = "lost" /\ Goto(t, "drop")
             /\ lock' = [lock EXCEPT ![op[t].user] = t]
    <3>1. /\ op' \in [Tasks -> Operation]
          /\ op'[t].pc = "drop" /\ op'[t].user = op[t].user
          /\ \A s \in Tasks \ {t} : op'[s] = op[s]
      BY <1>1, <2>3, MoveFacts DEF Starting
    <3>2. /\ lock' \in [Users -> Tasks \cup {Nobody}] /\ lock'[op[t].user] = t
          /\ \A u \in Users : lock[u] \notin {t, Nobody} =>
               lock'[u] = lock[u] /\ client'[u] = client[u]
      BY <1>1, <2>1, <2>3 DEF TypeOK
    <3>3. /\ client' \in [Users -> {"none", "up", "lost"}]
          /\ client'[op[t].user] = "lost"
      BY <1>1, <2>1, <2>3 DEF TypeOK
    <3>4. QED
      BY <2>1, <3>1, <3>2, <3>3, StartKeeps
  <2>4. CASE client[op[t].user] = "none" /\ CheckLimit(t, Owned)
    <3>1. client' = [client EXCEPT ![op[t].user] = "none"]
      BY <1>1, <2>1, <2>4 DEF TypeOK
    <3>2. QED
      BY <2>1, <2>4, <3>1, CheckLimitKeeps
  <2>5. QED
    BY <1>2, <2>2, <2>3, <2>4 DEF EnterStart
<1>3. CASE DropOld(t)
  <2>1. lock[op[t].user] = t
    BY <1>3 DEF DropOld, At, StartInv, StartingHoldsLock
  <2>2. QED
    BY <1>3, <2>1, CheckLimitKeeps DEF DropOld
<1>4. CASE Connected(t)
  <2>1. lock[op[t].user] = t
    BY <1>4 DEF Connected, At, StartInv, StartingHoldsLock
  <2>2. /\ lock' \in [Users -> Tasks \cup {Nobody}]
        /\ client' \in [Users -> {"none", "up", "lost"}]
        /\ \A u \in Users : lock[u] \notin {t, Nobody} =>
             lock'[u] = lock[u] /\ client'[u] = client[u]
    BY <1>1, <1>4, <2>1 DEF Connected, Release, TypeOK
  <2>3. /\ op' \in [Tasks -> Operation] /\ op'[t].pc = "idle"
        /\ \A s \in Tasks \ {t} : op'[s] = op[s]
    BY <1>1, <1>4, MoveFacts DEF Connected
  <2>4. QED
    BY <1>4, <2>2, <2>3, StartKeeps DEF Connected
<1>5. CASE ConnectFails(t)
  <2>1. lock[op[t].user] = t
    BY <1>5 DEF ConnectFails, At, StartInv, StartingHoldsLock
  <2>2. PICK final \in BOOLEAN : Raised(t, final)
    BY <1>5 DEF ConnectFails
  <2>3. /\ lock' \in [Users -> Tasks \cup {Nobody}]
        /\ client' \in [Users -> {"none", "up", "lost"}]
        /\ \A u \in Users : lock[u] \notin {t, Nobody} =>
             lock'[u] = lock[u] /\ client'[u] = client[u]
    BY <1>1, <1>5, <2>1, <2>2, RaisedFacts DEF ConnectFails, TypeOK
  <2>4. QED
    BY <1>1, <1>5, <2>2, <2>3, RaisedFacts, StartKeeps DEF ConnectFails
<1>6. QED
  BY <1>2, <1>3, <1>4, <1>5 DEF Start

\* A step outside start_user: the tasks inside it, their locks and what they
\* know of their clients stay.
LEMMA OutsideKeeps ==
  ASSUME StartInv, TypeOK', NEW t \in Tasks,
         \A s \in Tasks \ {t} : op'[s] = op[s],
         op'[t].pc \notin {"drop", "connect"},
         \A u \in Users : lock[u] \notin {t, Nobody} =>
           lock'[u] = lock[u] /\ client'[u] = client[u]
  PROVE  StartInv'
<1>1. ASSUME NEW s \in Tasks \ {t}
      PROVE  /\ op'[s].pc \in {"drop", "connect"} => lock'[op'[s].user] = s
             /\ op'[s].pc = "drop" => client'[op'[s].user] = "lost"
             /\ op'[s].pc = "connect" => client'[op'[s].user] = "none"
  <2>1. op'[s] = op[s] /\ op[s].user \in Users /\ s # Nobody
    BY <1>1, ClientsAssumption DEF StartInv, TypeOK, Operation
  <2>2. QED
    BY <1>1, <2>1 DEF StartInv, StartingHoldsLock, At
<1>2. QED
  BY <1>1 DEF StartInv, StartingHoldsLock, At

\* Logins that end, disconnections and cancelled logins.
LEMMA HandlerKeeps ==
  ASSUME StartInv, NEW h \in Handlers,
         \/ HandlerStep(h) \/ CancelLogin(h)
         \/ \E u \in Users : Finalize(h, u) \/ DisconnectTelegram(h, u)
  PROVE  StartInv'
<1>1. TypeOK /\ h \in Tasks /\ op[h].user \in Users
  BY DEF StartInv, TypeOK, Tasks, Operation
<1> USE DEF TypeOK
<1>2. CASE PromoteSession(h) \/ RemoveSession(h)
  <2>1. PICK pc \in {"flag", "unflag"} : Goto(h, pc)
    BY <1>2 DEF PromoteSession, RemoveSession
  <2>2. TypeOK'
    BY <1>1, <1>2, <2>1, MoveFacts
    DEF PromoteSession, RemoveSession, StopUser, loop
  <2>3. QED
    BY <1>1, <1>2, <2>1, <2>2, MoveFacts, OutsideKeeps
    DEF PromoteSession, RemoveSession, StopUser
<1>3. CASE FlagConnected(h)
  <2>1. TypeOK'
    BY <1>1, <1>3, MoveFacts DEF FlagConnected, loop, Starting
  <2>2. QED
    BY <1>1, <1>3, <2>1, MoveFacts, OutsideKeeps DEF FlagConnected
<1>4. CASE CancelLogin(h)
  <2>1. TypeOK'
    BY <1>1, <1>4, MoveFacts DEF CancelLogin, files, loop
  <2>2. \A u \in Users : lock[u] \notin {h, Nobody} => lock'[u] = lock[u]
    BY <1>1, <1>4 DEF CancelLogin
  <2>3. QED
    BY <1>1, <1>4, <2>1, <2>2, MoveFacts, OutsideKeeps DEF CancelLogin
<1>5. ASSUME NEW u \in Users, Finalize(h, u) \/ DisconnectTelegram(h, u)
      PROVE  StartInv'
  <2>1. PICK pc \in {"stopForLogin", "stop"} : Begin(h, u, pc)
    BY <1>5 DEF Finalize, DisconnectTelegram
  <2>2. [pc |-> pc, user |-> u] \in Operation
    BY DEF Operation
  <2>3. /\ op' \in [Tasks -> Operation] /\ op'[h].pc = pc
        /\ \A s \in Tasks \ {h} : op'[s] = op[s]
    BY <1>1, <2>1, <2>2 DEF Begin
  <2>4. TypeOK'
    BY <1>1, <2>1, <2>3 DEF Begin, files, loop
  <2>5. QED
    BY <1>1, <2>1, <2>3, <2>4, OutsideKeeps DEF Begin
<1>6. QED
  BY <1>2, <1>3, <1>4, <1>5 DEF HandlerStep

\* The loops of Service, the flag of a user, Telegram and stops.
LEMMA ServiceKeeps ==
  ASSUME StartInv,
         \/ Loop \/ Restart \/ \E t \in Tasks : UnflagUser(t)
         \/ \E u \in Users : ConnectionLost(u) \/ SessionRevoked(u)
  PROVE  StartInv'
<1>1. TypeOK /\ Service \in Tasks /\ Idle \in Operation /\ Idle.pc = "idle"
  BY ClientsAssumption DEF StartInv, Tasks, Operation, Idle
<1> USE DEF TypeOK
<1>2. ASSUME TypeOK', op' = op, lock' = lock,
             \A u \in Users : client[u] # "up" => client'[u] = client[u]
      PROVE  StartInv'
  <2>1. \A t \in Tasks : op[t].user \in Users
    BY <1>1 DEF Operation
  <2>2. QED
    BY <1>2, <2>1 DEF StartInv, StartingHoldsLock, At
<1>3. CASE BeginRound \/ StartEnds
  BY <1>1, <1>2, <1>3 DEF BeginRound, StartEnds, files
<1>4. ASSUME NEW u \in Users, Visit(u)
      PROVE  StartInv'
  <2>1. [pc |-> "lock", user |-> u] \in Operation
    BY DEF Operation, Starting
  <2>2. CASE op' = op
    BY <1>1, <1>2, <1>4, <2>2 DEF Visit, files
  <2>3. CASE op' = [op EXCEPT ![Service] = [pc |-> "lock", user |-> u]]
    <3>1. /\ op' \in [Tasks -> Operation] /\ op'[Service].pc = "lock"
          /\ \A s \in Tasks \ {Service} : op'[s] = op[s]
      BY <1>1, <2>1, <2>3
    <3>2. TypeOK'
      BY <1>1, <1>4, <3>1 DEF Visit, files
    <3>3. QED
      BY <1>1, <1>4, <3>1, <3>2, OutsideKeeps DEF Visit
  <2>4. QED
    BY <1>4, <2>2, <2>3 DEF Visit
<1>5. ASSUME NEW t \in Tasks, UnflagUser(t)
      PROVE  StartInv'
  <2>1. TypeOK'
    BY <1>1, <1>5, MoveFacts DEF UnflagUser, loop
  <2>2. QED
    BY <1>1, <1>5, <2>1, MoveFacts, OutsideKeeps DEF UnflagUser
<1>6. ASSUME NEW u \in Users, ConnectionLost(u) \/ SessionRevoked(u)
      PROVE  StartInv'
  <2>1. TypeOK'
    BY <1>1, <1>6 DEF ConnectionLost, SessionRevoked, files, loop
  <2>2. QED
    BY <1>1, <1>2, <1>6, <2>1 DEF ConnectionLost, SessionRevoked
<1>7. CASE Restart
  <2>1. stops' \in 0 .. MaxStops
    BY <1>1, <1>7, ClientsAssumption DEF Restart
  <2>2. TypeOK'
    BY <1>1, <1>7, <2>1 DEF Restart, files
  <2>3. QED
    BY <1>1, <1>7, <2>2 DEF Restart, StartInv, StartingHoldsLock, At
<1>8. QED
  BY <1>3, <1>4, <1>5, <1>6, <1>7 DEF Loop

\* The strengthening holds at first, and every step keeps it.
LEMMA StartInit == Init => StartInv
<1> SUFFICES ASSUME Init PROVE StartInv
  OBVIOUS
<1>1. Idle \in Operation /\ Idle.pc = "idle"
  BY ClientsAssumption DEF Operation, Idle
<1>2. 0 \in 0 .. MaxStops
  BY ClientsAssumption
<1>3. TypeOK
  BY <1>1, <1>2 DEF Init, TypeOK
<1>4. QED
  BY <1>1, <1>3 DEF Init, StartInv, StartingHoldsLock, At

\* Each step is one of start_user, of a handler, of Service or from outside.
LEMMA StartStep ==
  ASSUME StartInv, [Next]_vars
  PROVE  StartInv'
<1>1. CASE UNCHANGED vars
  BY <1>1 DEF vars, StartInv, TypeOK, StartingHoldsLock, At
<1>2. CASE Next
  BY <1>2, StartUserKeeps, HandlerKeeps, ServiceKeeps DEF Next
<1>3. QED
  BY <1>1, <1>2

\* What start_user does between its awaits it does under the user's lock.
THEOREM StartInvariant == Spec => []StartInv
  BY StartInit, StartStep, PTL DEF Spec

\* Every reachable state is well typed.
THEOREM TypeCorrect == Spec => []TypeOK
<1>1. StartInv => TypeOK
  BY DEF StartInv
<1>2. QED
  BY <1>1, StartInvariant, PTL

\* A user never has two clients on one session: while one is being connected
\* _clients has none of the user, and no other task connects one.
THEOREM ClientsAreSingle == Spec => []OneClientEach
<1>1. StartInv => OneClientEach
  <2> SUFFICES ASSUME StartInv, NEW t \in ConnectingTasks
               PROVE  /\ client[op[t].user] = "none"
                      /\ \A s \in ConnectingTasks :
                           op[s].user = op[t].user => s = t
    BY DEF OneClientEach
  <2>1. \A s \in ConnectingTasks : lock[op[s].user] = s
    BY DEF StartInv, StartingHoldsLock, ConnectingTasks, At
  <2>2. client[op[t].user] = "none"
    BY DEF StartInv, StartingHoldsLock, ConnectingTasks
  <2>3. QED
    BY <2>1, <2>2
<1>2. QED
  BY <1>1, StartInvariant, PTL

-----------------------------------------------------------------------------
(* The limit of connected users.                                           *)

\* Sets of users and of tasks are counted by natural numbers.
LEMMA CountFacts ==
  /\ IsFiniteSet(Tasks)
  /\ \A S : S \subseteq Users \/ S \subseteq Tasks =>
       IsFiniteSet(S) /\ Cardinality(S) \in Nat
  /\ \A S, T : (S \subseteq T /\ (T \subseteq Users \/ T \subseteq Tasks)) =>
       Cardinality(S) <= Cardinality(T)
<1>1. IsFiniteSet(Tasks)
  BY FS_AddElement, ClientsAssumption, FS_Union, FS_Singleton DEF Tasks
<1>2. \A S : S \subseteq Users \/ S \subseteq Tasks =>
        IsFiniteSet(S) /\ Cardinality(S) \in Nat
  BY <1>1, ClientsAssumption, FS_Subset, FS_CardinalityType
<1>3. QED
  BY <1>1, <1>2, FS_Subset

\* The tasks that connect and the clients that there are, when no step adds
\* to either.
LEMMA NoneAdded ==
  ASSUME LimitPassedByOverlapOnly,
         Owned' \subseteq Owned, ConnectingTasks' \subseteq ConnectingTasks
  PROVE  LimitPassedByOverlapOnly'
<1>1. Owned \subseteq Users /\ ConnectingTasks \subseteq Tasks
  BY DEF Owned, ConnectingTasks
<1>2. /\ Cardinality(Owned') <= Cardinality(Owned)
      /\ Cardinality(ConnectingTasks') <= Cardinality(ConnectingTasks)
      /\ Cardinality(Owned') \in Nat /\ Cardinality(Owned) \in Nat
      /\ Cardinality(ConnectingTasks') \in Nat
      /\ Cardinality(ConnectingTasks) \in Nat
      /\ Cardinality(Tasks) \in Nat
  BY <1>1, CountFacts
<1>3. QED
  BY <1>2, ClientsAssumption DEF LimitPassedByOverlapOnly

\* A task that passes the check begins to connect beside at most all others.
LEMMA CheckLimitBounds ==
  ASSUME StartInv, LimitPassedByOverlapOnly, NEW t \in Tasks,
         NEW others, others \subseteq Users, CheckLimit(t, others),
         Owned' = others, Owned' \subseteq Owned
  PROVE  LimitPassedByOverlapOnly'
<1>1. ASSUME NEW final \in BOOLEAN, Raised(t, final)
      PROVE  LimitPassedByOverlapOnly'
  <2>1. ConnectingTasks' \subseteq ConnectingTasks
    BY <1>1, RaisedFacts DEF StartInv, ConnectingTasks, At
  <2>2. QED
    BY <2>1, NoneAdded
<1>2. CASE ~(Cardinality(others) >= MaxConnected)
  <2>1. ConnectingTasks' \subseteq Tasks
    BY DEF ConnectingTasks
  <2>2. /\ Cardinality(ConnectingTasks') <= Cardinality(Tasks)
        /\ Cardinality(ConnectingTasks') \in Nat
        /\ Cardinality(Owned') \in Nat /\ Cardinality(Tasks) \in Nat
    BY <2>1, CountFacts
  <2>3. QED
    BY <1>2, <2>2, ClientsAssumption DEF LimitPassedByOverlapOnly
<1>3. QED
  BY <1>1, <1>2 DEF CheckLimit

\* A connection that is made moves from the tasks to the clients.
LEMMA ConnectedBounds ==
  ASSUME StartInv, LimitPassedByOverlapOnly, NEW t \in Tasks, Connected(t)
  PROVE  LimitPassedByOverlapOnly'
<1>1. TypeOK /\ t \in ConnectingTasks /\ op[t].user \in Users
  BY DEF StartInv, TypeOK, Operation, Connected, ConnectingTasks
<1>2. Owned' \subseteq Owned \cup {op[t].user}
  BY <1>1 DEF Connected, Owned, TypeOK
<1>3. ConnectingTasks' \subseteq ConnectingTasks \ {t}
  BY <1>1, MoveFacts DEF Connected, ConnectingTasks, At
<1>4. /\ Owned \subseteq Users /\ Owned \cup {op[t].user} \subseteq Users
      /\ ConnectingTasks \subseteq Tasks
      /\ ConnectingTasks \ {t} \subseteq Tasks
  BY <1>1 DEF Owned, ConnectingTasks
<1>5. /\ Cardinality(Owned') <= Cardinality(Owned \cup {op[t].user})
      /\ Cardinality(Owned') \in Nat /\ Cardinality(Owned) \in Nat
      /\ Cardinality(Owned \cup {op[t].user}) \in Nat
      /\ Cardinality(ConnectingTasks') <= Cardinality(ConnectingTasks \ {t})
      /\ Cardinality(ConnectingTasks') \in Nat
      /\ Cardinality(ConnectingTasks) \in Nat
      /\ Cardinality(Tasks) \in Nat
  BY <1>2, <1>3, <1>4, CountFacts
<1>6. Cardinality(Owned \cup {op[t].user}) <= Cardinality(Owned) + 1
  <2>1. IsFiniteSet(Owned)
    BY <1>4, CountFacts
  <2>2. Cardinality(Owned \cup {op[t].user})
          = IF op[t].user \in Owned THEN Cardinality(Owned)
            ELSE Cardinality(Owned) + 1
    BY <2>1, FS_AddElement
  <2>3. QED
    BY <1>5, <2>2
<1>7. Cardinality(ConnectingTasks \ {t}) = Cardinality(ConnectingTasks) - 1
  BY <1>1, <1>4, CountFacts, FS_RemoveElement
<1>8. QED
  BY <1>5, <1>6, <1>7, ClientsAssumption DEF LimitPassedByOverlapOnly

\* Every other step adds neither a client nor a task that connects.
LEMMA LimitStep ==
  ASSUME StartInv, LimitPassedByOverlapOnly, [Next]_vars
  PROVE  LimitPassedByOverlapOnly'
<1>1. TypeOK /\ Service \in Tasks /\ \A h \in Handlers : h \in Tasks
  BY DEF StartInv, Tasks
<1>2. ASSUME NEW t \in Tasks, \A s \in Tasks \ {t} : op'[s] = op[s],
             op'[t].pc # "connect",
             \A u \in Users : client[u] = "none" => client'[u] = "none"
      PROVE  LimitPassedByOverlapOnly'
  <2>1. Owned' \subseteq Owned /\ ConnectingTasks' \subseteq ConnectingTasks
    BY <1>2 DEF Owned, ConnectingTasks, At
  <2>2. QED
    BY <2>1, NoneAdded
<1>3. ASSUME op' = op \/ \A t \in Tasks : op'[t].pc = "idle",
             \A u \in Users : client[u] = "none" => client'[u] = "none"
      PROVE  LimitPassedByOverlapOnly'
  <2>1. Owned' \subseteq Owned /\ ConnectingTasks' \subseteq ConnectingTasks
    BY <1>3 DEF Owned, ConnectingTasks, At
  <2>2. QED
    BY <2>1, NoneAdded
<1>4. ASSUME NEW t \in Tasks, EnterStart(t)
      PROVE  LimitPassedByOverlapOnly'
  <2>1. client' = client
    BY <1>4 DEF EnterStart
  <2>2. CASE End(t) \/ Goto(t, "drop")
    BY <1>1, <1>2, <2>1, <2>2, MoveFacts
  <2>3. CASE CheckLimit(t, Owned)
    <3>1. Owned \subseteq Users /\ Owned' = Owned
      BY <2>1 DEF Owned
    <3>2. QED
      BY <2>3, <3>1, CheckLimitBounds
  <2>4. QED
    BY <1>4, <2>2, <2>3 DEF EnterStart
<1>5. ASSUME NEW t \in Tasks, DropOld(t)
      PROVE  LimitPassedByOverlapOnly'
  <2>1. Owned' = Owned \ {op[t].user} /\ Owned \subseteq Users
    BY <1>1, <1>5 DEF DropOld, Owned, TypeOK
  <2>2. QED
    BY <1>5, <2>1, CheckLimitBounds DEF DropOld
<1>6. ASSUME NEW t \in Tasks, ConnectFails(t)
      PROVE  LimitPassedByOverlapOnly'
  <2>1. PICK final \in BOOLEAN : Raised(t, final)
    BY <1>6 DEF ConnectFails
  <2>2. QED
    BY <1>1, <1>2, <1>6, <2>1, RaisedFacts DEF ConnectFails
<1>7. ASSUME NEW t \in Tasks, UnflagUser(t)
      PROVE  LimitPassedByOverlapOnly'
  BY <1>1, <1>2, <1>7, MoveFacts DEF UnflagUser
<1>8. ASSUME NEW h \in Handlers, HandlerStep(h) \/ CancelLogin(h)
      PROVE  LimitPassedByOverlapOnly'
  <2>1. \A u \in Users : client[u] = "none" => client'[u] = "none"
    BY <1>1, <1>8 DEF HandlerStep, PromoteSession, FlagConnected, RemoveSession,
                      CancelLogin, StopUser, TypeOK
  <2>2. End(h) \/ Goto(h, "flag") \/ Goto(h, "lock") \/ Goto(h, "unflag")
    BY <1>8 DEF HandlerStep, PromoteSession, FlagConnected, RemoveSession,
                CancelLogin
  <2>3. op'[h].pc # "connect" /\ \A s \in Tasks \ {h} : op'[s] = op[s]
    BY <1>1, <1>8, <2>2, MoveFacts
  <2>4. QED
    BY <1>1, <1>2, <1>8, <2>1, <2>3
<1>9. ASSUME NEW h \in Handlers, NEW u \in Users, NEW pc,
             Begin(h, u, pc), pc # "connect"
      PROVE  LimitPassedByOverlapOnly'
  <2>1. op'[h].pc = pc /\ \A s \in Tasks \ {h} : op'[s] = op[s]
    BY <1>1, <1>9 DEF Begin, TypeOK
  <2>2. QED
    BY <1>1, <1>2, <1>9, <2>1 DEF Begin
<1>10. ASSUME NEW u \in Users, Visit(u)
       PROVE  LimitPassedByOverlapOnly'
  <2>1. CASE op' = op
    BY <1>3, <1>10, <2>1 DEF Visit
  <2>2. CASE op' = [op EXCEPT ![Service] = [pc |-> "lock", user |-> u]]
    BY <1>1, <1>2, <1>10, <2>2 DEF Visit, TypeOK
  <2>3. QED
    BY <1>10, <2>1, <2>2 DEF Visit
<1>11. CASE Restart
  <2>1. Idle.pc = "idle"
    BY DEF Idle
  <2>2. QED
    BY <1>3, <1>11, <2>1 DEF Restart
<1>12. CASE \/ BeginRound \/ StartEnds \/ UNCHANGED vars
            \/ \E u \in Users : ConnectionLost(u) \/ SessionRevoked(u)
  BY <1>1, <1>3, <1>12
  DEF BeginRound, StartEnds, ConnectionLost, SessionRevoked, vars, TypeOK
<1>13. QED
  BY <1>4, <1>5, <1>6, <1>7, <1>8, <1>9, <1>10, <1>11, <1>12, ConnectedBounds
  DEF Next, Start, Loop, Finalize, DisconnectTelegram

\* At first there is no client and no task connects.
LEMMA LimitInit == Init => LimitPassedByOverlapOnly
<1> SUFFICES ASSUME Init PROVE LimitPassedByOverlapOnly
  OBVIOUS
<1>1. Owned = {} /\ ConnectingTasks = {}
  BY DEF Init, Owned, ConnectingTasks, At, Idle
<1>2. Cardinality({}) = 0 /\ Cardinality(Tasks) \in Nat
  BY FS_EmptySet, CountFacts
<1>3. QED
  BY <1>1, <1>2, ClientsAssumption DEF LimitPassedByOverlapOnly

\* max_connected_users is passed by no more clients than there are tasks that
\* connect beside each other.
THEOREM OvershootIsBounded == Spec => []LimitPassedByOverlapOnly
<1>1. StartInv /\ LimitPassedByOverlapOnly /\ [Next]_vars
        => LimitPassedByOverlapOnly'
  BY LimitStep
<1>2. QED
  BY <1>1, LimitInit, StartInvariant, PTL DEF Spec

-----------------------------------------------------------------------------
(* The clients implement ClientTable.                                      *)

\* Who is being connected, when one task moves and the others stay.
LEMMA ConnectingMoves ==
  ASSUME StartInv, NEW t \in Tasks, \A s \in Tasks \ {t} : op'[s] = op[s]
  PROVE  /\ op[t].pc # "connect" /\ op'[t].pc # "connect" =>
              BeingConnected' = BeingConnected
         /\ (op[t].pc # "connect" /\ op'[t].pc = "connect"
               /\ op'[t].user = op[t].user) =>
              BeingConnected' = BeingConnected \cup {op[t].user}
         /\ op[t].pc = "connect" /\ op'[t].pc # "connect" =>
              BeingConnected' = BeingConnected \ {op[t].user}
<1>1. \A s \in Tasks : op[s].pc = "connect" => lock[op[s].user] = s
  BY DEF StartInv, StartingHoldsLock, At
<1>2. \A u : u \in BeingConnected <=>
               \E s \in Tasks : op[s].pc = "connect" /\ op[s].user = u
  BY DEF BeingConnected, ConnectingTasks, At
<1>3. \A u : u \in BeingConnected' <=>
               \E s \in Tasks : op'[s].pc = "connect" /\ op'[s].user = u
  BY DEF BeingConnected, ConnectingTasks, At
<1>4. ASSUME op[t].pc # "connect", op'[t].pc # "connect"
      PROVE  BeingConnected' = BeingConnected
  <2>1. \A u : u \in BeingConnected' <=> u \in BeingConnected
    BY <1>2, <1>3, <1>4
  <2>2. QED
    BY <2>1
<1>5. ASSUME op[t].pc # "connect", op'[t].pc = "connect",
             op'[t].user = op[t].user
      PROVE  BeingConnected' = BeingConnected \cup {op[t].user}
  <2>1. \A u : u \in BeingConnected' <=>
                 u \in BeingConnected \/ u = op[t].user
    BY <1>2, <1>3, <1>5
  <2>2. QED
    BY <2>1
<1>6. ASSUME op[t].pc = "connect", op'[t].pc # "connect"
      PROVE  BeingConnected' = BeingConnected \ {op[t].user}
  <2>1. \A u : u \in BeingConnected' <=>
                 u \in BeingConnected /\ u # op[t].user
    BY <1>1, <1>2, <1>3, <1>6
  <2>2. QED
    BY <2>1
<1>7. QED
  BY <1>4, <1>5, <1>6

\* Who has the lock, or finds it free, finds nobody connecting the user.
LEMMA LockExcludes ==
  ASSUME StartInv, NEW u \in Users, NEW t \in Tasks,
         lock[u] \in {t, Nobody}, ~At(t, "connect")
  PROVE  u \notin BeingConnected
<1>1. \A s \in ConnectingTasks : s \in Tasks /\ lock[op[s].user] = s
  BY DEF StartInv, StartingHoldsLock, ConnectingTasks, At
<1>2. QED
  BY <1>1, ClientsAssumption DEF BeingConnected, ConnectingTasks

\* Behind the check, a task begins an attempt or leaves the user without one.
LEMMA CheckLimitImplements ==
  ASSUME StartInv, NEW t \in Tasks, NEW others, CheckLimit(t, others),
         ~At(t, "connect"), lock[op[t].user] \in {t, Nobody},
         client[op[t].user] \in {"none", "lost"},
         client' = [client EXCEPT ![op[t].user] = "none"],
         UNCHANGED files
  PROVE  [Table!Next]_(Table!table)
<1>1. TypeOK /\ op[t].user \in Users
  BY DEF StartInv, TypeOK, Operation
<1>2. op[t].user \notin BeingConnected
  BY <1>1, LockExcludes
<1>3. ASSUME NEW final \in BOOLEAN, Raised(t, final)
      PROVE  [Table!Next]_(Table!table)
  <2>1. BeingConnected' = BeingConnected
    BY <1>1, <1>3, RaisedFacts, ConnectingMoves DEF At
  <2>2. CASE client[op[t].user] = "lost"
    <3>1. Table!Forget(op[t].user)
      BY <1>2, <2>1, <2>2 DEF Table!Forget, files
    <3>2. QED
      BY <1>1, <3>1 DEF Table!Next
  <2>3. CASE client[op[t].user] = "none"
    BY <1>1, <2>1, <2>3 DEF Table!table, files, TypeOK
  <2>4. QED
    BY <2>2, <2>3
<1>4. CASE Goto(t, "connect") /\ session[op[t].user] # "none"
  <2>1. BeingConnected' = BeingConnected \cup {op[t].user}
    BY <1>1, <1>4, MoveFacts, ConnectingMoves DEF At
  <2>2. Table!Attempt(op[t].user)
    BY <1>2, <1>4, <2>1 DEF Table!Attempt, files
  <2>3. QED
    BY <1>1, <2>2 DEF Table!Next
<1>5. QED
  BY <1>3, <1>4 DEF CheckLimit

\* The steps of start_user.
LEMMA StartImplements ==
  ASSUME StartInv, NEW t \in Tasks, Start(t)
  PROVE  [Table!Next]_(Table!table)
<1>1. TypeOK /\ op[t].user \in Users
  BY DEF StartInv, TypeOK, Operation
<1>2. CASE EnterStart(t)
  <2>1. ASSUME End(t) \/ Goto(t, "drop")
        PROVE  UNCHANGED Table!table
    BY <1>1, <1>2, <2>1, MoveFacts, ConnectingMoves
    DEF EnterStart, At, Table!table, files
  <2>2. CASE client[op[t].user] = "none" /\ CheckLimit(t, Owned)
    <3>1. client' = [client EXCEPT ![op[t].user] = "none"]
      BY <1>1, <1>2, <2>2 DEF EnterStart, TypeOK
    <3>2. QED
      BY <1>2, <2>2, <3>1, CheckLimitImplements DEF EnterStart, At
  <2>3. QED
    BY <1>2, <2>1, <2>2 DEF EnterStart
<1>3. CASE DropOld(t)
  <2>1. lock[op[t].user] = t /\ client[op[t].user] = "lost"
    BY <1>3 DEF DropOld, At, StartInv, StartingHoldsLock
  <2>2. QED
    BY <1>3, <2>1, CheckLimitImplements DEF DropOld, At
<1>4. CASE Connected(t)
  <2>1. op[t].user \in BeingConnected /\ client[op[t].user] = "none"
    BY <1>4 DEF Connected, BeingConnected, ConnectingTasks, StartInv,
                StartingHoldsLock
  <2>2. BeingConnected' = BeingConnected \ {op[t].user}
    BY <1>1, <1>4, MoveFacts, ConnectingMoves DEF Connected, At
  <2>3. Table!Succeed(op[t].user)
    BY <1>4, <2>1, <2>2 DEF Table!Succeed, Connected, files
  <2>4. QED
    BY <1>1, <2>3 DEF Table!Next
<1>5. CASE ConnectFails(t)
  <2>1. PICK final \in BOOLEAN : Raised(t, final)
    BY <1>5 DEF ConnectFails
  <2>2. op[t].user \in BeingConnected
    BY <1>5 DEF ConnectFails, BeingConnected, ConnectingTasks
  <2>3. BeingConnected' = BeingConnected \ {op[t].user}
    BY <1>1, <1>5, <2>1, RaisedFacts, ConnectingMoves DEF ConnectFails, At
  <2>4. Table!GiveUp(op[t].user)
    BY <1>5, <2>2, <2>3 DEF Table!GiveUp, ConnectFails, files
  <2>5. QED
    BY <1>1, <2>4 DEF Table!Next
<1>6. QED
  BY <1>2, <1>3, <1>4, <1>5 DEF Start

\* Logins that end, disconnections and cancelled logins.
LEMMA HandlerImplements ==
  ASSUME StartInv, NEW h \in Handlers,
         \/ HandlerStep(h) \/ CancelLogin(h)
         \/ \E u \in Users : Finalize(h, u) \/ DisconnectTelegram(h, u)
  PROVE  [Table!Next]_(Table!table)
<1>1. TypeOK /\ h \in Tasks /\ op[h].user \in Users
  BY DEF StartInv, TypeOK, Tasks, Operation
<1>2. ASSUME NEW pc \in {"flag", "unflag"}, NEW new \in {"none", "valid"},
             op[h].pc # "connect", StopUser(h), Goto(h, pc),
             session' = [session EXCEPT ![op[h].user] = new]
      PROVE  [Table!Next]_(Table!table)
  <2>1. op[h].user \notin BeingConnected
    BY <1>1, <1>2, LockExcludes DEF StopUser, At
  <2>2. BeingConnected' = BeingConnected
    BY <1>1, <1>2, MoveFacts, ConnectingMoves
  <2>3. Table!Exchange(op[h].user, new)
    BY <1>2, <2>1, <2>2 DEF Table!Exchange, StopUser
  <2>4. QED
    BY <1>1, <2>3 DEF Table!Next
<1>3. CASE FlagConnected(h)
  BY <1>1, <1>3, MoveFacts, ConnectingMoves
  DEF FlagConnected, At, Table!table
<1>4. CASE CancelLogin(h)
  <2>1. UNCHANGED <<session, client>> /\ op'[h].pc # "connect"
        /\ \A s \in Tasks \ {h} : op'[s] = op[s]
    BY <1>1, <1>4, MoveFacts DEF CancelLogin, files
  <2>2. CASE op[h].pc # "connect"
    BY <1>1, <2>1, <2>2, ConnectingMoves DEF Table!table
  <2>3. CASE op[h].pc = "connect"
    <3>1. op[h].user \in BeingConnected
      BY <1>1, <2>3 DEF BeingConnected, ConnectingTasks, At
    <3>2. Table!GiveUp(op[h].user)
      BY <1>1, <2>1, <2>3, <3>1, ConnectingMoves DEF Table!GiveUp
    <3>3. QED
      BY <1>1, <3>2 DEF Table!Next
  <2>4. QED
    BY <2>2, <2>3
<1>5. ASSUME NEW u \in Users, Finalize(h, u) \/ DisconnectTelegram(h, u)
      PROVE  [Table!Next]_(Table!table)
  <2>1. PICK pc \in {"stopForLogin", "stop"} : Begin(h, u, pc)
    BY <1>5 DEF Finalize, DisconnectTelegram
  <2>2. /\ op[h].pc = "idle" /\ op'[h].pc = pc
        /\ \A s \in Tasks \ {h} : op'[s] = op[s]
    BY <1>1, <2>1 DEF Begin, At, TypeOK
  <2>3. QED
    BY <1>1, <2>1, <2>2, ConnectingMoves DEF Begin, files, Table!table
<1>6. QED
  BY <1>2, <1>3, <1>4, <1>5 DEF HandlerStep, PromoteSession, RemoveSession, At

\* The loops of Service, the flag of a user, Telegram and stops.
LEMMA ServiceImplements ==
  ASSUME StartInv,
         \/ Loop \/ Restart \/ \E t \in Tasks : UnflagUser(t)
         \/ \E u \in Users : ConnectionLost(u) \/ SessionRevoked(u)
  PROVE  [Table!Next]_(Table!table)
<1>1. TypeOK /\ Service \in Tasks
  BY DEF StartInv, Tasks
<1>2. op' = op => BeingConnected' = BeingConnected
  BY DEF BeingConnected, ConnectingTasks, At
<1>3. CASE BeginRound \/ StartEnds
  BY <1>2, <1>3 DEF BeginRound, StartEnds, files, Table!table
<1>4. ASSUME NEW u \in Users, Visit(u)
      PROVE  UNCHANGED Table!table
  <2>1. CASE op' = op
    BY <1>2, <1>4, <2>1 DEF Visit, files, Table!table
  <2>2. CASE op' = [op EXCEPT ![Service] = [pc |-> "lock", user |-> u]]
    <3>1. /\ op[Service].pc = "idle" /\ op'[Service].pc = "lock"
          /\ \A s \in Tasks \ {Service} : op'[s] = op[s]
      BY <1>1, <1>4, <2>2 DEF Visit, At, TypeOK
    <3>2. QED
      BY <1>1, <1>4, <3>1, ConnectingMoves DEF Visit, files, Table!table
  <2>3. QED
    BY <1>4, <2>1, <2>2 DEF Visit
<1>5. ASSUME NEW t \in Tasks, UnflagUser(t)
      PROVE  UNCHANGED Table!table
  BY <1>1, <1>5, MoveFacts, ConnectingMoves DEF UnflagUser, At, Table!table
<1>6. ASSUME NEW u \in Users, ConnectionLost(u)
      PROVE  Table!Lose(u)
  BY <1>2, <1>6 DEF ConnectionLost, files, Table!Lose
<1>7. ASSUME NEW u \in Users, SessionRevoked(u)
      PROVE  Table!Revoke(u)
  BY <1>2, <1>7 DEF SessionRevoked, Table!Revoke
<1>8. CASE Restart
  <2>1. BeingConnected' = {}
    BY <1>8 DEF Restart, BeingConnected, ConnectingTasks, At, Idle
  <2>2. Table!StopAll
    BY <1>8, <2>1 DEF Restart, files, Table!StopAll
  <2>3. QED
    BY <2>2 DEF Table!Next
<1>9. QED
  BY <1>3, <1>4, <1>5, <1>6, <1>7, <1>8 DEF Loop, Table!Next

\* The clients implement ClientTable: one attempt a user at a time and none
\* beside a client, and the session file changes hands only while _clients has
\* no client of the user and none is being connected.
THEOREM TableRefinement == Spec => TableSpec
<1>1. Init => Table!Init
  BY DEF Init, Table!Init, BeingConnected, ConnectingTasks, At, Idle
<1>2. StartInv /\ [Next]_vars => [Table!Next]_(Table!table)
  <2> SUFFICES ASSUME StartInv, [Next]_vars
               PROVE  [Table!Next]_(Table!table)
    OBVIOUS
  <2>1. CASE UNCHANGED vars
    BY <2>1 DEF vars, Table!table, BeingConnected, ConnectingTasks, At
  <2>2. CASE Next
    BY <2>2, StartImplements, HandlerImplements, ServiceImplements DEF Next
  <2>3. QED
    BY <2>1, <2>2
<1>3. QED
  BY <1>1, <1>2, StartInvariant, PTL DEF Spec, TableSpec, Table!Safety

=============================================================================
