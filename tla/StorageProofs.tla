--------------------------- MODULE StorageProofs ---------------------------
(* Theorems about Storage, for every value of its constants. *)
EXTENDS Storage, FiniteSetTheorems, TLAPS

-----------------------------------------------------------------------------
(* Type correctness.                                                       *)

\* A handler that moves on, or is over, is still a handler.
LEMMA OperationFacts ==
  /\ Idle \in Operation
  /\ \A o \in Operation, pc \in Connecting \cup Removing \cup Other :
       [o EXCEPT !.pc = pc] \in Operation
BY DEF Operation, Idle, Connecting, Removing, Other

\* What Goto and End do to the type of op and lock.
LEMMA MoveFacts ==
  ASSUME TypeOK, NEW h \in Handlers
  PROVE  /\ \A pc \in Connecting \cup Removing \cup Other :
              Goto(h, pc) => op' \in [Handlers -> Operation]
         /\ End(h) => /\ op' \in [Handlers -> Operation]
                      /\ lock' \in Handlers \cup {Nobody}
<1>1. op \in [Handlers -> Operation] /\ lock \in Handlers \cup {Nobody}
  BY DEF TypeOK
<1>2. \A o \in Operation : [op EXCEPT ![h] = o] \in [Handlers -> Operation]
  BY <1>1
<1>3. ASSUME NEW pc \in Connecting \cup Removing \cup Other, Goto(h, pc)
      PROVE  op' \in [Handlers -> Operation]
  <2>1. op' = [op EXCEPT ![h] = [op[h] EXCEPT !.pc = pc]]
    BY <1>1, <1>3 DEF Goto
  <2>2. [op[h] EXCEPT !.pc = pc] \in Operation
    BY <1>1, OperationFacts
  <2>3. QED
    BY <1>2, <2>1, <2>2
<1>4. End(h) => /\ op' \in [Handlers -> Operation]
                /\ lock' \in Handlers \cup {Nobody}
  BY <1>1, <1>2, OperationFacts DEF End
<1>5. QED
  BY <1>3, <1>4

\* Connecting keeps the types.
LEMMA ConnectingTypes ==
  ASSUME TypeOK, NEW h \in Handlers,
         \/ Enter(h) \/ NextRemoteName(h) \/ CreateGoogleDrive(h)
         \/ VerifyConnection(h) \/ InsertConnection(h) \/ SelectRemote(h)
  PROVE  TypeOK'
<1> USE DEF TypeOK
<1>1. CASE Enter(h)
  BY <1>1, MoveFacts DEF Enter, data, users, Connecting
<1>2. CASE NextRemoteName(h)
  <2>1. ASSUME NEW s \in Slots
        PROVE  [op EXCEPT ![h].pc = "create", ![h].slot = s]
                  \in [Handlers -> Operation]
    BY <2>1 DEF Operation, Connecting
  <2>2. QED
    BY <1>2, <2>1, MoveFacts DEF NextRemoteName, data, users
<1>3. CASE CreateGoogleDrive(h)
  <2>1. [config EXCEPT ![op[h].slot] = op[h].acct] \in Table
    BY DEF Table, Operation
  <2>2. QED
    BY <1>3, <2>1, MoveFacts DEF CreateGoogleDrive, users, Connecting
<1>4. CASE VerifyConnection(h)
  BY <1>4, MoveFacts DEF VerifyConnection, data, users, Connecting, Removing
<1>5. CASE InsertConnection(h)
  <2>1. [rows EXCEPT ![op[h].slot] = op[h].acct] \in Table
    BY DEF Table, Operation
  <2>2. QED
    BY <1>5, <2>1, MoveFacts DEF InsertConnection, users, Connecting, Removing
<1>6. CASE SelectRemote(h)
  BY <1>6, MoveFacts DEF SelectRemote, Operation
<1>7. QED
  BY <1>1, <1>2, <1>3, <1>4, <1>5, <1>6

\* So do removing a remote and the handlers without a lock.
LEMMA OtherTypes ==
  ASSUME TypeOK, NEW h \in Handlers,
         \/ RemoveRemote(h) \/ ListAfterRemoval(h) \/ UnlinkConfig(h)
         \/ DeleteConnection(h) \/ ReadRemaining(h) \/ WriteUser(h)
         \/ WriteChoice(h) \/ ClearFiles(h) \/ ClearRows(h)
  PROVE  TypeOK'
<1> USE DEF TypeOK
<1>1. /\ Removed(h) => /\ op' \in [Handlers -> Operation]
                       /\ lock' \in Handlers \cup {Nobody}
      /\ EmptyTable \in Table
      /\ \A t \in Table : \A s : [t EXCEPT ![s] = NoAccount] \in Table
  BY MoveFacts DEF Removed, Other, EmptyTable, Table
<1>2. CASE RemoveRemote(h)
  BY <1>2, <1>1, MoveFacts DEF RemoveRemote, users, Removing
<1>3. CASE ListAfterRemoval(h)
  BY <1>3, <1>1, MoveFacts DEF ListAfterRemoval, data, users, Removing
<1>4. CASE UnlinkConfig(h)
  BY <1>4, <1>1 DEF UnlinkConfig, users
<1>5. CASE DeleteConnection(h)
  BY <1>5, <1>1, MoveFacts DEF DeleteConnection, users, Other
<1>6. CASE ReadRemaining(h)
  <2>1. [op EXCEPT ![h].pc = "write", ![h].left = Named(rows)]
          \in [Handlers -> Operation]
    BY DEF Operation, Other, Named
  <2>2. QED
    BY <1>6, <2>1 DEF ReadRemaining, data, users
<1>7. CASE WriteUser(h)
  <2>1. selected' \in {0} \cup Slots
    BY <1>7 DEF WriteUser, Operation
  <2>2. QED
    BY <1>7, <2>1, MoveFacts DEF WriteUser
<1>8. CASE WriteChoice(h)
  BY <1>8, MoveFacts DEF WriteChoice, Operation
<1>9. CASE ClearFiles(h)
  BY <1>9, <1>1, MoveFacts DEF ClearFiles, users, Other
<1>10. CASE ClearRows(h)
  <2>1. 0 \in 0 .. MaxGrants
    BY StorageAssumption
  <2>2. QED
    BY <1>10, <1>1, <2>1, MoveFacts DEF ClearRows
<1>11. QED
  BY <1>2, <1>3, <1>4, <1>5, <1>6, <1>7, <1>8, <1>9, <1>10

\* Requests, grants and stops.
LEMMA RequestTypes ==
  ASSUME TypeOK
  PROVE  /\ AuthorizationUrl \/ GrantIsLost \/ Restart => TypeOK'
         /\ \A h \in Handlers : Request(h) => TypeOK'
<1> USE DEF TypeOK
<1>1. CASE AuthorizationUrl \/ GrantIsLost
  BY <1>1, StorageAssumption DEF AuthorizationUrl, GrantIsLost, users
<1>2. CASE Restart
  <2>1. stops' \in 0 .. MaxStops
    BY <1>2, StorageAssumption DEF Restart
  <2>2. undisturbed' \in BOOLEAN /\ storage' \in BOOLEAN
    BY <1>2 DEF Restart, AtRest
  <2>3. op' \in [Handlers -> Operation] /\ lock' \in Handlers \cup {Nobody}
    BY <1>2, OperationFacts DEF Restart
  <2>4. QED
    BY <1>2, <2>1, <2>2, <2>3 DEF Restart
<1>3. ASSUME NEW h \in Handlers, NEW o \in Operation, Begin(h, o)
      PROVE  /\ op' \in [Handlers -> Operation] /\ undisturbed' \in BOOLEAN
             /\ lock' = lock /\ stops' = stops
  BY <1>3 DEF Begin, AtRest
<1>4. ASSUME NEW h \in Handlers, Request(h)
      PROVE  TypeOK'
  <2>1. ASSUME NEW a \in Accounts, Claim(h, a)
        PROVE  TypeOK'
    <3>1. [Idle EXCEPT !.pc = "lock", !.acct = a] \in Operation
      BY DEF Idle, Operation, Other
    <3>2. QED
      BY <1>3, <2>1, <3>1, StorageAssumption DEF Claim, users
  <2>2. ASSUME NEW s \in Slots, Disconnect(h, s)
        PROVE  TypeOK'
    <3>1. [Idle EXCEPT !.pc = "remove", !.slot = s, !.seen = selected]
             \in Operation
      BY DEF Idle, Operation, Removing
    <3>2. QED
      BY <1>3, <2>2, <3>1 DEF Disconnect, data, users
  <2>3. ASSUME NEW s \in Slots, ChooseRemote(h, s)
        PROVE  TypeOK'
    <3>1. [Idle EXCEPT !.pc = "choose", !.slot = s] \in Operation
      BY DEF Idle, Operation, Other
    <3>2. QED
      BY <1>3, <2>3, <3>1 DEF ChooseRemote, data, users
  <2>4. CASE ClearUser(h)
    <3>1. [Idle EXCEPT !.pc = "clearFiles"] \in Operation
      BY DEF Idle, Operation, Other
    <3>2. QED
      BY <1>3, <2>4, <3>1 DEF ClearUser, data, users
  <2>5. QED
    BY <1>4, <2>1, <2>2, <2>3, <2>4 DEF Request
<1>5. QED
  BY <1>1, <1>2, <1>4

\* The types hold at first and are kept by every step.
LEMMA TypeInit == Init => TypeOK
<1> SUFFICES ASSUME Init PROVE TypeOK
  OBVIOUS
<1>1. 0 \in 0 .. MaxGrants /\ 0 \in 0 .. MaxStops
  BY StorageAssumption
<1>2. EmptyTable \in Table
  BY DEF EmptyTable, Table
<1>3. op \in [Handlers -> Operation]
  BY OperationFacts DEF Init
<1>4. QED
  BY <1>1, <1>2, <1>3 DEF Init, TypeOK

LEMMA TypeStep ==
  ASSUME TypeOK, [Next]_vars
  PROVE  TypeOK'
<1>1. CASE UNCHANGED vars
  BY <1>1 DEF vars, TypeOK
<1>2. CASE Next
  BY <1>2, ConnectingTypes, OtherTypes, RequestTypes DEF Next, Step
<1>3. QED
  BY <1>1, <1>2

\* Every reachable state is well typed.
THEOREM TypeCorrect == Spec => []TypeOK
  BY TypeInit, TypeStep, PTL DEF Spec

-----------------------------------------------------------------------------
(* The lock.  A step moves one handler at most, and only Enter makes one   *)
(* that does not hold the lock connect.                                    *)

\* What Goto and End do to the handlers' places.
LEMMA PlaceFacts ==
  ASSUME TypeOK, NEW h \in Handlers
  PROVE  /\ \A pc : Goto(h, pc) =>
              /\ op'[h].pc = pc
              /\ \A g \in Handlers \ {h} : op'[g] = op[g]
         /\ End(h) =>
              /\ op'[h].pc = "idle"
              /\ \A g \in Handlers \ {h} : op'[g] = op[g]
BY DEF TypeOK, Goto, End, Idle, Operation

\* A step of a handler leaves the discipline of the lock as it is.
LEMMA LockStep ==
  ASSUME TypeOK, ConnectingHoldsLock, [Next]_vars
  PROVE  ConnectingHoldsLock'
<1> DEFINE Locked == Connecting \cup Removing
<1>0. Nobody \notin Handlers
  BY StorageAssumption
<1>1. ASSUME NEW h \in Handlers, lock' = lock,
             \A g \in Handlers \ {h} : op'[g] = op[g],
             op'[h].pc \in Connecting => lock = h,
             lock = h => op'[h].pc \in Locked
      PROVE  ConnectingHoldsLock'
  BY <1>0, <1>1 DEF ConnectingHoldsLock, TypeOK
<1>2. ASSUME NEW h \in Handlers, End(h)
      PROVE  ConnectingHoldsLock'
  <2>1. op'[h].pc = "idle" /\ \A g \in Handlers \ {h} : op'[g] = op[g]
    BY <1>2, PlaceFacts
  <2>2. "idle" \notin Connecting
    BY DEF Connecting
  <2>3. CASE lock = h
    BY <1>0, <1>2, <2>1, <2>2, <2>3 DEF End, ConnectingHoldsLock, TypeOK
  <2>4. CASE lock # h
    BY <1>0, <1>2, <2>1, <2>2, <2>4 DEF End, ConnectingHoldsLock, TypeOK
  <2>5. QED
    BY <2>3, <2>4
<1>3. ASSUME NEW h \in Handlers, NEW pc, Goto(h, pc), lock' = lock,
             \/ pc \in Locked /\ op[h].pc \in Connecting
             \/ pc \in Removing
             \/ pc \notin Connecting /\ lock # h
      PROVE  ConnectingHoldsLock'
  <2>1. op'[h].pc = pc /\ \A g \in Handlers \ {h} : op'[g] = op[g]
    BY <1>3, PlaceFacts
  <2>2. op[h].pc \in Connecting => lock = h
    BY DEF ConnectingHoldsLock
  <2>3. Removing \cap Connecting = {}
    BY DEF Removing, Connecting
  <2>4. QED
    BY <1>1, <1>3, <2>1, <2>2, <2>3
<1>4. ASSUME NEW h \in Handlers, NEW o \in Operation, Begin(h, o),
             o.pc \notin Connecting
      PROVE  ConnectingHoldsLock'
  <2>1. /\ op'[h] = o /\ lock' = lock /\ op[h].pc = "idle"
        /\ \A g \in Handlers \ {h} : op'[g] = op[g]
    BY <1>4 DEF Begin, At, TypeOK
  <2>2. lock # h
    BY <1>0, <2>1 DEF ConnectingHoldsLock, Connecting, Removing
  <2>3. QED
    BY <1>1, <1>4, <2>1, <2>2
<1>5. ASSUME NEW h \in Handlers, Enter(h)
      PROVE  ConnectingHoldsLock'
  <2>1. CASE End(h)
    BY <1>2, <2>1
  <2>2. CASE lock' = h /\ Goto(h, "name")
    <3>1. op'[h].pc = "name" /\ \A g \in Handlers \ {h} : op'[g] = op[g]
      BY <2>2, PlaceFacts
    <3>2. lock = Nobody
      BY <1>5 DEF Enter
    <3>3. QED
      BY <1>0, <2>2, <3>1, <3>2 DEF ConnectingHoldsLock, Connecting
  <2>3. QED
    BY <1>5, <2>1, <2>2 DEF Enter
<1>6. ASSUME NEW h \in Handlers, NextRemoteName(h)
      PROVE  ConnectingHoldsLock'
  <2>1. CASE End(h)
    BY <1>2, <2>1
  <2>2. ASSUME NEW s \in Slots, lock' = lock,
               op' = [op EXCEPT ![h].pc = "create", ![h].slot = s]
        PROVE  ConnectingHoldsLock'
    <3>1. op'[h].pc = "create" /\ \A g \in Handlers \ {h} : op'[g] = op[g]
      BY <2>2 DEF TypeOK, Operation
    <3>2. lock = h
      BY <1>6 DEF NextRemoteName, At, ConnectingHoldsLock, Connecting
    <3>3. QED
      BY <1>1, <2>2, <3>1, <3>2 DEF Connecting
  <2>3. QED
    BY <1>6, <2>1, <2>2 DEF NextRemoteName
<1>7. ASSUME NEW h \in Handlers,
             \/ CreateGoogleDrive(h) \/ VerifyConnection(h)
             \/ InsertConnection(h) \/ SelectRemote(h)
      PROVE  ConnectingHoldsLock'
  <2>1. op[h].pc \in Connecting
    BY <1>7 DEF CreateGoogleDrive, VerifyConnection, InsertConnection,
                SelectRemote, At, Connecting
  <2>2. \/ End(h)
        \/ /\ lock' = lock
           /\ \E pc \in {"verify", "insert", "select", "remove"} : Goto(h, pc)
    BY <1>7 DEF CreateGoogleDrive, VerifyConnection, InsertConnection,
                SelectRemote
  <2>3. {"verify", "insert", "select", "remove"} \subseteq Locked
    BY DEF Connecting, Removing
  <2>4. QED
    BY <1>2, <1>3, <2>1, <2>2, <2>3
<1>8. ASSUME NEW h \in Handlers, Removed(h)
      PROVE  ConnectingHoldsLock'
  BY <1>2, <1>3, <1>8 DEF Removed, Connecting
<1>9. ASSUME NEW h \in Handlers,
             RemoveRemote(h) \/ ListAfterRemoval(h) \/ UnlinkConfig(h)
      PROVE  ConnectingHoldsLock'
  <2>1. \/ Removed(h) \/ End(h)
        \/ lock' = lock /\ (Goto(h, "list") \/ Goto(h, "unlink"))
    BY <1>9 DEF RemoveRemote, ListAfterRemoval, UnlinkConfig
  <2>2. QED
    BY <1>2, <1>3, <1>8, <2>1 DEF Removing
<1>10. ASSUME NEW h \in Handlers,
              \/ DeleteConnection(h) \/ ReadRemaining(h) \/ WriteUser(h)
              \/ WriteChoice(h) \/ ClearFiles(h) \/ ClearRows(h)
       PROVE  ConnectingHoldsLock'
  <2>1. lock # h
    BY <1>0, <1>10 DEF DeleteConnection, ReadRemaining, WriteUser, WriteChoice,
            ClearFiles, ClearRows, At, ConnectingHoldsLock, Connecting, Removing
  <2>2. CASE End(h)
    BY <1>2, <2>2
  <2>3. CASE ReadRemaining(h)
    <3>1. op'[h].pc = "write" /\ \A g \in Handlers \ {h} : op'[g] = op[g]
      BY <2>3 DEF ReadRemaining, TypeOK, Operation
    <3>2. QED
      BY <1>1, <2>1, <2>3, <3>1 DEF ReadRemaining, Connecting
  <2>4. CASE DeleteConnection(h) \/ ClearFiles(h)
    BY <1>3, <2>1, <2>4 DEF DeleteConnection, ClearFiles, Connecting
  <2>5. QED
    BY <1>10, <2>2, <2>3, <2>4 DEF WriteUser, WriteChoice, ClearRows
<1>11. ASSUME NEW h \in Handlers, Request(h)
       PROVE  ConnectingHoldsLock'
  <2>1. /\ \A a \in Accounts : [Idle EXCEPT !.pc = "lock", !.acct = a]
                                  \in Operation
        /\ \A s \in Slots :
             /\ [Idle EXCEPT !.pc = "remove", !.slot = s, !.seen = selected]
                  \in Operation
             /\ [Idle EXCEPT !.pc = "choose", !.slot = s] \in Operation
        /\ [Idle EXCEPT !.pc = "clearFiles"] \in Operation
    BY DEF Idle, Operation, Removing, Other, TypeOK
  <2>2. QED
    BY <1>4, <1>11, <2>1
    DEF Request, Claim, Disconnect, ChooseRemote, ClearUser, Idle, Connecting
<1>12. CASE Restart
  BY <1>12 DEF Restart, ConnectingHoldsLock, Connecting, Idle
<1>13. CASE UNCHANGED <<op, lock>>
  BY <1>13 DEF ConnectingHoldsLock
<1>14. QED
  BY <1>5, <1>6, <1>7, <1>9, <1>10, <1>11, <1>12, <1>13
  DEF Next, Step, vars, AuthorizationUrl, GrantIsLost

-----------------------------------------------------------------------------
(* The limit of connections.                                               *)

\* The names of a table are counted by a natural number.
LEMMA NamedFacts ==
  /\ \A t : IsFiniteSet(Named(t)) /\ Cardinality(Named(t)) \in Nat
  /\ \A S, T : IsFiniteSet(T) /\ S \subseteq T =>
       IsFiniteSet(S) /\ Cardinality(S) <= Cardinality(T)
<1>1. IsFiniteSet(Slots)
  BY FS_Interval, StorageAssumption DEF Slots
<1>2. \A t : Named(t) \subseteq Slots
  BY DEF Named
<1>3. \A t : IsFiniteSet(Named(t))
  BY <1>1, <1>2, FS_Subset
<1>4. \A t : Cardinality(Named(t)) \in Nat
  BY <1>3, FS_CardinalityType
<1>5. QED
  BY <1>3, <1>4, FS_Subset

\* A step that adds no row and starts no connection on top keeps the limit.
LEMMA NoRowAdded ==
  ASSUME LimitInv, Named(rows') \subseteq Named(rows),
         \A g \in Handlers :
           op'[g].pc \in Connecting \ {"select"} =>
             \/ op[g].pc \in Connecting \ {"select"}
             \/ Cardinality(Named(rows)) < Limit
  PROVE  ConnectingHasRoom' /\ ConnectionLimit'
<1>1. /\ Cardinality(Named(rows')) <= Cardinality(Named(rows))
      /\ Cardinality(Named(rows')) \in Nat /\ Cardinality(Named(rows)) \in Nat
  BY NamedFacts
<1>2. ConnectionLimit'
  BY <1>1, StorageAssumption DEF LimitInv, ConnectionLimit
<1>3. ASSUME NEW g \in Handlers, op'[g].pc \in Connecting \ {"select"}
      PROVE  Cardinality(Named(rows')) < Limit
  <2>1. Cardinality(Named(rows)) < Limit
    BY <1>3 DEF LimitInv, ConnectingHasRoom
  <2>2. QED
    BY <1>1, <2>1, StorageAssumption
<1>4. QED
  BY <1>2, <1>3 DEF ConnectingHasRoom

\* The insertion adds one row, and its handler was the only one to connect.
LEMMA InsertKeepsLimit ==
  ASSUME LimitInv, NEW h \in Handlers, InsertConnection(h)
  PROVE  ConnectingHasRoom' /\ ConnectionLimit'
<1>1. TypeOK /\ op[h].pc = "insert" /\ lock = h
  BY DEF LimitInv, InsertConnection, At, ConnectingHoldsLock, Connecting
<1>2. CASE Goto(h, "remove") /\ UNCHANGED rows
  <2>1. op'[h].pc = "remove" /\ \A g \in Handlers \ {h} : op'[g] = op[g]
    BY <1>1, <1>2, PlaceFacts
  <2>2. QED
    BY <1>2, <2>1, NoRowAdded DEF Connecting
<1>3. CASE /\ rows' = [rows EXCEPT ![op[h].slot] = op[h].acct]
           /\ Goto(h, "select")
  <2>1. op'[h].pc = "select" /\ \A g \in Handlers \ {h} : op'[g] = op[g]
    BY <1>1, <1>3, PlaceFacts
  <2>2. \A g \in Handlers : op'[g].pc \notin Connecting \ {"select"}
    BY <1>1, <2>1 DEF LimitInv, ConnectingHoldsLock
  <2>3. Named(rows') \subseteq Named(rows) \cup {op[h].slot}
    BY <1>1, <1>3 DEF Named, TypeOK, Table
  <2>4. Cardinality(Named(rows)) < Limit
    BY <1>1 DEF LimitInv, ConnectingHasRoom, Connecting
  <2>5. /\ IsFiniteSet(Named(rows) \cup {op[h].slot})
        /\ Cardinality(Named(rows) \cup {op[h].slot})
              <= Cardinality(Named(rows)) + 1
    BY NamedFacts, FS_AddElement
  <2>6. /\ Cardinality(Named(rows'))
              <= Cardinality(Named(rows) \cup {op[h].slot})
        /\ Cardinality(Named(rows')) \in Nat /\ Cardinality(Named(rows)) \in Nat
        /\ Cardinality(Named(rows) \cup {op[h].slot}) \in Nat
    BY <2>3, <2>5, NamedFacts, FS_CardinalityType
  <2>7. ConnectionLimit'
    BY <2>4, <2>5, <2>6, StorageAssumption DEF ConnectionLimit
  <2>8. QED
    BY <2>2, <2>7 DEF ConnectingHasRoom
<1>4. QED
  BY <1>2, <1>3 DEF InsertConnection

\* Every other step adds no row, and only Enter, which counts them, begins.
LEMMA LimitStep ==
  ASSUME LimitInv, [Next]_vars
  PROVE  LimitInv'
<1> DEFINE Room == Connecting \ {"select"}
<1>0. TypeOK /\ TypeOK' /\ ConnectingHoldsLock'
  BY TypeStep, LockStep DEF LimitInv
<1>1. ASSUME NEW h \in Handlers, Named(rows') \subseteq Named(rows),
             \A g \in Handlers \ {h} : op'[g] = op[g],
             \/ op'[h].pc \notin Room
             \/ op[h].pc \in Room
             \/ Cardinality(Named(rows)) < Limit
      PROVE  LimitInv'
  BY <1>0, <1>1, NoRowAdded DEF LimitInv
<1>2. ASSUME NEW h \in Handlers, Enter(h)
      PROVE  LimitInv'
  <2>1. rows' = rows
    BY <1>2 DEF Enter, data
  <2>2. /\ \A g \in Handlers \ {h} : op'[g] = op[g]
        /\ op'[h].pc = "idle" \/ Cardinality(Named(rows)) < Limit
    BY <1>0, <1>2, PlaceFacts DEF Enter, MayConnect
  <2>3. QED
    BY <1>1, <2>1, <2>2 DEF Connecting
<1>3. ASSUME NEW h \in Handlers, NextRemoteName(h)
      PROVE  LimitInv'
  <2>1. rows' = rows /\ op[h].pc \in Room
    BY <1>3 DEF NextRemoteName, data, At, Connecting
  <2>2. \A g \in Handlers \ {h} : op'[g] = op[g]
    BY <1>0, <1>3, PlaceFacts DEF NextRemoteName, TypeOK
  <2>3. QED
    BY <1>1, <2>1, <2>2
<1>4. ASSUME NEW h \in Handlers,
             \/ CreateGoogleDrive(h) \/ VerifyConnection(h) \/ SelectRemote(h)
             \/ RemoveRemote(h) \/ ListAfterRemoval(h) \/ UnlinkConfig(h)
      PROVE  LimitInv'
  <2>1. rows' = rows
    BY <1>4 DEF CreateGoogleDrive, VerifyConnection, SelectRemote,
                RemoveRemote, ListAfterRemoval, UnlinkConfig, data
  <2>2. \/ End(h)
        \/ \E pc \in Removing \cup Other : Goto(h, pc)
        \/ op[h].pc \in Room /\ \E pc : Goto(h, pc)
    BY <1>4 DEF CreateGoogleDrive, VerifyConnection, SelectRemote,
                RemoveRemote, ListAfterRemoval, UnlinkConfig, Removed, At,
                Connecting, Removing, Other
  <2>3. /\ \A g \in Handlers \ {h} : op'[g] = op[g]
        /\ \/ op'[h].pc \in {"idle"} \cup Removing \cup Other
           \/ op[h].pc \in Room
    BY <1>0, <2>2, PlaceFacts
  <2>4. QED
    BY <1>1, <2>1, <2>3 DEF Connecting, Removing, Other
<1>5. ASSUME NEW h \in Handlers,
             \/ DeleteConnection(h) \/ ReadRemaining(h) \/ WriteUser(h)
             \/ WriteChoice(h) \/ ClearFiles(h) \/ ClearRows(h)
      PROVE  LimitInv'
  <2>1. Named(rows') \subseteq Named(rows)
    BY <1>0, <1>5 DEF DeleteConnection, ReadRemaining, WriteUser, WriteChoice,
               ClearFiles, ClearRows, data, Named, EmptyTable, TypeOK, Table
  <2>2. CASE ReadRemaining(h)
    <3>1. op'[h].pc = "write" /\ \A g \in Handlers \ {h} : op'[g] = op[g]
      BY <1>0, <2>2 DEF ReadRemaining, TypeOK, Operation
    <3>2. QED
      BY <1>1, <2>1, <3>1 DEF Connecting
  <2>3. CASE ~ReadRemaining(h)
    <3>1. End(h) \/ Goto(h, "readRemaining") \/ Goto(h, "clearRows")
      BY <1>5, <2>3 DEF DeleteConnection, WriteUser, WriteChoice, ClearFiles,
                        ClearRows
    <3>2. /\ \A g \in Handlers \ {h} : op'[g] = op[g]
          /\ op'[h].pc \in {"idle", "readRemaining", "clearRows"}
      BY <1>0, <3>1, PlaceFacts
    <3>3. QED
      BY <1>1, <2>1, <3>2 DEF Connecting
  <2>4. QED
    BY <2>2, <2>3
<1>6. ASSUME NEW h \in Handlers, Request(h)
      PROVE  LimitInv'
  <2>1. rows' = rows
    BY <1>6 DEF Request, Claim, Disconnect, ChooseRemote, ClearUser, data
  <2>2. ASSUME NEW o, Begin(h, o)
        PROVE  op'[h] = o /\ \A g \in Handlers \ {h} : op'[g] = op[g]
    BY <1>0, <2>2 DEF Begin, TypeOK
  <2>3. ASSUME NEW a, Begin(h, [Idle EXCEPT !.pc = "lock", !.acct = a])
        PROVE  LimitInv'
    <3>1. [Idle EXCEPT !.pc = "lock", !.acct = a].pc = "lock"
      BY DEF Idle
    <3>2. op'[h].pc = "lock" /\ \A g \in Handlers \ {h} : op'[g] = op[g]
      BY <2>2, <2>3, <3>1
    <3>3. QED
      BY <1>1, <2>1, <3>2 DEF Connecting
  <2>4. ASSUME NEW s, NEW t,
               Begin(h, [Idle EXCEPT !.pc = "remove", !.slot = s, !.seen = t])
        PROVE  LimitInv'
    <3>1. [Idle EXCEPT !.pc = "remove", !.slot = s, !.seen = t].pc = "remove"
      BY DEF Idle
    <3>2. op'[h].pc = "remove" /\ \A g \in Handlers \ {h} : op'[g] = op[g]
      BY <2>2, <2>4, <3>1
    <3>3. QED
      BY <1>1, <2>1, <3>2 DEF Connecting
  <2>5. ASSUME NEW s, Begin(h, [Idle EXCEPT !.pc = "choose", !.slot = s])
        PROVE  LimitInv'
    <3>1. [Idle EXCEPT !.pc = "choose", !.slot = s].pc = "choose"
      BY DEF Idle
    <3>2. op'[h].pc = "choose" /\ \A g \in Handlers \ {h} : op'[g] = op[g]
      BY <2>2, <2>5, <3>1
    <3>3. QED
      BY <1>1, <2>1, <3>2 DEF Connecting
  <2>6. ASSUME Begin(h, [Idle EXCEPT !.pc = "clearFiles"])
        PROVE  LimitInv'
    BY <1>1, <2>1, <2>2, <2>6 DEF Idle, Connecting
  <2>7. QED
    BY <1>6, <2>3, <2>4, <2>5, <2>6
    DEF Request, Claim, Disconnect, ChooseRemote, ClearUser
<1>7. CASE Restart
  <2>1. rows' = rows /\ \A g \in Handlers : op'[g].pc \notin Room
    BY <1>7 DEF Restart, Idle, Connecting
  <2>2. QED
    BY <1>0, <2>1, NoRowAdded DEF LimitInv
<1>8. CASE UNCHANGED <<rows, op>>
  BY <1>0, <1>8, NoRowAdded DEF LimitInv
<1>9. ASSUME NEW h \in Handlers, InsertConnection(h)
      PROVE  LimitInv'
  BY <1>0, <1>9, InsertKeepsLimit DEF LimitInv
<1>10. QED
  BY <1>2, <1>3, <1>4, <1>5, <1>6, <1>7, <1>8, <1>9
  DEF Next, Step, vars, AuthorizationUrl, GrantIsLost

\* At first there is no row.
LEMMA LimitInit == Init => LimitInv
<1> SUFFICES ASSUME Init PROVE LimitInv
  OBVIOUS
<1>1. Named(rows) = {}
  BY DEF Init, EmptyTable, Named
<1>2. Cardinality(Named(rows)) = 0
  BY <1>1, FS_EmptySet
<1>3. \A h \in Handlers : op[h].pc \notin Connecting
  BY DEF Init, Idle, Connecting
<1>4. lock = Nobody
  BY DEF Init
<1>5. QED
  BY <1>2, <1>3, <1>4, TypeInit, StorageAssumption
  DEF LimitInv, ConnectingHoldsLock, ConnectingHasRoom, ConnectionLimit

\* Whatever overlaps, only the holder of the lock adds a row, to rows that it
\* has counted: there are never more than multy_rclone_count connections.
THEOREM ConnectionsAreLimited == Spec => []ConnectionLimit
<1>1. LimitInv => ConnectionLimit
  BY DEF LimitInv
<1>2. QED
  BY <1>1, LimitInit, LimitStep, PTL DEF Spec

-----------------------------------------------------------------------------
(* Agreement when handlers run one by one.                                 *)

\* What Goto changes, and what it does not.
LEMMA GotoFacts ==
  ASSUME TypeOK, NEW h \in Handlers, NEW pc, Goto(h, pc)
  PROVE  /\ op'[h].pc = pc /\ op'[h].slot = op[h].slot
         /\ op'[h].acct = op[h].acct /\ op'[h].seen = op[h].seen
         /\ op'[h].left = op[h].left
         /\ \A g \in Handlers \ {h} : op'[g] = op[g]
BY DEF TypeOK, Goto, Operation

\* A handler at work is alone, and nothing is known of the others but that.
LEMMA AloneFacts ==
  ASSUME AgreeInv, undisturbed, NEW h \in Handlers, op[h].pc # "idle"
  PROVE  /\ TypeOK /\ Alone(op[h], lock = h)
         /\ op[h].pc \in Connecting => lock = h
         /\ \A g \in Handlers \ {h} : op[g].pc = "idle"
BY DEF AgreeInv, OneAtATime, At, ConnectingHoldsLock

\* The handler goes on.
LEMMA GoesOn ==
  ASSUME NEW h \in Handlers, op'[h].pc # "idle",
         \A g \in Handlers \ {h} : op'[g].pc = "idle",
         Alone(op[h], lock = h)'
  PROVE  OneAtATime'
BY DEF OneAtATime, AtRest, At

\* The handler is over.
LEMMA Settles ==
  ASSUME \A g \in Handlers : op'[g].pc = "idle", Agree'
  PROVE  OneAtATime'
BY DEF OneAtATime, AtRest, At

\* The same for a handler that ends in a step.
LEMMA EndSettles ==
  ASSUME TypeOK, NEW h \in Handlers, End(h), Agree',
         \A g \in Handlers \ {h} : op[g].pc = "idle"
  PROVE  OneAtATime'
BY PlaceFacts, Settles

\* Connecting up to the creation of the remote.
LEMMA EnterAgrees ==
  ASSUME AgreeInv, undisturbed, NEW h \in Handlers,
         Enter(h) \/ NextRemoteName(h)
  PROVE  OneAtATime'
<1>1. /\ TypeOK /\ Alone(op[h], lock = h)
      /\ \A g \in Handlers \ {h} : op[g].pc = "idle"
  BY AloneFacts DEF Enter, NextRemoteName, At
<1>2. UNCHANGED data /\ Agree
  BY <1>1 DEF Enter, NextRemoteName, At, Alone
<1>3. Agree'
  BY <1>2 DEF data, users, Agree
<1>4. CASE End(h)
  BY <1>1, <1>3, <1>4, EndSettles
<1>5. CASE Enter(h) /\ ~End(h)
  <2>1. Goto(h, "name") /\ \A s \in Slots : rows[s] # op[h].acct
    BY <1>5 DEF Enter
  <2>2. op[h].acct \in Accounts
    BY <1>1, <1>5 DEF Enter, At, Alone
  <2>3. Alone(op[h], lock = h)'
    BY <1>1, <1>2, <1>3, <2>1, <2>2, GotoFacts DEF Alone, data
  <2>4. QED
    BY <1>1, <2>1, <2>3, GotoFacts, GoesOn
<1>6. ASSUME NextRemoteName(h), NEW s \in Slots,
             op' = [op EXCEPT ![h].pc = "create", ![h].slot = s]
      PROVE  OneAtATime'
  <2>1. /\ op'[h].pc = "create" /\ op'[h].slot = s /\ op'[h].acct = op[h].acct
        /\ \A g \in Handlers \ {h} : op'[g] = op[g]
    BY <1>1, <1>6 DEF TypeOK, Operation
  <2>2. op[h].acct \in Accounts /\ \A t \in Slots : rows[t] # op[h].acct
    BY <1>1, <1>6 DEF NextRemoteName, At, Alone
  <2>3. Alone(op[h], lock = h)'
    BY <1>2, <1>3, <2>1, <2>2 DEF Alone, Adding, data
  <2>4. QED
    BY <1>1, <2>1, <2>3, GoesOn
<1>7. QED
  BY <1>4, <1>5, <1>6 DEF NextRemoteName

\* The remote, its check and its row.
LEMMA CreateAgrees ==
  ASSUME AgreeInv, undisturbed, undisturbed', NEW h \in Handlers,
         CreateGoogleDrive(h)
  PROVE  OneAtATime'
<1>1. /\ TypeOK /\ Agree /\ Adding(op[h])
      /\ \A g \in Handlers \ {h} : op[g].pc = "idle"
  BY AloneFacts DEF CreateGoogleDrive, At, Alone
<1>2. CASE End(h) /\ UNCHANGED config
  <2>1. Agree'
    BY <1>1, <1>2 DEF CreateGoogleDrive, Agree, users
  <2>2. QED
    BY <1>1, <1>2, <2>1, EndSettles
<1>3. CASE /\ config[op[h].slot] = NoAccount
           /\ config' = [config EXCEPT ![op[h].slot] = op[h].acct]
           /\ Goto(h, "verify")
  <2>1. rows' = rows /\ UserAgrees' /\ rows[op[h].slot] = NoAccount
    BY <1>1, <1>3 DEF CreateGoogleDrive, users, Agree, UserAgrees
  <2>2. Added(op[h])'
    BY <1>1, <1>3, <2>1, GotoFacts DEF Adding, Added, Agree
  <2>3. op'[h].pc = "verify"
    BY <1>1, <1>3, GotoFacts
  <2>4. Alone(op[h], lock = h)'
    BY <2>2, <2>3 DEF Alone
  <2>5. QED
    BY <1>1, <1>3, <2>3, <2>4, GotoFacts, GoesOn
<1>4. QED
  BY <1>2, <1>3 DEF CreateGoogleDrive

\* The check leaves the remote where it is.
LEMMA VerifyAgrees ==
  ASSUME AgreeInv, undisturbed, NEW h \in Handlers, VerifyConnection(h)
  PROVE  OneAtATime'
<1>1. /\ TypeOK /\ Added(op[h]) /\ lock = h
      /\ \A g \in Handlers \ {h} : op[g].pc = "idle"
  BY AloneFacts DEF VerifyConnection, At, Alone, Connecting
<1>2. PICK pc \in {"insert", "remove"} : Goto(h, pc)
  BY DEF VerifyConnection
<1>3. /\ op'[h].pc = pc /\ op'[h].slot = op[h].slot /\ op'[h].acct = op[h].acct
      /\ lock' = h /\ \A g \in Handlers \ {h} : op'[g] = op[g]
  BY <1>1, <1>2, GotoFacts DEF VerifyConnection
<1>4. Added(op[h])'
  BY <1>1, <1>3 DEF VerifyConnection, data, users, Added, Adding, UserAgrees
<1>5. Alone(op[h], lock = h)'
  BY <1>2, <1>3, <1>4 DEF Alone
<1>6. QED
  BY <1>1, <1>2, <1>3, <1>5, GoesOn

\* The insertion succeeds and makes the rows those of the file.
LEMMA InsertAgrees ==
  ASSUME AgreeInv, undisturbed, NEW h \in Handlers, InsertConnection(h)
  PROVE  OneAtATime'
<1>1. /\ TypeOK /\ Added(op[h])
      /\ \A g \in Handlers \ {h} : op[g].pc = "idle"
  BY AloneFacts DEF InsertConnection, At, Alone
<1>2. rows' = [rows EXCEPT ![op[h].slot] = op[h].acct] /\ Goto(h, "select")
  BY <1>1 DEF InsertConnection, Added, Adding
<1>3. op'[h].pc = "select" /\ op'[h].slot = op[h].slot
  BY <1>1, <1>2, GotoFacts
<1>4. config' = rows'
  BY <1>1, <1>2 DEF InsertConnection, Added
<1>5. op[h].slot \in Named(rows)'
  BY <1>1, <1>2, StorageAssumption DEF Added, Adding, Named, TypeOK, Table
<1>6. Alone(op[h], lock = h)'
  BY <1>3, <1>4, <1>5 DEF Alone
<1>7. QED
  BY <1>1, <1>2, <1>3, <1>6, GotoFacts, GoesOn

\* The new connection is selected.
LEMMA SelectAgrees ==
  ASSUME AgreeInv, undisturbed, NEW h \in Handlers, SelectRemote(h)
  PROVE  OneAtATime'
<1>1. /\ TypeOK /\ config = rows /\ op[h].slot \in Named(rows)
      /\ \A g \in Handlers \ {h} : op[g].pc = "idle"
  BY AloneFacts DEF SelectRemote, At, Alone
<1>2. Agree'
  BY <1>1 DEF SelectRemote, Agree
<1>3. QED
  BY <1>1, <1>2, EndSettles DEF SelectRemote

\* A remote that did not verify goes and leaves the file as it was; one that
\* is disconnected leaves its row, for the steps that follow.
LEMMA RemoveAgrees ==
  ASSUME AgreeInv, undisturbed, undisturbed', NEW h \in Handlers,
         RemoveRemote(h)
  PROVE  OneAtATime'
<1>1. /\ TypeOK /\ \A g \in Handlers \ {h} : op[g].pc = "idle"
      /\ lock = h => Added(op[h])
      /\ lock # h => Agree /\ Leaving(op[h])
  BY AloneFacts DEF RemoveRemote, At, Alone
<1>2. rows' = rows /\ UserAgrees' = UserAgrees
  BY DEF RemoveRemote, users, UserAgrees
<1>3. config[op[h].slot] # NoAccount
  BY <1>1, StorageAssumption
  DEF Added, Adding, Leaving, Agree, TypeOK, Table
<1>4. CASE End(h) /\ UNCHANGED config /\ lock # h
  <2>1. Agree'
    BY <1>1, <1>4 DEF RemoveRemote, Agree, users
  <2>2. QED
    BY <1>1, <1>4, <2>1, EndSettles
<1>5. CASE /\ config' = [config EXCEPT ![op[h].slot] = NoAccount]
           /\ Goto(h, "list") /\ lock' = lock
  <2>1. /\ op'[h].pc = "list" /\ op'[h].slot = op[h].slot
        /\ op'[h].seen = op[h].seen /\ \A g \in Handlers \ {h} : op'[g] = op[g]
    BY <1>1, <1>5, GotoFacts
  <2>2. CASE lock = h
    <3>1. config' = rows
      BY <1>1, <1>5, <2>2 DEF Added, Adding, TypeOK, Table
    <3>2. Agree'
      BY <1>1, <1>2, <2>2, <3>1 DEF Agree, Added, UserAgrees
    <3>3. Alone(op[h], lock = h)'
      BY <1>5, <2>1, <2>2, <3>2 DEF Alone
    <3>4. QED
      BY <1>1, <2>1, <3>3, GoesOn
  <2>3. CASE lock # h
    <3>1. config' = Without(rows, op[h].slot)'
      BY <1>1, <1>2, <1>5, <2>1, <2>3 DEF Agree, Without
    <3>2. Leaving(op[h])'
      BY <1>1, <1>2, <2>1, <2>3 DEF RemoveRemote, users, Leaving
    <3>3. Alone(op[h], lock = h)'
      BY <1>5, <2>1, <2>3, <3>1, <3>2 DEF Alone
    <3>4. QED
      BY <1>1, <2>1, <3>3, GoesOn
  <2>4. QED
    BY <2>2, <2>3
<1>6. QED
  BY <1>3, <1>4, <1>5 DEF RemoveRemote

\* Where a removal stands after the remote is gone.
LEMMA RemovedAgrees ==
  ASSUME TypeOK, NEW h \in Handlers, Removed(h),
         UNCHANGED <<config, rows, users>>,
         \A g \in Handlers \ {h} : op[g].pc = "idle",
         lock = h => Agree,
         lock # h => Leaving(op[h]) /\ config = Without(rows, op[h].slot)
  PROVE  OneAtATime'
<1>1. CASE lock = h
  <2>1. Agree'
    BY <1>1 DEF Agree, users
  <2>2. QED
    BY <1>1, <2>1, EndSettles DEF Removed
<1>2. CASE lock # h
  <2>1. Goto(h, "deleteRow")
    BY <1>2 DEF Removed
  <2>2. /\ op'[h].pc = "deleteRow" /\ op'[h].slot = op[h].slot
        /\ op'[h].seen = op[h].seen /\ \A g \in Handlers \ {h} : op'[g] = op[g]
    BY <2>1, GotoFacts
  <2>3. Leaving(op[h])' /\ config' = Without(rows, op[h].slot)'
    BY <1>2, <2>2 DEF Leaving, Without, UserAgrees, users
  <2>4. Alone(op[h], lock = h)'
    BY <2>2, <2>3 DEF Alone
  <2>5. QED
    BY <2>2, <2>4, GoesOn
<1>3. QED
  BY <1>1, <1>2

\* Listing what is left, and unlinking a file that has nothing left.
LEMMA ListAgrees ==
  ASSUME AgreeInv, undisturbed, undisturbed', NEW h \in Handlers,
         ListAfterRemoval(h) \/ UnlinkConfig(h)
  PROVE  OneAtATime'
<1>1. /\ TypeOK /\ \A g \in Handlers \ {h} : op[g].pc = "idle"
      /\ lock = h => Agree
      /\ lock # h => Leaving(op[h]) /\ config = Without(rows, op[h].slot)
      /\ UnlinkConfig(h) => config = EmptyTable
  BY AloneFacts DEF ListAfterRemoval, UnlinkConfig, At, Alone
<1>2. UNCHANGED <<config, rows, users>>
  BY <1>1 DEF ListAfterRemoval, UnlinkConfig, data, users
<1>3. CASE Removed(h)
  BY <1>1, <1>2, <1>3, RemovedAgrees
<1>4. CASE End(h) /\ lock = h
  <2>1. Agree'
    BY <1>1, <1>2, <1>4 DEF Agree, users
  <2>2. QED
    BY <1>1, <1>4, <2>1, EndSettles
<1>5. CASE Named(config) = {} /\ Goto(h, "unlink") /\ lock' = lock
  <2>1. config = EmptyTable
    BY <1>1, <1>5 DEF Named, EmptyTable, TypeOK, Table
  <2>2. /\ op'[h].pc = "unlink" /\ op'[h].slot = op[h].slot
        /\ op'[h].seen = op[h].seen /\ \A g \in Handlers \ {h} : op'[g] = op[g]
    BY <1>1, <1>5, GotoFacts
  <2>3. lock = h => Agree'
    BY <1>1, <1>2 DEF Agree, users
  <2>4. lock # h => Leaving(op[h])' /\ config' = Without(rows, op[h].slot)'
    BY <1>1, <1>2, <2>2 DEF Leaving, Without, UserAgrees, users
  <2>5. config' = EmptyTable'
    BY <1>2, <2>1 DEF EmptyTable
  <2>6. Alone(op[h], lock = h)'
    BY <1>5, <2>2, <2>3, <2>4, <2>5 DEF Alone
  <2>7. QED
    BY <1>1, <2>2, <2>6, GoesOn
<1>6. QED
  BY <1>3, <1>4, <1>5 DEF ListAfterRemoval, UnlinkConfig

\* The rest of disconnect_google: the row goes and the user row is written
\* from the rows that are left.
LEMMA DisconnectAgrees ==
  ASSUME AgreeInv, undisturbed, NEW h \in Handlers,
         DeleteConnection(h) \/ ReadRemaining(h) \/ WriteUser(h)
  PROVE  OneAtATime'
<1>1. TypeOK /\ \A g \in Handlers \ {h} : op[g].pc = "idle"
  BY AloneFacts DEF DeleteConnection, ReadRemaining, WriteUser, At
<1>2. CASE DeleteConnection(h)
  <2>1. config = Without(rows, op[h].slot)
    BY <1>2, AloneFacts DEF DeleteConnection, At, Alone
  <2>2. config' = rows'
    BY <1>2, <2>1 DEF DeleteConnection, Without
  <2>3. op'[h].pc = "readRemaining" /\ \A g \in Handlers \ {h} : op'[g] = op[g]
    BY <1>1, <1>2, GotoFacts DEF DeleteConnection
  <2>4. Alone(op[h], lock = h)'
    BY <2>2, <2>3 DEF Alone
  <2>5. QED
    BY <1>1, <2>3, <2>4, GoesOn
<1>3. CASE ReadRemaining(h)
  <2>1. config = rows
    BY <1>3, AloneFacts DEF ReadRemaining, At, Alone
  <2>2. /\ op'[h].pc = "write" /\ op'[h].left = Named(rows)
        /\ \A g \in Handlers \ {h} : op'[g] = op[g]
    BY <1>1, <1>3 DEF ReadRemaining, TypeOK, Operation
  <2>3. Alone(op[h], lock = h)'
    BY <1>3, <2>1, <2>2 DEF Alone, ReadRemaining, data, Named
  <2>4. QED
    BY <1>1, <2>2, <2>3, GoesOn
<1>4. CASE WriteUser(h)
  <2>1. config = rows /\ op[h].left = Named(rows)
    BY <1>4, AloneFacts DEF WriteUser, At, Alone
  <2>2. Agree'
    BY <1>4, <2>1 DEF WriteUser, Agree, Named
  <2>3. QED
    BY <1>1, <1>4, <2>2, EndSettles DEF WriteUser
<1>5. QED
  BY <1>2, <1>3, <1>4

\* /remote and /clear.
LEMMA CommandAgrees ==
  ASSUME AgreeInv, undisturbed, NEW h \in Handlers,
         WriteChoice(h) \/ ClearFiles(h) \/ ClearRows(h)
  PROVE  OneAtATime'
<1>1. TypeOK /\ \A g \in Handlers \ {h} : op[g].pc = "idle"
  BY AloneFacts DEF WriteChoice, ClearFiles, ClearRows, At
<1>2. CASE WriteChoice(h)
  <2>1. Agree /\ op[h].slot \in Named(rows)
    BY <1>2, AloneFacts DEF WriteChoice, At, Alone
  <2>2. Agree'
    BY <1>2, <2>1 DEF WriteChoice, Agree
  <2>3. QED
    BY <1>1, <1>2, <2>2, EndSettles DEF WriteChoice
<1>3. CASE ClearFiles(h)
  <2>1. op'[h].pc = "clearRows" /\ \A g \in Handlers \ {h} : op'[g] = op[g]
    BY <1>1, <1>3, GotoFacts DEF ClearFiles
  <2>2. Alone(op[h], lock = h)'
    BY <1>3, <2>1 DEF Alone, ClearFiles, EmptyTable
  <2>3. QED
    BY <1>1, <2>1, <2>2, GoesOn
<1>4. CASE ClearRows(h)
  <2>1. config = EmptyTable
    BY <1>4, AloneFacts DEF ClearRows, At, Alone
  <2>2. Agree'
    BY <1>4, <2>1 DEF ClearRows, Agree, Named, EmptyTable
  <2>3. QED
    BY <1>1, <1>4, <2>2, EndSettles DEF ClearRows
<1>5. QED
  BY <1>2, <1>3, <1>4

\* A handler begins on an agreement, alone or not counted.
LEMMA BeginAgrees ==
  ASSUME AgreeInv, undisturbed, undisturbed', NEW h \in Handlers, Request(h)
  PROVE  OneAtATime'
<1>1. /\ TypeOK /\ \A o : Begin(h, o) =>
           AtRest /\ Agree /\ op'[h] = o /\ lock' = lock
      /\ \A o : Begin(h, o) => \A g \in Handlers \ {h} : op'[g].pc = "idle"
  BY DEF AgreeInv, OneAtATime, Begin, AtRest, At, TypeOK
<1>2. \A o : Begin(h, o) => lock # h
  BY <1>1, StorageAssumption
  DEF AgreeInv, ConnectingHoldsLock, AtRest, At, Connecting, Removing, Begin
<1>3. ASSUME UNCHANGED <<config, rows, users>>, Agree
      PROVE  Agree' /\ UserAgrees' /\ config' = rows'
  BY <1>3 DEF Agree, UserAgrees, users
<1>4. ASSUME NEW a \in Accounts, Claim(h, a)
      PROVE  OneAtATime'
  <2> DEFINE o == [Idle EXCEPT !.pc = "lock", !.acct = a]
  <2>1. o.pc = "lock" /\ o.acct = a
    BY DEF Idle
  <2>2. Begin(h, o)
    BY <1>4 DEF Claim
  <2>3. Agree'
    BY <1>1, <1>3, <1>4, <2>2 DEF Claim
  <2> HIDE DEF o
  <2>4. Alone(op[h], lock = h)'
    BY <1>1, <2>1, <2>2, <2>3 DEF Alone
  <2>5. QED
    BY <1>1, <2>1, <2>2, <2>4, GoesOn
<1>5. ASSUME NEW s \in Slots, Disconnect(h, s)
      PROVE  OneAtATime'
  <2> DEFINE o == [Idle EXCEPT !.pc = "remove", !.slot = s, !.seen = selected]
  <2>1. o.pc = "remove" /\ o.slot = s /\ o.seen = selected
    BY DEF Idle
  <2>2. Begin(h, o) /\ UNCHANGED <<config, rows, users>> /\ rows[s] # NoAccount
    BY <1>5 DEF Disconnect, data, users
  <2>3. Agree' /\ UserAgrees'
    BY <1>1, <1>3, <2>2
  <2> HIDE DEF o
  <2>4. Leaving(op[h])'
    BY <1>1, <2>1, <2>2, <2>3 DEF Leaving, users
  <2>5. Alone(op[h], lock = h)'
    BY <1>1, <1>2, <2>1, <2>2, <2>3, <2>4 DEF Alone
  <2>6. QED
    BY <1>1, <2>1, <2>2, <2>5, GoesOn
<1>6. ASSUME NEW s \in Slots, ChooseRemote(h, s)
      PROVE  OneAtATime'
  <2> DEFINE o == [Idle EXCEPT !.pc = "choose", !.slot = s]
  <2>1. o.pc = "choose" /\ o.slot = s
    BY DEF Idle
  <2>2. /\ Begin(h, o) /\ UNCHANGED <<config, rows, users>>
        /\ config[s] # NoAccount
    BY <1>6 DEF ChooseRemote, data, users
  <2>3. Agree' /\ config' = rows'
    BY <1>1, <1>3, <2>2
  <2> HIDE DEF o
  <2>4. op'[h].slot \in Named(rows)'
    BY <1>1, <2>1, <2>2, <2>3 DEF Named
  <2>5. Alone(op[h], lock = h)'
    BY <1>1, <2>1, <2>2, <2>3, <2>4 DEF Alone
  <2>6. QED
    BY <1>1, <2>1, <2>2, <2>5, GoesOn
<1>7. CASE ClearUser(h)
  <2> DEFINE o == [Idle EXCEPT !.pc = "clearFiles"]
  <2>1. o.pc = "clearFiles"
    BY DEF Idle
  <2>2. Begin(h, o) /\ UNCHANGED <<config, rows, users>>
    BY <1>7 DEF ClearUser, data, users
  <2>3. Agree'
    BY <1>1, <1>3, <2>2
  <2> HIDE DEF o
  <2>4. Alone(op[h], lock = h)'
    BY <1>1, <2>1, <2>2, <2>3 DEF Alone
  <2>5. QED
    BY <1>1, <2>1, <2>2, <2>4, GoesOn
<1>8. QED
  BY <1>4, <1>5, <1>6, <1>7 DEF Request

\* The strengthening is kept by every step.
LEMMA AgreeStep ==
  ASSUME AgreeInv, [Next]_vars
  PROVE  AgreeInv'
<1>1. TypeOK' /\ ConnectingHoldsLock'
  BY TypeStep, LockStep DEF AgreeInv
<1>2. undisturbed' => undisturbed
  BY DEF Next, Step, Request, Claim, Disconnect, ChooseRemote, ClearUser, Begin,
    Enter, NextRemoteName, CreateGoogleDrive, VerifyConnection,
    InsertConnection, SelectRemote, RemoveRemote, ListAfterRemoval,
    UnlinkConfig, DeleteConnection, ReadRemaining, WriteUser, WriteChoice,
    ClearFiles, ClearRows, Restart, AuthorizationUrl, GrantIsLost, vars
<1>3. CASE ~undisturbed'
  BY <1>1, <1>3 DEF AgreeInv, OneAtATime
<1>4. CASE undisturbed' /\ undisturbed
  <2>1. CASE UNCHANGED <<config, rows, users, op, lock, undisturbed>>
    <3>1. \A o, locked : Alone(o, locked)' <=> Alone(o, locked)
      BY <2>1 DEF Alone, Agree, Added, Adding, Leaving, UserAgrees, Without,
                  Named, EmptyTable, users
    <3>2. Agree' <=> Agree
      BY <2>1 DEF Agree, users
    <3>3. OneAtATime'
      BY <2>1, <3>1, <3>2 DEF AgreeInv, OneAtATime, AtRest, At
    <3>4. QED
      BY <1>1, <3>3 DEF AgreeInv
  <2>2. CASE Restart
    <3>1. /\ Agree /\ UNCHANGED <<config, rows, users>>
          /\ \A g \in Handlers : op'[g].pc = "idle"
      BY <1>4, <2>2 DEF AgreeInv, OneAtATime, Restart, Idle, users
    <3>2. Agree'
      BY <3>1 DEF Agree, users
    <3>3. QED
      BY <1>1, <3>1, <3>2, Settles DEF AgreeInv
  <2>3. ASSUME NEW h \in Handlers, Request(h) \/ Step(h)
        PROVE  OneAtATime'
    BY <1>4, <2>3, BeginAgrees, EnterAgrees, CreateAgrees, VerifyAgrees,
       InsertAgrees, SelectAgrees, RemoveAgrees, ListAgrees, DisconnectAgrees,
       CommandAgrees DEF Step
  <2>4. QED
    BY <1>1, <2>1, <2>2, <2>3
    DEF Next, vars, users, AuthorizationUrl, GrantIsLost, AgreeInv
<1>5. QED
  BY <1>2, <1>3, <1>4

\* At first nothing is connected.
LEMMA AgreeInit == Init => AgreeInv
<1> SUFFICES ASSUME Init PROVE AgreeInv
  OBVIOUS
<1>1. Named(rows) = {}
  BY DEF Init, EmptyTable, Named
<1>2. \A h \in Handlers : op[h].pc = "idle"
  BY DEF Init, Idle
<1>3. Agree
  BY <1>1 DEF Init, Agree
<1>4. ConnectingHoldsLock
  BY <1>2 DEF Init, ConnectingHoldsLock, Connecting
<1>5. OneAtATime
  BY <1>2, <1>3 DEF OneAtATime, At
<1>6. QED
  BY <1>4, <1>5, TypeInit DEF AgreeInv

\* As long as handlers run one at a time and none of them fails half-way, the
\* file, the rows and the user row agree whenever nothing is at work.
THEOREM SerialHandlersAgree == Spec => []OneByOneTheyAgree
<1>1. AgreeInv => OneByOneTheyAgree
  BY DEF AgreeInv, OneAtATime, OneByOneTheyAgree
<1>2. QED
  BY <1>1, AgreeInit, AgreeStep, PTL DEF Spec

-----------------------------------------------------------------------------
(* Rows and remotes of different accounts.                                 *)

\* A step that only takes remotes and rows away, and leaves the holder of the
\* lock where it is, mixes nothing.
LEMMA OthersMixNothing ==
  ASSUME SlotInv, TypeOK', ConnectingHoldsLock', lock' = lock,
         lock # Nobody => op'[lock] = op[lock],
         \A h \in Handlers : op'[h].pc = "lock" => op'[h].slot = 0,
         \A s \in Slots : /\ config'[s] \in {config[s], NoAccount}
                          /\ rows'[s] \in {rows[s], NoAccount}
  PROVE  SlotInv' /\ MixedByFailure
<1>1. ASSUME NEW s \in Slots, LeftMixed(s)'
      PROVE  LeftMixed(s)
  BY <1>1 DEF LeftMixed, Mixed, Settling
<1>2. lock # Nobody => HoldsSlot(op[lock])'
  BY DEF SlotInv, HoldsSlot
<1>3. QED
  BY <1>1, <1>2 DEF SlotInv, At, MixedByFailure

\* The holder goes on, with the slot it has.
LEMMA HolderGoesOn ==
  ASSUME SlotInv, TypeOK', ConnectingHoldsLock', NEW h \in Handlers,
         lock = h, lock' = h, op'[h].pc # "lock",
         \A g \in Handlers \ {h} : op'[g] = op[g],
         HoldsSlot(op[h])',
         \A s \in Slots : LeftMixed(s)' => LeftMixed(s)
  PROVE  SlotInv' /\ MixedByFailure
BY DEF SlotInv, At, MixedByFailure

\* The holder is over: it leaves its slot unmixed, or rclone has failed.
LEMMA HolderEnds ==
  ASSUME SlotInv, TypeOK', ConnectingHoldsLock', NEW h \in Handlers,
         lock = h, End(h),
         \A s \in Slots :
           Mixed(s)' => \/ op[h].slot # s /\ Mixed(s)
                        \/ op[h].slot = s /\ op[h].pc \in {"create", "remove"}
  PROVE  SlotInv' /\ MixedByFailure
<1>1. h # Nobody /\ lock' = Nobody
  BY StorageAssumption DEF End
<1>2. op'[h].pc = "idle" /\ \A g \in Handlers \ {h} : op'[g] = op[g]
  BY PlaceFacts DEF SlotInv
<1>3. SlotInv'
  BY <1>1, <1>2 DEF SlotInv, At
<1>4. MixedByFailure
  BY <1>1 DEF MixedByFailure, LeftMixed, Settling
<1>5. QED
  BY <1>3, <1>4

\* The lock is taken, with no slot as yet.
LEMMA EnterMixesNothing ==
  ASSUME SlotInv, TypeOK', ConnectingHoldsLock', NEW h \in Handlers, Enter(h)
  PROVE  SlotInv' /\ MixedByFailure
<1>1. /\ op[h].pc = "lock" /\ lock = Nobody /\ op[h].slot = 0 /\ TypeOK
      /\ Nobody \notin Handlers
  BY StorageAssumption DEF Enter, At, SlotInv
<1>2. config' = config /\ rows' = rows /\ stops' = stops
  BY DEF Enter, data
<1>3. CASE End(h)
  <2>1. op'[h].pc = "idle" /\ \A g \in Handlers \ {h} : op'[g] = op[g]
    BY <1>1, <1>3, PlaceFacts
  <2>2. lock' = lock
    BY <1>1, <1>3 DEF End
  <2>3. \A g \in Handlers : op'[g].pc = "lock" => op'[g].slot = 0
    BY <2>1 DEF SlotInv, At
  <2>4. QED
    BY <1>1, <1>2, <2>2, <2>3, OthersMixNothing
<1>4. CASE lock' = h /\ Goto(h, "name")
  <2>1. /\ op'[h].pc = "name" /\ op'[h].slot = 0
        /\ \A g \in Handlers \ {h} : op'[g] = op[g]
    BY <1>1, <1>4, GotoFacts
  <2>2. HoldsSlot(op[lock])'
    BY <1>4, <2>1 DEF HoldsSlot
  <2>3. SlotInv'
    BY <2>1, <2>2 DEF SlotInv, At
  <2>4. ASSUME NEW s \in Slots, LeftMixed(s)'
        PROVE  LeftMixed(s)
    BY <1>1, <1>2, <2>4 DEF LeftMixed, Mixed, Settling
  <2>5. QED
    BY <2>3, <2>4 DEF MixedByFailure
<1>5. QED
  BY <1>3, <1>4 DEF Enter

\* What the holder of the lock does until its row is in.
LEMMA ConnectingMixesNothing ==
  ASSUME SlotInv, TypeOK', ConnectingHoldsLock', NEW h \in Handlers,
         \/ NextRemoteName(h) \/ CreateGoogleDrive(h) \/ VerifyConnection(h)
         \/ InsertConnection(h) \/ SelectRemote(h)
  PROVE  SlotInv' /\ MixedByFailure
<1>1. /\ lock = h /\ h # Nobody /\ TypeOK /\ HoldsSlot(op[h])
      /\ op[h].pc \in Connecting
  BY StorageAssumption
  DEF NextRemoteName, CreateGoogleDrive, VerifyConnection, InsertConnection,
      SelectRemote, At, SlotInv, ConnectingHoldsLock, Connecting
<1>2. config \in Table /\ rows \in Table /\ op[h].acct \in Accounts \cup {NoAccount}
  BY <1>1 DEF TypeOK, Operation
<1>3. ASSUME NextRemoteName(h)
      PROVE  SlotInv' /\ MixedByFailure
  <2>1. op[h].slot = 0 /\ UNCHANGED <<config, rows>>
    BY <1>1, <1>3 DEF NextRemoteName, At, HoldsSlot, data
  <2>2. CASE End(h)
    BY <1>1, <2>1, <2>2, HolderEnds DEF Mixed, Slots
  <2>3. ASSUME NEW s \in Slots \ Named(config), lock' = lock,
               op' = [op EXCEPT ![h].pc = "create", ![h].slot = s]
        PROVE  SlotInv' /\ MixedByFailure
    <3>1. /\ op'[h].pc = "create" /\ op'[h].slot = s
          /\ \A g \in Handlers \ {h} : op'[g] = op[g]
      BY <1>1, <2>3 DEF TypeOK, Operation
    <3>2. config'[s] = NoAccount
      BY <2>1, <2>3 DEF Named
    <3>3. HoldsSlot(op[h])'
      BY <3>1, <3>2 DEF HoldsSlot, Slots
    <3>4. \A t \in Slots : LeftMixed(t)' => LeftMixed(t)
      BY <1>1, <2>1, <2>3, <3>1 DEF LeftMixed, Mixed, Settling, Slots
    <3>5. QED
      BY <1>1, <2>3, <3>1, <3>3, <3>4, HolderGoesOn
  <2>4. QED
    BY <1>3, <2>2, <2>3 DEF NextRemoteName
<1>4. ASSUME NEW pc, Goto(h, pc), lock' = lock, pc # "lock",
             op[h].pc # "name", HoldsSlot(op[h])',
             \A s \in Slots \ {op[h].slot} : config'[s] = config[s]
                                             /\ rows'[s] = rows[s]
      PROVE  SlotInv' /\ MixedByFailure
  <2>1. /\ op'[h].pc = pc /\ op'[h].slot = op[h].slot
        /\ \A g \in Handlers \ {h} : op'[g] = op[g]
    BY <1>1, <1>4, GotoFacts
  <2>2. \A s \in Slots : LeftMixed(s)' => LeftMixed(s)
    BY <1>1, <1>4, <2>1 DEF LeftMixed, Mixed, Settling
  <2>3. QED
    BY <1>1, <1>4, <2>1, <2>2, HolderGoesOn
<1>5. ASSUME CreateGoogleDrive(h)
      PROVE  SlotInv' /\ MixedByFailure
  <2>1. /\ op[h].pc = "create" /\ op[h].slot \in Slots /\ rows' = rows
        /\ config' \in {config, [config EXCEPT ![op[h].slot] = op[h].acct]}
    BY <1>1, <1>5 DEF CreateGoogleDrive, At, HoldsSlot
  <2>2. \A s \in Slots \ {op[h].slot} : config'[s] = config[s]
                                        /\ rows'[s] = rows[s]
    BY <1>2, <2>1 DEF Table
  <2>3. CASE End(h)
    BY <1>1, <2>1, <2>2, <2>3, HolderEnds DEF Mixed
  <2>4. CASE /\ config' = [config EXCEPT ![op[h].slot] = op[h].acct]
             /\ Goto(h, "verify") /\ UNCHANGED lock
    <3>1. /\ op'[h].pc = "verify" /\ op'[h].slot = op[h].slot
          /\ op'[h].acct = op[h].acct
      BY <1>1, <2>4, GotoFacts
    <3>2. config'[op[h].slot] = op[h].acct
      BY <1>2, <2>1, <2>4 DEF Table
    <3>3. HoldsSlot(op[h])'
      BY <2>1, <3>1, <3>2 DEF HoldsSlot
    <3>4. QED
      BY <1>4, <2>1, <2>2, <2>4, <3>3
  <2>5. QED
    BY <1>5, <2>3, <2>4 DEF CreateGoogleDrive
<1>6. ASSUME VerifyConnection(h)
      PROVE  SlotInv' /\ MixedByFailure
  <2>1. op[h].pc = "verify" /\ UNCHANGED <<config, rows, lock>>
    BY <1>6 DEF VerifyConnection, At, data
  <2>2. ASSUME NEW pc \in {"insert", "remove"}, Goto(h, pc)
        PROVE  HoldsSlot(op[h])'
    <3>1. /\ op'[h].pc = pc /\ op'[h].slot = op[h].slot
          /\ op'[h].acct = op[h].acct
      BY <1>1, <2>2, GotoFacts
    <3>2. QED
      BY <1>1, <2>1, <2>2, <3>1 DEF HoldsSlot
  <2>3. QED
    BY <1>4, <1>6, <2>1, <2>2 DEF VerifyConnection
<1>7. ASSUME InsertConnection(h)
      PROVE  SlotInv' /\ MixedByFailure
  <2>1. /\ op[h].pc = "insert" /\ op[h].slot \in Slots /\ config' = config
        /\ lock' = lock
        /\ rows' \in {rows, [rows EXCEPT ![op[h].slot] = op[h].acct]}
    BY <1>1, <1>7 DEF InsertConnection, At, HoldsSlot
  <2>2. \A s \in Slots \ {op[h].slot} : config'[s] = config[s]
                                        /\ rows'[s] = rows[s]
    BY <1>2, <2>1 DEF Table
  <2>3. CASE Goto(h, "remove") /\ UNCHANGED rows
    <3>1. op'[h].pc = "remove" /\ op'[h].slot = op[h].slot
      BY <1>1, <2>3, GotoFacts
    <3>2. HoldsSlot(op[h])'
      BY <2>1, <3>1 DEF HoldsSlot
    <3>3. QED
      BY <1>4, <2>1, <2>2, <2>3, <3>2
  <2>4. CASE /\ rows' = [rows EXCEPT ![op[h].slot] = op[h].acct]
             /\ Goto(h, "select")
    <3>1. /\ op'[h].pc = "select" /\ op'[h].slot = op[h].slot
          /\ op'[h].acct = op[h].acct
      BY <1>1, <2>4, GotoFacts
    <3>2. rows'[op[h].slot] = op[h].acct
      BY <1>2, <2>1, <2>4 DEF Table
    <3>3. HoldsSlot(op[h])'
      BY <1>1, <2>1, <3>1, <3>2 DEF HoldsSlot
    <3>4. QED
      BY <1>4, <2>1, <2>2, <2>4, <3>3
  <2>5. QED
    BY <1>7, <2>3, <2>4 DEF InsertConnection
<1>8. ASSUME SelectRemote(h)
      PROVE  SlotInv' /\ MixedByFailure
  <2>1. /\ op[h].pc = "select" /\ UNCHANGED <<config, rows>> /\ End(h)
        /\ op[h].slot \in Slots
        /\ config[op[h].slot] \in {NoAccount, op[h].acct}
        /\ rows[op[h].slot] \in {NoAccount, op[h].acct}
    BY <1>1, <1>8 DEF SelectRemote, At, HoldsSlot
  <2>2. \A s \in Slots : Mixed(s)' => op[h].slot # s /\ Mixed(s)
    BY <2>1 DEF Mixed
  <2>3. QED
    BY <1>1, <2>1, <2>2, HolderEnds
<1>9. QED
  BY <1>3, <1>5, <1>6, <1>7, <1>8

\* The holder takes its remote away again.
LEMMA RemovingMixesNothing ==
  ASSUME SlotInv, TypeOK', ConnectingHoldsLock', NEW h \in Handlers, lock = h,
         RemoveRemote(h) \/ ListAfterRemoval(h) \/ UnlinkConfig(h)
  PROVE  SlotInv' /\ MixedByFailure
<1>1. /\ h # Nobody /\ TypeOK /\ HoldsSlot(op[h]) /\ rows' = rows
      /\ op[h].pc \in Removing /\ op[h].slot \in Slots /\ config \in Table
  BY StorageAssumption
  DEF RemoveRemote, ListAfterRemoval, UnlinkConfig, At, SlotInv, Removing,
      HoldsSlot, TypeOK, data
<1>2. \A s \in Slots : config'[s] \in {config[s], NoAccount}
  BY <1>1 DEF RemoveRemote, ListAfterRemoval, UnlinkConfig, EmptyTable, Table,
              data
<1>3. \A s \in Slots : Mixed(s)' => Mixed(s)
  BY <1>1, <1>2 DEF Mixed
<1>4. ASSUME NEW s \in Slots, op[h].slot = s, op[h].pc \in {"list", "unlink"}
      PROVE  ~Mixed(s)'
  BY <1>1, <1>2, <1>4 DEF Mixed, HoldsSlot
<1>5. CASE End(h)
  <2>1. op[h].pc # "remove" => op[h].pc \in {"list", "unlink"}
    BY <1>1 DEF Removing
  <2>2. QED
    BY <1>1, <1>3, <1>4, <1>5, <2>1, HolderEnds
<1>6. ASSUME NEW pc \in {"list", "unlink"}, Goto(h, pc), lock' = lock,
             config'[op[h].slot] = NoAccount
      PROVE  SlotInv' /\ MixedByFailure
  <2>1. /\ op'[h].pc = pc /\ op'[h].slot = op[h].slot
        /\ \A g \in Handlers \ {h} : op'[g] = op[g]
    BY <1>1, <1>6, GotoFacts
  <2>2. HoldsSlot(op[h])'
    BY <1>1, <1>6, <2>1 DEF HoldsSlot
  <2>3. \A s \in Slots : LeftMixed(s)' => LeftMixed(s)
    BY <1>3, <1>6, <2>1 DEF LeftMixed, Settling
  <2>4. QED
    BY <1>6, <2>1, <2>2, <2>3, HolderGoesOn
<1>7. CASE RemoveRemote(h)
  <2>1. CASE /\ config' = [config EXCEPT ![op[h].slot] = NoAccount]
             /\ Goto(h, "list") /\ UNCHANGED lock
    BY <1>1, <1>6, <2>1 DEF Table
  <2>2. QED
    BY <1>5, <1>7, <2>1 DEF RemoveRemote, Removed
<1>8. CASE ListAfterRemoval(h)
  <2>1. config' = config /\ config[op[h].slot] = NoAccount
    BY <1>1, <1>8 DEF ListAfterRemoval, At, HoldsSlot, data
  <2>2. QED
    BY <1>5, <1>6, <1>8, <2>1 DEF ListAfterRemoval, Removed
<1>9. CASE UnlinkConfig(h)
  BY <1>5, <1>9 DEF UnlinkConfig, Removed
<1>10. QED
  BY <1>7, <1>8, <1>9

\* Handlers without the lock.
LEMMA UnlockedMixNothing ==
  ASSUME SlotInv, TypeOK', ConnectingHoldsLock', NEW h \in Handlers, lock # h,
         \/ RemoveRemote(h) \/ ListAfterRemoval(h) \/ UnlinkConfig(h)
         \/ DeleteConnection(h) \/ ReadRemaining(h) \/ WriteUser(h)
         \/ WriteChoice(h) \/ ClearFiles(h) \/ ClearRows(h)
  PROVE  SlotInv' /\ MixedByFailure
<1>1. TypeOK /\ config \in Table /\ rows \in Table
  BY DEF SlotInv, TypeOK
<1>2. \A s \in Slots : /\ config'[s] \in {config[s], NoAccount}
                       /\ rows'[s] \in {rows[s], NoAccount}
  BY <1>1 DEF RemoveRemote, ListAfterRemoval, UnlinkConfig, DeleteConnection,
    ReadRemaining, WriteUser, WriteChoice, ClearFiles, ClearRows, EmptyTable,
    Table, data
<1>3. CASE ReadRemaining(h)
  <2>1. /\ lock' = lock /\ op'[h].pc = "write"
        /\ \A g \in Handlers \ {h} : op'[g] = op[g]
    BY <1>1, <1>3 DEF ReadRemaining, TypeOK, Operation
  <2>2. \A g \in Handlers : op'[g].pc = "lock" => op'[g].slot = 0
    BY <2>1 DEF SlotInv, At
  <2>3. lock # Nobody => op'[lock] = op[lock]
    BY <1>1, <2>1 DEF TypeOK
  <2>4. QED
    BY <1>2, <2>1, <2>2, <2>3, OthersMixNothing
<1>4. CASE ~ReadRemaining(h)
  <2>1. \/ End(h)
        \/ lock' = lock /\ \E pc \in Removing \cup (Other \ {"lock"}) : Goto(h, pc)
    BY <1>4 DEF RemoveRemote, ListAfterRemoval, UnlinkConfig, Removed,
      DeleteConnection, WriteUser, WriteChoice, ClearFiles, ClearRows,
      Removing, Other
  <2>2. /\ lock' = lock /\ op'[h].pc # "lock"
        /\ \A g \in Handlers \ {h} : op'[g] = op[g]
    BY <1>1, <2>1, PlaceFacts DEF End, Removing
  <2>3. \A g \in Handlers : op'[g].pc = "lock" => op'[g].slot = 0
    BY <2>2 DEF SlotInv, At
  <2>4. lock # Nobody => op'[lock] = op[lock]
    BY <1>1, <2>2 DEF TypeOK
  <2>5. QED
    BY <1>2, <2>2, <2>3, <2>4, OthersMixNothing
<1>5. QED
  BY <1>3, <1>4

\* A handler begins without a slot, or to take one away or choose one.
LEMMA BeginMixesNothing ==
  ASSUME SlotInv, TypeOK', ConnectingHoldsLock', NEW h \in Handlers, Request(h)
  PROVE  SlotInv' /\ MixedByFailure
<1>1. TypeOK /\ UNCHANGED <<config, rows>>
  BY DEF SlotInv, Request, Claim, Disconnect, ChooseRemote, ClearUser, data
<1>2. ASSUME NEW o, Begin(h, o), o.pc = "lock" => o.slot = 0
      PROVE  SlotInv' /\ MixedByFailure
  <2>1. /\ lock' = lock /\ op'[h] = o /\ op[h].pc = "idle"
        /\ \A g \in Handlers \ {h} : op'[g] = op[g]
    BY <1>1, <1>2 DEF Begin, At, TypeOK
  <2>2. lock # h
    BY <2>1, StorageAssumption
    DEF SlotInv, ConnectingHoldsLock, Connecting, Removing
  <2>3. \A g \in Handlers : op'[g].pc = "lock" => op'[g].slot = 0
    BY <1>2, <2>1 DEF SlotInv, At
  <2>4. lock # Nobody => op'[lock] = op[lock]
    BY <1>1, <2>1, <2>2 DEF TypeOK
  <2>5. QED
    BY <1>1, <2>1, <2>3, <2>4, OthersMixNothing
<1>3. /\ \A a : [Idle EXCEPT !.pc = "lock", !.acct = a].slot = 0
      /\ \A s, t : [Idle EXCEPT !.pc = "remove", !.slot = s, !.seen = t].pc
                      = "remove"
      /\ \A s : [Idle EXCEPT !.pc = "choose", !.slot = s].pc = "choose"
      /\ [Idle EXCEPT !.pc = "clearFiles"].pc = "clearFiles"
  BY DEF Idle
<1>4. QED
  BY <1>2, <1>3 DEF Request, Claim, Disconnect, ChooseRemote, ClearUser

\* Every step keeps the holder's knowledge of its slot.
LEMMA SlotStep ==
  ASSUME SlotInv, [Next]_vars
  PROVE  SlotInv' /\ MixedByFailure
<1>1. TypeOK' /\ ConnectingHoldsLock'
  BY TypeStep, LockStep DEF SlotInv
<1>2. CASE UNCHANGED <<config, rows, op, lock>>
  BY <1>1, <1>2, OthersMixNothing DEF SlotInv, At
<1>3. CASE Restart
  <2>1. /\ stops' # stops /\ lock' = Nobody
        /\ \A h \in Handlers : op'[h].pc = "idle"
    BY <1>3, StorageAssumption DEF Restart, SlotInv, TypeOK, Idle
  <2>2. QED
    BY <1>1, <2>1 DEF SlotInv, At, MixedByFailure
<1>4. ASSUME NEW h \in Handlers, Request(h) \/ Step(h)
      PROVE  SlotInv' /\ MixedByFailure
  <2>1. CASE Request(h)
    BY <1>1, <2>1, BeginMixesNothing
  <2>2. CASE Enter(h)
    BY <1>1, <2>2, EnterMixesNothing
  <2>3. CASE \/ NextRemoteName(h) \/ CreateGoogleDrive(h) \/ VerifyConnection(h)
             \/ InsertConnection(h) \/ SelectRemote(h)
    BY <1>1, <2>3, ConnectingMixesNothing
  <2>4. CASE RemoveRemote(h) \/ ListAfterRemoval(h) \/ UnlinkConfig(h)
    BY <1>1, <2>4, RemovingMixesNothing, UnlockedMixNothing
  <2>5. CASE \/ DeleteConnection(h) \/ ReadRemaining(h) \/ WriteUser(h)
             \/ WriteChoice(h) \/ ClearFiles(h) \/ ClearRows(h)
    <3>1. lock # h
      BY <2>5, StorageAssumption DEF DeleteConnection, ReadRemaining, WriteUser,
        WriteChoice, ClearFiles, ClearRows, At, SlotInv, ConnectingHoldsLock,
        Connecting, Removing
    <3>2. QED
      BY <1>1, <2>5, <3>1, UnlockedMixNothing
  <2>6. QED
    BY <1>4, <2>1, <2>2, <2>3, <2>4, <2>5 DEF Step
<1>5. QED
  BY <1>2, <1>3, <1>4 DEF Next, vars, data, AuthorizationUrl, GrantIsLost

\* At first no handler is at work.
LEMMA SlotInit == Init => SlotInv
<1> SUFFICES ASSUME Init PROVE SlotInv
  OBVIOUS
<1>1. lock = Nobody /\ \A h \in Handlers : op[h].pc = "idle"
  BY DEF Init, Idle
<1>2. ConnectingHoldsLock
  BY <1>1 DEF ConnectingHoldsLock, Connecting
<1>3. QED
  BY <1>1, <1>2, TypeInit DEF SlotInv, At

\* Whatever callbacks, disconnections and clears overlap, a row is left with the
\* remote of another account only when rclone failed or the process stopped.
THEOREM OnlyFailuresMix == Spec => MixedByFailureOnly
<1>1. SlotInv /\ [Next]_vars => [MixedByFailure]_vars
  BY SlotStep
<1>2. SlotInv /\ [Next]_vars => SlotInv'
  BY SlotStep
<1>3. QED
  BY <1>1, <1>2, SlotInit, PTL DEF Spec, MixedByFailureOnly

=============================================================================
