----------------------------- MODULE WorkerPool -----------------------------
(***************************************************************************)
(* What the dispatcher promises about its workers, without saying how: a   *)
(* pool of MaxWorkers tickets, handed to jobs of distinct users and given  *)
(* back one at a time; only a stop of the whole process takes them away    *)
(* together.  README.md, "Queue and concurrency model".                    *)
(***************************************************************************)
EXTENDS Integers, FiniteSets

CONSTANTS Jobs, Owner, MaxWorkers

VARIABLE pool    \* jobs that hold a ticket

Init == pool = {}

Grant(j) ==
  /\ Cardinality(pool) < MaxWorkers
  /\ \A i \in pool : Owner[i] # Owner[j]
  /\ pool' = pool \cup {j}

Return(j) ==
  /\ j \in pool
  /\ pool' = pool \ {j}

StopAll == pool' = {}

Next == StopAll \/ \E j \in Jobs : Grant(j) \/ Return(j)

Safety == Init /\ [][Next]_pool

\* Nobody keeps a ticket for ever.
Spec == Safety /\ \A j \in Jobs : WF_pool(Return(j))
=============================================================================
