----------------------------- MODULE Download ------------------------------
(***************************************************************************)
(* The download of one file: _download and _download_parallel of           *)
(* src/app/dispatcher.py and the check of the size in _process.            *)
(*                                                                         *)
(* The byte at place b of the document is the number b, so that a byte in  *)
(* a wrong place shows.  Sizes and the chunk are counted in small units;   *)
(* an action is one await of a lane, or of the task that waits for them.   *)
(***************************************************************************)
EXTENDS Integers, FiniteSets

CONSTANTS
  MaxSize,        \* bound: sizes of the document
  MaxConnections, \* largest settings.telegram_download_connections
  MinParallel,    \* settings.parallel_download_min_size_mb
  ChunkSize,      \* chunk_size
  Hole            \* a byte of the file that nobody has written

ASSUME DownloadAssumption ==
  /\ MaxSize \in Nat /\ MinParallel \in Nat \ {0}
  /\ MaxConnections \in Nat \ {0} /\ ChunkSize \in Nat \ {0}
  /\ Hole \notin Nat

VARIABLES
  size,        \* job.file_size
  lanes,       \* number of lanes, "connections"
  file,        \* the target: a function on its places
  phase,       \* where _process stands
  pc,          \* the lanes
  got,         \* parts that the iterator of a lane has delivered
  position,    \* where a lane writes next
  transferred, \* what the progress callback is told
  gap          \* history: an iterator ended before its last part

vars == <<size, lanes, file, phase, pc, got, position, transferred, gap>>
input == <<size, lanes>>

Ceil(a, b) == (a + b - 1) \div b
Smaller(a, b) == IF a <= b THEN a ELSE b
Lanes == 0 .. (MaxConnections - 1)
Stride == ChunkSize * lanes
Offset(i) == i * ChunkSize
NoFile == [b \in {} |-> Hole]

Receiving == {"wait", "stalled"}
Over == {"none", "ended", "failed"}

\* The target is opened and extended to its size before the lanes start, in
\* the step that begins the download; a small file has no lanes.
Init ==
  /\ size \in 1 .. MaxSize
  /\ \E setting \in 1 .. MaxConnections :
       IF setting > 1 /\ size >= MinParallel
       THEN /\ lanes = Smaller(setting, Ceil(size, ChunkSize))
            /\ phase = "parallel"
            /\ file = [b \in 0 .. (size - 1) |-> Hole]
       ELSE lanes = 0 /\ phase = "sequential" /\ file = NoFile
  /\ pc = [i \in Lanes |-> IF i < lanes THEN "wait" ELSE "none"]
  /\ got = [i \in Lanes |-> 0]
  /\ position = [i \in Lanes |-> Offset(i)]
  /\ transferred = 0 /\ gap = FALSE

-----------------------------------------------------------------------------
(* lane(i).  Its iterator delivers the parts at Offset(i), Offset(i) +     *)
(* Stride, ... up to the limit; only the last one is short.                *)

\* Mutation of PartsOf: the last, short stride is left out.
WholePartsOf(i) == (size - Offset(i)) \div Stride

PartsOf(i) == Ceil(size - Offset(i), Stride)

\* Mutation of Receive: the last part of a lane is counted as a whole one.
ReceiveWhole(i) ==
  LET from == Offset(i) + got[i] * Stride
      length == ChunkSize
      at == position[i]
  IN
  /\ pc[i] = "wait" /\ got[i] < PartsOf(i)
  /\ file' = [b \in DOMAIN file \cup at .. (at + length - 1) |->
                IF b \in at .. (at + length - 1) THEN from + (b - at) ELSE file[b]]
  /\ got' = [got EXCEPT ![i] = @ + 1]
  /\ position' = [position EXCEPT ![i] = @ + Stride]
  /\ transferred' = transferred + length
  /\ UNCHANGED <<input, phase, pc, gap>>

\* Mutation of Receive: a lane goes on at the next part, another lane's.
ReceiveNextPart(i) ==
  LET from == Offset(i) + got[i] * Stride
      length == Smaller(ChunkSize, size - from)
      at == position[i]
  IN
  /\ pc[i] = "wait" /\ got[i] < PartsOf(i)
  /\ file' = [b \in DOMAIN file \cup at .. (at + length - 1) |->
                IF b \in at .. (at + length - 1) THEN from + (b - at) ELSE file[b]]
  /\ got' = [got EXCEPT ![i] = @ + 1]
  /\ position' = [position EXCEPT ![i] = @ + ChunkSize]
  /\ transferred' = transferred + length
  /\ UNCHANGED <<input, phase, pc, gap>>

Receive(i) ==
  LET from == Offset(i) + got[i] * Stride
      length == Smaller(ChunkSize, size - from)
      at == position[i]
  IN
  /\ pc[i] = "wait" /\ got[i] < PartsOf(i)
  /\ file' = [b \in DOMAIN file \cup at .. (at + length - 1) |->
                IF b \in at .. (at + length - 1) THEN from + (b - at) ELSE file[b]]
  /\ got' = [got EXCEPT ![i] = @ + 1]
  /\ position' = [position EXCEPT ![i] = @ + Stride]
  /\ transferred' = transferred + length
  /\ UNCHANGED <<input, phase, pc, gap>>

\* StopAsyncIteration, after the last part or because Telegram sent less.
LaneEnds(i) ==
  /\ pc[i] = "wait"
  /\ pc' = [pc EXCEPT ![i] = "ended"]
  /\ gap' = (gap \/ got[i] < PartsOf(i))
  /\ UNCHANGED <<input, file, phase, got, position, transferred>>

LaneFails(i) ==
  /\ pc[i] = "wait"
  /\ pc' = [pc EXCEPT ![i] = "failed"]
  /\ UNCHANGED <<input, file, phase, got, position, transferred, gap>>

\* Telegram stops answering this lane.
LaneStalls(i) ==
  /\ pc[i] = "wait"
  /\ pc' = [pc EXCEPT ![i] = "stalled"]
  /\ UNCHANGED <<input, file, phase, got, position, transferred, gap>>

\* Mutation of LaneTimesOut: a lane waits for its next part without a limit.
LaneWaits(i) ==
  /\ pc[i] = "stalled" /\ phase = "cancelled"
  /\ pc' = [pc EXCEPT ![i] = "failed"]
  /\ UNCHANGED <<input, file, phase, got, position, transferred, gap>>

LaneTimesOut(i) ==
  /\ pc[i] = "stalled"
  /\ pc' = [pc EXCEPT ![i] = "failed"]
  /\ UNCHANGED <<input, file, phase, got, position, transferred, gap>>

\* A cancelled lane closes its iterator and ends.
LaneCloses(i) ==
  /\ pc[i] = "closing"
  /\ pc' = [pc EXCEPT ![i] = "ended"]
  /\ UNCHANGED <<input, file, phase, got, position, transferred, gap>>

-----------------------------------------------------------------------------
(* The task that waits for the lanes.                                      *)

CancelLanes ==
  pc' = [i \in Lanes |-> IF pc[i] \in Receiving THEN "closing" ELSE pc[i]]
LanesAreOver == \A i \in Lanes : pc[i] \in Over

AllReceived ==
  /\ phase = "parallel" /\ LanesAreOver /\ \A i \in Lanes : pc[i] # "failed"
  /\ phase' = "check"
  /\ UNCHANGED <<input, file, pc, got, position, transferred, gap>>

\* gather raises the first error while the other lanes still run.
FailureSeen ==
  /\ phase = "parallel" /\ \E i \in Lanes : pc[i] = "failed"
  /\ phase' = "cancelling" /\ CancelLanes
  /\ UNCHANGED <<input, file, got, position, transferred, gap>>

\* Mutation of FallBack: the cancelled lanes are not waited for.
FallBackAtOnce ==
  /\ phase = "cancelling"
  /\ phase' = "sequential" /\ file' = NoFile
  /\ UNCHANGED <<input, pc, got, position, transferred, gap>>

\* Every lane is over: the target is deleted and the download begins anew.
FallBack ==
  /\ phase = "cancelling" /\ LanesAreOver
  /\ phase' = "sequential" /\ file' = NoFile
  /\ UNCHANGED <<input, pc, got, position, transferred, gap>>

\* The job is cancelled.  Lanes that run are cancelled and waited for; a
\* cancellation while they are waited for ends the wait.
Cancel ==
  /\ \/ phase = "parallel" /\ phase' = "aborting" /\ CancelLanes
     \/ /\ phase \in {"cancelling", "aborting", "sequential"}
        /\ phase' = "cancelled" /\ UNCHANGED pc
  /\ UNCHANGED <<input, file, got, position, transferred, gap>>

Aborted ==
  /\ phase = "aborting" /\ LanesAreOver
  /\ phase' = "cancelled"
  /\ UNCHANGED <<input, file, pc, got, position, transferred, gap>>

\* download_media appends to the file; it has no timeout of its own.
ReceiveNext ==
  LET n == Cardinality(DOMAIN file) IN
  /\ phase = "sequential" /\ n < size
  /\ file' = [b \in 0 .. (Smaller(n + ChunkSize, size) - 1) |-> b]
  /\ transferred' = Smaller(n + ChunkSize, size)
  /\ UNCHANGED <<input, phase, pc, got, position, gap>>

SequentialEnds ==
  /\ phase = "sequential" /\ phase' \in {"check", "failed"}
  /\ UNCHANGED <<input, file, pc, got, position, transferred, gap>>

CheckSize ==
  /\ phase = "check"
  /\ phase' = IF Cardinality(DOMAIN file) = size THEN "downloaded" ELSE "failed"
  /\ UNCHANGED <<input, file, pc, got, position, transferred, gap>>

Lane(i) ==
  \/ Receive(i) \/ LaneEnds(i) \/ LaneFails(i) \/ LaneStalls(i)
  \/ LaneTimesOut(i) \/ LaneCloses(i)
Wait == AllReceived \/ FailureSeen \/ FallBack \/ Aborted

Next ==
  \/ \E i \in Lanes : Lane(i)
  \/ Wait \/ Cancel \/ ReceiveNext \/ SequentialEnds \/ CheckSize

Spec == Init /\ [][Next]_vars

\* A lane gets its next part or an error, or its timeout expires.  Nothing
\* bounds the sequential download.
Fairness == WF_vars(Wait) /\ \A i \in Lanes : WF_vars(Lane(i))
FairSpec == Spec /\ Fairness

-----------------------------------------------------------------------------
(* Properties.                                                             *)

TypeOK ==
  /\ size \in 1 .. MaxSize /\ lanes \in 0 .. MaxConnections
  /\ DOMAIN file \subseteq 0 .. (size - 1)
  /\ \A b \in DOMAIN file : file[b] \in 0 .. (size - 1) \cup {Hole}
  /\ phase \in {"parallel", "cancelling", "aborting", "sequential", "check",
                "downloaded", "failed", "cancelled"}
  /\ pc \in [Lanes -> Receiving \cup Over \cup {"closing"}]
  /\ got \in [Lanes -> Nat] /\ position \in [Lanes -> Nat]
  /\ transferred \in 0 .. size /\ gap \in BOOLEAN

\* A download that passes the check of its size has every byte in its place,
\* for every size and number of lanes, whatever lanes fail in between, unless
\* a lane was sent less than its parts: the target is extended before it is
\* filled, so that the check of dispatcher.py:207 cannot see a hole.
DownloadedIsWhole ==
  phase = "downloaded" /\ ~gap =>
    /\ DOMAIN file = 0 .. (size - 1)
    /\ \A b \in DOMAIN file : file[b] = b

\* The lanes never write the same byte twice: what the progress reports is
\* what the file holds.
ProgressIsExact ==
  phase \in {"parallel", "cancelling", "aborting"} =>
    transferred = Cardinality({b \in DOMAIN file : file[b] # Hole})

\* README.md:117, "all lanes are cancelled and the file restarts": a file is
\* downloaded anew, checked or uploaded only after the last lane has ended.
RestartsAlone ==
  phase \in {"sequential", "check", "downloaded", "failed"} => LanesAreOver

\* A stalled or failed lane does not hold up the download for ever.
ParallelEnds == <>(phase \notin {"parallel", "cancelling", "aborting"})

-----------------------------------------------------------------------------
(* The strengthening that makes the invariants inductive.                  *)

\* The lane that byte b belongs to, and the number of its part there.
LaneOf(b) == (b \div ChunkSize) % lanes
PartOf(b) == (b \div ChunkSize) \div lanes
Written(b) == PartOf(b) < got[LaneOf(b)]
WithLanes == {"parallel", "cancelling", "aborting"}

\* Lanes exist while they are used, and receive only while nobody cancels.
LanesAtWork ==
  /\ phase # "parallel" => \A i \in Lanes : pc[i] \notin Receiving
  /\ phase = "parallel" => \A i \in Lanes : pc[i] # "closing"
  /\ \A i \in Lanes : pc[i] # "none" <=> i < lanes
  /\ phase \in WithLanes => lanes > 0

\* A lane writes where its next part belongs, and has all of them when it
\* ends by itself.
LanesInPlace ==
  \A i \in Lanes :
    /\ position[i] = Offset(i) + got[i] * Stride
    /\ phase = "parallel" /\ pc[i] = "ended" /\ ~gap => got[i] >= PartsOf(i)

\* The lanes' file has the bytes of the parts they have received.
LanesFill ==
  phase \in WithLanes =>
    /\ file = [b \in 0 .. (size - 1) |-> IF Written(b) THEN b ELSE Hole]
    /\ transferred = Cardinality({b \in 0 .. (size - 1) : Written(b)})

\* Any other file is a beginning of the document, unless a lane left a gap.
Beginning(n) == [b \in 0 .. (n - 1) |-> b]
FileBegins ==
  phase = "sequential" \/ (phase \in {"check", "downloaded"} /\ ~gap) =>
    /\ \E n \in 0 .. size : file = Beginning(n)
    /\ phase = "downloaded" => file = Beginning(size)

FileInv ==
  /\ TypeOK /\ RestartsAlone
  /\ LanesAtWork /\ LanesInPlace /\ LanesFill /\ FileBegins

=============================================================================
