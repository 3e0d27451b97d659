--------------------------- MODULE DownloadProofs ---------------------------
(* Theorems about Download, for every value of its constants.              *)
EXTENDS Download, FiniteSetTheorems, TLAPS

-----------------------------------------------------------------------------
(* The parts of the lanes partition the document.                          *)

\* A quotient is where its multiples say.
LEMMA QuotientFacts ==
  ASSUME NEW a \in Int, NEW n \in Nat \ {0}
  PROVE  /\ a \div n \in Int /\ a % n \in 0 .. (n - 1)
         /\ a = (a \div n) * n + (a % n)
         /\ a >= 0 => a \div n >= 0
OBVIOUS

LEMMA QuotientIs ==
  ASSUME NEW a \in Int, NEW n \in Nat \ {0}, NEW q \in Int, NEW r \in 0 .. (n - 1)
  PROVE  a = q * n + r <=> a \div n = q /\ a % n = r
<1> DEFINE p == a \div n
           s == (a % n)
<1>1. p \in Int /\ s \in 0 .. (n - 1) /\ a = p * n + s
  BY QuotientFacts
<1> HIDE DEF p, s
<1>2. ASSUME a = q * n + r
      PROVE  p = q
  <2>1. ASSUME p < q PROVE FALSE
    <3>1. q - p >= 1 /\ (q - p) * n >= n
      BY <2>1, <1>1
    <3>2. (q - p) * n = q * n - p * n
      BY <1>1
    <3> QED BY <1>1, <1>2, <3>1, <3>2
  <2>2. ASSUME q < p PROVE FALSE
    <3>1. p - q >= 1 /\ (p - q) * n >= n
      BY <2>2, <1>1
    <3>2. (p - q) * n = p * n - q * n
      BY <1>1
    <3> QED BY <1>1, <1>2, <3>1, <3>2
  <2> QED BY <1>1, <2>1, <2>2
<1>3. ASSUME a = q * n + r
      PROVE  s = r
  BY <1>1, <1>2, <1>3
<1>4. (a = q * n + r) <=> (p = q /\ s = r)
  BY <1>1, <1>2, <1>3
<1> QED BY <1>4 DEF p, s

\* Of the bytes of the document, lane i's part k has those from its place on
\* and no others.
LEMMA PlaceFacts ==
  ASSUME lanes \in Nat \ {0}, NEW i \in 0 .. (lanes - 1), NEW k \in Nat, NEW b \in Nat
  PROVE  /\ LaneOf(b) \in 0 .. (lanes - 1) /\ PartOf(b) \in Nat
         /\ (LaneOf(b) = i /\ PartOf(b) = k) <=>
              /\ Offset(i) + k * Stride <= b
              /\ b <= Offset(i) + k * Stride + ChunkSize - 1
<1> DEFINE C == ChunkSize
           q == b \div C
           m == k * lanes + i
<1>1. C \in Nat \ {0}
  BY DownloadAssumption
<1>2. q \in Int /\ b % C \in 0 .. (C - 1) /\ b = q * C + (b % C)
  BY <1>1, QuotientFacts
<1>3. q >= 0
  BY <1>1, QuotientFacts
<1>4. m \in Int
  OBVIOUS
<1>5. Offset(i) + k * Stride = m * C
  BY <1>1 DEF Offset, Stride
<1>6. q = m <=> m * C <= b /\ b <= m * C + C - 1
  <2>1. ASSUME m * C <= b, b <= m * C + C - 1
        PROVE  q = m
    <3>1. m * C \in Int
      BY <1>1, <1>4
    <3>2. b - m * C \in 0 .. (C - 1) /\ b = m * C + (b - m * C)
      BY <1>1, <2>1, <3>1
    <3> HIDE DEF m
    <3> QED BY <1>1, <1>4, <3>2, QuotientIs
  <2>2. ASSUME q = m
        PROVE  m * C <= b /\ b <= m * C + C - 1
    <3> HIDE DEF m, q
    <3>1. m * C \in Int /\ b = m * C + (b % C) /\ b % C \in 0 .. (C - 1)
      BY <1>1, <1>2, <1>4, <2>2
    <3> QED BY <1>1, <3>1
  <2> QED BY <2>1, <2>2
<1> HIDE DEF q
<1>7. q = k * lanes + i <=> q \div lanes = k /\ q % lanes = i
  <2>1. k \in Int /\ q \in Int
    BY <1>2
  <2>2. \A x \in Int : \A p \in Int :
          x = p * lanes + i <=> x \div lanes = p /\ x % lanes = i
    BY QuotientIs
  <2> QED BY <2>1, <2>2
<1>8. q \div lanes \in Int /\ q % lanes \in 0 .. (lanes - 1)
  BY <1>2, QuotientFacts
<1>9. q \div lanes >= 0
  BY <1>2, <1>3, QuotientFacts
<1>10. LaneOf(b) = (q % lanes) /\ PartOf(b) = q \div lanes
  BY DEF LaneOf, PartOf, q
<1> QED BY <1>5, <1>6, <1>7, <1>8, <1>9, <1>10 DEF m

\* A lane has a part k exactly when the part's place is in the document.
LEMMA PartFacts ==
  ASSUME TypeOK, lanes > 0, NEW i \in Lanes, NEW k \in Nat
  PROVE  /\ PartsOf(i) \in Int
         /\ k < PartsOf(i) <=> Offset(i) + k * Stride < size
<1> DEFINE x == size - Offset(i)
           D == Stride
           a == x + D - 1
           q == a \div D
<1>1. /\ size \in Int /\ Offset(i) \in Int /\ D \in Nat \ {0}
  BY DownloadAssumption DEF TypeOK, Offset, Stride, Lanes
<1>2. x \in Int /\ a \in Int
  BY <1>1
<1>3. q \in Int /\ a % D \in 0 .. (D - 1) /\ a = q * D + (a % D)
  BY <1>1, <1>2, QuotientFacts
<1>4. PartsOf(i) = q
  BY DEF PartsOf, Ceil
<1> HIDE DEF x, D, q
<1>5. ASSUME k < q PROVE k * D < x
  <2>1. (q - k) * D >= D
    BY <1>1, <1>3, <1>5
  <2>2. (q - k) * D = q * D - k * D
    BY <1>1, <1>3
  <2> QED BY <1>1, <1>2, <1>3, <2>1, <2>2 DEF a
<1>6. ASSUME q <= k PROVE x <= k * D
  <2>1. (k - q) * D >= 0
    BY <1>1, <1>3, <1>6
  <2>2. (k - q) * D = k * D - q * D
    BY <1>1, <1>3
  <2> QED BY <1>1, <1>2, <1>3, <2>1, <2>2 DEF a
<1>7. k * D \in Int
  BY <1>1
<1> QED BY <1>1, <1>2, <1>3, <1>4, <1>5, <1>6, <1>7 DEF x, D

\* A beginning of the document, as a file.
LEMMA BeginningFacts ==
  ASSUME NEW n \in Nat
  PROVE  /\ DOMAIN Beginning(n) = 0 .. (n - 1)
         /\ \A b \in 0 .. (n - 1) : Beginning(n)[b] = b
         /\ Cardinality(DOMAIN Beginning(n)) = n
<1>1. DOMAIN Beginning(n) = 0 .. (n - 1)
  BY DEF Beginning
<1>2. Cardinality(0 .. (n - 1)) = n
  BY FS_Interval
<1> QED BY <1>1, <1>2 DEF Beginning

-----------------------------------------------------------------------------
(* The initial states.                                                     *)

\* There is at least one lane, and no more than settings allow.
LEMMA LaneCount ==
  ASSUME NEW setting \in 1 .. MaxConnections, NEW n \in Nat \ {0}
  PROVE  Smaller(setting, Ceil(n, ChunkSize)) \in 1 .. MaxConnections
<1> DEFINE c == ChunkSize
           a == n + c - 1
           q == a \div c
<1>1. c \in Nat \ {0} /\ a \in Int /\ MaxConnections \in Nat
  BY DownloadAssumption
<1>2. q \in Int /\ a % c \in 0 .. (c - 1) /\ a = q * c + (a % c)
  BY <1>1, QuotientFacts
<1>3. Ceil(n, ChunkSize) = q
  BY DEF Ceil
<1> HIDE DEF c, q
<1>4. ASSUME q <= 0 PROVE FALSE
  <2>1. (-q) * c >= 0 /\ (-q) * c = -(q * c)
    BY <1>1, <1>2, <1>4
  <2> QED BY <1>1, <1>2, <2>1 DEF a
<1> QED BY <1>1, <1>2, <1>3, <1>4 DEF Smaller

LEMMA FileInit == Init => FileInv
<1> SUFFICES ASSUME Init PROVE FileInv
  OBVIOUS
<1>1. /\ size \in 1 .. MaxSize /\ MaxSize \in Nat /\ ChunkSize \in Nat \ {0}
      /\ MaxConnections \in Nat \ {0}
      /\ pc = [i \in Lanes |-> IF i < lanes THEN "wait" ELSE "none"]
      /\ got = [i \in Lanes |-> 0] /\ position = [i \in Lanes |-> Offset(i)]
      /\ transferred = 0 /\ gap = FALSE
  BY DownloadAssumption DEF Init
<1>2. \A i \in Lanes : i \in Nat /\ Offset(i) \in Nat
  BY <1>1 DEF Lanes, Offset
<1>3. \/ /\ phase = "parallel" /\ lanes \in 1 .. MaxConnections
         /\ file = [b \in 0 .. (size - 1) |-> Hole]
      \/ phase = "sequential" /\ lanes = 0 /\ file = NoFile
  <2>1. PICK setting \in 1 .. MaxConnections :
          IF setting > 1 /\ size >= MinParallel
          THEN /\ lanes = Smaller(setting, Ceil(size, ChunkSize))
               /\ phase = "parallel"
               /\ file = [b \in 0 .. (size - 1) |-> Hole]
          ELSE lanes = 0 /\ phase = "sequential" /\ file = NoFile
    BY DEF Init
  <2>2. Smaller(setting, Ceil(size, ChunkSize)) \in 1 .. MaxConnections
    BY <1>1, LaneCount
  <2> QED BY <2>1, <2>2
<1>4. TypeOK
  <2>1. /\ DOMAIN file \subseteq 0 .. (size - 1)
        /\ \A b \in DOMAIN file : file[b] \in 0 .. (size - 1) \cup {Hole}
    BY <1>3 DEF NoFile
  <2>2. pc \in [Lanes -> Receiving \cup Over \cup {"closing"}]
    BY <1>1 DEF Receiving, Over
  <2>3. got \in [Lanes -> Nat] /\ position \in [Lanes -> Nat]
    BY <1>1, <1>2
  <2>4. lanes \in 0 .. MaxConnections /\ transferred \in 0 .. size
    BY <1>1, <1>3
  <2> QED BY <1>1, <1>3, <2>1, <2>2, <2>3, <2>4 DEF TypeOK
<1>5. LanesAtWork /\ RestartsAlone
  BY <1>1, <1>2, <1>3 DEF LanesAtWork, RestartsAlone, LanesAreOver, Over,
     Receiving, WithLanes
<1>6. LanesInPlace
  <2>1. Stride \in Int
    BY <1>1, <1>3 DEF Stride
  <2> QED BY <1>1, <1>2, <2>1 DEF LanesInPlace
<1>7. LanesFill
  <2>1. CASE phase = "parallel"
    <3>1. \A b \in 0 .. (size - 1) : ~Written(b)
      <4> SUFFICES ASSUME NEW b \in 0 .. (size - 1) PROVE ~Written(b)
        OBVIOUS
      <4>1. lanes \in Nat \ {0} /\ b \in Nat /\ 0 \in 0 .. (lanes - 1)
        BY <1>1, <1>3, <2>1
      <4>2. LaneOf(b) \in 0 .. (lanes - 1) /\ PartOf(b) \in Nat
        BY <4>1, PlaceFacts
      <4>3. LaneOf(b) \in Lanes
        BY <1>1, <1>3, <2>1, <4>2 DEF Lanes
      <4> QED BY <1>1, <4>2, <4>3 DEF Written
    <3>2. {b \in 0 .. (size - 1) : Written(b)} = {}
      BY <3>1
    <3> QED BY <1>1, <1>3, <2>1, <3>1, <3>2, FS_EmptySet DEF LanesFill
  <2>2. CASE phase = "sequential"
    BY <2>2 DEF LanesFill, WithLanes
  <2> QED BY <1>3, <2>1, <2>2
<1>8. FileBegins
  <2>1. NoFile = Beginning(0)
    BY DEF NoFile, Beginning
  <2> QED BY <1>1, <1>3, <2>1 DEF FileBegins
<1> QED BY <1>4, <1>5, <1>6, <1>7, <1>8 DEF FileInv

-----------------------------------------------------------------------------
(* The steps of the lanes.                                                 *)

\* A lane that receives: the parallel download is under way.
LEMMA ReceivingFacts ==
  ASSUME FileInv, NEW i \in Lanes, pc[i] \in Receiving
  PROVE  /\ phase = "parallel" /\ lanes \in Nat \ {0} /\ i \in 0 .. (lanes - 1)
         /\ \A j \in 0 .. (lanes - 1) : j \in Lanes
         /\ ChunkSize \in Nat \ {0} /\ size \in Nat \ {0} /\ Stride \in Nat
         /\ Offset(i) \in Nat
<1>1. /\ phase = "parallel" /\ lanes \in Nat \ {0} /\ i < lanes
      /\ lanes <= MaxConnections /\ MaxConnections \in Nat /\ i \in Nat
      /\ ChunkSize \in Nat \ {0} /\ size \in Nat \ {0}
  BY DownloadAssumption DEF FileInv, TypeOK, LanesAtWork, Receiving, WithLanes,
     Lanes
<1>2. Stride \in Nat /\ Offset(i) \in Nat
  BY <1>1 DEF Stride, Offset
<1> QED BY <1>1, <1>2 DEF Lanes

LEMMA ReceiveKeeps ==
  ASSUME FileInv, NEW i \in Lanes, Receive(i)
  PROVE  FileInv'
<1> DEFINE k == got[i]
           from == Offset(i) + k * Stride
           length == Smaller(ChunkSize, size - from)
           R == from .. (from + length - 1)
           D == 0 .. (size - 1)
           W == {b \in D : Written(b)}
           V == {b \in D : PartOf(b) < got'[LaneOf(b)]}
<1>1. /\ phase = "parallel" /\ lanes \in Nat \ {0} /\ i \in 0 .. (lanes - 1)
      /\ \A j \in 0 .. (lanes - 1) : j \in Lanes
      /\ ChunkSize \in Nat \ {0} /\ size \in Nat \ {0} /\ Stride \in Nat
      /\ Offset(i) \in Nat
  BY ReceivingFacts DEF Receive, Receiving
<1>2. /\ k \in Nat /\ k < PartsOf(i) /\ position[i] = from
      /\ got \in [Lanes -> Nat] /\ position \in [Lanes -> Nat]
      /\ got' = [got EXCEPT ![i] = k + 1]
      /\ position' = [position EXCEPT ![i] = from + Stride]
      /\ UNCHANGED <<size, lanes, phase, pc, gap>>
  BY DEF Receive, FileInv, TypeOK, LanesInPlace, input
<1>3. from \in Nat /\ from < size
  <2>1. k * Stride \in Nat
    BY <1>1, <1>2
  <2> QED BY <1>1, <1>2, <2>1, PartFacts DEF FileInv
<1>4. length \in Nat \ {0} /\ length <= ChunkSize /\ from + length <= size
  BY <1>1, <1>3 DEF Smaller
<1>5. /\ file = [b \in D |-> IF Written(b) THEN b ELSE Hole]
      /\ transferred = Cardinality(W)
  BY <1>1 DEF FileInv, LanesFill, WithLanes
<1>6. /\ file' = [b \in DOMAIN file \cup R |->
                   IF b \in R THEN from + (b - from) ELSE file[b]]
      /\ transferred' = transferred + length
  BY <1>2 DEF Receive
<1>7. \A b \in D : /\ LaneOf(b) \in 0 .. (lanes - 1) /\ PartOf(b) \in Nat
                   /\ b \in R <=> LaneOf(b) = i /\ PartOf(b) = k
  <2> SUFFICES ASSUME NEW b \in D
               PROVE  /\ LaneOf(b) \in 0 .. (lanes - 1) /\ PartOf(b) \in Nat
                      /\ b \in R <=> LaneOf(b) = i /\ PartOf(b) = k
    OBVIOUS
  <2>1. b \in Nat /\ b <= size - 1
    BY <1>1
  <2>2. /\ LaneOf(b) \in 0 .. (lanes - 1) /\ PartOf(b) \in Nat
        /\ (LaneOf(b) = i /\ PartOf(b) = k) <=>
             (from <= b /\ b <= from + ChunkSize - 1)
    BY <1>1, <1>2, <2>1, PlaceFacts
  <2>3. b \in R <=> from <= b /\ b <= from + ChunkSize - 1
    <3> HIDE DEF from
    <3> QED BY <1>1, <1>3, <2>1 DEF Smaller
  <2> QED BY <2>2, <2>3
<1>8. R \subseteq D
  BY <1>1, <1>3, <1>4
<1>9. ASSUME NEW b \in D
      PROVE  /\ b \in R => ~Written(b)
             /\ PartOf(b) < got'[LaneOf(b)] <=> Written(b) \/ b \in R
  <2>1. LaneOf(b) \in Lanes /\ PartOf(b) \in Nat
    BY <1>1, <1>7
  <2>2. CASE LaneOf(b) = i
    <3>1. got'[LaneOf(b)] = k + 1 /\ got[LaneOf(b)] = k
      BY <1>2, <2>1, <2>2
    <3>2. b \in R <=> PartOf(b) = k
      BY <1>7, <2>2
    <3> HIDE DEF k, R
    <3> QED BY <1>2, <2>1, <3>1, <3>2 DEF Written
  <2>3. CASE LaneOf(b) # i
    <3>1. got'[LaneOf(b)] = got[LaneOf(b)] /\ b \notin R
      BY <1>2, <1>7, <2>1, <2>3
    <3> QED BY <3>1 DEF Written
  <2> QED BY <2>2, <2>3
<1> HIDE DEF from, length, k, R
<1>10. V = W \cup R /\ W \cap R = {}
  BY <1>8, <1>9
<1>11. file' = [b \in D |-> IF PartOf(b) < got'[LaneOf(b)] THEN b ELSE Hole]
  <2>1. DOMAIN file = D
    BY <1>5
  <2>2. DOMAIN file \cup R = D
    BY <2>1, <1>8
  <2>3. file' = [b \in D |-> IF b \in R THEN from + (b - from) ELSE file[b]]
    BY <1>6, <2>2
  <2>4. ASSUME NEW b \in D
        PROVE  file'[b] = IF PartOf(b) < got'[LaneOf(b)] THEN b ELSE Hole
    <3>1. CASE b \in R
      <4>1. file'[b] = from + (b - from)
        BY <2>3, <3>1
      <4>2. b \in Int
        BY <1>1
      <4> QED BY <1>3, <1>9, <3>1, <4>1, <4>2
    <3>2. CASE b \notin R
      BY <1>5, <1>9, <2>3, <3>2
    <3> QED BY <3>1, <3>2
  <2> QED BY <2>3, <2>4
<1>12. /\ Cardinality(V) = transferred' /\ transferred' \in 0 .. size
  <2>1. IsFiniteSet(D) /\ Cardinality(D) = size
    <3>1. size - 1 \in Int /\ 0 \in Int
      BY <1>1
    <3>2. /\ IsFiniteSet(0 .. (size - 1))
          /\ Cardinality(0 .. (size - 1)) =
               IF 0 > size - 1 THEN 0 ELSE (size - 1) - 0 + 1
      BY <3>1, FS_Interval
    <3> QED BY <1>1, <3>2
  <2>2. IsFiniteSet(R) /\ Cardinality(R) = length
    <3>1. from \in Int /\ from + length - 1 \in Int
      BY <1>3, <1>4
    <3>2. /\ IsFiniteSet(from .. (from + length - 1))
          /\ Cardinality(from .. (from + length - 1)) =
               IF from > from + length - 1 THEN 0
               ELSE (from + length - 1) - from + 1
      BY <3>1, FS_Interval
    <3> QED BY <1>3, <1>4, <3>2 DEF R
  <2>3. IsFiniteSet(W) /\ Cardinality(W) \in Nat
    BY <2>1, FS_Subset, FS_CardinalityType
  <2>4. Cardinality(W \cap R) = 0
    BY <1>10, FS_EmptySet
  <2>5. Cardinality(W \cup R) = Cardinality(W) + Cardinality(R) - Cardinality(W \cap R)
    BY <2>2, <2>3, FS_Union
  <2>6. V \subseteq D
    OBVIOUS
  <2>7. Cardinality(V) <= size
    BY <2>1, <2>6, FS_Subset
  <2> HIDE DEF V, W, D
  <2> QED BY <1>1, <1>4, <1>5, <1>6, <1>10, <2>2, <2>3, <2>4, <2>5, <2>7
<1>13. \A b : (Written(b))' <=> PartOf(b) < got'[LaneOf(b)]
  BY <1>2 DEF Written, PartOf, LaneOf
<1>14. LanesFill'
  <2>1. size' = size
    BY <1>2
  <2>2. {b \in 0 .. (size - 1) : (Written(b))'} = V
    BY <1>13
  <2>3. file' = [b \in 0 .. (size - 1) |-> IF (Written(b))' THEN b ELSE Hole]
    BY <1>11, <1>13
  <2> QED BY <1>12, <2>1, <2>2, <2>3 DEF LanesFill
<1>15. TypeOK'
  <2>1. got' \in [Lanes -> Nat] /\ position' \in [Lanes -> Nat]
    BY <1>1, <1>2, <1>3
  <2>2. /\ DOMAIN file' = D
        /\ \A b \in DOMAIN file' : file'[b] \in D \cup {Hole}
    BY <1>11
  <2> QED BY <1>2, <1>12, <2>1, <2>2 DEF FileInv, TypeOK
<1>16. LanesAtWork' /\ RestartsAlone'
  BY <1>1, <1>2 DEF FileInv, LanesAtWork, RestartsAlone, LanesAreOver
<1>17. LanesInPlace'
  <2> SUFFICES ASSUME NEW j \in Lanes
               PROVE  /\ position'[j] = Offset(j) + got'[j] * Stride
                      /\ (phase = "parallel" /\ pc[j] = "ended" /\ ~gap) =>
                            got'[j] >= PartsOf(j)
    BY <1>2 DEF LanesInPlace, Stride, PartsOf
  <2>1. CASE j = i
    <3>1. position'[j] = from + Stride /\ got'[j] = k + 1
      BY <1>2, <2>1
    <3>2. (k + 1) * Stride = k * Stride + Stride /\ k * Stride \in Int
      BY <1>1, <1>2
    <3>3. pc[j] # "ended"
      BY <2>1 DEF Receive
    <3> QED BY <1>1, <2>1, <3>1, <3>2, <3>3 DEF from
  <2>2. CASE j # i
    BY <1>2, <2>2 DEF FileInv, LanesInPlace
  <2> QED BY <2>1, <2>2
<1>18. FileBegins'
  BY <1>1, <1>2 DEF FileBegins
<1> QED BY <1>14, <1>15, <1>16, <1>17, <1>18 DEF FileInv

\* A lane that ends, fails or stalls.
LEMMA LaneStopsKeeps ==
  ASSUME FileInv, NEW i \in Lanes,
         LaneEnds(i) \/ LaneFails(i) \/ LaneStalls(i) \/ LaneTimesOut(i)
  PROVE  FileInv'
<1>1. /\ phase = "parallel" /\ lanes \in Nat \ {0} /\ i \in 0 .. (lanes - 1)
      /\ pc[i] \in Receiving
  BY ReceivingFacts DEF LaneEnds, LaneFails, LaneStalls, LaneTimesOut, Receiving
<1>2. UNCHANGED <<size, lanes, file, phase, got, position, transferred>>
  BY DEF LaneEnds, LaneFails, LaneStalls, LaneTimesOut, input
<1>3. PICK s \in {"ended", "failed", "stalled"} :
        /\ pc' = [pc EXCEPT ![i] = s]
        /\ ~gap' => ~gap /\ ~(s = "ended" /\ got[i] < PartsOf(i))
        /\ gap' \in BOOLEAN
  <2>1. gap \in BOOLEAN
    BY DEF FileInv, TypeOK
  <2>2. CASE LaneEnds(i)
    BY <2>1, <2>2 DEF LaneEnds
  <2>3. CASE LaneFails(i) \/ LaneStalls(i) \/ LaneTimesOut(i)
    BY <2>1, <2>3 DEF LaneFails, LaneStalls, LaneTimesOut
  <2> QED BY <2>2, <2>3
<1>4. TypeOK'
  BY <1>2, <1>3 DEF FileInv, TypeOK, Receiving, Over
<1>5. LanesAtWork' /\ RestartsAlone'
  BY <1>1, <1>2, <1>3 DEF FileInv, TypeOK, LanesAtWork, RestartsAlone, Receiving
<1>6. LanesInPlace'
  <2> SUFFICES ASSUME NEW j \in Lanes
               PROVE  /\ position[j] = Offset(j) + got[j] * Stride
                      /\ pc'[j] = "ended" /\ ~gap' => got[j] >= PartsOf(j)
    BY <1>2 DEF LanesInPlace, Stride, PartsOf
  <2>1. position[j] = Offset(j) + got[j] * Stride
    BY DEF FileInv, LanesInPlace
  <2>2. ASSUME pc'[j] = "ended", ~gap'
        PROVE  got[j] >= PartsOf(j)
    <3>1. CASE j = i
      <4>1. s = "ended"
        BY <1>3, <2>2, <3>1 DEF FileInv, TypeOK
      <4>2. got[i] \in Int /\ PartsOf(i) \in Int
        BY <1>1, PartFacts DEF FileInv, TypeOK
      <4> QED BY <1>3, <2>2, <3>1, <4>1, <4>2
    <3>2. CASE j # i
      <4>1. pc[j] = "ended"
        BY <1>3, <2>2, <3>2 DEF FileInv, TypeOK
      <4> QED BY <1>1, <1>3, <2>2, <4>1 DEF FileInv, LanesInPlace
    <3> QED BY <3>1, <3>2
  <2> QED BY <2>1, <2>2
<1>7. LanesFill'
  BY <1>2 DEF FileInv, LanesFill, Written, LaneOf, PartOf
<1>8. FileBegins'
  BY <1>1, <1>2 DEF FileBegins
<1> QED BY <1>4, <1>5, <1>6, <1>7, <1>8 DEF FileInv

\* A cancelled lane ends.
LEMMA LaneClosesKeeps ==
  ASSUME FileInv, NEW i \in Lanes, LaneCloses(i)
  PROVE  FileInv'
<1>1. /\ pc[i] = "closing" /\ pc' = [pc EXCEPT ![i] = "ended"]
      /\ UNCHANGED <<size, lanes, file, phase, got, position, transferred, gap>>
  BY DEF LaneCloses, input
<1>2. phase # "parallel"
  BY <1>1 DEF FileInv, LanesAtWork
<1>3. TypeOK' /\ LanesAtWork' /\ RestartsAlone'
  BY <1>1, <1>2 DEF FileInv, TypeOK, LanesAtWork, RestartsAlone, LanesAreOver,
     Receiving, Over
<1>4. LanesInPlace'
  BY <1>1, <1>2 DEF FileInv, LanesInPlace, Stride
<1>5. LanesFill' /\ FileBegins'
  BY <1>1 DEF FileInv, LanesFill, Written, LaneOf, PartOf, FileBegins
<1> QED BY <1>3, <1>4, <1>5 DEF FileInv

-----------------------------------------------------------------------------
(* The steps of the waiting task.                                          *)

\* Lanes that have all ended by themselves have filled the file.
LEMMA FilledFacts ==
  ASSUME FileInv, phase = "parallel", ~gap, LanesAreOver,
         \A i \in Lanes : pc[i] # "failed"
  PROVE  file = Beginning(size)
<1>1. /\ lanes \in Nat \ {0} /\ size \in Nat \ {0}
      /\ \A j \in 0 .. (lanes - 1) : j \in Lanes
  BY DownloadAssumption DEF FileInv, TypeOK, LanesAtWork, WithLanes, Lanes
<1>2. \A b \in 0 .. (size - 1) : Written(b)
  <2> SUFFICES ASSUME NEW b \in 0 .. (size - 1) PROVE Written(b)
    OBVIOUS
  <2> DEFINE i == LaneOf(b)
             k == PartOf(b)
  <2>1. b \in Nat /\ b < size /\ 0 \in 0 .. (lanes - 1)
    BY <1>1
  <2>2. i \in 0 .. (lanes - 1) /\ k \in Nat
    BY <1>1, <2>1, PlaceFacts
  <2> HIDE DEF i, k
  <2>3. i \in Lanes /\ i < lanes
    BY <1>1, <2>2
  <2>4. Offset(i) + k * Stride <= b /\ Offset(i) + k * Stride \in Int
    <3>1. Offset(i) + k * Stride <= b
      BY <1>1, <2>1, <2>2, PlaceFacts DEF i, k
    <3>2. Stride \in Int /\ Offset(i) \in Int
      BY <1>1, <2>2, DownloadAssumption DEF Stride, Offset
    <3>3. k * Stride \in Int
      BY <2>2, <3>2
    <3> QED BY <3>1, <3>2, <3>3
  <2>5. k < PartsOf(i) /\ PartsOf(i) \in Int
    <3>1. Offset(i) + k * Stride < size
      BY <1>1, <2>1, <2>4
    <3> QED BY <1>1, <2>2, <2>3, <3>1, PartFacts DEF FileInv
  <2>6. pc[i] = "ended"
    BY <2>3 DEF FileInv, LanesAtWork, LanesAreOver, Over
  <2>7. got[i] >= PartsOf(i) /\ got[i] \in Int
    BY <2>3, <2>6 DEF FileInv, TypeOK, LanesInPlace
  <2> QED BY <2>2, <2>5, <2>7 DEF Written, i, k
<1> QED BY <1>2 DEF FileInv, LanesFill, WithLanes, Beginning

\* A phase that begins without a lane at work, and what it must say of the file.
LEMMA PhaseKeeps ==
  ASSUME FileInv, UNCHANGED <<size, lanes, file, got, position, transferred, gap>>,
         phase' \in {"check", "downloaded", "failed", "cancelled"},
         UNCHANGED pc, \A i \in Lanes : pc[i] \notin Receiving,
         phase' # "cancelled" => LanesAreOver, FileBegins'
  PROVE  FileInv'
<1>1. TypeOK' /\ LanesAtWork' /\ RestartsAlone'
  BY DEF FileInv, TypeOK, LanesAtWork, RestartsAlone, LanesAreOver, WithLanes
<1>2. LanesInPlace' /\ LanesFill'
  BY DEF FileInv, LanesInPlace, LanesFill, WithLanes, Stride
<1> QED BY <1>1, <1>2 DEF FileInv

LEMMA AllReceivedKeeps ==
  ASSUME FileInv, AllReceived
  PROVE  FileInv'
<1>1. /\ phase = "parallel" /\ LanesAreOver /\ \A i \in Lanes : pc[i] # "failed"
      /\ phase' = "check"
      /\ UNCHANGED <<size, lanes, file, pc, got, position, transferred, gap>>
  BY DEF AllReceived, input
<1>2. size \in 0 .. size
  BY DownloadAssumption DEF FileInv, TypeOK
<1>3. FileBegins'
  BY <1>1, <1>2, FilledFacts DEF FileBegins, Beginning
<1>4. \A i \in Lanes : pc[i] \notin Receiving
  BY <1>1 DEF LanesAreOver, Over, Receiving
<1> QED BY <1>1, <1>3, <1>4, PhaseKeeps

\* Lanes are cancelled: none receives any more.
LEMMA CancelLanesKeeps ==
  ASSUME FileInv, phase = "parallel", CancelLanes,
         phase' \in {"cancelling", "aborting"},
         UNCHANGED <<size, lanes, file, got, position, transferred, gap>>
  PROVE  FileInv'
<1>1. pc' = [i \in Lanes |-> IF pc[i] \in Receiving THEN "closing" ELSE pc[i]]
  BY DEF CancelLanes
<1>2. TypeOK' /\ LanesAtWork' /\ RestartsAlone'
  BY <1>1 DEF FileInv, TypeOK, LanesAtWork, RestartsAlone, Receiving, Over,
     WithLanes
<1>3. LanesInPlace'
  BY DEF FileInv, LanesInPlace, Stride
<1>4. LanesFill' /\ FileBegins'
  BY DEF FileInv, LanesFill, WithLanes, Written, LaneOf, PartOf, FileBegins
<1> QED BY <1>2, <1>3, <1>4 DEF FileInv

LEMMA FallBackKeeps ==
  ASSUME FileInv, FallBack
  PROVE  FileInv'
<1>1. /\ phase = "cancelling" /\ LanesAreOver /\ phase' = "sequential"
      /\ file' = NoFile
      /\ UNCHANGED <<size, lanes, pc, got, position, transferred, gap>>
  BY DEF FallBack, input
<1>2. NoFile = Beginning(0) /\ DOMAIN NoFile = {}
  BY DEF NoFile, Beginning
<1>3. TypeOK'
  BY <1>1, <1>2 DEF FileInv, TypeOK
<1>4. LanesAtWork' /\ RestartsAlone'
  BY <1>1 DEF FileInv, LanesAtWork, RestartsAlone, LanesAreOver, WithLanes
<1>5. LanesInPlace' /\ LanesFill'
  BY <1>1 DEF FileInv, LanesInPlace, LanesFill, WithLanes, Stride
<1>6. 0 \in 0 .. size
  BY DownloadAssumption DEF FileInv, TypeOK
<1>7. FileBegins'
  BY <1>1, <1>2, <1>6 DEF FileBegins, Beginning
<1> QED BY <1>3, <1>4, <1>5, <1>7 DEF FileInv

LEMMA CancelKeeps ==
  ASSUME FileInv, Cancel
  PROVE  FileInv'
<1>1. UNCHANGED <<size, lanes, file, got, position, transferred, gap>>
  BY DEF Cancel, input
<1>2. CASE phase = "parallel"
  BY <1>1, <1>2, CancelLanesKeeps DEF Cancel
<1>3. CASE phase # "parallel"
  <2>1. phase' = "cancelled" /\ UNCHANGED pc
    BY <1>3 DEF Cancel
  <2>2. \A i \in Lanes : pc[i] \notin Receiving
    BY <1>3 DEF FileInv, LanesAtWork
  <2> QED BY <1>1, <2>1, <2>2, PhaseKeeps DEF FileBegins
<1> QED BY <1>2, <1>3

LEMMA AbortedKeeps ==
  ASSUME FileInv, Aborted
  PROVE  FileInv'
<1>1. /\ phase' = "cancelled" /\ phase # "parallel"
      /\ UNCHANGED <<size, lanes, file, pc, got, position, transferred, gap>>
  BY DEF Aborted, input
<1>2. \A i \in Lanes : pc[i] \notin Receiving
  BY <1>1 DEF FileInv, LanesAtWork
<1> QED BY <1>1, <1>2, PhaseKeeps DEF FileBegins

-----------------------------------------------------------------------------
(* The sequential download and the check of the size.                      *)

LEMMA ReceiveNextKeeps ==
  ASSUME FileInv, ReceiveNext
  PROVE  FileInv'
<1>1. PICK n \in 0 .. size : file = Beginning(n)
  BY DEF FileInv, FileBegins, ReceiveNext
<1>2. /\ size \in Nat \ {0} /\ n \in Nat /\ n <= size /\ ChunkSize \in Nat \ {0}
  BY <1>1, DownloadAssumption DEF FileInv, TypeOK
<1>3. Cardinality(DOMAIN file) = n
  BY <1>1, <1>2, BeginningFacts
<1> DEFINE m == Smaller(n + ChunkSize, size)
<1>4. /\ phase = "sequential" /\ n < size
      /\ file' = Beginning(m) /\ transferred' = m
      /\ UNCHANGED <<size, lanes, phase, pc, got, position, gap>>
  BY <1>3 DEF ReceiveNext, Beginning, input
<1>5. m \in 0 .. size
  BY <1>2 DEF Smaller
<1> HIDE DEF m
<1>6. TypeOK'
  <2>1. m \in Nat /\ 0 .. (m - 1) \subseteq 0 .. (size - 1)
    BY <1>2, <1>5
  <2>2. DOMAIN file' = 0 .. (m - 1) /\ \A b \in 0 .. (m - 1) : file'[b] = b
    BY <1>4, <2>1, BeginningFacts
  <2> QED BY <1>4, <1>5, <2>1, <2>2 DEF FileInv, TypeOK
<1>7. LanesAtWork' /\ RestartsAlone'
  BY <1>4 DEF FileInv, LanesAtWork, RestartsAlone, LanesAreOver
<1>8. LanesInPlace' /\ LanesFill'
  BY <1>4 DEF FileInv, LanesInPlace, LanesFill, WithLanes, Stride
<1>9. FileBegins'
  BY <1>4, <1>5 DEF FileBegins, Beginning
<1> QED BY <1>6, <1>7, <1>8, <1>9 DEF FileInv

LEMMA SequentialEndsKeeps ==
  ASSUME FileInv, SequentialEnds
  PROVE  FileInv'
<1>1. /\ phase = "sequential" /\ phase' \in {"check", "failed"}
      /\ UNCHANGED <<size, lanes, file, pc, got, position, transferred, gap>>
  BY DEF SequentialEnds, input
<1>2. LanesAreOver /\ \A i \in Lanes : pc[i] \notin Receiving
  BY <1>1 DEF FileInv, RestartsAlone, LanesAtWork
<1>3. FileBegins'
  BY <1>1 DEF FileInv, FileBegins, Beginning
<1> QED BY <1>1, <1>2, <1>3, PhaseKeeps

LEMMA CheckSizeKeeps ==
  ASSUME FileInv, CheckSize
  PROVE  FileInv'
<1>1. /\ phase = "check" /\ phase' \in {"downloaded", "failed"}
      /\ phase' = "downloaded" => Cardinality(DOMAIN file) = size
      /\ UNCHANGED <<size, lanes, file, pc, got, position, transferred, gap>>
  BY DEF CheckSize, input
<1>2. LanesAreOver /\ \A i \in Lanes : pc[i] \notin Receiving
  BY <1>1 DEF FileInv, RestartsAlone, LanesAtWork
<1>3. ASSUME phase' = "downloaded", ~gap
      PROVE  file = Beginning(size) /\ size \in 0 .. size
  <2>1. PICK n \in 0 .. size : file = Beginning(n)
    BY <1>1, <1>3 DEF FileInv, FileBegins
  <2>2. n \in Nat /\ size \in Nat
    BY <2>1, DownloadAssumption DEF FileInv, TypeOK
  <2>3. Cardinality(DOMAIN file) = n
    BY <2>1, <2>2, BeginningFacts
  <2> QED BY <1>1, <1>3, <2>1, <2>2, <2>3
<1>4. FileBegins'
  BY <1>1, <1>3 DEF FileBegins, Beginning
<1> QED BY <1>1, <1>2, <1>4, PhaseKeeps

-----------------------------------------------------------------------------
(* The inductive step and the theorems.                                    *)

LEMMA FileStep == ASSUME FileInv, [Next]_vars PROVE FileInv'
<1>1. ASSUME NEW i \in Lanes, Lane(i)
      PROVE  FileInv'
  BY <1>1, ReceiveKeeps, LaneStopsKeeps, LaneClosesKeeps DEF Lane
<1>2. CASE FailureSeen
  BY <1>2, CancelLanesKeeps DEF FailureSeen, input
<1>3. CASE Wait \/ Cancel
  BY <1>2, <1>3, AllReceivedKeeps, FallBackKeeps, AbortedKeeps, CancelKeeps
     DEF Wait
<1>4. CASE ReceiveNext \/ SequentialEnds \/ CheckSize
  BY <1>4, ReceiveNextKeeps, SequentialEndsKeeps, CheckSizeKeeps
<1>5. CASE UNCHANGED vars
  <2>1. UNCHANGED <<size, lanes, file, phase, pc, got, position, transferred, gap>>
    BY <1>5 DEF vars, input
  <2>2. TypeOK' /\ LanesAtWork' /\ RestartsAlone'
    BY <2>1 DEF FileInv, TypeOK, LanesAtWork, RestartsAlone, LanesAreOver
  <2>3. LanesInPlace' /\ LanesFill' /\ FileBegins'
    BY <2>1 DEF FileInv, LanesInPlace, LanesFill, FileBegins, Stride, Written,
       LaneOf, PartOf, PartsOf, Beginning
  <2> QED BY <2>2, <2>3 DEF FileInv
<1> QED BY <1>1, <1>3, <1>4, <1>5 DEF Next

\* FileInv, which says what the lanes have written and what any other file
\* holds (dispatcher.py:371), holds in every reachable state.
THEOREM FileInvariant == Spec => []FileInv
<1>1. FileInv /\ [Next]_vars => FileInv'
  BY FileStep
<1> QED BY <1>1, FileInit, PTL DEF Spec

\* Lanes, file and progress of a download are well typed; the progress never
\* reports more than the size.
THEOREM TypeCorrect == Spec => []TypeOK
<1>1. FileInv => TypeOK
  BY DEF FileInv
<1> QED BY <1>1, FileInvariant, PTL

\* A file is downloaded anew, checked or uploaded only after the last lane has
\* ended, for any number of lanes and whatever fails or is cancelled.
THEOREM NoLaneIsLeft == Spec => []RestartsAlone
<1>1. FileInv => RestartsAlone
  BY DEF FileInv
<1> QED BY <1>1, FileInvariant, PTL

\* For every size, chunk and number of lanes, a file that passes the check of
\* its size (dispatcher.py:207) has every byte in its place, unless Telegram
\* ended a lane early.
THEOREM DownloadsAreWhole == Spec => []DownloadedIsWhole
<1>1. ASSUME FileInv PROVE DownloadedIsWhole
  <2>1. ASSUME phase = "downloaded", ~gap
        PROVE  /\ DOMAIN file = 0 .. (size - 1)
               /\ \A b \in DOMAIN file : file[b] = b
    <3>1. file = Beginning(size) /\ size \in Nat
      BY <1>1, <2>1, DownloadAssumption DEF FileInv, TypeOK, FileBegins
    <3> QED BY <3>1, BeginningFacts
  <2> QED BY <2>1 DEF DownloadedIsWhole
<1> QED BY <1>1, FileInvariant, PTL

\* No byte is written by two lanes, so that the progress told to the user is
\* what the file holds.
THEOREM ProgressIsTrue == Spec => []ProgressIsExact
<1>1. ASSUME FileInv PROVE ProgressIsExact
  <2>1. ASSUME phase \in WithLanes
        PROVE  transferred = Cardinality({b \in DOMAIN file : file[b] # Hole})
    <3>1. /\ file = [b \in 0 .. (size - 1) |-> IF Written(b) THEN b ELSE Hole]
          /\ transferred = Cardinality({b \in 0 .. (size - 1) : Written(b)})
      BY <1>1, <2>1 DEF FileInv, LanesFill
    <3>2. \A b \in 0 .. (size - 1) : b # Hole
      BY <1>1, DownloadAssumption DEF FileInv, TypeOK
    <3>3. {b \in DOMAIN file : file[b] # Hole}
            = {b \in 0 .. (size - 1) : Written(b)}
      BY <3>1, <3>2
    <3> QED BY <3>1, <3>3
  <2> QED BY <2>1 DEF ProgressIsExact, WithLanes
<1> QED BY <1>1, FileInvariant, PTL

=============================================================================
