-------------------------- MODULE RecordingsProofs --------------------------
(***************************************************************************)
(* Proofs about Recordings: types, the rows without a video, the sidecars, *)
(* protected videos, and purges that take the oldest and no more than they *)
(* must.  The inductive invariant RecordingsInv says what a purge may      *)
(* trust while it works off the answer of a query that grows old:          *)
(*   Selected     what it still has to look at was there, and unprotected  *)
(*                unless somebody protected it since;                      *)
(*   SeenGone, GhostsExplained   between the files and the row;            *)
(*   InSequence, OldestFirst     the list is in order, and no older video  *)
(*                of the same camera is missing from it;                   *)
(*   QuotaTrue    the running total is at most what the index knows to be  *)
(*                on disk of the camera (Known), which is at most what     *)
(*                there is (MemoTrue), and no other entry is about it.     *)
(* The last three speak of runs in which nothing failed.                   *)
(***************************************************************************)
EXTENDS Recordings, FiniteSetTheorems, TLAPS

-----------------------------------------------------------------------------
(* Sorting and counting *)

\* Every finite set of numbers can be sorted: by the ranks of its elements.
LEMMA RankExists ==
    ASSUME NEW S \in SUBSET Nat, IsFiniteSet(S)
    PROVE  \E q \in [1 .. Cardinality(S) -> S] : \A i, j \in DOMAIN q : i < j => q[i] < q[j]
<1> DEFINE n == Cardinality(S)
           Below(s) == {r \in S : r <= s}
           rank == [s \in S |-> Cardinality(Below(s))]
<1>1. n \in Nat
  BY FS_CardinalityType
<1>2. \A s \in S : IsFiniteSet(Below(s)) /\ Cardinality(Below(s)) \in 1 .. n
  <2> TAKE s \in S
  <2>1. Below(s) \in SUBSET S /\ s \in Below(s)
    OBVIOUS
  <2>2. IsFiniteSet(Below(s)) /\ Cardinality(Below(s)) <= n
    BY <2>1, FS_Subset
  <2>3. Cardinality(Below(s)) \in Nat
    BY <2>2, FS_CardinalityType
  <2>4. Cardinality(Below(s)) # 0
    BY <2>1, <2>2, FS_EmptySet
  <2> HIDE DEF n, Below
  <2> QED
    BY <1>1, <2>2, <2>3, <2>4
<1>3. ASSUME NEW r \in S, NEW s \in S, r < s
      PROVE  rank[r] < rank[s]
  <2>0. r \in Nat /\ s \in Nat /\ r < s
    BY <1>3
  <2>1. Below(r) \in SUBSET Below(s) /\ s \in Below(s) /\ s \notin Below(r)
    <3>1. \A x \in S : x <= r => x <= s
      BY <2>0
    <3>2. s <= s /\ ~(s <= r)
      BY <2>0
    <3> QED
      BY <3>1, <3>2
  <2>2. Cardinality(Below(r)) <= Cardinality(Below(s)) /\ Cardinality(Below(r)) # Cardinality(Below(s))
    <3> HIDE DEF Below
    <3>1. IsFiniteSet(Below(s))
      BY <1>2
    <3> QED
      BY <2>1, <3>1, FS_Subset
  <2>3. Cardinality(Below(r)) \in Int /\ Cardinality(Below(s)) \in Int
    BY <1>1, <1>2
  <2> QED
    BY <2>2, <2>3
<1>4. rank \in [S -> 1 .. n]
  BY <1>2
<1> HIDE DEF rank
<1>5. rank \in Injection(S, 1 .. n)
  <2>1. \A r, s \in S : rank[r] = rank[s] => r = s
    <3> SUFFICES ASSUME NEW r \in S, NEW s \in S, rank[r] = rank[s], r # s
                 PROVE  FALSE
      OBVIOUS
    <3>1. rank[r] \in Int /\ rank[s] \in Int
      BY <1>1, <1>4
    <3>2. r < s \/ s < r
      OBVIOUS
    <3> QED
      BY <1>3, <3>1, <3>2
  <2> QED
    BY <1>4, <2>1 DEF Injection, IsInjective
<1>6. IsFiniteSet(1 .. n) /\ Cardinality(1 .. n) = n
  <2>1. IsFiniteSet(1 .. n) /\ Cardinality(1 .. n) = IF 1 > n THEN 0 ELSE n - 1 + 1
    BY <1>1, FS_Interval
  <2> QED
    BY <1>1, <2>1
<1>7. rank \in Surjection(S, 1 .. n)
  BY <1>5, <1>6, FS_Injection
<1>8. \A i \in 1 .. n : \E s \in S : rank[s] = i
  BY <1>7 DEF Surjection
<1> DEFINE q == [i \in 1 .. n |-> CHOOSE s \in S : rank[s] = i]
<1>9. \A i \in 1 .. n : q[i] \in S /\ rank[q[i]] = i
  BY <1>8
<1>10. q \in [1 .. n -> S]
  BY <1>9
<1> HIDE DEF q
<1>11. \A i, j \in 1 .. n : i < j => q[i] < q[j]
  <2> SUFFICES ASSUME NEW i \in 1 .. n, NEW j \in 1 .. n, i < j, ~(q[i] < q[j])
               PROVE  FALSE
    OBVIOUS
  <2>1. q[i] \in S /\ q[j] \in S /\ rank[q[i]] = i /\ rank[q[j]] = j
    BY <1>9
  <2>2. PICK x \in S, y \in S : x = q[i] /\ y = q[j]
    BY <2>1
  <2>3. rank[x] = i /\ rank[y] = j /\ ~(x < y) /\ x \in Nat /\ y \in Nat
    BY <2>1, <2>2
  <2>4. y < x \/ x = y
    BY <2>3
  <2>5. i \in Int /\ j \in Int
    BY <1>1
  <2>6. ASSUME y < x PROVE FALSE
    <3>1. rank[y] < rank[x]
      BY <1>3, <2>6
    <3> QED
      BY <2>3, <2>5, <3>1
  <2> QED
    BY <2>3, <2>4, <2>5, <2>6
<1>12. \A i, j \in DOMAIN q : i < j => q[i] < q[j]
  BY <1>10, <1>11
<1> QED
  BY <1>10, <1>12 DEF n

\* Sorted(S) is in order and leaves nothing out, for as many places hold as many elements.
LEMMA SortedIs ==
    ASSUME NEW S \in SUBSET Nat, IsFiniteSet(S)
    PROVE  /\ Cardinality(S) \in Nat
           /\ Sorted(S) \in [1 .. Cardinality(S) -> S]
           /\ \A i, j \in 1 .. Cardinality(S) : i < j => Sorted(S)[i] < Sorted(S)[j]
           /\ \A s \in S : \E i \in 1 .. Cardinality(S) : Sorted(S)[i] = s
<1> DEFINE n == Cardinality(S)
           Right(q) == \A i, j \in DOMAIN q : i < j => q[i] < q[j]
<1>1. n \in Nat
  BY FS_CardinalityType
<1>2. Sorted(S) \in [1 .. n -> S] /\ Right(Sorted(S))
  <2>1. \E q \in [1 .. n -> S] : Right(q)
    BY RankExists
  <2>2. Sorted(S) = CHOOSE q \in [1 .. n -> S] : Right(q)
    BY DEF Sorted
  <2> HIDE DEF n, Right
  <2> QED
    BY <2>1, <2>2
<1> DEFINE q == Sorted(S)
<1>3. q \in [1 .. n -> S] /\ \A i, j \in 1 .. n : i < j => q[i] < q[j]
  BY <1>2
<1> HIDE DEF q, n
<1>4. q \in Injection(1 .. n, S)
  <2>1. \A i, j \in 1 .. n : q[i] = q[j] => i = j
    <3> SUFFICES ASSUME NEW i \in 1 .. n, NEW j \in 1 .. n, q[i] = q[j], i # j
                 PROVE  FALSE
      OBVIOUS
    <3>1. i < j \/ j < i
      BY <1>1
    <3>2. q[i] \in Nat
      BY <1>3
    <3> QED
      BY <1>3, <3>1, <3>2
  <2> QED
    BY <1>3, <2>1 DEF Injection, IsInjective
<1>5. IsFiniteSet(1 .. n) /\ Cardinality(1 .. n) = n
  <2>1. IsFiniteSet(1 .. n) /\ Cardinality(1 .. n) = IF 1 > n THEN 0 ELSE n - 1 + 1
    BY <1>1, FS_Interval
  <2> QED
    BY <1>1, <2>1
<1>6. q \in Surjection(1 .. n, S)
  <2>1. Cardinality(1 .. n) = Cardinality(S)
    BY <1>5 DEF n
  <2> QED
    BY <1>4, <2>1, FS_Injection
<1> QED
  BY <1>1, <1>3, <1>6 DEF Surjection, q, n

LEMMA SegsFinite ==
    ASSUME NEW S \in SUBSET Segs
    PROVE  S \in SUBSET Nat /\ IsFiniteSet(S)
BY FS_Subset, RecordingsAssumption

\* Sets of units are finite, and a subset counts no more.
LEMMA Units ==
    ASSUME NEW T \in SUBSET (Segs \X (1 .. Full))
    PROVE  /\ IsFiniteSet(T)
           /\ Cardinality(T) \in Nat
           /\ \A U \in SUBSET T : Cardinality(U) \in Nat /\ Cardinality(U) <= Cardinality(T)
<1>1. IsFiniteSet(Segs) /\ Full \in Int /\ 1 \in Int
  BY RecordingsAssumption
<1>2. IsFiniteSet(1 .. Full)
  BY <1>1, FS_Interval
<1>3. IsFiniteSet(Segs \X (1 .. Full))
  BY <1>1, <1>2, FS_Product
<1>4. IsFiniteSet(T)
  BY <1>3, FS_Subset
<1>5. Cardinality(T) \in Nat
  BY <1>4, FS_CardinalityType
<1>6. ASSUME NEW U \in SUBSET T
      PROVE  Cardinality(U) \in Nat /\ Cardinality(U) <= Cardinality(T)
  <2>1. IsFiniteSet(U) /\ Cardinality(U) <= Cardinality(T)
    BY <1>4, FS_Subset
  <2> QED
    BY <2>1, FS_CardinalityType
<1> QED
  BY <1>4, <1>5, <1>6

LEMMA UnitsOfOne ==
    ASSUME NEW s \in Segs, NEW k \in 0 .. Full
    PROVE  /\ {s} \X (1 .. k) \in SUBSET (Segs \X (1 .. Full))
           /\ Cardinality({s} \X (1 .. k)) = k
<1>1. k \in Int /\ 1 \in Int /\ Full \in Int /\ 0 <= k /\ k <= Full
  BY RecordingsAssumption
<1>2. IsFiniteSet(1 .. k) /\ Cardinality(1 .. k) = k
  <2>1. IsFiniteSet(1 .. k) /\ Cardinality(1 .. k) = IF 1 > k THEN 0 ELSE k - 1 + 1
    BY <1>1, FS_Interval
  <2> QED
    BY <1>1, <2>1
<1>3. IsFiniteSet({s}) /\ Cardinality({s}) = 1
  BY FS_Singleton
<1>4. Cardinality({s} \X (1 .. k)) = Cardinality({s}) * Cardinality(1 .. k)
  BY <1>2, <1>3, FS_Product
<1>5. 1 .. k \subseteq 1 .. Full
  BY <1>1
<1> QED
  BY <1>1, <1>2, <1>3, <1>4, <1>5

\* What a query returns.
LEMMA InOrderIs ==
    ASSUME NEW S \in SUBSET Segs
    PROVE  /\ Cardinality(S) \in Nat
           /\ DOMAIN InOrder(S) = 1 .. Cardinality(S)
           /\ \A i \in 1 .. Cardinality(S) :
                 \E s \in S : InOrder(S)[i] = [seg |-> s, size |-> row[s].bytes]
           /\ \A i, j \in 1 .. Cardinality(S) : i < j => InOrder(S)[i].seg < InOrder(S)[j].seg
           /\ \A s \in S : \E i \in 1 .. Cardinality(S) : InOrder(S)[i].seg = s
<1> DEFINE n == Cardinality(S)
           q == Sorted(S)
<1>1. S \in SUBSET Nat /\ IsFiniteSet(S)
  BY SegsFinite
<1>2. /\ n \in Nat
      /\ q \in [1 .. n -> S]
      /\ \A i, j \in 1 .. n : i < j => q[i] < q[j]
      /\ \A s \in S : \E i \in 1 .. n : q[i] = s
  BY <1>1, SortedIs
<1>3. InOrder(S) = [i \in 1 .. n |-> [seg |-> q[i], size |-> row[q[i]].bytes]]
  BY DEF InOrder
<1> HIDE DEF n, q
<1>4. \A i \in 1 .. n : InOrder(S)[i] = [seg |-> q[i], size |-> row[q[i]].bytes] /\ q[i] \in S
  BY <1>2, <1>3
<1>5. DOMAIN InOrder(S) = 1 .. n
  BY <1>3
<1>6. \A i \in 1 .. n : InOrder(S)[i].seg = q[i]
  <2> TAKE i \in 1 .. n
  <2> DEFINE e == [seg |-> q[i], size |-> row[q[i]].bytes]
  <2>1. InOrder(S)[i] = e
    BY <1>4
  <2>2. e.seg = q[i]
    OBVIOUS
  <2> QED
    BY <2>1, <2>2
<1> QED
  BY <1>2, <1>4, <1>5, <1>6 DEF n

-----------------------------------------------------------------------------
(* Types *)

DiskTypes ==
    /\ cameras \subseteq Cameras
    /\ open \in [Cameras -> Segs \cup {None}]
    /\ started \subseteq Segs /\ expired \subseteq started
    /\ file \in [Segs -> 0 .. Full]
    /\ edits \in 0 .. MaxEdits
RowTypes ==
    /\ row \in [Segs -> Row \cup {None}]
    /\ \A s \in Segs : row[s] # None => s \in started /\ CamOf[s] \in cameras /\ row[s].bytes > 0
ManagerTypes ==
    /\ memo \in [Segs -> 0 .. Full]
    /\ phase \in {"rest", "indexed"} \cup Passes
    /\ todo \in Seq([seg : Segs, size : 1 .. Full])
    /\ over \subseteq [cam : Cameras, total : Nat]
    /\ \A s \in seen : phase \in Passes /\ todo # <<>> /\ s = Head(todo).seg
    /\ tally \in Int
WriterTypes ==
    /\ sidecar \subseteq started
    /\ fd \in [Segs -> {"closed", "linked", "unlinked"}]
    /\ \A s \in Segs : fd[s] = "linked" => s \in sidecar
    /\ cache \in [Cameras -> [seg : Segs, end : 1 .. Full] \cup {None}]
    /\ detections \in 0 .. MaxDetections
    /\ pending \subseteq Det
EventTypes ==
    /\ failures \in 0 .. MaxFailures
    /\ history \in [Events -> SUBSET Segs]
\* Types need one fact that is none: what is known of a segment, it was begun.
InMotion(s) == file[s] > 0 \/ memo[s] > 0 \/ (\E d \in pending : d.seg = s)
StartedFirst == \A s \in Segs : InMotion(s) => s \in started

Types == DiskTypes /\ RowTypes /\ ManagerTypes /\ WriterTypes /\ EventTypes /\ StartedFirst

LEMMA TypesAre == Types <=> TypeOK /\ StartedFirst
BY DEF Types, TypeOK, DiskTypes, RowTypes, ManagerTypes, WriterTypes, EventTypes

LEMMA Bounds ==
    /\ Full \in Nat /\ Full > 0 /\ MaxFailures \in Nat /\ MaxEdits \in Nat /\ MaxDetections \in Nat
    /\ CamOf \in [Segs -> Cameras] /\ Segs \subseteq Nat
BY RecordingsAssumption

LEMMA Notes ==
    ASSUME NEW e \in Events, NEW s \in Segs, EventTypes, Note(e, s)
    PROVE  /\ history' \in [Events -> SUBSET Segs]
           /\ \A d \in Events : history[d] \subseteq history'[d] /\ (d # e => history'[d] = history[d])
           /\ s \in history'[e]
BY DEF Note, EventTypes

LEMMA FailsOnce ==
    ASSUME EventTypes, Fails
    PROVE  failures' \in 0 .. MaxFailures /\ failures' > 0
BY Bounds DEF Fails, EventTypes

LEMMA InitTypes == Init => Types
<1> SUFFICES ASSUME Init PROVE Types
  OBVIOUS
<1>1. DiskTypes /\ RowTypes /\ EventTypes
  BY Bounds DEF Init, DiskTypes, RowTypes, EventTypes
<1>2. ManagerTypes
  BY Bounds DEF Init, ManagerTypes, Passes
<1>3. WriterTypes
  BY Bounds DEF Init, WriterTypes
<1>4. StartedFirst
  BY Bounds DEF Init, StartedFirst, InMotion
<1> QED
  BY <1>1, <1>2, <1>3, <1>4 DEF Types

LEMMA StartTypes == ASSUME Types, NEW s \in Segs, StartSegment(s) PROVE Types'
<1>1. CamOf[s] \in Cameras /\ file[s] = 0 /\ s \notin started
  BY Bounds DEF StartSegment, Types, DiskTypes, StartedFirst, InMotion
<1>2. DiskTypes'
  BY <1>1, Bounds DEF StartSegment, Types, DiskTypes
<1>3. RowTypes'
  BY DEF StartSegment, Types, RowTypes
<1>4. ManagerTypes' /\ EventTypes'
  BY DEF StartSegment, Types, ManagerTypes, EventTypes, managerVars
<1>5. WriterTypes'
  BY DEF StartSegment, Types, WriterTypes, writerVars
<1>6. StartedFirst'
  BY Bounds DEF StartSegment, Types, StartedFirst, InMotion, writerVars, managerVars, DiskTypes
<1> QED
  BY <1>2, <1>3, <1>4, <1>5, <1>6 DEF Types

LEMMA GrowTypes == ASSUME Types, NEW s \in Segs, Grow(s) PROVE Types'
<1>1. DiskTypes'
  BY Bounds DEF Grow, Types, DiskTypes
<1>2. RowTypes'
  BY DEF Grow, Types, RowTypes
<1>3. ManagerTypes' /\ EventTypes'
  BY DEF Grow, Types, ManagerTypes, EventTypes, managerVars
<1>4. WriterTypes'
  BY DEF Grow, Types, WriterTypes, writerVars
<1>5. StartedFirst'
  BY Bounds DEF Grow, Types, StartedFirst, InMotion, writerVars, managerVars, DiskTypes
<1> QED
  BY <1>1, <1>2, <1>3, <1>4, <1>5 DEF Types

LEMMA ExpireTypes == ASSUME Types, NEW s \in Segs, Expire(s) PROVE Types'
<1>1. DiskTypes'
  BY Bounds DEF Expire, Types, DiskTypes
<1>2. RowTypes'
  BY DEF Expire, Types, RowTypes
<1>3. ManagerTypes' /\ EventTypes'
  BY DEF Expire, Types, ManagerTypes, EventTypes, managerVars
<1>4. WriterTypes'
  BY DEF Expire, Types, WriterTypes, writerVars
<1>5. StartedFirst'
  BY DEF Expire, Types, StartedFirst, InMotion, writerVars, managerVars
<1> QED
  BY <1>1, <1>2, <1>3, <1>4, <1>5 DEF Types

LEMMA ProtectTypes == ASSUME Types, NEW s \in Segs, Protect(s) PROVE Types'
<1>1. DiskTypes'
  BY Bounds DEF Protect, Types, DiskTypes
<1>2. RowTypes'
  <2>1. row[s] \in Row /\ row \in [Segs -> Row \cup {None}]
    BY DEF Protect, Types, RowTypes
  <2>2. PICK b \in 0 .. Full, p \in BOOLEAN : row[s] = [bytes |-> b, protected |-> p]
    BY <2>1 DEF Row
  <2>3. row' = [row EXCEPT ![s] = [bytes |-> b, protected |-> TRUE]]
    <3>1. row' = [row EXCEPT ![s].protected = TRUE]
      BY DEF Protect
    <3>2. [row[s] EXCEPT !.protected = TRUE] = [bytes |-> b, protected |-> TRUE]
      <4> DEFINE q == TRUE
      <4>1. q \in BOOLEAN
        OBVIOUS
      <4> HIDE DEF q
      <4>2. [row[s] EXCEPT !.protected = q] = [bytes |-> b, protected |-> q]
        BY <2>2, <4>1
      <4> QED
        BY <4>2 DEF q
    <3>3. row' = [row EXCEPT ![s] = [row[s] EXCEPT !.protected = TRUE]]
      BY <3>1, Zenon
    <3> QED
      BY <3>2, <3>3
  <2>4. [bytes |-> b, protected |-> TRUE] \in Row
    BY DEF Row
  <2>5. row' \in [Segs -> Row \cup {None}]
    BY <2>1, <2>3, <2>4
  <2>6. \A r \in Segs : row'[r] # None => row[r] # None /\ row'[r].bytes = row[r].bytes
    BY <2>1, <2>2, <2>3 DEF Protect
  <2>7. started' = started /\ cameras' = cameras
    BY DEF Protect
  <2> QED
    BY <2>5, <2>6, <2>7 DEF Types, RowTypes
<1>3. ManagerTypes'
  BY DEF Protect, Types, ManagerTypes, managerVars
<1>4. EventTypes'
  <2>1. EventTypes /\ failures' = failures /\ "protectedLate" \in Events
    BY DEF Protect, Types, Events
  <2>2. Note("protectedLate", s) \/ history' = history
    BY DEF Protect
  <2> QED
    BY <2>1, <2>2, Notes DEF EventTypes
<1>5. WriterTypes'
  BY DEF Protect, Types, WriterTypes, writerVars
<1>6. StartedFirst'
  BY DEF Protect, Types, StartedFirst, InMotion, writerVars, managerVars
<1> QED
  BY <1>1, <1>2, <1>3, <1>4, <1>5, <1>6 DEF Types

LEMMA CloseTypes == ASSUME Types, NEW s \in Segs, CloseIdle(s) PROVE Types'
<1>1. DiskTypes' /\ RowTypes' /\ EventTypes'
  BY DEF CloseIdle, Types, DiskTypes, RowTypes, EventTypes, diskVars
<1>2. ManagerTypes'
  BY DEF CloseIdle, Types, ManagerTypes, managerVars
<1>3. WriterTypes'
  BY DEF CloseIdle, Types, WriterTypes, diskVars
<1>4. StartedFirst'
  BY DEF CloseIdle, Types, StartedFirst, InMotion, managerVars, diskVars
<1> QED
  BY <1>1, <1>2, <1>3, <1>4 DEF Types

LEMMA CameraTypes == ASSUME Types, NEW c \in Cameras, DeleteCamera(c) PROVE Types'
<1>1. DiskTypes'
  BY Bounds DEF DeleteCamera, Types, DiskTypes
<1>2. RowTypes'
  BY Bounds DEF DeleteCamera, Types, RowTypes
<1>3. ManagerTypes' /\ EventTypes'
  BY DEF DeleteCamera, Types, ManagerTypes, EventTypes, managerVars
<1>4. WriterTypes'
  BY DEF DeleteCamera, Types, WriterTypes, writerVars
<1>5. StartedFirst'
  BY DEF DeleteCamera, Types, StartedFirst, InMotion, writerVars, managerVars
<1> QED
  BY <1>1, <1>2, <1>3, <1>4, <1>5 DEF Types

\* The upserts of the index.
LEMMA IndexTypes ==
    ASSUME Types, NEW failing \in SUBSET Segs, Index(failing), UNCHANGED <<cameras, started>>
    PROVE  /\ RowTypes'
           /\ memo' \in [Segs -> 0 .. Full]
           /\ \A s \in Segs : memo'[s] > 0 => s \in started
           /\ \A s \in Segs : row'[s] # None => row[s] # None \/ file[s] > 0
<1> DEFINE changed == {s \in Segs : file[s] > 0 /\ memo[s] # file[s]}
           written == {s \in changed \ failing : CamOf[s] \in cameras}
           fresh(s) == [bytes |-> file[s], protected |-> row[s] # None /\ row[s].protected]
<1>1. /\ row' = [s \in Segs |-> IF s \in written THEN fresh(s) ELSE row[s]]
      /\ memo' = [s \in Segs |-> IF s \in changed \ written THEN 0 ELSE file[s]]
  BY DEF Index
<1>2. /\ file \in [Segs -> 0 .. Full]
      /\ row \in [Segs -> Row \cup {None}]
      /\ \A s \in Segs : file[s] > 0 => s \in started
      /\ \A s \in written : s \in Segs /\ file[s] > 0 /\ CamOf[s] \in cameras
  BY DEF Types, DiskTypes, RowTypes, StartedFirst, InMotion
<1>3. \A s \in Segs : fresh(s) \in Row
  <2> TAKE s \in Segs
  <2>1. (row[s] # None /\ row[s].protected) \in BOOLEAN
    <3>1. CASE row[s] = None
      BY <3>1
    <3>2. CASE row[s] # None
      <4>1. row[s] \in Row
        BY <1>2, <3>2
      <4>2. row[s].protected \in BOOLEAN
        BY <4>1 DEF Row
      <4> QED
        BY <3>2, <4>2
    <3> QED
      BY <3>1, <3>2
  <2>2. PICK p \in BOOLEAN : p = (row[s] # None /\ row[s].protected)
    BY <2>1
  <2>3. fresh(s) = [bytes |-> file[s], protected |-> p]
    BY <2>2
  <2> HIDE DEF fresh
  <2> QED
    BY <1>2, <2>3 DEF Row
<1>4. \A s \in Segs : fresh(s).bytes = file[s]
  OBVIOUS
<1> HIDE DEF written, changed, fresh
<1>5. row' \in [Segs -> Row \cup {None}]
  BY <1>1, <1>2, <1>3
<1>6. \A s \in Segs : s \in written => row'[s].bytes = file[s]
  BY <1>1, <1>4
<1>7. \A s \in Segs : s \notin written => row'[s] = row[s]
  BY <1>1
<1>8. RowTypes'
  <2>1. ASSUME NEW s \in Segs, row'[s] # None
        PROVE  s \in started /\ CamOf[s] \in cameras /\ row'[s].bytes > 0
    <3>1. CASE s \in written
      BY <1>2, <1>6, <3>1
    <3>2. CASE s \notin written
      BY <1>7, <2>1, <3>2 DEF Types, RowTypes
    <3> QED
      BY <3>1, <3>2
  <2> QED
    BY <1>5, <2>1 DEF RowTypes
<1>9. memo' \in [Segs -> 0 .. Full]
  BY <1>1, <1>2, Bounds
<1>10. \A s \in Segs : memo'[s] > 0 => s \in started
  BY <1>1, <1>2
<1>11. \A s \in Segs : row'[s] # None => row[s] # None \/ file[s] > 0
  BY <1>1, <1>2, <1>7
<1> QED
  BY <1>8, <1>9, <1>10, <1>11

LEMMA TickTypes == ASSUME Types, Tick PROVE Types'
<1>1. PICK failing \in SUBSET Segs : Index(failing) /\ (failures' = failures \/ Fails)
  <2>1. (Index({}) /\ failures' = failures) \/ (\E s \in Segs : Index({s}) /\ Fails)
    BY DEF Tick
  <2>2. CASE Index({}) /\ failures' = failures
    BY <2>2
  <2>3. CASE \E s \in Segs : Index({s}) /\ Fails
    <3>1. PICK s \in Segs : Index({s}) /\ Fails
      BY <2>3
    <3>2. {s} \in SUBSET Segs
      OBVIOUS
    <3> QED
      BY <3>1, <3>2
  <2> QED
    BY <2>1, <2>2, <2>3
<1>2. /\ RowTypes'
      /\ memo' \in [Segs -> 0 .. Full]
      /\ \A s \in Segs : memo'[s] > 0 => s \in started
  <2>1. UNCHANGED <<cameras, started>>
    BY DEF Tick
  <2> QED
    BY <1>1, <2>1, IndexTypes
<1>3. DiskTypes'
  BY DEF Tick, Types, DiskTypes
<1>4. ManagerTypes'
  BY <1>2 DEF Tick, Types, ManagerTypes, Passes
<1>5. WriterTypes'
  BY DEF Tick, Types, WriterTypes, writerVars
<1>6. EventTypes'
  <2>1. history' = history
    BY DEF Tick
  <2> QED
    BY <1>1, <2>1, FailsOnce DEF Types, EventTypes
<1>7. StartedFirst'
  BY <1>2 DEF Tick, Types, StartedFirst, InMotion, writerVars
<1> QED
  BY <1>2, <1>3, <1>4, <1>5, <1>6, <1>7 DEF Types

LEMMA IsSequence ==
    ASSUME NEW T, NEW n \in Nat, NEW q, q = [i \in 1 .. n |-> q[i]], \A i \in 1 .. n : q[i] \in T
    PROVE  q \in Seq(T)
OBVIOUS

\* The list of a pass, its head and its tail.
LEMMA TodoIs ==
    ASSUME Types
    PROVE  /\ todo # <<>> => 1 \in DOMAIN todo /\ Head(todo) = todo[1]
           /\ \A i \in DOMAIN todo : /\ i \in Nat /\ i >= 1 /\ todo # <<>>
                                     /\ todo[i].seg \in Segs /\ todo[i].size \in 1 .. Full
           /\ todo # <<>> => /\ Head(todo).seg \in Segs /\ Head(todo).size \in 1 .. Full
                             /\ Tail(todo) \in Seq([seg : Segs, size : 1 .. Full])
                             /\ \A i \in DOMAIN Tail(todo) : i \in Nat /\ i + 1 \in DOMAIN todo /\ Tail(todo)[i] = todo[i + 1]
                             /\ \A i \in DOMAIN todo : i = 1 \/ (i - 1 \in DOMAIN Tail(todo) /\ Tail(todo)[i - 1] = todo[i])
           /\ \A s \in seen : s \in Segs /\ phase \in Passes /\ todo # <<>> /\ s = Head(todo).seg
<1> DEFINE T == [seg : Segs, size : 1 .. Full]
<1>1. todo \in Seq(T) /\ \A s \in seen : phase \in Passes /\ todo # <<>> /\ s = Head(todo).seg
  BY DEF Types, ManagerTypes
<1>2. \A e \in T : e.seg \in Segs /\ e.size \in 1 .. Full
  OBVIOUS
<1> HIDE DEF T
<1>3. \A i \in DOMAIN todo : i \in Nat /\ i >= 1 /\ todo # <<>> /\ todo[i] \in T
  BY <1>1
<1>4. todo # <<>> => 1 \in DOMAIN todo /\ Head(todo) = todo[1] /\ Tail(todo) \in Seq(T)
  BY <1>1
<1>5. ASSUME todo # <<>>
      PROVE  /\ \A i \in DOMAIN Tail(todo) : i \in Nat /\ i + 1 \in DOMAIN todo /\ Tail(todo)[i] = todo[i + 1]
             /\ \A i \in DOMAIN todo : i = 1 \/ (i - 1 \in DOMAIN Tail(todo) /\ Tail(todo)[i - 1] = todo[i])
  <2>1. Len(todo) \in Nat /\ DOMAIN todo = 1 .. Len(todo) /\ Len(todo) > 0
    BY <1>1, <1>5
  <2>2. DOMAIN Tail(todo) = 1 .. Len(todo) - 1
    BY <1>1, <1>5
  <2>3. \A i \in 1 .. Len(todo) - 1 : Tail(todo)[i] = todo[i + 1]
    BY <1>1, <1>5
  <2>4. \A i \in 1 .. Len(todo) : i = 1 \/ i - 1 \in 1 .. Len(todo) - 1
    BY <2>1
  <2>5. \A i \in 1 .. Len(todo) : i = 1 \/ Tail(todo)[i - 1] = todo[i]
    <3> TAKE i \in 1 .. Len(todo)
    <3>1. CASE i # 1
      <4>1. i - 1 \in 1 .. Len(todo) - 1 /\ i - 1 + 1 = i
        BY <2>1, <2>4, <3>1
      <4> QED
        BY <2>3, <4>1
    <3> QED
      BY <3>1
  <2> QED
    BY <2>1, <2>2, <2>3, <2>4, <2>5
<1> QED
  BY <1>1, <1>2, <1>3, <1>4, <1>5 DEF T

LEMMA DomainPositive ==
    ASSUME Types, todo # <<>>, NEW i \in DOMAIN Tail(todo)
    PROVE  i # 0
BY DEF Types, ManagerTypes

LEMMA SelectionTypes ==
    ASSUME Types, NEW S \in SUBSET Segs, \A s \in S : row[s] # None
    PROVE  InOrder(S) \in Seq([seg : Segs, size : 1 .. Full])
<1> DEFINE n == Cardinality(S)
<1>1. /\ n \in Nat
      /\ DOMAIN InOrder(S) = 1 .. n
      /\ \A i \in 1 .. n : \E s \in S : InOrder(S)[i] = [seg |-> s, size |-> row[s].bytes]
  BY InOrderIs
<1>2. \A s \in S : row[s].bytes \in 1 .. Full
  <2> TAKE s \in S
  <2>1. row[s] \in Row /\ row[s].bytes > 0
    BY DEF Types, RowTypes
  <2> QED
    BY <2>1, Bounds DEF Row
<1>3. \A i \in 1 .. n : InOrder(S)[i] \in [seg : Segs, size : 1 .. Full]
  BY <1>1, <1>2
<1>4. InOrder(S) = [i \in 1 .. n |-> InOrder(S)[i]]
  BY DEF InOrder
<1> HIDE DEF n
<1> QED
  BY <1>1, <1>3, <1>4, IsSequence

\* A pass that begins, whatever it begins with.
LEMMA BeginTypes ==
    ASSUME Types,
           NEW p \in {"rest", "indexed"} \cup Passes,
           NEW q \in Seq([seg : Segs, size : 1 .. Full]),
           NEW t \in Int,
           Begin(p, q, t),
           UNCHANGED <<diskVars, memo, writerVars, sidecar, failures, history>>,
           over' \subseteq [cam : Cameras, total : Nat]
    PROVE  Types'
<1>1. DiskTypes' /\ RowTypes' /\ EventTypes'
  BY DEF Types, DiskTypes, RowTypes, EventTypes, diskVars
<1>2. ManagerTypes'
  BY DEF Types, ManagerTypes, Begin
<1>3. WriterTypes'
  BY DEF Types, WriterTypes, writerVars, diskVars
<1>4. StartedFirst'
  BY DEF Types, StartedFirst, InMotion, writerVars, diskVars
<1> QED
  BY <1>1, <1>2, <1>3, <1>4 DEF Types

LEMMA UnprotectedAre ==
    ASSUME NEW S \in SUBSET Segs
    PROVE  Unprotected(S) \in SUBSET Segs /\ \A s \in Unprotected(S) : s \in S /\ row[s] # None /\ ~row[s].protected
BY DEF Unprotected, Rows

LEMMA UnitSums ==
    ASSUME NEW S \in SUBSET Segs
    PROVE  Bytes(S) \in Nat /\ Recorded(S) \in Nat
<1>1. {u \in Rows(S) \X (1 .. Full) : u[2] <= row[u[1]].bytes} \in SUBSET (Segs \X (1 .. Full))
  BY DEF Rows
<1>2. {u \in S \X (1 .. Full) : u[2] <= file[u[1]]} \in SUBSET (Segs \X (1 .. Full))
  OBVIOUS
<1> QED
  BY <1>1, <1>2, Units DEF Bytes, Recorded

LEMMA NoneLeft == <<>> \in Seq([seg : Segs, size : 1 .. Full])
OBVIOUS

LEMMA RetentionTypes == ASSUME Types, StartRetention PROVE Types'
<1>1. expired \in SUBSET Segs
  BY DEF Types, DiskTypes
<1>2. InOrder(Unprotected(expired)) \in Seq([seg : Segs, size : 1 .. Full])
  BY <1>1, UnprotectedAre, SelectionTypes
<1>3. over' \subseteq [cam : Cameras, total : Nat]
  BY DEF StartRetention, Types, ManagerTypes
<1>4. "retention" \in {"rest", "indexed"} \cup Passes /\ 0 \in Int
  BY DEF Passes
<1>5. /\ Begin("retention", InOrder(Unprotected(expired)), 0)
      /\ UNCHANGED <<diskVars, memo, writerVars, sidecar, failures, history>>
  BY DEF StartRetention
<1> QED
  BY <1>2, <1>3, <1>4, <1>5, BeginTypes

LEMMA QuotaTypes == ASSUME Types, StartQuota PROVE Types'
<1>1. \A c \in Cameras : Bytes(OfCamera(c)) \in Nat
  BY UnitSums DEF OfCamera
<1>2. over' \subseteq [cam : Cameras, total : Nat]
  BY <1>1 DEF StartQuota, Types, DiskTypes
<1>3. "quota" \in {"rest", "indexed"} \cup Passes /\ 0 \in Int
  BY DEF Passes
<1>4. /\ Begin("quota", <<>>, 0)
      /\ UNCHANGED <<diskVars, memo, writerVars, sidecar, failures, history>>
  BY DEF StartQuota
<1> QED
  BY <1>2, <1>3, <1>4, NoneLeft, BeginTypes

LEMMA NextCameraTypes == ASSUME Types, NextCamera PROVE Types'
<1>1. PICK o \in over :
        /\ over' = over \ {o}
        /\ Begin("quota", InOrder(Unprotected(OfCamera(o.cam))), o.total)
  BY DEF NextCamera
<1>2. OfCamera(o.cam) \in SUBSET Segs
  BY DEF OfCamera
<1>3. InOrder(Unprotected(OfCamera(o.cam))) \in Seq([seg : Segs, size : 1 .. Full])
  BY <1>2, UnprotectedAre, SelectionTypes
<1>4. over' \subseteq [cam : Cameras, total : Nat] /\ o.total \in Int
  BY <1>1 DEF Types, ManagerTypes
<1> QED
  BY <1>1, <1>3, <1>4, BeginTypes DEF NextCamera, Passes

LEMMA PressureTypes == ASSUME Types, StartPressure PROVE Types'
<1>1. InOrder(Unprotected(Segs)) \in Seq([seg : Segs, size : 1 .. Full])
  BY UnprotectedAre, SelectionTypes
<1>2. over' \subseteq [cam : Cameras, total : Nat]
  BY DEF StartPressure, Types, ManagerTypes
<1>3. PICK q \in Seq([seg : Segs, size : 1 .. Full]) :
        q = IF OnDisk > Capacity THEN InOrder(Unprotected(Segs)) ELSE <<>>
  BY <1>1, NoneLeft
<1>4. "pressure" \in {"rest", "indexed"} \cup Passes /\ 0 \in Int
  BY DEF Passes
<1>5. /\ Begin("pressure", q, 0)
      /\ UNCHANGED <<diskVars, memo, writerVars, sidecar, failures, history>>
  BY <1>3 DEF StartPressure
<1> QED
  BY <1>2, <1>4, <1>5, BeginTypes

LEMMA EndTypes == ASSUME Types, EndTick PROVE Types'
<1>1. over' \subseteq [cam : Cameras, total : Nat]
  BY DEF EndTick, Types, ManagerTypes
<1>2. /\ Begin("rest", <<>>, 0) /\ 0 \in Int
      /\ UNCHANGED <<diskVars, memo, writerVars, sidecar, failures, history>>
  BY DEF EndTick
<1> QED
  BY <1>1, <1>2, NoneLeft, BeginTypes

LEMMA RestartManagerTypes == ASSUME Types, RestartManager PROVE Types'
<1>1. DiskTypes' /\ RowTypes'
  BY DEF RestartManager, Types, DiskTypes, RowTypes, diskVars
<1>2. EventTypes'
  <2>1. seen \in SUBSET Segs
    BY TodoIs
  <2>2. history' \in [Events -> SUBSET Segs]
    BY <2>1 DEF RestartManager, Types, EventTypes, Events
  <2> QED
    BY <2>2, FailsOnce DEF RestartManager, Types, EventTypes
<1>3. ManagerTypes'
  BY NoneLeft, Bounds DEF RestartManager, Begin, ManagerTypes
<1>4. WriterTypes'
  BY DEF RestartManager, Types, WriterTypes, writerVars, diskVars
<1>5. StartedFirst'
  BY DEF RestartManager, Types, StartedFirst, InMotion, writerVars, diskVars
<1> QED
  BY <1>1, <1>2, <1>3, <1>4, <1>5 DEF Types

LEMMA QueryFailsTypes == ASSUME Types, QueryFails PROVE Types'
<1>1. DiskTypes' /\ RowTypes'
  BY DEF QueryFails, Types, DiskTypes, RowTypes, diskVars
<1>2. EventTypes'
  BY FailsOnce DEF QueryFails, Types, EventTypes
<1>3. ManagerTypes'
  BY NoneLeft, Bounds DEF QueryFails, Begin, Types, ManagerTypes
<1>4. WriterTypes'
  BY DEF QueryFails, Types, WriterTypes, writerVars, diskVars
<1>5. StartedFirst'
  BY DEF QueryFails, Types, StartedFirst, InMotion, writerVars, diskVars
<1> QED
  BY <1>1, <1>2, <1>3, <1>4, <1>5 DEF Types

LEMMA AnswerLostTypes == ASSUME Types, AnswerLost PROVE Types'
<1>1. DiskTypes' /\ RowTypes'
  BY DEF AnswerLost, Types, DiskTypes, RowTypes, diskVars
<1>2. EventTypes'
  BY FailsOnce DEF AnswerLost, Types, EventTypes
<1>3. ManagerTypes'
  <2>1. over' \subseteq over
    BY DEF AnswerLost
  <2> QED
    BY <2>1, NoneLeft DEF AnswerLost, Types, ManagerTypes
<1>4. WriterTypes'
  BY DEF AnswerLost, Types, WriterTypes, writerVars, diskVars
<1>5. StartedFirst'
  BY DEF AnswerLost, Types, StartedFirst, InMotion, writerVars, diskVars
<1> QED
  BY <1>1, <1>2, <1>3, <1>4, <1>5 DEF Types

\* What the removal of a segment's files does, its sidecar removed or not.
LEMMA Unlinks ==
    ASSUME Types, NEW s \in Segs, Unlink(s)
    PROVE  /\ file' \in [Segs -> 0 .. Full]
           /\ \A r \in Segs : file'[r] = IF r = s THEN 0 ELSE file[r]
           /\ EventTypes'
           /\ failures <= failures'
           /\ \A d \in Events : d # "sidecarKept" => history'[d] = history[d]
           /\ history["sidecarKept"] \subseteq history'["sidecarKept"]
           /\ sidecar' \subseteq sidecar
           /\ s \in sidecar' => s \in history'["sidecarKept"]
           /\ fd' \in [Segs -> {"closed", "linked", "unlinked"}]
           /\ \A r \in Segs : fd'[r] = "linked" => r \in sidecar'
<1>1. /\ file \in [Segs -> 0 .. Full] /\ EventTypes
      /\ fd \in [Segs -> {"closed", "linked", "unlinked"}]
      /\ \A r \in Segs : fd[r] = "linked" => r \in sidecar
  BY DEF Types, DiskTypes, WriterTypes
<1>2. file' = [file EXCEPT ![s] = 0]
  BY DEF Unlink
<1>3. file' \in [Segs -> 0 .. Full] /\ \A r \in Segs : file'[r] = IF r = s THEN 0 ELSE file[r]
  BY <1>1, <1>2, Bounds
<1>4. CASE /\ sidecar' = sidecar \ {s}
           /\ fd' = [fd EXCEPT ![s] = IF @ = "linked" THEN "unlinked" ELSE @]
           /\ UNCHANGED <<failures, history>>
  BY <1>1, <1>3, <1>4 DEF EventTypes
<1>5. CASE s \in sidecar /\ Fails /\ Note("sidecarKept", s) /\ UNCHANGED <<sidecar, fd>>
  <2>1. /\ history' \in [Events -> SUBSET Segs]
        /\ \A d \in Events : history[d] \subseteq history'[d] /\ (d # "sidecarKept" => history'[d] = history[d])
        /\ s \in history'["sidecarKept"]
    BY <1>1, <1>5, Notes DEF Events
  <2>2. failures' \in 0 .. MaxFailures
    BY <1>1, <1>5, FailsOnce
  <2>3. failures <= failures'
    BY <1>1, <1>5 DEF Fails, EventTypes
  <2> QED
    BY <1>1, <1>3, <1>5, <2>1, <2>2, <2>3 DEF EventTypes, Events
<1> QED
  BY <1>4, <1>5 DEF Unlink

LEMMA RemoveTypes == ASSUME Types, RemoveFiles PROVE Types'
<1>1. /\ todo # <<>> /\ phase \in Passes /\ Head(todo).seg \in Segs
      /\ seen' = {Head(todo).seg} /\ Unlink(Head(todo).seg)
      /\ UNCHANGED <<cameras, open, started, row, expired, edits, memo, phase, todo, over, tally, cache, detections, pending>>
  BY TodoIs DEF RemoveFiles, AtRow
<1>2. /\ file' \in [Segs -> 0 .. Full]
      /\ \A r \in Segs : file'[r] = IF r = Head(todo).seg THEN 0 ELSE file[r]
      /\ EventTypes'
      /\ sidecar' \subseteq sidecar
      /\ fd' \in [Segs -> {"closed", "linked", "unlinked"}]
      /\ \A r \in Segs : fd'[r] = "linked" => r \in sidecar'
  BY <1>1, Unlinks
<1>3. DiskTypes' /\ RowTypes'
  BY <1>1, <1>2 DEF Types, DiskTypes, RowTypes
<1>4. ManagerTypes'
  BY <1>1 DEF Types, ManagerTypes
<1>5. WriterTypes'
  BY <1>1, <1>2 DEF Types, WriterTypes
<1>6. StartedFirst'
  BY <1>1, <1>2 DEF Types, StartedFirst, InMotion
<1> QED
  BY <1>2, <1>3, <1>4, <1>5, <1>6 DEF Types

LEMMA RemoveFailsTypes == ASSUME Types, RemoveFails PROVE Types'
<1>1. /\ todo # <<>> /\ seen = {} /\ todo' = Tail(todo) /\ Fails
      /\ UNCHANGED <<diskVars, memo, phase, seen, over, tally, writerVars, sidecar, history>>
  BY DEF RemoveFails, AtRow
<1>2. DiskTypes' /\ RowTypes'
  BY <1>1 DEF Types, DiskTypes, RowTypes, diskVars
<1>3. todo' \in Seq([seg : Segs, size : 1 .. Full])
  BY <1>1, TodoIs
<1>4. ManagerTypes'
  BY <1>1, <1>3 DEF Types, ManagerTypes
<1>5. WriterTypes'
  BY <1>1 DEF Types, WriterTypes, writerVars, diskVars
<1>6. StartedFirst'
  BY <1>1 DEF Types, StartedFirst, InMotion, writerVars, diskVars
<1>7. EventTypes'
  BY <1>1, FailsOnce DEF Types, EventTypes
<1> QED
  BY <1>2, <1>4, <1>5, <1>6, <1>7 DEF Types

LEMMA NextRowTypes ==
    ASSUME Types, NextRow, RowTypes', EventTypes'
    PROVE  Types'
<1>1. DiskTypes'
  BY DEF NextRow, Types, DiskTypes
<1>2. todo # <<>> /\ Head(todo).size \in 1 .. Full /\ Tail(todo) \in Seq([seg : Segs, size : 1 .. Full])
  BY TodoIs DEF NextRow
<1>3. tally' \in Int
  <2>1. tally \in Int /\ Head(todo).size \in Int
    BY <1>2 DEF Types, ManagerTypes
  <2>2. phase \in {"retention", "quota", "pressure"}
    BY DEF NextRow, Passes
  <2>3. tally' = tally - Head(todo).size \/ tally' = tally + 1 \/ tally' = tally
    BY <2>2 DEF NextRow
  <2> QED
    BY <2>1, <2>3
<1>4. ManagerTypes'
  BY <1>2, <1>3 DEF NextRow, Types, ManagerTypes
<1>5. WriterTypes'
  BY DEF NextRow, Types, WriterTypes, writerVars
<1>6. StartedFirst'
  BY DEF NextRow, Types, StartedFirst, InMotion, writerVars
<1> QED
  BY <1>1, <1>4, <1>5, <1>6 DEF Types

LEMMA DeleteRowTypes == ASSUME Types, DeleteRow PROVE Types'
<1>1. RowTypes'
  BY DEF DeleteRow, NextRow, Types, RowTypes
<1>2. EventTypes'
  BY DEF DeleteRow, Types, EventTypes
<1> QED
  BY <1>1, <1>2, NextRowTypes DEF DeleteRow

LEMMA DeleteRowFailsTypes == ASSUME Types, DeleteRowFails PROVE Types'
<1>1. RowTypes'
  BY DEF DeleteRowFails, NextRow, Types, RowTypes
<1>2. EventTypes'
  <2>1. EventTypes /\ "rowKept" \in Events
    BY DEF Types, Events
  <2>2. Head(todo).seg \in Segs
    BY TodoIs DEF DeleteRowFails, NextRow
  <2>3. Fails /\ Note("rowKept", Head(todo).seg)
    BY DEF DeleteRowFails
  <2> QED
    BY <2>1, <2>2, <2>3, Notes, FailsOnce DEF EventTypes
<1> QED
  BY <1>1, <1>2, NextRowTypes DEF DeleteRowFails

\* What writing a detection does.
LEMMA Appends ==
    ASSUME Types, NEW d \in Det, d.seg \in started, Resolves(d), AppendLine(d), UNCHANGED failures
    PROVE  /\ cache' \in [Cameras -> [seg : Segs, end : 1 .. Full] \cup {None}]
           /\ fd' \in [Segs -> {"closed", "linked", "unlinked"}]
           /\ \A r \in Segs : fd'[r] = "linked" => r \in sidecar'
           /\ sidecar \subseteq sidecar' /\ sidecar' \subseteq sidecar \cup {d.seg}
           /\ EventTypes'
           /\ \A e \in Events : e # "writtenLate" => history'[e] = history[e]
           /\ history["writtenLate"] \subseteq history'["writtenLate"]
           /\ d.seg \in sidecar' \ sidecar /\ file[d.seg] = 0 => d.seg \in history'["writtenLate"]
<1>1. PICK s \in Segs : s = d.seg
  BY DEF Det
<1>2. /\ cache \in [Cameras -> [seg : Segs, end : 1 .. Full] \cup {None}]
      /\ fd \in [Segs -> {"closed", "linked", "unlinked"}]
      /\ \A r \in Segs : fd[r] = "linked" => r \in sidecar
      /\ EventTypes
  BY DEF Types, WriterTypes
<1>3. cache' \in [Cameras -> [seg : Segs, end : 1 .. Full] \cup {None}]
  <2>1. CASE Cached(d)
    BY <1>2, <2>1 DEF AppendLine
  <2>2. CASE ~Cached(d)
    <3>1. row[s] # None
      BY <1>1, <2>2 DEF Resolves, Found
    <3>2. row[s].bytes \in 1 .. Full
      <4>1. row[s] \in Row /\ row[s].bytes > 0
        BY <3>1 DEF Types, RowTypes
      <4> QED
        BY <4>1, Bounds DEF Row
    <3>3. [seg |-> s, end |-> row[s].bytes] \in [seg : Segs, end : 1 .. Full] /\ CamOf[s] \in Cameras
      BY <3>2, Bounds
    <3>4. cache' = [cache EXCEPT ![CamOf[s]] = [seg |-> s, end |-> row[s].bytes]]
      BY <1>1, <2>2 DEF AppendLine
    <3> QED
      BY <1>2, <3>3, <3>4
  <2> QED
    BY <2>1, <2>2
<1>4. CASE fd[s] # "closed"
  BY <1>1, <1>2, <1>3, <1>4 DEF AppendLine, EventTypes, Events
<1>5. CASE fd[s] = "closed"
  <2>1. /\ fd' = [fd EXCEPT ![s] = "linked"] /\ sidecar' = sidecar \cup {s}
        /\ IF file[s] = 0 THEN Note("writtenLate", s) ELSE UNCHANGED history
    BY <1>1, <1>5 DEF AppendLine
  <2>2. EventTypes' /\ (\A e \in Events : e # "writtenLate" => history'[e] = history[e])
    <3>1. CASE file[s] = 0
      BY <1>2, <2>1, <3>1, Notes DEF EventTypes, Events
    <3>2. CASE file[s] # 0
      BY <1>2, <2>1, <3>2 DEF EventTypes
    <3> QED
      BY <3>1, <3>2
  <2>3. history["writtenLate"] \subseteq history'["writtenLate"] /\ (file[s] = 0 => s \in history'["writtenLate"])
    <3>1. CASE file[s] = 0
      BY <1>2, <2>1, <3>1, Notes DEF EventTypes, Events
    <3>2. CASE file[s] # 0
      BY <1>2, <2>1, <3>2 DEF EventTypes
    <3> QED
      BY <3>1, <3>2
  <2>4. fd' \in [Segs -> {"closed", "linked", "unlinked"}] /\ \A r \in Segs : fd'[r] = "linked" => r \in sidecar'
    BY <1>2, <2>1
  <2> QED
    BY <1>1, <1>3, <2>1, <2>2, <2>3, <2>4
<1> QED
  BY <1>4, <1>5

LEMMA HandleWritesTypes == ASSUME Types, NEW d \in Det, HandleWrites(d) PROVE Types'
<1>1. /\ d.seg \in started /\ Resolves(d) /\ AppendLine(d)
      /\ detections < MaxDetections /\ detections' = detections + 1
      /\ UNCHANGED <<diskVars, managerVars, pending, failures>>
  BY DEF HandleWrites, Arrives
<1>2. /\ cache' \in [Cameras -> [seg : Segs, end : 1 .. Full] \cup {None}]
      /\ fd' \in [Segs -> {"closed", "linked", "unlinked"}]
      /\ \A r \in Segs : fd'[r] = "linked" => r \in sidecar'
      /\ sidecar' \subseteq sidecar \cup {d.seg}
      /\ EventTypes'
  BY <1>1, Appends
<1>3. DiskTypes' /\ RowTypes'
  BY <1>1 DEF Types, DiskTypes, RowTypes, diskVars
<1>4. ManagerTypes'
  BY <1>1 DEF Types, ManagerTypes, managerVars
<1>5. WriterTypes'
  BY <1>1, <1>2, Bounds DEF Types, WriterTypes, diskVars
<1>6. StartedFirst'
  BY <1>1 DEF Types, StartedFirst, InMotion, diskVars, managerVars
<1> QED
  BY <1>2, <1>3, <1>4, <1>5, <1>6 DEF Types

LEMMA HandleDefersTypes == ASSUME Types, NEW d \in Det, HandleDefers(d) PROVE Types'
<1>1. /\ d.seg \in started /\ pending' = pending \cup {d} /\ (Fails \/ failures' = failures)
      /\ detections < MaxDetections /\ detections' = detections + 1
      /\ UNCHANGED <<diskVars, managerVars, fd, cache, sidecar, history>>
  BY DEF HandleDefers, Arrives
<1>2. DiskTypes' /\ RowTypes'
  BY <1>1 DEF Types, DiskTypes, RowTypes, diskVars
<1>3. ManagerTypes'
  BY <1>1 DEF Types, ManagerTypes, managerVars
<1>4. WriterTypes'
  BY <1>1, Bounds DEF Types, WriterTypes, diskVars
<1>5. StartedFirst'
  BY <1>1 DEF Types, StartedFirst, InMotion, diskVars, managerVars
<1>6. EventTypes'
  BY <1>1, FailsOnce DEF Types, EventTypes
<1> QED
  BY <1>2, <1>3, <1>4, <1>5, <1>6 DEF Types

LEMMA FlushWritesTypes == ASSUME Types, NEW d \in Det, FlushWrites(d) PROVE Types'
<1>1. /\ d \in pending /\ Resolves(d) /\ AppendLine(d) /\ pending' = pending \ {d}
      /\ UNCHANGED <<diskVars, managerVars, detections, failures>>
  BY DEF FlushWrites
<1>2. d.seg \in started
  BY <1>1 DEF Types, StartedFirst, InMotion, Det
<1>3. /\ cache' \in [Cameras -> [seg : Segs, end : 1 .. Full] \cup {None}]
      /\ fd' \in [Segs -> {"closed", "linked", "unlinked"}]
      /\ \A r \in Segs : fd'[r] = "linked" => r \in sidecar'
      /\ sidecar' \subseteq sidecar \cup {d.seg}
      /\ EventTypes'
  BY <1>1, <1>2, Appends
<1>4. DiskTypes' /\ RowTypes'
  BY <1>1 DEF Types, DiskTypes, RowTypes, diskVars
<1>5. ManagerTypes'
  BY <1>1 DEF Types, ManagerTypes, managerVars
<1>6. WriterTypes'
  BY <1>1, <1>2, <1>3 DEF Types, WriterTypes, diskVars
<1>7. StartedFirst'
  BY <1>1 DEF Types, StartedFirst, InMotion, diskVars, managerVars
<1> QED
  BY <1>3, <1>4, <1>5, <1>6, <1>7 DEF Types

LEMMA FlushDropsTypes == ASSUME Types, NEW d \in Det, FlushDrops(d) PROVE Types'
<1>1. DiskTypes' /\ RowTypes' /\ EventTypes'
  BY DEF FlushDrops, Types, DiskTypes, RowTypes, EventTypes, diskVars
<1>2. ManagerTypes'
  BY DEF FlushDrops, Types, ManagerTypes, managerVars
<1>3. WriterTypes'
  BY DEF FlushDrops, Types, WriterTypes, diskVars
<1>4. StartedFirst'
  BY DEF FlushDrops, Types, StartedFirst, InMotion, managerVars, diskVars
<1> QED
  BY <1>1, <1>2, <1>3, <1>4 DEF Types

LEMMA RestartWriterTypes == ASSUME Types, RestartWriter PROVE Types'
<1>1. DiskTypes' /\ RowTypes'
  BY DEF RestartWriter, Types, DiskTypes, RowTypes, diskVars
<1>2. ManagerTypes'
  BY DEF RestartWriter, Types, ManagerTypes, managerVars
<1>3. WriterTypes'
  BY DEF RestartWriter, Types, WriterTypes, diskVars
<1>4. StartedFirst'
  BY DEF RestartWriter, Types, StartedFirst, InMotion, managerVars, diskVars
<1>5. EventTypes'
  BY FailsOnce DEF RestartWriter, Types, EventTypes
<1> QED
  BY <1>1, <1>2, <1>3, <1>4, <1>5 DEF Types

LEMMA StutterTypes == ASSUME Types, UNCHANGED vars PROVE Types'
<1> USE DEF Types, vars, diskVars, managerVars, writerVars
<1>1. DiskTypes' /\ RowTypes' /\ EventTypes'
  BY DEF DiskTypes, RowTypes, EventTypes
<1>2. ManagerTypes'
  BY DEF ManagerTypes
<1>3. WriterTypes'
  BY DEF WriterTypes
<1>4. StartedFirst'
  BY DEF StartedFirst, InMotion
<1> QED
  BY <1>1, <1>2, <1>3, <1>4

LEMMA NextTypes == Types /\ [Next]_vars => Types'
<1> SUFFICES ASSUME Types, [Next]_vars PROVE Types'
  OBVIOUS
<1>1. ASSUME NEW s \in Segs, StartSegment(s) \/ Grow(s) \/ Expire(s) \/ Protect(s) \/ CloseIdle(s)
      PROVE  Types'
  BY <1>1, StartTypes, GrowTypes, ExpireTypes, ProtectTypes, CloseTypes
<1>2. ASSUME NEW c \in Cameras, DeleteCamera(c)
      PROVE  Types'
  BY <1>2, CameraTypes
<1>3. ASSUME ManagerStep
      PROVE  Types'
  BY <1>3, TickTypes, RetentionTypes, RemoveTypes, RemoveFailsTypes, DeleteRowTypes, DeleteRowFailsTypes,
     QuotaTypes, NextCameraTypes, PressureTypes, EndTypes DEF ManagerStep
<1>4. ASSUME NEW d \in Det, HandleWrites(d) \/ HandleDefers(d) \/ FlushWrites(d) \/ FlushDrops(d)
      PROVE  Types'
  BY <1>4, HandleWritesTypes, HandleDefersTypes, FlushWritesTypes, FlushDropsTypes
<1> QED
  BY <1>1, <1>2, <1>3, <1>4, QueryFailsTypes, AnswerLostTypes, RestartManagerTypes, RestartWriterTypes, StutterTypes
     DEF Next

-----------------------------------------------------------------------------
(* What a purge has selected *)

\* A selected video began, and is not protected unless it was so too late.
Selected ==
    \A i \in DOMAIN todo :
        /\ todo[i].seg \in started
        /\ row[todo[i].seg] # None /\ row[todo[i].seg].protected => todo[i].seg \in history["protectedLate"]

\* Files go before the row.
SeenGone == \A s \in seen : file[s] = 0

\* The list is in the order of started_at.
InSequence == \A i, j \in DOMAIN todo : i < j => todo[i].seg < todo[j].seg

\* The memo has the size that the row has, and the file has at least it.
MemoTrue ==
    failures = 0 =>
        /\ history["rowKept"] = {}
        /\ \A s \in Segs : file[s] > 0 => memo[s] <= file[s]
        /\ \A s \in Segs : row[s] # None => row[s].bytes = memo[s]

\* No video of the same camera is older than a selected one, unless it is selected.
OldestFirst ==
    failures = 0 /\ phase \in {"quota", "pressure"} =>
        \A i \in DOMAIN todo : \A r \in Unprotected(OfCamera(CamOf[todo[i].seg])) :
            r < todo[i].seg /\ file[r] > 0 => \E j \in DOMAIN todo : todo[j].seg = r

\* What the memo knows to be on disk of a camera.
Known(c) == Cardinality({u \in OfCamera(c) \X (1 .. Full) : file[u[1]] > 0 /\ u[2] <= memo[u[1]]})

\* Quota works on one camera, with the sizes the memo knows, ...
OneCamera == \A i, j \in DOMAIN todo : CamOf[todo[i].seg] = CamOf[todo[j].seg]

SizesTrue ==
    \A i \in DOMAIN todo : /\ todo[i].size = memo[todo[i].seg]
                           /\ file[todo[i].seg] > 0 \/ todo[i].seg \in seen

\* ... its total is at most what is known, the video just removed left out, ...
TallyTrue ==
    \A c \in Cameras :
        todo # <<>> /\ c = CamOf[Head(todo).seg] =>
            /\ seen = {} => tally <= Known(c)
            /\ seen # {} => tally - Head(todo).size <= Known(c)

\* ... and so are the totals of the cameras it has not come to.
OverTrue ==
    \A c \in Cameras : \A o \in over :
        o.cam = c => /\ o.total <= Known(c)
                     /\ \A p \in over : p.cam = c => p = o
                     /\ todo # <<>> => c # CamOf[Head(todo).seg]

QuotaTrue == failures = 0 /\ phase = "quota" => OneCamera /\ SizesTrue /\ TallyTrue /\ OverTrue

Purging == GhostsExplained /\ Selected /\ SeenGone /\ InSequence /\ MemoTrue /\ OldestFirst /\ QuotaTrue

LEMMA Sizes ==
    ASSUME Types
    PROVE  /\ \A s \in Segs : file[s] \in Int /\ file[s] >= 0 /\ memo[s] \in Int /\ memo[s] >= 0 /\ memo[s] <= Full
           /\ failures \in Nat
           /\ tally \in Int
           /\ \A o \in over : o.cam \in Cameras /\ o.total \in Int
BY Bounds DEF Types, DiskTypes, ManagerTypes, EventTypes

LEMMA KnownIs ==
    ASSUME NEW c
    PROVE  Known(c) \in Nat
BY Units DEF Known, OfCamera

LEMMA KnownNat == \A c \in Cameras : Known(c) \in Nat
BY KnownIs

\* What is known of a camera grows with its files, loses a removed one,
\* is no more than what was recorded, and no less than its rows say.
LEMMA KnownGrows ==
    ASSUME Types, Types', NEW c,
           \A s \in OfCamera(c) : file[s] > 0 /\ memo[s] > 0 => file'[s] > 0 /\ memo'[s] >= memo[s]
    PROVE  Known(c) <= Known(c)' /\ Known(c)' \in Nat
<1> DEFINE T == {u \in OfCamera(c) \X (1 .. Full) : file[u[1]] > 0 /\ u[2] <= memo[u[1]]}
           U == {u \in OfCamera(c) \X (1 .. Full) : file'[u[1]] > 0 /\ u[2] <= memo'[u[1]]}
<1>1. OfCamera(c) \in SUBSET Segs
  BY DEF OfCamera
<1>2. U \in SUBSET (Segs \X (1 .. Full))
  BY <1>1
<1>3. \A s \in OfCamera(c) : /\ memo[s] \in Int /\ memo'[s] \in Int /\ file[s] \in Int
  BY <1>1 DEF Types, DiskTypes, ManagerTypes
<1>4. ASSUME NEW s \in OfCamera(c), NEW k \in 1 .. Full, file[s] > 0, k <= memo[s]
      PROVE  file'[s] > 0 /\ k <= memo'[s]
  BY <1>3, <1>4
<1>5. T \in SUBSET U
  BY <1>4
<1>6. Cardinality(T) <= Cardinality(U) /\ Cardinality(U) \in Nat
  <2> HIDE DEF T, U
  <2> QED
    BY <1>2, <1>5, Units
<1>7. Known(c) = Cardinality(T) /\ Known(c)' = Cardinality(U)
  BY DEF Known, OfCamera
<1> QED
  BY <1>6, <1>7

LEMMA KnownLoses ==
    ASSUME Types, NEW s \in Segs,
           \A r \in Segs : file'[r] = IF r = s THEN 0 ELSE file[r], memo' = memo
    PROVE  Known(CamOf[s]) <= Known(CamOf[s])' + memo[s]
<1> DEFINE c == CamOf[s]
           T == {u \in OfCamera(c) \X (1 .. Full) : file[u[1]] > 0 /\ u[2] <= memo[u[1]]}
           U == {u \in OfCamera(c) \X (1 .. Full) : file'[u[1]] > 0 /\ u[2] <= memo'[u[1]]}
           B == {s} \X (1 .. memo[s])
<1>1. OfCamera(c) \in SUBSET Segs /\ memo[s] \in 0 .. Full
  BY DEF OfCamera, Types, ManagerTypes
<1>2. U \in SUBSET (Segs \X (1 .. Full))
  BY <1>1
<1>3. B \in SUBSET (Segs \X (1 .. Full)) /\ Cardinality(B) = memo[s]
  BY <1>1, UnitsOfOne
<1>4. T \in SUBSET (U \cup B)
  <2>1. ASSUME NEW r \in OfCamera(c), NEW k \in 1 .. Full, file[r] > 0, k <= memo[r]
        PROVE  <<r, k>> \in U \cup B
    BY <1>1, <2>1
  <2> QED
    BY <2>1
<1> DEFINE K == Known(c)'
<1>5. Known(c) = Cardinality(T) /\ K = Cardinality(U)
  BY DEF Known, OfCamera
<1> HIDE DEF T, U, B
<1>6. IsFiniteSet(U) /\ IsFiniteSet(B) /\ Cardinality(U) \in Nat
  BY <1>2, <1>3, Units
<1>7. Cardinality(U \cup B) = Cardinality(U) + Cardinality(B) - Cardinality(U \cap B)
  BY <1>6, FS_Union
<1>8. Cardinality(U \cap B) \in Nat
  BY <1>2, Units
<1>9. U \cup B \in SUBSET (Segs \X (1 .. Full))
  BY <1>2, <1>3
<1>10. Cardinality(T) <= Cardinality(U \cup B) /\ Cardinality(T) \in Nat
  BY <1>4, <1>9, Units
<1>11. memo[s] \in Int
  BY <1>1
<1> QED
  BY <1>3, <1>5, <1>6, <1>7, <1>8, <1>10, <1>11

LEMMA KnownRecorded ==
    ASSUME Types, NEW c, \A s \in Segs : file[s] > 0 => memo[s] <= file[s]
    PROVE  Known(c) <= Recorded(OfCamera(c)) /\ Recorded(OfCamera(c)) \in Nat
<1> DEFINE T == {u \in OfCamera(c) \X (1 .. Full) : file[u[1]] > 0 /\ u[2] <= memo[u[1]]}
           U == {u \in OfCamera(c) \X (1 .. Full) : u[2] <= file[u[1]]}
<1>1. OfCamera(c) \in SUBSET Segs
  BY DEF OfCamera
<1>2. U \in SUBSET (Segs \X (1 .. Full))
  BY <1>1
<1>3. T \in SUBSET U
  <2>1. ASSUME NEW s \in OfCamera(c), NEW k \in 1 .. Full, file[s] > 0, k <= memo[s]
        PROVE  k <= file[s]
    <3>1. memo[s] \in Int /\ file[s] \in Int /\ memo[s] <= file[s] /\ k \in Int
      BY <1>1, <2>1, Sizes
    <3> QED
      BY <2>1, <3>1
  <2> QED
    BY <2>1
<1>4. Cardinality(T) <= Cardinality(U) /\ Cardinality(U) \in Nat
  <2> HIDE DEF T, U
  <2> QED
    BY <1>2, <1>3, Units
<1> QED
  BY <1>4 DEF Known, Recorded

LEMMA BytesKnown ==
    ASSUME Types, NEW c, \A s \in Segs : row[s] # None => row[s].bytes = memo[s] /\ file[s] > 0
    PROVE  Bytes(OfCamera(c)) <= Known(c)
<1> DEFINE T == {u \in Rows(OfCamera(c)) \X (1 .. Full) : u[2] <= row[u[1]].bytes}
           U == {u \in OfCamera(c) \X (1 .. Full) : file[u[1]] > 0 /\ u[2] <= memo[u[1]]}
<1>1. U \in SUBSET (Segs \X (1 .. Full))
  BY DEF OfCamera
<1>2. T \in SUBSET U
  BY DEF Rows, OfCamera
<1>3. Cardinality(T) <= Cardinality(U)
  <2> HIDE DEF T, U
  <2> QED
    BY <1>1, <1>2, Units
<1> QED
  BY <1>3 DEF Known, Bytes

LEMMA InitPurging == Init => Purging
<1> SUFFICES ASSUME Init PROVE Purging
  OBVIOUS
<1>1. todo = <<>> /\ DOMAIN todo = {}
  BY DEF Init
<1>2. GhostsExplained
  BY DEF Init, GhostsExplained
<1>3. Selected /\ SeenGone /\ InSequence /\ OldestFirst
  BY <1>1 DEF Init, Selected, SeenGone, InSequence, OldestFirst
<1>4. MemoTrue
  BY DEF Init, MemoTrue, Events
<1>5. QuotaTrue
  BY DEF Init, QuotaTrue
<1> QED
  BY <1>2, <1>3, <1>4, <1>5 DEF Purging

\* A step that storage-manager has no part in.
Aside ==
    /\ UNCHANGED managerVars
    /\ started \subseteq started'
    /\ failures <= failures'
    /\ history'["rowKept"] = history["rowKept"] /\ history["protectedLate"] \subseteq history'["protectedLate"]
    /\ \A s \in Segs :
        /\ file[s] > 0 => file'[s] >= file[s]
        /\ file[s] = 0 /\ file'[s] > 0 => s \notin started
        /\ row'[s] # None => row[s] # None /\ row'[s].bytes = row[s].bytes /\ (~row'[s].protected => ~row[s].protected)
        /\ row'[s] # None /\ row'[s].protected /\ (\E i \in DOMAIN todo : todo[i].seg = s)
              => row[s].protected \/ s \in history'["protectedLate"]

LEMMA AsidePurging == ASSUME Types, Types', Purging, Aside PROVE Purging'
<1>1. /\ memo' = memo /\ phase' = phase /\ todo' = todo /\ seen' = seen /\ over' = over /\ tally' = tally
      /\ failures' = 0 => failures = 0
  <2>1. failures \in Nat /\ failures' \in Nat /\ failures <= failures'
    BY Sizes DEF Aside, Types, EventTypes
  <2> QED
    BY <2>1 DEF Aside, managerVars
<1>2. \A s \in Segs :
         /\ file[s] \in Nat /\ file'[s] \in Nat /\ memo[s] \in Nat
         /\ s \notin started => row[s] = None /\ memo[s] = 0
  BY Sizes DEF Types, DiskTypes, RowTypes, ManagerTypes, StartedFirst, InMotion
<1>3. \A s \in Segs : file[s] > 0 => file'[s] > 0
  BY <1>2 DEF Aside
<1>4. \A s \in Segs : row[s] # None /\ file'[s] > 0 => file[s] > 0
  BY <1>2 DEF Aside
<1>5. GhostsExplained'
  <2>1. ASSUME NEW s \in Segs, row'[s] # None, file'[s] = 0
        PROVE  s \in seen' \cup history'["rowKept"]
    <3>1. row[s] # None /\ file[s] = 0
      BY <1>2, <1>3, <2>1 DEF Aside
    <3> QED
      BY <1>1, <3>1 DEF Purging, GhostsExplained, Aside
  <2> QED
    BY <2>1 DEF GhostsExplained
<1>6. Selected'
  <2>1. ASSUME NEW i \in DOMAIN todo
        PROVE  /\ todo[i].seg \in started'
               /\ row'[todo[i].seg] # None /\ row'[todo[i].seg].protected => todo[i].seg \in history'["protectedLate"]
    <3>1. PICK s \in Segs : s = todo[i].seg
      BY TodoIs
    <3>2. s \in started /\ (row[s] # None /\ row[s].protected => s \in history["protectedLate"])
      BY <3>1 DEF Purging, Selected
    <3> QED
      BY <3>1, <3>2 DEF Aside
  <2> QED
    BY <1>1, <2>1 DEF Selected
<1>7. SeenGone'
  <2>1. ASSUME NEW s \in seen
        PROVE  file'[s] = 0
    <3>1. s \in Segs /\ 1 \in DOMAIN todo /\ s = todo[1].seg
      BY TodoIs
    <3>2. file[s] = 0 /\ s \in started
      BY <3>1 DEF Purging, SeenGone, Selected
    <3> QED
      BY <1>2, <3>1, <3>2 DEF Aside
  <2> QED
    BY <1>1, <2>1 DEF SeenGone
<1>8. InSequence'
  BY <1>1 DEF Purging, InSequence
<1>9. MemoTrue'
  <2> SUFFICES ASSUME failures' = 0
               PROVE  /\ history'["rowKept"] = {}
                      /\ \A s \in Segs : file'[s] > 0 => memo'[s] <= file'[s]
                      /\ \A s \in Segs : row'[s] # None => row'[s].bytes = memo'[s]
    BY DEF MemoTrue
  <2>1. /\ history["rowKept"] = {}
        /\ \A s \in Segs : file[s] > 0 => memo[s] <= file[s]
        /\ \A s \in Segs : row[s] # None => row[s].bytes = memo[s]
    BY <1>1 DEF Purging, MemoTrue
  <2>2. ASSUME NEW s \in Segs, file'[s] > 0
        PROVE  memo[s] <= file'[s]
    <3>1. CASE file[s] > 0
      BY <1>2, <2>1, <3>1 DEF Aside
    <3>2. CASE file[s] = 0
      BY <1>2, <2>2, <3>2 DEF Aside
    <3> QED
      BY <1>2, <3>1, <3>2
  <2> QED
    BY <1>1, <2>1, <2>2 DEF Aside
<1>10. OldestFirst'
  <2> SUFFICES ASSUME failures' = 0, phase' \in {"quota", "pressure"},
                      NEW i \in DOMAIN todo, NEW r \in Segs,
                      CamOf[r] = CamOf[todo[i].seg], row'[r] # None, ~row'[r].protected,
                      r < todo[i].seg, file'[r] > 0
               PROVE  \E j \in DOMAIN todo : todo[j].seg = r
    BY <1>1 DEF OldestFirst, Unprotected, Rows, OfCamera
  <2>1. row[r] # None /\ ~row[r].protected
    BY DEF Aside
  <2>2. file[r] > 0
    BY <1>4, <2>1
  <2>3. r \in Unprotected(OfCamera(CamOf[todo[i].seg]))
    BY <2>1 DEF Unprotected, Rows, OfCamera
  <2> QED
    BY <1>1, <2>2, <2>3 DEF Purging, OldestFirst
<1>11. QuotaTrue'
  <2> SUFFICES ASSUME failures = 0, phase = "quota"
               PROVE  OneCamera' /\ SizesTrue' /\ TallyTrue' /\ OverTrue'
    BY <1>1 DEF QuotaTrue
  <2>1. OneCamera /\ SizesTrue /\ TallyTrue /\ OverTrue
    BY DEF Purging, QuotaTrue
  <2>2. OneCamera'
    BY <1>1, <2>1 DEF OneCamera
  <2>3. SizesTrue'
    <3>1. \A i \in DOMAIN todo : todo[i].seg \in Segs
      BY TodoIs
    <3> QED
      BY <1>1, <1>3, <2>1, <3>1 DEF SizesTrue
  <2>4. \A c \in Cameras : Known(c) <= Known(c)' /\ Known(c) \in Nat /\ Known(c)' \in Nat
    <3> TAKE c \in Cameras
    <3>1. \A s \in OfCamera(c) : file[s] > 0 /\ memo[s] > 0 => file'[s] > 0 /\ memo'[s] >= memo[s]
      BY <1>1, <1>2, <1>3 DEF OfCamera
    <3> QED
      BY <3>1, KnownGrows, KnownIs
  <2>5. TallyTrue'
    <3>1. ASSUME NEW c \in Cameras, todo # <<>>, c = CamOf[Head(todo).seg]
          PROVE  /\ seen = {} => tally <= Known(c)'
                 /\ seen # {} => tally - Head(todo).size <= Known(c)'
      <4>1. Head(todo).size \in Int /\ tally \in Int
        BY <3>1, TodoIs, Sizes
      <4>2. /\ seen = {} => tally <= Known(c)
            /\ seen # {} => tally - Head(todo).size <= Known(c)
        BY <2>1, <3>1 DEF TallyTrue
      <4> QED
        BY <2>4, <4>1, <4>2
    <3> QED
      BY <1>1, <3>1 DEF TallyTrue
  <2>6. OverTrue'
    <3>1. ASSUME NEW c \in Cameras, NEW o \in over, o.cam = c
          PROVE  o.total <= Known(c)'
      <4>1. o.total \in Int /\ o.total <= Known(c)
        BY <2>1, <3>1, Sizes DEF OverTrue
      <4> QED
        BY <2>4, <4>1
    <3> QED
      BY <1>1, <2>1, <3>1 DEF OverTrue
  <2> QED
    BY <2>2, <2>3, <2>5, <2>6
<1> QED
  BY <1>5, <1>6, <1>7, <1>8, <1>9, <1>10, <1>11 DEF Purging

LEMMA HistoryOf ==
    ASSUME Types, NEW e \in Events, NEW s \in Segs, Note(e, s), NEW d \in Events
    PROVE  history[d] \subseteq history'[d] /\ (d # e => history'[d] = history[d])
BY Notes DEF Types

LEMMA FailuresGrow ==
    ASSUME Types, Fails
    PROVE  failures <= failures' /\ failures' # 0
BY Sizes DEF Fails

LEMMA RowOf ==
    ASSUME Types, NEW s \in Segs, row[s] # None
    PROVE  row[s] \in Row /\ row[s].protected \in BOOLEAN
BY DEF Types, RowTypes, Row

LEMMA AsideSteps ==
    ASSUME Types
    PROVE  /\ \A s \in Segs : StartSegment(s) \/ Grow(s) \/ Expire(s) \/ Protect(s) \/ CloseIdle(s) => Aside
           /\ \A c \in Cameras : DeleteCamera(c) => Aside
           /\ \A d \in Det : HandleWrites(d) \/ HandleDefers(d) \/ FlushWrites(d) \/ FlushDrops(d) => Aside
           /\ RestartWriter => Aside
           /\ UNCHANGED vars => Aside
<1>1. /\ failures \in Nat /\ \A s \in Segs : file[s] \in Nat
      /\ file \in [Segs -> 0 .. Full] /\ row \in [Segs -> Row \cup {None}]
  BY Sizes DEF Types, DiskTypes, RowTypes
<1>2. ASSUME NEW s \in Segs, StartSegment(s) PROVE Aside
  <2>1. file[s] = 0 /\ s \notin started
    BY <1>1, <1>2 DEF StartSegment, Types, StartedFirst, InMotion
  <2> QED
    BY <1>1, <1>2, <2>1 DEF StartSegment, Aside
<1>3. ASSUME NEW s \in Segs, Grow(s) PROVE Aside
  BY <1>1, <1>3, Bounds DEF Grow, Aside
<1>4. ASSUME NEW s \in Segs, Expire(s) PROVE Aside
  BY <1>1, <1>4 DEF Expire, Aside
<1>5. ASSUME NEW s \in Segs, CloseIdle(s) PROVE Aside
  BY <1>1, <1>5 DEF CloseIdle, Aside, diskVars
<1>6. ASSUME NEW s \in Segs, Protect(s) PROVE Aside
  <2>1. PICK b \in 0 .. Full : row[s] = [bytes |-> b, protected |-> FALSE]
    <3>1. row[s] \in Row /\ ~row[s].protected
      BY <1>1, <1>6 DEF Protect
    <3> QED
      BY <3>1 DEF Row
  <2>2. /\ \A r \in Segs : r # s => row'[r] = row[r]
        /\ row'[s].bytes = row[s].bytes /\ row[s] # None
        /\ row'[s].protected
    <3>1. row' = [row EXCEPT ![s].protected = TRUE] /\ row[s] # None
      BY <1>6 DEF Protect
    <3> DEFINE q == TRUE
    <3>2. q \in BOOLEAN
      OBVIOUS
    <3>3. row' = [row EXCEPT ![s] = [row[s] EXCEPT !.protected = q]]
      BY <3>1, Zenon
    <3> HIDE DEF q
    <3>4. [row[s] EXCEPT !.protected = q] = [bytes |-> b, protected |-> q]
      BY <2>1, <3>2
    <3>5. row'[s] = [bytes |-> b, protected |-> q] /\ \A r \in Segs : r # s => row'[r] = row[r]
      BY <1>1, <3>3, <3>4
    <3>6. row'[s].bytes = b /\ row'[s].protected = q /\ row[s].bytes = b
      BY <2>1, <3>2, <3>5
    <3> QED
      BY <3>1, <3>5, <3>6 DEF q
  <2>3. /\ history'["rowKept"] = history["rowKept"] /\ history["protectedLate"] \subseteq history'["protectedLate"]
        /\ (\E i \in DOMAIN todo : todo[i].seg = s) => s \in history'["protectedLate"]
    <3>1. CASE s \in seen \/ \E i \in DOMAIN todo : todo[i].seg = s
      <4>1. Note("protectedLate", s) /\ "protectedLate" \in Events /\ "rowKept" \in Events
        BY <1>6, <3>1 DEF Protect, Events
      <4> QED
        BY <4>1, Notes, HistoryOf DEF Types
    <3>2. CASE ~(s \in seen \/ \E i \in DOMAIN todo : todo[i].seg = s)
      BY <1>6, <3>2 DEF Protect
    <3> QED
      BY <3>1, <3>2
  <2>4. UNCHANGED <<managerVars, started, failures, file>>
    BY <1>6 DEF Protect
  <2> QED
    BY <1>1, <2>2, <2>3, <2>4 DEF Aside
<1>7. ASSUME NEW c \in Cameras, DeleteCamera(c) PROVE Aside
  BY <1>1, <1>7 DEF DeleteCamera, Aside
<1>8. ASSUME NEW d \in Det, HandleWrites(d) \/ FlushWrites(d) PROVE Aside
  <2>1. Resolves(d) /\ AppendLine(d) /\ d.seg \in started
    BY <1>8 DEF HandleWrites, FlushWrites, Arrives, Types, StartedFirst, InMotion, Det
  <2>2. UNCHANGED <<diskVars, managerVars, failures>>
    BY <1>8 DEF HandleWrites, FlushWrites
  <2>3. history'["rowKept"] = history["rowKept"] /\ history'["protectedLate"] = history["protectedLate"]
    <3>1. \A e \in Events : e # "writtenLate" => history'[e] = history[e]
      BY <2>1, <2>2, Appends
    <3> QED
      BY <3>1 DEF Events
  <2> QED
    BY <1>1, <2>2, <2>3 DEF Aside, diskVars
<1>9. ASSUME NEW d \in Det, HandleDefers(d) PROVE Aside
  <2>1. failures <= failures'
    BY <1>1, <1>9, FailuresGrow DEF HandleDefers
  <2> QED
    BY <1>1, <1>9, <2>1 DEF HandleDefers, Aside, diskVars
<1>10. ASSUME NEW d \in Det, FlushDrops(d) PROVE Aside
  BY <1>1, <1>10 DEF FlushDrops, Aside, diskVars
<1>11. ASSUME RestartWriter PROVE Aside
  <2>1. failures <= failures'
    BY <1>11, FailuresGrow DEF RestartWriter
  <2> QED
    BY <1>1, <1>11, <2>1 DEF RestartWriter, Aside, diskVars
<1>12. ASSUME UNCHANGED vars PROVE Aside
  BY <1>1, <1>12 DEF vars, Aside, diskVars, managerVars
<1> QED
  BY <1>2, <1>3, <1>4, <1>5, <1>6, <1>7, <1>8, <1>9, <1>10, <1>11, <1>12

\* A query's answer.
LEMMA Chosen ==
    ASSUME Types, NEW S \in SUBSET Segs, NEW q, q = InOrder(Unprotected(S))
    PROVE  /\ \A i \in DOMAIN q :
                 /\ q[i].seg \in S /\ q[i].seg \in started
                 /\ row[q[i].seg] # None /\ ~row[q[i].seg].protected
                 /\ q[i].size = row[q[i].seg].bytes
           /\ \A i, j \in DOMAIN q : i < j => q[i].seg < q[j].seg
           /\ \A s \in Unprotected(S) : \E i \in DOMAIN q : q[i].seg = s
           /\ q # <<>> => 1 \in DOMAIN q /\ Head(q) = q[1]
<1> DEFINE U == Unprotected(S)
           n == Cardinality(U)
<1>1. U \in SUBSET Segs /\ \A s \in U : s \in S /\ row[s] # None /\ ~row[s].protected
  BY UnprotectedAre
<1>2. /\ n \in Nat
      /\ DOMAIN q = 1 .. n
      /\ \A i \in 1 .. n : \E s \in U : q[i] = [seg |-> s, size |-> row[s].bytes]
      /\ \A i, j \in 1 .. n : i < j => q[i].seg < q[j].seg
      /\ \A s \in U : \E i \in 1 .. n : q[i].seg = s
  <2> HIDE DEF U
  <2> QED
    BY <1>1, InOrderIs DEF U
<1>3. q \in Seq([seg : Segs, size : 1 .. Full])
  BY <1>1, SelectionTypes
<1> HIDE DEF U, n
<1>4. \A i \in 1 .. n : q[i].seg \in U /\ q[i].size = row[q[i].seg].bytes
  <2> TAKE i \in 1 .. n
  <2>1. PICK s \in U : q[i] = [seg |-> s, size |-> row[s].bytes]
    BY <1>2
  <2>2. q[i].seg = s /\ q[i].size = row[s].bytes
    BY <2>1
  <2> QED
    BY <2>2
<1>5. \A s \in U : s \in started
  BY <1>1 DEF Types, RowTypes
<1>6. q # <<>> => 1 \in DOMAIN q /\ Head(q) = q[1]
  BY <1>3
<1> QED
  BY <1>1, <1>2, <1>4, <1>5, <1>6 DEF U

\* A pass that begins with nothing, or with the answer of a query.
LEMMA BeginPurging ==
    ASSUME Types, Purging, seen = {},
           NEW S \in SUBSET Segs, NEW p, NEW t, NEW q, q = <<>> \/ q = InOrder(Unprotected(S)),
           Begin(p, q, t),
           UNCHANGED <<diskVars, memo, writerVars, sidecar, failures, history>>
    PROVE  GhostsExplained' /\ Selected' /\ SeenGone' /\ InSequence' /\ MemoTrue'
<1>1. /\ todo' = q /\ seen' = {}
      /\ UNCHANGED <<file, row, started, memo, failures, history>>
  BY DEF Begin, diskVars
<1>2. GhostsExplained'
  BY <1>1 DEF Purging, GhostsExplained
<1>3. Selected' /\ InSequence'
  <2>1. CASE q = <<>>
    BY <1>1, <2>1 DEF Selected, InSequence
  <2>2. CASE q = InOrder(Unprotected(S))
    <3>1. /\ \A i \in DOMAIN q : q[i].seg \in started /\ ~row[q[i].seg].protected
          /\ \A i, j \in DOMAIN q : i < j => q[i].seg < q[j].seg
      BY <2>2, Chosen
    <3> QED
      BY <1>1, <3>1 DEF Selected, InSequence
  <2> QED
    BY <2>1, <2>2
<1>4. SeenGone'
  BY <1>1 DEF SeenGone
<1>5. MemoTrue'
  BY <1>1 DEF Purging, MemoTrue
<1> QED
  BY <1>2, <1>3, <1>4, <1>5

LEMMA EmptyPurging ==
    ASSUME Types, Purging, seen = {}, NEW p, NEW t,
           Begin(p, <<>>, t), p # "quota" \/ over' = {},
           UNCHANGED <<diskVars, memo, writerVars, sidecar, failures, history>>
    PROVE  Purging'
<1>1. GhostsExplained' /\ Selected' /\ SeenGone' /\ InSequence' /\ MemoTrue'
  BY BeginPurging
<1>2. todo' = <<>> /\ DOMAIN todo' = {} /\ phase' = p
  BY DEF Begin
<1>3. OldestFirst'
  BY <1>2 DEF OldestFirst
<1>4. QuotaTrue'
  <2>1. CASE p # "quota"
    BY <1>2, <2>1 DEF QuotaTrue
  <2>2. CASE over' = {}
    BY <1>2, <2>2 DEF QuotaTrue, OneCamera, SizesTrue, TallyTrue, OverTrue
  <2> QED
    BY <2>1, <2>2
<1> QED
  BY <1>1, <1>3, <1>4 DEF Purging

LEMMA RetentionPurging == ASSUME Types, Purging, StartRetention PROVE Purging'
<1>1. /\ Begin("retention", InOrder(Unprotected(expired)), 0) /\ phase = "indexed"
      /\ UNCHANGED <<diskVars, memo, writerVars, sidecar, failures, history>>
  BY DEF StartRetention
<1>2. seen = {} /\ expired \in SUBSET Segs
  BY <1>1, TodoIs DEF Passes, Types, DiskTypes
<1>3. PICK q : q = InOrder(Unprotected(expired))
  OBVIOUS
<1>4. GhostsExplained' /\ Selected' /\ SeenGone' /\ InSequence' /\ MemoTrue'
  BY <1>1, <1>2, <1>3, BeginPurging
<1>5. phase' = "retention"
  BY <1>1 DEF Begin
<1>6. OldestFirst' /\ QuotaTrue'
  BY <1>5 DEF OldestFirst, QuotaTrue
<1> QED
  BY <1>4, <1>6 DEF Purging

\* Before a pass over rows, nothing having failed, every row has a file of at least its size.
LEMMA RowsOfFiles ==
    ASSUME Types, Purging, seen = {}, failures = 0
    PROVE  \A s \in Segs : row[s] # None => row[s].bytes = memo[s] /\ file[s] > 0
<1>1. history["rowKept"] = {} /\ \A s \in Segs : row[s] # None => row[s].bytes = memo[s]
  BY DEF Purging, MemoTrue
<1>2. \A s \in Segs : row[s] # None => file[s] # 0
  BY <1>1 DEF Purging, GhostsExplained
<1> QED
  BY <1>1, <1>2, Sizes

LEMMA QuotaPurging == ASSUME Types, Types', Purging, StartQuota PROVE Purging'
<1>1. /\ Begin("quota", <<>>, 0) /\ seen = {}
      /\ over' = {[cam |-> c, total |-> Bytes(OfCamera(c))] : c \in {d \in cameras : Bytes(OfCamera(d)) > Quota[d]}}
      /\ UNCHANGED <<diskVars, memo, writerVars, sidecar, failures, history>>
  BY DEF StartQuota, PassDone
<1>2. {} \in SUBSET Segs
  OBVIOUS
<1>3. GhostsExplained' /\ Selected' /\ SeenGone' /\ InSequence' /\ MemoTrue'
  BY <1>1, <1>2, BeginPurging
<1>4. todo' = <<>> /\ DOMAIN todo' = {} /\ failures' = failures
  BY <1>1 DEF Begin
<1>5. OldestFirst'
  BY <1>4 DEF OldestFirst
<1>6. ASSUME failures = 0 PROVE OverTrue'
  <2>1. \A s \in Segs : row[s] # None => row[s].bytes = memo[s] /\ file[s] > 0
    BY <1>1, <1>6, RowsOfFiles
  <2>2. \A c \in Cameras : Bytes(OfCamera(c)) <= Known(c)' /\ Bytes(OfCamera(c)) \in Nat
    <3> TAKE c \in Cameras
    <3>1. Bytes(OfCamera(c)) <= Known(c)
      BY <2>1, BytesKnown
    <3>2. Known(c) <= Known(c)' /\ Known(c)' \in Nat
      <4>1. memo' = memo /\ file' = file
        BY <1>1 DEF diskVars
      <4>2. \A s \in OfCamera(c) : file[s] > 0 /\ memo[s] > 0 => file'[s] > 0 /\ memo'[s] >= memo[s]
        BY <4>1, Sizes DEF OfCamera
      <4> QED
        BY <4>2, KnownGrows
    <3>3. Bytes(OfCamera(c)) \in Nat
      BY UnitSums DEF OfCamera
    <3>4. Known(c) \in Nat
      BY KnownIs
    <3> QED
      BY <3>1, <3>2, <3>3, <3>4
  <2>3. \A o \in over' : o.cam \in cameras /\ o = [cam |-> o.cam, total |-> Bytes(OfCamera(o.cam))] /\ o.total = Bytes(OfCamera(o.cam))
    BY <1>1
  <2>4. ASSUME NEW c \in Cameras, NEW o \in over', o.cam = c
        PROVE  /\ o.total <= Known(c)'
               /\ \A x \in over' : x.cam = c => x = o
    BY <2>2, <2>3, <2>4
  <2> QED
    BY <1>4, <2>4 DEF OverTrue
<1>7. QuotaTrue'
  BY <1>4, <1>6 DEF QuotaTrue, OneCamera, SizesTrue, TallyTrue
<1> QED
  BY <1>3, <1>5, <1>7 DEF Purging

LEMMA NextCameraPurging == ASSUME Types, Types', Purging, NextCamera PROVE Purging'
<1>1. phase = "quota" /\ seen = {} /\ UNCHANGED <<diskVars, memo, writerVars, sidecar, failures, history>>
  BY DEF NextCamera, PassDone
<1>2. PICK o \in over :
        /\ over' = over \ {o}
        /\ Begin("quota", InOrder(Unprotected(OfCamera(o.cam))), o.total)
  BY DEF NextCamera
<1>3. PICK k : k = o.cam
  OBVIOUS
<1>4. OfCamera(k) \in SUBSET Segs /\ k \in Cameras
  BY <1>3, Sizes DEF OfCamera
<1>5. PICK q : q = InOrder(Unprotected(OfCamera(k)))
  OBVIOUS
<1>6. GhostsExplained' /\ Selected' /\ SeenGone' /\ InSequence' /\ MemoTrue'
  BY <1>1, <1>2, <1>3, <1>4, <1>5, BeginPurging
<1>7. /\ todo' = q /\ seen' = {} /\ tally' = o.total /\ phase' = "quota"
      /\ UNCHANGED <<file, row, memo, failures>>
  BY <1>1, <1>2, <1>3, <1>5 DEF Begin, diskVars
<1>8. /\ \A i \in DOMAIN q : q[i].seg \in Segs /\ CamOf[q[i].seg] = k /\ row[q[i].seg] # None /\ q[i].size = row[q[i].seg].bytes
      /\ \A s \in Unprotected(OfCamera(k)) : \E i \in DOMAIN q : q[i].seg = s
      /\ q # <<>> => 1 \in DOMAIN q /\ Head(q) = q[1]
  <2>1. /\ \A i \in DOMAIN q : q[i].seg \in OfCamera(k) /\ row[q[i].seg] # None /\ q[i].size = row[q[i].seg].bytes
        /\ \A s \in Unprotected(OfCamera(k)) : \E i \in DOMAIN q : q[i].seg = s
        /\ q # <<>> => 1 \in DOMAIN q /\ Head(q) = q[1]
    BY <1>4, <1>5, Chosen
  <2> QED
    BY <2>1 DEF OfCamera
<1>9. OldestFirst'
  <2> SUFFICES ASSUME NEW i \in DOMAIN q, NEW r \in Segs,
                      CamOf[r] = CamOf[q[i].seg], row[r] # None, ~row[r].protected
               PROVE  \E j \in DOMAIN q : q[j].seg = r
    BY <1>7 DEF OldestFirst, Unprotected, Rows, OfCamera
  <2>1. r \in Unprotected(OfCamera(k))
    BY <1>8 DEF Unprotected, Rows, OfCamera
  <2> QED
    BY <1>8, <2>1
<1>10. ASSUME failures = 0 PROVE OneCamera' /\ SizesTrue' /\ TallyTrue' /\ OverTrue'
  <2>1. OverTrue
    BY <1>1, <1>10 DEF Purging, QuotaTrue
  <2>2. \A c \in Cameras : Known(c) <= Known(c)' /\ Known(c) \in Nat /\ Known(c)' \in Nat
    <3> TAKE c \in Cameras
    <3>1. \A s \in OfCamera(c) : file[s] > 0 /\ memo[s] > 0 => file'[s] > 0 /\ memo'[s] >= memo[s]
      BY <1>7, Sizes DEF OfCamera
    <3> QED
      BY <3>1, KnownGrows, KnownIs
  <2>3. \A s \in Segs : row[s] # None => row[s].bytes = memo[s] /\ file[s] > 0
    BY <1>1, <1>10, RowsOfFiles
  <2>4. OneCamera' /\ SizesTrue'
    BY <1>7, <1>8, <2>3 DEF OneCamera, SizesTrue
  <2>5. TallyTrue'
    <3>1. o.total <= Known(k)' /\ o.total \in Int
      <4>1. o.total <= Known(k) /\ o.total \in Int
        BY <1>3, <1>4, <2>1, Sizes DEF OverTrue
      <4> QED
        BY <1>4, <2>2, <4>1
    <3>2. q # <<>> => CamOf[Head(q).seg] = k
      BY <1>8
    <3> QED
      BY <1>7, <3>1, <3>2 DEF TallyTrue
  <2>6. OverTrue'
    <3>1. ASSUME NEW c \in Cameras, NEW x \in over', x.cam = c
          PROVE  /\ x.total <= Known(c)'
                 /\ \A p \in over' : p.cam = c => p = x
                 /\ c # k
      <4>1. x \in over /\ x # o /\ over' \subseteq over
        BY <1>2
      <4>2. x.total <= Known(c) /\ x.total \in Int /\ (\A p \in over : p.cam = c => p = x)
        BY <2>1, <3>1, <4>1, Sizes DEF OverTrue
      <4> QED
        BY <1>3, <2>2, <4>1, <4>2
    <3>2. q # <<>> => CamOf[Head(q).seg] = k
      BY <1>8
    <3> QED
      BY <1>7, <3>1, <3>2 DEF OverTrue
  <2> QED
    BY <2>4, <2>5, <2>6
<1>11. QuotaTrue'
  BY <1>7, <1>10 DEF QuotaTrue
<1> QED
  BY <1>6, <1>9, <1>11 DEF Purging

LEMMA PressurePurging == ASSUME Types, Purging, StartPressure PROVE Purging'
<1>1. /\ seen = {} /\ UNCHANGED <<diskVars, memo, writerVars, sidecar, failures, history>>
      /\ Begin("pressure", IF OnDisk > Capacity THEN InOrder(Unprotected(Segs)) ELSE <<>>, 0)
  BY DEF StartPressure, PassDone
<1>2. PICK q : q = IF OnDisk > Capacity THEN InOrder(Unprotected(Segs)) ELSE <<>>
  OBVIOUS
<1>3. Begin("pressure", q, 0) /\ Segs \in SUBSET Segs /\ (q = <<>> \/ q = InOrder(Unprotected(Segs)))
  BY <1>1, <1>2
<1>4. GhostsExplained' /\ Selected' /\ SeenGone' /\ InSequence' /\ MemoTrue'
  BY <1>1, <1>3, BeginPurging
<1>5. todo' = q /\ phase' = "pressure" /\ UNCHANGED <<file, row>>
  BY <1>1, <1>3 DEF Begin, diskVars
<1>6. OldestFirst'
  <2>1. CASE q = <<>>
    BY <1>5, <2>1 DEF OldestFirst
  <2>2. CASE q = InOrder(Unprotected(Segs))
    <3>1. \A r \in Unprotected(Segs) : \E j \in DOMAIN q : q[j].seg = r
      BY <2>2, Chosen
    <3> SUFFICES ASSUME NEW r \in Segs, row[r] # None, ~row[r].protected
                 PROVE  \E j \in DOMAIN q : q[j].seg = r
      BY <1>5 DEF OldestFirst, Unprotected, Rows, OfCamera
    <3> QED
      BY <3>1 DEF Unprotected, Rows
  <2> QED
    BY <1>3, <2>1, <2>2
<1>7. QuotaTrue'
  BY <1>5 DEF QuotaTrue
<1> QED
  BY <1>4, <1>6, <1>7 DEF Purging

LEMMA EndPurging == ASSUME Types, Purging, EndTick PROVE Purging'
<1>1. /\ seen = {} /\ Begin("rest", <<>>, 0) /\ "rest" # "quota"
      /\ UNCHANGED <<diskVars, memo, writerVars, sidecar, failures, history>>
  BY DEF EndTick, PassDone
<1> QED
  BY <1>1, EmptyPurging

LEMMA RestartManagerPurging == ASSUME Types, Purging, RestartManager PROVE Purging'
<1>1. /\ todo' = <<>> /\ DOMAIN todo' = {} /\ seen' = {} /\ phase' = "rest"
      /\ history' = [history EXCEPT !["rowKept"] = @ \cup seen]
      /\ UNCHANGED <<file, row>>
  BY DEF RestartManager, Begin, diskVars
<1>2. history'["rowKept"] = history["rowKept"] \cup seen
  BY <1>1 DEF Types, EventTypes, Events
<1>3. GhostsExplained'
  BY <1>1, <1>2 DEF Purging, GhostsExplained
<1>4. Selected' /\ SeenGone' /\ InSequence' /\ OldestFirst' /\ QuotaTrue'
  BY <1>1 DEF Selected, SeenGone, InSequence, OldestFirst, QuotaTrue
<1>5. MemoTrue'
  BY FailuresGrow DEF RestartManager, MemoTrue
<1> QED
  BY <1>3, <1>4, <1>5 DEF Purging

\* Where something failed only what the purge is at is left to say.
LEMMA LostPurging == ASSUME Types, Purging, QueryFails \/ AnswerLost PROVE Purging'
<1>1. /\ todo' = <<>> /\ DOMAIN todo' = {} /\ seen' = {} /\ seen = {} /\ failures' # 0
      /\ UNCHANGED <<file, row, history>>
  BY TodoIs, FailuresGrow DEF QueryFails, AnswerLost, Begin, PassDone, Passes, diskVars
<1>2. GhostsExplained'
  BY <1>1 DEF Purging, GhostsExplained
<1>3. Selected' /\ SeenGone' /\ InSequence' /\ OldestFirst' /\ QuotaTrue' /\ MemoTrue'
  BY <1>1 DEF Selected, SeenGone, InSequence, OldestFirst, QuotaTrue, MemoTrue
<1> QED
  BY <1>2, <1>3 DEF Purging

LEMMA TickPurging == ASSUME Types, Types', Purging, Tick PROVE Purging'
<1>1. phase = "rest" /\ phase' = "indexed" /\ UNCHANGED <<file, started, cameras, todo, seen, history>>
  BY DEF Tick
<1>2. seen = {}
  BY <1>1, TodoIs DEF Passes
<1>3. PICK failing \in SUBSET Segs : Index(failing) /\ ((failing = {} /\ failures' = failures) \/ Fails)
  <2>1. (Index({}) /\ failures' = failures) \/ (\E s \in Segs : Index({s}) /\ Fails)
    BY DEF Tick
  <2>2. CASE Index({}) /\ failures' = failures
    BY <2>2
  <2>3. CASE \E s \in Segs : Index({s}) /\ Fails
    <3>1. PICK s \in Segs : Index({s}) /\ Fails
      BY <2>3
    <3>2. {s} \in SUBSET Segs
      OBVIOUS
    <3> QED
      BY <3>1, <3>2
  <2> QED
    BY <2>1, <2>2, <2>3
<1> DEFINE changed == {s \in Segs : file[s] > 0 /\ memo[s] # file[s]}
           written == {s \in changed \ failing : CamOf[s] \in cameras}
           fresh(s) == [bytes |-> file[s], protected |-> row[s] # None /\ row[s].protected]
<1>4. /\ row' = [s \in Segs |-> IF s \in written THEN fresh(s) ELSE row[s]]
      /\ memo' = [s \in Segs |-> IF s \in changed \ written THEN 0 ELSE file[s]]
  BY <1>3 DEF Index
<1>5. \A s \in Segs : fresh(s).bytes = file[s] /\ (fresh(s).protected => row[s] # None /\ row[s].protected)
  OBVIOUS
<1>6. /\ \A s \in Segs : s \in written => file[s] > 0 /\ memo[s] # file[s]
      /\ \A s \in Segs : s \in changed <=> file[s] > 0 /\ memo[s] # file[s]
      /\ \A s \in Segs : s \in changed \ written => s \in failing \/ CamOf[s] \notin cameras
  OBVIOUS
<1> HIDE DEF changed, written, fresh
<1>7. \A s \in Segs : row'[s] # None => row[s] # None \/ file[s] > 0
  BY <1>4, <1>6
<1>8. GhostsExplained'
  <2>1. ASSUME NEW s \in Segs, row'[s] # None, file[s] = 0
        PROVE  s \in history["rowKept"]
    BY <1>2, <1>7, <2>1 DEF Purging, GhostsExplained
  <2> QED
    BY <1>1, <2>1 DEF GhostsExplained
<1>9. Selected'
  <2>1. ASSUME NEW s \in Segs, row'[s] # None, row'[s].protected
        PROVE  row[s] # None /\ row[s].protected
    BY <1>4, <1>5, <2>1
  <2>2. \A i \in DOMAIN todo : todo[i].seg \in Segs
    BY TodoIs
  <2> QED
    BY <1>1, <2>1, <2>2 DEF Purging, Selected
<1>10. SeenGone' /\ InSequence' /\ OldestFirst' /\ QuotaTrue'
  BY <1>1, <1>2 DEF Purging, SeenGone, InSequence, OldestFirst, QuotaTrue
<1>11. MemoTrue'
  <2>1. CASE Fails
    BY <2>1, FailuresGrow DEF MemoTrue
  <2>2. CASE failing = {} /\ failures' = failures
    <3> SUFFICES ASSUME failures = 0
                 PROVE  /\ history["rowKept"] = {}
                        /\ \A s \in Segs : file[s] > 0 => memo'[s] <= file[s]
                        /\ \A s \in Segs : row'[s] # None => row'[s].bytes = memo'[s]
      BY <1>1, <2>2 DEF MemoTrue
    <3>1. history["rowKept"] = {}
      BY DEF Purging, MemoTrue
    <3>2. \A s \in Segs : file[s] > 0 => memo'[s] <= file[s]
      BY <1>4, Sizes
    <3>3. ASSUME NEW s \in Segs, row'[s] # None
          PROVE  row'[s].bytes = memo'[s]
      <4>1. CASE s \in written
        BY <1>4, <1>5, <4>1
      <4>2. CASE s \notin written
        <5>1. row'[s] = row[s] /\ row[s] # None
          BY <1>4, <3>3, <4>2
        <5>2. CamOf[s] \in cameras
          BY <5>1 DEF Types, RowTypes
        <5>3. s \notin changed
          BY <1>6, <2>2, <4>2, <5>2
        <5>4. row[s].bytes = memo[s] /\ file[s] > 0
          BY <1>2, <5>1, RowsOfFiles
        <5>5. memo'[s] = file[s] /\ memo[s] = file[s]
          BY <1>4, <1>6, <5>3, <5>4
        <5> QED
          BY <5>1, <5>4, <5>5
      <4> QED
        BY <4>1, <4>2
    <3> QED
      BY <3>1, <3>2, <3>3
  <2> QED
    BY <1>3, <2>1, <2>2
<1> QED
  BY <1>8, <1>9, <1>10, <1>11 DEF Purging

LEMMA RemovePurging == ASSUME Types, Types', Purging, RemoveFiles PROVE Purging'
<1>1. /\ todo # <<>> /\ phase \in Passes /\ seen = {} /\ Unlink(Head(todo).seg)
      /\ seen' = {Head(todo).seg}
      /\ UNCHANGED <<started, row, memo, phase, todo, over, tally>>
  BY DEF RemoveFiles, AtRow
<1>2. PICK h \in Segs : h = Head(todo).seg
  BY <1>1, TodoIs
<1>3. /\ h = todo[1].seg /\ 1 \in DOMAIN todo
      /\ \A i \in DOMAIN todo : todo[i].seg \in Segs /\ i \in Nat /\ i >= 1
  BY <1>1, <1>2, TodoIs
<1>4. /\ \A r \in Segs : file'[r] = IF r = h THEN 0 ELSE file[r]
      /\ history'["rowKept"] = history["rowKept"] /\ history'["protectedLate"] = history["protectedLate"]
      /\ failures' = 0 => failures = 0
  <2>1. /\ \A r \in Segs : file'[r] = IF r = h THEN 0 ELSE file[r]
        /\ failures <= failures' /\ EventTypes'
        /\ \A d \in Events : d # "sidecarKept" => history'[d] = history[d]
    BY <1>1, <1>2, Unlinks
  <2>2. failures' \in Nat /\ failures \in Nat
    BY <2>1, Sizes DEF EventTypes
  <2> QED
    BY <2>1, <2>2 DEF Events
<1>5. GhostsExplained'
  BY <1>1, <1>2, <1>4 DEF Purging, GhostsExplained
<1>6. Selected' /\ InSequence'
  BY <1>1, <1>4 DEF Purging, Selected, InSequence
<1>7. SeenGone'
  BY <1>1, <1>2, <1>4 DEF SeenGone
<1>8. MemoTrue'
  BY <1>1, <1>4 DEF Purging, MemoTrue
<1>9. OldestFirst'
  <2> SUFFICES ASSUME failures = 0, phase \in {"quota", "pressure"},
                      NEW i \in DOMAIN todo, NEW r \in Segs,
                      CamOf[r] = CamOf[todo[i].seg], row[r] # None, ~row[r].protected,
                      r < todo[i].seg, file'[r] > 0
               PROVE  \E j \in DOMAIN todo : todo[j].seg = r
    BY <1>1, <1>4 DEF OldestFirst, Unprotected, Rows, OfCamera
  <2>1. r \in Unprotected(OfCamera(CamOf[todo[i].seg])) /\ file[r] > 0
    BY <1>4 DEF Unprotected, Rows, OfCamera
  <2> QED
    BY <2>1 DEF Purging, OldestFirst
<1>10. ASSUME failures = 0, phase = "quota"
       PROVE  OneCamera' /\ SizesTrue' /\ TallyTrue' /\ OverTrue'
  <2>1. OneCamera /\ SizesTrue /\ TallyTrue /\ OverTrue
    BY <1>10 DEF Purging, QuotaTrue
  <2>2. OneCamera'
    BY <1>1, <2>1 DEF OneCamera
  <2>3. SizesTrue'
    <3>1. ASSUME NEW i \in DOMAIN todo
          PROVE  /\ todo[i].size = memo[todo[i].seg]
                 /\ file'[todo[i].seg] > 0 \/ todo[i].seg \in seen'
      <4>1. todo[i].size = memo[todo[i].seg] /\ file[todo[i].seg] > 0
        BY <1>1, <2>1 DEF SizesTrue
      <4> QED
        BY <1>1, <1>2, <1>3, <1>4, <4>1
    <3> QED
      BY <1>1, <3>1 DEF SizesTrue
  <2> DEFINE k == CamOf[h]
  <2>4. k \in Cameras /\ k = CamOf[Head(todo).seg]
    BY <1>2, Bounds
  <2>5. Known(k) <= Known(k)' + memo[h]
    BY <1>1, <1>4, KnownLoses
  <2>6. Head(todo).size = memo[h] /\ memo[h] \in Int /\ tally \in Int
    BY <1>2, <1>3, <2>1, TodoIs, Sizes DEF SizesTrue
  <2>7. \A c \in Cameras : Known(c) \in Nat
    BY KnownIs
  <2>8. \A c \in Cameras : c # k => Known(c) <= Known(c)' /\ Known(c)' \in Nat
    <3> SUFFICES ASSUME NEW c \in Cameras, c # k
                 PROVE  Known(c) <= Known(c)' /\ Known(c)' \in Nat
      OBVIOUS
    <3>1. \A s \in OfCamera(c) : file[s] > 0 /\ memo[s] > 0 => file'[s] > 0 /\ memo'[s] >= memo[s]
      BY <1>1, <1>4, Sizes DEF OfCamera
    <3> QED
      BY <3>1, KnownGrows
  <2>9. \A c \in Cameras : Known(c)' \in Nat
    <3>1. (\A c \in Cameras : Known(c) \in Nat)'
      BY KnownNat, PTL
    <3> QED
      BY <3>1
  <2>10. TallyTrue'
    <3>1. tally <= Known(k)
      BY <1>1, <2>1, <2>4 DEF TallyTrue
    <3>2. tally - memo[h] <= Known(k)'
      BY <2>4, <2>5, <2>6, <2>7, <2>9, <3>1
    <3>3. todo' = todo /\ tally' = tally /\ seen' # {}
      BY <1>1
    <3> QED
      BY <2>4, <2>6, <3>2, <3>3 DEF TallyTrue
  <2>11. OverTrue'
    <3>1. ASSUME NEW c \in Cameras, NEW o \in over, o.cam = c
          PROVE  o.total <= Known(c)' /\ c # k
      <4>1. o.total <= Known(c) /\ c # k /\ o.total \in Int
        BY <1>1, <2>1, <2>4, <3>1, Sizes DEF OverTrue
      <4> QED
        BY <2>7, <2>8, <4>1
    <3> QED
      BY <1>1, <2>1, <3>1 DEF OverTrue
  <2> QED
    BY <2>2, <2>3, <2>10, <2>11
<1>11. QuotaTrue'
  BY <1>1, <1>4, <1>10 DEF QuotaTrue
<1> QED
  BY <1>5, <1>6, <1>7, <1>8, <1>9, <1>11 DEF Purging

LEMMA TodoHead == Types => (todo # <<>> => 1 \in DOMAIN todo /\ Head(todo) = todo[1])
BY TodoIs

\* The head leaves the list.
LEMMA TailSelected ==
    ASSUME Types, Purging, todo # <<>>, todo' = Tail(todo), started' = started,
           \A s \in Segs : row'[s] = row[s] \/ row'[s] = None,
           history'["protectedLate"] = history["protectedLate"]
    PROVE  Selected' /\ InSequence'
<1>1. \A i \in DOMAIN todo' : i \in Nat /\ i + 1 \in DOMAIN todo /\ todo'[i] = todo[i + 1] /\ todo[i + 1].seg \in Segs
  BY TodoIs
<1>2. Selected'
  <2>1. ASSUME NEW i \in DOMAIN todo'
        PROVE  /\ todo'[i].seg \in started'
               /\ row'[todo'[i].seg] # None /\ row'[todo'[i].seg].protected => todo'[i].seg \in history'["protectedLate"]
    <3>1. PICK j \in DOMAIN todo : todo'[i] = todo[j] /\ todo[j].seg \in Segs
      BY <1>1
    <3>2. PICK s \in Segs : s = todo[j].seg
      BY <3>1
    <3>3. s \in started /\ (row[s] # None /\ row[s].protected => s \in history["protectedLate"])
      BY <3>2 DEF Purging, Selected
    <3> QED
      BY <3>1, <3>2, <3>3
  <2> QED
    BY <2>1 DEF Selected
<1>3. InSequence'
  <2>1. ASSUME NEW i \in DOMAIN todo', NEW j \in DOMAIN todo', i < j
        PROVE  todo'[i].seg < todo'[j].seg
    <3>1. i + 1 < j + 1
      BY <1>1, <2>1
    <3> QED
      BY <1>1, <3>1 DEF Purging, InSequence
  <2> QED
    BY <2>1 DEF InSequence
<1> QED
  BY <1>2, <1>3

LEMMA RemoveFailsPurging == ASSUME Types, Purging, RemoveFails PROVE Purging'
<1>1. /\ todo # <<>> /\ seen = {} /\ todo' = Tail(todo)
      /\ UNCHANGED <<file, row, started, seen, history>> /\ failures' # 0
  BY FailuresGrow DEF RemoveFails, AtRow, diskVars
<1>2. Selected' /\ InSequence'
  BY <1>1, TailSelected
<1>3. GhostsExplained' /\ SeenGone'
  BY <1>1 DEF Purging, GhostsExplained, SeenGone
<1>4. MemoTrue' /\ OldestFirst' /\ QuotaTrue'
  BY <1>1 DEF MemoTrue, OldestFirst, QuotaTrue
<1> QED
  BY <1>2, <1>3, <1>4 DEF Purging

LEMMA DeleteRowFailsPurging == ASSUME Types, Purging, DeleteRowFails PROVE Purging'
<1>1. /\ seen # {} /\ todo' = Tail(todo) /\ seen' = {} /\ Note("rowKept", Head(todo).seg)
      /\ UNCHANGED <<file, row, started>> /\ failures' # 0
  BY FailuresGrow DEF DeleteRowFails, NextRow
<1>2. todo # <<>> /\ Head(todo).seg \in Segs /\ \A s \in seen : s = Head(todo).seg
  BY <1>1, TodoIs
<1>3. /\ history'["protectedLate"] = history["protectedLate"]
      /\ history["rowKept"] \subseteq history'["rowKept"]
      /\ Head(todo).seg \in history'["rowKept"]
  <2>1. EventTypes /\ "rowKept" \in Events /\ "protectedLate" \in Events
    BY DEF Types, Events
  <2> QED
    BY <1>1, <1>2, <2>1, Notes
<1>4. Selected' /\ InSequence'
  BY <1>1, <1>2, <1>3, TailSelected
<1>5. GhostsExplained'
  BY <1>1, <1>2, <1>3 DEF Purging, GhostsExplained
<1>6. SeenGone' /\ MemoTrue' /\ OldestFirst' /\ QuotaTrue'
  BY <1>1 DEF SeenGone, MemoTrue, OldestFirst, QuotaTrue
<1> QED
  BY <1>4, <1>5, <1>6 DEF Purging

LEMMA DeleteRowPurging == ASSUME Types, Types', Purging, DeleteRow PROVE Purging'
<1>1. /\ seen # {} /\ todo' = Tail(todo) /\ seen' = {} /\ phase \in Passes
      /\ UNCHANGED <<file, started, memo, phase, over, failures, history>>
      /\ phase = "quota" => tally' = tally - Head(todo).size
      /\ \A s \in Segs : row'[s] = IF s \in seen THEN None ELSE row[s]
  BY DEF DeleteRow, NextRow
<1>2. /\ todo # <<>> /\ Head(todo) = todo[1] /\ 1 \in DOMAIN todo /\ Head(todo).size \in Int
      /\ \A s \in seen : s \in Segs /\ s = todo[1].seg
      /\ \A i \in DOMAIN todo : i \in Nat /\ i >= 1 /\ todo[i].seg \in Segs
      /\ \A i \in DOMAIN todo' : i \in Nat /\ i + 1 \in DOMAIN todo /\ todo'[i] = todo[i + 1]
      /\ \A i \in DOMAIN todo : i = 1 \/ (i - 1 \in DOMAIN todo' /\ todo'[i - 1] = todo[i])
  BY <1>1, TodoIs
<1>3. PICK h \in Segs : h = todo[1].seg /\ h \in seen /\ file[h] = 0
  BY <1>1, <1>2 DEF Purging, SeenGone
<1>4. \A i \in DOMAIN todo' : todo[i + 1].seg # h
  <2> TAKE i \in DOMAIN todo'
  <2>1. i \in Nat /\ i + 1 \in DOMAIN todo /\ i >= 0
    BY <1>2
  <2>2. i + 1 >= 1
    BY <2>1
  <2>3. i # 0
    BY <1>1, DomainPositive, <2>1
  <2>4. 1 < i + 1
    BY <2>1, <2>3
  <2>5. todo[1].seg < todo[i + 1].seg
    BY <1>2, <2>1, <2>4 DEF Purging, InSequence
  <2>6. todo[i + 1].seg \in Nat /\ h \in Nat
    BY <1>2, <2>1, Bounds
  <2> QED
    BY <1>3, <2>5, <2>6
<1>5. Selected' /\ InSequence'
  BY <1>1, <1>2, TailSelected
<1>6. GhostsExplained'
  BY <1>1 DEF Purging, GhostsExplained
<1>7. SeenGone'
  BY <1>1 DEF SeenGone
<1>8. MemoTrue'
  BY <1>1 DEF Purging, MemoTrue
<1>9. OldestFirst'
  <2> SUFFICES ASSUME failures = 0, phase \in {"quota", "pressure"},
                      NEW i \in DOMAIN todo', NEW r \in Segs,
                      CamOf[r] = CamOf[todo'[i].seg], row'[r] # None, ~row'[r].protected,
                      r < todo'[i].seg, file[r] > 0
               PROVE  \E j \in DOMAIN todo' : todo'[j].seg = r
    BY <1>1 DEF OldestFirst, Unprotected, Rows, OfCamera
  <2>1. PICK k \in DOMAIN todo : todo'[i] = todo[k]
    BY <1>2
  <2>2. row[r] # None /\ ~row[r].protected
    BY <1>1
  <2>3. r \in Unprotected(OfCamera(CamOf[todo[k].seg]))
    BY <2>1, <2>2 DEF Unprotected, Rows, OfCamera
  <2>4. PICK j \in DOMAIN todo : todo[j].seg = r
    BY <2>1, <2>3 DEF Purging, OldestFirst
  <2>5. j # 1
    BY <1>3, <2>4
  <2> QED
    BY <1>2, <2>4, <2>5
<1>10. ASSUME failures = 0, phase = "quota"
       PROVE  OneCamera' /\ SizesTrue' /\ TallyTrue' /\ OverTrue'
  <2>1. OneCamera /\ SizesTrue /\ TallyTrue /\ OverTrue
    BY <1>10 DEF Purging, QuotaTrue
  <2>2. OneCamera'
    BY <1>2, <2>1 DEF OneCamera
  <2>3. SizesTrue'
    <3>1. ASSUME NEW i \in DOMAIN todo'
          PROVE  todo'[i].size = memo[todo'[i].seg] /\ file[todo'[i].seg] > 0
      <4>1. PICK k \in DOMAIN todo : todo'[i] = todo[k] /\ todo[k].seg # h
        BY <1>2, <1>4
      <4>2. todo[k].size = memo[todo[k].seg] /\ (file[todo[k].seg] > 0 \/ todo[k].seg \in seen)
        BY <2>1 DEF SizesTrue
      <4> QED
        BY <1>2, <1>3, <4>1, <4>2
    <3> QED
      BY <1>1, <3>1 DEF SizesTrue
  <2>4. todo' # <<>> => CamOf[Head(todo').seg] = CamOf[todo[1].seg]
    <3>1. todo' # <<>> => 1 \in DOMAIN todo' /\ Head(todo') = todo'[1]
      <4>1. (Types => (todo # <<>> => 1 \in DOMAIN todo /\ Head(todo) = todo[1]))'
        BY TodoHead, PTL
      <4> QED
        BY <4>1
    <3>2. 1 \in DOMAIN todo' => \E k \in DOMAIN todo : todo'[1] = todo[k]
      BY <1>2
    <3> QED
      BY <1>2, <2>1, <3>1, <3>2 DEF OneCamera
  <2>5. \A c \in Cameras : Known(c) <= Known(c)' /\ Known(c) \in Nat /\ Known(c)' \in Nat
    <3> TAKE c \in Cameras
    <3>1. \A s \in OfCamera(c) : file[s] > 0 /\ memo[s] > 0 => file'[s] > 0 /\ memo'[s] >= memo[s]
      BY <1>1, Sizes DEF OfCamera
    <3> QED
      BY <3>1, KnownGrows, KnownIs
  <2>6. TallyTrue'
    <3>1. ASSUME NEW c \in Cameras, c = CamOf[todo[1].seg]
          PROVE  tally' <= Known(c)'
      <4>1. tally - Head(todo).size <= Known(c) /\ tally \in Int
        BY <1>1, <1>2, <2>1, <3>1, Sizes DEF TallyTrue
      <4>2. tally' = tally - Head(todo).size
        BY <1>1, <1>10
      <4> QED
        BY <1>2, <2>5, <4>1, <4>2
    <3> QED
      BY <1>1, <2>4, <3>1 DEF TallyTrue
  <2>7. OverTrue'
    <3>1. ASSUME NEW c \in Cameras, NEW o \in over, o.cam = c
          PROVE  o.total <= Known(c)' /\ c # CamOf[todo[1].seg]
      <4>1. o.total <= Known(c) /\ c # CamOf[todo[1].seg] /\ o.total \in Int
        BY <1>2, <2>1, <3>1, Sizes DEF OverTrue
      <4> QED
        BY <2>5, <4>1
    <3> QED
      BY <1>1, <2>1, <2>4, <3>1 DEF OverTrue
  <2> QED
    BY <2>2, <2>3, <2>6, <2>7
<1>11. QuotaTrue'
  BY <1>1, <1>10 DEF QuotaTrue
<1> QED
  BY <1>5, <1>6, <1>7, <1>8, <1>9, <1>11 DEF Purging

LEMMA NextPurging == Types /\ Types' /\ Purging /\ [Next]_vars => Purging'
<1> SUFFICES ASSUME Types, Types', Purging, [Next]_vars PROVE Purging'
  OBVIOUS
<1>1. ASSUME NEW s \in Segs, StartSegment(s) \/ Grow(s) \/ Expire(s) \/ Protect(s) \/ CloseIdle(s)
      PROVE  Purging'
  BY <1>1, AsideSteps, AsidePurging
<1>2. ASSUME NEW c \in Cameras, DeleteCamera(c)
      PROVE  Purging'
  BY <1>2, AsideSteps, AsidePurging
<1>3. ASSUME ManagerStep
      PROVE  Purging'
  BY <1>3, TickPurging, RetentionPurging, RemovePurging, RemoveFailsPurging, DeleteRowPurging,
     DeleteRowFailsPurging, QuotaPurging, NextCameraPurging, PressurePurging, EndPurging DEF ManagerStep
<1>4. ASSUME NEW d \in Det, HandleWrites(d) \/ HandleDefers(d) \/ FlushWrites(d) \/ FlushDrops(d)
      PROVE  Purging'
  BY <1>4, AsideSteps, AsidePurging
<1>5. RestartWriter \/ UNCHANGED vars => Purging'
  BY AsideSteps, AsidePurging
<1> QED
  BY <1>1, <1>2, <1>3, <1>4, <1>5, LostPurging, RestartManagerPurging DEF Next

-----------------------------------------------------------------------------
(* Sidecars *)

SidecarsAside ==
    /\ sidecar' = sidecar
    /\ \A s \in Segs : file'[s] = 0 => file[s] = 0
    /\ history["writtenLate"] \subseteq history'["writtenLate"]
    /\ history["sidecarKept"] \subseteq history'["sidecarKept"]

LEMMA AsideSidecars ==
    ASSUME Types, SidecarFollowsVideo, SidecarsAside
    PROVE  SidecarFollowsVideo'
BY DEF SidecarsAside, SidecarFollowsVideo, Types, WriterTypes, DiskTypes

LEMMA NextSidecars == Types /\ SidecarFollowsVideo /\ [Next]_vars => SidecarFollowsVideo'
<1> SUFFICES ASSUME Types, SidecarFollowsVideo, [Next]_vars PROVE SidecarFollowsVideo'
  OBVIOUS
<1>1. file \in [Segs -> 0 .. Full] /\ sidecar \subseteq Segs
  BY DEF Types, DiskTypes, WriterTypes
<1>2. ASSUME NEW s \in Segs, StartSegment(s) PROVE SidecarsAside
  BY <1>1, <1>2 DEF StartSegment, SidecarsAside
<1>3. ASSUME NEW s \in Segs, Grow(s) PROVE SidecarsAside
  BY <1>1, <1>3, Bounds DEF Grow, SidecarsAside
<1>4. ASSUME NEW s \in Segs, Expire(s) \/ CloseIdle(s) PROVE SidecarsAside
  BY <1>4 DEF Expire, CloseIdle, SidecarsAside, diskVars
<1>5. ASSUME NEW s \in Segs, Protect(s) PROVE SidecarsAside
  <2>1. /\ history["writtenLate"] \subseteq history'["writtenLate"]
        /\ history["sidecarKept"] \subseteq history'["sidecarKept"]
    <3>1. "protectedLate" \in Events /\ "writtenLate" \in Events /\ "sidecarKept" \in Events
      BY DEF Events
    <3>2. Note("protectedLate", s) \/ history' = history
      BY <1>5 DEF Protect
    <3> QED
      BY <3>1, <3>2, HistoryOf
  <2> QED
    BY <1>5, <2>1 DEF Protect, SidecarsAside
<1>6. ASSUME NEW c \in Cameras, DeleteCamera(c) PROVE SidecarsAside
  BY <1>6 DEF DeleteCamera, SidecarsAside
<1>7. Tick \/ StartRetention \/ RemoveFails \/ DeleteRow => SidecarsAside
  BY DEF Tick, StartRetention, RemoveFails, DeleteRow, NextRow, SidecarsAside, diskVars
<1>8. StartQuota \/ NextCamera \/ StartPressure \/ EndTick => SidecarsAside
  BY DEF StartQuota, NextCamera, StartPressure, EndTick, SidecarsAside, diskVars
<1>9. ASSUME DeleteRowFails PROVE SidecarsAside
  <2>1. Head(todo).seg \in Segs
    BY <1>9, TodoIs DEF DeleteRowFails, NextRow
  <2>2. /\ history["writtenLate"] \subseteq history'["writtenLate"]
        /\ history["sidecarKept"] \subseteq history'["sidecarKept"]
    <3>1. "rowKept" \in Events /\ "writtenLate" \in Events /\ "sidecarKept" \in Events
      BY DEF Events
    <3>2. Note("rowKept", Head(todo).seg)
      BY <1>9 DEF DeleteRowFails
    <3> QED
      BY <2>1, <3>1, <3>2, HistoryOf
  <2> QED
    BY <1>9, <2>2 DEF DeleteRowFails, NextRow, SidecarsAside
<1>10. ASSUME RestartManager PROVE SidecarsAside
  <2>1. /\ history'["writtenLate"] = history["writtenLate"]
        /\ history'["sidecarKept"] = history["sidecarKept"]
    BY <1>10 DEF RestartManager, Types, EventTypes, Events
  <2> QED
    BY <1>10, <2>1 DEF RestartManager, SidecarsAside, diskVars
<1>11. ASSUME NEW d \in Det, HandleDefers(d) \/ FlushDrops(d) PROVE SidecarsAside
  BY <1>11 DEF HandleDefers, FlushDrops, SidecarsAside, diskVars
<1>12. QueryFails \/ AnswerLost \/ RestartWriter \/ UNCHANGED vars => SidecarsAside
  BY DEF QueryFails, AnswerLost, RestartWriter, vars, SidecarsAside, diskVars
<1>13. ASSUME RemoveFiles PROVE SidecarFollowsVideo'
  <2>1. PICK h \in Segs : h = Head(todo).seg /\ Unlink(h)
    BY <1>13, TodoIs DEF RemoveFiles, AtRow
  <2>2. /\ \A r \in Segs : file'[r] = IF r = h THEN 0 ELSE file[r]
        /\ \A d \in Events : d # "sidecarKept" => history'[d] = history[d]
        /\ history["sidecarKept"] \subseteq history'["sidecarKept"]
        /\ sidecar' \subseteq sidecar
        /\ h \in sidecar' => h \in history'["sidecarKept"]
    BY <2>1, Unlinks
  <2>3. history'["writtenLate"] = history["writtenLate"]
    BY <2>2 DEF Events
  <2> QED
    BY <1>1, <2>2, <2>3 DEF SidecarFollowsVideo
<1>14. ASSUME NEW d \in Det, HandleWrites(d) \/ FlushWrites(d) PROVE SidecarFollowsVideo'
  <2>1. Resolves(d) /\ AppendLine(d) /\ d.seg \in started /\ UNCHANGED <<file, failures>>
    BY <1>14 DEF HandleWrites, FlushWrites, Arrives, Types, StartedFirst, InMotion, Det, diskVars
  <2>2. /\ sidecar' \subseteq sidecar \cup {d.seg}
        /\ history["writtenLate"] \subseteq history'["writtenLate"]
        /\ d.seg \in sidecar' \ sidecar /\ file[d.seg] = 0 => d.seg \in history'["writtenLate"]
        /\ \A e \in Events : e # "writtenLate" => history'[e] = history[e]
    BY <2>1, Appends
  <2>3. history'["sidecarKept"] = history["sidecarKept"]
    BY <2>2 DEF Events
  <2> QED
    BY <2>1, <2>2, <2>3 DEF SidecarFollowsVideo
<1> QED
  BY <1>2, <1>3, <1>4, <1>5, <1>6, <1>7, <1>8, <1>9, <1>10, <1>11, <1>12, <1>13, <1>14, AsideSidecars
     DEF Next, ManagerStep

-----------------------------------------------------------------------------
(* The theorems *)

RecordingsInv == Types /\ Purging /\ SidecarFollowsVideo

LEMMA InitRecordings == Init => RecordingsInv
<1> SUFFICES ASSUME Init PROVE RecordingsInv
  OBVIOUS
<1>1. SidecarFollowsVideo
  BY DEF Init, SidecarFollowsVideo
<1> QED
  BY <1>1, InitTypes, InitPurging DEF RecordingsInv

LEMMA NextRecordings == RecordingsInv /\ [Next]_vars => RecordingsInv'
BY NextTypes, NextPurging, NextSidecars DEF RecordingsInv

\* The invariant of MediaMTX, the operators, storage-manager and the sidecar
\* writer together, for any cameras, segments, quotas and failures.
THEOREM RecordingsHold == FairSpec => []RecordingsInv
BY InitRecordings, NextRecordings, PTL DEF FairSpec

\* Types: no row without a camera or a recording, no sidecar of a segment that
\* never began, no open file unlinked unnoticed.
THEOREM RecordingsTypes == FairSpec => []TypeOK
<1>1. RecordingsInv => TypeOK
  BY TypesAre DEF RecordingsInv
<1> QED
  BY <1>1, RecordingsHold, PTL

\* A row without a video is being purged, or the error of its DELETE, or a
\* restart between files and row, left it behind.
THEOREM GhostsAlwaysExplained == FairSpec => []GhostsExplained
<1>1. RecordingsInv => GhostsExplained
  BY DEF RecordingsInv, Purging
<1> QED
  BY <1>1, RecordingsHold, PTL

\* A sidecar without its video was written too late or could not be removed.
THEOREM SidecarsAlwaysFollow == FairSpec => []SidecarFollowsVideo
<1>1. RecordingsInv => SidecarFollowsVideo
  BY DEF RecordingsInv
<1> QED
  BY <1>1, RecordingsHold, PTL

\* No step but the removal of files takes a video away.
LEMMA OnlyRemovals ==
    ASSUME Types, [Next]_vars, NEW s \in Segs, Purged(s)
    PROVE  RemoveFiles
<1>1. file[s] > 0 /\ file'[s] = 0 /\ file[s] \in Nat
  BY Sizes DEF Purged
<1>2. ~Aside
  BY <1>1 DEF Aside
<1>3. file' # file
  BY <1>1
<1>4. ~(Tick \/ StartRetention \/ RemoveFails \/ DeleteRow \/ DeleteRowFails)
  BY <1>3 DEF Tick, StartRetention, RemoveFails, DeleteRow, DeleteRowFails, NextRow, diskVars
<1>5. ~(StartQuota \/ NextCamera \/ StartPressure \/ EndTick \/ QueryFails \/ AnswerLost \/ RestartManager)
  BY <1>3 DEF StartQuota, NextCamera, StartPressure, EndTick, QueryFails, AnswerLost, RestartManager, diskVars
<1> QED
  BY <1>2, <1>4, <1>5, AsideSteps DEF Next, ManagerStep

LEMMA WhatIsRemoved ==
    ASSUME Types, RemoveFiles, NEW s \in Segs, Purged(s)
    PROVE  /\ todo # <<>> /\ 1 \in DOMAIN todo /\ s = todo[1].seg /\ s = Head(todo).seg
           /\ phase \in Passes /\ seen = {} /\ ~Enough
           /\ failures <= failures' /\ failures \in Nat /\ failures' \in Nat
           /\ history'["protectedLate"] = history["protectedLate"]
<1>1. todo # <<>> /\ phase \in Passes /\ seen = {} /\ ~Enough /\ Unlink(Head(todo).seg)
  BY DEF RemoveFiles, AtRow
<1>2. PICK h \in Segs : h = Head(todo).seg /\ h = todo[1].seg /\ 1 \in DOMAIN todo
  BY <1>1, TodoIs
<1>3. /\ \A r \in Segs : file'[r] = IF r = h THEN 0 ELSE file[r]
      /\ failures <= failures' /\ EventTypes'
      /\ \A d \in Events : d # "sidecarKept" => history'[d] = history[d]
  BY <1>1, <1>2, Unlinks
<1>4. s = h
  BY <1>3, Sizes DEF Purged
<1>5. failures \in Nat /\ failures' \in Nat
  BY <1>3, Sizes DEF EventTypes
<1> QED
  BY <1>1, <1>2, <1>3, <1>4, <1>5 DEF Events

\* A protected video is purged only if it was protected after the purge's query,
\* whichever of retention, quota and disk pressure takes it.
THEOREM ProtectedAlwaysKept == FairSpec => ProtectedKept
<1>1. RecordingsInv /\ [Next]_vars =>
        [\A s \in Segs : Purged(s) /\ row[s] # None /\ row[s].protected => s \in history["protectedLate"]]_vars
  <2> SUFFICES ASSUME RecordingsInv, [Next]_vars, NEW s \in Segs, Purged(s), row[s] # None, row[s].protected
               PROVE  s \in history["protectedLate"]
    OBVIOUS
  <2>1. RemoveFiles
    BY OnlyRemovals DEF RecordingsInv
  <2>2. 1 \in DOMAIN todo /\ s = todo[1].seg
    BY <2>1, WhatIsRemoved DEF RecordingsInv
  <2> QED
    BY <2>2 DEF RecordingsInv, Purging, Selected
<1> QED
  BY <1>1, RecordingsHold, PTL DEF FairSpec, ProtectedKept

\* Quota and disk pressure take a camera's videos oldest first, and quota takes
\* one only while the camera has more on disk than its quota.
THEOREM DropsNeverMoreThanNeeded == FairSpec => DropsNoMoreThanNeeded
<1>1. RecordingsInv /\ [Next]_vars =>
        [\A s \in Segs : failures' = 0 /\ Purged(s) /\ phase # "retention" =>
            /\ \A r \in Unprotected(OfCamera(CamOf[s])) : r < s => file[r] = 0
            /\ phase = "quota" => Recorded(OfCamera(CamOf[s])) > Quota[CamOf[s]]]_vars
  <2> SUFFICES ASSUME RecordingsInv, [Next]_vars, NEW s \in Segs, failures' = 0, Purged(s), phase # "retention"
               PROVE  /\ \A r \in Unprotected(OfCamera(CamOf[s])) : r < s => file[r] = 0
                      /\ phase = "quota" => Recorded(OfCamera(CamOf[s])) > Quota[CamOf[s]]
    OBVIOUS
  <2>1. Types /\ Purging /\ RemoveFiles
    BY OnlyRemovals DEF RecordingsInv
  <2>2. /\ todo # <<>> /\ 1 \in DOMAIN todo /\ s = todo[1].seg /\ s = Head(todo).seg
        /\ phase \in Passes /\ seen = {} /\ ~Enough
        /\ failures <= failures' /\ failures \in Nat /\ failures' \in Nat
    BY <2>1, WhatIsRemoved
  <2>3. failures = 0 /\ phase \in {"quota", "pressure"}
    BY <2>2 DEF Passes
  <2>4. ASSUME NEW r \in Unprotected(OfCamera(CamOf[s])), r < s, file[r] # 0
        PROVE  FALSE
    <3>1. r \in Segs /\ s \in Nat
      BY Bounds DEF Unprotected, Rows, OfCamera
    <3>2. r \in Nat /\ file[r] > 0
      BY <2>1, <2>4, <3>1, Bounds, Sizes
    <3>3. PICK j \in DOMAIN todo : todo[j].seg = r
      BY <2>1, <2>2, <2>3, <2>4, <3>2 DEF Purging, OldestFirst
    <3>4. j \in Nat /\ j >= 1
      BY <2>1, TodoIs
    <3>5. CASE j = 1
      BY <2>2, <2>4, <3>1, <3>3, <3>5
    <3>6. CASE j > 1
      <4>1. s < r
        BY <2>1, <2>2, <3>3, <3>6 DEF Purging, InSequence
      <4> QED
        BY <2>4, <3>1, <3>2, <4>1
    <3> QED
      BY <3>4, <3>5, <3>6
  <2>5. ASSUME phase = "quota"
        PROVE  Recorded(OfCamera(CamOf[s])) > Quota[CamOf[s]]
    <3> DEFINE c == CamOf[s]
    <3>1. c \in Cameras /\ Quota[c] \in Nat /\ tally \in Int
      BY <2>1, RecordingsAssumption, Sizes
    <3>2. ~(tally <= Quota[c])
      BY <2>2, <2>5 DEF Enough
    <3>3. tally <= Known(c)
      BY <2>1, <2>2, <2>3, <2>5, <3>1 DEF Purging, QuotaTrue, TallyTrue
    <3>4. Known(c) <= Recorded(OfCamera(c)) /\ Recorded(OfCamera(c)) \in Nat
      BY <2>1, <2>3, KnownRecorded DEF Purging, MemoTrue
    <3>5. Known(c) \in Nat
      BY KnownIs
    <3> QED
      BY <3>1, <3>2, <3>3, <3>4, <3>5
  <2> QED
    BY <2>4, <2>5
<1> QED
  BY <1>1, RecordingsHold, PTL DEF FairSpec, DropsNoMoreThanNeeded
=============================================================================
