-------------------------- MODULE SupervisorProofs --------------------------
(***************************************************************************)
(* For every fleet, every grouping and every interleaving of faults, exits *)
(* and edits with the steps of a reconcile: no camera is ever pulled by    *)
(* two workers, the groups of a plan are packed, and every quarantine has  *)
(* three faults of its own behind it.                                      *)
(*                                                                         *)
(* Two arguments are about data of any length.  That the places of the     *)
(* cameras of a shape leave no gap is counting (PlacesCount).  What the    *)
(* reading of a marker file comes to is induction over its lines: the set  *)
(* of line numbers up to which the claim fails would have a least element  *)
(* (LeastNatural).                                                         *)
(***************************************************************************)
EXTENDS Supervisor, FiniteSetTheorems, WellFoundedInduction, TLAPS

\* A worker has members, so changing its other fields leaves them alone.
Shaped(w) == "members" \in DOMAIN w

Planned(g) == g \in DOMAIN plan /\ workers[g].members = plan[g]

PlanDisjoint ==
    \A g, h \in DOMAIN plan : g # h => DOMAIN plan[g] \cap DOMAIN plan[h] = {}

\* While groups stop, the workers the loop is past match the plan; while groups
\* start, all of them do.  The groups of a plan share no camera.
Follows ==
    /\ phase \in {"idle", "stopping", "starting"}
    /\ phase = "stopping" => \A g \in DOMAIN workers \ todo : Planned(g)
    /\ phase = "starting" => (\A g \in DOMAIN workers : Planned(g)) /\ todo \subseteq DOMAIN plan

IInv ==
    /\ workers = [g \in DOMAIN workers |-> workers[g]]
    /\ \A g \in DOMAIN workers : Shaped(workers[g])
    /\ PlanDisjoint
    /\ Follows
    /\ OneWorkerPerCamera

\* Two groups of PlanGroups share no camera, since each camera has one group.
LEMMA GroupsDisjoint ==
    ASSUME NEW F, NEW Q, NEW P,
           NEW g \in DOMAIN PlanGroups(F, Q, P), NEW h \in DOMAIN PlanGroups(F, Q, P), g # h
    PROVE  DOMAIN PlanGroups(F, Q, P)[g] \cap DOMAIN PlanGroups(F, Q, P)[h] = {}
<1> DEFINE live == [c \in DOMAIN F \ Q |-> F[c]]
           G(c) == GroupOf(live, P, c)
           Of(k) == {c \in DOMAIN live : G(c) = k}
<1> HIDE DEF live, G
<1>1. PlanGroups(F, Q, P) = [k \in {G(c) : c \in DOMAIN live} |-> [c \in Of(k) |-> live[c]]]
  BY DEF PlanGroups, live, G
<1>2. /\ DOMAIN PlanGroups(F, Q, P)[g] = Of(g)
      /\ DOMAIN PlanGroups(F, Q, P)[h] = Of(h)
  BY <1>1
<1> QED BY <1>2

\* A step that leaves the domain of the workers, their members and the
\* reconcile alone keeps the invariant.
LEMMA SameMembers ==
    ASSUME IInv, UNCHANGED reconcile,
           DOMAIN workers' = DOMAIN workers,
           workers' = [g \in DOMAIN workers' |-> workers'[g]],
           \A g \in DOMAIN workers : workers'[g].members = workers[g].members /\ Shaped(workers'[g])
    PROVE  IInv'
<1>1. PlanDisjoint' BY DEF IInv, PlanDisjoint, reconcile
<1>2. OneWorkerPerCamera' BY DEF IInv, OneWorkerPerCamera
<1>3. Follows' BY DEF IInv, Follows, Planned, reconcile
<1> QED BY <1>1, <1>2, <1>3 DEF IInv

\* Changing the fields of one worker other than its members.
LEMMA OneChanged ==
    ASSUME IInv, UNCHANGED reconcile, NEW g \in DOMAIN workers, NEW w,
           Shaped(w), w.members = workers[g].members,
           workers' = [workers EXCEPT ![g] = w]
    PROVE  IInv'
<1>1. DOMAIN workers' = DOMAIN workers OBVIOUS
<1>2. workers' = [h \in DOMAIN workers' |-> workers'[h]] OBVIOUS
<1>3. \A h \in DOMAIN workers : workers'[h].members = workers[h].members /\ Shaped(workers'[h])
  BY DEF IInv
<1> QED BY <1>1, <1>2, <1>3, SameMembers

LEMMA InitIInv == ASSUME Init PROVE IInv
<1>1. DOMAIN workers = {} /\ DOMAIN plan = {} BY DEF Init, NoWorkers
<1>2. workers = [g \in DOMAIN workers |-> workers[g]] BY DEF Init, NoWorkers
<1> QED BY <1>1, <1>2 DEF Init, IInv, PlanDisjoint, Follows, OneWorkerPerCamera

LEMMA PlanKeepsIInv == ASSUME IInv, NEW F, Plan(F) PROVE IInv'
<1>1. PlanDisjoint' BY GroupsDisjoint DEF Plan, PlanDisjoint
<1>2. workers' = workers /\ phase' = "stopping" /\ todo' = DOMAIN workers BY DEF Plan
<1>3. Follows' BY <1>2 DEF Follows
<1> QED BY <1>1, <1>2, <1>3 DEF IInv, OneWorkerPerCamera

LEMMA StopWorkerKeepsIInv == ASSUME IInv, NEW g, StopWorker(g) PROVE IInv'
<1>1. /\ DOMAIN workers' = DOMAIN workers \ {g}
      /\ \A h \in DOMAIN workers' : workers'[h] = workers[h]
      /\ workers' = [h \in DOMAIN workers' |-> workers'[h]]
      /\ phase = "stopping" /\ phase' = phase /\ plan' = plan /\ todo' = todo \ {g}
  BY DEF StopWorker
<1>2. PlanDisjoint' BY <1>1 DEF IInv, PlanDisjoint
<1>3. Follows' BY <1>1 DEF IInv, Follows, Planned
<1>4. OneWorkerPerCamera' BY <1>1 DEF IInv, OneWorkerPerCamera
<1> QED BY <1>1, <1>2, <1>3, <1>4 DEF IInv

LEMMA KeepWorkerKeepsIInv == ASSUME IInv, NEW g, KeepWorker(g) PROVE IInv'
<1>1. /\ workers' = workers /\ plan' = plan /\ todo' = todo \ {g}
      /\ phase = "stopping" /\ phase' = phase /\ g \in Current
  BY DEF KeepWorker
<1>2. Planned(g) BY <1>1 DEF Current, Planned
<1>3. Follows' BY <1>1, <1>2 DEF IInv, Follows, Planned
<1> QED BY <1>1, <1>3 DEF IInv, PlanDisjoint, OneWorkerPerCamera

LEMMA AllCheckedKeepsIInv == ASSUME IInv, AllChecked PROVE IInv'
<1>1. /\ workers' = workers /\ plan' = plan /\ phase = "stopping" /\ phase' = "starting"
      /\ todo = {} /\ todo' = DOMAIN plan \ DOMAIN workers
  BY DEF AllChecked
<1>2. Follows' BY <1>1 DEF IInv, Follows, Planned
<1> QED BY <1>1, <1>2 DEF IInv, PlanDisjoint, OneWorkerPerCamera

LEMMA StartWorkerKeepsIInv == ASSUME IInv, NEW g, StartWorker(g) PROVE IInv'
<1>1. /\ phase = "starting" /\ phase' = phase /\ plan' = plan /\ g \in todo /\ todo' = todo \ {g}
      /\ workers' = [h \in DOMAIN workers \cup {g} |->
                        IF h = g THEN NewWorker(plan[g]) ELSE workers[h]]
  BY DEF StartWorker
<1>2. /\ DOMAIN workers' = DOMAIN workers \cup {g}
      /\ workers' = [h \in DOMAIN workers' |-> workers'[h]]
      /\ \A h \in DOMAIN workers' : workers'[h] = IF h = g THEN NewWorker(plan[g]) ELSE workers[h]
  BY <1>1
<1>3. Shaped(NewWorker(plan[g])) /\ NewWorker(plan[g]).members = plan[g]
  BY DEF Shaped, NewWorker
<1>4. g \in DOMAIN plan BY <1>1 DEF IInv, Follows
<1>5. \A h \in DOMAIN workers' : Planned(h)'
  BY <1>1, <1>2, <1>3, <1>4 DEF IInv, Follows, Planned
<1>6. PlanDisjoint' BY <1>1 DEF IInv, PlanDisjoint
<1>7. OneWorkerPerCamera' BY <1>5, <1>6 DEF OneWorkerPerCamera, PlanDisjoint, Planned
<1>8. Follows' BY <1>1, <1>5 DEF IInv, Follows
<1>9. \A h \in DOMAIN workers' : Shaped(workers'[h]) BY <1>2, <1>3 DEF IInv
<1> QED BY <1>2, <1>6, <1>7, <1>8, <1>9 DEF IInv

LEMMA AllStartedKeepsIInv == ASSUME IInv, AllStarted PROVE IInv'
<1>1. workers' = workers /\ phase' = "idle" /\ DOMAIN plan' = {} BY DEF AllStarted, NoWorkers
<1> QED BY <1>1 DEF IInv, PlanDisjoint, Follows, OneWorkerPerCamera

LEMMA WorkerKeepsIInv ==
    ASSUME IInv, NEW g \in DOMAIN workers,
           \/ \E F : SpawnWith(g, F)
           \/ Healthy(g)
           \/ \E c \in Cameras : MemberDies(g, c)
           \/ ChildExits(g)
    PROVE  IInv'
<1> DEFINE w == workers'[g]
<1>0. Shaped(workers[g]) /\ workers = [h \in DOMAIN workers |-> workers[h]] BY DEF IInv
<1>1. ASSUME NEW F, SpawnWith(g, F) PROVE IInv'
  <2> DEFINE s == [c \in DOMAIN workers[g].members \cap DOMAIN F |-> F[c]]
             x == [workers[g] EXCEPT !.child = "up", !.healthy = FALSE, !.serves = s]
  <2>1. /\ workers' = [workers EXCEPT ![g].child = "up", ![g].healthy = FALSE, ![g].serves = s]
        /\ UNCHANGED reconcile
    BY <1>1 DEF SpawnWith
  <2> HIDE DEF s
  <2>2. workers' = [workers EXCEPT ![g] = x] BY <2>1, <1>0
  <2>3. Shaped(x) /\ x.members = workers[g].members BY <1>0 DEF Shaped
  <2> HIDE DEF x
  <2> QED BY <2>1, <2>2, <2>3, OneChanged
<1>2. CASE Healthy(g)
  <2>1. workers' = [workers EXCEPT ![g] = [workers[g] EXCEPT !.healthy = TRUE]]
    BY <1>2 DEF Healthy
  <2> QED BY <2>1, <1>0, <1>2, OneChanged DEF Healthy, Shaped
<1>3. ASSUME NEW c \in Cameras, MemberDies(g, c) PROVE IInv'
  <2>1. workers' = [workers EXCEPT ![g] = [workers[g] EXCEPT !.dead = workers[g].dead \cup {c}]]
    BY <1>3 DEF MemberDies
  <2> QED BY <2>1, <1>0, <1>3, OneChanged DEF MemberDies, Shaped
<1>4. CASE ChildExits(g)
  <2> DEFINE acc == Tally([recent |-> recent, strikes |-> workers[g].strikes,
                           quarantine |-> quarantine, offences |-> offences], markers[g])
             s == acc.strikes
             r == acc.offences # offences
             x == [workers[g] EXCEPT !.child = "down", !.serves = NoCameras, !.dead = {},
                                     !.strikes = s, !.retired = r]
  <2>1. /\ workers' = [workers EXCEPT ![g].child = "down", ![g].serves = NoCameras,
                                      ![g].dead = {}, ![g].strikes = s, ![g].retired = r]
        /\ UNCHANGED reconcile
    BY <1>4 DEF ChildExits
  <2> HIDE DEF s, r
  <2>2. workers' = [workers EXCEPT ![g] = x]
    BY <2>1, <1>0
  <2>3. Shaped(x) /\ x.members = workers[g].members
    BY <1>0 DEF Shaped
  <2> HIDE DEF x, acc
  <2> QED BY <2>1, <2>2, <2>3, OneChanged
<1> QED BY <1>1, <1>2, <1>3, <1>4

LEMMA GraduateKeepsIInv == ASSUME IInv, NEW c, GraduateProbation(c) PROVE IInv'
<1> DEFINE g == <<"probation", c>>
           x == [workers[g] EXCEPT !.child = "down", !.serves = NoCameras, !.dead = {},
                                   !.retired = TRUE]
<1>1. /\ g \in DOMAIN workers /\ UNCHANGED reconcile
      /\ workers' = [workers EXCEPT ![g].child = "down", ![g].serves = NoCameras,
                                    ![g].dead = {}, ![g].retired = TRUE]
  BY DEF GraduateProbation
<1> HIDE DEF g
<1>2. workers' = [workers EXCEPT ![g] = x]
  BY <1>1 DEF IInv
<1>3. Shaped(x) /\ x.members = workers[g].members
  BY <1>1 DEF IInv, Shaped
<1> HIDE DEF x
<1> QED BY <1>1, <1>2, <1>3, OneChanged

LEMMA QuietPeriodKeepsIInv == ASSUME IInv, QuietPeriod PROVE IInv'
<1>1. /\ UNCHANGED reconcile
      /\ workers' = [g \in DOMAIN workers |->
                        [workers[g] EXCEPT !.strikes = [c \in Cameras |-> 0]]]
  BY DEF QuietPeriod
<1>2. \A g \in DOMAIN workers : workers'[g].members = workers[g].members /\ Shaped(workers'[g])
  BY <1>1 DEF IInv, Shaped
<1> QED BY <1>1, <1>2, SameMembers

LEMMA NextIInv == ASSUME IInv, [Next]_vars PROVE IInv'
<1>1. ASSUME UNCHANGED <<workers, reconcile>> PROVE IInv'
  BY <1>1 DEF IInv, PlanDisjoint, Follows, Planned, OneWorkerPerCamera, reconcile
<1>2. CASE PlanFleet BY <1>2, PlanKeepsIInv DEF PlanFleet
<1>3. CASE PlanAfterDbError BY <1>3, PlanKeepsIInv DEF PlanAfterDbError
<1>4. CASE AllChecked BY <1>4, AllCheckedKeepsIInv
<1>5. CASE AllStarted BY <1>5, AllStartedKeepsIInv
<1>6. ASSUME NEW g \in todo, StopWorker(g) \/ KeepWorker(g) \/ StartWorker(g) PROVE IInv'
  BY <1>6, StopWorkerKeepsIInv, KeepWorkerKeepsIInv, StartWorkerKeepsIInv
<1>7. ASSUME NEW g \in DOMAIN workers,
             \/ Spawn(g) \/ SpawnBlind(g) \/ Healthy(g)
             \/ (\E c \in Cameras : MemberDies(g, c)) \/ ChildExits(g)
      PROVE IInv'
  BY <1>7, WorkerKeepsIInv DEF Spawn, SpawnBlind
<1>8. ASSUME NEW c \in Cameras, GraduateProbation(c) PROVE IInv'
  BY <1>8, GraduateKeepsIInv
<1>9. ASSUME NEW c \in Cameras, QuarantineExpires(c) PROVE IInv'
  BY <1>9, <1>1 DEF QuarantineExpires
<1>10. ASSUME NEW c \in Edited, NEW f, EditCamera(c, f) PROVE IInv'
  BY <1>10, <1>1 DEF EditCamera
<1>11. CASE StormPasses BY <1>11, <1>1 DEF StormPasses
<1>12. CASE QuietPeriod BY <1>12, QuietPeriodKeepsIInv
<1>13. CASE UNCHANGED vars BY <1>13, <1>1 DEF vars
<1> QED BY <1>2, <1>3, <1>4, <1>5, <1>6, <1>7, <1>8, <1>9, <1>10, <1>11, <1>12, <1>13 DEF Next

\* No camera is pulled by two workers (the stop loop and the start loop of
\* reconcileOnce, against every step of the workers and every edit).
THEOREM NoCameraPulledTwice == Spec => []OneWorkerPerCamera
<1>1. Init => IInv BY InitIInv
<1>2. IInv /\ [Next]_vars => IInv' BY NextIInv
<1>3. IInv => OneWorkerPerCamera BY DEF IInv
<1> QED BY <1>1, <1>2, <1>3, PTL DEF Spec

-----------------------------------------------------------------------------
(* The groups of a plan are packed *)

\* How many elements of S are less than c: c's place in S.
Place(S, c) == Cardinality({d \in S : d < c})

\* Facts about integer division.
LEMMA QuotientGrows ==
    ASSUME NEW n \in Nat \ {0}, NEW a \in Nat, NEW b \in Nat, a <= b
    PROVE  a \div n \in 0..(b \div n)
OBVIOUS

LEMMA QuotientBlock ==
    ASSUME NEW n \in Nat \ {0}, NEW a \in Nat, NEW i \in Nat
    PROVE  a \div n = i <=> a \in (i * n)..(i * n + n - 1)
OBVIOUS

LEMMA QuotientSmaller ==
    ASSUME NEW n \in Nat \ {0}, NEW a \in Nat, NEW b \in Nat, a \div n < b \div n
    PROVE  a < b
OBVIOUS

LEMMA QuotientAbove ==
    ASSUME NEW n \in Nat \ {0}, NEW a \in Nat, NEW i \in Nat, i < a \div n
    PROVE  i * n + n - 1 < a
OBVIOUS

\* Places grow with the elements and leave no gap.
LEMMA PlacesCount ==
    ASSUME NEW S \in SUBSET Nat, IsFiniteSet(S)
    PROVE  /\ \A c \in S : Place(S, c) \in 0..(Cardinality(S) - 1)
           /\ \A c \in S, d \in S : c < d => Place(S, c) < Place(S, d)
           /\ \A k \in 0..(Cardinality(S) - 1) : \E c \in S : Place(S, c) = k
<1> DEFINE Below(c) == {d \in S : d < c}
           n == Cardinality(S)
           r == [c \in S |-> Place(S, c)]
<1>0. n \in Nat BY FS_CardinalityType
<1>1. ASSUME NEW c PROVE IsFiniteSet(Below(c)) /\ Place(S, c) \in Nat
  <2>1. Below(c) \in SUBSET S /\ Place(S, c) = Cardinality(Below(c)) BY DEF Place
  <2> HIDE DEF Below
  <2> QED BY <2>1, FS_Subset, FS_CardinalityType
<1>2. ASSUME NEW c \in S PROVE Place(S, c) < n
  <2>1. Below(c) \in SUBSET (S \ {c}) OBVIOUS
  <2>2. IsFiniteSet(S \ {c}) /\ Cardinality(S \ {c}) = n - 1 BY FS_RemoveElement
  <2>3. Cardinality(Below(c)) <= n - 1 BY <2>1, <2>2, FS_Subset
  <2> QED BY <2>3, <1>0, <1>1 DEF Place
<1>3. ASSUME NEW c \in S, NEW d \in S, c < d PROVE Place(S, c) < Place(S, d)
  <2>1. Below(c) \cup {c} \subseteq Below(d) /\ c \notin Below(c)
    <3>1. \A e \in S : e < c => e < d BY <1>3
    <3>2. c \in Below(d) /\ ~(c < c) BY <1>3
    <3> QED BY <3>1, <3>2
  <2>2. IsFiniteSet(Below(c)) /\ IsFiniteSet(Below(d)) BY <1>1
  <2>3. Place(S, c) = Cardinality(Below(c)) /\ Place(S, d) = Cardinality(Below(d)) BY DEF Place
  <2>4. Place(S, c) \in Nat /\ Place(S, d) \in Nat BY <1>1
  <2> HIDE DEF Below
  <2>5. Cardinality(Below(c) \cup {c}) = Cardinality(Below(c)) + 1 BY <2>1, <2>2, FS_AddElement
  <2>6. Cardinality(Below(c) \cup {c}) <= Cardinality(Below(d)) BY <2>1, <2>2, FS_Subset
  <2> QED BY <2>3, <2>4, <2>5, <2>6
<1> HIDE DEF n
<1>4. \A c \in S : Place(S, c) \in 0..(n - 1)
  <2> SUFFICES ASSUME NEW c \in S PROVE Place(S, c) \in 0..(n - 1) OBVIOUS
  <2>1. Place(S, c) \in Nat /\ Place(S, c) < n BY <1>1, <1>2
  <2> QED BY <2>1, <1>0
<1>5. r \in Injection(S, 0..(n - 1))
  <2>1. r \in [S -> 0..(n - 1)] BY <1>4
  <2>2. \A c, d \in S : r[c] = r[d] => c = d
    <3> SUFFICES ASSUME NEW c \in S, NEW d \in S, c # d PROVE r[c] # r[d] OBVIOUS
    <3>1. c < d \/ d < c OBVIOUS
    <3>2. Place(S, c) \in Nat /\ Place(S, d) \in Nat BY <1>1
    <3> QED BY <3>1, <3>2, <1>3
  <2> HIDE DEF r
  <2> QED BY <2>1, <2>2 DEF Injection, IsInjective
<1>6. IsFiniteSet(0..(n - 1)) /\ Cardinality(0..(n - 1)) = n
  BY <1>0, FS_Interval
<1>7. r \in Surjection(S, 0..(n - 1))
  BY <1>5, <1>6, FS_Injection DEF n
<1>8. \A k \in 0..(n - 1) : \E c \in S : r[c] = k
  BY <1>7 DEF Surjection
<1> QED BY <1>3, <1>4, <1>8 DEF n

\* Elements whose place divided by M is i: all M of them when there is one beyond.
LEMMA FullChunk ==
    ASSUME NEW S \in SUBSET Nat, IsFiniteSet(S), NEW M \in Nat \ {0}, NEW i \in Nat,
           NEW d \in S, i < Place(S, d) \div M
    PROVE  Cardinality({c \in S : Place(S, c) \div M = i}) = M
<1> DEFINE C == {c \in S : Place(S, c) \div M = i}
           B == (i * M)..(i * M + M - 1)
           f == [c \in C |-> Place(S, c)]
<1>1. \A c \in S : Place(S, c) \in Nat BY PlacesCount
<1>2. i * M \in Nat /\ i * M + M - 1 \in Nat OBVIOUS
<1>3. i * M + M - 1 < Place(S, d) BY <1>1, QuotientAbove
<1>4. \A k \in B : \E c \in S : Place(S, c) = k
  <2>1. Place(S, d) \in 0..(Cardinality(S) - 1) BY PlacesCount
  <2>2. Cardinality(S) \in Nat BY FS_CardinalityType
  <2>3. \A k \in B : k \in 0..(Cardinality(S) - 1) BY <2>1, <2>2, <1>2, <1>3
  <2> HIDE DEF B
  <2> QED BY <2>3, PlacesCount
<1>5. \A c \in S : c \in C <=> Place(S, c) \in B
  BY <1>1, QuotientBlock
<1>6. \A c, e \in S : Place(S, c) = Place(S, e) => c = e
  <2> SUFFICES ASSUME NEW c \in S, NEW e \in S, c # e PROVE Place(S, c) # Place(S, e) OBVIOUS
  <2>1. c < e \/ e < c OBVIOUS
  <2> QED BY <2>1, <1>1, PlacesCount
<1>7. C \subseteq S OBVIOUS
<1>8. IsFiniteSet(C) BY <1>7, FS_Subset
<1>9. f \in Bijection(C, B)
  <2> HIDE DEF C, B
  <2>1. f \in [C -> B] BY <1>5, <1>7
  <2>2. \A c, e \in C : f[c] = f[e] => c = e BY <1>6, <1>7
  <2>3. \A k \in B : \E c \in C : f[c] = k BY <1>4, <1>5
  <2> HIDE DEF f
  <2> QED BY <2>1, <2>2, <2>3 DEF Bijection, Injection, Surjection, IsInjective
<1>10. Cardinality(B) = Cardinality(C)
  BY <1>8, <1>9, FS_Bijection DEF ExistsBijection
<1>11. Cardinality(B) = M BY <1>2, FS_Interval
<1> QED BY <1>10, <1>11

\* The cameras of F that run in batches of shape k.
OfShape(F, P, k) == {d \in DOMAIN F \ P : ShapeKey[F[d]] = k}

\* The group of a camera that runs in batches is its place among those of its
\* shape, divided by GroupMax.
LEMMA BatchedGroup ==
    ASSUME NEW F, NEW P, NEW c \in DOMAIN F, c \notin P, ShapeKey[F[c]] # "solo"
    PROVE  /\ c \in OfShape(F, P, ShapeKey[F[c]])
           /\ GroupOf(F, P, c) =
                <<ShapeKey[F[c]], Place(OfShape(F, P, ShapeKey[F[c]]), c) \div GroupMax>>
<1> DEFINE k == ShapeKey[F[c]]
<1>1. {d \in DOMAIN F \ P : d < c /\ ShapeKey[F[d]] = k} = {d \in OfShape(F, P, k) : d < c}
  BY DEF OfShape
<1>2. Place(OfShape(F, P, k), c) = Cardinality({d \in DOMAIN F \ P : d < c /\ ShapeKey[F[d]] = k})
  BY <1>1 DEF Place
<1>3. GroupOf(F, P, c) =
        <<k, Cardinality({d \in DOMAIN F \ P : d < c /\ ShapeKey[F[d]] = k}) \div GroupMax>>
  BY DEF GroupOf
<1>4. c \in OfShape(F, P, k) BY DEF OfShape
<1> QED BY <1>2, <1>3, <1>4

\* A camera whose group is a batch of shape k is not on probation and has it.
LEMMA BatchMember ==
    ASSUME NEW F, NEW P, NEW c \in DOMAIN F, GroupOf(F, P, c)[1] \in Shapes
    PROVE  /\ c \in OfShape(F, P, GroupOf(F, P, c)[1])
           /\ GroupOf(F, P, c)[2] = Place(OfShape(F, P, GroupOf(F, P, c)[1]), c) \div GroupMax
<1>1. "probation" \notin Shapes /\ "solo" \notin Shapes
  BY SupervisorAssumption DEF Shapes
<1>2. c \notin P
  <2> SUFFICES ASSUME c \in P PROVE FALSE OBVIOUS
  <2>1. GroupOf(F, P, c)[1] = "probation" BY DEF GroupOf
  <2> QED BY <2>1, <1>1
<1>3. ShapeKey[F[c]] # "solo"
  <2> SUFFICES ASSUME ShapeKey[F[c]] = "solo" PROVE FALSE OBVIOUS
  <2>1. GroupOf(F, P, c)[1] = "solo" BY <1>2 DEF GroupOf
  <2> QED BY <2>1, <1>1
<1>4. GroupOf(F, P, c)[1] = ShapeKey[F[c]]
  BY <1>2, <1>3, BatchedGroup
<1> QED BY <1>2, <1>3, <1>4, BatchedGroup

\* The cameras a plan is made of, with their configurations.
Live(F, Q) == [c \in DOMAIN F \ Q |-> F[c]]

\* The groups of a plan by membership.
LEMMA PlanMembers ==
    ASSUME NEW F, NEW Q, NEW P
    PROVE  /\ \A g \in DOMAIN PlanGroups(F, Q, P) :
                \E c \in DOMAIN Live(F, Q) : GroupOf(Live(F, Q), P, c) = g
           /\ \A g \in DOMAIN PlanGroups(F, Q, P) : \A c :
                c \in DOMAIN PlanGroups(F, Q, P)[g] <=>
                    c \in DOMAIN Live(F, Q) /\ GroupOf(Live(F, Q), P, c) = g
           /\ \A g \in DOMAIN PlanGroups(F, Q, P) :
                PlanGroups(F, Q, P)[g] =
                    [c \in DOMAIN PlanGroups(F, Q, P)[g] |-> Live(F, Q)[c]]
<1> DEFINE live == [c \in DOMAIN F \ Q |-> F[c]]
           G(c) == GroupOf(live, P, c)
<1> HIDE DEF live, G
<1>1. PlanGroups(F, Q, P) = [g \in {G(c) : c \in DOMAIN live} |->
                                [c \in {d \in DOMAIN live : G(d) = g} |-> live[c]]]
  BY DEF PlanGroups, live, G
<1>2. /\ DOMAIN PlanGroups(F, Q, P) = {G(c) : c \in DOMAIN live}
      /\ \A g \in DOMAIN PlanGroups(F, Q, P) :
            PlanGroups(F, Q, P)[g] = [c \in {d \in DOMAIN live : G(d) = g} |-> live[c]]
  BY <1>1
<1>3. \A g \in DOMAIN PlanGroups(F, Q, P) :
        /\ \E c \in DOMAIN live : G(c) = g
        /\ \A c : c \in DOMAIN PlanGroups(F, Q, P)[g] <=> c \in DOMAIN live /\ G(c) = g
        /\ PlanGroups(F, Q, P)[g] = [c \in DOMAIN PlanGroups(F, Q, P)[g] |-> live[c]]
  BY <1>2
<1>4. live = Live(F, Q) BY DEF live, Live
<1>5. \A c : G(c) = GroupOf(Live(F, Q), P, c) BY <1>4 DEF G
<1> QED BY <1>3, <1>4, <1>5

\* The groups of one shape in a plan: the earlier is full, and before the later.
LEMMA GroupsPacked ==
    ASSUME NEW F, DOMAIN F \subseteq Cameras, NEW Q, NEW P,
           NEW g \in DOMAIN PlanGroups(F, Q, P), NEW h \in DOMAIN PlanGroups(F, Q, P),
           g[1] = h[1], g[1] \in Shapes, g[2] < h[2]
    PROVE  /\ Cardinality(DOMAIN PlanGroups(F, Q, P)[g]) = GroupMax
           /\ \A c \in DOMAIN PlanGroups(F, Q, P)[g], d \in DOMAIN PlanGroups(F, Q, P)[h] : c < d
<1> DEFINE live == Live(F, Q)
           p == PlanGroups(F, Q, P)
           G(c) == GroupOf(live, P, c)
           S == OfShape(live, P, g[1])
           r(c) == Place(S, c)
<1>1. \A e \in DOMAIN p : \E c \in DOMAIN live : G(c) = e
  BY PlanMembers
<1>2. /\ \A c : c \in DOMAIN p[g] <=> c \in DOMAIN live /\ G(c) = g
      /\ \A c : c \in DOMAIN p[h] <=> c \in DOMAIN live /\ G(c) = h
  BY PlanMembers
<1>3. DOMAIN live \subseteq Cameras /\ S \subseteq DOMAIN live BY DEF OfShape, Live
<1>4. S \in SUBSET Nat /\ IsFiniteSet(S)
  BY <1>3, SupervisorAssumption, FS_Subset
<1> HIDE DEF live, p, S
<1>5. \A c \in DOMAIN p[g] : c \in S /\ r(c) \div GroupMax = g[2]
  BY <1>2, BatchMember DEF S, G
<1>6. \A d \in DOMAIN p[h] : d \in S /\ r(d) \div GroupMax = h[2]
  BY <1>2, BatchMember DEF S, G
<1>7. PICK d \in DOMAIN live : G(d) = h BY <1>1 DEF p
<1>8. PICK e \in DOMAIN live : G(e) = g BY <1>1 DEF p
<1>9. d \in S /\ r(d) \div GroupMax = h[2] /\ e \in S /\ r(e) \div GroupMax = g[2]
  BY <1>2, <1>5, <1>6, <1>7, <1>8
<1>10. GroupMax \in Nat \ {0} BY SupervisorAssumption
<1>11. \A c \in S : r(c) \in Nat BY <1>4, PlacesCount
<1> HIDE DEF r, G
<1>12. g[2] \in Nat BY <1>9, <1>10, <1>11
<1>13. \A c \in S : r(c) \div GroupMax = g[2] => c \in DOMAIN p[g]
  <2> SUFFICES ASSUME NEW c \in S, r(c) \div GroupMax = g[2] PROVE G(c) = g
    BY <1>2, <1>3
  <2>1. c \in DOMAIN live /\ c \notin P /\ ShapeKey[live[c]] = g[1] BY DEF S, OfShape
  <2>2. g[1] # "solo" BY DEF Shapes
  <2>3. G(c) = <<g[1], r(c) \div GroupMax>> BY <2>1, <2>2, BatchedGroup DEF G, r, S
  <2>4. g = <<g[1], g[2]>>
    <3>1. e \notin P /\ ShapeKey[live[e]] = g[1] BY <1>9 DEF S, OfShape
    <3>2. G(e) = <<g[1], r(e) \div GroupMax>> BY <3>1, <2>2, <1>8, BatchedGroup DEF G, r, S
    <3> QED BY <3>2, <1>8
  <2> QED BY <2>3, <2>4
<1>14. DOMAIN p[g] = {c \in S : Place(S, c) \div GroupMax = g[2]}
  BY <1>5, <1>13 DEF r
<1>15. Cardinality(DOMAIN p[g]) = GroupMax
  <2> DEFINE i == g[2]
  <2>1. i \in Nat /\ i < Place(S, d) \div GroupMax BY <1>9, <1>12 DEF r
  <2>2. DOMAIN p[g] = {c \in S : Place(S, c) \div GroupMax = i} BY <1>14
  <2> HIDE DEF i
  <2>3. Cardinality({c \in S : Place(S, c) \div GroupMax = i}) = GroupMax
    BY <2>1, <1>4, <1>9, <1>10, FullChunk
  <2> QED BY <2>2, <2>3
<1>16. ASSUME NEW c \in DOMAIN p[g], NEW b \in DOMAIN p[h] PROVE c < b
  <2>1. /\ c \in S /\ b \in S /\ r(c) \in Nat /\ r(b) \in Nat
        /\ r(c) \div GroupMax < r(b) \div GroupMax
    BY <1>5, <1>6, <1>11
  <2>2. r(c) < r(b) BY <2>1, <1>10, QuotientSmaller
  <2>3. c # b /\ ~(b < c) BY <2>1, <2>2, <1>4, PlacesCount DEF r
  <2> QED BY <2>1, <2>3, <1>4
<1> QED BY <1>15, <1>16 DEF p

\* Every step leaves the plan alone, forgets it or makes a new one of F.
LEMMA PlanStep ==
    ASSUME [Next]_vars
    PROVE  \/ plan' = plan
           \/ plan' = NoWorkers
           \/ PlanFleet
           \/ plan' = PlanGroups(NoCameras, InState({"quarantined"}),
                                 InState({"expired", "probation"}))
BY DEF Next, vars, PlanAfterDbError, Plan, AllChecked, AllStarted, StopWorker, KeepWorker,
       StartWorker, Spawn, SpawnBlind, SpawnWith, Healthy, MemberDies, ChildExits, GraduateProbation, reconcile,
       QuarantineExpires, StormPasses, QuietPeriod, EditCamera

\* planGroups batches the cameras of a shape in the order of their ids, and only
\* the last batch of a plan may be short.
THEOREM PlansPacked == Spec => []PlanPacksGroups
<1>1. Init => PlanPacksGroups BY DEF Init, NoWorkers, PlanPacksGroups
<1>2. ASSUME PlanPacksGroups, [Next]_vars PROVE PlanPacksGroups'
  <2>1. ASSUME NEW F, DOMAIN F \subseteq Cameras, NEW Q, NEW P, plan' = PlanGroups(F, Q, P)
        PROVE  PlanPacksGroups'
    BY <2>1, GroupsPacked DEF PlanPacksGroups
  <2>2. CASE plan' = plan BY <1>2, <2>2 DEF PlanPacksGroups
  <2>3. CASE plan' = NoWorkers BY <2>3 DEF PlanPacksGroups, NoWorkers
  <2>4. CASE PlanFleet
    <3>1. plan' = PlanGroups(Enabled, InState({"quarantined"}), InState({"expired", "probation"}))
      BY <2>4 DEF PlanFleet, Plan
    <3>2. DOMAIN Enabled \subseteq Cameras BY DEF Enabled
    <3> QED BY <3>1, <3>2, <2>1
  <2>5. CASE plan' = PlanGroups(NoCameras, InState({"quarantined"}),
                                InState({"expired", "probation"}))
    <3>1. DOMAIN NoCameras \subseteq Cameras BY DEF NoCameras
    <3> QED BY <3>1, <2>5, <2>1
  <2> QED BY <1>2, <2>2, <2>3, <2>4, <2>5, PlanStep
<1> QED BY <1>1, <1>2, PTL DEF Spec

-----------------------------------------------------------------------------
(* Reading a marker file *)

\* A set of naturals that is not empty has a least element.
LEMMA LeastNatural ==
    ASSUME NEW T \in SUBSET Nat, T # {}
    PROVE  \E n \in T : \A k \in T : n <= k
<1>1. PICK n \in T : \A k \in T : <<k, n>> \notin OpToRel(<, Nat)
  BY NatLessThanWellFounded, WFMin
<1>2. \A k \in T : ~(k < n) BY <1>1 DEF OpToRel
<1> QED BY <1>2

\* The recursion of Tally has a solution: it reads the lines one after the other.
LEMMA TallyRuns ==
    ASSUME NEW start, NEW lines \in Seq(Cameras)
    PROVE  \E f : /\ f[0] = start
                  /\ \A i \in 1..Len(lines) : f[i] = Strike(f[i - 1], lines[i])
                  /\ Tally(start, lines) = f[Len(lines)]
<1> DEFINE Runs(f, n) == f = [i \in 0..n |-> IF i = 0 THEN start ELSE Strike(f[i - 1], lines[i])]
           T == {n \in Nat : n <= Len(lines) /\ ~\E f : Runs(f, n)}
<1>0. Len(lines) \in Nat OBVIOUS
<1>1. T = {}
  <2> SUFFICES ASSUME T # {} PROVE FALSE OBVIOUS
  <2>1. T \in SUBSET Nat OBVIOUS
  <2>2. PICK n \in T : \A k \in T : n <= k BY <2>1, LeastNatural
  <2>3. n \in Nat /\ n <= Len(lines) /\ ~\E f : Runs(f, n) OBVIOUS
  <2>4. \A k \in Nat : k < n => \E f : Runs(f, k)
    <3> SUFFICES ASSUME NEW k \in Nat, k < n, ~\E f : Runs(f, k) PROVE FALSE OBVIOUS
    <3>1. k \in T BY <2>3
    <3> HIDE DEF T, Runs
    <3> QED BY <3>1, <2>2, <2>3
  <2>5. CASE n = 0
    <3> DEFINE g == [i \in 0..0 |-> start]
    <3>1. \A i \in 0..0 : g[i] = IF i = 0 THEN start ELSE Strike(g[i - 1], lines[i]) OBVIOUS
    <3>2. Runs(g, 0) BY <3>1
    <3> HIDE DEF Runs, g
    <3> QED BY <3>2, <2>3, <2>5
  <2>6. CASE n > 0
    <3>1. n - 1 \in Nat /\ n - 1 < n BY <2>3, <2>6
    <3>2. PICK f : Runs(f, n - 1)
      <4> HIDE DEF Runs
      <4> QED BY <3>1, <2>4
    <3> DEFINE g == [i \in 0..n |-> IF i = n THEN Strike(f[n - 1], lines[n]) ELSE f[i]]
    <3>3. \A i \in 0..(n - 1) : f[i] = IF i = 0 THEN start ELSE Strike(f[i - 1], lines[i])
      BY <3>2
    <3>4. \A i \in 0..n : g[i] = IF i = 0 THEN start ELSE Strike(g[i - 1], lines[i])
      BY <3>3, <2>3, <2>6
    <3>5. Runs(g, n) BY <3>4
    <3> HIDE DEF Runs, g
    <3> QED BY <3>5, <2>3
  <2> QED BY <2>3, <2>5, <2>6
<1>2. \E f : Runs(f, Len(lines)) BY <1>0, <1>1
<1> DEFINE f == CHOOSE f : Runs(f, Len(lines))
<1>3. Runs(f, Len(lines)) BY <1>2
<1>4. Tally(start, lines) = f[Len(lines)] BY DEF Tally
<1> HIDE DEF f, T
<1>5. /\ f[0] = start
      /\ \A i \in 1..Len(lines) : f[i] = Strike(f[i - 1], lines[i])
  <2>1. \A i \in 0..Len(lines) : f[i] = IF i = 0 THEN start ELSE Strike(f[i - 1], lines[i])
    BY <1>3
  <2> QED BY <2>1, <1>0
<1> QED BY <1>4, <1>5

Reading == [recent : SUBSET Cameras, strikes : [Cameras -> 0..2],
            quarantine : [Cameras -> Entry \cup {NoEntry}], offences : [Cameras -> Nat]]

\* What c has against it in a reading of the marker file.
Against(acc, c) == acc.strikes[c] + 3 * acc.offences[c]

LEMMA QuarantineEntry ==
    ASSUME NEW e \in Entry \cup {NoEntry}
    PROVE  QuarantineMember(e) \in Entry
BY DEF QuarantineMember, Entry, Backoffs

\* One line brings at most one more against its camera, and nothing against others.
LEMMA StrikeAgainst ==
    ASSUME NEW acc \in Reading, NEW c \in Cameras
    PROVE  /\ Strike(acc, c) \in Reading
           /\ \A d \in Cameras : Against(Strike(acc, c), d) <= Against(acc, d) + (IF d = c THEN 1 ELSE 0)
<1> DEFINE r  == acc.recent \cup {c}
           s0 == [acc.strikes EXCEPT ![c] = 0]
           s1 == [acc.strikes EXCEPT ![c] = @ + 1]
           q1 == [acc.quarantine EXCEPT ![c] = QuarantineMember(@)]
           o1 == [acc.offences EXCEPT ![c] = @ + 1]
<1>1. /\ acc.recent \in SUBSET Cameras /\ acc.quarantine \in [Cameras -> Entry \cup {NoEntry}]
      /\ acc.strikes \in [Cameras -> 0..2] /\ acc.strikes[c] \in 0..2
      /\ acc.offences \in [Cameras -> Nat]
      /\ acc = [recent |-> acc.recent, strikes |-> acc.strikes,
                quarantine |-> acc.quarantine, offences |-> acc.offences]
  BY DEF Reading
<1>2. r \in SUBSET Cameras BY <1>1
<1>3. \A d \in Cameras : acc.strikes[d] \in 0..2 /\ acc.offences[d] \in Nat BY <1>1
<1> HIDE DEF r
<1>4. CASE Cardinality(r) >= 3
  <2>1. Strike(acc, c) = [acc EXCEPT !.recent = r] BY <1>4 DEF Strike, r
  <2>2. Strike(acc, c) = [recent |-> r, strikes |-> acc.strikes,
                          quarantine |-> acc.quarantine, offences |-> acc.offences]
    BY <2>1, <1>1
  <2>3. Strike(acc, c) \in Reading BY <2>2, <1>1, <1>2 DEF Reading
  <2>4. Strike(acc, c).strikes = acc.strikes /\ Strike(acc, c).offences = acc.offences BY <2>2
  <2>5. \A d \in Cameras : Against(Strike(acc, c), d) = Against(acc, d) /\ Against(acc, d) \in Nat
    BY <2>4, <1>3 DEF Against
  <2> QED BY <2>3, <2>5
<1>5. CASE ~(Cardinality(r) >= 3) /\ acc.strikes[c] = 2
  <2>1. Strike(acc, c) = [recent |-> r, strikes |-> s0, quarantine |-> q1, offences |-> o1]
    BY <1>5 DEF Strike, r
  <2>2. s0 \in [Cameras -> 0..2] /\ o1 \in [Cameras -> Nat] BY <1>1
  <2>3. q1 \in [Cameras -> Entry \cup {NoEntry}] BY <1>1, QuarantineEntry
  <2> HIDE DEF q1
  <2>4. Strike(acc, c) \in Reading BY <2>1, <2>2, <2>3, <1>2 DEF Reading
  <2>5. Strike(acc, c).strikes = s0 /\ Strike(acc, c).offences = o1 BY <2>1
  <2>6. \A d \in Cameras :
            Against(Strike(acc, c), d) <= Against(acc, d) + (IF d = c THEN 1 ELSE 0)
    <3>1. \A d \in Cameras : /\ s0[d] = IF d = c THEN 0 ELSE acc.strikes[d]
                             /\ o1[d] = IF d = c THEN acc.offences[d] + 1 ELSE acc.offences[d]
      BY <1>1
    <3> QED BY <3>1, <2>5, <1>3, <1>5 DEF Against
  <2> QED BY <2>4, <2>6
<1>6. CASE ~(Cardinality(r) >= 3) /\ acc.strikes[c] # 2
  <2>1. Strike(acc, c) = [acc EXCEPT !.recent = r, !.strikes[c] = @ + 1]
    BY <1>6 DEF Strike, r
  <2>2. Strike(acc, c) = [recent |-> r, strikes |-> s1,
                          quarantine |-> acc.quarantine, offences |-> acc.offences]
    BY <2>1, <1>1
  <2>3. s1 \in [Cameras -> 0..2] BY <1>1, <1>6
  <2>4. Strike(acc, c) \in Reading BY <2>2, <2>3, <1>1, <1>2 DEF Reading
  <2>5. Strike(acc, c).strikes = s1 /\ Strike(acc, c).offences = acc.offences BY <2>2
  <2>6. \A d \in Cameras : s1[d] = IF d = c THEN acc.strikes[d] + 1 ELSE acc.strikes[d] BY <1>1
  <2>7. \A d \in Cameras :
            Against(Strike(acc, c), d) <= Against(acc, d) + (IF d = c THEN 1 ELSE 0)
    BY <2>5, <2>6, <1>3 DEF Against
  <2> QED BY <2>4, <2>7
<1> QED BY <1>4, <1>5, <1>6

\* The lines of c among the first n.
LinesOf(lines, n, c) == {i \in 1..n : lines[i] = c}

LEMMA LinesCount ==
    ASSUME NEW lines, NEW n \in Nat, NEW c
    PROVE  /\ IsFiniteSet(LinesOf(lines, n, c)) /\ Cardinality(LinesOf(lines, n, c)) \in Nat
           /\ n > 0 => Cardinality(LinesOf(lines, n, c)) =
                Cardinality(LinesOf(lines, n - 1, c)) + (IF lines[n] = c THEN 1 ELSE 0)
           /\ n = 0 => Cardinality(LinesOf(lines, n, c)) = 0
<1>1. ASSUME NEW m \in Nat PROVE IsFiniteSet(LinesOf(lines, m, c))
  <2>1. LinesOf(lines, m, c) \in SUBSET (1..m) BY DEF LinesOf
  <2> QED BY <2>1, FS_Interval, FS_Subset
<1>2. Cardinality(LinesOf(lines, n, c)) \in Nat BY <1>1, FS_CardinalityType
<1>3. ASSUME n > 0
      PROVE  Cardinality(LinesOf(lines, n, c)) =
                Cardinality(LinesOf(lines, n - 1, c)) + (IF lines[n] = c THEN 1 ELSE 0)
  <2>1. n - 1 \in Nat /\ IsFiniteSet(LinesOf(lines, n - 1, c)) BY <1>1, <1>3
  <2>2. CASE lines[n] = c
    <3>1. LinesOf(lines, n, c) = LinesOf(lines, n - 1, c) \cup {n} BY <1>3, <2>2 DEF LinesOf
    <3>2. n \notin LinesOf(lines, n - 1, c) BY <1>3 DEF LinesOf
    <3> QED BY <3>1, <3>2, <2>1, <2>2, FS_AddElement
  <2>3. CASE lines[n] # c
    <3>1. LinesOf(lines, n, c) = LinesOf(lines, n - 1, c) BY <1>3, <2>3 DEF LinesOf
    <3>2. Cardinality(LinesOf(lines, n - 1, c)) \in Nat BY <2>1, FS_CardinalityType
    <3> QED BY <3>1, <3>2, <2>3
  <2> QED BY <2>2, <2>3
<1>4. ASSUME n = 0 PROVE Cardinality(LinesOf(lines, n, c)) = 0
  <2>1. LinesOf(lines, n, c) = {} BY <1>4 DEF LinesOf
  <2> QED BY <2>1, FS_EmptySet
<1> QED BY <1>1, <1>2, <1>3, <1>4

\* Reading a file brings at most its lines of c against c.
LEMMA TallyAgainst ==
    ASSUME NEW start \in Reading, NEW lines \in Seq(Cameras)
    PROVE  /\ Tally(start, lines) \in Reading
           /\ \A c \in Cameras : Against(Tally(start, lines), c) <=
                Against(start, c) + Cardinality(LinesOf(lines, Len(lines), c))
<1>1. PICK f : /\ f[0] = start
               /\ \A i \in 1..Len(lines) : f[i] = Strike(f[i - 1], lines[i])
               /\ Tally(start, lines) = f[Len(lines)]
  BY TallyRuns
<1>2. Len(lines) \in Nat /\ \A i \in 1..Len(lines) : lines[i] \in Cameras OBVIOUS
<1> DEFINE Fine(n) ==
            /\ f[n] \in Reading
            /\ \A c \in Cameras :
                Against(f[n], c) <= Against(start, c) + Cardinality(LinesOf(lines, n, c))
           T == {n \in Nat : n <= Len(lines) /\ ~Fine(n)}
<1>3. ASSUME NEW acc \in Reading, NEW c \in Cameras PROVE Against(acc, c) \in Nat
  <2>1. acc.strikes[c] \in 0..2 /\ acc.offences[c] \in Nat BY DEF Reading
  <2> QED BY <2>1 DEF Against
<1>4. Fine(0)
  <2>1. f[0] \in Reading BY <1>1
  <2>2. ASSUME NEW c \in Cameras
        PROVE  Against(f[0], c) <= Against(start, c) + Cardinality(LinesOf(lines, 0, c))
    <3>1. Against(start, c) \in Nat BY <1>3
    <3>2. Cardinality(LinesOf(lines, 0, c)) = 0 BY LinesCount
    <3> QED BY <3>1, <3>2, <1>1
  <2> QED BY <2>1, <2>2
<1>5. ASSUME NEW n \in 1..Len(lines), Fine(n - 1) PROVE Fine(n)
  <2>1. f[n] = Strike(f[n - 1], lines[n]) /\ lines[n] \in Cameras /\ n \in Nat /\ n > 0 /\ n - 1 \in Nat
    BY <1>1, <1>2
  <2>2. f[n - 1] \in Reading BY <1>5
  <2>3. f[n] \in Reading BY <2>1, <2>2, StrikeAgainst
  <2>4. ASSUME NEW c \in Cameras
        PROVE  Against(f[n], c) <= Against(start, c) + Cardinality(LinesOf(lines, n, c))
    <3>1. Against(f[n], c) <= Against(f[n - 1], c) + (IF c = lines[n] THEN 1 ELSE 0)
      BY <2>1, <2>2, StrikeAgainst
    <3>2. Against(f[n - 1], c) <= Against(start, c) + Cardinality(LinesOf(lines, n - 1, c))
      BY <1>5
    <3>3. /\ Cardinality(LinesOf(lines, n, c)) =
                Cardinality(LinesOf(lines, n - 1, c)) + (IF lines[n] = c THEN 1 ELSE 0)
          /\ Cardinality(LinesOf(lines, n - 1, c)) \in Nat
      BY <2>1, LinesCount
    <3>4. Against(f[n], c) \in Nat /\ Against(f[n - 1], c) \in Nat /\ Against(start, c) \in Nat
      BY <1>3, <2>2, <2>3
    <3> QED BY <3>1, <3>2, <3>3, <3>4
  <2> QED BY <2>3, <2>4
<1> HIDE DEF Fine
<1>6. T = {}
  <2> SUFFICES ASSUME T # {} PROVE FALSE OBVIOUS
  <2>1. T \in SUBSET Nat OBVIOUS
  <2>2. PICK n \in T : \A k \in T : n <= k BY <2>1, LeastNatural
  <2>3. n \in Nat /\ n <= Len(lines) /\ ~Fine(n) OBVIOUS
  <2>4. n # 0 BY <2>3, <1>4
  <2>5. n - 1 \in Nat /\ n - 1 <= Len(lines) /\ n \in 1..Len(lines) BY <1>2, <2>3, <2>4
  <2>6. n - 1 \notin T BY <2>2, <2>3
  <2>7. Fine(n - 1) BY <2>5, <2>6
  <2> QED BY <2>3, <2>5, <2>7, <1>5
<1>7. Fine(Len(lines)) BY <1>2, <1>6
<1> QED BY <1>1, <1>7 DEF Fine

-----------------------------------------------------------------------------
(* Types *)

\* The groups of a plan and their members are group ids and fleets.
LEMMA PlanTypes ==
    ASSUME NEW F \in Fleets, NEW Q, NEW P
    PROVE  /\ DOMAIN PlanGroups(F, Q, P) \subseteq GroupIds
           /\ \A g \in DOMAIN PlanGroups(F, Q, P) : PlanGroups(F, Q, P)[g] \in Fleets
<1> DEFINE live == Live(F, Q)
           p == PlanGroups(F, Q, P)
<1>1. live \in Fleets
  <2>1. PICK S \in SUBSET Cameras : F \in [S -> Configs] BY DEF Fleets
  <2>2. live \in [S \ Q -> Configs] BY <2>1 DEF Live
  <2>3. S \ Q \in SUBSET Cameras BY <2>1
  <2> QED BY <2>2, <2>3 DEF Fleets
<1> HIDE DEF live, p
<1>2. DOMAIN live \subseteq Cameras /\ \A c \in DOMAIN live : live[c] \in Configs
  BY <1>1 DEF Fleets
<1>3. ASSUME NEW c \in DOMAIN live PROVE GroupOf(live, P, c) \in GroupIds
  <2>1. c \in Cameras /\ live[c] \in Configs BY <1>2
  <2>2. CASE c \in P
    <3>1. GroupOf(live, P, c) = <<"probation", c>> BY <2>2 DEF GroupOf
    <3> QED BY <3>1, <2>1 DEF GroupIds
  <2>3. CASE c \notin P /\ ShapeKey[live[c]] = "solo"
    <3>1. GroupOf(live, P, c) = <<"solo", c>> BY <2>3 DEF GroupOf
    <3> QED BY <3>1, <2>1 DEF GroupIds
  <2>4. CASE c \notin P /\ ShapeKey[live[c]] # "solo"
    <3> DEFINE k == ShapeKey[live[c]]
               S == OfShape(live, P, k)
    <3>1. c \in S /\ GroupOf(live, P, c) = <<k, Place(S, c) \div GroupMax>>
      BY <2>4, BatchedGroup
    <3>2. k \in Shapes BY <2>1, <2>4 DEF Shapes
    <3>3. S \in SUBSET Cameras BY <1>2 DEF OfShape
    <3> HIDE DEF k, S
    <3>4. IsFiniteSet(S) /\ S \in SUBSET Nat /\ Cardinality(S) <= Cardinality(Cameras)
      BY <3>3, SupervisorAssumption, FS_Subset
    <3>5. Cardinality(S) \in Nat /\ Cardinality(Cameras) \in Nat
      BY <3>4, SupervisorAssumption, FS_CardinalityType
    <3>6. Place(S, c) \in 0..(Cardinality(S) - 1) BY <3>1, <3>4, PlacesCount
    <3>7. Place(S, c) \in Nat /\ Place(S, c) <= Cardinality(Cameras) BY <3>4, <3>5, <3>6
    <3>8. Place(S, c) \div GroupMax \in 0..(Cardinality(Cameras) \div GroupMax)
      BY <3>5, <3>7, SupervisorAssumption, QuotientGrows
    <3> QED BY <3>1, <3>2, <3>8 DEF GroupIds
  <2> QED BY <2>2, <2>3, <2>4
<1>4. \A g \in DOMAIN p : g \in GroupIds
  <2>1. \A g \in DOMAIN p : \E c \in DOMAIN live : GroupOf(live, P, c) = g
    BY PlanMembers DEF live, p
  <2> QED BY <2>1, <1>3
<1>5. ASSUME NEW g \in DOMAIN p PROVE p[g] \in Fleets
  <2> DEFINE S == DOMAIN p[g]
  <2>1. S \subseteq DOMAIN live /\ p[g] = [c \in S |-> live[c]]
    BY PlanMembers DEF live, p
  <2> HIDE DEF S
  <2>2. p[g] \in [S -> Configs] BY <2>1, <1>2
  <2>3. S \in SUBSET Cameras BY <2>1, <1>2
  <2> QED BY <2>2, <2>3 DEF Fleets
<1> QED BY <1>4, <1>5 DEF p

Sound(w) ==
    /\ w \in Worker
    /\ w.dead \subseteq DOMAIN w.serves
    /\ DOMAIN w.serves \subseteq DOMAIN w.members
    /\ w.child = "down" => w.serves = NoCameras

WorkerTypes == DOMAIN workers \subseteq GroupIds /\ \A g \in DOMAIN workers : Sound(workers[g])

ReconcileTypes ==
    /\ phase \in {"idle", "stopping", "starting"}
    /\ DOMAIN plan \subseteq GroupIds
    /\ \A g \in DOMAIN plan : plan[g] \in Fleets
    /\ todo \subseteq GroupIds
    /\ phase = "idle" => todo = {}

FaultTypes ==
    /\ quarantine \in [Cameras -> Entry \cup {NoEntry}]
    /\ recent \subseteq Cameras
    /\ markers \in [GroupIds -> Seq(Cameras)]
    /\ deaths \in [Cameras -> Nat]
    /\ offences \in [Cameras -> Nat]

FleetTypes ==
    /\ db \in [Cameras -> Configs \cup {Off}]
    /\ missed \subseteq Cameras
    /\ edits \in Nat /\ accidents \in Nat

LEMMA TypeParts == TypeOK <=> WorkerTypes /\ ReconcileTypes /\ FaultTypes /\ FleetTypes
BY DEF TypeOK, WorkerTypes, ReconcileTypes, FaultTypes, FleetTypes, Sound

LEMMA InitTypes == ASSUME Init PROVE TypeOK
<1>1. db \in [Cameras -> Configs \cup {Off}] BY SupervisorAssumption DEF Init
<1>2. <<>> \in Seq(Cameras) OBVIOUS
<1>3. FaultTypes BY <1>2 DEF Init, FaultTypes
<1>4. WorkerTypes /\ ReconcileTypes /\ FleetTypes
  BY <1>1 DEF Init, WorkerTypes, ReconcileTypes, FleetTypes, NoWorkers
<1> QED BY <1>3, <1>4, TypeParts

\* What the steps make of a worker.
LEMMA WorkerChanged ==
    ASSUME WorkerTypes, NEW g \in DOMAIN workers, NEW w, Sound(w), workers' = [workers EXCEPT ![g] = w]
    PROVE  WorkerTypes'
BY DEF WorkerTypes

LEMMA NoCamerasFleet == NoCameras \in Fleets /\ DOMAIN NoCameras = {}
<1>1. NoCameras \in [{} -> Configs] /\ {} \in SUBSET Cameras BY DEF NoCameras
<1> QED BY <1>1 DEF Fleets, NoCameras

LEMMA EnabledFleet == ASSUME FleetTypes PROVE Enabled \in Fleets
<1>1. {d \in Cameras : db[d] # Off} \in SUBSET Cameras OBVIOUS
<1>2. Enabled \in [{d \in Cameras : db[d] # Off} -> Configs] BY DEF Enabled, FleetTypes
<1> QED BY <1>1, <1>2 DEF Fleets

LEMMA WorkerFields ==
    ASSUME NEW w, Sound(w)
    PROVE  /\ Sound([w EXCEPT !.healthy = TRUE])
           /\ Sound([w EXCEPT !.child = "down", !.serves = NoCameras, !.dead = {}, !.retired = TRUE])
           /\ \A c \in DOMAIN w.serves : Sound([w EXCEPT !.dead = w.dead \cup {c}])
           /\ \A s \in [Cameras -> 0..2] : Sound([w EXCEPT !.strikes = s])
           /\ \A s \in [Cameras -> 0..2], b \in BOOLEAN :
                Sound([w EXCEPT !.child = "down", !.serves = NoCameras, !.dead = {},
                                !.strikes = s, !.retired = b])
<1>1. w \in Worker /\ w.dead \subseteq DOMAIN w.serves /\ DOMAIN w.serves \subseteq DOMAIN w.members
  BY DEF Sound
<1>2. w.dead \in SUBSET Cameras BY <1>1 DEF Worker
<1>3. DOMAIN w.serves \subseteq Cameras BY <1>1 DEF Worker, Fleets
<1>4. Sound([w EXCEPT !.healthy = TRUE])
  BY <1>1 DEF Worker, Sound
<1>5. ASSUME NEW c \in DOMAIN w.serves PROVE Sound([w EXCEPT !.dead = w.dead \cup {c}])
  <2> DEFINE d == w.dead \cup {c}
  <2>1. d \in SUBSET Cameras /\ d \subseteq DOMAIN w.serves BY <1>1, <1>2, <1>3
  <2> HIDE DEF d
  <2>2. Sound([w EXCEPT !.dead = d]) BY <2>1, <1>1 DEF Worker, Sound
  <2> QED BY <2>2 DEF d
<1>6. \A s \in [Cameras -> 0..2] : Sound([w EXCEPT !.strikes = s]) BY <1>1 DEF Worker, Sound
<1>7. Sound([w EXCEPT !.child = "down", !.serves = NoCameras, !.dead = {}, !.retired = TRUE])
  BY <1>1, NoCamerasFleet DEF Worker, Sound
<1>8. \A s \in [Cameras -> 0..2], b \in BOOLEAN :
        Sound([w EXCEPT !.child = "down", !.serves = NoCameras, !.dead = {},
                        !.strikes = s, !.retired = b])
  BY <1>1, NoCamerasFleet DEF Worker, Sound
<1> QED BY <1>4, <1>5, <1>6, <1>7, <1>8

\* A child serves members.
LEMMA ServesFleet ==
    ASSUME NEW w, Sound(w), NEW F \in Fleets, w.child = "down", w.dead = {}
    PROVE  Sound([w EXCEPT !.child = "up", !.healthy = FALSE,
                           !.serves = [c \in DOMAIN w.members \cap DOMAIN F |-> F[c]]])
<1> DEFINE S == DOMAIN w.members \cap DOMAIN F
           s == [c \in S |-> F[c]]
<1>1. w \in Worker BY DEF Sound
<1>2. F \in [DOMAIN F -> Configs] /\ DOMAIN F \in SUBSET Cameras BY DEF Fleets
<1>3. S \in SUBSET Cameras /\ S \subseteq DOMAIN w.members BY <1>2
<1>4. s \in [S -> Configs] BY <1>2
<1>5. s \in Fleets /\ DOMAIN s = S BY <1>3, <1>4 DEF Fleets
<1> HIDE DEF S, s
<1>6. Sound([w EXCEPT !.child = "up", !.healthy = FALSE, !.serves = s])
  BY <1>1, <1>3, <1>5 DEF Worker, Sound
<1> QED BY <1>6 DEF s, S

Types == WorkerTypes /\ ReconcileTypes /\ FaultTypes

LEMMA PlanKeepsTypes == ASSUME Types, NEW F \in Fleets, Plan(F) PROVE Types'
<1> DEFINE Q == InState({"quarantined"})
           P == InState({"expired", "probation"})
<1>1. /\ plan' = PlanGroups(F, Q, P) /\ phase' = "stopping" /\ todo' = DOMAIN workers
      /\ quarantine' = [c \in Cameras |->
            IF c \in P THEN [quarantine[c] EXCEPT !.state = "probation"] ELSE quarantine[c]]
      /\ UNCHANGED <<workers, recent, markers, deaths, offences, db, edits>>
  BY DEF Plan, fleet, history
<1> HIDE DEF Q
<1>2. ReconcileTypes'
  <2>1. DOMAIN plan' \subseteq GroupIds /\ \A g \in DOMAIN plan' : plan'[g] \in Fleets
    BY <1>1, PlanTypes
  <2>2. todo' \subseteq GroupIds BY <1>1 DEF Types, WorkerTypes
  <2> QED BY <1>1, <2>1, <2>2 DEF ReconcileTypes
<1>3. \A c \in P : [quarantine[c] EXCEPT !.state = "probation"] \in Entry
  BY DEF Types, FaultTypes, InState, Entry
<1> HIDE DEF P
<1>4. quarantine' \in [Cameras -> Entry \cup {NoEntry}] BY <1>1, <1>3 DEF Types, FaultTypes
<1> QED BY <1>1, <1>2, <1>4 DEF Types, WorkerTypes, FaultTypes

LEMMA StopKeepsTypes ==
    ASSUME Types, NEW g, StopWorker(g) \/ KeepWorker(g) \/ StartWorker(g), IInv
    PROVE  Types'
<1>1. /\ phase' = phase /\ phase # "idle" /\ plan' = plan /\ todo' = todo \ {g} /\ g \in todo
      /\ UNCHANGED <<quarantine, recent, markers, deaths, offences>>
  BY DEF StopWorker, KeepWorker, StartWorker, history
<1>2. ReconcileTypes' /\ FaultTypes' BY <1>1 DEF Types, ReconcileTypes, FaultTypes
<1>3. WorkerTypes'
  <2>1. CASE StopWorker(g) BY <2>1 DEF StopWorker, Types, WorkerTypes
  <2>2. CASE KeepWorker(g) BY <2>2 DEF KeepWorker, Types, WorkerTypes
  <2>3. CASE StartWorker(g)
    <3> DEFINE w == NewWorker(plan[g])
    <3>1. workers' = [h \in DOMAIN workers \cup {g} |-> IF h = g THEN w ELSE workers[h]]
      BY <2>3 DEF StartWorker
    <3>2. g \in DOMAIN plan /\ g \in GroupIds BY <2>3, <1>1 DEF StartWorker, IInv, Follows, Types, ReconcileTypes
    <3>3. plan[g] \in Fleets BY <3>2 DEF Types, ReconcileTypes
    <3>4. [c \in Cameras |-> 0] \in [Cameras -> 0..2] OBVIOUS
    <3>5. Sound(w) BY <3>3, <3>4, NoCamerasFleet DEF NewWorker, Sound, Worker
    <3> HIDE DEF w
    <3> QED BY <3>1, <3>2, <3>5 DEF Types, WorkerTypes
  <2> QED BY <2>1, <2>2, <2>3
<1> QED BY <1>2, <1>3 DEF Types

LEMMA PhaseKeepsTypes == ASSUME Types, AllChecked \/ AllStarted PROVE Types'
<1>1. UNCHANGED <<workers, quarantine, recent, markers, deaths, offences>>
  BY DEF AllChecked, AllStarted, history
<1>2. WorkerTypes' /\ FaultTypes' BY <1>1 DEF Types, WorkerTypes, FaultTypes
<1>3. ReconcileTypes'
  BY DEF AllChecked, AllStarted, NoWorkers, Types, ReconcileTypes
<1> QED BY <1>2, <1>3 DEF Types

LEMMA SpawnKeepsTypes ==
    ASSUME Types, NEW g \in DOMAIN workers, (\E F \in Fleets : SpawnWith(g, F)) \/ Healthy(g)
    PROVE  Types'
<1>0. Sound(workers[g]) BY DEF Types, WorkerTypes
<1>1. UNCHANGED <<quarantine, recent, markers, deaths, offences, phase, plan, todo>>
  BY DEF SpawnWith, Healthy, history, reconcile
<1>2. ReconcileTypes' /\ FaultTypes' BY <1>1 DEF Types, ReconcileTypes, FaultTypes
<1>3. ASSUME NEW F \in Fleets, SpawnWith(g, F) PROVE Types'
  <2> DEFINE s == [c \in DOMAIN workers[g].members \cap DOMAIN F |-> F[c]]
             v == [workers[g] EXCEPT !.child = "up", !.healthy = FALSE, !.serves = s]
  <2>1. /\ workers' = [workers EXCEPT ![g].child = "up", ![g].healthy = FALSE, ![g].serves = s]
        /\ workers[g].child = "down"
    BY <1>3, <1>0 DEF SpawnWith, Up, Sound, Worker
  <2>2. workers[g].dead = {} BY <2>1, <1>0, NoCamerasFleet DEF Sound
  <2>3. Sound(v) BY <2>1, <2>2, <1>0, ServesFleet
  <2> HIDE DEF s
  <2>4. workers' = [workers EXCEPT ![g] = v] BY <2>1
  <2> HIDE DEF v
  <2> QED BY <2>3, <2>4, <1>2, WorkerChanged DEF Types
<1>4. CASE Healthy(g)
  <2> DEFINE v == [workers[g] EXCEPT !.healthy = TRUE]
  <2>1. workers' = [workers EXCEPT ![g] = v] BY <1>4 DEF Healthy
  <2>2. Sound(v) BY <1>0, WorkerFields
  <2> HIDE DEF v
  <2> QED BY <2>1, <2>2, <1>2, WorkerChanged DEF Types
<1> QED BY <1>3, <1>4

LEMMA DeathKeepsTypes ==
    ASSUME Types, NEW g \in DOMAIN workers, NEW c \in Cameras, MemberDies(g, c)
    PROVE  Types'
<1> DEFINE w == workers[g]
           v == [w EXCEPT !.dead = w.dead \cup {c}]
<1>0. Sound(w) /\ g \in GroupIds BY DEF Types, WorkerTypes
<1>1. /\ UNCHANGED <<quarantine, recent, offences, phase, plan, todo>>
      /\ c \in DOMAIN w.serves
      /\ workers' = [workers EXCEPT ![g].dead = @ \cup {c}]
      /\ markers' = [markers EXCEPT ![g] = Append(@, c)]
      /\ deaths' = [deaths EXCEPT ![c] = @ + 1]
  BY DEF MemberDies, reconcile
<1>2. ReconcileTypes' BY <1>1 DEF Types, ReconcileTypes
<1>3. FaultTypes'
  <2>1. markers[g] \in Seq(Cameras) /\ Append(markers[g], c) \in Seq(Cameras)
    BY <1>0 DEF Types, FaultTypes
  <2>2. markers' \in [GroupIds -> Seq(Cameras)] BY <2>1, <1>1 DEF Types, FaultTypes
  <2>3. deaths' \in [Cameras -> Nat] BY <1>1 DEF Types, FaultTypes
  <2> QED BY <2>2, <2>3, <1>1 DEF Types, FaultTypes
<1>4. WorkerTypes'
  <2>1. workers' = [workers EXCEPT ![g] = v] BY <1>1
  <2>2. Sound(v) BY <1>0, <1>1, WorkerFields
  <2> HIDE DEF v
  <2> QED BY <2>1, <2>2, WorkerChanged DEF Types
<1> QED BY <1>2, <1>3, <1>4 DEF Types

\* The worker's reading of the marker file starts from its strikes.
Opened(g) == [recent |-> recent, strikes |-> workers[g].strikes,
              quarantine |-> quarantine, offences |-> offences]

LEMMA ExitReads ==
    ASSUME Types, NEW g \in DOMAIN workers
    PROVE  /\ Opened(g) \in Reading
           /\ markers[g] \in Seq(Cameras)
           /\ Tally(Opened(g), markers[g]) \in Reading
<1>1. workers[g].strikes \in [Cameras -> 0..2] /\ g \in GroupIds
  BY DEF Types, WorkerTypes, Sound, Worker
<1>2. recent \in SUBSET Cameras /\ markers[g] \in Seq(Cameras)
  BY <1>1 DEF Types, FaultTypes
<1>3. Opened(g) \in Reading BY <1>1, <1>2 DEF Opened, Reading, Types, FaultTypes
<1> QED BY <1>2, <1>3, TallyAgainst

LEMMA ExitKeepsTypes == ASSUME Types, NEW g \in DOMAIN workers, ChildExits(g) PROVE Types'
<1> DEFINE w == workers[g]
           acc == Tally(Opened(g), markers[g])
           b == acc.offences # offences
           v == [w EXCEPT !.child = "down", !.serves = NoCameras, !.dead = {},
                          !.strikes = acc.strikes, !.retired = b]
<1>0. Sound(w) /\ g \in GroupIds BY DEF Types, WorkerTypes
<1>1. /\ UNCHANGED <<deaths, phase, plan, todo>>
      /\ recent' = acc.recent
      /\ markers' = [markers EXCEPT ![g] = <<>>]
      /\ quarantine' = acc.quarantine
      /\ offences' = acc.offences
      /\ workers' = [workers EXCEPT ![g].child = "down", ![g].serves = NoCameras,
                                    ![g].dead = {}, ![g].strikes = acc.strikes,
                                    ![g].retired = (acc.offences # offences)]
  BY DEF ChildExits, reconcile, Opened, Consumed
<1>2. acc \in Reading BY ExitReads
<1> HIDE DEF acc
<1>3. /\ acc.recent \in SUBSET Cameras /\ acc.strikes \in [Cameras -> 0..2]
      /\ acc.quarantine \in [Cameras -> Entry \cup {NoEntry}] /\ acc.offences \in [Cameras -> Nat]
  BY <1>2 DEF Reading
<1>4. ReconcileTypes' BY <1>1 DEF Types, ReconcileTypes
<1>5. FaultTypes'
  <2>1. <<>> \in Seq(Cameras) OBVIOUS
  <2>2. markers' \in [GroupIds -> Seq(Cameras)] BY <2>1, <1>1 DEF Types, FaultTypes
  <2>3. recent' \subseteq Cameras /\ deaths' \in [Cameras -> Nat]
    BY <1>1, <1>3 DEF Types, FaultTypes
  <2> QED BY <2>2, <2>3, <1>1, <1>3 DEF FaultTypes
<1>6. WorkerTypes'
  <2>1. workers' = [workers EXCEPT ![g] = v] BY <1>1
  <2>2. b \in BOOLEAN OBVIOUS
  <2> HIDE DEF b
  <2>3. Sound(v) BY <1>0, <1>3, <2>2, WorkerFields
  <2> HIDE DEF v
  <2> QED BY <2>1, <2>3, WorkerChanged DEF Types
<1> QED BY <1>4, <1>5, <1>6 DEF Types

LEMMA GraduateKeepsTypes ==
    ASSUME Types, NEW c \in Cameras, GraduateProbation(c)
    PROVE  Types'
<1> DEFINE g == <<"probation", c>>
           w == workers[g]
           v == [w EXCEPT !.child = "down", !.serves = NoCameras, !.dead = {}, !.retired = TRUE]
<1>1. /\ UNCHANGED <<deaths, offences, recent, markers, phase, plan, todo>>
      /\ g \in DOMAIN workers
      /\ quarantine' = [quarantine EXCEPT ![c] = NoEntry]
      /\ workers' = [workers EXCEPT ![g].child = "down", ![g].serves = NoCameras,
                                    ![g].dead = {}, ![g].retired = TRUE]
  BY DEF GraduateProbation, reconcile, history
<1> HIDE DEF g
<1>2. ReconcileTypes' /\ FaultTypes' BY <1>1 DEF Types, ReconcileTypes, FaultTypes
<1>3. Sound(w) BY <1>1 DEF Types, WorkerTypes
<1>4. Sound(v) BY <1>3, WorkerFields
<1>5. workers' = [workers EXCEPT ![g] = v] BY <1>1
<1> HIDE DEF v
<1> QED BY <1>1, <1>2, <1>4, <1>5, WorkerChanged DEF Types

LEMMA TimeKeepsTypes ==
    ASSUME Types, StormPasses \/ QuietPeriod \/ \E c \in Cameras : QuarantineExpires(c)
    PROVE  Types'
<1>0. \A c \in Cameras : quarantine[c] \in Entry \cup {NoEntry} BY DEF Types, FaultTypes
<1>1. \A c \in InState({"quarantined"}) : [quarantine[c] EXCEPT !.state = "expired"] \in Entry
  BY <1>0 DEF InState, Entry
<1>2. ASSUME NEW limit PROVE Expire(limit) \in [Cameras -> Entry \cup {NoEntry}]
  BY <1>0, <1>1 DEF Expire
<1>3. CASE StormPasses
  <2>1. /\ UNCHANGED <<workers, markers, deaths, offences, phase, plan, todo>>
        /\ recent' = {} /\ quarantine' = Expire(2)
    BY <1>3 DEF StormPasses, reconcile, history
  <2> QED BY <2>1, <1>2 DEF Types, WorkerTypes, ReconcileTypes, FaultTypes
<1>4. CASE QuietPeriod
  <2> DEFINE none == [c \in Cameras |-> 0]
             w(g) == [workers[g] EXCEPT !.strikes = none]
  <2>1. /\ UNCHANGED <<markers, deaths, offences, phase, plan, todo>>
        /\ recent' = {} /\ quarantine' = Expire(10)
        /\ workers' = [g \in DOMAIN workers |-> w(g)]
    BY <1>4 DEF QuietPeriod, reconcile, history
  <2>2. none \in [Cameras -> 0..2] OBVIOUS
  <2> HIDE DEF none
  <2>3. \A g \in DOMAIN workers : Sound(w(g))
    BY <2>2, WorkerFields DEF Types, WorkerTypes
  <2> HIDE DEF w
  <2>4. WorkerTypes' BY <2>1, <2>3 DEF Types, WorkerTypes
  <2> QED BY <2>1, <2>4, <1>2 DEF Types, ReconcileTypes, FaultTypes
<1>5. ASSUME NEW c \in Cameras, QuarantineExpires(c) PROVE Types'
  <2>1. /\ UNCHANGED <<workers, recent, markers, deaths, offences, phase, plan, todo>>
        /\ c \in InState({"quarantined"})
        /\ quarantine' = [quarantine EXCEPT ![c].state = "expired"]
    BY <1>5 DEF QuarantineExpires, reconcile, history
  <2> DEFINE e == [quarantine[c] EXCEPT !.state = "expired"]
  <2>2. quarantine' = [quarantine EXCEPT ![c] = e] /\ e \in Entry BY <2>1, <1>1
  <2> HIDE DEF e
  <2> QED BY <2>1, <2>2 DEF Types, WorkerTypes, ReconcileTypes, FaultTypes
<1> QED BY <1>3, <1>4, <1>5

-----------------------------------------------------------------------------
(* The ledger of faults *)

Tagged(tag, g, I) == {<<tag, g, i>> : i \in I}

\* The faults of c that no quarantine has used, each once: the lines of marker
\* files not yet read, and the strikes.
LineTokens(g, c)   == Tagged("line", g, LinesOf(markers[g], Len(markers[g]), c))
StrikeTokens(g, c) == Tagged("strike", g, 1..workers[g].strikes[c])
Lines(c)   == UNION {LineTokens(g, c) : g \in GroupIds}
Strikes(c) == UNION {StrikeTokens(g, c) : g \in DOMAIN workers}
Unspent(c) == Lines(c) \cup Strikes(c)

Ledger ==
    \A c \in Cameras :
        /\ IsFiniteSet(Unspent(c))
        /\ Cardinality(Unspent(c)) + 3 * offences[c] <= deaths[c]

LEMMA TaggedCount ==
    ASSUME NEW tag, NEW g, NEW I, IsFiniteSet(I)
    PROVE  IsFiniteSet(Tagged(tag, g, I)) /\ Cardinality(Tagged(tag, g, I)) = Cardinality(I)
<1> DEFINE f == [i \in I |-> <<tag, g, i>>]
<1>1. f \in Bijection(I, Tagged(tag, g, I))
  <2>1. f \in [I -> Tagged(tag, g, I)] BY DEF Tagged
  <2>2. \A i, j \in I : f[i] = f[j] => i = j OBVIOUS
  <2>3. \A t \in Tagged(tag, g, I) : \E i \in I : f[i] = t BY DEF Tagged
  <2> HIDE DEF f
  <2> QED BY <2>1, <2>2, <2>3 DEF Bijection, Injection, Surjection, IsInjective
<1> QED BY <1>1, FS_Bijection DEF ExistsBijection

\* What is in the ledger, by membership.
IsLine(t, c)   == \E g \in GroupIds : t \in LineTokens(g, c)
IsStrike(t, c) == \E g \in DOMAIN workers : t \in StrikeTokens(g, c)

LEMMA UnspentMember == \A c, t : t \in Unspent(c) <=> IsLine(t, c) \/ IsStrike(t, c)
<1> TAKE c, t
<1>1. t \in Lines(c) <=> IsLine(t, c) BY DEF Lines, IsLine
<1>2. t \in Strikes(c) <=> IsStrike(t, c) BY DEF Strikes, IsStrike
<1> QED BY <1>1, <1>2 DEF Unspent

LEMMA UnspentMemberNext == \A c, t : t \in Unspent(c)' <=> IsLine(t, c)' \/ IsStrike(t, c)'
<1> TAKE c, t
<1>1. t \in Lines(c)' <=> IsLine(t, c)' BY DEF Lines, IsLine
<1>2. t \in Strikes(c)' <=> IsStrike(t, c)' BY DEF Strikes, IsStrike
<1> QED BY <1>1, <1>2 DEF Unspent

\* Losing lines and strikes keeps the ledger.
LEMMA LedgerShrinks ==
    ASSUME Types, Ledger, UNCHANGED <<deaths, offences>>,
           \A c \in Cameras : Unspent(c)' \subseteq Unspent(c)
    PROVE  Ledger'
<1> SUFFICES ASSUME NEW c \in Cameras
             PROVE  /\ IsFiniteSet(Unspent(c)')
                    /\ Cardinality(Unspent(c)') + 3 * offences'[c] <= deaths'[c]
  BY DEF Ledger
<1>1. IsFiniteSet(Unspent(c)) /\ Cardinality(Unspent(c)) + 3 * offences[c] <= deaths[c]
  BY DEF Ledger
<1>2. IsFiniteSet(Unspent(c)') /\ Cardinality(Unspent(c)') <= Cardinality(Unspent(c))
  BY <1>1, FS_Subset
<1>3. Cardinality(Unspent(c)') \in Nat /\ Cardinality(Unspent(c)) \in Nat
  BY <1>1, <1>2, FS_CardinalityType
<1>4. offences[c] \in Nat /\ deaths[c] \in Nat BY DEF Types, FaultTypes
<1> QED BY <1>1, <1>2, <1>3, <1>4

LEMMA StrikesKept ==
    ASSUME Types, Ledger, UNCHANGED <<deaths, offences, markers>>,
           \A g \in DOMAIN workers', c \in Cameras :
                \/ workers'[g].strikes[c] = 0
                \/ g \in DOMAIN workers /\ workers'[g].strikes[c] = workers[g].strikes[c]
    PROVE  Ledger'
<1> SUFFICES ASSUME NEW c \in Cameras, NEW t, t \in Unspent(c)' PROVE t \in Unspent(c)
  BY LedgerShrinks
<1>1. CASE IsLine(t, c)' 
  <2>1. IsLine(t, c) BY <1>1 DEF IsLine, LineTokens
  <2> QED BY <2>1, UnspentMember
<1>2. CASE IsStrike(t, c)'
  <2>1. PICK g \in DOMAIN workers' : t \in Tagged("strike", g, 1..workers'[g].strikes[c])
    BY <1>2 DEF IsStrike, StrikeTokens
  <2>2. workers'[g].strikes[c] # 0 BY <2>1 DEF Tagged
  <2>3. g \in DOMAIN workers /\ workers'[g].strikes[c] = workers[g].strikes[c] BY <2>2
  <2>4. IsStrike(t, c) BY <2>1, <2>3 DEF IsStrike, StrikeTokens
  <2> QED BY <2>4, UnspentMember
<1> QED BY <1>1, <1>2, UnspentMemberNext

\* A fault adds one line.
LEMMA DeathKeepsLedger ==
    ASSUME Types, Ledger, NEW g \in DOMAIN workers, NEW c \in Cameras, MemberDies(g, c)
    PROVE  Ledger'
<1> DEFINE n == Len(markers[g])
           new == <<"line", g, n + 1>>
<1>0. g \in GroupIds /\ markers[g] \in Seq(Cameras) /\ markers \in [GroupIds -> Seq(Cameras)]
  BY DEF Types, WorkerTypes, FaultTypes
<1>1. /\ workers' = [workers EXCEPT ![g].dead = @ \cup {c}]
      /\ markers' = [markers EXCEPT ![g] = Append(@, c)]
      /\ deaths' = [deaths EXCEPT ![c] = @ + 1]
      /\ UNCHANGED offences
  BY DEF MemberDies
<1>2. \A h \in DOMAIN workers : workers'[h].strikes = workers[h].strikes
  <2>1. \A h \in DOMAIN workers : workers[h] \in Worker BY DEF Types, WorkerTypes, Sound
  <2> QED BY <2>1, <1>1 DEF Worker
<1>3. DOMAIN workers' = DOMAIN workers BY <1>1
<1>4. ASSUME NEW d, NEW h \in GroupIds
      PROVE  LineTokens(h, d)' = IF h = g /\ d = c THEN LineTokens(h, d) \cup {new} ELSE LineTokens(h, d)
  <2>1. CASE h # g
    <3>1. markers'[h] = markers[h] BY <1>0, <1>1, <2>1
    <3> QED BY <3>1, <2>1 DEF LineTokens
  <2>2. CASE h = g
    <3>1. markers'[g] = Append(markers[g], c) BY <1>0, <1>1
    <3>2. /\ n \in Nat /\ Len(Append(markers[g], c)) = n + 1
          /\ Append(markers[g], c)[n + 1] = c
          /\ \A i \in 1..n : Append(markers[g], c)[i] = markers[g][i]
      BY <1>0
    <3>3. LinesOf(Append(markers[g], c), n + 1, d) =
            IF d = c THEN LinesOf(markers[g], n, d) \cup {n + 1} ELSE LinesOf(markers[g], n, d)
      BY <3>2 DEF LinesOf
    <3>4. LineTokens(g, d)' = Tagged("line", g, LinesOf(Append(markers[g], c), n + 1, d))
      BY <3>1, <3>2 DEF LineTokens
    <3>5. LineTokens(g, d) = Tagged("line", g, LinesOf(markers[g], n, d)) BY DEF LineTokens
    <3>6. \A I : Tagged("line", g, I \cup {n + 1}) = Tagged("line", g, I) \cup {new} BY DEF Tagged
    <3> QED BY <3>3, <3>4, <3>5, <3>6, <2>2
  <2> QED BY <2>1, <2>2
<1>5. \A d, t : IsStrike(t, d)' <=> IsStrike(t, d)
  BY <1>2, <1>3 DEF IsStrike, StrikeTokens
<1>6. \A d, t : IsLine(t, d)' => IsLine(t, d) \/ (d = c /\ t = new)
  BY <1>4 DEF IsLine
<1>7. \A d : Unspent(d)' \subseteq IF d = c THEN Unspent(d) \cup {new} ELSE Unspent(d)
  BY <1>5, <1>6, UnspentMember, UnspentMemberNext
<1> HIDE DEF new
<1> SUFFICES ASSUME NEW d \in Cameras
             PROVE  /\ IsFiniteSet(Unspent(d)')
                    /\ Cardinality(Unspent(d)') + 3 * offences'[d] <= deaths'[d]
  BY DEF Ledger
<1>8. IsFiniteSet(Unspent(d)) /\ Cardinality(Unspent(d)) + 3 * offences[d] <= deaths[d]
  BY DEF Ledger
<1>9. offences[d] \in Nat /\ deaths[d] \in Nat BY DEF Types, FaultTypes
<1>10. Cardinality(Unspent(d)) \in Nat BY <1>8, FS_CardinalityType
<1>11. CASE d = c
  <2>0. /\ IsFiniteSet(Unspent(d) \cup {new})
        /\ Cardinality(Unspent(d) \cup {new}) =
                IF new \in Unspent(d) THEN Cardinality(Unspent(d)) ELSE Cardinality(Unspent(d)) + 1
    BY <1>8, FS_AddElement
  <2>1. /\ IsFiniteSet(Unspent(d) \cup {new})
        /\ Cardinality(Unspent(d) \cup {new}) <= Cardinality(Unspent(d)) + 1
    BY <2>0, <1>10
  <2>2. Unspent(d)' \subseteq Unspent(d) \cup {new} BY <1>7, <1>11
  <2>3. IsFiniteSet(Unspent(d)') /\ Cardinality(Unspent(d)') <= Cardinality(Unspent(d) \cup {new})
    BY <2>1, <2>2, FS_Subset
  <2>4. Cardinality(Unspent(d)') \in Nat /\ Cardinality(Unspent(d) \cup {new}) \in Nat
    BY <2>1, <2>3, FS_CardinalityType
  <2>5. deaths'[d] = deaths[d] + 1 BY <1>1, <1>11 DEF Types, FaultTypes
  <2> QED BY <2>1, <2>3, <2>4, <2>5, <1>1, <1>8, <1>9, <1>10
<1>12. CASE d # c
  <2>1. Unspent(d)' \subseteq Unspent(d) BY <1>7, <1>12
  <2>2. IsFiniteSet(Unspent(d)') /\ Cardinality(Unspent(d)') <= Cardinality(Unspent(d))
    BY <2>1, <1>8, FS_Subset
  <2>3. Cardinality(Unspent(d)') \in Nat BY <2>2, FS_CardinalityType
  <2>4. deaths'[d] = deaths[d] BY <1>1, <1>12 DEF Types, FaultTypes
  <2> QED BY <2>2, <2>3, <2>4, <1>1, <1>8, <1>9, <1>10
<1> QED BY <1>11, <1>12

\* ChildExits: the reading of a marker file spends its lines and the strikes it starts from.
LEMMA ExitKeepsLedger ==
    ASSUME Types, Ledger, NEW g \in DOMAIN workers, ChildExits(g)
    PROVE  Ledger'
<1> DEFINE acc == Tally(Opened(g), markers[g])
<1>0. g \in GroupIds /\ markers[g] \in Seq(Cameras) /\ markers \in [GroupIds -> Seq(Cameras)]
  BY DEF Types, WorkerTypes, FaultTypes
<1>1. /\ markers' = [markers EXCEPT ![g] = <<>>]
      /\ offences' = acc.offences
      /\ workers' = [workers EXCEPT ![g].child = "down", ![g].serves = NoCameras,
                                    ![g].dead = {}, ![g].strikes = acc.strikes,
                                    ![g].retired = (acc.offences # offences)]
      /\ UNCHANGED deaths
  BY DEF ChildExits, Opened, Consumed
<1>2. acc \in Reading /\ \A c \in Cameras :
        Against(acc, c) <= Against(Opened(g), c) + Cardinality(LinesOf(markers[g], Len(markers[g]), c))
  BY ExitReads, TallyAgainst
<1> HIDE DEF acc
<1>3. /\ DOMAIN workers' = DOMAIN workers
      /\ workers'[g].strikes = acc.strikes
      /\ \A h \in DOMAIN workers \ {g} : workers'[h] = workers[h]
  <2>1. workers[g] \in Worker BY DEF Types, WorkerTypes, Sound
  <2> QED BY <2>1, <1>1 DEF Worker
<1> SUFFICES ASSUME NEW c \in Cameras
             PROVE  /\ IsFiniteSet(Unspent(c)')
                    /\ Cardinality(Unspent(c)') + 3 * offences'[c] <= deaths'[c]
  BY DEF Ledger
<1> DEFINE U == Unspent(c)
           L == LineTokens(g, c)
           K == StrikeTokens(g, c)
           K1 == Tagged("strike", g, 1..acc.strikes[c])
           R == U \ (L \cup K)
           s == workers[g].strikes[c]
           l == Cardinality(LinesOf(markers[g], Len(markers[g]), c))
<1>4. IsFiniteSet(U) /\ Cardinality(U) + 3 * offences[c] <= deaths[c] BY DEF Ledger
<1>5. offences[c] \in Nat /\ deaths[c] \in Nat BY DEF Types, FaultTypes
<1>6. s \in 0..2 /\ acc.strikes[c] \in 0..2
  BY <1>2 DEF Types, WorkerTypes, Sound, Worker, Reading
<1>7. IsFiniteSet(L) /\ Cardinality(L) = l /\ l \in Nat
  <2>1. Len(markers[g]) \in Nat BY <1>0
  <2> DEFINE I == LinesOf(markers[g], Len(markers[g]), c)
  <2>2. IsFiniteSet(I) /\ Cardinality(I) \in Nat BY <2>1, LinesCount
  <2> HIDE DEF I
  <2>3. IsFiniteSet(Tagged("line", g, I)) /\ Cardinality(Tagged("line", g, I)) = Cardinality(I)
    BY <2>2, TaggedCount
  <2> QED BY <2>2, <2>3 DEF LineTokens, I
<1>8. IsFiniteSet(K) /\ Cardinality(K) = s
  <2>1. IsFiniteSet(1..s) /\ Cardinality(1..s) = s BY <1>6, FS_Interval
  <2> QED BY <2>1, TaggedCount DEF StrikeTokens
<1>9. IsFiniteSet(K1) /\ Cardinality(K1) = acc.strikes[c]
  <2>1. IsFiniteSet(1..acc.strikes[c]) /\ Cardinality(1..acc.strikes[c]) = acc.strikes[c]
    BY <1>6, FS_Interval
  <2> QED BY <2>1, TaggedCount
<1>10. Unspent(c)' \subseteq R \cup K1
  <2> SUFFICES ASSUME NEW t, t \in Unspent(c)' PROVE t \in R \cup K1 OBVIOUS
  <2>1. CASE IsLine(t, c)'
    <3>1. PICK h \in GroupIds : t \in Tagged("line", h, LinesOf(markers'[h], Len(markers'[h]), c))
      BY <2>1 DEF IsLine, LineTokens
    <3>2. h # g
      <4> SUFFICES ASSUME h = g PROVE FALSE OBVIOUS
      <4>1. markers'[h] = <<>> BY <1>0, <1>1
      <4>2. LinesOf(markers'[h], Len(markers'[h]), c) = {} BY <4>1 DEF LinesOf
      <4> QED BY <3>1, <4>2 DEF Tagged
    <3>3. markers'[h] = markers[h] BY <1>0, <1>1, <3>2
    <3>4. t \in U BY <3>1, <3>3, UnspentMember DEF IsLine, LineTokens
    <3>5. t \notin L /\ t \notin K BY <3>1, <3>2 DEF LineTokens, StrikeTokens, Tagged
    <3> QED BY <3>4, <3>5
  <2>2. CASE IsStrike(t, c)'
    <3>1. PICK h \in DOMAIN workers : t \in Tagged("strike", h, 1..workers'[h].strikes[c])
      BY <2>2, <1>3 DEF IsStrike, StrikeTokens
    <3>2. CASE h = g BY <3>1, <3>2, <1>3
    <3>3. CASE h # g
      <4>1. workers'[h] = workers[h] BY <1>3, <3>3
      <4>2. t \in U BY <3>1, <4>1, UnspentMember DEF IsStrike, StrikeTokens
      <4>3. t \notin L /\ t \notin K BY <3>1, <3>3 DEF LineTokens, StrikeTokens, Tagged
      <4> QED BY <4>2, <4>3
    <3> QED BY <3>2, <3>3
  <2> QED BY <2>1, <2>2, UnspentMemberNext
<1>11. L \cup K \subseteq U /\ L \cap K = {}
  <2>1. L \subseteq U BY <1>0, UnspentMember DEF IsLine
  <2>2. K \subseteq U BY UnspentMember DEF IsStrike
  <2>3. L \cap K = {} BY DEF LineTokens, StrikeTokens, Tagged
  <2> QED BY <2>1, <2>2, <2>3
<1> HIDE DEF L, K, K1, U, l, s
<1>12. IsFiniteSet(L \cup K) /\ Cardinality(L \cup K) = l + s
  <2>1. Cardinality(L \cap K) = 0 BY <1>11, FS_EmptySet
  <2>2. /\ IsFiniteSet(L \cup K)
        /\ Cardinality(L \cup K) = Cardinality(L) + Cardinality(K) - Cardinality(L \cap K)
    BY <1>7, <1>8, FS_Union
  <2>3. s \in Nat BY <1>6
  <2> QED BY <2>1, <2>2, <2>3, <1>7, <1>8
<1>13. IsFiniteSet(R) /\ Cardinality(R) = Cardinality(U) - (l + s)
  <2> DEFINE LK == L \cup K
  <2>1. U \cap LK = LK BY <1>11
  <2>2. Cardinality(LK) = l + s BY <1>12
  <2> HIDE DEF LK
  <2>3. IsFiniteSet(U \ LK) /\ Cardinality(U \ LK) = Cardinality(U) - Cardinality(U \cap LK)
    BY <1>4, FS_Difference
  <2> QED BY <2>1, <2>2, <2>3 DEF LK
<1>14. IsFiniteSet(R \cup K1) /\ Cardinality(R \cup K1) <= Cardinality(R) + acc.strikes[c]
  <2>1. IsFiniteSet(R \cap K1) BY <1>13, FS_Intersection
  <2>2. Cardinality(R \cap K1) \in Nat BY <2>1, FS_CardinalityType
  <2>3. Cardinality(R) \in Nat BY <1>13, FS_CardinalityType
  <2> HIDE DEF R
  <2>4. Cardinality(R \cup K1) = Cardinality(R) + acc.strikes[c] - Cardinality(R \cap K1)
    BY <1>9, <1>13, FS_Union
  <2> QED BY <2>2, <2>3, <2>4, <1>6, <1>9, <1>13, FS_Union
<1>15. IsFiniteSet(Unspent(c)') /\ Cardinality(Unspent(c)') <= Cardinality(R \cup K1)
  BY <1>10, <1>14, FS_Subset
<1>16. /\ Cardinality(Unspent(c)') \in Nat /\ Cardinality(R \cup K1) \in Nat
       /\ Cardinality(R) \in Nat /\ Cardinality(U) \in Nat
  BY <1>4, <1>13, <1>14, <1>15, FS_CardinalityType
<1>17. Against(Opened(g), c) = s + 3 * offences[c]
  BY <1>6 DEF Against, Opened, s
<1>18. acc.strikes[c] + 3 * acc.offences[c] <= s + 3 * offences[c] + l
  BY <1>2, <1>17 DEF Against, l
<1>19. offences'[c] = acc.offences[c] /\ acc.offences[c] \in Nat BY <1>1, <1>2 DEF Reading
<1>20. deaths'[c] = deaths[c] BY <1>1
<1>21. Cardinality(Unspent(c)') <= Cardinality(U) - (l + s) + acc.strikes[c]
  BY <1>6, <1>7, <1>13, <1>14, <1>15, <1>16
<1>22. Cardinality(Unspent(c)') + 3 * offences'[c] <= deaths'[c]
  <2> DEFINE u1 == Cardinality(Unspent(c)')
             u  == Cardinality(U)
             k  == acc.strikes[c]
             o1 == offences'[c]
             o  == offences[c]
             d  == deaths[c]
  <2>1. /\ u1 \in Nat /\ u \in Nat /\ k \in Nat /\ o \in Nat /\ d \in Nat /\ l \in Nat /\ s \in Nat
        /\ u + 3 * o <= d /\ u1 <= u - (l + s) + k
    BY <1>4, <1>5, <1>6, <1>7, <1>16, <1>21
  <2>2. k + 3 * o1 <= s + 3 * o + l /\ o1 \in Nat
    BY <1>18, <1>19
  <2> HIDE DEF u1, u, k, o1, o, d
  <2>3. u1 + 3 * o1 <= d BY <2>1, <2>2
  <2> QED BY <2>3, <1>20 DEF u1, o1, d
<1> QED BY <1>15, <1>22, <1>14, FS_Subset

LEMMA InitLedger == ASSUME Init PROVE Ledger
<1> SUFFICES ASSUME NEW c \in Cameras
             PROVE  IsFiniteSet(Unspent(c)) /\ Cardinality(Unspent(c)) + 3 * offences[c] <= deaths[c]
  BY DEF Ledger
<1>1. ASSUME NEW t PROVE ~IsLine(t, c) /\ ~IsStrike(t, c)
  <2>1. \A g \in GroupIds : LinesOf(markers[g], Len(markers[g]), c) = {}
    BY DEF Init, LinesOf
  <2> QED BY <2>1 DEF IsLine, LineTokens, Tagged, IsStrike, Init, NoWorkers
<1>2. Unspent(c) = {} BY <1>1, UnspentMember
<1> QED BY <1>2, FS_EmptySet DEF Init

\* A step of the reconcile or of time keeps the ledger: markers stay, strikes
\* stay or go.
LEMMA OtherKeepsLedger ==
    ASSUME Types, Ledger,
           \/ UNCHANGED <<workers, markers, history>>
           \/ \E g : StopWorker(g) \/ StartWorker(g)
           \/ \E g \in DOMAIN workers : (\E F : SpawnWith(g, F)) \/ Healthy(g)
           \/ \E c \in Cameras : GraduateProbation(c)
           \/ QuietPeriod
    PROVE  Ledger'
<1>0. \A g \in DOMAIN workers : workers[g] \in Worker BY DEF Types, WorkerTypes, Sound
<1>1. CASE UNCHANGED <<workers, markers, history>>
  BY <1>1, StrikesKept DEF history
<1>2. ASSUME NEW g, StopWorker(g) PROVE Ledger'
  BY <1>2, StrikesKept DEF StopWorker, history
<1>3. ASSUME NEW g, StartWorker(g) PROVE Ledger'
  <2>1. /\ UNCHANGED <<markers, deaths, offences>>
        /\ workers' = [h \in DOMAIN workers \cup {g} |->
                            IF h = g THEN NewWorker(plan[g]) ELSE workers[h]]
    BY <1>3 DEF StartWorker, history
  <2>2. \A c \in Cameras : NewWorker(plan[g]).strikes[c] = 0 BY DEF NewWorker
  <2> QED BY <2>1, <2>2, StrikesKept
<1>4. ASSUME NEW g \in DOMAIN workers, (\E F : SpawnWith(g, F)) \/ Healthy(g) PROVE Ledger'
  <2>1. UNCHANGED <<markers, deaths, offences>> BY <1>4 DEF SpawnWith, Healthy, history
  <2>2. \A h \in DOMAIN workers : workers'[h].strikes = workers[h].strikes
    <3>1. ASSUME NEW F, SpawnWith(g, F), NEW h \in DOMAIN workers
          PROVE  workers'[h].strikes = workers[h].strikes
      <4> DEFINE s == [c \in DOMAIN workers[g].members \cap DOMAIN F |-> F[c]]
      <4>1. workers' = [workers EXCEPT ![g].child = "up", ![g].healthy = FALSE, ![g].serves = s]
        BY <3>1 DEF SpawnWith
      <4> HIDE DEF s
      <4> QED BY <4>1, <1>0 DEF Worker
    <3>2. CASE Healthy(g) BY <1>0, <3>2 DEF Healthy, Worker
    <3> QED BY <1>4, <3>1, <3>2
  <2>3. DOMAIN workers' = DOMAIN workers BY <1>4 DEF SpawnWith, Healthy
  <2> QED BY <2>1, <2>2, <2>3, StrikesKept
<1>5. ASSUME NEW c \in Cameras, GraduateProbation(c) PROVE Ledger'
  <2> DEFINE g == <<"probation", c>>
  <2>1. /\ UNCHANGED <<markers, deaths, offences>>
        /\ g \in DOMAIN workers
        /\ workers' = [workers EXCEPT ![g].child = "down", ![g].serves = NoCameras,
                                      ![g].dead = {}, ![g].retired = TRUE]
    BY <1>5 DEF GraduateProbation, history
  <2> HIDE DEF g
  <2>2. \A h \in DOMAIN workers : workers'[h].strikes = workers[h].strikes
    BY <1>0, <2>1 DEF Worker
  <2>3. DOMAIN workers' = DOMAIN workers BY <2>1
  <2> QED BY <2>1, <2>2, <2>3, StrikesKept
<1>6. CASE QuietPeriod
  <2>1. /\ UNCHANGED <<markers, deaths, offences>>
        /\ workers' = [g \in DOMAIN workers |-> [workers[g] EXCEPT !.strikes = [c \in Cameras |-> 0]]]
    BY <1>6 DEF QuietPeriod, history
  <2>2. \A g \in DOMAIN workers, c \in Cameras : workers'[g].strikes[c] = 0
    BY <1>0, <2>1 DEF Worker
  <2> QED BY <2>1, <2>2, StrikesKept
<1> QED BY <1>1, <1>2, <1>3, <1>4, <1>5, <1>6

\* All the parts of the invariant.
SInv == IInv /\ Types /\ FleetTypes /\ Ledger

LEMMA FleetStep == ASSUME FleetTypes, [Next]_vars PROVE FleetTypes'
<1>1. \/ UNCHANGED fleet
      \/ \E g : Spawn(g) \/ SpawnBlind(g)
      \/ \E c \in Edited, f \in Configs \cup {Off} : EditCamera(c, f)
  BY DEF Next, vars, PlanFleet, PlanAfterDbError, Plan, AllChecked, AllStarted,
         StopWorker, KeepWorker, StartWorker, Healthy, MemberDies, ChildExits,
         GraduateProbation, QuarantineExpires, StormPasses, QuietPeriod
<1>2. accidents' \in {accidents, accidents + 1}
  BY DEF Next, vars, PlanFleet, PlanAfterDbError, AllChecked, AllStarted,
         StopWorker, KeepWorker, StartWorker, Spawn, SpawnBlind, Healthy, MemberDies, ChildExits,
         GraduateProbation, QuarantineExpires, StormPasses, QuietPeriod, EditCamera, Accident
<1>3. accidents' \in Nat BY <1>2 DEF FleetTypes
<1>4. CASE UNCHANGED fleet BY <1>3, <1>4 DEF FleetTypes, fleet
<1>5. ASSUME NEW g, Spawn(g) \/ SpawnBlind(g) PROVE FleetTypes'
  BY <1>3, <1>5 DEF FleetTypes, Spawn, SpawnBlind, SpawnWith
<1>6. ASSUME NEW c \in Edited, NEW f \in Configs \cup {Off}, EditCamera(c, f) PROVE FleetTypes'
  <2>1. c \in Cameras BY SupervisorAssumption
  <2>2. missed' \subseteq missed \cup {c} /\ db' = [db EXCEPT ![c] = f] /\ edits' = edits + 1
    BY <1>6 DEF EditCamera
  <2> QED BY <2>1, <2>2, <1>3 DEF FleetTypes
<1> QED BY <1>1, <1>4, <1>5, <1>6

LEMMA NextTypes == ASSUME IInv, Types, FleetTypes, Ledger, [Next]_vars PROVE Types' /\ Ledger'
<1>1. ASSUME NEW F \in Fleets, Plan(F) PROVE Types' /\ Ledger'
  BY <1>1, PlanKeepsTypes, OtherKeepsLedger DEF Plan
<1>2. CASE PlanFleet
  BY <1>1, <1>2, EnabledFleet DEF PlanFleet
<1>3. CASE PlanAfterDbError
  BY <1>1, <1>3, NoCamerasFleet DEF PlanAfterDbError
<1>4. CASE AllChecked \/ AllStarted
  <2>1. UNCHANGED <<workers, markers, history>> BY <1>4 DEF AllChecked, AllStarted
  <2> QED BY <2>1, <1>4, PhaseKeepsTypes, OtherKeepsLedger
<1>5. ASSUME NEW g, StopWorker(g) \/ KeepWorker(g) \/ StartWorker(g) PROVE Types' /\ Ledger'
  <2>1. Types' BY <1>5, StopKeepsTypes
  <2>2. Ledger'
    <3>1. CASE KeepWorker(g) BY <3>1, OtherKeepsLedger DEF KeepWorker
    <3> QED BY <3>1, <1>5, OtherKeepsLedger
  <2> QED BY <2>1, <2>2
<1>6. ASSUME NEW g \in DOMAIN workers, Spawn(g) \/ SpawnBlind(g) \/ Healthy(g)
      PROVE  Types' /\ Ledger'
  <2>1. (\E F \in Fleets : SpawnWith(g, F)) \/ Healthy(g)
    BY <1>6, EnabledFleet, NoCamerasFleet DEF Spawn, SpawnBlind
  <2> QED BY <2>1, SpawnKeepsTypes, OtherKeepsLedger
<1>7. ASSUME NEW g \in DOMAIN workers, NEW c \in Cameras, MemberDies(g, c) PROVE Types' /\ Ledger'
  BY <1>7, DeathKeepsTypes, DeathKeepsLedger
<1>8. ASSUME NEW g \in DOMAIN workers, ChildExits(g) PROVE Types' /\ Ledger'
  BY <1>8, ExitKeepsTypes, ExitKeepsLedger
<1>9. ASSUME NEW c \in Cameras, GraduateProbation(c) PROVE Types' /\ Ledger'
  BY <1>9, GraduateKeepsTypes, OtherKeepsLedger
<1>10. ASSUME NEW c \in Cameras, QuarantineExpires(c) PROVE Types' /\ Ledger'
  <2>1. UNCHANGED <<workers, markers, history>> BY <1>10 DEF QuarantineExpires
  <2> QED BY <2>1, <1>10, TimeKeepsTypes, OtherKeepsLedger
<1>11. ASSUME NEW c \in Edited, NEW f, EditCamera(c, f) PROVE Types' /\ Ledger'
  <2>1. UNCHANGED <<quarantine, recent, workers, markers, reconcile, history>> BY <1>11 DEF EditCamera
  <2>2. Types' BY <2>1 DEF Types, WorkerTypes, ReconcileTypes, FaultTypes, reconcile, history
  <2> QED BY <2>1, <2>2, OtherKeepsLedger
<1>12. CASE StormPasses
  <2>1. UNCHANGED <<workers, markers, history>> BY <1>12 DEF StormPasses
  <2> QED BY <2>1, <1>12, TimeKeepsTypes, OtherKeepsLedger
<1>13. CASE QuietPeriod BY <1>13, TimeKeepsTypes, OtherKeepsLedger
<1>14. CASE UNCHANGED vars
  <2>1. UNCHANGED <<quarantine, recent, workers, markers, reconcile, history>> BY <1>14 DEF vars
  <2>2. Types' BY <2>1 DEF Types, WorkerTypes, ReconcileTypes, FaultTypes, reconcile, history
  <2> QED BY <2>1, <2>2, OtherKeepsLedger
<1> QED BY <1>2, <1>3, <1>4, <1>5, <1>6, <1>7, <1>8, <1>9, <1>10, <1>11, <1>12, <1>13, <1>14 DEF Next

LEMMA InvariantHolds == Spec => []SInv
<1>1. Init => SInv
  <2>1. ASSUME Init PROVE SInv
    <3>1. TypeOK BY <2>1, InitTypes
    <3> QED BY <2>1, <3>1, InitIInv, InitLedger, TypeParts DEF SInv, Types
  <2> QED BY <2>1
<1>2. SInv /\ [Next]_vars => SInv'
  <2>1. ASSUME SInv, [Next]_vars PROVE SInv'
    <3>1. IInv' BY <2>1, NextIInv DEF SInv
    <3>2. Types' /\ Ledger' BY <2>1, NextTypes DEF SInv
    <3>3. FleetTypes' BY <2>1, FleetStep DEF SInv
    <3> QED BY <3>1, <3>2, <3>3 DEF SInv
  <2> QED BY <2>1
<1> QED BY <1>1, <1>2, PTL DEF Spec

\* The supervisor's state stays well formed: every running or planned group has
\* an id the grouping can produce, and a worker's dead members are its own.
THEOREM SupervisorTypes == Spec => []TypeOK
<1>1. SInv => TypeOK BY TypeParts DEF SInv, Types
<1> QED BY <1>1, InvariantHolds, PTL

\* workerMain quarantines a camera only for three faults of its own that no other
\* quarantine has used, however the workers, their files and time interleave.
THEOREM QuarantinesEarned == Spec => []EarnedQuarantine
<1>1. SInv => EarnedQuarantine
  <2> SUFFICES ASSUME SInv, NEW c \in Cameras PROVE deaths[c] >= 3 * offences[c]
    BY DEF EarnedQuarantine
  <2>1. /\ IsFiniteSet(Unspent(c)) /\ Cardinality(Unspent(c)) + 3 * offences[c] <= deaths[c]
        /\ offences[c] \in Nat /\ deaths[c] \in Nat
    BY DEF SInv, Ledger, Types, FaultTypes
  <2>2. Cardinality(Unspent(c)) \in Nat BY <2>1, FS_CardinalityType
  <2> QED BY <2>1, <2>2
<1> QED BY <1>1, InvariantHolds, PTL
=============================================================================
