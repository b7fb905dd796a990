---------------------------- MODULE PersonsProofs ----------------------------
(* Proofs about Persons: its types, the erasure of a person, the naming of   *)
(* known faces, and the pools without duplicates.                            *)
EXTENDS Persons, TLAPS

(***************************************************************************)
(* Types.  A request carries what its later steps rely on: a person, a     *)
(* cluster that has been there, the knowledge a RetroMatch goes by.        *)
(***************************************************************************)
Carries(j) ==
    /\ j.phase \in {"gather", "insert", "mark", "erase"} => j.person \in People
    /\ j.phase = "mark" => j.cluster # None
    /\ j.cluster # None => clusters[j.cluster] # Absent
    /\ j.phase \in {"list", "write"} => j.by \in Knowledge
    /\ j.phase = "write" => j.items \subseteq Dets

JobsSound == \A c \in Callers : jobs[c] # Idle => Carries(jobs[c])

TypeInv == TypeOK /\ JobsSound

\* What the assumption says of the values that stand for no data.
LEMMA Sentinels ==
    /\ \A k \in Cluster : k # Absent /\ k # Gone
    /\ \A r \in Row : r # Absent
    /\ \A j \in Job : j # Idle
    /\ Gone # None /\ Gone # Absent /\ Gone # "enabled" /\ Gone # "disabled"
    /\ None # Undecided /\ None # "enabled" /\ None # "disabled"
    /\ \A p \in People : p # None /\ p # Gone /\ p # Undecided
BY PersonsAssumption

LEMMA TablesKnown == ASSUME TypeOK PROVE Tables \in Knowledge
<1>1. NoPool \in Pool
  BY PersonsAssumption DEF NoPool, Pool
<1>2. AllEmbeddings \in [People -> Pool]
  BY <1>1 DEF AllEmbeddings, TypeOK
<1>3. AllNegatives \subseteq Faces
  BY PersonsAssumption DEF AllNegatives, Sources
<1>. QED
  BY <1>2, <1>3 DEF Tables, Knowledge

LEMMA VerdictTyped == ASSUME NEW k, NEW f PROVE ScoreProbe(k, f) \in People \cup {None}
BY DEF ScoreProbe

LEMMA InitTypes == Init => TypeInv
<1>. SUFFICES ASSUME Init PROVE TypeInv
  OBVIOUS
<1>1. PICK start \in Starts :
         /\ persons = [p \in People |-> IF start[p] = None THEN None ELSE "enabled"]
         /\ pool = [p \in People |-> [s \in Sources |-> IF start[p] # None /\ s \in start[p] THEN 1 ELSE 0]]
  BY DEF Init
<1>2. JobsSound
  BY DEF Init, JobsSound
<1>3. pool \in [People -> Pool]
  BY <1>1, PersonsAssumption DEF Pool
<1>4. persons \in [People -> {None, "enabled", "disabled", Gone}]
  BY <1>1
<1>5. TypeOK
  <2>1. engine \in Knowledge
    <3>1. NoPool \in Pool
      BY PersonsAssumption DEF NoPool, Pool
    <3>2. AllEmbeddings \in [People -> Pool]
      BY <1>3, <3>1 DEF AllEmbeddings
    <3>3. AllNegatives \subseteq Faces
      BY PersonsAssumption DEF AllNegatives, Sources
    <3>. QED
      BY <3>2, <3>3 DEF Init, Tables, Knowledge
  <2>. QED
    <3>1. faceAggs \in [Tracks -> Faces \cup {None}]
      BY PersonsAssumption DEF Init
    <3>. QED
      BY <1>3, <1>4, <2>1, <3>1 DEF Init, TypeOK
<1>. QED
  BY <1>2, <1>5 DEF TypeInv

\* One caller's job changes, and no cluster vanishes without a trace.
ClustersStay == \A k \in Clusters : clusters[k] # Absent => clusters'[k] # Absent

LEMMA JobStep ==
    ASSUME TypeInv, NEW c \in Callers, NEW j \in Job \cup {Idle}, Then(c, j), ClustersStay,
           j # Idle =>
              /\ j.phase \in {"gather", "insert", "mark", "erase"} => j.person \in People
              /\ j.phase = "mark" => j.cluster # None
              /\ j.cluster # None => clusters'[j.cluster] # Absent
              /\ j.phase \in {"list", "write"} => j.by \in Knowledge
              /\ j.phase = "write" => j.items \subseteq Dets
    PROVE  jobs' \in [Callers -> Job \cup {Idle}] /\ JobsSound'
<1>1. jobs' \in [Callers -> Job \cup {Idle}]
  BY DEF Then, TypeInv, TypeOK
<1>2. ASSUME NEW d \in Callers, jobs'[d] # Idle
      PROVE  Carries(jobs[d])'
  <2>1. CASE d = c
    <3>1. jobs'[d] = j /\ j # Idle
      BY <1>2, <2>1 DEF Then, TypeInv, TypeOK
    <3>. QED
      BY <3>1 DEF Carries
  <2>2. CASE d # c
    <3>1. jobs'[d] = jobs[d] /\ jobs[d] \in Job /\ Carries(jobs[d])
      BY <1>2, <2>2 DEF Then, TypeInv, TypeOK, JobsSound
    <3>2. jobs[d].cluster \in Clusters \cup {None}
      BY <3>1 DEF Job
    <3>3. jobs[d].cluster # None => clusters'[jobs[d].cluster] # Absent
      BY <3>1, <3>2 DEF ClustersStay, Carries
    <3>. QED
      BY <3>1, <3>3 DEF Carries
  <2>. QED
    BY <2>1, <2>2
<1>. QED
  BY <1>1, <1>2 DEF JobsSound

LEMMA JobsKept ==
    ASSUME TypeInv, UNCHANGED jobs, ClustersStay
    PROVE  jobs' \in [Callers -> Job \cup {Idle}] /\ JobsSound'
<1>1. ASSUME NEW d \in Callers, jobs'[d] # Idle
      PROVE  Carries(jobs[d])'
  <2>1. jobs'[d] = jobs[d] /\ jobs[d] \in Job /\ Carries(jobs[d])
    BY <1>1 DEF TypeInv, TypeOK, JobsSound
  <2>2. jobs[d].cluster \in Clusters \cup {None}
    BY <2>1 DEF Job
  <2>3. jobs[d].cluster # None => clusters'[jobs[d].cluster] # Absent
    BY <2>1, <2>2 DEF ClustersStay, Carries
  <2>. QED
    BY <2>1, <2>3 DEF Carries
<1>. QED
  BY <1>1 DEF JobsSound, TypeInv, TypeOK

\* The types of all but the requests, whose types the two lemmas above have.
DataOK ==
    /\ persons \in [People -> {None, "enabled", "disabled", Gone}]
    /\ pool \in [People -> Pool]
    /\ rows \in [Dets -> Row \cup {Absent}]
    /\ dismissed \in [Dets -> {None, "negative", "hidden"}]
    /\ clusters \in [Clusters -> Cluster \cup {Absent, Gone}]
    /\ engine \in Knowledge
    /\ faceAggs \in [Tracks -> Faces \cup {None}]
    /\ deciding \in [Dets -> People \cup {None, Undecided}]
    /\ late \subseteq Dets /\ behind \subseteq Dets /\ dirty \subseteq Callers
    /\ fresh \in BOOLEAN /\ unpruned \subseteq People
    /\ requests \in Nat

LEMMA DataAndJobs == TypeOK <=> DataOK /\ jobs \in [Callers -> Job \cup {Idle}]
BY DEF TypeOK, DataOK

\* The types of the histories after a change, and after none.
LEMMA ChangedTypes == ASSUME DataOK, Changed
                      PROVE  behind' \subseteq Dets /\ dirty' \subseteq Callers /\ fresh' \in BOOLEAN
BY DEF Changed, DataOK

LEMMA NamedTypes == ASSUME DataOK, NEW d \in Dets, NEW p, Named(d, p)
                    PROVE  late' \subseteq Dets
BY DEF Named, DataOK

LEMMA ProbesTyped == ASSUME TypeOK, NEW d \in Dets PROVE Probes(d) \subseteq Faces
<1>1. Shows[d] \in Faces
  BY PersonsAssumption DEF Sources
<1>2. TrackOf[d] # None => faceAggs[TrackOf[d]] \in Faces \cup {None}
  BY PersonsAssumption DEF TypeOK
<1>3. \A f \in Faces : Blends[<<f, Shows[d]>>] \in SUBSET Faces
  BY <1>1, PersonsAssumption
<1>. QED
  BY <1>1, <1>2, <1>3 DEF Probes

LEMMA EngineSteps ==
    ASSUME TypeInv
    PROVE  /\ LoadFaceEnrolments => DataOK'
           /\ \A d \in Dets : OnDetection(d) => DataOK'
           /\ \A d \in Dets : InsertDetection(d) \/ Ages(d) => DataOK'
           /\ \A t \in Tracks : PruneFaceAggs(t) => DataOK'
<1>. USE DataAndJobs DEF TypeInv
<1>1. LoadFaceEnrolments => DataOK'
  BY TablesKnown DEF LoadFaceEnrolments, DataOK, tables, history
<1>2. ASSUME NEW d \in Dets, OnDetection(d)
      PROVE  DataOK'
  <2>1. deciding' \in [Dets -> People \cup {None, Undecided}] /\ behind' \subseteq Dets
    BY <1>2, VerdictTyped DEF OnDetection, DataOK
  <2>2. faceAggs' \in [Tracks -> Faces \cup {None}]
    <3>1. CASE UNCHANGED faceAggs
      BY <3>1 DEF DataOK
    <3>2. CASE \E probe \in Probes(d) :
                  faceAggs' = IF TrackOf[d] = None THEN faceAggs ELSE [faceAggs EXCEPT ![TrackOf[d]] = probe]
      BY <3>2, ProbesTyped DEF DataOK
    <3>. QED
      BY <1>2, <3>1, <3>2 DEF OnDetection
  <2>. QED
    BY <1>2, <2>1, <2>2 DEF OnDetection, DataOK, tables
<1>3. ASSUME NEW d \in Dets, InsertDetection(d)
      PROVE  DataOK'
  <2>1. deciding[d] \in People \cup {None}
    BY <1>3 DEF InsertDetection, DataOK
  <2>2. rows' \in [Dets -> Row \cup {Absent}]
    BY <1>3, <2>1 DEF InsertDetection, DataOK, Row
  <2>3. deciding' \in [Dets -> People \cup {None, Undecided}]
    BY <1>3 DEF InsertDetection, DataOK
  <2>4. late' \subseteq Dets
    BY <1>3, NamedTypes DEF InsertDetection
  <2>. QED
    BY <1>3, <2>2, <2>3, <2>4 DEF InsertDetection, DataOK, tables
<1>4. ASSUME NEW d \in Dets, Ages(d)
      PROVE  DataOK'
  <2>1. rows[d] \in Row /\ rows' = [rows EXCEPT ![d] = [rows[d] EXCEPT !.old = TRUE]]
    BY <1>4 DEF Ages
  <2>2. [rows[d] EXCEPT !.old = TRUE] \in Row
    BY <2>1 DEF Row
  <2>3. rows' \in [Dets -> Row \cup {Absent}]
    BY <2>1, <2>2 DEF DataOK
  <2>. QED
    BY <1>4, <2>3 DEF Ages, Count, DataOK, tables, engineState, history
<1>5. ASSUME NEW t \in Tracks, PruneFaceAggs(t)
      PROVE  DataOK'
  BY <1>5 DEF PruneFaceAggs, Count, DataOK, tables, history
<1>. QED
  BY <1>1, <1>2, <1>3, <1>4, <1>5

\* The edits of persons, pools and dismissals.
LEMMA EditSteps ==
    ASSUME TypeInv
    PROVE  /\ \A p \in People : HandleCreatePerson(p) \/ HandleUpdatePerson(p) => DataOK'
           /\ \A p \in People : HandleAddPersonEmbedding(p) => DataOK'
           /\ \A p \in People : HandleDeletePersonEmbedding(p) \/ HandleBulkDeletePersonEmbeddings(p) => DataOK'
           /\ HandleDismissFaces => DataOK'
<1>. USE DataAndJobs DEF TypeInv
<1>1. ASSUME NEW p \in People, HandleCreatePerson(p)
      PROVE  DataOK'
  BY <1>1 DEF HandleCreatePerson, Count, DataOK, engineState, history
<1>2. ASSUME NEW p \in People, HandleUpdatePerson(p)
      PROVE  DataOK'
  BY <1>2, ChangedTypes DEF HandleUpdatePerson, Count, DataOK, engineState
<1>3. ASSUME NEW p \in People, HandleAddPersonEmbedding(p)
      PROVE  DataOK'
  <2>1. PICK s \in Listed :
           /\ pool[p][s] < MaxCopies
           /\ pool' = [pool EXCEPT ![p][s] = @ + 1]
    BY <1>3 DEF HandleAddPersonEmbedding
  <2>2. s \in Sources /\ pool[p] \in Pool
    BY <2>1 DEF Listed, Sources, DataOK
  <2>3. pool[p][s] + 1 \in 0..MaxCopies
    BY <2>1, <2>2, PersonsAssumption DEF Pool
  <2>4. pool' \in [People -> Pool]
    BY <2>1, <2>2, <2>3 DEF DataOK, Pool
  <2>. QED
    BY <1>3, <2>4, ChangedTypes DEF HandleAddPersonEmbedding, Count, DataOK, engineState
<1>4. ASSUME NEW p \in People, NEW S, S \subseteq Enrolled(p), Count, Delete(p, S)
      PROVE  DataOK'
  <2>1. \A s \in S : s \in Sources /\ pool[p][s] > 0
    BY <1>4 DEF Enrolled
  <2>2. [s \in Sources |-> IF s \in S THEN pool[p][s] - 1 ELSE pool[p][s]] \in Pool
    BY <2>1, PersonsAssumption DEF Pool, DataOK
  <2>3. pool' \in [People -> Pool]
    BY <1>4, <2>2 DEF Delete, DataOK
  <2>. QED
    BY <1>4, <2>3, ChangedTypes DEF Delete, Count, DataOK, engineState
<1>5. ASSUME NEW p \in People, HandleDeletePersonEmbedding(p) \/ HandleBulkDeletePersonEmbeddings(p)
      PROVE  DataOK'
  BY <1>4, <1>5 DEF HandleDeletePersonEmbedding, HandleBulkDeletePersonEmbeddings
<1>6. ASSUME HandleDismissFaces
      PROVE  DataOK'
  <2>1. dismissed' \in [Dets -> {None, "negative", "hidden"}] /\ Changed
    BY <1>6 DEF HandleDismissFaces, DataOK
  <2>. QED
    BY <1>6, <2>1, ChangedTypes DEF HandleDismissFaces, Count, DataOK, engineState
<1>. QED
  BY <1>1, <1>2, <1>3, <1>5, <1>6

\* The steps of enrolments and of RetroMatch.
LEMMA EnrolSteps ==
    ASSUME TypeInv, NEW c \in Callers
    PROVE  /\ HandleAddPersonEmbeddingsBulk(c) \/ HandleEnrolCluster(c) \/ HandleUploadEnrol(c) => DataOK'
           /\ Gather(c) \/ AddEmbeddings(c) \/ MarkCluster(c) => DataOK'
<1>. USE DataAndJobs DEF TypeInv
<1>0. ASSUME NEW p \in People, Enrollee(p)
      PROVE  persons' \in [People -> {None, "enabled", "disabled", Gone}]
  BY <1>0 DEF Enrollee, DataOK
<1>1. HandleAddPersonEmbeddingsBulk(c) => DataOK'
  BY DEF HandleAddPersonEmbeddingsBulk, Count, DataOK, tables, engineState, history
<1>2. HandleEnrolCluster(c) => DataOK'
  BY <1>0 DEF HandleEnrolCluster, Count, DataOK, engineState, history
<1>3. HandleUploadEnrol(c) => DataOK'
  BY <1>0 DEF HandleUploadEnrol, Count, DataOK, engineState, history
<1>4. Gather(c) => DataOK'
  BY DEF Gather, DataOK, tables, engineState, history
<1>5. ASSUME AddEmbeddings(c)
      PROVE  DataOK'
  <2>. DEFINE p == jobs[c].person
              new == jobs[c].items
  <2>1. p \in People
    BY <1>5 DEF AddEmbeddings, In, JobsSound, Carries
  <2>2. CASE UNCHANGED <<pool, unpruned>> /\ Unchanged
    BY <1>5, <2>2 DEF AddEmbeddings, Unchanged, DataOK, engineState
  <2>3. CASE ~(UNCHANGED <<pool, unpruned>> /\ Unchanged)
    <3>1. /\ \A s \in new : pool[p][s] < MaxCopies
          /\ pool' = [pool EXCEPT ![p] = [s \in Sources |-> IF s \in new THEN @[s] + 1 ELSE @[s]]]
          /\ unpruned' \in {unpruned, unpruned \cup {p}}
          /\ Changed
      BY <1>5, <2>3 DEF AddEmbeddings
    <3>2. [s \in Sources |-> IF s \in new THEN pool[p][s] + 1 ELSE pool[p][s]] \in Pool
      BY <2>1, <3>1, PersonsAssumption DEF Pool, DataOK
    <3>3. pool' \in [People -> Pool]
      BY <3>1, <3>2 DEF DataOK
    <3>. QED
      BY <1>5, <2>1, <3>1, <3>3, ChangedTypes DEF AddEmbeddings, DataOK, engineState
  <2>. QED
    BY <2>2, <2>3
<1>6. ASSUME MarkCluster(c)
      PROVE  DataOK'
  <2>. DEFINE k == jobs[c].cluster
              p == jobs[c].person
  <2>1. jobs[c] \in Job /\ p \in People /\ k \in Clusters /\ clusters[k] # Absent
    BY <1>6 DEF MarkCluster, In, JobsSound, Carries, Job, TypeOK
  <2>2. CASE UNCHANGED clusters
    BY <1>6, <2>2 DEF MarkCluster, DataOK, tables, engineState, history
  <2>3. CASE clusters' # clusters
    <3>1. clusters[k] # Gone /\ clusters' = [clusters EXCEPT ![k].person = p]
      BY <1>6, <2>3 DEF MarkCluster
    <3>2. clusters[k] \in Cluster
      BY <2>1, <3>1 DEF DataOK
    <3>3. clusters' \in [Clusters -> Cluster \cup {Absent, Gone}]
      BY <2>1, <3>1, <3>2 DEF DataOK, Cluster
    <3>. QED
      BY <1>6, <3>3 DEF MarkCluster, DataOK, tables, engineState, history
  <2>. QED
    BY <2>2, <2>3
<1>. QED
  BY <1>1, <1>2, <1>3, <1>4, <1>5, <1>6

LEMMA MatchSteps ==
    ASSUME TypeInv, NEW c \in Callers
    PROVE  RunRetroMatch(c) \/ ListCandidates(c) \/ RetroMatch(c) \/ RetroMatched(c) \/ RetroMatchFails(c) => DataOK'
<1>. USE DataAndJobs DEF TypeInv
<1>1. RunRetroMatch(c) \/ ListCandidates(c) => DataOK'
  BY DEF RunRetroMatch, ListCandidates, DataOK, tables, engineState, history
<1>2. ASSUME RetroMatch(c)
      PROVE  DataOK'
  <2>1. PICK d \in jobs[c].items :
           /\ ScoreProbe(jobs[c].by, Shows[d]) # None
           /\ \/ /\ rows[d] \in Row
                 /\ rows' = [rows EXCEPT ![d] = [rows[d] EXCEPT !.person = ScoreProbe(jobs[c].by, Shows[d]), !.emb = FALSE]]
                 /\ Named(d, ScoreProbe(jobs[c].by, Shows[d]))
              \/ UNCHANGED <<rows, late>>
           /\ behind' = behind \ {d}
    BY <1>2 DEF RetroMatch
  <2>2. d \in Dets
    BY <1>2, <2>1 DEF RetroMatch, In, JobsSound, Carries
  <2>3. ScoreProbe(jobs[c].by, Shows[d]) \in People \cup {None}
    BY VerdictTyped
  <2>4. rows' \in [Dets -> Row \cup {Absent}]
    <3>1. rows[d] \in Row => [rows[d] EXCEPT !.person = ScoreProbe(jobs[c].by, Shows[d]), !.emb = FALSE] \in Row
      BY <2>3 DEF Row
    <3>2. rows \in [Dets -> Row \cup {Absent}]
      BY DEF DataOK
    <3>. QED
      BY <2>1, <2>2, <3>1, <3>2
  <2>5. late' \subseteq Dets
    BY <2>1, <2>2 DEF DataOK, Named
  <2>. QED
    BY <1>2, <2>1, <2>4, <2>5 DEF RetroMatch, DataOK, tables, engineState
<1>3. RetroMatched(c) => DataOK'
  BY DEF RetroMatched, DataOK, tables, engineState
<1>4. RetroMatchFails(c) => DataOK'
  BY DEF RetroMatchFails, DataOK, tables, engineState
<1>. QED
  BY <1>1, <1>2, <1>3, <1>4

\* Erasure, and the clusters.
LEMMA EraseSteps ==
    ASSUME TypeInv
    PROVE  /\ \A c \in Callers : HandleDeletePerson(c) \/ Erase(c) => DataOK'
           /\ \A k \in Clusters : HandleDeleteCluster(k) \/ HandleDismissClusterAsNotAFace(k) => DataOK'
           /\ HandleClusterRunNow => DataOK'
<1>. USE DataAndJobs DEF TypeInv
<1>1. ASSUME NEW c \in Callers, HandleDeletePerson(c)
      PROVE  DataOK'
  BY <1>1 DEF HandleDeletePerson, Count, DataOK, tables, engineState, history
<1>2. ASSUME NEW c \in Callers, Erase(c)
      PROVE  DataOK'
  <2>. DEFINE p == jobs[c].person
  <2>1. p \in People
    BY <1>2 DEF Erase, In, JobsSound, Carries
  <2>2. Strip(p) \in [Dets -> Row \cup {Absent}]
    BY DEF Strip, DataOK, Row
  <2>3. NoPool \in Pool
    BY PersonsAssumption DEF NoPool, Pool
  <2>4. [k \in Clusters |->
           IF clusters[k] \in Cluster /\ clusters[k].person = p
           THEN [clusters[k] EXCEPT !.person = None] ELSE clusters[k]]
          \in [Clusters -> Cluster \cup {Absent, Gone}]
    BY DEF DataOK, Cluster
  <2>5. rows' \in [Dets -> Row \cup {Absent}] /\ pool' \in [People -> Pool]
    BY <1>2, <2>2, <2>3 DEF Erase, DataOK
  <2>6. clusters' \in [Clusters -> Cluster \cup {Absent, Gone}]
    BY <1>2, <2>4 DEF Erase
  <2>. QED
    BY <1>2, <2>1, <2>5, <2>6, ChangedTypes DEF Erase, DataOK, engineState
<1>3. ASSUME NEW k \in Clusters, HandleDeleteCluster(k)
      PROVE  DataOK'
  BY <1>3 DEF HandleDeleteCluster, Count, DataOK, tables, engineState, history
<1>4. ASSUME NEW k \in Clusters, HandleDismissClusterAsNotAFace(k)
      PROVE  DataOK'
  BY <1>4, ChangedTypes DEF HandleDismissClusterAsNotAFace, Count, DataOK, engineState
<1>5. ASSUME HandleClusterRunNow
      PROVE  DataOK'
  <2>1. \A S \in SUBSET Dets : [members |-> S, person |-> None] \in Cluster
    BY DEF Cluster
  <2>2. clusters' \in [Clusters -> Cluster \cup {Absent, Gone}]
    BY <1>5, <2>1 DEF HandleClusterRunNow, Candidates, Nameless, DataOK
  <2>. QED
    BY <1>5, <2>2 DEF HandleClusterRunNow, DataOK, tables, engineState, history
<1>. QED
  BY <1>1, <1>2, <1>3, <1>4, <1>5

\* Every step keeps the types: the data by the lemmas above, the requests here.
LEMMA TypeStep == TypeInv /\ [Next]_vars => TypeInv'
<1>. SUFFICES ASSUME TypeInv, [Next]_vars
              PROVE  DataOK' /\ jobs' \in [Callers -> Job \cup {Idle}] /\ JobsSound'
  BY DataAndJobs DEF TypeInv, DataOK, TypeOK
<1>. DEFINE JobsOK == jobs' \in [Callers -> Job \cup {Idle}] /\ JobsSound'
<1>0. ASSUME UNCHANGED clusters PROVE ClustersStay
  BY <1>0 DEF ClustersStay
<1>1. CASE UNCHANGED vars
  <2>1. DataOK'
    BY <1>1, DataAndJobs DEF TypeInv, DataOK, vars, tables, history
  <2>. QED
    BY <1>0, <1>1, <2>1, JobsKept DEF vars
<1>2. CASE \/ LoadFaceEnrolments \/ \E d \in Dets : OnDetection(d) \/ InsertDetection(d) \/ Ages(d)
           \/ \E t \in Tracks : PruneFaceAggs(t)
  <2>1. UNCHANGED <<jobs, clusters>>
    BY <1>2 DEF LoadFaceEnrolments, OnDetection, InsertDetection, Ages, PruneFaceAggs
  <2>. QED
    BY <1>0, <1>2, <2>1, JobsKept, EngineSteps
<1>3. CASE \/ HandleDismissFaces
           \/ \E p \in People : HandleCreatePerson(p) \/ HandleUpdatePerson(p)
                                \/ HandleAddPersonEmbedding(p) \/ HandleDeletePersonEmbedding(p)
                                \/ HandleBulkDeletePersonEmbeddings(p)
  <2>1. UNCHANGED <<jobs, clusters>>
    BY <1>3 DEF HandleDismissFaces, HandleCreatePerson, HandleUpdatePerson, HandleAddPersonEmbedding,
                HandleDeletePersonEmbedding, HandleBulkDeletePersonEmbeddings, Delete
  <2>. QED
    BY <1>0, <1>3, <2>1, JobsKept, EditSteps
<1>4. CASE HandleClusterRunNow \/ \E k \in Clusters : HandleDeleteCluster(k) \/ HandleDismissClusterAsNotAFace(k)
  <2>1. UNCHANGED jobs
    BY <1>4 DEF HandleClusterRunNow, HandleDeleteCluster, HandleDismissClusterAsNotAFace
  <2>2. ASSUME HandleClusterRunNow
        PROVE  ClustersStay
    <3>1. \A S \in SUBSET Dets : [members |-> S, person |-> None] # Absent
      BY Sentinels DEF Cluster
    <3>2. ASSUME NEW k \in Clusters, clusters[k] # Absent
          PROVE  clusters'[k] # Absent
      <4>. DEFINE free == {h \in Clusters : clusters[h] = Absent \/ (clusters[h] \in Cluster /\ clusters[h].person = None)}
      <4>1. PICK group \in [Candidates -> free \cup {None}] :
               clusters' = [h \in Clusters |->
                  LET members == {d \in Candidates : group[d] = h}
                  IN  IF h \notin free THEN clusters[h]
                      ELSE IF members # {} THEN [members |-> members, person |-> None]
                      ELSE IF clusters[h] = Absent THEN Absent ELSE Gone]
        BY <2>2 DEF HandleClusterRunNow
      <4>. DEFINE members == {d \in Candidates : group[d] = k}
      <4>2. members \in SUBSET Dets
        BY DEF Candidates, Nameless
      <4>3. clusters'[k] \in {clusters[k], [members |-> members, person |-> None], Gone}
        BY <3>2, <4>1
      <4>. QED
        BY <3>1, <3>2, <4>2, <4>3, Sentinels
    <3>. QED
      BY <3>2 DEF ClustersStay
  <2>3. ClustersStay
    BY <1>4, <2>2, Sentinels, DataAndJobs
       DEF HandleDeleteCluster, HandleDismissClusterAsNotAFace, ClustersStay, TypeInv, DataOK
  <2>. QED
    BY <1>4, <2>1, <2>3, JobsKept, EraseSteps
<1>5. ASSUME NEW c \in Callers,
             HandleAddPersonEmbeddingsBulk(c) \/ HandleEnrolCluster(c) \/ HandleUploadEnrol(c)
      PROVE  JobsOK
  <2>1. Listed \in SUBSET Sources
    BY DEF Listed, Sources
  <2>2. \A phase \in {"gather", "insert"}, p \in People, items \in SUBSET Sources, k \in Clusters \cup {None} :
           [NewJob(phase, p, items) EXCEPT !.cluster = k] \in Job /\ NewJob(phase, p, items) \in Job
    BY DEF NewJob, Job
  <2>3. UNCHANGED clusters
    BY <1>5 DEF HandleAddPersonEmbeddingsBulk, HandleEnrolCluster, HandleUploadEnrol
  <2>4. CASE HandleAddPersonEmbeddingsBulk(c)
    <3>1. PICK p \in People, items \in SUBSET Listed : Begin(c, NewJob("gather", p, items))
      BY <2>4 DEF HandleAddPersonEmbeddingsBulk
    <3>2. NewJob("gather", p, items) \in Job
      BY <2>1, <2>2
    <3>3. Then(c, NewJob("gather", p, items))
      BY <3>1 DEF Begin, Then
    <3>. QED
      BY <1>0, <2>3, <3>2, <3>3, JobStep DEF NewJob
  <2>5. CASE HandleEnrolCluster(c)
    <3>1. PICK p \in People, k \in Clusters :
             clusters[k] # Absent /\ Begin(c, [NewJob("gather", p, {}) EXCEPT !.cluster = k])
      BY <2>5 DEF HandleEnrolCluster
    <3>2. [NewJob("gather", p, {}) EXCEPT !.cluster = k] \in Job
      BY <2>2
    <3>3. Then(c, [NewJob("gather", p, {}) EXCEPT !.cluster = k])
      BY <3>1 DEF Begin, Then
    <3>. QED
      BY <1>0, <2>3, <3>1, <3>2, <3>3, JobStep DEF NewJob
  <2>6. CASE HandleUploadEnrol(c)
    <3>1. PICK p \in People, s \in Photos : Begin(c, NewJob("insert", p, {s}))
      BY <2>6 DEF HandleUploadEnrol
    <3>2. NewJob("insert", p, {s}) \in Job
      BY <2>2 DEF Sources
    <3>3. Then(c, NewJob("insert", p, {s}))
      BY <3>1 DEF Begin, Then
    <3>. QED
      BY <1>0, <2>3, <3>2, <3>3, JobStep DEF NewJob
  <2>. QED
    BY <1>5, <2>4, <2>5, <2>6
<1>6. ASSUME NEW c \in Callers, jobs[c] # Idle
      PROVE  jobs[c] \in Job /\ Carries(jobs[c])
  BY <1>6 DEF TypeInv, TypeOK, JobsSound
<1>7. ASSUME NEW c \in Callers, Finish(c), ClustersStay
      PROVE  JobsOK
  BY <1>7, JobStep DEF Finish, Then
<1>8. Retro \in Job
  BY DEF Retro, NewJob, Job
<1>9. ASSUME NEW c \in Callers, Then(c, Retro), ClustersStay
      PROVE  JobsOK
  BY <1>8, <1>9, JobStep DEF Retro, NewJob
<1>10. ASSUME NEW c \in Callers, Gather(c)
       PROVE  JobsOK
  <2>1. CASE Finish(c)
    BY <1>0, <1>7, <1>10, <2>1 DEF Gather
  <2>2. CASE ~Finish(c)
    <3>0. PICK valid \in FilterEnrolQuality(Offered(jobs[c])) :
             \E keep \in PruneEnrolBatch(Enrolled(jobs[c].person), valid) :
                Then(c, [jobs[c] EXCEPT !.phase = "insert", !.items = keep])
      BY <1>10, <2>2 DEF Gather
    <3>1. PICK keep \in PruneEnrolBatch(Enrolled(jobs[c].person), valid) :
             Then(c, [jobs[c] EXCEPT !.phase = "insert", !.items = keep])
      BY <3>0
    <3>2. jobs[c] \in Job /\ Carries(jobs[c]) /\ jobs[c].phase = "gather"
      BY <1>6, <1>10 DEF Gather, In
    <3>3. Offered(jobs[c]) \in SUBSET Sources
      BY <1>10, <3>2, DataAndJobs DEF Offered, Job, TypeInv, DataOK, Cluster, Carries, Sources
    <3>4. keep \in SUBSET Sources
      BY <3>3 DEF FilterEnrolQuality, PruneEnrolBatch, New
    <3>5. [jobs[c] EXCEPT !.phase = "insert", !.items = keep] \in Job
      BY <3>2, <3>4 DEF Job
    <3>6. UNCHANGED clusters
      BY <1>10 DEF Gather
    <3>. QED
      BY <1>0, <3>1, <3>2, <3>5, <3>6, JobStep DEF Carries, Job
  <2>. QED
    BY <2>1, <2>2
<1>11. ASSUME NEW c \in Callers, AddEmbeddings(c)
       PROVE  JobsOK
  <2>1. jobs[c] \in Job /\ Carries(jobs[c]) /\ jobs[c].phase = "insert" /\ UNCHANGED clusters
    BY <1>6, <1>11 DEF AddEmbeddings, In
  <2>2. CASE Finish(c)
    BY <1>0, <1>7, <2>1, <2>2
  <2>3. CASE Then(c, Retro)
    BY <1>0, <1>9, <2>1, <2>3
  <2>4. CASE jobs[c].cluster # None /\ Then(c, [jobs[c] EXCEPT !.phase = "mark", !.items = {}])
    <3>1. [jobs[c] EXCEPT !.phase = "mark", !.items = {}] \in Job
      BY <2>1 DEF Job
    <3>. QED
      BY <1>0, <2>1, <2>4, <3>1, JobStep DEF Carries, Job
  <2>. QED
    BY <1>11, <2>2, <2>3, <2>4 DEF AddEmbeddings
<1>12. ASSUME NEW c \in Callers, MarkCluster(c)
       PROVE  JobsOK
  <2>1. clusters[jobs[c].cluster] # Absent
    BY <1>6, <1>12 DEF MarkCluster, In, Carries
  <2>2. ClustersStay
    <3>1. jobs[c].person \in People /\ jobs[c].cluster \in Clusters
      BY <1>6, <1>12 DEF MarkCluster, In, Carries, Job
    <3>2. CASE UNCHANGED clusters
      BY <1>0, <3>2
    <3>3. CASE clusters[jobs[c].cluster] # Gone /\ clusters' = [clusters EXCEPT ![jobs[c].cluster].person = jobs[c].person]
      <4>1. clusters[jobs[c].cluster] \in Cluster
        BY <2>1, <3>1, <3>3, DataAndJobs DEF TypeInv, DataOK
      <4>2. [clusters[jobs[c].cluster] EXCEPT !.person = jobs[c].person] \in Cluster
        BY <3>1, <4>1 DEF Cluster
      <4>3. clusters'[jobs[c].cluster] # Absent /\ \A k \in Clusters : k # jobs[c].cluster => clusters'[k] = clusters[k]
        BY <3>1, <3>3, <4>2, Sentinels, DataAndJobs DEF TypeInv, DataOK
      <4>. QED
        BY <4>3 DEF ClustersStay
    <3>. QED
      BY <1>12, <3>2, <3>3 DEF MarkCluster
  <2>. QED
    BY <1>7, <1>9, <1>12, <2>2 DEF MarkCluster
<1>13. ASSUME NEW c \in Callers, RunRetroMatch(c)
       PROVE  JobsOK
  <2>1. jobs[c] \in Job /\ Carries(jobs[c]) /\ UNCHANGED clusters
        /\ Then(c, [jobs[c] EXCEPT !.phase = "list", !.by = Tables])
    BY <1>6, <1>13 DEF RunRetroMatch, In
  <2>2. Tables \in Knowledge
    BY TablesKnown DEF TypeInv
  <2>3. [jobs[c] EXCEPT !.phase = "list", !.by = Tables] \in Job
    BY <2>1, <2>2 DEF Job
  <2>. QED
    BY <1>0, <2>1, <2>2, <2>3, JobStep DEF Carries, Job
<1>14. ASSUME NEW c \in Callers, ListCandidates(c)
       PROVE  JobsOK
  <2>1. jobs[c] \in Job /\ Carries(jobs[c]) /\ UNCHANGED clusters /\ jobs[c].phase = "list"
        /\ Then(c, [jobs[c] EXCEPT !.phase = "write", !.items = Candidates])
    BY <1>6, <1>14 DEF ListCandidates, In
  <2>2. Candidates \in SUBSET Dets
    BY DEF Candidates, Nameless
  <2>3. [jobs[c] EXCEPT !.phase = "write", !.items = Candidates] \in Job
    BY <2>1, <2>2 DEF Job, Sources
  <2>. QED
    BY <1>0, <2>1, <2>2, <2>3, JobStep DEF Carries, Job
<1>15. ASSUME NEW c \in Callers, RetroMatch(c)
       PROVE  JobsOK
  <2>1. PICK d \in jobs[c].items : Then(c, [jobs[c] EXCEPT !.items = @ \ {d}])
    BY <1>15 DEF RetroMatch
  <2>2. jobs[c] \in Job /\ Carries(jobs[c]) /\ UNCHANGED clusters /\ jobs[c].phase = "write"
    BY <1>6, <1>15 DEF RetroMatch, In
  <2>3. [jobs[c] EXCEPT !.items = @ \ {d}] \in Job
    BY <2>2 DEF Job
  <2>. QED
    BY <1>0, <2>1, <2>2, <2>3, JobStep DEF Carries, Job
<1>16. ASSUME NEW c \in Callers, RetroMatched(c) \/ RetroMatchFails(c)
       PROVE  JobsOK
  <2>1. Finish(c) /\ UNCHANGED clusters
    BY <1>16 DEF RetroMatched, RetroMatchFails
  <2>. QED
    BY <1>0, <1>7, <2>1
<1>17. ASSUME NEW c \in Callers, HandleDeletePerson(c)
       PROVE  JobsOK
  <2>1. PICK p \in People : Begin(c, NewJob("erase", p, {})) /\ UNCHANGED clusters
    BY <1>17 DEF HandleDeletePerson
  <2>2. NewJob("erase", p, {}) \in Job
    BY DEF NewJob, Job
  <2>3. Then(c, NewJob("erase", p, {}))
    BY <2>1 DEF Begin, Then
  <2>. QED
    BY <1>0, <2>1, <2>2, <2>3, JobStep DEF NewJob
<1>18. ASSUME NEW c \in Callers, Erase(c)
       PROVE  JobsOK
  <2>. DEFINE p == jobs[c].person
  <2>1. \A k \in Clusters : clusters[k] \in Cluster => [clusters[k] EXCEPT !.person = None] \in Cluster
    BY DEF Cluster
  <2>2. ClustersStay
    BY <1>18, <2>1, Sentinels DEF Erase, ClustersStay
  <2>. QED
    BY <1>7, <1>18, <2>2 DEF Erase
<1>19. \A c \in Callers :
          /\ HandleAddPersonEmbeddingsBulk(c) \/ HandleEnrolCluster(c) \/ HandleUploadEnrol(c) => DataOK'
          /\ Gather(c) \/ AddEmbeddings(c) \/ MarkCluster(c) => DataOK'
  BY EnrolSteps
<1>20. \A c \in Callers :
          RunRetroMatch(c) \/ ListCandidates(c) \/ RetroMatch(c) \/ RetroMatched(c) \/ RetroMatchFails(c) => DataOK'
  BY MatchSteps
<1>21. \A c \in Callers : HandleDeletePerson(c) \/ Erase(c) => DataOK'
  BY EraseSteps
<1>22. ASSUME NEW c \in Callers,
              \/ HandleAddPersonEmbeddingsBulk(c) \/ HandleEnrolCluster(c) \/ HandleUploadEnrol(c)
              \/ Gather(c) \/ AddEmbeddings(c) \/ MarkCluster(c)
              \/ RunRetroMatch(c) \/ ListCandidates(c) \/ RetroMatch(c) \/ RetroMatched(c) \/ RetroMatchFails(c)
              \/ HandleDeletePerson(c) \/ Erase(c)
       PROVE  DataOK' /\ JobsOK
  BY <1>5, <1>10, <1>11, <1>12, <1>13, <1>14, <1>15, <1>16, <1>17, <1>18, <1>19, <1>20, <1>21, <1>22
<1>. QED
  BY <1>1, <1>2, <1>3, <1>4, <1>22 DEF Next

\* Every variable keeps its type: a request carries the person, the cluster and
\* the knowledge its next statement uses.
THEOREM PersonsTypeCorrect == Spec => []TypeOK
<1>1. Spec => []TypeInv
  BY InitTypes, TypeStep, PTL DEF Spec
<1>2. TypeInv => TypeOK
  BY DEF TypeInv
<1>. QED
  BY <1>1, <1>2, PTL

(***************************************************************************)
(* Erasure.  The three parts of ErasureHolds are inductive with the types: *)
(* only the steps that may write a person somewhere have to be looked at.  *)
(***************************************************************************)
LEMMA ErasureSame ==
    ASSUME ErasureHolds, UNCHANGED <<pool, clusters, rows, late>>,
           \A p \in People : persons'[p] = Gone => persons[p] = Gone
    PROVE  ErasureHolds'
BY DEF ErasureHolds

\* Only Erase makes a person Gone.
LEMMA GoneSteps ==
    ASSUME TypeInv, [Next]_vars, \A c \in Callers : ~Erase(c)
    PROVE  \A p \in People : persons'[p] = Gone => persons[p] = Gone
<1>. USE DataAndJobs, Sentinels DEF TypeInv, DataOK
<1>1. CASE UNCHANGED persons
  BY <1>1
<1>2. ASSUME NEW p \in People, HandleCreatePerson(p) \/ HandleUpdatePerson(p) \/ Enrollee(p)
      PROVE  \A q \in People : persons'[q] = Gone => persons[q] = Gone
  BY <1>2 DEF HandleCreatePerson, HandleUpdatePerson, Exists, Enrollee
<1>3. UNCHANGED persons \/ \E p \in People : HandleCreatePerson(p) \/ HandleUpdatePerson(p) \/ Enrollee(p)
  <2>1. CASE UNCHANGED vars
    BY <2>1 DEF vars, tables
  <2>2. CASE \/ LoadFaceEnrolments \/ \E d \in Dets : OnDetection(d) \/ InsertDetection(d) \/ Ages(d)
             \/ \E t \in Tracks : PruneFaceAggs(t)
    BY <2>2 DEF LoadFaceEnrolments, OnDetection, InsertDetection, Ages, PruneFaceAggs, tables
  <2>3. CASE HandleDismissFaces \/ HandleClusterRunNow
             \/ \E k \in Clusters : HandleDeleteCluster(k) \/ HandleDismissClusterAsNotAFace(k)
    BY <2>3 DEF HandleDismissFaces, HandleClusterRunNow, HandleDeleteCluster, HandleDismissClusterAsNotAFace, tables
  <2>4. CASE \E p \in People : HandleCreatePerson(p) \/ HandleUpdatePerson(p) \/ HandleAddPersonEmbedding(p)
                \/ HandleDeletePersonEmbedding(p) \/ HandleBulkDeletePersonEmbeddings(p)
    BY <2>4 DEF HandleAddPersonEmbedding, HandleDeletePersonEmbedding, HandleBulkDeletePersonEmbeddings, Delete
  <2>5. CASE \E c \in Callers : HandleEnrolCluster(c) \/ HandleUploadEnrol(c)
    BY <2>5 DEF HandleEnrolCluster, HandleUploadEnrol
  <2>6. CASE \E c \in Callers :
                \/ HandleAddPersonEmbeddingsBulk(c) \/ Gather(c) \/ AddEmbeddings(c) \/ MarkCluster(c)
                \/ RunRetroMatch(c) \/ ListCandidates(c) \/ RetroMatch(c) \/ RetroMatched(c) \/ RetroMatchFails(c)
                \/ HandleDeletePerson(c)
    BY <2>6 DEF HandleAddPersonEmbeddingsBulk, Gather, AddEmbeddings, MarkCluster, RunRetroMatch, ListCandidates,
                RetroMatch, RetroMatched, RetroMatchFails, HandleDeletePerson, tables
  <2>. QED
    BY <2>1, <2>2, <2>3, <2>4, <2>5, <2>6 DEF Next
<1>. QED
  BY <1>1, <1>2, <1>3

LEMMA ErasureStep == TypeInv /\ ErasureHolds /\ [Next]_vars => ErasureHolds'
<1>. SUFFICES ASSUME TypeInv, ErasureHolds, [Next]_vars PROVE ErasureHolds'
  OBVIOUS
<1>1. DataOK
  BY DataAndJobs DEF TypeInv
<1>2. ASSUME NEW c \in Callers, Erase(c)
      PROVE  ErasureHolds'
  <2>. DEFINE p == jobs[c].person
  <2>1. p \in People
    BY <1>2 DEF Erase, In, TypeInv, JobsSound, Carries
  <2>2. \A q \in People : q # p => persons'[q] = persons[q] /\ pool'[q] = pool[q]
    BY <1>1, <1>2, <2>1 DEF Erase, DataOK
  <2>3. pool'[p] = NoPool
    BY <1>1, <1>2, <2>1 DEF Erase, DataOK
  <2>4. \A k \in Clusters : clusters'[k] \in Cluster => clusters'[k].person # p
                               /\ (clusters'[k].person # None => clusters[k] = clusters'[k])
    <3>1. \A k \in Clusters : clusters[k] \in Cluster => [clusters[k] EXCEPT !.person = None].person = None
      BY DEF Cluster
    <3>. QED
      BY <1>2, <2>1, <3>1, Sentinels DEF Erase
  <2>5. \A d \in Dets : rows'[d] \in Row => rows'[d].person # p
                           /\ (rows'[d].person # None => rows[d] = rows'[d])
    <3>1. \A d \in Dets : rows[d] \in Row => [rows[d] EXCEPT !.person = None, !.emb = FALSE].person = None
      BY DEF Row
    <3>. QED
      BY <1>2, <2>1, <3>1, Sentinels DEF Erase, Strip
  <2>6. late' = late
    BY <1>2 DEF Erase
  <2>. QED
    BY <2>1, <2>2, <2>3, <2>4, <2>5, <2>6, Sentinels DEF ErasureHolds
<1>3. CASE \A c \in Callers : ~Erase(c)
  <2>1. \A p \in People : persons'[p] = Gone => persons[p] = Gone
    BY <1>3, GoneSteps
  <2>2. CASE UNCHANGED <<pool, clusters, rows, late>>
    BY <2>1, <2>2, ErasureSame
  <2>3. ASSUME NEW q \in People, NEW new \in Pool, Exists(q), pool' = [pool EXCEPT ![q] = new],
               UNCHANGED <<persons, clusters, rows, late>>
        PROVE  ErasureHolds'
    BY <1>1, <2>3, Sentinels DEF ErasureHolds, DataOK, Exists
  <2>4. ASSUME NEW q \in People, NEW S \in SUBSET Enrolled(q), Delete(q, S)
        PROVE  ErasureHolds'
    <3>1. S = {} \/ persons[q] # Gone
      BY <1>1 DEF ErasureHolds, Enrolled, NoPool
    <3>2. CASE S = {}
      <4>1. \A s \in Sources : pool'[q][s] = pool[q][s]
        BY <1>1, <2>4, <3>2 DEF Delete, DataOK, Pool
      <4>2. pool' = pool
        BY <1>1, <2>4, <3>2, <4>1 DEF Delete, DataOK, Pool
      <4>. QED
        BY <2>1, <2>4, <4>2, ErasureSame DEF Delete
    <3>3. CASE persons[q] # Gone
      BY <1>1, <2>4, <3>3 DEF Delete, ErasureHolds, DataOK
    <3>. QED
      BY <3>1, <3>2, <3>3
  <2>5. ASSUME UNCHANGED <<persons, pool, rows, late>>, NEW k \in Clusters, clusters[k] \in Cluster,
               NEW q \in People, Exists(q), clusters' = [clusters EXCEPT ![k].person = q]
        PROVE  ErasureHolds'
    <3>1. clusters'[k].person = q
      BY <1>1, <2>5 DEF DataOK, Cluster
    <3>2. \A j \in Clusters : j # k => clusters'[j] = clusters[j]
      BY <1>1, <2>5 DEF DataOK
    <3>3. persons[q] # Gone
      BY <2>5, Sentinels DEF Exists
    <3>4. \A p \in People, j \in Clusters :
             persons[p] = Gone /\ clusters'[j] \in Cluster => clusters'[j].person # p
      <4>. SUFFICES ASSUME NEW p \in People, NEW j \in Clusters, persons[p] = Gone, clusters'[j] \in Cluster
                    PROVE  clusters'[j].person # p
        OBVIOUS
      <4>1. CASE j = k
        BY <3>1, <3>3, <4>1
      <4>2. CASE j # k
        BY <3>2, <4>2 DEF ErasureHolds
      <4>. QED
        BY <4>1, <4>2
    <3>. QED
      BY <2>5, <3>4 DEF ErasureHolds
  <2>6. ASSUME UNCHANGED <<pool, rows, late>>,
               \A k \in Clusters : clusters'[k] = clusters[k] \/ clusters'[k] \in {Gone, Absent}
                                    \/ clusters'[k].person = None
        PROVE  ErasureHolds'
    BY <2>1, <2>6, Sentinels DEF ErasureHolds
  <2>7. ASSUME NEW d \in Dets, NEW p \in People \cup {None}, NEW r, r.person = p,
               rows' = [rows EXCEPT ![d] = r], Named(d, p),
               UNCHANGED <<persons, pool, clusters>>
        PROVE  ErasureHolds'
    BY <1>1, <2>7, Sentinels DEF ErasureHolds, Named, DataOK
  <2>19. ASSUME NEW d \in Dets, Ages(d)
         PROVE  ErasureHolds'
    <3>1. rows' = [rows EXCEPT ![d] = [rows[d] EXCEPT !.old = TRUE]] /\ rows[d] \in Row
      BY <2>19 DEF Ages
    <3>2. [rows[d] EXCEPT !.old = TRUE].person = rows[d].person
      BY <3>1 DEF Row
    <3>3. \A e \in Dets : e # d => rows'[e] = rows[e]
      BY <1>1, <3>1 DEF DataOK
    <3>4. rows'[d].person = rows[d].person
      BY <1>1, <3>1, <3>2 DEF DataOK
    <3>5. UNCHANGED <<persons, pool, clusters, late>>
      BY <2>19 DEF Ages, tables, history
    <3>6. \A e \in Dets : rows'[e] \in Row => rows[e] \in Row /\ rows'[e].person = rows[e].person
      BY <3>1, <3>3, <3>4
    <3>. QED
      BY <3>5, <3>6 DEF ErasureHolds
  <2>8. CASE UNCHANGED vars
    BY <2>2, <2>8 DEF vars, tables, history
  <2>9. CASE LoadFaceEnrolments \/ HandleDismissFaces \/ (\E d \in Dets : OnDetection(d)) \/ \E t \in Tracks : PruneFaceAggs(t)
    BY <2>2, <2>9 DEF LoadFaceEnrolments, HandleDismissFaces, OnDetection, PruneFaceAggs, tables, history
  <2>10. ASSUME NEW d \in Dets, InsertDetection(d)
         PROVE  ErasureHolds'
    <3>1. deciding[d] \in People \cup {None}
      BY <1>1, <2>10 DEF InsertDetection, DataOK
    <3>. QED
      BY <2>7, <2>10, <3>1 DEF InsertDetection, tables
  <2>11. ASSUME NEW p \in People, HandleAddPersonEmbedding(p)
         PROVE  ErasureHolds'
    <3>1. pool'[p] \in Pool
      BY EditSteps, <2>11 DEF DataOK
    <3>2. pool' = [pool EXCEPT ![p] = pool'[p]]
      BY <1>1, <2>11 DEF HandleAddPersonEmbedding, DataOK
    <3>. QED
      BY <2>3, <2>11, <3>1, <3>2 DEF HandleAddPersonEmbedding, References
  <2>12. ASSUME NEW p \in People, HandleCreatePerson(p) \/ HandleUpdatePerson(p)
                \/ HandleDeletePersonEmbedding(p) \/ HandleBulkDeletePersonEmbeddings(p)
         PROVE  ErasureHolds'
    BY <2>2, <2>4, <2>12 DEF HandleCreatePerson, HandleUpdatePerson, HandleDeletePersonEmbedding,
                             HandleBulkDeletePersonEmbeddings, history
  <2>13. ASSUME NEW c \in Callers,
                \/ HandleAddPersonEmbeddingsBulk(c) \/ HandleEnrolCluster(c) \/ HandleUploadEnrol(c)
                \/ Gather(c) \/ RunRetroMatch(c) \/ ListCandidates(c) \/ RetroMatched(c) \/ RetroMatchFails(c)
                \/ HandleDeletePerson(c)
         PROVE  UNCHANGED <<pool, clusters, rows, late>>
    BY <2>13 DEF HandleAddPersonEmbeddingsBulk, HandleEnrolCluster, HandleUploadEnrol, Gather, RunRetroMatch,
                 ListCandidates, RetroMatched, RetroMatchFails, HandleDeletePerson, tables, history
  <2>14. ASSUME NEW c \in Callers, AddEmbeddings(c)
         PROVE  ErasureHolds'
    <3>. DEFINE p == jobs[c].person
    <3>1. p \in People
      BY <2>14 DEF AddEmbeddings, In, TypeInv, JobsSound, Carries
    <3>2. CASE UNCHANGED pool
      BY <2>2, <2>14, <3>2 DEF AddEmbeddings
    <3>3. CASE ~UNCHANGED pool
      <4>1. pool'[p] \in Pool
        BY EnrolSteps, <2>14, <3>1 DEF DataOK
      <4>2. References(p) /\ \E e : pool' = [pool EXCEPT ![p] = e]
        BY <2>14, <3>3 DEF AddEmbeddings
      <4>3. pool' = [pool EXCEPT ![p] = pool'[p]]
        BY <1>1, <3>1, <4>2 DEF DataOK
      <4>. QED
        BY <2>3, <2>14, <3>1, <4>1, <4>2, <4>3 DEF AddEmbeddings, References
    <3>. QED
      BY <3>2, <3>3
  <2>15. ASSUME NEW c \in Callers, MarkCluster(c)
         PROVE  ErasureHolds'
    <3>1. /\ jobs[c].person \in People /\ jobs[c].cluster \in Clusters
          /\ clusters[jobs[c].cluster] \in Cluster \cup {Gone}
      BY <1>1, <2>15 DEF MarkCluster, In, TypeInv, TypeOK, JobsSound, Carries, Job, DataOK
    <3>2. CASE UNCHANGED clusters
      BY <2>2, <2>15, <3>2 DEF MarkCluster, tables, history
    <3>3. CASE ~UNCHANGED clusters
      BY <2>5, <2>15, <3>1, <3>3 DEF MarkCluster, References, tables, history
    <3>. QED
      BY <3>2, <3>3
  <2>16. ASSUME NEW c \in Callers, RetroMatch(c)
         PROVE  ErasureHolds'
    <3>1. PICK d \in jobs[c].items :
             \/ /\ rows[d] \in Row
                /\ rows' = [rows EXCEPT ![d] = [rows[d] EXCEPT !.person = ScoreProbe(jobs[c].by, Shows[d]), !.emb = FALSE]]
                /\ Named(d, ScoreProbe(jobs[c].by, Shows[d]))
             \/ UNCHANGED <<rows, late>>
      BY <2>16 DEF RetroMatch
    <3>2. d \in Dets
      BY <2>16, <3>1 DEF RetroMatch, In, TypeInv, JobsSound, Carries
    <3>3. ScoreProbe(jobs[c].by, Shows[d]) \in People \cup {None}
      BY VerdictTyped
    <3>4. UNCHANGED <<persons, pool, clusters>>
      BY <2>16 DEF RetroMatch, tables
    <3>5. rows[d] \in Row => \A p : [rows[d] EXCEPT !.person = p, !.emb = FALSE].person = p
      BY DEF Row
    <3>. QED
      BY <2>2, <2>7, <3>1, <3>2, <3>3, <3>4, <3>5
  <2>17. ASSUME NEW k \in Clusters, HandleDeleteCluster(k) \/ HandleDismissClusterAsNotAFace(k)
         PROVE  ErasureHolds'
    BY <1>1, <2>6, <2>17 DEF HandleDeleteCluster, HandleDismissClusterAsNotAFace, DataOK, tables, history
  <2>18. ASSUME HandleClusterRunNow
         PROVE  ErasureHolds'
    <3>1. \A k \in Clusters : clusters'[k] \in {clusters[k], Absent, Gone} \/ clusters'[k].person = None
      BY <2>18 DEF HandleClusterRunNow
    <3>. QED
      BY <2>6, <2>18, <3>1 DEF HandleClusterRunNow, tables, history
  <2>. QED
    BY <1>3, <2>2, <2>8, <2>9, <2>10, <2>11, <2>12, <2>13, <2>14, <2>15, <2>16, <2>17, <2>18, <2>19 DEF Next
<1>. QED
  BY <1>2, <1>3

LEMMA ErasureInit == Init => ErasureHolds
<1>. SUFFICES ASSUME Init PROVE ErasureHolds
  OBVIOUS
<1>1. \A p \in People : persons[p] # Gone
  BY Sentinels DEF Init
<1>. QED
  BY <1>1 DEF ErasureHolds

\* An erased person stays out of the enrolment, of the clusters and of the rows,
\* but for those that a match begun before the erasure has written after it.
THEOREM ErasureAlwaysHolds == Spec => []ErasureHolds
<1>1. Spec => [](TypeInv /\ ErasureHolds)
  <2>1. TypeInv /\ ErasureHolds /\ [Next]_vars => (TypeInv /\ ErasureHolds)'
    BY TypeStep, ErasureStep
  <2>. QED
    BY InitTypes, ErasureInit, <2>1, PTL DEF Spec
<1>. QED
  BY <1>1, PTL

(***************************************************************************)
(* Pools without duplicates.  Between its Gather and its insert a request  *)
(* holds faces that repeat neither one another nor the pool: that stays so *)
(* because whatever else adds to the pool makes the person unpruned.       *)
(***************************************************************************)
Repeats(S) == \E s, t \in S : s # t /\ Dup(s, t)

JobDiverse(j) ==
    j.phase = "insert" /\ j.person \notin unpruned /\ j.items \cap Photos = {} =>
        ~Repeats(j.items) /\ \A s \in j.items, t \in Enrolled(j.person) : ~Dup(s, t)

DiverseInv == DiversePool /\ \A c \in Callers : jobs[c] # Idle => JobDiverse(jobs[c])

LEMMA DupFacts == /\ \A s \in Sources : Dup(s, s)
                  /\ \A s, t \in Sources : Dup(s, t) => Dup(t, s)
<1>1. \A s \in Sources : Shows[s] \in Faces
  BY PersonsAssumption
<1>2. ASSUME NEW f \in Faces, NEW g \in Faces
      PROVE  Sim[<<f, f>>] > DedupSim /\ Sim[<<f, g>>] = Sim[<<g, f>>]
  BY <1>2, PersonsAssumption
<1>. QED
  BY <1>1, <1>2 DEF Dup

LEMMA DiverseInit == Init => DiverseInv
<1>. SUFFICES ASSUME Init PROVE DiverseInv
  OBVIOUS
<1>1. PICK start \in Starts :
         pool = [p \in People |-> [s \in Sources |-> IF start[p] # None /\ s \in start[p] THEN 1 ELSE 0]]
  BY DEF Init
<1>2. ASSUME NEW p \in People, start[p] # None
      PROVE  \A s, t \in start[p] : s # t => ~Dup(s, t)
  <2>1. start[p] \in SUBSET Photos
    BY <1>2, PersonsAssumption
  <2>2. \A s, t \in start[p] : s # t => Sim[<<Shows[s], Shows[t]>>] <= DedupSim
    BY <1>2, PersonsAssumption
  <2>3. \A s \in start[p] : Shows[s] \in Faces
    BY <2>1, PersonsAssumption DEF Sources
  <2>4. ASSUME NEW f \in Faces, NEW g \in Faces
        PROVE  Sim[<<f, g>>] \in Nat
    <3>1. <<f, g>> \in Faces \X Faces /\ Sim \in [Faces \X Faces -> 0..100]
      BY PersonsAssumption
    <3>2. Sim[<<f, g>>] \in 0..100
      BY <3>1
    <3>. QED
      BY <3>2
  <2>5. DedupSim \in Nat
    BY PersonsAssumption
  <2>. QED
    BY <2>2, <2>3, <2>4, <2>5 DEF Dup
<1>3. \A p \in People, s \in Sources : pool[p][s] \in {0, 1} /\ (pool[p][s] > 0 => start[p] # None /\ s \in start[p])
  BY <1>1
<1>4. DiversePool
  BY <1>2, <1>3 DEF DiversePool, Enrolled
<1>. QED
  BY <1>4 DEF DiverseInv, Init

\* A step that adds to no pruned pool and hands nothing to an insert.
LEMMA DiverseKept ==
    ASSUME TypeInv, TypeInv', DiverseInv, unpruned \subseteq unpruned',
           \A p \in People \ unpruned', s \in Sources : pool'[p][s] <= pool[p][s],
           \A c \in Callers : jobs'[c] \in {jobs[c], Idle} \/ jobs'[c].phase # "insert" \/ jobs'[c].items \cap Photos # {}
    PROVE  DiverseInv'
<1>1. \A p \in People, s \in Sources : pool[p][s] \in Nat /\ pool'[p][s] \in Nat
  BY PersonsAssumption DEF TypeInv, TypeOK, Pool
<1>2. \A p \in People \ unpruned' : Enrolled(p)' \subseteq Enrolled(p)
  BY <1>1 DEF Enrolled
<1>3. DiversePool'
  BY <1>1, <1>2 DEF DiverseInv, DiversePool
<1>4. ASSUME NEW c \in Callers, jobs'[c] # Idle
      PROVE  JobDiverse(jobs[c])'
  <2>1. CASE jobs'[c] = jobs[c]
    <3>1. jobs[c] \in Job /\ Carries(jobs[c]) /\ JobDiverse(jobs[c])
      BY <1>4, <2>1 DEF TypeInv, TypeOK, JobsSound, DiverseInv
    <3>2. PICK p : p = jobs[c].person /\ p = jobs'[c].person
      BY <2>1
    <3>3. Enrolled(jobs[c].person)' = Enrolled(p)' /\ Enrolled(jobs[c].person) = Enrolled(p)
      BY <3>2 DEF Enrolled
    <3>4. jobs[c].phase = "insert" => p \in People
      BY <3>1, <3>2 DEF Carries
    <3>. QED
      BY <1>2, <2>1, <3>1, <3>2, <3>3, <3>4 DEF JobDiverse
  <2>2. CASE jobs'[c].phase # "insert" \/ jobs'[c].items \cap Photos # {}
    BY <2>2 DEF JobDiverse
  <2>. QED
    BY <1>4, <2>1, <2>2
<1>. QED
  BY <1>3, <1>4 DEF DiverseInv

\* Gather hands over what PruneEnrolBatch keeps.
LEMMA DiverseGather ==
    ASSUME TypeInv, TypeInv', DiverseInv, NEW c \in Callers, Gather(c)
    PROVE  DiverseInv'
<1>0. UNCHANGED <<pool, unpruned>>
  BY DEF Gather, tables, history
<1>1. \A p \in People, s \in Sources : pool[p][s] \in Nat
  BY PersonsAssumption DEF TypeInv, TypeOK, Pool
<1>2. CASE Finish(c)
  <2>1. \A d \in Callers : jobs'[d] \in {jobs[d], Idle}
    BY <1>2 DEF Finish, TypeInv, TypeOK
  <2>. QED
    BY <1>0, <1>1, <2>1, DiverseKept
<1>3. CASE ~Finish(c)
  <2>1. PICK valid \in FilterEnrolQuality(Offered(jobs[c])) :
           \E keep \in PruneEnrolBatch(Enrolled(jobs[c].person), valid) :
              Then(c, [jobs[c] EXCEPT !.phase = "insert", !.items = keep])
    BY <1>3 DEF Gather
  <2>2. PICK keep \in PruneEnrolBatch(Enrolled(jobs[c].person), valid) :
           Then(c, [jobs[c] EXCEPT !.phase = "insert", !.items = keep])
    BY <2>1
  <2>3. jobs[c] \in Job
    BY DEF Gather, In, TypeInv, TypeOK
  <2>4. jobs'[c].items = keep /\ jobs'[c].person = jobs[c].person
    BY <2>2, <2>3 DEF Then, TypeInv, TypeOK, Job
  <2>5. \A d \in Callers : d # c => jobs'[d] = jobs[d]
    BY <2>2 DEF Then, TypeInv, TypeOK
  <2>6. PICK p : p = jobs[c].person /\ p = jobs'[c].person
    BY <2>4
  <2>7. ~Repeats(keep) /\ \A s \in keep, t \in Enrolled(p) : ~Dup(s, t)
    <3>1. keep \in PruneEnrolBatch(Enrolled(p), valid) /\ p \in People
      BY <2>2, <2>6 DEF Enrolled, Gather, In, TypeInv, JobsSound, Carries
    <3>. QED
      BY <3>1 DEF PruneEnrolBatch, New, Repeats
  <2>8. Enrolled(jobs[c].person)' = Enrolled(p)
    BY <1>0, <2>6 DEF Enrolled
  <2>9. JobDiverse(jobs[c])'
    BY <2>4, <2>6, <2>7, <2>8 DEF JobDiverse
  <2>10. ASSUME NEW d \in Callers, d # c, jobs'[d] # Idle
         PROVE  JobDiverse(jobs[d])'
    <3>1. JobDiverse(jobs[d])
      BY <2>5, <2>10 DEF DiverseInv
    <3>. QED
      BY <1>0, <2>5, <2>10, <3>1 DEF JobDiverse, Enrolled
  <2>11. DiversePool'
    BY <1>0 DEF DiverseInv, DiversePool, Enrolled
  <2>. QED
    BY <2>9, <2>10, <2>11 DEF DiverseInv
<1>. QED
  BY <1>2, <1>3

\* The insert of a pruned batch: none of it is in the pool yet, and nobody else
\* is about to insert for that person.
LEMMA DiverseInsert ==
    ASSUME TypeInv, TypeInv', DiverseInv, NEW c \in Callers, AddEmbeddings(c)
    PROVE  DiverseInv'
<1>. DEFINE new == jobs[c].items
<1>1. PICK p \in People : p = jobs[c].person
  BY DEF AddEmbeddings, In, TypeInv, JobsSound, Carries
<1>2. jobs[c] \in Job /\ jobs[c].phase = "insert" /\ JobDiverse(jobs[c])
  BY DEF AddEmbeddings, In, TypeInv, TypeOK, DiverseInv
<1>3. new \in SUBSET Sources
  BY <1>2 DEF Job
<1>4. \A q \in People, s \in Sources : pool[q][s] \in Nat
  BY PersonsAssumption DEF TypeInv, TypeOK, Pool
<1>5. \A d \in Callers : d # c => jobs'[d] = jobs[d]
  BY DEF AddEmbeddings, Then, Finish, TypeInv, TypeOK
<1>6. jobs'[c] = Idle \/ jobs'[c].phase # "insert"
  <2>1. jobs'[c] \in {Idle, Retro, [jobs[c] EXCEPT !.phase = "mark", !.items = {}]}
    BY DEF AddEmbeddings, Then, Finish, TypeInv, TypeOK
  <2>2. Retro.phase = "retro"
    BY DEF Retro, NewJob
  <2>3. [jobs[c] EXCEPT !.phase = "mark", !.items = {}].phase = "mark"
    BY <1>2 DEF Job
  <2>. QED
    BY <2>1, <2>2, <2>3
<1>7. unpruned \subseteq unpruned'
  BY DEF AddEmbeddings
<1>8. CASE UNCHANGED pool
  BY <1>4, <1>5, <1>6, <1>7, <1>8, DiverseKept
<1>9. ASSUME ~UNCHANGED pool
      PROVE  /\ pool' = [pool EXCEPT ![p] = [s \in Sources |-> IF s \in new THEN @[s] + 1 ELSE @[s]]]
             /\ p \notin unpruned' => new \cap Photos = {} /\ ~Overlap(c)
  BY <1>1, <1>9 DEF AddEmbeddings
<1>10. CASE ~UNCHANGED pool /\ p \in unpruned'
  <2>1. \A q \in People \ unpruned' : pool'[q] = pool[q]
    BY <1>9, <1>10 DEF TypeInv, TypeOK
  <2>. QED
    BY <1>4, <1>5, <1>6, <1>7, <2>1, DiverseKept
<1>11. CASE ~UNCHANGED pool /\ p \notin unpruned'
  <2>1. new \cap Photos = {} /\ ~Overlap(c) /\ p \notin unpruned
    BY <1>7, <1>9, <1>11
  <2>2. ~Repeats(new) /\ \A s \in new, t \in Enrolled(p) : ~Dup(s, t)
    <3>1. Enrolled(jobs[c].person) = Enrolled(p)
      BY <1>1 DEF Enrolled
    <3>. QED
      BY <1>1, <1>2, <2>1, <3>1 DEF JobDiverse
  <2>3. \A s \in new : pool[p][s] = 0
    BY <1>3, <1>4, <2>2, DupFacts DEF Enrolled
  <2>4. /\ \A q \in People : q # p => pool'[q] = pool[q]
        /\ \A s \in Sources : pool'[p][s] = IF s \in new THEN 1 ELSE pool[p][s]
    BY <1>9, <1>11, <2>3 DEF TypeInv, TypeOK, Pool
  <2>5. /\ \A q \in People : q # p => Enrolled(q)' = Enrolled(q)
        /\ Enrolled(p)' = Enrolled(p) \cup new
    BY <1>3, <2>4 DEF Enrolled
  <2>6. DiversePool'
    <3>1. \A s \in Sources : pool[p][s] <= 1
      BY <2>1 DEF DiverseInv, DiversePool
    <3>2. \A s \in Sources : pool'[p][s] <= 1
      BY <2>4, <3>1
    <3>3. \A s, t \in Enrolled(p) : s # t => ~Dup(s, t)
      BY <2>1 DEF DiverseInv, DiversePool
    <3>4. Enrolled(p) \subseteq Sources
      BY DEF Enrolled
    <3>5. \A s, t \in Enrolled(p) \cup new : s # t => ~Dup(s, t)
      BY <1>3, <2>2, <3>3, <3>4, DupFacts DEF Repeats
    <3>6. ASSUME NEW q \in People, q # p, q \notin unpruned
          PROVE  /\ \A s \in Sources : pool[q][s] <= 1
                 /\ \A s, t \in Enrolled(q) : s # t => ~Dup(s, t)
      BY <3>6 DEF DiverseInv, DiversePool
    <3>. QED
      BY <1>7, <2>4, <2>5, <3>2, <3>5, <3>6 DEF DiversePool
  <2>7. ASSUME NEW d \in Callers, jobs'[d] # Idle
        PROVE  JobDiverse(jobs[d])'
    <3>1. CASE d = c
      BY <1>6, <2>7, <3>1 DEF JobDiverse
    <3>2. CASE d # c
      <4>1. jobs'[d] = jobs[d] /\ jobs[d] # Idle /\ JobDiverse(jobs[d]) /\ Carries(jobs[d])
        BY <1>5, <2>7, <3>2 DEF DiverseInv, TypeInv, JobsSound
      <4>2. PICK q : q = jobs[d].person /\ q = jobs'[d].person
        BY <4>1
      <4>3. jobs[d].phase = "insert" => q \in People /\ q # p
        BY <1>1, <2>1, <3>2, <4>1, <4>2 DEF Overlap, In, Carries
      <4>4. Enrolled(jobs[d].person)' = Enrolled(q)' /\ Enrolled(jobs[d].person) = Enrolled(q)
        BY <4>2 DEF Enrolled
      <4>. QED
        BY <1>7, <2>5, <4>1, <4>2, <4>3, <4>4 DEF JobDiverse
    <3>. QED
      BY <3>1, <3>2
  <2>. QED
    BY <2>6, <2>7 DEF DiverseInv
<1>. QED
  BY <1>8, <1>10, <1>11

LEMMA DiverseStep == TypeInv /\ TypeInv' /\ DiverseInv /\ [Next]_vars => DiverseInv'
<1>. SUFFICES ASSUME TypeInv, TypeInv', DiverseInv, [Next]_vars PROVE DiverseInv'
  OBVIOUS
<1>0. \A p \in People, s \in Sources : pool[p][s] \in Nat
  BY PersonsAssumption DEF TypeInv, TypeOK, Pool
<1>1. ASSUME UNCHANGED <<pool, jobs, unpruned>>
      PROVE  DiverseInv'
  BY <1>0, <1>1, DiverseKept
<1>2. CASE UNCHANGED vars
  BY <1>1, <1>2 DEF vars, tables, history
<1>3. CASE \/ LoadFaceEnrolments \/ HandleDismissFaces \/ HandleClusterRunNow
           \/ \E d \in Dets : OnDetection(d) \/ InsertDetection(d) \/ Ages(d)
           \/ \E t \in Tracks : PruneFaceAggs(t)
           \/ \E k \in Clusters : HandleDeleteCluster(k) \/ HandleDismissClusterAsNotAFace(k)
  BY <1>1, <1>3 DEF LoadFaceEnrolments, HandleDismissFaces, HandleClusterRunNow, OnDetection, InsertDetection,
                    Ages, PruneFaceAggs,
                    HandleDeleteCluster, HandleDismissClusterAsNotAFace, tables, history
<1>4. ASSUME NEW p \in People, HandleCreatePerson(p) \/ HandleUpdatePerson(p)
      PROVE  DiverseInv'
  BY <1>1, <1>4 DEF HandleCreatePerson, HandleUpdatePerson, history
<1>5. ASSUME NEW p \in People, HandleAddPersonEmbedding(p)
      PROVE  DiverseInv'
  <2>1. UNCHANGED jobs /\ unpruned' = unpruned \cup {p} /\ \A q \in People : q # p => pool'[q] = pool[q]
    BY <1>5 DEF HandleAddPersonEmbedding, TypeInv, TypeOK
  <2>. QED
    BY <1>0, <2>1, DiverseKept
<1>6. ASSUME NEW p \in People, HandleDeletePersonEmbedding(p) \/ HandleBulkDeletePersonEmbeddings(p)
      PROVE  DiverseInv'
  <2>1. PICK S \in SUBSET Enrolled(p) : Delete(p, S)
    BY <1>6 DEF HandleDeletePersonEmbedding, HandleBulkDeletePersonEmbeddings
  <2>2. UNCHANGED <<jobs, unpruned>>
    BY <2>1 DEF Delete
  <2>3. \A q \in People, s \in Sources : pool'[q][s] <= pool[q][s]
    BY <1>0, <2>1 DEF Delete, TypeInv, TypeOK
  <2>. QED
    BY <2>2, <2>3, DiverseKept
<1>7. ASSUME NEW c \in Callers, UNCHANGED <<pool, unpruned>>, NEW j, Then(c, j),
             j = Idle \/ j.phase # "insert" \/ j.items \cap Photos # {}
      PROVE  DiverseInv'
  <2>1. \A d \in Callers : jobs'[d] = IF d = c THEN j ELSE jobs[d]
    BY <1>7 DEF Then, TypeInv, TypeOK
  <2>. QED
    BY <1>0, <1>7, <2>1, DiverseKept
<1>8. ASSUME NEW c \in Callers, HandleAddPersonEmbeddingsBulk(c)
      PROVE  DiverseInv'
  <2>1. PICK p \in People, items \in SUBSET Listed : Then(c, NewJob("gather", p, items))
    BY <1>8 DEF HandleAddPersonEmbeddingsBulk, Begin, Then
  <2>. QED
    BY <1>7, <1>8, <2>1 DEF HandleAddPersonEmbeddingsBulk, NewJob, tables, history
<1>9. ASSUME NEW c \in Callers, HandleEnrolCluster(c)
      PROVE  DiverseInv'
  <2>1. PICK p \in People, k \in Clusters : Then(c, [NewJob("gather", p, {}) EXCEPT !.cluster = k])
    BY <1>9 DEF HandleEnrolCluster, Begin, Then
  <2>. QED
    BY <1>7, <1>9, <2>1 DEF HandleEnrolCluster, NewJob, history
<1>10. ASSUME NEW c \in Callers, HandleUploadEnrol(c)
       PROVE  DiverseInv'
  <2>1. PICK p \in People, s \in Photos : Then(c, NewJob("insert", p, {s}))
    BY <1>10 DEF HandleUploadEnrol, Begin, Then
  <2>2. NewJob("insert", p, {s}).items \cap Photos # {}
    BY DEF NewJob
  <2>. QED
    BY <1>7, <1>10, <2>1, <2>2 DEF HandleUploadEnrol, history
<1>11. ASSUME NEW c \in Callers, MarkCluster(c)
       PROVE  DiverseInv'
  <2>1. Then(c, Retro) \/ Then(c, Idle)
    BY <1>11 DEF MarkCluster, Then, Finish
  <2>. QED
    BY <1>7, <1>11, <2>1 DEF MarkCluster, Retro, NewJob, tables, history
<1>12. ASSUME NEW c \in Callers, RunRetroMatch(c)
       PROVE  DiverseInv'
  <2>1. jobs[c] \in Job /\ Then(c, [jobs[c] EXCEPT !.phase = "list", !.by = Tables])
    BY <1>12 DEF RunRetroMatch, In, TypeInv, TypeOK
  <2>2. [jobs[c] EXCEPT !.phase = "list", !.by = Tables].phase = "list"
    BY <2>1 DEF Job
  <2>. QED
    BY <1>7, <1>12, <2>1, <2>2 DEF RunRetroMatch, tables, history
<1>13. ASSUME NEW c \in Callers, ListCandidates(c)
       PROVE  DiverseInv'
  <2>1. jobs[c] \in Job /\ Then(c, [jobs[c] EXCEPT !.phase = "write", !.items = Candidates])
    BY <1>13 DEF ListCandidates, In, TypeInv, TypeOK
  <2>2. [jobs[c] EXCEPT !.phase = "write", !.items = Candidates].phase = "write"
    BY <2>1 DEF Job
  <2>. QED
    BY <1>7, <1>13, <2>1, <2>2 DEF ListCandidates, tables, history
<1>14. ASSUME NEW c \in Callers, RetroMatch(c)
       PROVE  DiverseInv'
  <2>1. PICK d \in jobs[c].items : Then(c, [jobs[c] EXCEPT !.items = @ \ {d}])
    BY <1>14 DEF RetroMatch
  <2>2. [jobs[c] EXCEPT !.items = @ \ {d}].phase = "write"
    BY <1>14 DEF RetroMatch, In, TypeInv, TypeOK, Job
  <2>. QED
    BY <1>7, <1>14, <2>1, <2>2 DEF RetroMatch, tables
<1>15. ASSUME NEW c \in Callers, RetroMatched(c) \/ RetroMatchFails(c)
       PROVE  DiverseInv'
  <2>1. Then(c, Idle)
    BY <1>15 DEF RetroMatched, RetroMatchFails, Finish, Then
  <2>. QED
    BY <1>7, <1>15, <2>1 DEF RetroMatched, RetroMatchFails, tables
<1>16. ASSUME NEW c \in Callers, HandleDeletePerson(c)
       PROVE  DiverseInv'
  <2>1. PICK p \in People : Then(c, NewJob("erase", p, {}))
    BY <1>16 DEF HandleDeletePerson, Begin, Then
  <2>. QED
    BY <1>7, <1>16, <2>1 DEF HandleDeletePerson, NewJob, tables, history
<1>17. ASSUME NEW c \in Callers, Erase(c)
       PROVE  DiverseInv'
  <2>1. \A q \in People, s \in Sources : pool'[q][s] \in {0, pool[q][s]}
    BY <1>17 DEF Erase, TypeInv, TypeOK, NoPool
  <2>2. \A d \in Callers : jobs'[d] \in {jobs[d], Idle}
    BY <1>17 DEF Erase, Finish, TypeInv, TypeOK
  <2>. QED
    BY <1>0, <1>17, <2>1, <2>2, DiverseKept DEF Erase
<1>. QED
  BY <1>2, <1>3, <1>4, <1>5, <1>6, <1>8, <1>9, <1>10, <1>11, <1>12, <1>13, <1>14, <1>15, <1>16, <1>17,
     DiverseGather, DiverseInsert DEF Next

\* A pool holds no two near-duplicates and no source twice, unless a face was
\* added without pruning or two enrolments of the person overlapped.
THEOREM PoolsAlwaysDiverse == Spec => []DiversePool
<1>1. TypeInv /\ DiverseInv /\ [Next]_vars => (TypeInv /\ DiverseInv)'
  BY TypeStep, DiverseStep
<1>2. Spec => [](TypeInv /\ DiverseInv)
  BY InitTypes, DiverseInit, <1>1, PTL DEF Spec
<1>3. DiverseInv => DiversePool
  BY DEF DiverseInv
<1>. QED
  BY <1>2, <1>3, PTL

(***************************************************************************)
(* Strangers.  Whoever decides does so from some knowledge: the histories  *)
(* say when that is no longer what the tables hold.  A verdict that is not *)
(* behind is what the tables say, and a RetroMatch that is not dirty goes  *)
(* by the tables and still has before it every row it should name.         *)
(***************************************************************************)
Verdict(d) == ScoreProbe(Tables, Shows[d])

Unnamed(d) == d \in Nameless

Explained(d) == d \in behind \/ Verdict(d) = None

NoOrphans == \A p \in People : persons[p] = None => pool[p] = NoPool

Decided == \A d \in Dets : deciding[d] # Undecided =>
    rows[d] = Absent /\ (d \notin behind => deciding[d] = Verdict(d))

Matching(c) == In(c, "list") \/ In(c, "write")

MatchSound(c) ==
    /\ Matching(c) /\ c \notin dirty => jobs[c].by = Tables
    /\ In(c, "write") => \A d \in jobs[c].items : rows[d] # Absent
    /\ In(c, "write") /\ c \notin dirty =>
          \A d \in Dets : Unnamed(d) => Explained(d) \/ d \in jobs[c].items

StrangerInv == NoOrphans /\ Decided /\ (\A c \in Callers : MatchSound(c)) /\ StrangersExplained

LEMMA StrangersMeaning ==
    StrangersExplained <=> (fresh => \A d \in Dets : Unnamed(d) => Explained(d))
BY DEF StrangersExplained, Unnamed, Nameless, Explained, Verdict

LEMMA VerdictSame == ASSUME Tables' = Tables PROVE \A d : Verdict(d)' = Verdict(d)
BY DEF Verdict

LEMMA StrangerInit == Init => StrangerInv
<1>. SUFFICES ASSUME Init PROVE StrangerInv
  OBVIOUS
<1>1. NoOrphans
  BY Sentinels DEF Init, NoOrphans, NoPool
<1>2. Decided /\ (\A c \in Callers : MatchSound(c)) /\ StrangersExplained
  BY DEF Init, Decided, MatchSound, Matching, In, StrangersExplained
<1>. QED
  BY <1>1, <1>2 DEF StrangerInv

\* What a step does to the requests that are no RetroMatch past its first read.
NoneMatches == \A c \in Callers : jobs'[c] \in {jobs[c], Idle} \/ jobs'[c].phase \notin {"list", "write"}

LEMMA StillMatching == ASSUME NoneMatches, NEW c \in Callers
                       PROVE  /\ Matching(c)' => jobs'[c] = jobs[c] /\ Matching(c)
                              /\ In(c, "write")' => jobs'[c] = jobs[c] /\ In(c, "write")
BY DEF NoneMatches, Matching, In

\* A step that changes the tables puts every verdict behind and every
\* RetroMatch in the dirty.
LEMMA StrangerChanged ==
    ASSUME TypeInv, StrangerInv, Changed, NoOrphans', NoneMatches, UNCHANGED deciding,
           \A d \in Dets : rows'[d] = Absent <=> rows[d] = Absent
    PROVE  StrangerInv'
<1>1. Decided'
  BY DEF StrangerInv, Decided, Changed
<1>2. ASSUME NEW c \in Callers
      PROVE  MatchSound(c)'
  <2>1. Matching(c)' => c \in dirty'
    BY StillMatching DEF Changed, Matching
  <2>2. In(c, "write")' => \A d \in jobs'[c].items : rows'[d] # Absent
    <3>1. In(c, "write")' => jobs'[c] = jobs[c] /\ jobs[c].items \subseteq Dets /\ \A d \in jobs[c].items : rows[d] # Absent
      BY StillMatching DEF StrangerInv, MatchSound, In, TypeInv, JobsSound, Carries
    <3>. QED
      BY <3>1
  <2>. QED
    BY <2>1, <2>2 DEF MatchSound, Matching
<1>3. StrangersExplained'
  BY DEF Changed, StrangersExplained
<1>. QED
  BY <1>1, <1>2, <1>3 DEF StrangerInv

\* A step that changes none of it.
LEMMA StrangerSame ==
    ASSUME TypeInv, StrangerInv, Tables' = Tables, NoOrphans', NoneMatches,
           UNCHANGED <<deciding, rows, behind, dirty, fresh>>
    PROVE  StrangerInv'
<1>0. \A d \in Dets : Verdict(d)' = Verdict(d)
  BY VerdictSame
<1>1. \A d \in Dets : (Unnamed(d)' <=> Unnamed(d)) /\ (Explained(d)' <=> Explained(d))
  BY <1>0 DEF Unnamed, Nameless, Explained
<1>2. Decided'
  BY <1>0 DEF StrangerInv, Decided
<1>3. ASSUME NEW c \in Callers
      PROVE  MatchSound(c)'
  <2>1. MatchSound(c)
    BY DEF StrangerInv
  <2>. QED
    BY <1>1, <2>1, StillMatching DEF MatchSound
<1>4. StrangersExplained'
  <2>1. fresh' => \A d \in Dets : Unnamed(d)' => Explained(d)'
    BY <1>1, StrangersMeaning DEF StrangerInv
  <2>. QED
    BY <2>1 DEF StrangersExplained, Unnamed, Nameless, Explained, Verdict
<1>. QED
  BY <1>2, <1>3, <1>4 DEF StrangerInv

LEMMA TablesSame == ASSUME UNCHANGED tables, NoOrphans PROVE Tables' = Tables /\ NoOrphans'
BY DEF tables, Tables, AllEmbeddings, AllNegatives, NoOrphans

LEMMA StrangerOnDetection ==
    ASSUME TypeInv, StrangerInv, NEW d \in Dets, OnDetection(d)
    PROVE  StrangerInv'
<1>1. Tables' = Tables /\ NoOrphans'
  BY TablesSame DEF OnDetection, StrangerInv
<1>2. \A e \in Dets : Verdict(e)' = Verdict(e)
  BY <1>1, VerdictSame
<1>3. behind \subseteq behind' /\ behind' \subseteq behind \cup {d}
  BY DEF OnDetection
<1>9. \E v : deciding' = [deciding EXCEPT ![d] = v] /\ (d \notin behind' => v = Verdict(d))
  <2>1. CASE \A p \in People : engine.enrolled[p] = NoPool
    <3>1. ScoreProbe(engine, Shows[d]) = None
      BY <2>1 DEF ScoreProbe, Accepts
    <3>2. deciding' = [deciding EXCEPT ![d] = None] /\ (d \notin behind' => engine = Tables)
      BY <2>1 DEF OnDetection
    <3>. QED
      BY <3>1, <3>2 DEF Verdict
  <2>2. CASE ~\A p \in People : engine.enrolled[p] = NoPool
    <3>1. PICK probe \in Probes(d) :
             /\ deciding' = [deciding EXCEPT ![d] = ScoreProbe(engine, probe)]
             /\ d \notin behind' => engine = Tables /\ probe = Shows[d]
      BY <2>2 DEF OnDetection
    <3>. QED
      BY <3>1 DEF Verdict
  <2>. QED
    BY <2>1, <2>2
<1>4. Decided'
  BY <1>2, <1>3, <1>9 DEF OnDetection, StrangerInv, Decided, TypeInv, TypeOK
<1>5. \A e \in Dets : (Unnamed(e)' <=> Unnamed(e)) /\ (Explained(e) => Explained(e)')
  BY <1>2, <1>3 DEF Unnamed, Nameless, Explained, OnDetection
<1>6. ASSUME NEW c \in Callers
      PROVE  MatchSound(c)'
  <2>1. MatchSound(c) /\ UNCHANGED <<rows, jobs, dirty>>
    BY DEF StrangerInv, OnDetection
  <2>. QED
    BY <1>1, <1>5, <2>1 DEF MatchSound, Matching, In
<1>7. fresh' => \A e \in Dets : Unnamed(e)' => Explained(e)'
  BY <1>5, StrangersMeaning DEF StrangerInv, OnDetection
<1>8. StrangersExplained'
  BY <1>7 DEF StrangersExplained, Unnamed, Nameless, Explained, Verdict
<1>. QED
  BY <1>1, <1>4, <1>6, <1>8 DEF StrangerInv

\* The row comes with the verdict: nameless, it is behind or nobody's.
LEMMA StrangerInsert ==
    ASSUME TypeInv, StrangerInv, NEW d \in Dets, InsertDetection(d)
    PROVE  StrangerInv'
<1>1. Tables' = Tables /\ NoOrphans'
  BY TablesSame DEF InsertDetection, StrangerInv
<1>2. \A e \in Dets : Verdict(e)' = Verdict(e)
  BY <1>1, VerdictSame
<1>3. /\ UNCHANGED <<behind, dirty, fresh, jobs>>
      /\ deciding' = [deciding EXCEPT ![d] = Undecided]
      /\ rows' = [rows EXCEPT ![d] = [person |-> deciding[d], emb |-> TRUE, old |-> FALSE]]
      /\ deciding[d] \in People \cup {None} /\ [person |-> deciding[d], emb |-> TRUE, old |-> FALSE] \in Row
      /\ d \notin behind => deciding[d] = Verdict(d)
  BY DEF InsertDetection, TypeInv, TypeOK, Row, StrangerInv, Decided
<1>4. Decided'
  BY <1>2, <1>3 DEF StrangerInv, Decided, TypeInv, TypeOK
<1>5. \A e \in Dets : Unnamed(e)' => Explained(e)' \/ Unnamed(e)
  BY <1>2, <1>3 DEF Unnamed, Nameless, Explained, TypeInv, TypeOK
<1>6. \A e \in Dets : (Explained(e)' <=> Explained(e)) /\ (rows[e] # Absent => rows'[e] # Absent)
  BY <1>2, <1>3, Sentinels DEF Explained, TypeInv, TypeOK
<1>7. ASSUME NEW c \in Callers
      PROVE  MatchSound(c)'
  <2>1. MatchSound(c)
    BY DEF StrangerInv
  <2>2. In(c, "write") => jobs[c].items \subseteq Dets
    BY DEF In, TypeInv, JobsSound, Carries
  <2>. QED
    BY <1>1, <1>3, <1>5, <1>6, <2>1, <2>2 DEF MatchSound, Matching, In
<1>8. fresh' => \A e \in Dets : Unnamed(e)' => Explained(e)'
  BY <1>3, <1>5, <1>6, StrangersMeaning DEF StrangerInv
<1>9. StrangersExplained'
  BY <1>8 DEF StrangersExplained, Unnamed, Nameless, Explained, Verdict
<1>. QED
  BY <1>1, <1>4, <1>7, <1>9 DEF StrangerInv

\* A row that has aged is no longer one that RetroMatch would look at.
LEMMA StrangerAges ==
    ASSUME TypeInv, StrangerInv, NEW d \in Dets, Ages(d)
    PROVE  StrangerInv'
<1>1. Tables' = Tables /\ NoOrphans'
  BY TablesSame DEF Ages, StrangerInv
<1>2. \A e \in Dets : Verdict(e)' = Verdict(e)
  BY <1>1, VerdictSame
<1>3. /\ UNCHANGED <<deciding, behind, dirty, fresh, jobs>>
      /\ rows' = [rows EXCEPT ![d] = [rows[d] EXCEPT !.old = TRUE]]
      /\ rows[d] \in Row /\ [rows[d] EXCEPT !.old = TRUE] \in Row /\ [rows[d] EXCEPT !.old = TRUE].old
  BY DEF Ages, engineState, history, Row
<1>4. /\ \A e \in Dets : rows'[e] = Absent <=> rows[e] = Absent
      /\ \A e \in Dets : Unnamed(e)' => Unnamed(e)
      /\ \A e \in Dets : Explained(e)' <=> Explained(e)
  <2>1. rows'[d].old /\ rows'[d] \in Row /\ \A e \in Dets : e # d => rows'[e] = rows[e]
    BY <1>3 DEF TypeInv, TypeOK
  <2>. QED
    BY <1>2, <1>3, <2>1, Sentinels DEF Unnamed, Nameless, Explained
<1>5. Decided'
  BY <1>2, <1>3, <1>4 DEF StrangerInv, Decided
<1>6. ASSUME NEW c \in Callers
      PROVE  MatchSound(c)'
  <2>1. MatchSound(c)
    BY DEF StrangerInv
  <2>2. In(c, "write") => jobs[c].items \subseteq Dets
    BY DEF In, TypeInv, JobsSound, Carries
  <2>. QED
    BY <1>1, <1>3, <1>4, <2>1, <2>2 DEF MatchSound, Matching, In
<1>7. fresh' => \A e \in Dets : Unnamed(e)' => Explained(e)'
  BY <1>3, <1>4, StrangersMeaning DEF StrangerInv
<1>8. StrangersExplained'
  BY <1>7 DEF StrangersExplained, Unnamed, Nameless, Explained, Verdict
<1>. QED
  BY <1>1, <1>5, <1>6, <1>8 DEF StrangerInv

\* The two reads of a RetroMatch: what it knows, and what there is to name.
LEMMA StrangerReads ==
    ASSUME TypeInv, StrangerInv, NEW c \in Callers, RunRetroMatch(c) \/ ListCandidates(c)
    PROVE  StrangerInv'
<1>1. Tables' = Tables /\ NoOrphans'
  BY TablesSame DEF RunRetroMatch, ListCandidates, StrangerInv
<1>2. \A d \in Dets : Verdict(d)' = Verdict(d)
  BY <1>1, VerdictSame
<1>3. UNCHANGED <<rows, deciding, behind, dirty, fresh>>
  BY DEF RunRetroMatch, ListCandidates, history, engineState
<1>4. \A d \in Dets : (Unnamed(d)' <=> Unnamed(d)) /\ (Explained(d)' <=> Explained(d))
  BY <1>2, <1>3 DEF Unnamed, Nameless, Explained
<1>5. Decided'
  BY <1>2, <1>3 DEF StrangerInv, Decided
<1>6. ASSUME NEW e \in Callers, e # c
      PROVE  MatchSound(e)'
  <2>1. MatchSound(e)
    BY DEF StrangerInv
  <2>2. jobs'[e] = jobs[e]
    BY <1>6 DEF RunRetroMatch, ListCandidates, Then, TypeInv, TypeOK
  <2>. QED
    BY <1>1, <1>3, <1>4, <2>1, <2>2 DEF MatchSound, Matching, In
<1>7. MatchSound(c)'
  <2>1. jobs[c] \in Job /\ MatchSound(c)
    BY DEF RunRetroMatch, ListCandidates, In, TypeInv, TypeOK, StrangerInv
  <2>2. CASE RunRetroMatch(c)
    <3>1. jobs'[c] = [jobs[c] EXCEPT !.phase = "list", !.by = Tables]
      BY <2>2 DEF RunRetroMatch, Then, TypeInv, TypeOK
    <3>2. jobs'[c].phase = "list" /\ jobs'[c].by = Tables
      BY <2>1, <3>1 DEF Job
    <3>. QED
      BY <1>1, <3>2 DEF MatchSound, Matching, In
  <2>3. CASE ListCandidates(c)
    <3>1. jobs'[c] = [jobs[c] EXCEPT !.phase = "write", !.items = Candidates] /\ In(c, "list")
      BY <2>3 DEF ListCandidates, Then, TypeInv, TypeOK
    <3>2. jobs'[c].phase = "write" /\ jobs'[c].by = jobs[c].by /\ jobs'[c].items = Candidates
      BY <2>1, <3>1 DEF Job
    <3>3. \A d \in Dets : (Unnamed(d) => d \in Candidates) /\ (d \in Candidates => rows[d] # Absent)
      BY Sentinels DEF Unnamed, Nameless, Candidates
    <3>4. Candidates \subseteq Dets
      BY DEF Candidates, Nameless
    <3>. QED
      BY <1>1, <1>3, <1>4, <2>1, <3>1, <3>2, <3>3, <3>4 DEF MatchSound, Matching, In
  <2>. QED
    BY <2>2, <2>3
<1>8. fresh' => \A d \in Dets : Unnamed(d)' => Explained(d)'
  BY <1>3, <1>4, StrangersMeaning DEF StrangerInv
<1>9. StrangersExplained'
  BY <1>8 DEF StrangersExplained, Unnamed, Nameless, Explained, Verdict
<1>. QED
  BY <1>1, <1>5, <1>6, <1>7, <1>9 DEF StrangerInv

\* A row is written, or skipped because it has a name.
LEMMA StrangerWrite ==
    ASSUME TypeInv, StrangerInv, NEW c \in Callers, RetroMatch(c)
    PROVE  StrangerInv'
<1>1. Tables' = Tables /\ NoOrphans'
  BY TablesSame DEF RetroMatch, StrangerInv
<1>2. \A d \in Dets : Verdict(d)' = Verdict(d)
  BY <1>1, VerdictSame
<1>3. UNCHANGED <<deciding, dirty, fresh>>
  BY DEF RetroMatch, engineState
<1>4. PICK d \in jobs[c].items :
         /\ ScoreProbe(jobs[c].by, Shows[d]) # None
         /\ Then(c, [jobs[c] EXCEPT !.items = @ \ {d}])
         /\ \/ rows[d] \in Row /\ rows[d].person = None
               /\ rows' = [rows EXCEPT ![d] = [rows[d] EXCEPT !.person = ScoreProbe(jobs[c].by, Shows[d]), !.emb = FALSE]]
            \/ ~(rows[d] \in Row /\ rows[d].person = None) /\ UNCHANGED rows
         /\ behind' = behind \ {d}
  BY DEF RetroMatch
<1>5. jobs[c] \in Job /\ In(c, "write") /\ d \in Dets /\ rows[d] # Absent /\ rows \in [Dets -> Row \cup {Absent}]
  BY <1>4 DEF RetroMatch, In, TypeInv, TypeOK, JobsSound, Carries, StrangerInv, MatchSound
<1>6. /\ rows[d] \in Row
      /\ [rows[d] EXCEPT !.person = ScoreProbe(jobs[c].by, Shows[d]), !.emb = FALSE] \in Row
      /\ [rows[d] EXCEPT !.person = ScoreProbe(jobs[c].by, Shows[d]), !.emb = FALSE].emb = FALSE
  BY <1>5, VerdictTyped DEF Row
<1>7. /\ \A e \in Dets : e # d => rows'[e] = rows[e]
      /\ (rows'[d] # Absent /\ ~rows'[d].emb) \/ (rows'[d] = rows[d] /\ rows[d].person # None)
  <2>1. CASE rows[d].person # None
    BY <1>4, <1>6, <2>1
  <2>2. CASE rows[d].person = None
    <3>1. rows' = [rows EXCEPT ![d] = [rows[d] EXCEPT !.person = ScoreProbe(jobs[c].by, Shows[d]), !.emb = FALSE]]
      BY <1>4, <1>6, <2>2
    <3>2. rows'[d] = [rows[d] EXCEPT !.person = ScoreProbe(jobs[c].by, Shows[d]), !.emb = FALSE]
      BY <1>5, <3>1
    <3>3. rows'[d] # Absent /\ ~rows'[d].emb
      <4>1. rows'[d] \in Row
        BY <1>6, <3>2
      <4>2. rows'[d].emb = FALSE
        BY <1>6, <3>2
      <4>. QED
        BY <4>1, <4>2, Sentinels
    <3>. QED
      BY <1>5, <3>1, <3>3
  <2>. QED
    BY <2>1, <2>2
<1>8. /\ ~Unnamed(d)'
      /\ \A e \in Dets : e # d => (Unnamed(e)' <=> Unnamed(e)) /\ (Explained(e)' <=> Explained(e))
  BY <1>2, <1>4, <1>7 DEF Unnamed, Nameless, Explained
<1>9. \A e \in Dets : rows[e] = Absent <=> rows'[e] = Absent
  BY <1>5, <1>7
<1>10. Decided'
  BY <1>2, <1>3, <1>4, <1>5, <1>9 DEF StrangerInv, Decided
<1>11. ASSUME NEW e \in Callers
       PROVE  MatchSound(e)'
  <2>1. MatchSound(e) /\ (In(e, "write") => jobs[e].items \subseteq Dets)
    BY DEF StrangerInv, TypeInv, JobsSound, Carries, In
  <2>2. CASE e # c
    <3>1. jobs'[e] = jobs[e]
      BY <1>4, <2>2 DEF Then, TypeInv, TypeOK
    <3>. QED
      BY <1>1, <1>3, <1>8, <1>9, <2>1, <3>1 DEF MatchSound, Matching, In
  <2>3. CASE e = c
    <3>1. jobs'[c] = [jobs[c] EXCEPT !.items = @ \ {d}]
      BY <1>4 DEF Then, TypeInv, TypeOK
    <3>2. jobs'[c].phase = "write" /\ jobs'[c].by = jobs[c].by /\ jobs'[c].items = jobs[c].items \ {d}
      BY <1>5, <3>1 DEF Job, In
    <3>. QED
      BY <1>1, <1>3, <1>5, <1>8, <1>9, <2>1, <2>3, <3>2 DEF MatchSound, Matching, In
  <2>. QED
    BY <2>2, <2>3
<1>12. fresh' => \A e \in Dets : Unnamed(e)' => Explained(e)'
  BY <1>3, <1>8, StrangersMeaning DEF StrangerInv
<1>13. StrangersExplained'
  BY <1>12 DEF StrangersExplained, Unnamed, Nameless, Explained, Verdict
<1>. QED
  BY <1>1, <1>10, <1>11, <1>13 DEF StrangerInv

\* It ends: what it leaves nameless the tables would not name, or it was dirty.
LEMMA StrangerEnds ==
    ASSUME TypeInv, StrangerInv, NEW c \in Callers, RetroMatched(c) \/ RetroMatchFails(c)
    PROVE  StrangerInv'
<1>1. Tables' = Tables /\ NoOrphans'
  BY TablesSame DEF RetroMatched, RetroMatchFails, StrangerInv
<1>2. \A d \in Dets : Verdict(d)' = Verdict(d)
  BY <1>1, VerdictSame
<1>3. UNCHANGED <<deciding, rows>> /\ dirty' = dirty \ {c} /\ Finish(c) /\ behind' \subseteq behind
  BY DEF RetroMatched, RetroMatchFails, engineState
<1>4. CASE UNCHANGED <<behind, fresh>>
  <2>1. \A d \in Dets : (Unnamed(d)' <=> Unnamed(d)) /\ (Explained(d)' <=> Explained(d))
    BY <1>2, <1>3, <1>4 DEF Unnamed, Nameless, Explained
  <2>2. Decided'
    BY <1>2, <1>3, <1>4 DEF StrangerInv, Decided
  <2>3. ASSUME NEW e \in Callers
        PROVE  MatchSound(e)'
    <3>1. MatchSound(e)
      BY DEF StrangerInv
    <3>2. jobs'[e] = IF e = c THEN Idle ELSE jobs[e]
      BY <1>3 DEF Finish, TypeInv, TypeOK
    <3>. QED
      BY <1>1, <1>3, <2>1, <3>1, <3>2 DEF MatchSound, Matching, In
  <2>4. fresh' => \A d \in Dets : Unnamed(d)' => Explained(d)'
    BY <1>4, <2>1, StrangersMeaning DEF StrangerInv
  <2>5. StrangersExplained'
    BY <2>4 DEF StrangersExplained, Unnamed, Nameless, Explained, Verdict
  <2>. QED
    BY <1>1, <2>2, <2>3, <2>5 DEF StrangerInv
<1>5. CASE ~UNCHANGED <<behind, fresh>>
  <2>1. /\ In(c, "write") /\ c \notin dirty /\ behind' = behind \ jobs[c].items
        /\ \A d \in jobs[c].items : ScoreProbe(jobs[c].by, Shows[d]) = None
    BY <1>5 DEF RetroMatched, RetroMatchFails
  <2>2. jobs[c].by = Tables /\ MatchSound(c) /\ jobs[c].items \subseteq Dets
    BY <2>1 DEF StrangerInv, MatchSound, Matching, TypeInv, JobsSound, Carries, In
  <2>3. \A d \in jobs[c].items : Verdict(d) = None /\ rows[d] # Absent
    BY <2>1, <2>2 DEF Verdict, MatchSound
  <2>4. \A d \in Dets : (Unnamed(d)' <=> Unnamed(d)) /\ (Explained(d) => Explained(d)')
    BY <1>2, <1>3, <2>1, <2>3 DEF Unnamed, Nameless, Explained
  <2>5. Decided'
    BY <1>2, <1>3, <2>1, <2>3 DEF StrangerInv, Decided
  <2>6. ASSUME NEW e \in Callers
        PROVE  MatchSound(e)'
    <3>1. MatchSound(e)
      BY DEF StrangerInv
    <3>2. jobs'[e] = IF e = c THEN Idle ELSE jobs[e]
      BY <1>3 DEF Finish, TypeInv, TypeOK
    <3>. QED
      BY <1>1, <1>3, <2>4, <3>1, <3>2 DEF MatchSound, Matching, In
  <2>7. \A d \in Dets : Unnamed(d)' => Explained(d)'
    <3>1. \A d \in jobs[c].items : Explained(d)'
      BY <1>2, <2>2, <2>3 DEF Explained
    <3>. QED
      BY <2>1, <2>2, <2>4, <3>1 DEF MatchSound
  <2>8. StrangersExplained'
    BY <2>7 DEF StrangersExplained, Unnamed, Nameless, Explained, Verdict
  <2>. QED
    BY <1>1, <2>5, <2>6, <2>8 DEF StrangerInv
<1>. QED
  BY <1>4, <1>5

\* A person who has just been created has nothing enrolled.
LEMMA CreatedKnowsNone ==
    ASSUME TypeInv, NoOrphans, NEW p \in People, UNCHANGED <<pool, dismissed>>,
           Enrollee(p) \/ HandleCreatePerson(p)
    PROVE  Tables' = Tables /\ NoOrphans'
<1>1. CASE UNCHANGED persons
  BY <1>1, TablesSame DEF tables
<1>2. CASE persons[p] = None /\ persons' = [persons EXCEPT ![p] = "enabled"]
  <2>1. AllEmbeddings' = AllEmbeddings
    BY <1>2, Sentinels DEF AllEmbeddings, NoOrphans, TypeInv, TypeOK
  <2>2. NoOrphans'
    BY <1>2, Sentinels DEF NoOrphans, TypeInv, TypeOK
  <2>. QED
    BY <2>1, <2>2 DEF Tables, AllNegatives
<1>. QED
  BY <1>1, <1>2 DEF Enrollee, HandleCreatePerson

LEMMA OrphansStep == TypeInv /\ NoOrphans /\ [Next]_vars => NoOrphans'
<1>. SUFFICES ASSUME TypeInv, NoOrphans, [Next]_vars PROVE NoOrphans'
  OBVIOUS
<1>1. ASSUME \A p \in People : persons'[p] = None => persons[p] = None /\ pool'[p] = pool[p]
      PROVE  NoOrphans'
  BY <1>1 DEF NoOrphans
<1>2. CASE UNCHANGED tables
  BY <1>1, <1>2 DEF tables
<1>3. ASSUME NEW p \in People, HandleCreatePerson(p) \/ HandleUpdatePerson(p)
      PROVE  NoOrphans'
  BY <1>1, <1>3, Sentinels DEF HandleCreatePerson, HandleUpdatePerson, TypeInv, TypeOK
<1>4. ASSUME NEW p \in People, UNCHANGED pool, Enrollee(p)
      PROVE  NoOrphans'
  BY <1>1, <1>4, Sentinels DEF Enrollee, TypeInv, TypeOK
<1>5. ASSUME NEW p \in People, Exists(p), UNCHANGED persons, \A q \in People : q # p => pool'[q] = pool[q]
      PROVE  NoOrphans'
  BY <1>1, <1>5, Sentinels DEF Exists
<1>6. ASSUME NEW p \in People, NEW S \in SUBSET Enrolled(p), Delete(p, S)
      PROVE  NoOrphans'
  <2>1. \A q \in People, s \in Sources : pool'[q][s] = IF q = p /\ s \in S THEN pool[q][s] - 1 ELSE pool[q][s]
    BY <1>6 DEF Delete, TypeInv, TypeOK
  <2>2. pool \in [People -> Pool] /\ pool' \in [People -> [Sources -> Int]]
    <3>1. \A s \in Sources : pool[p][s] \in Int
      BY PersonsAssumption DEF TypeInv, TypeOK, Pool
    <3>2. [s \in Sources |-> IF s \in S THEN pool[p][s] - 1 ELSE pool[p][s]] \in [Sources -> Int]
      BY <3>1
    <3>3. Pool \subseteq [Sources -> Int]
      BY PersonsAssumption DEF Pool
    <3>. QED
      BY <1>6, <3>2, <3>3 DEF Delete, TypeInv, TypeOK
  <2>3. ASSUME NEW q \in People, persons'[q] = None
        PROVE  pool'[q] = NoPool
    <3>1. pool[q] = NoPool
      BY <1>6, <2>3 DEF Delete, NoOrphans
    <3>2. ~(q = p /\ S # {})
      BY <3>1 DEF Enrolled, NoPool
    <3>3. \A s \in Sources : pool'[q][s] = 0
      BY <2>1, <3>1, <3>2 DEF NoPool
    <3>. QED
      BY <2>2, <3>3 DEF NoPool
  <2>. QED
    BY <2>3 DEF NoOrphans
<1>7. ASSUME NEW c \in Callers, AddEmbeddings(c)
      PROVE  NoOrphans'
  <2>1. PICK p \in People : p = jobs[c].person
    BY <1>7 DEF AddEmbeddings, In, TypeInv, JobsSound, Carries
  <2>2. UNCHANGED pool \/ (References(p) /\ \E e : pool' = [pool EXCEPT ![p] = e])
    BY <1>7, <2>1 DEF AddEmbeddings
  <2>. QED
    BY <1>1, <1>5, <1>7, <2>2 DEF AddEmbeddings, References, TypeInv, TypeOK
<1>8. ASSUME NEW c \in Callers, Erase(c)
      PROVE  NoOrphans'
  BY <1>1, <1>8, Sentinels DEF Erase, TypeInv, TypeOK
<1>9. ASSUME NEW p \in People, HandleAddPersonEmbedding(p)
      PROVE  NoOrphans'
  <2>1. Exists(p) /\ UNCHANGED persons /\ \A q \in People : q # p => pool'[q] = pool[q]
    BY <1>9 DEF HandleAddPersonEmbedding, References, TypeInv, TypeOK
  <2>. QED
    BY <1>5, <2>1
<1>10. CASE \/ UNCHANGED vars \/ LoadFaceEnrolments \/ HandleDismissFaces \/ HandleClusterRunNow
            \/ \E d \in Dets : OnDetection(d) \/ InsertDetection(d) \/ Ages(d)
            \/ \E t \in Tracks : PruneFaceAggs(t)
            \/ \E k \in Clusters : HandleDeleteCluster(k) \/ HandleDismissClusterAsNotAFace(k)
  BY <1>1, <1>10 DEF vars, LoadFaceEnrolments, HandleDismissFaces, HandleClusterRunNow, OnDetection, InsertDetection,
                     Ages, PruneFaceAggs,
                     HandleDeleteCluster, HandleDismissClusterAsNotAFace, tables
<1>11. CASE \E c \in Callers : HandleEnrolCluster(c) \/ HandleUploadEnrol(c)
  BY <1>4, <1>11 DEF HandleEnrolCluster, HandleUploadEnrol
<1>12. CASE \E c \in Callers :
               \/ HandleAddPersonEmbeddingsBulk(c) \/ Gather(c) \/ MarkCluster(c)
               \/ RunRetroMatch(c) \/ ListCandidates(c) \/ RetroMatch(c) \/ RetroMatched(c) \/ RetroMatchFails(c)
               \/ HandleDeletePerson(c)
  BY <1>2, <1>12 DEF HandleAddPersonEmbeddingsBulk, Gather, MarkCluster, RunRetroMatch, ListCandidates,
                     RetroMatch, RetroMatched, RetroMatchFails, HandleDeletePerson
<1>13. CASE \E p \in People : HandleDeletePersonEmbedding(p) \/ HandleBulkDeletePersonEmbeddings(p)
  BY <1>6, <1>13 DEF HandleDeletePersonEmbedding, HandleBulkDeletePersonEmbeddings
<1>. QED
  BY <1>3, <1>7, <1>8, <1>9, <1>10, <1>11, <1>12, <1>13 DEF Next

LEMMA StrangerStep == TypeInv /\ StrangerInv /\ [Next]_vars => StrangerInv'
<1>. SUFFICES ASSUME TypeInv, StrangerInv, [Next]_vars PROVE StrangerInv'
  OBVIOUS
<1>0. NoOrphans /\ NoOrphans' /\ jobs \in [Callers -> Job \cup {Idle}]
  BY OrphansStep DEF StrangerInv, TypeInv, TypeOK
<1>1. ASSUME UNCHANGED jobs
      PROVE  NoneMatches
  BY <1>1 DEF NoneMatches
<1>2. ASSUME NEW c \in Callers, NEW j, Then(c, j), j = Idle \/ j.phase \notin {"list", "write"}
      PROVE  NoneMatches
  BY <1>0, <1>2 DEF Then, NoneMatches
<1>3. ASSUME UNCHANGED <<tables, rows, deciding, behind, dirty, fresh>>, NoneMatches
      PROVE  StrangerInv'
  BY <1>0, <1>3, TablesSame, StrangerSame
<1>4. ASSUME NEW p \in People, Enrollee(p) \/ HandleCreatePerson(p), NoneMatches,
             UNCHANGED <<pool, dismissed, rows, deciding, behind, dirty, fresh>>
      PROVE  StrangerInv'
  BY <1>0, <1>4, CreatedKnowsNone, StrangerSame
<1>5. ASSUME Changed, NoneMatches, UNCHANGED deciding, \A d \in Dets : rows'[d] = Absent <=> rows[d] = Absent
      PROVE  StrangerInv'
  BY <1>0, <1>5, StrangerChanged
<1>6. CASE \/ UNCHANGED vars \/ LoadFaceEnrolments \/ HandleClusterRunNow
           \/ (\E k \in Clusters : HandleDeleteCluster(k)) \/ \E t \in Tracks : PruneFaceAggs(t)
  BY <1>1, <1>3, <1>6 DEF vars, LoadFaceEnrolments, PruneFaceAggs, HandleClusterRunNow, HandleDeleteCluster, tables, history, engineState
<1>7. CASE HandleDismissFaces \/ \E k \in Clusters : HandleDismissClusterAsNotAFace(k)
  BY <1>1, <1>5, <1>7 DEF HandleDismissFaces, HandleDismissClusterAsNotAFace, engineState
<1>8. CASE \E p \in People : HandleCreatePerson(p)
  BY <1>1, <1>4, <1>8 DEF HandleCreatePerson, engineState, history
<1>9. CASE \E p \in People : HandleUpdatePerson(p) \/ HandleAddPersonEmbedding(p)
                                \/ HandleDeletePersonEmbedding(p) \/ HandleBulkDeletePersonEmbeddings(p)
  BY <1>1, <1>5, <1>9 DEF HandleUpdatePerson, HandleAddPersonEmbedding, HandleDeletePersonEmbedding,
                          HandleBulkDeletePersonEmbeddings, Delete, engineState
<1>10. ASSUME NEW c \in Callers, HandleAddPersonEmbeddingsBulk(c)
       PROVE  StrangerInv'
  <2>1. PICK p \in People, items \in SUBSET Listed : Then(c, NewJob("gather", p, items))
    BY <1>10 DEF HandleAddPersonEmbeddingsBulk, Begin, Then
  <2>. QED
    BY <1>2, <1>3, <1>10, <2>1 DEF HandleAddPersonEmbeddingsBulk, NewJob, engineState, history
<1>11. ASSUME NEW c \in Callers, HandleEnrolCluster(c)
       PROVE  StrangerInv'
  <2>1. PICK p \in People, k \in Clusters : Then(c, [NewJob("gather", p, {}) EXCEPT !.cluster = k]) /\ Enrollee(p)
    BY <1>11 DEF HandleEnrolCluster, Begin, Then
  <2>2. NoneMatches
    BY <1>2, <2>1 DEF NewJob
  <2>. QED
    BY <1>4, <1>11, <2>1, <2>2 DEF HandleEnrolCluster, engineState, history
<1>12. ASSUME NEW c \in Callers, HandleUploadEnrol(c)
       PROVE  StrangerInv'
  <2>1. PICK p \in People, s \in Photos : Then(c, NewJob("insert", p, {s})) /\ Enrollee(p)
    BY <1>12 DEF HandleUploadEnrol, Begin, Then
  <2>2. NoneMatches
    BY <1>2, <2>1 DEF NewJob
  <2>. QED
    BY <1>4, <1>12, <2>1, <2>2 DEF HandleUploadEnrol, engineState, history
<1>13. ASSUME NEW c \in Callers, Gather(c)
       PROVE  StrangerInv'
  <2>1. jobs[c] \in Job
    BY <1>0, <1>13 DEF Gather, In
  <2>2. Then(c, Idle) \/ \E keep : Then(c, [jobs[c] EXCEPT !.phase = "insert", !.items = keep])
    BY <1>13 DEF Gather, Finish, Then
  <2>3. \A keep : [jobs[c] EXCEPT !.phase = "insert", !.items = keep].phase = "insert"
    BY <2>1 DEF Job
  <2>4. NoneMatches
    BY <1>2, <2>2, <2>3
  <2>. QED
    BY <1>3, <1>13, <2>4 DEF Gather, engineState, history
<1>14. ASSUME NEW c \in Callers, AddEmbeddings(c)
       PROVE  StrangerInv'
  <2>1. jobs[c] \in Job
    BY <1>0, <1>14 DEF AddEmbeddings, In
  <2>2. Then(c, Idle) \/ Then(c, Retro) \/ Then(c, [jobs[c] EXCEPT !.phase = "mark", !.items = {}])
    BY <1>14 DEF AddEmbeddings, Finish, Then
  <2>3. [jobs[c] EXCEPT !.phase = "mark", !.items = {}].phase = "mark" /\ Retro.phase = "retro"
    BY <2>1 DEF Job, Retro, NewJob
  <2>4. NoneMatches
    BY <1>2, <2>2, <2>3
  <2>5. (UNCHANGED pool /\ Unchanged) \/ Changed
    BY <1>14 DEF AddEmbeddings
  <2>6. UNCHANGED <<persons, dismissed, rows, deciding>>
    BY <1>14 DEF AddEmbeddings, engineState
  <2>. QED
    BY <1>3, <1>5, <2>4, <2>5, <2>6 DEF tables, Unchanged
<1>15. ASSUME NEW c \in Callers, MarkCluster(c)
       PROVE  StrangerInv'
  <2>1. Then(c, Idle) \/ Then(c, Retro)
    BY <1>15 DEF MarkCluster, Finish, Then
  <2>2. NoneMatches
    BY <1>2, <2>1 DEF Retro, NewJob
  <2>. QED
    BY <1>3, <1>15, <2>2 DEF MarkCluster, engineState, history
<1>16. ASSUME NEW c \in Callers, HandleDeletePerson(c)
       PROVE  StrangerInv'
  <2>1. PICK p \in People : Then(c, NewJob("erase", p, {}))
    BY <1>16 DEF HandleDeletePerson, Begin, Then
  <2>. QED
    BY <1>2, <1>3, <1>16, <2>1 DEF HandleDeletePerson, NewJob, engineState, history
<1>17. ASSUME NEW c \in Callers, Erase(c)
       PROVE  StrangerInv'
  <2>1. NoneMatches
    BY <1>2, <1>17 DEF Erase, Finish, Then
  <2>2. \A r \in Row : [r EXCEPT !.person = None, !.emb = FALSE] # Absent
    <3>1. \A r \in Row : [r EXCEPT !.person = None, !.emb = FALSE] \in Row
      BY DEF Row
    <3>. QED
      BY <3>1, Sentinels
  <2>3. \A d \in Dets : rows'[d] = Absent <=> rows[d] = Absent
    BY <1>17, <2>2, Sentinels DEF Erase, Strip
  <2>. QED
    BY <1>5, <1>17, <2>1, <2>3 DEF Erase, engineState
<1>. QED
  BY <1>6, <1>7, <1>8, <1>9, <1>10, <1>11, <1>12, <1>13, <1>14, <1>15, <1>16, <1>17,
     StrangerOnDetection, StrangerInsert, StrangerAges, StrangerReads, StrangerWrite, StrangerEnds DEF Next

\* Once a RetroMatch has completed and nothing has changed since, no row is left
\* nameless that the tables would name, but those
\* inserted on older knowledge or by the mean of their track.
THEOREM StrangersAlwaysExplained == Spec => []StrangersExplained
<1>1. TypeInv /\ StrangerInv /\ [Next]_vars => (TypeInv /\ StrangerInv)'
  BY TypeStep, StrangerStep
<1>2. Spec => [](TypeInv /\ StrangerInv)
  BY InitTypes, StrangerInit, <1>1, PTL DEF Spec
<1>3. StrangerInv => StrangersExplained
  BY DEF StrangerInv
<1>. QED
  BY <1>2, <1>3, PTL
=============================================================================
