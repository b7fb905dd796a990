------------------------------- MODULE Persons -------------------------------
(***************************************************************************)
(* Known persons and the faces enrolled for them (persons/*.go and their   *)
(* handlers), the rows of detected faces, and the two matchers that name   *)
(* them: the engine, at the insert, from a snapshot of the tables, and     *)
(* RetroMatch, after an enrolment.  The engine scores the mean of what the *)
(* track has shown so far, RetroMatch the embedding of the row itself.  An *)
(* embedding is a face and cosines are percentages given by Sim.  A        *)
(* statement or a transaction is one step, and so are the consecutive      *)
(* reads of one function; labels and the other texts are left out, a row's *)
(* label being written with its person_id.                                 *)
(***************************************************************************)
EXTENDS Integers, FiniteSets, FiniteSetsExt, Functions

CONSTANTS
    People,     \* persons.id: uuids, never used twice
    Dets,       \* detections.id of face rows
    Photos,     \* uploaded photos
    Faces,
    Shows,      \* the face of a detection or photo
    Sim,        \* cosine of two faces, in percent
    Tracks,     \* camera and tracker id of faces
    TrackOf,    \* the track of a detection, or None
    Blends,     \* [old mean, face -> the means the track may have then]
    Seen,       \* what the tracks may have shown before
    LowQuality, \* detections whose signals fail the enrolment gates
    Threshold, Margin, NegWeight, DedupSim, MaxPerAction,
    Clusters,   \* face_clusters.id
    Callers,    \* requests that may be in progress at one time
    Starts,     \* the photos enrolled at the start for the persons there are
    None, Gone, Absent, Undecided, Idle,
    MaxCopies,  \* bound on the rows of one source in a pool
    MaxRequests \* bound on requests, rows that age and tracks that end

Sources == Dets \cup Photos
NoPool == [s \in Sources |-> 0]
Pool == [Sources -> 0..MaxCopies]

\* What a matcher knows: the pools of the enabled persons, and the negatives.
Knowledge == [enrolled : [People -> Pool], negatives : SUBSET Faces]

\* A row: the person written by a match, the embedding that is kept, and whether
\* it is older than the week RetroMatch and the clustering look back.
Row == [person : People \cup {None}, emb : BOOLEAN, old : BOOLEAN]

Cluster == [members : SUBSET Dets, person : People \cup {None}]

\* An enrolment, a RetroMatch or an erasure in progress.
Job == [phase : {"gather", "insert", "mark", "retro", "list", "write", "erase"},
        person : People \cup {None}, items : SUBSET Sources, cluster : Clusters \cup {None},
        by : Knowledge \cup {None}]

\* Dup holds of a face and itself (NearDupSim is clamped below 1), what is
\* enrolled at the start has been pruned, and the model values are no data.
ASSUME PersonsAssumption ==
    /\ IsFiniteSet(Sources) /\ Dets \cap Photos = {}
    /\ Shows \in [Sources -> Faces]
    /\ Sim \in [Faces \X Faces -> 0..100]
    /\ \A f \in Faces : Sim[<<f, f>>] = 100
    /\ \A f, g \in Faces : Sim[<<f, g>>] = Sim[<<g, f>>]
    /\ TrackOf \in [Dets -> Tracks \cup {None}] /\ None \notin Tracks \cup Faces
    /\ Blends \in [Faces \X Faces -> SUBSET Faces] /\ Seen \subseteq [Tracks -> Faces \cup {None}]
    /\ LowQuality \subseteq Dets /\ Starts \subseteq [People -> (SUBSET Photos) \cup {None}]
    /\ {Threshold, Margin, NegWeight, DedupSim, MaxPerAction, MaxCopies, MaxRequests} \subseteq Nat
    /\ Margin > 0 /\ DedupSim < 100 /\ MaxCopies > 0
    /\ \A start \in Starts, p \in People : start[p] # None =>
          \A s, t \in start[p] : s # t => Sim[<<Shows[s], Shows[t]>>] <= DedupSim
    /\ {None, Gone, Absent, Undecided, Idle} \cap (People \cup Clusters) = {}
    /\ Gone \notin {None, Absent, "enabled", "disabled"} /\ None \notin {Undecided, "enabled", "disabled"}
    /\ Absent \notin Row \cup Cluster /\ Gone \notin Cluster /\ Idle \notin Job

VARIABLES
    persons,    \* [person -> None, "enabled", "disabled" or Gone]
    pool,       \* face_embeddings: [person -> [source -> number of rows]]
    rows,       \* detections
    dismissed,  \* face_dismissals: [detection -> None, "negative" or "hidden"]
    clusters,   \* face_clusters with their members
    engine,     \* the engine's snapshot
    faceAggs,   \* the engine's mean of each track, None if it has none
    deciding,   \* the engine's verdict on a detection it has yet to insert
    jobs,       \* [caller -> job]
    late,       \* history: rows named after a person who was gone by then
    behind,     \* history: rows whose verdict was not made from the tables as they are,
                \* or of a mean other than the embedding of the row
    dirty,      \* history: callers whose RetroMatch began before the last change
    fresh,      \* history: a RetroMatch has completed since the last change
    unpruned,   \* history: persons enrolled without pruning, or by two requests at a time
    requests

tables  == <<persons, pool, dismissed>>
history == <<late, behind, dirty, fresh, unpruned>>
vars == <<tables, rows, clusters, engine, faceAggs, deciding, jobs, history, requests>>

TypeOK ==
    /\ persons \in [People -> {None, "enabled", "disabled", Gone}]
    /\ pool \in [People -> Pool]
    /\ rows \in [Dets -> Row \cup {Absent}]
    /\ dismissed \in [Dets -> {None, "negative", "hidden"}]
    /\ clusters \in [Clusters -> Cluster \cup {Absent, Gone}]
    /\ engine \in Knowledge
    /\ faceAggs \in [Tracks -> Faces \cup {None}]
    /\ deciding \in [Dets -> People \cup {None, Undecided}]
    /\ jobs \in [Callers -> Job \cup {Idle}]
    /\ late \subseteq Dets /\ behind \subseteq Dets /\ dirty \subseteq Callers
    /\ fresh \in BOOLEAN /\ unpruned \subseteq People
    /\ requests \in Nat

-----------------------------------------------------------------------------
\* The score of a pool for a face: the mean of its best three cosines, times six.
TopK == [e \in Pool, f \in Faces |->
    LET k == Min({3, SumFunction(e)})
        votes == {v \in Pool : (\A s \in Sources : v[s] <= e[s]) /\ SumFunction(v) = k}
    IN  IF k = 0 THEN 0
        ELSE (6 \div k) * Max({SumFunction([s \in Sources |-> v[s] * Sim[<<f, Shows[s]>>]]) : v \in votes})]

\* A face is a person's if their pool clears the threshold, beats every other
\* person's by the margin, and no negative withdraws the match.
Accepts(k, f, p) ==
    LET score == TopK[k.enrolled[p], f]
    IN  /\ k.enrolled[p] # NoPool
        /\ score >= 6 * Threshold
        /\ \A q \in People \ {p} : k.enrolled[q] # NoPool => score - TopK[k.enrolled[q], f] >= 6 * Margin
        /\ \A g \in k.negatives : score - 6 * NegWeight * Sim[<<f, g>>] >= 6 * Threshold

ScoreProbe(k, f) ==
    LET best == {p \in People : Accepts(k, f, p)}
    IN  IF best = {} THEN None ELSE CHOOSE p \in best : TRUE

AllEmbeddings == [p \in People |-> IF persons[p] = "enabled" THEN pool[p] ELSE NoPool]

\* Of the dismissals, those that carry training signal.
AllNegatives == {Shows[d] : d \in {e \in Dets : dismissed[e] = "negative"}}

Tables == [enrolled |-> AllEmbeddings, negatives |-> AllNegatives]

Exists(p) == persons[p] \in {"enabled", "disabled"}

\* The foreign key of face_embeddings and of face_clusters, left out.
ReferencesUnchecked(p) == TRUE

\* The foreign key of face_embeddings and of face_clusters.
References(p) == Exists(p)

-----------------------------------------------------------------------------
\* Whether one source is a near-duplicate of another.
Dup(s, t) == Sim[<<Shows[s], Shows[t]>>] > DedupSim

Enrolled(p) == {s \in Sources : pool[p][s] > 0}

\* The candidates that repeat nothing in the person's pool.
New(existing, items) == {s \in items : \A t \in existing : ~Dup(s, t)}

\* Pruning against the pool only.
PruneAgainstPool(existing, items) == {New(existing, items)}

\* PruneEnrolBatch: what it may keep of the candidates, whatever their order.
\* Nothing kept repeats the pool or itself; nothing is left out but a repeat,
\* unless the cap is reached.
PruneEnrolBatch(existing, items) ==
    LET news == New(existing, items)
    IN  {keep \in SUBSET news :
            /\ \A s, t \in keep : s # t => ~Dup(s, t)
            /\ Cardinality(keep) <= MaxPerAction
            /\ Cardinality(keep) < MaxPerAction => \A s \in news \ keep : \E t \in keep : Dup(s, t)}

\* filterEnrolQuality rejects the rows that fail; it fails open.
FilterEnrolQuality(items) == {items \ LowQuality, items}

-----------------------------------------------------------------------------
\* The rows of nobody that have their embedding and are not too old.
Nameless == {d \in Dets : rows[d] # Absent /\ rows[d].person = None /\ rows[d].emb /\ ~rows[d].old}

\* The rows RetroMatch looks at, but for the ones that are dismissed.
CandidatesShown == {d \in Nameless : dismissed[d] = None}

\* The rows RetroMatch looks at.  Rows of an older embedding model are no
\* candidates either; no row of the model is one, since all are new.
Candidates == Nameless

\* One more request; a job begins, goes on and ends.
Count == requests < MaxRequests /\ requests' = requests + 1
NewJob(phase, p, items) == [phase |-> phase, person |-> p, items |-> items, cluster |-> None, by |-> None]
Retro == NewJob("retro", None, {})
Begin(c, job) == jobs[c] = Idle /\ jobs' = [jobs EXCEPT ![c] = job]
In(c, phase) == jobs[c] # Idle /\ jobs[c].phase = phase
Finish(c) == jobs' = [jobs EXCEPT ![c] = Idle]
Then(c, job) == jobs' = [jobs EXCEPT ![c] = job]

\* The tables the matchers read have changed.
Changed ==
    /\ behind' = behind \cup {d \in Dets : deciding[d] # Undecided}
    /\ dirty' = {c \in Callers : In(c, "list") \/ In(c, "write")}
    /\ fresh' = FALSE
Unchanged == UNCHANGED <<behind, dirty, fresh>>

engineState == <<engine, faceAggs, deciding>>

-----------------------------------------------------------------------------
\* The engine's reload.  One that reads and stores later leaves the engine with
\* old knowledge, as one does that took place when it read.
LoadFaceEnrolments ==
    /\ engine # Tables /\ engine' = Tables
    /\ UNCHANGED <<tables, rows, clusters, faceAggs, deciding, jobs, history, requests>>

\* aggregateFaceProbe: what a face counts for is the mean of its track with the
\* face folded in; the first face of a track and one of no track count for
\* themselves.
Probes(d) ==
    LET t == TrackOf[d]
    IN  IF t = None THEN {Shows[d]}
        ELSE IF faceAggs[t] = None THEN {Shows[d]} ELSE Blends[<<faceAggs[t], Shows[d]>>]

\* onDetection decides whose face it is, unless nobody is enrolled ...
OnDetection(d) ==
    /\ rows[d] = Absent /\ deciding[d] = Undecided
    /\ \/ /\ \A p \in People : engine.enrolled[p] = NoPool
          /\ deciding' = [deciding EXCEPT ![d] = None]
          /\ behind' = IF engine = Tables THEN behind ELSE behind \cup {d}
          /\ UNCHANGED faceAggs
       \/ \E p \in People, probe \in Probes(d) :
          /\ engine.enrolled[p] # NoPool
          /\ deciding' = [deciding EXCEPT ![d] = ScoreProbe(engine, probe)]
          /\ behind' = IF engine = Tables /\ probe = Shows[d] THEN behind ELSE behind \cup {d}
          /\ faceAggs' = IF TrackOf[d] = None THEN faceAggs ELSE [faceAggs EXCEPT ![TrackOf[d]] = probe]
    /\ UNCHANGED <<tables, rows, clusters, engine, jobs, late, dirty, fresh, unpruned, requests>>

\* pruneFaceAggs forgets a track that has shown nothing for a minute.
PruneFaceAggs(t) ==
    /\ Count /\ faceAggs[t] # None
    /\ faceAggs' = [faceAggs EXCEPT ![t] = None]
    /\ UNCHANGED <<tables, rows, clusters, engine, deciding, jobs, history>>

\* A row has been named; its person may have gone in the meantime.
Named(d, p) == late' = IF p # None /\ persons[p] = Gone THEN late \cup {d} ELSE late

\* ... and inserts the row, which keeps the embedding either way.
InsertDetection(d) ==
    /\ deciding[d] # Undecided
    /\ rows' = [rows EXCEPT ![d] = [person |-> deciding[d], emb |-> TRUE, old |-> FALSE]]
    /\ deciding' = [deciding EXCEPT ![d] = Undecided]
    /\ Named(d, deciding[d])
    /\ UNCHANGED <<tables, clusters, engine, faceAggs, jobs, behind, dirty, fresh, unpruned, requests>>

\* A week has gone by.
Ages(d) ==
    /\ Count /\ rows[d] \in Row /\ ~rows[d].old
    /\ rows' = [rows EXCEPT ![d] = [@ EXCEPT !.old = TRUE]]
    /\ UNCHANGED <<tables, clusters, engineState, jobs, history>>

-----------------------------------------------------------------------------
\* The rows some operator's page may have loaded, embedding and all: a page
\* stays open, and every row has its embedding when it is inserted.
Listed == {d \in Dets : rows[d] \in Row}

HandleCreatePerson(p) ==
    /\ Count /\ persons[p] = None
    /\ persons' = [persons EXCEPT ![p] = "enabled"]
    /\ UNCHANGED <<pool, dismissed, rows, clusters, engineState, jobs, history>>

HandleUpdatePerson(p) ==
    /\ Count /\ Exists(p)
    /\ persons' = [persons EXCEPT ![p] = IF @ = "enabled" THEN "disabled" ELSE "enabled"]
    /\ Changed
    /\ UNCHANGED <<pool, dismissed, rows, clusters, engineState, jobs, late, unpruned>>

\* One embedding as it is: no gate, no pruning, no RetroMatch.
HandleAddPersonEmbedding(p) ==
    \E s \in Listed :
        /\ Count /\ References(p) /\ pool[p][s] < MaxCopies
        /\ pool' = [pool EXCEPT ![p][s] = @ + 1]
        /\ unpruned' = unpruned \cup {p}
        /\ Changed
        /\ UNCHANGED <<persons, dismissed, rows, clusters, engineState, jobs, late>>

\* One row of each source is gone.
Delete(p, S) ==
    /\ pool' = [pool EXCEPT ![p] = [s \in Sources |-> IF s \in S THEN @[s] - 1 ELSE @[s]]]
    /\ Changed
    /\ UNCHANGED <<persons, dismissed, rows, clusters, engineState, jobs, late, unpruned>>

HandleDeletePersonEmbedding(p) == Count /\ \E s \in Enrolled(p) : Delete(p, {s})

HandleBulkDeletePersonEmbeddings(p) == Count /\ \E S \in SUBSET Enrolled(p) : Cardinality(S) > 1 /\ Delete(p, S)

\* A dismissal, whose reason replaces an earlier one.
HandleDismissFaces ==
    \E d \in Listed, reason \in {"negative", "hidden"} :
        /\ Count
        /\ dismissed' = [dismissed EXCEPT ![d] = reason]
        /\ Changed
        /\ UNCHANGED <<persons, pool, rows, clusters, engineState, jobs, late, unpruned>>

-----------------------------------------------------------------------------
\* The person an enrolment is for: one that the page knows, or a new one,
\* whose row stays whatever becomes of the enrolment.
Enrollee(p) ==
    \/ persons[p] # None /\ UNCHANGED persons
    \/ persons[p] = None /\ persons' = [persons EXCEPT ![p] = "enabled"]

HandleAddPersonEmbeddingsBulk(c) ==
    \E p \in People, items \in SUBSET Listed :
        /\ Count /\ persons[p] # None /\ items # {}
        /\ Begin(c, NewJob("gather", p, items))
        /\ UNCHANGED <<tables, rows, clusters, engineState, history>>

HandleEnrolCluster(c) ==
    \E p \in People, k \in Clusters :
        /\ Count /\ clusters[k] # Absent
        /\ Enrollee(p)
        /\ Begin(c, [NewJob("gather", p, {}) EXCEPT !.cluster = k])
        /\ UNCHANGED <<pool, dismissed, rows, clusters, engineState, history>>

\* An upload has its face from the ml-worker; it is neither gated nor pruned.
HandleUploadEnrol(c) ==
    \E p \in People, s \in Photos :
        /\ Count
        /\ Enrollee(p)
        /\ Begin(c, NewJob("insert", p, {s}))
        /\ UNCHANGED <<pool, dismissed, rows, clusters, engineState, history>>

\* The members of the job's cluster, or the items of its body.
Offered(job) ==
    IF job.cluster = None THEN job.items
    ELSE IF clusters[job.cluster] = Gone THEN {} ELSE clusters[job.cluster].members

\* AddEmbeddingsBulk reads the rows' quality and the pool, and prunes.
Gather(c) ==
    /\ In(c, "gather")
    /\ IF Offered(jobs[c]) = {} THEN Finish(c)
       ELSE \E valid \in FilterEnrolQuality(Offered(jobs[c])) :
            \E keep \in PruneEnrolBatch(Enrolled(jobs[c].person), valid) :
               Then(c, [jobs[c] EXCEPT !.phase = "insert", !.items = keep])
    /\ UNCHANGED <<tables, rows, clusters, engineState, history, requests>>

\* Another request has read the person's pool and has yet to add to it.
Overlap(c) == \E d \in Callers \ {c} : In(d, "insert") /\ jobs[d].person = jobs[c].person

\* The rows of one enrolment, in one transaction.
AddEmbeddings(c) ==
    LET p == jobs[c].person
        new == jobs[c].items
        next == IF jobs[c].cluster = None THEN Retro ELSE [jobs[c] EXCEPT !.phase = "mark", !.items = {}]
    IN  /\ In(c, "insert")
        /\ \/ /\ new = {} /\ Then(c, next)
              /\ UNCHANGED <<pool, unpruned>> /\ Unchanged
           \/ /\ new # {} /\ References(p) /\ \A s \in new : pool[p][s] < MaxCopies
              /\ pool' = [pool EXCEPT ![p] = [s \in Sources |-> IF s \in new THEN @[s] + 1 ELSE @[s]]]
              /\ unpruned' = IF new \cap Photos # {} \/ Overlap(c) THEN unpruned \cup {p} ELSE unpruned
              /\ Then(c, next) /\ Changed
           \/ /\ new # {} /\ ~References(p) /\ Finish(c)
              /\ UNCHANGED <<pool, unpruned>> /\ Unchanged
        /\ UNCHANGED <<persons, dismissed, rows, clusters, engineState, late, requests>>

\* AssignClusterToPerson marks the cluster, if it is still there.
MarkCluster(c) ==
    LET k == jobs[c].cluster
        p == jobs[c].person
    IN  /\ In(c, "mark")
        /\ \/ clusters[k] = Gone /\ Then(c, Retro) /\ UNCHANGED clusters
           \/ clusters[k] # Gone /\ References(p) /\ Then(c, Retro)
                 /\ clusters' = [clusters EXCEPT ![k].person = p]
           \/ clusters[k] # Gone /\ ~References(p) /\ Finish(c) /\ UNCHANGED clusters
        /\ UNCHANGED <<tables, rows, engineState, history, requests>>

-----------------------------------------------------------------------------
\* RetroMatch reads the enrolments and the negatives, ...
RunRetroMatch(c) ==
    /\ In(c, "retro")
    /\ Then(c, [jobs[c] EXCEPT !.phase = "list", !.by = Tables])
    /\ UNCHANGED <<tables, rows, clusters, engineState, history, requests>>

\* ... then the candidates, ...
ListCandidates(c) ==
    /\ In(c, "list")
    /\ Then(c, [jobs[c] EXCEPT !.phase = "write", !.items = Candidates])
    /\ UNCHANGED <<tables, rows, clusters, engineState, history, requests>>

\* ... writes the accepted ones that are still nobody's, one by one, ...
RetroMatch(c) ==
    /\ In(c, "write")
    /\ \E d \in jobs[c].items :
        LET p == ScoreProbe(jobs[c].by, Shows[d])
        IN  /\ p # None
            /\ Then(c, [jobs[c] EXCEPT !.items = @ \ {d}])
            /\ IF rows[d] \in Row /\ rows[d].person = None
               THEN rows' = [rows EXCEPT ![d] = [@ EXCEPT !.person = p, !.emb = FALSE]] /\ Named(d, p)
               ELSE UNCHANGED <<rows, late>>
            /\ behind' = behind \ {d}
    /\ UNCHANGED <<tables, clusters, engineState, dirty, fresh, unpruned, requests>>

\* ... and is done.
RetroMatched(c) ==
    /\ In(c, "write")
    /\ \A d \in jobs[c].items : ScoreProbe(jobs[c].by, Shows[d]) = None
    /\ Finish(c)
    /\ IF c \in dirty THEN UNCHANGED <<behind, fresh>>
       ELSE behind' = behind \ jobs[c].items /\ fresh' = TRUE
    /\ dirty' = dirty \ {c}
    /\ UNCHANGED <<tables, rows, clusters, engineState, late, unpruned, requests>>

\* A query fails, and the rest of the RetroMatch is not done.
RetroMatchFails(c) ==
    /\ In(c, "list") \/ In(c, "write")
    /\ Finish(c)
    /\ dirty' = dirty \ {c}
    /\ UNCHANGED <<tables, rows, clusters, engineState, late, behind, fresh, unpruned, requests>>

-----------------------------------------------------------------------------
\* Erase reads the person's label, and the rows whose crops it removes ...
HandleDeletePerson(c) ==
    \E p \in People :
        /\ Count /\ Exists(p)
        /\ Begin(c, NewJob("erase", p, {}))
        /\ UNCHANGED <<tables, rows, clusters, engineState, history>>

\* The person's name and embedding taken off the rows enrolled for it only.
StripEnrolled(p) == [d \in Dets |->
    IF rows[d] \in Row /\ pool[p][d] > 0 THEN [rows[d] EXCEPT !.person = None, !.emb = FALSE] ELSE rows[d]]

\* The person's name and embedding taken off every row that carries them.
Strip(p) == [d \in Dets |->
    IF rows[d] \in Row /\ rows[d].person = p THEN [rows[d] EXCEPT !.person = None, !.emb = FALSE] ELSE rows[d]]

\* ... and removes the person and all that refers to it, in one transaction.
Erase(c) ==
    LET p == jobs[c].person
    IN  /\ In(c, "erase")
        /\ rows' = Strip(p)
        /\ pool' = [pool EXCEPT ![p] = NoPool]
        /\ persons' = [persons EXCEPT ![p] = Gone]
        /\ clusters' = [k \in Clusters |->
               IF clusters[k] \in Cluster /\ clusters[k].person = p THEN [clusters[k] EXCEPT !.person = None] ELSE clusters[k]]
        /\ Changed /\ Finish(c)
        /\ UNCHANGED <<dismissed, engineState, late, unpruned, requests>>

-----------------------------------------------------------------------------
HandleDeleteCluster(k) ==
    /\ Count /\ clusters[k] \in Cluster
    /\ clusters' = [clusters EXCEPT ![k] = Gone]
    /\ UNCHANGED <<tables, rows, engineState, jobs, history>>

HandleDismissClusterAsNotAFace(k) ==
    /\ Count /\ clusters[k] \in Cluster
    /\ dismissed' = [d \in Dets |-> IF d \in clusters[k].members THEN "negative" ELSE dismissed[d]]
    /\ clusters' = [clusters EXCEPT ![k] = Gone]
    /\ Changed
    /\ UNCHANGED <<persons, pool, rows, engineState, jobs, late, unpruned>>

\* The ml-worker groups the nameless rows anew, in one transaction; it keeps
\* or replaces the clusters nobody has enrolled and drops those left empty.
HandleClusterRunNow ==
    /\ LET free == {k \in Clusters : clusters[k] = Absent \/ (clusters[k] \in Cluster /\ clusters[k].person = None)}
       IN  \E group \in [Candidates -> free \cup {None}] :
            /\ clusters' = [k \in Clusters |->
                  LET members == {d \in Candidates : group[d] = k}
                  IN  IF k \notin free THEN clusters[k]
                      ELSE IF members # {} THEN [members |-> members, person |-> None]
                      ELSE IF clusters[k] = Absent THEN Absent ELSE Gone]
            /\ clusters' # clusters
    /\ UNCHANGED <<tables, rows, engineState, jobs, history, requests>>

-----------------------------------------------------------------------------
Init ==
    /\ \E start \in Starts :
          /\ persons = [p \in People |-> IF start[p] = None THEN None ELSE "enabled"]
          /\ pool = [p \in People |-> [s \in Sources |->
                       IF start[p] # None /\ s \in start[p] THEN 1 ELSE 0]]
    /\ rows = [d \in Dets |-> Absent]
    /\ dismissed = [d \in Dets |-> None]
    /\ clusters = [k \in Clusters |-> Absent]
    /\ engine = Tables /\ faceAggs \in Seen
    /\ deciding = [d \in Dets |-> Undecided]
    /\ jobs = [c \in Callers |-> Idle]
    /\ late = {} /\ behind = {} /\ dirty = {} /\ fresh = FALSE /\ unpruned = {}
    /\ requests = 0

Next ==
    \/ LoadFaceEnrolments
    \/ \E d \in Dets : OnDetection(d) \/ InsertDetection(d) \/ Ages(d)
    \/ \E t \in Tracks : PruneFaceAggs(t)
    \/ HandleDismissFaces \/ HandleClusterRunNow
    \/ \E p \in People :
        \/ HandleCreatePerson(p) \/ HandleUpdatePerson(p)
        \/ HandleAddPersonEmbedding(p) \/ HandleDeletePersonEmbedding(p) \/ HandleBulkDeletePersonEmbeddings(p)
    \/ \E c \in Callers :
        \/ HandleAddPersonEmbeddingsBulk(c) \/ HandleEnrolCluster(c) \/ HandleUploadEnrol(c)
        \/ Gather(c) \/ AddEmbeddings(c) \/ MarkCluster(c)
        \/ RunRetroMatch(c) \/ ListCandidates(c) \/ RetroMatch(c) \/ RetroMatched(c) \/ RetroMatchFails(c)
        \/ HandleDeletePerson(c) \/ Erase(c)
    \/ \E k \in Clusters : HandleDeleteCluster(k) \/ HandleDismissClusterAsNotAFace(k)

Spec == Init /\ [][Next]_vars

-----------------------------------------------------------------------------
\* An erased person is gone from the enrolment and from the clusters, and from
\* every row but those that a match begun before the erasure has written after
\* it: an enrolment that overlaps the erasure brings nothing back.
ErasureHolds ==
    \A p \in People : persons[p] = Gone =>
        /\ pool[p] = NoPool
        /\ \A k \in Clusters : clusters[k] \in Cluster => clusters[k].person # p
        /\ \A d \in Dets : rows[d] \in Row /\ rows[d].person = p => d \in late

\* "The review queue keeps showing a now-known person as a stranger" is over
\* once a RetroMatch has completed and nothing has changed since: a nameless
\* row of the last week that the tables would name is one that the engine has
\* inserted meanwhile, on older knowledge or by the mean of its track.
StrangersExplained ==
    fresh => \A d \in Nameless : d \in behind \/ ScoreProbe(Tables, Shows[d]) = None

\* "Keeps only candidates that are genuinely new": a pool holds no two
\* near-duplicates, unless one was added by itself or two enrolments overlapped.
DiversePool ==
    \A p \in People \ unpruned :
        /\ \A s \in Sources : pool[p][s] <= 1
        /\ \A s, t \in Enrolled(p) : s # t => ~Dup(s, t)
=============================================================================
