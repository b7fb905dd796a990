----------------------------- MODULE Recordings -----------------------------
(***************************************************************************)
(* The recordings on disk and the rows about them: storage-manager's tick  *)
(* (apps/storage-manager/internal/lifecycle/lifecycle.go), which indexes   *)
(* MediaMTX's files and purges them by retention, quota and disk pressure, *)
(* and event-processor's sidecar writer                                    *)
(* (apps/event-processor/internal/sidecar/writer.go), which appends the    *)
(* detections of a segment to a file beside it.                            *)
(*                                                                         *)
(* Segments are numbered in the order they were started; sizes are units   *)
(* that also stand for the time recorded.  A tick's index pass is one      *)
(* step, since nothing else removes videos or writes sizes; a purge is one *)
(* step for the two files and one for the row.                             *)
(***************************************************************************)
EXTENDS Integers, SequencesExt

CONSTANTS
    Cameras,
    Segs,           \* 1 .. n, in the order of started_at
    CamOf,          \* [segment -> camera]
    Detecting,      \* cameras with a detector
    Full,           \* the size of a closed segment
    Quota,          \* [camera -> units]: quota_gb
    Capacity,       \* what fits on the disk above the free-space floor
    Batch,          \* disk pressure looks again after so many files
    MaxFailures,    \* bound: failing system calls and statements, restarts
    MaxDetections,  \* bound: detections
    MaxEdits,       \* bound: segments protected, cameras deleted
    None

ASSUME RecordingsAssumption ==
    /\ Segs \subseteq Nat /\ IsFiniteSet(Segs)
    /\ CamOf \in [Segs -> Cameras]
    /\ Quota \in [Cameras -> Nat]
    /\ {Full, Capacity, Batch, MaxFailures, MaxDetections, MaxEdits} \subseteq Nat
    /\ Full > 0 /\ Batch > 0
    /\ Detecting \subseteq Cameras
    /\ None \notin Segs

VARIABLES
    cameras,    \* the cameras table
    open,       \* [camera -> the segment MediaMTX records into]
    started,    \* segments whose recording began
    file,       \* [segment -> size of its mp4, 0 when there is none]
    row,        \* [segment -> its row in segments]
    expired,    \* segments older than their camera's retention_days
    memo,       \* Manager.indexed: [segment -> size at the last upsert, or 0]
    phase,      \* the pass of the tick
    todo,       \* what the pass has still to look at, in order: [seg, size]
    seen,       \* the segment whose files are gone and whose row is next
    over,       \* quota: the cameras still to be looked at, [cam, total]
    tally,      \* quota: total;  disk pressure: dropped
    sidecar,    \* segments with a .jsonl file
    fd,         \* [segment -> the writer's open file]
    cache,      \* segmentCache: [camera -> [seg, end]]
    detections, \* detections so far
    pending,    \* Writer.pending
    edits,      \* operators' edits so far
    failures,   \* failures so far
    history     \* [what -> segments]: see below

managerVars == <<memo, phase, todo, seen, over, tally>>
writerVars == <<fd, cache, detections, pending>>
diskVars == <<cameras, open, started, file, row, expired, edits>>
vars == <<diskVars, managerVars, writerVars, sidecar, failures, history>>

Det == [seg : Segs, at : 1 .. Full]
Row == [bytes : 0 .. Full, protected : BOOLEAN]
Passes == {"retention", "quota", "pressure"}

\* What happened to a segment: it was protected after a purge had selected it,
\* its row outlived its files, its sidecar could not be removed, the writer
\* opened its sidecar without a video beside it.
Events == {"protectedLate", "rowKept", "sidecarKept", "writtenLate"}

TypeOK ==
    /\ cameras \subseteq Cameras
    /\ open \in [Cameras -> Segs \cup {None}]
    /\ started \subseteq Segs /\ expired \subseteq started
    /\ file \in [Segs -> 0 .. Full]
    /\ row \in [Segs -> Row \cup {None}]
    /\ \A s \in Segs : row[s] # None => s \in started /\ CamOf[s] \in cameras /\ row[s].bytes > 0
    /\ memo \in [Segs -> 0 .. Full]
    /\ phase \in {"rest", "indexed"} \cup Passes
    /\ todo \in Seq([seg : Segs, size : 1 .. Full])
    /\ over \subseteq [cam : Cameras, total : Nat]
    /\ \A s \in seen : phase \in Passes /\ todo # <<>> /\ s = Head(todo).seg
    /\ tally \in Int
    /\ sidecar \subseteq started
    /\ fd \in [Segs -> {"closed", "linked", "unlinked"}]
    /\ \A s \in Segs : fd[s] = "linked" => s \in sidecar
    /\ cache \in [Cameras -> [seg : Segs, end : 1 .. Full] \cup {None}]
    /\ detections \in 0 .. MaxDetections
    /\ pending \subseteq Det
    /\ edits \in 0 .. MaxEdits
    /\ failures \in 0 .. MaxFailures
    /\ history \in [Events -> SUBSET Segs]

Init ==
    /\ cameras = Cameras
    /\ open = [c \in Cameras |-> None]
    /\ started = {} /\ expired = {}
    /\ file = [s \in Segs |-> 0]
    /\ row = [s \in Segs |-> None]
    /\ memo = [s \in Segs |-> 0]
    /\ phase = "rest" /\ todo = <<>> /\ seen = {} /\ over = {} /\ tally = 0
    /\ sidecar = {}
    /\ fd = [s \in Segs |-> "closed"]
    /\ cache = [c \in Cameras |-> None]
    /\ detections = 0 /\ pending = {}
    /\ edits = 0 /\ failures = 0
    /\ history = [e \in Events |-> {}]

Note(e, s) == history' = [history EXCEPT ![e] = @ \cup {s}]
Fails == failures < MaxFailures /\ failures' = failures + 1
\* The rows of S by started_at, as a query returns them.
Sorted(S) == CHOOSE q \in [1 .. Cardinality(S) -> S] : \A i, j \in DOMAIN q : i < j => q[i] < q[j]
InOrder(S) == [i \in 1 .. Cardinality(S) |-> [seg |-> Sorted(S)[i], size |-> row[Sorted(S)[i]].bytes]]
Rows(S) == {s \in S : row[s] # None}
\* Sizes are added up by counting units: <<s, u>> is the u-th unit of segment s.
Bytes(S) == Cardinality({u \in Rows(S) \X (1 .. Full) : u[2] <= row[u[1]].bytes})
Recorded(S) == Cardinality({u \in S \X (1 .. Full) : u[2] <= file[u[1]]})
OnDisk == Recorded(Segs)
OfCamera(c) == {s \in Segs : CamOf[s] = c}
\* Faulty variant of Unprotected: the query without its protected = FALSE.
AnyRow(S) == Rows(S)
Unprotected(S) == {s \in Rows(S) : ~row[s].protected}

-----------------------------------------------------------------------------
(* MediaMTX, the operators and time *)

StartSegment(s) ==
    /\ s \notin started
    /\ \A r \in Segs : r < s => r \in started
    /\ CamOf[s] \in cameras
    /\ started' = started \cup {s}
    /\ open' = [open EXCEPT ![CamOf[s]] = s]
    /\ file' = [file EXCEPT ![s] = 1]
    /\ UNCHANGED <<cameras, row, expired, edits, managerVars, writerVars, sidecar, failures, history>>

\* A file that was removed while open grows where nobody sees it.
Grow(s) ==
    /\ open[CamOf[s]] = s
    /\ file[s] \in 1 .. Full - 1
    /\ file' = [file EXCEPT ![s] = @ + 1]
    /\ UNCHANGED <<cameras, open, started, row, expired, edits, managerVars, writerVars, sidecar, failures, history>>

Expire(s) ==
    /\ s \in started \ expired
    /\ \A r \in OfCamera(CamOf[s]) : r < s => r \in expired
    /\ open[CamOf[s]] # s
    /\ expired' = expired \cup {s}
    /\ UNCHANGED <<cameras, open, started, file, row, edits, managerVars, writerVars, sidecar, failures, history>>

Protect(s) ==
    /\ row[s] # None /\ ~row[s].protected
    /\ edits < MaxEdits /\ edits' = edits + 1
    /\ row' = [row EXCEPT ![s].protected = TRUE]
    /\ IF (s \in seen \/ \E i \in DOMAIN todo : todo[i].seg = s)
         THEN Note("protectedLate", s) ELSE UNCHANGED history
    /\ UNCHANGED <<cameras, open, started, file, expired, managerVars, writerVars, sidecar, failures>>

\* The rows go with the camera, the files stay.
DeleteCamera(c) ==
    /\ c \in cameras
    /\ cameras' = cameras \ {c}
    /\ open' = [open EXCEPT ![c] = None]
    /\ edits < MaxEdits /\ edits' = edits + 1
    /\ row' = [s \in Segs |-> IF CamOf[s] = c THEN None ELSE row[s]]
    /\ UNCHANGED <<started, file, expired, managerVars, writerVars, sidecar, failures, history>>

-----------------------------------------------------------------------------
(* The tick *)

Begin(p, q, t) ==
    /\ phase' = p
    /\ todo' = q
    /\ seen' = {}
    /\ tally' = t

\* Faulty variant of Index: a file is remembered whether its row was written or not.
IndexRemembers(failing) ==
    LET changed == {s \in Segs : file[s] > 0 /\ memo[s] # file[s]}
        written == {s \in changed \ failing : CamOf[s] \in cameras}
    IN  /\ row' = [s \in Segs |-> IF s \in written
                      THEN [bytes |-> file[s], protected |-> row[s] # None /\ row[s].protected]
                      ELSE row[s]]
        /\ memo' = file

\* indexNewSegments: a file that the memo does not know in its size is upserted.
\* Where that fails, for one for want of the camera, the memo forgets the file,
\* as it forgets files that are gone.
Index(failing) ==
    LET changed == {s \in Segs : file[s] > 0 /\ memo[s] # file[s]}
        written == {s \in changed \ failing : CamOf[s] \in cameras}
    IN  /\ row' = [s \in Segs |-> IF s \in written
                      THEN [bytes |-> file[s], protected |-> row[s] # None /\ row[s].protected]
                      ELSE row[s]]
        /\ memo' = [s \in Segs |-> IF s \in changed \ written THEN 0 ELSE file[s]]

Tick ==
    /\ phase = "rest"
    /\ phase' = "indexed"
    /\ \/ Index({}) /\ UNCHANGED failures
       \/ \E s \in Segs : Index({s}) /\ Fails
    /\ UNCHANGED <<cameras, open, started, file, expired, edits, todo, seen, over, tally, writerVars, sidecar, history>>

StartRetention ==
    /\ phase = "indexed"
    /\ Begin("retention", InOrder(Unprotected(expired)), 0)
    /\ UNCHANGED <<diskVars, memo, over, writerVars, sidecar, failures, history>>

\* Faulty variant of Unlink: the sidecar stays while the writer has it open.
UnlinkUnlessOpen(s) ==
    /\ file' = [file EXCEPT ![s] = 0]
    /\ sidecar' = IF fd[s] = "closed" THEN sidecar \ {s} ELSE sidecar
    /\ UNCHANGED <<fd, failures, history>>

\* removeSegmentFiles; a sidecar that cannot be removed is not an error.
Unlink(s) ==
    /\ file' = [file EXCEPT ![s] = 0]
    /\ \/ /\ sidecar' = sidecar \ {s}
          /\ fd' = [fd EXCEPT ![s] = IF @ = "linked" THEN "unlinked" ELSE @]
          /\ UNCHANGED <<failures, history>>
       \/ /\ s \in sidecar
          /\ Fails
          /\ Note("sidecarKept", s)
          /\ UNCHANGED <<sidecar, fd>>

\* Quota asks before every file, disk pressure after every batch.
Enough ==
    /\ todo # <<>>
    /\ \/ phase = "quota" /\ tally <= Quota[CamOf[Head(todo).seg]]
       \/ phase = "pressure" /\ tally > 0 /\ tally % Batch = 0 /\ OnDisk <= Capacity

AtRow == phase \in Passes /\ todo # <<>> /\ seen = {} /\ ~Enough

RemoveFiles ==
    /\ AtRow
    /\ Unlink(Head(todo).seg)
    /\ seen' = {Head(todo).seg}
    /\ UNCHANGED <<cameras, open, started, row, expired, edits, memo, phase, todo, over, tally, cache, detections, pending>>

\* os.Remove failed: the next row.
RemoveFails ==
    /\ AtRow
    /\ Fails
    /\ todo' = Tail(todo)
    /\ UNCHANGED <<diskVars, memo, phase, seen, over, tally, writerVars, sidecar, history>>

\* The file is counted as dropped whether the row went or not.
NextRow ==
    /\ phase \in Passes /\ seen # {}
    /\ tally' = CASE phase = "quota" -> tally - Head(todo).size
                  [] phase = "pressure" -> tally + 1
                  [] phase = "retention" -> tally
    /\ todo' = Tail(todo) /\ seen' = {}
    /\ UNCHANGED <<cameras, open, started, file, expired, edits, memo, phase, over, writerVars, sidecar>>

\* Faulty variant of DeleteRow: a row protected meanwhile is kept.
DeleteRowUnprotected ==
    /\ NextRow
    /\ row' = [s \in Segs |-> IF s \in seen /\ row[s] # None /\ ~row[s].protected THEN None ELSE row[s]]
    /\ UNCHANGED <<failures, history>>

DeleteRow ==
    /\ NextRow
    /\ row' = [s \in Segs |-> IF s \in seen THEN None ELSE row[s]]
    /\ UNCHANGED <<failures, history>>

DeleteRowFails ==
    /\ NextRow
    /\ Fails
    /\ Note("rowKept", Head(todo).seg)
    /\ UNCHANGED row

PassDone == seen = {} /\ (todo = <<>> \/ Enough)

\* One query finds the cameras over their quota ...
StartQuota ==
    /\ phase = "retention" /\ PassDone
    /\ over' = {[cam |-> c, total |-> Bytes(OfCamera(c))] : c \in {d \in cameras : Bytes(OfCamera(d)) > Quota[d]}}
    /\ Begin("quota", <<>>, 0)
    /\ UNCHANGED <<diskVars, memo, writerVars, sidecar, failures, history>>

\* Faulty variant of NextCamera: newest first.
NextCameraNewest ==
    /\ phase = "quota" /\ PassDone
    /\ \E o \in over :
        /\ over' = over \ {o}
        /\ Begin("quota", Reverse(InOrder(Unprotected(OfCamera(o.cam)))), o.total)
    /\ UNCHANGED <<diskVars, memo, writerVars, sidecar, failures, history>>

\* ... and one query each their segments.
NextCamera ==
    /\ phase = "quota" /\ PassDone
    /\ \E o \in over :
        /\ over' = over \ {o}
        /\ Begin("quota", InOrder(Unprotected(OfCamera(o.cam))), o.total)
    /\ UNCHANGED <<diskVars, memo, writerVars, sidecar, failures, history>>

StartPressure ==
    /\ phase = "quota" /\ PassDone /\ over = {}
    /\ Begin("pressure", IF OnDisk > Capacity THEN InOrder(Unprotected(Segs)) ELSE <<>>, 0)
    /\ UNCHANGED <<diskVars, memo, over, writerVars, sidecar, failures, history>>

EndTick ==
    /\ phase = "pressure" /\ PassDone
    /\ Begin("rest", <<>>, 0)
    /\ UNCHANGED <<diskVars, memo, over, writerVars, sidecar, failures, history>>

\* The query of a pass fails, and the tick ends with its error.
QueryFails ==
    /\ Fails
    /\ \/ phase = "indexed"
       \/ phase = "retention" /\ PassDone
       \/ phase = "quota" /\ PassDone /\ over = {}
    /\ over' = {} /\ Begin("rest", <<>>, 0)
    /\ UNCHANGED <<diskVars, memo, writerVars, sidecar, history>>

\* The query of one camera does, or the rest of an answer is lost: nobody looks
\* at rows.Err(), and the pass goes on to what comes next.
AnswerLost ==
    /\ phase \in Passes /\ seen = {} /\ Fails
    /\ \/ todo # <<>> /\ UNCHANGED over
       \/ phase = "quota" /\ PassDone /\ (\E o \in over : over' \in {{}, over \ {o}})
    /\ todo' = <<>>
    /\ UNCHANGED <<diskVars, memo, phase, seen, tally, writerVars, sidecar, history>>

\* The process is started again with an empty memo.
RestartManager ==
    /\ Fails
    /\ memo' = [s \in Segs |-> 0]
    /\ over' = {}
    /\ Begin("rest", <<>>, 0)
    /\ history' = [history EXCEPT !["rowKept"] = @ \cup seen]
    /\ UNCHANGED <<diskVars, writerVars, sidecar>>

ManagerStep ==
    \/ Tick \/ StartRetention
    \/ RemoveFiles \/ RemoveFails \/ DeleteRow \/ DeleteRowFails
    \/ StartQuota \/ NextCamera \/ StartPressure \/ EndTick

-----------------------------------------------------------------------------
(* The sidecar writer *)

\* resolveSegment: the cached window, or the row of the latest segment started
\* by then if it reaches as far.
Cached(d) == LET c == cache[CamOf[d.seg]] IN c # None /\ c.seg = d.seg /\ d.at < c.end
Found(d) == row[d.seg] # None /\ d.at <= row[d.seg].bytes
Resolves(d) == Cached(d) \/ Found(d)

\* appendLine: the file is opened, and made, when it is not open.
AppendLine(d) ==
    LET s == d.seg
    IN  /\ cache' = IF Cached(d) THEN cache
                    ELSE [cache EXCEPT ![CamOf[s]] = [seg |-> s, end |-> row[s].bytes]]
        /\ IF fd[s] # "closed"
             THEN UNCHANGED <<fd, sidecar, history>>
             ELSE /\ fd' = [fd EXCEPT ![s] = "linked"]
                  /\ sidecar' = sidecar \cup {s}
                  /\ IF file[s] = 0 THEN Note("writtenLate", s) ELSE UNCHANGED history

\* A detection from the channel, in which it may have waited for long; one that
\* did not fit there is never heard of.
Arrives(d) ==
    /\ detections < MaxDetections
    /\ d.seg \in started /\ CamOf[d.seg] \in Detecting
    /\ file[d.seg] > 0 => d.at <= file[d.seg]
    /\ detections' = detections + 1

HandleWrites(d) ==
    /\ Arrives(d)
    /\ Resolves(d)
    /\ AppendLine(d)
    /\ UNCHANGED <<diskVars, managerVars, pending, failures>>

HandleDefers(d) ==
    /\ Arrives(d)
    /\ ~Cached(d)
    /\ IF Found(d) THEN Fails ELSE UNCHANGED failures
    /\ pending' = pending \cup {d}
    /\ UNCHANGED <<diskVars, managerVars, fd, cache, sidecar, history>>

FlushWrites(d) ==
    /\ d \in pending
    /\ Resolves(d)
    /\ AppendLine(d)
    /\ pending' = pending \ {d}
    /\ UNCHANGED <<diskVars, managerVars, detections, failures>>

\* After 60 s.
FlushDrops(d) ==
    /\ d \in pending
    /\ pending' = pending \ {d}
    /\ UNCHANGED <<diskVars, managerVars, fd, cache, detections, sidecar, failures, history>>

CloseIdle(s) ==
    /\ fd[s] # "closed"
    /\ fd' = [fd EXCEPT ![s] = "closed"]
    /\ UNCHANGED <<diskVars, managerVars, cache, detections, pending, sidecar, failures, history>>

RestartWriter ==
    /\ Fails
    /\ fd' = [s \in Segs |-> "closed"]
    /\ cache' = [c \in Cameras |-> None]
    /\ pending' = {}
    /\ UNCHANGED <<diskVars, managerVars, detections, sidecar, history>>

-----------------------------------------------------------------------------

Next ==
    \/ \E s \in Segs : StartSegment(s) \/ Grow(s) \/ Expire(s) \/ Protect(s) \/ CloseIdle(s)
    \/ \E c \in Cameras : DeleteCamera(c)
    \/ ManagerStep \/ QueryFails \/ AnswerLost \/ RestartManager
    \/ \E d \in Det : HandleWrites(d) \/ HandleDefers(d) \/ FlushWrites(d) \/ FlushDrops(d)
    \/ RestartWriter

\* Run's loop ticks for ever.
FairSpec == Init /\ [][Next]_vars /\ WF_vars(ManagerStep)

-----------------------------------------------------------------------------
(* Properties *)

Purged(s) == file[s] > 0 /\ file'[s] = 0

\* "Delete segments ... unless protected": a purge never takes a video that was
\* protected before the purge selected it.
ProtectedKept ==
    [][\A s \in Segs : Purged(s) /\ row[s] # None /\ row[s].protected => s \in history["protectedLate"]]_vars

\* Quota and disk pressure take a camera's videos in the order they were
\* recorded, and quota none of a camera that is within its quota on disk, as
\* long as nothing failed.
DropsNoMoreThanNeeded ==
    [][\A s \in Segs : failures' = 0 /\ Purged(s) /\ phase # "retention" =>
        /\ \A r \in Unprotected(OfCamera(CamOf[s])) : r < s => file[r] = 0
        /\ phase = "quota" => Recorded(OfCamera(CamOf[s])) > Quota[CamOf[s]]]_vars

\* A row without a video is the one being purged, or its DELETE was lost.
GhostsExplained ==
    \A s \in Segs : row[s] # None /\ file[s] = 0 => s \in seen \cup history["rowKept"]

\* "Detection pins never outlive the clip they describe", unless the writer came
\* late or the file could not be removed.
SidecarFollowsVideo ==
    \A s \in sidecar : file[s] = 0 => s \in history["writtenLate"] \cup history["sidecarKept"]

Settled ==
    /\ \A s \in Segs : CamOf[s] \in cameras =>
        /\ file[s] > 0 => row[s] # None /\ row[s].bytes = file[s]
        /\ s \in expired /\ row[s] # None => row[s].protected
    /\ \A c \in cameras : Bytes(OfCamera(c)) > Quota[c] => Unprotected(OfCamera(c)) = {}
    /\ OnDisk > Capacity => Unprotected(Segs) = {}

\* Once recording and failures stop, every video of a camera has its row, the
\* expired ones are gone, and quotas and the disk are respected or only
\* protected videos are left.
EventuallySettled == <>[]Settled

=============================================================================
