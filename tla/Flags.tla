-------------------------------- MODULE Flags --------------------------------
(***************************************************************************)
(* Flagged detections and the training set made of them: the taxonomy of   *)
(* classes (classes/store.go), the rows of object_flags (flags/store.go),  *)
(* the frames, labels and dataset.yaml on disk (flags/dataset.go) and the  *)
(* handlers that keep the four together (server/flags.go,                  *)
(* server/classes.go).  A statement or one write of a file is one step; a  *)
(* handler goes from one to the next beside the others.  Boxes, paths and  *)
(* pictures are left out: a row has its paths or has not, a label file is  *)
(* empty or starts with a class number.                                    *)
(***************************************************************************)
EXTENDS Integers, FiniteSets, FiniteSetsExt

CONSTANTS
    Slugs,      \* class names
    Seeded,     \* those the migration seeds
    Dets,       \* detections of one camera, with a perceptual hash
    ClassOf,    \* [detection -> class name]
    Callers,    \* requests that may be in progress at one time
    Taxonomies, \* the taxonomies tried at the start
    None,       \* no class, no detection, no row
    NoFile, Empty, Idle,
    MaxFlags, MaxRequests, MaxFailures

FlagIds == 1..MaxFlags     \* BIGSERIAL

\* `row` tells a class from an earlier one of the same name, and `newest` is
\* the last flag there was when a deletion counted.
Class == [yolo : Nat, enabled : BOOLEAN, row : Nat]

Flag == [original : Slugs, corrected : Slugs \cup {None}, det : Dets \cup {None},
         active : BOOLEAN, paths : BOOLEAN]

\* An entry of dataset.yaml: a class number and its name.
Entry == Nat \X Slugs

Job == [phase : {"create", "lookup", "frame", "label", "rollback", "patch", "entries", "yaml",
                 "unframe", "unlabel", "delete"},
        flag : FlagIds \cup {0}, det : Dets \cup {None}, class : Slugs \cup {None},
        label : Nat \cup {Empty}, row : Nat, newest : Nat, entries : SUBSET Entry, overtaken : BOOLEAN]

ASSUME FlagsAssumption ==
    /\ IsFiniteSet(Slugs) /\ Seeded \subseteq Slugs /\ ClassOf \in [Dets -> Slugs]
    /\ Taxonomies \subseteq [Slugs -> Class \cup {None}]
    \* yolo_id is UNIQUE
    /\ \A T \in Taxonomies : \A s, t \in Slugs :
          T[s] # None /\ T[t] # None /\ T[s].yolo = T[t].yolo => s = t
    /\ None \notin Slugs \cup Dets \cup Class \cup Flag
    /\ Empty \notin Nat /\ NoFile \notin Nat \cup {Empty} /\ Idle \notin Job
    /\ {MaxFlags, MaxRequests, MaxFailures} \subseteq Nat

VARIABLES
    classes,    \* detection_classes: [name -> row]
    flags,      \* object_flags: [id -> row]
    detections, \* the detections that have a row
    frames,     \* flags with images/<split>/<id>.jpg on disk
    labels,     \* [id -> contents of labels/<split>/<id>.txt]
    yaml,       \* the names in dataset.yaml
    jobs,       \* [caller -> job]
    raced,      \* history: flags whose class was deleted between its check and their row
    broken,     \* history: flags a step of whose creation or purge failed
    early,      \* history: flags dismissed before their row had its paths
    purged,     \* history: flags dismissed with their files
    disordered, \* history: dataset.yaml was written by a request another had overtaken
    requests, failures

files   == <<frames, labels, yaml>>
history == <<raced, broken, early, purged, disordered>>
flagVars == <<classes, flags, detections, files, jobs, history, requests, failures>>

FlagsTypeOK ==
    /\ classes \in [Slugs -> Class \cup {None}]
    /\ flags \in [FlagIds -> Flag \cup {None}]
    /\ detections \subseteq Dets
    /\ frames \subseteq FlagIds
    /\ labels \in [FlagIds -> Nat \cup {Empty, NoFile}]
    /\ yaml \subseteq Entry
    /\ jobs \in [Callers -> Job \cup {Idle}]
    /\ UNION {raced, broken, early, purged} \subseteq FlagIds
    /\ disordered \in BOOLEAN
    /\ requests \in Nat /\ failures \in Nat

-----------------------------------------------------------------------------
Exists(s) == classes[s] # None
Enabled == {s \in Slugs : Exists(s) /\ classes[s].enabled}

\* The entries if dataset.yaml numbered its classes from 0 on.
Renumbered == {<<Cardinality({t \in Enabled : classes[t].yolo < classes[s].yolo}), s>> : s \in Enabled}

EnabledClassEntries == {<<classes[s].yolo, s>> : s \in Enabled}

\* MAX(yolo_id)+1.
NextYoloID ==
    IF \E s \in Slugs : Exists(s) THEN 1 + Max({classes[s].yolo : s \in {t \in Slugs : Exists(t)}}) ELSE 0

Made == {f \in FlagIds : flags[f] # None}
Newest == Cardinality(Made)

\* Whether a flag that is not dismissed names the class.
NamedByActive(s) == \E f \in Made : flags[f].active /\ s \in {flags[f].original, flags[f].corrected}

\* Whether a flag names the class: the COUNT of Delete.
HasFlags(s) == \E f \in Made : s \in {flags[f].original, flags[f].corrected}

\* What WriteArtifacts puts in the label file: SlugToYoloID knows the disabled
\* classes too, and a class it does not know is dropped.
LabelFor(s) == IF s # None /\ Exists(s) THEN classes[s].yolo ELSE Empty

\* classCorrectionAllowed
ClassCorrectionAllowed(s) == s \in Enabled

-----------------------------------------------------------------------------
Count == requests < MaxRequests /\ requests' = requests + 1
NoFailure == UNCHANGED failures
Failure == failures < MaxFailures /\ failures' = failures + 1

NewJob == [phase |-> "entries", flag |-> 0, det |-> None, class |-> None, label |-> Empty,
           row |-> 0, newest |-> 0, entries |-> {}, overtaken |-> FALSE]
Begin(c, job) == Count /\ jobs[c] = Idle /\ jobs' = [jobs EXCEPT ![c] = job]
In(c, phase) == jobs[c] # Idle /\ jobs[c].phase = phase
Goto(c, phase) == jobs' = [jobs EXCEPT ![c].phase = phase]
Finish(c) == jobs' = [jobs EXCEPT ![c] = Idle]

\* The files are done, dataset.yaml comes next.
Regenerate(c) == jobs' = [jobs EXCEPT ![c] = NewJob]

Working(f) == \E c \in Callers : jobs[c] # Idle /\ jobs[c].flag = f

-----------------------------------------------------------------------------
\* The engine has stored a detection.
Stored(d) ==
    /\ d \notin detections /\ detections' = detections \cup {d}
    /\ NoFailure /\ UNCHANGED <<classes, flags, files, jobs, history, requests>>

(* server/classes.go *)

\* The slug and the number of a class are UNIQUE.
HandleCreateClass(s) ==
    /\ Count /\ ~Exists(s) /\ ~\E t \in Slugs : Exists(t) /\ classes[t].yolo = NextYoloID
    /\ classes' = [classes EXCEPT ![s] = [yolo |-> NextYoloID, enabled |-> TRUE, row |-> requests']]
    /\ NoFailure /\ UNCHANGED <<flags, detections, files, jobs, history>>

HandlePatchClass(s) ==
    /\ Count /\ Exists(s)
    /\ classes' = [classes EXCEPT ![s].enabled = ~@]
    /\ NoFailure /\ UNCHANGED <<flags, detections, files, jobs, history>>

\* Several classes in one transaction.
HandleBulkEnableClasses ==
    \E S \in SUBSET Slugs, on \in BOOLEAN :
        /\ Count /\ Cardinality(S) > 1 /\ \A s \in S : Exists(s)
        /\ classes' = [s \in Slugs |-> IF s \in S THEN [classes[s] EXCEPT !.enabled = on] ELSE classes[s]]
        /\ classes' # classes
        /\ NoFailure /\ UNCHANGED <<flags, detections, files, jobs, history>>

\* Delete reads the class and counts its flags, ...
HandleDeleteClass(c) ==
    \E s \in Slugs \ Seeded :
        /\ Exists(s) /\ ~HasFlags(s)
        /\ Begin(c, [NewJob EXCEPT !.phase = "delete", !.class = s, !.row = classes[s].row, !.newest = Newest])
        /\ NoFailure /\ UNCHANGED <<classes, flags, detections, files, history>>

\* ... and deletes the row it has read.
DeleteClass(c) ==
    LET s == jobs[c].class
        mine == Exists(s) /\ classes[s].row = jobs[c].row
    IN  /\ In(c, "delete") /\ Finish(c)
        /\ classes' = IF mine THEN [classes EXCEPT ![s] = None] ELSE classes
        /\ raced' = IF mine THEN raced \cup {f \in Made : f > jobs[c].newest /\ flags[f].corrected = s} ELSE raced
        /\ NoFailure /\ UNCHANGED <<flags, detections, files, broken, early, purged, disordered, requests>>

-----------------------------------------------------------------------------
(* server/flags.go *)

\* A detection is called nothing, or something else.
HandleFlagDetection(c) ==
    \E d \in detections, s \in Slugs \cup {None} :
        /\ s = None \/ ClassCorrectionAllowed(s)
        /\ Begin(c, [NewJob EXCEPT !.phase = "create", !.det = d, !.class = s])
        /\ NoFailure /\ UNCHANGED <<classes, flags, detections, files, history>>

\* A box drawn by hand has a class and no detection.
HandleManualFlag(c) ==
    \E s \in Slugs :
        /\ ClassCorrectionAllowed(s)
        /\ Begin(c, [NewJob EXCEPT !.phase = "create", !.class = s])
        /\ NoFailure /\ UNCHANGED <<classes, flags, detections, files, history>>

\* The row, as yet without paths.
CreateFlag(c) ==
    LET job == jobs[c]
        f == Newest + 1
    IN  /\ In(c, "create") /\ f \in FlagIds
        /\ flags' = [flags EXCEPT ![f] = [original |-> IF job.det = None THEN job.class ELSE ClassOf[job.det],
                                          corrected |-> job.class, det |-> job.det, active |-> TRUE, paths |-> FALSE]]
        /\ raced' = IF job.class # None /\ ~Exists(job.class) THEN raced \cup {f} ELSE raced
        /\ jobs' = [jobs EXCEPT ![c] = [job EXCEPT !.phase = "lookup", !.flag = f, !.det = None]]
        /\ NoFailure /\ UNCHANGED <<classes, detections, files, broken, early, purged, disordered, requests>>

\* SlugToYoloID
LookupClass(c) ==
    /\ In(c, "lookup")
    /\ jobs' = [jobs EXCEPT ![c].phase = "frame", ![c].label = LabelFor(jobs[c].class), ![c].class = None]
    /\ NoFailure /\ UNCHANGED <<classes, flags, detections, files, history, requests>>

WriteFrame(c) ==
    /\ In(c, "frame") /\ Goto(c, "label")
    /\ frames' = frames \cup {jobs[c].flag}
    /\ NoFailure /\ UNCHANGED <<classes, flags, detections, labels, yaml, history, requests>>

WriteLabel(c) ==
    /\ In(c, "label")
    /\ labels' = [labels EXCEPT ![jobs[c].flag] = jobs[c].label]
    /\ jobs' = [jobs EXCEPT ![c].phase = "patch", ![c].label = Empty]
    /\ NoFailure /\ UNCHANGED <<classes, flags, detections, frames, yaml, history, requests>>

\* A write of WriteArtifacts fails, and may leave a file behind.
WriteFails(c) ==
    LET f == jobs[c].flag
    IN  /\ Failure
        /\ \/ In(c, "frame") /\ frames' \in {frames, frames \cup {f}} /\ UNCHANGED labels
           \/ In(c, "label") /\ labels' \in {labels, [labels EXCEPT ![f] = Empty]} /\ UNCHANGED frames
        /\ jobs' = [jobs EXCEPT ![c].phase = "rollback", ![c].label = Empty]
        /\ broken' = broken \cup {f}
        /\ UNCHANGED <<classes, flags, detections, yaml, raced, early, purged, disordered, requests>>

\* "Best-effort rollback: soft-dismiss the orphaned row."
Rollback(c) ==
    /\ In(c, "rollback") /\ Finish(c)
    /\ flags' = [flags EXCEPT ![jobs[c].flag].active = FALSE]
    /\ NoFailure /\ UNCHANGED <<classes, detections, files, history, requests>>

PatchPaths(c) ==
    /\ In(c, "patch") /\ Goto(c, "entries")
    /\ flags' = [flags EXCEPT ![jobs[c].flag].paths = TRUE]
    /\ NoFailure /\ UNCHANGED <<classes, detections, files, history, requests>>

\* A statement or a removal fails, or the process dies: the request ends here.
Abort(c) ==
    /\ Failure /\ jobs[c] # Idle /\ Finish(c)
    /\ broken' = IF jobs[c].flag = 0 THEN broken ELSE broken \cup {jobs[c].flag}
    /\ UNCHANGED <<classes, flags, detections, files, raced, early, purged, disordered, requests>>

-----------------------------------------------------------------------------
\* Dismiss, which returns the row; a purge goes on with its paths.
HandleDismissFlag(c) ==
    \E f \in Made, purge \in BOOLEAN :
        /\ flags[f].active
        /\ flags' = [flags EXCEPT ![f].active = FALSE]
        /\ Begin(c, IF purge /\ flags[f].paths THEN [NewJob EXCEPT !.phase = "unframe", !.flag = f] ELSE NewJob)
        /\ purged' = IF purge THEN purged \cup {f} ELSE purged
        /\ early' = IF flags[f].paths THEN early ELSE early \cup {f}
        /\ NoFailure /\ UNCHANGED <<classes, detections, files, raced, broken, disordered>>

\* DeleteFiles takes both files of the row, ...
DeleteFrame(c) ==
    /\ In(c, "unframe") /\ Goto(c, "unlabel")
    /\ frames' = frames \ {jobs[c].flag}
    /\ NoFailure /\ UNCHANGED <<classes, flags, detections, labels, yaml, history, requests>>

\* ... or forgets the second, ...
ForgetLabel(c) ==
    /\ In(c, "unlabel") /\ Regenerate(c)
    /\ NoFailure /\ UNCHANGED <<classes, flags, detections, files, history, requests>>

\* ... or takes the second.
DeleteLabel(c) ==
    /\ In(c, "unlabel") /\ Regenerate(c)
    /\ labels' = [labels EXCEPT ![jobs[c].flag] = NoFile]
    /\ NoFailure /\ UNCHANGED <<classes, flags, detections, frames, yaml, history, requests>>

\* ... and gives up at the first it cannot remove.
DeleteFails(c) ==
    /\ Failure /\ (In(c, "unframe") \/ In(c, "unlabel"))
    /\ Regenerate(c)
    /\ broken' = broken \cup {jobs[c].flag}
    /\ UNCHANGED <<classes, flags, detections, files, raced, early, purged, disordered, requests>>

\* The enabled classes; an error is ignored, and leaves none.
ReadEntries(c) ==
    /\ In(c, "entries")
    /\ \/ jobs' = [jobs EXCEPT ![c].phase = "yaml", ![c].entries = EnabledClassEntries] /\ NoFailure
       \/ Goto(c, "yaml") /\ Failure
    /\ UNCHANGED <<classes, flags, detections, files, history, requests>>

RegenerateDatasetYAML(c) ==
    /\ In(c, "yaml")
    /\ yaml' = jobs[c].entries
    /\ disordered' = jobs[c].overtaken
    /\ jobs' = [d \in Callers |->
           IF d = c THEN Idle ELSE IF In(d, "yaml") THEN [jobs[d] EXCEPT !.overtaken = TRUE] ELSE jobs[d]]
    /\ NoFailure /\ UNCHANGED <<classes, flags, detections, frames, labels, raced, broken, early, purged, requests>>

-----------------------------------------------------------------------------
FlagsInit ==
    /\ classes \in Taxonomies
    /\ flags = [f \in FlagIds |-> None]
    /\ detections = {}
    /\ frames = {} /\ labels = [f \in FlagIds |-> NoFile]
    /\ yaml = EnabledClassEntries
    /\ jobs = [c \in Callers |-> Idle]
    /\ raced = {} /\ broken = {} /\ early = {} /\ purged = {} /\ disordered = FALSE
    /\ requests = 0 /\ failures = 0

FlagsNext ==
    \/ \E s \in Slugs : HandleCreateClass(s) \/ HandlePatchClass(s)
    \/ HandleBulkEnableClasses
    \/ \E c \in Callers :
        \/ HandleDeleteClass(c) \/ DeleteClass(c)
        \/ HandleFlagDetection(c) \/ HandleManualFlag(c) \/ CreateFlag(c) \/ LookupClass(c)
        \/ WriteFrame(c) \/ WriteLabel(c) \/ WriteFails(c) \/ Rollback(c) \/ PatchPaths(c) \/ Abort(c)
        \/ HandleDismissFlag(c) \/ DeleteFrame(c) \/ DeleteLabel(c) \/ DeleteFails(c)
        \/ ReadEntries(c) \/ RegenerateDatasetYAML(c)

\* The api-server with an engine that may store any detection.
FlagsSpec == FlagsInit /\ [][FlagsNext \/ \E d \in Dets : Stored(d)]_flagVars

-----------------------------------------------------------------------------
\* "Changing them would invalidate every label file already on disk": a label
\* has the number of the class its flag was corrected to, whose name and number
\* are still in the taxonomy, and is empty for nothing but a flag without one;
\* unless the class was deleted while the flag was made, or a step failed.
LabelsDenote ==
    \A f \in FlagIds \ (raced \cup broken) : labels[f] # NoFile => labels[f] = LabelFor(flags[f].corrected)
                                                /\ (flags[f].corrected # None => Exists(flags[f].corrected))

\* The training set is that of the flags: an active flag with paths has both
\* files; a file belongs to a flag with paths that was not purged, but for the
\* ones a request is at, a failure has left or a purge came too early for.
DatasetExplained ==
    /\ \A f \in Made : flags[f].active /\ flags[f].paths => f \in frames /\ labels[f] # NoFile
    /\ \A f \in FlagIds \ (broken \cup early) :
          (f \in frames \/ labels[f] # NoFile) /\ ~Working(f) => flags[f].paths /\ f \notin purged

\* "Numeric labels in .txt files line up when trainers consume this": no label
\* has a number that dataset.yaml gives to another class, once the request that
\* wrote it is done, unless the yaml's writer was overtaken by another.
NamesAgree ==
    \A f \in FlagIds \ (raced \cup broken) :
        labels[f] \in Nat /\ flags[f].paths /\ ~disordered /\ (\A c \in Callers : jobs[c] = Idle)
            => \A e \in yaml : e[1] = labels[f] => e[2] = flags[f].corrected
=============================================================================
