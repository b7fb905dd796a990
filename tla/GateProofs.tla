----------------------------- MODULE GateProofs -----------------------------
(* Proofs about Flags and Gate: the labels denote the classes of their       *)
(* flags, the training set is that of the flags, its numbers agree with      *)
(* dataset.yaml, and the gate judges by the tables of one moment.            *)
EXTENDS Gate, FiniteSetTheorems, WellFoundedInduction, TLAPS

(***************************************************************************)
(* The number of a new class.  MAX(yolo_id)+1 is new because a finite set  *)
(* of numbers is bounded, and Max is then what its name says: the bound is *)
(* found by the least counterexample, as induction over data is not to be  *)
(* had here.                                                               *)
(***************************************************************************)

LEMMA LeastNatural ==
    ASSUME NEW T \in SUBSET Nat, T # {}
    PROVE  \E n \in T : \A k \in T : n <= k
<1>1. PICK n \in T : \A k \in T : <<k, n>> \notin OpToRel(<, Nat)
  BY NatLessThanWellFounded, WFMin
<1>2. \A k \in T : ~(k < n) BY <1>1 DEF OpToRel
<1> QED BY <1>2

LEMMA FiniteIsBounded ==
    ASSUME NEW S, IsFiniteSet(S), NEW h \in [S -> Nat]
    PROVE  \E b \in Nat : \A s \in S : h[s] <= b
<1>1. PICK n \in Nat : \E f \in [1..n -> S] : \A s \in S : \E i \in 1..n : f[i] = s
  BY FS_NatSurjection DEF ExistsSurjection, Surjection
<1>0. PICK f \in [1..n -> S] : \A s \in S : \E i \in 1..n : f[i] = s
  BY <1>1
<1> DEFINE Fine(k) == \E b \in Nat : \A i \in 1..k : h[f[i]] <= b
           T == {k \in Nat : k <= n /\ ~Fine(k)}
<1>2. Fine(0)
  OBVIOUS
<1>3. ASSUME NEW k \in Nat, k < n, Fine(k) PROVE Fine(k + 1)
  <2>1. PICK b \in Nat : \A i \in 1..k : h[f[i]] <= b
    BY <1>3 DEF Fine
  <2>2. PICK v \in Nat : v = h[f[k + 1]]
    BY <1>0, <1>3
  <2>3. ASSUME NEW i \in 1..(k + 1) PROVE h[f[i]] <= b + v
    <3>1. CASE i = k + 1
      BY <3>1, <2>2
    <3>2. CASE i \in 1..k
      <4>1. PICK w \in Nat : w = h[f[i]]
        BY <1>0, <1>3, <3>2
      <4> QED
        BY <2>1, <2>2, <3>2, <4>1
    <3> QED
      BY <3>1, <3>2
  <2>4. b + v \in Nat
    OBVIOUS
  <2> QED
    BY <2>3, <2>4 DEF Fine
<1> HIDE DEF Fine
<1>4. T = {}
  <2> SUFFICES ASSUME T # {} PROVE FALSE
    OBVIOUS
  <2>1. PICK k \in T : \A m \in T : k <= m
    <3>1. T \in SUBSET Nat
      OBVIOUS
    <3> HIDE DEF T
    <3> QED
      BY <3>1, LeastNatural
  <2>2. k # 0
    BY <2>1, <1>2
  <2>3. k - 1 \in Nat /\ k - 1 < n /\ k - 1 \notin T
    BY <2>1, <2>2
  <2>4. Fine(k)
    BY <2>3, <1>3
  <2> QED
    BY <2>1, <2>4
<1>5. Fine(n)
  BY <1>4
<1>6. \E b \in Nat : \A i \in 1..n : h[f[i]] <= b
  BY <1>5 DEF Fine
<1> QED
  BY <1>0, <1>6

LEMMA BoundedHasMax ==
    ASSUME NEW Y \in SUBSET Nat, Y # {}, NEW b \in Nat, \A y \in Y : y <= b
    PROVE  Max(Y) \in Y /\ \A y \in Y : Max(Y) >= y
<1> DEFINE B == {n \in Nat : \A y \in Y : y <= n}
<1>1. PICK m \in B : \A n \in B : m <= n
  <2>1. B \in SUBSET Nat /\ B # {}
    OBVIOUS
  <2> HIDE DEF B
  <2> QED
    BY <2>1, LeastNatural
<1>2. m \in Y
  <2> SUFFICES ASSUME m \notin Y PROVE FALSE
    OBVIOUS
  <2>1. m # 0
    <3>1. PICK y \in Y : y \in Nat /\ y <= m /\ y # m
      BY <1>1
    <3> QED
      BY <3>1, <1>1
  <2>2. m - 1 \in B
    BY <2>1, <1>1
  <2> QED
    BY <2>2, <1>1
<1>3. \E x \in Y : \A y \in Y : x >= y
  BY <1>1, <1>2
<1> QED
  BY <1>3 DEF Max

\* No class has the number of NextYoloID.
LEMMA NumberIsNew ==
    ASSUME FlagsTypeOK, FlagsAssumption
    PROVE  NextYoloID \in Nat /\ \A s \in Slugs : Exists(s) => classes[s].yolo < NextYoloID
<1>1. CASE ~\E s \in Slugs : Exists(s)
  BY <1>1 DEF NextYoloID
<1>2. CASE \E s \in Slugs : Exists(s)
  <2> DEFINE E == {t \in Slugs : Exists(t)}
             Y == {classes[s].yolo : s \in E}
             h == [s \in E |-> classes[s].yolo]
  <2>1. \A s \in E : classes[s].yolo \in Nat
    BY DEF FlagsTypeOK, Exists, Class
  <2>2. IsFiniteSet(E)
    BY FS_Subset, FlagsAssumption
  <2>3. h \in [E -> Nat]
    BY <2>1
  <2>4. PICK b \in Nat : \A s \in E : h[s] <= b
    <3> HIDE DEF E, h
    <3> QED
      BY <2>2, <2>3, FiniteIsBounded
  <2>5. Y \subseteq Nat /\ Y # {} /\ \A y \in Y : y <= b
    BY <2>1, <2>4, <1>2
  <2>6. NextYoloID = 1 + Max(Y)
    BY <1>2 DEF NextYoloID
  <2>7. \A s \in E : classes[s].yolo \in Y
    OBVIOUS
  <2> HIDE DEF Y
  <2>8. Max(Y) \in Y /\ \A y \in Y : Max(Y) >= y
    BY <2>5, BoundedHasMax
  <2>9. Max(Y) \in Nat
    BY <2>5, <2>8
  <2>10. ASSUME NEW s \in Slugs, Exists(s) PROVE classes[s].yolo < NextYoloID
    <3>1. classes[s].yolo \in Y /\ classes[s].yolo \in Nat
      BY <2>7, <2>5, <2>10
    <3> QED
      BY <3>1, <2>6, <2>8, <2>9
  <2> QED
    BY <2>6, <2>9, <2>10
<1> QED
  BY <1>1, <1>2

(***************************************************************************)
(* Jobs.  A step of a job changes some of its fields: what comes of it,    *)
(* once for each shape of step.                                            *)
(***************************************************************************)
Phases == {"create", "lookup", "frame", "label", "rollback", "patch", "entries", "yaml", "unframe", "unlabel", "delete"}

\* A job after a step of its own.
With(j, p, f, d, s, l, e) ==
    [phase |-> p, flag |-> f, det |-> d, class |-> s, label |-> l,
     row |-> j.row, newest |-> j.newest, entries |-> e, overtaken |-> j.overtaken]

LEMMA WithTyped ==
    ASSUME NEW j \in Job, NEW p \in Phases, NEW f \in FlagIds \cup {0}, NEW d \in Dets \cup {None},
           NEW s \in Slugs \cup {None}, NEW l \in Nat \cup {Empty}, NEW e \in SUBSET Entry
    PROVE  With(j, p, f, d, s, l, e) \in Job
  BY DEF With, Job, Phases

LEMMA JobFields ==
    ASSUME NEW j \in Job
    PROVE  /\ j.phase \in Phases /\ j.flag \in FlagIds \cup {0} /\ j.det \in Dets \cup {None}
           /\ j.class \in Slugs \cup {None} /\ j.label \in Nat \cup {Empty}
           /\ j.row \in Nat /\ j.newest \in Nat /\ j.entries \in SUBSET Entry
           /\ j.overtaken \in BOOLEAN
  BY DEF Job, Phases

LEMMA PhaseChanged ==
    ASSUME NEW j \in Job, NEW p
    PROVE  [j EXCEPT !.phase = p] = With(j, p, j.flag, j.det, j.class, j.label, j.entries)
  BY DEF With, Job

LEMMA CreateChanged ==
    ASSUME NEW j \in Job, NEW p, NEW f, NEW d
    PROVE  [j EXCEPT !.phase = p, !.flag = f, !.det = d] = With(j, p, f, d, j.class, j.label, j.entries)
<1>1. [With(j, p, j.flag, j.det, j.class, j.label, j.entries) EXCEPT !.flag = f]
        = With(j, p, f, j.det, j.class, j.label, j.entries)
  BY DEF With
<1>2. [With(j, p, f, j.det, j.class, j.label, j.entries) EXCEPT !.det = d]
        = With(j, p, f, d, j.class, j.label, j.entries)
  BY DEF With
<1>3. [j EXCEPT !.phase = p, !.flag = f, !.det = d] = [[[j EXCEPT !.phase = p] EXCEPT !.flag = f] EXCEPT !.det = d]
  OBVIOUS
<1> QED
  BY <1>1, <1>2, <1>3, PhaseChanged

LEMMA LabelChanged ==
    ASSUME NEW j \in Job, NEW p, NEW l
    PROVE  [j EXCEPT !.phase = p, !.label = l] = With(j, p, j.flag, j.det, j.class, l, j.entries)
<1>1. [With(j, p, j.flag, j.det, j.class, j.label, j.entries) EXCEPT !.label = l]
        = With(j, p, j.flag, j.det, j.class, l, j.entries)
  BY DEF With
<1>2. [j EXCEPT !.phase = p, !.label = l] = [[j EXCEPT !.phase = p] EXCEPT !.label = l]
  OBVIOUS
<1> QED
  BY <1>1, <1>2, PhaseChanged

LEMMA LookupChanged ==
    ASSUME NEW j \in Job, NEW p, NEW l, NEW s
    PROVE  [j EXCEPT !.phase = p, !.label = l, !.class = s] = With(j, p, j.flag, j.det, s, l, j.entries)
<1>1. [With(j, p, j.flag, j.det, j.class, l, j.entries) EXCEPT !.class = s]
        = With(j, p, j.flag, j.det, s, l, j.entries)
  BY DEF With
<1>2. [j EXCEPT !.phase = p, !.label = l, !.class = s] = [[j EXCEPT !.phase = p, !.label = l] EXCEPT !.class = s]
  OBVIOUS
<1> QED
  BY <1>1, <1>2, LabelChanged

LEMMA EntriesChanged ==
    ASSUME NEW j \in Job, NEW p, NEW e
    PROVE  [j EXCEPT !.phase = p, !.entries = e] = With(j, p, j.flag, j.det, j.class, j.label, e)
<1>1. [With(j, p, j.flag, j.det, j.class, j.label, j.entries) EXCEPT !.entries = e]
        = With(j, p, j.flag, j.det, j.class, j.label, e)
  BY DEF With
<1>2. [j EXCEPT !.phase = p, !.entries = e] = [[j EXCEPT !.phase = p] EXCEPT !.entries = e]
  OBVIOUS
<1> QED
  BY <1>1, <1>2, PhaseChanged

(***************************************************************************)
(* The invariant.  Rows are numbered in order and never go; what a caller  *)
(* has taken down of a flag stays true while it is at it, since nobody     *)
(* else makes that flag, and a purge begins only when its row has paths;   *)
(* and each flag is all right: its class exists, its label has the number  *)
(* of that class, its files are those its row speaks of, and whoever may   *)
(* still write dataset.yaml knows the class of its number.                 *)
(***************************************************************************)
\* The history that excuses a flag's class and label.
Exempt == raced \cup broken

Making == {"lookup", "frame", "label", "rollback", "patch"}
Listing == {"entries", "yaml"}
Purging == {"unframe", "unlabel"}
At(c, f, stage) == jobs[c] # Idle /\ jobs[c].flag = f /\ jobs[c].phase \in stage

\* Rows, numbers and files; and one caller at the making of a flag.
RowsInOrder == \E n \in 0..MaxFlags : Made = 1..n
NumbersDiffer == \A s, t \in Slugs : Exists(s) /\ Exists(t) /\ classes[s].yolo = classes[t].yolo => s = t
FilesOfRows == frames \cup purged \subseteq Made /\ \A f \in FlagIds : labels[f] # NoFile => f \in Made
OneMaker == \A c, d \in Callers : \A f \in Made : At(c, f, Making) /\ At(d, f, Making) => c = d

\* A row, its class and its label.
Denoted(f) == LabelFor(flags[f].corrected)
Original(f) == flags[f].det # None => flags[f].original = ClassOf[flags[f].det]
ClassKept(f) == f \notin Exempt /\ flags[f].corrected # None => Exists(flags[f].corrected)
LabelKept(f) == f \notin Exempt /\ labels[f] # NoFile => labels[f] = Denoted(f)

\* A row and its files: who is at those it should not have, or not yet.
Complete(f) == flags[f].active /\ flags[f].paths => f \in frames /\ labels[f] # NoFile
Owned(f) ==
    f \notin broken \cup early /\ (f \in frames \/ labels[f] # NoFile) =>
        /\ flags[f].paths \/ \E c \in Callers : At(c, f, Making)
        /\ f \in purged => \E c \in Callers : At(c, f, Purging)

\* A purge that found no paths came too early.
Early(f) == f \in purged /\ ~flags[f].paths => f \in early

\* A label and dataset.yaml: the caller that made the label has yet to write
\* the file, or the file and what the others are to write agree with it.
Numbered(f) == f \notin Exempt /\ labels[f] \in Nat /\ flags[f].paths
Consistent(f, entries) == \A e \in entries : e[1] = labels[f] => e[2] = flags[f].corrected
Named(f) == Numbered(f) =>
    /\ \/ \E c \in Callers : At(c, f, Listing)
       \/ /\ ~disordered => Consistent(f, yaml)
          /\ \A c \in Callers : jobs[c] # Idle /\ jobs[c].phase = "yaml" /\ ~jobs[c].overtaken
                => Consistent(f, jobs[c].entries)
    /\ \A c \in Callers : At(c, f, {"yaml"}) => Consistent(f, jobs[c].entries)

FlagOK(f) == Original(f) /\ ClassKept(f) /\ LabelKept(f) /\ Complete(f) /\ Owned(f) /\ Early(f) /\ Named(f)

\* What a job may rely on.
JobOK(j) ==
    /\ j.flag \in Made \cup {0}
    /\ j.newest \in 0..Newest
    /\ j.phase # "yaml" => j.entries = {}
    /\ j.phase = "create" => j.flag = 0 /\ (j.det = None => j.class # None)
    /\ j.phase \in Making => j.flag \in Made /\ ~flags[j.flag].paths
    /\ j.phase \in Listing /\ j.flag # 0 => flags[j.flag].paths
    /\ j.phase = "lookup" => j.class = flags[j.flag].corrected
    /\ j.phase \in {"frame", "label"} => j.flag \in Exempt \/ j.label = Denoted(j.flag)
    /\ j.phase \in {"label", "patch"} => j.flag \in frames
    /\ j.phase = "patch" => labels[j.flag] # NoFile
    /\ j.phase = "rollback" => j.flag \in broken
    /\ j.phase \in Purging => j.flag \in Made /\ flags[j.flag].paths /\ ~flags[j.flag].active
    /\ j.phase = "unlabel" => j.flag \notin frames
    /\ j.phase = "delete" => j.class # None /\ \A f \in Made : f <= j.newest => flags[f].corrected # j.class

JobsOK == \A c \in Callers : jobs[c] # Idle => JobOK(jobs[c])
FlagsOK == \A f \in Made : FlagOK(f)

FlagInv == FlagsTypeOK /\ RowsInOrder /\ NumbersDiffer /\ FilesOfRows /\ OneMaker /\ JobsOK /\ FlagsOK

USE FlagsAssumption DEF FlagIds, Making, Listing, Purging

(***************************************************************************)
(* Types.                                                                  *)
(***************************************************************************)
LEMMA RowCount == ASSUME RowsInOrder PROVE Newest \in 0..MaxFlags /\ Made = 1..Newest
<1>1. PICK n \in 0..MaxFlags : Made = 1..n
  BY DEF RowsInOrder
<1>2. MaxFlags \in Nat
  OBVIOUS
<1>3. Cardinality(1..n) = n
  BY <1>2, FS_Interval
<1> QED
  BY <1>1, <1>2, <1>3 DEF Newest

LEMMA EntriesTyped == classes \in [Slugs -> Class \cup {None}] => EnabledClassEntries \subseteq Entry
  BY DEF EnabledClassEntries, Enabled, Exists, Class, Entry

LEMMA FlagsTypeInit == FlagsInit => FlagsTypeOK
<1> SUFFICES ASSUME FlagsInit PROVE FlagsTypeOK
  OBVIOUS
<1>1. classes \in [Slugs -> Class \cup {None}]
  BY DEF FlagsInit
<1>2. yaml \subseteq Entry
  BY <1>1, EntriesTyped DEF FlagsInit
<1>3. labels \in [FlagIds -> Nat \cup {Empty, NoFile}] /\ flags \in [FlagIds -> Flag \cup {None}]
  BY DEF FlagsInit
<1> QED
  BY <1>1, <1>2, <1>3 DEF FlagsInit, FlagsTypeOK

LEMMA JobTypes == ASSUME FlagsTypeOK, NEW c \in Callers, jobs[c] # Idle PROVE jobs[c] \in Job
  BY DEF FlagsTypeOK

LEMMA TypeStored == ASSUME FlagsTypeOK, NEW d \in Dets, Stored(d) PROVE FlagsTypeOK'
  BY DEF FlagsTypeOK, Stored, NoFailure, files, history

LEMMA TypeClasses ==
    ASSUME FlagsTypeOK,
           (\E s \in Slugs : HandleCreateClass(s) \/ HandlePatchClass(s)) \/ HandleBulkEnableClasses
    PROVE  FlagsTypeOK'
<1> USE DEF Count, NoFailure, files, history
<1>1. ASSUME NEW s \in Slugs, HandleCreateClass(s) PROVE FlagsTypeOK'
  <2>1. [yolo |-> NextYoloID, enabled |-> TRUE, row |-> requests'] \in Class
    BY <1>1, NumberIsNew DEF Class, HandleCreateClass, FlagsTypeOK
  <2> QED
    BY <1>1, <2>1 DEF HandleCreateClass, FlagsTypeOK
<1>2. ASSUME NEW s \in Slugs, HandlePatchClass(s) PROVE FlagsTypeOK'
  <2>1. PICK on \in BOOLEAN : on = ~classes[s].enabled
    OBVIOUS
  <2>2. [classes[s] EXCEPT !.enabled = on] \in Class
    BY <1>2 DEF Class, HandlePatchClass, FlagsTypeOK, Exists
  <2>3. classes' = [classes EXCEPT ![s] = [classes[s] EXCEPT !.enabled = on]]
    BY <1>2, <2>1, Zenon DEF HandlePatchClass
  <2>4. classes' \in [Slugs -> Class \cup {None}]
    BY <2>2, <2>3 DEF FlagsTypeOK
  <2>5. UNCHANGED <<flags, detections, files, jobs, history, failures>> /\ requests' = requests + 1
    BY <1>2, Zenon DEF HandlePatchClass
  <2> QED
    BY <2>4, <2>5 DEF FlagsTypeOK
<1>3. ASSUME HandleBulkEnableClasses PROVE FlagsTypeOK'
  BY <1>3 DEF HandleBulkEnableClasses, FlagsTypeOK, Exists, Class
<1> QED
  BY <1>1, <1>2, <1>3

\* The actions of a caller.
Does(c) ==
    \/ HandleDeleteClass(c) \/ DeleteClass(c)
    \/ HandleFlagDetection(c) \/ HandleManualFlag(c) \/ CreateFlag(c) \/ LookupClass(c)
    \/ WriteFrame(c) \/ WriteLabel(c) \/ WriteFails(c) \/ Rollback(c) \/ PatchPaths(c) \/ Abort(c)
    \/ HandleDismissFlag(c) \/ DeleteFrame(c) \/ DeleteLabel(c) \/ DeleteFails(c)
    \/ ReadEntries(c) \/ RegenerateDatasetYAML(c)

LEMMA NewJobTyped == NewJob \in Job
  BY DEF NewJob, Job

LEMMA LabelTyped == ASSUME FlagsTypeOK, NEW s \in Slugs \cup {None} PROVE LabelFor(s) \in Nat \cup {Empty}
  BY DEF FlagsTypeOK, LabelFor, Exists, Class

LEMMA GotoForm ==
    ASSUME FlagsTypeOK, NEW c \in Callers, NEW p \in Phases, jobs[c] # Idle, Goto(c, p)
    PROVE  LET j == jobs[c] IN jobs' = [jobs EXCEPT ![c] = With(j, p, j.flag, j.det, j.class, j.label, j.entries)]
<1>1. PICK j \in Job : j = jobs[c]
  BY JobTypes
<1>2. jobs' = [jobs EXCEPT ![c] = [jobs[c] EXCEPT !.phase = p]]
  BY DEF Goto
<1> QED
  BY <1>1, <1>2, PhaseChanged

LEMMA CreateForm ==
    ASSUME FlagsTypeOK, NEW c \in Callers, CreateFlag(c)
    PROVE  LET j == jobs[c] IN jobs' = [jobs EXCEPT ![c] = With(j, "lookup", Newest + 1, None, j.class, j.label, j.entries)]
<1>1. PICK j \in Job : j = jobs[c]
  BY JobTypes DEF CreateFlag, In
<1>2. jobs' = [jobs EXCEPT ![c] = [j EXCEPT !.phase = "lookup", !.flag = Newest + 1, !.det = None]]
  BY <1>1 DEF CreateFlag
<1> QED
  BY <1>1, <1>2, CreateChanged

LEMMA LookupForm ==
    ASSUME FlagsTypeOK, NEW c \in Callers, LookupClass(c)
    PROVE  LET j == jobs[c] IN
           jobs' = [jobs EXCEPT ![c] = With(j, "frame", j.flag, j.det, None, LabelFor(j.class), j.entries)]
<1>1. PICK j \in Job : j = jobs[c]
  BY JobTypes DEF LookupClass, In
<1>2. jobs' = [jobs EXCEPT ![c] = [j EXCEPT !.phase = "frame", !.label = LabelFor(j.class), !.class = None]]
  BY <1>1 DEF LookupClass
<1>3. [j EXCEPT !.phase = "frame", !.label = LabelFor(j.class), !.class = None]
        = With(j, "frame", j.flag, j.det, None, LabelFor(j.class), j.entries)
  BY LookupChanged
<1> QED
  BY <1>1, <1>2, <1>3

LEMMA LabelForm ==
    ASSUME FlagsTypeOK, NEW c \in Callers, NEW p \in Phases, jobs[c] # Idle,
           jobs' = [jobs EXCEPT ![c].phase = p, ![c].label = Empty]
    PROVE  LET j == jobs[c] IN
           jobs' = [jobs EXCEPT ![c] = With(j, p, j.flag, j.det, j.class, Empty, j.entries)]
<1>1. PICK j \in Job : j = jobs[c]
  BY JobTypes
<1>2. jobs' = [jobs EXCEPT ![c] = [jobs[c] EXCEPT !.phase = p, !.label = Empty]]
  OBVIOUS
<1> QED
  BY <1>1, <1>2, LabelChanged

LEMMA EntriesForm ==
    ASSUME FlagsTypeOK, NEW c \in Callers, ReadEntries(c)
    PROVE  LET j == jobs[c] IN \E e \in {j.entries, EnabledClassEntries} :
           jobs' = [jobs EXCEPT ![c] = With(j, "yaml", j.flag, j.det, j.class, j.label, e)]
<1>1. PICK j \in Job : j = jobs[c]
  BY JobTypes DEF ReadEntries, In
<1>2. \/ jobs' = [jobs EXCEPT ![c] = [j EXCEPT !.phase = "yaml", !.entries = EnabledClassEntries]]
      \/ jobs' = [jobs EXCEPT ![c] = [j EXCEPT !.phase = "yaml"]]
  BY <1>1 DEF ReadEntries, Goto
<1>3. /\ [j EXCEPT !.phase = "yaml", !.entries = EnabledClassEntries]
            = With(j, "yaml", j.flag, j.det, j.class, j.label, EnabledClassEntries)
      /\ [j EXCEPT !.phase = "yaml"] = With(j, "yaml", j.flag, j.det, j.class, j.label, j.entries)
  BY EntriesChanged, PhaseChanged
<1> QED
  BY <1>1, <1>2, <1>3

LEMMA Moved ==
    ASSUME FlagsTypeOK, NEW c \in Callers, NEW k \in Job \cup {Idle}, jobs' = [jobs EXCEPT ![c] = k]
    PROVE  /\ jobs' \in [Callers -> Job \cup {Idle}]
           /\ jobs'[c] = k
           /\ \A d \in Callers : d # c => jobs'[d] = jobs[d]
  BY DEF FlagsTypeOK

LEMMA TypeJobs == ASSUME FlagsTypeOK, RowsInOrder, NEW c \in Callers, Does(c) PROVE jobs' \in [Callers -> Job \cup {Idle}]
<1> USE NewJobTyped
<1>a. ASSUME jobs[c] # Idle PROVE jobs[c] \in Job
  BY <1>a, JobTypes
<1>1. CASE HandleDeleteClass(c)
  <2>1. PICK s \in Slugs, r \in Nat :
            jobs' = [jobs EXCEPT ![c] = [NewJob EXCEPT !.phase = "delete", !.class = s, !.row = r, !.newest = Newest]]
    BY <1>1 DEF HandleDeleteClass, Begin, FlagsTypeOK, Exists, Class
  <2>2. Newest \in Nat
    BY RowCount
  <2>3. ASSUME NEW n \in Nat PROVE [NewJob EXCEPT !.phase = "delete", !.class = s, !.row = r, !.newest = n] \in Job
    BY DEF NewJob, Job
  <2> QED
    BY <2>1, <2>2, <2>3, Moved
<1>2. CASE DeleteClass(c) \/ Rollback(c) \/ Abort(c)
  BY <1>2 DEF DeleteClass, Rollback, Abort, Finish, FlagsTypeOK
<1>3. CASE HandleFlagDetection(c) \/ HandleManualFlag(c)
  <2>1. ASSUME NEW d \in Dets, NEW s \in Slugs \cup {None}
        PROVE  [NewJob EXCEPT !.phase = "create", !.det = d, !.class = s] \in Job
    BY DEF NewJob, Job
  <2>2. ASSUME NEW s \in Slugs PROVE [NewJob EXCEPT !.phase = "create", !.class = s] \in Job
    BY DEF NewJob, Job
  <2>3. CASE HandleFlagDetection(c)
    BY <2>1, <2>3, Moved DEF HandleFlagDetection, Begin, FlagsTypeOK
  <2>4. CASE HandleManualFlag(c)
    BY <2>2, <2>4, Moved DEF HandleManualFlag, Begin
  <2> QED
    BY <1>3, <2>3, <2>4
<1>4. CASE CreateFlag(c)
  <2>1. With(jobs[c], "lookup", Newest + 1, None, jobs[c].class, jobs[c].label, jobs[c].entries) \in Job
    BY <1>a, <1>4, JobFields, WithTyped DEF CreateFlag, In, Phases
  <2> QED
    BY <1>4, <2>1, CreateForm, Moved
<1>5. CASE LookupClass(c)
  <2>1. jobs[c] \in Job
    BY <1>a, <1>5 DEF LookupClass, In
  <2>2. LabelFor(jobs[c].class) \in Nat \cup {Empty}
    BY <2>1, LabelTyped, JobFields
  <2>3. With(jobs[c], "frame", jobs[c].flag, jobs[c].det, None, LabelFor(jobs[c].class), jobs[c].entries) \in Job
    BY <2>1, <2>2, JobFields, WithTyped DEF Phases
  <2> QED
    BY <1>5, <2>3, LookupForm, Moved
<1>6. CASE \E p \in Phases : jobs[c] # Idle /\ Goto(c, p)
  <2>1. PICK p \in Phases : jobs[c] # Idle /\ Goto(c, p)
    BY <1>6
  <2>2. With(jobs[c], p, jobs[c].flag, jobs[c].det, jobs[c].class, jobs[c].label, jobs[c].entries) \in Job
    BY <1>a, <2>1, JobFields, WithTyped
  <2> QED
    BY <2>1, <2>2, GotoForm, Moved
<1>7. CASE WriteFrame(c) \/ PatchPaths(c) \/ DeleteFrame(c)
  BY <1>6, <1>7 DEF WriteFrame, PatchPaths, DeleteFrame, In, Phases
<1>8. CASE WriteLabel(c) \/ WriteFails(c)
  <2>1. PICK p \in {"patch", "rollback"} : jobs[c] # Idle /\ jobs' = [jobs EXCEPT ![c].phase = p, ![c].label = Empty]
    BY <1>8 DEF WriteLabel, WriteFails, In
  <2>2. p \in Phases
    BY DEF Phases
  <2>3. With(jobs[c], p, jobs[c].flag, jobs[c].det, jobs[c].class, Empty, jobs[c].entries) \in Job
    BY <1>a, <2>1, <2>2, JobFields, WithTyped
  <2> QED
    BY <2>1, <2>2, <2>3, LabelForm, Moved
<1>9. CASE DeleteLabel(c) \/ DeleteFails(c)
  BY <1>9 DEF DeleteLabel, DeleteFails, Regenerate, FlagsTypeOK
<1>10. CASE HandleDismissFlag(c)
  <2>1. ASSUME NEW f \in FlagIds PROVE [NewJob EXCEPT !.phase = "unframe", !.flag = f] \in Job
    BY DEF NewJob, Job
  <2> QED
    BY <1>10, <2>1, Moved DEF HandleDismissFlag, Begin, Made
<1>11. CASE ReadEntries(c)
  <2>1. jobs[c] \in Job
    BY <1>a, <1>11 DEF ReadEntries, In
  <2>2. PICK e \in {jobs[c].entries, EnabledClassEntries} :
            jobs' = [jobs EXCEPT ![c] = With(jobs[c], "yaml", jobs[c].flag, jobs[c].det, jobs[c].class, jobs[c].label, e)]
    BY <1>11, EntriesForm
  <2>3. e \in SUBSET Entry
    BY <2>1, <2>2, JobFields, EntriesTyped DEF FlagsTypeOK
  <2>4. With(jobs[c], "yaml", jobs[c].flag, jobs[c].det, jobs[c].class, jobs[c].label, e) \in Job
    BY <2>1, <2>3, JobFields, WithTyped DEF Phases
  <2> QED
    BY <2>2, <2>4, Moved
<1>12. CASE RegenerateDatasetYAML(c)
  <2>1. ASSUME NEW d \in Callers, jobs[d] # Idle PROVE [jobs[d] EXCEPT !.overtaken = TRUE] \in Job
    <3>1. PICK j \in Job : j = jobs[d]
      BY <2>1, JobTypes
    <3>2. [j EXCEPT !.overtaken = TRUE] \in Job
      BY DEF Job
    <3> QED
      BY <3>1, <3>2
  <2> QED
    BY <1>12, <2>1, JobTypes DEF RegenerateDatasetYAML, In, FlagsTypeOK
<1> QED
  BY <1>1, <1>2, <1>3, <1>4, <1>5, <1>7, <1>8, <1>9, <1>10, <1>11, <1>12 DEF Does

\* A row, dismissed or with its paths.
LEMMA FlagFields ==
    ASSUME NEW r \in Flag
    PROVE  /\ r # None
           /\ r.original \in Slugs /\ r.corrected \in Slugs \cup {None} /\ r.det \in Dets \cup {None}
           /\ r.active \in BOOLEAN /\ r.paths \in BOOLEAN
           /\ LET q == [r EXCEPT !.active = FALSE] IN
              /\ q \in Flag /\ q.original = r.original /\ q.corrected = r.corrected /\ q.det = r.det
              /\ q.active = FALSE /\ q.paths = r.paths
           /\ LET q == [r EXCEPT !.paths = TRUE] IN
              /\ q \in Flag /\ q.original = r.original /\ q.corrected = r.corrected /\ q.det = r.det
              /\ q.active = r.active /\ q.paths = TRUE
  BY DEF Flag

\* What a change of a row leaves as it was.
RowChanged(f) ==
    /\ flags' \in [FlagIds -> Flag \cup {None}]
    /\ Made' = Made /\ Newest' = Newest
    /\ \A g \in FlagIds : g # f => flags'[g] = flags[g]
    /\ \A g \in Made :
          /\ flags'[g].original = flags[g].original
          /\ flags'[g].corrected = flags[g].corrected
          /\ flags'[g].det = flags[g].det

LEMMA RowSet ==
    ASSUME FlagsTypeOK, NEW f \in Made, NEW q \in Flag, flags' = [flags EXCEPT ![f] = q],
           q.original = flags[f].original, q.corrected = flags[f].corrected, q.det = flags[f].det
    PROVE  RowChanged(f) /\ flags'[f] = q
<1>1. flags' \in [FlagIds -> Flag \cup {None}] /\ flags'[f] = q /\ \A g \in FlagIds : g # f => flags'[g] = flags[g]
  BY DEF FlagsTypeOK, Made
<1>2. Made' = Made
  BY <1>1, FlagFields DEF Made
<1>3. Newest' = Newest
  BY <1>2 DEF Newest
<1> QED
  BY <1>1, <1>2, <1>3 DEF RowChanged, Made

LEMMA RowDismissed ==
    ASSUME FlagsTypeOK, NEW f \in Made, flags' = [flags EXCEPT ![f].active = FALSE]
    PROVE  RowChanged(f) /\ flags'[f].paths = flags[f].paths /\ ~flags'[f].active
<1>1. PICK r \in Flag : r = flags[f]
  BY DEF FlagsTypeOK, Made
<1>2. flags' = [flags EXCEPT ![f] = [r EXCEPT !.active = FALSE]]
  BY <1>1
<1> DEFINE q == [r EXCEPT !.active = FALSE]
<1>3. /\ q \in Flag /\ q.original = r.original /\ q.corrected = r.corrected /\ q.det = r.det
      /\ q.active = FALSE /\ q.paths = r.paths
  BY FlagFields
<1> HIDE DEF q
<1>4. flags' = [flags EXCEPT ![f] = q]
  BY <1>2 DEF q
<1>5. RowChanged(f) /\ flags'[f] = q
  BY <1>1, <1>3, <1>4, RowSet
<1>6. q.paths = flags[f].paths /\ ~q.active
  BY <1>1, <1>3
<1> QED
  BY <1>5, <1>6

LEMMA PathsSet ==
    ASSUME FlagsTypeOK, NEW f \in Made, flags' = [flags EXCEPT ![f].paths = TRUE]
    PROVE  RowChanged(f) /\ flags'[f].paths /\ flags'[f].active = flags[f].active
<1>1. PICK r \in Flag : r = flags[f]
  BY DEF FlagsTypeOK, Made
<1>2. flags' = [flags EXCEPT ![f] = [r EXCEPT !.paths = TRUE]]
  BY <1>1
<1> DEFINE q == [r EXCEPT !.paths = TRUE]
<1>3. /\ q \in Flag /\ q.original = r.original /\ q.corrected = r.corrected /\ q.det = r.det
      /\ q.active = r.active /\ q.paths = TRUE
  BY FlagFields
<1> HIDE DEF q
<1>4. flags' = [flags EXCEPT ![f] = q]
  BY <1>2 DEF q
<1> QED
  BY <1>1, <1>3, <1>4, RowSet

\* A row is inserted.
LEMMA FlagCreated ==
    ASSUME FlagsTypeOK, RowsInOrder, JobsOK, NEW c \in Callers, CreateFlag(c)
    PROVE  LET f == Newest + 1 IN
           /\ f \in FlagIds /\ f \notin Made
           /\ flags' \in [FlagIds -> Flag \cup {None}]
           /\ \A g \in FlagIds : g # f => flags'[g] = flags[g]
           /\ flags'[f] \in Flag /\ flags'[f].corrected = jobs[c].class /\ ~flags'[f].paths
           /\ flags'[f].det # None => flags'[f].original = ClassOf[flags'[f].det]
           /\ Made' = Made \cup {f}
           /\ RowsInOrder' /\ Newest' = Newest + 1
<1>1. PICK j \in Job : j = jobs[c]
  BY JobTypes DEF CreateFlag, In
<1>2. j.phase = "create" /\ Newest + 1 \in FlagIds
  BY <1>1 DEF CreateFlag, In
<1>3. j.det = None => j.class # None
  BY <1>1, <1>2 DEF JobsOK, JobOK, CreateFlag, In
<1> DEFINE r == [original |-> IF j.det = None THEN j.class ELSE ClassOf[j.det],
                 corrected |-> j.class, det |-> j.det, active |-> TRUE, paths |-> FALSE]
<1>4. j.class \in Slugs \cup {None} /\ j.det \in Dets \cup {None}
  BY JobFields
<1>5. r \in Flag
  BY <1>3, <1>4 DEF Flag
<1>6. r.corrected = j.class /\ r.paths = FALSE /\ (r.det # None => r.original = ClassOf[r.det])
  OBVIOUS
<1>7. flags' = [flags EXCEPT ![Newest + 1] = r]
  BY <1>1 DEF CreateFlag
<1> HIDE DEF r
<1>8. r # None
  BY <1>5
<1>9. Made = 1..Newest /\ Newest \in 0..MaxFlags /\ Newest + 1 \notin Made
  BY RowCount
<1>10. /\ flags' \in [FlagIds -> Flag \cup {None}] /\ flags'[Newest + 1] = r
       /\ \A g \in FlagIds : g # Newest + 1 => flags'[g] = flags[g]
  BY <1>2, <1>5, <1>7 DEF FlagsTypeOK
<1>11. Made' = Made \cup {Newest + 1}
  BY <1>2, <1>8, <1>10 DEF Made
<1>12. Made' = 1..(Newest + 1) /\ Newest + 1 \in 0..MaxFlags
  BY <1>2, <1>9, <1>11
<1>13. RowsInOrder'
  BY <1>12 DEF RowsInOrder
<1>14. Cardinality(1..(Newest + 1)) = Newest + 1
  BY <1>9, FS_Interval
<1>15. Newest' = Newest + 1
  BY <1>12, <1>14 DEF Newest
<1> QED
  BY <1>1, <1>2, <1>5, <1>6, <1>9, <1>10, <1>11, <1>13, <1>15

LEMMA TypeDoes == ASSUME FlagsTypeOK, RowsInOrder, JobsOK, NEW c \in Callers, Does(c) PROVE FlagsTypeOK'
<1>1. jobs' \in [Callers -> Job \cup {Idle}]
  BY TypeJobs
<1>2. flags' \in [FlagIds -> Flag \cup {None}]
  <2>1. ASSUME In(c, "rollback") \/ In(c, "patch") PROVE jobs[c].flag \in Made
    BY <2>1 DEF In, JobsOK, JobOK
  <2>2. CASE Rollback(c) \/ PatchPaths(c)
    BY <2>1, <2>2, RowDismissed, PathsSet DEF Rollback, PatchPaths, RowChanged
  <2>3. CASE HandleDismissFlag(c)
    BY <2>3, RowDismissed DEF HandleDismissFlag, RowChanged
  <2>4. CASE CreateFlag(c)
    BY <2>4, FlagCreated
  <2>5. CASE UNCHANGED flags
    BY <2>5 DEF FlagsTypeOK
  <2> QED
    BY <2>2, <2>3, <2>4, <2>5 DEF Does, HandleDeleteClass, DeleteClass, HandleFlagDetection, HandleManualFlag, LookupClass,
       WriteFrame, WriteLabel, WriteFails, Abort, DeleteFrame, DeleteLabel, DeleteFails, ReadEntries, RegenerateDatasetYAML
<1>3. ASSUME In(c, "frame") \/ In(c, "label") PROVE jobs[c].flag \in FlagIds /\ jobs[c].label \in Nat \cup {Empty}
  BY <1>3, JobTypes, JobFields DEF In, JobsOK, JobOK, Made
<1>4. frames' \subseteq FlagIds /\ labels' \in [FlagIds -> Nat \cup {Empty, NoFile}]
  BY <1>3 DEF FlagsTypeOK, Does, HandleDeleteClass, DeleteClass, HandleFlagDetection, HandleManualFlag, CreateFlag, LookupClass,
     WriteFrame, WriteLabel, WriteFails, Rollback, PatchPaths, Abort, HandleDismissFlag, DeleteFrame, DeleteLabel, DeleteFails,
     ReadEntries, RegenerateDatasetYAML, files
<1>5. classes' \in [Slugs -> Class \cup {None}]
  BY DEF FlagsTypeOK, Does, HandleDeleteClass, DeleteClass, HandleFlagDetection, HandleManualFlag, CreateFlag, LookupClass,
     WriteFrame, WriteLabel, WriteFails, Rollback, PatchPaths, Abort, HandleDismissFlag, DeleteFrame, DeleteLabel, DeleteFails,
     ReadEntries, RegenerateDatasetYAML
<1>6. ASSUME jobs[c] # Idle
      PROVE  /\ jobs[c].flag \in FlagIds \cup {0} /\ jobs[c].entries \subseteq Entry /\ jobs[c].overtaken \in BOOLEAN
             /\ jobs[c].phase \in {"frame", "label", "unframe", "unlabel"} => jobs[c].flag \in FlagIds
  BY <1>6, JobTypes, JobFields DEF JobsOK, JobOK, Made
<1>7. raced' \subseteq FlagIds /\ purged' \subseteq FlagIds /\ early' \subseteq FlagIds
  <2>1. CASE CreateFlag(c)
    BY <2>1 DEF CreateFlag, FlagsTypeOK
  <2>2. CASE DeleteClass(c) \/ HandleDismissFlag(c)
    BY <2>2 DEF DeleteClass, HandleDismissFlag, FlagsTypeOK, Made
  <2>3. CASE UNCHANGED <<raced, purged, early>>
    BY <2>3 DEF FlagsTypeOK
  <2> QED
    BY <2>1, <2>2, <2>3 DEF Does, HandleDeleteClass, DeleteClass, HandleFlagDetection, HandleManualFlag, CreateFlag, LookupClass,
     WriteFrame, WriteLabel, WriteFails, Rollback, PatchPaths, Abort, HandleDismissFlag, DeleteFrame, DeleteLabel, DeleteFails,
     ReadEntries, RegenerateDatasetYAML, history
<1>8. broken' \subseteq FlagIds
  <2>1. CASE WriteFails(c) \/ DeleteFails(c) \/ Abort(c)
    BY <1>6, <2>1 DEF WriteFails, DeleteFails, Abort, In, FlagsTypeOK
  <2>2. CASE UNCHANGED broken
    BY <2>2 DEF FlagsTypeOK
  <2> QED
    BY <2>1, <2>2 DEF Does, HandleDeleteClass, DeleteClass, HandleFlagDetection, HandleManualFlag, CreateFlag, LookupClass,
     WriteFrame, WriteLabel, WriteFails, Rollback, PatchPaths, Abort, HandleDismissFlag, DeleteFrame, DeleteLabel, DeleteFails,
     ReadEntries, RegenerateDatasetYAML, history
<1>9. yaml' \subseteq Entry /\ disordered' \in BOOLEAN
  <2>1. CASE RegenerateDatasetYAML(c)
    BY <1>6, <2>1 DEF RegenerateDatasetYAML, In
  <2>2. CASE UNCHANGED <<yaml, disordered>>
    BY <2>2 DEF FlagsTypeOK
  <2> QED
    BY <2>1, <2>2 DEF Does, HandleDeleteClass, DeleteClass, HandleFlagDetection, HandleManualFlag, CreateFlag, LookupClass,
     WriteFrame, WriteLabel, WriteFails, Rollback, PatchPaths, Abort, HandleDismissFlag, DeleteFrame, DeleteLabel, DeleteFails,
     ReadEntries, RegenerateDatasetYAML, history, files
<1>10. detections' = detections /\ requests' \in {requests, requests + 1} /\ failures' \in {failures, failures + 1}
  BY DEF Does, HandleDeleteClass, DeleteClass, HandleFlagDetection, HandleManualFlag, CreateFlag, LookupClass,
     WriteFrame, WriteLabel, WriteFails, Rollback, PatchPaths, Abort, HandleDismissFlag, DeleteFrame, DeleteLabel, DeleteFails,
     ReadEntries, RegenerateDatasetYAML,
     Begin, Count, NoFailure, Failure
<1> QED
  BY <1>1, <1>2, <1>4, <1>5, <1>7, <1>8, <1>9, <1>10 DEF FlagsTypeOK
(***************************************************************************)
(* What the others keep.  A job stays all right when rows are added, the   *)
(* classes that count stay and its flag is left as its phase wants it.     *)
(***************************************************************************)
\* The rows are what they were but for those added, and the classes of those
\* that count too.
RowsKept ==
    /\ Made \subseteq Made' /\ Newest' \in Nat /\ Newest <= Newest'
    /\ \A f \in Made' : f \in Made \/ f > Newest
    /\ raced \subseteq raced' /\ broken \subseteq broken'
    /\ \A f \in Made : flags'[f].corrected = flags[f].corrected
    /\ \A f \in Made \ Exempt' : Denoted(f)' = Denoted(f)

\* The flag is where a job that is at it in this phase wants it to be.
FlagKept(f, phase) ==
    /\ phase \in Making => /\ ~flags'[f].paths
                           /\ f \in frames => f \in frames'
                           /\ labels[f] # NoFile => labels'[f] # NoFile
    /\ phase \in Purging => flags'[f].paths /\ ~flags'[f].active /\ (f \notin frames => f \notin frames')
    /\ phase \in Listing => flags'[f].paths

LEMMA JobKept ==
    ASSUME FlagsTypeOK, RowsInOrder, RowsKept, NEW j, JobOK(j), j.flag \in Made => FlagKept(j.flag, j.phase)
    PROVE  JobOK(j)'
<1>1. Newest \in Nat /\ (\A f \in Made : f \in Nat) /\ (\A f \in Made' : f \in Nat)
  BY RowCount DEF Made
<1>2. j.newest \in 0..Newest' /\ j.flag \in Made' \cup {0}
  BY <1>1 DEF JobOK, RowsKept
<1>3. j.phase = "delete" => \A f \in Made' : f <= j.newest => flags'[f].corrected # j.class
  BY <1>1 DEF JobOK, RowsKept
<1>4. j.phase \in {"frame", "label"} => j.flag \in Exempt' \/ j.label = Denoted(j.flag)'
  BY DEF JobOK, RowsKept, Exempt
<1> QED
  BY <1>2, <1>3, <1>4 DEF JobOK, RowsKept, FlagKept

\* A caller's next job: at the same flag in the same stage, or the step of
\* the flag has failed.
Stays(c, k, stage) ==
    jobs[c] # Idle /\ jobs[c].phase \in stage /\ jobs[c].flag # 0 =>
        \/ jobs[c].flag \in broken'
        \/ k # Idle /\ k.phase \in stage /\ k.flag = jobs[c].flag

Follows(c, k) ==
    /\ k # Idle =>
         /\ JobOK(k)
         /\ k.phase \in Making => At(c, k.flag, Making)
         /\ k.phase = "yaml" => k = jobs[c] \/ \A f \in Made : Numbered(f) => Consistent(f, k.entries)
    /\ Stays(c, k, Making) /\ Stays(c, k, Purging) /\ Stays(c, k, Listing)

LEMMA IdleFollows == ASSUME FlagInv, NEW c \in Callers PROVE Follows(c, jobs[c])
  BY DEF FlagInv, JobsOK, Follows, Stays, At

\* A step that changes neither rows nor files, nor the classes that count.
Quiet ==
    /\ UNCHANGED <<flags, frames, labels, yaml, disordered, purged, early>>
    /\ raced \subseteq raced' /\ broken \subseteq broken'
    /\ NumbersDiffer'
    /\ \A f \in Made \ Exempt' : Denoted(f)' = Denoted(f) /\ ClassKept(f)'

\* Such a step keeps the invariant if every caller goes on as it may.
LEMMA QuietStep ==
    ASSUME FlagInv, FlagsTypeOK', Quiet, \A d \in Callers : Follows(d, jobs'[d])
    PROVE  FlagInv'
<1>1. Made' = Made
  BY DEF Made, Quiet
<1>2. Newest' = Newest /\ Newest \in Nat
  BY <1>1, RowCount DEF Newest, FlagInv
<1>3. RowsInOrder' /\ FilesOfRows' /\ NumbersDiffer'
  BY <1>1 DEF FlagInv, Quiet, RowsInOrder, FilesOfRows
<1>4. JobsOK'
  <2> SUFFICES ASSUME NEW d \in Callers, jobs'[d] # Idle PROVE JobOK(jobs[d])'
    BY DEF JobsOK
  <2>1. PICK j : j = jobs'[d]
    OBVIOUS
  <2>2. JobOK(j)
    BY <2>1 DEF Follows
  <2>3. RowsKept
    BY <1>1, <1>2 DEF RowsKept, Quiet
  <2>4. j.flag \in Made => FlagKept(j.flag, j.phase)
    BY <2>2 DEF FlagKept, Quiet, JobOK, Made
  <2>5. JobOK(j)'
    BY <2>2, <2>3, <2>4, JobKept DEF FlagInv
  <2> QED
    BY <2>1, <2>5
<1>5. OneMaker'
  BY <1>1 DEF FlagInv, OneMaker, At, Follows
<1>6. FlagsOK'
  <2> SUFFICES ASSUME NEW f \in Made PROVE FlagOK(f)'
    BY <1>1 DEF FlagsOK
  <2>1. f # 0 /\ FlagOK(f)
    BY DEF Made, FlagInv, FlagsOK
  <2>2. f \notin broken' => f \notin broken
    BY DEF Quiet
  <2>3. ASSUME NEW d \in Callers, NEW S \in {Making, Purging, Listing}, f \notin broken', At(d, f, S) PROVE At(d, f, S)'
    BY <2>1, <2>3 DEF At, Follows, Stays
  <2>4. Original(f)' /\ Complete(f)' /\ ClassKept(f)' /\ LabelKept(f)' /\ Early(f)'
    BY <2>1 DEF FlagOK, Original, Complete, Early, LabelKept, ClassKept, Quiet, Exempt
  <2>5. Owned(f)'
    BY <2>1, <2>2, <2>3 DEF FlagOK, Owned, Quiet
  <2>6. Named(f)'
    <3> SUFFICES ASSUME Numbered(f)' PROVE
              /\ \/ \E d \in Callers : At(d, f, Listing)'
                 \/ /\ ~disordered => Consistent(f, yaml)
                    /\ \A d \in Callers : jobs'[d] # Idle /\ jobs'[d].phase = "yaml" /\ ~jobs'[d].overtaken
                          => Consistent(f, jobs'[d].entries)
              /\ \A d \in Callers : At(d, f, {"yaml"})' => Consistent(f, jobs'[d].entries)
      BY DEF Named, Quiet, Consistent
    <3>1. Numbered(f) /\ f \notin broken'
      BY DEF Numbered, Quiet, Exempt
    <3>2. ASSUME NEW d \in Callers, jobs'[d] # Idle, jobs'[d].phase = "yaml"
          PROVE  jobs'[d] = jobs[d] \/ Consistent(f, jobs'[d].entries)
      BY <3>1, <3>2 DEF Follows
    <3> QED
      BY <2>1, <2>3, <3>1, <3>2 DEF FlagOK, Named, At
  <2> QED
    BY <2>4, <2>5, <2>6 DEF FlagOK
<1> QED
  BY <1>3, <1>4, <1>5, <1>6 DEF FlagInv

LEMMA QuietMove ==
    ASSUME FlagInv, FlagsTypeOK', Quiet, NEW c \in Callers, NEW k, jobs' = [jobs EXCEPT ![c] = k], Follows(c, k)
    PROVE  FlagInv'
<1>1. jobs'[c] = k /\ \A d \in Callers : d # c => jobs'[d] = jobs[d]
  BY DEF FlagInv, FlagsTypeOK
<1> QED
  BY <1>1, IdleFollows, QuietStep

LEMMA ClassesSame ==
    ASSUME FlagInv, raced \subseteq raced', broken \subseteq broken',
           UNCHANGED <<classes, flags, frames, labels, yaml, disordered, purged, early>>
    PROVE  Quiet
<1>1. \A s : LabelFor(s)' = LabelFor(s) /\ Exists(s)' = Exists(s)
  BY DEF LabelFor, Exists
<1>2. NumbersDiffer'
  BY <1>1 DEF FlagInv, NumbersDiffer
<1>3. \A f \in Made \ Exempt' : Denoted(f)' = Denoted(f) /\ ClassKept(f)'
  BY <1>1 DEF FlagInv, FlagsOK, FlagOK, ClassKept, Exempt, Denoted
<1> QED
  BY <1>2, <1>3 DEF Quiet

\* What the taxonomy calls the numbers of the labels that count.
LEMMA LabelNames ==
    ASSUME FlagInv, NEW f \in Made, f \notin Exempt, labels[f] \in Nat
    PROVE  LET s == flags[f].corrected IN s \in Slugs /\ Exists(s) /\ classes[s].yolo = labels[f]
<1>0. flags[f] \in Flag
  BY DEF FlagInv, FlagsTypeOK, Made
<1>1. flags[f].corrected \in Slugs \cup {None}
  BY <1>0, FlagFields
<1>2. labels[f] = LabelFor(flags[f].corrected)
  BY DEF FlagInv, FlagsOK, FlagOK, LabelKept, Denoted
<1> QED
  BY <1>1, <1>2 DEF LabelFor

LEMMA EntriesConsistent ==
    ASSUME FlagInv, NEW f \in Made, Numbered(f)
    PROVE  Consistent(f, EnabledClassEntries)
<1>1. flags[f].corrected \in Slugs /\ Exists(flags[f].corrected) /\ classes[flags[f].corrected].yolo = labels[f]
  BY LabelNames DEF Numbered
<1> SUFFICES ASSUME NEW e \in EnabledClassEntries, e[1] = labels[f] PROVE e[2] = flags[f].corrected
  BY DEF Consistent
<1>2. PICK s \in Enabled : e = <<classes[s].yolo, s>>
  BY DEF EnabledClassEntries
<1>3. s \in Slugs /\ Exists(s) /\ classes[s].yolo = labels[f] /\ e[2] = s
  BY <1>2 DEF Enabled
<1> QED
  BY <1>1, <1>3 DEF FlagInv, NumbersDiffer

LEMMA QuietActions ==
    ASSUME FlagInv, FlagsTypeOK', NEW c \in Callers,
           \/ HandleDeleteClass(c) \/ HandleFlagDetection(c) \/ HandleManualFlag(c) \/ LookupClass(c)
           \/ Abort(c) \/ DeleteFails(c) \/ ReadEntries(c)
    PROVE  FlagInv'
<1> USE DEF NoFailure, files, history
<1>a. FlagsTypeOK /\ JobsOK /\ RowsInOrder /\ Newest \in 0..MaxFlags
  BY RowCount DEF FlagInv
<1>c. ASSUME jobs[c] # Idle PROVE jobs[c] \in Job /\ JobOK(jobs[c])
  BY <1>a, <1>c, JobTypes DEF JobsOK
<1>1. CASE HandleDeleteClass(c)
  <2>1. PICK s \in Slugs : /\ Exists(s) /\ ~HasFlags(s)
                           /\ Begin(c, [NewJob EXCEPT !.phase = "delete", !.class = s, !.row = classes[s].row, !.newest = Newest])
    BY <1>1 DEF HandleDeleteClass
  <2> DEFINE k == [NewJob EXCEPT !.phase = "delete", !.class = s, !.row = classes[s].row, !.newest = Newest]
  <2>2. k.phase = "delete" /\ k.flag = 0 /\ k.class = s /\ k.newest = Newest /\ k.entries = {}
    BY DEF NewJob
  <2>3. jobs[c] = Idle /\ jobs' = [jobs EXCEPT ![c] = k]
    BY <2>1 DEF Begin
  <2>4. jobs' \in [Callers -> Job \cup {Idle}]
    BY DEF FlagsTypeOK
  <2> HIDE DEF k
  <2>5. k \in Job \cup {Idle}
    BY <1>a, <2>3, <2>4 DEF FlagsTypeOK
  <2>6. JobOK(k)
    BY <1>a, <2>1, <2>2 DEF JobOK, HasFlags
  <2>7. Follows(c, k)
    BY <2>2, <2>3, <2>5, <2>6 DEF Follows, Stays
  <2>9. Quiet
    BY <1>1, ClassesSame DEF HandleDeleteClass
  <2> QED
    BY <2>3, <2>7, <2>9, QuietMove
<1>2. CASE HandleFlagDetection(c) \/ HandleManualFlag(c)
  <2>1. PICK k : /\ jobs[c] = Idle /\ jobs' = [jobs EXCEPT ![c] = k]
                 /\ k.phase = "create" /\ k.flag = 0 /\ k.newest = 0 /\ k.entries = {} /\ (k.det = None => k.class # None)
    <3>1. ASSUME NEW d, NEW s
          PROVE  LET k == [NewJob EXCEPT !.phase = "create", !.det = d, !.class = s] IN
                 k.phase = "create" /\ k.flag = 0 /\ k.newest = 0 /\ k.entries = {} /\ k.det = d
      BY DEF NewJob
    <3>2. ASSUME NEW s
          PROVE  LET k == [NewJob EXCEPT !.phase = "create", !.class = s] IN
                 k.phase = "create" /\ k.flag = 0 /\ k.newest = 0 /\ k.entries = {} /\ k.class = s
      BY DEF NewJob
    <3>3. CASE HandleFlagDetection(c)
      <4>1. PICK d \in detections, s \in Slugs \cup {None} : Begin(c, [NewJob EXCEPT !.phase = "create", !.det = d, !.class = s])
        BY <3>3 DEF HandleFlagDetection
      <4>2. d # None
        BY <1>a DEF FlagsTypeOK
      <4> DEFINE k == [NewJob EXCEPT !.phase = "create", !.det = d, !.class = s]
      <4>3. jobs[c] = Idle /\ jobs' = [jobs EXCEPT ![c] = k]
        BY <4>1 DEF Begin
      <4>4. k.phase = "create" /\ k.flag = 0 /\ k.newest = 0 /\ k.entries = {} /\ k.det = d
        BY <3>1
      <4> HIDE DEF k
      <4> QED
        BY <4>2, <4>3, <4>4
    <3>4. CASE HandleManualFlag(c)
      <4>1. PICK s \in Slugs : Begin(c, [NewJob EXCEPT !.phase = "create", !.class = s])
        BY <3>4 DEF HandleManualFlag
      <4> DEFINE k == [NewJob EXCEPT !.phase = "create", !.class = s]
      <4>2. jobs[c] = Idle /\ jobs' = [jobs EXCEPT ![c] = k]
        BY <4>1 DEF Begin
      <4>3. k.phase = "create" /\ k.flag = 0 /\ k.newest = 0 /\ k.entries = {} /\ k.class = s
        BY <3>2
      <4> HIDE DEF k
      <4> QED
        BY <4>2, <4>3
    <3> QED
      BY <1>2, <3>3, <3>4
  <2>2. jobs' \in [Callers -> Job \cup {Idle}]
    BY DEF FlagsTypeOK
  <2>3. k \in Job \cup {Idle}
    BY <1>a, <2>1, <2>2 DEF FlagsTypeOK
  <2>4. JobOK(k)
    BY <1>a, <2>1 DEF JobOK
  <2>5. Follows(c, k)
    BY <2>1, <2>3, <2>4 DEF Follows, Stays
  <2>9. Quiet
    BY <1>2, ClassesSame DEF HandleFlagDetection, HandleManualFlag
  <2> QED
    BY <2>1, <2>5, <2>9, QuietMove
<1>3. CASE LookupClass(c)
  <2> DEFINE k == With(jobs[c], "frame", jobs[c].flag, jobs[c].det, None, LabelFor(jobs[c].class), jobs[c].entries)
  <2>1. jobs[c] # Idle /\ jobs[c].phase = "lookup" /\ jobs' = [jobs EXCEPT ![c] = k]
    BY <1>a, <1>3, LookupForm DEF LookupClass, In
  <2>2. k.phase = "frame" /\ k.flag = jobs[c].flag /\ k.newest = jobs[c].newest /\ k.entries = jobs[c].entries
        /\ k.label = LabelFor(jobs[c].class)
    BY DEF With
  <2> HIDE DEF k
  <2>3. k \in Job
    <3>1. LabelFor(jobs[c].class) \in Nat \cup {Empty}
      BY <1>a, <1>c, <2>1, LabelTyped, JobFields
    <3> QED
      BY <1>c, <2>1, <3>1, JobFields, WithTyped DEF k, Phases
  <2>4. JobOK(k)
    BY <1>c, <2>1, <2>2 DEF JobOK, Denoted
  <2>5. At(c, k.flag, Making) /\ k.phase # "yaml"
    BY <2>1, <2>2 DEF At
  <2>6. Stays(c, k, Making) /\ Stays(c, k, Purging) /\ Stays(c, k, Listing)
    BY <2>1, <2>2, <2>3 DEF Stays
  <2>7. Follows(c, k)
    BY <2>1, <2>2, <2>3, <2>4, <2>5, <2>6 DEF Follows
  <2>9. Quiet
    BY <1>3, ClassesSame DEF LookupClass
  <2> QED
    BY <2>1, <2>7, <2>9, QuietMove
<1>4. CASE Abort(c)
  <2>1. Follows(c, Idle)
    BY <1>4, <1>c, JobFields DEF Abort, Finish, Follows, Stays
  <2>9. Quiet
    BY <1>4, ClassesSame DEF Abort
  <2> QED
    BY <1>4, <2>1, <2>9, QuietMove DEF Abort, Finish
<1>5. CASE DeleteFails(c)
  <2>1. jobs[c] # Idle /\ jobs[c].phase \in Purging /\ jobs[c].flag \in broken' /\ jobs' = [jobs EXCEPT ![c] = NewJob]
    BY <1>5 DEF DeleteFails, In, Regenerate
  <2>2. NewJob.phase = "entries" /\ NewJob.flag = 0 /\ NewJob.newest = 0 /\ NewJob.entries = {}
    BY DEF NewJob
  <2>3. JobOK(NewJob)
    BY <1>a, <2>2 DEF JobOK
  <2>4. Follows(c, NewJob)
    BY <2>1, <2>2, <2>3, NewJobTyped DEF Follows, Stays
  <2>9. Quiet
    BY <1>5, ClassesSame DEF DeleteFails
  <2> QED
    BY <2>1, <2>4, <2>9, QuietMove
<1>6. CASE ReadEntries(c)
  <2>1. PICK e \in {jobs[c].entries, EnabledClassEntries} :
            jobs' = [jobs EXCEPT ![c] = With(jobs[c], "yaml", jobs[c].flag, jobs[c].det, jobs[c].class, jobs[c].label, e)]
    BY <1>a, <1>6, EntriesForm
  <2> DEFINE k == With(jobs[c], "yaml", jobs[c].flag, jobs[c].det, jobs[c].class, jobs[c].label, e)
  <2>2. jobs[c] # Idle /\ jobs[c].phase = "entries"
    BY <1>6 DEF ReadEntries, In
  <2>3. k.phase = "yaml" /\ k.flag = jobs[c].flag /\ k.newest = jobs[c].newest /\ k.entries = e /\ k.class = jobs[c].class
    BY DEF With
  <2> HIDE DEF k
  <2>4. jobs' = [jobs EXCEPT ![c] = k]
    BY <2>1 DEF k
  <2>5. k \in Job
    <3>1. e \in SUBSET Entry
      BY <1>a, <1>c, <2>1, <2>2, JobFields, EntriesTyped DEF FlagsTypeOK
    <3> QED
      BY <1>c, <2>2, <3>1, JobFields, WithTyped DEF k, Phases
  <2>6. JobOK(k)
    BY <1>c, <2>2, <2>3 DEF JobOK
  <2>7. ASSUME NEW f \in Made, Numbered(f) PROVE Consistent(f, e)
    BY <1>c, <2>1, <2>2, <2>7, EntriesConsistent DEF JobOK, Consistent
  <2>8. Follows(c, k)
    BY <2>2, <2>3, <2>4, <2>5, <2>6, <2>7 DEF Follows, Stays
  <2>9. Quiet
    BY <1>6, ClassesSame DEF ReadEntries
  <2> QED
    BY <2>4, <2>8, <2>9, QuietMove
<1> QED
  BY <1>1, <1>2, <1>3, <1>4, <1>5, <1>6
\* Steps of the taxonomy: the numbers of existing classes stay.
LEMMA ClassesGrow ==
    ASSUME FlagInv, FlagsTypeOK', UNCHANGED <<flags, files, jobs, history>>, NumbersDiffer',
           \A s \in Slugs : Exists(s) => Exists(s)' /\ classes'[s].yolo = classes[s].yolo
    PROVE  FlagInv'
<1>1. ASSUME NEW f \in Made \ Exempt' PROVE Denoted(f)' = Denoted(f) /\ ClassKept(f)'
  <2>1. flags[f] \in Flag /\ ClassKept(f) /\ f \notin Exempt
    BY DEF FlagInv, FlagsTypeOK, FlagsOK, FlagOK, Made, history, Exempt
  <2>2. flags[f].corrected \in Slugs \cup {None}
    BY <2>1, FlagFields
  <2> QED
    BY <2>1, <2>2 DEF ClassKept, Denoted, LabelFor
<1>2. Quiet
  BY <1>1 DEF Quiet, files, history
<1>3. \A d \in Callers : Follows(d, jobs'[d])
  BY IdleFollows
<1> QED
  BY <1>2, <1>3, QuietStep

LEMMA ClassActions ==
    ASSUME FlagInv, FlagsTypeOK',
           (\E s \in Slugs : HandleCreateClass(s) \/ HandlePatchClass(s)) \/ HandleBulkEnableClasses
    PROVE  FlagInv'
<1> USE DEF FlagInv
<1>1. ASSUME NEW s \in Slugs, HandleCreateClass(s) PROVE FlagInv'
  <2>1. ~Exists(s) /\ classes' = [classes EXCEPT ![s] = [yolo |-> NextYoloID, enabled |-> TRUE, row |-> requests']]
        /\ UNCHANGED <<flags, files, jobs, history>>
    BY <1>1 DEF HandleCreateClass
  <2>2. \A t \in Slugs : t # s => classes'[t] = classes[t]
    BY <2>1 DEF FlagsTypeOK
  <2>3. classes'[s].yolo = NextYoloID
    BY <2>1 DEF FlagsTypeOK
  <2>4. \A t \in Slugs : Exists(t) => t # s /\ Exists(t)' /\ classes'[t].yolo = classes[t].yolo
    BY <2>1, <2>2 DEF Exists
  <2>5. NextYoloID \in Nat /\ \A t \in Slugs : Exists(t) => classes[t].yolo # NextYoloID
    BY NumberIsNew DEF FlagsTypeOK, Exists, Class
  <2>6. \A t \in Slugs : Exists(t)' => t = s \/ Exists(t)
    BY <2>2 DEF Exists
  <2>7. NumbersDiffer'
    BY <2>3, <2>4, <2>5, <2>6 DEF NumbersDiffer
  <2> QED
    BY <2>1, <2>4, <2>7, ClassesGrow
<1>2. ASSUME \A t \in Slugs : (Exists(t)' <=> Exists(t)) /\ (Exists(t) => classes'[t].yolo = classes[t].yolo),
             UNCHANGED <<flags, files, jobs, history>>
      PROVE  FlagInv'
  BY <1>2, ClassesGrow DEF NumbersDiffer
<1>3. ASSUME NEW s \in Slugs, HandlePatchClass(s) PROVE FlagInv'
  <2>1. PICK on \in BOOLEAN : on = ~classes[s].enabled
    OBVIOUS
  <2>2. classes' = [classes EXCEPT ![s] = [classes[s] EXCEPT !.enabled = on]]
    BY <1>3, <2>1, Zenon DEF HandlePatchClass
  <2>3. Exists(s) /\ UNCHANGED <<flags, files, jobs, history>>
    BY <1>3, Zenon DEF HandlePatchClass
  <2>4. [classes[s] EXCEPT !.enabled = on] # None /\ [classes[s] EXCEPT !.enabled = on].yolo = classes[s].yolo
    BY <2>3 DEF Exists, FlagsTypeOK, Class
  <2>5. \A t \in Slugs : (Exists(t)' <=> Exists(t)) /\ (Exists(t) => classes'[t].yolo = classes[t].yolo)
    BY <2>2, <2>3, <2>4 DEF Exists, FlagsTypeOK
  <2> QED
    BY <1>2, <2>3, <2>5
<1>4. ASSUME HandleBulkEnableClasses PROVE FlagInv'
  <2>1. PICK S \in SUBSET Slugs, on \in BOOLEAN :
          /\ \A s \in S : Exists(s)
          /\ classes' = [s \in Slugs |-> IF s \in S THEN [classes[s] EXCEPT !.enabled = on] ELSE classes[s]]
          /\ UNCHANGED <<flags, files, jobs, history>>
    BY <1>4 DEF HandleBulkEnableClasses
  <2>2. ASSUME NEW s \in Slugs, Exists(s)
        PROVE  [classes[s] EXCEPT !.enabled = on] # None /\ [classes[s] EXCEPT !.enabled = on].yolo = classes[s].yolo
    BY <2>2 DEF Exists, FlagsTypeOK, Class
  <2>3. \A t \in Slugs : (Exists(t)' <=> Exists(t)) /\ (Exists(t) => classes'[t].yolo = classes[t].yolo)
    BY <2>1, <2>2 DEF Exists
  <2> QED
    BY <1>2, <2>1, <2>3
<1> QED
  BY <1>1, <1>3, <1>4

\* No flag that counts loses its class.
LEMMA DeleteClassKeeps == ASSUME FlagInv, FlagsTypeOK', NEW c \in Callers, DeleteClass(c) PROVE FlagInv'
<1>1. jobs' = [jobs EXCEPT ![c] = Idle] /\ Follows(c, Idle)
  BY DEF DeleteClass, Finish, In, Follows, Stays
<1>2. jobs[c] # Idle /\ jobs[c].phase = "delete" /\ JobOK(jobs[c]) /\ jobs[c] \in Job
  BY JobTypes DEF DeleteClass, In, FlagInv, JobsOK
<1>3. CASE UNCHANGED <<classes, raced>>
  <2>1. Quiet
    BY <1>3, ClassesSame DEF DeleteClass, NoFailure, files
  <2> QED
    BY <1>1, <2>1, QuietMove
<1>4. CASE /\ classes' = [classes EXCEPT ![jobs[c].class] = None]
           /\ raced' = raced \cup {f \in Made : f > jobs[c].newest /\ flags[f].corrected = jobs[c].class}
  <2>1. jobs[c].class \in Slugs /\ jobs[c].newest \in Nat
    BY <1>2, JobFields DEF JobOK
  <2>2. \A s \in Slugs : s # jobs[c].class => classes'[s] = classes[s]
    BY <1>4 DEF FlagInv, FlagsTypeOK
  <2>3. classes'[jobs[c].class] = None
    BY <1>4, <2>1 DEF FlagInv, FlagsTypeOK
  <2>4. UNCHANGED <<flags, frames, labels, yaml, disordered, purged, early, broken>>
    BY DEF DeleteClass, files
  <2>5. ASSUME NEW f \in Made \ Exempt' PROVE Denoted(f)' = Denoted(f) /\ ClassKept(f)'
    <3>1. f \in FlagIds /\ flags[f] \in Flag /\ ClassKept(f) /\ f \notin Exempt
      BY <1>4, <2>4 DEF FlagInv, FlagsTypeOK, FlagsOK, FlagOK, Made, Exempt
    <3>2. flags[f].corrected \in Slugs \cup {None}
      BY <3>1, FlagFields
    <3>3. flags[f].corrected # jobs[c].class
      BY <1>2, <1>4, <2>1, <3>1 DEF JobOK, Exempt
    <3> QED
      BY <2>2, <2>4, <3>1, <3>2, <3>3 DEF ClassKept, Denoted, LabelFor, Exists
  <2>6. NumbersDiffer'
    BY <2>2, <2>3 DEF FlagInv, NumbersDiffer, Exists
  <2>7. Quiet
    BY <1>4, <2>4, <2>5, <2>6 DEF Quiet
  <2> QED
    BY <1>1, <2>7, QuietMove
<1> QED
  BY <1>3, <1>4 DEF DeleteClass
(***************************************************************************)
(* Steps on one flag: the rest of the rows, files and jobs are as before,  *)
(* and what is left to show is about the flag and the caller at it.        *)
(***************************************************************************)
\* A step of one caller on one flag: its row, its files and the caller's job.
OneFlag(c, f, k) ==
    /\ UNCHANGED <<classes, yaml, disordered>>
    /\ RowsInOrder' /\ Made' = Made \cup {f} /\ Newest' \in Nat /\ Newest <= Newest'
    /\ f \in Made => flags'[f].corrected = flags[f].corrected
    /\ f \notin Made => f > Newest
    /\ \A g \in FlagIds : g # f =>
          /\ flags'[g] = flags[g] /\ labels'[g] = labels[g]
          /\ g \in frames' <=> g \in frames
          /\ g \in raced' <=> g \in raced
          /\ g \in broken' <=> g \in broken
          /\ g \in early' <=> g \in early
          /\ g \in purged' <=> g \in purged
    /\ raced \subseteq raced' /\ broken \subseteq broken'
    /\ jobs' = [jobs EXCEPT ![c] = k]
    /\ jobs[c] # Idle => jobs[c].flag \in {0, f} /\ jobs[c].phase # "yaml"
    /\ k # Idle => k.flag \in {0, f} /\ k.phase # "yaml" /\ (k.phase \in Making => At(c, f, Making) \/ f \notin Made)

LEMMA OneFlagStep ==
    ASSUME FlagInv, FlagsTypeOK', NEW c \in Callers, NEW f \in FlagIds, NEW k, OneFlag(c, f, k),
           k # Idle => JobOK(k)', FlagOK(f)',
           \A d \in Callers : d # c /\ jobs[d] # Idle /\ jobs[d].flag = f /\ f \in Made => FlagKept(f, jobs[d].phase)
    PROVE  FlagInv'
<1>1. jobs'[c] = k /\ \A d \in Callers : d # c => jobs'[d] = jobs[d]
  BY DEF OneFlag, FlagInv, FlagsTypeOK
<1>2. \A s : LabelFor(s)' = LabelFor(s) /\ Exists(s)' = Exists(s)
  BY DEF LabelFor, Exists, OneFlag
<1>3. NumbersDiffer'
  BY <1>2 DEF FlagInv, NumbersDiffer, OneFlag
<1>4. FilesOfRows'
  BY DEF FlagInv, FilesOfRows, OneFlag, FlagsTypeOK
<1>5. Newest \in Nat /\ \A g \in Made : g \in FlagIds /\ g # 0
  BY RowCount DEF FlagInv, Made
<1>6. RowsKept
  <2>1. \A g \in Made : flags'[g].corrected = flags[g].corrected
    BY <1>5 DEF OneFlag
  <2>2. \A g \in Made : Denoted(g)' = Denoted(g)
    BY <1>2, <2>1 DEF Denoted
  <2> QED
    BY <2>1, <2>2 DEF RowsKept, OneFlag
<1>7. JobsOK'
  <2> SUFFICES ASSUME NEW d \in Callers, jobs'[d] # Idle, d # c PROVE JobOK(jobs[d])'
    BY <1>1 DEF JobsOK
  <2>1. PICK j : j = jobs[d]
    OBVIOUS
  <2>2. jobs'[d] = j /\ JobOK(j)
    BY <1>1, <2>1 DEF FlagInv, JobsOK
  <2>3. ASSUME j.flag \in Made PROVE FlagKept(j.flag, j.phase)
    <3>1. CASE j.flag = f
      BY <1>1, <2>1, <2>2, <2>3, <3>1
    <3>2. CASE j.flag # f
      BY <1>5, <2>2, <2>3, <3>2 DEF FlagKept, OneFlag, JobOK
    <3> QED
      BY <3>1, <3>2
  <2>4. JobOK(j)'
    BY <1>6, <2>2, <2>3, JobKept DEF FlagInv
  <2> QED
    BY <2>2, <2>4
<1>8. OneMaker'
  <2> SUFFICES ASSUME NEW a \in Callers, NEW b \in Callers, NEW g \in Made',
                      At(a, g, Making)', At(b, g, Making)', a # b
               PROVE  FALSE
    BY DEF OneMaker
  <2>1. ASSUME NEW d \in Callers, d # c, At(d, g, Making)' PROVE At(d, g, Making) /\ g \in Made
    <3>1. At(d, g, Making)
      BY <1>1, <2>1 DEF At
    <3>2. jobs[d] # Idle /\ JobOK(jobs[d])
      BY <3>1 DEF At, FlagInv, JobsOK
    <3> QED
      BY <3>1, <3>2 DEF At, JobOK
  <2>2. ASSUME At(c, g, Making)' PROVE At(c, g, Making) \/ g \notin Made
    <3>1. k # Idle /\ k.flag = g /\ k.phase \in Making
      BY <1>1, <2>2 DEF At
    <3>2. g = f
      BY <3>1 DEF OneFlag, Made
    <3> QED
      BY <3>1, <3>2 DEF OneFlag
  <2> QED
    BY <2>1, <2>2 DEF FlagInv, OneMaker
<1>9. FlagsOK'
  <2> SUFFICES ASSUME NEW g \in Made, g # f PROVE FlagOK(g)'
    BY DEF FlagsOK, OneFlag
  <2>1. g \in FlagIds /\ g # 0 /\ FlagOK(g)
    BY <1>5 DEF FlagInv, FlagsOK
  <2>2. /\ flags'[g] = flags[g] /\ labels'[g] = labels[g] /\ (g \in frames' <=> g \in frames)
        /\ (g \in raced' <=> g \in raced) /\ (g \in broken' <=> g \in broken)
        /\ (g \in early' <=> g \in early) /\ (g \in purged' <=> g \in purged)
        /\ yaml' = yaml /\ disordered' = disordered
    BY <2>1 DEF OneFlag
  <2>3. \A d \in Callers : \A S : At(d, g, S)' <=> At(d, g, S)
    BY <1>1, <2>1 DEF At, OneFlag
  <2>4. \A d \in Callers : /\ jobs'[d] # Idle /\ jobs'[d].phase = "yaml" => jobs[d] = jobs'[d]
                           /\ jobs[d] # Idle /\ jobs[d].phase = "yaml" => jobs[d] = jobs'[d]
    BY <1>1 DEF OneFlag
  <2>5. Original(g)' /\ Complete(g)' /\ ClassKept(g)' /\ LabelKept(g)' /\ Early(g)'
    BY <1>2, <2>1, <2>2 DEF FlagOK, Original, Complete, ClassKept, LabelKept, Early, Exempt, Denoted
  <2>6. Owned(g)'
    BY <2>1, <2>2, <2>3 DEF FlagOK, Owned
  <2>7. Numbered(g)' <=> Numbered(g)
    BY <2>2 DEF Numbered, Exempt
  <2>8. \A E : Consistent(g, E)' <=> Consistent(g, E)
    BY <2>2 DEF Consistent
  <2>9. ASSUME Numbered(g) PROVE
            /\ \/ \E d \in Callers : At(d, g, Listing)
               \/ /\ ~disordered => Consistent(g, yaml)
                  /\ \A d \in Callers : jobs[d] # Idle /\ jobs[d].phase = "yaml" /\ ~jobs[d].overtaken
                        => Consistent(g, jobs[d].entries)
            /\ \A d \in Callers : At(d, g, {"yaml"}) => Consistent(g, jobs[d].entries)
    BY <2>1, <2>9 DEF FlagOK, Named
  <2>10. ASSUME Numbered(g) PROVE
            /\ \/ \E d \in Callers : At(d, g, Listing)'
               \/ /\ ~disordered' => Consistent(g, yaml)
                  /\ \A d \in Callers : jobs'[d] # Idle /\ jobs'[d].phase = "yaml" /\ ~jobs'[d].overtaken
                        => Consistent(g, jobs'[d].entries)
            /\ \A d \in Callers : At(d, g, {"yaml"})' => Consistent(g, jobs'[d].entries)
    <3>1. \A d \in Callers : At(d, g, {"yaml"})' => Consistent(g, jobs'[d].entries)
      BY <2>3, <2>4, <2>9, <2>10 DEF At
    <3>2. CASE \E d \in Callers : At(d, g, Listing)
      BY <2>3, <3>1, <3>2
    <3>3. CASE ~\E d \in Callers : At(d, g, Listing)
      BY <2>2, <2>4, <2>9, <2>10, <3>1, <3>3
    <3> QED
      BY <3>2, <3>3
  <2>11. Named(g)'
    <3> SUFFICES ASSUME Numbered(g)'
                 PROVE  /\ \/ \E d \in Callers : At(d, g, Listing)'
                           \/ /\ ~disordered' => Consistent(g, yaml)'
                              /\ \A d \in Callers : jobs'[d] # Idle /\ jobs'[d].phase = "yaml" /\ ~jobs'[d].overtaken
                                    => Consistent(g, jobs[d].entries)'
                        /\ \A d \in Callers : At(d, g, {"yaml"})' => Consistent(g, jobs[d].entries)'
      BY DEF Named
    <3> QED
      BY <2>2, <2>7, <2>8, <2>10 DEF Consistent
  <2> QED
    BY <2>5, <2>6, <2>11 DEF FlagOK
<1>10. RowsInOrder'
  BY DEF OneFlag
<1> QED
  BY <1>3, <1>4, <1>7, <1>8, <1>9, <1>10 DEF FlagInv

LEMMA AtWork ==
    ASSUME FlagInv, NEW c \in Callers, jobs[c] # Idle, jobs[c].phase \in Making \cup Purging
    PROVE  LET f == jobs[c].flag IN
           f \in Made /\ f \in FlagIds /\ f # 0 /\ FlagOK(f) /\ jobs[c] \in Job /\ JobOK(jobs[c]) /\ flags[f] \in Flag
<1>1. jobs[c] \in Job /\ JobOK(jobs[c])
  BY JobTypes DEF FlagInv, JobsOK
<1>2. jobs[c].flag \in Made
  BY <1>1 DEF JobOK
<1> QED
  BY <1>1, <1>2 DEF FlagInv, FlagsOK, Made, FlagsTypeOK

\* Nobody else is at a flag that is being made.
LEMMA Alone ==
    ASSUME FlagInv, NEW c \in Callers, NEW f \in Made, At(c, f, Making),
           NEW d \in Callers, d # c, jobs[d] # Idle, jobs[d].flag = f
    PROVE  FlagKept(f, jobs[d].phase)
<1>1. jobs[d].phase \notin Making
  BY DEF FlagInv, OneMaker, At
<1>2. JobOK(jobs[c]) /\ JobOK(jobs[d]) /\ f # 0
  BY DEF FlagInv, JobsOK, At, Made
<1>3. ~flags[f].paths
  BY <1>2 DEF JobOK, At
<1>4. jobs[d].phase \notin Purging \cup Listing
  BY <1>2, <1>3 DEF JobOK
<1> QED
  BY <1>1, <1>4 DEF FlagKept

\* The rows are left alone.
LEMMA RowsSame ==
    ASSUME FlagInv, UNCHANGED flags, NEW f \in Made
    PROVE  RowsInOrder' /\ Made' = Made /\ Made' = Made \cup {f} /\ Newest' = Newest /\ Newest' \in Nat /\ Newest <= Newest'
<1>1. Made' = Made
  BY DEF Made
<1>2. Newest' = Newest /\ Newest \in Nat
  BY <1>1, RowCount DEF Newest, FlagInv
<1> QED
  BY <1>1, <1>2 DEF RowsInOrder, FlagInv

LEMMA WriteFrameKeeps == ASSUME FlagInv, FlagsTypeOK', NEW c \in Callers, WriteFrame(c) PROVE FlagInv'
<1>j. PICK j : j = jobs[c]
  OBVIOUS
<1>f. PICK f : f = j.flag
  OBVIOUS
<1> DEFINE k == With(j, "label", j.flag, j.det, j.class, j.label, j.entries)
<1>1. jobs[c] # Idle /\ jobs[c].phase = "frame" /\ jobs' = [jobs EXCEPT ![c] = k]
  BY <1>j, GotoForm DEF WriteFrame, In, Phases, FlagInv
<1>2. f \in Made /\ f \in FlagIds /\ f # 0 /\ FlagOK(f) /\ JobOK(j) /\ At(c, f, Making)
  BY <1>f, <1>j, <1>1, AtWork DEF At
<1>3. k.phase = "label" /\ k.flag = f /\ k.newest = j.newest /\ k.entries = j.entries /\ k.label = j.label
  BY <1>f DEF With
<1>k. j \in Job /\ k \in Job
  <2>1. j \in Job
    BY <1>j, <1>1, JobTypes DEF FlagInv
  <2> QED
    BY <2>1, JobFields, WithTyped DEF Phases
<1> HIDE DEF k
<1>4. /\ UNCHANGED <<classes, flags, labels, yaml, raced, broken, early, purged, disordered>>
      /\ frames' = frames \cup {f}
  BY <1>f, <1>j DEF WriteFrame, history
<1>5. /\ RowsInOrder' /\ Made' = Made /\ Made' = Made \cup {f} /\ Newest' = Newest
      /\ Newest' \in Nat /\ Newest <= Newest'
  BY <1>2, <1>4, RowsSame
<1>6. OneFlag(c, f, k)
  BY <1>f, <1>j, <1>1, <1>2, <1>3, <1>4, <1>5 DEF OneFlag
<1>7. Denoted(f)' = Denoted(f)
  BY <1>4 DEF Denoted, LabelFor, Exists
<1>8. JobOK(k)'
  BY <1>f, <1>j, <1>1, <1>2, <1>3, <1>4, <1>5, <1>7 DEF JobOK, Exempt
<1>9. jobs'[c] = k /\ At(c, f, Making)'
  BY <1>1, <1>3, <1>k DEF At, FlagsTypeOK, FlagInv
<1>10. ~flags[f].paths
  BY <1>f, <1>j, <1>1, <1>2 DEF JobOK
<1>11. Original(f)' /\ Complete(f)' /\ ClassKept(f)' /\ LabelKept(f)' /\ Early(f)'
  BY <1>2, <1>4, <1>7, <1>10 DEF FlagOK, Original, Complete, ClassKept, LabelKept, Early, Exempt, Exists
<1>12. Owned(f)'
  BY <1>2, <1>4, <1>9, <1>10 DEF FlagOK, Owned, Early
<1>13. Named(f)'
  BY <1>4, <1>10 DEF Named, Numbered
<1>14. FlagOK(f)'
  BY <1>11, <1>12, <1>13 DEF FlagOK
<1> QED
  BY <1>2, <1>6, <1>8, <1>14, Alone, OneFlagStep

LEMMA WriteLabelKeeps == ASSUME FlagInv, FlagsTypeOK', NEW c \in Callers, WriteLabel(c) PROVE FlagInv'
<1>j. PICK j : j = jobs[c]
  OBVIOUS
<1>f. PICK f : f = j.flag
  OBVIOUS
<1> DEFINE k == With(j, "patch", j.flag, j.det, j.class, Empty, j.entries)
<1>1. jobs[c] # Idle /\ jobs[c].phase = "label" /\ jobs' = [jobs EXCEPT ![c] = k]
  BY <1>j, LabelForm DEF WriteLabel, In, Phases, FlagInv
<1>2. f \in Made /\ f \in FlagIds /\ f # 0 /\ FlagOK(f) /\ JobOK(j) /\ At(c, f, Making) /\ j.label \in Nat \cup {Empty}
  BY <1>f, <1>j, <1>1, AtWork, JobFields DEF At
<1>3. k.phase = "patch" /\ k.flag = f /\ k.newest = j.newest /\ k.entries = j.entries
  BY <1>f DEF With
<1>k. j \in Job /\ k \in Job
  <2>1. j \in Job
    BY <1>j, <1>1, JobTypes DEF FlagInv
  <2> QED
    BY <2>1, JobFields, WithTyped DEF Phases
<1> HIDE DEF k
<1>4. /\ UNCHANGED <<classes, flags, frames, yaml, raced, broken, early, purged, disordered>>
      /\ labels'[f] = j.label /\ \A g \in FlagIds : g # f => labels'[g] = labels[g]
  BY <1>f, <1>j, <1>2 DEF WriteLabel, history, FlagInv, FlagsTypeOK
<1>5. /\ RowsInOrder' /\ Made' = Made /\ Made' = Made \cup {f} /\ Newest' = Newest
      /\ Newest' \in Nat /\ Newest <= Newest'
  BY <1>2, <1>4, RowsSame
<1>6. OneFlag(c, f, k)
  BY <1>f, <1>j, <1>1, <1>2, <1>3, <1>4, <1>5 DEF OneFlag
<1>7. Denoted(f)' = Denoted(f)
  BY <1>4 DEF Denoted, LabelFor, Exists
<1>8. JobOK(k)'
  BY <1>f, <1>j, <1>1, <1>2, <1>3, <1>4, <1>5 DEF JobOK
<1>9. jobs'[c] = k /\ At(c, f, Making)'
  BY <1>1, <1>3, <1>k DEF At, FlagsTypeOK, FlagInv
<1>10. ~flags[f].paths /\ (f \in Exempt \/ j.label = Denoted(f))
  BY <1>f, <1>j, <1>1, <1>2 DEF JobOK
<1>11. Original(f)' /\ Complete(f)' /\ ClassKept(f)' /\ LabelKept(f)' /\ Early(f)'
  BY <1>2, <1>4, <1>7, <1>10 DEF FlagOK, Original, Complete, ClassKept, LabelKept, Early, Exempt, Exists
<1>12. Owned(f)'
  BY <1>2, <1>4, <1>9, <1>10 DEF FlagOK, Owned, Early
<1>13. Named(f)'
  BY <1>4, <1>10 DEF Named, Numbered
<1>14. FlagOK(f)'
  BY <1>11, <1>12, <1>13 DEF FlagOK
<1> QED
  BY <1>2, <1>6, <1>8, <1>14, Alone, OneFlagStep

LEMMA WriteFailsKeeps == ASSUME FlagInv, FlagsTypeOK', NEW c \in Callers, WriteFails(c) PROVE FlagInv'
<1>j. PICK j : j = jobs[c]
  OBVIOUS
<1>f. PICK f : f = j.flag
  OBVIOUS
<1> DEFINE k == With(j, "rollback", j.flag, j.det, j.class, Empty, j.entries)
<1>1. jobs[c] # Idle /\ jobs[c].phase \in {"frame", "label"} /\ jobs' = [jobs EXCEPT ![c] = k]
  BY <1>j, LabelForm DEF WriteFails, In, Phases, FlagInv
<1>2. f \in Made /\ f \in FlagIds /\ f # 0 /\ FlagOK(f) /\ JobOK(j) /\ At(c, f, Making)
  BY <1>f, <1>j, <1>1, AtWork DEF At
<1>3. k.phase = "rollback" /\ k.flag = f /\ k.newest = j.newest /\ k.entries = j.entries
  BY <1>f DEF With
<1>k. j \in Job /\ k \in Job
  <2>1. j \in Job
    BY <1>j, <1>1, JobTypes DEF FlagInv
  <2> QED
    BY <2>1, JobFields, WithTyped DEF Phases
<1> HIDE DEF k
<1>4. UNCHANGED <<classes, flags, yaml, raced, early, purged, disordered>> /\ broken' = broken \cup {f}
  BY <1>f, <1>j DEF WriteFails
<1>5. \A g \in FlagIds : g # f => labels'[g] = labels[g] /\ (g \in frames' <=> g \in frames)
  BY <1>f, <1>j, <1>2 DEF WriteFails, FlagInv, FlagsTypeOK
<1>6. /\ RowsInOrder' /\ Made' = Made /\ Made' = Made \cup {f} /\ Newest' = Newest
      /\ Newest' \in Nat /\ Newest <= Newest'
  BY <1>2, <1>4, RowsSame
<1>7. OneFlag(c, f, k)
  BY <1>f, <1>j, <1>1, <1>2, <1>3, <1>4, <1>5, <1>6 DEF OneFlag
<1>8. JobOK(k)'
  BY <1>f, <1>j, <1>1, <1>2, <1>3, <1>4, <1>6 DEF JobOK
<1>9. ~flags[f].paths
  BY <1>f, <1>j, <1>1, <1>2 DEF JobOK
<1>10. Original(f)' /\ Complete(f)' /\ ClassKept(f)' /\ LabelKept(f)' /\ Early(f)' /\ Owned(f)'
  BY <1>2, <1>4, <1>9 DEF FlagOK, Original, Complete, ClassKept, LabelKept, Early, Exempt, Owned
<1>11. Named(f)'
  BY <1>4, <1>9 DEF Named, Numbered
<1>12. FlagOK(f)'
  BY <1>10, <1>11 DEF FlagOK
<1> QED
  BY <1>2, <1>7, <1>8, <1>12, Alone, OneFlagStep

LEMMA RollbackKeeps == ASSUME FlagInv, FlagsTypeOK', NEW c \in Callers, Rollback(c) PROVE FlagInv'
<1>f. PICK f : f = jobs[c].flag
  OBVIOUS
<1>1. jobs[c] # Idle /\ jobs[c].phase = "rollback" /\ jobs' = [jobs EXCEPT ![c] = Idle]
  BY DEF Rollback, In, Finish
<1>2. f \in Made /\ f \in FlagIds /\ f # 0 /\ FlagOK(f) /\ JobOK(jobs[c]) /\ At(c, f, Making)
  BY <1>f, <1>1, AtWork DEF At
<1>3. UNCHANGED <<classes, frames, labels, yaml, raced, broken, early, purged, disordered>>
  BY DEF Rollback, files, history
<1>4. RowChanged(f) /\ flags'[f].paths = flags[f].paths /\ ~flags'[f].active
  BY <1>f, <1>2, RowDismissed DEF Rollback, FlagInv
<1>5. RowsInOrder' /\ Newest' \in Nat /\ Newest <= Newest'
  BY <1>4, RowCount DEF RowsInOrder, RowChanged, FlagInv
<1>6. OneFlag(c, f, Idle)
  BY <1>f, <1>1, <1>2, <1>3, <1>4, <1>5 DEF OneFlag, RowChanged
<1>7. f \in broken /\ ~flags[f].paths
  BY <1>f, <1>1, <1>2 DEF JobOK
<1>8. Original(f)' /\ Complete(f)' /\ ClassKept(f)' /\ LabelKept(f)' /\ Early(f)' /\ Owned(f)' /\ Named(f)'
  BY <1>2, <1>3, <1>4, <1>7 DEF FlagOK, Original, Complete, ClassKept, LabelKept, Early, Exempt, Owned, Named, Numbered, RowChanged
<1>9. FlagOK(f)'
  BY <1>8 DEF FlagOK
<1> QED
  BY <1>2, <1>6, <1>9, Alone, OneFlagStep

LEMMA PatchPathsKeeps == ASSUME FlagInv, FlagsTypeOK', NEW c \in Callers, PatchPaths(c) PROVE FlagInv'
<1>j. PICK j : j = jobs[c]
  OBVIOUS
<1>f. PICK f : f = j.flag
  OBVIOUS
<1> DEFINE k == With(j, "entries", j.flag, j.det, j.class, j.label, j.entries)
<1>1. jobs[c] # Idle /\ jobs[c].phase = "patch" /\ jobs' = [jobs EXCEPT ![c] = k]
  BY <1>j, GotoForm DEF PatchPaths, In, Phases, FlagInv
<1>2. f \in Made /\ f \in FlagIds /\ f # 0 /\ FlagOK(f) /\ JobOK(j) /\ At(c, f, Making)
  BY <1>f, <1>j, <1>1, AtWork DEF At
<1>3. k.phase = "entries" /\ k.flag = f /\ k.newest = j.newest /\ k.entries = j.entries
  BY <1>f DEF With
<1>k. j \in Job /\ k \in Job
  <2>1. j \in Job
    BY <1>j, <1>1, JobTypes DEF FlagInv
  <2> QED
    BY <2>1, JobFields, WithTyped DEF Phases
<1> HIDE DEF k
<1>4. UNCHANGED <<classes, frames, labels, yaml, raced, broken, early, purged, disordered>>
  BY DEF PatchPaths, files, history
<1>5. RowChanged(f) /\ flags'[f].paths /\ flags'[f].active = flags[f].active
  BY <1>f, <1>j, <1>2, PathsSet DEF PatchPaths, FlagInv
<1>6. RowsInOrder' /\ Newest' \in Nat /\ Newest <= Newest'
  BY <1>5, RowCount DEF RowsInOrder, RowChanged, FlagInv
<1>7. OneFlag(c, f, k)
  BY <1>f, <1>j, <1>1, <1>2, <1>3, <1>4, <1>5, <1>6 DEF OneFlag, RowChanged
<1>8. JobOK(k)'
  BY <1>f, <1>j, <1>1, <1>2, <1>3, <1>4, <1>5 DEF JobOK, RowChanged
<1>9. jobs'[c] = k /\ (\A d \in Callers : d # c => jobs'[d] = jobs[d]) /\ At(c, f, Listing)'
  BY <1>1, <1>3, <1>k DEF At, FlagsTypeOK, FlagInv
<1>10. ~flags[f].paths /\ f \in frames /\ labels[f] # NoFile
  BY <1>f, <1>j, <1>1, <1>2 DEF JobOK
<1>11. flags'[f].corrected = flags[f].corrected /\ flags'[f].original = flags[f].original /\ flags'[f].det = flags[f].det
  BY <1>2, <1>5 DEF RowChanged
<1>12. Denoted(f)' = Denoted(f)
  BY <1>4, <1>11 DEF Denoted, LabelFor, Exists
<1>13. Original(f)' /\ Complete(f)' /\ ClassKept(f)' /\ LabelKept(f)' /\ Early(f)'
  BY <1>2, <1>4, <1>5, <1>10, <1>11, <1>12
     DEF FlagOK, Original, Complete, ClassKept, LabelKept, Early, Exempt, Exists
<1>14. Owned(f)'
  BY <1>2, <1>4, <1>5, <1>10 DEF FlagOK, Owned, Early
<1>15. ASSUME NEW d \in Callers, At(d, f, {"yaml"})' PROVE FALSE
  <2>1. d # c
    BY <1>3, <1>9, <1>15 DEF At
  <2>2. jobs[d] # Idle /\ jobs[d].flag = f /\ jobs[d].phase = "yaml"
    BY <1>9, <1>15, <2>1 DEF At
  <2>3. JobOK(jobs[d])
    BY <2>2 DEF FlagInv, JobsOK
  <2> QED
    BY <1>2, <1>10, <2>2, <2>3 DEF JobOK
<1>16. Named(f)'
  BY <1>9, <1>15 DEF Named
<1>17. FlagOK(f)'
  BY <1>13, <1>14, <1>16 DEF FlagOK
<1> QED
  BY <1>2, <1>7, <1>8, <1>17, Alone, OneFlagStep

LEMMA DismissKeeps == ASSUME FlagInv, FlagsTypeOK', NEW c \in Callers, HandleDismissFlag(c) PROVE FlagInv'
<1>1. PICK f \in Made, purge \in BOOLEAN :
        /\ flags[f].active
        /\ flags' = [flags EXCEPT ![f].active = FALSE]
        /\ jobs[c] = Idle
        /\ jobs' = [jobs EXCEPT ![c] = IF purge /\ flags[f].paths THEN [NewJob EXCEPT !.phase = "unframe", !.flag = f]
                                       ELSE NewJob]
        /\ purged' = IF purge THEN purged \cup {f} ELSE purged
        /\ early' = IF flags[f].paths THEN early ELSE early \cup {f}
  BY DEF HandleDismissFlag, Begin
<1>k. PICK k : k = IF purge /\ flags[f].paths THEN [NewJob EXCEPT !.phase = "unframe", !.flag = f] ELSE NewJob
  OBVIOUS
<1>2. /\ k.newest = 0 /\ k.entries = {}
      /\ purge /\ flags[f].paths => k.phase = "unframe" /\ k.flag = f
      /\ ~(purge /\ flags[f].paths) => k.phase = "entries" /\ k.flag = 0
  BY <1>k DEF NewJob
<1>3. k \in Job
  <2>1. [NewJob EXCEPT !.phase = "unframe", !.flag = f] \in Job
    BY DEF NewJob, Job, Made
  <2> QED
    BY <1>k, <2>1, NewJobTyped
<1>4. jobs' = [jobs EXCEPT ![c] = k]
  BY <1>1, <1>k
<1>5. f \in FlagIds /\ f # 0 /\ FlagOK(f)
  BY DEF Made, FlagInv, FlagsOK
<1>6. UNCHANGED <<classes, frames, labels, yaml, raced, broken, disordered>>
  BY DEF HandleDismissFlag, files
<1>7. RowChanged(f) /\ flags'[f].paths = flags[f].paths /\ ~flags'[f].active
  BY <1>1, RowDismissed DEF FlagInv
<1>8. RowsInOrder' /\ Newest' \in Nat /\ Newest <= Newest'
  BY <1>7, RowCount DEF RowsInOrder, RowChanged, FlagInv
<1>9. OneFlag(c, f, k)
  <2>1. k.flag \in {0, f} /\ k.phase # "yaml" /\ k.phase \notin Making
    BY <1>2
  <2>2. Made' = Made \cup {f} /\ flags'[f].corrected = flags[f].corrected
    BY <1>7 DEF RowChanged
  <2>3. \A g \in FlagIds : g # f => flags'[g] = flags[g]
    BY <1>7 DEF RowChanged
  <2>4. \A g \in FlagIds : g # f => (g \in early' <=> g \in early) /\ (g \in purged' <=> g \in purged)
    BY <1>1
  <2> QED
    BY <1>1, <1>4, <1>5, <1>6, <1>8, <2>1, <2>2, <2>3, <2>4 DEF OneFlag
<1>10. JobOK(k)'
  BY <1>2, <1>7, <1>8 DEF JobOK, RowChanged
<1>11. jobs'[c] = k /\ \A d \in Callers : d # c => jobs'[d] = jobs[d]
  BY <1>4 DEF FlagsTypeOK, FlagInv
<1>12. flags'[f].corrected = flags[f].corrected /\ flags'[f].original = flags[f].original /\ flags'[f].det = flags[f].det
  BY <1>7 DEF RowChanged
<1>13. Denoted(f)' = Denoted(f)
  BY <1>6, <1>12 DEF Denoted, LabelFor, Exists
<1>14. Original(f)' /\ Complete(f)' /\ ClassKept(f)' /\ LabelKept(f)'
  BY <1>5, <1>6, <1>7, <1>12, <1>13 DEF FlagOK, Original, Complete, ClassKept, LabelKept, Exempt, Exists
<1>15. Early(f)'
  BY <1>1, <1>5, <1>7 DEF FlagOK, Early
<1>16. \A d \in Callers : \A S : At(d, f, S) => At(d, f, S)'
  BY <1>1, <1>11 DEF At
<1>17. Owned(f)'
  <2> SUFFICES ASSUME f \notin broken, f \notin early', f \in frames \/ labels[f] # NoFile
               PROVE  flags[f].paths /\ (f \in purged' => \E d \in Callers : At(d, f, Purging)')
    BY <1>6, <1>7 DEF Owned
  <2>1. flags[f].paths /\ f \notin early
    BY <1>1
  <2>2. f \in purged => \E d \in Callers : At(d, f, Purging)
    BY <1>5, <2>1 DEF FlagOK, Owned
  <2>3. purge => At(c, f, Purging)'
    BY <1>2, <1>3, <1>11, <2>1 DEF At
  <2> QED
    BY <1>1, <1>16, <2>1, <2>2, <2>3
<1>18. Named(f)'
  <2> SUFFICES ASSUME Numbered(f)'
               PROVE  /\ \/ \E d \in Callers : At(d, f, Listing)'
                         \/ /\ ~disordered => Consistent(f, yaml)
                            /\ \A d \in Callers : jobs'[d] # Idle /\ jobs'[d].phase = "yaml" /\ ~jobs'[d].overtaken
                                  => Consistent(f, jobs'[d].entries)
                      /\ \A d \in Callers : At(d, f, {"yaml"})' => Consistent(f, jobs'[d].entries)
    BY <1>6, <1>12 DEF Named, Consistent
  <2>1. Numbered(f)
    BY <1>6, <1>7 DEF Numbered, Exempt
  <2>2. \A d \in Callers : jobs'[d] # Idle /\ jobs'[d].phase = "yaml" => jobs'[d] = jobs[d]
    BY <1>2, <1>11
  <2> QED
    BY <1>5, <1>16, <2>1, <2>2 DEF FlagOK, Named, At
<1>19. FlagOK(f)'
  BY <1>14, <1>15, <1>17, <1>18 DEF FlagOK
<1>20. ASSUME NEW d \in Callers, d # c, jobs[d] # Idle, jobs[d].flag = f PROVE FlagKept(f, jobs[d].phase)
  <2>1. JobOK(jobs[d])
    BY <1>20 DEF FlagInv, JobsOK
  <2> QED
    BY <1>5, <1>6, <1>7, <1>20, <2>1 DEF JobOK, FlagKept
<1> QED
  BY <1>5, <1>9, <1>10, <1>19, <1>20, OneFlagStep

\* What a purge leaves to the others at its flag.
LEMMA PurgeMeets ==
    ASSUME FlagInv, NEW c \in Callers, NEW f \in Made, At(c, f, Purging), UNCHANGED flags,
           f \notin frames => f \notin frames',
           NEW d \in Callers, jobs[d] # Idle, jobs[d].flag = f
    PROVE  FlagKept(f, jobs[d].phase)
<1>1. JobOK(jobs[c]) /\ JobOK(jobs[d]) /\ f # 0
  BY DEF FlagInv, JobsOK, At, Made
<1>2. flags[f].paths /\ ~flags[f].active
  BY <1>1 DEF JobOK, At
<1>3. jobs[d].phase \notin Making
  BY <1>1, <1>2 DEF JobOK
<1> QED
  BY <1>1, <1>2, <1>3 DEF FlagKept

LEMMA DeleteFrameKeeps == ASSUME FlagInv, FlagsTypeOK', NEW c \in Callers, DeleteFrame(c) PROVE FlagInv'
<1>j. PICK j : j = jobs[c]
  OBVIOUS
<1>f. PICK f : f = j.flag
  OBVIOUS
<1> DEFINE k == With(j, "unlabel", j.flag, j.det, j.class, j.label, j.entries)
<1>1. jobs[c] # Idle /\ jobs[c].phase = "unframe" /\ jobs' = [jobs EXCEPT ![c] = k]
  BY <1>j, GotoForm DEF DeleteFrame, In, Phases, FlagInv
<1>2. f \in Made /\ f \in FlagIds /\ f # 0 /\ FlagOK(f) /\ JobOK(j) /\ At(c, f, Purging)
  BY <1>f, <1>j, <1>1, AtWork DEF At
<1>3. k.phase = "unlabel" /\ k.flag = f /\ k.newest = j.newest /\ k.entries = j.entries
  BY <1>f DEF With
<1>k. j \in Job /\ k \in Job
  <2>1. j \in Job
    BY <1>j, <1>1, JobTypes DEF FlagInv
  <2> QED
    BY <2>1, JobFields, WithTyped DEF Phases
<1> HIDE DEF k
<1>4. /\ UNCHANGED <<classes, flags, labels, yaml, raced, broken, early, purged, disordered>>
      /\ frames' = frames \ {f}
  BY <1>f, <1>j DEF DeleteFrame, history
<1>5. /\ RowsInOrder' /\ Made' = Made /\ Made' = Made \cup {f} /\ Newest' = Newest
      /\ Newest' \in Nat /\ Newest <= Newest'
  BY <1>2, <1>4, RowsSame
<1>6. OneFlag(c, f, k)
  BY <1>f, <1>j, <1>1, <1>2, <1>3, <1>4, <1>5 DEF OneFlag
<1>7. flags[f].paths /\ ~flags[f].active
  BY <1>f, <1>j, <1>1, <1>2 DEF JobOK
<1>8. JobOK(k)'
  BY <1>f, <1>j, <1>1, <1>2, <1>3, <1>4, <1>5, <1>7 DEF JobOK
<1>9. jobs'[c] = k /\ (\A d \in Callers : d # c => jobs'[d] = jobs[d]) /\ At(c, f, Purging)'
  BY <1>1, <1>3, <1>k DEF At, FlagsTypeOK, FlagInv
<1>10. Denoted(f)' = Denoted(f)
  BY <1>4 DEF Denoted, LabelFor, Exists
<1>11. Original(f)' /\ Complete(f)' /\ ClassKept(f)' /\ LabelKept(f)' /\ Early(f)'
  BY <1>2, <1>4, <1>7, <1>10 DEF FlagOK, Original, Complete, ClassKept, LabelKept, Early, Exempt, Exists
<1>12. Owned(f)'
  BY <1>4, <1>7, <1>9 DEF Owned
<1>13. Named(f)'
  <2> SUFFICES ASSUME Numbered(f)
               PROVE  /\ \/ \E d \in Callers : At(d, f, Listing)'
                         \/ /\ ~disordered => Consistent(f, yaml)
                            /\ \A d \in Callers : jobs'[d] # Idle /\ jobs'[d].phase = "yaml" /\ ~jobs'[d].overtaken
                                  => Consistent(f, jobs'[d].entries)
                      /\ \A d \in Callers : At(d, f, {"yaml"})' => Consistent(f, jobs'[d].entries)
    BY <1>4 DEF Named, Numbered, Exempt, Consistent
  <2>1. \A d \in Callers : At(d, f, Listing) => At(d, f, Listing)'
    BY <1>1, <1>9 DEF At
  <2>2. \A d \in Callers : jobs'[d] # Idle /\ jobs'[d].phase = "yaml" => jobs'[d] = jobs[d]
    BY <1>3, <1>9
  <2> QED
    BY <1>2, <2>1, <2>2 DEF FlagOK, Named, At
<1>14. FlagOK(f)'
  BY <1>11, <1>12, <1>13 DEF FlagOK
<1>15. f \notin frames => f \notin frames'
  BY <1>4
<1> QED
  BY <1>2, <1>4, <1>6, <1>8, <1>14, <1>15, PurgeMeets, OneFlagStep

LEMMA DeleteLabelKeeps == ASSUME FlagInv, FlagsTypeOK', NEW c \in Callers, DeleteLabel(c) PROVE FlagInv'
<1>f. PICK f : f = jobs[c].flag
  OBVIOUS
<1>1. jobs[c] # Idle /\ jobs[c].phase = "unlabel" /\ jobs' = [jobs EXCEPT ![c] = NewJob]
  BY DEF DeleteLabel, In, Regenerate
<1>2. f \in Made /\ f \in FlagIds /\ f # 0 /\ FlagOK(f) /\ JobOK(jobs[c]) /\ At(c, f, Purging)
  BY <1>f, <1>1, AtWork DEF At
<1>3. NewJob.phase = "entries" /\ NewJob.flag = 0 /\ NewJob.newest = 0 /\ NewJob.entries = {}
  BY DEF NewJob
<1>4. /\ UNCHANGED <<classes, flags, frames, yaml, raced, broken, early, purged, disordered>>
      /\ labels'[f] = NoFile /\ \A g \in FlagIds : g # f => labels'[g] = labels[g]
  BY <1>f, <1>2 DEF DeleteLabel, history, FlagInv, FlagsTypeOK
<1>5. /\ RowsInOrder' /\ Made' = Made /\ Made' = Made \cup {f} /\ Newest' = Newest
      /\ Newest' \in Nat /\ Newest <= Newest'
  BY <1>2, <1>4, RowsSame
<1>6. OneFlag(c, f, NewJob)
  BY <1>f, <1>1, <1>2, <1>3, <1>4, <1>5 DEF OneFlag
<1>7. flags[f].paths /\ ~flags[f].active /\ f \notin frames
  BY <1>f, <1>1, <1>2 DEF JobOK
<1>8. JobOK(NewJob)'
  <2>1. PICK k : k = NewJob
    OBVIOUS
  <2>2. JobOK(k)'
    BY <1>3, <1>5, <2>1 DEF JobOK
  <2>3. NewJob' = NewJob
    BY DEF NewJob
  <2> QED
    BY <2>1, <2>2, <2>3
<1>9. Original(f)' /\ Complete(f)' /\ ClassKept(f)' /\ LabelKept(f)' /\ Early(f)'
  BY <1>2, <1>4, <1>7 DEF FlagOK, Original, Complete, ClassKept, LabelKept, Early, Exempt, Exists
<1>10. Owned(f)' /\ Named(f)'
  BY <1>4, <1>7 DEF Owned, Named, Numbered
<1>11. FlagOK(f)'
  BY <1>9, <1>10 DEF FlagOK
<1>12. f \notin frames => f \notin frames'
  BY <1>4
<1> QED
  BY <1>2, <1>4, <1>6, <1>8, <1>11, <1>12, PurgeMeets, OneFlagStep

LEMMA CreateFlagKeeps == ASSUME FlagInv, FlagsTypeOK', NEW c \in Callers, CreateFlag(c) PROVE FlagInv'
<1>j. PICK j : j = jobs[c]
  OBVIOUS
<1>f. PICK f : f = Newest + 1
  OBVIOUS
<1> DEFINE k == With(j, "lookup", f, None, j.class, j.label, j.entries)
<1>1. jobs[c] # Idle /\ jobs[c].phase = "create" /\ jobs' = [jobs EXCEPT ![c] = k]
  BY <1>j, <1>f, CreateForm DEF CreateFlag, In, FlagInv
<1>2. k.phase = "lookup" /\ k.flag = f /\ k.newest = j.newest /\ k.entries = j.entries /\ k.class = j.class
  BY DEF With
<1> HIDE DEF k
<1>3. JobOK(j)
  BY <1>j, <1>1 DEF FlagInv, JobsOK
<1>4. /\ f \in FlagIds /\ f \notin Made /\ f > Newest
      /\ \A g \in FlagIds : g # f => flags'[g] = flags[g]
      /\ flags'[f].corrected = j.class /\ ~flags'[f].paths
      /\ flags'[f].det # None => flags'[f].original = ClassOf[flags'[f].det]
      /\ Made' = Made \cup {f} /\ RowsInOrder' /\ Newest' = Newest + 1 /\ Newest \in Nat
  BY <1>j, <1>f, FlagCreated, RowCount DEF FlagInv
<1>5. /\ UNCHANGED <<classes, frames, labels, yaml, broken, early, purged, disordered>>
      /\ raced' = IF j.class # None /\ ~Exists(j.class) THEN raced \cup {f} ELSE raced
  BY <1>j, <1>f DEF CreateFlag, files
<1>6. j.flag = 0
  BY <1>3, <1>1, <1>j DEF JobOK
<1>7. labels[f] = NoFile /\ f \notin frames /\ f \notin purged
  BY <1>4 DEF FlagInv, FilesOfRows
<1>8. \A g \in FlagIds : g # f => (g \in raced' <=> g \in raced)
  BY <1>5
<1>9. OneFlag(c, f, k)
  BY <1>1, <1>2, <1>4, <1>5, <1>6, <1>8, <1>j DEF OneFlag
<1>10. JobOK(k)'
  BY <1>1, <1>2, <1>3, <1>4, <1>j DEF JobOK
<1>11. ClassKept(f)'
  <2>1. Exists(j.class)' <=> Exists(j.class)
    BY <1>5 DEF Exists
  <2> QED
    BY <1>4, <1>5, <2>1 DEF ClassKept, Exempt, Exists
<1>12. Original(f)' /\ Complete(f)' /\ LabelKept(f)' /\ Early(f)' /\ Owned(f)' /\ Named(f)'
  BY <1>4, <1>5, <1>7 DEF Original, Complete, LabelKept, Early, Owned, Named, Numbered
<1>13. FlagOK(f)'
  BY <1>11, <1>12 DEF FlagOK
<1> QED
  BY <1>4, <1>9, <1>10, <1>13, OneFlagStep

\* The writer's list becomes the file, and all lists read before it are old.
LEMMA RegenerateKeeps == ASSUME FlagInv, FlagsTypeOK', NEW c \in Callers, RegenerateDatasetYAML(c) PROVE FlagInv'
<1>j. PICK j : j = jobs[c]
  OBVIOUS
<1>1. /\ j # Idle /\ j.phase = "yaml" /\ jobs'[c] = Idle
      /\ yaml' = j.entries /\ disordered' = j.overtaken
      /\ UNCHANGED <<classes, flags, frames, labels, raced, broken, early, purged>>
  BY <1>j DEF RegenerateDatasetYAML, In
<1>2. ASSUME NEW d \in Callers, d # c
      PROVE  /\ jobs[d] = Idle => jobs'[d] = Idle
             /\ jobs[d] # Idle => LET k == jobs'[d] IN
                  /\ k # Idle /\ k.phase = jobs[d].phase /\ k.flag = jobs[d].flag /\ k.det = jobs[d].det
                  /\ k.class = jobs[d].class /\ k.label = jobs[d].label /\ k.newest = jobs[d].newest
                  /\ k.entries = jobs[d].entries /\ (k.phase = "yaml" => k.overtaken)
  <2>1. CASE jobs[d] = Idle
    BY <1>2, <2>1 DEF RegenerateDatasetYAML, In
  <2>2. CASE jobs[d] # Idle /\ jobs[d].phase # "yaml"
    BY <1>2, <2>2 DEF RegenerateDatasetYAML, In
  <2>3. CASE jobs[d] # Idle /\ jobs[d].phase = "yaml"
    <3>1. PICK i \in Job : i = jobs[d]
      BY <2>3, JobTypes DEF FlagInv
    <3>2. jobs'[d] = [i EXCEPT !.overtaken = TRUE]
      BY <1>2, <2>3, <3>1 DEF RegenerateDatasetYAML, In
    <3>3. LET k == [i EXCEPT !.overtaken = TRUE] IN
            /\ k \in Job /\ k.phase = i.phase /\ k.flag = i.flag /\ k.det = i.det
            /\ k.class = i.class /\ k.label = i.label /\ k.newest = i.newest
            /\ k.entries = i.entries /\ k.overtaken
      BY DEF Job
    <3>4. jobs'[d] # Idle
      BY <3>2, <3>3
    <3> QED
      BY <3>1, <3>2, <3>3, <3>4
  <2> QED
    BY <2>1, <2>2, <2>3
<1>3. Made' = Made /\ Newest' = Newest
  BY <1>1 DEF Made, Newest
<1>4. \A s : LabelFor(s)' = LabelFor(s) /\ Exists(s)' = Exists(s)
  BY <1>1 DEF LabelFor, Exists
<1>5. RowsInOrder' /\ FilesOfRows' /\ NumbersDiffer'
  BY <1>1, <1>3, <1>4 DEF FlagInv, RowsInOrder, FilesOfRows, NumbersDiffer
<1>6. \A d \in Callers : \A f : \A S : At(d, f, S)' <=> At(d, f, S) /\ d # c
  BY <1>1, <1>2 DEF At
<1>7. OneMaker'
  BY <1>3, <1>6 DEF FlagInv, OneMaker
<1>8. JobsOK'
  <2> SUFFICES ASSUME NEW d \in Callers, jobs'[d] # Idle PROVE JobOK(jobs[d])'
    BY DEF JobsOK
  <2>1. PICK k : k = jobs'[d]
    OBVIOUS
  <2>2. PICK i : i = jobs[d]
    OBVIOUS
  <2>3. i # Idle /\ k.phase = i.phase /\ k.flag = i.flag /\ k.det = i.det /\ k.class = i.class /\ k.label = i.label
        /\ k.newest = i.newest /\ k.entries = i.entries
    BY <1>1, <1>2, <2>1, <2>2
  <2>4. JobOK(i)
    BY <2>2, <2>3 DEF FlagInv, JobsOK
  <2>5. Denoted(k.flag)' = Denoted(k.flag)
    BY <1>1, <1>4 DEF Denoted
  <2>6. JobOK(k)'
    BY <1>1, <1>3, <2>3, <2>4, <2>5 DEF JobOK, Exempt
  <2> QED
    BY <2>1, <2>6
<1>9. FlagsOK'
  <2> SUFFICES ASSUME NEW f \in Made PROVE FlagOK(f)'
    BY <1>3 DEF FlagsOK
  <2>1. FlagOK(f) /\ f # 0
    BY DEF FlagInv, FlagsOK, Made
  <2>2. Denoted(f)' = Denoted(f)
    BY <1>1, <1>4 DEF Denoted
  <2>3. Original(f)' /\ Complete(f)' /\ ClassKept(f)' /\ LabelKept(f)' /\ Early(f)'
    BY <1>1, <1>4, <2>1, <2>2 DEF FlagOK, Original, Complete, ClassKept, LabelKept, Early, Exempt
  <2>4. ~At(c, f, Making) /\ ~At(c, f, Purging)
    BY <1>1, <1>j DEF At
  <2>5. Owned(f)'
    BY <1>1, <1>6, <2>1, <2>4 DEF FlagOK, Owned
  <2>6. Named(f)'
    <3> SUFFICES ASSUME Numbered(f)
                 PROVE  /\ \/ \E d \in Callers : At(d, f, Listing)'
                           \/ /\ ~disordered' => Consistent(f, j.entries)
                              /\ \A d \in Callers : jobs'[d] # Idle /\ jobs'[d].phase = "yaml" /\ ~jobs'[d].overtaken
                                    => Consistent(f, jobs'[d].entries)
                        /\ \A d \in Callers : At(d, f, {"yaml"})' => Consistent(f, jobs'[d].entries)
      BY <1>1 DEF Named, Numbered, Exempt, Consistent
    <3>1. \A d \in Callers : jobs'[d] # Idle /\ jobs'[d].phase = "yaml" => jobs'[d].overtaken
      BY <1>1, <1>2
    <3>2. \A d \in Callers : At(d, f, {"yaml"})' => Consistent(f, jobs'[d].entries)
      BY <1>1, <1>2, <1>6, <2>1 DEF FlagOK, Named
    <3>3. ASSUME ~disordered', ~\E d \in Callers : At(d, f, Listing)' PROVE Consistent(f, j.entries)
      <4>1. CASE At(c, f, {"yaml"})
        BY <1>j, <2>1, <4>1 DEF FlagOK, Named
      <4>2. CASE ~At(c, f, {"yaml"})
        <5>0. ~At(c, f, Listing)
          BY <1>1, <1>j, <4>2 DEF At
        <5>1. \A d \in Callers : At(d, f, Listing) => d # c /\ At(d, f, Listing)'
          BY <1>6, <5>0
        <5>2. ~\E d \in Callers : At(d, f, Listing)
          BY <3>3, <5>1
        <5> QED
          BY <1>1, <1>j, <2>1, <3>3, <5>2 DEF FlagOK, Named
      <4> QED
        BY <4>1, <4>2
    <3> QED
      BY <3>1, <3>2, <3>3
  <2> QED
    BY <2>3, <2>5, <2>6 DEF FlagOK
<1> QED
  BY <1>5, <1>7, <1>8, <1>9 DEF FlagInv
(***************************************************************************)
(* The theorems of Flags.                                                  *)
(***************************************************************************)
LEMMA FlagStart == FlagsInit => FlagInv
<1> SUFFICES ASSUME FlagsInit PROVE FlagInv
  OBVIOUS
<1>1. Made = {} /\ Made = 1..0
  BY DEF FlagsInit, Made
<1>2. RowsInOrder
  BY <1>1 DEF RowsInOrder
<1>3. NumbersDiffer
  BY DEF FlagsInit, NumbersDiffer, Exists
<1>4. FilesOfRows
  BY <1>1 DEF FlagsInit, FilesOfRows
<1>5. OneMaker /\ JobsOK /\ FlagsOK
  BY <1>1 DEF FlagsInit, OneMaker, JobsOK, FlagsOK
<1> QED
  BY <1>2, <1>3, <1>4, <1>5, FlagsTypeInit DEF FlagInv

LEMMA StoredKeeps == ASSUME FlagInv, NEW d \in Dets, Stored(d) PROVE FlagInv'
<1>1. UNCHANGED <<classes, flags, files, jobs, history>>
  BY DEF Stored
<1>2. Quiet
  BY <1>1, ClassesSame DEF files, history
<1>3. FlagsTypeOK'
  BY TypeStored DEF FlagInv
<1>4. \A c \in Callers : Follows(c, jobs'[c])
  BY <1>1, IdleFollows
<1> QED
  BY <1>2, <1>3, <1>4, QuietStep

LEMMA FlagStep == ASSUME FlagInv, FlagsNext PROVE FlagInv'
<1>1. CASE (\E s \in Slugs : HandleCreateClass(s) \/ HandlePatchClass(s)) \/ HandleBulkEnableClasses
  <2>1. FlagsTypeOK'
    BY <1>1, TypeClasses DEF FlagInv
  <2> QED
    BY <1>1, <2>1, ClassActions
<1>2. ASSUME NEW c \in Callers, Does(c) PROVE FlagInv'
  <2>1. FlagsTypeOK'
    BY <1>2, TypeDoes DEF FlagInv
  <2> QED
    BY <1>2, <2>1, QuietActions, DeleteClassKeeps, CreateFlagKeeps, WriteFrameKeeps, WriteLabelKeeps, WriteFailsKeeps,
       RollbackKeeps, PatchPathsKeeps, DismissKeeps, DeleteFrameKeeps, DeleteLabelKeeps, RegenerateKeeps DEF Does
<1>3. (\E s \in Slugs : HandleCreateClass(s) \/ HandlePatchClass(s)) \/ HandleBulkEnableClasses
      \/ \E c \in Callers : Does(c)
  BY DEF FlagsNext, Does
<1> QED
  BY <1>1, <1>2, <1>3

LEMMA FlagStutter == ASSUME FlagInv, UNCHANGED flagVars PROVE FlagInv'
<1>1. UNCHANGED <<classes, flags, files, jobs, history>> /\ FlagsTypeOK'
  BY DEF flagVars, files, history, FlagInv, FlagsTypeOK
<1>2. Quiet
  BY <1>1, ClassesSame DEF files, history
<1>3. \A c \in Callers : Follows(c, jobs'[c])
  BY <1>1, IdleFollows
<1> QED
  BY <1>1, <1>2, <1>3, QuietStep

\* The invariant of the flags, the files and the requests of Flags.
THEOREM FlagsHold == FlagsSpec => []FlagInv
<1>1. FlagInv /\ [FlagsNext \/ \E d \in Dets : Stored(d)]_flagVars => FlagInv'
  BY FlagStep, StoredKeeps, FlagStutter
<1> QED
  BY <1>1, FlagStart, PTL DEF FlagsSpec

\* The types of Flags: a step of a handler leaves rows, files and jobs well formed.
THEOREM FlagsTypes == FlagsSpec => []FlagsTypeOK
<1>1. FlagInv => FlagsTypeOK
  BY DEF FlagInv
<1> QED
  BY <1>1, FlagsHold, PTL

\* A flag without a row has no files.
LEMMA LabelsKept == ASSUME FlagInv PROVE LabelsDenote
<1> SUFFICES ASSUME NEW f \in FlagIds, f \notin Exempt, labels[f] # NoFile
             PROVE  labels[f] = LabelFor(flags[f].corrected) /\ (flags[f].corrected # None => Exists(flags[f].corrected))
  BY DEF LabelsDenote, Exempt
<1>1. f \in Made
  BY DEF FlagInv, FilesOfRows
<1> QED
  BY <1>1 DEF FlagInv, FlagsOK, FlagOK, LabelKept, ClassKept, Denoted

\* A file nobody is at belongs to a row with paths.
LEMMA FilesKept == ASSUME FlagInv PROVE DatasetExplained
<1>1. ASSUME NEW f \in Made, flags[f].active, flags[f].paths PROVE f \in frames /\ labels[f] # NoFile
  BY <1>1 DEF FlagInv, FlagsOK, FlagOK, Complete
<1>2. ASSUME NEW f \in FlagIds \ (broken \cup early), f \in frames \/ labels[f] # NoFile, ~Working(f)
      PROVE  flags[f].paths /\ f \notin purged
  <2>1. f \in Made
    BY <1>2 DEF FlagInv, FilesOfRows
  <2>2. \A c \in Callers : ~At(c, f, Making) /\ ~At(c, f, Purging)
    BY <1>2 DEF Working, At
  <2> QED
    BY <1>2, <2>1, <2>2 DEF FlagInv, FlagsOK, FlagOK, Owned
<1> QED
  BY <1>1, <1>2 DEF DatasetExplained

\* When nobody is under way, whoever made the label has written the yaml.
LEMMA NamesKept == ASSUME FlagInv PROVE NamesAgree
<1> SUFFICES ASSUME NEW f \in FlagIds, f \notin Exempt, labels[f] \in Nat, flags[f].paths, ~disordered,
                    \A c \in Callers : jobs[c] = Idle
             PROVE  \A e \in yaml : e[1] = labels[f] => e[2] = flags[f].corrected
  BY DEF NamesAgree, Exempt
<1>1. f \in Made
  BY DEF FlagInv, FilesOfRows
<1>2. Numbered(f) /\ \A c \in Callers : ~At(c, f, Listing)
  BY DEF Numbered, At
<1> QED
  BY <1>1, <1>2 DEF FlagInv, FlagsOK, FlagOK, Named, Consistent

\* A label file has the number of its flag's class, which is not deleted under it
\* (flags/dataset.go, classes/store.go).
THEOREM LabelsDenoteAlways == FlagsSpec => []LabelsDenote
  BY LabelsKept, FlagsHold, PTL

\* The frames and labels on disk are those of the flags (flags/dataset.go,
\* server/flags.go).
THEOREM DatasetExplainedAlways == FlagsSpec => []DatasetExplained
  BY FilesKept, FlagsHold, PTL

\* dataset.yaml gives no label's number to another class (flags/dataset.go).
THEOREM NamesAgreeAlways == FlagsSpec => []NamesAgree
  BY NamesKept, FlagsHold, PTL
(***************************************************************************)
(* The gate.  What the reload would make if the tables were left alone     *)
(* from here on is a verdict the tables have asked for since it began:     *)
(* an edit of a table it has read does not change that view, and after one *)
(* of a table it has yet to read the view is that of the tables as they    *)
(* are, since all it has read is still what the tables say.                *)
(***************************************************************************)
\* A flag's class is that of its detection, which the library goes by.
Originals == \A f \in Made : Original(f)

\* What reload() has read.
CameraRead == reload \in {"global", "taxonomy", "location", "flags", "swap"}
GlobalRead == reload \in {"taxonomy", "location", "flags", "swap"}
TaxonomyRead == reload \in {"location", "flags", "swap"}
LocationRead == reload \in {"flags", "swap"}
FlagsRead == reload = "swap"
Unread(t) ==
    \/ t = "camera" /\ ~CameraRead
    \/ t = "global" /\ ~GlobalRead
    \/ t = "taxonomy" /\ ~TaxonomyRead
    \/ t \in Locations /\ ~LocationRead
    \/ t = "flags" /\ ~FlagsRead

\* A part of what is read.
If(read, S) == IF read THEN S ELSE {}

\* The view the tables ask for, and the one the reload would make were they
\* left alone from here on.
TableView ==
    [zones |-> zones, detectors |-> camera.detectors,
     muted |-> Resolve((buckets["global"] \cup Disabled) \cup BucketOf(camera), camera), library |-> Library]

FinalCamera == IF CameraRead THEN reading.camera ELSE camera
FinalMuted == reading.muted \cup If(~GlobalRead, buckets["global"]) \cup If(~TaxonomyRead, Disabled)
                            \cup If(~LocationRead, BucketOf(FinalCamera))
FinalView ==
    [zones |-> reading.zones, detectors |-> FinalCamera.detectors,
     muted |-> Resolve(FinalMuted, FinalCamera), library |-> IF FlagsRead THEN reading.library ELSE Library]

\* What has been read is what the tables say.
Agrees ==
    /\ reading.zones = zones
    /\ CameraRead => reading.camera = camera
    /\ reading.muted = If(GlobalRead, buckets["global"]) \cup If(TaxonomyRead, Disabled)
                            \cup If(LocationRead, BucketOf(camera))
    /\ FlagsRead => reading.library = Library

\* What has been read is some of what the tables say, or an overlooked camera.
Below ==
    /\ \A z \in Zones : /\ reading.zones[z].classes \subseteq zones[z].classes
                        /\ reading.zones[z].kinds \subseteq zones[z].kinds
    /\ CameraRead => reading.camera \in {camera, Overlooked}
    /\ reading.muted \subseteq If(GlobalRead, buckets["global"]) \cup If(TaxonomyRead, Disabled)
                            \cup If(LocationRead, BucketOf(camera))
    /\ FlagsRead => reading.library = Library

\* The invariant of a reload that nothing has torn.
Reloading == reload # "idle" /\ ~span.torn
Judged(d) == Drops(FinalView, d) \in span.verdicts[d] \/ (span.short /\ ~Drops(FinalView, d))
OfOneMoment == Reloading => \A d \in Dets : Judged(d)
Fits == Below /\ (~span.short => Agrees)
Current == Reloading => \A t \in TableNames : span.edited \subseteq {t} /\ Unread(t) => Fits
NothingKept == reload = "idle" => reading = NothingRead

\* The view of the tables drops what they ask for.
LEMMA TablesAsk == Originals => \A d \in Dets : Drops(TableView, d) <=> Unwanted(d)
<1> SUFFICES ASSUME Originals, NEW d \in Dets PROVE Drops(TableView, d) <=> Unwanted(d)
  OBVIOUS
<1>1. /\ TableView.zones = zones /\ TableView.detectors = camera.detectors /\ TableView.library = Library
      /\ TableView.muted = Resolve((buckets["global"] \cup Disabled) \cup BucketOf(camera), camera)
  BY DEF TableView
<1>2. KindIn(d, TableView.detectors) <=> ~(camera.detectors # {} /\ KindOf[d] \notin camera.detectors)
  BY <1>1 DEF KindIn
<1>3. IsMuted(d, TableView.zones) <=> \E z \in Inside[d] : ClassOf[d] \in zones[z].classes \/ KindOf[d] \in zones[z].kinds
  BY <1>1 DEF IsMuted
<1>4. ClassOf[d] \in TableView.muted <=>
        \/ ClassOf[d] \in camera.mute
        \/ /\ ClassOf[d] \notin camera.unmute
           /\ ClassOf[d] \in buckets["global"] \/ ClassOf[d] \in Disabled \/ ClassOf[d] \in BucketOf(camera)
  BY <1>1 DEF Resolve
<1>5. Suppressed(d, Library) <=>
        \E f \in Made : /\ flags[f].active /\ flags[f].det # None
                        /\ flags[f].original = ClassOf[d] /\ <<d, flags[f].det>> \in Alike
  <2>1. ASSUME NEW e \in Library, ClassOf[e] = ClassOf[d], <<d, e>> \in Alike
        PROVE  \E f \in Made : /\ flags[f].active /\ flags[f].det # None
                               /\ flags[f].original = ClassOf[d] /\ <<d, flags[f].det>> \in Alike
    BY <2>1 DEF Library, Originals, Original
  <2>2. ASSUME NEW f \in Made, flags[f].active, flags[f].det # None,
               flags[f].original = ClassOf[d], <<d, flags[f].det>> \in Alike
        PROVE  \E e \in Library : ClassOf[e] = ClassOf[d] /\ <<d, e>> \in Alike
    BY <2>2 DEF Library, Originals, Original
  <2> QED
    BY <2>1, <2>2 DEF Suppressed
<1> QED
  BY <1>1, <1>2, <1>3, <1>4, <1>5 DEF Drops, Unwanted

LEMMA AgreedView == Agrees => FinalView = TableView
<1> SUFFICES ASSUME Agrees PROVE FinalView = TableView
  OBVIOUS
<1>1. FinalCamera = camera
  BY DEF FinalCamera, Agrees
<1>2. FinalMuted = (buckets["global"] \cup Disabled) \cup BucketOf(camera)
  BY <1>1 DEF FinalMuted, Agrees, If
<1> QED
  BY <1>1, <1>2 DEF FinalView, TableView, Agrees

\* A view of the tables as they are.
LEMMA AgreedVerdict == Agrees /\ Originals => \A d \in Dets : Drops(FinalView, d) <=> Unwanted(d)
  BY AgreedView, TablesAsk

\* The same of the next state.
LEMMA AgreedVerdictNext == (Agrees /\ Originals => \A d \in Dets : Drops(FinalView, d) <=> Unwanted(d))'
  BY AgreedVerdict, PTL

\* A view that has less of the exclusions and mutes drops no more.
LEMMA DropsLess ==
    ASSUME NEW v, NEW w, NEW d \in Dets,
           \A z \in Zones : v.zones[z].classes \subseteq w.zones[z].classes /\ v.zones[z].kinds \subseteq w.zones[z].kinds,
           v.detectors \in {w.detectors, {}},
           ClassOf[d] \in v.muted => ClassOf[d] \in w.muted,
           v.library = w.library
    PROVE  Drops(v, d) => Drops(w, d)
<1>1. Inside[d] \subseteq Zones
  BY GateAssumption
<1>2. IsMuted(d, v.zones) => IsMuted(d, w.zones)
  BY <1>1 DEF IsMuted
<1>3. ~KindIn(d, v.detectors) => ~KindIn(d, w.detectors)
  BY DEF KindIn
<1> QED
  BY <1>2, <1>3 DEF Drops

\* What an overlooked camera makes of the mutes.
LEMMA OverlookedLess ==
    ASSUME NEW cam, cam \in {camera, Overlooked}, NEW d \in Dets, NEW S, NEW T, S \subseteq T,
           ClassOf[d] \in Resolve(S, cam)
    PROVE  ClassOf[d] \in Resolve(T, camera) /\ cam = camera
<1>1. ClassOf[d] \in Slugs
  BY FlagsAssumption
<1>2. cam # Overlooked
  BY <1>1 DEF Resolve, Overlooked
<1> QED
  BY <1>2 DEF Resolve

\* A view of some of the tables as they are.
LEMMA BelowVerdict == Below /\ Originals => \A d \in Dets : Drops(FinalView, d) => Unwanted(d)
<1> SUFFICES ASSUME Below, Originals, NEW d \in Dets, Drops(FinalView, d) PROVE Unwanted(d)
  OBVIOUS
<1>1. FinalCamera \in {camera, Overlooked}
  BY DEF FinalCamera, Below
<1>2. PICK all : all = (buckets["global"] \cup Disabled) \cup BucketOf(camera)
  OBVIOUS
<1>3. BucketOf(FinalCamera) \subseteq BucketOf(camera)
  BY <1>1 DEF BucketOf, Overlooked
<1>4. FinalMuted \subseteq all
  BY <1>2, <1>3 DEF FinalMuted, Below, If
<1>5. /\ FinalView.zones = reading.zones /\ FinalView.detectors = FinalCamera.detectors
      /\ FinalView.muted = Resolve(FinalMuted, FinalCamera)
      /\ FinalView.library = IF FlagsRead THEN reading.library ELSE Library
  BY DEF FinalView
<1>6. /\ TableView.zones = zones /\ TableView.detectors = camera.detectors
      /\ TableView.muted = Resolve(all, camera) /\ TableView.library = Library
  BY <1>2 DEF TableView
<1>7. ClassOf[d] \in FinalView.muted => ClassOf[d] \in TableView.muted
  BY <1>1, <1>4, <1>5, <1>6, OverlookedLess
<1>8. FinalView.detectors \in {TableView.detectors, {}}
  BY <1>1, <1>5, <1>6 DEF Overlooked
<1>9. FinalView.library = TableView.library
  BY <1>5, <1>6 DEF Below
<1>10. \A z \in Zones : /\ FinalView.zones[z].classes \subseteq TableView.zones[z].classes
                       /\ FinalView.zones[z].kinds \subseteq TableView.zones[z].kinds
  BY <1>5, <1>6 DEF Below
<1>11. Drops(TableView, d)
  BY <1>7, <1>8, <1>9, <1>10, DropsLess
<1> QED
  BY <1>11, TablesAsk

\* The same of the next state.
LEMMA BelowVerdictNext == (Below /\ Originals => \A d \in Dets : Drops(FinalView, d) => Unwanted(d))'
  BY BelowVerdict, PTL

LEMMA AgreesBelow == Agrees => Below
  BY DEF Agrees, Below

\* The same of the next state.
LEMMA AgreesBelowNext == (Agrees => Below)'
  BY AgreesBelow, PTL

LEMMA NamesFinite == IsFiniteSet(TableNames)
<1>1. IsFiniteSet({"global"} \cup {"indoor"})
  BY FS_Singleton, FS_AddElement
<1>2. IsFiniteSet(Buckets)
  <2>1. Buckets = ({"global"} \cup {"indoor"}) \cup {"outdoor"}
    BY DEF Buckets, Locations
  <2> QED
    BY <1>1, <2>1, FS_AddElement
<1>3. IsFiniteSet({"zones"} \cup {"camera"})
  BY FS_Singleton, FS_AddElement
<1>4. IsFiniteSet(({"zones"} \cup {"camera"}) \cup {"taxonomy"})
  BY <1>3, FS_AddElement
<1>5. IsFiniteSet((({"zones"} \cup {"camera"}) \cup {"taxonomy"}) \cup {"flags"})
  BY <1>4, FS_AddElement
<1>6. TableNames = Buckets \cup ((({"zones"} \cup {"camera"}) \cup {"taxonomy"}) \cup {"flags"})
  BY DEF TableNames
<1> QED
  BY <1>2, <1>5, <1>6, FS_Union

\* Edited is one table or none.
LEMMA OneAtMost ==
    ASSUME NEW S \in SUBSET TableNames, ~(Cardinality(S) > 1)
    PROVE  \A t \in S : S \subseteq {t}
<1>1. IsFiniteSet(S)
  BY NamesFinite, FS_Subset
<1>2. Cardinality(S) \in Nat
  BY <1>1, FS_CardinalityType
<1>3. Cardinality(S) = 0 \/ Cardinality(S) = 1
  BY <1>2
<1> QED
  BY <1>1, <1>3, FS_EmptySet, FS_Singleton

\* A table that is not among the edited is as it was.
LEMMA TablesKept ==
    ASSUME NEW E, {t \in TableNames : Tables'[t] # Tables[t]} \subseteq E
    PROVE  /\ "zones" \notin E => zones' = zones
           /\ "camera" \notin E => camera' = camera
           /\ "taxonomy" \notin E => Disabled' = Disabled
           /\ "flags" \notin E => Library' = Library
           /\ \A b \in Buckets : b \notin E => buckets'[b] = buckets[b]
<1>1. "zones" \in TableNames /\ "camera" \in TableNames /\ "taxonomy" \in TableNames /\ "flags" \in TableNames
  BY DEF TableNames
<1>2. Tables["zones"] = zones /\ Tables["camera"] = camera /\ Tables["taxonomy"] = Disabled /\ Tables["flags"] = Library
  BY <1>1 DEF Tables
<1>3. Tables'["zones"] = zones' /\ Tables'["camera"] = camera' /\ Tables'["taxonomy"] = Disabled' /\ Tables'["flags"] = Library'
  BY <1>1 DEF Tables
<1>4. \A b \in Buckets : b \in TableNames /\ Tables[b] = buckets[b] /\ Tables'[b] = buckets'[b]
  BY DEF Tables, TableNames, Buckets, Locations
<1> QED
  BY <1>1, <1>2, <1>3, <1>4

\* An edit of the tables.
LEMMA TrackKeeps ==
    ASSUME Originals', OfOneMoment, Current, span.edited \subseteq TableNames, UNCHANGED <<reload, reading>>, Track,
           camera \in CameraRow, reading.camera \in CameraRow
    PROVE  OfOneMoment' /\ Current'
<1> SUFFICES ASSUME reload # "idle", ~span'.torn PROVE OfOneMoment' /\ Current'
  BY DEF OfOneMoment, Current, Reloading
<1>e. PICK E : E = span.edited \cup {t \in TableNames : Tables'[t] # Tables[t]}
  OBVIOUS
<1>1. ~span.torn /\ ~(Cardinality(E) > 1)
      /\ span' = [verdicts |-> [d \in Dets |-> span.verdicts[d] \cup {Unwanted(d)'}], edited |-> E, short |-> span.short, torn |-> FALSE]
  BY <1>e DEF Track, Torn
<1>2. /\ span'.edited = E /\ span.edited \subseteq E /\ span'.short = span.short
      /\ \A d \in Dets : span'.verdicts[d] = span.verdicts[d] \cup {Unwanted(d)'}
  BY <1>1, <1>e
<1>3. E \in SUBSET TableNames /\ \A t \in E : E \subseteq {t}
  <2>1. E \in SUBSET TableNames
    BY <1>e
  <2> QED
    BY <1>1, <2>1, OneAtMost
<1>4. /\ "zones" \notin E => zones' = zones
      /\ "camera" \notin E => camera' = camera
      /\ "taxonomy" \notin E => Disabled' = Disabled
      /\ "flags" \notin E => Library' = Library
      /\ \A b \in Buckets : b \notin E => buckets'[b] = buckets[b]
  BY <1>e, TablesKept
<1>5. /\ CameraRead' = CameraRead /\ GlobalRead' = GlobalRead /\ TaxonomyRead' = TaxonomyRead
      /\ LocationRead' = LocationRead /\ FlagsRead' = FlagsRead /\ \A t : Unread(t)' <=> Unread(t)
  BY DEF CameraRead, GlobalRead, TaxonomyRead, LocationRead, FlagsRead, Unread
<1>6. "global" \in Buckets /\ Locations \subseteq Buckets
  BY DEF Buckets
<1>7. ASSUME NEW cam \in CameraRow, \A b \in Locations : b \notin E PROVE BucketOf(cam)' = BucketOf(cam)
  BY <1>4, <1>6, <1>7 DEF BucketOf, CameraRow
<1>8. LocationRead => CameraRead
  BY DEF LocationRead, CameraRead
<1>9. ASSUME NEW t \in TableNames, E \subseteq {t}, Unread(t) PROVE Fits'
  <2>1. Fits
    BY <1>1, <1>2, <1>9 DEF Current, Reloading
  <2>2. /\ "zones" \notin E
        /\ CameraRead => "camera" \notin E
        /\ GlobalRead => "global" \notin E
        /\ TaxonomyRead => "taxonomy" \notin E
        /\ LocationRead => \A b \in Locations : b \notin E
        /\ FlagsRead => "flags" \notin E
    BY <1>9 DEF Unread, Locations
  <2>3. LocationRead => BucketOf(camera)' = BucketOf(camera)
    <3>1. PICK cam : cam = camera
      OBVIOUS
    <3>2. LocationRead => BucketOf(cam)' = BucketOf(cam) /\ camera' = cam
      BY <1>4, <1>7, <1>8, <2>2, <3>1
    <3> QED
      BY <3>1, <3>2
  <2>4. /\ If(GlobalRead, buckets["global"])' = If(GlobalRead, buckets["global"])
        /\ If(TaxonomyRead, Disabled)' = If(TaxonomyRead, Disabled)
        /\ If(LocationRead, BucketOf(camera))' = If(LocationRead, BucketOf(camera))
    BY <1>4, <1>5, <1>6, <2>2, <2>3 DEF If
  <2>5. Agrees => Agrees'
    BY <1>4, <1>5, <2>2, <2>4 DEF Agrees
  <2>6. Below => Below'
    BY <1>4, <1>5, <2>2, <2>4 DEF Below
  <2> QED
    BY <1>2, <2>1, <2>5, <2>6 DEF Fits
<1>10. Current'
  BY <1>2, <1>5, <1>9 DEF Current
<1>11. ASSUME NEW t \in TableNames, E \subseteq {t}, Unread(t) PROVE OfOneMoment'
  <2>1. \A d \in Dets : /\ (Drops(FinalView, d) => Unwanted(d))'
                        /\ ~span'.short => (Drops(FinalView, d) <=> Unwanted(d))'
    BY <1>9, <1>11, AgreedVerdictNext, BelowVerdictNext DEF Fits
  <2>2. ASSUME NEW d \in Dets PROVE Judged(d)'
    <3>1. (Drops(FinalView, d) \in BOOLEAN)' /\ (Unwanted(d) \in BOOLEAN)'
      BY DEF Drops, Unwanted
    <3>2. Drops(FinalView, d)' = Unwanted(d)' \/ (span'.short /\ ~Drops(FinalView, d)')
      BY <2>1, <3>1
    <3> QED
      BY <1>2, <3>2 DEF Judged
  <2> QED
    BY <2>2 DEF OfOneMoment
<1>12. ASSUME \A t \in TableNames : ~(E \subseteq {t} /\ Unread(t)) PROVE OfOneMoment'
  <2>1. \A t \in E : ~Unread(t)
    BY <1>3, <1>12
  <2>2. /\ ~CameraRead => camera' = camera
        /\ ~GlobalRead => buckets'["global"] = buckets["global"]
        /\ ~TaxonomyRead => Disabled' = Disabled
        /\ ~LocationRead => \A b \in Locations : b \notin E
        /\ ~FlagsRead => Library' = Library
    BY <1>4, <1>6, <2>1 DEF Unread
  <2>3. FinalCamera' = FinalCamera /\ FinalCamera \in CameraRow
    BY <1>5, <2>2 DEF FinalCamera
  <2>4. ~LocationRead => BucketOf(FinalCamera)' = BucketOf(FinalCamera)
    <3>1. PICK cam : cam = FinalCamera
      OBVIOUS
    <3>2. ~LocationRead => BucketOf(cam)' = BucketOf(cam)
      BY <1>7, <2>2, <2>3, <3>1
    <3> QED
      BY <2>3, <3>1, <3>2
  <2>5. /\ If(~GlobalRead, buckets["global"])' = If(~GlobalRead, buckets["global"])
        /\ If(~TaxonomyRead, Disabled)' = If(~TaxonomyRead, Disabled)
        /\ If(~LocationRead, BucketOf(FinalCamera))' = If(~LocationRead, BucketOf(FinalCamera))
    BY <1>5, <2>2, <2>4 DEF If
  <2>6. FinalMuted' = FinalMuted
    BY <2>5 DEF FinalMuted
  <2>7. FinalView' = FinalView
    BY <1>5, <2>2, <2>3, <2>6 DEF FinalView, Resolve
  <2>8. \A d \in Dets : Drops(FinalView, d)' = Drops(FinalView, d)
    BY <2>7 DEF Drops, KindIn, IsMuted, Suppressed
  <2> QED
    BY <1>1, <1>2, <2>8 DEF OfOneMoment, Reloading, Judged
<1> QED
  BY <1>10, <1>11, <1>12

\* A query of the reload adds to the reading what the tables say.
ReadsMore ==
    /\ FinalView' = FinalView
    /\ Agrees => Agrees'
    /\ Below => Below'
    /\ \A t \in TableNames : Unread(t)' => Unread(t)

LEMMA ReadKeeps ==
    ASSUME OfOneMoment, Current, UNCHANGED span, reload # "idle", ReadsMore
    PROVE  OfOneMoment' /\ Current'
<1>1. \A d \in Dets : Drops(FinalView, d)' = Drops(FinalView, d)
  BY DEF ReadsMore, Drops, KindIn, IsMuted, Suppressed
<1> QED
  BY <1>1 DEF OfOneMoment, Current, Reloading, ReadsMore, Fits, Judged

\* A query that falls short takes from the view, if anything.
ReadsLess ==
    /\ \A d \in Dets : Drops(FinalView, d)' => Drops(FinalView, d)
    /\ Below => Below'
    /\ \A t \in TableNames : Unread(t)' => Unread(t)

LEMMA ShortReadKeeps ==
    ASSUME OfOneMoment, Current, span \in Span, span' = IF span.torn THEN span ELSE [span EXCEPT !.short = TRUE],
           reload # "idle", ReadsLess
    PROVE  OfOneMoment' /\ Current'
<1> SUFFICES ASSUME reload' # "idle", ~span'.torn PROVE OfOneMoment' /\ Current'
  BY DEF OfOneMoment, Current, Reloading
<1>1. ~span.torn /\ span'.short /\ span'.verdicts = span.verdicts /\ span'.edited = span.edited
  BY DEF Span
<1>2. ASSUME NEW d \in Dets PROVE Judged(d)'
  <2>1. Drops(FinalView, d)' \in BOOLEAN /\ Drops(FinalView, d) \in BOOLEAN
    BY DEF Drops
  <2>2. Judged(d)
    BY <1>1 DEF OfOneMoment, Reloading
  <2> QED
    BY <1>1, <2>1, <2>2 DEF Judged, ReadsLess
<1> QED
  BY <1>1, <1>2 DEF OfOneMoment, Current, Reloading, ReadsLess, Fits

LEMMA ReadingSet ==
    ASSUME NEW r \in Reading
    PROVE  /\ \A x \in [Zones -> Exclusion] : LET q == [r EXCEPT !.zones = x] IN
                 q \in Reading /\ q.zones = x /\ q.camera = r.camera /\ q.muted = r.muted /\ q.library = r.library
           /\ \A x \in CameraRow : LET q == [r EXCEPT !.camera = x] IN
                 q \in Reading /\ q.zones = r.zones /\ q.camera = x /\ q.muted = r.muted /\ q.library = r.library
           /\ \A x \in SUBSET Slugs : LET q == [r EXCEPT !.muted = x] IN
                 q \in Reading /\ q.zones = r.zones /\ q.camera = r.camera /\ q.muted = x /\ q.library = r.library
           /\ \A x \in SUBSET Dets : LET q == [r EXCEPT !.library = x] IN
                 q \in Reading /\ q.zones = r.zones /\ q.camera = r.camera /\ q.muted = r.muted /\ q.library = x
  BY DEF Reading

LEMMA ReadSets ==
    ASSUME TypeOK
    PROVE  /\ Disabled \in SUBSET Slugs /\ Library \in SUBSET Dets /\ buckets["global"] \in SUBSET Slugs
           /\ \A cam \in CameraRow : BucketOf(cam) \in SUBSET Slugs
           /\ reading.camera \in CameraRow /\ reading.muted \in SUBSET Slugs
<1>1. \A f \in Made : flags[f] \in Flag
  BY DEF TypeOK, FlagsTypeOK, Made
<1>2. Library \in SUBSET Dets
  BY <1>1 DEF Library, Flag
<1>3. "global" \in Buckets /\ Locations \subseteq Buckets
  BY DEF Buckets
<1>4. \A cam \in CameraRow : BucketOf(cam) \in SUBSET Slugs
  BY <1>3 DEF TypeOK, BucketOf, CameraRow
<1> QED
  BY <1>2, <1>3, <1>4 DEF TypeOK, Disabled, Reading

LEMMA TablesSame ==
    ASSUME UNCHANGED <<flagVars, gateTables>>
    PROVE  Disabled' = Disabled /\ Library' = Library /\ UNCHANGED <<zones, camera, buckets>>
           /\ \A cam : BucketOf(cam)' = BucketOf(cam)
  BY DEF flagVars, gateTables, Disabled, Enabled, Exists, Library, Made, BucketOf

LEMMA ReloadReads ==
    ASSUME TypeOK, ReloadCamera \/ ReloadGlobal \/ ReloadTaxonomy \/ ReloadLocation \/ ReloadFlags
    PROVE  reading' \in Reading /\ ReadsMore
<1> USE ReadSets DEF CameraRead, GlobalRead, TaxonomyRead, LocationRead, FlagsRead
<1>s. Disabled' = Disabled /\ Library' = Library /\ UNCHANGED <<zones, camera, buckets>>
      /\ \A cam : BucketOf(cam)' = BucketOf(cam)
  BY TablesSame DEF ReloadCamera, ReloadGlobal, ReloadTaxonomy, ReloadLocation, ReloadFlags, ReloadMutes
<1>t. reading \in Reading /\ camera \in CameraRow
  BY DEF TypeOK
<1>1. CASE ReloadCamera
  <2>1. /\ reading' \in Reading /\ reading'.zones = reading.zones /\ reading'.camera = camera
        /\ reading'.muted = reading.muted /\ reading'.library = reading.library
    BY <1>1, <1>t, ReadingSet DEF ReloadCamera
  <2>2. reload = "camera" /\ reload' = "global"
    BY <1>1 DEF ReloadCamera
  <2>3. FinalCamera' = FinalCamera
    BY <2>1, <2>2, <1>s DEF FinalCamera
  <2>4. FinalMuted' = FinalMuted
    BY <2>1, <2>2, <2>3, <1>s DEF FinalMuted, If, BucketOf
  <2>5. FinalView' = FinalView
    BY <2>1, <2>2, <2>3, <2>4, <1>s DEF FinalView, Resolve
  <2>6. Agrees => Agrees'
    BY <2>1, <2>2, <1>s DEF Agrees, If
  <2>7. Below => Below'
    BY <2>1, <2>2, <1>s DEF Below, If
  <2> QED
    BY <2>1, <2>2, <2>5, <2>6, <2>7 DEF ReadsMore, Unread
<1>2. ASSUME NEW from, NEW to, NEW found \in SUBSET Slugs, ReloadMutes(from, to, found)
      PROVE  /\ reading' \in Reading /\ reading'.zones = reading.zones /\ reading'.camera = reading.camera
             /\ reading'.muted = reading.muted \cup found /\ reading'.library = reading.library
  <2>1. PICK x \in SUBSET Slugs : x = reading.muted \cup found
    OBVIOUS
  <2>2. reading' = [reading EXCEPT !.muted = x]
    BY <1>2, <2>1 DEF ReloadMutes
  <2> QED
    BY <2>1, <2>2, <1>t, ReadingSet
<1>3. CASE ReloadGlobal
  <2>1. /\ reading' \in Reading /\ reading'.zones = reading.zones /\ reading'.camera = reading.camera
        /\ reading'.muted = reading.muted \cup buckets["global"] /\ reading'.library = reading.library
    BY <1>2, <1>3 DEF ReloadGlobal
  <2>2. reload = "global" /\ reload' = "taxonomy"
    BY <1>3 DEF ReloadGlobal, ReloadMutes
  <2>3. FinalCamera' = FinalCamera
    BY <2>1, <2>2, <1>s DEF FinalCamera
  <2>4. FinalMuted' = FinalMuted
    BY <2>1, <2>2, <2>3, <1>s DEF FinalMuted, If, BucketOf
  <2>5. FinalView' = FinalView
    BY <2>1, <2>2, <2>3, <2>4, <1>s DEF FinalView, Resolve
  <2>6. Agrees => Agrees'
    BY <2>1, <2>2, <1>s DEF Agrees, If
  <2>7. Below => Below'
    BY <2>1, <2>2, <1>s DEF Below, If
  <2> QED
    BY <2>1, <2>2, <2>5, <2>6, <2>7 DEF ReadsMore, Unread
<1>4. CASE ReloadTaxonomy
  <2>1. /\ reading' \in Reading /\ reading'.zones = reading.zones /\ reading'.camera = reading.camera
        /\ reading'.muted = reading.muted \cup Disabled /\ reading'.library = reading.library
    BY <1>2, <1>4 DEF ReloadTaxonomy
  <2>2. reload = "taxonomy" /\ reload' = "location"
    BY <1>4 DEF ReloadTaxonomy, ReloadMutes
  <2>3. FinalCamera' = FinalCamera
    BY <2>1, <2>2, <1>s DEF FinalCamera
  <2>4. FinalMuted' = FinalMuted
    BY <2>1, <2>2, <2>3, <1>s DEF FinalMuted, If, BucketOf
  <2>5. FinalView' = FinalView
    BY <2>1, <2>2, <2>3, <2>4, <1>s DEF FinalView, Resolve
  <2>6. Agrees => Agrees'
    BY <2>1, <2>2, <1>s DEF Agrees, If
  <2>7. Below => Below'
    BY <2>1, <2>2, <1>s DEF Below, If
  <2> QED
    BY <2>1, <2>2, <2>5, <2>6, <2>7 DEF ReadsMore, Unread
<1>5. CASE ReloadLocation
  <2>1. /\ reading' \in Reading /\ reading'.zones = reading.zones /\ reading'.camera = reading.camera
        /\ reading'.muted = reading.muted \cup BucketOf(reading.camera) /\ reading'.library = reading.library
    BY <1>2, <1>5 DEF ReloadLocation
  <2>2. reload = "location" /\ reload' = "flags"
    BY <1>5 DEF ReloadLocation, ReloadMutes
  <2>3. FinalCamera' = FinalCamera /\ FinalCamera = reading.camera
    BY <2>1, <2>2, <1>s DEF FinalCamera
  <2>4. FinalMuted' = FinalMuted
    BY <2>1, <2>2, <2>3, <1>s DEF FinalMuted, If, BucketOf
  <2>5. FinalView' = FinalView
    BY <2>1, <2>2, <2>3, <2>4, <1>s DEF FinalView, Resolve
  <2>6. Agrees => Agrees'
    BY <2>1, <2>2, <1>s DEF Agrees, If
  <2>7. Below => Below'
    BY <2>1, <2>2, <1>s DEF Below, If, BucketOf, Overlooked
  <2> QED
    BY <2>1, <2>2, <2>5, <2>6, <2>7 DEF ReadsMore, Unread
<1>6. CASE ReloadFlags
  <2>1. /\ reading' \in Reading /\ reading'.zones = reading.zones /\ reading'.camera = reading.camera
        /\ reading'.muted = reading.muted /\ reading'.library = Library
    BY <1>6, <1>t, ReadingSet DEF ReloadFlags
  <2>2. reload = "flags" /\ reload' = "swap"
    BY <1>6 DEF ReloadFlags
  <2>3. FinalCamera' = FinalCamera
    BY <2>1, <2>2, <1>s DEF FinalCamera
  <2>4. FinalMuted' = FinalMuted
    BY <2>1, <2>2, <2>3, <1>s DEF FinalMuted, If, BucketOf
  <2>5. FinalView' = FinalView
    BY <2>1, <2>2, <2>3, <2>4, <1>s DEF FinalView, Resolve
  <2>6. Agrees => Agrees'
    BY <2>1, <2>2, <1>s DEF Agrees, If
  <2>7. Below => Below'
    BY <2>1, <2>2, <1>s DEF Below, If
  <2> QED
    BY <2>1, <2>2, <2>5, <2>6, <2>7 DEF ReadsMore, Unread
<1> QED
  BY <1>1, <1>3, <1>4, <1>5, <1>6

LEMMA ReloadStarts ==
    ASSUME TypeOK, NothingKept, Originals', ReloadZones
    PROVE  reading' \in Reading /\ span' \in Span /\ OfOneMoment' /\ Current'
<1>1. reload = "idle" /\ reload' = "camera" /\ reading = NothingRead /\ reading \in Reading /\ zones \in [Zones -> Exclusion]
  BY DEF ReloadZones, NothingKept, TypeOK
<1>2. /\ reading' \in Reading /\ reading'.zones = zones /\ reading'.muted = {}
  BY <1>1, ReadingSet DEF ReloadZones, NothingRead
<1>3. zones' = zones
  BY DEF ReloadZones, gateTables
<1>4. Agrees'
  BY <1>1, <1>2, <1>3 DEF Agrees, If, CameraRead, GlobalRead, TaxonomyRead, LocationRead, FlagsRead
<1>5. span' = [verdicts |-> [d \in Dets |-> {Unwanted(d)}], edited |-> {}, short |-> FALSE, torn |-> FALSE]
  BY DEF ReloadZones, NoSpan
<1>6. \A d \in Dets : Unwanted(d) \in BOOLEAN
  BY DEF Unwanted
<1>7. span' \in Span
  BY <1>5, <1>6 DEF Span
<1>8. Current'
  <2>1. Below'
    BY <1>4, AgreesBelowNext
  <2> QED
    BY <1>4, <2>1 DEF Current, Fits
<1>9. UNCHANGED <<zones, camera, buckets>> /\ Disabled' = Disabled /\ Made' = Made /\ flags' = flags /\ BucketOf(camera)' = BucketOf(camera)
  BY DEF ReloadZones, gateTables, flagVars, Disabled, Enabled, Exists, Made, BucketOf
<1>10. \A d \in Dets : Unwanted(d)' = Unwanted(d)
  BY <1>9 DEF Unwanted
<1>11. ASSUME NEW d \in Dets PROVE Drops(FinalView, d)' \in span'.verdicts[d]
  <2>1. (Drops(FinalView, d) \in BOOLEAN)' /\ (Unwanted(d) \in BOOLEAN)'
    BY DEF Drops, Unwanted
  <2>2. (Drops(FinalView, d) <=> Unwanted(d))'
    BY <1>4, AgreedVerdictNext
  <2>3. Drops(FinalView, d)' = Unwanted(d)
    BY <1>10, <2>1, <2>2
  <2> QED
    BY <1>5, <2>3
<1> QED
  BY <1>2, <1>7, <1>8, <1>11 DEF OfOneMoment, Judged

\* The first query falls short.
LEMMA ShortStart ==
    ASSUME TypeOK, NothingKept, Originals', ReloadZonesShort
    PROVE  reading' \in Reading /\ span' \in Span /\ OfOneMoment' /\ Current'
<1>1. reload = "idle" /\ reload' = "camera" /\ reading = NothingRead /\ reading \in Reading /\ zones \in [Zones -> Exclusion]
  BY DEF ReloadZonesShort, NothingKept, TypeOK
<1>2. PICK read \in SUBSET Zones :
         reading' = [reading EXCEPT !.zones = [z \in Zones |-> IF z \in read THEN zones[z] ELSE NoExclusion]]
  BY DEF ReloadZonesShort
<1>3. PICK some : some = [z \in Zones |-> IF z \in read THEN zones[z] ELSE NoExclusion]
  OBVIOUS
<1>4. some \in [Zones -> Exclusion]
  BY <1>1, <1>3 DEF NoExclusion, Exclusion
<1>5. reading' \in Reading /\ reading'.zones = some /\ reading'.muted = {}
  BY <1>1, <1>2, <1>3, <1>4, ReadingSet DEF NothingRead
<1>6. zones' = zones
  BY DEF ReloadZonesShort, gateTables
<1>7. \A z \in Zones : some[z].classes \subseteq zones[z].classes /\ some[z].kinds \subseteq zones[z].kinds
  BY <1>3 DEF NoExclusion
<1>8. Below'
  BY <1>1, <1>5, <1>6, <1>7 DEF Below, If, CameraRead, GlobalRead, TaxonomyRead, LocationRead, FlagsRead
<1>9. span' = [verdicts |-> [d \in Dets |-> {Unwanted(d)}], edited |-> {}, short |-> TRUE, torn |-> FALSE]
  BY DEF ReloadZonesShort, NoSpan
<1>10. \A d \in Dets : Unwanted(d) \in BOOLEAN
  BY DEF Unwanted
<1>11. span' \in Span
  BY <1>9, <1>10 DEF Span
<1>12. Current'
  BY <1>8, <1>9 DEF Current, Fits
<1>13. UNCHANGED <<zones, camera, buckets>> /\ Disabled' = Disabled /\ Made' = Made /\ flags' = flags /\ BucketOf(camera)' = BucketOf(camera)
  BY DEF ReloadZonesShort, gateTables, Disabled, Enabled, Exists, Made, BucketOf
<1>14. \A d \in Dets : Unwanted(d)' = Unwanted(d)
  BY <1>13 DEF Unwanted
<1>15. ASSUME NEW d \in Dets PROVE Judged(d)'
  <2>1. (Drops(FinalView, d) \in BOOLEAN)' /\ Unwanted(d) \in BOOLEAN
    BY DEF Drops, Unwanted
  <2>2. (Drops(FinalView, d) => Unwanted(d))'
    BY <1>8, BelowVerdictNext
  <2>3. Drops(FinalView, d)' => Drops(FinalView, d)' = Unwanted(d)
    BY <1>14, <2>1, <2>2
  <2> QED
    BY <1>9, <2>3 DEF Judged
<1> QED
  BY <1>5, <1>11, <1>12, <1>15 DEF OfOneMoment

\* A later one does.
LEMMA ShortReads ==
    ASSUME TypeOK, ReloadCameraShort \/ ReloadMutesShort
    PROVE  reading' \in Reading /\ ReadsLess
<1> USE ReadSets DEF CameraRead, GlobalRead, TaxonomyRead, LocationRead, FlagsRead
<1>s. Disabled' = Disabled /\ Library' = Library /\ UNCHANGED <<zones, camera, buckets>>
      /\ \A cam : BucketOf(cam)' = BucketOf(cam)
  BY DEF ReloadCameraShort, ReloadMutesShort, FallsShort, gateTables, Disabled, Enabled, Exists, Library, Made, BucketOf
<1>t. reading \in Reading /\ camera \in CameraRow /\ Overlooked \in CameraRow
  BY DEF TypeOK, CameraRow, Overlooked
<1>v. PICK v, w : v = FinalView' /\ w = FinalView
  OBVIOUS
<1>d. ASSUME NEW d \in Dets
      PROVE  (Drops(FinalView, d)' <=> Drops(v, d)) /\ (Drops(FinalView, d) <=> Drops(w, d))
  BY <1>v DEF Drops, KindIn, IsMuted, Suppressed
<1>1. CASE ReloadCameraShort
  <2>1. /\ reading' \in Reading /\ reading'.zones = reading.zones /\ reading'.camera = Overlooked
        /\ reading'.muted = reading.muted /\ reading'.library = reading.library
    BY <1>1, <1>t, ReadingSet DEF ReloadCameraShort
  <2>2. reload = "camera" /\ reload' = "global"
    BY <1>1 DEF ReloadCameraShort
  <2>3. FinalCamera' = Overlooked
    BY <2>1, <2>2 DEF FinalCamera
  <2>4. v.zones = w.zones /\ v.detectors = {} /\ v.library = w.library /\ \E S : v.muted = Resolve(S, Overlooked)
    BY <1>v, <1>s, <2>1, <2>2, <2>3 DEF FinalView, Overlooked, Resolve
  <2>5. ASSUME NEW d \in Dets PROVE ClassOf[d] \notin v.muted
    <3>1. ClassOf[d] \in Slugs
      BY FlagsAssumption
    <3> QED
      BY <2>4, <3>1 DEF Resolve, Overlooked
  <2>6. \A d \in Dets : Drops(v, d) => Drops(w, d)
    BY <2>4, <2>5, DropsLess
  <2>7. Below => Below'
    BY <2>1, <2>2, <1>s DEF Below, If
  <2> QED
    BY <1>d, <2>1, <2>2, <2>6, <2>7 DEF ReadsLess, Unread
<1>2. CASE ReloadMutesShort
  <2>1. PICK found \in SUBSET Slugs :
           /\ reading' \in Reading /\ reading'.zones = reading.zones /\ reading'.camera = reading.camera
           /\ reading'.muted = reading.muted \cup found /\ reading'.library = reading.library
           /\ found = {} \/ (reload = "taxonomy" /\ found \subseteq Disabled)
    <3>1. CASE UNCHANGED reading
      <4>1. {} \in SUBSET Slugs /\ reading.muted = reading.muted \cup {}
        OBVIOUS
      <4> QED
        BY <1>t, <3>1, <4>1
    <3>2. CASE reload = "taxonomy" /\ \E f \in SUBSET Disabled : reading' = [reading EXCEPT !.muted = @ \cup f]
      <4>1. PICK f \in SUBSET Disabled : reading' = [reading EXCEPT !.muted = @ \cup f]
        BY <3>2
      <4>2. PICK x \in SUBSET Slugs : x = reading.muted \cup f
        OBVIOUS
      <4>3. reading' = [reading EXCEPT !.muted = x]
        BY <4>1, <4>2
      <4>4. f \in SUBSET Slugs
        OBVIOUS
      <4>5. /\ reading'.zones = reading.zones /\ reading'.camera = reading.camera
            /\ reading'.muted = reading.muted \cup f /\ reading'.library = reading.library
        BY <4>2, <4>3, <1>t DEF Reading
      <4>6. x \in SUBSET Slugs
        BY <4>2, <4>4, <1>t DEF Reading
      <4>7. reading' \in Reading
        BY <4>3, <4>6, <1>t DEF Reading
      <4>8. reload = "taxonomy" /\ f \subseteq Disabled
        BY <3>2, <4>1
      <4> QED
        BY <4>4, <4>5, <4>7, <4>8
    <3> QED
      BY <1>2, <3>1, <3>2 DEF ReloadMutesShort
  <2>2. \/ reload = "global" /\ reload' = "taxonomy"
        \/ reload = "taxonomy" /\ reload' = "location"
        \/ reload = "location" /\ reload' = "flags"
    BY <1>2 DEF ReloadMutesShort
  <2>3. FinalCamera' = FinalCamera
    BY <2>1, <2>2, <1>s DEF FinalCamera
  <2>4. FinalMuted' \subseteq FinalMuted
    BY <2>1, <2>2, <2>3, <1>s DEF FinalMuted, If, BucketOf
  <2>5. /\ v.zones = w.zones /\ v.detectors = w.detectors /\ v.library = w.library
        /\ v.muted = Resolve(FinalMuted', FinalCamera) /\ w.muted = Resolve(FinalMuted, FinalCamera)
    BY <1>v, <1>s, <2>1, <2>2, <2>3 DEF FinalView, Resolve
  <2>6. \A d \in Dets : Drops(v, d) => Drops(w, d)
    <3>1. v.muted \subseteq w.muted
      BY <2>4, <2>5 DEF Resolve
    <3> QED
      BY <2>5, <3>1, DropsLess
  <2>7. Below => Below'
    BY <2>1, <2>2, <1>s DEF Below, If
  <2> QED
    BY <1>d, <2>1, <2>2, <2>6, <2>7 DEF ReadsLess, Unread
<1> QED
  BY <1>1, <1>2

LEMMA ReloadEnds == ASSUME reload' = "idle", reading' = NothingRead PROVE OfOneMoment' /\ Current' /\ NothingKept'
  BY DEF OfOneMoment, Current, NothingKept, Reloading

LEMMA Nothing == NothingRead \in Reading /\ NoSpan \in Span /\ Torn \in Span /\ NoMutes \in [Buckets -> SUBSET Slugs]
                 /\ StartRow \in CameraRow /\ NoExclusion \in Exclusion
  BY DEF NothingRead, Reading, NoSpan, Torn, Span, NoMutes, StartRow, CameraRow, NoExclusion, Exclusion, Locations

LEMMA TrackTyped == ASSUME span \in Span, Track PROVE span' \in Span
<1>1. \A d \in Dets : (Unwanted(d) \in BOOLEAN)'
  BY DEF Unwanted
<1> QED
  BY <1>1, Nothing DEF Track, Span

\* The invariant of the gate.
GateInv == FlagInv /\ TypeOK /\ NothingKept /\ OfOneMoment /\ Current

LEMMA InvOriginals == FlagInv => Originals
  BY DEF FlagInv, FlagsOK, FlagOK, Originals

\* The gate's own steps leave the flags alone but for the bounds.
LEMMA FlagsRest ==
    ASSUME FlagInv, UNCHANGED <<classes, flags, detections, files, jobs, history>>,
           requests' \in Nat, failures' \in Nat
    PROVE  FlagInv'
<1>1. FlagsTypeOK'
  BY DEF files, history, FlagInv, FlagsTypeOK
<1>2. Quiet
  BY ClassesSame DEF files, history
<1>3. \A c \in Callers : Follows(c, jobs'[c])
  BY IdleFollows
<1> QED
  BY <1>1, <1>2, <1>3, QuietStep

LEMMA GateFlags == ASSUME FlagInv, [Next]_vars PROVE FlagInv'
<1>1. requests \in Nat /\ failures \in Nat /\ requests + 1 \in Nat /\ failures + 1 \in Nat
  BY DEF FlagInv, FlagsTypeOK
<1>2. CASE FlagsStep
  BY <1>2, FlagStep DEF FlagsStep
<1>3. CASE HandleUpdateZoneExclusions \/ HandleUpdateCamera \/ HandleUpdateClassMutes
  <2>1. Edit
    BY <1>3 DEF HandleUpdateZoneExclusions, HandleUpdateCamera, HandleUpdateClassMutes
  <2> QED
    BY <1>1, <2>1, FlagsRest DEF Edit, Count
<1>4. CASE SaveBucket \/ SaveFails \/ Reload \/ Short \/ ReloadFails \/ UNCHANGED vars
  <2>1. UNCHANGED <<classes, flags, detections, files, jobs, history>>
        /\ requests' \in {requests, requests + 1} /\ failures' \in {failures, failures + 1}
    BY <1>4 DEF SaveBucket, SaveFails, Reload, Short, ReloadZonesShort, ReloadCameraShort, ReloadMutesShort, FallsShort, ReloadFails, ReloadZones, ReloadCamera, ReloadGlobal,
       ReloadTaxonomy, ReloadLocation, ReloadFlags, ReloadSwap, ReloadMutes, vars, flagVars, Failure
  <2> QED
    BY <1>1, <2>1, FlagsRest
<1>5. ASSUME NEW d \in Dets, OnDetection(d) PROVE FlagInv'
  BY <1>5, StoredKeeps DEF OnDetection
<1> QED
  BY <1>2, <1>3, <1>4, <1>5 DEF Next

\* A step of the api-server, which the reload takes notice of.
Edits == FlagsStep \/ HandleUpdateZoneExclusions \/ HandleUpdateCamera \/ HandleUpdateClassMutes \/ SaveBucket

LEMMA EditTypes == ASSUME TypeOK, FlagsTypeOK', Edits PROVE TypeOK'
<1>1. Track /\ UNCHANGED <<engine, reload, reading>>
  BY DEF Edits, FlagsStep, HandleUpdateZoneExclusions, HandleUpdateCamera, HandleUpdateClassMutes, SaveBucket, Edit
<1>2. span' \in Span /\ engine' \in View /\ reading' \in Reading
      /\ reload' \in {"idle", "camera", "global", "taxonomy", "location", "flags", "swap"}
  BY <1>1, TrackTyped DEF TypeOK
<1>3. zones' \in [Zones -> Exclusion]
  BY GateAssumption DEF TypeOK, Edits, FlagsStep, HandleUpdateZoneExclusions, HandleUpdateCamera, HandleUpdateClassMutes,
     SaveBucket, gateTables
<1>4. camera' \in CameraRow
  BY GateAssumption DEF TypeOK, Edits, FlagsStep, HandleUpdateZoneExclusions, HandleUpdateCamera, HandleUpdateClassMutes,
     SaveBucket, gateTables
<1>5. buckets' \in [Buckets -> SUBSET Slugs] /\ saving' \in [left : Seq(Locations), body : [Buckets -> SUBSET Slugs]]
  <2>1. CASE HandleUpdateClassMutes
    <3>1. PICK body \in [Buckets -> SUBSET Slugs] :
              /\ buckets' = [buckets EXCEPT !["global"] = body["global"]]
              /\ saving' = [left |-> <<"indoor", "outdoor">>, body |-> body]
      BY <2>1, GateAssumption DEF HandleUpdateClassMutes
    <3>2. <<"indoor", "outdoor">> \in Seq(Locations)
      BY DEF Locations
    <3>3. "global" \in Buckets
      BY DEF Buckets
    <3> QED
      BY <3>1, <3>2, <3>3 DEF TypeOK
  <2>2. CASE SaveBucket
    <3>1. PICK left \in Seq(Locations), body \in [Buckets -> SUBSET Slugs] : saving = [left |-> left, body |-> body]
      BY DEF TypeOK
    <3>2. left # <<>> /\ buckets' = [buckets EXCEPT ![Head(left)] = body[Head(left)]]
      BY <2>2, <3>1 DEF SaveBucket
    <3>3. Head(left) \in Buckets /\ Tail(left) \in Seq(Locations)
      BY <3>2 DEF Buckets
    <3>4. saving' = [left |-> <<>>, body |-> NoMutes] \/ saving' = [left |-> Tail(left), body |-> body]
      BY <2>2, <3>1 DEF SaveBucket
    <3>5. <<>> \in Seq(Locations)
      OBVIOUS
    <3>6. body[Head(left)] \in SUBSET Slugs
      BY <3>3
    <3>7. buckets' \in [Buckets -> SUBSET Slugs]
      BY <3>2, <3>6 DEF TypeOK
    <3>8. saving' \in [left : Seq(Locations), body : [Buckets -> SUBSET Slugs]]
      <4>1. NoMutes \in [Buckets -> SUBSET Slugs]
        BY Nothing
      <4>2. CASE saving' = [left |-> <<>>, body |-> NoMutes]
        BY <3>5, <4>1, <4>2
      <4>3. CASE saving' = [left |-> Tail(left), body |-> body]
        <5>1. Tail(left) \in Seq(Locations)
          BY <3>3
        <5> QED
          BY <4>3, <5>1
      <4> QED
        BY <3>4, <4>2, <4>3
    <3> QED
      BY <3>7, <3>8
  <2>3. CASE UNCHANGED <<buckets, saving>>
    BY <2>3 DEF TypeOK
  <2> QED
    BY <2>1, <2>2, <2>3 DEF Edits, FlagsStep, HandleUpdateZoneExclusions, HandleUpdateCamera, gateTables
<1> QED
  BY <1>2, <1>3, <1>4, <1>5 DEF TypeOK

LEMMA EditKeeps == ASSUME GateInv, FlagInv', Edits PROVE GateInv'
<1>1. TypeOK'
  BY EditTypes DEF GateInv, FlagInv
<1>2. Track /\ UNCHANGED <<engine, reload, reading>>
  BY DEF Edits, FlagsStep, HandleUpdateZoneExclusions, HandleUpdateCamera, HandleUpdateClassMutes, SaveBucket, Edit
<1>3. Originals'
  BY DEF FlagInv, FlagsOK, FlagOK, Originals
<1>4. camera \in CameraRow /\ reading.camera \in CameraRow /\ span.edited \subseteq TableNames
  BY DEF GateInv, TypeOK, Reading, Span
<1>5. OfOneMoment' /\ Current'
  BY <1>2, <1>3, <1>4, TrackKeeps DEF GateInv
<1>6. NothingKept'
  BY <1>2 DEF GateInv, NothingKept
<1> QED
  BY <1>1, <1>5, <1>6 DEF GateInv

\* Steps that change nothing the gate is made from.
LEMMA StillKeeps ==
    ASSUME GateInv, FlagInv', UNCHANGED <<zones, camera, buckets, engine, reload, reading, span, classes, flags>>,
           saving' \in [left : Seq(Locations), body : [Buckets -> SUBSET Slugs]]
    PROVE  GateInv'
<1>1. TypeOK'
  BY DEF GateInv, TypeOK, FlagInv
<1>2. Disabled' = Disabled /\ Library' = Library /\ \A cam : BucketOf(cam)' = BucketOf(cam)
  BY DEF Disabled, Enabled, Exists, Library, Made, BucketOf
<1>3. /\ CameraRead' = CameraRead /\ GlobalRead' = GlobalRead /\ TaxonomyRead' = TaxonomyRead
      /\ LocationRead' = LocationRead /\ FlagsRead' = FlagsRead /\ \A t : Unread(t)' <=> Unread(t)
  BY DEF CameraRead, GlobalRead, TaxonomyRead, LocationRead, FlagsRead, Unread
<1>4. FinalCamera' = FinalCamera
  BY <1>3 DEF FinalCamera
<1>5. FinalMuted' = FinalMuted
  BY <1>2, <1>3, <1>4 DEF FinalMuted, If, BucketOf
<1>6. FinalView' = FinalView
  BY <1>2, <1>3, <1>4, <1>5 DEF FinalView, Resolve
<1>7. Agrees => Agrees'
  BY <1>2, <1>3 DEF Agrees, If, BucketOf
<1>11. Below => Below'
  BY <1>2, <1>3 DEF Below, If, BucketOf
<1>8. ReadsMore
  BY <1>3, <1>6, <1>7, <1>11 DEF ReadsMore
<1>9. OfOneMoment' /\ Current'
  <2>1. CASE reload = "idle"
    BY <2>1 DEF OfOneMoment, Current, Reloading
  <2>2. CASE reload # "idle"
    BY <1>8, <2>2, ReadKeeps DEF GateInv
  <2> QED
    BY <2>1, <2>2
<1>10. NothingKept'
  BY DEF GateInv, NothingKept
<1> QED
  BY <1>1, <1>9, <1>10 DEF GateInv

LEMMA ReloadKeeps == ASSUME GateInv, FlagInv', Reload PROVE GateInv'
<1> USE Nothing
<1>1. UNCHANGED gateTables /\ FlagsTypeOK' /\ TypeOK
  BY DEF Reload, ReloadZones, ReloadCamera, ReloadGlobal, ReloadTaxonomy, ReloadLocation, ReloadFlags, ReloadSwap, ReloadMutes,
     GateInv, FlagInv
<1>2. CASE ReloadZones
  <2>1. reading' \in Reading /\ span' \in Span /\ OfOneMoment' /\ Current'
    BY <1>2, ReloadStarts DEF GateInv, FlagInv, FlagsOK, FlagOK, Originals
  <2>2. reload' = "camera" /\ engine' = engine
    BY <1>2 DEF ReloadZones
  <2> QED
    BY <1>1, <2>1, <2>2 DEF GateInv, TypeOK, NothingKept, gateTables
<1>3. CASE ReloadCamera \/ ReloadGlobal \/ ReloadTaxonomy \/ ReloadLocation \/ ReloadFlags
  <2>1. reading' \in Reading /\ ReadsMore
    BY <1>1, <1>3, ReloadReads
  <2>2. /\ reload # "idle" /\ UNCHANGED <<engine, span>>
        /\ reload' \in {"global", "taxonomy", "location", "flags", "swap"}
    BY <1>3 DEF ReloadCamera, ReloadGlobal, ReloadTaxonomy, ReloadLocation, ReloadFlags, ReloadMutes
  <2>3. OfOneMoment' /\ Current'
    BY <2>1, <2>2, ReadKeeps DEF GateInv
  <2> QED
    BY <1>1, <2>1, <2>2, <2>3 DEF GateInv, TypeOK, NothingKept, gateTables
<1>4. CASE ReloadSwap
  <2>1. reload' = "idle" /\ reading' = NothingRead /\ span' = NoSpan
    BY <1>4 DEF ReloadSwap
  <2>2. engine' \in View
    <3>1. reading \in Reading
      BY <1>1 DEF TypeOK
    <3>2. reading.camera \in CameraRow /\ reading.zones \in [Zones -> Exclusion] /\ reading.library \in SUBSET Dets
          /\ reading.muted \in SUBSET Slugs
      BY <3>1 DEF Reading
    <3>3. reading.camera.detectors \in SUBSET Kinds /\ reading.camera.mute \in SUBSET Slugs
      BY <3>2 DEF CameraRow
    <3>4. Resolve(reading.muted, reading.camera) \in SUBSET Slugs
      BY <3>2, <3>3 DEF Resolve
    <3> QED
      BY <1>4, <3>2, <3>3, <3>4 DEF ReloadSwap, View
  <2>3. OfOneMoment' /\ Current' /\ NothingKept'
    BY <2>1, ReloadEnds
  <2> QED
    BY <1>1, <2>1, <2>2, <2>3 DEF GateInv, TypeOK, gateTables
<1> QED
  BY <1>2, <1>3, <1>4 DEF Reload

LEMMA FailKeeps == ASSUME GateInv, FlagInv', Short \/ ReloadFails PROVE GateInv'
<1> USE Nothing
<1>1. UNCHANGED <<gateTables, engine>> /\ FlagsTypeOK' /\ TypeOK
  BY DEF Short, ReloadZonesShort, ReloadCameraShort, ReloadMutesShort, FallsShort, ReloadFails, GateInv, FlagInv
<1>2. CASE ReloadZonesShort
  <2>1. reading' \in Reading /\ span' \in Span /\ OfOneMoment' /\ Current'
    BY <1>2, ShortStart DEF GateInv, FlagInv, FlagsOK, FlagOK, Originals
  <2>2. reload' = "camera"
    BY <1>2 DEF ReloadZonesShort
  <2> QED
    BY <1>1, <2>1, <2>2 DEF GateInv, TypeOK, NothingKept, gateTables
<1>3. CASE ReloadCameraShort \/ ReloadMutesShort
  <2>1. reading' \in Reading /\ ReadsLess
    BY <1>1, <1>3, ShortReads
  <2>2. /\ reload # "idle" /\ reload' \in {"global", "taxonomy", "location", "flags"}
        /\ span' = IF span.torn THEN span ELSE [span EXCEPT !.short = TRUE]
    BY <1>3 DEF ReloadCameraShort, ReloadMutesShort, FallsShort
  <2>3. OfOneMoment' /\ Current'
    BY <1>1, <2>1, <2>2, ShortReadKeeps DEF GateInv, TypeOK
  <2>4. span' \in Span
    BY <1>1, <2>2 DEF TypeOK, Span
  <2> QED
    BY <1>1, <2>1, <2>2, <2>3, <2>4 DEF GateInv, TypeOK, NothingKept, gateTables
<1>4. CASE ReloadFails
  <2>1. reload' = "idle" /\ reading' = NothingRead /\ span' = NoSpan
    BY <1>4 DEF ReloadFails
  <2>2. OfOneMoment' /\ Current' /\ NothingKept'
    BY <2>1, ReloadEnds
  <2> QED
    BY <1>1, <2>1, <2>2 DEF GateInv, TypeOK, gateTables
<1> QED
  BY <1>2, <1>3, <1>4 DEF Short

LEMMA GateStep == GateInv /\ [Next]_vars => GateInv'
<1> SUFFICES ASSUME GateInv, [Next]_vars PROVE GateInv'
  OBVIOUS
<1>1. FlagInv'
  BY GateFlags DEF GateInv
<1>2. CASE Edits
  BY <1>1, <1>2, EditKeeps
<1>3. CASE SaveFails
  <2>1. <<>> \in Seq(Locations)
    OBVIOUS
  <2>2. saving' \in [left : Seq(Locations), body : [Buckets -> SUBSET Slugs]]
    BY <1>3, <2>1, Nothing DEF SaveFails
  <2> QED
    BY <1>1, <1>3, <2>2, StillKeeps DEF SaveFails
<1>4. ASSUME NEW d \in Dets, OnDetection(d) PROVE GateInv'
  BY <1>1, <1>4, StillKeeps DEF OnDetection, Stored, gateVars, gateTables, GateInv, TypeOK
<1>5. CASE Reload
  BY <1>1, <1>5, ReloadKeeps
<1>6. CASE Short \/ ReloadFails
  BY <1>1, <1>6, FailKeeps
<1>7. CASE UNCHANGED vars
  BY <1>1, <1>7, StillKeeps DEF vars, flagVars, gateVars, gateTables, GateInv, TypeOK
<1> QED
  BY <1>2, <1>3, <1>4, <1>5, <1>6, <1>7 DEF Next, Edits

LEMMA GateStart == Init => GateInv
<1> SUFFICES ASSUME Init PROVE GateInv
  OBVIOUS
<1>1. FlagInv
  BY FlagStart DEF Init
<1>2. engine \in View
  <2>1. zones \in [Zones -> Exclusion]
    BY Nothing DEF Init
  <2>2. Disabled \in SUBSET Slugs
    BY DEF Disabled
  <2> QED
    BY <2>1, <2>2 DEF Init, View
<1>3. saving \in [left : Seq(Locations), body : [Buckets -> SUBSET Slugs]]
  <2>1. <<>> \in Seq(Locations)
    OBVIOUS
  <2> QED
    BY <2>1, Nothing DEF Init
<1>4. TypeOK
  BY <1>1, <1>2, <1>3, Nothing DEF Init, TypeOK, FlagInv
<1> QED
  BY <1>1, <1>4 DEF Init, GateInv, NothingKept, OfOneMoment, Current, Reloading

\* The swap is of the view the invariant speaks of.
LEMMA SwapJudges ==
    ASSUME GateInv, [Next]_vars, reload = "swap", reload' = "idle", ~span.torn, NEW d \in Dets
    PROVE  Drops(engine', d) \in span.verdicts[d] \/ (span.short /\ ~Drops(engine', d))
<1>1. ReloadSwap
  BY DEF Next, FlagsStep, HandleUpdateZoneExclusions, HandleUpdateCamera, HandleUpdateClassMutes, Edit, SaveBucket, SaveFails,
     OnDetection, gateVars, Reload, ReloadZones, ReloadCamera, ReloadGlobal, ReloadTaxonomy, ReloadLocation, ReloadFlags,
     ReloadMutes, Short, ReloadZonesShort, ReloadCameraShort, ReloadMutesShort, ReloadFails, vars
<1>2. engine' = FinalView
  <2>1. FinalCamera = reading.camera
    BY DEF FinalCamera, CameraRead
  <2>2. FinalMuted = reading.muted
    BY DEF FinalMuted, If, GlobalRead, TaxonomyRead, LocationRead
  <2> QED
    BY <1>1, <2>1, <2>2 DEF FinalView, ReloadSwap, FlagsRead
<1>3. Judged(d)
  BY DEF GateInv, OfOneMoment, Reloading
<1> QED
  BY <1>2, <1>3 DEF Judged

\* The types of Gate, which hold through every interleaving of edits and reads.
THEOREM GateTypes == Spec => []TypeOK
<1>1. GateInv => TypeOK
  BY DEF GateInv
<1> QED
  BY <1>1, GateStart, GateStep, PTL DEF Spec

\* The gate judges every detection as the tables stood at some moment of the
\* reload that made its view, but for what a query that fell short lets through
\* (rules/engine.go, reload and onDetection).
THEOREM GateIsOfOneMoment == Spec => GateOfOneMoment
<1>1. GateInv /\ [Next]_vars =>
        [reload = "swap" /\ reload' = "idle" =>
            \/ span.torn
            \/ \A d \in Dets : \/ Drops(engine', d) \in span.verdicts[d]
                               \/ span.short /\ ~Drops(engine', d)]_vars
  BY SwapJudges
<1> QED
  BY <1>1, GateStart, GateStep, PTL DEF Spec, GateOfOneMoment
=============================================================================
