------------------------------ MODULE Incidents ------------------------------
(***************************************************************************)
(* The event-processor's firing path                                       *)
(* (apps/event-processor/internal/rules/engine.go): one detection at a     *)
(* time passes the gates, and every rule, hotlist entry or face match it   *)
(* satisfies goes through the cooldown, the merge into a recent incident   *)
(* of the camera or the INSERT of a new one, and the publish that makes    *)
(* the notification dispatcher act.  Database statements may fail, the     *)
(* publish may fail, and the process may restart between any two steps:    *)
(* cooldowns live in memory, incidents in Postgres.                        *)
(*                                                                         *)
(* Which gates (confidence, schedule, zone, alarm state, face score) a     *)
(* detection passes is left open: any subset of the sources that match its *)
(* camera may fire.                                                        *)
(***************************************************************************)
EXTENDS Integers, FiniteSets

CONSTANTS
    Cameras,
    Rules,          \* single-camera rules
    DirectSources,  \* hotlist entries, alerting persons and sequence rules
    Ids,            \* keys the incidents table may hand out
    NoRow,          \* an id not inserted yet
    Never,          \* the zero time.Time of a cooldown never charged
    NoDet,          \* no detection in the engine's hands
    NoSource,       \* no source is firing
    Matches,        \* [source -> cameras it targets]
    Phase,          \* [source -> its loop in onDetection: 1 hotlist/face, 2 rules, 3 sequences]
    CooldownSec,    \* [source -> seconds], 0 or less disables it
    MergeWindowSec, \* [rule -> seconds], 0 default, negative never
    DefaultMergeWindow,
    Severity,       \* [source -> 1..3], severity_rank of info, warning, critical
    MaxDelay,       \* how far a detection's ts may lie behind the clock
    MaxTime         \* bound on the clock

Sources == Rules \cup DirectSources

ASSUME SourcesAssumption ==
    /\ Rules \cap DirectSources = {}
    /\ Matches \in [Sources -> SUBSET Cameras]
    /\ Phase \in [Sources -> 1..3]
    /\ Severity \in [Sources -> 1..3]
    /\ CooldownSec \in [Sources -> Int]
    /\ MergeWindowSec \in [Rules -> Int]

ASSUME BoundsAssumption ==
    /\ DefaultMergeWindow \in Nat \ {0}
    /\ MaxDelay \in Nat
    /\ MaxTime \in Nat

ASSUME SentinelsAssumption ==
    /\ Never \notin Int
    /\ NoRow \notin Cameras
    /\ NoRow \notin Ids
    /\ NoSource \notin Sources
    /\ NoRow \notin [cam : Cameras, by : Sources, last : Int, sev : Int, rules : SUBSET Rules]
    /\ NoDet \notin [cam : Cameras, ts : Int]

VARIABLES
    now,        \* wall clock
    det,        \* the detection onDetection is working on
    stage,      \* where in the handler the engine is
    todo,       \* sources of this pass still to evaluate
    cur,        \* the source being fired
    row,        \* the row just inserted, to be published
    cooldowns,  \* Engine.cooldowns
    incidents,  \* the incidents table
    sent,       \* [id -> publishes on fnvr.events.incident.<camera>]
    fires,      \* history: timestamps each cooldown was charged with in this process
    newest      \* history: latest timestamp folded into each row

engine == <<det, stage, todo, cur, row, cooldowns, fires>>
table  == <<incidents, newest>>
vars   == <<now, engine, table, sent>>

Times == 0..MaxTime
Detection == [cam : Cameras, ts : Times]
Row == [cam : Cameras, by : Sources, last : Times, sev : 1..3, rules : SUBSET Rules]

Stages == {"idle", "eval", "merge", "create", "publish"}

TypeOK ==
    /\ now \in Times
    /\ det \in Detection \cup {NoDet}
    /\ stage \in Stages
    /\ (det = NoDet) <=> (stage = "idle")
    /\ todo \in SUBSET Sources
    /\ cur \in Sources \cup {NoSource}
    /\ (cur = NoSource) <=> (stage \in {"idle", "eval"})
    /\ stage = "merge" => cur \in Rules
    /\ row \in Ids \cup {NoRow}
    /\ (row = NoRow) <=> (stage # "publish")
    /\ cooldowns \in [Sources -> Times \cup {Never}]
    /\ incidents \in [Ids -> Row \cup {NoRow}]
    /\ sent \in [Ids -> Nat]
    /\ fires \in [Sources -> SUBSET Times]
    /\ newest \in [Ids -> Times]

Init ==
    /\ now = 0
    /\ det = NoDet
    /\ stage = "idle"
    /\ todo = {}
    /\ cur = NoSource
    /\ row = NoRow
    /\ cooldowns = [s \in Sources |-> Never]
    /\ incidents = [i \in Ids |-> NoRow]
    /\ sent = [i \in Ids |-> 0]
    /\ fires = [s \in Sources |-> {}]
    /\ newest = [i \in Ids |-> 0]

-----------------------------------------------------------------------------
(* Helpers *)

\* mergeWindowFor: the rule's merge window in seconds, 0 for "never merge".
MergeWindowFor(secs) ==
    IF secs = 0 THEN DefaultMergeWindow ELSE IF secs < 0 THEN 0 ELSE secs

WindowOf(s) == IF s \in Rules THEN MergeWindowFor(MergeWindowSec[s]) ELSE 0

\* Faulty variant of CooldownOK: the boundary is one second off.
CooldownOffByOne(s, ts) ==
    CooldownSec[s] > 0 /\ cooldowns[s] # Never => ts - cooldowns[s] >= CooldownSec[s] - 1

\* The test of cooldownOK.
CooldownOK(s, ts) ==
    CooldownSec[s] > 0 /\ cooldowns[s] # Never => ts - cooldowns[s] >= CooldownSec[s]

\* Faulty variant of InWindow: last_detection_at > $6.
InWindowStrict(c, cutoff) ==
    {i \in Ids : incidents[i] # NoRow /\ incidents[i].cam = c /\ incidents[i].last > cutoff}

\* Rows of the camera whose heartbeat is inside the window.
InWindow(c, cutoff) ==
    {i \in Ids : incidents[i] # NoRow /\ incidents[i].cam = c /\ incidents[i].last >= cutoff}

\* ... WHERE id = (SELECT ... ORDER BY last_detection_at DESC LIMIT 1)
MergeTargets(c, cutoff) ==
    {i \in InWindow(c, cutoff) :
        \A j \in InWindow(c, cutoff) : incidents[j].last <= incidents[i].last}

\* Go on with the sources that are left, or return from onDetection.
Continue(left) ==
    /\ todo' = left
    /\ cur' = NoSource
    /\ row' = NoRow
    /\ IF left = {} THEN stage' = "idle" /\ det' = NoDet
                    ELSE stage' = "eval" /\ UNCHANGED det

\* The loops of onDetection run one after the other; within one loop the
\* order is that of an unordered SELECT.
NextSources == {s \in todo : \A t \in todo : Phase[s] <= Phase[t]}

-----------------------------------------------------------------------------
(* The detection handler *)

\* A detection arrives and its row is stored; `passing` are the sources
\* whose filters it satisfies.
OnDetection ==
    /\ stage = "idle"
    /\ \E c \in Cameras, delay \in 0..MaxDelay :
        /\ delay <= now
        /\ \E passing \in SUBSET {s \in Sources : c \in Matches[s]} :
            /\ passing # {}
            /\ det' = [cam |-> c, ts |-> now - delay]
            /\ todo' = passing
    /\ stage' = "eval"
    /\ UNCHANGED <<now, cur, row, cooldowns, fires, table, sent>>

\* Faulty variant of PassCooldown: hotlist and face firings merge as well.
PassCooldownAlwaysMerges(s) ==
    /\ stage = "eval"
    /\ s \in NextSources
    /\ CooldownOK(s, det.ts)
    /\ cooldowns' = [cooldowns EXCEPT ![s] = det.ts]
    /\ fires' = [fires EXCEPT ![s] = @ \cup {det.ts}]
    /\ cur' = s
    /\ todo' = todo \ {s}
    /\ stage' = "merge"
    /\ UNCHANGED <<now, det, row, table, sent>>

\* cooldownOK charges the cooldown before anything is written.
PassCooldown(s) ==
    /\ stage = "eval"
    /\ s \in NextSources
    /\ CooldownOK(s, det.ts)
    /\ IF CooldownSec[s] > 0
         THEN /\ cooldowns' = [cooldowns EXCEPT ![s] = det.ts]
              /\ fires' = [fires EXCEPT ![s] = @ \cup {det.ts}]
         ELSE UNCHANGED <<cooldowns, fires>>
    /\ cur' = s
    /\ todo' = todo \ {s}
    /\ stage' = IF WindowOf(s) > 0 THEN "merge" ELSE "create"
    /\ UNCHANGED <<now, det, row, table, sent>>

CoolingDown(s) ==
    /\ stage = "eval"
    /\ s \in NextSources
    /\ ~CooldownOK(s, det.ts)
    /\ Continue(todo \ {s})
    /\ UNCHANGED <<now, cooldowns, fires, table, sent>>

\* Faulty variants of MergedRow: the merging rule takes the row over; the
\* latest severity wins.
MergedRowTakesOver(old) ==
    [cam |-> old.cam, by |-> cur, last |-> det.ts, rules |-> old.rules \cup {cur},
     sev |-> IF Severity[cur] > old.sev THEN Severity[cur] ELSE old.sev]

MergedRowLatestSeverity(old) ==
    [cam |-> old.cam, by |-> old.by, last |-> det.ts, rules |-> old.rules \cup {cur}, sev |-> Severity[cur]]

\* What the UPDATE sets: the heartbeat, the contributing rules, the higher
\* of the two severities.
MergedRow(old) ==
    [cam |-> old.cam, by |-> old.by, last |-> det.ts, rules |-> old.rules \cup {cur},
     sev |-> IF Severity[cur] > old.sev THEN Severity[cur] ELSE old.sev]

\* Faulty variant of MergeInto: the update is published on the creation subject.
MergeIntoAnnounces(i) ==
    /\ stage = "merge"
    /\ i \in MergeTargets(det.cam, det.ts - WindowOf(cur))
    /\ incidents' = [incidents EXCEPT ![i] = MergedRow(@)]
    /\ newest' = [newest EXCEPT ![i] = IF det.ts > @ THEN det.ts ELSE @]
    /\ sent' = [sent EXCEPT ![i] = @ + 1]
    /\ Continue(todo)
    /\ UNCHANGED <<now, cooldowns, fires>>

\* tryMergeIncident: one UPDATE, then a publish on the UI-only subject.
MergeInto(i) ==
    /\ stage = "merge"
    /\ i \in MergeTargets(det.cam, det.ts - WindowOf(cur))
    /\ incidents' = [incidents EXCEPT ![i] = MergedRow(@)]
    /\ newest' = [newest EXCEPT ![i] = IF det.ts > @ THEN det.ts ELSE @]
    /\ Continue(todo)
    /\ UNCHANGED <<now, cooldowns, fires, sent>>

NothingToMerge ==
    /\ stage = "merge"
    /\ InWindow(det.cam, det.ts - WindowOf(cur)) = {}
    /\ stage' = "create"
    /\ UNCHANGED <<now, det, todo, cur, row, cooldowns, fires, table, sent>>

\* createIncident: the row of a rule carries its ts as the heartbeat.
RuleRow(r) ==
    [cam |-> det.cam, by |-> r, last |-> det.ts, sev |-> Severity[r], rules |-> {r}]

\* fireHotlistIncident, fireFaceIncident, fireSequenceIncident: the INSERT
\* names neither last_detection_at, so the column's DEFAULT NOW() is the
\* heartbeat, nor rule_ids.
DirectRow(s) ==
    [cam |-> det.cam, by |-> s, last |-> now, sev |-> Severity[s], rules |-> {}]

NewRow(s) == IF s \in Rules THEN RuleRow(s) ELSE DirectRow(s)

Create(i) ==
    /\ stage = "create"
    /\ incidents[i] = NoRow
    /\ incidents' = [incidents EXCEPT ![i] = NewRow(cur)]
    /\ newest' = [newest EXCEPT ![i] = det.ts]
    /\ row' = i
    /\ stage' = "publish"
    /\ UNCHANGED <<now, det, todo, cur, cooldowns, fires, sent>>

\* The UPDATE or the INSERT fails: the firing is logged and dropped, the
\* cooldown stays charged.
DatabaseError ==
    /\ stage \in {"merge", "create"}
    /\ Continue(todo)
    /\ UNCHANGED <<now, cooldowns, fires, table, sent>>

Publish ==
    /\ stage = "publish"
    /\ sent' = [sent EXCEPT ![row] = @ + 1]
    /\ Continue(todo)
    /\ UNCHANGED <<now, cooldowns, fires, table>>

PublishError ==
    /\ stage = "publish"
    /\ Continue(todo)
    /\ UNCHANGED <<now, cooldowns, fires, table, sent>>

\* The process dies and comes back: memory is gone, the table stays.
Restart ==
    /\ det' = NoDet
    /\ stage' = "idle"
    /\ todo' = {}
    /\ cur' = NoSource
    /\ row' = NoRow
    /\ cooldowns' = [s \in Sources |-> Never]
    /\ fires' = [s \in Sources |-> {}]
    /\ UNCHANGED <<now, table, sent>>

Tick ==
    /\ now < MaxTime
    /\ now' = now + 1
    /\ UNCHANGED <<engine, table, sent>>

Next ==
    \/ OnDetection
    \/ \E s \in Sources : PassCooldown(s) \/ CoolingDown(s)
    \/ \E i \in Ids : MergeInto(i) \/ Create(i)
    \/ NothingToMerge
    \/ DatabaseError
    \/ Publish
    \/ PublishError
    \/ Restart
    \/ Tick

Spec == Init /\ [][Next]_vars

-----------------------------------------------------------------------------
(* Safety *)

Exists(i) == incidents[i] # NoRow

\* "Fires once per incident": a row is announced at most once, never before
\* its INSERT committed, and a merge announces nothing.
AnnouncedOnce ==
    \A i \in Ids : sent[i] <= 1 /\ (sent[i] = 1 => Exists(i))

\* A row is as severe as the most severe rule that contributed to it,
\* whatever order the rules fired in.
SeverityCoversRules ==
    \A i \in Ids : Exists(i) =>
        \A r \in incidents[i].rules : incidents[i].sev >= Severity[r]

\* In one process lifetime a source never fires twice within its cooldown,
\* even when detections arrive late or out of order.
CooldownSpacing ==
    \A s \in Sources : \A t, u \in fires[s] : t < u => u - t >= CooldownSec[s]

\* "The first firing in a fresh window INSERTs": a rule that merges opens a
\* row only if no row of the camera has a heartbeat inside its window, also
\* when a restart lost the cooldowns in between.
FreshWindowOnly ==
    [][\A i \in Ids : ~Exists(i) /\ Exists(i)' /\ WindowOf(cur) > 0 =>
            \A j \in Ids : Exists(j) /\ incidents[j].cam = det.cam =>
                incidents[j].last < det.ts - WindowOf(cur)]_vars

\* One visit, one row, but for what a late detection moves the heartbeat back: a
\* rule that merges opens a row only if nothing was folded into another row of
\* the camera less than its window, less the greatest delay, before.
VisitsApart ==
    [][\A i \in Ids : ~Exists(i) /\ Exists(i)' /\ WindowOf(cur) > 0 =>
            \A j \in Ids : Exists(j) /\ incidents[j].cam = det.cam =>
                det.ts - newest[j] > WindowOf(cur) - MaxDelay]_vars

(* The abstract specification, under the obvious mapping of the rows. *)
visitOf == [i \in Ids |-> IF Exists(i) THEN incidents[i].cam ELSE NoRow]
openerOf == [i \in Ids |-> IF Exists(i) THEN incidents[i].by ELSE NoSource]
heartbeatOf == [i \in Ids |-> IF Exists(i) THEN incidents[i].last ELSE 0]
announcedOf == {i \in Ids : sent[i] > 0}

Log == INSTANCE IncidentLog WITH
    Openers <- Sources,
    Window <- [s \in Sources |-> WindowOf(s)],
    NoCamera <- NoRow,
    NoOpener <- NoSource,
    visit <- visitOf,
    opener <- openerOf,
    heartbeat <- heartbeatOf,
    announced <- announcedOf

\* The table and the creation subject behave as IncidentLog promises.
ImplementsLog == Log!LogSpec
==============================================================================
