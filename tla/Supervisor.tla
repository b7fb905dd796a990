----------------------------- MODULE Supervisor -----------------------------
(***************************************************************************)
(* The pipeline-supervisor (apps/pipeline-supervisor/src/supervisor.cpp,   *)
(* grouping.cpp and the fault handling of pipeline.cpp and main.cpp): a    *)
(* reconcile thread plans the enabled cameras into groups and starts and   *)
(* stops one worker per group; each worker respawns a child process,       *)
(* counts the faults of its members and quarantines repeat offenders; a    *)
(* quarantined camera comes back through a solo probation group.  A worker *)
(* hands its child nothing but ids: the child reads the cameras table      *)
(* again and serves those of its members that are enabled by then.         *)
(*                                                                         *)
(* Time is coarse: timers run out one by one (QuarantineExpires) or a      *)
(* whole window passes without a fault (StormPasses, QuietPeriod).         *)
(***************************************************************************)
EXTENDS Integers, FiniteSets, SequencesExt

CONSTANTS
    Cameras,        \* camera ids, numbers in their sorting order
    Configs,        \* what of a camera's row needs a worker restart
    ShapeKey,       \* [config -> graph shape], "solo" for bespoke graphs
    Off,            \* the camera is disabled
    Starts,         \* tables of cameras the supervisor may find when it starts
    GroupMax,       \* FNVR_GROUP_MAX
    NoEntry,        \* camera not in the quarantine map
    Edited,         \* the cameras that operators edit
    MaxEdits, MaxDeaths,    \* bounds on edits of a camera, on faults of a member, on
    MaxAccidents,           \* failing camera reads and children that exit for no fault,
    MaxTrouble              \* and on all of them together

Shapes == {ShapeKey[f] : f \in Configs} \ {"solo"}
GroupIds == (Shapes \X (0..(Cardinality(Cameras) \div GroupMax))) \cup ({"solo", "probation"} \X Cameras)
Fleets == UNION {[S -> Configs] : S \in SUBSET Cameras}

ASSUME SupervisorAssumption ==
    /\ Cameras \subseteq Nat
    /\ IsFiniteSet(Cameras)
    /\ Off \notin Configs
    /\ Starts \subseteq [Cameras -> Configs \cup {Off}]
    /\ "probation" \notin {ShapeKey[f] : f \in Configs}
    /\ GroupMax \in Nat \ {0}
    /\ Edited \subseteq Cameras
    /\ MaxEdits \in Nat /\ MaxDeaths \in Nat /\ MaxAccidents \in Nat /\ MaxTrouble \in Nat

VARIABLES
    db,         \* cameras table: configuration or Off
    quarantine, \* quarantine_
    recent,     \* recent_faults_: cameras with a fault in the last two minutes
    workers,    \* workers_: [group id -> worker]
    markers,    \* the fault marker files: [group id -> lines]
    phase,      \* where reconcileOnce is
    plan,       \* the plans it works from
    todo,       \* groups it has not got to yet
    deaths,     \* history: faults of each camera
    offences,   \* history: how often each camera was quarantined
    missed,     \* history: cameras whose row is back at what its worker was planned
                \* with, while the child runs with the row it found in between
    edits, accidents

fleet     == <<db, edits, missed>>
reconcile == <<phase, plan, todo>>
history   == <<deaths, offences>>
vars      == <<fleet, quarantine, recent, workers, markers, reconcile, history, accidents>>

Backoffs == {1, 2, 4, 8, 10}    \* minutes
Entry == [backoff : Backoffs, state : {"quarantined", "expired", "probation"}]
Worker == [members : Fleets, child : {"down", "up"}, serves : Fleets, healthy : BOOLEAN,
           dead : SUBSET Cameras, retired : BOOLEAN, strikes : [Cameras -> 0..2]]

NoWorkers == [g \in {} |-> {}]
NoCameras == [c \in {} |-> Off]

TypeOK ==
    /\ db \in [Cameras -> Configs \cup {Off}]
    /\ quarantine \in [Cameras -> Entry \cup {NoEntry}]
    /\ recent \subseteq Cameras
    /\ DOMAIN workers \subseteq GroupIds
    /\ \A g \in DOMAIN workers :
        /\ workers[g] \in Worker
        /\ workers[g].dead \subseteq DOMAIN workers[g].serves
        /\ DOMAIN workers[g].serves \subseteq DOMAIN workers[g].members
        /\ workers[g].child = "down" => workers[g].serves = NoCameras
    /\ markers \in [GroupIds -> Seq(Cameras)]
    /\ phase \in {"idle", "stopping", "starting"}
    /\ DOMAIN plan \subseteq GroupIds
    /\ \A g \in DOMAIN plan : plan[g] \in Fleets
    /\ todo \subseteq GroupIds
    /\ phase = "idle" => todo = {}
    /\ deaths \in [Cameras -> Nat]
    /\ offences \in [Cameras -> Nat]
    /\ missed \subseteq Cameras
    /\ edits \in Nat /\ accidents \in Nat


\* One more edit, fault or failure is within bounds.
MoreTrouble == edits + accidents + FoldFunction(+, 0, deaths) < MaxTrouble
Accident == MoreTrouble /\ accidents < MaxAccidents /\ accidents' = accidents + 1

Init ==
    /\ db \in Starts
    /\ quarantine = [c \in Cameras |-> NoEntry]
    /\ recent = {}
    /\ workers = NoWorkers
    /\ markers = [g \in GroupIds |-> <<>>]
    /\ phase = "idle"
    /\ plan = NoWorkers
    /\ todo = {}
    /\ deaths = [c \in Cameras |-> 0]
    /\ offences = [c \in Cameras |-> 0]
    /\ missed = {}
    /\ edits = 0
    /\ accidents = 0

-----------------------------------------------------------------------------
(* PlanGroups *)

InState(st) == {c \in Cameras : quarantine[c] # NoEntry /\ quarantine[c].state \in st}

\* Faulty variant of GroupOf: the first chunk is one short.
GroupOfOffByOne(F, probation, c) ==
    IF c \in probation THEN <<"probation", c>>
    ELSE IF ShapeKey[F[c]] = "solo" THEN <<"solo", c>>
    ELSE LET upto == {d \in DOMAIN F \ probation : d <= c /\ ShapeKey[F[d]] = ShapeKey[F[c]]}
         IN  <<ShapeKey[F[c]], Cardinality(upto) \div GroupMax>>

\* Cameras on probation and bespoke graphs run alone; the others of a shape
\* are sorted by id and cut into chunks of GroupMax.
GroupOf(F, probation, c) ==
    IF c \in probation THEN <<"probation", c>>
    ELSE IF ShapeKey[F[c]] = "solo" THEN <<"solo", c>>
    ELSE LET before == {d \in DOMAIN F \ probation : d < c /\ ShapeKey[F[d]] = ShapeKey[F[c]]}
         IN  <<ShapeKey[F[c]], Cardinality(before) \div GroupMax>>

\* F without the quarantined cameras, by group; a plan is its members with
\* their configurations, which is what Signature covers.
PlanGroups(F, quarantined, probation) ==
    LET live == [c \in DOMAIN F \ quarantined |-> F[c]]
    IN  [g \in {GroupOf(live, probation, c) : c \in DOMAIN live} |->
            [c \in {d \in DOMAIN live : GroupOf(live, probation, d) = g} |-> live[c]]]

Enabled == [c \in {d \in Cameras : db[d] # Off} |-> db[c]]
NaturalPlan == PlanGroups(Enabled, {}, {})

-----------------------------------------------------------------------------
(* reconcileOnce *)

\* Faulty variant of Plan: new groups are started before the old ones stop.
PlanStartsFirst(F) ==
    LET expired == InState({"expired", "probation"})
    IN  /\ phase = "idle"
        /\ plan' = PlanGroups(F, InState({"quarantined"}), expired)
        /\ quarantine' = [c \in Cameras |->
                IF c \in expired THEN [quarantine[c] EXCEPT !.state = "probation"] ELSE quarantine[c]]
        /\ phase' = "starting"
        /\ todo' = DOMAIN plan'
        /\ UNCHANGED <<fleet, recent, workers, markers, history>>

\* The cameras are read, expired entries flip to probation, groups are planned.
Plan(F) ==
    LET expired == InState({"expired", "probation"})
    IN  /\ phase = "idle"
        /\ plan' = PlanGroups(F, InState({"quarantined"}), expired)
        /\ quarantine' = [c \in Cameras |->
                IF c \in expired THEN [quarantine[c] EXCEPT !.state = "probation"] ELSE quarantine[c]]
        /\ phase' = "stopping"
        /\ todo' = DOMAIN workers
        /\ UNCHANGED <<fleet, recent, workers, markers, history>>

PlanFleet == Plan(Enabled) /\ UNCHANGED accidents

\* ReadEnabledCameras returns an empty list on any error.
PlanAfterDbError == Plan(NoCameras) /\ Accident

\* Workers whose group is planned unchanged and that did not retire.
Current ==
    {g \in DOMAIN plan \cap DOMAIN workers :
        plan[g] = workers[g].members /\ ~workers[g].retired}

\* A worker whose group is gone, changed or retired is stopped and joined; its
\* child is killed, its marker file stays.
StopWorker(g) ==
    /\ phase = "stopping"
    /\ g \in todo \ Current
    /\ workers' = [h \in DOMAIN workers \ {g} |-> workers[h]]
    /\ todo' = todo \ {g}
    /\ UNCHANGED <<fleet, quarantine, recent, markers, phase, plan, history, accidents>>

KeepWorker(g) ==
    /\ phase = "stopping"
    /\ g \in todo \cap Current
    /\ todo' = todo \ {g}
    /\ UNCHANGED <<fleet, quarantine, recent, workers, markers, phase, plan, history, accidents>>

\* Faulty variant of AllChecked: groups that run are started again.
AllCheckedStartsAll ==
    /\ phase = "stopping"
    /\ todo = {}
    /\ phase' = "starting"
    /\ todo' = DOMAIN plan
    /\ UNCHANGED <<fleet, quarantine, recent, workers, markers, plan, history, accidents>>

\* The groups of the plan that run by now are not started again.
AllChecked ==
    /\ phase = "stopping"
    /\ todo = {}
    /\ phase' = "starting"
    /\ todo' = DOMAIN plan \ DOMAIN workers
    /\ UNCHANGED <<fleet, quarantine, recent, workers, markers, plan, history, accidents>>

NewWorker(members) ==
    [members |-> members, child |-> "down", serves |-> NoCameras, healthy |-> FALSE, dead |-> {},
     retired |-> FALSE, strikes |-> [c \in Cameras |-> 0]]

\* Groups are started one by one, with waits for the engine files in between.
StartWorker(g) ==
    /\ phase = "starting"
    /\ g \in todo
    /\ workers' = [h \in DOMAIN workers \cup {g} |->
                    IF h = g THEN NewWorker(plan[g]) ELSE workers[h]]
    /\ todo' = todo \ {g}
    /\ UNCHANGED <<fleet, quarantine, recent, markers, phase, plan, history, accidents>>

AllStarted ==
    /\ phase = "starting"
    /\ todo = {}
    /\ phase' = "idle"
    /\ plan' = NoWorkers
    /\ UNCHANGED <<fleet, quarantine, recent, workers, markers, todo, history, accidents>>

-----------------------------------------------------------------------------
(* workerMain and its child *)

Up(g) == workers[g].child = "up"

\* The child serves those of its members that it finds enabled, as it finds them.
SpawnWith(g, F) ==
    /\ ~Up(g)
    /\ ~workers[g].retired
    /\ workers' = [workers EXCEPT ![g].child = "up", ![g].healthy = FALSE,
            ![g].serves = [c \in DOMAIN workers[g].members \cap DOMAIN F |-> F[c]]]
    /\ missed' = missed \ DOMAIN workers[g].members
    /\ UNCHANGED <<db, edits, quarantine, recent, markers, reconcile, history>>

Spawn(g) == SpawnWith(g, Enabled) /\ UNCHANGED accidents

\* The child cannot read the cameras.
SpawnBlind(g) == SpawnWith(g, NoCameras) /\ Accident

\* The child writes its healthy marker once frames flow.
Healthy(g) ==
    /\ Up(g)
    /\ ~workers[g].healthy
    /\ workers[g].dead # DOMAIN workers[g].serves
    /\ workers' = [workers EXCEPT ![g].healthy = TRUE]
    /\ UNCHANGED <<fleet, quarantine, recent, markers, reconcile, history, accidents>>

\* BusHandler: a member's source chain dies.  Its branch is marked dead, the
\* siblings keep running, one line goes to the marker file.  A child with one
\* member writes none: it exits (ChildExits).
MemberDies(g, c) ==
    /\ Up(g)
    /\ c \in DOMAIN workers[g].serves \ workers[g].dead
    /\ Cardinality(DOMAIN workers[g].serves) > 1
    /\ FoldFunction(+, 0, deaths) < MaxDeaths
    /\ MoreTrouble
    /\ workers' = [workers EXCEPT ![g].dead = @ \cup {c}]
    /\ markers' = [markers EXCEPT ![g] = Append(@, c)]
    /\ deaths' = [deaths EXCEPT ![c] = @ + 1]
    /\ UNCHANGED <<fleet, quarantine, recent, reconcile, offences, accidents>>

\* quarantineMember: a camera on probation, or past its first minute, doubles.
QuarantineMember(e) ==
    LET b == IF e = NoEntry THEN 1
             ELSE IF e.state = "probation" \/ e.backoff > 1
                  THEN IF e.backoff * 2 > 10 THEN 10 ELSE e.backoff * 2
             ELSE e.backoff
    IN  [backoff |-> b, state |-> "quarantined"]

\* One line of the marker file: a strike, unless three cameras faulted within
\* two minutes; the third strike quarantines and clears the count.
Strike(acc, c) ==
    LET r == acc.recent \cup {c}
    IN  IF Cardinality(r) >= 3 THEN [acc EXCEPT !.recent = r]
        ELSE IF acc.strikes[c] = 2
             THEN [recent     |-> r,
                   strikes    |-> [acc.strikes EXCEPT ![c] = 0],
                   quarantine |-> [acc.quarantine EXCEPT ![c] = QuarantineMember(@)],
                   offences   |-> [acc.offences EXCEPT ![c] = @ + 1]]
        ELSE [acc EXCEPT !.recent = r, !.strikes[c] = @ + 1]

\* The lines of the marker file, one after the other.
Tally(start, lines) ==
    LET after[i \in 0..Len(lines)] == IF i = 0 THEN start ELSE Strike(after[i - 1], lines[i])
    IN  after[Len(lines)]

\* Faulty variant of Consumed: the marker file is read and not removed.
ConsumedKept(g) == markers

\* consumeFaultMarkers removes the file.
Consumed(g) == [markers EXCEPT ![g] = <<>>]

\* A dead member is healed by a restart; a child with no member left to serve
\* exits at once.
MustExit(g) == Up(g) /\ (workers[g].dead # {} \/ workers[g].serves = NoCameras)

\* The child exits, because it must or for reasons of its own, and the worker
\* accounts for it: it retires when a member is quarantined and respawns the
\* child otherwise.
ChildExits(g) ==
    LET acc == Tally([recent |-> recent, strikes |-> workers[g].strikes,
                      quarantine |-> quarantine, offences |-> offences], markers[g])
    IN  /\ Up(g)
        /\ IF MustExit(g) THEN UNCHANGED accidents ELSE Accident
        /\ recent' = acc.recent
        /\ markers' = Consumed(g)
        /\ quarantine' = acc.quarantine
        /\ offences' = acc.offences
        /\ workers' = [workers EXCEPT ![g].child = "down", ![g].serves = NoCameras,
                                      ![g].dead = {}, ![g].strikes = acc.strikes,
                                      ![g].retired = (acc.offences # offences)]
        /\ UNCHANGED <<fleet, reconcile, deaths>>

\* A healthy probation child lifts the quarantine and its worker retires.
GraduateProbation(c) ==
    LET g == <<"probation", c>>
    IN  /\ g \in DOMAIN workers
        /\ Up(g)
        /\ workers[g].healthy
        /\ quarantine' = [quarantine EXCEPT ![c] = NoEntry]
        /\ workers' = [workers EXCEPT ![g].child = "down", ![g].serves = NoCameras,
                                      ![g].dead = {}, ![g].retired = TRUE]
        /\ UNCHANGED <<fleet, recent, markers, reconcile, history, accidents>>

-----------------------------------------------------------------------------
(* Time and operators *)

QuarantineExpires(c) ==
    /\ c \in InState({"quarantined"})
    /\ quarantine' = [quarantine EXCEPT ![c].state = "expired"]
    /\ UNCHANGED <<fleet, recent, workers, markers, reconcile, history, accidents>>

Expire(limit) ==
    [c \in Cameras |-> IF c \in InState({"quarantined"}) /\ quarantine[c].backoff <= limit
                       THEN [quarantine[c] EXCEPT !.state = "expired"] ELSE quarantine[c]]

\* Two minutes without a fault.
StormPasses ==
    /\ recent # {}
    /\ recent' = {}
    /\ quarantine' = Expire(2)
    /\ UNCHANGED <<fleet, workers, markers, reconcile, history, accidents>>

\* Ten minutes without a fault; a dead member would have been healed by a
\* restart of its child before that (the longest heal delay is 600 s).
QuietPeriod ==
    /\ recent # {} \/ \E g \in DOMAIN workers, c \in Cameras : workers[g].strikes[c] > 0
    /\ \A g \in DOMAIN workers : workers[g].dead = {}
    /\ recent' = {}
    /\ quarantine' = Expire(10)
    /\ workers' = [g \in DOMAIN workers |-> [workers[g] EXCEPT !.strikes = [c \in Cameras |-> 0]]]
    /\ UNCHANGED <<fleet, markers, reconcile, history, accidents>>

\* A child of g serves c, if at all, with another configuration than f.
Misses(g, c, f) ==
    Up(g) /\ ~(c \in DOMAIN workers[g].serves /\ workers[g].serves[c] = f)

EditCamera(c, f) ==
    /\ edits < MaxEdits
    /\ MoreTrouble
    /\ db[c] # f
    /\ db' = [db EXCEPT ![c] = f]
    /\ edits' = edits + 1
    /\ missed' = IF \E g \in DOMAIN workers : c \in DOMAIN workers[g].members
                        /\ workers[g].members[c] = f /\ Misses(g, c, f)
                 THEN missed \cup {c} ELSE missed
    /\ UNCHANGED <<quarantine, recent, workers, markers, reconcile, history, accidents>>

Next ==
    \/ PlanFleet
    \/ PlanAfterDbError
    \/ AllChecked
    \/ AllStarted
    \/ \E g \in todo : StopWorker(g) \/ KeepWorker(g) \/ StartWorker(g)
    \/ \E g \in DOMAIN workers :
        \/ Spawn(g)
        \/ SpawnBlind(g)
        \/ Healthy(g)
        \/ \E c \in Cameras : MemberDies(g, c)
        \/ ChildExits(g)
    \/ \E c \in Cameras :
        \/ GraduateProbation(c)
        \/ QuarantineExpires(c)
    \/ \E c \in Edited, f \in Configs \cup {Off} : EditCamera(c, f)
    \/ StormPasses
    \/ QuietPeriod

Spec == Init /\ [][Next]_vars

\* What a worker thread and its child do by themselves: the child is respawned,
\* comes up healthy if it is left alone, exits when it must, graduates.
WorkerProceeds ==
    \/ \E g \in DOMAIN workers : Spawn(g) \/ Healthy(g) \/ (MustExit(g) /\ ChildExits(g))
    \/ \E c \in Cameras : GraduateProbation(c)

\* The reconcile thread runs, so do the worker threads, and quarantines run out.
\* A child of disabled members exits and is respawned until a reconcile stops its
\* worker; else what is left to do between two faults, edits or failures is
\* finite, so that fairness to the workers as one is fairness to each.
Fairness ==
    /\ WF_vars(PlanFleet \/ AllChecked \/ AllStarted
                \/ \E g \in todo : StopWorker(g) \/ KeepWorker(g) \/ StartWorker(g))
    /\ WF_vars(WorkerProceeds)
    /\ WF_vars(\E c \in Cameras : QuarantineExpires(c))

FairSpec == Spec /\ Fairness

-----------------------------------------------------------------------------
(* Properties *)

\* No camera is pulled by two workers, whatever happens between the planning,
\* the stopping and the starting of a reconcile.
OneWorkerPerCamera ==
    \A g, h \in DOMAIN workers :
        g # h => DOMAIN workers[g].members \cap DOMAIN workers[h].members = {}

\* "Only a REPEAT offender (3 strikes)": every quarantine of a camera has
\* three faults of its own behind it that no other quarantine has used.
EarnedQuarantine == \A c \in Cameras : deaths[c] >= 3 * offences[c]

\* The batched groups of a shape are filled in the order of the ids, and only
\* the last may be short.
PlanPacksGroups ==
    \A g, h \in DOMAIN plan : g[1] = h[1] /\ g[1] \in Shapes /\ g[2] < h[2] =>
        /\ Cardinality(DOMAIN plan[g]) = GroupMax
        /\ \A c \in DOMAIN plan[g], d \in DOMAIN plan[h] : c < d

\* Once faults and edits stop, every enabled camera ends up in its natural group,
\* healthy and out of quarantine, and the group's child serves it as it is
\* configured, unless it was edited back while the child ran on the edit before:
\* no reconcile sees such a camera's worker as outdated.
Recovered ==
    /\ \A c \in DOMAIN Enabled : quarantine[c] = NoEntry
    /\ [g \in DOMAIN workers |-> workers[g].members] = NaturalPlan
    /\ \A g \in DOMAIN workers : Up(g) /\ workers[g].healthy /\ workers[g].dead = {}
    /\ \A g \in DOMAIN workers : \A c \in DOMAIN workers[g].members :
        Misses(g, c, db[c]) => c \in missed

EventuallyRecovers == <>[]Recovered
=============================================================================
