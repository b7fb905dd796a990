# fnvr: a TLA+ verification project

fnvr is a network video recorder: MediaMTX records the cameras, a GStreamer
pipeline finds objects in their streams, a rules engine makes incidents of
them, and operators are told through a web UI, push channels and Home
Assistant. These modules model its parts that keep state across calls and
across processes, TLC checks them on small instances, and TLAPS proves the
main safety properties for every value of the constants.

    tlc -workers 2 -config IncidentsLate.cfg MCIncidents    # one run of the list below
    tlapm IncidentsProofs.tla                               # one proof module

Contents: 1 inventory, 2 modules and code, 3 runs and bounds, 4 fairness,
5 proofs, 6 where the code and its documents disagree, 7 what is left out,
8 plan.

## 1. Inventory

Processes talk over NATS (subjects `fnvr.*`), share one Postgres database, and
storage-manager, MediaMTX and event-processor share the recordings directory.
There is no other coordination: no locks across processes, no transactions
over more than one statement except where noted.

| part | state it keeps | operations | talks to |
|---|---|---|---|
| pipeline-supervisor (C++), `supervisor.cpp`, `grouping.cpp` | `workers_`, `quarantine_`, `recent_faults_`, per-worker strikes; fault marker files | `reconcileOnce` (plan, stop, start), worker threads (respawn, count faults, retire), quarantine, probation, graduation | reads the cameras table; forks one pipeline process per group; publishes detections and camera states |
| event-processor, `rules/engine.go` | snapshots of rules, zones, mutes, faces, hotlists; `cooldowns`; `sequenceSightings`; `tracks`; `alarmState` | `onDetection`, `reload` every 30 s and on a NATS nudge, `fire*Incident` | subscribes detections, `fnvr.settings.alarm.changed`; writes detections and incidents; publishes incidents |
| event-processor, `sidecar/writer.go` | segment cache, open files, pending detections | `Enqueue`, `handle`, `flushPending`, `closeIdle` | reads segments, appends `.jsonl` beside the video |
| storage-manager, `lifecycle.go` | `indexed` memo; files and the segments table | tick: index, retention, quota, disk pressure, detections pruning | removes videos and sidecars |
| notification-dispatcher, `mqtthub`, `habridge`, `channels` | connection entries with reference counts; timers; retained MQTT topics | Acquire and release, Start and Stop, callbacks, deliveries | subscribes detections and incidents; MQTT brokers, webhooks, ntfy |
| api-server, `auth`, `persons`, `flags`, `classes`, `settings`, `camera`, `events`, `mtxproxy` | the database; sessions and a 5 min bearer cache; frames, labels and `dataset.yaml`; last camera states; SSE clients | REST handlers; enrolment, erasure, retro-matching; camera state tracker; MediaMTX path reconciler; event fan-out | all of the above |
| ml-worker (Python) | JetStream consumer position; scheduled jobs | embeds face crops and republishes the detection; clustering; drift checks | JetStream, database, Triton |
| web (React), tools, deploy | none the back end relies on | | |

What is hard in each, and what makes it correct:

* **Firing path.** Detections arrive out of order: a face result goes through a
  queue, and the detection comes back with the time of its capture. Statements
  and publishes fail one by one; a restart forgets the cooldowns and
  keeps the incidents. Correct: one announcement per incident and none for a
  merge; cooldowns hold; a firing opens a new incident only when the camera is
  cold; severity never drops below that of a contributing rule.
* **Sequence rules.** Sightings are pruned lazily and against the time of
  whatever detection arrives; rules are edited while sightings are kept.
  Correct: a chain fires only inside its window, none is missed, memory is
  bounded.
* **Line zones.** A rule on a line or tripwire fires when a track's centre moved
  across it, judged against one remembered centre per track, which the object's
  faces and plates share; faces come back late and perhaps twice; the table is
  purged in the middle of a detection. Correct: a passage meets the segment, the
  passages of a track add up, nothing is forgotten that could be continued.
* **Alarm state.** Three writers (PUT handlers, psql, reload) reach one atomic
  over two ways, the bus and the database. Correct: what is saved gets into force.
* **Supervisor.** A reconcile is a long sequence of blocking steps against
  worker threads that retire and quarantine under it. Correct: no camera is
  pulled twice, the fleet recovers from faults, quarantine is earned.
* **MQTT.** Deliveries and the bridge share connections; brokers go away and
  come back with a will in between; timers fire under NATS callbacks. Correct:
  exact reference counts, an honest availability topic, every ON followed by
  its OFF.
* **Recordings.** Two processes write to one directory with the database as a
  third opinion; every step may fail. Correct: disk, rows and policies agree in
  the end, protected video stays, nothing is taken beyond need.
* **Accounts.** Handlers read a row, judge it and write in statements of their
  own; the sessions are a map of the process, dropped after the write, while a
  login or a bearer lookup that read earlier may still store one; a reply may be
  lost after the commit. Correct: an enabled admin remains, and a session that
  its row contradicts is never left behind without a reason.
* **Persons.** Enrolments arrive one by one, in bulk, from clusters and photos;
  the engine names faces by a snapshot and `RetroMatch` by what it read, while
  persons are disabled and erased. Correct: an erased person is gone everywhere,
  who is known is named, a pool holds no duplicates.
* **Flags and the taxonomy.** A flag is a row, a frame, a label with a class
  number and a name in `dataset.yaml`, written one after the other, while classes
  are created, disabled and deleted and flags dismissed and purged. Correct: what
  a trainer reads on disk is what the rows say.
* **The gate.** What is dropped before it is stored comes from seven tables, read
  one after another while they are edited, some queries failing quietly.
  Correct: each view is one that stood, and the last edit gets into force.
* **Camera states, event fan-out, path reconciler** (not modelled).
  Subscribe-then-replay, slow consumers, level-triggered repair.

`PROJECT.json` lists every component with its status, and under `hazards` the
places in the code that are hard to test, with the properties that guard them.
Too small for a module, and so only recorded here: the directory swap of
`calibration/sampler.go:149` is not atomic; ml-worker publishes before it acks
(`face_consumer.py:117`), so a crash between the two repeats a detection.

## 2. Modules and code

| module | code | state | actions |
|---|---|---|---|
| `IncidentLog` | abstract: what the incidents table and its subject promise | rows with camera, opener, heartbeat; announced rows | `Open`, `Extend`, `Announce` |
| `Incidents` | `engine.go` `onDetection` from the first firing on, `cooldownOK`, `fireIncident`, `tryMergeIncident`, `createIncident`, `fireHotlistIncident`, `fireFaceIncident`, `fireSequenceIncident` | the handler's position, cooldowns, the incidents table, publishes | one per statement or early return that can fail or be interleaved with a restart |
| `SequenceRule` | `compileSequence`, `evalSequence`, `fireSequenceIncident` for one rule | loaded definition, sightings, cooldown | take a detection (with the definition of that moment), record and judge, fire, fail, edit, restart |
| `Tripwire` | `lineCrossed`, `segmentsIntersect`, `rememberTrack`, the zones of `reload`; which track ids `pipeline.cpp` publishes and how `face_consumer.py` brings faces back | the line, faces on their way, the table of tracks; as history the last detection of each object itself and the side its passages put it on | detect an object, a plate, a face (late, twice), redraw the line, restart |
| `AlarmState` | `server/alarm.go` PUT, `settings/store.go`, the engine's subscription and the alarm part of `reload` | settings row, handlers, messages in flight, the atomic, reload's position | save, publish, lose, edit in psql, subscribe, hear, swap, read, fail, store, restart |
| `Supervisor` | `supervisor.cpp`, `grouping.cpp`, `db_reconciler.cpp`, fault markers of `pipeline.cpp` | cameras table, plan, workers with the members and configurations their children serve, quarantine map, storm window, markers | each step of a reconcile, each event of a worker, the child's own read of the cameras (`main.cpp:64`), timers, edits |
| `MqttHub` | `mqtthub/hub.go` | entries, who holds what, connections that are up, wills a broker has yet to publish, retained availability | `Share`, `Connect`, `ConnectTimesOut`, `Release`, `Reconnects`, `ConnectionLost`, `WillSent` as operators on the hub's state |
| `HABridge` | `habridge/bridge.go`, the watcher of `cmd/main.go`, `channels/dispatcher.go`'s MQTT delivery | setting and watcher, run state, callbacks in progress, timers, retained payloads | composed with `MqttHub` by EXTENDS: each action conjoins what it does to the hub |
| `Accounts` | `auth/auth.go` under the handlers of `server/users.go`, `authflow.go`, `server.go` | users, tokens, sessions, each request with its phase | login, change of password, bearer lookup, edit, delete, token handlers in their reads, writes and flushes; the lost reply of an edit or a revocation; expiry, sweep, restart |
| `Persons` | `persons/*.go`, `server/faces.go`, `clusters.go`, `persons.go`, `faces_upload.go`; the face part of `onDetection` and `loadFaceEnrolments` | persons, pools, dismissals, clusters, rows of faces, the engine's snapshot, its mean of each track and its verdicts in flight, requests | every handler in its statements, `RetroMatch` in its reads and writes, the engine's reload, verdict and insert, tracks that end, rows that age, a run of the clustering |
| `Flags` | `flags/store.go`, `flags/dataset.go`, `classes/store.go`, `server/flags.go`, `server/classes.go` | classes, flags, frames, labels, `dataset.yaml`, requests | each statement and each write or removal of a file, and its failure |
| `Gate` | the gate of `onDetection`, the reads of `reload`; the zone, camera and mute handlers | zones, the camera's row, the buckets, the engine's view, the reload's position | composed with `Flags` by EXTENDS: `FlagsStep`, the other edits, `Reload...`, `...Short` where a query ends early unnoticed, and `OnDetection`, which is `Stored` of `Flags` behind the gate |
| `Recordings` | `lifecycle.go` and `sidecar/writer.go` | files, rows, memo, the position in a pass; the writer's files, cache and pending | the passes of a tick in their steps, the writer's handlers, MediaMTX, operators, failures |

`Clock` is the clock of `SequenceRule` and `Tripwire`. `MCx` gives constants for `x`, `xProofs` proves theorems about `x`; `EngineProofs`
those about `SequenceRule`, `Tripwire` and `AlarmState`, which share nothing but the clock, and
`GateProofs` those about `Flags` and `Gate`. Every
definition that models code has its lines in `PROJECT.json` under `map`.
A few definitions (`Record...`, `Index...`, `...Early`, `...Unchecked` and the
like) are changed copies of a definition that stand for a plausible slip; no
specification uses them, `PROJECT.json` names them under `mutants`, and each
must make TLC find its property violated.

How code becomes steps:

* **Granularity.** In Go and C++ alike a step ends where another actor can get
  in between: an await of the database or of the network, a publish, an unlock.
  What happens under one lock, or in one goroutine on state of its own, is one
  step with its early returns as alternatives.
* **Time.** `Incidents`, `SequenceRule` and `Tripwire` have a clock (`now`, bounded by
  `MaxTime`) and detections whose timestamps lie up to `MaxDelay` behind it
  (in `Tripwire` any time: a face may wait in its queue as long as it likes).
  `Supervisor`, `HABridge` and `Recordings` have timers that may fire at any
  moment after they are armed, and no clock. `Supervisor` orders expiries by
  their length: two quiet minutes let every one-minute backoff run out
  (`StormPasses`), ten let all of them (`QuietPeriod`).
* **Gates.** In `Incidents` which rule a detection matches (class, confidence, zone, schedule,
  alarm state, face score) is an input: any subset of the sources that target
  its camera. This only adds behaviours.
* **Transactions.** A database transaction is one step at its commit (`Erase`,
  `AddEmbeddings`, `HandleClusterRunNow`), and so are the reads of one function
  with nothing between them that others would see. A write that fails without
  committing ends the request, as a request that never came would.
* **Faces.** The engine folds each face into a decayed mean of its track and judges
  the mean (`Probes`); which mean comes out is any that `Blends` allows. An embedding is a face, a cosine an integer percentage of two faces
  (`Sim`), so that the mean of the best three of a pool, its margin over the
  next person and the withdrawal by negatives are exact (`TopK` is six times the
  mean). `Margin > 0` is assumed: with none, two persons may tie, and which
  one the code names depends on the order of its rows.
* **Sizes.** In `Recordings` a segment is its `started_at`, a size a number of units, and a sum
  of sizes the number of their units (`Bytes`, `Recorded`, `OnDisk`), which is the same sum as
  the code's and can be reasoned about without recursion.
* **Failures.** Statements, publishes and connection attempts whose error the
  code looks at have a failing twin; errors the code ignores leave the state as
  a failed call would. Nobody looks at `rows.Err()` after most loops: where the
  answer feeds a state that lasts (`Gate`'s zones, camera and mutes, the lists of a
  purge in `Recordings`) an action of its own goes on with a part of it. Section 7
  names the failures left out.
* **Restarts** reset what lives in memory and keep the database, the disk and
  the retained topics.

## 3. Runs and bounds

| run | question | bounds and why they are enough |
|---|---|---|
| `incidents_late` | Do announcements, severities, cooldowns and windows hold when detections come up to two ticks late, statements fail and the process restarts? | One camera, a rule with the default window and no cooldown, one with a longer window, a cooldown and a higher severity, a hotlist entry; two rows, three instants, delay 2. All windows are per camera; two rows and two rules are what a wrong merge or a second announcement needs; with delay 2 in three instants every order of timestamps occurs, and a heartbeat that is moved back may let a visit open twice within what `VisitsApart` allows. |
| `incidents_log` | Does the engine implement `IncidentLog`: a rule that merges opens a row only where none is warm, and extends none but the warmest? | Two cameras, so that a merge into the wrong camera would show; a rule that merges, one that never does (on one camera only), a sequence rule. |
| `sequence` | Does a chain fire only inside its window, is none missed, is memory bounded? | Three hops whose last takes two classes, edited to two hops one sighting can satisfy twice; window 2, delay 1, five instants: long enough for a sighting to leave the window and for a late one to come back into it. |
| `tripwire` | Do passages meet the segment and add up, does the table forget too much? | A person with five places, two on each side of a line and one on it, and a face above; a vehicle with a plate that stands still; one line over the whole frame and one over its right half, so that ways lead through and round it; a table of one entry, so that a second overflows it; five instants with staleness 1 and purge age 2. |
| `alarm` | Does a saved state get into force? | Two PUTs at once, one psql edit to any state or to a string that is none, one read error, one restart: two handlers are needed to save in one order and publish in the other, the rest each once against them. |
| `supervisor` | Is a camera ever in two workers, are groups packed, is quarantine earned, does the fleet recover? | Three cameras in groups of two, two edits of two of them (to a configuration that needs a graph of its own, off, and back), three faults, one accident (a failed camera read, the reconcile's or a child's, or an exit for no fault), four of all these together (`MaxTrouble`): a group splits, shrinks and moves while the reconcile is under way, an edit and its reversal enclose a child's read, and three faults are what a quarantine needs, with one event beside them. |
| `home_assistant` | Are counts exact, is availability honest, has every ON its OFF? | Two brokers, the bridge and one delivery, two edits of the setting (stop and start, move, or another password), two NATS messages, one lost connection, noticed by its broker at once or late, or timed-out Acquire, two connections. A stale timer of one run against the next needs exactly that: a message, a stop, a start, a message. |
| `recordings` | Do purges take what they may, in order, and do disk, rows and policies settle? | Three segments of two cameras, two sizes, a quota of one full segment on one camera, a disk that holds one and a half: quota and disk pressure both bite; one detection, one operator edit, one failure (of a statement, a file operation or a query, in whole or half-way) or restart. |
| `accounts` | Does an enabled admin remain, does a session outlive the change that ends it? | Two admins and an api-only user, or an empty table; two requests at once and four in all, one session token, one bearer token, one lost reply of a change or a revocation, one restart. Two removals racing each other need two callers; a login against a change, a flush and a second login need four requests. |
| `persons` | Does erasure hold, is who is known named, are pools diverse? | Two persons, two detections of one face and a photo of the same person turned away (near enough to match, too far to be a duplicate); one cluster; one track, new or another person's before, so that its mean may be nobody's face; two requests at once and two in all, which rows that age and tracks that end count for, with every step of the engine and of `RetroMatch` free between theirs. |
| `flags` | Does the training set on disk say what the rows say? | Three classes, one of them seeded and one made while the model runs, two flags, two requests at once and three in all, one failure: a deletion between a flag's check and its row, a purge between its files and its paths, two writers of `dataset.yaml`. |
| `gate` | Is every view of the gate one that stood, and does the last edit get into force? | One detection in one zone, three edits of any of the seven tables, one query that fails or falls short, or a failing save: two edits tear a reload, the third comes after. |

All twelve are expected to pass. A mutant per property shows that each can be broken by the code: dropped
guards, an off-by-one in the packing, a pruning that is too eager, a reset
that is missing, a swapped order.

Deadlock is checked where the actors never stop. `Incidents` (clock and rows
run out), `HABridge`, `Accounts`, `Persons`, `Flags` and `Gate` (edits, messages, requests and
losses run out) end by their bounds and say `CHECK_DEADLOCK FALSE`. `IncidentsLate` and `IncidentsLog` use
symmetry in the row ids, `Accounts`, `Flags` and `Persons` in their requests,
`Persons` also in its persons and detections; all of these are only compared.

## 4. Fairness

Liveness is checked under what the scheduling of the code guarantees, weakly fair:

* `AlarmState`: the steps of `reload`, which a ticker starts every 30 s for ever
  and whose error paths all return to it; and the delivery of a message that is
  on its way to a connected subscriber. No fairness for operators, publishes,
  reads that succeed or restarts: `EventuallyInForce` holds because those are
  bounded, that is, once they stop.
* `Supervisor`: the reconcile loop (`Run` repeats it until shutdown); the worker
  threads (`WorkerProceeds`: a child is respawned, a child left alone gets
  healthy, a child with a dead member, or with none to serve, exits, graduation is
  noticed); and the backoffs, which run out. Weak fairness to the workers as one
  is as much as to each: between two faults and two decisions of the loop what
  they have left to do by themselves is finite, but for a child of disabled members, which
  exits and is respawned until a reconcile stops its worker. None for faults,
  exits without cause, edits or `StormPasses`/`QuietPeriod`. That a child gets
  healthy is an assumption on the cameras: faults are bounded, and a camera
  without further faults comes up.
* `Recordings`: `ManagerStep`, the ticks of storage-manager's `Run`. Each has a
  next step whatever failed, so one weak fairness condition on all of them is
  what the loop gives. None for the writer: `EventuallySettled` is about files
  of MediaMTX and their rows only.
* `Gate`: `Reload`, the reads and the swap, which a ticker repeats every 30 s for
  ever (engine.go:590) and whose errors return to it. None for edits, failures
  or detections: `EventuallyGated` is about the time after the last of them.
* `Incidents`, `SequenceRule`, `Tripwire`, `HABridge`, `Accounts`, `Persons` and `Flags` state safety only.
  The handlers end with their request, and what a request owes is stated as what
  holds when it is over (`StrangersExplained` once a `RetroMatch` has completed,
  `DatasetExplained` when no request works on a flag). NATS core
  subscriptions lose messages without notice, so the code promises no liveness
  there beyond the timers, and that an armed timer leads to an OFF is stated as
  the invariant `OnWillClear`.

## 5. Proofs

All for every value of the constants under the named assumptions of the module
(types of the parameters, sentinels that are no data, finiteness where
something is counted); no bound on rows, cameras, callers, time or faults is
used except through these constants.

* **`IncidentsProofs`** (assumptions `SourcesAssumption`, `BoundsAssumption`,
  `SentinelsAssumption`). `TypeCorrect` first; `TableSteps` sums up what any
  step may do to a row (create it, merge into it, leave it), so that the later
  proofs do not go through the actions again. `NeverAnnouncedTwice` needs
  `AnnouncedInv`: the row in the hands of the publish step exists and was not
  sent. `CooldownsHold` needs `CooldownInv`: every charge lies at or before the
  current one. `FreshWindows` needs `MergeInv`: between the failed search and
  the INSERT no row of the camera gets warm, since one detection is handled at
  a time. `VisitsStayApart` holds for every `MaxDelay`: `VisitInv` says that a
  heartbeat lags what was folded into its row by the delay of one detection at most, which is
  what the property allows. `ImplementsIncidentLog` is the refinement: initial states map to
  initial states and every step to a step of `IncidentLog` or a stutter; `WarmRows` shows that
  the rows a firing may be merged into are those the log calls warm.
* **`EngineProofs`**, about three parts of the engine that have no variable in common but the clock.
  Of `SequenceRule` (`SequenceAssumption`, `ClockAssumption`): `Recorded` says what a handled
  detection leaves of a step's sightings, and `SequenceFiresInWindow` follows from
  it. `SightingsAlwaysBounded` needs `Ages`: whatever is kept was seen before the
  detection in the handler arrived, which its own time lags by `MaxDelay` at most.
  `NoChainEverMissed` by `ChainInv`: a sighting under the loaded definition is still
  there or something newer by a window was seen since; and a detection that
  carries an older definition, which prunes by it, comes before anything was seen
  under the new one.
  Of `Tripwire` (`TripwireAssumption`), the geometry first: `CrossSums`
  relates the cross products of two segments, which the solvers expand once;
  `IntersectMeets` then shows by the sign of one of them that the code's test
  finds only segments that meet, and all that meet and have their ends on two
  sides of the line. `CrossingCounts` adds the direction. `PassagesAlwaysAddUp` is
  inductive with the types: every handled detection moves the ledger as it moves
  the remembered centre (`HandlerAccounts`), whatever its time and kind.
  `EvictionAlwaysHarmless` needs that no detection is from the future, which
  is part of `LineTypeOK`.
  Of `AlarmState` (`AlarmAssumption`): `AlarmTypeCorrect`, and
  `TwoReloadsSuffice` by `QuietInv`: once a whole reload passed undisturbed, the
  read and the stored value are what the engine makes of the setting, whatever string psql left
  there. `InForceAfterReloads` alone says nothing of the first of the two.
* **`SupervisorProofs`** (`SupervisorAssumption`). `NoCameraPulledTwice` by `IInv`: while groups stop, the
  workers the loop is past match the plan; while groups start, all of them do;
  and the groups of a plan share no camera. `OneWorkerPerCamera` is not inductive without
  the first two, because a group is started by what the plan says and not by
  what runs. Nothing is assumed of timers, faults, exits, edits and of what a child reads.
  `PlansPacked` counts places (`PlacesCount`): the chunks of one configuration are full
  but for the last, for any number of cameras and any size of a group.
  `QuarantinesEarned` by `Ledger`: the lines of a camera's fault marker that are not yet read and
  the strikes they became, three for each offence, are together at most its deaths, so
  that no line is counted twice. Reading a marker judges its lines one after the other, in a
  recursive function; that the strikes it adds are no more than the lines it read is shown
  by the least line where it would fail (`LeastNatural`), in place of an induction. The
  ledger rests on `SupervisorTypes` and so on every action, crashes of a child and restarts of a
  group included.
* **`HABridgeProofs`** (`HubAssumption`, `BridgeAssumption`). `CountsAreExact` by
  `RefcountInv`: the hub's types, the exact counts, and that a bridge that is
  about to acquire has a key to acquire with (`StartsOnKey`). One lemma per operation of
  the hub, then one step per action of the bridge. `BridgeTypeCorrect` ties the
  stage of the bridge to what it holds. The other two go by `HubMoves`: whatever the
  action, the hub and the brokers change in one of five ways. `Placed` says where
  connections are: a session is one of the hub or one that Acquire gave up, and
  what is given up is never used again. `StatusAlwaysHonest` needs it, because a lost
  session could else be one the hub knows nothing of. A will that is yet to come belongs to a connection
  that is down: while that one is of the hub it tells the truth, and afterwards it is `stale`.
  `StatusHonestAlone` itself supposes one user per broker; `OnAlwaysClears` does not.
  It strengthens `OnWillClear` (`Clears`): an ON that waits for a reconnect counts as shown, and
  what will clear it is on the same broker. `Waiting` adds that a payload waits only for a
  connection of the hub that is down, so that an OFF that goes out and an ON that waits are of
  two connections, and the broker is known to show the ON in the end (`Overtakes`).

* **`AccountsProofs`** (`AccountsAssumption`). `RequestsSound` says what a request
  carries from one statement to the next. `AdminAlwaysRemains` by `AdminInv`:
  as long as no two removals overlapped (`raced`), whoever is past the guard has
  seen an admin that is not the one it removes, and that admin is still there.
  `OutdatedAlwaysExplained` by `ApiInv`: `KeptSession` covers the steps that leave
  sessions and rows alone, `FlushStep` the ones that drop what they contradict;
  what remains is a request that is yet to flush, a store that came late, or a
  lost reply, of a change or of a revocation.

* **`PersonsProofs`** (`PersonsAssumption`). `ErasureAlwaysHolds` by itself with
  the types: a pool and a cluster are only written for a person that exists
  (the foreign keys), a row for anybody. `PoolsAlwaysDiverse` by `JobDiverse`:
  what a request holds between its pruning and its insert repeats neither itself
  nor the pool; nobody else can have added to it, or the person is `unpruned`.
  `StrangersAlwaysExplained` by `StrangerInv`: a verdict in flight that is not
  `behind` was made of the row's own embedding and is what the tables say, and a `RetroMatch` that is not `dirty` goes by the
  tables and still has before it every nameless row it should name. Two lemmas
  cover most steps: those that change what the matchers read (`StrangerChanged`)
  and those that change none of it (`StrangerSame`).

* **`RecordingsProofs`** (`RecordingsAssumption`). Two processes, MediaMTX and operators
  may come between any two steps of a purge, which works off the answer of a query that
  grows old. `RecordingsInv` says what it may trust all the same. `Selected`: each video on the
  list was there, and is unprotected unless somebody protected it since; that is
  `ProtectedAlwaysKept`. `SeenGone` sits between the removal of the files and of the row, and
  `GhostsAlwaysExplained` rests on it: a row without a video is one whose deletion failed, or the
  one the purge is at. `InSequence` and `OldestFirst`: the list is sorted (by ranks,
  `RankExists`), and no older video of the camera is missing from it. `MemoTrue` and
  `QuotaTrue`: the running total of the quota pass is at most what the memo knows to be on disk
  of the camera (`Known`), which is at most what is there. `DropsNeverMoreThanNeeded` needs all three and
  speaks, as its property does, of histories in which nothing failed: after a failure
  a row may count what is no longer there. A query that fails or falls short only shortens
  the list (`LostPurging`). The writer's half,
  `SidecarsAlwaysFollow`, is independent of the purges but for the removal of a sidecar with
  its video.

* **`GateProofs`** (`FlagsAssumption`: the taxonomy is finite and no two classes share a number,
  as `yolo_id` is UNIQUE; `GateAssumption`). `FlagInv` ties every flag's row, frame, label and
  jobs to each other: a label is that of the row's class (`LabelKept`), which still exists (`ClassKept`), a
  row with paths has its files (`Complete`), files without them belong to a caller who is at making or
  at purging them (`Owned`, `Early`), and `dataset.yaml` agrees with the numbers in use or whoever has to
  write it still will (`Named`); one caller makes a flag (`OneMaker`). The
  exemptions are the properties' own and are the code's: flags whose class was deleted
  between the check and the row (`raced`), whose making failed half-way (`broken`), or whose purge
  read before there were paths (`early`), and the writers of `dataset.yaml` that overtook each
  other (`disordered`). `GateIsOfOneMoment` by `GateInv`: as long as only one table was edited during a
  reload, what has been read agrees with the tables until one that was read is edited (`Current`), so
  that the verdicts of the view the reload will end with (`FinalView`) are among those of a moment of
  its span (`OfOneMoment`). After a query that fell short what has been read is less than the
  tables say (`Below`), and a view of less drops less (`DropsLess`, `BelowVerdict`).

Every safety invariant and every action property that a run checks is stated by a theorem. Only model-checked
is what leads to something: `EventuallyInForce`, `EventuallySettled`,
`EventuallyGated` and `EventuallyRecovers`. Liveness under fairness and ENABLED are out of the
prover's reach; so is induction over data in general, and where a proof needs one it goes by a least
counterexample or by counting.

## 6. Where the code and its documents disagree

Met while modelling; the models follow the code.

* A restart of the bridge leaves the incident sensor ON: `Stop` drops the timers
  (`bridge.go:217`) and publishes no OFF, where `bridge.go:395` says that the sensor
  does not stay stuck.
* A sidecar whose video was purged before the writer opened it stays on disk,
  where `storage.md:12` and `:53` say it is removed with its segment.
* A face shares the remembered centre of its person (`engine.go:2379`), so that a
  line between the two is reported as passed (`engine.go:2394` speaks of the
  track's own previous centre).
* The steps of a sequence need a sighting each and are not compared in time,
  where engine.go:291 says 'in order'.
* The quarantine backoff doubles only for an entry in probation or past 60 s, but
  a camera alone in its group writes no fault marker and graduation forgets the
  entry, so it never doubles, where supervisor.h:59 says it does per re-offence.
* A crossing whose frame fails another condition of the rule is lost, as the
  centre moves on all the same. A centre that arrives exactly on the line
  from the left is reported "in", and again when it leaves to either side. A late face also
  sets the track's time back, so that the next detection of the body
  may find it stale. The pipeline thins a still object to one detection in 2 s
  (pipeline.cpp:270), which is also the longest gap a track survives.
* A detection handled late moves `last_detection_at` back (engine.go:1429), so a
  later firing of the same visit may open a second incident: `VisitsApart` can
  promise a distance of the window less `MaxDelay` only.
* Sightings are keyed by step index and survive an edit of the rule; a completed
  chain is not consumed and completes again with the next match of its last
  step after the cooldown.
* `GetAlarm` takes a bare string that psql left as the state (`store.go:504` speaks of
  tolerating it) and shows any other string as `disarmed` (`:512`). The engine decodes neither
  like that: a bare string disarms it, and a struct's state is stored as it is
  (engine.go:857), so that UI and engine differ for as long as the row stands.
* A PUT's message can be overwritten by a reload that read before it, until the
  next reload; a failing read of the alarm setting stores `disarmed`.
* A failed read of the cameras looks like an empty fleet and stops every worker,
  where the comment beside it (supervisor.cpp:155) says it must change nothing.
  The storm detector judges faults one at a time, so the first camera of a storm
  can be struck before the storm is recognised; fault markers outlive the child that wrote them.
* A child reads the cameras for itself (main.cpp:64), while the supervisor compares the plan it
  started the worker with: a camera that was disabled or reconfigured while the child started
  and is edited back before the next reconcile stays unserved, or served as it was, until
  something else restarts the group (`missed`).
* All connections to a broker share one availability topic, while entries are
  per url and user name: with two user names on one broker the last release of one says offline while
  the other is up. `StatusHonest` fails with `MCSameBroker`, `StatusHonestAlone`
  states when it holds. An Acquire that gives up after 8 s leaves a client that
  keeps trying (`leaked`). The will of a connection that was lost and then released
  may come after the next connection's `online` and stays (`stale`), where hub.go:76 has each
  connect clear a previous `offline`.
* With two user names on one broker, or a connection of an earlier run that a delivery still
  holds, an OFF may reach the broker before an ON that waits for another connection, which
  then stays.
* A `Start` that failed is not tried again before the setting changes, since the
  watcher remembered it first (cmd/main.go:72). A motion timer of an earlier run
  sends its OFF to the current broker and swallows the next ON edge there.
* Cameras removed while the bridge is stopped keep their discovery configs
  (bridge.go:247): what to clear is remembered in memory only.
* The memo of storage-manager knows files by path and size: a camera deleted and
  created again under its id gets no rows for its old files before a restart.
  Files of a deleted camera are never purged by age or quota and still count for
  disk pressure, which others then pay for.
* The default face threshold is 0.4 in a comment and 0.55 in `loadFaceThreshold`.
* Accounts: `must_change` is set by `BootstrapAdmin` only, where `auth.go:54` and
  `authflow.go:139` speak of passwords an admin assigned. Two removals at once can
  leave no enabled admin (`auth.go:288`: "Refuses if..."): each counts before the
  other writes. `ChangeOwnPassword` reads `disabled` and does not look at it. A
  login that read before a change stores its session after the flush, and a lost
  reply to an UPDATE, or to the DELETE of a revocation (`auth.go:475`), skips the flush
  everywhere but in `SetPassword`: a cached session of the revoked token stays until it expires.
* Persons: the engine judges a face by the decayed mean of its track (`engine.go:1021`) and
  `RetroMatch` by the embedding of the row, so that a face the enrolment would name stays a
  stranger until the next `RetroMatch`, and for good after 7 days. `skipped` of `PruneEnrolBatch` includes the over-cap remainder
  (`enrolprune.go:32`), where the comment at `:24` excludes it. `RetroMatch` takes the
  raw embedding out of a row it names "to mirror the live matcher"
  (`retromatch.go:88`), which keeps it (`engine.go:1083`); it also writes the
  similarity as a number where readers expect a map of strings. An enrolment of which the quality
  gate rejects every face is taken for one whose faces are all there already
  (`clusters.go:163`). `Erase` leaves uploaded thumbnails, dismissals and the
  embeddings of cluster members; thumbnails may be made again after it by
  `handleFaceThumbnail`. A run of the clustering between the read and the
  mark of `AssignClusterToPerson` marks members that were never enrolled.
  `facethumbs.go:24` rests on clusters being 7 days old at most; a run that finds too
  few faces (`clusters.py:166`) leaves the old ones, and an enrolment from one may refer
  to a file about to be unlinked.
* Flags: when `SlugToYoloID` fails (`flags.go:171`) the flag's row stays, suppresses
  detections and has no files, where the comment at `:181` promises a rollback. A
  failing query of the entries (`entries, _ :=`) writes a `dataset.yaml` without names. The
  row is inserted before the frame is written, where `flags/store.go:84` expects
  the opposite. The names are those of the enabled classes and not of the active
  flags (`dataset.go:18`), and the handlers of classes do not write them anew. A purge
  that reads before the paths are patched leaves the files.
* Gate: nobody looks at `rows.Err()` after the zones and the cameras (`engine.go:619`, `:686`)
  nor at the errors of the muted classes, so that a query that ends early swaps in a part of its
  table, without exclusions and mutes that stand, until the next reload. Flagged objects drop detections of any kind that carry a `phash`, where
  `engine.go:974` says that the check runs for objects only.

## 7. What is left out

* The content of messages, SQL and frames; metrics and logs.
* `Incidents`: which detections match; drift alerts, which insert a row of no
  camera and neither merge nor cool down.
* `Tripwire`: polygon zones; the camera part of the table's key; a direction the
  rule may ask for (the properties are about both); untracked detections, which
  the code ignores; coordinates are integers where the code rounds float32.
* Failures: in `Recordings` an error of the second `statfs` within a pressure pass and the
  fallback of `loadMinFreePct` to 10 %; in the engine's reload the rules and hotlists, whose
  list an unnoticed error truncates like that of the zones (`engine.go:637`): what matches is an
  input of `Incidents`.
* `Supervisor`: flap detection and stall checks of a worker, which end in the
  exits the model has; `workers_mu_`, which only the reconcile thread takes; the
  30 min wait for an engine file, which is a delay between two steps.
* `HABridge`: an edit of a topic prefix, which restarts the bridge like one of the password
  does here but also moves the topics, read by each callback when it begins (`bridge.go:393`, `:432`),
  so that what an earlier run left ON stays under the old prefix; a connection that its client
  believes up after the broker gave it up, on which a publish waits or is lost as on one that is
  down; discovery and plain value topics; cameras other than one (state is
  per camera); timer callbacks that lost their check; the goroutine of
  `OnConnect`, whose `online` could overtake a later `offline`.
* `Recordings`: the limit of 500 rows per pass and camera (a pass takes them
  all, and the next tick would have); pruning of detections; face crops.
* `Accounts`: the login throttle, bcrypt (a password is itself), page rights.
* `Persons`: the filter on the embedding model in `RetroMatch` (`retromatch.go:30`), as all rows
  of the model are of one; a row inserted between the UPDATE of an erasure and its commit, which
  `Erase`, one step at the commit, still strips (READ COMMITTED would not); crops and thumbnails on disk, labels and other texts, the numeric
  code of the clustering (any grouping may come out) and of the embeddings.
* `Flags`: boxes, paths and pictures; what the trainer makes of them.
* `Gate`: plates, schedules and the matching of rules, which read a snapshot and
  change nothing.
* The components with status `not_modelled`, with the reason beside each.

## 8. Plan

Order by what the operators rely on most: what fires and records, the accounts,
the persons, the training set and the gate are done. What is left:

1. `WorkerLoop`: the heal ladder of a worker with its delays and flap detection,
   as a refinement of the child in `Supervisor`.
2. `CameraState` and `MtxPaths`: subscribe-then-replay with two clocks; the path
   reconciler converges and touches no foreign path.
3. `EventBus`: fan-out with bounded channels and unsubscribing clients.
4. `Matching`: schedule, LIKE patterns, polygon zones and the severity gate as
   operators, checked against reference definitions over bounded inputs.
5. Abstract specifications: an ideal fleet that `Supervisor` implements (every
   camera is down, in a group, or alone) and an archive that `Recordings`
   implements (segments are recorded, indexed and dropped by policy).
6. Proofs: those two refinements, in the modules that hold the invariants they
   rest on; and of each new module the types and its first invariant.
