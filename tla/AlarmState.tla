----------------------------- MODULE AlarmState -----------------------------
(***************************************************************************)
(* The house-wide alarm state, from the setting an operator writes to the  *)
(* copy the rules engine gates rules with.  PUT handlers of the api-server *)
(* (server/alarm.go) save the setting and then publish it; the engine      *)
(* (rules/engine.go) stores what it hears and re-reads the setting in      *)
(* every reload, outside the lock and in two steps.  Publishes may fail,   *)
(* messages reach only a subscribed engine, the setting may be edited in   *)
(* psql, reads may fail and the engine may restart.                        *)
(***************************************************************************)
EXTENDS Integers, Sequences

CONSTANTS
    Requests,       \* PUT requests the operators make
    MaxEdits,       \* bound on psql edits
    MaxRestarts,    \* bound on engine restarts
    MaxReadErrors,  \* bound on failing reads of the setting
    Absent,         \* no row in settings
    Other,          \* any string that is no state, which only psql can store
    NotLoaded       \* the atomic before the first reload; no value read

States == {"home", "away", "disarmed"}
Stored == States \cup {Other}
Forms == {"struct", "bare"}     \* a psql edit may leave a bare string
Setting == [form : Forms, state : Stored]

ASSUME AlarmAssumption ==
    /\ MaxEdits \in Nat
    /\ MaxRestarts \in Nat
    /\ MaxReadErrors \in Nat
    /\ Absent \notin Setting
    /\ Other \notin States
    /\ NotLoaded \notin Stored

VARIABLES
    setting,    \* settings['alarm.state']
    put,        \* [request -> how far its handler is]
    wire,       \* fnvr.settings.alarm.changed on its way to the engine
    subscribed, \* the engine's subscription is in place
    alarm,      \* Engine.alarmState
    loader,     \* where reload() is
    loaded,     \* what it read
    quiet,      \* history: reloads since the setting or the wire last changed anything
    edits, restarts, readErrors

database  == <<setting, edits>>
handlers  == <<put, wire>>
engine    == <<subscribed, alarm, loader, loaded, restarts, readErrors>>
alarmVars == <<database, handlers, engine, quiet>>

PutStage == [stage : {"idle", "saved", "done"}, state : States]

AlarmTypeOK ==
    /\ setting \in Setting \cup {Absent}
    /\ put \in [Requests -> PutStage]
    /\ wire \in Seq(States)
    /\ subscribed \in BOOLEAN
    /\ alarm \in Stored \cup {NotLoaded}
    /\ subscribed => alarm # NotLoaded
    /\ loader \in {"idle", "swapped", "read", "failed"}
    /\ loaded \in Stored \cup {NotLoaded}
    /\ (loaded # NotLoaded) <=> (loader \in {"read", "failed"})
    /\ quiet \in 0..2
    /\ edits \in 0..MaxEdits
    /\ restarts \in 0..MaxRestarts
    /\ readErrors \in 0..MaxReadErrors

AlarmInit ==
    /\ setting \in {Absent} \cup [form : {"struct"}, state : States]     \* a fresh install, or a saved state
    /\ put = [r \in Requests |-> [stage |-> "idle", state |-> "disarmed"]]
    /\ wire = <<>>
    /\ subscribed = FALSE
    /\ alarm = NotLoaded
    /\ loader = "idle"
    /\ loaded = NotLoaded
    /\ quiet = 0
    /\ edits = 0
    /\ restarts = 0
    /\ readErrors = 0

\* GetAlarm, what the UI shows: a bare string is taken as the state; no row, and
\* what is no state, is "disarmed".
GetAlarm == IF setting # Absent /\ setting.state \in States THEN setting.state ELSE "disarmed"

\* What reload() makes of the row: a bare string does not decode, and a struct
\* is taken with whatever state it has.
Decoded == IF setting = Absent \/ setting.form = "bare" THEN "disarmed" ELSE setting.state

\* The two read the row differently.  Only an edit in psql leaves such a row.
Garbled == setting # Absent /\ (setting.form = "bare" \/ setting.state = Other)

\* currentAlarmState
CurrentAlarmState == IF alarm = NotLoaded THEN "disarmed" ELSE alarm

-----------------------------------------------------------------------------
(* The api-server *)

\* handleUpdateAlarm: SetAlarm ...
SetAlarm(r, a) ==
    /\ put[r].stage = "idle"
    /\ put' = [put EXCEPT ![r] = [stage |-> "saved", state |-> a]]
    /\ setting' = [form |-> "struct", state |-> a]
    /\ quiet' = 0
    /\ UNCHANGED <<wire, edits, engine>>

\* ... then the publish, heard only by a subscribed engine.
PublishAlarm(r) ==
    /\ put[r].stage = "saved"
    /\ put' = [put EXCEPT ![r].stage = "done"]
    /\ wire' = IF subscribed THEN Append(wire, put[r].state) ELSE wire
    /\ UNCHANGED <<database, engine, quiet>>

\* A failed publish is logged and the request still succeeds.
PublishFails(r) ==
    /\ put[r].stage = "saved"
    /\ put' = [put EXCEPT ![r].stage = "done"]
    /\ UNCHANGED <<database, wire, engine, quiet>>

\* "The key was edited directly in psql", to any string.
EditInPsql(f, a) ==
    /\ edits < MaxEdits
    /\ setting' = [form |-> f, state |-> a]
    /\ edits' = edits + 1
    /\ quiet' = 0
    /\ UNCHANGED <<handlers, engine>>

-----------------------------------------------------------------------------
(* The engine *)

\* Faulty variant of Subscribe: the subscription comes first.
SubscribeFirst ==
    /\ ~subscribed
    /\ subscribed' = TRUE
    /\ UNCHANGED <<database, handlers, alarm, loader, loaded, restarts, readErrors, quiet>>

\* Run returns from its first reload before it subscribes.
Subscribe ==
    /\ ~subscribed
    /\ alarm # NotLoaded
    /\ subscribed' = TRUE
    /\ UNCHANGED <<database, handlers, alarm, loader, loaded, restarts, readErrors, quiet>>

\* The live subscriber.
AlarmChanged ==
    /\ wire # <<>>
    /\ alarm' = Head(wire)
    /\ wire' = Tail(wire)
    /\ quiet' = 0
    /\ UNCHANGED <<database, put, subscribed, loader, loaded, restarts, readErrors>>

\* reload() got through its queries and swapped the rules under the lock.
ReloadSwap ==
    /\ loader = "idle"
    /\ loader' = "swapped"
    /\ UNCHANGED <<database, handlers, subscribed, alarm, loaded, restarts, readErrors, quiet>>

ReloadRead ==
    /\ loader = "swapped"
    /\ loader' = "read"
    /\ loaded' = Decoded
    /\ UNCHANGED <<database, handlers, subscribed, alarm, restarts, readErrors, quiet>>

\* Any error of the SELECT leaves the default.
ReloadReadFails ==
    /\ readErrors < MaxReadErrors
    /\ readErrors' = readErrors + 1
    /\ loader = "swapped"
    /\ loader' = "failed"
    /\ loaded' = "disarmed"
    /\ UNCHANGED <<database, handlers, subscribed, alarm, restarts, quiet>>

\* Faulty variants of ReloadStore: after a failed read the loop spins on the
\* result and never reads again; the reload only seeds the state.
ReloadStoreSpins ==
    /\ loader \in {"read", "failed"}
    /\ alarm' = loaded
    /\ IF loader = "failed" THEN UNCHANGED <<loader, loaded>>
                            ELSE loader' = "idle" /\ loaded' = NotLoaded
    /\ quiet' = IF loader = "failed" THEN 0 ELSE IF quiet = 2 THEN 2 ELSE quiet + 1
    /\ UNCHANGED <<database, handlers, subscribed, restarts, readErrors>>

ReloadStoreSeeds ==
    /\ loader \in {"read", "failed"}
    /\ alarm' = IF alarm = NotLoaded THEN loaded ELSE alarm
    /\ loader' = "idle"
    /\ loaded' = NotLoaded
    /\ quiet' = IF loader = "failed" THEN 0 ELSE IF quiet = 2 THEN 2 ELSE quiet + 1
    /\ UNCHANGED <<database, handlers, subscribed, restarts, readErrors>>

ReloadStore ==
    /\ loader \in {"read", "failed"}
    /\ alarm' = loaded
    /\ loader' = "idle"
    /\ loaded' = NotLoaded
    /\ quiet' = IF loader = "failed" THEN 0 ELSE IF quiet = 2 THEN 2 ELSE quiet + 1
    /\ UNCHANGED <<database, handlers, subscribed, restarts, readErrors>>

AlarmRestart ==
    /\ restarts < MaxRestarts
    /\ restarts' = restarts + 1
    /\ subscribed' = FALSE
    /\ alarm' = NotLoaded
    /\ loader' = "idle"
    /\ loaded' = NotLoaded
    /\ wire' = <<>>
    /\ quiet' = 0
    /\ UNCHANGED <<database, put, readErrors>>

AlarmNext ==
    \/ \E r \in Requests :
        \/ \E a \in States : SetAlarm(r, a)
        \/ PublishAlarm(r)
        \/ PublishFails(r)
    \/ \E f \in Forms, a \in Stored : EditInPsql(f, a)
    \/ Subscribe
    \/ AlarmChanged
    \/ ReloadSwap \/ ReloadRead \/ ReloadReadFails \/ ReloadStore
    \/ AlarmRestart

AlarmSpec == AlarmInit /\ [][AlarmNext]_alarmVars

\* The reload ticker never stops; what is on the wire to a connected engine is
\* delivered.
Fairness ==
    /\ WF_alarmVars(ReloadSwap \/ ReloadRead \/ ReloadStore)
    /\ WF_alarmVars(AlarmChanged)

FairSpec == AlarmSpec /\ Fairness

-----------------------------------------------------------------------------
(* Properties *)

\* The engine gates with what the UI shows, unless psql left a row that the two
\* read differently: then it gates with what reload() makes of it.
InForce == CurrentAlarmState = IF Garbled THEN Decoded ELSE GetAlarm

\* "reload() still catches up within the 30 s poll window": a setting is in
\* force once two reloads completed with nothing new saved or heard, whatever
\* was lost, overtaken or overwritten before; the first of the two may have
\* read the setting too early.  What is in force of a row that psql left in
\* another form than SetAlarm's is not what the UI shows.
InForceAfterReloads == quiet = 2 => InForce

\* Once operators stop touching it and the reads work again, the setting gets
\* into force and stays there.
EventuallyInForce == <>[]InForce
=============================================================================
