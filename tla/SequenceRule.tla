---------------------------- MODULE SequenceRule ----------------------------
(***************************************************************************)
(* A cross-camera sequence rule of the event-processor                     *)
(* (apps/event-processor/internal/rules/engine.go, evalSequence): the      *)
(* sightings of each step are kept in memory for the length of the rule's  *)
(* window, and a detection that matches the last step fires one incident   *)
(* when every earlier step has a sighting left.                            *)
(*                                                                         *)
(* Detections carry their capture time and may be handled late; the rule   *)
(* may be edited while one is being handled (the handler works on the copy *)
(* it took at the start) and the process may restart.                      *)
(***************************************************************************)
EXTENDS Clock, Sequences

CONSTANTS
    Kinds,          \* what the step filters tell apart: camera, class, confidence
    Versions,       \* the definitions an operator saves for the rule
    Initial,        \* the first of them
    Steps,          \* [version -> <<kinds that match step 1, step 2, ...>>]
    MaxSteps,       \* bound on their lengths
    Window,         \* window_sec
    CooldownSec,    \* cooldown_sec, 0 or less disables it
    Never,          \* the zero time.Time
    NoDet,          \* no detection in the handler
    MaxDelay        \* how far a detection's ts may lie behind the clock

StepIds == 1..MaxSteps
Sighting == [ts : Times, kind : Kinds]

ASSUME SequenceAssumption ==
    /\ Initial \in Versions
    /\ MaxSteps \in Nat \ {0, 1}
    /\ Steps \in [Versions -> UNION {[1..n -> SUBSET Kinds] : n \in 2..MaxSteps}]
    /\ Window \in Nat \ {0}
    /\ CooldownSec \in Int
    /\ MaxDelay \in Nat
    /\ Never \notin Int
    /\ NoDet \notin [ts : Times, kind : Kinds, rule : Versions]

VARIABLES
    rule,       \* Engine.rules: the definition loaded last
    det,        \* the detection being handled, with the definition it sees
    sightings,  \* Engine.sequenceSightings
    cooldown,   \* Engine.cooldowns[rule id]
    outcome,    \* what became of the last evaluation
    seen        \* history: sightings evaluated under the loaded definition

vars == <<now, rule, det, sightings, cooldown, outcome, seen>>

Outcomes == {"none", "matched", "fired", "failed"}

TypeOK ==
    /\ now \in Times
    /\ rule \in Versions
    /\ det \in [ts : Times, kind : Kinds, rule : Versions] \cup {NoDet}
    /\ sightings \in [StepIds -> SUBSET Sighting]
    /\ cooldown \in Times \cup {Never}
    /\ outcome \in Outcomes
    /\ det # NoDet => outcome = "none"
    /\ seen \subseteq Sighting

Init ==
    /\ now = 0
    /\ rule = Initial
    /\ det = NoDet
    /\ sightings = [i \in StepIds |-> {}]
    /\ cooldown = Never
    /\ outcome = "none"
    /\ seen = {}

-----------------------------------------------------------------------------
(* evalSequence *)

StepsOf(v) == DOMAIN Steps[v]
LastStep(v) == Len(Steps[v])
Matched(d) == {i \in StepsOf(d.rule) : d.kind \in Steps[d.rule][i]}
SightingOf(d) == [ts |-> d.ts, kind |-> d.kind]

\* Sightings strictly younger than the cutoff are kept.
Kept(S, cutoff) == {s \in S : s.ts > cutoff}

\* Faulty variants of Record: only the matched steps are pruned; the
\* last step never is; the pruning is a second too eager.
RecordPrunesMatched ==
    sightings' = [i \in StepIds |->
        IF i \in Matched(det) THEN Kept(sightings[i], det.ts - Window) \cup {SightingOf(det)}
                              ELSE sightings[i]]

RecordKeepsLast ==
    sightings' = [i \in StepIds |->
        IF i \notin StepsOf(det.rule) THEN sightings[i]
        ELSE (IF i = LastStep(det.rule) THEN sightings[i] ELSE Kept(sightings[i], det.ts - Window))
                \cup (IF i \in Matched(det) THEN {SightingOf(det)} ELSE {})]

RecordPrunesEagerly ==
    sightings' = [i \in StepIds |->
        IF i \notin StepsOf(det.rule) THEN sightings[i]
        ELSE Kept(sightings[i], det.ts - Window + 1)
                \cup (IF i \in Matched(det) THEN {SightingOf(det)} ELSE {})]

\* Every step of the definition is pruned, the matched ones gain the sighting.
Record ==
    sightings' = [i \in StepIds |->
        IF i \notin StepsOf(det.rule) THEN sightings[i]
        ELSE Kept(sightings[i], det.ts - Window)
                \cup (IF i \in Matched(det) THEN {SightingOf(det)} ELSE {})]

\* The chain is looked at only when the last step is among the matched ones.
ChainComplete ==
    /\ LastStep(det.rule) \in Matched(det)
    /\ \A i \in StepsOf(det.rule) : i < LastStep(det.rule) => sightings'[i] # {}

CooldownOK == CooldownSec > 0 /\ cooldown # Never => det.ts - cooldown >= CooldownSec

ChargeCooldown == cooldown' = IF CooldownSec > 0 THEN det.ts ELSE cooldown

\* A detection arrives: the handler copies the rule it will work with.
OnDetection ==
    /\ det = NoDet
    /\ \E k \in Kinds, delay \in 0..MaxDelay :
        /\ delay <= now
        /\ det' = [ts |-> now - delay, kind |-> k, rule |-> rule]
    /\ outcome' = "none"
    /\ UNCHANGED <<now, rule, sightings, cooldown, seen>>

Return(result) ==
    /\ det' = NoDet
    /\ outcome' = result
    /\ seen' = {s \in seen : s.ts > now - Window - MaxDelay}
                \cup (IF det.rule = rule THEN {SightingOf(det)} ELSE {})
    /\ UNCHANGED <<now, rule>>

NoStepMatched ==
    /\ det # NoDet
    /\ Matched(det) = {}
    /\ Return("none")
    /\ UNCHANGED <<sightings, cooldown>>

StepMatched ==
    /\ det # NoDet
    /\ Matched(det) # {}
    /\ Record
    /\ ~(ChainComplete /\ CooldownOK)
    /\ Return("matched")
    /\ UNCHANGED cooldown

FireSequenceIncident ==
    /\ det # NoDet
    /\ Record
    /\ ChainComplete
    /\ CooldownOK
    /\ ChargeCooldown
    /\ Return("fired")

\* The INSERT fails after the cooldown was charged.
InsertFails ==
    /\ det # NoDet
    /\ Record
    /\ ChainComplete
    /\ CooldownOK
    /\ ChargeCooldown
    /\ Return("failed")

-----------------------------------------------------------------------------
(* The environment *)

\* reload() swaps the rules; sightings are keyed by rule id and step index
\* and stay.
Reload(v) ==
    /\ v # rule
    /\ rule' = v
    /\ seen' = {}
    /\ UNCHANGED <<now, det, sightings, cooldown, outcome>>

Restart ==
    /\ det' = NoDet
    /\ sightings' = [i \in StepIds |-> {}]
    /\ cooldown' = Never
    /\ outcome' = "none"
    /\ seen' = {}
    /\ UNCHANGED <<now, rule>>

Tick ==
    /\ now < MaxTime
    /\ now' = now + 1
    /\ UNCHANGED <<rule, det, sightings, cooldown, outcome, seen>>

Next ==
    \/ OnDetection
    \/ NoStepMatched
    \/ StepMatched
    \/ FireSequenceIncident
    \/ InsertFails
    \/ \E v \in Versions : Reload(v)
    \/ Restart
    \/ Tick

Spec == Init /\ [][Next]_vars

-----------------------------------------------------------------------------
(* Properties *)

Fires == outcome # "fired" /\ outcome' = "fired"

\* When the rule fires, every step before the last has a sighting less than
\* window_sec older than the detection that completes the chain, however late
\* that detection is handled.
FiredWithinWindow ==
    [][Fires => \A i \in StepsOf(det.rule) : i < LastStep(det.rule) =>
                    \E s \in sightings'[i] : det.ts - s.ts < Window]_vars

\* "The map stays bounded": the sightings kept for a step span less than the
\* window plus the lateness of the detections.
SightingsBounded ==
    \A i \in StepIds : \A s, t \in sightings[i] : s.ts - t.ts < Window + MaxDelay

\* Unless something newer was handled before it, nothing that a detection
\* still needs is pruned: a detection of the last step fires, or finds the
\* cooldown running or the database failing, whenever each earlier step was
\* sighted in its window.
NoChainMissed ==
    [][det # NoDet /\ det' = NoDet /\ det.rule = rule /\ outcome' = "matched"
       /\ (\A s \in seen : s.ts <= det.ts) =>
        ~(/\ LastStep(det.rule) \in Matched(det)
          /\ CooldownOK
          /\ \A i \in StepsOf(det.rule) : i < LastStep(det.rule) =>
                \E s \in seen \cup {SightingOf(det)} :
                    /\ s.kind \in Steps[det.rule][i]
                    /\ det.ts - s.ts < Window)]_vars
=============================================================================
