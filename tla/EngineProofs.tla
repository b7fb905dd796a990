---------------------------- MODULE EngineProofs ----------------------------
(***************************************************************************)
(* Three parts of the rules engine that do not touch each other's state:   *)
(* sequence rules, tripwires and the alarm state.                          *)
(*                                                                         *)
(* For every rule, every edit of it, every delay and every length of the   *)
(* window, a sequence rule fires on what lies in its window, misses        *)
(* nothing that does unless something newer came first, and keeps a        *)
(* bounded span of sightings.                                              *)
(*                                                                         *)
(* For every line, every grid and every mixture of late and repeated       *)
(* detections, the passages of a tripwire meet its line and add up, and    *)
(* the table of tracks forgets nothing it may still need.                  *)
(*                                                                         *)
(* Whatever was lost, overtaken or overwritten, two reloads bring the      *)
(* alarm setting into force: the inductive invariant says that from the    *)
(* first of them on, a reload under way holds the setting as it is now.    *)
(***************************************************************************)
EXTENDS SequenceRule, Tripwire, AlarmState, TLAPS

-----------------------------------------------------------------------------
(* SEQUENCE RULES *)

USE DEF StepIds

-----------------------------------------------------------------------------
(* The parameters *)

LEMMA StepsShape ==
    ASSUME NEW v \in Versions
    PROVE  StepsOf(v) \subseteq StepIds /\ \A i \in StepsOf(v) : Steps[v][i] \subseteq Kinds
<1>1. PICK n \in 2..MaxSteps : Steps[v] \in [1..n -> SUBSET Kinds]
  BY SequenceAssumption, ClockAssumption
<1>2. DOMAIN Steps[v] = 1..n /\ 1..n \subseteq 1..MaxSteps
  BY <1>1, SequenceAssumption, ClockAssumption
<1>. QED
  BY <1>1, <1>2 DEF StepsOf

LEMMA TimesAreInts == Times \subseteq Int /\ Never \notin Times
BY SequenceAssumption, ClockAssumption DEF Times

-----------------------------------------------------------------------------
(* Types *)

LEMMA DetOK ==
    ASSUME TypeOK, det # NoDet
    PROVE  /\ det.ts \in Times /\ det.kind \in Kinds /\ det.rule \in Versions
           /\ SightingOf(det) \in Sighting
           /\ SightingOf(det).ts = det.ts /\ SightingOf(det).kind = det.kind
BY DEF TypeOK, SightingOf, Sighting

LEMMA RecordOK ==
    ASSUME TypeOK, det # NoDet, Record
    PROVE  sightings' \in [StepIds -> SUBSET Sighting]
<1>1. SightingOf(det) \in Sighting
  BY DetOK
<1>2. ASSUME NEW i \in StepIds PROVE sightings'[i] \subseteq Sighting
  BY <1>1 DEF Record, TypeOK, Kept
<1>3. sightings' = [i \in StepIds |-> sightings'[i]]
  BY DEF Record
<1>. QED
  BY <1>2, <1>3

LEMMA ReturnOK ==
    ASSUME TypeOK, det # NoDet, NEW r \in Outcomes, Return(r),
           sightings' \in [StepIds -> SUBSET Sighting], cooldown' \in Times \cup {Never}
    PROVE  TypeOK'
BY DetOK DEF Return, TypeOK

LEMMA TypeInit == Init => TypeOK
BY SequenceAssumption, ClockAssumption DEF Init, TypeOK, Times, Outcomes

LEMMA TypeStep == TypeOK /\ [Next]_vars => TypeOK'
<1>. SUFFICES ASSUME TypeOK, [Next]_vars PROVE TypeOK'
  OBVIOUS
<1>1. CASE OnDetection
  <2>1. PICK k \in Kinds, delay \in 0..MaxDelay :
            delay <= now /\ det' = [ts |-> now - delay, kind |-> k, rule |-> rule]
    BY <1>1 DEF OnDetection
  <2>2. now - delay \in Times
    BY <2>1, SequenceAssumption, ClockAssumption DEF TypeOK, Times
  <2>. QED
    BY <1>1, <2>1, <2>2 DEF OnDetection, TypeOK, Outcomes
<1>2. CASE NoStepMatched
  BY <1>2, ReturnOK DEF NoStepMatched, TypeOK, Outcomes
<1>3. CASE StepMatched
  BY <1>3, ReturnOK, RecordOK DEF StepMatched, TypeOK, Outcomes
<1>4. CASE FireSequenceIncident \/ InsertFails
  <2>1. cooldown' \in Times \cup {Never}
    BY <1>4, DetOK DEF FireSequenceIncident, InsertFails, ChargeCooldown, TypeOK
  <2>. QED
    BY <1>4, <2>1, ReturnOK, RecordOK DEF FireSequenceIncident, InsertFails, Outcomes
<1>5. CASE \E v \in Versions : Reload(v)
  BY <1>5 DEF Reload, TypeOK
<1>6. CASE Restart
  BY <1>6 DEF Restart, TypeOK, Outcomes
<1>7. CASE Tick
  BY <1>7, SequenceAssumption, ClockAssumption DEF Tick, TypeOK, Times
<1>8. CASE UNCHANGED vars
  BY <1>8 DEF vars, TypeOK
<1>. QED
  BY <1>1, <1>2, <1>3, <1>4, <1>5, <1>6, <1>7, <1>8 DEF Next

\* The clock, the detection in the handler, the sightings and the cooldown keep
\* their types through edits, restarts and late detections.
THEOREM SequenceTypeCorrect == Spec => []TypeOK
  BY TypeInit, TypeStep, PTL DEF Spec

LEMMA IntTimes ==
    ASSUME TypeOK
    PROVE  /\ now \in Int
           /\ \A i \in StepIds : \A s \in sightings[i] : s.ts \in Int
           /\ \A s \in seen : s.ts \in Int
<1>1. \A s \in Sighting : s.ts \in Int
  BY TimesAreInts DEF Sighting
<1>2. now \in Int
  BY TimesAreInts DEF TypeOK
<1>3. seen \subseteq Sighting /\ \A i \in StepIds : sightings[i] \subseteq Sighting
  BY DEF TypeOK
<1>. QED
  BY <1>1, <1>2, <1>3

-----------------------------------------------------------------------------
(* What a detection leaves behind *)

\* After Record a step of the definition has what it had in the window of the
\* detection, and the detection itself if it matches.
LEMMA Recorded ==
    ASSUME TypeOK, det # NoDet, Record, NEW i \in StepsOf(det.rule)
    PROVE  \A s : s \in sightings'[i] <=>
               \/ s \in sightings[i] /\ s.ts > det.ts - Window
               \/ i \in Matched(det) /\ s = SightingOf(det)
<1>1. i \in StepIds
  BY DetOK, StepsShape
<1>2. sightings'[i] = Kept(sightings[i], det.ts - Window) \cup (IF i \in Matched(det) THEN {SightingOf(det)} ELSE {})
  BY <1>1 DEF Record
<1>. QED
  BY <1>2 DEF Kept

\* An incident of a sequence rule rests on sightings of every earlier step
\* inside the window of the detection that completes the chain.
THEOREM SequenceFiresInWindow == Spec => FiredWithinWindow
<1>1. ASSUME TypeOK, [Next]_vars, Fires, NEW i \in StepsOf(det.rule), i < LastStep(det.rule)
      PROVE  \E s \in sightings'[i] : det.ts - s.ts < Window
  <2>1. FireSequenceIncident
    BY <1>1 DEF Next, vars, Fires, OnDetection, NoStepMatched, StepMatched, InsertFails, Reload, Restart, Tick, Return
  <2>2. det # NoDet /\ Record /\ sightings'[i] # {}
    BY <1>1, <2>1 DEF FireSequenceIncident, ChainComplete
  <2>3. PICK s \in sightings'[i] : TRUE
    BY <2>2
  <2>4. sightings'[i] \subseteq Sighting
    BY <1>1, <2>2, RecordOK, DetOK, StepsShape
  <2>5. s.ts \in Int /\ det.ts \in Int /\ Window \in Nat \ {0}
    BY <1>1, <2>2, <2>4, DetOK, TimesAreInts, SequenceAssumption, ClockAssumption DEF Sighting
  <2>6. s.ts > det.ts - Window \/ s.ts = det.ts
    BY <1>1, <2>2, <2>3, Recorded, DetOK
  <2>. QED
    BY <2>3, <2>5, <2>6
<1>2. TypeOK /\ [Next]_vars =>
        [Fires => \A i \in StepsOf(det.rule) : i < LastStep(det.rule) =>
                     \E s \in sightings'[i] : det.ts - s.ts < Window]_vars
  BY <1>1
<1>. QED
  BY <1>2, TypeInit, TypeStep, PTL DEF Spec, FiredWithinWindow

-----------------------------------------------------------------------------
(* Bounded sightings *)

\* Whatever was sighted lies before the arrival of the detection in the handler,
\* which its own time is behind by MaxDelay at most.
Ages ==
    \A i \in StepIds : \A s \in sightings[i] :
        s.ts <= now /\ (det # NoDet => s.ts <= det.ts + MaxDelay)

DetAge == det # NoDet => det.ts <= now

BoundedInv == TypeOK /\ DetAge /\ Ages /\ SightingsBounded

LEMMA BoundedRecord ==
    ASSUME BoundedInv, det # NoDet, Record, UNCHANGED now, det' = NoDet
    PROVE  Ages' /\ SightingsBounded'
<1>. USE DEF BoundedInv
<1>1. det.ts \in Int /\ now \in Int /\ Window \in Nat \ {0} /\ MaxDelay \in Nat /\ det.ts <= now
  BY DetOK, IntTimes, TimesAreInts, SequenceAssumption, ClockAssumption DEF DetAge
<1>2. \A i \in StepIds : \A s \in sightings[i] : s.ts \in Int
  BY IntTimes
<1>3. ASSUME NEW i \in StepIds, i \notin StepsOf(det.rule) PROVE sightings'[i] = sightings[i]
  BY <1>3 DEF Record
<1>4. ASSUME NEW i \in StepsOf(det.rule), NEW s \in sightings'[i]
      PROVE  s.ts \in Int /\ s.ts <= now /\ s.ts > det.ts - Window /\ s.ts <= det.ts + MaxDelay
  <2>1. i \in StepIds
    BY DetOK, StepsShape
  <2>2. (s \in sightings[i] /\ s.ts > det.ts - Window) \/ s.ts = det.ts
    BY Recorded, DetOK
  <2>. QED
    BY <1>1, <1>2, <2>1, <2>2 DEF Ages
<1>5. Ages'
  BY <1>3, <1>4 DEF Ages
<1>6. ASSUME NEW i \in StepIds, NEW s \in sightings'[i], NEW t \in sightings'[i]
      PROVE  s.ts - t.ts < Window + MaxDelay
  <2>1. CASE i \in StepsOf(det.rule)
    <3>1. /\ s.ts \in Int /\ s.ts <= det.ts + MaxDelay
          /\ t.ts \in Int /\ t.ts > det.ts - Window
      BY <1>4, <2>1
    <3>. QED
      BY <1>1, <3>1
  <2>2. CASE i \notin StepsOf(det.rule)
    BY <1>3, <2>2 DEF SightingsBounded
  <2>. QED
    BY <2>1, <2>2
<1>. QED
  BY <1>5, <1>6 DEF SightingsBounded

LEMMA BoundedInit == Init => BoundedInv
BY TypeInit DEF Init, BoundedInv, DetAge, Ages, SightingsBounded

LEMMA BoundedStep == BoundedInv /\ [Next]_vars => BoundedInv'
<1>. SUFFICES ASSUME BoundedInv, [Next]_vars PROVE DetAge' /\ Ages' /\ SightingsBounded'
  BY TypeStep DEF BoundedInv
<1>0. now \in Int /\ MaxDelay \in Nat /\ \A i \in StepIds : \A s \in sightings[i] : s.ts \in Int
  BY IntTimes, SequenceAssumption, ClockAssumption DEF BoundedInv
<1>1. CASE OnDetection
  <2>1. PICK k \in Kinds, delay \in 0..MaxDelay :
            delay <= now /\ det' = [ts |-> now - delay, kind |-> k, rule |-> rule]
    BY <1>1 DEF OnDetection
  <2>2. det'.ts = now - delay /\ UNCHANGED <<now, sightings>>
    BY <1>1, <2>1 DEF OnDetection
  <2>3. det'.ts <= now /\ \A i \in StepIds : \A s \in sightings[i] : s.ts <= now /\ s.ts <= det'.ts + MaxDelay
    BY <1>0, <2>1, <2>2 DEF BoundedInv, Ages
  <2>. QED
    BY <2>2, <2>3 DEF BoundedInv, DetAge, Ages, SightingsBounded
<1>2. CASE NoStepMatched
  BY <1>2 DEF NoStepMatched, Return, BoundedInv, DetAge, Ages, SightingsBounded
<1>3. CASE StepMatched \/ FireSequenceIncident \/ InsertFails
  <2>1. det # NoDet /\ Record /\ UNCHANGED now /\ det' = NoDet
    BY <1>3 DEF StepMatched, FireSequenceIncident, InsertFails, Return
  <2>. QED
    BY <2>1, BoundedRecord DEF DetAge
<1>4. CASE \E v \in Versions : Reload(v)
  BY <1>4 DEF Reload, BoundedInv, DetAge, Ages, SightingsBounded
<1>5. CASE Restart
  BY <1>5 DEF Restart, DetAge, Ages, SightingsBounded
<1>6. CASE Tick
  <2>1. now' = now + 1 /\ UNCHANGED <<det, sightings>>
    BY <1>6 DEF Tick
  <2>2. det # NoDet => det.ts \in Int
    BY DetOK, TimesAreInts DEF BoundedInv
  <2>. QED
    BY <1>0, <2>1, <2>2 DEF BoundedInv, DetAge, Ages, SightingsBounded
<1>7. CASE UNCHANGED vars
  BY <1>7 DEF vars, BoundedInv, DetAge, Ages, SightingsBounded
<1>. QED
  BY <1>1, <1>2, <1>3, <1>4, <1>5, <1>6, <1>7 DEF Next

\* For every window and every delay the sightings kept for a step span less than
\* the window plus the delay, whatever order detections are handled in.
THEOREM SightingsAlwaysBounded == Spec => []SightingsBounded
<1>1. BoundedInv => SightingsBounded
  BY DEF BoundedInv
<1>. QED
  BY <1>1, BoundedInit, BoundedStep, PTL DEF Spec

-----------------------------------------------------------------------------
(* Nothing in the window is missed *)

\* A sighting under the loaded definition is still there, or something newer by
\* a window was seen since; a detection that carries an older definition comes
\* before anything was seen under the new one.
ChainInv ==
    /\ det # NoDet /\ det.rule # rule => seen = {}
    /\ \A s \in seen, i \in StepsOf(rule) :
          s.kind \in Steps[rule][i] => s \in sightings[i] \/ \E t \in seen : t.ts - s.ts >= Window

LEMMA ReturnChain ==
    ASSUME TypeOK, ChainInv, det # NoDet, NEW r, Return(r),
           Record \/ (Matched(det) = {} /\ UNCHANGED sightings)
    PROVE  ChainInv'
<1>1. /\ det' = NoDet /\ rule' = rule
      /\ seen' = {s \in seen : s.ts > now - Window - MaxDelay}
                    \cup (IF det.rule = rule THEN {SightingOf(det)} ELSE {})
  BY DEF Return
<1>2. CASE det.rule # rule
  BY <1>1, <1>2 DEF ChainInv
<1>3. CASE det.rule = rule
  <2>. SUFFICES ASSUME NEW s \in seen', NEW i \in StepsOf(rule), s.kind \in Steps[rule][i]
                PROVE  s \in sightings'[i] \/ \E t \in seen' : t.ts - s.ts >= Window
    BY <1>1 DEF ChainInv, StepsOf
  <2>0. /\ now \in Int /\ Window \in Nat /\ MaxDelay \in Nat /\ det.ts \in Int
        /\ \A t \in seen : t.ts \in Int
        /\ SightingOf(det).ts = det.ts /\ SightingOf(det).kind = det.kind
    BY IntTimes, DetOK, TimesAreInts, SequenceAssumption, ClockAssumption
  <2>1. SightingOf(det) \in seen'
    BY <1>1, <1>3
  <2>2. CASE s = SightingOf(det)
    <3>1. i \in Matched(det)
      BY <1>3, <2>0, <2>2 DEF Matched
    <3>2. Record
      BY <3>1
    <3>. QED
      BY <1>3, <2>2, <3>1, <3>2, Recorded
  <2>3. CASE s \in seen /\ s.ts > now - Window - MaxDelay
    <3>1. CASE s \in sightings[i]
      <4>1. CASE Record /\ s.ts > det.ts - Window
        BY <1>3, <3>1, <4>1, Recorded
      <4>2. CASE ~(s.ts > det.ts - Window)
        <5>1. SightingOf(det).ts - s.ts >= Window
          BY <2>0, <2>3, <4>2
        <5>. QED
          BY <2>1, <5>1
      <4>3. CASE ~Record
        BY <3>1, <4>3
      <4>. QED
        BY <4>1, <4>2, <4>3
    <3>2. ASSUME NEW t \in seen, t.ts - s.ts >= Window PROVE \E u \in seen' : u.ts - s.ts >= Window
      <4>1. t.ts > now - Window - MaxDelay
        BY <2>0, <2>3, <3>2
      <4>. QED
        BY <1>1, <3>2, <4>1
    <3>. QED
      BY <2>3, <3>1, <3>2 DEF ChainInv
  <2>. QED
    BY <1>1, <1>3, <2>2, <2>3
<1>. QED
  BY <1>2, <1>3

LEMMA ChainStep == TypeOK /\ ChainInv /\ [Next]_vars => ChainInv'
<1>. SUFFICES ASSUME TypeOK, ChainInv, [Next]_vars PROVE ChainInv'
  OBVIOUS
<1>1. CASE OnDetection
  <2>1. det'.rule = rule /\ UNCHANGED <<rule, seen, sightings>>
    BY <1>1 DEF OnDetection
  <2>. QED
    BY <2>1 DEF ChainInv, StepsOf
<1>2. CASE NoStepMatched
  BY <1>2, ReturnChain DEF NoStepMatched
<1>3. CASE StepMatched \/ FireSequenceIncident \/ InsertFails
  BY <1>3, ReturnChain DEF StepMatched, FireSequenceIncident, InsertFails
<1>4. CASE (\E v \in Versions : Reload(v)) \/ Restart
  BY <1>4 DEF Reload, Restart, ChainInv
<1>5. CASE Tick \/ UNCHANGED vars
  BY <1>5 DEF Tick, vars, ChainInv, StepsOf
<1>. QED
  BY <1>1, <1>2, <1>3, <1>4, <1>5 DEF Next

\* Unless something newer was handled before it, a detection of the last step
\* completes the chain whenever each earlier step was sighted in its window:
\* pruning never takes what is still needed.
THEOREM NoChainEverMissed == Spec => NoChainMissed
<1>1. Init => ChainInv
  BY DEF Init, ChainInv
<1>2. ASSUME TypeOK, ChainInv, [Next]_vars, det # NoDet, det' = NoDet, det.rule = rule, outcome' = "matched",
             \A s \in seen : s.ts <= det.ts,
             LastStep(det.rule) \in Matched(det), CooldownOK,
             \A i \in StepsOf(det.rule) : i < LastStep(det.rule) =>
                \E s \in seen \cup {SightingOf(det)} : s.kind \in Steps[det.rule][i] /\ det.ts - s.ts < Window
      PROVE  FALSE
  <2>1. StepMatched
    BY <1>2 DEF Next, vars, OnDetection, NoStepMatched, FireSequenceIncident, InsertFails, Reload, Restart, Tick, Return
  <2>2. Record /\ ~ChainComplete
    BY <1>2, <2>1 DEF StepMatched
  <2>3. PICK i \in StepsOf(det.rule) : i < LastStep(det.rule) /\ sightings'[i] = {}
    BY <1>2, <2>2 DEF ChainComplete
  <2>4. PICK s \in seen \cup {SightingOf(det)} : s.kind \in Steps[det.rule][i] /\ det.ts - s.ts < Window
    BY <1>2, <2>3
  <2>5. CASE s = SightingOf(det)
    <3>1. i \in Matched(det)
      BY <1>2, <2>4, <2>5, DetOK DEF Matched
    <3>. QED
      BY <1>2, <2>2, <2>3, <3>1, Recorded
  <2>6. CASE s \in seen
    <3>0. s.ts \in Int /\ det.ts \in Int /\ Window \in Nat /\ \A t \in seen : t.ts \in Int /\ t.ts <= det.ts
      BY <1>2, <2>6, IntTimes, DetOK, TimesAreInts, SequenceAssumption, ClockAssumption
    <3>1. \A t \in seen : ~(t.ts - s.ts >= Window)
      BY <2>4, <3>0
    <3>2. s \in sightings[i]
      BY <1>2, <2>4, <2>6, <3>1 DEF ChainInv
    <3>3. s.ts > det.ts - Window
      BY <2>4, <3>0
    <3>. QED
      BY <1>2, <2>2, <2>3, <3>2, <3>3, Recorded
  <2>. QED
    BY <2>5, <2>6
<1>3. TypeOK /\ ChainInv /\ [Next]_vars =>
        [det # NoDet /\ det' = NoDet /\ det.rule = rule /\ outcome' = "matched"
           /\ (\A s \in seen : s.ts <= det.ts) =>
            ~(/\ LastStep(det.rule) \in Matched(det)
              /\ CooldownOK
              /\ \A i \in StepsOf(det.rule) : i < LastStep(det.rule) =>
                    \E s \in seen \cup {SightingOf(det)} :
                        /\ s.kind \in Steps[det.rule][i]
                        /\ det.ts - s.ts < Window)]_vars
  BY <1>2
<1>. QED
  BY <1>1, <1>3, TypeInit, TypeStep, ChainStep, PTL DEF Spec, NoChainMissed

-----------------------------------------------------------------------------
(* TRIPWIRES *)

USE TripwireAssumption, ClockAssumption

-----------------------------------------------------------------------------
(* Geometry *)

\* The sums and differences of points are points.
LEMMA PointSums == \A p, q \in Point : Plus(p, q) \in Point /\ Minus(p, q) \in Point
  BY DEF Point, Plus, Minus

LEMMA CrossInt == \A u, v \in Point : Cross(u, v) \in Int
  BY DEF Point, Cross

\* A segment p-q crosses the line a-b as much as a-b crosses p-q.
LEMMA CrossSums ==
    ASSUME NEW p \in Point, NEW q \in Point, NEW a \in Point, NEW b \in Point
    PROVE  LET den == Cross(Minus(q, p), Minus(b, a)) IN
           /\ Cross(Minus(q, p), Minus(b, p)) = Cross(Minus(q, p), Minus(a, p)) + den
           /\ Cross(Minus(b, a), Minus(p, a)) = Cross(Minus(b, a), Minus(q, a)) + den
           /\ Cross(Minus(a, p), Minus(b, a)) = Cross(Minus(b, a), Minus(p, a))
           /\ Cross(Minus(a, p), Minus(q, p)) = -Cross(Minus(q, p), Minus(a, p))
<1>1. PICK px \in Int, py \in Int, qx \in Int, qy \in Int : p = <<px, py>> /\ q = <<qx, qy>>
  BY DEF Point
<1>2. PICK ax \in Int, ay \in Int, bx \in Int, by \in Int : a = <<ax, ay>> /\ b = <<bx, by>>
  BY DEF Point
<1> QED
  BY <1>1, <1>2 DEF Cross, Minus

\* Segments that pass the code's test meet, and a segment that meets a-b and
\* has its ends on two sides of it passes the test.
LEMMA IntersectMeets ==
    ASSUME NEW p \in Point, NEW q \in Point, NEW a \in Point, NEW b \in Point
    PROVE  /\ SegmentsIntersect(p, q, a, b) => Meets(p, q, a, b)
           /\ Meets(p, q, a, b) /\ Sign(SideOf(<<a, b>>, p)) # Sign(SideOf(<<a, b>>, q))
                => SegmentsIntersect(p, q, a, b)
<1> DEFINE den == Cross(Minus(q, p), Minus(b, a))
           ga == Cross(Minus(q, p), Minus(a, p))
           gb == Cross(Minus(q, p), Minus(b, p))
           fp == Cross(Minus(b, a), Minus(p, a))
           fq == Cross(Minus(b, a), Minus(q, a))
<1>1. den \in Int /\ ga \in Int /\ gb \in Int /\ fp \in Int /\ fq \in Int
  BY PointSums, CrossInt
<1>2. gb = ga + den /\ fp = fq + den
  BY CrossSums
<1>3. SegmentsIntersect(p, q, a, b) <=> Sign(ga) # Sign(gb) /\ Sign(fp) # Sign(fq)
  BY DEF SegmentsIntersect, Orient
<1>4. Meets(p, q, a, b) <=>
        den # 0 /\ fp * Sign(den) \in 0 .. den * Sign(den) /\ (-ga) * Sign(den) \in 0 .. den * Sign(den)
  BY CrossSums DEF Meets
<1>5. SideOf(<<a, b>>, p) = fp /\ SideOf(<<a, b>>, q) = fq
  BY DEF SideOf
<1> HIDE DEF den, ga, gb, fp, fq
<1>6. CASE den > 0
  <2>1. Sign(den) = 1 /\ fp * Sign(den) = fp /\ (-ga) * Sign(den) = -ga /\ den * Sign(den) = den
    BY <1>1, <1>6 DEF Sign
  <2>2. Meets(p, q, a, b) <=> fp \in 0 .. den /\ -ga \in 0 .. den
    BY <1>1, <1>4, <1>6, <2>1
  <2> QED
    BY <1>1, <1>2, <1>3, <1>5, <1>6, <2>2 DEF Sign
<1>7. CASE den < 0
  <2>1. Sign(den) = -1 /\ fp * Sign(den) = -fp /\ (-ga) * Sign(den) = ga /\ den * Sign(den) = -den
    BY <1>1, <1>7 DEF Sign
  <2>2. Meets(p, q, a, b) <=> -fp \in 0 .. -den /\ ga \in 0 .. -den
    BY <1>1, <1>4, <1>7, <2>1
  <2> QED
    BY <1>1, <1>2, <1>3, <1>5, <1>7, <2>2 DEF Sign
<1>8. CASE den = 0
  BY <1>1, <1>2, <1>3, <1>4, <1>8
<1> QED
  BY <1>1, <1>6, <1>7, <1>8

-----------------------------------------------------------------------------
(* Types *)

LEMMA SideInt == \A l \in Lines, p \in Point : l[1] \in Point /\ l[2] \in Point /\ SideOf(l, p) \in Int
<1> SUFFICES ASSUME NEW l \in Lines, NEW p \in Point
             PROVE  l[1] \in Point /\ l[2] \in Point /\ SideOf(l, p) \in Int
  OBVIOUS
<1>1. l[1] \in Point /\ l[2] \in Point
  OBVIOUS
<1> QED
  BY <1>1, PointSums, CrossInt DEF SideOf

\* A handled detection leaves a table of entries and a passage of the track.
LEMMA HandlerTypes ==
    ASSUME LineTypeOK, NEW d \in Detection, LineOnDetection(d)
    PROVE  /\ tracks' \in [Tracks -> Entry \cup {Unknown}]
           /\ passage' \in Passages \cup {Unknown}
           /\ ledger' \in [Tracks -> Int]
           /\ \A t \in Tracks : tracks'[t] # Unknown => t = d.track \/ tracks[t] # Unknown
<1> PICK passes \in BOOLEAN : RuleFires(d, passes) /\ RememberTrack(d) /\ Account(d, passes)
  BY DEF LineOnDetection
<1>0. d.track \in Tracks /\ d.kind \in {"object", "part"} /\ [at |-> d.at, ts |-> d.ts] \in Entry
  BY DEF Detection, Entry
<1>1. /\ tracks' \in [Tracks -> Entry \cup {Unknown}]
      /\ \A t \in Tracks : tracks'[t] # Unknown => t = d.track \/ tracks[t] # Unknown
  BY <1>0 DEF RememberTrack, LineTypeOK
<1>2. passage' \in Passages \cup {Unknown}
  BY <1>0 DEF RuleFires, Passages, Direction
<1>3. ledger' \in [Tracks -> Int]
  BY <1>0 DEF Account, LineTypeOK, Bit
<1> QED
  BY <1>1, <1>2, <1>3

LEMMA PartTypes ==
    ASSUME LineTypeOK, NEW t \in Tracks, lastSeen[t] # Unknown
    PROVE  PartOf(t) \in Detection /\ PartOf(t).ts = lastSeen[t].ts /\ PartOf(t).track = t /\ PartOf(t).kind = "part"
<1>1. lastSeen[t] \in Entry
  BY DEF LineTypeOK
<1>2. Plus(lastSeen[t].at, Offset) \in Point
  BY <1>1, PointSums DEF Entry
<1> QED
  BY <1>1, <1>2 DEF PartOf, Detection, Entry

\* Every variable keeps its type; what is remembered of a track came after a
\* detection of the object, and nothing on its way is from the future.
THEOREM TripwireTypes == LineSpec => []LineTypeOK
<1>1. LineInit => LineTypeOK
  BY DEF LineInit, LineTypeOK, Times
<1>2. LineTypeOK /\ [LineNext]_lineVars => LineTypeOK'
  <2> SUFFICES ASSUME LineTypeOK, [LineNext]_lineVars PROVE LineTypeOK'
    OBVIOUS
  <2>1. ASSUME NEW t \in Tracks, NEW p \in Places[t], ObjectDetected(t, p) PROVE LineTypeOK'
    <3> DEFINE e == [at |-> p, ts |-> now]
               d == [track |-> t, kind |-> "object", at |-> p, ts |-> now]
    <3>1. PICK dd : dd = d
      OBVIOUS
    <3>2. dd \in Detection /\ dd.track = t /\ LineOnDetection(dd)
      <4>1. p \in Point /\ now \in Times
        BY DEF LineTypeOK
      <4> QED
        BY <2>1, <3>1, <4>1 DEF ObjectDetected, Detection
    <3>3. lastSeen' = [lastSeen EXCEPT ![t] = e] /\ e \in Entry
      BY <2>1 DEF ObjectDetected, Entry, LineTypeOK
    <3> HIDE DEF d, e
    <3>4. e # Unknown
      BY <3>3
    <3> QED
      BY <2>1, <3>2, <3>3, <3>4, HandlerTypes DEF ObjectDetected, LineTypeOK
  <2>2. ASSUME NEW t \in WithPlates, PlateDetected(t) PROVE LineTypeOK'
    <3>1. PICK d : d = PartOf(t)
      OBVIOUS
    <3>2. t \in Tracks /\ d \in Detection /\ d.track = t /\ LineOnDetection(d) /\ lastSeen[t] # Unknown
      BY <2>2, <3>1, PartTypes DEF PlateDetected
    <3> QED
      BY <2>2, <3>2, HandlerTypes DEF PlateDetected, LineTypeOK
  <2>3. ASSUME NEW t \in WithFaces, FaceCaptured(t) PROVE LineTypeOK'
    <3>1. PICK d : d = PartOf(t)
      OBVIOUS
    <3>2. d \in Detection /\ d.track = t /\ d.ts = now /\ d.kind = "part" /\ lastSeen[t] # Unknown
      BY <2>3, <3>1, PartTypes DEF FaceCaptured
    <3>3. now <= now
      BY DEF LineTypeOK, Times
    <3>4. late' = late \cup {d}
      BY <2>3, <3>1 DEF FaceCaptured
    <3> QED
      BY <2>3, <3>2, <3>3, <3>4 DEF FaceCaptured, LineTypeOK
  <2>4. ASSUME NEW d \in late, FaceDetected(d) PROVE LineTypeOK'
    <3>1. d \in Detection /\ lastSeen[d.track] # Unknown /\ LineOnDetection(d) /\ late' \subseteq late
      BY <2>4 DEF FaceDetected, LineTypeOK
    <3> QED
      BY <2>4, <3>1, HandlerTypes DEF FaceDetected, LineTypeOK
  <2>5. ASSUME NEW l \in Lines, LineReload(l) PROVE LineTypeOK'
    BY <2>5 DEF LineReload, LineTypeOK, Bit
  <2>6. CASE LineRestart
    BY <2>6 DEF LineRestart, LineTypeOK
  <2>7. CASE LineTick
    BY <2>7 DEF LineTick, LineTypeOK, Times, Detection
  <2>8. CASE UNCHANGED lineVars
    BY <2>8 DEF lineVars, LineTypeOK
  <2> QED
    BY <2>1, <2>2, <2>3, <2>4, <2>5, <2>6, <2>7, <2>8 DEF LineNext
<1> QED
  BY <1>1, <1>2, PTL DEF LineSpec

-----------------------------------------------------------------------------
(* Passages *)

\* The code's test and its direction account for a way that does not lead
\* round the line's ends and starts and ends off the line.
LEMMA CrossingCounts ==
    ASSUME NEW l \in Lines, NEW p \in Point, NEW q \in Point,
           SideOf(l, p) # 0, SideOf(l, q) # 0,
           Bit(l, p) # Bit(l, q) => Meets(p, q, l[1], l[2])
    PROVE  /\ ~SegmentsIntersect(p, q, l[1], l[2]) => Bit(l, q) = Bit(l, p)
           /\ SegmentsIntersect(p, q, l[1], l[2]) =>
                Bit(l, q) = IF Direction(l, p, q) = "in" THEN Bit(l, p) - 1 ELSE Bit(l, p) + 1
<1>1. /\ l[1] \in Point /\ l[2] \in Point
      /\ SideOf(l, p) \in Int /\ SideOf(l, q) \in Int
  BY SideInt
<1>2. /\ SideOf(<<l[1], l[2]>>, p) = SideOf(l, p)
      /\ SideOf(<<l[1], l[2]>>, q) = SideOf(l, q)
  BY DEF SideOf
<1>3. SegmentsIntersect(p, q, l[1], l[2]) => Sign(SideOf(l, p)) # Sign(SideOf(l, q))
  BY DEF SegmentsIntersect, Orient, SideOf
<1>4. Meets(p, q, l[1], l[2]) /\ Sign(SideOf(l, p)) # Sign(SideOf(l, q))
        => SegmentsIntersect(p, q, l[1], l[2])
  BY <1>1, <1>2, IntersectMeets
<1> QED
  BY <1>1, <1>3, <1>4 DEF Sign, Bit, Direction

\* What a handled detection does to the table.
LEMMA HandlerRemembers ==
    ASSUME LineTypeOK, NEW d \in Detection, LineOnDetection(d)
    PROVE  /\ tracks'[d.track] = [at |-> d.at, ts |-> d.ts]
           /\ \A t \in Tracks : t # d.track =>
                \/ tracks'[t] = tracks[t]
                \/ tracks'[t] = Unknown /\ tracks[t].ts < d.ts - KeepSec
<1>1. PICK passes \in BOOLEAN : RuleFires(d, passes) /\ RememberTrack(d) /\ Account(d, passes)
  BY DEF LineOnDetection
<1>2. d.track \in Tracks /\ d.ts \in Times
  BY DEF Detection
<1>3. ~(d.ts < d.ts - KeepSec)
  BY <1>2 DEF Times
<1> QED
  BY <1>1, <1>2, <1>3 DEF RememberTrack, LineTypeOK

\* A handled detection keeps the account of every track.
LEMMA HandlerAccounts ==
    ASSUME LineTypeOK, PassagesAddUp, NEW d \in Detection, LineOnDetection(d), line' = line
    PROVE  PassagesAddUp'
<1>1. PICK passes \in BOOLEAN : RuleFires(d, passes) /\ RememberTrack(d) /\ Account(d, passes)
  BY DEF LineOnDetection
<1>2. d.track \in Tracks /\ d.at \in Point /\ line \in Lines
  BY DEF Detection, LineTypeOK
<1>0. \A t \in Tracks : t # d.track /\ tracks'[t] # Unknown => tracks'[t] = tracks[t]
  BY HandlerRemembers
<1>3. ASSUME NEW t \in Tracks, t # d.track, tracks'[t] # Unknown
      PROVE  ledger'[t] = Bit(line, tracks'[t].at)
  <2>1. ledger'[t] = ledger[t]
    BY <1>1, <1>3 DEF Account, LineTypeOK
  <2>2. tracks'[t] = tracks[t]
    BY <1>0, <1>3
  <2> QED
    BY <1>3, <2>1, <2>2 DEF PassagesAddUp
<1>4. ledger'[d.track] = Bit(line, d.at)
  <2>1. CASE ~Accountable(d, passes)
    BY <1>1, <1>2, <2>1 DEF Account, LineTypeOK
  <2>2. CASE Accountable(d, passes)
    <3>1. PICK p : p = tracks[d.track].at
      OBVIOUS
    <3>2. p \in Point /\ tracks[d.track] # Unknown
      BY <1>2, <2>2, <3>1 DEF Accountable, Fresh, LineTypeOK, Entry
    <3>3. /\ passes /\ Fresh(d)
          /\ SideOf(line, p) # 0 /\ SideOf(line, d.at) # 0
          /\ Bit(line, p) # Bit(line, d.at) => Meets(p, d.at, line[1], line[2])
      BY <2>2, <3>1 DEF Accountable
    <3>4. ledger[d.track] = Bit(line, p)
      BY <1>2, <3>1, <3>2 DEF PassagesAddUp
    <3>5. CASE SegmentsIntersect(p, d.at, line[1], line[2])
      <4>1. passage' = [track |-> d.track, kind |-> d.kind, way |-> Direction(line, p, d.at)]
        BY <1>1, <3>1, <3>3, <3>5 DEF RuleFires, LineCrossed
      <4>2. passage' # Unknown
        BY <1>2, <4>1 DEF Detection, Direction, Passages
      <4>3. ledger'[d.track] = IF Direction(line, p, d.at) = "in" THEN ledger[d.track] - 1 ELSE ledger[d.track] + 1
        BY <1>1, <1>2, <2>2, <4>1, <4>2 DEF Account, LineTypeOK
      <4> QED
        BY <1>2, <3>2, <3>3, <3>4, <3>5, <4>3, CrossingCounts
    <3>6. CASE ~SegmentsIntersect(p, d.at, line[1], line[2])
      <4>1. passage' = Unknown
        BY <1>1, <3>1, <3>6 DEF RuleFires, LineCrossed
      <4>2. ledger'[d.track] = ledger[d.track]
        BY <1>1, <1>2, <2>2, <4>1 DEF Account, LineTypeOK
      <4> QED
        BY <1>2, <3>2, <3>3, <3>4, <3>6, <4>2, CrossingCounts
    <3> QED
      BY <3>5, <3>6
  <2> QED
    BY <2>1, <2>2
<1>5. tracks'[d.track].at = d.at
  <2>1. tracks'[d.track] = [at |-> d.at, ts |-> d.ts]
    BY HandlerRemembers
  <2> QED
    BY <2>1
<1>6. ASSUME NEW t \in Tracks, tracks'[t] # Unknown
      PROVE  ledger'[t] = Bit(line, tracks'[t].at)
  BY <1>3, <1>4, <1>5, <1>6
<1> QED
  BY <1>6 DEF PassagesAddUp

\* The passages reported of every track put it where it is remembered.
THEOREM PassagesAlwaysAddUp == LineSpec => []PassagesAddUp
<1>1. LineInit => PassagesAddUp
  BY DEF LineInit, PassagesAddUp
<1>2. LineTypeOK /\ PassagesAddUp /\ [LineNext]_lineVars => PassagesAddUp'
  <2> SUFFICES ASSUME LineTypeOK, PassagesAddUp, [LineNext]_lineVars PROVE PassagesAddUp'
    OBVIOUS
  <2>1. ASSUME NEW t \in Tracks, NEW p \in Places[t], ObjectDetected(t, p) PROVE PassagesAddUp'
    <3>1. PICK d : d = [track |-> t, kind |-> "object", at |-> p, ts |-> now]
      OBVIOUS
    <3>2. d \in Detection
      BY <3>1 DEF LineTypeOK, Detection
    <3> QED
      BY <2>1, <3>1, <3>2, HandlerAccounts DEF ObjectDetected
  <2>2. ASSUME NEW t \in WithPlates, PlateDetected(t) PROVE PassagesAddUp'
    <3>1. PICK d : d = PartOf(t)
      OBVIOUS
    <3>2. d \in Detection
      BY <2>2, <3>1, PartTypes DEF PlateDetected
    <3> QED
      BY <2>2, <3>1, <3>2, HandlerAccounts DEF PlateDetected
  <2>3. ASSUME NEW t \in WithFaces, FaceCaptured(t) PROVE PassagesAddUp'
    BY <2>3 DEF FaceCaptured, PassagesAddUp
  <2>4. ASSUME NEW d \in late, FaceDetected(d) PROVE PassagesAddUp'
    BY <2>4, HandlerAccounts DEF FaceDetected, LineTypeOK
  <2>5. ASSUME NEW l \in Lines, LineReload(l) PROVE PassagesAddUp'
    BY <2>5 DEF LineReload, PassagesAddUp
  <2>6. CASE LineRestart
    BY <2>6 DEF LineRestart, PassagesAddUp
  <2>7. CASE LineTick
    BY <2>7 DEF LineTick, PassagesAddUp
  <2>8. CASE UNCHANGED lineVars
    BY <2>8 DEF lineVars, PassagesAddUp
  <2> QED
    BY <2>1, <2>2, <2>3, <2>4, <2>5, <2>6, <2>7, <2>8 DEF LineNext
<1> QED
  BY <1>1, <1>2, TripwireTypes, PTL DEF LineSpec

-----------------------------------------------------------------------------
(* Steps *)

\* Every step is a handled detection or reports nothing; only a restart
\* forgets without one.
LEMMA StepKinds ==
    ASSUME LineTypeOK, [LineNext]_lineVars
    PROVE  \/ \E d \in Detection : d.ts <= now /\ LineOnDetection(d) /\ line' = line
           \/ tracks' = tracks
           \/ passage' = Unknown /\ \A t \in Tracks : tracks'[t] = Unknown
<1>1. ASSUME NEW t \in Tracks, NEW p \in Places[t], ObjectDetected(t, p)
      PROVE  \E d \in Detection : d.ts <= now /\ LineOnDetection(d) /\ line' = line
  <2>1. PICK d : d = [track |-> t, kind |-> "object", at |-> p, ts |-> now]
    OBVIOUS
  <2>2. d \in Detection /\ d.ts <= now
    BY <2>1 DEF LineTypeOK, Detection, Times
  <2> QED
    BY <1>1, <2>1, <2>2 DEF ObjectDetected
<1>2. ASSUME NEW t \in WithPlates, PlateDetected(t)
      PROVE  \E d \in Detection : d.ts <= now /\ LineOnDetection(d) /\ line' = line
  <2>1. PICK d : d = PartOf(t)
    OBVIOUS
  <2>2. d \in Detection /\ d.ts <= now
    BY <1>2, <2>1, PartTypes DEF PlateDetected, LineTypeOK, Times
  <2> QED
    BY <1>2, <2>1, <2>2 DEF PlateDetected
<1>3. ASSUME NEW d \in late, FaceDetected(d)
      PROVE  d \in Detection /\ d.ts <= now /\ LineOnDetection(d) /\ line' = line
  BY <1>3 DEF FaceDetected, LineTypeOK
<1>4. (\E t \in WithFaces : FaceCaptured(t)) \/ (\E l \in Lines : LineReload(l)) \/ LineTick \/ UNCHANGED lineVars
        => tracks' = tracks
  BY DEF FaceCaptured, LineReload, LineTick, lineVars
<1>5. LineRestart => passage' = Unknown /\ \A t \in Tracks : tracks'[t] = Unknown
  BY DEF LineRestart
<1> QED
  BY <1>1, <1>2, <1>3, <1>4, <1>5 DEF LineNext

\* A passage is reported only for a way that meets the line's segment.
THEOREM PassagesAlwaysMeetLine == LineSpec => PassagesMeetLine
<1>1. LineTypeOK /\ [LineNext]_lineVars =>
        [\A t \in Tracks : passage' # Unknown /\ passage'.track = t /\ tracks' # tracks
            => Meets(tracks[t].at, tracks'[t].at, line[1], line[2])]_lineVars
  <2> SUFFICES ASSUME LineTypeOK, [LineNext]_lineVars, NEW t \in Tracks,
                      passage' # Unknown, passage'.track = t, tracks' # tracks
               PROVE  Meets(tracks[t].at, tracks'[t].at, line[1], line[2])
    OBVIOUS
  <2>1. PICK d \in Detection : LineOnDetection(d)
    BY StepKinds
  <2>2. PICK passes \in BOOLEAN : RuleFires(d, passes)
    BY <2>1 DEF LineOnDetection
  <2>3. LineCrossed(d) /\ d.track = t
    BY <2>2 DEF RuleFires
  <2>4. tracks'[t].at = d.at
    <3>1. tracks'[d.track] = [at |-> d.at, ts |-> d.ts]
      BY <2>1, HandlerRemembers
    <3> QED
      BY <2>3, <3>1
  <2>5. PICK p : p = tracks[t].at
    OBVIOUS
  <2>6. p \in Point /\ d.at \in Point /\ line \in Lines
    BY <2>3, <2>5 DEF LineCrossed, Fresh, LineTypeOK, Entry, Detection
  <2>7. SegmentsIntersect(p, d.at, line[1], line[2])
    BY <2>3, <2>5 DEF LineCrossed
  <2> QED
    BY <2>4, <2>5, <2>6, <2>7, SideInt, IntersectMeets
<1> QED
  BY <1>1, TripwireTypes, PTL DEF LineSpec, PassagesMeetLine

\* A full table forgets no track that could still be continued.
THEOREM EvictionAlwaysHarmless == LineSpec => EvictionHarmless
<1>1. LineTypeOK /\ [LineNext]_lineVars =>
        [\A t \in Tracks : tracks[t] # Unknown /\ tracks'[t] = Unknown /\ (\E u \in Tracks : tracks'[u] # Unknown)
            => now - tracks[t].ts > StaleSec]_lineVars
  <2> SUFFICES ASSUME LineTypeOK, [LineNext]_lineVars, NEW t \in Tracks,
                      tracks[t] # Unknown, tracks'[t] = Unknown, \E u \in Tracks : tracks'[u] # Unknown
               PROVE  now - tracks[t].ts > StaleSec
    OBVIOUS
  <2>1. PICK d \in Detection : d.ts <= now /\ LineOnDetection(d)
    BY StepKinds
  <2>2. [at |-> d.at, ts |-> d.ts] \in Entry
    BY DEF Detection, Entry
  <2>3. tracks[t].ts < d.ts - KeepSec
    BY <2>1, <2>2, HandlerRemembers
  <2> QED
    BY <2>1, <2>3 DEF LineTypeOK, Entry, Detection, Times
<1> QED
  BY <1>1, TripwireTypes, PTL DEF LineSpec, EvictionHarmless

-----------------------------------------------------------------------------
(* THE ALARM STATE *)

USE AlarmAssumption

\* What the engine decodes is a string of the setting.
LEMMA DecodedIsStored == AlarmTypeOK => Decoded \in Stored
  BY DEF AlarmTypeOK, Decoded, Setting, Stored, States

\* Every variable keeps its type, no engine is subscribed before its first
\* reload, and a value is held exactly between the read and the store.
THEOREM AlarmTypeCorrect == AlarmSpec => []AlarmTypeOK
<1>1. AlarmInit => AlarmTypeOK
  <2> SUFFICES ASSUME AlarmInit PROVE AlarmTypeOK
    OBVIOUS
  <2>1. setting \in Setting \cup {Absent} /\ put \in [Requests -> PutStage]
    BY DEF AlarmInit, Setting, Forms, Stored, States, PutStage
  <2>2. wire \in Seq(States)
    BY DEF AlarmInit
  <2>3. /\ restarts \in 0..MaxRestarts /\ edits \in 0..MaxEdits /\ quiet \in 0..2
        /\ readErrors \in 0..MaxReadErrors
    BY DEF AlarmInit
  <2> QED
    BY <2>1, <2>2, <2>3 DEF AlarmInit, AlarmTypeOK
<1>2. AlarmTypeOK /\ [AlarmNext]_alarmVars => AlarmTypeOK'
  <2> SUFFICES ASSUME AlarmTypeOK, [AlarmNext]_alarmVars PROVE AlarmTypeOK'
    OBVIOUS
  <2> USE DEF database, handlers, engine
  <2>1. ASSUME NEW r \in Requests, NEW a \in States, SetAlarm(r, a) PROVE AlarmTypeOK'
    BY <2>1 DEF SetAlarm, AlarmTypeOK, Setting, Forms, Stored, PutStage
  <2>2. ASSUME NEW r \in Requests, PublishAlarm(r) PROVE AlarmTypeOK'
    <3>1. put[r].state \in States /\ put' \in [Requests -> PutStage]
      BY <2>2 DEF PublishAlarm, AlarmTypeOK, PutStage
    <3>2. wire' \in Seq(States)
      BY <2>2, <3>1 DEF PublishAlarm, AlarmTypeOK
    <3> QED
      BY <2>2, <3>1, <3>2 DEF PublishAlarm, AlarmTypeOK
  <2>3. ASSUME NEW r \in Requests, PublishFails(r) PROVE AlarmTypeOK'
    BY <2>3 DEF PublishFails, AlarmTypeOK, PutStage
  <2>4. ASSUME NEW f \in Forms, NEW a \in Stored, EditInPsql(f, a) PROVE AlarmTypeOK'
    BY <2>4 DEF EditInPsql, AlarmTypeOK, Setting
  <2>5. CASE Subscribe
    BY <2>5 DEF Subscribe, AlarmTypeOK
  <2>6. CASE AlarmChanged
    <3>1. Head(wire) \in Stored /\ Tail(wire) \in Seq(States) /\ Head(wire) # NotLoaded
      BY <2>6 DEF AlarmChanged, AlarmTypeOK, Stored
    <3> QED
      BY <2>6, <3>1 DEF AlarmChanged, AlarmTypeOK
  <2>7. CASE ReloadSwap
    BY <2>7 DEF ReloadSwap, AlarmTypeOK
  <2>8. CASE ReloadRead
    BY <2>8, DecodedIsStored DEF ReloadRead, AlarmTypeOK
  <2>9. CASE ReloadReadFails
    BY <2>9 DEF ReloadReadFails, AlarmTypeOK, Stored, States
  <2>10. CASE ReloadStore
    BY <2>10 DEF ReloadStore, AlarmTypeOK
  <2>11. CASE AlarmRestart
    <3>1. wire' \in Seq(States)
      BY <2>11 DEF AlarmRestart
    <3>2. restarts' \in 0..MaxRestarts
      BY <2>11 DEF AlarmRestart, AlarmTypeOK
    <3>3. quiet' \in 0..2 /\ UNCHANGED <<setting, edits, put, readErrors>>
      BY <2>11 DEF AlarmRestart
    <3> QED
      BY <2>11, <3>1, <3>2, <3>3 DEF AlarmRestart, AlarmTypeOK
  <2>12. CASE UNCHANGED alarmVars
    BY <2>12 DEF alarmVars, AlarmTypeOK
  <2> QED
    BY <2>1, <2>2, <2>3, <2>4, <2>5, <2>6, <2>7, <2>8, <2>9, <2>10, <2>11, <2>12 DEF AlarmNext
<1>3. QED
  BY <1>1, <1>2, PTL DEF AlarmSpec

\* The inductive invariant.
QuietInv ==
    /\ quiet > 0 /\ loader = "read" => loaded = Decoded
    /\ quiet = 2 => alarm = Decoded

LEMMA QuietInvariant == AlarmSpec => []QuietInv
<1>1. AlarmInit => QuietInv
  BY DEF AlarmInit, QuietInv
<1>2. AlarmTypeOK /\ QuietInv /\ [AlarmNext]_alarmVars => QuietInv'
  <2> SUFFICES ASSUME AlarmTypeOK, QuietInv, [AlarmNext]_alarmVars PROVE QuietInv'
    OBVIOUS
  <2> USE DEF QuietInv, database, handlers, engine
  <2>1. CASE quiet' = 0
    BY <2>1
  <2>2. CASE UNCHANGED <<setting, alarm, loader, loaded, quiet>>
    BY <2>2 DEF Decoded
  <2>3. CASE ReloadSwap
    BY <2>3 DEF ReloadSwap, Decoded
  <2>4. CASE ReloadRead
    BY <2>4 DEF ReloadRead, Decoded
  <2>5. CASE ReloadReadFails
    BY <2>5 DEF ReloadReadFails, Decoded
  <2>6. CASE ReloadStore
    <3>1. Decoded' = Decoded /\ quiet \in 0..2
      BY <2>6 DEF ReloadStore, Decoded, AlarmTypeOK
    <3>2. loader' = "idle" /\ alarm' = loaded
      BY <2>6 DEF ReloadStore
    <3>3. quiet' = 2 => quiet > 0 /\ loader = "read"
      BY <2>6, <3>1 DEF ReloadStore
    <3> QED
      BY <3>1, <3>2, <3>3
  <2> QED
    BY <2>1, <2>2, <2>3, <2>4, <2>5, <2>6
    DEF AlarmNext, alarmVars, SetAlarm, PublishAlarm, PublishFails, EditInPsql, Subscribe, AlarmChanged, AlarmRestart
<1>3. QED
  BY <1>1, <1>2, AlarmTypeCorrect, PTL DEF AlarmSpec

\* Two undisturbed reloads bring the setting into force, for any number of
\* operators, edits, restarts and failures.
THEOREM TwoReloadsSuffice == AlarmSpec => []InForceAfterReloads
<1>1. AlarmTypeOK /\ QuietInv => InForceAfterReloads
  <2> SUFFICES ASSUME AlarmTypeOK, QuietInv, quiet = 2 PROVE InForce
    BY DEF InForceAfterReloads
  <2>1. alarm = Decoded /\ alarm # NotLoaded
    BY DecodedIsStored DEF QuietInv
  <2> QED
    BY <2>1, DecodedIsStored DEF InForce, CurrentAlarmState, Decoded, GetAlarm, Garbled, AlarmTypeOK, Setting, Stored
<1>2. QED
  BY <1>1, AlarmTypeCorrect, QuietInvariant, PTL
=============================================================================
