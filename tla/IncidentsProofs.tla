--------------------------- MODULE IncidentsProofs ---------------------------
(* Proofs about the firing path for every set of cameras, rules, windows,  *)
(* cooldowns and delays.                                                   *)
EXTENDS Incidents, TLAPS

USE SourcesAssumption, BoundsAssumption, SentinelsAssumption

\* WindowOf is a natural number of seconds.
LEMMA WindowNat == \A s \in Sources : WindowOf(s) \in Nat
  BY DEF WindowOf, MergeWindowFor, Sources

\* Every variable keeps its type: the stages, the pending detection and the
\* row to publish fit together after every step of the handler.
THEOREM TypeCorrect == Spec => []TypeOK
<1>1. Init => TypeOK
  BY DEF Init, TypeOK, Times, Stages
<1>2. TypeOK /\ [Next]_vars => TypeOK'
  <2> SUFFICES ASSUME TypeOK, [Next]_vars PROVE TypeOK'
    OBVIOUS
  <2> USE DEF TypeOK, Stages, Continue, table, engine, Times, Detection
  <2>1. CASE OnDetection
    BY <2>1 DEF OnDetection
  <2>2. ASSUME NEW s \in Sources, PassCooldown(s) PROVE TypeOK'
    BY <2>2 DEF PassCooldown, NextSources, WindowOf, Sources
  <2>3. ASSUME NEW s \in Sources, CoolingDown(s) PROVE TypeOK'
    BY <2>3 DEF CoolingDown, NextSources
  <2>4. ASSUME NEW i \in Ids, MergeInto(i) PROVE TypeOK'
    <3>1. /\ stage = "merge" /\ det \in Detection /\ cur \in Rules
          /\ incidents[i] \in Row
      BY <2>4 DEF MergeInto, MergeTargets, InWindow
    <3>2. MergedRow(incidents[i]) \in Row
      BY <3>1 DEF MergedRow, Row, Sources
    <3>3. incidents' \in [Ids -> Row \cup {NoRow}]
      BY <2>4, <3>2 DEF MergeInto
    <3>4. newest' \in [Ids -> Times]
      BY <2>4, <3>1 DEF MergeInto
    <3> QED
      BY <2>4, <3>1, <3>3, <3>4 DEF MergeInto
  <2>5. ASSUME NEW i \in Ids, Create(i) PROVE TypeOK'
    BY <2>5 DEF Create, NewRow, RuleRow, DirectRow, Row, Sources
  <2>6. CASE NothingToMerge
    BY <2>6 DEF NothingToMerge
  <2>7. CASE DatabaseError
    BY <2>7 DEF DatabaseError
  <2>8. CASE Publish
    BY <2>8 DEF Publish
  <2>9. CASE PublishError
    BY <2>9 DEF PublishError
  <2>10. CASE Restart
    BY <2>10 DEF Restart
  <2>11. CASE Tick
    BY <2>11 DEF Tick
  <2>12. CASE UNCHANGED vars
    BY <2>12 DEF vars
  <2>13. QED
    BY <2>1, <2>2, <2>3, <2>4, <2>5, <2>6, <2>7, <2>8, <2>9, <2>10, <2>11, <2>12 DEF Next
<1>3. QED
  BY <1>1, <1>2, PTL DEF Spec

-----------------------------------------------------------------------------
(* A step either leaves the table alone, folds into one row, or inserts one. *)

\* What a step of the engine may do to the table, each way with what the
\* engine knew when it did it.
TableStep ==
    \/ UNCHANGED table
    \/ \E i \in Ids :
        /\ stage = "merge" /\ cur \in Rules
        /\ i \in InWindow(det.cam, det.ts - WindowOf(cur))
        /\ incidents' = [incidents EXCEPT ![i] = MergedRow(@)]
        /\ newest' = [newest EXCEPT ![i] = IF det.ts > @ THEN det.ts ELSE @]
    \/ \E i \in Ids :
        /\ stage = "create" /\ incidents[i] = NoRow
        /\ incidents' = [incidents EXCEPT ![i] = NewRow(cur)]
        /\ newest' = [newest EXCEPT ![i] = det.ts]

LEMMA TableSteps == TypeOK /\ [Next]_vars => TableStep
<1> SUFFICES ASSUME TypeOK, [Next]_vars PROVE TableStep
  OBVIOUS
<1> USE DEF TableStep, table
<1>1. CASE \E i \in Ids : MergeInto(i)
  BY <1>1 DEF MergeInto, MergeTargets, TypeOK
<1>2. CASE \E i \in Ids : Create(i)
  BY <1>2 DEF Create
<1>3. CASE UNCHANGED vars
  BY <1>3 DEF vars
<1>4. CASE \/ OnDetection
           \/ \E s \in Sources : PassCooldown(s) \/ CoolingDown(s)
           \/ NothingToMerge \/ DatabaseError \/ Publish \/ PublishError
           \/ Restart \/ Tick
  BY <1>4 DEF OnDetection, PassCooldown, CoolingDown, NothingToMerge, DatabaseError,
              Publish, PublishError, Restart, Tick
<1>5. QED
  BY <1>1, <1>2, <1>3, <1>4 DEF Next

\* The sentinel of an absent row is no row.
LEMMA RowIsReal == NoRow \notin Row
<1>1. Row \subseteq [cam : Cameras, by : Sources, last : Int, sev : Int, rules : SUBSET Rules]
  BY DEF Row, Times
<1>2. QED
  BY <1>1

\* What replaces a stored row is a row: rows stay.
LEMMA RowsStay ==
  ASSUME TypeOK, [Next]_vars
  PROVE  \A i \in Ids : Exists(i) => Exists(i)'
<1>1. ASSUME stage = "merge", cur \in Rules, NEW i \in Ids,
             i \in InWindow(det.cam, det.ts - WindowOf(cur))
      PROVE  MergedRow(incidents[i]) \in Row
  <2>1. det \in Detection /\ incidents[i] \in Row
    BY <1>1 DEF TypeOK, InWindow
  <2> QED
    BY <1>1, <2>1 DEF MergedRow, Row, Sources, Detection
<1>2. QED
  BY <1>1, RowIsReal, TableSteps DEF TableStep, table, Exists, TypeOK

-----------------------------------------------------------------------------
(* Announcements *)

\* The row waiting to be published exists and was never published.
AnnouncedInv ==
    /\ AnnouncedOnce
    /\ stage = "publish" => Exists(row) /\ sent[row] = 0

LEMMA AnnouncedInvariant == Spec => []AnnouncedInv
<1>1. Init => AnnouncedInv
  BY DEF Init, AnnouncedInv, AnnouncedOnce
<1>2. TypeOK /\ TypeOK' /\ AnnouncedInv /\ [Next]_vars => AnnouncedInv'
  <2> SUFFICES ASSUME TypeOK, TypeOK', AnnouncedInv, [Next]_vars PROVE AnnouncedInv'
    OBVIOUS
  <2> USE DEF AnnouncedInv, AnnouncedOnce
  <2>1. \A i \in Ids : Exists(i) => Exists(i)'
    BY RowsStay
  <2>2. CASE Publish
    BY <2>1, <2>2 DEF Publish, Continue, TypeOK
  <2>3. ASSUME NEW i \in Ids, Create(i) PROVE AnnouncedInv'
    <3>1. sent[i] = 0 /\ sent' = sent /\ row' = i
      BY <2>3 DEF Create, TypeOK, Exists
    <3>2. Exists(i)'
      <4>1. det \in Detection /\ cur \in Sources /\ now \in Times
        BY <2>3 DEF Create, TypeOK, Stages
      <4>2. NewRow(cur) \in Row
        BY <4>1 DEF NewRow, RuleRow, DirectRow, Row, Detection
      <4> QED
        BY <2>3, <4>2, RowIsReal DEF Create, TypeOK, Exists
    <3>3. AnnouncedOnce'
      BY <2>1, <3>1
    <3>4. Exists(row)' /\ sent'[row'] = 0
      BY <3>1, <3>2 DEF Exists
    <3> QED
      BY <3>3, <3>4
  <2>4. CASE sent' = sent /\ stage' # "publish"
    BY <2>1, <2>4
  <2>5. CASE UNCHANGED <<sent, stage, row>>
    BY <2>1, <2>5 DEF TypeOK
  <2>6. QED
    BY <2>2, <2>3, <2>4, <2>5
    DEF Next, vars, engine, OnDetection, PassCooldown, CoolingDown, MergeInto,
        NothingToMerge, DatabaseError, PublishError, Restart, Tick, Continue
<1>3. QED
  BY <1>1, <1>2, TypeCorrect, PTL DEF Spec

\* Every incident is announced at most once, and never before its INSERT:
\* the row a create step leaves in the engine's hands is a fresh one, and a
\* publish step gives it up whether or not the publish succeeded.
THEOREM NeverAnnouncedTwice == Spec => []AnnouncedOnce
  BY AnnouncedInvariant, PTL DEF AnnouncedInv

-----------------------------------------------------------------------------
(* Severities *)

\* A row's severity never falls below that of a rule in its rule_ids: the
\* merge takes the higher rank, whichever of the two rules came first.
THEOREM SeverityIsMaximal == Spec => []SeverityCoversRules
<1>1. Init => SeverityCoversRules
  BY DEF Init, SeverityCoversRules, Exists
<1>2. TypeOK /\ SeverityCoversRules /\ [Next]_vars => SeverityCoversRules'
  <2> SUFFICES ASSUME TypeOK, SeverityCoversRules, [Next]_vars,
                      NEW i \in Ids, Exists(i)', NEW r \in incidents'[i].rules
               PROVE  incidents'[i].sev >= Severity[r]
    BY DEF SeverityCoversRules, Exists
  <2>1. CASE incidents'[i] = incidents[i]
    BY <2>1 DEF SeverityCoversRules, Exists
  <2>2. CASE /\ stage = "merge" /\ cur \in Rules /\ Exists(i)
             /\ incidents'[i] = MergedRow(incidents[i])
    <3>1. incidents[i] \in Row
      BY <2>2 DEF TypeOK, Exists
    <3>2. Severity[cur] \in Int /\ incidents[i].sev \in Int
      BY <2>2, <3>1 DEF Row, Sources
    <3>3. CASE r \in incidents[i].rules
      <4>1. Severity[r] \in Int /\ incidents[i].sev >= Severity[r]
        BY <2>2, <3>1, <3>3 DEF SeverityCoversRules, Row, Sources
      <4> QED
        BY <2>2, <3>2, <4>1 DEF MergedRow
    <3>4. CASE r = cur
      BY <2>2, <3>2, <3>4 DEF MergedRow
    <3> QED
      BY <2>2, <3>3, <3>4 DEF MergedRow
  <2>3. CASE stage = "create" /\ incidents'[i] = NewRow(cur)
    <3>1. r = cur /\ cur \in Rules
      BY <2>3 DEF NewRow, RuleRow, DirectRow
    <3> QED
      BY <2>3, <3>1 DEF NewRow, RuleRow, DirectRow, Sources
  <2>4. QED
    BY <2>1, <2>2, <2>3, TableSteps DEF TableStep, table, TypeOK, Exists, InWindow
<1>3. QED
  BY <1>1, <1>2, TypeCorrect, PTL DEF Spec

-----------------------------------------------------------------------------
(* Cooldowns *)

\* A cooldown remembers the last firing, and firings only move forward.
CooldownInv ==
    \A s \in Sources : \A t \in fires[s] :
        /\ CooldownSec[s] > 0
        /\ cooldowns[s] # Never
        /\ t <= cooldowns[s]
        /\ cooldowns[s] \in fires[s]

\* No source fires twice within its cooldown while the process lives,
\* however late or disordered the detections are: a detection older than the
\* last charge is refused, so charges are strictly increasing.
THEOREM CooldownsHold == Spec => []CooldownSpacing
<1>1. Init => CooldownInv /\ CooldownSpacing
  BY DEF Init, CooldownInv, CooldownSpacing
<1>2. TypeOK /\ CooldownInv /\ CooldownSpacing /\ [Next]_vars
        => CooldownInv' /\ CooldownSpacing'
  <2> SUFFICES ASSUME TypeOK, CooldownInv, CooldownSpacing, [Next]_vars
               PROVE  CooldownInv' /\ CooldownSpacing'
    OBVIOUS
  <2> USE DEF CooldownInv, CooldownSpacing
  <2>1. ASSUME NEW s \in Sources, PassCooldown(s), CooldownSec[s] > 0
        PROVE  CooldownInv' /\ CooldownSpacing'
    <3>1. det.ts \in Times /\ CooldownSec[s] \in Int
      BY <2>1 DEF PassCooldown, TypeOK, Detection, Stages
    <3>2. /\ cooldowns' = [cooldowns EXCEPT ![s] = det.ts]
          /\ fires' = [fires EXCEPT ![s] = @ \cup {det.ts}]
      BY <2>1 DEF PassCooldown
    <3>3. ASSUME NEW t \in fires[s]
          PROVE  t \in Times /\ det.ts - t >= CooldownSec[s]
      BY <2>1, <3>1, <3>3 DEF PassCooldown, CooldownOK, TypeOK, Times
    <3>4. ASSUME NEW x \in Sources, x # s
          PROVE  cooldowns'[x] = cooldowns[x] /\ fires'[x] = fires[x]
      BY <3>2, <3>4 DEF TypeOK
    <3>5. cooldowns'[s] = det.ts /\ fires'[s] = fires[s] \cup {det.ts}
      BY <3>2 DEF TypeOK
    <3>6. CooldownInv'
      BY <2>1, <3>1, <3>3, <3>4, <3>5, SentinelsAssumption DEF Times
    <3>7. ASSUME NEW t \in fires'[s], NEW u \in fires'[s], t < u
          PROVE  u - t >= CooldownSec[s]
      BY <3>1, <3>3, <3>5, <3>7, <2>1 DEF Times
    <3> QED
      BY <3>4, <3>6, <3>7
  <2>2. CASE UNCHANGED <<cooldowns, fires>>
    BY <2>2
  <2>3. CASE Restart
    BY <2>3 DEF Restart
  <2>4. QED
    BY <2>1, <2>2, <2>3
    DEF Next, vars, engine, OnDetection, PassCooldown, CoolingDown, MergeInto, Create,
        NothingToMerge, DatabaseError, Publish, PublishError, Tick
<1>3. QED
  BY <1>1, <1>2, TypeCorrect, PTL DEF Spec

-----------------------------------------------------------------------------
(* Merging *)

\* Who looks for a row to merge with has a window.
\* Between the UPDATE that found nothing and the INSERT, nothing appears in
\* the window: the handler is the only writer of camera-scoped rows.
MergeInv ==
    /\ stage = "merge" => WindowOf(cur) > 0
    /\ stage = "create" /\ WindowOf(cur) > 0 => InWindow(det.cam, det.ts - WindowOf(cur)) = {}

LEMMA MergeInvariant == Spec => []MergeInv
<1>1. Init => MergeInv
  BY DEF Init, MergeInv
<1>2. TypeOK /\ MergeInv /\ [Next]_vars => MergeInv'
  <2> SUFFICES ASSUME TypeOK, MergeInv, [Next]_vars PROVE MergeInv'
    OBVIOUS
  <2>1. CASE NothingToMerge
    BY <2>1 DEF NothingToMerge, MergeInv, InWindow, WindowOf, table
  <2>2. CASE stage' \notin {"merge", "create"}
    BY <2>2 DEF MergeInv
  <2>3. CASE UNCHANGED <<stage, cur, det, incidents>>
    BY <2>3 DEF MergeInv, InWindow, WindowOf
  <2>4. ASSUME NEW s \in Sources, PassCooldown(s) PROVE MergeInv'
    BY <2>4, WindowNat DEF PassCooldown, MergeInv, WindowOf
  <2>5. QED
    BY <2>1, <2>2, <2>3, <2>4
    DEF Next, vars, engine, table, OnDetection, CoolingDown, MergeInto, Create, PassCooldown,
        DatabaseError, Publish, PublishError, Restart, Tick, Continue
<1>3. QED
  BY <1>1, <1>2, TypeCorrect, PTL DEF Spec

\* A rule that merges opens a row only when no heartbeat of its camera is
\* inside its window: whatever the delays and across restarts.
THEOREM FreshWindows == Spec => FreshWindowOnly
<1>1. TypeOK /\ MergeInv /\ [Next]_vars =>
        [\A i \in Ids : ~Exists(i) /\ Exists(i)' /\ WindowOf(cur) > 0 =>
            \A j \in Ids : Exists(j) /\ incidents[j].cam = det.cam =>
                incidents[j].last < det.ts - WindowOf(cur)]_vars
  <2> SUFFICES ASSUME TypeOK, MergeInv, [Next]_vars,
                      NEW i \in Ids, ~Exists(i), Exists(i)', WindowOf(cur) > 0,
                      NEW j \in Ids, Exists(j), incidents[j].cam = det.cam
               PROVE  incidents[j].last < det.ts - WindowOf(cur)
    OBVIOUS
  <2>1. stage = "create"
    BY TableSteps DEF TableStep, table, Exists, InWindow, TypeOK
  <2>2. cur \in Sources /\ det \in Detection /\ incidents[j] \in Row
    BY <2>1 DEF TypeOK, Exists
  <2>3. /\ WindowOf(cur) \in Int /\ det.ts \in Int /\ incidents[j].last \in Int
    BY <2>2, WindowNat DEF Detection, Row, Times
  <2>4. ~(incidents[j].last >= det.ts - WindowOf(cur))
    BY <2>1 DEF MergeInv, InWindow, Exists
  <2> QED
    BY <2>3, <2>4
<1>2. QED
  BY <1>1, TypeCorrect, MergeInvariant, PTL DEF Spec, FreshWindowOnly

-----------------------------------------------------------------------------
(* Visits *)

\* What was folded is not from the future, so that a heartbeat runs behind it by
\* the delay of a detection at most, and so does the detection in hand.
VisitInv ==
    \A i \in Ids : Exists(i) =>
        /\ newest[i] <= incidents[i].last + MaxDelay
        /\ newest[i] <= now
        /\ det # NoDet => newest[i] <= det.ts + MaxDelay

\* A rule that merges opens a row only for a new visit, whatever the delays:
\* nothing was folded into a row of its camera within its window, less what a
\* late detection may have moved the heartbeat back by.
THEOREM VisitsStayApart == Spec => VisitsApart
<1> DEFINE Now == det # NoDet => det.ts <= now
<1> DEFINE IInv == VisitInv /\ Now
<1>1. Init => IInv
  BY DEF Init, VisitInv, Exists
<1>2. TypeOK /\ IInv /\ [Next]_vars => IInv'
  <2> SUFFICES ASSUME TypeOK, IInv, [Next]_vars PROVE IInv'
    OBVIOUS
  <2> USE DEF VisitInv
  <2>1. CASE OnDetection
    <3>1. PICK delay \in 0 .. MaxDelay : det'.ts = now - delay /\ delay <= now
      BY <2>1 DEF OnDetection
    <3>2. det'.ts \in Int /\ det'.ts <= now /\ now <= det'.ts + MaxDelay /\ now \in Int
      BY <3>1 DEF TypeOK, Times
    <3>3. UNCHANGED <<now, incidents, newest>> /\ \A i \in Ids : newest[i] \in Int
      BY <2>1 DEF OnDetection, table, TypeOK, Times
    <3> QED
      BY <3>2, <3>3 DEF Exists
  <2>2. CASE Tick
    BY <2>2 DEF Tick, engine, table, Exists, TypeOK, Times, Detection
  <2>3. ASSUME NEW i \in Ids, MergeInto(i) PROVE IInv'
    <3>1. det \in Detection /\ incidents[i] \in Row /\ Exists(i)
      BY <2>3 DEF MergeInto, MergeTargets, InWindow, TypeOK, Exists
    <3>2. incidents'[i].last = det.ts /\ newest'[i] \in {det.ts, newest[i]}
      BY <2>3, <3>1 DEF MergeInto, MergedRow, TypeOK, Times, Detection
    <3>3. \A j \in Ids \ {i} : incidents'[j] = incidents[j] /\ newest'[j] = newest[j]
      BY <2>3 DEF MergeInto, TypeOK
    <3> QED
      BY <2>3, <3>1, <3>2, <3>3 DEF MergeInto, Continue, Exists, Detection, TypeOK, Times
  <2>4. ASSUME NEW i \in Ids, Create(i) PROVE IInv'
    <3>1. det \in Detection
      BY <2>4 DEF Create, TypeOK
    <3>2. newest'[i] = det.ts /\ incidents'[i].last \in {det.ts, now} /\ now' = now /\ det' = det
      BY <2>4 DEF Create, NewRow, RuleRow, DirectRow, TypeOK
    <3>3. \A j \in Ids \ {i} : incidents'[j] = incidents[j] /\ newest'[j] = newest[j]
      BY <2>4 DEF Create, TypeOK
    <3> QED
      BY <3>1, <3>2, <3>3 DEF Exists, Detection, TypeOK, Times
  <2>5. CASE UNCHANGED <<now, table>> /\ (UNCHANGED det \/ det' = NoDet)
    BY <2>5 DEF table, Exists
  <2>6. QED
    BY <2>1, <2>2, <2>3, <2>4, <2>5
    DEF Next, vars, engine, PassCooldown, CoolingDown, NothingToMerge, DatabaseError,
        Publish, PublishError, Restart, Continue
<1>3. TypeOK /\ IInv /\ MergeInv /\ [Next]_vars =>
        [\A i \in Ids : ~Exists(i) /\ Exists(i)' /\ WindowOf(cur) > 0 =>
            \A j \in Ids : Exists(j) /\ incidents[j].cam = det.cam =>
                det.ts - newest[j] > WindowOf(cur) - MaxDelay]_vars
  <2> SUFFICES ASSUME TypeOK, IInv, MergeInv, [Next]_vars,
                      NEW i \in Ids, ~Exists(i), Exists(i)', WindowOf(cur) > 0,
                      NEW j \in Ids, Exists(j), incidents[j].cam = det.cam
               PROVE  det.ts - newest[j] > WindowOf(cur) - MaxDelay
    OBVIOUS
  <2>1. stage = "create"
    BY TableSteps DEF TableStep, table, Exists, InWindow, TypeOK
  <2>2. cur \in Sources /\ det \in Detection /\ incidents[j] \in Row /\ newest[j] \in Times
    BY <2>1 DEF TypeOK, Exists
  <2>3. /\ WindowOf(cur) \in Int /\ det.ts \in Int /\ incidents[j].last \in Int
        /\ newest[j] \in Int
    BY <2>2, WindowNat DEF Detection, Row, Times
  <2>4. ~(incidents[j].last >= det.ts - WindowOf(cur))
    BY <2>1 DEF MergeInv, InWindow, Exists
  <2>5. newest[j] <= incidents[j].last + MaxDelay
    BY DEF VisitInv
  <2> QED
    BY <2>3, <2>4, <2>5
<1>4. QED
  BY <1>1, <1>2, <1>3, TypeCorrect, MergeInvariant, PTL DEF Spec, VisitsApart

-----------------------------------------------------------------------------
(* Refinement *)

\* Replacing one row replaces one entry of the log's view of the table.
LEMMA ViewOfRow ==
  ASSUME NEW i \in Ids, NEW r \in Row, incidents \in [Ids -> Row \cup {NoRow}],
         incidents' = [incidents EXCEPT ![i] = r]
  PROVE  /\ visitOf' = [visitOf EXCEPT ![i] = r.cam]
         /\ openerOf' = [openerOf EXCEPT ![i] = r.by]
         /\ heartbeatOf' = [heartbeatOf EXCEPT ![i] = r.last]
<1>1. incidents'[i] = r /\ r # NoRow
  BY RowIsReal
<1>2. \A j \in Ids \ {i} : incidents'[j] = incidents[j]
  OBVIOUS
<1>3. visitOf' = [visitOf EXCEPT ![i] = r.cam]
  BY <1>1, <1>2 DEF visitOf, Exists
<1>4. heartbeatOf' = [heartbeatOf EXCEPT ![i] = r.last]
  BY <1>1, <1>2 DEF heartbeatOf, Exists
<1>5. openerOf' = [openerOf EXCEPT ![i] = r.by]
  BY <1>1, <1>2 DEF openerOf, Exists
<1>6. QED
  BY <1>3, <1>4, <1>5

\* The warm rows of the log are those of the merge window.
LEMMA WarmRows ==
  ASSUME NEW c \in Cameras, NEW s \in Sources, NEW ts
  PROVE  Log!Warm(c, s, ts) = InWindow(c, ts - WindowOf(s))
<1>1. NoRow \notin Cameras
  BY SentinelsAssumption
<1>2. \A i \in Ids : visitOf[i] = c <=> Exists(i) /\ incidents[i].cam = c
  BY <1>1 DEF visitOf
<1>3. \A i \in Ids : Exists(i) => heartbeatOf[i] = incidents[i].last
  BY DEF heartbeatOf
<1> QED
  BY <1>2, <1>3 DEF Log!Warm, InWindow, Exists

\* The engine and its table implement the log of incidents: each step that
\* inserts, merges or publishes is a step of the log, any other a stutter.
THEOREM ImplementsIncidentLog == Spec => ImplementsLog
<1>1. Init => Log!LogInit
  BY DEF Init, Log!LogInit, visitOf, openerOf, heartbeatOf, announcedOf, Exists
<1>2. TypeOK /\ AnnouncedInv /\ MergeInv /\ [Next]_vars => [Log!LogNext]_Log!logVars
  <2> SUFFICES ASSUME TypeOK, AnnouncedInv, MergeInv, [Next]_vars
               PROVE  Log!LogNext \/ UNCHANGED <<visitOf, openerOf, heartbeatOf, announcedOf>>
    BY DEF Log!logVars
  <2>0. /\ sent' = sent => announcedOf' = announcedOf
        /\ incidents' = incidents => UNCHANGED <<visitOf, openerOf, heartbeatOf>>
    BY DEF announcedOf, visitOf, openerOf, heartbeatOf, Exists
  <2>1. CASE UNCHANGED <<incidents, sent>>
    BY <2>0, <2>1
  <2>2. CASE Publish
    <3>0. row \in Ids /\ Exists(row) /\ sent[row] = 0
      BY <2>2 DEF Publish, TypeOK, AnnouncedInv
    <3>1. row \in Ids /\ Exists(row) /\ sent[row] = 0 /\ sent' = [sent EXCEPT ![row] = 1]
      BY <2>2, <3>0 DEF Publish
    <3>2. UNCHANGED <<visitOf, openerOf, heartbeatOf>>
      BY <2>0, <2>2 DEF Publish, table
    <3>3. visitOf[row] # NoRow
      BY <3>1, SentinelsAssumption DEF visitOf, Exists, TypeOK, Row
    <3>4. announcedOf' = announcedOf \cup {row} /\ row \notin announcedOf
      BY <3>1 DEF announcedOf, TypeOK
    <3>5. Log!Announce(row)
      BY <3>2, <3>3, <3>4 DEF Log!Announce
    <3> QED
      BY <3>1, <3>5 DEF Log!LogNext
  <2>3. ASSUME NEW i \in Ids, MergeInto(i) PROVE Log!LogNext
    <3>1. det \in Detection /\ incidents[i] \in Row /\ sent' = sent
      BY <2>3 DEF MergeInto, MergeTargets, InWindow, TypeOK
    <3>2. /\ MergedRow(incidents[i]) \in Row
          /\ MergedRow(incidents[i]).cam = incidents[i].cam
          /\ MergedRow(incidents[i]).by = incidents[i].by
          /\ MergedRow(incidents[i]).last = det.ts
      BY <2>3, <3>1 DEF MergedRow, MergeInto, TypeOK, Row, Detection, Sources
    <3>3. /\ visitOf' = [visitOf EXCEPT ![i] = incidents[i].cam]
          /\ openerOf' = [openerOf EXCEPT ![i] = incidents[i].by]
          /\ heartbeatOf' = [heartbeatOf EXCEPT ![i] = det.ts]
      <4> DEFINE r == MergedRow(incidents[i])
      <4>1. incidents \in [Ids -> Row \cup {NoRow}] /\ incidents' = [incidents EXCEPT ![i] = r]
        BY <2>3 DEF MergeInto, TypeOK
      <4>2. r \in Row
        BY <3>2
      <4> HIDE DEF r
      <4>3. /\ visitOf' = [visitOf EXCEPT ![i] = r.cam]
            /\ openerOf' = [openerOf EXCEPT ![i] = r.by]
            /\ heartbeatOf' = [heartbeatOf EXCEPT ![i] = r.last]
        BY <4>1, <4>2, ViewOfRow
      <4> QED
        BY <3>2, <4>3 DEF r
    <3>4. visitOf[i] = incidents[i].cam /\ openerOf[i] = incidents[i].by
      BY <3>1, RowIsReal, SentinelsAssumption DEF visitOf, openerOf, Exists, Row
    <3>5. visitOf' = visitOf /\ openerOf' = openerOf
      <4>1. visitOf' = visitOf
        BY <3>3, <3>4 DEF visitOf
      <4>2. openerOf' = openerOf
        BY <3>3, <3>4 DEF openerOf
      <4> QED
        BY <4>1, <4>2
    <3>6. det.ts \in Times /\ det.cam \in Cameras /\ cur \in Sources /\ WindowOf(cur) > 0
      BY <2>3, <3>1 DEF MergeInto, TypeOK, MergeInv, Stages, Detection, Sources
    <3>7. Log!Warm(det.cam, cur, det.ts) = InWindow(det.cam, det.ts - WindowOf(cur))
      BY <3>6, WarmRows
    <3>8. /\ i \in InWindow(det.cam, det.ts - WindowOf(cur))
          /\ \A j \in InWindow(det.cam, det.ts - WindowOf(cur)) : heartbeatOf[j] <= heartbeatOf[i]
      BY <2>3 DEF MergeInto, MergeTargets, InWindow, heartbeatOf, Exists
    <3>9. Log!Extend(i, det.cam, cur, det.ts)
      BY <2>0, <3>1, <3>3, <3>5, <3>6, <3>7, <3>8 DEF Log!Extend
    <3> QED
      BY <3>6, <3>9 DEF Log!LogNext
  <2>4. ASSUME NEW i \in Ids, Create(i) PROVE Log!LogNext
    <3>1. det \in Detection /\ cur \in Sources /\ now \in Times
      BY <2>4 DEF Create, TypeOK, Stages
    <3>2. /\ NewRow(cur) \in Row /\ NewRow(cur).cam = det.cam /\ NewRow(cur).by = cur
          /\ NewRow(cur).last \in Times /\ det.cam \in Cameras /\ det.ts \in Times
      BY <3>1 DEF NewRow, RuleRow, DirectRow, Row, Detection
    <3>3. WindowOf(cur) \in Nat
      BY <3>1, WindowNat
    <3>4. /\ visitOf' = [visitOf EXCEPT ![i] = det.cam]
          /\ openerOf' = [openerOf EXCEPT ![i] = cur]
          /\ heartbeatOf' = [heartbeatOf EXCEPT ![i] = NewRow(cur).last]
          /\ announcedOf' = announcedOf
      BY <2>0, <2>4, <3>2, ViewOfRow DEF Create, TypeOK
    <3>5. visitOf[i] = NoRow
      BY <2>4 DEF visitOf, Exists, Create
    <3>6. ASSUME WindowOf(cur) > 0
          PROVE  Log!Warm(det.cam, cur, NewRow(cur).last) = {}
      <4>1. cur \in Rules /\ NewRow(cur).last = det.ts
        BY <3>6 DEF WindowOf, NewRow, RuleRow
      <4>2. InWindow(det.cam, det.ts - WindowOf(cur)) = {}
        BY <2>4, <3>6 DEF MergeInv, Create
      <4> QED
        BY <3>1, <3>2, <4>1, <4>2, WarmRows
    <3>7. Log!Open(i, det.cam, cur, NewRow(cur).last)
      BY <3>1, <3>4, <3>5, <3>6 DEF Log!Open
    <3> QED
      BY <3>1, <3>2, <3>7 DEF Log!LogNext
  <2>5. QED
    BY <2>1, <2>2, <2>3, <2>4
    DEF Next, vars, engine, table, OnDetection, PassCooldown, CoolingDown, NothingToMerge,
        DatabaseError, PublishError, Restart, Tick
<1>3. QED
  BY <1>1, <1>2, AnnouncedInvariant, TypeCorrect, MergeInvariant, PTL
  DEF Spec, ImplementsLog, Log!LogSpec
==============================================================================
