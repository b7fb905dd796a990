------------------------------ MODULE Tripwire ------------------------------
(***************************************************************************)
(* Line and tripwire zones of the event-processor                          *)
(* (apps/event-processor/internal/rules/engine.go, lineCrossed and         *)
(* rememberTrack): a rule on such a zone fires when the centre of a track  *)
(* moves across the line between the remembered detection and the one in   *)
(* hand.  The pipeline gives a face or a plate the track id of the person  *)
(* or vehicle it is part of; faces come back through ml-worker, late and   *)
(* perhaps twice, with the time of their capture.                          *)
(*                                                                         *)
(* One camera, one rule that takes both directions, centres on a grid.     *)
(* Detections that are muted, suppressed or cannot be stored change        *)
(* nothing here and are left out.                                          *)
(***************************************************************************)
EXTENDS Clock, FiniteSets

CONSTANTS
    Tracks,     \* tracker ids
    Places,     \* [track -> centres the tracked object may have]
    WithFaces,  \* tracks of persons whose faces are found
    WithPlates, \* tracks of vehicles whose plates are read
    Offset,     \* from the centre of an object to that of its face or plate
    Lines,      \* <<A, B>>: the geometries an operator gives the zone
    StaleSec,   \* 2 s: a longer gap is not a continuous track
    KeepSec,    \* 30 s: what a full table forgets
    TableSize,  \* 2000 entries
    Unknown,    \* no entry, no passage
    MaxLate     \* bound: faces on their way

Point == Int \X Int
Entry == [at : Point, ts : Times]
Detection == [track : Tracks, kind : {"object", "part"}, at : Point, ts : Times]
Passages == [track : Tracks, kind : {"object", "part"}, way : {"in", "out"}]

ASSUME TripwireAssumption ==
    /\ Places \in [Tracks -> SUBSET Point]
    /\ WithFaces \subseteq Tracks /\ WithPlates \subseteq Tracks
    /\ Offset \in Point
    /\ Lines \subseteq Point \X Point
    /\ StaleSec \in Nat /\ KeepSec \in Nat /\ StaleSec <= KeepSec
    /\ {TableSize, MaxLate} \subseteq Nat
    /\ Unknown \notin Entry \cup Passages

VARIABLES
    line,       \* the zone's geometry
    late,       \* face detections on their way through ml-worker
    tracks,     \* Engine.tracks
    passage,    \* what the last step reported: track, kind and direction
    lastSeen,   \* history: the last detection of each tracked object itself
    ledger      \* history: the side each track is on by the passages reported

lineVars == <<now, line, late, tracks, passage, lastSeen, ledger>>

LineTypeOK ==
    /\ now \in Times
    /\ line \in Lines
    /\ late \subseteq Detection
    /\ tracks \in [Tracks -> Entry \cup {Unknown}]
    /\ passage \in Passages \cup {Unknown}
    /\ lastSeen \in [Tracks -> Entry \cup {Unknown}]
    /\ ledger \in [Tracks -> Int]
    /\ \A t \in Tracks : tracks[t] # Unknown => lastSeen[t] # Unknown
    /\ \A d \in late : d.kind = "part" /\ d.ts <= now /\ lastSeen[d.track] # Unknown

LineInit ==
    /\ now = 0
    /\ line \in Lines
    /\ late = {}
    /\ tracks = [t \in Tracks |-> Unknown]
    /\ passage = Unknown
    /\ lastSeen = [t \in Tracks |-> Unknown]
    /\ ledger = [t \in Tracks |-> 0]

-----------------------------------------------------------------------------
(* Geometry *)

Minus(p, q) == <<p[1] - q[1], p[2] - q[2]>>
Plus(p, q) == <<p[1] + q[1], p[2] + q[2]>>
Cross(u, v) == u[1] * v[2] - u[2] * v[1]
Sign(n) == IF n > 0 THEN 1 ELSE IF n < 0 THEN -1 ELSE 0

Orient(p, q, r) == Sign(Cross(Minus(q, p), Minus(r, p)))

\* Faulty variant of SegmentsIntersect: the lines cross, wherever they do.
LinesIntersect(p, q, a, b) == Orient(a, b, p) # Orient(a, b, q)

SegmentsIntersect(p, q, a, b) ==
    /\ Orient(p, q, a) # Orient(p, q, b)
    /\ Orient(a, b, p) # Orient(a, b, q)

SideOf(l, p) == Cross(Minus(l[2], l[1]), Minus(p, l[1]))

\* Faulty variant of Direction: grazing the line from the far side is no "out".
DirectionStrict(l, p, q) == IF SideOf(l, p) < 0 /\ SideOf(l, q) < 0 THEN "out" ELSE "in"

\* Coming from the line's left is "in", and so is what only touches it there.
Direction(l, p, q) == IF SideOf(l, p) < 0 /\ SideOf(l, q) >= 0 THEN "out" ELSE "in"

-----------------------------------------------------------------------------
(* The detection handler *)

Fresh(d) == tracks[d.track] # Unknown /\ d.ts - tracks[d.track].ts <= StaleSec

LineCrossed(d) == Fresh(d) /\ SegmentsIntersect(tracks[d.track].at, d.at, line[1], line[2])

\* The zone is looked at after the rule's camera, class, confidence, alarm state
\* and schedule; a passage it reports goes on to the rule's cooldown.
RuleFires(d, passes) ==
    passage' = IF passes /\ LineCrossed(d)
                 THEN [track |-> d.track, kind |-> d.kind,
                       way |-> Direction(line, tracks[d.track].at, d.at)]
                 ELSE Unknown

\* Faulty variant of RememberTrack: a full table forgets everybody else.
RememberTrackOnly(d) ==
    LET table == [tracks EXCEPT ![d.track] = [at |-> d.at, ts |-> d.ts]]
        full == Cardinality({t \in Tracks : table[t] # Unknown}) > TableSize
    IN tracks' = [t \in Tracks |-> IF full /\ t # d.track THEN Unknown ELSE table[t]]

\* Whether the rule fired or not, the centre is remembered; a table that has
\* grown too large forgets what is 30 s older than the detection.
RememberTrack(d) ==
    LET table == [tracks EXCEPT ![d.track] = [at |-> d.at, ts |-> d.ts]]
        full == Cardinality({t \in Tracks : table[t] # Unknown}) > TableSize
        old == {t \in Tracks : table[t] # Unknown /\ table[t].ts < d.ts - KeepSec}
    IN tracks' = [t \in Tracks |-> IF full /\ t \in old THEN Unknown ELSE table[t]]

\* The way of the centre meets the segment between the zone's two points.
Meets(p, q, a, b) ==
    LET r == Minus(q, p)
        s == Minus(b, a)
        den == Cross(r, s)
        along == Cross(Minus(a, p), s) * Sign(den)
        across == Cross(Minus(a, p), r) * Sign(den)
    IN den # 0 /\ along \in 0 .. den * Sign(den) /\ across \in 0 .. den * Sign(den)

Bit(l, p) == IF SideOf(l, p) < 0 THEN 0 ELSE 1

\* The step is one the rule should account for: it looked at it, neither
\* centre lies on the line, and the way does not lead round the line's end.
Accountable(d, passes) ==
    /\ passes /\ Fresh(d)
    /\ SideOf(line, tracks[d.track].at) # 0 /\ SideOf(line, d.at) # 0
    /\ Bit(line, tracks[d.track].at) # Bit(line, d.at) =>
            Meets(tracks[d.track].at, d.at, line[1], line[2])

Account(d, passes) ==
    ledger' = [ledger EXCEPT ![d.track] =
        IF ~Accountable(d, passes) THEN Bit(line, d.at)
        ELSE IF passage' = Unknown THEN @
        ELSE IF passage'.way = "in" THEN @ - 1 ELSE @ + 1]

LineOnDetection(d) ==
    \E passes \in BOOLEAN :
        /\ RuleFires(d, passes)
        /\ RememberTrack(d)
        /\ Account(d, passes)

\* The tracked object itself is detected.
ObjectDetected(t, p) ==
    LET d == [track |-> t, kind |-> "object", at |-> p, ts |-> now] IN
    /\ LineOnDetection(d)
    /\ lastSeen' = [lastSeen EXCEPT ![t] = [at |-> p, ts |-> now]]
    /\ UNCHANGED <<now, line, late>>

\* Faulty variant of PartOf: the kind is lost, and the engine's default taken.
PartOfUnmarked(t) ==
    [track |-> t, kind |-> "object", at |-> Plus(lastSeen[t].at, Offset), ts |-> lastSeen[t].ts]

\* A face or plate is published under the track of its parent.
PartOf(t) == [track |-> t, kind |-> "part", at |-> Plus(lastSeen[t].at, Offset), ts |-> lastSeen[t].ts]

\* A plate found in the same frame follows at once.
PlateDetected(t) ==
    /\ lastSeen[t] # Unknown /\ lastSeen[t].ts = now
    /\ LineOnDetection(PartOf(t))
    /\ UNCHANGED <<now, line, late, lastSeen>>

\* A face goes to ml-worker first.
FaceCaptured(t) ==
    /\ lastSeen[t] # Unknown /\ lastSeen[t].ts = now
    /\ PartOf(t) \notin late
    /\ Cardinality(late) < MaxLate
    /\ late' = late \cup {PartOf(t)}
    /\ passage' = Unknown
    /\ UNCHANGED <<now, line, tracks, lastSeen, ledger>>

\* ml-worker publishes the detection and then acks: the message may come again.
FaceDetected(d) ==
    /\ d \in late
    /\ LineOnDetection(d)
    /\ late' \in {late, late \ {d}}
    /\ UNCHANGED <<now, line, lastSeen>>

-----------------------------------------------------------------------------

\* An operator redraws the line and the engine reloads the zones.
LineReload(l) ==
    /\ line # l
    /\ line' = l
    /\ ledger' = [t \in Tracks |-> IF tracks[t] = Unknown THEN ledger[t] ELSE Bit(l, tracks[t].at)]
    /\ passage' = Unknown
    /\ UNCHANGED <<now, late, tracks, lastSeen>>

LineRestart ==
    /\ tracks' = [t \in Tracks |-> Unknown]
    /\ passage' = Unknown
    /\ UNCHANGED <<now, line, late, lastSeen, ledger>>

LineTick ==
    /\ now < MaxTime
    /\ now' = now + 1
    /\ passage' = Unknown
    /\ UNCHANGED <<line, late, tracks, lastSeen, ledger>>

LineNext ==
    \/ \E t \in Tracks : \E p \in Places[t] : ObjectDetected(t, p)
    \/ \E t \in WithPlates : PlateDetected(t)
    \/ \E t \in WithFaces : FaceCaptured(t)
    \/ \E d \in late : FaceDetected(d)
    \/ \E l \in Lines : LineReload(l)
    \/ LineRestart
    \/ LineTick

LineSpec == LineInit /\ [][LineNext]_lineVars

-----------------------------------------------------------------------------
(* Properties *)

\* The passages reported of a track put it on the side where it is remembered,
\* however detections of the object and of its parts are mixed or late: each
\* way over the line is reported once and in its direction.
PassagesAddUp ==
    \A t \in Tracks : tracks[t] # Unknown => ledger[t] = Bit(line, tracks[t].at)

\* A passage is reported only for a way that meets the segment itself.
PassagesMeetLine ==
    [][\A t \in Tracks : passage' # Unknown /\ passage'.track = t /\ tracks' # tracks
            => Meets(tracks[t].at, tracks'[t].at, line[1], line[2])]_lineVars

\* A table that is full forgets no track that could still be continued.
EvictionHarmless ==
    [][\A t \in Tracks : tracks[t] # Unknown /\ tracks'[t] = Unknown /\ (\E u \in Tracks : tracks'[u] # Unknown)
            => now - tracks[t].ts > StaleSec]_lineVars

=============================================================================
