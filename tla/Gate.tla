--------------------------------- MODULE Gate ---------------------------------
(***************************************************************************)
(* The gate of the rules engine (rules/engine.go, onDetection): which      *)
(* detections of a camera are dropped before they are stored, by its       *)
(* detectors, its zones, the muted classes and the flagged objects.  The   *)
(* engine reads the tables one after another in reload() and swaps what it *)
(* made of them in under its lock; the api-server writes them with the     *)
(* handlers of Flags and with those of the mutes, below.  A detection is   *)
(* judged by one snapshot, and stored in the same step here.               *)
(***************************************************************************)
EXTENDS Flags, Sequences

CONSTANTS
    Kinds,      \* detectors
    KindOf,     \* [detection -> detector]
    Inside,     \* [detection -> the polygon zones its centre is in]
    Alike,      \* pairs of detections whose hashes are near
    Zones,
    Exclusions, \* what a zone may exclude: [classes, kinds]
    CameraRows, \* what the camera's row may say
    MuteBodies  \* the three buckets an operator may save

Locations == {"indoor", "outdoor"}
Buckets == {"global"} \cup Locations
TableNames == Buckets \cup {"zones", "camera", "taxonomy", "flags"}
Exclusion == [classes : SUBSET Slugs, kinds : SUBSET Kinds]
\* No detectors means all of them.
CameraRow == [detectors : SUBSET Kinds, location : Locations \cup {None},
              mute : SUBSET Slugs, unmute : SUBSET Slugs]

ASSUME GateAssumption ==
    /\ KindOf \in [Dets -> Kinds] /\ Inside \in [Dets -> SUBSET Zones]
    /\ Alike \subseteq Dets \X Dets
    /\ Exclusions \subseteq Exclusion /\ CameraRows \subseteq CameraRow
    /\ MuteBodies \subseteq [Buckets -> SUBSET Slugs]

\* The engine's view: the zones, the detectors, the resolved mutes and the
\* detections whose hashes are in the library.
View == [zones : [Zones -> Exclusion], detectors : SUBSET Kinds, muted : SUBSET Slugs, library : SUBSET Dets]

VARIABLES
    zones,      \* zones: [zone -> what it excludes]
    camera,     \* the camera's row
    buckets,    \* settings classes.disabled.*
    saving,     \* SetClassMutes under way: the buckets it has yet to write
    engine,     \* the engine's view
    reload,     \* where reload() is
    reading,    \* what it has read
    span        \* history: what the tables have asked for since the reload began

gateTables == <<zones, camera, buckets, saving>>
gateVars == <<gateTables, engine, reload, reading, span>>
vars == <<flagVars, gateVars>>

Reading == [zones : [Zones -> Exclusion], camera : CameraRow, muted : SUBSET Slugs, library : SUBSET Dets]

NoMutes == [b \in Buckets |-> {}]
NoExclusion == [classes |-> {}, kinds |-> {}]
StartRow == [detectors |-> {}, location |-> "indoor", mute |-> {}, unmute |-> {}]
\* The verdicts on each detection, the table edited if there was one, and
\* whether a query fell short; after an edit of a second table, only that.
Span == [verdicts : [Dets -> SUBSET BOOLEAN], edited : SUBSET TableNames, short : BOOLEAN, torn : BOOLEAN]
NoSpan == [verdicts |-> [d \in Dets |-> {}], edited |-> {}, short |-> FALSE, torn |-> FALSE]
Torn == [NoSpan EXCEPT !.torn = TRUE]
NothingRead == [zones |-> [z \in Zones |-> NoExclusion], camera |-> StartRow, muted |-> {}, library |-> {}]

TypeOK ==
    /\ FlagsTypeOK
    /\ zones \in [Zones -> Exclusion] /\ camera \in CameraRow
    /\ buckets \in [Buckets -> SUBSET Slugs]
    /\ saving \in [left : Seq(Locations), body : [Buckets -> SUBSET Slugs]]
    /\ engine \in View /\ reading \in Reading
    /\ reload \in {"idle", "camera", "global", "taxonomy", "location", "flags", "swap"}
    /\ span \in Span

-----------------------------------------------------------------------------
Disabled == {s \in Slugs : Exists(s)} \ Enabled

\* The detections whose flags are active: loadObjectFlags.
Library == {flags[f].det : f \in {g \in Made : flags[g].active /\ flags[g].det # None}}

Tables == [t \in TableNames |->
    CASE t = "zones" -> zones [] t = "camera" -> camera [] t = "taxonomy" -> Disabled
      [] t = "flags" -> Library [] OTHER -> buckets[t]]

BucketOf(cam) == IF cam.location = None THEN {} ELSE buckets[cam.location]

\* The overrides in the wrong order: an unmute takes a mute away.
ResolveMuteFirst(muted, cam) == (muted \cup cam.mute) \ cam.unmute

\* "Unmute-then-mute."
Resolve(muted, cam) == (muted \ cam.unmute) \cup cam.mute

\* What onDetection drops before it is stored.
KindIn(d, detectors) == detectors = {} \/ KindOf[d] \in detectors
IsMuted(d, zs) == \E z \in Inside[d] : ClassOf[d] \in zs[z].classes \/ KindOf[d] \in zs[z].kinds
Suppressed(d, library) == \E e \in library : ClassOf[e] = ClassOf[d] /\ <<d, e>> \in Alike
Drops(view, d) ==
    \/ ~KindIn(d, view.detectors)
    \/ IsMuted(d, view.zones)
    \/ ClassOf[d] \in view.muted
    \/ Suppressed(d, view.library)

\* What the tables ask for.
Unwanted(d) ==
    LET s == ClassOf[d]
        byBuckets == s \in buckets["global"] \/ s \in Disabled \/ s \in BucketOf(camera)
    IN  \/ camera.detectors # {} /\ KindOf[d] \notin camera.detectors
        \/ \E z \in Inside[d] : s \in zones[z].classes \/ KindOf[d] \in zones[z].kinds
        \/ s \in camera.mute \/ (s \notin camera.unmute /\ byBuckets)
        \/ \E f \in Made :
              /\ flags[f].active /\ flags[f].det # None
              /\ flags[f].original = s /\ <<d, flags[f].det>> \in Alike

-----------------------------------------------------------------------------
\* What a change of the tables means for the reload under way.
Track ==
    LET edited == span.edited \cup {t \in TableNames : Tables'[t] # Tables[t]}
    IN  span' = IF reload = "idle" THEN NoSpan
                ELSE IF span.torn \/ Cardinality(edited) > 1 THEN Torn
                ELSE [verdicts |-> [d \in Dets |-> span.verdicts[d] \cup {Unwanted(d)'}],
                      edited |-> edited, short |-> span.short, torn |-> FALSE]

\* A step of the api-server that Flags has.
FlagsStep == FlagsNext /\ UNCHANGED <<gateTables, engine, reload, reading>> /\ Track

Edit == Count /\ UNCHANGED <<classes, flags, detections, files, jobs, history, failures, engine, reload, reading>> /\ Track

HandleUpdateZoneExclusions ==
    \E z \in Zones, e \in Exclusions :
        /\ zones[z] # e /\ zones' = [zones EXCEPT ![z] = e]
        /\ UNCHANGED <<camera, buckets, saving>> /\ Edit

\* handleUpdateCameraClasses and handleUpdateDetectors each write some of the row.
HandleUpdateCamera ==
    \E row \in CameraRows :
        /\ \/ row.detectors = camera.detectors
           \/ row = [camera EXCEPT !.detectors = row.detectors]
        /\ camera # row /\ camera' = row
        /\ UNCHANGED <<zones, buckets, saving>> /\ Edit

\* SetClassMutes saves the global bucket, ...
HandleUpdateClassMutes ==
    \E body \in MuteBodies :
        /\ saving.left = <<>> /\ body # buckets
        /\ buckets' = [buckets EXCEPT !["global"] = body["global"]]
        /\ saving' = [left |-> <<"indoor", "outdoor">>, body |-> body]
        /\ UNCHANGED <<zones, camera>> /\ Edit

\* ... then the other two, in statements of their own.
SaveBucket ==
    /\ saving.left # <<>>
    /\ LET b == Head(saving.left) IN buckets' = [buckets EXCEPT ![b] = saving.body[b]]
    /\ saving' = IF Len(saving.left) = 1 THEN [left |-> <<>>, body |-> NoMutes] ELSE [saving EXCEPT !.left = Tail(@)]
    /\ UNCHANGED <<flagVars, zones, camera, engine, reload, reading>>
    /\ Track

SaveFails ==
    /\ Failure /\ saving.left # <<>> /\ saving' = [left |-> <<>>, body |-> NoMutes]
    /\ UNCHANGED <<classes, flags, detections, files, jobs, history, requests>>
    /\ UNCHANGED <<zones, camera, buckets, engine, reload, reading, span>>

-----------------------------------------------------------------------------
\* onDetection
OnDetection(d) ==
    /\ ~Drops(engine, d) /\ Stored(d)
    /\ UNCHANGED gateVars

\* reload() reads one table after the other.  Its first query begins it, ...
ReloadZones ==
    /\ reload = "idle" /\ reload' = "camera"
    /\ reading' = [reading EXCEPT !.zones = zones]
    /\ span' = [NoSpan EXCEPT !.verdicts = [d \in Dets |-> {Unwanted(d)}]]
    /\ UNCHANGED <<flagVars, gateTables, engine>>

ReloadCamera ==
    /\ reload = "camera" /\ reload' = "global"
    /\ reading' = [reading EXCEPT !.camera = camera]
    /\ UNCHANGED <<flagVars, gateTables, engine, span>>

\* ... the buckets and the taxonomy add to the muted classes, ...
ReloadMutes(from, to, found) ==
    /\ reload = from /\ reload' = to
    /\ reading' = [reading EXCEPT !.muted = @ \cup found]
    /\ UNCHANGED <<flagVars, gateTables, engine, span>>
ReloadGlobal == ReloadMutes("global", "taxonomy", buckets["global"])
ReloadTaxonomy == ReloadMutes("taxonomy", "location", Disabled)
ReloadLocation == ReloadMutes("location", "flags", BucketOf(reading.camera))

ReloadFlags ==
    /\ reload = "flags" /\ reload' = "swap"
    /\ reading' = [reading EXCEPT !.library = Library]
    /\ UNCHANGED <<flagVars, gateTables, engine, span>>

\* A query falls short and the reload goes on with what it has read: nobody
\* looks at rows.Err() after the zones, the cameras and the taxonomy, nor at
\* the error of a bucket.
FallsShort ==
    /\ Failure /\ span' = IF span.torn THEN span ELSE [span EXCEPT !.short = TRUE]
    /\ UNCHANGED <<classes, flags, detections, files, jobs, history, requests, gateTables, engine>>

\* Some of the zones are missing, ...
ReloadZonesShort ==
    /\ Failure /\ reload = "idle" /\ reload' = "camera"
    /\ \E read \in SUBSET Zones :
          reading' = [reading EXCEPT !.zones = [z \in Zones |-> IF z \in read THEN zones[z] ELSE NoExclusion]]
    /\ span' = [NoSpan EXCEPT !.verdicts = [d \in Dets |-> {Unwanted(d)}], !.short = TRUE]
    /\ UNCHANGED <<classes, flags, detections, files, jobs, history, requests, gateTables, engine>>

\* ... or the camera is, which has no muted class then, as if it unmuted all, ...
Overlooked == [detectors |-> {}, location |-> None, mute |-> {}, unmute |-> Slugs]
ReloadCameraShort ==
    /\ reload = "camera" /\ reload' = "global" /\ FallsShort
    /\ reading' = [reading EXCEPT !.camera = Overlooked]

\* ... or muted classes are.
ReloadMutesShort ==
    /\ FallsShort
    /\ \/ reload = "global" /\ reload' = "taxonomy" /\ UNCHANGED reading
       \/ /\ reload = "taxonomy" /\ reload' = "location"
          /\ \E found \in SUBSET Disabled : reading' = [reading EXCEPT !.muted = @ \cup found]
       \/ reload = "location" /\ reload' = "flags" /\ UNCHANGED reading

Short == ReloadZonesShort \/ ReloadCameraShort \/ ReloadMutesShort

\* A failed reload that ends the ticker with it.
ReloadGivesUp ==
    /\ Failure /\ reload \in {"camera", "flags"}
    /\ reload' = "ended" /\ reading' = NothingRead /\ span' = NoSpan
    /\ UNCHANGED <<classes, flags, detections, files, jobs, history, requests, gateTables, engine>>

\* The failure of another, or of one of those at its first row, ends the reload
\* and leaves the view as it is.
ReloadFails ==
    /\ Failure /\ reload \in {"camera", "flags"}
    /\ reload' = "idle" /\ reading' = NothingRead /\ span' = NoSpan
    /\ UNCHANGED <<classes, flags, detections, files, jobs, history, requests, gateTables, engine>>

\* At last the view is swapped under the lock.
ReloadSwap ==
    /\ reload = "swap" /\ reload' = "idle"
    /\ engine' = [zones |-> reading.zones, detectors |-> reading.camera.detectors,
                  muted |-> Resolve(reading.muted, reading.camera), library |-> reading.library]
    /\ reading' = NothingRead
    /\ span' = NoSpan
    /\ UNCHANGED <<flagVars, gateTables>>

Reload == ReloadZones \/ ReloadCamera \/ ReloadGlobal \/ ReloadTaxonomy \/ ReloadLocation \/ ReloadFlags \/ ReloadSwap

-----------------------------------------------------------------------------
Init ==
    /\ FlagsInit
    /\ zones = [z \in Zones |-> NoExclusion] /\ camera = StartRow /\ buckets = NoMutes
    /\ saving = [left |-> <<>>, body |-> NoMutes]
    /\ engine = [zones |-> zones, detectors |-> {}, muted |-> Disabled, library |-> {}]
    /\ reload = "idle" /\ reading = NothingRead
    /\ span = NoSpan

Next ==
    \/ FlagsStep
    \/ HandleUpdateZoneExclusions \/ HandleUpdateCamera \/ HandleUpdateClassMutes \/ SaveBucket \/ SaveFails
    \/ \E d \in Dets : OnDetection(d)
    \/ Reload \/ Short \/ ReloadFails

Spec == Init /\ [][Next]_vars /\ WF_vars(Reload)

-----------------------------------------------------------------------------
\* The gate judges every detection as the tables stood at some moment of the
\* reload that made its view, whose queries are not one transaction, unless a
\* second table was edited in its course.  A query that falls short may let
\* through what the tables never did, but drops nothing that they always kept.
GateOfOneMoment ==
    [][reload = "swap" /\ reload' = "idle" =>
          \/ span.torn
          \/ \A d \in Dets : \/ Drops(engine', d) \in span.verdicts[d]
                             \/ span.short /\ ~Drops(engine', d)]_vars

\* Once the edits end the gate comes to agree with the tables, and stays so:
\* the flagged object stays away, the one whose flag was dismissed is back.
EventuallyGated == <>[](\A d \in Dets : Drops(engine, d) <=> Unwanted(d))
=============================================================================
