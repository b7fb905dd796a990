----------------------------- MODULE IncidentLog -----------------------------
(***************************************************************************)
(* What the incidents table and its creation subject promise to the        *)
(* notification dispatcher and to the UI, without rules, cooldowns or the  *)
(* steps of the engine: incidents are opened on a camera, extended by      *)
(* later firings, announced at most once, and a firing that may merge      *)
(* opens a new incident only when no incident of its camera is still warm. *)
(***************************************************************************)
EXTENDS Integers

CONSTANTS
    Ids,        \* primary keys of the incidents table
    Cameras,
    Times,      \* timestamps of detections and of the database clock
    Openers,    \* what may open an incident: rules, hotlist entries, persons
    Window,     \* [opener -> its effective merge window], 0 means "never merge"
    NoCamera,   \* the camera of a row that does not exist yet
    NoOpener    \* ... and its opener

VARIABLES
    visit,      \* camera of each row, NoCamera before the INSERT
    opener,     \* what opened it
    heartbeat,  \* last_detection_at of each row
    announced   \* rows published on fnvr.events.incident.<camera>

logVars == <<visit, opener, heartbeat, announced>>

LogInit ==
    /\ visit = [i \in Ids |-> NoCamera]
    /\ opener = [i \in Ids |-> NoOpener]
    /\ heartbeat = [i \in Ids |-> 0]
    /\ announced = {}

\* The rows of camera c that a firing of s at ts may be merged into.
Warm(c, s, ts) == {i \in Ids : visit[i] = c /\ heartbeat[i] >= ts - Window[s]}

\* A firing of s opens row i with a first heartbeat; one that may merge needs a
\* camera without warm rows.
Open(i, c, s, beat) ==
    /\ visit[i] = NoCamera
    /\ Window[s] > 0 => Warm(c, s, beat) = {}
    /\ visit' = [visit EXCEPT ![i] = c]
    /\ opener' = [opener EXCEPT ![i] = s]
    /\ heartbeat' = [heartbeat EXCEPT ![i] = beat]
    /\ UNCHANGED announced

\* A firing of s that may merge extends a warm row, of several the warmest.
Extend(i, c, s, ts) ==
    /\ Window[s] > 0
    /\ i \in Warm(c, s, ts) /\ \A j \in Warm(c, s, ts) : heartbeat[j] <= heartbeat[i]
    /\ heartbeat' = [heartbeat EXCEPT ![i] = ts]
    /\ UNCHANGED <<visit, opener, announced>>

Announce(i) ==
    /\ visit[i] # NoCamera
    /\ i \notin announced
    /\ announced' = announced \cup {i}
    /\ UNCHANGED <<visit, opener, heartbeat>>

LogNext ==
    \E i \in Ids :
        \/ \E c \in Cameras, s \in Openers, ts \in Times : Open(i, c, s, ts) \/ Extend(i, c, s, ts)
        \/ Announce(i)

LogSpec == LogInit /\ [][LogNext]_logVars
==============================================================================
