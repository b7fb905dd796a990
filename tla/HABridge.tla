------------------------------ MODULE HABridge ------------------------------
(***************************************************************************)
(* The notification-dispatcher's Home Assistant bridge                     *)
(* (apps/notification-dispatcher/internal/habridge/bridge.go), its config  *)
(* watcher (cmd/main.go) and the MQTT deliveries it shares connections     *)
(* with (channels/dispatcher.go): for one camera, the retained "motion"    *)
(* and "incident" topics that detections and incidents set to ON and timer *)
(* callbacks set to OFF, while the bridge is stopped and started by edits  *)
(* of the settings.                                                        *)
(*                                                                         *)
(* A timer callback checks under the lock that it is still the one in the  *)
(* map and publishes after it released the lock.  Callbacks that lost that *)
(* check do nothing and are left out.                                      *)
(***************************************************************************)
EXTENDS MqttHub

CONSTANTS
    Deliveries,     \* goroutines delivering an incident to an MQTT channel
    Bridge,         \* the bridge as a caller of the hub
    ChannelKey,     \* the key of the MQTT channels
    Configs,        \* settings of a bridge switched on
    KeyOf,          \* [config -> key]; configs of one key differ in the password
    Disabled,       \* the setting of a bridge switched off
    MaxEdits,       \* bound: edits of the settings
    MaxMessages,    \* bound: NATS messages
    MaxLosses       \* bound: connections lost, and Acquires that give up

ASSUME BridgeAssumption ==
    /\ Callers = Deliveries \cup {Bridge}
    /\ Bridge \notin Deliveries
    /\ ChannelKey \in Keys
    /\ KeyOf \in [Configs -> Keys]
    /\ Disabled \notin Configs
    /\ NoConn \notin [conn : Conn, fired : BOOLEAN]
    /\ {MaxEdits, MaxMessages, MaxLosses} \subseteq Nat

Settings == Configs \cup {Disabled}
Sensors == {"motion", "incident"}

VARIABLES
    setting,    \* settings['ha.config'], as far as it restarts the bridge
    last,       \* what the watcher applied last
    stage,      \* where Start and Stop are
    handler,    \* [sensor -> the NATS callbacks in progress]
    timer,      \* motionTimers and incidentTimers
    off,        \* [sensor -> connections a callback is about to publish OFF on]
    shown,      \* [broker -> [sensor -> the retained payload]]
    outbox,     \* [conn -> the last QoS 1 payload that waits for a reconnect]
    forgotten,  \* history: <<broker, sensor>> whose timer Stop cancelled or another
                \* run took over, or whose OFF was lost or sent while the ON waited
                \* for another connection of that broker, since it was shown
    spent       \* what was used of the bounds

bridgeVars == <<setting, last, stage, handler, timer, off, shown, outbox, forgotten, spent>>
vars == <<hubVars, bridgeVars>>

Spend(what, bound) == spent[what] < bound /\ spent' = [spent EXCEPT ![what] = @ + 1]

Callback == [conn : Conn, at : {"begun", "published"}]
Timer == [conn : Conn, fired : BOOLEAN]
Payload == {"unset", "ON", "OFF"}

TypeOK ==
    /\ HubTypeOK
    /\ setting \in Settings /\ last \in Settings
    /\ stage \in {"idle", "starting", "acquired", "running", "cancelled", "released"}
    /\ stage \in {"acquired", "running", "cancelled"} <=> held[Bridge] # NoConn
    /\ stage \in {"starting", "acquired", "running"} => last # Disabled
    /\ handler \in [Sensors -> SUBSET Callback]
    /\ timer \in [Sensors -> Timer \cup {NoConn}]
    /\ off \in [Sensors -> SUBSET Conn]
    /\ shown \in [Brokers -> [Sensors -> Payload]]
    /\ outbox \in [Conn -> Payload]
    /\ forgotten \subseteq Brokers \X Sensors
    /\ spent \in [{"edits", "messages", "losses"} -> Nat]

Init ==
    /\ HubInit
    /\ setting \in Settings
    /\ last = Disabled
    /\ stage = "idle"
    /\ handler = [s \in Sensors |-> {}]
    /\ timer = [s \in Sensors |-> NoConn]
    /\ off = [s \in Sensors |-> {}]
    /\ shown = [b \in Brokers |-> [s \in Sensors |-> "unset"]]
    /\ outbox = [n \in Conn |-> "unset"]
    /\ forgotten = {}
    /\ spent = [w \in {"edits", "messages", "losses"} |-> 0]

-----------------------------------------------------------------------------
(* client.Publish *)

\* A payload v sent on n is followed by an ON that waits for another connection
\* of the same broker, one of another user or of an earlier run.
Overtakes(n, v) ==
    v = "OFF" /\ \E m \in Conn \ {n} : BrokerOf[m.key] = BrokerOf[n.key] /\ outbox[m] = "ON"

\* What a broker shows once payload v of sensor s was published on n.  The
\* incident topic has QoS 1 and waits for a connection that is coming back,
\* the motion topic has QoS 0; on a released connection both are lost.
Publish(n, s, v) ==
    LET b == BrokerOf[n.key]
    IN  IF n \in session
          THEN /\ shown' = [shown EXCEPT ![b][s] = v]
               /\ forgotten' = IF s = "incident" /\ Overtakes(n, v)
                                 THEN forgotten \cup {<<b, s>>} ELSE forgotten \ {<<b, s>>}
               /\ UNCHANGED outbox
          ELSE /\ outbox' = IF s = "incident" /\ n \in HubConns THEN [outbox EXCEPT ![n] = v] ELSE outbox
               /\ forgotten' = IF outbox' = outbox /\ v = "OFF" THEN forgotten \cup {<<b, s>>} ELSE forgotten
               /\ UNCHANGED shown

\* What waited for a connection that was released is lost.
DropOutbox ==
    LET dropped == {n \in Conn : n \notin HubConns' /\ outbox[n] # "unset"}
    IN  /\ outbox' = [n \in Conn |-> IF n \in dropped THEN "unset" ELSE outbox[n]]
        /\ forgotten' = forgotten \cup
                {<<BrokerOf[n.key], "incident">> : n \in {m \in dropped : outbox[m] = "OFF"}}

\* A reconnected client sends what waited.
Flush(n) ==
    LET b == BrokerOf[n.key]
    IN  /\ shown' = IF outbox[n] = "unset" THEN shown ELSE [shown EXCEPT ![b]["incident"] = outbox[n]]
        /\ forgotten' = IF Overtakes(n, outbox[n]) THEN forgotten \cup {<<b, "incident">>} ELSE forgotten
        /\ outbox' = [outbox EXCEPT ![n] = "unset"]

-----------------------------------------------------------------------------
(* watchHAConfig, Start and Stop *)

EditSetting(v) ==
    /\ v # setting
    /\ setting' = v
    /\ Spend("edits", MaxEdits)
    /\ UNCHANGED <<hubVars, last, stage, handler, timer, off, shown, outbox, forgotten>>

\* apply: a changed setting is remembered before Start is tried.  Start first
\* stops a running bridge: cancel() ends the reconcile loop and unsubscribes,
\* a NATS callback in progress goes on.
Apply ==
    /\ stage \in {"idle", "running"}
    /\ setting # last
    /\ last' = setting
    /\ stage' = IF stage = "running" THEN "cancelled"
                ELSE IF setting = Disabled THEN "idle" ELSE "starting"
    /\ UNCHANGED <<hubVars, setting, handler, timer, off, shown, outbox, forgotten, spent>>

StopReleases ==
    /\ stage = "cancelled"
    /\ stage' = "released"
    /\ Release(Bridge)
    /\ DropOutbox
    /\ UNCHANGED <<setting, last, handler, timer, off, shown, spent>>

\* Timers are stopped and the maps replaced; nothing is published.
StopClears ==
    /\ stage = "released"
    /\ stage' = IF last = Disabled THEN "idle" ELSE "starting"
    /\ timer' = [s \in Sensors |-> NoConn]
    /\ forgotten' = forgotten \cup
            {<<BrokerOf[timer[s].conn.key], s>> : s \in {r \in Sensors : timer[r] # NoConn}}
    /\ UNCHANGED <<hubVars, setting, last, handler, off, shown, outbox, spent>>

Referenced(i) ==
    \/ \E n \in HubConns \cup leaked \cup session \cup wills : n.id = i
    \/ \E c \in Callers : held[c] # NoConn /\ held[c].id = i
    \/ \E s \in Sensors :
        \/ \E h \in handler[s] : h.conn.id = i
        \/ timer[s] # NoConn /\ timer[s].conn.id = i
        \/ \E n \in off[s] : n.id = i

Fresh(k) == {n \in Conn : n.key = k /\ ~Referenced(n.id)}

StartAcquires ==
    /\ stage = "starting"
    /\ Share(Bridge, KeyOf[last]) \/ \E n \in Fresh(KeyOf[last]) : Connect(Bridge, n)
    /\ stage' = "acquired"
    /\ UNCHANGED <<setting, last, handler, timer, off, shown, outbox, forgotten, spent>>

\* Start returns an error, which is logged.
StartFails ==
    /\ stage = "starting"
    /\ \E n \in Fresh(KeyOf[last]) : ConnectTimesOut(Bridge, n)
    /\ Spend("losses", MaxLosses)
    /\ stage' = "idle"
    /\ UNCHANGED <<setting, last, handler, timer, off, shown, outbox, forgotten>>

StartSubscribes ==
    /\ stage = "acquired"
    /\ stage' = "running"
    /\ UNCHANGED <<hubVars, setting, last, handler, timer, off, shown, outbox, forgotten, spent>>

-----------------------------------------------------------------------------
(* The NATS callbacks and the timers *)

\* A message reaches the callback of a subscription, one at a time; a callback
\* of an earlier run may still be in progress.
Receive(s) ==
    /\ stage = "running"
    /\ \A h \in handler[s] : h.conn # held[Bridge]
    /\ handler' = [handler EXCEPT ![s] = @ \cup {[conn |-> held[Bridge], at |-> "begun"]}]
    /\ Spend("messages", MaxMessages)
    /\ UNCHANGED <<hubVars, setting, last, stage, timer, off, shown, outbox, forgotten>>

\* A sensor's timer is replaced by one that publishes on n.
Arm(s, n) == timer' = [timer EXCEPT ![s] = [conn |-> n, fired |-> FALSE]]
TakenOver(s, n) ==
    IF timer[s] # NoConn /\ BrokerOf[timer[s].conn.key] # BrokerOf[n.key]
      THEN {<<BrokerOf[timer[s].conn.key], s>>} ELSE {}

\* setMotion, under the lock: ON is published on the edge only.
SetMotion(h) ==
    /\ h \in handler["motion"]
    /\ Arm("motion", h.conn)
    /\ IF timer["motion"] = NoConn
         THEN Publish(h.conn, "motion", "ON")
         ELSE /\ forgotten' = forgotten \cup TakenOver("motion", h.conn)
              /\ UNCHANGED <<shown, outbox>>
    /\ handler' = [handler EXCEPT !["motion"] = @ \ {h}]
    /\ UNCHANGED <<hubVars, setting, last, stage, off, spent>>

\* onIncident publishes first ...
PublishIncident(h) ==
    /\ h \in handler["incident"]
    /\ h.at = "begun"
    /\ Publish(h.conn, "incident", "ON")
    /\ handler' = [handler EXCEPT !["incident"] = (@ \ {h}) \cup {[h EXCEPT !.at = "published"]}]
    /\ UNCHANGED <<hubVars, setting, last, stage, timer, off, spent>>

\* Faulty variant of ArmIncident: a timer is armed only while the bridge runs.
ArmIncidentWhileRunning(h) ==
    /\ h \in handler["incident"]
    /\ h.at = "published"
    /\ IF stage = "running" THEN Arm("incident", h.conn) ELSE UNCHANGED timer
    /\ forgotten' = forgotten \cup TakenOver("incident", h.conn)
    /\ handler' = [handler EXCEPT !["incident"] = @ \ {h}]
    /\ UNCHANGED <<hubVars, setting, last, stage, off, shown, outbox, spent>>

\* ... and arms the timer under the lock.
ArmIncident(h) ==
    /\ h \in handler["incident"]
    /\ h.at = "published"
    /\ Arm("incident", h.conn)
    /\ forgotten' = forgotten \cup TakenOver("incident", h.conn)
    /\ handler' = [handler EXCEPT !["incident"] = @ \ {h}]
    /\ UNCHANGED <<hubVars, setting, last, stage, off, shown, outbox, spent>>

TimerFires(s) ==
    /\ timer[s] # NoConn
    /\ ~timer[s].fired
    /\ timer' = [timer EXCEPT ![s].fired = TRUE]
    /\ UNCHANGED <<hubVars, setting, last, stage, handler, off, shown, outbox, forgotten, spent>>

\* The callback gets the lock while it is the one in the map.
TimerDeletes(s) ==
    /\ timer[s] # NoConn
    /\ timer[s].fired
    /\ timer' = [timer EXCEPT ![s] = NoConn]
    /\ off' = [off EXCEPT ![s] = @ \cup {timer[s].conn}]
    /\ UNCHANGED <<hubVars, setting, last, stage, handler, shown, outbox, forgotten, spent>>

PublishOff(s, n) ==
    /\ n \in off[s]
    /\ off' = [off EXCEPT ![s] = @ \ {n}]
    /\ Publish(n, s, "OFF")
    /\ UNCHANGED <<hubVars, setting, last, stage, handler, timer, spent>>

-----------------------------------------------------------------------------
(* Deliveries and the network *)

\* sendMQTT: acquire, publish, release.
DeliveryAcquires(d) ==
    /\ \/ Share(d, ChannelKey) /\ UNCHANGED spent
       \/ \E n \in Fresh(ChannelKey) : Connect(d, n) /\ UNCHANGED spent
       \/ \E n \in Fresh(ChannelKey) : ConnectTimesOut(d, n) /\ Spend("losses", MaxLosses)
    /\ UNCHANGED <<setting, last, stage, handler, timer, off, shown, outbox, forgotten>>

DeliveryReleases(d) ==
    /\ Release(d)
    /\ DropOutbox
    /\ UNCHANGED <<setting, last, stage, handler, timer, off, shown, spent>>

NetworkReturns(n) ==
    /\ Reconnects(n)
    /\ Flush(n)
    /\ UNCHANGED <<setting, last, stage, handler, timer, off, spent>>

NetworkFails(n) ==
    /\ ConnectionLost(n)
    /\ Spend("losses", MaxLosses)
    /\ UNCHANGED <<setting, last, stage, handler, timer, off, shown, outbox, forgotten>>

BrokerNotices(n) ==
    /\ WillSent(n)
    /\ UNCHANGED bridgeVars

Next ==
    \/ \E v \in Settings : EditSetting(v)
    \/ Apply \/ StopReleases \/ StopClears
    \/ StartAcquires \/ StartFails \/ StartSubscribes
    \/ \E s \in Sensors :
        \/ Receive(s) \/ TimerFires(s) \/ TimerDeletes(s)
        \/ \E n \in Conn : PublishOff(s, n)
    \/ \E h \in Callback : SetMotion(h) \/ PublishIncident(h) \/ ArmIncident(h)
    \/ \E d \in Deliveries : DeliveryAcquires(d) \/ DeliveryReleases(d)
    \/ \E n \in Conn : NetworkReturns(n) \/ NetworkFails(n) \/ BrokerNotices(n)

Spec == Init /\ [][Next]_vars

-----------------------------------------------------------------------------
(* Properties *)

\* A sensor that a broker shows as ON has a timer, a callback on its way to one
\* or to the OFF, or an OFF waiting for the reconnect, unless the OFF was lost or
\* sent before a waiting ON, or the timer was cancelled by Stop or taken over
\* by a run on another broker.
OnWillClear ==
    \A b \in Brokers, s \in Sensors :
        shown[b][s] = "ON" /\ <<b, s>> \notin forgotten =>
            \/ timer[s] # NoConn
            \/ off[s] # {}
            \/ handler[s] # {}
            \/ s = "incident" /\ \E n \in Conn : BrokerOf[n.key] = b /\ outbox[n] = "OFF"

=============================================================================
