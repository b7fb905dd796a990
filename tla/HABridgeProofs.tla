--------------------------- MODULE HABridgeProofs ---------------------------
(***************************************************************************)
(* For every set of keys, callers and connections, whatever the bridge,    *)
(* the deliveries and the network do: the reference counts of the hub are  *)
(* exact, the availability topics are honest while each broker has one     *)
(* user, and every ON has its OFF coming.                                  *)
(***************************************************************************)
EXTENDS HABridge, FiniteSetTheorems, TLAPS

HubInv == HubTypeOK /\ RefcountExact

\* Sharing adds one holder and one count.
LEMMA ShareKeeps ==
    ASSUME HubInv, NEW c \in Callers, NEW k \in Keys, Share(c, k)
    PROVE  HubInv'
<1> USE HubAssumption
<1>1. entries[k] \in [conn : Conn, refcount : Nat]
  BY DEF HubInv, HubTypeOK, Share
<1>2. HubTypeOK'
  BY <1>1 DEF HubInv, HubTypeOK, Share, Conn
<1>3. ASSUME NEW j \in Keys PROVE EntryExact(j)'
  <2>1. CASE j # k
    <3>1. entries'[j] = entries[j]
      BY <2>1 DEF HubInv, HubTypeOK, Share
    <3>2. entries[k].conn.key = k
      BY DEF HubInv, RefcountExact, EntryExact, Share
    <3>3. Holders(j)' = Holders(j)
      BY <2>1, <3>2 DEF HubInv, HubTypeOK, Share, Holders
    <3>4. \A d \in Holders(j) : held'[d] = held[d]
      BY DEF HubInv, HubTypeOK, Share, Holders
    <3> QED
      BY <3>1, <3>3, <3>4 DEF HubInv, RefcountExact, EntryExact
  <2>2. CASE j = k
    <3>1. /\ entries[k].refcount = Cardinality(Holders(k))
          /\ entries[k].conn.key = k
          /\ \A d \in Holders(k) : held[d] = entries[k].conn
      BY DEF HubInv, RefcountExact, EntryExact, Share
    <3>2. /\ entries'[k].refcount = entries[k].refcount + 1
          /\ entries'[k].conn = entries[k].conn
          /\ entries'[k] # NoConn
      BY <1>1, <1>2 DEF HubInv, HubTypeOK, Share
    <3>3. entries[k].conn \in Conn /\ entries[k].conn # NoConn
      BY <1>1
    <3>4. Holders(k)' = Holders(k) \cup {c} /\ c \notin Holders(k)
      BY <3>1, <3>3 DEF HubInv, HubTypeOK, Share, Holders
    <3>5. IsFiniteSet(Holders(k))
      BY FS_Subset DEF Holders
    <3>6. Cardinality(Holders(k)') = Cardinality(Holders(k)) + 1
      BY <3>4, <3>5, FS_AddElement
    <3>7. \A d \in Holders(k)' : held'[d] = entries[k].conn
      BY <3>1, <3>4 DEF HubInv, HubTypeOK, Share, Holders
    <3>8. entries[k].refcount \in Nat
      BY <1>1
    <3> QED
      BY <2>2, <3>1, <3>2, <3>6, <3>7, <3>8 DEF EntryExact
  <2> QED
    BY <2>1, <2>2
<1> QED
  BY <1>2, <1>3 DEF HubInv, RefcountExact

\* A new connection has one holder.
LEMMA ConnectKeeps ==
    ASSUME HubInv, NEW c \in Callers, NEW n \in Conn, Connect(c, n)
    PROVE  HubInv'
<1> USE HubAssumption
<1> DEFINE k == n.key
<1>1. k \in Keys /\ n # NoConn /\ BrokerOf[k] \in Brokers
  BY DEF Conn, Brokers
<1>2. HubTypeOK'
  BY <1>1 DEF HubInv, HubTypeOK, Connect, SaysOnline, Says
<1>3. ASSUME NEW j \in Keys PROVE EntryExact(j)'
  <2>1. CASE j # k
    <3>1. entries'[j] = entries[j]
      BY <2>1 DEF HubInv, HubTypeOK, Connect
    <3>2. Holders(j)' = Holders(j)
      BY <2>1, <1>1 DEF HubInv, HubTypeOK, Connect, Holders
    <3>3. \A d \in Holders(j) : held'[d] = held[d]
      BY DEF HubInv, HubTypeOK, Connect, Holders
    <3> QED
      BY <3>1, <3>2, <3>3 DEF HubInv, RefcountExact, EntryExact
  <2>2. CASE j = k
    <3>1. Holders(k) = {}
      BY <1>1 DEF HubInv, RefcountExact, EntryExact, Connect
    <3>2. Holders(k)' = {c} /\ held'[c] = n
      BY <3>1, <1>1 DEF HubInv, HubTypeOK, Connect, Holders
    <3>3. entries'[k] = [conn |-> n, refcount |-> 1]
      BY <1>1 DEF HubInv, HubTypeOK, Connect
    <3>4. Cardinality(Holders(k)') = 1
      BY <3>2, FS_Singleton
    <3>5. entries'[k] # NoConn
      BY <3>3
    <3>6. entries'[k].refcount = 1 /\ entries'[k].conn = n
      BY <3>3
    <3> QED
      BY <2>2, <3>2, <3>4, <3>5, <3>6 DEF EntryExact
  <2> QED
    BY <2>1, <2>2
<1> QED
  BY <1>2, <1>3 DEF HubInv, RefcountExact

\* A release takes its own count away, and the entry with the last one.
LEMMA ReleaseKeeps ==
    ASSUME HubInv, NEW c \in Callers, Release(c)
    PROVE  HubInv'
<1> USE HubAssumption
<1>0. PICK k \in Keys : k = held[c].key
  BY DEF HubInv, HubTypeOK, Release, Conn
<1>1. held[c] \in Conn /\ c \in Holders(k)
  BY <1>0 DEF HubInv, HubTypeOK, Release, Holders
<1>2. /\ entries[k] # NoConn
      /\ entries[k].refcount = Cardinality(Holders(k))
      /\ entries[k].conn.key = k
      /\ \A d \in Holders(k) : held[d] = entries[k].conn
  BY <1>1 DEF HubInv, RefcountExact, EntryExact
<1>3. entries[k] \in [conn : Conn, refcount : Nat]
  BY <1>1, <1>2 DEF HubInv, HubTypeOK
<1>4. BrokerOf[k] \in Brokers
  BY <1>1 DEF Brokers
<1>5. held' = [held EXCEPT ![c] = NoConn]
  BY DEF Release
<1>6. IsFiniteSet(Holders(k))
  BY FS_Subset DEF Holders
<1>7. Holders(k)' = Holders(k) \ {c}
  BY <1>1, <1>5 DEF HubInv, HubTypeOK, Holders
<1>8. Cardinality(Holders(k)') = Cardinality(Holders(k)) - 1
  BY <1>1, <1>6, <1>7, FS_RemoveElement
<1>9. entries[k].refcount \in Nat /\ entries[k].conn \in Conn
  BY <1>3
<1>10. \A j \in Keys : j # k => Holders(j)' = Holders(j)
  BY <1>1, <1>5 DEF HubInv, HubTypeOK, Holders
<1>11. \A j \in Keys : \A d \in Holders(j)' : held'[d] = held[d]
  BY <1>5 DEF HubInv, HubTypeOK, Holders
<1>12. CASE entries[k].refcount > 1
  <2> DEFINE e == [entries[k] EXCEPT !.refcount = @ - 1]
  <2>1. entries' = [entries EXCEPT ![k] = e] /\ UNCHANGED <<session, wills, status, leaked, stale>>
    BY <1>0, <1>12 DEF Release
  <2>2. e \in [conn : Conn, refcount : Nat] /\ e.conn = entries[k].conn /\ e.refcount = entries[k].refcount - 1
    BY <1>3, <1>12
  <2>3. e # NoConn
    BY <2>2
  <2> HIDE DEF e
  <2>4. HubTypeOK'
    BY <1>5, <2>1, <2>2 DEF HubInv, HubTypeOK
  <2>5. ASSUME NEW j \in Keys PROVE EntryExact(j)'
    <3>1. CASE j # k
      <4>1. entries'[j] = entries[j]
        BY <2>1, <3>1 DEF HubInv, HubTypeOK
      <4> QED
        BY <3>1, <4>1, <1>10, <1>11 DEF HubInv, RefcountExact, EntryExact
    <3>2. CASE j = k
      <4>1. entries'[k] = e
        BY <1>1, <2>1 DEF HubInv, HubTypeOK
      <4>2. \A d \in Holders(k)' : held'[d] = e.conn
        BY <1>1, <1>2, <1>7, <1>11, <2>2
      <4> QED
        BY <3>2, <4>1, <4>2, <1>2, <1>8, <1>9, <1>12, <2>2, <2>3 DEF EntryExact
    <3> QED
      BY <3>1, <3>2
  <2> QED
    BY <2>4, <2>5 DEF HubInv, RefcountExact
<1>13. CASE ~(entries[k].refcount > 1)
  <2>1. /\ entries' = [entries EXCEPT ![k] = NoConn]
        /\ session' = session \ {entries[k].conn}
        /\ status' = IF entries[k].conn \in session THEN Says(entries[k].conn, "offline") ELSE status
        /\ UNCHANGED <<leaked, wills, stale>>
    BY <1>0, <1>13 DEF Release
  <2>2. HubTypeOK'
    BY <1>2, <1>4, <1>5, <2>1 DEF HubInv, HubTypeOK, Says
  <2>3. Holders(k)' = {}
    <3>1. Cardinality(Holders(k)) \in Nat /\ Cardinality(Holders(k)') \in Nat
      BY <1>6, <1>7, FS_CardinalityType, FS_Subset
    <3>2. Cardinality(Holders(k)') = 0
      BY <1>2, <1>8, <1>9, <1>13, <3>1
    <3> QED
      BY <1>6, <1>7, <3>2, FS_EmptySet, FS_Subset
  <2>4. ASSUME NEW j \in Keys PROVE EntryExact(j)'
    <3>1. CASE j # k
      <4>1. entries'[j] = entries[j]
        BY <2>1, <3>1 DEF HubInv, HubTypeOK
      <4> QED
        BY <3>1, <4>1, <1>10, <1>11 DEF HubInv, RefcountExact, EntryExact
    <3>2. CASE j = k
      <4>1. entries'[k] = NoConn
        BY <1>1, <2>1 DEF HubInv, HubTypeOK
      <4> QED
        BY <3>2, <4>1, <2>3 DEF EntryExact
    <3> QED
      BY <3>1, <3>2
  <2> QED
    BY <2>2, <2>4 DEF HubInv, RefcountExact
<1> QED
  BY <1>12, <1>13

\* Whatever leaves the entries and their holders alone keeps the counts.
LEMMA NetworkKeeps ==
    ASSUME HubInv, HubTypeOK', UNCHANGED <<entries, held>>
    PROVE  HubInv'
BY DEF HubInv, RefcountExact, EntryExact, Holders

\* A step of the hub alone: a lost, a regained or a given up connection.
LEMMA ConnKeeps ==
    ASSUME HubInv, NEW n \in Conn,
           \/ \E c \in Callers : ConnectTimesOut(c, n)
           \/ Reconnects(n)
           \/ ConnectionLost(n)
           \/ WillSent(n)
    PROVE  HubInv'
<1>1. BrokerOf[n.key] \in Brokers
  BY HubAssumption DEF Conn, Brokers
<1>2. HubTypeOK' /\ UNCHANGED <<entries, held>>
  BY <1>1 DEF HubInv, HubTypeOK, ConnectTimesOut, Reconnects, ConnectionLost, WillSent, SaysOnline, Says
<1> QED
  BY <1>2, NetworkKeeps

-----------------------------------------------------------------------------

\* What the watcher applied last names a connection whenever Start acquires.
StartsOnKey ==
    /\ setting \in Settings
    /\ last \in Settings
    /\ stage = "starting" => last \in Configs

RefcountInv == HubInv /\ StartsOnKey

LEMMA RefcountInvInit == Init => RefcountInv
<1> SUFFICES ASSUME Init PROVE RefcountInv
  OBVIOUS
<1> USE HubAssumption
<1>1. \A k \in Keys : Holders(k) = {} /\ entries[k] = NoConn
  BY DEF Init, HubInit, Holders
<1>2. HubTypeOK
  BY DEF Init, HubInit, HubTypeOK
<1>3. StartsOnKey
  BY DEF Init, StartsOnKey, Settings
<1> QED
  BY <1>1, <1>2, <1>3 DEF RefcountInv, HubInv, RefcountExact, EntryExact

LEMMA StartsOnKeyStep == StartsOnKey /\ [Next]_vars => StartsOnKey'
<1> SUFFICES ASSUME StartsOnKey, [Next]_vars PROVE StartsOnKey'
  OBVIOUS
<1>1. CASE \E v \in Settings : EditSetting(v)
  BY <1>1 DEF StartsOnKey, EditSetting
<1>2. CASE Apply
  BY <1>2 DEF StartsOnKey, Apply, Settings
<1>3. CASE StopClears
  BY <1>3 DEF StartsOnKey, StopClears, Settings
<1>4. CASE ~(\E v \in Settings : EditSetting(v)) /\ ~Apply /\ ~StopClears
  <2>1. UNCHANGED <<setting, last>> /\ (stage' = stage \/ stage' \in {"idle", "acquired", "running", "released"})
    BY <1>4 DEF Next, vars, bridgeVars, StopReleases, StartAcquires, StartFails, StartSubscribes,
        Receive, TimerFires, TimerDeletes, PublishOff, SetMotion, PublishIncident, ArmIncident,
        DeliveryAcquires, DeliveryReleases, NetworkReturns, NetworkFails, BrokerNotices
  <2> QED
    BY <2>1 DEF StartsOnKey
<1> QED
  BY <1>1, <1>2, <1>3, <1>4

\* Every step either leaves the hub alone or is one of its operations.
LEMMA HubInvStep == RefcountInv /\ [Next]_vars => HubInv'
<1> SUFFICES ASSUME HubInv, StartsOnKey, [Next]_vars PROVE HubInv'
  BY DEF RefcountInv
<1> USE BridgeAssumption
<1>1. CASE UNCHANGED hubVars
  BY <1>1, NetworkKeeps DEF hubVars, HubInv, HubTypeOK
<1>2. CASE StopReleases
  BY <1>2, ReleaseKeeps DEF StopReleases
<1>3. CASE StartAcquires
  <2>1. last \in Configs /\ KeyOf[last] \in Keys
    BY <1>3 DEF StartAcquires, StartsOnKey
  <2>2. CASE Share(Bridge, KeyOf[last])
    BY <2>1, <2>2, ShareKeeps
  <2>3. CASE \E n \in Fresh(KeyOf[last]) : Connect(Bridge, n)
    BY <2>3, ConnectKeeps DEF Fresh
  <2> QED
    BY <1>3, <2>2, <2>3 DEF StartAcquires
<1>4. CASE StartFails
  BY <1>4, ConnKeeps DEF StartFails, Fresh
<1>5. ASSUME NEW d \in Deliveries, DeliveryAcquires(d) PROVE HubInv'
  <2>1. CASE Share(d, ChannelKey)
    BY <2>1, ShareKeeps
  <2>2. CASE \E n \in Fresh(ChannelKey) : Connect(d, n)
    BY <2>2, ConnectKeeps DEF Fresh
  <2>3. CASE \E n \in Fresh(ChannelKey) : ConnectTimesOut(d, n)
    BY <2>3, ConnKeeps DEF Fresh
  <2> QED
    BY <1>5, <2>1, <2>2, <2>3 DEF DeliveryAcquires
<1>6. ASSUME NEW d \in Deliveries, DeliveryReleases(d) PROVE HubInv'
  BY <1>6, ReleaseKeeps DEF DeliveryReleases
<1>7. ASSUME NEW n \in Conn, NetworkReturns(n) \/ NetworkFails(n) \/ BrokerNotices(n) PROVE HubInv'
  BY <1>7, ConnKeeps DEF NetworkReturns, NetworkFails, BrokerNotices
<1>8. \/ UNCHANGED hubVars \/ StopReleases \/ StartAcquires \/ StartFails
      \/ \E d \in Deliveries : DeliveryAcquires(d) \/ DeliveryReleases(d)
      \/ \E n \in Conn : NetworkReturns(n) \/ NetworkFails(n) \/ BrokerNotices(n)
  BY DEF Next, vars, EditSetting, Apply, StopClears, StartSubscribes, Receive, TimerFires,
         TimerDeletes, PublishOff, SetMotion, PublishIncident, ArmIncident
<1> QED
  BY <1>1, <1>2, <1>3, <1>4, <1>5, <1>6, <1>7, <1>8

\* For every number of deliveries, keys and connections: an entry of the hub
\* counts exactly the callers that hold its connection.
THEOREM CountsAreExact == Spec => []RefcountExact
<1>1. RefcountInv /\ [Next]_vars => RefcountInv'
  BY HubInvStep, StartsOnKeyStep DEF RefcountInv
<1>2. RefcountInv => RefcountExact
  BY DEF RefcountInv, HubInv
<1> QED
  BY RefcountInvInit, <1>1, <1>2, PTL DEF Spec

(***************************************************************************)
(* Types.  The bridge holds a connection exactly while its stage says so,  *)
(* and a callback gets that connection.                                    *)
(***************************************************************************)
BridgeOK ==
    /\ setting \in Settings /\ last \in Settings
    /\ stage \in {"idle", "starting", "acquired", "running", "cancelled", "released"}
    /\ stage \in {"acquired", "running", "cancelled"} <=> held[Bridge] # NoConn
    /\ stage \in {"starting", "acquired", "running"} => last # Disabled

UsersOK ==
    /\ handler \in [Sensors -> SUBSET Callback]
    /\ timer \in [Sensors -> Timer \cup {NoConn}]
    /\ off \in [Sensors -> SUBSET Conn]

BrokersOK ==
    /\ shown \in [Brokers -> [Sensors -> Payload]]
    /\ outbox \in [Conn -> Payload]
    /\ forgotten \subseteq Brokers \X Sensors

SpentOK == spent \in [{"edits", "messages", "losses"} -> Nat]

BridgeInv == HubInv /\ BridgeOK /\ UsersOK /\ BrokersOK /\ SpentOK

LEMMA TypeParts == BridgeInv => TypeOK
BY DEF BridgeInv, HubInv, BridgeOK, UsersOK, BrokersOK, SpentOK, TypeOK

LEMMA Brokered == \A n \in Conn : n.key \in Keys /\ BrokerOf[n.key] \in Brokers /\ n # NoConn
BY HubAssumption DEF Conn, Brokers

LEMMA Payloads == "unset" \in Payload /\ "ON" \in Payload /\ "OFF" \in Payload
BY DEF Payload

LEMMA BridgeInit == Init => BridgeInv
<1>. SUFFICES ASSUME Init PROVE BridgeInv
  OBVIOUS
<1>1. HubInv
  BY RefcountInvInit DEF RefcountInv
<1>2. BridgeOK
  BY BridgeAssumption DEF Init, HubInit, BridgeOK, Settings
<1>3. UsersOK /\ BrokersOK /\ SpentOK
  BY DEF Init, UsersOK, BrokersOK, SpentOK, Payload
<1>. QED
  BY <1>1, <1>2, <1>3 DEF BridgeInv

LEMMA PublishTypes ==
    ASSUME BrokersOK, NEW n \in Conn, NEW s \in Sensors, NEW v \in Payload, Publish(n, s, v)
    PROVE  BrokersOK'
<1>. DEFINE b == BrokerOf[n.key]
<1>1. b \in Brokers
  BY Brokered
<1>2. CASE n \in session
  <2>1. /\ shown' = [shown EXCEPT ![b][s] = v] /\ outbox' = outbox
        /\ forgotten' = forgotten \ {<<b, s>>} \/ forgotten' = forgotten \cup {<<b, s>>}
    BY <1>2 DEF Publish
  <2>2. shown' \in [Brokers -> [Sensors -> Payload]]
    BY <1>1, <2>1 DEF BrokersOK
  <2>. QED
    BY <1>1, <2>1, <2>2 DEF BrokersOK
<1>3. CASE n \notin session
  <2>1. /\ shown' = shown
        /\ outbox' = [outbox EXCEPT ![n] = v] \/ outbox' = outbox
        /\ forgotten' = forgotten \cup {<<b, s>>} \/ forgotten' = forgotten
    BY <1>3 DEF Publish
  <2>2. outbox' \in [Conn -> Payload]
    BY <2>1 DEF BrokersOK
  <2>3. forgotten' \subseteq Brokers \X Sensors
    BY <1>1, <2>1 DEF BrokersOK
  <2>. QED
    BY <2>1, <2>2, <2>3 DEF BrokersOK
<1>. QED
  BY <1>2, <1>3

LEMMA DropTypes == ASSUME BrokersOK, DropOutbox, UNCHANGED shown PROVE BrokersOK'
<1>1. "incident" \in Sensors /\ "unset" \in Payload
  BY DEF Sensors, Payload
<1>2. outbox' \in [Conn -> Payload]
  BY <1>1 DEF DropOutbox, BrokersOK
<1>3. forgotten' \subseteq Brokers \X Sensors
  BY <1>1, Brokered DEF DropOutbox, BrokersOK
<1>. QED
  BY <1>2, <1>3 DEF BrokersOK

LEMMA SpendTypes ==
    ASSUME SpentOK, NEW w \in {"edits", "messages", "losses"}, NEW b, Spend(w, b)
    PROVE  SpentOK'
BY DEF SpentOK, Spend

\* What the callers other than the bridge do leaves the bridge's hold alone.
LEMMA HoldsKept ==
    ASSUME HubInv, NEW d \in Deliveries, NEW n, NEW k,
           Share(d, k) \/ Connect(d, n) \/ ConnectTimesOut(d, n) \/ Release(d)
    PROVE  held'[Bridge] = held[Bridge]
BY BridgeAssumption DEF HubInv, HubTypeOK, Share, Connect, ConnectTimesOut, Release

\* The stage of the bridge and what it holds.
LEMMA BridgeOKStep == BridgeInv /\ HubInv' /\ [Next]_vars => BridgeOK'
<1>. SUFFICES ASSUME BridgeInv, HubInv', [Next]_vars PROVE BridgeOK'
  OBVIOUS
<1>. USE BridgeAssumption DEF BridgeInv
<1>0. Bridge \in Callers /\ held \in [Callers -> Conn \cup {NoConn}] /\ held' \in [Callers -> Conn \cup {NoConn}]
  BY DEF HubInv, HubTypeOK
<1>1. ASSUME UNCHANGED <<setting, last, stage>>, held'[Bridge] = held[Bridge]
      PROVE  BridgeOK'
  BY <1>1 DEF BridgeOK
<1>2. CASE UNCHANGED vars
  BY <1>1, <1>2 DEF vars, hubVars, bridgeVars
<1>3. CASE \E v \in Settings : EditSetting(v)
  BY <1>3 DEF EditSetting, BridgeOK, hubVars
<1>4. CASE Apply
  BY <1>4 DEF Apply, BridgeOK, hubVars
<1>5. CASE StopReleases
  BY <1>0, <1>5 DEF StopReleases, Release, BridgeOK
<1>6. CASE StopClears
  BY <1>6 DEF StopClears, BridgeOK, hubVars
<1>7. CASE StartAcquires
  <2>1. last \in Configs /\ KeyOf[last] \in Keys
    BY <1>7 DEF StartAcquires, BridgeOK, Settings
  <2>2. held'[Bridge] \in Conn
    BY <1>0, <1>7, <2>1 DEF StartAcquires, Share, Connect, Fresh, HubInv, HubTypeOK
  <2>. QED
    BY <1>7, <2>2, Brokered DEF StartAcquires, BridgeOK
<1>8. CASE StartFails
  BY <1>8 DEF StartFails, ConnectTimesOut, BridgeOK
<1>9. CASE StartSubscribes
  BY <1>9 DEF StartSubscribes, BridgeOK, hubVars
<1>10. CASE \E s \in Sensors : Receive(s) \/ TimerFires(s) \/ TimerDeletes(s) \/ \E n \in Conn : PublishOff(s, n)
  BY <1>1, <1>10 DEF Receive, TimerFires, TimerDeletes, PublishOff, hubVars
<1>11. CASE \E h \in Callback : SetMotion(h) \/ PublishIncident(h) \/ ArmIncident(h)
  BY <1>1, <1>11 DEF SetMotion, PublishIncident, ArmIncident, hubVars
<1>12. CASE \E d \in Deliveries : DeliveryAcquires(d) \/ DeliveryReleases(d)
  BY <1>1, <1>12, HoldsKept DEF DeliveryAcquires, DeliveryReleases
<1>13. CASE \E n \in Conn : NetworkReturns(n) \/ NetworkFails(n) \/ BrokerNotices(n)
  BY <1>1, <1>13 DEF NetworkReturns, NetworkFails, BrokerNotices, Reconnects, ConnectionLost,
         WillSent, bridgeVars
<1>. QED
  BY <1>2, <1>3, <1>4, <1>5, <1>6, <1>7, <1>8, <1>9, <1>10, <1>11, <1>12, <1>13 DEF Next

\* Callbacks, timers and the connections they are to publish on.
LEMMA UsersOKStep == BridgeInv /\ [Next]_vars => UsersOK'
<1>. SUFFICES ASSUME BridgeInv, [Next]_vars PROVE UsersOK'
  OBVIOUS
<1>. USE DEF BridgeInv
<1>1. CASE UNCHANGED <<handler, timer, off>>
  BY <1>1 DEF UsersOK
<1>2. CASE StopClears
  BY <1>2 DEF StopClears, UsersOK
<1>3. ASSUME NEW s \in Sensors, Receive(s) PROVE UsersOK'
  <2>1. held[Bridge] \in Conn
    BY <1>3, BridgeAssumption DEF Receive, BridgeOK, HubInv, HubTypeOK
  <2>. QED
    BY <1>3, <2>1 DEF Receive, UsersOK, Callback
<1>4. ASSUME NEW s \in Sensors, TimerFires(s) PROVE UsersOK'
  <2>1. timer[s] \in Timer
    BY <1>4 DEF TimerFires, UsersOK
  <2>. QED
    BY <1>4, <2>1 DEF TimerFires, UsersOK, Timer
<1>5. ASSUME NEW s \in Sensors, TimerDeletes(s) PROVE UsersOK'
  <2>1. timer[s].conn \in Conn
    BY <1>5 DEF TimerDeletes, UsersOK, Timer
  <2>. QED
    BY <1>5, <2>1 DEF TimerDeletes, UsersOK
<1>6. ASSUME NEW s \in Sensors, NEW n \in Conn, PublishOff(s, n) PROVE UsersOK'
  BY <1>6 DEF PublishOff, UsersOK
<1>7. ASSUME NEW h \in Callback, SetMotion(h) \/ PublishIncident(h) \/ ArmIncident(h) PROVE UsersOK'
  <2>1. h.conn \in Conn /\ [conn |-> h.conn, fired |-> FALSE] \in Timer
        /\ [h EXCEPT !.at = "published"] \in Callback
    BY DEF Callback, Timer
  <2>2. CASE SetMotion(h)
    BY <2>1, <2>2 DEF SetMotion, Arm, UsersOK, Sensors
  <2>3. CASE PublishIncident(h)
    BY <2>1, <2>3 DEF PublishIncident, UsersOK, Sensors
  <2>4. CASE ArmIncident(h)
    BY <2>1, <2>4 DEF ArmIncident, Arm, UsersOK, Sensors
  <2>. QED
    BY <1>7, <2>2, <2>3, <2>4
<1>8. \/ UNCHANGED <<handler, timer, off>> \/ StopClears
      \/ \E s \in Sensors : Receive(s) \/ TimerFires(s) \/ TimerDeletes(s) \/ \E n \in Conn : PublishOff(s, n)
      \/ \E h \in Callback : SetMotion(h) \/ PublishIncident(h) \/ ArmIncident(h)
  BY DEF Next, vars, bridgeVars, EditSetting, Apply, StopReleases, StartAcquires, StartFails,
         StartSubscribes, DeliveryAcquires, DeliveryReleases, NetworkReturns, NetworkFails, BrokerNotices
<1>. QED
  BY <1>1, <1>2, <1>3, <1>4, <1>5, <1>6, <1>7, <1>8

\* What the brokers show, what waits, and what was forgotten.
LEMMA BrokersOKStep == BridgeInv /\ [Next]_vars => BrokersOK'
<1>. SUFFICES ASSUME BridgeInv, [Next]_vars PROVE BrokersOK'
  OBVIOUS
<1>. USE DEF BridgeInv
<1>0. "motion" \in Sensors /\ "incident" \in Sensors
  BY DEF Sensors
<1>1. CASE UNCHANGED <<shown, outbox, forgotten>>
  BY <1>1 DEF BrokersOK
<1>2. CASE StopReleases
  BY <1>2, DropTypes DEF StopReleases
<1>3. CASE StopClears
  <2>1. \A s \in Sensors : timer[s] # NoConn => timer[s].conn \in Conn
    BY DEF UsersOK, Timer
  <2>. QED
    BY <1>3, <2>1, Brokered DEF StopClears, BrokersOK
<1>4. ASSUME NEW s \in Sensors, NEW n \in Conn, PublishOff(s, n) PROVE BrokersOK'
  BY <1>4, PublishTypes, Payloads DEF PublishOff
<1>5. ASSUME NEW h \in Callback, SetMotion(h) \/ PublishIncident(h) \/ ArmIncident(h) PROVE BrokersOK'
  <2>1. h.conn \in Conn
    BY DEF Callback
  <2>2. ASSUME NEW s \in Sensors PROVE TakenOver(s, h.conn) \subseteq Brokers \X Sensors
    <3>1. timer[s] # NoConn => timer[s].conn \in Conn
      BY DEF UsersOK, Timer
    <3>. QED
      BY <3>1, Brokered DEF TakenOver
  <2>3. CASE SetMotion(h)
    <3>1. CASE timer["motion"] = NoConn
      BY <1>0, <2>1, <2>3, <3>1, PublishTypes, Payloads DEF SetMotion
    <3>2. CASE timer["motion"] # NoConn
      BY <1>0, <2>2, <2>3, <3>2 DEF SetMotion, BrokersOK
    <3>. QED
      BY <3>1, <3>2
  <2>4. CASE PublishIncident(h)
    BY <1>0, <2>1, <2>4, PublishTypes, Payloads DEF PublishIncident
  <2>5. CASE ArmIncident(h)
    BY <1>0, <2>2, <2>5 DEF ArmIncident, BrokersOK
  <2>. QED
    BY <1>5, <2>3, <2>4, <2>5
<1>6. ASSUME NEW d \in Deliveries, DeliveryReleases(d) PROVE BrokersOK'
  BY <1>6, DropTypes DEF DeliveryReleases
<1>7. ASSUME NEW n \in Conn, NetworkReturns(n) PROVE BrokersOK'
  <2>1. outbox[n] \in Payload /\ "unset" \in Payload /\ BrokerOf[n.key] \in Brokers
    BY Brokered, Payloads DEF BrokersOK
  <2>2. shown' \in [Brokers -> [Sensors -> Payload]]
    BY <1>0, <1>7, <2>1 DEF NetworkReturns, Flush, BrokersOK
  <2>. QED
    BY <1>0, <1>7, <2>1, <2>2 DEF NetworkReturns, Flush, BrokersOK
<1>8. \/ UNCHANGED <<shown, outbox, forgotten>> \/ StopReleases \/ StopClears
      \/ \E s \in Sensors : \E n \in Conn : PublishOff(s, n)
      \/ \E h \in Callback : SetMotion(h) \/ PublishIncident(h) \/ ArmIncident(h)
      \/ \E d \in Deliveries : DeliveryReleases(d)
      \/ \E n \in Conn : NetworkReturns(n)
  BY DEF Next, vars, bridgeVars, EditSetting, Apply, StartAcquires, StartFails, StartSubscribes,
         Receive, TimerFires, TimerDeletes, DeliveryAcquires, NetworkFails, BrokerNotices
<1>. QED
  BY <1>1, <1>2, <1>3, <1>4, <1>5, <1>6, <1>7, <1>8

LEMMA SpentOKStep == BridgeInv /\ [Next]_vars => SpentOK'
<1>. SUFFICES ASSUME BridgeInv, [Next]_vars PROVE SpentOK'
  OBVIOUS
<1>1. \/ UNCHANGED spent
      \/ Spend("edits", MaxEdits) \/ Spend("messages", MaxMessages) \/ Spend("losses", MaxLosses)
  BY DEF Next, vars, bridgeVars, EditSetting, Apply, StopReleases, StopClears, StartAcquires, StartFails,
         StartSubscribes, Receive, TimerFires, TimerDeletes, PublishOff, SetMotion, PublishIncident,
         ArmIncident, DeliveryAcquires, DeliveryReleases, NetworkReturns, NetworkFails, BrokerNotices
<1>. QED
  BY <1>1, SpendTypes DEF BridgeInv, SpentOK

LEMMA BridgeStep == BridgeInv /\ [Next]_vars => BridgeInv'
<1>. SUFFICES ASSUME BridgeInv, [Next]_vars PROVE BridgeInv'
  OBVIOUS
<1>1. RefcountInv
  BY DEF BridgeInv, BridgeOK, RefcountInv, StartsOnKey, Settings
<1>2. HubInv'
  BY <1>1, HubInvStep
<1>. QED
  BY <1>2, BridgeOKStep, UsersOKStep, BrokersOKStep, SpentOKStep DEF BridgeInv

\* The types of the hub and the bridge: what the stage says of the connection
\* the bridge holds is true.
THEOREM BridgeTypeCorrect == Spec => []TypeOK
  BY BridgeInit, BridgeStep, TypeParts, PTL DEF Spec

(***************************************************************************)
(* Where connections are.  The hub and the brokers change in one of five   *)
(* ways in a step, and a connection that Acquire gave up is never used.    *)
(***************************************************************************)
HubSame == HubConns' = HubConns /\ UNCHANGED <<session, wills, leaked, status, stale>>

Opens(n) ==
    /\ ~Referenced(n.id)
    /\ HubConns' = HubConns \cup {n}
    /\ session' = session \cup {n}
    /\ SaysOnline(n)
    /\ UNCHANGED <<leaked, wills>>

Closes(n) ==
    /\ n \in HubConns
    /\ HubConns' = HubConns \ {n}
    /\ session' = session \ {n}
    /\ status' = IF n \in session THEN Says(n, "offline") ELSE status
    /\ UNCHANGED <<leaked, wills, stale>>

GivesUp(n) ==
    /\ ~Referenced(n.id)
    /\ HubConns' = HubConns
    /\ leaked' = leaked \cup {n}
    /\ UNCHANGED <<session, wills, status, stale>>

Wavers(n) == HubConns' = HubConns /\ (Reconnects(n) \/ ConnectionLost(n) \/ WillSent(n))

Moves == HubSame \/ \E n \in Conn : Opens(n) \/ Closes(n) \/ GivesUp(n) \/ Wavers(n)

Uses(n) ==
    \E s \in Sensors :
        \/ \E h \in handler[s] : h.conn = n
        \/ timer[s] # NoConn /\ timer[s].conn = n
        \/ n \in off[s]

Placed ==
    /\ session \subseteq HubConns \cup leaked
    /\ HubConns \cap leaked = {}
    /\ wills \cap session = {}
    /\ \A n \in Conn : Uses(n) => n \notin leaked

LEMMA ConnsSame ==
    ASSUME \A j \in Keys : /\ entries'[j] = NoConn <=> entries[j] = NoConn
                           /\ entries[j] # NoConn => entries'[j].conn = entries[j].conn
    PROVE  HubConns' = HubConns
<1>1. ASSUME NEW n PROVE n \in HubConns <=> \E j \in Keys : entries[j] # NoConn /\ n = entries[j].conn
  BY DEF HubConns
<1>2. ASSUME NEW n PROVE n \in HubConns' <=> \E j \in Keys : entries'[j] # NoConn /\ n = entries'[j].conn
  BY DEF HubConns
<1>3. ASSUME NEW n, n \in HubConns PROVE n \in HubConns'
  <2>1. PICK j \in Keys : entries[j] # NoConn /\ n = entries[j].conn
    BY <1>1, <1>3
  <2>2. entries'[j] # NoConn /\ n = entries'[j].conn
    BY <2>1
  <2>. QED
    BY <1>2, <2>2
<1>4. ASSUME NEW n, n \in HubConns' PROVE n \in HubConns
  <2>1. PICK j \in Keys : entries'[j] # NoConn /\ n = entries'[j].conn
    BY <1>2, <1>4
  <2>2. entries[j] # NoConn /\ n = entries[j].conn
    BY <2>1
  <2>. QED
    BY <1>1, <2>2
<1>. QED
  BY <1>3, <1>4

LEMMA EntriesSame == UNCHANGED entries => HubConns' = HubConns
BY DEF HubConns

\* Every connection of the hub is of the key it is entered under.
LEMMA KeyOfConn ==
    ASSUME HubInv, NEW n \in HubConns
    PROVE  n \in Conn /\ n.key \in Keys /\ entries[n.key] # NoConn /\ entries[n.key].conn = n
<1>1. PICK k \in Keys : entries[k] # NoConn /\ n = entries[k].conn
  BY DEF HubConns
<1>2. n.key = k
  BY <1>1 DEF HubInv, RefcountExact, EntryExact
<1>3. entries[k] \in [conn : Conn, refcount : Nat]
  BY <1>1 DEF HubInv, HubTypeOK
<1>. QED
  BY <1>1, <1>2, <1>3

LEMMA FreshIsNew ==
    ASSUME NEW n \in Conn, ~Referenced(n.id)
    PROVE  n \notin HubConns /\ n \notin leaked /\ n \notin session /\ n \notin wills /\ ~Uses(n)
BY DEF Referenced, Uses

LEMMA ShareMoves == ASSUME HubInv, NEW c \in Callers, NEW k \in Keys, Share(c, k) PROVE HubSame
<1>1. entries[k] \in [conn : Conn, refcount : Nat]
  BY DEF HubInv, HubTypeOK, Share
<1>. DEFINE e == [entries[k] EXCEPT !.refcount = @ + 1]
<1>2. e \in [conn : Conn, refcount : Nat] /\ e.conn = entries[k].conn
  BY <1>1
<1>3. e # NoConn
  BY <1>2, HubAssumption
<1>4. entries' = [entries EXCEPT ![k] = e]
  BY DEF Share
<1>. HIDE DEF e
<1>5. \A j \in Keys : /\ entries'[j] = NoConn <=> entries[j] = NoConn
                      /\ entries[j] # NoConn => entries'[j].conn = entries[j].conn
  BY <1>2, <1>3, <1>4 DEF HubInv, HubTypeOK, Share
<1>6. HubConns' = HubConns
  BY <1>5, ConnsSame
<1>. QED
  BY <1>6 DEF Share, HubSame

LEMMA ConnectMoves ==
    ASSUME HubInv, NEW c \in Callers, NEW k \in Keys, NEW n \in Fresh(k), Connect(c, n)
    PROVE  n \in Conn /\ Opens(n)
<1>1. n \in Conn /\ ~Referenced(n.id) /\ n.key \in Keys
  BY DEF Fresh
<1>. DEFINE e == [conn |-> n, refcount |-> 1]
<1>2. e \in [conn : Conn, refcount : Nat] /\ e.conn = n
  BY <1>1
<1>3. e # NoConn
  BY <1>2, HubAssumption
<1>4. entries' = [entries EXCEPT ![n.key] = e] /\ entries[n.key] = NoConn
  BY DEF Connect
<1>. HIDE DEF e
<1>5. entries'[n.key] = e /\ \A j \in Keys : j # n.key => entries'[j] = entries[j]
  BY <1>1, <1>4 DEF HubInv, HubTypeOK
<1>6. HubConns' = HubConns \cup {n}
  BY <1>1, <1>2, <1>3, <1>4, <1>5 DEF HubConns
<1>. QED
  BY <1>1, <1>6 DEF Opens, Connect

LEMMA ReleaseMoves ==
    ASSUME HubInv, NEW c \in Callers, Release(c)
    PROVE  HubSame \/ \E n \in Conn : Closes(n)
<1>0. PICK k : k = held[c].key
  OBVIOUS
<1>1. held[c] \in Conn /\ k \in Keys /\ c \in Holders(k)
  BY <1>0 DEF HubInv, HubTypeOK, Release, Holders, Conn
<1>2. entries[k] # NoConn /\ entries[k].conn.key = k
  BY <1>1 DEF HubInv, RefcountExact, EntryExact
<1>3. entries[k] \in [conn : Conn, refcount : Nat]
  BY <1>1, <1>2 DEF HubInv, HubTypeOK
<1>4. CASE entries[k].refcount > 1
  <2>. DEFINE e == [entries[k] EXCEPT !.refcount = @ - 1]
  <2>1. e \in [conn : Conn, refcount : Nat] /\ e.conn = entries[k].conn
    BY <1>3, <1>4
  <2>2. e # NoConn
    BY <2>1, HubAssumption
  <2>3. entries' = [entries EXCEPT ![k] = e] /\ UNCHANGED <<session, wills, status, leaked, stale>>
    BY <1>0, <1>4 DEF Release
  <2>. HIDE DEF e
  <2>4. \A j \in Keys : /\ entries'[j] = NoConn <=> entries[j] = NoConn
                        /\ entries[j] # NoConn => entries'[j].conn = entries[j].conn
    BY <1>2, <2>1, <2>2, <2>3 DEF HubInv, HubTypeOK
  <2>5. HubConns' = HubConns
    BY <2>4, ConnsSame
  <2>. QED
    BY <2>3, <2>5 DEF HubSame
<1>5. CASE ~(entries[k].refcount > 1)
  <2>. DEFINE n == entries[k].conn
  <2>1. /\ entries' = [entries EXCEPT ![k] = NoConn]
        /\ session' = session \ {n}
        /\ status' = IF n \in session THEN Says(n, "offline") ELSE status
        /\ UNCHANGED <<leaked, wills, stale>>
    BY <1>0, <1>5 DEF Release
  <2>2. n \in Conn /\ n \in HubConns
    BY <1>1, <1>2, <1>3 DEF HubConns
  <2>3. entries'[k] = NoConn /\ \A j \in Keys : j # k => entries'[j] = entries[j]
    BY <1>1, <2>1 DEF HubInv, HubTypeOK
  <2>4. \A j \in Keys : j # k /\ entries[j] # NoConn => entries[j].conn # n
    BY <1>2 DEF HubInv, RefcountExact, EntryExact
  <2>5. HubConns' = HubConns \ {n}
    BY <1>1, <2>3, <2>4 DEF HubConns
  <2>. QED
    BY <2>1, <2>2, <2>5 DEF Closes
<1>. QED
  BY <1>4, <1>5

LEMMA HubMoves == BridgeInv /\ [Next]_vars => Moves
<1>. SUFFICES ASSUME BridgeInv, [Next]_vars PROVE Moves
  OBVIOUS
<1>. USE BridgeAssumption DEF BridgeInv
<1>1. CASE UNCHANGED hubVars
  BY <1>1, EntriesSame DEF hubVars, Moves, HubSame
<1>2. CASE StopReleases
  BY <1>2, ReleaseMoves DEF StopReleases, Moves
<1>3. CASE StartAcquires
  <2>1. last \in Configs /\ KeyOf[last] \in Keys
    BY <1>3 DEF StartAcquires, BridgeOK, Settings
  <2>2. CASE Share(Bridge, KeyOf[last])
    BY <2>1, <2>2, ShareMoves DEF Moves
  <2>3. CASE \E n \in Fresh(KeyOf[last]) : Connect(Bridge, n)
    BY <2>1, <2>3, ConnectMoves DEF Moves
  <2>. QED
    BY <1>3, <2>2, <2>3 DEF StartAcquires
<1>4. CASE StartFails
  BY <1>4, EntriesSame DEF StartFails, ConnectTimesOut, Fresh, Moves, GivesUp
<1>5. ASSUME NEW d \in Deliveries, DeliveryAcquires(d) PROVE Moves
  <2>1. CASE Share(d, ChannelKey)
    BY <2>1, ShareMoves DEF Moves
  <2>2. CASE \E n \in Fresh(ChannelKey) : Connect(d, n)
    BY <2>2, ConnectMoves DEF Moves
  <2>3. CASE \E n \in Fresh(ChannelKey) : ConnectTimesOut(d, n)
    BY <2>3, EntriesSame DEF ConnectTimesOut, Fresh, Moves, GivesUp
  <2>. QED
    BY <1>5, <2>1, <2>2, <2>3 DEF DeliveryAcquires
<1>6. ASSUME NEW d \in Deliveries, DeliveryReleases(d) PROVE Moves
  BY <1>6, ReleaseMoves DEF DeliveryReleases, Moves
<1>7. ASSUME NEW n \in Conn, NetworkReturns(n) \/ NetworkFails(n) \/ BrokerNotices(n) PROVE Moves
  <2>1. HubConns' = HubConns
    BY <1>7, EntriesSame DEF NetworkReturns, NetworkFails, BrokerNotices, Reconnects, ConnectionLost,
         WillSent, bridgeVars
  <2>. QED
    BY <1>7, <2>1 DEF NetworkReturns, NetworkFails, BrokerNotices, Moves, Wavers
<1>8. \/ UNCHANGED hubVars \/ StopReleases \/ StartAcquires \/ StartFails
      \/ \E d \in Deliveries : DeliveryAcquires(d) \/ DeliveryReleases(d)
      \/ \E n \in Conn : NetworkReturns(n) \/ NetworkFails(n) \/ BrokerNotices(n)
  BY DEF Next, vars, EditSetting, Apply, StopClears, StartSubscribes, Receive, TimerFires,
         TimerDeletes, PublishOff, SetMotion, PublishIncident, ArmIncident
<1>. QED
  BY <1>1, <1>2, <1>3, <1>4, <1>5, <1>6, <1>7, <1>8

\* Only a NATS message brings a connection into use, the one the bridge holds.
LEMMA UsesStep ==
    ASSUME BridgeInv, [Next]_vars, NEW n \in Conn, Uses(n)'
    PROVE  Uses(n) \/ n \in HubConns
<1>. USE DEF BridgeInv, Uses
<1>1. CASE UNCHANGED <<handler, timer, off>>
  BY <1>1
<1>2. CASE StopClears
  BY <1>2 DEF StopClears
<1>3. ASSUME NEW s \in Sensors, Receive(s) PROVE Uses(n) \/ n \in HubConns
  <2>1. handler' = [handler EXCEPT ![s] = @ \cup {[conn |-> held[Bridge], at |-> "begun"]}]
        /\ UNCHANGED <<timer, off>>
    BY <1>3 DEF Receive
  <2>2. held[Bridge] \in Conn
    BY <1>3, BridgeAssumption DEF Receive, BridgeOK, HubInv, HubTypeOK
  <2>3. held[Bridge].key \in Keys /\ Bridge \in Holders(held[Bridge].key)
    BY <2>2, Brokered, BridgeAssumption DEF Holders
  <2>4. entries[held[Bridge].key] # NoConn /\ held[Bridge] = entries[held[Bridge].key].conn
    BY <2>3 DEF HubInv, RefcountExact, EntryExact
  <2>5. held[Bridge] \in HubConns
    BY <2>3, <2>4 DEF HubConns
  <2>6. \A r \in Sensors : \A h \in handler'[r] : h \in handler[r] \/ h.conn = held[Bridge]
    BY <2>1 DEF UsersOK
  <2>. QED
    BY <2>1, <2>5, <2>6
<1>4. ASSUME NEW s \in Sensors, TimerFires(s) PROVE Uses(n) \/ n \in HubConns
  <2>1. timer[s] \in Timer /\ timer' = [timer EXCEPT ![s].fired = TRUE] /\ UNCHANGED <<handler, off>>
    BY <1>4 DEF TimerFires, UsersOK
  <2>2. \A r \in Sensors : r # s => timer'[r] = timer[r]
    BY <2>1 DEF UsersOK
  <2>3. timer'[s].conn = timer[s].conn
    BY <2>1 DEF UsersOK, Timer
  <2>4. timer[s] # NoConn
    BY <1>4 DEF TimerFires
  <2>. QED
    BY <2>1, <2>2, <2>3, <2>4
<1>5. ASSUME NEW s \in Sensors, TimerDeletes(s) PROVE Uses(n) \/ n \in HubConns
  BY <1>5 DEF TimerDeletes, UsersOK
<1>6. ASSUME NEW s \in Sensors, NEW m \in Conn, PublishOff(s, m) PROVE Uses(n) \/ n \in HubConns
  BY <1>6 DEF PublishOff, UsersOK
<1>7. ASSUME NEW h \in Callback, SetMotion(h) \/ PublishIncident(h) \/ ArmIncident(h)
      PROVE  Uses(n) \/ n \in HubConns
  <2>1. [conn |-> h.conn, fired |-> FALSE].conn = h.conn /\ [h EXCEPT !.at = "published"].conn = h.conn
    BY DEF Callback
  <2>2. CASE SetMotion(h)
    BY <2>1, <2>2 DEF SetMotion, Arm, UsersOK, Sensors
  <2>3. CASE PublishIncident(h)
    <3>. DEFINE g == [h EXCEPT !.at = "published"]
    <3>1. h \in handler["incident"] /\ UNCHANGED <<timer, off>>
          /\ handler' = [handler EXCEPT !["incident"] = (@ \ {h}) \cup {g}]
      BY <2>3 DEF PublishIncident
    <3>2. g.conn = h.conn
      BY <2>1
    <3>. HIDE DEF g
    <3>3. "incident" \in Sensors
      BY DEF Sensors
    <3>4. \A r \in Sensors : \A x \in handler'[r] : x \in handler[r] \/ (r = "incident" /\ x = g)
      BY <3>1 DEF UsersOK
    <3>. QED
      BY <3>1, <3>2, <3>3, <3>4
  <2>4. CASE ArmIncident(h)
    BY <2>1, <2>4 DEF ArmIncident, Arm, UsersOK, Sensors
  <2>. QED
    BY <1>7, <2>2, <2>3, <2>4
<1>8. \/ UNCHANGED <<handler, timer, off>> \/ StopClears
      \/ \E s \in Sensors : Receive(s) \/ TimerFires(s) \/ TimerDeletes(s) \/ \E m \in Conn : PublishOff(s, m)
      \/ \E h \in Callback : SetMotion(h) \/ PublishIncident(h) \/ ArmIncident(h)
  BY DEF Next, vars, bridgeVars, EditSetting, Apply, StopReleases, StartAcquires, StartFails,
         StartSubscribes, DeliveryAcquires, DeliveryReleases, NetworkReturns, NetworkFails, BrokerNotices
<1>. QED
  BY <1>1, <1>2, <1>3, <1>4, <1>5, <1>6, <1>7, <1>8

LEMMA PlacedInit == Init => Placed
BY DEF Init, HubInit, Placed, HubConns, Uses

LEMMA PlacedStep == BridgeInv /\ Placed /\ [Next]_vars => Placed'
<1>. SUFFICES ASSUME BridgeInv, Placed, [Next]_vars PROVE Placed'
  OBVIOUS
<1>1. \A n \in Conn : Uses(n)' => Uses(n) \/ n \in HubConns
  BY UsesStep
<1>2. Moves
  BY HubMoves
<1>3. CASE HubSame
  BY <1>1, <1>3 DEF HubSame, Placed
<1>4. ASSUME NEW n \in Conn, Opens(n) PROVE Placed'
  <2>1. n \notin HubConns /\ n \notin leaked /\ n \notin session /\ n \notin wills /\ ~Uses(n)
    BY <1>4, FreshIsNew DEF Opens
  <2>. QED
    BY <1>1, <1>4, <2>1 DEF Opens, Placed
<1>5. ASSUME NEW n \in Conn, Closes(n) PROVE Placed'
  BY <1>1, <1>5 DEF Closes, Placed
<1>6. ASSUME NEW n \in Conn, GivesUp(n) PROVE Placed'
  <2>1. n \notin HubConns /\ n \notin leaked /\ n \notin session /\ n \notin wills /\ ~Uses(n)
    BY <1>6, FreshIsNew DEF GivesUp
  <2>. QED
    BY <1>1, <1>6, <2>1 DEF GivesUp, Placed
<1>7. ASSUME NEW n \in Conn, Wavers(n) PROVE Placed'
  BY <1>1, <1>7 DEF Wavers, Reconnects, ConnectionLost, WillSent, Placed
<1>. QED
  BY <1>2, <1>3, <1>4, <1>5, <1>6, <1>7 DEF Moves

-----------------------------------------------------------------------------

OneUserPerBroker == \A j, k \in Keys : j # k => BrokerOf[j] # BrokerOf[k]

\* Connections of two keys are on two brokers, if each broker has one user.
LEMMA Apart ==
    ASSUME OneUserPerBroker, HubInv, NEW n \in HubConns, NEW m \in HubConns, n # m
    PROVE  BrokerOf[n.key] # BrokerOf[m.key]
BY KeyOfConn DEF OneUserPerBroker

LEMMA HonestStep == BridgeInv /\ Placed /\ StatusHonestAlone /\ [Next]_vars => StatusHonestAlone'
<1>. SUFFICES ASSUME BridgeInv, Placed, StatusHonestAlone, [Next]_vars, leaked' = {}, OneUserPerBroker
              PROVE  StatusHonest'
  BY DEF StatusHonestAlone, OneUserPerBroker
<1>0. HubInv /\ HubConns \subseteq Conn /\ status \in [Brokers -> {"unset", "online", "offline"}]
  BY KeyOfConn DEF BridgeInv, HubInv, HubTypeOK
<1>1. Moves
  BY HubMoves
<1>2. leaked = {}
  BY <1>1 DEF Moves, HubSame, Opens, Closes, GivesUp, Wavers, Reconnects, ConnectionLost, WillSent
<1>3. StatusHonest /\ session \subseteq HubConns
  BY <1>2 DEF StatusHonestAlone, OneUserPerBroker, Placed
<1>4. CASE HubSame
  BY <1>3, <1>4 DEF HubSame, StatusHonest
<1>5. ASSUME NEW n \in Conn, SaysOnline(n),
             HubConns' \cap session' \subseteq (HubConns \cap session) \cup {n}
      PROVE  StatusHonest'
  <2>1. \A b \in Brokers : status'[b] = "online" \/ (status'[b] = status[b] /\ (b \in stale => b \in stale'))
    BY <1>0, <1>5, Brokered DEF SaysOnline, Says
  <2>2. status'[BrokerOf[n.key]] = "online"
    BY <1>0, <1>5, Brokered DEF SaysOnline, Says
  <2>. QED
    BY <1>0, <1>3, <1>5, <2>1, <2>2, Brokered DEF StatusHonest
<1>6. ASSUME NEW n \in HubConns, HubConns' \cap session' \subseteq (HubConns \cap session) \ {n}, stale' = stale,
             status' = status \/ status' = Says(n, "offline")
      PROVE  StatusHonest'
  <2>1. \A m \in HubConns : m # n => BrokerOf[m.key] # BrokerOf[n.key]
    BY <1>0, Apart
  <2>2. \A m \in HubConns : m # n => status'[BrokerOf[m.key]] = status[BrokerOf[m.key]]
    BY <1>0, <1>6, <2>1, Brokered DEF Says
  <2>. QED
    BY <1>3, <1>6, <2>2 DEF StatusHonest
<1>7. ASSUME NEW n \in Conn, Closes(n) PROVE StatusHonest'
  BY <1>6, <1>7 DEF Closes
<1>8. ASSUME NEW n \in Conn, GivesUp(n) PROVE StatusHonest'
  BY <1>3, <1>8 DEF GivesUp, StatusHonest
<1>9. ASSUME NEW n \in Conn, Opens(n) \/ (Wavers(n) /\ Reconnects(n)) PROVE StatusHonest'
  BY <1>5, <1>9 DEF Opens, Wavers, Reconnects
<1>10. ASSUME NEW n \in Conn, Wavers(n), ConnectionLost(n) PROVE StatusHonest'
  <2>1. n \in HubConns
    BY <1>3, <1>10 DEF ConnectionLost
  <2>. QED
    BY <1>6, <1>10, <2>1 DEF Wavers, ConnectionLost
\* A will of a connection that is down tells the truth; one of a connection that
\* was released is remembered as stale.
<1>11. ASSUME NEW n \in Conn, Wavers(n), WillSent(n) PROVE StatusHonest'
  <2>1. n \notin session /\ HubConns' \cap session' = HubConns \cap session
    BY <1>11 DEF Placed, WillSent, Wavers
  <2>2. CASE n \in HubConns
    BY <1>6, <1>11, <2>1, <2>2 DEF WillSent
  <2>3. CASE n \notin HubConns
    <3>1. stale' = stale \cup {BrokerOf[n.key]} /\ status' = Says(n, "offline")
      BY <1>11, <2>3 DEF WillSent
    <3>2. \A b \in Brokers \ stale' : status'[b] = status[b]
      BY <1>0, <3>1, Brokered DEF Says
    <3>. QED
      BY <1>0, <1>3, <2>1, <3>1, <3>2, Brokered DEF StatusHonest
  <2>. QED
    BY <2>2, <2>3
<1>. QED
  BY <1>1, <1>4, <1>7, <1>8, <1>9, <1>10, <1>11 DEF Moves, Wavers

\* With one user per broker, and as long as Acquire never gave a connection up,
\* no broker calls the bridge offline while a connection of the hub is up,
\* whatever is lost, regained, shared and released in whatever order, unless the
\* will of a connection released before came late.
THEOREM StatusAlwaysHonest == Spec => []StatusHonestAlone
<1>1. Init => StatusHonestAlone
  BY DEF Init, HubInit, StatusHonestAlone, StatusHonest
<1>. QED
  BY <1>1, BridgeInit, BridgeStep, PlacedInit, PlacedStep, HonestStep, PTL DEF Spec

(***************************************************************************)
(* Every ON has an end.  A sensor that shows ON, or is about to when its   *)
(* connection comes back, has a timer, a callback or a pending OFF on that *)
(* same broker.                                                            *)
(***************************************************************************)
At(n, b) == BrokerOf[n.key] = b

Waits(b, v) == \E n \in Conn : At(n, b) /\ outbox[n] = v

Shows(b, s) == shown[b][s] = "ON" \/ (s = "incident" /\ Waits(b, "ON"))

Pending(b, s) ==
    \/ timer[s] # NoConn /\ At(timer[s].conn, b)
    \/ \E n \in off[s] : At(n, b)
    \/ \E h \in handler[s] : At(h.conn, b)

Clear(b, s) ==
    Shows(b, s) /\ <<b, s>> \notin forgotten => Pending(b, s) \/ (s = "incident" /\ Waits(b, "OFF"))

Clears == \A b \in Brokers, s \in Sensors : Clear(b, s)

\* A payload waits only for a connection of the hub that is down.
Waiting == \A n \in Conn : outbox[n] # "unset" => n \in HubConns /\ n \notin session

LEMMA ClearsSuffices == Clears => OnWillClear
BY DEF Clears, Clear, Shows, Pending, Waits, At, OnWillClear

LEMMA WaitingInit == Init => Waiting /\ Clears
BY DEF Init, Waiting, Clears, Clear, Shows, Waits

LEMMA PublishWaits ==
    ASSUME BridgeInv, Waiting, NEW n \in Conn, NEW s, NEW v \in Payload, Publish(n, s, v), UNCHANGED hubVars
    PROVE  Waiting'
<1>1. HubConns' = HubConns /\ session' = session
  BY EntriesSame DEF hubVars
<1>2. outbox' = outbox \/ (n \in HubConns /\ n \notin session /\ outbox' = [outbox EXCEPT ![n] = v])
  BY DEF Publish
<1>. QED
  BY <1>1, <1>2 DEF Waiting, BridgeInv, BrokersOK

LEMMA DropWaits ==
    ASSUME BridgeInv, Waiting, NEW c \in Callers, Release(c), DropOutbox
    PROVE  Waiting'
<1>1. session' \subseteq session
  BY ReleaseMoves DEF BridgeInv, HubSame, Closes
<1>2. \A n \in Conn : outbox'[n] # "unset" => n \in HubConns' /\ outbox[n] # "unset"
  BY DEF DropOutbox
<1>. QED
  BY <1>1, <1>2 DEF Waiting

LEMMA WaitingStep == BridgeInv /\ Placed /\ Waiting /\ [Next]_vars => Waiting'
<1>. SUFFICES ASSUME BridgeInv, Placed, Waiting, [Next]_vars PROVE Waiting'
  OBVIOUS
<1>. USE BridgeAssumption
<1>1. CASE UNCHANGED <<outbox, session, entries>>
  BY <1>1, EntriesSame DEF Waiting
<1>2. CASE StopReleases
  BY <1>2, DropWaits DEF StopReleases
<1>3. ASSUME NEW d \in Deliveries, DeliveryReleases(d) PROVE Waiting'
  BY <1>3, DropWaits DEF DeliveryReleases
<1>4. ASSUME NEW c \in Callers, NEW k \in Keys, Share(c, k) \/ \E n \in Fresh(k) : Connect(c, n), UNCHANGED outbox
      PROVE  Waiting'
  <2>1. CASE Share(c, k)
    BY <1>4, <2>1, ShareMoves DEF HubSame, Waiting, BridgeInv
  <2>2. ASSUME NEW n \in Fresh(k), Connect(c, n) PROVE Waiting'
    <3>1. n \in Conn /\ Opens(n)
      BY <2>2, ConnectMoves DEF BridgeInv
    <3>2. n \notin HubConns
      BY <3>1, FreshIsNew DEF Opens
    <3>. QED
      BY <1>4, <3>1, <3>2 DEF Opens, Waiting
  <2>. QED
    BY <1>4, <2>1, <2>2
<1>5. CASE StartAcquires
  <2>1. last \in Configs /\ KeyOf[last] \in Keys
    BY <1>5 DEF StartAcquires, BridgeInv, BridgeOK, Settings
  <2>. QED
    BY <1>4, <1>5, <2>1 DEF StartAcquires
<1>6. ASSUME NEW d \in Deliveries, DeliveryAcquires(d) PROVE Waiting'
  BY <1>1, <1>4, <1>6 DEF DeliveryAcquires, ConnectTimesOut
<1>7. CASE StartFails
  BY <1>1, <1>7 DEF StartFails, ConnectTimesOut
<1>8. ASSUME NEW n \in Conn, NetworkReturns(n) PROVE Waiting'
  <2>1. outbox' = [outbox EXCEPT ![n] = "unset"] /\ session' = session \cup {n} /\ HubConns' = HubConns
    BY <1>8, EntriesSame DEF NetworkReturns, Reconnects, Flush
  <2>. QED
    BY <2>1 DEF Waiting, BridgeInv, BrokersOK
<1>9. ASSUME NEW n \in Conn, NetworkFails(n) PROVE Waiting'
  <2>1. outbox' = outbox /\ session' = session \ {n} /\ HubConns' = HubConns
    BY <1>9, EntriesSame DEF NetworkFails, ConnectionLost
  <2>. QED
    BY <2>1 DEF Waiting
<1>10. ASSUME NEW s \in Sensors, NEW n \in Conn, PublishOff(s, n) PROVE Waiting'
  BY <1>10, PublishWaits, Payloads DEF PublishOff
<1>11. ASSUME NEW h \in Callback, SetMotion(h) \/ PublishIncident(h) PROVE Waiting'
  <2>1. h.conn \in Conn
    BY DEF Callback
  <2>2. UNCHANGED hubVars /\ (UNCHANGED outbox \/ Publish(h.conn, "motion", "ON") \/ Publish(h.conn, "incident", "ON"))
    BY <1>11 DEF SetMotion, PublishIncident
  <2>. QED
    BY <1>1, <2>1, <2>2, PublishWaits, Payloads DEF hubVars
<1>12. \/ UNCHANGED <<outbox, session, entries>> \/ StopReleases \/ StartAcquires \/ StartFails
       \/ \E s \in Sensors : \E n \in Conn : PublishOff(s, n)
       \/ \E h \in Callback : SetMotion(h) \/ PublishIncident(h)
       \/ \E d \in Deliveries : DeliveryAcquires(d) \/ DeliveryReleases(d)
       \/ \E n \in Conn : NetworkReturns(n) \/ NetworkFails(n)
  BY DEF Next, vars, bridgeVars, hubVars, EditSetting, Apply, StopClears, StartSubscribes, Receive,
         TimerFires, TimerDeletes, ArmIncident, BrokerNotices, WillSent
<1>. QED
  BY <1>1, <1>2, <1>3, <1>5, <1>6, <1>7, <1>8, <1>9, <1>10, <1>11, <1>12

\* What a step leaves alone of sensor s on broker b.
Untouched(b, s) ==
    /\ shown'[b][s] = shown[b][s]
    /\ <<b, s>> \in forgotten => <<b, s>> \in forgotten'
    /\ s = "incident" => \A m \in Conn : At(m, b) => outbox'[m] = outbox[m]

LEMMA PairKept ==
    ASSUME NEW b, NEW s, Clear(b, s), Untouched(b, s), Pending(b, s) => Pending(b, s)'
    PROVE  Clear(b, s)'
<1>1. s = "incident" => (Waits(b, "ON")' <=> Waits(b, "ON")) /\ (Waits(b, "OFF")' <=> Waits(b, "OFF"))
  BY DEF Untouched, Waits, At
<1>2. Shows(b, s)' => Shows(b, s)
  BY <1>1 DEF Shows, Untouched
<1>. QED
  BY <1>1, <1>2 DEF Clear, Untouched

LEMMA UnchangedPair == ASSUME NEW b, NEW s, UNCHANGED <<shown, forgotten, outbox>> PROVE Untouched(b, s)
BY DEF Untouched

LEMMA PublishElsewhere ==
    ASSUME BrokersOK, NEW n \in Conn, NEW r \in Sensors, NEW v \in Payload, Publish(n, r, v),
           NEW b \in Brokers, NEW s \in Sensors, ~At(n, b) \/ s # r
    PROVE  Untouched(b, s)
<1>. DEFINE c == BrokerOf[n.key]
<1>1. c \in Brokers /\ <<b, s>> # <<c, r>>
  BY Brokered DEF At
<1>2. CASE n \in session
  <2>1. /\ shown' = [shown EXCEPT ![c][r] = v] /\ outbox' = outbox
        /\ forgotten' = forgotten \ {<<c, r>>} \/ forgotten' = forgotten \cup {<<c, r>>}
    BY <1>2 DEF Publish
  <2>2. shown'[b][s] = shown[b][s]
    BY <1>1, <2>1 DEF BrokersOK
  <2>. QED
    BY <1>1, <2>1, <2>2 DEF Untouched
<1>3. CASE n \notin session
  <2>1. /\ shown' = shown
        /\ forgotten \subseteq forgotten'
        /\ outbox' = outbox \/ (r = "incident" /\ outbox' = [outbox EXCEPT ![n] = v])
    BY <1>3 DEF Publish
  <2>2. s = "incident" => \A m \in Conn : At(m, b) => outbox'[m] = outbox[m]
    BY <2>1 DEF BrokersOK, At
  <2>. QED
    BY <2>1, <2>2 DEF Untouched
<1>. QED
  BY <1>2, <1>3

\* An OFF that is published is shown, waits, or is lost and known to be; an ON
\* that waits for another connection of the broker is known to come after it.
LEMMA OffClears ==
    ASSUME BridgeInv, Waiting, NEW n \in Conn, NEW s \in Sensors, Publish(n, s, "OFF"),
           NEW b \in Brokers, At(n, b)
    PROVE  Clear(b, s)'
<1>1. CASE n \in session
  <2>1. shown'[b][s] = "OFF" /\ outbox' = outbox
    BY <1>1 DEF Publish, BridgeInv, BrokersOK, At
  <2>2. ASSUME s = "incident", Waits(b, "ON") PROVE <<b, s>> \in forgotten'
    <3>1. PICK m \in Conn : At(m, b) /\ outbox[m] = "ON"
      BY <2>2 DEF Waits
    <3>2. m # n
      BY <1>1, <3>1 DEF Waiting
    <3>. QED
      BY <1>1, <2>2, <3>1, <3>2 DEF Publish, Overtakes, At
  <2>. QED
    BY <2>1, <2>2 DEF Clear, Shows, Waits, At
<1>2. CASE n \notin session /\ outbox' # outbox
  <2>1. s = "incident" /\ outbox' = [outbox EXCEPT ![n] = "OFF"]
    BY <1>2 DEF Publish
  <2>2. outbox'[n] = "OFF"
    BY <2>1 DEF BridgeInv, BrokersOK
  <2>3. Waits(b, "OFF")'
    BY <2>2 DEF Waits, At
  <2>. QED
    BY <2>1, <2>3 DEF Clear
<1>3. CASE n \notin session /\ outbox' = outbox
  <2>1. <<b, s>> \in forgotten'
    BY <1>3 DEF Publish, At
  <2>. QED
    BY <2>1 DEF Clear
<1>. QED
  BY <1>1, <1>2, <1>3

\* A released connection takes the OFF that waited with it.
LEMMA DropClears ==
    ASSUME Clears, DropOutbox, UNCHANGED <<shown, handler, timer, off>>
    PROVE  Clears'
<1>. SUFFICES ASSUME NEW b \in Brokers, NEW s \in Sensors, Shows(b, s)', <<b, s>> \notin forgotten'
              PROVE  Pending(b, s)' \/ (s = "incident" /\ Waits(b, "OFF")')
  BY DEF Clears, Clear
<1>1. \A n \in Conn : outbox'[n] # "unset" => outbox'[n] = outbox[n]
  BY DEF DropOutbox
<1>2. Waits(b, "ON")' => Waits(b, "ON")
  BY <1>1 DEF Waits, At
<1>3. Shows(b, s) /\ <<b, s>> \notin forgotten
  BY <1>2 DEF Shows, DropOutbox
<1>4. CASE Pending(b, s)
  BY <1>4 DEF Pending, At
<1>5. CASE s = "incident" /\ Waits(b, "OFF")
  <2>1. PICK n \in Conn : At(n, b) /\ outbox[n] = "OFF"
    BY <1>5 DEF Waits
  <2>2. n \in HubConns'
    BY <1>5, <2>1 DEF DropOutbox, At
  <2>3. outbox'[n] = "OFF"
    BY <2>1, <2>2 DEF DropOutbox
  <2>. QED
    BY <1>5, <2>1, <2>3 DEF Waits, At
<1>. QED
  BY <1>3, <1>4, <1>5 DEF Clears, Clear

\* The end of a callback h of sensor r: a timer is armed on its broker, and an
\* earlier timer on another broker is known to be taken over.
LEMMA ArmPending ==
    ASSUME UsersOK, NEW r \in Sensors, NEW h \in Callback, Arm(r, h.conn),
           handler' = [handler EXCEPT ![r] = @ \ {h}], UNCHANGED off,
           NEW b \in Brokers, NEW s \in Sensors
    PROVE  /\ s = r /\ At(h.conn, b) => Pending(b, s)'
           /\ Pending(b, s) /\ ~(s = r /\ At(h.conn, b)) =>
                Pending(b, s)' \/ (s = r /\ timer[s] # NoConn /\ <<b, s>> \in TakenOver(r, h.conn))
<1>. DEFINE m == [conn |-> h.conn, fired |-> FALSE]
<1>1. m \in Timer /\ m.conn = h.conn
  BY DEF Timer, Callback
<1>2. m # NoConn
  BY <1>1, BridgeAssumption DEF Timer
<1>3. timer' = [timer EXCEPT ![r] = m]
  BY DEF Arm
<1>. HIDE DEF m
<1>4. timer'[r] = m /\ \A q \in Sensors : q # r => timer'[q] = timer[q] /\ handler'[q] = handler[q]
  BY <1>3 DEF UsersOK
<1>5. CASE s = r /\ At(h.conn, b)
  BY <1>1, <1>2, <1>4, <1>5 DEF Pending, At
<1>6. CASE s # r
  BY <1>4, <1>6 DEF Pending, At
<1>7. CASE s = r /\ ~At(h.conn, b)
  <2>1. \A g \in handler[s] : At(g.conn, b) => g \in handler'[s]
    BY <1>7 DEF UsersOK
  <2>2. timer[s] # NoConn /\ At(timer[s].conn, b) => <<b, s>> \in TakenOver(r, h.conn)
    BY <1>7 DEF TakenOver, At
  <2>. QED
    BY <1>7, <2>1, <2>2 DEF Pending, At
<1>. QED
  BY <1>5, <1>6, <1>7

LEMMA SetMotionClears ==
    ASSUME BridgeInv, Clears, NEW h \in Callback, SetMotion(h)
    PROVE  Clears'
<1>. SUFFICES ASSUME NEW b \in Brokers, NEW s \in Sensors PROVE Clear(b, s)'
  BY DEF Clears
<1>. USE DEF BridgeInv
<1>0. "motion" \in Sensors /\ h.conn \in Conn /\ Clear(b, s)
  BY DEF Sensors, Callback, Clears
<1>1. /\ s = "motion" /\ At(h.conn, b) => Pending(b, s)'
      /\ Pending(b, s) /\ ~(s = "motion" /\ At(h.conn, b)) =>
           Pending(b, s)' \/ (s = "motion" /\ timer[s] # NoConn /\ <<b, s>> \in TakenOver("motion", h.conn))
  BY <1>0, ArmPending DEF SetMotion
<1>2. CASE s = "motion" /\ At(h.conn, b)
  BY <1>1, <1>2 DEF Clear
<1>3. CASE ~(s = "motion" /\ At(h.conn, b)) /\ timer["motion"] = NoConn
  <2>1. Publish(h.conn, "motion", "ON")
    BY <1>3 DEF SetMotion
  <2>2. Untouched(b, s)
    BY <1>0, <1>3, <2>1, PublishElsewhere, Payloads
  <2>. QED
    BY <1>0, <1>1, <1>3, <2>2, PairKept
<1>4. CASE ~(s = "motion" /\ At(h.conn, b)) /\ timer["motion"] # NoConn
  <2>1. forgotten' = forgotten \cup TakenOver("motion", h.conn) /\ UNCHANGED <<shown, outbox>>
    BY <1>4 DEF SetMotion
  <2>2. Untouched(b, s)
    BY <2>1 DEF Untouched
  <2>3. CASE <<b, s>> \in forgotten'
    BY <2>3 DEF Clear
  <2>4. CASE <<b, s>> \notin forgotten'
    <3>1. Pending(b, s) => Pending(b, s)'
      BY <1>1, <1>4, <2>1, <2>4
    <3>. QED
      BY <1>0, <2>2, <3>1, PairKept
  <2>. QED
    BY <2>3, <2>4
<1>. QED
  BY <1>2, <1>3, <1>4

LEMMA ArmIncidentClears ==
    ASSUME BridgeInv, Clears, NEW h \in Callback, ArmIncident(h)
    PROVE  Clears'
<1>. SUFFICES ASSUME NEW b \in Brokers, NEW s \in Sensors PROVE Clear(b, s)'
  BY DEF Clears
<1>. USE DEF BridgeInv
<1>0. "incident" \in Sensors /\ h.conn \in Conn /\ Clear(b, s)
  BY DEF Sensors, Callback, Clears
<1>1. /\ s = "incident" /\ At(h.conn, b) => Pending(b, s)'
      /\ Pending(b, s) /\ ~(s = "incident" /\ At(h.conn, b)) =>
           Pending(b, s)' \/ (s = "incident" /\ timer[s] # NoConn /\ <<b, s>> \in TakenOver("incident", h.conn))
  BY <1>0, ArmPending DEF ArmIncident
<1>2. forgotten' = forgotten \cup TakenOver("incident", h.conn) /\ UNCHANGED <<shown, outbox>>
  BY DEF ArmIncident
<1>3. Untouched(b, s)
  BY <1>2 DEF Untouched
<1>4. CASE <<b, s>> \in forgotten'
  BY <1>4 DEF Clear
<1>5. CASE <<b, s>> \notin forgotten'
  <2>1. Pending(b, s) => Pending(b, s)'
    BY <1>1, <1>2, <1>5
  <2>. QED
    BY <1>0, <1>3, <2>1, PairKept
<1>. QED
  BY <1>4, <1>5

\* After ON is published the callback is still there to arm the timer.
LEMMA PublishIncidentClears ==
    ASSUME BridgeInv, Clears, NEW h \in Callback, PublishIncident(h)
    PROVE  Clears'
<1>. SUFFICES ASSUME NEW b \in Brokers, NEW s \in Sensors PROVE Clear(b, s)'
  BY DEF Clears
<1>. USE DEF BridgeInv
<1>. DEFINE g == [h EXCEPT !.at = "published"]
<1>0. "incident" \in Sensors /\ h.conn \in Conn /\ g.conn = h.conn /\ Clear(b, s)
  BY DEF Sensors, Callback, Clears
<1>1. /\ handler' = [handler EXCEPT !["incident"] = (@ \ {h}) \cup {g}]
      /\ UNCHANGED <<timer, off>>
      /\ Publish(h.conn, "incident", "ON")
  BY DEF PublishIncident
<1>. HIDE DEF g
<1>2. /\ g \in handler'["incident"]
      /\ \A q \in Sensors : \A x \in handler[q] : x \in handler'[q] \/ (q = "incident" /\ x = h)
  BY <1>0, <1>1 DEF UsersOK
<1>3. Pending(b, s) => Pending(b, s)'
  BY <1>0, <1>1, <1>2 DEF Pending, At
<1>4. CASE s = "incident" /\ At(h.conn, b)
  <2>1. Pending(b, s)'
    BY <1>0, <1>2, <1>4 DEF Pending, At
  <2>. QED
    BY <2>1 DEF Clear
<1>5. CASE ~At(h.conn, b) \/ s # "incident"
  <2>1. Untouched(b, s)
    BY <1>0, <1>1, <1>5, PublishElsewhere, Payloads
  <2>. QED
    BY <1>0, <1>3, <2>1, PairKept
<1>. QED
  BY <1>4, <1>5

LEMMA PublishOffClears ==
    ASSUME BridgeInv, Waiting, Clears, NEW r \in Sensors, NEW n \in Conn, PublishOff(r, n)
    PROVE  Clears'
<1>. SUFFICES ASSUME NEW b \in Brokers, NEW s \in Sensors PROVE Clear(b, s)'
  BY DEF Clears
<1>0. Publish(n, r, "OFF")
  BY DEF PublishOff
<1>1. CASE At(n, b) /\ s = r
  BY <1>0, <1>1, OffClears
<1>2. CASE ~At(n, b) \/ s # r
  <2>1. Untouched(b, s)
    BY <1>0, <1>2, PublishElsewhere, Payloads DEF BridgeInv
  <2>2. off' = [off EXCEPT ![r] = @ \ {n}] /\ UNCHANGED <<handler, timer>>
    BY DEF PublishOff
  <2>3. \A m \in off[s] : At(m, b) => m \in off'[s]
    BY <1>2, <2>2 DEF BridgeInv, UsersOK
  <2>4. Pending(b, s) => Pending(b, s)'
    BY <2>2, <2>3 DEF Pending, At
  <2>. QED
    BY <2>1, <2>4, PairKept DEF Clears
<1>. QED
  BY <1>1, <1>2

\* What waited is sent: an ON was as good as shown, and an OFF leaves nothing on
\* but an ON that waits for another connection.
LEMMA ReturnClears ==
    ASSUME BridgeInv, Waiting, Clears, NEW n \in Conn, NetworkReturns(n)
    PROVE  Clears'
<1>. SUFFICES ASSUME NEW b \in Brokers, NEW s \in Sensors PROVE Clear(b, s)'
  BY DEF Clears
<1>. USE DEF BridgeInv
<1>1. /\ shown' = IF outbox[n] = "unset" THEN shown ELSE [shown EXCEPT ![BrokerOf[n.key]]["incident"] = outbox[n]]
      /\ outbox' = [outbox EXCEPT ![n] = "unset"]
      /\ forgotten' = IF Overtakes(n, outbox[n]) THEN forgotten \cup {<<BrokerOf[n.key], "incident">>} ELSE forgotten
      /\ UNCHANGED <<handler, timer, off>>
  BY DEF NetworkReturns, Flush
<1>2. Pending(b, s)' <=> Pending(b, s)
  BY <1>1 DEF Pending, At
<1>3. CASE outbox[n] = "unset" \/ ~At(n, b) \/ s # "incident"
  <2>1. shown'[b][s] = shown[b][s]
    BY <1>1, <1>3, Brokered DEF BrokersOK, At
  <2>2. s = "incident" => \A m \in Conn : At(m, b) => outbox'[m] = outbox[m]
    BY <1>1, <1>3 DEF BrokersOK
  <2>3. Untouched(b, s)
    BY <1>1, <2>1, <2>2 DEF Untouched
  <2>. QED
    BY <1>2, <2>3, PairKept DEF Clears
<1>4. CASE outbox[n] # "unset" /\ At(n, b) /\ s = "incident"
  <2>1. shown'[b][s] = outbox[n]
    BY <1>1, <1>4 DEF BrokersOK, At
  <2>2. \A m \in Conn : outbox'[m] = IF m = n THEN "unset" ELSE outbox[m]
    BY <1>1 DEF BrokersOK
  <2>3. CASE outbox[n] = "ON"
    <3>1. Shows(b, s)
      BY <1>4, <2>3 DEF Shows, Waits
    <3>2. Waits(b, "OFF") => Waits(b, "OFF")'
      BY <2>2, <2>3 DEF Waits, At
    <3>. QED
      BY <1>1, <1>2, <3>1, <3>2 DEF Clears, Clear
  <2>4. CASE outbox[n] # "ON"
    <3>1. outbox[n] = "OFF"
      BY <1>4, <2>4 DEF BrokersOK, Payload
    <3>2. CASE Overtakes(n, outbox[n])
      BY <1>1, <1>4, <3>2 DEF Clear, At
    <3>3. CASE ~Overtakes(n, outbox[n])
      <4>1. ~Waits(b, "ON")'
        BY <1>4, <2>2, <3>1, <3>3 DEF Waits, Overtakes, At
      <4>. QED
        BY <2>1, <3>1, <4>1 DEF Clear, Shows
    <3>. QED
      BY <3>2, <3>3
  <2>. QED
    BY <2>3, <2>4
<1>. QED
  BY <1>3, <1>4

LEMMA ClearsStep == BridgeInv /\ Waiting /\ Clears /\ [Next]_vars => Clears'
<1>. SUFFICES ASSUME BridgeInv, Waiting, Clears, [Next]_vars PROVE Clears'
  OBVIOUS
<1>1. CASE UNCHANGED <<handler, timer, off, shown, outbox, forgotten>>
  BY <1>1 DEF Clears, Clear, Shows, Pending, Waits, At
<1>2. CASE StopReleases
  BY <1>2, DropClears DEF StopReleases
<1>3. ASSUME NEW d \in Deliveries, DeliveryReleases(d) PROVE Clears'
  BY <1>3, DropClears DEF DeliveryReleases
<1>4. CASE StopClears
  <2>. SUFFICES ASSUME NEW b \in Brokers, NEW s \in Sensors, <<b, s>> \notin forgotten' PROVE Clear(b, s)'
    BY DEF Clears, Clear
  <2>1. UNCHANGED <<handler, off, shown, outbox>> /\ forgotten \subseteq forgotten'
    BY <1>4 DEF StopClears
  <2>2. ~(timer[s] # NoConn /\ At(timer[s].conn, b))
    BY <1>4 DEF StopClears, At
  <2>3. Pending(b, s) => Pending(b, s)'
    BY <2>1, <2>2 DEF Pending, At
  <2>4. Untouched(b, s)
    BY <2>1 DEF Untouched
  <2>. QED
    BY <2>3, <2>4, PairKept DEF Clears
<1>5. ASSUME NEW r \in Sensors, Receive(r) \/ TimerFires(r) \/ TimerDeletes(r) PROVE Clears'
  <2>. SUFFICES ASSUME NEW b \in Brokers, NEW s \in Sensors PROVE Clear(b, s)'
    BY DEF Clears
  <2>1. Untouched(b, s)
    BY <1>5 DEF Receive, TimerFires, TimerDeletes, Untouched
  <2>2. CASE Receive(r)
    <3>1. handler[s] \subseteq handler'[s] /\ UNCHANGED <<timer, off>>
      BY <2>2 DEF Receive, BridgeInv, UsersOK
    <3>2. Pending(b, s) => Pending(b, s)'
      BY <3>1 DEF Pending, At
    <3>. QED
      BY <2>1, <3>2, PairKept DEF Clears
  <2>3. CASE TimerFires(r)
    <3>1. timer[r] \in Timer /\ timer' = [timer EXCEPT ![r].fired = TRUE] /\ UNCHANGED <<handler, off>>
      BY <2>3 DEF TimerFires, BridgeInv, UsersOK
    <3>2. timer'[r].conn = timer[r].conn /\ timer'[r] \in Timer
      BY <3>1 DEF BridgeInv, UsersOK, Timer
    <3>3. timer'[r] # NoConn
      BY <3>2, BridgeAssumption DEF Timer
    <3>4. s # r => timer'[s] = timer[s]
      BY <3>1 DEF BridgeInv, UsersOK
    <3>5. Pending(b, s) => Pending(b, s)'
      BY <3>1, <3>2, <3>3, <3>4 DEF Pending, At
    <3>. QED
      BY <2>1, <3>5, PairKept DEF Clears
  <2>4. CASE TimerDeletes(r)
    <3>1. /\ timer' = [timer EXCEPT ![r] = NoConn]
          /\ off' = [off EXCEPT ![r] = @ \cup {timer[r].conn}]
          /\ UNCHANGED handler
      BY <2>4 DEF TimerDeletes
    <3>2. off[s] \subseteq off'[s] /\ timer[r].conn \in off'[r] /\ (s # r => timer'[s] = timer[s])
      BY <3>1 DEF BridgeInv, UsersOK
    <3>3. Pending(b, s) => Pending(b, s)'
      BY <3>1, <3>2 DEF Pending, At
    <3>. QED
      BY <2>1, <3>3, PairKept DEF Clears
  <2>. QED
    BY <1>5, <2>2, <2>3, <2>4
<1>6. \/ UNCHANGED <<handler, timer, off, shown, outbox, forgotten>> \/ StopReleases \/ StopClears
      \/ \E s \in Sensors : \/ Receive(s) \/ TimerFires(s) \/ TimerDeletes(s)
                            \/ \E n \in Conn : PublishOff(s, n)
      \/ \E h \in Callback : SetMotion(h) \/ PublishIncident(h) \/ ArmIncident(h)
      \/ \E d \in Deliveries : DeliveryReleases(d)
      \/ \E n \in Conn : NetworkReturns(n)
  BY DEF Next, vars, bridgeVars, EditSetting, Apply, StartAcquires, StartFails, StartSubscribes,
         DeliveryAcquires, NetworkFails, BrokerNotices
<1>. QED
  BY <1>1, <1>2, <1>3, <1>4, <1>5, <1>6, PublishOffClears, SetMotionClears, PublishIncidentClears,
     ArmIncidentClears, ReturnClears

\* For every number of keys, users of one broker, deliveries, connections and
\* runs of the bridge: a sensor that a broker shows as ON will be turned OFF by a
\* timer, a callback or a waiting OFF, unless its OFF was lost or sent before a
\* waiting ON, or its timer was stopped or taken over.
THEOREM OnAlwaysClears == Spec => []OnWillClear
<1>1. Init => BridgeInv /\ Placed /\ Waiting /\ Clears
  BY BridgeInit, PlacedInit, WaitingInit
<1>2. BridgeInv /\ Placed /\ Waiting /\ Clears /\ [Next]_vars => (BridgeInv /\ Placed /\ Waiting /\ Clears)'
  BY BridgeStep, PlacedStep, WaitingStep, ClearsStep
<1>. QED
  BY <1>1, <1>2, ClearsSuffices, PTL DEF Spec

=============================================================================
