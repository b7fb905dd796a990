------------------------------- MODULE MqttHub -------------------------------
(***************************************************************************)
(* The notification-dispatcher's pool of MQTT connections                  *)
(* (apps/notification-dispatcher/internal/mqtthub/hub.go): callers share   *)
(* one connection per broker url and user name, counted in an entry that   *)
(* the last release tears down.  Every connection publishes "online" on    *)
(* one retained availability topic when it connects and leaves "offline"   *)
(* there, by its release or by its will, when it goes.                     *)
(*                                                                         *)
(* The operators describe what a step does to the hub and the brokers; the *)
(* modules that use the hub say what else the step does.                   *)
(***************************************************************************)
EXTENDS Integers, FiniteSets

CONSTANTS
    Keys,       \* (broker url, user name) pairs
    BrokerOf,   \* [key -> broker]
    Callers,    \* whoever acquires: message deliveries, the HA bridge
    Ids,        \* identities of connections
    NoConn      \* no connection; no entry

Conn == [id : Ids, key : Keys]
Brokers == {BrokerOf[k] : k \in Keys}

ASSUME HubAssumption ==
    /\ BrokerOf \in [Keys -> Brokers]
    /\ IsFiniteSet(Callers)
    /\ NoConn \notin Conn
    /\ NoConn \notin [conn : Conn, refcount : Nat]

VARIABLES
    entries,    \* Hub.entries
    held,       \* [caller -> the connection it acquired and did not release]
    leaked,     \* connections given up by Acquire that still try to connect
    session,    \* connections that are up
    wills,      \* connections that are down, which their broker has not noticed
    status,     \* [broker -> fnvr/bridge/status, retained]
    stale       \* history: brokers told "offline" by the will of a connection the
                \* hub had released, since anybody last said "online" there

hubVars == <<entries, held, leaked, session, wills, status, stale>>

HubTypeOK ==
    /\ entries \in [Keys -> [conn : Conn, refcount : Nat] \cup {NoConn}]
    /\ held \in [Callers -> Conn \cup {NoConn}]
    /\ leaked \subseteq Conn
    /\ session \subseteq Conn
    /\ wills \subseteq Conn
    /\ stale \subseteq Brokers
    /\ status \in [Brokers -> {"unset", "online", "offline"}]

HubInit ==
    /\ entries = [k \in Keys |-> NoConn]
    /\ held = [c \in Callers |-> NoConn]
    /\ leaked = {}
    /\ session = {}
    /\ wills = {}
    /\ stale = {}
    /\ status = [b \in Brokers |-> "unset"]

Says(n, s) == [status EXCEPT ![BrokerOf[n.key]] = s]
SaysOnline(n) == status' = Says(n, "online") /\ stale' = stale \ {BrokerOf[n.key]}
HubConns == {entries[k].conn : k \in {j \in Keys : entries[j] # NoConn}}

-----------------------------------------------------------------------------

\* Acquire finds an entry: the connection is shared.
Share(c, k) ==
    /\ held[c] = NoConn
    /\ entries[k] # NoConn
    /\ entries' = [entries EXCEPT ![k].refcount = @ + 1]
    /\ held' = [held EXCEPT ![c] = entries[k].conn]
    /\ UNCHANGED <<leaked, session, wills, status, stale>>

\* Acquire makes the connection n.
Connect(c, n) ==
    /\ held[c] = NoConn
    /\ entries[n.key] = NoConn
    /\ entries' = [entries EXCEPT ![n.key] = [conn |-> n, refcount |-> 1]]
    /\ held' = [held EXCEPT ![c] = n]
    /\ session' = session \cup {n}
    /\ SaysOnline(n)
    /\ UNCHANGED <<leaked, wills>>

\* Acquire waits 8 s and gives up; the client, told to retry, is not stopped.
ConnectTimesOut(c, n) ==
    /\ held[c] = NoConn
    /\ entries[n.key] = NoConn
    /\ leaked' = leaked \cup {n}
    /\ UNCHANGED <<entries, held, session, wills, status, stale>>

\* Faulty variant of Release: the last but one release disconnects.
ReleaseEarly(c) ==
    LET k == held[c].key
        n == entries[k].conn
    IN  /\ held[c] # NoConn
        /\ held' = [held EXCEPT ![c] = NoConn]
        /\ IF entries[k].refcount > 2
             THEN /\ entries' = [entries EXCEPT ![k].refcount = @ - 1]
                  /\ UNCHANGED <<session, status>>
             ELSE /\ entries' = [entries EXCEPT ![k] = NoConn]
                  /\ session' = session \ {n}
                  /\ status' = IF n \in session THEN Says(n, "offline") ELSE status
        /\ UNCHANGED <<leaked, wills, stale>>

\* The release function: it knows the key only.  The last one says "offline"
\* and disconnects.
Release(c) ==
    LET k == held[c].key
        n == entries[k].conn
    IN  /\ held[c] # NoConn
        /\ held' = [held EXCEPT ![c] = NoConn]
        /\ IF entries[k].refcount > 1
             THEN /\ entries' = [entries EXCEPT ![k].refcount = @ - 1]
                  /\ UNCHANGED <<session, status>>
             ELSE /\ entries' = [entries EXCEPT ![k] = NoConn]
                  /\ session' = session \ {n}
                  /\ status' = IF n \in session THEN Says(n, "offline") ELSE status
        /\ UNCHANGED <<leaked, wills, stale>>

\* Faulty variant of Reconnects: "online" is published by Acquire only.
ReconnectsQuiet(n) ==
    /\ n \in (HubConns \cup leaked) \ session
    /\ session' = session \cup {n}
    /\ wills' = wills \ {n}
    /\ UNCHANGED <<entries, held, leaked, status, stale>>

\* Auto-reconnect, or a leaked connection that gets through at last.  The
\* client comes back under its own id: a will the broker still has to publish
\* goes out before the "online".
Reconnects(n) ==
    /\ n \in (HubConns \cup leaked) \ session
    /\ session' = session \cup {n}
    /\ wills' = wills \ {n}
    /\ SaysOnline(n)
    /\ UNCHANGED <<entries, held, leaked>>

\* The network goes.  The broker publishes the will at once, or when it misses
\* the client's keep-alive.
ConnectionLost(n) ==
    /\ n \in session
    /\ session' = session \ {n}
    /\ \/ status' = Says(n, "offline") /\ UNCHANGED wills
       \/ wills' = wills \cup {n} /\ UNCHANGED status
    /\ UNCHANGED <<entries, held, leaked, stale>>

\* The will of a connection that is still down, or was released meanwhile.
WillSent(n) ==
    /\ n \in wills
    /\ wills' = wills \ {n}
    /\ status' = Says(n, "offline")
    /\ stale' = IF n \in HubConns THEN stale ELSE stale \cup {BrokerOf[n.key]}
    /\ UNCHANGED <<entries, held, leaked, session>>

-----------------------------------------------------------------------------
(* Properties *)

Holders(k) == {c \in Callers : held[c] # NoConn /\ held[c].key = k}

EntryExact(k) ==
    /\ entries[k] = NoConn => Holders(k) = {}
    /\ entries[k] # NoConn =>
        /\ entries[k].refcount = Cardinality(Holders(k))
        /\ entries[k].refcount > 0
        /\ entries[k].conn.key = k
        /\ \A c \in Holders(k) : held[c] = entries[k].conn

\* The count of an entry is the number of callers that have not released it,
\* and they hold the very connection of the entry: no release pulls a
\* connection away from somebody else, and none is kept open for nobody.
RefcountExact == \A k \in Keys : EntryExact(k)

\* "So Home Assistant can grey out entities when the dispatcher dies": while a
\* connection of the hub is up, its broker does not say "offline", unless the
\* will of a connection released before came late.
StatusHonest ==
    \A n \in HubConns \cap session : BrokerOf[n.key] \notin stale => status[BrokerOf[n.key]] = "online"

\* ... which holds as long as no broker has two users and Acquire never gave up.
StatusHonestAlone ==
    leaked = {} /\ (\A j, k \in Keys : j # k => BrokerOf[j] # BrokerOf[k]) => StatusHonest

=============================================================================
