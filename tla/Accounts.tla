------------------------------ MODULE Accounts ------------------------------
(***************************************************************************)
(* Users, their sessions and the tokens of api-only users: the auth store  *)
(* of the api-server (auth/auth.go) under the handlers of server/users.go, *)
(* server/authflow.go and server/server.go.  Rows are in Postgres, the     *)
(* sessions in a map of the process.  Handlers read, write and flush in    *)
(* separate steps and run side by side, so each request has a phase; one   *)
(* statement or one critical section of the mutex is one step.  bcrypt is  *)
(* equality of passwords.  The login throttle is not part of the model.    *)
(***************************************************************************)
EXTENDS Integers, FiniteSets

CONSTANTS
    Ids,            \* users.id: uuids, never used twice
    SessionTokens,  \* random tokens of browser sessions
    ApiTokens,      \* raw personal access tokens
    Callers,        \* requests that may be in progress at one time
    Passwords,
    Nonce,          \* the random password of an api-only user, known to nobody
    Tables,         \* the user tables a process may start over
    None,           \* an id no row has had yet; a field without a value
    Deleted,        \* an id whose row is gone; a token that is revoked
    NoSession, Idle,
    Bodies,         \* the bodies of PATCH /users/{id} tried
    MaxRequests, MaxRestarts, MaxFailures

Roles == {"superadmin", "admin", "viewer"}
Tokens == SessionTokens \cup ApiTokens

Row == [role : Roles, disabled : BOOLEAN, apiOnly : BOOLEAN,
        pw : Passwords \cup {Nonce}, must : BOOLEAN]

\* `pw` and `late` are history: the password of the row the session was made
\* from, and whether that row had changed by the time the session was stored,
\* or was disabled all along, which ChangeOwnPassword reads but does not ask.
Session == [user : Ids, role : Roles, apiOnly : BOOLEAN, must : BOOLEAN,
            expired : BOOLEAN, pw : Passwords \cup {Nonce}, late : BOOLEAN]

\* A PATCH body; a field that is None is absent.
Body == [role : Roles \cup {None}, disabled : BOOLEAN \cup {None}, password : Passwords \cup {None}]
Empty == [role |-> None, disabled |-> None, password |-> None]

Request == [op : {"login", "change", "bearer", "update", "delete", "issue", "revoke"},
            phase : {"guard", "write", "drop", "store"},
            id : Ids, row : Row \cup {None}, tok : ApiTokens \cup {None}, body : Body]

EnabledAdmin(row) == row \in Row /\ row.role \in {"superadmin", "admin"} /\ ~row.disabled

ASSUME AccountsAssumption ==
    /\ IsFiniteSet(Ids)
    /\ SessionTokens \cap ApiTokens = {} /\ Ids \cap Tokens = {}
    /\ Nonce \notin Passwords
    /\ None # Deleted
    /\ {None, Deleted} \cap (Row \cup Ids \cup ApiTokens) = {}
    /\ None \notin Roles /\ None \notin BOOLEAN /\ None \notin Passwords
    /\ NoSession \notin Session
    /\ Idle \notin Request
    /\ Tables \subseteq [Ids -> Row \cup {None}]
    /\ \A T \in Tables : (\E i \in Ids : EnabledAdmin(T[i])) \/ \A i \in Ids : T[i] = None
    /\ Bodies \subseteq Body
    /\ {MaxRequests, MaxRestarts, MaxFailures} \subseteq Nat

VARIABLES
    users,      \* [id -> row]
    apiTokens,  \* [raw token -> owner]
    sessions,   \* Store.sessions
    req,        \* [caller -> the request it serves]
    raced,      \* history: an admin was removed while another removal had passed its guard
    unflushed,  \* history: users and tokens whose change or revocation committed though its reply was lost
    requests, restarts, failures

vars == <<users, apiTokens, sessions, req, raced, unflushed, requests, restarts, failures>>

TypeOK ==
    /\ users \in [Ids -> Row \cup {None, Deleted}]
    /\ apiTokens \in [ApiTokens -> Ids \cup {None, Deleted}]
    /\ sessions \in [Tokens -> Session \cup {NoSession}]
    /\ req \in [Callers -> Request \cup {Idle}]
    /\ raced \in BOOLEAN
    /\ unflushed \subseteq Ids \cup ApiTokens
    /\ requests \in Nat /\ restarts \in Nat /\ failures \in Nat

-----------------------------------------------------------------------------
Exists(id) == users[id] \in Row

\* Five roles, of which the handlers tell two apart.
NormaliseRole(role) == IF role \in {"superadmin", "admin"} THEN "admin" ELSE "viewer"

EnabledAdmins == {id \in Ids : EnabledAdmin(users[id])}

\* guardLastAdmin with an off-by-one in its count.
GuardOffByOne(id) == Exists(id) /\ ~(id \in EnabledAdmins /\ Cardinality(EnabledAdmins) < 1)

\* Whether guardLastAdmin lets the user be deleted, demoted or disabled.
GuardLastAdmin(id) == Exists(id) /\ ~(id \in EnabledAdmins /\ Cardinality(EnabledAdmins) <= 1)

\* Whether Validate accepts the token, and whether mustChangeGate and
\* RequireAdmin let its session do an administrator's work.
Validate(t) == sessions[t] # NoSession /\ ~sessions[t].expired
Admits(t) == Validate(t) /\ ~sessions[t].must /\ NormaliseRole(sessions[t].role) = "admin"
AdminPresent == \E t \in Tokens : Admits(t)

\* The rows that BootstrapAdmin and CreateUser insert; an api-only user gets a
\* password nobody knows.
FirstAdmin(p) == [role |-> "superadmin", disabled |-> FALSE, apiOnly |-> FALSE, pw |-> p, must |-> TRUE]
NewUser(role, p) ==
    [role |-> NormaliseRole(role), disabled |-> FALSE, apiOnly |-> (p = Nonce), pw |-> p, must |-> FALSE]

\* A user table after BootstrapAdmin: one superadmin if there was nobody.
BootstrapAdmin(T) ==
    IF \E i \in Ids : T[i] \in Row THEN {T}
    ELSE {[T EXCEPT ![i] = FirstAdmin(p)] : i \in {j \in Ids : T[j] = None}, p \in Passwords}

-----------------------------------------------------------------------------
\* A request begins, moves to another phase, and ends with its reply.
NewRequest(op, phase, id) ==
    [op |-> op, phase |-> phase, id |-> id, row |-> None, tok |-> None, body |-> Empty]

Begin(c, r) ==
    /\ req[c] = Idle /\ requests < MaxRequests
    /\ requests' = requests + 1
    /\ req' = [req EXCEPT ![c] = r]

At(c, op, phase) == req[c] # Idle /\ req[c].op = op /\ req[c].phase = phase
Goto(c, p) == req' = [req EXCEPT ![c].phase = p]
Finish(c)  == req' = [req EXCEPT ![c] = Idle]

\* handleUpdateUser takes role, disabled and password in this order.
Stage(r) ==
    IF r.op # "update" THEN r.op
    ELSE IF r.body.role # None THEN "role"
    ELSE IF r.body.disabled # None THEN "disabled" ELSE "password"

Done(r) ==
    CASE Stage(r) = "role"     -> [r.body EXCEPT !.role = None]
      [] Stage(r) = "disabled" -> [r.body EXCEPT !.disabled = None]
      [] OTHER                 -> [r.body EXCEPT !.password = None]

\* What follows a completed stage: the next one, or the reply.
Advance(c) ==
    LET rest == Done(req[c])
    IN  req' = [req EXCEPT ![c] = IF rest = Empty THEN Idle ELSE [@ EXCEPT !.body = rest, !.phase = "guard"]]

\* Whether the request's current stage takes an administrator away.
Removes(r) ==
    CASE Stage(r) = "role"     -> NormaliseRole(r.body.role) = "viewer"
      [] Stage(r) = "disabled" -> r.body.disabled = TRUE
      [] OTHER                 -> r.op = "delete"

\* The UPDATE or DELETE commits.
Commit(c, row) ==
    /\ users' = [users EXCEPT ![req[c].id] = row]
    /\ raced' = (raced \/ (/\ req[c].id \in EnabledAdmins /\ ~EnabledAdmin(row)
                           /\ \E d \in Callers \ {c} :
                                 req[d] # Idle /\ req[d].phase = "write" /\ Removes(req[d])))

\* dropSessions: the sessions of these tokens are gone from the map.
DropSessions(T) == sessions' = [t \in Tokens |-> IF t \in T THEN NoSession ELSE sessions[t]]

SessionsOf(id) == {t \in Tokens : sessions[t] # NoSession /\ sessions[t].user = id}
ApiSessions == {t \in Tokens : sessions[t] # NoSession /\ sessions[t].apiOnly}

-----------------------------------------------------------------------------
\* handleLogin: Login reads the row and checks it.
HandleLogin(c) ==
    \E id \in Ids, p \in Passwords :
        /\ Exists(id) /\ ~users[id].disabled /\ ~users[id].apiOnly /\ users[id].pw = p
        /\ Begin(c, [NewRequest("login", "store", id) EXCEPT !.row = users[id]])
        /\ UNCHANGED <<users, apiTokens, sessions, raced, unflushed, restarts, failures>>

\* The session made from the row that the request read.
Minted(r) ==
    [user |-> r.id, role |-> r.row.role, apiOnly |-> r.row.apiOnly, must |-> r.row.must,
     expired |-> FALSE, pw |-> r.row.pw,
     late |-> users[r.id] # r.row \/ r.row.disabled \/ (r.tok # None /\ apiTokens[r.tok] # r.id)]

\* The last step of Login and of ChangeOwnPassword.
IssueSession(c) ==
    /\ At(c, "login", "store") \/ At(c, "change", "store")
    /\ \E t \in SessionTokens :
          /\ sessions[t] = NoSession
          /\ sessions' = [sessions EXCEPT ![t] = Minted(req[c])]
    /\ Finish(c)
    /\ UNCHANGED <<users, apiTokens, raced, unflushed, requests, restarts, failures>>

\* Middleware falls through to resolveBearer ...
ResolveBearer(c) ==
    \E k \in ApiTokens :
        /\ ~Validate(k) /\ apiTokens[k] \in Ids
        /\ Exists(apiTokens[k]) /\ ~users[apiTokens[k]].disabled
        /\ Begin(c, [NewRequest("bearer", "store", apiTokens[k]) EXCEPT !.row = users[apiTokens[k]], !.tok = k])
        /\ UNCHANGED <<users, apiTokens, sessions, raced, unflushed, restarts, failures>>

\* ... and caches what it found.
CacheBearer(c) ==
    /\ At(c, "bearer", "store")
    /\ sessions' = [sessions EXCEPT ![req[c].tok] = Minted(req[c])]
    /\ Finish(c)
    /\ UNCHANGED <<users, apiTokens, raced, unflushed, requests, restarts, failures>>

HandleLogout(t) ==
    /\ Validate(t)
    /\ sessions' = [sessions EXCEPT ![t] = NoSession]
    /\ UNCHANGED <<users, apiTokens, req, raced, unflushed, requests, restarts, failures>>

\* The session's time is up; Validate or the janitor's sweep removes it.
Expire(t) ==
    /\ Validate(t)
    /\ sessions' = [sessions EXCEPT ![t].expired = TRUE]
    /\ UNCHANGED <<users, apiTokens, req, raced, unflushed, requests, restarts, failures>>

Sweep(t) ==
    /\ sessions[t] # NoSession /\ sessions[t].expired
    /\ sessions' = [sessions EXCEPT ![t] = NoSession]
    /\ UNCHANGED <<users, apiTokens, req, raced, unflushed, requests, restarts, failures>>

-----------------------------------------------------------------------------
HandleCreateUser ==
    \E id \in Ids, role \in Roles, p \in Passwords \cup {Nonce} :
        /\ AdminPresent /\ requests < MaxRequests /\ users[id] = None
        /\ users' = [users EXCEPT ![id] = NewUser(role, p)]
        /\ requests' = requests + 1
        /\ UNCHANGED <<apiTokens, sessions, req, raced, unflushed, restarts, failures>>

HandleUpdateUser(c) ==
    \E id \in Ids, body \in Bodies :
        /\ AdminPresent /\ Exists(id) /\ body # Empty
        /\ Begin(c, [NewRequest("update", "guard", id) EXCEPT !.body = body])
        /\ UNCHANGED <<users, apiTokens, sessions, raced, unflushed, restarts, failures>>

HandleDeleteUser(c) ==
    \E id \in Ids :
        /\ AdminPresent /\ Exists(id)
        /\ Begin(c, NewRequest("delete", "guard", id))
        /\ UNCHANGED <<users, apiTokens, sessions, raced, unflushed, restarts, failures>>

\* What is read before the write of a stage; a refusal ends the request.
Passes(r) ==
    /\ Removes(r) => GuardLastAdmin(r.id)
    /\ Stage(r) = "password" => Exists(r.id) /\ ~users[r.id].apiOnly

Guard(c) ==
    /\ At(c, "update", "guard") \/ At(c, "delete", "guard")
    /\ IF Passes(req[c]) THEN Goto(c, "write") ELSE Finish(c)
    /\ UNCHANGED <<users, apiTokens, sessions, raced, unflushed, requests, restarts, failures>>

\* The row after the write of a stage.
Written(r) ==
    CASE Stage(r) = "role"     -> [users[r.id] EXCEPT !.role = NormaliseRole(r.body.role)]
      [] Stage(r) = "disabled" -> [users[r.id] EXCEPT !.disabled = r.body.disabled]
      [] Stage(r) = "password" -> [users[r.id] EXCEPT !.pw = r.body.password]
      [] Stage(r) = "change"   -> [users[r.id] EXCEPT !.pw = r.row.pw, !.must = FALSE]
      [] OTHER                 -> Deleted

\* SetDisabled flushes only when it disables.
Flushes(r) == Stage(r) = "disabled" => r.body.disabled = TRUE

\* A user's tokens go with its row.
Cascade(r) == apiTokens' = IF r.op = "delete"
                           THEN [k \in ApiTokens |-> IF apiTokens[k] = r.id THEN Deleted ELSE apiTokens[k]]
                           ELSE apiTokens

Writing(c) == At(c, "update", "write") \/ At(c, "delete", "write") \/ At(c, "change", "write")

\* SetRole, SetDisabled, SetPassword, DeleteUser, ChangeOwnPassword.
Write(c) ==
    /\ Writing(c) /\ Exists(req[c].id)
    /\ Commit(c, Written(req[c])) /\ Cascade(req[c])
    /\ IF Flushes(req[c]) THEN Goto(c, "drop") ELSE Advance(c)
    /\ UNCHANGED <<sessions, unflushed, requests, restarts, failures>>

\* The row is gone: 404, except for a password, whose UPDATE of no row is no error.
WriteMisses(c) ==
    /\ Writing(c) /\ ~Exists(req[c].id)
    /\ IF Stage(req[c]) \in {"password", "change"} THEN Goto(c, "drop") ELSE Finish(c)
    /\ UNCHANGED <<users, apiTokens, sessions, raced, unflushed, requests, restarts, failures>>

\* The write committed but its reply is lost: an error, which only SetPassword
\* flushes after.
WriteUnanswered(c) ==
    /\ Writing(c) /\ Exists(req[c].id) /\ failures < MaxFailures
    /\ Commit(c, Written(req[c])) /\ Cascade(req[c])
    /\ IF Stage(req[c]) = "password" THEN Goto(c, "drop") ELSE Finish(c)
    /\ unflushed' = unflushed \cup {req[c].id}
    /\ failures' = failures + 1
    /\ UNCHANGED <<sessions, requests, restarts>>

\* The flush after a write, before it is forgotten whom it is for.
FlushNothing(c) == UNCHANGED <<sessions, unflushed>>

\* The flush that ends a write.
FlushUser(c) ==
    /\ DropSessions(SessionsOf(req[c].id))
    /\ unflushed' = unflushed \ {req[c].id}

Drop(c) ==
    /\ req[c] # Idle /\ req[c].phase = "drop" /\ req[c].op # "revoke"
    /\ FlushUser(c)
    /\ CASE req[c].op = "change" -> Goto(c, "store")
         [] req[c].op = "update" -> Advance(c)
         [] OTHER                -> Finish(c)
    /\ UNCHANGED <<users, apiTokens, raced, requests, restarts, failures>>

\* ChangeOwnPassword reads the row of the session's user and checks it; the
\* session it will issue is of that row with the new password.
HandleChangePassword(c) ==
    \E t \in Tokens, new \in Passwords :
        /\ Validate(t) /\ Exists(sessions[t].user) /\ ~users[sessions[t].user].apiOnly
        /\ Begin(c, [NewRequest("change", "write", sessions[t].user)
                        EXCEPT !.row = [users[sessions[t].user] EXCEPT !.pw = new, !.must = FALSE]])
        /\ UNCHANGED <<users, apiTokens, sessions, raced, unflushed, restarts, failures>>

-----------------------------------------------------------------------------
\* CreateAPIToken reads the user, then inserts; the row must still be there.
HandleCreateToken(c) ==
    \E id \in Ids :
        /\ AdminPresent /\ Exists(id) /\ ~users[id].disabled /\ users[id].apiOnly
        /\ Begin(c, NewRequest("issue", "write", id))
        /\ UNCHANGED <<users, apiTokens, sessions, raced, unflushed, restarts, failures>>

InsertToken(c) ==
    /\ At(c, "issue", "write")
    /\ IF Exists(req[c].id)
       THEN \E k \in ApiTokens : apiTokens[k] = None /\ apiTokens' = [apiTokens EXCEPT ![k] = req[c].id]
       ELSE UNCHANGED apiTokens
    /\ Finish(c)
    /\ UNCHANGED <<users, sessions, raced, unflushed, requests, restarts, failures>>

\* RevokeAPIToken deletes the token, then flushes the sessions of all api-only users.
HandleRevokeToken(c) ==
    \E k \in ApiTokens :
        /\ AdminPresent /\ apiTokens[k] \in Ids
        /\ apiTokens' = [apiTokens EXCEPT ![k] = Deleted]
        /\ Begin(c, NewRequest("revoke", "drop", apiTokens[k]))
        /\ UNCHANGED <<users, sessions, raced, unflushed, restarts, failures>>

\* The DELETE committed but its reply is lost: an error, and nothing is flushed.
RevokeUnanswered ==
    \E k \in ApiTokens :
        /\ AdminPresent /\ apiTokens[k] \in Ids /\ requests < MaxRequests /\ failures < MaxFailures
        /\ apiTokens' = [apiTokens EXCEPT ![k] = Deleted]
        /\ unflushed' = unflushed \cup {k}
        /\ requests' = requests + 1 /\ failures' = failures + 1
        /\ UNCHANGED <<users, sessions, req, raced, restarts>>

DropApiSessions(c) ==
    /\ At(c, "revoke", "drop")
    /\ DropSessions(ApiSessions)
    /\ Finish(c)
    /\ UNCHANGED <<users, apiTokens, raced, unflushed, requests, restarts, failures>>

\* The process dies with its sessions and requests and starts over its rows.
Restart ==
    /\ restarts < MaxRestarts
    /\ restarts' = restarts + 1
    /\ users' \in BootstrapAdmin(users)
    /\ sessions' = [t \in Tokens |-> NoSession]
    /\ req' = [c \in Callers |-> Idle]
    /\ UNCHANGED <<apiTokens, raced, unflushed, requests, failures>>

-----------------------------------------------------------------------------
Init ==
    /\ \E T \in Tables : users \in BootstrapAdmin(T)
    /\ apiTokens = [k \in ApiTokens |-> None]
    /\ sessions = [t \in Tokens |-> NoSession]
    /\ req = [c \in Callers |-> Idle]
    /\ raced = FALSE
    /\ unflushed = {}
    /\ requests = 0 /\ restarts = 0 /\ failures = 0

Next ==
    \/ \E c \in Callers :
        \/ HandleLogin(c) \/ IssueSession(c) \/ ResolveBearer(c) \/ CacheBearer(c)
        \/ HandleUpdateUser(c) \/ HandleDeleteUser(c) \/ HandleChangePassword(c)
        \/ Guard(c) \/ Write(c) \/ WriteMisses(c) \/ WriteUnanswered(c) \/ Drop(c)
        \/ HandleCreateToken(c) \/ InsertToken(c) \/ HandleRevokeToken(c) \/ DropApiSessions(c)
    \/ \E t \in Tokens : HandleLogout(t) \/ Expire(t) \/ Sweep(t)
    \/ HandleCreateUser \/ RevokeUnanswered
    \/ Restart

Spec == Init /\ [][Next]_vars

-----------------------------------------------------------------------------
\* Whether a cached session says something its user's row, or its token, no longer says.
Outdated(t) ==
    LET s == sessions[t]
    IN  \/ ~Exists(s.user)
        \/ users[s.user].disabled
        \/ users[s.user].role # s.role \/ users[s.user].must # s.must \/ users[s.user].pw # s.pw
        \/ t \in ApiTokens /\ apiTokens[t] # s.user

\* Whether the request is about to flush the session.
FlushPending(c, s) ==
    /\ req[c] # Idle /\ req[c].phase = "drop"
    /\ IF req[c].op = "revoke" THEN s.apiOnly ELSE req[c].id = s.user

Explained(t) ==
    \/ sessions[t].late
    \/ sessions[t].user \in unflushed \/ t \in unflushed
    \/ \E c \in Callers : FlushPending(c, sessions[t])

\* A session that no longer agrees with its row (a role, a password, a user
\* that is disabled or gone, a revoked token) is about to be flushed, or was
\* stored by a request that had begun before the change, or belongs to a change
\* or revocation whose reply was lost: no other session outlives the change
\* ("flush so the next request re-authenticates with the new one").
OutdatedExplained == \A t \in Tokens : sessions[t] # NoSession /\ Outdated(t) => Explained(t)

\* "Refuses if removing them would leave zero enabled admins": an enabled
\* administrator remains through every sequence of demotions, disablings and
\* deletions, unless two of them overlapped between a guard and its write.
AdminRemains == raced \/ EnabledAdmins # {}
=============================================================================
