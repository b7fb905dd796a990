---------------------------- MODULE AccountsProofs ----------------------------
(* Proofs about Accounts: its types, the last administrator, and the         *)
(* sessions that outlive a change.                                           *)
EXTENDS Accounts, FiniteSetTheorems, TLAPS

(***************************************************************************)
(* Types.  A request carries what its later steps rely on: a row that was  *)
(* read, a token that was found, a body with something left to do.         *)
(***************************************************************************)
Carries(r) ==
    /\ r.op = "update" => r.body # Empty
    /\ r.op \in {"login", "change", "bearer"} => r.row \in Row
    /\ r.op = "bearer" => r.tok \in ApiTokens
    /\ r.op # "bearer" => r.tok = None

RequestsSound ==
    /\ req \in [Callers -> Request \cup {Idle}]
    /\ \A c \in Callers : req[c] # Idle => Carries(req[c])

Sound(r) == r \in Request /\ Carries(r)

LEMMA NewRequestSound ==
    ASSUME NEW op \in {"login", "change", "bearer", "update", "delete", "issue", "revoke"},
           NEW phase \in {"guard", "write", "drop", "store"}, NEW id \in Ids
    PROVE  /\ op \in {"delete", "issue", "revoke"} => Sound(NewRequest(op, phase, id))
           /\ op \in {"login", "change"} =>
                 \A row \in Row : Sound([NewRequest(op, phase, id) EXCEPT !.row = row])
           /\ op = "bearer" =>
                 \A row \in Row, tok \in ApiTokens :
                    Sound([NewRequest(op, phase, id) EXCEPT !.row = row, !.tok = tok])
           /\ op = "update" =>
                 \A body \in Body \ {Empty} : Sound([NewRequest(op, phase, id) EXCEPT !.body = body])
<1>1. NewRequest(op, phase, id) \in Request
  BY DEF NewRequest, Request, Empty, Body
<1>2. op \in {"delete", "issue", "revoke"} => Sound(NewRequest(op, phase, id))
  BY <1>1 DEF NewRequest, Sound, Carries
<1>3. op \in {"login", "change"} => \A row \in Row : Sound([NewRequest(op, phase, id) EXCEPT !.row = row])
  BY <1>1 DEF NewRequest, Request, Sound, Carries
<1>4. op = "bearer" => \A row \in Row, tok \in ApiTokens :
                          Sound([NewRequest(op, phase, id) EXCEPT !.row = row, !.tok = tok])
  BY <1>1 DEF NewRequest, Request, Sound, Carries
<1>5. op = "update" => \A body \in Body \ {Empty} : Sound([NewRequest(op, phase, id) EXCEPT !.body = body])
  BY <1>1 DEF NewRequest, Request, Sound, Carries
<1>. QED
  BY <1>2, <1>3, <1>4, <1>5

LEMMA MovedSound ==
    ASSUME NEW r, Sound(r), NEW p \in {"guard", "write", "drop", "store"}
    PROVE  Sound([r EXCEPT !.phase = p])
BY DEF Request, Sound, Carries

LEMMA AdvancedSound ==
    ASSUME NEW r, Sound(r), Done(r) # Empty, r.op = "update"
    PROVE  Sound([r EXCEPT !.body = Done(r), !.phase = "guard"])
<1>1. Done(r) \in Body
  BY DEF Done, Request, Body, Sound
<1>. QED
  BY <1>1 DEF Request, Sound, Carries

LEMMA WrittenRow ==
    ASSUME TypeOK, NEW r, Sound(r), Exists(r.id)
    PROVE  Written(r) \in Row \cup {Deleted}
<1>. DEFINE row == users[r.id]
<1>1. row \in Row
  BY DEF Exists
<1>2. CASE Stage(r) = "role"
  BY <1>1, <1>2 DEF Written, Row, NormaliseRole, Roles
<1>3. CASE Stage(r) = "disabled"
  <2>1. r.op = "update" /\ r.body.disabled \in BOOLEAN
    BY <1>3, AccountsAssumption DEF Stage, Sound, Request, Body
  <2>. QED
    BY <1>1, <1>3, <2>1 DEF Written, Row
<1>4. CASE Stage(r) = "password"
  <2>1. r.body.password \in Passwords
    BY <1>4 DEF Stage, Sound, Request, Body, Carries, Empty
  <2>. QED
    BY <1>1, <1>4, <2>1 DEF Written, Row
<1>5. CASE Stage(r) = "change"
  <2>1. r.op = "change"
    BY <1>5 DEF Stage
  <2>2. r.row \in Row
    BY <2>1 DEF Sound, Carries
  <2>. QED
    BY <1>1, <1>5, <2>2 DEF Written, Row
<1>. QED
  BY <1>2, <1>3, <1>4, <1>5 DEF Written

TypeInv == TypeOK /\ RequestsSound

\* How a request moves keeps it sound.
LEMMA RequestSteps ==
    ASSUME TypeInv, NEW c \in Callers, req[c] # Idle
    PROVE  /\ Finish(c) => RequestsSound'
           /\ \A p \in {"guard", "write", "drop", "store"} : Goto(c, p) => RequestsSound'
           /\ req[c].op = "update" /\ Advance(c) => RequestsSound'
<1>0. \A d \in Callers : req[d] \in Request \cup {Idle} /\ (req[d] # Idle => Carries(req[d]))
  BY DEF TypeInv, TypeOK, RequestsSound
<1>1. Sound(req[c])
  BY <1>0 DEF Sound
<1>2. ASSUME NEW r \in Request \cup {Idle}, r # Idle => Carries(r), req' = [req EXCEPT ![c] = r]
      PROVE  RequestsSound'
  BY <1>0, <1>2 DEF TypeInv, TypeOK, RequestsSound
<1>3. Finish(c) => RequestsSound'
  BY <1>2 DEF Finish
<1>4. ASSUME NEW p \in {"guard", "write", "drop", "store"}, Goto(c, p)
      PROVE  RequestsSound'
  <2>1. Sound([req[c] EXCEPT !.phase = p])
    BY <1>1, MovedSound
  <2>. QED
    BY <1>2, <1>4, <2>1 DEF Goto, Sound
<1>5. ASSUME req[c].op = "update", Advance(c)
      PROVE  RequestsSound'
  <2>1. CASE Done(req[c]) = Empty
    BY <1>2, <1>5, <2>1 DEF Advance
  <2>2. CASE Done(req[c]) # Empty
    <3>1. Sound([req[c] EXCEPT !.body = Done(req[c]), !.phase = "guard"])
      BY <1>1, <1>5, <2>2, AdvancedSound
    <3>. QED
      BY <1>2, <1>5, <2>2, <3>1 DEF Advance, Sound
  <2>. QED
    BY <2>1, <2>2
<1>. QED
  BY <1>3, <1>4, <1>5

LEMMA BeginStep ==
    ASSUME TypeInv, NEW c \in Callers, NEW r, Sound(r), Begin(c, r)
    PROVE  RequestsSound' /\ requests' \in Nat
BY DEF Begin, Sound, TypeInv, TypeOK, RequestsSound

LEMMA MintedSession ==
    ASSUME TypeInv, NEW c \in Callers, req[c] # Idle, req[c].op \in {"login", "change", "bearer"}
    PROVE  Minted(req[c]) \in Session
<1>1. req[c].row \in Row /\ req[c].id \in Ids
  BY DEF TypeInv, RequestsSound, Carries, Request
<1>. QED
  BY <1>1 DEF Minted, Session, Row

LEMMA DropTypes == ASSUME TypeInv, NEW T, DropSessions(T)
                   PROVE  sessions' \in [Tokens -> Session \cup {NoSession}]
BY DEF DropSessions, TypeInv, TypeOK

\* What the three kinds of write do, apart from the request.
LEMMA CommitTypes ==
    ASSUME TypeInv, NEW c \in Callers, Writing(c), Exists(req[c].id),
           Commit(c, Written(req[c])), Cascade(req[c])
    PROVE  /\ users' \in [Ids -> Row \cup {None, Deleted}]
           /\ apiTokens' \in [ApiTokens -> Ids \cup {None, Deleted}]
           /\ raced' \in BOOLEAN
<1>1. req[c] # Idle /\ Sound(req[c]) /\ req[c].id \in Ids
  BY DEF Writing, At, TypeInv, RequestsSound, Sound, Request
<1>2. Written(req[c]) \in Row \cup {Deleted}
  BY <1>1, WrittenRow DEF TypeInv
<1>3. users' \in [Ids -> Row \cup {None, Deleted}]
  BY <1>1, <1>2 DEF Commit, TypeInv, TypeOK
<1>4. apiTokens' \in [ApiTokens -> Ids \cup {None, Deleted}]
  BY DEF Cascade, TypeInv, TypeOK
<1>5. raced' \in BOOLEAN
  BY DEF Commit, TypeInv, TypeOK
<1>. QED
  BY <1>3, <1>4, <1>5

LEMMA BootstrapTypes ==
    ASSUME NEW T \in [Ids -> Row \cup {None, Deleted}]
    PROVE  BootstrapAdmin(T) \subseteq [Ids -> Row \cup {None, Deleted}]
<1>1. \A p \in Passwords : FirstAdmin(p) \in Row
  BY DEF FirstAdmin, Row, Roles
<1>. QED
  BY <1>1 DEF BootstrapAdmin

LEMMA InitTypes == Init => TypeInv
<1>. SUFFICES ASSUME Init PROVE TypeInv
  OBVIOUS
<1>1. PICK T \in Tables : users \in BootstrapAdmin(T)
  BY DEF Init
<1>2. T \in [Ids -> Row \cup {None, Deleted}]
  BY AccountsAssumption
<1>3. users \in [Ids -> Row \cup {None, Deleted}]
  BY <1>1, <1>2, BootstrapTypes
<1>4. TypeOK
  BY <1>3 DEF Init, TypeOK
<1>5. RequestsSound
  BY DEF Init, RequestsSound
<1>. QED
  BY <1>4, <1>5 DEF TypeInv

LEMMA TypeStep == TypeInv /\ [Next]_vars => TypeInv'
<1>. SUFFICES ASSUME TypeInv, [Next]_vars PROVE TypeInv'
  OBVIOUS
<1>. USE DEF TypeInv
<1>1. ASSUME NEW c \in Callers, HandleLogin(c) PROVE TypeInv'
  <2>1. PICK id \in Ids : Exists(id) /\ Begin(c, [NewRequest("login", "store", id) EXCEPT !.row = users[id]])
    BY <1>1 DEF HandleLogin
  <2>2. RequestsSound' /\ requests' \in Nat
    BY <2>1, NewRequestSound, BeginStep DEF Exists
  <2>. QED
    BY <1>1, <2>2 DEF HandleLogin, TypeOK, RequestsSound
<1>2. ASSUME NEW c \in Callers, IssueSession(c) \/ CacheBearer(c) PROVE TypeInv'
  <2>1. req[c] # Idle /\ req[c].op \in {"login", "change", "bearer"} /\ Finish(c)
    BY <1>2 DEF IssueSession, CacheBearer, At
  <2>2. RequestsSound' /\ Minted(req[c]) \in Session
    BY <2>1, RequestSteps, MintedSession
  <2>3. sessions' \in [Tokens -> Session \cup {NoSession}]
    BY <1>2, <2>2 DEF IssueSession, CacheBearer, TypeOK
  <2>. QED
    BY <1>2, <2>2, <2>3 DEF IssueSession, CacheBearer, TypeOK, RequestsSound
<1>3. ASSUME NEW c \in Callers, ResolveBearer(c) PROVE TypeInv'
  <2>1. PICK k \in ApiTokens : /\ apiTokens[k] \in Ids /\ Exists(apiTokens[k])
                               /\ Begin(c, [NewRequest("bearer", "store", apiTokens[k])
                                               EXCEPT !.row = users[apiTokens[k]], !.tok = k])
    BY <1>3 DEF ResolveBearer
  <2>2. RequestsSound' /\ requests' \in Nat
    BY <2>1, NewRequestSound, BeginStep DEF Exists
  <2>. QED
    BY <1>3, <2>2 DEF ResolveBearer, TypeOK, RequestsSound
<1>4. ASSUME NEW c \in Callers, HandleUpdateUser(c) PROVE TypeInv'
  <2>1. PICK id \in Ids, body \in Bodies : /\ body # Empty
                                           /\ Begin(c, [NewRequest("update", "guard", id) EXCEPT !.body = body])
    BY <1>4 DEF HandleUpdateUser
  <2>2. body \in Body \ {Empty}
    BY <2>1, AccountsAssumption
  <2>3. RequestsSound' /\ requests' \in Nat
    BY <2>1, <2>2, NewRequestSound, BeginStep
  <2>. QED
    BY <1>4, <2>3 DEF HandleUpdateUser, TypeOK, RequestsSound
<1>5. ASSUME NEW c \in Callers, HandleDeleteUser(c) \/ HandleCreateToken(c) PROVE TypeInv'
  <2>1. PICK id \in Ids : \/ Begin(c, NewRequest("delete", "guard", id))
                          \/ Begin(c, NewRequest("issue", "write", id))
    BY <1>5 DEF HandleDeleteUser, HandleCreateToken
  <2>2. Sound(NewRequest("delete", "guard", id)) /\ Sound(NewRequest("issue", "write", id))
    BY NewRequestSound
  <2>3. RequestsSound' /\ requests' \in Nat
    BY <2>1, <2>2, BeginStep
  <2>. QED
    BY <1>5, <2>3 DEF HandleDeleteUser, HandleCreateToken, TypeOK, RequestsSound
<1>6. ASSUME NEW c \in Callers, HandleChangePassword(c) PROVE TypeInv'
  <2>1. PICK t \in Tokens, new \in Passwords :
           /\ Validate(t) /\ Exists(sessions[t].user)
           /\ Begin(c, [NewRequest("change", "write", sessions[t].user)
                           EXCEPT !.row = [users[sessions[t].user] EXCEPT !.pw = new, !.must = FALSE]])
    BY <1>6 DEF HandleChangePassword
  <2>2. sessions[t].user \in Ids /\ users[sessions[t].user] \in Row
    BY <2>1 DEF Validate, Exists, TypeOK, Session
  <2>3. [users[sessions[t].user] EXCEPT !.pw = new, !.must = FALSE] \in Row
    BY <2>2 DEF Row
  <2>4. RequestsSound' /\ requests' \in Nat
    BY <2>1, <2>2, <2>3, NewRequestSound, BeginStep
  <2>. QED
    BY <1>6, <2>4 DEF HandleChangePassword, TypeOK, RequestsSound
<1>7. ASSUME NEW c \in Callers, Guard(c) PROVE TypeInv'
  <2>1. req[c] # Idle /\ (Goto(c, "write") \/ Finish(c))
    BY <1>7 DEF Guard, At
  <2>2. RequestsSound'
    BY <2>1, RequestSteps
  <2>. QED
    BY <1>7, <2>2 DEF Guard, TypeOK, RequestsSound
<1>8. ASSUME NEW c \in Callers, Write(c) PROVE TypeInv'
  <2>1. Writing(c) /\ Exists(req[c].id) /\ Commit(c, Written(req[c])) /\ Cascade(req[c])
    BY <1>8 DEF Write
  <2>2. req[c] # Idle /\ (~Flushes(req[c]) => req[c].op = "update")
    BY <2>1 DEF Writing, At, Flushes, Stage
  <2>3. Goto(c, "drop") \/ (req[c].op = "update" /\ Advance(c))
    BY <1>8, <2>2 DEF Write
  <2>4. RequestsSound'
    BY <2>2, <2>3, RequestSteps
  <2>. QED
    BY <1>8, <2>1, <2>4, CommitTypes DEF Write, TypeOK, RequestsSound
<1>9. ASSUME NEW c \in Callers, WriteMisses(c) PROVE TypeInv'
  <2>1. req[c] # Idle /\ (Goto(c, "drop") \/ Finish(c))
    BY <1>9 DEF WriteMisses, Writing, At
  <2>2. RequestsSound'
    BY <2>1, RequestSteps
  <2>. QED
    BY <1>9, <2>2 DEF WriteMisses, TypeOK, RequestsSound
<1>10. ASSUME NEW c \in Callers, WriteUnanswered(c) PROVE TypeInv'
  <2>1. Writing(c) /\ Exists(req[c].id) /\ Commit(c, Written(req[c])) /\ Cascade(req[c])
    BY <1>10 DEF WriteUnanswered
  <2>2. req[c] # Idle /\ (Goto(c, "drop") \/ Finish(c))
    BY <1>10 DEF WriteUnanswered, Writing, At
  <2>3. RequestsSound' /\ req[c].id \in Ids
    BY <2>2, RequestSteps DEF RequestsSound, Request
  <2>4. unflushed' \subseteq Ids \cup ApiTokens /\ failures' \in Nat
    BY <1>10, <2>3 DEF WriteUnanswered, TypeOK
  <2>. QED
    BY <1>10, <2>1, <2>3, <2>4, CommitTypes DEF WriteUnanswered, TypeOK, RequestsSound
<1>11. ASSUME NEW c \in Callers, Drop(c) PROVE TypeInv'
  <2>1. req[c] # Idle /\ (Goto(c, "store") \/ (req[c].op = "update" /\ Advance(c)) \/ Finish(c))
    <3>1. CASE req[c].op = "change"
      BY <1>11, <3>1 DEF Drop
    <3>2. CASE req[c].op = "update"
      BY <1>11, <3>2 DEF Drop
    <3>3. CASE req[c].op \notin {"change", "update"}
      BY <1>11, <3>3 DEF Drop
    <3>. QED
      BY <3>1, <3>2, <3>3
  <2>2. RequestsSound'
    BY <2>1, RequestSteps
  <2>3. sessions' \in [Tokens -> Session \cup {NoSession}] /\ unflushed' \subseteq Ids \cup ApiTokens
    BY <1>11, DropTypes DEF Drop, FlushUser, TypeOK
  <2>. QED
    BY <1>11, <2>2, <2>3 DEF Drop, TypeOK, RequestsSound
<1>12. ASSUME NEW c \in Callers, InsertToken(c) PROVE TypeInv'
  <2>1. req[c] # Idle /\ Finish(c)
    BY <1>12 DEF InsertToken, At
  <2>2. RequestsSound' /\ req[c].id \in Ids
    BY <2>1, RequestSteps DEF RequestsSound, Request
  <2>3. apiTokens' \in [ApiTokens -> Ids \cup {None, Deleted}]
    BY <1>12, <2>2 DEF InsertToken, TypeOK
  <2>. QED
    BY <1>12, <2>2, <2>3 DEF InsertToken, TypeOK, RequestsSound
<1>13. ASSUME NEW c \in Callers, HandleRevokeToken(c) PROVE TypeInv'
  <2>1. PICK k \in ApiTokens : apiTokens[k] \in Ids /\ apiTokens' = [apiTokens EXCEPT ![k] = Deleted]
                               /\ Begin(c, NewRequest("revoke", "drop", apiTokens[k]))
    BY <1>13 DEF HandleRevokeToken
  <2>2. RequestsSound' /\ requests' \in Nat
    BY <2>1, NewRequestSound, BeginStep
  <2>3. apiTokens' \in [ApiTokens -> Ids \cup {None, Deleted}]
    BY <2>1 DEF TypeOK
  <2>. QED
    BY <1>13, <2>2, <2>3 DEF HandleRevokeToken, TypeOK, RequestsSound
<1>14. ASSUME NEW c \in Callers, DropApiSessions(c) PROVE TypeInv'
  <2>1. req[c] # Idle /\ Finish(c)
    BY <1>14 DEF DropApiSessions, At
  <2>2. RequestsSound'
    BY <2>1, RequestSteps
  <2>3. sessions' \in [Tokens -> Session \cup {NoSession}]
    BY <1>14, DropTypes DEF DropApiSessions
  <2>. QED
    BY <1>14, <2>2, <2>3 DEF DropApiSessions, TypeOK, RequestsSound
<1>15. ASSUME NEW t \in Tokens, HandleLogout(t) \/ Expire(t) \/ Sweep(t) PROVE TypeInv'
  <2>1. sessions' \in [Tokens -> Session \cup {NoSession}]
    <3>1. CASE HandleLogout(t) \/ Sweep(t)
      BY <3>1 DEF HandleLogout, Sweep, TypeOK
    <3>2. CASE Expire(t)
      <4>1. sessions[t] \in Session /\ sessions' = [sessions EXCEPT ![t] = [sessions[t] EXCEPT !.expired = TRUE]]
        BY <3>2 DEF Expire, Validate, TypeOK
      <4>2. [sessions[t] EXCEPT !.expired = TRUE] \in Session
        BY <4>1 DEF Session
      <4>. QED
        BY <4>1, <4>2 DEF TypeOK
    <3>. QED
      BY <1>15, <3>1, <3>2
  <2>. QED
    BY <1>15, <2>1 DEF HandleLogout, Expire, Sweep, TypeOK, RequestsSound
<1>16. ASSUME HandleCreateUser PROVE TypeInv'
  <2>1. PICK id \in Ids, role \in Roles, p \in Passwords \cup {Nonce} : users' = [users EXCEPT ![id] = NewUser(role, p)]
    BY <1>16 DEF HandleCreateUser
  <2>2. NewUser(role, p) \in Row
    BY DEF NewUser, Row, NormaliseRole, Roles
  <2>3. users' \in [Ids -> Row \cup {None, Deleted}]
    BY <2>1, <2>2 DEF TypeOK
  <2>. QED
    BY <1>16, <2>3 DEF HandleCreateUser, TypeOK, RequestsSound
<1>17. ASSUME Restart PROVE TypeInv'
  <2>1. users' \in [Ids -> Row \cup {None, Deleted}]
    BY <1>17, BootstrapTypes DEF Restart, TypeOK
  <2>. QED
    BY <1>17, <2>1 DEF Restart, TypeOK, RequestsSound
<1>18. CASE UNCHANGED vars
  BY <1>18 DEF vars, TypeOK, RequestsSound
<1>19. ASSUME RevokeUnanswered PROVE TypeInv'
  BY <1>19 DEF RevokeUnanswered, TypeOK, RequestsSound
<1>. QED
  BY <1>1, <1>2, <1>3, <1>4, <1>5, <1>6, <1>7, <1>8, <1>9, <1>10, <1>11, <1>12, <1>13, <1>14,
     <1>15, <1>16, <1>17, <1>18, <1>19 DEF Next

LEMMA AlwaysTyped == Spec => []TypeInv
<1>1. Init => TypeInv
  BY InitTypes
<1>2. TypeInv /\ [Next]_vars => TypeInv'
  BY TypeStep
<1>. QED
  BY <1>1, <1>2, PTL DEF Spec

\* Every variable keeps its type, whatever requests, restarts and lost replies
\* come together.
THEOREM AccountsTypeCorrect == Spec => []TypeOK
BY AlwaysTyped, PTL DEF TypeInv

(***************************************************************************)
(* The last administrator.  While no two removals overlapped, whoever has  *)
(* passed the guard of a removal leaves another enabled administrator.     *)
(***************************************************************************)
Removing(c) == req[c] # Idle /\ req[c].phase = "write" /\ Removes(req[c])

AdminInv ==
    raced \/ /\ EnabledAdmins # {}
             /\ \A c \in Callers : Removing(c) => \E b \in EnabledAdmins : b # req[c].id

\* The count of guardLastAdmin finds another administrator.
LEMMA GuardFindsAnother ==
    ASSUME NEW id \in Ids, GuardLastAdmin(id), EnabledAdmins # {}
    PROVE  \E b \in EnabledAdmins : b # id
<1>1. CASE id \notin EnabledAdmins
  BY <1>1
<1>2. CASE id \in EnabledAdmins
  <2>1. IsFiniteSet(EnabledAdmins)
    BY FS_Subset, AccountsAssumption DEF EnabledAdmins
  <2>2. Cardinality(EnabledAdmins) \in Nat
    BY <2>1, FS_CardinalityType
  <2>3. ~(Cardinality(EnabledAdmins) <= 1)
    BY <1>2 DEF GuardLastAdmin
  <2>4. SUFFICES ASSUME EnabledAdmins = {id} PROVE FALSE
    BY <1>2
  <2>5. Cardinality({id}) = 1
    BY FS_Singleton
  <2>. QED
    BY <2>3, <2>4, <2>5
<1>. QED
  BY <1>1, <1>2

\* Only a removal takes an enabled administrator away.
LEMMA WriteRemoves ==
    ASSUME TypeInv, NEW c \in Callers, Writing(c), Exists(req[c].id),
           EnabledAdmin(users[req[c].id]), ~EnabledAdmin(Written(req[c]))
    PROVE  Removing(c)
<1>. DEFINE r == req[c]
            row == users[r.id]
<1>1. r # Idle /\ Sound(r) /\ r.phase = "write" /\ r.op \in {"update", "delete", "change"}
  BY DEF Writing, At, TypeInv, RequestsSound, Sound
<1>2. row \in Row /\ row.role \in {"superadmin", "admin"} /\ ~row.disabled
  BY DEF EnabledAdmin
<1>3. Written(r) \in Row \cup {Deleted}
  BY <1>1, WrittenRow DEF TypeInv
<1>4. CASE Stage(r) = "role"
  <2>1. Written(r).role = NormaliseRole(r.body.role) /\ Written(r).disabled = row.disabled /\ Written(r) \in Row
    BY <1>2, <1>4, <1>3, AccountsAssumption DEF Written, Row, NormaliseRole, Roles
  <2>. QED
    BY <1>1, <1>2, <1>4, <2>1 DEF Removing, Removes, EnabledAdmin, NormaliseRole
<1>5. CASE Stage(r) = "disabled"
  <2>1. r.body.disabled \in BOOLEAN
    BY <1>1, <1>5 DEF Stage, Sound, Request, Body
  <2>2. Written(r).disabled = r.body.disabled /\ Written(r).role = row.role
    BY <1>2, <1>5 DEF Written, Row
  <2>3. Written(r) \in Row
    BY <1>2, <1>5, <2>1 DEF Written, Row
  <2>. QED
    BY <1>1, <1>2, <1>5, <2>1, <2>2, <2>3 DEF Removing, Removes, EnabledAdmin
<1>6. CASE Stage(r) = "password" \/ Stage(r) = "change"
  <2>1. Written(r).disabled = row.disabled /\ Written(r).role = row.role
    BY <1>2, <1>6 DEF Written, Row
  <2>3. CASE Stage(r) = "password"
    <3>1. Written(r) \in Row
      <4>1. r.body.password \in Passwords
        BY <1>1, <2>3 DEF Stage, Sound, Request, Body, Carries, Empty
      <4>. QED
        BY <1>2, <2>3, <4>1 DEF Written, Row
    <3>. QED
      BY <1>2, <2>1, <3>1 DEF EnabledAdmin
  <2>4. CASE Stage(r) = "change"
    <3>1. r.row \in Row
      BY <1>1, <2>4 DEF Stage, Sound, Carries
    <3>2. Written(r) \in Row
      BY <1>2, <2>4, <3>1 DEF Written, Row
    <3>. QED
      BY <1>2, <2>1, <3>2 DEF EnabledAdmin
  <2>. QED
    BY <1>6, <2>3, <2>4
<1>7. CASE Stage(r) = "delete"
  BY <1>1, <1>7 DEF Removing, Removes, Stage
<1>8. Stage(r) \in {"role", "disabled", "password", "change", "delete"}
  BY <1>1 DEF Stage
<1>. QED
  BY <1>4, <1>5, <1>6, <1>7, <1>8

\* Nobody comes to the write of a removal but through its guard.
NoNewRemoval == \A d \in Callers : Removing(d)' => Removing(d) /\ req'[d].id = req[d].id

LEMMA RemovalSteps ==
    ASSUME TypeInv, NEW c \in Callers
    PROVE  /\ Finish(c) => NoNewRemoval
           /\ \A p \in {"guard", "drop", "store"} : req[c] # Idle /\ Goto(c, p) => NoNewRemoval
           /\ req[c] # Idle /\ Advance(c) => NoNewRemoval
           /\ \A r : Begin(c, r) /\ ~(r.phase = "write" /\ Removes(r)) => NoNewRemoval
<1>1. ASSUME NEW r, req' = [req EXCEPT ![c] = r], r = Idle \/ r.phase # "write" \/ ~Removes(r)
      PROVE  NoNewRemoval
  BY <1>1 DEF NoNewRemoval, Removing, TypeInv, RequestsSound
<1>2. Finish(c) => NoNewRemoval
  BY <1>1 DEF Finish
<1>3. ASSUME NEW p \in {"guard", "drop", "store"}, req[c] # Idle, Goto(c, p)
      PROVE  NoNewRemoval
  <2>1. [req[c] EXCEPT !.phase = p].phase # "write"
    BY <1>3 DEF TypeInv, RequestsSound, Request
  <2>. QED
    BY <1>1, <1>3, <2>1 DEF Goto
<1>4. ASSUME req[c] # Idle, Advance(c) PROVE NoNewRemoval
  <2>1. \A b : [req[c] EXCEPT !.body = b, !.phase = "guard"].phase # "write"
    BY <1>4 DEF TypeInv, RequestsSound, Request
  <2>2. CASE Done(req[c]) = Empty
    BY <1>1, <1>4, <2>2 DEF Advance
  <2>3. CASE Done(req[c]) # Empty
    BY <1>1, <1>4, <2>1, <2>3 DEF Advance
  <2>. QED
    BY <2>2, <2>3
<1>5. ASSUME NEW r, Begin(c, r), ~(r.phase = "write" /\ Removes(r)) PROVE NoNewRemoval
  BY <1>1, <1>5 DEF Begin
<1>. QED
  BY <1>2, <1>3, <1>4, <1>5

LEMMA NewRequestNoRemoval ==
    ASSUME NEW id
    PROVE  /\ \A phase, row : ~Removes([NewRequest("login", phase, id) EXCEPT !.row = row])
           /\ \A phase, row : ~Removes([NewRequest("change", phase, id) EXCEPT !.row = row])
           /\ \A phase, row, tok : ~Removes([NewRequest("bearer", phase, id) EXCEPT !.row = row, !.tok = tok])
           /\ \A body : [NewRequest("update", "guard", id) EXCEPT !.body = body].phase = "guard"
           /\ NewRequest("delete", "guard", id).phase = "guard"
           /\ ~Removes(NewRequest("issue", "write", id))
           /\ ~Removes(NewRequest("revoke", "drop", id))
BY DEF NewRequest, Removes, Stage

\* A step that takes nobody away and lets nobody past a guard.
LEMMA HarmlessStep ==
    ASSUME AdminInv, NoNewRemoval, raced' = raced,
           \A id \in Ids : EnabledAdmin(users[id]) => EnabledAdmin(users'[id])
    PROVE  AdminInv'
<1>1. EnabledAdmins \subseteq EnabledAdmins'
  BY DEF EnabledAdmins
<1>. QED
  BY <1>1 DEF AdminInv, NoNewRemoval

\* A write that takes an administrator away leaves the one its guard found,
\* and nobody else is past a guard.
LEMMA CommitStep ==
    ASSUME TypeInv, AdminInv, NoNewRemoval, NEW c \in Callers, ~Removing(c)', Writing(c), Exists(req[c].id),
           Commit(c, Written(req[c]))
    PROVE  AdminInv'
<1>. DEFINE id == req[c].id
            row == Written(req[c])
<1>1. id \in Ids /\ users' = [users EXCEPT ![id] = row] /\ users \in [Ids -> Row \cup {None, Deleted}]
  BY DEF Commit, Writing, At, TypeInv, TypeOK, RequestsSound, Request
<1>2. CASE EnabledAdmin(users[id]) /\ ~EnabledAdmin(row)
  <2>1. Removing(c)
    BY <1>2, WriteRemoves
  <2>2. CASE \E d \in Callers \ {c} : Removing(d)
    <3>1. raced'
      BY <1>1, <1>2, <2>2 DEF Commit, Removing, EnabledAdmins
    <3>. QED
      BY <3>1 DEF AdminInv
  <2>3. CASE ~\E d \in Callers \ {c} : Removing(d)
    <3>1. \A d \in Callers : ~Removing(d)'
      BY <2>3 DEF NoNewRemoval
    <3>2. raced \/ \E b \in EnabledAdmins : b # id
      BY <2>1 DEF AdminInv
    <3>3. raced => raced'
      BY DEF Commit
    <3>4. \A b \in EnabledAdmins : b # id => b \in EnabledAdmins'
      BY <1>1 DEF EnabledAdmins
    <3>. QED
      BY <3>1, <3>2, <3>3, <3>4 DEF AdminInv
  <2>. QED
    BY <2>2, <2>3
<1>3. CASE ~(EnabledAdmin(users[id]) /\ ~EnabledAdmin(row))
  <2>1. raced' = raced
    BY <1>1, <1>3 DEF Commit, EnabledAdmins, TypeInv, TypeOK
  <2>2. \A i \in Ids : EnabledAdmin(users[i]) => EnabledAdmin(users'[i])
    BY <1>1, <1>3
  <2>. QED
    BY <2>1, <2>2, HarmlessStep
<1>. QED
  BY <1>2, <1>3

\* The steps of a request that leave the users alone and pass no guard.
QuietRequest(c) ==
    \/ HandleLogin(c) \/ IssueSession(c) \/ ResolveBearer(c) \/ CacheBearer(c)
    \/ HandleUpdateUser(c) \/ HandleDeleteUser(c) \/ HandleChangePassword(c)
    \/ WriteMisses(c) \/ Drop(c)
    \/ HandleCreateToken(c) \/ InsertToken(c) \/ HandleRevokeToken(c) \/ DropApiSessions(c)

LEMMA QuietRequestStep ==
    ASSUME TypeInv, NEW c \in Callers, QuietRequest(c)
    PROVE  NoNewRemoval /\ UNCHANGED <<users, raced>>
<1>1. ASSUME HandleLogin(c) \/ ResolveBearer(c) \/ HandleUpdateUser(c) \/ HandleDeleteUser(c)
             \/ HandleChangePassword(c) \/ HandleCreateToken(c) \/ HandleRevokeToken(c)
      PROVE  NoNewRemoval /\ UNCHANGED <<users, raced>>
  <2>1. PICK r : Begin(c, r) /\ ~(r.phase = "write" /\ Removes(r))
    <3>1. CASE HandleLogin(c)
      BY <3>1, NewRequestNoRemoval DEF HandleLogin
    <3>2. CASE ResolveBearer(c)
      BY <3>2, NewRequestNoRemoval DEF ResolveBearer
    <3>3. CASE HandleUpdateUser(c)
      BY <3>3, NewRequestNoRemoval DEF HandleUpdateUser
    <3>4. CASE HandleDeleteUser(c)
      BY <3>4, NewRequestNoRemoval DEF HandleDeleteUser
    <3>5. CASE HandleChangePassword(c)
      BY <3>5, NewRequestNoRemoval DEF HandleChangePassword
    <3>6. CASE HandleCreateToken(c)
      BY <3>6, NewRequestNoRemoval DEF HandleCreateToken
    <3>7. CASE HandleRevokeToken(c)
      BY <3>7, NewRequestNoRemoval DEF HandleRevokeToken
    <3>. QED
      BY <1>1, <3>1, <3>2, <3>3, <3>4, <3>5, <3>6, <3>7
  <2>2. UNCHANGED <<users, raced>>
    BY <1>1 DEF HandleLogin, ResolveBearer, HandleUpdateUser, HandleDeleteUser, HandleChangePassword,
                HandleCreateToken, HandleRevokeToken
  <2>. QED
    BY <2>1, <2>2, RemovalSteps
<1>2. ASSUME IssueSession(c) \/ CacheBearer(c) \/ InsertToken(c) \/ DropApiSessions(c)
      PROVE  NoNewRemoval /\ UNCHANGED <<users, raced>>
  BY <1>2, RemovalSteps DEF IssueSession, CacheBearer, InsertToken, DropApiSessions
<1>3. ASSUME WriteMisses(c) PROVE NoNewRemoval /\ UNCHANGED <<users, raced>>
  <2>1. req[c] # Idle /\ (Goto(c, "drop") \/ Finish(c))
    BY <1>3 DEF WriteMisses, Writing, At
  <2>. QED
    BY <1>3, <2>1, RemovalSteps DEF WriteMisses
<1>4. ASSUME Drop(c) PROVE NoNewRemoval /\ UNCHANGED <<users, raced>>
  <2>1. req[c] # Idle /\ (Goto(c, "store") \/ Advance(c) \/ Finish(c))
    <3>1. CASE req[c].op = "change"
      BY <1>4, <3>1 DEF Drop
    <3>2. CASE req[c].op = "update"
      BY <1>4, <3>2 DEF Drop
    <3>3. CASE req[c].op \notin {"change", "update"}
      BY <1>4, <3>3 DEF Drop
    <3>. QED
      BY <3>1, <3>2, <3>3
  <2>. QED
    BY <1>4, <2>1, RemovalSteps DEF Drop
<1>. QED
  BY <1>1, <1>2, <1>3, <1>4 DEF QuietRequest

LEMMA AdminStep == TypeInv /\ AdminInv /\ [Next]_vars => AdminInv'
<1>. SUFFICES ASSUME TypeInv, AdminInv, [Next]_vars PROVE AdminInv'
  OBVIOUS
<1>1. ASSUME NEW c \in Callers, QuietRequest(c) PROVE AdminInv'
  BY <1>1, QuietRequestStep, HarmlessStep
<1>2. ASSUME NEW c \in Callers, Guard(c) PROVE AdminInv'
  <2>1. req[c] # Idle /\ (Goto(c, "write") \/ Finish(c)) /\ UNCHANGED <<users, raced>>
    BY <1>2 DEF Guard, At
  <2>2. CASE Finish(c)
    BY <2>1, <2>2, RemovalSteps, HarmlessStep
  <2>3. CASE Goto(c, "write") /\ ~Finish(c)
    <3>1. Removes(req[c]) => GuardLastAdmin(req[c].id)
      BY <1>2, <2>3 DEF Guard, Passes
    <3>2. req[c].id \in Ids /\ req'[c].id = req[c].id /\ Removes(req'[c]) = Removes(req[c])
      BY <2>1, <2>3 DEF Goto, TypeInv, RequestsSound, Request, Removes, Stage
    <3>3. \A d \in Callers \ {c} : Removing(d)' => Removing(d) /\ req'[d].id = req[d].id
      BY <2>3 DEF Goto, Removing, TypeInv, RequestsSound
    <3>4. raced \/ \A d \in Callers : Removing(d)' => \E b \in EnabledAdmins : b # req'[d].id
      BY <3>1, <3>2, <3>3, GuardFindsAnother DEF AdminInv, Removing
    <3>. QED
      BY <2>1, <3>4 DEF AdminInv, EnabledAdmins
  <2>. QED
    BY <2>1, <2>2, <2>3
<1>3. ASSUME NEW c \in Callers, Write(c) \/ WriteUnanswered(c) PROVE AdminInv'
  <2>1. Writing(c) /\ Exists(req[c].id) /\ Commit(c, Written(req[c]))
    BY <1>3 DEF Write, WriteUnanswered
  <2>2. req[c] # Idle /\ (Goto(c, "drop") \/ Advance(c) \/ Finish(c))
    BY <1>3 DEF Write, WriteUnanswered, Writing, At
  <2>3. NoNewRemoval
    BY <2>2, RemovalSteps
  <2>4. ~Removing(c)'
    BY <2>2 DEF Goto, Advance, Finish, Removing, TypeInv, RequestsSound, Request
  <2>. QED
    BY <2>1, <2>3, <2>4, CommitStep
<1>4. ASSUME NEW t \in Tokens, HandleLogout(t) \/ Expire(t) \/ Sweep(t) PROVE AdminInv'
  <2>1. NoNewRemoval /\ UNCHANGED <<users, raced>>
    BY <1>4 DEF HandleLogout, Expire, Sweep, NoNewRemoval, Removing
  <2>. QED
    BY <2>1, HarmlessStep
<1>5. ASSUME HandleCreateUser PROVE AdminInv'
  <2>1. NoNewRemoval /\ raced' = raced
    BY <1>5 DEF HandleCreateUser, NoNewRemoval, Removing
  <2>2. PICK id \in Ids, role \in Roles, p \in Passwords \cup {Nonce} :
           users[id] = None /\ users' = [users EXCEPT ![id] = NewUser(role, p)]
    BY <1>5 DEF HandleCreateUser
  <2>3. \A i \in Ids : EnabledAdmin(users[i]) => EnabledAdmin(users'[i])
    BY <2>2, AccountsAssumption DEF EnabledAdmin, TypeInv, TypeOK
  <2>. QED
    BY <2>1, <2>3, HarmlessStep
<1>6. ASSUME Restart PROVE AdminInv'
  <2>1. \A d \in Callers : ~Removing(d)'
    BY <1>6 DEF Restart, Removing
  <2>2. EnabledAdmins # {} => users' = users
    BY <1>6 DEF Restart, BootstrapAdmin, EnabledAdmins, EnabledAdmin
  <2>. QED
    BY <1>6, <2>1, <2>2 DEF Restart, AdminInv, EnabledAdmins
<1>7. CASE UNCHANGED vars
  BY <1>7 DEF vars, AdminInv, Removing, EnabledAdmins
<1>8. ASSUME RevokeUnanswered PROVE AdminInv'
  BY <1>8 DEF RevokeUnanswered, AdminInv, Removing, EnabledAdmins
<1>. QED
  BY <1>1, <1>2, <1>3, <1>4, <1>5, <1>6, <1>7, <1>8 DEF Next, QuietRequest

LEMMA AdminInit == Init => AdminInv
<1>. SUFFICES ASSUME Init PROVE AdminInv
  OBVIOUS
<1>1. \A c \in Callers : ~Removing(c)
  BY DEF Init, Removing
<1>2. PICK T \in Tables : users \in BootstrapAdmin(T)
  BY DEF Init
<1>3. CASE \E i \in Ids : T[i] \in Row
  <2>1. users = T
    BY <1>2, <1>3 DEF BootstrapAdmin
  <2>2. None \notin Row
    BY AccountsAssumption
  <2>3. \E i \in Ids : EnabledAdmin(T[i])
    BY <1>3, <2>2, AccountsAssumption
  <2>. QED
    BY <1>1, <2>1, <2>3 DEF AdminInv, EnabledAdmins
<1>4. CASE ~\E i \in Ids : T[i] \in Row
  <2>1. PICK i \in Ids, p \in Passwords : users = [T EXCEPT ![i] = FirstAdmin(p)]
    BY <1>2, <1>4 DEF BootstrapAdmin
  <2>2. EnabledAdmin(FirstAdmin(p))
    BY DEF EnabledAdmin, FirstAdmin, Row, Roles
  <2>3. T \in [Ids -> Row \cup {None}]
    BY AccountsAssumption
  <2>. QED
    BY <1>1, <2>1, <2>2, <2>3 DEF AdminInv, EnabledAdmins
<1>. QED
  BY <1>3, <1>4

\* An enabled administrator remains through every sequence of demotions,
\* disablings and deletions, unless one committed while another was between
\* its guard and its write.
THEOREM AdminAlwaysRemains == Spec => []AdminRemains
<1>1. Init => AdminInv
  BY AdminInit
<1>2. TypeInv /\ AdminInv /\ [Next]_vars => AdminInv'
  BY AdminStep
<1>3. AdminInv => AdminRemains
  BY DEF AdminInv, AdminRemains
<1>. QED
  BY <1>1, <1>2, <1>3, AlwaysTyped, PTL DEF Spec

(***************************************************************************)
(* Sessions that outlive a change.  Tokens, and the sessions cached for    *)
(* them, belong to api-only users, so the flush of a revocation finds the  *)
(* session of the token it revoked.                                        *)
(***************************************************************************)
ApiUser(id) == users[id] # None /\ (Exists(id) => users[id].apiOnly)

ApiRequest(c) == req[c] # Idle => /\ req[c].op = "issue" => ApiUser(req[c].id)
                                  /\ req[c].op = "bearer" => req[c].row.apiOnly

ApiInv ==
    /\ \A t \in ApiTokens : sessions[t] # NoSession => sessions[t].apiOnly
    /\ \A k \in ApiTokens : apiTokens[k] \in Ids => ApiUser(apiTokens[k])
    /\ \A c \in Callers : ApiRequest(c)

\* Nothing makes an api-only user any other.
LEMMA ApiUserStable ==
    ASSUME TypeInv, [Next]_vars, NEW id \in Ids, ApiUser(id)
    PROVE  ApiUser(id)'
<1>1. ASSUME NEW c \in Callers, Write(c) \/ WriteUnanswered(c) PROVE ApiUser(id)'
  <2>1. Exists(req[c].id) /\ users' = [users EXCEPT ![req[c].id] = Written(req[c])] /\ req[c] # Idle
    BY <1>1 DEF Write, WriteUnanswered, Commit, Writing, At
  <2>2. users[req[c].id] \in Row
    BY <2>1 DEF Exists
  <2>3. Written(req[c]) # Deleted => Written(req[c]).apiOnly = users[req[c].id].apiOnly
    <3>1. CASE Stage(req[c]) \in {"role", "disabled", "password", "change"}
      BY <2>2, <3>1 DEF Written, Row
    <3>2. CASE Stage(req[c]) \notin {"role", "disabled", "password", "change"}
      BY <3>2 DEF Written
    <3>. QED
      BY <3>1, <3>2
  <2>4. None # Deleted /\ None \notin Row /\ Deleted \notin Row
    BY AccountsAssumption
  <2>5. Written(req[c]) \in Row \cup {Deleted}
    BY <2>1, WrittenRow DEF TypeInv, RequestsSound, Sound
  <2>. QED
    BY <2>1, <2>3, <2>4, <2>5 DEF ApiUser, Exists, TypeInv, TypeOK
<1>2. ASSUME HandleCreateUser \/ Restart PROVE ApiUser(id)'
  <2>1. users'[id] = users[id]
    <3>1. CASE HandleCreateUser
      BY <3>1 DEF HandleCreateUser, ApiUser, TypeInv, TypeOK
    <3>2. CASE Restart
      BY <3>2 DEF Restart, BootstrapAdmin, ApiUser, TypeInv, TypeOK
    <3>. QED
      BY <1>2, <3>1, <3>2
  <2>. QED
    BY <2>1 DEF ApiUser, Exists
<1>3. CASE UNCHANGED users
  BY <1>3 DEF ApiUser, Exists
<1>. QED
  BY <1>1, <1>2, <1>3 DEF Next, vars, HandleLogin, IssueSession, ResolveBearer, CacheBearer, HandleUpdateUser,
     HandleDeleteUser, HandleChangePassword, Guard, WriteMisses, Drop, HandleCreateToken, InsertToken,
     HandleRevokeToken, RevokeUnanswered, DropApiSessions, HandleLogout, Expire, Sweep

\* What ApiInv says of requests survives when a request moves on or ends.
LEMMA ApiRequests ==
    ASSUME TypeInv, ApiInv, [Next]_vars, NEW c \in Callers, NEW r,
           req' = [req EXCEPT ![c] = r],
           r # Idle => /\ r.op = "issue" => ApiUser(r.id)
                       /\ r.op = "bearer" => r.row.apiOnly
    PROVE  \A d \in Callers : ApiRequest(d)'
<1>. SUFFICES ASSUME NEW d \in Callers, req'[d] # Idle PROVE ApiRequest(d)'
  BY DEF ApiRequest
<1>1. PICK q : q = req'[d]
  OBVIOUS
<1>2. /\ q.op = "issue" => ApiUser(q.id)
      /\ q.op = "bearer" => q.row.apiOnly
  BY <1>1 DEF ApiInv, ApiRequest, TypeInv, RequestsSound
<1>3. q.id \in Ids
  BY <1>1, TypeStep DEF TypeInv, RequestsSound, Request
<1>4. q.op = "issue" => ApiUser(q.id)'
  BY <1>2, <1>3, ApiUserStable
<1>. QED
  BY <1>1, <1>2, <1>4 DEF ApiRequest, ApiUser, Exists

LEMMA DropMoves ==
    ASSUME NEW c \in Callers, Drop(c)
    PROVE  Advance(c) \/ Finish(c) \/ Goto(c, "store")
<1>1. CASE req[c].op = "change"
  BY <1>1 DEF Drop
<1>2. CASE req[c].op = "update"
  BY <1>2 DEF Drop
<1>3. CASE req[c].op \notin {"change", "update"}
  BY <1>3 DEF Drop
<1>. QED
  BY <1>1, <1>2, <1>3

LEMMA NewRequestKind ==
    ASSUME NEW id, NEW phase, NEW x
    PROVE  /\ [NewRequest("login", phase, id) EXCEPT !.row = x].op = "login"
           /\ [NewRequest("change", phase, id) EXCEPT !.row = x].op = "change"
           /\ [NewRequest("update", phase, id) EXCEPT !.body = x].op = "update"
           /\ NewRequest("delete", phase, id).op = "delete"
           /\ NewRequest("revoke", phase, id).op = "revoke"
BY DEF NewRequest

\* A request that begins is of a kind that needs nothing, or was checked.
LEMMA ApiStep == TypeInv /\ ApiInv /\ [Next]_vars => ApiInv'
<1>. SUFFICES ASSUME TypeInv, ApiInv, [Next]_vars PROVE ApiInv'
  OBVIOUS
<1>0. TypeInv'
  BY TypeStep
<1>1. \A d \in Callers : ApiRequest(d)'
  <2>1. ASSUME NEW c \in Callers, NEW r, req' = [req EXCEPT ![c] = r],
               r # Idle => /\ r.op = "issue" => ApiUser(r.id)
                           /\ r.op = "bearer" => r.row.apiOnly
        PROVE  \A d \in Callers : ApiRequest(d)'
    BY <2>1, ApiRequests
  <2>2. ASSUME NEW c \in Callers, req[c] # Idle,
               Finish(c) \/ Advance(c) \/ \E p \in {"write", "drop", "store"} : Goto(c, p)
        PROVE  \A d \in Callers : ApiRequest(d)'
    <3>1. ApiRequest(c) /\ req[c] \in Request
      BY <2>2 DEF ApiInv, TypeInv, RequestsSound
    <3>2. CASE Finish(c)
      BY <2>1, <3>2 DEF Finish
    <3>3. CASE Advance(c)
      <4>1. PICK b : req' = [req EXCEPT ![c] = IF b = Empty THEN Idle ELSE [req[c] EXCEPT !.body = b, !.phase = "guard"]]
        BY <3>3 DEF Advance
      <4>2. LET r == [req[c] EXCEPT !.body = b, !.phase = "guard"]
            IN  r.op = req[c].op /\ r.id = req[c].id /\ r.row = req[c].row
        BY <3>1 DEF Request
      <4>. QED
        BY <2>1, <2>2, <3>1, <4>1, <4>2 DEF ApiRequest
    <3>4. ASSUME NEW p \in {"write", "drop", "store"}, Goto(c, p) PROVE \A d \in Callers : ApiRequest(d)'
      <4>1. LET r == [req[c] EXCEPT !.phase = p]
            IN  r.op = req[c].op /\ r.id = req[c].id /\ r.row = req[c].row
        BY <3>1 DEF Request
      <4>. QED
        BY <2>1, <2>2, <3>1, <3>4, <4>1 DEF ApiRequest, Goto
    <3>. QED
      BY <2>2, <3>2, <3>3, <3>4
  <2>3. ASSUME NEW c \in Callers, NEW r, Begin(c, r),
               /\ r.op = "issue" => ApiUser(r.id)
               /\ r.op = "bearer" => r.row.apiOnly
        PROVE  \A d \in Callers : ApiRequest(d)'
    BY <2>1, <2>3 DEF Begin
  <2>4. ASSUME NEW c \in Callers,
               HandleLogin(c) \/ HandleUpdateUser(c) \/ HandleDeleteUser(c) \/ HandleChangePassword(c) \/ HandleRevokeToken(c)
        PROVE  \A d \in Callers : ApiRequest(d)'
    <3>1. PICK r : Begin(c, r) /\ r.op \notin {"issue", "bearer"}
      <4>1. CASE HandleLogin(c)
        BY <4>1, NewRequestKind DEF HandleLogin
      <4>2. CASE HandleUpdateUser(c)
        BY <4>2, NewRequestKind DEF HandleUpdateUser
      <4>3. CASE HandleDeleteUser(c)
        BY <4>3, NewRequestKind DEF HandleDeleteUser
      <4>4. CASE HandleChangePassword(c)
        BY <4>4, NewRequestKind DEF HandleChangePassword
      <4>5. CASE HandleRevokeToken(c)
        BY <4>5, NewRequestKind DEF HandleRevokeToken
      <4>. QED
        BY <2>4, <4>1, <4>2, <4>3, <4>4, <4>5
    <3>. QED
      BY <2>3, <3>1
  <2>5. ASSUME NEW c \in Callers, HandleCreateToken(c) PROVE \A d \in Callers : ApiRequest(d)'
    <3>1. PICK id \in Ids : ApiUser(id) /\ Begin(c, NewRequest("issue", "write", id))
      BY <2>5, AccountsAssumption DEF HandleCreateToken, ApiUser, Exists
    <3>. QED
      BY <2>3, <3>1 DEF NewRequest
  <2>6. ASSUME NEW c \in Callers, ResolveBearer(c) PROVE \A d \in Callers : ApiRequest(d)'
    <3>1. PICK k \in ApiTokens :
             /\ apiTokens[k] \in Ids /\ Exists(apiTokens[k])
             /\ Begin(c, [NewRequest("bearer", "store", apiTokens[k]) EXCEPT !.row = users[apiTokens[k]], !.tok = k])
      BY <2>6 DEF ResolveBearer
    <3>2. users[apiTokens[k]].apiOnly
      BY <3>1 DEF ApiInv, ApiUser
    <3>3. LET r == [NewRequest("bearer", "store", apiTokens[k]) EXCEPT !.row = users[apiTokens[k]], !.tok = k]
          IN  r.op = "bearer" /\ r.row = users[apiTokens[k]]
      BY DEF NewRequest
    <3>. QED
      BY <2>3, <3>1, <3>2, <3>3
  <2>7. ASSUME NEW c \in Callers, IssueSession(c) \/ CacheBearer(c) \/ InsertToken(c) \/ DropApiSessions(c) \/ Guard(c)
                                  \/ Write(c) \/ WriteMisses(c) \/ WriteUnanswered(c) \/ Drop(c)
        PROVE  \A d \in Callers : ApiRequest(d)'
    <3>1. req[c] # Idle
      BY <2>7 DEF IssueSession, CacheBearer, InsertToken, DropApiSessions, Guard, Write, WriteMisses, WriteUnanswered,
                  Drop, Writing, At
    <3>2. CASE Drop(c)
      BY <2>2, <3>1, <3>2, DropMoves
    <3>3. CASE ~Drop(c)
      BY <2>2, <2>7, <3>1, <3>3 DEF IssueSession, CacheBearer, InsertToken, DropApiSessions, Guard, Write, WriteMisses,
                                    WriteUnanswered
    <3>. QED
      BY <3>2, <3>3
  <2>8. ASSUME Restart PROVE \A d \in Callers : ApiRequest(d)'
    BY <2>8 DEF Restart, ApiRequest
  <2>9. ASSUME UNCHANGED req PROVE \A d \in Callers : ApiRequest(d)'
    <3>1. SUFFICES ASSUME NEW d \in Callers, req[d] # Idle PROVE ApiRequest(d)'
      BY <2>9 DEF ApiRequest
    <3>2. PICK q : q = req[d]
      OBVIOUS
    <3>3. q.id \in Ids
      BY <3>1, <3>2 DEF TypeInv, RequestsSound, Request
    <3>4. q.op = "issue" => ApiUser(q.id)'
      BY <3>1, <3>2, <3>3, ApiUserStable DEF ApiInv, ApiRequest
    <3>. QED
      BY <2>9, <3>1, <3>2, <3>4 DEF ApiInv, ApiRequest, ApiUser, Exists
  <2>. QED
    BY <2>4, <2>5, <2>6, <2>7, <2>8, <2>9 DEF Next, vars, HandleLogout, Expire, Sweep, HandleCreateUser, RevokeUnanswered
<1>2. \A k \in ApiTokens : apiTokens'[k] \in Ids => ApiUser(apiTokens[k])'
  <2>. SUFFICES ASSUME NEW k \in ApiTokens, apiTokens'[k] \in Ids PROVE ApiUser(apiTokens[k])'
    OBVIOUS
  <2>1. PICK id : id = apiTokens'[k]
    OBVIOUS
  <2>2. ApiUser(id)
    <3>1. ASSUME NEW c \in Callers, InsertToken(c) PROVE ApiUser(id)
      BY <2>1, <3>1 DEF InsertToken, At, ApiInv, ApiRequest, TypeInv, TypeOK
    <3>2. ASSUME NEW c \in Callers, Write(c) \/ WriteUnanswered(c) PROVE ApiUser(id)
      <4>1. apiTokens'[k] \in {apiTokens[k], Deleted}
        BY <3>2 DEF Write, WriteUnanswered, Cascade
      <4>. QED
        BY <2>1, <4>1, AccountsAssumption DEF ApiInv
    <3>3. ASSUME RevokeUnanswered \/ \E c \in Callers : HandleRevokeToken(c) PROVE ApiUser(id)
      <4>1. apiTokens'[k] \in {apiTokens[k], Deleted}
        BY <3>3 DEF RevokeUnanswered, HandleRevokeToken, TypeInv, TypeOK
      <4>. QED
        BY <2>1, <4>1, AccountsAssumption DEF ApiInv
    <3>4. CASE UNCHANGED apiTokens
      BY <2>1, <3>4 DEF ApiInv
    <3>. QED
      BY <3>1, <3>2, <3>3, <3>4 DEF Next, vars, HandleLogin, IssueSession, ResolveBearer, CacheBearer, HandleUpdateUser,
         HandleDeleteUser, HandleChangePassword, Guard, WriteMisses, Drop, HandleCreateToken, DropApiSessions,
         HandleLogout, Expire, Sweep, HandleCreateUser, Restart
  <2>3. id \in Ids
    BY <2>1
  <2>4. ApiUser(id)'
    BY <2>2, <2>3, ApiUserStable
  <2>. QED
    BY <2>1, <2>4 DEF ApiUser, Exists
<1>3. \A t \in ApiTokens : sessions'[t] # NoSession => sessions'[t].apiOnly
  <2>. SUFFICES ASSUME NEW t \in ApiTokens, sessions'[t] # NoSession PROVE sessions'[t].apiOnly
    OBVIOUS
  <2>0. t \in Tokens /\ t \notin SessionTokens
    BY AccountsAssumption DEF Tokens
  <2>1. ASSUME NEW c \in Callers, CacheBearer(c) PROVE sessions'[t].apiOnly
    <3>1. Minted(req[c]).apiOnly
      BY <2>1 DEF CacheBearer, At, ApiInv, ApiRequest, Minted
    <3>. QED
      BY <2>0, <2>1, <3>1 DEF CacheBearer, ApiInv, TypeInv, TypeOK
  <2>2. ASSUME NEW c \in Callers, IssueSession(c) PROVE sessions'[t].apiOnly
    BY <2>0, <2>2 DEF IssueSession, ApiInv, TypeInv, TypeOK
  <2>3. ASSUME NEW T, DropSessions(T) PROVE sessions'[t].apiOnly
    BY <2>0, <2>3 DEF DropSessions, ApiInv
  <2>4. ASSUME NEW u \in Tokens, HandleLogout(u) \/ Sweep(u) PROVE sessions'[t].apiOnly
    BY <2>0, <2>4 DEF HandleLogout, Sweep, ApiInv, TypeInv, TypeOK
  <2>5. ASSUME NEW u \in Tokens, Expire(u) PROVE sessions'[t].apiOnly
    <3>1. sessions'[t] = sessions[t] \/ (u = t /\ sessions'[t] = [sessions[t] EXCEPT !.expired = TRUE])
      BY <2>0, <2>5 DEF Expire, TypeInv, TypeOK
    <3>2. sessions[t] \in Session
      BY <2>0, <2>5, <3>1 DEF Expire, Validate, TypeInv, TypeOK
    <3>3. [sessions[t] EXCEPT !.expired = TRUE].apiOnly = sessions[t].apiOnly
      BY <3>2 DEF Session
    <3>. QED
      BY <2>0, <3>1, <3>2, <3>3, AccountsAssumption DEF ApiInv
  <2>6. CASE UNCHANGED sessions
    BY <2>6 DEF ApiInv
  <2>7. ASSUME Restart PROVE FALSE
    BY <2>0, <2>7 DEF Restart
  <2>. QED
    BY <2>1, <2>2, <2>3, <2>4, <2>5, <2>6, <2>7 DEF Next, vars, HandleLogin, ResolveBearer, HandleUpdateUser,
       HandleDeleteUser, HandleChangePassword, Guard, Write, WriteMisses, WriteUnanswered, Drop, FlushUser,
       HandleCreateToken, InsertToken, HandleRevokeToken, RevokeUnanswered, DropApiSessions, HandleCreateUser
<1>. QED
  BY <1>1, <1>2, <1>3 DEF ApiInv

\* The request acts on itself only, and was not about to flush.
FlushesStay == \A d \in Callers : req[d] # Idle /\ req[d].phase = "drop" => req'[d] = req[d]

\* The same session, but perhaps for its age.
SameSession(t) == LET s == sessions[t] u == sessions'[t] IN
    /\ s # NoSession
    /\ u.user = s.user /\ u.role = s.role /\ u.apiOnly = s.apiOnly
    /\ u.must = s.must /\ u.pw = s.pw /\ u.late = s.late

LEMMA StillExplained ==
    ASSUME NEW t \in Tokens, SameSession(t), Explained(t), FlushesStay, unflushed \subseteq unflushed'
    PROVE  Explained(t)'
<1>1. CASE sessions[t].late \/ sessions[t].user \in unflushed \/ t \in unflushed
  BY <1>1 DEF Explained, SameSession
<1>2. ASSUME NEW c \in Callers, FlushPending(c, sessions[t]) PROVE Explained(t)'
  <2>1. req'[c] = req[c]
    BY <1>2 DEF FlushPending, FlushesStay
  <2>2. FlushPending(c, sessions[t])'
    BY <1>2, <2>1 DEF FlushPending, SameSession
  <2>. QED
    BY <2>2 DEF Explained
<1>. QED
  BY <1>1, <1>2 DEF Explained

\* A session that was outdated before the step is explained after it.
LEMMA KeptSession ==
    ASSUME OutdatedExplained, FlushesStay, unflushed \subseteq unflushed',
           NEW t \in Tokens, SameSession(t), Outdated(t)
    PROVE  Explained(t)'
BY StillExplained DEF OutdatedExplained, SameSession

LEMMA SameOutdated ==
    ASSUME NEW t \in Tokens, SameSession(t), users'[sessions[t].user] = users[sessions[t].user],
           t \in ApiTokens => (apiTokens[t] = sessions[t].user => apiTokens'[t] = sessions[t].user),
           Outdated(t)'
    PROVE  Outdated(t)
BY DEF Outdated, SameSession, Exists

LEMMA FlushSteps ==
    ASSUME TypeInv, NEW c \in Callers, NEW r, req' = [req EXCEPT ![c] = r],
           req[c] = Idle \/ req[c].phase # "drop"
    PROVE  FlushesStay
BY DEF FlushesStay, TypeInv, RequestsSound

\* The rows and tokens stay as they are, and no session is new.
LEMMA UntouchedStep ==
    ASSUME OutdatedExplained, FlushesStay, UNCHANGED <<users, apiTokens, unflushed>>,
           \A t \in Tokens : sessions'[t] # NoSession => SameSession(t)
    PROVE  OutdatedExplained'
<1>. SUFFICES ASSUME NEW t \in Tokens, sessions'[t] # NoSession, Outdated(t)' PROVE Explained(t)'
  BY DEF OutdatedExplained
<1>1. SameSession(t)
  OBVIOUS
<1>2. Outdated(t)
  BY <1>1, SameOutdated
<1>. QED
  BY <1>1, <1>2, KeptSession

\* A session stored is late or agrees with the row it was made from.
LEMMA MintStep ==
    ASSUME TypeInv, OutdatedExplained, NEW c \in Callers, IssueSession(c) \/ CacheBearer(c)
    PROVE  OutdatedExplained'
<1>. DEFINE r == req[c]
<1>1. PICK n \in Tokens : /\ sessions' = [sessions EXCEPT ![n] = Minted(r)]
                          /\ n \in ApiTokens => r.op = "bearer" /\ n = r.tok
  BY AccountsAssumption DEF IssueSession, CacheBearer, At, Tokens, TypeInv, RequestsSound, Carries
<1>2. r # Idle /\ r.phase = "store" /\ Sound(r) /\ r.row \in Row /\ Finish(c) /\ UNCHANGED <<users, apiTokens, unflushed>>
  BY DEF IssueSession, CacheBearer, At, TypeInv, RequestsSound, Sound, Carries
<1>3. FlushesStay
  BY <1>2, FlushSteps DEF Finish
<1>. SUFFICES ASSUME NEW t \in Tokens, sessions'[t] # NoSession, Outdated(t)' PROVE Explained(t)'
  BY DEF OutdatedExplained
<1>4. CASE t = n
  <2>1. sessions'[t] = Minted(r)
    BY <1>1, <1>4 DEF TypeInv, TypeOK
  <2>2. Minted(r).late
    <3>1. SUFFICES ASSUME ~Minted(r).late PROVE FALSE
      OBVIOUS
    <3>2. users[r.id] = r.row /\ ~r.row.disabled /\ (r.tok # None => apiTokens[r.tok] = r.id)
      BY <3>1 DEF Minted
    <3>3. t \in ApiTokens => apiTokens[t] = r.id
      BY <1>1, <1>2, <1>4, <3>2, AccountsAssumption DEF Sound, Carries
    <3>4. /\ Minted(r).user = r.id /\ Minted(r).role = r.row.role
          /\ Minted(r).must = r.row.must /\ Minted(r).pw = r.row.pw
      BY DEF Minted
    <3>. QED
      BY <1>2, <2>1, <3>2, <3>3, <3>4 DEF Outdated, Exists
  <2>. QED
    BY <2>1, <2>2 DEF Explained
<1>5. CASE t # n
  <2>1. SameSession(t)
    BY <1>1, <1>5 DEF SameSession, TypeInv, TypeOK
  <2>2. Outdated(t)
    BY <1>2, <2>1, SameOutdated
  <2>. QED
    BY <1>2, <1>3, <2>1, <2>2, KeptSession
<1>. QED
  BY <1>4, <1>5

\* A write puts the sessions of its user up for a flush, unless it enables the user.
LEMMA OutdatedWrite ==
    ASSUME TypeInv, OutdatedExplained, NEW c \in Callers, Write(c) \/ WriteUnanswered(c)
    PROVE  OutdatedExplained'
<1>1. /\ req[c] # Idle /\ req[c].phase = "write" /\ req[c].op \in {"update", "delete", "change"}
      /\ Exists(req[c].id) /\ Commit(c, Written(req[c])) /\ Cascade(req[c]) /\ sessions' = sessions
      /\ req[c] \in Request /\ req[c].id \in Ids /\ unflushed \subseteq unflushed'
  BY DEF Write, WriteUnanswered, Writing, At, TypeInv, RequestsSound, Request
<1>2. FlushesStay
  <2>1. Finish(c) \/ Advance(c) \/ Goto(c, "drop")
    BY DEF Write, WriteUnanswered
  <2>. QED
    BY <1>1, <2>1, FlushSteps DEF Finish, Advance, Goto
<1>. SUFFICES ASSUME NEW t \in Tokens, sessions[t] # NoSession, Outdated(t)' PROVE Explained(t)'
  BY <1>1 DEF OutdatedExplained
<1>3. SameSession(t)
  BY <1>1 DEF SameSession
<1>4. CASE sessions[t].user # req[c].id
  <2>1. users'[sessions[t].user] = users[sessions[t].user]
    BY <1>1, <1>4 DEF Commit, TypeInv, TypeOK, Session
  <2>2. t \in ApiTokens => (apiTokens[t] = sessions[t].user => apiTokens'[t] = sessions[t].user)
    BY <1>1, <1>4 DEF Cascade
  <2>. QED
    BY <1>1, <1>2, <1>3, <2>1, <2>2, SameOutdated, KeptSession
<1>5. CASE sessions[t].user = req[c].id /\ WriteUnanswered(c)
  BY <1>1, <1>5 DEF WriteUnanswered, Explained
<1>6. CASE sessions[t].user = req[c].id /\ Write(c) /\ Flushes(req[c])
  <2>1. req'[c] = [req[c] EXCEPT !.phase = "drop"]
    BY <1>6 DEF Write, Goto, TypeInv, RequestsSound
  <2>2. req'[c].phase = "drop" /\ req'[c].op # "revoke" /\ req'[c].id = sessions'[t].user
    BY <1>1, <1>6, <2>1 DEF Request
  <2>3. req'[c] # Idle
    BY <1>1, <2>1, AccountsAssumption DEF Request
  <2>4. FlushPending(c, sessions[t])'
    BY <2>2, <2>3 DEF FlushPending
  <2>. QED
    BY <2>4 DEF Explained
<1>7. CASE sessions[t].user = req[c].id /\ Write(c) /\ ~Flushes(req[c])
  <2>1. Stage(req[c]) = "disabled" /\ req[c].op = "update" /\ req[c].body.disabled = FALSE
    BY <1>1, <1>7 DEF Flushes, Stage, Request, Body
  <2>2. users'[req[c].id] = [users[req[c].id] EXCEPT !.disabled = FALSE] /\ users[req[c].id] \in Row
    BY <1>1, <2>1 DEF Commit, Written, Exists, TypeInv, TypeOK
  <2>3. /\ ~users'[req[c].id].disabled /\ users'[req[c].id] \in Row
        /\ users'[req[c].id].role = users[req[c].id].role
        /\ users'[req[c].id].must = users[req[c].id].must
        /\ users'[req[c].id].pw = users[req[c].id].pw
    BY <2>2 DEF Row
  <2>4. apiTokens' = apiTokens
    BY <1>1, <2>1 DEF Cascade
  <2>5. Outdated(t)
    BY <1>1, <1>7, <2>3, <2>4 DEF Outdated, Exists
  <2>. QED
    BY <1>1, <1>2, <1>3, <2>5, KeptSession
<1>. QED
  BY <1>4, <1>5, <1>6, <1>7

\* A flush takes every session it explained.
LEMMA FlushStep ==
    ASSUME TypeInv, OutdatedExplained, NEW c \in Callers, Drop(c) \/ DropApiSessions(c)
    PROVE  OutdatedExplained'
<1>1. req[c] # Idle /\ req[c].phase = "drop" /\ UNCHANGED <<users, apiTokens>>
  BY DEF Drop, DropApiSessions, At
<1>2. PICK T : DropSessions(T) /\ \A t \in Tokens : sessions[t] # NoSession /\ FlushPending(c, sessions[t]) => t \in T
  <2>1. CASE Drop(c)
    BY <2>1 DEF Drop, FlushUser, SessionsOf, FlushPending
  <2>2. CASE DropApiSessions(c)
    BY <2>2 DEF DropApiSessions, At, ApiSessions, FlushPending
  <2>. QED
    BY <2>1, <2>2
<1>3. \A d \in Callers \ {c} : req'[d] = req[d]
  <2>1. Finish(c) \/ Advance(c) \/ Goto(c, "store")
    BY DropMoves DEF DropApiSessions
  <2>. QED
    BY <2>1 DEF Finish, Advance, Goto, TypeInv, RequestsSound
<1>. SUFFICES ASSUME NEW t \in Tokens, sessions'[t] # NoSession, Outdated(t)' PROVE Explained(t)'
  BY DEF OutdatedExplained
<1>4. t \notin T /\ sessions'[t] = sessions[t]
  BY <1>2 DEF DropSessions
<1>5. Explained(t)
  BY <1>1, <1>4 DEF OutdatedExplained, Outdated, Exists
<1>6. CASE sessions[t].late
  BY <1>4, <1>6 DEF Explained
<1>7. CASE sessions[t].user \in unflushed
  <2>1. sessions[t].user \in unflushed'
    <3>1. CASE Drop(c)
      <4>1. sessions[t].user # req[c].id
        BY <1>1, <1>2, <1>4, <3>1 DEF Drop, FlushPending
      <4>. QED
        BY <1>7, <3>1, <4>1 DEF Drop, FlushUser
    <3>2. CASE DropApiSessions(c)
      BY <1>7, <3>2 DEF DropApiSessions
    <3>. QED
      BY <3>1, <3>2
  <2>. QED
    BY <1>4, <2>1 DEF Explained
<1>10. CASE t \in unflushed
  <2>1. t \in ApiTokens
    BY <1>10, AccountsAssumption DEF TypeInv, TypeOK, Tokens
  <2>2. t \in unflushed'
    <3>1. CASE Drop(c)
      <4>1. unflushed' = unflushed \ {req[c].id} /\ req[c].id \in Ids
        BY <1>1, <3>1 DEF Drop, FlushUser, TypeInv, RequestsSound, Request
      <4>. QED
        BY <1>10, <2>1, <4>1, AccountsAssumption
    <3>2. CASE DropApiSessions(c)
      BY <1>10, <3>2 DEF DropApiSessions
    <3>. QED
      BY <3>1, <3>2
  <2>. QED
    BY <2>2 DEF Explained
<1>8. ASSUME NEW d \in Callers, FlushPending(d, sessions[t]) PROVE Explained(t)'
  <2>1. d # c
    BY <1>2, <1>4, <1>8
  <2>2. FlushPending(d, sessions[t])'
    BY <1>3, <1>4, <1>8, <2>1 DEF FlushPending
  <2>. QED
    BY <2>2 DEF Explained
<1>. QED
  BY <1>5, <1>6, <1>7, <1>8, <1>10 DEF Explained

LEMMA TokenStep ==
    ASSUME TypeInv, ApiInv, OutdatedExplained, NEW c \in Callers, InsertToken(c) \/ HandleRevokeToken(c)
    PROVE  OutdatedExplained'
<1>1. UNCHANGED <<users, sessions, unflushed>>
  BY DEF InsertToken, HandleRevokeToken
<1>2. FlushesStay
  BY FlushSteps DEF InsertToken, At, Finish, HandleRevokeToken, Begin
<1>. SUFFICES ASSUME NEW t \in Tokens, sessions[t] # NoSession, Outdated(t)' PROVE Explained(t)'
  BY <1>1 DEF OutdatedExplained
<1>3. SameSession(t)
  BY <1>1 DEF SameSession
<1>4. CASE t \in ApiTokens /\ apiTokens[t] = sessions[t].user /\ apiTokens'[t] # sessions[t].user
  <2>1. apiTokens[t] \in Ids
    BY <1>4 DEF TypeInv, TypeOK, Session
  <2>2. ~InsertToken(c)
    BY <1>4, <2>1, AccountsAssumption DEF InsertToken, TypeInv, TypeOK
  <2>3. PICK k \in ApiTokens : apiTokens' = [apiTokens EXCEPT ![k] = Deleted] /\ Begin(c, NewRequest("revoke", "drop", apiTokens[k]))
    BY <2>2 DEF HandleRevokeToken
  <2>4. req'[c] = NewRequest("revoke", "drop", apiTokens[t])
    BY <1>4, <2>3 DEF Begin, TypeInv, TypeOK, RequestsSound
  <2>5. req'[c] # Idle /\ req'[c].op = "revoke" /\ req'[c].phase = "drop"
    <3>1. Sound(NewRequest("revoke", "drop", apiTokens[t]))
      BY <2>1, NewRequestSound
    <3>2. NewRequest("revoke", "drop", apiTokens[t]) # Idle
      BY <3>1, AccountsAssumption DEF Sound
    <3>. QED
      BY <2>4, <3>2 DEF NewRequest
  <2>6. sessions[t].apiOnly
    BY <1>4 DEF ApiInv
  <2>7. FlushPending(c, sessions[t])'
    BY <1>1, <2>5, <2>6 DEF FlushPending
  <2>. QED
    BY <2>7 DEF Explained
<1>5. CASE t \in ApiTokens => (apiTokens[t] = sessions[t].user => apiTokens'[t] = sessions[t].user)
  <2>1. Outdated(t)
    BY <1>1, <1>3, <1>5, SameOutdated
  <2>. QED
    BY <1>1, <1>2, <1>3, <2>1, KeptSession
<1>. QED
  BY <1>4, <1>5

LEMMA RevokeUnansweredStep ==
    ASSUME TypeInv, OutdatedExplained, RevokeUnanswered
    PROVE  OutdatedExplained'
<1>1. PICK k \in ApiTokens : apiTokens' = [apiTokens EXCEPT ![k] = Deleted] /\ unflushed' = unflushed \cup {k}
  BY DEF RevokeUnanswered
<1>2. FlushesStay /\ UNCHANGED <<users, sessions>>
  BY DEF RevokeUnanswered, FlushesStay
<1>. SUFFICES ASSUME NEW t \in Tokens, sessions[t] # NoSession, Outdated(t)' PROVE Explained(t)'
  BY <1>2 DEF OutdatedExplained
<1>3. CASE t = k
  BY <1>1, <1>3 DEF Explained
<1>4. CASE t # k
  <2>1. SameSession(t)
    BY <1>2 DEF SameSession
  <2>2. Outdated(t)
    BY <1>1, <1>2, <1>4, <2>1, SameOutdated DEF TypeInv, TypeOK
  <2>. QED
    BY <1>1, <1>2, <2>1, <2>2, KeptSession
<1>. QED
  BY <1>3, <1>4

LEMMA OutdatedStep == TypeInv /\ ApiInv /\ OutdatedExplained /\ [Next]_vars => OutdatedExplained'
<1>. SUFFICES ASSUME TypeInv, ApiInv, OutdatedExplained, [Next]_vars PROVE OutdatedExplained'
  OBVIOUS
<1>1. ASSUME NEW c \in Callers, NEW r, Begin(c, r), UNCHANGED <<users, apiTokens, sessions, unflushed>>
      PROVE  OutdatedExplained'
  <2>1. FlushesStay
    BY <1>1, FlushSteps DEF Begin
  <2>. QED
    BY <1>1, <2>1, UntouchedStep DEF SameSession
<1>2. ASSUME NEW c \in Callers, HandleLogin(c) \/ ResolveBearer(c) \/ HandleUpdateUser(c) \/ HandleDeleteUser(c)
                                \/ HandleChangePassword(c) \/ HandleCreateToken(c)
      PROVE  OutdatedExplained'
  BY <1>1, <1>2 DEF HandleLogin, ResolveBearer, HandleUpdateUser, HandleDeleteUser, HandleChangePassword, HandleCreateToken
<1>3. ASSUME NEW c \in Callers, Guard(c) \/ WriteMisses(c) PROVE OutdatedExplained'
  <2>1. FlushesStay
    BY <1>3, FlushSteps DEF Guard, WriteMisses, Writing, At, Goto, Finish
  <2>. QED
    BY <1>3, <2>1, UntouchedStep DEF Guard, WriteMisses, SameSession
<1>4. ASSUME NEW t \in Tokens, HandleLogout(t) \/ Expire(t) \/ Sweep(t) PROVE OutdatedExplained'
  <2>1. FlushesStay /\ UNCHANGED <<users, apiTokens, unflushed>>
    BY <1>4 DEF HandleLogout, Expire, Sweep, FlushesStay
  <2>2. ASSUME NEW u \in Tokens, sessions'[u] # NoSession PROVE SameSession(u)
    <3>1. CASE sessions'[u] = sessions[u]
      BY <2>2, <3>1 DEF SameSession
    <3>2. CASE sessions'[u] # sessions[u]
      <4>1. Expire(t) /\ u = t
        BY <1>4, <2>2, <3>2 DEF HandleLogout, Expire, Sweep, TypeInv, TypeOK
      <4>2. sessions[u] # NoSession /\ sessions[u] \in Session /\ sessions'[u] = [sessions[u] EXCEPT !.expired = TRUE]
        BY <4>1 DEF Expire, Validate, TypeInv, TypeOK
      <4>. QED
        BY <4>2 DEF SameSession, Session
    <3>. QED
      BY <3>1, <3>2
  <2>. QED
    BY <2>1, <2>2, UntouchedStep
<1>5. ASSUME HandleCreateUser PROVE OutdatedExplained'
  <2>1. FlushesStay /\ UNCHANGED <<apiTokens, sessions, unflushed>>
    BY <1>5 DEF HandleCreateUser, FlushesStay
  <2>2. PICK id \in Ids, role \in Roles, p \in Passwords \cup {Nonce} :
           users[id] = None /\ users' = [users EXCEPT ![id] = NewUser(role, p)]
    BY <1>5 DEF HandleCreateUser
  <2>. SUFFICES ASSUME NEW t \in Tokens, sessions[t] # NoSession, Outdated(t)' PROVE Explained(t)'
    BY <2>1 DEF OutdatedExplained
  <2>3. SameSession(t)
    BY <2>1 DEF SameSession
  <2>4. Outdated(t)
    <3>1. CASE sessions[t].user = id
      BY <2>2, <3>1, AccountsAssumption DEF Outdated, Exists
    <3>2. CASE sessions[t].user # id
      BY <2>1, <2>2, <2>3, <3>2, SameOutdated DEF TypeInv, TypeOK, Session
    <3>. QED
      BY <3>1, <3>2
  <2>. QED
    BY <2>1, <2>3, <2>4, KeptSession
<1>6. ASSUME Restart PROVE OutdatedExplained'
  BY <1>6 DEF Restart, OutdatedExplained
<1>7. CASE UNCHANGED vars
  <2>1. FlushesStay
    BY <1>7 DEF vars, FlushesStay
  <2>. QED
    BY <1>7, <2>1, UntouchedStep DEF vars, SameSession
<1>8. ASSUME NEW c \in Callers, IssueSession(c) \/ CacheBearer(c) \/ Write(c) \/ WriteUnanswered(c) \/ Drop(c)
                                \/ DropApiSessions(c) \/ InsertToken(c) \/ HandleRevokeToken(c)
      PROVE  OutdatedExplained'
  BY <1>8, MintStep, OutdatedWrite, FlushStep, TokenStep
<1>. QED
  BY <1>2, <1>3, <1>4, <1>5, <1>6, <1>7, <1>8, RevokeUnansweredStep DEF Next

\* No session outlives a change of its user or the revocation of its token but
\* those a request stored late, those about to be flushed, and those of a
\* change or a revocation whose reply was lost.
THEOREM OutdatedAlwaysExplained == Spec => []OutdatedExplained
<1>1. Init => ApiInv /\ OutdatedExplained
  <2>. SUFFICES ASSUME Init PROVE ApiInv /\ OutdatedExplained
    OBVIOUS
  <2>1. \A t \in Tokens : sessions[t] = NoSession
    BY DEF Init
  <2>2. ApiInv
    <3>1. \A k \in ApiTokens : apiTokens[k] \notin Ids
      BY AccountsAssumption DEF Init
    <3>2. \A c \in Callers : ApiRequest(c)
      BY DEF Init, ApiRequest
    <3>. QED
      BY <2>1, <3>1, <3>2 DEF ApiInv, Tokens
  <2>. QED
    BY <2>1, <2>2 DEF OutdatedExplained
<1>2. TypeInv /\ ApiInv /\ OutdatedExplained /\ [Next]_vars => (ApiInv /\ OutdatedExplained)'
  BY ApiStep, OutdatedStep
<1>. QED
  BY <1>1, <1>2, AlwaysTyped, PTL DEF Spec

=============================================================================
