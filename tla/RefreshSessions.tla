--------------------------- MODULE RefreshSessions ---------------------------
(***************************************************************************)
(* The refresh-session table of auth-service and the requests that work on *)
(* it: login, login_2fa, refresh_tokens, logout, logout_all_devices,       *)
(* reset_password and change_password (app/auth/service.py,                *)
(* app/profile/service.py, external/database/refresh_session_repo.py).     *)
(*                                                                         *)
(* A request runs one database transaction (the unit of work) and yields   *)
(* to the event loop at every awaited statement, so statements of several  *)
(* requests interleave.  PostgreSQL runs them at READ COMMITTED: a         *)
(* statement sees the rows committed when it starts and the transaction's  *)
(* own writes; an UPDATE waits for the row's writer to finish, and then    *)
(* acts on the latest committed version.  writes[r] is what transaction r  *)
(* has written and not committed; the rows in it are locked by r.          *)
(***************************************************************************)
EXTENDS Integers, FiniteSets

CONSTANTS
    Users,                  \* uids
    TwoFactorUsers,         \* those who turn two_factor_enabled on, and off again
    Tokens,                 \* refresh tokens, standing for their SHA-256 hashes
    Requests,               \* requests in flight at one time
    MAX_SESSIONS_PER_USER,
    REFRESH_TTL,            \* REFRESH_TOKEN_EXPIRE_DAYS, in ticks of the clock
    AUTH_TTL,               \* JWT_AUTH_TOKEN_EXPIRE_MINUTES, in ticks
    MaxTime,                \* bound on the clock
    MaxPassword,            \* bound on the number of password changes
    NoToken, NoRow, NoUser  \* NULL values

VARIABLES
    now,         \* the clock of the service and of the database
    present,     \* present[u]: the users row exists
    active,      \* active[u]: is_active and is_email_verified
    password,    \* password[u]: how often password_hash was replaced ...
    changed,     \* ... and when it last was (history)
    sessions,    \* the committed refresh_sessions table
    authTokens,  \* the signed auth tokens that ask for a second factor
    held,        \* refresh tokens that reached a client
    pc,          \* the statement request r runs next
    req,         \* the local variables of request r
    writes       \* the uncommitted writes of request r

userVars == <<present, active, password, changed>>
vars == <<now, userVars, sessions, authTokens, held, pc, req, writes>>

\* The columns the handlers use.  parent and cred are history that no guard
\* reads: the token a rotation started from, and the sign-in that the session
\* goes back to, through rotations: its password version, and when it began.
SignIn == [password: Nat, since: 0..MaxTime]

Row == [user       : Users,
        is_revoked : BOOLEAN,
        replaced_by: Tokens \cup {NoToken},
        created_at : 0..MaxTime,
        expires_at : 0..(MaxTime + REFRESH_TTL),
        parent     : Tokens \cup {NoToken},
        cred       : SignIn]

ASSUME ConstantsAssumption ==
    /\ TwoFactorUsers \subseteq Users
    /\ MAX_SESSIONS_PER_USER \in Nat \ {0}
    /\ REFRESH_TTL \in Nat \ {0} /\ AUTH_TTL \in Nat \ {0}
    /\ MaxTime \in Nat /\ MaxPassword \in Nat
    /\ NoToken \notin Tokens /\ NoUser \notin Users
    /\ NoRow \notin Row

Table == [Tokens -> Row \cup {NoRow}]
NoWrites == [t \in Tokens |-> NoRow]

Ops == {"login", "login_2fa", "refresh", "logout", "logout_all",
        "reset_password", "change_password"}
PasswordOps == {"reset_password", "change_password"}
SignIns == {"login", "login_2fa"}

Request == [op      : Ops \cup {"none"},
            user    : Users \cup {NoUser},
            given   : Tokens \cup {NoToken},   \* the token it presented
            fresh   : Tokens \cup {NoToken},   \* the token it generates
            victim  : Tokens \cup {NoToken},   \* the token it will revoke
            snap    : SUBSET Tokens,           \* rows revoke_all_for_user selected
            start   : 0..MaxTime,              \* now() of the transaction
            expires : 0..(MaxTime + REFRESH_TTL),
            cred    : SignIn]

NoRequest == [op |-> "none", user |-> NoUser, given |-> NoToken, fresh |-> NoToken,
              victim |-> NoToken, snap |-> {}, start |-> 0, expires |-> 0,
              cred |-> [password |-> 0, since |-> 0]]

PCs == {"idle", "count", "pick", "revoke", "load_user", "replace", "create",
        "update_user", "revoke_all", "sweep", "commit", "respond"}

TypeOK ==
    /\ now \in 0..MaxTime
    /\ present \in [Users -> BOOLEAN]
    /\ active \in [Users -> BOOLEAN]
    /\ password \in [Users -> Nat]
    /\ changed \in [Users -> 0..MaxTime]
    /\ sessions \in Table
    /\ authTokens \subseteq [user: Users, exp: 0..(MaxTime + AUTH_TTL), cred: Nat]
    /\ held \subseteq Tokens
    /\ pc \in [Requests -> PCs]
    /\ req \in [Requests -> Request]
    /\ writes \in [Requests -> Table]

Init ==
    /\ now = 0
    /\ present = [u \in Users |-> TRUE]
    /\ active = [u \in Users |-> TRUE]
    /\ password = [u \in Users |-> 0]
    /\ changed = [u \in Users |-> 0]
    /\ sessions = NoWrites
    /\ authTokens = {}
    /\ held = {}
    /\ pc = [r \in Requests |-> "idle"]
    /\ req = [r \in Requests |-> NoRequest]
    /\ writes = [r \in Requests |-> NoWrites]

-----------------------------------------------------------------------------
(* What the transaction of r sees, and what it must wait for.              *)

View(r) == [t \in Tokens |-> IF writes[r][t] # NoRow THEN writes[r][t] ELSE sessions[t]]

Alive(table, t) == table[t] # NoRow /\ ~table[t].is_revoked

\* get_active_sessions, count_active_sessions: expires_at > now.
ActiveSessions(table, u) ==
    {t \in Tokens : Alive(table, t) /\ table[t].user = u /\ table[t].expires_at > now}

RowFree(r, t) == \A s \in Requests \ {r} : writes[s][t] = NoRow

\* The users row stays locked from users.update to the end of the transaction.
HoldsUserRow(s, u) ==
    /\ req[s].op \in PasswordOps /\ req[s].user = u
    /\ pc[s] \in {"revoke_all", "sweep", "commit"}
UserRowFree(r, u) == \A s \in Requests \ {r} : ~HoldsUserRow(s, u)

\* generate_token: a value in no row and in no other request's hands.
FreshToken(t) == sessions[t] = NoRow /\ \A s \in Requests : req[s].fresh # t

HasSignedIn(u) == \E t \in held : sessions[t] # NoRow /\ sessions[t].user = u

Goto(r, label) == pc' = [pc EXCEPT ![r] = label]
Write(r, t, row) == writes' = [writes EXCEPT ![r][t] = row]
Finish(r) == /\ Goto(r, "idle")
             /\ req' = [req EXCEPT ![r] = NoRequest]

Accept(r, request, label) ==
    /\ pc[r] = "idle"
    /\ req' = [req EXCEPT ![r] = request]
    /\ Goto(r, label)
    /\ UNCHANGED <<now, userVars, sessions, authTokens, held, writes>>

-----------------------------------------------------------------------------
(* The first statement of each request.  A call that is refused before it  *)
(* writes anything but an audit entry changes no state of this module.     *)

NewSessionRequest(op, u, t, version) ==
    [NoRequest EXCEPT !.op = op, !.user = u, !.fresh = t, !.start = now,
                      !.expires = now + REFRESH_TTL,
                      !.cred = [password |-> version, since |-> now]]

\* A right password, and no second factor at the time.  Hashes are all made with the one
\* set of Argon2 parameters of the build, so needs_rehash is false.
Login(r, u) ==
    /\ present[u] /\ active[u]
    /\ \E t \in Tokens :
        /\ FreshToken(t)
        /\ Accept(r, NewSessionRequest("login", u, t, password[u]), "count")

\* A right password of a user with a second factor: an auth token, no session.
LoginAsksFor2FA(u) ==
    /\ present[u] /\ active[u] /\ u \in TwoFactorUsers
    /\ authTokens' = authTokens \cup {[user |-> u, exp |-> now + AUTH_TTL,
                                       cred |-> password[u]]}
    /\ UNCHANGED <<now, userVars, sessions, held, pc, req, writes>>

\* A right code.  The auth token is not consumed, neither is_active nor
\* two_factor_enabled is read, nor whether the password is still the one it was.
Login2FA(r, u) ==
    /\ present[u]
    /\ \E a \in authTokens, t \in Tokens :
        /\ a.user = u /\ a.exp > now
        /\ FreshToken(t)
        /\ Accept(r, NewSessionRequest("login_2fa", u, t, a.cred), "count")

\* The presented token was replaced before: revoke everything of its user.
RefreshReused(r, t) ==
    /\ sessions[t] # NoRow /\ sessions[t].replaced_by # NoToken
    /\ Accept(r, [NoRequest EXCEPT !.op = "refresh", !.user = sessions[t].user,
                                   !.given = t, !.start = now], "revoke_all")

\* Mutant: a revoked token is accepted as long as nothing replaced it.
RefreshValidIgnoresRevoked(r, t) ==
    /\ sessions[t] # NoRow /\ sessions[t].replaced_by = NoToken
    /\ ~(now > sessions[t].expires_at)
    /\ \E n \in Tokens :
        /\ FreshToken(n)
        /\ Accept(r, [NoRequest EXCEPT !.op = "refresh", !.user = sessions[t].user,
                                       !.given = t, !.fresh = n, !.start = now,
                                       !.cred = sessions[t].cred], "load_user")

RefreshValid(r, t) ==
    /\ Alive(sessions, t) /\ sessions[t].replaced_by = NoToken
    /\ ~(now > sessions[t].expires_at)
    /\ \E n \in Tokens :
        /\ FreshToken(n)
        /\ Accept(r, [NoRequest EXCEPT !.op = "refresh", !.user = sessions[t].user,
                                       !.given = t, !.fresh = n, !.start = now,
                                       !.cred = sessions[t].cred], "load_user")

\* A client may present any token it was ever given.
Refresh(r, t) == t \in held /\ (RefreshReused(r, t) \/ RefreshValid(r, t))

Logout(r, t) ==
    /\ t \in held
    /\ Accept(r, [NoRequest EXCEPT !.op = "logout", !.user = sessions[t].user,
                                   !.victim = t, !.start = now], "revoke")

LogoutAll(r, u) ==
    /\ HasSignedIn(u)
    /\ Accept(r, [NoRequest EXCEPT !.op = "logout_all", !.user = u, !.start = now],
              "revoke_all")

PendingPasswords(u) == {s \in Requests : req[s].op \in PasswordOps /\ req[s].user = u
                                         /\ pc[s] # "respond"}

SetPassword(r, u, op) ==
    /\ present[u]
    /\ password[u] + Cardinality(PendingPasswords(u)) < MaxPassword
    /\ Accept(r, [NoRequest EXCEPT !.op = op, !.user = u, !.start = now], "update_user")

ResetPassword(r, u) == SetPassword(r, u, "reset_password")
ChangePassword(r, u) == HasSignedIn(u) /\ SetPassword(r, u, "change_password")

-----------------------------------------------------------------------------
(* The statements after the first.                                         *)

Step(r, from, to) ==
    /\ pc[r] = from
    /\ Goto(r, to)
    /\ UNCHANGED <<now, userVars, sessions, authTokens, held>>

\* Mutant: > instead of >=.
CountActiveOffByOne(r) ==
    /\ Step(r, "count",
            IF Cardinality(ActiveSessions(View(r), req[r].user)) > MAX_SESSIONS_PER_USER
            THEN "pick" ELSE "create")
    /\ UNCHANGED <<req, writes>>

\* login, login_2fa: how many active sessions does the user have?
CountActive(r) ==
    /\ Step(r, "count",
            IF Cardinality(ActiveSessions(View(r), req[r].user)) >= MAX_SESSIONS_PER_USER
            THEN "pick" ELSE "create")
    /\ UNCHANGED <<req, writes>>

\* sessions[-1] of the list ordered by created_at descending, ties in any order.
Oldest(table, u, t) ==
    /\ t \in ActiveSessions(table, u)
    /\ \A o \in ActiveSessions(table, u) : table[t].created_at <= table[o].created_at

PickOldest(r) ==
    \/ /\ Step(r, "pick", "create")
       /\ ActiveSessions(View(r), req[r].user) = {}
       /\ UNCHANGED <<req, writes>>
    \/ \E t \in Tokens :
        /\ Step(r, "pick", "revoke")
        /\ Oldest(View(r), req[r].user, t)
        /\ req' = [req EXCEPT ![r].victim = t]
        /\ UNCHANGED writes

\* repository.revoke, which waits for the row.
RevokeOne(r) ==
    LET t == req[r].victim IN
    /\ Step(r, "revoke", IF req[r].op = "logout" THEN "commit" ELSE "create")
    /\ RowFree(r, t)
    /\ Write(r, t, [View(r)[t] EXCEPT !.is_revoked = TRUE])
    /\ UNCHANGED req

\* refresh: the owner must still exist and be active.
LoadUser(r) ==
    /\ Step(r, "load_user", "replace")
    /\ present[req[r].user] /\ active[req[r].user]
    /\ req' = [req EXCEPT ![r].expires = now + REFRESH_TTL]
    /\ UNCHANGED writes

RefuseUser(r) ==
    /\ pc[r] = "load_user"
    /\ ~(present[req[r].user] /\ active[req[r].user])
    /\ Finish(r)
    /\ UNCHANGED <<now, userVars, sessions, authTokens, held, writes>>

\* Mutant: the statement runs outside the transaction of the unit of work.
MarkReplacedAutocommit(r) ==
    LET t == req[r].given IN
    /\ pc[r] = "replace"
    /\ Goto(r, "create")
    /\ RowFree(r, t)
    /\ sessions' = [sessions EXCEPT ![t].is_revoked = TRUE, ![t].replaced_by = req[r].fresh]
    /\ UNCHANGED <<now, userVars, authTokens, held, req, writes>>

\* repository.mark_replaced: the WHERE clause names the token and nothing
\* else.  update_last_used(new token) follows and finds no row yet.
MarkReplaced(r) ==
    LET t == req[r].given IN
    /\ Step(r, "replace", "create")
    /\ RowFree(r, t)
    /\ Write(r, t, [View(r)[t] EXCEPT !.is_revoked = TRUE, !.replaced_by = req[r].fresh])
    /\ UNCHANGED req

NewRow(r) == [user |-> req[r].user, is_revoked |-> FALSE, replaced_by |-> NoToken,
              created_at |-> req[r].start, expires_at |-> req[r].expires,
              parent |-> req[r].given, cred |-> req[r].cred]

CreateSession(r) ==
    /\ Step(r, "create", "commit")
    /\ Write(r, req[r].fresh, NewRow(r))
    /\ UNCHANGED req

\* users.update of reset_password and change_password ...
UpdateUser(r) ==
    /\ Step(r, "update_user", "revoke_all")
    /\ present[req[r].user]
    /\ UserRowFree(r, req[r].user)
    /\ UNCHANGED <<req, writes>>

\* ... which raises ValueError when the row is gone.
UserGone(r) ==
    /\ pc[r] = "update_user"
    /\ ~present[req[r].user]
    /\ Finish(r)
    /\ UNCHANGED <<now, userVars, sessions, authTokens, held, writes>>

\* Mutant: only the sessions get_active_sessions would list.
SelectActive(r) ==
    /\ Step(r, "revoke_all", "sweep")
    /\ req' = [req EXCEPT ![r].snap = ActiveSessions(View(r), req[r].user)]
    /\ UNCHANGED writes

\* revoke_all_for_user is one UPDATE: it selects its rows when it starts ...
SelectAlive(r) ==
    /\ Step(r, "revoke_all", "sweep")
    /\ req' = [req EXCEPT ![r].snap =
                 {t \in Tokens : Alive(View(r), t) /\ View(r)[t].user = req[r].user}]
    /\ UNCHANGED writes

\* Mutant: rows that are locked are skipped instead of waited for.
RevokeAllSkipsLocked(r) ==
    /\ Step(r, "sweep", "commit")
    /\ writes' = [writes EXCEPT ![r] =
                    [t \in Tokens |->
                        IF t \in req[r].snap /\ RowFree(r, t)
                        THEN [View(r)[t] EXCEPT !.is_revoked = TRUE]
                        ELSE writes[r][t]]]
    /\ UNCHANGED req

\* ... waits for their writers, and skips those that meanwhile stopped to match.
RevokeAll(r) ==
    /\ Step(r, "sweep", "commit")
    /\ \A t \in req[r].snap : RowFree(r, t)
    /\ writes' = [writes EXCEPT ![r] =
                    [t \in Tokens |->
                        IF t \in req[r].snap /\ Alive(View(r), t)
                        THEN [View(r)[t] EXCEPT !.is_revoked = TRUE]
                        ELSE writes[r][t]]]
    /\ UNCHANGED req

Commit(r) ==
    /\ pc[r] = "commit"
    /\ sessions' = View(r)
    /\ writes' = [writes EXCEPT ![r] = NoWrites]
    /\ password' = IF req[r].op \in PasswordOps
                   THEN [password EXCEPT ![req[r].user] = @ + 1] ELSE password
    /\ changed' = IF req[r].op \in PasswordOps
                  THEN [changed EXCEPT ![req[r].user] = now] ELSE changed
    /\ Goto(r, "respond")
    /\ UNCHANGED <<now, present, active, authTokens, held, req>>

\* The answer reaches the client; only now does it know the new token.
Respond(r) ==
    /\ pc[r] = "respond"
    /\ held' = IF req[r].fresh # NoToken THEN held \cup {req[r].fresh} ELSE held
    /\ Finish(r)
    /\ UNCHANGED <<now, userVars, sessions, authTokens, writes>>

\* The connection is lost, or the service dies, after the commit.
LoseResponse(r) ==
    /\ pc[r] = "respond"
    /\ Finish(r)
    /\ UNCHANGED <<now, userVars, sessions, authTokens, held, writes>>

\* Mutants: the rollback is missing, the error is swallowed and the request
\* answered, what was written so far is committed.
AbortKeepsLocks(r) ==
    /\ pc[r] \notin {"idle", "respond"}
    /\ Finish(r)
    /\ UNCHANGED <<now, userVars, sessions, authTokens, held, writes>>
AbortAnswers(r) ==
    /\ pc[r] \notin {"idle", "respond"}
    /\ writes' = [writes EXCEPT ![r] = NoWrites]
    /\ Goto(r, "respond")
    /\ UNCHANGED <<now, userVars, sessions, authTokens, held, req>>
AbortCommits(r) ==
    /\ pc[r] \notin {"idle", "respond"}
    /\ sessions' = View(r)
    /\ writes' = [writes EXCEPT ![r] = NoWrites]
    /\ Finish(r)
    /\ UNCHANGED <<now, userVars, authTokens, held>>

\* An exception in a statement or in the commit, a cancelled request, or the
\* death of the service: the unit of work rolls back.
Abort(r) ==
    /\ pc[r] \notin {"idle", "respond"}
    /\ writes' = [writes EXCEPT ![r] = NoWrites]
    /\ Finish(r)
    /\ UNCHANGED <<now, userVars, sessions, authTokens, held>>

-----------------------------------------------------------------------------
(* What other requests do to the users row: activation and deactivation,   *)
(* confirm_email and stale writes change the flag at any time.             *)

SetActive(u, b) ==
    /\ present[u] /\ active[u] # b
    /\ \A s \in Requests : ~HoldsUserRow(s, u)
    /\ active' = [active EXCEPT ![u] = b]
    /\ UNCHANGED <<now, present, password, changed, sessions, authTokens, held, pc, req,
                   writes>>

\* The row goes; refresh_sessions has no foreign key, so its sessions stay.
DeleteUser(u) ==
    /\ present[u]
    /\ \A s \in Requests : ~HoldsUserRow(s, u)
    /\ present' = [present EXCEPT ![u] = FALSE]
    /\ UNCHANGED <<now, active, password, changed, sessions, authTokens, held, pc, req,
                   writes>>

\* Auth tokens that have expired are of no use to anyone.
Tick ==
    /\ now < MaxTime
    /\ now' = now + 1
    /\ authTokens' = {a \in authTokens : a.exp > now'}
    /\ UNCHANGED <<userVars, sessions, held, pc, req, writes>>

Begin(r) ==
    \/ \E u \in Users : \/ Login(r, u) \/ Login2FA(r, u) \/ LogoutAll(r, u)
                        \/ ResetPassword(r, u) \/ ChangePassword(r, u)
    \/ \E t \in Tokens : Refresh(r, t) \/ Logout(r, t)

Proceed(r) ==
    \/ CountActive(r) \/ PickOldest(r) \/ RevokeOne(r)
    \/ LoadUser(r) \/ RefuseUser(r) \/ MarkReplaced(r) \/ CreateSession(r)
    \/ UpdateUser(r) \/ UserGone(r) \/ SelectAlive(r) \/ RevokeAll(r)
    \/ Commit(r) \/ Respond(r)

Environment ==
    \/ Tick
    \/ \E u \in Users : \/ LoginAsksFor2FA(u)
                        \/ \E b \in BOOLEAN : SetActive(u, b)
                        \/ DeleteUser(u)

Next ==
    \/ \E r \in Requests : Begin(r) \/ Proceed(r) \/ LoseResponse(r) \/ Abort(r)
    \/ Environment

Spec == Init /\ [][Next]_vars

\* The event loop resumes a request whose statement has returned (weak
\* fairness).  PostgreSQL queues the transactions that wait for a row, so an
\* UPDATE whose row comes free again and again gets it in the end (strong
\* fairness).  Nothing makes a request fail, and no client has to call.
Waits(r) == RevokeOne(r) \/ MarkReplaced(r) \/ UpdateUser(r) \/ RevokeAll(r)
Fairness == \A r \in Requests : WF_vars(Proceed(r)) /\ SF_vars(Waits(r))
FairSpec == Spec /\ Fairness

-----------------------------------------------------------------------------
(* Why it works: what holds between any two statements.                    *)

Stored(t) == sessions[t] # NoRow
Writes(r, t) == writes[r][t] # NoRow

\* Two transactions never hold one row.
OneWriter == \A r, s \in Requests, t \in Tokens : Writes(r, t) /\ Writes(s, t) => r = s

\* A fresh token is in one request's hands, and in the table from its commit on.
FreshIsMine ==
    \A r \in Requests : req[r].fresh \in Tokens =>
        /\ Stored(req[r].fresh) <=> pc[r] = "respond"
        /\ \A s \in Requests \ {r} : req[s].fresh # req[r].fresh

\* What a request is about to work on exists.
Prepared(r) ==
    /\ pc[r] = "idle" => req[r] = NoRequest
    /\ pc[r] # "idle" => req[r].user \in Users /\ req[r].op \in Ops
    /\ req[r].given \in Tokens =>
        /\ Stored(req[r].given) /\ sessions[req[r].given].user = req[r].user
        /\ req[r].victim = NoToken
    /\ req[r].victim \in Tokens =>
        Stored(req[r].victim) /\ sessions[req[r].victim].user = req[r].user
    /\ pc[r] = "revoke" => req[r].victim \in Tokens /\ req[r].op \in SignIns \cup {"logout"}
    /\ pc[r] \in {"count", "pick"} => req[r].op \in SignIns
    /\ pc[r] \in {"load_user", "replace"} => req[r].op = "refresh" /\ req[r].fresh \in Tokens
    /\ pc[r] = "create" => req[r].fresh \in Tokens
    /\ pc[r] \in {"update_user", "revoke_all", "sweep"} => req[r].fresh = NoToken
    /\ req[r].op \in SignIns => req[r].fresh \in Tokens /\ req[r].given = NoToken
    /\ req[r].op = "refresh" => req[r].given \in Tokens
    /\ req[r].op \notin SignIns \cup {"refresh"} => req[r].fresh = NoToken
    /\ req[r].op # "none" => pc[r] # "idle"

\* What a transaction has written: the new row, when it is ready to commit, and
\* rows of its user that it ended, one of them with the new row as successor.
Buffered(r) ==
    /\ \A t \in Tokens : Writes(r, t) =>
        /\ pc[r] \in {"create", "commit"}
        /\ t # req[r].fresh =>
            /\ Stored(t) /\ sessions[t].user = req[r].user
            /\ writes[r][t].user = sessions[t].user
            /\ writes[r][t].parent = sessions[t].parent
            /\ writes[r][t].is_revoked
            /\ req[r].fresh \in Tokens => t \in {req[r].given, req[r].victim}
            /\ writes[r][t].replaced_by = IF req[r].fresh \in Tokens /\ t = req[r].given
                                          THEN req[r].fresh ELSE sessions[t].replaced_by
    /\ req[r].fresh \in Tokens =>
        /\ Writes(r, req[r].fresh) <=> pc[r] = "commit"
        /\ pc[r] = "commit" => writes[r][req[r].fresh] = NewRow(r)
        /\ pc[r] \in {"create", "commit"} /\ req[r].given \in Tokens => Writes(r, req[r].given)

\* The rows revoke_all_for_user selected are of the request's user, and dead
\* from its commit on.
Swept(r) ==
    /\ pc[r] \notin {"sweep", "commit", "respond"} => req[r].snap = {}
    /\ \A t \in req[r].snap :
        /\ Stored(t) /\ sessions[t].user = req[r].user
        /\ pc[r] = "commit" => sessions[t].is_revoked \/ Writes(r, t)
        /\ pc[r] = "respond" => sessions[t].is_revoked

\* A request and the table, and the requests among themselves: all statements
\* together preserve this, none of its parts alone.
Consistent ==
    /\ OneWriter
    /\ FreshIsMine
    /\ \A r \in Requests : Prepared(r) /\ Buffered(r) /\ Swept(r)

-----------------------------------------------------------------------------
(* Properties.                                                             *)

\* Every committed change of the table is one whole operation of the ledger:
\* a sign-in, a rotation or a logout, however the statements interleave.
Ledger == INSTANCE SessionLedger WITH
    state <- [t \in Tokens |-> IF sessions[t] = NoRow THEN "unborn"
                               ELSE IF sessions[t].is_revoked THEN "dead" ELSE "alive"],
    owner <- [t \in Tokens |-> IF sessions[t] = NoRow THEN NoUser ELSE sessions[t].user],
    successor <- [t \in Tokens |-> IF sessions[t] = NoRow THEN NoToken
                                   ELSE sessions[t].replaced_by]
ImplementsLedger == Ledger!Spec

\* One request at a time, refresh_tokens replaces only sessions that are alive:
\* no token is ever exchanged twice, whatever fails and whatever a client
\* presents again.
ImplementsStrictLedger == Ledger!StrictSpec

\* mark_replaced and create stand or fall together: a committed row that names
\* a successor is revoked, and the successor is a committed row of the same
\* user made from it (the last one, when two rotations raced).
RotationAtomic ==
    \A t \in Tokens : sessions[t] # NoRow /\ sessions[t].replaced_by # NoToken =>
        LET n == sessions[t].replaced_by IN
        /\ sessions[t].is_revoked
        /\ sessions[n] # NoRow
        /\ sessions[n].user = sessions[t].user /\ sessions[n].parent = t

\* No step deletes a committed session, brings a revoked one back to life, or
\* forgets that it was replaced (which is what reuse detection reads).
SessionsOnlyDie ==
    \A t \in Tokens : sessions[t] # NoRow =>
        /\ sessions'[t] # NoRow
        /\ sessions[t].is_revoked => sessions'[t].is_revoked
        /\ sessions[t].replaced_by # NoToken => sessions'[t].replaced_by # NoToken
RevokedForever == [][SessionsOnlyDie]_vars

\* When logout_all_devices, a password change or the detection of a reused
\* token has been committed, no session its UPDATE selected is alive: also not
\* one another request was rotating or evicting meanwhile.
RevokeAllComplete ==
    \A r \in Requests : pc[r] = "respond" =>
        \A t \in req[r].snap : sessions[t].is_revoked

\* A token that was handed to a client is in the table: a rotation or sign-in
\* that failed has handed out nothing.
HandedOutIsStored == \A t \in held : sessions[t] # NoRow

\* A request always ends: no statement waits for a row for ever.
RequestTerminates == \A r \in Requests : pc[r] # "idle" ~> pc[r] = "idle"

\* A sign-in that may stand: made with the present password, or with an auth token
\* issued before the password changed, and then within AUTH_TTL of the change.
Stands(u, signIn) ==
    \/ signIn.password = password[u]
    \/ /\ u \in TwoFactorUsers
       /\ changed[u] <= signIn.since /\ signIn.since < changed[u] + AUTH_TTL

\* One request at a time: a session that is alive goes back to a sign-in with the
\* user's present password, so a password change ends what the old one opened;
\* or to a code given for an auth token that was issued before the change, and
\* then within AUTH_TTL of it.
NoSessionOutlivesPassword ==
    \A t \in Tokens : Alive(sessions, t) => Stands(sessions[t].user, sessions[t].cred)

SignsIn(r) == /\ req[r].op \in SignIns
              /\ pc[r] = "commit" /\ pc'[r] = "respond"
Ended(u) == {t \in Tokens : Alive(sessions, t) /\ sessions[t].user = u /\ ~Alive(sessions', t)}

\* One request at a time: a sign-in leaves no more active sessions than the limit,
\* or ends one for the one it opens, and no session older than one it ends goes
\* on.  (A user can be above the limit all the same: a session refreshed in the
\* very instant of its expiry was not counted by the sign-ins before; and the one
\* that a sign-in ends may expire before it is through.)
SignInKeepsCap ==
    [][\A r \in Requests : SignsIn(r) =>
        LET u == req[r].user
            after == ActiveSessions(sessions', u)
        IN  /\ Cardinality(after) <= MAX_SESSIONS_PER_USER \/ Ended(u) # {}
            /\ \A t \in Ended(u), o \in after :
                  sessions[t].created_at <= sessions'[o].created_at
      ]_vars
=============================================================================
