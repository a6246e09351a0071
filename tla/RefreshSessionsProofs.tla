------------------------ MODULE RefreshSessionsProofs ------------------------
(***************************************************************************)
(* Proofs about RefreshSessions, for any sets of users, tokens and         *)
(* requests and any limits.                                                *)
(***************************************************************************)
EXTENDS RefreshSessions, FiniteSetTheorems, TLAPS

USE ConstantsAssumption

-----------------------------------------------------------------------------
(* Types.                                                                  *)

\* A request sees rows only, and sees every committed one.
LEMMA ViewType ==
    ASSUME TypeOK, NEW r \in Requests
    PROVE  /\ View(r) \in Table
           /\ \A t \in Tokens : Stored(t) \/ Writes(r, t) <=> View(r)[t] # NoRow
           /\ \A t \in Tokens : Writes(r, t) => View(r)[t] = writes[r][t]
           /\ \A t \in Tokens : ~Writes(r, t) => View(r)[t] = sessions[t]
BY DEF TypeOK, View, Table, Stored, Writes

\* The empty request is a request.
LEMMA NoRequestType == NoRequest \in Request
BY DEF NoRequest, Request, Ops, SignIn

\* The lifetime of a new session fits the type.
LEMMA ExpiryType ==
    TypeOK => now + REFRESH_TTL \in 0..(MaxTime + REFRESH_TTL)
BY DEF TypeOK

\* Ending a session leaves the rest of its row alone.
LEMMA EndedRow ==
    ASSUME NEW row \in Row
    PROVE  /\ [row EXCEPT !.is_revoked = TRUE] \in Row
           /\ \A n \in Tokens : [row EXCEPT !.is_revoked = TRUE, !.replaced_by = n] \in Row
BY DEF Row

\* Accepting a well-typed request keeps the types.
LEMMA AcceptType ==
    ASSUME TypeOK, NEW r \in Requests, NEW request \in Request, NEW label \in PCs,
           Accept(r, request, label)
    PROVE  TypeOK'
BY DEF TypeOK, Accept, Goto, userVars, Table

\* The types hold in the beginning.
LEMMA TypeInit == Init => TypeOK
BY NoRequestType DEF Init, TypeOK, Table, NoWrites, PCs

\* The statements of a request are well typed: the rows they rewrite are rows.
LEMMA ProceedType ==
    ASSUME TypeOK, Consistent, NEW r \in Requests,
           Proceed(r) \/ LoseResponse(r) \/ Abort(r)
    PROVE  TypeOK'
<1> USE NoRequestType DEF TypeOK
<1> DEFINE q == req[r]
<1>0. /\ q \in Request
      /\ pc[r] # "idle" => q.user \in Users
      /\ pc[r] = "revoke" => q.victim \in Tokens /\ View(r)[q.victim] \in Row
      /\ pc[r] = "replace" => /\ q.given \in Tokens /\ View(r)[q.given] \in Row
                              /\ q.fresh \in Tokens
      /\ pc[r] = "create" => q.fresh \in Tokens
  BY ViewType DEF Consistent, Prepared, Table
<1>1. CASE CountActive(r)
  BY <1>1 DEF CountActive, Step, Goto, userVars, PCs
<1>2. CASE PickOldest(r)
  BY <1>2 DEF PickOldest, Step, Goto, userVars, PCs, Request
<1>3. CASE RevokeOne(r)
  BY <1>0, <1>3 DEF RevokeOne, Step, Goto, Write, userVars, PCs, Table, Row
<1>4. CASE LoadUser(r)
  <2>1. [q EXCEPT !.expires = now + REFRESH_TTL] \in Request
    BY <1>0, ExpiryType DEF Request
  <2>2. req' = [req EXCEPT ![r] = [q EXCEPT !.expires = now + REFRESH_TTL]]
    BY <1>4 DEF LoadUser
  <2> QED
    BY <1>4, <2>1, <2>2 DEF LoadUser, Step, Goto, userVars, PCs
<1>5. CASE RefuseUser(r) \/ UserGone(r) \/ LoseResponse(r)
  BY <1>5 DEF RefuseUser, UserGone, LoseResponse, Finish, Goto, userVars, PCs
<1>6. CASE MarkReplaced(r)
  BY <1>0, <1>6 DEF MarkReplaced, Step, Goto, Write, userVars, PCs, Table, Row
<1>7. CASE CreateSession(r)
  <2>1. NewRow(r) \in Row
    BY <1>0, <1>7 DEF CreateSession, Step, NewRow, Row, Request
  <2> QED
    BY <1>0, <1>7, <2>1 DEF CreateSession, Step, Goto, Write, userVars, PCs, Table
<1>8. CASE UpdateUser(r)
  BY <1>8 DEF UpdateUser, Step, Goto, userVars, PCs
<1>9. CASE SelectAlive(r)
  BY <1>9 DEF SelectAlive, Step, Goto, userVars, PCs, Request
<1>10. CASE RevokeAll(r)
  <2>1. \A t \in Tokens : Alive(View(r), t) => [View(r)[t] EXCEPT !.is_revoked = TRUE] \in Row
    <3> SUFFICES ASSUME NEW t \in Tokens, Alive(View(r), t)
                 PROVE  [View(r)[t] EXCEPT !.is_revoked = TRUE] \in Row
      OBVIOUS
    <3>1. View(r)[t] \in Row
      BY ViewType DEF Alive, Table
    <3> QED
      BY <3>1, EndedRow
  <2> QED
    BY <1>10, <2>1 DEF RevokeAll, Step, Goto, userVars, PCs, Table
<1>11. CASE Commit(r)
  <2>1. NoWrites \in Table
    BY DEF NoWrites, Table
  <2>2. password' \in [Users -> Nat]
    BY <1>0, <1>11 DEF Commit
  <2> QED
    BY <1>11, <2>1, <2>2, ViewType DEF Commit, Goto, PCs
<1>12. CASE Respond(r)
  <2>1. held' \subseteq Tokens
    BY <1>12 DEF Respond, Request
  <2> QED
    BY <1>12, <2>1 DEF Respond, Finish, Goto, userVars, PCs
<1>13. CASE Abort(r)
  BY <1>13 DEF Abort, Finish, Goto, userVars, PCs, Table, NoWrites
<1> QED
  BY <1>1, <1>2, <1>3, <1>4, <1>5, <1>6, <1>7, <1>8, <1>9, <1>10, <1>11, <1>12, <1>13
  DEF Proceed

\* The clock and the handlers that write users rows only keep the types.
LEMMA EnvironmentType == TypeOK /\ Environment => TypeOK'
<1> SUFFICES ASSUME TypeOK, Environment PROVE TypeOK'
  OBVIOUS
<1> USE DEF TypeOK
<1>1. CASE Tick
  BY <1>1 DEF Tick, userVars
<1>2. CASE \E u \in Users : LoginAsksFor2FA(u)
  BY <1>2 DEF LoginAsksFor2FA, userVars
<1>3. CASE \E u \in Users, b \in BOOLEAN : SetActive(u, b)
  BY <1>3 DEF SetActive
<1>4. CASE \E u \in Users : DeleteUser(u)
  BY <1>4 DEF DeleteUser
<1> QED
  BY <1>1, <1>2, <1>3, <1>4 DEF Environment

-----------------------------------------------------------------------------
(* Consistency.                                                            *)

\* What a transaction has written keeps a stored row's user, parent, death and
\* successor; what it adds is its fresh token.
LEMMA ViewKeeps ==
    ASSUME TypeOK, Consistent, NEW r \in Requests, NEW t \in Tokens
    PROVE  /\ Stored(t) => /\ View(r)[t] # NoRow
                           /\ View(r)[t].user = sessions[t].user
                           /\ View(r)[t].parent = sessions[t].parent
                           /\ sessions[t].is_revoked => View(r)[t].is_revoked
                           /\ sessions[t].replaced_by # NoToken =>
                                View(r)[t].replaced_by # NoToken
           /\ ~Stored(t) /\ View(r)[t] # NoRow => t = req[r].fresh
<1>1. CASE ~Writes(r, t)
  BY <1>1, ViewType DEF Stored
<1>2. CASE Writes(r, t)
  <2>1. View(r)[t] = writes[r][t] /\ View(r)[t] # NoRow
    BY <1>2, ViewType
  <2>2. t = req[r].fresh => ~Stored(t)
    BY <1>2 DEF Consistent, Buffered, FreshIsMine
  <2>3. CASE t # req[r].fresh
    BY <1>2, <2>1, <2>3 DEF Consistent, Buffered, TypeOK
  <2> QED
    BY <2>2, <2>3, <1>2
<1> QED
  BY <1>1, <1>2

\* A step of one request leaves the promises of the others alone.
LEMMA OthersKept ==
    ASSUME TypeOK, Consistent, NEW r \in Requests, NEW s \in Requests \ {r},
           pc'[s] = pc[s], req'[s] = req[s], writes'[s] = writes[s],
           sessions' = sessions \/ (pc[r] = "commit" /\ sessions' = View(r))
    PROVE  Prepared(s)' /\ Buffered(s)' /\ Swept(s)'
<1>0. Prepared(s) /\ Buffered(s) /\ Swept(s)
  BY DEF Consistent
<1>1. \A t \in Tokens : Stored(t) =>
        /\ Stored(t)' /\ sessions'[t].user = sessions[t].user
        /\ sessions[t].is_revoked => sessions'[t].is_revoked
  BY ViewKeeps DEF Stored
<1>2. \A t \in Tokens : Writes(s, t) => sessions'[t] = sessions[t]
  BY ViewType DEF Consistent, OneWriter
<1>3. \A t \in Tokens : Writes(s, t)' <=> Writes(s, t)
  BY DEF Writes
<1>4. NewRow(s)' = NewRow(s)
  BY DEF NewRow
<1>5. /\ req[s].given \in Tokens \cup {NoToken} /\ req[s].victim \in Tokens \cup {NoToken}
      /\ req[s].snap \subseteq Tokens
  BY DEF TypeOK, Request
<1>6. Prepared(s)'
  BY <1>0, <1>1, <1>5 DEF Prepared
<1>7. Buffered(s)'
  BY <1>0, <1>1, <1>2, <1>3, <1>4 DEF Buffered
<1>8. Swept(s)'
  BY <1>0, <1>1, <1>3, <1>5 DEF Swept
<1> QED
  BY <1>6, <1>7, <1>8

\* What a request must bring along when it is accepted.
Acceptable(q, label) ==
    /\ label \in {"count", "load_user", "revoke", "revoke_all", "update_user"}
    /\ q \in Request /\ q.user \in Users /\ q.op \in Ops /\ q.snap = {}
    /\ q.given \in Tokens => /\ Stored(q.given) /\ sessions[q.given].user = q.user
                             /\ q.victim = NoToken
    /\ q.victim \in Tokens => Stored(q.victim) /\ sessions[q.victim].user = q.user
    /\ q.fresh \in Tokens => FreshToken(q.fresh)
    /\ label = "revoke" => q.victim \in Tokens /\ q.op = "logout"
    /\ label = "count" => q.op \in SignIns
    /\ label = "load_user" => q.op = "refresh" /\ q.fresh \in Tokens
    /\ label \in {"update_user", "revoke_all"} => q.fresh = NoToken
    /\ q.op \in SignIns => q.fresh \in Tokens /\ q.given = NoToken
    /\ q.op = "refresh" => q.given \in Tokens
    /\ q.op \notin SignIns \cup {"refresh"} => q.fresh = NoToken

\* A request that brings it along leaves all requests consistent.
LEMMA AcceptConsistent ==
    ASSUME TypeOK, Consistent, NEW r \in Requests, NEW q, NEW label,
           Acceptable(q, label), Accept(r, q, label)
    PROVE  Consistent'
<1>1. /\ pc[r] = "idle" /\ pc'[r] = label /\ req'[r] = q
      /\ sessions' = sessions /\ writes' = writes
      /\ \A s \in Requests \ {r} : pc'[s] = pc[s] /\ req'[s] = req[s]
  BY DEF Accept, Goto, TypeOK
<1>2. \A t \in Tokens : ~Writes(r, t)
  BY <1>1 DEF Consistent, Buffered
<1>3. OneWriter'
  BY <1>1 DEF Consistent, OneWriter, Writes
<1>4. FreshIsMine'
  <2>1. q.fresh \in Tokens => ~Stored(q.fresh) /\ \A s \in Requests : req[s].fresh # q.fresh
    BY DEF Acceptable, FreshToken, Stored
  <2>2. pc'[r] # "respond"
    BY <1>1 DEF Acceptable
  <2> QED
    BY <1>1, <2>1, <2>2 DEF Consistent, FreshIsMine, Stored
<1>5. Prepared(r)' /\ Buffered(r)' /\ Swept(r)'
  BY <1>1, <1>2, NoRequestType DEF Acceptable, Prepared, Buffered, Swept, Stored, Writes
<1>6. \A s \in Requests \ {r} : Prepared(s)' /\ Buffered(s)' /\ Swept(s)'
  BY <1>1, OthersKept
<1> QED
  BY <1>3, <1>4, <1>5, <1>6 DEF Consistent

\* Every call that is accepted brings it along.
LEMMA BeginAccepts ==
    ASSUME TypeOK, HandedOutIsStored, NEW r \in Requests, Begin(r)
    PROVE  \E q, label : Acceptable(q, label) /\ Accept(r, q, label)
<1>1. ASSUME NEW op \in SignIns, NEW u \in Users, NEW t \in Tokens, NEW c \in Nat, FreshToken(t)
      PROVE  Acceptable(NewSessionRequest(op, u, t, c), "count")
  <2>1. NewSessionRequest(op, u, t, c) \in Request
    BY ExpiryType DEF TypeOK, NewSessionRequest, NoRequest, Request, Ops, SignIns, SignIn
  <2> QED
    BY <1>1, <2>1 DEF NewSessionRequest, NoRequest, Acceptable, SignIns, Ops
<1>2. CASE \E u \in Users : Login(r, u)
  BY <1>1, <1>2 DEF Login, SignIns, TypeOK
<1>3. CASE \E u \in Users : Login2FA(r, u)
  BY <1>1, <1>3 DEF Login2FA, SignIns, TypeOK
<1>4. CASE \E u \in Users : LogoutAll(r, u)
  <2>1. PICK u \in Users : LogoutAll(r, u)
    BY <1>4
  <2> DEFINE q == [NoRequest EXCEPT !.op = "logout_all", !.user = u, !.start = now]
  <2>2. q \in Request
    BY NoRequestType DEF NoRequest, Request, Ops, TypeOK
  <2>3. Acceptable(q, "revoke_all")
    BY <2>2 DEF NoRequest, Acceptable, Ops, SignIns
  <2> QED
    BY <2>1, <2>3 DEF LogoutAll
<1>5. CASE \E u \in Users : ResetPassword(r, u) \/ ChangePassword(r, u)
  <2>1. PICK u \in Users, op \in {"reset_password", "change_password"} : SetPassword(r, u, op)
    BY <1>5 DEF ResetPassword, ChangePassword
  <2> DEFINE q == [NoRequest EXCEPT !.op = op, !.user = u, !.start = now]
  <2>2. q \in Request
    BY NoRequestType DEF NoRequest, Request, Ops, TypeOK
  <2>3. Acceptable(q, "update_user")
    BY <2>2 DEF NoRequest, Acceptable, Ops, SignIns
  <2> QED
    BY <2>1, <2>3 DEF SetPassword
<1>6. CASE \E t \in Tokens : RefreshReused(r, t)
  <2>1. PICK t \in Tokens : RefreshReused(r, t)
    BY <1>6
  <2> DEFINE q == [NoRequest EXCEPT !.op = "refresh", !.user = sessions[t].user,
                                    !.given = t, !.start = now]
  <2>2. Stored(t) /\ sessions[t].user \in Users
    BY <2>1 DEF RefreshReused, Stored, TypeOK, Table, Row
  <2>3. q \in Request
    BY <2>2, NoRequestType DEF NoRequest, Request, Ops, TypeOK
  <2>4. /\ q.op = "refresh" /\ q.user = sessions[t].user /\ q.given = t /\ q.snap = {}
        /\ q.fresh = NoToken /\ q.victim = NoToken
    BY DEF NoRequest
  <2>5. Acceptable(q, "revoke_all")
    <3> HIDE DEF q
    <3> QED
      BY <2>2, <2>3, <2>4 DEF Acceptable, Ops, SignIns
  <2> QED
    BY <2>1, <2>5 DEF RefreshReused
<1>7. CASE \E t \in Tokens : RefreshValid(r, t)
  <2>1. PICK t \in Tokens : RefreshValid(r, t)
    BY <1>7
  <2>2. PICK n \in Tokens :
          /\ FreshToken(n)
          /\ Accept(r, [NoRequest EXCEPT !.op = "refresh", !.user = sessions[t].user,
                                         !.given = t, !.fresh = n, !.start = now,
                                         !.cred = sessions[t].cred], "load_user")
    BY <2>1 DEF RefreshValid
  <2> DEFINE q == [NoRequest EXCEPT !.op = "refresh", !.user = sessions[t].user,
                                    !.given = t, !.fresh = n, !.start = now,
                                    !.cred = sessions[t].cred]
  <2>3. Stored(t) /\ sessions[t].user \in Users /\ sessions[t].cred \in SignIn
    BY <2>1 DEF RefreshValid, Alive, Stored, TypeOK, Table, Row
  <2>4. q \in Request
    BY <2>3, NoRequestType DEF NoRequest, Request, Ops, TypeOK
  <2>5. /\ q.op = "refresh" /\ q.user = sessions[t].user /\ q.given = t /\ q.snap = {}
        /\ q.fresh = n /\ q.victim = NoToken
    BY DEF NoRequest
  <2>6. Acceptable(q, "load_user")
    <3> HIDE DEF q
    <3> QED
      BY <2>2, <2>3, <2>4, <2>5 DEF Acceptable, Ops, SignIns
  <2> QED
    BY <2>2, <2>6
<1>8. CASE \E t \in Tokens : Logout(r, t)
  <2>1. PICK t \in Tokens : Logout(r, t)
    BY <1>8
  <2> DEFINE q == [NoRequest EXCEPT !.op = "logout", !.user = sessions[t].user,
                                    !.victim = t, !.start = now]
  <2>2. Stored(t) /\ sessions[t].user \in Users
    BY <2>1 DEF Logout, HandedOutIsStored, Stored, TypeOK, Table, Row
  <2>3. q \in Request
    BY <2>2, NoRequestType DEF NoRequest, Request, Ops, TypeOK
  <2>4. /\ q.op = "logout" /\ q.user = sessions[t].user /\ q.victim = t /\ q.snap = {}
        /\ q.fresh = NoToken /\ q.given = NoToken
    BY DEF NoRequest
  <2>5. Acceptable(q, "revoke")
    <3> HIDE DEF q
    <3> QED
      BY <2>2, <2>3, <2>4 DEF Acceptable, Ops, SignIns
  <2> QED
    BY <2>1, <2>5 DEF Logout
<1> QED
  BY <1>2, <1>3, <1>4, <1>5, <1>6, <1>7, <1>8 DEF Begin, Refresh

\* So every first statement keeps types and consistency.
LEMMA BeginConsistent ==
    ASSUME TypeOK, Consistent, HandedOutIsStored, NEW r \in Requests, Begin(r)
    PROVE  TypeOK' /\ Consistent'
<1>1. PICK q, label : Acceptable(q, label) /\ Accept(r, q, label)
  BY BeginAccepts
<1>2. q \in Request /\ label \in PCs
  BY <1>1 DEF Acceptable, PCs
<1> QED
  BY <1>1, <1>2, AcceptType, AcceptConsistent

\* It is enough to look at the request that takes the step.
LEMMA StatementConsistent ==
    ASSUME TypeOK, Consistent, NEW r \in Requests,
           pc[r] # "respond", pc'[r] # "respond",
           sessions' = sessions, req'[r].fresh = req[r].fresh,
           \A s \in Requests \ {r} :
               pc'[s] = pc[s] /\ req'[s] = req[s] /\ writes'[s] = writes[s],
           \A t \in Tokens : Writes(r, t)' => Writes(r, t) \/ RowFree(r, t),
           Prepared(r)', Buffered(r)', Swept(r)'
    PROVE  Consistent'
<1>1. OneWriter'
  BY DEF Consistent, OneWriter, Writes, RowFree
<1>2. FreshIsMine'
  BY DEF Consistent, FreshIsMine, Stored
<1>3. \A s \in Requests \ {r} : Prepared(s)' /\ Buffered(s)' /\ Swept(s)'
  BY OthersKept
<1> QED
  BY <1>1, <1>2, <1>3 DEF Consistent

\* A request that ends without a commit leaves nothing behind.
LEMMA FinishConsistent ==
    ASSUME TypeOK, Consistent, NEW r \in Requests, Finish(r),
           sessions' = sessions, writes' = [writes EXCEPT ![r] = NoWrites]
    PROVE  Consistent'
<1>1. /\ pc'[r] = "idle" /\ req'[r] = NoRequest /\ writes'[r] = NoWrites
      /\ \A s \in Requests \ {r} :
            pc'[s] = pc[s] /\ req'[s] = req[s] /\ writes'[s] = writes[s]
  BY DEF Finish, Goto, TypeOK
<1>2. OneWriter'
  BY <1>1 DEF Consistent, OneWriter, Writes, NoWrites
<1>3. FreshIsMine'
  BY <1>1 DEF Consistent, FreshIsMine, Stored, NoRequest
<1>4. Prepared(r)' /\ Buffered(r)' /\ Swept(r)'
  BY <1>1 DEF Prepared, Buffered, Swept, Stored, Writes, NoRequest, NoWrites, SignIns
<1>5. \A s \in Requests \ {r} : Prepared(s)' /\ Buffered(s)' /\ Swept(s)'
  BY <1>1, OthersKept
<1> QED
  BY <1>2, <1>3, <1>4, <1>5 DEF Consistent

\* A commit turns the buffer into the table.
LEMMA CommitConsistent ==
    ASSUME TypeOK, Consistent, NEW r \in Requests, Commit(r)
    PROVE  Consistent'
<1> DEFINE q == req[r]
<1>1. /\ pc[r] = "commit" /\ pc'[r] = "respond" /\ req' = req
      /\ sessions' = View(r) /\ writes'[r] = NoWrites
      /\ \A s \in Requests \ {r} : pc'[s] = pc[s] /\ writes'[s] = writes[s]
  BY DEF Commit, Goto, TypeOK
<1>2. \A t \in Tokens : Stored(t) =>
        /\ Stored(t)' /\ sessions'[t].user = sessions[t].user
        /\ sessions[t].is_revoked => sessions'[t].is_revoked
  BY <1>1, ViewKeeps DEF Stored
<1>3. OneWriter'
  BY <1>1 DEF Consistent, OneWriter, Writes, NoWrites
<1>4. q.fresh \in Tokens => Stored(q.fresh)'
  BY <1>1, ViewType DEF Consistent, Buffered, Stored, Writes
<1>5. FreshIsMine'
  <2>1. ASSUME NEW s \in Requests \ {r}, req[s].fresh \in Tokens
        PROVE  Stored(req[s].fresh)' <=> Stored(req[s].fresh)
    <3>1. req[s].fresh # q.fresh
      BY <2>1 DEF Consistent, FreshIsMine
    <3> QED
      BY <1>1, <1>2, <2>1, <3>1, ViewKeeps DEF Stored
  <2> QED
    BY <1>1, <1>4, <2>1 DEF Consistent, FreshIsMine
<1>6. Prepared(r)'
  <2>1. q.given \in Tokens \cup {NoToken} /\ q.victim \in Tokens \cup {NoToken}
    BY DEF TypeOK, Request
  <2> QED
    BY <1>1, <1>2, <2>1 DEF Consistent, Prepared
<1>7. Buffered(r)'
  BY <1>1 DEF Buffered, Writes, NoWrites
<1>8. Swept(r)'
  <2>1. q.snap \subseteq Tokens
    BY DEF TypeOK, Request
  <2>2. Swept(r)
    BY DEF Consistent
  <2>3. ASSUME NEW t \in q.snap PROVE sessions'[t].is_revoked
    <3>1. t \in Tokens /\ Stored(t) /\ (sessions[t].is_revoked \/ Writes(r, t))
      BY <1>1, <2>1, <2>2 DEF Swept
    <3>2. t # q.fresh
      BY <1>1, <3>1 DEF Consistent, FreshIsMine
    <3>3. Writes(r, t) => sessions'[t] = writes[r][t] /\ writes[r][t].is_revoked
      BY <1>1, <3>1, <3>2, ViewType DEF Consistent, Buffered
    <3> QED
      BY <1>2, <3>1, <3>3
  <2> QED
    BY <1>1, <1>2, <2>1, <2>2, <2>3 DEF Swept
<1>9. \A s \in Requests \ {r} : Prepared(s)' /\ Buffered(s)' /\ Swept(s)'
  BY <1>1, OthersKept
<1> QED
  BY <1>3, <1>5, <1>6, <1>7, <1>8, <1>9 DEF Consistent

\* Every later statement, answer and abort keeps the requests consistent.
LEMMA ProceedConsistent ==
    ASSUME TypeOK, Consistent, NEW r \in Requests,
           Proceed(r) \/ LoseResponse(r) \/ Abort(r)
    PROVE  Consistent'
<1> DEFINE q == req[r]
<1>0. /\ Prepared(r) /\ Buffered(r) /\ Swept(r) /\ q \in Request /\ pc \in [Requests -> PCs]
      /\ req \in [Requests -> Request] /\ writes \in [Requests -> Table] /\ sessions \in Table
      /\ q.given \in Tokens \cup {NoToken} /\ q.victim \in Tokens \cup {NoToken}
      /\ q.fresh \in Tokens \cup {NoToken} /\ q.snap \subseteq Tokens
      /\ pc[r] \notin {"create", "commit"} =>
            \A t \in Tokens : ~Writes(r, t) /\ View(r)[t] = sessions[t]
  BY ViewType DEF Consistent, Buffered, TypeOK, Request
\* Statements that only read.
<1>1. CASE CountActive(r) \/ UpdateUser(r)
  <2>1. /\ sessions' = sessions /\ req' = req /\ writes' = writes
        /\ \A s \in Requests \ {r} : pc'[s] = pc[s]
        /\ \/ pc[r] = "count" /\ pc'[r] \in {"pick", "create"}
           \/ pc[r] = "update_user" /\ pc'[r] = "revoke_all"
    BY <1>0, <1>1 DEF CountActive, UpdateUser, Step, Goto
  <2>2. Prepared(r)' /\ Buffered(r)' /\ Swept(r)'
    BY <1>0, <2>1 DEF Prepared, Buffered, Swept, Stored, Writes, SignIns
  <2> QED
    BY <2>1, <2>2, StatementConsistent DEF Writes
<1>2. CASE PickOldest(r)
  <2>1. CASE Step(r, "pick", "create") /\ UNCHANGED <<req, writes>>
    <3>1. /\ sessions' = sessions /\ req' = req /\ writes' = writes
          /\ \A s \in Requests \ {r} : pc'[s] = pc[s]
          /\ pc[r] = "pick" /\ pc'[r] = "create"
      BY <1>0, <2>1 DEF Step, Goto
    <3>2. Prepared(r)' /\ Buffered(r)' /\ Swept(r)'
      BY <1>0, <3>1 DEF Prepared, Buffered, Swept, Stored, Writes, SignIns
    <3> QED
      BY <3>1, <3>2, StatementConsistent DEF Writes
  <2>2. CASE \E t \in Tokens :
               /\ Step(r, "pick", "revoke")
               /\ Oldest(View(r), q.user, t)
               /\ req' = [req EXCEPT ![r].victim = t]
               /\ UNCHANGED writes
    <3>1. PICK t \in Tokens : /\ Step(r, "pick", "revoke")
                              /\ Oldest(View(r), q.user, t)
                              /\ req' = [req EXCEPT ![r].victim = t]
                              /\ UNCHANGED writes
      BY <2>2
    <3>2. Stored(t) /\ sessions[t].user = q.user
      BY <1>0, <3>1 DEF Step, Oldest, ActiveSessions, Alive, Stored
    <3>3. /\ sessions' = sessions /\ writes' = writes
          /\ req'[r] = [q EXCEPT !.victim = t]
          /\ \A s \in Requests \ {r} : pc'[s] = pc[s] /\ req'[s] = req[s]
          /\ pc[r] = "pick" /\ pc'[r] = "revoke"
      BY <1>0, <3>1 DEF Step, Goto
    <3>4. /\ req'[r].victim = t /\ req'[r].user = q.user /\ req'[r].op = q.op
          /\ req'[r].given = q.given /\ req'[r].fresh = q.fresh /\ req'[r].snap = q.snap
      BY <1>0, <3>3 DEF Request
    <3>5. Prepared(r)' /\ Buffered(r)' /\ Swept(r)'
      BY <1>0, <3>2, <3>3, <3>4 DEF Prepared, Buffered, Swept, Stored, Writes, SignIns
    <3> QED
      BY <3>3, <3>4, <3>5, StatementConsistent DEF Writes
  <2> QED
    BY <1>2, <2>1, <2>2 DEF PickOldest
<1>3. CASE LoadUser(r)
  <2>1. /\ sessions' = sessions /\ writes' = writes
        /\ req'[r] = [q EXCEPT !.expires = now + REFRESH_TTL]
        /\ \A s \in Requests \ {r} : pc'[s] = pc[s] /\ req'[s] = req[s]
        /\ pc[r] = "load_user" /\ pc'[r] = "replace"
    BY <1>0, <1>3 DEF LoadUser, Step, Goto
  <2>2. /\ req'[r].victim = q.victim /\ req'[r].user = q.user /\ req'[r].op = q.op
        /\ req'[r].given = q.given /\ req'[r].fresh = q.fresh /\ req'[r].snap = q.snap
    BY <1>0, <2>1 DEF Request
  <2>3. Prepared(r)' /\ Buffered(r)' /\ Swept(r)'
    BY <1>0, <2>1, <2>2 DEF Prepared, Buffered, Swept, Stored, Writes, SignIns
  <2> QED
    BY <2>1, <2>2, <2>3, StatementConsistent DEF Writes
<1>4. CASE SelectAlive(r)
  <2> DEFINE chosen == {t \in Tokens : Alive(View(r), t) /\ View(r)[t].user = q.user}
  <2>1. /\ sessions' = sessions /\ writes' = writes
        /\ req'[r] = [q EXCEPT !.snap = chosen]
        /\ \A s \in Requests \ {r} : pc'[s] = pc[s] /\ req'[s] = req[s]
        /\ pc[r] = "revoke_all" /\ pc'[r] = "sweep"
    BY <1>0, <1>4 DEF SelectAlive, Step, Goto
  <2>2. /\ req'[r].victim = q.victim /\ req'[r].user = q.user /\ req'[r].op = q.op
        /\ req'[r].given = q.given /\ req'[r].fresh = q.fresh /\ req'[r].snap = chosen
    BY <1>0, <2>1 DEF Request
  <2>3. \A t \in chosen : Stored(t) /\ sessions[t].user = q.user
    BY <1>0, <2>1 DEF Alive, Stored
  <2>4. Prepared(r)' /\ Buffered(r)' /\ Swept(r)'
    <3> HIDE DEF chosen
    <3> QED
      BY <1>0, <2>1, <2>2, <2>3 DEF Prepared, Buffered, Swept, Stored, Writes, SignIns
  <2> QED
    BY <2>1, <2>2, <2>4, StatementConsistent DEF Writes
\* Statements that write.
<1>5. CASE RevokeOne(r)
  <2> DEFINE t == q.victim
             row == [View(r)[t] EXCEPT !.is_revoked = TRUE]
  <2>1. t \in Tokens /\ View(r)[t] = sessions[t] /\ sessions[t] \in Row /\ pc[r] = "revoke"
    BY <1>0, <1>5 DEF RevokeOne, Step, Prepared, Stored, Table
  <2>2. /\ row # NoRow /\ row.user = sessions[t].user /\ row.parent = sessions[t].parent
        /\ row.is_revoked /\ row.replaced_by = sessions[t].replaced_by
    BY <2>1, EndedRow DEF Row
  <2>3. /\ sessions' = sessions /\ req' = req
        /\ \A s \in Requests \ {r} : pc'[s] = pc[s] /\ writes'[s] = writes[s]
        /\ pc'[r] = IF q.op = "logout" THEN "commit" ELSE "create"
        /\ writes'[r] = [writes[r] EXCEPT ![t] = row] /\ RowFree(r, t)
    BY <1>0, <1>5 DEF RevokeOne, Step, Goto, Write
  <2>4. /\ Writes(r, t)' /\ writes'[r][t] = row
        /\ \A x \in Tokens \ {t} : ~Writes(r, x)'
    BY <1>0, <2>1, <2>2, <2>3 DEF Writes, Table
  <2>5. \/ q.op = "logout" /\ q.fresh = NoToken
        \/ q.op \in SignIns /\ q.fresh \in Tokens /\ q.given = NoToken
    BY <1>0, <2>1 DEF Prepared, SignIns
  <2>6. Prepared(r)' /\ Buffered(r)'
    <3>1. q.fresh \in Tokens => ~Stored(q.fresh)
      BY <2>1 DEF Consistent, FreshIsMine
    <3>2. t # q.fresh /\ Stored(t) /\ sessions[t].user = q.user
      BY <1>0, <2>1, <3>1 DEF Prepared, Stored
    <3> HIDE DEF row
    <3>3. Prepared(r)'
      BY <1>0, <2>1, <2>3, <2>5 DEF Prepared, Stored, SignIns
    <3>4. Buffered(r)'
      <4>1. \A x \in Tokens : Writes(r, x)' => x = t
        BY <2>4
      <4>2. pc'[r] \in {"create", "commit"} /\ (q.fresh \in Tokens <=> pc'[r] = "create")
        BY <2>3, <2>5 DEF SignIns
      <4>3. q.fresh \in Tokens => q.given \notin Tokens /\ ~Writes(r, q.fresh)'
        BY <2>3, <2>5, <3>2, <4>1 DEF Writes
      <4> HIDE DEF t
      <4> QED
        BY <2>1, <2>2, <2>3, <2>4, <2>5, <3>2, <4>1, <4>2, <4>3 DEF Buffered, Stored, t
    <3> QED
      BY <3>3, <3>4
  <2>7. Swept(r)'
    BY <1>0, <2>1, <2>3 DEF Swept
  <2> QED
    BY <2>1, <2>3, <2>4, <2>6, <2>7, StatementConsistent
<1>6. CASE MarkReplaced(r)
  <2> DEFINE t == q.given
             row == [View(r)[t] EXCEPT !.is_revoked = TRUE, !.replaced_by = q.fresh]
  <2>1. /\ pc[r] = "replace" /\ q.op = "refresh" /\ q.fresh \in Tokens
        /\ t \in Tokens /\ View(r)[t] = sessions[t] /\ sessions[t] \in Row
        /\ Stored(t) /\ sessions[t].user = q.user
    <3>1. pc[r] = "replace"
      BY <1>6 DEF MarkReplaced, Step
    <3>2. q.op = "refresh" /\ q.fresh \in Tokens /\ t \in Tokens
      BY <1>0, <3>1 DEF Prepared
    <3>3. Stored(t) /\ sessions[t].user = q.user
      BY <1>0, <3>2 DEF Prepared
    <3> QED
      BY <1>0, <3>1, <3>2, <3>3 DEF Stored, Table
  <2>2. /\ row # NoRow /\ row.user = sessions[t].user /\ row.parent = sessions[t].parent
        /\ row.is_revoked /\ row.replaced_by = q.fresh
    <3>1. row = [sessions[t] EXCEPT !.is_revoked = TRUE, !.replaced_by = q.fresh]
      BY <2>1
    <3>2. row \in Row
      BY <2>1, <3>1, EndedRow
    <3> QED
      BY <2>1, <3>1, <3>2 DEF Row
  <2>3. /\ sessions' = sessions /\ req' = req
        /\ \A s \in Requests \ {r} : pc'[s] = pc[s] /\ writes'[s] = writes[s]
        /\ pc'[r] = "create" /\ RowFree(r, t)
        /\ writes'[r] = [writes[r] EXCEPT ![t] = row]
    BY <1>0, <1>6 DEF MarkReplaced, Step, Goto, Write
  <2>4. /\ Writes(r, t)' /\ writes'[r][t] = row
        /\ \A x \in Tokens : Writes(r, x)' => x = t
    BY <1>0, <2>1, <2>2, <2>3 DEF Writes, Table
  <2>5. t # q.fresh
    BY <2>1 DEF Consistent, FreshIsMine
  <2> HIDE DEF row
  <2>6. Prepared(r)'
    BY <1>0, <2>1, <2>3 DEF Prepared, Stored, SignIns
  <2>7. Buffered(r)'
    <3>1. ~Writes(r, q.fresh)'
      BY <2>1, <2>3, <2>4, <2>5 DEF Writes
    <3> QED
      BY <2>1, <2>2, <2>3, <2>4, <2>5, <3>1 DEF Buffered, Stored, Writes
  <2>8. Swept(r)'
    BY <1>0, <2>1, <2>3 DEF Swept
  <2> QED
    BY <2>1, <2>3, <2>4, <2>6, <2>7, <2>8, StatementConsistent
<1>7. CASE CreateSession(r)
  <2> DEFINE t == q.fresh
  <2>1. pc[r] = "create" /\ t \in Tokens /\ ~Stored(t) /\ NewRow(r) # NoRow
    <3>1. NewRow(r) \in Row
      BY <1>0, <1>7 DEF CreateSession, Step, Prepared, NewRow, Row, Request
    <3> QED
      BY <1>0, <1>7, <3>1 DEF CreateSession, Step, Prepared, Consistent, FreshIsMine
  <2>2. /\ sessions' = sessions /\ req' = req /\ pc'[r] = "commit"
        /\ \A s \in Requests \ {r} : pc'[s] = pc[s] /\ writes'[s] = writes[s]
        /\ writes'[r] = [writes[r] EXCEPT ![t] = NewRow(r)] /\ NewRow(r)' = NewRow(r)
    BY <1>0, <1>7 DEF CreateSession, Step, Goto, Write, NewRow
  <2>3. /\ writes'[r][t] = NewRow(r)
        /\ \A x \in Tokens \ {t} : writes'[r][x] = writes[r][x]
    BY <1>0, <2>1, <2>2 DEF Table
  <2>4. RowFree(r, t)
    <3>1. ASSUME NEW s \in Requests \ {r}, Writes(s, t) PROVE FALSE
      BY <2>1, <3>1 DEF Consistent, FreshIsMine, Buffered
    <3> QED
      BY <3>1 DEF RowFree, Writes
  <2>5. Prepared(r)'
    BY <1>0, <2>1, <2>2 DEF Prepared, Stored, SignIns
  <2>6. Buffered(r)'
    BY <1>0, <2>1, <2>2, <2>3 DEF Buffered, Stored, Writes
  <2>7. Swept(r)'
    BY <1>0, <2>1, <2>2 DEF Swept
  <2> QED
    BY <2>1, <2>2, <2>3, <2>4, <2>5, <2>6, <2>7, StatementConsistent DEF Writes
<1>8. CASE RevokeAll(r)
  <2> DEFINE ended == {t \in q.snap : Alive(View(r), t)}
  <2>1. /\ sessions' = sessions /\ req' = req
        /\ \A s \in Requests \ {r} : pc'[s] = pc[s] /\ writes'[s] = writes[s]
        /\ pc[r] = "sweep" /\ pc'[r] = "commit"
        /\ \A t \in q.snap : RowFree(r, t)
    BY <1>0, <1>8 DEF RevokeAll, Step, Goto
  <2>2. \A t \in Tokens : writes'[r][t] = IF t \in ended
                                          THEN [View(r)[t] EXCEPT !.is_revoked = TRUE]
                                          ELSE writes[r][t]
    BY <1>0, <1>8 DEF RevokeAll
  <2>3. ASSUME NEW t \in ended
        PROVE  /\ Writes(r, t)' /\ writes'[r][t].user = sessions[t].user
               /\ writes'[r][t].parent = sessions[t].parent /\ writes'[r][t].is_revoked
               /\ writes'[r][t].replaced_by = sessions[t].replaced_by
    <3>1. t \in Tokens /\ View(r)[t] = sessions[t] /\ sessions[t] \in Row
      BY <1>0, <2>1 DEF Alive, Table
    <3>2. writes'[r][t] = [sessions[t] EXCEPT !.is_revoked = TRUE]
      BY <2>2, <3>1
    <3> QED
      BY <3>1, <3>2, EndedRow DEF Row, Writes
  <2>4. \A t \in Tokens \ ended : ~Writes(r, t)'
    BY <1>0, <2>1, <2>2 DEF Writes
  <2>5. \A t \in ended : Stored(t) /\ sessions[t].user = q.user /\ t \in Tokens
    BY <1>0 DEF Swept
  <2>6. \A t \in q.snap : sessions[t].is_revoked \/ Writes(r, t)'
    BY <1>0, <2>1, <2>3 DEF Alive, Swept, Stored
  <2>7. q.fresh = NoToken
    BY <1>0, <2>1 DEF Prepared
  <2> HIDE DEF ended
  <2>8. Prepared(r)'
    BY <1>0, <2>1 DEF Prepared, Stored, SignIns
  <2>9. Buffered(r)'
    BY <1>0, <2>1, <2>3, <2>4, <2>5, <2>7 DEF Buffered, Stored
  <2>10. Swept(r)'
    BY <1>0, <2>1, <2>6 DEF Swept, Stored, Writes
  <2>11. \A t \in Tokens : Writes(r, t)' => RowFree(r, t)
    BY <2>1, <2>4 DEF ended
  <2> QED
    BY <2>1, <2>8, <2>9, <2>10, <2>11, StatementConsistent
\* Ends of requests.
<1>9. CASE RefuseUser(r) \/ UserGone(r) \/ Respond(r) \/ LoseResponse(r)
  <2>1. pc[r] \notin {"create", "commit"} /\ Finish(r) /\ sessions' = sessions /\ writes' = writes
    BY <1>9 DEF RefuseUser, UserGone, Respond, LoseResponse
  <2>2. writes[r] = NoWrites
    BY <1>0, <2>1 DEF Writes, NoWrites, Table
  <2>3. writes = [writes EXCEPT ![r] = NoWrites]
    BY <1>0, <2>2
  <2> QED
    BY <2>1, <2>3, FinishConsistent
<1>10. CASE Abort(r)
  BY <1>10, FinishConsistent DEF Abort
<1>11. CASE Commit(r)
  BY <1>11, CommitConsistent
<1> QED
  BY <1>1, <1>2, <1>3, <1>4, <1>5, <1>6, <1>7, <1>8, <1>9, <1>10, <1>11 DEF Proceed

\* What happens outside of requests touches neither table nor requests.
LEMMA EnvironmentConsistent ==
    ASSUME TypeOK, Consistent, Environment
    PROVE  Consistent'
<1>1. UNCHANGED <<sessions, pc, req, writes>>
  BY DEF Environment, Tick, LoginAsksFor2FA, SetActive, DeleteUser
<1> QED
  BY <1>1 DEF Consistent, OneWriter, FreshIsMine, Prepared, Buffered, Swept, Stored, Writes, NewRow

-----------------------------------------------------------------------------
(* The inductive invariant.                                                *)

IInv == TypeOK /\ Consistent /\ HandedOutIsStored /\ RotationAtomic

\* What reaches a client was committed: an answer follows its commit.
LEMMA HandedOutStep ==
    ASSUME IInv, Next PROVE HandedOutIsStored'
<1> USE DEF IInv
<1>1. ASSUME NEW r \in Requests, Commit(r) PROVE HandedOutIsStored'
  BY <1>1, ViewKeeps DEF Commit, HandedOutIsStored, Stored, TypeOK
<1>2. ASSUME NEW r \in Requests, Respond(r) PROVE HandedOutIsStored'
  <2>1. req[r].fresh # NoToken => sessions[req[r].fresh] # NoRow
    BY <1>2 DEF Respond, Consistent, FreshIsMine, Stored, TypeOK, Request
  <2> QED
    BY <1>2, <2>1 DEF Respond, HandedOutIsStored
<1>3. CASE UNCHANGED <<sessions, held>>
  BY <1>3 DEF HandedOutIsStored
<1>4. ASSUME NEW r \in Requests, Begin(r) PROVE UNCHANGED <<sessions, held>>
  BY <1>4, BeginAccepts DEF Accept
<1>5. ASSUME NEW r \in Requests,
             Proceed(r) \/ LoseResponse(r) \/ Abort(r), ~Commit(r), ~Respond(r)
      PROVE  UNCHANGED <<sessions, held>>
  BY <1>5 DEF Proceed, CountActive, PickOldest, RevokeOne, LoadUser, RefuseUser, MarkReplaced,
              CreateSession, UpdateUser, UserGone, SelectAlive, RevokeAll, LoseResponse, Abort,
              Step
<1>6. ASSUME Environment PROVE UNCHANGED <<sessions, held>>
  BY <1>6 DEF Environment, Tick, LoginAsksFor2FA, SetActive, DeleteUser
<1> QED
  BY <1>1, <1>2, <1>3, <1>4, <1>5, <1>6 DEF Next

\* The table changes by commits only.
LEMMA TableChanges ==
    ASSUME IInv, Next
    PROVE  sessions' = sessions \/ \E r \in Requests : Commit(r)
<1>1. ASSUME NEW r \in Requests, Begin(r) PROVE sessions' = sessions
  BY <1>1, BeginAccepts DEF Accept, IInv
<1>2. ASSUME NEW r \in Requests, Proceed(r) \/ LoseResponse(r) \/ Abort(r), ~Commit(r)
      PROVE  sessions' = sessions
  BY <1>2 DEF Proceed, CountActive, PickOldest, RevokeOne, LoadUser, RefuseUser, MarkReplaced,
              CreateSession, UpdateUser, UserGone, SelectAlive, RevokeAll, Respond, LoseResponse,
              Abort, Step
<1>3. ASSUME Environment PROVE sessions' = sessions
  BY <1>3 DEF Environment, Tick, LoginAsksFor2FA, SetActive, DeleteUser
<1> QED
  BY <1>1, <1>2, <1>3 DEF Next

\* A commit brings a rotation's two rows in together.
LEMMA RotationStep ==
    ASSUME IInv, NEW r \in Requests, Commit(r) PROVE RotationAtomic'
<1> DEFINE q == req[r]
<1>1. /\ sessions' = View(r) /\ pc[r] = "commit" /\ Buffered(r) /\ Prepared(r)
      /\ TypeOK /\ Consistent /\ RotationAtomic /\ sessions \in Table
      /\ q.fresh \in Tokens \cup {NoToken} /\ q.given \in Tokens \cup {NoToken}
  BY DEF Commit, IInv, Consistent, TypeOK, Request
<1> SUFFICES ASSUME NEW t \in Tokens, sessions'[t] # NoRow, sessions'[t].replaced_by # NoToken
             PROVE  LET n == sessions'[t].replaced_by IN
                    /\ sessions'[t].is_revoked
                    /\ sessions'[n] # NoRow
                    /\ sessions'[n].user = sessions'[t].user /\ sessions'[n].parent = t
  BY DEF RotationAtomic
\* A successor that was committed before.
<1>2. CASE Stored(t) /\ sessions[t].replaced_by = sessions'[t].replaced_by
  <2> DEFINE n == sessions[t].replaced_by
  <2>1. /\ sessions[t].is_revoked /\ n \in Tokens /\ Stored(n)
        /\ sessions[n].user = sessions[t].user /\ sessions[n].parent = t
    BY <1>1, <1>2 DEF RotationAtomic, Stored, Table, Row
  <2> QED
    BY <1>1, <1>2, <2>1, ViewKeeps
\* The successor this commit brings.
<1>3. CASE Writes(r, t) /\ t # q.fresh /\ q.fresh \in Tokens /\ t = q.given
  <2>1. /\ sessions'[t] = writes[r][t] /\ Stored(t) /\ sessions'[t].user = q.user
        /\ sessions'[t].is_revoked /\ sessions'[t].replaced_by = q.fresh
    BY <1>1, <1>3, ViewType DEF Buffered
  <2>2. sessions'[q.fresh] = NewRow(r) /\ sessions'[q.fresh] # NoRow
    BY <1>1, <1>3, ViewType DEF Buffered, Writes
  <2> QED
    BY <1>3, <2>1, <2>2 DEF NewRow
<1>4. CASE Writes(r, t) /\ t = q.fresh
  BY <1>1, <1>4, ViewType DEF Buffered, NewRow
<1>5. CASE Writes(r, t) /\ t # q.fresh /\ ~(q.fresh \in Tokens /\ t = q.given)
  BY <1>1, <1>2, <1>5, ViewType DEF Buffered
<1>6. CASE ~Writes(r, t)
  BY <1>1, <1>2, <1>6, ViewType DEF Stored
<1> QED
  BY <1>3, <1>4, <1>5, <1>6

\* The invariant holds in the beginning.
LEMMA InvariantInit == Init => IInv
<1> SUFFICES ASSUME Init PROVE IInv
  OBVIOUS
<1>1. TypeOK
  BY TypeInit
<1>2. Consistent
  BY DEF Init, Consistent, OneWriter, FreshIsMine, Prepared, Buffered, Swept, Stored, Writes,
         NoWrites, NoRequest, SignIns
<1>3. HandedOutIsStored /\ RotationAtomic
  BY DEF Init, HandedOutIsStored, RotationAtomic, NoWrites
<1> QED
  BY <1>1, <1>2, <1>3 DEF IInv

\* The invariant is inductive.
LEMMA InvariantStep == IInv /\ [Next]_vars => IInv'
<1> SUFFICES ASSUME IInv, [Next]_vars PROVE IInv'
  OBVIOUS
<1>1. CASE Next
  <2>1. TypeOK' /\ Consistent'
    BY <1>1, BeginConsistent, ProceedType, ProceedConsistent, EnvironmentType,
       EnvironmentConsistent DEF IInv, Next
  <2>2. HandedOutIsStored'
    BY <1>1, HandedOutStep
  <2>3. RotationAtomic'
    <3>1. sessions' = sessions => RotationAtomic'
      BY DEF IInv, RotationAtomic
    <3> QED
      BY <1>1, <3>1, TableChanges, RotationStep
  <2> QED
    BY <2>1, <2>2, <2>3 DEF IInv
<1>2. CASE UNCHANGED vars
  <2>1. TypeOK' /\ HandedOutIsStored' /\ RotationAtomic'
    BY <1>2 DEF IInv, TypeOK, vars, userVars, HandedOutIsStored, RotationAtomic
  <2>2. Consistent'
    BY <1>2 DEF IInv, vars, Consistent, OneWriter, FreshIsMine, Prepared, Buffered, Swept,
                Stored, Writes, NewRow
  <2> QED
    BY <2>1, <2>2 DEF IInv
<1> QED
  BY <1>1, <1>2

\* The invariant holds of every behaviour of the handlers.
THEOREM Invariant == Spec => []IInv
BY InvariantInit, InvariantStep, PTL DEF Spec

-----------------------------------------------------------------------------
(* The theorems.                                                           *)

\* The variables keep their types: no handler stores anything else.
THEOREM TypeCorrect == Spec => []TypeOK
<1>1. IInv => TypeOK
  BY DEF IInv
<1> QED
  BY <1>1, Invariant, PTL

\* mark_replaced and create commit together, whatever interleaves or fails.
THEOREM RotationIsAtomic == Spec => []RotationAtomic
<1>1. IInv => RotationAtomic
  BY DEF IInv
<1> QED
  BY <1>1, Invariant, PTL

\* A client never holds a token whose row was rolled back.
THEOREM HandedOutTokensAreStored == Spec => []HandedOutIsStored
<1>1. IInv => HandedOutIsStored
  BY DEF IInv
<1> QED
  BY <1>1, Invariant, PTL

\* revoke_all_for_user leaves none of the sessions it selected alive.
THEOREM RevokeAllIsComplete == Spec => []RevokeAllComplete
<1>1. IInv => RevokeAllComplete
  BY DEF IInv, RevokeAllComplete, Consistent, Swept
<1> QED
  BY <1>1, Invariant, PTL

\* No step of any handler revives a revoked session or forgets a replacement.
THEOREM RevokedStaysRevoked == Spec => RevokedForever
<1>1. IInv /\ [Next]_vars => [SessionsOnlyDie]_vars
  <2> SUFFICES ASSUME IInv, Next PROVE SessionsOnlyDie
    OBVIOUS
  <2>1. sessions' = sessions => SessionsOnlyDie
    BY DEF SessionsOnlyDie
  <2>2. ASSUME NEW r \in Requests, Commit(r) PROVE SessionsOnlyDie
    BY <2>2, ViewKeeps DEF IInv, Commit, SessionsOnlyDie, Stored
  <2> QED
    BY <2>1, <2>2, TableChanges
<1> QED
  BY <1>1, Invariant, PTL DEF Spec, RevokedForever

-----------------------------------------------------------------------------
(* Requests that have their user to themselves.                            *)

\* No other request of the user is under way; those of other users may be.
Alone(r) == \A s \in Requests \ {r} : pc[s] # "idle" => req[s].user # req[r].user

Acts(r) == Begin(r) \/ Proceed(r) \/ LoseResponse(r) \/ Abort(r)

\* A request that acts leaves alone what the others have found out and written.
LEMMA OthersWait ==
    ASSUME IInv, NEW r \in Requests, Acts(r), NEW s \in Requests \ {r}
    PROVE  pc'[s] = pc[s] /\ req'[s] = req[s] /\ writes'[s] = writes[s]
<1> USE DEF IInv, TypeOK
<1>1. CASE Begin(r)
  <2>1. PICK q, label : Accept(r, q, label)
    BY <1>1, BeginAccepts
  <2> QED BY <2>1 DEF Accept, Goto
<1>2. CASE \/ CountActive(r) \/ PickOldest(r) \/ RevokeOne(r) \/ LoadUser(r)
           \/ MarkReplaced(r) \/ CreateSession(r) \/ UpdateUser(r)
           \/ SelectAlive(r) \/ RevokeAll(r) \/ Commit(r)
  BY <1>2 DEF CountActive, PickOldest, RevokeOne, LoadUser, MarkReplaced, CreateSession,
              UpdateUser, SelectAlive, RevokeAll, Commit, Step, Goto, Write
<1>3. CASE \/ RefuseUser(r) \/ UserGone(r) \/ Respond(r) \/ LoseResponse(r) \/ Abort(r)
  BY <1>3 DEF RefuseUser, UserGone, Respond, LoseResponse, Abort, Finish, Goto
<1> QED
  BY <1>1, <1>2, <1>3 DEF Acts, Proceed

\* Only a commit touches sessions, passwords, and the times they were changed.
LEMMA CommitsOnly ==
    ASSUME IInv, NEW r \in Requests, Acts(r)
    PROVE  Commit(r) \/ UNCHANGED <<now, userVars, sessions, authTokens>>
<1>1. CASE Begin(r)
  <2>1. PICK q, label : Accept(r, q, label)
    BY <1>1, BeginAccepts DEF IInv
  <2> QED BY <2>1 DEF Accept
<1>2. CASE ~Begin(r)
  BY <1>2 DEF Acts, Proceed, CountActive, PickOldest, RevokeOne, LoadUser, MarkReplaced,
              CreateSession, UpdateUser, SelectAlive, RevokeAll, RefuseUser, UserGone,
              Respond, LoseResponse, Abort, Step
<1> QED BY <1>1, <1>2

\* A commit touches sessions of its own user only.
LEMMA OtherUsersRows ==
    ASSUME IInv, NEW r \in Requests, Commit(r), NEW t \in Tokens,
           \/ Stored(t) /\ sessions[t].user # req[r].user
           \/ Stored(t)' /\ sessions'[t].user # req[r].user
    PROVE  sessions'[t] = sessions[t]
<1> USE DEF IInv
<1>1. sessions' = View(r) /\ pc[r] = "commit"
  BY DEF Commit
<1>2. CASE ~Writes(r, t)
  BY <1>1, <1>2, ViewType
<1>3. CASE Writes(r, t) /\ t # req[r].fresh
  BY <1>1, <1>3, ViewType DEF Consistent, Buffered
<1>4. CASE Writes(r, t) /\ t = req[r].fresh
  <2>1. ~Stored(t)
    BY <1>1, <1>4 DEF Consistent, FreshIsMine
  <2>2. sessions'[t] = NewRow(r)
    BY <1>1, <1>4, ViewType DEF Consistent, Buffered
  <2> QED BY <2>1, <2>2 DEF NewRow
<1> QED BY <1>2, <1>3, <1>4

-----------------------------------------------------------------------------
(* What a change of the password leaves, where it is alone.                *)

\* While a password is changed, its user has no other request under way.
PasswordChangesAlone == \A r \in Requests : req[r].op \in PasswordOps => Alone(r)

\* A request under way: the session that it opens stands, and a change of the
\* password has found every session of its user that is alive.
InFlightStands(r) ==
    /\ req[r].fresh \in Tokens => Stands(req[r].user, req[r].cred)
    /\ \A t \in Tokens :
        req[r].op \in PasswordOps /\ Alive(sessions, t) /\ sessions[t].user = req[r].user =>
            /\ pc[r] = "sweep" => t \in req[r].snap
            /\ pc[r] = "commit" => Writes(r, t)

\* Whose sign-in stands: the auth tokens that are still good, the session that a
\* request opens, and those that are alive, which an UPDATE on its way has all.
SignInsStand ==
    /\ \A u \in Users : changed[u] <= now
    /\ \A a \in authTokens :
        /\ a.user \in TwoFactorUsers /\ a.exp <= now + AUTH_TTL
        /\ a.cred = password[a.user] \/ a.exp <= changed[a.user] + AUTH_TTL
    /\ NoSessionOutlivesPassword
    /\ \A r \in Requests : InFlightStands(r)

\* A request that acts disturbs no other: a change of the password is alone.
LEMMA OthersStand ==
    ASSUME IInv, SignInsStand, PasswordChangesAlone, NEW r \in Requests, Acts(r),
           NEW s \in Requests \ {r}
    PROVE  InFlightStands(s)'
<1> USE DEF IInv
<1>1. pc'[s] = pc[s] /\ req'[s] = req[s] /\ writes'[s] = writes[s] /\ InFlightStands(s)
  BY OthersWait DEF SignInsStand
<1>2. CASE UNCHANGED <<userVars, sessions>>
  BY <1>1, <1>2 DEF InFlightStands, Stands, Alive, Writes, userVars
<1>3. CASE Commit(r)
  <2>1. pc[r] = "commit" /\ req[r].user \in Users
    BY <1>3 DEF Commit, Consistent, Prepared
  <2>2. req[s].fresh \in Tokens => Stands(req[s].user, req[s].cred)'
    <3> SUFFICES ASSUME req[s].fresh \in Tokens
                 PROVE  Stands(req[s].user, req[s].cred)'
      OBVIOUS
    <3>1. pc[s] # "idle" /\ req[s].user \in Users
      BY ConstantsAssumption DEF Consistent, Prepared, NoRequest, ConstantsAssumption
    <3>2. password'[req[s].user] = password[req[s].user]
          /\ changed'[req[s].user] = changed[req[s].user]
      BY <1>3, <2>1, <3>1 DEF Commit, PasswordChangesAlone, Alone, TypeOK
    <3> QED
      BY <1>1, <3>2 DEF InFlightStands, Stands
  <2>3. ASSUME NEW t \in Tokens, req[s].op \in PasswordOps, Alive(sessions', t),
               sessions'[t].user = req[s].user
        PROVE  sessions'[t] = sessions[t]
    <3>1. req[r].user # req[s].user
      BY <2>1, <2>3 DEF PasswordChangesAlone, Alone
    <3> QED
      BY <1>3, <2>3, <3>1, OtherUsersRows DEF Alive, Stored
  <2>4. \A t \in Tokens :
          req[s].op \in PasswordOps /\ Alive(sessions', t) /\ sessions'[t].user = req[s].user
            => /\ pc[s] = "sweep" => t \in req[s].snap
               /\ pc[s] = "commit" => Writes(s, t)
    BY <1>1, <2>3 DEF InFlightStands, Alive
  <2> QED
    BY <1>1, <2>2, <2>4 DEF InFlightStands, Alive, Writes
<1> QED
  BY <1>2, <1>3, CommitsOnly

\* What a request that is accepted would open stands.
LEMMA BeginStands ==
    ASSUME IInv, SignInsStand, NEW r \in Requests, Begin(r)
    PROVE  /\ UNCHANGED <<now, userVars, sessions, authTokens>>
           /\ pc'[r] \notin {"sweep", "commit"}
           /\ req'[r].fresh \in Tokens => Stands(req'[r].user, req'[r].cred)
<1> USE DEF IInv
<1>1. ASSUME NEW op, NEW u \in Users, NEW t \in Tokens, NEW version \in Nat,
             Accept(r, NewSessionRequest(op, u, t, version), "count"),
             Stands(u, [password |-> version, since |-> now])
      PROVE  /\ UNCHANGED <<now, userVars, sessions, authTokens>>
             /\ pc'[r] = "count"
             /\ Stands(req'[r].user, req'[r].cred)
  <2>1. /\ NewSessionRequest(op, u, t, version).user = u
        /\ NewSessionRequest(op, u, t, version).cred = [password |-> version, since |-> now]
    BY DEF NewSessionRequest, NoRequest
  <2>2. req'[r] = NewSessionRequest(op, u, t, version) /\ pc'[r] = "count"
    BY <1>1 DEF Accept, Goto, TypeOK
  <2> QED
    BY <1>1, <2>1, <2>2 DEF Accept
<1>2. CASE \E u \in Users : Login(r, u)
  <2>1. PICK u \in Users, t \in Tokens :
          Accept(r, NewSessionRequest("login", u, t, password[u]), "count")
    BY <1>2 DEF Login
  <2>2. Stands(u, [password |-> password[u], since |-> now]) /\ password[u] \in Nat
    BY DEF Stands, TypeOK
  <2> QED
    BY <1>1, <2>1, <2>2
<1>3. CASE \E u \in Users : Login2FA(r, u)
  <2>1. PICK u \in Users, a \in authTokens, t \in Tokens :
          /\ a.user = u /\ a.exp > now
          /\ Accept(r, NewSessionRequest("login_2fa", u, t, a.cred), "count")
    BY <1>3 DEF Login2FA
  <2>2. /\ a.cred \in Nat /\ a.exp \in Nat /\ now \in Nat
        /\ changed[u] \in Nat /\ AUTH_TTL \in Nat
    BY ConstantsAssumption DEF TypeOK, ConstantsAssumption
  <2>3. Stands(u, [password |-> a.cred, since |-> now])
    BY <2>1, <2>2 DEF Stands, SignInsStand
  <2> QED
    BY <1>1, <2>1, <2>2, <2>3
<1>4. CASE \E t \in Tokens : RefreshValid(r, t)
  <2>1. PICK t \in Tokens, n \in Tokens :
          /\ Alive(sessions, t)
          /\ Accept(r, [NoRequest EXCEPT !.op = "refresh", !.user = sessions[t].user,
                                         !.given = t, !.fresh = n, !.start = now,
                                         !.cred = sessions[t].cred], "load_user")
    BY <1>4 DEF RefreshValid
  <2>2. /\ req'[r].user = sessions[t].user /\ req'[r].cred = sessions[t].cred
        /\ pc'[r] = "load_user"
    BY <2>1 DEF Accept, Goto, TypeOK, NoRequest
  <2>3. Stands(req'[r].user, req'[r].cred)
    BY <2>1, <2>2 DEF SignInsStand, NoSessionOutlivesPassword
  <2> QED
    BY <2>1, <2>2, <2>3 DEF Accept
<1>5. ASSUME NEW q, NEW label \in {"revoke", "revoke_all", "update_user"},
             Accept(r, q, label), q.fresh = NoToken
      PROVE  /\ UNCHANGED <<now, userVars, sessions, authTokens>>
             /\ pc'[r] = label /\ req'[r].fresh \notin Tokens
  BY <1>5, ConstantsAssumption DEF Accept, Goto, TypeOK, ConstantsAssumption
<1>6. CASE \E u \in Users : LogoutAll(r, u) \/ ResetPassword(r, u) \/ ChangePassword(r, u)
  BY <1>5, <1>6 DEF LogoutAll, ResetPassword, ChangePassword, SetPassword, NoRequest
<1>7. CASE \E t \in Tokens : RefreshReused(r, t) \/ Logout(r, t)
  BY <1>5, <1>7 DEF RefreshReused, Logout, NoRequest
<1> QED
  BY <1>2, <1>3, <1>4, <1>6, <1>7 DEF Begin, Refresh

\* A commit, of a password change or of another request.
LEMMA CommitStands ==
    ASSUME IInv, SignInsStand, PasswordChangesAlone, NEW r \in Requests, Commit(r)
    PROVE  SignInsStand'
<1> DEFINE u == req[r].user
<1> USE DEF IInv
<1>1. /\ req' = req /\ now' = now /\ authTokens' = authTokens
      /\ pc'[r] = "respond" /\ sessions' = View(r)
    BY DEF Commit, Goto, TypeOK
<1>0. \A s \in Requests \ {r} : InFlightStands(s)'
  BY OthersStand DEF Acts, Proceed
<1>2. \A t \in Tokens : Alive(sessions', t) =>
        \/ t = req[r].fresh /\ sessions'[t] = NewRow(r)
        \/ sessions'[t] = sessions[t] /\ ~Writes(r, t)
  <2> SUFFICES ASSUME NEW t \in Tokens, Alive(sessions', t), t # req[r].fresh
                      \/ ~Writes(r, t)
               PROVE  \/ t = req[r].fresh /\ sessions'[t] = NewRow(r)
                      \/ sessions'[t] = sessions[t] /\ ~Writes(r, t)
    BY <1>1, ViewType DEF Commit, Consistent, Buffered
  <2>1. CASE Writes(r, t)
    BY <1>1, <2>1, ViewType DEF Alive, Consistent, Buffered
  <2>2. CASE ~Writes(r, t)
    BY <1>1, <2>2, ViewType
  <2> QED BY <2>1, <2>2
<1>3. CASE req[r].op \notin PasswordOps
  <2>1. password' = password /\ changed' = changed
    BY <1>3 DEF Commit
  <2>2. NoSessionOutlivesPassword'
    <3> SUFFICES ASSUME NEW t \in Tokens, Alive(sessions', t)
                 PROVE  Stands(sessions[t].user, sessions[t].cred)'
      BY DEF NoSessionOutlivesPassword, Alive
    <3>1. CASE t = req[r].fresh /\ sessions'[t] = NewRow(r)
      BY <2>1, <3>1 DEF NewRow, Stands, SignInsStand, InFlightStands
    <3>2. CASE sessions'[t] = sessions[t]
      BY <2>1, <3>2 DEF Alive, Stands, SignInsStand, NoSessionOutlivesPassword
    <3> QED BY <1>2, <3>1, <3>2
  <2>3. InFlightStands(r)'
    BY <1>1, <1>3, <2>1 DEF SignInsStand, InFlightStands, Stands
  <2> QED
    BY <1>0, <1>1, <2>1, <2>2, <2>3 DEF SignInsStand
<1>4. CASE req[r].op \in PasswordOps
  <2>1. /\ u \in Users /\ req[r].fresh = NoToken /\ NoToken \notin Tokens
        /\ password' = [password EXCEPT ![u] = @ + 1]
        /\ changed' = [changed EXCEPT ![u] = now]
    BY <1>4, ConstantsAssumption DEF Commit, Consistent, Prepared, PasswordOps, SignIns,
       ConstantsAssumption
  <2>2. \A v \in Users : v # u => password'[v] = password[v] /\ changed'[v] = changed[v]
    BY <2>1 DEF TypeOK
  <2>3. changed'[u] = now
    BY <2>1 DEF TypeOK
  <2>4. \A v \in Users : changed'[v] <= now
    BY <2>2, <2>3 DEF TypeOK, SignInsStand
  <2>5. ASSUME NEW a \in authTokens
        PROVE  a.cred = password'[a.user] \/ a.exp <= changed'[a.user] + AUTH_TTL
    BY <2>2, <2>3 DEF TypeOK, SignInsStand
  <2>6. NoSessionOutlivesPassword'
    <3> SUFFICES ASSUME NEW t \in Tokens, Alive(sessions', t)
                 PROVE  Stands(sessions[t].user, sessions[t].cred)'
      BY DEF NoSessionOutlivesPassword, Alive
    <3>1. sessions'[t] = sessions[t] /\ ~Writes(r, t)
      BY <1>2, <2>1
    <3>2. Alive(sessions, t) /\ sessions[t].user \in Users
      BY <3>1 DEF Alive, TypeOK, Table, Row
    <3>3. sessions[t].user # u
      BY <1>4, <3>1, <3>2 DEF SignInsStand, InFlightStands, Commit
    <3>4. Stands(sessions[t].user, sessions[t].cred)
      BY <3>2 DEF SignInsStand, NoSessionOutlivesPassword
    <3> QED
      BY <2>2, <3>1, <3>2, <3>3, <3>4 DEF Stands
  <2>7. InFlightStands(r)'
    BY <1>1, <2>1 DEF InFlightStands
  <2> QED
    BY <1>0, <1>1, <2>4, <2>5, <2>6, <2>7 DEF SignInsStand
<1> QED BY <1>3, <1>4

\* The other statements of a request leave sessions and passwords alone.
LEMMA ProceedStands ==
    ASSUME IInv, SignInsStand, PasswordChangesAlone, NEW r \in Requests,
           Proceed(r) \/ LoseResponse(r) \/ Abort(r)
    PROVE  SignInsStand'
<1> USE DEF IInv
<1>0. \A s \in Requests \ {r} : InFlightStands(s)'
  BY OthersStand DEF Acts
<1>1. ASSUME UNCHANGED <<now, userVars, sessions, authTokens>>,
             req'[r].fresh \in Tokens =>
                /\ req[r].fresh \in Tokens
                /\ req'[r].user = req[r].user /\ req'[r].cred = req[r].cred,
             \A t \in Tokens :
                req'[r].op \in PasswordOps /\ Alive(sessions, t)
                /\ sessions[t].user = req'[r].user =>
                    /\ pc'[r] = "sweep" => t \in req'[r].snap
                    /\ pc'[r] = "commit" => Writes(r, t)'
      PROVE  SignInsStand'
  <2>1. NoSessionOutlivesPassword'
    BY <1>1 DEF NoSessionOutlivesPassword, SignInsStand, Stands, Alive, userVars
  <2>2. InFlightStands(r)'
    BY <1>1 DEF SignInsStand, InFlightStands, Stands, Alive, userVars
  <2> QED
    BY <1>0, <1>1, <2>1, <2>2 DEF SignInsStand, userVars
<1>2. CASE Commit(r)
  BY <1>2, CommitStands
<1>3. CASE \/ RefuseUser(r) \/ UserGone(r) \/ Respond(r) \/ LoseResponse(r) \/ Abort(r)
  <2>1. UNCHANGED <<now, userVars, sessions, authTokens>>
    BY <1>3 DEF RefuseUser, UserGone, Respond, LoseResponse, Abort
  <2>2. req'[r] = NoRequest
    BY <1>3 DEF RefuseUser, UserGone, Respond, LoseResponse, Abort, Finish, TypeOK
  <2>3. req'[r].fresh \notin Tokens /\ req'[r].op \notin PasswordOps
    BY <2>2, ConstantsAssumption DEF NoRequest, PasswordOps, ConstantsAssumption
  <2> QED BY <1>1, <2>1, <2>3
<1>4. CASE \/ CountActive(r) \/ PickOldest(r) \/ RevokeOne(r) \/ LoadUser(r)
           \/ MarkReplaced(r) \/ CreateSession(r) \/ UpdateUser(r)
  <2>1. UNCHANGED <<now, userVars, sessions, authTokens>>
    BY <1>4 DEF CountActive, PickOldest, RevokeOne, LoadUser, MarkReplaced, CreateSession,
                UpdateUser, Step
  <2>2. /\ req'[r].fresh = req[r].fresh /\ req'[r].user = req[r].user
        /\ req'[r].cred = req[r].cred /\ req'[r].op = req[r].op
    BY <1>4 DEF CountActive, PickOldest, RevokeOne, LoadUser, MarkReplaced, CreateSession,
                UpdateUser, TypeOK, Request
  <2>3. req[r].op \in PasswordOps => pc'[r] \notin {"sweep", "commit"}
    BY <1>4 DEF CountActive, PickOldest, RevokeOne, LoadUser, MarkReplaced, CreateSession,
                UpdateUser, Step, Goto, TypeOK, Consistent, Prepared, PasswordOps, SignIns
  <2> QED BY <1>1, <2>1, <2>2, <2>3
<1>5. CASE SelectAlive(r)
  <2>1. UNCHANGED <<now, userVars, sessions, authTokens>>
    BY <1>5 DEF SelectAlive, Step
  <2>2. /\ req'[r].fresh = req[r].fresh /\ req'[r].user = req[r].user
        /\ req'[r].cred = req[r].cred /\ req'[r].op = req[r].op
        /\ req'[r].snap = {t \in Tokens : Alive(View(r), t)
                                          /\ View(r)[t].user = req[r].user}
        /\ pc'[r] = "sweep"
    BY <1>5 DEF SelectAlive, Step, Goto, TypeOK, Request
  <2>3. \A t \in Tokens : View(r)[t] = sessions[t]
    BY <1>5, ViewType DEF SelectAlive, Step, Consistent, Buffered
  <2>4. \A t \in Tokens : Alive(sessions, t) /\ sessions[t].user = req[r].user
                          => t \in req'[r].snap
    BY <2>2, <2>3 DEF Alive
  <2> QED BY <1>1, <2>1, <2>2, <2>4
<1>6. CASE RevokeAll(r)
  <2>1. /\ UNCHANGED <<now, userVars, sessions, authTokens>> /\ req' = req
        /\ pc[r] = "sweep" /\ pc'[r] = "commit"
    BY <1>6 DEF RevokeAll, Step, Goto, TypeOK
  <2>2. \A t \in Tokens : View(r)[t] = sessions[t]
    BY <2>1, ViewType DEF Consistent, Buffered
  <2>3. ASSUME NEW t \in Tokens, req[r].op \in PasswordOps, Alive(sessions, t),
               sessions[t].user = req[r].user
        PROVE  Writes(r, t)'
    <3>1. t \in req[r].snap /\ Alive(View(r), t)
      BY <2>1, <2>2, <2>3 DEF SignInsStand, InFlightStands, Alive
    <3>2. writes'[r][t] = [View(r)[t] EXCEPT !.is_revoked = TRUE]
      BY <1>6, <3>1 DEF RevokeAll, TypeOK
    <3>3. View(r)[t] \in Row
      BY <3>1, ViewType DEF Alive, Table
    <3> QED
      BY <3>2, <3>3, EndedRow, ConstantsAssumption DEF Writes, ConstantsAssumption
  <2> QED BY <1>1, <2>1, <2>3
<1> QED
  BY <1>2, <1>3, <1>4, <1>5, <1>6 DEF Proceed

\* The clock, the auth tokens and the users rows.
LEMMA EnvironmentStands ==
    ASSUME IInv, SignInsStand, Environment
    PROVE  SignInsStand'
<1> USE DEF IInv
<1>1. CASE Tick
  <2>1. /\ UNCHANGED <<password, changed, sessions, pc, req, writes>>
        /\ now' = now + 1 /\ authTokens' \subseteq authTokens
    BY <1>1 DEF Tick, userVars
  <2>2. \A u \in Users : changed'[u] <= now'
    BY <2>1 DEF SignInsStand, TypeOK
  <2>3. \A a \in authTokens' : a.exp <= now' + AUTH_TTL
    BY <2>1, ConstantsAssumption DEF SignInsStand, TypeOK, ConstantsAssumption
  <2> QED
    BY <2>1, <2>2, <2>3 DEF SignInsStand, InFlightStands, NoSessionOutlivesPassword, Stands, Alive,
               Writes
<1>2. CASE \E u \in Users : LoginAsksFor2FA(u)
  <2>1. PICK u \in Users : LoginAsksFor2FA(u)
    BY <1>2
  <2>2. /\ UNCHANGED <<now, password, changed, sessions, pc, req, writes>>
        /\ u \in TwoFactorUsers
        /\ authTokens' = authTokens \cup {[user |-> u, exp |-> now + AUTH_TTL,
                                           cred |-> password[u]]}
    BY <2>1 DEF LoginAsksFor2FA, userVars
  <2>3. now + AUTH_TTL <= now + AUTH_TTL
    BY ConstantsAssumption DEF TypeOK, ConstantsAssumption
  <2>4. \A a \in authTokens' :
          /\ a.user \in TwoFactorUsers /\ a.exp <= now + AUTH_TTL
          /\ a.cred = password[a.user] \/ a.exp <= changed[a.user] + AUTH_TTL
    BY <2>2, <2>3 DEF SignInsStand
  <2> QED
    BY <2>2, <2>4 DEF SignInsStand, InFlightStands, NoSessionOutlivesPassword, Stands, Alive,
               Writes
<1>3. CASE \E u \in Users : DeleteUser(u) \/ \E b \in BOOLEAN : SetActive(u, b)
  <2>1. UNCHANGED <<now, password, changed, sessions, authTokens, pc, req, writes>>
    BY <1>3 DEF DeleteUser, SetActive
  <2> QED
    BY <2>1 DEF SignInsStand, InFlightStands, NoSessionOutlivesPassword, Stands, Alive,
               Writes
<1> QED
  BY <1>1, <1>2, <1>3 DEF Environment

\* Where no other request of a user runs beside a change of the password, whatever
\* else interleaves: the change ends what the old password opened, but for a second
\* factor that was already asked for, within AUTH_TTL.
THEOREM PasswordChangeEndsSessions ==
    Spec /\ []PasswordChangesAlone => []NoSessionOutlivesPassword
<1>1. Init => SignInsStand
  BY NoRequestType, ConstantsAssumption
  DEF Init, SignInsStand, InFlightStands, NoSessionOutlivesPassword, NoWrites, Alive, NoRequest, PasswordOps,
      ConstantsAssumption
<1>2. IInv /\ SignInsStand /\ PasswordChangesAlone /\ [Next]_vars => SignInsStand'
  <2> SUFFICES ASSUME IInv, SignInsStand, PasswordChangesAlone, [Next]_vars
               PROVE  SignInsStand'
    OBVIOUS
  <2>1. ASSUME NEW r \in Requests, Begin(r) PROVE SignInsStand'
    <3>1. /\ UNCHANGED <<now, password, changed, sessions, authTokens>>
          /\ pc'[r] \notin {"sweep", "commit"}
          /\ req'[r].fresh \in Tokens => Stands(req'[r].user, req'[r].cred)
      BY <2>1, BeginStands DEF userVars
    <3>2. \A s \in Requests \ {r} : InFlightStands(s)'
      BY <2>1, OthersStand DEF Acts
    <3>3. InFlightStands(r)'
      BY <3>1 DEF InFlightStands, Stands
    <3> QED
      BY <3>1, <3>2, <3>3 DEF SignInsStand, NoSessionOutlivesPassword, Stands, Alive
  <2>2. CASE UNCHANGED vars
    BY <2>2 DEF vars, userVars, SignInsStand, InFlightStands, NoSessionOutlivesPassword,
                Stands, Alive, Writes
  <2> QED
    BY <2>1, <2>2, ProceedStands, EnvironmentStands DEF Next
<1>3. SignInsStand => NoSessionOutlivesPassword
  BY DEF SignInsStand
<1> QED
  BY <1>1, <1>2, <1>3, Invariant, PTL DEF Spec

-----------------------------------------------------------------------------
(* What a sign-in leaves, where it is alone.                               *)

\* What a sign-in has found out, and what holds of it until it commits: there is
\* room for one more, or a session that it ends, the oldest of the active ones.
Counted(r) ==
    LET u == req[r].user
        victim == req[r].victim
    IN  /\ pc[r] \in {"count", "pick"} => victim = NoToken
        /\ pc[r] \in {"create", "commit"} /\ victim = NoToken =>
              Cardinality(ActiveSessions(sessions, u)) < MAX_SESSIONS_PER_USER
        /\ victim \in Tokens /\ pc[r] # "respond" =>
              /\ Alive(sessions, victim)
              /\ sessions[victim].created_at <= req[r].start
              /\ \A o \in ActiveSessions(sessions, u) :
                    sessions[victim].created_at <= sessions[o].created_at
              /\ pc[r] \in {"create", "commit"} => Writes(r, victim)

\* A request begins in the past, and so do the sessions that it writes; a sign-in is
\* younger than all sessions of its user.
RoomFor(r) ==
    /\ req[r].start <= now
    /\ \A t \in Tokens : Writes(r, t) => writes[r][t].created_at <= now
    /\ req[r].op \in SignIns =>
        /\ pc[r] # "respond" =>
              \A t \in Tokens : Stored(t) /\ sessions[t].user = req[r].user
                                    => sessions[t].created_at <= req[r].start
        /\ Counted(r)

RoomIsMade ==
    /\ \A t \in Tokens : Stored(t) => sessions[t].created_at <= now
    /\ \A r \in Requests : RoomFor(r)

\* While a user signs in, no other request of theirs is under way.
SignInsAlone == \A r \in Requests : req[r].op \in SignIns => Alone(r)

\* A request that acts disturbs no other: a sign-in is alone.
LEMMA OthersHaveRoom ==
    ASSUME IInv, RoomIsMade, SignInsAlone, NEW r \in Requests, Acts(r),
           NEW s \in Requests \ {r}
    PROVE  RoomFor(s)'
<1> USE DEF IInv
<1>1. /\ pc'[s] = pc[s] /\ req'[s] = req[s] /\ writes'[s] = writes[s] /\ RoomFor(s)
      /\ now' = now
  BY OthersWait, CommitsOnly DEF RoomIsMade, Commit
<1>2. CASE UNCHANGED sessions
  BY <1>1, <1>2 DEF RoomFor, Counted, ActiveSessions, Alive, Stored, Writes
<1>3. CASE Commit(r) /\ req[s].op \notin SignIns
  BY <1>1, <1>3 DEF RoomFor, Writes
<1>4. CASE Commit(r) /\ req[s].op \in SignIns
  <2> DEFINE u == req[s].user
  <2>1. req[r].user # u
    BY <1>4 DEF SignInsAlone, Alone, Commit
  <2>2. \A t \in Tokens :
          \/ Stored(t) /\ sessions[t].user = u
          \/ Stored(t)' /\ sessions'[t].user = u
          => sessions'[t] = sessions[t]
    BY <1>4, <2>1, OtherUsersRows
  <2>3. ActiveSessions(sessions, u)' = ActiveSessions(sessions, u)
    BY <1>1, <2>2 DEF ActiveSessions, Alive, Stored
  <2>4. \A t \in Tokens : Stored(t)' /\ sessions'[t].user = u
          => Stored(t) /\ sessions'[t] = sessions[t]
    BY <2>2 DEF Stored
  <2>5. req[s].victim \in Tokens =>
          sessions'[req[s].victim] = sessions[req[s].victim]
    BY <2>2 DEF Consistent, Prepared
  <2>6. \A o \in ActiveSessions(sessions, u) : sessions'[o] = sessions[o]
    BY <2>2 DEF ActiveSessions, Alive, Stored
  <2>7. Counted(s) /\ Counted(s)'
    <3>1. Counted(s)
      BY <1>1, <1>4 DEF RoomFor
    <3> QED
      BY <1>1, <2>3, <2>5, <2>6, <3>1 DEF Counted, Alive, Writes
  <2> QED
    BY <1>1, <1>4, <2>4, <2>7 DEF RoomFor, Writes
<1> QED
  BY <1>2, <1>3, <1>4, CommitsOnly

\* Sessions that stay as they are only expire.
LEMMA ActiveShrinks ==
    ASSUME TypeOK, IsFiniteSet(Tokens), NEW u, sessions' = sessions, now' >= now, now' \in Nat
    PROVE  /\ ActiveSessions(sessions, u)' \subseteq ActiveSessions(sessions, u)
           /\ Cardinality(ActiveSessions(sessions, u)) \in Nat
           /\ Cardinality(ActiveSessions(sessions, u)') \in Nat
           /\ Cardinality(ActiveSessions(sessions, u)') <= Cardinality(ActiveSessions(sessions, u))
<1>1. ActiveSessions(sessions, u)' \subseteq ActiveSessions(sessions, u)
  <2> SUFFICES ASSUME NEW t \in ActiveSessions(sessions, u)'
               PROVE  t \in ActiveSessions(sessions, u)
    OBVIOUS
  <2>1. t \in Tokens /\ Alive(sessions, t) /\ sessions[t].user = u /\ sessions[t].expires_at > now'
    BY DEF ActiveSessions, Alive
  <2>2. sessions[t] \in Row
    BY <2>1 DEF Alive, TypeOK, Table
  <2>3. sessions[t].expires_at \in Nat /\ now \in Nat
    BY <2>2, ConstantsAssumption DEF Row, TypeOK, ConstantsAssumption
  <2> QED
    BY <2>1, <2>3 DEF ActiveSessions
<1>2. ActiveSessions(sessions, u) \subseteq Tokens
  BY DEF ActiveSessions
<1>3. IsFiniteSet(ActiveSessions(sessions, u))
  BY <1>2, FS_Subset
<1>4. /\ IsFiniteSet(ActiveSessions(sessions, u)')
      /\ Cardinality(ActiveSessions(sessions, u)') <= Cardinality(ActiveSessions(sessions, u))
  BY <1>1, <1>3, FS_Subset
<1> QED
  BY <1>1, <1>3, <1>4, FS_CardinalityType

\* A request that begins has counted nothing.
LEMMA BeginMakesRoom ==
    ASSUME IInv, RoomIsMade, SignInsAlone, NEW r \in Requests, Begin(r)
    PROVE  RoomIsMade'
<1> USE DEF IInv
<1>1. \A s \in Requests \ {r} : RoomFor(s)'
  BY OthersHaveRoom DEF Acts
<1>2. PICK q, label : Accept(r, q, label)
  BY BeginAccepts
<1>3. UNCHANGED <<now, sessions, writes>>
  BY <1>2 DEF Accept
<1>4. /\ req'[r].start = now
      /\ req'[r].op \in SignIns => req'[r].victim = NoToken /\ pc'[r] = "count"
  <2>1. ASSUME NEW op, NEW u, NEW t, NEW version,
               Accept(r, NewSessionRequest(op, u, t, version), "count")
        PROVE  req'[r].start = now /\ req'[r].victim = NoToken /\ pc'[r] = "count"
    BY <2>1 DEF Accept, Goto, TypeOK, NewSessionRequest, NoRequest
  <2>2. ASSUME NEW q0, NEW l0, Accept(r, q0, l0), q0.start = now, q0.op \notin SignIns
        PROVE  req'[r].start = now /\ req'[r].op \notin SignIns
    BY <2>2 DEF Accept, Goto, TypeOK
  <2>3. CASE \E u \in Users : Login(r, u) \/ Login2FA(r, u)
    BY <2>1, <2>3 DEF Login, Login2FA
  <2>4. CASE \E u \in Users : LogoutAll(r, u) \/ ResetPassword(r, u) \/ ChangePassword(r, u)
    BY <2>2, <2>4 DEF LogoutAll, ResetPassword, ChangePassword, SetPassword, NoRequest, SignIns
  <2>5. CASE \E t \in Tokens : Logout(r, t) \/ RefreshReused(r, t)
    BY <2>2, <2>5 DEF Logout, RefreshReused, NoRequest, SignIns
  <2>6. CASE \E t \in Tokens : RefreshValid(r, t)
    BY <2>2, <2>6 DEF RefreshValid, NoRequest, SignIns
  <2> QED
    BY <2>3, <2>4, <2>5, <2>6 DEF Begin, Refresh
<1>5. now <= now
  BY DEF TypeOK
<1>6. req'[r].op \in SignIns => Counted(r)'
  BY <1>4, ConstantsAssumption DEF Counted, ConstantsAssumption
<1>7. RoomFor(r)'
  BY <1>3, <1>4, <1>5, <1>6 DEF RoomIsMade, RoomFor, Stored, Writes
<1> QED
  BY <1>1, <1>3, <1>7 DEF RoomIsMade, Stored

\* Every statement before the commit.
LEMMA StatementMakesRoom ==
    ASSUME IInv, RoomIsMade, SignInsAlone, IsFiniteSet(Tokens), NEW r \in Requests, Proceed(r),
           pc[r] \notin {"commit", "respond"}
    PROVE  RoomIsMade'
<1> USE DEF IInv
<1> DEFINE u == req[r].user
<1>1. \A s \in Requests \ {r} : RoomFor(s)'
  BY OthersHaveRoom DEF Acts
<1>2. now \in Nat /\ now <= now /\ MAX_SESSIONS_PER_USER \in Nat \ {0} /\ NoToken \notin Tokens
  BY ConstantsAssumption DEF TypeOK, ConstantsAssumption
<1>3. ASSUME UNCHANGED <<now, sessions>>,
             req'[r].op = req[r].op, req'[r].start = req[r].start,
             req'[r].user = req[r].user, pc[r] # "respond",
             \A t \in Tokens : Writes(r, t)' => writes'[r][t].created_at <= now,
             req[r].op \in SignIns => Counted(r)'
      PROVE  RoomIsMade'
  <2>1. RoomFor(r)'
    BY <1>3 DEF RoomIsMade, RoomFor, Stored
  <2> QED
    BY <1>1, <1>3, <2>1 DEF RoomIsMade, Stored
<1>4. pc[r] \in {"count", "pick"} => \A t \in Tokens : View(r)[t] = sessions[t]
  BY ViewType DEF Consistent, Buffered
<1>5. pc[r] \in {"count", "pick"} =>
        ActiveSessions(View(r), u) = ActiveSessions(sessions, u)
  BY <1>4 DEF ActiveSessions, Alive
<1>6. CASE CountActive(r)
  <2>1. /\ UNCHANGED <<now, sessions>> /\ req' = req /\ writes' = writes
        /\ pc[r] = "count" /\ req[r].op \in SignIns
        /\ pc'[r] = "pick" \/
              /\ pc'[r] = "create"
              /\ ~(Cardinality(ActiveSessions(sessions, u)) >= MAX_SESSIONS_PER_USER)
    BY <1>5, <1>6 DEF CountActive, Step, Goto, TypeOK, Consistent, Prepared
  <2>2. /\ Cardinality(ActiveSessions(sessions, u)) \in Nat
        /\ ActiveSessions(sessions, u)' = ActiveSessions(sessions, u)
    <3>1. ActiveSessions(sessions, u) \subseteq Tokens
      BY DEF ActiveSessions
    <3>2. Cardinality(ActiveSessions(sessions, u)) \in Nat
      BY <3>1, FS_Subset, FS_CardinalityType
    <3> QED
      BY <2>1, <3>2 DEF ActiveSessions
  <2>3. Counted(r) /\ req[r].victim = NoToken
    BY <2>1 DEF RoomIsMade, RoomFor, Counted
  <2>4. Counted(r)'
    BY <1>2, <2>1, <2>2, <2>3 DEF Counted
  <2> QED
    BY <1>3, <2>1, <2>4 DEF RoomIsMade, RoomFor, Writes
<1>7. CASE PickOldest(r)
  <2>1. /\ UNCHANGED <<now, sessions>> /\ writes' = writes
        /\ pc[r] = "pick" /\ req[r].op \in SignIns /\ req'[r].user = u
    BY <1>7 DEF PickOldest, Step, Consistent, Prepared, TypeOK, Request
  <2>2. Counted(r) /\ req[r].victim = NoToken
    BY <2>1 DEF RoomIsMade, RoomFor, Counted
  <2>3. ActiveSessions(sessions, u)' = ActiveSessions(sessions, u)
    BY <2>1 DEF ActiveSessions
  <2>4. CASE pc'[r] = "create" /\ req' = req /\ ActiveSessions(sessions, u) = {}
    <3>1. Cardinality(ActiveSessions(sessions, u)) < MAX_SESSIONS_PER_USER
      BY <1>2, <2>4, FS_EmptySet
    <3>2. Counted(r)'
      BY <1>2, <2>2, <2>3, <2>4, <3>1 DEF Counted
    <3> QED
      BY <1>3, <2>1, <2>4, <3>2 DEF RoomIsMade, RoomFor, Writes
  <2>5. ASSUME NEW t \in Tokens, Step(r, "pick", "revoke"), Oldest(View(r), u, t),
               req' = [req EXCEPT ![r].victim = t]
        PROVE  RoomIsMade'
    <3>1. /\ pc'[r] = "revoke" /\ req'[r].victim = t
          /\ req'[r].op = req[r].op /\ req'[r].start = req[r].start /\ req'[r].user = u
      BY <2>5 DEF Step, Goto, TypeOK, Request
    <3>2. /\ Alive(sessions, t) /\ sessions[t].user = u
          /\ \A o \in ActiveSessions(sessions, u) : sessions[t].created_at <= sessions[o].created_at
      BY <1>4, <1>5, <2>1, <2>5 DEF Oldest, ActiveSessions, Alive
    <3>3. sessions[t].created_at <= req[r].start
      BY <2>1, <3>2 DEF RoomIsMade, RoomFor, Stored, Alive
    <3>4. Counted(r)'
      BY <1>2, <2>1, <2>3, <3>1, <3>2, <3>3 DEF Counted, Alive
    <3> QED
      BY <1>3, <2>1, <3>1, <3>4 DEF RoomIsMade, RoomFor, Writes
  <2> QED
    BY <1>5, <1>7, <2>1, <2>4, <2>5 DEF PickOldest, Step, Goto, TypeOK
<1>8. CASE RevokeOne(r)
  <2>1. /\ UNCHANGED <<now, sessions>> /\ req' = req
        /\ pc[r] = "revoke" /\ req[r].victim \in Tokens
        /\ writes' = [writes EXCEPT ![r][req[r].victim] =
                         [View(r)[req[r].victim] EXCEPT !.is_revoked = TRUE]]
        /\ req[r].op \in SignIns => pc'[r] = "create"
    BY <1>8 DEF RevokeOne, Step, Goto, Write, TypeOK, Consistent, Prepared, SignIns
  <2>2. View(r)[req[r].victim] = sessions[req[r].victim] /\ Stored(req[r].victim)
    BY <2>1, ViewType DEF Consistent, Buffered, Prepared
  <2>3. sessions[req[r].victim] \in Row
    BY <2>1, <2>2 DEF Stored, TypeOK, Table
  <2>4. /\ [View(r)[req[r].victim] EXCEPT !.is_revoked = TRUE] \in Row
        /\ [View(r)[req[r].victim] EXCEPT !.is_revoked = TRUE].created_at <= now
    BY <2>1, <2>2, <2>3, EndedRow DEF RoomIsMade, Row
  <2>5. /\ Writes(r, req[r].victim)'
        /\ \A t \in Tokens : Writes(r, t)' => writes'[r][t].created_at <= now
    BY <2>1, <2>4, ConstantsAssumption DEF Writes, TypeOK, Table, RoomIsMade, RoomFor,
       ConstantsAssumption
  <2>6. ActiveSessions(sessions, u)' = ActiveSessions(sessions, u)
    BY <2>1 DEF ActiveSessions
  <2>7. req[r].op \in SignIns => Counted(r)'
    BY <1>2, <2>1, <2>5, <2>6 DEF Counted, RoomIsMade, RoomFor, Alive
  <2> QED
    BY <1>3, <2>1, <2>5, <2>7
<1>9. CASE LoadUser(r)
  <2>1. /\ UNCHANGED <<now, sessions, writes>> /\ req[r].op = "refresh"
        /\ req'[r].op = req[r].op /\ req'[r].start = req[r].start
        /\ req'[r].user = req[r].user
    BY <1>9 DEF LoadUser, Step, Consistent, Prepared, TypeOK, Request
  <2> QED
    BY <1>3, <2>1 DEF SignIns, RoomIsMade, RoomFor, Writes
<1>10. CASE RefuseUser(r) \/ UserGone(r)
  <2>1. UNCHANGED <<now, sessions, writes>> /\ req'[r] = NoRequest
    BY <1>10 DEF RefuseUser, UserGone, Finish, TypeOK
  <2>2. RoomFor(r)'
    BY <1>2, <2>1 DEF RoomIsMade, RoomFor, NoRequest, SignIns, Writes
  <2> QED
    BY <1>1, <2>1, <2>2 DEF RoomIsMade, Stored
<1>11. CASE MarkReplaced(r)
  <2>1. /\ UNCHANGED <<now, sessions>> /\ req' = req /\ req[r].op = "refresh"
        /\ req[r].given \in Tokens /\ Stored(req[r].given) /\ req[r].fresh \in Tokens
        /\ pc[r] = "replace"
        /\ writes' = [writes EXCEPT ![r][req[r].given] =
                         [View(r)[req[r].given] EXCEPT !.is_revoked = TRUE,
                                                       !.replaced_by = req[r].fresh]]
    BY <1>11 DEF MarkReplaced, Step, Write, Consistent, Prepared
  <2>2. View(r)[req[r].given] = sessions[req[r].given]
    BY <2>1, ViewType DEF Consistent, Buffered
  <2>3. sessions[req[r].given] \in Row /\ sessions[req[r].given].created_at <= now
    BY <2>1 DEF Stored, TypeOK, Table, RoomIsMade
  <2>4. [View(r)[req[r].given] EXCEPT !.is_revoked = TRUE,
                                      !.replaced_by = req[r].fresh].created_at <= now
    BY <2>2, <2>3 DEF Row
  <2>5. \A t \in Tokens : Writes(r, t)' => writes'[r][t].created_at <= now
    BY <2>1, <2>4 DEF Writes, TypeOK, Table, RoomIsMade, RoomFor
  <2> QED
    BY <1>3, <2>1, <2>5 DEF SignIns
<1>12. CASE CreateSession(r)
  <2>1. /\ UNCHANGED <<now, sessions>> /\ req' = req /\ req[r].fresh \in Tokens
        /\ pc[r] = "create" /\ pc'[r] = "commit"
        /\ writes' = [writes EXCEPT ![r][req[r].fresh] = NewRow(r)]
    BY <1>12 DEF CreateSession, Step, Goto, Write, Consistent, Prepared, TypeOK
  <2>2. NewRow(r).created_at <= now
    BY DEF NewRow, RoomIsMade, RoomFor
  <2>3. \A t \in Tokens : Writes(r, t)' => writes'[r][t].created_at <= now
    BY <2>1, <2>2 DEF Writes, TypeOK, Table, RoomIsMade, RoomFor
  <2>4. ASSUME req[r].op \in SignIns PROVE Counted(r)'
    <3>1. Counted(r)
      BY <2>4 DEF RoomIsMade, RoomFor
    <3>2. req[r].victim \in Tokens => req[r].victim # req[r].fresh
      BY <2>1 DEF Consistent, Prepared, FreshIsMine
    <3>3. req[r].victim \in Tokens => Writes(r, req[r].victim)'
      BY <2>1, <3>1, <3>2 DEF Counted, Writes, TypeOK, Table
    <3>4. ActiveSessions(sessions, u)' = ActiveSessions(sessions, u)
      BY <2>1 DEF ActiveSessions
    <3> QED
      BY <2>1, <3>1, <3>3, <3>4 DEF Counted, Alive
  <2> QED
    BY <1>3, <2>1, <2>3, <2>4
<1>13. CASE UpdateUser(r) \/ SelectAlive(r)
  <2>1. /\ UNCHANGED <<now, sessions, writes>>
        /\ req'[r].op = req[r].op /\ req'[r].start = req[r].start
        /\ req'[r].user = req[r].user /\ req[r].op \notin SignIns
    BY <1>2, <1>13 DEF UpdateUser, SelectAlive, Step, Consistent, Prepared, TypeOK, Request
  <2> QED
    BY <1>3, <2>1 DEF RoomIsMade, RoomFor, Writes
<1>14. CASE RevokeAll(r)
  <2>1. /\ UNCHANGED <<now, sessions>> /\ req' = req /\ req[r].op \notin SignIns
        /\ pc[r] = "sweep"
    BY <1>2, <1>14 DEF RevokeAll, Step, Consistent, Prepared
  <2>2. \A t \in Tokens : View(r)[t] = sessions[t]
    BY <2>1, ViewType DEF Consistent, Buffered
  <2>3. ASSUME NEW t \in Tokens, Writes(r, t)'
        PROVE  writes'[r][t].created_at <= now
    <3>1. CASE t \in req[r].snap /\ Alive(View(r), t)
      <4>1. writes'[r][t] = [sessions[t] EXCEPT !.is_revoked = TRUE]
        BY <1>14, <2>2, <3>1 DEF RevokeAll, TypeOK
      <4>2. sessions[t] \in Row /\ sessions[t].created_at <= now
        BY <2>2, <3>1 DEF Alive, TypeOK, Table, RoomIsMade, Stored
      <4> QED
        BY <4>1, <4>2 DEF Row
    <3>2. CASE ~(t \in req[r].snap /\ Alive(View(r), t))
      BY <1>14, <2>3, <3>2 DEF RevokeAll, TypeOK, Writes, RoomIsMade, RoomFor
    <3> QED BY <3>1, <3>2
  <2> QED
    BY <1>3, <2>1, <2>3
<1> QED
  BY <1>6, <1>7, <1>8, <1>9, <1>10, <1>11, <1>12, <1>13, <1>14
  DEF Proceed, Commit, Respond

\* The commit, and every end of a request.
LEMMA EndMakesRoom ==
    ASSUME IInv, RoomIsMade, SignInsAlone, NEW r \in Requests,
           Commit(r) \/ Respond(r) \/ LoseResponse(r) \/ Abort(r)
    PROVE  RoomIsMade'
<1> USE DEF IInv
<1>1. \A s \in Requests \ {r} : RoomFor(s)'
  BY OthersHaveRoom DEF Acts, Proceed
<1>2. now \in Nat /\ 0 <= now
  BY ConstantsAssumption DEF TypeOK, ConstantsAssumption
<1>3. CASE Commit(r)
  <2>1. /\ UNCHANGED now /\ req' = req /\ pc'[r] = "respond"
        /\ sessions' = View(r) /\ writes'[r] = NoWrites
    BY <1>3 DEF Commit, Goto, TypeOK
  <2>2. \A t \in Tokens : Stored(t)' => sessions'[t].created_at <= now
    BY <2>1, ViewType DEF Stored, RoomIsMade, RoomFor
  <2>3. Counted(r)'
    BY <2>1 DEF Counted
  <2>4. RoomFor(r)'
    BY <2>1, <2>3 DEF RoomIsMade, RoomFor, Writes, NoWrites
  <2> QED
    BY <1>1, <2>2, <2>1, <2>4 DEF RoomIsMade
<1>4. CASE Respond(r) \/ LoseResponse(r)
  <2>1. UNCHANGED <<now, sessions, writes>> /\ req'[r] = NoRequest
    BY <1>4 DEF Respond, LoseResponse, Finish, TypeOK
  <2>2. RoomFor(r)'
    BY <1>2, <2>1 DEF RoomIsMade, RoomFor, NoRequest, SignIns, Writes
  <2> QED
    BY <1>1, <2>1, <2>2 DEF RoomIsMade, Stored
<1>5. CASE Abort(r)
  <2>1. UNCHANGED <<now, sessions>> /\ req'[r] = NoRequest /\ writes'[r] = NoWrites
    BY <1>5 DEF Abort, Finish, TypeOK
  <2>2. RoomFor(r)'
    BY <1>2, <2>1 DEF RoomFor, NoRequest, SignIns, Writes, NoWrites
  <2> QED
    BY <1>1, <2>1, <2>2 DEF RoomIsMade, Stored
<1> QED BY <1>3, <1>4, <1>5

\* The clock runs on beside a sign-in.
LEMMA EnvironmentMakesRoom ==
    ASSUME IInv, RoomIsMade, IsFiniteSet(Tokens), Environment
    PROVE  RoomIsMade'
<1> USE DEF IInv
<1>1. UNCHANGED <<sessions, pc, req, writes>> /\ now' \in Nat /\ now \in Nat /\ now' >= now
  BY ConstantsAssumption
  DEF Environment, Tick, LoginAsksFor2FA, SetActive, DeleteUser, TypeOK, ConstantsAssumption
<1>2. \A t \in Tokens : Stored(t) => sessions[t].created_at \in Nat
  BY ConstantsAssumption DEF Stored, TypeOK, Table, Row, ConstantsAssumption
<1>3. \A r \in Requests : req[r].start \in Nat
  BY ConstantsAssumption DEF TypeOK, Request, ConstantsAssumption
<1>4. \A r \in Requests, t \in Tokens : Writes(r, t) => writes[r][t].created_at \in Nat
  BY ConstantsAssumption DEF Writes, TypeOK, Table, Row, ConstantsAssumption
<1>5. ASSUME NEW r \in Requests, Counted(r) PROVE Counted(r)'
  <2> DEFINE u == req[r].user
  <2>1. /\ ActiveSessions(sessions, u)' \subseteq ActiveSessions(sessions, u)
        /\ Cardinality(ActiveSessions(sessions, u)) \in Nat
        /\ Cardinality(ActiveSessions(sessions, u)') \in Nat
        /\ Cardinality(ActiveSessions(sessions, u)') <= Cardinality(ActiveSessions(sessions, u))
    BY <1>1, ActiveShrinks
  <2>2. MAX_SESSIONS_PER_USER \in Nat
    BY ConstantsAssumption DEF ConstantsAssumption
  <2> QED
    BY <1>1, <1>5, <2>1, <2>2 DEF Counted, Alive, Writes
<1>6. ASSUME NEW r \in Requests PROVE RoomFor(r)'
  BY <1>1, <1>3, <1>4, <1>5 DEF RoomIsMade, RoomFor, Stored, Writes
<1> QED
  BY <1>1, <1>2, <1>6 DEF RoomIsMade, Stored

\* Where no other request of a user runs beside a sign-in, whatever else interleaves:
\* it leaves no more active sessions than the limit or ends one, and never one that
\* is younger than one that goes on.
THEOREM SignInsKeepTheCap ==
    ASSUME IsFiniteSet(Tokens)
    PROVE  Spec /\ []SignInsAlone => SignInKeepsCap
<1> DEFINE Keeps == \A r \in Requests : SignsIn(r) =>
        LET u == req[r].user
            after == ActiveSessions(sessions', u)
        IN  /\ Cardinality(after) <= MAX_SESSIONS_PER_USER \/ Ended(u) # {}
            /\ \A t \in Ended(u), o \in after :
                  sessions[t].created_at <= sessions'[o].created_at
<1>1. Init => RoomIsMade
  BY ConstantsAssumption
  DEF Init, RoomIsMade, RoomFor, NoWrites, NoRequest, Stored, Writes, SignIns, ConstantsAssumption
<1>2. IInv /\ RoomIsMade /\ SignInsAlone /\ [Next]_vars => RoomIsMade'
  <2> SUFFICES ASSUME IInv, RoomIsMade, SignInsAlone, [Next]_vars PROVE RoomIsMade'
    OBVIOUS
  <2>1. ASSUME NEW r \in Requests, Proceed(r), pc[r] \in {"commit", "respond"}
        PROVE  Commit(r) \/ Respond(r)
    BY <2>1 DEF Proceed, CountActive, PickOldest, RevokeOne, LoadUser, RefuseUser,
                MarkReplaced, CreateSession, UpdateUser, UserGone, SelectAlive, RevokeAll, Step
  <2>2. CASE UNCHANGED vars
    BY <2>2 DEF vars, userVars, RoomIsMade, RoomFor, Counted, Stored, Writes, Alive, ActiveSessions
  <2> QED
    BY <2>1, <2>2, BeginMakesRoom, StatementMakesRoom, EndMakesRoom, EnvironmentMakesRoom
    DEF Next
<1>3. IInv /\ RoomIsMade /\ [Next]_vars => Keeps
  <2> SUFFICES ASSUME IInv, RoomIsMade, [Next]_vars, NEW r \in Requests, SignsIn(r)
               PROVE  LET u == req[r].user
                          after == ActiveSessions(sessions', u)
                      IN  /\ Cardinality(after) <= MAX_SESSIONS_PER_USER \/ Ended(u) # {}
                          /\ \A t \in Ended(u), o \in after :
                                sessions[t].created_at <= sessions'[o].created_at
    OBVIOUS
  <2> USE DEF IInv
  <2> DEFINE u == req[r].user
             after == ActiveSessions(sessions', u)
  <2>1. Commit(r)
    <3>1. /\ pc[r] = "commit" /\ pc'[r] = "respond"
      BY DEF SignsIn
    <3>2. ASSUME NEW s \in Requests \ {r}, Acts(s) PROVE FALSE
      BY <3>1, <3>2, OthersWait
    <3>3. ~UNCHANGED pc
      BY <3>1
    <3>4. ~Environment /\ ~UNCHANGED vars
      BY <3>3 DEF Environment, Tick, LoginAsksFor2FA, SetActive, DeleteUser, vars
    <3>5. ~Begin(r)
      <4> SUFFICES ASSUME Begin(r) PROVE FALSE
        OBVIOUS
      <4>1. PICK q, label : Accept(r, q, label)
        BY BeginAccepts
      <4> QED
        BY <3>1, <4>1 DEF Accept
    <3>6. ~(Respond(r) \/ LoseResponse(r) \/ Abort(r))
      BY <3>1 DEF Respond, LoseResponse, Abort, Finish, Goto, TypeOK
    <3>7. Proceed(r)
      BY <3>2, <3>4, <3>5, <3>6 DEF Next, Acts
    <3> QED
      BY <3>1, <3>6, <3>7
      DEF Proceed, CountActive, PickOldest, RevokeOne, LoadUser, RefuseUser,
          MarkReplaced, CreateSession, UpdateUser, UserGone, SelectAlive, RevokeAll, Step
  <2>2. /\ sessions' = View(r) /\ now' = now
        /\ req[r].op \in SignIns /\ pc[r] = "commit"
        /\ req[r].fresh \in Tokens /\ req[r].given = NoToken /\ NoToken \notin Tokens
        /\ sessions'[req[r].fresh] = NewRow(r) /\ Counted(r)
    BY <2>1, ViewType, ConstantsAssumption
    DEF SignsIn, Commit, Consistent, Prepared, Buffered, RoomIsMade, RoomFor,
        ConstantsAssumption
  <2>3. ASSUME NEW t \in Tokens, t # req[r].fresh
        PROVE  \/ ~Writes(r, t) /\ sessions'[t] = sessions[t]
               \/ t = req[r].victim /\ Writes(r, t) /\ ~Alive(sessions', t)
    BY <2>2, <2>3, ViewType DEF Consistent, Buffered, Alive
  <2>4. after \subseteq ActiveSessions(sessions, u) \cup {req[r].fresh}
    BY <2>2, <2>3 DEF ActiveSessions, Alive
  <2>5. Cardinality(after) <= MAX_SESSIONS_PER_USER \/ Ended(u) # {}
    <3>1. CASE req[r].victim \in Tokens
      <4>1. Alive(sessions, req[r].victim) /\ Writes(r, req[r].victim)
        BY <2>2, <3>1 DEF Counted
      <4>2. req[r].victim # req[r].fresh
        BY <2>2, <4>1 DEF Consistent, FreshIsMine, Stored, Alive
      <4>3. sessions[req[r].victim].user = u
        BY <3>1 DEF Consistent, Prepared
      <4> QED
        BY <2>3, <3>1, <4>1, <4>2, <4>3 DEF Ended
    <3>2. CASE req[r].victim = NoToken
      <4> DEFINE A == ActiveSessions(sessions, u)
      <4>1. Cardinality(A) < MAX_SESSIONS_PER_USER
        BY <2>2, <3>2 DEF Counted
      <4>2. IsFiniteSet(A) /\ Cardinality(A) \in Nat
        <5>1. A \subseteq Tokens
          BY DEF ActiveSessions
        <5> QED
          BY <5>1, FS_Subset, FS_CardinalityType
      <4>3. /\ IsFiniteSet(A \cup {req[r].fresh})
            /\ Cardinality(A \cup {req[r].fresh}) <= Cardinality(A) + 1
        <5> HIDE DEF A
        <5>1. /\ IsFiniteSet(A \cup {req[r].fresh})
              /\ \/ Cardinality(A \cup {req[r].fresh}) = Cardinality(A)
                 \/ Cardinality(A \cup {req[r].fresh}) = Cardinality(A) + 1
          BY <4>2, FS_AddElement
        <5> QED
          BY <4>2, <5>1
      <4>4. /\ Cardinality(after) <= Cardinality(A \cup {req[r].fresh})
            /\ Cardinality(after) \in Nat /\ Cardinality(A \cup {req[r].fresh}) \in Nat
        BY <2>4, <4>3, FS_Subset, FS_CardinalityType
      <4>5. MAX_SESSIONS_PER_USER \in Nat
        BY ConstantsAssumption DEF ConstantsAssumption
      <4> QED
        BY <4>1, <4>2, <4>3, <4>4, <4>5
    <3> QED
      BY <3>1, <3>2 DEF TypeOK, Request
  <2>6. ASSUME NEW t \in Ended(u), NEW o \in after
        PROVE  sessions[t].created_at <= sessions'[o].created_at
    <3>1. t \in Tokens /\ Alive(sessions, t) /\ ~Alive(sessions', t)
      BY DEF Ended
    <3>2. t # req[r].fresh
      BY <2>2, <3>1 DEF Consistent, FreshIsMine, Stored, Alive
    <3>3. t = req[r].victim
      BY <2>3, <3>1, <3>2 DEF Alive
    <3>4. /\ sessions[t].created_at <= req[r].start
          /\ \A x \in ActiveSessions(sessions, u) : sessions[t].created_at <= sessions[x].created_at
      BY <2>2, <3>1, <3>3 DEF Counted
    <3>5. CASE o = req[r].fresh
      BY <2>2, <3>4, <3>5 DEF NewRow
    <3>6. CASE o # req[r].fresh
      <4>1. o \in Tokens /\ Alive(sessions', o) /\ o \in ActiveSessions(sessions, u)
        BY <2>4, <3>6 DEF ActiveSessions
      <4> QED
        BY <2>3, <3>4, <3>6, <4>1
    <3> QED BY <3>5, <3>6
  <2> QED
    BY <2>5, <2>6
<1>4. IInv /\ RoomIsMade /\ [Next]_vars => [Keeps]_vars
  BY <1>3
<1> QED
  BY <1>1, <1>2, <1>4, Invariant, PTL DEF Spec, SignInKeepsCap

-----------------------------------------------------------------------------
(* Refinement of SessionLedger.                                            *)

\* A commit of a request that created nothing ends sessions of one user.
LEMMA CommitRevokes ==
    ASSUME IInv, NEW r \in Requests, Commit(r), req[r].fresh = NoToken,
           NEW u, u = req[r].user,
           NEW ended, ended = {t \in Tokens : Writes(r, t)}
    PROVE  Ledger!Revoke(u, ended)
<1> DEFINE q == req[r]
<1>1. /\ sessions' = View(r) /\ Buffered(r) /\ TypeOK
      /\ \A t \in Tokens : Writes(r, t) => sessions'[t] = writes[r][t]
      /\ \A t \in Tokens : ~Writes(r, t) => sessions'[t] = sessions[t]
  BY ViewType DEF Commit, IInv, Consistent
<1>2. \A t \in Tokens : Writes(r, t) =>
        /\ Stored(t) /\ sessions[t].user = q.user
        /\ Stored(t)' /\ sessions'[t].user = sessions[t].user /\ sessions'[t].is_revoked
        /\ sessions'[t].replaced_by = sessions[t].replaced_by
  BY <1>1 DEF Buffered, Stored, Writes
<1> QED
  BY <1>1, <1>2 DEF Ledger!Revoke, Ledger!Born, Stored

\* A commit of a sign-in opens one session and ends at most one.
LEMMA CommitOpens ==
    ASSUME IInv, NEW r \in Requests, Commit(r), req[r].given = NoToken,
           NEW new \in Tokens, new = req[r].fresh,
           NEW u, u = req[r].user,
           NEW evicted, evicted = {t \in Tokens : Writes(r, t) /\ t # new}
    PROVE  Ledger!Open(new, u, evicted)
<1> DEFINE q == req[r]
<1>1. /\ sessions' = View(r) /\ Buffered(r) /\ TypeOK /\ pc[r] = "commit" /\ ~Stored(new)
      /\ \A t \in Tokens : Writes(r, t) => sessions'[t] = writes[r][t]
      /\ \A t \in Tokens : ~Writes(r, t) => sessions'[t] = sessions[t]
  BY ViewType DEF Commit, IInv, Consistent, FreshIsMine
<1>2. \A t \in evicted :
        /\ t = q.victim
        /\ sessions[t] # NoRow /\ sessions[t].user = u
        /\ sessions'[t] # NoRow /\ sessions'[t].user = sessions[t].user
        /\ sessions'[t].is_revoked /\ sessions'[t].replaced_by = sessions[t].replaced_by
  BY <1>1 DEF Buffered, Stored, Writes
<1>3. /\ Writes(r, new) /\ sessions'[new] # NoRow /\ sessions'[new].user = u
      /\ ~sessions'[new].is_revoked /\ sessions'[new].replaced_by = NoToken
  BY <1>1 DEF Buffered, Writes, NewRow
<1>4. \A t \in Tokens \ evicted : t # new => sessions'[t] = sessions[t]
  BY <1>1
<1>5. sessions[new] = NoRow
  BY <1>1 DEF Stored
<1>6. \A t \in evicted : t \in Tokens
  OBVIOUS
<1>7. evicted \subseteq Ledger!Born(u) /\ \A x, y \in evicted : x = y
  BY <1>2, <1>6 DEF Ledger!Born
<1>8. \A x \in Tokens :
        (IF sessions[x] = NoRow THEN "unborn"
         ELSE IF sessions[x].is_revoked THEN "dead" ELSE "alive")'
      = IF x = new THEN "alive"
        ELSE IF x \in evicted THEN "dead"
        ELSE IF sessions[x] = NoRow THEN "unborn"
        ELSE IF sessions[x].is_revoked THEN "dead" ELSE "alive"
  BY <1>2, <1>3, <1>4
<1>9. \A x \in Tokens :
        /\ (IF sessions[x] = NoRow THEN NoUser ELSE sessions[x].user)'
           = IF x = new THEN u
             ELSE IF sessions[x] = NoRow THEN NoUser ELSE sessions[x].user
        /\ (IF sessions[x] = NoRow THEN NoToken ELSE sessions[x].replaced_by)'
           = IF sessions[x] = NoRow THEN NoToken ELSE sessions[x].replaced_by
  BY <1>2, <1>3, <1>4, <1>5
<1> DEFINE state == [t \in Tokens |-> IF sessions[t] = NoRow THEN "unborn"
                                      ELSE IF sessions[t].is_revoked THEN "dead" ELSE "alive"]
           owner == [t \in Tokens |-> IF sessions[t] = NoRow THEN NoUser ELSE sessions[t].user]
           successor == [t \in Tokens |-> IF sessions[t] = NoRow THEN NoToken
                                          ELSE sessions[t].replaced_by]
<1>10. state' = [x \in Tokens |-> IF x = new THEN "alive"
                                  ELSE IF x \in evicted THEN "dead" ELSE state[x]]
  BY <1>8
<1>11. owner' = [owner EXCEPT ![new] = u] /\ successor' = successor
  BY <1>9
<1>12. state[new] = "unborn"
  BY <1>5
<1> QED
  BY <1>7, <1>10, <1>11, <1>12 DEF Ledger!Open

\* A commit of a rotation replaces one session by its successor.
LEMMA CommitRotates ==
    ASSUME IInv, NEW r \in Requests, Commit(r),
           NEW old \in Tokens, old = req[r].given,
           NEW new \in Tokens, new = req[r].fresh
    PROVE  Ledger!Rotate(old, new)
<1>1. /\ sessions' = View(r) /\ Buffered(r) /\ Prepared(r) /\ TypeOK /\ pc[r] = "commit"
      /\ ~Stored(new) /\ new # NoToken /\ old # NoToken
      /\ \A t \in Tokens : Writes(r, t) => sessions'[t] = writes[r][t]
      /\ \A t \in Tokens : ~Writes(r, t) => sessions'[t] = sessions[t]
  BY ViewType DEF Commit, IInv, Consistent, FreshIsMine
<1>2. Writes(r, old) /\ Stored(old) /\ old # new
  BY <1>1 DEF Buffered, Prepared
<1>3. /\ sessions[old] # NoRow /\ sessions'[old] # NoRow
      /\ sessions'[old].user = sessions[old].user /\ sessions'[old].is_revoked
      /\ sessions'[old].replaced_by = new /\ sessions[old].user = req[r].user
  BY <1>1, <1>2 DEF Buffered, Stored, Writes
<1>4. /\ sessions[new] = NoRow /\ sessions'[new] # NoRow
      /\ sessions'[new].user = sessions[old].user
      /\ ~sessions'[new].is_revoked /\ sessions'[new].replaced_by = NoToken
  BY <1>1, <1>3 DEF Buffered, Stored, Writes, NewRow
<1>5. \A t \in Tokens \ {old, new} : sessions'[t] = sessions[t]
  BY <1>1 DEF Buffered, Prepared
<1>6. \A x \in Tokens :
        (IF sessions[x] = NoRow THEN "unborn"
         ELSE IF sessions[x].is_revoked THEN "dead" ELSE "alive")'
      = IF x = new THEN "alive" ELSE IF x = old THEN "dead"
        ELSE IF sessions[x] = NoRow THEN "unborn"
        ELSE IF sessions[x].is_revoked THEN "dead" ELSE "alive"
  BY <1>3, <1>4, <1>5
<1>7. \A x \in Tokens :
        /\ (IF sessions[x] = NoRow THEN NoUser ELSE sessions[x].user)'
           = IF x = new THEN sessions[old].user
             ELSE IF sessions[x] = NoRow THEN NoUser ELSE sessions[x].user
        /\ (IF sessions[x] = NoRow THEN NoToken ELSE sessions[x].replaced_by)'
           = IF x = old THEN new
             ELSE IF sessions[x] = NoRow THEN NoToken ELSE sessions[x].replaced_by
  BY <1>3, <1>4, <1>5
<1> QED
  BY <1>2, <1>3, <1>4, <1>6, <1>7 DEF Ledger!Rotate

\* The statements of the handlers implement the whole operations of the
\* ledger: a request's commit is one of them, and every other step is none.
THEOREM ImplementsTheLedger == Spec => ImplementsLedger
<1>1. Init => Ledger!Init
  BY DEF Init, NoWrites, Ledger!Init
<1>2. IInv /\ [Next]_vars => [Ledger!Next]_(Ledger!ledgerVars)
  <2> SUFFICES ASSUME IInv, [Next]_vars, sessions' # sessions PROVE Ledger!Next
    BY DEF Ledger!ledgerVars
  <2>1. PICK r \in Requests : Commit(r)
    BY TableChanges DEF vars
  <2>2. req[r].user \in Users
    BY <2>1 DEF Commit, IInv, Consistent, Prepared
  <2>3. req[r].given \in Tokens \cup {NoToken} /\ req[r].fresh \in Tokens \cup {NoToken}
    BY DEF IInv, TypeOK, Request
  <2>4. PICK u \in Users : u = req[r].user
    BY <2>2
  <2>5. CASE req[r].fresh = NoToken
    <3>1. PICK ended \in SUBSET Tokens : ended = {t \in Tokens : Writes(r, t)}
      OBVIOUS
    <3> QED
      BY <2>1, <2>4, <2>5, <3>1, CommitRevokes DEF Ledger!Next
  <2>6. CASE req[r].fresh \in Tokens /\ req[r].given = NoToken
    <3>1. PICK new \in Tokens : new = req[r].fresh
      BY <2>6
    <3>2. PICK evicted \in SUBSET Tokens : evicted = {t \in Tokens : Writes(r, t) /\ t # new}
      OBVIOUS
    <3> QED
      BY <2>1, <2>4, <2>6, <3>1, <3>2, CommitOpens DEF Ledger!Next
  <2>7. CASE req[r].fresh \in Tokens /\ req[r].given \in Tokens
    <3>1. PICK old \in Tokens, new \in Tokens : old = req[r].given /\ new = req[r].fresh
      BY <2>7
    <3> QED
      BY <2>1, <3>1, CommitRotates DEF Ledger!Next
  <2> QED
    BY <2>3, <2>5, <2>6, <2>7
<1> QED
  BY <1>1, <1>2, Invariant, PTL DEF Spec, ImplementsLedger, Ledger!Spec

-----------------------------------------------------------------------------
(* What a rotation replaces, where it is alone.                            *)

\* The session that a request is about to replace is alive until it commits.
ReplacesAlive == \A r \in Requests :
    req[r].given \in Tokens /\ req[r].fresh \in Tokens /\ pc[r] # "respond"
        => Alive(sessions, req[r].given)

\* A request that is accepted with a token to replace has found it alive.
LEMMA BeginFindsAlive ==
    ASSUME IInv, NEW r \in Requests, Begin(r),
           req'[r].given \in Tokens, req'[r].fresh \in Tokens
    PROVE  Alive(sessions', req'[r].given)
<1> USE DEF IInv
<1>1. ASSUME NEW q, NEW label, Accept(r, q, label),
             q.given = NoToken \/ q.fresh = NoToken
      PROVE  FALSE
  BY <1>1, ConstantsAssumption DEF Accept, TypeOK, ConstantsAssumption
<1>2. ASSUME NEW op, NEW u, NEW t, NEW version,
             Accept(r, NewSessionRequest(op, u, t, version), "count")
      PROVE  FALSE
  <2>1. NewSessionRequest(op, u, t, version).given = NoToken
    BY DEF NewSessionRequest, NoRequest
  <2> QED BY <1>1, <1>2, <2>1
<1>3. CASE \E u \in Users : LogoutAll(r, u) \/ ResetPassword(r, u) \/ ChangePassword(r, u)
  BY <1>1, <1>3 DEF LogoutAll, ResetPassword, ChangePassword, SetPassword, NoRequest
<1>4. CASE \E t \in Tokens : RefreshReused(r, t) \/ Logout(r, t)
  BY <1>1, <1>4 DEF RefreshReused, Logout, NoRequest
<1>5. CASE \E t \in Tokens : RefreshValid(r, t)
  <2>1. PICK t \in Tokens, n \in Tokens :
          /\ Alive(sessions, t)
          /\ Accept(r, [NoRequest EXCEPT !.op = "refresh", !.user = sessions[t].user,
                                         !.given = t, !.fresh = n, !.start = now,
                                         !.cred = sessions[t].cred], "load_user")
    BY <1>5 DEF RefreshValid
  <2>2. req'[r].given = t
    BY <2>1 DEF Accept, TypeOK, NoRequest
  <2>3. sessions' = sessions
    BY <2>1 DEF Accept
  <2> QED BY <2>1, <2>2, <2>3 DEF Alive
<1>6. CASE \E u \in Users : Login(r, u) \/ Login2FA(r, u)
  BY <1>2, <1>6 DEF Login, Login2FA
<1> QED
  BY <1>3, <1>4, <1>5, <1>6 DEF Begin, Refresh

\* While a token is exchanged, no other request of its user is under way.
RotationsAlone == \A r \in Requests : req[r].op = "refresh" => Alone(r)

\* A request that acts ends no session that another one replaces.
LEMMA OthersKeepAlive ==
    ASSUME IInv, ReplacesAlive, RotationsAlone, NEW r \in Requests, Acts(r),
           NEW s \in Requests \ {r},
           req'[s].given \in Tokens, req'[s].fresh \in Tokens, pc'[s] # "respond"
    PROVE  Alive(sessions', req'[s].given)
<1> USE DEF IInv
<1>1. pc'[s] = pc[s] /\ req'[s] = req[s] /\ Alive(sessions, req[s].given)
  BY OthersWait DEF ReplacesAlive
<1>2. CASE UNCHANGED sessions
  BY <1>1, <1>2 DEF Alive
<1>3. CASE Commit(r)
  <2>1. req[s].op = "refresh" /\ sessions[req[s].given].user = req[s].user
    BY <1>1, ConstantsAssumption DEF Consistent, Prepared, ConstantsAssumption
  <2>2. req[r].user # req[s].user
    BY <1>3, <2>1 DEF RotationsAlone, Alone, Commit
  <2>3. sessions'[req[s].given] = sessions[req[s].given]
    BY <1>1, <1>3, <2>1, <2>2, OtherUsersRows DEF Alive, Stored
  <2> QED
    BY <1>1, <2>3 DEF Alive
<1> QED
  BY <1>2, <1>3, CommitsOnly

\* The statements of a request leave the table alone until it commits.
LEMMA ProceedKeepsAlive ==
    ASSUME IInv, ReplacesAlive, RotationsAlone, NEW r \in Requests,
           Proceed(r) \/ LoseResponse(r) \/ Abort(r)
    PROVE  ReplacesAlive'
<1> USE DEF IInv
<1>1. \A s \in Requests \ {r} :
        req'[s].given \in Tokens /\ req'[s].fresh \in Tokens /\ pc'[s] # "respond"
          => Alive(sessions', req'[s].given)
  BY OthersKeepAlive DEF Acts
<1>2. CASE Commit(r)
  <2>1. pc'[r] = "respond"
    BY <1>2 DEF Commit, Goto, TypeOK
  <2> QED BY <1>1, <2>1 DEF ReplacesAlive
<1>3. CASE \/ RefuseUser(r) \/ UserGone(r) \/ Respond(r) \/ LoseResponse(r) \/ Abort(r)
  <2>1. req'[r].fresh \notin Tokens
    BY <1>3, ConstantsAssumption
    DEF RefuseUser, UserGone, Respond, LoseResponse, Abort, Finish, TypeOK, NoRequest,
        ConstantsAssumption
  <2> QED BY <1>1, <2>1 DEF ReplacesAlive
<1>4. CASE \/ CountActive(r) \/ PickOldest(r) \/ RevokeOne(r) \/ LoadUser(r)
           \/ MarkReplaced(r) \/ CreateSession(r) \/ UpdateUser(r)
           \/ SelectAlive(r) \/ RevokeAll(r)
  <2>1. sessions' = sessions /\ pc[r] # "respond"
    BY <1>4 DEF CountActive, PickOldest, RevokeOne, LoadUser, MarkReplaced, CreateSession,
                UpdateUser, SelectAlive, RevokeAll, Step
  <2>2. req'[r].fresh = req[r].fresh /\ req'[r].given = req[r].given
    BY <1>4 DEF CountActive, PickOldest, RevokeOne, LoadUser, MarkReplaced, CreateSession,
                UpdateUser, SelectAlive, RevokeAll, TypeOK, Request
  <2> QED BY <1>1, <2>1, <2>2 DEF ReplacesAlive, Alive
<1> QED
  BY <1>2, <1>3, <1>4 DEF Proceed

\* Where no other request of a user runs beside a refresh, whatever else interleaves:
\* only a session that is alive is replaced, so no token is exchanged twice.
THEOREM ImplementsTheStrictLedger ==
    Spec /\ []RotationsAlone => ImplementsStrictLedger
<1>1. Init => ReplacesAlive /\ Ledger!Init
  BY ConstantsAssumption
  DEF Init, NoWrites, Ledger!Init, ReplacesAlive, NoRequest, ConstantsAssumption
<1>2. IInv /\ ReplacesAlive /\ RotationsAlone /\ [Next]_vars => ReplacesAlive'
  <2> SUFFICES ASSUME IInv, ReplacesAlive, RotationsAlone, [Next]_vars
               PROVE  ReplacesAlive'
    OBVIOUS
  <2>1. ASSUME NEW r \in Requests, Begin(r) PROVE ReplacesAlive'
    <3>1. \A s \in Requests \ {r} :
            req'[s].given \in Tokens /\ req'[s].fresh \in Tokens /\ pc'[s] # "respond"
              => Alive(sessions', req'[s].given)
      BY <2>1, OthersKeepAlive DEF Acts
    <3>2. req'[r].given \in Tokens /\ req'[r].fresh \in Tokens
            => Alive(sessions', req'[r].given)
      BY <2>1, BeginFindsAlive
    <3> QED BY <3>1, <3>2 DEF ReplacesAlive, Alive
  <2>2. CASE Environment \/ UNCHANGED vars
    <3>1. UNCHANGED <<sessions, req, pc>>
      BY <2>2 DEF Environment, Tick, LoginAsksFor2FA, SetActive, DeleteUser, vars
    <3> QED BY <3>1 DEF ReplacesAlive
  <2> QED
    BY <2>1, <2>2, ProceedKeepsAlive DEF Next
<1>3. IInv /\ ReplacesAlive /\ [Next]_vars => [Ledger!StrictNext]_(Ledger!ledgerVars)
  <2> SUFFICES ASSUME IInv, ReplacesAlive, [Next]_vars, sessions' # sessions
               PROVE  Ledger!StrictNext
    BY DEF Ledger!ledgerVars
  <2>1. PICK r \in Requests : Commit(r)
    BY TableChanges DEF vars
  <2>2. req[r].user \in Users
    BY <2>1 DEF Commit, IInv, Consistent, Prepared
  <2>3. req[r].given \in Tokens \cup {NoToken} /\ req[r].fresh \in Tokens \cup {NoToken}
    BY DEF IInv, TypeOK, Request
  <2>4. PICK u \in Users : u = req[r].user
    BY <2>2
  <2>5. CASE req[r].fresh = NoToken
    <3>1. PICK ended \in SUBSET Tokens : ended = {t \in Tokens : Writes(r, t)}
      OBVIOUS
    <3> QED
      BY <2>1, <2>4, <2>5, <3>1, CommitRevokes DEF Ledger!StrictNext
  <2>6. CASE req[r].fresh \in Tokens /\ req[r].given = NoToken
    <3>1. PICK new \in Tokens : new = req[r].fresh
      BY <2>6
    <3>2. PICK evicted \in SUBSET Tokens : evicted = {t \in Tokens : Writes(r, t) /\ t # new}
      OBVIOUS
    <3> QED
      BY <2>1, <2>4, <2>6, <3>1, <3>2, CommitOpens DEF Ledger!StrictNext
  <2>7. CASE req[r].fresh \in Tokens /\ req[r].given \in Tokens
    <3>1. PICK old \in Tokens, new \in Tokens : old = req[r].given /\ new = req[r].fresh
      BY <2>7
    <3>2. Alive(sessions, old)
      BY <2>1, <2>7, <3>1 DEF ReplacesAlive, Commit
    <3>3. Ledger!RotateAlive(old, new)
      BY <2>1, <3>1, <3>2, CommitRotates DEF Ledger!RotateAlive, Alive
    <3> QED
      BY <3>3 DEF Ledger!StrictNext
  <2> QED
    BY <2>3, <2>5, <2>6, <2>7
<1> QED
  BY <1>1, <1>2, <1>3, Invariant, PTL DEF Spec, ImplementsStrictLedger, Ledger!StrictSpec

=============================================================================
