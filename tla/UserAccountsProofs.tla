------------------------- MODULE UserAccountsProofs -------------------------
(***************************************************************************)
(* The users table keeps its owner, its unique values and its deletions    *)
(* for any accounts and any number of requests in flight, and a request    *)
(* that is not overtaken is one step of AccountBook.                       *)
(***************************************************************************)
EXTENDS UserAccounts, TLAPS

UpdateOps == Ops \ {"none", "register", "delete_user"}

\* What a handler may make of the row it read.
Allowed(row, new) ==
    \/ \E n \in Usernames : new = [row EXCEPT !.username = n]
    \/ \E p \in Phones \cup {NoPhone} : new = [row EXCEPT !.phone = p]
    \/ \E p \in Passwords : new = [row EXCEPT !.password = p]
    \/ ~row.enabled /\ \E s \in Secrets : new = [row EXCEPT !.secret = s]
    \/ ~row.enabled /\ row.secret # NoSecret /\ new = [row EXCEPT !.enabled = TRUE]
    \/ row.enabled /\ new = [row EXCEPT !.enabled = FALSE, !.secret = NoSecret]
    \/ ~row.verified /\ new = [row EXCEPT !.verified = TRUE, !.active = TRUE]
    \/ new = [row EXCEPT !.active = TRUE]
    \/ row.role # "OWNER" /\ new = [row EXCEPT !.active = FALSE]
    \/ row.role # "OWNER" /\ \E role \in Roles \ {"OWNER"} : new = [row EXCEPT !.role = role]

Registering(h) ==
    /\ users[h.user] = Absent
    /\ h.want \in Row
    /\ h.want.role = "USER" /\ ~h.want.active /\ ~h.want.verified
    /\ ~h.want.enabled /\ h.want.secret = NoSecret
    /\ h.dirty = Columns
    /\ h.step # "reread"

Deleting(h) ==
    /\ h.want = Deleted
    /\ h.user # Owner
    /\ users[h.user] # Absent
    /\ h.step \in {"flush", "commit"}

\* A copy keeps the owner's role and flag, and as long as nobody overtakes
\* the request the copy is what its handler makes of the row as it is now.
Updating(h) ==
    /\ h.want \in Row
    /\ users[h.user] # Absent
    /\ h.want.role = "OWNER" <=> h.user = Owner
    /\ h.user = Owner => h.want.active
    /\ ~h.overtaken =>
           /\ users[h.user] \in Row
           /\ Allowed(users[h.user], h.want)
           /\ h.step \in {"flush", "commit"} =>
                  h.dirty = Differing(users[h.user], h.want)

Legit(h) == h.step # "idle" =>
    /\ h.op # "none"
    /\ h.step = "check" => h.checks # <<>>
    /\ h.op = "register" => Registering(h)
    /\ h.op = "delete_user" => Deleting(h)
    /\ h.op \in UpdateOps => Updating(h)
    /\ h.step = "commit" /\ h.dirty # {} => users[h.user] # Deleted

AllLegit == \A r \in Requests : Legit(request[r])

\* Nobody else works on a uid that is being registered.
Alone(h, k) == h.step # "idle" /\ k.step # "idle" /\ h.op = "register" => k.user # h.user
RegisterAlone == \A r, s \in Requests : r # s => Alone(request[r], request[s])

\* A row has one writer.
OneWriter == \A r, s \in Requests :
    r # s /\ Writing(r) /\ Writing(s) => request[r].user # request[s].user

IInv == /\ TypeOK /\ OneOwner(users) /\ AllLegit
        /\ RegisterAlone /\ OneWriter /\ NamesStayUnique

-----------------------------------------------------------------------------
(* Rows.                                                                   *)

LEMMA MergeType ==
    ASSUME NEW row \in Row, NEW new \in Row, NEW D
    PROVE  Merge(row, new, D) \in Row
BY DEF Row, Merge

LEMMA MergeFields ==
    ASSUME NEW row \in Row, NEW new \in Row, NEW D
    PROVE  /\ Merge(row, new, D).username = IF "username" \in D THEN new.username ELSE row.username
           /\ Merge(row, new, D).phone = IF "phone" \in D THEN new.phone ELSE row.phone
           /\ Merge(row, new, D).email = IF "email" \in D THEN new.email ELSE row.email
           /\ Merge(row, new, D).role \in {new.role, row.role}
           /\ Merge(row, new, D).active \in {new.active, row.active}
BY DEF Merge

\* Writing what differs makes the row equal to the copy.
LEMMA MergeDiffering ==
    ASSUME NEW row \in Row, NEW new \in Row
    PROVE  Merge(row, new, Differing(row, new)) = new
<1> DEFINE D == Differing(row, new)
<1>1. \A c \in Columns : (IF c \in D THEN new[c] ELSE row[c]) = new[c]
    BY DEF Differing
<1>2. Merge(row, new, D) =
          [username |-> new["username"], phone |-> new["phone"], email |-> new["email"],
           password |-> new["password"], role |-> new["role"], active |-> new["active"],
           verified |-> new["verified"], enabled |-> new["enabled"], secret |-> new["secret"]]
    BY <1>1 DEF Merge, Columns
<1>3. new = [username |-> new["username"], phone |-> new["phone"], email |-> new["email"],
           password |-> new["password"], role |-> new["role"], active |-> new["active"],
           verified |-> new["verified"], enabled |-> new["enabled"], secret |-> new["secret"]]
    BY DEF Row
<1> QED
    BY <1>2, <1>3

LEMMA ApartSymmetric ==
    ASSUME NEW x, NEW y, Apart(x, y)
    PROVE  Apart(y, x)
BY DEF Apart

\* Dirty columns were tested against y, and the others are those of a row
\* that is apart from y.
LEMMA MergeApart ==
    ASSUME NEW row \in Row, NEW new \in Row, NEW D, NEW y, y \notin {Absent, Deleted},
           Apart(row, y),
           \A c \in UniqueColumns \cap D : ~Holds(y, c, new[c])
    PROVE  Apart(Merge(row, new, D), y)
<1> SUFFICES ASSUME y \in Row
             PROVE  LET x == Merge(row, new, D)
                    IN  /\ x.username # y.username /\ x.email # y.email
                        /\ x.phone # y.phone \/ x.phone = NoPhone
    BY DEF Apart
<1>1. /\ row.username # y.username /\ row.email # y.email
      /\ row.phone # y.phone \/ row.phone = NoPhone
    BY DEF Apart
<1>2. /\ new.username # NoPhone /\ new.email # NoPhone
    BY AccountsAssumption DEF Row
<1>3. /\ "username" \in D => y["username"] # new["username"]
      /\ "email" \in D => y["email"] # new["email"]
      /\ "phone" \in D => y["phone"] # new["phone"] \/ new["phone"] = NoPhone
    BY <1>2 DEF Holds, UniqueColumns
<1> QED
    BY <1>1, <1>3, MergeFields

LEMMA NewApart ==
    ASSUME NEW new \in Row, NEW y, y \notin {Absent, Deleted},
           \A c \in UniqueColumns : ~Holds(y, c, new[c])
    PROVE  Apart(new, y)
<1>1. /\ new.username # NoPhone /\ new.email # NoPhone
    BY AccountsAssumption DEF Row
<1> QED
    BY <1>1 DEF Holds, UniqueColumns, Apart

LEMMA GoneApart ==
    ASSUME NEW x, NEW y, y \in {Absent, Deleted}
    PROVE  Apart(x, y) /\ Apart(y, x)
BY AccountsAssumption DEF Apart

LEMMA IdleType == Idle \in Handling /\ Legit(Idle)
<1>1. Owner \in Uids
    BY AccountsAssumption
<1>2. <<>> \in Seq(UniqueColumns)
    OBVIOUS
<1> QED
    BY <1>1, <1>2 DEF Idle, Handling, Ops, Legit

\* What a legitimate request makes of the row.
LEMMA AfterType ==
    ASSUME IInv, NEW r \in Requests, Writing(r)
    PROVE  /\ After(r) \in Row \cup {Deleted}
           /\ After(r) = Deleted => request[r].user # Owner
           /\ After(r) \in Row =>
                  /\ After(r).role = "OWNER" <=> request[r].user = Owner
                  /\ request[r].user = Owner => After(r).active
<1> DEFINE h == request[r]
<1>1. h \in Handling /\ h.user \in Uids /\ h.op \in Ops /\ users[h.user] \in Row \cup {Absent, Deleted}
    BY DEF IInv, TypeOK, Handling
<1>2. Legit(h) /\ h.step = "commit" /\ h.dirty # {}
    BY DEF IInv, AllLegit, Writing
<1>3. h.op \in {"register", "delete_user"} \cup UpdateOps
    BY <1>1, <1>2 DEF Legit, UpdateOps
<1>4. /\ users[Owner] \in Row /\ users[Owner].active
      /\ \A u \in Uids : users[u] \in Row => (users[u].role = "OWNER" <=> u = Owner)
    BY DEF IInv, OneOwner
<1>5. CASE h.op = "register"
  <2>1. Registering(h)
      BY <1>2, <1>5 DEF Legit
  <2>2. After(r) = h.want
      BY <2>1 DEF After, Registering, Exists
  <2>3. h.user # Owner
      BY <2>1, <1>4, AccountsAssumption DEF Registering
  <2> QED
      BY <2>1, <2>2, <2>3, AccountsAssumption DEF Registering
<1>6. CASE h.op = "delete_user"
  <2>1. Deleting(h)
      BY <1>2, <1>6 DEF Legit
  <2> QED
      BY <2>1, AccountsAssumption DEF After, Deleting
<1>7. CASE h.op \in UpdateOps
  <2>1. Updating(h)
      BY <1>2, <1>7 DEF Legit
  <2>2. users[h.user] \in Row
      BY <2>1, <1>1, <1>2 DEF Updating, Legit
  <2>3. Exists(h.user) /\ h.want \in Row /\ h.want # Deleted
      BY <2>1, <2>2, AccountsAssumption DEF Updating, Exists
  <2>4. After(r) = Merge(users[h.user], h.want, h.dirty)
      BY <2>3 DEF After
  <2>5. After(r) \in Row
      BY <2>2, <2>3, <2>4, MergeType
  <2>6. After(r).role \in {h.want.role, users[h.user].role}
        /\ After(r).active \in {h.want.active, users[h.user].active}
      BY <2>2, <2>3, <2>4, MergeFields
  <2>7. h.want.role = "OWNER" <=> h.user = Owner
      BY <2>1 DEF Updating
  <2>8. users[h.user].role = "OWNER" <=> h.user = Owner
      BY <1>1, <1>4, <2>2
  <2>9. h.user = Owner => h.want.active /\ users[h.user].active
      BY <1>4, <2>1 DEF Updating
  <2> QED
      BY <2>5, <2>6, <2>7, <2>8, <2>9, AccountsAssumption
<1> QED
    BY <1>3, <1>5, <1>6, <1>7

-----------------------------------------------------------------------------
(* The initial states.                                                     *)

LEMMA InitInv == Init => IInv
<1> SUFFICES ASSUME Init PROVE IInv
    OBVIOUS
<1>1. /\ users \in [Uids -> Row \cup {Absent}]
      /\ Unique(users) /\ OneOwner(users)
    BY AccountsAssumption DEF Init
<1>2. \A r \in Requests : request[r] = Idle
    BY DEF Init
<1>3. TypeOK
    BY <1>1, IdleType, AccountsAssumption DEF Init, TypeOK
<1>4. \A r \in Requests : ~Writing(r) /\ request[r].step = "idle"
    BY <1>2 DEF Writing, Idle
<1>5. AllLegit /\ RegisterAlone /\ OneWriter
    BY <1>2, <1>4, IdleType DEF AllLegit, RegisterAlone, Alone, OneWriter
<1>6. \A u \in Uids : Versions(u) = {users[u]}
    BY <1>4 DEF Versions
<1>7. NamesStayUnique
    BY <1>1, <1>6 DEF NamesStayUnique, Unique
<1> QED
    BY <1>1, <1>3, <1>5, <1>7 DEF IInv

-----------------------------------------------------------------------------
(* A step of one request that writes nothing.                              *)

LEMMA QuietStep ==
    ASSUME IInv, NEW r \in Requests, NEW h \in Handling,
           request' = [request EXCEPT ![r] = h],
           users' = users,
           ~(h.step = "commit" /\ h.dirty # {}),
           Legit(h),
           \A s \in Requests \ {r} : Alone(h, request[s]) /\ Alone(request[s], h),
           issued' \subseteq Secrets, admitted' = admitted, begun' \in 0..MaxRequests
    PROVE  IInv'
<1>1. request \in [Requests -> Handling]
    BY DEF IInv, TypeOK
<1>2. request'[r] = h /\ \A s \in Requests \ {r} : request'[s] = request[s]
    BY <1>1
<1>3. TypeOK'
    BY <1>1 DEF IInv, TypeOK
<1>4. OneOwner(users)'
    BY DEF IInv, OneOwner
<1>5. AllLegit'
  <2> SUFFICES ASSUME NEW s \in Requests PROVE Legit(request[s])'
      BY DEF AllLegit
  <2>1. CASE s = r
      BY <1>2, <2>1 DEF Legit, Registering, Deleting, Updating
  <2>2. CASE s # r
    <3>1. Legit(request[s])
        BY DEF IInv, AllLegit
    <3> QED
        BY <1>2, <2>2, <3>1 DEF Legit, Registering, Deleting, Updating
  <2> QED
      BY <2>1, <2>2
<1>6. RegisterAlone'
    BY <1>2 DEF IInv, RegisterAlone, Alone
<1>7. /\ ~Writing(r)'
      /\ \A s \in Requests \ {r} : /\ Writing(s)' <=> Writing(s)
                                   /\ After(s)' = After(s)
    BY <1>2 DEF Writing, After, Exists
<1>8. OneWriter'
    BY <1>2, <1>7 DEF IInv, OneWriter
<1>9. \A u \in Uids : Versions(u)' \subseteq Versions(u)
    BY <1>2, <1>7 DEF Versions
<1>10. NamesStayUnique'
    BY <1>9 DEF IInv, NamesStayUnique, Apart
<1> QED
    BY <1>3, <1>4, <1>5, <1>6, <1>8, <1>10 DEF IInv

LEMMA FinishStep ==
    ASSUME IInv, NEW r \in Requests, Finish(r), UNCHANGED <<users, issued, admitted, begun>>
    PROVE  IInv'
<1>1. Idle \in Handling /\ Legit(Idle) /\ Idle.step = "idle"
    BY IdleType DEF Idle
<1>2. \A s \in Requests \ {r} : Alone(Idle, request[s]) /\ Alone(request[s], Idle)
    BY <1>1 DEF Alone
<1>3. issued' \subseteq Secrets /\ admitted' = admitted /\ begun' \in 0..MaxRequests
    BY DEF IInv, TypeOK
<1> QED
    BY <1>1, <1>2, <1>3, QuietStep DEF Finish

-----------------------------------------------------------------------------
(* The requests begin.                                                     *)

\* A handler that goes on to users.update with a copy of the row.
StartsCopy(r, h) ==
    /\ h \in Handling
    /\ h.step \in {"check", "reread"} /\ h.op \in UpdateOps
    /\ h.step = "check" => h.checks # <<>>
    /\ h.want \in Row /\ ~h.overtaken
    /\ users[h.user] \in Row
    /\ Allowed(users[h.user], h.want)
    /\ h.want.role = "OWNER" <=> users[h.user].role = "OWNER"
    /\ users[h.user].role = "OWNER" => h.want.active \/ ~users[h.user].active
    /\ Begin(r, h)
    /\ issued' \subseteq Secrets

LEMMA CopyStep ==
    ASSUME IInv, NEW r \in Requests, NEW h, StartsCopy(r, h)
    PROVE  IInv'
<1>1. h \in Handling /\ h.user \in Uids /\ h.step # "commit" /\ h.step # "idle"
    BY DEF StartsCopy, Handling
<1>2. users[h.user] \in Row /\ users[h.user] # Absent
    BY AccountsAssumption DEF StartsCopy
<1>3. /\ users[h.user].role = "OWNER" <=> h.user = Owner
      /\ h.user = Owner => users[h.user].active
    BY <1>1, <1>2 DEF IInv, OneOwner
<1>4. Updating(h)
    BY <1>1, <1>2, <1>3 DEF StartsCopy, Updating
<1>5. Legit(h)
    BY <1>1, <1>4 DEF Legit, StartsCopy, UpdateOps
<1>6. \A s \in Requests \ {r} : Alone(h, request[s]) /\ Alone(request[s], h)
  <2> SUFFICES ASSUME NEW s \in Requests \ {r} PROVE Alone(h, request[s]) /\ Alone(request[s], h)
      OBVIOUS
  <2>1. Legit(request[s])
      BY DEF IInv, AllLegit
  <2>2. h.op # "register"
      BY DEF StartsCopy, UpdateOps
  <2> QED
      BY <1>2, <2>1, <2>2 DEF Alone, Legit, Registering
<1>7. /\ request' = [request EXCEPT ![r] = h] /\ users' = users /\ admitted' = admitted
      /\ issued' \subseteq Secrets /\ begun' = begun + 1 /\ begun < MaxRequests
    BY DEF StartsCopy, Begin
<1>8. begun' \in 0..MaxRequests
    BY <1>7, AccountsAssumption DEF IInv, TypeOK
<1> QED
    BY <1>1, <1>5, <1>6, <1>7, <1>8, QuietStep

LEMMA RowExists ==
    ASSUME TypeOK, NEW u \in Uids, Exists(u)
    PROVE  users[u] \in Row
BY DEF TypeOK, Exists

\* The handlers that go straight to users.update, and those that ask first
\* whether the new value is free.
LEMMA StartsWithCopy ==
    ASSUME IInv, NEW r \in Requests, NEW op \in UpdateOps, NEW u \in Uids, NEW w \in Row,
           users[u] \in Row, Allowed(users[u], w),
           w.role = "OWNER" <=> users[u].role = "OWNER",
           users[u].role = "OWNER" => w.active \/ ~users[u].active,
           Begin(r, Handler(op, u, w)), issued' \subseteq Secrets
    PROVE  \E h : StartsCopy(r, h)
<1> DEFINE h == Handler(op, u, w)
<1>1. /\ h \in Handling
      /\ h.step = "reread" /\ h.op = op /\ h.user = u /\ h.want = w
      /\ h.overtaken = FALSE
    BY IdleType DEF Handler, Idle, Handling, UpdateOps
<1>2. Begin(r, h)
    OBVIOUS
<1> HIDE DEF h
<1>3. StartsCopy(r, h)
    BY <1>1, <1>2 DEF StartsCopy
<1> QED
    BY <1>3

LEMMA StartsWithCheck ==
    ASSUME IInv, NEW r \in Requests, NEW op \in UpdateOps, NEW u \in Uids, NEW w \in Row,
           NEW c \in UniqueColumns,
           users[u] \in Row, Allowed(users[u], w),
           w.role = "OWNER" <=> users[u].role = "OWNER",
           users[u].role = "OWNER" => w.active \/ ~users[u].active,
           Begin(r, [Handler(op, u, w) EXCEPT !.step = "check", !.checks = <<c>>]),
           issued' \subseteq Secrets
    PROVE  \E h : StartsCopy(r, h)
<1> DEFINE h == [Handler(op, u, w) EXCEPT !.step = "check", !.checks = <<c>>]
<1>1. /\ h \in Handling
      /\ h.step = "check" /\ h.checks = <<c>> /\ h.op = op /\ h.user = u /\ h.want = w
      /\ h.overtaken = FALSE
  <2>1. <<c>> \in Seq(UniqueColumns)
      OBVIOUS
  <2> QED
      BY <2>1, IdleType DEF Handler, Idle, Handling, UpdateOps
<1>2. Begin(r, h)
    OBVIOUS
<1> HIDE DEF h
<1>3. StartsCopy(r, h)
    BY <1>1, <1>2 DEF StartsCopy
<1> QED
    BY <1>3

LEMMA ConfirmEmailStarts ==
    ASSUME IInv, NEW r \in Requests, ConfirmEmail(r)
    PROVE  \E h : StartsCopy(r, h)
<1>1. PICK u \in Uids :
              /\ Exists(u) /\ ~users[u].verified
              /\ Begin(r, Handler("confirm_email", u, [users[u] EXCEPT !.verified = TRUE, !.active = TRUE]))
              /\ UNCHANGED issued
    BY DEF ConfirmEmail
<1> DEFINE w == [users[u] EXCEPT !.verified = TRUE, !.active = TRUE]
<1>2. u \in Uids /\ Exists(u)
    BY <1>1 DEF IInv, TypeOK
<1>3. users[u] \in Row
    BY <1>2, RowExists DEF IInv
<1>4. w \in Row
    BY <1>1, <1>3 DEF Row
<1>5. Allowed(users[u], w)
    BY <1>1, <1>3 DEF Allowed
<1>6. "confirm_email" \in UpdateOps
    BY DEF UpdateOps, Ops
<1>7. /\ w.role = "OWNER" <=> users[u].role = "OWNER"
      /\ users[u].role = "OWNER" => w.active \/ ~users[u].active
    BY <1>1, <1>3 DEF Row
<1>8. issued' \subseteq Secrets
    BY <1>1 DEF IInv, TypeOK
<1> QED
    BY <1>1, <1>2, <1>3, <1>4, <1>5, <1>6, <1>7, <1>8, StartsWithCopy

LEMMA ResetPasswordStarts ==
    ASSUME IInv, NEW r \in Requests, ResetPassword(r)
    PROVE  \E h : StartsCopy(r, h)
<1>1. PICK u \in Uids, p \in Passwords :
              /\ Exists(u)
              /\ Begin(r, Handler("reset_password", u, [users[u] EXCEPT !.password = p]))
              /\ UNCHANGED issued
    BY DEF ResetPassword
<1> DEFINE w == [users[u] EXCEPT !.password = p]
<1>2. u \in Uids /\ Exists(u)
    BY <1>1 DEF IInv, TypeOK
<1>3. users[u] \in Row
    BY <1>2, RowExists DEF IInv
<1>4. w \in Row
    BY <1>1, <1>3 DEF Row
<1>5. Allowed(users[u], w)
    BY <1>1, <1>3 DEF Allowed
<1>6. "reset_password" \in UpdateOps
    BY DEF UpdateOps, Ops
<1>7. /\ w.role = "OWNER" <=> users[u].role = "OWNER"
      /\ users[u].role = "OWNER" => w.active \/ ~users[u].active
    BY <1>1, <1>3 DEF Row
<1>8. issued' \subseteq Secrets
    BY <1>1 DEF IInv, TypeOK
<1> QED
    BY <1>1, <1>2, <1>3, <1>4, <1>5, <1>6, <1>7, <1>8, StartsWithCopy

LEMMA ChangePasswordStarts ==
    ASSUME IInv, NEW r \in Requests, ChangePassword(r)
    PROVE  \E h : StartsCopy(r, h)
<1>1. PICK u \in admitted, p \in Passwords :
              /\ Exists(u) /\ p # users[u].password
              /\ Begin(r, Handler("change_password", u, [users[u] EXCEPT !.password = p]))
              /\ UNCHANGED issued
    BY DEF ChangePassword
<1> DEFINE w == [users[u] EXCEPT !.password = p]
<1>2. u \in Uids /\ Exists(u)
    BY <1>1 DEF IInv, TypeOK
<1>3. users[u] \in Row
    BY <1>2, RowExists DEF IInv
<1>4. w \in Row
    BY <1>1, <1>3 DEF Row
<1>5. Allowed(users[u], w)
    BY <1>1, <1>3 DEF Allowed
<1>6. "change_password" \in UpdateOps
    BY DEF UpdateOps, Ops
<1>7. /\ w.role = "OWNER" <=> users[u].role = "OWNER"
      /\ users[u].role = "OWNER" => w.active \/ ~users[u].active
    BY <1>1, <1>3 DEF Row
<1>8. issued' \subseteq Secrets
    BY <1>1 DEF IInv, TypeOK
<1> QED
    BY <1>1, <1>2, <1>3, <1>4, <1>5, <1>6, <1>7, <1>8, StartsWithCopy

LEMMA ChangeUsernameStarts ==
    ASSUME IInv, NEW r \in Requests, ChangeUsername(r)
    PROVE  \E h : StartsCopy(r, h)
<1>1. PICK u \in admitted, n \in Usernames :
              /\ Exists(u) /\ n # users[u].username
              /\ Begin(r, [Handler("change_username", u, [users[u] EXCEPT !.username = n])
                           EXCEPT !.step = "check", !.checks = <<"username">>])
              /\ UNCHANGED issued
    BY DEF ChangeUsername
<1> DEFINE w == [users[u] EXCEPT !.username = n]
<1>2. u \in Uids /\ Exists(u)
    BY <1>1 DEF IInv, TypeOK
<1>3. users[u] \in Row
    BY <1>2, RowExists DEF IInv
<1>4. w \in Row
    BY <1>1, <1>3 DEF Row
<1>5. Allowed(users[u], w)
    BY <1>1, <1>3 DEF Allowed
<1>6. "change_username" \in UpdateOps /\ "username" \in UniqueColumns
    BY DEF UpdateOps, Ops, UniqueColumns
<1>7. /\ w.role = "OWNER" <=> users[u].role = "OWNER"
      /\ users[u].role = "OWNER" => w.active \/ ~users[u].active
    BY <1>1, <1>3 DEF Row
<1>8. issued' \subseteq Secrets
    BY <1>1 DEF IInv, TypeOK
<1> QED
    BY <1>1, <1>2, <1>3, <1>4, <1>5, <1>6, <1>7, <1>8, StartsWithCheck

LEMMA SetupTwoFactorStarts ==
    ASSUME IInv, NEW r \in Requests, SetupTwoFactor(r)
    PROVE  \E h : StartsCopy(r, h)
<1>1. PICK u \in admitted, s \in Secrets \ issued :
              /\ Exists(u) /\ ~users[u].enabled
              /\ Begin(r, Handler("setup_2fa", u, [users[u] EXCEPT !.secret = s]))
              /\ issued' = issued \cup {s}
    BY DEF SetupTwoFactor
<1> DEFINE w == [users[u] EXCEPT !.secret = s]
<1>2. u \in Uids /\ Exists(u)
    BY <1>1 DEF IInv, TypeOK
<1>3. users[u] \in Row
    BY <1>2, RowExists DEF IInv
<1>4. w \in Row
    BY <1>1, <1>3 DEF Row
<1>5. Allowed(users[u], w)
    BY <1>1, <1>3 DEF Allowed
<1>6. "setup_2fa" \in UpdateOps
    BY DEF UpdateOps, Ops
<1>7. /\ w.role = "OWNER" <=> users[u].role = "OWNER"
      /\ users[u].role = "OWNER" => w.active \/ ~users[u].active
    BY <1>1, <1>3 DEF Row
<1>8. issued' \subseteq Secrets
    BY <1>1 DEF IInv, TypeOK
<1> QED
    BY <1>1, <1>2, <1>3, <1>4, <1>5, <1>6, <1>7, <1>8, StartsWithCopy

LEMMA ConfirmTwoFactorStarts ==
    ASSUME IInv, NEW r \in Requests, ConfirmTwoFactor(r)
    PROVE  \E h : StartsCopy(r, h)
<1>1. PICK u \in admitted :
              /\ Exists(u) /\ ~users[u].enabled /\ users[u].secret # NoSecret
              /\ Begin(r, Handler("confirm_2fa", u, [users[u] EXCEPT !.enabled = TRUE]))
              /\ UNCHANGED issued
    BY DEF ConfirmTwoFactor
<1> DEFINE w == [users[u] EXCEPT !.enabled = TRUE]
<1>2. u \in Uids /\ Exists(u)
    BY <1>1 DEF IInv, TypeOK
<1>3. users[u] \in Row
    BY <1>2, RowExists DEF IInv
<1>4. w \in Row
    BY <1>1, <1>3 DEF Row
<1>5. Allowed(users[u], w)
    BY <1>1, <1>3 DEF Allowed
<1>6. "confirm_2fa" \in UpdateOps
    BY DEF UpdateOps, Ops
<1>7. /\ w.role = "OWNER" <=> users[u].role = "OWNER"
      /\ users[u].role = "OWNER" => w.active \/ ~users[u].active
    BY <1>1, <1>3 DEF Row
<1>8. issued' \subseteq Secrets
    BY <1>1 DEF IInv, TypeOK
<1> QED
    BY <1>1, <1>2, <1>3, <1>4, <1>5, <1>6, <1>7, <1>8, StartsWithCopy

LEMMA DisableTwoFactorStarts ==
    ASSUME IInv, NEW r \in Requests, DisableTwoFactor(r)
    PROVE  \E h : StartsCopy(r, h)
<1>1. PICK u \in admitted :
              /\ Exists(u) /\ users[u].enabled /\ users[u].secret # NoSecret
              /\ Begin(r, Handler("disable_2fa", u, [users[u] EXCEPT !.enabled = FALSE, !.secret = NoSecret]))
              /\ UNCHANGED issued
    BY DEF DisableTwoFactor
<1> DEFINE w == [users[u] EXCEPT !.enabled = FALSE, !.secret = NoSecret]
<1>2. u \in Uids /\ Exists(u)
    BY <1>1 DEF IInv, TypeOK
<1>3. users[u] \in Row
    BY <1>2, RowExists DEF IInv
<1>4. w \in Row
    BY <1>1, <1>3 DEF Row
<1>5. Allowed(users[u], w)
    BY <1>1, <1>3 DEF Allowed
<1>6. "disable_2fa" \in UpdateOps
    BY DEF UpdateOps, Ops
<1>7. /\ w.role = "OWNER" <=> users[u].role = "OWNER"
      /\ users[u].role = "OWNER" => w.active \/ ~users[u].active
    BY <1>1, <1>3 DEF Row
<1>8. issued' \subseteq Secrets
    BY <1>1 DEF IInv, TypeOK
<1> QED
    BY <1>1, <1>2, <1>3, <1>4, <1>5, <1>6, <1>7, <1>8, StartsWithCopy

LEMMA ChangeRoleStarts ==
    ASSUME IInv, NEW r \in Requests, ChangeRole(r)
    PROVE  \E h : StartsCopy(r, h)
<1>1. PICK u \in Uids, role \in Roles \ {"OWNER"} :
              /\ Exists(u) /\ users[u].role # "OWNER"
              /\ Begin(r, Handler("change_role", u, [users[u] EXCEPT !.role = role]))
              /\ UNCHANGED issued
    BY DEF ChangeRole
<1> DEFINE w == [users[u] EXCEPT !.role = role]
<1>2. u \in Uids /\ Exists(u)
    BY <1>1 DEF IInv, TypeOK
<1>3. users[u] \in Row
    BY <1>2, RowExists DEF IInv
<1>4. w \in Row
    BY <1>1, <1>3 DEF Row
<1>5. Allowed(users[u], w)
    BY <1>1, <1>3 DEF Allowed
<1>6. "change_role" \in UpdateOps
    BY DEF UpdateOps, Ops
<1>7. /\ w.role = "OWNER" <=> users[u].role = "OWNER"
      /\ users[u].role = "OWNER" => w.active \/ ~users[u].active
    BY <1>1, <1>3 DEF Row
<1>8. issued' \subseteq Secrets
    BY <1>1 DEF IInv, TypeOK
<1> QED
    BY <1>1, <1>2, <1>3, <1>4, <1>5, <1>6, <1>7, <1>8, StartsWithCopy

LEMMA DeactivateStarts ==
    ASSUME IInv, NEW r \in Requests, Deactivate(r)
    PROVE  \E h : StartsCopy(r, h)
<1>1. PICK u \in Uids :
              /\ Exists(u) /\ users[u].role # "OWNER"
              /\ Begin(r, Handler("deactivate_user", u, [users[u] EXCEPT !.active = FALSE]))
              /\ UNCHANGED issued
    BY DEF Deactivate
<1> DEFINE w == [users[u] EXCEPT !.active = FALSE]
<1>2. u \in Uids /\ Exists(u)
    BY <1>1 DEF IInv, TypeOK
<1>3. users[u] \in Row
    BY <1>2, RowExists DEF IInv
<1>4. w \in Row
    BY <1>1, <1>3 DEF Row
<1>5. Allowed(users[u], w)
    BY <1>1, <1>3 DEF Allowed
<1>6. "deactivate_user" \in UpdateOps
    BY DEF UpdateOps, Ops
<1>7. /\ w.role = "OWNER" <=> users[u].role = "OWNER"
      /\ users[u].role = "OWNER" => w.active \/ ~users[u].active
    BY <1>1, <1>3 DEF Row
<1>8. issued' \subseteq Secrets
    BY <1>1 DEF IInv, TypeOK
<1> QED
    BY <1>1, <1>2, <1>3, <1>4, <1>5, <1>6, <1>7, <1>8, StartsWithCopy

LEMMA ActivateStarts ==
    ASSUME IInv, NEW r \in Requests, Activate(r)
    PROVE  \E h : StartsCopy(r, h)
<1>1. PICK u \in Uids :
              /\ Exists(u)
              /\ Begin(r, Handler("activate_user", u, [users[u] EXCEPT !.active = TRUE]))
              /\ UNCHANGED issued
    BY DEF Activate
<1> DEFINE w == [users[u] EXCEPT !.active = TRUE]
<1>2. u \in Uids /\ Exists(u)
    BY <1>1 DEF IInv, TypeOK
<1>3. users[u] \in Row
    BY <1>2, RowExists DEF IInv
<1>4. w \in Row
    BY <1>1, <1>3 DEF Row
<1>5. Allowed(users[u], w)
    BY <1>1, <1>3 DEF Allowed
<1>6. "activate_user" \in UpdateOps
    BY DEF UpdateOps, Ops
<1>7. /\ w.role = "OWNER" <=> users[u].role = "OWNER"
      /\ users[u].role = "OWNER" => w.active \/ ~users[u].active
    BY <1>1, <1>3 DEF Row
<1>8. issued' \subseteq Secrets
    BY <1>1 DEF IInv, TypeOK
<1> QED
    BY <1>1, <1>2, <1>3, <1>4, <1>5, <1>6, <1>7, <1>8, StartsWithCopy

LEMMA ChangePhoneStarts ==
    ASSUME IInv, NEW r \in Requests, ChangePhone(r)
    PROVE  \E h : StartsCopy(r, h)
<1>1. PICK u \in admitted, p \in Phones \cup {NoPhone} :
          /\ Exists(u) /\ p # users[u].phone
          /\ LET h == Handler("change_phone", u, [users[u] EXCEPT !.phone = p])
             IN  Begin(r, IF p = NoPhone THEN h
                          ELSE [h EXCEPT !.step = "check", !.checks = <<"phone">>])
          /\ UNCHANGED issued
    BY DEF ChangePhone
<1> DEFINE w == [users[u] EXCEPT !.phone = p]
<1>2. u \in Uids /\ Exists(u)
    BY <1>1 DEF IInv, TypeOK
<1>3. users[u] \in Row
    BY <1>2, RowExists DEF IInv
<1>4. w \in Row
    BY <1>1, <1>3 DEF Row
<1>5. Allowed(users[u], w)
    BY <1>1, <1>3 DEF Allowed
<1>6. "change_phone" \in UpdateOps /\ "phone" \in UniqueColumns
    BY DEF UpdateOps, Ops, UniqueColumns
<1>7. /\ w.role = "OWNER" <=> users[u].role = "OWNER"
      /\ users[u].role = "OWNER" => w.active \/ ~users[u].active
    BY <1>1, <1>3 DEF Row
<1>8. issued' \subseteq Secrets
    BY <1>1 DEF IInv, TypeOK
<1>9. CASE p = NoPhone
  <2>1. Begin(r, Handler("change_phone", u, w))
      BY <1>1, <1>9
  <2> HIDE DEF w
  <2> QED
      BY <2>1, <1>2, <1>3, <1>4, <1>5, <1>6, <1>7, <1>8, StartsWithCopy
<1>10. CASE p # NoPhone
  <2>1. Begin(r, [Handler("change_phone", u, w) EXCEPT !.step = "check", !.checks = <<"phone">>])
      BY <1>1, <1>10
  <2> HIDE DEF w
  <2> QED
      BY <2>1, <1>2, <1>3, <1>4, <1>5, <1>6, <1>7, <1>8, StartsWithCheck
<1> QED
    BY <1>9, <1>10

LEMMA RegisterStep ==
    ASSUME IInv, NEW r \in Requests, Register(r)
    PROVE  IInv'
<1>1. PICK u \in Uids, n \in Usernames, e \in Emails, p \in Phones \cup {NoPhone}, w \in Passwords :
        /\ users[u] = Absent
        /\ \A s \in Requests : request[s].step # "idle" => request[s].user # u
        /\ Begin(r, [Handler("register", u,
                       [username |-> n, phone |-> p, email |-> e, password |-> w,
                        role |-> "USER", active |-> FALSE, verified |-> FALSE,
                        enabled |-> FALSE, secret |-> NoSecret])
                     EXCEPT !.step = "check",
                            !.checks = IF p = NoPhone THEN <<"email", "username">>
                                       ELSE <<"email", "username", "phone">>,
                            !.dirty = Columns])
        /\ UNCHANGED issued
    BY DEF Register
<1> DEFINE row == [username |-> n, phone |-> p, email |-> e, password |-> w,
                   role |-> "USER", active |-> FALSE, verified |-> FALSE,
                   enabled |-> FALSE, secret |-> NoSecret]
<1> DEFINE asked == IF p = NoPhone THEN <<"email", "username">>
                    ELSE <<"email", "username", "phone">>
<1> DEFINE h == [Handler("register", u, row)
                 EXCEPT !.step = "check", !.checks = asked, !.dirty = Columns]
<1>2. row \in Row
    BY <1>1, AccountsAssumption DEF Row
<1>3. asked \in Seq(UniqueColumns) /\ asked # <<>>
  <2>1. /\ <<"email", "username">> \in Seq(UniqueColumns)
        /\ <<"email", "username", "phone">> \in Seq(UniqueColumns)
      BY DEF UniqueColumns
  <2>2. <<"email", "username">> # <<>> /\ <<"email", "username", "phone">> # <<>>
      OBVIOUS
  <2> QED
      BY <2>1, <2>2
<1>4. Begin(r, h)
    BY <1>1
<1> HIDE DEF asked
<1>5. /\ row.role = "USER" /\ row.active = FALSE /\ row.verified = FALSE
      /\ row.enabled = FALSE /\ row.secret = NoSecret
    OBVIOUS
<1> HIDE DEF row
<1>6. /\ h \in Handling
      /\ h.step = "check" /\ h.op = "register" /\ h.user = u /\ h.want = row
      /\ h.dirty = Columns /\ h.checks = asked
    BY <1>2, <1>3, IdleType DEF Handler, Idle, Handling, Ops
<1> HIDE DEF h
<1>7. Registering(h)
    BY <1>1, <1>2, <1>5, <1>6 DEF Registering
<1>8. Legit(h)
    BY <1>3, <1>6, <1>7 DEF Legit, UpdateOps
<1>9. \A s \in Requests \ {r} : Alone(h, request[s]) /\ Alone(request[s], h)
    BY <1>1, <1>6 DEF Alone
<1>10. /\ request' = [request EXCEPT ![r] = h] /\ users' = users /\ admitted' = admitted
       /\ issued' = issued /\ begun' = begun + 1 /\ begun < MaxRequests
    BY <1>1, <1>4 DEF Begin
<1>11. begun' \in 0..MaxRequests /\ issued' \subseteq Secrets
    BY <1>10, AccountsAssumption DEF IInv, TypeOK
<1> QED
    BY <1>6, <1>8, <1>9, <1>10, <1>11, QuietStep

LEMMA DeleteStep ==
    ASSUME IInv, NEW r \in Requests, DeleteUser(r)
    PROVE  IInv'
<1>1. PICK u \in Uids :
        /\ Exists(u) /\ users[u].role # "OWNER"
        /\ Begin(r, [Handler("delete_user", u, Deleted)
                     EXCEPT !.step = "flush", !.dirty = Columns])
        /\ UNCHANGED issued
    BY DEF DeleteUser
<1> DEFINE h == [Handler("delete_user", u, Deleted) EXCEPT !.step = "flush", !.dirty = Columns]
<1>2. Begin(r, h)
    BY <1>1
<1>3. /\ h \in Handling
      /\ h.step = "flush" /\ h.op = "delete_user" /\ h.user = u /\ h.want = Deleted
    BY IdleType DEF Handler, Idle, Handling, Ops
<1> HIDE DEF h
<1>4. u # Owner
    BY <1>1 DEF IInv, OneOwner
<1>5. Deleting(h)
    BY <1>1, <1>3, <1>4 DEF Deleting, Exists
<1>6. Legit(h)
    BY <1>3, <1>5 DEF Legit, UpdateOps
<1>7. \A s \in Requests \ {r} : Alone(h, request[s]) /\ Alone(request[s], h)
  <2> SUFFICES ASSUME NEW s \in Requests \ {r} PROVE Alone(h, request[s]) /\ Alone(request[s], h)
      OBVIOUS
  <2>1. Legit(request[s])
      BY DEF IInv, AllLegit
  <2> QED
      BY <1>1, <1>3, <2>1 DEF Alone, Legit, Registering, Exists
<1>8. /\ request' = [request EXCEPT ![r] = h] /\ users' = users /\ admitted' = admitted
      /\ issued' = issued /\ begun' = begun + 1 /\ begun < MaxRequests
    BY <1>1, <1>2 DEF Begin
<1>9. begun' \in 0..MaxRequests /\ issued' \subseteq Secrets
    BY <1>8, AccountsAssumption DEF IInv, TypeOK
<1> QED
    BY <1>3, <1>6, <1>7, <1>8, <1>9, QuietStep

-----------------------------------------------------------------------------
(* The statements that follow.                                             *)

\* A request goes on with the same user, operation and copy.
LEMMA GoOn ==
    ASSUME IInv, NEW r \in Requests, NEW h \in Handling,
           request[r].step # "idle",
           h.op = request[r].op, h.user = request[r].user
    PROVE  \A s \in Requests \ {r} : Alone(h, request[s]) /\ Alone(request[s], h)
BY DEF IInv, RegisterAlone, Alone

LEMMA CheckStep ==
    ASSUME IInv, NEW r \in Requests, Check(r)
    PROVE  IInv'
<1> DEFINE c == Head(request[r].checks)
<1> DEFINE rest == Tail(request[r].checks)
<1>1. CASE \E u \in Uids : Holds(users[u], c, request[r].want[c])
    BY <1>1, FinishStep DEF Check
<1>2. CASE ~\E u \in Uids : Holds(users[u], c, request[r].want[c])
  <2> DEFINE next == IF rest # <<>> THEN "check"
                     ELSE IF request[r].op = "register" THEN "flush" ELSE "reread"
  <2> DEFINE h == [request[r] EXCEPT !.checks = rest, !.step = next]
  <2>1. /\ request[r] \in Handling /\ request[r].checks \in Seq(UniqueColumns)
        /\ request[r].step = "check" /\ request[r].op \in Ops
      BY DEF IInv, TypeOK, Handling, Check
  <2>2. request' = [request EXCEPT ![r] = h]
      BY <1>2, <2>1 DEF Check, IInv, TypeOK
  <2>3. Legit(request[r])
      BY DEF IInv, AllLegit
  <2>4. rest \in Seq(UniqueColumns)
    <3>1. request[r].checks # <<>>
        BY <2>1, <2>3 DEF Legit
    <3> QED
        BY <2>1, <3>1
  <2>5. /\ next \in {"check", "flush", "reread"}
        /\ next = "check" => rest # <<>>
        /\ next = "reread" => request[r].op # "register"
        /\ next = "flush" => request[r].op = "register"
      OBVIOUS
  <2> HIDE DEF next, rest
  <2>6. /\ h \in Handling
        /\ h.step = next /\ h.checks = rest
        /\ h.op = request[r].op /\ h.user = request[r].user /\ h.want = request[r].want
        /\ h.dirty = request[r].dirty /\ h.overtaken = request[r].overtaken
      BY <2>1, <2>4, <2>5 DEF Handling
  <2> HIDE DEF h
  <2>7. Legit(h)
      BY <2>1, <2>3, <2>5, <2>6 DEF Legit, Registering, Deleting, Updating, UpdateOps
  <2>8. \A s \in Requests \ {r} : Alone(h, request[s]) /\ Alone(request[s], h)
      BY <2>1, <2>6, GoOn
  <2>9. h.step # "commit"
      BY <2>5, <2>6
  <2>10. /\ users' = users /\ issued' \subseteq Secrets /\ admitted' = admitted
         /\ begun' \in 0..MaxRequests
      BY DEF Check, IInv, TypeOK
  <2> QED
      BY <2>2, <2>6, <2>7, <2>8, <2>9, <2>10, QuietStep
<1> QED
    BY <1>1, <1>2

LEMMA RereadStep ==
    ASSUME IInv, NEW r \in Requests, Reread(r)
    PROVE  IInv'
<1> DEFINE u == request[r].user
<1>1. CASE ~Exists(u)
    BY <1>1, FinishStep DEF Reread
<1>2. CASE Exists(u)
  <2> DEFINE cols == Differing(users[u], request[r].want)
  <2> DEFINE next == IF cols = {} THEN "commit" ELSE "flush"
  <2> DEFINE h == [request[r] EXCEPT !.dirty = cols, !.step = next]
  <2>1. /\ request[r] \in Handling /\ request[r].step = "reread" /\ request[r].op \in Ops
      BY DEF IInv, TypeOK, Handling, Reread
  <2>2. request' = [request EXCEPT ![r] = h]
      BY <1>2, <2>1 DEF Reread, IInv, TypeOK
  <2>3. Legit(request[r])
      BY DEF IInv, AllLegit
  <2>4. cols \subseteq Columns
      BY DEF Differing
  <2>5. next \in {"commit", "flush"} /\ (next = "commit" => cols = {})
      OBVIOUS
  <2> HIDE DEF next, cols
  <2>6. /\ h \in Handling
        /\ h.step = next /\ h.dirty = cols
        /\ h.op = request[r].op /\ h.user = request[r].user /\ h.want = request[r].want
        /\ h.checks = request[r].checks /\ h.overtaken = request[r].overtaken
      BY <2>1, <2>4, <2>5 DEF Handling
  <2> HIDE DEF h
  <2>7. request[r].op \in UpdateOps
      BY <2>1, <2>3 DEF Legit, Registering, Deleting, UpdateOps
  <2>8. Updating(h)
      BY <2>1, <2>3, <2>6, <2>7 DEF Legit, Updating, cols
  <2>9. Legit(h)
      BY <2>5, <2>6, <2>7, <2>8 DEF Legit, UpdateOps
  <2>10. \A s \in Requests \ {r} : Alone(h, request[s]) /\ Alone(request[s], h)
      BY <2>1, <2>6, GoOn
  <2>11. ~(h.step = "commit" /\ h.dirty # {})
      BY <2>5, <2>6
  <2>12. /\ users' = users /\ issued' \subseteq Secrets /\ admitted' = admitted
         /\ begun' \in 0..MaxRequests
      BY DEF Reread, IInv, TypeOK
  <2> QED
      BY <2>2, <2>6, <2>9, <2>10, <2>11, <2>12, QuietStep
<1> QED
    BY <1>1, <1>2

\* The write of r: what it leaves is apart from every version of every other
\* account.
LEMMA FlushApart ==
    ASSUME IInv, NEW r \in Requests, request[r].step = "flush",
           Unlocked(r), ~Vanished(r), ~Clashes(r),
           request[r].want # Deleted,
           NEW v \in Uids \ {request[r].user}, NEW y \in Versions(v)
    PROVE  Apart(After(r), y)
<1> DEFINE h == request[r]
<1>1. h \in Handling /\ h.user \in Uids /\ h.op \in Ops /\ users[h.user] \in Row \cup {Absent, Deleted}
    BY DEF IInv, TypeOK, Handling
<1>2. Legit(h)
    BY DEF IInv, AllLegit
<1>3. h.op = "register" \/ h.op \in UpdateOps
    BY <1>1, <1>2 DEF Legit, Deleting, UpdateOps
<1>4. CASE y \in {Absent, Deleted}
    BY <1>4, GoneApart
<1>5. CASE y \notin {Absent, Deleted}
  <2>1. ASSUME NEW c \in UniqueColumns \cap h.dirty
        PROVE  ~Holds(y, c, h.want[c])
    <3>1. CASE y = users[v]
        BY <3>1, <2>1 DEF Clashes, Taken
    <3>2. CASE y # users[v]
      <4>1. PICK s \in Requests : Writing(s) /\ request[s].user = v /\ y = After(s)
          BY <3>2 DEF Versions
      <4>2. s # r
          BY <4>1 DEF Writing
      <4> QED
          BY <4>1, <4>2, <2>1 DEF Unlocked
    <3> QED
        BY <3>1, <3>2
  <2>2. CASE h.op = "register"
    <3>1. After(r) = h.want /\ h.want \in Row /\ h.dirty = Columns
        BY <1>2, <2>2 DEF Legit, Registering, After, Exists
    <3>2. UniqueColumns \cap h.dirty = UniqueColumns
        BY <3>1 DEF UniqueColumns, Columns
    <3> QED
        BY <3>1, <3>2, <2>1, <1>5, NewApart
  <2>3. CASE h.op \in UpdateOps
    <3>1. Exists(h.user) /\ users[h.user] \in Row
        BY <1>1, <2>3 DEF Vanished, UpdateOps, Exists
    <3>2. h.want \in Row /\ After(r) = Merge(users[h.user], h.want, h.dirty)
        BY <1>2, <2>3, <3>1 DEF Legit, Updating, After
    <3>3. users[h.user] \in Versions(h.user)
        BY DEF Versions
    <3>4. Apart(users[h.user], y)
        BY <1>1, <3>3 DEF IInv, NamesStayUnique
    <3> QED
        BY <3>1, <3>2, <3>4, <2>1, <1>5, MergeApart
  <2> QED
      BY <1>3, <2>2, <2>3
<1> QED
    BY <1>4, <1>5

LEMMA FlushStep ==
    ASSUME IInv, NEW r \in Requests, Flush(r)
    PROVE  IInv'
<1>1. CASE Vanished(r) \/ Clashes(r)
    BY <1>1, FinishStep DEF Flush
<1>2. CASE ~(Vanished(r) \/ Clashes(r))
  <2> DEFINE cols == IF request[r].op = "delete_user" /\ ~Exists(request[r].user)
                     THEN {} ELSE request[r].dirty
  <2> DEFINE h == [request[r] EXCEPT !.step = "commit", !.dirty = cols]
  <2>1. /\ request[r] \in Handling /\ request[r].step = "flush" /\ request[r].op \in Ops
        /\ request[r].user \in Uids /\ request[r].dirty \subseteq Columns
        /\ request \in [Requests -> Handling]
      BY DEF IInv, TypeOK, Handling, Flush
  <2>2. request' = [request EXCEPT ![r] = h]
      BY <1>2, <2>1 DEF Flush
  <2>3. Legit(request[r])
      BY DEF IInv, AllLegit
  <2>4. cols \subseteq Columns /\ (cols # request[r].dirty => cols = {} /\ request[r].op = "delete_user")
        /\ (request[r].op = "delete_user" /\ cols # {} => Exists(request[r].user))
      BY <2>1
  <2> HIDE DEF cols
  <2>5. /\ h \in Handling
        /\ h.step = "commit" /\ h.dirty = cols
        /\ h.op = request[r].op /\ h.user = request[r].user /\ h.want = request[r].want
        /\ h.checks = request[r].checks /\ h.overtaken = request[r].overtaken
      BY <2>1, <2>4 DEF Handling
  <2> HIDE DEF h
  <2>6. /\ users' = users /\ issued' \subseteq Secrets /\ admitted' = admitted
        /\ begun' \in 0..MaxRequests
      BY DEF Flush, IInv, TypeOK
  <2>7. h.dirty # {} => users[h.user] # Deleted
    <3>1. CASE h.op = "register"
        BY <3>1, <2>1, <2>3, <2>5, AccountsAssumption DEF Legit, Registering
    <3>2. CASE h.op = "delete_user"
        BY <3>2, <2>4, <2>5 DEF Exists
    <3>3. CASE h.op \notin {"register", "delete_user"}
        BY <3>3, <1>2, <2>5 DEF Vanished, Exists
    <3> QED
        BY <3>1, <3>2, <3>3
  <2>8. Legit(h)
      BY <2>1, <2>3, <2>4, <2>5, <2>7 DEF Legit, Registering, Deleting, Updating, UpdateOps
  <2>9. \A s \in Requests \ {r} : Alone(h, request[s]) /\ Alone(request[s], h)
      BY <2>1, <2>5, GoOn
  <2>10. CASE h.dirty = {}
      BY <2>2, <2>5, <2>6, <2>8, <2>9, <2>10, QuietStep
  <2>11. CASE h.dirty # {}
    <3>1. request'[r] = h /\ \A s \in Requests \ {r} : request'[s] = request[s]
        BY <2>1, <2>2
    <3>2. cols = request[r].dirty
        BY <2>4, <2>5, <2>11
    <3>3. TypeOK' /\ OneOwner(users)'
        BY <2>1, <2>2, <2>5, <2>6 DEF IInv, TypeOK, OneOwner
    <3>4. AllLegit'
        BY <3>1, <2>6, <2>8 DEF IInv, AllLegit, Legit, Registering, Deleting, Updating
    <3>5. RegisterAlone'
        BY <3>1, <2>9 DEF IInv, RegisterAlone, Alone
    <3>6. /\ \A s \in Requests \ {r} : /\ Writing(s)' <=> Writing(s)
                                     /\ After(s)' = After(s)
          /\ After(r)' = After(r)
        BY <3>1, <3>2, <2>5, <2>6 DEF Writing, After, Exists
    <3>7. \A s \in Requests \ {r} : Writing(s) => request[s].user # request[r].user
        BY DEF Flush, Unlocked
    <3>8. OneWriter'
        BY <3>1, <3>6, <3>7, <2>5 DEF IInv, OneWriter
    <3>9. \A u \in Uids : \A x \in Versions(u)' :
              x \in Versions(u) \/ (u = request[r].user /\ x = After(r))
        BY <3>1, <3>6, <2>5, <2>6 DEF Versions
    <3>10. ASSUME NEW v \in Uids \ {request[r].user}, NEW y \in Versions(v)
           PROVE  Apart(After(r), y) /\ Apart(y, After(r))
      <4>1. CASE request[r].want = Deleted
          BY <4>1, GoneApart DEF After
      <4>2. CASE request[r].want # Deleted
          BY <4>2, <1>2, <2>1, <3>10, FlushApart, ApartSymmetric DEF Flush
      <4> QED
          BY <4>1, <4>2
    <3>11. NamesStayUnique'
      <4> SUFFICES ASSUME NEW u \in Uids, NEW v \in Uids, u # v,
                          NEW x \in Versions(u)', NEW y \in Versions(v)'
                   PROVE  Apart(x, y)
          BY DEF NamesStayUnique, Apart
      <4>1. CASE u = request[r].user
        <5>1. y \in Versions(v) /\ (x \in Versions(u) \/ x = After(r))
            BY <4>1, <3>9
        <5> QED
            BY <4>1, <5>1, <3>10 DEF IInv, NamesStayUnique
      <4>2. CASE v = request[r].user
        <5>1. x \in Versions(u) /\ (y \in Versions(v) \/ y = After(r))
            BY <4>2, <3>9
        <5> QED
            BY <4>2, <5>1, <3>10 DEF IInv, NamesStayUnique
      <4>3. CASE u # request[r].user /\ v # request[r].user
          BY <4>3, <3>9 DEF IInv, NamesStayUnique
      <4> QED
          BY <4>1, <4>2, <4>3
    <3> QED
        BY <3>3, <3>4, <3>5, <3>8, <3>11 DEF IInv
  <2> QED
      BY <2>10, <2>11
<1> QED
    BY <1>1, <1>2

\* The commit of a write: the new row is one r was known to leave, and every
\* other request on that row is overtaken.
LEMMA WriteCommitted ==
    ASSUME IInv, NEW r \in Requests, Commit(r), Writing(r)
    PROVE  IInv'
<1> DEFINE u == request[r].user
<1>1. /\ request \in [Requests -> Handling] /\ users \in [Uids -> Row \cup {Absent, Deleted}]
      /\ u \in Uids
    BY DEF IInv, TypeOK, Handling
<1>2. /\ users' = [users EXCEPT ![u] = After(r)]
      /\ request' = [s \in Requests |->
              IF s = r THEN Idle
              ELSE IF request[s].step # "idle" /\ request[s].user = u
              THEN [request[s] EXCEPT !.overtaken = TRUE]
              ELSE request[s]]
      /\ UNCHANGED <<issued, begun>>
    BY DEF Commit
<1>3. /\ users'[u] = After(r) /\ \A v \in Uids \ {u} : users'[v] = users[v]
      /\ users' \in [Uids -> Row \cup {Absent, Deleted}]
    BY <1>1, <1>2, AfterType
<1>4. request'[r] = Idle
    BY <1>2
<1>5. ASSUME NEW s \in Requests \ {r}
      PROVE  /\ request'[s] \in Handling
             /\ request'[s].step = request[s].step /\ request'[s].op = request[s].op
             /\ request'[s].user = request[s].user /\ request'[s].want = request[s].want
             /\ request'[s].checks = request[s].checks /\ request'[s].dirty = request[s].dirty
             /\ request[s].step # "idle" /\ request[s].user = u => request'[s].overtaken
             /\ request[s].user # u => request'[s] = request[s]
             /\ request[s].step = "idle" => request'[s] = request[s]
  <2>1. request[s] \in Handling
      BY <1>1
  <2>2. request'[s] = IF request[s].step # "idle" /\ request[s].user = u
                      THEN [request[s] EXCEPT !.overtaken = TRUE]
                      ELSE request[s]
      BY <1>2
  <2> QED
      BY <2>1, <2>2 DEF Handling
<1>6. TypeOK'
  <2>1. request' \in [Requests -> Handling]
      BY <1>2, <1>4, <1>5, IdleType
  <2>2. admitted' \subseteq Uids
      BY <1>1 DEF Commit, IInv, TypeOK
  <2> QED
      BY <1>2, <1>3, <2>1, <2>2 DEF IInv, TypeOK
<1>7. OneOwner(users)'
  <2>1. /\ users[Owner] \in Row /\ users[Owner].active
        /\ \A v \in Uids : users[v] \in Row => (users[v].role = "OWNER" <=> v = Owner)
      BY DEF IInv, OneOwner
  <2>2. users'[Owner] \in Row /\ users'[Owner].active
      BY <1>3, <2>1, AfterType, AccountsAssumption
  <2>3. ASSUME NEW v \in Uids, users'[v] \in Row
        PROVE  users'[v].role = "OWNER" <=> v = Owner
      BY <1>3, <2>1, <2>3, AfterType
  <2> QED
      BY <2>2, <2>3 DEF OneOwner
<1>8. AllLegit'
  <2> SUFFICES ASSUME NEW s \in Requests PROVE Legit(request[s])'
      BY DEF AllLegit
  <2>1. CASE s = r
      BY <1>4, <2>1 DEF Legit, Idle
  <2>2. CASE s # r /\ request[s].user # u
    <3>1. request'[s] = request[s] /\ request[s].user \in Uids
        BY <1>1, <1>5, <2>2 DEF Handling
    <3>2. users'[request[s].user] = users[request[s].user]
        BY <1>3, <3>1, <2>2
    <3>3. Legit(request[s])
        BY DEF IInv, AllLegit
    <3> QED
        BY <3>1, <3>2, <3>3 DEF Legit, Registering, Deleting, Updating
  <2>3. CASE s # r /\ request[s].user = u
    <3>1. CASE request[s].step = "idle"
        BY <3>1, <1>5, <2>3 DEF Legit
    <3>2. CASE request[s].step # "idle"
      <4>1. Legit(request[s]) /\ users'[u] # Absent
          BY <1>3, AfterType, AccountsAssumption DEF IInv, AllLegit
      <4>2. request[s].op # "register"
          BY <2>3, <3>2 DEF IInv, RegisterAlone, Alone, Writing
      <4>3. request'[s].overtaken
          BY <1>5, <2>3, <3>2
      <4>4. ~Writing(s)
          BY <2>3 DEF IInv, OneWriter
      <4>5. request'[s].user = u
          BY <1>5, <2>3
      <4> QED
          BY <4>1, <4>2, <4>3, <4>4, <4>5, <1>5, <2>3, <3>2
             DEF Legit, Deleting, Updating, Writing
    <3> QED
        BY <3>1, <3>2
  <2> QED
      BY <2>1, <2>2, <2>3
<1>9. RegisterAlone'
    BY <1>4, <1>5 DEF IInv, RegisterAlone, Alone, Idle
<1>10. ~Writing(r)' /\ \A s \in Requests \ {r} : Writing(s)' <=> Writing(s)
    BY <1>4, <1>5 DEF Writing, Idle
<1>11. OneWriter'
    BY <1>5, <1>10 DEF IInv, OneWriter
<1>12. \A s \in Requests \ {r} : Writing(s) => request[s].user # u /\ After(s)' = After(s)
  <2> SUFFICES ASSUME NEW s \in Requests \ {r}, Writing(s)
               PROVE  request[s].user # u /\ After(s)' = After(s)
      OBVIOUS
  <2>1. request[s].user # u /\ request[s].user \in Uids
      BY <1>1 DEF IInv, OneWriter, Handling
  <2>2. users'[request[s].user] = users[request[s].user] /\ request'[s] = request[s]
      BY <1>3, <1>5, <2>1
  <2> QED
      BY <2>1, <2>2 DEF After, Exists
<1>13. \A v \in Uids : \A x \in Versions(v)' : x \in Versions(v)
  <2> SUFFICES ASSUME NEW v \in Uids, NEW x \in Versions(v)' PROVE x \in Versions(v)
      OBVIOUS
  <2>1. CASE x = users'[v]
      BY <2>1, <1>3 DEF Versions
  <2>2. CASE x # users'[v]
    <3>1. PICK s \in Requests : Writing(s)' /\ request'[s].user = v /\ x = After(s)'
        BY <2>2 DEF Versions
    <3>2. s # r /\ Writing(s) /\ request[s].user = v /\ After(s) = x
        BY <3>1, <1>5, <1>10, <1>12
    <3> QED
        BY <3>2 DEF Versions
  <2> QED
      BY <2>1, <2>2
<1>14. NamesStayUnique'
    BY <1>13 DEF IInv, NamesStayUnique, Apart
<1> QED
    BY <1>6, <1>7, <1>8, <1>9, <1>11, <1>14 DEF IInv

LEMMA CommitStep ==
    ASSUME IInv, NEW r \in Requests, Commit(r)
    PROVE  IInv'
<1>1. CASE Writing(r)
    BY <1>1, WriteCommitted
<1>2. CASE ~Writing(r)
  <2>1. request' = [request EXCEPT ![r] = Idle]
      BY <1>2 DEF Commit, IInv, TypeOK
  <2>2. UNCHANGED <<users, issued, admitted, begun>>
      BY <1>2 DEF Commit
  <2> QED
      BY <2>1, <2>2, FinishStep DEF Finish
<1> QED
    BY <1>1, <1>2

-----------------------------------------------------------------------------
(* The invariant.                                                          *)

LEMMA NextInv ==
    ASSUME IInv, [Next]_vars
    PROVE  IInv'
<1>1. CASE UNCHANGED vars
    BY <1>1 DEF vars, IInv, TypeOK, AllLegit, Legit, Registering, Deleting, Updating,
       RegisterAlone, Alone, OneWriter, Writing, NamesStayUnique, Versions, After,
       Exists, Apart, OneOwner
<1>2. CASE Next
  <2>1. PICK r \in Requests : Request(r) \/ Proceed(r) \/ Abort(r)
      BY <1>2 DEF Next
  <2>2. CASE \E h : StartsCopy(r, h)
      BY <2>2, CopyStep
  <2>3. CASE Register(r)
      BY <2>3, RegisterStep
  <2>4. CASE DeleteUser(r)
      BY <2>4, DeleteStep
  <2>5. CASE Request(r) /\ ~Register(r) /\ ~DeleteUser(r)
    <3>1. \E h : StartsCopy(r, h)
        BY <2>5, ConfirmEmailStarts, ResetPasswordStarts, ChangePasswordStarts,
           ChangeUsernameStarts, ChangePhoneStarts, SetupTwoFactorStarts,
           ConfirmTwoFactorStarts, DisableTwoFactorStarts, ChangeRoleStarts,
           DeactivateStarts, ActivateStarts DEF Request
    <3> QED
        BY <3>1, <2>2
  <2>6. CASE Proceed(r)
      BY <2>6, CheckStep, RereadStep, FlushStep, CommitStep DEF Proceed
  <2>7. CASE Abort(r)
      BY <2>7, FinishStep DEF Abort
  <2> QED
      BY <2>1, <2>3, <2>4, <2>5, <2>6, <2>7
<1> QED
    BY <1>1, <1>2

\* What each request in flight holds: a copy that keeps the owner's role and
\* flag, and that is still good unless the request was overtaken; one writer
\* to a row; and no two versions of two rows that share a unique value.
THEOREM Invariant == Spec => []IInv
<1> QED
    BY InitInv, NextInv, PTL DEF Spec

\* Every row, copy and flag keeps its type.
THEOREM TypeCorrect == Spec => []TypeOK
<1>1. IInv => TypeOK
    BY DEF IInv
<1> QED
    BY <1>1, Invariant, PTL

\* No interleaving of any requests demotes, deactivates or deletes the owner,
\* or makes another one.
THEOREM OwnerIsSafe == Spec => []OwnerStands
<1>1. IInv => OwnerStands
    BY DEF IInv, OwnerStands
<1> QED
    BY <1>1, Invariant, PTL

\* No two accounts come to share a unique value, in committed rows or in
\* those about to be.
THEOREM NamesAreUnique == Spec => []NamesStayUnique
<1>1. IInv => NamesStayUnique
    BY DEF IInv
<1> QED
    BY <1>1, Invariant, PTL

\* A step that changes a row is the commit of a request that wrote it.
LEMMA OnlyCommits ==
    ASSUME Next, users' # users
    PROVE  \E r \in Requests : Commit(r) /\ Writing(r)
<1>1. PICK r \in Requests : Request(r) \/ Proceed(r) \/ Abort(r)
    BY DEF Next
<1>2. Request(r) => users' = users
    BY DEF Request, Register, ConfirmEmail, ResetPassword, ChangePassword, ChangeUsername,
       ChangePhone, SetupTwoFactor, ConfirmTwoFactor, DisableTwoFactor, ChangeRole,
       DeleteUser, Deactivate, Activate, Begin
<1>3. Check(r) \/ Reread(r) \/ Flush(r) \/ Abort(r) => users' = users
    BY DEF Check, Reread, Flush, Abort
<1>4. Commit(r) /\ ~Writing(r) => users' = users
    BY DEF Commit
<1> QED
    BY <1>1, <1>2, <1>3, <1>4 DEF Proceed

LEMMA CommittedRow ==
    ASSUME IInv, NEW r \in Requests, Commit(r), Writing(r)
    PROVE  /\ request[r].user \in Uids
           /\ users[request[r].user] \in Row \cup {Absent}
           /\ users' = [users EXCEPT ![request[r].user] = After(r)]
           /\ After(r) \in Row \cup {Deleted}
<1>1. Legit(request[r]) /\ request[r].step = "commit" /\ request[r].dirty # {}
    BY DEF IInv, AllLegit, Writing
<1>2. request[r].user \in Uids /\ users[request[r].user] \in Row \cup {Absent, Deleted}
    BY DEF IInv, TypeOK, Handling
<1> QED
    BY <1>1, <1>2, AfterType DEF Legit, Commit

\* An account that was deleted never comes back, whatever copies of its row
\* are still in flight.
THEOREM DeletedIsFinal == Spec => DeletedStaysDeleted
<1>1. IInv /\ [Next]_vars => [\A u \in Uids : users[u] = Deleted => users'[u] = Deleted]_vars
  <2> SUFFICES ASSUME IInv, Next, NEW u \in Uids, users[u] = Deleted
               PROVE  users'[u] = Deleted
      OBVIOUS
  <2>1. CASE users' = users
      BY <2>1
  <2>2. CASE users' # users
    <3>1. PICK r \in Requests : Commit(r) /\ Writing(r)
        BY <2>2, OnlyCommits
    <3>2. request[r].user # u
        BY <3>1, CommittedRow, AccountsAssumption
    <3> QED
        BY <3>1, <3>2, CommittedRow DEF IInv, TypeOK
  <2> QED
      BY <2>1, <2>2
<1> QED
    BY <1>1, Invariant, PTL DEF Spec, DeletedStaysDeleted

\* A row that is apart from every other account can be put in the book.
LEMMA PutInBook ==
    ASSUME IInv, NEW r \in Requests, Commit(r), Writing(r), After(r) \in Row
    PROVE  Book!Put(request[r].user, After(r))
<1> DEFINE u == request[r].user
<1>1. u \in Uids /\ users' = [users EXCEPT ![u] = After(r)]
    BY CommittedRow
<1>2. After(r) \in Versions(u)
    BY DEF Versions
<1>3. ASSUME NEW v \in Uids \ {u}, users[v] \notin {Absent, Deleted}
      PROVE  /\ users[v].username # After(r).username
             /\ users[v].email # After(r).email
             /\ users[v].phone # After(r).phone \/ After(r).phone = NoPhone
  <2>1. users[v] \in Row /\ users[v] \in Versions(v)
      BY <1>3 DEF IInv, TypeOK, Versions
  <2>2. Apart(After(r), users[v])
      BY <1>1, <1>2, <2>1 DEF IInv, NamesStayUnique
  <2> QED
      BY <2>1, <2>2 DEF Apart
<1>4. Book!Distinct(u, After(r))
    BY <1>3 DEF Book!Distinct, Book!Exists
<1> QED
    BY <1>1, <1>4 DEF Book!Put

LEMMA AllowedInBook ==
    ASSUME NEW u \in Uids, NEW new, users[u] \in Row, Allowed(users[u], new), Book!Put(u, new)
    PROVE  Book!ChangeProfile(u) \/ Book!TwoFactor(u) \/ Book!Standing(u)
BY DEF Allowed, Book!ChangeProfile, Book!TwoFactor, Book!Standing

\* A request whose row nobody else wrote between its read and its commit
\* changes what it is about and nothing else, under the conditions it
\* checked: it is one step of AccountBook.
THEOREM SerialIsByTheBook == Spec => SerialUnlessOvertaken
<1>1. IInv /\ [Next]_vars =>
        [\/ UNCHANGED users
         \/ Book!Next
         \/ \E r \in Requests : Commit(r) /\ request[r].overtaken]_vars
  <2> SUFFICES ASSUME IInv, Next, users' # users,
                      ~\E r \in Requests : Commit(r) /\ request[r].overtaken
               PROVE  Book!Next
      OBVIOUS
  <2>1. PICK r \in Requests : Commit(r) /\ Writing(r)
      BY OnlyCommits
  <2> DEFINE h == request[r]
  <2> DEFINE u == h.user
  <2>2. /\ u \in Uids /\ users[u] \in Row \cup {Absent} /\ users'[u] = After(r)
        /\ users' = [users EXCEPT ![u] = After(r)]
      BY <2>1, CommittedRow DEF IInv, TypeOK
  <2>3. Legit(h) /\ ~h.overtaken /\ h.step = "commit" /\ h.op \in Ops
      BY <2>1 DEF IInv, AllLegit, TypeOK, Handling, Writing
  <2>4. CASE h.op = "register"
    <3>1. Registering(h) /\ After(r) = h.want
        BY <2>3, <2>4 DEF Legit, Registering, After, Exists
    <3>2. Book!Put(u, After(r))
        BY <2>1, <3>1, PutInBook DEF Registering
    <3>3. Book!Register(u)
        BY <2>2, <3>1, <3>2, AccountsAssumption DEF Book!Register, Registering
    <3> QED
        BY <2>2, <3>3 DEF Book!Next
  <2>5. CASE h.op = "delete_user"
    <3>1. Deleting(h) /\ After(r) = Deleted
        BY <2>3, <2>5 DEF Legit, Deleting, After
    <3>2. users[u] \in Row /\ users[u].role # "OWNER"
        BY <2>2, <3>1 DEF Deleting, IInv, OneOwner
    <3>3. Book!Standing(u) /\ Book!Exists(u)
        BY <2>2, <3>1, <3>2, AccountsAssumption DEF Book!Standing, Book!Exists
    <3> QED
        BY <2>2, <3>3 DEF Book!Next
  <2>6. CASE h.op \in UpdateOps
    <3>1. /\ users[u] \in Row /\ h.want \in Row
          /\ Allowed(users[u], h.want) /\ h.dirty = Differing(users[u], h.want)
        BY <2>3, <2>6 DEF Legit, Updating
    <3>2. After(r) = h.want
      <4>1. Exists(u) /\ h.want # Deleted
          BY <3>1, AccountsAssumption DEF Exists
      <4> QED
          BY <3>1, <4>1, MergeDiffering DEF After
    <3>3. Book!Put(u, h.want)
        BY <2>1, <3>1, <3>2, PutInBook
    <3>4. Book!ChangeProfile(u) \/ Book!TwoFactor(u) \/ Book!Standing(u)
        BY <2>2, <3>1, <3>3, AllowedInBook
    <3>5. Book!Exists(u)
        BY <3>1, AccountsAssumption DEF Book!Exists
    <3> QED
        BY <2>2, <3>4, <3>5 DEF Book!Next
  <2> QED
      BY <2>3, <2>4, <2>5, <2>6 DEF Legit, UpdateOps
<1> QED
    BY <1>1, Invariant, PTL DEF Spec, SerialUnlessOvertaken
=============================================================================
