---------------------------- MODULE UserAccounts ----------------------------
(***************************************************************************)
(* The users table of auth-service under the requests that write it:       *)
(* app/profile/service.py, app/admin/service.py, and register,             *)
(* confirm_email and reset_password of app/auth/service.py.                *)
(*                                                                         *)
(* Every handler reads a row, checks it, changes its own copy and calls    *)
(* users.update (external/database/repositories.py), which reads the row   *)
(* again, sets every column to the copy's value and flushes: the ORM       *)
(* writes the columns that differ from the row it has just read.  Other    *)
(* requests run between any two statements (READ COMMITTED, no SELECT FOR  *)
(* UPDATE), so a copy may be stale, and a stale column is written back.    *)
(* A write locks the row to the end of the transaction; a unique value     *)
(* that another transaction holds or gives up makes the writer wait.       *)
(*                                                                         *)
(* A request that a check refuses changes nothing and is a stutter.        *)
(***************************************************************************)
EXTENDS Naturals, Sequences

CONSTANTS
    Uids, Owner,              \* the owner's row is made by hand, outside the API
    Usernames, Phones, Emails,
    Passwords,                \* password_hash, by the password it is a hash of
    Secrets,                  \* TOTP secrets
    Roles,
    Requests,                 \* requests in flight at one time
    MaxRequests,              \* bound on the requests that are begun
    InitialTables,            \* the tables a run may start from
    NoPhone, NoSecret,        \* NULL values
    Absent, Deleted           \* no row yet, and no longer

VARIABLES
    users,     \* the committed table
    request,   \* the handlers in flight
    issued,    \* the TOTP secrets generated so far
    admitted,  \* users who hold or have held an access token
    begun      \* number of requests begun

vars == <<users, request, issued, admitted, begun>>

Columns == {"username", "phone", "email", "password", "role", "active",
            "verified", "enabled", "secret"}
UniqueColumns == {"username", "phone", "email"}

Row == [username : Usernames,
        phone    : Phones \cup {NoPhone},
        email    : Emails,
        password : Passwords,
        role     : Roles,
        active   : BOOLEAN,            \* is_active
        verified : BOOLEAN,            \* is_email_verified
        enabled  : BOOLEAN,            \* two_factor_enabled
        secret   : Secrets \cup {NoSecret}]

Ops == {"none", "register", "confirm_email", "reset_password",
        "change_password", "change_username", "change_phone",
        "setup_2fa", "confirm_2fa", "disable_2fa",
        "change_role", "delete_user", "deactivate_user", "activate_user"}

Handling == [step      : {"idle", "check", "reread", "flush", "commit"},
            op        : Ops,
            user      : Uids,
            want      : Row \cup {Absent, Deleted},  \* the handler's copy
            checks    : Seq(UniqueColumns),          \* exists_by_* still to ask
            dirty     : SUBSET Columns,              \* what the flush writes
            overtaken : BOOLEAN]  \* history: another write of the row since the read

Idle == [step |-> "idle", op |-> "none", user |-> Owner, want |-> Absent,
         checks |-> <<>>, dirty |-> {}, overtaken |-> FALSE]

TypeOK ==
    /\ users \in [Uids -> Row \cup {Absent, Deleted}]
    /\ request \in [Requests -> Handling]
    /\ issued \subseteq Secrets
    /\ admitted \subseteq Uids
    /\ begun \in 0..MaxRequests

Exists(u) == users[u] \notin {Absent, Deleted}

\* Two accounts differ in every unique column; NULL is equal to nothing.
Apart(x, y) ==
    x \in Row /\ y \in Row =>
        /\ x.username # y.username /\ x.email # y.email
        /\ x.phone # y.phone \/ x.phone = NoPhone

Unique(table) == \A u, v \in Uids : u # v => Apart(table[u], table[v])

OneOwner(table) ==
    /\ table[Owner] \in Row /\ table[Owner].active
    /\ \A u \in Uids : table[u] \in Row => (table[u].role = "OWNER" <=> u = Owner)

\* The rows of a quiet system: a secret takes a sign-in, and a sign-in takes
\* a verified address.
Sound(row) == /\ row.secret # NoSecret => row.verified
              /\ row.enabled => row.secret # NoSecret

ASSUME AccountsAssumption ==
    /\ Owner \in Uids
    /\ {"USER", "OWNER"} \subseteq Roles
    /\ NoPhone \notin Phones \cup Usernames \cup Emails /\ NoSecret \notin Secrets
    /\ Absent \notin Row /\ Deleted \notin Row /\ Absent # Deleted
    /\ MaxRequests \in Nat
    /\ \A table \in InitialTables :
           /\ table \in [Uids -> Row \cup {Absent}]
           /\ Unique(table) /\ OneOwner(table)
           /\ \A u \in Uids : table[u] \in Row => Sound(table[u])

Init ==
    /\ users \in InitialTables
    /\ request = [r \in Requests |-> Idle]
    /\ issued = {s \in Secrets : \E u \in Uids : users[u] \in Row /\ users[u].secret = s}
    /\ admitted = {u \in Uids : users[u] \in Row /\ users[u].verified}
    /\ begun = 0

-----------------------------------------------------------------------------
(* The transactions.                                                       *)

\* r has written the row and holds its lock.
Writing(r) == request[r].step = "commit" /\ request[r].dirty # {}

Merge(row, new, cols) ==
    LET Latest(c) == IF c \in cols THEN new[c] ELSE row[c]
    IN  [username |-> Latest("username"), phone    |-> Latest("phone"),
         email    |-> Latest("email"),    password |-> Latest("password"),
         role     |-> Latest("role"),     active   |-> Latest("active"),
         verified |-> Latest("verified"), enabled  |-> Latest("enabled"),
         secret   |-> Latest("secret")]

\* The row as r leaves it.
After(r) == IF request[r].want = Deleted \/ ~Exists(request[r].user)
            THEN request[r].want
            ELSE Merge(users[request[r].user], request[r].want, request[r].dirty)

\* What a row is, and what it is about to become.
Versions(u) ==
    {users[u]} \cup {After(r) : r \in {s \in Requests : Writing(s) /\ request[s].user = u}}

\* Mutant: update is an upsert.
VanishedNever(r) == FALSE

\* The row r is about to update is gone.
Vanished(r) == /\ request[r].op \notin {"register", "delete_user"}
               /\ ~Exists(request[r].user)

\* A value of a unique column; NULL is never equal to another.
Holds(row, c, v) == row \notin {Absent, Deleted} /\ v # NoPhone /\ row[c] = v

\* The rows and index entries r needs are in no other transaction's hands.
\* An INSERT or UPDATE waits for a transaction that holds a row with the same
\* unique value, in its committed or in its new version.  While it waits it
\* may itself hold its row; two that wait for each other are aborted.
Unlocked(r) ==
    \A s \in Requests \ {r} : Writing(s) =>
        /\ request[s].user # request[r].user
        /\ \A c \in UniqueColumns \cap request[r].dirty :
               request[r].want # Deleted =>
                   /\ ~Holds(users[request[s].user], c, request[r].want[c])
                   /\ ~Holds(After(s), c, request[r].want[c])

\* The unique constraint of one of the columns fails: IntegrityError.
Taken(u, c, v) == \E w \in Uids \ {u} : Holds(users[w], c, v)
\* Mutant: phone_number is not declared unique.
ClashesUnlessPhone(r) ==
    /\ request[r].want # Deleted
    /\ \E c \in {"username", "email"} \cap request[r].dirty :
           \E w \in Uids \ {request[r].user} : Holds(users[w], c, request[r].want[c])

Clashes(r) == /\ request[r].want # Deleted
              /\ \E c \in UniqueColumns \cap request[r].dirty :
                     Taken(request[r].user, c, request[r].want[c])

Finish(r) == request' = [request EXCEPT ![r] = Idle]

\* Handler r has read the row of u, passed its checks and changed its copy to
\* want; it goes on with users.update.
Handler(op, u, want) ==
    [Idle EXCEPT !.step = "reread", !.op = op, !.user = u, !.want = want]

Begin(r, handler) ==
    /\ request[r].step = "idle"
    /\ begun < MaxRequests
    /\ begun' = begun + 1
    /\ request' = [request EXCEPT ![r] = handler]
    /\ UNCHANGED <<users, admitted>>

-----------------------------------------------------------------------------
(* The requests.  A profile request needs an access token, which needs a   *)
(* verified and active account when it was issued, and outlives both.      *)

Register(r) ==
    \E u \in Uids, n \in Usernames, e \in Emails, p \in Phones \cup {NoPhone}, w \in Passwords :
        /\ users[u] = Absent
        /\ \A s \in Requests : request[s].step # "idle" => request[s].user # u
        /\ Begin(r, [Handler("register", u,
                       [username |-> n, phone |-> p, email |-> e, password |-> w,
                        role |-> "USER", active |-> FALSE, verified |-> FALSE,
                        enabled |-> FALSE, secret |-> NoSecret])
                     EXCEPT !.step = "check",
                            !.checks = IF p = NoPhone THEN <<"email", "username">>
                                       ELSE <<"email", "username", "phone">>,
                            !.dirty = Columns])
        /\ UNCHANGED issued

ConfirmEmail(r) ==
    \E u \in Uids :
        /\ Exists(u) /\ ~users[u].verified
        /\ Begin(r, Handler("confirm_email", u,
                            [users[u] EXCEPT !.verified = TRUE, !.active = TRUE]))
        /\ UNCHANGED issued

ResetPassword(r) ==
    \E u \in Uids, p \in Passwords :
        /\ Exists(u)
        /\ Begin(r, Handler("reset_password", u, [users[u] EXCEPT !.password = p]))
        /\ UNCHANGED issued

ChangePassword(r) ==
    \E u \in admitted, p \in Passwords :
        /\ Exists(u) /\ p # users[u].password
        /\ Begin(r, Handler("change_password", u, [users[u] EXCEPT !.password = p]))
        /\ UNCHANGED issued

ChangeUsername(r) ==
    \E u \in admitted, n \in Usernames :
        /\ Exists(u) /\ n # users[u].username
        /\ Begin(r, [Handler("change_username", u, [users[u] EXCEPT !.username = n])
                     EXCEPT !.step = "check", !.checks = <<"username">>])
        /\ UNCHANGED issued

ChangePhone(r) ==
    \E u \in admitted, p \in Phones \cup {NoPhone} :
        /\ Exists(u) /\ p # users[u].phone
        /\ LET h == Handler("change_phone", u, [users[u] EXCEPT !.phone = p])
           IN  Begin(r, IF p = NoPhone THEN h
                        ELSE [h EXCEPT !.step = "check", !.checks = <<"phone">>])
        /\ UNCHANGED issued

SetupTwoFactor(r) ==
    \E u \in admitted, s \in Secrets \ issued :
        /\ Exists(u) /\ ~users[u].enabled
        /\ Begin(r, Handler("setup_2fa", u, [users[u] EXCEPT !.secret = s]))
        /\ issued' = issued \cup {s}

\* The user sends a code made from the secret in the row.
ConfirmTwoFactor(r) ==
    \E u \in admitted :
        /\ Exists(u) /\ ~users[u].enabled /\ users[u].secret # NoSecret
        /\ Begin(r, Handler("confirm_2fa", u, [users[u] EXCEPT !.enabled = TRUE]))
        /\ UNCHANGED issued

\* Mutant: the secret is kept.
DisableTwoFactorKeeps(r) ==
    \E u \in admitted :
        /\ Exists(u) /\ users[u].enabled /\ users[u].secret # NoSecret
        /\ Begin(r, Handler("disable_2fa", u, [users[u] EXCEPT !.enabled = FALSE]))
        /\ UNCHANGED issued

\* The user sends the password and a code made from the secret in the row.
DisableTwoFactor(r) ==
    \E u \in admitted :
        /\ Exists(u) /\ users[u].enabled /\ users[u].secret # NoSecret
        /\ Begin(r, Handler("disable_2fa", u,
                            [users[u] EXCEPT !.enabled = FALSE, !.secret = NoSecret]))
        /\ UNCHANGED issued

\* Only the owner has a token for the next two, so the test for one's own
\* account never adds to the test for the owner's.
ChangeRole(r) ==
    \E u \in Uids, role \in Roles \ {"OWNER"} :
        /\ Exists(u) /\ users[u].role # "OWNER"
        /\ Begin(r, Handler("change_role", u, [users[u] EXCEPT !.role = role]))
        /\ UNCHANGED issued

DeleteUser(r) ==
    \E u \in Uids :
        /\ Exists(u) /\ users[u].role # "OWNER"
        /\ Begin(r, [Handler("delete_user", u, Deleted)
                     EXCEPT !.step = "flush", !.dirty = Columns])
        /\ UNCHANGED issued

\* Mutant: the owner is not protected.
DeactivateAnyone(r) ==
    \E u \in Uids :
        /\ Exists(u)
        /\ Begin(r, Handler("deactivate_user", u, [users[u] EXCEPT !.active = FALSE]))
        /\ UNCHANGED issued

Deactivate(r) ==
    \E u \in Uids :
        /\ Exists(u) /\ users[u].role # "OWNER"
        /\ Begin(r, Handler("deactivate_user", u, [users[u] EXCEPT !.active = FALSE]))
        /\ UNCHANGED issued

Activate(r) ==
    \E u \in Uids :
        /\ Exists(u)
        /\ Begin(r, Handler("activate_user", u, [users[u] EXCEPT !.active = TRUE]))
        /\ UNCHANGED issued

-----------------------------------------------------------------------------
(* The statements that follow.                                             *)

\* exists_by_email, exists_by_username, exists_by_phone, in turn.
Check(r) ==
    /\ request[r].step = "check"
    /\ LET c == Head(request[r].checks)
           rest == Tail(request[r].checks)
       IN  IF \E u \in Uids : Holds(users[u], c, request[r].want[c])
           THEN Finish(r)
           ELSE request' = [request EXCEPT ![r] =
                    [@ EXCEPT !.checks = rest,
                              !.step = IF rest # <<>> THEN "check"
                                       ELSE IF request[r].op = "register" THEN "flush"
                                       ELSE "reread"]]
    /\ UNCHANGED <<users, issued, admitted, begun>>

\* users.update reads the row again and compares: what differs is dirty.
\* With nothing dirty there is no UPDATE to wait for.
Differing(row, new) == {c \in Columns : row[c] # new[c]}

Reread(r) ==
    /\ request[r].step = "reread"
    /\ IF ~Exists(request[r].user)
       THEN Finish(r)
       ELSE LET cols == Differing(users[request[r].user], request[r].want)
            IN  request' = [request EXCEPT ![r] =
                    [@ EXCEPT !.dirty = cols,
                              !.step = IF cols = {} THEN "commit" ELSE "flush"]]
    /\ UNCHANGED <<users, issued, admitted, begun>>

\* The INSERT, UPDATE or DELETE.  An UPDATE that finds no row and a unique
\* value that is taken end the request; a DELETE that finds none does not.
Flush(r) ==
    /\ request[r].step = "flush"
    /\ Unlocked(r)
    /\ IF Vanished(r) \/ Clashes(r)
       THEN Finish(r)
       ELSE request' = [request EXCEPT ![r] =
                [@ EXCEPT !.step = "commit",
                          !.dirty = IF request[r].op = "delete_user"
                                       /\ ~Exists(request[r].user)
                                    THEN {} ELSE request[r].dirty]]
    /\ UNCHANGED <<users, issued, admitted, begun>>

\* The audit entry goes with it.
Commit(r) ==
    /\ request[r].step = "commit"
    /\ LET u == request[r].user
       IN  /\ users' = IF Writing(r) THEN [users EXCEPT ![u] = After(r)] ELSE users
           /\ admitted' = IF Writing(r) /\ After(r) # Deleted
                             /\ After(r).active /\ After(r).verified
                          THEN admitted \cup {u} ELSE admitted
           /\ request' = [s \in Requests |->
                  IF s = r THEN Idle
                  ELSE IF Writing(r) /\ request[s].step # "idle" /\ request[s].user = u
                  THEN [request[s] EXCEPT !.overtaken = TRUE]
                  ELSE request[s]]
    /\ UNCHANGED <<issued, begun>>

\* A lost connection, a deadlock the database resolves, a process that ends:
\* the transaction is rolled back.
Abort(r) ==
    /\ request[r].step # "idle"
    /\ Finish(r)
    /\ UNCHANGED <<users, issued, admitted, begun>>

Request(r) ==
    \/ Register(r) \/ ConfirmEmail(r) \/ ResetPassword(r)
    \/ ChangePassword(r) \/ ChangeUsername(r) \/ ChangePhone(r)
    \/ SetupTwoFactor(r) \/ ConfirmTwoFactor(r) \/ DisableTwoFactor(r)
    \/ ChangeRole(r) \/ DeleteUser(r) \/ Deactivate(r) \/ Activate(r)

Proceed(r) == Check(r) \/ Reread(r) \/ Flush(r) \/ Commit(r)

Next == \E r \in Requests : Request(r) \/ Proceed(r) \/ Abort(r)

Spec == Init /\ [][Next]_vars

-----------------------------------------------------------------------------
(* Properties.                                                             *)

\* However stale the copies that are written back, the owner stays: the row
\* exists, is active and keeps its role, and nobody else ever gets that role.
\* (change_role, delete_user and deactivate_user check a copy, and every
\* other handler writes the role and the flag back from one.)
OwnerStands == OneOwner(users)

\* No two accounts share a name, an address or a number, although the
\* exists_by_* checks are made long before the write, and neither can two
\* transactions that are about to commit.
NamesStayUnique ==
    \A u, v \in Uids : u # v =>
        \A x \in Versions(u), y \in Versions(v) : Apart(x, y)

\* A stale copy never brings a deleted account back, and a uid is not reused:
\* users.update of a row that is gone fails, at its read or at its flush.
DeletedStaysDeleted ==
    [][\A u \in Uids : users[u] = Deleted => users'[u] = Deleted]_vars

\* A request writes back what others changed only if another write of the
\* same row was committed between its read and its commit.  Every other
\* request is one step of AccountBook: it changes what it is about, under
\* the conditions it checked, which still hold.
Book == INSTANCE AccountBook
SerialUnlessOvertaken ==
    [][\/ UNCHANGED users
       \/ Book!Next
       \/ \E r \in Requests : Commit(r) /\ request[r].overtaken]_vars
=============================================================================
