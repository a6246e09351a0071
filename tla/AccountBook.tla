----------------------------- MODULE AccountBook -----------------------------
(***************************************************************************)
(* What the endpoints of auth-service promise about an account: each       *)
(* request changes the part of the row it is about, under the conditions   *)
(* it checks, and nothing else.  There are no transactions here;           *)
(* UserAccounts keeps this promise for every request that is not overtaken *)
(* by another one on the same account.                                     *)
(***************************************************************************)
CONSTANTS Uids, Usernames, Phones, Passwords, Secrets, Roles,
          NoPhone, NoSecret, Absent, Deleted

VARIABLE users     \* users[u]: a row, or Absent, or Deleted

Exists(u) == users[u] \notin {Absent, Deleted}

\* Every other account has another name, address and phone number.
Distinct(u, row) ==
    \A v \in Uids \ {u} :
        Exists(v) => /\ users[v].username # row.username
                     /\ users[v].email # row.email
                     /\ users[v].phone # row.phone \/ row.phone = NoPhone

Put(u, row) == /\ Distinct(u, row)
               /\ users' = [users EXCEPT ![u] = row]

Register(u) ==
    /\ users[u] = Absent /\ users'[u] \notin {Absent, Deleted}
    /\ Put(u, users'[u])
    /\ users'[u].role = "USER"
    /\ ~users'[u].active /\ ~users'[u].verified
    /\ ~users'[u].enabled /\ users'[u].secret = NoSecret

ChangeProfile(u) ==
    \/ \E n \in Usernames : Put(u, [users[u] EXCEPT !.username = n])
    \/ \E p \in Phones \cup {NoPhone} : Put(u, [users[u] EXCEPT !.phone = p])
    \/ \E p \in Passwords : Put(u, [users[u] EXCEPT !.password = p])

\* A new secret is stored, then confirmed; both leave together.
TwoFactor(u) ==
    \/ /\ ~users[u].enabled
       /\ \/ \E s \in Secrets : Put(u, [users[u] EXCEPT !.secret = s])
          \/ users[u].secret # NoSecret /\ Put(u, [users[u] EXCEPT !.enabled = TRUE])
    \/ users[u].enabled /\ Put(u, [users[u] EXCEPT !.enabled = FALSE, !.secret = NoSecret])

\* The e-mail confirmation opens the account; administrators close it, open
\* it, and the owner changes roles and deletes it.
Standing(u) ==
    \/ ~users[u].verified /\ Put(u, [users[u] EXCEPT !.verified = TRUE, !.active = TRUE])
    \/ Put(u, [users[u] EXCEPT !.active = TRUE])
    \/ /\ users[u].role # "OWNER"
       /\ \/ Put(u, [users[u] EXCEPT !.active = FALSE])
          \/ \E role \in Roles \ {"OWNER"} : Put(u, [users[u] EXCEPT !.role = role])
          \/ users' = [users EXCEPT ![u] = Deleted]

Next == \E u \in Uids :
    \/ Register(u)
    \/ Exists(u) /\ (ChangeProfile(u) \/ TwoFactor(u) \/ Standing(u))
=============================================================================
