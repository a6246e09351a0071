--------------------------- MODULE MCUserAccounts ---------------------------
(* Instances of UserAccounts for TLC: the owner, an account in one of the   *)
(* states a quiet system can leave it in, and a uid that is still free.     *)
EXTENDS UserAccounts, TLC

CONSTANTS uo, ua, uf, no, nu, n1, eo, eu, ph, pw1, pw2, s1, s2

Person(name, mail, role) ==
    [username |-> name, phone |-> NoPhone, email |-> mail, password |-> pw1,
     role |-> role, active |-> TRUE, verified |-> TRUE, enabled |-> FALSE,
     secret |-> NoSecret]

OwnerRow == Person(no, eo, "OWNER")
UserRow == Person(nu, eu, "USER")

\* Just registered; verified; with a secret that is not confirmed; with the
\* second factor enabled.
UserRows == {[UserRow EXCEPT !.active = FALSE, !.verified = FALSE],
             UserRow,
             [UserRow EXCEPT !.secret = s1],
             [UserRow EXCEPT !.secret = s1, !.enabled = TRUE]}

Tables == {(uo :> OwnerRow) @@ (ua :> row) @@ (uf :> Absent) : row \in UserRows}

Perms == Permutations(Requests)
=============================================================================
