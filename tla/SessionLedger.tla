---------------------------- MODULE SessionLedger ----------------------------
(***************************************************************************)
(* What the refresh-session table promises its callers: a session is born  *)
(* once, dies once, and changes only in whole operations.  There are no    *)
(* statements, no transactions, no clocks and no passwords here;           *)
(* RefreshSessions implements this module with many statements per         *)
(* operation, and shows it by a refinement.                                *)
(***************************************************************************)
EXTENDS Naturals, FiniteSets

CONSTANTS Users, Tokens, NoToken, NoUser

VARIABLES
    state,      \* state[t]: "unborn", "alive" or "dead"
    owner,      \* owner[t]: the user of a session that was born
    successor   \* successor[t]: the session that replaced t

ledgerVars == <<state, owner, successor>>

Init ==
    /\ state = [t \in Tokens |-> "unborn"]
    /\ owner = [t \in Tokens |-> NoUser]
    /\ successor = [t \in Tokens |-> NoToken]

Born(u) == {t \in Tokens : state[t] # "unborn" /\ owner[t] = u}

\* A sign-in: one new session, at the price of at most one old one.
Open(t, u, evicted) ==
    /\ state[t] = "unborn"
    /\ evicted \subseteq Born(u) /\ \A x, y \in evicted : x = y
    /\ state' = [x \in Tokens |-> IF x = t THEN "alive"
                                  ELSE IF x \in evicted THEN "dead" ELSE state[x]]
    /\ owner' = [owner EXCEPT ![t] = u]
    /\ UNCHANGED successor

\* A rotation: the new session is alive exactly when the old one is dead and
\* names it.
Rotate(old, new) ==
    /\ state[old] # "unborn" /\ state[new] = "unborn"
    /\ state' = [state EXCEPT ![old] = "dead", ![new] = "alive"]
    /\ owner' = [owner EXCEPT ![new] = owner[old]]
    /\ successor' = [successor EXCEPT ![old] = new]

\* A logout: sessions of one user end together.
Revoke(u, ended) ==
    /\ ended \subseteq Born(u)
    /\ state' = [t \in Tokens |-> IF t \in ended THEN "dead" ELSE state[t]]
    /\ UNCHANGED <<owner, successor>>

Next ==
    \/ \E u \in Users, t \in Tokens, evicted \in SUBSET Tokens : Open(t, u, evicted)
    \/ \E old, new \in Tokens : Rotate(old, new)
    \/ \E u \in Users, ended \in SUBSET Tokens : Revoke(u, ended)

Spec == Init /\ [][Next]_ledgerVars

\* One request at a time, only a session that is alive is replaced.
RotateAlive(old, new) == state[old] = "alive" /\ Rotate(old, new)
StrictNext ==
    \/ \E u \in Users, t \in Tokens, evicted \in SUBSET Tokens : Open(t, u, evicted)
    \/ \E old, new \in Tokens : RotateAlive(old, new)
    \/ \E u \in Users, ended \in SUBSET Tokens : Revoke(u, ended)
StrictSpec == Init /\ [][StrictNext]_ledgerVars
=============================================================================
