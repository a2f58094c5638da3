---------------------------- MODULE SerialResets ----------------------------
(***************************************************************************)
(* What the password reset promises when requests do not overlap: a        *)
(* request for a link replaces the user's earlier links, and a link sets a *)
(* password once, before it lapses, for a user who is active.              *)
(***************************************************************************)
EXTENDS FiniteSets, Integers

CONSTANTS
    Users,   \* ids of users rows
    Tokens,  \* password_reset_tokens rows, each with its secret
    None     \* no user, no token

ASSUME NoneAssumption == None \notin Users /\ None \notin Tokens

VARIABLES
    users,   \* the users rows that exist
    active,  \* those with is_active
    owner,   \* user_id of a token; None when there is no such token yet
    used,    \* the tokens with used_at set
    lapsed,  \* the tokens whose expires_at has passed
    uses     \* history: how many passwords a token has set

rows == <<users, active, owner, used, lapsed, uses>>

TypeOK ==
    /\ users \subseteq Users
    /\ active \subseteq users
    /\ owner \in [Tokens -> Users \cup {None}]
    /\ used \subseteq Tokens
    /\ lapsed \subseteq Tokens
    /\ uses \in [Tokens -> Nat]

(* Everybody has registered, nobody has asked for a link.                  *)
Init ==
    /\ users = Users
    /\ active = Users
    /\ owner = [t \in Tokens |-> None]
    /\ used = {}
    /\ lapsed = {}
    /\ uses = [t \in Tokens |-> 0]

(* A user's tokens are deleted with the user, whose id is not used again:  *)
(* the row of t exists when its owner does.                                *)
Unused(u) == {t \in Tokens : owner[t] = u /\ u \in users} \ used

Valid(t) == owner[t] \in users /\ t \notin used \cup lapsed

(* By the user, who must be active, or by an administrator.                *)
Request(u, t) ==
    /\ u \in users
    /\ owner[t] = None
    /\ owner' = [owner EXCEPT ![t] = u]
    /\ used' = used \cup Unused(u)
    /\ UNCHANGED <<users, active, lapsed, uses>>

Confirm(t) ==
    /\ Valid(t)
    /\ owner[t] \in active
    /\ used' = used \cup {t}
    /\ uses' = [uses EXCEPT ![t] = @ + 1]
    /\ UNCHANGED <<users, active, owner, lapsed>>

(* PASSWORD_RESET_TTL_MINUTES have passed.                                 *)
Lapse(t) ==
    /\ owner[t] # None
    /\ t \notin lapsed
    /\ lapsed' = lapsed \cup {t}
    /\ UNCHANGED <<users, active, owner, used, uses>>

(* Administration (see Admins): switch a user on or off, delete a user.    *)
Switch(u) ==
    /\ u \in users
    /\ active' = IF u \in active THEN active \ {u} ELSE active \cup {u}
    /\ UNCHANGED <<users, owner, used, lapsed, uses>>

(* VARIANT of Erase: is_active outlives its row.                           *)
EraseHalf(u) ==
    /\ u \in users
    /\ users' = users \ {u}
    /\ UNCHANGED <<active, owner, used, lapsed, uses>>

Erase(u) ==
    /\ u \in users
    /\ users' = users \ {u}
    /\ active' = active \ {u}
    /\ UNCHANGED <<owner, used, lapsed, uses>>

Next ==
    \/ \E u \in Users, t \in Tokens : Request(u, t)
    \/ \E t \in Tokens : Confirm(t) \/ Lapse(t)
    \/ \E u \in Users : Switch(u) \/ Erase(u)

Spec == Init /\ [][Next]_rows

-----------------------------------------------------------------------------
(* A token sets at most one password: the model calls it one-time          *)
(* (models/password_reset.py:10), get_valid and mark_used see to it.       *)
OneUse == \A t \in Tokens : uses[t] <= 1

(* A user has at most one token that has not been used: create invalidates *)
(* the earlier ones (crud/password_reset.py:24-33).                        *)
OneLink == \A u \in Users : \A t1, t2 \in Unused(u) : t1 = t2
=============================================================================
