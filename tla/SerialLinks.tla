----------------------------- MODULE SerialLinks -----------------------------
(***************************************************************************)
(* What the Telegram link promises when requests do not overlap: a user    *)
(* has one live code, a code links one Telegram account once, before it    *)
(* lapses, and an account belongs to one user.                             *)
(***************************************************************************)
EXTENDS FiniteSets, Integers

CONSTANTS
    Users,   \* ids of users rows
    Codes,   \* telegram_link_codes rows, each with its code
    Tgs,     \* Telegram ids
    None     \* no user, no code, SQL NULL

ASSUME NoneAssumption == None \notin Users \cup Codes \cup Tgs
ASSUME TablesAssumption == Users \cap (Codes \cup Tgs) = {} /\ Codes \cap Tgs = {}

VARIABLES
    users,   \* the users rows that exist
    active,  \* those with is_active
    link,    \* users.telegram_id; None for a row that does not exist
    owner,   \* user_id of a code; None when it has not been drawn yet
    codes,   \* the code rows that exist
    used,    \* the codes with used set
    lapsed,  \* the codes whose expires_at has passed
    uses     \* history: how many links a code has made

rows == <<users, active, link, owner, codes, used, lapsed, uses>>

TypeOK ==
    /\ users \subseteq Users
    /\ active \subseteq users
    /\ link \in [Users -> Tgs \cup {None}]
    /\ owner \in [Codes -> Users \cup {None}]
    /\ codes \subseteq Codes
    /\ used \subseteq Codes
    /\ lapsed \subseteq Codes
    /\ uses \in [Codes -> Nat]

(* No two users have one Telegram account: /telegram/token finds one user  *)
(* at most (models/user.py:17-19).                                         *)
OneUserPerAccount ==
    \A u, v \in Users : link[u] = link[v] /\ link[u] # None => u = v

(* Everybody has registered, some have linked an account before.           *)
Init ==
    /\ users = Users
    /\ active = Users
    /\ link \in [Users -> Tgs \cup {None}]
    /\ OneUserPerAccount
    /\ owner = [c \in Codes |-> None]
    /\ codes = {}
    /\ used = {}
    /\ lapsed = {}
    /\ uses = [c \in Codes |-> 0]

CodesOf(u) == {c \in codes : owner[c] = u}

Unused(u) == CodesOf(u) \ used

Valid(c) == c \in codes \ (used \cup lapsed)

Holders(tg) == {u \in Users : link[u] = tg}

(* POST /telegram/link-code                                                *)
Create(u, c) ==
    /\ u \in active
    /\ owner[c] = None
    /\ owner' = [owner EXCEPT ![c] = u]
    /\ codes' = (codes \ Unused(u)) \cup {c}
    /\ UNCHANGED <<users, active, link, used, lapsed, uses>>

(* POST /telegram/link                                                     *)
Link(c, tg) ==
    /\ Valid(c)
    /\ owner[c] \in active
    /\ link' = [u \in Users |-> IF u = owner[c] THEN tg
                                ELSE IF u \in Holders(tg) THEN None ELSE link[u]]
    /\ used' = used \cup {c}
    /\ uses' = [uses EXCEPT ![c] = @ + 1]
    /\ UNCHANGED <<users, active, owner, codes, lapsed>>

(* POST /telegram/unlink                                                   *)
Unlink(u) ==
    /\ u \in active
    /\ link' = [link EXCEPT ![u] = None]
    /\ UNCHANGED <<users, active, owner, codes, used, lapsed, uses>>

(* TELEGRAM_LINK_CODE_TTL_MINUTES have passed.                             *)
Lapse(c) ==
    /\ c \in codes
    /\ lapsed' = lapsed \cup {c}
    /\ UNCHANGED <<users, active, link, owner, codes, used, uses>>

(* Administration (see Admins): switch a user on or off, delete a user.    *)
Switch(u) ==
    /\ u \in users
    /\ active' = IF u \in active THEN active \ {u} ELSE active \cup {u}
    /\ UNCHANGED <<users, link, owner, codes, used, lapsed, uses>>

(* VARIANT of Erase: is_active outlives its row.                           *)
EraseHalf(u) ==
    /\ u \in users
    /\ users' = users \ {u}
    /\ link' = [link EXCEPT ![u] = None]
    /\ codes' = codes \ CodesOf(u)
    /\ UNCHANGED <<active, owner, used, lapsed, uses>>

Erase(u) ==
    /\ u \in users
    /\ users' = users \ {u}
    /\ active' = active \ {u}
    /\ link' = [link EXCEPT ![u] = None]
    /\ codes' = codes \ CodesOf(u)
    /\ UNCHANGED <<owner, used, lapsed, uses>>

Next ==
    \/ \E u \in Users, c \in Codes : Create(u, c)
    \/ \E c \in Codes, tg \in Tgs : Link(c, tg)
    \/ \E u \in Users : Unlink(u) \/ Switch(u) \/ Erase(u)
    \/ \E c \in Codes : Lapse(c)

Spec == Init /\ [][Next]_rows
=============================================================================
