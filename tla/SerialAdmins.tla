---------------------------- MODULE SerialAdmins ----------------------------
(***************************************************************************)
(* What administration promises when requests do not overlap: every        *)
(* handler of admin.py that writes to users is one step on the committed   *)
(* rows, and so are a registration and a start of the backend.             *)
(***************************************************************************)
EXTENDS FiniteSets, Integers

CONSTANTS
    Users,   \* ids of users rows
    First,   \* the user whose e-mail is FIRST_SUPERUSER_EMAIL
    Ops      \* the administration requests in use

(* PATCH /admin/users/{id} is "profile" when it changes the name alone and *)
(* "email" when it changes the address; "reset" asks for a password reset. *)
Requests == {"activate", "deactivate", "promote", "demote", "delete",
             "profile", "email", "reset"}

(* These can leave fewer active admins; the handlers guard them.           *)
Harmful == {"deactivate", "demote", "delete"}

ASSUME OpsAssumption == Ops \subseteq Requests

VARIABLES
    ids,     \* ids that have been handed out
    users,   \* the rows that exist
    active,  \* those with is_active
    admins   \* those with is_superuser

people == <<ids, users, active, admins>>

TypeOK ==
    /\ ids \subseteq Users
    /\ users \subseteq ids
    /\ active \subseteq users
    /\ admins \subseteq users

Init ==
    /\ ids = {}
    /\ users = {}
    /\ active = {}
    /\ admins = {}

(* get_current_superuser lets these in, count_active_admins counts them.   *)
ActiveAdmins == active \cap admins

(* POST /auth/register                                                     *)
Register(u) ==
    /\ u \notin ids
    /\ ids' = ids \cup {u}
    /\ users' = users \cup {u}
    /\ active' = active \cup {u}
    /\ UNCHANGED admins

(* The start of the backend promotes First.                                *)
Bootstrap ==
    /\ admins' = admins \cup ({First} \cap users)
    /\ UNCHANGED <<ids, users, active>>

(* What an operation makes of its target's row.                            *)
Apply(op, u) ==
    /\ active' = CASE op = "activate" -> active \cup {u}
                   [] op \in {"deactivate", "delete"} -> active \ {u}
                   [] OTHER -> active
    /\ admins' = CASE op = "promote" -> admins \cup {u}
                   [] op \in {"demote", "delete"} -> admins \ {u}
                   [] OTHER -> admins
    /\ users' = IF op = "delete" THEN users \ {u} ELSE users
    /\ UNCHANGED ids

(* By an active admin, on a row that is there; a harmful operation not on  *)
(* oneself, and not on the last active admin.                              *)
Allowed(actor, op, u) ==
    /\ actor \in ActiveAdmins
    /\ u \in users
    /\ op \in Harmful =>
          /\ u # actor
          /\ u \in ActiveAdmins => Cardinality(ActiveAdmins) > 1

Administer(actor, op, u) == Allowed(actor, op, u) /\ Apply(op, u)

Next ==
    \/ \E u \in Users : Register(u)
    \/ Bootstrap
    \/ \E actor \in Users, op \in Ops, u \in Users : Administer(actor, op, u)

Spec == Init /\ [][Next]_people

-----------------------------------------------------------------------------
(* Once there is an active admin there is always one                       *)
(* (docs/ADMIN_FEATURE.md, 2.3, invariant 2; admin.py:_guard_last_admin).  *)
AdminsRemain == [][ActiveAdmins # {} => ActiveAdmins' # {}]_people
=============================================================================
