------------------------------ MODULE MCAdmins ------------------------------
(***************************************************************************)
(* Concurrent administration, with every operation or with those that take *)
(* no rights away but by deleting a user.                                  *)
(***************************************************************************)
EXTENDS Admins

VARIABLE mix   \* which of the two

Sparing == {"promote", "delete", "profile", "email"}

MCInit == AdminsInit /\ mix \in {"all", "deletions"}

MCNext ==
    /\ AdminsNext
    /\ mix = "deletions" => \A s \in Slots : job'[s].op \in Sparing \cup {"none"}
    /\ UNCHANGED mix

(* FairAdminsSpec; a request under way is never of another kind.           *)
MCSpec ==
    /\ MCInit /\ [][MCNext]_<<vars, mix>>
    /\ \A s \in Slots : /\ SF_vars(Statement(s) \/ Commit(s))
                        /\ WF_vars(DeadlockVictim(s))

(* Two administrators who delete each other at the same time never leave   *)
(* the system without one, though each has counted the other: a deletion   *)
(* writes its audit entry before it deletes, so the first to commit takes  *)
(* the row that the other's entry refers to (admin.py:43-49, 177-200).     *)
DeletionsSpareLastAdmin ==
    [][mix = "deletions" /\ ActiveAdmins # {} => ActiveAdmins' # {}]_people
=============================================================================
