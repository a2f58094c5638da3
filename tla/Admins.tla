------------------------------- MODULE Admins -------------------------------
(***************************************************************************)
(* The administration endpoints as the database sees them: each request is *)
(* one database transaction, each SQL statement one step, and concurrent   *)
(* requests interleave at READ COMMITTED under row locks.                  *)
(*                                                                         *)
(* A request changes users in one statement and publishes the change when  *)
(* it commits.  The rows that go away with a deleted user (accounts,       *)
(* categories, budgets, tokens, codes) are not part of this module.        *)
(***************************************************************************)
EXTENDS SerialAdmins, RowLocks

CONSTANTS
    Slots,   \* the database sessions the pool can hand out
    None     \* no user

VARIABLES
    pc,      \* the statement a session's request executes next
    job,     \* the request, and what it has read of its target
    held     \* row locks

vars == <<people, pc, job, held>>

Labels == {"idle", "target", "guard", "write", "audit", "remove", "commit"}

(* sawActive, sawAdmin: the ORM's copy of the target's row.                *)
Jobs == [op : Requests \cup {"none"}, actor : Users \cup {None},
         target : Users \cup {None}, sawActive : BOOLEAN, sawAdmin : BOOLEAN]

NoJob == [op |-> "none", actor |-> None, target |-> None,
          sawActive |-> FALSE, sawAdmin |-> FALSE]

Locks == Users \X Modes

AdminsTypeOK ==
    /\ TypeOK
    /\ pc \in [Slots -> Labels]
    /\ job \in [Slots -> Jobs]
    /\ held \in [Slots -> SUBSET Locks]

AdminsInit ==
    /\ Init
    /\ pc = [s \in Slots |-> "idle"]
    /\ job = [s \in Slots |-> NoJob]
    /\ held = [s \in Slots |-> {}]

-----------------------------------------------------------------------------
(* A definition marked VARIANT is a plausible bug, as in Ledger.           *)

(* The unit of work issues an UPDATE only for an attribute that differs    *)
(* from its copy.                                                          *)
Changes(s) ==
    LET j == job[s]
    IN  CASE j.op = "activate"   -> ~j.sawActive
          [] j.op = "deactivate" -> j.sawActive
          [] j.op = "promote"    -> ~j.sawAdmin
          [] j.op = "demote"     -> j.sawAdmin
          [] j.op = "reset"      -> FALSE
          [] OTHER               -> TRUE

(* VARIANT of Referenced: audit_logs.actor_user_id without its foreign key.*)
ReferencesTarget(s) == {job[s].target}

(* The rows a new audit_logs or password_reset_tokens row refers to.       *)
Referenced(s) == {job[s].actor, job[s].target}

(* VARIANT of Needed: neither foreign keys nor a count of matched rows.    *)
NeedsNobody(s) == {}

(* The rows without which the next statement of s fails: an INSERT on a    *)
(* foreign key, an UPDATE or a refresh on finding nothing.                 *)
Needed(s) ==
    IF pc[s] = "audit" \/ (pc[s] = "write" /\ job[s].op = "reset")
    THEN Referenced(s)
    ELSE {job[s].target}

(* How it locks them: an UPDATE of the e-mail, a unique key, locks as a    *)
(* DELETE does.                                                            *)
Mode(s) ==
    IF pc[s] = "remove" THEN {"update"}
    ELSE IF pc[s] = "audit" \/ job[s].op = "reset" THEN {"key share"}
    ELSE IF ~Changes(s) THEN {}
    ELSE IF job[s].op = "email" THEN {"update"}
    ELSE {"no key update"}

Wanted(s) ==
    IF pc[s] \in {"write", "audit", "remove"}
    THEN (Needed(s) \cap users) \X Mode(s)
    ELSE {}

Wants == [s \in Slots |-> Wanted(s)]

Unblocked(s) == Blockers(held, Wants, s) = {}

Take(s) ==
    /\ Unblocked(s)
    /\ held' = [held EXCEPT ![s] = @ \cup Wanted(s)]

Goto(s, label) == pc' = [pc EXCEPT ![s] = label]

(* VARIANT of Release: the session goes back with its transaction open.    *)
ReleaseOpen(s) ==
    /\ Goto(s, "idle")
    /\ job' = [job EXCEPT ![s] = NoJob]
    /\ UNCHANGED held

(* The session goes back to the pool, its locks are freed.                 *)
Release(s) ==
    /\ Goto(s, "idle")
    /\ job' = [job EXCEPT ![s] = NoJob]
    /\ held' = [held EXCEPT ![s] = {}]

(* A handler raises: get_db rolls back.                                    *)
Fail(s) == Release(s) /\ UNCHANGED people

-----------------------------------------------------------------------------
SignUp(u) == Register(u) /\ UNCHANGED <<pc, job, held>>

(* get_current_superuser reads the caller's row.  Callers it turns away    *)
(* have no effect and do not appear.                                       *)
Authenticate(s, actor, op, target) ==
    /\ pc[s] = "idle"
    /\ actor \in ActiveAdmins
    /\ Goto(s, "target")
    /\ job' = [job EXCEPT ![s] = [NoJob EXCEPT !.op = op, !.actor = actor,
                                               !.target = target]]
    /\ UNCHANGED <<people, held>>

Barred(s) == job[s].op \in Harmful /\ job[s].target = job[s].actor

AfterGuard(s) == IF job[s].op = "delete" THEN "audit" ELSE "write"

(* _get_user_or_404.  The caller's own row is in the session already and   *)
(* keeps the attributes authentication read.                               *)
ReadTarget(s) ==
    LET j == job[s]
        now == [j EXCEPT !.sawActive = j.target = j.actor \/ j.target \in active,
                         !.sawAdmin = j.target = j.actor \/ j.target \in admins]
    IN  /\ pc[s] = "target"
        /\ j.target \in users
        /\ ~Barred(s)
        /\ job' = [job EXCEPT ![s] = now]
        /\ Goto(s, IF j.op \in Harmful /\ now.sawActive /\ now.sawAdmin
                   THEN "guard" ELSE AfterGuard(s))
        /\ UNCHANGED <<people, held>>

(* 404; 409 on oneself; 400 for an e-mail address that is taken.           *)
TargetRefused(s) ==
    /\ pc[s] = "target"
    /\ job[s].target \notin users \/ Barred(s) \/ job[s].op = "email"
    /\ Fail(s)

Spare == Cardinality(ActiveAdmins) > 1

(* _guard_last_admin counts the active admins.                             *)
Guard(s) ==
    /\ pc[s] = "guard"
    /\ Spare
    /\ Goto(s, AfterGuard(s))
    /\ UNCHANGED <<people, job, held>>

GuardRefused(s) ==
    /\ pc[s] = "guard"
    /\ ~Spare
    /\ Fail(s)

(* The UPDATE of the row and its refresh, or the INSERT of a reset token.  *)
Write(s) ==
    /\ pc[s] = "write"
    /\ Needed(s) \subseteq users
    /\ Take(s)
    /\ Goto(s, "audit")
    /\ UNCHANGED <<people, job>>

(* The INSERT of the audit entry; a deletion logs before it deletes.       *)
Audit(s) ==
    /\ pc[s] = "audit"
    /\ Needed(s) \subseteq users
    /\ Take(s)
    /\ Goto(s, IF job[s].op = "delete" THEN "remove" ELSE "commit")
    /\ UNCHANGED <<people, job>>

(* crud_user.delete: the audit entry has pinned the row, so it is there.   *)
Remove(s) ==
    /\ pc[s] = "remove"
    /\ Take(s)
    /\ Goto(s, "commit")
    /\ UNCHANGED <<people, job>>

(* A row a statement needs is gone: StaleDataError, a refresh of nothing,  *)
(* a foreign key that fails.  Or the new e-mail has been taken meanwhile.  *)
StatementFails(s) ==
    /\ \/ pc[s] \in {"write", "audit"} /\ ~(Needed(s) \subseteq users)
       \/ pc[s] = "write" /\ job[s].op = "email"
    /\ Unblocked(s)
    /\ Fail(s)

(* VARIANT of Effect: the UPDATE writes every attribute of the copy.       *)
EffectOfCopy(s) ==
    LET j == job[s]
        u == {j.target}
        on == j.op = "activate" \/ (j.op # "deactivate" /\ j.sawActive)
        up == j.op = "promote" \/ (j.op # "demote" /\ j.sawAdmin)
    IN  IF j.op = "delete" \/ ~Changes(s) THEN Apply(j.op, j.target)
        ELSE /\ active' = IF on THEN active \cup u ELSE active \ u
             /\ admins' = IF up THEN admins \cup u ELSE admins \ u
             /\ UNCHANGED <<ids, users>>

Effect(s) ==
    IF Changes(s) THEN Apply(job[s].op, job[s].target) ELSE UNCHANGED people

(* get_db commits when the handler has returned.                           *)
Commit(s) ==
    /\ pc[s] = "commit"
    /\ Effect(s)
    /\ Release(s)

DeadlockVictim(s) ==
    /\ Deadlocked(held, Wants, s)
    /\ Fail(s)

(* The backend stops, whatever it is doing, and starts again.              *)
Restart ==
    /\ Bootstrap
    /\ pc' = [s \in Slots |-> "idle"]
    /\ job' = [s \in Slots |-> NoJob]
    /\ held' = [s \in Slots |-> {}]

Statement(s) ==
    \/ ReadTarget(s) \/ TargetRefused(s)
    \/ Guard(s) \/ GuardRefused(s)
    \/ Write(s) \/ Audit(s) \/ Remove(s) \/ StatementFails(s)

AdminsNext ==
    \/ \E u \in Users : SignUp(u)
    \/ \E s \in Slots, actor \in Users, op \in Ops, target \in Users :
          Authenticate(s, actor, op, target)
    \/ \E s \in Slots : Statement(s) \/ Commit(s) \/ DeadlockVictim(s)
    \/ Restart

AdminsSpec == AdminsInit /\ [][AdminsNext]_vars

(* Row locks are granted in the order they are asked for; the deadlock     *)
(* timer fires (see Ledger).                                               *)
FairAdminsSpec ==
    /\ AdminsSpec
    /\ \A s \in Slots : /\ SF_vars(Statement(s) \/ Commit(s))
                        /\ WF_vars(DeadlockVictim(s))

-----------------------------------------------------------------------------
(* Why the promises hold: the inductive invariant.                         *)

Coherent(s) ==
    LET j == job[s]
    IN  /\ pc[s] = "idle" => j = NoJob /\ held[s] = {}
        /\ pc[s] # "idle" =>
              j.op \in Ops /\ j.actor \in Users /\ j.target \in Users
        /\ pc[s] \notin {"idle", "target"} /\ j.op \in Harmful => j.target # j.actor
        /\ pc[s] \in {"guard", "remove"} => j.op \in Harmful
        /\ pc[s] = "remove" => j.op = "delete"

(* Once it has written its audit entry, a request keeps the rows of its    *)
(* caller and its target.                                                  *)
Pinned(s) ==
    pc[s] \in {"remove", "commit"} =>
        \A u \in {job[s].actor, job[s].target} :
            u \in users /\ <<u, "key share">> \in held[s]

RemovalLocked(s) ==
    pc[s] = "commit" /\ job[s].op = "delete" => <<job[s].target, "update">> \in held[s]

(* Incompatible locks are never held together, and a request that is about *)
(* to commit commits on rows that are there, its own caller's included:    *)
(* no audit entry is written by or about a user whom a concurrent request  *)
(* has deleted (crud/audit_log.py:11-31, admin.py:177-200).                *)
AdminsInv ==
    /\ Compatible(held)
    /\ \A s \in Slots : Coherent(s) /\ Pinned(s) /\ RemovalLocked(s)

-----------------------------------------------------------------------------
(* What a request read without a lock may have changed by its commit: the  *)
(* caller's rights, and the number of active admins.                       *)
Overtaken(s) ==
    LET j == job[s]
    IN  \/ j.actor \notin ActiveAdmins
        \/ j.op \in Harmful /\ j.target \in ActiveAdmins /\ ~Spare

(* Whatever the interleaving, a step changes the users as one handler run  *)
(* alone would, unless it commits after its caller lost the rights it was  *)
(* admitted with or after the count of admins it was granted on went down. *)
SerialUnlessOvertaken ==
    [][Next \/ \E s \in Slots : Commit(s) /\ Overtaken(s)]_people

(* Requests one at a time implement the serial administration.             *)
ImplementsSerialAdmins == Spec

(* Every request ends, in a commit or in an error.                         *)
RequestsEnd == \A s \in Slots : pc[s] # "idle" ~> pc[s] = "idle"
=============================================================================
