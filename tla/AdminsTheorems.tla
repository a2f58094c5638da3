--------------------------- MODULE AdminsTheorems ---------------------------
(***************************************************************************)
(* What holds of Admins for any users, sessions and operations.            *)
(***************************************************************************)
EXTENDS MCAdmins, CommonTheorems

SessionOK(s) == Coherent(s) /\ Pinned(s) /\ RemovalLocked(s)

Inv == AdminsTypeOK /\ AdminsInv

LEMMA NoJobTyped == NoJob \in Jobs
BY DEF NoJob, Jobs

LEMMA IdleSession ==
    ASSUME NEW s \in Slots, pc[s] = "idle", job[s] = NoJob, held[s] = {}
    PROVE  SessionOK(s)
BY DEF SessionOK, Coherent, Pinned, RemovalLocked

LEMMA InitInv == AdminsInit => Inv
<1> SUFFICES ASSUME AdminsInit PROVE Inv
    OBVIOUS
<1>1. AdminsTypeOK
    BY NoJobTyped DEF AdminsInit, Init, AdminsTypeOK, TypeOK, Labels
<1>2. Compatible(held)
    BY DEF AdminsInit, Compatible
<1>3. \A s \in Slots : SessionOK(s)
    BY IdleSession DEF AdminsInit
<1> QED BY <1>1, <1>2, <1>3 DEF Inv, AdminsInv, SessionOK

-----------------------------------------------------------------------------
(* Locks.                                                                  *)

LEMMA ModesTyped == ASSUME NEW s PROVE Mode(s) \subseteq Modes
BY DEF Mode, Modes

LEMMA WantedLocks ==
    ASSUME AdminsTypeOK, NEW s \in Slots
    PROVE  Wanted(s) \subseteq Locks
<1>1. users \subseteq Users
    BY DEF AdminsTypeOK, TypeOK
<1> QED BY <1>1, ModesTyped DEF Wanted, Locks

LEMMA TakeCompatible ==
    ASSUME Compatible(held), held \in [Slots -> SUBSET Locks], NEW s \in Slots,
           Take(s)
    PROVE  Compatible(held')
<1>1. held' = [held EXCEPT ![s] = @ \cup Wants[s]] /\ Blockers(held, Wants, s) = {}
    BY DEF Take, Wants, Unblocked
<1> QED BY <1>1, GrantCompatible

-----------------------------------------------------------------------------
(* The steps.                                                              *)

(* A session that takes no step is disturbed only if a row it has pinned   *)
(* goes away.                                                              *)
LEMMA SessionFrame ==
    ASSUME NEW s \in Slots, SessionOK(s),
           pc'[s] = pc[s], job'[s] = job[s], held'[s] = held[s],
           pc[s] \in {"remove", "commit"} => {job[s].actor, job[s].target} \subseteq users'
    PROVE  SessionOK(s)'
BY DEF SessionOK, Coherent, Pinned, RemovalLocked

LEMMA OthersKept ==
    ASSUME Inv, users \subseteq users', NEW s \in Slots, NEW o \in Slots, o # s,
           pc'[o] = pc[o], job'[o] = job[o], held'[o] = held[o]
    PROVE  SessionOK(o)'
<1>1. SessionOK(o)
    BY DEF Inv, AdminsInv, SessionOK
<1>2. pc[o] \in {"remove", "commit"} => {job[o].actor, job[o].target} \subseteq users'
    BY <1>1 DEF SessionOK, Pinned
<1> QED BY <1>1, <1>2, SessionFrame

LEMMA ReleaseInv ==
    ASSUME Inv, NEW s \in Slots, Release(s)
    PROVE  /\ pc' \in [Slots -> Labels] /\ job' \in [Slots -> Jobs]
           /\ held' \in [Slots -> SUBSET Locks]
           /\ Compatible(held') /\ SessionOK(s)'
           /\ \A o \in Slots \ {s} :
                 pc'[o] = pc[o] /\ job'[o] = job[o] /\ held'[o] = held[o]
<1>1. /\ pc \in [Slots -> Labels] /\ job \in [Slots -> Jobs]
      /\ held \in [Slots -> SUBSET Locks] /\ Compatible(held)
    BY DEF Inv, AdminsInv, AdminsTypeOK
<1>2. /\ pc' = [pc EXCEPT ![s] = "idle"] /\ job' = [job EXCEPT ![s] = NoJob]
      /\ held' = [held EXCEPT ![s] = {}]
    BY DEF Release, Goto
<1>3. "idle" \in Labels
    BY DEF Labels
<1>4. SessionOK(s)'
    BY <1>1, <1>2 DEF SessionOK, Coherent, Pinned, RemovalLocked
<1>5. Compatible(held')
    BY <1>1, <1>2 DEF Compatible
<1> QED BY <1>1, <1>2, <1>3, <1>4, <1>5, NoJobTyped

LEMMA FailInv ==
    ASSUME Inv, NEW s \in Slots, Fail(s)
    PROVE  Inv'
<1>1. Release(s) /\ UNCHANGED people
    BY DEF Fail
<1>2. users' = users /\ TypeOK'
    BY <1>1 DEF people, Inv, AdminsTypeOK, TypeOK
<1>3. ASSUME NEW o \in Slots PROVE SessionOK(o)'
    BY <1>1, <1>2, ReleaseInv, OthersKept
<1> QED BY <1>1, <1>2, <1>3, ReleaseInv DEF Inv, AdminsTypeOK, AdminsInv, SessionOK

(* A step of s on to another label, of a request as before or as read.     *)
LEMMA AdvanceInv ==
    ASSUME Inv, NEW s \in Slots, NEW label \in Labels, UNCHANGED people,
           Goto(s, label),
           job' \in [Slots -> Jobs], \A o \in Slots \ {s} : job'[o] = job[o],
           held' \in [Slots -> SUBSET Locks], \A o \in Slots \ {s} : held'[o] = held[o],
           Compatible(held'), SessionOK(s)'
    PROVE  Inv'
<1>1. pc \in [Slots -> Labels] /\ pc' = [pc EXCEPT ![s] = label]
    BY DEF Inv, AdminsTypeOK, Goto
<1>2. users' = users /\ TypeOK'
    BY DEF people, Inv, AdminsTypeOK, TypeOK
<1>3. ASSUME NEW o \in Slots PROVE SessionOK(o)'
    BY <1>1, <1>2, OthersKept
<1> QED BY <1>1, <1>2, <1>3 DEF Inv, AdminsTypeOK, AdminsInv, SessionOK

LEMMA AuthenticateInv ==
    ASSUME Inv, NEW s \in Slots, NEW actor \in Users, NEW op \in Ops,
           NEW target \in Users, Authenticate(s, actor, op, target)
    PROVE  Inv'
<1> DEFINE j == [NoJob EXCEPT !.op = op, !.actor = actor, !.target = target]
<1>1. /\ pc[s] = "idle" /\ Goto(s, "target") /\ UNCHANGED <<people, held>>
      /\ job' = [job EXCEPT ![s] = j]
    BY DEF Authenticate
<1>2. /\ job \in [Slots -> Jobs] /\ held \in [Slots -> SUBSET Locks] /\ Compatible(held)
      /\ pc \in [Slots -> Labels]
    BY DEF Inv, AdminsInv, AdminsTypeOK
<1>3. j \in Jobs /\ j.op = op /\ j.actor = actor /\ j.target = target
    BY OpsAssumption DEF NoJob, Jobs
<1>4. pc'[s] = "target" /\ job'[s] = j
    BY <1>1, <1>2 DEF Goto
<1>5. SessionOK(s)'
    BY <1>3, <1>4 DEF SessionOK, Coherent, Pinned, RemovalLocked
<1>6. "target" \in Labels
    BY DEF Labels
<1> HIDE DEF j
<1>7. job' \in [Slots -> Jobs]
    BY <1>1, <1>2, <1>3
<1> QED BY <1>1, <1>2, <1>5, <1>6, <1>7, AdvanceInv

LEMMA ReadTargetInv ==
    ASSUME Inv, NEW s \in Slots, ReadTarget(s)
    PROVE  Inv'
<1> DEFINE j == job[s]
           now == [j EXCEPT !.sawActive = j.target = j.actor \/ j.target \in active,
                            !.sawAdmin = j.target = j.actor \/ j.target \in admins]
           label == IF j.op \in Harmful /\ now.sawActive /\ now.sawAdmin
                    THEN "guard" ELSE AfterGuard(s)
<1>1. /\ pc[s] = "target" /\ ~Barred(s) /\ UNCHANGED <<people, held>>
      /\ job' = [job EXCEPT ![s] = now] /\ Goto(s, label)
    BY DEF ReadTarget
<1>2. /\ job \in [Slots -> Jobs] /\ held \in [Slots -> SUBSET Locks] /\ Compatible(held)
      /\ pc \in [Slots -> Labels] /\ Coherent(s)
    BY DEF Inv, AdminsInv, AdminsTypeOK
<1>3. j \in Jobs
    BY <1>2
<1>4. now \in Jobs /\ now.op = j.op /\ now.actor = j.actor /\ now.target = j.target
    BY <1>3 DEF Jobs
<1>5. /\ label \in {"guard", "write", "audit"} /\ label \in Labels
      /\ label = "guard" => j.op \in Harmful
    BY DEF AfterGuard, Labels
<1> HIDE DEF now, label
<1>6. pc'[s] = label /\ job'[s] = now
    BY <1>1, <1>2 DEF Goto
<1>7. SessionOK(s)'
    <2>1. j.op \in Ops /\ j.actor \in Users /\ j.target \in Users
        BY <1>1, <1>2 DEF Coherent
    <2>2. j.op \in Harmful => j.target # j.actor
        BY <1>1 DEF Barred
    <2> QED BY <1>4, <1>5, <1>6, <2>1, <2>2 DEF SessionOK, Coherent, Pinned, RemovalLocked
<1>8. job' \in [Slots -> Jobs] /\ \A o \in Slots \ {s} : job'[o] = job[o]
    BY <1>1, <1>2, <1>4
<1> QED BY <1>1, <1>2, <1>5, <1>7, <1>8, AdvanceInv

LEMMA GuardInv ==
    ASSUME Inv, NEW s \in Slots, Guard(s)
    PROVE  Inv'
<1>1. pc[s] = "guard" /\ Goto(s, AfterGuard(s)) /\ UNCHANGED <<people, job, held>>
    BY DEF Guard
<1>2. /\ job \in [Slots -> Jobs] /\ held \in [Slots -> SUBSET Locks] /\ Compatible(held)
      /\ pc \in [Slots -> Labels] /\ Coherent(s)
    BY DEF Inv, AdminsInv, AdminsTypeOK
<1>3. AfterGuard(s) \in {"write", "audit"} /\ AfterGuard(s) \in Labels
    BY DEF AfterGuard, Labels
<1>4. pc'[s] = AfterGuard(s)
    BY <1>1, <1>2 DEF Goto
<1>5. SessionOK(s)'
    BY <1>1, <1>2, <1>3, <1>4 DEF SessionOK, Coherent, Pinned, RemovalLocked
<1> QED BY <1>1, <1>2, <1>3, <1>5, AdvanceInv

LEMMA TakeTyped ==
    ASSUME Inv, NEW s \in Slots, Take(s)
    PROVE  /\ held' \in [Slots -> SUBSET Locks] /\ Compatible(held')
           /\ held'[s] = held[s] \cup Wanted(s)
           /\ \A o \in Slots \ {s} : held'[o] = held[o]
<1>1. held \in [Slots -> SUBSET Locks] /\ Compatible(held) /\ Wanted(s) \subseteq Locks
    BY WantedLocks DEF Inv, AdminsInv, AdminsTypeOK
<1>2. held' = [held EXCEPT ![s] = @ \cup Wanted(s)]
    BY DEF Take
<1> QED BY <1>1, <1>2, TakeCompatible

LEMMA WriteInv ==
    ASSUME Inv, NEW s \in Slots, Write(s)
    PROVE  Inv'
<1>1. pc[s] = "write" /\ Take(s) /\ Goto(s, "audit") /\ UNCHANGED <<people, job>>
    BY DEF Write
<1>2. job \in [Slots -> Jobs] /\ pc \in [Slots -> Labels] /\ Coherent(s)
    BY DEF Inv, AdminsInv, AdminsTypeOK
<1>3. pc'[s] = "audit" /\ "audit" \in Labels
    BY <1>1, <1>2 DEF Goto, Labels
<1>4. SessionOK(s)'
    BY <1>1, <1>2, <1>3 DEF SessionOK, Coherent, Pinned, RemovalLocked
<1> QED BY <1>1, <1>2, <1>3, <1>4, TakeTyped, AdvanceInv

LEMMA AuditInv ==
    ASSUME Inv, NEW s \in Slots, Audit(s)
    PROVE  Inv'
<1> DEFINE label == IF job[s].op = "delete" THEN "remove" ELSE "commit"
<1>1. /\ pc[s] = "audit" /\ Take(s) /\ Goto(s, label) /\ UNCHANGED <<people, job>>
      /\ {job[s].actor, job[s].target} \subseteq users
    BY DEF Audit, Needed, Referenced
<1>2. job \in [Slots -> Jobs] /\ pc \in [Slots -> Labels] /\ Coherent(s)
    BY DEF Inv, AdminsInv, AdminsTypeOK
<1>3. pc'[s] = label /\ label \in Labels /\ users' = users
    BY <1>1, <1>2 DEF Goto, Labels, people
<1>4. Wanted(s) = {job[s].actor, job[s].target} \X {"key share"}
    <2>1. Needed(s) = {job[s].actor, job[s].target} /\ Mode(s) = {"key share"}
        BY <1>1 DEF Needed, Referenced, Mode
    <2>2. Needed(s) \cap users = Needed(s)
        BY <1>1, <2>1
    <2>3. Wanted(s) = (Needed(s) \cap users) \X Mode(s)
        BY <1>1 DEF Wanted
    <2> QED BY <2>1, <2>2, <2>3
<1>5. \A u \in {job[s].actor, job[s].target} : <<u, "key share">> \in held'[s]
    BY <1>1, <1>4, TakeTyped
<1>6. Coherent(s)'
    BY <1>1, <1>2, <1>3 DEF Coherent, Harmful
<1>7. SessionOK(s)'
    BY <1>1, <1>3, <1>5, <1>6 DEF SessionOK, Pinned, RemovalLocked
<1> QED BY <1>1, <1>2, <1>3, <1>7, TakeTyped, AdvanceInv

LEMMA RemoveInv ==
    ASSUME Inv, NEW s \in Slots, Remove(s)
    PROVE  Inv'
<1>1. pc[s] = "remove" /\ Take(s) /\ Goto(s, "commit") /\ UNCHANGED <<people, job>>
    BY DEF Remove
<1>2. /\ job \in [Slots -> Jobs] /\ pc \in [Slots -> Labels]
      /\ Coherent(s) /\ Pinned(s) /\ job[s].op = "delete"
    BY <1>1 DEF Inv, AdminsInv, AdminsTypeOK, Coherent
<1>3. pc'[s] = "commit" /\ "commit" \in Labels /\ users' = users
    BY <1>1, <1>2 DEF Goto, Labels, people
<1>4. job[s].target \in users /\ Wanted(s) = {job[s].target} \X {"update"}
    BY <1>1, <1>2 DEF Pinned, Wanted, Needed, Mode
<1>5. held'[s] = held[s] \cup Wanted(s)
    BY <1>1, TakeTyped
<1>6. SessionOK(s)'
    BY <1>1, <1>2, <1>3, <1>4, <1>5 DEF SessionOK, Coherent, Pinned, RemovalLocked
<1> QED BY <1>1, <1>2, <1>3, <1>6, TakeTyped, AdvanceInv

LEMMA StatementInv ==
    ASSUME Inv, NEW s \in Slots, Statement(s)
    PROVE  Inv'
<1>1. TargetRefused(s) \/ GuardRefused(s) \/ StatementFails(s) => Fail(s)
    BY DEF TargetRefused, GuardRefused, StatementFails
<1> QED BY <1>1, FailInv, ReadTargetInv, GuardInv, WriteInv, AuditInv, RemoveInv DEF Statement

(* What a deletion takes away nobody else has pinned.                      *)
LEMMA CommitInv ==
    ASSUME Inv, NEW s \in Slots, Commit(s)
    PROVE  Inv'
<1> DEFINE j == job[s]
<1>1. pc[s] = "commit" /\ Effect(s) /\ Release(s)
    BY DEF Commit
<1>2. /\ TypeOK /\ Compatible(held) /\ held \in [Slots -> SUBSET Locks]
      /\ SessionOK(s) /\ \A o \in Slots : SessionOK(o)
    BY DEF Inv, AdminsTypeOK, AdminsInv, SessionOK
<1>3. j.target \in users
    BY <1>1, <1>2 DEF SessionOK, Pinned
<1>4. TypeOK'
    <2>1. CASE UNCHANGED people
        BY <1>2, <2>1 DEF TypeOK, people
    <2>2. CASE Apply(j.op, j.target)
        BY <1>2, <1>3, <2>2 DEF TypeOK, Apply
    <2> QED BY <1>1, <2>1, <2>2 DEF Effect
<1>5. users \ {j.target} \subseteq users' /\ (j.op # "delete" => users' = users)
    BY <1>1 DEF Effect, Apply, people
<1>6. ASSUME NEW o \in Slots, o # s PROVE SessionOK(o)'
    <2>1. ASSUME pc[o] \in {"remove", "commit"}
          PROVE  {job[o].actor, job[o].target} \subseteq users'
        <3>1. CASE j.op # "delete"
            BY <1>2, <1>5, <2>1, <3>1 DEF SessionOK, Pinned
        <3>2. CASE j.op = "delete"
            <4>1. <<j.target, "update">> \in held[s]
                BY <1>1, <1>2, <3>2 DEF SessionOK, RemovalLocked
            <4>2. ASSUME NEW u \in {job[o].actor, job[o].target} PROVE u # j.target
                <5>1. u \in users /\ <<u, "key share">> \in held[o]
                    BY <1>2, <2>1 DEF SessionOK, Pinned
                <5>2. SUFFICES ASSUME u = j.target PROVE FALSE
                    OBVIOUS
                <5>3. Conflict("update", "key share")
                    BY DEF Conflict
                <5>4. /\ <<u, "update">>[1] = <<u, "key share">>[1]
                      /\ <<u, "update">>[2] = "update" /\ <<u, "key share">>[2] = "key share"
                    OBVIOUS
                <5>5. <<u, "update">> \in held[s] /\ s \in DOMAIN held /\ o \in DOMAIN held
                    BY <1>2, <4>1, <5>2
                <5> QED BY <1>2, <1>6, <5>1, <5>3, <5>4, <5>5 DEF Compatible
            <4> QED BY <1>2, <1>5, <2>1, <4>2 DEF SessionOK, Pinned
        <3> QED BY <3>1, <3>2
    <2> QED BY <1>1, <1>2, <1>6, <2>1, ReleaseInv, SessionFrame
<1> QED BY <1>1, <1>4, <1>6, ReleaseInv DEF Inv, AdminsTypeOK, AdminsInv, SessionOK

LEMMA SignUpInv ==
    ASSUME Inv, NEW u \in Users, SignUp(u)
    PROVE  Inv'
<1>1. Register(u) /\ UNCHANGED <<pc, job, held>>
    BY DEF SignUp
<1>2. TypeOK' /\ users \subseteq users'
    BY <1>1 DEF Inv, AdminsTypeOK, TypeOK, Register
<1>3. ASSUME NEW s \in Slots PROVE SessionOK(s)'
    <2>1. SessionOK(s)
        BY DEF Inv, AdminsInv, SessionOK
    <2> QED BY <1>1, <1>2, <2>1, SessionFrame DEF SessionOK, Pinned
<1> QED BY <1>1, <1>2, <1>3 DEF Inv, AdminsTypeOK, AdminsInv, SessionOK

LEMMA RestartInv ==
    ASSUME Inv, Restart
    PROVE  Inv'
<1>1. TypeOK'
    BY DEF Inv, AdminsTypeOK, TypeOK, Restart, Bootstrap
<1>2. /\ pc' = [s \in Slots |-> "idle"] /\ job' = [s \in Slots |-> NoJob]
      /\ held' = [s \in Slots |-> {}]
    BY DEF Restart
<1>3. ASSUME NEW s \in Slots PROVE SessionOK(s)'
    BY <1>2 DEF SessionOK, Coherent, Pinned, RemovalLocked
<1>4. Compatible(held')
    BY <1>2 DEF Compatible
<1>5. "idle" \in Labels
    BY DEF Labels
<1> QED BY <1>1, <1>2, <1>3, <1>4, <1>5, NoJobTyped DEF Inv, AdminsTypeOK, AdminsInv, SessionOK

LEMMA Stutter == Inv /\ UNCHANGED vars => Inv'
BY DEF Inv, AdminsTypeOK, TypeOK, AdminsInv, Compatible, Coherent, Pinned, RemovalLocked,
       vars, people

LEMMA NextInv == Inv /\ [AdminsNext]_vars => Inv'
<1> SUFFICES ASSUME Inv, AdminsNext PROVE Inv'
    BY Stutter
<1>1. ASSUME NEW s \in Slots, DeadlockVictim(s) PROVE Fail(s)
    BY <1>1 DEF DeadlockVictim
<1> QED BY <1>1, SignUpInv, AuthenticateInv, StatementInv, CommitInv, FailInv, RestartInv
        DEF AdminsNext

(* In every state every variable of the administration has its type.       *)
THEOREM AdminsTypeCorrect == AdminsSpec => []AdminsTypeOK
<1>1. Inv => AdminsTypeOK
    BY DEF Inv
<1> QED BY <1>1, InitInv, NextInv, PTL DEF AdminsSpec

(* In every state incompatible locks are never held together, and what is  *)
(* about to commit has its caller's and its target's rows pinned: no audit *)
(* entry is committed by or about a user a concurrent request has deleted  *)
(* (crud/audit_log.py:11-31).                                              *)
THEOREM AdminsInvariant == AdminsSpec => []AdminsInv
<1>1. Inv => AdminsInv
    BY DEF Inv
<1> QED BY <1>1, InitInv, NextInv, PTL DEF AdminsSpec

-----------------------------------------------------------------------------
(* Steps other than commits, on the users.                                 *)

LEMMA QuietSteps ==
    ASSUME AdminsNext, ~\E s \in Slots : Commit(s)
    PROVE  \/ \E u \in Users : Register(u)
           \/ Bootstrap
           \/ UNCHANGED people
BY DEF AdminsNext, SignUp, Restart, Authenticate, Statement, ReadTarget, TargetRefused,
       Guard, GuardRefused, Write, Audit, Remove, StatementFails, DeadlockVictim, Fail

LEMMA AllowedUnlessOvertaken ==
    ASSUME Inv, NEW s \in Slots, pc[s] = "commit", ~Overtaken(s)
    PROVE  /\ job[s].actor \in Users /\ job[s].op \in Ops /\ job[s].target \in Users
           /\ Allowed(job[s].actor, job[s].op, job[s].target)
<1>1. Coherent(s) /\ Pinned(s)
    BY DEF Inv, AdminsInv
<1>2. job[s].target \in users /\ (job[s].op \in Harmful => job[s].target # job[s].actor)
    BY <1>1 DEF Coherent, Pinned
<1> QED BY <1>1, <1>2 DEF Coherent, Overtaken, Allowed, Spare

(* With any number of concurrent requests, a step changes the users as one *)
(* handler run alone would, unless it commits after its caller lost the    *)
(* rights it was admitted with, or after the count of admins it was        *)
(* granted on went down (admin.py:43-49, core/dependencies.py:46-56).      *)
THEOREM SerialUpToOvertaking == AdminsSpec => SerialUnlessOvertaken
<1> DEFINE Late == \E s \in Slots : Commit(s) /\ Overtaken(s)
<1>1. ASSUME Inv, NEW s \in Slots, Commit(s) PROVE Next \/ Late \/ UNCHANGED people
    <2>1. pc[s] = "commit" /\ Effect(s)
        BY <1>1 DEF Commit
    <2>2. CASE ~Overtaken(s) /\ Changes(s)
        <3>1. Administer(job[s].actor, job[s].op, job[s].target)
            BY <1>1, <2>1, <2>2, AllowedUnlessOvertaken DEF Effect, Administer
        <3> QED BY <1>1, <2>1, <2>2, <3>1, AllowedUnlessOvertaken DEF Next
    <2> QED BY <1>1, <2>1, <2>2 DEF Effect
<1>2. Inv /\ [AdminsNext]_vars => [Next \/ Late]_people
    <2> SUFFICES ASSUME Inv, [AdminsNext]_vars PROVE Next \/ Late \/ UNCHANGED people
        OBVIOUS
    <2> HIDE DEF Late
    <2>1. CASE UNCHANGED vars
        BY <2>1 DEF vars
    <2>2. CASE AdminsNext /\ ~\E s \in Slots : Commit(s)
        BY <2>2, QuietSteps DEF Next
    <2> QED BY <1>1, <2>1, <2>2
<1> QED BY <1>2, InitInv, NextInv, PTL DEF AdminsSpec, SerialUnlessOvertaken

LEMMA QuietKeepsAdmins ==
    ASSUME Inv, \/ \E u \in Users : Register(u)
                \/ Bootstrap
                \/ UNCHANGED people
    PROVE  /\ ActiveAdmins \subseteq ActiveAdmins'
           /\ users' \cap ids \subseteq users
           /\ ids \subseteq ids'
<1>1. TypeOK
    BY DEF Inv, AdminsTypeOK
<1>2. ASSUME NEW u \in Users, Register(u)
      PROVE  /\ ActiveAdmins \subseteq ActiveAdmins' /\ users' \cap ids \subseteq users
             /\ ids \subseteq ids'
    BY <1>2 DEF Register, ActiveAdmins
<1>3. CASE Bootstrap
    BY <1>3 DEF Bootstrap, ActiveAdmins
<1>4. CASE UNCHANGED people
    BY <1>4 DEF people, ActiveAdmins
<1> QED BY <1>2, <1>3, <1>4

(* A step admits a request of an active admin, or ends one, or leaves its  *)
(* caller alone.                                                           *)
LEMMA CallerStep ==
    ASSUME Inv, AdminsNext, NEW s \in Slots, pc'[s] # "idle"
    PROVE  \/ job'[s].actor \in ActiveAdmins /\ UNCHANGED people
           \/ pc[s] # "idle" /\ job'[s].actor = job[s].actor
<1>1. pc \in [Slots -> Labels] /\ job \in [Slots -> Jobs]
    BY DEF Inv, AdminsTypeOK
<1>2. ASSUME NEW o \in Slots, Release(o)
      PROVE  pc[s] # "idle" /\ job'[s].actor = job[s].actor
    BY <1>1, <1>2 DEF Release, Goto
<1>3. ASSUME NEW o \in Slots, NEW actor \in Users, NEW op \in Ops, NEW target \in Users,
             Authenticate(o, actor, op, target)
      PROVE  \/ job'[s].actor \in ActiveAdmins /\ UNCHANGED people
             \/ pc[s] # "idle" /\ job'[s].actor = job[s].actor
    <2>1. CASE o = s
        BY <1>1, <1>3, <2>1 DEF Authenticate, NoJob
    <2>2. CASE o # s
        BY <1>1, <1>3, <2>2 DEF Authenticate, Goto
    <2> QED BY <2>1, <2>2
<1>4. ASSUME NEW o \in Slots, ReadTarget(o)
      PROVE  pc[s] # "idle" /\ job'[s].actor = job[s].actor
    <2>1. job[o] \in Jobs /\ pc[o] = "target"
        BY <1>1, <1>4 DEF ReadTarget
    <2>2. CASE o = s
        BY <1>1, <1>4, <2>1, <2>2 DEF ReadTarget, Jobs
    <2>3. CASE o # s
        BY <1>1, <1>4, <2>3 DEF ReadTarget, Goto
    <2> QED BY <2>2, <2>3
<1>5. ASSUME NEW o \in Slots, Guard(o) \/ Write(o) \/ Audit(o) \/ Remove(o)
      PROVE  pc[s] # "idle" /\ job'[s].actor = job[s].actor
    BY <1>1, <1>5 DEF Guard, Write, Audit, Remove, Goto
<1>6. ASSUME NEW o \in Slots,
             \/ TargetRefused(o) \/ GuardRefused(o) \/ StatementFails(o)
             \/ Commit(o) \/ DeadlockVictim(o)
      PROVE  Release(o)
    BY <1>6 DEF TargetRefused, GuardRefused, StatementFails, Commit, DeadlockVictim, Fail
<1>7. ASSUME Restart PROVE FALSE
    BY <1>7 DEF Restart
<1>8. ASSUME NEW u \in Users, SignUp(u) PROVE pc[s] # "idle" /\ job'[s].actor = job[s].actor
    BY <1>8 DEF SignUp
<1> QED BY <1>2, <1>3, <1>4, <1>5, <1>6, <1>7, <1>8 DEF AdminsNext, Statement

-----------------------------------------------------------------------------
(* Without operations that take rights away.                               *)

(* A caller that still exists still has the rights it was admitted with;   *)
(* its id is never handed out again.                                       *)
CallersKeepRights ==
    \A s \in Slots :
        pc[s] # "idle" =>
            /\ job[s].actor \in ids
            /\ job[s].actor \in users => job[s].actor \in ActiveAdmins

(* No request under way takes rights away, but by deleting a user.         *)
NothingTaken == \A s \in Slots : job[s].op \notin {"deactivate", "demote"}

(* A commit takes the rights of a deleted row's user alone.                *)
LEMMA CommitKeepsAdmins ==
    ASSUME NothingTaken, Inv, NEW s \in Slots, Commit(s)
    PROVE  /\ ActiveAdmins \subseteq ActiveAdmins' \cup {job[s].target}
           /\ job[s].target \in users' => ActiveAdmins \subseteq ActiveAdmins'
           /\ users' \subseteq users /\ ids' = ids
<1>1. pc[s] = "commit" /\ Effect(s) /\ job[s].op \in Ops
    BY DEF Commit, Inv, AdminsInv, Coherent
<1>2. job[s].op \notin {"deactivate", "demote"}
    BY DEF NothingTaken
<1>3. job[s].target \in users
    BY <1>1 DEF Inv, AdminsInv, Pinned
<1> DEFINE op == job[s].op
           u == job[s].target
<1>4. CASE UNCHANGED people
    BY <1>4 DEF people, ActiveAdmins
<1>5. CASE Apply(op, u)
    <2> HIDE DEF op, u
    <2>1. active \ {u} \subseteq active' /\ admins \ {u} \subseteq admins'
        BY <1>5 DEF Apply
    <2>2. op # "delete" => active \subseteq active' /\ admins \subseteq admins'
        BY <1>2, <1>5 DEF Apply, op
    <2>3. op = "delete" => users' = users \ {u}
        BY <1>5 DEF Apply
    <2>4. users' \subseteq users /\ ids' = ids
        BY <1>5 DEF Apply
    <2>5. ActiveAdmins \subseteq ActiveAdmins' \cup {u}
        BY <2>1 DEF ActiveAdmins
    <2>6. op # "delete" => ActiveAdmins \subseteq ActiveAdmins'
        BY <2>2 DEF ActiveAdmins
    <2> QED BY <2>3, <2>4, <2>5, <2>6 DEF u
<1> QED BY <1>1, <1>4, <1>5 DEF Effect

LEMMA CallersStep ==
    ASSUME NothingTaken, Inv, CallersKeepRights, [AdminsNext]_vars
    PROVE  CallersKeepRights'
<1>1. CASE UNCHANGED vars
    BY <1>1 DEF vars, people, CallersKeepRights, ActiveAdmins
<1>2. ASSUME AdminsNext, NEW s \in Slots, pc'[s] # "idle"
      PROVE  /\ job'[s].actor \in ids'
             /\ job'[s].actor \in users' => job'[s].actor \in ActiveAdmins'
    <2> DEFINE a == job'[s].actor
    <2>1. a \in ids /\ (a \in users => a \in ActiveAdmins)
        BY <1>2, CallerStep
           DEF CallersKeepRights, ActiveAdmins, Inv, AdminsTypeOK, TypeOK
    <2> HIDE DEF a
    <2>2. CASE ~\E o \in Slots : Commit(o)
        BY <1>2, <2>1, <2>2, QuietSteps, QuietKeepsAdmins DEF a
    <2>3. ASSUME NEW o \in Slots, Commit(o)
          PROVE  a \in ids' /\ (a \in users' => a \in ActiveAdmins')
        BY <2>1, <2>3, CommitKeepsAdmins
    <2> QED BY <2>2, <2>3 DEF a
<1> QED BY <1>1, <1>2 DEF CallersKeepRights

LEMMA DeletionKeepsAdmins ==
    ASSUME NothingTaken, Inv, CallersKeepRights, [AdminsNext]_vars
    PROVE  [ActiveAdmins # {} => ActiveAdmins' # {}]_people
<1>1. CASE UNCHANGED vars
    BY <1>1 DEF vars
<1>2. CASE AdminsNext /\ ~\E s \in Slots : Commit(s)
    BY <1>2, QuietSteps, QuietKeepsAdmins
<1>3. ASSUME NEW s \in Slots, Commit(s) PROVE ActiveAdmins' # {} \/ UNCHANGED people
    <2>1. pc[s] = "commit" /\ Pinned(s) /\ Coherent(s) /\ Effect(s)
        BY <1>3 DEF Commit, Inv, AdminsInv
    <2>2. job[s].actor \in ActiveAdmins
        BY <2>1 DEF Pinned, CallersKeepRights
    <2>3. CASE job[s].target # job[s].actor
        BY <1>3, <2>2, <2>3, CommitKeepsAdmins
    <2>4. CASE job[s].target = job[s].actor
        <3>1. job[s].op # "delete"
            BY <2>1, <2>4 DEF Coherent, Harmful
        <3>2. job[s].target \in users' \/ UNCHANGED people
            BY <2>1, <3>1 DEF Effect, Apply, Pinned
        <3> QED BY <1>3, <2>2, <3>2, CommitKeepsAdmins
    <2> QED BY <2>3, <2>4
<1> QED BY <1>1, <1>2, <1>3

(* As long as no rights are taken away except by deletion, concurrent      *)
(* requests of any number never delete the last active admin: the audit    *)
(* entry's foreign key pins the caller, who stays an admin                 *)
(* (admin.py:177-200, models/audit_log.py:21-27).                          *)
THEOREM DeletionsKeepAdmins == AdminsSpec /\ []NothingTaken => AdminsRemain
<1>1. AdminsInit => CallersKeepRights
    BY DEF AdminsInit, CallersKeepRights
<1>2. NothingTaken /\ Inv /\ CallersKeepRights /\ [AdminsNext]_vars =>
           [ActiveAdmins # {} => ActiveAdmins' # {}]_people
    BY DeletionKeepsAdmins
<1>3. NothingTaken /\ Inv /\ CallersKeepRights /\ [AdminsNext]_vars => CallersKeepRights'
    BY CallersStep
<1> QED BY <1>1, <1>2, <1>3, InitInv, NextInv, PTL DEF AdminsSpec, AdminsRemain

(* Two administrators, or any number of them, who delete each other at the *)
(* same time leave one: the first to commit takes the row that the audit   *)
(* entry of the other refers to (admin.py:43-49, 177-200).                 *)
THEOREM DeletionsSpareTheLast == MCSpec => DeletionsSpareLastAdmin
<1> DEFINE Spared == mix = "deletions" => NothingTaken /\ CallersKeepRights
           Safety == MCInit /\ [][MCNext]_<<vars, mix>>
<1>1. MCInit => Inv /\ Spared
    <2>1. AdminsInit => NothingTaken /\ CallersKeepRights
        BY DEF AdminsInit, NothingTaken, CallersKeepRights, NoJob
    <2> QED BY <2>1, InitInv DEF MCInit
<1>2. [MCNext]_<<vars, mix>> => [AdminsNext]_vars /\ mix' = mix
    BY DEF MCNext
<1>3. Inv /\ Spared /\ [MCNext]_<<vars, mix>> => Spared'
    <2> SUFFICES ASSUME Inv, Spared, [MCNext]_<<vars, mix>>, mix' = "deletions"
                 PROVE  NothingTaken' /\ CallersKeepRights'
        OBVIOUS
    <2>1. NothingTaken /\ CallersKeepRights
        BY <1>2
    <2>2. NothingTaken'
        <3>1. CASE MCNext
            BY <3>1 DEF MCNext, NothingTaken, Sparing
        <3>2. CASE UNCHANGED <<vars, mix>>
            BY <2>1, <3>2 DEF vars, NothingTaken
        <3> QED BY <3>1, <3>2
    <2> QED BY <1>2, <2>1, <2>2, CallersStep
<1>4. Inv /\ Spared /\ [MCNext]_<<vars, mix>> =>
           [mix = "deletions" /\ ActiveAdmins # {} => ActiveAdmins' # {}]_people
    BY <1>2, DeletionKeepsAdmins
<1>5. Inv /\ [MCNext]_<<vars, mix>> => Inv'
    BY <1>2, NextInv
<1>6. Safety => DeletionsSpareLastAdmin
    BY <1>1, <1>3, <1>4, <1>5, PTL DEF DeletionsSpareLastAdmin
<1>7. MCSpec => Safety
    BY PTL DEF MCSpec
<1> QED BY <1>6, <1>7, PTL

-----------------------------------------------------------------------------
(* One request at a time.                                                  *)

(* What a request has read still holds.                                    *)
Current ==
    \A s \in Slots :
        /\ pc[s] # "idle" => job[s].actor \in ActiveAdmins
        /\ /\ pc[s] \in {"write", "audit", "remove", "commit"}
           /\ job[s].op \in Harmful
           /\ job[s].target \in ActiveAdmins
           => Spare

LEMMA RegisterKeepsAdmins ==
    ASSUME TypeOK, NEW u \in Users, Register(u)
    PROVE  ActiveAdmins' = ActiveAdmins
BY DEF TypeOK, Register, ActiveAdmins

LEMMA CurrentStep ==
    ASSUME NEW only, Slots = {only}, Inv, Current, AdminsNext
    PROVE  Current'
<1>1. /\ pc \in [Slots -> Labels] /\ job \in [Slots -> Jobs] /\ TypeOK
      /\ only \in Slots /\ \A s \in Slots : s = only
    BY DEF Inv, AdminsTypeOK
<1>2. ASSUME pc'[only] = "idle" PROVE Current'
    BY <1>1, <1>2 DEF Current
<1>3. ASSUME NEW s \in Slots, Release(s) PROVE pc'[only] = "idle"
    BY <1>1, <1>3 DEF Release, Goto
<1>4. ASSUME NEW u \in Users, SignUp(u) PROVE Current'
    BY <1>1, <1>4, RegisterKeepsAdmins DEF SignUp, Current, Spare
<1>5. ASSUME NEW s \in Slots, NEW actor \in Users, NEW op \in Ops, NEW target \in Users,
             Authenticate(s, actor, op, target)
      PROVE  Current'
    BY <1>1, <1>5 DEF Authenticate, Goto, Current, NoJob, people, ActiveAdmins
<1>6. ASSUME NEW s \in Slots, ReadTarget(s) PROVE Current'
    <2>1. s = only /\ job[only] \in Jobs /\ pc[only] = "target" /\ ~Barred(only)
        BY <1>1, <1>6 DEF ReadTarget
    <2>2. /\ job'[only].op = job[only].op /\ job'[only].actor = job[only].actor
          /\ job'[only].target = job[only].target
        BY <1>1, <1>6, <2>1 DEF ReadTarget, Jobs
    <2>3. ActiveAdmins' = ActiveAdmins /\ job[only].actor \in ActiveAdmins
        BY <1>1, <1>6, <2>1 DEF ReadTarget, people, ActiveAdmins, Current
    <2>4. job[only].op \in Harmful /\ job[only].target \in ActiveAdmins => pc'[only] = "guard"
        BY <1>1, <1>6, <2>1 DEF ReadTarget, Jobs, Goto, ActiveAdmins
    <2> QED BY <1>1, <2>2, <2>3, <2>4 DEF Current
<1>7. ASSUME NEW s \in Slots, Guard(s) PROVE Current'
    BY <1>1, <1>7 DEF Guard, Current, people, ActiveAdmins, Spare, Goto
<1>8. ASSUME NEW s \in Slots, Write(s) \/ Audit(s) \/ Remove(s) PROVE Current'
    <2>1. /\ s = only /\ UNCHANGED <<people, job>>
          /\ pc[only] \in {"write", "audit", "remove"}
        BY <1>1, <1>8 DEF Write, Audit, Remove
    <2>2. ActiveAdmins' = ActiveAdmins
        BY <2>1 DEF people, ActiveAdmins
    <2> QED BY <1>1, <2>1, <2>2 DEF Current, Spare
<1>9. ASSUME NEW s \in Slots,
             \/ TargetRefused(s) \/ GuardRefused(s) \/ StatementFails(s)
             \/ Commit(s) \/ DeadlockVictim(s)
      PROVE  Release(s)
    BY <1>9 DEF TargetRefused, GuardRefused, StatementFails, Commit, DeadlockVictim, Fail
<1>10. ASSUME Restart PROVE pc'[only] = "idle"
    BY <1>1, <1>10 DEF Restart
<1> QED BY <1>2, <1>3, <1>4, <1>5, <1>6, <1>7, <1>8, <1>9, <1>10 DEF AdminsNext, Statement

(* Requests that come one at a time implement the serial administration.   *)
THEOREM OneAdminRequestAtATime ==
    ASSUME NEW only, Slots = {only}
    PROVE  AdminsSpec => ImplementsSerialAdmins
<1>1. AdminsInit => Init /\ Current
    BY DEF AdminsInit, Current
<1>2. Inv /\ Current /\ [AdminsNext]_vars => Current'
    <2>1. UNCHANGED vars /\ Current => Current'
        BY DEF vars, people, Current, ActiveAdmins, Spare
    <2> QED BY <2>1, CurrentStep
<1>3. Current => ~\E s \in Slots : Commit(s) /\ Overtaken(s)
    BY DEF Current, Overtaken, Commit
<1>4. AdminsSpec => SerialUnlessOvertaken
    BY SerialUpToOvertaking
<1> QED BY <1>1, <1>2, <1>3, <1>4, InitInv, NextInv, PTL
        DEF AdminsSpec, SerialUnlessOvertaken, ImplementsSerialAdmins, Spec

(* One request at a time leaves an active admin: its own caller            *)
(* (admin.py:132-135, 159-163, 185-188).                                   *)
THEOREM SerialAdminsRemain == Spec => AdminsRemain
<1>1. ASSUME Next PROVE ActiveAdmins # {} => ActiveAdmins' # {}
    <2>1. ASSUME NEW actor \in Users, NEW op \in Ops, NEW u \in Users,
                 Administer(actor, op, u)
          PROVE  ActiveAdmins' # {}
        <3>1. actor \in active /\ actor \in admins /\ (op \in Harmful => u # actor)
            BY <2>1 DEF Administer, Allowed, ActiveAdmins
        <3>2. actor \in active' /\ actor \in admins'
            BY <2>1, <3>1 DEF Administer, Apply, Harmful
        <3> QED BY <3>2 DEF ActiveAdmins
    <2> QED BY <1>1, <2>1 DEF Next, Register, Bootstrap, ActiveAdmins
<1>2. [Next]_people => [ActiveAdmins # {} => ActiveAdmins' # {}]_people
    BY <1>1
<1> QED BY <1>2, PTL DEF Spec, AdminsRemain

=============================================================================
