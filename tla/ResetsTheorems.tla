--------------------------- MODULE ResetsTheorems ---------------------------
(***************************************************************************)
(* What holds of PasswordReset for any users, tokens and sessions.         *)
(***************************************************************************)
EXTENDS PasswordReset, CommonTheorems

SessionOK(s) == Coherent(s) /\ Pinned(s)

(* The links: what has been mailed or used is there, and so is what has    *)
(* set a password.                                                         *)
LinksOK ==
    /\ \A t \in outbox \cup mailed \cup used : owner[t] # None
    /\ \A t \in Tokens : uses[t] > 0 => t \in used

Inv == ResetsTypeOK /\ ResetsInv

LEMMA InvParts ==
    Inv <=> /\ ResetsTypeOK /\ Compatible(held) /\ LinksOK
            /\ \A s \in Slots : SessionOK(s)
BY DEF Inv, ResetsInv, SessionOK, LinksOK

LEMMA NoJobTyped == NoJob \in Jobs
BY DEF NoJob, Jobs

LEMMA IdleSession ==
    ASSUME NEW s \in Slots, pc[s] = "idle", job[s] = NoJob, held[s] = {}
    PROVE  SessionOK(s)
BY DEF SessionOK, Coherent, Pinned, NoJob

LEMMA InitInv == ResetsInit => Inv
<1> SUFFICES ASSUME ResetsInit PROVE Inv
    OBVIOUS
<1>1. ResetsTypeOK
    BY NoJobTyped DEF ResetsInit, Init, ResetsTypeOK, TypeOK, Labels
<1>2. Compatible(held)
    BY DEF ResetsInit, Compatible
<1>3. \A s \in Slots : SessionOK(s)
    BY IdleSession DEF ResetsInit
<1>4. LinksOK
    BY DEF ResetsInit, Init, LinksOK
<1> QED BY <1>1, <1>2, <1>3, <1>4, InvParts

-----------------------------------------------------------------------------
(* Locks.                                                                  *)

LEMMA WantedLocks ==
    ASSUME ResetsTypeOK, NEW s \in Slots, Coherent(s)
    PROVE  Wanted(s) \subseteq Locks
<1>1. pc \in [Slots -> Labels] /\ job[s] \in Jobs
    BY DEF ResetsTypeOK
<1>2. job[s].seen \subseteq Tokens
    BY <1>1 DEF Jobs
<1>3. pc[s] \in {"void", "insert", "password", "token"} => Rows(s) \subseteq Users \cup Tokens
    BY <1>2 DEF Coherent, Rows, Row
<1>4. Mode(s) \in Modes
    BY DEF Mode, Modes
<1> QED BY <1>3, <1>4 DEF Wanted, Locks

LEMMA TakeTyped ==
    ASSUME Inv, NEW s \in Slots, Take(s)
    PROVE  /\ held' \in [Slots -> SUBSET Locks] /\ Compatible(held')
           /\ held'[s] = held[s] \cup Wanted(s)
           /\ \A o \in Slots \ {s} : held'[o] = held[o]
<1>1. held \in [Slots -> SUBSET Locks] /\ Compatible(held) /\ Wanted(s) \subseteq Locks
    BY WantedLocks, InvParts DEF SessionOK, ResetsTypeOK
<1>2. Blockers(held, Wants, s) = {} /\ Wants[s] = Wanted(s)
    BY DEF Take, Wants
<1>3. held' = [held EXCEPT ![s] = @ \cup Wants[s]]
    BY <1>2 DEF Take
<1>4. Compatible(held')
    BY <1>1, <1>2, <1>3, GrantCompatible
<1> QED BY <1>1, <1>2, <1>3, <1>4

-----------------------------------------------------------------------------
(* The steps.                                                              *)

(* A session that takes no step is disturbed if a token changes hands, if  *)
(* its own new token appears, is drawn by another, or if a user it has     *)
(* locked goes away.                                                       *)
LEMMA SessionFrame ==
    ASSUME ResetsTypeOK, NEW s \in Slots, SessionOK(s),
           pc'[s] = pc[s], job'[s] = job[s], held'[s] = held[s],
           \A t \in Tokens : owner[t] # None => owner'[t] = owner[t],
           used \subseteq used', users' \subseteq users,
           held[s] \cap ({job[s].user} \X Modes) # {} => job[s].user \in users',
           pc[s] = "commit" /\ job[s].op = "request" =>
               /\ owner'[job[s].token] = None
               /\ \A o \in Slots \ {s} : job'[o].token # job[s].token
    PROVE  SessionOK(s)'
<1> DEFINE j == job[s]
<1>1. job[s] \in Jobs /\ Coherent(s) /\ Pinned(s)
    BY DEF ResetsTypeOK, SessionOK
<1>2. j.seen \subseteq Tokens /\ j.known \subseteq Tokens
    BY <1>1 DEF Jobs
<1>3. j.user # None \/ (j.seen = {} /\ j.known = {} /\ j.op = "none")
    BY <1>1, NoneAssumption DEF Coherent, NoJob
<1>4. \A t \in j.seen : owner'[t] = j.user
    BY <1>1, <1>2, <1>3 DEF Coherent
<1>5. ASSUME NEW t \in j.known PROVE owner'[t] # None /\ (t \in Unused(j.user)' => t \in j.seen)
    <2>1. t \in Tokens /\ owner[t] # None /\ owner'[t] = owner[t]
        BY <1>1, <1>2 DEF Coherent
    <2>2. t \in Unused(j.user)' => t \in Unused(j.user)
        BY <2>1 DEF Unused
    <2> QED BY <1>1, <2>1, <2>2 DEF Coherent
<1>6. j.op = "confirm" => owner'[j.token] = j.user
    BY <1>1, <1>3 DEF Coherent
<1>7. Coherent(s)'
    BY <1>1, <1>4, <1>5, <1>6 DEF Coherent
<1>8. Pinned(s)'
    BY <1>1 DEF Pinned, Wrote
<1> QED BY <1>7, <1>8 DEF SessionOK

(* A step of s that leaves the rows alone.                                 *)
LEMMA AdvanceInv ==
    ASSUME Inv, NEW s \in Slots, NEW label \in Labels, UNCHANGED <<rows, outbox, mailed>>,
           Goto(s, label),
           job' \in [Slots -> Jobs], \A o \in Slots \ {s} : job'[o] = job[o],
           held' \in [Slots -> SUBSET Locks], \A o \in Slots \ {s} : held'[o] = held[o],
           Compatible(held'), SessionOK(s)',
           \A o \in Slots \ {s} :
               pc[o] = "commit" /\ job[o].op = "request" => job'[s].token # job[o].token
    PROVE  Inv'
<1>1. /\ ResetsTypeOK /\ LinksOK /\ \A o \in Slots : SessionOK(o)
      /\ pc \in [Slots -> Labels] /\ pc' = [pc EXCEPT ![s] = label]
    BY InvParts DEF ResetsTypeOK, Goto
<1>2. ResetsTypeOK' /\ LinksOK'
    BY <1>1 DEF ResetsTypeOK, TypeOK, LinksOK, rows
<1>3. ASSUME NEW o \in Slots, o # s PROVE SessionOK(o)'
    <2>1. /\ owner' = owner /\ used' = used /\ users' = users
          /\ pc'[o] = pc[o] /\ job'[o] = job[o] /\ held'[o] = held[o]
        BY <1>1, <1>3 DEF rows
    <2>2. pc[o] = "commit" /\ job[o].op = "request" =>
              /\ owner'[job[o].token] = None
              /\ \A p \in Slots \ {o} : job'[p].token # job[o].token
        <3> SUFFICES ASSUME pc[o] = "commit", job[o].op = "request"
                     PROVE  /\ owner'[job[o].token] = None
                            /\ \A p \in Slots \ {o} : job'[p].token # job[o].token
            OBVIOUS
        <3>1. /\ owner[job[o].token] = None
              /\ \A p \in Slots \ {o} : job[p].token # job[o].token
            BY <1>1 DEF SessionOK, Pinned
        <3>2. job'[s].token # job[o].token
            BY <1>3
        <3>3. \A p \in Slots \ {o, s} : job'[p] = job[p]
            OBVIOUS
        <3> QED BY <2>1, <3>1, <3>2, <3>3
    <2>3. held[o] \cap ({job[o].user} \X Modes) # {} => job[o].user \in users'
        BY <1>1, <2>1 DEF SessionOK, Pinned
    <2> QED BY <1>1, <2>1, <2>2, <2>3, SessionFrame
<1> QED BY <1>2, <1>3 DEF Inv, ResetsInv, SessionOK, LinksOK

(* A session that is given back.                                           *)
LEMMA Released ==
    ASSUME Inv, NEW s \in Slots, Release(s)
    PROVE  /\ pc' \in [Slots -> Labels] /\ job' \in [Slots -> Jobs]
           /\ held' \in [Slots -> SUBSET Locks]
           /\ Compatible(held') /\ SessionOK(s)' /\ job'[s] = NoJob
           /\ \A o \in Slots \ {s} :
                 pc'[o] = pc[o] /\ job'[o] = job[o] /\ held'[o] = held[o]
<1>1. /\ pc \in [Slots -> Labels] /\ job \in [Slots -> Jobs]
      /\ held \in [Slots -> SUBSET Locks] /\ Compatible(held)
    BY InvParts DEF ResetsTypeOK
<1>2. /\ pc' = [pc EXCEPT ![s] = "idle"] /\ job' = [job EXCEPT ![s] = NoJob]
      /\ held' = [held EXCEPT ![s] = {}]
    BY DEF Release, Goto
<1>3. "idle" \in Labels
    BY DEF Labels
<1>4. SessionOK(s)'
    BY <1>1, <1>2 DEF SessionOK, Coherent, Pinned, NoJob
<1>5. Compatible(held')
    BY <1>1, <1>2, FreeCompatible
<1> QED BY <1>1, <1>2, <1>3, <1>4, <1>5, NoJobTyped

LEMMA FailInv ==
    ASSUME Inv, NEW s \in Slots, Fail(s)
    PROVE  Inv'
<1>1. Release(s) /\ UNCHANGED <<rows, outbox, mailed>> /\ Goto(s, "idle") /\ "idle" \in Labels
    BY DEF Fail, Release, Labels
<1>2. \A o \in Slots : pc[o] = "commit" /\ job[o].op = "request" => job[o].token # None
    BY InvParts DEF SessionOK, Coherent
<1>3. \A o \in Slots \ {s} :
          pc[o] = "commit" /\ job[o].op = "request" => job'[s].token # job[o].token
    BY <1>1, <1>2, Released DEF NoJob
<1> QED BY <1>1, <1>3, Released, AdvanceInv

(* An idle session takes up a request, and a session goes on to another    *)
(* statement with the same token, or with no new one: nobody else is       *)
(* disturbed.                                                              *)
LEMMA NewTokensDiffer ==
    ASSUME Inv, NEW s \in Slots, NEW token,
           token = None \/ token = job[s].token
             \/ (token \in Tokens /\ owner[token] # None)
             \/ (\A o \in Slots : job[o].token # token),
           NEW o \in Slots \ {s}, pc[o] = "commit", job[o].op = "request"
    PROVE  token # job[o].token
<1>1. Coherent(o) /\ Pinned(o)
    BY InvParts DEF SessionOK
<1> QED BY <1>1 DEF Coherent, Pinned

LEMMA AskInv ==
    ASSUME Inv, NEW s \in Slots, NEW u \in Users, Ask(s, u)
    PROVE  Inv'
<1> DEFINE j == [NoJob EXCEPT !.op = "request", !.user = u]
<1>1. /\ pc[s] = "idle" /\ Goto(s, "match") /\ UNCHANGED <<rows, held, outbox, mailed>>
      /\ job' = [job EXCEPT ![s] = j] /\ "match" \in Labels
    BY DEF Ask, Labels
<1>2. /\ job \in [Slots -> Jobs] /\ held \in [Slots -> SUBSET Locks] /\ Compatible(held)
      /\ pc \in [Slots -> Labels] /\ SessionOK(s)
    BY InvParts DEF ResetsTypeOK
<1>3. /\ j \in Jobs /\ j.op = "request" /\ j.user = u /\ j.token = None
      /\ j.seen = {} /\ j.known = {}
    BY DEF NoJob, Jobs
<1> HIDE DEF j
<1>4. /\ pc'[s] = "match" /\ job'[s] = j /\ held'[s] = {}
      /\ job' \in [Slots -> Jobs] /\ \A o \in Slots \ {s} : job'[o] = job[o]
    BY <1>1, <1>2, <1>3 DEF Goto, SessionOK, Coherent
<1>5. SessionOK(s)'
    BY <1>3, <1>4 DEF SessionOK, Coherent, Pinned
<1> QED BY <1>1, <1>2, <1>3, <1>4, <1>5, NewTokensDiffer, AdvanceInv

LEMMA OpenInv ==
    ASSUME Inv, NEW s \in Slots, NEW t \in Tokens, Open(s, t)
    PROVE  Inv'
<1> DEFINE j == [NoJob EXCEPT !.op = "confirm", !.user = owner[t], !.token = t,
                             !.valid = Valid(t)]
<1>1. /\ pc[s] = "idle" /\ Goto(s, "user") /\ UNCHANGED <<rows, held, outbox, mailed>>
      /\ job' = [job EXCEPT ![s] = j] /\ "user" \in Labels /\ GetValid(t)
    BY DEF Open, Labels
<1>2. /\ job \in [Slots -> Jobs] /\ held \in [Slots -> SUBSET Locks] /\ Compatible(held)
      /\ pc \in [Slots -> Labels] /\ SessionOK(s) /\ users \subseteq Users
    BY InvParts DEF ResetsTypeOK, TypeOK
<1>3. Valid(t) /\ owner[t] \in Users /\ owner[t] # None
    BY <1>1, <1>2, NoneAssumption DEF GetValid, Valid
<1>4. /\ j \in Jobs /\ j.op = "confirm" /\ j.user = owner[t] /\ j.token = t
      /\ j.seen = {} /\ j.known = {} /\ j.valid
    BY <1>3 DEF NoJob, Jobs
<1> HIDE DEF j
<1>5. /\ pc'[s] = "user" /\ job'[s] = j /\ held'[s] = {} /\ owner' = owner
      /\ job' \in [Slots -> Jobs] /\ \A o \in Slots \ {s} : job'[o] = job[o]
    BY <1>1, <1>2, <1>4 DEF Goto, SessionOK, Coherent, rows
<1>6. SessionOK(s)'
    BY <1>3, <1>4, <1>5 DEF SessionOK, Coherent, Pinned
<1> QED BY <1>1, <1>2, <1>3, <1>4, <1>5, <1>6, NewTokensDiffer, AdvanceInv

LEMMA MatchInv ==
    ASSUME Inv, NEW s \in Slots, Match(s)
    PROVE  Inv'
<1> DEFINE j == [job[s] EXCEPT !.seen = Matching(job[s].user),
                               !.known = {t \in Tokens : owner[t] # None}]
<1>1. /\ pc[s] = "match" /\ Goto(s, "void") /\ UNCHANGED <<rows, held, outbox, mailed>>
      /\ job' = [job EXCEPT ![s].seen = Matching(job[s].user),
                            ![s].known = {t \in Tokens : owner[t] # None}]
      /\ "void" \in Labels
    BY DEF Match, Labels
<1>2. /\ job \in [Slots -> Jobs] /\ held \in [Slots -> SUBSET Locks] /\ Compatible(held)
      /\ pc \in [Slots -> Labels] /\ Coherent(s) /\ Pinned(s)
    BY InvParts DEF ResetsTypeOK, SessionOK
<1>3. job[s] \in Jobs /\ Matching(job[s].user) \subseteq Tokens
    BY <1>2 DEF Matching
<1>4. /\ j \in Jobs /\ j.op = job[s].op /\ j.user = job[s].user /\ j.token = job[s].token
      /\ j.seen = Matching(j.user) /\ j.known = {t \in Tokens : owner[t] # None}
    BY <1>3 DEF Jobs
<1>5. job' = [job EXCEPT ![s] = j]
    BY <1>1, <1>2
<1> HIDE DEF j
<1>6. /\ pc'[s] = "void" /\ job'[s] = j /\ held'[s] = held[s]
      /\ owner' = owner /\ used' = used /\ users' = users
      /\ job' \in [Slots -> Jobs] /\ \A o \in Slots \ {s} : job'[o] = job[o]
    BY <1>1, <1>2, <1>4, <1>5 DEF Goto, rows
<1>7. j.op = "request" /\ j.user \in Users /\ j.token = None
    BY <1>1, <1>2, <1>4 DEF Coherent
<1>8. Coherent(s)'
    BY <1>4, <1>6, <1>7 DEF Coherent, Matching, Unused
<1>9. Pinned(s)'
    BY <1>2, <1>4, <1>6 DEF Pinned
<1>10. \A o \in Slots \ {s} :
           pc[o] = "commit" /\ job[o].op = "request" => job'[s].token # job[o].token
    BY <1>6, <1>7, NewTokensDiffer
<1>11. SessionOK(s)' /\ held' = held
    BY <1>1, <1>8, <1>9 DEF SessionOK
<1> QED BY <1>1, <1>2, <1>6, <1>10, <1>11, AdvanceInv

LEMMA VoidInv ==
    ASSUME Inv, NEW s \in Slots, Void(s)
    PROVE  Inv'
<1>1. /\ pc[s] = "void" /\ Take(s) /\ Goto(s, "insert")
      /\ UNCHANGED <<rows, job, outbox, mailed>> /\ "insert" \in Labels
    BY DEF Void, Labels
<1>2. /\ job \in [Slots -> Jobs] /\ pc \in [Slots -> Labels] /\ Coherent(s) /\ Pinned(s)
    BY InvParts DEF ResetsTypeOK, SessionOK
<1>3. pc'[s] = "insert" /\ owner' = owner /\ used' = used /\ users' = users
    BY <1>1, <1>2 DEF Goto, rows
<1>4. Coherent(s)'
    BY <1>1, <1>2, <1>3 DEF Coherent, Unused
<1>5. Pinned(s)'
    <2>1. \A l \in Wanted(s) : l[1] \in Matching(job[s].user)
        BY <1>1 DEF Wanted, Rows
    <2>2. ASSUME held'[s] \cap ({job[s].user} \X Modes) # {} PROVE job[s].user \in users'
        <3>1. PICK l \in held'[s] : l[1] = job[s].user /\ l \in {job[s].user} \X Modes
            BY <2>2
        <3>2. CASE l \in held[s]
            BY <1>2, <1>3, <3>1, <3>2 DEF Pinned
        <3>3. CASE l \in Wanted(s)
            BY <1>3, <2>1, <3>1, <3>3 DEF Matching
        <3> QED BY <1>1, <3>1, <3>2, <3>3, TakeTyped
    <2> QED BY <1>1, <1>3, <2>2 DEF Pinned
<1> QED BY <1>1, <1>2, <1>4, <1>5, TakeTyped, NewTokensDiffer, AdvanceInv DEF SessionOK

LEMMA InsertInv ==
    ASSUME Inv, NEW s \in Slots, NEW t \in Tokens, Insert(s, t)
    PROVE  Inv'
<1> DEFINE j == [job[s] EXCEPT !.token = t]
<1>1. /\ pc[s] = "insert" /\ Take(s) /\ Goto(s, "commit") /\ Fresh(t)
      /\ job[s].user \in users /\ UNCHANGED <<rows, outbox, mailed>>
      /\ job' = [job EXCEPT ![s].token = t] /\ "commit" \in Labels
    BY DEF Insert, Labels
<1>2. /\ job \in [Slots -> Jobs] /\ pc \in [Slots -> Labels] /\ Coherent(s) /\ Pinned(s)
    BY InvParts DEF ResetsTypeOK, SessionOK
<1>3. job[s] \in Jobs
    BY <1>2
<1>4. /\ j \in Jobs /\ j.op = job[s].op /\ j.user = job[s].user /\ j.token = t
      /\ j.seen = job[s].seen /\ j.known = job[s].known /\ job' = [job EXCEPT ![s] = j]
    BY <1>1, <1>2, <1>3 DEF Jobs
<1> HIDE DEF j
<1>5. /\ pc'[s] = "commit" /\ job'[s] = j
      /\ owner' = owner /\ used' = used /\ users' = users
      /\ job' \in [Slots -> Jobs] /\ \A o \in Slots \ {s} : job'[o] = job[o]
    BY <1>1, <1>2, <1>4 DEF Goto, rows
<1>6. j.op = "request" /\ j.user \in Users /\ t # None
    BY <1>1, <1>2, <1>4, NoneAssumption DEF Coherent
<1>7. Coherent(s)'
    BY <1>2, <1>4, <1>5, <1>6 DEF Coherent, Unused
<1>8. <<j.user, "key share">> \in held'[s]
    <2>1. <<j.user, "key share">> \in Wanted(s)
        BY <1>1, <1>4 DEF Wanted, Rows, Row, Mode
    <2> QED BY <1>1, <2>1, TakeTyped
<1>9. Pinned(s)'
    BY <1>1, <1>4, <1>5, <1>6, <1>8 DEF Pinned, Fresh
<1>10. \A o \in Slots \ {s} :
           pc[o] = "commit" /\ job[o].op = "request" => job'[s].token # job[o].token
    BY <1>1, <1>4, <1>5 DEF Fresh
<1>11. SessionOK(s)'
    BY <1>7, <1>9 DEF SessionOK
<1> QED BY <1>1, <1>5, <1>10, <1>11, TakeTyped, AdvanceInv

LEMMA ReadUserInv ==
    ASSUME Inv, NEW s \in Slots, ReadUser(s)
    PROVE  Inv'
<1> DEFINE j == [job[s] EXCEPT !.active = job[s].user \in active]
<1>1. PICK first \in {"password", "token"} : Goto(s, first)
    BY DEF ReadUser
<1>2. /\ pc[s] = "user" /\ job[s].user \in active /\ first \in Labels
      /\ job' = [job EXCEPT ![s].active = job[s].user \in active]
      /\ UNCHANGED <<rows, held, outbox, mailed>>
    BY DEF ReadUser, Labels
<1>3. /\ job \in [Slots -> Jobs] /\ held \in [Slots -> SUBSET Locks] /\ Compatible(held)
      /\ pc \in [Slots -> Labels] /\ Coherent(s) /\ Pinned(s)
    BY InvParts DEF ResetsTypeOK, SessionOK
<1>4. job[s] \in Jobs
    BY <1>3
<1>5. /\ j \in Jobs /\ j.op = job[s].op /\ j.user = job[s].user /\ j.token = job[s].token
      /\ j.seen = job[s].seen /\ j.known = job[s].known /\ j.valid = job[s].valid
      /\ j.active /\ job' = [job EXCEPT ![s] = j]
    BY <1>2, <1>3, <1>4 DEF Jobs
<1> HIDE DEF j
<1>6. /\ pc'[s] = first /\ job'[s] = j /\ held' = held
      /\ owner' = owner /\ used' = used /\ users' = users
      /\ job' \in [Slots -> Jobs] /\ \A o \in Slots \ {s} : job'[o] = job[o]
    BY <1>1, <1>2, <1>3, <1>5 DEF Goto, rows
<1>7. Coherent(s)'
    BY <1>2, <1>3, <1>5, <1>6 DEF Coherent, Unused
<1>8. Pinned(s)'
    BY <1>2, <1>3, <1>5, <1>6 DEF Pinned
<1>9. \A o \in Slots \ {s} :
          pc[o] = "commit" /\ job[o].op = "request" => job'[s].token # job[o].token
    BY <1>5, <1>6, NewTokensDiffer
<1>10. SessionOK(s)'
    BY <1>7, <1>8 DEF SessionOK
<1> QED BY <1>1, <1>2, <1>3, <1>6, <1>9, <1>10, AdvanceInv

LEMMA WriteInv ==
    ASSUME Inv, NEW s \in Slots, Write(s)
    PROVE  Inv'
<1> DEFINE label == IF Wrote(s, Row(s, Other(s))) THEN "commit" ELSE Other(s)
<1>1. /\ pc[s] \in {"password", "token"} /\ Take(s) /\ Goto(s, label)
      /\ job[s].user \in users /\ UNCHANGED <<rows, job, outbox, mailed>>
      /\ label \in Labels /\ label \in {"password", "token", "commit"}
    BY DEF Write, Labels, Other
<1>2. /\ job \in [Slots -> Jobs] /\ pc \in [Slots -> Labels] /\ Coherent(s) /\ Pinned(s)
    BY InvParts DEF ResetsTypeOK, SessionOK
<1>3. label = "commit" => Wrote(s, Row(s, Other(s)))
    BY DEF Other
<1> HIDE DEF label
<1>4. pc'[s] = label /\ owner' = owner /\ used' = used /\ users' = users
    BY <1>1, <1>2 DEF Goto, rows
<1>5. job[s].op = "confirm" /\ job[s].token # None
    BY <1>1, <1>2, NoneAssumption DEF Coherent
<1>6. Coherent(s)'
    BY <1>1, <1>2, <1>4, <1>5 DEF Coherent, Unused
<1>7. <<Row(s, pc[s]), "no key update">> \in held'[s] /\ held[s] \subseteq held'[s]
    <2>1. <<Row(s, pc[s]), "no key update">> \in Wanted(s)
        BY <1>1 DEF Wanted, Rows, Mode
    <2> QED BY <1>1, <2>1, TakeTyped
<1>8. pc'[s] = "commit" => Wrote(s, job[s].user)' /\ Wrote(s, job[s].token)'
    BY <1>1, <1>3, <1>4, <1>7 DEF Wrote, Row, Other
<1>9. Pinned(s)'
    BY <1>1, <1>4, <1>5, <1>8 DEF Pinned, Wrote
<1>10. \A o \in Slots \ {s} :
           pc[o] = "commit" /\ job[o].op = "request" => job'[s].token # job[o].token
    BY <1>1, NewTokensDiffer
<1>11. SessionOK(s)'
    BY <1>6, <1>9 DEF SessionOK
<1> QED BY <1>1, <1>2, <1>10, <1>11, TakeTyped, AdvanceInv

LEMMA StatementInv ==
    ASSUME Inv, NEW s \in Slots, Statement(s)
    PROVE  Inv'
<1>1. UserRefused(s) \/ StatementFails(s) => Fail(s)
    BY DEF UserRefused, StatementFails
<1> QED BY <1>1, FailInv, MatchInv, VoidInv, InsertInv, ReadUserInv, WriteInv DEF Statement

(* The rows a commit changes, as far as other sessions depend on them.     *)
LEMMA OthersKept ==
    ASSUME Inv, NEW s \in Slots, Release(s),
           \A t \in Tokens : owner[t] # None => owner'[t] = owner[t],
           used \subseteq used', users' = users,
           NEW o \in Slots, o # s,
           pc[o] = "commit" /\ job[o].op = "request" => owner'[job[o].token] = None
    PROVE  SessionOK(o)'
<1>1. ResetsTypeOK /\ SessionOK(o)
    BY InvParts
<1>2. pc[o] = "commit" /\ job[o].op = "request" =>
          /\ owner'[job[o].token] = None
          /\ \A p \in Slots \ {o} : job'[p].token # job[o].token
    <2>1. NoJob.token = None
        BY DEF NoJob
    <2>2. pc[o] = "commit" /\ job[o].op = "request" =>
              /\ job[o].token # None
              /\ \A p \in Slots \ {o} : job[p].token # job[o].token
        BY <1>1 DEF SessionOK, Pinned, Coherent
    <2>3. job'[s] = NoJob /\ \A p \in Slots \ {s} : job'[p] = job[p]
        BY Released
    <2>4. ASSUME NEW p \in Slots \ {o}, pc[o] = "commit", job[o].op = "request"
          PROVE  job'[p].token # job[o].token
        <3>1. CASE p = s
            BY <2>1, <2>2, <2>3, <2>4, <3>1
        <3>2. CASE p # s
            BY <2>2, <2>3, <2>4, <3>2
        <3> QED BY <3>1, <3>2
    <2> QED BY <2>4
<1>3. held[o] \cap ({job[o].user} \X Modes) # {} => job[o].user \in users'
    BY <1>1 DEF SessionOK, Pinned
<1> QED BY <1>1, <1>2, <1>3, Released, SessionFrame

LEMMA CommitInv ==
    ASSUME Inv, NEW s \in Slots, Commit(s)
    PROVE  Inv'
<1> DEFINE j == job[s]
<1>1. /\ pc[s] = "commit" /\ Release(s) /\ Coherent(s) /\ Pinned(s)
      /\ ResetsTypeOK /\ LinksOK /\ j \in Jobs /\ TypeOK
      /\ \A o \in Slots : SessionOK(o)
    BY InvParts DEF Commit, SessionOK, ResetsTypeOK
<1>2. j.token \in Tokens /\ j.user \in Users /\ j.user # None /\ j.seen \subseteq Tokens
    BY <1>1, NoneAssumption DEF Coherent, Jobs
<1>3. CASE CommitRequest(s)
    <2>1. /\ owner' = [owner EXCEPT ![j.token] = j.user] /\ owner[j.token] = None
          /\ used' = used \cup j.seen /\ outbox' = outbox \cup {j.token}
          /\ UNCHANGED <<users, active, lapsed, uses, mailed>>
        BY <1>1, <1>3 DEF CommitRequest, Pinned
    <2>2. /\ \A t \in Tokens : owner[t] # None => owner'[t] = owner[t]
          /\ owner'[j.token] = j.user /\ \A t \in Tokens \ {j.token} : owner'[t] = owner[t]
        BY <1>1, <1>2, <2>1 DEF TypeOK
    <2>3. ASSUME NEW o \in Slots, o # s PROVE SessionOK(o)'
        <3>1. pc[o] = "commit" /\ job[o].op = "request" => owner'[job[o].token] = None
            <4>1. job[o] \in Jobs
                BY <1>1 DEF ResetsTypeOK
            <4>2. pc[o] = "commit" /\ job[o].op = "request" =>
                      /\ owner[job[o].token] = None /\ job[o].token \in Tokens
                      /\ job[s].token # job[o].token
                BY <1>1, <2>3, <4>1 DEF SessionOK, Pinned, Coherent, Jobs
            <4> QED BY <2>2, <4>2
        <3> QED BY <1>1, <2>1, <2>2, <2>3, <3>1, OthersKept
    <2>4. ResetsTypeOK'
        BY <1>1, <1>2, <2>1, Released DEF ResetsTypeOK, TypeOK
    <2>5. LinksOK'
        <3>1. \A t \in j.seen : owner[t] # None
            BY <1>1, <1>2, NoneAssumption DEF Coherent
        <3>2. outbox \subseteq Tokens /\ mailed \subseteq Tokens /\ used \subseteq Tokens
            BY <1>1 DEF ResetsTypeOK, TypeOK
        <3> QED BY <1>1, <1>2, <2>1, <2>2, <3>1, <3>2 DEF LinksOK
    <2> QED BY <1>1, <2>3, <2>4, <2>5, Released DEF Inv, ResetsInv, SessionOK, LinksOK
<1>4. CASE CommitConfirm(s)
    <2>1. /\ used' = used \cup {j.token} /\ uses' = [uses EXCEPT ![j.token] = @ + 1]
          /\ UNCHANGED <<users, active, owner, lapsed, outbox, mailed>>
          /\ owner[j.token] # None
        BY <1>1, <1>2, <1>4 DEF CommitConfirm, Coherent
    <2>2. ASSUME NEW o \in Slots, o # s PROVE SessionOK(o)'
        <3>1. pc[o] = "commit" /\ job[o].op = "request" => owner'[job[o].token] = None
            BY <1>1, <2>1 DEF SessionOK, Pinned
        <3> QED BY <1>1, <2>1, <2>2, <3>1, OthersKept
    <2>3. ResetsTypeOK'
        BY <1>1, <1>2, <2>1, Released DEF ResetsTypeOK, TypeOK
    <2>4. LinksOK'
        BY <1>1, <2>1 DEF LinksOK, TypeOK
    <2> QED BY <1>1, <2>2, <2>3, <2>4, Released DEF Inv, ResetsInv, SessionOK, LinksOK
<1> QED BY <1>3, <1>4 DEF Commit

-----------------------------------------------------------------------------
(* The steps of the environment.                                           *)

(* Nothing in the sessions changes.                                        *)
LEMMA SessionsKept ==
    ASSUME Inv, UNCHANGED <<pc, job, held>>, owner' = owner, used' = used,
           users' \subseteq users,
           \A s \in Slots :
               held[s] \cap ({job[s].user} \X Modes) # {} => job[s].user \in users'
    PROVE  /\ Compatible(held)' /\ \A s \in Slots : SessionOK(s)'
<1>1. ResetsTypeOK /\ Compatible(held) /\ \A s \in Slots : SessionOK(s)
    BY InvParts
<1>2. ASSUME NEW s \in Slots PROVE SessionOK(s)'
    <2>1. pc[s] = "commit" /\ job[s].op = "request" =>
              /\ owner'[job[s].token] = None
              /\ \A o \in Slots \ {s} : job'[o].token # job[s].token
        BY <1>1 DEF SessionOK, Pinned
    <2> QED BY <1>1, <2>1, SessionFrame
<1> QED BY <1>1, <1>2

LEMMA UsersLocked ==
    ASSUME Inv, NEW s \in Slots
    PROVE  held[s] \cap ({job[s].user} \X Modes) # {} => job[s].user \in users
BY InvParts DEF SessionOK, Pinned

LEMMA MailInv ==
    ASSUME Inv, NEW t \in Tokens, Send(t) \/ SendFails(t)
    PROVE  Inv'
<1>1. /\ t \in outbox /\ outbox' \subseteq outbox /\ mailed' \subseteq mailed \cup {t}
      /\ UNCHANGED <<rows, pc, job, held>>
    BY DEF Send, SendFails
<1>2. /\ owner' = owner /\ used' = used /\ users' = users /\ uses' = uses
      /\ ResetsTypeOK' /\ ResetsTypeOK /\ LinksOK
    BY <1>1, InvParts DEF rows, ResetsTypeOK, TypeOK
<1>3. LinksOK'
    BY <1>1, <1>2 DEF LinksOK
<1>4. Compatible(held)' /\ \A s \in Slots : SessionOK(s)'
    BY <1>1, <1>2, UsersLocked, SessionsKept
<1> QED BY <1>2, <1>3, <1>4 DEF Inv, ResetsInv, SessionOK, LinksOK

LEMMA ExpireInv ==
    ASSUME Inv, NEW t \in Tokens, Expire(t)
    PROVE  Inv'
<1>1. /\ owner' = owner /\ used' = used /\ users' = users /\ uses' = uses /\ active' = active
      /\ lapsed' = lapsed \cup {t} /\ UNCHANGED <<pc, job, held, outbox, mailed>>
    BY DEF Expire, Lapse
<1>2. ResetsTypeOK' /\ LinksOK'
    BY <1>1, InvParts DEF ResetsTypeOK, TypeOK, LinksOK
<1>3. Compatible(held)' /\ \A s \in Slots : SessionOK(s)'
    BY <1>1, UsersLocked, SessionsKept
<1> QED BY <1>2, <1>3 DEF Inv, ResetsInv, SessionOK, LinksOK

LEMMA SwitchInv ==
    ASSUME Inv, NEW u \in Users, SwitchUser(u)
    PROVE  Inv'
<1>1. /\ owner' = owner /\ used' = used /\ users' = users /\ uses' = uses /\ lapsed' = lapsed
      /\ active' \subseteq active \cup {u} /\ u \in users
      /\ UNCHANGED <<pc, job, held, outbox, mailed>>
    BY DEF SwitchUser, Switch
<1>2. ResetsTypeOK' /\ LinksOK'
    BY <1>1, InvParts DEF ResetsTypeOK, TypeOK, LinksOK
<1>3. Compatible(held)' /\ \A s \in Slots : SessionOK(s)'
    BY <1>1, UsersLocked, SessionsKept
<1> QED BY <1>2, <1>3 DEF Inv, ResetsInv, SessionOK, LinksOK

(* A deletion waits for everybody who has locked the user's row.           *)
LEMMA EraseInv ==
    ASSUME Inv, NEW u \in Users, EraseUser(u)
    PROVE  Inv'
<1>1. /\ owner' = owner /\ used' = used /\ users' = users \ {u} /\ uses' = uses
      /\ lapsed' = lapsed /\ active' = active \ {u}
      /\ UNCHANGED <<pc, job, held, outbox, mailed>>
    BY DEF EraseUser, Erase
<1>2. ResetsTypeOK' /\ LinksOK'
    BY <1>1, InvParts DEF ResetsTypeOK, TypeOK, LinksOK
<1>3. ASSUME NEW s \in Slots, held[s] \cap ({job[s].user} \X Modes) # {}
      PROVE  job[s].user \in users'
    <2>1. PICK l \in held[s] : l[1] = job[s].user
        BY <1>3
    <2>2. \A m : Conflict(m, "update")
        BY DEF Conflict
    <2>3. job[s].user # u
        BY <2>1, <2>2 DEF EraseUser, Free
    <2> QED BY <1>1, <1>3, <2>3, UsersLocked
<1>4. Compatible(held)' /\ \A s \in Slots : SessionOK(s)'
    BY <1>1, <1>3, SessionsKept
<1> QED BY <1>2, <1>4 DEF Inv, ResetsInv, SessionOK, LinksOK

LEMMA CrashInv ==
    ASSUME Inv, Crash
    PROVE  Inv'
<1>1. /\ pc' = [s \in Slots |-> "idle"] /\ job' = [s \in Slots |-> NoJob]
      /\ held' = [s \in Slots |-> {}] /\ outbox' = {} /\ UNCHANGED <<rows, mailed>>
      /\ "idle" \in Labels
    BY DEF Crash, Labels
<1>2. ResetsTypeOK' /\ LinksOK'
    BY <1>1, InvParts, NoJobTyped DEF ResetsTypeOK, TypeOK, LinksOK, rows
<1>3. ASSUME NEW s \in Slots PROVE SessionOK(s)'
    BY <1>1 DEF SessionOK, Coherent, Pinned, NoJob
<1>4. Compatible(held')
    BY <1>1 DEF Compatible
<1> QED BY <1>2, <1>3, <1>4 DEF Inv, ResetsInv, SessionOK, LinksOK

LEMMA Stutter == Inv /\ UNCHANGED vars => Inv'
<1> SUFFICES ASSUME Inv, UNCHANGED vars PROVE Inv'
    OBVIOUS
<1>1. /\ users' = users /\ active' = active /\ owner' = owner /\ used' = used
      /\ lapsed' = lapsed /\ uses' = uses
      /\ UNCHANGED <<pc, job, held, outbox, mailed>>
    BY DEF vars, rows
<1>2. ResetsTypeOK' /\ LinksOK'
    BY <1>1, InvParts DEF ResetsTypeOK, TypeOK, LinksOK
<1>3. Compatible(held)' /\ \A s \in Slots : SessionOK(s)'
    BY <1>1, UsersLocked, SessionsKept
<1> QED BY <1>2, <1>3 DEF Inv, ResetsInv, SessionOK, LinksOK

LEMMA NextInv == Inv /\ [ResetsNext]_vars => Inv'
<1> SUFFICES ASSUME Inv, ResetsNext PROVE Inv'
    BY Stutter
<1>1. ASSUME NEW s \in Slots, DeadlockVictim(s) PROVE Fail(s)
    BY <1>1 DEF DeadlockVictim
<1> QED BY <1>1, AskInv, OpenInv, StatementInv, CommitInv, FailInv, MailInv, ExpireInv,
           SwitchInv, EraseInv, CrashInv
        DEF ResetsNext

(* In every state every variable of the password reset has its type.       *)
THEOREM ResetsTypeCorrect == ResetsSpec => []ResetsTypeOK
<1>1. Inv => ResetsTypeOK
    BY DEF Inv
<1> QED BY <1>1, InitInv, NextInv, PTL DEF ResetsSpec

(* In every state incompatible locks are never held together, a request    *)
(* that commits keeps the rows it writes and its user, and every link that *)
(* has left belongs to a committed token (endpoints/auth.py:78-93,         *)
(* 111-126).                                                               *)
THEOREM ResetsInvariant == ResetsSpec => []ResetsInv
<1>1. Inv => ResetsInv
    BY DEF Inv
<1> QED BY <1>1, InitInv, NextInv, PTL DEF ResetsSpec

-----------------------------------------------------------------------------
(* The serial promises.                                                    *)

LEMMA QuietSteps ==
    ASSUME ResetsNext, ~\E s \in Slots : Commit(s)
    PROVE  \/ \E t \in Tokens : Lapse(t)
           \/ \E u \in Users : Switch(u) \/ Erase(u)
           \/ UNCHANGED rows
BY DEF ResetsNext, Ask, Open, Statement, Match, Void, Insert, ReadUser, UserRefused, Write,
       StatementFails, DeadlockVictim, Fail, Send, SendFails, Expire, SwitchUser, EraseUser,
       Crash

LEMMA SerialCommit ==
    ASSUME Inv, NEW s \in Slots, Commit(s), ~Overtaken(s)
    PROVE  \/ \E u \in Users, t \in Tokens : Request(u, t)
           \/ \E t \in Tokens : Confirm(t)
<1> DEFINE j == job[s]
<1>1. /\ pc[s] = "commit" /\ Coherent(s) /\ Pinned(s) /\ j \in Jobs
    BY InvParts DEF Commit, SessionOK, ResetsTypeOK
<1>2. j.token \in Tokens /\ j.user \in Users
    BY <1>1, NoneAssumption DEF Coherent, Jobs
<1>3. CASE CommitRequest(s)
    <2>1. j.op = "request" /\ owner[j.token] = None /\ <<j.user, "key share">> \in held[s]
        BY <1>1, <1>3 DEF CommitRequest, Pinned
    <2>2. j.user \in users
        <3>1. <<j.user, "key share">> \in held[s] \cap ({j.user} \X Modes)
            BY <2>1 DEF Modes
        <3> QED BY <1>1, <3>1 DEF Pinned
    <2>3. Unused(j.user) \subseteq j.seen
        BY <1>1, <2>1 DEF Overtaken, Coherent
    <2>4. j.seen \subseteq used \cup Unused(j.user)
        BY <1>1, <2>2 DEF Coherent, Unused, Jobs
    <2>5. used \cup j.seen = used \cup Unused(j.user)
        BY <2>3, <2>4
    <2>6. Request(j.user, j.token)
        BY <1>3, <2>1, <2>2, <2>5 DEF CommitRequest, Request
    <2> QED BY <1>2, <2>6
<1>4. CASE CommitConfirm(s)
    <2>1. j.op = "confirm" /\ Valid(j.token) /\ j.user \in active /\ owner[j.token] = j.user
        BY <1>1, <1>4 DEF CommitConfirm, Coherent, Overtaken
    <2>2. Confirm(j.token)
        BY <1>4, <2>1 DEF CommitConfirm, Confirm
    <2> QED BY <1>2, <2>2
<1> QED BY <1>3, <1>4 DEF Commit

(* With any number of concurrent requests, a step does what one request    *)
(* run alone would do, unless it commits after what it has read has        *)
(* changed (crud/password_reset.py:15-62).                                 *)
THEOREM ResetsSerialUpToOvertaking == ResetsSpec => SerialUnlessOvertaken
<1> DEFINE Late == \E s \in Slots : Commit(s) /\ Overtaken(s)
<1>1. Inv /\ [ResetsNext]_vars => [Next \/ Late]_rows
    <2> SUFFICES ASSUME Inv, [ResetsNext]_vars PROVE Next \/ Late \/ UNCHANGED rows
        OBVIOUS
    <2>1. CASE UNCHANGED vars
        BY <2>1 DEF vars
    <2>2. CASE ResetsNext /\ ~\E s \in Slots : Commit(s)
        BY <2>2, QuietSteps DEF Next
    <2>3. ASSUME NEW s \in Slots, Commit(s) PROVE Next \/ Late
        BY <2>3, SerialCommit DEF Next
    <2> QED BY <2>1, <2>2, <2>3
<1> QED BY <1>1, InitInv, NextInv, PTL DEF ResetsSpec, SerialUnlessOvertaken

-----------------------------------------------------------------------------
(* One link, one password.                                                 *)

Counted == \A t \in Tokens : uses[t] > 0 => t \in used

LEMMA ConfirmCounts ==
    ASSUME TypeOK, Counted, OneUse, NEW t \in Tokens, t \notin used,
           uses' = [uses EXCEPT ![t] = @ + 1], used' = used \cup {t}
    PROVE  Counted' /\ OneUse'
<1>1. uses[t] = 0
    BY DEF TypeOK, Counted
<1> QED BY <1>1 DEF TypeOK, Counted, OneUse

LEMMA SerialStep == TypeOK /\ Counted /\ OneUse /\ OneLink /\ [Next]_rows
                        => TypeOK' /\ Counted' /\ OneUse' /\ OneLink'
<1> SUFFICES ASSUME TypeOK, Counted, OneUse, OneLink, [Next]_rows
             PROVE  TypeOK' /\ Counted' /\ OneUse' /\ OneLink'
    OBVIOUS
<1>1. ASSUME NEW u \in Users, NEW t \in Tokens, Request(u, t)
      PROVE  TypeOK' /\ Counted' /\ OneUse' /\ OneLink'
    <2>1. TypeOK' /\ Counted' /\ OneUse'
        BY <1>1 DEF Request, TypeOK, Counted, OneUse, Unused
    <2>2. Unused(u)' \subseteq {t}
        BY <1>1 DEF Request, TypeOK, Unused
    <2>3. ASSUME NEW o \in Users, o # u PROVE Unused(o)' \subseteq Unused(o)
        BY <1>1, <2>3 DEF Request, TypeOK, Unused
    <2> QED BY <2>1, <2>2, <2>3 DEF OneLink
<1>2. ASSUME NEW t \in Tokens, Confirm(t)
      PROVE  TypeOK' /\ Counted' /\ OneUse' /\ OneLink'
    <2>1. Counted' /\ OneUse'
        BY <1>2, ConfirmCounts DEF Confirm, Valid
    <2>2. TypeOK'
        BY <1>2 DEF Confirm, TypeOK
    <2>3. \A o \in Users : Unused(o)' \subseteq Unused(o)
        BY <1>2 DEF Confirm, Unused
    <2> QED BY <2>1, <2>2, <2>3 DEF OneLink
<1>3. ASSUME UNCHANGED rows
      PROVE  TypeOK' /\ Counted' /\ OneUse' /\ OneLink'
    BY <1>3 DEF rows, TypeOK, Counted, OneUse, OneLink, Unused
<1>4. ASSUME NEW t \in Tokens, Lapse(t)
      PROVE  TypeOK' /\ Counted' /\ OneUse' /\ OneLink'
    BY <1>4 DEF Lapse, TypeOK, Counted, OneUse, OneLink, Unused
<1>5. ASSUME NEW u \in Users, Switch(u) \/ Erase(u)
      PROVE  TypeOK' /\ Counted' /\ OneUse' /\ OneLink'
    <2>1. /\ users' \subseteq users /\ owner' = owner /\ used' = used /\ uses' = uses
          /\ TypeOK'
        BY <1>5 DEF Switch, Erase, TypeOK
    <2>2. \A o \in Users : Unused(o)' \subseteq Unused(o)
        BY <2>1 DEF Unused
    <2> QED BY <2>1, <2>2 DEF OneLink, Counted, OneUse
<1> QED BY <1>1, <1>2, <1>3, <1>4, <1>5 DEF Next

LEMMA SerialInit == Init => TypeOK /\ Counted /\ OneUse /\ OneLink
BY NoneAssumption DEF Init, TypeOK, Counted, OneUse, OneLink, Unused

(* Run one at a time, the requests keep the promises of the reset: a link  *)
(* sets one password at most, and a user has one live link at most         *)
(* (crud/password_reset.py:24-33, 45-62).                                  *)
THEOREM SerialLinks == Spec => [](OneUse /\ OneLink)
BY SerialInit, SerialStep, PTL DEF Spec

(* With a pool of one session a link sets one password at most, whatever   *)
(* is switched off, deleted, lost or restarted in between: it takes two    *)
(* confirmations under way to break get_valid's check                      *)
(* (crud/password_reset.py:45-62).                                         *)
THEOREM OneSessionOneUse ==
    ASSUME NEW only, Slots = {only}
    PROVE  ResetsSpec => []OneUse
<1> DEFINE Fits == job[only].op = "confirm" => job[only].token \notin used
           OInv == Inv /\ OneUse /\ Fits
<1>1. ResetsInit => OInv
    BY InitInv DEF ResetsInit, Init, OneUse, NoJob
<1>2. OInv /\ [ResetsNext]_vars => OInv'
    <2> SUFFICES ASSUME OInv, [ResetsNext]_vars PROVE OneUse' /\ Fits'
        BY NextInv
    <2>1. ResetsTypeOK /\ TypeOK /\ Counted /\ LinksOK
        BY InvParts DEF ResetsTypeOK, LinksOK, Counted
    <2>2. job \in [Slots -> Jobs] /\ only \in Slots
        BY <2>1 DEF ResetsTypeOK
    <2>3. ASSUME Commit(only) PROVE OneUse' /\ Fits'
        <3>1. job' = [job EXCEPT ![only] = NoJob] /\ Fits'
            BY <2>2, <2>3 DEF Commit, Release, NoJob
        <3>2. CASE CommitRequest(only)
            BY <3>1, <3>2 DEF CommitRequest, OneUse
        <3>3. CASE CommitConfirm(only)
            <4>1. job[only].token \in Tokens /\ job[only].token \notin used
                BY <2>2, <3>3, InvParts DEF CommitConfirm, SessionOK, Coherent
            <4> QED BY <2>1, <3>1, <3>3, <4>1, ConfirmCounts DEF CommitConfirm
        <3> QED BY <2>3, <3>2, <3>3 DEF Commit
    <2>4. ASSUME NEW t \in Tokens, Open(only, t) PROVE OneUse' /\ Fits'
        <3>1. /\ job'[only].token = t /\ t \notin used /\ UNCHANGED rows
            BY <2>2, <2>4 DEF Open, GetValid, NoJob
        <3> QED BY <3>1 DEF rows, OneUse
    <2>5. ASSUME ResetsNext, ~Commit(only), ~\E t \in Tokens : Open(only, t)
          PROVE  OneUse' /\ Fits'
        <3>1. used' = used /\ uses' = uses
            BY <2>5, QuietSteps DEF Lapse, Switch, Erase, rows
        <3>2. job'[only].op = "confirm" =>
                  job[only].op = "confirm" /\ job'[only].token = job[only].token
            <4>1. /\ pc[only] = "insert" => job[only].op = "request"
                  /\ job[only] \in Jobs
                BY <2>2, InvParts DEF SessionOK, Coherent
            <4>2. \/ \E u \in Users : Ask(only, u)
                  \/ Statement(only)
                  \/ DeadlockVictim(only)
                  \/ Crash
                  \/ UNCHANGED job
                BY <2>5 DEF ResetsNext, Send, SendFails, Expire, SwitchUser, EraseUser
            <4>3. CASE (\E u \in Users : Ask(only, u)) \/ DeadlockVictim(only) \/ Crash
                <5>1. ASSUME NEW u \in Users, Ask(only, u) PROVE job'[only].op = "request"
                    BY <2>2, <5>1 DEF Ask, NoJob
                <5>2. CASE DeadlockVictim(only) \/ Crash
                    BY <2>2, <5>2 DEF DeadlockVictim, Fail, Release, Crash, NoJob
                <5> QED BY <4>3, <5>1, <5>2
            <4>4. CASE Match(only) \/ Void(only) \/ ReadUser(only) \/ Write(only)
                <5>1. CASE Match(only)
                    BY <2>2, <4>1, <5>1 DEF Match, Jobs
                <5>2. CASE ReadUser(only)
                    BY <2>2, <4>1, <5>2 DEF ReadUser, Jobs
                <5>3. CASE Void(only) \/ Write(only)
                    BY <5>3 DEF Void, Write
                <5> QED BY <4>4, <5>1, <5>2, <5>3
            <4>5. CASE UserRefused(only) \/ StatementFails(only)
                BY <2>2, <4>5 DEF UserRefused, StatementFails, Fail, Release, NoJob
            <4>6. CASE \E t \in Tokens : Insert(only, t)
                BY <2>2, <4>1, <4>6 DEF Insert, Jobs
            <4> QED BY <4>2, <4>3, <4>4, <4>5, <4>6 DEF Statement
        <3> QED BY <3>1, <3>2 DEF OneUse
    <2>6. CASE UNCHANGED vars
        BY <2>6 DEF vars, rows, OneUse
    <2> QED BY <2>3, <2>4, <2>5, <2>6
<1>3. OInv => OneUse
    OBVIOUS
<1> QED BY <1>1, <1>2, <1>3, PTL DEF ResetsSpec
=============================================================================
