-------------------------- MODULE TelegramTheorems --------------------------
(***************************************************************************)
(* What holds of TelegramLink for any users, codes, Telegram ids and       *)
(* sessions.                                                               *)
(***************************************************************************)
EXTENDS TelegramLink, CommonTheorems

Inv == LinksTypeOK /\ LinksInv /\ OneUse /\ OneUserPerAccount

(* What is not of one session.                                             *)
RowsOK == TypeOK /\ StoreInv /\ OneUse /\ OneUserPerAccount

SessionsTyped ==
    /\ pc \in [Slots -> Labels]
    /\ job \in [Slots -> Jobs]
    /\ held \in [Slots -> SUBSET Locks]

LEMMA InvParts ==
    Inv <=> /\ RowsOK /\ SessionsTyped /\ Compatible(held)
            /\ \A s \in Slots : SessionInv(s)
BY DEF Inv, LinksTypeOK, LinksInv, RowsOK, SessionsTyped

LEMMA NoJobTyped == NoJob \in Jobs
BY DEF NoJob, Jobs

LEMMA IdleSession ==
    ASSUME NEW s \in Slots, pc[s] = "idle", job[s] = NoJob, held[s] = {}
    PROVE  SessionInv(s)
BY DEF SessionInv, Coherent, ConsumesAlone, LinksAlone, CreatesAlone, DeletesAlone, UsersStay, NoJob

LEMMA InitInv == LinksInit => Inv
<1> SUFFICES ASSUME LinksInit PROVE Inv
    OBVIOUS
<1>1. RowsOK
    BY NoneAssumption DEF LinksInit, Init, RowsOK, TypeOK, StoreInv, OneUse
<1>2. SessionsTyped
    BY NoJobTyped DEF LinksInit, SessionsTyped, Labels
<1>3. Compatible(held)
    BY DEF LinksInit, Compatible
<1>4. \A s \in Slots : SessionInv(s)
    BY IdleSession DEF LinksInit
<1> QED BY <1>1, <1>2, <1>3, <1>4, InvParts

-----------------------------------------------------------------------------
(* Locks.                                                                  *)

LEMMA UpdatesLocks ==
    ASSUME TypeOK, NEW u \in Users, NEW value
    PROVE  /\ Updates(u, value) \subseteq Locks
           /\ \E m \in {"no key update", "update"} : <<u, m>> \in Updates(u, value)
           /\ \A l \in Updates(u, value) : l[1] \in Users => l[1] = u
<1>1. link[u] \in Tgs \cup {None}
    BY DEF TypeOK
<1>2. u # None /\ (link[u] \notin Users)
    BY <1>1, NoneAssumption, TablesAssumption
<1>3. CASE link[u] = value
    <2>1. Updates(u, value) = {<<u, "no key update">>} /\ "no key update" \in Modes
        BY <1>3 DEF Updates, Modes
    <2>2. <<u, "no key update">> \in Locks /\ <<u, "no key update">>[1] = u
        BY <2>1 DEF Locks
    <2>3. \A l \in Updates(u, value) : l = <<u, "no key update">>
        BY <2>1
    <2>4. <<u, "no key update">> \in Updates(u, value)
        BY <2>1
    <2> QED BY <2>2, <2>3, <2>4
<1>4. CASE link[u] # value
    <2>1. Updates(u, value) = ({u, link[u]} \ {None}) \X {"update"}
        BY <1>4 DEF Updates
    <2>2. {u, link[u]} \ {None} \subseteq Users \cup Codes \cup Tgs /\ "update" \in Modes
        BY <1>1 DEF Modes
    <2>3. <<u, "update">> \in Updates(u, value)
        BY <1>2, <2>1
    <2>4. ASSUME NEW l \in Updates(u, value) PROVE l \in Locks /\ (l[1] \in Users => l[1] = u)
        BY <1>2, <2>1, <2>2 DEF Locks
    <2> QED BY <2>3, <2>4
<1> QED BY <1>3, <1>4

LEMMA WantedLocks ==
    ASSUME TypeOK, SessionsTyped, NEW s \in Slots, Coherent(s)
    PROVE  Wanted(s) \subseteq Locks
<1> DEFINE j == job[s]
<1>1. j \in Jobs /\ codes \subseteq Codes
    BY DEF SessionsTyped, TypeOK
<1>2. Losers(s) \subseteq Users
    BY <1>1 DEF Losers, Jobs
<1>3. pc[s] \in {"insert", "link", "clear"} => j.user \in Users
    BY DEF Coherent
<1>4. pc[s] \in {"consume", "unique"} => j.code \in Codes /\ j.tg \in Tgs
    BY DEF Coherent
<1>5. {"key share", "update"} \subseteq Modes
    BY DEF Modes
<1>6. CASE pc[s] = "unlink"
    <2>1. Wanted(s) = UNION {Updates(u, None) : u \in Losers(s)}
        BY <1>6 DEF Wanted
    <2>2. \A u \in Losers(s) : Updates(u, None) \subseteq Locks
        BY <1>2, UpdatesLocks
    <2> QED BY <2>1, <2>2
<1>7. CASE pc[s] \in {"link", "clear"}
    BY <1>3, <1>7, UpdatesLocks DEF Wanted
<1>8. CASE pc[s] \in {"delete", "insert", "consume", "unique"}
    <2>1. \/ Wanted(s) = (j.seen \cap codes) \X {"update"}
          \/ Wanted(s) = {<<j.user, "key share">>} /\ j.user \in Users
          \/ Wanted(s) = {<<j.code, "update">>} /\ j.code \in Codes
          \/ Wanted(s) = {<<j.tg, "update">>} /\ j.tg \in Tgs
        BY <1>3, <1>4, <1>8 DEF Wanted, ForUpdate
    <2>2. CASE Wanted(s) = (j.seen \cap codes) \X {"update"}
        BY <1>1, <1>5, <2>2 DEF Locks
    <2>3. ASSUME NEW r \in Users \cup Codes \cup Tgs, NEW m \in Modes
          PROVE  {<<r, m>>} \subseteq Locks
        BY DEF Locks
    <2> QED BY <1>5, <2>1, <2>2, <2>3
<1>9. CASE pc[s] \notin {"delete", "insert", "consume", "unlink", "link", "unique", "clear"}
    BY <1>9 DEF Wanted
<1> QED BY <1>6, <1>7, <1>8, <1>9

LEMMA TakeTyped ==
    ASSUME Inv, NEW s \in Slots, Take(s)
    PROVE  /\ held' \in [Slots -> SUBSET Locks] /\ Compatible(held')
           /\ held'[s] = held[s] \cup Wanted(s)
           /\ \A o \in Slots \ {s} : held'[o] = held[o]
<1>1. held \in [Slots -> SUBSET Locks] /\ Compatible(held) /\ Wanted(s) \subseteq Locks
    BY WantedLocks, InvParts DEF RowsOK, SessionsTyped, SessionInv
<1>2. Blockers(held, Wants, s) = {} /\ Wants[s] = Wanted(s)
    BY DEF Take, Granted, Wants
<1>3. held' = [held EXCEPT ![s] = @ \cup Wants[s]]
    BY <1>2 DEF Take
<1>4. Compatible(held')
    BY <1>1, <1>2, <1>3, GrantCompatible
<1> QED BY <1>1, <1>2, <1>3, <1>4

(* Who has locked a row for update has it to itself.                       *)
LEMMA HeldAlone ==
    ASSUME Inv, NEW s \in Slots, NEW o \in Slots, s # o, NEW r, NEW m,
           <<r, "update">> \in held[s]
    PROVE  <<r, m>> \notin held[o]
<1>1. Compatible(held) /\ DOMAIN held = Slots
    BY InvParts DEF SessionsTyped
<1>2. Conflict("update", m)
    BY DEF Conflict
<1> QED BY <1>1, <1>2 DEF Compatible

-----------------------------------------------------------------------------
(* What a session that takes no step is disturbed by.                      *)
Undisturbed(s) ==
    /\ \A c \in Codes : <<c, "update">> \in held[s] =>
           (c \in codes => c \in codes') /\ (c \in used' => c \in used)
    /\ \A u \in Users : \/ link'[u] \in {link[u], None}
                        \/ <<link'[u], "update">> \notin held[s]
    /\ \A l \in held[s] : l[1] \in users => l[1] \in users'
    /\ pc[s] = "commit" /\ job[s].op = "create" =>
           /\ owner'[job[s].code] = None
           /\ \A o \in Slots \ {s} : job'[o].code # job[s].code

Monotone ==
    /\ \A c \in Codes : owner[c] # None => owner'[c] = owner[c]
    /\ \A c \in codes' \ codes : owner[c] = None

LEMMA SessionFrame ==
    ASSUME TypeOK, SessionsTyped, NEW s \in Slots, SessionInv(s), Monotone, Undisturbed(s),
           pc'[s] = pc[s], job'[s] = job[s], held'[s] = held[s]
    PROVE  SessionInv(s)'
<1> DEFINE j == job[s]
<1>1. /\ Coherent(s) /\ ConsumesAlone(s) /\ LinksAlone(s) /\ CreatesAlone(s)
      /\ DeletesAlone(s) /\ UsersStay(s) /\ j \in Jobs
    BY DEF SessionInv, SessionsTyped
<1>2. j.seen \subseteq Codes /\ (j.user # None \/ j.op = "none")
    BY <1>1, NoneAssumption DEF Jobs, Coherent, NoJob
<1>3. Coherent(s)'
    BY <1>1, <1>2 DEF Coherent, Monotone
<1>4. ConsumesAlone(s)'
    BY <1>1 DEF ConsumesAlone, Coherent, Undisturbed, NoJob
<1>5. LinksAlone(s)'
    <2>1. SUFFICES ASSUME j.op = "link", pc[s] = "commit", j.copy # j.tg
                   PROVE  <<j.tg, "update">> \in held[s] /\ ~Taken(s)'
        BY DEF LinksAlone
    <2>2. <<j.tg, "update">> \in held[s] /\ Holders(j.tg) \subseteq j.holders \cup {j.user}
        BY <1>1, <2>1 DEF LinksAlone, Taken
    <2>3. j.tg # None
        BY <1>1, <2>1, NoneAssumption DEF Coherent
    <2>4. ASSUME NEW u \in Users, link'[u] = j.tg PROVE u \in Holders(j.tg)
        BY <2>2, <2>3, <2>4 DEF Undisturbed, Holders
    <2> QED BY <2>2, <2>4 DEF Taken, Holders
<1>6. CreatesAlone(s)'
    BY <1>1 DEF CreatesAlone, Undisturbed
<1>7. DeletesAlone(s)'
    <2>1. SUFFICES ASSUME j.op = "create", pc[s] \in {"insert", "commit"}
                   PROVE  DeletesAlone(s)'
        BY DEF DeletesAlone
    <2>2. \A c \in j.seen : owner[c] # None
        BY <1>1, <1>2, <2>1 DEF Coherent
    <2>3. j.seen \cap codes' \subseteq j.seen \cap codes
        BY <2>2 DEF Monotone
    <2> QED BY <1>1, <2>1, <2>3 DEF DeletesAlone
<1>8. UsersStay(s)'
    BY <1>1 DEF UsersStay, Undisturbed, Losers, Wrote
<1> QED BY <1>3, <1>4, <1>5, <1>6, <1>7, <1>8 DEF SessionInv

-----------------------------------------------------------------------------
(* The steps.                                                              *)

(* A step of s that leaves the rows alone.                                 *)
LEMMA AdvanceInv ==
    ASSUME Inv, NEW s \in Slots, NEW label \in Labels, UNCHANGED rows, Goto(s, label),
           job' \in [Slots -> Jobs], \A o \in Slots \ {s} : job'[o] = job[o],
           held' \in [Slots -> SUBSET Locks], \A o \in Slots \ {s} : held'[o] = held[o],
           Compatible(held'), SessionInv(s)',
           \A o \in Slots \ {s} :
               pc[o] = "commit" /\ job[o].op = "create" => job'[s].code # job[o].code
    PROVE  Inv'
<1>1. /\ RowsOK /\ TypeOK /\ SessionsTyped /\ \A o \in Slots : SessionInv(o)
      /\ pc \in [Slots -> Labels] /\ pc' = [pc EXCEPT ![s] = label]
    BY InvParts DEF RowsOK, SessionsTyped, Goto
<1>2. /\ users' = users /\ active' = active /\ link' = link /\ owner' = owner
      /\ codes' = codes /\ used' = used /\ lapsed' = lapsed /\ uses' = uses
    BY DEF rows
<1>3. RowsOK'
    BY <1>1, <1>2 DEF RowsOK, TypeOK, StoreInv, OneUse, OneUserPerAccount
<1>4. SessionsTyped'
    BY <1>1 DEF SessionsTyped
<1>5. ASSUME NEW o \in Slots, o # s PROVE SessionInv(o)'
    <2>1. pc'[o] = pc[o] /\ job'[o] = job[o] /\ held'[o] = held[o]
        BY <1>1, <1>5
    <2>2. pc[o] = "commit" /\ job[o].op = "create" =>
              /\ owner[job[o].code] = None
              /\ \A p \in Slots \ {o} : job'[p].code # job[o].code
        BY <1>1, <1>5 DEF SessionInv, CreatesAlone
    <2>3. Undisturbed(o)
        BY <1>2, <2>2 DEF Undisturbed
    <2>4. Monotone
        BY <1>2 DEF Monotone
    <2> QED BY <1>1, <2>1, <2>3, <2>4, SessionFrame
<1> QED BY <1>3, <1>4, <1>5 DEF Inv, LinksTypeOK, LinksInv, RowsOK, SessionsTyped

(* A session that is given back.                                           *)
LEMMA Released ==
    ASSUME Inv, NEW s \in Slots, Release(s)
    PROVE  /\ SessionsTyped' /\ Compatible(held') /\ SessionInv(s)' /\ job'[s] = NoJob
           /\ \A o \in Slots \ {s} :
                 pc'[o] = pc[o] /\ job'[o] = job[o] /\ held'[o] = held[o]
<1>1. SessionsTyped /\ Compatible(held)
    BY InvParts
<1>2. /\ pc' = [pc EXCEPT ![s] = "idle"] /\ job' = [job EXCEPT ![s] = NoJob]
      /\ held' = [held EXCEPT ![s] = {}]
    BY DEF Release, Goto
<1>3. SessionsTyped'
    BY <1>1, <1>2, NoJobTyped DEF SessionsTyped, Labels
<1>4. pc'[s] = "idle" /\ job'[s] = NoJob /\ held'[s] = {}
    BY <1>1, <1>2 DEF SessionsTyped
<1>5. SessionInv(s)'
    BY <1>4 DEF SessionInv, Coherent, ConsumesAlone, LinksAlone, CreatesAlone, DeletesAlone, UsersStay, NoJob
<1>6. Compatible(held')
    BY <1>1, <1>2, FreeCompatible DEF SessionsTyped
<1> QED BY <1>1, <1>2, <1>3, <1>4, <1>5, <1>6 DEF SessionsTyped

(* A session that goes on with the code it had, with a code that has been  *)
(* drawn, or with one that nobody else has, is not in the way of a new     *)
(* code about to be committed.                                             *)
LEMMA NewCodesDiffer ==
    ASSUME Inv, NEW s \in Slots, NEW code,
           code = None \/ code = job[s].code
             \/ (code \in Codes /\ owner[code] # None)
             \/ (\A o \in Slots : job[o].code # code),
           NEW o \in Slots \ {s}, pc[o] = "commit", job[o].op = "create"
    PROVE  code # job[o].code
<1>1. CreatesAlone(o)
    BY InvParts DEF SessionInv
<1> QED BY <1>1, NoneAssumption DEF CreatesAlone

LEMMA FailInv ==
    ASSUME Inv, NEW s \in Slots, Fail(s)
    PROVE  Inv'
<1>1. Release(s) /\ UNCHANGED rows /\ Goto(s, "idle") /\ "idle" \in Labels
    BY DEF Fail, Release, Labels
<1>2. job'[s].code = None
    BY <1>1, Released DEF NoJob
<1> QED BY <1>1, <1>2, Released, NewCodesDiffer, AdvanceInv DEF SessionsTyped

LEMMA AskCodeInv ==
    ASSUME Inv, NEW s \in Slots, NEW u \in Users, AskCode(s, u)
    PROVE  Inv'
<1> DEFINE j == [NoJob EXCEPT !.op = "create", !.user = u]
<1>1. /\ pc[s] = "idle" /\ Goto(s, "codes") /\ UNCHANGED <<rows, held>>
      /\ job' = [job EXCEPT ![s] = j] /\ "codes" \in Labels
    BY DEF AskCode, Labels
<1>2. SessionsTyped /\ Compatible(held) /\ SessionInv(s)
    BY InvParts
<1>3. j \in Jobs /\ j.op = "create" /\ j.user = u /\ j.code = None /\ j.seen = {}
    BY DEF NoJob, Jobs
<1> HIDE DEF j
<1>4. /\ pc'[s] = "codes" /\ job'[s] = j /\ held'[s] = {}
      /\ job' \in [Slots -> Jobs] /\ \A o \in Slots \ {s} : job'[o] = job[o]
    BY <1>1, <1>2, <1>3 DEF Goto, SessionInv, Coherent, SessionsTyped
<1>5. SessionInv(s)'
    BY <1>3, <1>4 DEF SessionInv, Coherent, ConsumesAlone, LinksAlone, CreatesAlone, DeletesAlone, UsersStay
<1> QED BY <1>1, <1>2, <1>3, <1>4, <1>5, NewCodesDiffer, AdvanceInv DEF SessionsTyped

LEMMA AskUnlinkInv ==
    ASSUME Inv, NEW s \in Slots, NEW u \in Users, AskUnlink(s, u)
    PROVE  Inv'
<1> DEFINE j == [NoJob EXCEPT !.op = "unlink", !.user = u]
<1>1. /\ pc[s] = "idle" /\ Goto(s, "clear") /\ UNCHANGED <<rows, held>>
      /\ job' = [job EXCEPT ![s] = j] /\ "clear" \in Labels
    BY DEF AskUnlink, Labels
<1>2. SessionsTyped /\ Compatible(held) /\ SessionInv(s)
    BY InvParts
<1>3. j \in Jobs /\ j.op = "unlink" /\ j.user = u /\ j.code = None
    BY DEF NoJob, Jobs
<1> HIDE DEF j
<1>4. /\ pc'[s] = "clear" /\ job'[s] = j /\ held'[s] = {}
      /\ job' \in [Slots -> Jobs] /\ \A o \in Slots \ {s} : job'[o] = job[o]
    BY <1>1, <1>2, <1>3 DEF Goto, SessionInv, Coherent, SessionsTyped
<1>5. SessionInv(s)'
    BY <1>3, <1>4 DEF SessionInv, Coherent, ConsumesAlone, LinksAlone, CreatesAlone, DeletesAlone, UsersStay
<1> QED BY <1>1, <1>2, <1>3, <1>4, <1>5, NewCodesDiffer, AdvanceInv DEF SessionsTyped

LEMMA AskLinkInv ==
    ASSUME Inv, NEW s \in Slots, NEW c \in Codes, NEW tg \in Tgs, AskLink(s, c, tg)
    PROVE  Inv'
<1> DEFINE j == [NoJob EXCEPT !.op = "link", !.user = owner[c], !.code = c, !.tg = tg]
<1>1. /\ pc[s] = "idle" /\ Goto(s, "consume") /\ UNCHANGED <<rows, held>> /\ owner[c] # None
      /\ job' = [job EXCEPT ![s] = j] /\ "consume" \in Labels
    BY DEF AskLink, Labels
<1>2. SessionsTyped /\ Compatible(held) /\ SessionInv(s) /\ TypeOK
    BY InvParts DEF RowsOK
<1>3. /\ j \in Jobs /\ j.op = "link" /\ j.user = owner[c] /\ owner[c] \in Users /\ j.code = c
      /\ j.tg = tg
    BY <1>1, <1>2 DEF NoJob, Jobs, TypeOK
<1> HIDE DEF j
<1>4. /\ pc'[s] = "consume" /\ job'[s] = j /\ held'[s] = {} /\ owner' = owner
      /\ job' \in [Slots -> Jobs] /\ \A o \in Slots \ {s} : job'[o] = job[o]
    BY <1>1, <1>2, <1>3 DEF Goto, SessionInv, Coherent, SessionsTyped, rows
<1>5. SessionInv(s)'
    BY <1>3, <1>4 DEF SessionInv, Coherent, ConsumesAlone, LinksAlone, CreatesAlone, DeletesAlone, UsersStay
<1> QED BY <1>1, <1>2, <1>3, <1>4, <1>5, NewCodesDiffer, AdvanceInv DEF SessionsTyped

(* A statement that takes its locks and reads nothing.                     *)
LEMMA TakeInv ==
    ASSUME Inv, NEW s \in Slots, NEW label \in Labels, Take(s), Goto(s, label),
           UNCHANGED <<rows, job>>, SessionInv(s)'
    PROVE  Inv'
<1>1. SessionsTyped /\ \A o \in Slots : job'[o] = job[o]
    BY InvParts
<1>2. job' \in [Slots -> Jobs]
    BY <1>1 DEF SessionsTyped
<1> QED BY <1>1, <1>2, TakeTyped, NewCodesDiffer, AdvanceInv

LEMMA TakeFacts ==
    ASSUME Inv, NEW s \in Slots, NEW label \in Labels, Take(s), Goto(s, label),
           UNCHANGED rows
    PROVE  /\ pc'[s] = label /\ held'[s] = held[s] \cup Wanted(s)
           /\ users' = users /\ owner' = owner /\ codes' = codes /\ used' = used
           /\ link' = link
           /\ Coherent(s) /\ ConsumesAlone(s) /\ LinksAlone(s) /\ CreatesAlone(s)
           /\ DeletesAlone(s) /\ UsersStay(s) /\ job[s] \in Jobs /\ StoreInv /\ TypeOK
           /\ \A l \in held[s] : l[1] \in Users => l[1] \in users
<1>1. RowsOK /\ SessionsTyped /\ SessionInv(s)
    BY InvParts
<1>2. UsersStay(s) /\ users' = users /\ link' = link
    BY <1>1 DEF SessionInv, rows
<1> QED BY <1>1, <1>2, TakeTyped DEF SessionsTyped, SessionInv, UsersStay, RowsOK, Goto, rows

LEMMA DeleteCodesInv ==
    ASSUME Inv, NEW s \in Slots, DeleteCodes(s)
    PROVE  Inv'
<1>1. /\ pc[s] = "delete" /\ Take(s) /\ Goto(s, "insert") /\ UNCHANGED <<rows, job>>
      /\ "insert" \in Labels
    BY DEF DeleteCodes, Labels
<1>2. Wanted(s) = (job[s].seen \cap codes) \X {"update"}
    BY <1>1 DEF Wanted
<1>3. job'[s] = job[s] /\ job[s].op = "create" /\ job[s].code = None
    BY <1>1, TakeFacts DEF Coherent
<1>4. \A l \in held'[s] : l[1] \in Users => l[1] \in users
    <2>1. codes \subseteq Codes
        BY <1>1, TakeFacts DEF TypeOK
    <2>2. \A l \in Wanted(s) : l[1] \notin Users
        BY <1>2, <2>1, TablesAssumption
    <2> QED BY <1>1, <2>2, TakeFacts
<1>5. Coherent(s)'
    BY <1>1, <1>3, TakeFacts DEF Coherent
<1>6. SessionInv(s)'
    BY <1>1, <1>2, <1>3, <1>4, <1>5, TakeFacts
       DEF SessionInv, ConsumesAlone, LinksAlone, CreatesAlone, DeletesAlone, UsersStay
<1> QED BY <1>1, <1>6, TakeInv

LEMMA ConsumeInv ==
    ASSUME Inv, NEW s \in Slots, Consume(s)
    PROVE  Inv'
<1>1. /\ pc[s] = "consume" /\ Take(s) /\ Goto(s, "holder") /\ UNCHANGED <<rows, job>>
      /\ "holder" \in Labels /\ Valid(job[s].code)
    BY DEF Consume, Labels
<1>2. Wanted(s) = {<<job[s].code, "update">>}
    BY <1>1 DEF Wanted, ForUpdate
<1>3. job'[s] = job[s] /\ job[s].op = "link" /\ job[s].code \in Codes
    BY <1>1, TakeFacts DEF Coherent
<1>4. \A l \in held'[s] : l[1] \in Users => l[1] \in users
    BY <1>1, <1>2, <1>3, TakeFacts, TablesAssumption
<1>5. SessionInv(s)'
    BY <1>1, <1>2, <1>3, <1>4, TakeFacts
       DEF SessionInv, Coherent, ConsumesAlone, LinksAlone, CreatesAlone, DeletesAlone, UsersStay, Valid
<1> QED BY <1>1, <1>5, TakeInv

LEMMA UnlinkHolderInv ==
    ASSUME Inv, NEW s \in Slots, UnlinkHolder(s)
    PROVE  Inv'
<1>1. /\ pc[s] = "unlink" /\ Take(s) /\ Goto(s, "user") /\ UNCHANGED <<rows, job>>
      /\ "user" \in Labels /\ Losers(s) \subseteq users
    BY DEF UnlinkHolder, Labels
<1>2. Wanted(s) = UNION {Updates(u, None) : u \in Losers(s)}
    BY <1>1 DEF Wanted
<1>3. /\ job'[s] = job[s] /\ job[s].op = "link" /\ Losers(s) \subseteq Users
      /\ Losers(s)' = Losers(s)
    BY <1>1, TakeFacts DEF Coherent, Losers, Jobs
<1>4. TypeOK /\ held'[s] = held[s] \cup Wanted(s)
    BY <1>1, TakeFacts
<1>5. \A u \in Losers(s) : Wrote(s, u)'
    <2>1. SUFFICES ASSUME NEW u \in Losers(s) PROVE Wrote(s, u)'
        OBVIOUS
    <2>2. PICK m \in {"no key update", "update"} : <<u, m>> \in Updates(u, None)
        BY <1>3, <1>4, UpdatesLocks
    <2>3. <<u, m>> \in held'[s]
        BY <1>2, <1>4, <2>2
    <2> QED BY <2>3 DEF Wrote
<1>6. \A l \in held'[s] : l[1] \in Users => l[1] \in users
    <2>1. ASSUME NEW u \in Losers(s), NEW l \in Updates(u, None), l[1] \in Users
          PROVE  l[1] \in users
        BY <1>1, <1>3, <1>4, <2>1, UpdatesLocks
    <2>2. \A l \in Wanted(s) : l[1] \in Users => l[1] \in users
        BY <1>2, <2>1
    <2> QED BY <1>1, <1>4, <2>2, TakeFacts
<1>7. SessionInv(s)'
    BY <1>1, <1>3, <1>5, <1>6, TakeFacts
       DEF SessionInv, Coherent, ConsumesAlone, LinksAlone, CreatesAlone, DeletesAlone, UsersStay
<1> QED BY <1>1, <1>7, TakeInv

(* The user of a code that is being consumed is there.                     *)
LEMMA LinkedUserStays ==
    ASSUME Inv, NEW s \in Slots, job[s].op = "link", pc[s] # "consume", pc[s] # "idle"
    PROVE  job[s].user \in users /\ job[s].user \in Users
BY InvParts DEF RowsOK, StoreInv, SessionInv, ConsumesAlone, Coherent

LEMMA LinkUserInv ==
    ASSUME Inv, NEW s \in Slots, LinkUser(s)
    PROVE  Inv'
<1>1. /\ pc[s] = "link" /\ Take(s) /\ Goto(s, "unique") /\ UNCHANGED <<rows, job>>
      /\ "unique" \in Labels
    BY DEF LinkUser, Labels
<1>2. Wanted(s) = Updates(job[s].user, job[s].tg)
    BY <1>1 DEF Wanted
<1>3. job'[s] = job[s] /\ job[s].op = "link" /\ Losers(s)' = Losers(s)
    BY <1>1, TakeFacts DEF Coherent, Losers
<1>4. \A l \in held'[s] : l[1] \in Users => l[1] \in users
    <2>1. TypeOK /\ job[s].user \in users /\ job[s].user \in Users
        BY <1>1, <1>3, TakeFacts, LinkedUserStays
    <2>2. \A l \in Updates(job[s].user, job[s].tg) : l[1] \in Users => l[1] = job[s].user
        BY <2>1, UpdatesLocks
    <2> QED BY <1>1, <1>2, <2>1, <2>2, TakeFacts
<1>5. \A u \in Losers(s) : Wrote(s, u)'
    BY <1>1, <1>3, TakeFacts DEF UsersStay, Wrote
<1>6. SessionInv(s)'
    BY <1>1, <1>3, <1>4, <1>5, TakeFacts
       DEF SessionInv, Coherent, ConsumesAlone, LinksAlone, CreatesAlone, DeletesAlone, UsersStay
<1> QED BY <1>1, <1>6, TakeInv

LEMMA LinkUniqueInv ==
    ASSUME Inv, NEW s \in Slots, LinkUnique(s)
    PROVE  Inv'
<1>1. /\ pc[s] = "unique" /\ Take(s) /\ Goto(s, "commit") /\ UNCHANGED <<rows, job>>
      /\ "commit" \in Labels /\ ~Taken(s)
    BY DEF LinkUnique, Labels
<1>2. Wanted(s) = {<<job[s].tg, "update">>}
    BY <1>1 DEF Wanted
<1>3. /\ job'[s] = job[s] /\ job[s].op = "link" /\ job[s].tg \in Tgs
      /\ Losers(s)' = Losers(s) /\ Taken(s)' = Taken(s)
    BY <1>1, TakeFacts DEF Coherent, Losers, Taken, Holders
<1>4. \A l \in held'[s] : l[1] \in Users => l[1] \in users
    BY <1>1, <1>2, <1>3, TakeFacts, TablesAssumption
<1>5. \A u \in Losers(s) : Wrote(s, u)'
    BY <1>1, <1>3, TakeFacts DEF UsersStay, Wrote
<1>6. SessionInv(s)'
    BY <1>1, <1>2, <1>3, <1>4, <1>5, TakeFacts
       DEF SessionInv, Coherent, ConsumesAlone, LinksAlone, CreatesAlone, DeletesAlone, UsersStay
<1> QED BY <1>1, <1>6, TakeInv

LEMMA ClearInv ==
    ASSUME Inv, NEW s \in Slots, Clear(s)
    PROVE  Inv'
<1>1. /\ pc[s] = "clear" /\ Take(s) /\ Goto(s, "commit") /\ UNCHANGED <<rows, job>>
      /\ "commit" \in Labels /\ job[s].user \in users
    BY DEF Clear, Labels
<1>2. Wanted(s) = Updates(job[s].user, None)
    BY <1>1 DEF Wanted
<1>3. job'[s] = job[s] /\ job[s].op = "unlink" /\ job[s].user \in Users
    BY <1>1, TakeFacts DEF Coherent
<1>4. \A l \in held'[s] : l[1] \in Users => l[1] \in users
    <2>1. TypeOK
        BY <1>1, TakeFacts
    <2>2. \A l \in Updates(job[s].user, None) : l[1] \in Users => l[1] = job[s].user
        BY <1>3, <2>1, UpdatesLocks
    <2> QED BY <1>1, <1>2, <2>2, TakeFacts
<1>5. Wrote(s, job[s].user)'
    <2>1. TypeOK /\ held'[s] = held[s] \cup Wanted(s)
        BY <1>1, TakeFacts
    <2>2. PICK m \in {"no key update", "update"} :
              <<job[s].user, m>> \in Updates(job[s].user, None)
        BY <1>3, <2>1, UpdatesLocks
    <2>3. job'[s].user = job[s].user /\ <<job[s].user, m>> \in held'[s]
        BY <1>2, <1>3, <2>1, <2>2
    <2> QED BY <2>3 DEF Wrote
<1>6. SessionInv(s)'
    BY <1>1, <1>3, <1>4, <1>5, TakeFacts
       DEF SessionInv, Coherent, ConsumesAlone, LinksAlone, CreatesAlone, DeletesAlone, UsersStay
<1> QED BY <1>1, <1>6, TakeInv

LEMMA InsertCodeInv ==
    ASSUME Inv, NEW s \in Slots, NEW c \in Codes, InsertCode(s, c)
    PROVE  Inv'
<1> DEFINE j == [job[s] EXCEPT !.code = c]
<1>1. /\ pc[s] = "insert" /\ Take(s) /\ Goto(s, "commit") /\ UNCHANGED rows
      /\ "commit" \in Labels /\ job[s].user \in users /\ Fresh(c)
      /\ job' = [job EXCEPT ![s].code = c]
    BY DEF InsertCode, Labels
<1>2. /\ SessionsTyped /\ job[s] \in Jobs /\ job[s].op = "create" /\ job[s].user \in Users
    BY <1>1, TakeFacts, InvParts DEF Coherent
<1>3. /\ j \in Jobs /\ j.op = "create" /\ j.user = job[s].user /\ j.code = c
      /\ j.seen = job[s].seen
    BY <1>2 DEF Jobs
<1>4. job' = [job EXCEPT ![s] = j]
    BY <1>1, <1>2 DEF SessionsTyped
<1> HIDE DEF j
<1>5. /\ job'[s] = j /\ job' \in [Slots -> Jobs] /\ \A o \in Slots \ {s} : job'[o] = job[o]
    BY <1>2, <1>3, <1>4 DEF SessionsTyped
<1>6. Wanted(s) = {<<job[s].user, "key share">>}
    BY <1>1 DEF Wanted
<1>7. /\ pc'[s] = "commit" /\ held'[s] = held[s] \cup {<<job[s].user, "key share">>}
      /\ users' = users /\ owner' = owner /\ codes' = codes /\ used' = used
      /\ Coherent(s) /\ DeletesAlone(s)
      /\ \A l \in held[s] : l[1] \in Users => l[1] \in users
    BY <1>1, <1>6, TakeFacts
<1>8. \A o \in Slots : job[o].code # c
    BY <1>1 DEF Fresh
<1>9. DeletesAlone(s)'
    BY <1>1, <1>2, <1>3, <1>5, <1>7 DEF DeletesAlone
<1>10. Coherent(s)'
    BY <1>1, <1>2, <1>3, <1>5, <1>7 DEF Coherent
<1>11. CreatesAlone(s)'
    BY <1>1, <1>3, <1>5, <1>7, <1>8 DEF CreatesAlone, Fresh
<1>12. UsersStay(s)'
    <2>1. <<job[s].user, "key share">>[1] \in users
        BY <1>1
    <2>2. \A l \in held'[s] : l[1] \in Users => l[1] \in users'
        BY <1>7, <2>1
    <2> QED BY <1>3, <1>5, <2>2 DEF UsersStay
<1>13. ConsumesAlone(s)' /\ LinksAlone(s)'
    BY <1>3, <1>5 DEF ConsumesAlone, LinksAlone
<1>14. SessionInv(s)'
    BY <1>9, <1>10, <1>11, <1>12, <1>13 DEF SessionInv
<1> QED BY <1>1, <1>5, <1>8, <1>14, TakeTyped, NewCodesDiffer, AdvanceInv

(* A statement that reads: s knows more, and goes on.                      *)
LEMMA ReadInv ==
    ASSUME Inv, NEW s \in Slots, NEW label \in Labels, NEW j \in Jobs, Goto(s, label),
           job' = [job EXCEPT ![s] = j], UNCHANGED <<rows, held>>, j.code = job[s].code,
           SessionInv(s)'
    PROVE  Inv'
<1>1. SessionsTyped /\ Compatible(held)
    BY InvParts
<1>2. /\ job'[s] = j /\ job' \in [Slots -> Jobs] /\ \A o \in Slots \ {s} : job'[o] = job[o]
      /\ held' = held /\ held \in [Slots -> SUBSET Locks]
    BY <1>1 DEF SessionsTyped
<1> QED BY <1>1, <1>2, NewCodesDiffer, AdvanceInv

LEMMA ReadFacts ==
    ASSUME Inv, NEW s \in Slots, NEW label \in Labels, NEW j, Goto(s, label),
           job' = [job EXCEPT ![s] = j], UNCHANGED <<rows, held>>
    PROVE  /\ pc'[s] = label /\ job'[s] = j /\ held'[s] = held[s]
           /\ users' = users /\ owner' = owner /\ codes' = codes /\ used' = used
           /\ link' = link
           /\ Coherent(s) /\ ConsumesAlone(s) /\ LinksAlone(s) /\ CreatesAlone(s)
           /\ DeletesAlone(s) /\ UsersStay(s) /\ TypeOK /\ StoreInv
<1>1. RowsOK /\ SessionsTyped /\ SessionInv(s)
    BY InvParts
<1> QED BY <1>1 DEF SessionsTyped, SessionInv, RowsOK, Goto, rows

LEMMA ReadCodesInv ==
    ASSUME Inv, NEW s \in Slots, ReadCodes(s)
    PROVE  Inv'
<1> DEFINE j == [job[s] EXCEPT !.seen = Unused(job[s].user)]
<1>1. /\ pc[s] = "codes" /\ Goto(s, "delete") /\ UNCHANGED <<rows, held>>
      /\ "delete" \in Labels /\ job' = [job EXCEPT ![s].seen = Unused(job[s].user)]
    BY DEF ReadCodes, Labels
<1>2. SessionsTyped /\ job[s] \in Jobs /\ job' = [job EXCEPT ![s] = j] /\ TypeOK
    BY <1>1, InvParts DEF SessionsTyped, RowsOK
<1>3. Unused(job[s].user) \subseteq Codes
    BY <1>2 DEF TypeOK, Unused, CodesOf
<1>4. /\ j \in Jobs /\ j.op = job[s].op /\ j.user = job[s].user /\ j.code = job[s].code
      /\ j.seen = Unused(job[s].user)
    BY <1>2, <1>3 DEF Jobs
<1> HIDE DEF j
<1>5. /\ pc'[s] = "delete" /\ job'[s] = j /\ held'[s] = held[s]
      /\ users' = users /\ owner' = owner /\ codes' = codes /\ used' = used /\ link' = link
      /\ Coherent(s) /\ ConsumesAlone(s) /\ UsersStay(s) /\ TypeOK
    BY <1>1, <1>2, ReadFacts
<1>6. SessionInv(s)'
    BY <1>1, <1>4, <1>5
       DEF SessionInv, Coherent, ConsumesAlone, LinksAlone, CreatesAlone, DeletesAlone,
           UsersStay, Unused, CodesOf
<1> QED BY <1>1, <1>2, <1>4, <1>6, ReadInv

LEMMA ReadHolderInv ==
    ASSUME Inv, NEW s \in Slots, ReadHolder(s)
    PROVE  Inv'
<1> DEFINE who == Holders(job[s].tg)
           awake == job[s].user \in active
           j == [job[s] EXCEPT !.holders = who, !.awake = awake]
           label == IF who \subseteq {job[s].user} THEN "user" ELSE "unlink"
<1>1. /\ pc[s] = "holder" /\ Goto(s, label) /\ UNCHANGED <<rows, held>> /\ label \in Labels
      /\ job' = [job EXCEPT ![s].holders = Holders(job[s].tg),
                            ![s].awake = job[s].user \in active]
    BY DEF ReadHolder, Labels
<1>2. SessionsTyped /\ job[s] \in Jobs /\ job' = [job EXCEPT ![s] = j]
    BY <1>1, InvParts DEF SessionsTyped
<1>3. who \in SUBSET Users /\ awake \in BOOLEAN
    BY DEF Holders
<1> HIDE DEF who, awake
<1>4. /\ j \in Jobs /\ j.op = job[s].op /\ j.user = job[s].user /\ j.code = job[s].code
      /\ j.tg = job[s].tg /\ j.holders = who
    BY <1>2, <1>3 DEF Jobs
<1>5. label \in {"user", "unlink"} /\ (label = "user" => j.holders \ {j.user} = {})
    BY <1>4
<1> HIDE DEF j, label
<1>6. /\ pc'[s] = label /\ job'[s] = j /\ held'[s] = held[s]
      /\ users' = users /\ owner' = owner /\ codes' = codes /\ used' = used /\ link' = link
      /\ Coherent(s) /\ ConsumesAlone(s) /\ UsersStay(s) /\ TypeOK
    BY <1>1, <1>2, ReadFacts
<1>7. j.op = "link"
    BY <1>1, <1>4, <1>6 DEF Coherent
<1>8. UsersStay(s)'
    BY <1>4, <1>5, <1>6, <1>7 DEF UsersStay, Losers
<1>9. Coherent(s)' /\ ConsumesAlone(s)'
    BY <1>1, <1>4, <1>5, <1>6, <1>7 DEF Coherent, ConsumesAlone
<1>10. SessionInv(s)'
    BY <1>5, <1>6, <1>7, <1>8, <1>9 DEF SessionInv, LinksAlone, CreatesAlone, DeletesAlone
<1> QED BY <1>1, <1>2, <1>4, <1>10, ReadInv

LEMMA ReadUserInv ==
    ASSUME Inv, NEW s \in Slots, ReadUser(s)
    PROVE  Inv'
<1> DEFINE copy == IF Loaded(s) THEN job[s].tg ELSE link[job[s].user]
           j == [job[s] EXCEPT !.copy = copy]
           label == IF copy = job[s].tg THEN "commit" ELSE "link"
<1>1. /\ pc[s] = "user" /\ Goto(s, label) /\ UNCHANGED <<rows, held>> /\ label \in Labels
      /\ job' = [job EXCEPT ![s].copy = copy]
    BY DEF ReadUser, Labels
<1>2. SessionsTyped /\ job[s] \in Jobs /\ job' = [job EXCEPT ![s] = j] /\ TypeOK
    BY <1>1, InvParts DEF SessionsTyped, RowsOK
<1>3. job[s].op = "link" /\ job[s].user \in Users /\ job[s].tg \in Tgs
    BY <1>1, <1>2, ReadFacts DEF Coherent
<1>4. copy \in Tgs \cup {None}
    BY <1>2, <1>3 DEF TypeOK
<1>5. /\ label \in {"commit", "link"} /\ (label = "commit" => copy = job[s].tg)
    OBVIOUS
<1> HIDE DEF copy
<1>6. /\ j \in Jobs /\ j.op = job[s].op /\ j.user = job[s].user /\ j.code = job[s].code
      /\ j.tg = job[s].tg /\ j.holders = job[s].holders /\ j.copy = copy
    BY <1>2, <1>4 DEF Jobs
<1> HIDE DEF j, label
<1>7. /\ pc'[s] = label /\ job'[s] = j /\ held'[s] = held[s]
      /\ users' = users /\ owner' = owner /\ codes' = codes /\ used' = used /\ link' = link
      /\ Coherent(s) /\ ConsumesAlone(s) /\ UsersStay(s) /\ TypeOK
    BY <1>1, <1>2, ReadFacts
<1>8. UsersStay(s)'
    BY <1>1, <1>3, <1>5, <1>6, <1>7 DEF UsersStay, Losers, Wrote
<1>9. Coherent(s)' /\ ConsumesAlone(s)'
    BY <1>1, <1>3, <1>5, <1>6, <1>7 DEF Coherent, ConsumesAlone
<1>10. SessionInv(s)'
    BY <1>3, <1>5, <1>6, <1>7, <1>8, <1>9
       DEF SessionInv, LinksAlone, CreatesAlone, DeletesAlone
<1> QED BY <1>1, <1>2, <1>6, <1>10, ReadInv

LEMMA StatementInv ==
    ASSUME Inv, NEW s \in Slots, Statement(s)
    PROVE  Inv'
<1>1. ConsumeRefused(s) \/ UserRefused(s) \/ LinkRefused(s) \/ StatementFails(s) => Fail(s)
    BY DEF ConsumeRefused, UserRefused, LinkRefused, StatementFails
<1> QED BY <1>1, FailInv, ReadCodesInv, DeleteCodesInv, InsertCodeInv, ConsumeInv,
           ReadHolderInv, UnlinkHolderInv, ReadUserInv, LinkUserInv, LinkUniqueInv, ClearInv
        DEF Statement

-----------------------------------------------------------------------------
(* Commits.                                                                *)

(* The commit of s, for a session that takes no step.                      *)
LEMMA OthersKept ==
    ASSUME Inv, NEW s \in Slots, Release(s), Monotone, NEW o \in Slots, o # s,
           \A c \in Codes : <<c, "update">> \in held[o] =>
               (c \in codes => c \in codes') /\ (c \in used' => c \in used),
           \A u \in Users : \/ link'[u] \in {link[u], None}
                            \/ <<link'[u], "update">> \notin held[o],
           users' = users,
           pc[o] = "commit" /\ job[o].op = "create" => owner'[job[o].code] = None
    PROVE  SessionInv(o)'
<1>1. TypeOK /\ SessionsTyped /\ SessionInv(o)
    BY InvParts DEF RowsOK
<1>2. job'[s] = NoJob /\ NoJob.code = None /\ \A p \in Slots \ {s} : job'[p] = job[p]
    BY Released DEF NoJob
<1>3. pc[o] = "commit" /\ job[o].op = "create" =>
          \A p \in Slots \ {o} : job'[p].code # job[o].code
    <2>1. SUFFICES ASSUME pc[o] = "commit", job[o].op = "create", NEW p \in Slots \ {o}
                   PROVE  job'[p].code # job[o].code
        OBVIOUS
    <2>2. job[o].code # None /\ job[p].code # job[o].code
        BY <1>1, <2>1, NoneAssumption DEF SessionInv, CreatesAlone
    <2>3. CASE p = s
        BY <1>2, <2>2, <2>3
    <2>4. CASE p # s
        BY <1>2, <2>2, <2>4
    <2> QED BY <2>3, <2>4
<1>4. Undisturbed(o)
    BY <1>3 DEF Undisturbed
<1> QED BY <1>1, <1>4, Released, SessionFrame

(* What s has at its commit.                                               *)
LEMMA CommitFacts ==
    ASSUME Inv, NEW s \in Slots, pc[s] = "commit"
    PROVE  /\ TypeOK /\ StoreInv /\ OneUse /\ OneUserPerAccount /\ job[s] \in Jobs
           /\ Coherent(s) /\ ConsumesAlone(s) /\ LinksAlone(s) /\ CreatesAlone(s)
           /\ DeletesAlone(s) /\ UsersStay(s) /\ job[s].user \in Users
BY InvParts DEF RowsOK, SessionsTyped, SessionInv, Coherent

LEMMA CommitCreateInv ==
    ASSUME Inv, NEW s \in Slots, pc[s] = "commit", Release(s), CommitCreate(s)
    PROVE  Inv'
<1> DEFINE j == job[s]
<1>1. /\ j.op = "create" /\ owner' = [owner EXCEPT ![j.code] = j.user]
      /\ codes' = (codes \ j.seen) \cup {j.code}
      /\ UNCHANGED <<users, active, link, used, lapsed, uses>>
    BY DEF CommitCreate
<1>2. /\ j.code \in Codes /\ owner[j.code] = None /\ j.user \in users /\ j.user # None
      /\ j.user \in Users
      /\ \A c \in j.seen \cap codes : <<c, "update">> \in held[s]
    <2>1. <<j.user, "key share">> \in held[s]
        BY <1>1, CommitFacts DEF CreatesAlone
    <2> QED BY <1>1, <2>1, CommitFacts, NoneAssumption DEF CreatesAlone, DeletesAlone, UsersStay
<1>3. /\ owner'[j.code] = j.user /\ \A c \in Codes \ {j.code} : owner'[c] = owner[c]
      /\ \A c \in Codes : owner[c] # None => owner'[c] = owner[c]
    BY <1>1, <1>2, CommitFacts DEF TypeOK
<1>4. Monotone
    BY <1>1, <1>2, <1>3 DEF Monotone
<1>5. ASSUME NEW o \in Slots, o # s PROVE SessionInv(o)'
    <2>1. \A c \in Codes : <<c, "update">> \in held[o] => c \notin j.seen \cap codes
        BY <1>2, <1>5, HeldAlone
    <2>2. pc[o] = "commit" /\ job[o].op = "create" => owner'[job[o].code] = None
        BY <1>3, <1>5, InvParts DEF SessionInv, CreatesAlone
    <2> QED BY <1>1, <1>4, <1>5, <2>1, <2>2, OthersKept
<1>6. RowsOK'
    <2>1. TypeOK'
        BY <1>1, <1>2, CommitFacts DEF TypeOK
    <2>2. StoreInv'
        BY <1>1, <1>2, <1>3, CommitFacts DEF StoreInv, TypeOK
    <2> QED BY <1>1, <2>1, <2>2, CommitFacts DEF RowsOK, OneUse, OneUserPerAccount
<1> QED BY <1>5, <1>6, Released DEF Inv, LinksTypeOK, LinksInv, RowsOK, SessionsTyped

LEMMA CommitLinkInv ==
    ASSUME Inv, NEW s \in Slots, pc[s] = "commit", Release(s), CommitLink(s)
    PROVE  Inv'
<1> DEFINE j == job[s]
<1>1. /\ j.op = "link" /\ used' = used \cup {j.code} /\ uses' = [uses EXCEPT ![j.code] = @ + 1]
      /\ link' = [u \in Users |-> IF u = j.user /\ j.copy # j.tg THEN j.tg
                                  ELSE IF u \in Losers(s) THEN None ELSE link[u]]
      /\ UNCHANGED <<users, active, owner, codes, lapsed>>
    BY DEF CommitLink
<1>2. /\ j.code \in Codes /\ j.code \in codes \ used /\ <<j.code, "update">> \in held[s]
      /\ owner[j.code] = j.user /\ j.user \in users /\ j.tg \in Tgs /\ j.user # None
    BY <1>1, CommitFacts, NoneAssumption DEF Coherent, ConsumesAlone, StoreInv
<1>3. j.copy # j.tg =>
          /\ <<j.tg, "update">> \in held[s]
          /\ \A u \in Users : link[u] = j.tg => u = j.user \/ u \in Losers(s)
    BY <1>1, CommitFacts DEF LinksAlone, Taken, Holders, Losers
<1>4. Monotone
    BY <1>1 DEF Monotone
<1>5. ASSUME NEW o \in Slots, o # s PROVE SessionInv(o)'
    <2>1. <<j.code, "update">> \notin held[o] /\ (j.copy # j.tg => <<j.tg, "update">> \notin held[o])
        BY <1>2, <1>3, <1>5, HeldAlone
    <2>2. pc[o] = "commit" /\ job[o].op = "create" => owner'[job[o].code] = None
        BY <1>1, <1>5, InvParts DEF SessionInv, CreatesAlone
    <2>3. \A u \in Users : link'[u] \in {link[u], None} \/ <<link'[u], "update">> \notin held[o]
        BY <1>1, <2>1
    <2> QED BY <1>1, <1>4, <1>5, <2>1, <2>2, <2>3, OthersKept
<1>6. RowsOK'
    <2>1. TypeOK'
        BY <1>1, <1>2, CommitFacts DEF TypeOK
    <2>2. uses[j.code] = 0
        BY <1>2, CommitFacts DEF StoreInv, TypeOK
    <2>3. StoreInv'
        BY <1>1, <1>2, <2>2, CommitFacts DEF StoreInv, TypeOK
    <2>4. OneUse'
        BY <1>1, <1>2, <2>2, CommitFacts DEF OneUse, TypeOK
    <2>5. OneUserPerAccount'
        BY <1>1, <1>2, <1>3, CommitFacts, NoneAssumption DEF OneUserPerAccount
    <2> QED BY <2>1, <2>3, <2>4, <2>5 DEF RowsOK
<1> QED BY <1>5, <1>6, Released DEF Inv, LinksTypeOK, LinksInv, RowsOK, SessionsTyped

LEMMA CommitUnlinkInv ==
    ASSUME Inv, NEW s \in Slots, pc[s] = "commit", Release(s), CommitUnlink(s)
    PROVE  Inv'
<1>1. /\ link' = [link EXCEPT ![job[s].user] = None]
      /\ UNCHANGED <<users, active, owner, codes, used, lapsed, uses>>
    BY DEF CommitUnlink
<1>2. \A u \in Users : link'[u] \in {link[u], None}
    BY <1>1, CommitFacts DEF TypeOK
<1>3. Monotone
    BY <1>1 DEF Monotone
<1>4. ASSUME NEW o \in Slots, o # s PROVE SessionInv(o)'
    <2>1. pc[o] = "commit" /\ job[o].op = "create" => owner'[job[o].code] = None
        BY <1>1, <1>4, InvParts DEF SessionInv, CreatesAlone
    <2> QED BY <1>1, <1>2, <1>3, <1>4, <2>1, OthersKept
<1>5. RowsOK'
    BY <1>1, <1>2, CommitFacts, NoneAssumption
       DEF RowsOK, TypeOK, StoreInv, OneUse, OneUserPerAccount
<1> QED BY <1>4, <1>5, Released DEF Inv, LinksTypeOK, LinksInv, RowsOK, SessionsTyped

LEMMA CommitInv ==
    ASSUME Inv, NEW s \in Slots, Commit(s)
    PROVE  Inv'
BY CommitCreateInv, CommitLinkInv, CommitUnlinkInv DEF Commit

-----------------------------------------------------------------------------
(* The steps of the environment.                                           *)

(* Nothing in the sessions changes, and what they have locked stays.       *)
LEMMA EnvironmentInv ==
    ASSUME Inv, UNCHANGED <<pc, job, held, owner, used, uses>>, RowsOK',
           codes' \subseteq codes, \A u \in Users : link'[u] \in {link[u], None},
           \A s \in Slots : \A l \in held[s] :
               /\ l[1] \in users => l[1] \in users'
               /\ l[2] = "update" /\ l[1] \in codes => l[1] \in codes'
    PROVE  Inv'
<1>1. /\ TypeOK /\ SessionsTyped /\ SessionsTyped' /\ Compatible(held)
      /\ \A s \in Slots : SessionInv(s)
    BY InvParts DEF RowsOK, SessionsTyped
<1>2. Monotone
    BY DEF Monotone
<1>3. ASSUME NEW s \in Slots PROVE SessionInv(s)'
    <2>1. pc[s] = "commit" /\ job[s].op = "create" =>
              /\ owner'[job[s].code] = None
              /\ \A o \in Slots \ {s} : job'[o].code # job[s].code
        BY <1>1 DEF SessionInv, CreatesAlone
    <2>2. \A c \in Codes : <<c, "update">> \in held[s] => (c \in codes => c \in codes')
        OBVIOUS
    <2>3. Undisturbed(s)
        BY <2>1, <2>2 DEF Undisturbed
    <2> QED BY <1>1, <1>2, <2>3, SessionFrame
<1> QED BY <1>1, <1>3 DEF Inv, LinksTypeOK, LinksInv, RowsOK, SessionsTyped

LEMMA ExpireInv ==
    ASSUME Inv, NEW c \in Codes, Expire(c)
    PROVE  Inv'
<1>1. /\ c \in codes /\ lapsed' = lapsed \cup {c} /\ UNCHANGED <<pc, job, held>>
      /\ UNCHANGED <<users, active, link, owner, codes, used, uses>> /\ RowsOK
    BY InvParts DEF Expire, Lapse
<1>2. RowsOK'
    BY <1>1 DEF RowsOK, TypeOK, StoreInv, OneUse, OneUserPerAccount
<1> QED BY <1>1, <1>2, EnvironmentInv

LEMMA SwitchInv ==
    ASSUME Inv, NEW u \in Users, SwitchUser(u)
    PROVE  Inv'
<1>1. /\ u \in users /\ active' \subseteq active \cup {u} /\ UNCHANGED <<pc, job, held>>
      /\ UNCHANGED <<users, link, owner, codes, used, lapsed, uses>> /\ RowsOK
    BY InvParts DEF SwitchUser, Switch
<1>2. RowsOK'
    BY <1>1 DEF RowsOK, TypeOK, StoreInv, OneUse, OneUserPerAccount
<1> QED BY <1>1, <1>2, EnvironmentInv

(* A deletion waits for everybody who has locked the user's row, or one of *)
(* the user's codes.                                                       *)
LEMMA EraseInv ==
    ASSUME Inv, NEW u \in Users, EraseUser(u)
    PROVE  Inv'
<1>1. /\ users' = users \ {u} /\ active' = active \ {u} /\ codes' = codes \ CodesOf(u)
      /\ link' = [link EXCEPT ![u] = None] /\ UNCHANGED <<pc, job, held>>
      /\ UNCHANGED <<owner, used, lapsed, uses>> /\ RowsOK
    BY InvParts DEF EraseUser, Erase
<1>2. \A v \in Users : link'[v] = IF v = u THEN None ELSE link[v]
    BY <1>1 DEF RowsOK, TypeOK
<1>3. TypeOK'
    BY <1>1 DEF RowsOK, TypeOK
<1>4. StoreInv'
    BY <1>1, <1>2 DEF RowsOK, StoreInv, CodesOf
<1>5. RowsOK'
    BY <1>1, <1>2, <1>3, <1>4 DEF RowsOK, OneUse, OneUserPerAccount
<1>6. ASSUME NEW s \in Slots, NEW l \in held[s] PROVE l[1] \notin {u} \cup CodesOf(u)
    BY <1>6 DEF EraseUser, Free, Conflict
<1> QED BY <1>1, <1>2, <1>5, <1>6, EnvironmentInv

LEMMA CrashInv ==
    ASSUME Inv, Crash
    PROVE  Inv'
<1>1. /\ pc' = [s \in Slots |-> "idle"] /\ job' = [s \in Slots |-> NoJob]
      /\ held' = [s \in Slots |-> {}] /\ UNCHANGED rows /\ RowsOK
    BY InvParts DEF Crash
<1>2. RowsOK'
    BY <1>1 DEF RowsOK, TypeOK, StoreInv, OneUse, OneUserPerAccount, rows
<1>3. SessionsTyped' /\ Compatible(held')
    BY <1>1, NoJobTyped DEF SessionsTyped, Labels, Compatible
<1>4. ASSUME NEW s \in Slots PROVE SessionInv(s)'
    BY <1>1 DEF SessionInv, Coherent, ConsumesAlone, LinksAlone, CreatesAlone, DeletesAlone,
           UsersStay, NoJob
<1> QED BY <1>2, <1>3, <1>4 DEF Inv, LinksTypeOK, LinksInv, RowsOK, SessionsTyped

LEMMA Stutter == Inv /\ UNCHANGED vars => Inv'
<1> SUFFICES ASSUME Inv, UNCHANGED vars PROVE Inv'
    OBVIOUS
<1>1. /\ UNCHANGED <<users, active, link, owner, codes, used, lapsed, uses>>
      /\ UNCHANGED <<pc, job, held>> /\ RowsOK
    BY InvParts DEF vars, rows
<1>2. RowsOK'
    BY <1>1 DEF RowsOK, TypeOK, StoreInv, OneUse, OneUserPerAccount
<1> QED BY <1>1, <1>2, EnvironmentInv

LEMMA NextInv == Inv /\ [LinksNext]_vars => Inv'
<1> SUFFICES ASSUME Inv, LinksNext PROVE Inv'
    BY Stutter
<1>1. ASSUME NEW s \in Slots, DeadlockVictim(s) PROVE Fail(s)
    BY <1>1 DEF DeadlockVictim
<1> QED BY <1>1, AskCodeInv, AskUnlinkInv, AskLinkInv, StatementInv, CommitInv, FailInv,
           ExpireInv, SwitchInv, EraseInv, CrashInv
        DEF LinksNext

(* In every state every variable of the Telegram link has its type.        *)
THEOREM LinksTypeCorrect == LinksSpec => []LinksTypeOK
<1>1. Inv => LinksTypeOK
    BY DEF Inv
<1> QED BY <1>1, InitInv, NextInv, PTL DEF LinksSpec

(* In every state a request about to commit has the code, the Telegram id  *)
(* and the rows it writes to itself (crud/telegram.py:19-72,               *)
(* endpoints/telegram.py:58-74).                                           *)
THEOREM LinksInvariant == LinksSpec => []LinksInv
<1>1. Inv => LinksInv
    BY DEF Inv
<1> QED BY <1>1, InitInv, NextInv, PTL DEF LinksSpec

(* With any number of concurrent requests a code links one account at most *)
(* (the FOR UPDATE of crud/telegram.py:50-55).                             *)
THEOREM CodeUsedOnce == LinksSpec => []OneUse
<1>1. Inv => OneUse
    BY DEF Inv
<1> QED BY <1>1, InitInv, NextInv, PTL DEF LinksSpec

(* With any number of concurrent requests a Telegram account belongs to    *)
(* one user at most (models/user.py:17-19).                                *)
THEOREM AccountHasOneUser == LinksSpec => []OneUserPerAccount
<1>1. Inv => OneUserPerAccount
    BY DEF Inv
<1> QED BY <1>1, InitInv, NextInv, PTL DEF LinksSpec

-----------------------------------------------------------------------------
(* The serial promises.                                                    *)

LEMMA QuietSteps ==
    ASSUME LinksNext, ~\E s \in Slots : Commit(s)
    PROVE  \/ \E c \in Codes : Lapse(c)
           \/ \E u \in Users : Switch(u) \/ Erase(u)
           \/ UNCHANGED rows
BY DEF LinksNext, AskCode, AskUnlink, AskLink, Statement, ReadCodes, DeleteCodes, InsertCode,
       Consume, ConsumeRefused, ReadHolder, UnlinkHolder, ReadUser, UserRefused, LinkUser,
       LinkUnique, LinkRefused, Clear, StatementFails, DeadlockVictim, Fail, Expire,
       SwitchUser, EraseUser, Crash

LEMMA SerialCommit ==
    ASSUME Inv, NEW s \in Slots, Commit(s), ~Overtaken(s)
    PROVE  \/ \E u \in Users, c \in Codes : Create(u, c)
           \/ \E c \in Codes, tg \in Tgs : Link(c, tg)
           \/ \E u \in Users : Unlink(u)
<1> DEFINE j == job[s]
<1>1. pc[s] = "commit" /\ j.user \in active /\ j.user \in Users
    BY CommitFacts DEF Commit, Overtaken
<1>2. CASE CommitCreate(s)
    <2>1. j.op = "create" /\ owner[j.code] = None /\ j.code \in Codes
        BY <1>1, <1>2, CommitFacts DEF CommitCreate, CreatesAlone
    <2>2. Unused(j.user) = j.seen \cap codes
        BY <2>1 DEF Overtaken
    <2>3. codes \ j.seen = codes \ Unused(j.user)
        BY <2>2
    <2>4. Create(j.user, j.code)
        BY <1>1, <1>2, <2>1, <2>3 DEF CommitCreate, Create
    <2> QED BY <1>1, <2>1, <2>4
<1>3. CASE CommitLink(s)
    <2>1. /\ j.op = "link" /\ j.code \in Codes /\ owner[j.code] = j.user /\ j.tg \in Tgs
          /\ j.code \in codes \ used
        BY <1>1, <1>3, CommitFacts DEF CommitLink, Coherent, ConsumesAlone
    <2>2. /\ j.holders = Holders(j.tg) /\ j.code \notin lapsed
          /\ j.copy = j.tg => link[j.user] = j.tg
        BY <2>1 DEF Overtaken
    <2>3. Valid(j.code)
        BY <2>1, <2>2 DEF Valid
    <2>4. link' = [u \in Users |-> IF u = j.user THEN j.tg
                                   ELSE IF u \in Holders(j.tg) THEN None ELSE link[u]]
        BY <1>1, <1>3, <2>2 DEF CommitLink, Losers
    <2>5. Link(j.code, j.tg)
        BY <1>1, <1>3, <2>1, <2>3, <2>4 DEF CommitLink, Link
    <2> QED BY <2>1, <2>5
<1>4. CASE CommitUnlink(s)
    BY <1>1, <1>4 DEF CommitUnlink, Unlink
<1> QED BY <1>2, <1>3, <1>4 DEF Commit

(* With any number of concurrent requests, a step does what one request    *)
(* run alone would do, unless it commits after what it has read has        *)
(* changed (endpoints/telegram.py:26-74).                                  *)
THEOREM LinksSerialUpToOvertaking == LinksSpec => SerialUnlessOvertaken
<1> DEFINE Late == \E s \in Slots : Commit(s) /\ Overtaken(s)
<1>1. Inv /\ [LinksNext]_vars => [Next \/ Late]_rows
    <2> SUFFICES ASSUME Inv, [LinksNext]_vars PROVE Next \/ Late \/ UNCHANGED rows
        OBVIOUS
    <2>1. CASE UNCHANGED vars
        BY <2>1 DEF vars
    <2>2. CASE LinksNext /\ ~\E s \in Slots : Commit(s)
        BY <2>2, QuietSteps DEF Next
    <2>3. ASSUME NEW s \in Slots, Commit(s) PROVE Next \/ Late
        BY <2>3, SerialCommit DEF Next
    <2> QED BY <2>1, <2>2, <2>3
<1> QED BY <1>1, InitInv, NextInv, PTL DEF LinksSpec, SerialUnlessOvertaken
=============================================================================
