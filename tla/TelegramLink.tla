---------------------------- MODULE TelegramLink ----------------------------
(***************************************************************************)
(* The Telegram link as the database sees it: codes drawn by the web       *)
(* application, links made by the bot, links undone, one database          *)
(* transaction each, one statement a step, at READ COMMITTED under row     *)
(* locks and the unique index on users.telegram_id.                        *)
(*                                                                         *)
(* A code cannot be guessed: the bot knows those that have been drawn.     *)
(***************************************************************************)
EXTENDS SerialLinks, RowLocks

CONSTANT Slots   \* the database sessions the pool can hand out

VARIABLES
    pc,    \* the statement a session's request executes next
    job,   \* the request, and what it has read
    held   \* row locks, and locks on entries of the unique index

vars == <<rows, pc, job, held>>

Labels == {"idle", "codes", "delete", "insert", "consume", "holder", "unlink",
           "user", "link", "unique", "clear", "commit"}

(* seen: the unused codes that were read, to be deleted.  holders: the     *)
(* users that had the Telegram id when the request asked.  copy, awake:    *)
(* telegram_id and is_active of user as they were loaded.                  *)
Jobs == [op : {"none", "create", "link", "unlink"}, user : Users \cup {None},
         code : Codes \cup {None}, tg : Tgs \cup {None}, seen : SUBSET Codes,
         holders : SUBSET Users, copy : Tgs \cup {None}, awake : BOOLEAN]

NoJob == [op |-> "none", user |-> None, code |-> None, tg |-> None, seen |-> {},
          holders |-> {}, copy |-> None, awake |-> FALSE]

Locks == (Users \cup Codes \cup Tgs) \X Modes

LinksTypeOK ==
    /\ TypeOK
    /\ pc \in [Slots -> Labels]
    /\ job \in [Slots -> Jobs]
    /\ held \in [Slots -> SUBSET Locks]

LinksInit ==
    /\ Init
    /\ pc = [s \in Slots |-> "idle"]
    /\ job = [s \in Slots |-> NoJob]
    /\ held = [s \in Slots |-> {}]

-----------------------------------------------------------------------------
(* A definition marked VARIANT is a plausible bug, as in Ledger.           *)

(* UPDATE users SET telegram_id = value WHERE id = u.  telegram_id is a    *)
(* key: a change locks the row against foreign-key checks too, and the     *)
(* entry of the old value until the end.                                   *)
Updates(u, value) ==
    IF link[u] = value THEN {<<u, "no key update">>}
    ELSE ({u, link[u]} \ {None}) \X {"update"}

(* The users from whom a request takes the Telegram id away.               *)
Losers(s) == job[s].holders \ {job[s].user}

(* VARIANT of ForUpdate: a plain SELECT.                                   *)
PlainSelect(s) == {}

(* The SELECT ... FOR UPDATE of consume.                                   *)
ForUpdate(s) == {<<job[s].code, "update">>}

(* The locks that the next statement takes.                                *)
Wanted(s) ==
    LET j == job[s]
    IN  IF pc[s] = "delete" THEN (j.seen \cap codes) \X {"update"}
        ELSE IF pc[s] = "insert" THEN {<<j.user, "key share">>}
        ELSE IF pc[s] = "consume" THEN ForUpdate(s)
        ELSE IF pc[s] = "unlink" THEN UNION {Updates(u, None) : u \in Losers(s)}
        ELSE IF pc[s] = "link" THEN Updates(j.user, j.tg)
        ELSE IF pc[s] = "unique" THEN {<<j.tg, "update">>}
        ELSE IF pc[s] = "clear" THEN Updates(j.user, None)
        ELSE {}

Wants == [s \in Slots |-> Wanted(s)]

Granted(s) == Blockers(held, Wants, s) = {}

Take(s) ==
    /\ Granted(s)
    /\ held' = [held EXCEPT ![s] = @ \cup Wanted(s)]

Goto(s, label) == pc' = [pc EXCEPT ![s] = label]

(* The session goes back to the pool, its locks are freed.                 *)
Release(s) ==
    /\ Goto(s, "idle")
    /\ job' = [job EXCEPT ![s] = NoJob]
    /\ held' = [held EXCEPT ![s] = {}]

(* A handler raises, and get_db rolls back.                                *)
Fail(s) == Release(s) /\ UNCHANGED rows

-----------------------------------------------------------------------------
(* Bound: no request begins for which Codes has no row left.               *)
RowLeft ==
    Cardinality({s \in Slots : job[s].op = "create"})
        < Cardinality({c \in Codes : owner[c] = None})

(* POST /telegram/link-code by an active user.                             *)
AskCode(s, u) ==
    /\ RowLeft
    /\ pc[s] = "idle"
    /\ u \in active
    /\ Goto(s, "codes")
    /\ job' = [job EXCEPT ![s] = [NoJob EXCEPT !.op = "create", !.user = u]]
    /\ UNCHANGED <<rows, held>>

(* create_for_user: SELECT the codes to delete.                            *)
ReadCodes(s) ==
    /\ pc[s] = "codes"
    /\ Goto(s, "delete")
    /\ job' = [job EXCEPT ![s].seen = Unused(job[s].user)]
    /\ UNCHANGED <<rows, held>>

(* Each is deleted by its id, whatever has become of it; the query for a   *)
(* code that is free flushes the DELETEs.                                  *)
DeleteCodes(s) ==
    /\ pc[s] = "delete"
    /\ Take(s)
    /\ Goto(s, "insert")
    /\ UNCHANGED <<rows, job>>

(* A code nobody has, not even another request under way.                  *)
Fresh(c) == owner[c] = None /\ \A o \in Slots : job[o].code # c

InsertCode(s, c) ==
    /\ pc[s] = "insert"
    /\ job[s].user \in users
    /\ Fresh(c)
    /\ Take(s)
    /\ Goto(s, "commit")
    /\ job' = [job EXCEPT ![s].code = c]
    /\ UNCHANGED rows

(* POST /telegram/link by the bot.                                         *)
AskLink(s, c, tg) ==
    /\ pc[s] = "idle"
    /\ owner[c] # None
    /\ Goto(s, "consume")
    /\ job' = [job EXCEPT ![s] = [NoJob EXCEPT !.op = "link", !.user = owner[c],
                                               !.code = c, !.tg = tg]]
    /\ UNCHANGED <<rows, held>>

(* VARIANT of Consume: used is not looked at.                              *)
ConsumeUsed(s) ==
    /\ pc[s] = "consume"
    /\ job[s].code \in codes \ lapsed
    /\ Take(s)
    /\ Goto(s, "holder")
    /\ UNCHANGED <<rows, job>>

(* consume: SELECT ... FOR UPDATE waits for the row, then sees what has    *)
(* been committed; the UPDATE of used needs no other lock.                 *)
Consume(s) ==
    /\ pc[s] = "consume"
    /\ Valid(job[s].code)
    /\ Take(s)
    /\ Goto(s, "holder")
    /\ UNCHANGED <<rows, job>>

ConsumeRefused(s) ==
    /\ pc[s] = "consume"
    /\ ~Valid(job[s].code)
    /\ job[s].code \in codes => Granted(s)
    /\ Fail(s)

(* get_by_telegram_id; a user found here stays as it was loaded.           *)
ReadHolder(s) ==
    LET j == job[s]
    IN  /\ pc[s] = "holder"
        /\ job' = [job EXCEPT ![s].holders = Holders(j.tg),
                              ![s].awake = j.user \in active]
        /\ Goto(s, IF Holders(j.tg) \subseteq {j.user} THEN "user" ELSE "unlink")
        /\ UNCHANGED <<rows, held>>

UnlinkHolder(s) ==
    /\ pc[s] = "unlink"
    /\ Losers(s) \subseteq users
    /\ Take(s)
    /\ Goto(s, "user")
    /\ UNCHANGED <<rows, job>>

Loaded(s) == job[s].user \in job[s].holders

(* The user the code was drawn for: an object the session already has is   *)
(* not refreshed.  An UPDATE follows if the object changes.                *)
ReadUser(s) ==
    LET j == job[s]
        copy == IF Loaded(s) THEN j.tg ELSE link[j.user]
    IN  /\ pc[s] = "user"
        /\ IF Loaded(s) THEN j.awake ELSE j.user \in active
        /\ job' = [job EXCEPT ![s].copy = copy]
        /\ Goto(s, IF copy = j.tg THEN "commit" ELSE "link")
        /\ UNCHANGED <<rows, held>>

UserRefused(s) ==
    /\ pc[s] = "user"
    /\ IF Loaded(s) THEN ~job[s].awake ELSE job[s].user \notin active
    /\ Fail(s)

(* The UPDATE of telegram_id locks the row, then its new index entry.      *)
LinkUser(s) ==
    /\ pc[s] = "link"
    /\ Take(s)
    /\ Goto(s, "unique")
    /\ UNCHANGED <<rows, job>>

(* VARIANT of Taken: telegram_id is not unique.                            *)
TakenNever(s) == FALSE

(* Somebody else's row has the Telegram id.                                *)
Taken(s) == ~(Holders(job[s].tg) \subseteq job[s].holders \cup {job[s].user})

LinkUnique(s) ==
    /\ pc[s] = "unique"
    /\ ~Taken(s)
    /\ Take(s)
    /\ Goto(s, "commit")
    /\ UNCHANGED <<rows, job>>

(* IntegrityError                                                          *)
LinkRefused(s) ==
    /\ pc[s] = "unique"
    /\ Taken(s)
    /\ Granted(s)
    /\ Fail(s)

(* POST /telegram/unlink by an active user who, as loaded, has a link: the *)
(* object does not change otherwise, and nothing is written.               *)
AskUnlink(s, u) ==
    /\ pc[s] = "idle"
    /\ u \in active
    /\ link[u] # None
    /\ Goto(s, "clear")
    /\ job' = [job EXCEPT ![s] = [NoJob EXCEPT !.op = "unlink", !.user = u]]
    /\ UNCHANGED <<rows, held>>

Clear(s) ==
    /\ pc[s] = "clear"
    /\ job[s].user \in users
    /\ Take(s)
    /\ Goto(s, "commit")
    /\ UNCHANGED <<rows, job>>

(* A user has been deleted: the foreign key of the INSERT fails, an UPDATE *)
(* finds no row (StaleDataError).                                          *)
StatementFails(s) ==
    /\ \/ pc[s] \in {"insert", "clear"} /\ job[s].user \notin users
       \/ pc[s] = "unlink" /\ ~(Losers(s) \subseteq users)
    /\ Fail(s)

(* VARIANT of CommitCreate: earlier codes stay.                            *)
CommitInsert(s) ==
    LET j == job[s]
    IN  /\ j.op = "create"
        /\ owner' = [owner EXCEPT ![j.code] = j.user]
        /\ codes' = codes \cup {j.code}
        /\ UNCHANGED <<users, active, link, used, lapsed, uses>>

CommitCreate(s) ==
    LET j == job[s]
    IN  /\ j.op = "create"
        /\ owner' = [owner EXCEPT ![j.code] = j.user]
        /\ codes' = (codes \ j.seen) \cup {j.code}
        /\ UNCHANGED <<users, active, link, used, lapsed, uses>>

CommitLink(s) ==
    LET j == job[s]
    IN  /\ j.op = "link"
        /\ link' = [u \in Users |-> IF u = j.user /\ j.copy # j.tg THEN j.tg
                                    ELSE IF u \in Losers(s) THEN None ELSE link[u]]
        /\ used' = used \cup {j.code}
        /\ uses' = [uses EXCEPT ![j.code] = @ + 1]
        /\ UNCHANGED <<users, active, owner, codes, lapsed>>

CommitUnlink(s) ==
    /\ job[s].op = "unlink"
    /\ link' = [link EXCEPT ![job[s].user] = None]
    /\ UNCHANGED <<users, active, owner, codes, used, lapsed, uses>>

Commit(s) ==
    /\ pc[s] = "commit"
    /\ CommitCreate(s) \/ CommitLink(s) \/ CommitUnlink(s)
    /\ Release(s)

DeadlockVictim(s) ==
    /\ Deadlocked(held, Wants, s)
    /\ Fail(s)

(* The process stops: open transactions are gone.                          *)
Crash ==
    /\ pc' = [s \in Slots |-> "idle"]
    /\ job' = [s \in Slots |-> NoJob]
    /\ held' = [s \in Slots |-> {}]
    /\ UNCHANGED rows

-----------------------------------------------------------------------------
(* Nobody has locked one of these rows in a mode that conflicts with m.    *)
Free(set, m) ==
    \A s \in Slots : \A l \in held[s] : l[1] \in set => ~Conflict(l[2], m)

(* The requests of other handlers (see Admins) are one step each here.     *)
SwitchUser(u) ==
    /\ Free({u}, "no key update")
    /\ Switch(u)
    /\ UNCHANGED <<pc, job, held>>

EraseUser(u) ==
    /\ Free({u} \cup CodesOf(u), "update")
    /\ Erase(u)
    /\ UNCHANGED <<pc, job, held>>

Expire(c) == c \notin lapsed /\ Lapse(c) /\ UNCHANGED <<pc, job, held>>

Statement(s) ==
    \/ ReadCodes(s) \/ DeleteCodes(s) \/ \E c \in Codes : InsertCode(s, c)
    \/ Consume(s) \/ ConsumeRefused(s) \/ ReadHolder(s) \/ UnlinkHolder(s)
    \/ ReadUser(s) \/ UserRefused(s) \/ LinkUser(s) \/ LinkUnique(s) \/ LinkRefused(s)
    \/ Clear(s) \/ StatementFails(s)

LinksNext ==
    \/ \E s \in Slots, u \in Users : AskCode(s, u) \/ AskUnlink(s, u)
    \/ \E s \in Slots, c \in Codes, tg \in Tgs : AskLink(s, c, tg)
    \/ \E s \in Slots : Statement(s) \/ Commit(s) \/ DeadlockVictim(s)
    \/ \E u \in Users : SwitchUser(u) \/ EraseUser(u)
    \/ \E c \in Codes : Expire(c)
    \/ Crash

LinksSpec == LinksInit /\ [][LinksNext]_vars

-----------------------------------------------------------------------------
(* Why the promises hold: the inductive invariant.                         *)

Coherent(s) ==
    LET j == job[s]
    IN  /\ pc[s] = "idle" => j = NoJob /\ held[s] = {}
        /\ pc[s] # "idle" => j.op # "none" /\ j.user \in Users
        /\ pc[s] \in {"codes", "delete", "insert"} => j.op = "create" /\ j.code = None
        /\ pc[s] \in {"consume", "holder", "unlink", "user", "link", "unique"} =>
              j.op = "link"
        /\ pc[s] = "clear" => j.op = "unlink"
        /\ j.op = "create" => \A c \in j.seen : owner[c] = j.user
        /\ j.op = "link" => /\ j.code \in Codes /\ owner[j.code] = j.user
                            /\ j.tg \in Tgs
        /\ j.op = "unlink" => j.code = None

(* An UPDATE of row u under way.                                           *)
Wrote(s, u) == \E m \in {"no key update", "update"} : <<u, m>> \in held[s]

(* A code that is being consumed is this request's alone and nobody has    *)
(* used it.                                                                *)
ConsumesAlone(s) ==
    job[s].op = "link" /\ pc[s] # "consume" =>
        <<job[s].code, "update">> \in held[s] /\ job[s].code \in codes \ used

(* A Telegram id about to be committed is nobody else's.                   *)
LinksAlone(s) ==
    job[s].op = "link" /\ pc[s] = "commit" /\ job[s].copy # job[s].tg =>
        <<job[s].tg, "update">> \in held[s] /\ ~Taken(s)

(* A new code is nobody else's, and its user stays.                        *)
CreatesAlone(s) ==
    job[s].op = "create" /\ pc[s] = "commit" =>
        /\ job[s].code \in Codes
        /\ owner[job[s].code] = None
        /\ \A o \in Slots \ {s} : job[o].code # job[s].code
        /\ <<job[s].user, "key share">> \in held[s]

(* The codes about to be deleted are this request's alone.                 *)
DeletesAlone(s) ==
    job[s].op = "create" /\ pc[s] \in {"insert", "commit"} =>
        \A c \in job[s].seen \cap codes : <<c, "update">> \in held[s]

(* What a request has locked of the users stays.                           *)
UsersStay(s) ==
    /\ \A l \in held[s] : l[1] \in Users => l[1] \in users
    /\ job[s].op = "link" /\ pc[s] \in {"user", "link", "unique", "commit"} =>
          \A u \in Losers(s) : Wrote(s, u)
    /\ job[s].op = "unlink" /\ pc[s] = "commit" => Wrote(s, job[s].user)

StoreInv ==
    /\ \A c \in codes \cup used \cup lapsed : owner[c] # None
    /\ \A c \in codes : owner[c] \in users
    /\ \A u \in Users \ users : link[u] = None
    /\ \A c \in Codes : uses[c] > 0 => c \in used

SessionInv(s) ==
    /\ Coherent(s)
    /\ ConsumesAlone(s)
    /\ LinksAlone(s)
    /\ CreatesAlone(s)
    /\ DeletesAlone(s)
    /\ UsersStay(s)

(* Incompatible locks are never held together; a request about to commit   *)
(* has the code, the Telegram id and the rows it writes to itself; a       *)
(* code's user is there (crud/telegram.py:19-72, endpoints/telegram.py:    *)
(* 58-74).                                                                 *)
LinksInv == Compatible(held) /\ StoreInv /\ \A s \in Slots : SessionInv(s)

-----------------------------------------------------------------------------
(* A code links one account at most, however many requests bring it at     *)
(* once: consume takes the row FOR UPDATE (crud/telegram.py:50-55).        *)
OneUse == \A c \in Codes : uses[c] <= 1

(* What a request read has changed by its commit.                          *)
Overtaken(s) ==
    LET j == job[s]
    IN  \/ j.user \notin active
        \/ j.op = "create" /\ Unused(j.user) # j.seen \cap codes
        \/ j.op = "link" /\ \/ j.holders # Holders(j.tg)
                            \/ j.copy = j.tg /\ link[j.user] # j.tg
                            \/ j.code \in lapsed

(* Whatever the interleaving, a step does what one request run alone would *)
(* do, unless it commits after what it has read has changed                *)
(* (endpoints/telegram.py:26-74).                                          *)
SerialUnlessOvertaken ==
    [][Next \/ \E s \in Slots : Commit(s) /\ Overtaken(s)]_rows
=============================================================================
