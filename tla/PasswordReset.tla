---------------------------- MODULE PasswordReset ----------------------------
(***************************************************************************)
(* The password reset as the database sees it: requests for a link and     *)
(* confirmations, one database transaction each, one statement a step, at  *)
(* READ COMMITTED under row locks, and the e-mail that leaves after the    *)
(* commit from the memory of the process.                                  *)
(*                                                                         *)
(* The secret in a link cannot be guessed: a confirmation of a token is    *)
(* possible once its e-mail is out.                                        *)
(***************************************************************************)
EXTENDS SerialResets, RowLocks

CONSTANT Slots   \* the database sessions the pool can hand out

VARIABLES
    pc,      \* the statement a session's request executes next
    job,     \* the request, and what it has read
    held,    \* row locks
    outbox,  \* tokens whose e-mail is a pending background task
    mailed   \* tokens whose e-mail has left

vars == <<rows, pc, job, held, outbox, mailed>>

Labels == {"idle", "match", "void", "insert", "user", "password", "token", "commit"}

(* seen: the unused tokens that the UPDATE of create matched.              *)
(* known, valid, active: history of what the request's reads could see:    *)
(* the tokens that there were, whether its token was valid, its user       *)
(* active.                                                                 *)
Jobs == [op : {"none", "request", "confirm"}, user : Users \cup {None},
         token : Tokens \cup {None}, seen : SUBSET Tokens,
         known : SUBSET Tokens, valid : BOOLEAN, active : BOOLEAN]

NoJob == [op |-> "none", user |-> None, token |-> None, seen |-> {},
          known |-> {}, valid |-> FALSE, active |-> FALSE]

Locks == (Users \cup Tokens) \X Modes

ResetsTypeOK ==
    /\ TypeOK
    /\ pc \in [Slots -> Labels]
    /\ job \in [Slots -> Jobs]
    /\ held \in [Slots -> SUBSET Locks]
    /\ outbox \subseteq Tokens
    /\ mailed \subseteq Tokens

ResetsInit ==
    /\ Init
    /\ pc = [s \in Slots |-> "idle"]
    /\ job = [s \in Slots |-> NoJob]
    /\ held = [s \in Slots |-> {}]
    /\ outbox = {}
    /\ mailed = {}

-----------------------------------------------------------------------------
(* A definition marked VARIANT is a plausible bug, as in Ledger.           *)

(* The WHERE clause of create's UPDATE.                                    *)
Matching(u) == {t \in Tokens : owner[t] = u /\ u \in users /\ t \notin used}

(* The row of s that an INSERT refers to or an UPDATE by key writes.       *)
Row(s, label) == IF label = "token" THEN job[s].token ELSE job[s].user

(* The rows that the next statement locks.  An UPDATE that has waited for  *)
(* a row looks at it again: what no longer matches it leaves alone.        *)
Rows(s) ==
    IF pc[s] = "void" THEN job[s].seen \cap Matching(job[s].user)
    ELSE {Row(s, pc[s])}

Mode(s) == IF pc[s] = "insert" THEN "key share" ELSE "no key update"

(* VARIANT of Wanted: the foreign key of a token is not checked.           *)
WantedUpdates(s) ==
    IF pc[s] \in {"void", "password", "token"} THEN Rows(s) \X {Mode(s)} ELSE {}

Wanted(s) ==
    IF pc[s] \in {"void", "insert", "password", "token"} THEN Rows(s) \X {Mode(s)}
    ELSE {}

Wants == [s \in Slots |-> Wanted(s)]

Take(s) ==
    /\ Blockers(held, Wants, s) = {}
    /\ held' = [held EXCEPT ![s] = @ \cup Wanted(s)]

Goto(s, label) == pc' = [pc EXCEPT ![s] = label]

(* VARIANT of Release: the session goes back with its transaction open.    *)
ReleaseOpen(s) ==
    /\ Goto(s, "idle")
    /\ job' = [job EXCEPT ![s] = NoJob]
    /\ UNCHANGED held

(* The session goes back to the pool, its locks are freed.                 *)
Release(s) ==
    /\ Goto(s, "idle")
    /\ job' = [job EXCEPT ![s] = NoJob]
    /\ held' = [held EXCEPT ![s] = {}]

(* A handler raises: get_db rolls back, and no e-mail is sent.             *)
Fail(s) == Release(s) /\ UNCHANGED <<rows, outbox, mailed>>

-----------------------------------------------------------------------------
(* Bound: no request begins for which Tokens has no row left.              *)
RowLeft ==
    Cardinality({s \in Slots : job[s].op = "request"})
        < Cardinality({t \in Tokens : owner[t] = None})

(* A request for a link: the user's row is read.                           *)
Ask(s, u) ==
    /\ RowLeft
    /\ pc[s] = "idle"
    /\ u \in users
    /\ Goto(s, "match")
    /\ job' = [job EXCEPT ![s] = [NoJob EXCEPT !.op = "request", !.user = u]]
    /\ UNCHANGED <<rows, held, outbox, mailed>>

(* create: the UPDATE begins with the rows its snapshot shows...           *)
Match(s) ==
    /\ pc[s] = "match"
    /\ Goto(s, "void")
    /\ job' = [job EXCEPT ![s].seen = Matching(job[s].user),
                          ![s].known = {t \in Tokens : owner[t] # None}]
    /\ UNCHANGED <<rows, held, outbox, mailed>>

(* ...and writes them once it has their locks.                             *)
Void(s) ==
    /\ pc[s] = "void"
    /\ Take(s)
    /\ Goto(s, "insert")
    /\ UNCHANGED <<rows, job, outbox, mailed>>

(* A secret nobody has, not even another request under way.                *)
Fresh(t) == owner[t] = None /\ \A o \in Slots : job[o].token # t

(* The INSERT of the token; that of the audit entry needs no other lock.   *)
Insert(s, t) ==
    /\ pc[s] = "insert"
    /\ job[s].user \in users
    /\ Fresh(t)
    /\ Take(s)
    /\ Goto(s, "commit")
    /\ job' = [job EXCEPT ![s].token = t]
    /\ UNCHANGED <<rows, outbox, mailed>>

(* get_valid                                                               *)
GetValid(t) == owner[t] \in users /\ t \notin used /\ t \notin lapsed

(* A confirmation begins.                                                  *)
Open(s, t) ==
    /\ pc[s] = "idle"
    /\ t \in mailed
    /\ GetValid(t)
    /\ Goto(s, "user")
    /\ job' = [job EXCEPT ![s] = [NoJob EXCEPT !.op = "confirm", !.user = owner[t],
                                               !.token = t, !.valid = Valid(t)]]
    /\ UNCHANGED <<rows, held, outbox, mailed>>

(* Nothing orders the UPDATEs of the two rows: User and PasswordResetToken *)
(* have no relationship() for the unit of work to sort by.                 *)
ReadUser(s) ==
    /\ pc[s] = "user"
    /\ job[s].user \in active
    /\ \E first \in {"password", "token"} : Goto(s, first)
    /\ job' = [job EXCEPT ![s].active = job[s].user \in active]
    /\ UNCHANGED <<rows, held, outbox, mailed>>

UserRefused(s) ==
    /\ pc[s] = "user"
    /\ job[s].user \notin active
    /\ Fail(s)

Wrote(s, row) == <<row, "no key update">> \in held[s]

Other(s) == IF pc[s] = "password" THEN "token" ELSE "password"

(* The flush of mark_used: users.hashed_password and used_at.              *)
Write(s) ==
    /\ pc[s] \in {"password", "token"}
    /\ job[s].user \in users
    /\ Take(s)
    /\ Goto(s, IF Wrote(s, Row(s, Other(s))) THEN "commit" ELSE Other(s))
    /\ UNCHANGED <<rows, job, outbox, mailed>>

(* The user has been deleted, the tokens with the user: the foreign key of *)
(* an INSERT fails, an UPDATE finds no row (StaleDataError).               *)
StatementFails(s) ==
    /\ pc[s] \in {"insert", "password", "token"}
    /\ job[s].user \notin users
    /\ Fail(s)

(* VARIANT of CommitRequest: create without its UPDATE.                    *)
CommitOnly(s) ==
    LET j == job[s]
    IN  /\ j.op = "request"
        /\ owner' = [owner EXCEPT ![j.token] = j.user]
        /\ outbox' = outbox \cup {j.token}
        /\ UNCHANGED <<users, active, used, lapsed, uses, mailed>>

(* get_db commits, then the response leaves and the task waits its turn.   *)
CommitRequest(s) ==
    LET j == job[s]
    IN  /\ j.op = "request"
        /\ owner' = [owner EXCEPT ![j.token] = j.user]
        /\ used' = used \cup j.seen
        /\ outbox' = outbox \cup {j.token}
        /\ UNCHANGED <<users, active, lapsed, uses, mailed>>

CommitConfirm(s) ==
    LET t == job[s].token
    IN  /\ job[s].op = "confirm"
        /\ used' = used \cup {t}
        /\ uses' = [uses EXCEPT ![t] = @ + 1]
        /\ UNCHANGED <<users, active, owner, lapsed, outbox, mailed>>

Commit(s) ==
    /\ pc[s] = "commit"
    /\ CommitRequest(s) \/ CommitConfirm(s)
    /\ Release(s)

DeadlockVictim(s) ==
    /\ Deadlocked(held, Wants, s)
    /\ Fail(s)

-----------------------------------------------------------------------------
(* send_password_reset_email: the link leaves by e-mail, or goes to the    *)
(* operator's log where no mail is set up.                                 *)
Send(t) ==
    /\ t \in outbox
    /\ outbox' = outbox \ {t}
    /\ mailed' = mailed \cup {t}
    /\ UNCHANGED <<rows, pc, job, held>>

(* It catches any other error, and the link is lost.                       *)
SendFails(t) ==
    /\ t \in outbox
    /\ outbox' = outbox \ {t}
    /\ UNCHANGED <<rows, pc, job, held, mailed>>

(* The process stops: open transactions and pending tasks are gone.        *)
Crash ==
    /\ pc' = [s \in Slots |-> "idle"]
    /\ job' = [s \in Slots |-> NoJob]
    /\ held' = [s \in Slots |-> {}]
    /\ outbox' = {}
    /\ UNCHANGED <<rows, mailed>>

Expire(t) == Lapse(t) /\ UNCHANGED <<pc, job, held, outbox, mailed>>

(* Nobody has locked one of these rows in a mode that conflicts with m.    *)
Free(set, m) ==
    \A s \in Slots : \A l \in held[s] : l[1] \in set => ~Conflict(l[2], m)

(* The requests of other handlers (see Admins) are one step each here.     *)
SwitchUser(u) ==
    /\ Free({u}, "no key update")
    /\ Switch(u)
    /\ UNCHANGED <<pc, job, held, outbox, mailed>>

EraseUser(u) ==
    /\ Free({u} \cup {t \in Tokens : owner[t] = u}, "update")
    /\ Erase(u)
    /\ UNCHANGED <<pc, job, held, outbox, mailed>>

Statement(s) ==
    \/ Match(s) \/ Void(s) \/ \E t \in Tokens : Insert(s, t)
    \/ ReadUser(s) \/ UserRefused(s) \/ Write(s) \/ StatementFails(s)

ResetsNext ==
    \/ \E s \in Slots, u \in Users : Ask(s, u)
    \/ \E s \in Slots, t \in Tokens : Open(s, t)
    \/ \E s \in Slots : Statement(s) \/ Commit(s) \/ DeadlockVictim(s)
    \/ \E t \in Tokens : Send(t) \/ SendFails(t) \/ Expire(t)
    \/ \E u \in Users : SwitchUser(u) \/ EraseUser(u)
    \/ Crash

ResetsSpec == ResetsInit /\ [][ResetsNext]_vars

(* Row locks are granted in the order they are asked for; the deadlock     *)
(* timer fires (see Ledger).                                               *)
FairResetsSpec ==
    /\ ResetsSpec
    /\ \A s \in Slots : /\ SF_vars(Statement(s) \/ Commit(s))
                        /\ WF_vars(DeadlockVictim(s))

-----------------------------------------------------------------------------
(* Why the promises hold: the inductive invariant.                         *)

Coherent(s) ==
    LET j == job[s]
    IN  /\ pc[s] = "idle" => j = NoJob /\ held[s] = {}
        /\ pc[s] # "idle" => j.user \in Users
        /\ pc[s] \in {"match", "void", "insert"} => j.op = "request" /\ j.token = None
        /\ pc[s] \in {"user", "password", "token"} => j.op = "confirm"
        /\ pc[s] = "commit" => j.op \in {"request", "confirm"} /\ j.token # None
        /\ j.op = "confirm" => /\ j.token \in Tokens /\ owner[j.token] = j.user
                               /\ j.valid
                               /\ pc[s] # "user" => j.active
        /\ \A t \in j.seen : owner[t] = j.user
        /\ \A t \in j.known : owner[t] # None /\ (t \in Unused(j.user) => t \in j.seen)

(* A request that is about to commit keeps the rows it writes or refers    *)
(* to, and a new token is nobody else's.                                   *)
Pinned(s) ==
    LET j == job[s]
    IN  /\ pc[s] = "commit" /\ j.op = "request" =>
              /\ <<j.user, "key share">> \in held[s]
              /\ owner[j.token] = None
              /\ \A o \in Slots \ {s} : job[o].token # j.token
        /\ pc[s] = "commit" /\ j.op = "confirm" =>
              /\ Wrote(s, j.user)
              /\ Wrote(s, j.token)
        /\ held[s] \cap ({j.user} \X Modes) # {} => j.user \in users

(* Incompatible locks are never held together, what commits is locked,     *)
(* nobody can delete a user under a request that has written, and a link   *)
(* leaves for a committed token alone (endpoints/auth.py:78-93, 111-119).  *)
ResetsInv ==
    /\ Compatible(held)
    /\ \A s \in Slots : Coherent(s) /\ Pinned(s)
    /\ \A t \in outbox \cup mailed \cup used : owner[t] # None
    /\ \A t \in Tokens : uses[t] > 0 => t \in used

-----------------------------------------------------------------------------
(* What a request read has changed by its commit: a token has been used,   *)
(* voided or has lapsed, a user switched off; for a new link, there is     *)
(* another that was not there to be voided.                                *)
Overtaken(s) ==
    LET j == job[s]
    IN  IF j.op = "confirm"
        THEN j.valid # Valid(j.token) \/ j.active # (j.user \in active)
        ELSE \E t \in Unused(j.user) : t \notin j.known

(* Whatever the interleaving, a step does what one request run alone would *)
(* do, unless it commits after another request of the same user            *)
(* (crud/password_reset.py:15-62).                                         *)
SerialUnlessOvertaken ==
    [][Next \/ \E s \in Slots : Commit(s) /\ Overtaken(s)]_rows

(* Every request ends, in a commit or in an error, also when two           *)
(* confirmations of one link wait for each other.                          *)
RequestsEnd == \A s \in Slots : pc[s] # "idle" ~> pc[s] = "idle"
=============================================================================
