------------------------------- MODULE Ledger -------------------------------
(***************************************************************************)
(* The accounts and transactions endpoints as the database sees them: each *)
(* request is one database transaction on a session of its own (get_db),   *)
(* each SQL statement is one step, and the statements of concurrent        *)
(* requests interleave at READ COMMITTED under row locks.                  *)
(*                                                                         *)
(* A request's new balances stay in its draft, seen by itself alone, until *)
(* it commits; what it does to transaction rows is published by the commit *)
(* (the rows stay locked from the statement to the commit).  Requests of a *)
(* user who does not own the account end before any write, and so do not   *)
(* appear.                                                                 *)
(***************************************************************************)
EXTENDS SerialLedger, RowLocks

CONSTANT Slots   \* the database sessions the pool can hand out

ASSUME IdsAssumption == Txs \subseteq Nat

VARIABLES
    seq,        \* transactions_id_seq: the last id handed out
    pc,         \* the statement a session's request executes next
    job,        \* what the request has read and means to write
    leg,        \* how many balance updates of the plan are done
    draft,      \* balances written and not committed
    held,       \* row locks
    contested   \* history: some commit used an image of its row out of date

vars == <<ledger, seq, pc, job, leg, draft, held, contested>>

Labels == {"idle", "insert", "recheck", "work", "rows", "cascade", "commit"}

(* op: the handler.  old: the ORM's copy of transactions row tx, as first  *)
(* read.  new: the row the request wants.  acc: the account to close, and  *)
(* doomed: its rows the ORM has loaded and still has to delete.            *)
Jobs == [op : {"none", "create", "update", "delete", "close"},
         tx : Txs \cup {None}, old : Row \cup {NoRow}, new : Row \cup {NoRow},
         acc : Accounts \cup {None}, doomed : SUBSET Txs]

NoJob == [op |-> "none", tx |-> None, old |-> NoRow, new |-> NoRow,
          acc |-> None, doomed |-> {}]

Locks == ({"account"} \X Accounts \cup {"tx"} \X Txs) \X Modes

Untouched == [a \in Accounts |-> 0]

LedgerTypeOK ==
    /\ TypeOK
    /\ seq \in Nat
    /\ pc \in [Slots -> Labels]
    /\ job \in [Slots -> Jobs]
    /\ leg \in [Slots -> 0 .. 2]
    /\ draft \in [Slots -> [Accounts -> Int]]
    /\ held \in [Slots -> SUBSET Locks]
    /\ contested \in BOOLEAN

LedgerInit ==
    /\ Init
    /\ seq = 0
    /\ pc = [s \in Slots |-> "idle"]
    /\ job = [s \in Slots |-> NoJob]
    /\ leg = [s \in Slots |-> 0]
    /\ draft = [s \in Slots |-> Untouched]
    /\ held = [s \in Slots |-> {}]
    /\ contested = FALSE

-----------------------------------------------------------------------------
(* A definition marked VARIANT is a plausible bug: what a slip in the code *)
(* would make of the definition it names.  No behaviour uses it; put in    *)
(* its place, it must break the property that PROJECT.json names.          *)

(* VARIANT of Plan: a deletion books the amount again.                     *)
PlanUnnegated(s) ==
    LET j == job[s]
    IN  CASE j.op = "create" -> Deltas(j.new, j.new.amt)
          [] j.op = "update" -> Deltas(j.old, j.new.amt - j.old.amt)
          [] j.op = "delete" -> Deltas(j.old, j.old.amt)
          [] OTHER           -> << >>

(* VARIANT of Plan: an update books the new amount on top of the old.      *)
PlanUndiffed(s) ==
    LET j == job[s]
    IN  CASE j.op \in {"create", "update"} -> Deltas(j.new, j.new.amt)
          [] j.op = "delete"               -> Deltas(j.old, -j.old.amt)
          [] OTHER                         -> << >>

(* The balance updates the handler issues, in order: the body's amount, the *)
(* difference to the amount read, or the amount read negated.              *)
Plan(s) ==
    LET j == job[s]
    IN  CASE j.op = "create" -> Deltas(j.new, j.new.amt)
          [] j.op = "update" -> Deltas(j.old, j.new.amt - j.old.amt)
          [] j.op = "delete" -> Deltas(j.old, -j.old.amt)
          [] OTHER           -> << >>

(* VARIANT of LegsDone: the loop returns after its first update.           *)
FirstLegDone(s) == leg[s] = Len(Plan(s)) \/ leg[s] = 1

LegsDone(s) == leg[s] = Len(Plan(s))

Target(s) == Plan(s)[leg[s] + 1].acc

Lock(kind, id, mode) == <<<<kind, id>>, mode>>

(* The row of doomed that the unit of work deletes next: by primary key.   *)
Smallest(ids) == CHOOSE t \in ids : \A u \in ids : t <= u

Present == {t \in Txs : rows[t] # NoRow}

(* The locks the next statement of s takes.                                *)
Wanted(s) ==
    LET j == job[s]
    IN  CASE pc[s] = "insert" ->
                {Lock("account", a, "key share") : a \in {j.new.acc, j.new.to} \cap live}
          [] pc[s] = "work" /\ ~LegsDone(s) ->
                {Lock("account", a, "no key update") : a \in {Target(s)} \cap live}
          [] pc[s] = "work" /\ LegsDone(s) /\ j.op # "create" ->
                {Lock("tx", t, IF j.op = "update" THEN "no key update" ELSE "update") :
                    t \in Present \cap {j.tx}}
          [] pc[s] = "rows" /\ j.doomed # {} ->
                {Lock("tx", t, "update") : t \in Present \cap {Smallest(j.doomed)}}
          [] pc[s] = "rows" /\ j.doomed = {} ->
                {Lock("account", a, "update") : a \in {j.acc} \cap live}
          [] pc[s] = "cascade" ->
                {Lock("tx", t, "update") : t \in {u \in Present : rows[u].acc = j.acc}}
                \cup {Lock("tx", t, "no key update") :
                        t \in {u \in Present : rows[u].to = j.acc}}
          [] OTHER -> {}

Wants == [s \in Slots |-> Wanted(s)]

(* The statement gets its locks.                                           *)
Take(s) ==
    /\ Blockers(held, Wants, s) = {}
    /\ held' = [held EXCEPT ![s] = @ \cup Wanted(s)]

Goto(s, label) == pc' = [pc EXCEPT ![s] = label]

(* The balance a statement of s reads: its own write, or the committed one.*)
Written(s, a) == Lock("account", a, "no key update") \in held[s]
View(s, a) == IF Written(s, a) THEN draft[s][a] ELSE balance[a]

Begin(s, label, j) ==
    /\ pc[s] = "idle"
    /\ Goto(s, label)
    /\ job' = [job EXCEPT ![s] = j]
    /\ UNCHANGED <<ledger, seq, leg, draft, held, contested>>

(* VARIANT of Release: the session goes back with its transaction open.    *)
ReleaseOpen(s) ==
    /\ Goto(s, "idle")
    /\ job' = [job EXCEPT ![s] = NoJob]
    /\ leg' = [leg EXCEPT ![s] = 0]
    /\ UNCHANGED <<draft, held>>

(* The session goes back to the pool, its locks are freed.                 *)
Release(s) ==
    /\ Goto(s, "idle")
    /\ job' = [job EXCEPT ![s] = NoJob]
    /\ leg' = [leg EXCEPT ![s] = 0]
    /\ draft' = [draft EXCEPT ![s] = Untouched]
    /\ held' = [held EXCEPT ![s] = {}]

(* VARIANT of Rollback: get_db commits whatever happened.                  *)
CommitAnyway(s) ==
    /\ pc[s] # "idle"
    /\ balance' = [a \in Accounts |-> View(s, a)]
    /\ Release(s)
    /\ UNCHANGED <<live, rows, opening, kept, seq, contested>>

Rollback(s) ==
    /\ pc[s] # "idle"
    /\ Release(s)
    /\ UNCHANGED <<ledger, seq, contested>>

-----------------------------------------------------------------------------
(* POST /accounts/: one INSERT, committed with the request.                *)
OpenAccount(a, v) ==
    /\ Open(a, v)
    /\ InRange(Cents(v))
    /\ UNCHANGED <<seq, pc, job, leg, draft, held, contested>>

(* POST /transactions/ has found body.acc; nobody looks body.to up.        *)
BeginCreate(s, body) ==
    /\ body.acc \in live
    /\ Begin(s, "insert", [NoJob EXCEPT !.op = "create", !.new = body])

(* VARIANT of IdLeft: nobody notices the end of the sequence.              *)
IdAlways == TRUE
IdLeft == seq + 1 \in Txs

(* VARIANT of KeysHold: to_account_id without its foreign key.             *)
SourceHolds(s) == job[s].new.acc \in live
KeysHold(s) == {job[s].new.acc, job[s].new.to} \subseteq live \cup {None}

(* The first balance UPDATE flushes the INSERT, whose foreign keys lock    *)
(* both accounts.                                                          *)
Insert(s) ==
    /\ pc[s] = "insert"
    /\ IdLeft
    /\ KeysHold(s)
    /\ Take(s)
    /\ seq' = seq + 1
    /\ job' = [job EXCEPT ![s].tx = seq']
    /\ Goto(s, "work")
    /\ UNCHANGED <<ledger, leg, draft, contested>>

(* A foreign key fails, or the sequence has reached its last value.        *)
InsertRefused(s) ==
    /\ pc[s] = "insert"
    /\ \/ ~IdLeft
       \/ ~KeysHold(s) /\ Blockers(held, Wants, s) = {}
    /\ seq' = IF IdLeft THEN seq + 1 ELSE seq
    /\ Release(s)
    /\ UNCHANGED <<ledger, contested>>

(* PATCH /transactions/{id}: an amount equal to the one read moves nothing.*)
BeginUpdate(s, t, amount) ==
    /\ rows[t] # NoRow
    /\ amount # rows[t].amt
    /\ Begin(s, "work", [NoJob EXCEPT !.op = "update", !.tx = t, !.old = rows[t],
                                      !.new = [rows[t] EXCEPT !.amt = amount]])

(* DELETE /transactions/{id}: the endpoint reads the row ...               *)
BeginDelete(s, t) ==
    /\ rows[t] # NoRow
    /\ Begin(s, "recheck", [NoJob EXCEPT !.op = "delete", !.tx = t, !.old = rows[t]])

(* ... and crud.delete reads it again: a row already loaded keeps the      *)
(* attributes of the first read, and only its absence is noticed.          *)
Recheck(s) ==
    /\ pc[s] = "recheck"
    /\ rows[job[s].tx] # NoRow
    /\ Goto(s, "work")
    /\ UNCHANGED <<ledger, seq, job, leg, draft, held, contested>>

RecheckGone(s) ==
    /\ pc[s] = "recheck"
    /\ rows[job[s].tx] = NoRow
    /\ Rollback(s)

(* UPDATE accounts SET balance = balance + delta WHERE id = ...            *)
Leg(s) ==
    /\ pc[s] = "work"
    /\ ~LegsDone(s)
    /\ LET a == Target(s)
           sum == View(s, a) + Cents(Plan(s)[leg[s] + 1].by)
       IN  /\ a \in live
           /\ Take(s)
           /\ InRange(sum)
           /\ draft' = [draft EXCEPT ![s][a] = sum]
    /\ leg' = [leg EXCEPT ![s] = @ + 1]
    /\ UNCHANGED <<ledger, seq, pc, job, contested>>

LegOfNobody(s) ==
    /\ pc[s] = "work"
    /\ ~LegsDone(s)
    /\ Target(s) \notin live
    /\ leg' = [leg EXCEPT ![s] = @ + 1]
    /\ UNCHANGED <<ledger, seq, pc, job, draft, held, contested>>

Overflow(s) ==
    /\ pc[s] = "work"
    /\ ~LegsDone(s)
    /\ Target(s) \in live
    /\ Blockers(held, Wants, s) = {}
    /\ ~InRange(View(s, Target(s)) + Cents(Plan(s)[leg[s] + 1].by))
    /\ Rollback(s)

(* UPDATE or DELETE of the transactions row itself.                        *)
WriteRow(s) ==
    /\ pc[s] = "work"
    /\ LegsDone(s)
    /\ \/ job[s].op = "update" /\ rows[job[s].tx] # NoRow
       \/ job[s].op = "delete"
    /\ Take(s)
    /\ Goto(s, "commit")
    /\ UNCHANGED <<ledger, seq, job, leg, draft, contested>>

(* An ORM UPDATE that matches no row raises StaleDataError.                *)
UpdateGone(s) ==
    /\ pc[s] = "work"
    /\ LegsDone(s)
    /\ job[s].op = "update"
    /\ rows[job[s].tx] = NoRow
    /\ Rollback(s)

(* DELETE /accounts/{id}: the account and the rows booked on it are read.  *)
BeginClose(s, a) ==
    /\ a \in live
    /\ Begin(s, "rows", [NoJob EXCEPT !.op = "close", !.acc = a,
                            !.doomed = {t \in Present : rows[t].acc = a}])

(* One DELETE per loaded row; a row that is gone by now only logs.         *)
CloseRow(s) ==
    /\ pc[s] = "rows"
    /\ job[s].doomed # {}
    /\ Take(s)
    /\ job' = [job EXCEPT ![s].doomed = @ \ {Smallest(@)}]
    /\ UNCHANGED <<ledger, seq, pc, leg, draft, contested>>

CloseAccount(s) ==
    /\ pc[s] = "rows"
    /\ job[s].doomed = {}
    /\ Take(s)
    /\ Goto(s, "cascade")
    /\ UNCHANGED <<ledger, seq, job, leg, draft, contested>>

(* The foreign keys' own DELETE and SET NULL on what is left.              *)
Cascade(s) ==
    /\ pc[s] = "cascade"
    /\ Take(s)
    /\ Goto(s, "commit")
    /\ UNCHANGED <<ledger, seq, job, leg, draft, contested>>

-----------------------------------------------------------------------------
(* get_db commits when the handler has returned.                           *)
Publish(s) == balance' = [a \in Accounts |-> View(s, a)]

CommitCreate(s) ==
    /\ pc[s] = "work"
    /\ job[s].op = "create"
    /\ LegsDone(s)
    /\ rows' = [rows EXCEPT ![job[s].tx] = Stored(job[s].new)]
    /\ Publish(s)
    /\ Release(s)
    /\ UNCHANGED <<live, opening, kept, seq, contested>>

(* The image the plan was made from is no longer the row.                  *)
StaleImage(s) ==
    LET now == rows[job[s].tx]
    IN  IF now = NoRow THEN TRUE ELSE now.amt # job[s].old.amt

CommitUpdate(s) ==
    /\ pc[s] = "commit"
    /\ job[s].op = "update"
    /\ LET t == job[s].tx
       IN  rows' = [rows EXCEPT ![t] = Stored([rows[t] EXCEPT !.amt = job[s].new.amt])]
    /\ contested' = (contested \/ StaleImage(s))
    /\ Publish(s)
    /\ Release(s)
    /\ UNCHANGED <<live, opening, kept, seq>>

(* An ORM DELETE that matches no row only logs: the plan stays booked.     *)
CommitDelete(s) ==
    /\ pc[s] = "commit"
    /\ job[s].op = "delete"
    /\ rows' = [rows EXCEPT ![job[s].tx] = NoRow]
    /\ contested' = (contested \/ StaleImage(s))
    /\ Publish(s)
    /\ Release(s)
    /\ UNCHANGED <<live, opening, kept, seq>>

CommitClose(s) ==
    /\ pc[s] = "commit"
    /\ job[s].op = "close"
    /\ LET a == job[s].acc
       IN  /\ live' = live \ {a}
           /\ rows' = Without(a)
           /\ kept' = KeptAfter(a)
           /\ balance' = [balance EXCEPT ![a] = 0]
    /\ Release(s)
    /\ UNCHANGED <<opening, seq, contested>>

(* PostgreSQL breaks a cycle of waits by failing one of its statements.    *)
DeadlockVictim(s) ==
    /\ Deadlocked(held, Wants, s)
    /\ Rollback(s)

(* The backend or the database stops: nothing uncommitted survives.        *)
Crash ==
    /\ \E s \in Slots : pc[s] # "idle"
    /\ pc' = [s \in Slots |-> "idle"]
    /\ job' = [s \in Slots |-> NoJob]
    /\ leg' = [s \in Slots |-> 0]
    /\ draft' = [s \in Slots |-> Untouched]
    /\ held' = [s \in Slots |-> {}]
    /\ UNCHANGED <<ledger, seq, contested>>

BeginRequest(s) ==
    \/ \E body \in Bodies : BeginCreate(s, body)
    \/ \E t \in Txs, amount \in Amounts : BeginUpdate(s, t, amount)
    \/ \E t \in Txs : BeginDelete(s, t)
    \/ \E a \in Accounts : BeginClose(s, a)

Statement(s) ==
    \/ Insert(s) \/ InsertRefused(s)
    \/ Recheck(s) \/ RecheckGone(s)
    \/ Leg(s) \/ LegOfNobody(s) \/ Overflow(s)
    \/ WriteRow(s) \/ UpdateGone(s)
    \/ CloseRow(s) \/ CloseAccount(s) \/ Cascade(s)

Commit(s) ==
    CommitCreate(s) \/ CommitUpdate(s) \/ CommitDelete(s) \/ CommitClose(s)

LedgerNext ==
    \/ \E a \in Accounts, v \in Openings : OpenAccount(a, v)
    \/ \E s \in Slots :
          BeginRequest(s) \/ Statement(s) \/ Commit(s) \/ DeadlockVictim(s)
    \/ Crash

LedgerSpec == LedgerInit /\ [][LedgerNext]_vars

(* Row locks are granted in the order they are asked for, so a request     *)
(* that keeps coming to be next is served; the deadlock timer fires.       *)
FairLedgerSpec ==
    /\ LedgerSpec
    /\ \A s \in Slots : /\ SF_vars(Statement(s) \/ Commit(s))
                        /\ WF_vars(DeadlockVictim(s))

-----------------------------------------------------------------------------
(* Why the promises hold: the inductive invariant.                         *)

(* A request's label, handler, images and progress fit together.           *)
Coherent(s) ==
    LET j == job[s]
    IN  /\ pc[s] = "idle" => j = NoJob /\ held[s] = {}
        /\ pc[s] = "insert" => j.op = "create" /\ j.tx = None
        /\ pc[s] = "recheck" => j.op = "delete"
        /\ pc[s] = "work" => j.op \in {"create", "update", "delete"}
        /\ pc[s] \in {"rows", "cascade"} => j.op = "close"
        /\ pc[s] = "commit" => j.op \in {"update", "delete", "close"} /\ LegsDone(s)
        /\ pc[s] \notin {"work", "commit"} => leg[s] = 0
        /\ leg[s] <= Len(Plan(s))
        /\ j.op = "create" => j.new \in Bodies /\ j.old = NoRow
        /\ j.op = "update" => /\ j.tx \in Txs /\ j.old \in Row
                              /\ \E x \in Amounts : j.new = [j.old EXCEPT !.amt = x]
        /\ j.op = "delete" => j.tx \in Txs /\ j.old \in Row
        /\ j.op = "close" => j.acc \in Accounts /\ j.old = NoRow /\ j.tx = None

(* A draft is the committed balance plus the request's own legs so far.    *)
DraftIsOwnLegs(s) ==
    \A x \in Accounts :
        IF Written(s, x)
        THEN /\ x \in live
             /\ InRange(draft[s][x])
             /\ draft[s][x] = balance[x] + Posted(Plan(s), leg[s], x)
        ELSE x \in live => Posted(Plan(s), leg[s], x) = 0

(* An inserted row is known to its request alone, and pins its accounts.   *)
InsertedIsFresh(s) ==
    LET j == job[s]
    IN  pc[s] = "work" /\ j.op = "create" =>
            /\ j.tx \in Txs /\ j.tx <= seq
            /\ rows[j.tx] = NoRow /\ kept[j.tx] = NoRow
            /\ \A o \in Slots \ {s} : job[o].tx # j.tx
            /\ j.new.acc \in live /\ j.new.to \in live \cup {None}
            /\ \A x \in {j.new.acc, j.new.to} \ {None} :
                  Lock("account", x, "key share") \in held[s]

Opened(x) == opening[x] # None

(* An image can be out of date in its amount, and in a destination that    *)
(* has been closed, but not in anything else.                              *)
ImageOfRow(s) ==
    LET j == job[s]
    IN  /\ j.op = "close" => Opened(j.acc)
        /\ j.op \in {"update", "delete"} =>
              /\ j.tx <= seq
              /\ Opened(j.old.acc)
              /\ j.old.to # None => Opened(j.old.to)
              /\ rows[j.tx] # NoRow =>
                    /\ rows[j.tx].typ = j.old.typ
                    /\ rows[j.tx].acc = j.old.acc
                    /\ \/ rows[j.tx].to = j.old.to
                       \/ rows[j.tx].to = None /\ j.old.to \notin live

(* What a request is about to commit it has locked.                        *)
CommitsLocked(s) ==
    LET j == job[s]
    IN  /\ pc[s] = "commit" /\ j.op = "update" =>
              rows[j.tx] # NoRow /\ Lock("tx", j.tx, "no key update") \in held[s]
        /\ pc[s] = "commit" /\ j.op = "delete" /\ rows[j.tx] # NoRow =>
              Lock("tx", j.tx, "update") \in held[s]
        /\ pc[s] \in {"cascade", "commit"} /\ j.op = "close" /\ j.acc \in live =>
              Lock("account", j.acc, "update") \in held[s]
        /\ pc[s] = "commit" /\ j.op = "close" =>
              \A t \in Present :
                  rows[t].acc = j.acc => Lock("tx", t, "update") \in held[s]

StoreInv ==
    /\ ReferencesLive
    /\ \A x \in live : Opened(x)
    /\ \A x \in Accounts : InRange(balance[x]) /\ (x \notin live => balance[x] = 0)
    /\ \A t \in Txs : rows[t] # NoRow \/ kept[t] # NoRow => t <= seq

SessionInv(s) ==
    /\ Coherent(s)
    /\ DraftIsOwnLegs(s)
    /\ InsertedIsFresh(s)
    /\ ImageOfRow(s)
    /\ CommitsLocked(s)

(* What holds of the locks, drafts and images of concurrent requests in    *)
(* every state: incompatible locks are never held together, a draft is     *)
(* nobody else's work, an image is wrong at most in its amount, and what   *)
(* commits is locked.                                                      *)
LedgerInv == Compatible(held) /\ StoreInv /\ \A s \in Slots : SessionInv(s)

-----------------------------------------------------------------------------
(* Requests that overlap but never commit from an image that went out of   *)
(* date keep the books; crud/transaction.py claims it of all (see          *)
(* ledger_drift).                                                          *)
UncontestedBooksBalance == ~contested => BooksBalance

(* Every commit moves each account that is there by exactly its request's  *)
(* own plan, and by no other's: increments of concurrent requests are      *)
(* neither lost nor doubled (crud/transaction.py:_apply_balance_deltas).   *)
CommitPostsPlan ==
    [][\A s \in Slots :
          (Commit(s) /\ job[s].op # "close") =>
              \A a \in live : balance'[a] - balance[a] = Posted(Plan(s), 2, a)]_vars

(* Whatever the interleaving, a step changes the committed ledger as one   *)
(* handler run alone would, unless it commits from an image out of date.   *)
SerialUnlessContested ==
    [][Next \/ \E s \in Slots :
                  Commit(s) /\ job[s].old # NoRow /\ StaleImage(s)]_ledger

(* Requests one at a time implement the serial ledger.                     *)
ImplementsSerialLedger == Spec

(* Every request ends, in a commit or in an error.                         *)
RequestsEnd == \A s \in Slots : pc[s] # "idle" ~> pc[s] = "idle"
=============================================================================
