# CashControl backend: a verification development

CashControl is a personal-finance backend (FastAPI, SQLAlchemy, PostgreSQL).
Every request runs on a database session of its own; `get_db` commits it when
the handler has returned and rolls it back when the handler raises. There is no
lock in the program except one `FOR UPDATE` in `crud/telegram.py`: what two
overlapping requests do to each other is decided by the row locks that
PostgreSQL takes for their statements, by READ COMMITTED snapshots, and by the
copies of rows that the ORM keeps from an earlier read. These modules model
those handlers statement by statement, say what each group of handlers promises
when requests do not overlap, and establish how far the promise survives when
they do.

## The system

| Component | State | Operations | What is hard about it |
|---|---|---|---|
| Accounts and transactions (`endpoints/accounts.py`, `endpoints/transactions.py`, `crud/transaction.py`) | `accounts.balance`, transaction rows | open and close an account; create, change, delete a transaction | `balance` is a denormalised sum that three handlers maintain by increments; the increments are atomic but are computed from rows read earlier; transfers lock two accounts; rounding |
| Administration (`endpoints/admin.py`, `crud/user.py`, `core/dependencies.py`, `crud/audit_log.py`) | `users.is_active`, `users.is_superuser`, audit entries | activate, deactivate, change a role, delete, edit, ask for a reset | a guard that counts before it writes; rights checked once, at the start of a request; audit entries with foreign keys to both users |
| Bootstrap (`main.py`) | the first administrator's role | promotion at every start | runs at any moment of the users' history, after any crash |
| Rate limiter (`core/ratelimit.py`) | one deque of admission times per key | `allow` | lazy trimming, the boundary of the window, loss at a restart |
| Password reset (`crud/password_reset.py`, `endpoints/auth.py`, `endpoints/admin.py`) | tokens, password hashes, pending e-mails | request, confirm, expiry, sending | one-time use without a lock; two requests at once; an e-mail sent after the commit |
| Telegram link (`crud/telegram.py`, `endpoints/telegram.py`) | link codes, `users.telegram_id` | new code, link, unlink, token | one-time use under `FOR UPDATE`; a unique column moved from one user to another |
| Budgets and categories (`endpoints/budgets.py`, `endpoints/categories.py`, `crud/transaction.py`) | budgets, categories; spent amounts are computed | create, change, delete, report | period arithmetic at the ends of weeks, months and years; a report of many statements; a category that goes away |
| Listings (`crud/user.py`, `crud/audit_log.py`, `crud/transaction.py`) | none; the client keeps an offset | a page, a total | rows that come, go and move between two pages; rows that share a time; a total of its own statement |
| Registration, login, tokens (`endpoints/auth.py`, `core/security.py`, `crud/user.py`) | `users.email`; tokens are signed, not stored | register, change an address, login, refresh | an address found free twice; exact spelling; a copy of the user read earlier |
| SMTP settings and sending (`crud/smtp_settings.py`, `core/crypto.py`, `core/email.py`) | one settings row, one key in the process | read, upsert, send | concurrent first upsert; merging by column; secrets under a key that changes; two transports |
| users/me | rows | read, rename | none |

The components interact through the database alone, and through the limiter,
which lives in the process. Deleting a user or an account cascades into the
rows they own; an audit entry refers to its actor and its target; a start of
the process runs the bootstrap before any request.

### What makes each component correct

* Ledger: an account's balance is its opening balance plus the effect of every
  transaction stored for it; no row refers to an account that is gone; a
  handler's updates take effect together or not at all; every request ends.
* Administration: there is always an active admin once there is one; whoever
  commits a change, and whomever it is about, exists at that moment; what a
  request does is what it would have done alone; every request ends.
* Bootstrap: after a start the configured first administrator holds the role.
* Rate limiter: no window of one period admits more than the limit, and no call
  is refused for which the window has room.
* Password reset: a token changes a password at most once, at most one token of
  a user is unused, and a link leaves for a committed token alone.
* Telegram link: a code links at most one account, a Telegram account belongs
  to at most one user, a user has at most one unused code.
* Budgets: periods are those of the calendar; a figure counts the expenses of
  its period and category; an answer is that of one moment; a row keeps its
  category until that is deleted.
* Listings: a client that reads on is shown what is there, once; totals agree
  with pages, up to what is committed between the two.
* Registration: an address belongs to one user, and a request that nobody
  races is answered as if it were alone; the bootstrap promotes the owner of the configured address and nobody else.
* SMTP settings: overlapping updates merge; a mail is handed over, or its link
  is logged.

## The modules

```
Money ── SerialLedger ──┐
                        ├── Ledger ──────────┬── MCLedger
                        │                    └── LedgerTheorems
RowLocks ───────────────┤
                        │
SerialAdmins ───────────┼── Admins ── MCAdmins ── AdminsTheorems
                        │
SerialResets ───────────┼── PasswordReset ── ResetsTheorems
                        │
SerialLinks ────────────┴── TelegramLink ────┬── MCTelegramLink
                                             └── TelegramTheorems

SlidingWindow <── (INSTANCE) ── RateLimiter ── RateLimiterTheorems

Calendar ──┬── Periods <── (INSTANCE) ── Budgets ──┐
           └── Budgets                             ├── MCReports ── ReportsTheorems
                                       Pages ──────┘
MailSettings ──┬── MCMail ── MailTheorems
Addresses ─────┘

RowLocks ── CommonTheorems ── Ledger-, Admins-, Resets-, Telegram-,
                              RateLimiterTheorems
```

`Money` is the arithmetic of a transaction: `Deltas` is `_balance_deltas`,
`Cents` is what a `NUMERIC(15,2)` column makes of a decimal. Money is counted in
parts of a cent (`Sub` parts to the cent), so that rounding is visible.

`RowLocks` (external) is PostgreSQL's table of row locks for the kinds of
statement the program issues, with waits and the deadlock detector. A row is a
value, a lock a pair of row and mode.

`SerialLedger` is the abstract specification: one step per handler on the
committed rows. `BooksBalance` is its promise. When an account is closed the
rows booked on it go with it, while transfers between it and other accounts
keep their effect on those; `kept` remembers them so that the promise can be
stated of the accounts that remain.

`Ledger` is the detailed specification. A request of session `s` is

| Handler | Steps |
|---|---|
| `POST /transactions/` | `BeginCreate`, `Insert` (flushed by the first update, foreign keys lock both accounts), one `Leg` per balance update, `CommitCreate` |
| `PATCH /transactions/{id}` | `BeginUpdate` (the row is read), `Leg`s, `WriteRow`, `CommitUpdate` |
| `DELETE /transactions/{id}` | `BeginDelete`, `Recheck` (`crud.delete` reads again; the ORM keeps the first copy), `Leg`s, `WriteRow`, `CommitDelete` |
| `DELETE /accounts/{id}` | `BeginClose` (account and its rows are loaded), one `CloseRow` per row, `CloseAccount`, `Cascade`, `CommitClose` |
| `POST /accounts/` | `OpenAccount` |

and its errors: `InsertRefused`, `RecheckGone`, `Overflow`, `UpdateGone`,
`DeadlockVictim`, and `Crash` for all sessions at once. `draft` holds balances
written and not committed; changes of transaction rows are published by the
commit, because their rows stay locked from the statement on.

`SerialAdmins` and `Admins` stand in the same relation for `admin.py`:
`Authenticate` (the caller's row is read and checked), `ReadTarget`, `Guard`
(the count of active admins), `Write`, `Audit`, for a deletion `Remove`,
`Commit`. `job.sawActive` and `job.sawAdmin` are the ORM's copy of the target,
which decides whether an UPDATE is issued at all. A change of e-mail takes the
stronger lock, because the column carries a unique index. `Restart` is a stop
at any moment followed by the bootstrap.

`SerialResets` and `PasswordReset` model the reset of a password. A request for
a link is `Ask` (the user's row is read), `Match` and `Void` (the UPDATE of
`create`: the rows its snapshot shows, then the wait for their locks, after
which PostgreSQL looks at them again), `Insert`, `Commit`; a confirmation is
`Open` (`get_valid`), `ReadUser`, `Write` twice (password and `used_at`, in
either order, because no `relationship()` orders them), `Commit`. The e-mail is
a background task: `CommitRequest` puts it in `outbox`, `Send` or `SendFails`
takes it out, `Crash` empties it. With the FastAPI release the repository pins
(`requirements.txt`), `get_db` commits before the background tasks run.

`SerialLinks` and `TelegramLink` model the Telegram link. A new code is
`AskCode`, `ReadCodes`, `DeleteCodes`, `InsertCode`, `Commit`; a link by the bot
is `AskLink`, `Consume` (SELECT FOR UPDATE), `ReadHolder`, `UnlinkHolder`,
`ReadUser` (which does not refresh a user already loaded as the holder),
`LinkUser`, `LinkUnique` (the unique index), `Commit`; an unlink is `AskUnlink`,
`Clear`, `Commit`. A lock on an entry of the unique index is a lock on the
Telegram id. In both modules other handlers switch users on and off and delete
them (one step each, refused while a row they need is locked), and tokens and
codes lapse at any moment.

`RateLimiter` is the class with one action `allow`; `SlidingWindow` is a limiter
that remembers every admission.

`Calendar` has dates as Python has them: `monthly`, `weekly` and `yearly` are
the branches of `_get_period_dates`, with the day numbers that `replace` is
told, in range or not (`Raises`); `SamePeriod` and `Opens` are the calendar's
own idea of a period. `Periods` is the abstract specification: as days go by a
period lasts until the calendar opens the next, which begins where the last one
ended. `Budgets` keeps categories, budgets and expenses. The writing handlers
are atomic, because what they change is published by one commit and they read
nothing else, but for the deletion of a category. There the ORM reads the rows
that refer to the category (`BeginDeletion`) before it sets them to NULL one by
one and deletes the category, whose foreign keys see to rows that came later
(`EndDeletion`): an expense moved to another category in between loses that one.
`FailDeletion` is a rollback. `GET /budgets/` is `OpenReport`, one `Sum` (or `SumRaises`) per
budget, `Answer`, each with the rows and the clock of its own moment. A sum is
the set of the expenses summed.

`Pages` is a client that asks for page after page of the users (sorted by id),
the audit log or the transactions (newest first) until one is not full. `Count`
and `Select` are the two statements of a page; where rows share a time, every
order that ORDER BY allows is possible, anew for every page; `net` is history,
the rows that came less those that left between the two. Since ids and times
are drawn before the commit that makes a row visible, a new row may appear
anywhere in the order.

`MailSettings` is the one row of `smtp_settings`: `Read`, `Flush` (the row lock
or the wait for the primary key, and the failure of the second INSERT), `Commit`
of the columns that differ from the copy; `Rotate` is a restart, with the same
key or another. A secret is the key it was encrypted with. `Fate` is what
`deliver` does with a mail at this moment.

`Addresses` is `users.email` under `POST /auth/register` and the change of an
address by an administrator: the SELECT that finds it free or taken, the row
lock of an UPDATE, the unique index, which waits for an open transaction that
holds or gives up the address, the commit; and `Restart`, which promotes the
owner of the configured address. An address is a name and a spelling. `raced` is
history: another request has committed the address a request asks for, or an
address of its user, while the request ran. Then, and only then, its answer may
differ from the one it would get alone (`AnswersAloneUnlessRaced`): a 500 instead
of a 400, a 400 for the address that the user itself has just got, or a success
though the user has another address by now.

`MCReports` and `MCMail` each check two components that share no state; a
behaviour exercises one of them (`part`). `MCReports` also has behaviours of the
calendar alone, and of the writing handlers alone (`Filing`), where two
categories let an expense move while a deletion is under way; in behaviours with
reports there is one category, and nothing comes between the two steps of its
deletion, of which a report sees only the second. `MCAdmins` runs the administration
with every operation, and with those alone that take no rights except by a
deletion (`mix`).

Definitions marked VARIANT are plausible bugs, each the definition below it
with a slip in it. No behaviour uses them; put in the place of the original,
each breaks the property that PROJECT.json names, which shows that the property
depends on the code.

### Abstractions

* Requests turned away before any write (not found, not the owner, not an
  admin, rate-limited) have no effect and do not appear, except where the
  refusal depends on what an overlapping request does.
* A statement takes all its locks in one step. The foreign keys' own cascade is
  one statement.
* `PATCH /transactions/{id}` may change other columns as well; none of them
  touches a balance. `PATCH /accounts/{id}` cannot set `balance`.
* The ledger leaves out categories and dates of transactions, budgets leave out
  amounts and accounts; neither has the rows that go away with a deleted user.
* Instants of a day are its first one and a later one. `period` is one of the
  three words; any other string, which the API accepts, counts as a year.
* A filter of a listing is fixed while a client reads; a row that begins or
  ceases to pass it is inserted or deleted. A user's row never moves in the order.
* A field of the SMTP settings is set or not; only secrets and the transport have
  more than that to them. Port, user name and encryption mode change nothing
  that the properties tell apart. What the provider answers is not modelled.
* Addresses leaves passwords, roles given by administrators and audit entries
  to the other modules; any of its requests may be aborted.
* Ids come from a sequence that only counts up; `Txs`, `Accounts` and `Users`
  bound how many ids are ever handed out. `First` is one user: that its e-mail
  is changed, or registered again after a deletion, is left out.
* The audit table is left out, but for the rows its entries lock. In the password
  reset the entry of an administrator's request also refers to the
  administrator; that the administrator is deleted meanwhile is left to `Admins`.
* Secrets are not guessed: a confirmation needs a link that has left, a link by
  the bot a code that has been drawn.
* `GET /telegram/status` and `POST /telegram/token` only read.

## The runs

| Run | Expect | Instance | What it shows |
|---|---|---|---|
| `ledger_serial` | pass | one session, two accounts, two transactions, every type of body, amounts of half a cent and two cents | every request is one step of the serial ledger or none, and nothing but a PATCH to a fraction of a cent moves a balance off the stored rows, by one cent at most (`OffByRounding`) |
| `ledger_concurrent` | pass | two sessions, transfers both ways and an expense of each account | the inductive invariant; each commit moves balances by its own plan; the serial ledger is left only by a commit from an out-of-date copy; without such a commit the books balance |
| `ledger_live` | pass | two sessions under fairness | every request ends: waits, deadlocks, crashes |
| `ledger_drift` | violation | two sessions | two overlapping PATCH or DELETE of one transaction unbalance the books |
| `admins_concurrent` | pass | two users, two sessions, every operation, or deletions without other ways to take rights, fairness | the inductive invariant; the serial administration is left only when a caller's rights or the count went stale; two admins never delete each other; every request ends |
| `admins_race` | violation | two users, two sessions | two admins take each other's role and none is left |
| `resets` | pass | two users, two tokens, two sessions, fairness | the inductive invariant; the serial password reset is left only by a commit that another request has overtaken; every request ends |
| `resets_race` | violation | one user, one token, two sessions | two confirmations of one link both set a password |
| `telegram` | pass | two users, two codes, two Telegram accounts, two sessions | the inductive invariant; a code is used once; an account has one user; the serial link is left only by a commit that another request has overtaken |
| `ratelimiter` | pass | two keys, two calls per window of three ticks, eight instants | the window holds, and the deque answers as the full history would |
| `reports` | pass | five years day by day; two budgets, a category, an expense over three turns of the calendar; writes with two categories and a deletion in two steps; three rows read one by one | the periods follow the calendar, and a report fails exactly where a weekly budget meets the end of a month; figures are exact, and of one moment if nothing comes between; a row keeps its category but for deletions; pages show what stays once, but for losses, arrivals and ties, and totals are off by what came and left alone |
| `mail` | pass | two administrators, two keys, five bodies; three users, four addresses, two sessions | updates of the settings merge; a link is lost before the transport only after a change of the key; an address has one user; answers are those of a request alone, except in a race for the address or the user; the role follows the exact address and stays |

Why the bounds are enough. Two sessions show every pair of overlapping
requests; a third adds longer waits, which the theorems cover for any number of
sessions. Two accounts are what a transfer touches, and two transactions let
one be changed while another is created. `MaxBalance` is three
cents at most, so that overflow happens; two amounts make a difference that is
not the amount, and in `ledger_serial` one of them is not a whole cent. Two
users are a caller and a target in either role, or the old and the new holder of
a Telegram account. Two tokens or codes let one be drawn while the other is
used; `RowLeft` lets no request begin for which there is none left, so that a
session is never stuck for want of a row. `telegram` uses the symmetry of users,
codes, accounts and sessions, `ledger_concurrent` that of accounts and sessions
(its bodies are closed under the exchange of the two accounts); this is sound
because neither checks liveness. In the limiter a
window of three ticks and two calls makes every position of old and new hits
relative to the boundary occur, and eight instants more than two windows.
In `reports` the years 2024 to 2028 have both kinds of February and end weeks on
every day of a month; `Spans` are two-day walks over a leap 29 February, over a
New Year and from one week to the next, where the interesting reports are;
`Deleters` is one deletion under way, which is enough to overwrite a move;
`MaxChanges` lets one write or midnight come amid a report, which is what
`AnswersOneMoment` excludes and `FigureIsExact` does not; `PageSize` is one, so
that three rows make up to four pages and every row is the last of its page. In
`mail` the bodies set up either transport, leave it incomplete, renew one secret
and switch mail off; three users let an address pass from one to another while a
third asks for it, and each name has two spellings. Both use the symmetry of
slots and rows, and check no liveness.
A session may always rest and requests may stop coming, so deadlock is not
checked; `RequestsEnd` says what matters instead.

Fairness. PostgreSQL grants a row lock in the order of the requests for it, so
a statement that keeps becoming executable is executed: strong fairness for
`Statement(s) \/ Commit(s)` (`FairLedgerSpec`, `FairAdminsSpec`,
`FairResetsSpec`). The deadlock detector runs after
`deadlock_timeout`: weak fairness for `DeadlockVictim(s)`. No fairness is
assumed for arriving requests, e-mails, expiry, crashes and restarts. That a
request of the Telegram link ends is not checked: under fairness its state space
takes more than five minutes.

### Disagreements with the documentation

`ledger_drift`: the comment over `_apply_balance_deltas` calls the increments
safe under concurrent edits; they are, but the amounts added come from rows read
before. `admins_race`: invariant 2 of `docs/ADMIN_FEATURE.md` 2.3 fails when two
admins act on each other. `resets_race`: the token that the model calls
one-time (`models/password_reset.py:10`) sets two passwords when two
confirmations overlap, because `get_valid` takes no lock and `mark_used` does
not look at `used_at` again.

`ledger_serial` shows one more, which needs no overlap: `README.md` says that a
PATCH of an amount corrects the balance, and after a PATCH to a fraction of a
cent the balance may be a cent off. `OffByRounding` says exactly how far.

Others are stated by properties that hold:

* `FailsAcrossMonths`: `README.md:101` lists `GET /budgets/` as the list of
  budgets with what was spent; with one weekly budget it is a 500 in every week
  that begins, or is followed by a week that begins, in another month
  (`budgets.py:27-28`), which is one week of every month (the one that
  begins on the month's last Monday).
* `RepairTakesEverySecret`: `docs/ADMIN_FEATURE.md:311-312` says that after a
  change of `SETTINGS_ENC_KEY` the SMTP password has to be entered again. If an
  API key is stored as well, no mail leaves until that is entered too, even with
  the SMTP transport.
* `RoleFollowsAddress`: `FIRST_SUPERUSER_EMAIL` is folded to lower case and
  compared exactly, while a registration keeps the case of the local part: a user
  who registered another spelling of it is never promoted, and for the same
  reason never finds a reset link, which is looked up in lower case
  (`auth.py:76`).
* The "emergency key" of `docs/ADMIN_FEATURE.md:260-262`: `Bootstrap` restores
  the role and not `is_active`; a first administrator whom another one has
  deactivated stays locked out.

## The theorems

All proofs are checked by TLAPS with Z3, Zenon and LS4. They hold for any values
of the constants that meet the named assumptions, in particular for any number
of sessions, accounts, users, rows and amounts, any page size and any first
date. TLC evaluates the assumptions in every run. They are:

* an absent value is none of the present ones (`NoneAssumption`,
  `NoRowAssumption`), and rows of different tables differ (`TablesAssumption`);
* money is counted in integers and bodies are well formed (`SubAssumption`,
  `BodiesAssumption` of the ledger and of the mail settings, whose flags are
  Booleans and whose transport is one of the two words that
  `schemas/settings.py` accepts, `AmountsAssumption`, `OpeningsAssumption`,
  `MaxBalanceAssumption`);
* ids of transactions and of listed rows are numbers, and finitely many are ever
  handed out (`TxsAssumption`, `IdsAssumption`, `TimesAssumption`);
* operations, periods, limits and addresses are those of the program
  (`OpsAssumption`, `PeriodicitiesAssumption`, `MaxCallsAssumption`,
  `PeriodAssumption`, `PageSizeAssumption`, `AddressesAssumption`), a walk begins
  on a date that exists (`SpansAssumption`), and the bounds are numbers
  (`MaxTimeAssumption`, `MaxChangesAssumption`).

A few theorems need more, and say so as a hypothesis: `Slots = {only}` (one
session), `WholeAmounts` (no PATCH carries a fraction of a cent) and
`NothingTaken` (no request under way takes rights away but by a deletion).

Ledger (`LedgerTheorems`):

* `TypeCorrect`, `LedgerInvariant`: `LedgerTypeOK /\ LedgerInv` is inductive.
* `ReferencesStayLive`: no transaction row refers to a closed account.
* `CommitsPostTheirPlans`: increments are neither lost nor doubled.
* `SerialUpToStaleImages`: every step is a serial step, a stutter, or a commit
  from a copy whose amount is out of date. This locates the only source of
  anomalies: a race of PATCH and DELETE on one transaction.
* `OneAtATimeIsSerial`: one session implements the serial ledger.
* `UncontestedIsSerial`: so does any number of sessions in which no request
  commits from an out-of-date copy.
* `SerialBooksBalance`, `OverlappingBooksBalance`: with `WholeAmounts` the serial
  ledger keeps every balance equal to the opening balance plus the stored rows,
  and the detailed one does so until a commit is contested.
* `SerialOffByRounding`, `OneAtATimeOffByRounding`: without `WholeAmounts`
  nothing but a PATCH to a fraction of a cent moves a balance off its rows, by
  one cent at most.

Why the invariant is needed: a commit publishes drafts, so to say that it posts
its plan one must know that a draft is the committed balance plus the request's
own legs (`DraftIsOwnLegs`), hence that nobody else commits that account
meanwhile (`Compatible`, `CommitsLocked`). That a serial step is possible needs
the rows the plan refers to: an inserted row's accounts are pinned by its
foreign keys (`InsertedIsFresh`), and a copy differs from its row at most in its
amount and in a destination that has been closed (`ImageOfRow`).

The books are sums over a finite set of rows. Every request changes one row, or
with a closed account moves some from the stored to the remembered ones, so two
facts about sums suffice, both in `CommonTheorems`: a sum whose terms agree is
the same, and one that changes in a single term changes by that difference. They
follow from the least counterexample, a smallest set for which a statement
fails, and need no induction rule. What remains is the arithmetic of a cent: a
stored amount is whole cents, two roundings differ by one cent at most, and a
whole amount is not rounded (`BooksInv`).

Administration (`AdminsTheorems`):

* `AdminsTypeCorrect`, `AdminsInvariant`: from its audit entry on, a request has
  its caller's and its target's rows pinned (`Pinned`), because a deletion's
  lock conflicts with the foreign keys'.
* `SerialUpToOvertaking`: every step is a serial step, a stutter, or a commit
  whose caller's rights or count of admins went stale.
* `DeletionsKeepAdmins`, `DeletionsSpareTheLast`: as long as only deletions take
  rights away, any number of concurrent requests leaves an active admin; the
  second states it of the behaviours that `admins_concurrent` checks. It is the
  audit entry's foreign key, not the guard, that protects the last admin here; an
  UPDATE does not conflict with it, which is why `admins_race` fails.
* `OneAdminRequestAtATime`, `SerialAdminsRemain`: one session implements the
  serial administration, which always keeps an admin (the caller).

Password reset (`ResetsTheorems`):

* `ResetsTypeCorrect`, `ResetsInvariant`: a confirmation about to commit holds
  both rows it writes, a request its user's foreign key (`Pinned`); a token that
  has set a password is used; an e-mail leaves for a committed token alone.
* `ResetsSerialUpToOvertaking`: every step is a serial step, a stutter, or a
  commit whose token, user or set of earlier links changed after it was read.
  For a request the argument goes through `known`: the UPDATE matched every
  unused token there was, so an unused token it did not match is newer.
* `SerialLinks`, `OneSessionOneUse`: without overlap a token is used once and a
  user has one unused token. With two sessions neither holds (`resets_race`).

Telegram link (`TelegramTheorems`):

* `LinksTypeCorrect`, `LinksInvariant`.
* `CodeUsedOnce`: for any number of sessions a code links once. From `Consume` to
  the commit the code is locked and unused (`ConsumesAlone`): this is what FOR
  UPDATE buys, and what the password reset lacks.
* `AccountHasOneUser`: for any number of sessions no two users have one Telegram
  id. The lock on the index entry, taken before the check and kept to the
  commit, excludes another user's write (`LinksAlone`); a stale copy of the
  holder can only leave an UPDATE out, never make a second holder.
* `LinksSerialUpToOvertaking`.

Rate limiter (`RateLimiterTheorems`):

* `WindowAlwaysHolds`: for any keys, limit and period, no window of one period
  admits more than the limit.
* `DequeIsWindow`: the deque implements `SlidingWindow`, step by step. The
  invariant (`KeyInv`) is that a key's deque is the end of its history and that
  what has been dropped is out of the window; the history is ordered, so what a
  call leaves of the deque is exactly its recent part (`LeftIsRecent`). That the
  `while` loop stops at one place is the least-number principle (`StaleSplits`).

Mail settings and addresses (`MailTheorems`):

* `LinksReachTheirMail`: as long as the key stays the same no reset link is lost
  before the transport. The invariant (`MailInv`) is about the copies as well as
  the row: as long as the key is the same, what any of them holds was encrypted
  under it (`Legible`). An incomplete configuration is reported as such, and the
  link is logged.
* `PutsAlwaysMerge`: at most one update is past its flush, and one that found no
  row is past it only while there is still none; so a commit writes its own
  columns over the row as it is, never over an older one.
* `RepairsTakeEverySecret`.
* `AddressHasOneUser`: for any number of sessions no two users have one address.
  A session about to commit has its address for itself (`WritesAlone`): the
  index made it wait for every other that was about to write it, and refused it
  if somebody had it.
* `AnswersAsAlone`: what a request without a race found at its lookup still holds
  at its flush and at its commit (`AsAlone`): nobody has the address, and its user
  has the one that was read, or is gone.
* `RoleNeedsAddress`: promoted is only who has had the configured address, and the
  role stays with the row whatever becomes of the address.
* `MailTypeCorrect` for both parts.

Listings and reports (`ReportsTheorems`):

* `PagesShowEachRowOnce`: for any rows and any page size. A row's rank is the
  number of rows before it; as long as nothing arrives before it or is tied with
  it, a row that has been seen has a rank below the client's offset, and as long
  as nothing leaves, a row whose rank is below the offset has been seen
  (`ReadSoFar`). A page is the set of rows whose ranks lie from the offset on, in
  whatever order ties come out.
* `TotalsMatchPages`: the rows of a page are those of a range of ranks, so their
  number is what the total leaves, and the total plus the net change since is the
  number of rows there are.
* `DatesFollowCalendar`: from any date on, day by day, `_get_period_dates` gives
  the calendar's periods: each lasts until the calendar opens the next, which
  begins where the last ended. The argument is arithmetic of the Gregorian
  calendar: tomorrow's ordinal is today's plus one (`TomorrowIsNext`), the days of
  one month, week or year are those of a range of ordinals (`PeriodIsRange`), and
  the ranges follow one another (`DayByDay`).
  Years are integers here; that Python has none after 9999 is not modelled.
* `WeeksFailAcrossMonths`: `replace` gets a day that the month does not have
  exactly if the week's first day, or the next week's, is of another month
  (`RaisesWhen`, `SpillsWhen`), and never for a monthly or a yearly budget.
* `FiguresAreExact`: one statement, one moment.
* `CategoriesAreKept`: for any number of overlapping deletions (`Deleters`).
* `AnswersAreOfOneMoment`: by the invariant `OfThisMoment`, that a report amid
  which nothing changed has so far the rows and sums of now.
* `ReportsTypeCorrect` for both parts.

`CommonTheorems` holds what several parts share: least numbers and smallest
sets, sums over a finite set, and the lemmas on locks: one taken when nothing
blocks it keeps all locks compatible, and so does the end of a session.

Model-checked only: `RequestsEnd` of the three parts that check it, which is
liveness under fairness and needs ENABLED, and the three violations, which are
counterexamples. Every other property that a run checks is also a theorem.

## Not modelled, and the plan

Next: liveness of the Telegram link on an instance small enough, and the
handlers that only read (one user, a user's accounts, the status of a link), should
they come to depend on more than one statement.

Left out for good: signing and hashing (library code), the transports of mail
(I/O), routing (declarations), that the migrations run, deployment files.
`PATCH /users/me` sets a name in one statement; a password it is given becomes
an attribute that is no column, and changes nothing. A client that repeats a
`POST /transactions/` whose answer was lost books twice, because the request
carries no key by which the server could know; two requests are two
transactions to the model as well.
