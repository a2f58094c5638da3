---------------------------- MODULE SerialLedger ----------------------------
(***************************************************************************)
(* What the ledger promises when requests do not overlap: every handler of *)
(* accounts.py and transactions.py that writes is one step on the          *)
(* committed rows.  The promise itself is BooksBalance.                    *)
(***************************************************************************)
EXTENDS Money, FiniteSetsExt

CONSTANTS
    Txs,         \* ids of transaction rows
    NoRow,       \* no such row
    Bodies,      \* bodies of POST /transactions
    Amounts,     \* amounts of PATCH /transactions/{id}
    Openings,    \* opening balances of POST /accounts
    MaxBalance   \* the largest NUMERIC(15,2)

ASSUME TxsAssumption == IsFiniteSet(Txs)
ASSUME NoRowAssumption == NoRow \notin Row
ASSUME BodiesAssumption == Bodies \subseteq {r \in Row : r.amt > 0}
ASSUME AmountsAssumption == Amounts \subseteq {n \in Int : n > 0}
ASSUME OpeningsAssumption == Openings \subseteq Int
ASSUME MaxBalanceAssumption == MaxBalance \in Nat

VARIABLES
    balance,  \* accounts.balance
    live,     \* the account rows that exist
    rows,     \* the transaction rows
    opening,  \* history: the balance an account was created with
    kept      \* history: rows that went away with their account

ledger == <<balance, live, rows, opening, kept>>

TypeOK ==
    /\ balance \in [Accounts -> Int]
    /\ live \subseteq Accounts
    /\ rows \in [Txs -> Row \cup {NoRow}]
    /\ opening \in [Accounts -> Int \cup {None}]
    /\ kept \in [Txs -> Row \cup {NoRow}]

Init ==
    /\ balance = [a \in Accounts |-> 0]
    /\ live = {}
    /\ rows = [t \in Txs |-> NoRow]
    /\ opening = [a \in Accounts |-> None]
    /\ kept = [t \in Txs |-> NoRow]

InRange(n) == -MaxBalance <= n /\ n <= MaxBalance

(* A row as its INSERT or UPDATE stores it.                                *)
Stored(r) == [r EXCEPT !.amt = Cents(r.amt)]

(* An UPDATE of an account that is gone matches no row.                    *)
Post(plan) ==
    /\ balance' = [a \in Accounts |->
                      balance[a] + IF a \in live THEN Posted(plan, 2, a) ELSE 0]
    /\ \A a \in Accounts : InRange(balance'[a])

(* POST /accounts/                                                         *)
Open(a, v) ==
    /\ opening[a] = None
    /\ live' = live \cup {a}
    /\ balance' = [balance EXCEPT ![a] = Cents(v)]
    /\ opening' = [opening EXCEPT ![a] = Cents(v)]
    /\ UNCHANGED <<rows, kept>>

(* POST /transactions/                                                     *)
Create(t, body) ==
    /\ rows[t] = NoRow
    /\ kept[t] = NoRow
    /\ body.acc \in live
    /\ body.to \in live \cup {None}
    /\ rows' = [rows EXCEPT ![t] = Stored(body)]
    /\ Post(Deltas(body, body.amt))
    /\ UNCHANGED <<live, opening, kept>>

(* PATCH /transactions/{id} with an amount                                 *)
Update(t, amount) ==
    /\ rows[t] # NoRow
    /\ rows' = [rows EXCEPT ![t] = Stored([rows[t] EXCEPT !.amt = amount])]
    /\ Post(Deltas(rows[t], amount - rows[t].amt))
    /\ UNCHANGED <<live, opening, kept>>

(* DELETE /transactions/{id}                                               *)
Delete(t) ==
    /\ rows[t] # NoRow
    /\ rows' = [rows EXCEPT ![t] = NoRow]
    /\ Post(Deltas(rows[t], -rows[t].amt))
    /\ UNCHANGED <<live, opening, kept>>

(* VARIANT of Without (see Ledger): both foreign keys cascade.             *)
WithoutEither(a) ==
    [t \in Txs |->
        IF rows[t] = NoRow THEN NoRow
        ELSE IF a \in {rows[t].acc, rows[t].to} THEN NoRow ELSE rows[t]]

(* DELETE /accounts/{id}: the rows booked on the account go with it, a     *)
(* transfer into it forgets its destination, and no other balance moves.   *)
Without(a) ==
    [t \in Txs |->
        IF rows[t] = NoRow THEN NoRow
        ELSE IF rows[t].acc = a THEN NoRow
        ELSE IF rows[t].to = a THEN [rows[t] EXCEPT !.to = None]
        ELSE rows[t]]

KeptAfter(a) ==
    [t \in Txs |->
        IF rows[t] = NoRow THEN kept[t]
        ELSE IF rows[t].acc = a THEN rows[t] ELSE kept[t]]

Close(a) ==
    /\ a \in live
    /\ live' = live \ {a}
    /\ rows' = Without(a)
    /\ kept' = KeptAfter(a)
    /\ balance' = [balance EXCEPT ![a] = 0]
    /\ UNCHANGED opening

Next ==
    \/ \E a \in Accounts, v \in Openings : Open(a, v)
    \/ \E t \in Txs, body \in Bodies : Create(t, body)
    \/ \E t \in Txs, amount \in Amounts : Update(t, amount)
    \/ \E t \in Txs : Delete(t)
    \/ \E a \in Accounts : Close(a)

Spec == Init /\ [][Next]_ledger

-----------------------------------------------------------------------------
(* What the stored transactions say account a should hold.                 *)
Booked(a) ==
    LET In(r) == IF r = NoRow THEN 0 ELSE Effect(r, a)
    IN  MapThenSumSet(LAMBDA t : In(rows[t]) + In(kept[t]), Txs)

Off(a) == balance[a] - (opening[a] + Booked(a))

(* An account's balance is its opening balance plus the effect of every    *)
(* transaction stored for it, whatever creations, amount changes,          *)
(* deletions and account closings led there (the denormalised              *)
(* accounts.balance that crud/transaction.py maintains).                   *)
BooksBalance == \A a \in live : Off(a) = 0

(* Nothing but a PATCH to a fraction of a cent moves a balance off the     *)
(* stored transactions, and that by one cent at most: its column and its   *)
(* balance update are rounded separately (crud/transaction.py:78-90).      *)
OffByRounding ==
    [][\/ \A a \in live \cap live' : Off(a)' = Off(a)
       \/ \E t \in Txs, x \in Amounts :
              /\ Cents(x) # x
              /\ Update(t, x)
              /\ \A a \in live : Off(a)' - Off(a) \in {-Sub, 0, Sub}]_ledger

(* No transaction row refers to an account that does not exist             *)
(* (models/transaction.py: account_id CASCADE, to_account_id SET NULL).    *)
ReferencesLive ==
    \A t \in Txs :
        rows[t] # NoRow => /\ rows[t].acc \in live
                           /\ rows[t].to \in live \cup {None}
=============================================================================
