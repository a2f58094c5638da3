\* Two sessions under fairness: waits, deadlocks, rollbacks and crashes.
CONSTANTS
    acc1 = acc1
    acc2 = acc2
    None = None
    NoRow = NoRow
    Sub = 1
    MaxBalance = 1
    Accounts = {acc1, acc2}
    Txs = {1, 2}
    Slots = {s1, s2}
    Bodies <- Transfers
    Amounts = {1, 2}
    Openings = {0}
SPECIFICATION FairLedgerSpec
PROPERTIES RequestsEnd
CHECK_DEADLOCK FALSE
