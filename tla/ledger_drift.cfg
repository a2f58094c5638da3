\* Two sessions, every interleaving of their statements.
CONSTANTS
    acc1 = acc1
    acc2 = acc2
    None = None
    NoRow = NoRow
    Sub = 1
    MaxBalance = 2
    Accounts = {acc1, acc2}
    Txs = {1, 2}
    Slots = {s1, s2}
    Bodies <- FewBodies
    Amounts = {1, 2}
    Openings = {0}
SPECIFICATION LedgerSpec
INVARIANT BooksBalance
CHECK_DEADLOCK FALSE
