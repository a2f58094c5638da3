\* One session: requests run one after another, each statement by statement.
\* Amounts of half a cent and of a whole one.
CONSTANTS
    acc1 = acc1
    acc2 = acc2
    None = None
    NoRow = NoRow
    Sub = 2
    MaxBalance = 6
    Accounts = {acc1, acc2}
    Txs = {1, 2}
    Slots = {s1}
    Bodies <- EveryBody
    Amounts = {1, 4}
    Openings = {0}
SPECIFICATION LedgerSpec
PROPERTIES OffByRounding ImplementsSerialLedger
CHECK_DEADLOCK FALSE
