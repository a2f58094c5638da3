-------------------------------- MODULE Pages --------------------------------
(***************************************************************************)
(* A client reads a listing page by page, one request per page, with       *)
(* OFFSET and LIMIT, while rows come, go and move.  GET /admin/users is    *)
(* sorted by id; GET /admin/audit-logs and GET /transactions/ newest       *)
(* first, by a time that rows may share, and PostgreSQL orders those as it *)
(* likes, anew for every page.  Users and audit entries come with a total, *)
(* counted by a statement of its own.                                      *)
(***************************************************************************)
EXTENDS Integers, FiniteSets

CONSTANTS
    Ids,        \* ids of rows that pass the filter of the request
    Times,      \* created_at, or date
    PageSize    \* limit

ASSUME IdsAssumption == IsFiniteSet(Ids) /\ Ids \subseteq Nat \ {0}
ASSUME TimesAssumption == Times \subseteq Nat \ {0}
ASSUME PageSizeAssumption == PageSize \in Nat \ {0}

VARIABLES
    listing,    \* which of the three
    rows,       \* what each row is sorted by
    reader,     \* the client: its next offset, and what it was told
    seen,       \* how often the client was shown a row
    history     \* history: what went on since its first page

pageVars == <<listing, rows, reader, seen, history>>

Absent == 0
Present == {r \in Ids : rows[r] # Absent}

(* stayed: rows present since the first page; came, left: some row did     *)
(* since; tied: a page was cut from rows that share a time; net: rows      *)
(* that came since the count, less those that left.                        *)
Nothing == [stayed |-> {}, came |-> FALSE, left |-> FALSE, tied |-> FALSE,
            net |-> 0]

Start == [offset |-> 0, total |-> -1, end |-> FALSE]

PagesTypeOK ==
    /\ rows \in [Ids -> Times \cup Ids \cup {Absent}]
    /\ reader \in [offset : Nat, total : Nat \cup {-1}, end : BOOLEAN]
    /\ seen \in [Ids -> Nat]
    /\ history.stayed \subseteq Present /\ history.net \in Int

PagesInit ==
    /\ listing \in {"users", "audit", "transactions"}
    /\ rows = [r \in Ids |-> Absent]
    /\ reader = Start
    /\ seen = [r \in Ids |-> 0]
    /\ history = Nothing

-----------------------------------------------------------------------------
Keys(r) == IF listing = "users" THEN {r} ELSE Times

Observe(gone, came, left) ==
    LET amid == reader.offset > 0
    IN  history' = [stayed |-> history.stayed \ gone,
                    came   |-> amid /\ (history.came \/ came),
                    left   |-> amid /\ (history.left \/ left),
                    tied   |-> history.tied,
                    net    |-> IF reader.total = -1 THEN 0
                               ELSE history.net + (IF came THEN 1 ELSE 0)
                                                - (IF left THEN 1 ELSE 0)]

(* A row is inserted, or begins to pass the filter.  Ids and times are     *)
(* taken before the commit that shows the row: they need not be the last.  *)
Insert(r, key) ==
    /\ rows[r] = Absent
    /\ rows' = [rows EXCEPT ![r] = key]
    /\ Observe({}, TRUE, FALSE)

(* A row is deleted, or no longer passes the filter.                       *)
Delete(r) ==
    /\ rows[r] # Absent
    /\ rows' = [rows EXCEPT ![r] = Absent]
    /\ Observe({r}, FALSE, TRUE)

(* PATCH gives a transaction another date.                                 *)
Redate(r, key) ==
    /\ listing = "transactions"
    /\ rows[r] \notin {Absent, key}
    /\ rows' = [rows EXCEPT ![r] = key]
    /\ Observe({}, TRUE, TRUE)

(* VARIANT of Precedes: users are sorted by something they share.          *)
PrecedesNothing(q, r) == FALSE

(* ORDER BY                                                                *)
Precedes(q, r) == IF listing = "users" THEN rows[q] < rows[r] ELSE rows[q] > rows[r]

(* The rows that some sorting of the table puts first.                     *)
Firsts(n) ==
    {F \in SUBSET Present :
        /\ n >= Cardinality(Present) => F = Present
        /\ n < Cardinality(Present) => Cardinality(F) = n
        /\ \A r \in F, q \in Present : Precedes(q, r) => q \in F}

Tied == \E q, r \in Present : q # r /\ ~Precedes(q, r) /\ ~Precedes(r, q)

(* VARIANT of PageAt: a page has one row more than the client asked for.   *)
PageLong(offset) ==
    {H[1] \ H[2] : H \in {G \in Firsts(offset + PageSize + 1) \X Firsts(offset) :
                             G[2] \subseteq G[1]}}

(* OFFSET and LIMIT.                                                       *)
PageAt(offset) ==
    {H[1] \ H[2] : H \in {G \in Firsts(offset + PageSize) \X Firsts(offset) :
                             G[2] \subseteq G[1]}}

Counts == listing # "transactions"

(* search: the SELECT of the count.                                        *)
Count ==
    /\ Counts /\ reader.total = -1
    /\ reader' = [reader EXCEPT !.total = Cardinality(Present)]
    /\ UNCHANGED <<listing, rows, seen, history>>

(* The SELECT of the page.  A client asks on until a page is not full.     *)
Select ==
    /\ Counts => reader.total # -1
    /\ \E page \in PageAt(reader.offset) :
          /\ seen' = [r \in Ids |-> seen[r] + IF r \in page THEN 1 ELSE 0]
          /\ reader' = [offset |-> reader.offset + PageSize, total |-> -1,
                        end |-> Cardinality(page) < PageSize]
    /\ history' = [history EXCEPT !.stayed = IF reader.offset = 0 THEN Present ELSE @,
                                  !.tied = @ \/ Tied,
                                  !.net = 0]
    /\ UNCHANGED <<listing, rows>>

RowsChange ==
    /\ \E r \in Ids : Delete(r) \/ \E key \in Keys(r) : Insert(r, key) \/ Redate(r, key)
    /\ UNCHANGED <<listing, reader, seen>>

(* A behaviour is one reading.                                             *)
PagesNext == ~reader.end /\ (RowsChange \/ Count \/ Select)

PagesSpec == PagesInit /\ [][PagesNext]_pageVars

-----------------------------------------------------------------------------
(* A client that reads to the end is shown every row that stays, and each  *)
(* of them once.  It misses one only if another row left, or moved, in     *)
(* between, it is shown one twice only if another came, or moved; or else  *)
(* rows share a time; users are sorted by their ids, which they do not     *)
(* (crud/user.py:59-67, crud/audit_log.py:63-67, transaction.py:139-141).  *)
EachRowOnce ==
    \A r \in history.stayed :
        \/ history.tied /\ listing # "users"
        \/ /\ reader.end => seen[r] > 0 \/ history.left
           /\ seen[r] < 2 \/ history.came

(* The total a page comes with is the number of rows it was cut from, but  *)
(* for those that came or left between the two statements: corrected by    *)
(* them it says where the page ends (crud/user.py:59-67,                   *)
(* crud/audit_log.py:57-67).                                               *)
TotalMatchesPage ==
    [][Select /\ Counts =>
          LET shown == {r \in Ids : seen'[r] # seen[r]}
              rest == reader.total + history.net - reader.offset
          IN  /\ reader'.end <=> rest < PageSize
              /\ Cardinality(shown) = IF rest < 0 THEN 0
                                      ELSE IF rest < PageSize THEN rest
                                      ELSE PageSize]_pageVars
=============================================================================
