------------------------------- MODULE Budgets -------------------------------
(***************************************************************************)
(* One user's budgets, categories and expenses, and GET /budgets/, which   *)
(* is a SELECT of the active budgets followed by one SELECT of a sum for   *)
(* each, every one on its own READ COMMITTED snapshot and its own reading  *)
(* of the clock.  The handlers that write are one transaction of one       *)
(* statement each (and what the foreign keys do), so they are atomic, but  *)
(* for the deletion of a category: the ORM first reads the expenses that   *)
(* are booked on it, and then sets those to NULL.                          *)
(*                                                                         *)
(* A sum is modelled by the set of expenses that are summed.  Amounts,     *)
(* names, start_date and end_date play no part in what is counted; incomes *)
(* and transfers are never counted and do not appear.                      *)
(***************************************************************************)
EXTENDS Calendar

CONSTANTS
    Categories,   \* ids of categories rows
    BudgetIds,    \* ids of budgets rows
    ExpenseIds,   \* ids of transactions rows
    Deleters,     \* bound: the deletions of categories that may overlap
    Periodicities,\* the periods that clients choose
    Spans,        \* bound: the first and the last day of a behaviour
    MaxChanges,   \* bound: how many changes come amid one report
    None          \* no category

ASSUME PeriodicitiesAssumption == Periodicities \subseteq Kinds
ASSUME SpansAssumption == \A span \in Spans : span.first \in Dates
ASSUME MaxChangesAssumption == MaxChanges \in Nat

VARIABLES
    today,        \* the clock, in UTC
    noon,         \* whether midnight has passed
    until,        \* bound: the last day
    categories,   \* the rows that exist
    deleted,      \* ids of those that did
    budgets,
    expenses,
    deletions,    \* what each deletion in progress has read
    report,       \* the request in progress
    changes       \* history: how many changes since its first statement

budgetVars == <<today, noon, until, categories, deleted, budgets, expenses,
                deletions, report, changes>>

stored == <<categories, deleted, budgets, expenses, deletions>>
clock == <<today, noon>>

Scopes == Categories \cup {None}

(* A row that is not there yet, or no longer.                              *)
NoBudget == [state |-> "none", period |-> "none", category |-> None]
NoExpense == [day |-> None, noon |-> FALSE, category |-> None]
NoDeletion == [category |-> None, filed |-> {}]
NoFigure == {None}

(* state stands for is_active, and for the row being there at all.         *)
Budgets == [state : {"active", "inactive"}, period : Kinds, category : Scopes]
             \cup {NoBudget}

Expenses == [day : Dates, noon : BOOLEAN, category : Scopes] \cup {NoExpense}

Deletions == [category : Scopes, filed : SUBSET ExpenseIds]

Reports == [open : BOOLEAN, rows : [BudgetIds -> Budgets],
            figures : [BudgetIds -> SUBSET (ExpenseIds \cup {None})]]

Idle == [open |-> FALSE, rows |-> [b \in BudgetIds |-> NoBudget],
         figures |-> [b \in BudgetIds |-> NoFigure]]

BudgetsTypeOK ==
    /\ today \in Dates /\ noon \in BOOLEAN
    /\ categories \subseteq Categories /\ deleted \subseteq Categories \ categories
    /\ budgets \in [BudgetIds -> Budgets]
    /\ expenses \in [ExpenseIds -> Expenses]
    /\ \A b \in BudgetIds : budgets[b].category \in categories \cup {None}
    /\ \A x \in ExpenseIds : expenses[x].category \in categories \cup {None}
    /\ deletions \in [Deleters -> Deletions]
    /\ report \in Reports /\ changes \in 0 .. MaxChanges

BudgetsInit ==
    /\ \E span \in Spans : today = span.first /\ until = span.last
    /\ noon = FALSE
    /\ categories = {} /\ deleted = {}
    /\ budgets = [b \in BudgetIds |-> NoBudget]
    /\ expenses = [x \in ExpenseIds |-> NoExpense]
    /\ deletions = [r \in Deleters |-> NoDeletion]
    /\ report = Idle
    /\ changes = 0

-----------------------------------------------------------------------------
(* The rows.                                                               *)

Change ==
    /\ changes < MaxChanges
    /\ changes' = IF report.open THEN changes + 1 ELSE 0

Tick ==
    /\ noon => today # until
    /\ noon' = ~noon
    /\ today' = IF noon THEN Tomorrow(today) ELSE today
    /\ Change
    /\ UNCHANGED <<until, stored, report>>

Writes == Change /\ UNCHANGED <<clock, until, report>>

AddCategory(c) ==
    /\ c \notin categories \cup deleted
    /\ categories' = categories \cup {c}
    /\ Writes
    /\ UNCHANGED <<deleted, budgets, expenses, deletions>>

(* The flush of a deletion begins with a SELECT of the rows to set to NULL.*)
(* (Budgets and child categories are read too; no PATCH can move those to  *)
(* another category, so that makes no difference to them.)                 *)
BeginDeletion(r, c) ==
    /\ deletions[r] = NoDeletion
    /\ c \in categories
    /\ deletions' = [deletions EXCEPT ![r] =
          [category |-> c, filed |-> {x \in ExpenseIds : expenses[x].category = c}]]
    /\ UNCHANGED <<clock, until, categories, deleted, budgets, expenses, report, changes>>

Unfiled(row) == [row EXCEPT !.category = None]

(* VARIANT of EndDeletion: what was booked on it since the SELECT is left  *)
(* alone.                                                                  *)
EndDeletionRead(r) ==
    LET c == deletions[r].category
    IN  /\ c # None
        /\ categories' = categories \ {c}
        /\ deleted' = deleted \cup {c}
        /\ budgets' = [b \in BudgetIds |->
              IF budgets[b].category = c THEN Unfiled(budgets[b]) ELSE budgets[b]]
        /\ expenses' = [x \in ExpenseIds |->
              IF x \in deletions[r].filed THEN Unfiled(expenses[x]) ELSE expenses[x]]
        /\ deletions' = [deletions EXCEPT ![r] = NoDeletion]
        /\ Writes

(* The UPDATEs of the rows that were read, wherever they are booked by     *)
(* now, and the DELETE, whose foreign keys see to the rest.  They keep     *)
(* their rows locked until the commit: no step sees some without others.   *)
EndDeletion(r) ==
    LET c == deletions[r].category
    IN  /\ c # None
        /\ categories' = categories \ {c}
        /\ deleted' = deleted \cup {c}
        /\ budgets' = [b \in BudgetIds |->
              IF budgets[b].category = c THEN Unfiled(budgets[b]) ELSE budgets[b]]
        /\ expenses' = [x \in ExpenseIds |->
              IF expenses[x].category = c \/ x \in deletions[r].filed
              THEN Unfiled(expenses[x]) ELSE expenses[x]]
        /\ deletions' = [deletions EXCEPT ![r] = NoDeletion]
        /\ Writes

(* Rolled back: the victim of a deadlock, a row that was read is gone, or  *)
(* the process ends.                                                       *)
FailDeletion(r) ==
    /\ deletions[r] # NoDeletion
    /\ deletions' = [deletions EXCEPT ![r] = NoDeletion]
    /\ UNCHANGED <<clock, until, categories, deleted, budgets, expenses, report, changes>>

AddBudget(b, kind, c) ==
    /\ budgets[b] = NoBudget
    /\ c \in categories \cup {None}
    /\ budgets' = [budgets EXCEPT
          ![b] = [state |-> "active", period |-> kind, category |-> c]]
    /\ Writes
    /\ UNCHANGED <<categories, deleted, expenses, deletions>>

Live(b) == budgets[b] # NoBudget

(* VARIANT of UpdateBudget: what a PATCH leaves out is set to NULL.        *)
UpdateBudgetWhole(b, state) ==
    /\ Live(b)
    /\ budgets' = [budgets EXCEPT ![b].state = state, ![b].category = None]
    /\ Writes
    /\ UNCHANGED <<categories, deleted, expenses, deletions>>

(* PATCH changes is_active; period and category_id it cannot change.       *)
UpdateBudget(b, state) ==
    /\ Live(b)
    /\ budgets' = [budgets EXCEPT ![b].state = state]
    /\ Writes
    /\ UNCHANGED <<categories, deleted, expenses, deletions>>

DeleteBudget(b) ==
    /\ Live(b)
    /\ budgets' = [budgets EXCEPT ![b] = NoBudget]
    /\ Writes
    /\ UNCHANGED <<categories, deleted, expenses, deletions>>

(* The dates a client gives: now, or the very start of a day on which a    *)
(* period of today's ends.                                                 *)
Instants ==
    {[day |-> today, noon |-> noon]}
      \cup {[day |-> _get_period_dates(k, today).end, noon |-> FALSE] :
               k \in {k \in Kinds : ~Raises(k, today)}}

(* POST, and PATCH of date and category_id.                                *)
Book(x, at, c) ==
    /\ c \in categories \cup {None}
    /\ expenses' = [expenses EXCEPT
          ![x] = [day |-> at.day, noon |-> at.noon, category |-> c]]
    /\ Writes
    /\ UNCHANGED <<categories, deleted, budgets, deletions>>

(* An UPDATE finds the row no more; its id is not used again.              *)
Unbook(x) ==
    /\ expenses[x] # NoExpense
    /\ expenses' = [expenses EXCEPT ![x] = NoExpense]
    /\ deletions' = [r \in Deleters |-> [deletions[r] EXCEPT !.filed = @ \ {x}]]
    /\ Writes
    /\ UNCHANGED <<categories, deleted, budgets>>

-----------------------------------------------------------------------------
(* The report.                                                             *)

Instant(d, late) == 2 * Ordinal(d) + IF late THEN 1 ELSE 0

(* VARIANT of Counted: the end of the period is left out.                  *)
CountedHalfOpen(c, p) ==
    {x \in ExpenseIds :
        /\ expenses[x] # NoExpense
        /\ LET at == Instant(expenses[x].day, expenses[x].noon)
           IN  Instant(p.start, FALSE) <= at /\ at < Instant(p.end, FALSE)
        /\ c # None => expenses[x].category = c}

(* get_spent_for_budget: both ends of the period included.                 *)
Counted(c, p) ==
    {x \in ExpenseIds :
        /\ expenses[x] # NoExpense
        /\ LET at == Instant(expenses[x].day, expenses[x].noon)
           IN  Instant(p.start, FALSE) <= at /\ at <= Instant(p.end, FALSE)
        /\ c # None => expenses[x].category = c}

Active(b) == budgets[b].state = "active"

(* VARIANT of OpenReport: budgets that are switched off are listed too.    *)
OpenReportAll ==
    /\ report = Idle
    /\ report' = [Idle EXCEPT !.open = TRUE, !.rows = budgets]
    /\ changes' = 0
    /\ UNCHANGED <<clock, until, stored>>

(* crud_budget.get_by_user                                                 *)
OpenReport ==
    /\ report = Idle
    /\ report' = [Idle EXCEPT !.open = TRUE,
          !.rows = [b \in BudgetIds |-> IF Active(b) THEN budgets[b] ELSE NoBudget]]
    /\ changes' = 0
    /\ UNCHANGED <<clock, until, stored>>

(* Budgets come in no order.                                               *)
Pending(b) ==
    /\ report.open
    /\ report.rows[b] # NoBudget
    /\ report.figures[b] = NoFigure

Sum(b) ==
    /\ Pending(b)
    /\ ~Raises(report.rows[b].period, today)
    /\ report' = [report EXCEPT
          !.figures[b] = Counted(report.rows[b].category,
                                 _get_period_dates(report.rows[b].period, today))]
    /\ UNCHANGED <<clock, until, stored, changes>>

(* The ValueError is not caught: the whole request fails with a 500.       *)
SumRaises(b) ==
    /\ Pending(b)
    /\ Raises(report.rows[b].period, today)
    /\ report' = Idle
    /\ changes' = 0
    /\ UNCHANGED <<clock, until, stored>>

Answer ==
    /\ report.open
    /\ \A b \in BudgetIds : ~Pending(b)
    /\ report' = Idle
    /\ changes' = 0
    /\ UNCHANGED <<clock, until, stored>>

Filing ==
    \/ \E c \in Categories : AddCategory(c)
    \/ \E r \in Deleters, c \in Categories : BeginDeletion(r, c)
    \/ \E r \in Deleters : EndDeletion(r) \/ FailDeletion(r)
    \/ \E b \in BudgetIds, kind \in Periodicities, c \in Scopes : AddBudget(b, kind, c)
    \/ \E b \in BudgetIds, state \in {"active", "inactive"} : UpdateBudget(b, state)
    \/ \E b \in BudgetIds : DeleteBudget(b)
    \/ \E x \in ExpenseIds, at \in Instants, c \in Scopes : Book(x, at, c)
    \/ \E x \in ExpenseIds : Unbook(x)

Handlers ==
    \/ Filing
    \/ OpenReport \/ Answer
    \/ \E b \in BudgetIds : Sum(b) \/ SumRaises(b)

BudgetsNext == Tick \/ Handlers

BudgetsSpec == BudgetsInit /\ [][BudgetsNext]_budgetVars

-----------------------------------------------------------------------------
(* The dates of the code, and where it has none those of a calendar.       *)
Week == [start |-> Monday(today), end |-> Monday(today) + 7]

Computed == [k \in Kinds |->
    IF Raises(k, today) THEN Week
    ELSE LET p == _get_period_dates(k, today)
         IN  [start |-> Ordinal(p.start), end |-> Ordinal(p.end)]]

Calendars == INSTANCE Periods WITH
    today  <- today,
    opened <- [k \in Kinds |-> Computed[k].start],
    closes <- [k \in Kinds |-> Computed[k].end]

(* As days go by, the dates that the code computes afresh for each request *)
(* are those of periods that open and close on the calendar's days, each   *)
(* where the last one ended (budgets.py:17-32).  Weeks that the code       *)
(* cannot compute are filled in.                                           *)
FollowsCalendar == Calendars!Spec

(* What becomes of a budget of a report in progress.                       *)
Figured(b) == Pending(b) /\ report'.figures[b] # NoFigure
Failed == report.open /\ ~report'.open /\ \E b \in BudgetIds : Pending(b)

MonthHolds(day) ==
    LET first == Ordinal([today EXCEPT !.day = 1])
    IN  first <= day /\ day < first + MonthLength(today)

(* A weekly budget fails the whole report in every week that begins, or    *)
(* whose following week begins, in another month; nothing else fails it    *)
(* (budgets.py:26-28, 45).                                                 *)
FailsAcrossMonths ==
    [][LET spills == ~(MonthHolds(Week.start) /\ MonthHolds(Week.end))
           weeklyLeft == {b \in BudgetIds :
                             Pending(b) /\ report.rows[b].period = "weekly"}
       IN  /\ Failed => spills /\ weeklyLeft # {}
           /\ \A b \in weeklyLeft : Figured(b) => ~spills]_budgetVars

InPeriod(kind, x) ==
    \/ SamePeriod(kind, x.day, today)
    \/ ~x.noon /\ SamePeriod(kind, Yesterday(x.day), today)

(* A figure sums the expenses of the calendar's period and of the budget's *)
(* category, and also one at the very instant the next period opens, which *)
(* that period will count again.  Nothing is left of a category deleted    *)
(* since the report began (crud/transaction.py:143-167).                   *)
FigureIsExact ==
    [][\A b \in BudgetIds : Figured(b) =>
          LET row == report.rows[b]
          IN  report'.figures[b] =
                {x \in ExpenseIds :
                    /\ expenses[x] # NoExpense
                    /\ InPeriod(row.period, expenses[x])
                    /\ row.category \in {None, expenses[x].category}}]_budgetVars

Spent(b) ==
    IF Active(b)
    THEN Counted(budgets[b].category, _get_period_dates(budgets[b].period, today))
    ELSE NoFigure

(* Unless a write or midnight comes between its statements, an answer is   *)
(* that of one moment: every active budget, no other, and sums that agree  *)
(* with one another (budgets.py:35-54).                                    *)
AnswersOneMoment ==
    [][Answer /\ changes = 0 =>
          report.figures = [b \in BudgetIds |-> Spent(b)]]_budgetVars

(* A budget made for a category watches that category until it is deleted, *)
(* and from then on every expense of the user, in the past as well: no     *)
(* request gives it a category again (budgets.py:57-76, categories.py,     *)
(* models/budget.py:15-17).  An expense keeps the category that it was     *)
(* given last, until that is deleted, or else until the deletion, begun    *)
(* while it was still booked there, of one that it has been moved away     *)
(* from: the move is overwritten (crud/base.py:50-55,                      *)
(* models/category.py:29-32).                                              *)
CategoryKept ==
    [][/\ \A b \in BudgetIds : Live(b) /\ Live(b)' =>
             \/ budgets'[b].category = budgets[b].category
             \/ budgets'[b].category = None /\ budgets[b].category \in deleted'
       /\ \A x \in ExpenseIds : expenses'[x].category # expenses[x].category =>
             \/ Unbook(x)
             \/ \E at \in Instants : Book(x, at, expenses'[x].category)
             \/ /\ expenses'[x].category = None
                /\ \/ expenses[x].category \in deleted'
                   \/ \E r \in Deleters : /\ deletions[r].category \in deleted'
                                          /\ x \in deletions[r].filed]_budgetVars
=============================================================================
