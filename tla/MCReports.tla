----------------------------- MODULE MCReports -----------------------------
(***************************************************************************)
(* What users and administrators read: the reports of budgets, and the     *)
(* listings.  The two share no state: a behaviour exercises one of them,   *)
(* and the other rests.  Another kind of behaviour is the calendar alone,  *)
(* over more days than a report can be followed; and yet another is that   *)
(* of requests that write, on one day and with more categories, and with   *)
(* no report among them.                                                   *)
(***************************************************************************)
EXTENDS Budgets, Pages, TLC

VARIABLE part   \* the module that takes the steps

Day(y, m, d) == [year |-> y, month |-> m, day |-> d]

Span(first, last) == [first |-> first, last |-> last]

(* Leap and common years, and weeks that begin and end on every day of     *)
(* every month.                                                            *)
Years == Span(Day(2023, 12, 25), Day(2029, 1, 5))

(* The ends of a leap February and of a year, and a week within a month.   *)
Turns == { Span(Day(2024, 2, 29), Day(2024, 3, 1)),
           Span(Day(2024, 12, 31), Day(2025, 1, 1)),
           Span(Day(2025, 3, 16), Day(2025, 3, 17)) }

MCSpans == Turns \cup {Years}

MCInit ==
    /\ BudgetsInit /\ PagesInit
    /\ part \in {"calendar", "budgets", "filing", "pages"}
    /\ part = "budgets" <=> until # Years.last
    /\ part # "pages" => listing = "users"

(* A report follows one category from its creation to its deletion, which  *)
(* nothing interrupts: what it has read is nothing to a report.            *)
OneCategory ==
    /\ Cardinality(categories' \cup deleted') < 2
    /\ \A r \in Deleters : deletions[r] # NoDeletion => deletions'[r] = NoDeletion

MCNext ==
    /\ \/ part = "calendar" /\ Tick /\ UNCHANGED pageVars
       \/ part = "budgets" /\ BudgetsNext /\ OneCategory /\ UNCHANGED pageVars
       \/ part = "filing" /\ Filing /\ UNCHANGED pageVars
       \/ part = "pages" /\ PagesNext /\ UNCHANGED budgetVars
    /\ UNCHANGED part

MCSpec == MCInit /\ [][MCNext]_<<budgetVars, pageVars, part>>

(* The types of the variables of both; no row names a category that has    *)
(* gone (models/budget.py:15-17, models/transaction.py:17-19).             *)
MCTypeOK == BudgetsTypeOK /\ PagesTypeOK

Symmetry == Permutations(BudgetIds) \cup Permutations(Categories)
=============================================================================
