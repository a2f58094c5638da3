\* Two budgets, two categories, one expense and one deletion; three rows read one by one.
CONSTANTS
    None = None
    Categories = {c1, c2}
    Deleters = {d1}
    BudgetIds = {b1, b2}
    ExpenseIds = {x1}
    Periodicities = {"weekly", "monthly"}
    MaxChanges = 1
    Spans <- MCSpans
    Ids = {1, 2, 3}
    Times = {1, 2}
    PageSize = 1
SPECIFICATION MCSpec
INVARIANTS
    MCTypeOK EachRowOnce
PROPERTIES
    FollowsCalendar FailsAcrossMonths FigureIsExact AnswersOneMoment
    CategoryKept TotalMatchesPage
SYMMETRY Symmetry
CHECK_DEADLOCK FALSE
