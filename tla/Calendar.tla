------------------------------ MODULE Calendar ------------------------------
(***************************************************************************)
(* Dates as Python's datetime has them, the periods of a budget as         *)
(* endpoints/budgets.py computes them, and the periods as a calendar has   *)
(* them.  A date is a record; its ordinal counts days from 1 January 1.    *)
(***************************************************************************)
EXTENDS Integers

Kinds == {"monthly", "weekly", "yearly"}

Leap(y) == y % 4 = 0 /\ (y % 100 # 0 \/ y % 400 = 0)

MonthLength(d) ==
    IF d.month = 2 /\ Leap(d.year) THEN 29
    ELSE <<31, 28, 31, 30, 31, 30, 31, 31, 30, 31, 30, 31>>[d.month]

DaysBefore(d) ==
    <<0, 31, 59, 90, 120, 151, 181, 212, 243, 273, 304, 334>>[d.month]
        + IF d.month > 2 /\ Leap(d.year) THEN 1 ELSE 0

Ordinal(d) ==
    LET y == d.year - 1
    IN  365 * y + y \div 4 - y \div 100 + y \div 400 + DaysBefore(d) + d.day

(* The dates there are.                                                    *)
Dates == {d \in [year : Int, month : 1 .. 12, day : 1 .. 31] : d.day <= MonthLength(d)}

(* Monday is 0; 1 January 1 was a Monday.                                  *)
Weekday(d) == (Ordinal(d) + 6) % 7

Tomorrow(d) ==
    IF d.day < MonthLength(d) THEN [d EXCEPT !.day = @ + 1]
    ELSE IF d.month < 12 THEN [d EXCEPT !.month = @ + 1, !.day = 1]
    ELSE [year |-> d.year + 1, month |-> 1, day |-> 1]

Yesterday(d) ==
    LET before == IF d.month = 1 THEN [d EXCEPT !.year = @ - 1, !.month = 12]
                  ELSE [d EXCEPT !.month = @ - 1]
    IN  IF d.day > 1 THEN [d EXCEPT !.day = @ - 1]
        ELSE [before EXCEPT !.day = MonthLength(before)]

-----------------------------------------------------------------------------
(* What a calendar says: which days are of one month, week or year.        *)

Monday(d) == Ordinal(d) - Weekday(d)

SamePeriod(kind, d, e) ==
    CASE kind = "monthly" -> d.year = e.year /\ d.month = e.month
      [] kind = "weekly"  -> Monday(d) = Monday(e)
      [] kind = "yearly"  -> d.year = e.year

Opens(kind, d) == ~SamePeriod(kind, Yesterday(d), d)

-----------------------------------------------------------------------------
(* What the code says: the first day of the period of d and the first day  *)
(* after it.  A definition marked VARIANT is a plausible bug.              *)

(* VARIANT of monthly: December is not looked at.                          *)
monthlyAllAlike(d) ==
    LET start == [d EXCEPT !.day = 1]
    IN  [start |-> start, end |-> [start EXCEPT !.month = (@ % 12) + 1]]

monthly(d) ==
    LET start == [d EXCEPT !.day = 1]
    IN  [start |-> start,
         end |-> IF d.month = 12 THEN [start EXCEPT !.year = @ + 1, !.month = 1]
                 ELSE [start EXCEPT !.month = @ + 1]]

(* VARIANT of weekly: weeks begin on Sunday, as isoweekday would have it.  *)
weeklyFromSunday(d) ==
    LET start == [d EXCEPT !.day = @ - ((Weekday(d) + 1) % 7)]
    IN  [start |-> start, end |-> [start EXCEPT !.day = @ + 7]]

(* replace(day=...) is told the day of the month.                          *)
weekly(d) ==
    LET start == [d EXCEPT !.day = @ - Weekday(d)]
    IN  [start |-> start, end |-> [start EXCEPT !.day = @ + 7]]

(* Every other word for a period means a year.                             *)
yearly(d) ==
    LET start == [d EXCEPT !.month = 1, !.day = 1]
    IN  [start |-> start, end |-> [start EXCEPT !.year = @ + 1]]

_get_period_dates(kind, d) ==
    CASE kind = "monthly" -> monthly(d)
      [] kind = "weekly"  -> weekly(d)
      [] kind = "yearly"  -> yearly(d)

(* VARIANT of Raises: the start of a week is computed as a difference.     *)
RaisesAtEnd(kind, d) ==
    LET e == _get_period_dates(kind, d).end IN e.day > MonthLength(e)

(* replace raises ValueError where the month has no such day.              *)
Raises(kind, d) ==
    LET p == _get_period_dates(kind, d)
    IN  \E e \in {p.start, p.end} : e.day \notin 1 .. MonthLength(e)
=============================================================================
