------------------------------- MODULE Periods -------------------------------
(***************************************************************************)
(* What the periods of a budget promise as days go by: a period lasts      *)
(* until the calendar opens the next one, which begins the very day the    *)
(* last one ended.                                                         *)
(***************************************************************************)
EXTENDS Calendar

VARIABLES
    today,
    opened,   \* the ordinal of the first day of each kind of period
    closes    \* and of the first day after it

Current(k) == opened[k] <= Ordinal(today) /\ Ordinal(today) < closes[k]

Init == \A k \in Kinds : Current(k)

Next ==
    /\ today' = Tomorrow(today)
    /\ \A k \in Kinds :
          IF Opens(k, today')
          THEN opened'[k] = closes[k] /\ opened'[k] = Ordinal(today')
          ELSE opened'[k] = opened[k] /\ closes'[k] = closes[k]
    /\ \A k \in Kinds : Current(k)'

Spec == Init /\ [][Next]_<<today, opened, closes>>
=============================================================================
