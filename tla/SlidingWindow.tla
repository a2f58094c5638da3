---------------------------- MODULE SlidingWindow ----------------------------
(***************************************************************************)
(* What a rate limiter promises: a call is admitted exactly when fewer     *)
(* than MaxCalls were admitted in the last Period.                         *)
(***************************************************************************)
EXTENDS Integers, Sequences, FiniteSets

CONSTANTS Keys, MaxCalls, Period, MaxTime

VARIABLES now, log, answer

Recent(k) == {i \in DOMAIN log[k] : log[k][i] > now - Period}

Init ==
    /\ now = 0
    /\ log = [k \in Keys |-> << >>]
    /\ answer = [at |-> 0, ok |-> TRUE]

Call(k) ==
    LET ok == Cardinality(Recent(k)) < MaxCalls
    IN  /\ answer' = [at |-> now, ok |-> ok]
        /\ log' = IF ok THEN [log EXCEPT ![k] = Append(@, now)] ELSE log
        /\ UNCHANGED now

Tick == now < MaxTime /\ now' = now + 1 /\ UNCHANGED <<log, answer>>

Forget == log' = [k \in Keys |-> << >>] /\ UNCHANGED <<now, answer>>

Next == Tick \/ Forget \/ \E k \in Keys : Call(k)

Spec == Init /\ [][Next]_<<now, log, answer>>
=============================================================================
