----------------------------- MODULE RateLimiter -----------------------------
(***************************************************************************)
(* core/ratelimit.py: an in-memory sliding window, one deque of admission  *)
(* times per key.  allow has no await, so within the one process calls are *)
(* atomic; a restart of the process forgets everything.                    *)
(***************************************************************************)
EXTENDS Integers, Sequences

CONSTANTS
    Keys,      \* e-mails of /auth/login, addresses of /auth/password-reset
    MaxCalls,
    Period,
    MaxTime    \* bound: the clock stops there

ASSUME MaxCallsAssumption == MaxCalls \in Nat \ {0}
ASSUME PeriodAssumption == Period \in Nat \ {0}
ASSUME MaxTimeAssumption == MaxTime \in Nat

VARIABLES
    now,    \* time.monotonic()
    hits,   \* _hits
    log,    \* history: every admission since the process started
    answer  \* history: the last call's time and result

vars == <<now, hits, log, answer>>

TypeOK ==
    /\ now \in Nat
    /\ hits \in [Keys -> Seq(Nat)]
    /\ log \in [Keys -> Seq(Nat)]
    /\ answer \in [at : Nat, ok : BOOLEAN]

(* VARIANT of Nothing (see Ledger): a dict that has no deque for a new key. *)
NoDeques == << >>
Nothing == [k \in Keys |-> << >>]

Init ==
    /\ now = 0
    /\ hits = Nothing
    /\ log = Nothing
    /\ answer = [at |-> 0, ok |-> TRUE]

(* VARIANT of Stale (see Ledger): a hit exactly Period old still counts.   *)
StaleStrictly(q) ==
    CHOOSE n \in 0 .. Len(q) :
        /\ \A i \in 1 .. n : q[i] < now - Period
        /\ n < Len(q) => q[n + 1] >= now - Period

(* VARIANT of Stale: a hit Period - 1 old no longer counts.                *)
StaleEarly(q) ==
    CHOOSE n \in 0 .. Len(q) :
        /\ \A i \in 1 .. n : q[i] <= now - Period + 1
        /\ n < Len(q) => q[n + 1] > now - Period + 1

(* How many hits the while loop pops from the left.                        *)
Stale(q) ==
    CHOOSE n \in 0 .. Len(q) :
        /\ \A i \in 1 .. n : q[i] <= now - Period
        /\ n < Len(q) => q[n + 1] > now - Period

allow(k) ==
    LET dq == SubSeq(hits[k], Stale(hits[k]) + 1, Len(hits[k]))
        ok == Len(dq) < MaxCalls
    IN  /\ hits' = [hits EXCEPT ![k] = IF ok THEN Append(dq, now) ELSE dq]
        /\ log' = IF ok THEN [log EXCEPT ![k] = Append(@, now)] ELSE log
        /\ answer' = [at |-> now, ok |-> ok]
        /\ UNCHANGED now

Tick ==
    /\ now < MaxTime
    /\ now' = now + 1
    /\ UNCHANGED <<hits, log, answer>>

Restart ==
    /\ hits' = Nothing
    /\ log' = Nothing
    /\ UNCHANGED <<now, answer>>

Next == Tick \/ Restart \/ \E k \in Keys : allow(k)

Spec == Init /\ [][Next]_vars

-----------------------------------------------------------------------------
(* Any MaxCalls + 1 admissions of a key in a row span at least Period: no  *)
(* window of that length, wherever it starts, admits more than MaxCalls    *)
(* (core/ratelimit.py:16-25).                                              *)
WindowHolds ==
    \A k \in Keys : \A i \in 1 .. Len(log[k]) - MaxCalls :
        log[k][i + MaxCalls] - log[k][i] >= Period

(* The deque is trimmed lazily and holds only part of the history, but the *)
(* limiter answers as one that remembers every admission: it refuses no    *)
(* call that the window has room for.                                      *)
Window == INSTANCE SlidingWindow WITH now <- now, log <- log, answer <- answer
ImplementsSlidingWindow == Window!Spec
=============================================================================
