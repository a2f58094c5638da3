------------------------- MODULE RateLimiterTheorems -------------------------
(***************************************************************************)
(* What holds of RateLimiter for any keys, any limit and any period.       *)
(***************************************************************************)
EXTENDS RateLimiter, CommonTheorems, SequenceTheorems

(* The admissions of a key that its deque has let go.                      *)
Dropped(k) == Len(log[k]) - Len(hits[k])

KeyInv(k) ==
    /\ \A i \in 1 .. Len(log[k]) : log[k][i] <= now
    /\ \A i, j \in 1 .. Len(log[k]) : i <= j => log[k][i] <= log[k][j]
    /\ Dropped(k) >= 0
    /\ \A i \in 1 .. Len(hits[k]) : hits[k][i] = log[k][Dropped(k) + i]
    /\ \A i \in 1 .. Dropped(k) : log[k][i] <= now - Period
    /\ \A i \in 1 .. Len(log[k]) - MaxCalls : log[k][i + MaxCalls] - log[k][i] >= Period

Inv == TypeOK /\ \A k \in Keys : KeyInv(k)

-----------------------------------------------------------------------------
(* The while loop.                                                         *)

LEMMA StaleSplits ==
    ASSUME now \in Nat, NEW q \in Seq(Nat)
    PROVE  /\ Stale(q) \in 0 .. Len(q)
           /\ \A i \in 1 .. Stale(q) : q[i] <= now - Period
           /\ Stale(q) < Len(q) => q[Stale(q) + 1] > now - Period
<1> DEFINE c == now - Period
           T == {n \in Nat : n <= Len(q) /\ (n < Len(q) => q[n + 1] > c)}
           Splits(n) == /\ \A i \in 1 .. n : q[i] <= c
                        /\ n < Len(q) => q[n + 1] > c
<1>1. c \in Int /\ Len(q) \in Nat /\ \A i \in 1 .. Len(q) : q[i] \in Nat
    BY PeriodAssumption
<1>2. Len(q) \in T
    BY <1>1
<1>3. PICK m \in T : \A n \in T : m <= n
    BY <1>2, LeastNumber
<1>4. m \in 0 .. Len(q) /\ (m < Len(q) => q[m + 1] > c)
    BY <1>1, <1>3
<1>5. ASSUME NEW i \in 1 .. m PROVE q[i] <= c
    <2>1. i - 1 \in Nat /\ i - 1 < m /\ i \in 1 .. Len(q)
        BY <1>1, <1>4
    <2>2. i - 1 \notin T
        <3> HIDE DEF T
        <3> QED BY <1>3, <1>4, <2>1
    <2>3. ~(q[i] > c)
        <3>1. i - 1 < Len(q) /\ (i - 1) + 1 = i
            BY <1>1, <1>4, <2>1
        <3> QED BY <2>1, <2>2, <3>1
    <2> QED BY <1>1, <2>1, <2>3
<1>6. \E n \in 0 .. Len(q) : Splits(n)
    BY <1>4, <1>5
<1>7. Stale(q) = CHOOSE n \in 0 .. Len(q) : Splits(n)
    BY DEF Stale
<1> HIDE DEF Splits
<1>8. Stale(q) \in 0 .. Len(q) /\ Splits(Stale(q))
    BY <1>6, <1>7
<1> QED BY <1>8 DEF Splits

(* What is left of a key's deque.                                          *)
Left(k) == SubSeq(hits[k], Stale(hits[k]) + 1, Len(hits[k]))

Gone(k) == Len(log[k]) - Len(Left(k))

(* What is left is the end of the history, and exactly its recent part.    *)
LEMMA LeftIsRecent ==
    ASSUME Inv, NEW k \in Keys
    PROVE  /\ Left(k) \in Seq(Nat)
           /\ Len(Left(k)) \in Nat
           /\ Gone(k) \in 0 .. Len(log[k])
           /\ \A i \in 1 .. Len(Left(k)) : Left(k)[i] = log[k][Gone(k) + i]
           /\ \A i \in 1 .. Gone(k) : log[k][i] <= now - Period
           /\ \A i \in Gone(k) + 1 .. Len(log[k]) : log[k][i] > now - Period
<1> DEFINE q == hits[k]
           n == Stale(q)
           l == log[k]
           d == Dropped(k)
<1>1. /\ q \in Seq(Nat) /\ l \in Seq(Nat) /\ now \in Nat /\ Period \in Nat
      /\ Len(q) \in Nat /\ Len(l) \in Nat
    BY PeriodAssumption DEF Inv, TypeOK
<1>2. /\ n \in 0 .. Len(q)
      /\ \A i \in 1 .. n : q[i] <= now - Period
      /\ n < Len(q) => q[n + 1] > now - Period
    BY <1>1, StaleSplits
<1>3. /\ d = Len(l) - Len(q) /\ d \in Nat
      /\ \A i \in 1 .. Len(q) : q[i] = l[d + i]
      /\ \A i \in 1 .. d : l[i] <= now - Period
      /\ \A i, j \in 1 .. Len(l) : i <= j => l[i] <= l[j]
    <2>1. d = Len(l) - Len(q)
        BY DEF Dropped
    <2>2. d >= 0
        BY DEF Inv, KeyInv
    <2>3. d \in Nat
        BY <1>1, <2>1, <2>2
    <2> QED BY <2>1, <2>3 DEF Inv, KeyInv
<1>4. Left(k) = SubSeq(q, n + 1, Len(q))
    BY DEF Left
<1> HIDE DEF n, q, l, d
<1>5. /\ Left(k) \in Seq(Nat) /\ Len(Left(k)) = Len(q) - n
      /\ \A i \in 1 .. Len(q) - n : Left(k)[i] = q[n + i]
    <2>1. n \in Nat /\ n <= Len(q) /\ n + 1 \in Int /\ Len(q) \in Int
        BY <1>1, <1>2
    <2>2. \A i \in n + 1 .. Len(q) : q[i] \in Nat
        BY <1>1, <2>1
    <2> DEFINE m == n + 1
               s == SubSeq(q, m, Len(q))
    <2> HIDE DEF m
    <2>3. /\ s \in Seq(Nat)
          /\ Len(s) = IF m <= Len(q) THEN Len(q) - m + 1 ELSE 0
          /\ \A i \in 1 .. Len(q) - m + 1 : s[i] = q[m + i - 1]
        BY <2>1, <2>2, SubSeqProperties DEF m
    <2> HIDE DEF s
    <2>4. Left(k) = s
        BY <1>4 DEF s, m
    <2>5. /\ Len(q) - m + 1 = Len(q) - n
          /\ m <= Len(q) \/ Len(q) - n = 0
          /\ \A i \in 1 .. Len(q) - n : m + i - 1 = n + i
        BY <2>1 DEF m
    <2>6. Len(s) = Len(q) - n
        BY <2>1, <2>3, <2>5
    <2>7. ASSUME NEW i \in 1 .. Len(q) - n PROVE s[i] = q[n + i]
        <3>1. i \in 1 .. Len(q) - m + 1 /\ m + i - 1 = n + i
            BY <2>5
        <3>2. s[i] = q[m + i - 1]
            BY <2>3, <3>1
        <3> QED BY <3>1, <3>2
    <2> QED BY <2>3, <2>4, <2>6, <2>7
<1>6. Gone(k) = d + n
    BY <1>1, <1>2, <1>3, <1>5 DEF Gone, l
<1>7. Gone(k) \in 0 .. Len(l)
    BY <1>1, <1>2, <1>3, <1>6
<1>8. ASSUME NEW i \in 1 .. Len(Left(k)) PROVE Left(k)[i] = l[Gone(k) + i]
    <2>1. n \in Nat /\ n <= Len(q) /\ d \in Nat /\ Len(q) \in Nat
        BY <1>1, <1>2, <1>3
    <2>2. i \in 1 .. Len(q) - n
        BY <1>5
    <2>3. n + i \in 1 .. Len(q) /\ d + (n + i) = Gone(k) + i
        BY <1>6, <2>1, <2>2
    <2>4. q[n + i] = l[d + (n + i)]
        BY <1>3, <2>3
    <2> QED BY <1>5, <2>2, <2>3, <2>4
<1>9. ASSUME NEW i \in 1 .. Gone(k) PROVE l[i] <= now - Period
    <2>1. CASE i <= d
        BY <1>3, <2>1
    <2>2. CASE i > d
        <3>1. i - d \in 1 .. n /\ i - d \in 1 .. Len(q) /\ d + (i - d) = i
            <4>1. i \in Int /\ i <= d + n
                BY <1>6, <1>7
            <4>2. n \in Nat /\ n <= Len(q) /\ d \in Nat /\ Len(q) \in Nat
                BY <1>1, <1>2, <1>3
            <4> QED BY <2>2, <4>1, <4>2
        <3>2. q[i - d] <= now - Period
            BY <1>2, <3>1
        <3>3. q[i - d] = l[i]
            BY <1>3, <3>1
        <3> QED BY <3>2, <3>3
    <2> QED BY <1>3, <1>6, <1>7, <2>1, <2>2
<1>10. ASSUME NEW i \in Gone(k) + 1 .. Len(l) PROVE l[i] > now - Period
    <2>1. n < Len(q) /\ n + 1 \in 1 .. Len(q) /\ d + (n + 1) = Gone(k) + 1
        BY <1>1, <1>2, <1>3, <1>6
    <2>2. l[Gone(k) + 1] > now - Period
        <3>1. q[n + 1] > now - Period
            BY <1>2, <2>1
        <3>2. q[n + 1] = l[d + (n + 1)]
            BY <1>3, <2>1
        <3> QED BY <2>1, <3>1, <3>2
    <2>3. Gone(k) + 1 \in 1 .. Len(l) /\ i \in 1 .. Len(l) /\ Gone(k) + 1 <= i
        BY <1>1, <1>7
    <2>4. l[Gone(k) + 1] <= l[i] /\ l[Gone(k) + 1] \in Nat /\ l[i] \in Nat
        BY <1>1, <1>3, <2>3
    <2> QED BY <1>1, <2>2, <2>4
<1>11. Len(Left(k)) \in Nat
    BY <1>1, <1>2, <1>5
<1> QED BY <1>5, <1>7, <1>8, <1>9, <1>10, <1>11 DEF l

-----------------------------------------------------------------------------
LEMMA InitInv == Init => Inv
<1> SUFFICES ASSUME Init PROVE Inv
    OBVIOUS
<1>1. TypeOK
    BY DEF Init, TypeOK, Nothing
<1>2. ASSUME NEW k \in Keys PROVE KeyInv(k)
    <2>1. hits[k] = << >> /\ log[k] = << >>
        BY DEF Init, Nothing
    <2> QED BY <2>1, MaxCallsAssumption DEF KeyInv, Dropped
<1> QED BY <1>1, <1>2 DEF Inv

LEMMA OtherKey ==
    ASSUME NEW k \in Keys, KeyInv(k), hits'[k] = hits[k], log'[k] = log[k], now' = now
    PROVE  KeyInv(k)'
<1>1. Dropped(k)' = Dropped(k)
    BY DEF Dropped
<1> QED BY <1>1 DEF KeyInv

(* The admission of a call, or its refusal.                                *)
LEMMA AllowInv ==
    ASSUME Inv, NEW k \in Keys, allow(k)
    PROVE  Inv'
<1> DEFINE q == Left(k)
           l == log[k]
           n == Len(l)
           g == Gone(k)
           ok == Len(q) < MaxCalls
<1>1. /\ hits' = [hits EXCEPT ![k] = IF ok THEN Append(q, now) ELSE q]
      /\ log' = IF ok THEN [log EXCEPT ![k] = Append(@, now)] ELSE log
      /\ answer' = [at |-> now, ok |-> ok]
      /\ now' = now
    BY DEF allow, Left
<1>2. /\ hits \in [Keys -> Seq(Nat)] /\ log \in [Keys -> Seq(Nat)]
      /\ now \in Nat /\ Period \in Nat \ {0} /\ MaxCalls \in Nat \ {0}
      /\ l \in Seq(Nat) /\ n \in Nat
    BY PeriodAssumption, MaxCallsAssumption DEF Inv, TypeOK
<1>3. /\ q \in Seq(Nat) /\ Len(q) \in Nat /\ g \in 0 .. n /\ g = n - Len(q)
      /\ \A i \in 1 .. Len(q) : q[i] = l[g + i]
      /\ \A i \in 1 .. g : l[i] <= now - Period
    BY LeftIsRecent DEF Gone
<1>4. /\ \A i \in 1 .. n : l[i] <= now
      /\ \A i, j \in 1 .. n : i <= j => l[i] <= l[j]
      /\ \A i \in 1 .. n - MaxCalls : l[i + MaxCalls] - l[i] >= Period
    BY DEF Inv, KeyInv
<1>5. \A o \in Keys \ {k} : hits'[o] = hits[o] /\ log'[o] = log[o]
    BY <1>1, <1>2
<1>6. hits'[k] = (IF ok THEN Append(q, now) ELSE q)
    BY <1>1, <1>2
<1>7. log'[k] = (IF ok THEN Append(l, now) ELSE l)
    BY <1>1, <1>2
<1> HIDE DEF q, g
<1>8. TypeOK'
    BY <1>1, <1>2, <1>3 DEF TypeOK
<1> HIDE DEF l, n
<1>9. CASE ~ok
    <2>1. hits'[k] = q /\ log'[k] = l
        BY <1>6, <1>7, <1>9
    <2>2. KeyInv(k)'
        <3>1. Dropped(k)' = g
            BY <1>3, <2>1 DEF Dropped, l, n
        <3>2. n = Len(l) /\ Len(hits'[k]) = Len(q) /\ g >= 0
            BY <1>2, <1>3, <2>1 DEF n
        <3> QED BY <1>1, <1>3, <1>4, <2>1, <3>1, <3>2 DEF KeyInv
    <2>3. \A o \in Keys \ {k} : KeyInv(o)'
        BY <1>1, <1>5, OtherKey DEF Inv
    <2> QED BY <1>8, <2>2, <2>3 DEF Inv
<1>10. CASE ok
    <2> DEFINE h == Append(q, now)
               m == Append(l, now)
    <2>1. hits'[k] = h /\ log'[k] = m
        BY <1>6, <1>7, <1>10
    <2>2. /\ Len(m) = n + 1 /\ m[n + 1] = now
          /\ \A i \in 1 .. n : m[i] = l[i] /\ l[i] \in Nat
        BY <1>2 DEF n
    <2>3. /\ Len(h) = Len(q) + 1 /\ h[Len(q) + 1] = now
          /\ \A i \in 1 .. Len(q) : h[i] = q[i]
        BY <1>2, <1>3
    <2> HIDE DEF h, m
    <2>4. ASSUME NEW i \in 1 .. n + 1 PROVE m[i] <= now /\ m[i] \in Nat
        <3>1. CASE i = n + 1
            BY <1>2, <2>2, <3>1
        <3>2. CASE i # n + 1
            <4>1. i \in 1 .. n
                BY <1>2, <3>2
            <4> QED BY <1>4, <2>2, <4>1
        <3> QED BY <3>1, <3>2
    <2>5. ASSUME NEW i \in 1 .. n + 1, NEW j \in 1 .. n + 1, i <= j
          PROVE  m[i] <= m[j]
        <3>1. CASE j = n + 1
            BY <2>2, <2>4, <3>1
        <3>2. CASE j # n + 1
            <4>1. i \in 1 .. n /\ j \in 1 .. n
                BY <1>2, <2>5, <3>2
            <4> QED BY <1>4, <2>2, <2>5, <4>1
        <3> QED BY <3>1, <3>2
    <2>6. ASSUME NEW i \in 1 .. Len(q) + 1 PROVE h[i] = m[g + i]
        <3>1. CASE i = Len(q) + 1
            BY <1>2, <1>3, <2>2, <2>3, <3>1
        <3>2. CASE i # Len(q) + 1
            <4>1. i \in 1 .. Len(q) /\ g + i \in 1 .. n
                BY <1>2, <1>3, <3>2
            <4> QED BY <1>3, <2>2, <2>3, <4>1
        <3> QED BY <3>1, <3>2
    <2>7. \A i \in 1 .. g : m[i] <= now - Period
        <3>1. \A i \in 1 .. g : i \in 1 .. n
            BY <1>2, <1>3
        <3> QED BY <1>3, <2>2, <3>1
    <2>8. ASSUME NEW i \in 1 .. n + 1 - MaxCalls
          PROVE  m[i + MaxCalls] - m[i] >= Period
        <3>1. CASE i = n + 1 - MaxCalls
            <4>1. i \in 1 .. g /\ i + MaxCalls = n + 1 /\ i \in 1 .. n
                BY <1>2, <1>3, <1>10, <3>1
            <4>2. m[i] <= now - Period /\ m[i] \in Nat /\ m[i + MaxCalls] = now
                BY <2>2, <2>7, <4>1
            <4> QED BY <1>2, <4>2
        <3>2. CASE i # n + 1 - MaxCalls
            <4>1. i \in 1 .. n - MaxCalls /\ i \in 1 .. n /\ i + MaxCalls \in 1 .. n
                BY <1>2, <3>2
            <4> QED BY <1>4, <2>2, <4>1
        <3> QED BY <3>1, <3>2
    <2>9. KeyInv(k)'
        <3>1. Dropped(k)' = g
            BY <1>2, <1>3, <2>1, <2>2, <2>3 DEF Dropped
        <3>2. g >= 0
            BY <1>2, <1>3
        <3>3. Len(m) = n + 1 /\ Len(h) = Len(q) + 1
            BY <2>2, <2>3
        <3>4. /\ \A i \in 1 .. n + 1 : m[i] <= now
              /\ \A i, j \in 1 .. n + 1 : i <= j => m[i] <= m[j]
              /\ \A i \in 1 .. Len(q) + 1 : h[i] = m[g + i]
              /\ \A i \in 1 .. n + 1 - MaxCalls : m[i + MaxCalls] - m[i] >= Period
            BY <2>4, <2>5, <2>6, <2>8
        <3>5. now' = now
            BY <1>1
        <3>6. /\ \A i \in 1 .. Len(log'[k]) : log'[k][i] <= now
              /\ \A i, j \in 1 .. Len(log'[k]) : i <= j => log'[k][i] <= log'[k][j]
            BY <2>1, <3>3, <3>4
        <3>7. \A i \in 1 .. Len(hits'[k]) : hits'[k][i] = log'[k][g + i]
            BY <2>1, <3>3, <3>4
        <3>8. \A i \in 1 .. Len(log'[k]) - MaxCalls : log'[k][i + MaxCalls] - log'[k][i] >= Period
            BY <1>2, <2>1, <3>3, <3>4
        <3>9. \A i \in 1 .. g : log'[k][i] <= now - Period
            BY <2>1, <2>7
        <3> QED BY <3>1, <3>2, <3>5, <3>6, <3>7, <3>8, <3>9 DEF KeyInv
    <2>10. \A o \in Keys \ {k} : KeyInv(o)'
        BY <1>1, <1>5, OtherKey DEF Inv
    <2> QED BY <1>8, <2>9, <2>10 DEF Inv
<1> QED BY <1>9, <1>10

LEMMA NextInv == Inv /\ [Next]_vars => Inv'
<1> SUFFICES ASSUME Inv, [Next]_vars PROVE Inv'
    OBVIOUS
<1>1. CASE Tick
    <2>1. now \in Nat /\ now' = now + 1 /\ UNCHANGED <<hits, log, answer>>
        BY <1>1 DEF Tick, Inv, TypeOK
    <2>2. TypeOK'
        BY <2>1 DEF Inv, TypeOK
    <2>3. ASSUME NEW k \in Keys PROVE KeyInv(k)'
        <3>1. Len(log[k]) \in Nat /\ Len(hits[k]) \in Nat /\ \A i \in 1 .. Len(log[k]) : log[k][i] \in Nat
            BY DEF Inv, TypeOK
        <3>2. Dropped(k)' = Dropped(k) /\ Dropped(k) \in Int /\ \A i \in 1 .. Dropped(k) : i \in 1 .. Len(log[k])
            BY <2>1, <3>1 DEF Dropped
        <3>3. \A i \in 1 .. Dropped(k) : log[k][i] <= now' - Period
            BY <2>1, <3>1, <3>2, PeriodAssumption DEF Inv, KeyInv
        <3>4. \A i \in 1 .. Len(log[k]) : log[k][i] <= now'
            BY <2>1, <3>1 DEF Inv, KeyInv
        <3> QED BY <2>1, <3>2, <3>3, <3>4 DEF Inv, KeyInv
    <2> QED BY <2>2, <2>3 DEF Inv
<1>2. CASE Restart
    <2>1. TypeOK'
        BY <1>2 DEF Restart, Inv, TypeOK, Nothing
    <2>2. ASSUME NEW k \in Keys PROVE KeyInv(k)'
        <3>1. hits'[k] = << >> /\ log'[k] = << >>
            BY <1>2 DEF Restart, Nothing
        <3> QED BY <3>1, MaxCallsAssumption DEF KeyInv, Dropped
    <2> QED BY <2>1, <2>2 DEF Inv
<1>3. ASSUME NEW k \in Keys, allow(k) PROVE Inv'
    BY <1>3, AllowInv
<1>4. CASE UNCHANGED vars
    BY <1>4 DEF vars, Inv, TypeOK, KeyInv, Dropped
<1> QED BY <1>1, <1>2, <1>3, <1>4 DEF Next

LEMMA AlwaysInv == Spec => []Inv
<1> QED BY InitInv, NextInv, PTL DEF Spec

-----------------------------------------------------------------------------
(* The types of the variables.                                             *)
THEOREM TypeCorrect == Spec => []TypeOK
<1>1. Inv => TypeOK
    BY DEF Inv
<1> QED BY <1>1, AlwaysInv, PTL

(* No window of length Period, wherever it starts, admits more than        *)
(* MaxCalls calls of a key (core/ratelimit.py:16-25).                      *)
THEOREM WindowAlwaysHolds == Spec => []WindowHolds
<1>1. Inv => WindowHolds
    BY DEF Inv, KeyInv, WindowHolds
<1> QED BY <1>1, AlwaysInv, PTL

LEMMA AllowIsCall ==
    ASSUME Inv, NEW k \in Keys, allow(k)
    PROVE  Window!Call(k)
<1>1. /\ log[k] \in Seq(Nat) /\ Len(log[k]) \in Nat /\ Len(Left(k)) \in Nat
      /\ Gone(k) \in 0 .. Len(log[k]) /\ Gone(k) = Len(log[k]) - Len(Left(k))
    BY LeftIsRecent DEF Inv, TypeOK, Gone
<1>2. Window!Recent(k) = Gone(k) + 1 .. Len(log[k])
    <2>1. DOMAIN log[k] = 1 .. Len(log[k])
        BY <1>1
    <2>2. ASSUME NEW i \in 1 .. Len(log[k])
          PROVE  log[k][i] > now - Period <=> i \in Gone(k) + 1 .. Len(log[k])
        <3>1. CASE i \in 1 .. Gone(k)
            <4>1. log[k][i] <= now - Period
                BY <3>1, LeftIsRecent
            <4>2. log[k][i] \in Int /\ now - Period \in Int
                BY <1>1, PeriodAssumption DEF Inv, TypeOK
            <4>3. ~(log[k][i] > now - Period)
                BY <4>1, <4>2
            <4>4. i \notin Gone(k) + 1 .. Len(log[k])
                BY <1>1, <3>1
            <4> QED BY <4>3, <4>4
        <3>2. CASE i \notin 1 .. Gone(k)
            <4>1. i \in Gone(k) + 1 .. Len(log[k])
                BY <1>1, <3>2
            <4> QED BY <4>1, LeftIsRecent
        <3> QED BY <3>1, <3>2
    <2>3. Gone(k) + 1 .. Len(log[k]) \subseteq 1 .. Len(log[k])
        BY <1>1
    <2> QED BY <2>1, <2>2, <2>3 DEF Window!Recent
<1>3. Cardinality(Gone(k) + 1 .. Len(log[k])) = Len(Left(k))
    <2>1. Gone(k) + 1 \in Int /\ Len(log[k]) \in Int
        BY <1>1
    <2>2. Cardinality(Gone(k) + 1 .. Len(log[k])) =
              IF Gone(k) + 1 > Len(log[k]) THEN 0 ELSE Len(log[k]) - (Gone(k) + 1) + 1
        BY <2>1, FS_Interval
    <2> QED BY <1>1, <2>2
<1>4. Window!Cardinality(Window!Recent(k)) = Len(Left(k))
    BY <1>2, <1>3 DEF Cardinality, Window!Cardinality
<1> QED BY <1>4 DEF allow, Left, Window!Call

(* The deque answers as one who remembers every admission: no call is      *)
(* refused that the window has room for (core/ratelimit.py:16-25).         *)
THEOREM DequeIsWindow == Spec => ImplementsSlidingWindow
<1>1. Init => Window!Init
    BY DEF Init, Nothing, Window!Init
<1>2. Inv /\ [Next]_vars => [Window!Next]_<<now, log, answer>>
    <2> SUFFICES ASSUME Inv, [Next]_vars PROVE [Window!Next]_<<now, log, answer>>
        OBVIOUS
    <2>1. CASE Tick
        BY <2>1 DEF Tick, Window!Next, Window!Tick
    <2>2. CASE Restart
        BY <2>2 DEF Restart, Nothing, Window!Next, Window!Forget
    <2>3. ASSUME NEW k \in Keys, allow(k) PROVE Window!Next
        BY <2>3, AllowIsCall DEF Window!Next
    <2>4. CASE UNCHANGED vars
        BY <2>4 DEF vars
    <2> QED BY <2>1, <2>2, <2>3, <2>4 DEF Next
<1> QED BY <1>1, <1>2, AlwaysInv, PTL DEF Spec, Window!Spec, ImplementsSlidingWindow
=============================================================================
