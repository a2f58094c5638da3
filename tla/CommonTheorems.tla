--------------------------- MODULE CommonTheorems ---------------------------
(***************************************************************************)
(* Lemmas that several components need: least numbers and smallest sets,   *)
(* sums over a finite set, and row locks, for any sessions and any rows.   *)
(***************************************************************************)
EXTENDS RowLocks, FiniteSetsExt, FiniteSetTheorems, WellFoundedInduction, TLAPS

LEMMA LeastNumber ==
    ASSUME NEW T \in SUBSET Nat, T # {}
    PROVE  \E m \in T : \A n \in T : m <= n
<1> DEFINE R == OpToRel(<, Nat)
<1>1. IsWellFoundedOn(R, Nat)
    BY NatLessThanWellFounded
<1>2. \A m, n \in Nat : <<m, n>> \in R <=> m < n
    BY DEF OpToRel
<1> HIDE DEF R
<1>3. PICK m \in T : \A n \in T : ~ (<<n, m>> \in R)
    BY <1>1, WFMin
<1>4. ASSUME NEW n \in T PROVE m <= n
    <2>1. m \in Nat /\ n \in Nat
        OBVIOUS
    <2>2. ~(n < m)
        BY <1>2, <1>3, <2>1
    <2> QED BY <2>1, <2>2
<1> QED BY <1>4

-----------------------------------------------------------------------------
(* Sums.                                                                   *)

Some(s) == CHOOSE x \in s : TRUE

(* g is the sum of the weights w over every set of D, taken out one by one *)
(* in the order of Some.                                                   *)
SumsOn(g, w, D) ==
    g = [s \in D |-> IF s = {} THEN 0 ELSE w[Some(s)] + g[s \ {Some(s)}]]

LEMMA SmallestSet ==
    ASSUME NEW S, IsFiniteSet(S), NEW T \in SUBSET SUBSET S, T # {}
    PROVE  \E s \in T : \A x \in s : s \ {x} \notin T
<1>1. IsWellFoundedOn(StrictSubsetOrdering(S), SUBSET S)
    BY FS_StrictSubsetOrderingWellFounded, FS_FiniteSubsetsOfFinite
<1>2. PICK s \in T : \A r \in T : ~ (<<r, s>> \in StrictSubsetOrdering(S))
    BY <1>1, WFMin
<1>3. ASSUME NEW x \in s, s \ {x} \in T PROVE FALSE
    <2>1. <<s \ {x}, s>> \in StrictSubsetOrdering(S)
        BY DEF StrictSubsetOrdering
    <2> QED BY <1>2, <1>3, <2>1
<1> QED BY <1>3

LEMMA SomeIn == \A s : s # {} => Some(s) \in s
    BY DEF Some

LEMMA SumsExist ==
    ASSUME NEW S, IsFiniteSet(S), NEW w
    PROVE  \E g : SumsOn(g, w, SUBSET S)
<1> DEFINE D(n) == {s \in SUBSET S : Cardinality(s) <= n}
           Bad == {n \in Nat : ~ \E g : SumsOn(g, w, D(n))}
<1>1. \A s \in SUBSET S : IsFiniteSet(s) /\ Cardinality(s) \in Nat
    BY FS_Subset, FS_CardinalityType
<1>2. CASE Bad = {}
    <2>1. PICK g : SumsOn(g, w, D(Cardinality(S)))
        BY <1>1, <1>2
    <2>2. D(Cardinality(S)) = SUBSET S
        BY FS_Subset
    <2> QED BY <2>1, <2>2
<1>3. CASE Bad # {}
    <2>1. PICK m \in Bad : \A n \in Bad : m <= n
        BY <1>3, LeastNumber
    <2>2. m \in Nat /\ ~ \E g : SumsOn(g, w, D(m))
        OBVIOUS
    <2>3. m # 0
        <3> DEFINE g == [s \in D(0) |-> 0]
        <3>1. D(0) = {{}}
            <4>1. \A s \in SUBSET S : Cardinality(s) <= 0 <=> s = {}
                BY <1>1, FS_EmptySet
            <4> QED BY <4>1
        <3>2. SumsOn(g, w, D(0))
            <4>1. \A s \in D(0) : s = {}
                BY <3>1
            <4> HIDE DEF D
            <4> QED BY <4>1 DEF SumsOn
        <3> HIDE DEF g, D
        <3> QED BY <2>2, <3>2
    <2>4. m - 1 \in Nat /\ m - 1 \notin Bad
        <3>1. m - 1 \in Nat /\ ~(m <= m - 1)
            BY <2>2, <2>3
        <3> HIDE DEF Bad
        <3> QED BY <2>1, <3>1
    <2>5. PICK f : SumsOn(f, w, D(m - 1))
        <3> HIDE DEF D
        <3> QED BY <2>4
    <2> DEFINE g == [s \in D(m) |-> IF s = {} THEN 0 ELSE w[Some(s)] + f[s \ {Some(s)}]]
    <2>6. ASSUME NEW s \in D(m), s # {} PROVE s \ {Some(s)} \in D(m - 1) /\ s \ {Some(s)} \in D(m)
        <3>1. Some(s) \in s /\ IsFiniteSet(s)
            BY <1>1, <2>6, SomeIn
        <3>2. Cardinality(s \ {Some(s)}) = Cardinality(s) - 1
            BY <3>1, FS_RemoveElement
        <3>3. Cardinality(s) \in Nat /\ Cardinality(s) <= m
            BY <1>1
        <3> QED BY <2>2, <3>1, <3>2, <3>3
    <2>7. ASSUME NEW s \in D(m - 1) PROVE s \in D(m) /\ g[s] = f[s]
        <3>1. s \in D(m)
            BY <1>1, <2>2
        <3>2. g[s] = IF s = {} THEN 0 ELSE w[Some(s)] + f[s \ {Some(s)}]
            <4> HIDE DEF D
            <4> QED BY <3>1
        <3>3. f[s] = IF s = {} THEN 0 ELSE w[Some(s)] + f[s \ {Some(s)}]
            <4> HIDE DEF D
            <4> QED BY <2>5 DEF SumsOn
        <3> HIDE DEF D, g
        <3> QED BY <3>1, <3>2, <3>3
    <2>8. ASSUME NEW s \in D(m), s # {} PROVE g[s \ {Some(s)}] = f[s \ {Some(s)}]
        <3> HIDE DEF D, g
        <3> QED BY <2>6, <2>7, <2>8
    <2>9. g = [s \in D(m) |-> IF s = {} THEN 0 ELSE w[Some(s)] + g[s \ {Some(s)}]]
        <3> DEFINE h == [s \in D(m) |-> IF s = {} THEN 0 ELSE w[Some(s)] + g[s \ {Some(s)}]]
        <3>1. ASSUME NEW s \in D(m) PROVE g[s] = h[s]
            <4>1. h[s] = IF s = {} THEN 0 ELSE w[Some(s)] + g[s \ {Some(s)}]
                <5> HIDE DEF D, g
                <5> QED OBVIOUS
            <4>2. g[s] = IF s = {} THEN 0 ELSE w[Some(s)] + f[s \ {Some(s)}]
                <5> HIDE DEF D
                <5> QED OBVIOUS
            <4> HIDE DEF D, g, h
            <4> QED BY <2>8, <4>1, <4>2
        <3>2. g = [s \in D(m) |-> g[s]] /\ h = [s \in D(m) |-> h[s]]
            <4> HIDE DEF D
            <4> QED OBVIOUS
        <3> HIDE DEF D, g, h
        <3>3. g = h
            BY <3>1, <3>2
        <3> QED BY <3>3 DEF h
    <2>10. SumsOn(g, w, D(m))
        <3> HIDE DEF D, g
        <3> QED BY <2>9 DEF SumsOn
    <2> HIDE DEF D, g
    <2> QED BY <2>2, <2>10
<1> QED BY <1>2, <1>3

LEMMA SumEquation ==
    ASSUME NEW S, NEW w, NEW g, SumsOn(g, w, SUBSET S)
    PROVE  /\ g[{}] = 0
           /\ \A s \in SUBSET S : s # {} => g[s] = w[Some(s)] + g[s \ {Some(s)}]
BY DEF SumsOn

LEMMA SumTyped ==
    ASSUME NEW S, IsFiniteSet(S), NEW w, \A t \in S : w[t] \in Int,
           NEW g, SumsOn(g, w, SUBSET S)
    PROVE  \A s \in SUBSET S : g[s] \in Int
<1> DEFINE T == {s \in SUBSET S : g[s] \notin Int}
<1>0. g[{}] = 0
    BY SumEquation
<1>1. CASE T # {}
    <2>1. PICK s \in T : \A x \in s : s \ {x} \notin T
        BY <1>1, SmallestSet
    <2>2. s # {}
        <3>1. {} \notin T
            BY <1>0
        <3> HIDE DEF T
        <3> QED BY <3>1
    <2>3. Some(s) \in s /\ g[s] = w[Some(s)] + g[s \ {Some(s)}]
        BY <2>2, SumEquation, SomeIn
    <2>4. g[s \ {Some(s)}] \in Int /\ w[Some(s)] \in Int
        BY <2>1, <2>3
    <2>5. g[s] \in Int
        BY <2>3, <2>4
    <2> QED BY <2>5
<1> QED BY <1>1

(* Any member may be taken out first.                                      *)
LEMMA SumTake ==
    ASSUME NEW S, IsFiniteSet(S), NEW w, \A t \in S : w[t] \in Int,
           NEW g, SumsOn(g, w, SUBSET S)
    PROVE  \A s \in SUBSET S : \A x \in s : g[s] = w[x] + g[s \ {x}]
<1> DEFINE T == {s \in SUBSET S : \E x \in s : g[s] # w[x] + g[s \ {x}]}
<1>1. CASE T # {}
    <2>1. PICK s \in T : \A x \in s : s \ {x} \notin T
        BY <1>1, SmallestSet
    <2>2. PICK x \in s : g[s] # w[x] + g[s \ {x}]
        OBVIOUS
    <2> DEFINE y == Some(s)
    <2>3. s \in SUBSET S /\ y \in s /\ g[s] = w[y] + g[s \ {y}]
        BY <2>2, SumEquation, SomeIn
    <2> HIDE DEF y
    <2>4. x # y
        BY <2>2, <2>3
    <2>5. /\ g[s \ {y}] = w[x] + g[(s \ {y}) \ {x}]
          /\ g[s \ {x}] = w[y] + g[(s \ {x}) \ {y}]
        BY <2>1, <2>3, <2>4
    <2>6. (s \ {y}) \ {x} = (s \ {x}) \ {y}
        OBVIOUS
    <2>7. g[(s \ {x}) \ {y}] \in Int /\ w[x] \in Int /\ w[y] \in Int
        BY <2>3, SumTyped
    <2> DEFINE r == g[(s \ {x}) \ {y}]
    <2>8. g[s] = w[y] + (w[x] + r) /\ g[s \ {x}] = w[y] + r
        BY <2>3, <2>5, <2>6
    <2>9. r \in Int /\ w[x] \in Int /\ w[y] \in Int
        BY <2>7
    <2> HIDE DEF r, T
    <2>10. g[s] = w[x] + g[s \ {x}]
        BY <2>8, <2>9
    <2> QED BY <2>2, <2>10
<1> QED BY <1>1

LEMMA SumsAgree ==
    ASSUME NEW S, IsFiniteSet(S), NEW v, NEW w,
           NEW g, SumsOn(g, w, SUBSET S), NEW h, SumsOn(h, v, SUBSET S)
    PROVE  \A s \in SUBSET S : (\A x \in s : v[x] = w[x]) => h[s] = g[s]
<1> DEFINE T == {s \in SUBSET S : (\A x \in s : v[x] = w[x]) /\ h[s] # g[s]}
<1>0. g[{}] = 0 /\ h[{}] = 0
    BY SumEquation
<1>1. CASE T # {}
    <2>1. PICK s \in T : \A x \in s : s \ {x} \notin T
        BY <1>1, SmallestSet
    <2>2. s # {}
        <3>1. {} \notin T
            BY <1>0
        <3> HIDE DEF T
        <3> QED BY <3>1
    <2> DEFINE y == Some(s)
    <2>3. y \in s /\ g[s] = w[y] + g[s \ {y}] /\ h[s] = v[y] + h[s \ {y}]
        BY <2>2, SumEquation, SomeIn
    <2> HIDE DEF y
    <2>4. h[s \ {y}] = g[s \ {y}]
        BY <2>1, <2>3
    <2> QED BY <2>3, <2>4
<1> QED BY <1>1

(* The sum of the weights w over S, as the model's modules take it.        *)
Total(w, S) == MapThenSumSet(LAMBDA t : w[t], S)

LEMMA TotalSums ==
    ASSUME NEW S, IsFiniteSet(S), NEW w
    PROVE  \E g : SumsOn(g, w, SUBSET S) /\ Total(w, S) = g[S]
<1> DEFINE F == CHOOSE iter :
                  iter = [s \in SUBSET S |->
                            IF s = {} THEN 0 ELSE w[Some(s)] + iter[s \ {Some(s)}]]
<1>1. Total(w, S) = F[S]
    BY DEF Total, MapThenSumSet, MapThenFoldSet, Some
<1>2. \E iter : iter = [s \in SUBSET S |->
                          IF s = {} THEN 0 ELSE w[Some(s)] + iter[s \ {Some(s)}]]
    <2>1. PICK g : SumsOn(g, w, SUBSET S)
        BY SumsExist
    <2> QED BY <2>1 DEF SumsOn
<1>3. F = [s \in SUBSET S |-> IF s = {} THEN 0 ELSE w[Some(s)] + F[s \ {Some(s)}]]
    BY <1>2, Zenon
<1> HIDE DEF F
<1> QED BY <1>1, <1>3 DEF SumsOn

LEMMA TotalInt ==
    ASSUME NEW S, IsFiniteSet(S), NEW w, \A t \in S : w[t] \in Int
    PROVE  Total(w, S) \in Int
<1>1. PICK g : SumsOn(g, w, SUBSET S) /\ Total(w, S) = g[S]
    BY TotalSums
<1> QED BY <1>1, SumTyped

(* Weights that agree add up to the same.                                  *)
LEMMA TotalAgree ==
    ASSUME NEW S, IsFiniteSet(S), NEW v, NEW w, \A t \in S : v[t] = w[t]
    PROVE  Total(v, S) = Total(w, S)
<1>1. PICK g : SumsOn(g, w, SUBSET S) /\ Total(w, S) = g[S]
    BY TotalSums
<1>2. PICK h : SumsOn(h, v, SUBSET S) /\ Total(v, S) = h[S]
    BY TotalSums
<1> QED BY <1>1, <1>2, SumsAgree

(* One weight changes: so does the total, by the difference.               *)
LEMMA TotalChange ==
    ASSUME NEW S, IsFiniteSet(S), NEW v, NEW w, NEW x \in S,
           \A t \in S : v[t] \in Int /\ w[t] \in Int,
           \A t \in S \ {x} : v[t] = w[t]
    PROVE  Total(v, S) = Total(w, S) + (v[x] - w[x])
<1>1. PICK g : SumsOn(g, w, SUBSET S) /\ Total(w, S) = g[S]
    BY TotalSums
<1>2. PICK h : SumsOn(h, v, SUBSET S) /\ Total(v, S) = h[S]
    BY TotalSums
<1>3. g[S] = w[x] + g[S \ {x}] /\ h[S] = v[x] + h[S \ {x}]
    BY <1>1, <1>2, SumTake
<1>4. h[S \ {x}] = g[S \ {x}] /\ g[S \ {x}] \in Int
    BY <1>1, <1>2, SumsAgree, SumTyped
<1> QED BY <1>1, <1>2, <1>3, <1>4

LEMMA TotalZero ==
    ASSUME NEW S, IsFiniteSet(S), NEW w, \A t \in S : w[t] = 0
    PROVE  Total(w, S) = 0
<1>1. PICK g : SumsOn(g, w, SUBSET S) /\ Total(w, S) = g[S]
    BY TotalSums
<1> DEFINE T == {s \in SUBSET S : g[s] # 0}
<1>2. CASE T # {}
    <2>1. PICK s \in T : \A x \in s : s \ {x} \notin T
        BY <1>2, SmallestSet
    <2>2. s # {}
        BY <1>1, SumEquation
    <2>3. Some(s) \in s /\ g[s] = w[Some(s)] + g[s \ {Some(s)}]
        BY <1>1, <2>2, SumEquation, SomeIn
    <2>4. g[s \ {Some(s)}] = 0
        BY <2>1, <2>3
    <2> QED BY <2>3, <2>4
<1> QED BY <1>1, <1>2

-----------------------------------------------------------------------------
(* Locks: granting what nobody blocks, and freeing, keep them compatible.  *)

LEMMA ConflictIsSymmetric == \A m, n : Conflict(m, n) = Conflict(n, m)
<1>1. \A m, n : {m, n} = {n, m}
    OBVIOUS
<1> QED BY <1>1 DEF Conflict

LEMMA GrantCompatible ==
    ASSUME NEW S, NEW L, NEW held \in [S -> SUBSET L], NEW wanted, NEW s \in S,
           Compatible(held), Blockers(held, wanted, s) = {}
    PROVE  Compatible([held EXCEPT ![s] = @ \cup wanted[s]])
<1> DEFINE new == [held EXCEPT ![s] = @ \cup wanted[s]]
<1>1. DOMAIN held = S /\ DOMAIN new = S
    OBVIOUS
<1>2. /\ new[s] = held[s] \cup wanted[s]
      /\ \A o \in S \ {s} : new[o] = held[o]
    OBVIOUS
<1> HIDE DEF new
<1>3. ASSUME NEW p \in S, NEW q \in S, p # q,
             NEW h \in new[p], NEW k \in new[q], h[1] = k[1]
      PROVE  ~Conflict(h[2], k[2])
    <2>1. ASSUME NEW o \in S, o # s, NEW w \in wanted[s], NEW l \in held[o], w[1] = l[1]
          PROVE  ~Conflict(w[2], l[2])
        BY <1>1, <2>1 DEF Blockers
    <2>2. CASE p = s /\ h \notin held[s]
        BY <1>2, <1>3, <2>1, <2>2
    <2>3. CASE q = s /\ k \notin held[s]
        BY <1>2, <1>3, <2>1, <2>3, ConflictIsSymmetric
    <2>4. CASE (p = s => h \in held[s]) /\ (q = s => k \in held[s])
        <3>1. h \in held[p] /\ k \in held[q]
            BY <1>2, <1>3, <2>4
        <3> QED BY <1>1, <1>3, <3>1 DEF Compatible
    <2> QED BY <2>2, <2>3, <2>4
<1>4. Compatible(new)
    BY <1>1, <1>3 DEF Compatible
<1> QED BY <1>4 DEF new

LEMMA FreeCompatible ==
    ASSUME NEW S, NEW L, NEW held \in [S -> SUBSET L], NEW s \in S, Compatible(held)
    PROVE  Compatible([held EXCEPT ![s] = {}])
<1> DEFINE new == [held EXCEPT ![s] = {}]
<1>1. DOMAIN new = S /\ new[s] = {} /\ \A o \in S \ {s} : new[o] = held[o]
    OBVIOUS
<1> HIDE DEF new
<1>2. Compatible(new)
    BY <1>1 DEF Compatible
<1> QED BY <1>2 DEF new
=============================================================================
