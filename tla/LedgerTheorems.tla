--------------------------- MODULE LedgerTheorems ---------------------------
(***************************************************************************)
(* What holds of the ledger for any accounts, sessions, bodies and         *)
(* amounts.  First the books of SerialLedger: the arithmetic of cents, the *)
(* sum over the stored rows, and what each handler does to both.  Then     *)
(* Ledger: its inductive invariant, that its commits are serial steps, and *)
(* so what becomes of the books when requests overlap.                     *)
(***************************************************************************)
EXTENDS Ledger, CommonTheorems

(* Cents.                                                                  *)

(* A whole number of cents.                                                *)
Whole(n) == \E k \in Int : n = k * Sub

LEMMA NearestCent ==
    ASSUME NEW n \in Nat
    PROVE  \E q \in Nat : /\ (2 * n + Sub) \div (2 * Sub) = q
                          /\ 2 * (q * Sub) <= 2 * n + Sub
                          /\ 2 * n + Sub < 2 * (q * Sub) + 2 * Sub
<1>1. Sub \in Nat /\ Sub > 0
    BY SubAssumption
<1> DEFINE p == 2 * n + Sub
           d == 2 * Sub
           q == p \div d
<1>2. p \in Nat /\ d \in Nat /\ d > 0
    BY <1>1
<1> HIDE DEF p, d
<1>3. q \in Int /\ d * q <= p /\ p < d * q + d
    BY <1>2
<1>4. q \in Nat
    BY <1>2, <1>3
<1> HIDE DEF q
<1>5. d * q = 2 * (q * Sub)
    BY <1>1, <1>4 DEF d
<1> QED BY <1>3, <1>4, <1>5 DEF p, d, q

LEMMA FewMultiples ==
    ASSUME NEW k \in Int
    PROVE  /\ -Sub < k * Sub /\ k * Sub < Sub => k * Sub = 0
           /\ -(2 * Sub) < k * Sub /\ k * Sub < 2 * Sub => k * Sub \in {-Sub, 0, Sub}
<1>1. Sub \in Nat /\ Sub > 0
    BY SubAssumption
<1>2. CASE k >= 2
    <2>1. (k - 2) * Sub >= 0 /\ (k - 2) * Sub = k * Sub - 2 * Sub
        BY <1>1, <1>2
    <2> QED BY <1>1, <2>1
<1>3. CASE k <= -2
    <2>1. (-2 - k) * Sub >= 0 /\ (-2 - k) * Sub = -(2 * Sub) - k * Sub
        BY <1>1, <1>3
    <2> QED BY <1>1, <2>1
<1>4. CASE k \in {-1, 0, 1}
    BY <1>1, <1>4
<1> QED BY <1>2, <1>3, <1>4

LEMMA WholeSums ==
    ASSUME NEW m, NEW n, Whole(m), Whole(n)
    PROVE  /\ Whole(-m) /\ Whole(m + n) /\ Whole(m - n) /\ m \in Int
<1>1. Sub \in Nat
    BY SubAssumption
<1>2. PICK j \in Int : m = j * Sub
    BY DEF Whole
<1>3. PICK k \in Int : n = k * Sub
    BY DEF Whole
<1>4. -m = (-j) * Sub /\ m + n = (j + k) * Sub /\ m - n = (j - k) * Sub /\ m \in Int
    BY <1>1, <1>2, <1>3
<1> QED BY <1>4 DEF Whole

LEMMA WholeApart ==
    ASSUME NEW m, NEW n, Whole(m), Whole(n)
    PROVE  /\ -Sub < m - n /\ m - n < Sub => m = n
           /\ -(2 * Sub) < m - n /\ m - n < 2 * Sub => m - n \in {-Sub, 0, Sub}
<1>1. PICK k \in Int : m - n = k * Sub
    BY WholeSums DEF Whole
<1>2. m \in Int /\ n \in Int
    BY WholeSums
<1> QED BY <1>1, <1>2, FewMultiples

LEMMA NoMinusZero == ASSUME NEW n \in Int, n <= 0, n >= 0 PROVE -n = n
    OBVIOUS

(* The nearest whole number of cents.                                      *)
LEMMA CentsNear ==
    ASSUME NEW x \in Int
    PROVE  /\ Whole(Cents(x)) /\ Cents(x) \in Int
           /\ 2 * (Cents(x) - x) <= Sub /\ 2 * (x - Cents(x)) <= Sub
           /\ Cents(-x) = -Cents(x)
<1>1. Sub \in Nat /\ Sub > 0
    BY SubAssumption
<1>2. ASSUME NEW n \in Nat
      PROVE  /\ Whole(Cents(n)) /\ Cents(n) \in Int
             /\ 2 * (Cents(n) - n) <= Sub /\ 2 * (n - Cents(n)) <= Sub
             /\ Cents(-n) = -Cents(n)
    <2>1. PICK q \in Nat : /\ (2 * n + Sub) \div (2 * Sub) = q
                           /\ 2 * (q * Sub) <= 2 * n + Sub
                           /\ 2 * n + Sub < 2 * (q * Sub) + 2 * Sub
        BY NearestCent
    <2>2. Cents(n) = q * Sub
        BY <2>1 DEF Cents
    <2> DEFINE c == q * Sub
    <2>3. c \in Int /\ Whole(c)
        BY <1>1 DEF Whole
    <2>4. 2 * c <= 2 * n + Sub /\ 2 * n + Sub < 2 * c + 2 * Sub
        BY <2>1
    <2>5. CASE n <= 0
        <3>1. -n = n
            BY <2>5, NoMinusZero
        <3>2. c = 0
            <4>1. 2 * c <= Sub /\ Sub < 2 * c + 2 * Sub
                BY <2>4, <2>5, <1>1, <2>3
            <4>2. -Sub < c /\ c < Sub
                <5> HIDE DEF c
                <5> QED BY <1>1, <2>3, <4>1
            <4> QED BY <4>2, FewMultiples
        <3>3. Cents(-n) = -Cents(n)
            BY <2>2, <3>1, <3>2
        <3> HIDE DEF c
        <3> QED BY <1>1, <2>2, <2>3, <2>4, <3>3 DEF c
    <2>6. CASE n > 0
        <3>1. -(-n) = n /\ ~(-n >= 0)
            BY <2>6
        <3>2. Cents(-n) = -Cents(n)
            BY <3>1 DEF Cents
        <3> QED
            <4>1. Cents(n) = c
                BY <2>2
            <4> HIDE DEF c
            <4> QED BY <1>1, <2>3, <2>4, <3>2, <4>1
    <2> QED BY <2>5, <2>6
<1>3. CASE x >= 0
    BY <1>2, <1>3
<1>4. CASE x < 0
    <2>1. -x \in Nat /\ -(-x) = x
        BY <1>4
    <2> DEFINE n == -x
    <2>2. /\ Whole(Cents(n)) /\ Cents(n) \in Int
          /\ 2 * (Cents(n) - n) <= Sub /\ 2 * (n - Cents(n)) <= Sub
          /\ Cents(x) = -Cents(n)
        BY <1>2, <2>1
    <2>3. Whole(Cents(x)) /\ Cents(x) \in Int /\ Cents(n) = -Cents(x)
        BY <2>2, WholeSums
    <2>4. x = -n /\ n \in Int
        BY <2>1
    <2>5. 2 * (Cents(x) - x) <= Sub /\ 2 * (x - Cents(x)) <= Sub
        <3> HIDE DEF n
        <3> QED BY <1>1, <2>2, <2>4
    <2> QED BY <2>3, <2>5
<1> QED BY <1>3, <1>4

LEMMA CentsOfWhole ==
    ASSUME NEW n, Whole(n)
    PROVE  Cents(n) = n
<1>1. n \in Int /\ Sub \in Nat /\ Sub > 0
    BY WholeSums, SubAssumption
<1> DEFINE c == Cents(n)
<1>2. c \in Int /\ Whole(c) /\ 2 * (c - n) <= Sub /\ 2 * (n - c) <= Sub
    BY <1>1, CentsNear
<1> HIDE DEF c
<1>3. -Sub < c - n /\ c - n < Sub
    BY <1>1, <1>2
<1>4. c = n
    BY <1>2, <1>3, WholeApart
<1> QED BY <1>4 DEF c

(* Rounding the difference to a whole amount is rounding the amount, but   *)
(* for one cent.                                                           *)
LEMMA CentsOfDifference ==
    ASSUME NEW x \in Int, NEW m, Whole(m)
    PROVE  Cents(x - m) - (Cents(x) - m) \in {-Sub, 0, Sub}
<1>1. m \in Int /\ x - m \in Int /\ Sub \in Nat /\ Sub > 0
    <2>1. m \in Int
        BY WholeSums
    <2> QED BY <2>1, SubAssumption
<1> DEFINE c == Cents(x)
           e == Cents(x - m)
<1>2. /\ c \in Int /\ Whole(c) /\ 2 * (c - x) <= Sub /\ 2 * (x - c) <= Sub
      /\ e \in Int /\ Whole(e) /\ 2 * (e - (x - m)) <= Sub /\ 2 * ((x - m) - e) <= Sub
    BY <1>1, CentsNear
<1>3. Whole(c - m)
    BY <1>2, WholeSums
<1> HIDE DEF c, e
<1>4. -(2 * Sub) < e - (c - m) /\ e - (c - m) < 2 * Sub
    BY <1>1, <1>2
<1>5. e - (c - m) \in {-Sub, 0, Sub}
    BY <1>2, <1>3, <1>4, WholeApart
<1> QED BY <1>5 DEF c, e

-----------------------------------------------------------------------------
(* The books.                                                              *)

(* What a row contributes to account a.                                    *)
Part(r, a) == IF r = NoRow THEN 0 ELSE Effect(r, a)

Entries(rs, ks, a) == [t \in Txs |-> Part(rs[t], a) + Part(ks[t], a)]

LEMMA BookedIsTotalOf ==
    ASSUME NEW rs, NEW ks, NEW a
    PROVE  MapThenSumSet(LAMBDA t : Part(rs[t], a) + Part(ks[t], a), Txs)
             = Total(Entries(rs, ks, a), Txs)
<1> DEFINE w == Entries(rs, ks, a)
           F == CHOOSE iter :
                  iter = [s \in SUBSET Txs |->
                            IF s = {} THEN 0
                            ELSE (Part(rs[Some(s)], a) + Part(ks[Some(s)], a))
                                    + iter[s \ {Some(s)}]]
<1>1. MapThenSumSet(LAMBDA t : Part(rs[t], a) + Part(ks[t], a), Txs) = F[Txs]
    BY DEF MapThenSumSet, MapThenFoldSet, Some
<1>2. PICK g : SumsOn(g, w, SUBSET Txs)
    BY SumsExist, TxsAssumption
<1>3. ASSUME NEW s \in SUBSET Txs, s # {}
      PROVE  w[Some(s)] = Part(rs[Some(s)], a) + Part(ks[Some(s)], a)
    BY <1>3, SomeIn DEF Entries
<1> HIDE DEF w
<1>4. ASSUME NEW iter
      PROVE  [s \in SUBSET Txs |->
                IF s = {} THEN 0
                ELSE (Part(rs[Some(s)], a) + Part(ks[Some(s)], a)) + iter[s \ {Some(s)}]]
             = [s \in SUBSET Txs |-> IF s = {} THEN 0 ELSE w[Some(s)] + iter[s \ {Some(s)}]]
    BY <1>3
<1>5. F = [s \in SUBSET Txs |->
                IF s = {} THEN 0
                ELSE (Part(rs[Some(s)], a) + Part(ks[Some(s)], a)) + F[s \ {Some(s)}]]
    <2>1. g = [s \in SUBSET Txs |->
                IF s = {} THEN 0
                ELSE (Part(rs[Some(s)], a) + Part(ks[Some(s)], a)) + g[s \ {Some(s)}]]
        BY <1>2, <1>4 DEF SumsOn
    <2> QED BY <2>1, Zenon
<1> HIDE DEF F
<1>6. SumsOn(F, w, SUBSET Txs)
    BY <1>4, <1>5 DEF SumsOn
<1>7. PICK h : SumsOn(h, w, SUBSET Txs) /\ Total(w, Txs) = h[Txs]
    BY TotalSums, TxsAssumption
<1>8. F[Txs] = h[Txs]
    BY <1>6, <1>7, SumsAgree, TxsAssumption
<1> QED BY <1>1, <1>7, <1>8 DEF w

LEMMA BookedIsTotal ==
    ASSUME NEW a
    PROVE  /\ Booked(a) = Total(Entries(rows, kept, a), Txs)
           /\ Booked(a)' = Total(Entries(rows', kept', a), Txs)
<1>1. Booked(a) = MapThenSumSet(LAMBDA t : Part(rows[t], a) + Part(kept[t], a), Txs)
    BY DEF Booked, Part
<1>2. Booked(a)' = MapThenSumSet(LAMBDA t : Part(rows'[t], a) + Part(kept'[t], a), Txs)
    BY DEF Booked, Part, MapThenSumSet, MapThenFoldSet
<1> QED BY <1>1, <1>2, BookedIsTotalOf

-----------------------------------------------------------------------------
(* What a plan moves.                                                      *)

LEMMA PostedOne ==
    ASSUME NEW l, NEW a, Cents(l.by) \in Int
    PROVE  Posted(<<l>>, 2, a) = IF l.acc = a THEN Cents(l.by) ELSE 0
<1>1. Len(<<l>>) = 1 /\ <<l>>[1] = l
    OBVIOUS
<1> QED BY <1>1 DEF Posted

LEMMA PostedTwo ==
    ASSUME NEW l, NEW m, NEW a, Cents(l.by) \in Int, Cents(m.by) \in Int
    PROVE  Posted(<<l, m>>, 2, a) = (IF l.acc = a THEN Cents(l.by) ELSE 0)
                                  + (IF m.acc = a THEN Cents(m.by) ELSE 0)
<1>1. Len(<<l, m>>) = 2 /\ <<l, m>>[1] = l /\ <<l, m>>[2] = m
    OBVIOUS
<1> QED BY <1>1 DEF Posted

(* A row books an amount on an account not at all, once, or once negated,  *)
(* whatever the amount.                                                    *)
LEMMA RowsBook ==
    ASSUME NEW r \in Row, NEW a \in Accounts
    PROVE  \/ \A n \in Int : Posted(Deltas(r, n), 2, a) = 0
           \/ \A n \in Int : Posted(Deltas(r, n), 2, a) = Cents(n)
           \/ \A n \in Int : Posted(Deltas(r, n), 2, a) = -Cents(n)
<1> DEFINE from(n) == [acc |-> r.acc, by |-> n]
           less(n) == [acc |-> r.acc, by |-> -n]
           dest(n) == [acc |-> r.to, by |-> n]
<1>1. \A n \in Int : Cents(n) \in Int /\ Cents(-n) = -Cents(n)
    BY CentsNear
<1>2. CASE r.typ = "income"
    <2>1. \A n : Deltas(r, n) = <<from(n)>>
        BY <1>2 DEF Deltas
    <2>2. \A n \in Int : Posted(Deltas(r, n), 2, a) = IF r.acc = a THEN Cents(n) ELSE 0
        BY <1>1, <2>1, PostedOne
    <2> QED BY <2>2
<1>3. CASE r.typ = "expense" \/ (r.typ = "transfer" /\ r.to = None)
    <2>1. \A n : Deltas(r, n) = <<less(n)>>
        BY <1>3 DEF Deltas
    <2>2. \A n \in Int : Posted(Deltas(r, n), 2, a) = IF r.acc = a THEN -Cents(n) ELSE 0
        BY <1>1, <2>1, PostedOne
    <2> QED BY <2>2
<1>4. CASE r.typ = "transfer" /\ r.to # None
    <2>1. \A n : Deltas(r, n) = <<less(n), dest(n)>>
        BY <1>4 DEF Deltas
    <2>2. \A n \in Int : Posted(Deltas(r, n), 2, a) =
            (IF r.acc = a THEN -Cents(n) ELSE 0) + (IF r.to = a THEN Cents(n) ELSE 0)
        BY <1>1, <2>1, PostedTwo
    <2> QED BY <1>1, <2>2
<1>5. CASE r.typ = "other"
    <2>1. \A n : Deltas(r, n) = << >>
        BY <1>5 DEF Deltas
    <2> QED BY <2>1 DEF Posted
<1> QED BY <1>2, <1>3, <1>4, <1>5 DEF Row, Types

-----------------------------------------------------------------------------
(* The inductive invariant of the serial ledger's books: what accounts     *)
(* have been opened, a row is stored or has gone with its account and not  *)
(* both, and what is stored is whole cents.                                *)
BooksInv ==
    /\ TypeOK
    /\ ReferencesLive
    /\ \A a \in live : opening[a] \in Int
    /\ \A t \in Txs : rows[t] = NoRow \/ kept[t] = NoRow
    /\ \A t \in Txs : rows[t] # NoRow => Whole(rows[t].amt)
    /\ \A t \in Txs : kept[t] # NoRow =>
          /\ opening[kept[t].acc] \in Int
          /\ kept[t].to # None => opening[kept[t].to] \in Int

LEMMA PartInt ==
    ASSUME NEW r \in Row \cup {NoRow}, NEW a \in Accounts
    PROVE  Part(r, a) \in Int
<1>1. CASE r = NoRow
    BY <1>1 DEF Part
<1>2. CASE r # NoRow
    <2>1. r \in Row /\ r.amt \in Int /\ Cents(r.amt) \in Int
        BY <1>2, CentsNear DEF Row
    <2> QED BY <1>2, <2>1, RowsBook DEF Part, Effect
<1> QED BY <1>1, <1>2

LEMMA EntriesInt ==
    ASSUME NEW rs \in [Txs -> Row \cup {NoRow}], NEW ks \in [Txs -> Row \cup {NoRow}],
           NEW a \in Accounts
    PROVE  \A t \in Txs : /\ Entries(rs, ks, a)[t] \in Int
                          /\ Entries(rs, ks, a)[t] = Part(rs[t], a) + Part(ks[t], a)
BY PartInt DEF Entries

LEMMA BookedInt ==
    ASSUME TypeOK, NEW a \in Accounts
    PROVE  Booked(a) \in Int
BY EntriesInt, BookedIsTotal, TotalInt, TxsAssumption DEF TypeOK

(* One row changes.                                                        *)
LEMMA OneEntryChanges ==
    ASSUME NEW v, NEW w, NEW t \in Txs,
           \A u \in Txs : v[u] \in Int /\ w[u] \in Int,
           \A u \in Txs \ {t} : v[u] = w[u]
    PROVE  Total(v, Txs) = Total(w, Txs) + (v[t] - w[t])
BY TotalChange, TxsAssumption

LEMMA EntryChange ==
    ASSUME NEW rs \in [Txs -> Row \cup {NoRow}], NEW ks \in [Txs -> Row \cup {NoRow}],
           NEW a \in Accounts, NEW t \in Txs, NEW r \in Row \cup {NoRow}
    PROVE  Total(Entries([rs EXCEPT ![t] = r], ks, a), Txs) =
               Total(Entries(rs, ks, a), Txs) + (Part(r, a) - Part(rs[t], a))
<1>1. PICK ns : ns = [rs EXCEPT ![t] = r]
    OBVIOUS
<1>2. ns \in [Txs -> Row \cup {NoRow}] /\ ns[t] = r /\ \A u \in Txs \ {t} : ns[u] = rs[u]
    BY <1>1
<1>3. PICK v : v = Entries(ns, ks, a)
    OBVIOUS
<1>4. PICK w : w = Entries(rs, ks, a)
    OBVIOUS
<1>5. \A u \in Txs : /\ v[u] \in Int /\ w[u] \in Int
                     /\ v[u] = Part(ns[u], a) + Part(ks[u], a)
                     /\ w[u] = Part(rs[u], a) + Part(ks[u], a)
    BY <1>2, <1>3, <1>4, EntriesInt
<1>6. Total(v, Txs) = Total(w, Txs) + (v[t] - w[t])
    <2>1. \A u \in Txs : v[u] \in Int /\ w[u] \in Int
        BY <1>5
    <2>2. \A u \in Txs \ {t} : v[u] = w[u]
        BY <1>2, <1>5
    <2> QED BY <2>1, <2>2, OneEntryChanges
<1>7. Part(r, a) \in Int /\ Part(rs[t], a) \in Int /\ Part(ks[t], a) \in Int
    BY PartInt
<1>8. v[t] - w[t] = Part(r, a) - Part(rs[t], a)
    BY <1>2, <1>5, <1>7
<1> QED BY <1>1, <1>3, <1>4, <1>6, <1>8

LEMMA BookedChange ==
    ASSUME TypeOK, NEW a \in Accounts, NEW t \in Txs,
           NEW r \in Row \cup {NoRow}, rows' = [rows EXCEPT ![t] = r], UNCHANGED kept
    PROVE  /\ Booked(a)' = Booked(a) + (Part(r, a) - Part(rows[t], a))
           /\ Booked(a) \in Int /\ Part(r, a) \in Int /\ Part(rows[t], a) \in Int
<1>1. Booked(a) = Total(Entries(rows, kept, a), Txs)
      /\ Booked(a)' = Total(Entries([rows EXCEPT ![t] = r], kept, a), Txs)
    <2>1. Booked(a)' = Total(Entries(rows', kept', a), Txs)
        BY BookedIsTotal
    <2> QED BY <2>1, BookedIsTotal
<1>2. rows \in [Txs -> Row \cup {NoRow}] /\ kept \in [Txs -> Row \cup {NoRow}]
    BY DEF TypeOK
<1>3. Part(r, a) \in Int /\ Part(rows[t], a) \in Int
    BY <1>2, PartInt
<1>4. Total(Entries([rows EXCEPT ![t] = r], kept, a), Txs) =
          Total(Entries(rows, kept, a), Txs) + (Part(r, a) - Part(rows[t], a))
    BY <1>2, EntryChange
<1> QED BY <1>1, <1>3, <1>4, BookedInt

LEMMA BookedSame ==
    ASSUME NEW a,
           \A t \in Txs : Part(rows'[t], a) + Part(kept'[t], a) = Part(rows[t], a) + Part(kept[t], a)
    PROVE  Booked(a)' = Booked(a)
<1>1. Entries(rows', kept', a) = Entries(rows, kept, a)
    BY DEF Entries
<1> QED BY <1>1, BookedIsTotal

LEMMA NothingBooked ==
    ASSUME NEW a,
           \A t \in Txs : Part(rows[t], a) = 0 /\ Part(kept[t], a) = 0
    PROVE  Booked(a) = 0
<1> DEFINE w == Entries(rows, kept, a)
<1>1. \A t \in Txs : w[t] = 0
    BY DEF Entries
<1>2. Booked(a) = Total(w, Txs)
    BY BookedIsTotal
<1> HIDE DEF w
<1> QED BY <1>1, <1>2, TotalZero, TxsAssumption

(* A row moves its own accounts only, and what it moves does not depend on *)
(* a destination that is another account's.                                *)
LEMMA PartElsewhere ==
    ASSUME NEW r \in Row, NEW a \in Accounts, r.acc # a, r.to # a
    PROVE  Part(r, a) = 0
<1>1. r \in Row /\ r.amt \in Int /\ r.typ \in Types
    BY DEF Row
<1>2. Cents(r.amt) \in Int /\ Cents(-r.amt) \in Int
    BY <1>1, CentsNear
<1> DEFINE from == [acc |-> r.acc, by |-> r.amt]
           less == [acc |-> r.acc, by |-> -r.amt]
           dest == [acc |-> r.to, by |-> r.amt]
           d == Deltas(r, r.amt)
<1>3. d = <<from>> \/ d = <<less>> \/ d = <<less, dest>> \/ d = << >>
    BY <1>1 DEF Deltas, Types
<1>4. Posted(<<from>>, 2, a) = 0 /\ Posted(<<less>>, 2, a) = 0 /\ Posted(<<less, dest>>, 2, a) = 0
    BY <1>2, PostedOne, PostedTwo
<1>5. Posted(<< >>, 2, a) = 0
    BY DEF Posted
<1>6. Effect(r, a) = Posted(d, 2, a)
    BY DEF Effect
<1> HIDE DEF d, from, less, dest
<1> QED BY <1>3, <1>4, <1>5, <1>6 DEF Part

LEMMA PartForgets ==
    ASSUME NEW r \in Row, NEW a \in Accounts, NEW s \in Row, s = [r EXCEPT !.to = None], r.to # a
    PROVE  Part(s, a) = Part(r, a)
<1>1. /\ r.amt \in Int /\ r.typ \in Types /\ r # NoRow /\ s # NoRow
      /\ s.typ = r.typ /\ s.acc = r.acc /\ s.amt = r.amt /\ s.to = None
    BY NoRowAssumption DEF Row
<1>2. Cents(r.amt) \in Int /\ Cents(-r.amt) \in Int
    BY <1>1, CentsNear
<1> DEFINE from == [acc |-> r.acc, by |-> r.amt]
           less == [acc |-> r.acc, by |-> -r.amt]
           dest == [acc |-> r.to, by |-> r.amt]
<1>3. CASE r.typ # "transfer" \/ r.to = None
    <2>1. Deltas(s, s.amt) = Deltas(r, r.amt)
        BY <1>1, <1>3 DEF Deltas
    <2> QED BY <1>1, <2>1 DEF Part, Effect
<1>4. CASE r.typ = "transfer" /\ r.to # None
    <2>1. Deltas(s, s.amt) = <<less>> /\ Deltas(r, r.amt) = <<less, dest>>
        BY <1>1, <1>4 DEF Deltas
    <2>2. Posted(<<less>>, 2, a) = Posted(<<less, dest>>, 2, a)
        BY <1>2, PostedOne, PostedTwo
    <2> HIDE DEF less, dest
    <2> QED BY <1>1, <2>1, <2>2 DEF Part, Effect
<1> QED BY <1>3, <1>4

(* Storing an amount, on the row and on the balances.                      *)
LEMMA StoredAs ==
    ASSUME NEW r \in Row, NEW n \in Int, NEW s, s = Stored([r EXCEPT !.amt = n])
    PROVE  /\ s \in Row /\ s # NoRow /\ s.amt = Cents(n) /\ Whole(s.amt)
           /\ s.typ = r.typ /\ s.acc = r.acc /\ s.to = r.to
           /\ \A m : Deltas(s, m) = Deltas(r, m)
<1>1. Cents(n) \in Int /\ Whole(Cents(n))
    BY CentsNear
<1>2. /\ s \in Row /\ s.amt = Cents(n) /\ s.typ = r.typ /\ s.acc = r.acc /\ s.to = r.to
    BY <1>1 DEF Stored, Row
<1> QED BY <1>1, <1>2, NoRowAssumption DEF Deltas

LEMMA PartOfStored ==
    ASSUME NEW r \in Row, NEW a \in Accounts
    PROVE  Part(r, a) = Posted(Deltas(r, r.amt), 2, a)
BY NoRowAssumption DEF Part, Effect

(* The steps of the serial ledger.                                         *)
LEMMA PostTyped ==
    ASSUME TypeOK, NEW p, Post(p), NEW r \in Row, NEW n \in Int, p = Deltas(r, n)
    PROVE  /\ balance' \in [Accounts -> Int]
           /\ \A a \in live : /\ Posted(p, 2, a) \in Int
                              /\ balance'[a] = balance[a] + Posted(p, 2, a)
<1>1. ASSUME NEW a \in Accounts PROVE Posted(p, 2, a) \in Int
    <2>1. Cents(n) \in Int
        BY CentsNear
    <2> QED BY <2>1, RowsBook
<1>2. balance \in [Accounts -> Int] /\ live \subseteq Accounts
    BY DEF TypeOK
<1>3. balance' = [a \in Accounts |->
                     balance[a] + (IF a \in live THEN Posted(p, 2, a) ELSE 0)]
    BY DEF Post
<1> QED BY <1>1, <1>2, <1>3

LEMMA OffChange ==
    ASSUME BooksInv, NEW a \in live, NEW t \in Txs, NEW r \in Row \cup {NoRow},
           rows' = [rows EXCEPT ![t] = r], UNCHANGED <<opening, kept>>,
           NEW m \in Int, balance'[a] = balance[a] + m
    PROVE  /\ Off(a)' - Off(a) = m - (Part(r, a) - Part(rows[t], a))
           /\ Off(a) \in Int /\ Off(a)' \in Int
<1>1. a \in Accounts /\ TypeOK /\ opening[a] \in Int /\ balance[a] \in Int
    BY DEF BooksInv, TypeOK
<1>2. /\ Booked(a)' = Booked(a) + (Part(r, a) - Part(rows[t], a))
      /\ Booked(a) \in Int /\ Part(r, a) \in Int /\ Part(rows[t], a) \in Int
    BY <1>1, BookedChange
<1>3. /\ Off(a) = balance[a] - (opening[a] + Booked(a))
      /\ Off(a)' = balance'[a] - (opening[a] + Booked(a)')
    BY DEF Off
<1> DEFINE b == Booked(a)
           c == Booked(a)'
           pr == Part(r, a)
           pt == Part(rows[t], a)
<1>4. /\ c = b + (pr - pt) /\ b \in Int /\ pr \in Int /\ pt \in Int
      /\ Off(a) = balance[a] - (opening[a] + b)
      /\ Off(a)' = (balance[a] + m) - (opening[a] + c)
    BY <1>2, <1>3
<1> HIDE DEF b, c, pr, pt
<1>5. /\ Off(a)' - Off(a) = m - (pr - pt) /\ Off(a) \in Int /\ Off(a)' \in Int
    BY <1>1, <1>4
<1> QED BY <1>5 DEF pr, pt

LEMMA CreateOff ==
    ASSUME BooksInv, NEW t \in Txs, NEW body \in Bodies, Create(t, body), NEW a \in live
    PROVE  Off(a)' = Off(a)
<1>1. body \in Row /\ body.amt \in Int /\ a \in Accounts /\ TypeOK
    BY BodiesAssumption DEF Row, BooksInv, TypeOK
<1> DEFINE r == Stored(body)
           m == Posted(Deltas(body, body.amt), 2, a)
<1>2. r = Stored([body EXCEPT !.amt = body.amt])
    BY <1>1 DEF Row
<1>3. /\ r \in Row /\ r.amt = Cents(body.amt) /\ Cents(body.amt) \in Int
      /\ \A n : Deltas(r, n) = Deltas(body, n)
    BY <1>1, <1>2, StoredAs, CentsNear
<1>4. Part(r, a) = m /\ m \in Int
    <2>1. Part(r, a) = Posted(Deltas(body, Cents(body.amt)), 2, a)
        BY <1>1, <1>3, PartOfStored
    <2>2. Cents(Cents(body.amt)) = Cents(body.amt)
        BY <1>1, CentsNear, CentsOfWhole
    <2> QED BY <1>1, <1>3, <2>1, <2>2, RowsBook
<1>5. Post(Deltas(body, body.amt)) /\ rows[t] = NoRow
      /\ rows' = [rows EXCEPT ![t] = r] /\ UNCHANGED <<opening, kept>>
    BY DEF Create
<1>6. balance'[a] = balance[a] + m
    BY <1>1, <1>5, PostTyped
<1> HIDE DEF r, m
<1>7. Off(a)' - Off(a) = m - (Part(r, a) - Part(rows[t], a)) /\ Off(a) \in Int /\ Off(a)' \in Int
    BY <1>3, <1>4, <1>5, <1>6, OffChange
<1>8. Part(rows[t], a) = 0
    BY <1>5 DEF Part
<1> QED BY <1>4, <1>7, <1>8

LEMMA UpdateOff ==
    ASSUME BooksInv, NEW t \in Txs, NEW x \in Amounts, Update(t, x), NEW a \in live
    PROVE  /\ Off(a)' - Off(a) \in {-Sub, 0, Sub}
           /\ Cents(x) = x => Off(a)' = Off(a)
<1> DEFINE r == rows[t]
           s == Stored([r EXCEPT !.amt = x])
           n == r.amt
           m == Posted(Deltas(r, x - n), 2, a)
<1>1. /\ r \in Row /\ r # NoRow /\ n \in Int /\ Whole(n) /\ x \in Int /\ x - n \in Int
      /\ a \in Accounts /\ TypeOK
    BY AmountsAssumption DEF Row, BooksInv, TypeOK, Update
<1>2. /\ s \in Row /\ s.amt = Cents(x) /\ Cents(x) \in Int /\ Whole(Cents(x))
      /\ \A k : Deltas(s, k) = Deltas(r, k)
    <2>1. Cents(x) \in Int /\ Whole(Cents(x))
        BY <1>1, CentsNear
    <2> HIDE DEF s, r
    <2> QED BY <1>1, <2>1, StoredAs DEF s
<1>3. Cents(Cents(x)) = Cents(x) /\ Cents(n) = n /\ Cents(x - n) \in Int
    BY <1>1, <1>2, CentsOfWhole, CentsNear
<1>4. Part(s, a) = Posted(Deltas(r, Cents(x)), 2, a) /\ Part(r, a) = Posted(Deltas(r, n), 2, a)
    BY <1>1, <1>2, PartOfStored
<1>5. /\ Post(Deltas(r, x - n)) /\ rows' = [rows EXCEPT ![t] = s]
      /\ UNCHANGED <<opening, kept>>
    BY DEF Update
<1>6. m \in Int /\ balance'[a] = balance[a] + m
    BY <1>1, <1>5, PostTyped
<1>7. /\ Off(a)' - Off(a) = m - (Part(s, a) - Part(r, a))
      /\ Off(a) \in Int /\ Off(a)' \in Int
    <2> HIDE DEF m, s
    <2> QED BY <1>2, <1>5, <1>6, OffChange
<1> DEFINE d == Cents(x - n) - (Cents(x) - n)
<1>8. d \in {-Sub, 0, Sub} /\ (Cents(x) = x => d = 0)
    <2>1. Cents(x) = x => Cents(x - n) = x - n
        BY <1>1, <1>2, WholeSums, CentsOfWhole
    <2> QED BY <1>1, <2>1, CentsOfDifference
<1>9. m - (Part(s, a) - Part(r, a)) \in {0, d, -d}
    <2>1. CASE \A k \in Int : Posted(Deltas(r, k), 2, a) = 0
        BY <1>1, <1>2, <1>4, <2>1
    <2>2. CASE \A k \in Int : Posted(Deltas(r, k), 2, a) = Cents(k)
        <3>1. m = Cents(x - n) /\ Part(s, a) = Cents(x) /\ Part(r, a) = n
            BY <1>1, <1>2, <1>3, <1>4, <2>2
        <3> HIDE DEF m, s, r, n
        <3> QED BY <3>1 DEF d
    <2>3. CASE \A k \in Int : Posted(Deltas(r, k), 2, a) = -Cents(k)
        <3>1. m = -Cents(x - n) /\ Part(s, a) = -Cents(x) /\ Part(r, a) = -n
            BY <1>1, <1>2, <1>3, <1>4, <2>3
        <3> HIDE DEF m, s, r, n
        <3> QED BY <1>1, <1>2, <1>3, <3>1 DEF d
    <2> QED BY <1>1, <2>1, <2>2, <2>3, RowsBook
<1> DEFINE e == m - (Part(s, a) - Part(r, a))
<1> HIDE DEF d, e, m, s, r, n
<1>10. e \in {-Sub, 0, Sub} /\ (Cents(x) = x => e = 0)
    BY <1>8, <1>9, SubAssumption DEF e
<1> QED BY <1>7, <1>10 DEF e

LEMMA DeleteOff ==
    ASSUME BooksInv, NEW t \in Txs, Delete(t), NEW a \in live
    PROVE  Off(a)' = Off(a)
<1> DEFINE r == rows[t]
           n == r.amt
           m == Posted(Deltas(r, -n), 2, a)
<1>1. r \in Row /\ n \in Int /\ -n \in Int /\ Whole(n) /\ a \in Accounts /\ TypeOK
    BY DEF Row, BooksInv, TypeOK, Delete
<1>2. Cents(n) = n /\ Cents(-n) = -n
    BY <1>1, CentsOfWhole, CentsNear
<1>3. Part(r, a) = Posted(Deltas(r, n), 2, a)
    BY <1>1, PartOfStored
<1>4. /\ Post(Deltas(r, -n)) /\ rows' = [rows EXCEPT ![t] = NoRow]
      /\ UNCHANGED <<opening, kept>>
    BY DEF Delete
<1>5. m \in Int /\ balance'[a] = balance[a] + m
    BY <1>1, <1>4, PostTyped
<1>6. m = -Part(r, a) /\ Part(r, a) \in Int
    BY <1>1, <1>2, <1>3, RowsBook
<1> HIDE DEF m
<1>7. /\ Off(a)' - Off(a) = m - (Part(NoRow, a) - Part(r, a))
      /\ Off(a) \in Int /\ Off(a)' \in Int
    <2>1. NoRow \in Row \cup {NoRow}
        OBVIOUS
    <2> QED BY <1>4, <1>5, <2>1, OffChange
<1>8. Part(NoRow, a) = 0
    BY DEF Part
<1>9. m - (Part(NoRow, a) - Part(r, a)) = 0
    <2> DEFINE p == Part(r, a)
    <2> HIDE DEF r, p
    <2>1. m = -p /\ p \in Int
        BY <1>6 DEF p
    <2> QED BY <1>8, <2>1 DEF p
<1> QED BY <1>7, <1>9

LEMMA CloseOff ==
    ASSUME BooksInv, NEW c \in Accounts, Close(c), NEW a \in live, a # c
    PROVE  Off(a)' = Off(a)
<1>1. /\ rows \in [Txs -> Row \cup {NoRow}] /\ kept \in [Txs -> Row \cup {NoRow}]
      /\ balance \in [Accounts -> Int] /\ a \in Accounts
    BY DEF BooksInv, TypeOK
<1>2. /\ rows' = Without(c) /\ kept' = KeptAfter(c) /\ UNCHANGED opening
      /\ balance'[a] = balance[a]
    BY <1>1 DEF Close
<1>3. ASSUME NEW t \in Txs
      PROVE  Part(rows'[t], a) + Part(kept'[t], a) = Part(rows[t], a) + Part(kept[t], a)
    <2>1. Part(NoRow, a) = 0 /\ Part(rows[t], a) \in Int
        BY <1>1, PartInt DEF Part
    <2>2. CASE rows[t] = NoRow
        BY <1>2, <2>2 DEF Without, KeptAfter
    <2>3. CASE rows[t] # NoRow /\ rows[t].acc = c
        <3>1. rows'[t] = NoRow /\ kept'[t] = rows[t] /\ kept[t] = NoRow
            BY <1>2, <2>3 DEF Without, KeptAfter, BooksInv
        <3> QED BY <2>1, <3>1
    <2>4. CASE rows[t] # NoRow /\ rows[t].acc # c /\ rows[t].to = c
        <3>1. /\ rows'[t] = [rows[t] EXCEPT !.to = None] /\ kept'[t] = kept[t]
              /\ rows[t] \in Row /\ rows[t].to # a
            BY <1>1, <1>2, <2>4 DEF Without, KeptAfter
        <3>2. rows'[t] \in Row
            BY <3>1 DEF Row
        <3>3. Part(rows'[t], a) = Part(rows[t], a)
            BY <1>1, <3>1, <3>2, PartForgets
        <3> QED BY <3>1, <3>3
    <2>5. CASE rows[t] # NoRow /\ rows[t].acc # c /\ rows[t].to # c
        BY <1>2, <2>5 DEF Without, KeptAfter
    <2> QED BY <2>2, <2>3, <2>4, <2>5
<1>4. Booked(a)' = Booked(a)
    BY <1>3, BookedSame
<1> QED BY <1>2, <1>4 DEF Off

LEMMA OpenOff ==
    ASSUME BooksInv, NEW c \in Accounts, NEW v \in Openings, Open(c, v)
    PROVE  /\ \A a \in live : Off(a)' = Off(a)
           /\ Off(c)' = 0
<1>1. /\ c \notin live /\ UNCHANGED <<rows, kept>> /\ opening[c] = None
      /\ \A a \in live : balance'[a] = balance[a] /\ opening'[a] = opening[a]
      /\ balance'[c] = Cents(v) /\ opening'[c] = Cents(v) /\ Cents(v) \in Int
    <2>1. c \notin live
        BY NoneAssumption DEF Open, BooksInv
    <2>2. Cents(v) \in Int
        BY OpeningsAssumption, CentsNear
    <2> QED BY <2>1, <2>2 DEF Open, BooksInv, TypeOK
<1>2. ASSUME NEW a PROVE Booked(a)' = Booked(a)
    BY <1>1, BookedSame
<1>3. ASSUME NEW t \in Txs PROVE Part(rows[t], c) = 0 /\ Part(kept[t], c) = 0
    <2>1. rows[t] # NoRow => rows[t] \in Row /\ rows[t].acc # c /\ rows[t].to # c
        BY <1>1, NoneAssumption DEF BooksInv, TypeOK, ReferencesLive
    <2>2. kept[t] # NoRow => kept[t] \in Row /\ kept[t].acc # c /\ kept[t].to # c
        BY <1>1, NoneAssumption DEF BooksInv, TypeOK
    <2>3. Part(NoRow, c) = 0
        BY DEF Part
    <2> QED BY <2>1, <2>2, <2>3, PartElsewhere
<1>4. Booked(c)' = 0
    BY <1>2, <1>3, NothingBooked
<1>5. \A a \in live : Off(a)' = Off(a)
    BY <1>1, <1>2 DEF Off
<1>6. Off(c)' = 0
    BY <1>1, <1>4 DEF Off
<1> QED BY <1>5, <1>6

LEMMA BooksInit == Init => BooksInv /\ BooksBalance
BY DEF Init, BooksInv, BooksBalance, TypeOK, ReferencesLive

LEMMA BooksNext == BooksInv /\ [Next]_ledger => BooksInv'
<1> SUFFICES ASSUME BooksInv, [Next]_ledger PROVE BooksInv'
    OBVIOUS
<1>0. /\ TypeOK /\ ReferencesLive
      /\ rows \in [Txs -> Row \cup {NoRow}] /\ kept \in [Txs -> Row \cup {NoRow}]
      /\ balance \in [Accounts -> Int] /\ live \subseteq Accounts
      /\ opening \in [Accounts -> Int \cup {None}]
    BY DEF BooksInv, TypeOK
(* The rows and the balances of a step on one row.                         *)
<1>1. ASSUME NEW t \in Txs, NEW r \in Row \cup {NoRow},
             rows' = [rows EXCEPT ![t] = r], balance' \in [Accounts -> Int],
             UNCHANGED <<live, opening, kept>>,
             r # NoRow => /\ kept[t] = NoRow /\ Whole(r.amt)
                          /\ r.acc \in live /\ r.to \in live \cup {None}
      PROVE  BooksInv'
    <2>1. rows' \in [Txs -> Row \cup {NoRow}] /\ rows'[t] = r
          /\ \A u \in Txs \ {t} : rows'[u] = rows[u]
        BY <1>0, <1>1
    <2>2. TypeOK' /\ ReferencesLive'
        BY <1>0, <1>1, <2>1 DEF TypeOK, ReferencesLive
    <2> QED BY <1>1, <2>1, <2>2 DEF BooksInv
<1>2. ASSUME NEW c \in Accounts, NEW v \in Openings, Open(c, v) PROVE BooksInv'
    <2>1. Cents(v) \in Int /\ None \notin Int
        BY OpeningsAssumption, NoneAssumption, CentsNear
    <2>2. /\ opening' \in [Accounts -> Int \cup {None}] /\ opening[c] = None
          /\ opening'[c] \in Int /\ \A a \in Accounts \ {c} : opening'[a] = opening[a]
          /\ balance' \in [Accounts -> Int] /\ live' = live \cup {c} /\ UNCHANGED <<rows, kept>>
        BY <1>0, <1>2, <2>1 DEF Open
    <2>3. TypeOK' /\ ReferencesLive'
        BY <1>0, <2>2 DEF TypeOK, ReferencesLive
    <2>4. \A a \in Accounts : opening[a] \in Int => opening'[a] \in Int
        BY <2>1, <2>2
    <2>5. ASSUME NEW t \in Txs, kept[t] # NoRow
          PROVE  kept[t].acc \in Accounts /\ (kept[t].to # None => kept[t].to \in Accounts)
        BY <1>0, <2>5 DEF Row
    <2> QED BY <1>0, <2>2, <2>3, <2>4, <2>5 DEF BooksInv
<1>3. ASSUME NEW t \in Txs, NEW body \in Bodies, Create(t, body) PROVE BooksInv'
    <2> DEFINE r == Stored(body)
    <2>1. body \in Row /\ body.amt \in Int /\ r = Stored([body EXCEPT !.amt = body.amt])
        BY BodiesAssumption DEF Row
    <2>2. r \in Row /\ Whole(r.amt) /\ r.acc = body.acc /\ r.to = body.to
        BY <2>1, StoredAs
    <2>3. balance' \in [Accounts -> Int]
        BY <1>0, <1>3, <2>1, PostTyped DEF Create
    <2> HIDE DEF r
    <2> QED BY <1>1, <1>3, <2>2, <2>3 DEF Create, r
<1>4. ASSUME NEW t \in Txs, NEW x \in Amounts, Update(t, x) PROVE BooksInv'
    <2> DEFINE r == Stored([rows[t] EXCEPT !.amt = x])
    <2>1. rows[t] \in Row /\ x \in Int /\ x - rows[t].amt \in Int
        BY <1>0, <1>4, AmountsAssumption DEF Update, Row
    <2>2. r \in Row /\ Whole(r.amt) /\ r.acc = rows[t].acc /\ r.to = rows[t].to
        BY <2>1, StoredAs
    <2>3. balance' \in [Accounts -> Int]
        BY <1>0, <1>4, <2>1, PostTyped DEF Update
    <2>4. rows[t] # NoRow /\ kept[t] = NoRow /\ rows[t].acc \in live /\ rows[t].to \in live \cup {None}
        BY <1>0, <1>4 DEF Update, BooksInv, ReferencesLive
    <2> HIDE DEF r
    <2> QED BY <1>1, <1>4, <2>2, <2>3, <2>4 DEF Update, r
<1>5. ASSUME NEW t \in Txs, Delete(t) PROVE BooksInv'
    <2>1. rows[t] \in Row /\ -rows[t].amt \in Int
        BY <1>0, <1>5 DEF Delete, Row
    <2>2. balance' \in [Accounts -> Int]
        BY <1>0, <1>5, <2>1, PostTyped DEF Delete
    <2> QED BY <1>1, <1>5, <2>2 DEF Delete
<1>6. ASSUME NEW c \in Accounts, Close(c) PROVE BooksInv'
    <2>1. /\ rows' = Without(c) /\ kept' = KeptAfter(c) /\ UNCHANGED opening
          /\ live' = live \ {c} /\ balance' \in [Accounts -> Int]
        BY <1>0, <1>6 DEF Close
    <2>2. ASSUME NEW t \in Txs
          PROVE  \/ /\ rows[t] # NoRow /\ rows[t].acc = c
                    /\ rows'[t] = NoRow /\ kept'[t] = rows[t]
                 \/ /\ rows[t] # NoRow /\ rows[t].acc # c /\ rows[t].to = c
                    /\ rows'[t] = [rows[t] EXCEPT !.to = None] /\ kept'[t] = kept[t]
                 \/ /\ rows[t] = NoRow \/ (rows[t].acc # c /\ rows[t].to # c)
                    /\ rows'[t] = rows[t] /\ kept'[t] = kept[t]
        BY <2>1 DEF Without, KeptAfter
    <2>3. ASSUME NEW t \in Txs, rows[t] # NoRow
          PROVE  LET s == [rows[t] EXCEPT !.to = None]
                 IN  s \in Row /\ s.acc = rows[t].acc /\ s.amt = rows[t].amt /\ s.to = None
        <3>1. rows[t] \in Row
            BY <1>0, <2>3
        <3> QED BY <3>1 DEF Row
    <2>4. rows' \in [Txs -> Row \cup {NoRow}] /\ kept' \in [Txs -> Row \cup {NoRow}]
        <3>1. ASSUME NEW t \in Txs
              PROVE  rows'[t] \in Row \cup {NoRow} /\ kept'[t] \in Row \cup {NoRow}
            BY <1>0, <2>2, <2>3
        <3>2. rows' = [t \in Txs |-> rows'[t]] /\ kept' = [t \in Txs |-> kept'[t]]
            BY <2>1 DEF Without, KeptAfter
        <3> QED BY <3>1, <3>2
    <2>5. TypeOK'
        BY <1>0, <2>1, <2>4 DEF TypeOK
    <2>6. ReferencesLive'
        <3>1. ASSUME NEW t \in Txs, rows'[t] # NoRow
              PROVE  rows'[t].acc \in live' /\ rows'[t].to \in live' \cup {None}
            <4>1. rows[t] # NoRow => rows[t].acc \in live /\ rows[t].to \in live \cup {None}
                BY <1>0 DEF ReferencesLive
            <4> QED BY <2>1, <2>2, <2>3, <3>1, <4>1
        <3> QED BY <3>1 DEF ReferencesLive
    <2>7. ASSUME NEW t \in Txs
          PROVE  /\ rows'[t] = NoRow \/ kept'[t] = NoRow
                 /\ rows'[t] # NoRow => Whole(rows'[t].amt)
                 /\ kept'[t] # NoRow =>
                       /\ opening[kept'[t].acc] \in Int
                       /\ kept'[t].to # None => opening[kept'[t].to] \in Int
        <3>1. /\ rows[t] = NoRow \/ kept[t] = NoRow
              /\ rows[t] # NoRow => Whole(rows[t].amt)
              /\ rows[t] # NoRow => rows[t].acc \in live /\ rows[t].to \in live \cup {None}
              /\ \A a \in live : opening[a] \in Int
              /\ kept[t] # NoRow => /\ opening[kept[t].acc] \in Int
                                    /\ kept[t].to # None => opening[kept[t].to] \in Int
            BY DEF BooksInv, ReferencesLive
        <3> QED BY <2>2, <2>3, <3>1
    <2>8. \A a \in live' : opening'[a] \in Int
        BY <2>1 DEF BooksInv
    <2> QED BY <2>1, <2>5, <2>6, <2>7, <2>8 DEF BooksInv
<1>7. ASSUME UNCHANGED ledger PROVE BooksInv'
    BY <1>7 DEF BooksInv, TypeOK, ReferencesLive, ledger
<1> QED BY <1>2, <1>3, <1>4, <1>5, <1>6, <1>7 DEF Next

LEMMA OffStutters ==
    ASSUME UNCHANGED ledger, NEW a
    PROVE  Off(a)' = Off(a)
<1>1. Booked(a)' = Booked(a)
    BY BookedSame DEF ledger
<1> QED BY <1>1 DEF Off, ledger

LEMMA StepsRound ==
    ASSUME BooksInv, [Next]_ledger
    PROVE  \/ \A a \in live \cap live' : Off(a)' = Off(a)
           \/ \E t \in Txs, x \in Amounts :
                  /\ Cents(x) # x
                  /\ Update(t, x)
                  /\ \A a \in live : Off(a)' - Off(a) \in {-Sub, 0, Sub}
<1>1. ASSUME NEW c \in Accounts, NEW v \in Openings, Open(c, v)
      PROVE  \A a \in live : Off(a)' = Off(a)
    BY <1>1, OpenOff
<1>2. ASSUME NEW t \in Txs, NEW body \in Bodies, Create(t, body)
      PROVE  \A a \in live : Off(a)' = Off(a)
    BY <1>2, CreateOff
<1>3. ASSUME NEW t \in Txs, NEW x \in Amounts, Update(t, x)
      PROVE  \/ \A a \in live : Off(a)' = Off(a)
             \/ Cents(x) # x /\ \A a \in live : Off(a)' - Off(a) \in {-Sub, 0, Sub}
    BY <1>3, UpdateOff
<1>4. ASSUME NEW t \in Txs, Delete(t)
      PROVE  \A a \in live : Off(a)' = Off(a)
    BY <1>4, DeleteOff
<1>5. ASSUME NEW c \in Accounts, Close(c)
      PROVE  \A a \in live \cap live' : Off(a)' = Off(a)
    <2>1. c \notin live'
        BY <1>5 DEF Close
    <2> QED BY <1>5, <2>1, CloseOff
<1>6. ASSUME UNCHANGED ledger
      PROVE  \A a \in live : Off(a)' = Off(a)
    BY <1>6, OffStutters
<1> QED BY <1>1, <1>2, <1>3, <1>4, <1>5, <1>6 DEF Next

(* Every amount a PATCH carries is whole cents.                            *)
WholeAmounts == \A x \in Amounts : Cents(x) = x

LEMMA BalanceStep ==
    ASSUME BooksInv, BooksBalance, [Next]_ledger, WholeAmounts
    PROVE  BooksBalance'
<1>1. \A a \in live \cap live' : Off(a)' = 0
    <2>1. \A a \in live \cap live' : Off(a)' = Off(a)
        BY StepsRound DEF WholeAmounts
    <2> QED BY <2>1 DEF BooksBalance
<1>2. ASSUME NEW a \in live', a \notin live PROVE Off(a)' = 0
    <2>1. PICK c \in Accounts, v \in Openings : Open(c, v)
        BY <1>2 DEF Next, Create, Update, Delete, Close, ledger
    <2>2. a = c
        BY <1>2, <2>1 DEF Open
    <2> QED BY <2>1, <2>2, OpenOff
<1> QED BY <1>1, <1>2 DEF BooksBalance

(* Handlers that do not overlap keep the books, if every PATCH is to whole *)
(* cents: an account's balance is its opening balance plus the effect of   *)
(* every transaction stored for it (crud/transaction.py:39-108).           *)
THEOREM SerialBooksBalance ==
    ASSUME WholeAmounts
    PROVE  Spec => []BooksBalance
<1>1. BooksInv /\ BooksBalance /\ [Next]_ledger => (BooksInv /\ BooksBalance)'
    BY BooksNext, BalanceStep
<1> QED BY <1>1, BooksInit, PTL DEF Spec

(* Nothing but a PATCH to a fraction of a cent moves a balance off the     *)
(* stored transactions, and that by one cent at most, for any amounts.     *)
THEOREM SerialOffByRounding == Spec => OffByRounding
<1>1. BooksInv /\ [Next]_ledger => 
           [\/ \A a \in live \cap live' : Off(a)' = Off(a)
            \/ \E t \in Txs, x \in Amounts :
                   /\ Cents(x) # x
                   /\ Update(t, x)
                   /\ \A a \in live : Off(a)' - Off(a) \in {-Sub, 0, Sub}]_ledger
    BY StepsRound
<1> QED BY <1>1, BooksInit, BooksNext, PTL DEF Spec, OffByRounding

-----------------------------------------------------------------------------
(* Overlapping requests.                                                   *)

LEMMA CentsInt == ASSUME NEW x \in Int PROVE Cents(x) \in Int
BY CentsNear

LEMMA NextLeg ==
    ASSUME NEW m \in 0 .. 2, NEW n \in 0 .. 2, m <= n, m # n
    PROVE  m + 1 \in 1 .. n /\ m + 1 \in 0 .. 2
OBVIOUS

IsPlan(p) == /\ Len(p) \in 0 .. 2
             /\ \A i \in 1 .. Len(p) : p[i].acc \in Accounts /\ p[i].by \in Int

LEMMA DeltasIsPlan ==
    ASSUME NEW r \in Row, NEW amount \in Int
    PROVE  IsPlan(Deltas(r, amount))
<1> DEFINE from == [acc |-> r.acc, by |-> amount]
           less == [acc |-> r.acc, by |-> -amount]
           dest == [acc |-> r.to, by |-> amount]
<1>1. r.acc \in Accounts /\ (r.to = None \/ r.to \in Accounts) /\ r.typ \in Types
    BY DEF Row
<1>2. CASE r.typ = "income"
    <2>1. Deltas(r, amount) = <<from>>  BY <1>2 DEF Deltas
    <2> QED BY <2>1, <1>1 DEF IsPlan
<1>3. CASE r.typ = "expense"
    <2>1. Deltas(r, amount) = <<less>>  BY <1>3 DEF Deltas
    <2> QED BY <2>1, <1>1 DEF IsPlan
<1>4. CASE r.typ = "transfer" /\ r.to = None
    <2>1. Deltas(r, amount) = <<less>>  BY <1>4 DEF Deltas
    <2> QED BY <2>1, <1>1 DEF IsPlan
<1>5. CASE r.typ = "transfer" /\ r.to # None
    <2>1. Deltas(r, amount) = <<less, dest>>  BY <1>5 DEF Deltas
    <2> QED BY <2>1, <1>1, <1>5 DEF IsPlan
<1>6. CASE r.typ = "other"
    <2>1. Deltas(r, amount) = << >>  BY <1>6 DEF Deltas
    <2> QED BY <2>1 DEF IsPlan
<1> QED BY <1>1, <1>2, <1>3, <1>4, <1>5, <1>6 DEF Types

(* A plan books whole cents, and nothing before its first leg.             *)
LEMMA PostedInt ==
    ASSUME NEW p, IsPlan(p), NEW n \in Int, NEW x
    PROVE  Posted(p, n, x) \in Int
<1>1. ASSUME NEW i \in 1 .. Len(p) PROVE Cents(p[i].by) \in Int
    BY CentsInt DEF IsPlan
<1>2. (1 <= Len(p) => 1 \in 1 .. Len(p)) /\ (2 <= Len(p) => 2 \in 1 .. Len(p))
    BY DEF IsPlan
<1> QED BY <1>1, <1>2 DEF Posted, IsPlan

-----------------------------------------------------------------------------
(* Type correctness.                                                       *)
Typed == LedgerTypeOK /\ \A s \in Slots : Coherent(s)

LEMMA PlanOfJob ==
    ASSUME Typed, NEW s \in Slots
    PROVE  IsPlan(Plan(s))
<1> DEFINE j == job[s]
<1>1. j \in Jobs /\ Coherent(s)
    BY DEF Typed, LedgerTypeOK
<1>2. CASE j.op = "create"
    <2>1. j.new \in Row /\ j.new.amt \in Int
        BY <1>1, <1>2, BodiesAssumption DEF Coherent, Row
    <2>2. Plan(s) = Deltas(j.new, j.new.amt)
        BY <1>2 DEF Plan
    <2> QED BY <2>1, <2>2, DeltasIsPlan
<1>3. CASE j.op = "update"
    <2>1. j.old \in Row /\ \E x \in Amounts : j.new = [j.old EXCEPT !.amt = x]
        BY <1>1, <1>3 DEF Coherent
    <2>2. j.new.amt - j.old.amt \in Int
        BY <2>1, AmountsAssumption DEF Row
    <2>3. Plan(s) = Deltas(j.old, j.new.amt - j.old.amt)
        BY <1>3 DEF Plan
    <2> QED BY <2>1, <2>2, <2>3, DeltasIsPlan
<1>4. CASE j.op = "delete"
    <2>1. j.old \in Row /\ -j.old.amt \in Int
        BY <1>1, <1>4 DEF Coherent, Row
    <2>2. Plan(s) = Deltas(j.old, -j.old.amt)
        BY <1>4 DEF Plan
    <2> QED BY <2>1, <2>2, DeltasIsPlan
<1>5. CASE j.op \notin {"create", "update", "delete"}
    <2>1. Plan(s) = << >>
        BY <1>5 DEF Plan
    <2> QED BY <2>1 DEF IsPlan
<1> QED BY <1>2, <1>3, <1>4, <1>5

LEMMA WantedLocks ==
    ASSUME Typed, NEW s \in Slots
    PROVE  Wanted(s) \subseteq Locks
<1>1. live \subseteq Accounts /\ Present \subseteq Txs
    BY DEF Typed, LedgerTypeOK, TypeOK, Present
<1>2. ASSUME NEW x \in Accounts, NEW m \in Modes PROVE Lock("account", x, m) \in Locks
    BY DEF Lock, Locks
<1>3. ASSUME NEW t \in Txs, NEW m \in Modes PROVE Lock("tx", t, m) \in Locks
    BY DEF Lock, Locks
<1>4. {"key share", "no key update", "update"} \subseteq Modes
    BY DEF Modes
<1> HIDE DEF Lock, Locks, Modes
<1> QED BY <1>1, <1>2, <1>3, <1>4 DEF Wanted

(* A session whose own variables do not change stays coherent.             *)
LEMMA CoherentFrame ==
    ASSUME NEW s, Coherent(s),
           pc'[s] = pc[s], job'[s] = job[s], leg'[s] = leg[s], held'[s] = held[s]
    PROVE  Coherent(s)'
<1>1. Plan(s)' = Plan(s)
    BY DEF Plan
<1> QED BY <1>1 DEF Coherent, LegsDone

LEMMA NoJobTyped == NoJob \in Jobs
    BY DEF NoJob, Jobs

LEMMA BeginTyped ==
    ASSUME Typed, NEW s \in Slots, NEW label \in Labels, NEW j \in Jobs,
           Begin(s, label, j), Coherent(s)'
    PROVE  Typed'
<1> USE DEF Begin, Goto, ledger
<1>1. LedgerTypeOK'
    BY DEF Typed, LedgerTypeOK, TypeOK
<1>2. ASSUME NEW o \in Slots PROVE Coherent(o)'
    <2>1. CASE o = s  BY <2>1
    <2>2. CASE o # s
        <3>1. /\ pc'[o] = pc[o] /\ job'[o] = job[o]
              /\ leg'[o] = leg[o] /\ held'[o] = held[o]
            BY <2>2 DEF Typed, LedgerTypeOK
        <3> QED BY <3>1, CoherentFrame DEF Typed
    <2> QED BY <2>1, <2>2
<1> QED BY <1>1, <1>2 DEF Typed

LEMMA ReleaseTyped ==
    ASSUME Typed, NEW s \in Slots, Release(s)
    PROVE  /\ pc' \in [Slots -> Labels]
           /\ job' \in [Slots -> Jobs]
           /\ leg' \in [Slots -> 0 .. 2]
           /\ draft' \in [Slots -> [Accounts -> Int]]
           /\ held' \in [Slots -> SUBSET Locks]
           /\ \A o \in Slots : Coherent(o)'
<1> USE DEF Release, Goto
<1>1. /\ pc \in [Slots -> Labels] /\ job \in [Slots -> Jobs]
      /\ leg \in [Slots -> 0 .. 2] /\ draft \in [Slots -> [Accounts -> Int]]
      /\ held \in [Slots -> SUBSET Locks]
    BY DEF Typed, LedgerTypeOK
<1>2. "idle" \in Labels /\ Untouched \in [Accounts -> Int]
    BY DEF Labels, Untouched
<1>3. ASSUME NEW o \in Slots PROVE Coherent(o)'
    <2>1. CASE o = s
        <3>1. pc'[s] = "idle" /\ job'[s] = NoJob /\ leg'[s] = 0 /\ held'[s] = {}
            BY <1>1
        <3>2. Plan(s)' = << >>
            BY <3>1 DEF Plan, NoJob
        <3> QED BY <2>1, <3>1, <3>2 DEF Coherent, LegsDone, NoJob
    <2>2. CASE o # s
        <3>1. /\ pc'[o] = pc[o] /\ job'[o] = job[o]
              /\ leg'[o] = leg[o] /\ held'[o] = held[o]
            BY <1>1, <2>2
        <3> QED BY <3>1, CoherentFrame DEF Typed
    <2> QED BY <2>1, <2>2
<1> QED BY <1>1, <1>2, <1>3, NoJobTyped

(* A rollback changes nothing that was committed.                          *)
LEMMA RollbackTyped ==
    ASSUME Typed, NEW s \in Slots, Release(s),
           UNCHANGED <<ledger, contested>>, seq' \in Nat
    PROVE  Typed'
BY ReleaseTyped DEF Typed, LedgerTypeOK, TypeOK, ledger

LEMMA StepTyped ==
    ASSUME Typed, NEW s \in Slots, UNCHANGED <<ledger, contested>>,
           seq' \in Nat,
           pc' \in [Slots -> Labels], job' \in [Slots -> Jobs],
           leg' \in [Slots -> 0 .. 2], draft' \in [Slots -> [Accounts -> Int]],
           Take(s) \/ UNCHANGED held,
           \A o \in Slots \ {s} :
              pc'[o] = pc[o] /\ job'[o] = job[o] /\ leg'[o] = leg[o],
           Coherent(s)'
    PROVE  Typed'
<1>1. held' \in [Slots -> SUBSET Locks]
    BY WantedLocks DEF Typed, LedgerTypeOK, Take
<1>2. LedgerTypeOK'
    BY <1>1 DEF Typed, LedgerTypeOK, TypeOK, ledger
<1>3. ASSUME NEW o \in Slots PROVE Coherent(o)'
    <2>1. CASE o = s  BY <2>1
    <2>2. CASE o # s
        <3>1. held'[o] = held[o]
            BY <2>2 DEF Take, Typed, LedgerTypeOK
        <3> QED BY <2>2, <3>1, CoherentFrame DEF Typed
    <2> QED BY <2>1, <2>2
<1> QED BY <1>2, <1>3 DEF Typed

LEMMA BeginRequestTyped ==
    ASSUME Typed, NEW s \in Slots, BeginRequest(s)
    PROVE  Typed'
<1> USE DEF Begin, Goto
<1>1. /\ pc \in [Slots -> Labels] /\ job \in [Slots -> Jobs]
      /\ leg \in [Slots -> 0 .. 2] /\ Coherent(s)
      /\ live \subseteq Accounts /\ rows \in [Txs -> Row \cup {NoRow}]
    BY DEF Typed, LedgerTypeOK, TypeOK
<1>2. ASSUME pc[s] = "idle" PROVE leg[s] = 0
    BY <1>1, <1>2 DEF Coherent
<1>3. ASSUME NEW body \in Bodies, BeginCreate(s, body) PROVE Typed'
    <2> DEFINE j == [NoJob EXCEPT !.op = "create", !.new = body]
    <2>1. /\ j \in Jobs /\ j.op = "create" /\ j.new = body /\ j.old = NoRow /\ j.tx = None
          /\ Begin(s, "insert", j)
        BY <1>3, BodiesAssumption DEF BeginCreate, NoJob, Jobs
    <2> HIDE DEF j
    <2>2. pc'[s] = "insert" /\ job'[s] = j /\ leg'[s] = 0
        BY <1>1, <1>2, <2>1
    <2>3. 0 <= Len(Plan(s)')
        <3>1. body \in Row /\ body.amt \in Int
            BY BodiesAssumption DEF Row
        <3>2. Plan(s)' = Deltas(body, body.amt)
            BY <2>1, <2>2 DEF Plan
        <3> QED BY <3>1, <3>2, DeltasIsPlan DEF IsPlan
    <2>4. Coherent(s)'
        BY <2>1, <2>2, <2>3 DEF Coherent
    <2> QED BY <2>1, <2>4, BeginTyped DEF Labels
<1>4. ASSUME NEW t \in Txs, NEW amount \in Amounts, BeginUpdate(s, t, amount)
      PROVE Typed'
    <2> DEFINE new == [rows[t] EXCEPT !.amt = amount]
               j == [NoJob EXCEPT !.op = "update", !.tx = t, !.old = rows[t], !.new = new]
    <2>1. rows[t] \in Row /\ new \in Row /\ amount \in Int
        BY <1>1, <1>4, AmountsAssumption DEF BeginUpdate, Row
    <2>2. /\ j \in Jobs /\ j.op = "update" /\ j.tx = t /\ j.old = rows[t] /\ j.new = new
          /\ Begin(s, "work", j)
        BY <1>4, <2>1 DEF BeginUpdate, NoJob, Jobs
    <2> HIDE DEF j
    <2>3. pc'[s] = "work" /\ job'[s] = j /\ leg'[s] = 0
        BY <1>1, <1>2, <2>2
    <2>4. 0 <= Len(Plan(s)')
        <3>1. new.amt - rows[t].amt \in Int
            BY <2>1 DEF Row
        <3>2. Plan(s)' = Deltas(rows[t], new.amt - rows[t].amt)
            BY <2>2, <2>3 DEF Plan
        <3> QED BY <2>1, <3>1, <3>2, DeltasIsPlan DEF IsPlan
    <2>5. Coherent(s)'
        BY <2>1, <2>2, <2>3, <2>4 DEF Coherent
    <2> QED BY <2>2, <2>5, BeginTyped DEF Labels
<1>5. ASSUME NEW t \in Txs, BeginDelete(s, t) PROVE Typed'
    <2> DEFINE j == [NoJob EXCEPT !.op = "delete", !.tx = t, !.old = rows[t]]
    <2>1. rows[t] \in Row
        BY <1>1, <1>5 DEF BeginDelete
    <2>2. /\ j \in Jobs /\ j.op = "delete" /\ j.tx = t /\ j.old = rows[t]
          /\ Begin(s, "recheck", j)
        BY <1>5, <2>1 DEF BeginDelete, NoJob, Jobs
    <2> HIDE DEF j
    <2>3. pc'[s] = "recheck" /\ job'[s] = j /\ leg'[s] = 0
        BY <1>1, <1>2, <2>2
    <2>4. 0 <= Len(Plan(s)')
        <3>1. -rows[t].amt \in Int
            BY <2>1 DEF Row
        <3>2. Plan(s)' = Deltas(rows[t], -rows[t].amt)
            BY <2>2, <2>3 DEF Plan
        <3> QED BY <2>1, <3>1, <3>2, DeltasIsPlan DEF IsPlan
    <2>5. Coherent(s)'
        BY <2>1, <2>2, <2>3, <2>4 DEF Coherent
    <2> QED BY <2>2, <2>5, BeginTyped DEF Labels
<1>6. ASSUME NEW x \in Accounts, BeginClose(s, x) PROVE Typed'
    <2> DEFINE d == {t \in Present : rows[t].acc = x}
               j == [NoJob EXCEPT !.op = "close", !.acc = x, !.doomed = d]
    <2>1. d \subseteq Txs
        BY DEF Present
    <2>2. /\ j \in Jobs /\ j.op = "close" /\ j.acc = x /\ j.old = NoRow /\ j.tx = None
          /\ Begin(s, "rows", j)
        BY <1>6, <2>1 DEF BeginClose, NoJob, Jobs
    <2> HIDE DEF j
    <2>3. pc'[s] = "rows" /\ job'[s] = j /\ leg'[s] = 0
        BY <1>1, <1>2, <2>2
    <2>4. Plan(s)' = << >>
        BY <2>2, <2>3 DEF Plan
    <2>5. Coherent(s)'
        BY <2>2, <2>3, <2>4 DEF Coherent
    <2> QED BY <2>2, <2>5, BeginTyped DEF Labels
<1> QED BY <1>3, <1>4, <1>5, <1>6 DEF BeginRequest

LEMMA StatementTyped ==
    ASSUME Typed, NEW s \in Slots, Statement(s)
    PROVE  Typed'
<1> USE DEF Goto
<1>1. /\ pc \in [Slots -> Labels] /\ job \in [Slots -> Jobs] /\ seq \in Nat
      /\ leg \in [Slots -> 0 .. 2] /\ draft \in [Slots -> [Accounts -> Int]]
      /\ held \in [Slots -> SUBSET Locks] /\ balance \in [Accounts -> Int]
      /\ Coherent(s) /\ job[s] \in Jobs /\ leg[s] \in 0 .. 2
    BY DEF Typed, LedgerTypeOK, TypeOK
<1>2. "work" \in Labels /\ "commit" \in Labels /\ "cascade" \in Labels
    BY DEF Labels
<1>3. IsPlan(Plan(s)) /\ Len(Plan(s)) \in 0 .. 2 /\ leg[s] <= Len(Plan(s))
    BY <1>1, PlanOfJob DEF IsPlan, Coherent
<1>4. ASSUME Insert(s) PROVE Typed'
    <2>1. /\ pc' = [pc EXCEPT ![s] = "work"] /\ job' = [job EXCEPT ![s].tx = seq']
          /\ leg' = leg /\ draft' = draft /\ seq' \in Txs /\ seq' \in Nat
          /\ job[s].op = "create"
        BY <1>1, <1>4 DEF Insert, IdLeft, Coherent
    <2>2. /\ job'[s] \in Jobs /\ job'[s].op = "create" /\ job'[s].new = job[s].new
          /\ job'[s].old = job[s].old /\ job' \in [Slots -> Jobs]
        BY <1>1, <2>1 DEF Jobs
    <2>3. Plan(s)' = Plan(s)
        BY <2>1, <2>2 DEF Plan
    <2>4. Coherent(s)'
        BY <1>1, <2>1, <2>2, <2>3 DEF Coherent
    <2>5. \A o \in Slots \ {s} :
             pc'[o] = pc[o] /\ job'[o] = job[o] /\ leg'[o] = leg[o]
        BY <1>1, <2>1
    <2>6. pc' \in [Slots -> Labels]
        BY <1>1, <1>2, <2>1
    <2>7. UNCHANGED <<ledger, contested>> /\ Take(s)
        BY <1>4 DEF Insert
    <2> QED BY <1>1, <2>1, <2>2, <2>4, <2>5, <2>6, <2>7, StepTyped
<1>5. ASSUME InsertRefused(s) PROVE Typed'
    BY <1>1, <1>5, RollbackTyped DEF InsertRefused, IdLeft
<1>6. ASSUME Recheck(s) PROVE Typed'
    <2>1. pc'[s] = "work" /\ job' = job /\ leg' = leg /\ job[s].op = "delete"
        BY <1>1, <1>6 DEF Recheck, Coherent
    <2>2. Plan(s)' = Plan(s)
        BY <2>1 DEF Plan
    <2>3. Coherent(s)'
        BY <1>1, <2>1, <2>2 DEF Coherent
    <2> QED BY <1>1, <1>2, <1>6, <2>3, StepTyped DEF Recheck
<1>7. ASSUME RecheckGone(s) PROVE Typed'
    BY <1>1, <1>7, RollbackTyped DEF RecheckGone, Rollback
<1>8. ASSUME Leg(s) PROVE Typed'
    <2> DEFINE x == Target(s)
               sum == View(s, x) + Cents(Plan(s)[leg[s] + 1].by)
    <2>1. leg[s] + 1 \in 1 .. Len(Plan(s)) /\ leg[s] + 1 \in 0 .. 2
        BY <1>1, <1>3, <1>8, NextLeg DEF Leg, LegsDone
    <2>2. x \in Accounts /\ sum \in Int
        <3>1. x \in Accounts /\ Plan(s)[leg[s] + 1].by \in Int
            BY <1>3, <2>1 DEF IsPlan, Target
        <3>2. Cents(Plan(s)[leg[s] + 1].by) \in Int
            BY <3>1, CentsInt
        <3>3. View(s, x) \in Int
            BY <1>1, <3>1 DEF View
        <3> QED BY <3>1, <3>2, <3>3
    <2>3. /\ draft' = [draft EXCEPT ![s][x] = sum]
          /\ leg' = [leg EXCEPT ![s] = @ + 1] /\ pc' = pc /\ job' = job
          /\ pc[s] = "work" /\ Take(s) /\ UNCHANGED <<ledger, contested, seq>>
        BY <1>8 DEF Leg
    <2> HIDE DEF x, sum
    <2>4. /\ draft' \in [Slots -> [Accounts -> Int]] /\ leg' \in [Slots -> 0 .. 2]
          /\ leg'[s] = leg[s] + 1
        BY <1>1, <2>1, <2>2, <2>3
    <2>5. Plan(s)' = Plan(s)
        BY <2>3 DEF Plan
    <2>6. Coherent(s)'
        <3>1. leg'[s] <= Len(Plan(s)')
            BY <1>3, <2>1, <2>4, <2>5
        <3> QED BY <1>1, <2>3, <2>4, <2>5, <3>1 DEF Coherent
    <2> QED BY <1>1, <2>3, <2>4, <2>6, StepTyped
<1>9. ASSUME LegOfNobody(s) PROVE Typed'
    <2>1. leg[s] + 1 \in 1 .. Len(Plan(s)) /\ leg[s] + 1 \in 0 .. 2
        <3>1. ~LegsDone(s)
            BY <1>9 DEF LegOfNobody
        <3>2. leg[s] # Len(Plan(s))
            BY <3>1 DEF LegsDone
        <3> QED BY <1>1, <1>3, <3>2, NextLeg
    <2>2. /\ leg' \in [Slots -> 0 .. 2] /\ leg'[s] = leg[s] + 1 /\ pc[s] = "work"
          /\ pc' = pc /\ job' = job
        BY <1>1, <1>9, <2>1 DEF LegOfNobody
    <2>3. Plan(s)' = Plan(s)
        BY <2>2 DEF Plan
    <2>4. Coherent(s)'
        BY <1>1, <2>1, <2>2, <2>3 DEF Coherent
    <2> QED BY <1>1, <1>9, <2>2, <2>4, StepTyped DEF LegOfNobody
<1>10. ASSUME Overflow(s) PROVE Typed'
    BY <1>1, <1>10, RollbackTyped DEF Overflow, Rollback
<1>11. ASSUME WriteRow(s) PROVE Typed'
    <2>1. /\ pc'[s] = "commit" /\ job' = job /\ leg' = leg /\ LegsDone(s)
          /\ job[s].op \in {"update", "delete"}
        BY <1>1, <1>11 DEF WriteRow
    <2>2. Plan(s)' = Plan(s)
        BY <2>1 DEF Plan
    <2>3. Coherent(s)'
        BY <1>1, <2>1, <2>2 DEF Coherent, LegsDone
    <2> QED BY <1>1, <1>2, <1>11, <2>3, StepTyped DEF WriteRow
<1>12. ASSUME UpdateGone(s) PROVE Typed'
    BY <1>1, <1>12, RollbackTyped DEF UpdateGone, Rollback
<1>13. ASSUME CloseRow(s) PROVE Typed'
    <2>1. /\ job' = [job EXCEPT ![s].doomed = @ \ {Smallest(@)}]
          /\ pc' = pc /\ leg' = leg /\ pc[s] = "rows"
        BY <1>13 DEF CloseRow
    <2>2. /\ job' \in [Slots -> Jobs] /\ job'[s].op = job[s].op
          /\ job'[s].acc = job[s].acc /\ job'[s].old = job[s].old
          /\ job'[s].tx = job[s].tx
          /\ job[s].op = "close"
        BY <1>1, <2>1 DEF Jobs, Coherent
    <2>3. Plan(s)' = << >> /\ Plan(s) = << >>
        BY <2>2 DEF Plan
    <2>4. Coherent(s)'
        BY <1>1, <2>1, <2>2, <2>3 DEF Coherent
    <2> QED BY <1>1, <1>13, <2>1, <2>2, <2>4, StepTyped DEF CloseRow
<1>14. ASSUME CloseAccount(s) PROVE Typed'
    <2>1. pc'[s] = "cascade" /\ job' = job /\ leg' = leg /\ job[s].op = "close" /\ leg[s] = 0
        BY <1>1, <1>14 DEF CloseAccount, Coherent
    <2>2. Plan(s)' = Plan(s)
        BY <2>1 DEF Plan
    <2>3. Coherent(s)'
        BY <1>1, <2>1, <2>2 DEF Coherent
    <2> QED BY <1>1, <1>2, <1>14, <2>3, StepTyped DEF CloseAccount
<1>15. ASSUME Cascade(s) PROVE Typed'
    <2>1. pc'[s] = "commit" /\ job' = job /\ leg' = leg /\ job[s].op = "close" /\ leg[s] = 0
        BY <1>1, <1>15 DEF Cascade, Coherent
    <2>2. Plan(s)' = << >>
        BY <2>1 DEF Plan
    <2>3. Coherent(s)'
        BY <1>1, <2>1, <2>2 DEF Coherent, LegsDone
    <2> QED BY <1>1, <1>2, <1>15, <2>3, StepTyped DEF Cascade
<1> QED BY <1>4, <1>5, <1>6, <1>7, <1>8, <1>9, <1>10, <1>11, <1>12, <1>13, <1>14, <1>15
        DEF Statement

LEMMA CommitTyped ==
    ASSUME Typed, NEW s \in Slots, Commit(s), CommitsLocked(s)
    PROVE  Typed'
<1>1. /\ rows \in [Txs -> Row \cup {NoRow}] /\ kept \in [Txs -> Row \cup {NoRow}]
      /\ balance \in [Accounts -> Int] /\ live \subseteq Accounts /\ seq \in Nat
      /\ opening \in [Accounts -> Int \cup {None}] /\ contested \in BOOLEAN
      /\ draft \in [Slots -> [Accounts -> Int]]
      /\ Coherent(s) /\ job[s] \in Jobs
    BY DEF Typed, LedgerTypeOK, TypeOK
<1>2. ASSUME NEW r \in Row, NEW x \in Int
      PROVE  Stored(r) \in Row /\ Stored([r EXCEPT !.amt = x]) \in Row
    <2>1. Cents(r.amt) \in Int /\ Cents(x) \in Int
        BY CentsInt DEF Row
    <2> QED BY <2>1 DEF Stored, Row
<1>3. ASSUME Publish(s) PROVE balance' \in [Accounts -> Int]
    BY <1>1, <1>3 DEF Publish, View
<1>4. ASSUME CommitCreate(s) PROVE Typed'
    <2>1. Stored(job[s].new) \in Row
        <3>1. job[s].new \in Row
            BY <1>1, <1>4, BodiesAssumption DEF CommitCreate, Coherent
        <3>2. PICK x \in Int : TRUE
            OBVIOUS
        <3> QED BY <1>2, <3>1, <3>2
    <2>2. rows' \in [Txs -> Row \cup {NoRow}]
        BY <1>1, <1>4, <2>1 DEF CommitCreate
    <2> QED BY <1>1, <1>3, <1>4, <2>2, ReleaseTyped
            DEF CommitCreate, Typed, LedgerTypeOK, TypeOK
<1>5. ASSUME CommitUpdate(s) PROVE Typed'
    <2> DEFINE t == job[s].tx
    <2>1. job[s].new.amt \in Int /\ t \in Txs
        BY <1>1, <1>5, AmountsAssumption DEF CommitUpdate, Coherent, Row
    <2>2. rows[t] \in Row
        BY <1>1, <1>5, <2>1 DEF CommitUpdate, CommitsLocked
    <2>3. Stored([rows[t] EXCEPT !.amt = job[s].new.amt]) \in Row
        BY <1>2, <2>1, <2>2
    <2>4. rows' \in [Txs -> Row \cup {NoRow}]
        BY <1>1, <1>5, <2>3 DEF CommitUpdate
    <2> QED BY <1>1, <1>3, <1>5, <2>4, ReleaseTyped
            DEF CommitUpdate, Typed, LedgerTypeOK, TypeOK
<1>6. ASSUME CommitDelete(s) PROVE Typed'
    <2>1. rows' \in [Txs -> Row \cup {NoRow}]
        BY <1>1, <1>6 DEF CommitDelete
    <2> QED BY <1>1, <1>3, <1>6, <2>1, ReleaseTyped
            DEF CommitDelete, Typed, LedgerTypeOK, TypeOK
<1>7. ASSUME CommitClose(s) PROVE Typed'
    <2> DEFINE x == job[s].acc
    <2>1. \A r \in Row : [r EXCEPT !.to = None] \in Row
        BY DEF Row
    <2>2. Without(x) \in [Txs -> Row \cup {NoRow}] /\ KeptAfter(x) \in [Txs -> Row \cup {NoRow}]
        BY <1>1, <2>1 DEF Without, KeptAfter
    <2>3. /\ rows' = Without(x) /\ kept' = KeptAfter(x) /\ live' = live \ {x}
          /\ balance' = [balance EXCEPT ![x] = 0] /\ Release(s)
          /\ UNCHANGED <<opening, seq, contested>>
        BY <1>7 DEF CommitClose
    <2> HIDE DEF x
    <2>4. live' \subseteq Accounts /\ balance' \in [Accounts -> Int]
        <3>1. live' \subseteq Accounts
            BY <1>1, <2>3
        <3>2. /\ balance \in [Accounts -> Int] /\ balance' = [balance EXCEPT ![x] = 0]
              /\ x \in Accounts
            BY <1>1, <1>7, <2>3 DEF CommitClose, Coherent, x
        <3>3. balance' \in [Accounts -> Int]
            BY <3>2
        <3> QED BY <3>1, <3>3
    <2>5. TypeOK' /\ seq' \in Nat /\ contested' \in BOOLEAN
        BY <1>1, <2>2, <2>3, <2>4 DEF TypeOK
    <2> QED BY <2>3, <2>5, ReleaseTyped DEF Typed, LedgerTypeOK
<1> QED BY <1>4, <1>5, <1>6, <1>7 DEF Commit

-----------------------------------------------------------------------------
(* The inductive invariant of Ledger and the lemmas about its steps.       *)

Inv == LedgerTypeOK /\ LedgerInv

LEMMA InvTyped == Inv => Typed
    BY DEF Inv, Typed, LedgerInv, SessionInv

LEMMA NatReflexive == \A n \in Nat : n <= n
    OBVIOUS

LEMMA NoneIsNoTx == None \notin Txs
<1> SUFFICES ASSUME None \in Txs PROVE FALSE
    OBVIOUS
<1>1. None \in Nat
    BY IdsAssumption
<1>2. None \in Int
    BY <1>1
<1> QED BY <1>2, NoneAssumption

(* Facts about plans.                                                      *)
LEMMA PostedNone ==
    ASSUME NEW p, NEW x
    PROVE  Posted(p, 0, x) = 0
BY DEF Posted

LEMMA PostedStep ==
    ASSUME NEW p, IsPlan(p), NEW n \in 0 .. 2, n < Len(p), NEW x
    PROVE  Posted(p, n + 1, x) =
               Posted(p, n, x) + (IF p[n + 1].acc = x THEN Cents(p[n + 1].by) ELSE 0)
<1>1. ASSUME NEW i \in 1 .. Len(p) PROVE Cents(p[i].by) \in Int
    BY CentsInt DEF IsPlan
<1>2. Len(p) \in 0 .. 2
    BY DEF IsPlan
<1>3. CASE n = 0
    <2>1. 1 \in 1 .. Len(p)
        BY <1>2, <1>3
    <2>2. Cents(p[1].by) \in Int
        BY <1>1, <2>1
    <2> QED BY <1>2, <1>3, <2>1, <2>2 DEF Posted
<1>4. CASE n = 1
    <2>1. 1 \in 1 .. Len(p) /\ 2 \in 1 .. Len(p)
        BY <1>2, <1>4
    <2>2. Cents(p[1].by) \in Int /\ Cents(p[2].by) \in Int
        BY <1>1, <2>1
    <2> QED BY <1>2, <1>4, <2>1, <2>2 DEF Posted
<1> QED BY <1>2, <1>3, <1>4

(* A plan moves no account that none of its legs names.                    *)
LEMMA PostedElsewhere ==
    ASSUME NEW p, IsPlan(p), NEW n \in Int, NEW x,
           \A i \in 1 .. Len(p) : p[i].acc # x
    PROVE  Posted(p, n, x) = 0
<1>1. (1 <= Len(p) => 1 \in 1 .. Len(p)) /\ (2 <= Len(p) => 2 \in 1 .. Len(p))
    BY DEF IsPlan
<1> QED BY <1>1 DEF Posted, IsPlan

(* A complete plan is a plan of as many legs as it has.                    *)
LEMMA PostedAll ==
    ASSUME NEW p, IsPlan(p), NEW x
    PROVE  Posted(p, Len(p), x) = Posted(p, 2, x)
BY DEF Posted, IsPlan

(* The legs of a row name its accounts only.                               *)
LEMMA DeltasAccounts ==
    ASSUME NEW r \in Row, NEW amount \in Int, NEW i \in 1 .. Len(Deltas(r, amount))
    PROVE  Deltas(r, amount)[i].acc \in {r.acc, r.to} \ {None}
<1> DEFINE from == [acc |-> r.acc, by |-> amount]
           less == [acc |-> r.acc, by |-> -amount]
           dest == [acc |-> r.to, by |-> amount]
<1>1. r.acc \in Accounts /\ r.acc # None /\ r.typ \in Types
    BY NoneAssumption DEF Row
<1>2. CASE r.typ = "income"
    <2>1. Deltas(r, amount) = <<from>>  BY <1>2 DEF Deltas
    <2> QED BY <2>1, <1>1
<1>3. CASE r.typ = "expense"
    <2>1. Deltas(r, amount) = <<less>>  BY <1>3 DEF Deltas
    <2> QED BY <2>1, <1>1
<1>4. CASE r.typ = "transfer" /\ r.to = None
    <2>1. Deltas(r, amount) = <<less>>  BY <1>4 DEF Deltas
    <2> QED BY <2>1, <1>1
<1>5. CASE r.typ = "transfer" /\ r.to # None
    <2>1. Deltas(r, amount) = <<less, dest>>  BY <1>5 DEF Deltas
    <2> QED BY <2>1, <1>1, <1>5
<1>6. CASE r.typ = "other"
    <2>1. Deltas(r, amount) = << >>  BY <1>6 DEF Deltas
    <2> QED BY <2>1
<1> QED BY <1>1, <1>2, <1>3, <1>4, <1>5, <1>6 DEF Types

-----------------------------------------------------------------------------
(* Sessions that a step leaves alone.                                      *)

(* What the step of another session, or a rollback, does to session o.     *)
SameSession(o) ==
    /\ pc'[o] = pc[o] /\ job'[o] = job[o] /\ leg'[o] = leg[o]
    /\ held'[o] = held[o] /\ draft'[o] = draft[o]

LEMMA FrameViews ==
    ASSUME NEW o, SameSession(o)
    PROVE  Plan(o)' = Plan(o) /\ \A x : (Written(o, x)' <=> Written(o, x))
BY DEF SameSession, Plan, Written

LEMMA SessionFrame ==
    ASSUME NEW o \in Slots, SessionInv(o), SameSession(o), UNCHANGED ledger,
           seq \in Nat, seq' \in Nat, seq <= seq', Txs \subseteq Nat,
           \A q \in Slots \ {o} : job'[q].tx = job[q].tx \/ job'[q].tx # job[o].tx
                                  \/ job[o].tx \notin Txs
    PROVE  SessionInv(o)'
<1> USE DEF ledger
<1>1. Plan(o)' = Plan(o) /\ \A x : (Written(o, x)' <=> Written(o, x))
    BY FrameViews
<1>2. Coherent(o)'
    BY CoherentFrame DEF SameSession, SessionInv
<1>3. DraftIsOwnLegs(o)'
    BY <1>1 DEF SessionInv, DraftIsOwnLegs, SameSession
<1>4. InsertedIsFresh(o)'
    <2>1. CASE pc[o] = "work" /\ job[o].op = "create"
        <3>1. /\ job[o].tx \in Txs /\ job[o].tx \in Nat /\ job[o].tx <= seq
              /\ \A q \in Slots \ {o} : job[q].tx # job[o].tx
            BY <2>1 DEF SessionInv, InsertedIsFresh
        <3>2. job[o].tx <= seq' /\ \A q \in Slots \ {o} : job'[q].tx # job[o].tx
            BY <3>1
        <3> QED BY <2>1, <3>2 DEF SessionInv, InsertedIsFresh, SameSession
    <2>2. CASE ~(pc[o] = "work" /\ job[o].op = "create")
        BY <2>2 DEF InsertedIsFresh, SameSession
    <2> QED BY <2>1, <2>2
<1>5. ImageOfRow(o)'
    <2>1. ASSUME job[o].op \in {"update", "delete"} PROVE job[o].tx \in Nat
        BY <2>1 DEF SessionInv, Coherent
    <2> QED BY <2>1 DEF SessionInv, ImageOfRow, SameSession, Opened
<1>6. CommitsLocked(o)'
    BY DEF SessionInv, CommitsLocked, SameSession, Present
<1> QED BY <1>2, <1>3, <1>4, <1>5, <1>6 DEF SessionInv

LEMMA StoreFrame ==
    ASSUME StoreInv, UNCHANGED ledger, seq \in Nat, seq' \in Nat, seq <= seq',
           Txs \subseteq Nat
    PROVE  StoreInv'
BY DEF StoreInv, ReferencesLive, Opened, InRange, ledger

(* An idle session satisfies everything.                                   *)
LEMMA IdleSession ==
    ASSUME NEW s \in Slots, pc[s] = "idle", job[s] = NoJob, leg[s] = 0, held[s] = {}
    PROVE  SessionInv(s)
<1>1. Plan(s) = << >>
    BY DEF Plan, NoJob
<1>2. Coherent(s)
    BY <1>1 DEF Coherent, NoJob
<1>3. DraftIsOwnLegs(s)
    BY PostedNone DEF DraftIsOwnLegs, Written
<1> QED BY <1>2, <1>3 DEF SessionInv, InsertedIsFresh, ImageOfRow, CommitsLocked, NoJob

LEMMA TakeCompatible ==
    ASSUME Compatible(held), held \in [Slots -> SUBSET Locks], NEW s \in Slots,
           Take(s)
    PROVE  Compatible(held')
<1>1. held' = [held EXCEPT ![s] = @ \cup Wants[s]] /\ Blockers(held, Wants, s) = {}
    BY DEF Take, Wants
<1> QED BY <1>1, GrantCompatible

LEMMA ReleaseCompatible ==
    ASSUME Compatible(held), held \in [Slots -> SUBSET Locks], NEW s \in Slots,
           Release(s)
    PROVE  Compatible(held')
BY FreeCompatible DEF Release

(* No two sessions have written the same balance, and a row locked for     *)
(* deletion is locked by nobody else.                                      *)
LEMMA Exclusive ==
    ASSUME Compatible(held), held \in [Slots -> SUBSET Locks],
           NEW s \in Slots, NEW o \in Slots, s # o,
           NEW kind, NEW id, NEW m, NEW n,
           Lock(kind, id, m) \in held[s], Lock(kind, id, n) \in held[o]
    PROVE  ~Conflict(m, n)
<1>1. /\ Lock(kind, id, m)[1] = Lock(kind, id, n)[1]
      /\ Lock(kind, id, m)[2] = m /\ Lock(kind, id, n)[2] = n
    BY DEF Lock
<1> QED BY <1>1 DEF Compatible

-----------------------------------------------------------------------------
(* The steps, one lemma for each group of actions.                         *)

LEMMA ReleaseSession ==
    ASSUME LedgerTypeOK, NEW s \in Slots, Release(s)
    PROVE  /\ SessionInv(s)'
           /\ \A o \in Slots \ {s} : SameSession(o)
           /\ job'[s].tx = None
<1>1. pc'[s] = "idle" /\ job'[s] = NoJob /\ leg'[s] = 0 /\ held'[s] = {}
    BY DEF Release, Goto, LedgerTypeOK
<1>2. SessionInv(s)'
    <2>1. Plan(s)' = << >>
        BY <1>1 DEF Plan, NoJob
    <2>2. Coherent(s)'
        BY <1>1, <2>1 DEF Coherent, NoJob
    <2>3. DraftIsOwnLegs(s)'
        BY <1>1, <2>1, PostedNone DEF DraftIsOwnLegs, Written
    <2> QED BY <1>1, <2>2, <2>3
            DEF SessionInv, InsertedIsFresh, ImageOfRow, CommitsLocked, NoJob
<1>3. \A o \in Slots \ {s} : SameSession(o)
    BY DEF Release, Goto, LedgerTypeOK, SameSession
<1> QED BY <1>1, <1>2, <1>3 DEF NoJob

LEMMA RollbackInv ==
    ASSUME Inv, NEW s \in Slots, Release(s), UNCHANGED ledger,
           seq' \in Nat, seq <= seq'
    PROVE  LedgerInv'
<1>1. /\ LedgerTypeOK /\ StoreInv /\ Compatible(held) /\ \A o \in Slots : SessionInv(o)
      /\ held \in [Slots -> SUBSET Locks] /\ seq \in Nat
    BY DEF Inv, LedgerInv, LedgerTypeOK
<1>2. Compatible(held')
    BY <1>1, ReleaseCompatible
<1>3. StoreInv'
    BY <1>1, StoreFrame, IdsAssumption
<1>4. ASSUME NEW o \in Slots, o # s PROVE SessionInv(o)'
    <2>1. SameSession(o) /\ job'[s].tx = None /\ \A q \in Slots \ {s} : job'[q].tx = job[q].tx
        BY <1>1, <1>4, ReleaseSession DEF SameSession
    <2>2. \A q \in Slots \ {o} : job'[q].tx = job[q].tx \/ job'[q].tx # job[o].tx
                                 \/ job[o].tx \notin Txs
        BY <2>1, NoneIsNoTx
    <2> QED BY <1>1, <2>1, <2>2, SessionFrame, IdsAssumption
<1>5. SessionInv(s)'
    BY <1>1, ReleaseSession
<1> QED BY <1>2, <1>3, <1>4, <1>5 DEF LedgerInv, Compatible

(* A step of one session that commits nothing.                             *)
LEMMA StepInv ==
    ASSUME Inv, NEW s \in Slots, UNCHANGED ledger, seq' \in Nat, seq <= seq',
           Take(s) \/ UNCHANGED held, SessionInv(s)',
           \A o \in Slots \ {s} :
              /\ pc'[o] = pc[o] /\ job'[o] = job[o]
              /\ leg'[o] = leg[o] /\ draft'[o] = draft[o]
              /\ job'[s].tx = job[s].tx \/ job'[s].tx # job[o].tx \/ job[o].tx \notin Txs
    PROVE  LedgerInv'
<1>1. /\ StoreInv /\ Compatible(held) /\ \A o \in Slots : SessionInv(o)
      /\ held \in [Slots -> SUBSET Locks] /\ seq \in Nat
    BY DEF Inv, LedgerInv, LedgerTypeOK
<1>2. Compatible(held')
    BY <1>1, TakeCompatible
<1>3. StoreInv'
    BY <1>1, StoreFrame, IdsAssumption
<1>4. ASSUME NEW o \in Slots, o # s PROVE SessionInv(o)'
    <2>1. held'[o] = held[o]
        BY <1>1, <1>4 DEF Take
    <2>2. SameSession(o)
        BY <1>4, <2>1 DEF SameSession
    <2>3. \A q \in Slots \ {o} : job'[q].tx = job[q].tx \/ job'[q].tx # job[o].tx
                                 \/ job[o].tx \notin Txs
        BY <1>4
    <2> QED BY <1>1, <2>2, <2>3, SessionFrame, IdsAssumption
<1> QED BY <1>2, <1>3, <1>4 DEF LedgerInv, Compatible

LEMMA BeginInv ==
    ASSUME Inv, NEW s \in Slots, NEW label \in {"insert", "recheck", "work", "rows"},
           NEW j \in Jobs, Begin(s, label, j), Coherent(s)',
           j.op = "create" => label = "insert",
           j.op \notin {"update", "delete"} => j.tx = None,
           j.op = "close" => j.acc \in live,
           j.op \in {"update", "delete"} =>
              j.tx \in Txs /\ rows[j.tx] # NoRow /\ j.old = rows[j.tx]
    PROVE  LedgerInv'
<1> USE DEF Begin, Goto, ledger
<1>1. /\ StoreInv /\ Compatible(held) /\ \A o \in Slots : SessionInv(o)
      /\ held \in [Slots -> SUBSET Locks] /\ seq \in Nat /\ Coherent(s)
      /\ pc \in [Slots -> Labels] /\ job \in [Slots -> Jobs]
      /\ leg \in [Slots -> 0 .. 2] /\ rows \in [Txs -> Row \cup {NoRow}]
    BY DEF Inv, LedgerInv, LedgerTypeOK, TypeOK, SessionInv
<1>2. /\ pc'[s] = label /\ job'[s] = j /\ leg'[s] = 0 /\ held'[s] = {}
      /\ UNCHANGED <<ledger, seq, held, draft, leg>>
    BY <1>1 DEF Coherent
<1>3. DraftIsOwnLegs(s)'
    <2>1. \A x : Posted(Plan(s)', 0, x) = 0
        BY PostedNone
    <2> QED BY <1>2, <2>1 DEF DraftIsOwnLegs, Written
<1>4. InsertedIsFresh(s)'
    BY <1>2 DEF InsertedIsFresh
<1>5. ImageOfRow(s)'
    <2>1. CASE j.op \in {"update", "delete"}
        <3>1. /\ j.tx <= seq /\ j.old \in Row
              /\ j.old.acc \in live /\ j.old.to \in live \cup {None}
            BY <1>1, <2>1 DEF StoreInv, ReferencesLive
        <3>2. Opened(j.old.acc) /\ (j.old.to # None => Opened(j.old.to))
            BY <1>1, <3>1 DEF StoreInv
        <3> QED BY <1>2, <2>1, <3>1, <3>2 DEF ImageOfRow, Opened
    <2>2. CASE j.op \notin {"update", "delete"}
        BY <1>1, <1>2, <2>2 DEF ImageOfRow, StoreInv, Opened
    <2> QED BY <2>1, <2>2
<1>6. CommitsLocked(s)'
    BY <1>2 DEF CommitsLocked
<1>7. ASSUME NEW o \in Slots \ {s}
      PROVE  job'[s].tx = job[s].tx \/ job'[s].tx # job[o].tx \/ job[o].tx \notin Txs
             \/ rows[job[o].tx] # NoRow
    BY <1>2, NoneIsNoTx
<1>8. StoreInv' /\ Compatible(held')
    BY <1>1, StoreFrame, IdsAssumption
<1>9. ASSUME NEW o \in Slots, o # s PROVE SessionInv(o)'
    <2>1. SameSession(o) /\ \A q \in Slots \ {s} : job'[q] = job[q]
        BY <1>1, <1>9 DEF SameSession
    <2>2. CASE rows[job[o].tx] # NoRow
        <3>1. Plan(o)' = Plan(o) /\ \A x : (Written(o, x)' <=> Written(o, x))
            BY <2>1, FrameViews
        <3>2. SessionInv(o)
            BY <1>1
        <3>3. Coherent(o)'
            BY <2>1, <3>2, CoherentFrame DEF SessionInv, SameSession
        <3>4. DraftIsOwnLegs(o)'
            BY <2>1, <3>1, <3>2 DEF SessionInv, DraftIsOwnLegs, SameSession
        <3>5. InsertedIsFresh(o)'
            BY <2>1, <2>2, <3>2 DEF SessionInv, InsertedIsFresh, SameSession
        <3>6. ImageOfRow(o)' /\ CommitsLocked(o)'
            BY <1>2, <2>1, <3>2
               DEF SessionInv, ImageOfRow, CommitsLocked, SameSession, Opened, Present
        <3> QED BY <3>3, <3>4, <3>5, <3>6 DEF SessionInv
    <2>3. CASE rows[job[o].tx] = NoRow
        <3>1. \A q \in Slots \ {o} : job'[q].tx = job[q].tx \/ job'[q].tx # job[o].tx
                                     \/ job[o].tx \notin Txs
            BY <1>7, <1>9, <2>1, <2>3
        <3> QED BY <1>1, <2>1, <3>1, SessionFrame, IdsAssumption
    <2> QED BY <2>2, <2>3
<1> QED BY <1>3, <1>4, <1>5, <1>6, <1>8, <1>9 DEF LedgerInv, SessionInv, Compatible

LEMMA BeginRequestInv ==
    ASSUME Inv, NEW s \in Slots, BeginRequest(s)
    PROVE  LedgerInv'
<1>1. Coherent(s)'
    BY InvTyped, BeginRequestTyped DEF Typed
<1>2. rows \in [Txs -> Row \cup {NoRow}]
    BY DEF Inv, LedgerTypeOK, TypeOK
<1>3. ASSUME NEW body \in Bodies, BeginCreate(s, body) PROVE LedgerInv'
    <2> DEFINE j == [NoJob EXCEPT !.op = "create", !.new = body]
    <2>1. j \in Jobs /\ j.op = "create" /\ j.tx = None /\ Begin(s, "insert", j)
        BY <1>3, BodiesAssumption DEF BeginCreate, NoJob, Jobs
    <2> HIDE DEF j
    <2> QED BY <1>1, <2>1, BeginInv
<1>4. ASSUME NEW t \in Txs, NEW amount \in Amounts, BeginUpdate(s, t, amount)
      PROVE  LedgerInv'
    <2> DEFINE new == [rows[t] EXCEPT !.amt = amount]
               j == [NoJob EXCEPT !.op = "update", !.tx = t, !.old = rows[t], !.new = new]
    <2>1. rows[t] \in Row /\ new \in Row
        BY <1>2, <1>4, AmountsAssumption DEF BeginUpdate, Row
    <2>2. /\ j \in Jobs /\ j.op = "update" /\ j.tx = t /\ j.old = rows[t]
          /\ Begin(s, "work", j) /\ rows[t] # NoRow
        BY <1>4, <2>1 DEF BeginUpdate, NoJob, Jobs
    <2> HIDE DEF j
    <2> QED BY <1>1, <2>2, BeginInv
<1>5. ASSUME NEW t \in Txs, BeginDelete(s, t) PROVE LedgerInv'
    <2> DEFINE j == [NoJob EXCEPT !.op = "delete", !.tx = t, !.old = rows[t]]
    <2>1. rows[t] \in Row
        BY <1>2, <1>5 DEF BeginDelete
    <2>2. /\ j \in Jobs /\ j.op = "delete" /\ j.tx = t /\ j.old = rows[t]
          /\ Begin(s, "recheck", j) /\ rows[t] # NoRow
        BY <1>5, <2>1 DEF BeginDelete, NoJob, Jobs
    <2> HIDE DEF j
    <2> QED BY <1>1, <2>2, BeginInv
<1>6. ASSUME NEW x \in Accounts, BeginClose(s, x) PROVE LedgerInv'
    <2> DEFINE d == {t \in Present : rows[t].acc = x}
               j == [NoJob EXCEPT !.op = "close", !.acc = x, !.doomed = d]
    <2>1. d \subseteq Txs
        BY DEF Present
    <2>2. /\ j \in Jobs /\ j.op = "close" /\ j.tx = None /\ Begin(s, "rows", j)
          /\ j.acc = x /\ x \in live
        BY <1>6, <2>1 DEF BeginClose, NoJob, Jobs
    <2> HIDE DEF j
    <2> QED BY <1>1, <2>2, BeginInv
<1> QED BY <1>3, <1>4, <1>5, <1>6 DEF BeginRequest

(* Locks on anything but a balance leave the drafts as they are.           *)
LEMMA DraftFrame ==
    ASSUME NEW s \in Slots, DraftIsOwnLegs(s), UNCHANGED ledger,
           Plan(s)' = Plan(s), leg'[s] = leg[s], draft'[s] = draft[s],
           \A x : (Written(s, x)' <=> Written(s, x))
    PROVE  DraftIsOwnLegs(s)'
BY DEF DraftIsOwnLegs, ledger

LEMMA TakeWritten ==
    ASSUME Inv, NEW s \in Slots, Take(s),
           \A x : Lock("account", x, "no key update") \notin Wanted(s)
    PROVE  /\ held'[s] = held[s] \cup Wanted(s)
           /\ \A x : (Written(s, x)' <=> Written(s, x))
<1>1. held'[s] = held[s] \cup Wanted(s)
    BY DEF Take, Inv, LedgerTypeOK
<1>2. ASSUME NEW x PROVE (Written(s, x)' <=> Written(s, x))
    <2> DEFINE l == Lock("account", x, "no key update")
    <2>1. l \notin Wanted(s)
        OBVIOUS
    <2> HIDE DEF l
    <2>2. l \in held'[s] <=> l \in held[s]
        BY <1>1, <2>1
    <2> QED BY <2>2 DEF Written, l
<1> QED BY <1>1, <1>2

LEMMA InsertInv ==
    ASSUME Inv, NEW s \in Slots, Insert(s)
    PROVE  LedgerInv'
<1> USE DEF Goto, ledger
<1>1. /\ StoreInv /\ \A o \in Slots : SessionInv(o)
      /\ held \in [Slots -> SUBSET Locks] /\ seq \in Nat /\ Coherent(s)
      /\ pc \in [Slots -> Labels] /\ job \in [Slots -> Jobs] /\ job[s] \in Jobs
      /\ live \subseteq Accounts
    BY DEF Inv, LedgerInv, LedgerTypeOK, TypeOK, SessionInv
<1>2. /\ pc[s] = "insert" /\ pc'[s] = "work" /\ job' = [job EXCEPT ![s].tx = seq']
      /\ UNCHANGED <<ledger, leg, draft>> /\ seq' = seq + 1 /\ seq' \in Txs
      /\ job[s].op = "create" /\ leg[s] = 0 /\ Take(s)
      /\ job[s].new.acc \in live \cup {None} /\ job[s].new.to \in live \cup {None}
    BY <1>1 DEF Insert, IdLeft, KeysHold, Coherent
<1>3. /\ job'[s].op = "create" /\ job'[s].new = job[s].new /\ job'[s].tx = seq + 1
      /\ \A o \in Slots \ {s} : job'[o] = job[o]
    BY <1>1, <1>2 DEF Jobs
<1>4. Coherent(s)'
    BY InvTyped, StatementTyped DEF Typed, Statement
<1>5. job[s].new.acc \in live
    <2>1. job[s].new.acc \in Accounts
        BY <1>1, <1>2, BodiesAssumption DEF Coherent, Row
    <2> QED BY <1>2, <2>1, NoneAssumption
<1>6. Wanted(s) = {Lock("account", x, "key share") : x \in {job[s].new.acc, job[s].new.to} \cap live}
    BY <1>2 DEF Wanted
<1>7. held'[s] = held[s] \cup Wanted(s) /\ \A x : (Written(s, x)' <=> Written(s, x))
    <2>1. \A x : Lock("account", x, "no key update") \notin Wanted(s)
        BY <1>6 DEF Lock
    <2> QED BY <1>2, <2>1, TakeWritten
<1>8. DraftIsOwnLegs(s)'
    <2>1. Plan(s)' = Plan(s)
        BY <1>2, <1>3 DEF Plan
    <2> QED BY <1>1, <1>2, <1>7, <2>1, DraftFrame DEF SessionInv
<1>9. ASSUME NEW o \in Slots \ {s} PROVE job[o].tx # seq + 1
    <2>1. SessionInv(o) /\ job[o] \in Jobs
        BY <1>1
    <2>2. CASE job[o].op = "create" /\ pc[o] = "work"
        <3>1. job[o].tx <= seq /\ job[o].tx \in Txs
            BY <2>1, <2>2 DEF SessionInv, InsertedIsFresh
        <3> QED BY <1>1, <3>1, IdsAssumption
    <2>3. CASE job[o].op \in {"update", "delete"}
        <3>1. job[o].tx <= seq /\ job[o].tx \in Txs
            BY <2>1, <2>3 DEF SessionInv, ImageOfRow, Coherent
        <3> QED BY <1>1, <3>1, IdsAssumption
    <2>4. CASE job[o].op = "close" \/ pc[o] = "idle" \/ pc[o] = "insert"
        <3>1. job[o].tx = None
            BY <2>1, <2>4 DEF SessionInv, Coherent, NoJob
        <3> QED BY <1>2, <3>1, NoneIsNoTx
    <2>5. pc[o] \in Labels
        BY <1>1
    <2> QED BY <2>1, <2>2, <2>3, <2>4, <2>5 DEF SessionInv, Coherent, Labels
<1>10. InsertedIsFresh(s)'
    <2>1. rows[seq + 1] = NoRow /\ kept[seq + 1] = NoRow
        BY <1>1, <1>2 DEF StoreInv
    <2>2. \A x \in {job[s].new.acc, job[s].new.to} \ {None} :
             Lock("account", x, "key share") \in held'[s]
        BY <1>2, <1>5, <1>6, <1>7
    <2>3. /\ live' = live /\ rows' = rows /\ kept' = kept
          /\ job'[s].tx \in Txs /\ job'[s].tx <= seq'
          /\ \A o \in Slots \ {s} : job'[o].tx # job'[s].tx
        BY <1>1, <1>2, <1>3, <1>9
    <2> QED BY <1>2, <1>3, <1>5, <2>1, <2>2, <2>3 DEF InsertedIsFresh
<1>11. ImageOfRow(s)' /\ CommitsLocked(s)'
    BY <1>2, <1>3 DEF ImageOfRow, CommitsLocked
<1>12. SessionInv(s)'
    BY <1>4, <1>8, <1>10, <1>11 DEF SessionInv
<1>13. \A o \in Slots \ {s} :
          /\ pc'[o] = pc[o] /\ job'[o] = job[o] /\ leg'[o] = leg[o] /\ draft'[o] = draft[o]
          /\ job'[s].tx # job[o].tx
    BY <1>1, <1>2, <1>3, <1>9 DEF Insert
<1>14. seq' \in Nat /\ seq <= seq'
    BY <1>1, <1>2
<1> QED BY <1>2, <1>12, <1>13, <1>14, StepInv

(* A session whose request keeps its images keeps what is said of them.    *)
LEMMA SameImages ==
    ASSUME NEW s \in Slots, SessionInv(s), UNCHANGED <<ledger, seq>>, job'[s] = job[s],
           job[s].op # "create" \/ (pc'[s] = pc[s] /\ held[s] \subseteq held'[s]),
           \A o \in Slots : job'[o] = job[o]
    PROVE  InsertedIsFresh(s)' /\ ImageOfRow(s)'
<1>1. ImageOfRow(s)'
    BY DEF SessionInv, ImageOfRow, Opened, ledger
<1>2. InsertedIsFresh(s)'
    BY DEF SessionInv, InsertedIsFresh, ledger
<1> QED BY <1>1, <1>2

LEMMA LegInv ==
    ASSUME Inv, NEW s \in Slots, Leg(s)
    PROVE  LedgerInv'
<1>1. /\ SessionInv(s) /\ seq \in Nat /\ leg[s] \in 0 .. 2
      /\ held \in [Slots -> SUBSET Locks] /\ leg \in [Slots -> 0 .. 2]
      /\ draft \in [Slots -> [Accounts -> Int]] /\ balance \in [Accounts -> Int]
    BY DEF Inv, LedgerInv, LedgerTypeOK, TypeOK
<1>2. IsPlan(Plan(s)) /\ Len(Plan(s)) \in 0 .. 2 /\ leg[s] <= Len(Plan(s))
    BY <1>1, InvTyped, PlanOfJob DEF IsPlan, SessionInv, Coherent
<1> DEFINE x == Target(s)
           by == Cents(Plan(s)[leg[s] + 1].by)
           sum == View(s, x) + by
<1>3. /\ pc[s] = "work" /\ ~LegsDone(s) /\ x \in live /\ Take(s) /\ InRange(sum)
      /\ draft' = [draft EXCEPT ![s][x] = sum] /\ leg' = [leg EXCEPT ![s] = @ + 1]
      /\ UNCHANGED <<ledger, seq, pc, job>>
    BY DEF Leg
<1>4. leg[s] < Len(Plan(s)) /\ leg[s] + 1 \in 1 .. Len(Plan(s)) /\ leg'[s] = leg[s] + 1
    <2>1. leg[s] # Len(Plan(s))
        BY <1>3 DEF LegsDone
    <2>2. leg[s] < Len(Plan(s))
        BY <1>1, <1>2, <2>1
    <2> QED BY <1>1, <1>2, <1>3, <2>1, <2>2, NextLeg
<1>5. x \in Accounts /\ by \in Int /\ Plan(s)[leg[s] + 1].acc = x
    <2>1. x \in Accounts /\ Plan(s)[leg[s] + 1].by \in Int
        BY <1>2, <1>4 DEF IsPlan, Target
    <2> QED BY <2>1, CentsInt DEF Target
<1>6. Plan(s)' = Plan(s)
    BY <1>3 DEF Plan
<1>7. Wanted(s) = {Lock("account", x, "no key update")}
    <2>1. Wanted(s) = {Lock("account", y, "no key update") : y \in {Target(s)} \cap live}
        BY <1>3 DEF Wanted
    <2> QED BY <1>3, <2>1
<1>8. held'[s] = held[s] \cup {Lock("account", x, "no key update")}
    BY <1>1, <1>3, <1>7 DEF Take
<1> HIDE DEF x, by
<1>9. ASSUME NEW y \in Accounts
      PROVE  IF Written(s, y)'
             THEN /\ y \in live'
                  /\ InRange(draft'[s][y])
                  /\ draft'[s][y] = balance'[y] + Posted(Plan(s)', leg'[s], y)
             ELSE y \in live' => Posted(Plan(s)', leg'[s], y) = 0
    <2>1. Posted(Plan(s), leg[s] + 1, y) =
              Posted(Plan(s), leg[s], y) + (IF x = y THEN by ELSE 0)
        BY <1>1, <1>2, <1>4, <1>5, PostedStep DEF by
    <2>2. Posted(Plan(s), leg[s], y) \in Int /\ balance[y] \in Int
        BY <1>1, <1>2, PostedInt
    <2>3. live' = live /\ balance' = balance
        BY <1>3 DEF ledger
    <2>4. IF Written(s, y)
          THEN /\ y \in live
               /\ InRange(draft[s][y])
               /\ draft[s][y] = balance[y] + Posted(Plan(s), leg[s], y)
          ELSE y \in live => Posted(Plan(s), leg[s], y) = 0
        BY <1>1 DEF SessionInv, DraftIsOwnLegs
    <2>5. CASE y = x
        <3>1. Written(s, y)' /\ draft'[s][y] = View(s, x) + by
            BY <1>1, <1>3, <1>8, <2>5 DEF Written
        <3>2. View(s, x) = balance[y] + Posted(Plan(s), leg[s], y)
            <4>1. CASE Written(s, x)
                BY <2>4, <2>5, <4>1 DEF View
            <4>2. CASE ~Written(s, x)
                BY <1>3, <2>2, <2>4, <2>5, <4>2 DEF View
            <4> QED BY <4>1, <4>2
        <3>3. draft'[s][y] = balance[y] + Posted(Plan(s), leg[s] + 1, y)
            BY <1>5, <2>1, <2>2, <2>5, <3>1, <3>2
        <3>4. InRange(draft'[s][y])
            BY <1>3, <3>1
        <3> QED BY <1>3, <1>4, <1>6, <2>3, <2>5, <3>1, <3>3, <3>4
    <2>6. CASE y # x
        <3>1. Written(s, y)' <=> Written(s, y)
            <4>1. Lock("account", y, "no key update") # Lock("account", x, "no key update")
                BY <2>6 DEF Lock
            <4> QED BY <1>8, <4>1 DEF Written
        <3>2. draft'[s][y] = draft[s][y]
            BY <1>1, <1>3, <1>5, <2>6
        <3>3. Posted(Plan(s), leg[s] + 1, y) = Posted(Plan(s), leg[s], y)
            BY <2>1, <2>2, <2>6
        <3> QED BY <1>4, <1>6, <2>3, <2>4, <3>1, <3>2, <3>3
    <2> QED BY <2>5, <2>6
<1>10. DraftIsOwnLegs(s)'
    BY <1>9 DEF DraftIsOwnLegs
<1>11. Coherent(s)'
    BY InvTyped, StatementTyped DEF Typed, Statement
<1>12. InsertedIsFresh(s)' /\ ImageOfRow(s)'
    BY <1>1, <1>3, <1>8, SameImages
<1>13. CommitsLocked(s)'
    BY <1>3 DEF CommitsLocked
<1>14. \A o \in Slots \ {s} :
          /\ pc'[o] = pc[o] /\ job'[o] = job[o] /\ leg'[o] = leg[o] /\ draft'[o] = draft[o]
    BY <1>1, <1>3
<1> QED BY <1>1, <1>3, <1>10, <1>11, <1>12, <1>13, <1>14, StepInv DEF SessionInv

LEMMA LegOfNobodyInv ==
    ASSUME Inv, NEW s \in Slots, LegOfNobody(s)
    PROVE  LedgerInv'
<1>1. /\ SessionInv(s) /\ seq \in Nat /\ leg[s] \in 0 .. 2 /\ leg \in [Slots -> 0 .. 2]
    BY DEF Inv, LedgerInv, LedgerTypeOK
<1>2. IsPlan(Plan(s)) /\ Len(Plan(s)) \in 0 .. 2 /\ leg[s] <= Len(Plan(s))
    BY <1>1, InvTyped, PlanOfJob DEF IsPlan, SessionInv, Coherent
<1>3. /\ pc[s] = "work" /\ ~LegsDone(s) /\ Target(s) \notin live
      /\ leg' = [leg EXCEPT ![s] = @ + 1]
      /\ UNCHANGED <<ledger, seq, pc, job, draft, held>>
    BY DEF LegOfNobody
<1>4. leg[s] < Len(Plan(s)) /\ leg[s] + 1 \in 1 .. Len(Plan(s)) /\ leg'[s] = leg[s] + 1
    <2>1. leg[s] # Len(Plan(s))
        BY <1>3 DEF LegsDone
    <2>2. leg[s] < Len(Plan(s))
        BY <1>1, <1>2, <2>1
    <2> QED BY <1>1, <1>2, <1>3, <2>1, <2>2, NextLeg
<1>5. Plan(s)' = Plan(s) /\ \A y : (Written(s, y)' <=> Written(s, y))
    BY <1>3 DEF Plan, Written
<1>6. ASSUME NEW y \in Accounts, y \in live
      PROVE  Posted(Plan(s)', leg'[s], y) = Posted(Plan(s), leg[s], y)
    <2>1. Plan(s)[leg[s] + 1].acc # y
        BY <1>3, <1>6 DEF Target
    <2>2. Posted(Plan(s), leg[s], y) \in Int
        BY <1>1, <1>2, PostedInt
    <2> QED BY <1>1, <1>2, <1>4, <1>5, <2>1, <2>2, PostedStep
<1>7. DraftIsOwnLegs(s)'
    <2>1. live' = live /\ balance' = balance /\ draft' = draft
        BY <1>3 DEF ledger
    <2> QED BY <1>1, <1>5, <1>6, <2>1 DEF SessionInv, DraftIsOwnLegs
<1>8. Coherent(s)'
    BY InvTyped, StatementTyped DEF Typed, Statement
<1>9. InsertedIsFresh(s)' /\ ImageOfRow(s)'
    BY <1>1, <1>3, SameImages
<1>10. CommitsLocked(s)'
    BY <1>3 DEF CommitsLocked
<1>11. \A o \in Slots \ {s} :
          /\ pc'[o] = pc[o] /\ job'[o] = job[o] /\ leg'[o] = leg[o] /\ draft'[o] = draft[o]
    BY <1>1, <1>3
<1> QED BY <1>1, <1>3, <1>7, <1>8, <1>9, <1>10, <1>11, StepInv DEF SessionInv

LEMMA RecheckInv ==
    ASSUME Inv, NEW s \in Slots, Recheck(s)
    PROVE  LedgerInv'
<1>1. /\ SessionInv(s) /\ seq \in Nat /\ pc \in [Slots -> Labels]
    BY DEF Inv, LedgerInv, LedgerTypeOK
<1>2. /\ pc[s] = "recheck" /\ pc' = [pc EXCEPT ![s] = "work"] /\ job[s].op = "delete"
      /\ UNCHANGED <<ledger, seq, job, leg, draft, held>>
    BY <1>1 DEF Recheck, Goto, SessionInv, Coherent
<1>3. Plan(s)' = Plan(s) /\ \A x : (Written(s, x)' <=> Written(s, x))
    BY <1>2 DEF Plan, Written
<1>4. DraftIsOwnLegs(s)'
    BY <1>1, <1>2, <1>3, DraftFrame DEF SessionInv
<1>5. Coherent(s)'
    BY InvTyped, StatementTyped DEF Typed, Statement
<1>6. InsertedIsFresh(s)' /\ ImageOfRow(s)'
    BY <1>1, <1>2, SameImages
<1>7. CommitsLocked(s)'
    BY <1>1, <1>2 DEF CommitsLocked
<1>8. \A o \in Slots \ {s} :
          /\ pc'[o] = pc[o] /\ job'[o] = job[o] /\ leg'[o] = leg[o] /\ draft'[o] = draft[o]
    BY <1>1, <1>2
<1> QED BY <1>1, <1>2, <1>4, <1>5, <1>6, <1>7, <1>8, StepInv DEF SessionInv

(* The statements that lock rows and write no balance.                     *)
LEMMA LockStepInv ==
    ASSUME Inv, NEW s \in Slots, Take(s),
           \A x : Lock("account", x, "no key update") \notin Wanted(s),
           UNCHANGED <<ledger, seq, leg, draft>>, job[s].op # "create",
           pc' \in [Slots -> Labels], \A o \in Slots \ {s} : pc'[o] = pc[o],
           \A o \in Slots \ {s} : job'[o] = job[o],
           job'[s].tx = job[s].tx, job'[s].op = job[s].op,
           job'[s].old = job[s].old, job'[s].new = job[s].new, job'[s].acc = job[s].acc,
           Coherent(s)', CommitsLocked(s)'
    PROVE  LedgerInv'
<1>1. /\ SessionInv(s) /\ seq \in Nat
    BY DEF Inv, LedgerInv, LedgerTypeOK
<1>2. Plan(s)' = Plan(s)
    BY DEF Plan
<1>3. DraftIsOwnLegs(s)'
    BY <1>1, <1>2, TakeWritten, DraftFrame DEF SessionInv
<1>4. InsertedIsFresh(s)'
    BY DEF InsertedIsFresh
<1>5. ImageOfRow(s)'
    BY <1>1 DEF SessionInv, ImageOfRow, Opened, ledger
<1>6. SessionInv(s)'
    BY <1>3, <1>4, <1>5 DEF SessionInv
<1>7. seq' = seq /\ leg' = leg /\ draft' = draft
    OBVIOUS
<1>8. seq' \in Nat /\ seq <= seq'
    BY <1>1, <1>7, NatReflexive
<1> QED BY <1>6, <1>7, <1>8, StepInv

LEMMA WriteRowInv ==
    ASSUME Inv, NEW s \in Slots, WriteRow(s)
    PROVE  LedgerInv'
<1>1. /\ SessionInv(s) /\ pc \in [Slots -> Labels] /\ "commit" \in Labels
      /\ held \in [Slots -> SUBSET Locks]
    BY DEF Inv, LedgerInv, LedgerTypeOK, Labels
<1>2. /\ pc[s] = "work" /\ LegsDone(s) /\ pc' = [pc EXCEPT ![s] = "commit"] /\ Take(s)
      /\ job[s].op \in {"update", "delete"} /\ job[s].tx \in Txs
      /\ job[s].op = "update" => rows[job[s].tx] # NoRow
      /\ UNCHANGED <<ledger, seq, job, leg, draft>>
    BY <1>1 DEF WriteRow, Goto, SessionInv, Coherent
<1>3. Wanted(s) = {Lock("tx", t, IF job[s].op = "update" THEN "no key update" ELSE "update") :
                      t \in Present \cap {job[s].tx}}
    BY <1>2 DEF Wanted
<1>4. \A x : Lock("account", x, "no key update") \notin Wanted(s)
    BY <1>3 DEF Lock
<1>5. CommitsLocked(s)'
    <2>1. held'[s] = held[s] \cup Wanted(s)
        BY <1>1, <1>2 DEF Take
    <2>2. rows[job[s].tx] # NoRow => job[s].tx \in Present
        BY <1>2 DEF Present
    <2>3. rows' = rows /\ job' = job
        BY <1>2 DEF ledger
    <2> QED BY <1>2, <1>3, <2>1, <2>2, <2>3 DEF CommitsLocked
<1>6. Coherent(s)'
    BY InvTyped, StatementTyped DEF Typed, Statement
<1> QED BY <1>1, <1>2, <1>4, <1>5, <1>6, LockStepInv

LEMMA CloseRowInv ==
    ASSUME Inv, NEW s \in Slots, CloseRow(s)
    PROVE  LedgerInv'
<1>1. /\ SessionInv(s) /\ job \in [Slots -> Jobs] /\ pc \in [Slots -> Labels]
    BY DEF Inv, LedgerInv, LedgerTypeOK
<1>2. /\ pc[s] = "rows" /\ job[s].doomed # {} /\ Take(s) /\ job[s].op = "close"
      /\ job' = [job EXCEPT ![s].doomed = @ \ {Smallest(@)}]
      /\ UNCHANGED <<ledger, seq, pc, leg, draft>>
    BY <1>1 DEF CloseRow, SessionInv, Coherent
<1>3. Wanted(s) = {Lock("tx", t, "update") : t \in Present \cap {Smallest(job[s].doomed)}}
    BY <1>2 DEF Wanted
<1>4. \A x : Lock("account", x, "no key update") \notin Wanted(s)
    BY <1>3 DEF Lock
<1>5. /\ job'[s].tx = job[s].tx /\ job'[s].op = job[s].op /\ job'[s].old = job[s].old
      /\ job'[s].new = job[s].new /\ job'[s].acc = job[s].acc
      /\ \A o \in Slots \ {s} : job'[o] = job[o]
    BY <1>1, <1>2 DEF Jobs
<1>6. Coherent(s)' /\ CommitsLocked(s)'
    BY <1>2, InvTyped, StatementTyped DEF Typed, Statement, CommitsLocked
<1> QED BY <1>1, <1>2, <1>4, <1>5, <1>6, LockStepInv

LEMMA CloseAccountInv ==
    ASSUME Inv, NEW s \in Slots, CloseAccount(s)
    PROVE  LedgerInv'
<1>1. /\ SessionInv(s) /\ pc \in [Slots -> Labels] /\ held \in [Slots -> SUBSET Locks]
      /\ "cascade" \in Labels
    BY DEF Inv, LedgerInv, LedgerTypeOK, Labels
<1>2. /\ pc[s] = "rows" /\ job[s].doomed = {} /\ pc' = [pc EXCEPT ![s] = "cascade"]
      /\ Take(s) /\ job[s].op = "close" /\ UNCHANGED <<ledger, seq, job, leg, draft>>
    BY <1>1 DEF CloseAccount, Goto, SessionInv, Coherent
<1>3. Wanted(s) = {Lock("account", x, "update") : x \in {job[s].acc} \cap live}
    BY <1>2 DEF Wanted
<1>4. \A x : Lock("account", x, "no key update") \notin Wanted(s)
    BY <1>3 DEF Lock
<1>5. CommitsLocked(s)'
    <2>1. held'[s] = held[s] \cup Wanted(s) /\ live' = live
        BY <1>1, <1>2 DEF Take, ledger
    <2> QED BY <1>1, <1>2, <1>3, <2>1 DEF CommitsLocked
<1>6. Coherent(s)'
    BY InvTyped, StatementTyped DEF Typed, Statement
<1> QED BY <1>1, <1>2, <1>4, <1>5, <1>6, LockStepInv

LEMMA CascadeInv ==
    ASSUME Inv, NEW s \in Slots, Cascade(s)
    PROVE  LedgerInv'
<1>1. /\ SessionInv(s) /\ pc \in [Slots -> Labels] /\ held \in [Slots -> SUBSET Locks]
      /\ "commit" \in Labels
    BY DEF Inv, LedgerInv, LedgerTypeOK, Labels
<1>2. /\ pc[s] = "cascade" /\ pc' = [pc EXCEPT ![s] = "commit"]
      /\ Take(s) /\ job[s].op = "close" /\ UNCHANGED <<ledger, seq, job, leg, draft>>
    BY <1>1 DEF Cascade, Goto, SessionInv, Coherent
<1>3. Wanted(s) =
         {Lock("tx", t, "update") : t \in {u \in Present : rows[u].acc = job[s].acc}}
         \cup {Lock("tx", t, "no key update") :
                  t \in {u \in Present : rows[u].to = job[s].acc}}
    BY <1>2 DEF Wanted
<1>4. \A x : Lock("account", x, "no key update") \notin Wanted(s)
    BY <1>3 DEF Lock
<1>5. CommitsLocked(s)'
    <2>1. held'[s] = held[s] \cup Wanted(s) /\ live' = live /\ rows' = rows
        BY <1>1, <1>2 DEF Take, ledger
    <2> QED BY <1>1, <1>2, <1>3, <2>1 DEF SessionInv, CommitsLocked, Present
<1>6. Coherent(s)'
    BY InvTyped, StatementTyped DEF Typed, Statement
<1> QED BY <1>1, <1>2, <1>4, <1>5, <1>6, LockStepInv

LEMMA StatementInv ==
    ASSUME Inv, NEW s \in Slots, Statement(s)
    PROVE  LedgerInv'
<1>1. ASSUME InsertRefused(s) \/ RecheckGone(s) \/ Overflow(s) \/ UpdateGone(s)
      PROVE  LedgerInv'
    <2>1. seq \in Nat
        BY DEF Inv, LedgerTypeOK
    <2>2. Release(s) /\ UNCHANGED ledger /\ seq' \in Nat /\ seq <= seq'
        BY <1>1, <2>1 DEF InsertRefused, IdLeft, RecheckGone, Overflow, UpdateGone, Rollback
    <2> QED BY <2>2, RollbackInv
<1> QED BY <1>1, InsertInv, LegInv, LegOfNobodyInv, RecheckInv, WriteRowInv,
           CloseRowInv, CloseAccountInv, CascadeInv DEF Statement

(* No request has moved an account that was never opened.                  *)
LEMMA PlanElsewhere ==
    ASSUME NEW o \in Slots, Typed, StoreInv, SessionInv(o), NEW x \in Accounts, ~Opened(x)
    PROVE  Posted(Plan(o), leg[o], x) = 0
<1> DEFINE j == job[o]
<1>1. Coherent(o) /\ IsPlan(Plan(o)) /\ leg[o] \in 0 .. 2 /\ pc[o] \in Labels /\ j \in Jobs
    BY PlanOfJob DEF Typed, LedgerTypeOK
<1>2. CASE leg[o] = 0
    BY <1>2, PostedNone
<1>3. CASE leg[o] # 0 /\ j.op = "create"
    <2>1. pc[o] = "work"
        BY <1>1, <1>3 DEF Coherent
    <2>2. Opened(j.new.acc) /\ (j.new.to = None \/ Opened(j.new.to))
        BY <1>3, <2>1 DEF SessionInv, InsertedIsFresh, StoreInv
    <2>3. j.new \in Row /\ j.new.amt \in Int /\ Plan(o) = Deltas(j.new, j.new.amt)
        BY <1>1, <1>3, BodiesAssumption DEF Coherent, Row, Plan
    <2> QED BY <1>1, <2>2, <2>3, DeltasAccounts, PostedElsewhere
<1>4. CASE leg[o] # 0 /\ j.op \in {"update", "delete"}
    <2>1. j.old \in Row /\ Opened(j.old.acc) /\ (j.old.to = None \/ Opened(j.old.to))
        BY <1>1, <1>4 DEF SessionInv, ImageOfRow, Coherent
    <2>2. PICK amount \in Int : Plan(o) = Deltas(j.old, amount)
        <3>1. CASE j.op = "update"
            <4>1. j.new.amt - j.old.amt \in Int
                <5>1. PICK n \in Amounts : j.new = [j.old EXCEPT !.amt = n]
                    BY <1>1, <3>1 DEF Coherent
                <5> QED BY <2>1, <5>1, AmountsAssumption DEF Row
            <4> QED BY <3>1, <4>1 DEF Plan
        <3>2. CASE j.op = "delete"
            <4>1. -j.old.amt \in Int
                BY <2>1 DEF Row
            <4> QED BY <3>2, <4>1 DEF Plan
        <3> QED BY <1>4, <3>1, <3>2
    <2> QED BY <1>1, <2>1, <2>2, DeltasAccounts, PostedElsewhere
<1>5. CASE j.op \notin {"create", "update", "delete"}
    <2>1. Plan(o) = << >>
        BY <1>5 DEF Plan
    <2> QED BY <1>1, <2>1, PostedElsewhere
<1> QED BY <1>2, <1>3, <1>4, <1>5

LEMMA OpenAccountInv ==
    ASSUME Inv, NEW x \in Accounts, NEW v \in Openings, OpenAccount(x, v)
    PROVE  LedgerInv'
<1>1. /\ StoreInv /\ Compatible(held) /\ \A o \in Slots : SessionInv(o)
      /\ seq \in Nat /\ live \subseteq Accounts /\ balance \in [Accounts -> Int]
      /\ opening \in [Accounts -> Int \cup {None}]
    BY DEF Inv, LedgerInv, LedgerTypeOK, TypeOK
<1>2. /\ opening[x] = None /\ live' = live \cup {x} /\ InRange(Cents(v))
      /\ balance' = [balance EXCEPT ![x] = Cents(v)]
      /\ opening' = [opening EXCEPT ![x] = Cents(v)]
      /\ UNCHANGED <<rows, kept, seq, pc, job, leg, draft, held>>
    BY DEF OpenAccount, Open
<1>3. Cents(v) # None /\ x \notin live
    <2>1. Cents(v) \in Int
        BY CentsInt, OpeningsAssumption
    <2> QED BY <1>1, <1>2, <2>1, NoneAssumption DEF StoreInv, Opened
<1>4. StoreInv'
    <2>1. ReferencesLive'
        BY <1>1, <1>2 DEF StoreInv, ReferencesLive
    <2>2. ASSUME NEW y \in live' PROVE Opened(y)'
        <3>1. CASE y = x
            BY <1>1, <1>2, <1>3, <3>1 DEF Opened
        <3>2. CASE y # x
            BY <1>1, <1>2, <3>2 DEF StoreInv, Opened
        <3> QED BY <3>1, <3>2
    <2>3. ASSUME NEW y \in Accounts
          PROVE  InRange(balance'[y]) /\ (y \notin live' => balance'[y] = 0)
        <3>1. CASE y = x
            BY <1>1, <1>2, <3>1
        <3>2. CASE y # x
            BY <1>1, <1>2, <3>2 DEF StoreInv
        <3> QED BY <3>1, <3>2
    <2> QED BY <1>1, <1>2, <2>1, <2>2, <2>3 DEF StoreInv, InRange
<1>5. ASSUME NEW o \in Slots PROVE SessionInv(o)'
    <2>1. SameSession(o) /\ SessionInv(o) /\ Coherent(o)
        BY <1>1, <1>2 DEF SameSession, SessionInv
    <2>2. Plan(o)' = Plan(o) /\ leg'[o] = leg[o] /\ \A y : (Written(o, y)' <=> Written(o, y))
        BY <2>1, FrameViews DEF SameSession
    <2>3. Posted(Plan(o), leg[o], x) = 0
        BY <1>1, <1>2, <2>1, InvTyped, PlanElsewhere DEF Opened
    <2>4. Coherent(o)'
        BY <2>1, CoherentFrame DEF SameSession
    <2>5. ASSUME NEW y \in Accounts
          PROVE  IF Written(o, y)'
                 THEN /\ y \in live'
                      /\ InRange(draft'[o][y])
                      /\ draft'[o][y] = balance'[y] + Posted(Plan(o)', leg'[o], y)
                 ELSE y \in live' => Posted(Plan(o)', leg'[o], y) = 0
        <3>1. IF Written(o, y)
              THEN /\ y \in live
                   /\ InRange(draft[o][y])
                   /\ draft[o][y] = balance[y] + Posted(Plan(o), leg[o], y)
              ELSE y \in live => Posted(Plan(o), leg[o], y) = 0
            BY <2>1 DEF SessionInv, DraftIsOwnLegs
        <3>2. CASE y = x
            BY <1>3, <2>2, <2>3, <3>1, <3>2
        <3>3. CASE y # x
            BY <1>1, <1>2, <2>1, <2>2, <3>1, <3>3 DEF SameSession
        <3> QED BY <3>2, <3>3
    <2>6. DraftIsOwnLegs(o)'
        BY <2>5 DEF DraftIsOwnLegs
    <2>7. InsertedIsFresh(o)'
        BY <1>2, <2>1 DEF SessionInv, InsertedIsFresh
    <2>8. ImageOfRow(o)'
        <3>1. CASE job[o].op \in {"update", "delete"}
            <4>1. /\ Opened(job[o].old.acc) /\ job[o].tx <= seq
                  /\ job[o].old.to # None => Opened(job[o].old.to)
                  /\ job[o].old \in Row
                BY <2>1, <3>1 DEF SessionInv, ImageOfRow, Coherent
            <4>2. \A y \in Accounts : Opened(y) => Opened(y)' /\ y # x
                BY <1>1, <1>2 DEF Opened
            <4>3. job[o].old.acc \in Accounts /\ job[o].old.to \in Accounts \cup {None}
                BY <4>1 DEF Row
            <4>4. job[o].old.to # x
                BY <4>1, <4>2, <4>3, NoneAssumption
            <4> QED BY <1>2, <2>1, <3>1, <4>1, <4>2, <4>3, <4>4 DEF SessionInv, ImageOfRow
        <3>2. CASE job[o].op \notin {"update", "delete"}
            BY <1>1, <1>2, <1>3, <2>1, <3>2 DEF SessionInv, ImageOfRow, Opened, Coherent
        <3> QED BY <3>1, <3>2
    <2>9. CommitsLocked(o)'
        <3>1. job[o].op = "close" => job[o].acc # x
            BY <1>2, <2>1 DEF SessionInv, ImageOfRow, Opened
        <3> QED BY <1>2, <2>1, <3>1 DEF SessionInv, CommitsLocked, Present
    <2> QED BY <2>4, <2>6, <2>7, <2>8, <2>9 DEF SessionInv
<1> QED BY <1>1, <1>2, <1>4, <1>5 DEF LedgerInv

LEMMA CrashInv ==
    ASSUME Inv, Crash
    PROVE  LedgerInv'
<1>1. ASSUME NEW s \in Slots PROVE SessionInv(s)'
    <2>1. pc'[s] = "idle" /\ job'[s] = NoJob /\ leg'[s] = 0 /\ held'[s] = {}
        BY DEF Crash
    <2>2. Plan(s)' = << >>
        BY <2>1 DEF Plan, NoJob
    <2>3. Coherent(s)'
        BY <2>1, <2>2 DEF Coherent, NoJob
    <2>4. DraftIsOwnLegs(s)'
        BY <2>1, <2>2, PostedNone DEF DraftIsOwnLegs, Written
    <2> QED BY <2>1, <2>3, <2>4
            DEF SessionInv, InsertedIsFresh, ImageOfRow, CommitsLocked, NoJob
<1>2. StoreInv'
    <2>1. StoreInv /\ seq \in Nat /\ UNCHANGED <<ledger, seq>>
        BY DEF Inv, LedgerInv, LedgerTypeOK, Crash
    <2> QED BY <2>1, StoreFrame, NatReflexive, IdsAssumption
<1>3. Compatible(held')
    BY DEF Compatible, Crash
<1> QED BY <1>1, <1>2, <1>3 DEF LedgerInv

-----------------------------------------------------------------------------
(* The commits.                                                            *)

(* What a session has written nobody else has, and is of a live account.   *)
LEMMA OnlyWriter ==
    ASSUME Inv, NEW s \in Slots, NEW o \in Slots, s # o, NEW x \in Accounts
    PROVE  ~(Written(s, x) /\ Written(o, x))
<1>1. Compatible(held) /\ held \in [Slots -> SUBSET Locks]
    BY DEF Inv, LedgerInv, LedgerTypeOK
<1>2. Conflict("no key update", "no key update")
    BY DEF Conflict
<1> QED BY <1>1, <1>2, Exclusive DEF Written

(* What Publish makes of a balance.                                        *)
LEMMA PublishedBalance ==
    ASSUME Inv, NEW s \in Slots, Publish(s)
    PROVE  /\ balance' \in [Accounts -> Int]
           /\ \A x \in Accounts : InRange(balance'[x]) /\ (x \notin live => balance'[x] = 0)
           /\ \A o \in Slots \ {s}, x \in Accounts : Written(o, x) => balance'[x] = balance[x]
<1>1. /\ StoreInv /\ SessionInv(s) /\ balance \in [Accounts -> Int]
      /\ draft \in [Slots -> [Accounts -> Int]]
    BY DEF Inv, LedgerInv, LedgerTypeOK, TypeOK
<1>2. balance' \in [Accounts -> Int] /\ \A x \in Accounts : balance'[x] = View(s, x)
    BY <1>1 DEF Publish, View
<1>3. ASSUME NEW x \in Accounts
      PROVE  InRange(balance'[x]) /\ (x \notin live => balance'[x] = 0)
    <2>1. InRange(View(s, x)) /\ (x \notin live => View(s, x) = 0)
        <3>1. CASE Written(s, x)
            BY <1>1, <3>1 DEF SessionInv, DraftIsOwnLegs, View
        <3>2. CASE ~Written(s, x)
            BY <1>1, <3>2 DEF StoreInv, View
        <3> QED BY <3>1, <3>2
    <2> QED BY <1>2, <2>1
<1>4. ASSUME NEW o \in Slots \ {s}, NEW x \in Accounts, Written(o, x)
      PROVE  balance'[x] = balance[x]
    <2>1. ~Written(s, x)
        BY <1>4, OnlyWriter
    <2> QED BY <1>2, <2>1 DEF View
<1> QED BY <1>2, <1>3, <1>4

(* A session whose balances and rows another one's commit leaves alone.    *)
LEMMA CommitFrame ==
    ASSUME Inv, NEW s \in Slots, NEW o \in Slots, s # o, Release(s),
           UNCHANGED <<opening, seq>>, live' \subseteq live,
           \A x \in Accounts : Written(o, x) => x \in live' /\ balance'[x] = balance[x],
           InsertedIsFresh(o)', ImageOfRow(o)', CommitsLocked(o)'
    PROVE  SessionInv(o)'
<1>1. LedgerTypeOK /\ SessionInv(o)
    BY DEF Inv, LedgerInv
<1>2. SameSession(o)
    BY <1>1, ReleaseSession
<1>3. Plan(o)' = Plan(o) /\ leg'[o] = leg[o] /\ \A x : (Written(o, x)' <=> Written(o, x))
    BY <1>2, FrameViews DEF SameSession
<1>4. Coherent(o)'
    BY <1>1, <1>2, CoherentFrame DEF SameSession, SessionInv
<1>5. ASSUME NEW y \in Accounts
      PROVE  IF Written(o, y)'
             THEN /\ y \in live'
                  /\ InRange(draft'[o][y])
                  /\ draft'[o][y] = balance'[y] + Posted(Plan(o)', leg'[o], y)
             ELSE y \in live' => Posted(Plan(o)', leg'[o], y) = 0
    <2>1. IF Written(o, y)
          THEN /\ y \in live
               /\ InRange(draft[o][y])
               /\ draft[o][y] = balance[y] + Posted(Plan(o), leg[o], y)
          ELSE y \in live => Posted(Plan(o), leg[o], y) = 0
        BY <1>1 DEF SessionInv, DraftIsOwnLegs
    <2> QED BY <1>2, <1>3, <2>1 DEF SameSession
<1>6. DraftIsOwnLegs(o)'
    BY <1>5 DEF DraftIsOwnLegs
<1> QED BY <1>4, <1>6 DEF SessionInv

LEMMA StoredRow ==
    ASSUME NEW r \in Row
    PROVE  /\ Stored(r) \in Row /\ Stored(r) # NoRow
           /\ Stored(r).typ = r.typ /\ Stored(r).acc = r.acc /\ Stored(r).to = r.to
<1>1. Cents(r.amt) \in Int
    BY CentsInt DEF Row
<1> QED BY <1>1, NoRowAssumption DEF Stored, Row

LEMMA CommitCreateInv ==
    ASSUME Inv, NEW s \in Slots, CommitCreate(s)
    PROVE  LedgerInv'
<1> DEFINE t == job[s].tx
           r == Stored(job[s].new)
<1>1. /\ StoreInv /\ Compatible(held) /\ \A o \in Slots : SessionInv(o)
      /\ held \in [Slots -> SUBSET Locks] /\ LedgerTypeOK
      /\ rows \in [Txs -> Row \cup {NoRow}]
    BY DEF Inv, LedgerInv, LedgerTypeOK, TypeOK
<1>2. /\ pc[s] = "work" /\ job[s].op = "create" /\ Release(s) /\ Publish(s)
      /\ rows' = [rows EXCEPT ![t] = r] /\ UNCHANGED <<live, opening, kept, seq>>
    BY DEF CommitCreate
<1>3. /\ t \in Txs /\ t <= seq /\ rows[t] = NoRow
      /\ \A o \in Slots \ {s} : job[o].tx # t
      /\ job[s].new.acc \in live /\ job[s].new.to \in live \cup {None}
      /\ Lock("account", job[s].new.acc, "key share") \in held[s]
    <2>1. InsertedIsFresh(s)
        BY <1>1 DEF SessionInv
    <2>2. job[s].new.acc \in live => job[s].new.acc # None
        BY NoneAssumption DEF Inv, LedgerTypeOK, TypeOK
    <2> QED BY <1>2, <2>1, <2>2 DEF InsertedIsFresh
<1>4. r \in Row /\ r # NoRow /\ r.acc = job[s].new.acc /\ r.to = job[s].new.to
    <2>1. job[s].new \in Row
        BY <1>1, <1>2, BodiesAssumption DEF SessionInv, Coherent
    <2> QED BY <2>1, StoredRow
<1> HIDE DEF t, r
<1>5. rows'[t] = r /\ \A u \in Txs : u # t => rows'[u] = rows[u]
    BY <1>1, <1>2, <1>3
<1>6. StoreInv'
    <2>1. ReferencesLive'
        BY <1>1, <1>2, <1>3, <1>4, <1>5 DEF StoreInv, ReferencesLive
    <2>2. \A u \in Txs : rows'[u] # NoRow \/ kept'[u] # NoRow => u <= seq'
        BY <1>1, <1>2, <1>3, <1>5 DEF StoreInv
    <2>3. \A x \in live' : Opened(x)'
        BY <1>1, <1>2 DEF StoreInv, Opened
    <2>4. \A x \in Accounts : InRange(balance'[x]) /\ (x \notin live' => balance'[x] = 0)
        BY <1>2, PublishedBalance
    <2> QED BY <2>1, <2>2, <2>3, <2>4 DEF StoreInv, InRange
<1>7. ASSUME NEW o \in Slots, o # s PROVE SessionInv(o)'
    <2>1. SessionInv(o) /\ SameSession(o) /\ \A q \in Slots \ {s} : job'[q] = job[q]
        BY <1>1, <1>2, <1>7, ReleaseSession DEF SameSession
    <2>2. job'[s].tx = None /\ job[o].tx # t
        BY <1>1, <1>2, <1>3, <1>7, ReleaseSession
    <2>3. job[o].tx \in Txs => rows'[job[o].tx] = rows[job[o].tx]
        BY <1>5, <2>2
    <2>4. \A x \in Accounts : Written(o, x) => x \in live' /\ balance'[x] = balance[x]
        BY <1>2, <1>7, <2>1, PublishedBalance DEF SessionInv, DraftIsOwnLegs
    <2>5. InsertedIsFresh(o)'
        BY <1>2, <2>1, <2>2, <2>3, NoneIsNoTx DEF SessionInv, InsertedIsFresh, SameSession
    <2>6. ImageOfRow(o)'
        BY <1>2, <2>1, <2>3 DEF SessionInv, ImageOfRow, SameSession, Opened, Coherent
    <2>7. CommitsLocked(o)'
        <3>1. ASSUME pc[o] = "commit", job[o].op = "close" PROVE job[o].acc # r.acc
            <4>1. job[o].acc \in live => Lock("account", job[o].acc, "update") \in held[o]
                BY <2>1, <3>1 DEF SessionInv, CommitsLocked
            <4>2. Conflict("key share", "update")
                BY DEF Conflict
            <4> QED BY <1>1, <1>3, <1>4, <1>7, <4>1, <4>2, Exclusive
        <3>2. ASSUME pc[o] = "commit", job[o].op = "close", NEW u \in Present',
                     rows'[u].acc = job[o].acc
              PROVE  Lock("tx", u, "update") \in held[o]
            <4>1. u # t /\ u \in Txs
                BY <1>5, <3>1, <3>2 DEF Present
            <4>2. u \in Present /\ rows[u].acc = job[o].acc
                BY <1>5, <3>2, <4>1 DEF Present
            <4> QED BY <2>1, <3>2, <4>2 DEF SessionInv, CommitsLocked
        <3> QED BY <1>2, <2>1, <2>3, <3>2 DEF SessionInv, CommitsLocked, SameSession, Coherent
    <2> QED BY <1>2, <1>7, <2>4, <2>5, <2>6, <2>7, CommitFrame
<1>8. SessionInv(s)' /\ Compatible(held')
    BY <1>1, <1>2, ReleaseSession, ReleaseCompatible
<1> QED BY <1>6, <1>7, <1>8 DEF LedgerInv

LEMMA CommitUpdateInv ==
    ASSUME Inv, NEW s \in Slots, CommitUpdate(s)
    PROVE  LedgerInv'
<1> DEFINE t == job[s].tx
           r == Stored([rows[t] EXCEPT !.amt = job[s].new.amt])
<1>1. /\ StoreInv /\ Compatible(held) /\ \A o \in Slots : SessionInv(o)
      /\ held \in [Slots -> SUBSET Locks] /\ LedgerTypeOK
      /\ rows \in [Txs -> Row \cup {NoRow}]
    BY DEF Inv, LedgerInv, LedgerTypeOK, TypeOK
<1>2. /\ pc[s] = "commit" /\ job[s].op = "update" /\ Release(s) /\ Publish(s)
      /\ rows' = [rows EXCEPT ![t] = r] /\ UNCHANGED <<live, opening, kept, seq>>
    BY DEF CommitUpdate
<1>3. t \in Txs /\ rows[t] # NoRow /\ rows[t] \in Row
    BY <1>1, <1>2 DEF SessionInv, CommitsLocked, Coherent
<1>4. /\ r \in Row /\ r # NoRow
      /\ r.typ = rows[t].typ /\ r.acc = rows[t].acc /\ r.to = rows[t].to
    <2>1. job[s].new.amt \in Int
        <3>1. PICK n \in Amounts : job[s].new = [job[s].old EXCEPT !.amt = n]
            BY <1>1, <1>2 DEF SessionInv, Coherent
        <3>2. job[s].old \in Row
            BY <1>1, <1>2 DEF SessionInv, Coherent
        <3> QED BY <3>1, <3>2, AmountsAssumption DEF Row
    <2>2. [rows[t] EXCEPT !.amt = job[s].new.amt] \in Row
        BY <1>3, <2>1 DEF Row
    <2>3. /\ [rows[t] EXCEPT !.amt = job[s].new.amt].typ = rows[t].typ
          /\ [rows[t] EXCEPT !.amt = job[s].new.amt].acc = rows[t].acc
          /\ [rows[t] EXCEPT !.amt = job[s].new.amt].to = rows[t].to
        BY <1>3, <2>1 DEF Row
    <2> QED BY <2>2, <2>3, StoredRow
<1> HIDE DEF t, r
<1>5. /\ rows'[t] = r /\ \A u \in Txs : u # t => rows'[u] = rows[u]
      /\ Present' = Present
    BY <1>1, <1>2, <1>3, <1>4 DEF Present
<1>6. \A u \in Txs : /\ rows'[u] = NoRow <=> rows[u] = NoRow
                     /\ rows[u] # NoRow => /\ rows'[u].typ = rows[u].typ
                                           /\ rows'[u].acc = rows[u].acc
                                           /\ rows'[u].to = rows[u].to
    BY <1>3, <1>4, <1>5
<1>7. StoreInv'
    <2>1. ReferencesLive'
        BY <1>1, <1>2, <1>6 DEF StoreInv, ReferencesLive
    <2>2. \A u \in Txs : rows'[u] # NoRow \/ kept'[u] # NoRow => u <= seq'
        BY <1>1, <1>2, <1>6 DEF StoreInv
    <2>3. \A x \in live' : Opened(x)'
        BY <1>1, <1>2 DEF StoreInv, Opened
    <2>4. \A x \in Accounts : InRange(balance'[x]) /\ (x \notin live' => balance'[x] = 0)
        BY <1>2, PublishedBalance
    <2> QED BY <2>1, <2>2, <2>3, <2>4 DEF StoreInv, InRange
<1>8. ASSUME NEW o \in Slots, o # s PROVE SessionInv(o)'
    <2>1. SessionInv(o) /\ SameSession(o) /\ \A q \in Slots \ {s} : job'[q] = job[q]
        BY <1>1, <1>2, <1>8, ReleaseSession DEF SameSession
    <2>2. job'[s].tx = None
        BY <1>1, <1>2, ReleaseSession
    <2>3. \A x \in Accounts : Written(o, x) => x \in live' /\ balance'[x] = balance[x]
        BY <1>2, <1>8, <2>1, PublishedBalance DEF SessionInv, DraftIsOwnLegs
    <2>4. InsertedIsFresh(o)'
        BY <1>2, <1>6, <2>1, <2>2, NoneIsNoTx DEF SessionInv, InsertedIsFresh, SameSession
    <2>5. ImageOfRow(o)'
        BY <1>2, <1>6, <2>1 DEF SessionInv, ImageOfRow, SameSession, Opened, Coherent
    <2>6. CommitsLocked(o)'
        <3>1. \A u \in Present : rows'[u].acc = rows[u].acc
            BY <1>6 DEF Present
        <3> QED BY <1>2, <1>5, <1>6, <2>1, <3>1
                DEF SessionInv, CommitsLocked, SameSession, Coherent
    <2> QED BY <1>2, <1>8, <2>3, <2>4, <2>5, <2>6, CommitFrame
<1>9. SessionInv(s)' /\ Compatible(held')
    BY <1>1, <1>2, ReleaseSession, ReleaseCompatible
<1> QED BY <1>7, <1>8, <1>9 DEF LedgerInv

LEMMA CommitDeleteInv ==
    ASSUME Inv, NEW s \in Slots, CommitDelete(s)
    PROVE  LedgerInv'
<1> DEFINE t == job[s].tx
<1>1. /\ StoreInv /\ Compatible(held) /\ \A o \in Slots : SessionInv(o)
      /\ held \in [Slots -> SUBSET Locks] /\ LedgerTypeOK
      /\ rows \in [Txs -> Row \cup {NoRow}]
    BY DEF Inv, LedgerInv, LedgerTypeOK, TypeOK
<1>2. /\ pc[s] = "commit" /\ job[s].op = "delete" /\ Release(s) /\ Publish(s)
      /\ rows' = [rows EXCEPT ![t] = NoRow] /\ UNCHANGED <<live, opening, kept, seq>>
    BY DEF CommitDelete
<1>3. t \in Txs /\ (rows[t] # NoRow => Lock("tx", t, "update") \in held[s])
    BY <1>1, <1>2 DEF SessionInv, CommitsLocked, Coherent
<1> HIDE DEF t
<1>4. \A u \in Txs : rows'[u] # NoRow => u # t /\ rows[u] # NoRow /\ rows'[u] = rows[u]
    BY <1>1, <1>2, <1>3
<1>5. \A u \in Txs : u # t => rows'[u] = rows[u]
    BY <1>1, <1>2, <1>3
<1>6. StoreInv'
    <2>1. ReferencesLive'
        BY <1>1, <1>2, <1>4 DEF StoreInv, ReferencesLive
    <2>2. \A u \in Txs : rows'[u] # NoRow \/ kept'[u] # NoRow => u <= seq'
        BY <1>1, <1>2, <1>4 DEF StoreInv
    <2>3. \A x \in live' : Opened(x)'
        BY <1>1, <1>2 DEF StoreInv, Opened
    <2>4. \A x \in Accounts : InRange(balance'[x]) /\ (x \notin live' => balance'[x] = 0)
        BY <1>2, PublishedBalance
    <2> QED BY <2>1, <2>2, <2>3, <2>4 DEF StoreInv, InRange
<1>7. ASSUME NEW o \in Slots, o # s PROVE SessionInv(o)'
    <2>1. SessionInv(o) /\ SameSession(o) /\ \A q \in Slots \ {s} : job'[q] = job[q]
        BY <1>1, <1>2, <1>7, ReleaseSession DEF SameSession
    <2>2. job'[s].tx = None
        BY <1>1, <1>2, ReleaseSession
    <2>3. \A x \in Accounts : Written(o, x) => x \in live' /\ balance'[x] = balance[x]
        BY <1>2, <1>7, <2>1, PublishedBalance DEF SessionInv, DraftIsOwnLegs
    <2>4. InsertedIsFresh(o)'
        BY <1>2, <1>4, <2>1, <2>2, NoneIsNoTx DEF SessionInv, InsertedIsFresh, SameSession
    <2>5. ImageOfRow(o)'
        BY <1>2, <1>4, <2>1 DEF SessionInv, ImageOfRow, SameSession, Opened, Coherent
    <2>6. CommitsLocked(o)'
        <3>1. ASSUME pc[o] = "commit", job[o].op = "update" PROVE job[o].tx # t
            <4>1. rows[job[o].tx] # NoRow /\ Lock("tx", job[o].tx, "no key update") \in held[o]
                BY <2>1, <3>1 DEF SessionInv, CommitsLocked
            <4>2. Conflict("update", "no key update")
                BY DEF Conflict
            <4> QED BY <1>1, <1>3, <1>7, <4>1, <4>2, Exclusive
        <3>2. ASSUME pc[o] = "commit", job[o].op = "update"
              PROVE  rows'[job[o].tx] # NoRow
            BY <1>5, <2>1, <3>1, <3>2 DEF SessionInv, CommitsLocked, Coherent
        <3>3. \A u \in Present' : u \in Present /\ rows'[u].acc = rows[u].acc
            BY <1>4 DEF Present
        <3>4. job[o].op = "delete" /\ rows'[job[o].tx] # NoRow => rows[job[o].tx] # NoRow
            BY <1>4, <2>1 DEF SessionInv, Coherent
        <3> QED BY <1>2, <2>1, <3>2, <3>3, <3>4 DEF SessionInv, CommitsLocked, SameSession
    <2> QED BY <1>2, <1>7, <2>3, <2>4, <2>5, <2>6, CommitFrame
<1>8. SessionInv(s)' /\ Compatible(held')
    BY <1>1, <1>2, ReleaseSession, ReleaseCompatible
<1> QED BY <1>6, <1>7, <1>8 DEF LedgerInv

LEMMA CommitCloseInv ==
    ASSUME Inv, NEW s \in Slots, CommitClose(s)
    PROVE  LedgerInv'
<1> DEFINE a == job[s].acc
<1>1. /\ StoreInv /\ Compatible(held) /\ \A o \in Slots : SessionInv(o)
      /\ held \in [Slots -> SUBSET Locks] /\ LedgerTypeOK
      /\ rows \in [Txs -> Row \cup {NoRow}] /\ balance \in [Accounts -> Int]
      /\ live \subseteq Accounts
    BY DEF Inv, LedgerInv, LedgerTypeOK, TypeOK
<1>2. /\ pc[s] = "commit" /\ job[s].op = "close" /\ Release(s)
      /\ live' = live \ {a} /\ rows' = Without(a) /\ kept' = KeptAfter(a)
      /\ balance' = [balance EXCEPT ![a] = 0] /\ UNCHANGED <<opening, seq>>
    BY DEF CommitClose
<1>3. /\ a \in Accounts
      /\ a \in live => Lock("account", a, "update") \in held[s]
      /\ \A u \in Present : rows[u].acc = a => Lock("tx", u, "update") \in held[s]
    BY <1>1, <1>2 DEF SessionInv, CommitsLocked, Coherent
<1> HIDE DEF a
<1>4. ASSUME NEW u \in Txs
      PROVE  /\ rows'[u] # NoRow => rows[u] # NoRow /\ rows[u].acc # a
             /\ rows[u] # NoRow /\ rows[u].acc # a =>
                   /\ rows'[u] # NoRow
                   /\ rows'[u].typ = rows[u].typ /\ rows'[u].acc = rows[u].acc
                   /\ rows'[u].to = IF rows[u].to = a THEN None ELSE rows[u].to
             /\ kept'[u] # NoRow => rows[u] # NoRow \/ kept[u] # NoRow
    <2>1. rows'[u] = IF rows[u] = NoRow THEN NoRow
                     ELSE IF rows[u].acc = a THEN NoRow
                     ELSE IF rows[u].to = a THEN [rows[u] EXCEPT !.to = None]
                     ELSE rows[u]
        BY <1>2 DEF Without
    <2>2. kept'[u] = IF rows[u] = NoRow THEN kept[u]
                     ELSE IF rows[u].acc = a THEN rows[u] ELSE kept[u]
        BY <1>2 DEF KeptAfter
    <2>3. rows[u] # NoRow => /\ rows[u] \in Row
                             /\ [rows[u] EXCEPT !.to = None] \in Row
                             /\ [rows[u] EXCEPT !.to = None] # NoRow
                             /\ [rows[u] EXCEPT !.to = None].to = None
                             /\ [rows[u] EXCEPT !.to = None].acc = rows[u].acc
                             /\ [rows[u] EXCEPT !.to = None].typ = rows[u].typ
        BY <1>1, NoRowAssumption DEF Row
    <2> QED BY <2>1, <2>2, <2>3
<1>5. /\ \A x \in Accounts : x # a => balance'[x] = balance[x]
      /\ balance'[a] = 0
    BY <1>1, <1>2, <1>3
<1>6. StoreInv'
    <2>1. ReferencesLive'
        BY <1>1, <1>2, <1>4 DEF StoreInv, ReferencesLive
    <2>2. \A u \in Txs : rows'[u] # NoRow \/ kept'[u] # NoRow => u <= seq'
        BY <1>1, <1>2, <1>4 DEF StoreInv
    <2>3. \A x \in live' : Opened(x)'
        BY <1>1, <1>2 DEF StoreInv, Opened
    <2>4. \A x \in Accounts : InRange(balance'[x]) /\ (x \notin live' => balance'[x] = 0)
        BY <1>1, <1>2, <1>5, MaxBalanceAssumption DEF StoreInv, InRange
    <2> QED BY <2>1, <2>2, <2>3, <2>4 DEF StoreInv, InRange
<1>7. ASSUME NEW o \in Slots, o # s PROVE SessionInv(o)'
    <2>1. SessionInv(o) /\ SameSession(o) /\ \A q \in Slots \ {s} : job'[q] = job[q]
        BY <1>1, <1>2, <1>7, ReleaseSession DEF SameSession
    <2>2. job'[s].tx = None
        BY <1>1, <1>2, ReleaseSession
    <2>3. ASSUME NEW x \in Accounts, NEW m \in Modes, Lock("account", x, m) \in held[o]
          PROVE  x # a \/ a \notin live
        <3>1. Conflict("update", m)
            BY DEF Conflict, Modes
        <3> QED BY <1>1, <1>3, <1>7, <2>3, <3>1, Exclusive
    <2>4. \A x \in Accounts : Written(o, x) => x \in live' /\ balance'[x] = balance[x]
        BY <1>2, <1>5, <2>1, <2>3 DEF SessionInv, DraftIsOwnLegs, Written, Modes
    <2>5. InsertedIsFresh(o)'
        <3>1. CASE pc[o] = "work" /\ job[o].op = "create"
            <4>1. /\ job[o].tx \in Txs /\ rows[job[o].tx] = NoRow /\ kept[job[o].tx] = NoRow
                  /\ \A x \in {job[o].new.acc, job[o].new.to} \ {None} :
                        x \in live /\ Lock("account", x, "key share") \in held[o]
                BY <2>1, <3>1 DEF SessionInv, InsertedIsFresh
            <4>2. rows'[job[o].tx] = NoRow /\ kept'[job[o].tx] = NoRow
                BY <1>4, <4>1
            <4>3. \A x \in {job[o].new.acc, job[o].new.to} \ {None} : x \in live'
                BY <1>1, <1>2, <2>3, <4>1 DEF Modes
            <4>4. job[o].new.acc # None
                BY <1>1, <2>1, <3>1, BodiesAssumption, NoneAssumption
                   DEF SessionInv, Coherent, Row
            <4> QED BY <1>2, <2>1, <2>2, <3>1, <4>2, <4>3, <4>4, NoneIsNoTx
                    DEF SessionInv, InsertedIsFresh, SameSession
        <3>2. CASE ~(pc[o] = "work" /\ job[o].op = "create")
            BY <2>1, <3>2 DEF InsertedIsFresh, SameSession
        <3> QED BY <3>1, <3>2
    <2>6. ImageOfRow(o)'
        BY <1>2, <1>4, <2>1, NoneAssumption
           DEF SessionInv, ImageOfRow, SameSession, Opened, Coherent
    <2>7. CommitsLocked(o)'
        <3>1. ASSUME pc[o] = "commit", job[o].op = "update"
              PROVE  rows'[job[o].tx] # NoRow
            <4>1. /\ job[o].tx \in Txs /\ rows[job[o].tx] # NoRow
                  /\ Lock("tx", job[o].tx, "no key update") \in held[o]
                BY <2>1, <3>1 DEF SessionInv, CommitsLocked, Coherent
            <4>2. Conflict("update", "no key update")
                BY DEF Conflict
            <4>3. job[o].tx \in Present
                BY <4>1 DEF Present
            <4>4. rows[job[o].tx].acc # a
                BY <1>1, <1>3, <1>7, <4>1, <4>2, <4>3, Exclusive
            <4> QED BY <1>4, <4>1, <4>4
        <3>2. \A u \in Present' : u \in Present /\ rows'[u].acc = rows[u].acc
            BY <1>4 DEF Present
        <3>3. job[o].op = "delete" /\ rows'[job[o].tx] # NoRow => rows[job[o].tx] # NoRow
            BY <1>4, <2>1 DEF SessionInv, Coherent
        <3> QED BY <1>2, <2>1, <3>1, <3>2, <3>3 DEF SessionInv, CommitsLocked, SameSession
    <2> QED BY <1>2, <1>7, <2>4, <2>5, <2>6, <2>7, CommitFrame
<1>8. SessionInv(s)' /\ Compatible(held')
    BY <1>1, <1>2, ReleaseSession, ReleaseCompatible
<1> QED BY <1>6, <1>7, <1>8 DEF LedgerInv

-----------------------------------------------------------------------------
LEMMA InitInv == LedgerInit => Inv
<1> SUFFICES ASSUME LedgerInit PROVE Inv
    OBVIOUS
<1>1. LedgerTypeOK
    <2>1. TypeOK
        BY DEF LedgerInit, Init, TypeOK
    <2>2. "idle" \in Labels /\ NoJob \in Jobs /\ Untouched \in [Accounts -> Int]
        BY NoJobTyped DEF Labels, Untouched
    <2>3. /\ seq \in Nat /\ pc \in [Slots -> Labels] /\ job \in [Slots -> Jobs]
          /\ leg \in [Slots -> 0 .. 2] /\ draft \in [Slots -> [Accounts -> Int]]
        BY <2>2 DEF LedgerInit
    <2>4. held \in [Slots -> SUBSET Locks] /\ contested \in BOOLEAN
        BY DEF LedgerInit
    <2> QED BY <2>1, <2>3, <2>4 DEF LedgerTypeOK
<1>2. \A s \in Slots : SessionInv(s)
    BY IdleSession DEF LedgerInit
<1>3. StoreInv
    BY MaxBalanceAssumption DEF LedgerInit, Init, StoreInv, ReferencesLive, InRange
<1>4. Compatible(held)
    BY DEF LedgerInit, Compatible
<1> QED BY <1>1, <1>2, <1>3, <1>4 DEF Inv, LedgerInv

LEMMA OpenAccountTyped ==
    ASSUME Typed, NEW x \in Accounts, NEW v \in Openings, OpenAccount(x, v)
    PROVE  LedgerTypeOK'
<1>1. Cents(v) \in Int
    BY CentsInt, OpeningsAssumption
<1> QED BY <1>1 DEF Typed, LedgerTypeOK, TypeOK, OpenAccount, Open

LEMMA CrashTyped ==
    ASSUME Typed, Crash
    PROVE  LedgerTypeOK'
<1>1. "idle" \in Labels /\ NoJob \in Jobs /\ Untouched \in [Accounts -> Int]
    BY NoJobTyped DEF Labels, Untouched
<1> QED BY <1>1 DEF Typed, LedgerTypeOK, TypeOK, Crash, ledger

LEMMA CommitInv ==
    ASSUME Inv, NEW s \in Slots, Commit(s)
    PROVE  LedgerInv'
BY CommitCreateInv, CommitUpdateInv, CommitDeleteInv, CommitCloseInv DEF Commit

LEMMA Stutter == Inv /\ UNCHANGED vars => Inv'
<1> SUFFICES ASSUME Inv, UNCHANGED vars PROVE Inv'
    OBVIOUS
<1>1. LedgerTypeOK'
    BY DEF Inv, LedgerTypeOK, TypeOK, vars, ledger
<1>2. UNCHANGED <<ledger, seq, pc, job, leg, draft, held>>
    BY DEF vars
<1>3. StoreInv' /\ Compatible(held)'
    BY <1>2 DEF Inv, LedgerInv, StoreInv, ReferencesLive, Opened, InRange, ledger
<1>4. ASSUME NEW s \in Slots PROVE SessionInv(s)'
    <2>1. SameSession(s)
        BY <1>2 DEF SameSession
    <2> QED BY <1>2, <2>1, SessionFrame, NatReflexive, IdsAssumption
            DEF Inv, LedgerInv, LedgerTypeOK
<1> QED BY <1>1, <1>3, <1>4 DEF Inv, LedgerInv

LEMMA NextInv == Inv /\ [LedgerNext]_vars => Inv'
<1> SUFFICES ASSUME Inv, LedgerNext PROVE Inv'
    BY Stutter
<1>1. Typed
    BY InvTyped
<1>2. ASSUME NEW x \in Accounts, NEW v \in Openings, OpenAccount(x, v) PROVE Inv'
    BY <1>1, <1>2, OpenAccountTyped, OpenAccountInv DEF Inv
<1>3. ASSUME NEW s \in Slots, BeginRequest(s) PROVE Inv'
    BY <1>1, <1>3, BeginRequestTyped, BeginRequestInv DEF Inv, Typed
<1>4. ASSUME NEW s \in Slots, Statement(s) PROVE Inv'
    BY <1>1, <1>4, StatementTyped, StatementInv DEF Inv, Typed
<1>5. ASSUME NEW s \in Slots, Commit(s) PROVE Inv'
    <2>1. CommitsLocked(s)
        BY DEF Inv, LedgerInv, SessionInv
    <2> QED BY <1>1, <1>5, <2>1, CommitTyped, CommitInv DEF Inv, Typed
<1>6. ASSUME NEW s \in Slots, DeadlockVictim(s) PROVE Inv'
    <2>1. Release(s) /\ UNCHANGED <<ledger, seq, contested>>
        BY <1>6 DEF DeadlockVictim, Rollback
    <2>2. seq' \in Nat /\ seq <= seq'
        BY <2>1, NatReflexive DEF Inv, LedgerTypeOK
    <2> QED BY <1>1, <2>1, <2>2, RollbackTyped, RollbackInv DEF Inv, Typed
<1>7. CASE Crash
    BY <1>1, <1>7, CrashTyped, CrashInv DEF Inv
<1> QED BY <1>2, <1>3, <1>4, <1>5, <1>6, <1>7 DEF LedgerNext

(* In every state every variable of the ledger has its type.               *)
THEOREM TypeCorrect == LedgerSpec => []LedgerTypeOK
<1>1. Inv => LedgerTypeOK
    BY DEF Inv
<1> QED BY <1>1, InitInv, NextInv, PTL DEF LedgerSpec

(* In every state incompatible locks are never held together, a draft is   *)
(* the committed balance plus the request's own updates, an image is wrong *)
(* at most in its amount and a closed destination, and what is about to    *)
(* commit is locked (crud/transaction.py, api/v1/endpoints/accounts.py).   *)
THEOREM LedgerInvariant == LedgerSpec => []LedgerInv
<1>1. Inv => LedgerInv
    BY DEF Inv
<1> QED BY <1>1, InitInv, NextInv, PTL DEF LedgerSpec

(* No transaction row ever refers to an account that does not exist, with  *)
(* any number of concurrent requests (models/transaction.py:14-29).        *)
THEOREM ReferencesStayLive == LedgerSpec => []ReferencesLive
<1>1. Inv => ReferencesLive
    BY DEF Inv, LedgerInv, StoreInv
<1> QED BY <1>1, InitInv, NextInv, PTL DEF LedgerSpec

-----------------------------------------------------------------------------
LEMMA CommitOps ==
    ASSUME Inv, NEW s \in Slots, Commit(s)
    PROVE  /\ job[s].op = "close" \/ (Publish(s) /\ live' = live)
           /\ LegsDone(s)
<1>1. Coherent(s)
    BY DEF Inv, LedgerInv, SessionInv
<1> QED BY <1>1 DEF Commit, CommitCreate, CommitUpdate, CommitDelete, CommitClose, Coherent

(* What a commit leaves on an account is its whole plan.                   *)
LEMMA CommitPosts ==
    ASSUME Inv, NEW s \in Slots, Publish(s), LegsDone(s), NEW x \in live
    PROVE  balance'[x] = balance[x] + Posted(Plan(s), 2, x)
<1>1. x \in Accounts /\ balance \in [Accounts -> Int] /\ Typed
    BY InvTyped DEF Inv, LedgerTypeOK, TypeOK
<1>2. IsPlan(Plan(s))
    BY <1>1, PlanOfJob
<1>3. Posted(Plan(s), leg[s], x) = Posted(Plan(s), 2, x)
    BY <1>2, PostedAll DEF LegsDone
<1>4. DraftIsOwnLegs(s)
    BY DEF Inv, LedgerInv, SessionInv
<1>5. balance'[x] = IF Written(s, x) THEN draft[s][x] ELSE balance[x]
    BY <1>1 DEF Publish, View
<1>6. balance[x] + 0 = balance[x]
    BY <1>1
<1> QED BY <1>1, <1>3, <1>4, <1>5, <1>6 DEF DraftIsOwnLegs

(* Every commit of a creation, an amount change or a deletion moves each   *)
(* account by its own plan, whatever other requests do meanwhile           *)
(* (crud/transaction.py:_apply_balance_deltas).                            *)
THEOREM CommitsPostTheirPlans == LedgerSpec => CommitPostsPlan
<1> DEFINE Posts == \A s \in Slots :
                        (Commit(s) /\ job[s].op # "close") =>
                            \A a \in live : balance'[a] - balance[a] = Posted(Plan(s), 2, a)
<1>1. Inv => Posts
    <2> SUFFICES ASSUME Inv, NEW s \in Slots, Commit(s), job[s].op # "close",
                        NEW a \in live
                 PROVE  balance'[a] - balance[a] = Posted(Plan(s), 2, a)
        OBVIOUS
    <2>1. balance'[a] = balance[a] + Posted(Plan(s), 2, a)
        BY CommitOps, CommitPosts
    <2>2. balance[a] \in Int /\ Posted(Plan(s), 2, a) \in Int
        BY InvTyped, PlanOfJob, PostedInt DEF Inv, LedgerTypeOK, TypeOK
    <2> QED BY <2>1, <2>2
<1>2. Inv /\ [LedgerNext]_vars => [Posts]_vars
    BY <1>1
<1> QED BY <1>2, InitInv, NextInv, PTL DEF LedgerSpec, CommitPostsPlan

-----------------------------------------------------------------------------
(* A commit posts what the serial ledger's step does.                      *)
LEMMA CommitIsPost ==
    ASSUME Inv, NEW s \in Slots, Publish(s), LegsDone(s), NEW p,
           \A x \in live : Posted(Plan(s), 2, x) = Posted(p, 2, x)
    PROVE  Post(p)
<1>1. balance \in [Accounts -> Int] /\ DraftIsOwnLegs(s)
    BY DEF Inv, LedgerInv, SessionInv, LedgerTypeOK, TypeOK
<1>2. ASSUME NEW x \in Accounts
      PROVE  View(s, x) = balance[x] + (IF x \in live THEN Posted(p, 2, x) ELSE 0)
    <2>1. balance'[x] = View(s, x)
        BY DEF Publish
    <2>2. CASE x \in live
        BY <2>1, <2>2, CommitPosts
    <2>3. CASE x \notin live
        BY <1>1, <2>3 DEF DraftIsOwnLegs, View
    <2> QED BY <2>2, <2>3
<1>3. balance' = [x \in Accounts |->
                     balance[x] + IF x \in live THEN Posted(p, 2, x) ELSE 0]
    BY <1>2 DEF Publish
<1>4. \A x \in Accounts : InRange(balance'[x])
    BY PublishedBalance
<1> QED BY <1>3, <1>4 DEF Post

(* A destination closed since the row was read is posted nowhere.          *)
LEMMA ImagePlan ==
    ASSUME NEW r \in Row, NEW o \in Row, r.typ = o.typ, r.acc = o.acc,
           r.to = o.to \/ (r.to = None /\ o.to \notin live),
           NEW n \in Int, NEW x \in live
    PROVE  Posted(Deltas(o, n), 2, x) = Posted(Deltas(r, n), 2, x)
<1> DEFINE from == [acc |-> o.acc, by |-> n]
           less == [acc |-> o.acc, by |-> -n]
           dest == [acc |-> o.to, by |-> n]
<1>1. CASE o.typ # "transfer" \/ r.to = o.to
    <2>1. Deltas(o, n) = Deltas(r, n)
        BY <1>1 DEF Deltas
    <2> QED BY <2>1
<1>2. CASE o.typ = "transfer" /\ r.to # o.to
    <2>1. Deltas(o, n) = <<less, dest>> /\ Deltas(r, n) = <<less>> /\ o.to # x
        BY <1>2 DEF Deltas
    <2>2. Posted(<<less, dest>>, 2, x) = Posted(<<less>>, 2, x)
        <3>1. Len(<<less, dest>>) = 2 /\ <<less, dest>>[1] = less /\ <<less, dest>>[2].acc = o.to
            OBVIOUS
        <3>2. Len(<<less>>) = 1 /\ <<less>>[1] = less
            OBVIOUS
        <3> QED BY <2>1, <3>1, <3>2 DEF Posted
    <2> QED BY <2>1, <2>2
<1> QED BY <1>1, <1>2

LEMMA SerialCreate ==
    ASSUME Inv, NEW s \in Slots, CommitCreate(s)
    PROVE  Next
<1> DEFINE t == job[s].tx
           body == job[s].new
<1>1. /\ pc[s] = "work" /\ job[s].op = "create" /\ LegsDone(s) /\ Publish(s)
      /\ rows' = [rows EXCEPT ![t] = Stored(body)] /\ UNCHANGED <<live, opening, kept>>
    BY DEF CommitCreate
<1>2. Coherent(s) /\ InsertedIsFresh(s)
    BY DEF Inv, LedgerInv, SessionInv
<1>3. /\ t \in Txs /\ rows[t] = NoRow /\ kept[t] = NoRow /\ body \in Bodies
      /\ body.acc \in live /\ body.to \in live \cup {None}
    BY <1>1, <1>2 DEF Coherent, InsertedIsFresh
<1>4. Plan(s) = Deltas(body, body.amt)
    BY <1>1 DEF Plan
<1>5. Post(Deltas(body, body.amt))
    BY <1>1, <1>4, CommitIsPost
<1> HIDE DEF t, body
<1>6. Create(t, body)
    BY <1>1, <1>3, <1>5 DEF Create
<1> QED BY <1>3, <1>6 DEF Next

LEMMA FreshImage ==
    ASSUME Inv, NEW s \in Slots, job[s].op \in {"update", "delete"}, ~StaleImage(s)
    PROVE  /\ job[s].tx \in Txs /\ job[s].old \in Row /\ rows[job[s].tx] \in Row
           /\ rows[job[s].tx].amt = job[s].old.amt
           /\ \A n \in Int, x \in live :
                 Posted(Deltas(job[s].old, n), 2, x)
                     = Posted(Deltas(rows[job[s].tx], n), 2, x)
<1>1. Coherent(s) /\ ImageOfRow(s) /\ rows \in [Txs -> Row \cup {NoRow}]
    BY DEF Inv, LedgerInv, SessionInv, LedgerTypeOK, TypeOK
<1>2. job[s].tx \in Txs /\ job[s].old \in Row
    BY <1>1 DEF Coherent
<1>3. rows[job[s].tx] # NoRow /\ rows[job[s].tx].amt = job[s].old.amt
    BY DEF StaleImage
<1>4. rows[job[s].tx] \in Row
    BY <1>1, <1>2, <1>3
<1> QED BY <1>1, <1>2, <1>3, <1>4, ImagePlan DEF ImageOfRow

LEMMA SerialUpdate ==
    ASSUME Inv, NEW s \in Slots, CommitUpdate(s), ~StaleImage(s)
    PROVE  Next
<1> DEFINE t == job[s].tx
           n == job[s].new.amt
<1>1. /\ pc[s] = "commit" /\ job[s].op = "update" /\ Publish(s)
      /\ rows' = [rows EXCEPT ![t] = Stored([rows[t] EXCEPT !.amt = n])]
      /\ UNCHANGED <<live, opening, kept>>
    BY DEF CommitUpdate
<1>2. /\ t \in Txs /\ job[s].old \in Row /\ rows[t] \in Row
      /\ rows[t].amt = job[s].old.amt
      /\ \A m \in Int, x \in live :
            Posted(Deltas(job[s].old, m), 2, x) = Posted(Deltas(rows[t], m), 2, x)
    BY <1>1, FreshImage
<1>3. Coherent(s)
    BY DEF Inv, LedgerInv, SessionInv
<1>4. n \in Amounts /\ n \in Int /\ LegsDone(s)
    BY <1>1, <1>3, <1>2, AmountsAssumption DEF Coherent, Row
<1>5. Plan(s) = Deltas(job[s].old, n - rows[t].amt)
    BY <1>1, <1>2 DEF Plan
<1>6. n - rows[t].amt \in Int
    BY <1>2, <1>4 DEF Row
<1>7. Post(Deltas(rows[t], n - rows[t].amt))
    <2> HIDE DEF t, n
    <2>1. \A x \in live : Posted(Plan(s), 2, x) = Posted(Deltas(rows[t], n - rows[t].amt), 2, x)
        BY <1>2, <1>5, <1>6
    <2> QED BY <1>1, <1>4, <2>1, CommitIsPost
<1>8. rows[t] # NoRow
    BY <1>2, NoRowAssumption
<1> HIDE DEF t, n
<1>9. Update(t, n)
    BY <1>1, <1>7, <1>8 DEF Update
<1> QED BY <1>2, <1>4, <1>9 DEF Next

LEMMA SerialDelete ==
    ASSUME Inv, NEW s \in Slots, CommitDelete(s), ~StaleImage(s)
    PROVE  Next
<1> DEFINE t == job[s].tx
<1>1. /\ pc[s] = "commit" /\ job[s].op = "delete" /\ Publish(s)
      /\ rows' = [rows EXCEPT ![t] = NoRow] /\ UNCHANGED <<live, opening, kept>>
    BY DEF CommitDelete
<1>2. /\ t \in Txs /\ job[s].old \in Row /\ rows[t] \in Row
      /\ rows[t].amt = job[s].old.amt
      /\ \A m \in Int, x \in live :
            Posted(Deltas(job[s].old, m), 2, x) = Posted(Deltas(rows[t], m), 2, x)
    BY <1>1, FreshImage
<1>3. LegsDone(s)
    BY <1>1 DEF Inv, LedgerInv, SessionInv, Coherent
<1>4. Plan(s) = Deltas(job[s].old, -rows[t].amt) /\ -rows[t].amt \in Int
    BY <1>1, <1>2 DEF Plan, Row
<1>5. Post(Deltas(rows[t], -rows[t].amt))
    <2> HIDE DEF t
    <2>1. \A x \in live : Posted(Plan(s), 2, x) = Posted(Deltas(rows[t], -rows[t].amt), 2, x)
        BY <1>2, <1>4
    <2> QED BY <1>1, <1>3, <2>1, CommitIsPost
<1>6. rows[t] # NoRow
    BY <1>2, NoRowAssumption
<1> HIDE DEF t
<1>7. Delete(t)
    BY <1>1, <1>5, <1>6 DEF Delete
<1> QED BY <1>2, <1>7 DEF Next

(* A second deletion of an account finds nothing and changes nothing.      *)
LEMMA SerialClose ==
    ASSUME Inv, NEW s \in Slots, CommitClose(s)
    PROVE  Next \/ UNCHANGED ledger
<1> DEFINE a == job[s].acc
<1>1. /\ pc[s] = "commit" /\ job[s].op = "close"
      /\ live' = live \ {a} /\ rows' = Without(a) /\ kept' = KeptAfter(a)
      /\ balance' = [balance EXCEPT ![a] = 0] /\ UNCHANGED opening
    BY DEF CommitClose
<1>2. /\ Coherent(s) /\ StoreInv /\ balance \in [Accounts -> Int]
      /\ rows \in [Txs -> Row \cup {NoRow}] /\ kept \in [Txs -> Row \cup {NoRow}]
    BY DEF Inv, LedgerInv, SessionInv, LedgerTypeOK, TypeOK
<1>3. a \in Accounts
    BY <1>1, <1>2 DEF Coherent
<1> HIDE DEF a
<1>4. CASE a \in live
    BY <1>1, <1>3, <1>4 DEF Next, Close
<1>5. CASE a \notin live
    <2>1. \A t \in Txs : rows[t] # NoRow => rows[t].acc # a /\ rows[t].to # a
        BY <1>2, <1>3, <1>5, NoneAssumption DEF StoreInv, ReferencesLive
    <2>2. rows' = rows
        <3>1. \A t \in Txs : Without(a)[t] = rows[t]
            BY <2>1 DEF Without
        <3> QED BY <1>1, <1>2, <3>1 DEF Without
    <2>3. kept' = kept
        <3>1. \A t \in Txs : KeptAfter(a)[t] = kept[t]
            BY <2>1 DEF KeptAfter
        <3> QED BY <1>1, <1>2, <3>1 DEF KeptAfter
    <2>4. balance' = balance
        BY <1>1, <1>2, <1>3, <1>5 DEF StoreInv
    <2>5. live' = live
        BY <1>1, <1>5
    <2> QED BY <1>1, <2>2, <2>3, <2>4, <2>5 DEF ledger
<1> QED BY <1>4, <1>5

(* A step of the ledger is a serial one, or commits from an image out of   *)
(* date, and leaves a note of that.                                        *)
CommitsStale(s) == Commit(s) /\ job[s].old # NoRow /\ StaleImage(s)

LEMMA SerialStep ==
    ASSUME Inv, [LedgerNext]_vars
    PROVE  \/ [Next]_ledger
           \/ \E s \in Slots : CommitsStale(s) /\ contested'
<1>1. ASSUME NEW s \in Slots, Commit(s)
      PROVE  Next \/ (CommitsStale(s) /\ contested') \/ UNCHANGED ledger
    <2>1. Coherent(s)
        BY <1>1 DEF Inv, LedgerInv, SessionInv
    <2>2. CASE CommitCreate(s)
        BY <2>2, SerialCreate
    <2>3. CASE CommitUpdate(s)
        <3>1. Commit(s) /\ job[s].old # NoRow
            BY <1>1, <2>1, <2>3, NoRowAssumption DEF CommitUpdate, Coherent
        <3>2. StaleImage(s) => contested'
            BY <2>3 DEF CommitUpdate
        <3> QED BY <2>3, <3>1, <3>2, SerialUpdate DEF CommitsStale
    <2>4. CASE CommitDelete(s)
        <3>1. Commit(s) /\ job[s].old # NoRow
            BY <1>1, <2>1, <2>4, NoRowAssumption DEF CommitDelete, Coherent
        <3>2. StaleImage(s) => contested'
            BY <2>4 DEF CommitDelete
        <3> QED BY <2>4, <3>1, <3>2, SerialDelete DEF CommitsStale
    <2>5. CASE CommitClose(s)
        BY <2>5, SerialClose
    <2> QED BY <1>1, <2>2, <2>3, <2>4, <2>5 DEF Commit
<1>2. ASSUME NEW s \in Slots, Statement(s) PROVE UNCHANGED ledger
    BY <1>2 DEF Statement, Insert, InsertRefused, Recheck, RecheckGone, Leg, LegOfNobody,
                Overflow, WriteRow, UpdateGone, CloseRow, CloseAccount, Cascade, Rollback
<1>3. ASSUME NEW s \in Slots, BeginRequest(s) \/ DeadlockVictim(s) PROVE UNCHANGED ledger
    BY <1>3 DEF BeginRequest, BeginCreate, BeginUpdate, BeginDelete, BeginClose, Begin,
                DeadlockVictim, Rollback
<1>4. ASSUME NEW x \in Accounts, NEW v \in Openings, OpenAccount(x, v) PROVE Next
    BY <1>4 DEF OpenAccount, Next
<1>5. CASE UNCHANGED vars
    BY <1>5 DEF vars
<1>6. CASE Crash
    BY <1>6 DEF Crash
<1> QED BY <1>1, <1>2, <1>3, <1>4, <1>5, <1>6 DEF LedgerNext

(* With any number of concurrent requests, a step changes the committed    *)
(* ledger as one handler run alone would, unless it commits from an image  *)
(* of its row that is out of date: the rows that PATCH and DELETE          *)
(* /transactions/{id} read without a lock are the only source of           *)
(* anomalies (crud/transaction.py:67-108).                                 *)
THEOREM SerialUpToStaleImages == LedgerSpec => SerialUnlessContested
<1>1. Inv /\ [LedgerNext]_vars => [Next \/ \E s \in Slots : CommitsStale(s)]_ledger
    BY SerialStep
<1>2. Inv /\ [LedgerNext]_vars =>
          [Next \/ \E s \in Slots : Commit(s) /\ job[s].old # NoRow /\ StaleImage(s)]_ledger
    BY <1>1 DEF CommitsStale
<1> QED BY <1>2, InitInv, NextInv, PTL DEF LedgerSpec, SerialUnlessContested

-----------------------------------------------------------------------------
(* The books of overlapping requests.                                      *)

LEMMA ContestedStays ==
    ASSUME Inv, [LedgerNext]_vars, contested
    PROVE  contested'
<1>1. ASSUME NEW s \in Slots, Commit(s) PROVE contested'
    BY <1>1 DEF Commit, CommitCreate, CommitUpdate, CommitDelete, CommitClose
<1>2. ASSUME NEW s \in Slots, Statement(s) PROVE contested'
    BY <1>2 DEF Statement, Insert, InsertRefused, Recheck, RecheckGone, Leg, LegOfNobody,
                Overflow, WriteRow, UpdateGone, CloseRow, CloseAccount, Cascade, Rollback
<1>3. ASSUME NEW s \in Slots, BeginRequest(s) \/ DeadlockVictim(s) PROVE contested'
    BY <1>3 DEF BeginRequest, BeginCreate, BeginUpdate, BeginDelete, BeginClose, Begin,
                DeadlockVictim, Rollback
<1>4. ASSUME NEW x \in Accounts, NEW v \in Openings, OpenAccount(x, v) PROVE contested'
    BY <1>4 DEF OpenAccount
<1>5. CASE UNCHANGED vars
    BY <1>5 DEF vars
<1>6. CASE Crash
    BY <1>6 DEF Crash
<1> QED BY <1>1, <1>2, <1>3, <1>4, <1>5, <1>6 DEF LedgerNext

(* Any number of concurrent requests, none of which ever commits from an   *)
(* image out of date, are requests in some order, one after another.       *)
THEOREM UncontestedIsSerial == LedgerSpec => ([]~contested => ImplementsSerialLedger)
<1>1. LedgerInit => Init
    BY DEF LedgerInit
<1>2. Inv /\ [LedgerNext]_vars /\ ~contested' => [Next]_ledger
    BY SerialStep
<1> QED BY <1>1, <1>2, InitInv, NextInv, PTL DEF LedgerSpec, ImplementsSerialLedger, Spec

(* For any number of concurrent requests, as long as none has committed    *)
(* from an image out of date and every PATCH is to whole cents, each       *)
(* account's balance is its opening balance plus the effect of every       *)
(* stored transaction (crud/transaction.py:39-50).                         *)
THEOREM OverlappingBooksBalance ==
    ASSUME WholeAmounts
    PROVE  LedgerSpec => []UncontestedBooksBalance
<1> DEFINE Balanced == ~contested => BooksInv /\ BooksBalance
<1>1. LedgerInit => Balanced
    BY BooksInit DEF LedgerInit
<1>2. Inv /\ Balanced /\ [LedgerNext]_vars => Balanced'
    <2> SUFFICES ASSUME Inv, Balanced, [LedgerNext]_vars, ~contested'
                 PROVE  BooksInv' /\ BooksBalance'
        OBVIOUS
    <2>1. ~contested /\ BooksInv /\ BooksBalance
        BY ContestedStays
    <2>2. [Next]_ledger
        BY SerialStep
    <2> QED BY <2>1, <2>2, BooksNext, BalanceStep
<1>3. Balanced => UncontestedBooksBalance
    BY DEF UncontestedBooksBalance
<1> QED BY <1>1, <1>2, <1>3, InitInv, NextInv, PTL DEF LedgerSpec

-----------------------------------------------------------------------------
(* With one session, an image is the row.                                  *)
ImagesCurrent ==
    \A s \in Slots : job[s].op \in {"update", "delete"} => rows[job[s].tx] = job[s].old

LEMMA CurrentStep ==
    ASSUME NEW only, Slots = {only}, Inv, ImagesCurrent, LedgerNext
    PROVE  ImagesCurrent'
<1>1. /\ job \in [Slots -> Jobs] /\ only \in Slots
      /\ \A s \in Slots : s = only
    BY DEF Inv, LedgerTypeOK
<1> SUFFICES ASSUME job'[only].op \in {"update", "delete"}
             PROVE  rows'[job'[only].tx] = job'[only].old
    BY <1>1 DEF ImagesCurrent
<1>2. ASSUME NEW s \in Slots, Release(s) PROVE FALSE
    <2>1. job'[only].op = "none"
        BY <1>1, <1>2 DEF Release, NoJob
    <2> QED BY <2>1
<1>3. ASSUME NEW s \in Slots, BeginRequest(s) PROVE rows'[job'[only].tx] = job'[only].old
    <2>1. s = only /\ UNCHANGED rows
        BY <1>1, <1>3 DEF BeginRequest, BeginCreate, BeginUpdate, BeginDelete, BeginClose,
                          Begin, ledger
    <2>2. ASSUME NEW body \in Bodies, BeginCreate(s, body) PROVE FALSE
        BY <1>1, <2>1, <2>2 DEF BeginCreate, Begin, NoJob
    <2>3. ASSUME NEW x \in Accounts, BeginClose(s, x) PROVE FALSE
        BY <1>1, <2>1, <2>3 DEF BeginClose, Begin, NoJob
    <2>4. ASSUME NEW t \in Txs, NEW n \in Amounts, BeginUpdate(s, t, n)
          PROVE  job'[only].tx = t /\ job'[only].old = rows[t]
        BY <1>1, <2>1, <2>4 DEF BeginUpdate, Begin, NoJob
    <2>5. ASSUME NEW t \in Txs, BeginDelete(s, t)
          PROVE  job'[only].tx = t /\ job'[only].old = rows[t]
        BY <1>1, <2>1, <2>5 DEF BeginDelete, Begin, NoJob
    <2> QED BY <1>3, <2>1, <2>2, <2>3, <2>4, <2>5 DEF BeginRequest
<1>4. ASSUME UNCHANGED <<rows, job>> PROVE rows'[job'[only].tx] = job'[only].old
    BY <1>1, <1>4 DEF ImagesCurrent
<1>5. ASSUME NEW s \in Slots, Statement(s), ~Release(s)
      PROVE  rows'[job'[only].tx] = job'[only].old
    <2>1. ASSUME Insert(s) \/ CloseRow(s) PROVE FALSE
        <3>1. Coherent(s) /\ s = only
            BY <1>1 DEF Inv, LedgerInv, SessionInv
        <3> QED BY <1>1, <2>1, <3>1 DEF Insert, CloseRow, Coherent, Jobs
    <2> QED BY <1>4, <1>5, <2>1
            DEF Statement, InsertRefused, Recheck, RecheckGone, Leg, LegOfNobody,
                Overflow, WriteRow, UpdateGone, CloseAccount, Cascade, Rollback, ledger
<1>6. ASSUME NEW s \in Slots, Commit(s) \/ DeadlockVictim(s) PROVE Release(s)
    BY <1>6 DEF Commit, CommitCreate, CommitUpdate, CommitDelete, CommitClose,
                DeadlockVictim, Rollback
<1>7. ASSUME Crash PROVE FALSE
    <2>1. job'[only].op = "none"
        BY <1>1, <1>7 DEF Crash, NoJob
    <2> QED BY <2>1
<1>8. ASSUME NEW x \in Accounts, NEW v \in Openings, OpenAccount(x, v)
      PROVE  UNCHANGED <<rows, job>>
    BY <1>8 DEF OpenAccount, Open
<1> QED BY <1>2, <1>3, <1>4, <1>5, <1>6, <1>7, <1>8 DEF LedgerNext

(* Requests that come one at a time implement the serial ledger: the       *)
(* statements of a handler, its error paths and its rollback add up to one *)
(* step on the committed rows, or to none.                                 *)
THEOREM OneAtATimeIsSerial ==
    ASSUME NEW only, Slots = {only}
    PROVE  LedgerSpec => ImplementsSerialLedger
<1>1. LedgerInit => Init /\ ImagesCurrent
    BY DEF LedgerInit, ImagesCurrent, NoJob
<1>2. Inv /\ ImagesCurrent /\ [LedgerNext]_vars => ImagesCurrent'
    <2>1. UNCHANGED vars /\ ImagesCurrent => ImagesCurrent'
        BY DEF vars, ledger, ImagesCurrent
    <2> QED BY <2>1, CurrentStep
<1>3. Inv /\ ImagesCurrent =>
          ~\E s \in Slots : Commit(s) /\ job[s].old # NoRow /\ StaleImage(s)
    <2> SUFFICES ASSUME Inv, ImagesCurrent, NEW s \in Slots,
                        Commit(s), job[s].old # NoRow
                 PROVE  ~StaleImage(s)
        OBVIOUS
    <2>1. job[s].op \in {"update", "delete"}
        BY DEF Inv, LedgerInv, SessionInv, Coherent,
               Commit, CommitCreate, CommitUpdate, CommitDelete, CommitClose
    <2> QED BY <2>1 DEF ImagesCurrent, StaleImage
<1>4. LedgerSpec => SerialUnlessContested
    BY SerialUpToStaleImages
<1> QED BY <1>1, <1>2, <1>3, <1>4, InitInv, NextInv, PTL
        DEF LedgerSpec, SerialUnlessContested, ImplementsSerialLedger, Spec

(* Of requests that come one at a time, nothing but a PATCH to a fraction  *)
(* of a cent moves a balance off the stored transactions, and that by one  *)
(* cent at most (crud/transaction.py:78-90), whatever the sequence of      *)
(* creations, changes, deletions, closings, errors and crashes.            *)
THEOREM OneAtATimeOffByRounding ==
    ASSUME NEW only, Slots = {only}
    PROVE  LedgerSpec => OffByRounding
<1>1. LedgerSpec => Spec
    BY OneAtATimeIsSerial DEF ImplementsSerialLedger
<1> QED BY <1>1, SerialOffByRounding, PTL
=============================================================================
