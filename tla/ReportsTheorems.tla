--------------------------- MODULE ReportsTheorems ---------------------------
(***************************************************************************)
(* What holds of Pages, of Calendar and of Budgets for any rows, page      *)
(* sizes, dates, budgets and expenses.                                     *)
(***************************************************************************)
EXTENDS MCReports, FiniteSetTheorems, TLAPS

Before(r) == {q \in Present : Precedes(q, r)}

Rank(r) == Cardinality(Before(r))

(* Rows seen have come before the client's offset, unless rows came; rows  *)
(* before the offset have been seen, unless rows left.                     *)
ReadSoFar(r) ==
    /\ ~history.came => seen[r] <= 1 /\ (seen[r] = 1 => Rank(r) < reader.offset)
    /\ ~history.left => (Rank(r) < reader.offset => seen[r] >= 1)

PagesInv ==
    /\ PagesTypeOK
    /\ listing \in {"users", "audit", "transactions"}
    /\ history \in [stayed : SUBSET Ids, came : BOOLEAN, left : BOOLEAN,
                    tied : BOOLEAN, net : Int]
    /\ listing = "users" =>
          (\A r \in Ids : rows[r] \in {Absent, r}) /\ ~history.tied
    /\ reader.offset = 0 => history.stayed = {} /\ \A r \in Ids : seen[r] = 0
    /\ reader.end => Cardinality(Present) <= reader.offset
    /\ ~history.tied => \A r \in history.stayed : ReadSoFar(r)
    /\ reader.total # -1 => reader.total + history.net = Cardinality(Present)
    /\ reader.total = -1 => history.net = 0

LEMMA RowsTyped ==
    ASSUME PagesTypeOK
    PROVE  /\ \A r \in Ids : rows[r] \in Nat
           /\ IsFiniteSet(Present) /\ Present \subseteq Ids
           /\ Cardinality(Present) \in Nat
<1>1. \A r \in Ids : rows[r] \in Nat
    <2>1. \A r \in Ids : rows[r] \in Times \cup Ids \cup {Absent}
        BY DEF PagesTypeOK
    <2>2. Times \cup Ids \cup {Absent} \subseteq Nat
        BY IdsAssumption, TimesAssumption DEF Absent
    <2> QED BY <2>1, <2>2
<1>2. IsFiniteSet(Present) /\ Present \subseteq Ids
    BY IdsAssumption, FS_Subset DEF Present
<1> QED BY <1>1, <1>2, FS_CardinalityType

LEMMA RankTyped ==
    ASSUME PagesTypeOK, NEW r \in Present
    PROVE  /\ IsFiniteSet(Before(r)) /\ Before(r) \subseteq Present \ {r}
           /\ Rank(r) \in Nat /\ Rank(r) < Cardinality(Present)
<1>1. r \in Ids /\ rows[r] \in Nat
    BY RowsTyped DEF Present
<1>2. Before(r) \subseteq Present \ {r}
    BY <1>1 DEF Before, Precedes
<1>3. IsFiniteSet(Present \ {r}) /\ Cardinality(Present \ {r}) = Cardinality(Present) - 1
    BY RowsTyped, FS_RemoveElement
<1>4. IsFiniteSet(Before(r)) /\ Cardinality(Before(r)) <= Cardinality(Present \ {r})
    BY <1>2, <1>3, FS_Subset
<1>5. Cardinality(Before(r)) \in Nat
    BY <1>4, FS_CardinalityType
<1> QED BY <1>2, <1>3, <1>4, <1>5, RowsTyped DEF Rank

LEMMA FirstsSize ==
    ASSUME PagesTypeOK, NEW n \in Nat, NEW F \in Firsts(n)
    PROVE  /\ F \subseteq Present /\ IsFiniteSet(F)
           /\ Cardinality(F) = IF n < Cardinality(Present) THEN n ELSE Cardinality(Present)
<1>1. F \subseteq Present
    BY DEF Firsts
<1>2. IsFiniteSet(F)
    BY <1>1, RowsTyped, FS_Subset
<1> QED BY <1>1, <1>2, RowsTyped DEF Firsts

(* When no two rows share a time, the first n are those with fewer than n  *)
(* before them.                                                            *)
LEMMA FirstsAreLowRanks ==
    ASSUME PagesTypeOK, ~Tied, NEW n \in Nat, NEW F \in Firsts(n), NEW r \in Present
    PROVE  r \in F <=> Rank(r) < n
<1>1. Rank(r) \in Nat /\ Rank(r) < Cardinality(Present) /\ IsFiniteSet(Before(r))
    BY RankTyped
<1>2. CASE ~(n < Cardinality(Present))
    BY <1>1, <1>2, RowsTyped DEF Firsts
<1>3. CASE n < Cardinality(Present)
    <2>1. IsFiniteSet(F) /\ Cardinality(F) = n
        BY <1>3, FirstsSize
    <2>2. ASSUME r \in F PROVE Rank(r) < n
        <3>1. Before(r) \subseteq F \ {r}
            BY <2>2, RankTyped DEF Firsts, Before
        <3>2. IsFiniteSet(F \ {r}) /\ Cardinality(F \ {r}) = n - 1
            BY <2>1, <2>2, FS_RemoveElement
        <3>3. Cardinality(Before(r)) <= n - 1
            BY <3>1, <3>2, FS_Subset
        <3> QED BY <1>1, <3>3 DEF Rank
    <2>3. ASSUME r \notin F PROVE ~(Rank(r) < n)
        <3>1. ASSUME NEW q \in F PROVE q \in Before(r)
            <4>1. q \in Present /\ q # r
                BY <2>3 DEF Firsts
            <4>2. ~Precedes(r, q)
                BY <2>3 DEF Firsts
            <4>3. Precedes(q, r)
                BY <4>1, <4>2 DEF Tied
            <4> QED BY <4>1, <4>3 DEF Before
        <3>2. Cardinality(F) <= Cardinality(Before(r))
            BY <1>1, <3>1, FS_Subset
        <3> QED BY <1>1, <2>1, <3>2 DEF Rank
    <2> QED BY <2>2, <2>3
<1> QED BY <1>2, <1>3

(* How many rows a page has, and which when none are tied.                 *)
LEMMA PageCut ==
    ASSUME PagesTypeOK, NEW page \in PageAt(reader.offset)
    PROVE  /\ page \subseteq Present
           /\ Cardinality(page) =
                 LET rest == Cardinality(Present) - reader.offset
                 IN  IF rest < 0 THEN 0 ELSE IF rest < PageSize THEN rest ELSE PageSize
           /\ ~Tied => \A r \in Present :
                 r \in page <=> reader.offset <= Rank(r) /\ Rank(r) < reader.offset + PageSize
<1> DEFINE o == reader.offset
           N == Cardinality(Present)
<1>1. o \in Nat /\ PageSize \in Nat \ {0} /\ N \in Nat
    BY RowsTyped, PageSizeAssumption DEF PagesTypeOK
<1>2. PICK H \in Firsts(o + PageSize) \X Firsts(o) : H[2] \subseteq H[1] /\ page = H[1] \ H[2]
    BY DEF PageAt
<1> DEFINE F == H[1]
           G == H[2]
<1>3. F \in Firsts(o + PageSize) /\ G \in Firsts(o) /\ G \subseteq F /\ page = F \ G
    BY <1>2
<1>4. o + PageSize \in Nat
    BY <1>1
<1> HIDE DEF F, G, o, N
<1>5. /\ F \subseteq Present /\ IsFiniteSet(F)
      /\ Cardinality(F) = IF o + PageSize < N THEN o + PageSize ELSE N
    BY <1>3, <1>4, FirstsSize DEF N
<1>6. Cardinality(G) = IF o < N THEN o ELSE N
    BY <1>1, <1>3, FirstsSize DEF N
<1>7. F \cap G = G
    BY <1>3
<1>8. Cardinality(page) = Cardinality(F) - Cardinality(G)
    BY <1>3, <1>5, <1>7, FS_Difference
<1>9. Cardinality(page) = IF N - o < 0 THEN 0 ELSE IF N - o < PageSize THEN N - o ELSE PageSize
    BY <1>1, <1>5, <1>6, <1>8
<1>10. ASSUME ~Tied, NEW r \in Present
       PROVE  r \in page <=> o <= Rank(r) /\ Rank(r) < o + PageSize
    <2>1. (r \in F <=> Rank(r) < o + PageSize) /\ (r \in G <=> Rank(r) < o)
        BY <1>1, <1>3, <1>4, <1>10, FirstsAreLowRanks
    <2> QED BY <1>1, <1>3, <2>1, RankTyped
<1> QED BY <1>3, <1>5, <1>9, <1>10 DEF o, N

LEMMA PageNotFull ==
    ASSUME NEW N \in Nat, NEW o \in Nat, NEW size,
           size = LET rest == N - o
                  IN  IF rest < 0 THEN 0 ELSE IF rest < PageSize THEN rest ELSE PageSize
    PROVE  /\ size < PageSize <=> N - o < PageSize
           /\ size < PageSize => N <= o + PageSize
BY PageSizeAssumption

LEMMA PagesInitInv == PagesInit => PagesInv
<1> SUFFICES ASSUME PagesInit PROVE PagesInv
    OBVIOUS
<1>1. PagesTypeOK
    BY DEF PagesInit, PagesTypeOK, Start, Nothing, Absent
<1>2. history.net = 0 /\ reader.total = -1 /\ ~reader.end /\ history.stayed = {} /\ ~history.tied
    BY DEF PagesInit, Start, Nothing
<1> QED BY <1>1, <1>2 DEF PagesInit, PagesInv, Nothing, Absent

LEMMA CountInv ==
    ASSUME PagesInv, Count, ~reader.end
    PROVE  PagesInv'
<1>1. /\ UNCHANGED <<listing, rows, seen, history, Present>>
      /\ \A r : Rank(r)' = Rank(r)
    BY DEF Count, Present, Rank, Before, Precedes
<1>2. /\ reader' \in [offset : Nat, total : Nat \cup {-1}, end : BOOLEAN]
      /\ reader'.offset = reader.offset /\ ~reader'.end /\ reader'.total = Cardinality(Present)
      /\ reader'.total \in Nat /\ history.net = 0
    BY RowsTyped DEF Count, PagesInv, PagesTypeOK
<1>3. PagesTypeOK'
    BY <1>1, <1>2 DEF PagesInv, PagesTypeOK
<1>4. \A r : ReadSoFar(r)' = ReadSoFar(r)
    BY <1>1, <1>2 DEF ReadSoFar
<1> QED BY <1>1, <1>2, <1>3, <1>4 DEF PagesInv

(* Users are sorted by their ids, which no two share.                      *)
LEMMA UsersNeverTied == PagesInv /\ listing = "users" => ~Tied
BY RowsTyped DEF PagesInv, Tied, Present, Precedes, Absent

LEMMA SelectInv ==
    ASSUME PagesInv, Select, ~reader.end
    PROVE  PagesInv'
<1> DEFINE o == reader.offset
<1>1. o \in Nat /\ PageSize \in Nat \ {0} /\ o + PageSize \in Nat /\ o + PageSize # 0
    BY PageSizeAssumption DEF PagesInv, PagesTypeOK
<1>2. PICK page \in PageAt(o) :
          /\ seen' = [r \in Ids |-> seen[r] + IF r \in page THEN 1 ELSE 0]
          /\ reader' = [offset |-> o + PageSize, total |-> -1,
                        end |-> Cardinality(page) < PageSize]
    BY DEF Select
<1>3. /\ UNCHANGED <<listing, rows, Present>>
      /\ \A r : Rank(r)' = Rank(r)
    BY DEF Select, Present, Rank, Before, Precedes
<1>4. /\ history' \in [stayed : SUBSET Ids, came : BOOLEAN, left : BOOLEAN,
                       tied : BOOLEAN, net : Int]
      /\ history'.stayed = (IF o = 0 THEN Present ELSE history.stayed)
      /\ history'.came = history.came /\ history'.left = history.left
      /\ history'.tied = (history.tied \/ Tied) /\ history'.net = 0
    <2>1. history \in [stayed : SUBSET Ids, came : BOOLEAN, left : BOOLEAN,
                       tied : BOOLEAN, net : Int]
        BY DEF PagesInv
    <2>2. Present \subseteq Ids /\ 0 \in Int
        BY DEF Present
    <2>3. (history.tied \/ Tied) \in BOOLEAN
        BY DEF Tied
    <2>4. history' = [history EXCEPT !.stayed = IF o = 0 THEN Present ELSE history.stayed,
                                     !.tied = history.tied \/ Tied, !.net = 0]
        BY DEF Select
    <2> QED BY <2>1, <2>2, <2>3, <2>4
<1>5. history'.stayed \subseteq Present
    BY <1>4 DEF PagesInv, PagesTypeOK
<1>6. \A r \in Ids : seen[r] \in Nat /\ seen'[r] = IF r \in page THEN seen[r] + 1 ELSE seen[r]
    BY <1>2 DEF PagesInv, PagesTypeOK
<1>7. PagesTypeOK'
    <2>1. seen' \in [Ids -> Nat]
        BY <1>2, <1>6
    <2> QED BY <1>1, <1>2, <1>3, <1>4, <1>5, <2>1 DEF PagesInv, PagesTypeOK
<1>8. listing' = "users" => (\A r \in Ids : rows'[r] \in {Absent, r}) /\ ~history'.tied
    BY <1>3, <1>4, UsersNeverTied DEF PagesInv
<1>9. PagesTypeOK
    BY DEF PagesInv
<1>10. reader'.end => Cardinality(Present) <= reader'.offset
    <2>1. Cardinality(page) =
              LET rest == Cardinality(Present) - o
              IN  IF rest < 0 THEN 0 ELSE IF rest < PageSize THEN rest ELSE PageSize
        BY <1>2, <1>9, PageCut
    <2>2. Cardinality(Present) \in Nat
        BY <1>9, RowsTyped
    <2>3. Cardinality(page) < PageSize => Cardinality(Present) <= o + PageSize
        BY <1>1, <2>1, <2>2, PageNotFull
    <2>4. reader'.offset = o + PageSize /\ reader'.end = (Cardinality(page) < PageSize)
        BY <1>2
    <2> QED BY <2>3, <2>4
<1>11. ASSUME ~history'.tied, NEW r \in history'.stayed PROVE ReadSoFar(r)'
    <2>1. r \in Present /\ r \in Ids /\ Rank(r) \in Nat
        BY <1>5, <1>9, <1>11, RankTyped, RowsTyped
    <2>2. r \in page <=> o <= Rank(r) /\ Rank(r) < o + PageSize
        BY <1>2, <1>4, <1>9, <1>11, <2>1, PageCut
    <2>3. CASE o = 0
        <3>1. seen[r] = 0
            BY <2>1, <2>3 DEF PagesInv
        <3> QED BY <1>1, <1>2, <1>3, <1>6, <2>1, <2>2, <2>3, <3>1 DEF ReadSoFar
    <2>4. CASE o # 0
        <3>1. ReadSoFar(r)
            BY <1>4, <1>11, <2>4 DEF PagesInv
        <3>2. seen[r] \in Nat /\ seen'[r] = IF r \in page THEN seen[r] + 1 ELSE seen[r]
            BY <1>6, <2>1
        <3>3. ASSUME ~history'.came
              PROVE  seen'[r] <= 1 /\ (seen'[r] = 1 => Rank(r) < o + PageSize)
            <4>1. seen[r] <= 1 /\ (seen[r] = 1 => Rank(r) < o)
                BY <1>4, <3>1, <3>3 DEF ReadSoFar
            <4> QED BY <1>1, <2>1, <2>2, <3>2, <4>1
        <3>4. ASSUME ~history'.left, Rank(r) < o + PageSize PROVE seen'[r] >= 1
            <4>1. Rank(r) < o => seen[r] >= 1
                BY <1>4, <3>1, <3>4 DEF ReadSoFar
            <4> QED BY <1>1, <2>1, <2>2, <3>2, <3>4, <4>1
        <3> QED BY <1>2, <1>3, <3>3, <3>4 DEF ReadSoFar
    <2> QED BY <2>3, <2>4
<1>12. listing' \in {"users", "audit", "transactions"}
    BY <1>3 DEF PagesInv
<1> QED BY <1>1, <1>2, <1>3, <1>4, <1>7, <1>8, <1>10, <1>11, <1>12 DEF PagesInv

(* A row that comes moves those behind it back, one that leaves moves them *)
(* forward, and neither moves the client's offset.                         *)
LEMMA RowsChangeInv ==
    ASSUME PagesInv, ~reader.end, UNCHANGED <<listing, reader, seen>>,
           NEW r \in Ids, NEW key \in Nat, rows' = [rows EXCEPT ![r] = key],
           key \in Times \cup Ids \cup {Absent},
           listing = "users" => key \in {Absent, r},
           NEW gone \in SUBSET Ids, NEW came \in BOOLEAN, NEW left \in BOOLEAN,
           Observe(gone, came, left),
           key = Absent => r \in gone,
           came <=> key # Absent,
           left <=> rows[r] # Absent
    PROVE  PagesInv'
<1> DEFINE amid == reader.offset > 0
<1>1. /\ history' \in [stayed : SUBSET Ids, came : BOOLEAN, left : BOOLEAN,
                       tied : BOOLEAN, net : Int]
      /\ history'.stayed = history.stayed \ gone
      /\ history'.came = (amid /\ (history.came \/ came))
      /\ history'.left = (amid /\ (history.left \/ left))
      /\ history'.tied = history.tied
      /\ history'.net = IF reader.total = -1 THEN 0
                        ELSE history.net + (IF came THEN 1 ELSE 0) - (IF left THEN 1 ELSE 0)
    BY DEF Observe, PagesInv
<1>2. /\ rows'[r] = key /\ \A q \in Ids \ {r} : rows'[q] = rows[q]
      /\ rows' \in [Ids -> Times \cup Ids \cup {Absent}]
    BY DEF PagesInv, PagesTypeOK
<1>3. PagesTypeOK'
    <2>1. history'.stayed \subseteq Present'
        BY <1>1, <1>2 DEF PagesInv, PagesTypeOK, Present
    <2>2. history'.net \in Int
        BY <1>1
    <2> QED BY <1>2, <2>1, <2>2 DEF PagesInv, PagesTypeOK
<1>4. ASSUME ~history'.tied, NEW q \in history'.stayed PROVE ReadSoFar(q)'
    <2>1. q \in history.stayed /\ reader.offset # 0 /\ ReadSoFar(q)
        BY <1>1, <1>4 DEF PagesInv
    <2>2. q \in Present /\ q \in Present' /\ reader.offset \in Nat /\ amid /\ PagesTypeOK
        BY <1>1, <1>3, <1>4, <2>1 DEF PagesInv, PagesTypeOK
    <2>3. /\ IsFiniteSet(Before(q)) /\ IsFiniteSet(Before(q)')
          /\ Rank(q) \in Nat /\ Rank(q)' \in Nat
        <3>1. IsFiniteSet(Before(q)) /\ Rank(q) \in Nat
            BY <2>2, RankTyped
        <3>2. IsFiniteSet(Present')
            BY <1>3, FS_Subset, IdsAssumption DEF Present
        <3>3. IsFiniteSet(Before(q)')
            BY <3>2, FS_Subset DEF Before
        <3> QED BY <3>1, <3>3, FS_CardinalityType DEF Rank
    <2>4. ASSUME ~history'.came PROVE Rank(q)' <= Rank(q)
        <3>1. key = Absent /\ q # r
            BY <1>1, <1>2, <2>2, <2>4 DEF Present
        <3>2. Before(q)' \subseteq Before(q)
            BY <1>2, <2>2, <3>1 DEF Before, Present, Precedes
        <3> QED BY <2>3, <3>2, FS_Subset DEF Rank
    <2>5. ASSUME ~history'.left PROVE Rank(q) <= Rank(q)'
        <3>1. rows[r] = Absent /\ q # r
            BY <1>1, <2>2, <2>5 DEF Present
        <3>2. Before(q) \subseteq Before(q)'
            BY <1>2, <2>2, <3>1 DEF Before, Present, Precedes
        <3> QED BY <2>3, <3>2, FS_Subset DEF Rank
    <2> QED BY <1>1, <2>1, <2>2, <2>3, <2>4, <2>5 DEF ReadSoFar
<1>5. listing' = "users" => (\A q \in Ids : rows'[q] \in {Absent, q}) /\ ~history'.tied
    BY <1>1, <1>2 DEF PagesInv
<1>6. reader'.total # -1 => reader'.total + history'.net = Cardinality(Present')
    <2>1. IsFiniteSet(Present) /\ Cardinality(Present) \in Nat
        BY RowsTyped DEF PagesInv
    <2>2. Cardinality(Present') = Cardinality(Present) + (IF came THEN 1 ELSE 0)
                                                       - (IF left THEN 1 ELSE 0)
        <3>1. CASE came /\ left
            <4>1. Present' = Present
                BY <1>2, <3>1 DEF Present
            <4> QED BY <2>1, <3>1, <4>1
        <3>2. CASE came /\ ~left
            <4>1. Present' = Present \cup {r} /\ r \notin Present
                BY <1>2, <3>2 DEF Present
            <4>2. Cardinality(Present') = Cardinality(Present) + 1
                BY <2>1, <4>1, FS_AddElement
            <4> QED BY <2>1, <3>2, <4>2
        <3>3. CASE ~came /\ left
            <4>1. Present' = Present \ {r} /\ r \in Present
                BY <1>2, <3>3 DEF Present
            <4>2. Cardinality(Present') = Cardinality(Present) - 1
                BY <2>1, <4>1, FS_RemoveElement
            <4> QED BY <2>1, <3>3, <4>2
        <3>4. CASE ~came /\ ~left
            <4>1. Present' = Present
                BY <1>2, <3>4 DEF Present
            <4> QED BY <2>1, <3>4, <4>1
        <3> QED BY <3>1, <3>2, <3>3, <3>4
    <2>3. history.net \in Int /\ reader'.total = reader.total /\ reader.total \in Int
        BY DEF PagesInv, PagesTypeOK
    <2>4. reader.total # -1 => reader.total + history.net = Cardinality(Present)
        BY DEF PagesInv
    <2> QED BY <1>1, <2>1, <2>2, <2>3, <2>4
<1>7. reader'.offset = 0 => history'.stayed = {} /\ \A q \in Ids : seen'[q] = 0
    BY <1>1 DEF PagesInv
<1>8. ~reader'.end /\ listing' \in {"users", "audit", "transactions"}
    BY DEF PagesInv
<1>9. reader'.total = -1 => history'.net = 0
    BY <1>1
<1> QED BY <1>9, <1>1, <1>3, <1>4, <1>5, <1>6, <1>7, <1>8 DEF PagesInv

LEMMA PagesNextInv == PagesInv /\ [PagesNext]_pageVars => PagesInv'
<1> SUFFICES ASSUME PagesInv, [PagesNext]_pageVars PROVE PagesInv'
    OBVIOUS
<1>1. ASSUME NEW r \in Ids, NEW key \in Keys(r)
      PROVE  /\ key \in Nat \ {Absent} /\ key \in Times \cup Ids \cup {Absent}
             /\ listing = "users" => key \in {Absent, r}
    BY IdsAssumption, TimesAssumption DEF Keys, Absent
<1>2. CASE RowsChange /\ ~reader.end
    <2>1. UNCHANGED <<listing, reader, seen>>
        BY <1>2 DEF RowsChange
    <2>2. ASSUME NEW r \in Ids, Delete(r) PROVE PagesInv'
        <3>1. /\ rows' = [rows EXCEPT ![r] = Absent] /\ Observe({r}, FALSE, TRUE)
              /\ rows[r] # Absent /\ Absent \in Nat /\ {r} \in SUBSET Ids
            BY <2>2 DEF Delete, Absent
        <3> QED BY <1>2, <2>1, <3>1, RowsChangeInv
    <2>3. ASSUME NEW r \in Ids, NEW key \in Keys(r), Insert(r, key) PROVE PagesInv'
        <3>1. /\ rows' = [rows EXCEPT ![r] = key] /\ Observe({}, TRUE, FALSE)
              /\ rows[r] = Absent /\ {} \in SUBSET Ids
            BY <2>3 DEF Insert
        <3> QED BY <1>1, <1>2, <2>1, <3>1, RowsChangeInv
    <2>4. ASSUME NEW r \in Ids, NEW key \in Keys(r), Redate(r, key) PROVE PagesInv'
        <3>1. /\ rows' = [rows EXCEPT ![r] = key] /\ Observe({}, TRUE, TRUE)
              /\ rows[r] # Absent /\ {} \in SUBSET Ids
            BY <2>4 DEF Redate
        <3>2. key \in Nat /\ key # Absent
            BY <1>1
        <3>3. /\ key \in Times \cup Ids \cup {Absent}
              /\ listing = "users" => key \in {Absent, r}
            BY <1>1
        <3> QED BY <1>2, <2>1, <3>1, <3>2, <3>3, RowsChangeInv
    <2> QED BY <1>2, <2>2, <2>3, <2>4 DEF RowsChange
<1>3. CASE UNCHANGED pageVars
    <2>1. UNCHANGED <<listing, rows, reader, seen, history, Present, Tied>>
        BY <1>3 DEF pageVars, Present, Tied, Precedes
    <2>2. \A r : ReadSoFar(r)' = ReadSoFar(r)
        BY <2>1 DEF ReadSoFar, Rank, Before, Precedes
    <2> QED BY <2>1, <2>2 DEF PagesInv, PagesTypeOK
<1> QED BY <1>2, <1>3, CountInv, SelectInv DEF PagesNext

LEMMA AlwaysPagesInv == PagesSpec => []PagesInv
BY PagesInitInv, PagesNextInv, PTL DEF PagesSpec

(* A client that reads to the end sees every row that stays, and sees it   *)
(* once, unless rows came, left or moved in between, or share a time       *)
(* (crud/user.py:59-67, crud/audit_log.py:63-67, transaction.py:139-141):  *)
(* the rows seen are those of the lowest ranks.                            *)
THEOREM PagesShowEachRowOnce == PagesSpec => []EachRowOnce
<1>1. PagesInv => EachRowOnce
    <2> SUFFICES ASSUME PagesInv, NEW r \in history.stayed, ~(history.tied /\ listing # "users")
                 PROVE  /\ reader.end => seen[r] > 0 \/ history.left
                        /\ seen[r] < 2 \/ history.came
        BY DEF EachRowOnce
    <2>1. ReadSoFar(r) /\ r \in Present /\ r \in Ids /\ PagesTypeOK
        BY DEF PagesInv, PagesTypeOK, Present
    <2>2. seen[r] \in Nat /\ reader.offset \in Nat
        BY <2>1 DEF PagesTypeOK
    <2>3. Rank(r) \in Nat /\ Rank(r) < Cardinality(Present) /\ Cardinality(Present) \in Nat
        BY <2>1, RankTyped, RowsTyped
    <2>4. reader.end => Rank(r) < reader.offset
        BY <2>2, <2>3 DEF PagesInv
    <2> QED BY <2>1, <2>2, <2>4 DEF ReadSoFar
<1> QED BY <1>1, AlwaysPagesInv, PTL

(* The total says where the page ends, but for what was committed between  *)
(* the two statements, by as many rows as that added or took away          *)
(* (crud/user.py:59-67, crud/audit_log.py:57-67).                          *)
THEOREM TotalsMatchPages == PagesSpec => TotalMatchesPage
<1> DEFINE Matches ==
       LET shown == {r \in Ids : seen'[r] # seen[r]}
           rest == reader.total + history.net - reader.offset
       IN  /\ reader'.end <=> rest < PageSize
           /\ Cardinality(shown) = IF rest < 0 THEN 0
                                   ELSE IF rest < PageSize THEN rest
                                   ELSE PageSize
<1>1. ASSUME PagesInv, Select, Counts PROVE Matches
    <2>1. reader.total + history.net = Cardinality(Present)
        BY <1>1 DEF Select, PagesInv
    <2>2. PICK page \in PageAt(reader.offset) :
              /\ seen' = [r \in Ids |-> seen[r] + IF r \in page THEN 1 ELSE 0]
              /\ reader'.end = (Cardinality(page) < PageSize)
        BY <1>1 DEF Select
    <2>3. PagesTypeOK
        BY <1>1 DEF PagesInv
    <2>4. page \subseteq Ids
        BY <2>3, PageCut, RowsTyped
    <2>5. {r \in Ids : seen'[r] # seen[r]} = page
        <3>1. \A r \in Ids : seen[r] \in Nat /\ seen'[r] = seen[r] + IF r \in page THEN 1 ELSE 0
            BY <2>2, <2>3 DEF PagesTypeOK
        <3>2. \A r \in Ids : seen'[r] # seen[r] <=> r \in page
            BY <3>1
        <3> QED BY <2>4, <3>2
    <2>6. Cardinality(Present) \in Nat /\ reader.offset \in Nat /\ PageSize \in Nat \ {0}
        BY <2>3, RowsTyped, PageSizeAssumption DEF PagesTypeOK
    <2>7. Cardinality(page) =
              LET rest == Cardinality(Present) - reader.offset
              IN  IF rest < 0 THEN 0 ELSE IF rest < PageSize THEN rest ELSE PageSize
        BY <2>3, PageCut
    <2>8. Cardinality(page) < PageSize <=> Cardinality(Present) - reader.offset < PageSize
        BY <2>6, <2>7, PageNotFull
    <2>9. reader.total + history.net - reader.offset = Cardinality(Present) - reader.offset
        <3>1. reader.total \in Int /\ history.net \in Int
            BY <1>1 DEF PagesInv, PagesTypeOK
        <3> QED BY <2>1, <2>6, <3>1
    <2>10. reader'.end <=> reader.total + history.net - reader.offset < PageSize
        BY <2>2, <2>8, <2>9
    <2>11. Cardinality(page) =
              LET rest == reader.total + history.net - reader.offset
              IN  IF rest < 0 THEN 0 ELSE IF rest < PageSize THEN rest ELSE PageSize
        BY <2>7, <2>9
    <2> QED BY <2>5, <2>10, <2>11
<1>2. PagesInv /\ [PagesNext]_pageVars =>
          [Select /\ Counts => Matches]_pageVars
    BY <1>1
<1> QED BY <1>2, AlwaysPagesInv, PTL DEF PagesSpec, TotalMatchesPage

-----------------------------------------------------------------------------
(* Dates by their ordinals.  Of a triple that may not be a date the        *)
(* ordinal still counts on.                                                *)
Triples == [year : Int, month : 1 .. 12, day : Int]

YearStart(y) == 365 * (y - 1) + (y - 1) \div 4 - (y - 1) \div 100 + (y - 1) \div 400

YearLength(y) == IF Leap(y) THEN 366 ELSE 365

(* replace(), of two parts of a triple.                                    *)
LEMMA MonthAndDay ==
    ASSUME NEW d \in Triples, NEW m \in 1 .. 12, NEW k \in Int,
           NEW t, t = [d EXCEPT !.month = m, !.day = k]
    PROVE  t = [year |-> d.year, month |-> m, day |-> k]
BY DEF Triples

LEMMA OneAndTwelve == 1 \in Int /\ 1 \in 1 .. 12 /\ 12 \in 1 .. 12
OBVIOUS

LEMMA YearAndMonth ==
    ASSUME NEW d \in Triples, NEW y \in Int, NEW m \in 1 .. 12,
           NEW t, t = [d EXCEPT !.year = y, !.month = m]
    PROVE  t = [year |-> y, month |-> m, day |-> d.day]
BY DEF Triples

MonthStart(d) == YearStart(d.year) + DaysBefore(d)

LEMMA YearTyped == \A y \in Int : YearStart(y) \in Int /\ YearLength(y) \in {365, 366}
BY DEF YearStart, YearLength

LEMMA YearsFollow ==
    ASSUME NEW y \in Int
    PROVE  YearStart(y + 1) = YearStart(y) + YearLength(y)
BY DEF YearStart, YearLength, Leap

LEMMA YearsGrow ==
    ASSUME NEW y \in Int, NEW z \in Int, y < z
    PROVE  YearStart(y) + YearLength(y) <= YearStart(z)
<1>1. YearStart(y + 1) <= YearStart(z)
    BY DEF YearStart
<1> QED BY <1>1, YearsFollow

LEMMA MonthTyped ==
    ASSUME NEW d \in Triples
    PROVE  /\ MonthLength(d) \in 28 .. 31 /\ DaysBefore(d) \in 0 .. 335
           /\ MonthStart(d) \in Int
<1>1. MonthLength(d) \in 28 .. 31 /\ DaysBefore(d) \in 0 .. 335
    BY DEF Triples, MonthLength, DaysBefore
<1> QED BY <1>1, YearTyped DEF MonthStart, Triples

LEMMA OrdinalTyped ==
    ASSUME NEW d \in Triples
    PROVE  Ordinal(d) \in Int /\ Ordinal(d) = MonthStart(d) + d.day
<1>1. Ordinal(d) = MonthStart(d) + d.day
    BY DEF Ordinal, MonthStart, YearStart
<1> QED BY <1>1, MonthTyped DEF Triples

LEMMA MonthsGrow ==
    ASSUME NEW d \in Triples, NEW e \in Triples, d.year = e.year, d.month < e.month
    PROVE  DaysBefore(d) + MonthLength(d) <= DaysBefore(e)
<1>1. d.month \in 1 .. 12 /\ e.month \in 1 .. 12
    BY DEF Triples
<1>2. ASSUME NEW m \in 1 .. 12, d.month = m
      PROVE  DaysBefore(d) + MonthLength(d) <= DaysBefore(e)
    BY <1>1, <1>2 DEF DaysBefore, MonthLength
<1> QED BY <1>1, <1>2

LEMMA MonthsFollow ==
    ASSUME NEW d \in Triples
    PROVE  /\ DaysBefore(d) + MonthLength(d) <= YearLength(d.year)
           /\ d.month = 12 => DaysBefore(d) + MonthLength(d) = YearLength(d.year)
           /\ d.month = 1 => DaysBefore(d) = 0
           /\ \A e \in Triples : e.year = d.year /\ e.month = d.month + 1 =>
                 DaysBefore(e) = DaysBefore(d) + MonthLength(d)
<1>1. d.month \in 1 .. 12
    BY DEF Triples
<1>2. ASSUME NEW m \in 1 .. 11, d.month = m
      PROVE  DaysBefore(d) + MonthLength(d) <= YearLength(d.year)
    BY <1>2 DEF DaysBefore, MonthLength, YearLength
<1>3. d.month = 12 => DaysBefore(d) + MonthLength(d) = YearLength(d.year)
    BY DEF DaysBefore, MonthLength, YearLength
<1>4. d.month = 1 => DaysBefore(d) = 0
    BY DEF DaysBefore
<1>5. ASSUME NEW m \in 1 .. 11, d.month = m, NEW e \in Triples,
             e.year = d.year, e.month = m + 1
      PROVE  DaysBefore(e) = DaysBefore(d) + MonthLength(d)
    BY <1>5 DEF DaysBefore, MonthLength
<1>6. YearLength(d.year) \in Int
    BY DEF YearLength
<1>7. DaysBefore(d) + MonthLength(d) <= YearLength(d.year)
    BY <1>1, <1>2, <1>3, <1>6
<1>8. \A e \in Triples : e.year = d.year /\ e.month = d.month + 1 =>
          DaysBefore(e) = DaysBefore(d) + MonthLength(d)
    BY <1>1, <1>5 DEF Triples
<1> QED BY <1>3, <1>4, <1>7, <1>8

(* Months of the calendar do not overlap.                                  *)
LEMMA MonthsApart ==
    ASSUME NEW d \in Triples, NEW e \in Triples,
           d.year < e.year \/ (d.year = e.year /\ d.month < e.month)
    PROVE  MonthStart(d) + MonthLength(d) <= MonthStart(e)
<1>1. d.year \in Int /\ e.year \in Int
    BY DEF Triples
<1>2. /\ DaysBefore(d) \in Int /\ MonthLength(d) \in Int /\ DaysBefore(e) \in 0 .. 335
      /\ YearStart(d.year) \in Int /\ YearStart(e.year) \in Int
    BY <1>1, MonthTyped, YearTyped
<1>3. CASE d.year = e.year
    <2>1. DaysBefore(d) + MonthLength(d) <= DaysBefore(e)
        BY <1>1, <1>3, MonthsGrow
    <2> QED BY <1>3, <1>2, <2>1 DEF MonthStart
<1>4. CASE d.year < e.year
    <2>1. YearStart(d.year) + YearLength(d.year) <= YearStart(e.year)
        BY <1>1, <1>4, YearsGrow
    <2>2. DaysBefore(d) + MonthLength(d) <= YearLength(d.year) /\ YearLength(d.year) \in Int
        BY <1>1, MonthsFollow, YearTyped
    <2> QED BY <1>2, <2>1, <2>2 DEF MonthStart
<1> QED BY <1>3, <1>4

LEMMA DateTyped ==
    ASSUME NEW d \in Dates
    PROVE  /\ d \in Triples /\ d.year \in Int /\ d.month \in 1 .. 12 /\ d.day \in Int
           /\ 1 <= d.day /\ d.day <= MonthLength(d)
BY DEF Dates, Triples

LEMMA DateIs ==
    ASSUME NEW d \in Triples, 1 <= d.day, d.day <= MonthLength(d)
    PROVE  d \in Dates
<1>1. MonthLength(d) \in 28 .. 31
    BY MonthTyped
<1> QED BY <1>1 DEF Dates, Triples

LEMMA TomorrowIsNext ==
    ASSUME NEW d \in Dates
    PROVE  Tomorrow(d) \in Dates /\ Ordinal(Tomorrow(d)) = Ordinal(d) + 1
<1>1. d \in Triples /\ 1 <= d.day /\ d.day <= MonthLength(d) /\ MonthLength(d) \in 28 .. 31
    BY DateTyped, MonthTyped
<1>5. /\ DaysBefore(d) \in Int /\ MonthLength(d) \in Int
      /\ YearStart(d.year) \in Int /\ YearLength(d.year) \in Int
    BY <1>1, MonthTyped, YearTyped, DateTyped
<1>2. CASE d.day < MonthLength(d)
    <2> DEFINE t == [d EXCEPT !.day = @ + 1]
    <2>1. t \in Triples /\ t.year = d.year /\ t.month = d.month /\ t.day = d.day + 1
        BY <1>1 DEF Triples
    <2>2. MonthLength(t) = MonthLength(d) /\ MonthStart(t) = MonthStart(d)
        BY <2>1 DEF MonthLength, MonthStart, DaysBefore
    <2>3. Tomorrow(d) = t
        BY <1>2 DEF Tomorrow
    <2> HIDE DEF t
    <2> QED BY <1>1, <1>2, <2>1, <2>2, <2>3, DateIs, OrdinalTyped, MonthTyped, DateTyped
<1>3. CASE ~(d.day < MonthLength(d)) /\ d.month < 12
    <2> DEFINE t == [d EXCEPT !.month = @ + 1, !.day = 1]
    <2>1. t \in Triples /\ t.year = d.year /\ t.month = d.month + 1 /\ t.day = 1
        <3>1. d.month + 1 \in 1 .. 12
            BY <1>3, DateTyped
        <3>2. t = [year |-> d.year, month |-> d.month + 1, day |-> 1]
            BY <1>1, <3>1, MonthAndDay, OneAndTwelve
        <3> QED BY <3>1, <3>2, DateTyped DEF Triples
    <2>2. MonthStart(t) = MonthStart(d) + MonthLength(d)
        <3>1. DaysBefore(t) = DaysBefore(d) + MonthLength(d)
            BY <1>1, <2>1, MonthsFollow
        <3> QED BY <1>5, <2>1, <3>1 DEF MonthStart
    <2>3. Tomorrow(d) = t
        BY <1>3 DEF Tomorrow
    <2> HIDE DEF t
    <2> QED BY <1>1, <1>3, <2>1, <2>2, <2>3, DateIs, OrdinalTyped, MonthTyped, DateTyped
<1>4. CASE ~(d.day < MonthLength(d)) /\ ~(d.month < 12)
    <2> DEFINE t == [year |-> d.year + 1, month |-> 1, day |-> 1]
    <2>1. t \in Triples /\ t.year = d.year + 1 /\ t.month = 1 /\ t.day = 1
        BY <1>1 DEF Triples
    <2>2. MonthStart(t) = MonthStart(d) + MonthLength(d)
        <3>1. d.month = 12
            BY <1>4, DateTyped
        <3>2. DaysBefore(t) = 0 /\ DaysBefore(d) + MonthLength(d) = YearLength(d.year)
            BY <1>1, <2>1, <3>1, MonthsFollow
        <3>3. YearStart(t.year) = YearStart(d.year) + YearLength(d.year)
            BY <2>1, DateTyped, YearsFollow
        <3> QED BY <1>5, <3>2, <3>3 DEF MonthStart
    <2>3. Tomorrow(d) = t
        BY <1>4 DEF Tomorrow
    <2> HIDE DEF t
    <2> QED BY <1>1, <1>4, <2>1, <2>2, <2>3, DateIs, OrdinalTyped, MonthTyped, DateTyped
<1> QED BY <1>2, <1>3, <1>4

LEMMA YesterdayIsLast ==
    ASSUME NEW d \in Dates
    PROVE  Yesterday(d) \in Dates /\ Ordinal(Yesterday(d)) = Ordinal(d) - 1
<1>1. d \in Triples /\ 1 <= d.day /\ d.day <= MonthLength(d) /\ MonthLength(d) \in 28 .. 31
    BY DateTyped, MonthTyped
<1>2. CASE d.day > 1
    <2> DEFINE t == [d EXCEPT !.day = @ - 1]
    <2>1. t \in Triples /\ t.year = d.year /\ t.month = d.month /\ t.day = d.day - 1
        BY <1>1 DEF Triples
    <2>2. MonthLength(t) = MonthLength(d) /\ MonthStart(t) = MonthStart(d)
        BY <2>1 DEF MonthLength, MonthStart, DaysBefore
    <2>3. Yesterday(d) = t
        BY <1>2 DEF Yesterday
    <2> HIDE DEF t
    <2> QED BY <1>1, <1>2, <2>1, <2>2, <2>3, DateIs, OrdinalTyped, MonthTyped, DateTyped
<1>3. CASE ~(d.day > 1)
    <2> DEFINE before == IF d.month = 1 THEN [d EXCEPT !.year = @ - 1, !.month = 12]
                         ELSE [d EXCEPT !.month = @ - 1]
               t == [before EXCEPT !.day = MonthLength(before)]
    <2>1. /\ before \in Triples
          /\ IF d.month = 1 THEN before.year = d.year - 1 /\ before.month = 12
             ELSE before.year = d.year /\ before.month = d.month - 1
        <3>1. d.year - 1 \in Int /\ d.month \in 1 .. 12
            BY DateTyped
        <3>2. before = IF d.month = 1
                       THEN [year |-> d.year - 1, month |-> 12, day |-> d.day]
                       ELSE [year |-> d.year, month |-> d.month - 1, day |-> d.day]
            <4>1. CASE d.month = 1
                <5>1. before = [d EXCEPT !.year = d.year - 1, !.month = 12]
                    BY <4>1
                <5> HIDE DEF before
                <5> QED BY <1>1, <3>1, <4>1, <5>1, YearAndMonth, OneAndTwelve
            <4>2. CASE d.month # 1
                BY <1>1, <3>1, <4>2 DEF Triples
            <4> QED BY <4>1, <4>2
        <3> QED BY <3>1, <3>2, DateTyped DEF Triples
    <2>2. Yesterday(d) = t
        BY <1>3 DEF Yesterday
    <2> HIDE DEF before
    <2>3. MonthStart(d) = MonthStart(before) + MonthLength(before)
        <3>1. CASE d.month = 1
            <4>1. d.year = before.year + 1 /\ before.year \in Int
                BY <1>1, <2>1, <3>1 DEF Triples
            <4>2. YearStart(d.year) = YearStart(before.year) + YearLength(before.year)
                BY <4>1, YearsFollow
            <4> QED BY <1>1, <2>1, <3>1, <4>1, <4>2, MonthsFollow, MonthTyped, YearTyped
                    DEF MonthStart
        <3>2. CASE d.month # 1
            <4>1. d.year = before.year /\ d.month = before.month + 1
                BY <1>1, <2>1, <3>2 DEF Triples
            <4> QED BY <1>1, <2>1, <4>1, MonthsFollow, MonthTyped, YearTyped, DateTyped
                    DEF MonthStart
        <3> QED BY <3>1, <3>2
    <2>4. MonthLength(before) \in 28 .. 31
        BY <2>1, MonthTyped
    <2>5. t \in Triples /\ t.year = before.year /\ t.month = before.month
          /\ t.day = MonthLength(before)
        BY <2>1, <2>4 DEF Triples
    <2> HIDE DEF t
    <2>6. MonthLength(t) = MonthLength(before) /\ MonthStart(t) = MonthStart(before)
        BY <2>5 DEF MonthLength, MonthStart, DaysBefore
    <2> QED BY <1>1, <1>3, <2>1, <2>2, <2>3, <2>4, <2>5, <2>6, DateIs, OrdinalTyped, MonthTyped,
               DateTyped
<1> QED BY <1>2, <1>3

(* The ordinal of the first day of the calendar's period of d, and of the  *)
(* first day after it.                                                     *)
FirstDay(kind, d) ==
    CASE kind = "monthly" -> MonthStart(d) + 1
      [] kind = "weekly"  -> Monday(d)
      [] kind = "yearly"  -> YearStart(d.year) + 1

NextDay(kind, d) ==
    CASE kind = "monthly" -> MonthStart(d) + MonthLength(d) + 1
      [] kind = "weekly"  -> Monday(d) + 7
      [] kind = "yearly"  -> YearStart(d.year + 1) + 1

LEMMA PeriodTyped ==
    ASSUME NEW kind \in Kinds, NEW d \in Triples
    PROVE  FirstDay(kind, d) \in Int /\ NextDay(kind, d) \in Int
<1>1. d.year \in Int /\ d.year + 1 \in Int /\ Ordinal(d) \in Int /\ MonthStart(d) \in Int
      /\ MonthLength(d) \in Int
    BY OrdinalTyped, MonthTyped DEF Triples
<1>2. Monday(d) \in Int
    BY <1>1 DEF Monday, Weekday
<1> QED BY <1>1, <1>2, YearTyped DEF Kinds, FirstDay, NextDay

LEMMA MonthIsRange ==
    ASSUME NEW x \in Dates, NEW d \in Dates
    PROVE  SamePeriod("monthly", x, d) <=>
              MonthStart(d) + 1 <= Ordinal(x) /\ Ordinal(x) < MonthStart(d) + MonthLength(d) + 1
<1>1. /\ x \in Triples /\ d \in Triples /\ 1 <= x.day /\ x.day <= MonthLength(x)
      /\ x.day \in Int /\ Ordinal(x) = MonthStart(x) + x.day
      /\ x.year \in Int /\ d.year \in Int /\ x.month \in Int /\ d.month \in Int
    BY DateTyped, OrdinalTyped
<1>2. /\ MonthStart(x) \in Int /\ MonthStart(d) \in Int
      /\ MonthLength(x) \in Int /\ MonthLength(d) \in Int
    BY <1>1, MonthTyped
<1>3. CASE x.year = d.year /\ x.month = d.month
    <2>1. MonthStart(x) = MonthStart(d) /\ MonthLength(x) = MonthLength(d)
        BY <1>3 DEF MonthStart, DaysBefore, MonthLength
    <2> QED BY <1>1, <1>2, <1>3, <2>1 DEF SamePeriod
<1>4. CASE x.year < d.year \/ (x.year = d.year /\ x.month < d.month)
    <2>1. MonthStart(x) + MonthLength(x) <= MonthStart(d)
        BY <1>1, <1>4, MonthsApart
    <2> QED BY <1>1, <1>2, <1>4, <2>1 DEF SamePeriod
<1>5. CASE d.year < x.year \/ (x.year = d.year /\ d.month < x.month)
    <2>1. MonthStart(d) + MonthLength(d) <= MonthStart(x)
        BY <1>1, <1>5, MonthsApart
    <2> QED BY <1>1, <1>2, <1>5, <2>1 DEF SamePeriod
<1>6. \/ x.year = d.year /\ x.month = d.month
      \/ x.year < d.year \/ (x.year = d.year /\ x.month < d.month)
      \/ d.year < x.year \/ (x.year = d.year /\ d.month < x.month)
    BY <1>1
<1> QED BY <1>3, <1>4, <1>5, <1>6

LEMMA YearIsRange ==
    ASSUME NEW x \in Dates, NEW d \in Dates
    PROVE  SamePeriod("yearly", x, d) <=>
              YearStart(d.year) + 1 <= Ordinal(x) /\ Ordinal(x) < YearStart(d.year + 1) + 1
<1>1. /\ x \in Triples /\ 1 <= x.day /\ x.day <= MonthLength(x) /\ x.day \in Int
      /\ Ordinal(x) = YearStart(x.year) + DaysBefore(x) + x.day
      /\ x.year \in Int /\ d.year \in Int
    BY DateTyped, OrdinalTyped DEF MonthStart
<1>2. /\ MonthLength(x) \in Int /\ DaysBefore(x) \in 0 .. 335
      /\ DaysBefore(x) + MonthLength(x) <= YearLength(x.year)
    BY <1>1, MonthTyped, MonthsFollow
<1>3. YearStart(x.year) < Ordinal(x) /\ Ordinal(x) <= YearStart(x.year) + YearLength(x.year)
    BY <1>1, <1>2, YearTyped
<1>4. YearStart(d.year + 1) = YearStart(d.year) + YearLength(d.year)
    BY <1>1, YearsFollow
<1>5. /\ x.year < d.year => YearStart(x.year) + YearLength(x.year) <= YearStart(d.year)
      /\ d.year < x.year => YearStart(d.year) + YearLength(d.year) <= YearStart(x.year)
    BY <1>1, YearsGrow
<1>6. /\ YearStart(x.year) \in Int /\ YearStart(d.year) \in Int
      /\ YearLength(x.year) \in Int /\ YearLength(d.year) \in Int /\ Ordinal(x) \in Int
    BY <1>1, YearTyped, OrdinalTyped
<1>7. SamePeriod("yearly", x, d) <=> x.year = d.year
    BY DEF SamePeriod
<1> QED BY <1>1, <1>3, <1>4, <1>5, <1>6, <1>7

LEMMA WeekOf ==
    ASSUME NEW m \in Int, NEW n \in Int
    PROVE  m - (m % 7) = n - (n % 7) <=> n - (n % 7) <= m /\ m < n - (n % 7) + 7
OBVIOUS

LEMMA WeekIsRange ==
    ASSUME NEW x \in Dates, NEW d \in Dates
    PROVE  SamePeriod("weekly", x, d) <=>
              Monday(d) <= Ordinal(x) /\ Ordinal(x) < Monday(d) + 7
<1>1. Ordinal(x) \in Int /\ Ordinal(d) \in Int
    BY DateTyped, OrdinalTyped
<1>2. PICK o \in Int, p \in Int : o = Ordinal(x) /\ p = Ordinal(d)
    BY <1>1
<1>3. LET a == (o + 6) % 7
          b == (p + 6) % 7
      IN  o - a = p - b <=> p - b <= o /\ o < p - b + 7
    <2>1. PICK m \in Int, n \in Int : m = o + 6 /\ n = p + 6
        OBVIOUS
    <2>2. PICK i \in Int, j \in Int : i = m % 7 /\ j = n % 7
        BY <2>1
    <2>3. m - i = n - j <=> n - j <= m /\ m < n - j + 7
        BY <2>2, WeekOf
    <2>4. o - i = p - j <=> p - j <= o /\ o < p - j + 7
        BY <2>1, <2>3
    <2> QED BY <2>1, <2>2, <2>4
<1> QED BY <1>2, <1>3 DEF SamePeriod, Monday, Weekday

(* A day is in the calendar's period of d when it is in that range.        *)
LEMMA PeriodIsRange ==
    ASSUME NEW kind \in Kinds, NEW x \in Dates, NEW d \in Dates
    PROVE  SamePeriod(kind, x, d) <=>
              FirstDay(kind, d) <= Ordinal(x) /\ Ordinal(x) < NextDay(kind, d)
BY MonthIsRange, WeekIsRange, YearIsRange DEF Kinds, FirstDay, NextDay

LEMMA SamePeriodEquivalence ==
    ASSUME NEW kind \in Kinds, NEW x \in Dates, NEW d \in Dates
    PROVE  /\ SamePeriod(kind, d, d)
           /\ SamePeriod(kind, x, d) => SamePeriod(kind, d, x)
           /\ SamePeriod(kind, x, d) => FirstDay(kind, x) = FirstDay(kind, d)
                                        /\ NextDay(kind, x) = NextDay(kind, d)
<1>1. SamePeriod(kind, d, d) /\ (SamePeriod(kind, x, d) => SamePeriod(kind, d, x))
    BY DEF Kinds, SamePeriod
<1>2. ASSUME SamePeriod(kind, x, d)
      PROVE  FirstDay(kind, x) = FirstDay(kind, d) /\ NextDay(kind, x) = NextDay(kind, d)
    <2>1. CASE kind = "monthly"
        <3>1. x.year = d.year /\ x.month = d.month
            BY <1>2, <2>1 DEF SamePeriod
        <3>2. MonthStart(x) = MonthStart(d) /\ MonthLength(x) = MonthLength(d)
            BY <3>1 DEF MonthStart, MonthLength, DaysBefore
        <3> QED BY <2>1, <3>2 DEF FirstDay, NextDay
    <2>2. CASE kind = "weekly"
        BY <1>2, <2>2 DEF SamePeriod, FirstDay, NextDay
    <2>3. CASE kind = "yearly"
        BY <1>2, <2>3 DEF SamePeriod, FirstDay, NextDay
    <2> QED BY <2>1, <2>2, <2>3 DEF Kinds
<1> QED BY <1>1, <1>2

-----------------------------------------------------------------------------
(* What replace() computes are the days of the calendar, when it computes  *)
(* them: always but for a week that spills into another month.             *)

LEMMA MonthlyDays ==
    ASSUME NEW d \in Dates
    PROVE  /\ monthly(d).start \in Dates /\ monthly(d).end \in Dates
           /\ Ordinal(monthly(d).start) = MonthStart(d) + 1
           /\ Ordinal(monthly(d).end) = MonthStart(d) + MonthLength(d) + 1
<1>1. /\ d \in Triples /\ d.year \in Int /\ d.month \in 1 .. 12
      /\ MonthStart(d) \in Int /\ MonthLength(d) \in 28 .. 31
      /\ YearStart(d.year) \in Int /\ DaysBefore(d) \in Int
    BY DateTyped, MonthTyped, YearTyped
<1> DEFINE start == [d EXCEPT !.day = 1]
           end == IF d.month = 12 THEN [start EXCEPT !.year = @ + 1, !.month = 1]
                  ELSE [start EXCEPT !.month = @ + 1]
<1>2. start \in Triples /\ start.day = 1 /\ start.year = d.year /\ start.month = d.month
    BY <1>1 DEF Triples
<1>4. monthly(d).start = start /\ monthly(d).end = end
    BY DEF monthly
<1> HIDE DEF start
<1>3. /\ end \in Triples /\ end.day = 1
      /\ IF d.month = 12 THEN end.year = d.year + 1 /\ end.month = 1
         ELSE end.year = d.year /\ end.month = d.month + 1
    <2>1. CASE d.month = 12
        <3>1. end = [year |-> d.year + 1, month |-> 1, day |-> 1]
            <4>1. end = [start EXCEPT !.year = start.year + 1, !.month = 1]
                BY <2>1
            <4>2. start.year + 1 \in Int
                BY <1>1, <1>2
            <4> HIDE DEF end
            <4>3. end = [year |-> start.year + 1, month |-> 1, day |-> start.day]
                <5>1. start \in Triples
                    BY <1>2
                <5> QED BY <4>1, <4>2, <5>1, YearAndMonth, OneAndTwelve
            <4> QED BY <1>2, <4>3
        <3> HIDE DEF end
        <3> QED BY <1>1, <2>1, <3>1 DEF Triples
    <2>2. CASE d.month # 12
        <3>1. d.month + 1 \in 1 .. 12
            BY <1>1, <2>2
        <3>2. end = [year |-> d.year, month |-> d.month + 1, day |-> 1]
            BY <1>1, <1>2, <2>2, <3>1 DEF Triples
        <3> QED BY <1>1, <2>2, <3>1, <3>2 DEF Triples
    <2> QED BY <2>1, <2>2
<1> HIDE DEF end
<1>5. start \in Dates /\ end \in Dates
    BY <1>2, <1>3, DateIs, MonthTyped
<1>6. MonthStart(start) = MonthStart(d)
    BY <1>2 DEF MonthStart, DaysBefore
<1>7. MonthStart(end) = MonthStart(d) + MonthLength(d)
    <2>1. CASE d.month = 12
        <3>1. YearStart(end.year) = YearStart(d.year) + YearLength(d.year)
            BY <1>1, <1>3, <2>1, YearsFollow
        <3>2. DaysBefore(end) = 0 /\ DaysBefore(d) + MonthLength(d) = YearLength(d.year)
            BY <1>1, <1>3, <2>1, MonthsFollow
        <3> QED BY <1>1, <3>1, <3>2 DEF MonthStart
    <2>2. CASE d.month # 12
        <3>1. DaysBefore(end) = DaysBefore(d) + MonthLength(d)
            BY <1>1, <1>3, <2>2, MonthsFollow
        <3> QED BY <1>1, <1>3, <2>2, <3>1 DEF MonthStart
    <2> QED BY <2>1, <2>2
<1> QED BY <1>1, <1>2, <1>3, <1>4, <1>5, <1>6, <1>7, OrdinalTyped

LEMMA YearlyDays ==
    ASSUME NEW d \in Dates
    PROVE  /\ yearly(d).start \in Dates /\ yearly(d).end \in Dates
           /\ Ordinal(yearly(d).start) = YearStart(d.year) + 1
           /\ Ordinal(yearly(d).end) = YearStart(d.year + 1) + 1
<1>1. d \in Triples /\ d.year \in Int /\ d.year + 1 \in Int
    BY DateTyped
<1> DEFINE start == [d EXCEPT !.month = 1, !.day = 1]
           end == [start EXCEPT !.year = @ + 1]
<1>4. yearly(d).start = start /\ yearly(d).end = end
    BY DEF yearly
<1>2. start \in Triples /\ start.day = 1 /\ start.year = d.year /\ start.month = 1
    <2>1. start = [year |-> d.year, month |-> 1, day |-> 1]
        BY <1>1, MonthAndDay, OneAndTwelve
    <2> QED BY <1>1, <2>1 DEF Triples
<1> HIDE DEF start
<1>3. end \in Triples /\ end.day = 1 /\ end.year = d.year + 1 /\ end.month = 1
    <2>1. end = [year |-> d.year + 1, month |-> 1, day |-> 1]
        BY <1>1, <1>2 DEF Triples
    <2> QED BY <1>1, <2>1 DEF Triples
<1> HIDE DEF end
<1>5. start \in Dates /\ end \in Dates
    BY <1>2, <1>3, DateIs, MonthTyped
<1>6. MonthStart(start) = YearStart(d.year) /\ MonthStart(end) = YearStart(d.year + 1)
    BY <1>1, <1>2, <1>3, MonthsFollow, YearTyped DEF MonthStart
<1> QED BY <1>2, <1>3, <1>4, <1>5, <1>6, OrdinalTyped

LEMMA WeeklyDays ==
    ASSUME NEW d \in Dates
    PROVE  /\ weekly(d).start \in Triples /\ weekly(d).end \in Triples
           /\ Ordinal(weekly(d).start) = Monday(d)
           /\ Ordinal(weekly(d).end) = Monday(d) + 7
           /\ \A e \in {weekly(d).start, weekly(d).end} :
                 MonthStart(e) = MonthStart(d) /\ MonthLength(e) = MonthLength(d)
<1>1. d \in Triples /\ d.day \in Int /\ Ordinal(d) \in Int /\ Weekday(d) \in Int
      /\ Ordinal(d) = MonthStart(d) + d.day /\ MonthStart(d) \in Int
    BY DateTyped, OrdinalTyped, MonthTyped DEF Weekday
<1> DEFINE start == [d EXCEPT !.day = @ - Weekday(d)]
           end == [start EXCEPT !.day = @ + 7]
<1>2. /\ start \in Triples /\ start.day = d.day - Weekday(d)
      /\ start.year = d.year /\ start.month = d.month
    BY <1>1 DEF Triples
<1>4. weekly(d).start = start /\ weekly(d).end = end
    BY DEF weekly
<1> HIDE DEF start
<1>3. /\ end \in Triples /\ end.day = d.day - Weekday(d) + 7
      /\ end.year = d.year /\ end.month = d.month
    BY <1>1, <1>2 DEF Triples
<1> HIDE DEF end
<1>5. /\ MonthStart(start) = MonthStart(d) /\ MonthLength(start) = MonthLength(d)
      /\ MonthStart(end) = MonthStart(d) /\ MonthLength(end) = MonthLength(d)
    BY <1>2, <1>3 DEF MonthStart, DaysBefore, MonthLength
<1>6. Ordinal(start) = Monday(d) /\ Ordinal(end) = Monday(d) + 7
    BY <1>1, <1>2, <1>3, <1>5, OrdinalTyped DEF Monday
<1> QED BY <1>2, <1>3, <1>4, <1>5, <1>6

(* The first day of a month and the first of a year always exist.  Both    *)
(* ends of a week, a Monday and the next, must be in one month             *)
(* (budgets.py:17-32).                                                     *)
LEMMA RaisesWhen ==
    ASSUME NEW kind \in Kinds, NEW d \in Dates
    PROVE  Raises(kind, d) <=>
             /\ kind = "weekly"
             /\ \/ Monday(d) <= MonthStart(d)
                \/ Monday(d) + 7 > MonthStart(d) + MonthLength(d)
<1>1. CASE kind = "monthly"
    <2>1. \A e \in {monthly(d).start, monthly(d).end} : e.day \in 1 .. MonthLength(e)
        BY MonthlyDays, DateTyped, MonthTyped
    <2> QED BY <1>1, <2>1 DEF Raises, _get_period_dates
<1>2. CASE kind = "yearly"
    <2>1. \A e \in {yearly(d).start, yearly(d).end} : e.day \in 1 .. MonthLength(e)
        BY YearlyDays, DateTyped, MonthTyped
    <2> QED BY <1>2, <2>1 DEF Raises, _get_period_dates
<1>3. CASE kind = "weekly"
    <2> DEFINE start == weekly(d).start
               end == weekly(d).end
               M == MonthStart(d)
               L == MonthLength(d)
    <2>1. M \in Int /\ L \in Int /\ Monday(d) \in Int
        BY DateTyped, OrdinalTyped, MonthTyped DEF Monday, Weekday
    <2>2. start.day \in Int /\ end.day \in Int
        BY WeeklyDays DEF Triples
    <2>3. M + start.day = Monday(d) /\ M + end.day = Monday(d) + 7
          /\ MonthLength(start) = L /\ MonthLength(end) = L
        BY WeeklyDays, OrdinalTyped
    <2>4. Raises(kind, d) <=> start.day \notin 1 .. L \/ end.day \notin 1 .. L
        BY <1>3, <2>3 DEF Raises, _get_period_dates
    <2> HIDE DEF start, end, M, L
    <2>5. start.day \in 1 .. L <=> Monday(d) > M /\ Monday(d) <= M + L
        BY <2>1, <2>2, <2>3
    <2>6. end.day \in 1 .. L <=> Monday(d) + 7 > M /\ Monday(d) + 7 <= M + L
        BY <2>1, <2>2, <2>3
    <2>7. Raises(kind, d) <=> Monday(d) <= M \/ Monday(d) + 7 > M + L
        BY <2>1, <2>4, <2>5, <2>6
    <2> QED BY <1>3, <2>7 DEF M, L
<1> QED BY <1>1, <1>2, <1>3 DEF Kinds

LEMMA ComputedDays ==
    ASSUME NEW kind \in Kinds, NEW d \in Dates
    PROVE  /\ Ordinal(_get_period_dates(kind, d).start) = FirstDay(kind, d)
           /\ Ordinal(_get_period_dates(kind, d).end) = NextDay(kind, d)
           /\ ~Raises(kind, d) => _get_period_dates(kind, d).end \in Dates
<1>1. CASE kind = "monthly"
    BY <1>1, MonthlyDays DEF _get_period_dates, FirstDay, NextDay
<1>2. CASE kind = "yearly"
    BY <1>2, YearlyDays DEF _get_period_dates, FirstDay, NextDay
<1>3. CASE kind = "weekly"
    <2>1. ~Raises(kind, d) => weekly(d).end \in Dates
        <3> SUFFICES ASSUME ~Raises(kind, d) PROVE weekly(d).end \in Dates
            OBVIOUS
        <3>1. weekly(d).end.day \in 1 .. MonthLength(weekly(d).end)
            BY <1>3 DEF Raises, _get_period_dates
        <3> QED BY <3>1, WeeklyDays, DateIs, MonthTyped DEF Triples
    <2> QED BY <1>3, <2>1, WeeklyDays DEF _get_period_dates, FirstDay, NextDay
<1> QED BY <1>1, <1>2, <1>3 DEF Kinds

-----------------------------------------------------------------------------
(* A report in progress that no change has touched is that of this moment, *)
(* as far as it has got.                                                   *)
OfThisMoment(b) ==
    /\ report.rows[b] = IF Active(b) THEN budgets[b] ELSE NoBudget
    /\ report.figures[b] = NoFigure \/ (Active(b) /\ report.figures[b] = Spent(b))

BudgetsInv ==
    /\ BudgetsTypeOK
    /\ report.open /\ changes = 0 => \A b \in BudgetIds : OfThisMoment(b)

LEMMA RowTyped ==
    ASSUME NEW r \in Budgets
    PROVE  /\ r = NoBudget \/ (r # NoBudget /\ r.period \in Kinds /\ r.state # "none")
           /\ r = NoBudget => r.category = None /\ r.state = "none"
BY DEF Budgets, NoBudget

LEMMA ChangesTyped ==
    ASSUME BudgetsInv, Change
    PROVE  changes' \in 0 .. MaxChanges /\ (report.open => changes' # 0)
BY MaxChangesAssumption DEF BudgetsInv, BudgetsTypeOK, Change

LEMMA BudgetsInitInv == BudgetsInit => BudgetsInv
<1> SUFFICES ASSUME BudgetsInit PROVE BudgetsInv
    OBVIOUS
<1>1. today \in Dates
    BY SpansAssumption DEF BudgetsInit
<1>2. report \in Reports /\ ~report.open
    BY DEF BudgetsInit, Idle, Reports, Budgets, NoFigure
<1>3. /\ budgets \in [BudgetIds -> Budgets] /\ expenses \in [ExpenseIds -> Expenses]
      /\ deletions \in [Deleters -> Deletions]
    BY DEF BudgetsInit, Budgets, Expenses, Deletions, NoDeletion, Scopes
<1>4. /\ \A b \in BudgetIds : budgets[b].category = None
      /\ \A x \in ExpenseIds : expenses[x].category = None
    BY DEF BudgetsInit, NoBudget, NoExpense
<1>5. /\ noon \in BOOLEAN /\ changes \in 0 .. MaxChanges
      /\ categories = {} /\ deleted = {}
    <2>1. noon = FALSE /\ changes = 0 /\ categories = {} /\ deleted = {}
        BY DEF BudgetsInit
    <2>2. 0 \in 0 .. MaxChanges
        BY MaxChangesAssumption
    <2> QED BY <2>1, <2>2
<1> QED BY <1>1, <1>2, <1>3, <1>4, <1>5 DEF BudgetsInv, BudgetsTypeOK

LEMMA TickInv ==
    ASSUME BudgetsInv, Tick
    PROVE  BudgetsInv'
<1>1. today' \in Dates /\ noon' \in BOOLEAN
    BY TomorrowIsNext DEF Tick, BudgetsInv, BudgetsTypeOK
<1>2. changes' \in 0 .. MaxChanges /\ (report.open => changes' # 0)
    BY ChangesTyped DEF Tick
<1>3. UNCHANGED <<categories, deleted, budgets, expenses, deletions, report>>
    BY DEF Tick, stored
<1> QED BY <1>1, <1>2, <1>3 DEF BudgetsInv, BudgetsTypeOK

(* A request that writes leaves the clock and the report alone.            *)
LEMMA WriteInv ==
    ASSUME BudgetsInv, Writes,
           categories' \subseteq Categories, deleted' \subseteq Categories \ categories',
           budgets' \in [BudgetIds -> Budgets],
           expenses' \in [ExpenseIds -> Expenses],
           deletions' \in [Deleters -> Deletions],
           \A b \in BudgetIds : budgets'[b].category \in categories' \cup {None},
           \A x \in ExpenseIds : expenses'[x].category \in categories' \cup {None}
    PROVE  BudgetsInv'
<1>1. changes' \in 0 .. MaxChanges /\ (report.open => changes' # 0)
    BY ChangesTyped DEF Writes
<1>2. UNCHANGED <<today, noon, report>>
    BY DEF Writes, clock
<1> QED BY <1>1, <1>2 DEF BudgetsInv, BudgetsTypeOK

(* A deletion that begins or fails changes no row.                         *)
LEMMA DeletionInv ==
    ASSUME BudgetsInv, deletions' \in [Deleters -> Deletions],
           UNCHANGED <<clock, until, categories, deleted, budgets, expenses, report, changes>>
    PROVE  BudgetsInv'
<1>1. BudgetsTypeOK'
    BY DEF BudgetsInv, BudgetsTypeOK, clock
<1>2. \A b \in BudgetIds : OfThisMoment(b)' = OfThisMoment(b)
    BY DEF OfThisMoment, Active, Spent, Counted, clock
<1> QED BY <1>1, <1>2 DEF BudgetsInv

LEMMA EndDeletionInv ==
    ASSUME BudgetsInv, NEW r \in Deleters, EndDeletion(r)
    PROVE  BudgetsInv'
<1> DEFINE c == deletions[r].category
<1>c. c \in Categories /\ c # None /\ deletions' \in [Deleters -> Deletions]
    BY DEF EndDeletion, BudgetsInv, BudgetsTypeOK, Deletions, Scopes, NoDeletion
<1>1. /\ categories' = categories \ {c} /\ deleted' = deleted \cup {c} /\ Writes
      /\ categories \subseteq Categories /\ deleted \subseteq Categories \ categories
    BY DEF EndDeletion, BudgetsInv, BudgetsTypeOK
<1> HIDE DEF c
<1>2. ASSUME NEW b \in BudgetIds
      PROVE  budgets'[b] \in Budgets /\ budgets'[b].category \in categories' \cup {None}
    <2>1. budgets[b] \in Budgets /\ budgets[b].category \in categories \cup {None}
        BY DEF BudgetsInv, BudgetsTypeOK
    <2>2. CASE budgets[b].category = c /\ budgets[b] # NoBudget
        <3>1. budgets'[b] = [budgets[b] EXCEPT !.category = None]
            BY <2>2 DEF EndDeletion, Unfiled, c
        <3> QED BY <2>1, <2>2, <3>1 DEF Budgets, Scopes
    <2>3. CASE budgets[b] = NoBudget
        <3>1. budgets'[b] = NoBudget \/ budgets'[b] = [NoBudget EXCEPT !.category = None]
            BY <2>3 DEF EndDeletion, Unfiled, c
        <3>2. budgets'[b] = NoBudget
            BY <3>1 DEF NoBudget
        <3> QED BY <3>2 DEF Budgets, NoBudget
    <2>4. CASE budgets[b].category # c
        BY <1>1, <2>1, <2>4 DEF EndDeletion, Unfiled, c
    <2> QED BY <2>2, <2>3, <2>4
<1>3. ASSUME NEW x \in ExpenseIds
      PROVE  expenses'[x] \in Expenses /\ expenses'[x].category \in categories' \cup {None}
    <2>1. expenses[x] \in Expenses /\ expenses[x].category \in categories \cup {None}
        BY DEF BudgetsInv, BudgetsTypeOK
    <2>2. CASE (expenses[x].category = c \/ x \in deletions[r].filed) /\ expenses[x] # NoExpense
        <3>1. expenses'[x] = [expenses[x] EXCEPT !.category = None]
            BY <2>2 DEF EndDeletion, Unfiled, c
        <3> QED BY <2>1, <2>2, <3>1 DEF Expenses, Scopes
    <2>3. CASE expenses[x] = NoExpense
        <3>1. expenses'[x] = NoExpense \/ expenses'[x] = [NoExpense EXCEPT !.category = None]
            BY <2>3 DEF EndDeletion, Unfiled, c
        <3>2. expenses'[x] = NoExpense
            BY <3>1 DEF NoExpense
        <3> QED BY <3>2 DEF Expenses, NoExpense
    <2>4. CASE expenses[x].category # c /\ x \notin deletions[r].filed
        BY <1>1, <2>1, <2>4 DEF EndDeletion, Unfiled, c
    <2> QED BY <2>2, <2>3, <2>4
<1>4. budgets' \in [BudgetIds -> Budgets] /\ expenses' \in [ExpenseIds -> Expenses]
    <2>1. /\ budgets' = [b \in BudgetIds |-> budgets'[b]]
          /\ expenses' = [x \in ExpenseIds |-> expenses'[x]]
        BY DEF EndDeletion, Unfiled, c
    <2> QED BY <1>2, <1>3, <2>1
<1> QED BY <1>c, <1>1, <1>2, <1>3, <1>4, WriteInv

LEMMA BudgetWriteInv ==
    ASSUME BudgetsInv, Writes, NEW b \in BudgetIds, NEW r \in Budgets,
           r.category \in categories \cup {None},
           budgets' = [budgets EXCEPT ![b] = r],
           UNCHANGED <<categories, deleted, expenses, deletions>>
    PROVE  BudgetsInv'
<1>1. budgets' \in [BudgetIds -> Budgets]
    BY DEF BudgetsInv, BudgetsTypeOK
<1>2. \A a \in BudgetIds : budgets'[a].category \in categories \cup {None}
    BY DEF BudgetsInv, BudgetsTypeOK
<1>3. BudgetsTypeOK
    BY DEF BudgetsInv
<1> QED BY <1>1, <1>2, <1>3, WriteInv DEF BudgetsTypeOK

LEMMA ExpenseWriteInv ==
    ASSUME BudgetsInv, Writes, NEW x \in ExpenseIds, NEW r \in Expenses,
           r.category \in categories \cup {None},
           expenses' = [expenses EXCEPT ![x] = r],
           deletions' \in [Deleters -> Deletions],
           UNCHANGED <<categories, deleted, budgets>>
    PROVE  BudgetsInv'
<1>1. expenses' \in [ExpenseIds -> Expenses]
    BY DEF BudgetsInv, BudgetsTypeOK
<1>2. \A y \in ExpenseIds : expenses'[y].category \in categories \cup {None}
    BY DEF BudgetsInv, BudgetsTypeOK
<1>3. BudgetsTypeOK
    BY DEF BudgetsInv
<1> QED BY <1>1, <1>2, <1>3, WriteInv DEF BudgetsTypeOK

LEMMA UpdatedRow ==
    ASSUME BudgetsInv, NEW b \in BudgetIds, NEW state \in {"active", "inactive"},
           UpdateBudget(b, state)
    PROVE  LET r == [budgets[b] EXCEPT !.state = state]
           IN  /\ budgets' = [budgets EXCEPT ![b] = r]
               /\ r \in Budgets /\ r.category = budgets[b].category
<1>1. budgets[b] \in [state : {"active", "inactive"}, period : Kinds, category : Scopes]
    BY DEF UpdateBudget, Live, BudgetsInv, BudgetsTypeOK, Budgets
<1>2. [budgets[b] EXCEPT !.state = state] \in Budgets
    BY <1>1 DEF Budgets
<1>3. [budgets[b] EXCEPT !.state = state].category = budgets[b].category
    BY <1>1
<1>4. budgets' = [budgets EXCEPT ![b] = [budgets[b] EXCEPT !.state = state]]
    BY DEF UpdateBudget
<1> QED BY <1>2, <1>3, <1>4

LEMMA BookInv ==
    ASSUME BudgetsInv, NEW x \in ExpenseIds, NEW at \in Instants, NEW c \in Scopes,
           Book(x, at, c)
    PROVE  BudgetsInv'
<1> DEFINE r == [day |-> at.day, noon |-> at.noon, category |-> c]
<1>1. at.day \in Dates /\ at.noon \in BOOLEAN
    <2>1. today \in Dates /\ noon \in BOOLEAN
        BY DEF BudgetsInv, BudgetsTypeOK
    <2>2. \A k \in {k \in Kinds : ~Raises(k, today)} : _get_period_dates(k, today).end \in Dates
        BY <2>1, ComputedDays
    <2>3. \/ at = [day |-> today, noon |-> noon]
          \/ \E k \in {k \in Kinds : ~Raises(k, today)} :
                at = [day |-> _get_period_dates(k, today).end, noon |-> FALSE]
        BY DEF Instants
    <2>4. CASE at = [day |-> today, noon |-> noon]
        BY <2>1, <2>4
    <2>5. ASSUME NEW k \in {k \in Kinds : ~Raises(k, today)},
                 at = [day |-> _get_period_dates(k, today).end, noon |-> FALSE]
          PROVE  at.day \in Dates /\ at.noon \in BOOLEAN
        <3>1. at.day = _get_period_dates(k, today).end /\ at.noon = FALSE
            BY <2>5
        <3>2. _get_period_dates(k, today).end \in Dates
            BY <2>2
        <3> QED BY <3>1, <3>2
    <2> QED BY <2>3, <2>4, <2>5
<1>2. r \in Expenses /\ r.category = c
    BY <1>1 DEF Expenses
<1>3. /\ c \in categories \cup {None} /\ expenses' = [expenses EXCEPT ![x] = r]
      /\ Writes /\ UNCHANGED <<categories, deleted, budgets>>
      /\ deletions' \in [Deleters -> Deletions]
    BY DEF Book, BudgetsInv, BudgetsTypeOK
<1> HIDE DEF r
<1> QED BY <1>2, <1>3, ExpenseWriteInv

(* The report's own steps.                                                 *)
LEMMA OpenReportInv ==
    ASSUME BudgetsInv, OpenReport
    PROVE  BudgetsInv'
<1>1. /\ UNCHANGED <<today, noon, categories, deleted, budgets, expenses, deletions>>
      /\ changes' = 0 /\ budgets \in [BudgetIds -> Budgets]
    BY DEF OpenReport, clock, stored, BudgetsInv, BudgetsTypeOK
<1>2. NoBudget \in Budgets /\ NoFigure \in SUBSET (ExpenseIds \cup {None})
    BY DEF Budgets, NoFigure
<1>3. /\ report'.open = TRUE
      /\ report'.rows = [b \in BudgetIds |-> IF Active(b) THEN budgets[b] ELSE NoBudget]
      /\ report'.figures = [b \in BudgetIds |-> NoFigure]
      /\ report' = [open |-> report'.open, rows |-> report'.rows, figures |-> report'.figures]
    BY DEF OpenReport, Idle
<1>4. report' \in Reports
    BY <1>1, <1>2, <1>3 DEF Reports
<1>5. \A b \in BudgetIds : OfThisMoment(b)'
    BY <1>1, <1>3 DEF OfThisMoment, Active
<1> QED BY <1>1, <1>4, <1>5, MaxChangesAssumption DEF BudgetsInv, BudgetsTypeOK

LEMMA CloseReportInv ==
    ASSUME BudgetsInv, report' = Idle, changes' = 0, UNCHANGED <<clock, until, stored>>
    PROVE  BudgetsInv'
<1>1. report' \in Reports /\ ~report'.open
    BY DEF Idle, Reports, Budgets, NoFigure
<1>2. UNCHANGED <<today, noon, categories, deleted, budgets, expenses, deletions>>
    BY DEF clock, stored
<1> QED BY <1>1, <1>2, MaxChangesAssumption DEF BudgetsInv, BudgetsTypeOK

LEMMA SumSets ==
    ASSUME BudgetsInv, NEW b \in BudgetIds, Sum(b)
    PROVE  LET figure == Counted(report.rows[b].category,
                                 _get_period_dates(report.rows[b].period, today))
           IN  /\ report' \in Reports /\ report'.open /\ report'.rows = report.rows
               /\ report'.figures = [report.figures EXCEPT ![b] = figure]
               /\ report'.figures[b] = figure
               /\ report.rows[b].period \in Kinds
               /\ ~Raises(report.rows[b].period, today)
<1> DEFINE figure == Counted(report.rows[b].category,
                             _get_period_dates(report.rows[b].period, today))
<1>1. /\ report' = [report EXCEPT !.figures[b] = figure]
      /\ report.open /\ ~Raises(report.rows[b].period, today)
      /\ report.rows[b] # NoBudget
    BY DEF Sum, Pending
<1>2. figure \in SUBSET (ExpenseIds \cup {None})
    BY DEF Counted
<1>3. report \in Reports
    BY DEF BudgetsInv, BudgetsTypeOK
<1> HIDE DEF figure
<1>4. /\ report'.open = report.open /\ report'.rows = report.rows
      /\ report'.figures = [report.figures EXCEPT ![b] = figure]
      /\ report' \in Reports
    BY <1>1, <1>2, <1>3 DEF Reports
<1>5. report'.figures[b] = figure
    BY <1>3, <1>4 DEF Reports
<1>6. report.rows[b].period \in Kinds
    BY <1>1, <1>3, RowTyped DEF Reports
<1> QED BY <1>1, <1>4, <1>5, <1>6 DEF figure

LEMMA SumInv ==
    ASSUME BudgetsInv, NEW b \in BudgetIds, Sum(b)
    PROVE  BudgetsInv'
<1>1. UNCHANGED <<today, noon, categories, deleted, budgets, expenses, deletions, changes>>
    BY DEF Sum, clock, stored
<1>2. report \in Reports /\ report' \in Reports
    BY SumSets DEF BudgetsInv, BudgetsTypeOK
<1>3. BudgetsTypeOK'
    BY <1>1, <1>2 DEF BudgetsInv, BudgetsTypeOK
<1>4. ASSUME changes = 0, NEW a \in BudgetIds PROVE OfThisMoment(a)'
    <2>1. OfThisMoment(a) /\ OfThisMoment(b)
        BY <1>4 DEF BudgetsInv, Sum, Pending
    <2>2. Active(a)' = Active(a) /\ Spent(a)' = Spent(a) /\ report'.rows = report.rows
        BY <1>1, SumSets DEF Active, Spent, Counted
    <2>3. CASE a = b
        <3>1. Active(b) /\ report.rows[b] = budgets[b]
            BY <2>1 DEF OfThisMoment, Sum, Pending
        <3>2. report'.figures[b] = Spent(b)
            BY <3>1, SumSets DEF Spent
        <3> QED BY <1>1, <2>1, <2>2, <2>3, <3>1, <3>2 DEF OfThisMoment
    <2>4. CASE a # b
        <3>1. report'.figures[a] = report.figures[a]
            BY <1>2, <2>4, SumSets DEF Reports
        <3> QED BY <1>1, <2>1, <2>2, <3>1 DEF OfThisMoment
    <2> QED BY <2>3, <2>4
<1> QED BY <1>1, <1>3, <1>4 DEF BudgetsInv

LEMMA BudgetsNextInv == BudgetsInv /\ [BudgetsNext]_budgetVars => BudgetsInv'
<1> SUFFICES ASSUME BudgetsInv, [BudgetsNext]_budgetVars PROVE BudgetsInv'
    OBVIOUS
<1> USE DEF BudgetsInv
<1>1. CASE Tick
    BY <1>1, TickInv
<1>2. ASSUME NEW c \in Categories, AddCategory(c) PROVE BudgetsInv'
    <2>1. /\ Writes /\ categories' = categories \cup {c}
          /\ UNCHANGED <<deleted, budgets, expenses, deletions>> /\ c \notin deleted
        BY <1>2 DEF AddCategory
    <2> QED BY <2>1, WriteInv DEF BudgetsTypeOK
<1>3. ASSUME NEW r \in Deleters, EndDeletion(r) PROVE BudgetsInv'
    BY <1>3, EndDeletionInv
<1>14. ASSUME NEW r \in Deleters, NEW c \in Categories, BeginDeletion(r, c) PROVE BudgetsInv'
    <2>1. [category |-> c, filed |-> {x \in ExpenseIds : expenses[x].category = c}] \in Deletions
        BY DEF Deletions, Scopes
    <2>2. deletions' \in [Deleters -> Deletions]
        BY <1>14, <2>1 DEF BeginDeletion, BudgetsTypeOK
    <2> HIDE DEF BudgetsInv
    <2> QED BY <1>14, <2>2, DeletionInv DEF BeginDeletion
<1>15. ASSUME NEW r \in Deleters, FailDeletion(r) PROVE BudgetsInv'
    <2>1. deletions' \in [Deleters -> Deletions]
        BY <1>15 DEF FailDeletion, BudgetsTypeOK, Deletions, NoDeletion, Scopes
    <2> HIDE DEF BudgetsInv
    <2> QED BY <1>15, <2>1, DeletionInv DEF FailDeletion
<1>4. ASSUME NEW b \in BudgetIds, NEW kind \in Periodicities, NEW c \in Scopes,
             AddBudget(b, kind, c)
      PROVE  BudgetsInv'
    <2> DEFINE r == [state |-> "active", period |-> kind, category |-> c]
    <2>1. r \in Budgets /\ r.category = c
        BY PeriodicitiesAssumption DEF Budgets
    <2>2. /\ c \in categories \cup {None} /\ budgets' = [budgets EXCEPT ![b] = r]
          /\ Writes /\ UNCHANGED <<categories, deleted, expenses, deletions>>
        BY <1>4 DEF AddBudget
    <2> HIDE DEF r, BudgetsInv
    <2> QED BY <2>1, <2>2, BudgetWriteInv
<1>5. ASSUME NEW b \in BudgetIds, NEW state \in {"active", "inactive"}, UpdateBudget(b, state)
      PROVE  BudgetsInv'
    <2>1. PICK r \in Budgets : /\ budgets' = [budgets EXCEPT ![b] = r]
                               /\ r.category = budgets[b].category
        BY <1>5, UpdatedRow
    <2>2. Writes /\ UNCHANGED <<categories, deleted, expenses, deletions>>
        BY <1>5 DEF UpdateBudget
    <2>3. r.category \in categories \cup {None}
        BY <2>1 DEF BudgetsTypeOK
    <2> HIDE DEF BudgetsInv
    <2> QED BY <2>1, <2>2, <2>3, BudgetWriteInv
<1>6. ASSUME NEW b \in BudgetIds, DeleteBudget(b) PROVE BudgetsInv'
    <2>1. NoBudget \in Budgets /\ NoBudget.category = None
        BY DEF Budgets, NoBudget
    <2>2. /\ budgets' = [budgets EXCEPT ![b] = NoBudget]
          /\ Writes /\ UNCHANGED <<categories, deleted, expenses, deletions>>
        BY <1>6 DEF DeleteBudget
    <2> HIDE DEF BudgetsInv
    <2> QED BY <2>1, <2>2, BudgetWriteInv
<1>7. ASSUME NEW x \in ExpenseIds, NEW at \in Instants, NEW c \in Scopes, Book(x, at, c)
      PROVE  BudgetsInv'
    BY <1>7, BookInv
<1>8. ASSUME NEW x \in ExpenseIds, Unbook(x) PROVE BudgetsInv'
    <2>1. NoExpense \in Expenses /\ NoExpense.category = None
        BY DEF Expenses, NoExpense
    <2>2. /\ expenses' = [expenses EXCEPT ![x] = NoExpense]
          /\ Writes /\ UNCHANGED <<categories, deleted, budgets>>
        BY <1>8 DEF Unbook
    <2>3. deletions' \in [Deleters -> Deletions]
        <3>1. \A r \in Deleters : [deletions[r] EXCEPT !.filed = @ \ {x}] \in Deletions
            BY DEF BudgetsTypeOK, Deletions
        <3> QED BY <1>8, <3>1 DEF Unbook
    <2> HIDE DEF BudgetsInv
    <2> QED BY <2>1, <2>2, <2>3, ExpenseWriteInv
<1>9. CASE OpenReport
    BY <1>9, OpenReportInv
<1>10. CASE Answer
    BY <1>10, CloseReportInv DEF Answer
<1>11. ASSUME NEW b \in BudgetIds, Sum(b) PROVE BudgetsInv'
    BY <1>11, SumInv
<1>12. ASSUME NEW b \in BudgetIds, SumRaises(b) PROVE BudgetsInv'
    BY <1>12, CloseReportInv DEF SumRaises
<1>13. CASE UNCHANGED budgetVars
    <2>1. UNCHANGED <<today, noon, categories, deleted, budgets, expenses, deletions, report, changes>>
        BY <1>13 DEF budgetVars
    <2>2. BudgetsTypeOK'
        BY <2>1 DEF BudgetsTypeOK
    <2>3. \A b \in BudgetIds : OfThisMoment(b)' = OfThisMoment(b)
        BY <2>1 DEF OfThisMoment, Active, Spent, Counted
    <2> QED BY <2>1, <2>2, <2>3
<1> HIDE DEF BudgetsInv
<1> QED BY <1>1, <1>2, <1>3, <1>4, <1>5, <1>6, <1>7, <1>8, <1>9, <1>10, <1>11, <1>12, <1>13,
           <1>14, <1>15
        DEF BudgetsNext, Handlers, Filing

LEMMA AlwaysBudgetsInv == BudgetsSpec => []BudgetsInv
BY BudgetsInitInv, BudgetsNextInv, PTL DEF BudgetsSpec

-----------------------------------------------------------------------------
(* A budget loses its category only when the category goes, and never gets *)
(* one again; an expense moved out of a category is moved again, unasked,  *)
(* only by a deletion of that category which read it before                *)
(* (budgets.py:57-76, crud/base.py:50-55, models/category.py:29-32).       *)
THEOREM CategoriesAreKept == BudgetsSpec => CategoryKept
<1> DEFINE Widens(b) ==
       Live(b) /\ Live(b)' =>
          \/ budgets'[b].category = budgets[b].category
          \/ budgets'[b].category = None /\ budgets[b].category \in deleted'
       Keeps(x) ==
       expenses'[x].category # expenses[x].category =>
          \/ Unbook(x)
          \/ \E at \in Instants : Book(x, at, expenses'[x].category)
          \/ /\ expenses'[x].category = None
             /\ \/ expenses[x].category \in deleted'
                \/ \E r \in Deleters : /\ deletions[r].category \in deleted'
                                       /\ x \in deletions[r].filed
<1>1. ASSUME BudgetsInv, BudgetsNext, NEW b \in BudgetIds PROVE Widens(b)
    <2>1. CASE budgets' = budgets
        BY <2>1
    <2>2. ASSUME NEW a \in BudgetIds, NEW r, budgets' = [budgets EXCEPT ![a] = r],
                 a = b => r = NoBudget \/ budgets[b] = NoBudget
                          \/ r.category = budgets[b].category
          PROVE  Widens(b)
        BY <1>1, <2>2 DEF Live, BudgetsInv, BudgetsTypeOK
    <2>3. ASSUME NEW q \in Deleters, EndDeletion(q) PROVE Widens(b)
        <3> DEFINE c == deletions[q].category
        <3>1. budgets[b] \in Budgets /\ c \in deleted'
            BY <1>1, <2>3 DEF BudgetsInv, BudgetsTypeOK, EndDeletion
        <3>2. CASE budgets[b].category = c /\ budgets[b] # NoBudget
            <4>1. budgets'[b] = [budgets[b] EXCEPT !.category = None]
                BY <2>3, <3>2 DEF EndDeletion, Unfiled
            <4>2. budgets'[b].category = None
                BY <3>1, <3>2, <4>1 DEF Budgets
            <4> QED BY <3>1, <3>2, <4>2
        <3>3. CASE budgets[b].category # c \/ budgets[b] = NoBudget
            BY <2>3, <3>3 DEF EndDeletion, Live
        <3> QED BY <3>2, <3>3
    <2>4. ASSUME NEW a \in BudgetIds, NEW state \in {"active", "inactive"}, UpdateBudget(a, state)
          PROVE  Widens(b)
        BY <1>1, <2>2, <2>4, UpdatedRow
    <2>5. ASSUME NEW a \in BudgetIds, NEW kind \in Periodicities, NEW c \in Scopes,
                 AddBudget(a, kind, c)
          PROVE  Widens(b)
        BY <2>2, <2>5 DEF AddBudget
    <2>6. ASSUME NEW a \in BudgetIds, DeleteBudget(a) PROVE Widens(b)
        BY <2>2, <2>6 DEF DeleteBudget
    <2>7. \/ budgets' = budgets
          \/ \E q \in Deleters : EndDeletion(q)
          \/ \E a \in BudgetIds, kind \in Periodicities, c \in Scopes : AddBudget(a, kind, c)
          \/ \E a \in BudgetIds, state \in {"active", "inactive"} : UpdateBudget(a, state)
          \/ \E a \in BudgetIds : DeleteBudget(a)
        BY <1>1 DEF BudgetsNext, Handlers, Filing, Tick, AddCategory, BeginDeletion, FailDeletion,
                    Book, Unbook, OpenReport, Answer, Sum, SumRaises, stored
    <2> HIDE DEF Widens
    <2> QED BY <2>1, <2>3, <2>4, <2>5, <2>6, <2>7
<1>2. ASSUME BudgetsInv, BudgetsNext, NEW x \in ExpenseIds PROVE Keeps(x)
    <2>1. CASE expenses' = expenses
        BY <2>1
    <2>2. expenses \in [ExpenseIds -> Expenses] /\ deletions \in [Deleters -> Deletions]
        BY <1>2 DEF BudgetsInv, BudgetsTypeOK
    <2>3. ASSUME NEW q \in Deleters, EndDeletion(q) PROVE Keeps(x)
        <3>1. deletions[q].category \in deleted'
            BY <2>3 DEF EndDeletion
        <3>2. CASE expenses[x].category = deletions[q].category \/ x \in deletions[q].filed
            <4>1. expenses'[x] = [expenses[x] EXCEPT !.category = None]
                BY <2>3, <3>2 DEF EndDeletion, Unfiled
            <4>2. expenses'[x].category = None
                BY <2>2, <4>1 DEF Expenses, NoExpense
            <4> QED BY <3>1, <3>2, <4>2
        <3>3. CASE ~(expenses[x].category = deletions[q].category \/ x \in deletions[q].filed)
            BY <2>3, <3>3 DEF EndDeletion
        <3> QED BY <3>2, <3>3
    <2>4. ASSUME NEW y \in ExpenseIds, NEW at \in Instants, NEW c \in Scopes, Book(y, at, c)
          PROVE  Keeps(x)
        <3>1. CASE y = x
            <4>1. expenses'[x] = [day |-> at.day, noon |-> at.noon, category |-> c]
                BY <2>2, <2>4, <3>1 DEF Book
            <4>2. expenses'[x].category = c
                BY <4>1
            <4>3. Book(x, at, expenses'[x].category)
                BY <2>4, <3>1, <4>2
            <4> QED BY <4>3
        <3>2. CASE y # x
            <4>1. expenses'[x] = expenses[x]
                BY <2>2, <2>4, <3>2 DEF Book
            <4> QED BY <4>1
        <3> QED BY <3>1, <3>2
    <2>5. ASSUME NEW y \in ExpenseIds, Unbook(y) PROVE Keeps(x)
        <3>1. CASE y = x
            BY <2>5, <3>1
        <3>2. CASE y # x
            <4>1. expenses'[x] = expenses[x]
                BY <2>2, <2>5, <3>2 DEF Unbook
            <4> QED BY <4>1
        <3> QED BY <3>1, <3>2
    <2>6. \/ expenses' = expenses
          \/ \E q \in Deleters : EndDeletion(q)
          \/ \E y \in ExpenseIds, at \in Instants, c \in Scopes : Book(y, at, c)
          \/ \E y \in ExpenseIds : Unbook(y)
        BY <1>2 DEF BudgetsNext, Handlers, Filing, Tick, AddCategory, BeginDeletion, FailDeletion,
                    AddBudget, UpdateBudget, DeleteBudget, OpenReport, Answer, Sum, SumRaises, stored
    <2> HIDE DEF Keeps
    <2> QED BY <2>1, <2>3, <2>4, <2>5, <2>6
<1>3. BudgetsInv /\ [BudgetsNext]_budgetVars =>
          [(\A b \in BudgetIds : Widens(b)) /\ (\A x \in ExpenseIds : Keeps(x))]_budgetVars
    BY <1>1, <1>2
<1> QED BY <1>3, AlwaysBudgetsInv, PTL DEF BudgetsSpec, CategoryKept

(* An answer between whose statements nothing came is that of one moment,  *)
(* though each statement has its own snapshot and its own clock            *)
(* (budgets.py:35-54).                                                     *)
THEOREM AnswersAreOfOneMoment == BudgetsSpec => AnswersOneMoment
<1>1. ASSUME BudgetsInv, Answer, changes = 0
      PROVE  report.figures = [b \in BudgetIds |-> Spent(b)]
    <2>1. report.figures \in [BudgetIds -> SUBSET (ExpenseIds \cup {None})]
        BY <1>1 DEF BudgetsInv, BudgetsTypeOK, Reports
    <2>2. ASSUME NEW b \in BudgetIds PROVE report.figures[b] = Spent(b)
        <3>1. OfThisMoment(b) /\ budgets[b] \in Budgets
              /\ (report.rows[b] = NoBudget \/ report.figures[b] # NoFigure)
            BY <1>1 DEF BudgetsInv, BudgetsTypeOK, Answer, Pending
        <3>2. Active(b) => budgets[b] # NoBudget
            BY DEF Active, NoBudget
        <3> QED BY <3>1, <3>2 DEF OfThisMoment, Spent
    <2> QED BY <2>1, <2>2
<1>2. BudgetsInv /\ [BudgetsNext]_budgetVars =>
          [Answer /\ changes = 0 =>
              report.figures = [b \in BudgetIds |-> Spent(b)]]_budgetVars
    BY <1>1
<1> QED BY <1>2, AlwaysBudgetsInv, PTL DEF BudgetsSpec, AnswersOneMoment

LEMMA FiguredBySum ==
    ASSUME BudgetsInv, BudgetsNext, NEW b \in BudgetIds, Figured(b)
    PROVE  Sum(b)
<1>1. report.figures[b] = NoFigure /\ report'.figures[b] # NoFigure /\ report \in Reports
    BY DEF Figured, Pending, BudgetsInv, BudgetsTypeOK
<1>2. report' # report
    BY <1>1
<1>3. report' # Idle
    BY <1>1 DEF Idle
<1>4. ~OpenReport
    BY <1>1 DEF OpenReport, Idle
<1>5. PICK a \in BudgetIds : Sum(a)
    BY <1>2, <1>3, <1>4 DEF BudgetsNext, Handlers, Filing, Tick, AddCategory, BeginDeletion,
        EndDeletion, FailDeletion, AddBudget,
        UpdateBudget, DeleteBudget, Book, Unbook, Writes, Answer, SumRaises
<1>6. a = b
    BY <1>1, <1>5, SumSets DEF Reports
<1> QED BY <1>5, <1>6

(* The week of today and its month, by ordinals.                           *)
LEMMA SpillsWhen ==
    ASSUME today \in Dates
    PROVE  ~(MonthHolds(Week.start) /\ MonthHolds(Week.end)) <=> Raises("weekly", today)
<1>1. /\ MonthStart(today) \in Int /\ MonthLength(today) \in 28 .. 31
      /\ Monday(today) \in Int
    BY DateTyped, OrdinalTyped, MonthTyped DEF Monday, Weekday
<1> DEFINE first == [today EXCEPT !.day = 1]
<1>2. first \in Triples /\ first.year = today.year /\ first.month = today.month /\ first.day = 1
    BY DateTyped DEF Triples
<1>3. Ordinal(first) = MonthStart(today) + 1
    <2>1. MonthStart(first) = MonthStart(today)
        BY <1>2 DEF MonthStart, DaysBefore
    <2> HIDE DEF first
    <2> QED BY <1>2, <2>1, OrdinalTyped
<1>4. \A day : MonthHolds(day) <=> /\ MonthStart(today) + 1 <= day
                                   /\ day < MonthStart(today) + 1 + MonthLength(today)
    BY <1>3 DEF MonthHolds
<1>5. Week.start = Monday(today) /\ Week.end = Monday(today) + 7
    BY DEF Week
<1>6. "weekly" \in Kinds
    BY DEF Kinds
<1>7. Raises("weekly", today) <=>
          \/ Monday(today) <= MonthStart(today)
          \/ Monday(today) + 7 > MonthStart(today) + MonthLength(today)
    BY <1>6, RaisesWhen
<1> QED BY <1>1, <1>4, <1>5, <1>7

(* A weekly budget fails its user's whole report in exactly the weeks      *)
(* whose Monday or whose next Monday is in another month; no monthly or    *)
(* yearly budget ever does, on any date (budgets.py:26-28, 45).            *)
THEOREM WeeksFailAcrossMonths == BudgetsSpec => FailsAcrossMonths
<1> DEFINE spills == ~(MonthHolds(Week.start) /\ MonthHolds(Week.end))
           weeklyLeft == {b \in BudgetIds : Pending(b) /\ report.rows[b].period = "weekly"}
<1>1. ASSUME BudgetsInv, BudgetsNext, Failed PROVE spills /\ weeklyLeft # {}
    <2>1. report.open /\ ~report'.open /\ ~Answer /\ report \in Reports
        BY <1>1 DEF Failed, Answer, BudgetsInv, BudgetsTypeOK
    <2>2. report' # report /\ ~OpenReport
        BY <2>1 DEF OpenReport, Idle
    <2>3. \A b \in BudgetIds : ~Sum(b)
        BY <1>1, <2>1, SumSets
    <2>4. PICK b \in BudgetIds : SumRaises(b)
        BY <1>1, <2>1, <2>2, <2>3 DEF BudgetsNext, Handlers, Filing, Tick, AddCategory,
            BeginDeletion, EndDeletion, FailDeletion,
            AddBudget, UpdateBudget, DeleteBudget, Book, Unbook, Writes
    <2>5. Pending(b) /\ Raises(report.rows[b].period, today) /\ today \in Dates
        BY <1>1, <2>4 DEF SumRaises, BudgetsInv, BudgetsTypeOK
    <2>6. report.rows[b].period \in Kinds
        BY <2>1, <2>5, RowTyped DEF Pending, Reports
    <2>7. report.rows[b].period = "weekly"
        BY <2>5, <2>6, RaisesWhen
    <2> QED BY <2>5, <2>7, SpillsWhen
<1>2. ASSUME BudgetsInv, BudgetsNext, NEW b \in weeklyLeft, Figured(b) PROVE ~spills
    <2>1. Sum(b) /\ report.rows[b].period = "weekly" /\ today \in Dates
        BY <1>2, FiguredBySum DEF BudgetsInv, BudgetsTypeOK
    <2> QED BY <2>1, SpillsWhen DEF Sum
<1>3. BudgetsInv /\ [BudgetsNext]_budgetVars =>
          [/\ Failed => spills /\ weeklyLeft # {}
           /\ \A b \in weeklyLeft : Figured(b) => ~spills]_budgetVars
    BY <1>1, <1>2
<1> QED BY <1>3, AlwaysBudgetsInv, PTL DEF BudgetsSpec, FailsAcrossMonths

(* The figure of a period that is computed: both ends are counted.         *)
LEMMA CountedInPeriod ==
    ASSUME NEW kind \in Kinds, ~Raises(kind, today), today \in Dates,
           NEW day \in Dates, NEW late \in BOOLEAN
    PROVE  LET p == _get_period_dates(kind, today)
               at == Instant(day, late)
           IN  Instant(p.start, FALSE) <= at /\ at <= Instant(p.end, FALSE)
                 <=> \/ SamePeriod(kind, day, today)
                     \/ ~late /\ SamePeriod(kind, Yesterday(day), today)
<1>1. PICK first \in Int, next \in Int, o \in Int :
          first = FirstDay(kind, today) /\ next = NextDay(kind, today) /\ o = Ordinal(day)
    BY PeriodTyped, DateTyped, OrdinalTyped
<1>2. /\ Ordinal(_get_period_dates(kind, today).start) = first
      /\ Ordinal(_get_period_dates(kind, today).end) = next
    BY <1>1, ComputedDays
<1>3. SamePeriod(kind, day, today) <=> first <= o /\ o < next
    BY <1>1, PeriodIsRange
<1>4. SamePeriod(kind, Yesterday(day), today) <=> first <= o - 1 /\ o - 1 < next
    <2>1. Yesterday(day) \in Dates /\ Ordinal(Yesterday(day)) = o - 1
        BY <1>1, YesterdayIsLast
    <2> QED BY <1>1, <2>1, PeriodIsRange
<1>5. first < next
    <2>1. SamePeriod(kind, today, today)
        BY SamePeriodEquivalence
    <2>2. first <= Ordinal(today) /\ Ordinal(today) < next /\ Ordinal(today) \in Int
        BY <1>1, <2>1, PeriodIsRange, DateTyped, OrdinalTyped
    <2> QED BY <2>2
<1>6. CASE late
    <2>1. 2 * first + 0 <= 2 * o + 1 /\ 2 * o + 1 <= 2 * next + 0 <=> first <= o /\ o < next
        OBVIOUS
    <2> QED BY <1>1, <1>2, <1>3, <1>6, <2>1 DEF Instant
<1>7. CASE ~late
    <2>1. 2 * first + 0 <= 2 * o + 0 /\ 2 * o + 0 <= 2 * next + 0
            <=> (first <= o /\ o < next) \/ (first <= o - 1 /\ o - 1 < next)
        BY <1>5
    <2> QED BY <1>1, <1>2, <1>3, <1>4, <1>7, <2>1 DEF Instant
<1> QED BY <1>6, <1>7

(* A figure is exact by the calendar, on every date on which it is         *)
(* computed: it sums the expenses of the period, and those at the very     *)
(* instant at which the next one opens (crud/transaction.py:143-167).      *)
THEOREM FiguresAreExact == BudgetsSpec => FigureIsExact
<1> DEFINE Exact(b) ==
       LET row == report.rows[b]
       IN  report'.figures[b] =
             {x \in ExpenseIds :
                 /\ expenses[x] # NoExpense
                 /\ InPeriod(row.period, expenses[x])
                 /\ row.category \in {None, expenses[x].category}}
<1>1. ASSUME BudgetsInv, BudgetsNext, NEW b \in BudgetIds, Figured(b) PROVE Exact(b)
    <2>1. Sum(b)
        BY <1>1, FiguredBySum
    <2>2. PICK kind \in Kinds : kind = report.rows[b].period /\ ~Raises(kind, today)
        BY <1>1, <2>1, SumSets
    <2> DEFINE c == report.rows[b].category
    <2>3. report'.figures[b] = Counted(c, _get_period_dates(kind, today))
        BY <1>1, <2>1, <2>2, SumSets
    <2>6. Exact(b) <=> report'.figures[b] =
                          {x \in ExpenseIds :
                              /\ expenses[x] # NoExpense
                              /\ InPeriod(kind, expenses[x])
                              /\ c \in {None, expenses[x].category}}
        BY <2>2
    <2> HIDE DEF Exact, c
    <2>4. ASSUME NEW x \in ExpenseIds, expenses[x] # NoExpense
          PROVE  LET p == _get_period_dates(kind, today)
                     at == Instant(expenses[x].day, expenses[x].noon)
                 IN  Instant(p.start, FALSE) <= at /\ at <= Instant(p.end, FALSE)
                       <=> InPeriod(kind, expenses[x])
        <3>1. expenses[x].day \in Dates /\ expenses[x].noon \in BOOLEAN /\ today \in Dates
            BY <1>1, <2>4 DEF BudgetsInv, BudgetsTypeOK, Expenses
        <3> QED BY <2>2, <3>1, CountedInPeriod DEF InPeriod
    <2>5. Counted(c, _get_period_dates(kind, today)) =
             {x \in ExpenseIds :
                 /\ expenses[x] # NoExpense
                 /\ InPeriod(kind, expenses[x])
                 /\ c \in {None, expenses[x].category}}
        BY <2>4 DEF Counted
    <2> QED BY <2>3, <2>5, <2>6
<1>2. BudgetsInv /\ [BudgetsNext]_budgetVars =>
          [\A b \in BudgetIds : Figured(b) => Exact(b)]_budgetVars
    BY <1>1
<1> QED BY <1>2, AlwaysBudgetsInv, PTL DEF BudgetsSpec, FigureIsExact

-----------------------------------------------------------------------------
(* The periods of the code, as days go by.                                 *)

LEMMA SameCalendar ==
    /\ Calendars!Kinds = Kinds
    /\ \A d : /\ Calendars!Ordinal(d) = Ordinal(d) /\ Calendars!Tomorrow(d) = Tomorrow(d)
             /\ Calendars!Yesterday(d) = Yesterday(d)
    /\ \A kind, d : Calendars!Opens(kind, d) = ~SamePeriod(kind, Yesterday(d), d)
BY DEF Calendars!Kinds, Kinds, Calendars!Ordinal, Ordinal, Calendars!DaysBefore, DaysBefore,
       Calendars!Leap, Leap, Calendars!Tomorrow, Tomorrow, Calendars!MonthLength, MonthLength,
       Calendars!Yesterday, Yesterday, Calendars!Opens, Calendars!SamePeriod, SamePeriod,
       Calendars!Monday, Monday, Calendars!Weekday, Weekday

(* Whether or not replace() raises, these are the days of the calendar.    *)
LEMMA DaysAre ==
    ASSUME NEW d \in Dates, NEW kind \in Kinds
    PROVE  IF Raises(kind, d)
           THEN FirstDay(kind, d) = Monday(d) /\ NextDay(kind, d) = Monday(d) + 7
           ELSE /\ FirstDay(kind, d) = Ordinal(_get_period_dates(kind, d).start)
                /\ NextDay(kind, d) = Ordinal(_get_period_dates(kind, d).end)
<1>1. CASE Raises(kind, d)
    <2>1. kind = "weekly"
        BY <1>1, RaisesWhen
    <2> QED BY <1>1, <2>1 DEF FirstDay, NextDay
<1>2. CASE ~Raises(kind, d)
    BY <1>2, ComputedDays
<1> QED BY <1>1, <1>2

LEMMA ComputedIs ==
    ASSUME today \in Dates, NEW kind \in Kinds
    PROVE  /\ Computed[kind].start = FirstDay(kind, today)
           /\ Computed[kind].end = NextDay(kind, today)
BY DaysAre DEF Computed, Week

LEMMA ComputedNext ==
    ASSUME today' \in Dates, NEW kind \in Kinds
    PROVE  /\ Computed'[kind].start = FirstDay(kind, today')
           /\ Computed'[kind].end = NextDay(kind, today')
BY DaysAre DEF Computed, Week

LEMMA CurrentIs ==
    ASSUME today \in Dates, NEW kind \in Kinds
    PROVE  Calendars!Current(kind)
<1>1. FirstDay(kind, today) <= Ordinal(today) /\ Ordinal(today) < NextDay(kind, today)
    BY SamePeriodEquivalence, PeriodIsRange
<1> QED BY <1>1, ComputedIs, SameCalendar DEF Calendars!Current

(* From one day to the next a period goes on, or the next begins where it  *)
(* ended.                                                                  *)
LEMMA DayByDay ==
    ASSUME NEW d \in Dates, NEW t \in Dates, Ordinal(t) = Ordinal(d) + 1, NEW kind \in Kinds
    PROVE  IF SamePeriod(kind, d, t)
           THEN FirstDay(kind, t) = FirstDay(kind, d) /\ NextDay(kind, t) = NextDay(kind, d)
           ELSE FirstDay(kind, t) = NextDay(kind, d) /\ FirstDay(kind, t) = Ordinal(t)
<1>1. CASE SamePeriod(kind, d, t)
    BY <1>1, SamePeriodEquivalence
<1>2. CASE ~SamePeriod(kind, d, t)
    <2>1. PICK o \in Int, f \in Int, n \in Int, g \in Int, m \in Int :
              /\ o = Ordinal(d) /\ f = FirstDay(kind, d) /\ n = NextDay(kind, d)
              /\ g = FirstDay(kind, t) /\ m = NextDay(kind, t)
        BY PeriodTyped, DateTyped, OrdinalTyped
    <2>2. f <= o /\ o < n /\ g <= o + 1 /\ o + 1 < m
        BY <2>1, SamePeriodEquivalence, PeriodIsRange
    <2>3. ~(f <= o + 1 /\ o + 1 < n) /\ ~(g <= o /\ o < m)
        BY <1>2, <2>1, SamePeriodEquivalence, PeriodIsRange
    <2>4. g = n /\ g = o + 1
        BY <2>2, <2>3
    <2> QED BY <1>2, <2>1, <2>4
<1> QED BY <1>1, <1>2

LEMMA YesterdayOfTomorrow ==
    ASSUME NEW d \in Dates, NEW kind \in Kinds
    PROVE  SamePeriod(kind, Yesterday(Tomorrow(d)), Tomorrow(d))
              <=> SamePeriod(kind, d, Tomorrow(d))
<1>1. Tomorrow(d) \in Dates /\ Ordinal(Tomorrow(d)) = Ordinal(d) + 1 /\ Ordinal(d) \in Int
    BY TomorrowIsNext, DateTyped, OrdinalTyped
<1>2. Yesterday(Tomorrow(d)) \in Dates /\ Ordinal(Yesterday(Tomorrow(d))) = Ordinal(d)
    BY <1>1, YesterdayIsLast
<1> QED BY <1>1, <1>2, PeriodIsRange

LEMMA CalendarStep ==
    ASSUME today \in Dates, today' = Tomorrow(today)
    PROVE  Calendars!Next
<1>1. today' \in Dates /\ Ordinal(today') = Ordinal(today) + 1
    BY TomorrowIsNext
<1>2. ASSUME NEW kind \in Kinds
      PROVE  /\ Computed[kind].start = FirstDay(kind, today)
             /\ Computed[kind].end = NextDay(kind, today)
             /\ Computed'[kind].start = FirstDay(kind, today')
             /\ Computed'[kind].end = NextDay(kind, today')
             /\ Calendars!Current(kind)'
    <2>1. /\ Computed'[kind].start = FirstDay(kind, today')
          /\ Computed'[kind].end = NextDay(kind, today')
        BY <1>1, ComputedNext
    <2>2. FirstDay(kind, today') <= Ordinal(today') /\ Ordinal(today') < NextDay(kind, today')
        BY <1>1, SamePeriodEquivalence, PeriodIsRange
    <2>3. Calendars!Current(kind)'
        BY <2>1, <2>2, SameCalendar DEF Calendars!Current
    <2> QED BY <2>1, <2>3, ComputedIs
<1>3. ASSUME NEW kind \in Kinds
      PROVE  IF Calendars!Opens(kind, today')
             THEN FirstDay(kind, today') = NextDay(kind, today)
                  /\ FirstDay(kind, today') = Calendars!Ordinal(today')
             ELSE FirstDay(kind, today') = FirstDay(kind, today)
                  /\ NextDay(kind, today') = NextDay(kind, today)
    <2>1. Calendars!Opens(kind, today') = ~SamePeriod(kind, today, today')
        BY SameCalendar, YesterdayOfTomorrow
    <2> QED BY <1>1, <2>1, DayByDay, SameCalendar
<1> QED BY <1>2, <1>3, SameCalendar DEF Calendars!Next

(* The dates computed afresh for each request, and for a week that raises  *)
(* those it should have, are the calendar's periods, one after another on  *)
(* every day there is (budgets.py:17-32).                                  *)
THEOREM DatesFollowCalendar == BudgetsSpec => FollowsCalendar
<1>1. BudgetsInit => Calendars!Init
    BY SpansAssumption, CurrentIs, SameCalendar DEF BudgetsInit, Calendars!Init
<1>2. BudgetsInv /\ [BudgetsNext]_budgetVars =>
          [Calendars!Next]_<<today, [k \in Kinds |-> Computed[k].start],
                             [k \in Kinds |-> Computed[k].end]>>
    <2> SUFFICES ASSUME BudgetsInv, [BudgetsNext]_budgetVars
                 PROVE  [Calendars!Next]_<<today, [k \in Kinds |-> Computed[k].start],
                                           [k \in Kinds |-> Computed[k].end]>>
        OBVIOUS
    <2>1. today' = today \/ today' = Tomorrow(today)
        BY DEF BudgetsNext, Handlers, Filing, Tick, AddCategory, BeginDeletion, EndDeletion,
               FailDeletion, AddBudget, UpdateBudget,
               DeleteBudget, Book, Unbook, Writes, OpenReport, Answer, Sum, SumRaises, clock,
               budgetVars
    <2>2. CASE today' = today
        BY <2>2 DEF Computed, Week
    <2>3. CASE today' = Tomorrow(today)
        BY <2>3, CalendarStep DEF BudgetsInv, BudgetsTypeOK
    <2> QED BY <2>1, <2>2, <2>3
<1> QED BY <1>1, <1>2, AlwaysBudgetsInv, PTL DEF BudgetsSpec, FollowsCalendar, Calendars!Spec

-----------------------------------------------------------------------------
(* The parts together.                                                     *)

LEMMA ReportPartsInv == MCSpec => [](BudgetsInv /\ PagesInv)
<1>1. MCInit => BudgetsInv /\ PagesInv
    BY BudgetsInitInv, PagesInitInv DEF MCInit
<1>2. BudgetsInv /\ PagesInv /\ [MCNext]_<<budgetVars, pageVars, part>>
          => (BudgetsInv /\ PagesInv)'
    BY BudgetsNextInv, PagesNextInv DEF MCNext, BudgetsNext, Handlers
<1> QED BY <1>1, <1>2, PTL DEF MCSpec

(* No order of requests leaves a budget or an expense with a category that *)
(* has gone, and every date there is, computed or given, is one of the     *)
(* calendar's (models/budget.py:15-17, models/transaction.py:17-19).       *)
THEOREM ReportsTypeCorrect == MCSpec => []MCTypeOK
<1>1. BudgetsInv /\ PagesInv => MCTypeOK
    BY DEF BudgetsInv, PagesInv, MCTypeOK
<1> QED BY <1>1, ReportPartsInv, PTL
==============================================================================
