------------------------------- MODULE Money -------------------------------
(***************************************************************************)
(* The arithmetic of a transaction: what the NUMERIC(15,2) columns of      *)
(* accounts.balance and transactions.amount make of a decimal, and which   *)
(* accounts a transaction moves by how much (_balance_deltas).             *)
(*                                                                         *)
(* Money is counted in parts of a cent, Sub parts to the cent: a request   *)
(* body carries any number of parts, a stored value is whole cents.        *)
(***************************************************************************)
EXTENDS Integers, Sequences

CONSTANTS
    Accounts,  \* ids of account rows
    None,      \* SQL NULL
    Sub        \* parts of a cent a request can tell apart

ASSUME NoneAssumption == None \notin Accounts \cup Int
ASSUME SubAssumption == Sub \in Nat \ {0}

(* PostgreSQL's cast to NUMERIC(15,2): the nearest cent, halves away from  *)
(* zero.                                                                   *)
Cents(x) ==
    LET Nearest(n) == ((2 * n + Sub) \div (2 * Sub)) * Sub
    IN  IF x >= 0 THEN Nearest(x) ELSE -Nearest(-x)

(* transaction_type is a free string: "other" stands for all but the three *)
(* the program knows.                                                      *)
Types == {"income", "expense", "transfer", "other"}

Row == [typ : Types, acc : Accounts, to : Accounts \cup {None}, amt : Int]

(* The balance changes of an amount booked on row r.                       *)
Deltas(r, amount) ==
    LET from == [acc |-> r.acc, by |-> amount]
        less == [acc |-> r.acc, by |-> -amount]
        dest == [acc |-> r.to, by |-> amount]
    IN  CASE r.typ = "income"   -> <<from>>
          [] r.typ = "expense"  -> <<less>>
          [] r.typ = "transfer" -> IF r.to = None THEN <<less>> ELSE <<less, dest>>
          [] OTHER              -> << >>

(* What the first n UPDATEs of a plan of legs (no plan has more than two)  *)
(* do to account a: each binds its delta as NUMERIC(15,2).                 *)
Posted(plan, n, a) ==
    LET Part(i) == IF i <= n /\ i <= Len(plan) /\ plan[i].acc = a
                   THEN Cents(plan[i].by) ELSE 0
    IN  Part(1) + Part(2)

(* What a stored row contributes to account a.                             *)
Effect(r, a) == Posted(Deltas(r, r.amt), 2, a)
=============================================================================
