------------------------------ MODULE MCLedger ------------------------------
(***************************************************************************)
(* Instances of Ledger for TLC.                                            *)
(***************************************************************************)
EXTENDS Ledger, TLC

CONSTANTS acc1, acc2   \* two accounts

Body(typ, from, to, amt) == [typ |-> typ, acc |-> from, to |-> to, amt |-> amt]

(* Each type, a transfer with and without a destination, to itself and to  *)
(* the other account.                                                      *)
EveryBody ==
    {Body(typ, acc1, None, 1) : typ \in Types}
        \cup {Body("transfer", acc1, to, 1) : to \in {acc1, acc2}}

(* For two sessions: the kinds that interact.                              *)
Transfers == {Body("transfer", acc1, acc2, 1), Body("transfer", acc2, acc1, 1)}
FewBodies == Transfers \cup {Body("expense", a, None, 1) : a \in {acc1, acc2}}

(* No session is special, nor is an account where its bodies are those of  *)
(* the other one.                                                          *)
Symmetry == Permutations(Slots) \cup Permutations(Accounts)
=============================================================================
