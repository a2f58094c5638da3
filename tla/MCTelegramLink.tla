--------------------------- MODULE MCTelegramLink ---------------------------
(***************************************************************************)
(* TelegramLink for TLC.                                                   *)
(***************************************************************************)
EXTENDS TelegramLink, TLC

(* No user, code, account or session is special.                           *)
Symmetry == Permutations(Users) \cup Permutations(Codes) \cup Permutations(Tgs)
                \cup Permutations(Slots)
=============================================================================
