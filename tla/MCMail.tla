------------------------------- MODULE MCMail -------------------------------
(***************************************************************************)
(* The mail settings, and the users' addresses.  The two share no state: a *)
(* behaviour exercises one of them, and the other rests.                   *)
(***************************************************************************)
EXTENDS MailSettings, Addresses, TLC

VARIABLE part   \* the module that takes the steps

(* PUTs in the order an administrator may make them in: SMTP, mail through *)
(* the provider, a sender, a new password, mail switched off.              *)
MCBodies ==
    { [f \in {"host", "password", "enabled"} |-> TRUE],
      [f \in {"provider", "api_key", "transport"} |->
          IF f = "transport" THEN "api" ELSE TRUE],
      [f \in {"sender", "transport"} |->
          IF f = "transport" THEN "smtp" ELSE TRUE],
      [f \in {"password"} |-> TRUE],
      [f \in {"enabled"} |-> FALSE] }

MCInit ==
    /\ MailInit /\ AddressesInit
    /\ part \in {"mail", "addresses"}
    /\ part = "addresses" => key = CHOOSE k \in EncKeys : TRUE

MCNext ==
    /\ \/ part = "mail" /\ MailNext /\ UNCHANGED addressVars
       \/ part = "addresses" /\ AddressesNext /\ UNCHANGED mailVars
    /\ UNCHANGED part

MCSpec == MCInit /\ [][MCNext]_<<mailVars, addressVars, part>>

(* The types of the variables of both (admin.py, auth.py).                 *)
MCTypeOK == MailTypeOK /\ AddressesTypeOK

Symmetry == Permutations(Slots) \cup Permutations(Users)
=============================================================================
