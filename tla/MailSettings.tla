---------------------------- MODULE MailSettings ----------------------------
(***************************************************************************)
(* The settings of outgoing mail, and what becomes of a mail sent with     *)
(* them.  PUT /admin/settings/smtp reads the one row, inserts or updates   *)
(* it and commits; every mail is sent with the settings and the encryption *)
(* key of its own moment.  A stored secret is modelled by the key it was   *)
(* encrypted with.                                                         *)
(***************************************************************************)
EXTENDS Integers

CONSTANTS
    Slots,      \* sessions of administrators
    EncKeys,    \* values of SETTINGS_ENC_KEY, or of the key SECRET_KEY gives
    Bodies,     \* bodies of requests: functions on some of the fields
    None        \* no secret

Secrets == {"password", "api_key"}

(* Whether the field is set; sender is from_email or username.             *)
Flags == {"host", "sender", "provider", "enabled"}

Fields == Secrets \cup Flags \cup {"transport"}

ASSUME BodiesAssumption ==
    \A body \in Bodies :
        /\ DOMAIN body \subseteq Fields
        /\ \A f \in DOMAIN body :
              /\ f \in Flags => body[f] \in BOOLEAN
              /\ f = "transport" => body[f] \in {"smtp", "api"}

VARIABLES
    key,       \* the key the process encrypts and decrypts with
    exists,    \* whether there is a row with id 1
    row,       \* its columns, or their defaults
    put,       \* the requests in progress: step, body, and the row as read
    rotated    \* history: the key has changed when a secret was stored

mailVars == <<key, exists, row, put, rotated>>

Defaults == [f \in Fields |->
    IF f = "transport" THEN "smtp" ELSE IF f \in Flags THEN FALSE ELSE None]

NoPut == [step |-> "idle", body |-> << >>, found |-> FALSE, copy |-> Defaults]

RowOK(r) ==
    /\ r["transport"] \in {"smtp", "api"}
    /\ \A f \in Flags : r[f] \in BOOLEAN
    /\ \A f \in Secrets : r[f] \in EncKeys \cup {None}

MailTypeOK ==
    /\ key \in EncKeys
    /\ RowOK(row)
    /\ ~exists => row = Defaults
    /\ \A s \in Slots :
          put[s] = NoPut \/ (put[s].body \in Bodies /\ RowOK(put[s].copy))
    /\ exists \in BOOLEAN /\ rotated \in BOOLEAN

MailInit ==
    /\ key \in EncKeys
    /\ exists = FALSE
    /\ row = Defaults
    /\ put = [s \in Slots |-> NoPut]
    /\ rotated = FALSE

-----------------------------------------------------------------------------
(* PUT /admin/settings/smtp                                                *)

Read(s, body) ==
    /\ put[s] = NoPut
    /\ put' = [put EXCEPT
          ![s] = [step |-> "flush", body |-> body, found |-> exists, copy |-> row]]
    /\ UNCHANGED <<key, exists, row, rotated>>

(* Another request has flushed and holds the row, or its primary key.      *)
Blocked(s) == \E r \in Slots \ {s} : put[r].step = "commit"

(* VARIANT of Clash (see Ledger): the INSERT has an ON CONFLICT clause.    *)
NoClash(s) == FALSE

(* Both requests found no row, and both insert id 1.                       *)
Clash(s) == exists /\ ~put[s].found

Flush(s) ==
    /\ put[s].step = "flush"
    /\ ~Blocked(s)
    /\ put' = [put EXCEPT ![s] = IF Clash(s) THEN NoPut ELSE [@ EXCEPT !.step = "commit"]]
    /\ UNCHANGED <<key, exists, row, rotated>>

(* VARIANT of Written: every column of the copy is written.                *)
WrittenWhole(s) == Fields

(* The columns that an UPDATE sets are those that differ from the copy.    *)
(* No two encryptions of a secret are alike.                               *)
Written(s) ==
    LET p == put[s]
    IN  IF ~p.found THEN Fields
        ELSE {f \in DOMAIN p.body : f \in Secrets \/ p.body[f] # p.copy[f]}

(* VARIANT of Value: a secret is stored as it was typed.                   *)
ValueTyped(s, f) ==
    IF f \in DOMAIN put[s].body THEN put[s].body[f] ELSE put[s].copy[f]

(* A field that is null or left out keeps its value; so does an empty      *)
(* secret.                                                                 *)
Value(s, f) ==
    LET p == put[s]
    IN  IF f \notin DOMAIN p.body THEN p.copy[f]
        ELSE IF f \in Secrets THEN key ELSE p.body[f]

Commit(s) ==
    /\ put[s].step = "commit"
    /\ exists' = TRUE
    /\ row' = [f \in Fields |-> IF f \in Written(s) THEN Value(s, f) ELSE row[f]]
    /\ put' = [put EXCEPT ![s] = NoPut]
    /\ UNCHANGED <<key, rotated>>

(* The process stops, and starts with the same key or with another.        *)
Rotate(k) ==
    /\ key' = k
    /\ put' = [s \in Slots |-> NoPut]
    /\ rotated' = (rotated \/ (k # key /\ \E f \in Secrets : row[f] # None))
    /\ UNCHANGED <<exists, row>>

MailNext ==
    \/ \E s \in Slots : Flush(s) \/ Commit(s) \/ \E body \in Bodies : Read(s, body)
    \/ \E k \in EncKeys : Rotate(k)

MailSpec == MailInit /\ [][MailNext]_mailVars

-----------------------------------------------------------------------------
(* What deliver does with a mail now.                                      *)

Unreadable == {f \in Secrets : row[f] \notin {None, key}}

(* VARIANT of Decrypts: only the secret of the transport in use.           *)
DecryptsOne ==
    (IF row["transport"] = "api" THEN "api_key" ELSE "password") \notin Unreadable

(* _resolve_config decrypts both secrets.                                  *)
Decrypts == Unreadable = {}

Complete ==
    IF row["transport"] = "api"
    THEN row["api_key"] # None /\ row["sender"] /\ row["provider"]
    ELSE row["host"]

(* VARIANT of Fate: an incomplete configuration raises another error.      *)
FateRaises(require_enabled) ==
    IF ~exists \/ (require_enabled /\ ~row["enabled"]) THEN "not configured"
    ELSE IF Decrypts /\ Complete THEN "handed over"
    ELSE "failed"

(* Handed over to the transport; EmailNotConfigured, for which a reset     *)
(* link is logged; or InvalidToken, which loses the link.                  *)
Fate(require_enabled) ==
    IF ~exists \/ (require_enabled /\ ~row["enabled"]) THEN "not configured"
    ELSE IF ~Decrypts THEN "failed"
    ELSE IF Complete THEN "handed over"
    ELSE "not configured"

-----------------------------------------------------------------------------
(* However two requests overlap, one never undoes a column that it does    *)
(* not mention, and it stores what it does mention, unless that is what it *)
(* had read and the other has changed it since (crud/smtp_settings.py:     *)
(* 21-40).                                                                 *)
PutsMerge ==
    [][\A s \in Slots : Commit(s) =>
          LET p == put[s]
          IN  \A f \in Fields :
                 IF f \notin DOMAIN p.body THEN row'[f] = row[f]
                 ELSE IF f \in Secrets THEN row'[f] = key
                 ELSE \/ row'[f] = p.body[f]
                      \/ row'[f] = row[f] /\ p.body[f] = p.copy[f] /\ row[f] # p.copy[f]
      ]_mailVars

(* Once a secret has become unreadable no mail is handed over until every  *)
(* such secret has been typed in again, that of the transport which is not *)
(* used as well, or the old key is back (core/email.py:25-42,              *)
(* crud/smtp_settings.py:41-49).                                           *)
RepairTakesEverySecret ==
    [][/\ Unreadable # {} => Fate(FALSE) # "handed over"
       /\ Unreadable \ Unreadable' # {} /\ key' = key =>
             \E s \in Slots : /\ put[s].step = "commit"
                              /\ Unreadable \ Unreadable' \subseteq DOMAIN put[s].body
      ]_mailVars

(* As long as the key stays the same, a reset link is handed over or       *)
(* logged: none is lost before it reaches the transport (core/email.py:    *)
(* 25-42, 120-137, core/crypto.py:16-31).                                  *)
LinkLostOnlyAfterRotation == Fate(TRUE) = "failed" => rotated
=============================================================================
