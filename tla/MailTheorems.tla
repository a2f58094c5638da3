---------------------------- MODULE MailTheorems ----------------------------
(***************************************************************************)
(* What holds of MailSettings for any sessions, keys and bodies of         *)
(* requests, of Addresses for any users, addresses and sessions, and of    *)
(* the two together.                                                       *)
(***************************************************************************)
EXTENDS MCMail, TLAPS

(* An open request has a body and a copy of the row.                       *)
Rows == {r \in [Fields -> BOOLEAN \cup {"smtp", "api"} \cup EncKeys \cup {None}] : RowOK(r)}

Puts == [step : {"flush", "commit"}, body : Bodies, found : BOOLEAN, copy : Rows]

(* What is in the row, and in the copies of it, as long as the key has     *)
(* never changed under a stored secret.                                    *)
Legible(r) == \A f \in Secrets : r[f] \in {None, key}

(* One request at a time is past its flush; one that found no row is past  *)
(* it only while there is still none.                                      *)
MailInv ==
    /\ key \in EncKeys /\ exists \in BOOLEAN /\ rotated \in BOOLEAN
    /\ row \in Rows
    /\ ~exists => row = Defaults
    /\ put \in [Slots -> Puts \cup {NoPut}]
    /\ \A s \in Slots : put[s] # NoPut /\ ~put[s].found => put[s].copy = Defaults
    /\ \A s \in Slots : put[s].step = "commit" => put[s].found \/ ~exists
    /\ \A s, t \in Slots : put[s].step = "commit" /\ put[t].step = "commit" => s = t
    /\ ~rotated => Legible(row) /\ \A s \in Slots : Legible(put[s].copy)

LEMMA DefaultsTyped ==
    /\ Defaults \in Rows
    /\ \A f \in Secrets : f \in Fields /\ f \notin Flags /\ f # "transport" /\ Defaults[f] = None
BY DEF Defaults, Rows, RowOK, Fields, Flags, Secrets

LEMMA NoPutIsIdle == NoPut.step = "idle" /\ NoPut.copy = Defaults /\ NoPut \notin Puts
BY DEF NoPut, Puts

LEMMA CommitTyped ==
    ASSUME MailInv, NEW s \in Slots, put[s].step = "commit"
    PROVE  put[s] \in Puts /\ put[s] # NoPut
BY NoPutIsIdle DEF MailInv

LEMMA MailInitInv == MailInit => MailInv
BY DefaultsTyped, NoPutIsIdle DEF MailInit, MailInv, Legible

LEMMA ReadInv ==
    ASSUME MailInv, NEW s \in Slots, NEW body \in Bodies, Read(s, body)
    PROVE  MailInv'
<1> DEFINE p == [step |-> "flush", body |-> body, found |-> exists, copy |-> row]
<1>1. p \in Puts /\ p.step = "flush" /\ p.copy = row /\ p.found = exists
    BY DEF Puts, MailInv
<1>2. put' = [put EXCEPT ![s] = p] /\ UNCHANGED <<key, exists, row, rotated>>
    BY DEF Read
<1> HIDE DEF p
<1>3. /\ put' \in [Slots -> Puts \cup {NoPut}]
      /\ put'[s] = p /\ \A t \in Slots \ {s} : put'[t] = put[t]
    BY <1>1, <1>2 DEF MailInv
<1> QED BY <1>1, <1>2, <1>3 DEF MailInv, Legible

LEMMA FlushInv ==
    ASSUME MailInv, NEW s \in Slots, Flush(s)
    PROVE  MailInv'
<1> DEFINE p == IF Clash(s) THEN NoPut ELSE [put[s] EXCEPT !.step = "commit"]
<1>1. put[s] \in Puts /\ put[s] # NoPut
    BY NoPutIsIdle DEF Flush, MailInv
<1>2. put' = [put EXCEPT ![s] = p] /\ UNCHANGED <<key, exists, row, rotated>>
    BY DEF Flush
<1>3. \/ p = NoPut
      \/ /\ p \in Puts /\ p # NoPut /\ p.copy = put[s].copy /\ p.found = put[s].found
         /\ p.found \/ ~exists
    BY <1>1, NoPutIsIdle DEF Puts, Clash
<1> HIDE DEF p
<1>4. /\ put' \in [Slots -> Puts \cup {NoPut}]
      /\ put'[s] = p /\ \A t \in Slots \ {s} : put'[t] = put[t]
    BY <1>2, <1>3 DEF MailInv
<1>5. \A t \in Slots \ {s} : put[t].step # "commit"
    BY DEF Flush, Blocked
<1>6. ~rotated => Legible(p.copy)
    BY <1>3, DefaultsTyped, NoPutIsIdle DEF MailInv, Legible
<1>7. \A t \in Slots : put'[t] # NoPut /\ ~put'[t].found => put'[t].copy = Defaults
    BY <1>1, <1>3, <1>4 DEF MailInv
<1>8. \A t \in Slots : put'[t].step = "commit" => put'[t].found \/ ~exists
    BY <1>3, <1>4, <1>5, NoPutIsIdle
<1> QED BY <1>2, <1>4, <1>5, <1>6, <1>7, <1>8 DEF MailInv, Legible

(* What a commit leaves in a column.                                       *)
LEMMA CommitWrites ==
    ASSUME MailInv, NEW s \in Slots, Commit(s), NEW f \in Fields
    PROVE  /\ row'[f] = IF f \in Written(s) THEN Value(s, f) ELSE row[f]
           /\ f \notin DOMAIN put[s].body => row'[f] = row[f]
           /\ f \in DOMAIN put[s].body /\ f \in Secrets => row'[f] = key
           /\ f \in DOMAIN put[s].body /\ f \notin Secrets =>
                 \/ row'[f] = put[s].body[f]
                 \/ row'[f] = row[f] /\ put[s].body[f] = put[s].copy[f]
<1>1. row'[f] = IF f \in Written(s) THEN Value(s, f) ELSE row[f]
    BY DEF Commit
<1>2. put[s] # NoPut /\ (put[s].found \/ ~exists)
    BY CommitTyped DEF Commit, MailInv
<1>3. CASE put[s].found
    BY <1>1, <1>3 DEF Written, Value
<1>4. CASE ~put[s].found
    <2>1. put[s].copy = row
        BY <1>2, <1>4 DEF MailInv
    <2> QED BY <1>1, <1>4, <2>1 DEF Written, Value
<1> QED BY <1>3, <1>4, <1>1

LEMMA CommitInv ==
    ASSUME MailInv, NEW s \in Slots, Commit(s)
    PROVE  MailInv'
<1>1. put[s] \in Puts /\ put[s].body \in Bodies
    BY CommitTyped DEF Commit, Puts
<1>2. /\ put' = [put EXCEPT ![s] = NoPut] /\ exists' = TRUE /\ UNCHANGED <<key, rotated>>
      /\ row' = [f \in Fields |-> row'[f]]
    BY DEF Commit
<1>3. /\ put' \in [Slots -> Puts \cup {NoPut}]
      /\ put'[s] = NoPut /\ \A t \in Slots \ {s} : put'[t] = put[t]
    BY <1>2 DEF MailInv
<1>4. \A f \in Flags : row'[f] \in BOOLEAN
    <2> SUFFICES ASSUME NEW f \in Flags PROVE row'[f] \in BOOLEAN
        OBVIOUS
    <2>1. f \in Fields /\ f \notin Secrets /\ row[f] \in BOOLEAN
        BY DEF Fields, Flags, Secrets, MailInv, Rows, RowOK
    <2>2. f \in DOMAIN put[s].body => put[s].body[f] \in BOOLEAN
        BY <1>1, BodiesAssumption
    <2> QED BY <2>1, <2>2, CommitWrites
<1>5. row'["transport"] \in {"smtp", "api"}
    <2>1. "transport" \in Fields /\ "transport" \notin Secrets /\ row["transport"] \in {"smtp", "api"}
        BY DEF Fields, Secrets, MailInv, Rows, RowOK
    <2>2. "transport" \in DOMAIN put[s].body => put[s].body["transport"] \in {"smtp", "api"}
        BY <1>1, BodiesAssumption
    <2> QED BY <2>1, <2>2, CommitWrites
<1>6. \A f \in Secrets : row'[f] \in {row[f], key} /\ row[f] \in EncKeys \cup {None}
    <2> SUFFICES ASSUME NEW f \in Secrets
                 PROVE  row'[f] \in {row[f], key} /\ row[f] \in EncKeys \cup {None}
        OBVIOUS
    <2>1. f \in Fields /\ row[f] \in EncKeys \cup {None}
        BY DEF Fields, MailInv, Rows, RowOK
    <2> QED BY <2>1, CommitWrites
<1>7. row' \in Rows
    <2>1. key \in EncKeys
        BY DEF MailInv
    <2>2. RowOK(row')
        BY <1>4, <1>5, <1>6, <2>1 DEF RowOK
    <2>3. \A f \in Fields : row'[f] \in BOOLEAN \cup {"smtp", "api"} \cup EncKeys \cup {None}
        BY <2>2 DEF RowOK, Fields
    <2> QED BY <1>2, <2>2, <2>3 DEF Rows
<1>8. \A t \in Slots : put'[t].step # "commit"
    BY <1>3, NoPutIsIdle DEF Commit, MailInv
<1>9. ~rotated => Legible(row') /\ \A t \in Slots : Legible(put'[t].copy)
    BY <1>3, <1>6, DefaultsTyped, NoPutIsIdle DEF MailInv, Legible
<1>10. \A t \in Slots : put'[t] # NoPut /\ ~put'[t].found => put'[t].copy = Defaults
    BY <1>3 DEF MailInv
<1> QED BY <1>2, <1>3, <1>7, <1>8, <1>9, <1>10 DEF MailInv, Legible

LEMMA RotateInv ==
    ASSUME MailInv, NEW k \in EncKeys, Rotate(k)
    PROVE  MailInv'
<1>1. /\ put' = [s \in Slots |-> NoPut] /\ key' = k /\ UNCHANGED <<exists, row>>
      /\ rotated' \in BOOLEAN
    BY DEF Rotate, MailInv
<1>2. ~rotated' => Legible(row)'
    BY DEF Rotate, MailInv, Legible
<1>3. \A s \in Slots : Legible(put[s].copy)'
    BY <1>1, DefaultsTyped, NoPutIsIdle DEF Legible
<1> QED BY <1>1, <1>2, <1>3, NoPutIsIdle DEF MailInv

LEMMA MailNextInv == MailInv /\ [MailNext]_mailVars => MailInv'
<1> SUFFICES ASSUME MailInv, [MailNext]_mailVars PROVE MailInv'
    OBVIOUS
<1>1. ASSUME NEW s \in Slots, Flush(s) PROVE MailInv'
    BY <1>1, FlushInv
<1>2. ASSUME NEW s \in Slots, Commit(s) PROVE MailInv'
    BY <1>2, CommitInv
<1>3. ASSUME NEW s \in Slots, NEW body \in Bodies, Read(s, body) PROVE MailInv'
    BY <1>3, ReadInv
<1>4. ASSUME NEW k \in EncKeys, Rotate(k) PROVE MailInv'
    BY <1>4, RotateInv
<1>5. CASE UNCHANGED mailVars
    BY <1>5 DEF mailVars, MailInv, Legible
<1> QED BY <1>1, <1>2, <1>3, <1>4, <1>5 DEF MailNext

LEMMA AlwaysMailInv == MailSpec => []MailInv
BY MailInitInv, MailNextInv, PTL DEF MailSpec

-----------------------------------------------------------------------------
(* Under one key every secret stays legible, in the row and in the copies  *)
(* that requests have of it, so no link is lost (core/email.py:25-42).     *)
THEOREM LinksReachTheirMail == MailSpec => []LinkLostOnlyAfterRotation
<1>1. MailInv => LinkLostOnlyAfterRotation
    BY DEF MailInv, Legible, LinkLostOnlyAfterRotation, Fate, Decrypts, Unreadable
<1> QED BY <1>1, AlwaysMailInv, PTL

(* No two requests undo each other's columns: the row is not locked when   *)
(* it is read, but only one request is past its flush at a time, an UPDATE *)
(* sets what its body names, and an INSERT succeeds only while there is no *)
(* row (crud/smtp_settings.py:21-40).                                      *)
THEOREM PutsAlwaysMerge == MailSpec => PutsMerge
<1> DEFINE Merges(s) ==
       LET p == put[s]
       IN  \A f \in Fields :
              IF f \notin DOMAIN p.body THEN row'[f] = row[f]
              ELSE IF f \in Secrets THEN row'[f] = key
              ELSE \/ row'[f] = p.body[f]
                   \/ row'[f] = row[f] /\ p.body[f] = p.copy[f] /\ row[f] # p.copy[f]
<1>1. ASSUME MailInv, NEW s \in Slots, Commit(s) PROVE Merges(s)
    BY <1>1, CommitWrites
<1>2. MailInv /\ [MailNext]_mailVars => [\A s \in Slots : Commit(s) => Merges(s)]_mailVars
    BY <1>1
<1> QED BY <1>2, AlwaysMailInv, PTL DEF MailSpec, PutsMerge

LEMMA OnlyCommitsRepair ==
    ASSUME MailInv, [MailNext]_mailVars, Unreadable \ Unreadable' # {}, key' = key
    PROVE  \E s \in Slots : Commit(s) /\ Unreadable \ Unreadable' \subseteq DOMAIN put[s].body
<1>1. row' # row
    BY DEF Unreadable
<1>2. PICK s \in Slots : Commit(s)
    BY <1>1 DEF MailNext, mailVars, Read, Flush, Rotate
<1>3. ASSUME NEW f \in Unreadable \ Unreadable' PROVE f \in DOMAIN put[s].body
    <2>1. f \in Fields /\ row'[f] # row[f]
        BY DEF Unreadable, Fields
    <2> QED BY <1>2, <2>1, CommitWrites
<1> QED BY <1>2, <1>3

(* Mail is handed over again only when every secret that the old key       *)
(* encrypted has been typed in again (core/email.py:25-42,                 *)
(* crud/smtp_settings.py:41-49).                                           *)
THEOREM RepairsTakeEverySecret == MailSpec => RepairTakesEverySecret
<1>1. Unreadable # {} => Fate(FALSE) # "handed over"
    BY DEF Fate, Decrypts
<1>2. MailInv /\ [MailNext]_mailVars =>
        [/\ Unreadable # {} => Fate(FALSE) # "handed over"
         /\ Unreadable \ Unreadable' # {} /\ key' = key =>
               \E s \in Slots : /\ put[s].step = "commit"
                                /\ Unreadable \ Unreadable' \subseteq DOMAIN put[s].body
        ]_mailVars
    BY <1>1, OnlyCommitsRepair DEF Commit
<1> QED BY <1>2, AlwaysMailInv, PTL DEF MailSpec, RepairTakesEverySecret

-----------------------------------------------------------------------------
(* A session that is about to write an address has it for itself: no other *)
(* row has it, and no other session is about to write it.                  *)
WritesAlone(s) ==
    Writes(s) =>
        /\ Finds(req[s].to) \subseteq {req[s].user}
        /\ \A t \in Sessions \ {s} : Writes(t) => req[t].to # req[s].to

(* What a request without a race still knows: its user has the address as  *)
(* it was read, and nobody has the one that it found free.                 *)
AsAlone(r) ==
    r # Idle /\ ~r.raced =>
        /\ r.user # Unborn => email[r.user] \in {r.copy, Gone}
        /\ r.step \in {"row", "index"} => Finds(r.to) = {}
        /\ r.step = "look" => r.to # r.copy

NoCopy(s) == req[s] # Idle /\ Registers(s) => req[s].copy = Unborn

AddressesInv ==
    /\ OneAddressOneUser
    /\ \A u \in Users : email[u] = FirstAddress => u \in firsts
    /\ roles \subseteq firsts
    /\ \A s \in Sessions : WritesAlone(s) /\ NoCopy(s) /\ AsAlone(req[s])

Inv == AddressesTypeOK /\ AddressesInv

Open == [step : {"look", "row", "index", "commit"}, to : Address,
         user : Users \cup {Unborn}, copy : Address \cup {Unborn}, raced : BOOLEAN]

LEMMA FirstIsAddress == FirstAddress \in Address
BY AddressesAssumption DEF FirstAddress, Address

LEMMA NotIdle == Idle \notin Open
BY DEF Idle, Open

LEMMA OpenRequest ==
    ASSUME AddressesTypeOK, NEW s \in Sessions, req[s] # Idle
    PROVE  req[s] \in Open
BY DEF AddressesTypeOK, Requests, Open

LEMMA WritesTyped ==
    ASSUME AddressesTypeOK, NEW s \in Sessions, Writes(s)
    PROVE  req[s] \in Open /\ req[s] # Idle
<1>1. req[s] # Idle
    BY DEF Writes, Idle
<1> QED BY <1>1, OpenRequest

(* A step that leaves the rows alone, touches one session and gives no     *)
(* session anything to write keeps the invariant.                          *)
LEMMA QuietStep ==
    ASSUME Inv, NEW s \in Sessions, NEW r \in Requests,
           r.step = "row" => r.user \in Users,
           r # Idle /\ r.user = Unborn => r.copy = Unborn,
           ~(r.step = "commit" /\ r.to # r.copy), AsAlone(r),
           req' = [req EXCEPT ![s] = r],
           UNCHANGED <<email, roles, firsts>>
    PROVE  Inv'
<1>1. req'[s] = r /\ \A t \in Sessions \ {s} : req'[t] = req[t]
    BY DEF Inv, AddressesTypeOK
<1>2. AddressesTypeOK'
    BY <1>1 DEF Inv, AddressesTypeOK
<1>3. ~Writes(s)' /\ \A t \in Sessions \ {s} : Writes(t)' = Writes(t)
    BY <1>1 DEF Writes
<1>4. \A a : Finds(a)' = Finds(a)
    BY DEF Finds, Stored
<1>5. ASSUME NEW t \in Sessions PROVE WritesAlone(t)' /\ NoCopy(t)'
    <2>1. CASE t = s
        BY <1>1, <1>3, <2>1 DEF WritesAlone, NoCopy, Registers, Idle
    <2>2. CASE t # s
        BY <1>1, <1>3, <1>4, <2>2 DEF WritesAlone, NoCopy, Registers, Idle, Inv, AddressesInv
    <2> QED BY <2>1, <2>2
<1>6. OneAddressOneUser' /\ (roles \subseteq firsts)'
    BY DEF OneAddressOneUser, Stored, Inv, AddressesInv
<1>7. \A t \in Sessions : AsAlone(req[t])'
    BY <1>1, <1>4 DEF AsAlone, Inv, AddressesInv
<1> QED BY <1>2, <1>5, <1>6, <1>7 DEF Inv, AddressesInv, FirstAddress

LEMMA InitInv == AddressesInit => Inv
<1> SUFFICES ASSUME AddressesInit PROVE Inv
    OBVIOUS
<1>1. AddressesTypeOK
    BY DEF AddressesInit, AddressesTypeOK, Requests, Idle
<1>2. Stored = {} /\ \A u \in Users : email[u] # FirstAddress
    BY FirstIsAddress, AddressesAssumption DEF AddressesInit, Stored
<1>3. \A s \in Sessions : WritesAlone(s) /\ NoCopy(s) /\ AsAlone(req[s])
    BY DEF AddressesInit, WritesAlone, NoCopy, AsAlone, Writes, Idle
<1> QED BY <1>1, <1>2, <1>3
        DEF Inv, AddressesInv, OneAddressOneUser, AddressesInit

LEMMA EndInv ==
    ASSUME Inv, NEW s \in Sessions, End(s), UNCHANGED <<email, roles, firsts>>
    PROVE  Inv'
<1>1. Idle \in Requests /\ Idle.step = "idle"
    BY DEF Idle, Requests
<1>2. AsAlone(Idle)
    BY DEF AsAlone
<1> QED BY <1>1, <1>2, QuietStep DEF End

LEMMA StepInv ==
    ASSUME Inv, NEW s \in Sessions, NEW step \in {"row", "index"}, req[s] # Idle,
           step = "row" => ~Registers(s),
           req[s].step = "look" => Finds(req[s].to) = {},
           req[s].step \in {"look", "row"},
           Step(s, step), UNCHANGED <<email, roles, firsts>>
    PROVE  Inv'
<1> DEFINE r == [req[s] EXCEPT !.step = step]
<1>1. req[s] \in Open
    BY OpenRequest DEF Inv
<1>2. r \in Open /\ r.step = step /\ r.user = req[s].user /\ r.copy = req[s].copy
      /\ r.to = req[s].to /\ r.raced = req[s].raced
    BY <1>1 DEF Open
<1>3. req' = [req EXCEPT ![s] = r]
    BY DEF Step
<1>4. r \in Requests
    BY <1>2 DEF Open, Requests
<1>5. r.step = "row" => r.user \in Users
    BY <1>1, <1>2 DEF Registers, Open
<1>6. r.user = Unborn => r.copy = Unborn
    BY <1>2 DEF Inv, AddressesInv, NoCopy, Registers
<1> HIDE DEF r
<1>7. AsAlone(r)
    <2>1. AsAlone(req[s])
        BY DEF Inv, AddressesInv
    <2> QED BY <1>2, <2>1 DEF AsAlone
<1> QED BY <1>2, <1>3, <1>4, <1>5, <1>6, <1>7, QuietStep

LEMMA RegisterInv ==
    ASSUME Inv, NEW s \in Sessions, NEW to \in Address, Register(s, to)
    PROVE  Inv'
<1> DEFINE r == [step |-> "look", to |-> to, user |-> Unborn, copy |-> Unborn,
                 raced |-> FALSE]
<1>1. r \in Requests
    BY DEF Requests
<1>2. req' = [req EXCEPT ![s] = r] /\ UNCHANGED <<email, roles, firsts>>
    BY DEF Register
<1>3. AsAlone(r)
    BY AddressesAssumption DEF AsAlone
<1> QED BY <1>1, <1>2, <1>3, QuietStep

LEMMA ChangeEmailInv ==
    ASSUME Inv, NEW s \in Sessions, NEW u \in Users, NEW to \in Address,
           ChangeEmail(s, u, to)
    PROVE  Inv'
<1> DEFINE r == [step |-> IF to = email[u] THEN "commit" ELSE "look",
                 to |-> to, user |-> u, copy |-> email[u], raced |-> FALSE]
<1>1. email[u] \in Address
    BY DEF ChangeEmail, Stored
<1>2. r \in Requests
    BY <1>1 DEF Requests
<1>3. req' = [req EXCEPT ![s] = r] /\ UNCHANGED <<email, roles, firsts>>
    BY DEF ChangeEmail
<1>4. r.user # Unborn
    BY AddressesAssumption
<1>5. ~(r.step = "commit" /\ r.to # r.copy) /\ r.step # "row"
    OBVIOUS
<1>6. AsAlone(r)
    BY DEF AsAlone
<1> HIDE DEF r
<1> QED BY <1>2, <1>3, <1>4, <1>5, <1>6, QuietStep

(* The wait for the index, and its refusal, are what gives a session its   *)
(* address for itself.                                                     *)
LEMMA EnterIndexInv ==
    ASSUME Inv, NEW s \in Sessions, EnterIndex(s)
    PROVE  Inv'
<1>1. req[s] # Idle
    BY DEF EnterIndex, Idle
<1>2. req[s] \in Open
    BY <1>1, OpenRequest DEF Inv
<1>3. /\ req'[s] = [req[s] EXCEPT !.step = "commit"]
      /\ \A t \in Sessions \ {s} : req'[t] = req[t]
      /\ req' \in [Sessions -> Requests]
    BY <1>2 DEF EnterIndex, Step, Inv, AddressesTypeOK, Requests, Open
<1>4. /\ req'[s] \in Open /\ req'[s].step = "commit"
      /\ req'[s].to = req[s].to /\ req'[s].user = req[s].user /\ req'[s].copy = req[s].copy
      /\ req'[s].raced = req[s].raced
    BY <1>2, <1>3 DEF Open
<1>5. UNCHANGED <<email, roles, firsts>>
    BY DEF EnterIndex
<1>6. AddressesTypeOK'
    BY <1>3, <1>4, <1>5 DEF Inv, AddressesTypeOK
<1>7. \A a : Finds(a)' = Finds(a)
    BY <1>5 DEF Finds, Stored
<1>8. \A t \in Sessions \ {s} : Writes(t)' = Writes(t) /\ (Writes(t) => req[t].to # req[s].to)
    BY <1>3 DEF EnterIndex, IndexWaits, Unsettled, Writes
<1>9. Finds(req[s].to) \subseteq {req[s].user}
    BY DEF EnterIndex, Collides
<1>10. ASSUME NEW t \in Sessions PROVE WritesAlone(t)'
    <2>1. CASE t = s
        BY <1>3, <1>4, <1>7, <1>8, <1>9, <2>1 DEF WritesAlone
    <2>2. CASE t # s
        <3>1. req'[t] = req[t] /\ Writes(t)' = Writes(t) /\ WritesAlone(t)
            BY <1>3, <1>8, <2>2 DEF Inv, AddressesInv
        <3>2. ASSUME Writes(t), NEW o \in Sessions \ {t}, Writes(o)'
              PROVE  req'[o].to # req[t].to
            <4>1. CASE o = s
                BY <1>4, <1>8, <2>2, <3>2, <4>1
            <4>2. CASE o # s
                BY <1>3, <1>8, <3>1, <3>2, <4>2 DEF WritesAlone
            <4> QED BY <4>1, <4>2
        <3>3. Writes(t) => Finds(req[t].to)' \subseteq {req'[t].user}
            BY <1>7, <3>1 DEF WritesAlone
        <3> QED BY <3>1, <3>2, <3>3 DEF WritesAlone
    <2> QED BY <2>1, <2>2
<1>11. ASSUME NEW t \in Sessions PROVE NoCopy(t)'
    BY <1>1, <1>3, <1>4 DEF NoCopy, Registers, Idle, Inv, AddressesInv
<1>12. OneAddressOneUser' /\ (roles \subseteq firsts)'
    BY <1>5 DEF OneAddressOneUser, Stored, Inv, AddressesInv
<1>13. ASSUME NEW t \in Sessions PROVE AsAlone(req[t])'
    <2>1. AsAlone(req[t])
        BY DEF Inv, AddressesInv
    <2> QED BY <1>1, <1>3, <1>4, <1>5, <1>7, <2>1 DEF AsAlone
<1> QED BY <1>5, <1>6, <1>10, <1>11, <1>12, <1>13 DEF Inv, AddressesInv, FirstAddress

(* One row gets the address that the session had for itself.               *)
LEMMA AssignInv ==
    ASSUME Inv, NEW s \in Sessions, Writes(s), NEW u \in Users,
           IF Registers(s) THEN email[u] = Unborn ELSE u = req[s].user,
           Assign(s, u, req[s].to)
    PROVE  Inv'
<1> DEFINE a == req[s].to
<1>1. req[s] \in Open /\ a \in Address
    BY WritesTyped DEF Inv, Open
<1>2. /\ email'[u] = a
      /\ \A v \in Users \ {u} : email'[v] = email[v]
      /\ email' \in [Users -> Address \cup {Unborn, Gone}]
    BY <1>1 DEF Assign, Inv, AddressesTypeOK
<1>3. /\ req'[s] = Idle
      /\ \A t \in Sessions \ {s} :
            req'[t] = IF Races(t, u, a) THEN [req[t] EXCEPT !.raced = TRUE] ELSE req[t]
    BY DEF Assign
<1>11. \A t \in Sessions \ {s} :
          /\ req'[t] = Idle <=> req[t] = Idle
          /\ req[t] = Idle => req'[t] = Idle /\ ~Races(t, u, a)
          /\ req[t] # Idle =>
                /\ req'[t] \in Open /\ req'[t].step = req[t].step /\ req'[t].to = req[t].to
                /\ req'[t].user = req[t].user /\ req'[t].copy = req[t].copy
                /\ ~req'[t].raced => ~req[t].raced /\ req[t].user # u /\ req[t].to # a
    <2> SUFFICES ASSUME NEW t \in Sessions \ {s}, req[t] # Idle
                 PROVE  /\ req'[t] \in Open /\ req'[t].step = req[t].step
                        /\ req'[t].to = req[t].to /\ req'[t] # Idle
                        /\ req'[t].user = req[t].user /\ req'[t].copy = req[t].copy
                        /\ ~req'[t].raced => ~req[t].raced /\ req[t].user # u /\ req[t].to # a
        BY <1>3 DEF Races
    <2>1. req[t] \in Open
        BY OpenRequest DEF Inv
    <2>2. CASE Races(t, u, a)
        <3>1. req'[t] = [req[t] EXCEPT !.raced = TRUE]
            BY <1>3, <2>2
        <3>2. /\ req'[t] \in Open /\ req'[t].step = req[t].step /\ req'[t].to = req[t].to
              /\ req'[t].user = req[t].user /\ req'[t].copy = req[t].copy
              /\ req'[t].raced = TRUE
            BY <2>1, <3>1 DEF Open
        <3> QED BY <3>2, NotIdle
    <2>3. CASE ~Races(t, u, a)
        BY <1>3, <2>1, <2>3 DEF Races
    <2> QED BY <2>2, <2>3
<1>12. req' \in [Sessions -> Requests]
    <2>1. \A t \in Sessions : req'[t] \in Requests
        BY <1>3, <1>11 DEF Requests, Open
    <2> QED BY <2>1 DEF Assign
<1>4. firsts' = (IF a = FirstAddress THEN firsts \cup {u} ELSE firsts) /\ roles' = roles
    BY DEF Assign
<1>5. AddressesTypeOK'
    <2>1. \A t \in Sessions : req'[t].step = "row" => req'[t].user \in Users
        BY <1>3, <1>11 DEF Inv, AddressesTypeOK, Idle
    <2> QED BY <1>2, <1>4, <1>12, <2>1 DEF Inv, AddressesTypeOK
<1>6. \A v \in Users : email[v] = a => v = u
    <2>1. Finds(a) \subseteq {req[s].user}
        BY DEF Inv, AddressesInv, WritesAlone
    <2>2. ASSUME NEW v \in Users, email[v] = a PROVE v = req[s].user
        BY <1>1, <2>1, <2>2 DEF Finds, Stored
    <2> QED BY <2>2, AddressesAssumption DEF Registers
<1>7. OneAddressOneUser'
    BY <1>2, <1>6 DEF OneAddressOneUser, Stored, Inv, AddressesInv
<1>8. \A v \in Users : email'[v] = FirstAddress => v \in firsts'
    BY <1>2, <1>4 DEF Inv, AddressesInv
<1>9. (roles \subseteq firsts)'
    BY <1>4 DEF Inv, AddressesInv
<1>10. ASSUME NEW t \in Sessions PROVE WritesAlone(t)' /\ NoCopy(t)'
    <2>1. CASE t = s
        BY <1>3, <2>1 DEF WritesAlone, NoCopy, Writes, Idle
    <2>2. CASE t # s
        <3>1. /\ Writes(t)' = Writes(t) /\ NoCopy(t)
              /\ Writes(t) => req'[t].to = req[t].to /\ req'[t].user = req[t].user
            BY <1>3, <1>11, <2>2 DEF Writes, Idle, Inv, AddressesInv
        <3>2. ASSUME Writes(t) PROVE req[t].to # a /\ Finds(req[t].to)' \subseteq Finds(req[t].to)
            <4>1. req[t].to # a
                BY <2>2, <3>2 DEF Inv, AddressesInv, WritesAlone
            <4> QED BY <1>2, <3>1, <3>2, <4>1 DEF Finds, Stored
        <3>3. \A o \in Sessions \ {t} : Writes(o)' => Writes(o) /\ req'[o].to = req[o].to
            BY <1>3, <1>11 DEF Writes, Idle
        <3>4. WritesAlone(t) /\ (Writes(t) => req[t] # Idle)
            BY DEF Writes, Idle, Inv, AddressesInv
        <3>5. WritesAlone(t)'
            BY <3>1, <3>2, <3>3, <3>4 DEF WritesAlone
        <3>6. NoCopy(t)'
            BY <1>11, <2>2, <3>1 DEF NoCopy, Registers
        <3> QED BY <3>5, <3>6
    <2> QED BY <2>1, <2>2
<1>13. ASSUME NEW t \in Sessions PROVE AsAlone(req[t])'
    <2>1. CASE t = s \/ req[t] = Idle
        BY <1>3, <1>11, <2>1 DEF AsAlone
    <2>2. CASE t # s /\ req[t] # Idle
        <3>1. AsAlone(req[t]) /\ req[t] \in Open
            BY <2>2, OpenRequest DEF Inv, AddressesInv
        <3>2. req[t].to # a => Finds(req[t].to)' \subseteq Finds(req[t].to)
            BY <1>2, <1>11, <2>2 DEF Finds, Stored
        <3>3. req[t].user # u /\ req[t].user # Unborn => email'[req[t].user] = email[req[t].user]
            BY <1>2, <3>1 DEF Open
        <3> QED BY <1>11, <2>2, <3>1, <3>2, <3>3 DEF AsAlone
    <2> QED BY <2>1, <2>2
<1> QED BY <1>5, <1>7, <1>8, <1>9, <1>10, <1>13 DEF Inv, AddressesInv, FirstAddress

LEMMA RemoveInv ==
    ASSUME Inv, NEW u \in Users, Remove(u)
    PROVE  Inv'
<1>1. /\ email'[u] = Gone
      /\ \A v \in Users \ {u} : email'[v] = email[v]
      /\ email' \in [Users -> Address \cup {Unborn, Gone}]
    BY DEF Remove, Inv, AddressesTypeOK
<1>2. roles' = roles \ {u} /\ UNCHANGED <<req, firsts>>
    BY DEF Remove
<1>3. AddressesTypeOK'
    BY <1>1, <1>2 DEF Inv, AddressesTypeOK
<1>4. Gone \notin Address
    BY AddressesAssumption
<1>5. OneAddressOneUser'
    BY <1>1, <1>4 DEF OneAddressOneUser, Stored, Inv, AddressesInv
<1>6. \A v \in Users : email'[v] = FirstAddress => v \in firsts'
    BY <1>1, <1>2, <1>4, FirstIsAddress DEF Inv, AddressesInv
<1>7. (roles \subseteq firsts)'
    BY <1>2 DEF Inv, AddressesInv
<1>8. \A a : Finds(a)' \subseteq Finds(a)
    BY <1>1, <1>4 DEF Finds, Stored
<1>9. \A s \in Sessions : WritesAlone(s)' /\ NoCopy(s)'
    BY <1>2, <1>8 DEF WritesAlone, NoCopy, Writes, Registers, Inv, AddressesInv
<1>10. ASSUME NEW s \in Sessions PROVE AsAlone(req[s])'
    <2>1. AsAlone(req[s])
        BY DEF Inv, AddressesInv
    <2>2. CASE req[s] = Idle
        BY <1>2, <2>2 DEF AsAlone
    <2>3. CASE req[s] # Idle
        <3>1. req[s] \in Open
            BY <2>3, OpenRequest DEF Inv
        <3>2. req[s].user # Unborn =>
                  email'[req[s].user] \in {email[req[s].user], Gone}
            BY <1>1, <3>1 DEF Open
        <3> QED BY <1>2, <1>8, <2>1, <3>2 DEF AsAlone
    <2> QED BY <2>2, <2>3
<1> QED BY <1>3, <1>5, <1>6, <1>7, <1>9, <1>10 DEF Inv, AddressesInv, FirstAddress

LEMMA RestartInv ==
    ASSUME Inv, Restart
    PROVE  Inv'
<1>1. /\ \A s \in Sessions : req'[s] = Idle
      /\ req' \in [Sessions -> Requests]
      /\ UNCHANGED <<email, firsts>>
    BY DEF Restart, Requests
<1>2. Finds(FirstAddress) \subseteq firsts /\ Finds(FirstAddress) \subseteq Users
    BY DEF Finds, Stored, Inv, AddressesInv
<1>3. AddressesTypeOK'
    BY <1>1, <1>2 DEF Restart, Inv, AddressesTypeOK, Idle
<1>4. (roles \subseteq firsts)'
    BY <1>1, <1>2 DEF Restart, Inv, AddressesInv
<1>5. OneAddressOneUser'
    BY <1>1 DEF OneAddressOneUser, Stored, Inv, AddressesInv
<1>6. \A s \in Sessions : WritesAlone(s)' /\ NoCopy(s)' /\ AsAlone(req[s])'
    BY <1>1 DEF WritesAlone, NoCopy, AsAlone, Writes, Idle
<1> QED BY <1>1, <1>3, <1>4, <1>5, <1>6 DEF Inv, AddressesInv, FirstAddress

LEMMA CommitEmailInv ==
    ASSUME Inv, NEW s \in Sessions, CommitEmail(s)
    PROVE  Inv'
<1>1. CASE Writes(s)
    <2>1. PICK u \in Users :
              /\ IF Registers(s) THEN email[u] = Unborn ELSE u = req[s].user
              /\ Assign(s, u, req[s].to)
        BY <1>1 DEF CommitEmail
    <2> QED BY <1>1, <2>1, AssignInv
<1>2. CASE ~Writes(s)
    BY <1>2, EndInv DEF CommitEmail
<1> QED BY <1>1, <1>2

LEMMA NextInv == Inv /\ [AddressesNext]_addressVars => Inv'
<1> SUFFICES ASSUME Inv, [AddressesNext]_addressVars PROVE Inv'
    OBVIOUS
<1>1. ASSUME NEW s \in Sessions, NEW to \in Address, Register(s, to) PROVE Inv'
    BY <1>1, RegisterInv
<1>2. ASSUME NEW s \in Sessions, NEW to \in Address, NEW u \in Users, ChangeEmail(s, u, to)
      PROVE  Inv'
    BY <1>2, ChangeEmailInv
<1>3. ASSUME NEW s \in Sessions, LookFree(s) PROVE Inv'
    <2> DEFINE step == IF Registers(s) THEN "index" ELSE "row"
    <2>1. req[s] # Idle
        BY <1>3 DEF LookFree, Idle
    <2>2. Step(s, step) /\ UNCHANGED <<email, roles, firsts>>
        BY <1>3 DEF LookFree
    <2>3. step \in {"row", "index"} /\ (step = "row" => ~Registers(s))
        OBVIOUS
    <2>4. req[s].step = "look" /\ Finds(req[s].to) = {}
        BY <1>3 DEF LookFree
    <2> HIDE DEF step
    <2> QED BY <2>1, <2>2, <2>3, <2>4, StepInv
<1>4. ASSUME NEW s \in Sessions, LookTaken(s) PROVE Inv'
    BY <1>4, EndInv DEF LookTaken
<1>5. ASSUME NEW s \in Sessions, LockRow(s) PROVE Inv'
    <2>1. req[s] # Idle
        BY <1>5 DEF LockRow, Idle
    <2>2. ~Registers(s) /\ req[s].step = "row"
        BY <1>5, AddressesAssumption DEF LockRow, Registers, Stored
    <2> QED BY <2>2, <1>5, <2>1, StepInv DEF LockRow
<1>6. ASSUME NEW s \in Sessions, EnterIndex(s) PROVE Inv'
    BY <1>6, EnterIndexInv
<1>7. ASSUME NEW s \in Sessions, IndexRefuses(s) PROVE Inv'
    BY <1>7, EndInv DEF IndexRefuses
<1>8. ASSUME NEW s \in Sessions, CommitEmail(s) PROVE Inv'
    BY <1>8, CommitEmailInv
<1>9. ASSUME NEW s \in Sessions, Abort(s) PROVE Inv'
    BY <1>9, EndInv DEF Abort
<1>10. ASSUME NEW u \in Users, Remove(u) PROVE Inv'
    BY <1>10, RemoveInv
<1>11. CASE Restart
    BY <1>11, RestartInv
<1>12. CASE UNCHANGED addressVars
    BY <1>12 DEF addressVars, Inv, AddressesTypeOK, AddressesInv, OneAddressOneUser,
                 Stored, WritesAlone, NoCopy, AsAlone, Writes, Registers, Finds
<1> QED BY <1>1, <1>2, <1>3, <1>4, <1>5, <1>6, <1>7, <1>8, <1>9, <1>10, <1>11, <1>12
        DEF AddressesNext

LEMMA AlwaysInv == AddressesSpec => []Inv
<1> QED BY InitInv, NextInv, PTL DEF AddressesSpec

-----------------------------------------------------------------------------
(* However many requests overlap, no two users get one address: a session  *)
(* writes an address only when the index shows nobody who has it or is     *)
(* about to write it (auth.py:31-37, admin.py:87-93, models/user.py:14).   *)
THEOREM AddressHasOneUser == AddressesSpec => []OneAddressOneUser
<1>1. Inv => OneAddressOneUser
    BY DEF Inv, AddressesInv
<1> QED BY <1>1, AlwaysInv, PTL

(* Nobody gets the role at a start of the backend without having had the   *)
(* configured address exactly, and nobody who has the role loses it to     *)
(* anything but the deletion of the user: moving to another address, or    *)
(* another user's taking over the configured one, leaves it (main.py:15-37)*)
THEOREM RoleNeedsAddress == AddressesSpec => RoleFollowsAddress
<1>1. Inv => roles \subseteq firsts
    BY DEF Inv, AddressesInv
<1>2. ASSUME Inv, AddressesNext, NEW u \in roles PROVE u \in roles' \/ email'[u] = Gone
    <2>1. ASSUME NEW w \in Users, Remove(w) PROVE u \in roles' \/ email'[u] = Gone
        <3>1. CASE u = w
            BY <1>2, <2>1, <3>1 DEF Remove, Inv, AddressesTypeOK
        <3>2. CASE u # w
            BY <2>1, <3>2 DEF Remove
        <3> QED BY <3>1, <3>2
    <2>2. CASE Restart
        BY <2>2 DEF Restart
    <2>3. \/ \E w \in Users : Remove(w)
          \/ Restart
          \/ UNCHANGED roles
        BY <1>2 DEF AddressesNext, Register, ChangeEmail, LookFree, LookTaken, LockRow, EnterIndex,
                    IndexRefuses, CommitEmail, Assign, Abort
    <2> QED BY <2>1, <2>2, <2>3
<1>3. Inv /\ [AddressesNext]_addressVars =>
          [\A u \in roles : u \in roles' \/ email'[u] = Gone]_addressVars
    BY <1>2
<1>4. AddressesSpec => [](roles \subseteq firsts)
    BY <1>1, AlwaysInv, PTL
<1>5. AddressesSpec => [][\A u \in roles : u \in roles' \/ email'[u] = Gone]_addressVars
    BY <1>3, AlwaysInv, PTL DEF AddressesSpec
<1> QED BY <1>4, <1>5 DEF RoleFollowsAddress

LEMMA SuccessAsAlone ==
    ASSUME Inv, NEW s \in Sessions, ~req[s].raced, CommitEmail(s)
    PROVE  \E u \in Users : /\ email'[u] = req[s].to
                            /\ IF Registers(s) THEN email[u] = Unborn ELSE u = req[s].user
<1>1. CASE Writes(s)
    <2>1. PICK u \in Users : /\ IF Registers(s) THEN email[u] = Unborn ELSE u = req[s].user
                             /\ Assign(s, u, req[s].to)
        BY <1>1 DEF CommitEmail
    <2>2. email'[u] = req[s].to
        BY <2>1 DEF Assign, Inv, AddressesTypeOK
    <2> QED BY <2>1, <2>2
<1>2. CASE ~Writes(s)
    <2>1. req[s] # Idle
        BY DEF CommitEmail, Idle
    <2>2. req[s] \in Open /\ req[s].to = req[s].copy
        BY <1>2, <2>1, OpenRequest DEF CommitEmail, Writes, Inv
    <2>3. ~Registers(s)
        BY <2>1, <2>2, AddressesAssumption DEF Open, NoCopy, Inv, AddressesInv
    <2>4. req[s].user \in Users /\ email[req[s].user] \in Address /\ email' = email
        BY <1>2, <2>3 DEF CommitEmail, Stored
    <2>5. email[req[s].user] = req[s].copy
        BY <2>1, <2>3, <2>4, AddressesAssumption DEF AsAlone, Registers, Inv, AddressesInv
    <2> QED BY <2>2, <2>3, <2>4, <2>5
<1> QED BY <1>1, <1>2

(* However requests overlap, one whose address and whose user's address    *)
(* nobody else commits meanwhile is answered as if it were alone: what it  *)
(* looked up still holds at its flush and at its commit                    *)
(* (auth.py:31-37, admin.py:87-93, crud/base.py:36-49).                    *)
THEOREM AnswersAsAlone == AddressesSpec => AnswersAloneUnlessRaced
<1>1. ASSUME Inv, NEW s \in Sessions, req[s] # Idle, ~req[s].raced, IndexRefuses(s)
      PROVE  FALSE
    <2>1. Finds(req[s].to) = {}
        BY <1>1 DEF IndexRefuses, AsAlone, Inv, AddressesInv
    <2> QED BY <1>1, <2>1 DEF IndexRefuses, Collides
<1>2. ASSUME Inv, NEW s \in Sessions, req[s] # Idle, ~req[s].raced, LookTaken(s)
      PROVE  \E v \in Users \ {req[s].user} : email[v] = req[s].to
    <2>1. PICK v \in Users : email[v] = req[s].to
        BY <1>2 DEF LookTaken, Finds, Stored
    <2>2. req[s] \in Open
        BY <1>2, OpenRequest DEF Inv
    <2>3. v # Unborn /\ req[s].to # Gone
        BY <2>2, AddressesAssumption DEF Open
    <2>4. AsAlone(req[s]) /\ req[s].step = "look"
        BY <1>2 DEF LookTaken, Inv, AddressesInv
    <2>5. v # req[s].user
        BY <1>2, <2>1, <2>3, <2>4 DEF AsAlone
    <2> QED BY <2>1, <2>5
<1>3. Inv /\ [AddressesNext]_addressVars =>
        [\A s \in Sessions : req[s] # Idle /\ ~req[s].raced =>
          /\ ~IndexRefuses(s)
          /\ LookTaken(s) => \E v \in Users \ {req[s].user} : email[v] = req[s].to
          /\ CommitEmail(s) => \E u \in Users :
                /\ email'[u] = req[s].to
                /\ IF Registers(s) THEN email[u] = Unborn ELSE u = req[s].user
        ]_addressVars
    BY <1>1, <1>2, SuccessAsAlone
<1> QED BY <1>3, AlwaysInv, PTL DEF AddressesSpec, AnswersAloneUnlessRaced

-----------------------------------------------------------------------------
(* The two parts together.                                                 *)

LEMMA PartsInv == MCSpec => [](MailInv /\ Inv)
<1>1. MCInit => MailInv /\ Inv
    BY MailInitInv, InitInv DEF MCInit
<1>2. MailInv /\ Inv /\ [MCNext]_<<mailVars, addressVars, part>> => (MailInv /\ Inv)'
    BY MailNextInv, NextInv DEF MCNext
<1> QED BY <1>1, <1>2, PTL DEF MCSpec

(* No interleaving of requests and restarts takes a row, a copy of it or a *)
(* request out of its type: what is merged from a body and from a copy is  *)
(* a row again (crud/smtp_settings.py:21-40, auth.py, admin.py).           *)
THEOREM MailTypeCorrect == MCSpec => []MCTypeOK
<1>1. MailInv => MailTypeOK
    BY NoPutIsIdle DEF MailInv, MailTypeOK, Rows, Puts
<1>2. MailInv /\ Inv => MCTypeOK
    BY <1>1 DEF MCTypeOK, Inv
<1> QED BY <1>2, PartsInv, PTL
=============================================================================
