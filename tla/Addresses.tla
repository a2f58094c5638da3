----------------------------- MODULE Addresses -----------------------------
(***************************************************************************)
(* The e-mail addresses of the users: registration, the change of an       *)
(* address by an administrator, and the bootstrap, which looks for an      *)
(* address when the backend starts.  An address is free when a SELECT does *)
(* not find it, but only the unique index of users.email decides; it makes *)
(* a statement wait for the outcome of one that holds the same address.    *)
(*                                                                         *)
(* Which rows the audit entry locks and how the pool's sessions take their *)
(* turns is in Admins; here any request may also be aborted.               *)
(***************************************************************************)
EXTENDS Integers

CONSTANTS
    Users,      \* primary keys of users, never used twice
    Sessions,   \* database sessions
    Names,      \* addresses, but for their spelling
    First,      \* the name in FIRST_SUPERUSER_EMAIL
    Unborn,     \* no row yet
    Gone        \* no row any more

(* EmailStr folds the case of the domain and keeps that of the local part. *)
Address == [name : Names, case : {"lower", "mixed"}]

Lower(a) == [a EXCEPT !.case = "lower"]

ASSUME AddressesAssumption ==
    /\ First \in Names
    /\ Unborn # Gone
    /\ {Unborn, Gone} \cap (Address \cup Users) = {}

VARIABLES
    email,      \* users.email, as committed
    roles,      \* the users whom the bootstrap made superusers
    req,        \* the request in each session
    firsts      \* history: who has had the first superuser's address

addressVars == <<email, roles, req, firsts>>

FirstAddress == [name |-> First, case |-> "lower"]

Idle == [step |-> "idle"]

(* What a request holds: the address it asks for, the user it is about     *)
(* (Unborn for a registration), and that user's address as it was read;    *)
(* raced is history: while it ran, another request gave somebody the       *)
(* address it asks for, or its user another address.                       *)
Requests == {Idle} \cup
    [step : {"look", "row", "index", "commit"}, to : Address,
     user : Users \cup {Unborn}, copy : Address \cup {Unborn}, raced : BOOLEAN]

Stored == {u \in Users : email[u] \in Address}

(* The types of the variables; a registration writes no existing row.      *)
AddressesTypeOK ==
    /\ email \in [Users -> Address \cup {Unborn, Gone}]
    /\ roles \subseteq Users
    /\ firsts \subseteq Users
    /\ req \in [Sessions -> Requests]
    /\ \A s \in Sessions : req[s].step = "row" => req[s].user \in Users

AddressesInit ==
    /\ email = [u \in Users |-> Unborn]
    /\ roles = {}
    /\ req = [s \in Sessions |-> Idle]
    /\ firsts = {}

-----------------------------------------------------------------------------
End(s) == req' = [req EXCEPT ![s] = Idle]

Step(s, step) == req' = [req EXCEPT ![s].step = step]

Registers(s) == req[s].user = Unborn

(* VARIANT of Finds (see Ledger): func.lower(User.email) == email.lower(). *)
FindsAnyCase(a) == {u \in Stored : Lower(email[u]) = Lower(a)}

(* get_by_email compares exactly.                                          *)
Finds(a) == {u \in Stored : email[u] = a}

(* POST /auth/register                                                     *)
Register(s, to) ==
    /\ req[s] = Idle
    /\ req' = [req EXCEPT ![s] =
          [step |-> "look", to |-> to, user |-> Unborn, copy |-> Unborn,
           raced |-> FALSE]]
    /\ UNCHANGED <<email, roles, firsts>>

(* PATCH /admin/users/{id} reads its user.  To ask for the address that    *)
(* the copy has skips the lookup and writes nothing.                       *)
ChangeEmail(s, u, to) ==
    /\ req[s] = Idle
    /\ u \in Stored
    /\ req' = [req EXCEPT ![s] =
          [step |-> IF to = email[u] THEN "commit" ELSE "look",
           to |-> to, user |-> u, copy |-> email[u], raced |-> FALSE]]
    /\ UNCHANGED <<email, roles, firsts>>

LookFree(s) ==
    /\ req[s].step = "look"
    /\ Finds(req[s].to) = {}
    /\ Step(s, IF Registers(s) THEN "index" ELSE "row")
    /\ UNCHANGED <<email, roles, firsts>>

(* 400 "Email already registered"                                          *)
LookTaken(s) ==
    /\ req[s].step = "look"
    /\ Finds(req[s].to) # {}
    /\ End(s)
    /\ UNCHANGED <<email, roles, firsts>>

Writes(s) == req[s].step = "commit" /\ req[s].to # req[s].copy

HasRow(s) == ~Registers(s) /\ (req[s].step = "index" \/ Writes(s))

RowHeld(u) == \E s \in Sessions : req[s] # Idle /\ HasRow(s) /\ req[s].user = u

(* The UPDATE locks its row; it may have to wait for another's.            *)
LockRow(s) ==
    /\ req[s].step = "row"
    /\ req[s].user \in Stored
    /\ ~RowHeld(req[s].user)
    /\ Step(s, "index")
    /\ UNCHANGED <<email, roles, firsts>>

(* The addresses whose fate depends on what becomes of session t.          *)
Unsettled(t) ==
    (IF req[t] # Idle /\ HasRow(t) THEN {email[req[t].user]} ELSE {})
    \cup (IF Writes(t) THEN {req[t].to} ELSE {})

(* VARIANT of IndexWaits: the index does not look at open transactions.    *)
IndexIgnores(s) == FALSE

IndexWaits(s) == \E t \in Sessions \ {s} : req[s].to \in Unsettled(t)

(* VARIANT of Collides: the INSERT or UPDATE is refused whenever the index *)
(* had to wait.                                                            *)
CollidesAlways(s) ==
    \E t \in Sessions \ {s} : req[t] # Idle /\ req[t].to = req[s].to

(* Another row has the address.                                            *)
Collides(s) == Finds(req[s].to) \ {req[s].user} # {}

(* The INSERT, or the rest of the UPDATE.                                  *)
EnterIndex(s) ==
    /\ req[s].step = "index"
    /\ ~IndexWaits(s)
    /\ ~Collides(s)
    /\ Step(s, "commit")
    /\ UNCHANGED <<email, roles, firsts>>

(* The unique index refuses: IntegrityError, a 500.                        *)
IndexRefuses(s) ==
    /\ req[s].step = "index"
    /\ ~IndexWaits(s)
    /\ Collides(s)
    /\ End(s)
    /\ UNCHANGED <<email, roles, firsts>>

Races(t, u, a) == req[t] # Idle /\ (req[t].user = u \/ req[t].to = a)

Assign(s, u, a) ==
    /\ email' = [email EXCEPT ![u] = a]
    /\ firsts' = IF a = FirstAddress THEN firsts \cup {u} ELSE firsts
    /\ req' = [t \in Sessions |->
          IF t = s THEN Idle
          ELSE IF Races(t, u, a) THEN [req[t] EXCEPT !.raced = TRUE] ELSE req[t]]
    /\ UNCHANGED roles

CommitEmail(s) ==
    /\ req[s].step = "commit"
    /\ Registers(s) \/ req[s].user \in Stored
    /\ IF Writes(s)
       THEN \E u \in Users :
               /\ IF Registers(s) THEN email[u] = Unborn ELSE u = req[s].user
               /\ Assign(s, u, req[s].to)
       ELSE End(s) /\ UNCHANGED <<email, roles, firsts>>

(* The user has been deleted (StaleDataError), the session was chosen as   *)
(* the victim of a deadlock, or its connection has gone.                   *)
Abort(s) ==
    /\ req[s] # Idle
    /\ End(s)
    /\ UNCHANGED <<email, roles, firsts>>

(* DELETE /admin/users/{id}                                                *)
Remove(u) ==
    /\ u \in Stored
    /\ ~RowHeld(u)
    /\ email' = [email EXCEPT ![u] = Gone]
    /\ roles' = roles \ {u}
    /\ UNCHANGED <<req, firsts>>

(* The backend starts: _bootstrap_superuser.                               *)
Restart ==
    /\ req' = [s \in Sessions |-> Idle]
    /\ roles' = roles \cup Finds(FirstAddress)
    /\ UNCHANGED <<email, firsts>>

AddressesNext ==
    \/ \E s \in Sessions :
          \/ \E to \in Address :
                Register(s, to) \/ \E u \in Users : ChangeEmail(s, u, to)
          \/ LookFree(s) \/ LookTaken(s) \/ LockRow(s)
          \/ EnterIndex(s) \/ IndexRefuses(s) \/ CommitEmail(s) \/ Abort(s)
    \/ \E u \in Users : Remove(u)
    \/ Restart

AddressesSpec == AddressesInit /\ [][AddressesNext]_addressVars

-----------------------------------------------------------------------------
(* However registrations and changes overlap, no two rows get one address, *)
(* though each was found free: one of the requests waits for the other and *)
(* fails if the other commits (auth.py:31-37, admin.py:87-93,              *)
(* models/user.py:14).                                                     *)
OneAddressOneUser ==
    \A u, v \in Stored : email[u] = email[v] => u = v

(* A request is answered as it would be alone, unless another commits the *)
(* address it asks for, or an address of its user, while it runs.  Without *)
(* such a race no unique index ever refuses (a 500), a 400 tells of        *)
(* somebody else's address, and a success has stored the address for its   *)
(* user.  In a race an administrator may be refused the address that the   *)
(* user has just got, or be told of a success when the user has another    *)
(* (auth.py:31-37, admin.py:87-93, crud/base.py:36-49).                    *)
AnswersAloneUnlessRaced ==
    [][\A s \in Sessions : req[s] # Idle /\ ~req[s].raced =>
          /\ ~IndexRefuses(s)
          /\ LookTaken(s) => \E v \in Users \ {req[s].user} : email[v] = req[s].to
          /\ CommitEmail(s) => \E u \in Users :
                /\ email'[u] = req[s].to
                /\ IF Registers(s) THEN email[u] = Unborn ELSE u = req[s].user
      ]_addressVars

(* The role of the first superuser follows the exact address: a user who   *)
(* has only ever had another spelling of it gets no role at any start of   *)
(* the backend.  Once got, it stays: a user who moves to another address,  *)
(* or whose address another user takes over, keeps the role as long as     *)
(* there is a row for it (main.py:15-37).                                  *)
RoleFollowsAddress ==
    /\ [](roles \subseteq firsts)
    /\ [][\A u \in roles : u \in roles' \/ email'[u] = Gone]_addressVars
=============================================================================
