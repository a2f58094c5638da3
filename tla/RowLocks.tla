------------------------------ MODULE RowLocks ------------------------------
(***************************************************************************)
(* PostgreSQL row locks, as far as the program's statements take them.     *)
(* The program declares no lock of its own outside crud/telegram.py: every *)
(* lock here is the one PostgreSQL takes for an INSERT, UPDATE or DELETE   *)
(* and keeps until COMMIT or ROLLBACK.                                     *)
(*                                                                         *)
(* A lock is a pair <<row, mode>>; holders are database sessions.          *)
(***************************************************************************)
EXTENDS Integers

(* "key share": the foreign-key check of an INSERT, on the referenced row. *)
(* "no key update": an UPDATE that leaves the primary key alone.           *)
(* "update": a DELETE.                                                     *)
Modes == {"key share", "no key update", "update"}

Conflict(m, n) ==
    IF "key share" \in {m, n} THEN "update" \in {m, n} ELSE TRUE

(* The sessions, other than s, that hold a lock incompatible with one of   *)
(* the locks in wanted[s].                                                 *)
Blockers(held, wanted, s) ==
    {o \in DOMAIN held \ {s} :
        \E w \in wanted[s], h \in held[o] :
            w[1] = h[1] /\ Conflict(w[2], h[2])}

(* deadlock_timeout: s waits, directly or through others, for itself.      *)
Deadlocked(held, wanted, s) ==
    LET Closed(set) == \A o \in set : Blockers(held, wanted, o) \subseteq set
    IN  \A reach \in SUBSET DOMAIN held :
            (Blockers(held, wanted, s) \subseteq reach /\ Closed(reach))
                => s \in reach

(* What the lock manager promises: no two sessions hold incompatible locks *)
(* on a row.                                                               *)
Compatible(held) ==
    \A s \in DOMAIN held, o \in DOMAIN held :
        s # o => \A h \in held[s], k \in held[o] :
                    h[1] = k[1] => ~Conflict(h[2], k[2])
=============================================================================
