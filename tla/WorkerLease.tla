----------------------------- MODULE WorkerLease -----------------------------
(***************************************************************************)
(* The lease under which one of several worker processes does a job: a row *)
(* of the database with an owner and an expiry that only the database's    *)
(* clock judges.  A process claims it, works in a transaction that holds   *)
(* the row locked, and gives it back; it may crash anywhere.               *)
(*                                                                         *)
(* Source: claimWorkerLease, PostgresPersonaEphemeralWorker and            *)
(* PersonaEphemeralWorker.runOnce.  The expiry is a flag that time clears. *)
(***************************************************************************)

CONSTANTS
    Workers,  \* worker processes
    None      \* no owner

VARIABLES
    lease,    \* the row: its owner, and whether it has not expired
    worker    \* where each process is in its cycle

NoLease == [owner |-> None, valid |-> FALSE]

LeaseTypeOK ==
    /\ lease \in [owner : Workers \cup {None}, valid : BOOLEAN]
    /\ worker \in [Workers -> {"idle", "claimed", "cleaning", "leaving"}]

LeaseInit ==
    /\ lease = NoLease
    /\ worker = [w \in Workers |-> "idle"]

Cleaning == {w \in Workers : worker[w] = "cleaning"}
Goes(w, place) == worker' = [worker EXCEPT ![w] = place]

\* The variants beside the definitions are the slips that the properties are
\* checked to catch; nothing else uses them.
\* The clauses on the owner and the expiry of process().
HoldsAnyLease(w) == lease.valid
Holds(w) == lease.valid /\ lease.owner = w

\* The upsert takes a row that is absent or expired.
Claimable == lease.owner = None \/ ~lease.valid

\* The upsert waits for the transaction that has the row locked.  A claim that
\* is refused changes nothing.
Claim(w) ==
    /\ worker[w] = "idle"
    /\ Claimable /\ Cleaning = {}
    /\ lease' = [owner |-> w, valid |-> TRUE]
    /\ Goes(w, "claimed")

\* process() looks again before it does anything, and locks the row.
Begin(w) ==
    /\ worker[w] = "claimed"
    /\ Goes(w, IF Holds(w) THEN "cleaning" ELSE "leaving")
    /\ UNCHANGED lease

\* And once more before the commit.
Commit(w) ==
    /\ worker[w] = "cleaning" /\ Holds(w)
    /\ Goes(w, "leaving")
    /\ UNCHANGED lease

\* Anything that fails, the lease among it, rolls back.
Rollback(w) ==
    /\ worker[w] = "cleaning"
    /\ Goes(w, "leaving")
    /\ UNCHANGED lease

\* Only the owner's row is deleted.
Release(w) ==
    /\ worker[w] = "leaving"
    /\ lease' = IF lease.owner = w THEN NoLease ELSE lease
    /\ Goes(w, "idle")

\* The process dies and is started again: what it had not committed is gone,
\* and the row stays.
Crash(w) ==
    /\ worker[w] # "idle"
    /\ Goes(w, "idle")
    /\ UNCHANGED lease

Expire ==
    /\ lease.valid
    /\ lease' = [lease EXCEPT !.valid = FALSE]
    /\ UNCHANGED worker
=============================================================================
