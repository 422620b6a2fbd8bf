---------------------------- MODULE VaultRotation ----------------------------
(***************************************************************************)
(* Rotation of the vault's key: an operator's session rewraps every        *)
(* encrypted row under a new key, batch by batch, while servers go on      *)
(* writing and may be restarted, and the session itself may be cut off and *)
(* resumed.                                                                *)
(*                                                                         *)
(* Source: PersonaVaultRotation.run, PostgresPersonaVaultRotationStore,    *)
(* the triggers and functions of migrations 0030 and 0031 and the startup  *)
(* check of the keyring.                                                   *)
(*                                                                         *)
(* A row is its place and the key it is encrypted under: what it holds is  *)
(* compared in memory before and after by the command and is not modelled, *)
(* and neither are the tags that bind a key ID to its material, so a key   *)
(* is its ID and its material in one.                                      *)
(***************************************************************************)
EXTENDS Naturals, Sequences, FiniteSets, FiniteSetsExt

CONSTANTS
    Keys,          \* encryption keys
    NoKey,         \* no key: an absent row, or no key activated yet
    Sizes,         \* the number of row keys of each vault target, in order
    BatchSize,     \* rows of a batch
    Servers,       \* processes that write: servers and workers
    MaxRuns,       \* bound on the rotations explored
    MaxInterrupts  \* bound on the times a session is cut off

ASSUME NoKeyAssumption == NoKey \notin Keys
ASSUME SizesAssumption ==
    /\ Sizes \in Seq(Nat) /\ BatchSize \in Nat \ {0}
    /\ MaxRuns \in Nat /\ MaxInterrupts \in Nat

VARIABLES
    active,      \* persona_vault_active_key_v2
    rows,        \* the key of every committed row
    runs,        \* persona_vault_rotation_v2, oldest first
    session,     \* the operator's session, which holds the advisory lock
    server,      \* each process: its current key and its keyring
    tx,          \* each process: the uncommitted write it has in flight
    interrupts

rotationVars == <<active, rows, runs, session, server, tx, interrupts>>

Tables == Len(Sizes)
Places == UNION {{n} \X (1..Sizes[n]) : n \in 1..Tables}
Run == [key : Keys, required : SUBSET Keys, status : {"running", "completed"},
        table : 1..(Tables + 1), cursor : Nat]
NoSession == [at |-> "closed", key |-> NoKey, ring |-> {}, resume |-> FALSE]
NoWrite == [row |-> <<0, 0>>, key |-> NoKey]
Down == [up |-> FALSE, key |-> NoKey, ring |-> {}, since |-> 0]

RotationTypeOK ==
    /\ active \in Keys \cup {NoKey}
    /\ rows \in [Places -> Keys \cup {NoKey}]
    /\ runs \in Seq(Run) /\ Len(runs) <= MaxRuns
    /\ session \in [at : {"closed", "start", "batch", "final", "complete"},
                    key : Keys \cup {NoKey}, ring : SUBSET Keys,
                    resume : BOOLEAN]
    /\ server \in [Servers -> [up : BOOLEAN, key : Keys \cup {NoKey},
                               ring : SUBSET Keys, since : 0..MaxRuns]]
    /\ tx \in [Servers -> [row : Places, key : Keys] \cup {NoWrite}]
    /\ interrupts \in 0..MaxInterrupts

RotationInit ==
    /\ active = NoKey
    /\ rows \in [Places -> Keys \cup {NoKey}]
    /\ runs = <<>>
    /\ session = NoSession
    /\ server = [p \in Servers |-> Down]
    /\ tx = [p \in Servers |-> NoWrite]
    /\ interrupts = 0

-----------------------------------------------------------------------------
(* Helpers.  The variants beside them are the slips that the properties    *)
(* below are checked to catch; nothing else uses them.                     *)

Last == runs[Len(runs)]
InRotation == runs # <<>> /\ Last.status = "running"
Live(r) == rows[r] # NoKey
KeysInUse == {rows[r] : r \in {q \in Places : Live(q)}}
Writing == {p \in Servers : tx[p] # NoWrite}

\* persona_vault_keyring_matches_v2: nothing is asked before a key is active.
MatchesActiveOnly(key, ring) == active # NoKey => key = active
KeyringMatches(key, ring) ==
    active # NoKey => /\ key = active
                      /\ InRotation => Last.required \subseteq ring

\* persona_vault_key_gate_v2: a new or changed envelope is under the active
\* key.  The trigger keeps the active key's row locked until the commit.
GateOpen(key) == TRUE
GateAdmits(key) == active \in {NoKey, key}

\* start() waits for every transaction that passed the gate.
NoWait == TRUE
GateReleased == Writing = {}

\* The rows the next batch locks: the first ones after the cursor.
After(n) == {s \in 1..Sizes[n] : s > Last.cursor /\ Live(<<n, s>>)}
Batch ==
    LET left == After(Last.table) IN
    {s \in left : Cardinality({q \in left : q < s}) < BatchSize}

\* Where the run goes once the batch is committed.
StuckProgress(batch) ==
    IF batch = {} THEN [Last EXCEPT !.cursor = 0]
    ELSE [Last EXCEPT !.cursor = Max(batch)]
Progress(batch) ==
    IF batch = {} THEN [Last EXCEPT !.table = @ + 1, !.cursor = 0]
    ELSE [Last EXCEPT !.cursor = Max(batch)]

SaveRun(run) == runs' = [runs EXCEPT ![Len(runs)] = run]
Goes(place) == session' = [session EXCEPT !.at = place]

-----------------------------------------------------------------------------
(* The operator's session.  pg_try_advisory_lock admits one at a time; a   *)
(* command that is refused changes nothing.                                *)

\* The preflight: the bindings, and a simulation that decrypts every row.
\* The procedure of the documentation is followed: the keys in use before
\* stay in the keyring, and the first activation waits until writes are
\* paused.
OpenSession(key, ring) ==
    /\ session = NoSession
    /\ key \in ring /\ KeysInUse \subseteq ring
    /\ active # NoKey => active \in ring
    /\ active = NoKey => Writing = {}
    /\ session' = [at |-> "start", key |-> key, ring |-> ring,
                   resume |-> InRotation]
    /\ UNCHANGED <<active, rows, runs, server, tx, interrupts>>

\* start() of a new run: the active key changes with the journal's new row.
Start ==
    /\ session.at = "start" /\ ~session.resume
    /\ Len(runs) < MaxRuns
    /\ GateReleased
    /\ active' = session.key
    /\ runs' = Append(runs, [key |-> session.key, required |-> session.ring,
                             status |-> "running", table |-> 1, cursor |-> 0])
    /\ Goes("batch")
    /\ UNCHANGED <<rows, server, tx, interrupts>>

\* start() of a resumed run: same key and, at least, the keyring it needs.
ResumeRun ==
    /\ session.at = "start" /\ session.resume
    /\ session' = IF Last.key = session.key
                     /\ KeyringMatches(session.key, session.ring)
                  THEN [session EXCEPT !.at = "batch"]
                  ELSE NoSession
    /\ UNCHANGED <<active, rows, runs, server, tx, interrupts>>

\* One batch: lock the rows, rewrap them and save the progress, in one
\* transaction.  A row that somebody is writing is waited for.
RewrapBatch ==
    /\ session.at = "batch" /\ Last.table <= Tables
    /\ \A s \in Batch : \A p \in Servers : tx[p].row # <<Last.table, s>>
    /\ IF \A s \in Batch : rows[<<Last.table, s>>] \in session.ring
       THEN /\ rows' = [r \in Places |->
                          IF r[1] = Last.table /\ r[2] \in Batch
                          THEN Last.key ELSE rows[r]]
            /\ SaveRun(Progress(Batch))
            /\ UNCHANGED session
       ELSE /\ session' = NoSession
            /\ UNCHANGED <<rows, runs>>
    /\ UNCHANGED <<active, server, tx, interrupts>>

\* After the last table, the final simulation over a snapshot.
FinalCheck ==
    /\ session.at = "batch" /\ Last.table = Tables + 1
    /\ session' = IF KeysInUse \subseteq {Last.key}
                  THEN [session EXCEPT !.at = "complete"]
                  ELSE NoSession
    /\ UNCHANGED <<active, rows, runs, server, tx, interrupts>>

\* The run is completed in a transaction of its own.
Complete ==
    /\ session.at = "complete"
    /\ SaveRun([Last EXCEPT !.status = "completed"])
    /\ session' = NoSession
    /\ UNCHANGED <<active, rows, server, tx, interrupts>>

\* The session ends where it is: --max-batches, a lock timeout, a crash or a
\* lost connection.  The lock goes with it; what was committed stays.
Interrupt ==
    /\ session # NoSession
    /\ interrupts < MaxInterrupts
    /\ session' = NoSession
    /\ interrupts' = interrupts + 1
    /\ UNCHANGED <<active, rows, runs, server, tx>>

-----------------------------------------------------------------------------
(* Servers and workers.                                                    *)

\* A process starts only with a keyring that matches.
Boot(p, key, ring) ==
    /\ ~server[p].up
    /\ key \in ring
    /\ KeyringMatches(key, ring)
    /\ server' = [server EXCEPT ![p] = [up |-> TRUE, key |-> key,
                                        ring |-> ring, since |-> Len(runs)]]
    /\ UNCHANGED <<active, rows, runs, session, tx, interrupts>>

\* It stops, or crashes with a write in flight.
Stop(p) ==
    /\ server[p].up
    /\ server' = [server EXCEPT ![p] = Down]
    /\ tx' = [tx EXCEPT ![p] = NoWrite]
    /\ UNCHANGED <<active, rows, runs, session, interrupts>>

\* It inserts or updates a row, under its own key, and holds the row and the
\* gate until it ends.  Writes stay paused until the first key is active.
Write(p, r) ==
    /\ server[p].up /\ tx[p] = NoWrite
    /\ \A q \in Servers : tx[q].row # r
    /\ active = NoKey => session = NoSession
    /\ GateAdmits(server[p].key)
    /\ tx' = [tx EXCEPT ![p] = [row |-> r, key |-> server[p].key]]
    /\ UNCHANGED <<active, rows, runs, session, server, interrupts>>

\* The transaction commits or rolls back.
Commit(p) ==
    /\ p \in Writing
    /\ rows' = [rows EXCEPT ![tx[p].row] = tx[p].key]
    /\ tx' = [tx EXCEPT ![p] = NoWrite]
    /\ UNCHANGED <<active, runs, session, server, interrupts>>

Rollback(p) ==
    /\ p \in Writing
    /\ tx' = [tx EXCEPT ![p] = NoWrite]
    /\ UNCHANGED <<active, rows, runs, session, server, interrupts>>

\* Cleanup and retention delete rows, which no trigger of the vault guards.
Delete(r) ==
    /\ Live(r)
    /\ \A p \in Servers : tx[p].row # r
    /\ rows' = [rows EXCEPT ![r] = NoKey]
    /\ UNCHANGED <<active, runs, session, server, tx, interrupts>>

-----------------------------------------------------------------------------
SessionStep == Start \/ ResumeRun \/ RewrapBatch \/ FinalCheck \/ Complete

WriteEnds(p) == Commit(p) \/ Rollback(p)

RotationNext ==
    \/ \E key \in Keys, ring \in SUBSET Keys : OpenSession(key, ring)
    \/ SessionStep
    \/ Interrupt
    \/ \E p \in Servers :
         \/ \E key \in Keys, ring \in SUBSET Keys : Boot(p, key, ring)
         \/ Stop(p)
         \/ \E r \in Places : Write(p, r)
         \/ WriteEnds(p)
    \/ \E r \in Places : Delete(r)

\* The operator resumes what was cut off, now and then with the key and the
\* keyring that the journal asks for; the session goes on, and gets its row
\* locks in the end, since they queue; transactions end.
Fairness ==
    /\ SF_rotationVars(\E ring \in SUBSET Keys :
                          /\ InRotation /\ Last.required \subseteq ring
                          /\ OpenSession(Last.key, ring))
    /\ WF_rotationVars(Start) /\ WF_rotationVars(ResumeRun)
    /\ SF_rotationVars(RewrapBatch)
    /\ WF_rotationVars(FinalCheck) /\ WF_rotationVars(Complete)
    /\ \A p \in Servers : WF_rotationVars(WriteEnds(p))

RotationSpec == RotationInit /\ [][RotationNext]_rotationVars /\ Fairness

-----------------------------------------------------------------------------
(* Properties.                                                             *)

\* Behind the cursor of a rotation, and everywhere once it has completed, no
\* row is under another key, and none in flight will be: writers cannot bring
\* the old key back behind the cursor, whichever of them are stale, and a
\* resumed session goes on where the rows are.
Behind(run, r) ==
    \/ run.status = "completed"
    \/ r[1] < run.table
    \/ r[1] = run.table /\ r[2] <= run.cursor

CleanBehindCursor ==
    runs # <<>> =>
        /\ \A r \in Places :
             Live(r) /\ Behind(Last, r) => rows[r] = Last.key
        /\ \A p \in Writing : tx[p].key = Last.key

\* A process that passed the startup check since the current rotation began
\* can read every row, at every moment of it: half rewrapped, cut off,
\* resumed or completed.
ReadableAfterCheck ==
    \A p \in Servers :
        server[p].up /\ runs # <<>> /\ server[p].since = Len(runs)
            => KeysInUse \subseteq server[p].ring

\* A rotation that has begun completes, however its sessions are cut off and
\* whatever the servers write meanwhile.
RotationCompletes ==
    \A n \in 1..MaxRuns :
        (Len(runs) = n /\ runs[n].status = "running")
            ~> (Len(runs) >= n /\ runs[n].status = "completed")
=============================================================================
