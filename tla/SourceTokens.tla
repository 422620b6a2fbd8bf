---------------------------- MODULE SourceTokens ----------------------------
(***************************************************************************)
(* The hub sessions of a source: each gateway of each server process logs  *)
(* in with the source's technical credential, keeps the token for a short  *)
(* while, lets concurrent calls share one login, and forgets everything    *)
(* when the process changes the source.  The credential lives in the       *)
(* database, is read before and after every wait, and may be rotated by    *)
(* any process at any time.                                                *)
(*                                                                         *)
(* Source: SourceTokenManager, PersonaSourceQuery, PersonaSqlOperation-    *)
(* Gateway, and the changes of a source in PersonaMaintenance.             *)
(*                                                                         *)
(* One source and its credential: sessions of others share nothing with    *)
(* them.  A read of the database and the code that goes on with its answer *)
(* are two steps wherever something else may matter in between.  The hub's *)
(* answers are any; the token it gives for the credential of a version is  *)
(* that version.                                                           *)
(***************************************************************************)
EXTENDS Integers

CONSTANTS
    Process,     \* server processes
    QueryGates,  \* the SourceTokenManager of each query gateway
    WriteGates,  \* the one of each gateway of SQL operations
    Call,        \* concurrent calls of authorize, execute, get or cancel
    Attempt,     \* logins that may be under way or awaited at once
    Home,        \* the process of each gateway
    Gate,        \* the gateway of each call
    None,        \* no login
    MaxAuth      \* bound: the source's authorization version

Manager == QueryGates \cup WriteGates
Version == 1..MaxAuth

ASSUME GatesAssumption ==
    /\ QueryGates \cap WriteGates = {}
    /\ Manager # {}
    /\ Home \in [Manager -> Process]
    /\ Gate \in [Call -> Manager]
ASSUME NoneAssumption == None \notin Attempt
ASSUME BoundAssumption == MaxAuth \in Nat \ {0}

VARIABLES
    row,       \* the source and its credential in the database
    sessions,  \* per manager: the credential versions with a live session
    pending,   \* per manager and version: the login that calls may join
    attempts,  \* the logins
    calls,     \* the calls
    edits,     \* per process: its change of the source
    rotated    \* per process: the last version it rotated to and discarded

vars == <<row, sessions, pending, attempts, calls, edits, rotated>>

Kinds == {"update", "rotate", "suspend", "recover", "renew", "replace"}

NoCall == [phase |-> "idle", source |-> 1, client |-> 1, access |-> 1,
           read |-> 1, attempt |-> None, leased |-> FALSE]
NoEdit == [phase |-> "idle", kind |-> "update", base |-> 1]
NoAttempt == [phase |-> "free", at |-> CHOOSE m \in Manager : TRUE,
              version |-> 1, valid |-> TRUE, read |-> 1, doomed |-> FALSE]

RowType == [version : Version, auth : Version, active : BOOLEAN,
            replaced : BOOLEAN]
CallType ==
    [phase : {"idle", "open", "token", "resolve", "await", "gate", "hub",
              "leased", "policy", "confirm"},
     source : Version, client : Version, access : Version, read : Version,
     attempt : Attempt \cup {None}, leased : BOOLEAN]
EditType ==
    [phase : {"idle", "verify", "commit", "mismatch", "quarantine", "discard"},
     kind : Kinds, base : Version]
AttemptType ==
    [phase : {"free", "login", "found", "resolved", "rejected"},
     at : Manager, version : Version, valid : BOOLEAN, read : Version,
     doomed : BOOLEAN]

TypeOK ==
    /\ row \in RowType
    /\ sessions \in [Manager -> SUBSET Version]
    /\ pending \in [Manager -> [Version -> Attempt \cup {None}]]
    /\ attempts \in [Attempt -> AttemptType]
    /\ calls \in [Call -> CallType]
    /\ edits \in [Process -> EditType]
    /\ rotated \in [Process -> {0} \cup Version]

Init ==
    /\ row = [version |-> 1, auth |-> 1, active |-> TRUE, replaced |-> FALSE]
    /\ sessions = [m \in Manager |-> {}]
    /\ pending = [m \in Manager |-> [v \in Version |-> None]]
    /\ attempts = [a \in Attempt |-> NoAttempt]
    /\ calls = [c \in Call |-> NoCall]
    /\ edits = [p \in Process |-> NoEdit]
    /\ rotated = [p \in Process |-> 0]

Running(a) == attempts[a].phase \in {"login", "found"}
Awaiting(a) == {c \in Call : calls[c].phase = "await" /\ calls[c].attempt = a}

\* The variants beside the definitions are the slips that the properties are
\* checked to catch; nothing else uses them.

\* invalidate() on the managers of M: their sessions go, and the logins that
\* calls could join lose their effect.  doomed only records that a login was
\* under way.
Invalidate(M) ==
    /\ sessions' = [m \in Manager |-> IF m \in M THEN {} ELSE sessions[m]]
    /\ pending' = [m \in Manager |-> IF m \in M THEN [v \in Version |-> None]
                                     ELSE pending[m]]
    /\ attempts' = [a \in Attempt |->
         LET joinable == attempts[a].at \in M
                         /\ pending[attempts[a].at][attempts[a].version] = a
             under == Running(a) /\ attempts[a].at \in M
         IN [attempts[a] EXCEPT !.valid = @ /\ ~joinable,
                                !.doomed = @ \/ under]]

Ends(c) == calls' = [calls EXCEPT ![c] = NoCall]

-----------------------------------------------------------------------------
(* getAccessToken, for the calls of both gateways                           *)

\* A call arrives with the source as its own read showed it.
Arrive(c) ==
    /\ calls[c].phase = "idle" /\ row.active
    /\ calls' = [calls EXCEPT ![c] =
         [NoCall EXCEPT !.phase = "open", !.source = row.version]]
    /\ UNCHANGED <<row, sessions, pending, attempts, edits, rotated>>

\* The gateway reads the credential itself first, for the client token.
Open(c) ==
    /\ calls[c].phase = "open"
    /\ IF row.version = calls[c].source
       THEN calls' = [calls EXCEPT ![c].phase = "token", ![c].client = row.version]
       ELSE Ends(c)
    /\ UNCHANGED <<row, sessions, pending, attempts, edits, rotated>>

Find(c) ==
    /\ calls[c].phase = "token"
    /\ calls' = [calls EXCEPT ![c].phase = "resolve", ![c].read = row.version]
    /\ UNCHANGED <<row, sessions, pending, attempts, edits, rotated>>

StaleOfAnyVersion(c) == FALSE
Stale(c) == calls[c].read # calls[c].source

RefuseStale(c) ==
    /\ calls[c].phase = "resolve" /\ Stale(c)
    /\ Invalidate({Gate[c]})
    /\ Ends(c)
    /\ UNCHANGED <<row, edits, rotated>>

\* What follows the token: authorize reads the credential again and asks, the
\* gate of the operations asks first.
Checks(c) == IF Gate[c] \in QueryGates THEN "gate" ELSE "policy"

\* A session is of the version that was just read.
UseSession(c) ==
    /\ calls[c].phase = "resolve" /\ ~Stale(c)
    /\ calls[c].read \in sessions[Gate[c]]
    /\ calls' = [calls EXCEPT ![c].phase = Checks(c), ![c].access = calls[c].read]
    /\ UNCHANGED <<row, sessions, pending, attempts, edits, rotated>>

Join(c) ==
    LET a == pending[Gate[c]][calls[c].read]
    IN /\ calls[c].phase = "resolve" /\ ~Stale(c)
       /\ calls[c].read \notin sessions[Gate[c]]
       /\ a # None
       /\ calls' = [calls EXCEPT ![c].phase = "await", ![c].attempt = a]
       /\ UNCHANGED <<row, sessions, pending, attempts, edits, rotated>>

Login(c, a) ==
    LET v == calls[c].read
    IN /\ calls[c].phase = "resolve" /\ ~Stale(c)
       /\ v \notin sessions[Gate[c]] /\ pending[Gate[c]][v] = None
       /\ ~Running(a) /\ Awaiting(a) = {}
       /\ attempts' = [attempts EXCEPT ![a] =
            [phase |-> "login", at |-> Gate[c], version |-> v, valid |-> TRUE,
             read |-> v, doomed |-> FALSE]]
       /\ pending' = [pending EXCEPT ![Gate[c]][v] = a]
       /\ calls' = [calls EXCEPT ![c].phase = "await", ![c].attempt = a]
       /\ UNCHANGED <<row, sessions, edits, rotated>>

\* The finally of the call that began it, which runs as soon as the login is
\* settled: one that is no longer the one to join leaves the entry alone.
LeavesBlindly(a) ==
    [pending EXCEPT ![attempts[a].at][attempts[a].version] = None]
Leaves(a) ==
    IF pending[attempts[a].at][attempts[a].version] = a
    THEN [pending EXCEPT ![attempts[a].at][attempts[a].version] = None]
    ELSE pending

\* hub.login answers, and the credential is read again.
FindAgain(a) ==
    /\ attempts[a].phase = "login"
    /\ attempts' = [attempts EXCEPT ![a].phase = "found", ![a].read = row.version]
    /\ UNCHANGED <<row, sessions, pending, calls, edits, rotated>>

LoginFails(a) ==
    /\ Running(a)
    /\ attempts' = [attempts EXCEPT ![a].phase = "rejected"]
    /\ pending' = Leaves(a)
    /\ UNCHANGED <<row, sessions, calls, edits, rotated>>

\* The check after the second read.
StillValid(a) == attempts[a].valid
StillCurrent(a) == attempts[a].read = attempts[a].version
Effective(a) == attempts[a].valid /\ attempts[a].read = attempts[a].version

Settle(a) ==
    LET m == attempts[a].at
        v == attempts[a].version
    IN /\ attempts[a].phase = "found"
       /\ IF Effective(a)
          THEN /\ sessions' = [sessions EXCEPT ![m] = @ \cup {v}]
               /\ attempts' = [attempts EXCEPT ![a].phase = "resolved"]
          ELSE /\ attempts' = [attempts EXCEPT ![a].phase = "rejected"]
               /\ UNCHANGED sessions
       /\ pending' = Leaves(a)
       /\ UNCHANGED <<row, calls, edits, rotated>>

\* Everyone who waited goes on; the last one to do so leaves no trace of it.
Resume(c) ==
    LET a == calls[c].attempt
    IN /\ calls[c].phase = "await" /\ ~Running(a)
       /\ IF attempts[a].phase = "resolved"
          THEN calls' = [calls EXCEPT ![c].phase = Checks(c), ![c].attempt = None,
                                      ![c].access = attempts[a].version]
          ELSE Ends(c)
       /\ attempts' = IF Awaiting(a) = {c}
                      THEN [attempts EXCEPT ![a] = NoAttempt] ELSE attempts
       /\ UNCHANGED <<row, sessions, pending, edits, rotated>>

\* Thirty seconds pass, or the thousandth session pushes out the oldest.
SessionGoes(m) ==
    /\ \E v \in sessions[m] : sessions' = [sessions EXCEPT ![m] = @ \ {v}]
    /\ UNCHANGED <<row, pending, attempts, calls, edits, rotated>>

-----------------------------------------------------------------------------
(* What the gateways do with the token                                      *)

\* check() reads the credential before it asks the hub.
Check(c) ==
    /\ calls[c].phase = "gate"
    /\ IF row.version = calls[c].client
       THEN calls' = [calls EXCEPT ![c].phase = "hub"]
       ELSE Ends(c)
    /\ UNCHANGED <<row, sessions, pending, attempts, edits, rotated>>

\* Access, policy and the identity of the base, in authorize and in every
\* revalidation of its lease.
Granted(c) ==
    /\ calls[c].phase = "hub"
    /\ IF calls[c].leased
       THEN Ends(c)  \* and the statement goes out
       ELSE calls' = [calls EXCEPT ![c].phase = "leased"]
    /\ UNCHANGED <<row, sessions, pending, attempts, edits, rotated>>

Execute(c) ==
    /\ calls[c].phase = "leased"
    /\ calls' = [calls EXCEPT ![c].phase = "gate", ![c].leased = TRUE]
    /\ UNCHANGED <<row, sessions, pending, attempts, edits, rotated>>

\* The operations' gate asks the same, then reads the credential once more.
Allowed(c) ==
    /\ calls[c].phase = "policy"
    /\ calls' = [calls EXCEPT ![c].phase = "confirm"]
    /\ UNCHANGED <<row, sessions, pending, attempts, edits, rotated>>

Confirm(c) ==
    /\ calls[c].phase = "confirm"
    /\ Ends(c)  \* and the operation goes out if the version is still the same
    /\ UNCHANGED <<row, sessions, pending, attempts, edits, rotated>>

\* Whatever is missing, or a lease that its caller lets go.
Denied(c) ==
    /\ calls[c].phase \in {"hub", "leased", "policy"}
    /\ Ends(c)
    /\ UNCHANGED <<row, sessions, pending, attempts, edits, rotated>>

\* invalidateIdentity: the base is no longer the one that was registered.
Quarantined ==
    IF row.active THEN [row EXCEPT !.active = FALSE, !.auth = @ + 1] ELSE row

OtherBase(c) ==
    /\ calls[c].phase \in {"hub", "policy"}
    /\ row.active => row.auth < MaxAuth
    /\ row' = Quarantined
    /\ Ends(c)
    /\ UNCHANGED <<sessions, pending, attempts, edits, rotated>>

-----------------------------------------------------------------------------
(* A change of the source: read, proof of the new account, compare-and-set, *)
(* and only then, in this process alone, the sessions go                    *)

Editing(p, phase) == edits' = [edits EXCEPT ![p].phase = phase]
Done(p) == edits' = [edits EXCEPT ![p] = NoEdit]
Proves(k) == k \in {"rotate", "recover", "renew", "replace"}
Rotates(k) == k \in {"rotate", "renew"}

\* The conditions on the row, in the first read and in the last.
Fits(p, k) ==
    /\ ~row.replaced
    /\ k \in {"update", "rotate", "suspend"} => row.active
    /\ k \in {"recover", "renew"} => ~row.active

\* The compare of the compare-and-set.
SameFits(p) == Fits(p, edits[p].kind)
Same(p) == row.auth = edits[p].base /\ Fits(p, edits[p].kind)

BeginEdit(p, k) ==
    /\ edits[p].phase = "idle" /\ Fits(p, k) /\ row.auth < MaxAuth
    /\ edits' = [edits EXCEPT ![p] =
         [phase |-> IF Proves(k) THEN "verify" ELSE "commit", kind |-> k,
          base |-> row.auth]]
    /\ UNCHANGED <<row, sessions, pending, attempts, calls, rotated>>

\* The hub confirms, or cannot, or shows another base; a replacement is a
\* source of its own and has none to compare with.
Verify(p) ==
    /\ edits[p].phase = "verify"
    /\ \/ Editing(p, "commit")
       \/ edits[p].kind # "replace" /\ Editing(p, "mismatch")
       \/ Done(p)
    /\ UNCHANGED <<row, sessions, pending, attempts, calls, rotated>>

\* Another base counts only for the version it was compared with.
Mismatch(p) ==
    /\ edits[p].phase = "mismatch"
    /\ IF Same(p) THEN Editing(p, "quarantine") ELSE Done(p)
    /\ UNCHANGED <<row, sessions, pending, attempts, calls, rotated>>

\* Only a rotation discards afterwards: to recover, the source was suspended.
Quarantine(p) ==
    /\ edits[p].phase = "quarantine"
    /\ row.active => row.auth < MaxAuth
    /\ row' = Quarantined
    /\ IF edits[p].kind = "rotate"
       THEN edits' = [edits EXCEPT ![p].phase = "discard", ![p].kind = "suspend"]
       ELSE Done(p)
    /\ UNCHANGED <<sessions, pending, attempts, calls, rotated>>

CommitEdit(p) ==
    LET k == edits[p].kind
    IN /\ edits[p].phase = "commit"
       /\ IF Same(p)
          THEN /\ row' = [version |-> row.version + (IF Rotates(k) THEN 1 ELSE 0),
                          auth |-> row.auth + 1,
                          active |-> k \notin {"suspend", "replace"},
                          replaced |-> k = "replace"]
               /\ edits' = [edits EXCEPT ![p].phase = "discard",
                                         ![p].base = row'.version]
          ELSE Done(p) /\ UNCHANGED row
       /\ UNCHANGED <<sessions, pending, attempts, calls, rotated>>

\* discardSession, on both gateways of this process.
Discard(p) ==
    /\ edits[p].phase = "discard"
    /\ Invalidate({m \in Manager : Home[m] = p})
    /\ rotated' = [rotated EXCEPT ![p] =
                     IF Rotates(edits[p].kind) THEN edits[p].base ELSE @]
    /\ Done(p)
    /\ UNCHANGED <<row, calls>>

\* A process that restarts has no sessions, logins or calls.
Crash(p) ==
    LET here == {m \in Manager : Home[m] = p}
    IN /\ sessions' = [m \in Manager |-> IF m \in here THEN {} ELSE sessions[m]]
       /\ pending' = [m \in Manager |->
            IF m \in here THEN [v \in Version |-> None] ELSE pending[m]]
       /\ attempts' = [a \in Attempt |->
            IF attempts[a].at \in here THEN NoAttempt ELSE attempts[a]]
       /\ calls' = [c \in Call |-> IF Gate[c] \in here THEN NoCall ELSE calls[c]]
       /\ edits' = [edits EXCEPT ![p] = NoEdit]
       /\ rotated' = [rotated EXCEPT ![p] = 0]
       /\ UNCHANGED row

-----------------------------------------------------------------------------
CallStep(c) ==
    \/ Arrive(c) \/ Open(c) \/ Find(c) \/ RefuseStale(c) \/ UseSession(c)
    \/ Join(c) \/ \E a \in Attempt : Login(c, a)
    \/ Resume(c) \/ Check(c) \/ Granted(c) \/ Execute(c) \/ Allowed(c)
    \/ Confirm(c) \/ Denied(c) \/ OtherBase(c)

EditStep(p) ==
    \/ \E k \in Kinds : BeginEdit(p, k)
    \/ Verify(p) \/ Mismatch(p) \/ Quarantine(p) \/ CommitEdit(p)
    \/ Discard(p) \/ Crash(p)

Next ==
    \/ \E c \in Call : CallStep(c)
    \/ \E a \in Attempt : FindAgain(a) \/ LoginFails(a) \/ Settle(a)
    \/ \E m \in Manager : SessionGoes(m)
    \/ \E p \in Process : EditStep(p)

Spec == Init /\ [][Next]_vars

-----------------------------------------------------------------------------
(* Properties                                                               *)

\* A login that was under way when its process discarded the credential's
\* sessions never answers anyone and leaves no session, whatever it read
\* afterwards: a suspension, unlike a rotation, changes nothing it could read.
NoLateToken ==
    \A a \in Attempt : attempts[a].doomed => attempts[a].phase # "resolved"

\* For every manager and version, the login that new calls join is the only one
\* under way that may still have an effect: calls at once cause one login, and
\* one that was discarded neither hides nor removes the one that follows it.
OneLogin ==
    \A m \in Manager, v \in Version :
        {a \in Attempt : Running(a) /\ attempts[a].valid
                         /\ attempts[a].at = m /\ attempts[a].version = v}
            = {pending[m][v]} \ {None}

\* Once a process has rotated the credential and discarded its sessions, none
\* of its managers keeps a session of the old account, not even one whose login
\* began on a read from before the rotation.
OldAccountGone ==
    \A m \in Manager : \A v \in sessions[m] : rotated[Home[m]] <= v

\* The hub is never shown the client token of one version of the credential
\* with the session of another.
CarrierIsOne ==
    \A c \in Call :
        calls[c].phase \in {"gate", "hub", "leased", "policy", "confirm"}
            => calls[c].client = calls[c].access
=============================================================================
