---------------------------- MODULE Attachments ----------------------------
(***************************************************************************)
(* The files a persona's consumer makes of a query and downloads later.    *)
(*                                                                         *)
(* Source: PersonaAttachments (create, read, verify and the deadline of    *)
(* bounded), the attachment's path through PersonaSourceQueries.execute,   *)
(* revalidateQuery, PostgresPersonaAttachments with its quota trigger, and *)
(* the cleanup of expired rows.  The writers of the physical source are    *)
(* WriteFence, as in QueryReuse.                                           *)
(*                                                                         *)
(* One consumer: another one's binding finds no row and deletes none.  A   *)
(* creation makes at most one row, so the creation stands for its record,  *)
(* its row and its handle.  `authority' is the version of all that         *)
(* revalidateQuery compares besides the fence (publications, source,       *)
(* limits, grants); `policy' is the hub's policy fingerprint.              *)
(***************************************************************************)
EXTENDS Naturals, FiniteSets

CONSTANTS
    Ops,          \* the writes of the physical source
    Creators,     \* calls of create
    Readers,      \* calls of read
    Quota,        \* own_count and total_count of the quota trigger
    MaxRevision,  \* bound on the revisions explored
    MaxChange     \* bound on the versions of authority and of policy

ASSUME RequestsAssumption == Creators \cap Readers = {}
ASSUME BoundsAssumption ==
    /\ Quota \in Nat /\ MaxRevision \in Nat /\ MaxChange \in Nat
    /\ IsFiniteSet(Creators)

VARIABLES
    pendentes, aplicadas, revisao, marca,  \* the writers, see WriteFence
    authority, policy,
    rows,      \* persona_attachment_v2
    expired,   \* creations whose expiresAt has passed
    \* The record of a creation: what its evidence and its data hold.
    fence, auth, print, data,
    \* Requests.
    phase,     \* where the action is
    answer,    \* what the caller has been told
    late,      \* the deadline of bounded has passed
    target,    \* the handle a read names
    lease,     \* the fingerprint of the present hub lease
    since,     \* policy when the request began
    owes       \* requests whose catch, while they run, removes the row

writers  == <<pendentes, aplicadas, revisao, marca>>
epochs   == <<authority, policy>>
record   == <<fence, auth, print, data>>
call     == <<target, since>>
vars == <<writers, epochs, rows, expired, record, phase, answer, late, call,
          lease, owes>>

Writes == INSTANCE WriteFence

Requests == Creators \cup Readers
Revisions == 0..MaxRevision
Versions == 0..MaxChange

\* Before the record is complete, while it is verified, and once the request
\* holds a row that a failure must remove.
Querying  == {"query", "authorize", "check", "select", "confirm", "finish"}
Verifying == {"verify", "reauthorize", "structure", "reverify"}
Phases == {"idle", "get", "put", "audit", "hand", "remove", "done"}
             \cup Querying \cup Verifying

TypeOK ==
    /\ pendentes \subseteq Ops /\ aplicadas \subseteq Ops
    /\ revisao \in Revisions /\ marca \in [Ops -> Revisions]
    /\ authority \in Versions /\ policy \in Versions
    /\ rows \subseteq Creators /\ expired \subseteq Creators
    /\ fence \in [Creators -> Revisions]
    /\ auth \in [Creators -> Versions]
    /\ print \in [Creators -> Versions]
    /\ data \in [Creators -> SUBSET Ops]
    /\ phase \in [Requests -> Phases]
    /\ answer \in [Requests -> {"none", "given", "refused"}]
    /\ late \in [Requests -> BOOLEAN]
    /\ target \in [Requests -> Creators]
    /\ lease \in [Requests -> Versions]
    /\ since \in [Requests -> Versions]
    /\ owes \subseteq Requests

Init ==
    /\ Writes!Init
    /\ authority = 0 /\ policy = 0
    /\ rows = {} /\ expired = {}
    /\ fence = [c \in Creators |-> 0]
    /\ auth = [c \in Creators |-> 0]
    /\ print = [c \in Creators |-> 0]
    /\ data = [c \in Creators |-> {}]
    /\ phase = [r \in Requests |-> "idle"]
    /\ answer = [r \in Requests |-> "none"]
    /\ late = [r \in Requests |-> FALSE]
    /\ target \in [Requests -> Creators]
    /\ \A c \in Creators : target[c] = c
    /\ lease = [r \in Requests |-> 0]
    /\ since = [r \in Requests |-> 0]
    /\ owes = {}

-----------------------------------------------------------------------------
(* Helpers, with the slips beside them that the properties below are        *)
(* checked to catch.                                                        *)

\* revalidateQuery: the same revision and still no pending write, and the
\* authority of the evidence.
CurrentRevision(r) ==
    auth[target[r]] = authority /\ fence[target[r]] = revisao
Current(r) == CurrentRevision(r) /\ pendentes = {}

\* check(): the budget, and for a read the file's own deadline.
NoCheck(r) == TRUE
Check(r) == ~late[r] /\ (r \in Readers => target[r] \notin expired)

\* The policy of the present lease is the one the record was read under.
SamePolicy(r) == print[target[r]] = policy

Goes(r, place) == phase' = [phase EXCEPT ![r] = place]

\* The promise settles; a caller whose deadline passed was told before.
Tells(r, word) ==
    answer' = [answer EXCEPT ![r] = IF @ = "none" THEN word ELSE @]

Settles(r, word) == Goes(r, "done") /\ Tells(r, word)

\* A failure: inside the try the row is removed before the error goes on.
Fails(r) ==
    IF r \in owes THEN Goes(r, "remove") /\ UNCHANGED answer
    ELSE Settles(r, "refused")

-----------------------------------------------------------------------------
(* create: the fresh SELECT.                                               *)

Begin(r) ==
    /\ phase[r] = "idle"
    /\ r \in Readers => answer[target[r]] = "given"
    /\ Goes(r, IF r \in Creators THEN "query" ELSE "get")
    /\ since' = [since EXCEPT ![r] = policy]
    /\ UNCHANGED <<writers, epochs, rows, expired, record, answer, late, target,
                   lease, owes>>

\* The evidence: no file is made of a base with a write pending.
Query(c) ==
    /\ phase[c] = "query"
    /\ pendentes = {}
    /\ fence' = [fence EXCEPT ![c] = revisao]
    /\ auth' = [auth EXCEPT ![c] = authority]
    /\ Goes(c, "authorize")
    /\ UNCHANGED <<writers, epochs, rows, expired, print, data, answer, late,
                   call, lease, owes>>

Authorize(c) ==
    /\ phase[c] = "authorize"
    /\ Check(c)
    /\ lease' = [lease EXCEPT ![c] = policy]
    /\ Goes(c, "check")
    /\ UNCHANGED <<writers, epochs, rows, expired, record, answer, late, call,
                   owes>>

\* A revalidation that only lets the request go on.
Revalidates(r, from, to) ==
    /\ phase[r] = from
    /\ Check(r)
    /\ Current(r)
    /\ Goes(r, to)
    /\ UNCHANGED <<writers, epochs, rows, expired, record, answer, late, call,
                   lease, owes>>

\* The agent reads the base, never a cache; a policy found changed before it
\* is a Fail.
Select(c) ==
    /\ phase[c] = "select"
    /\ data' = [data EXCEPT ![c] = aplicadas]
    /\ Goes(c, "confirm")
    /\ UNCHANGED <<writers, epochs, rows, expired, fence, auth, print, answer,
                   late, call, lease, owes>>

\* The lease is revalidated; it is what the capture keeps as fingerprint.
Confirm(c) ==
    /\ phase[c] = "confirm"
    /\ Check(c)
    /\ policy = lease[c]
    /\ print' = [print EXCEPT ![c] = lease[c]]
    /\ Goes(c, "finish")
    /\ UNCHANGED <<writers, epochs, rows, expired, fence, auth, data, answer,
                   late, call, lease, owes>>

-----------------------------------------------------------------------------
(* verify, of a creation and of a read.                                    *)

Reauthorize(r) ==
    /\ phase[r] = "reauthorize"
    /\ Check(r)
    /\ SamePolicy(r)
    /\ lease' = [lease EXCEPT ![r] = policy]
    /\ Goes(r, "structure")
    /\ UNCHANGED <<writers, epochs, rows, expired, record, answer, late, call,
                   owes>>

\* The structure matches, and the lease is revalidated after it.
Structure(r) ==
    /\ phase[r] = "structure"
    /\ Check(r)
    /\ policy = lease[r]
    /\ Goes(r, "reverify")
    /\ UNCHANGED <<writers, epochs, rows, expired, record, answer, late, call,
                   lease, owes>>

\* The publications are suspended, and the request fails.
Mismatch(r) ==
    /\ phase[r] \in {"select", "structure"}
    /\ authority < MaxChange
    /\ authority' = authority + 1
    /\ Fails(r)
    /\ UNCHANGED <<writers, policy, rows, expired, record, late, call, lease,
                   owes>>

Verify(r) ==
    \/ r \in Creators /\ Revalidates(r, "check", "select")
    \/ r \in Creators /\ Revalidates(r, "finish", "verify")
    \/ Revalidates(r, "verify", "reauthorize")
    \/ Reauthorize(r)
    \/ Structure(r)
    \/ Mismatch(r)
    \/ Revalidates(r, "reverify", IF r \in Creators THEN "put" ELSE "audit")

-----------------------------------------------------------------------------
(* The store.                                                              *)

\* One transaction behind the fleet's advisory lock; expired rows count.
HasRoom(c) == c \notin expired /\ Cardinality(rows) < Quota

Put(c) ==
    /\ phase[c] = "put"
    /\ HasRoom(c)
    /\ rows' = rows \cup {c}
    /\ owes' = owes \cup {c}
    /\ Goes(c, "audit")
    /\ UNCHANGED <<writers, epochs, expired, record, answer, late, call, lease>>

\* The commit's answer is lost, or the store was closed meanwhile and removes
\* the row itself.
PutFails(c) ==
    /\ phase[c] = "put"
    /\ HasRoom(c)
    /\ rows' = rows \cup {c}
    /\ \/ Settles(c, "refused") /\ UNCHANGED owes
       \/ Goes(c, "remove") /\ owes' = owes \cup {c} /\ UNCHANGED answer
    /\ UNCHANGED <<writers, epochs, expired, record, late, call, lease>>

Get(r) ==
    /\ phase[r] = "get"
    /\ target[r] \in rows \ expired
    /\ owes' = owes \cup {r}
    /\ Goes(r, "verify")
    /\ UNCHANGED <<writers, epochs, rows, expired, record, answer, late, call,
                   lease>>

\* The last revalidation, with the audit of the file created or downloaded.
Audit(r) == Revalidates(r, "audit", "hand")

\* Only a request within its deadline, of a file within its own, is answered.
Hand(r) ==
    /\ phase[r] = "hand"
    /\ Check(r)
    /\ target[r] \notin expired
    /\ Settles(r, "given")
    /\ UNCHANGED <<writers, epochs, rows, expired, record, late, call, lease,
                   owes>>

\* Any refusal or error on the way; a row that is held is removed first.
Fail(r) ==
    /\ phase[r] \notin {"idle", "remove", "done"}
    /\ Fails(r)
    /\ UNCHANGED <<writers, epochs, rows, expired, record, late, call, lease,
                   owes>>

\* The row goes, or its removal fails.
Removes(r) ==
    \/ rows' = rows \ {target[r]} /\ UNCHANGED owes
    \/ owes' = owes \ {r} /\ UNCHANGED rows

Remove(r) ==
    /\ phase[r] = "remove"
    /\ Removes(r)
    /\ Settles(r, "refused")
    /\ UNCHANGED <<writers, epochs, expired, record, late, call, lease>>

-----------------------------------------------------------------------------
(* The environment.                                                        *)

\* The timer of bounded rejects the caller; the action goes on until its next
\* check.
Timeout(r) ==
    /\ phase[r] \notin {"idle", "done"}
    /\ ~late[r]
    /\ late' = [late EXCEPT ![r] = TRUE]
    /\ Tells(r, "refused")
    /\ UNCHANGED <<writers, epochs, rows, expired, record, phase, call, lease,
                   owes>>

Crash(r) ==
    /\ phase[r] \notin {"idle", "done"}
    /\ Settles(r, "refused")
    /\ owes' = owes \ {r}
    /\ UNCHANGED <<writers, epochs, rows, expired, record, late, call, lease>>

\* expiresAt is fixed when the query ends and is never extended.
Expire(c) ==
    /\ phase[c] \in Verifying \cup {"put", "audit", "hand"} \/ c \in rows
    /\ c \notin expired
    /\ expired' = expired \cup {c}
    /\ UNCHANGED <<writers, epochs, rows, record, phase, answer, late, call,
                   lease, owes>>

Cleanup ==
    /\ rows \cap expired # {}
    /\ \E batch \in SUBSET (rows \cap expired) :
        batch # {} /\ rows' = rows \ batch
    /\ UNCHANGED <<writers, epochs, expired, record, phase, answer, late, call,
                   lease, owes>>

\* A write of the physical source goes on.
Write ==
    /\ Writes!Next
    /\ revisao' <= MaxRevision
    /\ UNCHANGED <<epochs, rows, expired, record, phase, answer, late, call,
                   lease, owes>>

\* A publication, source, limit or grant changes, or the hub's policy.
Change ==
    /\ \/ authority < MaxChange /\ authority' = authority + 1 /\ UNCHANGED policy
       \/ policy < MaxChange /\ policy' = policy + 1 /\ UNCHANGED authority
    /\ UNCHANGED <<writers, rows, expired, record, phase, answer, late, call,
                   lease, owes>>

-----------------------------------------------------------------------------
Create(c) ==
    Query(c) \/ Authorize(c) \/ Select(c) \/ Confirm(c) \/ Put(c) \/ PutFails(c)

Request(r) ==
    Begin(r) \/ Verify(r) \/ Audit(r) \/ Hand(r) \/ Fail(r) \/ Remove(r)

Next ==
    \/ \E c \in Creators : Create(c) \/ Expire(c)
    \/ \E r \in Readers : Get(r)
    \/ \E r \in Requests : Request(r) \/ Timeout(r) \/ Crash(r)
    \/ Cleanup \/ Write \/ Change

Spec == Init /\ [][Next]_vars

-----------------------------------------------------------------------------
(* Safety.                                                                 *)

\* A file that is handed over (created or downloaded) holds what the business
\* base holds when that is audited, under the authority of that moment, and
\* was read under no older policy than the one in force when the caller asked
\* (verify, revalidateQuery, the fence kept in the record).
FreshArtifact ==
    [][\A r \in Requests :
          phase[r] = "audit" /\ phase'[r] = "hand" =>
              /\ data[target[r]] = aplicadas
              /\ auth[target[r]] = authority
              /\ since[r] <= print[target[r]]]_vars

\* A request whose caller was refused, by an error or by the deadline while
\* its action went on, leaves no row behind: the handle nobody was given, or
\* the file whose download failed, is gone (bounded, the catch of create and
\* of read).  Only a crash or a failed statement can leave it to the cleanup.
RefusedIsGone ==
    \A r \in owes :
        phase[r] = "done" /\ answer[r] = "refused" => target[r] \notin rows
=============================================================================
