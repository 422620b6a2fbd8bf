----------------------------- MODULE OAuthTokens -----------------------------
(***************************************************************************)
(* The OAuth authorization server: a user signs in and consents once, the  *)
(* grant that this creates is used through a chain of credentials that are *)
(* spent as they are exchanged, the authority behind it changes or is      *)
(* revoked at any moment, and worker processes delete what has expired.    *)
(*                                                                         *)
(* Source: PersonaOAuth and PostgresPersonaOAuthStore, the owner's         *)
(* connections, the changes of a persona and of its token, and the cleanup *)
(* of ephemeral records, under the lease of WorkerLease.                   *)
(*                                                                         *)
(* A record is named by its position, never by its secret; permissions,    *)
(* redirects, PKCE and the client's metadata are not modelled: a call that *)
(* they refuse leaves everything as it was.  Persona and token, which every *)
(* transaction locks together, are one authority with one version.         *)
(***************************************************************************)
EXTENDS Naturals, Sequences, FiniteSets

CONSTANTS
    Flows,       \* browser transactions
    Calls,       \* slots for calls in flight at once
    Workers,     \* worker processes
    NoWorker,    \* no lease owner
    FlowLife, CodeLife, AccessLife, GrantLife,   \* lifetimes, in ticks
    MaxTime,     \* bound on the clock
    MaxAuthority,  \* bound on the versions of the authority
    MaxRecords   \* bound on the credentials issued

ASSUME LivesAssumption ==
    /\ FlowLife \in Nat \ {0} /\ CodeLife \in Nat \ {0}
    /\ AccessLife \in Nat \ {0} /\ GrantLife \in Nat \ {0}
ASSUME OAuthBounds ==
    MaxTime \in Nat /\ MaxAuthority \in Nat \ {0} /\ MaxRecords \in Nat

VARIABLES
    clock,      \* the clock
    authority,  \* persona and token: version, and whether both are active
    flow,       \* the browser transactions
    grants,     \* oauth_concessao_v2
    records,    \* oauth_registro_v2: codes, access and refresh tokens
    call,       \* the calls in flight
    lease, worker

oauth == <<clock, authority, flow, grants, records, call>>
oauthVars == <<clock, authority, flow, grants, records, call, lease, worker>>

Cleaner == INSTANCE WorkerLease WITH None <- NoWorker

NoFlow == [at |-> "none", until |-> 0, version |-> 0]
FreeCall == [id |-> 0, spent |-> FALSE, late |-> FALSE]
Ids == 1..Len(records)

\* The shape of the state; among it, that no credential outlives its grant.
OAuthTypeOK ==
    /\ clock \in 0..MaxTime
    /\ authority \in [version : 1..(MaxAuthority + 1), active : BOOLEAN]
    /\ flow \in [Flows -> [at : {"none", "open", "known", "consumed", "gone"},
                           until : Nat, version : 0..(MaxAuthority + 1)]]
    /\ grants \in Seq([flow : Flows, version : 1..(MaxAuthority + 1),
                       until : Nat, revoked : BOOLEAN])
    /\ records \in Seq([kind : {"code", "access", "refresh"},
                        grant : 1..Len(grants), until : Nat,
                        spent : BOOLEAN, present : BOOLEAN])
    /\ Len(records) <= MaxRecords
    /\ \A i \in Ids : records[i].until <= grants[records[i].grant].until
    /\ call \in [Calls -> [id : 0..Len(records), spent : BOOLEAN,
                           late : BOOLEAN]]
    /\ Cleaner!LeaseTypeOK

OAuthInit ==
    /\ clock = 0
    /\ authority = [version |-> 1, active |-> TRUE]
    /\ flow = [f \in Flows |-> NoFlow]
    /\ grants = <<>> /\ records = <<>>
    /\ call = [c \in Calls |-> FreeCall]
    /\ Cleaner!LeaseInit

-----------------------------------------------------------------------------
(* Helpers.  The variants beside them are the slips that the properties    *)
(* below are checked to catch; nothing else uses them.                     *)

Least(m, n) == IF m <= n THEN m ELSE n
Lapsed(g) == grants[g].until <= clock
Current(version) == authority.active /\ authority.version = version

\* What ends a grant, recorded with each call to judge it by.
Ended(g) ==
    \/ grants[g].revoked \/ Lapsed(g)
    \/ authority.version > grants[g].version

\* assertConsumer on a grant: what state() asks.
ValidOfAnyVersion(g) == authority.active /\ ~grants[g].revoked /\ ~Lapsed(g)
Valid(g) == Current(grants[g].version) /\ ~grants[g].revoked /\ ~Lapsed(g)

NewRecord(kind, g, until) ==
    [kind |-> kind, grant |-> g, until |-> until, spent |-> FALSE,
     present |-> TRUE]

\* A grant is revoked once, and never restored.
Revoked(gs, which) ==
    [g \in DOMAIN gs |-> IF g \in which
                         THEN [gs[g] EXCEPT !.revoked = TRUE] ELSE gs[g]]

\* The cleanup's choice: a credential goes with its whole family, when the
\* grant has expired, since what was spent still betrays a replay.
RemovableOnceExpired(i) == records[i].present /\ records[i].until <= clock
Removable(i) ==
    records[i].present /\ records[i].until <= clock /\ Lapsed(records[i].grant)

\* Whether the credential of a call was exchanged before, as the locked row
\* has it.
SpentAsRead(c) == call[c].spent
Spent(c) == records[call[c].id].spent

-----------------------------------------------------------------------------
(* The browser.                                                            *)

OpenFlow(f) == flow[f].until > clock

BeginFlow(f) ==
    /\ flow[f].at = "none"
    /\ flow' = [flow EXCEPT ![f] = [at |-> "open", until |-> clock + FlowLife,
                                    version |-> 0]]
    /\ UNCHANGED <<clock, authority, grants, records, call, lease, worker>>

\* The identity is bound once.
Authenticate(f) ==
    /\ flow[f].at = "open" /\ OpenFlow(f)
    /\ authority.active
    /\ flow' = [flow EXCEPT ![f].at = "known",
                            ![f].version = authority.version]
    /\ UNCHANGED <<clock, authority, grants, records, call, lease, worker>>

\* The user consents or denies; either consumes the transaction, with the
\* grant and its code, if any, in the same commit.
Consent(f) ==
    /\ flow[f].at = "known" /\ OpenFlow(f) /\ Current(flow[f].version)
    /\ flow' = [flow EXCEPT ![f].at = "consumed"]
    /\ \/ UNCHANGED <<grants, records>>
       \/ /\ Len(records) < MaxRecords
          /\ grants' = Append(grants,
                              [flow |-> f, version |-> flow[f].version,
                               until |-> clock + GrantLife, revoked |-> FALSE])
          /\ records' = Append(records,
                               NewRecord("code", Len(grants) + 1,
                                         clock + Least(CodeLife, GrantLife)))
    /\ UNCHANGED <<clock, authority, call, lease, worker>>

-----------------------------------------------------------------------------
(* Calls.  What a call read without a lock is looked at again, under the   *)
(* locks of the persona, the token, the grant and the record, in the       *)
(* transaction that decides it.                                            *)

Busy(c) == call[c] # FreeCall
Record(c) == records[call[c].id]
Presented(c, kinds) == Busy(c) /\ Record(c).kind \in kinds
Finish(c) == call' = [call EXCEPT ![c] = FreeCall]
OnlyFinish(c) ==
    /\ Finish(c)
    /\ UNCHANGED <<clock, authority, flow, grants, records, lease, worker>>

\* A code or a refresh token is presented to token(), an access token to a
\* resource, and looked up without a lock.  A code or a refresh token that is
\* gone goes on to be refused below: what is deleted never comes back.
Present(c, i) ==
    /\ ~Busy(c)
    /\ records[i].kind = "access" => records[i].present /\ records[i].until > clock
    /\ call' = [call EXCEPT ![c] = [id |-> i, spent |-> records[i].spent,
                                   late |-> Ended(records[i].grant)]]
    /\ UNCHANGED <<clock, authority, flow, grants, records, lease, worker>>

\* token(): a spent credential revokes its family, whether or not it has
\* expired, and is refused;
Replay(c) ==
    /\ Presented(c, {"code", "refresh"})
    /\ Record(c).present /\ Spent(c)
    /\ grants' = Revoked(grants, {Record(c).grant})
    /\ Finish(c)
    /\ UNCHANGED <<clock, authority, flow, records, lease, worker>>

\* a good one is spent, and replaced by an access token and the next refresh
\* token;
Mint(c) ==
    /\ Presented(c, {"code", "refresh"})
    /\ Record(c).present /\ ~Spent(c)
    /\ LET g == Record(c).grant IN
       /\ Record(c).until > clock /\ Valid(g)
       /\ Len(records) + 2 <= MaxRecords
       /\ records' = [records EXCEPT ![call[c].id].spent = TRUE] \o
            <<NewRecord("access", g, Least(clock + AccessLife, grants[g].until)),
              NewRecord("refresh", g, grants[g].until)>>
    /\ Finish(c)
    /\ UNCHANGED <<clock, authority, flow, grants, lease, worker>>

\* any other is refused.
Refuse(c) ==
    /\ Presented(c, {"code", "refresh"})
    /\ \/ ~Record(c).present
       \/ ~Spent(c) /\ (Record(c).until <= clock \/ ~Valid(Record(c).grant))
    /\ OnlyFinish(c)

\* resolve(): the snapshot of the authority decides, and the access token's
\* own deadline, which the identity that was read carries.
Accept(c) ==
    /\ Presented(c, {"access"})
    /\ Valid(Record(c).grant) /\ Record(c).until > clock
    /\ OnlyFinish(c)

Deny(c) ==
    /\ Presented(c, {"access"})
    /\ ~Valid(Record(c).grant) \/ Record(c).until <= clock
    /\ OnlyFinish(c)

\* The client's metadata does not validate, the database rolls back or the
\* process dies: nothing is left of the call.
Fail(c) == Busy(c) /\ OnlyFinish(c)

-----------------------------------------------------------------------------
(* Revocation, and changes of the authority.                               *)

RevokeGrants(g) ==
    /\ grants' = Revoked(grants, {g})
    /\ UNCHANGED <<clock, authority, flow, records, call, lease, worker>>

\* The consumer disconnects itself.
Disconnect(g) == Valid(g) /\ RevokeGrants(g)

\* The client returns an access or a refresh token, spent or not.
RevokeToken(i) ==
    /\ records[i].present /\ records[i].kind # "code"
    /\ RevokeGrants(records[i].grant)

\* The owner revokes one connection.
OwnerRevokes(g) == ~grants[g].revoked /\ RevokeGrants(g)

NewVersion(active) ==
    /\ authority' = [version |-> authority.version + 1, active |-> active]
    /\ UNCHANGED <<clock, flow, records, call, lease, worker>>
MayChange == authority.active /\ authority.version < MaxAuthority

\* The token is edited or its secret replaced.
ChangePersonaToken ==
    /\ MayChange /\ NewVersion(TRUE)
    /\ grants' = Revoked(grants, DOMAIN grants)

\* The persona is edited: no grant is touched, but every version is old.
UpdatePersona == MayChange /\ NewVersion(TRUE) /\ UNCHANGED grants

\* The token is revoked for good, or the persona suspended ...
Suspend ==
    /\ MayChange /\ NewVersion(FALSE)
    /\ grants' = Revoked(grants, DOMAIN grants)

\* ... and the persona recovered, which restores no grant.
Recover == ~authority.active /\ NewVersion(TRUE) /\ UNCHANGED grants

-----------------------------------------------------------------------------
(* The cleanup, and time.                                                  *)

\* One transaction of the cleanup: a batch of what has expired, transactions
\* of the browser and credentials.
Clean(w) ==
    /\ Cleaner!Commit(w)
    /\ LET flows == {f \in Flows : /\ flow[f].at \in {"open", "known", "consumed"}
                                   /\ ~OpenFlow(f)}
           all == {i \in Ids : Removable(i)}
       IN \E batch \in SUBSET all :
            /\ all # {} => batch # {}
            /\ records' = [i \in Ids |-> IF i \in batch
                                         THEN [records[i] EXCEPT !.present = FALSE]
                                         ELSE records[i]]
            /\ flow' = [f \in Flows |-> IF f \in flows
                                        THEN [NoFlow EXCEPT !.at = "gone"]
                                        ELSE flow[f]]
    /\ UNCHANGED <<clock, authority, grants, call>>

Tick ==
    /\ clock < MaxTime
    /\ clock' = clock + 1
    /\ UNCHANGED <<authority, flow, grants, records, call, lease, worker>>

Lease(action) == action /\ UNCHANGED oauth

OAuthNext ==
    \/ \E f \in Flows : BeginFlow(f) \/ Authenticate(f) \/ Consent(f)
    \/ \E c \in Calls :
         \/ \E i \in Ids : Present(c, i)
         \/ Replay(c) \/ Mint(c) \/ Refuse(c)
         \/ Accept(c) \/ Deny(c) \/ Fail(c)
    \/ \E g \in DOMAIN grants : Disconnect(g) \/ OwnerRevokes(g)
    \/ \E i \in Ids : RevokeToken(i)
    \/ ChangePersonaToken \/ UpdatePersona \/ Suspend \/ Recover
    \/ \E w \in Workers :
         \/ Lease(Cleaner!Claim(w)) \/ Lease(Cleaner!Begin(w))
         \/ Clean(w) \/ Lease(Cleaner!Rollback(w))
         \/ Lease(Cleaner!Release(w)) \/ Lease(Cleaner!Crash(w))
    \/ Lease(Cleaner!Expire)
    \/ Tick

OAuthSpec == OAuthInit /\ [][OAuthNext]_oauthVars

-----------------------------------------------------------------------------
(* Properties.                                                             *)

\* Of each authorization that a user gave, at most one credential can still
\* be exchanged, however many calls present the same one at once.
OneHead ==
    \A f \in Flows :
        Cardinality({i \in Ids : /\ grants[records[i].grant].flow = f
                                 /\ records[i].kind # "access"
                                 /\ records[i].present
                                 /\ ~records[i].spent}) <= 1

CallEnds(c) == Busy(c) /\ call'[c] = FreeCall

\* Whoever presents a credential that had been spent ends its family, unless
\* the call fails: no cleanup, expiry or lost race hides the replay.
ReplayEndsFamily ==
    [][\A c \in Calls :
         call[c].spent /\ CallEnds(c) /\ (Replay(c) \/ Mint(c) \/ Refuse(c))
         => LET g == Record(c).grant IN
            grants'[g].revoked \/ grants'[g].until <= clock']_oauthVars

\* A call that began after its grant had ended, by revocation, by expiry or
\* by a change of the authority, neither mints nor is accepted: no recovery
\* brings a grant back.
EndedIsFinal ==
    [][\A c \in Calls :
         call[c].late /\ CallEnds(c) => ~(Mint(c) \/ Accept(c))]_oauthVars

\* Only the owner of the lease cleans, and one process at a time: a process
\* that lost it before it began does nothing, and nobody takes it from one
\* that is at work.
CleaningHoldsLease ==
    \A w \in Cleaner!Cleaning :
        lease.owner = w /\ Cleaner!Cleaning = {w}
=============================================================================
