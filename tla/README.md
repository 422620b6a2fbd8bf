# Verification of plug_mcp (persona v2)

TLA+ specifications of the concurrent core of the Se7e MCP server, TLC
configurations that check them on small instances, and TLAPS proofs of their
main theorems for every instance. `PROJECT.json` maps each definition to the
lines that it models and each checked property to a slip that it catches.

    tlc -workers 2 -config SqlOperations.cfg SqlOperations       # a run
    tlapm SqlOperations_proofs.tla                                # a proof

Names follow the source, Portuguese included: `estado`, `comprovante`,
`vencida` are the columns; `executando`, `resultado_desconhecido` the states.

## 1. The system

A *persona* is an identity that answers an MCP consumer with data and actions
of the business systems of its owner. The server (TypeScript, PostgreSQL,
optionally Redis) runs in several replicas beside worker processes. What it
acts on is remote: the agents of the *hub* (`plug-server`), which execute SQL
near the business base and keep a journal; providers of external integrations;
receivers of notifications. The active generation is persona v2
(`src/src/**/persona-v2`); the legacy one shares no state with it.

Most handlers are transactions that lock the row of the persona, separated by
awaits of the network. The hard part is what can happen during those awaits.

| Component | State it keeps | Operations | What makes it correct |
| --- | --- | --- | --- |
| SQL operations | `operacao_v2`, approval, reconciliation, the source's `cache_revision` | prepare, approve, execute, get, cancel, reconcile | one dispatch, true and final outcomes, a fence over every write |
| External actions | `external_action_v2`, approval, reconciliations | prepare, approve, execute, get, review, cancel, reconcile | one effect, sent in time, final outcome |
| Query reuse | process map of jobs, cache entries, leases (memory or Redis) | query, join, lead, publish, release | no stale delivery, one SQL per key, no leak of slots |
| Notification outbox | endpoint, `outbox_v2` | configure, suspend, enqueue, claim, authorize, finish | at least once within a budget, no late overwrite |
| Retention, ephemeral and review workers | leases, deadlines | claim the lease, process, commit under it | one worker per job |
| OAuth server | authorizations, codes, token families | begin, consent, token, refresh, revoke | codes used once, a replay ends the family |
| Setup and owner delegation | setup codes, owner sessions | start, inspect, complete, revoke | one use, under a revalidated owner |
| Vault rotation | key generation, cursor | start, rewrap, progress, finish | resumable, never a row under a lost key |
| Attachments | rows with their file and expiry, quota | create, read, deadline, clean | what is handed over is current, a refused caller leaves no row |
| Federation | budgets of the parts | execute | no part beyond the shared budget |
| Private catalog | drafts, cases, publications | edit, test, publish, suspend | what is published is what was tested |
| Shared knowledge | members, draft, publications, proposals, previews | draft, preview, publish, suspend, propose, incorporate, reject | published as reviewed, no proposal over another unseen |
| Knowledge review | calendars, tasks, feedback | schedule, decide | one open review per publication |
| Sources and tokens | credentials, hub tokens | login, invalidate, rotate | a late login never replaces a newer one |
| Administration, catalog of the consumer | personas, tokens, grants | compare-and-swap transactions | authority read and used in one transaction |
| SQL analysis, training texts, guidance | none | pure functions | unit tests |
| HTTP, MCP, composition, web, legacy | none of the above | routing | not core |

They meet in few places. SQL operations, external actions and reviews produce
notifications in their own transactions. Cached queries read the fence that SQL
operations move. Retention purges the rows of both kinds of operation.
Suspension and revocation change the authority that every handler checks.

The hazards these interactions expose are listed in `PROJECT.json`, each at
its line, with the properties that cover it.

## 2. The modules

| Module | Models | Run | Proved in |
| --- | --- | --- | --- |
| `SqlOperations` | SQL operations, their agent, retention | `sql_operations` | `SqlOperations_proofs` |
| `ExternalActions` | external actions, their transport, retention | `external_actions` | `ExternalActions_proofs` |
| `WriteOutcome` | *abstract*: what is promised of a write | property of the two above | both |
| `WriteFence` | *abstract*: the writer a cache can trust | property of `sql_operations`, environment of `QueryReuse` | `SqlOperations_proofs` |
| `QueryReuse` | cached queries on several replicas | `query_reuse` | `QueryReuse_proofs` |
| `NotificationOutbox` | endpoint, outbox and its workers | `notification_outbox`, `notification_outbox_live` | `NotificationOutbox_proofs` |
| `WorkerLease` | the lease of one job among worker processes | `oauth_tokens`, which composes it | `Authorization_proofs` |
| `OAuthTokens` | authorizations, codes, tokens, revocation, cleanup | `oauth_tokens` | `Authorization_proofs` |
| `VaultRotation` | the rotation command, its journal, writers, startup | `vault_rotation` | `Credentials_proofs` |
| `CatalogPublication` | drafts, runner, previews, publications, federated requests | `catalog_publication` | `Publications_proofs` |
| `SourceTokens` | sessions of the hub, calls of two gateways, changes of a source | `source_tokens` | `Credentials_proofs` |
| `TemporarySetups` | links of one use, the delegation here and at the hub | `temporary_setups` | `Authorization_proofs` |
| `Attachments` | creation, deadline, download and cleanup of files | `attachments` | `Attachments_proofs` |
| `SharedKnowledge` | a catalog's members, a pattern, its publications and proposals | `shared_knowledge` | `Publications_proofs` |

An `MC` module holds what TLC alone needs of a module: symmetry, bounds on the
work under way, the values of structured constants.

`WriteFence` is where two components meet. `SqlOperations` is shown to
implement it; `QueryReuse` runs against it and not against the whole
lifecycle. The composition is thus checked, and proved, in two halves.
`Attachments` reads the same fence through the fresh query that feeds a file.
`OAuthTokens` instantiates `WorkerLease`: its cleanup is the transaction that
the lease protects, and each other action leaves the lease alone.

Conventions. A transaction is one action. A handler that awaits is several,
and `pc[p]` (also `envio[p]`, `job[r]`) is the place of its suspension; its
local variables are functions of the process. `Procs`, `Reqs` and `Workers` are
requests and workers of all replicas. A crash forgets the locals and keeps the
rows. Deadlines are flags that may be raised at any time (`vencida`, `late`,
`expired`, `old`, `abortado`), so every relative speed is explored. Fingerprints,
SQL, values and texts are abstracted; a guard that compares them is either the
identity of the row or a nondeterministic refusal. A definition with a longer
name beside another (`Executavel`, `ExecutavelReenvio`) is a slip that the
properties are known to catch; nothing else refers to it.

### SqlOperations

`estado`, `exigeAprovacao`, `aprovacao`, `vencida`, `payload`, `comprovante`
and `conciliacao` are columns; `autoridade` is what the authority checks would
find; `revisao` the source's `cache_revision`. `rede`, `diario`, `aplicada` are
commands on their way, the agent's journal and the business base (external,
from what the gateway accepts of them). A request walks through claim,
revalidation, dispatch, reply and settlement; `get` reads the journal between
transactions; `cancel` asks the agent; `reconcile` runs a query and records
evidence. Any reply may be lost or late, any request may die at any place, the
row is left `executando`, and only a journal lookup can resolve it.

### ExternalActions

The same lifecycle without a journal on the other side. A handler `pc[p]` and
the transport's continuation `envio[p]` are separate: when the deadline wins
the race in `PublicExternalHttp.send`, the continuation lives on and may still
commit the claim, its handler being gone; the check of the signal before
`network.send` is what keeps it from sending. `PrazoEncerrado` is the condition
`claimedAt + timeoutMs + 5000 <= now`: the timer starts before the claim, so
whoever claimed is past its deadline then or died. This takes the clocks of the
replicas to agree within the five seconds of margin, as the code does.
Reconciliations are an append-only set, and the order in which they were
observed is abstracted. A suspended persona blocks `review`; suspension is
modelled only as a changed authority.

### QueryReuse

One physical source written by `WriteFence`. The key of a result is reduced to
the fence's revision, since all that the code puts in it otherwise is
equal for the requests that could share. A request reads its evidence, is
revalidated, joins or leads a job, and is revalidated on delivery; a job reads
the store, claims, follows, produces, verifies, publishes and releases. Memory
and Redis stores are both initial states. Leases outlive the longest deadline of
their owner (120 s against 60 s at most). A Redis that restarts without its
leases is not modelled: `FreshDelivery` does not use leases, `SingleFlight`
would only lose its point.

### NotificationOutbox

A row `<<v, s>>` announces state `s` of one operation to version `v` of one
endpoint. `Advance` is the trigger in the transaction of the state change;
`Configure` and `Suspend` close pending rows in theirs. A worker claims (closing
what can no longer be delivered and counting the attempt in the same
transaction), is authorized before and after the address is resolved, posts,
and finishes if the claim is still its own. All these transactions lock the
persona or the row, so they are atomic and `SKIP LOCKED` never skips a row
here; the limits of a batch and `available_at` only delay a claim. Each POST
is lost, received, or received with its answer lost. A worker that is stopping
gives up and claims no more, which `GivesUp` and idling already include.

### WorkerLease and OAuthTokens

The lease is its row: an owner, and whether the database's clock has passed its
expiry. A process claims it (`claimWorkerLease`), looks again and locks the row
(`Begin`), and looks once more before the commit, or rolls back. A flow is a
transaction of the browser, consumed by the consent that creates a grant and
its code. A call looks its credential up without a lock (`Present`) and is
decided in one later transaction that locks the persona, the token, the grant
and the record: `Replay`, `Mint` or `Refuse` of a code or refresh token,
`Accept` or `Deny` of an access token, or `Fail`. Persona and token are one
authority with one version; the three expiries follow one clock, which steps
between any two actions. A record that the cleanup deleted keeps its place with
`present` false. The token's own expiry and the difference between the clocks
of the application and the database are not modelled.

### VaultRotation

`rows` holds the key of each committed row, `tx` the write that a process has in
flight, `runs` the journal, `session` the command behind the advisory lock. The
trigger of 0030 holds the active key's row until the writer commits, so `Start`
waits for every writer that passed the gate (`GateReleased`). A batch locks its
rows after the cursor, rewraps them and moves the cursor in one transaction.
`Interrupt` is `--max-batches`, a lock timeout or a crash, anywhere. Servers boot
with any key and keyring that the startup check accepts, and are never told of
a rotation. Two steps of `docs/persona-v2/vault-rotation.md` are taken as
followed, since the code cannot enforce them: writes are paused before the
first activation (the gate is open until then), and the keys in use stay in the
keyring of the command. Key material and fingerprints are one with the key's
ID; the refusals of a reused ID are not modelled.

### CatalogPublication

A package is what its hash covers: the draft's revision and, for a query, its
source's version (`sourceFingerprint`); cases move the revision too. `Capture`,
`Test` and `Report` are the runner's three looks, the cases being executed
between them outside any lock, with `Unchanged` as its fence. Two reports on one
package rank by the start of their transactions (`created_at`), not of their
commits: hence the second disjunct of `SaveReport`. The review plan is one row
per draft, with a version, bound to a package. `BuiltOn` is the recursive query
of `suspendSourcePublications`, whose depth is two here: a federation is built on
queries only. A federated request reads one source after the other, each
authorised before and compared after, and all again before the delivery. Of
the retained checks only those that `Visible` states are asked again.
SQL operation packages, candidate examples, shared knowledge, delegates, dates
of review and budgets are not modelled.

### SourceTokens

A manager (`SourceTokenManager`) is the one of a gateway of a process: `sessions`
its cache, `pending` its map of logins that calls may join, `attempts` the logins
themselves, which outlive their entry. A call reads the credential, gets a
session or a login, reads again and shows both to the hub; each read of the
database is a step of its own where an answer can be outdated when it is used.
A change of the source (`edits`) commits and only then discards the sessions of
its own process: those of others go stale and are found out by their version.
`valid` is the closure's flag, `doomed` a history variable: a discard came while
the login was under way. The hub's answers are any. The policy cache, the
verifier's protocol and the tokens of users (legacy) are not modelled.

### TemporarySetups

The delegation is `local`, the row, and `hub`, per record that the hub keeps.
`verify` is `ReadLocal`, `AskHub`, `ReadAgain`; a start verifies once and a post
twice (`round`). `Write` is the transaction of `complete`, of the token, the
integration or the source: the second `authorize` in it sees what the first saw,
since it holds the locks. The owner's requests end, create, save and undo by
separate calls. The versions of persona, token and grant are one number, the
permissions are part of the delegation's version, and times are flags. The
proof of the form (CSRF), the browser session's own end (a `GiveUp`), and what a
registration contains are not modelled.

### Attachments

A creation checks, queries the source afresh, compares the structure, verifies
policy and authority again (`Reauthorize`), puts the row under the quota, audits
and hands the handle over; a download is the same around `get`. `bounded`
rejects the caller at its deadline while the action goes on behind it: `answer` is
what the caller knows, `phase` where the action is, and `Remove` is the attempt
to take back what a refused or late creation left. A put may commit with its
answer lost; a removal may fail; a crash stops the action anywhere; the cleanup
deletes what expired. `authority` counts changes of publications, sources,
limits and grants, `policy` those of the hub; `Write` is the operation that moves
the fence. Formats, sizes, media types and encryption are abstracted. A consumer
other than the file's finds no row, so only one consumer is modelled.

### SharedKnowledge

Each request is one transaction under the lock of the catalog's row, so each is
one action; what lies between two requests is what their author was shown, a
`form`: a draft that is edited, the preview of a publication or of an
incorporation. A form carries what the row of its preview stores, and the
confirmation compares it (`Shown`). A proposal says of one item what it should be,
against a publication (`base`); it is incorporated only where the draft still
has what the base had (`SameTarget`). An example that a proposal brings is a
candidate until a member writes it otherwise. Hashes are the content itself.
The library, adoption by personas and the review plans are not modelled.

## 3. What the runs show

| Run | Instance | States | Shows |
| --- | --- | --- | --- |
| `sql_operations` | 1 operation, 3 requests | 183,723 | one dispatch, approved; terminal states are true; what is known is kept; both refinements; a claim settles while the server is up |
| `external_actions` | 1 action, 2 requests | 65,042 | one effect, claimed, in time; final outcome; refinement; an abandoned claim is recognised |
| `query_reuse` | 2 requests, 2 replicas, 1 write, 2 revisions, 1 slot | 369,210 | only current readings are delivered, also after the write ended; one SQL per key, jobs leave the in-flight map |
| `notification_outbox` | 2 workers, 2 versions, 2 states, 2 attempts | 1,223,382 | true deliveries within budget, in the order of what they announce; no late overwrite |
| `notification_outbox_live` | 2 workers, 2 versions, 1 state, 2 attempts | 7,604 | no row pending for ever |
| `oauth_tokens` | 1 flow, 2 calls, 2 workers, 2 ticks, 5 records | 931,338 | one live credential, replay ends the family, ended is final, one cleaner |
| `vault_rotation` | 2 keys, tables of 2 and 1 rows, 1 server, 2 runs, 1 interrupt | 172,686 | clean behind the cursor, readable after the check, completes |
| `catalog_publication` | 2 queries, 1 federation, 2 previews, 1 runner, 1 request, 2 changes | 1,794,070 | published as tested and as shown, stale is suspended, current in every part |
| `source_tokens` | 2 calls of the queries, 1 of the operations, 1 process, 2 logins, 3 versions | 1,331,211 | late logins answer nobody, one login in effect, no session of a rotated account, client token and session of one version |
| `temporary_setups` | 1 link, 2 posts, 2 owner requests, 2 records, 2 versions | 1,140,732 | a link acts once, under the record confirmed to the post; renewals leave no record in force behind |
| `attachments` | 2 creations, 1 download, 1 write, quota 1 | 2,148,884 | nothing stale is handed over, a refused caller leaves no row |
| `shared_knowledge` | 2 owners, 2 forms, 2 proposals, 1 table, 1 example, 3 revisions, 2 publications | 1,343,809 | published as reviewed, no proposal over another unseen |

The runs check safety and liveness together where the instance allows it. The
type invariants were checked on the same instances while the modules were
written; where a module has proofs they are the first theorem.

Bounds. Operations do not interact in either lifecycle except through the
persona's lock and the source's revision, so one operation with three competing
requests (two racing, a third reading, cancelling or reconciling) has the cases;
two operations exceed what TLC finishes in minutes, and the proofs cover any
number. One write and the two revisions that it lies between suffice for a torn
or stale read: before the write, under it, and after it has ended with the newer
revision, when results of the older one are stored, awaited or on their way.
Requests and replicas have no names of their own; liveness forbids `SYMMETRY`,
so `FirstByName` calls r1 the request that begins first and n1 its replica, and
cuts off only their renamings. Two requests fly at once or one after the other's lease; a
third that flies after a late leader gave its lease back rests on the proof of
`SingleFlight`. Two attempts and two workers give a successor and its zombie;
two versions and two states give a change of each during a POST. `MaxRevision`,
`MaxVersion` and `MaxState` bound counters in the guards of `Write`, `Configure`
and `Advance`; `MaxInflight` and `MaxAttempts` are limits of the code at smaller
values. Five credentials are a code and two exchanges, so that a spent code and
a spent refresh token meet their successors; the grant outlives them by a tick,
which is when the cleanup could hide a replay; `FewAtWork` keeps at most three
calls and workers busy at once. Two keys and two runs give a rotation and one on
top of it, over a batch of one row with a table that has more than one. In the
catalog two changes suffice to change something and change it back, or to
change a part while another is under way, and `FewAtWork` keeps at most two
previews, runs and requests at once; `MaxChanges` and `MaxPublications` bound the
guards of `Change` and `Publish`. Two calls share or overtake a login; three
versions are a rotation under way, its discard and another one. They run in one
process, which is the scope of the session manager; a rotation by another process
is covered by the theorems only, for any number of processes. Two posts of one
link race, or a post and a renewal, or two renewals: `FewAtWork` keeps two at
once. Two creations under a quota of one compete for it, and the download meets
either's file; again two are at work at once, and one change of the authority
or the policy is seen. Of a catalog's members `OneSetback` keeps one change of
a role, one suspension or one rejection, and `Rivals` has the proposals made for
one item. A table and an example are the two kinds of item: what a proposal
writes in a table can be published and then proposed over, which is when one
value rightly replaces another, and takes the three revisions and the two
publications; an example is a candidate besides. Two forms are a preview and
what overtakes it.
`MaxAuth`, `MaxAuthority`, `MaxVersion`, `MaxChange`, `MaxRevision` and
`MaxPublished` bound the guards of the changes. `CHECK_DEADLOCK FALSE` except for the sessions and
the links, whose calls may always come again: operations end, budgets are spent,
and then nothing is left to do.

Fairness. `SqlOperations`: the steps of a handler that runs (its awaits end by a
reply or by the transport's timeout), without crashes, because only a journal
lookup, which a consumer need not ask for, resolves a row after a crash. For the
safety properties of that run a handler that is suspended for ever stands for
one that crashed; the theorems are about `Spec`, which has `Crash`.
`ExternalActions`: handlers, and that somebody keeps reading the journal
(`review`), as the documentation asks; crashes included. `QueryReuse`:
continuations and timers of each process. `NotificationOutbox`: workers cycle
and are restarted, and time passes. `VaultRotation`: the operator resumes what
was cut off, now and then with the keyring that the journal asks for, sessions
go on, and transactions end; row locks queue, so a batch that is possible again
and again gets them (strong fairness). The catalog, the OAuth server, the
sessions, the links, the files and the shared knowledge promise nothing of what
must happen. Agents, providers, receivers, owners,
consumers and lease expiry of Redis owe nothing.

## 4. What is proved

All for any finite or infinite sets of operations, requests, replicas and any
bounds; of the outbox's workers and of the creations of files, any finite set.

*SqlOperations* (`SqlOperations_proofs`). Neither "sent at most once" nor
"terminal is true" is inductive. `IInv` adds that a preparation was never
claimed or sent (`PreparacaoIntacta`), that one request is between claim and
outcome (`ExecutorUnico`), that the agent's journal is consistent with what it
received (`AgenteCoerente`), that a known receipt in a request's hands or in
the row is the journal's or a withdrawal before any dispatch (`ReciboVerdadeiro`,
`EstadoVerdadeiro`), that approval precedes the claim, and that no write was
applied under a future revision. From it: `DispatchIsSound`
(sent once, and approved), `TerminalTruth`, `FenceCoversWrites`, the action
property `KnowledgeIsKept` of outcomes and evidence, and the two refinements
`KeepsPromise` and `KeepsFence`, one step of the lifecycle at a time.

*ExternalActions* (`ExternalActions_proofs`). `IInv`: the holder of a claim
claimed a row in a sent state and sends from no other (`ClaimPrecedes`), it is
unique (`ClaimUnique`), what was sent or served was claimed (`SentClaimed`), and
once the unknown outcome is recorded its holder is aborted (`UnknownQuiet`). From
it: `EffectIsSound` (one effect, claimed and approved), `OutcomeIsFinal` (which
includes that nothing is sent once it is unknown), `KeepsPromise`.

*QueryReuse* (`QueryReuse_proofs`). `FaithInv`: every value on its way, cached,
found by a job or held by a request, misses no write of a revision older than
its key; with the fence still equal and nothing pending it is the base itself,
hence `DeliversFresh`. `FlightInv`: a job between claim and publication holds the
lease of its key until its deadline, and a process has one job per key, hence
`FliesAlone`.

*CatalogPublication* (`Publications_proofs`). Every step keeps the
publications: appended, never resumed, what they were made from unchanged
(`Kept`). `StaleIsSuspended` is inductive with the types: a publication is built
on the sources of its moment, and whoever moves one suspends all that was built
on it. `PublishedAsTested` needs `ReportsArePassed`: an approved report, and a
run that passed, are about a package whose cases passed; the runner's fence
makes the report's package the tested one. `FederationDelivers` needs
`ReadsArePublished`: what a request read of a query is the version under which
the publication that its federation names was built, superseded or not.

*SourceTokens* (`Credentials_proofs`). `NoLateToken` is not inductive, nor is
`OldAccountGone`. `LateIsInvalid` says that a login overtaken by a discard has
lost its effect, which needs `OneLogin`, itself inductive: the only login with an
effect is the one in the map, which the discard takes out. `LateReads` says that
a login with the old account has its second read of the credential still to
come, or has found the difference; `Counts` orders the versions. `CallReads`
gives `CarrierIsOne`: what a call holds and the login it awaits are of one version.

*TemporarySetups* (`Authorization_proofs`). `Unused` (an open link has changed
nothing) gives `OnceEach`. The second confirmation of a post is compared with
nothing, so `ChangesUnderConfirmed` needs `Verified`: the version it confirmed lies
between the link's and the row's, which the transaction finds equal, and a
version has one record. `Replaced` gives `NoOverlap`: while the row is as the
renewal saw it, the record that it ended is the row's.

*NotificationOutbox* (`NotificationOutbox_proofs`). `SoundDelivery` is not
inductive. `Budgeted` adds that the workers which counted an attempt and have
not posted yet, together with the POSTs, are within the row's count, which takes
the finiteness of the workers; `Truthful` that an answer in a worker's hands was
received; `NotYet` that no row announces a state, or serves a subscription, to come;
`Subscribed` that a pending row serves the one in force, leased or not. The last
two order the rows by what they announce, which the check of the row's own
authority in `finish` does not do alone. From it: `DeliveriesAreSound`,
`DeliveriesAreInOrder`, `EndedStaysEnded` and `ClaimsEndByTheirWorker`.

*Attachments* (`Attachments_proofs`). `Told` relates what a caller knows to where
its action is. `FaithInv` adds that a write applied under the current revision is
still pending (`WritersFenced`), that what a creation read misses no write older
than its fence (`CreationsFaithful`), and that no request is served under a
policy older than the one it began under (`PoliciesKept`); with the last
comparison it gives `ArtifactsAreFresh`. `GoneInv` (a refused request whose row
may stand still has to remove it) gives `RefusalsRemove`.

*VaultRotation* (`Credentials_proofs`). `RotationInv`. `CleanBehindCursor` says of
the rows that the next session will not visit, and of what a writer still has
to write, that both are under the rotation's key; it needs that the active key
is the newest rotation's (`ActiveIsLast`), what a session relies on between two
transactions (`SessionStands`), and, of a batch, that its last row is the cursor
to come and that an empty one means the table is done. `ReadableAfterCheck` needs
that the journal names every key in use (`KeysRequired`) and what the startup
check compared the ring with (`Checked`); the row of a rotation that is running
asks for more keys than the one of a rotation that completed.

*OAuthTokens* with *WorkerLease* (`Authorization_proofs`). `OneHead` counts the
credentials that can be exchanged of one authorization. The proof takes it apart:
an authorization has one grant, and none before it is consumed (`OneGrant`), and
a grant has one such credential (`OneExchangeable`), which the exchange marks as
spent in the step that writes its successor. `ReplayEndsFamily` and `EndedIsFinal`
are about calls that read first and decide later: `CallsKnow` says that what they
read is still so, because no step takes back that a credential is spent or a
family revoked, and neither time nor versions go back (`Grows`, `Forward`). A
cleanup hides no replay because what it deletes had a lapsed grant (`GoneLapsed`).
`CleaningHoldsLease` needs that nobody takes the row from a worker whose
transaction is open (`CleanerOwns`), expired lease or not.

*SharedKnowledge* (`Publications_proofs`). `SteadyShown`: no form carries a
revision, a version or a number of publications beyond the present ones, and one
that carries the present ones has seen no change, since a change makes one of the
three grow; without the version in the comparison (`ShownDraft`) it says nothing
of the members. `ApprovedStands`: an example of the draft that is no candidate was
written by a member, since a proposal only brings candidates. Both give
`OnlyReviewedIsPublished`. `AuthorStands`: an item that has an author is what that
proposal said, whatever was written elsewhere since; with the comparison of the
target it gives `NoUnseenReplacement`.

Three of the eight proof modules are about two components each and extend both,
which is why `VaultRotation`, `OAuthTokens` and `SharedKnowledge` have names of
their own for what every module has (`RotationInit`, `OAuthNext`, `KnowledgeSpec`).

Assumptions: the ASSUMEs named in the modules (bounds are numbers, a null value is
not a real one), which TLC evaluates in every run; the theorems add none. Each inductive invariant was checked on the run's
instance before it was proved. With this every invariant and every action
property of the runs, and both refinements, is a theorem. Only model-checked:
the five liveness properties (`ClaimSettles`, `JobsDrain`, `ClaimRecognised`,
`PendingEnds`, `RotationCompletes`), which fairness and ENABLED put outside the
prover's reach.

## 5. What is not modelled, and the plan

Not modelled: SQL analysis, texts, formats, HTTP and MCP routing, composition,
web console, the legacy generation; encryption, hashes and addresses inside the
modelled parts; loss of committed database or Redis state; the shared budgets of
federated requests; the review plans, calendars and tasks of publications;
administration and maintenance, single transactions with compare and swap whose
effects on the other parts are actions of those parts; physical profiles.

One thing met on the way and left open: when a delegation is revoked and the hub
does not answer, the record stays in force there, and a later renewal does not
end it, since it ends only the record of a row that is not revoked
(`owner-delegation.ts`, `revoke` and `create`). Nothing on this side uses that
record, which is why no property speaks of it.

Work left, in order. Done: every module of section 2.

1. The rest of partly modelled parts: review plans and tasks of publications;
   adoption of shared knowledge into a persona's drafts; SQL operation packages
   in `CatalogPublication`.
2. External integrations, whose drafts and contracts are published as the
   catalog's are; a pure module for the consumer's authorization.
