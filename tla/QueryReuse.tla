----------------------------- MODULE QueryReuse -----------------------------
(***************************************************************************)
(* Cache and singleflight of the persona's queries, behind the fence of    *)
(* the physical source's revision and pending writes.                      *)
(*                                                                         *)
(* Source: PersonaSourceQueries.execute (the request), PersonaQueryReuse   *)
(* (its in-flight jobs), PersonaRedisQueryStore and                        *)
(* PersonaMemoryQueryStore (leases and entries), revalidateQuery and       *)
(* queryCacheFence (the fence).  The writers are WriteFence, which the     *)
(* lifecycle of SqlOperations implements.                                  *)
(*                                                                         *)
(* Every request is one consumer's same query, so the fence's revision is  *)
(* all that tells one cache key from another.  What a query reads is the   *)
(* set of writes applied to the business base.                             *)
(***************************************************************************)
EXTENDS Naturals, FiniteSets

CONSTANTS
    Ops,          \* the writes of the physical source
    Reqs,         \* requests of the query
    Replicas,     \* server processes
    Redis,        \* the shared store
    MaxInflight,  \* MAX_INFLIGHT jobs of a process
    MaxRevision   \* bound on the revisions explored

ASSUME SharedStoreAssumption == Redis \notin Replicas
ASSUME BoundsAssumption == MaxInflight \in Nat /\ MaxRevision \in Nat

VARIABLES
    pendentes, aplicadas, revisao, marca,  \* the writers, see WriteFence
    shared,    \* the deployment has Redis; otherwise entries are per process
    entries,   \* store -> key -> at most one stored result
    flight,    \* key -> the owner of Redis' flight lease, at most one
    \* Requests.
    pc, home, fence, pending, start, value, lead,
    late,      \* the deadline has passed
    \* In-flight jobs, named for the request that leads them.
    job, found,
    alone      \* the claim failed: the job runs without the store

writers  == <<pendentes, aplicadas, revisao, marca>>
stores   == <<entries, flight>>
evidence == <<home, fence, pending, start>>
requests == <<pc, evidence, value, lead>>
jobs     == <<job, found, alone>>
vars == <<writers, shared, stores, requests, late, jobs>>

Writes == INSTANCE WriteFence

Stores == Replicas \cup {Redis}
Keys   == 0..MaxRevision
\* Optional results and owners: {} is none, {v} is v.
Results == {{}} \cup {{v} : v \in SUBSET Ops}
Leases  == {{}} \cup {{j} : j \in Reqs}
Ended  == {"delivered", "refused"}

TypeOK ==
    /\ pendentes \subseteq Ops /\ aplicadas \subseteq Ops
    /\ revisao \in Keys /\ marca \in [Ops -> Keys]
    /\ shared \in BOOLEAN
    /\ entries \in [Stores -> [Keys -> Results]]
    /\ flight \in [Keys -> Leases]
    /\ pc \in [Reqs -> {"idle", "check", "run", "await", "direct", "deliver"}
                          \cup Ended]
    /\ home \in [Reqs -> Replicas]
    /\ fence \in [Reqs -> Keys]
    /\ pending \in [Reqs -> BOOLEAN]
    /\ start \in [Reqs -> SUBSET Ops]
    /\ value \in [Reqs -> SUBSET Ops]
    /\ lead \in [Reqs -> Reqs]
    /\ late \in [Reqs -> BOOLEAN]
    /\ job \in [Reqs -> {"none", "read", "claim", "follow", "reread",
                          "produce", "verify", "publish", "release"}]
    /\ found \in [Reqs -> Results]
    /\ alone \in [Reqs -> BOOLEAN]

Init ==
    /\ Writes!Init
    /\ shared \in BOOLEAN
    /\ entries = [s \in Stores |-> [k \in Keys |-> {}]]
    /\ flight = [k \in Keys |-> {}]
    /\ pc = [r \in Reqs |-> "idle"]
    /\ home \in {[r \in Reqs |-> n] : n \in Replicas}
    /\ fence = [r \in Reqs |-> 0]
    /\ pending = [r \in Reqs |-> FALSE]
    /\ start = [r \in Reqs |-> {}]
    /\ value = [r \in Reqs |-> {}]
    /\ lead = [r \in Reqs |-> r]
    /\ late = [r \in Reqs |-> FALSE]
    /\ job = [r \in Reqs |-> "none"]
    /\ found = [r \in Reqs |-> {}]
    /\ alone = [r \in Reqs |-> FALSE]

-----------------------------------------------------------------------------
(* Helpers.  The variants beside them are the slips that the properties    *)
(* below are checked to catch; nothing else uses them.                     *)

\* revalidateQuery: evidence read with a pending write carries no fence, any
\* other must find the same revision and still no pending write.
CurrentPending(r) == ~pending[r] => pendentes = {}
Current(r) == ~pending[r] => revisao = fence[r] /\ pendentes = {}

Store(j) == IF shared THEN Redis ELSE home[j]
Stored(j) == entries[Store(j)][fence[j]]

\* The jobs of process n.
Inflight(n) == {j \in Reqs : job[j] # "none" /\ home[j] = n}
SameKeyAny(n, k) == Inflight(n)
SameKey(n, k) == {j \in Inflight(n) : fence[j] = k}

\* SET NX: the lease is taken only when nobody holds it.
FreeAlways(k) == TRUE
Free(k) == flight[k] = {}

Take(j) == flight' = [flight EXCEPT ![fence[j]] = @ \cup {j}]

\* The lease is given back, by its owner only.
GiveBack(j) ==
    flight' = [flight EXCEPT ![fence[j]] = IF @ = {j} THEN {} ELSE @]

\* The job is out of time.  A follower polls only until then.
NeverExpired(j) == FALSE
Expired(j) == late[j]

Goes(r, place) == pc' = [pc EXCEPT ![r] = place]
JobGoes(j, phase) == job' = [job EXCEPT ![j] = phase]

\* The job ends with result v, or with an error ({}): it leaves the in-flight
\* map and every request that awaits it is answered.
Resolve(j, v) ==
    LET waiting == {r \in Reqs : pc[r] = "await" /\ lead[r] = j} IN
    /\ JobGoes(j, "none")
    /\ found' = [found EXCEPT ![j] = {}]
    /\ alone' = [alone EXCEPT ![j] = FALSE]
    /\ pc' = [r \in Reqs |->
                IF r \in waiting
                THEN IF v = {} THEN "refused" ELSE "deliver"
                ELSE pc[r]]
    /\ value' = [r \in Reqs |->
                   IF r \in waiting /\ v # {} THEN UNION v ELSE value[r]]
    /\ UNCHANGED <<evidence, lead>>

\* The job goes on to its next phase, with what it has found.
Continue(j, phase, v) ==
    /\ JobGoes(j, phase)
    /\ found' = [found EXCEPT ![j] = v]
    /\ UNCHANGED <<requests, alone>>

\* An error after the claim: a lease is given back first.
Fail(j) == IF alone[j] THEN Resolve(j, {}) ELSE Continue(j, "release", {})

-----------------------------------------------------------------------------
(* The request.                                                            *)

\* The evidence of the query: one statement reads both sides of the fence.
Query(r) ==
    /\ pc[r] = "idle"
    /\ Goes(r, "check")
    /\ \E n \in Replicas : home' = [home EXCEPT ![r] = n]
    /\ fence' = [fence EXCEPT ![r] = revisao]
    /\ pending' = [pending EXCEPT ![r] = pendentes # {}]
    /\ start' = [start EXCEPT ![r] = aplicadas]
    /\ UNCHANGED <<writers, shared, stores, value, lead, late, jobs>>

\* The hub's lease, authority and fence hold; a pending write, a structural
\* proof or volatile SQL excludes reuse.
Revalidate(r) ==
    /\ pc[r] = "check"
    /\ ~late[r]
    /\ Current(r)
    /\ \E place \in {"run", "direct"} :
        /\ pending[r] => place = "direct"
        /\ Goes(r, place)
    /\ UNCHANGED <<writers, shared, stores, evidence, value, lead, late, jobs>>

\* A job of this process on the same key is joined...
Join(r) ==
    /\ pc[r] = "run"
    /\ \E j \in SameKey(home[r], fence[r]) : lead' = [lead EXCEPT ![r] = j]
    /\ Goes(r, "await")
    /\ UNCHANGED <<writers, shared, stores, evidence, value, late, jobs>>

\* ... or a new one begins, if the process has room for it.
Lead(r) ==
    /\ pc[r] = "run"
    /\ SameKey(home[r], fence[r]) = {}
    /\ Cardinality(Inflight(home[r])) < MaxInflight
    /\ lead' = [lead EXCEPT ![r] = r]
    /\ JobGoes(r, "read")
    /\ Goes(r, "await")
    /\ UNCHANGED <<writers, shared, stores, evidence, value, late, found, alone>>

\* The wait ends at the request's own deadline; the job goes on.
WaitTimeout(r) ==
    /\ pc[r] = "await"
    /\ late[r]
    /\ Goes(r, "refused")
    /\ UNCHANGED <<writers, shared, stores, evidence, value, lead, late, jobs>>

\* The query without reuse reads the base itself.
DirectRead(r) ==
    /\ pc[r] = "direct"
    /\ value' = [value EXCEPT ![r] = aplicadas]
    /\ Goes(r, "deliver")
    /\ UNCHANGED <<writers, shared, stores, evidence, lead, late, jobs>>

\* Every request is checked once more, whoever read its result.
Deliver(r) ==
    /\ pc[r] = "deliver"
    /\ ~late[r]
    /\ Current(r)
    /\ Goes(r, "delivered")
    /\ UNCHANGED <<writers, shared, stores, evidence, value, lead, late, jobs>>

\* Stale fence, lost authority, no room, failed read or deadline.
Refuse(r) ==
    /\ pc[r] \in {"check", "run", "direct", "deliver"}
    /\ Goes(r, "refused")
    /\ UNCHANGED <<writers, shared, stores, evidence, value, lead, late, jobs>>

-----------------------------------------------------------------------------
(* The job.                                                                *)

\* An unreadable entry or store is a miss.
ReadStore(j) ==
    /\ job[j] = "read"
    /\ \/ Expired(j) /\ Resolve(j, {})
       \/ ~Expired(j) /\ Stored(j) # {} /\ Resolve(j, Stored(j))
       \/ ~Expired(j) /\ Continue(j, "claim", {})
    /\ UNCHANGED <<writers, shared, stores, late>>

\* The process' memory always grants the claim; Redis grants it or not.
Claim(j) ==
    /\ job[j] = "claim"
    /\ IF shared
       THEN \/ ~Free(fence[j]) /\ Continue(j, "follow", {}) /\ UNCHANGED flight
            \/ Free(fence[j]) /\ Take(j) /\ Continue(j, "reread", {})
       ELSE Continue(j, "reread", {}) /\ UNCHANGED flight
    /\ UNCHANGED <<writers, shared, entries, late>>

\* The claim fails, its effect unknown: the job runs without the store.
ClaimFails(j) ==
    /\ shared
    /\ job[j] = "claim"
    /\ \/ UNCHANGED flight
       \/ Free(fence[j]) /\ Take(j)
    /\ IF Expired(j)
       THEN Resolve(j, {})
       ELSE /\ JobGoes(j, "produce")
            /\ alone' = [alone EXCEPT ![j] = TRUE]
            /\ UNCHANGED <<requests, found>>
    /\ UNCHANGED <<writers, shared, entries, late>>

\* A follower never takes an expired or missing lease over.
Follow(j) ==
    /\ job[j] = "follow"
    /\ \/ Expired(j) /\ Resolve(j, {})
       \/ ~Expired(j) /\ Stored(j) # {} /\ Resolve(j, Stored(j))
    /\ UNCHANGED <<writers, shared, stores, late>>

\* Another leader may have published between the miss and the claim.
Reread(j) ==
    /\ job[j] = "reread"
    /\ \/ Expired(j) /\ Fail(j)
       \/ ~Expired(j) /\ Stored(j) # {} /\ Continue(j, "release", Stored(j))
       \/ ~Expired(j) /\ Continue(j, "produce", {})
    /\ UNCHANGED <<writers, shared, stores, late>>

\* The SQL runs on the agent, once, and reads the base or fails.
Produce(j) ==
    /\ job[j] = "produce"
    /\ Continue(j, "verify", {aplicadas}) \/ Fail(j)
    /\ UNCHANGED <<writers, shared, stores, late>>

\* Nothing is stored that is no longer current after the read.
Verify(j) ==
    /\ job[j] = "verify"
    /\ \/ /\ ~Expired(j)
          /\ Current(j)
          /\ IF alone[j] THEN Resolve(j, found[j])
             ELSE Continue(j, "publish", found[j])
       \/ Fail(j)
    /\ UNCHANGED <<writers, shared, stores, late>>

\* Redis stores for the owner of the lease only, and ends the lease with it.
Publish(j) ==
    LET k == fence[j] IN
    /\ job[j] = "publish"
    /\ shared => flight[k] = {j}
    /\ entries' = [entries EXCEPT ![Store(j)][k] = found[j]]
    /\ IF shared THEN GiveBack(j) ELSE UNCHANGED flight
    /\ Continue(j, "release", found[j])
    /\ UNCHANGED <<writers, shared, late>>

\* Another owner's lease, a result too large or a failure stores nothing.
NotPublished(j) ==
    /\ job[j] = "publish"
    /\ Continue(j, "release", found[j])
    /\ UNCHANGED <<writers, shared, stores, late>>

\* The lease is given back, or left to expire when the store fails.
Release(j) ==
    /\ job[j] = "release"
    /\ IF shared THEN (GiveBack(j) \/ UNCHANGED flight) ELSE UNCHANGED flight
    /\ Resolve(j, found[j])
    /\ UNCHANGED <<writers, shared, entries, late>>

-----------------------------------------------------------------------------
(* The environment.                                                        *)

\* A write of the physical source goes on.
Write ==
    /\ Writes!Next
    /\ revisao' <= MaxRevision
    /\ UNCHANGED <<shared, stores, requests, late, jobs>>

Tick(r) ==
    /\ pc[r] # "idle"
    /\ ~late[r]
    /\ late' = [late EXCEPT ![r] = TRUE]
    /\ UNCHANGED <<writers, shared, stores, requests, jobs>>

\* An entry's time to live ends, or the store evicts it.
Evict(s, k) ==
    /\ entries[s][k] # {}
    /\ entries' = [entries EXCEPT ![s][k] = {}]
    /\ UNCHANGED <<writers, shared, flight, requests, late, jobs>>

\* The lease outlives the longest deadline of its owner.
LeaseExpires(k) ==
    /\ \E j \in flight[k] : late[j]
    /\ flight' = [flight EXCEPT ![k] = {}]
    /\ UNCHANGED <<writers, shared, entries, requests, late, jobs>>

\* A process dies with its requests, jobs and memory, not with its leases.
Crash(n) ==
    LET lost == {r \in Reqs : home[r] = n /\ pc[r] # "idle"} IN
    /\ lost # {}
    /\ pc' = [r \in Reqs |->
                IF r \in lost /\ pc[r] \notin Ended THEN "refused" ELSE pc[r]]
    /\ job' = [r \in Reqs |-> IF r \in lost THEN "none" ELSE job[r]]
    /\ found' = [r \in Reqs |-> IF r \in lost THEN {} ELSE found[r]]
    /\ alone' = [r \in Reqs |-> IF r \in lost THEN FALSE ELSE alone[r]]
    /\ entries' = [entries EXCEPT ![n] = [k \in Keys |-> {}]]
    /\ UNCHANGED <<writers, shared, flight, evidence, value, lead, late>>

-----------------------------------------------------------------------------
Request(r) ==
    \/ Revalidate(r) \/ Join(r) \/ Lead(r) \/ WaitTimeout(r)
    \/ DirectRead(r) \/ Deliver(r) \/ Refuse(r)

Job(j) ==
    \/ ReadStore(j) \/ Claim(j) \/ ClaimFails(j) \/ Follow(j) \/ Reread(j)
    \/ Produce(j) \/ Verify(j) \/ Publish(j) \/ NotPublished(j) \/ Release(j)

Next ==
    \/ \E r \in Reqs : Query(r) \/ Request(r) \/ Job(r) \/ Tick(r)
    \/ \E s \in Stores, k \in Keys : Evict(s, k)
    \/ \E k \in Keys : LeaseExpires(k)
    \/ \E n \in Replicas : Crash(n)
    \/ Write

Spec == Init /\ [][Next]_vars

-----------------------------------------------------------------------------
(* Safety.                                                                 *)

\* Singleflight: two jobs run the SQL of one key and store at a time only when
\* the store failed one of them or one is past its deadline (no takeover, and a
\* late leader never ends another's lease).
SingleFlight ==
    \A i, j \in Reqs :
        /\ i # j /\ Store(i) = Store(j) /\ fence[i] = fence[j]
        /\ job[i] = "produce" /\ job[j] = "produce"
        => alone[i] \/ alone[j] \/ late[i] \/ late[j]

\* What is delivered is the business base at that moment, whoever read it and
\* wherever it was stored; a query that met a pending write may miss only
\* writes applied after it began (revalidateQuery, the fence in the key).  A
\* write may end with a newer revision while results of the older one are
\* stored, awaited or on their way.
FreshDelivery ==
    [][\A r \in Reqs :
          pc[r] = "deliver" /\ pc'[r] = "delivered" =>
              /\ start[r] \subseteq value[r] /\ value[r] \subseteq aplicadas
              /\ ~pending[r] => value[r] = aplicadas]_vars

-----------------------------------------------------------------------------
(* Liveness.                                                               *)

\* Continuations run, timers fire, and awaits of the hub, of the agent and of
\* the store end by a reply or by their own timeout.  Leases, evictions and
\* writers owe nothing.
FairSpec ==
    /\ Init /\ [][Next]_vars
    /\ \A r \in Reqs :
          WF_vars(Request(r)) /\ WF_vars(Job(r)) /\ WF_vars(Tick(r))

\* Every job leaves the in-flight map, even when the leader it follows in
\* another process dies or never publishes, so MAX_INFLIGHT is no dead end.
JobsDrain == \A j \in Reqs : job[j] # "none" ~> job[j] = "none"
=============================================================================
