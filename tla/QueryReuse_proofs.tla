------------------------- MODULE QueryReuse_proofs -------------------------
(***************************************************************************)
(* Proofs about QueryReuse, for any writes, requests, replicas and bounds. *)
(***************************************************************************)
EXTENDS QueryReuse, TLAPS

USE DEF Ended, Keys, Stores

-----------------------------------------------------------------------------
(* Type correctness.  It needs that an entry or a job's result is at most   *)
(* one value, and that a lease is taken only when it is free.              *)

\* What an optional result holds is its only member.
LEMMA OneResult ==
  ASSUME NEW v \in Results, v # {}
  PROVE  UNION v \in SUBSET Ops /\ v = {UNION v}
  <1>1. PICK x \in SUBSET Ops : v = {x}
    BY DEF Results
  <1>2. UNION v = x
    BY <1>1
  <1>. QED BY <1>1, <1>2

LEMMA NoResult == {} \in Results /\ {} \in Leases
  BY DEF Results, Leases

LEMMA NewLease == ASSUME NEW j \in Reqs PROVE {j} \in Leases
  BY DEF Leases

LEMMA NewResult == ASSUME NEW x \in SUBSET Ops PROVE {x} \in Results
  BY DEF Results

LEMMA TypeInit == Init => TypeOK
  BY SharedStoreAssumption, BoundsAssumption, NoResult
     DEF Init, TypeOK, Writes!Init

\* The part of the type that requests and jobs change.
TypedJobs ==
    /\ pc \in [Reqs -> {"idle", "check", "run", "await", "direct", "deliver"}
                          \cup Ended]
    /\ value \in [Reqs -> SUBSET Ops]
    /\ job \in [Reqs -> {"none", "read", "claim", "follow", "reread",
                          "produce", "verify", "publish", "release"}]
    /\ found \in [Reqs -> Results]
    /\ alone \in [Reqs -> BOOLEAN]

LEMMA ResolveTyped ==
  ASSUME TypeOK, NEW j \in Reqs, NEW v \in Results, Resolve(j, v)
  PROVE  TypedJobs'
  <1>1. v # {} => UNION v \in SUBSET Ops
    BY OneResult
  <1>2. found' \in [Reqs -> Results]
    BY NoResult DEF Resolve, TypeOK
  <1>3. value' \in [Reqs -> SUBSET Ops]
    BY <1>1 DEF Resolve, TypeOK
  <1>4. pc' \in [Reqs -> {"idle", "check", "run", "await", "direct", "deliver"}
                          \cup Ended]
    BY DEF Resolve, TypeOK
  <1>. QED BY <1>2, <1>3, <1>4 DEF Resolve, TypeOK, TypedJobs, JobGoes

LEMMA ContinueTyped ==
  ASSUME TypeOK, NEW j \in Reqs, NEW v \in Results,
         NEW phase \in {"claim", "follow", "reread", "produce", "verify",
                        "publish", "release"},
         Continue(j, phase, v)
  PROVE  TypedJobs'
  BY DEF Continue, TypeOK, TypedJobs, JobGoes, requests

LEMMA FailTyped ==
  ASSUME TypeOK, NEW j \in Reqs, Fail(j) PROVE TypedJobs'
  BY NoResult, ResolveTyped, ContinueTyped DEF Fail

LEMMA StoredTyped ==
  ASSUME TypeOK, NEW j \in Reqs
  PROVE  Stored(j) \in Results /\ found[j] \in Results /\ {aplicadas} \in Results
         /\ Store(j) \in Stores
  BY NewResult DEF TypeOK, Stored, Store

\* What a job's step leaves of requests alone.
LEMMA JobKeepsEvidence ==
  ASSUME NEW j \in Reqs, Job(j)
  PROVE  UNCHANGED <<writers, shared, evidence, lead, late>>
  <1>1. ASSUME NEW v, Resolve(j, v) PROVE UNCHANGED <<evidence, lead>>
    BY <1>1 DEF Resolve
  <1>2. ASSUME NEW v, NEW phase, Continue(j, phase, v)
        PROVE UNCHANGED <<evidence, lead>>
    BY <1>2 DEF Continue, requests
  <1>3. Fail(j) => UNCHANGED <<evidence, lead>>
    BY <1>1, <1>2 DEF Fail
  <1>4. CASE ReadStore(j) BY <1>4, <1>1, <1>2 DEF ReadStore
  <1>5. CASE Claim(j) BY <1>5, <1>2 DEF Claim
  <1>6. CASE ClaimFails(j) BY <1>6, <1>1 DEF ClaimFails, requests
  <1>7. CASE Follow(j) BY <1>7, <1>1 DEF Follow
  <1>8. CASE Reread(j) BY <1>8, <1>2, <1>3 DEF Reread
  <1>9. CASE Produce(j) BY <1>9, <1>2, <1>3 DEF Produce
  <1>10. CASE Verify(j) BY <1>10, <1>1, <1>2, <1>3 DEF Verify
  <1>11. CASE Publish(j) BY <1>11, <1>2 DEF Publish
  <1>12. CASE NotPublished(j) BY <1>12, <1>2 DEF NotPublished
  <1>13. CASE Release(j) BY <1>13, <1>1 DEF Release
  <1>. QED BY <1>4, <1>5, <1>6, <1>7, <1>8, <1>9, <1>10, <1>11, <1>12, <1>13
           DEF Job

LEMMA FlightTyped ==
  ASSUME TypeOK, NEW j \in Reqs,
         \/ UNCHANGED flight
         \/ Free(fence[j]) /\ Take(j)
         \/ GiveBack(j)
  PROVE  flight' \in [Keys -> Leases]
  <1>. USE NoResult, NewLease
  <1>1. CASE Free(fence[j]) /\ Take(j)
    <2>1. flight' = [flight EXCEPT ![fence[j]] = {j}]
      BY <1>1 DEF Free, Take
    <2>. QED BY <2>1 DEF TypeOK
  <1>2. CASE GiveBack(j)
    BY <1>2 DEF GiveBack, TypeOK
  <1>. QED BY <1>1, <1>2 DEF TypeOK

LEMMA TypedStep ==
  ASSUME TypeOK, TypedJobs', UNCHANGED <<writers, shared, evidence, lead, late>>,
         entries' \in [Stores -> [Keys -> Results]],
         flight' \in [Keys -> Leases]
  PROVE  TypeOK'
  BY DEF TypeOK, TypedJobs, writers, evidence

LEMMA JobTyped == ASSUME TypeOK, NEW j \in Reqs, Job(j) PROVE TypeOK'
  <1>. USE ResolveTyped, ContinueTyped, FailTyped, StoredTyped, NoResult
  <1>1. UNCHANGED <<writers, shared, evidence, lead, late>>
    BY JobKeepsEvidence
  <1>2. CASE UNCHANGED stores /\ TypedJobs'
    BY <1>1, <1>2, TypedStep DEF TypeOK, stores
  <1>3. CASE ReadStore(j)
    <2>1. TypedJobs' BY <1>3 DEF ReadStore
    <2>. QED BY <2>1, <1>2, <1>3 DEF ReadStore
  <1>4. CASE Claim(j)
    <2>1. TypedJobs' BY <1>4 DEF Claim
    <2>2. UNCHANGED flight \/ (Free(fence[j]) /\ Take(j))
      BY <1>4 DEF Claim
    <2>3. entries' = entries BY <1>4 DEF Claim
    <2>. QED BY <1>1, <2>1, <2>2, <2>3, FlightTyped, TypedStep DEF TypeOK
  <1>5. CASE ClaimFails(j)
    <2>1. TypedJobs'
      <3>1. CASE Expired(j) BY <1>5, <3>1 DEF ClaimFails
      <3>2. CASE ~Expired(j)
        BY <1>5, <3>2 DEF ClaimFails, TypedJobs, TypeOK, JobGoes, requests
      <3>. QED BY <3>1, <3>2
    <2>2. UNCHANGED flight \/ (Free(fence[j]) /\ Take(j))
      BY <1>5 DEF ClaimFails
    <2>3. entries' = entries BY <1>5 DEF ClaimFails
    <2>. QED BY <1>1, <2>1, <2>2, <2>3, FlightTyped, TypedStep DEF TypeOK
  <1>6. CASE Follow(j)
    <2>1. TypedJobs' BY <1>6 DEF Follow
    <2>. QED BY <2>1, <1>2, <1>6 DEF Follow
  <1>7. CASE Reread(j)
    <2>1. TypedJobs' BY <1>7 DEF Reread
    <2>. QED BY <2>1, <1>2, <1>7 DEF Reread
  <1>8. CASE Produce(j)
    <2>1. TypedJobs' BY <1>8 DEF Produce
    <2>. QED BY <2>1, <1>2, <1>8 DEF Produce
  <1>9. CASE Verify(j)
    <2>1. TypedJobs' BY <1>9 DEF Verify
    <2>. QED BY <2>1, <1>2, <1>9 DEF Verify
  <1>10. CASE Publish(j)
    <2>1. TypedJobs' BY <1>10 DEF Publish
    <2>2. UNCHANGED flight \/ GiveBack(j) BY <1>10 DEF Publish
    <2>3. entries' \in [Stores -> [Keys -> Results]]
      BY <1>10 DEF Publish, TypeOK
    <2>. QED BY <1>1, <2>1, <2>2, <2>3, FlightTyped, TypedStep
  <1>11. CASE NotPublished(j)
    <2>1. TypedJobs' BY <1>11 DEF NotPublished
    <2>. QED BY <2>1, <1>2, <1>11 DEF NotPublished
  <1>12. CASE Release(j)
    <2>1. TypedJobs' BY <1>12 DEF Release
    <2>2. UNCHANGED flight \/ GiveBack(j) BY <1>12 DEF Release
    <2>3. entries' = entries BY <1>12 DEF Release
    <2>. QED BY <1>1, <2>1, <2>2, <2>3, FlightTyped, TypedStep DEF TypeOK
  <1>. QED BY <1>3, <1>4, <1>5, <1>6, <1>7, <1>8, <1>9, <1>10, <1>11, <1>12 DEF Job

LEMMA RequestTyped == ASSUME TypeOK, NEW r \in Reqs, Request(r) PROVE TypeOK'
  <1>. USE DEF TypeOK, writers, stores, evidence, requests, jobs, Goes, JobGoes
  <1>1. CASE Revalidate(r) BY <1>1 DEF Revalidate
  <1>2. CASE Join(r) BY <1>2 DEF Join, SameKey, Inflight
  <1>3. CASE Lead(r) BY <1>3 DEF Lead
  <1>4. CASE WaitTimeout(r) BY <1>4 DEF WaitTimeout
  <1>5. CASE DirectRead(r) BY <1>5 DEF DirectRead
  <1>6. CASE Deliver(r) BY <1>6 DEF Deliver
  <1>7. CASE Refuse(r) BY <1>7 DEF Refuse
  <1>. QED BY <1>1, <1>2, <1>3, <1>4, <1>5, <1>6, <1>7 DEF Request

LEMMA WriteTyped == ASSUME TypeOK, Write PROVE TypeOK'
  <1>. USE DEF TypeOK, stores, evidence, requests, jobs
  <1>1. UNCHANGED <<shared, stores, requests, late, jobs>> /\ revisao' <= MaxRevision
    BY DEF Write
  <1>2. revisao' \in Keys
    BY <1>1, BoundsAssumption
       DEF Write, Writes!Next, Writes!Begin, Writes!Apply, Writes!Invalidate,
           Writes!Settle
  <1>3. marca' \in [Ops -> Keys] /\ pendentes' \subseteq Ops
        /\ aplicadas' \subseteq Ops
    BY DEF Write, Writes!Next, Writes!Begin, Writes!Apply, Writes!Invalidate,
           Writes!Settle
  <1>. QED BY <1>1, <1>2, <1>3

LEMMA TypeStep == TypeOK /\ [Next]_vars => TypeOK'
  <1> SUFFICES ASSUME TypeOK, [Next]_vars PROVE TypeOK'
    OBVIOUS
  <1>. USE DEF writers, stores, evidence, requests, jobs, Goes
  <1>1. ASSUME NEW r \in Reqs, Query(r) PROVE TypeOK'
    BY <1>1 DEF Query, TypeOK
  <1>2. ASSUME NEW r \in Reqs, Tick(r) PROVE TypeOK'
    BY <1>2 DEF Tick, TypeOK
  <1>3. ASSUME NEW s \in Stores, NEW k \in Keys, Evict(s, k) PROVE TypeOK'
    <2>1. entries' \in [Stores -> [Keys -> Results]]
      <3>1. entries' = [entries EXCEPT ![s] = [@ EXCEPT ![k] = {}]]
        BY <1>3 DEF Evict
      <3>. HIDE DEF Stores, Keys
      <3>. QED BY <3>1, NoResult DEF TypeOK
    <2>. QED BY <1>3, <2>1 DEF Evict, TypeOK
  <1>4. ASSUME NEW k \in Keys, LeaseExpires(k) PROVE TypeOK'
    BY <1>4, NoResult DEF LeaseExpires, TypeOK
  <1>5. ASSUME NEW n \in Replicas, Crash(n) PROVE TypeOK'
    BY <1>5, NoResult DEF Crash, TypeOK
  <1>6. CASE UNCHANGED vars
    BY <1>6 DEF vars, TypeOK
  <1>. QED BY <1>1, <1>2, <1>3, <1>4, <1>5, <1>6, RequestTyped, JobTyped, WriteTyped
           DEF Next

\* Every reachable state is of the declared types.
THEOREM QueryTypes == Spec => []TypeOK
  BY TypeInit, TypeStep, PTL DEF Spec
-----------------------------------------------------------------------------
(* Freshness.  FreshDelivery speaks of one step; what makes it true is that *)
(* every value under way is faithful to its key: it misses no write of an  *)
(* older revision, so with the key's revision still current and no write   *)
(* pending it is the base itself.                                          *)

Faithful(v, k) ==
    /\ k <= revisao
    /\ v \subseteq aplicadas
    /\ k = revisao => \A o \in aplicadas : marca[o] < revisao => o \in v

\* A write applied under the current revision is still pending.
WritersFenced ==
    \A o \in Ops :
        /\ marca[o] <= revisao
        /\ o \in aplicadas /\ marca[o] = revisao => o \in pendentes

EntriesFaithful ==
    \A s \in Stores, k \in Keys : \A v \in entries[s][k] : Faithful(v, k)

JobsFaithful ==
    \A j \in Reqs :
        /\ job[j] = "none" => found[j] = {}
        /\ job[j] # "none" => pc[j] # "idle"
        /\ \A v \in found[j] : Faithful(v, fence[j])

\* A request waits for the result of its own key.
RequestsFaithful ==
    \A r \in Reqs :
        /\ start[r] \subseteq aplicadas /\ fence[r] <= revisao
        /\ pc[r] \in {"run", "await"} => ~pending[r]
        /\ pc[r] = "await" => pc[lead[r]] # "idle" /\ fence[lead[r]] = fence[r]
        /\ pc[r] = "deliver" =>
              IF pending[r]
              THEN start[r] \subseteq value[r] /\ value[r] \subseteq aplicadas
              ELSE Faithful(value[r], fence[r])

FaithInv ==
    /\ TypeOK
    /\ WritersFenced
    /\ EntriesFaithful
    /\ JobsFaithful
    /\ RequestsFaithful

LEMMA FaithInit == Init => FaithInv
  <1> SUFFICES ASSUME Init PROVE FaithInv
    OBVIOUS
  <1>1. TypeOK BY TypeInit
  <1>. QED
    BY <1>1, BoundsAssumption
       DEF Init, Writes!Init, FaithInv, WritersFenced, EntriesFaithful,
           JobsFaithful, RequestsFaithful

\* The values under way keep their faith while the writers go on.
LEMMA WriteKeepsFaith ==
  ASSUME TypeOK, WritersFenced, Write, NEW v, NEW k \in Keys, Faithful(v, k)
  PROVE  Faithful(v, k)'
  <1>. USE DEF TypeOK, WritersFenced, Faithful
  <1>1. ASSUME NEW o \in Ops, Writes!Begin(o) PROVE Faithful(v, k)'
    BY <1>1 DEF Writes!Begin
  <1>2. ASSUME NEW o \in Ops, Writes!Apply(o) PROVE Faithful(v, k)'
    BY <1>2 DEF Writes!Apply
  <1>3. CASE Writes!Invalidate
    BY <1>3 DEF Writes!Invalidate
  <1>4. ASSUME NEW o \in Ops, Writes!Settle(o) PROVE Faithful(v, k)'
    BY <1>4 DEF Writes!Settle
  <1>. QED BY <1>1, <1>2, <1>3, <1>4 DEF Write, Writes!Next

LEMMA WriteKeepsFence ==
  ASSUME TypeOK, WritersFenced, Write
  PROVE  WritersFenced' /\ revisao <= revisao' /\ aplicadas \subseteq aplicadas'
  <1>. USE DEF TypeOK, WritersFenced
  <1>. DEFINE G == WritersFenced' /\ revisao <= revisao'
                   /\ aplicadas \subseteq aplicadas'
  <1>1. ASSUME NEW o \in Ops, Writes!Begin(o) PROVE G
    BY <1>1 DEF Writes!Begin
  <1>2. ASSUME NEW o \in Ops, Writes!Apply(o) PROVE G
    BY <1>2 DEF Writes!Apply
  <1>3. CASE Writes!Invalidate
    BY <1>3 DEF Writes!Invalidate
  <1>4. ASSUME NEW o \in Ops, Writes!Settle(o) PROVE G
    BY <1>4 DEF Writes!Settle
  <1>. QED BY <1>1, <1>2, <1>3, <1>4 DEF Write, Writes!Next

LEMMA FaithWrite == FaithInv /\ Write => FaithInv'
  <1> SUFFICES ASSUME FaithInv, Write PROVE FaithInv'
    OBVIOUS
  <1>. USE DEF FaithInv
  <1>1. TypeOK'
    BY WriteTyped
  <1>2. WritersFenced' /\ revisao <= revisao' /\ aplicadas \subseteq aplicadas'
    BY WriteKeepsFence
  <1>3. UNCHANGED <<stores, requests, jobs>>
    BY DEF Write
  <1>4. EntriesFaithful'
    <2> SUFFICES ASSUME NEW s \in Stores, NEW k \in Keys, NEW v \in entries[s][k]'
                 PROVE  Faithful(v, k)'
      BY DEF EntriesFaithful
    <2>1. v \in entries[s][k]
      BY <1>3 DEF stores
    <2>. QED BY <2>1, WriteKeepsFaith DEF EntriesFaithful
  <1>5. JobsFaithful'
    <2> SUFFICES ASSUME NEW j \in Reqs PROVE
             /\ job[j] = "none" => found[j] = {}
             /\ job[j] # "none" => pc[j] # "idle"
             /\ \A v \in found[j] : Faithful(v, fence[j])'
      BY <1>3 DEF JobsFaithful, jobs, requests
    <2>1. fence[j] \in Keys /\ fence'[j] = fence[j]
      BY <1>3 DEF TypeOK, requests, evidence
    <2>2. ASSUME NEW v \in found[j] PROVE Faithful(v, fence[j])'
      BY <2>1, <2>2, WriteKeepsFaith DEF JobsFaithful, Faithful
    <2>. QED BY <2>2 DEF JobsFaithful
  <1>6. RequestsFaithful'
    <2> SUFFICES ASSUME NEW r \in Reqs PROVE
        /\ start[r] \subseteq aplicadas' /\ fence[r] <= revisao'
        /\ pc[r] \in {"run", "await"} => ~pending[r]
        /\ pc[r] = "await" => pc[lead[r]] # "idle" /\ fence[lead[r]] = fence[r]
        /\ pc[r] = "deliver" =>
              IF pending[r]
              THEN start[r] \subseteq value[r] /\ value[r] \subseteq aplicadas'
              ELSE Faithful(value[r], fence[r])'
      BY <1>3 DEF RequestsFaithful, requests, evidence
    <2>1. fence[r] \in Keys /\ fence'[r] = fence[r] /\ value'[r] = value[r]
      BY <1>3 DEF TypeOK, requests, evidence
    <2>2. Faithful(value[r], fence[r]) => Faithful(value[r], fence[r])'
      BY <2>1, WriteKeepsFaith DEF Faithful
    <2>3. fence[r] <= revisao'
      BY <2>1, <1>1, <1>2 DEF RequestsFaithful, TypeOK
    <2>. QED BY <2>2, <2>3, <1>2 DEF RequestsFaithful
  <1>. QED BY <1>1, <1>2, <1>4, <1>5, <1>6

\* A job that ends answers the requests of its key with a faithful value.
LEMMA ResolveKeepsFaith ==
  ASSUME FaithInv, NEW j \in Reqs, NEW v \in Results, Resolve(j, v),
         \A x \in v : Faithful(x, fence[j]), UNCHANGED <<writers, evidence, lead>>
  PROVE  JobsFaithful' /\ RequestsFaithful'
  <1>. USE DEF FaithInv, writers, evidence
  <1>1. JobsFaithful'
    <2> SUFFICES ASSUME NEW i \in Reqs PROVE
             /\ job'[i] = "none" => found'[i] = {}
             /\ job'[i] # "none" => pc'[i] # "idle"
             /\ \A x \in found'[i] : Faithful(x, fence[i])
      BY DEF JobsFaithful, Faithful
    <2>1. CASE i = j
      BY <2>1 DEF Resolve, JobGoes, TypeOK
    <2>2. CASE i # j
      BY <2>2 DEF Resolve, JobGoes, TypeOK, JobsFaithful
    <2>. QED BY <2>1, <2>2
  <1>2. RequestsFaithful'
    <2>. DEFINE Q(r) ==
            /\ start[r] \subseteq aplicadas /\ fence[r] <= revisao
            /\ pc'[r] \in {"run", "await"} => ~pending[r]
            /\ pc'[r] = "await" => pc'[lead[r]] # "idle" /\ fence[lead[r]] = fence[r]
            /\ pc'[r] = "deliver" =>
                  IF pending[r]
                  THEN start[r] \subseteq value'[r] /\ value'[r] \subseteq aplicadas
                  ELSE Faithful(value'[r], fence[r])
    <2>1. ASSUME NEW r \in Reqs, pc[r] = "await", lead[r] = j PROVE Q(r)
      <3>1. start[r] \subseteq aplicadas /\ fence[r] <= revisao
            /\ ~pending[r] /\ fence[j] = fence[r]
        BY <2>1 DEF RequestsFaithful
      <3>2. CASE v = {}
        BY <3>1, <3>2, <2>1 DEF Resolve, TypeOK
      <3>3. CASE v # {}
        <4>1. value'[r] = UNION v /\ pc'[r] = "deliver"
          BY <3>3, <2>1 DEF Resolve, TypeOK
        <4>2. UNION v \in v
          BY <3>3, OneResult
        <4>. QED BY <4>1, <4>2, <3>1
      <3>. QED BY <3>2, <3>3
    <2>2. ASSUME NEW r \in Reqs, ~(pc[r] = "await" /\ lead[r] = j) PROVE Q(r)
      <3>1. pc'[r] = pc[r] /\ value'[r] = value[r]
        BY <2>2 DEF Resolve, TypeOK
      <3>2. \A q \in Reqs : pc[q] # "idle" => pc'[q] # "idle"
        BY DEF Resolve, TypeOK
      <3>3. lead[r] \in Reqs
        BY DEF TypeOK
      <3>. QED BY <3>1, <3>2, <3>3 DEF RequestsFaithful
    <2>. QED BY <2>1, <2>2 DEF RequestsFaithful, Faithful
  <1>. QED BY <1>1, <1>2

LEMMA ContinueKeepsFaith ==
  ASSUME FaithInv, NEW j \in Reqs, NEW v \in Results, NEW phase,
         phase # "none", job[j] # "none", Continue(j, phase, v),
         \A x \in v : Faithful(x, fence[j]), UNCHANGED <<writers, evidence, lead>>
  PROVE  JobsFaithful' /\ RequestsFaithful'
  <1>. USE DEF FaithInv, writers, evidence, requests, Continue, JobGoes
  <1>1. JobsFaithful'
    BY DEF JobsFaithful, Faithful, TypeOK
  <1>2. RequestsFaithful'
    BY DEF RequestsFaithful, Faithful
  <1>. QED BY <1>1, <1>2

LEMMA FailKeepsFaith ==
  ASSUME FaithInv, NEW j \in Reqs, job[j] # "none", Fail(j),
         UNCHANGED <<writers, evidence, lead>>
  PROVE  JobsFaithful' /\ RequestsFaithful'
  BY NoResult, ResolveKeepsFaith, ContinueKeepsFaith DEF Fail

LEMMA FaithJob ==
  ASSUME FaithInv, NEW j \in Reqs, Job(j)
  PROVE  FaithInv'
  <1>. DEFINE G == JobsFaithful' /\ RequestsFaithful'
  <1>1. TypeOK /\ TypeOK'
    BY JobTyped DEF FaithInv
  <1>2. UNCHANGED <<writers, shared, evidence, lead, late>>
    BY JobKeepsEvidence
  <1>3. Store(j) \in Stores /\ fence[j] \in Keys
        /\ Stored(j) \in Results /\ found[j] \in Results /\ {aplicadas} \in Results
    BY <1>1, StoredTyped DEF TypeOK
  <1>4. /\ \A x \in Stored(j) : Faithful(x, fence[j])
        /\ \A x \in found[j] : Faithful(x, fence[j])
        /\ \A x \in {aplicadas} : Faithful(x, fence[j])
    BY <1>3
       DEF Stored, FaithInv, EntriesFaithful, JobsFaithful, RequestsFaithful, Faithful
  <1>. USE <1>1, <1>2, <1>3, <1>4, NoResult,
           ResolveKeepsFaith, ContinueKeepsFaith, FailKeepsFaith
  <1>5. CASE ReadStore(j)
    <2>1. G BY <1>5 DEF ReadStore
    <2>2. UNCHANGED entries BY <1>5 DEF ReadStore, stores
    <2>. QED BY <2>1, <2>2 DEF FaithInv, EntriesFaithful, WritersFenced, Faithful, writers
  <1>6. CASE Claim(j)
    <2>1. G BY <1>6 DEF Claim
    <2>2. UNCHANGED entries BY <1>6 DEF Claim
    <2>. QED BY <2>1, <2>2 DEF FaithInv, EntriesFaithful, WritersFenced, Faithful, writers
  <1>7. CASE ClaimFails(j)
    <2>1. G
      <3>1. CASE Expired(j) BY <1>7, <3>1 DEF ClaimFails
      <3>2. CASE ~Expired(j)
        <4>1. /\ job[j] = "claim" /\ JobGoes(j, "produce")
              /\ UNCHANGED <<requests, found>>
          BY <1>7, <3>2 DEF ClaimFails
        <4>2. JobsFaithful'
          BY <4>1 DEF FaithInv, JobsFaithful, Faithful, TypeOK, JobGoes, writers,
                      requests, evidence
        <4>3. RequestsFaithful'
          BY <4>1 DEF FaithInv, RequestsFaithful, Faithful, writers, requests, evidence
        <4>. QED BY <4>2, <4>3
      <3>. QED BY <3>1, <3>2
    <2>2. UNCHANGED entries BY <1>7 DEF ClaimFails
    <2>. QED BY <2>1, <2>2 DEF FaithInv, EntriesFaithful, WritersFenced, Faithful, writers
  <1>8. CASE Follow(j)
    <2>1. G BY <1>8 DEF Follow
    <2>2. UNCHANGED entries BY <1>8 DEF Follow, stores
    <2>. QED BY <2>1, <2>2 DEF FaithInv, EntriesFaithful, WritersFenced, Faithful, writers
  <1>9. CASE Reread(j)
    <2>1. G BY <1>9 DEF Reread
    <2>2. UNCHANGED entries BY <1>9 DEF Reread, stores
    <2>. QED BY <2>1, <2>2 DEF FaithInv, EntriesFaithful, WritersFenced, Faithful, writers
  <1>10. CASE Produce(j)
    <2>1. G BY <1>10 DEF Produce
    <2>2. UNCHANGED entries BY <1>10 DEF Produce, stores
    <2>. QED BY <2>1, <2>2 DEF FaithInv, EntriesFaithful, WritersFenced, Faithful, writers
  <1>11. CASE Verify(j)
    <2>1. G BY <1>11 DEF Verify
    <2>2. UNCHANGED entries BY <1>11 DEF Verify, stores
    <2>. QED BY <2>1, <2>2 DEF FaithInv, EntriesFaithful, WritersFenced, Faithful, writers
  <1>12. CASE Publish(j)
    <2>1. G BY <1>12 DEF Publish
    <2>2. EntriesFaithful'
      <3> SUFFICES ASSUME NEW s \in Stores, NEW k \in Keys, NEW x \in entries'[s][k]
                   PROVE  Faithful(x, k)
        BY DEF EntriesFaithful, Faithful, writers
      <3>1. x \in entries[s][k] \/ (k = fence[j] /\ x \in found[j])
        BY <1>12 DEF Publish, TypeOK
      <3>. QED BY <3>1 DEF FaithInv, EntriesFaithful
    <2>. QED BY <2>1, <2>2 DEF FaithInv, WritersFenced, writers
  <1>13. CASE NotPublished(j)
    <2>1. G BY <1>13 DEF NotPublished
    <2>2. UNCHANGED entries BY <1>13 DEF NotPublished, stores
    <2>. QED BY <2>1, <2>2 DEF FaithInv, EntriesFaithful, WritersFenced, Faithful, writers
  <1>14. CASE Release(j)
    <2>1. G BY <1>14 DEF Release
    <2>2. UNCHANGED entries BY <1>14 DEF Release
    <2>. QED BY <2>1, <2>2 DEF FaithInv, EntriesFaithful, WritersFenced, Faithful, writers
  <1>. QED BY <1>5, <1>6, <1>7, <1>8, <1>9, <1>10, <1>11, <1>12, <1>13, <1>14 DEF Job

LEMMA FaithRequest ==
  ASSUME FaithInv, NEW r \in Reqs, Request(r)
  PROVE  FaithInv'
  <1>. USE DEF FaithInv, WritersFenced, EntriesFaithful, JobsFaithful,
               RequestsFaithful, Faithful, writers, stores, evidence, requests,
               jobs, Goes, JobGoes
  <1>1. TypeOK /\ TypeOK'
    BY RequestTyped
  <1>2. CASE Revalidate(r) BY <1>1, <1>2 DEF Revalidate, TypeOK
  <1>3. CASE Join(r)
    <2>1. /\ pc[r] = "run" /\ Goes(r, "await")
          /\ UNCHANGED <<writers, shared, stores, evidence, value, late, jobs>>
      BY <1>3 DEF Join
    <2>2. PICK j \in Reqs : /\ job[j] # "none" /\ fence[j] = fence[r]
                            /\ lead' = [lead EXCEPT ![r] = j]
      BY <1>3 DEF Join, SameKey, Inflight
    <2>. QED BY <1>1, <2>1, <2>2 DEF TypeOK
  <1>4. CASE Lead(r) BY <1>1, <1>4 DEF Lead, TypeOK
  <1>5. CASE WaitTimeout(r) BY <1>1, <1>5 DEF WaitTimeout, TypeOK
  <1>6. CASE DirectRead(r) BY <1>1, <1>6 DEF DirectRead, TypeOK
  <1>7. CASE Deliver(r) BY <1>1, <1>7 DEF Deliver, TypeOK
  <1>8. CASE Refuse(r) BY <1>1, <1>8 DEF Refuse, TypeOK
  <1>. QED BY <1>2, <1>3, <1>4, <1>5, <1>6, <1>7, <1>8 DEF Request

LEMMA FaithStep == FaithInv /\ [Next]_vars => FaithInv'
  <1> SUFFICES ASSUME FaithInv, [Next]_vars PROVE FaithInv'
    OBVIOUS
  <1>. USE DEF FaithInv, WritersFenced, EntriesFaithful, JobsFaithful,
               RequestsFaithful, Faithful, writers, stores, evidence, requests,
               jobs
  <1>1. TypeOK /\ TypeOK'
    BY TypeStep
  <1>2. ASSUME NEW r \in Reqs, Query(r) PROVE FaithInv'
    BY <1>1, <1>2 DEF Query, Goes, TypeOK
  <1>3. ASSUME NEW r \in Reqs, Tick(r) PROVE FaithInv'
    BY <1>1, <1>3 DEF Tick
  <1>4. ASSUME NEW s \in Stores, NEW k \in Keys, Evict(s, k) PROVE FaithInv'
    <2>1. \A t \in Stores, i \in Keys : entries'[t][i] \subseteq entries[t][i]
      BY <1>1, <1>4 DEF Evict, TypeOK
    <2>. QED BY <1>1, <1>4, <2>1 DEF Evict
  <1>5. ASSUME NEW k \in Keys, LeaseExpires(k) PROVE FaithInv'
    BY <1>1, <1>5 DEF LeaseExpires
  <1>6. ASSUME NEW n \in Replicas, Crash(n) PROVE FaithInv'
    <2>1. \A t \in Stores, i \in Keys : entries'[t][i] \subseteq entries[t][i]
      BY <1>1, <1>6 DEF Crash, TypeOK
    <2>2. \A r \in Reqs : /\ pc[r] # "idle" <=> pc'[r] # "idle"
                          /\ pc'[r] \in {pc[r], "refused"}
      BY <1>1, <1>6 DEF Crash, TypeOK
    <2>3. \A j \in Reqs : \/ job'[j] = "none" /\ found'[j] = {}
                          \/ job'[j] = job[j] /\ found'[j] = found[j]
      BY <1>1, <1>6 DEF Crash, TypeOK
    <2>4. UNCHANGED <<writers, evidence, value, lead>>
      BY <1>6 DEF Crash
    <2>5. EntriesFaithful' /\ WritersFenced'
      BY <2>1, <2>4
    <2>6. JobsFaithful'
      BY <2>2, <2>3, <2>4
    <2>7. RequestsFaithful'
      <3>1. \A r \in Reqs : lead[r] \in Reqs
        BY <1>1 DEF TypeOK
      <3>. QED BY <2>2, <2>4, <3>1
    <2>. QED BY <1>1, <2>5, <2>6, <2>7
  <1>7. CASE UNCHANGED vars
    BY <1>1, <1>7 DEF vars
  <1>. QED BY <1>2, <1>3, <1>4, <1>5, <1>6, <1>7, FaithRequest, FaithJob, FaithWrite
           DEF Next

Fresh(r) ==
    pc[r] = "deliver" /\ pc'[r] = "delivered" =>
        /\ start[r] \subseteq value[r] /\ value[r] \subseteq aplicadas
        /\ ~pending[r] => value[r] = aplicadas

\* Only Deliver delivers.
LEMMA OnlyDeliver ==
  ASSUME TypeOK, [Next]_vars, NEW r \in Reqs, pc[r] = "deliver", pc'[r] = "delivered"
  PROVE  Deliver(r)
  <1>. USE DEF TypeOK, Goes, JobGoes, requests
  <1>1. ASSUME NEW j \in Reqs, Job(j) PROVE FALSE
    <2>1. ASSUME NEW v, Resolve(j, v) PROVE FALSE
      BY <2>1 DEF Resolve
    <2>2. ASSUME NEW v, NEW phase, Continue(j, phase, v) PROVE FALSE
      BY <2>2 DEF Continue
    <2>3. Fail(j) => FALSE
      BY <2>1, <2>2 DEF Fail
    <2>. QED BY <1>1, <2>1, <2>2, <2>3
             DEF Job, ReadStore, Claim, ClaimFails, Follow, Reread, Produce, Verify,
                 Publish, NotPublished, Release
  <1>2. ASSUME NEW q \in Reqs, Request(q) PROVE Deliver(r)
    BY <1>2 DEF Request, Revalidate, Join, Lead, WaitTimeout, DirectRead, Deliver,
                Refuse
  <1>3. ASSUME NEW q \in Reqs, Query(q) \/ Tick(q) PROVE FALSE
    BY <1>3 DEF Query, Tick
  <1>4. ASSUME NEW n \in Replicas, Crash(n) PROVE FALSE
    BY <1>4 DEF Crash
  <1>5. CASE Write \/ UNCHANGED vars
    BY <1>5 DEF Write, vars
  <1>6. ASSUME NEW s \in Stores, NEW k \in Keys, Evict(s, k) PROVE FALSE
    BY <1>6 DEF Evict
  <1>7. ASSUME NEW k \in Keys, LeaseExpires(k) PROVE FALSE
    BY <1>7 DEF LeaseExpires
  <1>. QED BY <1>1, <1>2, <1>3, <1>4, <1>5, <1>6, <1>7 DEF Next

LEMMA FreshStep ==
  ASSUME FaithInv, [Next]_vars, NEW r \in Reqs
  PROVE  Fresh(r)
  <1> SUFFICES ASSUME pc[r] = "deliver", pc'[r] = "delivered"
               PROVE  /\ start[r] \subseteq value[r] /\ value[r] \subseteq aplicadas
                      /\ ~pending[r] => value[r] = aplicadas
    BY DEF Fresh
  <1>1. Current(r)
    BY OnlyDeliver DEF FaithInv, Deliver
  <1>2. CASE pending[r]
    BY <1>2 DEF FaithInv, RequestsFaithful
  <1>3. CASE ~pending[r]
    <2>1. revisao = fence[r] /\ pendentes = {}
      BY <1>1, <1>3 DEF Current
    <2>2. \A o \in aplicadas : marca[o] < revisao
      BY <2>1 DEF FaithInv, TypeOK, WritersFenced
    <2>3. Faithful(value[r], fence[r]) /\ start[r] \subseteq aplicadas
      BY <1>3 DEF FaithInv, RequestsFaithful
    <2>. QED BY <2>1, <2>2, <2>3 DEF Faithful
  <1>. QED BY <1>2, <1>3

\* Whatever crashes, expires, is evicted or written meanwhile, what a request
\* delivers is the business base of that moment, or not older than its start
\* when it met a pending write.
THEOREM DeliversFresh == Spec => FreshDelivery
  <1>1. FaithInv /\ [Next]_vars =>
          [\A r \in Reqs :
              pc[r] = "deliver" /\ pc'[r] = "delivered" =>
                  /\ start[r] \subseteq value[r] /\ value[r] \subseteq aplicadas
                  /\ ~pending[r] => value[r] = aplicadas]_vars
    BY FreshStep DEF Fresh
  <1>. QED BY <1>1, FaithInit, FaithStep, PTL DEF Spec, FreshDelivery
-----------------------------------------------------------------------------
(* Singleflight.  A job between its claim and its publication holds the    *)
(* lease of its key until its deadline, and a process has one job per key. *)

Holding == {"reread", "produce", "verify", "publish"}

LeaseHeld ==
    \A i \in Reqs :
        shared /\ job[i] \in Holding /\ ~alone[i] /\ ~late[i]
            => flight[fence[i]] = {i}

OneJobPerKey ==
    \A i, j \in Reqs :
        /\ job[i] # "none" /\ job[j] # "none"
        /\ home[i] = home[j] /\ fence[i] = fence[j]
        => i = j

FlightInv == TypeOK /\ JobsFaithful /\ LeaseHeld /\ OneJobPerKey

\* A step of job j that neither begins a job nor claims a lease.
LEMMA LeaseOfOthers ==
  ASSUME FlightInv, NEW j \in Reqs, job[j] # "none",
         UNCHANGED <<shared, home, fence, late>>,
         UNCHANGED flight \/ GiveBack(j),
         \A i \in Reqs \ {j} : job'[i] = job[i] /\ alone'[i] = alone[i],
         job'[j] \in Holding /\ ~alone'[j] =>
             flight' = flight /\ job[j] \in Holding /\ ~alone[j]
  PROVE  LeaseHeld' /\ OneJobPerKey'
  <1>1. \A i \in Reqs \ {j}, k \in Keys : flight[k] = {i} => flight'[k] = {i}
    BY DEF FlightInv, TypeOK, GiveBack
  <1>2. LeaseHeld'
    BY <1>1 DEF FlightInv, LeaseHeld, TypeOK
  <1>3. OneJobPerKey'
    BY DEF FlightInv, OneJobPerKey
  <1>. QED BY <1>2, <1>3

\* A claim takes nobody's lease away.
LEMMA TakeHolds ==
  ASSUME TypeOK, NEW j \in Reqs, Free(fence[j]), Take(j)
  PROVE  /\ flight'[fence[j]] = {j}
         /\ \A i \in Reqs, k \in Keys : flight[k] = {i} => flight'[k] = {i}
  <1>1. flight[fence[j]] = {} /\ flight' = [flight EXCEPT ![fence[j]] = {j}]
    BY DEF Free, Take
  <1>2. fence[j] \in DOMAIN flight
    BY DEF TypeOK
  <1>. QED BY <1>1, <1>2

\* How the ends of a job's step leave the jobs.
LEMMA JobMoves ==
  ASSUME TypeOK, NEW j \in Reqs
  PROVE  /\ \A v : Resolve(j, v) =>
                job'[j] = "none"
                /\ \A i \in Reqs \ {j} : job'[i] = job[i] /\ alone'[i] = alone[i]
         /\ \A v, phase : Continue(j, phase, v) =>
                job'[j] = phase /\ alone' = alone
                /\ \A i \in Reqs \ {j} : job'[i] = job[i]
         /\ Fail(j) =>
                job'[j] \in {"none", "release"}
                /\ \A i \in Reqs \ {j} : job'[i] = job[i] /\ alone'[i] = alone[i]
  <1>1. ASSUME NEW v, Resolve(j, v)
        PROVE  job'[j] = "none"
               /\ \A i \in Reqs \ {j} : job'[i] = job[i] /\ alone'[i] = alone[i]
    BY <1>1 DEF TypeOK, Resolve, JobGoes
  <1>2. ASSUME NEW v, NEW phase, Continue(j, phase, v)
        PROVE  job'[j] = phase /\ alone' = alone
               /\ \A i \in Reqs \ {j} : job'[i] = job[i]
    BY <1>2 DEF TypeOK, Continue, JobGoes
  <1>3. Fail(j) =>
          job'[j] \in {"none", "release"}
          /\ \A i \in Reqs \ {j} : job'[i] = job[i] /\ alone'[i] = alone[i]
    BY <1>1, <1>2 DEF Fail
  <1>. QED BY <1>1, <1>2, <1>3

LEMMA FlightJob ==
  ASSUME FlightInv, NEW j \in Reqs, Job(j)
  PROVE  LeaseHeld' /\ OneJobPerKey'
  <1>. USE DEF Holding
  <1>1. UNCHANGED <<shared, home, fence, late>>
    BY JobKeepsEvidence DEF evidence
  <1>2. TypeOK BY DEF FlightInv
  <1>. USE <1>1, <1>2, JobMoves, LeaseOfOthers
  <1>3. CASE ReadStore(j)
    <2>1. job'[j] \in {"none", "claim"} /\ job[j] = "read"
          /\ \A i \in Reqs \ {j} : job'[i] = job[i] /\ alone'[i] = alone[i]
      BY <1>3 DEF ReadStore
    <2>. QED BY <2>1, <1>3 DEF ReadStore, stores
  <1>4. CASE Claim(j)
    <2>1. job'[j] \in {"follow", "reread"} /\ job[j] = "claim" /\ alone' = alone
          /\ \A i \in Reqs \ {j} : job'[i] = job[i]
      BY <1>4 DEF Claim
    <2>2. CASE shared /\ Free(fence[j]) /\ Take(j)
      <3>1. /\ flight'[fence[j]] = {j}
            /\ \A i \in Reqs, k \in Keys : flight[k] = {i} => flight'[k] = {i}
        BY <2>2, TakeHolds
      <3>2. \A i \in Reqs : fence[i] \in Keys
        BY DEF TypeOK
      <3>3. LeaseHeld'
        BY <2>1, <3>1, <3>2 DEF FlightInv, LeaseHeld
      <3>4. OneJobPerKey'
        BY <2>1 DEF FlightInv, OneJobPerKey
      <3>. QED BY <3>3, <3>4
    <2>3. CASE ~shared \/ job'[j] = "follow"
      <3>1. UNCHANGED flight \/ ~(~shared \/ job'[j] = "follow")
        BY <2>1, <1>4 DEF Claim
      <3>. QED BY <2>1, <2>3, <3>1 DEF FlightInv, LeaseHeld, OneJobPerKey
    <2>. QED BY <2>1, <2>2, <2>3, <1>4 DEF Claim
  <1>5. CASE ClaimFails(j)
    <2>1. job[j] = "claim" /\ (job'[j] = "none" \/ (job'[j] = "produce" /\ alone'[j]))
          /\ \A i \in Reqs \ {j} : job'[i] = job[i] /\ alone'[i] = alone[i]
      BY <1>5 DEF ClaimFails, JobGoes, TypeOK
    <2>2. CASE UNCHANGED flight
      BY <2>1, <2>2
    <2>3. CASE Free(fence[j]) /\ Take(j)
      <3>1. \A i \in Reqs, k \in Keys : flight[k] = {i} => flight'[k] = {i}
        BY <2>3, TakeHolds
      <3>2. \A i \in Reqs : fence[i] \in Keys
        BY DEF TypeOK
      <3>3. LeaseHeld'
        BY <2>1, <3>1, <3>2 DEF FlightInv, LeaseHeld
      <3>4. OneJobPerKey'
        BY <2>1 DEF FlightInv, OneJobPerKey
      <3>. QED BY <3>3, <3>4
    <2>. QED BY <2>2, <2>3, <1>5 DEF ClaimFails
  <1>6. CASE Follow(j)
    <2>1. job'[j] = "none" /\ job[j] = "follow"
          /\ \A i \in Reqs \ {j} : job'[i] = job[i] /\ alone'[i] = alone[i]
      BY <1>6 DEF Follow
    <2>. QED BY <2>1, <1>6 DEF Follow, stores
  <1>7. CASE Reread(j)
    <2>1. job[j] = "reread"
          /\ (job'[j] \in {"none", "release"} \/ (job'[j] = "produce" /\ alone' = alone))
          /\ \A i \in Reqs \ {j} : job'[i] = job[i] /\ alone'[i] = alone[i]
      BY <1>7 DEF Reread
    <2>. QED BY <2>1, <1>7 DEF Reread, stores
  <1>8. CASE Produce(j)
    <2>1. job[j] = "produce"
          /\ (job'[j] \in {"none", "release"} \/ (job'[j] = "verify" /\ alone' = alone))
          /\ \A i \in Reqs \ {j} : job'[i] = job[i] /\ alone'[i] = alone[i]
      BY <1>8 DEF Produce
    <2>. QED BY <2>1, <1>8 DEF Produce, stores
  <1>9. CASE Verify(j)
    <2>1. job[j] = "verify"
          /\ (job'[j] \in {"none", "release"} \/ (job'[j] = "publish" /\ alone' = alone))
          /\ \A i \in Reqs \ {j} : job'[i] = job[i] /\ alone'[i] = alone[i]
      BY <1>9 DEF Verify
    <2>. QED BY <2>1, <1>9 DEF Verify, stores
  <1>10. CASE Publish(j)
    <2>1. job'[j] = "release" /\ job[j] = "publish"
          /\ \A i \in Reqs \ {j} : job'[i] = job[i] /\ alone'[i] = alone[i]
      BY <1>10 DEF Publish
    <2>. QED BY <2>1, <1>10 DEF Publish
  <1>11. CASE NotPublished(j)
    <2>1. job'[j] = "release" /\ job[j] = "publish"
          /\ \A i \in Reqs \ {j} : job'[i] = job[i] /\ alone'[i] = alone[i]
      BY <1>11 DEF NotPublished
    <2>. QED BY <2>1, <1>11 DEF NotPublished, stores
  <1>12. CASE Release(j)
    <2>1. job'[j] = "none" /\ job[j] = "release"
          /\ \A i \in Reqs \ {j} : job'[i] = job[i] /\ alone'[i] = alone[i]
      BY <1>12 DEF Release
    <2>. QED BY <2>1, <1>12 DEF Release
  <1>. QED BY <1>3, <1>4, <1>5, <1>6, <1>7, <1>8, <1>9, <1>10, <1>11, <1>12 DEF Job

LEMMA FlightStep == FaithInv /\ FlightInv /\ [Next]_vars => FlightInv'
  <1> SUFFICES ASSUME FaithInv, FlightInv, [Next]_vars
               PROVE  LeaseHeld' /\ OneJobPerKey'
    BY FaithStep DEF FlightInv, FaithInv
  <1>. USE DEF FlightInv, LeaseHeld, OneJobPerKey, Holding, TypeOK, stores, evidence,
               requests, jobs, Goes, JobGoes
  <1>1. ASSUME NEW r \in Reqs, Query(r) PROVE LeaseHeld' /\ OneJobPerKey'
    <2>1. job[r] = "none"
      BY <1>1 DEF Query, JobsFaithful
    <2>. QED BY <1>1, <2>1 DEF Query
  <1>2. ASSUME NEW r \in Reqs, Tick(r) PROVE LeaseHeld' /\ OneJobPerKey'
    BY <1>2 DEF Tick
  <1>3. ASSUME NEW s \in Stores, NEW k \in Keys, Evict(s, k)
        PROVE LeaseHeld' /\ OneJobPerKey'
    BY <1>3 DEF Evict
  <1>4. ASSUME NEW k \in Keys, LeaseExpires(k) PROVE LeaseHeld' /\ OneJobPerKey'
    <2>1. \A i \in Reqs : ~late[i] => flight[k] # {i}
      BY <1>4 DEF LeaseExpires
    <2>2. \A i \in Keys : i # k => flight'[i] = flight[i]
      BY <1>4 DEF LeaseExpires
    <2>. QED BY <1>4, <2>1, <2>2 DEF LeaseExpires
  <1>5. ASSUME NEW n \in Replicas, Crash(n) PROVE LeaseHeld' /\ OneJobPerKey'
    <2>1. \A j \in Reqs : job'[j] = "none" \/ (job'[j] = job[j] /\ alone'[j] = alone[j])
      BY <1>5 DEF Crash
    <2>. QED BY <1>5, <2>1 DEF Crash
  <1>6. ASSUME NEW r \in Reqs, Request(r) PROVE LeaseHeld' /\ OneJobPerKey'
    <2>1. CASE Lead(r)
      <3>1. \A j \in Reqs : job[j] # "none" => home[j] # home[r] \/ fence[j] # fence[r]
        BY <2>1 DEF Lead, SameKey, Inflight
      <3>. QED BY <2>1, <3>1 DEF Lead
    <2>2. CASE ~Lead(r)
      <3>1. UNCHANGED <<shared, flight, home, fence, late, job, alone>>
        BY <1>6, <2>2 DEF Request, Revalidate, Join, WaitTimeout, DirectRead,
                          Deliver, Refuse
      <3>. QED BY <3>1
    <2>. QED BY <2>1, <2>2
  <1>7. CASE Write \/ UNCHANGED vars
    <2>1. UNCHANGED <<shared, flight, home, fence, late, job, alone>>
      BY <1>7 DEF Write, vars
    <2>. QED BY <2>1
  <1>. QED BY <1>1, <1>2, <1>3, <1>4, <1>5, <1>6, <1>7, FlightJob DEF Next

\* Singleflight holds for any number of requests and replicas, with leases
\* that expire and leaders that are late or dead.
THEOREM FliesAlone == Spec => []SingleFlight
  <1>1. Init => FlightInv
    BY FaithInit DEF FlightInv, FaithInv, Init, LeaseHeld, OneJobPerKey, Holding
  <1>2. FlightInv => SingleFlight
    <2> SUFFICES ASSUME FlightInv, NEW i \in Reqs, NEW j \in Reqs,
                        i # j, Store(i) = Store(j), fence[i] = fence[j],
                        job[i] = "produce", job[j] = "produce",
                        ~alone[i], ~alone[j], ~late[i], ~late[j]
                 PROVE  FALSE
      BY DEF SingleFlight
    <2>1. CASE shared
      BY <2>1 DEF FlightInv, LeaseHeld, Holding
    <2>2. CASE ~shared
      BY <2>2 DEF FlightInv, OneJobPerKey, Store
    <2>. QED BY <2>1, <2>2
  <1>. QED BY <1>1, <1>2, FaithInit, FaithStep, FlightStep, PTL DEF Spec
=============================================================================
