------------------------- MODULE Attachments_proofs -------------------------
(***************************************************************************)
(* Proofs about Attachments, for any writes, requests, quota and bounds.   *)
(***************************************************************************)
EXTENDS Attachments, TLAPS

USE DEF Revisions, Versions, Requests

-----------------------------------------------------------------------------
(* Type correctness.                                                       *)

LEMMA TypeInit == Init => TypeOK
  BY BoundsAssumption DEF Init, TypeOK, Writes!Init, Phases

\* What a request's step leaves alone, by the kind of step.
LEMMA WriteTyped == ASSUME TypeOK, Write PROVE TypeOK'
  <1>. USE DEF TypeOK, epochs, record, call
  <1>1. revisao' \in Revisions
    BY BoundsAssumption
       DEF Write, Writes!Next, Writes!Begin, Writes!Apply, Writes!Invalidate,
           Writes!Settle
  <1>2. marca' \in [Ops -> Revisions] /\ pendentes' \subseteq Ops
        /\ aplicadas' \subseteq Ops
    BY DEF Write, Writes!Next, Writes!Begin, Writes!Apply, Writes!Invalidate,
           Writes!Settle
  <1>. QED BY <1>1, <1>2 DEF Write

\* What a request's answer and place may become.
LEMMA SettlesTyped ==
  ASSUME TypeOK, NEW r \in Requests, NEW word \in {"given", "refused"},
         Settles(r, word)
  PROVE  phase' \in [Requests -> Phases]
         /\ answer' \in [Requests -> {"none", "given", "refused"}]
  BY DEF TypeOK, Settles, Goes, Tells, Phases

LEMMA FailsTyped ==
  ASSUME TypeOK, NEW r \in Requests, Fails(r)
  PROVE  phase' \in [Requests -> Phases]
         /\ answer' \in [Requests -> {"none", "given", "refused"}]
  BY SettlesTyped DEF TypeOK, Fails, Goes, Phases

LEMMA CreateTyped == ASSUME TypeOK, NEW c \in Creators, Create(c) PROVE TypeOK'
  <1>. USE DEF TypeOK, writers, epochs, record, call, Goes, Phases, Querying,
               Verifying
  <1>1. CASE Query(c) BY <1>1 DEF Query
  <1>2. CASE Authorize(c) BY <1>2 DEF Authorize
  <1>3. CASE Select(c) BY <1>3 DEF Select
  <1>4. CASE Confirm(c) BY <1>4 DEF Confirm
  <1>5. CASE Put(c) BY <1>5 DEF Put
  <1>6. CASE PutFails(c)
    <2>1. phase' \in [Requests -> Phases]
          /\ answer' \in [Requests -> {"none", "given", "refused"}]
      BY <1>6, SettlesTyped DEF PutFails
    <2>. QED BY <1>6, <2>1 DEF PutFails
  <1>. QED BY <1>1, <1>2, <1>3, <1>4, <1>5, <1>6 DEF Create

LEMMA RequestTyped == ASSUME TypeOK, NEW r \in Requests, Request(r) PROVE TypeOK'
  <1>. USE DEF TypeOK, writers, epochs, record, call
  <1>1. CASE Begin(r) BY <1>1 DEF Begin, Goes, Phases, Querying
  <1>2. ASSUME NEW from \in Phases, NEW to \in Phases, Revalidates(r, from, to)
        PROVE  TypeOK'
    BY <1>2 DEF Revalidates, Goes
  <1>3. CASE Reauthorize(r) BY <1>3 DEF Reauthorize, Goes, Phases, Verifying
  <1>4. CASE Structure(r) BY <1>4 DEF Structure, Goes, Phases, Verifying
  <1>5. CASE Mismatch(r)
    <2>1. authority' \in Versions
      BY <1>5, BoundsAssumption DEF Mismatch
    <2>. QED BY <1>5, <2>1, FailsTyped DEF Mismatch
  <1>6. CASE Hand(r) BY <1>6, SettlesTyped DEF Hand
  <1>7. CASE Fail(r) BY <1>7, FailsTyped DEF Fail
  <1>8. CASE Remove(r) BY <1>8, SettlesTyped DEF Remove, Removes
  <1>. QED BY <1>1, <1>2, <1>3, <1>4, <1>5, <1>6, <1>7, <1>8
           DEF Request, Verify, Audit, Phases, Querying, Verifying

LEMMA TypeStep == TypeOK /\ [Next]_vars => TypeOK'
  <1> SUFFICES ASSUME TypeOK, [Next]_vars PROVE TypeOK'
    OBVIOUS
  <1>. USE DEF writers, epochs, record, call
  <1>1. ASSUME NEW c \in Creators, Expire(c) PROVE TypeOK'
    BY <1>1 DEF Expire, TypeOK
  <1>2. ASSUME NEW r \in Readers, Get(r) PROVE TypeOK'
    BY <1>2 DEF Get, TypeOK, Goes, Phases, Verifying
  <1>3. ASSUME NEW r \in Requests, Timeout(r) PROVE TypeOK'
    BY <1>3 DEF Timeout, Tells, TypeOK
  <1>4. ASSUME NEW r \in Requests, Crash(r) PROVE TypeOK'
    BY <1>4, SettlesTyped DEF Crash, TypeOK
  <1>5. CASE Cleanup BY <1>5 DEF Cleanup, TypeOK
  <1>6. CASE Change BY <1>6, BoundsAssumption DEF Change, TypeOK
  <1>7. CASE UNCHANGED vars BY <1>7 DEF vars, TypeOK
  <1>. QED BY <1>1, <1>2, <1>3, <1>4, <1>5, <1>6, <1>7, CreateTyped,
              RequestTyped, WriteTyped DEF Next

\* Every reachable state is of the declared types.
THEOREM AttachmentTypes == Spec => []TypeOK
  BY TypeInit, TypeStep, PTL DEF Spec

-----------------------------------------------------------------------------
(* What a step of one request leaves alone: every other request and its     *)
(* record, the writers, and an ended request.                              *)

Steps(r) ==
    \/ r \in Creators /\ Create(r)
    \/ r \in Readers /\ Get(r)
    \/ Request(r) \/ Timeout(r) \/ Crash(r)

Apart(q) ==
    /\ phase'[q] = phase[q] /\ answer'[q] = answer[q] /\ late'[q] = late[q]
    /\ lease'[q] = lease[q] /\ since'[q] = since[q]
    /\ q \in owes' <=> q \in owes
    /\ q \in Creators =>
          /\ fence'[q] = fence[q] /\ print'[q] = print[q] /\ data'[q] = data[q]
          /\ auth'[q] = auth[q]

Alone(r) ==
    /\ UNCHANGED <<writers, policy, target>>
    /\ \A q \in Requests \ {r} : Apart(q)
    /\ phase[r] # "done"
    /\ answer'[r] = answer[r] \/ answer[r] = "none"
    /\ answer'[r] = "given" => answer[r] = "given" \/ phase'[r] = "done"

LEMMA StepsAlone == ASSUME TypeOK, NEW r \in Requests, Steps(r) PROVE Alone(r)
  <1>. USE DEF TypeOK, Alone, Apart, writers, epochs, record, call, Goes, Tells,
               Settles, Fails, Querying, Verifying
  <1>1. CASE r \in Creators /\ Query(r) BY <1>1 DEF Query
  <1>2. CASE r \in Creators /\ Authorize(r) BY <1>2 DEF Authorize
  <1>3. CASE r \in Creators /\ Select(r) BY <1>3 DEF Select
  <1>4. CASE r \in Creators /\ Confirm(r) BY <1>4 DEF Confirm
  <1>5. CASE r \in Creators /\ Put(r) BY <1>5 DEF Put
  <1>6. CASE r \in Creators /\ PutFails(r) BY <1>6 DEF PutFails
  <1>7. CASE r \in Readers /\ Get(r) BY <1>7 DEF Get
  <1>8. CASE Begin(r) BY <1>8 DEF Begin
  <1>9. ASSUME NEW from \in Phases \ {"done"}, NEW to, Revalidates(r, from, to)
        PROVE  Alone(r)
    BY <1>9 DEF Revalidates
  <1>10. CASE Reauthorize(r) BY <1>10 DEF Reauthorize
  <1>11. CASE Structure(r) BY <1>11 DEF Structure
  <1>12. CASE Mismatch(r) BY <1>12 DEF Mismatch
  <1>13. CASE Hand(r) BY <1>13 DEF Hand
  <1>14. CASE Fail(r) BY <1>14 DEF Fail
  <1>15. CASE Remove(r) BY <1>15 DEF Remove, Removes
  <1>16. CASE Timeout(r) BY <1>16 DEF Timeout
  <1>17. CASE Crash(r) BY <1>17 DEF Crash
  <1>. QED BY <1>1, <1>2, <1>3, <1>4, <1>5, <1>6, <1>7, <1>8, <1>9, <1>10,
              <1>11, <1>12, <1>13, <1>14, <1>15, <1>16, <1>17
           DEF Steps, Create, Request, Verify, Audit, Phases

LEMMA StepCases ==
  ASSUME [Next]_vars
  PROVE  \/ \E r \in Requests : Steps(r)
         \/ \E c \in Creators : Expire(c)
         \/ Cleanup \/ Write \/ Change \/ UNCHANGED vars
  BY DEF Next, Steps

-----------------------------------------------------------------------------
(* What callers have been told, and which handles a read may name.          *)

Told ==
    /\ TypeOK
    /\ \A r \in Requests :
          /\ answer[r] = "given" => phase[r] = "done"
          /\ answer[r] = "refused" /\ phase[r] # "done" => late[r]
    /\ \A c \in Creators : target[c] = c
    /\ \A r \in Readers : phase[r] # "idle" => answer[target[r]] = "given"

LEMMA ToldInit == Init => Told
  BY TypeInit DEF Init, Told

LEMMA ToldSelf ==
  ASSUME Told, NEW r \in Requests, Steps(r)
  PROVE  /\ answer'[r] = "refused" /\ phase'[r] # "done" => late'[r]
         /\ r \in Readers /\ phase[r] = "idle" => answer[target[r]] = "given"
  <1>. USE DEF Told, TypeOK, writers, epochs, record, call, Goes, Tells,
               Settles, Fails, Querying, Verifying
  <1>1. CASE r \in Creators /\ Create(r)
    BY <1>1, RequestsAssumption
       DEF Create, Query, Authorize, Select, Confirm, Put, PutFails
  <1>2. CASE r \in Readers /\ Get(r) BY <1>2 DEF Get
  <1>3. CASE Begin(r) BY <1>3 DEF Begin
  <1>4. CASE Verify(r) \/ Audit(r)
    BY <1>4 DEF Verify, Audit, Revalidates, Reauthorize, Structure, Mismatch
  <1>5. CASE Hand(r) \/ Fail(r) \/ Remove(r) BY <1>5 DEF Hand, Fail, Remove
  <1>6. CASE Timeout(r) \/ Crash(r) BY <1>6 DEF Timeout, Crash
  <1>. QED BY <1>1, <1>2, <1>3, <1>4, <1>5, <1>6 DEF Steps, Request

LEMMA ToldStep == Told /\ [Next]_vars => Told'
  <1> SUFFICES ASSUME Told, [Next]_vars PROVE Told'
    OBVIOUS
  <1>. USE DEF Told
  <1>1. TypeOK' BY TypeStep
  <1>2. ASSUME NEW r \in Requests, Steps(r) PROVE Told'
    <2>1. Alone(r) BY <1>2, StepsAlone
    <2>2. \A q \in Requests : answer[q] = "given" => answer'[q] = "given"
      BY <2>1 DEF Alone, Apart, TypeOK
    <2>3. \A q \in Readers : target'[q] = target[q] /\ target[q] \in Creators
      BY <2>1 DEF Alone, TypeOK
    <2>4. ASSUME NEW q \in Readers, phase'[q] # "idle"
          PROVE  answer'[target'[q]] = "given"
      <3>1. answer[target[q]] = "given"
        BY <2>1, <2>4, <1>2, ToldSelf DEF Alone, Apart
      <3>. QED BY <3>1, <2>2, <2>3
    <2>5. ASSUME NEW q \in Requests
          PROVE  /\ answer'[q] = "given" => phase'[q] = "done"
                 /\ answer'[q] = "refused" /\ phase'[q] # "done" => late'[q]
      BY <2>1, <1>2, ToldSelf DEF Alone, Apart
    <2>. QED BY <1>1, <2>1, <2>4, <2>5 DEF Alone
  <1>3. CASE UNCHANGED <<phase, answer, late, target>>
    BY <1>1, <1>3
  <1>. QED BY <1>2, <1>3, StepCases DEF Expire, Cleanup, Write, Change, vars, call

\* A handed file's record is settled: no step touches it.
LEMMA GivenKept ==
  ASSUME Told, NEW r \in Requests, Steps(r), NEW c \in Creators,
         answer[c] = "given"
  PROVE  Apart(c)
  BY StepsAlone DEF Told, Alone

-----------------------------------------------------------------------------
(* Freshness.  As for cached results, what makes FreshArtifact true is that *)
(* the data of every record is faithful to the revision of its evidence:   *)
(* it misses no write of an older revision, so with that revision still    *)
(* current and no write pending it is the base itself.                     *)

Faithful(v, k) ==
    /\ k <= revisao
    /\ v \subseteq aplicadas
    /\ k = revisao => \A o \in aplicadas : marca[o] < revisao => o \in v

\* A write applied under the current revision is still pending.
WritersFenced ==
    \A o \in Ops :
        /\ marca[o] <= revisao
        /\ o \in aplicadas /\ marca[o] = revisao => o \in pendentes

\* A creation whose data was read, and one whose fingerprint is set.
Printed == {"finish", "put", "audit", "hand"} \cup Verifying
Filled == {"confirm"} \cup Printed

CreationsFaithful ==
    \A c \in Creators :
        /\ fence[c] <= revisao
        /\ phase[c] \in Filled \/ answer[c] = "given"
              => Faithful(data[c], fence[c])

\* No request is served under a policy older than the one it began under.
PoliciesKept ==
    \A r \in Requests :
        /\ since[r] <= policy
        /\ r \in Creators =>
              /\ phase[r] \in {"check", "select", "confirm"} => since[r] <= lease[r]
              /\ phase[r] \in Printed => since[r] <= print[r]
        /\ r \in Readers
                /\ phase[r] \in {"structure", "reverify", "audit", "hand"} =>
              since[r] <= print[target[r]]

FaithInv == Told /\ WritersFenced /\ CreationsFaithful /\ PoliciesKept

LEMMA FaithInit == Init => FaithInv
  <1> SUFFICES ASSUME Init PROVE FaithInv
    OBVIOUS
  <1>1. Told BY ToldInit
  <1>. QED
    BY <1>1, RequestsAssumption
       DEF Init, Writes!Init, FaithInv, WritersFenced, CreationsFaithful,
           PoliciesKept, Filled, Printed, Verifying

\* The data of the records keeps its faith while the writers go on.
LEMMA WriteKeepsFaith ==
  ASSUME TypeOK, WritersFenced, Write, NEW v, NEW k \in Revisions, Faithful(v, k)
  PROVE  Faithful(v, k)'
  <1>. USE DEF TypeOK, WritersFenced, Faithful
  <1>1. ASSUME NEW o \in Ops, Writes!Begin(o) PROVE Faithful(v, k)'
    BY <1>1 DEF Writes!Begin
  <1>2. ASSUME NEW o \in Ops, Writes!Apply(o) PROVE Faithful(v, k)'
    BY <1>2 DEF Writes!Apply
  <1>3. CASE Writes!Invalidate
    BY <1>3 DEF Writes!Invalidate
  <1>4. ASSUME NEW o \in Ops, Writes!Settle(o) PROVE Faithful(v, k)'
    BY <1>4 DEF Writes!Settle
  <1>. QED BY <1>1, <1>2, <1>3, <1>4 DEF Write, Writes!Next

LEMMA WriteKeepsFence ==
  ASSUME TypeOK, WritersFenced, Write
  PROVE  WritersFenced' /\ revisao <= revisao'
  <1>. USE DEF TypeOK, WritersFenced
  <1>. DEFINE G == WritersFenced' /\ revisao <= revisao'
  <1>1. ASSUME NEW o \in Ops, Writes!Begin(o) PROVE G
    BY <1>1 DEF Writes!Begin
  <1>2. ASSUME NEW o \in Ops, Writes!Apply(o) PROVE G
    BY <1>2 DEF Writes!Apply
  <1>3. CASE Writes!Invalidate
    BY <1>3 DEF Writes!Invalidate
  <1>4. ASSUME NEW o \in Ops, Writes!Settle(o) PROVE G
    BY <1>4 DEF Writes!Settle
  <1>. QED BY <1>1, <1>2, <1>3, <1>4 DEF Write, Writes!Next

LEMMA FaithWrite == FaithInv /\ Write => FaithInv'
  <1> SUFFICES ASSUME FaithInv, Write PROVE FaithInv'
    OBVIOUS
  <1>. USE DEF FaithInv
  <1>1. Told'
    BY ToldStep DEF Next
  <1>2. WritersFenced' /\ revisao <= revisao'
    BY WriteKeepsFence DEF Told
  <1>3. UNCHANGED <<epochs, record, phase, answer, call, lease>>
    BY DEF Write
  <1>4. CreationsFaithful'
    <2> SUFFICES ASSUME NEW c \in Creators
                 PROVE  /\ fence'[c] <= revisao'
                        /\ phase'[c] \in Filled \/ answer'[c] = "given"
                              => Faithful(data[c], fence[c])'
      BY <1>3 DEF CreationsFaithful, Filled, Printed, Verifying
    <2>1. fence[c] \in Revisions /\ fence'[c] = fence[c] /\ data'[c] = data[c]
      BY <1>3 DEF record, Told, TypeOK
    <2>2. fence[c] <= revisao /\ revisao \in Nat /\ revisao' \in Nat
      BY <1>1 DEF CreationsFaithful, Told, TypeOK
    <2>3. ASSUME Faithful(data[c], fence[c]) PROVE Faithful(data[c], fence[c])'
      <3>1. ASSUME NEW v, NEW k \in Revisions, Faithful(v, k)
            PROVE  k <= revisao' /\ v \subseteq aplicadas'
                   /\ (k = revisao' =>
                         \A o \in aplicadas' : marca'[o] < revisao' => o \in v)
        BY <3>1, WriteKeepsFaith DEF Faithful, Told
      <3>. QED BY <2>1, <2>3, <3>1 DEF Faithful
    <2>. QED BY <1>2, <1>3, <2>1, <2>2, <2>3 DEF CreationsFaithful
  <1>5. PoliciesKept'
    BY <1>3 DEF PoliciesKept, epochs, record, call, Printed, Verifying
  <1>. QED BY <1>1, <1>2, <1>4, <1>5

\* A creation's own step: what its record is and may become.
CreationKept(c) ==
    /\ fence'[c] <= revisao
    /\ phase'[c] \in Filled \/ answer'[c] = "given"
          => Faithful(data'[c], fence'[c])

LEMMA CreationStep ==
  ASSUME FaithInv, NEW c \in Creators, Steps(c)
  PROVE  CreationKept(c)
  <1>. USE DEF FaithInv, Told, TypeOK, CreationsFaithful, CreationKept, Faithful,
               writers, epochs, record, call, Goes, Tells, Settles, Fails,
               Filled, Printed, Querying, Verifying
  <1>1. c \notin Readers BY RequestsAssumption
  <1>2. CASE Query(c) BY <1>2 DEF Query
  <1>3. CASE Authorize(c) BY <1>3 DEF Authorize
  <1>4. CASE Select(c) BY <1>4 DEF Select
  <1>5. CASE Confirm(c) BY <1>5 DEF Confirm
  <1>6. CASE Put(c) \/ PutFails(c) BY <1>6 DEF Put, PutFails
  <1>7. CASE Begin(c) BY <1>7 DEF Begin
  <1>8. CASE Verify(c) \/ Audit(c)
    BY <1>1, <1>8
       DEF Verify, Audit, Revalidates, Reauthorize, Structure, Mismatch
  <1>9. CASE Hand(c) BY <1>9 DEF Hand
  <1>10. CASE Fail(c) \/ Remove(c) BY <1>10 DEF Fail, Remove
  <1>11. CASE Timeout(c) \/ Crash(c) BY <1>11 DEF Timeout, Crash
  <1>. QED BY <1>1, <1>2, <1>3, <1>4, <1>5, <1>6, <1>7, <1>8, <1>9, <1>10, <1>11
           DEF Steps, Create, Request

\* The policy of its record and of its lease, for the request that steps.
PolicyKept(r) ==
    /\ since'[r] <= policy
    /\ r \in Creators =>
          /\ phase'[r] \in {"check", "select", "confirm"} => since'[r] <= lease'[r]
          /\ phase'[r] \in Printed => since'[r] <= print'[r]
    /\ r \in Readers
            /\ phase'[r] \in {"structure", "reverify", "audit", "hand"} =>
          since'[r] <= print[target[r]]

LEMMA PolicyStep ==
  ASSUME FaithInv, NEW r \in Requests, Steps(r)
  PROVE  PolicyKept(r)
  <1>. USE DEF FaithInv, Told, TypeOK, PoliciesKept, PolicyKept, writers, epochs,
               record, call, Goes, Tells, Settles, Fails, Printed, Querying,
               Verifying
  <1>1. r \in Creators => r \notin Readers BY RequestsAssumption
  <1>2. CASE r \in Creators /\ Create(r)
    BY <1>1, <1>2 DEF Create, Query, Authorize, Select, Confirm, Put, PutFails
  <1>3. CASE r \in Readers /\ Get(r) BY <1>1, <1>3 DEF Get
  <1>4. CASE Begin(r) BY <1>1, <1>4 DEF Begin
  <1>5. CASE Reauthorize(r) BY <1>1, <1>5 DEF Reauthorize, SamePolicy
  <1>6. CASE Structure(r) \/ Mismatch(r) BY <1>1, <1>6 DEF Structure, Mismatch
  <1>7. CASE Verify(r) \/ Audit(r)
    BY <1>1, <1>5, <1>6, <1>7 DEF Verify, Audit, Revalidates
  <1>8. CASE Hand(r) \/ Fail(r) \/ Remove(r) BY <1>1, <1>8 DEF Hand, Fail, Remove
  <1>9. CASE Timeout(r) \/ Crash(r) BY <1>1, <1>9 DEF Timeout, Crash
  <1>. QED BY <1>2, <1>3, <1>4, <1>7, <1>8, <1>9 DEF Steps, Request

LEMMA FaithSteps ==
  ASSUME FaithInv, NEW r \in Requests, Steps(r)
  PROVE  FaithInv'
  <1>. USE DEF FaithInv
  <1>1. Told'
    <2>1. [Next]_vars BY DEF Next, Steps
    <2>. QED BY <2>1, ToldStep
  <1>2. Alone(r)
    BY StepsAlone DEF Told
  <1>3. WritersFenced'
    BY <1>2 DEF Alone, writers, WritersFenced
  <1>4. CreationsFaithful'
    <2> SUFFICES ASSUME NEW c \in Creators PROVE CreationKept(c)
      BY <1>2 DEF Alone, writers, CreationsFaithful, CreationKept, Faithful,
                  Filled, Printed, Verifying
    <2>1. CASE c = r BY <2>1, CreationStep
    <2>2. CASE c # r
      <3>1. Apart(c) BY <1>2, <2>2 DEF Alone
      <3>. QED BY <3>1 DEF Apart, CreationsFaithful, CreationKept
    <2>. QED BY <2>1, <2>2
  <1>5. PoliciesKept'
    <2>1. ASSUME NEW q \in Requests PROVE PolicyKept(q)
      <3>1. CASE q = r BY <3>1, PolicyStep
      <3>2. CASE q # r
        <4>1. Apart(q) BY <1>2, <3>2 DEF Alone
        <4>. QED BY <4>1 DEF Apart, PoliciesKept, PolicyKept
      <3>. QED BY <3>1, <3>2
    <2>2. ASSUME NEW q \in Readers,
                 phase'[q] \in {"structure", "reverify", "audit", "hand"}
          PROVE  print'[target'[q]] = print[target[q]]
      <3>1. target'[q] = target[q] /\ target[q] \in Creators
        BY <1>2 DEF Alone, Told, TypeOK
      <3>2. answer'[target[q]] = "given"
        BY <1>1, <2>2, <3>1 DEF Told
      <3>3. Apart(target[q])
        <4>1. CASE target[q] # r BY <1>2, <3>1, <4>1 DEF Alone
        <4>2. CASE target[q] = r
          <5>1. q # r BY <3>1, <4>2, RequestsAssumption
          <5>2. phase[q] = phase'[q] BY <1>2, <5>1 DEF Alone, Apart
          <5>3. answer[target[q]] = "given" BY <2>2, <5>2 DEF Told
          <5>. QED BY <3>1, <5>3, GivenKept
        <4>. QED BY <4>1, <4>2
      <3>. QED BY <3>1, <3>3 DEF Apart
    <2>3. UNCHANGED policy BY <1>2 DEF Alone
    <2>. QED BY <2>1, <2>2, <2>3 DEF PoliciesKept, PolicyKept, Printed, Verifying
  <1>. QED BY <1>1, <1>3, <1>4, <1>5

LEMMA FaithStep == FaithInv /\ [Next]_vars => FaithInv'
  <1> SUFFICES ASSUME FaithInv, [Next]_vars PROVE FaithInv'
    OBVIOUS
  <1>1. Told'
    BY ToldStep DEF FaithInv
  <1>2. CASE UNCHANGED <<writers, record, phase, answer, call, lease>>
             /\ policy <= policy'
    <2>. USE <1>2 DEF FaithInv, writers, record, call
    <2>1. WritersFenced' BY DEF WritersFenced
    <2>2. CreationsFaithful'
      BY DEF CreationsFaithful, Faithful, Filled, Printed, Verifying
    <2>3. PoliciesKept'
      <3>1. \A r \in Requests : since[r] \in Nat
        BY DEF Told, TypeOK
      <3>2. policy \in Nat /\ policy' \in Nat
        BY <1>1 DEF Told, TypeOK
      <3>. QED BY <3>1, <3>2 DEF PoliciesKept, Printed, Verifying
    <2>. QED BY <1>1, <2>1, <2>2, <2>3
  <1>3. (\E c \in Creators : Expire(c)) \/ Cleanup \/ Change \/ UNCHANGED vars
        => UNCHANGED <<writers, record, phase, answer, call, lease>>
           /\ policy <= policy'
    BY DEF Expire, Cleanup, Change, vars, epochs, FaithInv, Told, TypeOK
  <1>. QED BY <1>2, <1>3, FaithSteps, FaithWrite, StepCases

\* The action of FreshArtifact.
FreshStep ==
    \A r \in Requests :
        phase[r] = "audit" /\ phase'[r] = "hand" =>
            /\ data[target[r]] = aplicadas
            /\ auth[target[r]] = authority
            /\ since[r] <= print[target[r]]

LEMMA FaithFresh == FaithInv /\ [Next]_vars => FreshStep
  <1> SUFFICES ASSUME FaithInv, [Next]_vars,
                      NEW r \in Requests, phase[r] = "audit", phase'[r] = "hand"
               PROVE  /\ data[target[r]] = aplicadas
                      /\ auth[target[r]] = authority
                      /\ since[r] <= print[target[r]]
    BY DEF FreshStep
  <1>. USE DEF FaithInv
  <1>1. Told /\ target[r] \in Creators /\ phase \in [Requests -> Phases]
    BY DEF Told, TypeOK
  <1>2. Steps(r)
    <2>1. ASSUME NEW q \in Requests, Steps(q) PROVE q = r
      BY <1>1, <2>1, StepsAlone DEF Told, Alone, Apart
    <2>2. phase' # phase
      OBVIOUS
    <2>. QED BY <2>1, <2>2, StepCases DEF Expire, Cleanup, Write, Change, vars
  <1>3. Audit(r)
    <2>. USE DEF Goes, Settles, Fails, Phases, Querying, Verifying, TypeOK, Told
    <2>1. ~(r \in Creators /\ Create(r))
      BY DEF Create, Query, Authorize, Select, Confirm, Put, PutFails
    <2>2. ~(r \in Readers /\ Get(r))
      BY DEF Get
    <2>3. ~Begin(r) /\ ~Hand(r) /\ ~Fail(r) /\ ~Remove(r)
      BY DEF Begin, Hand, Fail, Remove
    <2>4. ~Verify(r)
      BY DEF Verify, Revalidates, Reauthorize, Structure, Mismatch
    <2>5. ~Timeout(r) /\ ~Crash(r)
      BY DEF Timeout, Crash
    <2>. QED BY <1>2, <2>1, <2>2, <2>3, <2>4, <2>5 DEF Steps, Request
  <1>4. auth[target[r]] = authority /\ fence[target[r]] = revisao /\ pendentes = {}
    BY <1>3 DEF Audit, Revalidates, Current, CurrentRevision
  <1>5. Faithful(data[target[r]], fence[target[r]])
    BY <1>1 DEF Told, CreationsFaithful, Filled, Printed
  <1>6. data[target[r]] = aplicadas
    <2>1. \A o \in aplicadas : marca[o] < revisao
      BY <1>1, <1>4 DEF WritersFenced, Told, TypeOK
    <2>. QED BY <1>4, <1>5, <2>1 DEF Faithful
  <1>7. since[r] <= print[target[r]]
    BY <1>1 DEF PoliciesKept, Printed, Told
  <1>. QED BY <1>4, <1>6, <1>7

\* FreshArtifact, for every instance: a file handed over is the business base
\* at the moment of its audit, under that moment's authority and a policy no
\* older than its caller's request.
THEOREM ArtifactsAreFresh == Spec => FreshArtifact
  <1>1. FaithInv /\ [Next]_vars => [FreshStep]_vars
    BY FaithFresh
  <1>2. Spec => []FaithInv
    BY FaithInit, FaithStep, PTL DEF Spec
  <1>3. Spec => [][FreshStep]_vars
    BY <1>1, <1>2, PTL DEF Spec
  <1>. QED BY <1>3 DEF FreshArtifact, FreshStep

-----------------------------------------------------------------------------
(* Removal.  A row whose removal somebody still owes is only reachable by   *)
(* requests under way: its creation put it, or was given as an answer.      *)

GoneInv ==
    /\ Told
    /\ \A r \in owes : phase[r] # "idle"
    /\ \A c \in Creators \cap owes : phase[c] \in {"audit", "hand", "remove", "done"}
    /\ RefusedIsGone

LEMMA GoneInit == Init => GoneInv
  BY ToldInit DEF Init, GoneInv, RefusedIsGone

\* What the step of a request leaves of what it owes itself.
GoneKept(r) ==
    /\ phase'[r] # "idle"
    /\ r \in Creators => phase'[r] \in {"audit", "hand", "remove", "done"}
    /\ phase'[r] = "done" /\ answer'[r] = "refused" => target[r] \notin rows'

LEMMA GoneSelf ==
  ASSUME GoneInv, NEW r \in Requests, Steps(r), r \in owes'
  PROVE  GoneKept(r)
  <1>. USE DEF GoneInv, Told, TypeOK, GoneKept, writers, epochs, record, call,
               Goes, Tells, Settles, Fails, Querying, Verifying
  <1>1. r \in Creators => r \notin Readers BY RequestsAssumption
  <1>2. CASE r \in Creators /\ Create(r)
    BY <1>1, <1>2 DEF Create, Query, Authorize, Select, Confirm, Put, PutFails
  <1>3. CASE r \in Readers /\ Get(r) BY <1>1, <1>3 DEF Get
  <1>4. CASE Begin(r) BY <1>1, <1>4 DEF Begin
  <1>5. CASE Verify(r) \/ Audit(r)
    BY <1>1, <1>5
       DEF Verify, Audit, Revalidates, Reauthorize, Structure, Mismatch
  <1>6. CASE Hand(r) BY <1>1, <1>6 DEF Hand, Check
  <1>7. CASE Fail(r) BY <1>1, <1>7 DEF Fail
  <1>8. CASE Remove(r) BY <1>1, <1>8 DEF Remove, Removes
  <1>9. CASE Timeout(r) \/ Crash(r) BY <1>1, <1>9 DEF Timeout, Crash
  <1>. QED BY <1>2, <1>3, <1>4, <1>5, <1>6, <1>7, <1>8, <1>9 DEF Steps, Request

\* Rows grow only by the put of a creation, which nobody was given yet.
LEMMA RowsGrow ==
  ASSUME Told, [Next]_vars, NEW c \in Creators, c \in rows', c \notin rows
  PROVE  Steps(c) /\ phase[c] = "put" /\ answer[c] # "given"
  <1>1. ASSUME NEW r \in Requests, Steps(r)
        PROVE  \/ rows' \subseteq rows
               \/ r \in Creators /\ rows' = rows \cup {r} /\ phase[r] = "put"
    <2>1. CASE r \in Creators /\ Create(r)
      BY <2>1 DEF Create, Query, Authorize, Select, Confirm, Put, PutFails
    <2>2. CASE Get(r) \/ Begin(r) \/ Hand(r) \/ Fail(r) \/ Remove(r)
      BY <2>2 DEF Get, Begin, Hand, Fail, Remove, Removes
    <2>3. CASE Verify(r) \/ Audit(r)
      BY <2>3 DEF Verify, Audit, Revalidates, Reauthorize, Structure, Mismatch
    <2>4. CASE Timeout(r) \/ Crash(r)
      BY <2>4 DEF Timeout, Crash
    <2>. QED BY <1>1, <2>1, <2>2, <2>3, <2>4 DEF Steps, Request
  <1>2. PICK r \in Requests : Steps(r)
    BY StepCases DEF Expire, Cleanup, Write, Change, vars
  <1>3. r = c
    BY <1>1, <1>2
  <1>. QED BY <1>1, <1>2, <1>3 DEF Told

LEMMA GoneStep == GoneInv /\ [Next]_vars => GoneInv'
  <1> SUFFICES ASSUME GoneInv, [Next]_vars PROVE GoneInv'
    OBVIOUS
  <1>. USE DEF GoneInv
  <1>1. Told' /\ owes' \subseteq Requests
    BY ToldStep DEF Told, TypeOK
  <1>2. target' = target
    <2>1. \A r \in Requests : Steps(r) => target' = target
      BY StepsAlone DEF Told, Alone
    <2>. QED BY <2>1, StepCases DEF Expire, Cleanup, Write, Change, vars, call
  <1>3. ASSUME NEW q \in owes' PROVE GoneKept(q)
    <2>1. CASE Steps(q)
      BY <1>1, <2>1, <1>3, GoneSelf
    <2>2. CASE ~Steps(q)
      <3>1. q \in owes /\ phase'[q] = phase[q] /\ answer'[q] = answer[q]
        <4>1. \A r \in Requests : Steps(r) => Apart(q)
          BY <1>1, <1>3, <2>2, StepsAlone DEF Told, Alone
        <4>. QED BY <1>1, <1>3, <4>1, StepCases
                 DEF Apart, Expire, Cleanup, Write, Change, vars
      <3>2. target[q] \in Creators
        BY <1>1, <3>1 DEF Told, TypeOK
      <3>3. ASSUME phase[q] = "done", answer[q] = "refused", target[q] \in rows'
            PROVE  FALSE
        <4>1. target[q] \notin rows
          BY <3>1, <3>3 DEF RefusedIsGone
        <4>2. Steps(target[q]) /\ answer[target[q]] # "given"
          BY <3>2, <3>3, <4>1, RowsGrow
        <4>3. q \notin Creators
          BY <2>2, <4>2 DEF Told
        <4>. QED BY <1>1, <3>3, <4>2, <4>3 DEF Told
      <3>. QED BY <3>1, <3>3 DEF GoneKept
    <2>. QED BY <2>1, <2>2
  <1>. QED BY <1>1, <1>2, <1>3 DEF GoneKept, RefusedIsGone

\* RefusedIsGone, for every instance: a refused request leaves no row behind,
\* unless a crash or a failed statement kept it from removing it.
THEOREM RefusalsRemove == Spec => []RefusedIsGone
  <1>1. Spec => []GoneInv
    BY GoneInit, GoneStep, PTL DEF Spec
  <1>2. GoneInv => RefusedIsGone
    BY DEF GoneInv
  <1>. QED BY <1>1, <1>2, PTL
=============================================================================
