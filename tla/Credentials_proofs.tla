-------------------------- MODULE Credentials_proofs --------------------------
(***************************************************************************)
(* Proofs about credentials and the key they are encrypted under:          *)
(* SourceTokens, for any number of processes, gateways, calls, logins and  *)
(* changes, and VaultRotation, for any keys, targets, batches, servers and *)
(* bounds.                                                                 *)
(***************************************************************************)
EXTENDS SourceTokens, VaultRotation, SequenceTheorems, FiniteSetTheorems,
        WellFoundedInduction, TLAPS

\* Versions only grow, and a change that rotated knows to which.
Counts ==
    /\ row.version <= row.auth
    /\ \A p \in Process :
         /\ rotated[p] <= row.version
         /\ edits[p].phase \in {"verify", "commit", "mismatch"} => edits[p].base < MaxAuth
         /\ edits[p].phase = "discard" /\ Rotates(edits[p].kind)
              => edits[p].base <= row.version

\* A login that was under way when the sessions were discarded has no effect.
LateIsInvalid ==
    \A a \in Attempt : Running(a) /\ attempts[a].doomed => ~attempts[a].valid

\* A login with the old account that began after the discard has still to read
\* the credential again, or has read that it is old.
LateReads ==
    \A a \in Attempt :
        /\ Running(a) /\ attempts[a].valid
        /\ attempts[a].version < rotated[Home[attempts[a].at]]
        => attempts[a].phase = "login" \/ attempts[a].read # attempts[a].version

\* What a call has read, and the login it waits for, are of one version.
CallReads ==
    \A c \in Call :
        /\ calls[c].phase \in {"token", "resolve", "await"}
             => calls[c].client = calls[c].source
        /\ calls[c].phase = "await"
             => /\ calls[c].attempt \in Attempt
                /\ attempts[calls[c].attempt].at = Gate[c]
                /\ attempts[calls[c].attempt].version = calls[c].client

Inv ==
    /\ TypeOK /\ Counts /\ OneLogin /\ NoLateToken /\ LateIsInvalid
    /\ LateReads /\ OldAccountGone /\ CallReads /\ CarrierIsOne

-----------------------------------------------------------------------------
(* Types, and what the versions are                                         *)

LEMMA NoAttemptType == NoAttempt \in AttemptType
<1>1. (CHOOSE m \in Manager : TRUE) \in Manager
  BY GatesAssumption
<1>2. 1 \in Version
  BY BoundAssumption DEF Version
<1> QED BY <1>1, <1>2 DEF NoAttempt, AttemptType

LEMMA NoCallType == NoCall \in CallType /\ NoEdit \in EditType
<1>1. 1 \in Version
  BY BoundAssumption DEF Version
<1> QED BY <1>1 DEF NoCall, CallType, NoEdit, EditType, Kinds

\* What invalidate() does to the managers of M, login by login.
LEMMA InvalidateIs ==
    ASSUME TypeOK, NEW M, Invalidate(M)
    PROVE  /\ sessions' \in [Manager -> SUBSET Version]
           /\ pending' \in [Manager -> [Version -> Attempt \cup {None}]]
           /\ attempts' \in [Attempt -> AttemptType]
           /\ \A m \in Manager :
                /\ m \in M => sessions'[m] = {}
                /\ m \notin M => sessions'[m] = sessions[m]
                /\ \A v \in Version :
                     pending'[m][v] = IF m \in M THEN None ELSE pending[m][v]
           /\ \A a \in Attempt :
                /\ attempts'[a].phase = attempts[a].phase
                /\ attempts'[a].at = attempts[a].at
                /\ attempts'[a].version = attempts[a].version
                /\ attempts'[a].read = attempts[a].read
                /\ attempts'[a].valid =
                     (attempts[a].valid
                      /\ ~(attempts[a].at \in M
                           /\ pending[attempts[a].at][attempts[a].version] = a))
                /\ attempts'[a].doomed =
                     (attempts[a].doomed
                      \/ (Running(a) /\ attempts[a].at \in M))
<1>1. /\ sessions' \in [Manager -> SUBSET Version]
      /\ pending' \in [Manager -> [Version -> Attempt \cup {None}]]
  BY DEF Invalidate, TypeOK
<1>2. \A m \in Manager :
        /\ m \in M => sessions'[m] = {}
        /\ m \notin M => sessions'[m] = sessions[m]
        /\ \A v \in Version :
             pending'[m][v] = IF m \in M THEN None ELSE pending[m][v]
  BY DEF Invalidate
<1>3. ASSUME NEW a \in Attempt
      PROVE  /\ attempts'[a] \in AttemptType
             /\ attempts'[a].phase = attempts[a].phase
             /\ attempts'[a].at = attempts[a].at
             /\ attempts'[a].version = attempts[a].version
             /\ attempts'[a].read = attempts[a].read
             /\ attempts'[a].valid =
                  (attempts[a].valid
                   /\ ~(attempts[a].at \in M
                        /\ pending[attempts[a].at][attempts[a].version] = a))
             /\ attempts'[a].doomed =
                  (attempts[a].doomed
                   \/ (Running(a) /\ attempts[a].at \in M))
  <2>1. attempts[a] \in AttemptType
    BY <1>3 DEF TypeOK
  <2> QED BY <1>3, <2>1 DEF Invalidate, AttemptType, Running
<1>4. attempts' = [a \in Attempt |-> attempts'[a]]
  BY DEF Invalidate
<1> QED BY <1>1, <1>2, <1>3, <1>4

\* What a step makes of a call, or of a change: the old one with other fields.
LEMMA CallTyped ==
    ASSUME TypeOK, NEW c \in Call, NEW k \in CallType,
           calls' = [calls EXCEPT ![c] = k]
    PROVE  calls' \in [Call -> CallType]
BY DEF TypeOK

LEMMA EndsTyped ==
    ASSUME TypeOK, NEW c \in Call, Ends(c)
    PROVE  calls' \in [Call -> CallType]
BY NoCallType DEF TypeOK, Ends

\* The calls keep their type in every step of theirs.
LEMMA CallSteps ==
    ASSUME TypeOK, CallReads, NEW c \in Call, CallStep(c)
    PROVE  calls' \in [Call -> CallType]
<1>0. /\ calls \in [Call -> CallType] /\ calls[c] \in CallType
      /\ row \in RowType /\ row.version \in Version /\ 1 \in Version
  BY BoundAssumption DEF TypeOK, RowType, Version
<1>1. CASE Arrive(c)
  BY <1>0, <1>1 DEF Arrive, NoCall, CallType
<1>2. CASE Open(c)
  BY <1>0, <1>2, EndsTyped DEF Open, CallType
<1>3. CASE Find(c)
  BY <1>0, <1>3 DEF Find, CallType
<1>4. CASE RefuseStale(c)
  BY <1>4, EndsTyped DEF RefuseStale
<1>5. CASE UseSession(c)
  BY <1>0, <1>5 DEF UseSession, Checks, CallType
<1>6. CASE Join(c)
  <2>1. pending[Gate[c]][calls[c].read] \in Attempt \cup {None}
    BY <1>0, GatesAssumption DEF TypeOK, CallType
  <2> QED BY <1>0, <1>6, <2>1 DEF Join, CallType
<1>7. ASSUME NEW a \in Attempt, Login(c, a)
      PROVE  calls' \in [Call -> CallType]
  <2>1. calls' = [calls EXCEPT ![c].phase = "await", ![c].attempt = a]
    BY <1>7 DEF Login
  <2> QED BY <1>0, <1>7, <2>1 DEF CallType
<1>8. CASE Resume(c)
  <2>1. CASE attempts[calls[c].attempt].phase = "resolved"
    <3>1. calls[c].attempt \in Attempt
      BY <1>8 DEF Resume, CallReads
    <3>2. attempts[calls[c].attempt].version \in Version
      BY <3>1 DEF TypeOK, AttemptType
    <3> QED BY <1>0, <1>8, <2>1, <3>2 DEF Resume, Checks, CallType
  <2>2. CASE attempts[calls[c].attempt].phase # "resolved"
    BY <1>8, <2>2, EndsTyped DEF Resume
  <2> QED BY <2>1, <2>2
<1>9. CASE Check(c)
  BY <1>0, <1>9, EndsTyped DEF Check, CallType
<1>10. CASE Granted(c)
  BY <1>0, <1>10, EndsTyped DEF Granted, CallType
<1>11. CASE Execute(c)
  BY <1>0, <1>11 DEF Execute, CallType
<1>12. CASE Allowed(c)
  BY <1>0, <1>12 DEF Allowed, CallType
<1>13. CASE Confirm(c) \/ Denied(c) \/ OtherBase(c)
  BY <1>13, EndsTyped DEF Confirm, Denied, OtherBase
<1> QED
  BY <1>1, <1>2, <1>3, <1>4, <1>5, <1>6, <1>7, <1>8, <1>9, <1>10, <1>11,
     <1>12, <1>13 DEF CallStep

\* So do the change of a process, the row and what is known of the versions;
\* and the credential's version never falls.
LEMMA EditSteps ==
    ASSUME TypeOK, Counts, NEW p \in Process, EditStep(p)
    PROVE  /\ row' \in RowType /\ edits' \in [Process -> EditType]
           /\ rotated' \in [Process -> {0} \cup Version]
           /\ Counts' /\ row'.version >= row.version
<1>0. /\ edits \in [Process -> EditType] /\ edits[p] \in EditType
      /\ row \in RowType /\ row.version \in Version /\ row.auth \in Version
      /\ row.version <= row.auth /\ 1 \in Version
      /\ rotated \in [Process -> {0} \cup Version]
      /\ \A q \in Process : rotated[q] \in {0} \cup Version /\ edits[q] \in EditType
      /\ row.version \in Int /\ row.auth \in Int
      /\ Version \subseteq Int /\ MaxAuth \in Nat
  BY BoundAssumption DEF TypeOK, RowType, Version, Counts
<1>1. ASSUME NEW k \in Kinds, BeginEdit(p, k)
      PROVE  /\ row' \in RowType /\ edits' \in [Process -> EditType]
             /\ rotated' \in [Process -> {0} \cup Version]
             /\ Counts' /\ row'.version >= row.version
  BY <1>0, <1>1 DEF BeginEdit, EditType, Counts, Version
<1>2. CASE Verify(p)
  BY <1>0, <1>2, NoCallType DEF Verify, Editing, Done, NoEdit, EditType, Counts
<1>3. CASE Mismatch(p)
  BY <1>0, <1>3, NoCallType DEF Mismatch, Editing, Done, NoEdit, EditType,
     Counts
<1>4. CASE Quarantine(p)
  <2>1. row' \in RowType /\ row'.version = row.version /\ row.auth <= row'.auth
    <3>1. CASE row.active
      <4>1. row' = [row EXCEPT !.active = FALSE, !.auth = @ + 1]
        BY <1>4, <3>1 DEF Quarantine, Quarantined
      <4>2. row.auth + 1 \in Version /\ row.auth <= row.auth + 1
        BY <1>0, <1>4, <3>1 DEF Quarantine, Version
      <4>3. row'.auth = row.auth + 1 /\ row'.version = row.version
        BY <1>0, <4>1 DEF RowType
      <4>4. row' \in RowType
        BY <1>0, <4>1, <4>2 DEF RowType
      <4> QED BY <4>2, <4>3, <4>4
    <3>2. CASE ~row.active
      <4>1. row' = row
        BY <1>4, <3>2 DEF Quarantine, Quarantined
      <4> QED BY <1>0, <4>1
    <3> QED BY <3>1, <3>2
  <2>2. edits' \in [Process -> EditType] /\ UNCHANGED rotated
    BY <1>0, <1>4, NoCallType
    DEF Quarantine, Done, EditType, Kinds
  <2>3. \A q \in Process : q # p => edits'[q] = edits[q]
    BY <1>0, <1>4 DEF Quarantine, Done
  <2>4. \/ edits'[p].phase = "idle"
        \/ edits'[p].phase = "discard" /\ edits'[p].kind = "suspend"
    BY <1>0, <1>4 DEF Quarantine, Done, NoEdit, EditType
  <2> QED BY <1>0, <2>1, <2>2, <2>3, <2>4 DEF Counts, Rotates, RowType, Version
<1>5. CASE CommitEdit(p)
  <2>1. CASE Same(p)
    <3>1. row.auth < MaxAuth
      BY <1>0, <1>5, <2>1 DEF CommitEdit, Same, Counts
    <3>2. /\ row'.version \in {row.version, row.version + 1}
          /\ row'.auth = row.auth + 1
          /\ row' \in RowType
      <4> DEFINE up == IF Rotates(edits[p].kind) THEN 1 ELSE 0
      <4>1. up \in {0, 1}
        OBVIOUS
      <4>2. row' = [version |-> row.version + up, auth |-> row.auth + 1,
                    active |-> edits[p].kind \notin {"suspend", "replace"},
                    replaced |-> edits[p].kind = "replace"]
        BY <1>5, <2>1 DEF CommitEdit
      <4> HIDE DEF up
      <4>3. row.version + up \in Version /\ row.auth + 1 \in Version
        BY <1>0, <3>1, <4>1 DEF Version
      <4> QED BY <1>0, <4>1, <4>2, <4>3 DEF RowType
    <3>3. edits' = [edits EXCEPT ![p].phase = "discard", ![p].base = row'.version]
      BY <1>5, <2>1 DEF CommitEdit
    <3>4. row'.version \in Version
      BY <3>2 DEF RowType
    <3>5. /\ edits' \in [Process -> EditType]
          /\ \A q \in Process : q # p => edits'[q] = edits[q]
          /\ edits'[p].phase = "discard" /\ edits'[p].base = row'.version
      BY <1>0, <3>3, <3>4 DEF EditType
    <3>6. UNCHANGED rotated
      BY <1>5 DEF CommitEdit
    <3>7. row.version <= row'.version /\ row'.version <= row'.auth
      BY <1>0, <3>2 DEF Version
    <3>8. Counts'
      <4> SUFFICES ASSUME NEW q \in Process
                   PROVE  /\ rotated'[q] <= row'.version
                          /\ edits'[q].phase \in {"verify", "commit", "mismatch"}
                               => edits'[q].base < MaxAuth
                          /\ edits'[q].phase = "discard" /\ Rotates(edits'[q].kind)
                               => edits'[q].base <= row'.version
        BY <3>7 DEF Counts
      <4>1. rotated[q] <= row.version /\ rotated'[q] = rotated[q]
        BY <3>6 DEF Counts
      <4>2. CASE q = p
        BY <1>0, <3>2, <3>4, <3>5, <3>7, <4>1, <4>2 DEF Version
      <4>3. CASE q # p
        <5>1. edits'[q] = edits[q] /\ edits[q].base \in Version
          BY <1>0, <3>5, <4>3 DEF EditType
        <5> QED BY <1>0, <3>2, <3>4, <3>7, <4>1, <5>1 DEF Counts, Version
      <4> QED BY <4>2, <4>3
    <3> QED BY <1>0, <3>2, <3>5, <3>6, <3>7, <3>8
  <2>2. CASE ~Same(p)
    BY <1>0, <1>5, <2>2, NoCallType DEF CommitEdit, Done, NoEdit, EditType,
       Counts
  <2> QED BY <2>1, <2>2
<1>6. CASE Discard(p)
  BY <1>0, <1>6, NoCallType DEF Discard, Done, NoEdit, EditType, Counts, Version
<1>7. CASE Crash(p)
  BY <1>0, <1>7, NoCallType DEF Crash, NoEdit, EditType, Counts, Version
<1> QED BY <1>1, <1>2, <1>3, <1>4, <1>5, <1>6, <1>7 DEF EditStep

\* The login of a step keeps its type.
LEMMA AttemptSteps ==
    ASSUME TypeOK, NEW a \in Attempt, FindAgain(a) \/ LoginFails(a) \/ Settle(a)
    PROVE  /\ sessions' \in [Manager -> SUBSET Version]
           /\ pending' \in [Manager -> [Version -> Attempt \cup {None}]]
           /\ attempts' \in [Attempt -> AttemptType]
<1>1. /\ attempts[a] \in AttemptType /\ row.version \in Version
      /\ attempts[a].at \in Manager /\ attempts[a].version \in Version
  BY DEF TypeOK, AttemptType, RowType
<1>2. Leaves(a) \in [Manager -> [Version -> Attempt \cup {None}]]
  BY <1>1 DEF Leaves, TypeOK
<1>3. CASE FindAgain(a)
  BY <1>1, <1>3 DEF FindAgain, TypeOK, AttemptType
<1>4. CASE LoginFails(a)
  BY <1>1, <1>2, <1>4 DEF LoginFails, TypeOK, AttemptType
<1>5. CASE Settle(a)
  <2>1. sessions' \in [Manager -> SUBSET Version]
    BY <1>1, <1>5 DEF Settle, TypeOK
  <2>2. attempts' \in [Attempt -> AttemptType]
    <3>1. \/ attempts' = [attempts EXCEPT ![a].phase = "resolved"]
          \/ attempts' = [attempts EXCEPT ![a].phase = "rejected"]
      BY <1>5 DEF Settle
    <3>2. /\ [attempts[a] EXCEPT !.phase = "resolved"] \in AttemptType
          /\ [attempts[a] EXCEPT !.phase = "rejected"] \in AttemptType
      BY <1>1 DEF AttemptType
    <3> QED BY <3>1, <3>2 DEF TypeOK
  <2>3. pending' = Leaves(a)
    BY <1>5 DEF Settle
  <2> QED BY <1>2, <2>1, <2>2, <2>3
<1> QED BY <1>3, <1>4, <1>5

-----------------------------------------------------------------------------
(* What a step may do to the managers                                       *)

\* The steps that leave the managers alone.
Quiet == UNCHANGED <<sessions, pending, attempts, rotated>>

LEMMA StepKinds ==
    ASSUME TypeOK, [Next]_vars
    PROVE  \/ Quiet
           \/ \E c \in Call : RefuseStale(c)
           \/ \E c \in Call, a \in Attempt : Login(c, a)
           \/ \E c \in Call : Resume(c)
           \/ \E a \in Attempt : FindAgain(a) \/ LoginFails(a) \/ Settle(a)
           \/ \E m \in Manager : SessionGoes(m)
           \/ \E p \in Process : Discard(p) \/ Crash(p)
<1>1. CASE UNCHANGED vars
  BY <1>1 DEF vars, Quiet
<1>2. ASSUME NEW c \in Call, CallStep(c)
      PROVE  Quiet \/ RefuseStale(c) \/ Resume(c) \/ \E a \in Attempt : Login(c, a)
  BY <1>2 DEF CallStep, Quiet, Arrive, Open, Find, UseSession, Join, Check,
              Granted, Execute, Allowed, Confirm, Denied, OtherBase
<1>3. ASSUME NEW p \in Process, EditStep(p)
      PROVE  Quiet \/ Discard(p) \/ Crash(p)
  BY <1>3 DEF EditStep, Quiet, BeginEdit, Verify, Mismatch, Quarantine,
     CommitEdit
<1> QED BY <1>1, <1>2, <1>3 DEF Next

\* The managers' types, from those of the rest.
LEMMA ManagerSteps ==
    ASSUME TypeOK, CallReads, [Next]_vars
    PROVE  /\ sessions' \in [Manager -> SUBSET Version]
           /\ pending' \in [Manager -> [Version -> Attempt \cup {None}]]
           /\ attempts' \in [Attempt -> AttemptType]
<1>0. /\ sessions \in [Manager -> SUBSET Version]
      /\ pending \in [Manager -> [Version -> Attempt \cup {None}]]
      /\ attempts \in [Attempt -> AttemptType]
      /\ \A c \in Call : calls[c] \in CallType /\ Gate[c] \in Manager
  BY GatesAssumption DEF TypeOK
<1>1. CASE Quiet
  BY <1>0, <1>1 DEF Quiet
<1>2. ASSUME NEW c \in Call, RefuseStale(c)
      PROVE  /\ sessions' \in [Manager -> SUBSET Version]
             /\ pending' \in [Manager -> [Version -> Attempt \cup {None}]]
             /\ attempts' \in [Attempt -> AttemptType]
  BY <1>2, InvalidateIs DEF RefuseStale
<1>3. ASSUME NEW c \in Call, NEW a \in Attempt, Login(c, a)
      PROVE  /\ sessions' \in [Manager -> SUBSET Version]
             /\ pending' \in [Manager -> [Version -> Attempt \cup {None}]]
             /\ attempts' \in [Attempt -> AttemptType]
  <2>1. calls[c].read \in Version /\ Gate[c] \in Manager
    BY <1>0, <1>3 DEF CallType
  <2> QED BY <1>0, <1>3, <2>1 DEF Login, AttemptType
<1>4. ASSUME NEW c \in Call, Resume(c)
      PROVE  /\ sessions' \in [Manager -> SUBSET Version]
             /\ pending' \in [Manager -> [Version -> Attempt \cup {None}]]
             /\ attempts' \in [Attempt -> AttemptType]
  BY <1>0, <1>4, NoAttemptType DEF Resume
<1>5. ASSUME NEW m \in Manager, SessionGoes(m)
      PROVE  /\ sessions' \in [Manager -> SUBSET Version]
             /\ pending' \in [Manager -> [Version -> Attempt \cup {None}]]
             /\ attempts' \in [Attempt -> AttemptType]
  BY <1>0, <1>5 DEF SessionGoes
<1>6. ASSUME NEW p \in Process, Discard(p)
      PROVE  /\ sessions' \in [Manager -> SUBSET Version]
             /\ pending' \in [Manager -> [Version -> Attempt \cup {None}]]
             /\ attempts' \in [Attempt -> AttemptType]
  BY <1>6, InvalidateIs DEF Discard
<1>7. ASSUME NEW p \in Process, Crash(p)
      PROVE  /\ sessions' \in [Manager -> SUBSET Version]
             /\ pending' \in [Manager -> [Version -> Attempt \cup {None}]]
             /\ attempts' \in [Attempt -> AttemptType]
  BY <1>0, <1>7, NoAttemptType DEF Crash
<1> QED
  BY <1>1, <1>2, <1>3, <1>4, <1>5, <1>6, <1>7, StepKinds, AttemptSteps

\* Everything keeps its type, and the versions only grow.
LEMMA Types ==
    ASSUME TypeOK, Counts, CallReads, [Next]_vars
    PROVE  TypeOK' /\ Counts' /\ row'.version >= row.version
<1>0. row.version \in Int /\ row.version >= row.version
  BY DEF TypeOK, RowType, Version
<1>1. CASE UNCHANGED vars
  BY <1>0, <1>1 DEF vars, TypeOK, Counts
<1>2. ASSUME NEW c \in Call, CallStep(c)
      PROVE  TypeOK' /\ Counts' /\ row'.version >= row.version
  <2>1. UNCHANGED <<edits, rotated>>
    BY <1>2 DEF CallStep, Arrive, Open, Find, RefuseStale, UseSession, Join,
                Login, Resume, Check, Granted, Execute, Allowed, Confirm,
                Denied, OtherBase
  <2>2. /\ row' \in RowType /\ row'.version = row.version
        /\ row'.version <= row'.auth
    <3>1. CASE OtherBase(c)
      <4>1. row \in RowType /\ row.auth \in Int /\ row.version \in Int
            /\ row.version <= row.auth /\ row.auth >= 1 /\ MaxAuth \in Int
        BY BoundAssumption DEF TypeOK, RowType, Version, Counts
      <4>2. CASE row.active
        <5>1. row' = [row EXCEPT !.active = FALSE, !.auth = @ + 1]
          BY <3>1, <4>2 DEF OtherBase, Quarantined
        <5>2. row.auth + 1 \in Version /\ row.version <= row.auth + 1
          BY <3>1, <4>1, <4>2 DEF OtherBase, Version
        <5>3. row'.auth = row.auth + 1 /\ row'.version = row.version
          BY <4>1, <5>1 DEF RowType
        <5>4. row' \in RowType
          BY <4>1, <5>1, <5>2 DEF RowType
        <5> QED BY <5>2, <5>3, <5>4
      <4>3. CASE ~row.active
        <5>1. row' = row
          BY <3>1, <4>3 DEF OtherBase, Quarantined
        <5> QED BY <4>1, <5>1
      <4> QED BY <4>2, <4>3
    <3>2. CASE ~OtherBase(c)
      <4>1. row' = row
        BY <1>2, <3>2 DEF CallStep, Arrive, Open, Find, RefuseStale,
           UseSession, Join, Login, Resume, Check, Granted, Execute, Allowed,
           Confirm, Denied
      <4> QED BY <4>1 DEF TypeOK, Counts
    <3> QED BY <3>1, <3>2
  <2>3. TypeOK'
    BY <1>2, <2>1, <2>2, CallSteps, ManagerSteps DEF TypeOK, Next
  <2> QED BY <1>0, <2>1, <2>2, <2>3 DEF Counts
<1>3. ASSUME NEW a \in Attempt, FindAgain(a) \/ LoginFails(a) \/ Settle(a)
      PROVE  TypeOK' /\ Counts' /\ row'.version >= row.version
  BY <1>0, <1>3, AttemptSteps DEF FindAgain, LoginFails, Settle, TypeOK, Counts
<1>4. ASSUME NEW m \in Manager, SessionGoes(m)
      PROVE  TypeOK' /\ Counts' /\ row'.version >= row.version
  BY <1>0, <1>4, ManagerSteps DEF SessionGoes, TypeOK, Counts, Next
<1>5. ASSUME NEW p \in Process, EditStep(p)
      PROVE  TypeOK' /\ Counts' /\ row'.version >= row.version
  <2>1. calls' \in [Call -> CallType]
    BY <1>5, NoCallType DEF EditStep, BeginEdit, Verify, Mismatch, Quarantine,
          CommitEdit, Discard, Crash, TypeOK
  <2> QED BY <1>5, <2>1, EditSteps, ManagerSteps DEF TypeOK, Next
<1> QED BY <1>1, <1>2, <1>3, <1>4, <1>5 DEF Next

-----------------------------------------------------------------------------
(* The logins                                                               *)

Effects(a) == Running(a) /\ attempts[a].valid

\* OneLogin, login by login.
Joined ==
    \A m \in Manager, v \in Version, a \in Attempt :
        pending[m][v] = a
            <=> Effects(a) /\ attempts[a].at = m /\ attempts[a].version = v

LEMMA JoinedIsOneLogin == TypeOK => (OneLogin <=> Joined)
<1> SUFFICES ASSUME TypeOK PROVE OneLogin <=> Joined
  OBVIOUS
<1>1. \A m \in Manager, v \in Version : pending[m][v] \in Attempt \cup {None}
  BY DEF TypeOK
<1> QED BY <1>1, NoneAssumption DEF OneLogin, Joined, Effects

\* What the argument about a login rests on.
Logins == Joined /\ NoLateToken /\ LateIsInvalid

LEMMA InvalidateLogins ==
    ASSUME TypeOK, Logins, NEW M, Invalidate(M)
    PROVE  /\ Logins'
           /\ \A a \in Attempt : Effects(a)' => Effects(a) /\ attempts[a].at \notin M
<1> USE DEF Effects, Running
<1>0. \A a \in Attempt : /\ attempts[a] \in AttemptType
                         /\ attempts[a].at \in Manager
                         /\ attempts[a].version \in Version
  BY DEF TypeOK, AttemptType
<1>a. \A a \in Attempt :
        /\ attempts'[a].phase = attempts[a].phase
        /\ attempts'[a].valid =
             (attempts[a].valid
              /\ ~(attempts[a].at \in M
                   /\ pending[attempts[a].at][attempts[a].version] = a))
  BY InvalidateIs
<1>1. ASSUME NEW a \in Attempt, Effects(a)'
      PROVE  Effects(a) /\ attempts[a].at \notin M
  <2>1. attempts'[a].valid
    BY <1>1
  <2>2. Effects(a) /\ ~(attempts[a].at \in M
                        /\ pending[attempts[a].at][attempts[a].version] = a)
    BY <1>1, <1>a, <2>1
  <2>3. pending[attempts[a].at][attempts[a].version] = a
    BY <1>0, <2>2 DEF Logins, Joined
  <2> QED BY <2>2, <2>3
<1>2. ASSUME NEW a \in Attempt, Effects(a), attempts[a].at \notin M
      PROVE  Effects(a)'
  <2>1. attempts'[a].valid
    BY <1>2, <1>a
  <2> QED BY <1>2, <1>a, <2>1
<1>3. Joined'
  <2> SUFFICES ASSUME NEW m \in Manager, NEW v \in Version, NEW a \in Attempt
               PROVE  pending'[m][v] = a
                        <=> Effects(a)' /\ attempts'[a].at = m
                            /\ attempts'[a].version = v
    BY DEF Joined
  <2>1. /\ attempts'[a].at = attempts[a].at
        /\ attempts'[a].version = attempts[a].version
        /\ pending'[m][v] = IF m \in M THEN None ELSE pending[m][v]
    BY InvalidateIs
  <2>2. CASE m \in M
    BY <1>1, <2>1, <2>2, NoneAssumption
  <2>3. CASE m \notin M
    <3>1. pending'[m][v] = pending[m][v]
      BY <2>1, <2>3
    <3>2. ASSUME pending[m][v] = a
          PROVE  Effects(a)' /\ attempts[a].at = m /\ attempts[a].version = v
      <4>1. Effects(a) /\ attempts[a].at = m /\ attempts[a].version = v
        BY <3>2 DEF Logins, Joined
      <4> QED BY <1>2, <2>3, <4>1
    <3>3. ASSUME Effects(a)', attempts[a].at = m, attempts[a].version = v
          PROVE  pending[m][v] = a
      <4>1. Effects(a)
        BY <1>1, <3>3
      <4> QED BY <3>3, <4>1 DEF Logins, Joined
    <3> QED BY <2>1, <3>1, <3>2, <3>3
  <2> QED BY <2>2, <2>3
<1>b. \A a \in Attempt :
        /\ attempts'[a].phase = attempts[a].phase
        /\ attempts'[a].doomed =
             (attempts[a].doomed \/ (Running(a) /\ attempts[a].at \in M))
  BY InvalidateIs
<1>4. NoLateToken'
  <2> SUFFICES ASSUME NEW a \in Attempt, attempts'[a].doomed
               PROVE  attempts'[a].phase # "resolved"
    BY DEF NoLateToken
  <2>1. attempts[a].doomed \/ Running(a)
    BY <1>b
  <2> QED BY <1>b, <2>1 DEF Logins, NoLateToken
<1>5. LateIsInvalid'
  <2> SUFFICES ASSUME NEW a \in Attempt, Running(a)', attempts'[a].doomed
               PROVE  ~attempts'[a].valid
    BY DEF LateIsInvalid
  <2>1. Running(a) /\ (attempts[a].doomed \/ attempts[a].at \in M)
    BY <1>b
  <2>2. CASE attempts'[a].valid
    <3>1. Effects(a) /\ attempts[a].at \notin M
      BY <1>1, <2>1, <2>2
    <3> QED BY <2>1, <3>1 DEF Logins, LateIsInvalid
  <2> QED BY <2>2
<1> QED BY <1>1, <1>3, <1>4, <1>5 DEF Logins

LEMMA LoginsKept ==
    ASSUME TypeOK, CallReads, Logins, [Next]_vars
    PROVE  Logins'
<1> USE DEF Effects, Running
<1>0. /\ \A a \in Attempt : /\ attempts[a] \in AttemptType
                            /\ attempts[a].at \in Manager
                            /\ attempts[a].version \in Version
                            /\ attempts[a].valid \in BOOLEAN
      /\ \A c \in Call : calls[c] \in CallType /\ Gate[c] \in Manager
                         /\ calls[c].read \in Version
      /\ pending \in [Manager -> [Version -> Attempt \cup {None}]]
      /\ attempts \in [Attempt -> AttemptType]
  BY GatesAssumption DEF TypeOK, AttemptType, CallType
<1>1. CASE Quiet
  BY <1>1 DEF Quiet, Logins, Joined, NoLateToken, LateIsInvalid
<1>2. ASSUME NEW c \in Call, RefuseStale(c)
      PROVE  Logins'
  BY <1>2, InvalidateLogins DEF RefuseStale
<1>3. ASSUME NEW c \in Call, NEW b \in Attempt, Login(c, b)
      PROVE  Logins'
  <2> DEFINE m == Gate[c]
             v == calls[c].read
  <2>1. /\ attempts' = [attempts EXCEPT ![b] =
              [phase |-> "login", at |-> m, version |-> v, valid |-> TRUE,
               read |-> v, doomed |-> FALSE]]
        /\ pending' = [pending EXCEPT ![m][v] = b]
        /\ pending[m][v] = None /\ ~Running(b)
    BY <1>3 DEF Login
  <2>2. \A n \in Manager, w \in Version :
          pending'[n][w] = IF n = m /\ w = v THEN b ELSE pending[n][w]
    BY <1>0, <2>1
  <2>3. \A a \in Attempt : a # b => attempts'[a] = attempts[a]
    BY <1>0, <2>1
  <2>4. /\ attempts'[b].phase = "login" /\ attempts'[b].valid
        /\ attempts'[b].at = m /\ attempts'[b].version = v
        /\ ~attempts'[b].doomed
    BY <1>0, <2>1
  <2>5. Joined'
    BY <1>0, <2>1, <2>2, <2>3, <2>4, NoneAssumption DEF Logins, Joined
  <2> QED BY <2>3, <2>4, <2>5 DEF Logins, NoLateToken, LateIsInvalid
<1>4. ASSUME NEW c \in Call, Resume(c)
      PROVE  Logins'
  <2> DEFINE b == calls[c].attempt
  <2>1. /\ ~Running(b) /\ b \in Attempt /\ UNCHANGED pending
        /\ attempts' \in {attempts, [attempts EXCEPT ![b] = NoAttempt]}
    BY <1>4 DEF Resume, CallReads
  <2>2. /\ \A a \in Attempt : a # b => attempts'[a] = attempts[a]
        /\ attempts'[b] \in {attempts[b], NoAttempt}
    BY <1>0, <2>1
  <2>3. NoAttempt.phase = "free" /\ ~NoAttempt.doomed
    BY DEF NoAttempt
  <2>4. \A a \in Attempt : Effects(a)' = Effects(a)
    BY <2>1, <2>2, <2>3
  <2>5. Joined'
    BY <1>0, <2>1, <2>2, <2>3, <2>4 DEF Logins, Joined
  <2> QED BY <2>1, <2>2, <2>3, <2>5 DEF Logins, NoLateToken, LateIsInvalid
<1>5. ASSUME NEW b \in Attempt, FindAgain(b)
      PROVE  Logins'
  <2>1. /\ attempts'[b].phase = "found" /\ attempts[b].phase = "login"
        /\ attempts'[b].at = attempts[b].at
        /\ attempts'[b].version = attempts[b].version
        /\ attempts'[b].valid = attempts[b].valid
        /\ attempts'[b].doomed = attempts[b].doomed
        /\ \A a \in Attempt : a # b => attempts'[a] = attempts[a]
        /\ UNCHANGED pending
    BY <1>0, <1>5 DEF FindAgain, AttemptType
  <2> QED BY <2>1 DEF Logins, Joined, NoLateToken, LateIsInvalid
<1>6. ASSUME NEW b \in Attempt, LoginFails(b) \/ Settle(b)
      PROVE  Logins'
  <2>1. /\ Running(b)
        /\ attempts'[b].phase \in {"resolved", "rejected"}
        /\ attempts'[b].phase = "resolved" => attempts[b].valid
        /\ attempts'[b].at = attempts[b].at
        /\ attempts'[b].version = attempts[b].version
        /\ attempts'[b].doomed = attempts[b].doomed
        /\ \A a \in Attempt : a # b => attempts'[a] = attempts[a]
        /\ pending' = Leaves(b)
    BY <1>0, <1>6 DEF LoginFails, Settle, Effective, AttemptType
  <2>2. \A m \in Manager, v \in Version :
          pending'[m][v] = IF pending[m][v] = b THEN None ELSE pending[m][v]
    BY <1>0, <2>1 DEF Leaves, Logins, Joined
  <2>3. Joined'
    BY <1>0, <2>1, <2>2, NoneAssumption DEF Logins, Joined
  <2> QED BY <2>1, <2>3 DEF Logins, NoLateToken, LateIsInvalid
<1>7. ASSUME NEW m \in Manager, SessionGoes(m)
      PROVE  Logins'
  BY <1>7 DEF SessionGoes, Logins, Joined, NoLateToken, LateIsInvalid
<1>8. ASSUME NEW p \in Process, Discard(p)
      PROVE  Logins'
  BY <1>8, InvalidateLogins DEF Discard
<1>9. ASSUME NEW p \in Process, Crash(p)
      PROVE  Logins'
  <2>1. /\ \A a \in Attempt : attempts'[a] =
              IF Home[attempts[a].at] = p THEN NoAttempt ELSE attempts[a]
        /\ \A m \in Manager, v \in Version :
             pending'[m][v] = IF Home[m] = p THEN None ELSE pending[m][v]
    BY <1>0, <1>9 DEF Crash
  <2>2. NoAttempt.phase = "free" /\ ~NoAttempt.doomed
    BY DEF NoAttempt
  <2>3. Joined'
    BY <1>0, <2>1, <2>2, NoneAssumption DEF Logins, Joined
  <2> QED BY <2>1, <2>2, <2>3 DEF Logins, NoLateToken, LateIsInvalid
<1> QED
  BY <1>1, <1>2, <1>3, <1>4, <1>5, <1>6, <1>7, <1>8, <1>9, StepKinds

-----------------------------------------------------------------------------
(* The old account                                                          *)

\* A login that ends well read the version it used, and that is not older than
\* the rotation its process knows of: LateReads.
Accounts == LateReads /\ OldAccountGone

LEMMA InvalidateAccounts ==
    ASSUME TypeOK, Logins, Accounts, NEW M, Invalidate(M),
           NEW p \in Process,
           \A q \in Process : q = p \/ rotated'[q] = rotated[q],
           rotated'[p] = rotated[p] \/ \A m \in Manager : Home[m] = p => m \in M
    PROVE  Accounts'
<1>1. ASSUME NEW m \in Manager, NEW v \in sessions'[m]
      PROVE  rotated'[Home[m]] <= v
  <2>1. m \notin M /\ v \in sessions[m]
    BY <1>1, InvalidateIs
  <2>2. rotated'[Home[m]] = rotated[Home[m]]
    BY <2>1, GatesAssumption
  <2> QED BY <2>1, <2>2 DEF Accounts, OldAccountGone
<1>2. ASSUME NEW a \in Attempt, Effects(a)',
             attempts'[a].version < rotated'[Home[attempts'[a].at]]
      PROVE  attempts'[a].phase = "login" \/ attempts'[a].read # attempts'[a].version
  <2>1. /\ attempts'[a].phase = attempts[a].phase
        /\ attempts'[a].at = attempts[a].at
        /\ attempts'[a].version = attempts[a].version
        /\ attempts'[a].read = attempts[a].read
    BY InvalidateIs
  <2>2. Effects(a) /\ attempts[a].at \notin M
    BY <1>2, InvalidateLogins
  <2>3. attempts[a].at \in Manager
    BY DEF TypeOK, AttemptType
  <2>4. rotated'[Home[attempts[a].at]] = rotated[Home[attempts[a].at]]
    BY <2>2, <2>3, GatesAssumption
  <2> QED BY <1>2, <2>1, <2>2, <2>4 DEF Accounts, LateReads, Effects
<1> QED BY <1>1, <1>2 DEF Accounts, OldAccountGone, LateReads, Effects, Running

LEMMA AccountsKept ==
    ASSUME TypeOK, Counts, CallReads, Logins, Accounts, [Next]_vars
    PROVE  Accounts'
<1> USE DEF Running
<1>0. /\ \A a \in Attempt : /\ attempts[a] \in AttemptType
                            /\ attempts[a].at \in Manager
                            /\ Home[attempts[a].at] \in Process
                            /\ attempts[a].version \in Int
      /\ \A c \in Call : Gate[c] \in Manager /\ Home[Gate[c]] \in Process
      /\ \A p \in Process : rotated[p] \in Int /\ rotated[p] <= row.version
      /\ \A m \in Manager : sessions[m] \subseteq Int /\ Home[m] \in Process
      /\ row.version \in Int
      /\ sessions \in [Manager -> SUBSET Version]
      /\ attempts \in [Attempt -> AttemptType]
      /\ rotated \in [Process -> {0} \cup Version]
  BY GatesAssumption DEF TypeOK, AttemptType, Version, Counts, RowType
<1>1. CASE Quiet
  BY <1>1 DEF Quiet, Accounts, LateReads, OldAccountGone
<1>2. ASSUME NEW c \in Call, RefuseStale(c)
      PROVE  Accounts'
  BY <1>0, <1>2, InvalidateAccounts DEF RefuseStale
<1>3. ASSUME NEW c \in Call, NEW b \in Attempt, Login(c, b)
      PROVE  Accounts'
  <2>1. /\ attempts'[b].phase = "login"
        /\ \A a \in Attempt : a # b => attempts'[a] = attempts[a]
        /\ UNCHANGED <<sessions, rotated>>
    BY <1>0, <1>3 DEF Login
  <2> QED BY <2>1 DEF Accounts, LateReads, OldAccountGone
<1>4. ASSUME NEW c \in Call, Resume(c)
      PROVE  Accounts'
  <2>1. /\ \A a \in Attempt : attempts'[a] \in {attempts[a], NoAttempt}
        /\ UNCHANGED <<sessions, rotated>>
    BY <1>0, <1>4 DEF Resume, CallReads
  <2>2. NoAttempt.phase = "free"
    BY DEF NoAttempt
  <2> QED BY <2>1, <2>2 DEF Accounts, LateReads, OldAccountGone
<1>5. ASSUME NEW b \in Attempt, FindAgain(b)
      PROVE  Accounts'
  <2>1. /\ attempts'[b].read = row.version
        /\ attempts'[b].at = attempts[b].at
        /\ attempts'[b].version = attempts[b].version
        /\ \A a \in Attempt : a # b => attempts'[a] = attempts[a]
        /\ UNCHANGED <<sessions, rotated>>
    BY <1>0, <1>5 DEF FindAgain, AttemptType
  <2>2. attempts[b].version < rotated[Home[attempts[b].at]]
           => row.version # attempts[b].version
    BY <1>0
  <2> QED BY <2>1, <2>2 DEF Accounts, LateReads, OldAccountGone
<1>6. ASSUME NEW b \in Attempt, LoginFails(b) \/ Settle(b)
      PROVE  Accounts'
  <2>1. /\ attempts'[b].phase \in {"resolved", "rejected"}
        /\ \A a \in Attempt : a # b => attempts'[a] = attempts[a]
        /\ UNCHANGED rotated
    BY <1>0, <1>6 DEF LoginFails, Settle, AttemptType
  <2>2. LateReads'
    BY <2>1 DEF Accounts, LateReads
  <2>3. ASSUME NEW m \in Manager, NEW v \in sessions'[m]
        PROVE  rotated[Home[m]] <= v
    <3>1. CASE v \in sessions[m]
      BY <3>1 DEF Accounts, OldAccountGone
    <3>2. CASE v \notin sessions[m]
      <4>1. /\ m = attempts[b].at /\ v = attempts[b].version
            /\ attempts[b].phase = "found" /\ Effective(b)
        BY <1>0, <1>6, <2>3, <3>2 DEF LoginFails, Settle
      <4>2. ~(attempts[b].version < rotated[Home[attempts[b].at]])
        BY <4>1 DEF Effective, Accounts, LateReads
      <4> QED BY <1>0, <4>1, <4>2
    <3> QED BY <3>1, <3>2
  <2> QED BY <2>1, <2>2, <2>3 DEF Accounts, OldAccountGone
<1>7. ASSUME NEW m \in Manager, SessionGoes(m)
      PROVE  Accounts'
  <2>1. \A n \in Manager : sessions'[n] \subseteq sessions[n]
    BY <1>0, <1>7 DEF SessionGoes
  <2> QED BY <1>7, <2>1 DEF SessionGoes, Accounts, LateReads, OldAccountGone
<1>8. ASSUME NEW p \in Process, Discard(p)
      PROVE  Accounts'
  <2>1. /\ Invalidate({m \in Manager : Home[m] = p})
        /\ \A q \in Process : q = p \/ rotated'[q] = rotated[q]
    BY <1>0, <1>8 DEF Discard
  <2> QED BY <2>1, InvalidateAccounts
<1>9. ASSUME NEW p \in Process, Crash(p)
      PROVE  Accounts'
  <2>1. /\ \A a \in Attempt : attempts'[a] =
              IF Home[attempts[a].at] = p THEN NoAttempt ELSE attempts[a]
        /\ \A m \in Manager :
             sessions'[m] = IF Home[m] = p THEN {} ELSE sessions[m]
        /\ \A q \in Process : q # p => rotated'[q] = rotated[q]
    BY <1>0, <1>9 DEF Crash
  <2>2. NoAttempt.phase = "free"
    BY DEF NoAttempt
  <2> QED BY <1>0, <2>1, <2>2 DEF Accounts, LateReads, OldAccountGone
<1> QED
  BY <1>1, <1>2, <1>3, <1>4, <1>5, <1>6, <1>7, <1>8, <1>9, StepKinds

-----------------------------------------------------------------------------
(* The calls                                                                *)

Carried(k) == k \in {"gate", "hub", "leased", "policy", "confirm"}

LEMMA CallsKept ==
    ASSUME TypeOK, Logins, CallReads, CarrierIsOne, [Next]_vars
    PROVE  CallReads' /\ CarrierIsOne'
<1> USE DEF Running
<1>0. /\ calls \in [Call -> CallType]
      /\ \A c \in Call : calls[c] \in CallType /\ Gate[c] \in Manager
      /\ attempts \in [Attempt -> AttemptType]
      /\ pending \in [Manager -> [Version -> Attempt \cup {None}]]
      /\ NoCall.phase = "idle"
  BY GatesAssumption DEF TypeOK, NoCall
<1>1. ASSUME \A a \in Attempt : Awaiting(a) # {} =>
                 /\ attempts'[a].at = attempts[a].at
                 /\ attempts'[a].version = attempts[a].version,
             UNCHANGED calls
      PROVE  CallReads' /\ CarrierIsOne'
  BY <1>1 DEF CallReads, CarrierIsOne, Awaiting
<1>2. ASSUME NEW c \in Call, CallStep(c)
      PROVE  CallReads' /\ CarrierIsOne'
  <2> DEFINE k == calls'[c]
             Fine == /\ k.phase \in {"token", "resolve", "await"}
                          => k.client = k.source
                     /\ k.phase = "await"
                          => /\ k.attempt \in Attempt
                             /\ attempts'[k.attempt].at = Gate[c]
                             /\ attempts'[k.attempt].version = k.client
                     /\ Carried(k.phase) => k.client = k.access
             Others == \A d \in Call : d # c => calls'[d] = calls[d]
             Waits == \A a \in Attempt : Awaiting(a) \ {c} # {} =>
                        /\ attempts'[a].at = attempts[a].at
                        /\ attempts'[a].version = attempts[a].version
  <2>0. ASSUME Fine, Others, Waits
        PROVE  CallReads' /\ CarrierIsOne'
    <3>1. ASSUME NEW d \in Call, d # c, calls[d].phase = "await"
          PROVE  /\ attempts'[calls[d].attempt].at = attempts[calls[d].attempt].at
                 /\ attempts'[calls[d].attempt].version
                      = attempts[calls[d].attempt].version
      BY <2>0, <3>1 DEF Awaiting, CallReads
    <3> QED BY <2>0, <3>1 DEF CallReads, CarrierIsOne, Carried
  <2>z. calls[c] \in CallType
    BY <1>0
  <2>1. ASSUME UNCHANGED attempts PROVE Waits
    BY <2>1
  <2>2. ASSUME Ends(c), Waits PROVE CallReads' /\ CarrierIsOne'
    <3>1. Others /\ k = NoCall
      BY <1>0, <2>2 DEF Ends
    <3>2. Fine
      BY <1>0, <3>1 DEF Carried
    <3> QED BY <2>0, <2>2, <3>1, <3>2
  <2>3. CASE Arrive(c)
    <3>1. Others /\ k.phase = "open" /\ UNCHANGED attempts
      BY <1>0, <2>3 DEF Arrive, NoCall
    <3>2. Fine
      BY <3>1 DEF Carried
    <3> QED BY <2>0, <2>1, <3>1, <3>2
  <2>4. CASE Open(c)
    <3>1. CASE row.version = calls[c].source
      <4>1. /\ Others /\ k.phase = "token" /\ k.client = k.source
            /\ UNCHANGED attempts
        BY <1>0, <2>4, <2>z, <3>1 DEF Open, CallType
      <4>2. Fine
        BY <4>1 DEF Carried
      <4> QED BY <2>0, <2>1, <4>1, <4>2
    <3>2. CASE row.version # calls[c].source
      BY <2>1, <2>2, <2>4, <3>2 DEF Open
    <3> QED BY <3>1, <3>2
  <2>5. CASE Find(c)
    <3>1. /\ Others /\ k.phase = "resolve" /\ k.client = calls[c].client
          /\ k.source = calls[c].source /\ UNCHANGED attempts
          /\ calls[c].phase = "token"
      BY <1>0, <2>5, <2>z DEF Find, CallType
    <3>2. Fine
      BY <3>1 DEF Carried, CallReads
    <3> QED BY <2>0, <2>1, <3>1, <3>2
  <2>6. CASE RefuseStale(c)
    BY <2>2, <2>6, InvalidateIs DEF RefuseStale
  <2>7. CASE UseSession(c)
    <3>1. /\ Others /\ k.phase \in {"gate", "policy"}
          /\ k.client = calls[c].client /\ k.access = calls[c].read
          /\ calls[c].read = calls[c].source /\ UNCHANGED attempts
          /\ calls[c].phase = "resolve"
      BY <1>0, <2>7, <2>z DEF UseSession, Stale, Checks, CallType
    <3>2. Fine
      BY <3>1 DEF Carried, CallReads
    <3> QED BY <2>0, <2>1, <3>1, <3>2
  <2>8. CASE Join(c)
    <3> DEFINE a == pending[Gate[c]][calls[c].read]
    <3>1. /\ Others /\ k.phase = "await" /\ k.attempt = a
          /\ k.client = calls[c].client /\ k.source = calls[c].source
          /\ calls[c].read = calls[c].source /\ UNCHANGED attempts
          /\ calls[c].phase = "resolve" /\ a # None /\ calls[c].read \in Version
      BY <1>0, <2>8, <2>z DEF Join, Stale, CallType
    <3>2. a \in Attempt
      BY <1>0, <3>1
    <3>3. attempts[a].at = Gate[c] /\ attempts[a].version = calls[c].read
      BY <1>0, <3>1, <3>2 DEF Logins, Joined
    <3>4. Fine
      BY <3>1, <3>2, <3>3 DEF Carried, CallReads
    <3> QED BY <2>0, <2>1, <3>1, <3>4
  <2>9. ASSUME NEW a \in Attempt, Login(c, a)
        PROVE  CallReads' /\ CarrierIsOne'
    <3>1. /\ Others /\ k.phase = "await" /\ k.attempt = a
          /\ k.client = calls[c].client /\ k.source = calls[c].source
          /\ calls[c].read = calls[c].source
          /\ calls[c].phase = "resolve" /\ Awaiting(a) = {}
          /\ attempts'[a].at = Gate[c] /\ attempts'[a].version = calls[c].read
          /\ \A b \in Attempt : b # a => attempts'[b] = attempts[b]
      BY <1>0, <2>9, <2>z DEF Login, Stale, CallType
    <3>2. Fine
      BY <3>1 DEF Carried, CallReads
    <3>3. Waits
      BY <3>1
    <3> QED BY <2>0, <3>1, <3>2, <3>3
  <2>10. CASE Resume(c)
    <3> DEFINE a == calls[c].attempt
    <3>1. /\ a \in Attempt /\ attempts[a].version = calls[c].client
          /\ attempts' = IF Awaiting(a) = {c}
                         THEN [attempts EXCEPT ![a] = NoAttempt] ELSE attempts
      BY <2>10 DEF Resume, CallReads
    <3>2. Waits
      BY <1>0, <3>1
    <3>3. CASE attempts[a].phase = "resolved"
      <4>1. calls' = [calls EXCEPT ![c].phase = Checks(c), ![c].attempt = None,
                                   ![c].access = attempts[a].version]
        BY <2>10, <3>3 DEF Resume
      <4>2. /\ Others /\ k.phase \in {"gate", "policy"}
            /\ k.client = calls[c].client /\ k.access = attempts[a].version
        BY <1>0, <2>z, <4>1 DEF Checks, CallType
      <4>3. Fine
        BY <3>1, <4>2 DEF Carried
      <4> QED BY <2>0, <3>2, <4>2, <4>3
    <3>4. CASE attempts[a].phase # "resolved"
      BY <2>2, <2>10, <3>2, <3>4 DEF Resume
    <3> QED BY <3>3, <3>4
  <2>11. CASE Confirm(c) \/ Denied(c) \/ OtherBase(c)
    BY <2>1, <2>2, <2>11 DEF Confirm, Denied, OtherBase
  <2>12. CASE Check(c) \/ Granted(c) \/ Execute(c) \/ Allowed(c)
    <3>1. CASE Ends(c)
      BY <2>1, <2>2, <2>12, <3>1 DEF Check, Granted, Execute, Allowed
    <3>2. CASE ~Ends(c)
      <4>1. /\ Others /\ k.client = calls[c].client /\ k.access = calls[c].access
            /\ Carried(calls[c].phase) /\ Carried(k.phase) /\ UNCHANGED attempts
        BY <1>0, <2>z, <2>12, <3>2
        DEF Check, Granted, Execute, Allowed, Carried, CallType
      <4>2. Fine
        BY <4>1 DEF Carried, CarrierIsOne
      <4> QED BY <2>0, <2>1, <4>1, <4>2
    <3> QED BY <3>1, <3>2
  <2> QED
    BY <1>2, <2>3, <2>4, <2>5, <2>6, <2>7, <2>8, <2>9, <2>10, <2>11, <2>12
    DEF CallStep
<1>3. ASSUME NEW a \in Attempt, FindAgain(a) \/ LoginFails(a) \/ Settle(a)
      PROVE  CallReads' /\ CarrierIsOne'
  <2>1. /\ attempts'[a].at = attempts[a].at
        /\ attempts'[a].version = attempts[a].version
        /\ \A b \in Attempt : b # a => attempts'[b] = attempts[b]
        /\ UNCHANGED calls
    BY <1>0, <1>3 DEF FindAgain, LoginFails, Settle, AttemptType
  <2> QED BY <1>1, <2>1
<1>4. ASSUME NEW m \in Manager, SessionGoes(m)
      PROVE  CallReads' /\ CarrierIsOne'
  BY <1>1, <1>4 DEF SessionGoes
<1>5. ASSUME NEW p \in Process, Discard(p)
      PROVE  CallReads' /\ CarrierIsOne'
  BY <1>1, <1>5, InvalidateIs DEF Discard
<1>6. ASSUME NEW p \in Process, Crash(p)
      PROVE  CallReads' /\ CarrierIsOne'
  <2>1. \A c \in Call : calls'[c] = IF Home[Gate[c]] = p THEN NoCall ELSE calls[c]
    BY <1>0, <1>6 DEF Crash
  <2>2. \A a \in Attempt : attempts'[a] =
              IF Home[attempts[a].at] = p THEN NoAttempt ELSE attempts[a]
    BY <1>0, <1>6 DEF Crash, TypeOK, AttemptType
  <2> QED BY <1>0, <2>1, <2>2 DEF CallReads, CarrierIsOne
<1>7. ASSUME NEW p \in Process, EditStep(p), ~Discard(p), ~Crash(p)
      PROVE  CallReads' /\ CarrierIsOne'
  BY <1>1, <1>7 DEF EditStep, BeginEdit, Verify, Mismatch, Quarantine,
     CommitEdit
<1>8. CASE UNCHANGED vars
  BY <1>1, <1>8 DEF vars
<1> QED BY <1>2, <1>3, <1>4, <1>5, <1>6, <1>7, <1>8 DEF Next, EditStep

-----------------------------------------------------------------------------
(* The theorems                                                             *)

LEMMA InitInv == Init => Inv
<1> SUFFICES ASSUME Init PROVE Inv
  OBVIOUS
<1>1. TypeOK
  BY NoAttemptType, NoCallType, BoundAssumption DEF Init, TypeOK, RowType,
     Version
<1>2. Counts
  BY BoundAssumption DEF Init, Counts, NoEdit
<1>3. \A a \in Attempt : attempts[a].phase = "free" /\ ~attempts[a].doomed
  BY DEF Init, NoAttempt
<1>4. Joined
  BY <1>3, NoneAssumption DEF Init, Joined, Effects, Running
<1>5. NoLateToken /\ LateIsInvalid /\ LateReads
  BY <1>3 DEF NoLateToken, LateIsInvalid, LateReads, Running
<1>6. OldAccountGone
  BY DEF Init, OldAccountGone
<1>7. CallReads /\ CarrierIsOne
  BY DEF Init, NoCall, CallReads, CarrierIsOne
<1> QED BY <1>1, <1>2, <1>4, <1>5, <1>6, <1>7, JoinedIsOneLogin DEF Inv

LEMMA NextInv == Inv /\ [Next]_vars => Inv'
<1> SUFFICES ASSUME Inv, [Next]_vars PROVE Inv'
  OBVIOUS
<1>1. TypeOK' /\ Counts'
  BY Types DEF Inv
<1>2. Logins
  BY JoinedIsOneLogin DEF Inv, Logins
<1>3. Logins'
  BY <1>2, LoginsKept DEF Inv
<1>4. Accounts'
  BY <1>2, AccountsKept DEF Inv, Accounts
<1>5. CallReads' /\ CarrierIsOne'
  BY <1>2, CallsKept DEF Inv
<1>6. OneLogin'
  <2>1. \A m \in Manager, v \in Version : pending'[m][v] \in Attempt \cup {None}
    BY <1>1 DEF TypeOK
  <2> QED BY <1>3, <2>1, NoneAssumption DEF OneLogin, Logins, Joined, Effects
<1> QED BY <1>1, <1>3, <1>4, <1>5, <1>6 DEF Inv, Logins, Accounts

\* Every reachable state is as Inv says; the theorems below are parts of it.
THEOREM SourceTokensInvariant == Spec => []Inv
BY InitInv, NextInv, PTL DEF Spec

\* Whatever was read, the types of the row, the managers, the logins, the calls
\* and the changes are kept.
THEOREM SourceTypes == Spec => []TypeOK
<1>1. Inv => TypeOK
  BY DEF Inv
<1> QED BY <1>1, SourceTokensInvariant, PTL

\* With any number of managers and calls, a login that was under way when its
\* sessions were discarded answers nobody: it was the one to join, so it lost
\* its effect (LateIsInvalid), or had already lost it.
THEOREM LateLoginsAnswerNobody == Spec => []NoLateToken
<1>1. Inv => NoLateToken
  BY DEF Inv
<1> QED BY <1>1, SourceTokensInvariant, PTL

\* For any number of calls and discards, there is one login with an effect at
\* most for a version, and it is the one that calls join.
THEOREM LoginsAreShared == Spec => []OneLogin
<1>1. Inv => OneLogin
  BY DEF Inv
<1> QED BY <1>1, SourceTokensInvariant, PTL

\* However the reads of the credential fall around a rotation, the process that
\* rotated keeps no session of the old account: a login from before is without
\* effect, and one from after reads the new version (LateReads).
THEOREM RotationForgets == Spec => []OldAccountGone
<1>1. Inv => OldAccountGone
  BY DEF Inv
<1> QED BY <1>1, SourceTokensInvariant, PTL

\* The hub is never shown two versions of the credential together.
THEOREM CarriersAreOne == Spec => []CarrierIsOne
<1>1. Inv => CarrierIsOne
  BY DEF Inv
<1> QED BY <1>1, SourceTokensInvariant, PTL

-----------------------------------------------------------------------------
(***************************************************************************)
(* VaultRotation.  An active key is the newest rotation's (ActiveIsLast),  *)
(* so every write that the gate lets through is under it; what a session   *)
(* and a started process rely on (SessionStands, Checked) is in the        *)
(* journal's row, which names every key in use (KeysRequired).             *)
(***************************************************************************)

\* The active key is the one of the newest rotation, which requires it.
ActiveIsLast ==
    /\ runs = <<>> => active = NoKey
    /\ runs # <<>> => active = Last.key /\ Last.key \in Last.required

\* What a session relies on between its steps.
SessionStands ==
    /\ session.at # "closed" => session.key \in session.ring
    /\ session.at = "start" =>
         /\ session.resume => InRotation
         /\ KeysInUse \subseteq session.ring
         /\ runs # <<>> => active \in session.ring
         /\ runs = <<>> => Writing = {}
    /\ session.at \in {"batch", "final", "complete"} => InRotation
    /\ session.at = "complete" => KeysInUse \subseteq {Last.key}

\* The journal's row names every key in use until the rotation completes.
KeysRequired ==
    runs # <<>> =>
        KeysInUse \subseteq
            IF InRotation THEN Last.required ELSE {Last.key}

\* What the startup check has made sure of.
Checked ==
    \A p \in Servers :
        server[p].up =>
            /\ server[p].key \in Keys
            /\ server[p].since <= Len(runs)
            /\ runs # <<>> /\ server[p].since = Len(runs) =>
                 /\ Last.key \in server[p].ring
                 /\ InRotation => Last.required \subseteq server[p].ring

RotationInv ==
    /\ RotationTypeOK /\ ActiveIsLast /\ SessionStands /\ KeysRequired
    /\ Checked /\ CleanBehindCursor

\* A set of rows of a target has a last one, and a first one.
LEMMA LastRow ==
    ASSUME NEW n \in Nat, NEW S \in SUBSET (1..n), S # {}
    PROVE  /\ Max(S) \in S /\ \A s \in S : s <= Max(S)
           /\ \E m \in S : \A s \in S : m <= s
<1> DEFINE T == {n - s : s \in S}
<1>0. S \subseteq Nat
  OBVIOUS
<1>1. T \subseteq Nat /\ T # {}
  <2>1. \A s \in S : n - s \in Nat
    OBVIOUS
  <2>2. T \subseteq Nat
    BY <2>1
  <2> QED BY <2>2
<1>2. PICK t \in T : \A u \in T : <<u, t>> \notin OpToRel(<, Nat)
  BY <1>1, NatLessThanWellFounded, WFMin
<1>3. PICK m \in S : t = n - m
  OBVIOUS
<1>4. \A s \in S : m >= s
  <2> SUFFICES ASSUME NEW s \in S PROVE m >= s
    OBVIOUS
  <2>1. ~ (n - s < t)
    BY <1>1, <1>2 DEF OpToRel
  <2> QED BY <2>1, <1>3
<1>5. PICK f \in S : \A u \in S : <<u, f>> \notin OpToRel(<, Nat)
  BY <1>0, NatLessThanWellFounded, WFMin
<1>6. \A s \in S : f <= s
  <2> SUFFICES ASSUME NEW s \in S PROVE f <= s
    OBVIOUS
  <2>1. ~ (s < f)
    BY <1>0, <1>5 DEF OpToRel
  <2> QED BY <1>0, <2>1
<1>7. Max(S) \in S /\ \A s \in S : Max(S) >= s
  BY <1>3, <1>4 DEF Max
<1> QED BY <1>6, <1>7

\* The newest rotation, and what saving it or beginning one leaves.
LEMMA LastTyped ==
    ASSUME RotationTypeOK, runs # <<>>
    PROVE  Len(runs) \in 1..MaxRuns /\ Last \in Run /\ runs \in Seq(Run)
BY EmptySeq, ElementOfSeq, LenProperties DEF RotationTypeOK, Last

LEMMA Saved ==
    ASSUME RotationTypeOK, runs # <<>>, NEW run \in Run, SaveRun(run)
    PROVE  /\ runs' \in Seq(Run) /\ Len(runs') = Len(runs)
           /\ runs' # <<>> /\ Last' = run
<1>1. Len(runs) \in 1..Len(runs) /\ runs \in Seq(Run)
  BY LastTyped
<1>2. runs' \in Seq(Run) /\ Len(runs') = Len(runs)
  BY <1>1, ExceptSeq DEF SaveRun
<1>3. runs'[Len(runs)] = run
  BY <1>1, LenProperties DEF SaveRun
<1> QED BY <1>1, <1>2, <1>3, EmptySeq DEF Last

LEMMA Begun ==
    ASSUME RotationTypeOK, NEW run \in Run, runs' = Append(runs, run)
    PROVE  /\ runs' \in Seq(Run) /\ Len(runs') = Len(runs) + 1
           /\ runs' # <<>> /\ Last' = run
<1>1. /\ runs' \in Seq(Run) /\ Len(runs') = Len(runs) + 1
      /\ runs'[Len(runs) + 1] = run
  BY DEF RotationTypeOK
<1>2. Len(runs) \in Nat
  BY LenProperties DEF RotationTypeOK
<1>3. runs' # <<>>
  BY <1>1, <1>2, EmptySeq
<1> QED BY <1>1, <1>3 DEF Last

LEMMA Kept ==
    ASSUME UNCHANGED runs
    PROVE  Last' = Last /\ InRotation' = InRotation
BY DEF Last, InRotation

\* The rows of a batch are those between the cursor and the last of them.
LEMMA BatchIs ==
    ASSUME RotationTypeOK, runs # <<>>, Last.table <= Tables
    PROVE  /\ Batch \subseteq 1..Sizes[Last.table]
           /\ Batch = {} => After(Last.table) = {}
           /\ Batch # {} =>
                /\ Max(Batch) \in Batch
                /\ \A s \in After(Last.table) :
                     s <= Max(Batch) => s \in Batch
<1> DEFINE left == After(Last.table)
           before(s) == {q \in left : q < s}
<1>1. Last.table \in 1..Tables /\ Sizes[Last.table] \in Nat
  BY LastTyped, ElementOfSeq, LenProperties, NoKeyAssumption, SizesAssumption
     DEF Tables, Run
<1>2. left \subseteq 1..Sizes[Last.table]
  BY DEF After
<1>3. Batch = {s \in left : Cardinality(before(s)) < BatchSize}
  BY DEF Batch
<1> HIDE DEF left
<1>4. IsFiniteSet(left)
  <2>1. \A n \in Nat : IsFiniteSet(1..n)
    BY FS_Interval
  <2>2. IsFiniteSet(1..Sizes[Last.table])
    BY <1>1, <2>1
  <2> QED BY <1>2, <2>2, FS_Subset
<1>5. ASSUME NEW s \in left, NEW m \in Batch, s <= m
      PROVE  s \in Batch
  <2>1. before(s) \subseteq before(m)
    <3>1. s \in Nat /\ m \in Nat /\ \A q \in left : q \in Nat
      BY <1>1, <1>2, <1>3, <1>5
    <3>2. \A q \in left : q < s => q < m
      BY <1>5, <3>1
    <3> QED BY <3>2
  <2>2. IsFiniteSet(before(m))
    BY <1>4, FS_Subset
  <2>3. IsFiniteSet(before(s)) /\ Cardinality(before(s)) <= Cardinality(before(m))
    BY <2>1, <2>2, FS_Subset
  <2>4. Cardinality(before(s)) \in Nat /\ Cardinality(before(m)) \in Nat
    BY <2>2, <2>3, FS_CardinalityType
  <2>5. Cardinality(before(m)) < BatchSize
    BY <1>3
  <2> HIDE DEF before
  <2>6. Cardinality(before(s)) < BatchSize
    BY <2>3, <2>4, <2>5, NoKeyAssumption, SizesAssumption
  <2> QED BY <1>3, <2>6
<1>6. ASSUME left # {}
      PROVE  Batch # {}
  <2>1. PICK m \in left : \A s \in left : m <= s
    BY <1>1, <1>2, <1>6, LastRow
  <2>2. before(m) = {}
    <3>1. \A q \in left : q \in Nat
      BY <1>1, <1>2
    <3> QED BY <2>1, <3>1
  <2> HIDE DEF before
  <2>3. Cardinality(before(m)) = 0
    BY <2>2, FS_EmptySet
  <2>4. Cardinality(before(m)) < BatchSize
    BY <2>3, NoKeyAssumption, SizesAssumption
  <2> QED BY <1>3, <2>4
<1>7. Batch \subseteq 1..Sizes[Last.table]
  BY <1>2, <1>3
<1>8. Batch # {} => Max(Batch) \in Batch
  BY <1>1, <1>7, LastRow
<1> QED BY <1>5, <1>6, <1>7, <1>8 DEF left

\* Nothing is active, and nobody is up or at work, at the start.
LEMMA RotationBegins == RotationInit => RotationInv
<1> SUFFICES ASSUME RotationInit PROVE RotationInv
  OBVIOUS
<1>1. RotationTypeOK
  <2>1. runs \in Seq(Run) /\ Len(runs) <= MaxRuns
    BY EmptySeq, NoKeyAssumption, SizesAssumption DEF RotationInit
  <2>2. interrupts \in 0..MaxInterrupts /\ 0 \in 0..MaxRuns
    BY NoKeyAssumption, SizesAssumption DEF RotationInit
  <2>3. server \in [Servers -> [up : BOOLEAN, key : Keys \cup {NoKey},
                               ring : SUBSET Keys, since : 0..MaxRuns]]
    BY <2>2 DEF RotationInit, Down
  <2> QED BY <2>1, <2>2, <2>3 DEF RotationInit, RotationTypeOK, NoSession
<1>2. Writing = {}
  BY DEF RotationInit, Writing
<1>3. SessionStands
  BY DEF RotationInit, SessionStands, NoSession
<1>4. Checked
  BY DEF RotationInit, Checked, Down
<1> QED BY <1>1, <1>2, <1>3, <1>4
    DEF RotationInit, RotationInv, ActiveIsLast, KeysRequired, CleanBehindCursor

-----------------------------------------------------------------------------
(* What the writers do.                                                    *)

\* Writes are under the newest rotation's key, once there is one.
LEMMA WritesUnderLast ==
    ASSUME RotationInv, NEW key \in Keys,
           GateAdmits(key), runs # <<>>
    PROVE  key = Last.key
<1>1. active = Last.key /\ Last.key \in Keys
  BY LastTyped DEF RotationInv, ActiveIsLast, Run
<1> QED BY <1>1, NoKeyAssumption, SizesAssumption DEF GateAdmits

\* Rows change by a write that was in flight or by a deletion, and a write
\* begins through the gate: the invariant stands.
LEMMA WritersKeep ==
    ASSUME RotationInv,
           UNCHANGED <<active, runs, session>>,
           \A r \in Places :
             \/ rows'[r] = rows[r]
             \/ rows'[r] = NoKey
             \/ \E p \in Writing : rows'[r] = tx[p].key,
           \A p \in Servers : tx'[p] # NoWrite =>
             \/ p \in Writing /\ tx'[p] = tx[p]
             \/ /\ tx'[p].key \in Keys /\ GateAdmits(tx'[p].key)
                /\ active = NoKey => session = NoSession
    PROVE  /\ ActiveIsLast' /\ SessionStands'
           /\ KeysRequired' /\ CleanBehindCursor'
<1>1. Last' = Last /\ InRotation' = InRotation
  BY Kept
<1>2. ASSUME runs # <<>>
      PROVE  \A p \in Writing \cup Writing' : 
               /\ p \in Writing => tx[p].key = Last.key
               /\ p \in Writing' => tx'[p].key = Last.key
  BY <1>2, WritesUnderLast DEF RotationInv, CleanBehindCursor, Writing
<1>3. ASSUME NEW r \in Places, Live(r)'
      PROVE  \/ rows'[r] = rows[r] /\ Live(r)
             \/ runs # <<>> /\ rows'[r] = Last.key
             \/ Writing # {} /\ runs = <<>>
  BY <1>2, <1>3 DEF Live
<1>4. ASSUME NEW S, KeysInUse \subseteq S,
             runs # <<>> => Last.key \in S, runs = <<>> => Writing = {}
      PROVE  KeysInUse' \subseteq S
  <2> SUFFICES ASSUME NEW r \in Places, Live(r)' PROVE rows'[r] \in S
    BY DEF KeysInUse
  <2> QED BY <1>3, <1>4 DEF KeysInUse
<1>5. ActiveIsLast'
  BY <1>1 DEF RotationInv, ActiveIsLast
<1>6. SessionStands'
  <2>1. ASSUME session.at = "start"
        PROVE  /\ KeysInUse' \subseteq session.ring
               /\ runs = <<>> => Writing' = {}
    <3>1. /\ runs # <<>> => Last.key \in session.ring
          /\ runs = <<>> => Writing = {} /\ active = NoKey
          /\ KeysInUse \subseteq session.ring
      BY <2>1 DEF RotationInv, SessionStands, ActiveIsLast
    <3>2. session # NoSession
      BY <2>1 DEF NoSession
    <3>3. runs = <<>> => Writing' = {}
      BY <3>1, <3>2 DEF Writing
    <3> QED BY <1>4, <3>1, <3>3
  <2>2. ASSUME session.at = "complete"
        PROVE  KeysInUse' \subseteq {Last.key}
    <3>1. runs # <<>> /\ KeysInUse \subseteq {Last.key}
      BY <2>2 DEF RotationInv, SessionStands, InRotation
    <3> QED BY <1>4, <3>1
  <2> QED BY <1>1, <2>1, <2>2 DEF RotationInv, SessionStands
<1>7. KeysRequired'
  <2> SUFFICES ASSUME runs # <<>>
               PROVE  KeysInUse' \subseteq
                        IF InRotation THEN Last.required ELSE {Last.key}
    BY <1>1 DEF KeysRequired
  <2>1. /\ KeysInUse \subseteq
             IF InRotation THEN Last.required ELSE {Last.key}
        /\ Last.key \in Last.required
    BY DEF RotationInv, KeysRequired, ActiveIsLast
  <2> QED BY <1>4, <2>1
<1>8. CleanBehindCursor'
  <2> SUFFICES ASSUME runs # <<>> PROVE CleanBehindCursor'
    BY DEF CleanBehindCursor
  <2>1. \A p \in Writing' : tx'[p].key = Last.key
    BY <1>2
  <2>2. ASSUME NEW r \in Places, Live(r)', Behind(Last, r)
        PROVE  rows'[r] = Last.key
    BY <1>3, <2>2 DEF RotationInv, CleanBehindCursor
  <2>3. \A r \in Places : Behind(Last, r)' <=> Behind(Last, r)
    BY <1>1 DEF Behind
  <2> QED BY <1>1, <2>1, <2>2, <2>3 DEF CleanBehindCursor
<1> QED BY <1>5, <1>6, <1>7, <1>8

\* The startup check is remembered while nothing of it changes.
LEMMA CheckedKept ==
    ASSUME RotationInv, UNCHANGED <<runs, server>>
    PROVE  Checked'
BY Kept DEF RotationInv, Checked

LEMMA WriteKeeps ==
    ASSUME RotationInv, NEW p \in Servers,
           NEW r \in Places, Write(p, r)
    PROVE  RotationInv'
<1>1. server[p].key \in Keys
  BY DEF Write, RotationInv, Checked
<1>2. RotationTypeOK'
  BY <1>1 DEF Write, RotationInv, RotationTypeOK
<1>3. \A q \in Servers : tx'[q] # NoWrite =>
         \/ q \in Writing /\ tx'[q] = tx[q]
         \/ /\ tx'[q].key \in Keys /\ GateAdmits(tx'[q].key)
            /\ active = NoKey => session = NoSession
  BY <1>1 DEF Write, RotationInv, RotationTypeOK, Writing
<1>4. ActiveIsLast' /\ SessionStands' /\ KeysRequired' /\ CleanBehindCursor'
  BY <1>3, WritersKeep DEF Write
<1> QED BY <1>2, <1>4, CheckedKept DEF Write, RotationInv

LEMMA EndsKeeps ==
    ASSUME RotationInv, NEW p \in Servers, WriteEnds(p)
    PROVE  RotationInv'
<1>1. p \in Writing => tx[p].row \in Places /\ tx[p].key \in Keys
  BY DEF RotationInv, RotationTypeOK, Writing
<1>2. RotationTypeOK'
  BY <1>1 DEF WriteEnds, Commit, Rollback, RotationInv, RotationTypeOK
<1>3. \A q \in Servers : tx'[q] # NoWrite => q \in Writing /\ tx'[q] = tx[q]
  BY DEF WriteEnds, Commit, Rollback, RotationInv, RotationTypeOK, Writing
<1>4. \A r \in Places :
         rows'[r] = rows[r] \/ \E q \in Writing : rows'[r] = tx[q].key
  BY DEF WriteEnds, Commit, Rollback, RotationInv, RotationTypeOK
<1>5. UNCHANGED <<active, runs, session, server>>
  BY DEF WriteEnds, Commit, Rollback
<1>6. ActiveIsLast' /\ SessionStands' /\ KeysRequired' /\ CleanBehindCursor'
  BY <1>3, <1>4, <1>5, WritersKeep
<1> QED BY <1>2, <1>5, <1>6, CheckedKept DEF RotationInv

LEMMA DeleteKeeps ==
    ASSUME RotationInv, NEW r \in Places, Delete(r)
    PROVE  RotationInv'
<1>1. RotationTypeOK'
  BY DEF Delete, RotationInv, RotationTypeOK
<1>2. \A q \in Places : rows'[q] = rows[q] \/ rows'[q] = NoKey
  BY DEF Delete, RotationInv, RotationTypeOK
<1>3. \A q \in Servers : tx'[q] # NoWrite => q \in Writing /\ tx'[q] = tx[q]
  BY DEF Delete, Writing
<1>4. ActiveIsLast' /\ SessionStands' /\ KeysRequired' /\ CleanBehindCursor'
  BY <1>2, <1>3, WritersKeep DEF Delete
<1> QED BY <1>1, <1>4, CheckedKept DEF Delete, RotationInv

LEMMA StopKeeps ==
    ASSUME RotationInv, NEW p \in Servers, Stop(p)
    PROVE  RotationInv'
<1>1. RotationTypeOK'
  <2>1. Down \in [up : BOOLEAN, key : Keys \cup {NoKey},
                  ring : SUBSET Keys, since : 0..MaxRuns]
    BY NoKeyAssumption, SizesAssumption DEF Down
  <2> QED BY <2>1 DEF Stop, RotationInv, RotationTypeOK
<1>2. \A q \in Servers : tx'[q] # NoWrite => q \in Writing /\ tx'[q] = tx[q]
  BY DEF Stop, RotationInv, RotationTypeOK, Writing
<1>3. ActiveIsLast' /\ SessionStands' /\ KeysRequired' /\ CleanBehindCursor'
  BY <1>2, WritersKeep DEF Stop
<1>4. \A q \in Servers : server'[q].up => server'[q] = server[q]
  BY DEF Stop, RotationInv, RotationTypeOK, Down
<1>5. Checked'
  BY <1>4, Kept DEF Stop, RotationInv, Checked
<1> QED BY <1>1, <1>3, <1>5 DEF RotationInv

\* A process starts with the newest key, and with what a running rotation needs.
LEMMA BootKeeps ==
    ASSUME RotationInv, NEW p \in Servers,
           NEW key \in Keys, NEW ring \in SUBSET Keys, Boot(p, key, ring)
    PROVE  RotationInv'
<1>1. Len(runs) \in 0..MaxRuns
  BY LenProperties, NoKeyAssumption, SizesAssumption DEF RotationInv,
     RotationTypeOK
<1>2. RotationTypeOK'
  BY <1>1 DEF Boot, RotationInv, RotationTypeOK
<1>3. \A q \in Servers : tx'[q] # NoWrite => q \in Writing /\ tx'[q] = tx[q]
  BY DEF Boot, Writing
<1>4. ActiveIsLast' /\ SessionStands' /\ KeysRequired' /\ CleanBehindCursor'
  BY <1>3, WritersKeep DEF Boot
<1>5. ASSUME runs # <<>>
      PROVE  Last.key \in ring /\ (InRotation => Last.required \subseteq ring)
  <2>1. active = Last.key /\ Last.key \in Keys
    BY <1>5, LastTyped DEF RotationInv, ActiveIsLast, Run
  <2> QED BY <2>1, NoKeyAssumption, SizesAssumption DEF Boot, KeyringMatches
<1>6. Checked'
  <2>1. \A q \in Servers \ {p} : server'[q] = server[q]
    BY DEF Boot, RotationInv, RotationTypeOK
  <2>2. server'[p] = [up |-> TRUE, key |-> key, ring |-> ring, since |-> Len(runs)]
    BY DEF Boot, RotationInv, RotationTypeOK
  <2> QED BY <1>1, <1>5, <2>1, <2>2, Kept DEF Boot, RotationInv, Checked
<1> QED BY <1>2, <1>4, <1>6 DEF RotationInv

-----------------------------------------------------------------------------
(* What the session does.                                                  *)

\* A step of the session alone keeps what is not about it.
LEMMA SessionAlone ==
    ASSUME RotationInv, UNCHANGED <<active, rows, runs, server, tx>>
    PROVE  /\ Last' = Last /\ InRotation' = InRotation
           /\ KeysInUse' = KeysInUse /\ Writing' = Writing
           /\ ActiveIsLast' /\ KeysRequired' /\ Checked' /\ CleanBehindCursor'
<1>1. Last' = Last /\ InRotation' = InRotation
  BY Kept
<1>2. KeysInUse' = KeysInUse /\ Writing' = Writing
  BY DEF KeysInUse, Live, Writing
<1>3. CleanBehindCursor'
  BY <1>1, <1>2 DEF RotationInv, CleanBehindCursor, Live, Behind
<1> QED BY <1>1, <1>2, <1>3
    DEF RotationInv, ActiveIsLast, KeysRequired, Checked

LEMMA OpenKeeps ==
    ASSUME RotationInv,
           NEW key \in Keys, NEW ring \in SUBSET Keys, OpenSession(key, ring)
    PROVE  RotationInv'
<1>1. RotationTypeOK'
  BY DEF OpenSession, RotationInv, RotationTypeOK, InRotation
<1>2. runs # <<>> => active \in Keys
  BY LastTyped DEF RotationInv, ActiveIsLast, Run
<1>3. SessionStands'
  BY <1>2, SessionAlone, NoKeyAssumption, SizesAssumption DEF OpenSession,
     RotationInv, SessionStands, ActiveIsLast
<1> QED BY <1>1, <1>3, SessionAlone DEF OpenSession, RotationInv

\* A session that ends leaves what was committed.
LEMMA SessionEnds ==
    ASSUME RotationInv, session' = NoSession,
           UNCHANGED <<active, rows, runs, server, tx>>,
           interrupts' \in 0..MaxInterrupts
    PROVE  RotationInv'
<1>1. RotationTypeOK' /\ SessionStands'
  BY DEF RotationInv, RotationTypeOK, SessionStands, NoSession
<1> QED BY <1>1, SessionAlone DEF RotationInv

LEMMA ResumeKeeps ==
    ASSUME RotationInv, ResumeRun
    PROVE  RotationInv'
<1>1. CASE session' = NoSession
  BY <1>1, SessionEnds DEF ResumeRun, RotationInv, RotationTypeOK
<1>2. CASE session' = [session EXCEPT !.at = "batch"]
  <2>1. RotationTypeOK'
    BY <1>2 DEF ResumeRun, RotationInv, RotationTypeOK
  <2>2. SessionStands'
    BY <1>2, SessionAlone DEF ResumeRun, RotationInv, SessionStands, RotationTypeOK
  <2> QED BY <2>1, <2>2, SessionAlone DEF ResumeRun, RotationInv
<1> QED BY <1>1, <1>2 DEF ResumeRun

LEMMA FinalCheckKeeps ==
    ASSUME RotationInv, FinalCheck
    PROVE  RotationInv'
<1>1. CASE session' = NoSession
  BY <1>1, SessionEnds DEF FinalCheck, RotationInv, RotationTypeOK
<1>2. CASE /\ session' = [session EXCEPT !.at = "complete"]
           /\ KeysInUse \subseteq {Last.key}
  <2>1. RotationTypeOK'
    BY <1>2 DEF FinalCheck, RotationInv, RotationTypeOK
  <2>2. SessionStands'
    BY <1>2, SessionAlone DEF FinalCheck, RotationInv, SessionStands, RotationTypeOK
  <2> QED BY <2>1, <2>2, SessionAlone DEF FinalCheck, RotationInv
<1> QED BY <1>1, <1>2 DEF FinalCheck

LEMMA InterruptKeeps ==
    ASSUME RotationInv, Interrupt
    PROVE  RotationInv'
<1>1. interrupts' \in 0..MaxInterrupts
  BY NoKeyAssumption, SizesAssumption DEF Interrupt, RotationInv,
     RotationTypeOK
<1> QED BY <1>1, SessionEnds DEF Interrupt

\* A rotation begins with no write in flight, with nothing behind its cursor,
\* and requires the keys that the preflight saw in use.
LEMMA StartKeeps ==
    ASSUME RotationInv, Start
    PROVE  RotationInv'
<1> DEFINE run == [key |-> session.key, required |-> session.ring,
                   status |-> "running", table |-> 1, cursor |-> 0]
<1>1. /\ session.key \in session.ring /\ session.ring \subseteq Keys
      /\ KeysInUse \subseteq session.ring
  BY DEF Start, RotationInv, RotationTypeOK, SessionStands
<1>2. run \in Run
  <2>1. 1 \in 1..(Tables + 1)
    BY LenProperties, NoKeyAssumption, SizesAssumption DEF Tables
  <2> QED BY <1>1, <2>1 DEF Run
<1>3. /\ runs' \in Seq(Run) /\ Len(runs') = Len(runs) + 1
      /\ runs' # <<>> /\ Last' = run
  BY <1>2, Begun DEF Start, RotationInv
<1>4. Len(runs) \in Nat
  BY LenProperties DEF RotationInv, RotationTypeOK
<1>5. InRotation' /\ KeysInUse' = KeysInUse /\ Writing' = {}
  BY <1>3 DEF InRotation, KeysInUse, Live, Writing, Start, GateReleased
<1>6. RotationTypeOK'
  <2>1. session.key \in Keys
    BY <1>1
  <2>2. Len(runs') <= MaxRuns
    BY <1>3, <1>4, NoKeyAssumption, SizesAssumption DEF Start
  <2>3. session' = [session EXCEPT !.at = "batch"]
    BY DEF Start, Goes
  <2> QED BY <1>3, <2>1, <2>2, <2>3 DEF Start, RotationInv, RotationTypeOK
<1>7. ActiveIsLast' /\ KeysRequired'
  BY <1>1, <1>3, <1>5 DEF ActiveIsLast, KeysRequired, Start
<1>8. SessionStands'
  BY <1>1, <1>5 DEF SessionStands, Start, Goes, RotationInv, RotationTypeOK
<1>9. Checked'
  <2> SUFFICES ASSUME NEW p \in Servers, server[p].up
               PROVE  /\ server[p].key \in Keys
                      /\ server[p].since <= Len(runs) + 1
                      /\ server[p].since # Len(runs) + 1
    BY <1>3 DEF Checked, Start
  <2>1. server[p].since \in Nat /\ server[p].since <= Len(runs)
    BY NoKeyAssumption, SizesAssumption DEF RotationInv, RotationTypeOK,
       Checked
  <2> QED BY <1>4, <2>1 DEF RotationInv, Checked
<1>10. CleanBehindCursor'
  <2>1. ASSUME NEW r \in Places
        PROVE  ~ Behind(Last, r)'
    <3>1. PICK n \in 1..Tables : r \in {n} \X (1..Sizes[n])
      BY DEF Places
    <3>2. r[1] \in Nat \ {0} /\ r[2] \in Nat \ {0}
      BY <3>1, LenProperties, NoKeyAssumption, SizesAssumption DEF Tables
    <3> QED BY <1>3, <3>2 DEF Behind
  <2> QED BY <1>5, <2>1 DEF CleanBehindCursor
<1> QED BY <1>6, <1>7, <1>8, <1>9, <1>10 DEF RotationInv

\* It completes once the final simulation has seen one key alone in use.
LEMMA CompleteKeeps ==
    ASSUME RotationInv, Complete
    PROVE  RotationInv'
<1> DEFINE run == [Last EXCEPT !.status = "completed"]
<1>1. runs # <<>> /\ KeysInUse \subseteq {Last.key}
  BY DEF Complete, RotationInv, SessionStands, InRotation
<1>2. /\ run \in Run /\ run.key = Last.key
      /\ run.required = Last.required /\ run.status = "completed"
  BY <1>1, LastTyped DEF Run, RotationInv
<1>3. /\ runs' \in Seq(Run) /\ Len(runs') = Len(runs)
      /\ runs' # <<>> /\ Last' = run
  BY <1>1, <1>2, Saved DEF Complete, RotationInv
<1> HIDE DEF run
<1>4. /\ ~ InRotation' /\ KeysInUse' = KeysInUse /\ Writing' = Writing
  BY <1>2, <1>3 DEF InRotation, KeysInUse, Live, Writing, Complete
<1>5. RotationTypeOK' /\ SessionStands'
  BY <1>3 DEF Complete, RotationInv, RotationTypeOK, SessionStands, NoSession
<1>6. ActiveIsLast' /\ KeysRequired'
  BY <1>1, <1>2, <1>3, <1>4
     DEF Complete, RotationInv, ActiveIsLast, KeysRequired
<1>7. Checked'
  BY <1>1, <1>2, <1>3, <1>4 DEF Complete, RotationInv, Checked
<1>8. CleanBehindCursor'
  BY <1>1, <1>2, <1>3, <1>4
     DEF Complete, RotationInv, CleanBehindCursor, KeysInUse, Live
<1> QED BY <1>5, <1>6, <1>7, <1>8 DEF RotationInv

\* A batch takes every row between the cursor and where it leaves it, and the
\* cursor passes to the next target when no row is left: what is behind it is
\* under the newest key.
LEMMA RewrapBatchKeeps ==
    ASSUME RotationInv, RewrapBatch
    PROVE  RotationInv'
<1>1. CASE session' = NoSession /\ UNCHANGED <<rows, runs>>
  BY <1>1, SessionEnds DEF RewrapBatch, RotationInv, RotationTypeOK
<1>2. CASE /\ rows' = [r \in Places |->
                          IF r[1] = Last.table /\ r[2] \in Batch
                          THEN Last.key ELSE rows[r]]
           /\ SaveRun(Progress(Batch))
           /\ UNCHANGED session
  <2> DEFINE run == Progress(Batch)
  <2>1. InRotation /\ runs # <<>>
    BY DEF RewrapBatch, RotationInv, SessionStands, InRotation
  <2>2. Last \in Run /\ Last.table \in 1..Tables
    BY <2>1, LastTyped DEF RewrapBatch, RotationInv, Run
  <2>3. /\ Batch \subseteq 1..Sizes[Last.table]
        /\ Batch = {} => After(Last.table) = {}
        /\ Batch # {} =>
             /\ Max(Batch) \in Batch
             /\ \A s \in After(Last.table) :
                  s <= Max(Batch) => s \in Batch
    BY <2>1, BatchIs DEF RewrapBatch, RotationInv
  <2>4. Tables \in Nat /\ (Batch # {} => Max(Batch) \in Nat)
    <3>1. \A s \in Batch : s \in Nat
      BY <2>3
    <3> QED BY <2>3, <3>1, LenProperties, NoKeyAssumption, SizesAssumption
               DEF Tables
  <2>5. /\ run \in Run /\ run.key = Last.key
        /\ run.required = Last.required /\ run.status = Last.status
        /\ Batch = {} => run.table = Last.table + 1 /\ run.cursor = 0
        /\ Batch # {} => run.table = Last.table /\ run.cursor = Max(Batch)
    <3>1. CASE Batch = {}
      <4>1. run = [Last EXCEPT !.table = Last.table + 1, !.cursor = 0]
        BY <3>1 DEF Progress
      <4>2. Last.table + 1 \in 1..(Tables + 1)
        BY <2>2, <2>4
      <4> HIDE DEF run
      <4> QED BY <2>2, <3>1, <4>1, <4>2 DEF Run
    <3>2. CASE Batch # {}
      BY <2>2, <2>4, <3>2 DEF Progress, Run
    <3> QED BY <3>1, <3>2
  <2>6. /\ runs' \in Seq(Run) /\ Len(runs') = Len(runs)
        /\ runs' # <<>> /\ Last' = run
    BY <1>2, <2>1, <2>5, Saved DEF RotationInv
  <2> HIDE DEF run
  <2>7. InRotation' /\ Writing' = Writing
    BY <2>1, <2>5, <2>6 DEF InRotation, Writing, RewrapBatch
  <2>8. \A r \in Places : rows'[r] = rows[r] \/ rows'[r] = Last.key
    BY <1>2
  <2>9. KeysInUse' \subseteq KeysInUse \cup {Last.key}
    BY <2>8 DEF KeysInUse, Live
  <2>10. RotationTypeOK'
    <3>1. rows' \in [Places -> Keys \cup {NoKey}]
      BY <1>2, <2>2 DEF RotationInv, RotationTypeOK, Run
    <3> QED BY <1>2, <2>6, <3>1 DEF RewrapBatch, RotationInv, RotationTypeOK
  <2>11. ActiveIsLast' /\ KeysRequired'
    BY <2>1, <2>5, <2>6, <2>7, <2>9
       DEF RewrapBatch, RotationInv, ActiveIsLast, KeysRequired
  <2>12. SessionStands'
    BY <1>2, <2>1, <2>6, <2>7 DEF RewrapBatch, RotationInv, SessionStands
  <2>13. Checked'
    BY <2>1, <2>5, <2>6, <2>7 DEF RewrapBatch, RotationInv, Checked
  <2>14. ASSUME NEW r \in Places, Live(r)', Behind(Last, r)'
         PROVE  rows'[r] = Last.key
    <3> SUFFICES ASSUME ~(r[1] = Last.table /\ r[2] \in Batch)
                 PROVE  rows[r] = Last.key
      BY <1>2
    <3>1. rows'[r] = rows[r] /\ Live(r)
      BY <1>2, <2>14 DEF Live
    <3>2. PICK n \in 1..Tables : r \in {n} \X (1..Sizes[n])
      BY DEF Places
    <3>3. r[1] = n /\ r[2] \in 1..Sizes[n] /\ r = <<n, r[2]>>
      BY <3>2
    <3>4. Sizes[n] \in Nat
      BY <3>2, ElementOfSeq, NoKeyAssumption, SizesAssumption DEF Tables
    <3>5. n = Last.table /\ r[2] > Last.cursor => r[2] \in After(Last.table)
      BY <3>1, <3>3 DEF After
    <3>6. Last.status # "completed" /\ Last.cursor \in Nat
      BY <2>1, <2>2 DEF InRotation, Run
    <3>7. Behind(Last, r)
      <4>1. CASE Batch = {}
        BY <2>2, <2>3, <2>5, <2>6, <2>14, <3>3, <3>4, <3>5, <3>6, <4>1
           DEF Behind
      <4>2. CASE Batch # {}
        <5>1. Max(Batch) \in Nat
          BY <2>4, <4>2
        <5>2. \/ r[2] \notin After(Last.table)
              \/ n # Last.table
              \/ r[2] > Max(Batch)
          BY <2>3, <3>3, <3>4, <4>2, <5>1
        <5> QED BY <2>2, <2>5, <2>6, <2>14, <3>3, <3>4, <3>5, <3>6, <4>2,
                   <5>1, <5>2 DEF Behind
      <4> QED BY <4>1, <4>2
    <3> QED BY <2>1, <3>1, <3>7 DEF RotationInv, CleanBehindCursor
  <2>15. CleanBehindCursor'
    <3>1. \A p \in Writing' : tx'[p].key = Last.key
      BY <2>1, <2>7 DEF RewrapBatch, RotationInv, CleanBehindCursor
    <3> QED BY <2>5, <2>6, <2>14, <3>1 DEF CleanBehindCursor
  <2> QED BY <2>10, <2>11, <2>12, <2>13, <2>15 DEF RotationInv
<1> QED BY <1>1, <1>2 DEF RewrapBatch

-----------------------------------------------------------------------------

\* Every step keeps the invariant.
LEMMA RotationStep ==
    ASSUME RotationInv, [RotationNext]_rotationVars
    PROVE  RotationInv'
<1>1. ASSUME NEW key \in Keys, NEW ring \in SUBSET Keys, OpenSession(key, ring)
      PROVE  RotationInv'
  BY <1>1, OpenKeeps
<1>2. CASE SessionStep
  BY <1>2, StartKeeps, ResumeKeeps, RewrapBatchKeeps, FinalCheckKeeps,
     CompleteKeeps DEF SessionStep
<1>3. CASE Interrupt
  BY <1>3, InterruptKeeps
<1>4. ASSUME NEW p \in Servers, NEW key \in Keys, NEW ring \in SUBSET Keys,
             Boot(p, key, ring)
      PROVE  RotationInv'
  BY <1>4, BootKeeps
<1>5. ASSUME NEW p \in Servers,
             Stop(p) \/ WriteEnds(p) \/ \E r \in Places : Write(p, r)
      PROVE  RotationInv'
  BY <1>5, StopKeeps, EndsKeeps, WriteKeeps
<1>6. ASSUME NEW r \in Places, Delete(r)
      PROVE  RotationInv'
  BY <1>6, DeleteKeeps
<1>7. CASE UNCHANGED rotationVars
  <2>1. RotationTypeOK' /\ SessionStands'
    BY <1>7, SessionAlone DEF rotationVars, RotationInv, RotationTypeOK, SessionStands
  <2> QED BY <1>7, <2>1, SessionAlone DEF rotationVars, RotationInv
<1> QED BY <1>1, <1>2, <1>3, <1>4, <1>5, <1>6, <1>7 DEF RotationNext

\* What a process can read, from what it has checked.
LEMMA InvReadable ==
    ASSUME RotationInv
    PROVE  ReadableAfterCheck
BY DEF RotationInv, Checked, KeysRequired, ReadableAfterCheck

LEMMA RotationInvariant == RotationSpec => []RotationInv
<1>1. RotationInit => RotationInv
  BY RotationBegins
<1>2. RotationInv /\ [RotationNext]_rotationVars => RotationInv'
  BY RotationStep
<1> QED BY <1>1, <1>2, PTL DEF RotationSpec

\* The state of a rotation keeps its shape.
THEOREM RotationTypes == RotationSpec => []RotationTypeOK
<1>1. RotationSpec => []RotationInv
  BY RotationInvariant
<1>2. RotationInv => RotationTypeOK
  BY DEF RotationInv
<1> QED BY <1>1, <1>2, PTL

\* Behind the cursor of a rotation, and everywhere once it has completed, every
\* row is under the new key and so is every write in flight: run() may be cut
\* off and resumed between any two batches, whatever stale servers write.
THEOREM OldKeyStaysGone == RotationSpec => []CleanBehindCursor
<1>1. RotationSpec => []RotationInv
  BY RotationInvariant
<1>2. RotationInv => CleanBehindCursor
  BY DEF RotationInv
<1> QED BY <1>1, <1>2, PTL

\* A process that passed the startup check since the rotation began holds every
\* key that a row is under, at every moment of that rotation and after it.
THEOREM CheckedProcessReads == RotationSpec => []ReadableAfterCheck
<1>1. RotationSpec => []RotationInv
  BY RotationInvariant
<1>2. RotationInv => ReadableAfterCheck
  BY InvReadable
<1> QED BY <1>1, <1>2, PTL
=============================================================================
