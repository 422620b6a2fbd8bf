------------------------- MODULE Publications_proofs -------------------------
(***************************************************************************)
(* Proofs about what is published: CatalogPublication, for any queries,    *)
(* runners, requests, previews and bounds, and SharedKnowledge, for any    *)
(* owners, items, proposals, forms and bounds.                             *)
(*                                                                         *)
(* A persona's publications are only appended and suspended (StepKeeps),   *)
(* which the three arguments after the types rest on.                      *)
(***************************************************************************)
EXTENDS CatalogPublication, SharedKnowledge, SequenceTheorems, TLAPS

Positions(s) == 1..Len(pubs[s])

\* Suspending marks the publications of the set, and changes nothing else.
LEMMA SuspendedIs ==
    ASSUME TypeOK, NEW which
    PROVE  /\ Suspended(which) \in [Skills -> Seq(Publication)]
           /\ \A s \in Skills :
                /\ Len(Suspended(which)[s]) = Len(pubs[s])
                /\ \A n \in Positions(s) :
                     /\ Suspended(which)[s][n].key = pubs[s][n].key
                     /\ Suspended(which)[s][n].uses = pubs[s][n].uses
                     /\ Suspended(which)[s][n].versions = pubs[s][n].versions
                     /\ Suspended(which)[s][n].suspended
                          = (pubs[s][n].suspended \/ <<s, n>> \in which)
<1>1. ASSUME NEW s \in Skills
      PROVE  /\ Suspended(which)[s] \in Seq(Publication)
             /\ Len(Suspended(which)[s]) = Len(pubs[s])
             /\ \A n \in Positions(s) :
                  /\ Suspended(which)[s][n].key = pubs[s][n].key
                  /\ Suspended(which)[s][n].uses = pubs[s][n].uses
                  /\ Suspended(which)[s][n].versions = pubs[s][n].versions
                  /\ Suspended(which)[s][n].suspended
                       = (pubs[s][n].suspended \/ <<s, n>> \in which)
  <2> DEFINE marked == [n \in 1..Len(pubs[s]) |->
               IF <<s, n>> \in which THEN [pubs[s][n] EXCEPT !.suspended = TRUE]
                                     ELSE pubs[s][n]]
  <2>1. pubs[s] \in Seq(Publication)
    BY <1>1 DEF TypeOK
  <2>2. \A n \in 1..Len(pubs[s]) : pubs[s][n] \in Publication
    BY <2>1, ElementOfSeq
  <2>3. \A n \in 1..Len(pubs[s]) :
          /\ marked[n] \in Publication
          /\ marked[n].key = pubs[s][n].key
          /\ marked[n].uses = pubs[s][n].uses
          /\ marked[n].versions = pubs[s][n].versions
          /\ marked[n].suspended = (pubs[s][n].suspended \/ <<s, n>> \in which)
    BY <2>2 DEF Publication
  <2>4. marked \in Seq(Publication) /\ Len(marked) = Len(pubs[s])
    <3>1. Len(pubs[s]) \in Nat
      BY <2>1, LenProperties
    <3>2. marked \in [1..Len(pubs[s]) -> Publication]
      BY <2>3
    <3> HIDE DEF marked
    <3>3. marked \in Seq(Publication)
      BY <3>1, <3>2, SeqDef
    <3>4. DOMAIN marked = 1..Len(marked)
      BY <3>3, LenProperties
    <3> QED BY <3>1, <3>2, <3>3, <3>4, LenProperties
  <2>5. Suspended(which)[s] = marked
    BY <1>1 DEF Suspended, Active
  <2> QED BY <2>3, <2>4, <2>5 DEF Positions
<1> QED BY <1>1 DEF Suspended

-----------------------------------------------------------------------------
(* Types.                                                                  *)

FenceType == [key : Key, persona : Nat, active : Nat]

\* What is computed of a skill has its type.
LEMMA KeyTyped ==
    ASSUME TypeOK, NEW s \in Skills
    PROVE  KeyOf(s) \in Key
<1>1. draft[s].revision \in Nat
  BY DEF TypeOK
<1>2. s # Fed => source[s].version \in Nat
  BY DEF TypeOK, Skills, Holder
<1> QED BY <1>1, <1>2 DEF KeyOf, Key

LEMMA ActiveTyped ==
    ASSUME TypeOK, NEW s \in Skills
    PROVE  Active(s) \in Nat
<1>1. pubs[s] \in Seq(Publication)
  BY DEF TypeOK
<1> QED BY <1>1, LenProperties DEF Active

LEMMA FenceTyped ==
    ASSUME TypeOK, NEW s \in Skills
    PROVE  Fence(s) \in FenceType
<1>1. Active(Fed) \in Nat
  BY ActiveTyped DEF Skills
<1>2. persona.version \in Nat
  BY DEF TypeOK, Holder
<1> QED BY <1>1, <1>2, KeyTyped DEF Fence, FenceType

LEMMA PlanTyped ==
    ASSUME TypeOK, NEW s \in Skills
    PROVE  /\ NextPlan(s) \in [key : Key, version : Nat]
           /\ Planned(s) => plan[s] \in [key : Key, version : Nat]
<1>1. plan[s] \in [key : Key, version : Nat] \cup {None}
  BY DEF TypeOK
<1>2. (IF plan[s] = None THEN 1 ELSE plan[s].version + 1) \in Nat
  BY <1>1
<1> QED BY <1>1, <1>2, KeyTyped DEF NextPlan, Planned

\* A report is saved as one.
LEMMA ReportTyped ==
    ASSUME TypeOK, NEW s \in Skills, NEW b \in BOOLEAN, SaveReport(s, b)
    PROVE  report' \in [Skills -> [key : Key, approved : BOOLEAN] \cup {None}]
<1>1. [key |-> KeyOf(s), approved |-> b] \in [key : Key, approved : BOOLEAN]
  BY KeyTyped
<1>2. report \in [Skills -> [key : Key, approved : BOOLEAN] \cup {None}]
  BY DEF TypeOK
<1>3. CASE report' = [report EXCEPT ![s] = [key |-> KeyOf(s), approved |-> b]]
  BY <1>1, <1>2, <1>3
<1>4. CASE UNCHANGED report
  BY <1>2, <1>4
<1> QED BY <1>3, <1>4 DEF SaveReport

\* What a runner that is not idle has in its hands.
LEMMA RunnerTyped ==
    ASSUME TypeOK, NEW r \in Runners, runner[r].at # "idle"
    PROVE  /\ runner[r] # NoRun
           /\ runner[r].at \in {"captured", "tested"}
           /\ runner[r].skill \in Skills
           /\ runner[r].ok \in BOOLEAN
           /\ runner[r].fence \in FenceType
BY DEF TypeOK, NoRun, FenceType

\* The initial state has the declared types.
LEMMA InitTyped == Init => TypeOK
<1> SUFFICES ASSUME Init PROVE TypeOK
  OBVIOUS
<1>1. changes \in 0..MaxChanges
  BY BoundsAssumption DEF Init
<1>2. source \in [Queries -> Holder] /\ persona \in Holder
  BY DEF Init, Holder
<1>3. draft \in [Skills -> [revision : Nat, required : BOOLEAN,
                            uses : [Queries -> Nat]]]
  <2>1. \A s \in Skills :
          [revision |-> 1, required |-> s = Fed,
           uses |-> [q \in Queries |-> IF s = Fed THEN 1 ELSE 0]]
            \in [revision : Nat, required : BOOLEAN, uses : [Queries -> Nat]]
    OBVIOUS
  <2> QED BY <2>1 DEF Init
<1>4. plan \in [Skills -> [key : Key, version : Nat] \cup {None}]
  BY DEF Init, Key
<1>5. pubs \in [Skills -> Seq(Publication)]
  <2> DEFINE first(s) == [key |-> [revision |-> 1, version |-> 1],
                          uses |-> Nothing,
                          versions |-> [Nothing EXCEPT ![s] = 1],
                          suspended |-> FALSE]
             all == [s \in Skills |-> IF s = Fed THEN <<>> ELSE <<first(s)>>]
  <2>1. \A s \in Skills : first(s) \in Publication
    <3>1. \A s \in Skills : [Nothing EXCEPT ![s] = 1] \in [Queries -> Nat]
      BY DEF Nothing
    <3>2. [revision |-> 1, version |-> 1] \in Key /\ Nothing \in [Queries -> Nat]
      BY DEF Key, Nothing
    <3> QED BY <3>1, <3>2 DEF Publication
  <2>2. pubs = all
    BY DEF Init
  <2> HIDE DEF first
  <2>3. <<>> \in Seq(Publication)
    OBVIOUS
  <2>4. \A s \in Skills : <<first(s)>> \in Seq(Publication)
    BY <2>1
  <2> QED BY <2>2, <2>3, <2>4
<1>6. /\ report \in [Skills -> [key : Key, approved : BOOLEAN] \cup {None}]
      /\ preview \in [Previews -> [skill : Skills, key : Key, persona : Nat,
                                   previous : Nat, plan : Nat] \cup {None}]
      /\ passed \subseteq Skills \X Key
  BY DEF Init
<1>7. runner \in [Runners ->
        [at : {"captured", "tested"}, skill : Skills, ok : BOOLEAN,
         fence : [key : Key, persona : Nat, active : Nat]] \cup {NoRun}]
  BY DEF Init
<1>8. request \in [Requests -> [pub : Nat, reading : Queries \cup {None},
                                version : Nat, read : [Queries -> Nat]]]
  BY DEF Init, NoRequest, Nothing
<1> QED BY <1>1, <1>2, <1>3, <1>4, <1>5, <1>6, <1>7, <1>8 DEF TypeOK

-----------------------------------------------------------------------------
(* What a step does to the publications.                                   *)

\* Publications are appended, keep what they were made from, and are never
\* resumed.
Kept ==
    \A s \in Skills :
        /\ Len(pubs'[s]) >= Len(pubs[s])
        /\ \A n \in Positions(s) :
             /\ pubs'[s][n].key = pubs[s][n].key
             /\ pubs'[s][n].uses = pubs[s][n].uses
             /\ pubs'[s][n].versions = pubs[s][n].versions
             /\ pubs[s][n].suspended => pubs'[s][n].suspended

\* Publishing appends what was compiled to one skill's publications.
LEMMA PublishIs ==
    ASSUME TypeOK, NEW n \in Previews, Publish(n), NEW s, s = preview[n].skill
    PROVE  /\ s \in Skills
           /\ pubs' \in [Skills -> Seq(Publication)]
           /\ \A t \in Skills \ {s} : pubs'[t] = pubs[t]
           /\ Len(pubs'[s]) = Len(pubs[s]) + 1
           /\ \A i \in Positions(s) : pubs'[s][i] = pubs[s][i]
           /\ pubs'[s][Len(pubs[s]) + 1] = NewPublication(s)
<1>1. s \in Skills
  BY DEF TypeOK, Publish
<1>2. NewPublication(s) \in Publication
  <2>1. KeyOf(s) \in Key
    BY <1>1, KeyTyped
  <2>2. draft[s].uses \in [Queries -> Nat]
    BY <1>1 DEF TypeOK
  <2>3. \A q \in Queries : source[q].version \in Nat
    BY DEF TypeOK, Holder
  <2>4. [q \in Queries |-> IF q \in SourcesOf(s) THEN source[q].version ELSE 0]
          \in [Queries -> Nat]
    BY <2>3
  <2> QED BY <2>1, <2>2, <2>4 DEF NewPublication, Publication
<1>3. pubs \in [Skills -> Seq(Publication)]
  BY DEF TypeOK
<1>4. pubs' = [pubs EXCEPT ![s] = Append(pubs[s], NewPublication(s))]
  BY DEF Publish
<1> DEFINE new == NewPublication(s)
<1> HIDE DEF new
<1>5. Append(pubs[s], new) \in Seq(Publication)
  BY <1>1, <1>2, <1>3 DEF new
<1>6. /\ Len(Append(pubs[s], new)) = Len(pubs[s]) + 1
      /\ \A i \in 1..Len(pubs[s]) : Append(pubs[s], new)[i] = pubs[s][i]
      /\ Append(pubs[s], new)[Len(pubs[s]) + 1] = new
  BY <1>1, <1>2, <1>3, AppendProperties DEF new
<1>7. pubs'[s] = Append(pubs[s], new)
  BY <1>1, <1>3, <1>4 DEF new
<1> QED BY <1>1, <1>3, <1>4, <1>5, <1>6, <1>7 DEF Positions, new

\* Suspending keeps what is published.
LEMMA SuspendingKeeps ==
    ASSUME TypeOK, NEW which, pubs' = Suspended(which)
    PROVE  pubs' \in [Skills -> Seq(Publication)] /\ Kept
<1>1. \A s \in Skills : Len(pubs[s]) \in Nat
  BY ActiveTyped DEF Active
<1>2. ASSUME NEW s \in Skills, NEW n \in Positions(s)
      PROVE  /\ pubs'[s][n].key = pubs[s][n].key
             /\ pubs'[s][n].uses = pubs[s][n].uses
             /\ pubs'[s][n].versions = pubs[s][n].versions
             /\ pubs[s][n].suspended => pubs'[s][n].suspended
  <2>1. pubs'[s][n].suspended = (pubs[s][n].suspended \/ <<s, n>> \in which)
    BY <1>2, SuspendedIs
  <2>2. pubs[s][n].suspended => pubs'[s][n].suspended
    BY <2>1
  <2> QED BY <1>2, <2>2, SuspendedIs
<1>3. \A s \in Skills : Len(pubs'[s]) = Len(pubs[s])
  BY SuspendedIs
<1>4. \A s \in Skills : Len(pubs'[s]) >= Len(pubs[s])
  BY <1>1, <1>3
<1>5. pubs' \in [Skills -> Seq(Publication)]
  BY SuspendedIs
<1> QED BY <1>2, <1>4, <1>5 DEF Kept

\* So does every step.
LEMMA StepKeeps ==
    ASSUME TypeOK, [Next]_vars
    PROVE  pubs' \in [Skills -> Seq(Publication)] /\ Kept
<1>1. \A s \in Skills : Len(pubs[s]) \in Nat
  BY ActiveTyped DEF Active
<1>2. CASE UNCHANGED pubs
  BY <1>1, <1>2 DEF TypeOK, Kept
<1>3. CASE \E n \in Previews : Publish(n)
  <2>1. PICK n \in Previews : Publish(n)
    BY <1>3
  <2>2. ASSUME NEW t \in Skills, t # preview[n].skill
        PROVE  pubs'[t] = pubs[t]
    BY <2>1, <2>2, PublishIs
  <2> DEFINE s == preview[n].skill
  <2>3. /\ s \in Skills
        /\ pubs' \in [Skills -> Seq(Publication)]
        /\ Len(pubs'[s]) = Len(pubs[s]) + 1
        /\ \A i \in Positions(s) : pubs'[s][i] = pubs[s][i]
    BY <2>1, PublishIs
  <2> HIDE DEF s
  <2>4. \A t \in Skills : /\ Len(pubs'[t]) >= Len(pubs[t])
                          /\ \A i \in Positions(t) : pubs'[t][i] = pubs[t][i]
    BY <1>1, <2>2, <2>3 DEF s
  <2> QED BY <2>3, <2>4 DEF Kept
<1>4. CASE \E which : pubs' = Suspended(which)
  BY <1>4, SuspendingKeeps
<1> QED
  BY <1>2, <1>3, <1>4
  DEF Next, vars, world, skills, Consumer, Edit, EditCases, SetReviewDeadline,
      Preview, PreviewExpires, Suspend, ChangeSource, ChangePersona, Capture,
      Test, Report, Abort, Start, Send, Receive, Deliver, GiveUp

\* Every step keeps the types.
LEMMA StepTyped == TypeOK /\ [Next]_vars => TypeOK'
<1> SUFFICES ASSUME TypeOK, [Next]_vars PROVE TypeOK'
  OBVIOUS
<1> USE DEF Change
<1>1. pubs' \in [Skills -> Seq(Publication)]
  BY StepKeeps
<1> DEFINE Draft == [revision : Nat, required : BOOLEAN, uses : [Queries -> Nat]]
<1>2. ASSUME NEW s \in Skills, Edit(s) PROVE TypeOK'
  <2>1. \A q \in Queries : Active(q) \in Nat
    BY ActiveTyped DEF Skills
  <2>2. [q \in Queries |-> IF s = Fed THEN Active(q) ELSE 0] \in [Queries -> Nat]
    BY <2>1
  <2> DEFINE named == [q \in Queries |-> IF s = Fed THEN Active(q) ELSE 0]
             edited == [revision |-> draft[s].revision + 1,
                        required |-> draft[s].required, uses |-> named]
  <2>3. draft' \in [Skills -> Draft]
    <3>1. draft \in [Skills -> Draft]
      BY DEF TypeOK
    <3>2. edited \in Draft
      BY <2>2, <3>1
    <3>3. draft' = [draft EXCEPT ![s] = edited]
      BY <1>2, <3>1 DEF Edit
    <3> HIDE DEF edited
    <3> QED BY <3>1, <3>2, <3>3
  <2>4. changes' \in 0..MaxChanges
    BY <1>2, BoundsAssumption DEF Edit, TypeOK
  <2> QED BY <1>1, <1>2, <2>3, <2>4 DEF Edit, TypeOK
<1>3. ASSUME NEW s \in Skills, NEW b \in BOOLEAN, EditCases(s, b) PROVE TypeOK'
  <2> DEFINE edited == [revision |-> draft[s].revision + 1, required |-> b,
                        uses |-> draft[s].uses]
  <2>1. draft' \in [Skills -> Draft]
    <3>1. draft \in [Skills -> Draft]
      BY DEF TypeOK
    <3>2. edited \in Draft
      BY <3>1
    <3>3. draft' = [draft EXCEPT ![s] = edited]
      BY <1>3, <3>1 DEF EditCases
    <3> HIDE DEF edited
    <3> QED BY <3>1, <3>2, <3>3
  <2>2. changes' \in 0..MaxChanges
    BY <1>3, BoundsAssumption DEF EditCases, TypeOK
  <2> QED BY <1>1, <1>3, <2>1, <2>2 DEF EditCases, TypeOK
<1>4. ASSUME NEW s \in Skills, SetReviewDeadline(s) PROVE TypeOK'
  <2>1. plan' \in [Skills -> [key : Key, version : Nat] \cup {None}]
    BY <1>4, PlanTyped DEF SetReviewDeadline, TypeOK
  <2>2. changes' \in 0..MaxChanges
    BY <1>4, BoundsAssumption DEF SetReviewDeadline, TypeOK
  <2> QED BY <1>1, <1>4, <2>1, <2>2 DEF SetReviewDeadline, TypeOK
<1>5. ASSUME NEW s \in Skills, NEW n \in Previews, Preview(s, n) PROVE TypeOK'
  <2>1. plan \in [Skills -> [key : Key, version : Nat] \cup {None}]
    BY DEF TypeOK
  <2>2. /\ plan' \in [Skills -> [key : Key, version : Nat] \cup {None}]
        /\ plan'[s] \in [key : Key, version : Nat]
    BY <1>5, <2>1, PlanTyped DEF Preview
  <2>3. [skill |-> s, key |-> KeyOf(s), persona |-> persona.version,
         previous |-> Active(s), plan |-> plan'[s].version]
          \in [skill : Skills, key : Key, persona : Nat, previous : Nat, plan : Nat]
    <3>1. persona.version \in Nat
      BY DEF TypeOK, Holder
    <3> QED BY <2>2, <3>1, KeyTyped, ActiveTyped
  <2>4. preview' \in [Previews -> [skill : Skills, key : Key, persona : Nat,
                                   previous : Nat, plan : Nat] \cup {None}]
    BY <1>5, <2>3 DEF Preview, TypeOK
  <2> QED BY <1>1, <1>5, <2>2, <2>4 DEF Preview, TypeOK
<1>6. ASSUME NEW n \in Previews, PreviewExpires(n) PROVE TypeOK'
  BY <1>1, <1>6 DEF PreviewExpires, TypeOK, world
<1>7. ASSUME NEW n \in Previews, Publish(n) PROVE TypeOK'
  <2>1. preview' \in [Previews -> [skill : Skills, key : Key, persona : Nat,
                                   previous : Nat, plan : Nat] \cup {None}]
    BY <1>7 DEF Publish, TypeOK
  <2> QED BY <1>1, <1>7, <2>1 DEF Publish, TypeOK, world
<1>8. ASSUME NEW s \in Skills, Suspend(s) PROVE TypeOK'
  <2>1. changes' \in 0..MaxChanges
    BY <1>8, BoundsAssumption DEF Suspend, TypeOK
  <2> QED BY <1>1, <1>8, <2>1 DEF Suspend, TypeOK
<1>9. ASSUME NEW q \in Queries, NEW b \in BOOLEAN, ChangeSource(q, b) PROVE TypeOK'
  <2>1. source' \in [Queries -> Holder]
    BY <1>9 DEF ChangeSource, TypeOK, Holder
  <2>2. changes' \in 0..MaxChanges
    BY <1>9, BoundsAssumption DEF ChangeSource, TypeOK
  <2> QED BY <1>1, <1>9, <2>1, <2>2 DEF ChangeSource, TypeOK
<1>10. ASSUME NEW b \in BOOLEAN, ChangePersona(b) PROVE TypeOK'
  <2>1. persona' \in Holder
    BY <1>10 DEF ChangePersona, TypeOK, Holder
  <2>2. changes' \in 0..MaxChanges
    BY <1>10, BoundsAssumption DEF ChangePersona, TypeOK
  <2> QED BY <1>1, <1>10, <2>1, <2>2 DEF ChangePersona, TypeOK
<1> DEFINE Running == [at : {"captured", "tested"}, skill : Skills, ok : BOOLEAN,
                       fence : [key : Key, persona : Nat, active : Nat]]
<1>11. ASSUME NEW r \in Runners, NEW s \in Skills, Capture(r, s) PROVE TypeOK'
  <2>1. report' \in [Skills -> [key : Key, approved : BOOLEAN] \cup {None}]
    BY <1>11, ReportTyped DEF Capture
  <2>2. [at |-> "captured", skill |-> s, fence |-> Fence(s), ok |-> FALSE] \in Running
    BY FenceTyped DEF FenceType
  <2>3. runner' \in [Runners -> Running \cup {NoRun}]
    BY <1>11, <2>2 DEF Capture, TypeOK
  <2> QED BY <1>1, <1>11, <2>1, <2>3 DEF Capture, TypeOK, world
<1>12. ASSUME NEW r \in Runners, NEW b \in BOOLEAN, Test(r, b) PROVE TypeOK'
  <2>1. runner[r].at # "idle"
    BY <1>12 DEF Test
  <2>2. runner[r] \in Running
    BY <2>1, RunnerTyped DEF TypeOK
  <2>3. [runner[r] EXCEPT !.at = "tested", !.ok = b] \in Running
    BY <2>2
  <2>4. runner' \in [Runners -> Running \cup {NoRun}]
    BY <1>12, <2>3 DEF Test, TypeOK
  <2>5. <<runner[r].skill, runner[r].fence.key>> \in Skills \X Key
    BY <2>2
  <2>6. passed' \subseteq Skills \X Key
    BY <1>12, <2>5 DEF Test, TypeOK
  <2> QED BY <1>1, <1>12, <2>4, <2>6 DEF Test, TypeOK, world, skills
<1>13. ASSUME NEW r \in Runners, Report(r) PROVE TypeOK'
  <2>1. runner[r].at # "idle"
    BY <1>13 DEF Report
  <2>2. report' \in [Skills -> [key : Key, approved : BOOLEAN] \cup {None}]
    BY <1>13, <2>1, RunnerTyped, ReportTyped DEF Report
  <2>3. runner' \in [Runners -> Running \cup {NoRun}]
    BY <1>13 DEF Report, Reset, TypeOK
  <2> QED BY <1>1, <1>13, <2>2, <2>3 DEF Report, TypeOK, world
<1>14. ASSUME NEW r \in Runners, Abort(r) PROVE TypeOK'
  <2>1. runner' \in [Runners -> Running \cup {NoRun}]
    BY <1>14 DEF Abort, Reset, TypeOK
  <2> QED BY <1>1, <1>14, <2>1 DEF Abort, TypeOK, world, skills
<1> DEFINE Reads == [pub : Nat, reading : Queries \cup {None},
                     version : Nat, read : [Queries -> Nat]]
<1>15. NoRequest \in Reads
  BY DEF NoRequest, Nothing
<1>16. ASSUME NEW c \in Requests, Start(c) PROVE TypeOK'
  <2>1. Active(Fed) \in Nat
    BY ActiveTyped DEF Skills
  <2>2. request' \in [Requests -> Reads]
    BY <1>16, <2>1 DEF Start, TypeOK
  <2> QED BY <1>1, <1>16, <2>2 DEF Start, Consumer, TypeOK, world, skills
<1>17. ASSUME NEW c \in Requests, NEW q \in Queries, Send(c, q) PROVE TypeOK'
  <2>1. source[q].version \in Nat
    BY DEF TypeOK, Holder
  <2>2. request[c] \in Reads
    BY DEF TypeOK
  <2> DEFINE asked == [request[c] EXCEPT !.reading = q,
                                         !.version = source[q].version]
  <2>3. asked \in Reads
    BY <2>1, <2>2
  <2>4. request' \in [Requests -> Reads]
    <3>1. request' = [request EXCEPT ![c] = asked]
      BY <1>17 DEF Send
    <3> HIDE DEF asked
    <3> QED BY <2>3, <3>1 DEF TypeOK
  <2> QED BY <1>1, <1>17, <2>4 DEF Send, Consumer, TypeOK, world, skills
<1>18. ASSUME NEW c \in Requests, Receive(c) PROVE TypeOK'
  <2>1. request[c] \in Reads /\ request[c].reading \in Queries
    BY <1>18 DEF Receive, TypeOK
  <2> DEFINE q == request[c].reading
             seen == [pub |-> request[c].pub, reading |-> None, version |-> 0,
                      read |-> [request[c].read EXCEPT ![q] = request[c].version]]
  <2>2. request' \in [Requests -> Reads]
    <3>1. request \in [Requests -> Reads]
      BY DEF TypeOK
    <3>2. seen \in Reads
      BY <2>1
    <3>3. request' = [request EXCEPT ![c] = seen]
      BY <1>18, <2>1, <3>1 DEF Receive
    <3> HIDE DEF seen
    <3> QED BY <3>1, <3>2, <3>3
  <2> QED BY <1>1, <1>18, <2>2 DEF Receive, Consumer, TypeOK, world, skills
<1>19. ASSUME NEW c \in Requests, Deliver(c) \/ GiveUp(c) PROVE TypeOK'
  <2>1. request' \in [Requests -> Reads]
    BY <1>15, <1>19 DEF Deliver, GiveUp, Ends, TypeOK
  <2> QED BY <1>1, <1>19, <2>1
          DEF Deliver, GiveUp, Consumer, TypeOK, world, skills
<1>20. CASE UNCHANGED vars
  BY <1>1, <1>20 DEF vars, TypeOK
<1> QED
  BY <1>2, <1>3, <1>4, <1>5, <1>6, <1>7, <1>8, <1>9, <1>10, <1>11, <1>12,
     <1>13, <1>14, <1>16, <1>17, <1>18, <1>19, <1>20 DEF Next

\* Every reachable state has the declared types, for any queries, runners and
\* requests.
THEOREM CatalogTypes == Spec => []TypeOK
<1>1. Init => TypeOK
  BY InitTyped
<1>2. TypeOK /\ [Next]_vars => TypeOK'
  BY StepTyped
<1> QED BY <1>1, <1>2, PTL DEF Spec

-----------------------------------------------------------------------------
(* Nothing stale is in force.                                              *)

\* What is not suspended after a suspension was not before, and was not of it.
LEMMA SuspendingIs ==
    ASSUME TypeOK, NEW which, pubs' = Suspended(which), NEW s \in Skills
    PROVE  /\ Len(pubs'[s]) = Len(pubs[s])
           /\ \A n \in 1..Len(pubs[s]) :
                /\ pubs'[s][n].versions = pubs[s][n].versions
                /\ ~pubs'[s][n].suspended =>
                     ~pubs[s][n].suspended /\ <<s, n>> \notin which
<1>1. Len(pubs'[s]) = Len(pubs[s])
  BY SuspendedIs
<1>2. ASSUME NEW n \in 1..Len(pubs[s])
      PROVE  /\ pubs'[s][n].versions = pubs[s][n].versions
             /\ ~pubs'[s][n].suspended =>
                  ~pubs[s][n].suspended /\ <<s, n>> \notin which
  <2> n \in Positions(s)
    BY DEF Positions
  <2>1. pubs'[s][n].suspended = (pubs[s][n].suspended \/ <<s, n>> \in which)
    BY SuspendedIs
  <2>2. ~pubs'[s][n].suspended => ~pubs[s][n].suspended /\ <<s, n>> \notin which
    BY <2>1
  <2>3. pubs'[s][n].versions = pubs[s][n].versions
    BY SuspendingKeeps DEF Kept
  <2> QED BY <2>2, <2>3
<1> QED BY <1>1, <1>2

\* The invariant is inductive with the types.
LEMMA StaleStep ==
    ASSUME TypeOK, StaleIsSuspended, [Next]_vars
    PROVE  StaleIsSuspended'
<1>1. CASE UNCHANGED <<pubs, source, persona>>
  BY <1>1 DEF StaleIsSuspended, Active
<1>2. ASSUME NEW p \in Previews, Publish(p) PROVE StaleIsSuspended'
  <2> DEFINE t == preview[p].skill
  <2>1. /\ t \in Skills
        /\ Compiles(t)
        /\ UNCHANGED <<source, persona>>
        /\ Len(pubs'[t]) = Len(pubs[t]) + 1
        /\ \A i \in Positions(t) : pubs'[t][i] = pubs[t][i]
        /\ pubs'[t][Len(pubs[t]) + 1] = NewPublication(t)
    BY <1>2, PublishIs DEF Publish, world
  <2>2. \A s \in Skills : s # t => pubs'[s] = pubs[s]
    BY <1>2, PublishIs
  <2> HIDE DEF t
  <2>3. /\ persona.active
        /\ \A q \in SourcesOf(t) :
             source[q].active /\ NewPublication(t).versions[q] = source[q].version
    <3>1. SourcesOf(t) \subseteq Queries
      BY <2>1 DEF SourcesOf, Skills
    <3> QED BY <2>1, <3>1 DEF Compiles, Usable, SourcesOf, NewPublication
  <2>4. Len(pubs[t]) \in Nat
    BY <2>1, ActiveTyped DEF Active
  <2>5. ASSUME NEW s \in Skills, NEW n \in 1..Len(pubs'[s]), ~pubs'[s][n].suspended
        PROVE  /\ persona.active
               /\ \A q \in SourcesOf(s) :
                    /\ source[q].active
                    /\ pubs'[s][n].versions[q] = source[q].version
    <3>1. CASE s # t
      BY <2>2, <2>5, <3>1 DEF StaleIsSuspended, Active
    <3>2. CASE s = t /\ n \in Positions(t)
      BY <2>1, <2>5, <3>2 DEF StaleIsSuspended, Active, Positions
    <3>3. CASE s = t /\ n = Len(pubs[t]) + 1
      BY <2>1, <2>3, <3>3
    <3> QED BY <2>1, <2>4, <3>1, <3>2, <3>3 DEF Positions
  <2> QED BY <2>1, <2>5 DEF StaleIsSuspended, Active, SourcesOf
<1>3. ASSUME NEW t \in Skills, Suspend(t) PROVE StaleIsSuspended'
  <2>1. UNCHANGED <<source, persona>> /\ pubs' = Suspended({<<t, Active(t)>>})
    BY <1>3 DEF Suspend
  <2>2. \A s \in Skills :
          /\ Len(pubs'[s]) = Len(pubs[s])
          /\ \A n \in 1..Len(pubs[s]) :
               /\ pubs'[s][n].versions = pubs[s][n].versions
               /\ ~pubs'[s][n].suspended => ~pubs[s][n].suspended
    BY <2>1, SuspendingIs
  <2>3. ASSUME NEW s \in Skills, NEW n \in 1..Len(pubs'[s]), ~pubs'[s][n].suspended
        PROVE  /\ persona.active
               /\ \A q \in SourcesOf(s) :
                    /\ source[q].active
                    /\ pubs'[s][n].versions[q] = source[q].version
    <3>1. n \in 1..Len(pubs[s]) /\ ~pubs[s][n].suspended
      BY <2>2, <2>3
    <3> QED BY <2>2, <3>1 DEF StaleIsSuspended, Active
  <2> QED BY <2>1, <2>3 DEF StaleIsSuspended, Active, SourcesOf
<1>4. ASSUME NEW p \in Queries, NEW b \in BOOLEAN, ChangeSource(p, b)
      PROVE  StaleIsSuspended'
  <2>1. /\ UNCHANGED persona
        /\ \A q \in Queries : q # p => source'[q] = source[q]
        /\ pubs' = Suspended(BuiltOn(p))
    BY <1>4 DEF ChangeSource, TypeOK
  <2>2. \A s \in Skills :
          /\ Len(pubs'[s]) = Len(pubs[s])
          /\ \A n \in 1..Len(pubs[s]) :
               /\ pubs'[s][n].versions = pubs[s][n].versions
               /\ ~pubs'[s][n].suspended =>
                    ~pubs[s][n].suspended /\ <<s, n>> \notin BuiltOn(p)
    BY <2>1, SuspendingIs
  <2>3. ASSUME NEW s \in Skills, NEW n \in 1..Len(pubs[s]),
               <<s, n>> \notin BuiltOn(p)
        PROVE  p \notin SourcesOf(s)
    BY <2>3 DEF BuiltOn, AllOf, Active
  <2>4. \A s \in Skills : SourcesOf(s) \subseteq Queries
    BY DEF SourcesOf, Skills
  <2>5. ASSUME NEW s \in Skills, NEW n \in 1..Len(pubs[s]), ~pubs'[s][n].suspended
        PROVE  /\ persona.active
               /\ \A q \in SourcesOf(s) :
                    /\ source'[q].active
                    /\ pubs'[s][n].versions[q] = source'[q].version
    <3>1. ~pubs[s][n].suspended /\ p \notin SourcesOf(s)
      BY <2>2, <2>3, <2>5
    <3>2. \A q \in SourcesOf(s) : source'[q] = source[q]
      BY <2>1, <2>4, <3>1
    <3>3. /\ persona.active
          /\ \A q \in SourcesOf(s) :
               source[q].active /\ pubs[s][n].versions[q] = source[q].version
      BY <3>1 DEF StaleIsSuspended, Active
    <3>4. pubs'[s][n].versions = pubs[s][n].versions
      BY <2>2
    <3> QED BY <3>2, <3>3, <3>4
  <2> QED BY <2>1, <2>2, <2>5 DEF StaleIsSuspended, Active, SourcesOf
<1>5. ASSUME NEW b \in BOOLEAN, ChangePersona(b) PROVE StaleIsSuspended'
  <2>1. CASE b
    BY <1>5, <2>1 DEF ChangePersona, StaleIsSuspended, Active, SourcesOf
  <2>2. CASE ~b
    <3>1. pubs' = Suspended(AllOf(Skills))
      BY <1>5, <2>2 DEF ChangePersona
    <3>2. \A s \in Skills : \A n \in 1..Len(pubs[s]) : <<s, n>> \in AllOf(Skills)
      BY DEF AllOf, Active
    <3>3. \A s \in Skills :
            /\ Len(pubs'[s]) = Len(pubs[s])
            /\ \A n \in 1..Len(pubs[s]) : pubs'[s][n].suspended
      BY <3>1, <3>2, SuspendedIs DEF Positions
    <3> QED BY <3>3 DEF StaleIsSuspended, Active
  <2> QED BY <2>1, <2>2
<1> QED
  BY <1>1, <1>2, <1>3, <1>4, <1>5
  DEF Next, vars, world, skills, Consumer, Edit, EditCases, SetReviewDeadline,
      Preview, PreviewExpires, Capture, Test, Report, Abort, Start, Send,
      Receive, Deliver, GiveUp

\* A publication that is not suspended was built on the sources as they are:
\* whatever the order of publications, suspensions and changes of a source or
\* of the persona.
THEOREM NothingStale == Spec => []StaleIsSuspended
<1>1. Init => StaleIsSuspended
  <2> SUFFICES ASSUME Init PROVE StaleIsSuspended
    OBVIOUS
  <2>1. Active(Fed) = 0
    <3>1. pubs[Fed] = <<>>
      BY DEF Init, Skills
    <3> QED BY <3>1 DEF Active
  <2>2. ASSUME NEW s \in Queries
        PROVE  /\ Active(s) = 1 /\ SourcesOf(s) = {s}
               /\ pubs[s][1].versions[s] = 1
    <3> DEFINE first == [key |-> [revision |-> 1, version |-> 1], uses |-> Nothing,
                         versions |-> [Nothing EXCEPT ![s] = 1], suspended |-> FALSE]
    <3>1. s # Fed
      BY SkillsAssumption
    <3>2. pubs[s] = <<first>>
      BY <3>1 DEF Init, Skills
    <3>3. first.versions[s] = 1
      BY DEF Nothing
    <3> HIDE DEF first
    <3>4. Active(s) = 1 /\ pubs[s][1] = first
      BY <3>2 DEF Active
    <3> QED BY <3>1, <3>3, <3>4 DEF SourcesOf
  <2>3. /\ persona.active
        /\ \A q \in Queries : source[q].active /\ source[q].version = 1
    BY DEF Init
  <2>4. ASSUME NEW s \in Skills, NEW n \in 1..Active(s)
        PROVE  \A q \in SourcesOf(s) :
                 source[q].active /\ pubs[s][n].versions[q] = source[q].version
    <3>1. s # Fed
      BY <2>1, <2>4
    <3>2. s \in Queries /\ n = 1
      BY <2>2, <2>4, <3>1 DEF Skills
    <3> QED BY <2>2, <2>3, <3>2
  <2> QED BY <2>3, <2>4 DEF StaleIsSuspended
<1>2. TypeOK /\ StaleIsSuspended /\ [Next]_vars => StaleIsSuspended'
  BY StaleStep
<1> QED BY <1>1, <1>2, CatalogTypes, PTL DEF Spec

-----------------------------------------------------------------------------
(* What is published was tested.                                           *)

\* An approved report, and a run that passed, are about a package that did.
ReportsArePassed ==
    /\ \A s \in Skills : report[s] # None /\ report[s].approved
                           => <<s, report[s].key>> \in passed
    /\ \A r \in Runners : runner[r].at = "tested" /\ runner[r].ok
                           => <<runner[r].skill, runner[r].fence.key>> \in passed

\* Saving a report of a package that passed, if approved, keeps it so.
LEMMA SavedIsPassed ==
    ASSUME TypeOK, ReportsArePassed, NEW t \in Skills, NEW b \in BOOLEAN,
           SaveReport(t, b), b => <<t, KeyOf(t)>> \in passed, UNCHANGED passed
    PROVE  \A s \in Skills : report'[s] # None /\ report'[s].approved
                             => <<s, report'[s].key>> \in passed'
<1>1. CASE report' = [report EXCEPT ![t] = [key |-> KeyOf(t), approved |-> b]]
  <2>1. \A s \in Skills : report'[s] = IF s = t THEN [key |-> KeyOf(t), approved |-> b]
                                       ELSE report[s]
    BY <1>1 DEF TypeOK
  <2> QED BY <2>1 DEF ReportsArePassed
<1>2. CASE UNCHANGED report
  BY <1>2 DEF ReportsArePassed
<1> QED BY <1>1, <1>2 DEF SaveReport

\* Every step keeps it.
LEMMA PassedStep ==
    ASSUME TypeOK, ReportsArePassed, [Next]_vars
    PROVE  ReportsArePassed'
<1>1. CASE UNCHANGED <<report, runner, passed>>
  BY <1>1 DEF ReportsArePassed
<1>2. ASSUME NEW r \in Runners, NEW s \in Skills, Capture(r, s)
      PROVE  ReportsArePassed'
  <2>1. \A t \in Skills : report'[t] # None /\ report'[t].approved
                          => <<t, report'[t].key>> \in passed'
    BY <1>2, SavedIsPassed DEF Capture
  <2>2. \A x \in Runners : runner'[x].at = "tested" => runner'[x] = runner[x]
    BY <1>2 DEF Capture, TypeOK
  <2>3. UNCHANGED passed
    BY <1>2 DEF Capture
  <2> QED BY <2>1, <2>2, <2>3 DEF ReportsArePassed
<1>3. ASSUME NEW r \in Runners, NEW b \in BOOLEAN, Test(r, b)
      PROVE  ReportsArePassed'
  <2>1. passed \subseteq passed' /\ UNCHANGED report
    BY <1>3 DEF Test, skills
  <2>2. runner'[r].ok => <<runner'[r].skill, runner'[r].fence.key>> \in passed'
    <3>1. runner[r].at # "idle"
      BY <1>3 DEF Test
    <3>2. runner[r] \in [at : {"captured", "tested"}, skill : Skills, ok : BOOLEAN,
                         fence : [key : Key, persona : Nat, active : Nat]]
      BY <3>1, RunnerTyped DEF TypeOK
    <3>3. runner' = [runner EXCEPT ![r] = [runner[r] EXCEPT !.at = "tested", !.ok = b]]
      BY <1>3 DEF Test
    <3>4. runner'[r] = [runner[r] EXCEPT !.at = "tested", !.ok = b]
      BY <3>3 DEF TypeOK
    <3>5. /\ runner'[r].ok = b
          /\ runner'[r].skill = runner[r].skill
          /\ runner'[r].fence = runner[r].fence
      BY <3>2, <3>4
    <3> QED BY <1>3, <3>5 DEF Test
  <2>3. \A x \in Runners : x # r => runner'[x] = runner[x]
    BY <1>3 DEF Test, TypeOK
  <2> QED BY <2>1, <2>2, <2>3 DEF ReportsArePassed
<1>4. ASSUME NEW r \in Runners, Report(r) PROVE ReportsArePassed'
  <2>1. /\ runner[r].skill \in Skills
        /\ runner[r].ok \in BOOLEAN
    BY <1>4, RunnerTyped DEF Report
  <2>2. runner[r].ok => <<runner[r].skill, KeyOf(runner[r].skill)>> \in passed
    <3>1. runner[r].fence.key = KeyOf(runner[r].skill)
      BY <1>4 DEF Report, Unchanged, Fence
    <3> QED BY <1>4, <3>1 DEF Report, ReportsArePassed
  <2>3. UNCHANGED passed
    BY <1>4 DEF Report
  <2>4. \A t \in Skills : report'[t] # None /\ report'[t].approved
                          => <<t, report'[t].key>> \in passed'
    BY <1>4, <2>1, <2>2, <2>3, SavedIsPassed DEF Report
  <2>5. \A x \in Runners : runner'[x].at = "tested" => runner'[x] = runner[x]
    BY <1>4 DEF Report, Reset, NoRun, TypeOK
  <2> QED BY <2>3, <2>4, <2>5 DEF ReportsArePassed
<1>5. ASSUME NEW r \in Runners, Abort(r) PROVE ReportsArePassed'
  <2>1. \A x \in Runners : runner'[x].at = "tested" => runner'[x] = runner[x]
    BY <1>5 DEF Abort, Reset, NoRun, TypeOK
  <2>2. UNCHANGED <<report, passed>>
    BY <1>5 DEF Abort, skills
  <2> QED BY <2>1, <2>2 DEF ReportsArePassed
<1> QED
  BY <1>1, <1>2, <1>3, <1>4, <1>5
  DEF Next, vars, world, skills, Consumer, Edit, EditCases, SetReviewDeadline,
      Preview, PreviewExpires, Publish, Suspend, ChangeSource, ChangePersona,
      Start, Send, Receive, Deliver, GiveUp

\* A step that lengthens a skill's publications confirms a preview of it.
LEMMA OnlyPublishPublishes ==
    ASSUME TypeOK, [Next]_vars, NEW s \in Skills, Publishes(s)
    PROVE  \E n \in Previews : Publish(n) /\ s = preview[n].skill
<1>1. Len(pubs[s]) \in Nat
  BY ActiveTyped DEF Active
<1>2. CASE \E n \in Previews : Publish(n)
  <2>1. PICK n \in Previews : Publish(n)
    BY <1>2
  <2>2. s # preview[n].skill => pubs'[s] = pubs[s]
    BY <2>1, PublishIs
  <2> QED BY <1>1, <2>1, <2>2 DEF Publishes
<1>3. ~UNCHANGED pubs
  BY <1>1 DEF Publishes
<1>4. ASSUME NEW which PROVE pubs' # Suspended(which)
  BY <1>1, SuspendedIs DEF Publishes
<1> QED
  BY <1>2, <1>3, <1>4
  DEF Next, vars, world, skills, Consumer, Edit, EditCases, SetReviewDeadline,
      Preview, PreviewExpires, Suspend, ChangeSource, ChangePersona, Capture,
      Test, Report, Abort, Start, Send, Receive, Deliver, GiveUp

\* The publications are as PublishIs says, at their last position.
LEMMA PublishedIs ==
    ASSUME TypeOK, NEW n \in Previews, Publish(n), NEW s, s = preview[n].skill
    PROVE  pubs'[s][Len(pubs'[s])].key = KeyOf(s)
<1>1. pubs'[s][Len(pubs'[s])] = NewPublication(s)
  BY PublishIs
<1>2. NewPublication(s).key = KeyOf(s)
  BY DEF NewPublication
<1> QED BY <1>1, <1>2

\* What is published, where cases are required, passed them as it is: for any
\* number of runners, previews and queries.
THEOREM OnlyTestedIsPublished == Spec => PublishedAsTested
<1>1. Init => ReportsArePassed
  BY DEF Init, ReportsArePassed, NoRun
<1>2. TypeOK /\ ReportsArePassed /\ [Next]_vars => ReportsArePassed'
  BY PassedStep
<1>3. TypeOK /\ ReportsArePassed /\ [Next]_vars =>
        [\A s \in Skills :
           Publishes(s) /\ (draft[s].required \/ s = Fed)
               => <<s, pubs'[s][Len(pubs'[s])].key>> \in passed]_vars
  <2> SUFFICES ASSUME TypeOK, ReportsArePassed, [Next]_vars, NEW s \in Skills,
                      Publishes(s), draft[s].required \/ s = Fed
               PROVE  <<s, pubs'[s][Len(pubs'[s])].key>> \in passed
    OBVIOUS
  <2>1. PICK n \in Previews : Publish(n) /\ s = preview[n].skill
    BY OnlyPublishPublishes
  <2>2. report[s] = [key |-> KeyOf(s), approved |-> TRUE]
    BY <2>1 DEF Publish, Reported
  <2>3. report[s] # None
    <3>1. [key |-> KeyOf(s), approved |-> TRUE] \in [key : Key, approved : BOOLEAN]
      BY KeyTyped
    <3> QED BY <2>2, <3>1, NoneAssumption
  <2>4. pubs'[s][Len(pubs'[s])].key = KeyOf(s)
    BY <2>1, PublishedIs
  <2> QED BY <2>2, <2>3, <2>4 DEF ReportsArePassed
<1> QED BY <1>1, <1>2, <1>3, CatalogTypes, PTL DEF Spec, PublishedAsTested

\* What is published is what a preview showed, over what it showed it against.
THEOREM OnlyShownIsPublished == Spec => PublishedAsShown
<1>1. TypeOK /\ [Next]_vars =>
        [\A s \in Skills :
           Publishes(s) => \E n \in Previews :
               /\ preview[n] # None /\ preview'[n] = None
               /\ preview[n].skill = s
               /\ preview[n].key = pubs'[s][Len(pubs'[s])].key
               /\ preview[n].previous = Len(pubs[s])]_vars
  <2> SUFFICES ASSUME TypeOK, [Next]_vars, NEW s \in Skills, Publishes(s)
               PROVE  \E n \in Previews :
                        /\ preview[n] # None /\ preview'[n] = None
                        /\ preview[n].skill = s
                        /\ preview[n].key = pubs'[s][Len(pubs'[s])].key
                        /\ preview[n].previous = Len(pubs[s])
    OBVIOUS
  <2>1. PICK n \in Previews : Publish(n) /\ s = preview[n].skill
    BY OnlyPublishPublishes
  <2>2. preview[n] # None /\ preview'[n] = None
    BY <2>1 DEF Publish, TypeOK
  <2>3. preview[n].key = KeyOf(s) /\ preview[n].previous = Len(pubs[s])
    BY <2>1 DEF Publish, Matches, Active
  <2>4. pubs'[s][Len(pubs'[s])].key = KeyOf(s)
    BY <2>1, PublishedIs
  <2> QED BY <2>1, <2>2, <2>3, <2>4
<1> QED BY <1>1, CatalogTypes, PTL DEF Spec, PublishedAsShown

-----------------------------------------------------------------------------
(* What a federation delivers.                                             *)

\* A request under way holds a publication, and what it read of a query is
\* the version under which the publication's own dependency was built.
ReadsArePublished ==
    \A c \in Requests :
        /\ ~Idle(c) => Holds(c) \in Positions(Fed)
        /\ \A q \in Queries : request[c].read[q] # 0 =>
             LET u == pubs[Fed][Holds(c)].uses[q]
             IN  u \in Positions(q) /\ pubs[q][u].versions[q] = request[c].read[q]

TypedAfter == pubs' \in [Skills -> Seq(Publication)]

\* What a request has read stays so whatever becomes of the publications.
LEMMA KeptReads ==
    ASSUME TypeOK, ReadsArePublished, Kept, TypedAfter, NEW c \in Requests,
           ~Idle(c), request'[c].pub = request[c].pub
    PROVE  /\ request'[c].pub \in 1..Len(pubs'[Fed])
           /\ \A q \in Queries : request[c].read[q] # 0 =>
                LET u == pubs'[Fed][request'[c].pub].uses[q]
                IN  /\ u \in 1..Len(pubs'[q])
                    /\ pubs'[q][u].versions[q] = request[c].read[q]
<1>1. /\ Fed \in Skills /\ Queries \subseteq Skills
      /\ \A s \in Skills : Len(pubs[s]) \in Nat /\ Len(pubs'[s]) >= Len(pubs[s])
  BY ActiveTyped DEF Skills, Active, Kept
<1>2. Holds(c) \in Positions(Fed)
  BY DEF ReadsArePublished
<1>3. pubs'[Fed][Holds(c)].uses = pubs[Fed][Holds(c)].uses
  BY <1>1, <1>2 DEF Kept
<1>4. ASSUME NEW q \in Queries, request[c].read[q] # 0,
             NEW u, u = pubs[Fed][Holds(c)].uses[q]
      PROVE  u \in Positions(q) /\ pubs'[q][u].versions[q] = request[c].read[q]
  <2>1. u \in Positions(q) /\ pubs[q][u].versions[q] = request[c].read[q]
    BY <1>4 DEF ReadsArePublished
  <2> QED BY <1>1, <2>1 DEF Kept
<1>5. /\ request'[c].pub \in 1..Len(pubs'[Fed])
      /\ pubs'[Fed][request'[c].pub].uses = pubs[Fed][Holds(c)].uses
  <2>1. request'[c].pub = Holds(c)
    BY DEF Holds
  <2>2. Holds(c) \in 1..Len(pubs'[Fed])
    <3>1. Len(pubs'[Fed]) \in Nat
      BY <1>1, LenProperties DEF TypedAfter
    <3> QED BY <1>1, <1>2, <3>1 DEF Positions
  <2> QED BY <1>3, <2>1, <2>2
<1>6. ASSUME NEW q \in Queries, request[c].read[q] # 0,
             NEW u, u = pubs'[Fed][request'[c].pub].uses[q]
      PROVE  u \in 1..Len(pubs'[q]) /\ pubs'[q][u].versions[q] = request[c].read[q]
  <2>1. u \in Positions(q) /\ pubs'[q][u].versions[q] = request[c].read[q]
    BY <1>4, <1>5, <1>6
  <2>2. Len(pubs'[q]) \in Nat
    BY <1>1, LenProperties DEF TypedAfter
  <2> QED BY <1>1, <2>1, <2>2 DEF Positions
<1> QED BY <1>5, <1>6

\* Every step keeps the reads published.
LEMMA ReadsStep ==
    ASSUME TypeOK, ReadsArePublished, [Next]_vars
    PROVE  ReadsArePublished'
<1>1. Kept /\ TypedAfter
  BY StepKeeps DEF TypedAfter
<1> DEFINE Held(c) ==
             /\ request'[c] # NoRequest => request'[c].pub \in 1..Len(pubs'[Fed])
             /\ \A q \in Queries : request'[c].read[q] # 0 =>
                  LET u == pubs'[Fed][request'[c].pub].uses[q]
                  IN  /\ u \in 1..Len(pubs'[q])
                      /\ pubs'[q][u].versions[q] = request'[c].read[q]
<1>2. ASSUME NEW c \in Requests, request'[c] = NoRequest PROVE Held(c)
  BY <1>2 DEF NoRequest, Nothing
<1>3. ASSUME NEW c \in Requests, ~Idle(c), request'[c].pub = request[c].pub,
             request'[c].read = request[c].read
      PROVE  Held(c)
  BY <1>1, <1>3, KeptReads
<1>4. ASSUME NEW c \in Requests, request'[c] = request[c] PROVE Held(c)
  BY <1>2, <1>3, <1>4 DEF Idle
<1>5. ASSUME NEW c \in Requests, Start(c) PROVE \A d \in Requests : Held(d)
  <2>1. /\ UNCHANGED pubs
        /\ Len(pubs[Fed]) > 0 /\ Len(pubs[Fed]) \in Nat
    BY <1>5, ActiveTyped DEF Start, Consumer, skills, Active, Skills
  <2>2. /\ request'[c].pub = Len(pubs[Fed])
        /\ request'[c].read = Nothing
    BY <1>5 DEF Start, Idle, NoRequest, TypeOK, Active
  <2>3. Held(c)
    BY <2>1, <2>2 DEF Nothing
  <2>4. \A d \in Requests : d # c => request'[d] = request[d]
    BY <1>5 DEF Start, TypeOK
  <2> QED BY <1>4, <2>3, <2>4
<1>6. ASSUME NEW c \in Requests, NEW q \in Queries, Send(c, q)
      PROVE  \A d \in Requests : Held(d)
  <2>1. request'[c] = [request[c] EXCEPT !.reading = q, !.version = source[q].version]
    BY <1>6 DEF Send, TypeOK
  <2>2. request'[c].pub = request[c].pub /\ request'[c].read = request[c].read
    BY <2>1 DEF TypeOK
  <2>3. \A d \in Requests : d # c => request'[d] = request[d]
    BY <1>6 DEF Send, TypeOK
  <2>4. ~Idle(c)
    BY <1>6 DEF Send
  <2>5. Held(c)
    BY <1>3, <2>2, <2>4
  <2> QED BY <1>4, <2>3, <2>5
<1>7. ASSUME NEW c \in Requests, Receive(c) PROVE \A d \in Requests : Held(d)
  <2> DEFINE q == request[c].reading
  <2>1. q \in Queries
    BY <1>7 DEF Receive, TypeOK
  <2>2. ~Idle(c)
    BY <1>7 DEF Receive, Idle, NoRequest
  <2>3. /\ request'[c].pub = request[c].pub
        /\ request'[c].read = [request[c].read EXCEPT ![q] = request[c].version]
    BY <1>7 DEF Receive, TypeOK
  <2>4. /\ request'[c].read[q] = request[c].version
        /\ \A p \in Queries : p # q => request'[c].read[p] = request[c].read[p]
    BY <2>1, <2>3 DEF TypeOK
  <2>5. /\ Usable(q) /\ source[q].version = request[c].version
        /\ pubs[Fed][Holds(c)].uses[q] = Active(q)
        /\ UNCHANGED pubs
    BY <1>7 DEF Receive, Consumer, skills
  <2> HIDE DEF q
  <2>6. Len(pubs[q]) \in Nat
    BY <2>1, ActiveTyped DEF Skills, Active
  <2>7. LET u == pubs'[Fed][request'[c].pub].uses[q]
        IN  u \in 1..Len(pubs'[q]) /\ pubs'[q][u].versions[q] = request'[c].read[q]
    <3>1. pubs'[Fed][request'[c].pub].uses[q] = Len(pubs[q])
      BY <2>3, <2>5 DEF Active, Holds
    <3>2. /\ Len(pubs[q]) > 0
          /\ pubs[q][Len(pubs[q])].versions[q] = request[c].version
      BY <2>5 DEF Usable, Published, Active
    <3>3. Len(pubs[q]) \in 1..Len(pubs'[q])
      BY <2>5, <2>6, <3>2
    <3> QED BY <2>4, <2>5, <3>1, <3>2, <3>3
  <2>8. /\ request'[c].pub \in 1..Len(pubs'[Fed])
        /\ \A p \in Queries : request[c].read[p] # 0 =>
             LET u == pubs'[Fed][request'[c].pub].uses[p]
             IN  /\ u \in 1..Len(pubs'[p])
                 /\ pubs'[p][u].versions[p] = request[c].read[p]
    BY <1>1, <2>2, <2>3, KeptReads
  <2>9. Held(c)
    <3>1. ASSUME NEW p \in Queries, request'[c].read[p] # 0, p # q
          PROVE  LET u == pubs'[Fed][request'[c].pub].uses[p]
                 IN  /\ u \in 1..Len(pubs'[p])
                     /\ pubs'[p][u].versions[p] = request'[c].read[p]
      BY <2>4, <2>8, <3>1
    <3> QED BY <2>7, <2>8, <3>1
  <2>10. \A d \in Requests : d # c => request'[d] = request[d]
    BY <1>7 DEF Receive, TypeOK
  <2> QED BY <1>4, <2>9, <2>10
<1>8. ASSUME NEW c \in Requests, Deliver(c) \/ GiveUp(c)
      PROVE  \A d \in Requests : Held(d)
  <2>1. /\ request'[c] = NoRequest
        /\ \A d \in Requests : d # c => request'[d] = request[d]
    BY <1>8 DEF Deliver, GiveUp, Ends, TypeOK
  <2> QED BY <1>2, <1>4, <2>1
<1>9. ASSUME UNCHANGED request PROVE \A d \in Requests : Held(d)
  BY <1>4, <1>9
<1>10. \A c \in Requests : Held(c)
  <2> HIDE DEF Held
  <2> QED
    BY <1>5, <1>6, <1>7, <1>8, <1>9
    DEF Next, vars, world, skills, Edit, EditCases, SetReviewDeadline, Preview,
        PreviewExpires, Publish, Suspend, ChangeSource, ChangePersona, Capture,
        Test, Report, Abort
<1> QED BY <1>10 DEF ReadsArePublished, Idle, Holds, Positions, NoRequest,
           Nothing

\* A federated result is combined only of reads that are current when it is
\* delivered: for any number of queries and of requests in flight.
THEOREM OnlyCurrentIsDelivered == Spec => FederationDelivers
<1>1. Init => ReadsArePublished
  <2> SUFFICES ASSUME Init, NEW c \in Requests
               PROVE  Idle(c) /\ \A q \in Queries : request[c].read[q] = 0
    BY DEF ReadsArePublished
  <2>1. request[c] = NoRequest
    BY DEF Init
  <2> QED BY <2>1 DEF Idle, NoRequest, Nothing
<1>2. TypeOK /\ ReadsArePublished /\ [Next]_vars => ReadsArePublished'
  BY ReadsStep
<1>3. TypeOK /\ ReadsArePublished /\ [Next]_vars =>
        [\A c \in Requests :
           (\A q \in Queries : request[c].read[q] # 0) /\ Deliver(c) =>
               \A q \in Queries :
                   /\ request[c].read[q] = source[q].version
                   /\ source[q].active /\ ~Published(q).suspended
                   /\ pubs[Fed][Holds(c)].uses[q] = Active(q)]_vars
  <2> SUFFICES ASSUME TypeOK, ReadsArePublished, NEW c \in Requests,
                      \A q \in Queries : request[c].read[q] # 0, Deliver(c),
                      NEW q \in Queries
               PROVE  /\ request[c].read[q] = source[q].version
                      /\ source[q].active /\ ~Published(q).suspended
                      /\ pubs[Fed][Holds(c)].uses[q] = Active(q)
    OBVIOUS
  <2>1. Usable(q) /\ pubs[Fed][Holds(c)].uses[q] = Active(q)
    BY DEF Deliver, Visible
  <2>2. pubs[q][Active(q)].versions[q] = request[c].read[q]
    BY <2>1 DEF ReadsArePublished
  <2> QED BY <2>1, <2>2 DEF Usable, Published
<1> QED BY <1>1, <1>2, <1>3, CatalogTypes, PTL DEF Spec, FederationDelivers

-----------------------------------------------------------------------------
(***************************************************************************)
(* SharedKnowledge.  A form that shows what stands has seen no change      *)
(* (SteadyShown), because whatever changes, a number that the form carries *)
(* grows; an example that is no candidate was written by a member          *)
(* (ApprovedStands), because a proposal brings candidates only; and an     *)
(* item that has an author is what its author proposed (AuthorStands).     *)
(***************************************************************************)

Definitions == {Absent} \cup UNION {Definition(i) : i \in Items}

SharedPublication == [content : Contents, suspended : BOOLEAN]

\* A form shows nothing of what is still to come, and one that shows what
\* stands has seen no change since.
SteadyShown ==
    \A f \in Forms : forms[f] # Absent =>
        /\ forms[f].revision <= revision
        /\ forms[f].version <= version
        /\ forms[f].before <= Len(published)
        /\ forms[f].revision = revision /\ forms[f].version = version
              /\ forms[f].before = Len(published)
           => f \in steady

\* An example of the draft that is no candidate is one that a member wrote.
ApprovedStands ==
    \A i \in Examples :
        content[i] # Absent /\ ~content[i].candidate => i \in approved

\* An item that a proposal wrote is what it proposed.
AuthorStands ==
    \A i \in Items : author[i] # Absent =>
        /\ proposals[author[i]] # Absent
        /\ proposals[author[i]].item = i
        /\ content[i] = Proposed(author[i])

KnowledgeInv ==
    /\ KnowledgeTypeOK /\ Len(published) <= MaxPublished
    /\ SteadyShown /\ ApprovedStands /\ AuthorStands

-----------------------------------------------------------------------------
(* Shared knowledge: the types                                              *)

LEMMA ContentTyped ==
    ASSUME NEW c
    PROVE  c \in Contents
             <=> /\ c \in [Items -> Definitions]
                 /\ \A i \in Items : c[i] = Absent \/ c[i] \in Definition(i)
BY DEF Contents, Definitions

LEMMA DefinitionTyped ==
    ASSUME NEW i \in Items, NEW d \in Definition(i)
    PROVE  d \in Definitions
BY DEF Definitions

LEMMA ProposedTyped ==
    ASSUME KnowledgeTypeOK, NEW p \in Proposals, proposals[p] # Absent
    PROVE  /\ proposals[p] \in ProposalType /\ proposals[p].item \in Items
           /\ Proposed(p) \in Definition(proposals[p].item)
           /\ proposals[p].item \in Examples => Proposed(p).candidate = TRUE
<1>1. proposals[p] \in ProposalType
  BY DEF KnowledgeTypeOK
<1>2. proposals[p].item \in Items /\ proposals[p].value \in Values
  BY <1>1 DEF ProposalType
<1>3. CASE proposals[p].item \in Examples
  <2>1. Proposed(p) = [value |-> proposals[p].value, candidate |-> TRUE]
    BY <1>3 DEF Proposed
  <2> QED BY <1>1, <1>2, <1>3, <2>1 DEF Definition
<1>4. CASE proposals[p].item \notin Examples
  <2>1. Proposed(p) = [value |-> proposals[p].value, candidate |-> FALSE]
    <3>1. (proposals[p].item \in Examples) = FALSE
      BY <1>4
    <3> QED BY <3>1, Zenon DEF Proposed
  <2> QED BY <1>1, <1>2, <1>4, <2>1 DEF Definition
<1> QED BY <1>3, <1>4

\* The draft with a proposal in it: the item is what is proposed, the others
\* are what they were.
LEMMA AppliedIs ==
    ASSUME KnowledgeTypeOK, NEW p \in Proposals, proposals[p] # Absent
    PROVE  /\ Applied(p) \in Contents
           /\ Applied(p)[proposals[p].item] = Proposed(p)
           /\ \A i \in Items \ {proposals[p].item} : Applied(p)[i] = content[i]
<1> DEFINE item == proposals[p].item
<1>1. item \in Items /\ Proposed(p) \in Definition(item)
  BY ProposedTyped
<1>2. Proposed(p) \in Definitions
  BY <1>1, DefinitionTyped
<1>3. /\ content \in [Items -> Definitions]
      /\ \A i \in Items : content[i] = Absent \/ content[i] \in Definition(i)
  BY ContentTyped DEF KnowledgeTypeOK
<1> HIDE DEF item
<1>4. Applied(p) = [content EXCEPT ![item] = Proposed(p)]
  BY DEF Applied, item
<1>5. /\ Applied(p)[item] = Proposed(p)
      /\ \A i \in Items \ {item} : Applied(p)[i] = content[i]
  BY <1>1, <1>3, <1>4
<1>6. Applied(p) \in [Items -> Definitions]
  BY <1>1, <1>2, <1>3, <1>4
<1>7. \A i \in Items : Applied(p)[i] = Absent \/ Applied(p)[i] \in Definition(i)
  BY <1>1, <1>3, <1>5
<1> QED BY <1>5, <1>6, <1>7, ContentTyped DEF item

LEMMA FormTyped ==
    ASSUME KnowledgeTypeOK, Len(published) <= MaxPublished,
           NEW k \in {"edit", "publish", "incorporate"}, NEW o \in Owners,
           NEW c \in Contents, NEW p \in Proposals \cup {Absent}
    PROVE  Form(k, o, c, p) \in FormType
<1>1. Len(published) \in 0..MaxPublished
  BY LenProperties, OwnersAssumption, KnowledgeBounds, AbsentAssumption
     DEF KnowledgeTypeOK
<1> QED BY <1>1, OwnersAssumption, KnowledgeBounds, AbsentAssumption DEF Form,
           FormType, KnowledgeTypeOK

LEMMA KnowledgeBegins == KnowledgeInit => KnowledgeInv
<1> SUFFICES ASSUME KnowledgeInit PROVE KnowledgeInv
  OBVIOUS
<1>1. content \in Contents
  BY ContentTyped DEF KnowledgeInit, Definitions
<1>2. published = <<>> /\ Len(published) = 0
     /\ published \in Seq([content : Contents, suspended : BOOLEAN])
  BY EmptySeq DEF KnowledgeInit
<1>3. KnowledgeTypeOK
  BY <1>1, <1>2, OwnersAssumption, KnowledgeBounds, AbsentAssumption
     DEF KnowledgeInit, KnowledgeTypeOK, Roles
<1>4. SteadyShown
  BY DEF KnowledgeInit, SteadyShown
<1>5. ApprovedStands
  BY DEF KnowledgeInit, ApprovedStands, Items
<1>6. AuthorStands
  BY DEF KnowledgeInit, AuthorStands
<1> QED
  BY <1>2, <1>3, <1>4, <1>5, <1>6, OwnersAssumption, KnowledgeBounds,
     AbsentAssumption DEF KnowledgeInv

-----------------------------------------------------------------------------
(* Shared knowledge: what a step keeps                                      *)

LEMMA Numbers ==
    ASSUME KnowledgeTypeOK
    PROVE  /\ revision \in Nat /\ version \in Nat /\ Len(published) \in Nat
           /\ \A f \in Forms : forms[f] # Absent =>
                /\ forms[f] \in FormType
                /\ forms[f].revision \in Nat /\ forms[f].version \in Nat
                /\ forms[f].before \in Nat
<1>1. revision \in Nat /\ version \in Nat /\ Len(published) \in Nat
  BY LenProperties DEF KnowledgeTypeOK
<1>2. ASSUME NEW f \in Forms, forms[f] # Absent
      PROVE  /\ forms[f] \in FormType
             /\ forms[f].revision \in Nat /\ forms[f].version \in Nat
             /\ forms[f].before \in Nat
  <2>1. forms[f] \in FormType
    BY <1>2 DEF KnowledgeTypeOK
  <2>2. /\ forms[f].revision \in 1..MaxRevision /\ forms[f].version \in 1..MaxVersion
        /\ forms[f].before \in 0..MaxPublished
    BY <2>1 DEF FormType
  <2> QED BY <2>1, <2>2
<1> QED BY <1>1, <1>2

\* Forms are only used up, while nothing they show changes.
LEMMA SteadyWithin ==
    ASSUME KnowledgeTypeOK, SteadyShown,
           UNCHANGED <<revision, version>>, Len(published') = Len(published),
           \A f \in Forms : forms'[f] = forms[f] \/ forms'[f] = Absent,
           \A f \in steady : f \in steady' \/ forms'[f] = Absent
    PROVE  SteadyShown'
BY DEF SteadyShown

\* Or while something does, and no form is of what stands then.
LEMMA SteadyAfter ==
    ASSUME KnowledgeTypeOK, SteadyShown,
           revision' \in Nat, version' \in Nat, Len(published') \in Nat,
           revision <= revision', version <= version',
           Len(published) <= Len(published'),
           \/ revision < revision' \/ version < version'
           \/ Len(published) < Len(published'),
           \A f \in Forms : forms'[f] = forms[f] \/ forms'[f] = Absent
    PROVE  SteadyShown'
<1> SUFFICES ASSUME NEW f \in Forms, forms'[f] # Absent
             PROVE  /\ forms'[f].revision <= revision'
                    /\ forms'[f].version <= version'
                    /\ forms'[f].before <= Len(published')
                    /\ ~(/\ forms'[f].revision = revision'
                         /\ forms'[f].version = version'
                         /\ forms'[f].before = Len(published'))
  BY DEF SteadyShown
<1>1. forms'[f] = forms[f] /\ forms[f] # Absent
  OBVIOUS
<1>2. /\ forms[f].revision <= revision /\ forms[f].version <= version
      /\ forms[f].before <= Len(published)
  BY <1>1 DEF SteadyShown
<1>3. /\ revision \in Nat /\ version \in Nat /\ Len(published) \in Nat
      /\ forms[f].revision \in Nat /\ forms[f].version \in Nat
      /\ forms[f].before \in Nat
  BY <1>1, Numbers
<1>4. /\ forms[f].revision <= revision' /\ forms[f].version <= version'
      /\ forms[f].before <= Len(published')
  <2>1. \A a, b, c \in Nat : a <= b /\ b <= c => a <= c
    OBVIOUS
  <2>2. forms[f].revision <= revision'
    BY <1>2, <1>3, <2>1
  <2>3. forms[f].version <= version'
    BY <1>2, <1>3, <2>1
  <2>4. forms[f].before <= Len(published')
    BY <1>2, <1>3, <2>1
  <2> QED BY <2>2, <2>3, <2>4
<1>5. CASE revision < revision'
  BY <1>1, <1>2, <1>3, <1>4, <1>5
<1>6. CASE version < version'
  BY <1>1, <1>2, <1>3, <1>4, <1>6
<1>7. CASE Len(published) < Len(published')
  BY <1>1, <1>2, <1>3, <1>4, <1>7
<1> QED BY <1>5, <1>6, <1>7

\* A proposal keeps its item and value.
LEMMA AuthorWithin ==
    ASSUME AuthorStands, KnowledgeTypeOK, UNCHANGED <<content, author>>,
           \A p \in Proposals : proposals[p] # Absent =>
               /\ proposals'[p] # Absent
               /\ proposals'[p].item = proposals[p].item
               /\ proposals'[p].value = proposals[p].value
    PROVE  AuthorStands'
<1> SUFFICES ASSUME NEW i \in Items, author[i] # Absent
             PROVE  /\ proposals'[author[i]] # Absent
                    /\ proposals'[author[i]].item = i
                    /\ content[i] = Proposed(author[i])'
  BY DEF AuthorStands
<1>1. author[i] \in Proposals
  BY DEF KnowledgeTypeOK
<1>2. /\ proposals[author[i]] # Absent /\ proposals[author[i]].item = i
      /\ content[i] = Proposed(author[i])
  BY DEF AuthorStands
<1> QED BY <1>1, <1>2 DEF Proposed

\* Deciding a proposal changes its state.
LEMMA DecideIs ==
    ASSUME KnowledgeTypeOK,
           NEW p \in Proposals, proposals[p] # Absent,
           NEW verdict \in {"incorporated", "rejected"}, Decide(p, verdict)
    PROVE  /\ proposals' \in [Proposals -> ProposalType \cup {Absent}]
           /\ \A q \in Proposals : proposals[q] # Absent =>
                /\ proposals'[q] # Absent
                /\ proposals'[q].item = proposals[q].item
                /\ proposals'[q].value = proposals[q].value
<1> DEFINE new == [proposals[p] EXCEPT !.state = verdict]
<1>1. proposals[p] \in ProposalType
  BY ProposedTyped
<1>2. new \in ProposalType
  BY <1>1 DEF ProposalType
<1>3. new.item = proposals[p].item /\ new.value = proposals[p].value
  BY <1>1 DEF ProposalType
<1>4. proposals' = [proposals EXCEPT ![p] = new]
  BY DEF Decide
<1>5. new # Absent
  BY <1>2, OwnersAssumption, KnowledgeBounds, AbsentAssumption
<1> HIDE DEF new
<1> QED BY <1>2, <1>3, <1>4, <1>5 DEF KnowledgeTypeOK

LEMMA FormsLeft ==
    ASSUME KnowledgeTypeOK, NEW f \in Forms, UsedUp(f)
    PROVE  /\ forms' \in [Forms -> FormType \cup {Absent}]
           /\ \A g \in Forms : forms'[g] = IF g = f THEN Absent ELSE forms[g]
BY DEF KnowledgeTypeOK, UsedUp

\* Writing the draft uses up every form that showed it.
LEMMA SaveDraftIs ==
    ASSUME KnowledgeInv, NEW c \in Contents, SaveDraft(c),
           NEW f \in Forms, UsedUp(f), UNCHANGED <<version, published>>
    PROVE  /\ revision' \in 1..MaxRevision /\ content' \in Contents
           /\ steady' = {} /\ SteadyShown'
           /\ forms' \in [Forms -> FormType \cup {Absent}]
<1>1. /\ KnowledgeTypeOK /\ SteadyShown
  BY DEF KnowledgeInv
<1>2. revision \in Nat /\ version \in Nat /\ Len(published) \in Nat
  BY <1>1, Numbers
<1>3. /\ revision < MaxRevision /\ revision' = revision + 1
      /\ content' = c /\ steady' = {}
  BY DEF SaveDraft
<1>4. revision' \in 1..MaxRevision
  BY <1>1, <1>3, OwnersAssumption, KnowledgeBounds, AbsentAssumption
     DEF KnowledgeTypeOK
<1>5. /\ forms' \in [Forms -> FormType \cup {Absent}]
      /\ \A g \in Forms : forms'[g] = forms[g] \/ forms'[g] = Absent
  BY <1>1, FormsLeft
<1>6. SteadyShown'
  BY <1>1, <1>2, <1>3, <1>5, SteadyAfter
<1> QED BY <1>3, <1>4, <1>5, <1>6

-----------------------------------------------------------------------------
(* Shared knowledge: one lemma for each kind of step                        *)

LEMMA ShowKeeps ==
    ASSUME KnowledgeInv, NEW f \in Forms,
           NEW k \in {"edit", "publish", "incorporate"}, NEW o \in Owners,
           NEW c \in Contents, NEW p \in Proposals \cup {Absent},
           Show(f, Form(k, o, c, p)),
           UNCHANGED <<role, version, sharedDraft, published, proposals,
                          approved, author>>
    PROVE  KnowledgeInv'
<1> DEFINE shown == Form(k, o, c, p)
<1>1. KnowledgeTypeOK /\ SteadyShown /\ Len(published) <= MaxPublished
  BY DEF KnowledgeInv
<1>2. shown \in FormType
  BY <1>1, FormTyped
<1>3. /\ shown.revision = revision /\ shown.version = version
      /\ shown.before = Len(published)
  BY DEF Form
<1>4. forms' = [forms EXCEPT ![f] = shown] /\ steady' = steady \cup {f}
  BY DEF Show
<1> HIDE DEF shown
<1>5. KnowledgeTypeOK'
  <2>1. forms' \in [Forms -> FormType \cup {Absent}]
    BY <1>1, <1>2, <1>4 DEF KnowledgeTypeOK
  <2>2. steady' \subseteq Forms
    BY <1>1, <1>4 DEF KnowledgeTypeOK
  <2> QED BY <1>1, <2>1, <2>2 DEF KnowledgeTypeOK, sharedDraft
<1>6. SteadyShown'
  <2> SUFFICES ASSUME NEW g \in Forms, forms'[g] # Absent
               PROVE  /\ forms'[g].revision <= revision
                      /\ forms'[g].version <= version
                      /\ forms'[g].before <= Len(published)
                      /\ forms'[g].revision = revision /\ forms'[g].version = version
                           /\ forms'[g].before = Len(published)
                         => g \in steady'
    BY DEF SteadyShown, sharedDraft
  <2>1. CASE g = f
    <3>1. forms'[g] = shown
      BY <1>1, <1>4, <2>1 DEF KnowledgeTypeOK
    <3>2. revision \in Nat /\ version \in Nat /\ Len(published) \in Nat
      BY <1>1, Numbers
    <3> QED BY <1>3, <1>4, <2>1, <3>1, <3>2
  <2>2. CASE g # f
    <3>1. forms'[g] = forms[g]
      BY <1>1, <1>4, <2>2 DEF KnowledgeTypeOK
    <3> QED BY <1>1, <1>4, <3>1 DEF SteadyShown
  <2> QED BY <2>1, <2>2
<1>7. ApprovedStands'
  BY DEF KnowledgeInv, ApprovedStands, sharedDraft
<1>8. AuthorStands'
  BY DEF KnowledgeInv, AuthorStands, Proposed, sharedDraft
<1> QED BY <1>1, <1>5, <1>6, <1>7, <1>8 DEF KnowledgeInv

LEMMA SetMemberKeeps ==
    ASSUME KnowledgeInv, NEW o \in Owners, NEW who \in Owners,
           NEW what \in Roles \cup {"none"}, SetMember(o, who, what)
    PROVE  KnowledgeInv'
<1>1. KnowledgeTypeOK /\ SteadyShown /\ Len(published) <= MaxPublished
  BY DEF KnowledgeInv
<1>2. /\ version' = version + 1 /\ version < MaxVersion /\ steady' = {}
      /\ role' = [role EXCEPT ![who] = what]
      /\ UNCHANGED <<content, revision, published, proposals, forms>>
      /\ UNCHANGED <<approved, author>>
  BY DEF SetMember, sharedDraft
<1>3. revision \in Nat /\ version \in Nat /\ Len(published) \in Nat
  BY <1>1, Numbers
<1>4. KnowledgeTypeOK'
  <2>1. role' \in [Owners -> Roles \cup {"none"}] /\ version' \in 1..MaxVersion
    BY <1>1, <1>2, OwnersAssumption, KnowledgeBounds, AbsentAssumption
       DEF KnowledgeTypeOK
  <2> QED BY <1>1, <1>2, <2>1 DEF KnowledgeTypeOK
<1>5. SteadyShown'
  BY <1>1, <1>2, <1>3, SteadyAfter
<1>6. ApprovedStands' /\ AuthorStands'
  BY <1>2 DEF KnowledgeInv, ApprovedStands, AuthorStands, Proposed
<1> QED BY <1>1, <1>2, <1>4, <1>5, <1>6 DEF KnowledgeInv

LEMMA UpdateKeeps ==
    ASSUME KnowledgeInv, NEW f \in Forms, NEW o \in Owners,
           NEW c \in Contents, Update(f, o, c)
    PROVE  KnowledgeInv'
<1>1. KnowledgeTypeOK /\ SteadyShown /\ Len(published) <= MaxPublished /\ AuthorStands
  BY DEF KnowledgeInv
<1>2. /\ SaveDraft(c) /\ UsedUp(f) /\ UNCHANGED <<version, published>>
      /\ approved' = {i \in Examples \ Candidates(c) : c[i] # Absent}
      /\ author' =
           [i \in Items |-> IF c[i] = content[i] THEN author[i] ELSE Absent]
      /\ UNCHANGED <<role, proposals>>
  BY DEF Update
<1>3. /\ revision' \in 1..MaxRevision /\ content' \in Contents
      /\ steady' = {} /\ SteadyShown'
      /\ forms' \in [Forms -> FormType \cup {Absent}]
  BY <1>2, SaveDraftIs
<1>4. content' = c
  BY <1>2 DEF SaveDraft
<1>5. KnowledgeTypeOK'
  <2>1. author' \in [Items -> Proposals \cup {Absent}]
    BY <1>1, <1>2 DEF KnowledgeTypeOK
  <2>2. approved' \subseteq Examples
    BY <1>2
  <2> QED BY <1>1, <1>2, <1>3, <2>1, <2>2 DEF KnowledgeTypeOK
<1>6. ApprovedStands'
  BY <1>2, <1>4 DEF ApprovedStands, Candidates
<1>7. AuthorStands'
  <2> SUFFICES ASSUME NEW i \in Items, author'[i] # Absent
               PROVE  /\ proposals[author'[i]] # Absent
                      /\ proposals[author'[i]].item = i
                      /\ c[i] = Proposed(author'[i])
    BY <1>2, <1>4 DEF AuthorStands, Proposed
  <2>1. c[i] = content[i] /\ author'[i] = author[i]
    BY <1>2
  <2> QED BY <1>1, <2>1 DEF AuthorStands
<1> QED BY <1>1, <1>2, <1>3, <1>5, <1>6, <1>7 DEF KnowledgeInv

LEMMA PublishKeeps ==
    ASSUME KnowledgeInv, NEW f \in Forms, NEW o \in Owners,
           PublishPattern(f, o)
    PROVE  KnowledgeInv'
<1> DEFINE pub == [content |-> content, suspended |-> FALSE]
<1>1. KnowledgeTypeOK /\ SteadyShown /\ Len(published) <= MaxPublished
  BY DEF KnowledgeInv
<1>2. /\ published' = Append(published, pub) /\ Len(published) < MaxPublished
      /\ UsedUp(f) /\ steady' = {}
      /\ UNCHANGED <<role, version, content, revision, proposals, approved, author>>
  BY DEF PublishPattern, sharedDraft
<1>3. published \in Seq(SharedPublication) /\ pub \in SharedPublication
  BY <1>1 DEF KnowledgeTypeOK, SharedPublication
<1>4. published' \in Seq(SharedPublication) /\ Len(published') = Len(published) + 1
  BY <1>2, <1>3, AppendProperties
<1>5. revision \in Nat /\ version \in Nat /\ Len(published) \in Nat
  BY <1>1, Numbers
<1>6. /\ forms' \in [Forms -> FormType \cup {Absent}]
      /\ \A g \in Forms : forms'[g] = forms[g] \/ forms'[g] = Absent
  BY <1>1, <1>2, FormsLeft
<1>7. KnowledgeTypeOK'
  BY <1>1, <1>2, <1>4, <1>6 DEF KnowledgeTypeOK, SharedPublication
<1>8. SteadyShown'
  BY <1>1, <1>2, <1>4, <1>5, <1>6, SteadyAfter
<1>9. ApprovedStands' /\ AuthorStands'
  BY <1>2 DEF KnowledgeInv, ApprovedStands, AuthorStands, Proposed
<1>10. Len(published') <= MaxPublished
  BY <1>2, <1>4, <1>5, OwnersAssumption, KnowledgeBounds, AbsentAssumption
<1> QED BY <1>7, <1>8, <1>9, <1>10 DEF KnowledgeInv

LEMMA SuspendKeeps ==
    ASSUME KnowledgeInv, NEW o \in Owners, NEW n \in DOMAIN published,
           SuspendPattern(o, n)
    PROVE  KnowledgeInv' /\ UNCHANGED forms
<1> DEFINE pub == [published[n] EXCEPT !.suspended = TRUE]
<1>1. KnowledgeTypeOK /\ SteadyShown /\ Len(published) <= MaxPublished
  BY DEF KnowledgeInv
<1>2. /\ published' = [published EXCEPT ![n] = pub]
      /\ UNCHANGED <<role, version, content, revision, proposals, forms, steady,
                     approved, author>>
  BY DEF SuspendPattern, sharedDraft, history
<1>3. published \in Seq(SharedPublication)
  BY <1>1 DEF KnowledgeTypeOK, SharedPublication
<1>4. n \in 1..Len(published)
  BY <1>3, LenProperties
<1>5. pub \in SharedPublication
  <2>1. published[n] \in SharedPublication
    BY <1>3, <1>4, ElementOfSeq
  <2> QED BY <2>1 DEF SharedPublication
<1> HIDE DEF pub
<1>6. published' \in Seq(SharedPublication) /\ Len(published') = Len(published)
  BY <1>2, <1>3, <1>4, <1>5, ExceptSeq
<1>7. KnowledgeTypeOK'
  BY <1>1, <1>2, <1>6 DEF KnowledgeTypeOK, SharedPublication
<1>8. SteadyShown'
  BY <1>1, <1>2, <1>6, SteadyWithin
<1>9. ApprovedStands' /\ AuthorStands'
  BY <1>2 DEF KnowledgeInv, ApprovedStands, AuthorStands, Proposed
<1> QED BY <1>1, <1>2, <1>6, <1>7, <1>8, <1>9 DEF KnowledgeInv

LEMMA ProposeKeeps ==
    ASSUME KnowledgeInv,
           NEW p \in Proposals, NEW o \in Owners, NEW i \in Items,
           NEW v \in Values, NEW n \in DOMAIN published,
           Propose(p, o, i, v, n)
    PROVE  KnowledgeInv'
<1> DEFINE new == [item |-> i, value |-> v, base |-> n, state |-> "pending"]
<1>1. KnowledgeTypeOK /\ SteadyShown /\ Len(published) <= MaxPublished /\ AuthorStands
  BY DEF KnowledgeInv
<1>2. /\ proposals[p] = Absent /\ proposals' = [proposals EXCEPT ![p] = new]
      /\ UNCHANGED <<role, version, content, revision, published, forms, steady,
                     approved, author>>
  BY DEF Propose, sharedDraft, history
<1>3. n \in 1..MaxPublished
  <2>1. n \in 1..Len(published) /\ Len(published) \in Nat
    BY <1>1, LenProperties DEF KnowledgeTypeOK
  <2> QED BY <1>1, <2>1, OwnersAssumption, KnowledgeBounds, AbsentAssumption
<1>4. new \in ProposalType
  BY <1>3 DEF ProposalType
<1> HIDE DEF new
<1>5. /\ proposals' \in [Proposals -> ProposalType \cup {Absent}]
      /\ \A q \in Proposals : proposals[q] # Absent => proposals'[q] = proposals[q]
  BY <1>1, <1>2, <1>4 DEF KnowledgeTypeOK
<1>6. KnowledgeTypeOK'
  BY <1>1, <1>2, <1>5 DEF KnowledgeTypeOK
<1>7. SteadyShown' /\ ApprovedStands'
  BY <1>2 DEF KnowledgeInv, SteadyShown, ApprovedStands
<1>8. AuthorStands'
  BY <1>1, <1>2, <1>5, AuthorWithin
<1> QED BY <1>1, <1>2, <1>6, <1>7, <1>8 DEF KnowledgeInv

LEMMA IncorporateKeeps ==
    ASSUME KnowledgeInv, NEW f \in Forms, NEW o \in Owners,
           NEW p \in Proposals, Incorporate(f, o, p)
    PROVE  KnowledgeInv'
<1> DEFINE item == proposals[p].item
<1>1. KnowledgeTypeOK /\ SteadyShown /\ ApprovedStands /\ AuthorStands
      /\ Len(published) <= MaxPublished
  BY DEF KnowledgeInv
<1>2. /\ proposals[p] # Absent /\ SaveDraft(Applied(p)) /\ UsedUp(f)
      /\ Decide(p, "incorporated") /\ author' = [author EXCEPT ![item] = p]
      /\ approved' = approved \ {item} /\ UNCHANGED <<role, version, published>>
  BY DEF Incorporate, Incorporable
<1>3. /\ Applied(p) \in Contents /\ Applied(p)[item] = Proposed(p)
      /\ \A i \in Items \ {item} : Applied(p)[i] = content[i]
  BY <1>1, <1>2, AppliedIs
<1>4. /\ revision' \in 1..MaxRevision /\ content' \in Contents
      /\ steady' = {} /\ SteadyShown'
      /\ forms' \in [Forms -> FormType \cup {Absent}]
  BY <1>2, <1>3, SaveDraftIs
<1>5. content' = Applied(p)
  BY <1>2 DEF SaveDraft
<1>6. /\ proposals' \in [Proposals -> ProposalType \cup {Absent}]
      /\ \A q \in Proposals : proposals[q] # Absent =>
           /\ proposals'[q] # Absent
           /\ proposals'[q].item = proposals[q].item
           /\ proposals'[q].value = proposals[q].value
  BY <1>1, <1>2, DecideIs
<1>7. item \in Items
  BY <1>1, <1>2, ProposedTyped
<1>8. KnowledgeTypeOK'
  <2>1. author' \in [Items -> Proposals \cup {Absent}]
    BY <1>1, <1>2, <1>7 DEF KnowledgeTypeOK
  <2>2. approved' \subseteq Examples
    BY <1>1, <1>2 DEF KnowledgeTypeOK
  <2> QED BY <1>1, <1>2, <1>4, <1>6, <2>1, <2>2 DEF KnowledgeTypeOK
<1>9. ApprovedStands'
  <2> SUFFICES ASSUME NEW i \in Examples, Applied(p)[i] # Absent,
                      ~Applied(p)[i].candidate
               PROVE  i \in approved \ {item}
    BY <1>2, <1>5 DEF ApprovedStands
  <2>1. i # item
    BY <1>1, <1>2, <1>3, ProposedTyped
  <2>2. i \in Items
    BY DEF Items
  <2> QED BY <1>1, <1>3, <2>1, <2>2 DEF ApprovedStands
<1>10. AuthorStands'
  <2> DEFINE written(q) ==
          [value |-> proposals'[q].value,
           candidate |-> proposals'[q].item \in Examples]
  <2> SUFFICES ASSUME NEW i \in Items, author'[i] # Absent
               PROVE  /\ proposals'[author'[i]] # Absent
                      /\ proposals'[author'[i]].item = i
                      /\ Applied(p)[i] = written(author'[i])
    BY <1>5 DEF AuthorStands, Proposed
  <2>1. ASSUME NEW q \in Proposals, proposals[q] # Absent
        PROVE  written(q) = Proposed(q)
    BY <1>6, <2>1 DEF Proposed
  <2> HIDE DEF written
  <2>2. CASE i = item
    <3>1. author'[i] = p
      BY <1>1, <1>2, <1>7, <2>2 DEF KnowledgeTypeOK
    <3> QED BY <1>2, <1>3, <1>6, <2>1, <2>2, <3>1
  <2>3. CASE i # item
    <3>1. author'[i] = author[i] /\ author[i] \in Proposals
      BY <1>1, <1>2, <1>7, <2>3 DEF KnowledgeTypeOK
    <3>2. /\ proposals[author[i]] # Absent /\ proposals[author[i]].item = i
          /\ content[i] = Proposed(author[i])
      BY <1>1, <3>1 DEF AuthorStands
    <3> QED BY <1>3, <1>6, <2>1, <2>3, <3>1, <3>2
  <2> QED BY <2>2, <2>3
<1> QED BY <1>1, <1>2, <1>4, <1>8, <1>9, <1>10 DEF KnowledgeInv

LEMMA RejectKeeps ==
    ASSUME KnowledgeInv, NEW o \in Owners, NEW p \in Proposals,
           Reject(o, p)
    PROVE  KnowledgeInv'
<1>1. KnowledgeTypeOK /\ SteadyShown /\ Len(published) <= MaxPublished /\ AuthorStands
  BY DEF KnowledgeInv
<1>2. /\ proposals[p] # Absent /\ Decide(p, "rejected")
      /\ UNCHANGED <<role, version, content, revision, published, forms, steady,
                     approved, author>>
  BY DEF Reject, sharedDraft, history
<1>3. /\ proposals' \in [Proposals -> ProposalType \cup {Absent}]
      /\ \A q \in Proposals : proposals[q] # Absent =>
           /\ proposals'[q] # Absent
           /\ proposals'[q].item = proposals[q].item
           /\ proposals'[q].value = proposals[q].value
  BY <1>1, <1>2, DecideIs
<1>4. KnowledgeTypeOK'
  BY <1>1, <1>2, <1>3 DEF KnowledgeTypeOK
<1>5. SteadyShown' /\ ApprovedStands'
  BY <1>2 DEF KnowledgeInv, SteadyShown, ApprovedStands
<1>6. AuthorStands'
  BY <1>1, <1>2, <1>3, AuthorWithin
<1> QED BY <1>1, <1>2, <1>4, <1>5, <1>6 DEF KnowledgeInv

LEMMA DiscardKeeps ==
    ASSUME KnowledgeInv, NEW f \in Forms, Discard(f)
    PROVE  KnowledgeInv'
<1>1. KnowledgeTypeOK /\ SteadyShown /\ Len(published) <= MaxPublished
  BY DEF KnowledgeInv
<1>2. /\ UsedUp(f) /\ steady' = steady \ {f}
      /\ UNCHANGED <<role, version, content, revision, published, proposals>>
      /\ UNCHANGED <<approved, author>>
  BY DEF Discard, sharedDraft
<1>3. /\ forms' \in [Forms -> FormType \cup {Absent}]
      /\ \A g \in Forms : forms'[g] = IF g = f THEN Absent ELSE forms[g]
  BY <1>1, <1>2, FormsLeft
<1>4. KnowledgeTypeOK'
  BY <1>1, <1>2, <1>3 DEF KnowledgeTypeOK
<1>5. SteadyShown'
  BY <1>1, <1>2, <1>3, SteadyWithin
<1>6. ApprovedStands' /\ AuthorStands'
  BY <1>2 DEF KnowledgeInv, ApprovedStands, AuthorStands, Proposed
<1> QED BY <1>1, <1>2, <1>4, <1>5, <1>6 DEF KnowledgeInv

LEMMA KnowledgeStep ==
    ASSUME KnowledgeInv, [KnowledgeNext]_knowledgeVars
    PROVE  KnowledgeInv'
<1>1. KnowledgeTypeOK
  BY DEF KnowledgeInv
<1>2. ASSUME NEW o \in Owners, Member(o)
      PROVE  KnowledgeInv'
  BY <1>2, SetMemberKeeps, SuspendKeeps, RejectKeeps, ProposeKeeps DEF Member
<1>3. ASSUME NEW f \in Forms, NEW o \in Owners, WithForm(f, o)
      PROVE  KnowledgeInv'
  <2>1. ASSUME Load(f, o) PROVE KnowledgeInv'
    <3>1. /\ content \in Contents
          /\ Show(f, Form("edit", o, content, Absent))
          /\ UNCHANGED <<role, version, sharedDraft, published, proposals,
                          approved, author>>
      BY <1>1, <2>1 DEF KnowledgeTypeOK, Load
    <3> QED BY <3>1, ShowKeeps
  <2>2. ASSUME PreviewPattern(f, o) PROVE KnowledgeInv'
    <3>1. /\ content \in Contents
          /\ Show(f, Form("publish", o, content, Absent))
          /\ UNCHANGED <<role, version, sharedDraft, published, proposals,
                          approved, author>>
      BY <1>1, <2>2 DEF KnowledgeTypeOK, PreviewPattern
    <3> QED BY <3>1, ShowKeeps
  <2>3. ASSUME NEW p \in Proposals, PreviewIncorporation(f, o, p)
        PROVE  KnowledgeInv'
    <3>1. /\ proposals[p] # Absent
          /\ Show(f, Form("incorporate", o, Applied(p), p))
          /\ UNCHANGED <<role, version, sharedDraft, published, proposals,
                          approved, author>>
      BY <2>3 DEF PreviewIncorporation, Incorporable
    <3>2. Applied(p) \in Contents
      BY <1>1, <3>1, AppliedIs
    <3> QED BY <3>1, <3>2, ShowKeeps
  <2> QED BY <1>3, <2>1, <2>2, <2>3, PublishKeeps, UpdateKeeps, IncorporateKeeps
          DEF WithForm
<1>4. CASE UNCHANGED knowledgeVars
  BY <1>4
  DEF knowledgeVars, sharedDraft, history, KnowledgeInv, KnowledgeTypeOK,
      SteadyShown, ApprovedStands, AuthorStands, Proposed
<1> QED BY <1>2, <1>3, <1>4, DiscardKeeps DEF KnowledgeNext

-----------------------------------------------------------------------------
(* Shared knowledge: the theorems                                           *)

LEMMA KnowledgeInvariant == KnowledgeSpec => []KnowledgeInv
<1>1. KnowledgeInit => KnowledgeInv
  BY KnowledgeBegins
<1>2. KnowledgeInv /\ [KnowledgeNext]_knowledgeVars => KnowledgeInv'
  BY KnowledgeStep
<1> QED BY <1>1, <1>2, PTL DEF KnowledgeSpec

\* The members, the draft, the publications, the proposals and the forms of
\* shared knowledge are always what TypeOK says.
THEOREM KnowledgeTypes == KnowledgeSpec => []KnowledgeTypeOK
<1>1. KnowledgeSpec => []KnowledgeInv
  BY KnowledgeInvariant
<1>2. KnowledgeInv => KnowledgeTypeOK
  BY DEF KnowledgeInv
<1> QED BY <1>1, <1>2, PTL

\* A step that uses a form up and changes the publications publishes with it.
LEMMA PublishesWith ==
    ASSUME KnowledgeTypeOK, [KnowledgeNext]_knowledgeVars,
           NEW f \in Forms, forms[f] # Absent,
           published' # published, forms'[f] = Absent
    PROVE  \E o \in Owners : PublishPattern(f, o)
<1>1. ASSUME NEW g \in Forms, NEW o \in Owners, PublishPattern(g, o)
      PROVE  g = f
  BY <1>1, FormsLeft DEF PublishPattern
<1>2. ASSUME NEW o \in Owners, NEW n \in DOMAIN published, SuspendPattern(o, n)
      PROVE  FALSE
  BY <1>2 DEF SuspendPattern
<1>3. ~UNCHANGED knowledgeVars
  BY DEF knowledgeVars
<1>4. ASSUME NEW o \in Owners, Member(o)
      PROVE  FALSE
  BY <1>2, <1>4 DEF Member, SetMember, Reject, Propose
<1>5. ASSUME NEW g \in Forms, NEW o \in Owners, WithForm(g, o)
      PROVE  PublishPattern(f, o)
  BY <1>1, <1>5 DEF WithForm, Load, PreviewPattern, Update,
     PreviewIncorporation, Incorporate
<1>6. ASSUME NEW g \in Forms, Discard(g)
      PROVE  FALSE
  BY <1>6 DEF Discard
<1> QED BY <1>3, <1>4, <1>5, <1>6 DEF KnowledgeNext

\* What is published is what a curator was shown, with no draft, publication
\* or member changed since, and no example in it is there by a proposal alone.
THEOREM OnlyReviewedIsPublished ==
    KnowledgeSpec => PublishedAsReviewed
<1>1. KnowledgeSpec => []KnowledgeInv
  BY KnowledgeInvariant
<1>2. KnowledgeInv /\ [KnowledgeNext]_knowledgeVars =>
        [\A f \in Forms :
            forms[f] # Absent /\ forms[f].kind = "publish" /\ published' # published
                  /\ forms'[f] = Absent =>
                /\ f \in steady
                /\ \A i \in Examples : content[i] # Absent => i \in approved]_knowledgeVars
  <2> SUFFICES ASSUME KnowledgeInv, [KnowledgeNext]_knowledgeVars,
                      NEW f \in Forms, forms[f] # Absent, published' # published, forms'[f] = Absent
               PROVE  /\ f \in steady
                      /\ \A i \in Examples : content[i] # Absent => i \in approved
    OBVIOUS
  <2>1. PICK o \in Owners : PublishPattern(f, o)
    BY PublishesWith DEF KnowledgeInv
  <2>2. f \in steady
    BY <2>1 DEF PublishPattern, Shown, ShownDraft, KnowledgeInv, SteadyShown
  <2>3. ASSUME NEW i \in Examples, content[i] # Absent
        PROVE  i \in approved
    BY <2>1, <2>3 DEF PublishPattern, Candidates, KnowledgeInv, ApprovedStands
  <2> QED BY <2>2, <2>3
<1> QED BY <1>1, <1>2, PTL DEF KnowledgeSpec, PublishedAsReviewed

\* Only an incorporation gives an item an author.
LEMMA IncorporatesIn ==
    ASSUME KnowledgeTypeOK, [KnowledgeNext]_knowledgeVars,
           NEW i \in Items, author'[i] # author[i], author'[i] # Absent
    PROVE  \E f \in Forms, o \in Owners :
             /\ Incorporate(f, o, author'[i]) /\ author'[i] \in Proposals
             /\ proposals[author'[i]].item = i
<1>1. ~UNCHANGED author
  OBVIOUS
<1>2. ASSUME NEW f \in Forms, NEW o \in Owners, NEW c \in Contents,
             Update(f, o, c)
      PROVE  FALSE
  BY <1>2 DEF Update
<1>3. ASSUME NEW f \in Forms, NEW o \in Owners, NEW p \in Proposals,
             Incorporate(f, o, p)
      PROVE  author'[i] = p /\ proposals[p].item = i
  <2>1. author' = [author EXCEPT ![proposals[p].item] = p]
    BY <1>3 DEF Incorporate
  <2> QED BY <2>1 DEF KnowledgeTypeOK
<1>4. ASSUME NEW o \in Owners, Member(o)
      PROVE  FALSE
  BY <1>1, <1>4 DEF Member, SetMember, SuspendPattern, Reject, Propose,
     history
<1>5. ASSUME NEW f \in Forms, NEW o \in Owners, WithForm(f, o)
      PROVE  \E p \in Proposals : Incorporate(f, o, p)
  BY <1>1, <1>2, <1>5 DEF WithForm, Load, PreviewPattern, PublishPattern,
     PreviewIncorporation
<1>6. ASSUME NEW f \in Forms, Discard(f)
      PROVE  FALSE
  BY <1>1, <1>6 DEF Discard
<1>7. ~UNCHANGED knowledgeVars
  BY DEF knowledgeVars, history
<1> QED BY <1>3, <1>4, <1>5, <1>6, <1>7 DEF KnowledgeNext

\* A proposal takes the place of another's value only if its own author saw
\* that value in the publication they proposed against.
THEOREM NoUnseenReplacement ==
    KnowledgeSpec => NothingOverwritten
<1>1. KnowledgeSpec => []KnowledgeInv
  BY KnowledgeInvariant
<1>2. KnowledgeInv /\ [KnowledgeNext]_knowledgeVars =>
        [\A i \in Items :
            author'[i] # author[i] /\ author[i] # Absent /\ author'[i] # Absent =>
                published[proposals[author'[i]].base].content[i]
                    = Proposed(author[i])]_knowledgeVars
  <2> SUFFICES ASSUME KnowledgeInv, [KnowledgeNext]_knowledgeVars, NEW i \in Items,
                      author'[i] # author[i], author[i] # Absent,
                      author'[i] # Absent
               PROVE  published[proposals[author'[i]].base].content[i]
                        = Proposed(author[i])
    OBVIOUS
  <2>1. PICK f \in Forms, o \in Owners :
          /\ Incorporate(f, o, author'[i]) /\ author'[i] \in Proposals
          /\ proposals[author'[i]].item = i
    BY IncorporatesIn DEF KnowledgeInv
  <2>2. content[i] = published[proposals[author'[i]].base].content[i]
    BY <2>1 DEF Incorporate, Incorporable, SameTarget
  <2>3. content[i] = Proposed(author[i])
    BY DEF KnowledgeInv, AuthorStands
  <2> QED BY <2>2, <2>3
<1> QED BY <1>1, <1>2, PTL DEF KnowledgeSpec, NothingOverwritten
=============================================================================
