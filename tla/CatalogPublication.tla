-------------------------- MODULE CatalogPublication --------------------------
(***************************************************************************)
(* How a persona's drafts become publications and how a federated request  *)
(* uses them.  The owner edits drafts and their cases, an operator's       *)
(* runner executes the cases outside any lock, the owner reviews a preview *)
(* and confirms it, sources and the persona change meanwhile, and a        *)
(* consumer's request reads several sources one after the other under what *)
(* was published.                                                          *)
(*                                                                         *)
(* Source: PrivateCatalog, PostgresPersonaCatalogTransaction,              *)
(* runSqlPublicationCases and its federated counterpart, the changes of a  *)
(* source, ConsumerCatalog.federation and PublishedFederation.             *)
(*                                                                         *)
(* A package is what its hash covers: the draft's revision and, for a      *)
(* query, the version of its source; what a revision says is not modelled, *)
(* but for the publications that a federation's names.  A query has a      *)
(* source of its own, so the query stands for both.  Each handler holds    *)
(* the persona's lock, and is one step; shared knowledge, tokens, the      *)
(* owner's delegates and candidate examples are not modelled: what they    *)
(* refuse leaves everything as it was.                                     *)
(***************************************************************************)
EXTENDS Naturals, Sequences, FiniteSets

CONSTANTS
    Queries,          \* the queries of the persona, and their sources
    Fed,              \* its federation
    Runners,          \* operator sessions that run cases
    Requests,         \* federated requests in flight
    Previews,         \* slots for previews that were shown
    None,             \* nothing there
    MaxChanges,       \* bound on edits, deadlines, suspensions and changes
    MaxPublications   \* bound on the publications of a skill

ASSUME SkillsAssumption == Fed \notin Queries /\ Cardinality(Queries) >= 2
ASSUME BoundsAssumption == MaxChanges \in Nat /\ MaxPublications \in Nat \ {0}

Key == [revision : Nat, version : Nat]

ASSUME NoneAssumption == None \notin [key : Key, approved : BOOLEAN]

VARIABLES
    changes,   \* the changes made so far
    source,    \* each source: its version, and whether it is active
    persona,   \* the persona: likewise
    draft,     \* the drafts
    report,    \* the latest report on each draft
    plan,      \* the deadline of review of each draft
    preview,   \* the previews that can still be confirmed
    pubs,      \* the publications of each skill; the last one is active
    runner,    \* what each runner captured
    request,   \* what each request holds and has read
    passed     \* the packages whose cases a runner saw pass

skills == <<draft, report, plan, preview, pubs>>
world == <<changes, source, persona>>
vars == <<changes, source, persona, draft, report, plan, preview, pubs,
          runner, request, passed>>

Skills == Queries \cup {Fed}
Holder == [version : Nat \ {0}, active : BOOLEAN]
NoRun == [at |-> "idle", skill |-> None, fence |-> None, ok |-> FALSE]
Publication == [key : Key, uses : [Queries -> Nat],
                versions : [Queries -> Nat], suspended : BOOLEAN]

TypeOK ==
    /\ changes \in 0..MaxChanges
    /\ source \in [Queries -> Holder]
    /\ persona \in Holder
    /\ draft \in [Skills -> [revision : Nat, required : BOOLEAN,
                             uses : [Queries -> Nat]]]
    /\ report \in [Skills -> [key : Key, approved : BOOLEAN] \cup {None}]
    /\ plan \in [Skills -> [key : Key, version : Nat] \cup {None}]
    /\ preview \in [Previews -> [skill : Skills, key : Key, persona : Nat,
                                 previous : Nat, plan : Nat] \cup {None}]
    /\ pubs \in [Skills -> Seq(Publication)]
    /\ runner \in [Runners ->
         [at : {"captured", "tested"}, skill : Skills, ok : BOOLEAN,
          fence : [key : Key, persona : Nat, active : Nat]] \cup {NoRun}]
    /\ request \in [Requests -> [pub : Nat, reading : Queries \cup {None},
                                 version : Nat, read : [Queries -> Nat]]]
    /\ passed \subseteq Skills \X Key

-----------------------------------------------------------------------------
(* Helpers.  The variants beside them are the slips that the properties    *)
(* below are checked to catch; nothing else uses them.                     *)

Nothing == [q \in Queries |-> 0]
NoRequest == [pub |-> 0, reading |-> None, version |-> 0, read |-> Nothing]
Active(s) == Len(pubs[s])
Published(s) == pubs[s][Active(s)]
SourcesOf(s) == IF s = Fed THEN Queries ELSE {s}

KeyOf(s) == [revision |-> draft[s].revision,
             version |-> IF s = Fed THEN 0 ELSE source[s].version]

NewPublication(s) ==
    [key |-> KeyOf(s), uses |-> draft[s].uses,
     versions |-> [q \in Queries |->
                     IF q \in SourcesOf(s) THEN source[q].version ELSE 0],
     suspended |-> FALSE]

\* A query's active publication can be used as it was published.
Usable(q) ==
    /\ Active(q) > 0 /\ ~Published(q).suspended
    /\ source[q].active /\ Published(q).versions[q] = source[q].version

\* compile(), but for the reports.
Compiles(s) ==
    /\ persona.active
    /\ IF s = Fed THEN \A q \in Queries : Usable(q) /\ draft[s].uses[q] = Active(q)
                  ELSE source[s].active

\* Required cases ask for the runner's latest report on this very package; a
\* federation must have some.
Reported(s) ==
    /\ s = Fed => draft[s].required
    /\ draft[s].required => report[s] = [key |-> KeyOf(s), approved |-> TRUE]

Planned(s) == plan[s] # None /\ plan[s].key = KeyOf(s)
NextPlan(s) == [key |-> KeyOf(s),
                version |-> IF plan[s] = None THEN 1 ELSE plan[s].version + 1]

\* What the runner compares with what it captured: the persona, the sources,
\* the draft and, for a federation, what it and its dependencies are now.
Fence(s) == [key |-> KeyOf(s), persona |-> persona.version,
             active |-> IF s = Fed THEN Active(s) ELSE 0]
Captured(s) == Compiles(s) /\ draft[s].required
UnchangedSkill(r) == Captured(runner[r].skill)
Unchanged(r) ==
    /\ Captured(runner[r].skill)
    /\ runner[r].fence = Fence(runner[r].skill)

\* What a confirmed preview is compared with.
MatchesPackage(p) ==
    /\ p.key = KeyOf(p.skill) /\ p.persona = persona.version
    /\ Planned(p.skill) /\ p.plan = plan[p.skill].version
Matches(p) ==
    /\ p.key = KeyOf(p.skill) /\ p.persona = persona.version
    /\ p.previous = Active(p.skill)
    /\ Planned(p.skill) /\ p.plan = plan[p.skill].version

\* The publications that a change of a source suspends: all that were built
\* on it, the superseded ones and the federations among them.
AllOf(skillSet) == UNION {{s} \X (1..Active(s)) : s \in skillSet}
OwnOnly(q) == AllOf({q})
BuiltOn(q) == AllOf({s \in Skills : q \in SourcesOf(s)})

Suspended(which) ==
    [s \in Skills |->
        [n \in 1..Active(s) |->
            IF <<s, n>> \in which THEN [pubs[s][n] EXCEPT !.suspended = TRUE]
                                  ELSE pubs[s][n]]]

\* visibleAll(): the federation is the active one, and every publication it
\* names still is, as it was.
VisibleAlone(n) ==
    /\ persona.active
    /\ n = Active(Fed) /\ ~Published(Fed).suspended
    /\ \A q \in Queries : source[q].active
Visible(n) ==
    /\ persona.active
    /\ n = Active(Fed) /\ ~Published(Fed).suspended
    /\ \A q \in Queries : Usable(q) /\ pubs[Fed][n].uses[q] = Active(q)

Change ==
    /\ changes < MaxChanges
    /\ changes' = changes + 1

-----------------------------------------------------------------------------
\* A persona whose queries have been published, and whose federation has been
\* written, with cases that it must pass, and no more.
Init ==
    /\ changes = 0
    /\ source = [q \in Queries |-> [version |-> 1, active |-> TRUE]]
    /\ persona = [version |-> 1, active |-> TRUE]
    /\ draft = [s \in Skills |-> [revision |-> 1, required |-> s = Fed,
                                  uses |-> [q \in Queries |->
                                              IF s = Fed THEN 1 ELSE 0]]]
    /\ report = [s \in Skills |-> None]
    /\ plan = [s \in Skills |-> IF s = Fed THEN None
                 ELSE [key |-> [revision |-> 1, version |-> 1], version |-> 1]]
    /\ preview = [n \in Previews |-> None]
    /\ pubs = [s \in Skills |-> IF s = Fed THEN <<>>
                 ELSE << [key |-> [revision |-> 1, version |-> 1],
                          uses |-> Nothing,
                          versions |-> [Nothing EXCEPT ![s] = 1],
                          suspended |-> FALSE] >>]
    /\ runner = [r \in Runners |-> NoRun]
    /\ request = [c \in Requests |-> NoRequest]
    /\ passed = {}

-----------------------------------------------------------------------------
(* The owner.                                                              *)

\* A draft is edited, at the revision that is expected, and the revision
\* moves.  A federation names the publications that it combines.
Edit(s) ==
    /\ persona.active /\ Change
    /\ draft' = [draft EXCEPT ![s] =
                   [revision |-> @.revision + 1, required |-> @.required,
                    uses |-> [q \in Queries |-> IF s = Fed THEN Active(q) ELSE 0]]]
    /\ UNCHANGED <<source, persona, report, plan, preview, pubs,
                   runner, request, passed>>

\* A case is added, changed or removed; the training stays as it was.
EditCases(s, required) ==
    /\ persona.active /\ Change
    /\ draft' = [draft EXCEPT ![s] =
                   [revision |-> @.revision + 1, required |-> required,
                    uses |-> @.uses]]
    /\ UNCHANGED <<source, persona, report, plan, preview, pubs,
                   runner, request, passed>>

SetReviewDeadline(s) ==
    /\ Compiles(s) /\ Reported(s) /\ Change
    /\ plan' = [plan EXCEPT ![s] = NextPlan(s)]
    /\ UNCHANGED <<source, persona, draft, report, preview, pubs,
                   runner, request, passed>>

\* The preview is saved with what it was made from; a deadline may be set
\* with it, and must be there.
Preview(s, n) ==
    /\ Compiles(s) /\ Reported(s)
    /\ preview[n] = None
    /\ \/ Planned(s) /\ UNCHANGED <<plan, changes>>
       \/ ~Planned(s) /\ plan' = [plan EXCEPT ![s] = NextPlan(s)]
                      /\ UNCHANGED changes
    /\ preview' = [preview EXCEPT ![n] =
                     [skill |-> s, key |-> KeyOf(s), persona |-> persona.version,
                      previous |-> Active(s), plan |-> plan'[s].version]]
    /\ UNCHANGED <<source, persona, draft, report, pubs, runner, request, passed>>

\* It expires, and cannot be confirmed any more.
PreviewExpires(n) ==
    /\ preview[n] # None
    /\ preview' = [preview EXCEPT ![n] = None]
    /\ UNCHANGED <<world, draft, report, plan, pubs, runner, request, passed>>

\* It is confirmed: compiled again, compared, consumed, and the publication
\* becomes the active one.
Publish(n) ==
    /\ preview[n] # None
    /\ LET p == preview[n]
           s == preview[n].skill
       IN /\ Compiles(s) /\ Reported(s) /\ Matches(p)
          /\ Active(s) < MaxPublications
          /\ pubs' = [pubs EXCEPT ![s] = Append(@, NewPublication(s))]
    /\ preview' = [preview EXCEPT ![n] = None]
    /\ UNCHANGED <<world, draft, report, plan, runner, request, passed>>

\* Suspending takes only the active publication: what is built on it refuses
\* by itself.
Suspend(s) ==
    /\ persona.active /\ Active(s) > 0 /\ ~Published(s).suspended /\ Change
    /\ pubs' = Suspended({<<s, Active(s)>>})
    /\ UNCHANGED <<source, persona, draft, report, plan, preview,
                   runner, request, passed>>

\* A source is edited, suspended, recovered, replaced or found to have another
\* identity: its version moves, and what was built on it is suspended.
ChangeSource(q, active) ==
    /\ source[q].active \/ active
    /\ Change
    /\ source' = [source EXCEPT ![q] = [version |-> @.version + 1,
                                        active |-> active]]
    /\ pubs' = Suspended(BuiltOn(q))
    /\ UNCHANGED <<persona, draft, report, plan, preview, runner, request, passed>>

\* The persona is edited or recovered, or suspended with all it published.
ChangePersona(active) ==
    /\ persona.active \/ active
    /\ Change
    /\ persona' = [version |-> persona.version + 1, active |-> active]
    /\ pubs' = IF active THEN pubs ELSE Suspended(AllOf(Skills))
    /\ UNCHANGED <<source, draft, report, plan, preview, runner, request, passed>>

-----------------------------------------------------------------------------
(* The runner: every look at the catalog takes the persona's lock, and the *)
(* cases run between them.                                                 *)

Reset(r) == runner' = [runner EXCEPT ![r] = NoRun]

\* The order of two reports is that of the starts of their transactions, so
\* one that waited for the lock may rank behind another on the same package.
SaveReport(s, approved) ==
    \/ report' = [report EXCEPT ![s] = [key |-> KeyOf(s), approved |-> approved]]
    \/ /\ report[s] # None /\ report[s].key = KeyOf(s)
       /\ UNCHANGED report

Capture(r, s) ==
    /\ runner[r].at = "idle"
    /\ Captured(s)
    /\ SaveReport(s, FALSE)
    /\ runner' = [runner EXCEPT ![r] = [at |-> "captured", skill |-> s,
                                        fence |-> Fence(s), ok |-> FALSE]]
    /\ UNCHANGED <<world, draft, plan, preview, pubs, request, passed>>

\* The cases are executed, unless something changed before.
Test(r, ok) ==
    /\ runner[r].at = "captured" /\ Unchanged(r)
    /\ runner' = [runner EXCEPT ![r].at = "tested", ![r].ok = ok]
    /\ passed' = IF ok THEN passed \cup {<<runner[r].skill, runner[r].fence.key>>}
                 ELSE passed
    /\ UNCHANGED <<world, skills, request>>

\* The report is saved if nothing changed meanwhile.
Report(r) ==
    /\ runner[r].at = "tested" /\ Unchanged(r)
    /\ SaveReport(runner[r].skill, runner[r].ok)
    /\ Reset(r)
    /\ UNCHANGED <<world, draft, plan, preview, pubs, request, passed>>

\* Something changed, a fixture fails, or the operator's session ends.
Abort(r) ==
    /\ runner[r].at # "idle"
    /\ Reset(r)
    /\ UNCHANGED <<world, skills, request, passed>>

-----------------------------------------------------------------------------
(* A federated request: one local read at a time, outside any lock, each   *)
(* admitted and looked at again under the authority of its moment.         *)

Holds(c) == request[c].pub
Idle(c) == request[c] = NoRequest
Ends(c) == request' = [request EXCEPT ![c] = NoRequest]
Consumer == UNCHANGED <<world, skills, runner, passed>>

Start(c) ==
    /\ Idle(c)
    /\ Active(Fed) > 0 /\ Visible(Active(Fed))
    /\ request' = [request EXCEPT ![c].pub = Active(Fed)]
    /\ Consumer

\* The federation is authorised again, and the query admitted.
Send(c, q) ==
    /\ ~Idle(c) /\ request[c].reading = None /\ request[c].read[q] = 0
    /\ Visible(Holds(c)) /\ Usable(q)
    /\ request' = [request EXCEPT ![c] =
                     [@ EXCEPT !.reading = q, !.version = source[q].version]]
    /\ Consumer

\* Its rows are kept if the source and the publication are what they were.
Receive(c) ==
    /\ request[c].reading # None
    /\ LET q == request[c].reading IN
       /\ Usable(q) /\ source[q].version = request[c].version
       /\ pubs[Fed][Holds(c)].uses[q] = Active(q)
       /\ request' = [request EXCEPT ![c] =
                        [pub |-> @.pub, reading |-> None, version |-> 0,
                         read |-> [@.read EXCEPT ![q] = request[c].version]]]
    /\ Consumer

\* All is combined, and the federation authorised for the last time.
Deliver(c) ==
    /\ ~Idle(c) /\ \A q \in Queries : request[c].read[q] # 0
    /\ Visible(Holds(c))
    /\ Ends(c)
    /\ Consumer

\* Refused anywhere, failed, or out of time.
GiveUp(c) == ~Idle(c) /\ Ends(c) /\ Consumer

-----------------------------------------------------------------------------
Next ==
    \/ \E s \in Skills :
         \/ Edit(s) \/ SetReviewDeadline(s) \/ Suspend(s)
         \/ \E required \in BOOLEAN : EditCases(s, required)
    \/ \E n \in Previews :
         \/ \E s \in Skills : Preview(s, n)
         \/ PreviewExpires(n) \/ Publish(n)
    \/ \E active \in BOOLEAN :
         \/ \E q \in Queries : ChangeSource(q, active)
         \/ ChangePersona(active)
    \/ \E r \in Runners :
         \/ \E s \in Skills : Capture(r, s)
         \/ \E ok \in BOOLEAN : Test(r, ok)
         \/ Report(r) \/ Abort(r)
    \/ \E c \in Requests :
         \/ Start(c) \/ Receive(c) \/ Deliver(c) \/ GiveUp(c)
         \/ \E q \in Queries : Send(c, q)

Spec == Init /\ [][Next]_vars

-----------------------------------------------------------------------------
(* Properties.                                                             *)

Publishes(s) == Len(pubs'[s]) > Len(pubs[s])

\* What is published, where cases are required, is the very package whose
\* cases a runner executed and saw pass: no edit, change of a source or
\* federated publication slips between the test, the report and the
\* publication.
PublishedAsTested ==
    [][\A s \in Skills :
         Publishes(s) /\ (draft[s].required \/ s = Fed)
             => <<s, pubs'[s][Len(pubs'[s])].key>> \in passed]_vars

\* It is what a preview showed, in place of the publication that the preview
\* showed it against: of two previews confirmed, the second never replaces
\* what its reviewer did not see.
PublishedAsShown ==
    [][\A s \in Skills :
         Publishes(s) => \E n \in Previews :
             /\ preview[n] # None /\ preview'[n] = None
             /\ preview[n].skill = s
             /\ preview[n].key = pubs'[s][Len(pubs'[s])].key
             /\ preview[n].previous = Len(pubs[s])]_vars

\* Whatever is not suspended was built on the sources as they are, all of
\* them active, for an active persona: no order of publications and changes
\* leaves one behind, superseded ones included.
StaleIsSuspended ==
    \A s \in Skills : \A n \in 1..Active(s) :
        ~pubs[s][n].suspended =>
            /\ persona.active
            /\ \A q \in SourcesOf(s) :
                 source[q].active /\ pubs[s][n].versions[q] = source[q].version

\* A federated result is delivered only if every part was read from its
\* source as it still is, under the query's publication that is still the
\* active one and not suspended.
FederationDelivers ==
    [][\A c \in Requests :
         (\A q \in Queries : request[c].read[q] # 0) /\ Deliver(c) =>
             \A q \in Queries :
                 /\ request[c].read[q] = source[q].version
                 /\ source[q].active /\ ~Published(q).suspended
                 /\ pubs[Fed][Holds(c)].uses[q] = Active(q)]_vars
=============================================================================
