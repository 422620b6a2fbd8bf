-------------------------- MODULE SharedKnowledge --------------------------
(***************************************************************************)
(* The knowledge that several owners curate together: one catalog with its *)
(* members, one pattern with its draft and publications, and the proposals *)
(* that consumers and members make against a publication.                  *)
(*                                                                         *)
(* Source: SharedKnowledge and SharedKnowledgeCuration with their          *)
(* PostgreSQL transactions, migrations 0006 and 0016.  Each request is one *)
(* transaction that locks the catalog's row, so each is one action; what   *)
(* lies between two requests is what their author was shown.  A form is    *)
(* that: a draft loaded for editing, the preview of a publication or the   *)
(* preview of an incorporation, the last two being rows with a deadline    *)
(* and of one use.                                                         *)
(*                                                                         *)
(* An item is a table, a relationship, a rule or an example of SQL; what   *)
(* the hashes cover is the content, item by item.  Validation of content   *)
(* and the session's end only refuse.  Review plans are not modelled.      *)
(***************************************************************************)
EXTENDS Naturals, Sequences, FiniteSets

CONSTANTS
    Owners,       \* the owners that may be members
    Creator,      \* the catalog's own
    Tables,       \* items other than examples
    Examples,     \* items of kind exemplo_sql
    Values,       \* the definitions an item may have
    Proposals, Forms,
    Absent,       \* no definition, no proposal, no form
    MaxRevision, MaxVersion, MaxPublished  \* bounds on what is explored

ASSUME OwnersAssumption == Creator \in Owners
ASSUME ItemsAssumption == Tables \cap Examples = {}
ASSUME KnowledgeBounds ==
    MaxRevision \in Nat \ {0} /\ MaxVersion \in Nat \ {0} /\ MaxPublished \in Nat

VARIABLES
    role,      \* knowledge_member_v2
    version,   \* authorization_version of the catalog
    content,   \* rascunho
    revision,  \* revisao
    published, \* publications of the pattern, the last one is active
    proposals, \* knowledge_proposal_v2
    forms,     \* what members have been shown
    \* History.
    steady,    \* forms since which nothing of what they show has changed
    approved,  \* examples of the draft that a member wrote as approved
    author     \* the proposal whose value stands in an item of the draft

sharedDraft == <<content, revision>>
history == <<steady, approved, author>>
knowledgeVars ==
    <<role, version, sharedDraft, published, proposals, forms, history>>

Roles == {"administrator", "curator", "contributor", "reader"}
Items == Tables \cup Examples

\* A definition; that of an example may be a candidate (an inactive one
\* counts as approved: a member decided it).
Definition(i) ==
    [value : Values, candidate : IF i \in Examples THEN BOOLEAN ELSE {FALSE}]
Contents ==
    {c \in [Items -> {Absent} \cup UNION {Definition(i) : i \in Items}] :
        \A i \in Items : c[i] = Absent \/ c[i] \in Definition(i)}

ProposalType ==
    [item : Items, value : Values, base : 1..MaxPublished,
     state : {"pending", "incorporated", "rejected"}]

ASSUME AbsentAssumption == Absent \notin ProposalType

\* `before' is the active publication, `about' the proposal.
FormType ==
    [kind : {"edit", "publish", "incorporate"}, owner : Owners,
     revision : 1..MaxRevision, version : 1..MaxVersion, content : Contents,
     before : 0..MaxPublished, about : Proposals \cup {Absent}]

KnowledgeTypeOK ==
    /\ role \in [Owners -> Roles \cup {"none"}]
    /\ version \in 1..MaxVersion
    /\ content \in Contents /\ revision \in 1..MaxRevision
    /\ published \in Seq([content : Contents, suspended : BOOLEAN])
    /\ proposals \in [Proposals -> ProposalType \cup {Absent}]
    /\ forms \in [Forms -> FormType \cup {Absent}]
    /\ steady \subseteq Forms
    /\ approved \subseteq Examples
    /\ author \in [Items -> Proposals \cup {Absent}]

KnowledgeInit ==
    /\ role = [o \in Owners |-> IF o = Creator THEN "administrator" ELSE "none"]
    /\ version = 1
    /\ content = [i \in Items |-> Absent] /\ revision = 1
    /\ published = <<>>
    /\ proposals = [p \in Proposals |-> Absent]
    /\ forms = [f \in Forms |-> Absent]
    /\ steady = {} /\ approved = {}
    /\ author = [i \in Items |-> Absent]

-----------------------------------------------------------------------------
(* Helpers, with the slips beside them that the properties below are        *)
(* checked to catch.                                                        *)

MayCurate(o) == role[o] \in {"administrator", "curator"}
MayDraft(o) == MayCurate(o) \/ role[o] = "contributor"

Candidates(c) == {i \in Examples : c[i] # Absent /\ c[i].candidate}

\* applyKnowledgeChange: an example that is proposed is a candidate, whatever
\* stood in its place.
Proposed(p) ==
    [value |-> proposals[p].value, candidate |-> proposals[p].item \in Examples]
Applied(p) == [content EXCEPT ![proposals[p].item] = Proposed(p)]

\* proposalTarget: the item is in the draft what it was in the base.
AnyTarget(p) == TRUE
SameTarget(p) ==
    LET i == proposals[p].item
    IN  content[i] = published[proposals[p].base].content[i]

\* prepare, on preview and again on confirmation.
Incorporable(p) ==
    /\ proposals[p] # Absent /\ proposals[p].state = "pending"
    /\ ~published[proposals[p].base].suspended
    /\ SameTarget(p)

\* What a preview row is compared with; owner, deadline and use aside.
ShownDraft(f, c) ==
    forms[f].revision = revision /\ forms[f].content = c
Shown(f, c) == ShownDraft(f, c) /\ forms[f].version = version

Form(kind, o, c, p) ==
    [kind |-> kind, owner |-> o, revision |-> revision, version |-> version,
     content |-> c, before |-> Len(published), about |-> p]

Show(f, form) ==
    /\ forms[f] = Absent
    /\ forms' = [forms EXCEPT ![f] = form]
    /\ steady' = steady \cup {f}

\* A member hands in a form of theirs, and it is used up.
Uses(f, o, kind) == forms[f] # Absent /\ forms[f].owner = o /\ forms[f].kind = kind
UsedUp(f) == forms' = [forms EXCEPT ![f] = Absent]

\* saveDraft: the revision is compared and moved.
SaveDraft(c) ==
    /\ revision < MaxRevision
    /\ revision' = revision + 1
    /\ content' = c
    /\ steady' = {}

-----------------------------------------------------------------------------
(* Members and the draft.                                                  *)

\* An administrator gives or takes a role; the creator stays administrator.
SetMember(o, who, what) ==
    /\ role[o] = "administrator"
    /\ who = Creator => what = "administrator"
    /\ version < MaxVersion
    /\ role' = [role EXCEPT ![who] = what]
    /\ version' = version + 1
    /\ steady' = {}
    /\ UNCHANGED <<sharedDraft, published, proposals, forms, approved, author>>

Load(f, o) ==
    /\ MayDraft(o)
    /\ Show(f, Form("edit", o, content, Absent))
    /\ UNCHANGED <<role, version, sharedDraft, published, proposals>>
    /\ UNCHANGED <<approved, author>>

\* updatePattern compares the revision only.
Update(f, o, c) ==
    /\ Uses(f, o, "edit")
    /\ MayDraft(o)
    /\ forms[f].revision = revision
    /\ SaveDraft(c)
    /\ UsedUp(f)
    /\ approved' = {i \in Examples \ Candidates(c) : c[i] # Absent}
    /\ author' = [i \in Items |-> IF c[i] = content[i] THEN author[i] ELSE Absent]
    /\ UNCHANGED <<role, version, published, proposals>>

-----------------------------------------------------------------------------
(* Publications.                                                           *)

PreviewPattern(f, o) ==
    /\ MayCurate(o)
    /\ Show(f, Form("publish", o, content, Absent))
    /\ UNCHANGED <<role, version, sharedDraft, published, proposals>>
    /\ UNCHANGED <<approved, author>>

PublishPattern(f, o) ==
    /\ Uses(f, o, "publish")
    /\ MayCurate(o)
    /\ Candidates(content) = {}
    /\ Shown(f, content)
    /\ forms[f].before = Len(published)
    /\ Len(published) < MaxPublished
    /\ published' = Append(published, [content |-> content, suspended |-> FALSE])
    /\ UsedUp(f)
    /\ steady' = {}
    /\ UNCHANGED <<role, version, sharedDraft, proposals, approved, author>>

\* A suspended publication stays the active one of its pattern.
SuspendPattern(o, n) ==
    /\ MayCurate(o)
    /\ published' = [published EXCEPT ![n].suspended = TRUE]
    /\ UNCHANGED <<role, version, sharedDraft, proposals, forms, history>>

-----------------------------------------------------------------------------
(* Proposals.                                                              *)

\* submitKnowledgeProposal, by a member or by a consumer of one's persona.
Propose(p, o, i, v, n) ==
    /\ MayDraft(o)
    /\ proposals[p] = Absent
    /\ ~published[n].suspended
    /\ proposals' = [proposals EXCEPT ![p] =
          [item |-> i, value |-> v, base |-> n, state |-> "pending"]]
    /\ UNCHANGED <<role, version, sharedDraft, published, forms, history>>

PreviewIncorporation(f, o, p) ==
    /\ MayCurate(o)
    /\ Incorporable(p)
    /\ Show(f, Form("incorporate", o, Applied(p), p))
    /\ UNCHANGED <<role, version, sharedDraft, published, proposals>>
    /\ UNCHANGED <<approved, author>>

Decide(p, verdict) == proposals' = [proposals EXCEPT ![p].state = verdict]

Incorporate(f, o, p) ==
    /\ Uses(f, o, "incorporate") /\ forms[f].about = p
    /\ MayCurate(o)
    /\ Incorporable(p)
    /\ Shown(f, Applied(p))
    /\ SaveDraft(Applied(p))
    /\ UsedUp(f)
    /\ Decide(p, "incorporated")
    /\ author' = [author EXCEPT ![proposals[p].item] = p]
    /\ approved' = approved \ {proposals[p].item}
    /\ UNCHANGED <<role, version, published>>

Reject(o, p) ==
    /\ MayCurate(o)
    /\ proposals[p] # Absent /\ proposals[p].state = "pending"
    /\ Decide(p, "rejected")
    /\ UNCHANGED <<role, version, sharedDraft, published, forms, history>>

\* The deadline of a preview, or a member who gives up.
Discard(f) ==
    /\ forms[f] # Absent
    /\ UsedUp(f)
    /\ steady' = steady \ {f}
    /\ UNCHANGED <<role, version, sharedDraft, published, proposals>>
    /\ UNCHANGED <<approved, author>>

-----------------------------------------------------------------------------
Member(o) ==
    \/ \E who \in Owners, what \in Roles \cup {"none"} : SetMember(o, who, what)
    \/ \E n \in DOMAIN published : SuspendPattern(o, n)
    \/ \E p \in Proposals : Reject(o, p)
    \/ \E p \in Proposals, i \in Items, v \in Values, n \in DOMAIN published :
          Propose(p, o, i, v, n)

WithForm(f, o) ==
    \/ Load(f, o) \/ PreviewPattern(f, o) \/ PublishPattern(f, o)
    \/ \E c \in Contents : Update(f, o, c)
    \/ \E p \in Proposals : PreviewIncorporation(f, o, p) \/ Incorporate(f, o, p)

KnowledgeNext ==
    \/ \E o \in Owners : Member(o)
    \/ \E f \in Forms, o \in Owners : WithForm(f, o)
    \/ \E f \in Forms : Discard(f)

KnowledgeSpec == KnowledgeInit /\ [][KnowledgeNext]_knowledgeVars

-----------------------------------------------------------------------------
(* Safety.                                                                 *)

\* What is published is what a curator was shown, with no change since of the
\* draft, of the members or of the publication that it replaces, and every
\* example in it is one that a member wrote as approved: no proposal brings one
\* in by itself (preview, publish, applyKnowledgeChange).
PublishedAsReviewed ==
    [][\A f \in Forms :
          forms[f] # Absent /\ forms[f].kind = "publish" /\ published' # published
                /\ forms'[f] = Absent =>
              /\ f \in steady
              /\ \A i \in Examples : content[i] # Absent => i \in approved
      ]_knowledgeVars

\* A proposal replaces the value that another one left in an item only if that
\* value stood in the publication its own author saw: of two proposals of one
\* base for one item the second must be made again (prepare, proposalTarget).
NothingOverwritten ==
    [][\A i \in Items :
          author'[i] # author[i] /\ author[i] # Absent /\ author'[i] # Absent =>
              published[proposals[author'[i]].base].content[i] = Proposed(author[i])
      ]_knowledgeVars
=============================================================================
