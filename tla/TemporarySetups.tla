--------------------------- MODULE TemporarySetups ---------------------------
(***************************************************************************)
(* A consumer that the owner has delegated to may ask for a link of one    *)
(* use; the owner opens it, logs in, and one thing is changed.  The        *)
(* delegation lives twice, as a row here and as a record at the hub, and   *)
(* the owner renews and revokes it by calls to both; no call to the hub    *)
(* holds a transaction open, so everything is looked at again.             *)
(*                                                                         *)
(* Source: PersonaTemporarySetups, PersonaOwnerDelegation and the rows of  *)
(* PostgresPersonaSecurityTransaction.                                     *)
(*                                                                         *)
(* One persona and one target, a source or an integration.  The versions   *)
(* of the persona, of the token and of its grant are one number, what the  *)
(* delegation permits is part of its version, and times are flags that an  *)
(* action clears.                                                          *)
(***************************************************************************)
EXTENDS Naturals

CONSTANTS
    Setup,       \* links
    Call,        \* requests of the consumer and posts of the form at once
    Owner,       \* requests of the owner on the delegation at once
    Remote,      \* records the hub may create
    None,        \* no record
    MaxVersion,  \* bound: versions of the local row
    MaxChange    \* bound: versions of the consumer's authority and the target

ASSUME NoneAssumption == None \notin Remote
ASSUME BoundAssumption == MaxVersion \in Nat /\ MaxChange \in Nat \ {0}

VARIABLES
    local,   \* the row of the delegation
    hub,     \* per record: unknown, active or ended
    now,     \* the current versions: the consumer's authority, the target
    setups,  \* the links
    done,    \* per link: the changes it caused
    calls,   \* the requests and posts
    owners   \* the owner's requests

vars == <<local, hub, now, setups, done, calls, owners>>

Version == 0..MaxVersion
Change == 1..MaxChange

\* Rotate the consumer's own token; issue a token or register a source or an
\* integration; rotate the credential of the target.
Kinds == {"token_rotate", "create", "rotate"}

NoSetup == [state |-> "none", kind |-> "create", delegation |-> 0,
            token |-> 1, target |-> 1]
NoCall == [phase |-> "idle", link |-> NoSetup, setup |-> None, version |-> 0,
           remote |-> None, round |-> 1]
NoOwner == [phase |-> "idle", expected |-> 0, remote |-> None]

SetupType == [state : {"none", "open", "consumed", "expired"}, kind : Kinds,
              delegation : Version, token : Change, target : Change]
CallType == [phase : {"idle", "read", "ask", "again", "write"},
             link : SetupType, setup : Setup \cup {None}, version : Version,
             remote : Remote \cup {None}, round : {1, 2}]
OwnerType == [phase : {"idle", "old", "end old", "create", "save", "undo",
                       "end"},
              expected : Version, remote : Remote \cup {None}]

TypeOK ==
    /\ local \in [version : Version, remote : Remote \cup {None},
                  revoked : BOOLEAN, expired : BOOLEAN]
    /\ hub \in [Remote -> {"unknown", "active", "ended"}]
    /\ now \in [token : Change, target : Change]
    /\ setups \in [Setup -> SetupType]
    /\ done \in [Setup -> Nat]
    /\ calls \in [Call -> CallType]
    /\ owners \in [Owner -> OwnerType]

Init ==
    /\ local = [version |-> 0, remote |-> None, revoked |-> FALSE,
                expired |-> FALSE]
    /\ hub = [r \in Remote |-> "unknown"]
    /\ now = [token |-> 1, target |-> 1]
    /\ setups = [s \in Setup |-> NoSetup]
    /\ done = [s \in Setup |-> 0]
    /\ calls = [c \in Call |-> NoCall]
    /\ owners = [o \in Owner |-> NoOwner]

\* The variants beside the definitions are the slips that the properties are
\* checked to catch; nothing else uses them.
Live == local.version > 0 /\ ~local.revoked /\ ~local.expired

Ends(c) == calls' = [calls EXCEPT ![c] = NoCall]

-----------------------------------------------------------------------------
(* verify(): the local row, the hub's word on its record, the row again     *)

\* The consumer asks for a link, with what it sees of its target; the link is
\* not known before the hub has confirmed.
BeginStart(c, k) ==
    /\ calls[c].phase = "idle"
    /\ calls' = [calls EXCEPT ![c] = [NoCall EXCEPT !.phase = "read",
         !.link = [NoSetup EXCEPT !.kind = k, !.token = now.token,
                    !.target = IF k = "rotate" THEN now.target ELSE @]]]
    /\ UNCHANGED <<local, hub, now, setups, done, owners>>

\* inspect(), the token of the form and the owner's login.
Inspect(c, s) ==
    /\ calls[c].phase = "idle" /\ setups[s].state = "open"
    /\ calls' = [calls EXCEPT ![c] = [NoCall EXCEPT
         !.phase = "read", !.setup = s, !.link = setups[s]]]
    /\ UNCHANGED <<local, hub, now, setups, done, owners>>

ReadLocal(c) ==
    /\ calls[c].phase = "read"
    /\ IF Live /\ now.token = calls[c].link.token
       THEN calls' = [calls EXCEPT ![c].phase = "ask", ![c].remote = local.remote,
                                   ![c].version = local.version]
       ELSE Ends(c)
    /\ UNCHANGED <<local, hub, now, setups, done, owners>>

AskHub(c) ==
    /\ calls[c].phase = "ask"
    /\ IF hub[calls[c].remote] = "active"
       THEN calls' = [calls EXCEPT ![c].phase = "again"]
       ELSE Ends(c)
    /\ UNCHANGED <<local, hub, now, setups, done, owners>>

\* A start takes the version it has confirmed; a post must have confirmed that
\* of its link, and verifies once more before it writes, without comparing.
ReadAgain(c) ==
    LET call == calls[c]
        starts == call.setup = None
    IN /\ call.phase = "again"
       /\ IF /\ Live /\ local.version = call.version
             /\ starts \/ call.round = 2 \/ call.version = call.link.delegation
          THEN calls' = [calls EXCEPT
                 ![c].phase = IF starts \/ call.round = 2 THEN "write" ELSE "read",
                 ![c].round = 2,
                 ![c].link.delegation = IF starts THEN call.version ELSE @]
          ELSE Ends(c)
       /\ UNCHANGED <<local, hub, now, setups, done, owners>>

\* The hub does not answer, the session ends, the form is refused or the
\* process stops.
GiveUp(c) ==
    /\ calls[c].phase # "idle"
    /\ Ends(c)
    /\ UNCHANGED <<local, hub, now, setups, done, owners>>

-----------------------------------------------------------------------------
(* The transactions                                                         *)

\* authorize(), under the locks of persona, token and delegation.
AuthorizedOfAnyVersion(link) == Live /\ now.token = link.token
Authorized(link) ==
    Live /\ local.version = link.delegation /\ now.token = link.token

\* The target is as the link found it.
Applies(link) == link.kind = "rotate" => now.target = link.target

Create(c, s) ==
    /\ calls[c].phase = "write" /\ calls[c].setup = None
    /\ setups[s].state = "none"
    /\ Authorized(calls[c].link) /\ Applies(calls[c].link)
    /\ setups' = [setups EXCEPT ![s] = [calls[c].link EXCEPT !.state = "open"]]
    /\ Ends(c)
    /\ UNCHANGED <<local, hub, now, done, owners>>

\* consumeSetup, and the trigger that allows no other change of a link.
ConsumableAsRead(c) == calls[c].link.state = "open"
Consumable(c) == setups[calls[c].setup].state = "open"

\* The link is consumed with what it changes.
Write(c) ==
    LET link == calls[c].link
        s == calls[c].setup
    IN /\ calls[c].phase = "write" /\ s # None
       /\ Authorized(link) /\ Consumable(c) /\ Applies(link)
       /\ link.kind = "token_rotate" => now.token < MaxChange
       /\ link.kind = "rotate" => now.target < MaxChange
       /\ setups' = [setups EXCEPT ![s].state = "consumed"]
       /\ done' = [done EXCEPT ![s] = @ + 1]
       /\ now' = [token |-> now.token + (IF link.kind = "token_rotate" THEN 1 ELSE 0),
                  target |-> now.target + (IF link.kind = "rotate" THEN 1 ELSE 0)]
       /\ Ends(c)
       /\ UNCHANGED <<local, hub, owners>>

-----------------------------------------------------------------------------
(* The owner's requests                                                     *)

Goes(o, phase) == owners' = [owners EXCEPT ![o].phase = phase]
Done(o) == owners' = [owners EXCEPT ![o] = NoOwner]

\* create(): the version that the owner saw is the current one.
BeginCreate(o) ==
    /\ owners[o].phase = "idle" /\ local.version < MaxVersion
    /\ owners' = [owners EXCEPT ![o].phase = "old", ![o].expected = local.version]
    /\ UNCHANGED <<local, hub, now, setups, done, calls>>

ReadOld(o) ==
    /\ owners[o].phase = "old"
    /\ IF local.version > 0 /\ ~local.revoked
       THEN owners' = [owners EXCEPT ![o].phase = "end old", ![o].remote = local.remote]
       ELSE Goes(o, "create")
    /\ UNCHANGED <<local, hub, now, setups, done, calls>>

EndOld(o) ==
    /\ owners[o].phase = "end old"
    /\ hub' = [hub EXCEPT ![owners[o].remote] = "ended"]
    /\ owners' = [owners EXCEPT ![o].phase = "create", ![o].remote = None]
    /\ UNCHANGED <<local, now, setups, done, calls>>

CreateRemote(o, r) ==
    /\ owners[o].phase = "create" /\ hub[r] = "unknown"
    /\ hub' = [hub EXCEPT ![r] = "active"]
    /\ owners' = [owners EXCEPT ![o].phase = "save", ![o].remote = r]
    /\ UNCHANGED <<local, now, setups, done, calls>>

\* saveDelegation is a compare-and-set; when it fails, or its confirmation is
\* lost, the new record is ended.
FreshAlways(o) == TRUE
Fresh(o) == local.version = owners[o].expected

Save(o) ==
    /\ owners[o].phase = "save"
    /\ IF Fresh(o)
       THEN /\ local' = [version |-> owners[o].expected + 1,
                         remote |-> owners[o].remote, revoked |-> FALSE,
                         expired |-> FALSE]
            /\ Done(o) \/ Goes(o, "undo")
       ELSE Goes(o, "undo") /\ UNCHANGED local
    /\ UNCHANGED <<hub, now, setups, done, calls>>

NotSaved(o) ==
    /\ owners[o].phase = "save"
    /\ Goes(o, "undo")
    /\ UNCHANGED <<local, hub, now, setups, done, calls>>

\* revoke(): the local row first.
Revoke(o) ==
    /\ owners[o].phase = "idle" /\ local.version \in 1..(MaxVersion - 1)
    /\ local' = [local EXCEPT !.version = @ + 1, !.revoked = TRUE]
    /\ owners' = [owners EXCEPT ![o].phase = "end", ![o].remote = local.remote]
    /\ UNCHANGED <<hub, now, setups, done, calls>>

EndRemote(o) ==
    /\ owners[o].phase \in {"undo", "end"}
    /\ hub' = [hub EXCEPT ![owners[o].remote] = "ended"]
    /\ Done(o)
    /\ UNCHANGED <<local, now, setups, done, calls>>

\* The hub fails, and with it the request, wherever it is; or the process stops.
Abandon(o) ==
    /\ owners[o].phase # "idle"
    /\ Done(o)
    /\ UNCHANGED <<local, hub, now, setups, done, calls>>

-----------------------------------------------------------------------------
(* Time, and changes from elsewhere                                         *)

ExpireSetup(s) ==
    /\ setups[s].state = "open"
    /\ setups' = [setups EXCEPT ![s].state = "expired"]
    /\ UNCHANGED <<local, hub, now, done, calls, owners>>

ExpireLocal ==
    /\ Live
    /\ local' = [local EXCEPT !.expired = TRUE]
    /\ UNCHANGED <<hub, now, setups, done, calls, owners>>

ExpireRemote(r) ==
    /\ hub[r] = "active"
    /\ hub' = [hub EXCEPT ![r] = "ended"]
    /\ UNCHANGED <<local, now, setups, done, calls, owners>>

\* The console changes the token, the persona, the source or the integration;
\* so does a rotation that finds another base behind the source.
ChangeToken ==
    /\ now.token < MaxChange
    /\ now' = [now EXCEPT !.token = @ + 1]
    /\ UNCHANGED <<local, hub, setups, done, calls, owners>>

ChangeTarget ==
    /\ now.target < MaxChange
    /\ now' = [now EXCEPT !.target = @ + 1]
    /\ UNCHANGED <<local, hub, setups, done, calls, owners>>

CallStep(c) ==
    \/ \E k \in Kinds : BeginStart(c, k)
    \/ \E s \in Setup : Inspect(c, s) \/ Create(c, s)
    \/ ReadLocal(c) \/ AskHub(c) \/ ReadAgain(c) \/ Write(c) \/ GiveUp(c)

OwnerStep(o) ==
    \/ BeginCreate(o) \/ ReadOld(o) \/ EndOld(o)
    \/ \E r \in Remote : CreateRemote(o, r)
    \/ Save(o) \/ NotSaved(o) \/ Revoke(o) \/ EndRemote(o) \/ Abandon(o)

Next ==
    \/ \E c \in Call : CallStep(c)
    \/ \E o \in Owner : OwnerStep(o)
    \/ \E s \in Setup : ExpireSetup(s)
    \/ \E r \in Remote : ExpireRemote(r)
    \/ ExpireLocal \/ ChangeToken \/ ChangeTarget

Spec == Init /\ [][Next]_vars

-----------------------------------------------------------------------------
(* Properties                                                               *)

\* However often its form is posted, at once or again after an error, a link
\* changes something once at most.
OnceEach == \A s \in Setup : done[s] <= 1

\* What a link changes, it changes under the very record of the hub that the
\* hub confirmed to this post, locally neither renewed nor revoked nor expired
\* since the link was asked for, and for the consumer's authority of then.
ChangesUnderConfirmed ==
    [][\A s \in Setup : done'[s] # done[s] =>
        \E c \in Call :
            /\ calls[c].setup = s /\ calls[c].round = 2
            /\ calls[c].remote = local.remote
            /\ Live /\ setups[s].delegation = local.version
            /\ setups[s].token = now.token]_vars

\* A record that was in force is ended at the hub before another takes its
\* place, however renewals overlap.
NoOverlap ==
    [][local'.remote # local.remote /\ local.remote # None /\ ~local.revoked
        => hub[local.remote] = "ended"]_vars
=============================================================================
