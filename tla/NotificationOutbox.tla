------------------------- MODULE NotificationOutbox -------------------------
(***************************************************************************)
(* The outbox of the persona's external notifications: rows produced with  *)
(* the state change that they announce, claimed by competing workers under *)
(* a lease, checked again before each POST, and acknowledged by their      *)
(* claim only.                                                             *)
(*                                                                         *)
(* Source: PersonaOutboxWorker.runOnce, PostgresPersonaOutbox, the         *)
(* producer and guards of migration 0032, PostgresPersonaNotifications.    *)
(* The receiver is external.                                               *)
(*                                                                         *)
(* One persona and one operation whose state advances stand for all of     *)
(* them: rows meet only in the endpoint's version and in the workers.  A   *)
(* row <<v, s>> is the notification of state s for the endpoint's version  *)
(* v.  available_at only delays a claim, and is left out; so is a worker's *)
(* stop, which only makes it give up and claim no more.                    *)
(***************************************************************************)
EXTENDS Naturals, FiniteSets

CONSTANTS
    Workers,
    MaxAttempts,  \* OUTBOX_LIMITS.maxAttempts
    MaxVersion,   \* bound on the endpoint versions explored
    MaxState      \* bound on the operation's states explored

ASSUME LimitsAssumption == MaxAttempts \in Nat \ {0}
ASSUME BoundsAssumption ==
    /\ IsFiniteSet(Workers)
    /\ MaxVersion \in Nat \ {0} /\ MaxState \in Nat \ {0}

VARIABLES
    \* persona, persona_notification_endpoint_v2 and the operation.
    ativa, active, version, source,
    \* outbox_v2.
    estado, tentativas,
    owner,      \* lease_owner: {} or {w}
    expired,    \* lease_until <= now
    old,        \* the lifetime from created_at has passed
    \* Workers.
    pc, row, attempt, delivered,
    \* The network and the receiver.
    flying, received,  \* by row, the attempts whose POST is there
    posts       \* POSTs ever sent, by row

endpoint == <<ativa, active, version>>
rows     == <<estado, tentativas, owner, expired, old>>
claim    == <<row, attempt>>
workers  == <<pc, claim, delivered>>
network  == <<flying, received, posts>>
vars == <<endpoint, source, rows, workers, network>>

Versions == 1..MaxVersion
Rows     == Versions \X (1..MaxState)
Terminal == {"entregue", "dead_letter"}

TypeOK ==
    /\ ativa \in BOOLEAN /\ active \in BOOLEAN
    /\ version \in 0..MaxVersion
    /\ source \in 0..MaxState
    /\ estado \in [Rows -> {"ausente", "pendente"} \cup Terminal]
    /\ tentativas \in [Rows -> 0..MaxAttempts]
    /\ owner \in [Rows -> {{}} \cup {{w} : w \in Workers}]
    /\ expired \in [Rows -> BOOLEAN]
    /\ old \in [Rows -> BOOLEAN]
    /\ pc \in [Workers -> {"idle", "authorize", "recheck", "post", "await",
                            "finish"}]
    /\ row \in [Workers -> Rows]
    /\ attempt \in [Workers -> 0..MaxAttempts]
    /\ delivered \in [Workers -> BOOLEAN]
    /\ flying \in [Rows -> SUBSET (1..MaxAttempts)]
    /\ received \in [Rows -> SUBSET (1..MaxAttempts)]
    /\ posts \in [Rows -> Nat]

Init ==
    /\ ativa = TRUE
    /\ active = FALSE
    /\ version = 0
    /\ source = 0
    /\ estado = [r \in Rows |-> "ausente"]
    /\ tentativas = [r \in Rows |-> 0]
    /\ owner = [r \in Rows |-> {}]
    /\ expired = [r \in Rows |-> FALSE]
    /\ old = [r \in Rows |-> FALSE]
    /\ pc = [w \in Workers |-> "idle"]
    /\ row = [w \in Workers |-> <<1, 1>>]
    /\ attempt = [w \in Workers |-> 0]
    /\ delivered = [w \in Workers |-> FALSE]
    /\ flying = [r \in Rows |-> {}]
    /\ received = [r \in Rows |-> {}]
    /\ posts = [r \in Rows |-> 0]

-----------------------------------------------------------------------------
(* Helpers.  The variants beside them are the slips that the properties    *)
(* below are checked to catch; nothing else uses them.                     *)

Goes(w, place) == pc' = [pc EXCEPT ![w] = place]

\* The attempt's locals go with it.
Forgets(w) ==
    /\ Goes(w, "idle")
    /\ row' = [row EXCEPT ![w] = <<1, 1>>]
    /\ attempt' = [attempt EXCEPT ![w] = 0]
    /\ delivered' = [delivered EXCEPT ![w] = FALSE]

\* The predicate that gates claim, dispatch and acknowledgement: the same
\* version of an active endpoint of an active persona, and an operation still
\* in the state announced.
Authorized(r) == ativa /\ active /\ version = r[1] /\ source = r[2]

Unleased(r) == owner[r] = {} \/ expired[r]
SpentLate(r) == tentativas[r] > MaxAttempts \/ old[r]
Spent(r)     == tentativas[r] >= MaxAttempts \/ old[r]

\* Rows that a claim closes before it takes one, and rows that it may take.
ClosableSpent(r) ==
    estado[r] = "pendente" /\ Unleased(r) /\ tentativas[r] >= MaxAttempts
Closable(r) ==
    estado[r] = "pendente" /\ Unleased(r) /\ (Spent(r) \/ ~Authorized(r))
Claimable(r) ==
    estado[r] = "pendente" /\ Unleased(r) /\ ~Spent(r) /\ Authorized(r)

\* The row is still this worker's claim.
HoldsRow(w) == estado[row[w]] = "pendente"
Holds(w) ==
    /\ estado[row[w]] = "pendente"
    /\ owner[row[w]] = {w} /\ tentativas[row[w]] = attempt[w]
    /\ ~expired[row[w]]

\* The attempt is counted before the network is used.
CountedLate(r) == tentativas' = tentativas
Counted(r) == tentativas' = [tentativas EXCEPT ![r] = @ + 1]

\* The state in which a finished attempt leaves its row.
OutcomeLost(w) ==
    IF Authorized(row[w]) THEN "entregue" ELSE "dead_letter"
OutcomeUnchecked(w) ==
    CASE delivered[w] -> "entregue"
      [] ~delivered[w] /\ Spent(row[w]) -> "dead_letter"
      [] OTHER -> "pendente"
Outcome(w) ==
    LET r == row[w] IN
    CASE ~Authorized(r) -> "dead_letter"
      [] Authorized(r) /\ delivered[w] -> "entregue"
      [] Authorized(r) /\ ~delivered[w] /\ Spent(r) -> "dead_letter"
      [] OTHER -> "pendente"

\* Every pending row of the persona is closed, leased or not.
Releases(released) ==
    /\ owner' = [r \in Rows |-> IF r \in released THEN {} ELSE owner[r]]
    /\ expired' = [r \in Rows |-> r \notin released /\ expired[r]]
Closes(closed) ==
    /\ estado' = [r \in Rows |->
          IF r \in closed THEN "dead_letter" ELSE estado[r]]
    /\ Releases(closed)
CloseEvery == Closes({r \in Rows : estado[r] # "ausente"})
ClosePending == Closes({r \in Rows : estado[r] = "pendente"})

-----------------------------------------------------------------------------
(* The endpoint, the persona and the producer: one transaction each.       *)

Configure ==
    /\ version < MaxVersion
    /\ version' = version + 1
    /\ \E a \in BOOLEAN :
        /\ IF a THEN ativa ELSE version > 0
        /\ active' = a
    /\ ClosePending
    /\ UNCHANGED <<ativa, source, tentativas, old, workers, network>>

\* disable_persona_notifications_v2.  Recovery does not restore the endpoint.
Suspend ==
    /\ ativa
    /\ active => version < MaxVersion
    /\ ativa' = FALSE
    /\ active' = FALSE
    /\ version' = IF active THEN version + 1 ELSE version
    /\ ClosePending
    /\ UNCHANGED <<source, tentativas, old, workers, network>>

Recover ==
    /\ ~ativa
    /\ ativa' = TRUE
    /\ UNCHANGED <<active, version, source, rows, workers, network>>

\* enqueue_persona_notification_v2, in the transaction of the state change.
Advance ==
    /\ source < MaxState
    /\ source' = source + 1
    /\ estado' = IF ativa /\ active
                 THEN [estado EXCEPT ![<<version, source + 1>>] = "pendente"]
                 ELSE estado
    /\ UNCHANGED <<endpoint, tentativas, owner, expired, old, workers, network>>

-----------------------------------------------------------------------------
(* A worker.                                                               *)

\* One transaction closes what may be closed and takes one row, if any is left.
Claim(w) ==
    LET closed == {r \in Rows : Closable(r)} IN
    /\ pc[w] = "idle"
    /\ \/ /\ \A r \in Rows : ~Claimable(r)
          /\ Closes(closed)
          /\ UNCHANGED <<tentativas, pc, claim>>
       \/ \E r \in Rows :
          /\ Claimable(r)
          /\ estado' = [i \in Rows |->
                IF i \in closed THEN "dead_letter" ELSE estado[i]]
          /\ owner' = [i \in Rows |-> IF i = r THEN {w}
                                      ELSE IF i \in closed THEN {} ELSE owner[i]]
          /\ expired' = [i \in Rows |-> i # r /\ i \notin closed /\ expired[i]]
          /\ Counted(r)
          /\ row' = [row EXCEPT ![w] = r]
          /\ attempt' = [attempt EXCEPT ![w] = tentativas'[r]]
          /\ Goes(w, "authorize")
    /\ UNCHANGED <<endpoint, source, old, delivered, network>>

\* authorize, before the address is resolved and again after it.
Authorize(w) ==
    /\ pc[w] \in {"authorize", "recheck"}
    /\ Holds(w) /\ ~old[row[w]] /\ Authorized(row[w])
    /\ Goes(w, IF pc[w] = "authorize" THEN "recheck" ELSE "post")
    /\ UNCHANGED <<endpoint, source, rows, claim, delivered, network>>

\* A refused check, a stop (SIGTERM), the resolution, the timeout, an answer
\* that is not 2xx or a failed query.
GivesUp(w) ==
    /\ pc[w] \in {"authorize", "recheck", "post", "await"}
    /\ delivered' = [delivered EXCEPT ![w] = FALSE]
    /\ Goes(w, "finish")
    /\ UNCHANGED <<endpoint, source, rows, claim, network>>

Post(w) ==
    LET r == row[w] IN
    /\ pc[w] = "post"
    /\ flying' = [flying EXCEPT ![r] = @ \cup {attempt[w]}]
    /\ posts' = [posts EXCEPT ![r] = @ + 1]
    /\ Goes(w, "await")
    /\ UNCHANGED <<endpoint, source, rows, claim, delivered, received>>

\* A 2xx answer.
Answered(w) ==
    /\ pc[w] = "await"
    /\ attempt[w] \in received[row[w]]
    /\ delivered' = [delivered EXCEPT ![w] = TRUE]
    /\ Goes(w, "finish")
    /\ UNCHANGED <<endpoint, source, rows, claim, network>>

\* A claim that is no longer held is left alone.
Finish(w) ==
    LET r == row[w] IN
    /\ pc[w] = "finish"
    /\ IF Holds(w)
       THEN /\ estado' = [estado EXCEPT ![r] = Outcome(w)]
            /\ Releases({r})
       ELSE UNCHANGED <<estado, owner, expired>>
    /\ Forgets(w)
    /\ UNCHANGED <<endpoint, source, tentativas, old, network>>

\* A process dies, or its finish fails: the claim stays until it expires.
Crash(w) ==
    /\ pc[w] # "idle"
    /\ Forgets(w)
    /\ UNCHANGED <<endpoint, source, rows, network>>

-----------------------------------------------------------------------------
(* Time, the network and the receiver.                                     *)

\* A slow worker may outlive its lease at any time.
LeaseExpires(r) ==
    /\ owner[r] # {} /\ ~expired[r]
    /\ expired' = [expired EXCEPT ![r] = TRUE]
    /\ UNCHANGED <<endpoint, source, estado, tentativas, owner, old, workers,
                   network>>

Ages(r) ==
    /\ estado[r] = "pendente" /\ ~old[r]
    /\ old' = [old EXCEPT ![r] = TRUE]
    /\ UNCHANGED <<endpoint, source, estado, tentativas, owner, expired,
                   workers, network>>

Receive(r) == \E a \in flying[r] :
    /\ flying' = [flying EXCEPT ![r] = @ \ {a}]
    /\ received' = [received EXCEPT ![r] = @ \cup {a}]
    /\ UNCHANGED <<endpoint, source, rows, workers, posts>>

Lose(r) == \E a \in flying[r] :
    /\ flying' = [flying EXCEPT ![r] = @ \ {a}]
    /\ UNCHANGED <<endpoint, source, rows, workers, received, posts>>

-----------------------------------------------------------------------------
Worker(w) ==
    \/ Claim(w) \/ Authorize(w) \/ GivesUp(w) \/ Post(w) \/ Answered(w)
    \/ Finish(w)

Time(r) == LeaseExpires(r) \/ Ages(r)

Next ==
    \/ Configure \/ Suspend \/ Recover \/ Advance
    \/ \E w \in Workers : Worker(w) \/ Crash(w)
    \/ \E r \in Rows : Time(r) \/ Receive(r) \/ Lose(r)

Spec == Init /\ [][Next]_vars

-----------------------------------------------------------------------------
(* Safety.                                                                 *)

\* A row is recorded as delivered only if the receiver had it: a failed,
\* stolen or crashed attempt never passes for a delivery.
DeliveredWasReceived ==
    \A r \in Rows : estado[r] = "entregue" => received[r] # {}

\* Crashes, restarts and lost answers never reset the budget: an event is
\* posted at most once per counted attempt, and at most MaxAttempts times.
WithinBudget ==
    \A r \in Rows : posts[r] <= tentativas[r] /\ tentativas[r] <= MaxAttempts

\* Both: a delivery is true, and took no more attempts than are allowed.
SoundDelivery == DeliveredWasReceived /\ WithinBudget

\* Deliveries are recorded in the order of what they announce: however late its
\* acknowledgement, none is recorded once a later state has been announced, nor
\* while a row of an earlier subscription is still under way (configuration
\* and suspension close leased rows too, and no worker brings one back).
InOrderStep ==
    \A r, q \in Rows :
        /\ estado[r] # "entregue" /\ estado'[r] = "entregue"
        /\ estado[q] # "ausente"
        => /\ q[2] <= r[2]
           /\ \/ q[1] = r[1]
              \/ q[1] < r[1] /\ estado[q] \in Terminal
DeliveredInOrder == [][InOrderStep]_vars

\* A delivery that ended stays as it ended: no late acknowledgement reopens
\* what configuration, suspension or another claim has closed, and no closing
\* touches what has ended (the guard of migration 0032 would raise, and undo
\* the configuration or the suspension with it).
TerminalStep ==
    \A r \in Rows : estado[r] \in Terminal => estado'[r] = estado[r]
TerminalStays == [][TerminalStep]_vars

\* A live claim ends by its own worker, by its expiry or by the closing of the
\* row with the subscription: a late worker never overwrites its successor.
SuccessorStep ==
    \A r \in Rows : \A w \in Workers :
        owner[r] = {w} /\ ~expired[r] /\ owner'[r] # {w} =>
            \/ pc[w] = "finish" /\ row[w] = r /\ attempt[w] = tentativas[r]
            \/ version' # version \/ ativa' # ativa
SuccessorKept == [][SuccessorStep]_vars

-----------------------------------------------------------------------------
(* Liveness.                                                               *)

\* A worker's step ends and its loop cycles (a process that stopped is started
\* again), and time passes.  Nothing is assumed of the receiver, and workers
\* may crash at any step.
FairSpec ==
    /\ Init /\ [][Next]_vars
    /\ \A w \in Workers : WF_vars(Worker(w))
    /\ \A r \in Rows : WF_vars(LeaseExpires(r)) /\ WF_vars(Ages(r))

\* No notification stays pending for ever, even if every attempt is lost.
PendingEnds ==
    \A r \in Rows : estado[r] = "pendente" ~> estado[r] \in Terminal
=============================================================================
