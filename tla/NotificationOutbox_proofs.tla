---------------------- MODULE NotificationOutbox_proofs ----------------------
(***************************************************************************)
(* Proofs about NotificationOutbox, for any finite number of workers and   *)
(* any numbers of attempts, versions of the endpoint and states.           *)
(***************************************************************************)
EXTENDS NotificationOutbox, FiniteSetTheorems, TLAPS

\* A busy worker is in an attempt, the first or a later one.
Numbered == \A w \in Workers : pc[w] # "idle" => attempt[w] \in 1..MaxAttempts

\* Workers that counted an attempt of the row and have not posted it yet.
Counting(r) ==
    {w \in Workers : row[w] = r /\ pc[w] \in {"authorize", "recheck", "post"}}

\* Each of them still owes the budget at most one POST.
Budgeted ==
    \A r \in Rows :
        /\ tentativas[r] \in Nat /\ tentativas[r] <= MaxAttempts
        /\ posts[r] \in Nat
        /\ posts[r] + Cardinality(Counting(r)) <= tentativas[r]

\* An answer in a worker's hands, or recorded, is one that the receiver gave.
Truthful ==
    /\ \A w \in Workers : delivered[w] => received[row[w]] # {}
    /\ \A r \in Rows : estado[r] = "entregue" => received[r] # {}

\* No row announces a state, or serves a subscription, that is still to come.
NotYet ==
    \A r \in Rows : r[1] > version \/ r[2] > source => estado[r] = "ausente"

\* What is under way serves the subscription that is in force.
Subscribed ==
    \A r \in Rows :
        estado[r] = "pendente" => ativa /\ active /\ version = r[1]

\* An idle worker holds no answer.
IdleHolds == \A w \in Workers : pc[w] = "idle" => ~delivered[w]

Inv ==
    /\ TypeOK /\ Numbered /\ IdleHolds /\ Budgeted /\ Truthful
    /\ NotYet /\ Subscribed

-----------------------------------------------------------------------------
(* The counted attempts                                                    *)

LEMMA FirstRow == <<1, 1>> \in Rows
  BY BoundsAssumption DEF Rows, Versions

LEMMA CountingFinite ==
    ASSUME NEW r
    PROVE  /\ IsFiniteSet(Counting(r)) /\ Cardinality(Counting(r)) \in Nat
           /\ IsFiniteSet(Counting(r)') /\ Cardinality(Counting(r)') \in Nat
<1>1. Counting(r) \in SUBSET Workers /\ Counting(r)' \in SUBSET Workers
  BY DEF Counting
<1>2. IsFiniteSet(Counting(r)) /\ IsFiniteSet(Counting(r)')
  BY <1>1, BoundsAssumption, FS_Subset
<1> QED BY <1>2, FS_CardinalityType

\* A worker that steps outside the counted places only may leave the count.
LEMMA CountingFalls ==
    ASSUME NEW w \in Workers, NEW r \in Rows,
           \A u \in Workers \ {w} : row'[u] = row[u] /\ pc'[u] = pc[u],
           \/ pc'[w] \notin {"authorize", "recheck", "post"}
           \/ row'[w] = row[w] /\ pc[w] \in {"authorize", "recheck", "post"}
    PROVE  /\ Cardinality(Counting(r)') <= Cardinality(Counting(r))
           /\ \/ pc'[w] \in {"authorize", "recheck", "post"}
              \/ pc[w] \notin {"authorize", "recheck", "post"}
              \/ row[w] # r
              \/ Cardinality(Counting(r)') = Cardinality(Counting(r)) - 1
<1>1. Counting(r)' \in SUBSET Counting(r)
  BY DEF Counting
<1>2. Cardinality(Counting(r)') <= Cardinality(Counting(r))
  BY <1>1, CountingFinite, FS_Subset
<1>3. ASSUME pc'[w] \notin {"authorize", "recheck", "post"},
             pc[w] \in {"authorize", "recheck", "post"}, row[w] = r
      PROVE  Cardinality(Counting(r)') = Cardinality(Counting(r)) - 1
  <2>1. Counting(r)' = Counting(r) \ {w} /\ w \in Counting(r)
    BY <1>3 DEF Counting
  <2> QED BY <2>1, CountingFinite, FS_RemoveElement
<1> QED BY <1>2, <1>3

\* A claim adds its worker to the count of its row and to no other.
LEMMA CountingRises ==
    ASSUME NEW w \in Workers, NEW r \in Rows,
           \A u \in Workers \ {w} : row'[u] = row[u] /\ pc'[u] = pc[u],
           pc[w] = "idle"
    PROVE  /\ Cardinality(Counting(r)') <= Cardinality(Counting(r)) + 1
           /\ row'[w] # r =>
                 Cardinality(Counting(r)') <= Cardinality(Counting(r))
<1>1. w \notin Counting(r)
  BY DEF Counting
<1>2. Counting(r)' \in SUBSET (Counting(r) \cup {w})
  BY DEF Counting
<1>3. /\ IsFiniteSet(Counting(r) \cup {w})
      /\ Cardinality(Counting(r) \cup {w}) = Cardinality(Counting(r)) + 1
  BY <1>1, CountingFinite, FS_AddElement
<1>4. Cardinality(Counting(r)') <= Cardinality(Counting(r)) + 1
  BY <1>2, <1>3, FS_Subset
<1>5. ASSUME row'[w] # r
      PROVE  Cardinality(Counting(r)') <= Cardinality(Counting(r))
  <2>1. Counting(r)' \in SUBSET Counting(r)
    BY <1>2, <1>5 DEF Counting
  <2> QED BY <2>1, CountingFinite, FS_Subset
<1> QED BY <1>4, <1>5

\* A step of none of the workers leaves every count.
LEMMA CountingStays ==
    ASSUME NEW r, UNCHANGED <<pc, row>>
    PROVE  Counting(r)' = Counting(r)
  BY DEF Counting

-----------------------------------------------------------------------------
(* Types                                                                   *)

LEMMA TypeInit == Init => TypeOK /\ Numbered
<1> SUFFICES ASSUME Init PROVE TypeOK /\ Numbered
  OBVIOUS
<1>1. 0 \in 0..MaxVersion /\ 0 \in 0..MaxState /\ 0 \in 0..MaxAttempts
  BY BoundsAssumption, LimitsAssumption
<1>2. /\ owner \in [Rows -> {{}} \cup {{w} : w \in Workers}]
      /\ flying \in [Rows -> SUBSET (1..MaxAttempts)]
      /\ received \in [Rows -> SUBSET (1..MaxAttempts)]
  BY DEF Init
<1>3. /\ row \in [Workers -> Rows]
      /\ attempt \in [Workers -> 0..MaxAttempts]
      /\ tentativas \in [Rows -> 0..MaxAttempts]
  BY <1>1, FirstRow DEF Init
<1>4. TypeOK
  BY <1>1, <1>2, <1>3 DEF Init, TypeOK
<1>5. Numbered
  BY DEF Init, Numbered
<1> QED BY <1>4, <1>5

LEMMA ForgetsTypes ==
    ASSUME TypeOK, NEW w \in Workers, Forgets(w)
    PROVE  /\ pc' \in [Workers -> {"idle", "authorize", "recheck", "post",
                                   "await", "finish"}]
           /\ row' \in [Workers -> Rows]
           /\ attempt' \in [Workers -> 0..MaxAttempts]
           /\ delivered' \in [Workers -> BOOLEAN]
<1>1. 0 \in 0..MaxAttempts
  BY LimitsAssumption
<1> QED BY <1>1, FirstRow DEF TypeOK, Forgets, Goes

LEMMA ClosesTypes ==
    ASSUME TypeOK, NEW closed, Closes(closed)
    PROVE  /\ estado' \in [Rows -> {"ausente", "pendente"} \cup Terminal]
           /\ owner' \in [Rows -> {{}} \cup {{w} : w \in Workers}]
           /\ expired' \in [Rows -> BOOLEAN]
  BY DEF TypeOK, Closes, Releases, Terminal

LEMMA CountedTypes ==
    ASSUME TypeOK, NEW r \in Rows, Claimable(r), Counted(r)
    PROVE  /\ tentativas' \in [Rows -> 0..MaxAttempts]
           /\ tentativas'[r] = tentativas[r] + 1
           /\ \A i \in Rows \ {r} : tentativas'[i] = tentativas[i]
<1>1. tentativas[r] \in 0..MaxAttempts /\ ~(tentativas[r] >= MaxAttempts)
  BY DEF TypeOK, Claimable, Spent
<1>2. tentativas[r] + 1 \in 0..MaxAttempts
  BY <1>1, LimitsAssumption
<1> QED BY <1>2 DEF TypeOK, Counted

LEMMA TypeStep == TypeOK /\ Numbered /\ [Next]_vars => TypeOK'
<1> SUFFICES ASSUME TypeOK, Numbered, [Next]_vars PROVE TypeOK'
  OBVIOUS
<1> USE DEF endpoint, rows, claim, workers, network, Goes
<1>1. CASE Configure
  <2>1. version' \in 0..MaxVersion
    BY <1>1, BoundsAssumption DEF TypeOK, Configure
  <2> QED BY <1>1, <2>1, ClosesTypes DEF TypeOK, Configure, ClosePending
<1>2. CASE Suspend
  <2>1. version' \in 0..MaxVersion
    BY <1>2, BoundsAssumption DEF TypeOK, Suspend
  <2> QED BY <1>2, <2>1, ClosesTypes DEF TypeOK, Suspend, ClosePending
<1>3. CASE Recover
  BY <1>3 DEF TypeOK, Recover
<1>4. CASE Advance
  <2>1. source' \in 0..MaxState
    BY <1>4, BoundsAssumption DEF TypeOK, Advance
  <2> QED BY <1>4, <2>1 DEF TypeOK, Advance
<1>5. ASSUME NEW w \in Workers, Claim(w) PROVE TypeOK'
  <2>1. CASE \E r \in Rows : Claimable(r) /\ pc'[w] = "authorize"
    <3>1. PICK r \in Rows :
            /\ Claimable(r) /\ Counted(r)
            /\ estado' = [i \in Rows |->
                 IF Closable(i) THEN "dead_letter" ELSE estado[i]]
            /\ owner' = [i \in Rows |-> IF i = r THEN {w}
                           ELSE IF Closable(i) THEN {} ELSE owner[i]]
            /\ expired' = [i \in Rows |->
                 i # r /\ ~Closable(i) /\ expired[i]]
            /\ row' = [row EXCEPT ![w] = r]
            /\ attempt' = [attempt EXCEPT ![w] = tentativas'[r]]
            /\ pc' = [pc EXCEPT ![w] = "authorize"]
      BY <1>5, <2>1 DEF Claim
    <3>2. tentativas' \in [Rows -> 0..MaxAttempts]
      BY <3>1, CountedTypes
    <3>3. attempt' \in [Workers -> 0..MaxAttempts]
      BY <3>1, <3>2 DEF TypeOK
    <3>4. /\ estado' \in [Rows -> {"ausente", "pendente"} \cup Terminal]
          /\ owner' \in [Rows -> {{}} \cup {{u} : u \in Workers}]
          /\ expired' \in [Rows -> BOOLEAN]
      BY <3>1 DEF TypeOK, Terminal
    <3> QED BY <1>5, <3>1, <3>2, <3>3, <3>4 DEF TypeOK, Claim
  <2>2. CASE \A r \in Rows : ~Claimable(r)
    BY <1>5, <2>2, ClosesTypes DEF TypeOK, Claim
  <2>3. \/ \A r \in Rows : ~Claimable(r)
        \/ pc'[w] = "authorize"
    BY <1>5 DEF Claim, TypeOK
  <2> QED BY <2>1, <2>2, <2>3
<1>6. ASSUME NEW w \in Workers,
             Authorize(w) \/ GivesUp(w) \/ Post(w) \/ Answered(w)
      PROVE  TypeOK'
  <2>1. CASE Authorize(w)
    BY <2>1 DEF TypeOK, Authorize
  <2>2. CASE GivesUp(w)
    BY <2>2 DEF TypeOK, GivesUp
  <2>3. CASE Answered(w)
    BY <2>3 DEF TypeOK, Answered
  <2>4. CASE Post(w)
    BY <2>4 DEF TypeOK, Numbered, Post
  <2> QED BY <1>6, <2>1, <2>2, <2>3, <2>4
<1>7. ASSUME NEW w \in Workers, Finish(w) PROVE TypeOK'
  <2>1. Outcome(w) \in {"ausente", "pendente"} \cup Terminal
    BY DEF Outcome, Terminal
  <2>2. /\ estado' \in [Rows -> {"ausente", "pendente"} \cup Terminal]
        /\ owner' \in [Rows -> {{}} \cup {{u} : u \in Workers}]
        /\ expired' \in [Rows -> BOOLEAN]
    BY <1>7, <2>1 DEF TypeOK, Finish, Releases
  <2> QED BY <1>7, <2>2, ForgetsTypes DEF TypeOK, Finish
<1>8. ASSUME NEW w \in Workers, Crash(w) PROVE TypeOK'
  BY <1>8, ForgetsTypes DEF TypeOK, Crash
<1>9. ASSUME NEW r \in Rows, Time(r) \/ Receive(r) \/ Lose(r) PROVE TypeOK'
  <2>1. CASE LeaseExpires(r)
    BY <2>1 DEF TypeOK, LeaseExpires
  <2>2. CASE Ages(r)
    BY <2>2 DEF TypeOK, Ages
  <2>3. CASE Receive(r)
    BY <2>3 DEF TypeOK, Receive
  <2>4. CASE Lose(r)
    BY <2>4 DEF TypeOK, Lose
  <2> QED BY <1>9, <2>1, <2>2, <2>3, <2>4 DEF Time
<1>10. CASE UNCHANGED vars
  BY <1>10 DEF vars, TypeOK
<1> QED BY <1>1, <1>2, <1>3, <1>4, <1>5, <1>6, <1>7, <1>8, <1>9, <1>10
        DEF Next, Worker

LEMMA NumberedStep == TypeOK /\ Numbered /\ [Next]_vars => Numbered'
<1> SUFFICES ASSUME TypeOK, Numbered, [Next]_vars PROVE Numbered'
  OBVIOUS
<1> USE DEF endpoint, rows, claim, workers, network, Goes
<1>1. CASE Configure \/ Suspend \/ Recover \/ Advance
  BY <1>1 DEF Numbered, Configure, Suspend, Recover, Advance
<1>2. ASSUME NEW w \in Workers, Claim(w) PROVE Numbered'
  <2>1. CASE UNCHANGED <<pc, claim>>
    BY <2>1 DEF Numbered
  <2>2. CASE ~UNCHANGED <<pc, claim>>
    <3>1. PICK r \in Rows :
            /\ Claimable(r) /\ Counted(r)
            /\ attempt' = [attempt EXCEPT ![w] = tentativas'[r]]
            /\ pc' = [pc EXCEPT ![w] = "authorize"]
      BY <1>2, <2>2 DEF Claim
    <3>2. /\ tentativas[r] \in 0..MaxAttempts
          /\ tentativas' \in [Rows -> 0..MaxAttempts]
          /\ tentativas'[r] = tentativas[r] + 1
      BY <3>1, CountedTypes DEF TypeOK
    <3>3. tentativas'[r] \in 1..MaxAttempts
      BY <3>2, LimitsAssumption
    <3> QED BY <3>1, <3>3 DEF TypeOK, Numbered
  <2> QED BY <2>1, <2>2
<1>3. ASSUME NEW w \in Workers,
             Authorize(w) \/ GivesUp(w) \/ Post(w) \/ Answered(w)
      PROVE  Numbered'
  BY <1>3 DEF TypeOK, Numbered, Authorize, GivesUp, Post, Answered
<1>4. ASSUME NEW w \in Workers, Finish(w) \/ Crash(w) PROVE Numbered'
  BY <1>4 DEF TypeOK, Numbered, Finish, Crash, Forgets
<1>5. ASSUME NEW r \in Rows, Time(r) \/ Receive(r) \/ Lose(r) PROVE Numbered'
  BY <1>5 DEF Numbered, Time, LeaseExpires, Ages, Receive, Lose
<1>6. CASE UNCHANGED vars
  BY <1>6 DEF vars, Numbered
<1> QED BY <1>1, <1>2, <1>3, <1>4, <1>5, <1>6 DEF Next, Worker

\* Every reachable state is of the declared types.
THEOREM OutboxTypes == Spec => []TypeOK
<1> QED BY TypeInit, TypeStep, NumberedStep, PTL DEF Spec

-----------------------------------------------------------------------------
(* The inductive invariant                                                 *)

LEMMA InitInv == Init => Inv
<1> SUFFICES ASSUME Init PROVE Inv
  OBVIOUS
<1>1. Budgeted
  <2> SUFFICES ASSUME NEW r \in Rows
               PROVE  /\ tentativas[r] = 0 /\ posts[r] = 0
                      /\ Cardinality(Counting(r)) = 0
    BY LimitsAssumption DEF Budgeted
  <2>1. Counting(r) = {}
    BY DEF Init, Counting
  <2> QED BY <2>1, FS_EmptySet DEF Init
<1>2. Truthful /\ NotYet /\ Subscribed /\ IdleHolds
  BY DEF Init, Truthful, NotYet, Subscribed, IdleHolds
<1> QED BY <1>1, <1>2, TypeInit DEF Inv

LEMMA BudgetedStep == Inv /\ [Next]_vars => Budgeted'
<1> SUFFICES ASSUME Inv, [Next]_vars, NEW r \in Rows
             PROVE  /\ tentativas'[r] \in Nat /\ tentativas'[r] <= MaxAttempts
                    /\ posts'[r] \in Nat
                    /\ posts'[r] + Cardinality(Counting(r)')
                          <= tentativas'[r]
  BY DEF Budgeted
<1>0. /\ TypeOK
      /\ tentativas[r] \in Nat /\ tentativas[r] <= MaxAttempts
      /\ posts[r] \in Nat
      /\ posts[r] + Cardinality(Counting(r)) <= tentativas[r]
      /\ Cardinality(Counting(r)) \in Nat
      /\ Cardinality(Counting(r)') \in Nat
      /\ MaxAttempts \in Nat
  BY CountingFinite, LimitsAssumption DEF Inv, Budgeted
<1>a. ASSUME Cardinality(Counting(r)') <= Cardinality(Counting(r)),
             UNCHANGED <<tentativas, posts>>
      PROVE  posts'[r] + Cardinality(Counting(r)') <= tentativas'[r]
  BY <1>0, <1>a
<1> USE DEF endpoint, rows, claim, workers, network, Goes
<1>1. CASE UNCHANGED <<tentativas, posts, pc, row>>
  BY <1>0, <1>1, <1>a, CountingStays
<1>2. ASSUME NEW w \in Workers, Claim(w), ~UNCHANGED <<pc, row>>
      PROVE  /\ tentativas'[r] \in Nat /\ tentativas'[r] <= MaxAttempts
             /\ posts'[r] \in Nat
             /\ posts'[r] + Cardinality(Counting(r)') <= tentativas'[r]
  <2>1. PICK i \in Rows :
          /\ Claimable(i) /\ Counted(i)
          /\ row' = [row EXCEPT ![w] = i]
          /\ pc' = [pc EXCEPT ![w] = "authorize"]
    BY <1>2 DEF Claim
  <2>2. pc[w] = "idle" /\ posts' = posts
    BY <1>2 DEF Claim
  <2>3. /\ \A u \in Workers \ {w} : row'[u] = row[u] /\ pc'[u] = pc[u]
        /\ row'[w] = i
    BY <1>0, <2>1 DEF TypeOK
  <2>4. /\ Cardinality(Counting(r)') <= Cardinality(Counting(r)) + 1
        /\ i # r => Cardinality(Counting(r)') <= Cardinality(Counting(r))
    BY <2>2, <2>3, CountingRises
  <2>5. /\ tentativas' \in [Rows -> 0..MaxAttempts]
        /\ tentativas'[i] = tentativas[i] + 1
        /\ \A j \in Rows \ {i} : tentativas'[j] = tentativas[j]
    BY <1>0, <2>1, CountedTypes
  <2>6. CASE i = r
    BY <1>0, <2>2, <2>4, <2>5, <2>6
  <2>7. CASE i # r
    BY <1>0, <2>2, <2>4, <2>5, <2>7
  <2> QED BY <2>6, <2>7
<1>3. ASSUME NEW w \in Workers, Post(w)
      PROVE  /\ tentativas'[r] \in Nat /\ tentativas'[r] <= MaxAttempts
             /\ posts'[r] \in Nat
             /\ posts'[r] + Cardinality(Counting(r)') <= tentativas'[r]
  <2>1. /\ \A u \in Workers \ {w} : row'[u] = row[u] /\ pc'[u] = pc[u]
        /\ pc'[w] = "await" /\ pc[w] = "post" /\ tentativas' = tentativas
        /\ posts' = [posts EXCEPT ![row[w]] = @ + 1]
    BY <1>0, <1>3 DEF Post, TypeOK
  <2>2. /\ Cardinality(Counting(r)') <= Cardinality(Counting(r))
        /\ row[w] = r =>
             Cardinality(Counting(r)') = Cardinality(Counting(r)) - 1
    BY <2>1, CountingFalls
  <2>3. CASE row[w] = r
    <3>1. posts'[r] = posts[r] + 1
      BY <1>0, <2>1, <2>3 DEF TypeOK
    <3> QED BY <1>0, <2>1, <2>2, <2>3, <3>1
  <2>4. CASE row[w] # r
    <3>1. posts'[r] = posts[r]
      BY <1>0, <2>1, <2>4 DEF TypeOK
    <3> QED BY <1>0, <2>1, <2>2, <3>1
  <2> QED BY <2>3, <2>4
<1>4. ASSUME NEW w \in Workers,
             Authorize(w) \/ GivesUp(w) \/ Answered(w) \/ Finish(w) \/ Crash(w)
      PROVE  /\ Cardinality(Counting(r)') <= Cardinality(Counting(r))
             /\ UNCHANGED <<tentativas, posts>>
  <2>1. /\ \A u \in Workers \ {w} : row'[u] = row[u] /\ pc'[u] = pc[u]
        /\ \/ pc'[w] \notin {"authorize", "recheck", "post"}
           \/ row'[w] = row[w] /\ pc[w] \in {"authorize", "recheck", "post"}
    <3>1. CASE Authorize(w)
      BY <1>0, <3>1 DEF TypeOK, Authorize
    <3>2. CASE GivesUp(w) \/ Answered(w)
      BY <1>0, <3>2 DEF TypeOK, GivesUp, Answered
    <3>3. CASE Finish(w) \/ Crash(w)
      BY <1>0, <3>3 DEF TypeOK, Finish, Crash, Forgets
    <3> QED BY <1>4, <3>1, <3>2, <3>3
  <2>2. Cardinality(Counting(r)') <= Cardinality(Counting(r))
    BY <2>1, CountingFalls
  <2> QED BY <1>4, <2>2 DEF Authorize, GivesUp, Answered, Finish, Crash
<1>5. ASSUME \/ Configure \/ Suspend \/ Recover \/ Advance
             \/ \E i \in Rows : Time(i) \/ Receive(i) \/ Lose(i)
             \/ UNCHANGED vars
      PROVE  UNCHANGED <<tentativas, posts, pc, row>>
  BY <1>5 DEF Configure, Suspend, Recover, Advance, Time, LeaseExpires, Ages,
              Receive, Lose, vars
<1>6. ASSUME NEW w \in Workers, Claim(w)
      PROVE  UNCHANGED <<tentativas, posts, pc, row>> \/ ~UNCHANGED <<pc, row>>
  <2>1. CASE \A i \in Rows : ~Claimable(i)
    BY <1>6, <2>1 DEF Claim
  <2>2. CASE \E i \in Rows : Claimable(i)
    <3>1. pc[w] = "idle" /\ pc' = [pc EXCEPT ![w] = "authorize"]
      BY <1>6, <2>2 DEF Claim
    <3> QED BY <1>0, <3>1 DEF TypeOK
  <2> QED BY <2>1, <2>2
<1> QED BY <1>0, <1>a, <1>1, <1>2, <1>3, <1>4, <1>5, <1>6 DEF Next, Worker

LEMMA IdleStep == Inv /\ [Next]_vars => IdleHolds'
<1> SUFFICES ASSUME Inv, [Next]_vars PROVE IdleHolds'
  OBVIOUS
<1>0. TypeOK /\ IdleHolds
  BY DEF Inv
<1> USE DEF endpoint, rows, claim, workers, network, Goes
<1>1. ASSUME NEW w \in Workers, Worker(w) \/ Crash(w) PROVE IdleHolds'
  BY <1>0, <1>1 DEF Worker, TypeOK, IdleHolds, Claim, Authorize, GivesUp, Post,
                    Answered, Finish, Crash, Forgets
<1>2. ASSUME ~\E w \in Workers : Worker(w) \/ Crash(w)
      PROVE  pc' = pc /\ delivered' = delivered
  BY <1>2 DEF Next, Configure, Suspend, Recover, Advance, Time, LeaseExpires,
              Ages, Receive, Lose, vars
<1> QED BY <1>0, <1>1, <1>2 DEF IdleHolds

\* What a step does to a row, but for the one that it announces: only a
\* pending row changes, and only its worker's acknowledgement delivers it.
LEMMA RowsChange ==
    ASSUME TypeOK, [Next]_vars, ~Advance, NEW r \in Rows
    PROVE  estado'[r] = estado[r] \/ estado[r] = "pendente"
<1> USE DEF endpoint, rows, claim, workers, network, Goes
<1>1. CASE Configure \/ Suspend
  BY <1>1 DEF Configure, Suspend, ClosePending, Closes
<1>2. ASSUME NEW w \in Workers, Claim(w)
      PROVE  estado'[r] = estado[r] \/ estado[r] = "pendente"
  BY <1>2 DEF Claim, Closes, Closable
<1>3. ASSUME NEW w \in Workers, Finish(w)
      PROVE  estado'[r] = estado[r] \/ estado[r] = "pendente"
  BY <1>3 DEF Finish, Holds, TypeOK
<1>4. ASSUME ~Configure, ~Suspend,
             ~\E w \in Workers : Claim(w) \/ Finish(w)
      PROVE  UNCHANGED estado
  BY <1>4 DEF Next, Worker, Recover, Authorize, GivesUp, Post, Answered, Crash,
              Time, LeaseExpires, Ages, Receive, Lose, vars
<1> QED BY <1>1, <1>2, <1>3, <1>4

LEMMA DeliveredByFinish ==
    ASSUME TypeOK, [Next]_vars, NEW r \in Rows,
           estado[r] # "entregue", estado'[r] = "entregue"
    PROVE  \E w \in Workers :
              Finish(w) /\ Holds(w) /\ row[w] = r /\ Outcome(w) = "entregue"
<1> USE DEF endpoint, rows, claim, workers, network, Goes
<1>1. ~Configure /\ ~Suspend
  BY DEF Configure, Suspend, ClosePending, Closes
<1>2. ~Advance
  BY DEF Advance, TypeOK
<1>3. ASSUME NEW w \in Workers PROVE ~Claim(w)
  BY DEF Claim, Closes
<1>4. PICK w \in Workers : Finish(w)
  BY <1>1, <1>2, <1>3
     DEF Next, Worker, Recover, Authorize, GivesUp, Post, Answered, Crash,
         Time, LeaseExpires, Ages, Receive, Lose, vars
<1>5. Holds(w) /\ row[w] = r /\ Outcome(w) = "entregue"
  BY <1>4 DEF Finish, TypeOK
<1> QED BY <1>4, <1>5

LEMMA TruthfulStep == Inv /\ [Next]_vars => Truthful'
<1> SUFFICES ASSUME Inv, [Next]_vars PROVE Truthful'
  OBVIOUS
<1>0. TypeOK /\ Truthful
  BY DEF Inv
<1> USE DEF endpoint, rows, claim, workers, network, Goes
\* What was received stays so.
<1>1. \A r \in Rows : received[r] # {} => received'[r] # {}
  <2>1. ASSUME NEW i \in Rows, Receive(i), NEW r \in Rows, received[r] # {}
        PROVE  received'[r] # {}
    BY <1>0, <2>1 DEF Receive, TypeOK
  <2>2. ASSUME ~\E i \in Rows : Receive(i)
        PROVE  UNCHANGED received
    BY <2>2 DEF Next, Worker, Configure, Suspend, Recover, Advance, Claim,
                Authorize, GivesUp, Post, Answered, Finish, Crash, Time,
                LeaseExpires, Ages, Lose, vars
  <2> QED BY <2>1, <2>2
<1>2. ASSUME NEW w \in Workers, delivered'[w]
      PROVE  received'[row'[w]] # {}
  <2>1. CASE delivered[w] /\ row'[w] = row[w]
    BY <1>0, <1>1, <2>1 DEF Truthful, TypeOK
  <2>2. ASSUME ~(delivered[w] /\ row'[w] = row[w])
        PROVE  received'[row'[w]] # {}
    <3>1. ASSUME NEW u \in Workers, Answered(u)
          PROVE  received'[row'[w]] # {}
      <4>1. received[row[u]] # {} /\ row' = row /\ received' = received
        BY <3>1 DEF Answered
      <4>2. delivered'[w] = delivered[w] \/ w = u
        BY <1>0, <3>1 DEF Answered, TypeOK
      <4> QED BY <1>2, <2>2, <4>1, <4>2
    <3>2. ASSUME NEW u \in Workers,
                 \/ Claim(u) \/ Authorize(u) \/ GivesUp(u) \/ Post(u)
                 \/ Finish(u) \/ Crash(u)
          PROVE  ~delivered'[w] \/ delivered[w]
      BY <1>0, <3>2 DEF TypeOK, Claim, Authorize, GivesUp, Post, Finish, Crash,
                        Forgets
    <3>3. ASSUME \/ Configure \/ Suspend \/ Recover \/ Advance
                 \/ \E r \in Rows : Time(r) \/ Receive(r) \/ Lose(r)
                 \/ UNCHANGED vars
          PROVE  row' = row /\ delivered' = delivered
      BY <3>3 DEF Configure, Suspend, Recover, Advance, Time, LeaseExpires,
                  Ages, Receive, Lose, vars
    <3>4. ASSUME NEW u \in Workers,
                 \/ Claim(u) \/ Authorize(u) \/ GivesUp(u) \/ Post(u)
                 \/ Finish(u) \/ Crash(u)
          PROVE  delivered'[w] => row'[w] = row[w]
      <4>1. CASE Claim(u)
        <5>1. CASE u = w
          <6>1. ~delivered[w]
            BY <4>1, <5>1 DEF Claim, Inv, IdleHolds
          <6> QED BY <1>0, <4>1, <6>1 DEF Claim
        <5>2. CASE u # w
          BY <1>0, <4>1, <5>2 DEF Claim, TypeOK
        <5> QED BY <5>1, <5>2
      <4>2. CASE Authorize(u) \/ GivesUp(u) \/ Post(u)
        BY <4>2 DEF Authorize, GivesUp, Post
      <4>3. CASE Finish(u) \/ Crash(u)
        BY <1>0, <4>3 DEF Finish, Crash, Forgets, TypeOK
      <4> QED BY <3>4, <4>1, <4>2, <4>3
    <3> QED BY <1>2, <2>2, <3>1, <3>2, <3>3, <3>4 DEF Next, Worker
  <2> QED BY <2>1, <2>2
<1>3. ASSUME NEW r \in Rows, estado'[r] = "entregue"
      PROVE  received'[r] # {}
  <2>1. CASE estado[r] = "entregue"
    BY <1>0, <1>1, <2>1 DEF Truthful
  <2>2. CASE estado[r] # "entregue"
    <3>1. PICK w \in Workers :
            Finish(w) /\ row[w] = r /\ Outcome(w) = "entregue"
      BY <1>0, <1>3, <2>2, DeliveredByFinish
    <3>2. delivered[w]
      BY <3>1 DEF Outcome
    <3> QED BY <1>0, <1>1, <3>1, <3>2 DEF Truthful
  <2> QED BY <2>1, <2>2
<1> QED BY <1>2, <1>3 DEF Truthful

LEMMA NotYetStep == Inv /\ [Next]_vars => NotYet'
<1> SUFFICES ASSUME Inv, [Next]_vars, NEW r \in Rows,
                    r[1] > version' \/ r[2] > source'
             PROVE  estado'[r] = "ausente"
  BY DEF NotYet
<1>0. /\ TypeOK /\ source \in Nat /\ r[2] \in Nat
      /\ version \in Nat /\ r[1] \in Nat
  BY BoundsAssumption DEF Inv, TypeOK, Rows, Versions
<1> USE DEF endpoint, rows, claim, workers, network, Goes
<1>1. /\ source' = source \/ source' = source + 1
      /\ version' = version \/ version' = version + 1
  BY DEF Next, Worker, Configure, Suspend, Recover, Advance, Claim, Authorize,
         GivesUp, Post, Answered, Finish, Crash, Time, LeaseExpires, Ages,
         Receive, Lose, vars
<1>2. estado[r] = "ausente"
  BY <1>0, <1>1 DEF Inv, NotYet
<1>3. CASE Advance
  <2>1. r # <<version, source + 1>>
    BY <1>0, <1>3 DEF Advance, Rows
  <2> QED BY <1>0, <1>2, <1>3, <2>1 DEF Advance, TypeOK
<1>4. CASE ~Advance
  BY <1>0, <1>2, <1>4, RowsChange
<1> QED BY <1>3, <1>4

LEMMA SubscribedStep == Inv /\ [Next]_vars => Subscribed'
<1> SUFFICES ASSUME Inv, [Next]_vars, NEW r \in Rows, estado'[r] = "pendente"
             PROVE  ativa' /\ active' /\ version' = r[1]
  BY DEF Subscribed
<1>0. TypeOK
  BY DEF Inv
<1> USE DEF endpoint, rows, claim, workers, network, Goes
<1>1. CASE Configure \/ Suspend
  <2>1. ClosePending
    BY <1>1 DEF Configure, Suspend
  <2> QED BY <2>1 DEF ClosePending, Closes
<1>2. CASE Advance
  <2>1. CASE estado[r] = "pendente"
    BY <1>2, <2>1 DEF Inv, Subscribed, Advance
  <2>2. CASE estado[r] # "pendente"
    <3>1. ativa /\ active /\ r = <<version, source + 1>>
      BY <1>0, <1>2, <2>2 DEF Advance, TypeOK
    <3> QED BY <1>2, <3>1 DEF Advance
  <2> QED BY <2>1, <2>2
<1>3. CASE Recover
  BY <1>3 DEF Inv, Subscribed, Recover
<1>4. CASE ~Configure /\ ~Suspend /\ ~Advance /\ ~Recover
  <2>1. UNCHANGED endpoint
    BY <1>4 DEF Next, Worker, Claim, Authorize, GivesUp, Post, Answered, Finish,
                Crash, Time, LeaseExpires, Ages, Receive, Lose, vars
  <2>2. estado[r] = "pendente"
    BY <1>0, <1>4, RowsChange
  <2> QED BY <2>1, <2>2 DEF Inv, Subscribed
<1> QED BY <1>1, <1>2, <1>3, <1>4

LEMMA InvStep == Inv /\ [Next]_vars => Inv'
  BY TypeStep, NumberedStep, BudgetedStep, TruthfulStep, NotYetStep,
     SubscribedStep, IdleStep
     DEF Inv

THEOREM OutboxInvariant == Spec => []Inv
<1> QED BY InitInv, InvStep, PTL DEF Spec

-----------------------------------------------------------------------------
(* What follows from it                                                    *)

\* A row recorded as delivered was received, and was posted no more often
\* than its attempts were counted (claim, authorize, finish).
THEOREM DeliveriesAreSound == Spec => []SoundDelivery
<1>1. Inv => SoundDelivery
  <2> SUFFICES ASSUME Inv PROVE SoundDelivery
    OBVIOUS
  <2>1. DeliveredWasReceived
    BY DEF Inv, Truthful, DeliveredWasReceived
  <2>2. ASSUME NEW r \in Rows
        PROVE  posts[r] <= tentativas[r] /\ tentativas[r] <= MaxAttempts
    <3>1. /\ tentativas[r] \in Nat /\ tentativas[r] <= MaxAttempts
          /\ posts[r] \in Nat /\ Cardinality(Counting(r)) \in Nat
          /\ posts[r] + Cardinality(Counting(r)) <= tentativas[r]
      BY CountingFinite DEF Inv, Budgeted
    <3> QED BY <3>1
  <2> QED BY <2>1, <2>2 DEF SoundDelivery, WithinBudget
<1> QED BY <1>1, OutboxInvariant, PTL

\* Deliveries are recorded in the order of what they announce, and none before
\* the rows of every earlier subscription have ended (finish, the closing by
\* configuration and suspension).
THEOREM DeliveriesAreInOrder == Spec => DeliveredInOrder
<1>1. Inv /\ [Next]_vars => InOrderStep
  <2> SUFFICES ASSUME Inv, [Next]_vars, NEW r \in Rows, NEW q \in Rows,
                      estado[r] # "entregue", estado'[r] = "entregue",
                      estado[q] # "ausente"
               PROVE  /\ q[2] <= r[2]
                      /\ \/ q[1] = r[1]
                         \/ q[1] < r[1] /\ estado[q] \in Terminal
    BY DEF InOrderStep
  <2>1. PICK w \in Workers : row[w] = r /\ Outcome(w) = "entregue"
    BY DeliveredByFinish DEF Inv
  <2>2. version = r[1] /\ source = r[2]
    BY <2>1 DEF Outcome, Authorized
  <2>3. q[1] \in Nat /\ q[2] \in Nat /\ version \in Nat /\ source \in Nat
    BY BoundsAssumption DEF Inv, TypeOK, Rows, Versions
  <2>4. q[1] <= r[1] /\ q[2] <= r[2]
    BY <2>2, <2>3 DEF Inv, NotYet
  <2>5. q[1] # r[1] => estado[q] \in Terminal
    BY <2>2 DEF Inv, Subscribed, TypeOK
  <2> QED BY <2>2, <2>3, <2>4, <2>5
<1> QED BY <1>1, OutboxInvariant, PTL DEF Spec, DeliveredInOrder

\* No step reopens or closes again what has ended: a late acknowledgement
\* finds its claim gone, and a state is announced once.
THEOREM EndedStaysEnded == Spec => TerminalStays
<1>1. Inv /\ [Next]_vars => TerminalStep
  <2> SUFFICES ASSUME Inv, [Next]_vars, NEW r \in Rows, estado[r] \in Terminal
               PROVE  estado'[r] = estado[r]
    BY DEF TerminalStep
  <2>1. estado[r] # "pendente" /\ estado[r] # "ausente"
    BY DEF Terminal
  <2>2. CASE Advance
    <3>1. <<version, source + 1>> # r
      <4>1. r[2] \in Nat /\ source \in Nat /\ ~(r[2] > source)
        BY <2>1, BoundsAssumption DEF Inv, NotYet, TypeOK, Rows
      <4>2. r[2] # source + 1
        BY <4>1
      <4> QED BY <4>2
    <3> QED BY <2>2, <3>1 DEF Advance, Inv, TypeOK
  <2>3. CASE ~Advance
    BY <2>1, <2>3, RowsChange DEF Inv
  <2> QED BY <2>2, <2>3
<1> QED BY <1>1, OutboxInvariant, PTL DEF Spec, TerminalStays

\* A live claim ends by its own worker or with the subscription, and never by
\* a worker whose own claim of the row has expired (finish).
THEOREM ClaimsEndByTheirWorker == Spec => SuccessorKept
<1>1. Inv /\ [Next]_vars => SuccessorStep
  <2> SUFFICES ASSUME Inv, [Next]_vars, NEW r \in Rows, NEW w \in Workers,
                      owner[r] = {w}, ~expired[r], owner'[r] # {w}
               PROVE  \/ /\ pc[w] = "finish" /\ row[w] = r
                         /\ attempt[w] = tentativas[r]
                      \/ version' # version \/ ativa' # ativa
    BY DEF SuccessorStep
  <2>0. TypeOK /\ ~Unleased(r)
    BY DEF Inv, Unleased
  <2> USE DEF endpoint, rows, claim, workers, network, Goes
  <2>1. CASE Configure
    BY <2>0, <2>1, BoundsAssumption DEF Configure, TypeOK
  <2>2. CASE Suspend
    BY <2>2 DEF Suspend
  <2>3. ASSUME NEW u \in Workers, Claim(u) PROVE FALSE
    BY <2>0, <2>3 DEF Claim, Closes, Releases, Closable, Claimable
  <2>4. ASSUME NEW u \in Workers, Finish(u)
        PROVE  /\ pc[w] = "finish" /\ row[w] = r
               /\ attempt[w] = tentativas[r]
    <3>1. Holds(u) /\ row[u] = r
      BY <2>0, <2>4 DEF Finish, Releases, TypeOK
    <3>2. u = w
      BY <3>1 DEF Holds
    <3> QED BY <2>4, <3>1, <3>2 DEF Finish, Holds
  <2>5. CASE ~Configure /\ ~Suspend
             /\ ~\E u \in Workers : Claim(u) \/ Finish(u)
    BY <2>5 DEF Next, Worker, Recover, Advance, Authorize, GivesUp, Post,
                Answered, Crash, Time, LeaseExpires, Ages, Receive, Lose, vars
  <2> QED BY <2>1, <2>2, <2>3, <2>4, <2>5
<1> QED BY <1>1, OutboxInvariant, PTL DEF Spec, SuccessorKept
=============================================================================
