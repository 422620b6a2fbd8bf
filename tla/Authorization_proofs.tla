------------------------ MODULE Authorization_proofs ------------------------
(***************************************************************************)
(* Proofs about how a browser hands over authority: TemporarySetups, for   *)
(* any number of links, posts, requests of the owner, records and          *)
(* versions, and OAuthTokens, for any transactions, calls, workers,        *)
(* lifetimes and bounds.                                                   *)
(***************************************************************************)
EXTENDS TemporarySetups, OAuthTokens, SequenceTheorems, FiniteSetTheorems,
        TLAPS

\* A request that will save has a version to save; a row has a record.
Below ==
    /\ local.version = 0 => local.remote = None
    /\ local.version > 0 => local.remote \in Remote
    /\ \A o \in Owner :
         /\ owners[o].phase \in {"old", "end old", "create", "save"}
              => /\ owners[o].expected < MaxVersion
                 /\ owners[o].expected <= local.version
         /\ owners[o].phase \in {"end old", "save"} => owners[o].remote \in Remote

\* A link that is not used yet has changed nothing.
Unused ==
    \A s \in Setup :
        /\ setups[s].state \in {"none", "open"} => done[s] = 0
        /\ done[s] <= 1

\* A post carries its link as it was made.
Carries ==
    \A c \in Call :
        calls[c].setup # None =>
            /\ setups[calls[c].setup].state # "none"
            /\ calls[c].link.delegation = setups[calls[c].setup].delegation
            /\ calls[c].link.token = setups[calls[c].setup].token
            /\ calls[c].phase = "write" => calls[c].round = 2

\* What a request has verified is not after the row, is the row's record if
\* it is the row's version, and is not before the version of the link.
Verified ==
    \A c \in Call :
        /\ calls[c].phase \in {"ask", "again", "write"} =>
             /\ calls[c].version <= local.version
             /\ calls[c].version = local.version => calls[c].remote = local.remote
        /\ calls[c].setup # None /\ calls[c].round = 2 =>
             /\ calls[c].link.delegation <= local.version
             /\ calls[c].phase \in {"ask", "again", "write"}
                  => calls[c].link.delegation <= calls[c].version

\* While the row is as a renewal saw it, the record it replaces is the row's,
\* and once past it, that record is ended.
Replaced ==
    \A o \in Owner : owners[o].expected = local.version =>
        /\ owners[o].phase = "end old" => owners[o].remote = local.remote
        /\ owners[o].phase \in {"create", "save"} =>
             \/ local.version = 0 \/ local.revoked
             \/ hub[local.remote] = "ended"

Inv == TypeOK /\ Below /\ Unused /\ Carries /\ Verified /\ Replaced

-----------------------------------------------------------------------------
(* What holds at the start                                                  *)

LEMMA NoneTyped ==
    NoSetup \in SetupType /\ NoCall \in CallType /\ NoOwner \in OwnerType
<1>1. 0 \in Version /\ 1 \in Change
  BY BoundAssumption DEF Version, Change
<1> QED BY <1>1 DEF NoSetup, NoCall, NoOwner, SetupType, CallType, OwnerType,
                    Kinds

LEMMA InitInv == Init => Inv
<1> SUFFICES ASSUME Init PROVE Inv
  OBVIOUS
<1>1. TypeOK
  <2>1. 0 \in Version /\ 1 \in Change
    BY BoundAssumption DEF Version, Change
  <2> QED BY <2>1, NoneTyped DEF Init, TypeOK
<1>2. /\ local.version = 0 /\ local.remote = None
      /\ \A o \in Owner : owners[o].phase = "idle"
      /\ \A s \in Setup : done[s] = 0
      /\ \A c \in Call : calls[c].setup = None /\ calls[c].phase = "idle"
  BY DEF Init, NoOwner, NoCall
<1>3. Below /\ Unused
  <2>1. ASSUME NEW s \in Setup
        PROVE  done[s] = 0 /\ done[s] <= 1
    <3>1. done[s] = 0
      BY <1>2
    <3> QED BY <3>1
  <2>2. ASSUME NEW o \in Owner
        PROVE  owners[o].phase \notin {"old", "end old", "create", "save"}
    BY <1>2
  <2>3. ~(local.version > 0) /\ local.remote = None
    BY <1>2
  <2>4. Below
    BY <2>2, <2>3 DEF Below
  <2>5. Unused
    BY <2>1 DEF Unused
  <2> QED BY <2>4, <2>5
<1>4. Carries /\ Verified /\ Replaced
  BY <1>2 DEF Carries, Verified, Replaced
<1> QED BY <1>1, <1>2, <1>3, <1>4 DEF Inv

-----------------------------------------------------------------------------
(* What a request or a post does to the calls alone                         *)

\* The steps that change nothing but the call.
CallOnly(c) ==
    \/ \E k \in Kinds : BeginStart(c, k)
    \/ \E s \in Setup : Inspect(c, s)
    \/ ReadLocal(c) \/ AskHub(c) \/ ReadAgain(c) \/ GiveUp(c)

\* A call keeps to Carries and Verified.
Fits(kept) ==
    /\ kept.setup # None =>
         /\ setups[kept.setup].state # "none"
         /\ kept.link.delegation = setups[kept.setup].delegation
         /\ kept.link.token = setups[kept.setup].token
         /\ kept.phase = "write" => kept.round = 2
    /\ kept.phase \in {"ask", "again", "write"} =>
         /\ kept.version <= local.version
         /\ kept.version = local.version => kept.remote = local.remote
    /\ kept.setup # None /\ kept.round = 2 =>
         /\ kept.link.delegation <= local.version
         /\ kept.phase \in {"ask", "again", "write"}
              => kept.link.delegation <= kept.version

Kept(c) ==
    \E kept \in CallType : Fits(kept) /\ calls' = [calls EXCEPT ![c] = kept]

LEMMA EndsKept ==
    ASSUME TypeOK, NEW c \in Call, Ends(c)
    PROVE  Kept(c)
<1>1. Fits(NoCall)
  BY DEF Fits, NoCall
<1> QED BY <1>1, NoneTyped DEF Kept, Ends

LEMMA CallOnlyKept ==
    ASSUME Inv, NEW c \in Call, CallOnly(c)
    PROVE  Kept(c)
<1>0. /\ calls \in [Call -> CallType] /\ calls[c] \in CallType
      /\ local.version \in Version /\ local.remote \in Remote \cup {None}
      /\ now.token \in Change /\ now.target \in Change
      /\ local.version \in Nat /\ setups \in [Setup -> SetupType]
  BY DEF Inv, TypeOK, Version
<1>1. ASSUME NEW k \in Kinds, BeginStart(c, k) PROVE Kept(c)
  <2> DEFINE link == [NoSetup EXCEPT !.kind = k, !.token = now.token,
                        !.target = IF k = "rotate" THEN now.target ELSE @]
             kept == [NoCall EXCEPT !.phase = "read", !.link = link]
  <2>1. link \in SetupType
    BY <1>0, <1>1, NoneTyped DEF SetupType
  <2>2. /\ kept \in CallType
        /\ kept.phase = "read" /\ kept.setup = None
    <3> HIDE DEF link
    <3> QED BY <2>1, NoneTyped DEF CallType, NoCall
  <2>3. calls' = [calls EXCEPT ![c] = kept]
    BY <1>0, <1>1 DEF BeginStart
  <2> HIDE DEF kept
  <2>4. Fits(kept)
    BY <2>2 DEF Fits
  <2> QED BY <2>2, <2>3, <2>4 DEF Kept
<1>2. ASSUME NEW s \in Setup, Inspect(c, s) PROVE Kept(c)
  <2> DEFINE kept == [NoCall EXCEPT !.phase = "read", !.setup = s,
                                    !.link = setups[s]]
  <2>1. /\ kept \in CallType /\ kept.phase = "read" /\ kept.setup = s
        /\ kept.link = setups[s] /\ kept.round = 1
    BY <1>0, NoneTyped DEF CallType, NoCall
  <2>2. calls' = [calls EXCEPT ![c] = kept]
    BY <1>0, <1>2 DEF Inspect
  <2>3. setups[s].state # "none"
    BY <1>2 DEF Inspect
  <2> HIDE DEF kept
  <2>4. Fits(kept)
    BY <2>1, <2>3 DEF Fits
  <2> QED BY <2>1, <2>2, <2>4 DEF Kept
<1>3. CASE ReadLocal(c)
  <2>1. CASE Live /\ now.token = calls[c].link.token
    <3> DEFINE kept == [calls[c] EXCEPT !.phase = "ask", !.remote = local.remote,
                                        !.version = local.version]
    <3>1. /\ kept \in CallType /\ kept.phase = "ask"
          /\ kept.remote = local.remote /\ kept.version = local.version
          /\ kept.setup = calls[c].setup /\ kept.link = calls[c].link
          /\ kept.round = calls[c].round
      BY <1>0 DEF CallType
    <3>2. calls' = [calls EXCEPT ![c] = kept]
      BY <1>0, <1>3, <2>1 DEF ReadLocal, CallType
    <3>3. calls[c].setup # None /\ calls[c].round = 2
            => calls[c].link.delegation <= local.version
      BY DEF Inv, Verified
    <3>4. calls[c].setup # None =>
            /\ setups[calls[c].setup].state # "none"
            /\ calls[c].link.delegation = setups[calls[c].setup].delegation
            /\ calls[c].link.token = setups[calls[c].setup].token
      BY DEF Inv, Carries
    <3>5. local.version <= local.version
      BY <1>0
    <3> HIDE DEF kept
    <3>6. Fits(kept)
      BY <3>1, <3>3, <3>4, <3>5 DEF Fits
    <3> QED BY <3>1, <3>2, <3>6 DEF Kept
  <2>2. CASE ~(Live /\ now.token = calls[c].link.token)
    BY <1>3, <2>2, EndsKept DEF ReadLocal, Inv
  <2> QED BY <2>1, <2>2
<1>4. CASE AskHub(c)
  <2>1. CASE hub[calls[c].remote] = "active"
    <3> DEFINE kept == [calls[c] EXCEPT !.phase = "again"]
    <3>1. /\ kept \in CallType /\ kept.phase = "again"
          /\ kept.remote = calls[c].remote /\ kept.version = calls[c].version
          /\ kept.setup = calls[c].setup /\ kept.link = calls[c].link
          /\ kept.round = calls[c].round
      BY <1>0 DEF CallType
    <3>2. calls' = [calls EXCEPT ![c] = kept]
      BY <1>0, <1>4, <2>1 DEF AskHub
    <3>3. calls[c].phase = "ask"
      BY <1>4 DEF AskHub
    <3> HIDE DEF kept
    <3>4. Fits(kept)
      BY <3>1, <3>3 DEF Fits, Inv, Carries, Verified
    <3> QED BY <3>1, <3>2, <3>4 DEF Kept
  <2>2. CASE ~(hub[calls[c].remote] = "active")
    BY <1>4, <2>2, EndsKept DEF AskHub, Inv
  <2> QED BY <2>1, <2>2
<1>5. CASE ReadAgain(c)
  <2> DEFINE kept == calls[c]
             starts == kept.setup = None
             holds == /\ Live /\ local.version = kept.version
                      /\ starts \/ kept.round = 2
                            \/ kept.version = kept.link.delegation
             next == [kept EXCEPT
                 !.phase = IF starts \/ kept.round = 2 THEN "write" ELSE "read",
                 !.round = 2,
                 !.link.delegation = IF starts THEN kept.version ELSE @]
  <2>1. CASE holds
    <3>1. /\ next.phase = (IF starts \/ kept.round = 2 THEN "write" ELSE "read")
          /\ next.round = 2 /\ next.setup = kept.setup
          /\ next.remote = kept.remote /\ next.version = kept.version
          /\ next.link = [kept.link EXCEPT !.delegation =
                            IF starts THEN kept.version ELSE @]
          /\ next \in CallType
      BY <1>0 DEF CallType, SetupType
    <3>2. calls' = [calls EXCEPT ![c] = next]
      BY <1>0, <1>5, <2>1 DEF ReadAgain, CallType, SetupType
    <3>3. /\ ~starts => next.link = kept.link
          /\ kept.phase = "again"
          /\ kept.version \in Nat /\ local.version \in Nat
      BY <1>0, <1>5, <3>1 DEF ReadAgain, CallType, SetupType, Version
    <3>4. next.setup # None =>
            /\ setups[next.setup].state # "none"
            /\ next.link.delegation = setups[next.setup].delegation
            /\ next.link.token = setups[next.setup].token
      BY <3>1, <3>3 DEF Inv, Carries
    <3>5. next.setup # None => next.link.delegation <= next.version
      <4>1. kept.link.delegation \in Nat
        BY <1>0 DEF CallType, SetupType, Version
      <4> QED BY <2>1, <3>1, <3>3, <4>1 DEF Inv, Verified
    <3>6. local.version = kept.version /\ kept.remote = local.remote
      BY <2>1, <3>3 DEF Inv, Verified
    <3> HIDE DEF next
    <3>7. Fits(next)
      BY <3>1, <3>3, <3>4, <3>5, <3>6 DEF Fits
    <3> QED BY <3>1, <3>2, <3>7 DEF Kept
  <2>2. CASE ~holds
    BY <1>5, <2>2, EndsKept DEF ReadAgain, Inv
  <2> QED BY <2>1, <2>2
<1>6. CASE GiveUp(c)
  BY <1>6, EndsKept DEF GiveUp, Inv
<1> QED BY <1>1, <1>2, <1>3, <1>4, <1>5, <1>6 DEF CallOnly

\* A call that keeps to them leaves all the others as they were.
LEMMA KeptInv ==
    ASSUME Inv, NEW c \in Call, Kept(c),
           UNCHANGED <<local, hub, now, setups, done, owners>>
    PROVE  Inv'
<1> PICK kept \in CallType : Fits(kept) /\ calls' = [calls EXCEPT ![c] = kept]
  BY DEF Kept
<1>0. \A d \in Call : calls'[d] = IF d = c THEN kept ELSE calls[d]
  BY DEF Inv, TypeOK
<1>1. TypeOK'
  BY DEF Inv, TypeOK
<1>2. Below' /\ Unused' /\ Replaced'
  BY DEF Inv, Below, Unused, Replaced
<1>3. \A d \in Call : Fits(calls[d]) /\ Fits(calls'[d])
  BY <1>0 DEF Fits, Inv, Carries, Verified
<1>4. Carries' /\ Verified'
  BY <1>3 DEF Fits, Carries, Verified
<1> QED BY <1>1, <1>2, <1>4 DEF Inv

-----------------------------------------------------------------------------
(* The transactions of the links                                            *)

LEMMA CreateInv ==
    ASSUME Inv, NEW c \in Call, NEW s \in Setup, Create(c, s)
    PROVE  Inv'
<1> DEFINE link == [calls[c].link EXCEPT !.state = "open"]
<1>1. /\ setups' = [setups EXCEPT ![s] = link] /\ Ends(c)
      /\ setups[s].state = "none"
      /\ UNCHANGED <<local, hub, now, done, owners>>
  BY DEF Create
<1>2. link \in SetupType /\ link.state = "open"
  BY DEF Inv, TypeOK, CallType, SetupType
<1> HIDE DEF link
<1>3. TypeOK'
  BY <1>1, <1>2, NoneTyped DEF Inv, TypeOK, Ends
<1>4. Below' /\ Replaced'
  BY <1>1 DEF Inv, Below, Replaced
<1>5. \A t \in Setup : setups'[t] = IF t = s THEN link ELSE setups[t]
  BY <1>1 DEF Inv, TypeOK
<1>6. Unused'
  BY <1>1, <1>2, <1>5 DEF Inv, Unused
<1>7. \A d \in Call : calls'[d] = IF d = c THEN NoCall ELSE calls[d]
  BY <1>1 DEF Inv, TypeOK, Ends
<1>8. \A d \in Call : calls'[d].setup # None => calls'[d].setup \in Setup \ {s}
  BY <1>1, <1>7 DEF Inv, TypeOK, Carries, CallType, NoCall
<1>9. Carries'
  <2> SUFFICES ASSUME NEW d \in Call, calls'[d].setup # None
               PROVE  /\ setups'[calls'[d].setup].state # "none"
                      /\ calls'[d].link.delegation
                           = setups'[calls'[d].setup].delegation
                      /\ calls'[d].link.token = setups'[calls'[d].setup].token
                      /\ calls'[d].phase = "write" => calls'[d].round = 2
    BY DEF Carries
  <2>1. d # c /\ calls'[d] = calls[d]
    BY <1>7 DEF NoCall
  <2>2. setups'[calls[d].setup] = setups[calls[d].setup]
    BY <1>5, <1>8, <2>1
  <2> QED BY <2>1, <2>2 DEF Inv, Carries
<1>10. Verified'
  BY <1>1, <1>7 DEF Inv, Verified, NoCall
<1> QED BY <1>3, <1>4, <1>6, <1>9, <1>10 DEF Inv

\* A link that is used or out of time keeps the rest of what it is.
LEMMA SetupStateInv ==
    ASSUME TypeOK, Carries, NEW s \in Setup, setups[s].state # "none",
           NEW state \in {"open", "consumed", "expired"},
           setups' = [setups EXCEPT ![s].state = state],
           \A d \in Call : calls'[d] = calls[d] \/ calls'[d] = NoCall
    PROVE  /\ Carries' /\ setups' \in [Setup -> SetupType]
           /\ \A t \in Setup :
                setups'[t].state = IF t = s THEN state ELSE setups[t].state
<1>1. setups' \in [Setup -> SetupType]
  BY DEF TypeOK, SetupType
<1>2. \A t \in Setup :
        /\ setups'[t].delegation = setups[t].delegation
        /\ setups'[t].token = setups[t].token
        /\ setups'[t].state = IF t = s THEN state ELSE setups[t].state
  BY DEF TypeOK, SetupType
<1>3. Carries'
  <2> SUFFICES ASSUME NEW d \in Call, calls'[d].setup # None
               PROVE  /\ setups'[calls'[d].setup].state # "none"
                      /\ calls'[d].link.delegation
                           = setups'[calls'[d].setup].delegation
                      /\ calls'[d].link.token = setups'[calls'[d].setup].token
                      /\ calls'[d].phase = "write" => calls'[d].round = 2
    BY DEF Carries
  <2>1. calls'[d] = calls[d]
    BY DEF NoCall
  <2>2. calls[d].setup \in Setup
    BY <2>1 DEF TypeOK, CallType
  <2> QED BY <1>2, <2>1, <2>2 DEF Carries
<1> QED BY <1>1, <1>2, <1>3

LEMMA WriteInv ==
    ASSUME Inv, NEW c \in Call, Write(c)
    PROVE  Inv'
<1> DEFINE s == calls[c].setup
<1>1. /\ s \in Setup /\ setups[s].state = "open" /\ Ends(c)
      /\ setups' = [setups EXCEPT ![s].state = "consumed"]
      /\ done' = [done EXCEPT ![s] = @ + 1]
      /\ UNCHANGED <<local, hub, owners>>
  BY DEF Write, Consumable, Inv, TypeOK, CallType
<1>2. \A d \in Call : calls'[d] = IF d = c THEN NoCall ELSE calls[d]
  BY <1>1 DEF Inv, TypeOK, Ends
<1> HIDE DEF s
<1>3. /\ Carries' /\ setups' \in [Setup -> SetupType]
      /\ \A t \in Setup :
           setups'[t].state = IF t = s THEN "consumed" ELSE setups[t].state
  BY <1>1, <1>2, SetupStateInv DEF Inv
<1>4. now' \in [token : Change, target : Change]
  BY BoundAssumption DEF Write, Inv, TypeOK, Change
<1>5. TypeOK'
  BY <1>1, <1>3, <1>4, NoneTyped DEF Inv, TypeOK, Ends
<1>6. Below' /\ Replaced'
  BY <1>1 DEF Inv, Below, Replaced
<1>7. Unused'
  <2>1. \A t \in Setup : done'[t] = IF t = s THEN done[t] + 1 ELSE done[t]
    BY <1>1 DEF Inv, TypeOK
  <2>2. done[s] = 0
    BY <1>1 DEF Inv, Unused
  <2> QED BY <1>1, <1>3, <2>1, <2>2 DEF Inv, Unused
<1>8. Verified'
  BY <1>1, <1>2 DEF Inv, Verified, NoCall
<1> QED BY <1>3, <1>5, <1>6, <1>7, <1>8 DEF Inv

-----------------------------------------------------------------------------
(* The owner and time                                                       *)

LEMMA RowTyped ==
    ASSUME Inv
    PROVE  /\ local.version \in Nat /\ local.version <= local.version
           /\ local.version = 0 \/ local.remote \in Remote
<1>1. local.version \in Version
  BY DEF Inv, TypeOK
<1>2. local.version \in Nat
  BY <1>1, BoundAssumption DEF Version
<1>3. local.version = 0 \/ local.version > 0
  BY <1>2
<1>4. local.version <= local.version
  BY <1>2
<1>5. local.version > 0 => local.remote \in Remote
  BY DEF Inv, Below
<1> QED BY <1>2, <1>3, <1>4, <1>5

\* The calls do not mind a row that grows, and that keeps its record while it
\* does not.
LEMMA RowGrows ==
    ASSUME Inv, UNCHANGED <<setups, done, calls>>, local'.version \in Nat,
           local.version <= local'.version,
           local'.version = local.version => local'.remote = local.remote
    PROVE  Unused' /\ Carries' /\ Verified'
<1>1. Unused' /\ Carries'
  BY DEF Inv, Unused, Carries
<1>2. /\ local.version \in Nat
      /\ \A c \in Call : /\ calls[c].version \in Nat
                         /\ calls[c].link.delegation \in Nat
  BY DEF Inv, TypeOK, CallType, SetupType, Version
<1>3. Verified'
  BY <1>2 DEF Inv, Verified
<1> QED BY <1>1, <1>3

\* A request of the owner that changes neither row nor record.
LEMMA OwnerOnly ==
    ASSUME Inv, UNCHANGED <<local, hub, now, setups, done, calls>>,
           NEW o \in Owner, NEW owner \in OwnerType,
           owners' = [owners EXCEPT ![o] = owner],
           owner.phase \in {"old", "end old", "create", "save"}
             => /\ owner.expected < MaxVersion
                /\ owner.expected <= local.version,
           owner.phase \in {"end old", "save"} => owner.remote \in Remote,
           owner.expected = local.version =>
             /\ owner.phase = "end old" => owner.remote = local.remote
             /\ owner.phase \in {"create", "save"} =>
                  local.version = 0 \/ local.revoked \/ hub[local.remote] = "ended"
    PROVE  Inv'
<1>1. TypeOK'
  BY DEF Inv, TypeOK
<1>2. \A p \in Owner : owners'[p] = IF p = o THEN owner ELSE owners[p]
  BY DEF Inv, TypeOK
<1>3. local.version \in Nat
  BY RowTyped
<1>4. Below'
  BY <1>2 DEF Inv, Below
<1>5. Replaced'
  BY <1>2 DEF Inv, Replaced
<1>6. Unused' /\ Carries' /\ Verified'
  <2>1. local'.version \in Nat /\ local.version <= local'.version
    BY RowTyped
  <2> QED BY <2>1, RowGrows
<1> QED BY <1>1, <1>4, <1>5, <1>6 DEF Inv

LEMMA DoneInv ==
    ASSUME Inv, NEW o \in Owner, Done(o),
           UNCHANGED <<local, hub, now, setups, done, calls>>
    PROVE  Inv'
<1>1. NoOwner \in OwnerType /\ NoOwner.phase = "idle"
  BY NoneTyped DEF NoOwner
<1> QED BY <1>1, OwnerOnly DEF Done

\* A record that is ended disturbs no renewal.
LEMMA RecordEnds ==
    ASSUME Inv, NEW r, hub' = [hub EXCEPT ![r] = "ended"],
           UNCHANGED <<local, now, setups, done, calls, owners>>
    PROVE  Inv'
<1>1. TypeOK'
  BY DEF Inv, TypeOK
<1>2. \A q \in Remote : hub[q] = "ended" => hub'[q] = "ended"
  BY DEF Inv, TypeOK
<1>3. Below'
  BY DEF Inv, Below
<1>4. local.version = 0 \/ local.remote \in Remote
  BY RowTyped
<1>5. Replaced'
  BY <1>2, <1>4 DEF Inv, Replaced
<1>6. local'.version \in Nat /\ local.version <= local'.version
  BY RowTyped
<1> QED BY <1>1, <1>3, <1>5, <1>6, RowGrows DEF Inv

LEMMA ExpectedTyped ==
    ASSUME Inv
    PROVE  \A p \in Owner : owners[p].expected \in Nat
<1> SUFFICES ASSUME NEW p \in Owner PROVE owners[p].expected \in Nat
  OBVIOUS
<1>1. owners[p].expected \in Version
  BY DEF Inv, TypeOK, OwnerType
<1> QED BY <1>1, BoundAssumption DEF Version

\* While no more records are in force, a request that goes on is as it was.
LEMMA ReplacedKept ==
    ASSUME Inv, UNCHANGED local,
           \A q \in Remote : hub[q] = "ended" => hub'[q] = "ended",
           NEW p \in Owner, owners'[p].expected = local'.version,
           \/ owners'[p] = owners[p]
           \/ /\ owners[p].phase = "create" /\ owners'[p].phase = "save"
              /\ owners'[p].expected = owners[p].expected
           \/ owners'[p].phase = "idle"
    PROVE  /\ owners'[p].phase = "end old" => owners'[p].remote = local'.remote
           /\ owners'[p].phase \in {"create", "save"} =>
                \/ local'.version = 0 \/ local'.revoked
                \/ hub'[local'.remote] = "ended"
<1>1. local.version = 0 \/ local.remote \in Remote
  BY RowTyped
<1>2. CASE owners'[p].phase = "idle"
  BY <1>2
<1>3. CASE owners'[p] = owners[p]
  BY <1>1, <1>3 DEF Inv, Replaced
<1>4. CASE /\ owners[p].phase = "create" /\ owners'[p].phase = "save"
           /\ owners'[p].expected = owners[p].expected
  BY <1>1, <1>4 DEF Inv, Replaced
<1> QED BY <1>2, <1>3, <1>4

LEMMA OwnerInv ==
    ASSUME Inv, NEW o \in Owner, OwnerStep(o)
    PROVE  Inv'
<1>0. /\ owners \in [Owner -> OwnerType] /\ owners[o] \in OwnerType
      /\ local.version \in Version /\ local.version \in Nat
      /\ local.remote \in Remote \cup {None} /\ hub \in [Remote -> {"unknown", "active", "ended"}]
      /\ MaxVersion \in Nat
  BY BoundAssumption DEF Inv, TypeOK, Version
<1>1. CASE BeginCreate(o)
  <2> DEFINE owner == [owners[o] EXCEPT !.phase = "old",
                                        !.expected = local.version]
  <2>1. /\ owner \in OwnerType /\ owner.phase = "old"
        /\ owner.expected = local.version
    BY <1>0 DEF OwnerType
  <2>2. owners' = [owners EXCEPT ![o] = owner]
    BY <1>0, <1>1 DEF BeginCreate, OwnerType
  <2>3. local.version < MaxVersion
    BY <1>0, <1>1 DEF BeginCreate, Version
  <2>4. UNCHANGED <<local, hub, now, setups, done, calls>>
    BY <1>1 DEF BeginCreate
  <2> HIDE DEF owner
  <2>5. owner.expected <= local.version
    BY <2>1, RowTyped
  <2> QED BY <2>1, <2>2, <2>3, <2>4, <2>5, OwnerOnly
<1>2. CASE ReadOld(o)
  <2>0. /\ owners[o].phase = "old" /\ owners[o].expected < MaxVersion
        /\ owners[o].expected <= local.version
        /\ UNCHANGED <<local, hub, now, setups, done, calls>>
    BY <1>2 DEF ReadOld, Inv, Below
  <2>1. CASE local.version > 0 /\ ~local.revoked
    <3> DEFINE owner == [owners[o] EXCEPT !.phase = "end old",
                                          !.remote = local.remote]
    <3>1. /\ owner \in OwnerType /\ owner.phase = "end old"
          /\ owner.expected = owners[o].expected /\ owner.remote = local.remote
      BY <1>0 DEF OwnerType
    <3>2. owners' = [owners EXCEPT ![o] = owner]
      BY <1>0, <1>2, <2>1 DEF ReadOld, OwnerType
    <3>3. local.remote \in Remote
      BY <2>1 DEF Inv, Below
    <3> HIDE DEF owner
    <3> QED BY <2>0, <3>1, <3>2, <3>3, OwnerOnly
  <2>2. CASE ~(local.version > 0 /\ ~local.revoked)
    <3> DEFINE owner == [owners[o] EXCEPT !.phase = "create"]
    <3>1. /\ owner \in OwnerType /\ owner.phase = "create"
          /\ owner.expected = owners[o].expected
      BY <1>0 DEF OwnerType
    <3>2. owners' = [owners EXCEPT ![o] = owner]
      BY <1>0, <1>2, <2>2 DEF ReadOld, Goes
    <3>3. local.version = 0 \/ local.revoked
      BY <1>0, <2>2 DEF Version
    <3> HIDE DEF owner
    <3> QED BY <2>0, <3>1, <3>2, <3>3, OwnerOnly
  <2> QED BY <2>1, <2>2
<1>3. CASE EndOld(o)
  <2> DEFINE owner == [owners[o] EXCEPT !.phase = "create", !.remote = None]
             r == owners[o].remote
  <2>1. /\ owner \in OwnerType /\ owner.phase = "create"
        /\ owner.expected = owners[o].expected
    BY <1>0 DEF OwnerType
  <2>2. /\ owners' = [owners EXCEPT ![o] = owner]
        /\ owners[o].phase = "end old" /\ hub' = [hub EXCEPT ![r] = "ended"]
        /\ UNCHANGED <<local, now, setups, done, calls>>
    BY <1>0, <1>3 DEF EndOld, OwnerType
  <2> HIDE DEF owner, r
  <2>3. TypeOK'
    BY <2>1, <2>2 DEF Inv, TypeOK
  <2>4. \A p \in Owner : owners'[p] = IF p = o THEN owner ELSE owners[p]
    BY <1>0, <2>2
  <2>5. Below'
    BY <2>1, <2>2, <2>4 DEF Inv, Below
  <2>6. /\ \A q \in Remote : hub[q] = "ended" => hub'[q] = "ended"
        /\ r \in Remote => hub'[r] = "ended"
    BY <1>0, <2>2
  <2>7. local.version = 0 \/ local.remote \in Remote
    BY RowTyped
  <2>8. owner.expected = local.version => r = local.remote
    BY <2>1, <2>2 DEF Inv, Replaced, r
  <2>9. Replaced'
    <3> SUFFICES ASSUME NEW p \in Owner, owners'[p].expected = local'.version
                 PROVE  /\ owners'[p].phase = "end old"
                             => owners'[p].remote = local'.remote
                        /\ owners'[p].phase \in {"create", "save"} =>
                             \/ local'.version = 0 \/ local'.revoked
                             \/ hub'[local'.remote] = "ended"
      BY DEF Replaced
    <3>1. CASE p = o
      BY <2>1, <2>2, <2>4, <2>6, <2>7, <2>8, <3>1
    <3>2. CASE p # o
      BY <2>2, <2>4, <2>6, <3>2, ReplacedKept
    <3> QED BY <3>1, <3>2
  <2>10. local'.version \in Nat /\ local.version <= local'.version
    BY <2>2, RowTyped
  <2> QED BY <2>2, <2>3, <2>5, <2>9, <2>10, RowGrows DEF Inv
<1>4. ASSUME NEW r \in Remote, CreateRemote(o, r) PROVE Inv'
  <2> DEFINE owner == [owners[o] EXCEPT !.phase = "save", !.remote = r]
  <2>1. /\ owner \in OwnerType /\ owner.phase = "save"
        /\ owner.expected = owners[o].expected /\ owner.remote = r
    BY <1>0 DEF OwnerType
  <2>2. /\ owners' = [owners EXCEPT ![o] = owner]
        /\ owners[o].phase = "create" /\ hub' = [hub EXCEPT ![r] = "active"]
        /\ hub[r] = "unknown"
        /\ UNCHANGED <<local, now, setups, done, calls>>
    BY <1>0, <1>4 DEF CreateRemote, OwnerType
  <2> HIDE DEF owner
  <2>3. TypeOK'
    BY <2>1, <2>2 DEF Inv, TypeOK
  <2>4. \A p \in Owner : owners'[p] = IF p = o THEN owner ELSE owners[p]
    BY <1>0, <2>2
  <2>5. Below'
    BY <2>1, <2>2, <2>4 DEF Inv, Below
  <2>6. \A q \in Remote : hub[q] = "ended" => hub'[q] = "ended"
    BY <1>0, <2>2
  <2>8. Replaced'
    <3> SUFFICES ASSUME NEW p \in Owner, owners'[p].expected = local'.version
                 PROVE  /\ owners'[p].phase = "end old"
                             => owners'[p].remote = local'.remote
                        /\ owners'[p].phase \in {"create", "save"} =>
                             \/ local'.version = 0 \/ local'.revoked
                             \/ hub'[local'.remote] = "ended"
      BY DEF Replaced
    <3>1. \/ owners'[p] = owners[p]
          \/ /\ owners[p].phase = "create" /\ owners'[p].phase = "save"
             /\ owners'[p].expected = owners[p].expected
      BY <2>1, <2>2, <2>4
    <3> QED BY <2>2, <2>6, <3>1, ReplacedKept
  <2>9. local'.version \in Nat /\ local.version <= local'.version
    BY <2>2, RowTyped
  <2> QED BY <2>2, <2>3, <2>5, <2>8, <2>9, RowGrows DEF Inv
<1>5. ASSUME Goes(o, "undo"), UNCHANGED <<local, hub, now, setups, done, calls>>
      PROVE  Inv'
  <2> DEFINE owner == [owners[o] EXCEPT !.phase = "undo"]
  <2>1. owner \in OwnerType /\ owner.phase = "undo"
    BY <1>0 DEF OwnerType
  <2>2. owners' = [owners EXCEPT ![o] = owner]
    BY <1>5 DEF Goes
  <2> HIDE DEF owner
  <2> QED BY <1>5, <2>1, <2>2, OwnerOnly
<1>6. CASE Save(o)
  <2>1. CASE Fresh(o)
    <3> DEFINE row == [version |-> owners[o].expected + 1,
                       remote |-> owners[o].remote, revoked |-> FALSE,
                       expired |-> FALSE]
    <3>1. /\ local' = row /\ local.version = owners[o].expected
          /\ Done(o) \/ Goes(o, "undo")
          /\ owners[o].phase = "save"
          /\ UNCHANGED <<hub, now, setups, done, calls>>
      BY <1>6, <2>1 DEF Save, Fresh
    <3>2. owners[o].remote \in Remote /\ owners[o].expected < MaxVersion
      BY <3>1 DEF Inv, Below
    <3>3. /\ local'.version = local.version + 1 /\ local'.remote \in Remote
          /\ local'.revoked = FALSE
      BY <3>1, <3>2
    <3>4. row.version \in Version
      BY <1>0, <3>1, <3>2 DEF Version
    <3>5. local' \in [version : Version, remote : Remote \cup {None},
                      revoked : BOOLEAN, expired : BOOLEAN]
      BY <3>1, <3>2, <3>4
    <3>6. owners' \in [Owner -> OwnerType]
      <4>1. CASE Done(o)
        BY <1>0, <4>1, NoneTyped DEF Done
      <4>2. CASE Goes(o, "undo")
        BY <1>0, <4>2 DEF Goes, OwnerType
      <4> QED BY <3>1, <4>1, <4>2
    <3>7. TypeOK'
      BY <3>1, <3>5, <3>6 DEF Inv, TypeOK
    <3>8. /\ \A p \in Owner : p # o => owners'[p] = owners[p]
          /\ owners'[o].phase \in {"idle", "undo"}
      <4>1. CASE Done(o)
        BY <1>0, <4>1 DEF Done, NoOwner
      <4>2. CASE Goes(o, "undo")
        BY <1>0, <4>2 DEF Goes, OwnerType
      <4> QED BY <3>1, <4>1, <4>2
    <3>9. \A p \in Owner : owners[p].expected \in Nat
      BY ExpectedTyped
    <3>10. Below'
      <4>1. local'.version > 0 /\ local'.version # 0
        BY <1>0, <3>3
      <4> SUFFICES ASSUME NEW p \in Owner
                   PROVE  /\ owners'[p].phase
                               \in {"old", "end old", "create", "save"}
                               => /\ owners'[p].expected < MaxVersion
                                  /\ owners'[p].expected <= local'.version
                          /\ owners'[p].phase \in {"end old", "save"}
                               => owners'[p].remote \in Remote
        BY <3>3, <4>1 DEF Below
      <4>2. CASE p = o
        BY <3>8, <4>2
      <4>3. CASE p # o
        <5>1. owners[p].expected <= local.version
                => owners[p].expected <= local'.version
          BY <1>0, <3>3, <3>9
        <5> QED BY <3>8, <4>3, <5>1 DEF Inv, Below
      <4> QED BY <4>2, <4>3
    <3>11. Replaced'
      <4> SUFFICES ASSUME NEW p \in Owner, owners'[p].expected = local'.version
                   PROVE  owners'[p].phase \notin {"end old", "create", "save"}
        BY DEF Replaced
      <4>1. CASE p = o
        BY <3>8, <4>1
      <4>2. CASE p # o
        <5>1. owners[p].expected = local.version + 1
          BY <3>3, <3>8, <4>2
        <5>2. ~(owners[p].expected <= local.version)
          BY <1>0, <5>1
        <5> QED BY <3>8, <4>2, <5>2 DEF Inv, Below
      <4> QED BY <4>1, <4>2
    <3>12. /\ local'.version \in Nat /\ local.version <= local'.version
           /\ local'.version # local.version
      BY <1>0, <3>3
    <3> QED BY <3>1, <3>7, <3>10, <3>11, <3>12, RowGrows DEF Inv
  <2>2. CASE ~Fresh(o)
    BY <1>5, <1>6, <2>2 DEF Save
  <2> QED BY <2>1, <2>2
<1>7. CASE NotSaved(o)
  BY <1>5, <1>7 DEF NotSaved
<1>8. CASE Revoke(o)
  <2> DEFINE owner == [owners[o] EXCEPT !.phase = "end", !.remote = local.remote]
             row == [local EXCEPT !.version = @ + 1, !.revoked = TRUE]
  <2>1. /\ owner \in OwnerType /\ owner.phase = "end"
        /\ owners' = [owners EXCEPT ![o] = owner]
        /\ UNCHANGED <<hub, now, setups, done, calls>>
    BY <1>0, <1>8 DEF OwnerType, Revoke
  <2>2. /\ local' = row /\ local.version \in 1..(MaxVersion - 1)
        /\ local \in [version : Version, remote : Remote \cup {None},
                      revoked : BOOLEAN, expired : BOOLEAN]
    BY <1>8 DEF Revoke, Inv, TypeOK
  <2>3. /\ local'.version = local.version + 1 /\ local'.remote = local.remote
        /\ local.version + 1 \in Version /\ local.version > 0
    BY <1>0, <2>2 DEF Version
  <2>4. local' \in [version : Version, remote : Remote \cup {None},
                    revoked : BOOLEAN, expired : BOOLEAN]
    BY <2>2, <2>3
  <2> HIDE DEF owner, row
  <2>5. TypeOK'
    BY <1>0, <2>1, <2>4 DEF Inv, TypeOK
  <2>6. \A p \in Owner : owners'[p] = IF p = o THEN owner ELSE owners[p]
    BY <1>0, <2>1
  <2>7. \A p \in Owner : owners[p].expected \in Nat
    BY ExpectedTyped
  <2>8. Below'
    <3>1. /\ local'.version > 0 /\ local'.version # 0
          /\ local'.remote \in Remote
      <4>1. local.remote \in Remote
        BY <2>3 DEF Inv, Below
      <4>2. local'.version > 0 /\ local'.version # 0
        BY <1>0, <2>3
      <4> QED BY <2>3, <4>1, <4>2
    <3> SUFFICES ASSUME NEW p \in Owner
                 PROVE  /\ owners'[p].phase
                             \in {"old", "end old", "create", "save"}
                             => /\ owners'[p].expected < MaxVersion
                                /\ owners'[p].expected <= local'.version
                        /\ owners'[p].phase \in {"end old", "save"}
                             => owners'[p].remote \in Remote
      BY <3>1 DEF Below
    <3>2. CASE p = o
      BY <2>1, <2>6, <3>2
    <3>3. CASE p # o
      <4>1. owners[p].expected <= local.version
              => owners[p].expected <= local'.version
        BY <1>0, <2>3, <2>7
      <4> QED BY <2>6, <3>3, <4>1 DEF Inv, Below
    <3> QED BY <3>2, <3>3
  <2>9. Replaced'
    <3> SUFFICES ASSUME NEW p \in Owner, owners'[p].expected = local'.version
                 PROVE  owners'[p].phase \notin {"end old", "create", "save"}
      BY DEF Replaced
    <3>1. CASE p = o
      BY <2>1, <2>6, <3>1
    <3>2. CASE p # o
      <4>1. ~(owners[p].expected <= local.version)
        BY <1>0, <2>3, <2>6, <3>2
      <4> QED BY <2>6, <3>2, <4>1 DEF Inv, Below
    <3> QED BY <3>1, <3>2
  <2>10. /\ local'.version \in Nat /\ local.version <= local'.version
    BY <1>0, <2>3
  <2> QED BY <2>1, <2>3, <2>5, <2>8, <2>9, <2>10, RowGrows DEF Inv
<1>9. CASE EndRemote(o)
  <2>1. /\ hub' = [hub EXCEPT ![owners[o].remote] = "ended"] /\ Done(o)
        /\ UNCHANGED <<local, now, setups, done, calls>>
    BY <1>9 DEF EndRemote
  <2>2. TypeOK'
    BY <2>1, NoneTyped DEF Inv, TypeOK, Done
  <2>3. \A p \in Owner : owners'[p] = IF p = o THEN NoOwner ELSE owners[p]
    BY <1>0, <2>1 DEF Done
  <2>4. \A q \in Remote : hub[q] = "ended" => hub'[q] = "ended"
    BY <1>0, <2>1
  <2>5. NoOwner.phase = "idle"
    BY DEF NoOwner
  <2>6. Below'
    BY <2>1, <2>3, <2>5 DEF Inv, Below
  <2>7. Replaced'
    BY <2>1, <2>3, <2>4, <2>5, ReplacedKept DEF Replaced
  <2>8. local'.version \in Nat /\ local.version <= local'.version
    BY <2>1, RowTyped
  <2> QED BY <2>1, <2>2, <2>6, <2>7, <2>8, RowGrows DEF Inv
<1>10. CASE Abandon(o)
  BY <1>10, DoneInv DEF Abandon
<1> QED BY <1>1, <1>2, <1>3, <1>4, <1>6, <1>7, <1>8, <1>9, <1>10 DEF OwnerStep

LEMMA TimeInv ==
    ASSUME Inv,
           \/ \E s \in Setup : ExpireSetup(s)
           \/ \E r \in Remote : ExpireRemote(r)
           \/ ExpireLocal \/ ChangeToken \/ ChangeTarget
    PROVE  Inv'
<1>1. ASSUME NEW s \in Setup, ExpireSetup(s) PROVE Inv'
  <2>1. /\ setups[s].state = "open"
        /\ setups' = [setups EXCEPT ![s].state = "expired"]
        /\ UNCHANGED <<local, hub, now, done, calls, owners>>
    BY <1>1 DEF ExpireSetup
  <2>2. /\ Carries' /\ setups' \in [Setup -> SetupType]
        /\ \A t \in Setup :
             setups'[t].state = IF t = s THEN "expired" ELSE setups[t].state
    BY <2>1, SetupStateInv DEF Inv
  <2>3. TypeOK'
    BY <2>1, <2>2 DEF Inv, TypeOK
  <2>4. Below' /\ Verified' /\ Replaced'
    BY <2>1 DEF Inv, Below, Verified, Replaced
  <2>5. Unused'
    BY <2>1, <2>2 DEF Inv, Unused
  <2> QED BY <2>2, <2>3, <2>4, <2>5 DEF Inv
<1>2. ASSUME NEW r \in Remote, ExpireRemote(r) PROVE Inv'
  BY <1>2, RecordEnds DEF ExpireRemote
<1>3. CASE ExpireLocal
  <2>1. /\ local' = [local EXCEPT !.expired = TRUE]
        /\ UNCHANGED <<hub, now, setups, done, calls, owners>>
        /\ local \in [version : Version, remote : Remote \cup {None},
                      revoked : BOOLEAN, expired : BOOLEAN]
    BY <1>3 DEF ExpireLocal, Inv, TypeOK
  <2>2. /\ local'.version = local.version /\ local'.remote = local.remote
        /\ local'.revoked = local.revoked
        /\ local' \in [version : Version, remote : Remote \cup {None},
                       revoked : BOOLEAN, expired : BOOLEAN]
    BY <2>1
  <2>3. TypeOK'
    BY <2>1, <2>2 DEF Inv, TypeOK
  <2>4. Below' /\ Replaced'
    BY <2>1, <2>2 DEF Inv, Below, Replaced
  <2>5. local'.version \in Nat /\ local.version <= local'.version
    BY <2>2, RowTyped
  <2> QED BY <2>1, <2>2, <2>3, <2>4, <2>5, RowGrows DEF Inv
<1>4. CASE ChangeToken \/ ChangeTarget
  <2>1. /\ now' \in [token : Change, target : Change]
        /\ UNCHANGED <<local, hub, setups, done, calls, owners>>
    BY <1>4, BoundAssumption DEF ChangeToken, ChangeTarget, Inv, TypeOK, Change
  <2>2. TypeOK'
    BY <2>1 DEF Inv, TypeOK
  <2>3. Below' /\ Replaced' /\ Unused' /\ Carries' /\ Verified'
    BY <2>1 DEF Inv, Below, Replaced, Unused, Carries, Verified
  <2> QED BY <2>2, <2>3 DEF Inv
<1> QED BY <1>1, <1>2, <1>3, <1>4

-----------------------------------------------------------------------------
(* The theorems                                                             *)

LEMMA NextInv == Inv /\ [Next]_vars => Inv'
<1> SUFFICES ASSUME Inv, [Next]_vars PROVE Inv'
  OBVIOUS
<1>1. ASSUME NEW c \in Call, CallStep(c) PROVE Inv'
  <2>1. CASE CallOnly(c)
    <3>1. UNCHANGED <<local, hub, now, setups, done, owners>>
      BY <2>1 DEF CallOnly, BeginStart, Inspect, ReadLocal, AskHub, ReadAgain,
                  GiveUp
    <3> QED BY <2>1, <3>1, CallOnlyKept, KeptInv
  <2>2. ASSUME NEW s \in Setup, Create(c, s) PROVE Inv'
    BY <2>2, CreateInv
  <2>3. CASE Write(c)
    BY <2>3, WriteInv
  <2> QED BY <1>1, <2>1, <2>2, <2>3 DEF CallStep, CallOnly
<1>2. ASSUME NEW o \in Owner, OwnerStep(o) PROVE Inv'
  BY <1>2, OwnerInv
<1>3. CASE UNCHANGED vars
  BY <1>3 DEF vars, Inv, TypeOK, Below, Unused, Carries, Verified, Replaced
<1> QED BY <1>1, <1>2, <1>3, TimeInv DEF Next

\* Every reachable state is as Inv says; the theorems below rest on it.
THEOREM TemporarySetupsInvariant == Spec => []Inv
BY InitInv, NextInv, PTL DEF Spec

\* For any number of links, posts and renewals, rows, records, links and
\* requests keep their types.
THEOREM SetupTypes == Spec => []TypeOK
<1>1. Inv => TypeOK
  BY DEF Inv
<1> QED BY <1>1, TemporarySetupsInvariant, PTL

\* However many posts of its form are under way, a link changes one thing at
\* most: it is open only while it has changed nothing (Unused).
THEOREM LinksChangeOnce == Spec => []OnceEach
<1>1. Inv => OnceEach
  BY DEF Inv, Unused, OnceEach
<1> QED BY <1>1, TemporarySetupsInvariant, PTL

\* Although the second confirmation is compared with nothing, what a link
\* changes is changed under the record that the hub confirmed to that post:
\* the version it confirmed lies between that of the link and the row's
\* (Verified), and the transaction finds these two equal.
THEOREM ChangesAreConfirmed == Spec => ChangesUnderConfirmed
<1> DEFINE Step ==
             \A s \in Setup : done'[s] # done[s] =>
               \E c \in Call :
                 /\ calls[c].setup = s /\ calls[c].round = 2
                 /\ calls[c].remote = local.remote
                 /\ Live /\ setups[s].delegation = local.version
                 /\ setups[s].token = now.token
<1>1. Inv /\ [Next]_vars => [Step]_vars
  <2> SUFFICES ASSUME Inv, Next, NEW s \in Setup, done'[s] # done[s]
               PROVE  \E c \in Call :
                        /\ calls[c].setup = s /\ calls[c].round = 2
                        /\ calls[c].remote = local.remote
                        /\ Live /\ setups[s].delegation = local.version
                        /\ setups[s].token = now.token
    OBVIOUS
  <2>1. PICK c \in Call : Write(c)
    BY DEF Next, CallStep, BeginStart, Inspect, ReadLocal, AskHub, ReadAgain,
           GiveUp, Create, OwnerStep, BeginCreate, ReadOld, EndOld,
           CreateRemote, Save, NotSaved, Revoke, EndRemote, Abandon,
           ExpireSetup, ExpireRemote, ExpireLocal, ChangeToken, ChangeTarget
  <2>2. /\ calls[c].setup # None /\ calls[c].phase = "write"
        /\ done' = [done EXCEPT ![calls[c].setup] = @ + 1]
        /\ Live /\ local.version = calls[c].link.delegation
        /\ now.token = calls[c].link.token
    BY <2>1 DEF Write, Authorized
  <2>3. calls[c].setup = s
    BY <2>2 DEF Inv, TypeOK
  <2>4. /\ calls[c].round = 2 /\ setups[s].delegation = local.version
        /\ setups[s].token = now.token
    BY <2>2, <2>3 DEF Inv, Carries
  <2>5. /\ calls[c].version <= local.version
        /\ local.version <= calls[c].version
        /\ calls[c].version = local.version => calls[c].remote = local.remote
    BY <2>2, <2>4 DEF Inv, Verified
  <2>6. calls[c].version \in Nat /\ local.version \in Nat
    <3>1. calls[c].version \in Version
      BY DEF Inv, TypeOK, CallType
    <3> QED BY <3>1, RowTyped, BoundAssumption DEF Version
  <2>7. calls[c].remote = local.remote
    BY <2>5, <2>6
  <2> QED BY <2>2, <2>3, <2>4, <2>7
<1>2. Spec => [][Step]_vars
  BY <1>1, TemporarySetupsInvariant, PTL DEF Spec
<1> QED BY <1>2 DEF ChangesUnderConfirmed

\* However many renewals and revocations overlap, the record that was in force
\* is ended before another is saved in its place: who saves has found the row
\* as it was when the record was ended (Replaced).
THEOREM RenewalsDoNotOverlap == Spec => NoOverlap
<1> DEFINE Step ==
             local'.remote # local.remote /\ local.remote # None
             /\ ~local.revoked => hub[local.remote] = "ended"
<1>1. Inv /\ [Next]_vars => [Step]_vars
  <2> SUFFICES ASSUME Inv, Next, local'.remote # local.remote,
                      local.remote # None, ~local.revoked
               PROVE  hub[local.remote] = "ended"
    OBVIOUS
  <2>1. local' = [local EXCEPT !.expired = TRUE] => local'.remote = local.remote
    BY DEF Inv, TypeOK
  <2>2. local' = [local EXCEPT !.version = @ + 1, !.revoked = TRUE]
          => local'.remote = local.remote
    BY DEF Inv, TypeOK
  <2>3. PICK o \in Owner : Save(o)
    BY <2>1, <2>2 DEF Next, CallStep, BeginStart, Inspect, ReadLocal, AskHub,
           ReadAgain, GiveUp, Create, Write, OwnerStep, BeginCreate, ReadOld,
           EndOld, CreateRemote, NotSaved, Revoke, EndRemote, Abandon,
           ExpireSetup, ExpireRemote, ExpireLocal, ChangeToken, ChangeTarget
  <2>4. owners[o].phase = "save" /\ owners[o].expected = local.version
    BY <2>3 DEF Save, Fresh
  <2>5. local.version # 0
    BY DEF Inv, Below
  <2> QED BY <2>4, <2>5 DEF Inv, Replaced
<1>2. Spec => [][Step]_vars
  BY <1>1, TemporarySetupsInvariant, PTL DEF Spec
<1> QED BY <1>2 DEF NoOverlap

-----------------------------------------------------------------------------
(***************************************************************************)
(* OAuthTokens.  A grant is its transaction's only one (OneGrant) and has  *)
(* one credential that can be exchanged (OneExchangeable); no step takes   *)
(* back a revocation, a version, an expiry or that a credential is spent   *)
(* (Grows, Forward), so what a call read of them still holds when it is    *)
(* decided (CallsKnow).                                                    *)
(***************************************************************************)

GrantType == [flow : Flows, version : 1..(MaxAuthority + 1),
              until : Nat, revoked : BOOLEAN]
RecordType(n) == [kind : {"code", "access", "refresh"}, grant : 1..n,
                  until : Nat, spent : BOOLEAN, present : BOOLEAN]

\* Of a transaction of the browser comes one grant, and not before it is
\* consumed.
Pending(f) == flow[f].at \in {"none", "open", "known"}

OneGrant ==
    /\ \A g, h \in DOMAIN grants : grants[g].flow = grants[h].flow => g = h
    /\ \A f \in Flows : Pending(f) =>
         \A g \in DOMAIN grants : grants[g].flow # f

\* Of a grant, one credential that can still be exchanged.
Exchangeable(i) ==
    records[i].kind # "access" /\ records[i].present /\ ~records[i].spent

OneExchangeable ==
    \A i, j \in Ids :
        /\ Exchangeable(i) /\ Exchangeable(j)
        /\ records[i].grant = records[j].grant
        => i = j

\* A credential is deleted once its grant has expired.
GoneLapsed == \A i \in Ids : ~records[i].present => Lapsed(records[i].grant)

\* What a call read of its credential is still so.
CallsKnow ==
    \A c \in Calls :
        Busy(c) =>
            /\ call[c].id \in Ids
            /\ call[c].spent => Record(c).spent
            /\ call[c].late => Ended(Record(c).grant)

\* A version is left for the recovery.
SuspendedBelow == ~authority.active => authority.version <= MaxAuthority

\* Nobody takes the lease from the process that cleans.
CleanerOwns == \A w \in Workers : worker[w] = "cleaning" => lease.owner = w

Ledger ==
    /\ grants \in Seq(GrantType)
    /\ records \in Seq(RecordType(Len(grants)))
    /\ Len(records) <= MaxRecords
    /\ \A i \in Ids : records[i].until <= grants[records[i].grant].until
    /\ OneGrant /\ OneExchangeable /\ GoneLapsed

OAuthInv ==
    /\ OAuthTypeOK /\ Ledger /\ CallsKnow /\ SuspendedBelow /\ CleanerOwns

\* What no step takes back: what a grant is and that it is revoked, what a
\* credential is and that it is spent or deleted.
Grows ==
    /\ Len(grants) <= Len(grants') /\ Len(records) <= Len(records')
    /\ \A g \in DOMAIN grants :
         /\ g \in DOMAIN grants'
         /\ grants'[g].flow = grants[g].flow
         /\ grants'[g].version = grants[g].version
         /\ grants'[g].until = grants[g].until
         /\ grants[g].revoked => grants'[g].revoked
    /\ \A i \in Ids :
         /\ i \in Ids'
         /\ records'[i].grant = records[i].grant
         /\ records[i].spent => records'[i].spent

Forward ==
    /\ clock' \in Nat /\ clock <= clock'
    /\ authority'.version \in Nat /\ authority.version <= authority'.version
    /\ \A f \in Flows : Pending(f)' => Pending(f)

-----------------------------------------------------------------------------
(* The grants and the credentials.                                         *)

\* Two more elements of a sequence.
LEMMA TwoMore ==
    ASSUME NEW S, NEW s \in Seq(S), NEW a \in S, NEW b \in S
    PROVE  /\ s \o <<a, b>> \in Seq(S)
           /\ Len(s \o <<a, b>>) = Len(s) + 2
           /\ \A k \in 1..Len(s) : (s \o <<a, b>>)[k] = s[k]
           /\ (s \o <<a, b>>)[Len(s) + 1] = a
           /\ (s \o <<a, b>>)[Len(s) + 2] = b
<1> DEFINE t == <<a, b>>
<1>1. t \in Seq(S) /\ Len(t) = 2 /\ t[1] = a /\ t[2] = b
  OBVIOUS
<1> HIDE DEF t
<1>2. Len(s) \in Nat
  BY LenProperties
<1>3. /\ s \o t \in Seq(S)
      /\ Len(s \o t) = Len(s) + Len(t)
      /\ \A i \in 1..Len(s) + Len(t) : (s \o t)[i] =
           IF i <= Len(s) THEN s[i] ELSE t[i - Len(s)]
  BY <1>1, ConcatProperties
<1>4. (s \o t)[Len(s) + 1] = t[1] /\ (s \o t)[Len(s) + 2] = t[2]
  <2>1. /\ Len(s) + 1 - Len(s) = 1 /\ Len(s) + 2 - Len(s) = 2
        /\ ~(Len(s) + 1 <= Len(s)) /\ ~(Len(s) + 2 <= Len(s))
        /\ Len(s) + 1 \in 1..(Len(s) + 2) /\ Len(s) + 2 \in 1..(Len(s) + 2)
    BY <1>2
  <2> QED BY <1>1, <1>3, <2>1
<1>5. \A k \in 1..Len(s) : (s \o t)[k] = s[k]
  BY <1>1, <1>2, <1>3
<1> QED BY <1>1, <1>3, <1>4, <1>5 DEF t

\* What the ledger holds.
LEMMA LedgerIs ==
    ASSUME Ledger
    PROVE  /\ Len(grants) \in Nat /\ DOMAIN grants = 1..Len(grants)
           /\ \A g \in 1..Len(grants) : grants[g] \in GrantType
           /\ Len(records) \in Nat
           /\ \A i \in Ids : records[i] \in RecordType(Len(grants))
BY LenProperties, ElementOfSeq DEF Ledger, Ids

\* The parts of the ledger that do not say what its elements are.
LEMMA LedgerHolds ==
    ASSUME OAuthInv
    PROVE  /\ OneGrant /\ OneExchangeable /\ GoneLapsed
           /\ \A i \in Ids : records[i].until <= grants[records[i].grant].until
BY DEF OAuthInv, Ledger

\* What revokes grants revokes them, and does nothing else to them.
LEMMA RevokedIs ==
    ASSUME Ledger, NEW which, grants' = Revoked(grants, which)
    PROVE  /\ grants' \in Seq(GrantType) /\ Len(grants') = Len(grants)
           /\ DOMAIN grants' = DOMAIN grants
           /\ \A g \in DOMAIN grants :
                /\ grants'[g].flow = grants[g].flow
                /\ grants'[g].version = grants[g].version
                /\ grants'[g].until = grants[g].until
                /\ grants'[g].revoked <=> (grants[g].revoked \/ g \in which)
<1> DEFINE n == Len(grants)
           gs == [g \in 1..n |-> IF g \in which
                                 THEN [grants[g] EXCEPT !.revoked = TRUE]
                                 ELSE grants[g]]
<1>1. /\ n \in Nat /\ DOMAIN grants = 1..n
      /\ \A g \in 1..n : grants[g] \in GrantType
  BY LedgerIs
<1>2. grants' = gs
  BY <1>1 DEF Revoked
<1>3. \A g \in 1..n :
        /\ gs[g] \in GrantType
        /\ gs[g].flow = grants[g].flow
        /\ gs[g].version = grants[g].version
        /\ gs[g].until = grants[g].until
        /\ gs[g].revoked <=> (grants[g].revoked \/ g \in which)
  BY <1>1 DEF GrantType
<1>4. gs \in [1..n -> GrantType]
  BY <1>3
<1> HIDE DEF gs
<1>5. gs \in Seq(GrantType)
  BY <1>1, <1>4, SeqDef
<1>6. Len(gs) = n /\ DOMAIN gs = 1..n
  BY <1>1, <1>4, <1>5, LenProperties
<1> QED BY <1>1, <1>2, <1>3, <1>5, <1>6

\* A step that leaves grants and credentials alone.
LEMMA QuietLedger ==
    ASSUME OAuthInv, UNCHANGED <<grants, records>>, Forward
    PROVE  Ledger' /\ Grows
<1>1. OneGrant' /\ OneExchangeable'
  BY DEF Forward, OAuthInv, Ledger, OneGrant, OneExchangeable, Exchangeable,
     Ids
<1>2. clock \in Nat /\ clock' \in Nat /\ clock' >= clock
  BY LivesAssumption, OAuthBounds DEF OAuthInv, OAuthTypeOK, Forward
<1>3. GoneLapsed'
  <2>1. \A i \in Ids : grants[records[i].grant].until \in Nat
    BY LedgerIs DEF OAuthInv, GrantType, RecordType
  <2> QED BY <1>2, <2>1 DEF OAuthInv, Ledger, GoneLapsed, Lapsed, Ids
<1> QED BY <1>1, <1>3, LedgerIs DEF OAuthInv, Ledger, Grows, Ids

\* A step that revokes grants: by a replay, by a user or by a change.
LEMMA RevokeLedger ==
    ASSUME OAuthInv, NEW which,
           grants' = Revoked(grants, which),
           UNCHANGED <<clock, flow, records>>
    PROVE  Ledger' /\ Grows
<1>1. /\ grants' \in Seq(GrantType) /\ Len(grants') = Len(grants)
      /\ DOMAIN grants' = DOMAIN grants
      /\ \A g \in DOMAIN grants :
           /\ grants'[g].flow = grants[g].flow
           /\ grants'[g].version = grants[g].version
           /\ grants'[g].until = grants[g].until
           /\ grants'[g].revoked <=> (grants[g].revoked \/ g \in which)
  BY RevokedIs DEF OAuthInv
<1>2. /\ Len(grants) \in Nat /\ DOMAIN grants = 1..Len(grants)
      /\ \A i \in Ids : records[i].grant \in DOMAIN grants
  BY LedgerIs DEF OAuthInv, RecordType
<1>3. OneGrant' /\ OneExchangeable'
  BY <1>1, LedgerHolds DEF OneGrant, Pending, OneExchangeable, Exchangeable, Ids
<1>4. GoneLapsed'
  BY <1>1, <1>2, LedgerHolds DEF GoneLapsed, Lapsed, Ids
<1>5. Ids' = Ids
  BY DEF Ids
<1>6. /\ (records \in Seq(RecordType(Len(grants))))'
      /\ (Len(records) <= MaxRecords)'
  BY <1>1 DEF OAuthInv, Ledger
<1>7. \A i \in Ids' : records'[i].until <= grants'[records'[i].grant].until
  BY <1>1, <1>2, <1>5, LedgerHolds
<1>8. Ledger'
  BY <1>1, <1>3, <1>4, <1>6, <1>7 DEF Ledger
<1>9. Grows
  BY <1>1, <1>2, <1>5, LedgerIs DEF OAuthInv, Grows
<1> QED BY <1>8, <1>9

\* A consent that gives a grant gives the transaction's only one, with its code.
LEMMA ConsentLedger ==
    ASSUME OAuthInv, NEW f \in Flows, Consent(f)
    PROVE  Ledger' /\ Grows
<1> DEFINE n == Len(grants)
           m == Len(records)
           g == [flow |-> f, version |-> flow[f].version,
                 until |-> clock + GrantLife, revoked |-> FALSE]
           r == NewRecord("code", n + 1, clock + Least(CodeLife, GrantLife))
<1>1. /\ n \in Nat /\ DOMAIN grants = 1..n /\ m \in Nat
      /\ \A h \in 1..n : grants[h] \in GrantType
      /\ \A i \in Ids : records[i] \in RecordType(n)
  BY LedgerIs DEF OAuthInv
<1>2. Forward
  BY LivesAssumption, OAuthBounds DEF Consent, Forward, Pending, OAuthInv,
     OAuthTypeOK
<1>3. CASE UNCHANGED <<grants, records>>
  BY <1>2, <1>3, QuietLedger
<1>4. CASE /\ m < MaxRecords /\ grants' = Append(grants, g)
           /\ records' = Append(records, r)
  <2>1. clock \in Nat
    BY LivesAssumption, OAuthBounds DEF OAuthInv, OAuthTypeOK
  <2>2. g \in GrantType
    <3>1. flow[f].version \in 1..(MaxAuthority + 1)
      BY DEF Consent, Current, OAuthInv, OAuthTypeOK
    <3> QED BY <2>1, <3>1, LivesAssumption, OAuthBounds DEF GrantType
  <2>3. /\ r \in RecordType(n + 1) /\ r.grant = n + 1 /\ r.present /\ ~r.spent
        /\ r.until <= g.until
    BY <1>1, <2>1, LivesAssumption, OAuthBounds DEF NewRecord, Least,
       RecordType
  <2> HIDE DEF g, r
  <2>4. /\ grants' \in Seq(GrantType) /\ Len(grants') = n + 1
        /\ \A h \in 1..n : grants'[h] = grants[h]
        /\ grants'[n + 1] = g
    BY <1>1, <1>4, <2>2 DEF OAuthInv, Ledger
  <2>5. records \in Seq(RecordType(n + 1))
    <3>1. RecordType(n) \subseteq RecordType(n + 1)
      BY <1>1 DEF RecordType
    <3> QED BY <3>1, SeqMonotonic DEF OAuthInv, Ledger
  <2>6. /\ records' \in Seq(RecordType(n + 1)) /\ Len(records') = m + 1
        /\ \A i \in 1..m : records'[i] = records[i]
        /\ records'[m + 1] = r
    BY <1>1, <1>4, <2>3, <2>5
  <2>7. /\ DOMAIN grants' = 1..(n + 1) /\ 1..(n + 1) = (1..n) \cup {n + 1}
        /\ Ids = 1..m /\ Ids' = 1..(m + 1)
        /\ 1..(m + 1) = (1..m) \cup {m + 1}
    BY <1>1, <2>4, <2>6, LenProperties DEF Ids
  <2>8. \A i \in 1..m : records[i].grant \in 1..n
    BY <1>1, <2>7 DEF RecordType
  <2>9. \A i \in Ids' : records'[i].until <= grants'[records'[i].grant].until
    <3>1. \A i \in 1..m : records'[i].until <= grants'[records'[i].grant].until
      BY <2>4, <2>6, <2>7, <2>8, LedgerHolds
    <3>2. records'[m + 1].until <= grants'[records'[m + 1].grant].until
      BY <2>3, <2>4, <2>6
    <3> QED BY <2>7, <3>1, <3>2
  <2>10. OneGrant'
    <3>1. \A h \in 1..n : grants[h].flow # f
      BY <1>1, LedgerHolds DEF Consent, OneGrant, Pending
    <3>2. g.flow = f /\ ~Pending(f)'
      BY DEF g, Consent, Pending, OAuthInv, OAuthTypeOK
    <3>3. \A e \in Flows : Pending(e)' => Pending(e)
      BY <1>2 DEF Forward
    <3>4. \A h, k \in 1..n : grants[h].flow = grants[k].flow => h = k
      BY <1>1, LedgerHolds DEF OneGrant
    <3>5. \A e \in Flows : Pending(e) => \A h \in 1..n : grants[h].flow # e
      BY <1>1, LedgerHolds DEF OneGrant
    <3>6. \A h \in 1..(n + 1) : grants'[h].flow = f <=> h = n + 1
      BY <2>4, <2>7, <3>1, <3>2
    <3>7. \A h, k \in 1..(n + 1) : grants'[h].flow = grants'[k].flow => h = k
      BY <2>4, <2>7, <3>4, <3>6
    <3>8. ASSUME NEW e \in Flows, Pending(e)', NEW h \in 1..(n + 1)
          PROVE  grants'[h].flow # e
      BY <2>4, <2>7, <3>2, <3>3, <3>5, <3>6, <3>8
    <3> QED BY <2>7, <3>7, <3>8 DEF OneGrant
  <2>11. OneExchangeable'
    <3>1. n + 1 \notin 1..n
      BY <1>1
    <3>2. \A i \in 1..m : Exchangeable(i)' <=> Exchangeable(i)
      BY <2>6 DEF Exchangeable
    <3>3. \A i \in 1..m : records'[i].grant = records[i].grant
      BY <2>6
    <3>4. \A i \in 1..m : records'[i].grant # records'[m + 1].grant
      BY <2>3, <2>6, <2>8, <3>1, <3>3
    <3> QED BY <2>7, <3>2, <3>3, <3>4, LedgerHolds DEF OneExchangeable
  <2>12. GoneLapsed'
    <3>1. clock' = clock
      BY DEF Consent
    <3>2. \A i \in 1..m : grants'[records'[i].grant].until
                            = grants[records[i].grant].until
      BY <2>4, <2>6, <2>8
    <3>3. \A i \in 1..m : records'[i].present <=> records[i].present
      BY <2>6
    <3> QED BY <2>3, <2>6, <2>7, <3>1, <3>2, <3>3, LedgerHolds
            DEF GoneLapsed, Lapsed
  <2>13. Grows
    BY <1>1, <2>4, <2>6, <2>7 DEF Grows
  <2>14. /\ (records \in Seq(RecordType(Len(grants))))'
         /\ (Len(records) <= MaxRecords)'
    BY <1>1, <1>4, <2>4, <2>6, LivesAssumption, OAuthBounds
  <2>15. Ledger'
    BY <2>4, <2>9, <2>10, <2>11, <2>12, <2>14 DEF Ledger
  <2> QED BY <2>13, <2>15
<1> QED BY <1>3, <1>4 DEF Consent

\* An exchange spends the grant's only credential that can be exchanged, and
\* leaves another.
LEMMA MintLedger ==
    ASSUME OAuthInv, NEW c \in Calls, Mint(c)
    PROVE  Ledger' /\ Grows
<1> DEFINE n == Len(grants)
           m == Len(records)
           i == call[c].id
           g == records[i].grant
           a == NewRecord("access", g,
                            Least(clock + AccessLife, grants[g].until))
           r == NewRecord("refresh", g, grants[g].until)
           marked == [records EXCEPT ![i].spent = TRUE]
<1>1. /\ n \in Nat /\ DOMAIN grants = 1..n /\ m \in Nat /\ Ids = 1..m
      /\ \A h \in 1..n : grants[h] \in GrantType
      /\ \A k \in 1..m : records[k] \in RecordType(n)
  BY LedgerIs DEF OAuthInv, Ids
<1>2. i \in 1..m /\ g \in 1..n /\ grants[g].until \in Nat
  BY <1>1 DEF Mint, Presented, OAuthInv, CallsKnow, RecordType, GrantType
<1>3. Exchangeable(i)
  BY DEF Mint, Presented, Record, Spent, Exchangeable
<1>4. /\ a \in RecordType(n) /\ a.kind = "access" /\ a.grant = g
      /\ a.present /\ a.until <= grants[g].until
  <2>1. clock + AccessLife \in Nat
    BY LivesAssumption, OAuthBounds DEF OAuthInv, OAuthTypeOK
  <2> QED BY <1>2, <2>1 DEF NewRecord, Least, RecordType
<1>5. /\ r \in RecordType(n) /\ r.grant = g
      /\ r.present /\ r.until <= grants[g].until
  BY <1>2 DEF NewRecord, RecordType
<1>6. /\ marked \in Seq(RecordType(n)) /\ Len(marked) = m
      /\ \A k \in 1..m :
           /\ k # i => marked[k] = records[k]
           /\ marked[k].kind = records[k].kind
           /\ marked[k].grant = records[k].grant
           /\ marked[k].until = records[k].until
           /\ marked[k].present = records[k].present
           /\ records[k].spent => marked[k].spent
      /\ marked[i].spent
  <2> DEFINE e == [records[i] EXCEPT !.spent = TRUE]
  <2>1. /\ e \in RecordType(n) /\ e.spent /\ e.kind = records[i].kind
        /\ e.grant = g /\ e.until = records[i].until
        /\ e.present = records[i].present
    BY <1>1, <1>2 DEF RecordType
  <2>0. records \in Seq(RecordType(n))
    BY DEF OAuthInv, Ledger
  <2>2. marked = [records EXCEPT ![i] = e]
    OBVIOUS
  <2> HIDE DEF e, marked
  <2>3. /\ marked \in Seq(RecordType(n)) /\ Len(marked) = m
        /\ \A k \in 1..m : marked[k] = IF k = i THEN e ELSE records[k]
    BY <1>2, <2>0, <2>1, <2>2, ExceptSeq
  <2> QED BY <1>2, <2>1, <2>3
<1>7. /\ grants' = grants /\ records' = marked \o <<a, r>>
      /\ m + 2 <= MaxRecords /\ clock' = clock /\ flow' = flow
  BY DEF Mint, Record
<1> HIDE DEF marked, a, r
<1>8. /\ records' \in Seq(RecordType(n)) /\ Len(records') = m + 2
      /\ \A k \in 1..m : records'[k] = marked[k]
      /\ records'[m + 1] = a /\ records'[m + 2] = r
  <2>1. /\ marked \o <<a, r>> \in Seq(RecordType(n))
        /\ Len(marked \o <<a, r>>) = Len(marked) + 2
        /\ \A k \in 1..Len(marked) : (marked \o <<a, r>>)[k] = marked[k]
        /\ (marked \o <<a, r>>)[Len(marked) + 1] = a
        /\ (marked \o <<a, r>>)[Len(marked) + 2] = r
    BY <1>4, <1>5, <1>6, TwoMore
  <2> QED BY <1>6, <1>7, <2>1
<1>9. Ids' = (1..m) \cup {m + 1, m + 2}
  BY <1>1, <1>8 DEF Ids
<1>10. \A k \in Ids' : records'[k].until <= grants'[records'[k].grant].until
  <2>1. \A k \in 1..m : records'[k].until <= grants[records'[k].grant].until
    BY <1>1, <1>6, <1>8, LedgerHolds
  <2>2. \A k \in {m + 1, m + 2} :
            records'[k].until <= grants[records'[k].grant].until
    BY <1>4, <1>5, <1>8
  <2> QED BY <1>7, <1>9, <2>1, <2>2
<1>11. OneGrant'
  BY <1>7 DEF OAuthInv, Ledger, OneGrant, Pending
<1>12. ASSUME NEW k \in Ids', Exchangeable(k)'
       PROVE  k = m + 2 \/ (k \in 1..m /\ k # i /\ Exchangeable(k))
  BY <1>4, <1>6, <1>8, <1>9, <1>12 DEF Exchangeable
<1>13. \A k \in 1..m : k # i /\ Exchangeable(k) => records[k].grant # g
  BY <1>1, <1>2, <1>3, LedgerHolds DEF OneExchangeable
<1>14. OneExchangeable'
  <2> SUFFICES ASSUME NEW j \in Ids', NEW k \in Ids',
                      Exchangeable(j)', Exchangeable(k)',
                      records'[j].grant = records'[k].grant
               PROVE  j = k
    BY DEF OneExchangeable
  <2>1. \A k0 \in 1..m : records'[k0].grant = records[k0].grant
    BY <1>6, <1>8
  <2>2. records'[m + 2].grant = g
    BY <1>5, <1>8
  <2>3. ASSUME NEW e \in Ids', Exchangeable(e)'
        PROVE  \/ e = m + 2
               \/ e \in 1..m /\ Exchangeable(e) /\ records'[e].grant # g
    BY <1>12, <1>13, <2>1, <2>3
  <2>4. \A k0, k1 \in 1..m :
            Exchangeable(k0) /\ Exchangeable(k1)
                /\ records'[k0].grant = records'[k1].grant => k0 = k1
    BY <1>1, <2>1, LedgerHolds DEF OneExchangeable
  <2>5. j = m + 2 \/ (j \in 1..m /\ Exchangeable(j) /\ records'[j].grant # g)
    BY <2>3
  <2>6. k = m + 2 \/ (k \in 1..m /\ Exchangeable(k) /\ records'[k].grant # g)
    BY <2>3
  <2> QED BY <2>2, <2>4, <2>5, <2>6
<1>15. GoneLapsed'
  <2>1. \A k \in 1..m : ~records[k].present =>
                            grants[records[k].grant].until <= clock
    BY <1>1, LedgerHolds DEF GoneLapsed, Lapsed
  <2>2. \A k \in 1..m : /\ records'[k].present = records[k].present
                         /\ records'[k].grant = records[k].grant
    BY <1>6, <1>8
  <2>3. records'[m + 1].present /\ records'[m + 2].present
    BY <1>4, <1>5, <1>8
  <2>4. ASSUME NEW k \in Ids', ~records'[k].present
        PROVE  grants'[records'[k].grant].until <= clock'
    <3>1. k \in 1..m
      BY <1>9, <2>3, <2>4
    <3>2. records'[k].grant = records[k].grant /\ ~records[k].present
      BY <2>2, <2>4, <3>1
    <3>3. grants[records[k].grant].until <= clock
      BY <2>1, <3>1, <3>2
    <3> QED BY <1>7, <3>2, <3>3
  <2> QED BY <2>4 DEF GoneLapsed, Lapsed
<1>16. Ledger'
  <2>1. /\ (grants \in Seq(GrantType))'
        /\ (records \in Seq(RecordType(Len(grants))))'
        /\ (Len(records) <= MaxRecords)'
    BY <1>7, <1>8 DEF OAuthInv, Ledger
  <2> QED BY <1>10, <1>11, <1>14, <1>15, <2>1 DEF Ledger
<1>17. Grows
  BY <1>1, <1>6, <1>7, <1>8, <1>9 DEF Grows
<1> QED BY <1>16, <1>17

\* The cleanup takes credentials of expired grants, and marks them gone.
LEMMA CleanLedger ==
    ASSUME OAuthInv, NEW w \in Workers, Clean(w)
    PROVE  Ledger' /\ Grows /\ Forward
<1> DEFINE n == Len(grants)
           m == Len(records)
<1>1. /\ n \in Nat /\ DOMAIN grants = 1..n /\ m \in Nat /\ Ids = 1..m
      /\ \A k \in 1..m : records[k] \in RecordType(n)
  BY LedgerIs DEF OAuthInv, Ids
<1>2. PICK batch \in SUBSET {i \in Ids : Removable(i)} :
        records' = [i \in Ids |-> IF i \in batch
                                  THEN [records[i] EXCEPT !.present = FALSE]
                                  ELSE records[i]]
  BY DEF Clean
<1>3. UNCHANGED <<grants, clock, authority>>
  BY DEF Clean
<1>4. \A k \in 1..m :
        /\ records'[k] \in RecordType(n)
        /\ records'[k].kind = records[k].kind
        /\ records'[k].grant = records[k].grant
        /\ records'[k].until = records[k].until
        /\ records'[k].spent = records[k].spent
        /\ k \notin batch => records'[k] = records[k]
        /\ k \in batch => ~records'[k].present
  BY <1>1, <1>2 DEF RecordType
<1>5. records' \in [1..m -> RecordType(n)]
  <2>1. records' = [k \in 1..m |-> records'[k]]
    BY <1>1, <1>2
  <2> QED BY <1>4, <2>1
<1>6. records' \in Seq(RecordType(n))
  BY <1>1, <1>5, SeqDef
<1>7. Len(records') = m /\ Ids' = 1..m
  BY <1>1, <1>5, <1>6, LenProperties DEF Ids
<1>8. Forward
  <2>1. \A f \in Flows : Pending(f)' => Pending(f)
    BY DEF Clean, Pending, NoFlow
  <2> QED BY <1>3, <2>1, LivesAssumption, OAuthBounds DEF Forward, OAuthInv,
             OAuthTypeOK
<1>9. OneGrant'
  BY <1>3, <1>8 DEF Forward, OAuthInv, Ledger, OneGrant
<1>10. OneExchangeable'
  <2>1. \A k \in 1..m : Exchangeable(k)' => Exchangeable(k)
    BY <1>4 DEF Exchangeable
  <2> QED BY <1>1, <1>4, <1>7, <2>1 DEF OAuthInv, Ledger, OneExchangeable
<1>11. GoneLapsed'
  <2>1. \A k \in batch : Lapsed(records[k].grant)
    BY DEF Removable
  <2>2. \A k \in 1..m : ~records[k].present => Lapsed(records[k].grant)
    BY <1>1 DEF OAuthInv, Ledger, GoneLapsed
  <2> QED BY <1>3, <1>4, <1>7, <2>1, <2>2 DEF GoneLapsed, Lapsed
<1>12. Ledger'
  <2>1. /\ (grants \in Seq(GrantType))'
        /\ (records \in Seq(RecordType(Len(grants))))'
        /\ (Len(records) <= MaxRecords)'
    BY <1>3, <1>6, <1>7 DEF OAuthInv, Ledger
  <2>2. \A k \in Ids' : records'[k].until <= grants'[records'[k].grant].until
    BY <1>1, <1>3, <1>4, <1>7 DEF OAuthInv, Ledger
  <2> QED BY <1>9, <1>10, <1>11, <2>1, <2>2 DEF Ledger
<1>13. Grows
  BY <1>1, <1>3, <1>4, <1>7 DEF Grows
<1> QED BY <1>8, <1>12, <1>13

-----------------------------------------------------------------------------
(* Every step.                                                             *)

\* No step takes back what the ledger says, the time or a version.
LEMMA LedgerStep ==
    ASSUME OAuthInv, [OAuthNext]_oauthVars
    PROVE  Ledger' /\ Grows /\ Forward
<1>1. /\ clock \in 0..MaxTime /\ clock \in Nat
      /\ authority \in [version : 1..(MaxAuthority + 1), active : BOOLEAN]
      /\ authority.version \in Nat
  BY LivesAssumption, OAuthBounds DEF OAuthInv, OAuthTypeOK
<1>2. ASSUME UNCHANGED <<clock, flow, authority>> PROVE Forward
  BY <1>1, <1>2 DEF Forward, Pending
<1>3. ASSUME UNCHANGED <<clock, flow>>,
             authority'.version = authority.version + 1
      PROVE  Forward
  BY <1>1, <1>3 DEF Forward, Pending
<1>4. ASSUME NEW f \in Flows, BeginFlow(f) \/ Authenticate(f)
      PROVE  Ledger' /\ Grows /\ Forward
  <2>1. \A e \in Flows : Pending(e)' => Pending(e)
    BY <1>4 DEF BeginFlow, Authenticate, Pending, OAuthInv, OAuthTypeOK
  <2>2. Forward
    BY <1>1, <1>4, <2>1 DEF BeginFlow, Authenticate, Forward
  <2> QED BY <1>4, <2>2, QuietLedger DEF BeginFlow, Authenticate
<1>5. ASSUME NEW f \in Flows, Consent(f)
      PROVE  Ledger' /\ Grows /\ Forward
  <2>1. Forward
    BY <1>1, <1>5 DEF Consent, Forward, Pending, OAuthInv, OAuthTypeOK
  <2> QED BY <1>5, <2>1, ConsentLedger
<1>6. ASSUME NEW c \in Calls,
             \/ \E i \in Ids : Present(c, i)
             \/ Refuse(c) \/ Accept(c) \/ Deny(c) \/ Fail(c)
      PROVE  Ledger' /\ Grows /\ Forward
  <2>1. UNCHANGED <<clock, flow, authority, grants, records>>
    BY <1>6 DEF Present, Refuse, Accept, Deny, Fail, OnlyFinish
  <2> QED BY <1>2, <2>1, QuietLedger
<1>7. ASSUME NEW c \in Calls, Replay(c)
      PROVE  Ledger' /\ Grows /\ Forward
  BY <1>2, <1>7, RevokeLedger DEF Replay
<1>8. ASSUME NEW c \in Calls, Mint(c)
      PROVE  Ledger' /\ Grows /\ Forward
  BY <1>2, <1>8, MintLedger DEF Mint
<1>9. ASSUME NEW g, RevokeGrants(g)
      PROVE  Ledger' /\ Grows /\ Forward
  BY <1>2, <1>9, RevokeLedger DEF RevokeGrants
<1>10. CASE ChangePersonaToken \/ UpdatePersona \/ Suspend \/ Recover
  <2>1. Forward
    BY <1>3, <1>10 DEF ChangePersonaToken, UpdatePersona, Suspend, Recover,
       NewVersion
  <2>2. UNCHANGED <<clock, flow, records>>
    BY <1>10 DEF ChangePersonaToken, UpdatePersona, Suspend, Recover,
       NewVersion
  <2>3. grants' = Revoked(grants, DOMAIN grants) \/ UNCHANGED grants
    BY <1>10 DEF ChangePersonaToken, UpdatePersona, Suspend, Recover
  <2> QED BY <2>1, <2>2, <2>3, QuietLedger, RevokeLedger
<1>11. CASE UNCHANGED oauth
  BY <1>2, <1>11, QuietLedger DEF oauth
<1>12. ASSUME NEW w \in Workers, Clean(w)
       PROVE  Ledger' /\ Grows /\ Forward
  BY <1>12, CleanLedger
<1>13. CASE Tick
  <2>1. Forward
    BY <1>1, <1>13 DEF Tick, Forward, Pending
  <2> QED BY <1>13, <2>1, QuietLedger DEF Tick
<1>14. CASE UNCHANGED oauthVars
  BY <1>11, <1>14 DEF oauthVars, oauth
<1> QED BY <1>4, <1>5, <1>6, <1>7, <1>8, <1>9, <1>10, <1>11, <1>12, <1>13, <1>14
    DEF OAuthNext, Disconnect, OwnerRevokes, RevokeToken, Lease

\* Only a step that presents gives a call something to know.
LEMMA CallSteps ==
    ASSUME [OAuthNext]_oauthVars
    PROVE  \/ UNCHANGED call
           \/ \E c \in Calls : Finish(c)
           \/ \E c \in Calls, i \in Ids : Present(c, i)
BY DEF OAuthNext, oauthVars, BeginFlow, Authenticate, Consent, Replay,
   Mint, Refuse, Accept, Deny, Fail, OnlyFinish, Disconnect,
   OwnerRevokes, RevokeToken, RevokeGrants, ChangePersonaToken, UpdatePersona,
   Suspend, Recover, NewVersion, Lease, oauth, Clean, Tick

\* What has ended has ended for good.
LEMMA EndedStays ==
    ASSUME OAuthInv, Grows, Forward,
           NEW g \in DOMAIN grants, Ended(g)
    PROVE  Ended(g)'
<1>1. /\ grants'[g].until = grants[g].until
      /\ grants'[g].version = grants[g].version
      /\ grants[g].revoked => grants'[g].revoked
  BY DEF Grows
<1>2. grants[g] \in GrantType
  BY LedgerIs DEF OAuthInv
<1>3. grants[g].until \in Nat /\ grants[g].version \in Nat
  BY <1>2 DEF GrantType
<1>4. clock \in Nat /\ authority.version \in Nat
  BY DEF OAuthInv, OAuthTypeOK
<1> QED BY <1>1, <1>3, <1>4 DEF Ended, Lapsed, Forward

\* What a call read is still so after any step.
LEMMA CallsStep ==
    ASSUME OAuthInv, [OAuthNext]_oauthVars
    PROVE  /\ CallsKnow'
           /\ call' \in [Calls -> [id : 0..Len(records'), spent : BOOLEAN,
                                    late : BOOLEAN]]
<1> DEFINE CallShape(m) == [id : 0..m, spent : BOOLEAN, late : BOOLEAN]
<1>1. Ledger' /\ Grows /\ Forward
  BY LedgerStep
<1>2. /\ Len(records) \in Nat /\ Len(records') \in Nat
      /\ Len(records) <= Len(records')
      /\ \A i \in Ids : records[i].grant \in DOMAIN grants
  BY <1>1, LedgerIs, LenProperties DEF Grows, Ledger, RecordType, OAuthInv
<1>3. ASSUME NEW c \in Calls, call'[c] = call[c] \/ call'[c] = FreeCall
      PROVE  /\ call'[c] \in CallShape(Len(records'))
             /\ Busy(c)' =>
                  /\ call'[c].id \in Ids'
                  /\ call'[c].spent => Record(c)'.spent
                  /\ call'[c].late => Ended(Record(c).grant)'
  <2>1. CASE call'[c] = FreeCall
    BY <1>2, <2>1 DEF FreeCall, Busy
  <2>2. CASE call'[c] = call[c] /\ call[c] # FreeCall
    <3>1. /\ call[c].id \in Ids
          /\ call[c].spent => Record(c).spent
          /\ call[c].late => Ended(Record(c).grant)
      BY <2>2 DEF OAuthInv, CallsKnow, Busy
    <3>2. /\ call[c].id \in Ids' /\ Record(c)'.grant = Record(c).grant
          /\ Record(c).spent => Record(c)'.spent
      BY <1>1, <2>2, <3>1 DEF Grows, Record
    <3>3. Record(c).grant \in DOMAIN grants
      BY <1>2, <3>1 DEF Record
    <3>4. Ended(Record(c).grant) => (\A g \in DOMAIN grants :
             g = Record(c).grant => Ended(g)')
      BY <1>1, EndedStays
    <3>5. call[c] \in CallShape(Len(records))
      BY DEF OAuthInv, OAuthTypeOK
    <3>6. call[c] \in CallShape(Len(records'))
      BY <1>2, <3>5
    <3> HIDE DEF CallShape
    <3>7. call[c].late => Ended(Record(c).grant)'
      BY <3>1, <3>2, <3>3, <3>4 DEF Ended, Lapsed
    <3> QED BY <2>2, <3>1, <3>2, <3>6, <3>7
  <2> QED BY <1>3, <2>1, <2>2
<1>4. CASE \A c \in Calls : call'[c] = call[c] \/ call'[c] = FreeCall
  <2>1. call' = [c \in Calls |-> call'[c]]
    BY CallSteps DEF OAuthInv, OAuthTypeOK, Finish, Present
  <2> QED BY <1>3, <1>4, <2>1 DEF CallsKnow
<1>5. ASSUME NEW c \in Calls, NEW i \in Ids, Present(c, i)
      PROVE  CallsKnow' /\ call' \in [Calls -> CallShape(Len(records'))]
  <2> DEFINE e == [id |-> i, spent |-> records[i].spent,
                   late |-> Ended(records[i].grant)]
  <2>1. /\ records' = records /\ grants' = grants
        /\ clock' = clock /\ authority' = authority
    BY <1>5 DEF Present
  <2>2. /\ call' = [call EXCEPT ![c] = e]
        /\ call \in [Calls -> CallShape(Len(records))]
    BY <1>5 DEF Present, OAuthInv, OAuthTypeOK
  <2>3. e \in CallShape(Len(records'))
    <3>1. records[i].spent \in BOOLEAN /\ i \in 0..Len(records')
      BY <1>2, <2>1, LedgerIs DEF OAuthInv, RecordType, Ids
    <3>2. Ended(records[i].grant) \in BOOLEAN
      BY DEF Ended
    <3> QED BY <3>1, <3>2
  <2>4. call' \in [Calls -> CallShape(Len(records'))]
    BY <2>1, <2>2, <2>3
  <2>5. \A d \in Calls : call'[d] = call[d] \/ (d = c /\ call'[d] = e)
    BY <2>2
  <2>6. /\ call'[c] = e => /\ call'[c].id = i
                           /\ call'[c].spent => records'[i].spent
                           /\ call'[c].late => Ended(records[i].grant)
    BY <2>1
  <2>7. Ended(records[i].grant) => Ended(records[i].grant)'
    BY <2>1 DEF Ended, Lapsed
  <2>8. Ids' = Ids
    BY <2>1 DEF Ids
  <2> HIDE DEF e
  <2>9. ASSUME NEW d \in Calls, Busy(d)'
        PROVE  /\ call'[d].id \in Ids'
               /\ call'[d].spent => Record(d)'.spent
               /\ call'[d].late => Ended(Record(d).grant)'
    <3>1. CASE call'[d] = call[d]
      BY <1>3, <2>9, <3>1
    <3>2. CASE d = c /\ call'[d] = e
      BY <2>1, <2>6, <2>7, <2>8, <3>2 DEF Record, Ended, Lapsed
    <3> QED BY <2>5, <3>1, <3>2
  <2> QED BY <2>4, <2>9 DEF CallsKnow
<1>6. CASE UNCHANGED call \/ \E c \in Calls : Finish(c)
  <2>1. \A c \in Calls : call'[c] = call[c] \/ call'[c] = FreeCall
    BY <1>6 DEF Finish, OAuthInv, OAuthTypeOK
  <2> QED BY <1>4, <2>1
<1> QED BY <1>5, <1>6, CallSteps

\* The clock, the authority and the browser keep their shape, and what is
\* suspended can recover.
LEMMA AuthorityStep ==
    ASSUME OAuthInv, [OAuthNext]_oauthVars
    PROVE  /\ clock' \in 0..MaxTime
           /\ authority' \in [version : 1..(MaxAuthority + 1), active : BOOLEAN]
           /\ flow' \in [Flows ->
                [at : {"none", "open", "known", "consumed", "gone"},
                 until : Nat, version : 0..(MaxAuthority + 1)]]
           /\ SuspendedBelow'
<1> DEFINE FlowType == [at : {"none", "open", "known", "consumed", "gone"},
                        until : Nat, version : 0..(MaxAuthority + 1)]
<1>1. /\ clock \in 0..MaxTime /\ clock \in Nat
      /\ authority \in [version : 1..(MaxAuthority + 1), active : BOOLEAN]
      /\ flow \in [Flows -> FlowType]
      /\ SuspendedBelow /\ MaxAuthority \in Nat
  BY LivesAssumption, OAuthBounds DEF OAuthInv, OAuthTypeOK
<1>2. CASE UNCHANGED <<clock, authority, flow>>
  BY <1>1, <1>2 DEF SuspendedBelow
<1>3. ASSUME NEW f \in Flows, BeginFlow(f)
      PROVE  flow' \in [Flows -> FlowType]
  <2>1. clock + FlowLife \in Nat
    BY <1>1, LivesAssumption, OAuthBounds
  <2>2. [at |-> "open", until |-> clock + FlowLife, version |-> 0] \in FlowType
    BY <1>1, <2>1
  <2> QED BY <1>1, <1>3, <2>2 DEF BeginFlow
<1>4. ASSUME NEW f \in Flows, Authenticate(f) \/ Consent(f)
      PROVE  flow' \in [Flows -> FlowType]
  <2>1. CASE Authenticate(f)
    <3>1. flow[f] \in FlowType /\ authority.version \in 0..(MaxAuthority + 1)
      BY <1>1
    <3>2. [flow[f] EXCEPT !.at = "known", !.version = authority.version]
            \in FlowType
      BY <3>1
    <3>3. flow' = [flow EXCEPT ![f] =
                [flow[f] EXCEPT !.at = "known", !.version = authority.version]]
      BY <1>1, <2>1 DEF Authenticate
    <3> HIDE DEF FlowType
    <3> QED BY <1>1, <3>2, <3>3
  <2>2. CASE Consent(f)
    BY <1>1, <2>2 DEF Consent
  <2> QED BY <1>4, <2>1, <2>2
<1>5. ASSUME NEW f \in Flows,
             BeginFlow(f) \/ Authenticate(f) \/ Consent(f)
      PROVE  UNCHANGED <<clock, authority>>
  BY <1>5 DEF BeginFlow, Authenticate, Consent
<1>6. CASE ChangePersonaToken \/ UpdatePersona \/ Suspend \/ Recover
  <2>1. /\ authority'.version = authority.version + 1
        /\ authority' \in [version : 1..(MaxAuthority + 1), active : BOOLEAN]
        /\ SuspendedBelow'
    <3>1. CASE ~authority.active
      <4>1. authority.version <= MaxAuthority
        BY <1>1, <3>1 DEF SuspendedBelow
      <4>2. authority' = [version |-> authority.version + 1, active |-> TRUE]
        BY <1>6, <3>1 DEF ChangePersonaToken, UpdatePersona, Suspend, Recover,
                          MayChange, NewVersion
      <4>3. /\ authority'.active = TRUE
            /\ authority.version + 1 \in 1..(MaxAuthority + 1)
        BY <1>1, <4>1, <4>2
      <4> QED BY <4>2, <4>3 DEF SuspendedBelow
    <3>2. CASE authority.active
      <4>1. PICK b \in BOOLEAN :
              authority' = [version |-> authority.version + 1, active |-> b]
        BY <1>6, <3>2 DEF ChangePersonaToken, UpdatePersona, Suspend, Recover,
           NewVersion
      <4>2. authority.version < MaxAuthority
        BY <1>6, <3>2 DEF ChangePersonaToken, UpdatePersona, Suspend, Recover,
           MayChange
      <4>3. /\ authority.version + 1 \in 1..(MaxAuthority + 1)
            /\ authority.version + 1 <= MaxAuthority
        BY <1>1, <4>2
      <4> QED BY <4>1, <4>3 DEF SuspendedBelow
    <3> QED BY <3>1, <3>2
  <2> QED BY <1>1, <1>6, <2>1
          DEF ChangePersonaToken, UpdatePersona, Suspend, Recover, NewVersion
<1>7. ASSUME NEW w \in Workers, Clean(w)
      PROVE  flow' \in [Flows -> FlowType] /\ UNCHANGED <<clock, authority>>
  <2>1. [NoFlow EXCEPT !.at = "gone"] \in FlowType
    BY <1>1 DEF NoFlow
  <2> QED BY <1>1, <1>7, <2>1 DEF Clean
<1>8. CASE Tick
  BY <1>1, <1>8, LivesAssumption, OAuthBounds DEF Tick, SuspendedBelow
<1>9. ASSUME [OAuthNext]_oauthVars
      PROVE  \/ UNCHANGED <<clock, authority, flow>>
             \/ \E f \in Flows :
                  BeginFlow(f) \/ Authenticate(f) \/ Consent(f)
             \/ ChangePersonaToken \/ UpdatePersona \/ Suspend \/ Recover
             \/ \E w \in Workers : Clean(w)
             \/ Tick
  BY <1>9 DEF OAuthNext, oauthVars, Present, Replay, Mint, Refuse, Accept,
     Deny, Fail, OnlyFinish, Disconnect, OwnerRevokes, RevokeToken,
     RevokeGrants, Lease, oauth
<1>10. ASSUME UNCHANGED authority PROVE SuspendedBelow'
  BY <1>1, <1>10 DEF SuspendedBelow
<1> QED BY <1>1, <1>2, <1>3, <1>4, <1>5, <1>6, <1>7, <1>8, <1>9, <1>10

\* The lease: it stays with the process that cleans.
LEMMA LeaseStep ==
    ASSUME OAuthInv, [OAuthNext]_oauthVars
    PROVE  Cleaner!LeaseTypeOK' /\ CleanerOwns'
<1>1. Cleaner!LeaseTypeOK /\ CleanerOwns
  BY DEF OAuthInv, OAuthTypeOK
<1>2. CASE UNCHANGED <<lease, worker>>
  BY <1>1, <1>2 DEF Cleaner!LeaseTypeOK, CleanerOwns
<1>3. ASSUME NEW w \in Workers, Cleaner!Claim(w)
      PROVE  Cleaner!LeaseTypeOK' /\ CleanerOwns'
  BY <1>1, <1>3 DEF Cleaner!Claim, Cleaner!Goes, Cleaner!Cleaning,
     Cleaner!LeaseTypeOK, CleanerOwns
<1>4. ASSUME NEW w \in Workers, Cleaner!Begin(w)
      PROVE  Cleaner!LeaseTypeOK' /\ CleanerOwns'
  BY <1>1, <1>4 DEF Cleaner!Begin, Cleaner!Holds, Cleaner!Goes,
     Cleaner!LeaseTypeOK, CleanerOwns
<1>5. ASSUME NEW w \in Workers,
             Cleaner!Commit(w) \/ Cleaner!Rollback(w) \/ Cleaner!Crash(w)
      PROVE  Cleaner!LeaseTypeOK' /\ CleanerOwns'
  BY <1>1, <1>5 DEF Cleaner!Commit, Cleaner!Rollback, Cleaner!Crash,
     Cleaner!Goes, Cleaner!LeaseTypeOK, CleanerOwns
<1>6. ASSUME NEW w \in Workers, Cleaner!Release(w)
      PROVE  Cleaner!LeaseTypeOK' /\ CleanerOwns'
  BY <1>1, <1>6 DEF Cleaner!Release, Cleaner!Goes, Cleaner!NoLease,
     Cleaner!LeaseTypeOK, CleanerOwns
<1>7. CASE Cleaner!Expire
  BY <1>1, <1>7 DEF Cleaner!Expire, Cleaner!LeaseTypeOK, CleanerOwns
<1>8. \/ UNCHANGED <<lease, worker>>
      \/ \E w \in Workers :
           \/ Cleaner!Claim(w) \/ Cleaner!Begin(w) \/ Cleaner!Commit(w)
           \/ Cleaner!Rollback(w) \/ Cleaner!Release(w)
           \/ Cleaner!Crash(w)
      \/ Cleaner!Expire
  BY DEF OAuthNext, oauthVars, BeginFlow, Authenticate, Consent, Present,
     Replay, Mint, Refuse, Accept, Deny, Fail, OnlyFinish,
     Disconnect, OwnerRevokes, RevokeToken, RevokeGrants, ChangePersonaToken,
     UpdatePersona, Suspend, Recover, NewVersion, Lease, Clean,
     Tick
<1> QED BY <1>2, <1>3, <1>4, <1>5, <1>6, <1>7, <1>8

\* There is nothing yet.
LEMMA OAuthBegins == OAuthInit => OAuthInv
<1> SUFFICES ASSUME OAuthInit PROVE OAuthInv
  OBVIOUS
<1>1. /\ grants = <<>> /\ records = <<>> /\ Len(grants) = 0 /\ Len(records) = 0
      /\ grants \in Seq(GrantType) /\ records \in Seq(RecordType(0))
  BY EmptySeq DEF OAuthInit
<1>2. Ids = {} /\ DOMAIN grants = {}
  BY <1>1 DEF Ids
<1>3. /\ clock \in 0..MaxTime
      /\ authority \in [version : 1..(MaxAuthority + 1), active : BOOLEAN]
      /\ flow \in [Flows ->
           [at : {"none", "open", "known", "consumed", "gone"},
            until : Nat, version : 0..(MaxAuthority + 1)]]
      /\ SuspendedBelow
  BY LivesAssumption, OAuthBounds DEF OAuthInit, NoFlow, SuspendedBelow
<1>4. /\ call \in [Calls -> [id : 0..Len(records), spent : BOOLEAN,
                             late : BOOLEAN]]
      /\ CallsKnow
  BY <1>1 DEF OAuthInit, FreeCall, CallsKnow, Busy
<1>5. Cleaner!LeaseTypeOK /\ CleanerOwns
  BY DEF OAuthInit, Cleaner!LeaseInit, Cleaner!NoLease, Cleaner!LeaseTypeOK,
     CleanerOwns
<1>6. Ledger
  BY <1>1, <1>2, LivesAssumption, OAuthBounds DEF Ledger, OneGrant,
     OneExchangeable, GoneLapsed
<1>7. OAuthTypeOK
  BY <1>3, <1>4, <1>5, <1>6 DEF OAuthTypeOK, Ledger, GrantType, RecordType
<1> QED BY <1>3, <1>4, <1>5, <1>6, <1>7 DEF OAuthInv

\* Every step keeps the invariant.
LEMMA OAuthStep ==
    ASSUME OAuthInv, [OAuthNext]_oauthVars
    PROVE  OAuthInv'
<1>1. Ledger' /\ CallsKnow' /\ SuspendedBelow' /\ CleanerOwns'
  BY LedgerStep, CallsStep, AuthorityStep, LeaseStep
<1>2. OAuthTypeOK'
  BY <1>1, CallsStep, AuthorityStep, LeaseStep DEF OAuthTypeOK, Ledger, GrantType,
     RecordType
<1> QED BY <1>1, <1>2 DEF OAuthInv

\* A set in which any two elements are equal has at most one.
LEMMA AtMostOne ==
    ASSUME NEW S, \A x, y \in S : x = y
    PROVE  Cardinality(S) <= 1
<1>1. CASE S = {}
  BY <1>1, FS_EmptySet
<1>2. ASSUME NEW x \in S PROVE Cardinality(S) <= 1
  <2>1. S = {x}
    BY <1>2
  <2> QED BY <2>1, FS_Singleton
<1> QED BY <1>1, <1>2

\* One grant of a transaction, with one credential to exchange.
LEMMA InvOneHead ==
    ASSUME OAuthInv
    PROVE  OneHead
<1> SUFFICES ASSUME NEW f \in Flows
             PROVE  Cardinality({i \in Ids : /\ grants[records[i].grant].flow = f
                                             /\ records[i].kind # "access"
                                             /\ records[i].present
                                             /\ ~records[i].spent}) <= 1
  BY DEF OneHead
<1> DEFINE S == {i \in Ids : /\ grants[records[i].grant].flow = f
                             /\ records[i].kind # "access"
                             /\ records[i].present
                             /\ ~records[i].spent}
<1>1. \A i \in Ids : records[i].grant \in DOMAIN grants
  BY LedgerIs DEF OAuthInv, RecordType
<1>2. \A i, j \in S : i = j
  BY <1>1 DEF OAuthInv, Ledger, OneGrant, OneExchangeable, Exchangeable
<1> HIDE DEF S
<1>3. Cardinality(S) <= 1
  BY <1>2, AtMostOne
<1> QED BY <1>3 DEF S

\* Owners of one lease are one process.
LEMMA InvCleaning ==
    ASSUME OAuthInv
    PROVE  CleaningHoldsLease
BY DEF OAuthInv, CleanerOwns, CleaningHoldsLease, Cleaner!Cleaning

\* A spent credential is refused without revoking its family only once it is
\* deleted, and then the family has expired.
LEMMA StepReplay ==
    ASSUME OAuthInv, NEW c \in Calls,
           call[c].spent, CallEnds(c), Replay(c) \/ Mint(c) \/ Refuse(c)
    PROVE  LET g == Record(c).grant IN
           grants'[g].revoked \/ grants'[g].until <= clock'
<1> DEFINE g == Record(c).grant
<1>1. call[c].id \in Ids /\ Record(c).spent
  BY DEF CallEnds, OAuthInv, CallsKnow
<1>2. g \in DOMAIN grants /\ (~Record(c).present => Lapsed(g))
  BY <1>1, LedgerIs DEF OAuthInv, Ledger, GoneLapsed, Record, RecordType
<1>3. CASE Replay(c)
  BY <1>2, <1>3, RevokedIs DEF Replay, OAuthInv
<1>4. CASE Mint(c)
  BY <1>1, <1>4 DEF Mint, Spent, Record
<1>5. CASE Refuse(c)
  <2>1. ~Record(c).present
    BY <1>1, <1>5 DEF Refuse, Spent, Record
  <2> QED BY <1>2, <1>5, <2>1 DEF Refuse, OnlyFinish, Lapsed
<1> QED BY <1>3, <1>4, <1>5

\* What had ended when the call began is not valid when it is decided.
LEMMA StepEnded ==
    ASSUME OAuthInv, NEW c \in Calls, call[c].late, CallEnds(c)
    PROVE  ~(Mint(c) \/ Accept(c))
<1> DEFINE g == Record(c).grant
<1>1. call[c].id \in Ids /\ Ended(g)
  BY DEF CallEnds, OAuthInv, CallsKnow
<1>2. grants[g].version \in Nat /\ authority.version \in Nat
  BY <1>1, LedgerIs, LivesAssumption, OAuthBounds DEF OAuthInv, OAuthTypeOK,
     Record, RecordType, GrantType
<1>3. ~Valid(g)
  BY <1>1, <1>2 DEF Ended, Valid, Current
<1> QED BY <1>3 DEF Mint, Accept

LEMMA OAuthInvariant == OAuthSpec => []OAuthInv
<1>1. OAuthInit => OAuthInv
  BY OAuthBegins
<1>2. OAuthInv /\ [OAuthNext]_oauthVars => OAuthInv'
  BY OAuthStep
<1> QED BY <1>1, <1>2, PTL DEF OAuthSpec

\* The state of the authorization server keeps its shape.
THEOREM OAuthTypes == OAuthSpec => []OAuthTypeOK
<1>1. OAuthSpec => []OAuthInv
  BY OAuthInvariant
<1>2. OAuthInv => OAuthTypeOK
  BY DEF OAuthInv
<1> QED BY <1>1, <1>2, PTL

\* Of each authorization that a user gave, at most one credential can still be
\* exchanged, whichever calls of token() present it at once.
THEOREM OneCredential == OAuthSpec => []OneHead
<1>1. OAuthSpec => []OAuthInv
  BY OAuthInvariant
<1>2. OAuthInv => OneHead
  BY InvOneHead
<1> QED BY <1>1, <1>2, PTL

\* One process at a time cleans, and it owns the lease: claimWorkerLease takes
\* it from nobody that is at work.
THEOREM OneCleaner == OAuthSpec => []CleaningHoldsLease
<1>1. OAuthSpec => []OAuthInv
  BY OAuthInvariant
<1>2. OAuthInv => CleaningHoldsLease
  BY InvCleaning
<1> QED BY <1>1, <1>2, PTL

\* A call of token() that presented a spent credential leaves its family revoked
\* or expired, unless it fails: the cleanup hides no replay.
THEOREM ReplayIsCaught == OAuthSpec => ReplayEndsFamily
<1>1. OAuthSpec => []OAuthInv
  BY OAuthInvariant
<1>2. OAuthInv /\ [OAuthNext]_oauthVars =>
        [\A c \in Calls :
           call[c].spent /\ CallEnds(c)
             /\ (Replay(c) \/ Mint(c) \/ Refuse(c))
           => LET g == Record(c).grant IN
              grants'[g].revoked \/ grants'[g].until <= clock']_oauthVars
  BY StepReplay
<1> QED BY <1>1, <1>2, PTL DEF OAuthSpec, ReplayEndsFamily

\* A call that began after its grant had ended mints nothing and is not
\* accepted, whatever recovers meanwhile.
THEOREM EndedStaysEnded == OAuthSpec => EndedIsFinal
<1>1. OAuthSpec => []OAuthInv
  BY OAuthInvariant
<1>2. OAuthInv /\ [OAuthNext]_oauthVars =>
        [\A c \in Calls :
           call[c].late /\ CallEnds(c) => ~(Mint(c) \/ Accept(c))]_oauthVars
  BY StepEnded
<1> QED BY <1>1, <1>2, PTL DEF OAuthSpec, EndedIsFinal
=============================================================================
