----------------------- MODULE ExternalActions_proofs -----------------------
(***************************************************************************)
(* Proofs about ExternalActions, for any sets of actions and requests.     *)
(***************************************************************************)
EXTENDS ExternalActions, TLAPS

\* The sets of values of the module.
USE DEF Preparadas, Enviadas, Apagaveis, Finais, Cancelaveis

-----------------------------------------------------------------------------
(* Type correctness.                                                       *)

LEMMA TypeInit == Init => TypeOK
  BY DEF Init, TypeOK, Evidencias

LEMMA TypeStep == TypeOK /\ [Next]_vars => TypeOK'
  <1> SUFFICES ASSUME TypeOK, [Next]_vars PROVE TypeOK'
    OBVIOUS
  <1> USE DEF TypeOK, preparo, linhas, provedor, sinais, pedidos, Vai, EnvioVai,
              Salva
  <1>1. ASSUME NEW p \in Procs, Handler(p) PROVE TypeOK'
    <2>1. CASE Revalidate(p) BY <2>1 DEF Revalidate
    <2>2. CASE ClaimCheck(p) BY <2>2 DEF ClaimCheck
    <2>3. CASE Claim(p) BY <2>3 DEF Claim
    <2>4. CASE ClaimLost(p) BY <2>4 DEF ClaimLost
    <2>5. CASE Refuse(p) BY <2>5 DEF Refuse
    <2>6. CASE Send(p) BY <2>6 DEF Send
    <2>7. CASE Reply(p) BY <2>7 DEF Reply
    <2>8. CASE ReplyLost(p) BY <2>8 DEF ReplyLost
    <2>9. CASE Abort(p) BY <2>9 DEF Abort
    <2>10. CASE Record(p) BY <2>10 DEF Record
    <2>11. CASE RecordFails(p) BY <2>11 DEF RecordFails
    <2>12. CASE Fail(p) BY <2>12 DEF Fail
    <2>13. CASE FailLost(p) BY <2>13 DEF FailLost
    <2>14. CASE ReconcileReply(p) BY <2>14 DEF ReconcileReply
    <2>15. CASE ReconcileSave(p) BY <2>15 DEF ReconcileSave, Evidencias
    <2>. QED
      BY <1>1, <2>1, <2>2, <2>3, <2>4, <2>5, <2>6, <2>7, <2>8, <2>9, <2>10,
         <2>11, <2>12, <2>13, <2>14, <2>15 DEF Handler
  <1>2. ASSUME NEW p \in Procs, Request(p) PROVE TypeOK'
    <2>1. ASSUME NEW o \in Ops, ExecuteRead(p, o) PROVE TypeOK'
      BY <2>1 DEF ExecuteRead
    <2>2. ASSUME NEW o \in Ops, ReconcileRead(p, o) PROVE TypeOK'
      BY <2>2 DEF ReconcileRead, Recupera
    <2>. QED BY <1>2, <2>1, <2>2 DEF Request
  <1>3. ASSUME NEW p \in Procs, Crash(p) PROVE TypeOK'
    BY <1>3 DEF Crash, Evidencias
  <1>4. ASSUME NEW o \in Ops, Background(o) PROVE TypeOK'
    <2>1. CASE Prepare(o) BY <2>1 DEF Prepare
    <2>2. CASE Approve(o) BY <2>2 DEF Approve
    <2>3. CASE Cancel(o) BY <2>3 DEF Cancel
    <2>4. CASE Get(o) \/ Review(o) BY <2>4 DEF Get, Review, Recupera
    <2>5. CASE PurgePayload(o) BY <2>5 DEF PurgePayload
    <2>6. CASE PurgeReceipt(o) BY <2>6 DEF PurgeReceipt
    <2>7. CASE Expire(o) BY <2>7 DEF Expire
    <2>. QED
      BY <1>4, <2>1, <2>2, <2>3, <2>4, <2>5, <2>6, <2>7 DEF Background
  <1>5. ASSUME NEW o \in Ops, Provider(o) PROVE TypeOK'
    BY <1>5 DEF Provider, ProviderServe, ProviderMiss
  <1>6. CASE ChangeAuthority BY <1>6 DEF ChangeAuthority
  <1>7. CASE UNCHANGED vars BY <1>7 DEF vars
  <1>. QED BY <1>1, <1>2, <1>3, <1>4, <1>5, <1>6, <1>7 DEF Next

\* Every reachable state is of the declared types.
THEOREM ActionTypes == Spec => []TypeOK
  BY TypeInit, TypeStep, PTL DEF Spec

-----------------------------------------------------------------------------
(* The inductive invariant.  One request holds the claim of an action; it  *)
(* alone may send, once, and it has given up whenever the unknown outcome  *)
(* is recorded.                                                            *)

\* Who holds a claim claimed an action of that state, before it sent it.
ClaimPrecedes ==
    \A p \in Procs :
        /\ claimed[p] => estado[alvo[p]] \in Enviadas
        /\ envio[p] \in {"enviar", "aguardar"} \/ pc[p] = "registrar"
              => claimed[p]
        /\ envio[p] = "enviar" => enviadas[alvo[p]] = 0
        /\ pc[p] = "registrar" => recebidas[alvo[p]] > 0
        /\ pc[p] \in {"consultar", "gravar"} => envio[p] = "nenhum"

\* The claim has one winner.
ClaimUnique ==
    \A p, q \in Procs :
        claimed[p] /\ claimed[q] /\ alvo[p] = alvo[q] => p = q

\* What was sent was claimed, once, and the provider served no more than that.
SentClaimed ==
    \A o \in Ops :
        /\ enviadas[o] \in {0, 1}
        /\ rede[o] + recebidas[o] <= enviadas[o]
        /\ enviadas[o] = 1 => estado[o] \in Enviadas
        /\ estado[o] = "concluida" => recebidas[o] > 0
        /\ estado[o] \in Enviadas /\ exigeAprovacao[o] => aprovacao[o]

\* Once the unknown outcome is recorded, the winner sends nothing more.
UnknownQuiet ==
    \A p \in Procs :
        estado[alvo[p]] = "resultado_desconhecido" /\ envio[p] = "enviar"
            => abortado[p]

IInv ==
    /\ TypeOK
    /\ ClaimPrecedes
    /\ ClaimUnique
    /\ SentClaimed
    /\ UnknownQuiet

LEMMA IInvInit == Init => IInv
  BY TypeInit DEF Init, IInv, ClaimPrecedes, ClaimUnique, SentClaimed,
     UnknownQuiet

LEMMA IInvStep == IInv /\ [Next]_vars => IInv'
  <1> SUFFICES ASSUME IInv, [Next]_vars PROVE IInv'
    OBVIOUS
  <1>0. TypeOK'
    BY TypeStep DEF IInv
  <1> USE <1>0 DEF IInv, TypeOK, ClaimPrecedes, ClaimUnique, SentClaimed,
          UnknownQuiet, preparo, linhas, provedor, sinais, pedidos, Vai,
          EnvioVai, Salva, Livre
  <1>1. ASSUME NEW p \in Procs, Handler(p) PROVE IInv'
    <2>1. CASE Revalidate(p) BY <2>1 DEF Revalidate
    <2>2. CASE ClaimCheck(p) BY <2>2 DEF ClaimCheck
    <2>3. CASE Claim(p) BY <2>3 DEF Claim, Executavel
    <2>4. CASE ClaimLost(p) BY <2>4 DEF ClaimLost, Executavel
    <2>5. CASE Refuse(p) BY <2>5 DEF Refuse
    <2>6. CASE Send(p) BY <2>6 DEF Send
    <2>7. CASE Reply(p) BY <2>7 DEF Reply
    <2>8. CASE ReplyLost(p) BY <2>8 DEF ReplyLost
    <2>9. CASE Abort(p) BY <2>9 DEF Abort
    <2>10. CASE Record(p) BY <2>10 DEF Record, Aceita
    <2>11. CASE RecordFails(p) BY <2>11 DEF RecordFails
    <2>12. CASE Fail(p) BY SMTT(30), <2>12 DEF Fail, Aceita
    <2>13. CASE FailLost(p) BY <2>13 DEF FailLost
    <2>14. CASE ReconcileReply(p) BY <2>14 DEF ReconcileReply
    <2>15. CASE ReconcileSave(p) BY <2>15 DEF ReconcileSave
    <2>. QED
      BY <1>1, <2>1, <2>2, <2>3, <2>4, <2>5, <2>6, <2>7, <2>8, <2>9, <2>10,
         <2>11, <2>12, <2>13, <2>14, <2>15 DEF Handler
  <1>2. ASSUME NEW p \in Procs, Request(p) PROVE IInv'
    <2>1. ASSUME NEW o \in Ops, ExecuteRead(p, o) PROVE IInv'
      BY <2>1 DEF ExecuteRead
    <2>2. ASSUME NEW o \in Ops, ReconcileRead(p, o) PROVE IInv'
      <3> USE <2>2 DEF ReconcileRead
      <3>1. CASE UNCHANGED estado
        BY <3>1
      <3>2. CASE Recupera(o) /\ estado[o] = "executando"
        \* p holds no claim, so only the others' continuations matter.
        <4>1. /\ estado' = [estado EXCEPT ![o] = "resultado_desconhecido"]
              /\ PrazoEncerrado(o)
          BY <3>2 DEF Recupera
        <4>2. UnknownQuiet'
          BY <4>1 DEF PrazoEncerrado
        <4>3. ClaimPrecedes' /\ ClaimUnique' /\ SentClaimed'
          BY <3>2, <4>1
        <4>. QED BY <4>2, <4>3
      <3>. QED BY <3>1, <3>2
    <2>. QED BY <1>2, <2>1, <2>2 DEF Request
  <1>3. ASSUME NEW p \in Procs, Crash(p) PROVE IInv'
    BY <1>3 DEF Crash
  <1>4. ASSUME NEW o \in Ops, Background(o) PROVE IInv'
    <2>1. CASE Prepare(o) BY <2>1 DEF Prepare
    <2>2. CASE Approve(o) BY <2>2 DEF Approve
    <2>3. CASE Cancel(o) BY <2>3 DEF Cancel
    <2>4. CASE Get(o) \/ Review(o)
      <3> USE <2>4 DEF Get, Review
      <3>1. CASE estado[o] \in Preparadas
        <4>1. estado' = [estado EXCEPT ![o] = "expirada"]
          BY <3>1 DEF Recupera
        <4>2. enviadas[o] = 0 /\ \A q \in Procs : alvo[q] = o => ~claimed[q]
          BY <3>1
        <4>3. ClaimPrecedes' /\ ClaimUnique' /\ UnknownQuiet'
          BY <4>1, <4>2
        <4>4. SentClaimed'
          BY <4>1, <4>2
        <4>. QED BY <4>3, <4>4
      <3>2. CASE estado[o] = "executando"
        <4>1. /\ estado' = [estado EXCEPT ![o] = "resultado_desconhecido"]
              /\ PrazoEncerrado(o)
          BY <3>2 DEF Recupera
        <4>2. UnknownQuiet'
          BY <4>1 DEF PrazoEncerrado
        <4>3. ClaimPrecedes' /\ ClaimUnique' /\ SentClaimed'
          BY <3>2, <4>1
        <4>. QED BY <4>2, <4>3
      <3>. QED BY <3>1, <3>2 DEF Recupera
    <2>5. CASE PurgePayload(o) BY <2>5 DEF PurgePayload
    <2>6. CASE PurgeReceipt(o) BY <2>6 DEF PurgeReceipt
    <2>7. CASE Expire(o) BY <2>7 DEF Expire
    <2>. QED
      BY <1>4, <2>1, <2>2, <2>3, <2>4, <2>5, <2>6, <2>7 DEF Background
  <1>5. ASSUME NEW o \in Ops, Provider(o) PROVE IInv'
    <2>1. CASE ProviderServe(o) BY <2>1 DEF ProviderServe
    <2>2. CASE ProviderMiss(o) BY <2>2 DEF ProviderMiss
    <2>. QED BY <1>5, <2>1, <2>2 DEF Provider
  <1>6. CASE ChangeAuthority BY <1>6 DEF ChangeAuthority
  <1>7. CASE UNCHANGED vars BY <1>7 DEF vars
  <1>. QED BY <1>1, <1>2, <1>3, <1>4, <1>5, <1>6, <1>7 DEF Next

\* The inductive invariant holds in every reachable state.
THEOREM Invariant == Spec => []IInv
  BY IInvInit, IInvStep, PTL DEF Spec

-----------------------------------------------------------------------------
(* The safety invariants and what a step may never do.                     *)

\* The effect leaves at most once, for any number of requests and crashes.
LEMMA EffectOnce == Spec => []AtMostOneEffect
  <1>1. IInv => AtMostOneEffect
    <2> SUFFICES ASSUME IInv, NEW o \in Ops PROVE enviadas[o] <= 1
      BY DEF AtMostOneEffect
    <2>1. enviadas[o] = 0 \/ enviadas[o] = 1
      BY DEF IInv, SentClaimed
    <2>. QED BY <2>1
  <1>. QED BY <1>1, Invariant, PTL

\* Nothing leaves without a claim and the approval it needs.
LEMMA ClaimedBeforeSent == Spec => []OnlyClaimedIsSent
  <1>1. IInv => OnlyClaimedIsSent
    <2> SUFFICES ASSUME IInv, NEW o \in Ops,
                        \/ enviadas[o] > 0
                        \/ \E p \in Procs : alvo[p] = o /\ envio[p] = "enviar"
                 PROVE  /\ estado[o] \in Enviadas
                        /\ exigeAprovacao[o] => aprovacao[o]
      BY DEF OnlyClaimedIsSent
    <2>1. estado[o] \in Enviadas
      BY DEF IInv, TypeOK, ClaimPrecedes, SentClaimed
    <2>. QED BY <2>1 DEF IInv, SentClaimed
  <1>. QED BY <1>1, Invariant, PTL

\* An effect leaves at most once, and only from its claim (execute).
THEOREM EffectIsSound == Spec => []SoundEffect
  <1>. QED BY EffectOnce, ClaimedBeforeSent, PTL DEF SoundEffect

LEMMA StepSendsInTime == IInv /\ [Next]_vars => SentStep
  <1> SUFFICES ASSUME IInv, [Next]_vars, NEW o \in Ops,
                      enviadas'[o] # enviadas[o]
               PROVE  estado[o] = "executando"
    BY DEF SentStep
  <1>1. PICK p \in Procs : Send(p)
    BY DEF Next, Handler, Request, Background, Provider, vars, Revalidate,
       ClaimCheck, Claim, ClaimLost, Refuse, Reply, ReplyLost, Abort, Record,
       RecordFails, Fail, FailLost, ReconcileReply, ReconcileSave, ExecuteRead,
       ReconcileRead, Crash, Prepare, Approve, Cancel, Get, Review,
       PurgePayload, PurgeReceipt, Expire, ProviderServe, ProviderMiss,
       ChangeAuthority
  <1>2. alvo[p] = o /\ envio[p] = "enviar" /\ ~abortado[p]
    BY <1>1 DEF Send, IInv, TypeOK
  <1>3. claimed[p] /\ enviadas[o] = 0
    BY <1>2 DEF IInv, ClaimPrecedes
  <1>4. estado[o] \in Enviadas
    BY <1>2, <1>3 DEF IInv, ClaimPrecedes
  <1>5. estado[o] # "concluida"
    BY <1>3 DEF IInv, TypeOK, SentClaimed
  <1>6. estado[o] # "resultado_desconhecido"
    BY <1>2 DEF IInv, UnknownQuiet
  <1>. QED BY <1>4, <1>5, <1>6

LEMMA StepKeepsOutcome == IInv /\ [Next]_vars => OutcomeStep
  <1> SUFFICES ASSUME IInv, [Next]_vars, NEW o \in Ops, estado[o] \in Finais
               PROVE  /\ estado'[o] = estado[o]
                      /\ comprovante'[o] \in {comprovante[o], "removido"}
    BY DEF OutcomeStep
  <1> USE DEF IInv, TypeOK, linhas, Salva
  <1>1. ASSUME NEW p \in Procs, Handler(p)
        PROVE  /\ estado'[o] = estado[o]
               /\ comprovante'[o] \in {comprovante[o], "removido"}
    <2>1. CASE Claim(p) \/ ClaimLost(p)
      BY <2>1 DEF Claim, ClaimLost, Executavel
    <2>2. CASE Record(p) BY <2>2 DEF Record, Aceita
    <2>3. CASE Fail(p) BY <2>3 DEF Fail, Aceita
    <2>4. CASE UNCHANGED <<estado, comprovante>> BY <2>4
    <2>. QED
      BY <1>1, <2>1, <2>2, <2>3, <2>4 DEF Handler, Revalidate, ClaimCheck,
         Refuse, Send, Reply, ReplyLost, Abort, RecordFails, FailLost,
         ReconcileReply, ReconcileSave
  <1>2. ASSUME NEW p \in Procs, Request(p)
        PROVE  /\ estado'[o] = estado[o]
               /\ comprovante'[o] \in {comprovante[o], "removido"}
    BY <1>2 DEF Request, ExecuteRead, ReconcileRead, Recupera
  <1>3. ASSUME NEW i \in Ops, Background(i)
        PROVE  /\ estado'[o] = estado[o]
               /\ comprovante'[o] \in {comprovante[o], "removido"}
    BY <1>3 DEF Background, Prepare, Approve, Cancel, Get, Review, Recupera,
       PurgePayload, PurgeReceipt, Expire
  <1>4. CASE \/ \E p \in Procs : Crash(p)
             \/ \E i \in Ops : Provider(i)
             \/ ChangeAuthority
             \/ UNCHANGED vars
    BY <1>4 DEF Crash, Provider, ProviderServe, ProviderMiss, ChangeAuthority,
       vars
  <1>. QED BY <1>1, <1>2, <1>3, <1>4 DEF Next

\* After an outcome, the unknown one included, nothing leaves, and neither it
\* nor its receipt changes (execute, recover, protect_external_action).
THEOREM OutcomeIsFinal == Spec => OutcomeFinal
  BY Invariant, StepSendsInTime, StepKeepsOutcome, PTL DEF Spec, OutcomeFinal

-----------------------------------------------------------------------------
(* The lifecycle implements WriteOutcome: a step changes the mapped book   *)
(* and report of one action only, and in one of the promised ways.         *)

Igual(o) == Livro(o)' = Livro(o) /\ Relato(o)' = Relato(o)
Mesma(o) == estado'[o] = estado[o] /\ recebidas'[o] = recebidas[o]

LEMMA SameRow == ASSUME NEW o \in Ops, Mesma(o) PROVE Igual(o)
  BY DEF Mesma, Igual, Livro, Relato

Prometido(o) ==
    \/ Igual(o)
    \/ /\ Livro(o) = "aberta" /\ Livro(o)' = "reservada"
       /\ Relato(o)' = Relato(o)
    \/ /\ Livro(o) = "reservada" /\ Livro(o)' = "aplicada"
       /\ Relato(o)' = Relato(o)
    \/ /\ Livro(o) = "aberta" /\ Livro(o)' = "descartada"
       /\ Relato(o) = "nenhum" /\ Relato(o)' = "descartada"
    \/ /\ Livro(o) # "aberta" /\ Livro(o)' = Livro(o)
       /\ Relato(o) = "nenhum" /\ Relato(o)' = "incerto"
    \/ /\ Livro(o) = "aplicada" /\ Livro(o)' = Livro(o)
       /\ Relato(o) = "nenhum" /\ Relato(o)' = "aplicada"

LEMMA PromisedStep ==
  ASSUME NEW o \in Ops, Prometido(o), \A i \in Ops \ {o} : Mesma(i)
  PROVE  [Promessa!Next]_(Promessa!vars)
  <1> DEFINE L == [i \in Ops |-> Livro(i)]
             R == [i \in Ops |-> Relato(i)]
  <1>1. \A i \in Ops \ {o} : Igual(i)
    BY SameRow
  <1>2. /\ L[o] = Livro(o) /\ R[o] = Relato(o)
        /\ L' = [L EXCEPT ![o] = Livro(o)']
        /\ R' = [R EXCEPT ![o] = Relato(o)']
    BY <1>1 DEF Igual
  <1>3. /\ Livro(o)' = Livro(o) => L' = L
        /\ Relato(o)' = Relato(o) => R' = R
    BY <1>1 DEF Igual
  <1>. HIDE DEF L, R
  <1>4. \/ L[o] = "aberta" /\ L' = [L EXCEPT ![o] = "reservada"] /\ R' = R
        \/ /\ L[o] = "reservada" /\ R' = R
           /\ \E fim \in {"aplicada", "descartada"} : L' = [L EXCEPT ![o] = fim]
        \/ /\ L[o] \in {"aberta", "reservada"} /\ R[o] = "nenhum"
           /\ L' = [L EXCEPT ![o] = "descartada"]
           /\ R' = [R EXCEPT ![o] = "descartada"]
        \/ /\ L[o] # "aberta" /\ R[o] = "nenhum" /\ L' = L
           /\ R' = [R EXCEPT ![o] = "incerto"]
        \/ /\ L[o] \in {"aplicada", "descartada"}
           /\ R[o] \in {"nenhum", "incerto"} /\ L' = L
           /\ R' = [R EXCEPT ![o] = L[o]]
        \/ L' = L /\ R' = R
    BY <1>2, <1>3 DEF Prometido, Igual
  <1>. QED
    BY <1>4 DEF L, R, Promessa!Next, Promessa!vars, Promessa!Reserve,
       Promessa!Decide, Promessa!Withdraw, Promessa!ReportUnknown,
       Promessa!Report

\* The state that a handler or a reader saves.
LEMMA PromisedSave ==
  ASSUME IInv, NEW o \in Ops, NEW e,
         \/ estado[o] \in Preparadas
               /\ e \in {"aprovada", "executando", "cancelada", "expirada"}
         \/ estado[o] = "executando" /\ e = "resultado_desconhecido"
         \/ estado[o] = "executando" /\ e = "concluida" /\ recebidas[o] > 0,
         estado' = [estado EXCEPT ![o] = e],
         recebidas' = recebidas
  PROVE  [Promessa!Next]_(Promessa!vars)
  <1> USE DEF IInv, TypeOK
  <1>1. \A i \in Ops \ {o} : Mesma(i)
    BY DEF Mesma
  <1>2. estado'[o] = e /\ recebidas'[o] = recebidas[o]
    OBVIOUS
  <1>3. ASSUME estado[o] \in Preparadas PROVE recebidas[o] = 0
    <2>1. enviadas[o] = 0 /\ rede[o] + recebidas[o] <= enviadas[o]
      BY <1>3 DEF SentClaimed
    <2>2. rede[o] \in Nat /\ recebidas[o] \in Nat
      OBVIOUS
    <2>. QED BY <2>1, <2>2
  <1>4. Prometido(o)
    BY <1>2, <1>3 DEF Igual, Prometido, Livro, Relato
  <1>. QED BY <1>1, <1>4, PromisedStep

LEMMA StepKeepsPromise ==
  IInv /\ [Next]_vars => [Promessa!Next]_(Promessa!vars)
  <1> SUFFICES ASSUME IInv, [Next]_vars
               PROVE  [Promessa!Next]_(Promessa!vars)
    OBVIOUS
  <1> USE DEF IInv, TypeOK, linhas, provedor, Salva
  <1>1. ASSUME UNCHANGED <<estado, recebidas>>
        PROVE  [Promessa!Next]_(Promessa!vars)
    BY <1>1 DEF Promessa!vars, Livro, Relato
  <1>2. ASSUME NEW o \in Ops, Recupera(o), UNCHANGED recebidas
        PROVE  [Promessa!Next]_(Promessa!vars)
    BY <1>2, PromisedSave DEF Recupera
  <1>3. ASSUME NEW p \in Procs, Handler(p)
        PROVE  [Promessa!Next]_(Promessa!vars)
    <2>0. PICK o \in Ops : o = alvo[p]
      OBVIOUS
    <2>1. CASE Claim(p) \/ ClaimLost(p)
      BY <2>0, <2>1, PromisedSave DEF Claim, ClaimLost, Executavel
    <2>2. CASE Record(p)
      BY <2>0, <2>2, PromisedSave DEF Record, Aceita, ClaimPrecedes
    <2>3. CASE Fail(p)
      BY <1>1, <2>0, <2>3, PromisedSave DEF Fail, Aceita
    <2>4. CASE UNCHANGED <<estado, recebidas>> BY <1>1, <2>4
    <2>. QED
      BY <1>3, <2>1, <2>2, <2>3, <2>4 DEF Handler, Revalidate, ClaimCheck,
         Refuse, Send, Reply, ReplyLost, Abort, RecordFails, FailLost,
         ReconcileReply, ReconcileSave
  <1>4. ASSUME NEW p \in Procs, Request(p)
        PROVE  [Promessa!Next]_(Promessa!vars)
    BY <1>1, <1>2, <1>4 DEF Request, ExecuteRead, ReconcileRead
  <1>5. ASSUME NEW o \in Ops, Background(o)
        PROVE  [Promessa!Next]_(Promessa!vars)
    <2>1. CASE Prepare(o)
      <3>1. /\ \A i \in Ops \ {o} : Mesma(i)
            /\ estado[o] = "inexistente" /\ estado'[o] \in Preparadas
            /\ recebidas' = recebidas
        BY <2>1 DEF Prepare, Mesma
      <3>2. Prometido(o)
        BY <3>1 DEF Prometido, Igual, Livro, Relato
      <3>. QED BY <3>1, <3>2, PromisedStep
    <2>2. CASE Approve(o) BY <2>2, PromisedSave DEF Approve
    <2>3. CASE Cancel(o) BY <2>3, PromisedSave DEF Cancel
    <2>4. CASE Get(o) \/ Review(o) BY <1>2, <2>4 DEF Get, Review
    <2>5. CASE PurgePayload(o) \/ PurgeReceipt(o) \/ Expire(o)
      BY <1>1, <2>5 DEF PurgePayload, PurgeReceipt, Expire
    <2>. QED BY <1>5, <2>1, <2>2, <2>3, <2>4, <2>5 DEF Background
  <1>6. ASSUME NEW o \in Ops, Provider(o)
        PROVE  [Promessa!Next]_(Promessa!vars)
    <2>1. CASE ProviderServe(o)
      <3>1. /\ \A i \in Ops \ {o} : Mesma(i)
            /\ estado' = estado
            /\ rede[o] > 0 /\ recebidas'[o] = recebidas[o] + 1
        BY <2>1 DEF ProviderServe, Mesma
      <3>2. enviadas[o] = 1 /\ recebidas[o] = 0
        BY <3>1 DEF SentClaimed
      <3>3. estado[o] \in {"executando", "resultado_desconhecido"}
        BY <3>2 DEF SentClaimed
      <3>4. Prometido(o)
        BY <3>1, <3>2, <3>3 DEF Prometido, Livro, Relato
      <3>. QED BY <3>1, <3>4, PromisedStep
    <2>2. CASE ProviderMiss(o) BY <1>1, <2>2 DEF ProviderMiss
    <2>. QED BY <1>6, <2>1, <2>2 DEF Provider
  <1>7. CASE \/ \E p \in Procs : Crash(p)
             \/ ChangeAuthority
             \/ UNCHANGED vars
    BY <1>1, <1>7 DEF Crash, ChangeAuthority, vars
  <1>. QED BY <1>3, <1>4, <1>5, <1>6, <1>7 DEF Next

\* The lifecycle implements the promise of WriteOutcome.
THEOREM KeepsPromise == Spec => ImplementsWriteOutcome
  <1>1. Init => Promessa!Init
    BY DEF Init, Promessa!Init, Livro, Relato
  <1>. QED
    BY <1>1, Invariant, StepKeepsPromise, PTL
       DEF Spec, ImplementsWriteOutcome, Promessa!Spec
=============================================================================
