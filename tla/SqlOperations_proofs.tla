------------------------ MODULE SqlOperations_proofs ------------------------
(***************************************************************************)
(* Proofs about SqlOperations, for any sets of operations and requests.    *)
(***************************************************************************)
EXTENDS SqlOperations, TLAPS

\* The sets of values of the module.
USE DEF Preparadas, Pendentes, Terminais

-----------------------------------------------------------------------------
(* Type correctness.                                                       *)

\* The receipt of a request that is about to write one is a receipt.
ReciboPronto ==
    \A p \in Procs :
        /\ pc[p] \in {"liquidar", "gravar"} => recibo[p] \in Recibos
        /\ pc[p] = "registrar" => recibo[p] \in Evidencias

TypeInv == TypeOK /\ ReciboPronto

LEMMA TypeInit == Init => TypeInv
  BY DEF Init, TypeInv, TypeOK, ReciboPronto, Estados, Recibos, Diarios,
         Evidencias, Autoridades, Pontos

LEMMA TypeStep == TypeInv /\ [Next]_vars => TypeInv'
  <1> SUFFICES ASSUME TypeInv, [Next]_vars PROVE TypeInv'
    OBVIOUS
  <1> USE DEF TypeInv, TypeOK, ReciboPronto, Estados, Recibos, Diarios,
              Evidencias, Autoridades, Pontos, linhas, agente, pedidos,
              Vai, Traz, Termina, Inicia
  <1>1. ASSUME NEW p \in Procs, Handler(p) PROVE TypeInv'
    <2>1. CASE Claim(p) BY <2>1 DEF Claim
    <2>2. CASE Revalidate(p) BY <2>2 DEF Revalidate, ReciboLocal
    <2>3. CASE Dispatch(p) BY <2>3 DEF Dispatch
    <2>4. CASE DispatchRefused(p) BY <2>4 DEF DispatchRefused, ReciboLocal
    <2>5. CASE Reply(p) BY <2>5 DEF Reply
    <2>6. CASE ReplyLost(p) BY <2>6 DEF ReplyLost, ReciboLocal
    <2>7. CASE Settle(p)
      BY <2>7 DEF Settle, Salva, SuspendePublicacao, Invalida, Desfecho
    <2>8. CASE GetRead(p, alvo[p]) BY <2>8 DEF GetRead
    <2>9. CASE GetDelivered(p) BY <2>9 DEF GetDelivered
    <2>10. CASE JournalRead(p) BY <2>10 DEF JournalRead
    <2>11. CASE GetSave(p)
      BY <2>11 DEF GetSave, Salva, SuspendePublicacao, Invalida, Desfecho
    <2>12. CASE CancelRemote(p) BY <2>12 DEF CancelRemote
    <2>13. CASE CancelLost(p) BY <2>13 DEF CancelLost
    <2>14. CASE ReconcileSave(p) BY <2>14 DEF ReconcileSave, Invalida
    <2>. QED
      BY <1>1, <2>1, <2>2, <2>3, <2>4, <2>5, <2>6, <2>7, <2>8, <2>9, <2>10,
         <2>11, <2>12, <2>13, <2>14 DEF Handler
  <1>2. ASSUME NEW p \in Procs, Request(p) PROVE TypeInv'
    <2>1. ASSUME NEW o \in Ops, ExecuteRead(p, o) PROVE TypeInv'
      BY <2>1 DEF ExecuteRead
    <2>2. ASSUME NEW o \in Ops, Cancel(p, o) PROVE TypeInv'
      BY <2>2 DEF Cancel
    <2>3. ASSUME NEW o \in Ops, ReconcileRead(p, o) PROVE TypeInv'
      BY <2>3 DEF ReconcileRead
    <2>4. ASSUME NEW o \in Ops, GetRead(p, o) PROVE TypeInv'
      BY <2>4 DEF GetRead
    <2>. QED BY <1>2, <2>1, <2>2, <2>3, <2>4 DEF Request
  <1>3. ASSUME NEW p \in Procs, Crash(p) PROVE TypeInv'
    BY <1>3 DEF Crash
  <1>4. ASSUME NEW o \in Ops, Background(o) PROVE TypeInv'
    <2>1. CASE Prepare(o) BY <2>1 DEF Prepare
    <2>2. CASE Approve(o) BY <2>2 DEF Approve
    <2>3. CASE Expire(o) BY <2>3 DEF Expire
    <2>4. CASE PurgePayload(o) BY <2>4 DEF PurgePayload
    <2>5. CASE PurgeReceipt(o) BY <2>5 DEF PurgeReceipt
    <2>. QED BY <1>4, <2>1, <2>2, <2>3, <2>4, <2>5 DEF Background
  <1>5. ASSUME NEW o \in Ops, Agent(o) PROVE TypeInv'
    <2>1. CASE AgentReceive(o) BY <2>1 DEF AgentReceive
    <2>2. CASE AgentApply(o) BY <2>2 DEF AgentApply
    <2>3. CASE AgentRecord(o) BY <2>3 DEF AgentRecord
    <2>. QED BY <1>5, <2>1, <2>2, <2>3 DEF Agent
  <1>6. CASE ChangeAuthority BY <1>6 DEF ChangeAuthority
  <1>7. CASE UNCHANGED vars BY <1>7 DEF vars
  <1>. QED BY <1>1, <1>2, <1>3, <1>4, <1>5, <1>6, <1>7 DEF Next

\* Every reachable state is of the declared types.
THEOREM TypeCorrect == Spec => []TypeOK
  <1>1. TypeInv => TypeOK
    BY DEF TypeInv
  <1>. QED BY <1>1, TypeInit, TypeStep, PTL DEF Spec
-----------------------------------------------------------------------------
(* The inductive invariant.  AtMostOneDispatch alone is not inductive: it  *)
(* needs that only one request may be between the claim and the outcome of *)
(* an operation, that a preparation was never sent, and that a known local *)
(* outcome is the journal's, or was given up before the dispatch.          *)

Executores == {"revalidar", "despachar", "aguardar", "liquidar"}
Executa(p, o) == alvo[p] = o /\ pc[p] \in Executores
NaoEnviada == {"inexistente"} \cup Preparadas
Conhecidos == {"concluida", "rollback_confirmado", "cancelada",
               "cancelada_estrutura"}
SemEfeito == {"rollback_confirmado", "cancelada", "cancelada_estrutura"}

\* A preparation was never claimed, sent or answered.
PreparacaoIntacta ==
    \A o \in Ops :
        estado[o] \in NaoEnviada =>
            /\ despachos[o] = 0
            /\ \A p \in Procs : ~Executa(p, o)

\* The claim has one winner, who sends nothing before its dispatch.
ExecutorUnico ==
    /\ \A p, q \in Procs :
          pc[p] \in Executores /\ pc[q] \in Executores /\ alvo[p] = alvo[q]
              => p = q
    /\ \A p \in Procs :
          pc[p] \in {"revalidar", "despachar"} => despachos[alvo[p]] = 0

\* The agent has seen what was sent, once, and its journal tells the truth.
AgenteCoerente ==
    \A o \in Ops :
        /\ despachos[o] \in {0, 1}
        /\ aplicada[o] \in {0, 1}
        /\ rede[o] \in {0, 1}
        /\ despachos[o] = 0 => rede[o] = 0 /\ diario[o] = "ausente"
        /\ diario[o] # "ausente" => rede[o] = 0
        /\ diario[o] = "ausente" => aplicada[o] = 0
        /\ diario[o] = "concluida" => aplicada[o] = 1
        /\ diario[o] \in SemEfeito => aplicada[o] = 0

\* A known receipt in a request's hands is the journal's, or the local one of
\* an operation that was never sent.
ReciboVerdadeiro ==
    \A p \in Procs :
        /\ pc[p] \in {"liquidar", "gravar"} /\ recibo[p] \in Conhecidos =>
              \/ diario[alvo[p]] = recibo[p]
              \/ /\ pc[p] = "liquidar"
                 /\ recibo[p] = "cancelada"
                 /\ despachos[alvo[p]] = 0
        /\ pc[p] = "registrar" /\ recibo[p] = "aplicacao_verificada" =>
              aplicada[alvo[p]] = 1

\* The same of a known state of the row.
EstadoVerdadeiro ==
    \A o \in Ops :
        estado[o] \in Terminais =>
            \/ diario[o] \in Conhecidos /\ Desfecho(diario[o]) = estado[o]
            \/ /\ estado[o] = "cancelada"
               /\ despachos[o] = 0
               /\ \A p \in Procs :
                     alvo[p] = o => pc[p] \notin {"revalidar", "despachar"}

\* The owner's approval precedes the claim and is never withdrawn.
AprovacaoPrecede ==
    \A o \in Ops :
        exigeAprovacao[o]
            /\ (despachos[o] > 0 \/ \E p \in Procs : Executa(p, o))
        => aprovacao[o]

\* No operation was applied under a revision still to come.
RevisaoPassada == \A o \in Ops : revisaoAplicada[o] <= revisao

IInv ==
    /\ TypeInv
    /\ PreparacaoIntacta
    /\ ExecutorUnico
    /\ AgenteCoerente
    /\ ReciboVerdadeiro
    /\ EstadoVerdadeiro
    /\ AprovacaoPrecede
    /\ RevisaoPassada
    /\ WriteFenced

LEMMA IInvInit == Init => IInv
  BY TypeInit DEF Init, IInv, PreparacaoIntacta, ExecutorUnico, AgenteCoerente,
     ReciboVerdadeiro, EstadoVerdadeiro, AprovacaoPrecede, RevisaoPassada,
     WriteFenced, Executa, NaoEnviada, Executores, Conhecidos, SemEfeito

LEMMA IInvStep == IInv /\ [Next]_vars => IInv'
  <1> SUFFICES ASSUME IInv, [Next]_vars PROVE IInv'
    OBVIOUS
  <1>0. TypeInv'
    BY TypeStep DEF IInv
  <1> USE <1>0 DEF IInv, TypeInv, TypeOK, ReciboPronto, PreparacaoIntacta,
          ExecutorUnico, AgenteCoerente, ReciboVerdadeiro, EstadoVerdadeiro,
          AprovacaoPrecede, RevisaoPassada, WriteFenced, Executa, NaoEnviada,
          Executores, Conhecidos, SemEfeito, Recibos, Evidencias, Desfecho,
          linhas, agente, pedidos, Vai, Traz, Termina, Inicia
  <1>1. ASSUME NEW p \in Procs, Handler(p) PROVE IInv'
    <2>1. CASE Claim(p)
      BY <2>1 DEF Claim, Executavel
    <2>2. CASE Revalidate(p)
      BY <2>2 DEF Revalidate, ReciboLocal
    <2>3. CASE Dispatch(p)
      BY <2>3 DEF Dispatch
    <2>4. CASE DispatchRefused(p)
      BY <2>4 DEF DispatchRefused, ReciboLocal
    <2>5. CASE Reply(p)
      BY <2>5 DEF Reply
    <2>6. CASE ReplyLost(p)
      BY <2>6 DEF ReplyLost, ReciboLocal
    <2>7. CASE Settle(p)
      BY SMTT(30), <2>7 DEF Settle, Salva, SuspendePublicacao, Invalida,
                            PodeTerAlterado, AceitaDesfecho
    <2>8. CASE GetRead(p, alvo[p])
      BY SMTT(30), <2>8 DEF GetRead
    <2>9. CASE GetDelivered(p)
      BY <2>9 DEF GetDelivered
    <2>10. CASE JournalRead(p)
      <3> USE <2>10 DEF JournalRead
      \* Nothing but the request itself moves, and not into the dispatch.
      <3>1. /\ pc[p] = "diario"
            /\ UNCHANGED <<estado, linhas, comprovante, autoridade, revisao,
                           agente, despachos>>
        OBVIOUS
      <3>2. \A q \in Procs : q # p =>
               pc'[q] = pc[q] /\ alvo'[q] = alvo[q] /\ recibo'[q] = recibo[q]
        OBVIOUS
      <3>3. \/ /\ pc'[p] = "gravar"
               /\ alvo'[p] = alvo[p]
               /\ recibo'[p] = diario[alvo[p]]
            \/ pc'[p] = "ocioso"
        OBVIOUS
      <3> HIDE <2>10 DEF JournalRead
      <3>4. \A q \in Procs, i \in Ops : Executa(q, i)' => Executa(q, i)
        BY <3>2, <3>3
      <3>5. PreparacaoIntacta' /\ AprovacaoPrecede'
        BY <3>1, <3>4
      <3>6. ExecutorUnico'
        BY <3>1, <3>2, <3>3
      <3>7. ReciboVerdadeiro'
        BY <3>1, <3>2, <3>3
      <3>8. EstadoVerdadeiro'
        BY <3>1, <3>2, <3>3
      <3>. QED BY <3>1, <3>5, <3>6, <3>7, <3>8
    <2>11. CASE GetSave(p)
      BY SMTT(30), <2>11 DEF GetSave, Salva, SuspendePublicacao, Invalida,
                             AceitaDesfecho
    <2>12. CASE CancelRemote(p)
      BY <2>12 DEF CancelRemote
    <2>13. CASE CancelLost(p)
      BY <2>13 DEF CancelLost
    <2>14. CASE ReconcileSave(p)
      BY <2>14 DEF ReconcileSave, Invalida, AceitaEvidencia
    <2>. QED
      BY <1>1, <2>1, <2>2, <2>3, <2>4, <2>5, <2>6, <2>7, <2>8, <2>9, <2>10,
         <2>11, <2>12, <2>13, <2>14 DEF Handler
  <1>2. ASSUME NEW p \in Procs, Request(p) PROVE IInv'
    <2>1. ASSUME NEW o \in Ops, ExecuteRead(p, o) PROVE IInv'
      BY <2>1 DEF ExecuteRead
    <2>2. ASSUME NEW o \in Ops, Cancel(p, o) PROVE IInv'
      <3> USE <2>2 DEF Cancel, Cancelavel
      <3>1. CASE estado[o] \in Preparadas
        \* It was never sent and nobody is executing it.
        <4>1. /\ estado' = [estado EXCEPT ![o] = "cancelada"]
              /\ UNCHANGED <<linhas, comprovante, autoridade, revisao, agente,
                             pc, alvo, recibo, despachos>>
          BY <3>1
        <4>2. despachos[o] = 0 /\ \A q \in Procs : ~Executa(q, o)
          BY <3>1
        <4>3. aplicada[o] = 0 /\ diario[o] = "ausente"
          BY <4>2
        <4>4. EstadoVerdadeiro'
          BY <4>1, <4>2
        <4>5. WriteFenced'
          BY <4>1, <4>3
        <4>. QED BY <4>1, <4>4, <4>5
      <3>2. CASE estado[o] = "executando"
        <4>1. /\ estado' = [estado EXCEPT ![o] = "cancelamento_solicitado"]
              /\ pc[p] = "ocioso"
              /\ pc' = [pc EXCEPT ![p] = "cancelar"]
              /\ alvo' = [alvo EXCEPT ![p] = o]
              /\ UNCHANGED <<linhas, comprovante, autoridade, revisao, agente,
                             recibo, despachos>>
          BY <3>2
        <4>. HIDE <2>2
        <4>2. \A q \in Procs, i \in Ops : Executa(q, i)' => Executa(q, i)
          BY <4>1
        <4>3. PreparacaoIntacta' /\ AprovacaoPrecede'
          BY <3>2, <4>1, <4>2
        <4>4. ExecutorUnico'
          BY <4>1
        <4>5. ReciboVerdadeiro' /\ EstadoVerdadeiro'
          BY <3>2, <4>1
        <4>. QED BY <3>2, <4>1, <4>3, <4>4, <4>5
      <3>. QED BY <3>1, <3>2
    <2>3. ASSUME NEW o \in Ops, ReconcileRead(p, o) PROVE IInv'
      BY <2>3 DEF ReconcileRead
    <2>4. ASSUME NEW o \in Ops, GetRead(p, o) PROVE IInv'
      BY SMTT(30), <2>4 DEF GetRead
    <2>. QED BY <1>2, <2>1, <2>2, <2>3, <2>4 DEF Request
  <1>3. ASSUME NEW p \in Procs, Crash(p) PROVE IInv'
    BY <1>3 DEF Crash
  <1>4. ASSUME NEW o \in Ops, Background(o) PROVE IInv'
    <2>1. CASE Prepare(o)
      BY <2>1 DEF Prepare
    <2>2. CASE Approve(o)
      BY <2>2 DEF Approve
    <2>3. CASE Expire(o)
      BY <2>3 DEF Expire
    <2>4. CASE PurgePayload(o)
      BY <2>4 DEF PurgePayload
    <2>5. CASE PurgeReceipt(o)
      BY <2>5 DEF PurgeReceipt
    <2>. QED BY <1>4, <2>1, <2>2, <2>3, <2>4, <2>5 DEF Background
  <1>5. ASSUME NEW o \in Ops, Agent(o) PROVE IInv'
    <2>1. CASE AgentReceive(o)
      BY <2>1 DEF AgentReceive
    <2>2. CASE AgentApply(o)
      <3> USE <2>2 DEF AgentApply
      \* The agent is busy with it, so the row is not settled.
      <3>1. despachos[o] = 1 /\ diario[o] \notin Conhecidos
        OBVIOUS
      <3>2. estado[o] \in Pendentes
        BY <3>1 DEF Estados
      <3>3. WriteFenced' /\ RevisaoPassada'
        BY <3>2
      <3>4. AgenteCoerente' /\ ReciboVerdadeiro'
        BY <3>1
      <3>. QED BY <3>3, <3>4
    <2>3. CASE AgentRecord(o)
      BY <2>3 DEF AgentRecord
    <2>. QED BY <1>5, <2>1, <2>2, <2>3 DEF Agent
  <1>6. CASE ChangeAuthority BY <1>6 DEF ChangeAuthority
  <1>7. CASE UNCHANGED vars BY <1>7 DEF vars
  <1>. QED BY <1>1, <1>2, <1>3, <1>4, <1>5, <1>6, <1>7 DEF Next
\* The inductive invariant holds in every reachable state.
THEOREM Invariant == Spec => []IInv
  BY IInvInit, IInvStep, PTL DEF Spec

-----------------------------------------------------------------------------
(* The safety invariants.                                                  *)

\* An operation is sent at most once (PersonaSqlOperations.execute).
LEMMA DispatchOnce == Spec => []AtMostOneDispatch
  <1>1. IInv => AtMostOneDispatch
    <2> SUFFICES ASSUME IInv, NEW o \in Ops PROVE despachos[o] <= 1
      BY DEF AtMostOneDispatch
    <2>1. despachos[o] = 0 \/ despachos[o] = 1
      BY DEF IInv, AgenteCoerente
    <2>. QED BY <2>1
  <1>. QED BY <1>1, Invariant, PTL

\* Nothing is sent without the approval it needs (assertExecutableOperation).
LEMMA ApprovedBeforeDispatch == Spec => []DispatchApproved
  <1>1. IInv => DispatchApproved
    BY DEF IInv, AprovacaoPrecede, DispatchApproved
  <1>. QED BY <1>1, Invariant, PTL

\* What leaves leaves once and with its approval (execute).
THEOREM DispatchIsSound == Spec => []SoundDispatch
  <1>. QED BY DispatchOnce, ApprovedBeforeDispatch, PTL DEF SoundDispatch

\* A known terminal state is true of the business base, and quiescent.
THEOREM TerminalTruth == Spec => []TerminalIsTrue
  <1>1. IInv => TerminalIsTrue
    <2> SUFFICES ASSUME IInv, NEW o \in Ops, estado[o] \in Terminais
                 PROVE  /\ estado[o] = "concluida" => aplicada[o] = 1
                        /\ estado[o] # "concluida" => aplicada[o] = 0
                        /\ rede[o] = 0
                        /\ diario[o] \in {"ausente"} \cup (Recibos \ Pendentes)
                        /\ \A p \in Procs : alvo[p] = o => pc[p] # "despachar"
      BY DEF TerminalIsTrue, IInv
    <2>1. CASE despachos[o] = 0 /\ estado[o] = "cancelada"
      BY <2>1 DEF IInv, AgenteCoerente, EstadoVerdadeiro, Conhecidos
    <2>2. CASE diario[o] \in Conhecidos /\ Desfecho(diario[o]) = estado[o]
      <3>1. despachos[o] = 1 /\ rede[o] = 0
        BY <2>2 DEF IInv, AgenteCoerente, Conhecidos
      <3>2. \A p \in Procs : alvo[p] = o => pc[p] # "despachar"
        BY <3>1 DEF IInv, ExecutorUnico
      <3>3. /\ estado[o] = "concluida" => aplicada[o] = 1
            /\ estado[o] # "concluida" => aplicada[o] = 0
        BY <2>2 DEF IInv, AgenteCoerente, Conhecidos, SemEfeito, Desfecho
      <3>. QED BY <2>2, <3>1, <3>2, <3>3 DEF Conhecidos, Recibos
    <2>. QED BY <2>1, <2>2 DEF IInv, EstadoVerdadeiro
  <1>. QED BY <1>1, Invariant, PTL

\* The fence of the query cache covers every change of the business base.
THEOREM FenceCoversWrites == Spec => []WriteFenced
  <1>1. IInv => WriteFenced
    BY DEF IInv
  <1>. QED BY <1>1, Invariant, PTL

-----------------------------------------------------------------------------
(* The action properties.                                                  *)

LEMMA StepKeepsTerminal == IInv /\ [Next]_vars => TerminalStep
  <1> SUFFICES ASSUME IInv, [Next]_vars, NEW o \in Ops,
                      estado[o] \in Terminais
               PROVE  /\ estado'[o] = estado[o]
                      /\ comprovante'[o] \in {comprovante[o], "removido"}
    BY DEF TerminalStep
  <1> USE DEF IInv, TypeInv, TypeOK, linhas, agente, pedidos
  <1>1. ASSUME NEW p \in Procs, Handler(p)
        PROVE  /\ estado'[o] = estado[o]
               /\ comprovante'[o] \in {comprovante[o], "removido"}
    <2>1. CASE Claim(p) BY <2>1 DEF Claim, Executavel
    <2>2. CASE Settle(p) BY <2>2 DEF Settle, Salva, AceitaDesfecho
    <2>3. CASE GetSave(p) BY <2>3 DEF GetSave, Salva, AceitaDesfecho
    <2>4. CASE UNCHANGED <<estado, comprovante>> BY <2>4
    <2>. QED
      BY <1>1, <2>1, <2>2, <2>3, <2>4 DEF Handler, Revalidate, Dispatch,
         DispatchRefused, Reply, ReplyLost, GetRead, GetDelivered, JournalRead,
         CancelRemote, CancelLost, ReconcileSave
  <1>2. ASSUME NEW p \in Procs, Request(p)
        PROVE  /\ estado'[o] = estado[o]
               /\ comprovante'[o] \in {comprovante[o], "removido"}
    BY <1>2 DEF Request, ExecuteRead, Cancel, Cancelavel, ReconcileRead, GetRead
  <1>3. ASSUME NEW i \in Ops, Background(i)
        PROVE  /\ estado'[o] = estado[o]
               /\ comprovante'[o] \in {comprovante[o], "removido"}
    BY <1>3 DEF Background, Prepare, Approve, Expire, PurgePayload, PurgeReceipt
  <1>4. CASE \/ \E p \in Procs : Crash(p)
             \/ \E i \in Ops : Agent(i)
             \/ ChangeAuthority
             \/ UNCHANGED vars
    BY <1>4 DEF Crash, Agent, AgentReceive, AgentApply, AgentRecord,
       ChangeAuthority, vars
  <1>. QED BY <1>1, <1>2, <1>3, <1>4 DEF Next

LEMMA StepKeepsEvidence == IInv /\ [Next]_vars => EvidenceStep
  <1> SUFFICES ASSUME IInv, [Next]_vars, NEW o \in Ops,
                      conciliacao'[o] # conciliacao[o]
               PROVE  /\ conciliacao[o] # "aplicacao_verificada"
                      /\ estado[o] = "resultado_desconhecido"
                      /\ conciliacao'[o] = "aplicacao_verificada"
                            => aplicada[o] = 1
    BY DEF EvidenceStep
  <1>1. ~ UNCHANGED conciliacao
    OBVIOUS
  <1>2. PICK p \in Procs : ReconcileSave(p)
    <2> USE DEF vars, linhas
    <2>1. ASSUME NEW p \in Procs, Handler(p) PROVE ReconcileSave(p)
      BY <1>1, <2>1 DEF Handler, Claim, Revalidate, Dispatch, DispatchRefused,
         Reply, ReplyLost, Settle, GetRead, GetDelivered, JournalRead, GetSave,
         CancelRemote, CancelLost
    <2>2. ASSUME NEW p \in Procs, Request(p) \/ Crash(p) PROVE FALSE
      BY <1>1, <2>2 DEF Request, ExecuteRead, Cancel, ReconcileRead, GetRead,
         Crash
    <2>3. ASSUME NEW i \in Ops, Background(i) \/ Agent(i) PROVE FALSE
      BY <1>1, <2>3 DEF Background, Agent, Prepare, Approve, Expire,
         PurgePayload, PurgeReceipt, AgentReceive, AgentApply, AgentRecord
    <2>. QED BY <1>1, <2>1, <2>2, <2>3 DEF Next, ChangeAuthority
  <1>. QED
    BY <1>2 DEF ReconcileSave, AceitaEvidencia, IInv, TypeInv, TypeOK,
       ReciboVerdadeiro

\* A known outcome and its receipt never change; verified evidence is true,
\* final, and never recorded over an outcome (settle, get, reconcile).
THEOREM KnowledgeIsKept == Spec => KnownIsKept
  BY Invariant, StepKeepsTerminal, StepKeepsEvidence, PTL DEF Spec, KnownIsKept

-----------------------------------------------------------------------------
(* The lifecycle implements WriteOutcome.  A step changes the mapped book  *)
(* and report of one operation only, and in one of the promised ways.      *)

Igual(o) == Livro(o)' = Livro(o) /\ Relato(o)' = Relato(o)

Prometido(o) ==
    \/ Igual(o)
    \/ /\ Livro(o) = "aberta" /\ Livro(o)' = "reservada"
       /\ Relato(o)' = Relato(o)
    \/ /\ Livro(o) = "reservada" /\ Livro(o)' \in {"aplicada", "descartada"}
       /\ Relato(o)' = Relato(o)
    \/ /\ Livro(o) \in {"aberta", "reservada"} /\ Livro(o)' = "descartada"
       /\ Relato(o) = "nenhum" /\ Relato(o)' = "descartada"
    \/ /\ Livro(o) # "aberta" /\ Livro(o)' = Livro(o)
       /\ Relato(o) = "nenhum" /\ Relato(o)' = "incerto"
    \/ /\ Livro(o) \in {"aplicada", "descartada"} /\ Livro(o)' = Livro(o)
       /\ Relato(o) \in {"nenhum", "incerto"} /\ Relato(o)' = Livro(o)

LEMMA PromisedStep ==
  ASSUME NEW o \in Ops, Prometido(o), \A i \in Ops \ {o} : Igual(i)
  PROVE  [Promessa!Next]_(Promessa!vars)
  <1> DEFINE L == [i \in Ops |-> Livro(i)]
             R == [i \in Ops |-> Relato(i)]
  <1>1. /\ L[o] = Livro(o) /\ R[o] = Relato(o)
        /\ L' = [L EXCEPT ![o] = Livro(o)']
        /\ R' = [R EXCEPT ![o] = Relato(o)']
    BY DEF Igual
  <1>2. /\ Livro(o)' = Livro(o) => L' = L
        /\ Relato(o)' = Relato(o) => R' = R
    BY DEF Igual
  <1>. HIDE DEF L, R
  <1>3. [\E i \in Ops : \/ /\ L[i] = "aberta"
                           /\ L' = [L EXCEPT ![i] = "reservada"] /\ R' = R
                        \/ /\ L[i] = "reservada" /\ R' = R
                           /\ \E fim \in {"aplicada", "descartada"} :
                                 L' = [L EXCEPT ![i] = fim]
                        \/ /\ L[i] \in {"aberta", "reservada"}
                           /\ R[i] = "nenhum"
                           /\ L' = [L EXCEPT ![i] = "descartada"]
                           /\ R' = [R EXCEPT ![i] = "descartada"]
                        \/ /\ L[i] # "aberta" /\ R[i] = "nenhum" /\ L' = L
                           /\ R' = [R EXCEPT ![i] = "incerto"]
                        \/ /\ L[i] \in {"aplicada", "descartada"}
                           /\ R[i] \in {"nenhum", "incerto"} /\ L' = L
                           /\ R' = [R EXCEPT ![i] = L[i]]]_<<L, R>>
    BY <1>1, <1>2 DEF Prometido, Igual
  <1>. QED
    BY <1>3 DEF L, R, Promessa!Next, Promessa!vars, Promessa!Reserve,
       Promessa!Decide, Promessa!Withdraw, Promessa!ReportUnknown,
       Promessa!Report

\* Persisting a receipt that is the journal's, or the local one of an
\* operation never sent, is a promised change of the operation.
LEMMA PromisedSave ==
  ASSUME IInv, NEW o \in Ops, NEW r \in Recibos,
         AceitaDesfecho(o, Desfecho(r)),
         estado' = [estado EXCEPT ![o] = Desfecho(r)],
         UNCHANGED <<diario, aplicada>>,
         r \in Conhecidos => \/ diario[o] = r
                             \/ r = "cancelada" /\ despachos[o] = 0
  PROVE  Prometido(o)
  <1> USE DEF IInv, TypeInv, TypeOK
  <1>1. estado'[o] = Desfecho(r) /\ Livro(o) # "aberta"
    BY DEF AceitaDesfecho, Livro
  <1>2. CASE r = "resultado_desconhecido"
    <2>1. estado[o] \in {"executando", "cancelamento_solicitado"}
      BY <1>2 DEF AceitaDesfecho, Desfecho
    <2>2. Relato(o) = "nenhum" /\ Relato(o)' = "incerto"
      BY <1>1, <1>2, <2>1 DEF Relato, Desfecho
    <2>3. Livro(o)' = Livro(o)
      BY <1>1, <1>2, <2>1 DEF Livro, Desfecho
    <2>. QED BY <1>1, <2>2, <2>3 DEF Prometido
  <1>3. CASE r \in Conhecidos
    <2>1. Relato(o) \in {"nenhum", "incerto"}
      BY DEF AceitaDesfecho, Relato
    <2>2. CASE r = "concluida"
      <3>1. aplicada[o] = 1 /\ aplicada'[o] = 1
        BY <1>3, <2>2 DEF AgenteCoerente
      <3>2. /\ Livro(o) = "aplicada" /\ Livro(o)' = "aplicada"
            /\ Relato(o)' = "aplicada"
        BY <1>1, <2>2, <3>1 DEF Livro, Relato, Desfecho
      <3>. QED BY <2>1, <3>2 DEF Prometido
    <2>3. CASE r # "concluida"
      <3>1. aplicada[o] = 0 /\ aplicada'[o] = 0
        BY <1>3, <2>3 DEF AgenteCoerente, Conhecidos, SemEfeito
      <3>2. estado'[o] \in {"rollback_confirmado", "cancelada"}
        BY <1>1, <1>3, <2>3 DEF Desfecho, Conhecidos
      <3>3. Livro(o)' = "descartada" /\ Relato(o)' = "descartada"
        BY <3>1, <3>2 DEF Livro, Relato
      <3>4. CASE diario[o] = r
        <4>1. Livro(o) = "descartada"
          BY <1>1, <1>3, <2>3, <3>1, <3>4 DEF Livro, Conhecidos
        <4>. QED BY <2>1, <3>3, <4>1 DEF Prometido
      <3>5. CASE r = "cancelada"
        <4>1. Relato(o) = "nenhum"
          BY <3>5 DEF AceitaDesfecho, Desfecho, Relato
        <4>2. Livro(o) \in {"reservada", "descartada"}
          BY <1>1, <3>1 DEF Livro
        <4>. QED BY <3>3, <4>1, <4>2 DEF Prometido
      <3>. QED BY <1>3, <3>4, <3>5
    <2>. QED BY <2>2, <2>3
  <1>. QED BY <1>2, <1>3 DEF Recibos, Conhecidos

LEMMA StepKeepsPromise ==
  IInv /\ [Next]_vars => [Promessa!Next]_(Promessa!vars)
  <1> SUFFICES ASSUME IInv, [Next]_vars
               PROVE  [Promessa!Next]_(Promessa!vars)
    OBVIOUS
  <1> USE DEF IInv, TypeInv, TypeOK
  <1>1. CASE UNCHANGED <<estado, diario, aplicada>>
    BY <1>1 DEF Promessa!vars, Livro, Relato
  <1> DEFINE Outras(o) == \A i \in Ops \ {o} :
                /\ estado'[i] = estado[i]
                /\ diario'[i] = diario[i]
                /\ aplicada'[i] = aplicada[i]
  <1>2. ASSUME NEW o \in Ops, Outras(o), Prometido(o)
        PROVE  [Promessa!Next]_(Promessa!vars)
    <2>1. \A i \in Ops \ {o} : Igual(i)
      BY <1>2 DEF Igual, Livro, Relato
    <2>. QED BY <1>2, <2>1, PromisedStep
  <1>3. ASSUME NEW p \in Procs, Handler(p)
        PROVE  [Promessa!Next]_(Promessa!vars)
    <2>0. PICK o \in Ops : o = alvo[p]
      OBVIOUS
    <2>1. CASE Claim(p)
      <3>1. CASE UNCHANGED estado
        BY <1>1, <2>1, <3>1 DEF Claim, agente
      <3>2. CASE Executavel(o) /\ estado' = [estado EXCEPT ![o] = "executando"]
        <4>1. Outras(o) /\ UNCHANGED <<diario, aplicada>>
          BY <2>0, <2>1, <3>2 DEF Claim, agente
        <4>2. estado[o] \in NaoEnviada /\ despachos[o] = 0
          BY <2>0, <3>2 DEF Executavel, NaoEnviada, PreparacaoIntacta
        <4>3. aplicada[o] = 0 /\ diario[o] = "ausente"
          BY <2>0, <4>2 DEF AgenteCoerente
        <4>4. /\ Livro(o) = "aberta" /\ Livro(o)' = "reservada"
              /\ Relato(o) = "nenhum" /\ Relato(o)' = "nenhum"
          BY <2>0, <3>2, <4>1, <4>2, <4>3 DEF Livro, Relato, NaoEnviada
        <4>5. Prometido(o)
          BY <4>4 DEF Prometido
        <4>. QED BY <1>2, <2>0, <4>1, <4>5
      <3>3. \/ UNCHANGED estado
            \/ Executavel(o) /\ estado' = [estado EXCEPT ![o] = "executando"]
        BY <2>0, <2>1 DEF Claim
      <3>. QED BY <3>1, <3>2, <3>3
    <2>2. CASE Settle(p)
      <3>1. Outras(o) /\ UNCHANGED <<diario, aplicada>>
        BY <2>0, <2>2 DEF Settle, Salva, agente
      <3>2. recibo[p] \in Recibos
        BY <2>0, <2>2 DEF Settle, ReciboPronto
      <3>3. recibo[p] \in Conhecidos =>
               \/ diario[o] = recibo[p]
               \/ recibo[p] = "cancelada" /\ despachos[o] = 0
        BY <2>0, <2>2 DEF Settle, ReciboVerdadeiro
      <3>4. \/ estado' = estado
            \/ /\ AceitaDesfecho(o, Desfecho(recibo[p]))
               /\ estado' = [estado EXCEPT ![o] = Desfecho(recibo[p])]
        BY <2>0, <2>2 DEF Settle, Salva
      <3>5. CASE estado' = estado
        BY <1>1, <3>1, <3>5
      <3>. QED BY <1>2, <2>0, <3>1, <3>2, <3>3, <3>4, <3>5, PromisedSave
    <2>3. CASE GetSave(p)
      <3>1. Outras(o) /\ UNCHANGED <<diario, aplicada>>
        BY <2>0, <2>3 DEF GetSave, Salva, agente
      <3>2. recibo[p] \in Recibos
        BY <2>0, <2>3 DEF GetSave, ReciboPronto
      <3>3. recibo[p] \in Conhecidos =>
               \/ diario[o] = recibo[p]
               \/ recibo[p] = "cancelada" /\ despachos[o] = 0
        BY <2>0, <2>3 DEF GetSave, ReciboVerdadeiro
      <3>4. \/ estado' = estado
            \/ /\ AceitaDesfecho(o, Desfecho(recibo[p]))
               /\ estado' = [estado EXCEPT ![o] = Desfecho(recibo[p])]
        BY <2>0, <2>3 DEF GetSave, Salva
      <3>5. CASE estado' = estado
        BY <1>1, <3>1, <3>5
      <3>. QED BY <1>2, <2>0, <3>1, <3>2, <3>3, <3>4, <3>5, PromisedSave
    <2>4. CASE CancelRemote(p)
      <3>1. Outras(o) /\ Prometido(o)
        BY <2>0, <2>4 DEF CancelRemote, Prometido, Igual, Livro, Relato
      <3>. QED BY <2>0, <3>1, <1>2
    <2>. QED
      BY <1>1, <1>3, <2>1, <2>2, <2>3, <2>4 DEF Handler, Revalidate, Dispatch,
         DispatchRefused, Reply, ReplyLost, GetRead, GetDelivered, JournalRead,
         CancelLost, ReconcileSave, agente
  <1>4. ASSUME NEW p \in Procs, Request(p)
        PROVE  [Promessa!Next]_(Promessa!vars)
    <2>1. ASSUME NEW o \in Ops, Cancel(p, o)
          PROVE  [Promessa!Next]_(Promessa!vars)
      <3>1. Outras(o) /\ Prometido(o)
        BY <2>1 DEF Cancel, Cancelavel, agente, Prometido, Igual, Livro, Relato,
           PreparacaoIntacta, AgenteCoerente, NaoEnviada
      <3>. QED BY <3>1, <1>2
    <2>. QED
      BY <1>1, <1>4, <2>1 DEF Request, ExecuteRead, ReconcileRead, GetRead,
         agente
  <1>5. ASSUME NEW o \in Ops, Background(o)
        PROVE  [Promessa!Next]_(Promessa!vars)
    <2>1. Outras(o) /\ Prometido(o)
      BY <1>5 DEF Background, Prepare, Approve, Expire, PurgePayload,
         PurgeReceipt, agente, Prometido, Igual, Livro, Relato
    <2>. QED BY <2>1, <1>2
  <1>6. ASSUME NEW o \in Ops, Agent(o)
        PROVE  [Promessa!Next]_(Promessa!vars)
    <2>0. /\ diario[o] # "ausente" => estado[o] \notin NaoEnviada
          /\ diario[o] \in Pendentes =>
                estado[o] \notin {"rollback_confirmado", "cancelada"}
      BY DEF PreparacaoIntacta, AgenteCoerente, EstadoVerdadeiro, Conhecidos
    <2>1. CASE AgentReceive(o)
      <3>1. Outras(o) /\ Prometido(o)
        BY <2>1 DEF AgentReceive, Prometido, Igual, Livro, Relato
      <3>. QED BY <3>1, <1>2
    <2>2. CASE AgentApply(o)
      <3>1. Outras(o) /\ Prometido(o)
        BY <2>0, <2>2 DEF AgentApply, Prometido, Igual, Livro, Relato,
           NaoEnviada
      <3>. QED BY <3>1, <1>2
    <2>3. CASE AgentRecord(o)
      <3>1. Outras(o) /\ Prometido(o)
        BY <2>0, <2>3 DEF AgentRecord, Prometido, Igual, Livro, Relato,
           NaoEnviada, Recibos
      <3>. QED BY <3>1, <1>2
    <2>. QED BY <1>6, <2>1, <2>2, <2>3 DEF Agent
  <1>7. CASE \/ \E p \in Procs : Crash(p)
             \/ ChangeAuthority
             \/ UNCHANGED vars
    BY <1>1, <1>7 DEF Crash, ChangeAuthority, vars, agente
  <1>. QED BY <1>3, <1>4, <1>5, <1>6, <1>7 DEF Next

\* The lifecycle implements the promise of WriteOutcome.
THEOREM KeepsPromise == Spec => ImplementsWriteOutcome
  <1>1. Init => Promessa!Init
    BY DEF Init, Promessa!Init, Livro, Relato
  <1>. QED
    BY <1>1, Invariant, StepKeepsPromise, PTL
       DEF Spec, ImplementsWriteOutcome, Promessa!Spec
-----------------------------------------------------------------------------
(* The lifecycle implements WriteFence.  The mapped variables of a step    *)
(* depend on which of the rows, the commits and the revision it changes.   *)

Espera == {o \in Ops : estado[o] \in Pendentes}
Feitas == {o \in Ops : aplicada[o] > 0}

\* The row that a claim takes is not pending and was never applied.
LEMMA FenceBegin ==
  ASSUME IInv, NEW o \in Ops, estado[o] \in Preparadas,
         estado' = [estado EXCEPT ![o] = "executando"],
         UNCHANGED <<aplicada, revisao, revisaoAplicada>>
  PROVE  Cerca!Begin(o)
  <1> USE DEF IInv, TypeInv, TypeOK, Espera, Feitas
  <1>1. aplicada[o] = 0
    BY DEF PreparacaoIntacta, AgenteCoerente, NaoEnviada
  <1>2. o \notin Espera \cup Feitas
    BY <1>1
  <1>3. Espera' = Espera \cup {o} /\ Feitas' = Feitas
    OBVIOUS
  <1>. QED BY <1>2, <1>3 DEF Cerca!Begin

\* A receipt that is persisted leaves the write pending, or settles it under a
\* revision newer than the one it was applied under.
LEMMA FenceSave ==
  ASSUME IInv, IInv', NEW o \in Ops, NEW d \in Terminais \cup {"resultado_desconhecido"},
         AceitaDesfecho(o, d),
         estado' = [estado EXCEPT ![o] = d],
         UNCHANGED <<aplicada, revisaoAplicada>>,
         revisao' \in {revisao, revisao + 1}
  PROVE  [Cerca!Next]_(Cerca!vars)
  <1> USE DEF IInv, TypeInv, TypeOK, Espera, Feitas
  <1>1. o \in Espera /\ Feitas' = Feitas
    BY DEF AceitaDesfecho
  <1>2. CASE d = "resultado_desconhecido"
    <2>1. Espera' = Espera
      BY <1>1, <1>2
    <2>2. CASE revisao' = revisao
      BY <1>1, <2>1, <2>2 DEF Cerca!vars
    <2>3. CASE revisao' = revisao + 1
      <3>1. Cerca!Invalidate
        BY <1>1, <2>1, <2>3 DEF Cerca!Invalidate
      <3>. QED BY <3>1 DEF Cerca!Next
    <2>. QED BY <2>2, <2>3
  <1>3. CASE d \in Terminais
    <2>1. Espera' = Espera \ {o}
      BY <1>1, <1>3
    <2>2. o \in Feitas => revisao' > revisaoAplicada[o]
      BY <1>3 DEF WriteFenced
    <2>3. Cerca!Settle(o)
      BY <1>1, <2>1, <2>2 DEF Cerca!Settle
    <2>. QED BY <2>3 DEF Cerca!Next
  <1>. QED BY <1>2, <1>3

LEMMA StepKeepsFence == IInv /\ IInv' /\ [Next]_vars => [Cerca!Next]_(Cerca!vars)
  <1> SUFFICES ASSUME IInv, IInv', [Next]_vars
               PROVE  [Cerca!Next]_(Cerca!vars)
    OBVIOUS
  <1> USE DEF IInv, TypeInv, TypeOK
  <1>1. CASE /\ Espera' = Espera
             /\ UNCHANGED <<aplicada, revisao, revisaoAplicada>>
    BY <1>1 DEF Cerca!vars, Espera
  <1>2. CASE UNCHANGED <<estado, aplicada, revisao, revisaoAplicada>>
    BY <1>2, <1>1 DEF Espera
  <1>3. ASSUME NEW p \in Procs, Handler(p)
        PROVE  [Cerca!Next]_(Cerca!vars)
    <2>0. PICK o \in Ops : o = alvo[p]
      OBVIOUS
    <2>1. CASE Claim(p)
      <3>1. CASE UNCHANGED estado
        BY <1>2, <2>1, <3>1 DEF Claim, agente
      <3>2. CASE /\ Executavel(o)
                 /\ estado' = [estado EXCEPT ![o] = "executando"]
        <4>1. Cerca!Begin(o)
          BY <2>0, <2>1, <3>2, FenceBegin DEF Claim, Executavel, agente
        <4>. QED BY <2>0, <4>1 DEF Cerca!Next
      <3>3. \/ UNCHANGED estado
            \/ /\ Executavel(o)
               /\ estado' = [estado EXCEPT ![o] = "executando"]
        BY <2>0, <2>1 DEF Claim
      <3>. QED BY <3>1, <3>2, <3>3
    <2>2. CASE Settle(p) \/ GetSave(p)
      <3>1. Desfecho(recibo[p]) \in Terminais \cup {"resultado_desconhecido"}
        BY <2>2 DEF Settle, GetSave, ReciboPronto, Recibos, Desfecho
      <3>2. /\ UNCHANGED <<aplicada, revisaoAplicada>>
            /\ revisao' \in {revisao, revisao + 1}
            /\ \/ UNCHANGED <<estado, revisao>>
               \/ /\ AceitaDesfecho(o, Desfecho(recibo[p]))
                  /\ estado' = [estado EXCEPT ![o] = Desfecho(recibo[p])]
        BY <2>0, <2>2 DEF Settle, GetSave, Salva, Invalida, agente
      <3>. QED BY <1>2, <2>0, <3>1, <3>2, FenceSave
    <2>3. CASE ReconcileSave(p)
      <3>1. CASE UNCHANGED revisao
        BY <1>2, <2>3, <3>1 DEF ReconcileSave, agente
      <3>2. CASE AceitaEvidencia(o) /\ revisao' = revisao + 1
        <4>1. Cerca!Invalidate
          BY <2>0, <2>3, <3>2
             DEF ReconcileSave, agente, AceitaEvidencia, Cerca!Invalidate
        <4>. QED BY <4>1 DEF Cerca!Next
      <3>. QED BY <2>0, <2>3, <3>1, <3>2 DEF ReconcileSave, Invalida
    <2>. QED
      BY <1>2, <1>3, <2>1, <2>2, <2>3 DEF Handler, Revalidate, Dispatch,
         DispatchRefused, Reply, ReplyLost, GetRead, GetDelivered, JournalRead,
         CancelRemote, CancelLost, agente
  <1>4. ASSUME NEW p \in Procs, Request(p)
        PROVE  [Cerca!Next]_(Cerca!vars)
    <2>1. ASSUME NEW o \in Ops, Cancel(p, o)
          PROVE  [Cerca!Next]_(Cerca!vars)
      <3>1. Espera' = Espera
        BY <2>1 DEF Cancel, Cancelavel, Espera
      <3>. QED BY <1>1, <2>1, <3>1 DEF Cancel, agente
    <2>. QED
      BY <1>2, <1>4, <2>1 DEF Request, ExecuteRead, ReconcileRead, GetRead,
         agente
  <1>5. ASSUME NEW o \in Ops, Background(o)
        PROVE  [Cerca!Next]_(Cerca!vars)
    <2>1. Espera' = Espera
      BY <1>5 DEF Background, Prepare, Approve, Expire, PurgePayload,
         PurgeReceipt, Espera
    <2>. QED
      BY <1>1, <1>5, <2>1 DEF Background, Prepare, Approve, Expire,
         PurgePayload, PurgeReceipt, agente
  <1>6. ASSUME NEW o \in Ops, Agent(o)
        PROVE  [Cerca!Next]_(Cerca!vars)
    <2>1. CASE AgentApply(o)
      <3>1. /\ o \in Espera /\ o \notin Feitas
            /\ Espera' = Espera /\ Feitas' = Feitas \cup {o}
        BY <2>1 DEF AgentApply, Espera, Feitas, PreparacaoIntacta,
           AgenteCoerente, EstadoVerdadeiro, NaoEnviada, Conhecidos, Estados
      <3>2. Cerca!Apply(o)
        BY <2>1, <3>1 DEF AgentApply, Espera, Feitas, Cerca!Apply
      <3>. QED BY <3>2 DEF Cerca!Next
    <2>. QED
      BY <1>2, <1>6, <2>1 DEF Agent, AgentReceive, AgentRecord
  <1>7. CASE \/ \E p \in Procs : Crash(p)
             \/ ChangeAuthority
             \/ UNCHANGED vars
    BY <1>2, <1>7 DEF Crash, ChangeAuthority, vars, agente
  <1>. QED BY <1>3, <1>4, <1>5, <1>6, <1>7 DEF Next

\* The lifecycle implements WriteFence, the writer that cached reads assume.
THEOREM KeepsFence == Spec => ImplementsWriteFence
  <1>1. Init => Cerca!Init
    BY DEF Init, Cerca!Init
  <1>. QED
    BY <1>1, Invariant, StepKeepsFence, PTL
       DEF Spec, ImplementsWriteFence, Cerca!Spec
=============================================================================
