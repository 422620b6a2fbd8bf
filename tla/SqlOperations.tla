---------------------------- MODULE SqlOperations ----------------------------
(***************************************************************************)
(* The lifecycle of the SQL write operations ("lançamentos") of persona    *)
(* v2: preparation, owner approval, durable claim, single remote dispatch, *)
(* journal lookup, cancellation, business reconciliation and retention.    *)
(*                                                                         *)
(* Source: PersonaSqlOperations (application), PostgresSqlOperationStore   *)
(* (persistence), PersonaSqlOperationGateway (transport), the triggers of  *)
(* migration 0029 and the retention worker.  The agent, its journal and    *)
(* the network between them are external: they are modelled from what the  *)
(* gateway accepts from them.                                              *)
(*                                                                         *)
(* A database transaction locks the persona, the token and the row, so it  *)
(* is one step; a handler is a sequence of such steps separated by awaits, *)
(* and pc[p] is the place where request p is suspended.  Any number of     *)
(* requests, in any number of server replicas, are members of Procs.       *)
(***************************************************************************)
EXTENDS Naturals

CONSTANTS
    Ops,    \* identifiers of the operations of one consumer and publication
    Procs   \* concurrent requests, across all the server's replicas

-----------------------------------------------------------------------------
(* Values.  "cancelada_estrutura" is a receipt in state "cancelada" whose  *)
(* failureCode is SOURCE_STRUCTURE_MISMATCH.                               *)

Preparadas == {"preparada", "aprovacao_pendente", "aprovada"}
Pendentes  == {"executando", "cancelamento_solicitado",
               "resultado_desconhecido"}
Terminais  == {"concluida", "rollback_confirmado", "cancelada"}
Estados    == {"inexistente"} \cup Preparadas \cup Pendentes \cup Terminais

Recibos == Terminais \cup {"cancelada_estrutura", "resultado_desconhecido"}
Diarios == {"ausente", "executando", "cancelamento_solicitado"} \cup Recibos
Evidencias == {"inconclusiva", "aplicacao_verificada"}
Autoridades == {"vigente", "alterada", "revogada"}
Pontos == {"ocioso", "reivindicar", "revalidar", "despachar", "aguardar",
           "liquidar", "consultar", "diario", "gravar", "cancelar",
           "registrar"}

\* The operation state that a receipt brings.
Desfecho(r) == IF r = "cancelada_estrutura" THEN "cancelada" ELSE r

-----------------------------------------------------------------------------
VARIABLES
    \* Rows of operacao_v2, aprovacao_v2 and operacao_conciliacao_v2.
    estado,          \* operacao_v2.estado
    exigeAprovacao,  \* operacao_v2.exige_aprovacao
    aprovacao,       \* a row of aprovacao_v2 exists, valid until expires_at
    vencida,         \* expires_at <= now
    payload,         \* payload_enc is still stored
    comprovante,     \* comprovante, "nenhum" before one, "removido" after purge
    conciliacao,     \* classification of the last evidence
    \* Authority and the physical source.
    autoridade,      \* what assertAuthorized and assertAuthority would find
    revisao,         \* fonte_fisica.cache_revision
    \* The agent and the way to it.
    rede,            \* execute commands on their way to the agent
    diario,          \* the agent's journal
    aplicada,        \* number of commits of the operation on the business base
    \* Requests in progress.
    pc, alvo, recibo,
    \* History.
    despachos,       \* execute commands ever sent
    revisaoAplicada  \* revisao when the business base changed

linhas  == <<exigeAprovacao, aprovacao, vencida, payload, conciliacao>>
agente  == <<rede, diario, aplicada, revisaoAplicada>>
pedidos == <<pc, alvo, recibo>>
vars == <<estado, linhas, comprovante, autoridade, revisao, agente, pedidos,
          despachos>>

TypeOK ==
    /\ estado \in [Ops -> Estados]
    /\ exigeAprovacao \in [Ops -> BOOLEAN]
    /\ aprovacao \in [Ops -> BOOLEAN]
    /\ vencida \in [Ops -> BOOLEAN]
    /\ payload \in [Ops -> BOOLEAN]
    /\ comprovante \in [Ops -> Recibos \cup {"nenhum", "removido"}]
    /\ conciliacao \in [Ops -> Evidencias \cup {"nenhuma"}]
    /\ autoridade \in Autoridades
    /\ revisao \in Nat
    /\ rede \in [Ops -> Nat]
    /\ diario \in [Ops -> Diarios]
    /\ aplicada \in [Ops -> Nat]
    /\ pc \in [Procs -> Pontos]
    /\ alvo \in [Procs -> Ops]
    /\ recibo \in [Procs -> Recibos \cup Evidencias \cup {"nenhum"}]
    /\ despachos \in [Ops -> Nat]
    /\ revisaoAplicada \in [Ops -> Nat]

Init ==
    /\ estado = [o \in Ops |-> "inexistente"]
    /\ exigeAprovacao = [o \in Ops |-> FALSE]
    /\ aprovacao = [o \in Ops |-> FALSE]
    /\ vencida = [o \in Ops |-> FALSE]
    /\ payload = [o \in Ops |-> FALSE]
    /\ comprovante = [o \in Ops |-> "nenhum"]
    /\ conciliacao = [o \in Ops |-> "nenhuma"]
    /\ autoridade = "vigente"
    /\ revisao = 0
    /\ rede = [o \in Ops |-> 0]
    /\ diario = [o \in Ops |-> "ausente"]
    /\ aplicada = [o \in Ops |-> 0]
    /\ pc = [p \in Procs |-> "ocioso"]
    /\ alvo \in {[p \in Procs |-> o] : o \in Ops}
    /\ recibo = [p \in Procs |-> "nenhum"]
    /\ despachos = [o \in Ops |-> 0]
    /\ revisaoAplicada = [o \in Ops |-> 0]

-----------------------------------------------------------------------------
(* Helpers.  The variants beside them are the slips that the properties    *)
(* below are checked to catch; nothing else uses them.                     *)

\* Request p ends, or is suspended at the next await.
Vai(p, ponto) == pc' = [pc EXCEPT ![p] = ponto]
Traz(p, r)    == recibo' = [recibo EXCEPT ![p] = r]
Termina(p)    == Vai(p, "ocioso") /\ Traz(p, "nenhum") /\ UNCHANGED alvo
Inicia(p, o, ponto) ==
    /\ pc[p] = "ocioso"
    /\ Vai(p, ponto)
    /\ alvo' = [alvo EXCEPT ![p] = o]

\* assertAuthorized: the token still authenticates the consumer.
Autorizado == autoridade # "revogada"
\* assertAuthority: same publication, source, permissions and identity as prepared.
AutoridadeVigente == autoridade = "vigente"

\* assertExecutableOperation.  The approval's expiry is the operation's.
ExecutavelReenvio(o) ==
    estado[o] \in {"preparada", "aprovada", "executando"} /\ ~vencida[o]
ExecutavelSemAprovacao(o) == estado[o] \in Preparadas /\ ~vencida[o]
Executavel(o) ==
    /\ estado[o] \in {"preparada", "aprovada"}
    /\ ~vencida[o]
    /\ exigeAprovacao[o] => estado[o] = "aprovada" /\ aprovacao[o]

\* A cancellation is decided locally only before the claim.
CancelavelExecutando(o) == estado[o] \in Preparadas \cup {"executando"}
Cancelavel(o) == estado[o] \in Preparadas

\* The receipt made when the gateway gave none: before the dispatch nothing
\* can have happened, after it anything may have.
ReciboLocalCancelado(enviado) == "cancelada"
ReciboLocal(enviado) ==
    IF enviado THEN "resultado_desconhecido" ELSE "cancelada"

\* The current state may still take the outcome d.
AceitaSempre(o, d) == estado[o] \in Pendentes \cup Terminais
AceitaAutorizado(o, d) ==
    AutoridadeVigente /\ estado[o] \in {"executando", "cancelamento_solicitado"}
AceitaDesfecho(o, d) ==
    \/ estado[o] \in {"executando", "cancelamento_solicitado"}
    \/ /\ estado[o] = "resultado_desconhecido"
       /\ d \in {"concluida", "rollback_confirmado"}

\* Evidence is recorded only while it is needed, and verified evidence stays.
AceitaEvidencia(o) ==
    /\ estado[o] = "resultado_desconhecido"
    /\ conciliacao[o] # "aplicacao_verificada"

\* save: state and receipt together, under the row's lock.
SalvaRecibo(o, r) ==
    /\ estado' = [estado EXCEPT ![o] = r]
    /\ comprovante' = [comprovante EXCEPT ![o] = r]
Salva(o, r) ==
    /\ estado' = [estado EXCEPT ![o] = Desfecho(r)]
    /\ comprovante' = [comprovante EXCEPT ![o] = r]

\* invalidatePhysicalSource, for all of the source's personas.
InvalidaNada == UNCHANGED revisao
Invalida == revisao' = revisao + 1

\* The receipts of execute that may have changed the business base.
PodeTerAlteradoIncerto(r) == r = "resultado_desconhecido"
PodeTerAlterado(r) == r \in {"concluida", "resultado_desconhecido"}

\* suspendStructuralPublication: only publications that share knowledge.
SuspendePublicacao(r) ==
    IF r = "cancelada_estrutura" /\ autoridade = "vigente"
    THEN autoridade' \in {"vigente", "alterada"}
    ELSE UNCHANGED autoridade

-----------------------------------------------------------------------------
(* Preparation and owner approval.                                         *)

Prepare(o) ==
    /\ estado[o] = "inexistente"
    /\ AutoridadeVigente
    /\ \E exige \in BOOLEAN :
        /\ exigeAprovacao' = [exigeAprovacao EXCEPT ![o] = exige]
        /\ estado' = [estado EXCEPT ![o] =
                        IF exige THEN "aprovacao_pendente" ELSE "preparada"]
    /\ payload' = [payload EXCEPT ![o] = TRUE]
    /\ UNCHANGED <<aprovacao, vencida, comprovante, conciliacao, autoridade,
                   revisao, agente, pedidos, despachos>>

Approve(o) ==
    /\ AutoridadeVigente
    /\ estado[o] = "aprovacao_pendente"
    /\ ~vencida[o]
    /\ estado' = [estado EXCEPT ![o] = "aprovada"]
    /\ aprovacao' = [aprovacao EXCEPT ![o] = TRUE]
    /\ UNCHANGED <<exigeAprovacao, vencida, payload, comprovante, conciliacao,
                   autoridade, revisao, agente, pedidos, despachos>>

-----------------------------------------------------------------------------
(* Execution.                                                              *)

\* Unlocked read of the preparation, authority and policy checks.
ExecuteRead(p, o) ==
    /\ estado[o] # "inexistente"
    /\ payload[o]
    /\ AutoridadeVigente
    /\ Inicia(p, o, "reivindicar")
    /\ UNCHANGED <<estado, linhas, comprovante, autoridade, revisao, agente,
                   recibo, despachos>>

\* The durable claim: everything is checked again under the locks.
Claim(p) ==
    LET o == alvo[p] IN
    /\ pc[p] = "reivindicar"
    /\ IF AutoridadeVigente /\ Executavel(o) /\ payload[o]
       THEN /\ estado' = [estado EXCEPT ![o] = "executando"]
            /\ Vai(p, "revalidar")
            /\ UNCHANGED <<alvo, recibo>>
       ELSE /\ Termina(p)
            /\ UNCHANGED estado
    /\ UNCHANGED <<linhas, comprovante, autoridade, revisao, agente, despachos>>

\* Last authority check before the dispatch; it does not read the row again.
Revalidate(p) ==
    /\ pc[p] = "revalidar"
    /\ IF AutoridadeVigente
       THEN Vai(p, "despachar") /\ UNCHANGED recibo
       ELSE Vai(p, "liquidar") /\ Traz(p, ReciboLocal(FALSE))
    /\ UNCHANGED <<estado, linhas, comprovante, autoridade, revisao, agente,
                   alvo, despachos>>

\* The gateway's gate passes and the only execute command leaves...
Dispatch(p) ==
    LET o == alvo[p] IN
    /\ pc[p] = "despachar"
    /\ rede' = [rede EXCEPT ![o] = @ + 1]
    /\ despachos' = [despachos EXCEPT ![o] = @ + 1]
    /\ Vai(p, "aguardar")
    /\ UNCHANGED <<estado, linhas, comprovante, autoridade, revisao, diario,
                   aplicada, revisaoAplicada, alvo, recibo>>

\* ... or the gate refuses it; dispatched is already true, so it is uncertain.
DispatchRefused(p) ==
    /\ pc[p] = "despachar"
    /\ Vai(p, "liquidar")
    /\ Traz(p, ReciboLocal(TRUE))
    /\ UNCHANGED <<estado, linhas, comprovante, autoridade, revisao, agente,
                   alvo, despachos>>

\* The agent's terminal receipt arrives.
Reply(p) ==
    LET o == alvo[p] IN
    /\ pc[p] = "aguardar"
    /\ rede[o] = 0
    /\ diario[o] \in Recibos
    /\ Vai(p, "liquidar")
    /\ Traz(p, diario[o])
    /\ UNCHANGED <<estado, linhas, comprovante, autoridade, revisao, agente,
                   alvo, despachos>>

\* Timeout, lost or incompatible reply: never taken for a rollback.
ReplyLost(p) ==
    /\ pc[p] = "aguardar"
    /\ Vai(p, "liquidar")
    /\ Traz(p, ReciboLocal(TRUE))
    /\ UNCHANGED <<estado, linhas, comprovante, autoridade, revisao, agente,
                   alvo, despachos>>

\* The receipt is persisted, even for a revoked consumer.  The handler goes
\* on to an authorized get, unless the policy check before it fails.
Settle(p) ==
    LET o == alvo[p]
        r == recibo[p] IN
    /\ pc[p] = "liquidar"
    /\ IF AceitaDesfecho(o, Desfecho(r))
       THEN /\ Salva(o, r)
            /\ SuspendePublicacao(r)
            /\ IF PodeTerAlterado(r) THEN Invalida ELSE UNCHANGED revisao
       ELSE UNCHANGED <<estado, comprovante, autoridade, revisao>>
    /\ \E ponto \in {"consultar", "ocioso"} : Vai(p, ponto)
    /\ Traz(p, "nenhum")
    /\ UNCHANGED <<linhas, agente, alvo, despachos>>

-----------------------------------------------------------------------------
(* Journal lookup (get), on its own or at the end of execute and cancel.   *)

GetRead(p, o) ==
    /\ AutoridadeVigente
    /\ estado[o] \in Pendentes
    /\ \/ Inicia(p, o, "diario")
       \/ pc[p] = "consultar" /\ alvo[p] = o /\ Vai(p, "diario")
          /\ UNCHANGED alvo
    /\ UNCHANGED <<estado, linhas, comprovante, autoridade, revisao, agente,
                   recibo, despachos>>

\* The closing get has nothing to look up, or is no longer authorized.
GetDelivered(p) ==
    /\ pc[p] = "consultar"
    /\ AutoridadeVigente => estado[alvo[p]] \notin Pendentes
    /\ Termina(p)
    /\ UNCHANGED <<estado, linhas, comprovante, autoridade, revisao, agente,
                   despachos>>

\* Only a terminal journal entry is a receipt; an operation in progress or one
\* the agent does not know, like a transport error, brings none.
JournalRead(p) ==
    LET o == alvo[p] IN
    /\ pc[p] = "diario"
    /\ \/ /\ diario[o] \in Recibos
          /\ Vai(p, "gravar")
          /\ Traz(p, diario[o])
          /\ UNCHANGED alvo
       \/ Termina(p)
    /\ UNCHANGED <<estado, linhas, comprovante, autoridade, revisao, agente,
                   despachos>>

\* The journal's receipt is persisted against the row as it is now.
GetSave(p) ==
    LET o == alvo[p]
        r == recibo[p] IN
    /\ pc[p] = "gravar"
    /\ IF /\ AutoridadeVigente
          /\ AceitaDesfecho(o, Desfecho(r))
       THEN /\ Salva(o, r)
            /\ SuspendePublicacao(r)
            /\ Invalida
       ELSE UNCHANGED <<estado, comprovante, autoridade, revisao>>
    /\ Termina(p)
    /\ UNCHANGED <<linhas, agente, despachos>>

-----------------------------------------------------------------------------
(* Cancellation.  It needs the consumer, not the authority of preparation. *)

Cancel(p, o) ==
    /\ Autorizado
    /\ \/ /\ Cancelavel(o)
          /\ pc[p] = "ocioso"
          /\ estado' = [estado EXCEPT ![o] = "cancelada"]
          /\ UNCHANGED <<pc, alvo>>
       \/ /\ estado[o] = "executando"
          /\ estado' = [estado EXCEPT ![o] = "cancelamento_solicitado"]
          /\ Inicia(p, o, "cancelar")
    /\ UNCHANGED <<linhas, comprovante, autoridade, revisao, agente, recibo,
                   despachos>>

\* The remote request reaches the agent, which may ignore it...
CancelRemote(p) ==
    LET o == alvo[p] IN
    /\ pc[p] = "cancelar"
    /\ diario[o] # "ausente"
    /\ diario' = [diario EXCEPT ![o] =
                    IF @ = "executando" THEN "cancelamento_solicitado" ELSE @]
    /\ Vai(p, "consultar")
    /\ UNCHANGED <<estado, linhas, comprovante, autoridade, revisao, rede,
                   aplicada, revisaoAplicada, alvo, recibo, despachos>>

\* ... or is lost, refused by the gate or unknown to the agent; there is no retry.
CancelLost(p) ==
    /\ pc[p] = "cancelar"
    /\ Termina(p)
    /\ UNCHANGED <<estado, linhas, comprovante, autoridade, revisao, agente,
                   despachos>>

-----------------------------------------------------------------------------
(* Business reconciliation of an unknown outcome by its marker row.        *)

\* One exact and complete row verifies the application; anything else proves
\* nothing.
ReconcileRead(p, o) ==
    /\ AutoridadeVigente
    /\ estado[o] = "resultado_desconhecido"
    /\ payload[o]
    /\ Inicia(p, o, "registrar")
    /\ \E e \in Evidencias :
        /\ e = "aplicacao_verificada" => aplicada[o] = 1
        /\ Traz(p, e)
    /\ UNCHANGED <<estado, linhas, comprovante, autoridade, revisao, agente,
                   despachos>>

\* A receipt that arrived meanwhile prevails; verified evidence is final.
ReconcileSave(p) ==
    LET o == alvo[p] IN
    /\ pc[p] = "registrar"
    /\ IF AutoridadeVigente /\ AceitaEvidencia(o)
       THEN /\ conciliacao' = [conciliacao EXCEPT ![o] = recibo[p]]
            /\ IF recibo[p] = "aplicacao_verificada"
               THEN Invalida ELSE UNCHANGED revisao
       ELSE UNCHANGED <<conciliacao, revisao>>
    /\ Termina(p)
    /\ UNCHANGED <<estado, exigeAprovacao, aprovacao, vencida, payload,
                   comprovante, autoridade, agente, despachos>>

-----------------------------------------------------------------------------
(* Retention worker: payloads 24 hours, receipts 90 days after a known     *)
(* terminal state.  The clock is abstracted: any moment after it.          *)

PurgePayload(o) ==
    /\ estado[o] \in Terminais
    /\ payload[o]
    /\ payload' = [payload EXCEPT ![o] = FALSE]
    /\ UNCHANGED <<estado, exigeAprovacao, aprovacao, vencida, comprovante,
                   conciliacao, autoridade, revisao, agente, pedidos,
                   despachos>>

PurgeReceipt(o) ==
    /\ estado[o] \in Terminais
    /\ ~payload[o]
    /\ comprovante[o] \in Recibos
    /\ comprovante' = [comprovante EXCEPT ![o] = "removido"]
    /\ UNCHANGED <<estado, linhas, autoridade, revisao, agente, pedidos,
                   despachos>>

-----------------------------------------------------------------------------
(* The environment: time, administration and failures.                     *)

Expire(o) ==
    /\ estado[o] \in Preparadas
    /\ ~vencida[o]
    /\ vencida' = [vencida EXCEPT ![o] = TRUE]
    /\ UNCHANGED <<estado, exigeAprovacao, aprovacao, payload, comprovante,
                   conciliacao, autoridade, revisao, agente, pedidos,
                   despachos>>

\* A version of the identity, publication, source or permissions changes, or
\* the token is revoked; no version ever goes back.
ChangeAuthority ==
    /\ \/ autoridade = "vigente" /\ autoridade' = "alterada"
       \/ autoridade # "revogada" /\ autoridade' = "revogada"
    /\ UNCHANGED <<estado, linhas, comprovante, revisao, agente, pedidos,
                   despachos>>

\* The server process dies, or a transaction of the handler fails.
Crash(p) ==
    /\ pc[p] # "ocioso"
    /\ Termina(p)
    /\ UNCHANGED <<estado, linhas, comprovante, autoridade, revisao, agente,
                   despachos>>

-----------------------------------------------------------------------------
(* The agent (external).                                                   *)

\* The command arrives; a duplicate gets the original entry and runs nothing.
AgentReceive(o) ==
    /\ rede[o] > 0
    /\ rede' = [rede EXCEPT ![o] = @ - 1]
    /\ diario' = [diario EXCEPT ![o] = IF @ = "ausente" THEN "executando" ELSE @]
    /\ UNCHANGED <<estado, linhas, comprovante, autoridade, revisao, aplicada,
                   revisaoAplicada, pedidos, despachos>>

\* The business transaction commits, even after a cancel request, and even
\* after the journal gave the outcome up as unknown.
AgentApply(o) ==
    /\ diario[o] \in Pendentes
    /\ aplicada[o] = 0
    /\ aplicada' = [aplicada EXCEPT ![o] = 1]
    /\ revisaoAplicada' = [revisaoAplicada EXCEPT ![o] = revisao]
    /\ UNCHANGED <<estado, linhas, comprovante, autoridade, revisao, rede,
                   diario, pedidos, despachos>>

\* The journal records the outcome: after the commit, without any, or
\* uncertain after a native timeout or a restart.
AgentRecord(o) ==
    /\ diario[o] \in {"executando", "cancelamento_solicitado"}
    /\ \E r \in Recibos :
        /\ r = "concluida" => aplicada[o] = 1
        /\ r \in {"rollback_confirmado", "cancelada", "cancelada_estrutura"}
               => aplicada[o] = 0
        /\ diario' = [diario EXCEPT ![o] = r]
    /\ UNCHANGED <<estado, linhas, comprovante, autoridade, revisao, rede,
                   aplicada, revisaoAplicada, pedidos, despachos>>

-----------------------------------------------------------------------------
Handler(p) ==
    \/ Claim(p) \/ Revalidate(p) \/ Dispatch(p) \/ DispatchRefused(p)
    \/ Reply(p) \/ ReplyLost(p) \/ Settle(p)
    \/ GetRead(p, alvo[p]) /\ pc[p] = "consultar"
    \/ GetDelivered(p) \/ JournalRead(p) \/ GetSave(p)
    \/ CancelRemote(p) \/ CancelLost(p) \/ ReconcileSave(p)

Request(p) ==
    \E o \in Ops :
        \/ ExecuteRead(p, o) \/ Cancel(p, o) \/ ReconcileRead(p, o)
        \/ GetRead(p, o) /\ pc[p] = "ocioso"

Background(o) ==
    \/ Prepare(o) \/ Approve(o) \/ Expire(o)
    \/ PurgePayload(o) \/ PurgeReceipt(o)

Agent(o) == AgentReceive(o) \/ AgentApply(o) \/ AgentRecord(o)

Next ==
    \/ \E p \in Procs : Handler(p) \/ Request(p) \/ Crash(p)
    \/ \E o \in Ops : Background(o) \/ Agent(o)
    \/ ChangeAuthority

Spec == Init /\ [][Next]_vars

-----------------------------------------------------------------------------
(* Safety.                                                                 *)

\* An operation is sent to the agent at most once, whatever requests compete
\* for it and wherever the server stops: the claim precedes the dispatch and
\* is never taken back (PersonaSqlOperations.execute).
AtMostOneDispatch == \A o \in Ops : despachos[o] <= 1

\* Nothing is sent that needs the owner's approval and does not have it.
DispatchApproved ==
    \A o \in Ops : despachos[o] > 0 /\ exigeAprovacao[o] => aprovacao[o]

\* Both: whatever is tried again, approved late or left by a crash, what leaves
\* leaves once and with its approval.
SoundDispatch == AtMostOneDispatch /\ DispatchApproved

\* A known terminal state is the truth about the business base, and final:
\* no command is still on its way or about to leave, and the agent is done.
TerminalIsTrue ==
    \A o \in Ops :
        /\ estado[o] = "concluida" => aplicada[o] = 1
        /\ estado[o] \in {"rollback_confirmado", "cancelada"} => aplicada[o] = 0
        /\ estado[o] \in Terminais =>
              /\ rede[o] = 0
              /\ diario[o] \in {"ausente"} \cup (Recibos \ Pendentes)
              /\ \A p \in Procs : alvo[p] = o => pc[p] # "despachar"

\* The fence of the query cache: a change of the business base is either under
\* a pending operation or older than the physical source's revision.
WriteFenced ==
    \A o \in Ops :
        aplicada[o] > 0 /\ estado[o] \notin Pendentes
            => revisao > revisaoAplicada[o]

-----------------------------------------------------------------------------
(* What a step may never do.                                               *)

\* A known outcome and its receipt never change; retention only removes the
\* receipt (protect_operation_preparation, guard_operation_retention).
TerminalStep ==
    \A o \in Ops :
        estado[o] \in Terminais =>
            /\ estado'[o] = estado[o]
            /\ comprovante'[o] \in {comprovante[o], "removido"}

\* Verified evidence is not replaced by a later or concurrent inconclusive
\* reading, and no evidence is recorded once the journal gave an outcome.
EvidenceStep ==
    \A o \in Ops :
        conciliacao'[o] # conciliacao[o] =>
            /\ conciliacao[o] # "aplicacao_verificada"
            /\ estado[o] = "resultado_desconhecido"
            /\ conciliacao'[o] = "aplicacao_verificada" => aplicada[o] = 1

\* Both: what is known of a write is never unlearned, whichever of the requests
\* that learned something of it comes last.
KnownIsKept == [][TerminalStep /\ EvidenceStep]_vars

-----------------------------------------------------------------------------
(* Refinement.                                                             *)

Livro(o) ==
    IF aplicada[o] > 0 THEN "aplicada"
    ELSE IF estado[o] \in {"inexistente"} \cup Preparadas THEN "aberta"
    ELSE IF \/ diario[o] \in {"rollback_confirmado", "cancelada",
                              "cancelada_estrutura"}
            \/ estado[o] \in {"rollback_confirmado", "cancelada"}
         THEN "descartada"
    ELSE "reservada"

Relato(o) ==
    IF estado[o] = "concluida" THEN "aplicada"
    ELSE IF estado[o] \in {"rollback_confirmado", "cancelada"} THEN "descartada"
    ELSE IF estado[o] = "resultado_desconhecido" THEN "incerto"
    ELSE "nenhum"

Promessa == INSTANCE WriteOutcome WITH
    livro <- [o \in Ops |-> Livro(o)], relato <- [o \in Ops |-> Relato(o)]

\* The lifecycle keeps the promise: a write happens or is discarded for good,
\* and every known outcome that is reported is the one that happened.
ImplementsWriteOutcome == Promessa!Spec

Cerca == INSTANCE WriteFence WITH
    pendentes <- {o \in Ops : estado[o] \in Pendentes},
    aplicadas <- {o \in Ops : aplicada[o] > 0},
    marca <- revisaoAplicada

\* The lifecycle is a correct writer behind the fence the cached queries read.
ImplementsWriteFence == Cerca!Spec

-----------------------------------------------------------------------------
(* Liveness while the server stays up.                                     *)

NextUp ==
    \/ \E p \in Procs : Handler(p) \/ Request(p)
    \/ \E o \in Ops : Background(o) \/ Agent(o)
    \/ ChangeAuthority

\* A handler's continuation always runs, and its awaits end by a reply or by
\* the transport's timeout; nothing is assumed of agents, owners or consumers.
FairSpec == Init /\ [][NextUp]_vars /\ \A p \in Procs : WF_vars(Handler(p))

\* A claimed operation gets an outcome, or is declared unknown, even if the
\* agent never answers and the consumer is revoked meanwhile.
ClaimSettles ==
    \A o \in Ops :
        estado[o] = "executando" ~>
            estado[o] \notin {"executando", "cancelamento_solicitado"}
=============================================================================
