--------------------------- MODULE ExternalActions ---------------------------
(***************************************************************************)
(* The lifecycle of the persona's external actions: one effect on a REST   *)
(* or MCP service, prepared, approved, durably claimed and sent, with its  *)
(* recovery by reading, its reconciliation and its retention.              *)
(*                                                                         *)
(* Source: PersonaExternalActions (the handlers), PublicExternalHttp.send  *)
(* and ExternalConnectorTransport (the transport), PostgresExternalActions *)
(* and the triggers of migrations 0025, 0026 and 0029 (the rows), the      *)
(* retention worker.  The provider is external.                            *)
(*                                                                         *)
(* A handler of execute and the transport's continuation that it awaits    *)
(* are two threads: Promise.race lets the handler go at the deadline while *)
(* the continuation is still in the middle of its claim.  pc[p] is where   *)
(* the handler of request p is suspended, envio[p] where its continuation. *)
(* A transaction locks the row, and is one step.                           *)
(***************************************************************************)
EXTENDS Naturals

CONSTANTS
    Ops,    \* identifiers of the actions of one consumer
    Procs   \* concurrent requests, across all the server's replicas

Preparadas == {"preparada", "aprovacao_pendente", "aprovada"}
Enviadas   == {"executando", "concluida", "resultado_desconhecido"}
Apagaveis  == {"concluida", "cancelada", "expirada"}
Finais     == Apagaveis \cup {"resultado_desconhecido"}
Evidencias == {"inconclusive", "applied_verified"}

VARIABLES
    \* Rows of external_action_v2, its approvals and its reconciliations.
    estado, exigeAprovacao, aprovacao,
    vencida,       \* expires_at <= now
    payload,       \* payload_enc is still stored
    comprovante,
    evidencias,    \* what reconciliations recorded, append only
    vigente,       \* the authority is still the preparation's
    \* The way to the provider.
    rede,          \* requests with the effect on their way
    recebidas,     \* requests with the effect that the provider served
    enviadas,      \* requests with the effect ever sent
    \* Requests in progress.
    pc, alvo, envio,
    claimed,       \* the handler's flag
    abortado,      \* the handler's controller
    achado         \* what a reconciliation read

preparo == <<exigeAprovacao, aprovacao, vencida>>
linhas  == <<estado, preparo, payload, comprovante, evidencias>>
provedor == <<rede, recebidas>>
sinais  == <<alvo, claimed, abortado, achado>>
pedidos == <<pc, envio, sinais>>
vars == <<linhas, vigente, provedor, enviadas, pedidos>>

TypeOK ==
    /\ estado \in [Ops -> {"inexistente", "executando"} \cup Preparadas
                             \cup Finais]
    /\ exigeAprovacao \in [Ops -> BOOLEAN]
    /\ aprovacao \in [Ops -> BOOLEAN]
    /\ vencida \in [Ops -> BOOLEAN]
    /\ payload \in [Ops -> BOOLEAN]
    /\ comprovante \in [Ops -> {"nenhum", "removido", "concluida",
                                 "resultado_desconhecido"}]
    /\ evidencias \in [Ops -> SUBSET Evidencias]
    /\ vigente \in BOOLEAN
    /\ rede \in [Ops -> Nat]
    /\ recebidas \in [Ops -> Nat]
    /\ enviadas \in [Ops -> Nat]
    /\ pc \in [Procs -> {"ocioso", "transporte", "registrar", "falhar",
                          "consultar", "gravar"}]
    /\ alvo \in [Procs -> Ops]
    /\ envio \in [Procs -> {"nenhum", "verificar", "reivindicar", "confirmar",
                             "enviar", "aguardar"}]
    /\ claimed \in [Procs -> BOOLEAN]
    /\ abortado \in [Procs -> BOOLEAN]
    /\ achado \in [Procs -> Evidencias]

Init ==
    /\ estado = [o \in Ops |-> "inexistente"]
    /\ exigeAprovacao = [o \in Ops |-> FALSE]
    /\ aprovacao = [o \in Ops |-> FALSE]
    /\ vencida = [o \in Ops |-> FALSE]
    /\ payload = [o \in Ops |-> FALSE]
    /\ comprovante = [o \in Ops |-> "nenhum"]
    /\ evidencias = [o \in Ops |-> {}]
    /\ vigente = TRUE
    /\ rede = [o \in Ops |-> 0]
    /\ recebidas = [o \in Ops |-> 0]
    /\ enviadas = [o \in Ops |-> 0]
    /\ pc = [p \in Procs |-> "ocioso"]
    /\ alvo \in {[p \in Procs |-> o] : o \in Ops}
    /\ envio = [p \in Procs |-> "nenhum"]
    /\ claimed = [p \in Procs |-> FALSE]
    /\ abortado = [p \in Procs |-> FALSE]
    /\ achado = [p \in Procs |-> "inconclusive"]

-----------------------------------------------------------------------------
(* Helpers.  The variants beside them are the slips that the properties    *)
(* below are checked to catch; nothing else uses them.                     *)

Vai(p, ponto) == pc' = [pc EXCEPT ![p] = ponto]
EnvioVai(p, ponto) == envio' = [envio EXCEPT ![p] = ponto]

\* The request is over, its transport included.
Livre(p) == pc[p] = "ocioso" /\ envio[p] = "nenhum"

\* assertExecutableOperation.  The approval expires with the preparation.
ExecutavelReenvio(o) ==
    /\ estado[o] \in {"preparada", "aprovada", "executando"}
    /\ ~vencida[o]
ExecutavelSemAprovacao(o) == estado[o] \in Preparadas /\ ~vencida[o]
Executavel(o) ==
    /\ estado[o] \in {"preparada", "aprovada"}
    /\ ~vencida[o]
    /\ exigeAprovacao[o] => estado[o] = "aprovada" /\ aprovacao[o]

\* claimed_at + timeoutMs + 5 s has passed: the deadline of whoever claimed
\* the action is over, or it died with its process.
PrazoNenhum(o) == TRUE
PrazoEncerrado(o) ==
    \A p \in Procs : alvo[p] = o /\ claimed[p] /\ ~Livre(p) => abortado[p]

\* Only an action still in execution takes an outcome.
Aceita(o) == estado[o] = "executando"

\* cancel: nothing that was sent can be cancelled.
CancelaveisExecutando == Preparadas \cup {"executando"}
Cancelaveis == Preparadas

\* A row saved in state e, with its receipt when there is one.
SalvaRecibo(o, e) ==
    /\ estado' = [estado EXCEPT ![o] = e]
    /\ comprovante' = [comprovante EXCEPT ![o] = e]
Salva(o, e) ==
    /\ estado' = [estado EXCEPT ![o] = e]
    /\ comprovante' = [comprovante EXCEPT
          ![o] = IF e \in {"concluida", "resultado_desconhecido"}
                 THEN e ELSE @]

\* The late recognition of an expired preparation or an interrupted claim.
RecuperaNada(o) == FALSE
Recupera(o) ==
    \/ estado[o] \in Preparadas /\ vencida[o] /\ Salva(o, "expirada")
    \/ /\ estado[o] = "executando"
       /\ PrazoEncerrado(o)
       /\ Salva(o, "resultado_desconhecido")

-----------------------------------------------------------------------------
(* Preparation, approval, cancellation and reading: one transaction each.  *)

Prepare(o) ==
    /\ vigente
    /\ estado[o] = "inexistente"
    /\ \E exige \in BOOLEAN :
        /\ exigeAprovacao' = [exigeAprovacao EXCEPT ![o] = exige]
        /\ estado' = [estado EXCEPT
              ![o] = IF exige THEN "aprovacao_pendente" ELSE "preparada"]
    /\ payload' = [payload EXCEPT ![o] = TRUE]
    /\ UNCHANGED <<aprovacao, vencida, comprovante, evidencias, vigente,
                   provedor, enviadas, pedidos>>

\* The owner approves the exact content, under the consumer's authority.
Approve(o) ==
    /\ vigente
    /\ estado[o] = "aprovacao_pendente"
    /\ ~vencida[o]
    /\ aprovacao' = [aprovacao EXCEPT ![o] = TRUE]
    /\ Salva(o, "aprovada")
    /\ UNCHANGED <<exigeAprovacao, vencida, payload, evidencias, vigente,
                   provedor, enviadas, pedidos>>

Cancel(o) ==
    /\ vigente
    /\ estado[o] \in Cancelaveis
    /\ Salva(o, "cancelada")
    /\ UNCHANGED <<preparo, payload, evidencias, vigente, provedor, enviadas,
                   pedidos>>

\* The consumer reads the action, or its owner reviews it whatever became of
\* the consumer's authority.
Get(o) ==
    /\ vigente
    /\ Recupera(o)
    /\ UNCHANGED <<preparo, payload, evidencias, vigente, provedor, enviadas,
                   pedidos>>

Review(o) ==
    /\ Recupera(o)
    /\ UNCHANGED <<preparo, payload, evidencias, vigente, provedor, enviadas,
                   pedidos>>

-----------------------------------------------------------------------------
(* execute: the handler and the transport's continuation.                  *)

ExecuteRead(p, o) ==
    /\ Livre(p)
    /\ vigente
    /\ Executavel(o)
    /\ payload[o]
    /\ alvo' = [alvo EXCEPT ![p] = o]
    /\ claimed' = [claimed EXCEPT ![p] = FALSE]
    /\ abortado' = [abortado EXCEPT ![p] = FALSE]
    /\ Vai(p, "transporte")
    /\ EnvioVai(p, "verificar")
    /\ UNCHANGED <<linhas, vigente, provedor, enviadas, achado>>

\* beforeDispatch, after the address is resolved; each earlier message of an
\* MCP session without effect has passed it too.
Revalidate(p) ==
    /\ envio[p] = "verificar"
    /\ ~abortado[p]
    /\ vigente
    /\ Executavel(alvo[p])
    /\ EnvioVai(p, "reivindicar")
    /\ UNCHANGED <<linhas, vigente, provedor, enviadas, pc, sinais>>

\* beforeEffect checks the row, then the deadline, and saves: an abort may
\* still come between that check and the commit.
ClaimCheck(p) ==
    /\ envio[p] = "reivindicar"
    /\ ~abortado[p]
    /\ vigente
    /\ Executavel(alvo[p])
    /\ EnvioVai(p, "confirmar")
    /\ UNCHANGED <<linhas, vigente, provedor, enviadas, pc, sinais>>

Claim(p) ==
    /\ envio[p] = "confirmar"
    /\ vigente
    /\ Executavel(alvo[p])
    /\ Salva(alvo[p], "executando")
    /\ claimed' = [claimed EXCEPT ![p] = TRUE]
    /\ EnvioVai(p, "enviar")
    /\ UNCHANGED <<preparo, payload, evidencias, vigente, provedor, enviadas,
                   pc, alvo, abortado, achado>>

\* The commit's confirmation is lost: the handler takes it for a refusal.
ClaimLost(p) ==
    /\ envio[p] = "confirmar"
    /\ vigente
    /\ Executavel(alvo[p])
    /\ Salva(alvo[p], "executando")
    /\ EnvioVai(p, "nenhum")
    /\ pc' = [pc EXCEPT ![p] = IF @ = "transporte" THEN "falhar" ELSE @]
    /\ UNCHANGED <<preparo, payload, evidencias, vigente, provedor, enviadas,
                   sinais>>

\* A resolution, check, claim, contract or database that fails before the send.
Refuse(p) ==
    /\ \/ envio[p] \in {"verificar", "reivindicar", "confirmar"}
       \/ envio[p] = "enviar" /\ abortado[p]
    /\ EnvioVai(p, "nenhum")
    /\ pc' = [pc EXCEPT ![p] = IF @ = "transporte" THEN "falhar" ELSE @]
    /\ UNCHANGED <<linhas, vigente, provedor, enviadas, sinais>>

\* The last check of the deadline and the send are one synchronous step.
Send(p) ==
    LET o == alvo[p] IN
    /\ envio[p] = "enviar"
    /\ ~abortado[p]
    /\ rede' = [rede EXCEPT ![o] = @ + 1]
    /\ enviadas' = [enviadas EXCEPT ![o] = @ + 1]
    /\ EnvioVai(p, "aguardar")
    /\ UNCHANGED <<linhas, vigente, recebidas, pc, sinais>>

\* A response that satisfies the contract...
Reply(p) ==
    /\ envio[p] = "aguardar"
    /\ ~abortado[p]
    /\ recebidas[alvo[p]] > 0
    /\ EnvioVai(p, "nenhum")
    /\ Vai(p, "registrar")
    /\ UNCHANGED <<linhas, vigente, provedor, enviadas, sinais>>

\* ... or an error, an invalid response or a broken connection.
ReplyLost(p) ==
    /\ envio[p] = "aguardar"
    /\ EnvioVai(p, "nenhum")
    /\ pc' = [pc EXCEPT ![p] = IF @ = "transporte" THEN "falhar" ELSE @]
    /\ UNCHANGED <<linhas, vigente, provedor, enviadas, sinais>>

\* The deadline: the race leaves the continuation where it is.
Abort(p) ==
    /\ pc[p] \in {"transporte", "registrar", "falhar"}
    /\ ~abortado[p]
    /\ abortado' = [abortado EXCEPT ![p] = TRUE]
    /\ pc' = [pc EXCEPT ![p] = IF @ = "transporte" THEN "falhar" ELSE @]
    /\ UNCHANGED <<linhas, vigente, provedor, enviadas, envio, alvo, claimed,
                   achado>>

\* The result is journaled even after a revocation; what get and its caller
\* then make of it changes nothing.
Record(p) ==
    LET o == alvo[p] IN
    /\ pc[p] = "registrar"
    /\ Aceita(o)
    /\ Salva(o, "concluida")
    /\ Vai(p, "ocioso")
    /\ UNCHANGED <<preparo, payload, evidencias, vigente, provedor, enviadas,
                   envio, sinais>>

\* Another outcome is there already, or the database fails.
RecordFails(p) ==
    /\ pc[p] = "registrar"
    /\ Vai(p, "falhar")
    /\ UNCHANGED <<linhas, vigente, provedor, enviadas, envio, sinais>>

\* The catch clause, then finally aborts the controller.
Fail(p) ==
    LET o == alvo[p] IN
    /\ pc[p] = "falhar"
    /\ IF claimed[p] /\ Aceita(o)
       THEN Salva(o, "resultado_desconhecido")
       ELSE UNCHANGED <<estado, comprovante>>
    /\ abortado' = [abortado EXCEPT ![p] = TRUE]
    /\ Vai(p, "ocioso")
    /\ UNCHANGED <<preparo, payload, evidencias, vigente, provedor, enviadas,
                   envio, alvo, claimed, achado>>

\* The database fails in the catch clause: nothing is recorded.
FailLost(p) ==
    /\ pc[p] = "falhar"
    /\ abortado' = [abortado EXCEPT ![p] = TRUE]
    /\ Vai(p, "ocioso")
    /\ UNCHANGED <<linhas, vigente, provedor, enviadas, envio, alvo, claimed,
                   achado>>

-----------------------------------------------------------------------------
(* reconcile.                                                              *)

\* An expiry that the refusal rolls back is not recorded.
ReconcileRead(p, o) ==
    /\ Livre(p)
    /\ vigente
    /\ payload[o]
    /\ \/ estado[o] \in {"resultado_desconhecido", "concluida"}
          /\ UNCHANGED <<estado, comprovante>>
       \/ estado[o] = "executando" /\ Recupera(o)
    /\ alvo' = [alvo EXCEPT ![p] = o]
    /\ claimed' = [claimed EXCEPT ![p] = FALSE]
    /\ Vai(p, "consultar")
    /\ UNCHANGED <<preparo, payload, evidencias, vigente, provedor, enviadas,
                   envio, abortado, achado>>

\* The trained reading confirms only what the provider served; anything else,
\* an error and the deadline included, is inconclusive.
ReconcileReply(p) ==
    /\ pc[p] = "consultar"
    /\ \E r \in Evidencias :
        /\ r = "applied_verified" => recebidas[alvo[p]] > 0
        /\ achado' = [achado EXCEPT ![p] = r]
    /\ Vai(p, "gravar")
    /\ UNCHANGED <<linhas, vigente, provedor, enviadas, envio, alvo, claimed,
                   abortado>>

ReconcileSave(p) ==
    LET o == alvo[p] IN
    /\ pc[p] = "gravar"
    /\ IF vigente
       THEN evidencias' = [evidencias EXCEPT ![o] = @ \cup {achado[p]}]
       ELSE UNCHANGED evidencias
    /\ achado' = [achado EXCEPT ![p] = "inconclusive"]
    /\ Vai(p, "ocioso")
    /\ UNCHANGED <<estado, preparo, payload, comprovante, vigente, provedor,
                   enviadas, envio, alvo, claimed, abortado>>

-----------------------------------------------------------------------------
(* Retention, time, authority, crashes and the provider.                   *)

PurgePayload(o) ==
    /\ estado[o] \in Apagaveis
    /\ payload[o]
    /\ payload' = [payload EXCEPT ![o] = FALSE]
    /\ UNCHANGED <<estado, preparo, comprovante, evidencias, vigente, provedor,
                   enviadas, pedidos>>

PurgeReceipt(o) ==
    /\ estado[o] \in Apagaveis
    /\ ~payload[o]
    /\ comprovante[o] \notin {"nenhum", "removido"}
    /\ comprovante' = [comprovante EXCEPT ![o] = "removido"]
    /\ UNCHANGED <<estado, preparo, payload, evidencias, vigente, provedor,
                   enviadas, pedidos>>

Expire(o) ==
    /\ estado[o] # "inexistente"
    /\ ~vencida[o]
    /\ vencida' = [vencida EXCEPT ![o] = TRUE]
    /\ UNCHANGED <<estado, exigeAprovacao, aprovacao, payload, comprovante,
                   evidencias, vigente, provedor, enviadas, pedidos>>

\* Versions only grow, so an authority that changed is never again the
\* preparation's.
ChangeAuthority ==
    /\ vigente
    /\ vigente' = FALSE
    /\ UNCHANGED <<linhas, provedor, enviadas, pedidos>>

Crash(p) ==
    /\ ~Livre(p)
    /\ Vai(p, "ocioso")
    /\ EnvioVai(p, "nenhum")
    /\ achado' = [achado EXCEPT ![p] = "inconclusive"]
    /\ UNCHANGED <<linhas, vigente, provedor, enviadas, alvo, claimed, abortado>>

\* A request that was sent arrives, however late, or is lost.
ProviderServe(o) ==
    /\ rede[o] > 0
    /\ rede' = [rede EXCEPT ![o] = @ - 1]
    /\ recebidas' = [recebidas EXCEPT ![o] = @ + 1]
    /\ UNCHANGED <<linhas, vigente, enviadas, pedidos>>

ProviderMiss(o) ==
    /\ rede[o] > 0
    /\ rede' = [rede EXCEPT ![o] = @ - 1]
    /\ UNCHANGED <<linhas, vigente, recebidas, enviadas, pedidos>>

-----------------------------------------------------------------------------
Handler(p) ==
    \/ Revalidate(p) \/ ClaimCheck(p) \/ Claim(p) \/ ClaimLost(p) \/ Refuse(p)
    \/ Send(p) \/ Reply(p) \/ ReplyLost(p) \/ Abort(p)
    \/ Record(p) \/ RecordFails(p) \/ Fail(p) \/ FailLost(p)
    \/ ReconcileReply(p) \/ ReconcileSave(p)

Request(p) == \E o \in Ops : ExecuteRead(p, o) \/ ReconcileRead(p, o)

Background(o) ==
    \/ Prepare(o) \/ Approve(o) \/ Cancel(o) \/ Get(o) \/ Review(o)
    \/ PurgePayload(o) \/ PurgeReceipt(o) \/ Expire(o)

Provider(o) == ProviderServe(o) \/ ProviderMiss(o)

Next ==
    \/ \E p \in Procs : Handler(p) \/ Request(p) \/ Crash(p)
    \/ \E o \in Ops : Background(o) \/ Provider(o)
    \/ ChangeAuthority

Spec == Init /\ [][Next]_vars

-----------------------------------------------------------------------------
(* Safety.                                                                 *)

\* The effect of an action leaves at most once, whatever requests compete for
\* it, whatever continuation outlives its handler and wherever the server
\* stops: only the winner of the claim sends (execute, beforeEffect).
AtMostOneEffect == \A o \in Ops : enviadas[o] <= 1

\* What has left, or can still leave, was claimed with the approval it needs:
\* an action that expired, was cancelled or may still be is never sent.
OnlyClaimedIsSent ==
    \A o \in Ops :
        \/ enviadas[o] > 0
        \/ \E p \in Procs : alvo[p] = o /\ envio[p] = "enviar"
        => /\ estado[o] \in Enviadas
           /\ exigeAprovacao[o] => aprovacao[o]

\* Both: whatever requests compete and whatever continuation outlives its
\* handler, an effect leaves at most once and only from its claim.
SoundEffect == AtMostOneEffect /\ OnlyClaimedIsSent

\* Nothing leaves once an outcome is recorded, the unknown one included: the
\* reader that recognises an interrupted claim is later than its last send
\* (recover against the timer of execute and the check before network.send).
SentStep ==
    \A o \in Ops : enviadas'[o] # enviadas[o] => estado[o] = "executando"

\* An outcome, the unknown one included, and its receipt never change: a late
\* answer does not overwrite them and retention removes the receipt only
\* (protect_external_action).
OutcomeStep ==
    \A o \in Ops :
        estado[o] \in Finais =>
            /\ estado'[o] = estado[o]
            /\ comprovante'[o] \in {comprovante[o], "removido"}
OutcomeFinal == [][SentStep /\ OutcomeStep]_vars

-----------------------------------------------------------------------------
(* Refinement: external actions make the promise of WriteOutcome, with the *)
(* provider's answer as what is known of an effect.                        *)

Livro(o) ==
    IF recebidas[o] > 0 THEN "aplicada"
    ELSE IF estado[o] \in {"inexistente"} \cup Preparadas THEN "aberta"
    ELSE IF estado[o] \in {"cancelada", "expirada"} THEN "descartada"
    ELSE "reservada"

Relato(o) ==
    IF estado[o] = "concluida" THEN "aplicada"
    ELSE IF estado[o] \in {"cancelada", "expirada"} THEN "descartada"
    ELSE IF estado[o] = "resultado_desconhecido" THEN "incerto"
    ELSE "nenhum"

Promessa == INSTANCE WriteOutcome WITH
    livro <- [o \in Ops |-> Livro(o)], relato <- [o \in Ops |-> Relato(o)]

\* A conclusion is reported only of an effect that the provider served, and
\* what was withdrawn never happens, then or later.
ImplementsWriteOutcome == Promessa!Spec

-----------------------------------------------------------------------------
(* Liveness, crashes included.                                             *)

\* Continuations run and awaits end by an answer or at the deadline; someone
\* keeps reading the journal.  Nothing is assumed of the provider.
FairSpec ==
    /\ Init /\ [][Next]_vars
    /\ \A p \in Procs : WF_vars(Handler(p))
    /\ \A o \in Ops : WF_vars(Review(o))

\* An interrupted claim is recognised by reading, even after a crash, a lost
\* commit confirmation or a revocation of the consumer.
ClaimRecognised ==
    \A o \in Ops : estado[o] = "executando" ~> estado[o] \in Finais
=============================================================================
