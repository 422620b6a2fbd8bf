---------------------------- MODULE WriteOutcome ----------------------------
(***************************************************************************)
(* What the persona promises about each of its writes, SQL operation or    *)
(* external action, whatever the server, the other side and the network    *)
(* do: a reserved write is applied or discarded, once and for all, and     *)
(* what is reported of it as known is what happened.  livro[o] is what     *)
(* became of the write on the other side, relato[o] what the persona tells *)
(* its consumer.                                                           *)
(***************************************************************************)
CONSTANT Ops

VARIABLES livro, relato

vars == <<livro, relato>>

Init ==
    /\ livro = [o \in Ops |-> "aberta"]
    /\ relato = [o \in Ops |-> "nenhum"]

\* The write is claimed; from here on it may happen.
Reserve(o) ==
    /\ livro[o] = "aberta"
    /\ livro' = [livro EXCEPT ![o] = "reservada"]
    /\ UNCHANGED relato

\* It happens, or it becomes certain that it never will.
Decide(o) ==
    /\ livro[o] = "reservada"
    /\ \E fim \in {"aplicada", "descartada"} :
          livro' = [livro EXCEPT ![o] = fim]
    /\ UNCHANGED relato

\* The persona itself gives it up before it can happen.
Withdraw(o) ==
    /\ livro[o] \in {"aberta", "reservada"}
    /\ relato[o] = "nenhum"
    /\ livro' = [livro EXCEPT ![o] = "descartada"]
    /\ relato' = [relato EXCEPT ![o] = "descartada"]

ReportUnknown(o) ==
    /\ livro[o] # "aberta"
    /\ relato[o] = "nenhum"
    /\ relato' = [relato EXCEPT ![o] = "incerto"]
    /\ UNCHANGED livro

\* A known outcome is reported once, and only after it was decided.
Report(o) ==
    /\ livro[o] \in {"aplicada", "descartada"}
    /\ relato[o] \in {"nenhum", "incerto"}
    /\ relato' = [relato EXCEPT ![o] = livro[o]]
    /\ UNCHANGED livro

Next ==
    \E o \in Ops :
        Reserve(o) \/ Decide(o) \/ Withdraw(o) \/ ReportUnknown(o) \/ Report(o)

Spec == Init /\ [][Next]_vars
=============================================================================
