----------------------------- MODULE WriteFence -----------------------------
(***************************************************************************)
(* The writes on one physical source as a reader of its cache fence sees   *)
(* them.  The fence is the pair (revisao, pendentes # {}): the business    *)
(* base changes only under a pending write, and a write that changed it    *)
(* stops being pending only with a newer revision.  marca[o] is the        *)
(* revision under which write o changed the base.                          *)
(***************************************************************************)
EXTENDS Naturals

CONSTANT Ops

VARIABLES pendentes, aplicadas, revisao, marca

vars == <<pendentes, aplicadas, revisao, marca>>

Init ==
    /\ pendentes = {}
    /\ aplicadas = {}
    /\ revisao = 0
    /\ marca = [o \in Ops |-> 0]

Begin(o) ==
    /\ o \notin pendentes \cup aplicadas
    /\ pendentes' = pendentes \cup {o}
    /\ UNCHANGED <<aplicadas, revisao, marca>>

Apply(o) ==
    /\ o \in pendentes \ aplicadas
    /\ aplicadas' = aplicadas \cup {o}
    /\ marca' = [marca EXCEPT ![o] = revisao]
    /\ UNCHANGED <<pendentes, revisao>>

\* A new revision while the write stays pending.
Invalidate ==
    /\ pendentes # {}
    /\ revisao' = revisao + 1
    /\ UNCHANGED <<pendentes, aplicadas, marca>>

Settle(o) ==
    /\ o \in pendentes
    /\ revisao' \in {revisao, revisao + 1}
    /\ o \in aplicadas => revisao' > marca[o]
    /\ pendentes' = pendentes \ {o}
    /\ UNCHANGED <<aplicadas, marca>>

Next ==
    \/ \E o \in Ops : Begin(o) \/ Apply(o) \/ Settle(o)
    \/ Invalidate

Spec == Init /\ [][Next]_vars
=============================================================================
