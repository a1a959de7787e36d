---------------------------- MODULE MlfqAbstract ----------------------------
(***************************************************************************)
(* The four queues as sequences, changed by any of the calls of sched.h,   *)
(* in any order: what module Kernel takes sched.c's queues to be.  Module  *)
(* MlfqRing shows that the arrays and indices of sched.c implement it.     *)
(***************************************************************************)
EXTENDS MlfqQueues

CONSTANT Ids

VARIABLES
    colas,
    llamada     \* the last call with its arguments (sched.c has no such variable)

vars == <<colas, llamada>>

Init == colas = [q \in Colas |-> <<>>] /\ llamada = <<>>

AgregarEnv(q, id) ==
    /\ colas' = [colas EXCEPT ![q] = Agregar(@, id)]
    /\ llamada' = <<"agregar", q, id>>

\* Position j of the window.
BorrarEnv(q) ==
    \E j \in 1 .. Len(colas[q]) :
        /\ colas' = [colas EXCEPT ![q] = Borrar(@, j)]
        /\ llamada' = <<"borrar", q, j>>

EliminarEnv(q, id) ==
    /\ colas' = [colas EXCEPT ![q] = Eliminar(@, id)]
    /\ llamada' = <<"eliminar", q, id>>

PromoverColas == colas' = Promover(colas) /\ llamada' = <<"promover">>

Next ==
    \/ \E q \in Colas, id \in Ids : AgregarEnv(q, id) \/ EliminarEnv(q, id)
    \/ \E q \in Colas : BorrarEnv(q)
    \/ PromoverColas

Spec == Init /\ [][Next]_vars
=============================================================================
