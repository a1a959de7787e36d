--------------------------- MODULE PrivateMemories ---------------------------
(***************************************************************************)
(* What fork promises to programs (scheduler/lib/fork.c): each environment *)
(* has a memory of its own.  A write changes one page of the one that      *)
(* writes, and a child starts with its parent's memory, except that the    *)
(* stack, which the parent goes on using inside fork, may be an older one. *)
(* There are no frames, permissions or faults here.                        *)
(***************************************************************************)
CONSTANTS Envs, VPs, STACK, Datos, NULO

VARIABLE memoria    \* what each environment reads in each page; NULO if none

Vacia == [v \in VPs |-> NULO]

Init == \E e \in Envs, d \in Datos :
    memoria = [f \in Envs |-> IF f = e THEN [v \in VPs |-> d] ELSE Vacia]

Write(e, v) ==
    /\ memoria[e] # Vacia
    /\ \E d \in Datos : memoria' = [memoria EXCEPT ![e][v] = d]

Start(e, c) ==
    /\ memoria[e] # Vacia /\ memoria[c] = Vacia
    /\ \E d \in Datos : memoria' = [memoria EXCEPT ![c] = [memoria[e] EXCEPT ![STACK] = d]]

End(e) == memoria' = [memoria EXCEPT ![e] = Vacia]

Next == \E e \in Envs :
    \/ End(e)
    \/ \E v \in VPs : Write(e, v)
    \/ \E c \in Envs : Start(e, c)

Spec == Init /\ [][Next]_memoria
=============================================================================
