------------------------------ MODULE MlfqRing ------------------------------
(***************************************************************************)
(* struct MLFQ_cola as sched.h declares it and sched.c uses it: an array   *)
(* of NENV cells and two indices that only grow (until vaciar_colas), the  *)
(* cells written through "% NENV" and never checked for room.  TLC runs    *)
(* the calls in any order, past the point where the ring overflows, and    *)
(* compares every state with the sequences of MlfqQueues.                  *)
(***************************************************************************)
EXTENDS Integers, Sequences

CONSTANTS
    NENV,
    Ids,            \* environment ids
    ColasUsadas,    \* the queues that callers add to
    MAX_INDICE      \* bound on primero and ultimo (an int in the code)

ASSUME RingAssumption ==
    NENV \in Nat \ {0} /\ ColasUsadas \subseteq 0 .. 3 /\ MAX_INDICE \in Nat

VARIABLES
    envs,       \* envs[q]: the cells of queue q
    primero,
    ultimo,
    llamada     \* the last call, for the comparison only; see MlfqAbstract

ringVars == <<envs, primero, ultimo, llamada>>

Celdas == 0 .. NENV - 1
SIN_ESCRIBIR == <<0, 0>>        \* a cell of the zero-initialised array

RingInit ==
    /\ envs = [q \in 0 .. 3 |-> [i \in Celdas |-> SIN_ESCRIBIR]]
    /\ primero = [q \in 0 .. 3 |-> 0]
    /\ ultimo = [q \in 0 .. 3 |-> 0]
    /\ llamada = <<>>

\* sched_agregar_env
SchedAgregarEnv(q, id) ==
    /\ ultimo[q] < MAX_INDICE
    /\ envs' = [envs EXCEPT ![q][ultimo[q] % NENV] = id]
    /\ ultimo' = [ultimo EXCEPT ![q] = @ + 1]
    /\ llamada' = <<"agregar", q, id>>
    /\ UNCHANGED primero

\* Mistake: the swap is left out, and the first entry is dropped instead.
BorrarCeldaSinCambio(celdas, prim, posicion) == celdas

\* sched_borrar_env's effect on the cells.  The shortcut compares posicion, a
\* cell number, with primero, which is not reduced modulo NENV.
BorrarCelda(celdas, prim, posicion) ==
    IF posicion = prim THEN celdas
    ELSE [celdas EXCEPT ![prim % NENV] = celdas[posicion],
                        ![posicion] = celdas[prim % NENV]]

\* sched_borrar_env, as its callers call it: posicion is i % NENV for a position
\* i of the window.
SchedBorrarEnv(q, i) ==
    /\ envs' = [envs EXCEPT ![q] = BorrarCelda(@, primero[q], i % NENV)]
    /\ primero' = [primero EXCEPT ![q] = @ + 1]
    /\ UNCHANGED ultimo

\* prioridad_MLFQ removes the entry it has picked, wherever it is.
BorrarEnv(q) ==
    \E i \in primero[q] .. ultimo[q] - 1 :
        /\ SchedBorrarEnv(q, i)
        /\ llamada' = <<"borrar", q, i - primero[q] + 1>>

\* sched_eliminar_env: the first position of the window that holds the id.
SchedEliminarEnv(q, id) ==
    LET hallados == {i \in primero[q] .. ultimo[q] - 1 : envs[q][i % NENV] = id}
    IN  /\ \/ \E i \in hallados : /\ \A j \in hallados : i <= j
                                 /\ SchedBorrarEnv(q, i)
           \/ hallados = {} /\ UNCHANGED <<envs, primero, ultimo>>
        /\ llamada' = <<"eliminar", q, id>>

\* promover_cola(q) on cola_a's cells and ultimo: the loop of sched_agregar_env.
PromoverCola(q, a) ==
    LET n == ultimo[q] - primero[q]
        tras[k \in 0 .. n] ==
            IF k = 0 THEN a
            ELSE [celdas |-> [tras[k - 1].celdas EXCEPT
                                ![tras[k - 1].ultimo % NENV] =
                                    envs[q][(primero[q] + k - 1) % NENV]],
                  ultimo |-> tras[k - 1].ultimo + 1]
    IN  tras[n]

\* promover_colas and vaciar_colas: b, c and d in this order, then their indices
\* go back to 0 (cola_a's never do).
PromoverColas ==
    LET a == PromoverCola(3, PromoverCola(2, PromoverCola(1,
                [celdas |-> envs[0], ultimo |-> ultimo[0]])))
    IN  /\ a.ultimo <= MAX_INDICE
        /\ envs' = [envs EXCEPT ![0] = a.celdas]
        /\ ultimo' = [q \in 0 .. 3 |-> IF q = 0 THEN a.ultimo ELSE 0]
        /\ primero' = [q \in 0 .. 3 |-> IF q = 0 THEN primero[0] ELSE 0]
        /\ llamada' = <<"promover">>

RingNext ==
    \/ \E q \in ColasUsadas :
         \/ \E id \in Ids : SchedAgregarEnv(q, id) \/ SchedEliminarEnv(q, id)
         \/ BorrarEnv(q)
    \/ PromoverColas

RingSpec == RingInit /\ [][RingNext]_ringVars

-----------------------------------------------------------------------------
\* What the window [primero, ultimo) of queue q reads.
Ventana(q) ==
    [k \in 1 .. ultimo[q] - primero[q] |-> envs[q][(primero[q] + k - 1) % NENV]]

Abstracto == INSTANCE MlfqAbstract WITH colas <- [q \in 0 .. 3 |-> Ventana(q)]

\* The arrays of sched.c do what the sequences of MlfqQueues do, the overwritten
\* entries of an overflowed ring included.
ImplementsQueues == Abstracto!Spec
=============================================================================
