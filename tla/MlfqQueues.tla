----------------------------- MODULE MlfqQueues -----------------------------
(***************************************************************************)
(* The queue operations of the MLFQ scheduler (scheduler/kern/sched.c).    *)
(*                                                                         *)
(* struct MLFQ_cola is an array of NENV cells used as a ring with two      *)
(* indices that only grow: the queue is the window [primero, ultimo) and   *)
(* position i lives in cell i % NENV.  sched.c never checks that the       *)
(* window has at most NENV positions, so two positions of one window can   *)
(* share a cell.  A queue is modelled by the sequence of what its window   *)
(* reads: position primero + k - 1 is element k.  Writing a cell changes   *)
(* every element that shares it (Alias), which is all that the cell array  *)
(* and the absolute value of the indices add.                              *)
(***************************************************************************)
EXTENDS Integers, Sequences

CONSTANT NENV       \* cells of a queue; also the size of envs[]

ASSUME NENVAssumption == NENV \in Nat \ {0}

COLAS_MAXIMAS == 4
Colas == 0 .. COLAS_MAXIMAS - 1

\* An envid_t is a pair <<slot, generation>>; ENVX extracts the slot.
ENVX(id) == id[1]

\* Two positions of a window are the same cell of the ring.
Alias(j, k) == (j - k) % NENV = 0

\* sched_agregar_env: write at ultimo, ultimo++.
Agregar(q, id) ==
    LET n == Len(q) + 1
    IN  [k \in 1 .. n |-> IF Alias(k, n) THEN id ELSE q[k]]

\* sched_borrar_env: swap position j with the first one, primero++.
Borrar(q, j) ==
    Tail([k \in 1 .. Len(q) |->
            IF Alias(k, j) THEN q[1] ELSE IF Alias(k, 1) THEN q[j] ELSE q[k]])

\* sched_eliminar_env, on the queue that cola_actual names: the first position
\* that holds exactly this id, if there is one.
Eliminar(q, id) ==
    IF \E j \in 1 .. Len(q) : q[j] = id
    THEN Borrar(q, CHOOSE j \in 1 .. Len(q) :
                       q[j] = id /\ \A i \in 1 .. (j - 1) : q[i] # id)
    ELSE q

\* The last position of a window of n that shares position k's cell.
UltimoAlias(k, n) == n - ((n - k) % NENV)

\* Mistake: cola_d is emptied without having been promoted.
ColaPromovidaSinD(colas) == colas[0] \o colas[1] \o colas[2]

\* promover_cola on b, c and d: each entry is added at the end of cola_a, and
\* the last write to a cell is the one that stays.
ColaPromovida(colas) ==
    LET w == colas[0] \o colas[1] \o colas[2] \o colas[3]
    IN  [k \in 1 .. Len(w) |-> w[UltimoAlias(k, Len(w))]]

\* promover_colas followed by vaciar_colas.
Promover(colas) ==
    [q \in Colas |-> IF q = 0 THEN ColaPromovida(colas) ELSE <<>>]

\* Some entry of queue q belongs to slot e: the scheduler looks an entry up as
\* envs[ENVX(env_id)] and never compares the id itself.
TieneEntrada(q, e) == \E k \in 1 .. Len(q) : ENVX(q[k]) = e

Entradas(colas) ==
    Len(colas[0]) + Len(colas[1]) + Len(colas[2]) + Len(colas[3])
=============================================================================
