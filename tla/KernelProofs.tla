---------------------------- MODULE KernelProofs ----------------------------
(***************************************************************************)
(* Proofs about module Kernel, for any number of CPUs, any table size, any *)
(* generation width, both schedulers.                                      *)
(*                                                                         *)
(* KInv holds whatever the programs do (LIBOS is not assumed).  Besides    *)
(* the properties of the runs it says when a CPU has a curenv, and that    *)
(* cpu_status says HALTED exactly while the CPU halts: that is what makes  *)
(* trap() take the lock again, once.                                       *)
(***************************************************************************)
EXTENDS Kernel, SequenceTheorems, WellFoundedInduction, TLAPS

-----------------------------------------------------------------------------
\* The queue operations: each of them turns queues of ids into queues of ids.

\* A function on 1..n is a sequence of length n.
LEMMA FunctionIsSeq ==
    ASSUME NEW S, NEW n \in Nat, NEW f \in [1 .. n -> S]
    PROVE  f \in Seq(S) /\ Len(f) = n
  OBVIOUS

\* sched_agregar_env makes the window one longer, and the last position reads
\* the id just written.
LEMMA AgregarProperties ==
    ASSUME NEW S, NEW q \in Seq(S), NEW id \in S
    PROVE  /\ Agregar(q, id) \in Seq(S)
           /\ Len(Agregar(q, id)) = Len(q) + 1
<1> DEFINE n == Len(q) + 1
<1>1. n \in Nat
  BY LenProperties
<1>2. \A k \in 1 .. n : ~Alias(k, n) => k \in 1 .. Len(q)
  <2> SUFFICES ASSUME NEW k \in 1 .. n, k = n PROVE Alias(k, n)
    BY LenProperties
  <2> QED
    BY NENVAssumption DEF Alias
<1>3. Agregar(q, id) \in [1 .. n -> S]
  BY <1>1, <1>2, ElementOfSeq DEF Agregar
<1> QED
  BY <1>1, <1>3, FunctionIsSeq

\* sched_borrar_env takes one entry out of the window, from any position.
LEMMA BorrarProperties ==
    ASSUME NEW S, NEW q \in Seq(S), NEW j \in 1 .. Len(q)
    PROVE  /\ Borrar(q, j) \in Seq(S)
           /\ Len(Borrar(q, j)) = Len(q) - 1
<1> DEFINE w == [k \in 1 .. Len(q) |->
                   IF Alias(k, j) THEN q[1] ELSE IF Alias(k, 1) THEN q[j] ELSE q[k]]
<1>1. Len(q) \in Nat /\ 1 \in 1 .. Len(q)
  BY LenProperties
<1>2. w \in [1 .. Len(q) -> S]
  BY <1>1, ElementOfSeq
<1> HIDE DEF w
<1>3. w \in Seq(S) /\ Len(w) = Len(q)
  BY <1>1, <1>2, FunctionIsSeq
<1>4. w # <<>>
  BY <1>1, <1>3
<1>5. Tail(w) \in Seq(S) /\ Len(Tail(w)) = Len(w) - 1
  BY <1>3, <1>4, HeadTailProperties
<1> QED
  BY <1>3, <1>5 DEF Borrar, w

\* A non-empty set of positions of a window has a first one.
LEMMA FirstPosition ==
    ASSUME NEW n \in Nat, NEW T, T \subseteq 1 .. n, T # {}
    PROVE  \E j \in T : \A i \in 1 .. (j - 1) : i \notin T
<1>1. T \subseteq Nat
  OBVIOUS
<1>2. PICK j \in T : \A i \in T : <<i, j>> \notin OpToRel(<, Nat)
  BY <1>1, WFMin, NatLessThanWellFounded
<1>3. \A i \in T : ~(i < j)
  BY <1>1, <1>2 DEF OpToRel
<1> QED
  BY <1>1, <1>3

\* sched_eliminar_env takes out at most one entry.
LEMMA EliminarProperties ==
    ASSUME NEW S, NEW q \in Seq(S), NEW id
    PROVE  Eliminar(q, id) \in Seq(S)
<1>1. CASE ~ \E j \in 1 .. Len(q) : q[j] = id
  BY <1>1 DEF Eliminar
<1>2. CASE \E j \in 1 .. Len(q) : q[j] = id
  <2> DEFINE T == {j \in 1 .. Len(q) : q[j] = id}
  <2>1. \E j \in T : \A i \in 1 .. (j - 1) : i \notin T
    <3>1. Len(q) \in Nat /\ T \subseteq 1 .. Len(q) /\ T # {}
      BY <1>2, LenProperties
    <3> HIDE DEF T
    <3> QED
      BY <3>1, FirstPosition
  <2>2. \E j \in 1 .. Len(q) : q[j] = id /\ \A i \in 1 .. (j - 1) : q[i] # id
    BY <2>1, LenProperties
  <2>3. PICK j \in 1 .. Len(q) : Eliminar(q, id) = Borrar(q, j)
    BY <1>2, <2>2 DEF Eliminar
  <2> QED
    BY <2>3, BorrarProperties
<1> QED
  BY <1>1, <1>2

\* The remainder of a natural number does not exceed it.
LEMMA ModBound ==
    ASSUME NEW x \in Nat
    PROVE  x % NENV \in 0 .. x
<1>1. x % NENV \in 0 .. (NENV - 1)
  BY NENVAssumption
<1>2. x = NENV * (x \div NENV) + (x % NENV)
  BY NENVAssumption
<1>3. x \div NENV \in Nat
  BY NENVAssumption
<1>4. NENV * (x \div NENV) >= 0
  BY <1>3, NENVAssumption
<1> QED
  BY <1>1, <1>2, <1>4, NENVAssumption

\* promover_colas followed by vaciar_colas: cola_a gets as many entries as there
\* were in all the queues, and the other queues are empty.
LEMMA PromoverProperties ==
    ASSUME NEW S, NEW cs \in [Colas -> Seq(S)]
    PROVE  /\ Promover(cs) \in [Colas -> Seq(S)]
           /\ Entradas(Promover(cs)) = Entradas(cs)
<1> DEFINE w == cs[0] \o cs[1] \o cs[2] \o cs[3]
<1>0. \A q \in 0 .. 3 : cs[q] \in Seq(S) /\ Len(cs[q]) \in Nat
  BY LenProperties DEF Colas, COLAS_MAXIMAS
<1>1. cs[0] \o cs[1] \in Seq(S)
      /\ Len(cs[0] \o cs[1]) = Len(cs[0]) + Len(cs[1])
  BY <1>0, ConcatProperties
<1>2. cs[0] \o cs[1] \o cs[2] \in Seq(S)
      /\ Len(cs[0] \o cs[1] \o cs[2])
           = Len(cs[0]) + Len(cs[1]) + Len(cs[2])
  BY <1>0, <1>1, ConcatProperties
<1>3. w \in Seq(S) /\ Len(w) = Entradas(cs)
  BY <1>0, <1>2, ConcatProperties DEF Entradas
<1>4. ColaPromovida(cs) = [k \in 1 .. Len(w) |-> w[UltimoAlias(k, Len(w))]]
  BY DEF ColaPromovida
<1> HIDE DEF w
<1>5. Len(w) \in Nat
  BY <1>3, LenProperties
<1>6. \A k \in 1 .. Len(w) : UltimoAlias(k, Len(w)) \in 1 .. Len(w)
  <2> SUFFICES ASSUME NEW k \in 1 .. Len(w)
               PROVE  UltimoAlias(k, Len(w)) \in 1 .. Len(w)
    OBVIOUS
  <2>1. (Len(w) - k) % NENV \in 0 .. (Len(w) - k)
    BY <1>5, ModBound
  <2> QED
    BY <1>5, <2>1 DEF UltimoAlias
<1>7. ColaPromovida(cs) \in [1 .. Len(w) -> S]
  BY <1>3, <1>4, <1>6, ElementOfSeq
<1>8. ColaPromovida(cs) \in Seq(S) /\ Len(ColaPromovida(cs)) = Len(w)
  BY <1>5, <1>7, FunctionIsSeq
<1>9. <<>> \in Seq(S) /\ Len(<<>>) = 0
  BY EmptySeq
<1> QED
  BY <1>3, <1>5, <1>8, <1>9 DEF Promover, Entradas, Colas, COLAS_MAXIMAS

-----------------------------------------------------------------------------
\* The invariant.

ConCurenv == {"trap", "ret", "resume", "user", "spin_user"}

HaltedIsMarked == \A c \in CPUs : pc[c] = "halted" <=> cpu_status[c] = "HALTED"

CurenvIsSet == \A c \in CPUs : pc[c] \in ConCurenv => curenv[c] \in Slots

KInv == TypeOK /\ LockHeldInKernel /\ NoPanic /\ HaltedIsMarked /\ CurenvIsSet

-----------------------------------------------------------------------------
\* unlock_kernel by the CPU that holds the lock never panics.
LEMMA LiberaProperties ==
    ASSUME NEW c \in CPUs, NEW p, kernel_lock = c, Libera(c, p)
    PROVE  kernel_lock' = NULL /\ pc' = [pc EXCEPT ![c] = p]
  BY DEF Libera, Goto

\* envid2env finds environments of the table.
LEMMA Envid2envIsSlot ==
    ASSUME TypeOK, NEW c \in CPUs, NEW id, NEW checkperm
    PROVE  Envid2env(c, id, checkperm) \subseteq Slots
  BY DEF Envid2env, TypeOK, NULL

\* env_alloc keeps the types of what it writes.
LEMMA EnvAllocTypes ==
    ASSUME TypeOK, NEW c \in CPUs, NEW parent_id \in Slots \X (0 .. MAXGEN),
           NEW status \in Statuses, EnvAlloc(c, parent_id, status)
    PROVE  /\ env_status' \in [Slots -> Statuses]
           /\ generacion' \in [Slots -> 0 .. MAXGEN]
           /\ env_parent_id' \in [Slots -> Slots \X (0 .. MAXGEN)]
           /\ env_ipc_recving' \in [Slots -> BOOLEAN]
           /\ env_free_list' \in Seq(Slots)
           /\ cola_actual' \in [Slots -> Colas]
           /\ colas' \in [Colas -> Seq(EnvIds)]
<1> DEFINE e     == Head(env_free_list)
           id    == <<e, SiguienteGeneracion(e)>>
           padre == Envid2env(c, parent_id, FALSE)
           cola  == IF padre = {} THEN 0
                    ELSE cola_actual[CHOOSE p \in padre : TRUE]
<1>1. e \in Slots /\ Tail(env_free_list) \in Seq(Slots)
  BY HeadTailProperties DEF EnvAlloc, TypeOK
<1>2. SiguienteGeneracion(e) \in 1 .. MAXGEN
  BY <1>1, KernelAssumption DEF SiguienteGeneracion, TypeOK
<1>3. id \in EnvIds
  BY <1>1, <1>2 DEF EnvIds
<1>4. cola \in Colas
  <2>1. CASE padre = {}
    BY <2>1 DEF Colas, COLAS_MAXIMAS
  <2>2. CASE padre # {}
    <3>1. (CHOOSE p \in padre : TRUE) \in padre
      BY <2>2
    <3>2. (CHOOSE p \in padre : TRUE) \in Slots
      BY <3>1, Envid2envIsSlot
    <3> QED
      BY <2>2, <3>2 DEF TypeOK
  <2> QED
    BY <2>1, <2>2
<1>5. /\ generacion' = [generacion EXCEPT ![e] = SiguienteGeneracion(e)]
      /\ env_parent_id' = [env_parent_id EXCEPT ![e] = parent_id]
      /\ env_status' = [env_status EXCEPT ![e] = status]
      /\ env_ipc_recving' = [env_ipc_recving EXCEPT ![e] = FALSE]
      /\ env_free_list' = Tail(env_free_list)
      /\ \/ /\ cola_actual' = [cola_actual EXCEPT ![e] = cola]
            /\ colas' = [colas EXCEPT ![cola] = Agregar(@, id)]
         \/ UNCHANGED <<cola_actual, colas>>
  BY DEF EnvAlloc
<1>6. colas' \in [Colas -> Seq(EnvIds)]
  <2>1. Agregar(colas[cola], id) \in Seq(EnvIds)
    BY <1>3, <1>4, AgregarProperties DEF TypeOK
  <2> HIDE DEF cola, id
  <2> QED
    BY <1>4, <1>5, <2>1 DEF TypeOK
<1>7. cola_actual' \in [Slots -> Colas]
  <2> HIDE DEF cola, id
  <2> QED
    BY <1>1, <1>4, <1>5 DEF TypeOK
<1> HIDE DEF e, id, cola
<1>8. generacion' \in [Slots -> 0 .. MAXGEN]
  BY <1>1, <1>2, <1>5 DEF TypeOK
<1>9. env_parent_id' \in [Slots -> Slots \X (0 .. MAXGEN)]
  BY <1>1, <1>5 DEF TypeOK
<1>10. env_status' \in [Slots -> Statuses]
  BY <1>1, <1>5 DEF TypeOK
<1>11. env_ipc_recving' \in [Slots -> BOOLEAN]
  BY <1>1, <1>5 DEF TypeOK
<1> QED
  BY <1>1, <1>5, <1>6, <1>7, <1>8, <1>9, <1>10, <1>11

-----------------------------------------------------------------------------
\* The control part of KInv: everything it says of pc, curenv, cpu_status and
\* kernel_lock.
ControlInv ==
    /\ curenv \in [CPUs -> Slots \cup {NULL}]
    /\ cpu_status \in [CPUs -> {"UNUSED", "STARTED", "HALTED"}]
    /\ kernel_lock \in CPUs \cup {NULL}
    /\ pc \in [CPUs -> Points]
    /\ LockHeldInKernel /\ NoPanic /\ HaltedIsMarked /\ CurenvIsSet

\* A CPU that stays in the kernel, lock in hand.
LEMMA StaysInKernel ==
    ASSUME ControlInv, NEW c \in CPUs, NEW p \in InKernel \ {"boot"},
           pc[c] \in InKernel, pc' = [pc EXCEPT ![c] = p],
           UNCHANGED <<cpu_status, kernel_lock>>,
           \/ UNCHANGED curenv /\ (p \in ConCurenv => pc[c] \in ConCurenv)
           \/ curenv' = [curenv EXCEPT ![c] = NULL] /\ p \notin ConCurenv
    PROVE  ControlInv'
<1>1. p \in Points /\ p # "halted" /\ p # "panic"
  BY DEF Points, InKernel, Spinning
<1>2. pc[c] # "halted"
  BY DEF InKernel
<1>3. pc' \in [CPUs -> Points] /\ curenv' \in [CPUs -> Slots \cup {NULL}]
  BY <1>1 DEF ControlInv
<1>4. LockHeldInKernel' /\ NoPanic'
  BY <1>1 DEF ControlInv, LockHeldInKernel, NoPanic
<1>5. HaltedIsMarked'
  BY <1>1, <1>2 DEF ControlInv, HaltedIsMarked
<1>6. CurenvIsSet'
  BY DEF ControlInv, CurenvIsSet
<1> QED
  BY <1>3, <1>4, <1>5, <1>6 DEF ControlInv

\* A CPU that moves without touching the lock.
LEMMA StaysOutside ==
    ASSUME ControlInv, NEW c \in CPUs, NEW p \in Points \ (InKernel \cup {"panic", "halted"}),
           pc[c] \notin InKernel, pc' = [pc EXCEPT ![c] = p],
           p \in ConCurenv => pc[c] \in ConCurenv,
           UNCHANGED <<curenv, kernel_lock>>,
           \/ UNCHANGED cpu_status /\ pc[c] # "halted"
           \/ cpu_status' = [cpu_status EXCEPT ![c] = "STARTED"]
    PROVE  ControlInv'
<1>1. pc' \in [CPUs -> Points]
      /\ cpu_status' \in [CPUs -> {"UNUSED", "STARTED", "HALTED"}]
  BY DEF ControlInv
<1>2. LockHeldInKernel' /\ NoPanic'
  BY DEF ControlInv, LockHeldInKernel, NoPanic
<1>3. HaltedIsMarked'
  BY DEF ControlInv, HaltedIsMarked
<1>4. CurenvIsSet'
  BY DEF ControlInv, CurenvIsSet
<1> QED
  BY <1>1, <1>2, <1>3, <1>4 DEF ControlInv

\* env_run by the CPU that holds the lock.
LEMMA EnvRunControl ==
    ASSUME ControlInv, NEW c \in CPUs, NEW e \in Slots, pc[c] \in InKernel,
           EnvRun(c, e)
    PROVE  ControlInv'
<1>1. kernel_lock = c
  BY DEF ControlInv, LockHeldInKernel
<1>2. /\ kernel_lock' = NULL
      /\ pc' = [pc EXCEPT ![c] = "resume"]
      /\ curenv' = [curenv EXCEPT ![c] = e]
      /\ UNCHANGED cpu_status
  BY <1>1, LiberaProperties DEF EnvRun
<1>3. "resume" \in Points /\ "resume" \notin InKernel
  BY DEF Points, InKernel
<1>4. NULL \notin CPUs
  BY KernelAssumption DEF NULL, CPUs
<1>5. /\ curenv' \in [CPUs -> Slots \cup {NULL}]
      /\ kernel_lock' \in CPUs \cup {NULL}
      /\ pc' \in [CPUs -> Points]
      /\ cpu_status' \in [CPUs -> {"UNUSED", "STARTED", "HALTED"}]
  BY <1>2, <1>3 DEF ControlInv
<1>6. \A d \in CPUs : pc[d] \in InKernel => d = c
  BY <1>1 DEF ControlInv, LockHeldInKernel
<1>7. LockHeldInKernel' /\ NoPanic'
  BY <1>2, <1>3, <1>4, <1>6 DEF ControlInv, LockHeldInKernel, NoPanic
<1>8. pc[c] # "halted"
  BY DEF InKernel
<1>9. HaltedIsMarked'
  BY <1>2, <1>8 DEF ControlInv, HaltedIsMarked
<1>10. CurenvIsSet'
  BY <1>2 DEF ControlInv, CurenvIsSet
<1> QED
  BY <1>5, <1>7, <1>9, <1>10 DEF ControlInv

\* sched_halt by the CPU that holds the lock.
LEMMA SchedHaltControl ==
    ASSUME ControlInv, NEW c \in CPUs, pc[c] \in InKernel, SchedHalt(c)
    PROVE  ControlInv'
<1>1. kernel_lock = c
  BY DEF ControlInv, LockHeldInKernel
<1>2. CASE /\ pc' = [pc EXCEPT ![c] = "monitor"]
           /\ UNCHANGED <<curenv, cpu_status, kernel_lock>>
  <2>1. "monitor" \in InKernel \ {"boot"} /\ "monitor" \notin ConCurenv
    BY DEF InKernel, ConCurenv
  <2> QED
    BY <1>2, <2>1, StaysInKernel
<1>3. CASE /\ curenv' = [curenv EXCEPT ![c] = NULL]
           /\ cpu_status' = [cpu_status EXCEPT ![c] = "HALTED"]
           /\ Libera(c, "halted")
  <2>1. kernel_lock' = NULL /\ pc' = [pc EXCEPT ![c] = "halted"]
    BY <1>1, <1>3, LiberaProperties
  <2>2. "halted" \in Points /\ "halted" \notin InKernel /\ "halted" \notin ConCurenv
    BY DEF Points, InKernel, ConCurenv
  <2>3. NULL \notin CPUs
    BY KernelAssumption DEF NULL, CPUs
  <2>4. \A d \in CPUs : pc[d] \in InKernel => d = c
    BY <1>1 DEF ControlInv, LockHeldInKernel
  <2>5. /\ curenv' \in [CPUs -> Slots \cup {NULL}]
        /\ kernel_lock' \in CPUs \cup {NULL}
        /\ pc' \in [CPUs -> Points]
        /\ cpu_status' \in [CPUs -> {"UNUSED", "STARTED", "HALTED"}]
    BY <1>3, <2>1, <2>2 DEF ControlInv
  <2>6. LockHeldInKernel' /\ NoPanic'
    BY <2>1, <2>2, <2>3, <2>4 DEF ControlInv, LockHeldInKernel, NoPanic
  <2>7. HaltedIsMarked'
    BY <1>3, <2>1 DEF ControlInv, HaltedIsMarked
  <2>8. CurenvIsSet'
    BY <1>3, <2>1, <2>2 DEF ControlInv, CurenvIsSet
  <2> QED
    BY <2>5, <2>6, <2>7, <2>8 DEF ControlInv
<1> QED
  BY <1>2, <1>3 DEF SchedHalt, Goto

\* lock_kernel returns: nobody was in the kernel, and now c is.
LEMMA LockKernelControl ==
    ASSUME ControlInv, NEW c \in CPUs, LockKernel(c)
    PROVE  ControlInv'
<1>1. /\ pc[c] \in Spinning /\ kernel_lock = NULL /\ kernel_lock' = c
      /\ UNCHANGED <<curenv, cpu_status>>
  BY DEF LockKernel
<1>2. PICK p \in {"boot", "trap", "yield"} :
        /\ pc' = [pc EXCEPT ![c] = p]
        /\ p = "trap" => pc[c] = "spin_user"
  BY <1>1 DEF LockKernel, Goto, Spinning
<1>3. p \in InKernel /\ p \in Points
  BY DEF InKernel, Points
<1>4. NULL \notin CPUs
  BY KernelAssumption DEF NULL, CPUs
<1>5. kernel_lock' \in CPUs \cup {NULL} /\ pc' \in [CPUs -> Points]
  BY <1>1, <1>2, <1>3 DEF ControlInv
<1>6. LockHeldInKernel' /\ NoPanic'
  BY <1>1, <1>2, <1>3, <1>4 DEF ControlInv, LockHeldInKernel, NoPanic
<1>7. pc[c] # "halted"
  BY <1>1 DEF Spinning
<1>8. HaltedIsMarked'
  BY <1>1, <1>2, <1>7 DEF ControlInv, HaltedIsMarked
<1>9. CurenvIsSet'
  BY <1>1, <1>2 DEF ControlInv, CurenvIsSet, ConCurenv
<1> QED
  BY <1>1, <1>5, <1>6, <1>8, <1>9 DEF ControlInv

-----------------------------------------------------------------------------
\* The rest of the type invariant: the environment table and the queues.
TableInv ==
    /\ env_status \in [Slots -> Statuses]
    /\ generacion \in [Slots -> 0 .. MAXGEN]
    /\ env_parent_id \in [Slots -> Slots \X (0 .. MAXGEN)]
    /\ env_ipc_recving \in [Slots -> BOOLEAN]
    /\ env_cpunum \in [Slots -> CPUs]
    /\ env_free_list \in Seq(Slots)
    /\ cola_actual \in [Slots -> Colas]
    /\ colas \in [Colas -> Seq(EnvIds)]
    /\ ejecuciones_totales \in 0 .. MAX_EJECUCIONES_MLFQ

LEMMA KInvSplit ==
    (KInv => TableInv /\ ControlInv) /\ (TableInv' /\ ControlInv' => KInv')
  BY DEF KInv, TypeOK, TableInv, ControlInv

\* env_run and sched_halt give statuses that exist.
LEMMA EnvRunStatus ==
    ASSUME TableInv, NEW c, NEW e, EnvRun(c, e) \/ SchedHalt(c)
    PROVE  env_status' \in [Slots -> Statuses]
  BY DEF TableInv, EnvRun, SchedHalt, Statuses

\* env_free frees.
LEMMA EnvFreeTypes ==
    ASSUME TableInv, NEW e \in Slots, EnvFree(e)
    PROVE  env_status' \in [Slots -> Statuses] /\ env_free_list' \in Seq(Slots)
<1>1. "FREE" \in Statuses
  BY DEF Statuses
<1>2. <<e>> \in Seq(Slots)
  OBVIOUS
<1>3. env_free_list' \in Seq(Slots)
  BY <1>2, ConcatProperties DEF TableInv, EnvFree
<1> QED
  BY <1>1, <1>3 DEF TableInv, EnvFree

\* Boot: mp_main, env_create, the end of i386_init.
LEMMA BootStep ==
    ASSUME KInv, NEW c \in CPUs, Boot(c)
    PROVE  KInv'
<1> USE KInvSplit
<1>1. CASE MpMain(c)
  <2>1. TableInv'
    BY <1>1 DEF MpMain, TableInv, allocVars, ipcVars, mlfqVars
  <2>2. "spin_sched" \in Points \ (InKernel \cup {"panic", "halted"})
        /\ "spin_sched" \notin ConCurenv /\ "off" \notin InKernel
    BY DEF Points, InKernel, Spinning, ConCurenv
  <2>3. ControlInv'
    BY <1>1, <2>2, StaysOutside DEF MpMain, Goto
  <2> QED
    BY <2>1, <2>3
<1>2. CASE EnvCreate(c)
  <2>1. EnvAlloc(c, ID_0, "RUNNABLE") /\ "RUNNABLE" \in Statuses
    BY <1>2 DEF EnvCreate, Statuses
  <2>2. ID_0 \in Slots \X (0 .. MAXGEN)
    BY NENVAssumption, KernelAssumption DEF ID_0, Slots
  <2>3. TableInv'
    BY <1>2, <2>1, <2>2, EnvAllocTypes DEF EnvCreate, TableInv, KInv
  <2>4. ControlInv'
    BY <1>2 DEF EnvCreate, cpuVars, ControlInv, LockHeldInKernel, NoPanic,
       HaltedIsMarked, CurenvIsSet
  <2> QED
    BY <2>3, <2>4
<1>3. CASE BootDone(c)
  <2>1. TableInv'
    BY <1>3 DEF BootDone, TableInv, allocVars, ipcVars, mlfqVars
  <2>2. "yield" \in InKernel \ {"boot"} /\ "yield" \notin ConCurenv
        /\ "boot" \in InKernel
    BY DEF InKernel, ConCurenv
  <2>3. ControlInv'
    BY <1>3, <2>2, StaysInKernel DEF BootDone, Goto
  <2> QED
    BY <2>1, <2>3
<1> QED
  BY <1>1, <1>2, <1>3 DEF Boot

\* trap(), lock_kernel, the timer that wakes a halted CPU.
LEMMA EntryStep ==
    ASSUME KInv, NEW c \in CPUs,
           TrapUser(c) \/ TimerHalted(c) \/ LockKernel(c) \/ Monitor(c)
    PROVE  KInv'
<1> USE KInvSplit
<1>0. {"spin_user", "spin_sched"} \subseteq Points \ (InKernel \cup {"panic", "halted"})
      /\ "user" \notin InKernel /\ "halted" \notin InKernel
      /\ "user" \in ConCurenv /\ "spin_sched" \notin ConCurenv
  BY DEF Points, InKernel, Spinning, ConCurenv
<1>1. TableInv'
  BY DEF TrapUser, TimerHalted, LockKernel, Monitor, vars, TableInv, allocVars,
     ipcVars, mlfqVars
<1>2. CASE TrapUser(c)
  <2>1. cpu_status[c] # "HALTED"
    BY <1>2 DEF TrapUser, ControlInv, HaltedIsMarked
  <2>2. ControlInv'
    BY <1>0, <1>2, <2>1, StaysOutside DEF TrapUser, Goto
  <2> QED
    BY <1>1, <2>2
<1>3. CASE TimerHalted(c)
  <2>1. cpu_status[c] = "HALTED"
    BY <1>3 DEF TimerHalted, ControlInv, HaltedIsMarked
  <2>2. ControlInv'
    BY <1>0, <1>3, <2>1, StaysOutside DEF TimerHalted, Goto
  <2> QED
    BY <1>1, <2>2
<1>4. CASE LockKernel(c)
  BY <1>1, <1>4, LockKernelControl
<1>5. CASE Monitor(c)
  BY <1>1, <1>5 DEF Monitor, vars, ControlInv, LockHeldInKernel, NoPanic,
     HaltedIsMarked, CurenvIsSet
<1> QED
  BY <1>2, <1>3, <1>4, <1>5

\* The end of a trap: the zombie is reaped, curenv goes on, env_run returns to
\* user mode.
LEMMA ReturnStep ==
    ASSUME KInv, NEW c \in CPUs, Reap(c) \/ TrapReturn(c) \/ Resume(c)
    PROVE  KInv'
<1> USE KInvSplit
<1>0. /\ "yield" \in InKernel \ {"boot"} /\ "yield" \notin ConCurenv
      /\ "trap" \in InKernel /\ "ret" \in InKernel
      /\ {"trap", "ret", "resume", "user"} \subseteq ConCurenv
      /\ "resume" \notin InKernel
      /\ "user" \in Points \ (InKernel \cup {"panic", "halted"})
  BY DEF Points, InKernel, Spinning, ConCurenv
<1>1. CASE Reap(c)
  <2>1. curenv[c] \in Slots /\ EnvFree(curenv[c])
    BY <1>0, <1>1 DEF Reap, ControlInv, CurenvIsSet
  <2>2. TableInv'
    BY <1>1, <2>1, EnvFreeTypes DEF Reap, TableInv, allocVars, ipcVars, mlfqVars
  <2>3. ControlInv'
    BY <1>0, <1>1, StaysInKernel DEF Reap, Goto
  <2> QED
    BY <2>2, <2>3
<1>2. CASE TrapReturn(c)
  <2>1. curenv[c] \in Slots
    BY <1>0, <1>2 DEF TrapReturn, ControlInv, CurenvIsSet
  <2>2. TableInv'
    BY <1>2, EnvRunStatus DEF TrapReturn, TableInv, allocVars, ipcVars, mlfqVars
  <2>3. CASE EnvRun(c, curenv[c])
    BY <1>0, <1>2, <2>1, <2>2, <2>3, EnvRunControl DEF TrapReturn
  <2>4. CASE Goto(c, "yield") /\ UNCHANGED <<curenv, cpu_status, kernel_lock>>
    BY <1>0, <1>2, <2>2, <2>4, StaysInKernel DEF TrapReturn, Goto
  <2> QED
    BY <1>2, <2>3, <2>4 DEF TrapReturn
<1>3. CASE Resume(c)
  <2>1. curenv[c] \in Slots
    BY <1>0, <1>3 DEF Resume, ControlInv, CurenvIsSet
  <2>2. TableInv'
    BY <1>3, <2>1 DEF Resume, TableInv, allocVars, ipcVars, mlfqVars
  <2>3. pc[c] # "halted"
    BY <1>3 DEF Resume
  <2>4. ControlInv'
    BY <1>0, <1>3, <2>3, StaysOutside DEF Resume, Goto
  <2> QED
    BY <2>2, <2>4
<1> QED
  BY <1>1, <1>2, <1>3

\* The trap handlers.
LEMMA TrapStep ==
    ASSUME KInv, NEW c \in CPUs, Trap(c)
    PROVE  KInv'
<1> USE KInvSplit
<1>0. /\ {"yield", "ret"} \subseteq InKernel \ {"boot"}
      /\ "yield" \notin ConCurenv /\ "ret" \in ConCurenv /\ "trap" \in ConCurenv
      /\ "trap" \in InKernel
      /\ {"RUNNABLE", "NOT_RUNNABLE", "DYING"} \subseteq Statuses
  BY DEF InKernel, ConCurenv, Statuses
<1>1. EnServicio(c)
  BY DEF Trap, Timer, OtherTrap, PageFaultUpcall, DestroySelf, DestroyChild,
     Exofork, SetStatus, IpcRecv, IpcRecvInvalid, IpcTrySend, AsignarPrioridad
<1>2. pc[c] = "trap" /\ curenv[c] \in Slots
  BY <1>0, <1>1 DEF EnServicio, ControlInv, CurenvIsSet
<1>3. \A id, b : Envid2env(c, id, b) \subseteq Slots
  BY Envid2envIsSlot DEF KInv
<1>4. ASSUME Goto(c, "yield") \/ Goto(c, "ret"),
             UNCHANGED <<cpu_status, kernel_lock>>,
             \/ UNCHANGED curenv
             \/ Goto(c, "yield") /\ curenv' = [curenv EXCEPT ![c] = NULL]
      PROVE  ControlInv'
  <2>1. CASE Goto(c, "yield")
    BY <1>0, <1>2, <1>4, <2>1, StaysInKernel DEF Goto
  <2>2. CASE Goto(c, "ret") /\ UNCHANGED curenv
    BY <1>0, <1>2, <1>4, <2>2, StaysInKernel DEF Goto
  <2> QED
    BY <1>4, <2>1, <2>2
<1>5. CASE Timer(c) \/ OtherTrap(c)
  BY <1>4, <1>5 DEF Timer, OtherTrap, TableInv, allocVars, ipcVars, mlfqVars
<1>6. CASE PageFaultUpcall(c)
  <2>1. TableInv'
    BY <1>6, EnvRunStatus DEF PageFaultUpcall, TableInv, allocVars, ipcVars,
       mlfqVars
  <2> QED
    BY <1>0, <1>2, <1>6, <2>1, EnvRunControl DEF PageFaultUpcall
<1>7. CASE DestroySelf(c)
  <2>1. TableInv'
    BY <1>2, <1>7, EnvFreeTypes DEF DestroySelf, TableInv, allocVars, ipcVars,
       mlfqVars
  <2> QED
    BY <1>4, <1>7, <2>1 DEF DestroySelf
<1>8. CASE DestroyChild(c)
  <2>1. PICK e \in Slots :
           \/ /\ env_status' = [env_status EXCEPT ![e] = "DYING"]
              /\ UNCHANGED env_free_list
           \/ EnvFree(e)
    BY <1>3, <1>8 DEF DestroyChild
  <2>2. env_status' \in [Slots -> Statuses] /\ env_free_list' \in Seq(Slots)
    <3>1. CASE EnvFree(e)
      BY <3>1, EnvFreeTypes
    <3>2. CASE /\ env_status' = [env_status EXCEPT ![e] = "DYING"]
               /\ UNCHANGED env_free_list
      BY <1>0, <3>2 DEF TableInv
    <3> QED
      BY <2>1, <3>1, <3>2
  <2>3. TableInv'
    BY <1>8, <2>2 DEF DestroyChild, TableInv, allocVars, ipcVars, mlfqVars
  <2> QED
    BY <1>4, <1>8, <2>3 DEF DestroyChild
<1>9. CASE Exofork(c)
  <2>1. IdDe(curenv[c]) \in Slots \X (0 .. MAXGEN)
    BY <1>2 DEF TableInv, IdDe
  <2>2. TableInv'
    BY <1>0, <1>9, <2>1, EnvAllocTypes DEF Exofork, TableInv, KInv
  <2> QED
    BY <1>4, <1>9, <2>2 DEF Exofork
<1>10. CASE SetStatus(c)
  <2>1. PICK e \in Slots, status \in {"RUNNABLE", "NOT_RUNNABLE"} :
           env_status' = [env_status EXCEPT ![e] = status]
    BY <1>3, <1>10 DEF SetStatus
  <2>2. TableInv'
    BY <1>0, <1>10, <2>1 DEF SetStatus, TableInv, allocVars, ipcVars, mlfqVars
  <2> QED
    BY <1>4, <1>10, <2>2 DEF SetStatus
<1>11. CASE IpcRecv(c) \/ IpcRecvInvalid(c)
  <2>1. TableInv'
    <3>1. CASE IpcRecv(c)
      BY <1>0, <1>2, <3>1 DEF IpcRecv, TableInv, Statuses, allocVars, mlfqVars
    <3>2. CASE IpcRecvInvalid(c)
      BY <1>0, <1>2, <3>2 DEF IpcRecvInvalid, TableInv, allocVars, mlfqVars
    <3> QED
      BY <1>11, <3>1, <3>2
  <2> QED
    BY <1>4, <1>11, <2>1 DEF IpcRecv, IpcRecvInvalid
<1>12. CASE IpcTrySend(c)
  <2>1. PICK e \in Slots :
           /\ env_ipc_recving' = [env_ipc_recving EXCEPT ![e] = FALSE]
           /\ env_status' = [env_status EXCEPT ![e] = "RUNNABLE"]
    BY <1>3, <1>12 DEF IpcTrySend
  <2>2. TableInv'
    BY <1>0, <1>12, <2>1 DEF IpcTrySend, TableInv, allocVars, mlfqVars
  <2> QED
    BY <1>4, <1>12, <2>2 DEF IpcTrySend
<1>13. CASE AsignarPrioridad(c)
  <2>1. PICK e \in Slots, id \in EnvIds, prioridad \in Colas :
           /\ colas' = [[colas EXCEPT ![cola_actual[e]] = Eliminar(@, id)]
                          EXCEPT ![prioridad] = Agregar(@, id)]
           /\ cola_actual' = [cola_actual EXCEPT ![e] = prioridad]
    BY <1>3, <1>13 DEF AsignarPrioridad
  <2>2. cola_actual' \in [Slots -> Colas]
    BY <2>1 DEF TableInv
  <2> DEFINE cs == [colas EXCEPT ![cola_actual[e]] = Eliminar(@, id)]
  <2>3. Eliminar(colas[cola_actual[e]], id) \in Seq(EnvIds)
    BY EliminarProperties DEF TableInv
  <2>4. cs \in [Colas -> Seq(EnvIds)]
    <3> HIDE DEF Eliminar
    <3> QED
      BY <2>3 DEF TableInv
  <2>5. colas' = [cs EXCEPT ![prioridad] = Agregar(@, id)]
    BY <2>1
  <2> HIDE DEF cs
  <2>6. Agregar(cs[prioridad], id) \in Seq(EnvIds)
    BY <2>4, AgregarProperties
  <2>7. colas' \in [Colas -> Seq(EnvIds)]
    BY <2>4, <2>5, <2>6
  <2>8. TableInv'
    BY <1>13, <2>2, <2>7 DEF AsignarPrioridad, TableInv, allocVars, ipcVars
  <2> QED
    BY <1>4, <1>13, <2>8 DEF AsignarPrioridad
<1> QED
  BY <1>5, <1>6, <1>7, <1>8, <1>9, <1>10, <1>11, <1>12, <1>13 DEF Trap

\* sched_yield of either build.
LEMMA SchedStep ==
    ASSUME KInv, NEW c \in CPUs, SchedYield(c)
    PROVE  KInv'
<1> USE KInvSplit
<1>0. "yield" \in InKernel /\ 0 \in 0 .. MAX_EJECUCIONES_MLFQ
  BY KernelAssumption DEF InKernel
<1>1. pc[c] \in InKernel
  BY <1>0 DEF SchedYield, RoundRobin, PrioridadMLFQ
<1>2. ASSUME NEW e, Corre(c), e = curenv[c] PROVE e \in Slots
  BY <1>2 DEF Corre, ControlInv
<1>3. CASE RoundRobin(c)
  <2>1. TableInv'
    BY <1>3, EnvRunStatus DEF RoundRobin, TableInv, allocVars, ipcVars, mlfqVars
  <2>2. (\E e \in Slots : EnvRun(c, e)) \/ SchedHalt(c)
    BY <1>2, <1>3 DEF RoundRobin
  <2> QED
    BY <1>1, <2>1, <2>2, EnvRunControl, SchedHaltControl
<1>4. CASE PrioridadMLFQ(c)
  <2> DEFINE promueve == ejecuciones_totales >= MAX_EJECUCIONES_MLFQ
             cs  == IF promueve THEN Promover(colas) ELSE colas
             ca  == IF promueve THEN ColaActualPromovida ELSE cola_actual
             tot == IF promueve THEN 0 ELSE ejecuciones_totales
  <2>1. cs \in [Colas -> Seq(EnvIds)]
    BY PromoverProperties DEF TableInv
  <2>2. ca \in [Slots -> Colas]
    <3>1. 0 \in Colas
      BY DEF Colas, COLAS_MAXIMAS
    <3> QED
      BY <3>1 DEF TableInv, ColaActualPromovida
  <2>3. tot \in 0 .. MAX_EJECUCIONES_MLFQ /\ tot + 1 \in 0 .. MAX_EJECUCIONES_MLFQ
    BY KernelAssumption DEF TableInv
  <2>4. \/ \E q \in Colas : \E j \in 1 .. Len(cs[q]) :
             LET id    == cs[q][j]
                 nueva == IF q >= COLAS_MAXIMAS - 1 THEN COLAS_MAXIMAS - 1
                          ELSE q + 1
             IN  /\ colas' = [[cs EXCEPT ![q] = Borrar(@, j)]
                                EXCEPT ![nueva] = Agregar(@, id)]
                 /\ cola_actual' = [ca EXCEPT ![ENVX(id)] = nueva]
                 /\ ejecuciones_totales' = tot + 1
                 /\ EnvRun(c, ENVX(id))
        \/ /\ colas' = cs /\ cola_actual' = ca
           /\ \/ ejecuciones_totales' = tot + 1 /\ Corre(c) /\ EnvRun(c, curenv[c])
              \/ ejecuciones_totales' = tot /\ SchedHalt(c)
    BY <1>4 DEF PrioridadMLFQ
  <2>5. UNCHANGED <<generacion, env_parent_id, env_ipc_recving, env_cpunum,
                    env_free_list>>
    BY <1>4 DEF PrioridadMLFQ, allocVars, ipcVars
  <2> HIDE DEF cs, ca, tot
  <2>6. CASE /\ colas' = cs /\ cola_actual' = ca
             /\ \/ ejecuciones_totales' = tot + 1 /\ Corre(c) /\ EnvRun(c, curenv[c])
                \/ ejecuciones_totales' = tot /\ SchedHalt(c)
    <3>1. TableInv'
      BY <2>1, <2>2, <2>3, <2>5, <2>6, EnvRunStatus DEF TableInv
    <3>2. (\E e \in Slots : EnvRun(c, e)) \/ SchedHalt(c)
      BY <1>2, <2>6
    <3> QED
      BY <1>1, <3>1, <3>2, EnvRunControl, SchedHaltControl
  <2>7. ASSUME NEW q \in Colas, NEW j \in 1 .. Len(cs[q]), NEW id, NEW nueva,
               id = cs[q][j],
               nueva = IF q >= COLAS_MAXIMAS - 1 THEN COLAS_MAXIMAS - 1 ELSE q + 1,
               colas' = [[cs EXCEPT ![q] = Borrar(@, j)]
                           EXCEPT ![nueva] = Agregar(@, id)],
               cola_actual' = [ca EXCEPT ![ENVX(id)] = nueva],
               ejecuciones_totales' = tot + 1,
               EnvRun(c, ENVX(id))
        PROVE  KInv'
    <3>1. cs[q] \in Seq(EnvIds) /\ id \in EnvIds
      BY <2>1, <2>7, ElementOfSeq
    <3>2. nueva \in Colas
      BY <2>7 DEF Colas, COLAS_MAXIMAS
    <3>3. ENVX(id) \in Slots
      BY <3>1 DEF ENVX, EnvIds
    <3> DEFINE sin == [cs EXCEPT ![q] = Borrar(@, j)]
    <3>4. Borrar(cs[q], j) \in Seq(EnvIds)
      BY <3>1, BorrarProperties
    <3>5. sin \in [Colas -> Seq(EnvIds)]
      BY <2>1, <3>4
    <3>6. colas' = [sin EXCEPT ![nueva] = Agregar(@, id)]
      BY <2>7
    <3> HIDE DEF sin
    <3>7. Agregar(sin[nueva], id) \in Seq(EnvIds)
      BY <3>1, <3>2, <3>5, AgregarProperties
    <3>8. colas' \in [Colas -> Seq(EnvIds)]
      BY <3>5, <3>6, <3>7
    <3>9. cola_actual' \in [Slots -> Colas]
      BY <2>2, <2>7, <3>2
    <3>10. TableInv'
      BY <2>3, <2>5, <2>7, <3>8, <3>9, EnvRunStatus DEF TableInv
    <3> QED
      BY <1>1, <2>7, <3>3, <3>10, EnvRunControl
  <2> QED
    BY <2>4, <2>6, <2>7
<1> QED
  BY <1>3, <1>4 DEF SchedYield

-----------------------------------------------------------------------------
\* KInv is an invariant of the kernel, whatever its programs do: the types, the
\* lock around every handler, no assertion of spinlock.c, and the two facts that
\* make them inductive.
THEOREM KernelInvariant == Spec => []KInv
<1>1. Init => KInv
  <2> SUFFICES ASSUME Init PROVE KInv
    OBVIOUS
  <2>1. BSP \in CPUs /\ NULL \notin CPUs /\ 0 \in CPUs
    BY KernelAssumption DEF BSP, CPUs, NULL
  <2>2. /\ "FREE" \in Statuses /\ 0 \in Colas
        /\ ID_0 \in Slots \X (0 .. MAXGEN) /\ 0 \in 0 .. MAXGEN
    BY KernelAssumption, NENVAssumption
       DEF Statuses, Colas, COLAS_MAXIMAS, ID_0, Slots
  <2>3. env_free_list \in Seq(Slots)
    <3>1. [k \in 1 .. NENV |-> k - 1] \in [1 .. NENV -> Slots]
      BY NENVAssumption DEF Slots
    <3> QED
      BY <3>1, NENVAssumption, FunctionIsSeq DEF Init
  <2>4. colas \in [Colas -> Seq(EnvIds)]
    BY EmptySeq DEF Init
  <2>5. ejecuciones_totales \in 0 .. MAX_EJECUCIONES_MLFQ
    BY KernelAssumption DEF Init
  <2>6. /\ curenv \in [CPUs -> Slots \cup {NULL}]
        /\ cpu_status \in [CPUs -> {"UNUSED", "STARTED", "HALTED"}]
        /\ kernel_lock \in CPUs \cup {NULL}
    BY DEF Init
  <2>7. pc \in [CPUs -> Points]
    BY DEF Init, Points, Spinning
  <2>8. LockHeldInKernel /\ NoPanic
    BY <2>1 DEF Init, LockHeldInKernel, NoPanic, InKernel
  <2>9. HaltedIsMarked
    BY DEF Init, HaltedIsMarked
  <2>10. CurenvIsSet
    BY DEF Init, CurenvIsSet, ConCurenv
  <2>11. TypeOK
    BY <2>1, <2>2, <2>3, <2>4, <2>5, <2>6, <2>7 DEF Init, TypeOK
  <2> QED
    BY <2>8, <2>9, <2>10, <2>11 DEF KInv
<1>2. KInv /\ [Next]_vars => KInv'
  <2> SUFFICES ASSUME KInv, [Next]_vars PROVE KInv'
    OBVIOUS
  <2>1. CASE UNCHANGED vars
    BY <2>1 DEF vars, KInv, TypeOK, LockHeldInKernel, NoPanic, HaltedIsMarked,
       CurenvIsSet
  <2>2. ASSUME NEW c \in CPUs, KernelStep(c) PROVE KInv'
    BY <2>2, BootStep, ReturnStep, SchedStep DEF KernelStep
  <2> QED
    BY <2>1, <2>2, TrapStep, EntryStep DEF Next
<1> QED
  BY <1>1, <1>2, PTL DEF Spec

\* Every variable keeps its type, for every size of the tables and both builds;
\* in particular the queues only ever hold ids, and ejecuciones_totales never
\* passes MAX_EJECUCIONES_MLFQ.
THEOREM KernelTypes == Spec => []TypeOK
<1>1. KInv => TypeOK
  BY DEF KInv
<1> QED
  BY <1>1, KernelInvariant, PTL

\* A CPU is in the kernel exactly while it holds the big lock, whatever way it
\* came in: from user mode, from mp_main, or from the halt loop.
THEOREM KernelLockHeld == Spec => []LockHeldInKernel
<1>1. KInv => LockHeldInKernel
  BY DEF KInv
<1> QED
  BY <1>1, KernelInvariant, PTL

\* The assertions of spinlock.c hold: the cpu_status exchange of trap() takes the
\* lock exactly once.
THEOREM KernelNoPanic == Spec => []NoPanic
<1>1. KInv => NoPanic
  BY DEF KInv
<1> QED
  BY <1>1, KernelInvariant, PTL

-----------------------------------------------------------------------------
\* unlock_kernel is the only way out of the kernel.
LEMMA LeaveLock ==
    ASSUME KInv, NEW c \in CPUs, pc[c] \in InKernel,
           (\E e \in Slots : EnvRun(c, e)) \/ SchedHalt(c)
    PROVE  \/ Lock!Leave(c)
           \/ UNCHANGED [d \in CPUs |-> Fase(pc[d])]
<1>1. kernel_lock = c
  BY DEF KInv, LockHeldInKernel
<1>2. PICK p \in {"resume", "halted", "monitor"} : pc' = [pc EXCEPT ![c] = p]
  BY <1>1, LiberaProperties DEF EnvRun, SchedHalt, Goto
<1>3. pc \in [CPUs -> Points]
  BY DEF KInv, TypeOK
<1>4. CASE p = "monitor"
  BY <1>2, <1>3, <1>4 DEF Fase, InKernel, Spinning
<1>5. CASE p # "monitor"
  BY <1>2, <1>3, <1>5 DEF Lock!Leave, Fase, InKernel, Spinning
<1> QED
  BY <1>4, <1>5

\* The kernel uses the lock as spinlock.h promises it: pc says who waits for it
\* and who is inside, and every action is a Request, an Enter, a Leave or a
\* stutter of KernelLock.
THEOREM KernelImplementsLock == Spec => LockSpec
<1> DEFINE owner == [c \in CPUs |-> Fase(pc[c])]
<1>1. Init => Lock!Init
  BY DEF Init, Lock!Init, Fase, Spinning, InKernel
<1>2. KInv /\ [Next]_vars => [Lock!Next]_owner
  <2> SUFFICES ASSUME KInv, [Next]_vars PROVE Lock!Next \/ UNCHANGED owner
    BY DEF Lock!Next
  <2>0. pc \in [CPUs -> Points]
    BY DEF KInv, TypeOK
  <2>1. CASE UNCHANGED vars
    BY <2>1 DEF vars
  <2>2. ASSUME NEW c \in CPUs, MpMain(c) \/ TrapUser(c) \/ TimerHalted(c)
        PROVE  Lock!Next
    <3>1. pc[c] = "user" => cpu_status[c] # "HALTED"
      BY DEF KInv, HaltedIsMarked
    <3>2. pc[c] = "halted" => cpu_status[c] = "HALTED"
      BY DEF KInv, HaltedIsMarked
    <3>3. Lock!Request(c)
      BY <2>0, <2>2, <3>1, <3>2 DEF MpMain, TrapUser, TimerHalted, Goto,
         Lock!Request, Fase, Spinning, InKernel
    <3> QED
      BY <3>3 DEF Lock!Next
  <2>3. ASSUME NEW c \in CPUs, LockKernel(c) PROVE Lock!Next
    <3>1. \A d \in CPUs : pc[d] \notin InKernel
      <4>1. NULL \notin CPUs
        BY KernelAssumption DEF NULL, CPUs
      <4> QED
        BY <2>3, <4>1 DEF LockKernel, KInv, LockHeldInKernel
    <3>2. PICK p \in InKernel : pc' = [pc EXCEPT ![c] = p]
      BY <2>3 DEF LockKernel, Goto, Spinning, InKernel
    <3>3. pc[c] \in Spinning
      BY <2>3 DEF LockKernel
    <3>4. Lock!Enter(c)
      BY <2>0, <3>1, <3>2, <3>3 DEF Lock!Enter, Fase, Spinning, InKernel
    <3> QED
      BY <3>4 DEF Lock!Next
  <2>4. ASSUME NEW c \in CPUs, EnvCreate(c) \/ Monitor(c) PROVE UNCHANGED owner
    BY <2>4 DEF EnvCreate, Monitor, cpuVars, vars
  <2>5. ASSUME NEW c \in CPUs, pc[c] \in InKernel, NEW p \in InKernel, Goto(c, p)
        PROVE  UNCHANGED owner
    BY <2>0, <2>5 DEF Goto, Fase, InKernel, Spinning
  <2>6. ASSUME NEW c \in CPUs, BootDone(c) \/ Reap(c) PROVE UNCHANGED owner
    BY <2>5, <2>6 DEF BootDone, Reap, InKernel
  <2>7. ASSUME NEW c \in CPUs, Resume(c) PROVE UNCHANGED owner
    BY <2>0, <2>7 DEF Resume, Goto, Fase, InKernel, Spinning
  <2>8. ASSUME NEW c \in CPUs, Trap(c), ~PageFaultUpcall(c) PROVE UNCHANGED owner
    <3>1. pc[c] = "trap" /\ (Goto(c, "yield") \/ Goto(c, "ret"))
      BY <2>8 DEF Trap, EnServicio, Timer, OtherTrap, DestroySelf, DestroyChild,
         Exofork, SetStatus, IpcRecv, IpcRecvInvalid, IpcTrySend, AsignarPrioridad
    <3> QED
      BY <2>5, <3>1 DEF InKernel
  <2>9. ASSUME NEW c \in CPUs, PageFaultUpcall(c) \/ TrapReturn(c) \/ SchedYield(c)
        PROVE  Lock!Next \/ UNCHANGED owner
    <3>1. pc[c] \in InKernel
      BY <2>9 DEF PageFaultUpcall, EnServicio, TrapReturn, SchedYield,
         RoundRobin, PrioridadMLFQ, InKernel
    <3>2. pc[c] \in {"trap", "ret"} \/ Corre(c) => curenv[c] \in Slots
      BY DEF KInv, TypeOK, CurenvIsSet, ConCurenv, Corre
    <3>3. \A q \in Colas : \A cs \in [Colas -> Seq(EnvIds)] :
             \A j \in 1 .. Len(cs[q]) : ENVX(cs[q][j]) \in Slots
      BY ElementOfSeq DEF ENVX, EnvIds
    <3>4. Promover(colas) \in [Colas -> Seq(EnvIds)]
          /\ colas \in [Colas -> Seq(EnvIds)]
      BY PromoverProperties DEF KInv, TypeOK
    <3>5. CASE PageFaultUpcall(c)
      BY <3>1, <3>2, <3>5, LeaveLock DEF PageFaultUpcall, EnServicio, Lock!Next
    <3>6. CASE TrapReturn(c)
      <4>1. EnvRun(c, curenv[c]) \/ Goto(c, "yield")
        BY <3>6 DEF TrapReturn
      <4>2. curenv[c] \in Slots
        BY <3>2, <3>6 DEF TrapReturn
      <4> QED
        BY <2>5, <3>1, <4>1, <4>2, LeaveLock DEF InKernel, Lock!Next
    <3>7. CASE RoundRobin(c)
      <4>1. (\E e \in Slots : EnvRun(c, e)) \/ SchedHalt(c)
        BY <3>2, <3>7 DEF RoundRobin
      <4> QED
        BY <3>1, <4>1, LeaveLock DEF Lock!Next
    <3>8. CASE PrioridadMLFQ(c)
      <4> DEFINE cs == IF ejecuciones_totales >= MAX_EJECUCIONES_MLFQ
                       THEN Promover(colas) ELSE colas
      <4>1. \/ \E q \in Colas : \E j \in 1 .. Len(cs[q]) : EnvRun(c, ENVX(cs[q][j]))
            \/ Corre(c) /\ EnvRun(c, curenv[c])
            \/ SchedHalt(c)
        BY <3>8 DEF PrioridadMLFQ
      <4>2. cs \in [Colas -> Seq(EnvIds)]
        BY <3>4
      <4> HIDE DEF cs
      <4>3. (\E e \in Slots : EnvRun(c, e)) \/ SchedHalt(c)
        BY <3>2, <3>3, <4>1, <4>2
      <4> QED
        BY <3>1, <4>3, LeaveLock DEF Lock!Next
    <3> QED
      BY <2>9, <3>5, <3>6, <3>7, <3>8 DEF SchedYield
  <2> QED
    BY <2>1, <2>2, <2>3, <2>4, <2>6, <2>7, <2>8, <2>9
       DEF Next, KernelStep, Boot, Trap
<1> QED
  BY <1>1, <1>2, KernelInvariant, PTL DEF Spec, LockSpec, Lock!Spec

-----------------------------------------------------------------------------
(***************************************************************************)
(* Proofs about the environment table, for any number of CPUs and slots,   *)
(* both schedulers, and programs that use the kernel as lib/ does (LIBOS:  *)
(* the run any_one_cpu shows what other programs can do).                  *)
(*                                                                         *)
(* OneCpuPerEnv, FreeListExact and RecvingIsBlocked need each other: a     *)
(* slot may be handed out, killed or woken only if no CPU runs it, and     *)
(* that is known from its status.  CurenvStatus is the fact that makes     *)
(* them inductive: it says, for each place a CPU can be in, what the       *)
(* status of its environment may be.                                       *)
(***************************************************************************)

\* A CPU at p may have a curenv of status s.
CurOK(p, s) ==
    \/ p \in {"resume", "user", "spin_user", "trap"} /\ s \in {"RUNNING", "DYING"}
    \/ p \in {"ret", "yield"} /\ s = "RUNNING"
    \/ p \in {"yield", "monitor"} /\ s = "NOT_RUNNABLE"

CurenvStatus ==
    \A c \in CPUs : curenv[c] # NULL => CurOK(pc[c], env_status[curenv[c]])

RunningHasCpu ==
    \A e \in Slots : env_status[e] \in {"RUNNING", "DYING"}
        => \E c \in CPUs : curenv[c] = e

TInv == /\ CurenvStatus /\ RunningHasCpu /\ OneCpuPerEnv
        /\ FreeListExact /\ RecvingIsBlocked

-----------------------------------------------------------------------------
\* What the invariants say together

\* The CPU in the kernel is alone there.
LEMMA AloneInKernel ==
    ASSUME KInv, NEW c \in CPUs, pc[c] \in InKernel,
           NEW d \in CPUs, d # c
    PROVE  pc[d] \notin InKernel
  BY DEF KInv, LockHeldInKernel

\* Nobody else has an environment that neither runs nor dies.
LEMMA NotOnOtherCpu ==
    ASSUME KInv, TInv, NEW c \in CPUs, pc[c] \in InKernel,
           NEW e \in Slots, env_status[e] \notin {"RUNNING", "DYING"},
           NEW d \in CPUs, d # c
    PROVE  curenv[d] # e
<1>1. pc[d] \notin InKernel
  BY AloneInKernel
<1>2. e # NULL
  BY DEF Slots, NULL
<1> QED
  BY <1>1, <1>2 DEF TInv, CurenvStatus, CurOK, InKernel

\* The free list is exact as long as neither it nor the set of free slots
\* changes.
LEMMA FreeListKept ==
    ASSUME FreeListExact, UNCHANGED env_free_list,
           \A e \in Slots : (env_status[e] = "FREE") <=> (env_status'[e] = "FREE")
    PROVE  FreeListExact'
  BY DEF FreeListExact

\* env_free of a slot that is in use.
LEMMA FreeListPushed ==
    ASSUME TypeOK, FreeListExact, NEW e \in Slots, env_status[e] # "FREE",
           EnvFree(e)
    PROVE  FreeListExact'
<1> DEFINE n == Len(env_free_list)
<1>1. /\ n \in Nat
      /\ env_free_list' = <<e>> \o env_free_list
      /\ env_status' = [env_status EXCEPT ![e] = "FREE"]
  BY LenProperties DEF TypeOK, EnvFree
<1>2. /\ Len(env_free_list') = n + 1
      /\ env_free_list'[1] = e
      /\ \A i \in 2 .. n + 1 : i - 1 \in 1 .. n
                              /\ env_free_list'[i] = env_free_list[i - 1]
  BY <1>1 DEF TypeOK
<1>3. \A i \in 1 .. n : env_free_list[i] # e
  BY DEF FreeListExact
<1>4. \A i, j \in 1 .. n + 1 : env_free_list'[i] = env_free_list'[j] => i = j
  <2> SUFFICES ASSUME NEW i \in 1 .. n + 1, NEW j \in 1 .. n + 1,
                      env_free_list'[i] = env_free_list'[j]
               PROVE  i = j
    OBVIOUS
  <2>1. CASE i = 1 \/ j = 1
    BY <1>1, <1>2, <1>3, <2>1
  <2>2. CASE i # 1 /\ j # 1
    <3>1. i \in 2 .. n + 1 /\ j \in 2 .. n + 1
      BY <1>1, <2>2
    <3>2. env_free_list[i - 1] = env_free_list[j - 1]
      BY <1>2, <3>1
    <3>3. i - 1 = j - 1
      BY <1>2, <3>1, <3>2 DEF FreeListExact
    <3> QED
      BY <3>3
  <2> QED
    BY <2>1, <2>2
<1>5. ASSUME NEW f \in Slots
      PROVE  env_status'[f] = "FREE" <=> \E i \in 1 .. n + 1 : env_free_list'[i] = f
  <2>1. CASE f = e
    BY <1>1, <1>2, <2>1 DEF TypeOK
  <2>2. CASE f # e
    <3>1. env_status'[f] = env_status[f]
      BY <1>1, <2>2 DEF TypeOK
    <3>2. ASSUME NEW i \in 1 .. n, env_free_list[i] = f
          PROVE  \E k \in 1 .. n + 1 : env_free_list'[k] = f
      <4>1. i + 1 \in 2 .. n + 1 /\ (i + 1) - 1 = i /\ i + 1 \in 1 .. n + 1
        BY <1>1
      <4> QED
        BY <1>2, <3>2, <4>1
    <3>3. ASSUME NEW i \in 1 .. n + 1, env_free_list'[i] = f
          PROVE  \E k \in 1 .. n : env_free_list[k] = f
      <4>1. i \in 2 .. n + 1
        BY <1>1, <1>2, <2>2, <3>3
      <4> QED
        BY <1>2, <3>3, <4>1
    <3> QED
      BY <3>1, <3>2, <3>3 DEF FreeListExact
  <2> QED
    BY <2>1, <2>2
<1> QED
  BY <1>2, <1>4, <1>5 DEF FreeListExact

\* env_alloc takes a slot that is free.
LEMMA FreeListPopped ==
    ASSUME TypeOK, FreeListExact, env_free_list # <<>>,
           NEW status \in Statuses \ {"FREE"},
           env_status' = [env_status EXCEPT ![Head(env_free_list)] = status],
           env_free_list' = Tail(env_free_list)
    PROVE  /\ Head(env_free_list) \in Slots
           /\ env_status[Head(env_free_list)] = "FREE"
           /\ FreeListExact'
<1> DEFINE n == Len(env_free_list)
           e == Head(env_free_list)
<1>1. n \in Nat /\ n >= 1 /\ e = env_free_list[1] /\ 1 \in 1 .. n
  BY DEF TypeOK
<1>2. /\ Len(env_free_list') = n - 1
      /\ \A i \in 1 .. n - 1 : i + 1 \in 1 .. n
                              /\ env_free_list'[i] = env_free_list[i + 1]
  BY <1>1 DEF TypeOK
<1>3. e \in Slots
  BY <1>1 DEF TypeOK
<1>4. env_status[e] = "FREE"
  BY <1>1, <1>3 DEF FreeListExact
<1>5. \A i, j \in 1 .. n - 1 : env_free_list'[i] = env_free_list'[j] => i = j
  <2> SUFFICES ASSUME NEW i \in 1 .. n - 1, NEW j \in 1 .. n - 1,
                      env_free_list'[i] = env_free_list'[j]
               PROVE  i = j
    OBVIOUS
  <2>1. i + 1 = j + 1
    BY <1>2 DEF FreeListExact
  <2> QED
    BY <2>1
<1>6. ASSUME NEW f \in Slots
      PROVE  env_status'[f] = "FREE" <=> \E i \in 1 .. n - 1 : env_free_list'[i] = f
  <2>1. CASE f = e
    <3>1. env_status'[f] # "FREE"
      BY <1>3, <2>1 DEF TypeOK
    <3>2. ASSUME NEW i \in 1 .. n - 1, env_free_list'[i] = f PROVE FALSE
      <4>1. i + 1 \in 1 .. n /\ env_free_list[i + 1] = env_free_list[1]
        BY <1>1, <1>2, <2>1, <3>2
      <4>2. i + 1 = 1
        BY <1>1, <4>1 DEF FreeListExact
      <4> QED
        BY <4>2
    <3> QED
      BY <3>1, <3>2
  <2>2. CASE f # e
    <3>1. env_status'[f] = env_status[f]
      BY <1>3, <2>2 DEF TypeOK
    <3>2. ASSUME NEW i \in 1 .. n, env_free_list[i] = f
          PROVE  \E k \in 1 .. n - 1 : env_free_list'[k] = f
      <4>1. i # 1
        BY <1>1, <2>2, <3>2
      <4>2. i - 1 \in 1 .. n - 1 /\ (i - 1) + 1 = i
        BY <1>1, <4>1
      <4> QED
        BY <1>2, <3>2, <4>2
    <3>3. ASSUME NEW i \in 1 .. n - 1, env_free_list'[i] = f
          PROVE  \E k \in 1 .. n : env_free_list[k] = f
      BY <1>2, <3>3
    <3> QED
      BY <3>1, <3>2, <3>3 DEF FreeListExact
  <2> QED
    BY <2>1, <2>2
<1>7. FreeListExact'
  BY <1>2, <1>5, <1>6 DEF FreeListExact
<1> QED
  BY <1>3, <1>4, <1>7

-----------------------------------------------------------------------------
\* What one step of CPU c may do to the table and to curenv

\* The table stays as it is, and CPU c moves to a place where its environment
\* may have the status it has.
LEMMA MoveStep ==
    ASSUME KInv, TInv, NEW c \in CPUs, NEW p, pc' = [pc EXCEPT ![c] = p],
           curenv[c] # NULL => CurOK(p, env_status[curenv[c]]),
           UNCHANGED <<env_status, env_free_list, env_ipc_recving, curenv>>
    PROVE  TInv'
<1>1. CurenvStatus'
  BY DEF TInv, CurenvStatus, KInv, TypeOK
<1> QED
  BY <1>1 DEF TInv, RunningHasCpu, OneCpuPerEnv, FreeListExact, RecvingIsBlocked

\* env_run of an environment that is runnable, or is the CPU's own.
LEMMA RunStep ==
    ASSUME KInv, TInv, NEW c \in CPUs, pc[c] \in {"trap", "ret", "yield"},
           NEW e \in Slots, EnvRun(c, e),
           \/ env_status[e] = "RUNNABLE" /\ pc[c] # "trap"
           \/ env_status[e] = "RUNNING" /\ curenv[c] = e,
           UNCHANGED <<env_free_list, env_ipc_recving>>
    PROVE  TInv'
<1>1. pc[c] \in InKernel /\ kernel_lock = c
  BY DEF InKernel, KInv, LockHeldInKernel
<1>2. /\ pc' = [pc EXCEPT ![c] = "resume"]
      /\ curenv' = [curenv EXCEPT ![c] = e]
      /\ env_status' = [f \in Slots |->
            IF f = e THEN "RUNNING"
            ELSE IF f = curenv[c] /\ env_status[f] = "RUNNING" THEN "RUNNABLE"
            ELSE env_status[f]]
  BY <1>1, LiberaProperties DEF EnvRun
<1>3. /\ env_status \in [Slots -> Statuses]
      /\ curenv \in [CPUs -> Slots \cup {NULL}]
      /\ pc \in [CPUs -> Points]
      /\ NULL \notin Slots
  BY DEF KInv, TypeOK, NULL, Slots
<1>4. \A d \in CPUs : d # c => curenv[d] # e
  BY <1>1, <1>3, NotOnOtherCpu DEF TInv, OneCpuPerEnv
<1>5. \A d \in CPUs : d # c /\ curenv[d] # NULL =>
          curenv[d] # curenv[c] /\ env_status'[curenv[d]] = env_status[curenv[d]]
  BY <1>2, <1>3, <1>4 DEF TInv, OneCpuPerEnv
<1>6. CurenvStatus'
  <2> SUFFICES ASSUME NEW d \in CPUs, curenv'[d] # NULL
               PROVE  CurOK(pc'[d], env_status'[curenv'[d]])
    BY DEF CurenvStatus
  <2>1. CASE d = c
    BY <1>2, <1>3, <2>1 DEF CurOK
  <2>2. CASE d # c
    BY <1>2, <1>3, <1>5, <2>2 DEF TInv, CurenvStatus
  <2> QED
    BY <2>1, <2>2
<1>7. RunningHasCpu'
  <2> SUFFICES ASSUME NEW f \in Slots, env_status'[f] \in {"RUNNING", "DYING"}
               PROVE  \E d \in CPUs : curenv'[d] = f
    BY DEF RunningHasCpu
  <2>1. CASE f = e
    BY <1>2, <1>3, <2>1
  <2>2. CASE f # e
    <3>1. env_status[f] \in {"RUNNING", "DYING"} /\ env_status'[f] = env_status[f]
      BY <1>2, <2>2
    <3>2. PICK d \in CPUs : curenv[d] = f
      BY <3>1 DEF TInv, RunningHasCpu
    <3>3. d # c
      <4> SUFFICES ASSUME d = c PROVE FALSE
        OBVIOUS
      <4>1. env_status[f] # "RUNNING"
        BY <1>2, <2>2, <3>1, <3>2
      <4>2. CurOK(pc[c], env_status[f])
        BY <1>3, <3>2 DEF TInv, CurenvStatus
      <4>3. pc[c] = "trap"
        BY <3>1, <4>1, <4>2 DEF CurOK
      <4> QED
        BY <2>2, <3>2, <4>3
    <3> QED
      BY <1>2, <1>3, <3>2, <3>3
  <2> QED
    BY <2>1, <2>2
<1>8. OneCpuPerEnv'
  BY <1>2, <1>3, <1>4 DEF TInv, OneCpuPerEnv
<1>9. FreeListExact'
  <2>1. \A f \in Slots : (env_status[f] = "FREE") <=> (env_status'[f] = "FREE")
    BY <1>2, <1>3
  <2> QED
    BY <2>1, FreeListKept DEF TInv
<1>10. RecvingIsBlocked'
  BY <1>2, <1>3 DEF TInv, RecvingIsBlocked
<1> QED
  BY <1>6, <1>7, <1>8, <1>9, <1>10 DEF TInv

\* sched_halt when curenv does not run.
LEMMA HaltStep ==
    ASSUME KInv, TInv, NEW c \in CPUs, pc[c] = "yield", ~Corre(c), SchedHalt(c),
           UNCHANGED <<env_free_list, env_ipc_recving>>
    PROVE  TInv'
<1>1. kernel_lock = c
  BY DEF InKernel, KInv, LockHeldInKernel
<1>2. curenv[c] # NULL => env_status[curenv[c]] = "NOT_RUNNABLE"
  BY DEF TInv, CurenvStatus, CurOK, Corre
<1>3. UNCHANGED env_status
  BY DEF SchedHalt
<1>4. CASE pc' = [pc EXCEPT ![c] = "monitor"] /\ UNCHANGED curenv
  BY <1>2, <1>3, <1>4, MoveStep DEF CurOK
<1>5. CASE curenv' = [curenv EXCEPT ![c] = NULL] /\ Libera(c, "halted")
  <2>1. pc' = [pc EXCEPT ![c] = "halted"]
    BY <1>1, <1>5, LiberaProperties
  <2>2. /\ curenv \in [CPUs -> Slots \cup {NULL}]
        /\ pc \in [CPUs -> Points]
    BY DEF KInv, TypeOK
  <2>3. CurenvStatus'
    BY <1>3, <1>5, <2>1, <2>2 DEF TInv, CurenvStatus
  <2>4. RunningHasCpu'
    <3> SUFFICES ASSUME NEW f \in Slots, env_status[f] \in {"RUNNING", "DYING"}
                 PROVE  \E d \in CPUs : curenv'[d] = f
      BY <1>3 DEF RunningHasCpu
    <3>1. PICK d \in CPUs : curenv[d] = f
      BY DEF TInv, RunningHasCpu
    <3>2. d # c
      BY <1>2, <3>1 DEF NULL, Slots
    <3> QED
      BY <1>5, <2>2, <3>1, <3>2
  <2>5. OneCpuPerEnv'
    BY <1>5, <2>2 DEF TInv, OneCpuPerEnv
  <2>6. FreeListExact' /\ RecvingIsBlocked'
    BY <1>3 DEF TInv, FreeListExact, RecvingIsBlocked
  <2> QED
    BY <2>3, <2>4, <2>5, <2>6 DEF TInv
<1> QED
  BY <1>4, <1>5 DEF SchedHalt, Goto

\* env_free of the CPU's own environment.
LEMMA FreeSelfStep ==
    ASSUME KInv, TInv, NEW c \in CPUs, pc[c] = "trap", EnvFree(curenv[c]),
           curenv' = [curenv EXCEPT ![c] = NULL],
           pc' = [pc EXCEPT ![c] = "yield"], UNCHANGED env_ipc_recving
    PROVE  TInv'
<1>1. /\ env_status \in [Slots -> Statuses]
      /\ curenv \in [CPUs -> Slots \cup {NULL}]
      /\ pc \in [CPUs -> Points]
      /\ NULL \notin Slots
  BY DEF KInv, TypeOK, NULL, Slots
<1>2. curenv[c] \in Slots
  BY DEF KInv, CurenvIsSet, ConCurenv
<1>3. env_status[curenv[c]] \in {"RUNNING", "DYING"}
  BY <1>1, <1>2 DEF TInv, CurenvStatus, CurOK
<1>4. env_status' = [env_status EXCEPT ![curenv[c]] = "FREE"]
  BY DEF EnvFree
<1>5. \A d \in CPUs : d # c /\ curenv[d] # NULL => curenv[d] # curenv[c]
  BY DEF TInv, OneCpuPerEnv
<1>6. CurenvStatus'
  BY <1>1, <1>2, <1>4, <1>5 DEF TInv, CurenvStatus
<1>7. RunningHasCpu'
  <2> SUFFICES ASSUME NEW f \in Slots, env_status'[f] \in {"RUNNING", "DYING"}
               PROVE  \E d \in CPUs : curenv'[d] = f
    BY DEF RunningHasCpu
  <2>1. f # curenv[c] /\ env_status'[f] = env_status[f]
    BY <1>1, <1>2, <1>4
  <2>2. PICK d \in CPUs : curenv[d] = f
    BY <2>1 DEF TInv, RunningHasCpu
  <2> QED
    BY <1>1, <2>1, <2>2
<1>8. OneCpuPerEnv'
  BY <1>1 DEF TInv, OneCpuPerEnv
<1>9. FreeListExact'
  BY <1>2, <1>3, FreeListPushed DEF KInv, TInv
<1>10. RecvingIsBlocked'
  BY <1>1, <1>2, <1>4 DEF TInv, RecvingIsBlocked
<1> QED
  BY <1>6, <1>7, <1>8, <1>9, <1>10 DEF TInv

\* env_alloc, whose new environment is runnable or not yet.
LEMMA AllocStep ==
    ASSUME KInv, TInv, NEW c \in CPUs, NEW parent_id,
           NEW status \in {"RUNNABLE", "NOT_RUNNABLE"},
           EnvAlloc(c, parent_id, status), UNCHANGED curenv,
           \A d \in CPUs : curenv[d] # NULL => CurOK(pc'[d], env_status[curenv[d]])
    PROVE  TInv'
<1> DEFINE e == Head(env_free_list)
<1>1. /\ env_free_list # <<>>
      /\ env_status' = [env_status EXCEPT ![e] = status]
      /\ env_ipc_recving' = [env_ipc_recving EXCEPT ![e] = FALSE]
      /\ env_free_list' = Tail(env_free_list)
  BY DEF EnvAlloc
<1>2. status \in Statuses \ {"FREE"}
  BY DEF Statuses
<1>3. e \in Slots /\ env_status[e] = "FREE" /\ FreeListExact'
  BY <1>1, <1>2, FreeListPopped DEF KInv, TInv
<1> HIDE DEF e
<1>4. /\ env_status \in [Slots -> Statuses]
      /\ env_ipc_recving \in [Slots -> BOOLEAN]
      /\ curenv \in [CPUs -> Slots \cup {NULL}]
  BY DEF KInv, TypeOK
<1>5. \A d \in CPUs : curenv[d] # NULL => curenv[d] # e
  BY <1>3 DEF TInv, CurenvStatus, CurOK
<1>6. CurenvStatus'
  BY <1>1, <1>3, <1>4, <1>5 DEF CurenvStatus
<1>7. RunningHasCpu'
  BY <1>1, <1>3, <1>4 DEF TInv, RunningHasCpu
<1>8. OneCpuPerEnv'
  BY DEF TInv, OneCpuPerEnv
<1>9. RecvingIsBlocked'
  BY <1>1, <1>3, <1>4 DEF TInv, RecvingIsBlocked
<1> QED
  BY <1>3, <1>6, <1>7, <1>8, <1>9 DEF TInv

\* A handler changes the status of an environment e that is not its own, and
\* ends at the end of trap(): a child is killed where it runs, or an environment
\* that was blocked becomes runnable.
LEMMA OtherStatusStep ==
    ASSUME KInv, TInv, NEW c \in CPUs, pc[c] = "trap",
           env_status[curenv[c]] = "RUNNING", pc' = [pc EXCEPT ![c] = "ret"],
           NEW e \in Slots, NEW s, env_status' = [env_status EXCEPT ![e] = s],
           UNCHANGED <<env_free_list, curenv>>,
           \/ /\ env_status[e] = "RUNNING" /\ e # curenv[c] /\ s = "DYING"
              /\ UNCHANGED env_ipc_recving
           \/ /\ env_status[e] = "NOT_RUNNABLE" /\ s = "RUNNABLE"
              /\ \/ UNCHANGED env_ipc_recving /\ ~env_ipc_recving[e]
                 \/ env_ipc_recving' = [env_ipc_recving EXCEPT ![e] = FALSE]
    PROVE  TInv'
<1>1. /\ env_status \in [Slots -> Statuses]
      /\ env_ipc_recving \in [Slots -> BOOLEAN]
      /\ curenv \in [CPUs -> Slots \cup {NULL}]
      /\ pc \in [CPUs -> Points]
  BY DEF KInv, TypeOK
<1>2. pc[c] \in InKernel
  BY DEF InKernel
<1>3. CurenvStatus'
  <2> SUFFICES ASSUME NEW d \in CPUs, curenv[d] # NULL
               PROVE  CurOK(pc'[d], env_status'[curenv[d]])
    BY DEF CurenvStatus
  <2>1. curenv[d] \in Slots /\ CurOK(pc[d], env_status[curenv[d]])
    BY <1>1 DEF TInv, CurenvStatus
  <2>2. CASE d = c
    <3>1. e # curenv[c]
      OBVIOUS
    <3>2. env_status'[curenv[c]] = "RUNNING" /\ pc'[c] = "ret"
      BY <1>1, <2>1, <2>2, <3>1
    <3> QED
      BY <2>2, <3>2 DEF CurOK
  <2>3. CASE d # c
    <3>1. pc[d] \notin InKernel /\ pc'[d] = pc[d]
      BY <1>1, <1>2, <2>3, AloneInKernel
    <3>2. /\ pc[d] \in {"resume", "user", "spin_user", "trap"}
          /\ env_status[curenv[d]] \in {"RUNNING", "DYING"}
      BY <2>1, <3>1 DEF CurOK, InKernel
    <3>3. env_status'[curenv[d]] \in {"RUNNING", "DYING"}
      BY <1>1, <2>1, <3>2
    <3> QED
      BY <3>1, <3>2, <3>3 DEF CurOK
  <2> QED
    BY <2>2, <2>3
<1>4. RunningHasCpu'
  BY <1>1 DEF TInv, RunningHasCpu
<1>5. OneCpuPerEnv'
  BY DEF TInv, OneCpuPerEnv
<1>6. FreeListExact'
  <2>1. \A f \in Slots : (env_status[f] = "FREE") <=> (env_status'[f] = "FREE")
    BY <1>1
  <2> QED
    BY <2>1, FreeListKept DEF TInv
<1>7. RecvingIsBlocked'
  <2> SUFFICES ASSUME NEW f \in Slots, env_ipc_recving'[f], env_status'[f] # "FREE"
               PROVE  env_status'[f] = "NOT_RUNNABLE"
    BY DEF RecvingIsBlocked
  <2>1. f # e
    BY <1>1 DEF TInv, RecvingIsBlocked
  <2> QED
    BY <1>1, <2>1 DEF TInv, RecvingIsBlocked
<1> QED
  BY <1>3, <1>4, <1>5, <1>6, <1>7 DEF TInv

\* env_free of a child that no CPU runs.
LEMMA FreeChildStep ==
    ASSUME KInv, TInv, NEW c \in CPUs, pc[c] = "trap",
           env_status[curenv[c]] = "RUNNING", pc' = [pc EXCEPT ![c] = "ret"],
           NEW e \in Slots, env_status[e] \in {"RUNNABLE", "NOT_RUNNABLE"},
           EnvFree(e), UNCHANGED <<env_ipc_recving, curenv>>
    PROVE  TInv'
<1>1. /\ env_status \in [Slots -> Statuses]
      /\ curenv \in [CPUs -> Slots \cup {NULL}]
      /\ pc \in [CPUs -> Points]
  BY DEF KInv, TypeOK
<1>2. pc[c] \in InKernel /\ env_status' = [env_status EXCEPT ![e] = "FREE"]
  BY DEF InKernel, EnvFree
<1>3. \A d \in CPUs : curenv[d] # e
  BY <1>2, NotOnOtherCpu
<1>4. CurenvStatus'
  <2> SUFFICES ASSUME NEW d \in CPUs, curenv[d] # NULL
               PROVE  CurOK(pc'[d], env_status'[curenv[d]])
    BY DEF CurenvStatus
  <2>1. curenv[d] \in Slots /\ env_status'[curenv[d]] = env_status[curenv[d]]
    BY <1>1, <1>2, <1>3
  <2>2. CASE d = c
    BY <1>1, <2>1, <2>2 DEF CurOK
  <2>3. CASE d # c
    BY <1>1, <2>1, <2>3 DEF TInv, CurenvStatus
  <2> QED
    BY <2>2, <2>3
<1>5. RunningHasCpu'
  BY <1>1, <1>2 DEF TInv, RunningHasCpu
<1>6. OneCpuPerEnv'
  BY DEF TInv, OneCpuPerEnv
<1>7. FreeListExact'
  BY FreeListPushed DEF KInv, TInv
<1>8. RecvingIsBlocked'
  BY <1>1, <1>2 DEF TInv, RecvingIsBlocked
<1> QED
  BY <1>4, <1>5, <1>6, <1>7, <1>8 DEF TInv

\* sys_ipc_recv: the caller blocks, on its way to sched_yield.
LEMMA BlockStep ==
    ASSUME KInv, TInv, NEW c \in CPUs, pc[c] = "trap",
           env_status[curenv[c]] = "RUNNING", pc' = [pc EXCEPT ![c] = "yield"],
           env_status' = [env_status EXCEPT ![curenv[c]] = "NOT_RUNNABLE"],
           env_ipc_recving' = [env_ipc_recving EXCEPT ![curenv[c]] = TRUE],
           UNCHANGED <<env_free_list, curenv>>
    PROVE  TInv'
<1>1. /\ env_status \in [Slots -> Statuses]
      /\ env_ipc_recving \in [Slots -> BOOLEAN]
      /\ curenv \in [CPUs -> Slots \cup {NULL}]
      /\ pc \in [CPUs -> Points]
  BY DEF KInv, TypeOK
<1>2. curenv[c] \in Slots
  BY DEF KInv, CurenvIsSet, ConCurenv
<1>3. CurenvStatus'
  <2> SUFFICES ASSUME NEW d \in CPUs, curenv[d] # NULL
               PROVE  CurOK(pc'[d], env_status'[curenv[d]])
    BY DEF CurenvStatus
  <2>1. CASE d = c
    BY <1>1, <1>2, <2>1 DEF CurOK
  <2>2. CASE d # c
    <3>1. curenv[d] # curenv[c]
      BY <2>2 DEF TInv, OneCpuPerEnv
    <3> QED
      BY <1>1, <2>2, <3>1 DEF TInv, CurenvStatus
  <2> QED
    BY <2>1, <2>2
<1>4. RunningHasCpu'
  BY <1>1 DEF TInv, RunningHasCpu
<1>5. OneCpuPerEnv'
  BY DEF TInv, OneCpuPerEnv
<1>6. FreeListExact'
  <2>1. \A f \in Slots : (env_status[f] = "FREE") <=> (env_status'[f] = "FREE")
    BY <1>1
  <2> QED
    BY <2>1, FreeListKept DEF TInv
<1>7. RecvingIsBlocked'
  BY <1>1, <1>2 DEF TInv, RecvingIsBlocked
<1> QED
  BY <1>3, <1>4, <1>5, <1>6, <1>7 DEF TInv

-----------------------------------------------------------------------------
\* The actions of Kernel are such steps

\* Boot, the way into the kernel, and the end of env_run leave the table alone,
\* except for env_create.
LEMMA TableEntry ==
    ASSUME KInv, TInv, NEW c \in CPUs,
           \/ Boot(c) \/ Resume(c) \/ TrapUser(c) \/ TimerHalted(c)
           \/ LockKernel(c) \/ Monitor(c)
    PROVE  TInv'
<1>1. curenv[c] # NULL => CurOK(pc[c], env_status[curenv[c]])
  BY DEF TInv, CurenvStatus
<1>2. CASE EnvCreate(c)
  <2>1. EnvAlloc(c, ID_0, "RUNNABLE") /\ UNCHANGED <<curenv, pc>>
    BY <1>2 DEF EnvCreate, cpuVars
  <2> QED
    BY <2>1, AllocStep DEF TInv, CurenvStatus
<1>3. CASE MpMain(c) \/ BootDone(c) \/ TimerHalted(c)
  <2>1. curenv[c] = NULL
    BY <1>1, <1>3 DEF MpMain, BootDone, TimerHalted, CurOK
  <2>2. \E p : pc' = [pc EXCEPT ![c] = p]
    BY <1>3 DEF MpMain, BootDone, TimerHalted, Goto
  <2> QED
    BY <1>3, <2>1, <2>2, MoveStep DEF MpMain, BootDone, TimerHalted, ipcVars
<1>4. CASE TrapUser(c)
  <2>1. cpu_status[c] # "HALTED"
    BY <1>4 DEF TrapUser, KInv, HaltedIsMarked
  <2>2. pc[c] = "user" /\ pc' = [pc EXCEPT ![c] = "spin_user"]
    BY <1>4, <2>1 DEF TrapUser, Goto
  <2> QED
    BY <1>1, <1>4, <2>2, MoveStep DEF TrapUser, CurOK, ipcVars
<1>5. CASE Resume(c)
  <2>1. pc[c] = "resume" /\ pc' = [pc EXCEPT ![c] = "user"]
    BY <1>5 DEF Resume, Goto
  <2> QED
    BY <1>1, <1>5, <2>1, MoveStep DEF Resume, CurOK, ipcVars
<1>6. CASE LockKernel(c)
  <2>1. PICK p : /\ pc' = [pc EXCEPT ![c] = p]
                 /\ pc[c] = "spin_user" => p = "trap"
    BY <1>6 DEF LockKernel, Goto, Spinning
  <2>2. pc[c] \in Spinning
    BY <1>6 DEF LockKernel
  <2>3. curenv[c] # NULL => CurOK(p, env_status[curenv[c]])
    BY <1>1, <2>1, <2>2 DEF CurOK, Spinning
  <2> QED
    BY <1>6, <2>1, <2>3, MoveStep DEF LockKernel, ipcVars
<1>7. CASE Monitor(c)
  BY <1>7 DEF Monitor, vars, TInv, CurenvStatus, RunningHasCpu, OneCpuPerEnv,
     FreeListExact, RecvingIsBlocked
<1> QED
  BY <1>2, <1>3, <1>4, <1>5, <1>6, <1>7 DEF Boot

\* The trap handlers, as LIBOS programs call them.
LEMMA TableTrap ==
    ASSUME KInv, TInv, LIBOS, NEW c \in CPUs, Trap(c)
    PROVE  TInv'
<1>1. EnServicio(c)
  BY DEF Trap, Timer, OtherTrap, PageFaultUpcall, DestroySelf, DestroyChild,
     Exofork, SetStatus, IpcRecv, IpcRecvInvalid, IpcTrySend, AsignarPrioridad
<1>2. pc[c] = "trap" /\ curenv[c] \in Slots /\ curenv[c] # NULL
  BY <1>1 DEF EnServicio, KInv, CurenvIsSet, ConCurenv, Slots, NULL
<1>3. env_status[curenv[c]] = "RUNNING"
  BY <1>1, <1>2 DEF EnServicio, TInv, CurenvStatus, CurOK
<1>4. \A id, b : Envid2env(c, id, b) \subseteq Slots
  BY Envid2envIsSlot DEF KInv
<1>5. CASE Timer(c) \/ OtherTrap(c) \/ AsignarPrioridad(c)
  <2>1. PICK p \in {"yield", "ret"} : pc' = [pc EXCEPT ![c] = p]
    BY <1>5 DEF Timer, OtherTrap, AsignarPrioridad, Goto
  <2>2. CurOK(p, env_status[curenv[c]])
    BY <1>3 DEF CurOK
  <2> QED
    BY <1>5, <2>1, <2>2, MoveStep DEF Timer, OtherTrap, AsignarPrioridad, ipcVars
<1>6. CASE PageFaultUpcall(c)
  BY <1>2, <1>3, <1>6, RunStep DEF PageFaultUpcall, ipcVars
<1>7. CASE DestroySelf(c)
  BY <1>2, <1>7, FreeSelfStep DEF DestroySelf, Goto, ipcVars
<1>8. CASE DestroyChild(c)
  <2>1. PICK e \in Slots :
           /\ e # curenv[c] /\ env_status[e] # "DYING" /\ env_status[e] # "FREE"
           /\ IF env_status[e] = "RUNNING"
              THEN /\ env_status' = [env_status EXCEPT ![e] = "DYING"]
                   /\ UNCHANGED env_free_list
              ELSE EnvFree(e)
    <3>1. PICK id \in EnvIds : \E e \in Envid2env(c, id, TRUE) :
             /\ e # curenv[c] /\ env_status[e] # "DYING"
             /\ IF env_status[e] = "RUNNING"
                THEN /\ env_status' = [env_status EXCEPT ![e] = "DYING"]
                     /\ UNCHANGED env_free_list
                ELSE EnvFree(e)
      BY <1>8 DEF DestroyChild
    <3>2. id # ID_0
      BY DEF EnvIds, ID_0
    <3>3. \A e \in Envid2env(c, id, TRUE) : env_status[e] # "FREE"
      BY <3>2 DEF Envid2env
    <3> QED
      BY <1>4, <3>1, <3>3
  <2>2. /\ pc' = [pc EXCEPT ![c] = "ret"]
        /\ UNCHANGED <<env_ipc_recving, curenv>>
    BY <1>8 DEF DestroyChild, Goto, ipcVars
  <2>3. CASE env_status[e] = "RUNNING"
    BY <1>2, <1>3, <2>1, <2>2, <2>3, OtherStatusStep
  <2>4. CASE env_status[e] # "RUNNING"
    <3>1. env_status[e] \in {"RUNNABLE", "NOT_RUNNABLE"}
      BY <2>1, <2>4 DEF KInv, TypeOK, Statuses
    <3> QED
      BY <1>2, <1>3, <2>1, <2>2, <2>4, <3>1, FreeChildStep
  <2> QED
    BY <2>3, <2>4
<1>9. CASE Exofork(c)
  <2>1. /\ EnvAlloc(c, IdDe(curenv[c]), "NOT_RUNNABLE")
        /\ pc' = [pc EXCEPT ![c] = "ret"] /\ UNCHANGED curenv
    BY <1>9 DEF Exofork, Goto
  <2>2. \A d \in CPUs : curenv[d] # NULL => CurOK(pc'[d], env_status[curenv[d]])
    BY <1>3, <2>1 DEF TInv, CurenvStatus, CurOK, KInv, TypeOK
  <2> QED
    BY <2>1, <2>2, AllocStep
<1>10. CASE SetStatus(c)
  <2>1. PICK e \in Slots :
           /\ env_status[e] = "NOT_RUNNABLE" /\ ~env_ipc_recving[e]
           /\ env_status' = [env_status EXCEPT ![e] = "RUNNABLE"]
    BY <1>4, <1>10 DEF SetStatus
  <2> QED
    BY <1>2, <1>3, <1>10, <2>1, OtherStatusStep DEF SetStatus, Goto, ipcVars
<1>11. CASE IpcRecv(c)
  BY <1>2, <1>3, <1>11, BlockStep DEF IpcRecv, Goto
<1>12. CASE IpcTrySend(c)
  <2>1. PICK id \in EnvIds : \E e \in Envid2env(c, id, FALSE) :
           /\ env_ipc_recving[e]
           /\ env_ipc_recving' = [env_ipc_recving EXCEPT ![e] = FALSE]
           /\ env_status' = [env_status EXCEPT ![e] = "RUNNABLE"]
    BY <1>12 DEF IpcTrySend
  <2>2. id # ID_0
    BY DEF EnvIds, ID_0
  <2>3. PICK e \in Slots :
           /\ env_ipc_recving[e] /\ env_status[e] # "FREE"
           /\ env_ipc_recving' = [env_ipc_recving EXCEPT ![e] = FALSE]
           /\ env_status' = [env_status EXCEPT ![e] = "RUNNABLE"]
    BY <1>4, <2>1, <2>2 DEF Envid2env
  <2>4. env_status[e] = "NOT_RUNNABLE"
    BY <2>3 DEF TInv, RecvingIsBlocked
  <2> QED
    BY <1>2, <1>3, <1>12, <2>3, <2>4, OtherStatusStep DEF IpcTrySend, Goto
<1>13. ~IpcRecvInvalid(c)
  BY DEF IpcRecvInvalid
<1> QED
  BY <1>5, <1>6, <1>7, <1>8, <1>9, <1>10, <1>11, <1>12, <1>13 DEF Trap

\* What sched_yield decides, in both builds: run an environment that is
\* runnable, go on with curenv, or halt.
LEMMA SchedDecides ==
    ASSUME KInv, NEW c \in CPUs, SchedYield(c)
    PROVE  /\ pc[c] = "yield"
           /\ \/ \E e \in Slots : env_status[e] = "RUNNABLE" /\ EnvRun(c, e)
              \/ Corre(c) /\ curenv[c] \in Slots /\ EnvRun(c, curenv[c])
              \/ ~Corre(c) /\ SchedHalt(c)
           /\ UNCHANGED <<env_free_list, env_ipc_recving, env_cpunum>>
<1>1. Corre(c) => curenv[c] \in Slots
  BY DEF Corre, KInv, TypeOK
<1>2. CASE RoundRobin(c)
  BY <1>1, <1>2 DEF RoundRobin, Siguiente, ipcVars
<1>3. CASE PrioridadMLFQ(c)
  <2> DEFINE cs == IF ejecuciones_totales >= MAX_EJECUCIONES_MLFQ
                   THEN Promover(colas) ELSE colas
  <2>1. \/ \E q \in Colas : \E j \in 1 .. Len(cs[q]) :
              MejorEntrada(cs, q, j) /\ EnvRun(c, ENVX(cs[q][j]))
        \/ Corre(c) /\ EnvRun(c, curenv[c])
        \/ ~Corre(c) /\ SchedHalt(c)
    BY <1>3 DEF PrioridadMLFQ
  <2>2. cs \in [Colas -> Seq(EnvIds)]
    BY PromoverProperties DEF KInv, TypeOK
  <2> HIDE DEF cs
  <2>3. ASSUME NEW q \in Colas, NEW j \in 1 .. Len(cs[q]),
               MejorEntrada(cs, q, j), EnvRun(c, ENVX(cs[q][j]))
        PROVE  \E e \in Slots : env_status[e] = "RUNNABLE" /\ EnvRun(c, e)
    <3>1. cs[q][j] \in EnvIds
      BY <2>2, ElementOfSeq
    <3>2. ENVX(cs[q][j]) \in Slots
      BY <3>1 DEF ENVX, EnvIds
    <3>3. env_status[ENVX(cs[q][j])] = "RUNNABLE"
      BY <2>3 DEF MejorEntrada, Ejecutable
    <3> QED
      BY <2>3, <3>2, <3>3
  <2>4. pc[c] = "yield" /\ UNCHANGED <<env_free_list, env_ipc_recving, env_cpunum>>
    BY <1>3 DEF PrioridadMLFQ, ipcVars
  <2> QED
    BY <1>1, <2>1, <2>3, <2>4
<1> QED
  BY <1>2, <1>3 DEF SchedYield

\* The end of trap(), and sched_yield.
LEMMA TableReturn ==
    ASSUME KInv, TInv, NEW c \in CPUs, Reap(c) \/ TrapReturn(c) \/ SchedYield(c)
    PROVE  TInv'
<1>1. CASE Reap(c)
  BY <1>1, FreeSelfStep DEF Reap, Goto, ipcVars
<1>2. CASE TrapReturn(c)
  <2>1. pc[c] = "ret" /\ curenv[c] \in Slots /\ curenv[c] # NULL
    BY <1>2 DEF TrapReturn, KInv, CurenvIsSet, ConCurenv, Slots, NULL
  <2>2. env_status[curenv[c]] = "RUNNING"
    BY <2>1 DEF TInv, CurenvStatus, CurOK
  <2>3. EnvRun(c, curenv[c]) /\ UNCHANGED <<env_free_list, env_ipc_recving>>
    BY <1>2, <2>2 DEF TrapReturn, ipcVars
  <2> QED
    BY <2>1, <2>2, <2>3, RunStep
<1>3. CASE SchedYield(c)
  <2>1. CASE \E e \in Slots : env_status[e] = "RUNNABLE" /\ EnvRun(c, e)
    BY <1>3, <2>1, SchedDecides, RunStep
  <2>2. CASE Corre(c) /\ curenv[c] \in Slots /\ EnvRun(c, curenv[c])
    BY <1>3, <2>2, SchedDecides, RunStep DEF Corre
  <2>3. CASE ~Corre(c) /\ SchedHalt(c)
    BY <1>3, <2>3, SchedDecides, HaltStep
  <2> QED
    BY <1>3, <2>1, <2>2, <2>3, SchedDecides
<1> QED
  BY <1>1, <1>2, <1>3

-----------------------------------------------------------------------------
\* TInv is an invariant for programs that use the kernel as the library does.
THEOREM KernelTableInvariant == LIBOS => (Spec => []TInv)
<1> SUFFICES ASSUME LIBOS PROVE Spec => []TInv
  OBVIOUS
<1>1. Init => TInv
  <2> SUFFICES ASSUME Init PROVE TInv
    OBVIOUS
  <2>1. CurenvStatus /\ RunningHasCpu /\ OneCpuPerEnv /\ RecvingIsBlocked
    BY DEF Init, CurenvStatus, RunningHasCpu, OneCpuPerEnv, RecvingIsBlocked
  <2>2. /\ Len(env_free_list) = NENV
        /\ \A i \in 1 .. NENV : env_free_list[i] = i - 1
    BY NENVAssumption DEF Init
  <2>3. \A e \in Slots : e + 1 \in 1 .. NENV /\ (e + 1) - 1 = e
    BY NENVAssumption DEF Slots
  <2>4. FreeListExact
    <3>1. \A i, j \in 1 .. NENV : env_free_list[i] = env_free_list[j] => i = j
      BY <2>2
    <3>2. \A e \in Slots : env_free_list[e + 1] = e
      BY <2>2, <2>3
    <3>3. \A e \in Slots : \E i \in 1 .. NENV : env_free_list[i] = e
      BY <2>3, <3>2
    <3>4. \A e \in Slots : env_status[e] = "FREE"
      BY DEF Init
    <3> QED
      BY <2>2, <3>1, <3>3, <3>4 DEF FreeListExact
  <2> QED
    BY <2>1, <2>4 DEF TInv
<1>2. KInv /\ TInv /\ [Next]_vars => TInv'
  <2> SUFFICES ASSUME KInv, TInv, [Next]_vars PROVE TInv'
    OBVIOUS
  <2>1. CASE UNCHANGED vars
    BY <2>1 DEF vars, TInv, CurenvStatus, RunningHasCpu, OneCpuPerEnv,
       FreeListExact, RecvingIsBlocked
  <2>2. ASSUME NEW c \in CPUs, KernelStep(c) PROVE TInv'
    BY <2>2, TableEntry, TableReturn DEF KernelStep
  <2> QED
    BY <2>1, <2>2, TableEntry, TableTrap DEF Next
<1> QED
  BY <1>1, <1>2, KernelInvariant, PTL DEF Spec

\* No environment runs on two CPUs at once, through forks, exits, kills, wake-ups
\* and reuse of slots: the scheduler hands out only environments that no CPU has.
THEOREM KernelOneCpuPerEnv == LIBOS => (Spec => []OneCpuPerEnv)
<1>1. TInv => OneCpuPerEnv
  BY DEF TInv
<1> QED
  BY <1>1, KernelTableInvariant, PTL

\* Outside handlers the table and the CPUs agree, and every zombie has a CPU that
\* will trap and free it.
THEOREM KernelStatusMatchesCpus == LIBOS => (Spec => []StatusMatchesCpus)
<1>1. KInv /\ TInv => StatusMatchesCpus
  <2> SUFFICES ASSUME KInv, TInv, NEW c \in CPUs, curenv[c] # NULL, kernel_lock # c
               PROVE  env_status[curenv[c]] \in {"RUNNING", "DYING"}
    BY DEF StatusMatchesCpus, TInv, RunningHasCpu
  <2>1. pc[c] \notin InKernel
    BY DEF KInv, LockHeldInKernel
  <2> QED
    BY <2>1 DEF TInv, CurenvStatus, CurOK, InKernel
<1> QED
  BY <1>1, KernelInvariant, KernelTableInvariant, PTL

\* The free list holds every free slot once and nothing else.
THEOREM KernelFreeListExact == LIBOS => (Spec => []FreeListExact)
<1>1. TInv => FreeListExact
  BY DEF TInv
<1> QED
  BY <1>1, KernelTableInvariant, PTL

\* Who is marked as receiving is blocked, so that a send wakes nobody who runs.
THEOREM KernelRecvingIsBlocked == LIBOS => (Spec => []RecvingIsBlocked)
<1>1. TInv => RecvingIsBlocked
  BY DEF TInv
<1> QED
  BY <1>1, KernelTableInvariant, PTL

-----------------------------------------------------------------------------
\* What a step may do to an environment that is dying or blocked.
Bien(e) ==
    /\ env_status[e] = "DYING" =>
         \/ env_status'[e] = "DYING"
         \/ /\ env_status'[e] = "FREE"
            /\ \E c \in CPUs : kernel_lock = c /\ curenv[c] = e
    /\ env_status[e] = "NOT_RUNNABLE" => env_status'[e] # "RUNNING"

LEMMA StatusStep ==
    ASSUME KInv, TInv, LIBOS, [Next]_vars, NEW e \in Slots
    PROVE  Bien(e)
<1>1. env_status \in [Slots -> Statuses]
  BY DEF KInv, TypeOK
<1>2. ASSUME UNCHANGED env_status PROVE Bien(e)
  BY <1>2 DEF Bien
<1>3. ASSUME NEW c \in CPUs, NEW f \in Slots, EnvRun(c, f),
             env_status[f] \in {"RUNNABLE", "RUNNING"}
      PROVE  Bien(e)
  <2>1. env_status'[e] = IF e = f THEN "RUNNING"
                         ELSE IF e = curenv[c] /\ env_status[e] = "RUNNING"
                              THEN "RUNNABLE" ELSE env_status[e]
    BY <1>3 DEF EnvRun
  <2> QED
    BY <1>3, <2>1 DEF Bien
<1>4. ASSUME NEW f \in Slots, NEW s, env_status' = [env_status EXCEPT ![f] = s],
             env_status[f] # "DYING" \/ f # e, s # "RUNNING"
      PROVE  Bien(e)
  BY <1>1, <1>4 DEF Bien
<1>5. ASSUME NEW c \in CPUs, pc[c] = "trap", EnvFree(curenv[c]) PROVE Bien(e)
  <2>1. kernel_lock = c
    BY <1>5 DEF KInv, LockHeldInKernel, InKernel
  <2>2. env_status' = [env_status EXCEPT ![curenv[c]] = "FREE"]
    BY <1>5 DEF EnvFree
  <2> QED
    BY <1>1, <2>1, <2>2 DEF Bien
<1>6. ASSUME NEW c \in CPUs, NEW id, NEW s, EnvAlloc(c, id, s),
             s \in {"RUNNABLE", "NOT_RUNNABLE"}
      PROVE  Bien(e)
  <2>1. /\ env_free_list # <<>>
        /\ env_status' = [env_status EXCEPT ![Head(env_free_list)] = s]
        /\ env_free_list' = Tail(env_free_list)
    BY <1>6 DEF EnvAlloc
  <2>2. /\ Head(env_free_list) \in Slots
        /\ env_status[Head(env_free_list)] = "FREE"
    BY <1>6, <2>1, FreeListPopped DEF KInv, TInv, Statuses
  <2> QED
    BY <1>1, <1>6, <2>1, <2>2 DEF Bien
<1>7. CASE UNCHANGED vars
  BY <1>2, <1>7 DEF vars
<1>8. ASSUME NEW c \in CPUs,
             \/ MpMain(c) \/ BootDone(c) \/ Resume(c) \/ TrapUser(c)
             \/ TimerHalted(c) \/ LockKernel(c) \/ Monitor(c)
      PROVE  Bien(e)
  <2>1. UNCHANGED env_status
    BY <1>8 DEF MpMain, BootDone, Resume, TrapUser, TimerHalted, LockKernel,
       Monitor, vars
  <2> QED
    BY <1>2, <2>1
<1>9. ASSUME NEW c \in CPUs, EnvCreate(c) PROVE Bien(e)
  BY <1>6, <1>9 DEF EnvCreate
<1>10. ASSUME NEW c \in CPUs, Reap(c) PROVE Bien(e)
  BY <1>5, <1>10 DEF Reap
<1>11. ASSUME NEW c \in CPUs, TrapReturn(c) PROVE Bien(e)
  <2>1. curenv[c] \in Slots
    BY <1>11 DEF TrapReturn, KInv, CurenvIsSet, ConCurenv
  <2> QED
    BY <1>2, <1>3, <1>11, <2>1 DEF TrapReturn
<1>12. ASSUME NEW c \in CPUs, SchedYield(c) PROVE Bien(e)
  <2>1. CASE \E f \in Slots : env_status[f] = "RUNNABLE" /\ EnvRun(c, f)
    BY <1>3, <2>1
  <2>2. CASE Corre(c) /\ curenv[c] \in Slots /\ EnvRun(c, curenv[c])
    BY <1>3, <2>2 DEF Corre
  <2>3. CASE SchedHalt(c)
    BY <1>2, <2>3 DEF SchedHalt
  <2> QED
    BY <1>12, <2>1, <2>2, <2>3, SchedDecides
<1>13. ASSUME NEW c \in CPUs, Trap(c) PROVE Bien(e)
  <2>1. EnServicio(c)
    BY <1>13 DEF Trap, Timer, OtherTrap, PageFaultUpcall, DestroySelf,
       DestroyChild, Exofork, SetStatus, IpcRecv, IpcRecvInvalid, IpcTrySend,
       AsignarPrioridad
  <2>2. pc[c] = "trap" /\ curenv[c] \in Slots
    BY <2>1 DEF EnServicio, KInv, CurenvIsSet, ConCurenv
  <2>3. env_status[curenv[c]] = "RUNNING"
    BY <2>1, <2>2 DEF EnServicio, TInv, CurenvStatus, CurOK, Slots, NULL
  <2>4. \A id, b : Envid2env(c, id, b) \subseteq Slots
    BY Envid2envIsSlot DEF KInv
  <2>5. CASE Timer(c) \/ OtherTrap(c) \/ AsignarPrioridad(c)
    BY <1>2, <2>5 DEF Timer, OtherTrap, AsignarPrioridad
  <2>6. CASE PageFaultUpcall(c)
    BY <1>3, <2>2, <2>3, <2>6 DEF PageFaultUpcall
  <2>7. CASE DestroySelf(c)
    BY <1>5, <2>2, <2>7 DEF DestroySelf
  <2>8. CASE DestroyChild(c)
    <3>1. PICK f \in Slots, s \in {"DYING", "FREE"} :
             /\ env_status[f] # "DYING"
             /\ env_status' = [env_status EXCEPT ![f] = s]
      BY <2>4, <2>8 DEF DestroyChild, EnvFree
    <3> QED
      BY <1>4, <3>1
  <2>9. CASE Exofork(c)
    BY <1>6, <2>9 DEF Exofork
  <2>10. CASE SetStatus(c)
    <3>1. PICK f \in Slots :
             /\ env_status[f] = "NOT_RUNNABLE"
             /\ env_status' = [env_status EXCEPT ![f] = "RUNNABLE"]
      BY <2>4, <2>10 DEF SetStatus
    <3> QED
      BY <1>4, <3>1
  <2>11. CASE IpcRecv(c)
    <3>1. env_status' = [env_status EXCEPT ![curenv[c]] = "NOT_RUNNABLE"]
      BY <2>11 DEF IpcRecv
    <3> QED
      BY <1>4, <2>2, <2>3, <3>1
  <2>12. CASE IpcTrySend(c)
    <3>1. PICK id \in EnvIds : \E f \in Envid2env(c, id, FALSE) :
             /\ env_ipc_recving[f]
             /\ env_status' = [env_status EXCEPT ![f] = "RUNNABLE"]
      BY <2>12 DEF IpcTrySend
    <3>2. id # ID_0
      BY DEF EnvIds, ID_0
    <3>3. PICK f \in Slots :
             /\ env_ipc_recving[f] /\ env_status[f] # "FREE"
             /\ env_status' = [env_status EXCEPT ![f] = "RUNNABLE"]
      BY <2>4, <3>1, <3>2 DEF Envid2env
    <3>4. env_status[f] = "NOT_RUNNABLE"
      BY <3>3 DEF TInv, RecvingIsBlocked
    <3> QED
      BY <1>4, <3>3, <3>4
  <2>13. ~IpcRecvInvalid(c)
    BY DEF IpcRecvInvalid
  <2> QED
    BY <1>13, <2>5, <2>6, <2>7, <2>8, <2>9, <2>10, <2>11, <2>12, <2>13 DEF Trap
<1>14. CASE Next
  <2>1. PICK c \in CPUs : \/ KernelStep(c) \/ Trap(c) \/ LockKernel(c)
                          \/ TrapUser(c) \/ TimerHalted(c) \/ Monitor(c)
    BY <1>14 DEF Next
  <2>2. CASE KernelStep(c)
    BY <1>8, <1>9, <1>10, <1>11, <1>12, <2>2 DEF KernelStep, Boot
  <2>3. CASE Trap(c)
    BY <1>13, <2>3
  <2>4. CASE LockKernel(c) \/ TrapUser(c) \/ TimerHalted(c) \/ Monitor(c)
    BY <1>8, <2>4
  <2> QED
    BY <2>1, <2>2, <2>3, <2>4
<1> QED
  BY <1>7, <1>14

\* "A zombie environment will be freed the next time it traps to the kernel"
\* (env.c:479), and only then.
THEOREM KernelZombieFreedByItsTrap == LIBOS => (Spec => ZombieFreedByItsTrap)
<1> DEFINE Zombie == \A e \in Slots : env_status[e] = "DYING"
                        => \/ env_status'[e] = "DYING"
                           \/ /\ env_status'[e] = "FREE"
                              /\ \E c \in CPUs : kernel_lock = c /\ curenv[c] = e
<1> SUFFICES ASSUME LIBOS PROVE Spec => [][Zombie]_vars
  BY DEF ZombieFreedByItsTrap
<1>1. KInv /\ TInv /\ [Next]_vars => Zombie
  BY StatusStep DEF Bien
<1> HIDE DEF Zombie
<1>2. Spec => []TInv
  BY KernelTableInvariant
<1> QED
  BY <1>1, <1>2, KernelInvariant, PTL DEF Spec

\* No path through trap() puts an environment that blocked back on its CPU.
THEOREM KernelBlockedStaysBlocked == LIBOS => (Spec => BlockedStaysBlocked)
<1> DEFINE Bloqueado == \A e \in Slots : env_status[e] = "NOT_RUNNABLE"
                           => env_status'[e] # "RUNNING"
<1> SUFFICES ASSUME LIBOS PROVE Spec => [][Bloqueado]_vars
  BY DEF BlockedStaysBlocked
<1>1. KInv /\ TInv /\ [Next]_vars => Bloqueado
  BY StatusStep DEF Bien
<1> HIDE DEF Bloqueado
<1>2. Spec => []TInv
  BY KernelTableInvariant
<1> QED
  BY <1>1, <1>2, KernelInvariant, PTL DEF Spec

-----------------------------------------------------------------------------
\* Who changes the place, the environment and env_cpunum of a CPU in user mode:
\* the CPU itself, and Resume is the only step that writes env_cpunum.
LEMMA CpunumStep ==
    ASSUME KInv, TInv, CpunumIsCurrent, [Next]_vars
    PROVE  CpunumIsCurrent'
<1> SUFFICES ASSUME NEW d \in CPUs, pc'[d] \in {"user", "spin_user"}
             PROVE  env_cpunum'[curenv'[d]] = d
  BY DEF CpunumIsCurrent
<1>0. /\ pc \in [CPUs -> Points]
      /\ env_cpunum \in [Slots -> CPUs]
      /\ curenv \in [CPUs -> Slots \cup {NULL}]
  BY DEF KInv, TypeOK
<1>1. ASSUME UNCHANGED env_cpunum, pc[d] \in {"user", "spin_user"},
             curenv'[d] = curenv[d]
      PROVE  env_cpunum'[curenv'[d]] = d
  BY <1>1 DEF CpunumIsCurrent
<1>2. CASE UNCHANGED vars
  BY <1>1, <1>2 DEF vars
<1>3. ASSUME NEW c \in CPUs, Resume(c) PROVE env_cpunum'[curenv'[d]] = d
  <2>1. /\ curenv[c] \in Slots /\ UNCHANGED curenv
        /\ env_cpunum' = [env_cpunum EXCEPT ![curenv[c]] = c]
        /\ pc' = [pc EXCEPT ![c] = "user"]
    BY <1>3 DEF Resume, Goto, KInv, CurenvIsSet, ConCurenv
  <2>2. CASE d = c
    BY <1>0, <2>1, <2>2
  <2>3. CASE d # c
    <3>1. pc[d] \in {"user", "spin_user"}
      BY <1>0, <2>1, <2>3
    <3>2. curenv[d] \in Slots
      BY <3>1 DEF KInv, CurenvIsSet, ConCurenv
    <3>3. curenv[d] # curenv[c]
      BY <2>1, <2>3 DEF TInv, OneCpuPerEnv, Slots, NULL
    <3> QED
      BY <1>0, <2>1, <3>1, <3>2, <3>3 DEF CpunumIsCurrent
  <2> QED
    BY <2>2, <2>3
<1>4. ASSUME NEW c \in CPUs, EnvCreate(c) \/ Monitor(c)
      PROVE  env_cpunum'[curenv'[d]] = d
  BY <1>1, <1>4 DEF EnvCreate, Monitor, cpuVars, vars
<1>5. ASSUME NEW c \in CPUs, TrapUser(c) PROVE env_cpunum'[curenv'[d]] = d
  <2>1. /\ pc[c] = "user" /\ UNCHANGED <<env_cpunum, curenv>>
        /\ \E p : pc' = [pc EXCEPT ![c] = p]
    BY <1>5 DEF TrapUser, Goto
  <2> QED
    BY <1>0, <1>1, <2>1
<1>6. ASSUME NEW c \in CPUs, NEW p, p \notin {"user", "spin_user"},
             pc' = [pc EXCEPT ![c] = p], UNCHANGED env_cpunum,
             UNCHANGED curenv \/ \E x : curenv' = [curenv EXCEPT ![c] = x]
      PROVE  env_cpunum'[curenv'[d]] = d
  <2>1. d # c
    BY <1>0, <1>6
  <2> QED
    BY <1>0, <1>1, <1>6, <2>1
<1>7. ASSUME NEW c \in CPUs,
             MpMain(c) \/ BootDone(c) \/ TimerHalted(c) \/ LockKernel(c) \/ Reap(c)
      PROVE  env_cpunum'[curenv'[d]] = d
  <2>1. PICK p \in {"spin_sched", "yield", "boot", "trap"} :
           pc' = [pc EXCEPT ![c] = p]
    BY <1>7 DEF MpMain, BootDone, TimerHalted, LockKernel, Reap, Goto, Spinning
  <2> QED
    BY <1>6, <1>7, <2>1 DEF MpMain, BootDone, TimerHalted, LockKernel, Reap
<1>8. ASSUME NEW c \in CPUs, pc[c] \in InKernel, UNCHANGED env_cpunum,
             (\E e : EnvRun(c, e)) \/ SchedHalt(c)
      PROVE  env_cpunum'[curenv'[d]] = d
  <2>1. kernel_lock = c
    BY <1>8 DEF KInv, LockHeldInKernel
  <2>2. PICK p \in {"resume", "monitor", "halted"} : pc' = [pc EXCEPT ![c] = p]
    BY <1>8, <2>1, LiberaProperties DEF EnvRun, SchedHalt, Goto
  <2>3. UNCHANGED curenv \/ \E x : curenv' = [curenv EXCEPT ![c] = x]
    BY <1>8 DEF EnvRun, SchedHalt
  <2> QED
    BY <1>6, <1>8, <2>2, <2>3
<1>9. ASSUME NEW c \in CPUs, TrapReturn(c) \/ SchedYield(c) \/ PageFaultUpcall(c)
      PROVE  env_cpunum'[curenv'[d]] = d
  <2>1. pc[c] \in InKernel /\ UNCHANGED env_cpunum
    BY <1>9, SchedDecides DEF TrapReturn, PageFaultUpcall, EnServicio, InKernel
  <2>2. CASE (\E e : EnvRun(c, e)) \/ SchedHalt(c)
    BY <1>8, <2>1, <2>2
  <2>3. CASE Goto(c, "yield") /\ UNCHANGED curenv
    BY <1>6, <2>1, <2>3 DEF Goto
  <2> QED
    BY <1>9, <2>2, <2>3, SchedDecides DEF TrapReturn, PageFaultUpcall
<1>10. ASSUME NEW c \in CPUs, Trap(c), ~PageFaultUpcall(c)
       PROVE  env_cpunum'[curenv'[d]] = d
  <2>1. /\ Goto(c, "yield") \/ Goto(c, "ret")
        /\ UNCHANGED env_cpunum
        /\ UNCHANGED curenv \/ curenv' = [curenv EXCEPT ![c] = NULL]
    BY <1>10 DEF Trap, Timer, OtherTrap, DestroySelf, DestroyChild, Exofork,
       SetStatus, IpcRecv, IpcRecvInvalid, IpcTrySend, AsignarPrioridad
  <2> QED
    BY <1>6, <2>1 DEF Goto
<1> QED
  BY <1>2, <1>3, <1>4, <1>5, <1>7, <1>9, <1>10 DEF Next, KernelStep, Boot

\* A program reads the number of the CPU it runs on, although env_run writes
\* env_cpunum after it has released the lock.
THEOREM KernelCpunumIsCurrent == LIBOS => (Spec => []CpunumIsCurrent)
<1> SUFFICES ASSUME LIBOS PROVE Spec => []CpunumIsCurrent
  OBVIOUS
<1>1. Init => CpunumIsCurrent
  BY DEF Init, CpunumIsCurrent
<1>2. KInv /\ TInv /\ CpunumIsCurrent /\ [Next]_vars => CpunumIsCurrent'
  BY CpunumStep
<1>3. Spec => []TInv
  BY KernelTableInvariant
<1> QED
  BY <1>1, <1>2, <1>3, KernelInvariant, PTL DEF Spec

-----------------------------------------------------------------------------
\* round_robin stops somewhere if anything is runnable: the distances are natural
\* numbers, so one of them is least.
LEMMA SiguienteExists ==
    ASSUME KInv, NEW c \in CPUs, NEW f \in Slots, env_status[f] = "RUNNABLE"
    PROVE  \E e \in Slots : Siguiente(c, e)
<1> DEFINE R == {e \in Slots : env_status[e] = "RUNNABLE"}
           D == {Distancia(c, e) : e \in R}
<1>1. D \subseteq Nat
  <2>1. ASSUME NEW e \in Slots PROVE Distancia(c, e) \in Nat
    <3> DEFINE x == e - (IF curenv[c] = NULL THEN 0 ELSE curenv[c] + 1)
    <3>1. curenv[c] \in Int /\ e \in Int
      BY NENVAssumption DEF KInv, TypeOK, Slots, NULL
    <3>2. x \in Int
      BY <3>1
    <3>3. Distancia(c, e) = x % NENV
      BY DEF Distancia
    <3> HIDE DEF x
    <3>4. x % NENV \in 0 .. NENV - 1
      BY <3>2, NENVAssumption
    <3> QED
      BY <3>3, <3>4, NENVAssumption
  <2> QED
    BY <2>1
<1>2. D # {}
  OBVIOUS
<1>3. PICK x \in D : \A y \in D : <<y, x>> \notin OpToRel(<, Nat)
  <2> HIDE DEF D
  <2> QED
    BY <1>1, <1>2, WFMin, NatLessThanWellFounded
<1>4. \A y \in D : x <= y
  <2> HIDE DEF D
  <2>1. \A y \in D : ~(y < x)
    BY <1>1, <1>3 DEF OpToRel
  <2> QED
    BY <1>1, <2>1
<1>5. PICK e \in R : x = Distancia(c, e)
  OBVIOUS
<1> QED
  BY <1>4, <1>5 DEF Siguiente

\* Only sched_yield sends a CPU into the halt loop.
LEMMA WhoHalts ==
    ASSUME KInv, [Next]_vars, NEW c \in CPUs, pc[c] = "yield", pc'[c] = "halted"
    PROVE  SchedYield(c) /\ SchedHalt(c)
<1>0. pc \in [CPUs -> Points] /\ kernel_lock = c
  BY DEF KInv, TypeOK, LockHeldInKernel, InKernel
<1>1. ASSUME NEW d \in CPUs, NEW p, Goto(d, p), p # "halted" PROVE FALSE
  BY <1>0, <1>1 DEF Goto
<1>2. ASSUME NEW d \in CPUs, NEW e, EnvRun(d, e), pc[d] \in InKernel PROVE FALSE
  <2>1. Goto(d, "resume") \/ Goto(d, "panic")
    BY <1>2 DEF EnvRun, Libera
  <2> QED
    BY <1>1, <2>1
<1>3. ~UNCHANGED vars
  BY DEF vars
<1>4. ASSUME NEW d \in CPUs, EnvCreate(d) \/ Monitor(d) PROVE FALSE
  BY <1>4 DEF EnvCreate, Monitor, cpuVars, vars
<1>5. ASSUME NEW d \in CPUs, \/ MpMain(d) \/ BootDone(d) \/ TimerHalted(d)
                             \/ TrapUser(d) \/ Resume(d) \/ Reap(d)
      PROVE  FALSE
  BY <1>1, <1>5 DEF MpMain, BootDone, TimerHalted, TrapUser, Resume, Reap
<1>6. ASSUME NEW d \in CPUs, LockKernel(d) PROVE FALSE
  <2>1. Goto(d, "boot") \/ Goto(d, "trap") \/ Goto(d, "yield")
    BY <1>6 DEF LockKernel, Spinning
  <2> QED
    BY <1>1, <2>1
<1>7. ASSUME NEW d \in CPUs, Trap(d) PROVE FALSE
  <2>1. Goto(d, "yield") \/ Goto(d, "ret") \/ PageFaultUpcall(d)
    BY <1>7 DEF Trap, Timer, OtherTrap, DestroySelf, DestroyChild, Exofork,
       SetStatus, IpcRecv, IpcRecvInvalid, IpcTrySend, AsignarPrioridad
  <2>2. ~PageFaultUpcall(d)
    BY <1>2 DEF PageFaultUpcall, EnServicio, InKernel
  <2> QED
    BY <1>1, <2>1, <2>2
<1>8. ASSUME NEW d \in CPUs, TrapReturn(d) PROVE FALSE
  BY <1>1, <1>2, <1>8 DEF TrapReturn, InKernel
<1>9. PICK d \in CPUs : SchedYield(d)
  BY <1>3, <1>4, <1>5, <1>6, <1>7, <1>8 DEF Next, KernelStep, Boot
<1>10. pc[d] = "yield"
  BY <1>9, SchedDecides
<1>11. d = c
  BY <1>0, <1>10 DEF KInv, LockHeldInKernel, InKernel
<1>12. \A e : ~EnvRun(c, e)
  BY <1>2 DEF InKernel
<1> QED
  BY <1>9, <1>11, <1>12, SchedDecides

\* Under round robin a CPU halts only when there is nothing to run (sched.c:264),
\* whatever the programs do.
THEOREM KernelHaltsOnlyIdle == ~SCHED_PRIORITIES => (Spec => HaltsOnlyIdle)
<1> DEFINE Ociosa == \A c \in CPUs : pc[c] = "yield" /\ pc'[c] = "halted"
                        => \A e \in Slots : env_status[e] # "RUNNABLE"
<1> SUFFICES ASSUME ~SCHED_PRIORITIES PROVE Spec => [][Ociosa]_vars
  BY DEF HaltsOnlyIdle
<1>1. KInv /\ [Next]_vars => Ociosa
  <2> SUFFICES ASSUME KInv, [Next]_vars, NEW c \in CPUs,
                      pc[c] = "yield", pc'[c] = "halted",
                      NEW f \in Slots, env_status[f] = "RUNNABLE"
               PROVE  FALSE
    OBVIOUS
  <2>1. RoundRobin(c)
    BY WhoHalts DEF SchedYield, PrioridadMLFQ
  <2>2. \A e : ~EnvRun(c, e)
    <3>1. \A p : p # "halted" => ~Goto(c, p)
      BY DEF Goto, KInv, TypeOK
    <3> QED
      BY <3>1 DEF EnvRun, Libera
  <2>3. \A e \in Slots : ~Siguiente(c, e)
    BY <2>1, <2>2 DEF RoundRobin
  <2> QED
    BY <2>3, SiguienteExists
<1> HIDE DEF Ociosa
<1> QED
  BY <1>1, KernelInvariant, PTL DEF Spec

-----------------------------------------------------------------------------
\* No CPU is sent into the monitor.
NoNewMonitor == \A c \in CPUs : pc'[c] = "monitor" => pc[c] = "monitor"

\* A step leaves the statuses alone, or it is made by a CPU in the kernel and not
\* in the monitor; and only sched_halt sends a CPU into the monitor.
LEMMA WhoWrites ==
    ASSUME KInv, [Next]_vars
    PROVE  \/ UNCHANGED env_status /\ NoNewMonitor
           \/ NoNewMonitor /\ \E d \in CPUs : pc[d] \in InKernel \ {"monitor"}
           \/ \E d \in CPUs : pc[d] = "yield" /\ SchedHalt(d)
<1>0. pc \in [CPUs -> Points]
  BY DEF KInv, TypeOK
<1>1. ASSUME NEW d \in CPUs, NEW p, Goto(d, p), p # "monitor" PROVE NoNewMonitor
  BY <1>0, <1>1 DEF Goto, NoNewMonitor
<1>2. ASSUME NEW d \in CPUs, NEW e, EnvRun(d, e) PROVE NoNewMonitor
  <2>1. Goto(d, "resume") \/ Goto(d, "panic")
    BY <1>2 DEF EnvRun, Libera
  <2> QED
    BY <1>1, <2>1
<1>3. CASE UNCHANGED vars
  BY <1>3 DEF vars, NoNewMonitor
<1>4. ASSUME NEW d \in CPUs, Monitor(d)
      PROVE  UNCHANGED env_status /\ NoNewMonitor
  BY <1>4 DEF Monitor, vars, NoNewMonitor
<1>5. ASSUME NEW d \in CPUs, EnvCreate(d)
      PROVE  pc[d] \in InKernel \ {"monitor"} /\ NoNewMonitor
  BY <1>5 DEF EnvCreate, cpuVars, NoNewMonitor, InKernel
<1>6. ASSUME NEW d \in CPUs, \/ MpMain(d) \/ BootDone(d) \/ TimerHalted(d)
                             \/ TrapUser(d) \/ Resume(d)
      PROVE  UNCHANGED env_status /\ NoNewMonitor
  BY <1>1, <1>6 DEF MpMain, BootDone, TimerHalted, TrapUser, Resume
<1>7. ASSUME NEW d \in CPUs, LockKernel(d)
      PROVE  UNCHANGED env_status /\ NoNewMonitor
  <2>1. Goto(d, "boot") \/ Goto(d, "trap") \/ Goto(d, "yield")
    BY <1>7 DEF LockKernel, Spinning
  <2> QED
    BY <1>1, <1>7, <2>1 DEF LockKernel
<1>8. ASSUME NEW d \in CPUs, Trap(d) \/ Reap(d) \/ TrapReturn(d)
      PROVE  pc[d] \in InKernel \ {"monitor"} /\ NoNewMonitor
  <2>1. Goto(d, "yield") \/ Goto(d, "ret") \/ \E e : EnvRun(d, e)
    BY <1>8 DEF Trap, Timer, OtherTrap, DestroySelf, DestroyChild, Exofork,
       SetStatus, IpcRecv, IpcRecvInvalid, IpcTrySend, AsignarPrioridad,
       PageFaultUpcall, Reap, TrapReturn
  <2>2. pc[d] \in {"trap", "ret"}
    BY <1>8 DEF Trap, Timer, OtherTrap, DestroySelf, DestroyChild, Exofork,
       SetStatus, IpcRecv, IpcRecvInvalid, IpcTrySend, AsignarPrioridad,
       PageFaultUpcall, EnServicio, Reap, TrapReturn
  <2> QED
    BY <1>1, <1>2, <2>1, <2>2 DEF InKernel
<1>9. ASSUME NEW d \in CPUs, SchedYield(d)
      PROVE  /\ pc[d] = "yield" /\ pc[d] \in InKernel \ {"monitor"}
             /\ NoNewMonitor \/ SchedHalt(d)
  BY <1>2, <1>9, SchedDecides DEF InKernel
<1> QED
  BY <1>3, <1>4, <1>5, <1>6, <1>7, <1>8, <1>9 DEF Next, KernelStep, Boot

\* A CPU stays in the monitor, lock in hand, only when no environment is left
\* that would want a CPU; nobody can make one runnable later.
THEOREM KernelMonitorOnlyWhenDone == Spec => []MonitorOnlyWhenDone
<1>1. Init => MonitorOnlyWhenDone
  BY DEF Init, MonitorOnlyWhenDone
<1>2. KInv /\ MonitorOnlyWhenDone /\ [Next]_vars => MonitorOnlyWhenDone'
  <2> SUFFICES ASSUME KInv, MonitorOnlyWhenDone, [Next]_vars,
                      NEW c \in CPUs, pc'[c] = "monitor", NEW e \in Slots
               PROVE  env_status'[e] \in {"FREE", "NOT_RUNNABLE"}
    BY DEF MonitorOnlyWhenDone
  <2>1. CASE UNCHANGED env_status /\ NoNewMonitor
    BY <2>1 DEF NoNewMonitor, MonitorOnlyWhenDone
  <2>2. ASSUME NoNewMonitor, NEW d \in CPUs, pc[d] \in InKernel \ {"monitor"}
        PROVE  FALSE
    <3>1. pc[c] = "monitor"
      BY <2>2 DEF NoNewMonitor
    <3>2. kernel_lock = c /\ kernel_lock = d
      BY <2>2, <3>1 DEF KInv, LockHeldInKernel, InKernel
    <3> QED
      BY <2>2, <3>1, <3>2
  <2>3. ASSUME NEW d \in CPUs, pc[d] = "yield", SchedHalt(d)
        PROVE  env_status'[e] \in {"FREE", "NOT_RUNNABLE"}
    <3>0. pc \in [CPUs -> Points] /\ env_status \in [Slots -> Statuses]
      BY DEF KInv, TypeOK
    <3>1. CASE \A f \in Slots : env_status[f] \notin {"RUNNABLE", "RUNNING", "DYING"}
      BY <2>3, <3>0, <3>1 DEF SchedHalt, Statuses
    <3>2. CASE Libera(d, "halted")
      <4>1. kernel_lock = d /\ pc[d] \in InKernel
        BY <2>3 DEF KInv, LockHeldInKernel, InKernel
      <4>2. pc' = [pc EXCEPT ![d] = "halted"]
        BY <3>2, <4>1, LiberaProperties
      <4>3. c # d /\ pc[c] = "monitor"
        BY <3>0, <4>2
      <4> QED
        BY <4>1, <4>3 DEF KInv, LockHeldInKernel, InKernel
    <3> QED
      BY <2>3, <3>1, <3>2 DEF SchedHalt
  <2> QED
    BY <2>1, <2>2, <2>3, WhoWrites
<1> QED
  BY <1>1, <1>2, KernelInvariant, PTL DEF Spec

-----------------------------------------------------------------------------
(***************************************************************************)
(* Proofs about the MLFQ build, for any number of CPUs and slots and any   *)
(* programs, as long as the queues do not overflow: MAX_ENTRADAS <= NENV.  *)
(*                                                                         *)
(* A place is a queue and a position in it.  Every operation of sched.c    *)
(* takes the entries it does not drop to new places, no two to the same    *)
(* one (Conserva): so no slot ever loses an entry, and a slot with two     *)
(* entries keeps two.  That is why RunnableQueued and                      *)
(* PriorityRespectedIfUnique hold: an entry that was always alone is where *)
(* cola_actual says (Localiza).                                            *)
(***************************************************************************)

Lugares(cs) == {x \in Colas \X Nat : x[2] \in 1 .. Len(cs[x[1]])}

\* The slot of the entry at place x.
SlotDe(cs, x) == ENVX(cs[x[1]][x[2]])

\* The entries of cs are in ds, each at a place of its own.
Conserva(cs, ds) ==
    \E L \in [Lugares(cs) -> Lugares(ds)] :
        /\ \A x, y \in Lugares(cs) : L[x] = L[y] => x = y
        /\ \A x \in Lugares(cs) : SlotDe(ds, L[x]) = SlotDe(cs, x)

Tiene(cs, e) == \E x \in Lugares(cs) : SlotDe(cs, x) = e

UnicaEn(cs, e) ==
    \A x, y \in Lugares(cs) : SlotDe(cs, x) = e /\ SlotDe(cs, y) = e => x = y

\* cola_actual (here ca) names the queue of every entry that is alone.
Localiza(cs, ca) ==
    \A x \in Lugares(cs) :
        UnicaEn(cs, SlotDe(cs, x)) => ca[SlotDe(cs, x)] = x[1]

-----------------------------------------------------------------------------
\* Arithmetic of the ring

\* Two positions of a window that fits into the ring are not the same cell.
LEMMA AliasIsEqual ==
    ASSUME NEW j \in Int, NEW k \in Int, j - k < NENV, k - j < NENV
    PROVE  Alias(j, k) <=> j = k
<1> DEFINE d == (j - k) \div NENV
<1>1. d \in Int /\ (j - k) % NENV \in 0 .. NENV - 1
  BY NENVAssumption
<1>2. j - k = NENV * d + ((j - k) % NENV)
  BY NENVAssumption
<1> HIDE DEF d
<1>3. ASSUME Alias(j, k) PROVE j = k
  <2>1. j - k = NENV * d
    BY <1>1, <1>2, <1>3, NENVAssumption DEF Alias
  <2>2. d >= 1 => NENV * d >= NENV
    BY <1>1, NENVAssumption
  <2>3. d <= -1 => NENV * d <= -NENV
    BY <1>1, NENVAssumption
  <2>4. d = 0
    BY <1>1, <2>1, <2>2, <2>3, NENVAssumption
  <2> QED
    BY <2>1, <2>4, NENVAssumption
<1>4. j = k => Alias(j, k)
  BY NENVAssumption DEF Alias
<1> QED
  BY <1>3, <1>4

\* sched_agregar_env while there is room.
LEMMA AgregarRoom ==
    ASSUME NEW S, NEW q \in Seq(S), NEW id \in S, Len(q) < NENV
    PROVE  /\ Agregar(q, id) \in Seq(S)
           /\ Len(Agregar(q, id)) = Len(q) + 1
           /\ Agregar(q, id)[Len(q) + 1] = id
           /\ \A k \in 1 .. Len(q) : Agregar(q, id)[k] = q[k]
<1>1. Len(q) \in Nat
  BY LenProperties
<1>2. \A k \in 1 .. Len(q) + 1 : Alias(k, Len(q) + 1) <=> k = Len(q) + 1
  BY <1>1, AliasIsEqual, NENVAssumption
<1>3. \A k \in 1 .. Len(q) + 1 :
         Agregar(q, id)[k] = IF k = Len(q) + 1 THEN id ELSE q[k]
  BY <1>1, <1>2 DEF Agregar
<1>4. Agregar(q, id)[Len(q) + 1] = id
  BY <1>1, <1>3
<1>5. \A k \in 1 .. Len(q) : Agregar(q, id)[k] = q[k]
  BY <1>1, <1>3
<1>6. Agregar(q, id) \in Seq(S) /\ Len(Agregar(q, id)) = Len(q) + 1
  BY AgregarProperties
<1> QED
  BY <1>4, <1>5, <1>6

\* Where sched_borrar_env of position j leaves position k.
Borrado(j, k) == IF k = 1 THEN j - 1 ELSE k - 1

\* sched_borrar_env while the window fits into the ring.
LEMMA BorrarRoom ==
    ASSUME NEW S, NEW q \in Seq(S), NEW j \in 1 .. Len(q), Len(q) <= NENV
    PROVE  /\ Borrar(q, j) \in Seq(S)
           /\ Len(Borrar(q, j)) = Len(q) - 1
           /\ \A k \in 1 .. Len(q) \ {j} :
                /\ Borrado(j, k) \in 1 .. Len(q) - 1
                /\ Borrar(q, j)[Borrado(j, k)] = q[k]
           /\ \A k \in 1 .. Len(q) - 1 : \E i \in 1 .. Len(q) :
                i # j /\ Borrar(q, j)[k] = q[i]
<1> DEFINE w == [k \in 1 .. Len(q) |->
                   IF Alias(k, j) THEN q[1] ELSE IF Alias(k, 1) THEN q[j] ELSE q[k]]
<1>1. Len(q) \in Nat /\ 1 \in 1 .. Len(q)
  BY LenProperties
<1>2. \A k, i \in 1 .. Len(q) : Alias(k, i) <=> k = i
  BY <1>1, AliasIsEqual, NENVAssumption
<1>3. w = [k \in 1 .. Len(q) |->
             IF k = j THEN q[1] ELSE IF k = 1 THEN q[j] ELSE q[k]]
  BY <1>1, <1>2
<1>4. Borrar(q, j) = Tail(w)
  BY DEF Borrar
<1> HIDE DEF w
<1>5. w \in [1 .. Len(q) -> S]
  BY <1>1, <1>3, ElementOfSeq
<1>6. w \in Seq(S) /\ Len(w) = Len(q)
  BY <1>1, <1>5, FunctionIsSeq
<1>7. \A k \in 1 .. Len(q) - 1 : Tail(w)[k] = w[k + 1]
  BY <1>1, <1>6
<1>8. \A k \in 1 .. Len(q) \ {j} :
         /\ Borrado(j, k) \in 1 .. Len(q) - 1
         /\ w[Borrado(j, k) + 1] = q[k]
  BY <1>1, <1>3 DEF Borrado
<1>9. ASSUME NEW k \in 1 .. Len(q) - 1
      PROVE  \E i \in 1 .. Len(q) : i # j /\ w[k + 1] = q[i]
  <2>1. CASE k + 1 = j
    BY <1>1, <1>3, <2>1
  <2>2. CASE k + 1 # j
    BY <1>1, <1>3, <2>2
  <2> QED
    BY <2>1, <2>2
<1> QED
  BY <1>1, <1>4, <1>7, <1>8, <1>9, BorrarProperties

-----------------------------------------------------------------------------
\* What Conserva gives

LEMMA ConservaTiene ==
    ASSUME NEW cs, NEW ds, Conserva(cs, ds), NEW e, Tiene(cs, e)
    PROVE  Tiene(ds, e)
  BY DEF Conserva, Tiene

LEMMA ConservaUnica ==
    ASSUME NEW cs, NEW ds, Conserva(cs, ds), NEW e, UnicaEn(ds, e)
    PROVE  UnicaEn(cs, e)
<1>1. PICK L \in [Lugares(cs) -> Lugares(ds)] :
        /\ \A x, y \in Lugares(cs) : L[x] = L[y] => x = y
        /\ \A x \in Lugares(cs) : SlotDe(ds, L[x]) = SlotDe(cs, x)
  BY DEF Conserva
<1>2. ASSUME NEW x \in Lugares(cs), NEW y \in Lugares(cs),
             SlotDe(cs, x) = e, SlotDe(cs, y) = e
      PROVE  x = y
  <2>1. L[x] \in Lugares(ds) /\ L[y] \in Lugares(ds)
    BY <1>1
  <2>2. L[x] = L[y]
    BY <1>1, <1>2, <2>1 DEF UnicaEn
  <2> QED
    BY <1>1, <2>2
<1> QED
  BY <1>2 DEF UnicaEn

-----------------------------------------------------------------------------
\* The operations on the four queues

\* The number of entries of one queue never exceeds the number of all.
LEMMA EntradasBound ==
    ASSUME NEW S, NEW cs \in [Colas -> Seq(S)]
    PROVE  /\ Entradas(cs) \in Nat
           /\ \A q \in Colas : Len(cs[q]) \in Nat /\ Len(cs[q]) <= Entradas(cs)
<1>1. \A q \in 0 .. 3 : Len(cs[q]) \in Nat
  BY LenProperties DEF Colas, COLAS_MAXIMAS
<1> QED
  BY <1>1 DEF Entradas, Colas, COLAS_MAXIMAS

\* The length of one queue changes the number of entries by as much.
LEMMA EntradasExcept ==
    ASSUME NEW S, NEW cs \in [Colas -> Seq(S)], NEW q \in Colas, NEW r \in Seq(S)
    PROVE  Entradas([cs EXCEPT ![q] = r]) = Entradas(cs) - Len(cs[q]) + Len(r)
<1> DEFINE ds == [cs EXCEPT ![q] = r]
           n(p) == Len(cs[p])
<1>1. n(0) \in Nat /\ n(1) \in Nat /\ n(2) \in Nat /\ n(3) \in Nat /\ Len(r) \in Nat
  BY LenProperties DEF Colas, COLAS_MAXIMAS
<1>2. Entradas(cs) = n(0) + n(1) + n(2) + n(3)
  BY DEF Entradas
<1>3. \A p \in Colas : ds[p] = IF p = q THEN r ELSE cs[p]
  OBVIOUS
<1>4. \A p \in {0, 1, 2, 3} : Len(ds[p]) = IF p = q THEN Len(r) ELSE n(p)
  BY <1>3 DEF Colas, COLAS_MAXIMAS
<1> HIDE DEF ds
<1>5. Entradas(ds) = Len(ds[0]) + Len(ds[1]) + Len(ds[2]) + Len(ds[3])
  BY DEF Entradas
<1>6. q = 0 \/ q = 1 \/ q = 2 \/ q = 3
  BY DEF Colas, COLAS_MAXIMAS
<1> DEFINE m(p) == Len(ds[p])
<1>7. \A p \in {0, 1, 2, 3} : m(p) = IF p = q THEN Len(r) ELSE n(p)
  BY <1>4
<1>8. Entradas(ds) = m(0) + m(1) + m(2) + m(3)
  BY <1>5
<1> HIDE DEF n, m
<1>9. Entradas(ds) = Entradas(cs) - n(q) + Len(r)
  <2>1. CASE q = 0
    <3>1. m(0) = Len(r) /\ m(1) = n(1) /\ m(2) = n(2) /\ m(3) = n(3)
      BY <1>7, <2>1
    <3> QED
      BY <1>1, <1>2, <1>8, <2>1, <3>1
  <2>2. CASE q = 1
    <3>1. m(0) = n(0) /\ m(1) = Len(r) /\ m(2) = n(2) /\ m(3) = n(3)
      BY <1>7, <2>2
    <3> QED
      BY <1>1, <1>2, <1>8, <2>2, <3>1
  <2>3. CASE q = 2
    <3>1. m(0) = n(0) /\ m(1) = n(1) /\ m(2) = Len(r) /\ m(3) = n(3)
      BY <1>7, <2>3
    <3> QED
      BY <1>1, <1>2, <1>8, <2>3, <3>1
  <2>4. CASE q = 3
    <3>1. m(0) = n(0) /\ m(1) = n(1) /\ m(2) = n(2) /\ m(3) = Len(r)
      BY <1>7, <2>4
    <3> QED
      BY <1>1, <1>2, <1>8, <2>4, <3>1
  <2> QED
    BY <1>6, <2>1, <2>2, <2>3, <2>4
<1> QED
  BY <1>9 DEF ds, n

\* The entry id is added at the end of queue p.
Anade(cs, p, id) == [cs EXCEPT ![p] = Agregar(@, id)]

LEMMA AnadeRoom ==
    ASSUME NEW cs \in [Colas -> Seq(EnvIds)], NEW p \in Colas, NEW id \in EnvIds,
           Len(cs[p]) < NENV
    PROVE  LET ds == Anade(cs, p, id)
               nuevo == <<p, Len(cs[p]) + 1>>
           IN  /\ ds \in [Colas -> Seq(EnvIds)]
               /\ Entradas(ds) = Entradas(cs) + 1
               /\ Lugares(ds) = Lugares(cs) \cup {nuevo}
               /\ nuevo \notin Lugares(cs)
               /\ SlotDe(ds, nuevo) = ENVX(id)
               /\ \A x \in Lugares(cs) : SlotDe(ds, x) = SlotDe(cs, x)
<1> DEFINE ds == Anade(cs, p, id)
           nuevo == <<p, Len(cs[p]) + 1>>
           r == Agregar(cs[p], id)
<1>1. cs[p] \in Seq(EnvIds) /\ Len(cs[p]) \in Nat
  BY LenProperties
<1>2. /\ r \in Seq(EnvIds) /\ Len(r) = Len(cs[p]) + 1
      /\ r[Len(cs[p]) + 1] = id /\ \A k \in 1 .. Len(cs[p]) : r[k] = cs[p][k]
  BY <1>1, AgregarRoom
<1> HIDE DEF r
<1>3. ds = [cs EXCEPT ![p] = r]
  BY DEF Anade, r
<1>4. ds \in [Colas -> Seq(EnvIds)] /\ \A q \in Colas : ds[q] = IF q = p THEN r ELSE cs[q]
  BY <1>2, <1>3
<1>5. Entradas(ds) = Entradas(cs) + 1
  <2>1. Entradas([cs EXCEPT ![p] = r]) = Entradas(cs) - Len(cs[p]) + Len(r)
    BY <1>2, EntradasExcept
  <2>2. Entradas(cs) \in Nat
    BY EntradasBound
  <2> HIDE DEF ds
  <2>3. Entradas(ds) = Entradas(cs) - Len(cs[p]) + (Len(cs[p]) + 1)
    BY <1>2, <1>3, <2>1
  <2> QED
    BY <1>1, <2>2, <2>3
<1> HIDE DEF ds
<1>6. \A q \in Colas : Len(cs[q]) \in Nat
  BY LenProperties
<1>7. Lugares(ds) = Lugares(cs) \cup {nuevo}
  BY <1>1, <1>2, <1>4, <1>6 DEF Lugares
<1>8. nuevo \notin Lugares(cs)
  BY <1>1 DEF Lugares
<1>9. SlotDe(ds, nuevo) = ENVX(id)
  BY <1>2, <1>4 DEF SlotDe
<1>10. ASSUME NEW x \in Lugares(cs) PROVE SlotDe(ds, x) = SlotDe(cs, x)
  <2>1. x[1] \in Colas /\ x[2] \in 1 .. Len(cs[x[1]])
    BY DEF Lugares
  <2>2. CASE x[1] = p
    BY <1>2, <1>4, <2>1, <2>2 DEF SlotDe
  <2>3. CASE x[1] # p
    BY <1>4, <2>1, <2>3 DEF SlotDe
  <2> QED
    BY <2>2, <2>3
<1> QED
  BY <1>4, <1>5, <1>7, <1>8, <1>9, <1>10 DEF ds

\* An entry is taken out of position j of queue q; where that leaves the others.
Quita(cs, q, j) == [cs EXCEPT ![q] = Borrar(@, j)]
Tras(q, j, x) == IF x[1] = q THEN <<q, Borrado(j, x[2])>> ELSE x

LEMMA QuitaRoom ==
    ASSUME NEW cs \in [Colas -> Seq(EnvIds)], NEW q \in Colas, NEW j \in 1 .. Len(cs[q]),
           Entradas(cs) <= NENV
    PROVE  LET ds == Quita(cs, q, j)
               resto == Lugares(cs) \ {<<q, j>>}
           IN  /\ ds \in [Colas -> Seq(EnvIds)]
               /\ Entradas(ds) = Entradas(cs) - 1
               /\ \A x \in resto : /\ Tras(q, j, x) \in Lugares(ds)
                                  /\ SlotDe(ds, Tras(q, j, x)) = SlotDe(cs, x)
               /\ \A x, y \in resto : Tras(q, j, x) = Tras(q, j, y) => x = y
               /\ \A y \in Lugares(ds) : \E x \in resto :
                    x[1] = y[1] /\ SlotDe(cs, x) = SlotDe(ds, y)
<1> DEFINE ds == Quita(cs, q, j)
           resto == Lugares(cs) \ {<<q, j>>}
           r == Borrar(cs[q], j)
<1>1. cs[q] \in Seq(EnvIds) /\ Len(cs[q]) \in Nat /\ Len(cs[q]) <= NENV
  BY EntradasBound, NENVAssumption
<1>2. /\ r \in Seq(EnvIds) /\ Len(r) = Len(cs[q]) - 1
      /\ \A k \in 1 .. Len(cs[q]) \ {j} :
            Borrado(j, k) \in 1 .. Len(r) /\ r[Borrado(j, k)] = cs[q][k]
      /\ \A k \in 1 .. Len(r) : \E i \in 1 .. Len(cs[q]) : i # j /\ r[k] = cs[q][i]
  <2> DEFINE s == cs[q]
  <2>1. s \in Seq(EnvIds) /\ j \in 1 .. Len(s) /\ Len(s) <= NENV
    BY <1>1
  <2> HIDE DEF s
  <2>2. /\ Borrar(s, j) \in Seq(EnvIds)
        /\ Len(Borrar(s, j)) = Len(s) - 1
        /\ \A k \in 1 .. Len(s) \ {j} :
             /\ Borrado(j, k) \in 1 .. Len(s) - 1
             /\ Borrar(s, j)[Borrado(j, k)] = s[k]
        /\ \A k \in 1 .. Len(s) - 1 : \E i \in 1 .. Len(s) :
             i # j /\ Borrar(s, j)[k] = s[i]
    BY <2>1, BorrarRoom
  <2>3. r = Borrar(s, j)
    BY DEF s
  <2> HIDE DEF r
  <2> QED
    BY <2>2, <2>3 DEF s
<1> HIDE DEF r
<1>3. ds = [cs EXCEPT ![q] = r]
  BY DEF Quita, r
<1>4. ds \in [Colas -> Seq(EnvIds)] /\ \A p \in Colas : ds[p] = IF p = q THEN r ELSE cs[p]
  BY <1>2, <1>3
<1>5. Entradas(ds) = Entradas(cs) - 1
  <2>1. Entradas([cs EXCEPT ![q] = r]) = Entradas(cs) - Len(cs[q]) + Len(r)
    BY <1>2, EntradasExcept
  <2>2. Entradas(cs) \in Nat
    BY EntradasBound
  <2> HIDE DEF ds
  <2>3. Entradas(ds) = Entradas(cs) - Len(cs[q]) + (Len(cs[q]) - 1)
    BY <1>2, <1>3, <2>1
  <2> QED
    BY <1>1, <2>2, <2>3
<1> HIDE DEF ds
<1>6. \A x \in Lugares(cs) : /\ x = <<x[1], x[2]>> /\ x[1] \in Colas /\ x[2] \in Nat
                             /\ x[2] \in 1 .. Len(cs[x[1]])
  BY DEF Lugares
<1>7. ASSUME NEW x \in resto
      PROVE  Tras(q, j, x) \in Lugares(ds) /\ SlotDe(ds, Tras(q, j, x)) = SlotDe(cs, x)
  <2>1. CASE x[1] = q
    <3>1. x[2] \in 1 .. Len(cs[q]) \ {j}
      BY <1>6, <2>1
    <3>2. Borrado(j, x[2]) \in 1 .. Len(r) /\ r[Borrado(j, x[2])] = cs[q][x[2]]
      BY <1>2, <3>1
    <3>3. Borrado(j, x[2]) \in Nat /\ Borrado(j, x[2]) \in 1 .. Len(ds[q])
      BY <1>1, <1>2, <1>4, <3>2
    <3>4. <<q, Borrado(j, x[2])>> \in Lugares(ds)
      BY <3>3 DEF Lugares
    <3> QED
      BY <1>4, <2>1, <3>2, <3>4 DEF Tras, SlotDe
  <2>2. CASE x[1] # q
    <3>1. ds[x[1]] = cs[x[1]]
      BY <1>4, <1>6, <2>2
    <3> QED
      BY <1>6, <2>2, <3>1 DEF Tras, SlotDe, Lugares
  <2> QED
    BY <2>1, <2>2
<1>8. ASSUME NEW x \in resto, NEW y \in resto, Tras(q, j, x) = Tras(q, j, y)
      PROVE  x = y
  <2>1. CASE x[1] = q /\ y[1] = q
    <3>1. x[2] \in 1 .. Len(cs[q]) \ {j} /\ y[2] \in 1 .. Len(cs[q]) \ {j}
      BY <1>6, <2>1
    <3>2. Borrado(j, x[2]) = Borrado(j, y[2])
      BY <1>8, <2>1 DEF Tras
    <3>3. x[2] = y[2]
      BY <1>1, <3>1, <3>2 DEF Borrado
    <3> QED
      BY <1>6, <2>1, <3>3
  <2>2. CASE ~(x[1] = q /\ y[1] = q)
    BY <1>6, <1>8, <2>2 DEF Tras
  <2> QED
    BY <2>1, <2>2
<1>9. ASSUME NEW y \in Lugares(ds)
      PROVE  \E x \in resto : x[1] = y[1] /\ SlotDe(cs, x) = SlotDe(ds, y)
  <2>1. y[1] \in Colas /\ y[2] \in 1 .. Len(ds[y[1]])
    BY DEF Lugares
  <2>2. CASE y[1] = q
    <3>1. PICK i \in 1 .. Len(cs[q]) : i # j /\ r[y[2]] = cs[q][i]
      BY <1>2, <1>4, <2>1, <2>2
    <3>2. <<q, i>> \in resto
      BY <1>1, <3>1 DEF Lugares
    <3>3. SlotDe(cs, <<q, i>>) = SlotDe(ds, y)
      BY <1>4, <2>2, <3>1 DEF SlotDe
    <3> QED
      BY <2>2, <3>2, <3>3
  <2>3. CASE y[1] # q
    <3>1. ds[y[1]] = cs[y[1]]
      BY <1>4, <2>1, <2>3
    <3> QED
      BY <2>3, <3>1 DEF SlotDe, Lugares
  <2> QED
    BY <2>2, <2>3
<1> QED
  BY <1>4, <1>5, <1>7, <1>8, <1>9 DEF ds

-----------------------------------------------------------------------------
\* What the operations do to the entries and to cola_actual

\* cola_actual after slot e has been given priority p.
Pon(ca, e, p) == [ca EXCEPT ![e] = p]

\* A new entry: no other moves, and cola_actual names its queue.
Anadida(cs, ca, p, id) ==
    LET ds == Anade(cs, p, id)
    IN  /\ Entradas(ds) = Entradas(cs) + 1
        /\ Conserva(cs, ds)
        /\ Tiene(ds, ENVX(id))
        /\ Localiza(ds, Pon(ca, ENVX(id), p))

LEMMA AnadeStep ==
    ASSUME NEW cs \in [Colas -> Seq(EnvIds)], NEW ca \in [Slots -> Colas],
           NEW p \in Colas, NEW id \in EnvIds, Len(cs[p]) < NENV, Localiza(cs, ca)
    PROVE  Anadida(cs, ca, p, id)
<1> DEFINE ds == Anade(cs, p, id)
           da == Pon(ca, ENVX(id), p)
           nuevo == <<p, Len(cs[p]) + 1>>
<1>1. /\ ds \in [Colas -> Seq(EnvIds)]
      /\ Entradas(ds) = Entradas(cs) + 1
      /\ Lugares(ds) = Lugares(cs) \cup {nuevo}
      /\ SlotDe(ds, nuevo) = ENVX(id)
      /\ \A x \in Lugares(cs) : SlotDe(ds, x) = SlotDe(cs, x)
  BY AnadeRoom
<1>2. ENVX(id) \in Slots /\ nuevo[1] = p
  BY DEF ENVX, EnvIds
<1> HIDE DEF ds, nuevo
<1>3. Conserva(cs, ds)
  <2> DEFINE L == [x \in Lugares(cs) |-> x]
  <2>1. L \in [Lugares(cs) -> Lugares(ds)]
    BY <1>1
  <2>2. \A x, y \in Lugares(cs) : L[x] = L[y] => x = y
    OBVIOUS
  <2>3. \A x \in Lugares(cs) : SlotDe(ds, L[x]) = SlotDe(cs, x)
    BY <1>1
  <2> HIDE DEF L
  <2> QED
    BY <2>1, <2>2, <2>3 DEF Conserva
<1>4. Tiene(ds, ENVX(id))
  BY <1>1 DEF Tiene
<1>5. ASSUME NEW x \in Lugares(ds), UnicaEn(ds, SlotDe(ds, x))
      PROVE  da[SlotDe(ds, x)] = x[1]
  <2>1. CASE SlotDe(ds, x) = ENVX(id)
    <3>1. x = nuevo
      BY <1>1, <1>5, <2>1 DEF UnicaEn
    <3> QED
      BY <1>2, <2>1, <3>1 DEF Pon
  <2>2. CASE SlotDe(ds, x) # ENVX(id)
    <3>1. x \in Lugares(cs) /\ SlotDe(ds, x) = SlotDe(cs, x)
      BY <1>1, <2>2
    <3>2. UnicaEn(cs, SlotDe(cs, x))
      BY <1>3, <1>5, <3>1, ConservaUnica
    <3>3. ca[SlotDe(cs, x)] = x[1]
      BY <3>1, <3>2 DEF Localiza
    <3> QED
      BY <1>2, <2>2, <3>1, <3>3 DEF Pon
  <2> QED
    BY <2>1, <2>2
<1>6. Localiza(ds, da)
  BY <1>5 DEF Localiza
<1> QED
  BY <1>1, <1>3, <1>4, <1>6 DEF ds, Anadida

\* An entry goes from position j of queue q to the end of queue p.
Movida(cs, ca, q, j, p) ==
    LET id == cs[q][j]
        ds == Anade(Quita(cs, q, j), p, id)
    IN  /\ Entradas(ds) = Entradas(cs)
        /\ Conserva(cs, ds)
        /\ Localiza(ds, Pon(ca, ENVX(id), p))

LEMMA MueveStep ==
    ASSUME NEW cs \in [Colas -> Seq(EnvIds)], NEW ca \in [Slots -> Colas],
           NEW q \in Colas, NEW j \in 1 .. Len(cs[q]), NEW p \in Colas,
           Entradas(cs) <= NENV, Localiza(cs, ca)
    PROVE  Movida(cs, ca, q, j, p)
<1> DEFINE id == cs[q][j]
           ms == Quita(cs, q, j)
           ds == Anade(ms, p, id)
           nuevo == <<p, Len(ms[p]) + 1>>
           viejo == <<q, j>>
           da == Pon(ca, ENVX(id), p)
<1>1. /\ ms \in [Colas -> Seq(EnvIds)]
      /\ Entradas(ms) = Entradas(cs) - 1
      /\ \A x \in Lugares(cs) \ {viejo} : /\ Tras(q, j, x) \in Lugares(ms)
                                       /\ SlotDe(ms, Tras(q, j, x)) = SlotDe(cs, x)
      /\ \A x, y \in Lugares(cs) \ {viejo} : Tras(q, j, x) = Tras(q, j, y) => x = y
      /\ \A y \in Lugares(ms) : \E x \in Lugares(cs) \ {viejo} :
                    x[1] = y[1] /\ SlotDe(cs, x) = SlotDe(ms, y)
  BY QuitaRoom
<1>2. /\ cs[q] \in Seq(EnvIds) /\ id \in EnvIds
      /\ ENVX(id) \in Slots /\ nuevo[1] = p /\ SlotDe(cs, viejo) = ENVX(id)
  <2>1. cs[q] \in Seq(EnvIds)
    OBVIOUS
  <2>2. id \in EnvIds
    BY <2>1, ElementOfSeq
  <2> QED
    BY <2>1, <2>2 DEF ENVX, EnvIds, SlotDe
<1> HIDE DEF ms, id
<1>3. Len(ms[p]) < NENV /\ Entradas(cs) \in Nat
  <2>1. Entradas(cs) \in Nat /\ Len(ms[p]) \in Nat /\ Len(ms[p]) <= Entradas(ms)
    BY <1>1, EntradasBound
  <2> QED
    BY <1>1, <2>1, NENVAssumption
<1>4. /\ ds \in [Colas -> Seq(EnvIds)]
      /\ Entradas(ds) = Entradas(ms) + 1
      /\ Lugares(ds) = Lugares(ms) \cup {nuevo}
      /\ nuevo \notin Lugares(ms)
      /\ SlotDe(ds, nuevo) = ENVX(id)
      /\ \A x \in Lugares(ms) : SlotDe(ds, x) = SlotDe(ms, x)
  <2>1. ms \in [Colas -> Seq(EnvIds)] /\ id \in EnvIds /\ Len(ms[p]) < NENV
    BY <1>1, <1>2, <1>3
  <2> QED
    BY <2>1, AnadeRoom
<1> HIDE DEF ds, nuevo
<1>5. Entradas(ds) = Entradas(cs)
  BY <1>1, <1>3, <1>4
<1>6. Conserva(cs, ds)
  <2> DEFINE L == [x \in Lugares(cs) |-> IF x = viejo THEN nuevo ELSE Tras(q, j, x)]
  <2>1. L \in [Lugares(cs) -> Lugares(ds)]
    BY <1>1, <1>4
  <2>2. ASSUME NEW x \in Lugares(cs), NEW y \in Lugares(cs), L[x] = L[y]
        PROVE  x = y
    <3>1. CASE x = viejo \/ y = viejo
      <4>1. \A z \in Lugares(cs) : z # viejo => L[z] # nuevo
        BY <1>1, <1>4
      <4>2. L[viejo] = nuevo \/ viejo \notin Lugares(cs)
        OBVIOUS
      <4> HIDE DEF L, viejo
      <4> QED
        BY <2>2, <3>1, <4>1, <4>2
    <3>2. CASE x # viejo /\ y # viejo
      <4>1. Tras(q, j, x) = Tras(q, j, y)
        BY <2>2, <3>2
      <4> QED
        BY <1>1, <3>2, <4>1
    <3> QED
      BY <3>1, <3>2
  <2>3. \A x \in Lugares(cs) : SlotDe(ds, L[x]) = SlotDe(cs, x)
    BY <1>1, <1>2, <1>4
  <2> HIDE DEF L
  <2> QED
    BY <2>1, <2>2, <2>3 DEF Conserva
<1>7. ASSUME NEW x \in Lugares(ds), UnicaEn(ds, SlotDe(ds, x))
      PROVE  da[SlotDe(ds, x)] = x[1]
  <2>1. CASE SlotDe(ds, x) = ENVX(id)
    <3>1. x = nuevo
      BY <1>4, <1>7, <2>1 DEF UnicaEn
    <3> QED
      BY <1>2, <2>1, <3>1 DEF Pon
  <2>2. CASE SlotDe(ds, x) # ENVX(id)
    <3>1. x \in Lugares(ms) /\ SlotDe(ds, x) = SlotDe(ms, x)
      BY <1>4, <2>2
    <3>2. PICK y \in Lugares(cs) : y[1] = x[1] /\ SlotDe(cs, y) = SlotDe(ms, x)
      BY <1>1, <3>1
    <3>3. UnicaEn(cs, SlotDe(cs, y))
      BY <1>6, <1>7, <3>1, <3>2, ConservaUnica
    <3>4. ca[SlotDe(cs, y)] = y[1]
      BY <3>3 DEF Localiza
    <3> QED
      BY <1>2, <2>2, <3>1, <3>2, <3>4 DEF Pon
  <2> QED
    BY <2>1, <2>2
<1>8. Localiza(ds, da)
  BY <1>7 DEF Localiza
<1> QED
  BY <1>5, <1>6, <1>8 DEF ds, id, ms, Movida

\* Where a promotion takes the entries of queue q, and the entry at place x.
Desde(cs, q) ==
    IF q = 0 THEN 0
    ELSE IF q = 1 THEN Len(cs[0])
    ELSE IF q = 2 THEN Len(cs[0]) + Len(cs[1])
    ELSE Len(cs[0]) + Len(cs[1]) + Len(cs[2])

Promovido(cs, x) == <<0, Desde(cs, x[1]) + x[2]>>

\* What cola_actual says after promover_colas.
CaPromovida(cs, ca) ==
    [e \in Slots |-> IF \E q \in 1 .. 3 : TieneEntrada(cs[q], e) THEN 0 ELSE ca[e]]

\* While the ring has room for all the entries a promotion puts them one after
\* the other.
LEMMA PromoverRoom ==
    ASSUME NEW cs \in [Colas -> Seq(EnvIds)], Entradas(cs) <= NENV
    PROVE  Promover(cs) = [q \in Colas |->
              IF q = 0 THEN cs[0] \o cs[1] \o cs[2] \o cs[3] ELSE <<>>]
<1> DEFINE w == cs[0] \o cs[1] \o cs[2] \o cs[3]
           n == Len(w)
<1>1. \A q \in 0 .. 3 : cs[q] \in Seq(EnvIds) /\ Len(cs[q]) \in Nat
  BY LenProperties DEF Colas, COLAS_MAXIMAS
<1>2. cs[0] \o cs[1] \in Seq(EnvIds)
      /\ Len(cs[0] \o cs[1]) = Len(cs[0]) + Len(cs[1])
  BY <1>1, ConcatProperties
<1>3. cs[0] \o cs[1] \o cs[2] \in Seq(EnvIds)
      /\ Len(cs[0] \o cs[1] \o cs[2]) = Len(cs[0]) + Len(cs[1]) + Len(cs[2])
  BY <1>1, <1>2, ConcatProperties
<1>4. w \in Seq(EnvIds) /\ n = Entradas(cs)
  BY <1>1, <1>3, ConcatProperties DEF Entradas
<1> HIDE DEF w
<1>5. n \in Nat /\ n <= NENV
  BY <1>4, LenProperties
<1>6. ASSUME NEW k \in 1 .. n PROVE UltimoAlias(k, n) = k
  <2> DEFINE d == (n - k) \div NENV
  <2>1. d \in Nat /\ (n - k) % NENV \in 0 .. NENV - 1
    BY <1>5, NENVAssumption
  <2>2. n - k = NENV * d + ((n - k) % NENV)
    BY <1>5, NENVAssumption
  <2> HIDE DEF d
  <2>3. d >= 1 => NENV * d >= NENV
    BY <2>1, NENVAssumption
  <2>4. d = 0
    BY <1>5, <2>1, <2>2, <2>3, NENVAssumption
  <2> QED
    BY <1>5, <2>1, <2>2, <2>4, NENVAssumption DEF UltimoAlias
<1>7. ColaPromovida(cs) = [k \in 1 .. n |-> w[k]]
  BY <1>6 DEF ColaPromovida, w
<1>8. ColaPromovida(cs) = w
  BY <1>4, <1>7
<1> QED
  BY <1>8 DEF Promover, w

\* Four sequences, one after the other.
LEMMA ConcatFour ==
    ASSUME NEW S, NEW s0 \in Seq(S), NEW s1 \in Seq(S), NEW s2 \in Seq(S),
           NEW s3 \in Seq(S), NEW w, w = s0 \o s1 \o s2 \o s3
    PROVE  /\ Len(w) = Len(s0) + Len(s1) + Len(s2) + Len(s3)
           /\ \A i \in 1 .. Len(s0) : w[0 + i] = s0[i]
           /\ \A i \in 1 .. Len(s1) : w[Len(s0) + i] = s1[i]
           /\ \A i \in 1 .. Len(s2) : w[Len(s0) + Len(s1) + i] = s2[i]
           /\ \A i \in 1 .. Len(s3) : w[Len(s0) + Len(s1) + Len(s2) + i] = s3[i]
<1> DEFINE ab == s0 \o s1
           abc == ab \o s2
<1>1. /\ ab \in Seq(S) /\ Len(ab) = Len(s0) + Len(s1)
      /\ Len(s0) \in Nat /\ Len(s1) \in Nat
      /\ \A i \in 1 .. Len(s0) : ab[i] = s0[i]
      /\ \A i \in 1 .. Len(s1) : ab[Len(s0) + i] = s1[i]
  OBVIOUS
<1>0. w = abc \o s3
  OBVIOUS
<1>1a. ab \in Seq(S)
  BY <1>1
<1> HIDE DEF ab
<1>2. /\ abc \in Seq(S) /\ Len(abc) = Len(ab) + Len(s2) /\ Len(s2) \in Nat
      /\ \A i \in 1 .. Len(ab) : abc[i] = ab[i]
      /\ \A i \in 1 .. Len(s2) : abc[Len(ab) + i] = s2[i]
  BY <1>1a
<1>2b. abc \in Seq(S)
  BY <1>2
<1> HIDE DEF abc
<1>3. /\ Len(w) = Len(abc) + Len(s3) /\ Len(s3) \in Nat
      /\ \A i \in 1 .. Len(abc) : w[i] = abc[i]
      /\ \A i \in 1 .. Len(s3) : w[Len(abc) + i] = s3[i]
  BY <1>2b, <1>0
<1>4. /\ Len(w) = Len(s0) + Len(s1) + Len(s2) + Len(s3)
      /\ Len(ab) = Len(s0) + Len(s1) /\ Len(abc) = Len(s0) + Len(s1) + Len(s2)
  BY <1>1, <1>2, <1>3
<1>5. ASSUME NEW i \in 1 .. Len(s0) PROVE w[0 + i] = s0[i]
  <2>1. i \in 1 .. Len(ab) /\ i \in 1 .. Len(abc) /\ 0 + i = i
    BY <1>1, <1>2
  <2> QED
    BY <1>1, <1>2, <1>3, <2>1
<1>6. ASSUME NEW i \in 1 .. Len(s1) PROVE w[Len(s0) + i] = s1[i]
  <2>1. Len(s0) + i \in 1 .. Len(ab) /\ Len(s0) + i \in 1 .. Len(abc)
    BY <1>1, <1>2
  <2> QED
    BY <1>1, <1>2, <1>3, <2>1
<1>7. ASSUME NEW i \in 1 .. Len(s2) PROVE w[Len(s0) + Len(s1) + i] = s2[i]
  <2>1. Len(ab) + i \in 1 .. Len(abc)
    BY <1>1, <1>2
  <2> QED
    BY <1>1, <1>2, <1>3, <1>4, <2>1
<1>8. ASSUME NEW i \in 1 .. Len(s3) PROVE w[Len(s0) + Len(s1) + Len(s2) + i] = s3[i]
  BY <1>3, <1>4
<1> QED
  BY <1>4, <1>5, <1>6, <1>7, <1>8

LEMMA PromoverReads ==
    ASSUME NEW cs \in [Colas -> Seq(EnvIds)], Entradas(cs) <= NENV
    PROVE  /\ \A q \in Colas : Desde(cs, q) \in Nat /\ Len(cs[q]) \in Nat
           /\ Len(Promover(cs)[0]) = Desde(cs, 3) + Len(cs[3])
           /\ \A q \in Colas : \A i \in 1 .. Len(cs[q]) :
                Promover(cs)[0][Desde(cs, q) + i] = cs[q][i]
           /\ \A q \in Colas : q # 0 => Promover(cs)[q] = <<>>
<1> DEFINE s0 == cs[0]
           s1 == cs[1]
           s2 == cs[2]
           s3 == cs[3]
           w == s0 \o s1 \o s2 \o s3
<1>1. Promover(cs)[0] = w /\ \A q \in Colas : q # 0 => Promover(cs)[q] = <<>>
  <2>1. Promover(cs) = [q \in Colas |-> IF q = 0 THEN w ELSE <<>>]
    BY PromoverRoom
  <2>2. 0 \in Colas
    BY DEF Colas, COLAS_MAXIMAS
  <2> HIDE DEF w
  <2> QED
    BY <2>1, <2>2
<1>2. s0 \in Seq(EnvIds) /\ s1 \in Seq(EnvIds) /\ s2 \in Seq(EnvIds) /\ s3 \in Seq(EnvIds)
  BY DEF Colas, COLAS_MAXIMAS
<1> DEFINE a == Len(s0)
           b == Len(s1)
           c == Len(s2)
           d == Len(s3)
<1>3. /\ Desde(cs, 0) = 0 /\ Desde(cs, 1) = a
      /\ Desde(cs, 2) = a + b /\ Desde(cs, 3) = a + b + c
  BY DEF Desde
<1> HIDE DEF s0, s1, s2, s3
<1>3a. w = s0 \o s1 \o s2 \o s3
  OBVIOUS
<1> HIDE DEF w
<1>4. a \in Nat /\ b \in Nat /\ c \in Nat /\ d \in Nat
  BY <1>2, LenProperties
<1>5. /\ Len(w) = a + b + c + d
      /\ \A i \in 1 .. a : w[0 + i] = s0[i]
      /\ \A i \in 1 .. b : w[a + i] = s1[i]
      /\ \A i \in 1 .. c : w[a + b + i] = s2[i]
      /\ \A i \in 1 .. d : w[a + b + c + i] = s3[i]
  BY <1>2, <1>3a, ConcatFour
<1> HIDE DEF a, b, c, d
<1>6. \A q \in Colas : q = 0 \/ q = 1 \/ q = 2 \/ q = 3
  BY DEF Colas, COLAS_MAXIMAS
<1>7. ASSUME NEW q \in Colas
      PROVE  /\ Desde(cs, q) \in Nat /\ Len(cs[q]) \in Nat
             /\ \A i \in 1 .. Len(cs[q]) : w[Desde(cs, q) + i] = cs[q][i]
  <2>1. CASE q = 0
    <3>1. cs[q] = s0 /\ Len(cs[q]) = a /\ Desde(cs, q) = 0
      BY <1>3, <2>1 DEF s0, a
    <3> QED
      BY <1>4, <1>5, <3>1
  <2>2. CASE q = 1
    <3>1. cs[q] = s1 /\ Len(cs[q]) = b /\ Desde(cs, q) = a
      BY <1>3, <2>2 DEF s1, b
    <3> QED
      BY <1>4, <1>5, <3>1
  <2>3. CASE q = 2
    <3>1. cs[q] = s2 /\ Len(cs[q]) = c /\ Desde(cs, q) = a + b
      BY <1>3, <2>3 DEF s2, c
    <3> QED
      BY <1>4, <1>5, <3>1
  <2>4. CASE q = 3
    <3>1. cs[q] = s3 /\ Len(cs[q]) = d /\ Desde(cs, q) = a + b + c
      BY <1>3, <2>4 DEF s3, d
    <3> QED
      BY <1>4, <1>5, <3>1
  <2> QED
    BY <1>6, <2>1, <2>2, <2>3, <2>4
<1>8. Len(w) = Desde(cs, 3) + Len(cs[3])
  BY <1>3, <1>5 DEF d, s3
<1> QED
  BY <1>1, <1>7, <1>8

\* The queues follow one another in cola_a.
LEMMA PromoverOrder ==
    ASSUME NEW cs \in [Colas -> Seq(EnvIds)]
    PROVE  /\ \A p, q \in Colas : p < q => Desde(cs, p) + Len(cs[p]) <= Desde(cs, q)
           /\ \A k \in 1 .. Desde(cs, 3) + Len(cs[3]) : \E q \in Colas :
                \E i \in 1 .. Len(cs[q]) : k = Desde(cs, q) + i
<1> DEFINE a == Len(cs[0])
           b == Len(cs[1])
           c == Len(cs[2])
           d == Len(cs[3])
<1>1. a \in Nat /\ b \in Nat /\ c \in Nat /\ d \in Nat
  BY LenProperties DEF Colas, COLAS_MAXIMAS
<1>2. /\ Desde(cs, 0) = 0 /\ Desde(cs, 1) = a
      /\ Desde(cs, 2) = a + b /\ Desde(cs, 3) = a + b + c
  BY DEF Desde
<1>3. \A q \in Colas : q = 0 \/ q = 1 \/ q = 2 \/ q = 3
  BY DEF Colas, COLAS_MAXIMAS
<1>4. 0 \in Colas /\ 1 \in Colas /\ 2 \in Colas /\ 3 \in Colas
  BY DEF Colas, COLAS_MAXIMAS
<1> HIDE DEF a, b, c, d
<1>5. ASSUME NEW p \in Colas, NEW q \in Colas, p < q
      PROVE  Desde(cs, p) + Len(cs[p]) <= Desde(cs, q)
  <2>1. CASE p = 0
    BY <1>1, <1>2, <1>3, <1>5, <2>1 DEF a
  <2>2. CASE p = 1
    BY <1>1, <1>2, <1>3, <1>5, <2>2 DEF b
  <2>3. CASE p = 2
    BY <1>1, <1>2, <1>3, <1>5, <2>3 DEF c
  <2> QED
    BY <1>3, <1>5, <2>1, <2>2, <2>3
<1>6. ASSUME NEW k \in 1 .. a + b + c + d
      PROVE  \E q \in Colas : \E i \in 1 .. Len(cs[q]) : k = Desde(cs, q) + i
  <2>0. k \in Nat
    BY <1>1
  <2>1. CASE k <= a
    <3>1. k \in 1 .. Len(cs[0]) /\ k = Desde(cs, 0) + k
      BY <1>1, <1>2, <2>0, <2>1 DEF a
    <3> QED
      BY <1>4, <3>1
  <2>2. CASE k > a /\ k <= a + b
    <3>1. k - a \in 1 .. Len(cs[1]) /\ k = Desde(cs, 1) + (k - a)
      BY <1>1, <1>2, <2>0, <2>2 DEF b
    <3> QED
      BY <1>4, <3>1
  <2>3. CASE k > a + b /\ k <= a + b + c
    <3>1. k - (a + b) \in 1 .. c /\ k = (a + b) + (k - (a + b))
      BY <1>1, <2>0, <2>3
    <3> QED
      BY <1>2, <1>4, <3>1 DEF c
  <2>4. CASE k > a + b + c
    <3>1. k - (a + b + c) \in 1 .. d /\ k = (a + b + c) + (k - (a + b + c))
      BY <1>1, <2>0, <2>4
    <3> QED
      BY <1>2, <1>4, <3>1 DEF d
  <2> QED
    BY <1>1, <2>0, <2>1, <2>2, <2>3, <2>4
<1> QED
  BY <1>2, <1>5, <1>6 DEF d

LEMMA PromoverPlaces ==
    ASSUME NEW cs \in [Colas -> Seq(EnvIds)], Entradas(cs) <= NENV
    PROVE  LET ds == Promover(cs)
           IN  /\ \A x \in Lugares(cs) : /\ Promovido(cs, x) \in Lugares(ds)
                                       /\ SlotDe(ds, Promovido(cs, x)) = SlotDe(cs, x)
               /\ \A x, y \in Lugares(cs) : Promovido(cs, x) = Promovido(cs, y) => x = y
               /\ \A y \in Lugares(ds) : y[1] = 0
                     /\ \E x \in Lugares(cs) : Promovido(cs, x) = y
<1> DEFINE ds == Promover(cs)
           n == Desde(cs, 3) + Len(cs[3])
<1>1. /\ \A q \in Colas : Desde(cs, q) \in Nat /\ Len(cs[q]) \in Nat
      /\ Len(ds[0]) = n
      /\ \A q \in Colas : \A i \in 1 .. Len(cs[q]) : ds[0][Desde(cs, q) + i] = cs[q][i]
      /\ \A q \in Colas : q # 0 => ds[q] = <<>>
  BY PromoverReads
<1>2. /\ \A p, q \in Colas : p < q => Desde(cs, p) + Len(cs[p]) <= Desde(cs, q)
      /\ \A k \in 1 .. n : \E q \in Colas : \E i \in 1 .. Len(cs[q]) : k = Desde(cs, q) + i
  BY PromoverOrder
<1>3. /\ \A q \in Colas : q \in Nat /\ (q < 3 \/ q = 3)
      /\ 0 \in Colas /\ 3 \in Colas
  BY DEF Colas, COLAS_MAXIMAS
<1> HIDE DEF ds
<1>4. \A x \in Lugares(cs) : /\ x = <<x[1], x[2]>> /\ x[1] \in Colas /\ x[2] \in Nat
                             /\ x[2] \in 1 .. Len(cs[x[1]])
  BY DEF Lugares
<1>5. ASSUME NEW q \in Colas, NEW i \in 1 .. Len(cs[q])
      PROVE  Desde(cs, q) + i \in 1 .. n
  <2>1. /\ Desde(cs, q) \in Nat /\ Len(cs[q]) \in Nat /\ i \in Nat /\ i >= 1
        /\ Desde(cs, 3) \in Nat /\ Len(cs[3]) \in Nat /\ i <= Len(cs[q])
    BY <1>1, <1>3
  <2>2. q < 3 => Desde(cs, q) + Len(cs[q]) <= Desde(cs, 3)
    BY <1>2, <1>3
  <2> QED
    BY <1>3, <2>1, <2>2
<1>6. ASSUME NEW x \in Lugares(cs)
      PROVE  Promovido(cs, x) \in Lugares(ds) /\ SlotDe(ds, Promovido(cs, x)) = SlotDe(cs, x)
  <2> DEFINE k == Desde(cs, x[1]) + x[2]
  <2>1. k \in 1 .. Len(ds[0]) /\ k \in Nat /\ ds[0][k] = cs[x[1]][x[2]]
    BY <1>1, <1>4, <1>5
  <2>2. <<0, k>> \in Lugares(ds)
    BY <1>3, <2>1 DEF Lugares
  <2> QED
    BY <2>1, <2>2 DEF SlotDe, Promovido
<1>7. ASSUME NEW x \in Lugares(cs), NEW y \in Lugares(cs),
             Promovido(cs, x) = Promovido(cs, y), x[1] < y[1]
      PROVE  FALSE
  <2>1. Desde(cs, x[1]) + x[2] = Desde(cs, y[1]) + y[2]
    BY <1>7 DEF Promovido
  <2>2. Desde(cs, x[1]) + Len(cs[x[1]]) <= Desde(cs, y[1])
    BY <1>2, <1>4, <1>7
  <2>3. /\ x[2] <= Len(cs[x[1]]) /\ y[2] >= 1 /\ x[2] \in Nat /\ y[2] \in Nat
        /\ Desde(cs, x[1]) \in Nat /\ Desde(cs, y[1]) \in Nat /\ Len(cs[x[1]]) \in Nat
    BY <1>1, <1>4
  <2> QED
    BY <2>1, <2>2, <2>3
<1>8. ASSUME NEW x \in Lugares(cs), NEW y \in Lugares(cs),
             Promovido(cs, x) = Promovido(cs, y)
      PROVE  x = y
  <2>1. x[1] = y[1]
    BY <1>3, <1>4, <1>7, <1>8
  <2>2. Desde(cs, x[1]) + x[2] = Desde(cs, x[1]) + y[2]
    BY <1>8, <2>1 DEF Promovido
  <2>3. Desde(cs, x[1]) \in Nat /\ x[2] \in Nat /\ y[2] \in Nat
    BY <1>1, <1>4
  <2>4. x[2] = y[2]
    BY <2>2, <2>3
  <2> QED
    BY <1>4, <2>1, <2>4
<1>9. ASSUME NEW y \in Lugares(ds)
      PROVE  y[1] = 0 /\ \E x \in Lugares(cs) : Promovido(cs, x) = y
  <2>1. y[1] \in Colas /\ y[2] \in 1 .. Len(ds[y[1]]) /\ y = <<y[1], y[2]>>
    BY DEF Lugares
  <2>2. y[1] = 0
    BY <1>1, <2>1
  <2>3. PICK q \in Colas : \E i \in 1 .. Len(cs[q]) : y[2] = Desde(cs, q) + i
    BY <1>1, <1>2, <2>1, <2>2
  <2>4. PICK i \in 1 .. Len(cs[q]) : y[2] = Desde(cs, q) + i
    BY <2>3
  <2>5. <<q, i>> \in Lugares(cs)
    BY <1>1, <2>4 DEF Lugares
  <2>6. Promovido(cs, <<q, i>>) = y
    BY <2>1, <2>2, <2>4 DEF Promovido
  <2> QED
    BY <2>2, <2>5, <2>6
<1> QED
  BY <1>6, <1>8, <1>9 DEF ds

\* A promotion moves every entry to cola_a, and cola_actual follows.
LEMMA PromoverStep ==
    ASSUME NEW cs \in [Colas -> Seq(EnvIds)], NEW ca \in [Slots -> Colas],
           Entradas(cs) <= NENV, Localiza(cs, ca)
    PROVE  /\ Conserva(cs, Promover(cs))
           /\ Localiza(Promover(cs), CaPromovida(cs, ca))
<1> DEFINE ds == Promover(cs)
           da == CaPromovida(cs, ca)
<1>1. /\ \A x \in Lugares(cs) : /\ Promovido(cs, x) \in Lugares(ds)
                               /\ SlotDe(ds, Promovido(cs, x)) = SlotDe(cs, x)
      /\ \A x, y \in Lugares(cs) : Promovido(cs, x) = Promovido(cs, y) => x = y
      /\ \A y \in Lugares(ds) : y[1] = 0 /\ \E x \in Lugares(cs) : Promovido(cs, x) = y
  BY PromoverPlaces
<1> HIDE DEF ds
<1>2. Conserva(cs, ds)
  <2> DEFINE L == [x \in Lugares(cs) |-> Promovido(cs, x)]
  <2>1. L \in [Lugares(cs) -> Lugares(ds)]
    BY <1>1
  <2>2. \A x, y \in Lugares(cs) : L[x] = L[y] => x = y
    BY <1>1
  <2>3. \A x \in Lugares(cs) : SlotDe(ds, L[x]) = SlotDe(cs, x)
    BY <1>1
  <2> HIDE DEF L
  <2> QED
    BY <2>1, <2>2, <2>3 DEF Conserva
<1>3. ASSUME NEW y \in Lugares(ds), UnicaEn(ds, SlotDe(ds, y))
      PROVE  da[SlotDe(ds, y)] = y[1]
  <2>1. PICK x \in Lugares(cs) : Promovido(cs, x) = y
    BY <1>1
  <2>2. SlotDe(cs, x) = SlotDe(ds, y) /\ y[1] = 0
    BY <1>1, <2>1
  <2>3. x[1] \in Colas /\ x[2] \in 1 .. Len(cs[x[1]]) /\ SlotDe(cs, x) \in Slots
    <3>1. x[1] \in Colas /\ x[2] \in 1 .. Len(cs[x[1]])
      BY DEF Lugares
    <3>2. cs[x[1]] \in Seq(EnvIds)
      BY <3>1
    <3>3. cs[x[1]][x[2]] \in EnvIds
      BY <3>1, <3>2, ElementOfSeq
    <3> QED
      BY <3>1, <3>3 DEF SlotDe, ENVX, EnvIds
  <2>4. ca[SlotDe(cs, x)] = x[1]
    BY <1>2, <1>3, <2>2, ConservaUnica DEF Localiza
  <2>5. CASE x[1] = 0
    BY <2>2, <2>3, <2>4, <2>5 DEF CaPromovida
  <2>6. CASE x[1] # 0
    <3>1. x[1] \in 1 .. 3 /\ TieneEntrada(cs[x[1]], SlotDe(cs, x))
      BY <2>3, <2>6 DEF TieneEntrada, SlotDe, Colas, COLAS_MAXIMAS
    <3> QED
      BY <2>2, <2>3, <3>1 DEF CaPromovida
  <2> QED
    BY <2>5, <2>6
<1>4. Localiza(ds, da)
  BY <1>3 DEF Localiza
<1> QED
  BY <1>2, <1>4 DEF ds

-----------------------------------------------------------------------------
\* The invariant: the queues hold an entry for every slot in use, they have room
\* for all their entries, and cola_actual finds those that are alone.
QInv ==
    /\ \A e \in Slots : env_status[e] # "FREE" => Tiene(colas, e)
    /\ Entradas(colas) <= NENV
    /\ Localiza(colas, cola_actual)

\* Steps that leave the queues alone and take no slot into use.
LEMMA QueuesAlone ==
    ASSUME QInv, UNCHANGED <<colas, cola_actual>>,
           \A e \in Slots : env_status[e] = "FREE" => env_status'[e] = "FREE"
    PROVE  QInv'
  BY DEF QInv

\* Steps that keep the entries and take no slot into use.
LEMMA QueuesMoved ==
    ASSUME QInv, Conserva(colas, colas'), Entradas(colas') <= NENV,
           Localiza(colas', cola_actual'),
           \A e \in Slots : env_status[e] = "FREE" => env_status'[e] = "FREE"
    PROVE  QInv'
<1>1. ASSUME NEW e \in Slots, env_status'[e] # "FREE" PROVE Tiene(colas', e)
  BY <1>1, ConservaTiene DEF QInv
<1> QED
  BY <1>1 DEF QInv

\* env_run of a slot in use.
LEMMA RunKeepsFree ==
    ASSUME NEW c \in CPUs, NEW e \in Slots, env_status[e] # "FREE", EnvRun(c, e)
    PROVE  \A f \in Slots : env_status[f] = "FREE" => env_status'[f] = "FREE"
  BY DEF EnvRun

\* env_alloc.
LEMMA QueueAlloc ==
    ASSUME KInv, QInv, SCHED_PRIORITIES, MAX_ENTRADAS <= NENV, NEW c \in CPUs,
           NEW parent_id, NEW status, EnvAlloc(c, parent_id, status)
    PROVE  QInv'
<1> DEFINE e     == Head(env_free_list)
           id    == <<e, SiguienteGeneracion(e)>>
           padre == Envid2env(c, parent_id, FALSE)
           cola  == IF padre = {} THEN 0
                    ELSE cola_actual[CHOOSE p \in padre : TRUE]
<1>1. TypeOK /\ e \in Slots
  BY HeadTailProperties DEF EnvAlloc, TypeOK, KInv
<1>2. SiguienteGeneracion(e) \in 1 .. MAXGEN
  BY <1>1, KernelAssumption DEF SiguienteGeneracion, TypeOK
<1>3. id \in EnvIds /\ ENVX(id) = e
  BY <1>1, <1>2 DEF EnvIds, ENVX
<1>4. cola \in Colas
  <2>1. CASE padre = {}
    BY <2>1 DEF Colas, COLAS_MAXIMAS
  <2>2. CASE padre # {}
    <3>1. (CHOOSE p \in padre : TRUE) \in Slots
      BY <1>1, <2>2, Envid2envIsSlot
    <3> QED
      BY <1>1, <2>2, <3>1 DEF TypeOK
  <2> QED
    BY <2>1, <2>2
<1>5. /\ env_status' = [env_status EXCEPT ![e] = status]
      /\ cola_actual' = [cola_actual EXCEPT ![e] = cola]
      /\ colas' = [colas EXCEPT ![cola] = Agregar(@, id)]
  BY DEF EnvAlloc
<1>room. Entradas(colas) < NENV
  <2>1. Entradas(colas) \in Nat
    BY <1>1, EntradasBound DEF TypeOK
  <2>2. Entradas(colas) < MAX_ENTRADAS
    BY DEF EnvAlloc, HayEntradas
  <2> QED
    BY <2>1, <2>2, KernelAssumption, NENVAssumption
<1> HIDE DEF e, id, padre, cola
<1>6. colas \in [Colas -> Seq(EnvIds)] /\ cola_actual \in [Slots -> Colas]
      /\ env_status \in [Slots -> Statuses]
  BY <1>1 DEF TypeOK
<1>7. Entradas(colas) \in Nat /\ Len(colas[cola]) \in Nat /\ Len(colas[cola]) < NENV
  BY <1>4, <1>room, <1>6, EntradasBound, NENVAssumption
<1>8. colas' = Anade(colas, cola, id)
  BY <1>5 DEF Anade
<1>9. /\ Entradas(colas') = Entradas(colas) + 1 /\ Conserva(colas, colas')
      /\ Tiene(colas', e) /\ Localiza(colas', cola_actual')
  <2>1. Localiza(colas, cola_actual)
    BY DEF QInv
  <2>2. cola_actual' = Pon(cola_actual, ENVX(id), cola)
    BY <1>3, <1>5 DEF Pon
  <2> QED
    <3>1. Anadida(colas, cola_actual, cola, id)
      BY <1>3, <1>4, <1>6, <1>7, <2>1, AnadeStep
    <3> QED
      BY <1>3, <1>8, <2>2, <3>1 DEF Anadida
<1>10. ASSUME NEW f \in Slots, env_status'[f] # "FREE" PROVE Tiene(colas', f)
  <2>1. CASE f = e
    BY <1>9, <2>1
  <2>2. CASE f # e
    BY <1>1, <1>5, <1>6, <1>9, <1>10, <2>2, ConservaTiene DEF QInv
  <2> QED
    BY <2>1, <2>2
<1>11. Entradas(colas') <= NENV
  BY <1>room, <1>7, <1>9, NENVAssumption
<1> QED
  BY <1>9, <1>10, <1>11 DEF QInv

\* sys_env_asignar_prioridad.
LEMMA QueuePriority ==
    ASSUME KInv, QInv, MAX_ENTRADAS <= NENV, NEW c \in CPUs, AsignarPrioridad(c)
    PROVE  QInv'
<1>1. PICK e \in Slots, id \in EnvIds, prioridad \in Colas :
         /\ e = ENVX(id)
         /\ colas' = [[colas EXCEPT ![cola_actual[e]] = Eliminar(@, id)]
                        EXCEPT ![prioridad] = Agregar(@, id)]
         /\ cola_actual' = [cola_actual EXCEPT ![e] = prioridad]
  <2>1. \A id \in EnvIds : id # ID_0
    BY DEF EnvIds, ID_0
  <2>2. \A id \in EnvIds : \A e \in Envid2env(c, id, TRUE) : e \in Slots /\ e = ENVX(id)
    BY <2>1 DEF Envid2env
  <2> QED
    BY <2>2 DEF AsignarPrioridad
<1>2. colas \in [Colas -> Seq(EnvIds)] /\ cola_actual \in [Slots -> Colas]
  BY DEF KInv, TypeOK
<1>3. Entradas(colas) \in Nat /\ Entradas(colas) < NENV
      /\ \A q \in Colas : Len(colas[q]) \in Nat /\ Len(colas[q]) < NENV
  <2>1. Entradas(colas) < MAX_ENTRADAS
    BY DEF AsignarPrioridad, HayEntradas
  <2>2. Entradas(colas) \in Nat
        /\ \A q \in Colas : Len(colas[q]) \in Nat /\ Len(colas[q]) <= Entradas(colas)
    BY <1>2, EntradasBound
  <2> QED
    BY <2>1, <2>2, KernelAssumption, NENVAssumption
<1> DEFINE q == cola_actual[e]
<1>4. q \in Colas /\ Localiza(colas, cola_actual) /\ Entradas(colas) <= NENV
      /\ cola_actual' = Pon(cola_actual, ENVX(id), prioridad)
  BY <1>1, <1>2 DEF QInv, Pon
<1>5. Conserva(colas, colas') /\ Entradas(colas') <= NENV /\ Localiza(colas', cola_actual')
  <2>1. CASE \E j \in 1 .. Len(colas[q]) : colas[q][j] = id
    <3> DEFINE T == {j \in 1 .. Len(colas[q]) : colas[q][j] = id}
    <3>1. \E j \in T : \A i \in 1 .. (j - 1) : i \notin T
      BY <1>3, <1>4, <2>1, FirstPosition
    <3>2. \E j \in 1 .. Len(colas[q]) :
            colas[q][j] = id /\ \A i \in 1 .. (j - 1) : colas[q][i] # id
      BY <1>3, <1>4, <3>1
    <3>3. PICK j \in 1 .. Len(colas[q]) :
            colas[q][j] = id /\ Eliminar(colas[q], id) = Borrar(colas[q], j)
      BY <2>1, <3>2 DEF Eliminar
    <3> HIDE DEF T
    <3>4. [colas EXCEPT ![q] = Eliminar(@, id)] = Quita(colas, q, j)
      BY <1>2, <1>4, <3>3 DEF Quita
    <3>5. colas' = Anade(Quita(colas, q, j), prioridad, id)
      BY <1>1, <3>4 DEF Anade
    <3>6. /\ Entradas(colas') = Entradas(colas) /\ Conserva(colas, colas')
          /\ Localiza(colas', cola_actual')
      <4>1. Movida(colas, cola_actual, q, j, prioridad)
        BY <1>2, <1>4, MueveStep
      <4> QED
        BY <1>4, <3>3, <3>5, <4>1 DEF Movida
    <3> QED
      BY <1>3, <3>6, NENVAssumption
  <2>2. CASE ~ \E j \in 1 .. Len(colas[q]) : colas[q][j] = id
    <3>1. [colas EXCEPT ![q] = Eliminar(@, id)] = colas
      BY <1>2, <1>4, <2>2 DEF Eliminar
    <3>2. colas' = Anade(colas, prioridad, id)
      BY <1>1, <3>1 DEF Anade
    <3>3. /\ Entradas(colas') = Entradas(colas) + 1 /\ Conserva(colas, colas')
          /\ Localiza(colas', cola_actual')
      <4>1. Anadida(colas, cola_actual, prioridad, id)
        BY <1>2, <1>3, <1>4, AnadeStep
      <4> QED
        BY <1>4, <3>2, <4>1 DEF Anadida
    <3> QED
      BY <1>3, <3>3, NENVAssumption
  <2> QED
    BY <2>1, <2>2
<1>6. UNCHANGED env_status
  BY DEF AsignarPrioridad
<1> QED
  BY <1>5, <1>6, QueuesMoved

\* Conserva is reflexive and transitive.
LEMMA ConservaSame == \A cs : Conserva(cs, cs)
<1> SUFFICES ASSUME NEW cs PROVE Conserva(cs, cs)
  OBVIOUS
<1> DEFINE L == [x \in Lugares(cs) |-> x]
<1>1. /\ L \in [Lugares(cs) -> Lugares(cs)]
      /\ \A x, y \in Lugares(cs) : L[x] = L[y] => x = y
      /\ \A x \in Lugares(cs) : SlotDe(cs, L[x]) = SlotDe(cs, x)
  OBVIOUS
<1> HIDE DEF L
<1> QED
  BY <1>1 DEF Conserva

LEMMA ConservaTrans ==
    ASSUME NEW cs, NEW ms, NEW ds, Conserva(cs, ms), Conserva(ms, ds)
    PROVE  Conserva(cs, ds)
<1>1. PICK L \in [Lugares(cs) -> Lugares(ms)] :
        /\ \A x, y \in Lugares(cs) : L[x] = L[y] => x = y
        /\ \A x \in Lugares(cs) : SlotDe(ms, L[x]) = SlotDe(cs, x)
  BY DEF Conserva
<1>2. PICK M \in [Lugares(ms) -> Lugares(ds)] :
        /\ \A x, y \in Lugares(ms) : M[x] = M[y] => x = y
        /\ \A x \in Lugares(ms) : SlotDe(ds, M[x]) = SlotDe(ms, x)
  BY DEF Conserva
<1> DEFINE N == [x \in Lugares(cs) |-> M[L[x]]]
<1>3. \A x \in Lugares(cs) : L[x] \in Lugares(ms)
  BY <1>1
<1>4. /\ N \in [Lugares(cs) -> Lugares(ds)]
      /\ \A x, y \in Lugares(cs) : N[x] = N[y] => x = y
      /\ \A x \in Lugares(cs) : SlotDe(ds, N[x]) = SlotDe(cs, x)
  BY <1>1, <1>2, <1>3
<1> HIDE DEF N
<1> QED
  BY <1>4 DEF Conserva

\* A promotion keeps the number of entries.
LEMMA PromoverEntradas ==
    ASSUME NEW cs \in [Colas -> Seq(EnvIds)], Entradas(cs) <= NENV
    PROVE  /\ Entradas(Promover(cs)) = Entradas(cs)
           /\ Promover(cs) \in [Colas -> Seq(EnvIds)]
<1> DEFINE w == cs[0] \o cs[1] \o cs[2] \o cs[3]
<1>1. /\ cs[0] \in Seq(EnvIds) /\ cs[1] \in Seq(EnvIds)
      /\ cs[2] \in Seq(EnvIds) /\ cs[3] \in Seq(EnvIds)
  BY DEF Colas, COLAS_MAXIMAS
<1>2. w \in Seq(EnvIds)
      /\ Len(w) = Len(cs[0]) + Len(cs[1]) + Len(cs[2]) + Len(cs[3])
  BY <1>1
<1>3. Promover(cs) = [q \in Colas |-> IF q = 0 THEN w ELSE <<>>]
  BY PromoverRoom
<1> HIDE DEF w
<1>4. /\ Promover(cs)[0] = w /\ Promover(cs)[1] = <<>>
      /\ Promover(cs)[2] = <<>> /\ Promover(cs)[3] = <<>>
  BY <1>3 DEF Colas, COLAS_MAXIMAS
<1>5. Entradas(Promover(cs)) = Entradas(cs)
  <2>1. /\ Len(Promover(cs)[0]) = Len(cs[0]) + Len(cs[1]) + Len(cs[2]) + Len(cs[3])
        /\ Len(Promover(cs)[1]) = 0 /\ Len(Promover(cs)[2]) = 0
        /\ Len(Promover(cs)[3]) = 0
    BY <1>2, <1>4
  <2>2. /\ Len(cs[0]) \in Nat /\ Len(cs[1]) \in Nat
        /\ Len(cs[2]) \in Nat /\ Len(cs[3]) \in Nat
    BY <1>1
  <2> QED
    BY <2>1, <2>2 DEF Entradas
<1>6. Promover(cs) \in [Colas -> Seq(EnvIds)]
  BY <1>2, <1>3, EmptySeq
<1> QED
  BY <1>5, <1>6

\* The queues and cola_actual that prioridad_MLFQ looks at.
LEMMA QueuePromoted ==
    ASSUME KInv, QInv, NEW promueve \in BOOLEAN, NEW cs, NEW ca,
           cs = (IF promueve THEN Promover(colas) ELSE colas),
           ca = (IF promueve THEN ColaActualPromovida ELSE cola_actual)
    PROVE  /\ cs \in [Colas -> Seq(EnvIds)] /\ ca \in [Slots -> Colas]
           /\ Conserva(colas, cs) /\ Entradas(cs) <= NENV /\ Localiza(cs, ca)
<1>1. colas \in [Colas -> Seq(EnvIds)] /\ cola_actual \in [Slots -> Colas]
      /\ Entradas(colas) <= NENV /\ Localiza(colas, cola_actual)
  BY DEF KInv, TypeOK, QInv
<1>2. CASE ~promueve
  <2>1. cs = colas /\ ca = cola_actual
    BY <1>2
  <2> QED
    BY <1>1, <2>1, ConservaSame, Zenon
<1>3. CASE promueve
  <2>1. cs = Promover(colas) /\ ca = CaPromovida(colas, cola_actual)
    BY <1>3 DEF ColaActualPromovida, CaPromovida
  <2>2. /\ Conserva(colas, Promover(colas))
        /\ Localiza(Promover(colas), CaPromovida(colas, cola_actual))
        /\ Entradas(Promover(colas)) = Entradas(colas)
        /\ Promover(colas) \in [Colas -> Seq(EnvIds)]
    BY <1>1, PromoverStep, PromoverEntradas
  <2>3. CaPromovida(colas, cola_actual) \in [Slots -> Colas]
    BY <1>1 DEF CaPromovida, Colas, COLAS_MAXIMAS
  <2> QED
    BY <1>1, <2>1, <2>2, <2>3
<1> QED
  BY <1>2, <1>3

\* sched_yield of the MLFQ build.
LEMMA QueueSched ==
    ASSUME KInv, QInv, NEW c \in CPUs, PrioridadMLFQ(c)
    PROVE  QInv'
<1> DEFINE promueve == ejecuciones_totales >= MAX_EJECUCIONES_MLFQ
           cs  == IF promueve THEN Promover(colas) ELSE colas
           ca  == IF promueve THEN ColaActualPromovida ELSE cola_actual
<1>0. promueve \in BOOLEAN
  OBVIOUS
<1>1. /\ cs \in [Colas -> Seq(EnvIds)] /\ ca \in [Slots -> Colas]
      /\ Conserva(colas, cs) /\ Entradas(cs) <= NENV /\ Localiza(cs, ca)
  BY <1>0, QueuePromoted
<1>2. CASE \E q \in Colas : \E j \in 1 .. Len(cs[q]) : \E nueva \in Colas :
             /\ Ejecutable(cs[q][j])
             /\ colas' = [[cs EXCEPT ![q] = Borrar(@, j)]
                            EXCEPT ![nueva] = Agregar(@, cs[q][j])]
             /\ cola_actual' = [ca EXCEPT ![ENVX(cs[q][j])] = nueva]
             /\ EnvRun(c, ENVX(cs[q][j]))
  <2> HIDE DEF cs, ca
  <2>0. PICK q \in Colas : \E j \in 1 .. Len(cs[q]) : \E nueva \in Colas :
             /\ Ejecutable(cs[q][j])
             /\ colas' = [[cs EXCEPT ![q] = Borrar(@, j)]
                            EXCEPT ![nueva] = Agregar(@, cs[q][j])]
             /\ cola_actual' = [ca EXCEPT ![ENVX(cs[q][j])] = nueva]
             /\ EnvRun(c, ENVX(cs[q][j]))
    BY <1>2
  <2>1. PICK j \in 1 .. Len(cs[q]), nueva \in Colas :
             /\ Ejecutable(cs[q][j])
             /\ colas' = [[cs EXCEPT ![q] = Borrar(@, j)]
                            EXCEPT ![nueva] = Agregar(@, cs[q][j])]
             /\ cola_actual' = [ca EXCEPT ![ENVX(cs[q][j])] = nueva]
             /\ EnvRun(c, ENVX(cs[q][j]))
    BY <2>0
  <2>2. Movida(cs, ca, q, j, nueva)
    BY <1>1, MueveStep
  <2>3. colas' = Anade(Quita(cs, q, j), nueva, cs[q][j])
    BY <2>1 DEF Anade, Quita
  <2>4. cola_actual' = Pon(ca, ENVX(cs[q][j]), nueva)
    BY <2>1 DEF Pon
  <2>5. /\ Entradas(colas') = Entradas(cs) /\ Conserva(cs, colas')
        /\ Localiza(colas', cola_actual')
    BY <2>2, <2>3, <2>4 DEF Movida
  <2>6. Conserva(colas, colas')
    BY <1>1, <2>5, ConservaTrans
  <2>7. ENVX(cs[q][j]) \in Slots
    <3>1. cs[q] \in Seq(EnvIds)
      BY <1>1
    <3>2. cs[q][j] \in EnvIds
      BY <3>1, ElementOfSeq
    <3> QED
      BY <3>2 DEF EnvIds, ENVX
  <2>8. env_status[ENVX(cs[q][j])] # "FREE"
    BY <2>1 DEF Ejecutable
  <2>9. \A f \in Slots : env_status[f] = "FREE" => env_status'[f] = "FREE"
    BY <2>1, <2>7, <2>8, RunKeepsFree
  <2>10. Entradas(colas') <= NENV
    BY <1>1, <2>5
  <2> QED
    BY <2>5, <2>6, <2>9, <2>10, QueuesMoved
<1>3. CASE /\ colas' = cs /\ cola_actual' = ca
           /\ \/ Corre(c) /\ EnvRun(c, curenv[c])
              \/ SchedHalt(c)
  <2> HIDE DEF cs, ca
  <2>1. Conserva(colas, colas') /\ Entradas(colas') <= NENV
        /\ Localiza(colas', cola_actual')
    BY <1>1, <1>3, Zenon
  <2>2. \A f \in Slots : env_status[f] = "FREE" => env_status'[f] = "FREE"
    <3>1. CASE Corre(c) /\ EnvRun(c, curenv[c])
      <4>1. curenv[c] \in Slots /\ env_status[curenv[c]] # "FREE"
        BY <3>1 DEF Corre, KInv, TypeOK
      <4> QED
        BY <3>1, <4>1, RunKeepsFree
    <3>2. CASE SchedHalt(c)
      BY <3>2 DEF SchedHalt
    <3> QED
      BY <1>3, <3>1, <3>2
  <2> QED
    BY <2>1, <2>2, QueuesMoved
<1> QED
  <2>1. \A q \in Colas : (IF q >= COLAS_MAXIMAS - 1 THEN COLAS_MAXIMAS - 1 ELSE q + 1)
                           \in Colas
    BY DEF Colas, COLAS_MAXIMAS
  <2> QED
    BY <1>2, <1>3, <2>1 DEF PrioridadMLFQ, MejorEntrada

\* The rest of the handlers: statuses change, the queues do not.
LEMMA QueueTrap ==
    ASSUME KInv, QInv, SCHED_PRIORITIES, MAX_ENTRADAS <= NENV, NEW c \in CPUs, Trap(c)
    PROVE  QInv'
<1>0. env_status \in [Slots -> Statuses]
  BY DEF KInv, TypeOK
<1>1. \A id \in EnvIds : \A e \in Envid2env(c, id, TRUE) \cup Envid2env(c, id, FALSE) :
         e \in Slots /\ env_status[e] # "FREE"
  <2>1. \A id \in EnvIds : id # ID_0
    BY DEF EnvIds, ID_0
  <2> QED
    BY <2>1 DEF Envid2env
<1>2. EnServicio(c) => env_status[curenv[c]] # "FREE" /\ curenv[c] \in Slots
  BY DEF EnServicio, KInv, CurenvIsSet, ConCurenv
<1>3. CASE Timer(c) \/ OtherTrap(c) \/ IpcRecvInvalid(c)
  BY <1>3, QueuesAlone DEF Timer, OtherTrap, IpcRecvInvalid, mlfqVars
<1>4. CASE DestroySelf(c)
  BY <1>4, QueuesAlone DEF DestroySelf, EnvFree, mlfqVars
<1>5. CASE DestroyChild(c)
  <2>1. \A e \in Slots : env_status[e] = "FREE" => env_status'[e] = "FREE"
    BY <1>0, <1>1, <1>5 DEF DestroyChild, EnvFree
  <2> QED
    BY <1>5, <2>1, QueuesAlone DEF DestroyChild, mlfqVars
<1>6. CASE Exofork(c)
  BY <1>6, QueueAlloc DEF Exofork
<1>7. CASE SetStatus(c)
  <2>1. \A e \in Slots : env_status[e] = "FREE" => env_status'[e] = "FREE"
    BY <1>0, <1>1, <1>7 DEF SetStatus
  <2> QED
    BY <1>7, <2>1, QueuesAlone DEF SetStatus, mlfqVars
<1>8. CASE IpcRecv(c)
  <2>1. \A e \in Slots : env_status[e] = "FREE" => env_status'[e] = "FREE"
    BY <1>2, <1>8 DEF IpcRecv
  <2> QED
    BY <1>8, <2>1, QueuesAlone DEF IpcRecv, mlfqVars
<1>9. CASE IpcTrySend(c)
  <2>1. \A e \in Slots : env_status[e] = "FREE" => env_status'[e] = "FREE"
    BY <1>0, <1>1, <1>9 DEF IpcTrySend
  <2> QED
    BY <1>9, <2>1, QueuesAlone DEF IpcTrySend, mlfqVars
<1>10. CASE AsignarPrioridad(c)
  BY <1>10, QueuePriority
<1>11. CASE PageFaultUpcall(c)
  BY <1>2, <1>11, RunKeepsFree, QueuesAlone DEF PageFaultUpcall, mlfqVars
<1> QED
  BY <1>3, <1>4, <1>5, <1>6, <1>7, <1>8, <1>9, <1>10, <1>11 DEF Trap

\* The queues keep an entry for every slot in use, whatever the programs do, in
\* the MLFQ build and while there are no more entries than cells in a ring.
THEOREM KernelQueueInvariant ==
    (SCHED_PRIORITIES /\ MAX_ENTRADAS <= NENV) => (Spec => []QInv)
<1> SUFFICES ASSUME SCHED_PRIORITIES, MAX_ENTRADAS <= NENV PROVE Spec => []QInv
  OBVIOUS
<1>1. Init => QInv
  <2> SUFFICES ASSUME Init PROVE QInv
    OBVIOUS
  <2>1. \A q \in Colas : colas[q] = <<>>
    BY DEF Init
  <2>2. Lugares(colas) = {}
    BY <2>1 DEF Lugares
  <2>3. Entradas(colas) = 0
    <3>1. /\ Len(colas[0]) = 0 /\ Len(colas[1]) = 0
          /\ Len(colas[2]) = 0 /\ Len(colas[3]) = 0
      BY <2>1 DEF Colas, COLAS_MAXIMAS
    <3> QED
      BY <3>1 DEF Entradas
  <2> QED
    BY <2>2, <2>3, NENVAssumption DEF Init, QInv, Localiza
<1>2. KInv /\ QInv /\ [Next]_vars => QInv'
  <2> SUFFICES ASSUME KInv, QInv, [Next]_vars PROVE QInv'
    OBVIOUS
  <2>1. CASE UNCHANGED vars
    BY <2>1, QueuesAlone DEF vars
  <2>2. ASSUME NEW c \in CPUs, Trap(c) PROVE QInv'
    BY <2>2, QueueTrap
  <2>3. ASSUME NEW c \in CPUs, EnvCreate(c) PROVE QInv'
    BY <2>3, QueueAlloc DEF EnvCreate
  <2>4. ASSUME NEW c \in CPUs, \/ MpMain(c) \/ BootDone(c) \/ Resume(c) \/ LockKernel(c)
                               \/ TrapUser(c) \/ TimerHalted(c) \/ Monitor(c)
        PROVE  QInv'
    BY <2>4, QueuesAlone DEF MpMain, BootDone, Resume, LockKernel, TrapUser,
       TimerHalted, Monitor, mlfqVars, vars
  <2>5. ASSUME NEW c \in CPUs, Reap(c) PROVE QInv'
    BY <2>5, QueuesAlone DEF Reap, EnvFree, mlfqVars
  <2>6. ASSUME NEW c \in CPUs, TrapReturn(c) PROVE QInv'
    <3>1. CASE env_status[curenv[c]] = "RUNNING"
      <4>1. EnvRun(c, curenv[c]) /\ curenv[c] \in Slots
        BY <2>6, <3>1 DEF TrapReturn, KInv, CurenvIsSet, ConCurenv
      <4> QED
        BY <2>6, <3>1, <4>1, RunKeepsFree, QueuesAlone DEF TrapReturn, mlfqVars
    <3>2. CASE env_status[curenv[c]] # "RUNNING"
      BY <2>6, <3>2, QueuesAlone DEF TrapReturn, mlfqVars
    <3> QED
      BY <3>1, <3>2
  <2>7. ASSUME NEW c \in CPUs, SchedYield(c) PROVE QInv'
    BY <2>7, QueueSched DEF SchedYield, RoundRobin
  <2> QED
    BY <2>1, <2>2, <2>3, <2>4, <2>5, <2>6, <2>7 DEF Next, KernelStep, Boot
<1> QED
  BY <1>1, <1>2, KernelInvariant, PTL DEF Spec

\* sched_yield can find every runnable environment (tiene_entornos_ejecutables,
\* sched.c): no exit, kill, promotion, change of priority or dispatch, in any
\* order, drops the last entry of a slot that is in use.
THEOREM KernelRunnableQueued ==
    (SCHED_PRIORITIES /\ MAX_ENTRADAS <= NENV) => (Spec => []RunnableQueued)
<1>1. QInv => RunnableQueued
  BY DEF QInv, RunnableQueued, Tiene, Lugares, SlotDe, TieneEntrada
<1> QED
  BY <1>1, KernelQueueInvariant, PTL

-----------------------------------------------------------------------------
\* Only sched_yield takes a CPU from the call of sched_yield to the end of env_run.
LEMMA WhoDispatches ==
    ASSUME KInv, [Next]_vars, NEW c \in CPUs, pc[c] = "yield", pc'[c] = "resume"
    PROVE  SchedYield(c)
<1>0. pc \in [CPUs -> Points] /\ kernel_lock = c
      /\ \A d \in CPUs : pc[d] \in InKernel => d = c
  BY DEF KInv, TypeOK, LockHeldInKernel, InKernel
<1>1. ASSUME NEW d \in CPUs, NEW p, Goto(d, p), p # "resume" PROVE FALSE
  BY <1>0, <1>1 DEF Goto
<1>2. ASSUME NEW d \in CPUs, pc[d] \in InKernel, pc[d] # "yield" PROVE FALSE
  BY <1>0, <1>2
<1>3. ~UNCHANGED vars
  BY DEF vars
<1>4. ASSUME NEW d \in CPUs, EnvCreate(d) \/ Monitor(d) PROVE FALSE
  BY <1>4 DEF EnvCreate, Monitor, cpuVars, vars
<1>5. ASSUME NEW d \in CPUs, \/ MpMain(d) \/ BootDone(d) \/ TimerHalted(d)
                             \/ TrapUser(d) \/ Resume(d) \/ Reap(d)
      PROVE  FALSE
  BY <1>1, <1>5 DEF MpMain, BootDone, TimerHalted, TrapUser, Resume, Reap
<1>6. ASSUME NEW d \in CPUs, LockKernel(d) PROVE FALSE
  <2>1. Goto(d, "boot") \/ Goto(d, "trap") \/ Goto(d, "yield")
    BY <1>6 DEF LockKernel, Spinning
  <2> QED
    BY <1>1, <2>1
<1>7. ASSUME NEW d \in CPUs, Trap(d) PROVE FALSE
  <2>1. pc[d] = "trap"
    BY <1>7 DEF Trap, Timer, OtherTrap, DestroySelf, DestroyChild, Exofork,
       SetStatus, IpcRecv, IpcRecvInvalid, IpcTrySend, AsignarPrioridad,
       PageFaultUpcall, EnServicio
  <2> QED
    BY <1>2, <2>1 DEF InKernel
<1>8. ASSUME NEW d \in CPUs, TrapReturn(d) PROVE FALSE
  BY <1>2, <1>8 DEF TrapReturn, InKernel
<1>9. PICK d \in CPUs : SchedYield(d)
  BY <1>3, <1>4, <1>5, <1>6, <1>7, <1>8 DEF Next, KernelStep, Boot
<1>10. pc[d] = "yield"
  BY <1>9 DEF SchedYield, RoundRobin, PrioridadMLFQ
<1> QED
  BY <1>0, <1>9, <1>10 DEF InKernel

\* A slot that is alone in the queues sits in the one cola_actual names.
LEMMA QueueIsPriority ==
    ASSUME KInv, QInv, NEW q \in Colas, NEW j \in 1 .. Len(colas[q]),
           Unica(ENVX(colas[q][j]))
    PROVE  cola_actual[ENVX(colas[q][j])] = q
<1> DEFINE x == <<q, j>>
<1>1. x \in Lugares(colas) /\ SlotDe(colas, x) = ENVX(colas[q][j]) /\ x[1] = q
  <2>1. colas[q] \in Seq(EnvIds)
    BY DEF KInv, TypeOK
  <2> QED
    BY <2>1 DEF Lugares, SlotDe
<1> HIDE DEF x
<1>2. UnicaEn(colas, ENVX(colas[q][j]))
  BY DEF UnicaEn, Unica, Lugares, SlotDe
<1> QED
  BY <1>1, <1>2 DEF QInv, Localiza

\* While no slot has two entries the environment that leaves sched_yield for a
\* CPU has the best priority of all that are runnable (scheduler.md:154): the
\* queue an entry sits in is the one cola_actual names, after any sequence of
\* forks, exits, dispatches, promotions and changes of priority.
THEOREM KernelPriorityRespected ==
    (SCHED_PRIORITIES /\ MAX_ENTRADAS <= NENV) => (Spec => PriorityRespectedIfUnique)
<1> DEFINE Respeta == \A c \in CPUs : Despacha(c) /\ (\A f \in Slots : Unica(f)) =>
               \A f \in Slots : env_status[f] = "RUNNABLE"
                   => cola_actual[curenv'[c]] <= cola_actual[f]
<1> SUFFICES ASSUME SCHED_PRIORITIES, MAX_ENTRADAS <= NENV PROVE Spec => [][Respeta]_vars
  BY DEF PriorityRespectedIfUnique
<1>1. KInv /\ QInv /\ [Next]_vars => Respeta
  <2> SUFFICES ASSUME KInv, QInv, [Next]_vars, NEW c \in CPUs, Despacha(c),
                      \A f \in Slots : Unica(f),
                      NEW f \in Slots, env_status[f] = "RUNNABLE"
               PROVE  cola_actual[curenv'[c]] <= cola_actual[f]
    OBVIOUS
  <2>1. PrioridadMLFQ(c)
    BY WhoDispatches DEF Despacha, SchedYield, RoundRobin
  <2>2. ejecuciones_totales < MAX_EJECUCIONES_MLFQ
        /\ ejecuciones_totales \in Nat /\ MAX_EJECUCIONES_MLFQ \in Nat
        /\ curenv \in [CPUs -> Slots \cup {NULL}] /\ kernel_lock = c
        /\ pc \in [CPUs -> Points] /\ colas \in [Colas -> Seq(EnvIds)]
    BY KernelAssumption
       DEF Despacha, KInv, TypeOK, LockHeldInKernel, InKernel
  <2>3. ~(Corre(c) /\ EnvRun(c, curenv[c]))
    BY <2>2 DEF Corre, EnvRun, Despacha
  <2>4. ~SchedHalt(c)
    BY <2>2 DEF SchedHalt, Libera, Goto, Despacha
  <2>5. PICK q \in Colas : \E j \in 1 .. Len(colas[q]) :
               MejorEntrada(colas, q, j) /\ EnvRun(c, ENVX(colas[q][j]))
    BY <2>1, <2>2, <2>3, <2>4 DEF PrioridadMLFQ
  <2>6. PICK j \in 1 .. Len(colas[q]) :
               MejorEntrada(colas, q, j) /\ EnvRun(c, ENVX(colas[q][j]))
    BY <2>5
  <2>7. \A p \in Colas : \A i \in 1 .. Len(colas[p]) : ENVX(colas[p][i]) \in Slots
    <3> SUFFICES ASSUME NEW p \in Colas, NEW i \in 1 .. Len(colas[p])
                 PROVE  ENVX(colas[p][i]) \in Slots
      OBVIOUS
    <3>1. colas[p] \in Seq(EnvIds)
      BY <2>2
    <3>2. colas[p][i] \in EnvIds
      BY <3>1, ElementOfSeq
    <3> QED
      BY <3>2 DEF EnvIds, ENVX
  <2>8. curenv'[c] = ENVX(colas[q][j])
    BY <2>2, <2>6 DEF EnvRun
  <2>9. cola_actual[curenv'[c]] = q
    BY <2>7, <2>8, QueueIsPriority
  <2>10. PICK p \in Colas, i \in Nat :
            i \in 1 .. Len(colas[p]) /\ ENVX(colas[p][i]) = f
    BY DEF QInv, Tiene, Lugares, SlotDe
  <2>11. cola_actual[f] = p
    BY <2>10, QueueIsPriority
  <2>12. ~(p < q)
    BY <2>6, <2>10 DEF MejorEntrada, Ejecutable
  <2> QED
    BY <2>9, <2>11, <2>12 DEF Colas, COLAS_MAXIMAS
<1> HIDE DEF Respeta
<1> QED
  BY <1>1, KernelInvariant, KernelQueueInvariant, PTL DEF Spec
=============================================================================
