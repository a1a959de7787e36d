------------------------------- MODULE Kernel -------------------------------
(***************************************************************************)
(* The multiprocessor kernel of scheduler/kern: the environment table, the *)
(* CPUs that boot, run environments, trap, halt and wake up, the big       *)
(* kernel lock around every handler, and both schedulers (the build picks  *)
(* one: GNUmakefile:106-112).                                              *)
(*                                                                         *)
(* The kernel runs with interrupts off and the big lock held, so what a    *)
(* CPU does between lock_kernel and unlock_kernel is interleaved only with *)
(* the lock-free steps of the other CPUs: user code, the entry of trap()   *)
(* up to lock_kernel, and the end of env_run after unlock_kernel.  A       *)
(* handler is one action; the call of sched_yield and the end of trap()    *)
(* that every handler reaches are actions of their own, forced by pc.      *)
(*                                                                         *)
(* Memory, registers and message contents are abstracted: they do not      *)
(* decide any status, queue or lock.                                       *)
(***************************************************************************)
EXTENDS MlfqQueues, FiniteSets

CONSTANTS
    NCPU,                   \* number of CPUs found by mp_init
                            \* (NENV, the size of envs[], is MlfqQueues')
    MAXGEN,                 \* generations an env_id can carry before it wraps
    NINICIAL,               \* environments created by i386_init
    SCHED_PRIORITIES,       \* TRUE: the MLFQ build; FALSE: the default build
    MAX_EJECUCIONES_MLFQ,   \* runs between two promotions
    MAX_ENTRADAS,           \* bound on the queue entries explored (MLFQ only)
    LIBOS                   \* TRUE: programs call the kernel only as lib/ does

ASSUME KernelAssumption ==
    /\ NCPU \in Nat \ {0}
    /\ MAXGEN \in Nat \ {0}
    /\ NINICIAL \in 1 .. NENV
    /\ SCHED_PRIORITIES \in BOOLEAN
    /\ MAX_EJECUCIONES_MLFQ \in Nat \ {0}
    /\ MAX_ENTRADAS \in Nat
    /\ LIBOS \in BOOLEAN

CPUs   == 0 .. NCPU - 1
Slots  == 0 .. NENV - 1
BSP    == 0                 \* bootcpu
NULL   == -1                \* no Env, no CPU
EnvIds == Slots \X (1 .. MAXGEN)
ID_0   == <<0, 0>>          \* env id 0: "the current environment", or no parent

Statuses == {"FREE", "DYING", "RUNNABLE", "RUNNING", "NOT_RUNNABLE"}

VARIABLES
    env_status,         \* envs[e].env_status
    generacion,         \* the generation part of envs[e].env_id; 0 if never used
    env_parent_id,      \* envs[e].env_parent_id
    env_ipc_recving,    \* envs[e].env_ipc_recving
    env_cpunum,         \* envs[e].env_cpunum
    env_free_list,      \* env_free_list, as the sequence of its slots
    cola_actual,        \* envs[e].cola_actual
    colas,              \* mlfq_scheduler.cola_a .. cola_d
    ejecuciones_totales,\* mlfq_scheduler.ejecuciones_totales
    curenv,             \* cpus[c].cpu_env: a slot or NULL
    cpu_status,         \* cpus[c].cpu_status
    kernel_lock,        \* the CPU that holds the big kernel lock, or NULL
    pc                  \* where each CPU is, see Points

ipcVars   == <<env_ipc_recving>>
allocVars == <<generacion, env_parent_id>>
mlfqVars  == <<cola_actual, colas, ejecuciones_totales>>
cpuVars   == <<curenv, cpu_status, kernel_lock, pc>>
vars == <<env_status, generacion, env_parent_id, env_ipc_recving, env_cpunum,
          env_free_list, cola_actual, colas, ejecuciones_totales, curenv,
          cpu_status, kernel_lock, pc>>

\* Where a CPU is.  "off": an AP before mp_main.  "spin...": in lock_kernel, of
\* i386_init, of trap() from user mode, or on the way to sched_yield (mp_main,
\* a halted CPU).  With the lock: "boot" (i386_init), "trap" (trap() before
\* dispatch), "ret" (trap() after dispatch), "yield" (calling sched_yield),
\* "monitor" (sched_halt's endless loop).  Without it again: "resume" (env_run
\* after unlock_kernel), "user", "halted".  "panic": an assertion failed.
Spinning == {"spin_boot", "spin_user", "spin_sched"}
InKernel == {"boot", "trap", "ret", "yield", "monitor"}
Points   == {"off", "resume", "user", "halted", "panic"} \cup Spinning \cup InKernel

IdDe(e) == <<e, generacion[e]>>     \* envs[e].env_id

Init ==
    /\ env_status = [e \in Slots |-> "FREE"]
    /\ generacion = [e \in Slots |-> 0]
    /\ env_parent_id = [e \in Slots |-> ID_0]
    /\ env_ipc_recving = [e \in Slots |-> FALSE]
    /\ env_cpunum = [e \in Slots |-> 0]
    /\ env_free_list = [k \in 1 .. NENV |-> k - 1]
    /\ cola_actual = [e \in Slots |-> 0]
    /\ colas = [q \in Colas |-> <<>>]
    /\ ejecuciones_totales = 0
    /\ curenv = [c \in CPUs |-> NULL]
    /\ cpu_status = [c \in CPUs |-> IF c = BSP THEN "STARTED" ELSE "UNUSED"]
    /\ kernel_lock = NULL
    /\ pc = [c \in CPUs |-> IF c = BSP THEN "spin_boot" ELSE "off"]

-----------------------------------------------------------------------------
\* Helpers

Goto(c, p) == pc' = [pc EXCEPT ![c] = p]

\* unlock_kernel and go on at p; spin_unlock panics if this CPU has not the lock.
Libera(c, p) ==
    IF kernel_lock = c
    THEN kernel_lock' = NULL /\ Goto(c, p)
    ELSE Goto(c, "panic") /\ UNCHANGED kernel_lock

\* The environments envid2env can store for an id: none (-E_BAD_ENV) or one.
Envid2env(c, id, checkperm) ==
    IF id = ID_0 THEN {curenv[c]} \ {NULL}
    ELSE {e \in Slots :
            /\ e = ENVX(id)
            /\ env_status[e] # "FREE"
            /\ IdDe(e) = id
            /\ checkperm => \/ e = curenv[c]
                            \/ env_parent_id[e] = IdDe(curenv[c])}

-----------------------------------------------------------------------------
\* env.c: allocating, freeing, running an environment; sched.c: sched_halt

\* Mistake: env_free does not link the slot into the free list.
EnvFreeSinEnlazar(e) ==
    /\ env_status' = [env_status EXCEPT ![e] = "FREE"]
    /\ UNCHANGED env_free_list

\* env_free: the slot goes to the head of the free list.  The entries of the
\* environment in the scheduler's queues are left where they are.
EnvFree(e) ==
    /\ env_status' = [env_status EXCEPT ![e] = "FREE"]
    /\ env_free_list' = <<e>> \o env_free_list

\* env_id: the generation after the slot's last one, 1 after the largest.
SiguienteGeneracion(e) ==
    IF generacion[e] >= MAXGEN THEN 1 ELSE generacion[e] + 1

\* There is room for another queue entry within the bound of this model.
HayEntradas == SCHED_PRIORITIES => Entradas(colas) < MAX_ENTRADAS

\* env_alloc takes the slot at the head of the free list; the caller leaves the
\* new environment in the given status.  The new entry goes to the parent's
\* queue.  Queues are unread in the round robin build and stay empty there.
EnvAlloc(c, parent_id, status) ==
    LET e     == Head(env_free_list)
        id    == <<e, SiguienteGeneracion(e)>>
        padre == Envid2env(c, parent_id, FALSE)
        cola  == IF padre = {} THEN 0
                 ELSE cola_actual[CHOOSE p \in padre : TRUE]
    IN  /\ env_free_list # <<>>
        /\ HayEntradas
        /\ generacion' = [generacion EXCEPT ![e] = id[2]]
        /\ env_parent_id' = [env_parent_id EXCEPT ![e] = parent_id]
        /\ env_status' = [env_status EXCEPT ![e] = status]
        /\ env_ipc_recving' = [env_ipc_recving EXCEPT ![e] = FALSE]
        /\ env_free_list' = Tail(env_free_list)
        /\ IF SCHED_PRIORITIES
           THEN /\ cola_actual' = [cola_actual EXCEPT ![e] = cola]
                /\ colas' = [colas EXCEPT ![cola] = Agregar(@, id)]
           ELSE UNCHANGED <<cola_actual, colas>>

\* Mistake: the environment that loses the CPU stays RUNNING.
EnvRunSinDesalojar(c, e) ==
    /\ env_status' = [env_status EXCEPT ![e] = "RUNNING"]
    /\ curenv' = [curenv EXCEPT ![c] = e]
    /\ Libera(c, "resume")
    /\ UNCHANGED cpu_status

\* env_run up to unlock_kernel; Resume is what follows it.
EnvRun(c, e) ==
    /\ env_status' =
         [f \in Slots |->
            IF f = e THEN "RUNNING"
            ELSE IF f = curenv[c] /\ env_status[f] = "RUNNING" THEN "RUNNABLE"
            ELSE env_status[f]]
    /\ curenv' = [curenv EXCEPT ![c] = e]
    /\ Libera(c, "resume")
    /\ UNCHANGED cpu_status

\* Mistake: cpu_status is not set to CPU_HALTED.
SchedHaltSinMarcar(c) ==
    /\ IF \A e \in Slots : env_status[e] \notin {"RUNNABLE", "RUNNING", "DYING"}
       THEN Goto(c, "monitor") /\ UNCHANGED <<curenv, kernel_lock>>
       ELSE curenv' = [curenv EXCEPT ![c] = NULL] /\ Libera(c, "halted")
    /\ UNCHANGED <<env_status, cpu_status>>

\* Mistake: the loop does not look for zombies.
SchedHaltSinZombies(c) ==
    /\ IF \A e \in Slots : env_status[e] \notin {"RUNNABLE", "RUNNING"}
       THEN Goto(c, "monitor") /\ UNCHANGED <<curenv, cpu_status, kernel_lock>>
       ELSE /\ curenv' = [curenv EXCEPT ![c] = NULL]
            /\ cpu_status' = [cpu_status EXCEPT ![c] = "HALTED"]
            /\ Libera(c, "halted")
    /\ UNCHANGED env_status

\* sched_halt: with nothing left to wait for the CPU enters the monitor for
\* good, lock in hand; otherwise it halts until the next timer interrupt.
SchedHalt(c) ==
    /\ IF \A e \in Slots : env_status[e] \notin {"RUNNABLE", "RUNNING", "DYING"}
       THEN Goto(c, "monitor") /\ UNCHANGED <<curenv, cpu_status, kernel_lock>>
       ELSE /\ curenv' = [curenv EXCEPT ![c] = NULL]
            /\ cpu_status' = [cpu_status EXCEPT ![c] = "HALTED"]
            /\ Libera(c, "halted")
    /\ UNCHANGED env_status

-----------------------------------------------------------------------------
\* init.c: boot

\* mp_main of AP c.  boot_aps starts the APs one at a time, waiting for each
\* one's cpu_status.
MpMain(c) ==
    /\ pc[c] = "off"
    /\ pc[BSP] = "boot"
    /\ \A d \in CPUs : d < c => cpu_status[d] = "STARTED"
    /\ cpu_status' = [cpu_status EXCEPT ![c] = "STARTED"]
    /\ Goto(c, "spin_sched")
    /\ UNCHANGED <<env_status, allocVars, ipcVars, env_cpunum, env_free_list,
                   mlfqVars, curenv, kernel_lock>>

Creados == {e \in Slots : env_status[e] # "FREE"}

\* env_create: one ENV_CREATE of i386_init, after boot_aps.
EnvCreate(c) ==
    /\ pc[c] = "boot"
    /\ \A d \in CPUs : cpu_status[d] = "STARTED"
    /\ Cardinality(Creados) < NINICIAL
    /\ EnvAlloc(c, ID_0, "RUNNABLE")
    /\ UNCHANGED <<env_cpunum, ejecuciones_totales, cpuVars>>

\* i386_init calls sched_yield.
BootDone(c) ==
    /\ pc[c] = "boot"
    /\ \A d \in CPUs : cpu_status[d] = "STARTED"
    /\ Cardinality(Creados) = NINICIAL
    /\ Goto(c, "yield")
    /\ UNCHANGED <<env_status, allocVars, ipcVars, env_cpunum, env_free_list,
                   mlfqVars, curenv, cpu_status, kernel_lock>>

-----------------------------------------------------------------------------
\* trap.c: entering and leaving the kernel

\* trap() from user mode, up to lock_kernel (spin_lock panics if the halted
\* path has already taken the lock).
TrapUser(c) ==
    /\ pc[c] = "user"
    /\ cpu_status' = [cpu_status EXCEPT ![c] = "STARTED"]
    /\ Goto(c, IF cpu_status[c] = "HALTED" THEN "panic" ELSE "spin_user")
    /\ UNCHANGED <<env_status, allocVars, ipcVars, env_cpunum, env_free_list,
                   mlfqVars, curenv, kernel_lock>>

\* trap() from the hlt loop of sched_halt: takes the lock if the CPU says it
\* was halted, then ends in sched_yield.
TimerHalted(c) ==
    /\ pc[c] = "halted"
    /\ cpu_status' = [cpu_status EXCEPT ![c] = "STARTED"]
    /\ Goto(c, IF cpu_status[c] = "HALTED" THEN "spin_sched" ELSE "yield")
    /\ UNCHANGED <<env_status, allocVars, ipcVars, env_cpunum, env_free_list,
                   mlfqVars, curenv, kernel_lock>>

\* lock_kernel returns.
LockKernel(c) ==
    /\ pc[c] \in Spinning
    /\ kernel_lock = NULL
    /\ kernel_lock' = c
    /\ Goto(c, CASE pc[c] = "spin_boot"  -> "boot"
                 [] pc[c] = "spin_user"  -> "trap"
                 [] pc[c] = "spin_sched" -> "yield")
    /\ UNCHANGED <<env_status, allocVars, ipcVars, env_cpunum, env_free_list,
                   mlfqVars, curenv, cpu_status>>

\* Mistake: the zombie loses its CPU but is not freed.
ReapSinLiberar(c) ==
    /\ pc[c] = "trap"
    /\ env_status[curenv[c]] = "DYING"
    /\ curenv' = [curenv EXCEPT ![c] = NULL]
    /\ Goto(c, "yield")
    /\ UNCHANGED <<env_status, allocVars, ipcVars, env_cpunum, env_free_list,
                   mlfqVars, cpu_status, kernel_lock>>

\* trap(): "Garbage collect if current enviroment is a zombie".
Reap(c) ==
    /\ pc[c] = "trap"
    /\ env_status[curenv[c]] = "DYING"
    /\ EnvFree(curenv[c])
    /\ curenv' = [curenv EXCEPT ![c] = NULL]
    /\ Goto(c, "yield")
    /\ UNCHANGED <<allocVars, ipcVars, env_cpunum, mlfqVars, cpu_status,
                   kernel_lock>>

\* The end of trap(): go back to curenv if it still runs, else schedule.
TrapReturn(c) ==
    /\ pc[c] = "ret"
    /\ IF env_status[curenv[c]] = "RUNNING"
       THEN EnvRun(c, curenv[c])
       ELSE Goto(c, "yield") /\ UNCHANGED <<env_status, curenv, cpu_status,
                                            kernel_lock>>
    /\ UNCHANGED <<allocVars, ipcVars, env_cpunum, env_free_list, mlfqVars>>

\* env_run after unlock_kernel: env_cpunum, then context_switch to user mode.
Resume(c) ==
    /\ pc[c] = "resume"
    /\ env_cpunum' = [env_cpunum EXCEPT ![curenv[c]] = c]
    /\ Goto(c, "user")
    /\ UNCHANGED <<env_status, allocVars, ipcVars, env_free_list, mlfqVars,
                   curenv, cpu_status, kernel_lock>>

-----------------------------------------------------------------------------
\* trap_dispatch and the system calls.  A program may trap with any of these at
\* any time; LIBOS restricts the arguments to those that lib/ and user/ use.

\* Mistake: trap() does not look for zombies.
EnServicioSinZombies(c) == pc[c] = "trap"

\* trap() past the zombie check: the handler runs for curenv[c].  (If another
\* CPU has freed that environment, see ZombieFreedByItsTrap, this CPU runs on a
\* page directory that is gone; what it does then is not modelled, it stops.)
EnServicio(c) == pc[c] = "trap" /\ env_status[curenv[c]] \notin {"DYING", "FREE"}

\* IRQ_TIMER, sys_yield.
Timer(c) ==
    /\ EnServicio(c)
    /\ Goto(c, "yield")
    /\ UNCHANGED <<env_status, allocVars, ipcVars, env_cpunum, env_free_list,
                   mlfqVars, curenv, cpu_status, kernel_lock>>

\* Every trap that leaves this state alone: a call that fails, the calls on
\* pages, a breakpoint, a spurious interrupt.
OtherTrap(c) ==
    /\ EnServicio(c)
    /\ Goto(c, "ret")
    /\ UNCHANGED <<env_status, allocVars, ipcVars, env_cpunum, env_free_list,
                   mlfqVars, curenv, cpu_status, kernel_lock>>

\* page_fault_handler with an upcall installed: env_run(curenv) at the upcall.  (When
\* the exception stack overflows the kernel panics; left out.)
PageFaultUpcall(c) ==
    /\ EnServicio(c)
    /\ EnvRun(c, curenv[c])
    /\ UNCHANGED <<allocVars, ipcVars, env_cpunum, env_free_list, mlfqVars>>

\* env_destroy(curenv): sys_env_destroy of oneself, an unhandled fault.
DestroySelf(c) ==
    /\ EnServicio(c)
    /\ EnvFree(curenv[c])
    /\ curenv' = [curenv EXCEPT ![c] = NULL]
    /\ Goto(c, "yield")
    /\ UNCHANGED <<allocVars, ipcVars, env_cpunum, mlfqVars, cpu_status,
                   kernel_lock>>

\* Mistake: a child is freed even if it is running on another CPU.
DestroyChildSinZombie(c) ==
    /\ EnServicio(c)
    /\ \E id \in EnvIds : \E e \in Envid2env(c, id, TRUE) :
         e # curenv[c] /\ EnvFree(e)
    /\ Goto(c, "ret")
    /\ UNCHANGED <<allocVars, ipcVars, env_cpunum, mlfqVars, curenv,
                   cpu_status, kernel_lock>>

\* sys_env_destroy of a child: one that runs elsewhere is marked DYING and
\* freed when it traps.  The library's programs destroy a child once.
DestroyChild(c) ==
    /\ EnServicio(c)
    /\ \E id \in EnvIds : \E e \in Envid2env(c, id, TRUE) :
         /\ e # curenv[c]
         /\ LIBOS => env_status[e] # "DYING"
         /\ IF env_status[e] = "RUNNING"
            THEN /\ env_status' = [env_status EXCEPT ![e] = "DYING"]
                 /\ UNCHANGED env_free_list
            ELSE EnvFree(e)
    /\ Goto(c, "ret")
    /\ UNCHANGED <<allocVars, ipcVars, env_cpunum, mlfqVars, curenv,
                   cpu_status, kernel_lock>>

\* sys_exofork.
Exofork(c) ==
    /\ EnServicio(c)
    /\ EnvAlloc(c, IdDe(curenv[c]), "NOT_RUNNABLE")
    /\ Goto(c, "ret")
    /\ UNCHANGED <<env_cpunum, ejecuciones_totales, curenv, cpu_status,
                   kernel_lock>>

\* sys_env_set_status.  fork and dumbfork call it once, on the child they have
\* just made (not runnable, and not because it waits for a message).
SetStatus(c) ==
    /\ EnServicio(c)
    /\ \E id \in EnvIds : \E e \in Envid2env(c, id, TRUE) :
       \E status \in {"RUNNABLE", "NOT_RUNNABLE"} :
         /\ LIBOS => /\ status = "RUNNABLE"
                     /\ env_status[e] = "NOT_RUNNABLE"
                     /\ ~env_ipc_recving[e]
         /\ env_status' = [env_status EXCEPT ![e] = status]
    /\ Goto(c, "ret")
    /\ UNCHANGED <<allocVars, ipcVars, env_cpunum, env_free_list, mlfqVars,
                   curenv, cpu_status, kernel_lock>>

\* sys_ipc_recv with a dstva it accepts: block and schedule.
IpcRecv(c) ==
    /\ EnServicio(c)
    /\ env_ipc_recving' = [env_ipc_recving EXCEPT ![curenv[c]] = TRUE]
    /\ env_status' = [env_status EXCEPT ![curenv[c]] = "NOT_RUNNABLE"]
    /\ Goto(c, "yield")
    /\ UNCHANGED <<allocVars, env_cpunum, env_free_list, mlfqVars, curenv,
                   cpu_status, kernel_lock>>

\* sys_ipc_recv with a dstva it rejects: -E_INVAL, after env_ipc_recving is set.
\* ipc_recv passes NULL or a page of the program's, never such an address.
IpcRecvInvalid(c) ==
    /\ ~LIBOS
    /\ EnServicio(c)
    /\ env_ipc_recving' = [env_ipc_recving EXCEPT ![curenv[c]] = TRUE]
    /\ Goto(c, "ret")
    /\ UNCHANGED <<env_status, allocVars, env_cpunum, env_free_list, mlfqVars,
                   curenv, cpu_status, kernel_lock>>

\* sys_ipc_try_send that succeeds: anyone may send to an env that is receiving.
IpcTrySend(c) ==
    /\ EnServicio(c)
    /\ \E id \in EnvIds : \E e \in Envid2env(c, id, FALSE) :
         /\ env_ipc_recving[e]
         /\ env_ipc_recving' = [env_ipc_recving EXCEPT ![e] = FALSE]
         /\ env_status' = [env_status EXCEPT ![e] = "RUNNABLE"]
    /\ Goto(c, "ret")
    /\ UNCHANGED <<allocVars, env_cpunum, env_free_list, mlfqVars, curenv,
                   cpu_status, kernel_lock>>

\* sys_env_asignar_prioridad: only downwards, of oneself or a child.  The entry
\* is looked for in the queue cola_actual names; a new one is added anyway.
AsignarPrioridad(c) ==
    /\ SCHED_PRIORITIES
    /\ EnServicio(c)
    /\ HayEntradas
    /\ \E id \in EnvIds : \E e \in Envid2env(c, id, TRUE) :
       \E prioridad \in Colas :
         /\ cola_actual[e] < prioridad
         /\ colas' = [[colas EXCEPT ![cola_actual[e]] = Eliminar(@, id)]
                        EXCEPT ![prioridad] = Agregar(@, id)]
         /\ cola_actual' = [cola_actual EXCEPT ![e] = prioridad]
    /\ Goto(c, "ret")
    /\ UNCHANGED <<env_status, allocVars, ipcVars, env_cpunum, env_free_list,
                   ejecuciones_totales, curenv, cpu_status, kernel_lock>>

-----------------------------------------------------------------------------
\* sched.c: sched_yield

Corre(c) == curenv[c] # NULL /\ env_status[curenv[c]] = "RUNNING"

\* How many slots round_robin looks at before slot e.
Distancia(c, e) ==
    (e - (IF curenv[c] = NULL THEN 0 ELSE curenv[c] + 1)) % NENV

\* Mistake: the loop stops one slot early.
SiguienteSalvoUltima(c, e) ==
    /\ env_status[e] = "RUNNABLE"
    /\ Distancia(c, e) < NENV - 1
    /\ \A f \in Slots : env_status[f] = "RUNNABLE"
                            => Distancia(c, e) <= Distancia(c, f)

\* The loop of round_robin stops at slot e.
Siguiente(c, e) ==
    /\ env_status[e] = "RUNNABLE"
    /\ \A f \in Slots : env_status[f] = "RUNNABLE"
                            => Distancia(c, e) <= Distancia(c, f)

\* round_robin: the next runnable slot after curenv's, around the table; else
\* curenv goes on; else the CPU halts.
RoundRobin(c) ==
    /\ ~SCHED_PRIORITIES
    /\ pc[c] = "yield"
    /\ \/ \E e \in Slots : Siguiente(c, e) /\ EnvRun(c, e)
       \/ /\ \A e \in Slots : ~Siguiente(c, e)
          /\ \/ Corre(c) /\ EnvRun(c, curenv[c])
             \/ ~Corre(c) /\ SchedHalt(c)
    /\ UNCHANGED <<allocVars, ipcVars, env_cpunum, env_free_list, mlfqVars>>

\* tiene_entornos_ejecutables, for one entry.
Ejecutable(id) == env_status[ENVX(id)] = "RUNNABLE"

\* Mistake: the queues are not compared.
MejorEntradaDeCualquiera(cs, q, j) ==
    /\ Ejecutable(cs[q][j])
    /\ \A i \in 1 .. (j - 1) : ~Ejecutable(cs[q][i])

\* Entry j of queue q is the first runnable one of the best queue that has any.
MejorEntrada(cs, q, j) ==
    /\ Ejecutable(cs[q][j])
    /\ \A i \in 1 .. (j - 1) : ~Ejecutable(cs[q][i])
    /\ \A p \in Colas : p < q => \A i \in 1 .. Len(cs[p]) : ~Ejecutable(cs[p][i])

\* cola_actual after promover_colas: 0 for the owner of every entry of b, c, d.
ColaActualPromovida ==
    [e \in Slots |-> IF \E q \in 1 .. 3 : TieneEntrada(colas[q], e)
                     THEN 0 ELSE cola_actual[e]]

\* sched_yield of the MLFQ build: promote every MAX_EJECUCIONES_MLFQ runs, then
\* prioridad_MLFQ runs the best entry and moves it one queue down.
PrioridadMLFQ(c) ==
    LET promueve == ejecuciones_totales >= MAX_EJECUCIONES_MLFQ
        cs  == IF promueve THEN Promover(colas) ELSE colas
        ca  == IF promueve THEN ColaActualPromovida ELSE cola_actual
        tot == IF promueve THEN 0 ELSE ejecuciones_totales
    IN
    /\ SCHED_PRIORITIES
    /\ pc[c] = "yield"
    /\ \/ \E q \in Colas : \E j \in 1 .. Len(cs[q]) :
            LET id     == cs[q][j]
                nueva  == IF q >= COLAS_MAXIMAS - 1 THEN COLAS_MAXIMAS - 1
                          ELSE q + 1
            IN  /\ MejorEntrada(cs, q, j)
                /\ colas' = [[cs EXCEPT ![q] = Borrar(@, j)]
                               EXCEPT ![nueva] = Agregar(@, id)]
                /\ cola_actual' = [ca EXCEPT ![ENVX(id)] = nueva]
                /\ ejecuciones_totales' = tot + 1
                /\ EnvRun(c, ENVX(id))
       \/ /\ \A q \in Colas : \A j \in 1 .. Len(cs[q]) : ~Ejecutable(cs[q][j])
          /\ colas' = cs
          /\ cola_actual' = ca
          /\ \/ /\ Corre(c)
                /\ ejecuciones_totales' = tot + 1
                /\ EnvRun(c, curenv[c])
             \/ /\ ~Corre(c)
                /\ ejecuciones_totales' = tot
                /\ SchedHalt(c)
    /\ UNCHANGED <<allocVars, ipcVars, env_cpunum, env_free_list>>

SchedYield(c) == RoundRobin(c) \/ PrioridadMLFQ(c)

\* while (true) monitor(NULL): the console answers, nothing else moves.
Monitor(c) == pc[c] = "monitor" /\ UNCHANGED vars

-----------------------------------------------------------------------------
Boot(c) == MpMain(c) \/ EnvCreate(c) \/ BootDone(c)

Trap(c) == \/ Timer(c) \/ OtherTrap(c) \/ DestroySelf(c) \/ DestroyChild(c)
           \/ Exofork(c) \/ SetStatus(c) \/ IpcRecv(c) \/ IpcRecvInvalid(c)
           \/ IpcTrySend(c) \/ AsignarPrioridad(c) \/ PageFaultUpcall(c)

\* What the kernel does by itself once it is entered.
KernelStep(c) == Boot(c) \/ Reap(c) \/ TrapReturn(c) \/ SchedYield(c) \/ Resume(c)

Next == \E c \in CPUs : \/ KernelStep(c) \/ Trap(c) \/ LockKernel(c)
                        \/ TrapUser(c) \/ TimerHalted(c) \/ Monitor(c)

Spec == Init /\ [][Next]_vars

\* The kernel never stops in the middle of a handler; the local APIC's periodic
\* timer (lapic.c) interrupts user code and halted CPUs, again and again, and a
\* pending timer interrupt is taken as soon as interrupts are on.  A CPU that
\* keeps finding the lock free while it spins gets it: handlers are short, and
\* unlock_kernel pauses so that another CPU can take the lock.
Fairness ==
    \A c \in CPUs :
        /\ WF_vars(KernelStep(c))
        /\ WF_vars(TrapUser(c))
        /\ WF_vars(TimerHalted(c))
        /\ SF_vars(LockKernel(c))
        /\ SF_vars(Timer(c))

FairSpec == Spec /\ Fairness

-----------------------------------------------------------------------------
\* Type invariant.
TypeOK ==
    /\ env_status \in [Slots -> Statuses]
    /\ generacion \in [Slots -> 0 .. MAXGEN]
    /\ env_parent_id \in [Slots -> Slots \X (0 .. MAXGEN)]
    /\ env_ipc_recving \in [Slots -> BOOLEAN]
    /\ env_cpunum \in [Slots -> CPUs]
    /\ env_free_list \in Seq(Slots)
    /\ cola_actual \in [Slots -> Colas]
    /\ colas \in [Colas -> Seq(EnvIds)]
    /\ ejecuciones_totales \in 0 .. MAX_EJECUCIONES_MLFQ
    /\ curenv \in [CPUs -> Slots \cup {NULL}]
    /\ cpu_status \in [CPUs -> {"UNUSED", "STARTED", "HALTED"}]
    /\ kernel_lock \in CPUs \cup {NULL}
    /\ pc \in [CPUs -> Points]

\* "only one CPU can enter the scheduler at a time" (init.c:130): a CPU is in
\* the kernel exactly while it holds the big lock, also when it comes back from
\* sched_halt by way of the cpu_status exchange in trap().
LockHeldInKernel == \A c \in CPUs : pc[c] \in InKernel <=> kernel_lock = c

\* No assertion of spinlock.c fails: nobody takes the lock twice or releases it
\* without having it.
NoPanic == \A c \in CPUs : pc[c] # "panic"

\* "Check that one environment doesn't run on two CPUs at once"
\* (user/stresssched.c:25).
OneCpuPerEnv ==
    \A c, d \in CPUs : c # d /\ curenv[c] # NULL => curenv[c] # curenv[d]

\* The table and the CPUs agree outside handlers: what a CPU runs is RUNNING, or
\* a zombie on its way out; and nothing is RUNNING or DYING without a CPU that
\* will trap and reap it.
StatusMatchesCpus ==
    /\ \A c \in CPUs : curenv[c] # NULL /\ kernel_lock # c
           => env_status[curenv[c]] \in {"RUNNING", "DYING"}
    /\ \A e \in Slots : env_status[e] \in {"RUNNING", "DYING"}
           => \E c \in CPUs : curenv[c] = e

\* env_free_list holds every FREE slot once and nothing else, whatever the order
\* of exits, kills and reaps on the CPUs.
FreeListExact ==
    /\ \A i, j \in 1 .. Len(env_free_list) :
           env_free_list[i] = env_free_list[j] => i = j
    /\ \A e \in Slots : env_status[e] = "FREE"
           <=> \E i \in 1 .. Len(env_free_list) : env_free_list[i] = e

\* An environment marked as receiving is blocked (syscall.c:352: a send fails "if
\* envid is not currently blocked in sys_ipc_recv"), so that a send wakes nobody
\* who is running.
RecvingIsBlocked ==
    \A e \in Slots : env_ipc_recving[e] /\ env_status[e] # "FREE"
        => env_status[e] = "NOT_RUNNABLE"

\* A program that reads thisenv->env_cpunum reads the CPU it runs on, although
\* env_run writes the field after it has released the lock.
CpunumIsCurrent ==
    \A c \in CPUs : pc[c] \in {"user", "spin_user"}
        => env_cpunum[curenv[c]] = c

\* The monitor loop keeps the lock for good: no environment is left that would
\* want the CPU.
MonitorOnlyWhenDone ==
    (\E c \in CPUs : pc[c] = "monitor")
        => \A e \in Slots : env_status[e] \in {"FREE", "NOT_RUNNABLE"}

\* An environment that blocked runs again only after somebody made it RUNNABLE:
\* no path through trap() puts it straight back on its CPU.
BlockedStaysBlocked ==
    [][\A e \in Slots : env_status[e] = "NOT_RUNNABLE"
           => env_status'[e] # "RUNNING"]_vars

\* "A zombie environment will be freed the next time it traps to the kernel"
\* (env.c:479): nothing else happens to it, and it is its own CPU that frees it.
ZombieFreedByItsTrap ==
    [][\A e \in Slots : env_status[e] = "DYING"
           => \/ env_status'[e] = "DYING"
              \/ /\ env_status'[e] = "FREE"
                 /\ \E c \in CPUs : kernel_lock = c /\ curenv[c] = e]_vars

\* A CPU halts only when there is nothing runnable ("nothing to do",
\* sched.c:264).
HaltsOnlyIdle ==
    [][\A c \in CPUs : pc[c] = "yield" /\ pc'[c] = "halted"
           => \A e \in Slots : env_status[e] # "RUNNABLE"]_vars

\* Every runnable environment gets a CPU, or is taken off the table.
RunnableRuns ==
    \A e \in Slots :
        env_status[e] = "RUNNABLE" ~> env_status[e] # "RUNNABLE"

\* A zombie is eventually freed.
ZombieFreed ==
    \A e \in Slots : env_status[e] = "DYING" ~> env_status[e] = "FREE"

\* The big lock as Kernel takes it implements the lock of spinlock.h: pc names
\* the CPUs that wait for it and the one inside.
Fase(p) == IF p \in Spinning THEN "waiting" ELSE IF p \in InKernel THEN "in" ELSE "out"

Lock == INSTANCE KernelLock WITH owner <- [c \in CPUs |-> Fase(pc[c])]

LockSpec == Lock!Spec

-----------------------------------------------------------------------------
\* Properties of the MLFQ queues

\* The scheduler can find every runnable environment: some queue has an entry
\* for its slot.
RunnableQueued ==
    \A e \in Slots : env_status[e] = "RUNNABLE"
        => \E q \in Colas : TieneEntrada(colas[q], e)

\* Slot e has at most one entry in all the queues.
Unica(e) ==
    \A p, q \in Colas : \A i \in 1 .. Len(colas[p]), j \in 1 .. Len(colas[q]) :
        ENVX(colas[p][i]) = e /\ ENVX(colas[q][j]) = e => p = q /\ i = j

\* CPU c leaves sched_yield for an environment that was waiting, with no
\* promotion on the way.
Despacha(c) ==
    /\ pc[c] = "yield" /\ pc'[c] = "resume"
    /\ env_status[curenv'[c]] = "RUNNABLE"
    /\ ejecuciones_totales < MAX_EJECUCIONES_MLFQ

\* The environment that gets the CPU has the best priority of all that are
\* runnable (scheduler.md:154), while no slot has two entries in the queues.
PriorityRespectedIfUnique ==
    [][\A c \in CPUs : Despacha(c) /\ (\A f \in Slots : Unica(f)) =>
           \A f \in Slots : env_status[f] = "RUNNABLE"
               => cola_actual[curenv'[c]] <= cola_actual[f]]_vars
=============================================================================
