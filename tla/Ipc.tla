-------------------------------- MODULE Ipc --------------------------------
(***************************************************************************)
(* Messages between environments: sys_ipc_try_send and sys_ipc_recv of     *)
(* scheduler/kern/syscall.c, and ipc_send and ipc_recv of                  *)
(* scheduler/lib/ipc.c over them, for programs that call them in any order.*)
(*                                                                         *)
(* A system call is one step: it runs under the big kernel lock.  ipc_recv *)
(* reads the fields of thisenv in user mode, one after the other, and      *)
(* ipc_send tries, yields and tries again: the steps of other environments *)
(* come between any two.  An environment that is not blocked may be        *)
(* running on any CPU (module Kernel has the scheduling).                  *)
(*                                                                         *)
(* Every environment uses one address, PAGINA, for the pages it sends and  *)
(* receives.  Permissions are left out: PhysMem has them.                  *)
(***************************************************************************)
EXTENDS Integers

CONSTANTS
    Envs,       \* the slots of envs[]
    Values,     \* what programs send
    Frames,     \* the physical pages there are for messages
    Contents,   \* what a page may hold
    ZERO,       \* the contents of a page that page_alloc has cleared
    NADA        \* no environment, no page

ASSUME IpcAssumption ==
    /\ ZERO \in Contents
    /\ NADA \notin Envs \cup Frames
    /\ NADA \notin [to : Envs, value : Values, paged : BOOLEAN]
    /\ NADA \notin [from : Envs, value : Values, page : Frames \cup {NADA}]

\* dstva of sys_ipc_recv: what the kernel takes for "no page", the page of the
\* program, an address it rejects (at UTOP or above, or inside a page).
NULL    == "null"
PAGINA  == "pagina"
INVALID == "invalid"
Destinations == {NULL, PAGINA, INVALID}
\* srcva of sys_ipc_try_send: UTOP, which ipc_send makes of NULL, or the page.
UTOP    == "utop"
Sources == {UTOP, PAGINA}

VARIABLES
    env_status,         \* "FREE", "RUNNABLE" (or running), "NOT_RUNNABLE"
    env_ipc_recving,
    env_ipc_from,
    env_ipc_value,
    env_ipc_perm,       \* whether env_ipc_perm is not 0
    env_ipc_dstva,
    thisenv,            \* the slot that thisenv of the program points to
    mapa,               \* the frame mapped at PAGINA, or NADA
    contenido,          \* what each frame holds
    lib,                \* where the program is in ipc_send or ipc_recv, see Calls
    ret                 \* what its last ipc_recv returned, NADA once it has called again

kernelVars == <<env_status, env_ipc_recving, env_ipc_from, env_ipc_value,
                env_ipc_perm, env_ipc_dstva>>
pageVars == <<mapa, contenido>>
ipcVars == <<env_status, env_ipc_recving, env_ipc_from, env_ipc_value,
             env_ipc_perm, env_ipc_dstva, thisenv, mapa, contenido, lib, ret>>

\* Outside the library; in ipc_send before a try, or before sys_yield; in
\* ipc_recv: in the system call, or about to read perm, or value; in panic's
\* endless loop.
USER  == [pc |-> "user"]
PANIC == [pc |-> "panic"]
Calls == {USER, PANIC}
    \cup [pc : {"try", "yield"}, to : Envs, value : Values, srcva : Sources]
    \cup [pc : {"recv"}, pg : {NULL, PAGINA}]
    \cup [pc : {"perm"}, pg : {NULL, PAGINA}, from : Envs]
    \cup [pc : {"value"}, pg : {NULL, PAGINA}, from : Envs, perm : BOOLEAN]

\* A slot that was used before keeps the fields that env_alloc does not reset.
Init ==
    /\ env_status \in [Envs -> {"FREE", "RUNNABLE"}]
    /\ env_ipc_recving = [e \in Envs |-> FALSE]
    /\ env_ipc_from \in [Envs -> Envs]
    /\ env_ipc_value \in [Envs -> Values]
    /\ env_ipc_perm \in [Envs -> BOOLEAN]
    /\ env_ipc_dstva \in [Envs -> {NULL, PAGINA}]
    /\ thisenv = [e \in Envs |-> e]
    /\ mapa = [e \in Envs |-> NADA]
    /\ contenido = [f \in Frames |-> ZERO]
    /\ lib = [e \in Envs |-> USER]
    /\ ret = [e \in Envs |-> NADA]

-----------------------------------------------------------------------------
Libres == {f \in Frames : \A e \in Envs : mapa[e] # f}

Active(e) == env_status[e] = "RUNNABLE"
InUser(e) == Active(e) /\ lib[e] = USER

Goto(e, call) == lib' = [lib EXCEPT ![e] = call]
Panics(e) == Goto(e, PANIC)

\* sys_page_alloc at PAGINA; programs panic, or stop, when it fails.
PageAlloc(e) ==
    /\ InUser(e)
    /\ \E f \in Libres :
        /\ mapa' = [mapa EXCEPT ![e] = f]
        /\ contenido' = [contenido EXCEPT ![f] = ZERO]
    /\ UNCHANGED <<kernelVars, thisenv, lib, ret>>

\* The program writes to its page.
Write(e, x) ==
    /\ InUser(e)
    /\ mapa[e] # NADA
    /\ contenido' = [contenido EXCEPT ![mapa[e]] = x]
    /\ UNCHANGED <<kernelVars, thisenv, mapa, lib, ret>>

\* Mistake: the child goes on with its parent's thisenv.
ForkSinThisenv(e, c) ==
    /\ InUser(e)
    /\ env_status[c] = "FREE"
    /\ mapa[e] = NADA
    /\ env_status' = [env_status EXCEPT ![c] = "RUNNABLE"]
    /\ env_ipc_recving' = [env_ipc_recving EXCEPT ![c] = FALSE]
    /\ thisenv' = [thisenv EXCEPT ![c] = thisenv[e]]
    /\ UNCHANGED <<env_ipc_from, env_ipc_value, env_ipc_perm, env_ipc_dstva,
                   pageVars, lib, ret>>

\* fork: env_alloc stops sends to the slot's last owner, the child corrects
\* thisenv.  (CowFork has the copy of the pages: the programs fork before they
\* have any at PAGINA.)
Fork(e, c) ==
    /\ InUser(e)
    /\ env_status[c] = "FREE"
    /\ mapa[e] = NADA
    /\ env_status' = [env_status EXCEPT ![c] = "RUNNABLE"]
    /\ env_ipc_recving' = [env_ipc_recving EXCEPT ![c] = FALSE]
    /\ thisenv' = [thisenv EXCEPT ![c] = c]
    /\ UNCHANGED <<env_ipc_from, env_ipc_value, env_ipc_perm, env_ipc_dstva,
                   pageVars, lib, ret>>

\* exit, or env_destroy by a fault or by the parent, wherever e is.
Die(e) ==
    /\ env_status[e] # "FREE"
    /\ env_status' = [env_status EXCEPT ![e] = "FREE"]
    /\ mapa' = [mapa EXCEPT ![e] = NADA]
    /\ Goto(e, USER)
    /\ ret' = [ret EXCEPT ![e] = NADA]
    /\ UNCHANGED <<env_ipc_recving, env_ipc_from, env_ipc_value, env_ipc_perm,
                   env_ipc_dstva, thisenv, contenido>>

-----------------------------------------------------------------------------
\* ipc_recv

\* sys_ipc_recv of a dstva it rejects: env_ipc_recving stays set, ipc_recv
\* returns the error at once.
RecvRefused(e) ==
    /\ env_ipc_recving' = [env_ipc_recving EXCEPT ![e] = TRUE]
    /\ UNCHANGED <<env_status, env_ipc_dstva, lib>>

\* sys_ipc_recv of a dstva it accepts: block.
RecvBlocks(e, pg) ==
    /\ env_ipc_recving' = [env_ipc_recving EXCEPT ![e] = TRUE]
    /\ env_ipc_dstva' = [env_ipc_dstva EXCEPT ![e] = pg]
    /\ env_status' = [env_status EXCEPT ![e] = "NOT_RUNNABLE"]
    /\ Goto(e, [pc |-> "recv", pg |-> pg])

\* ipc_recv(&from, pg, &perm) up to its system call.
IpcRecv(e, pg) ==
    /\ InUser(e)
    /\ IF pg = INVALID THEN RecvRefused(e) ELSE RecvBlocks(e, pg)
    /\ ret' = [ret EXCEPT ![e] = NADA]
    /\ UNCHANGED <<env_ipc_from, env_ipc_value, env_ipc_perm, thisenv, pageVars>>

\* The system call has returned 0: from_env_store, perm_store and the result
\* are read from the read-only copy of envs[], through thisenv.
ReadFrom(e) ==
    /\ Active(e) /\ lib[e].pc = "recv"
    /\ Goto(e, [pc |-> "perm", pg |-> lib[e].pg, from |-> env_ipc_from[thisenv[e]]])
    /\ UNCHANGED <<kernelVars, thisenv, pageVars, ret>>

ReadPerm(e) ==
    /\ Active(e) /\ lib[e].pc = "perm"
    /\ Goto(e, [pc |-> "value", pg |-> lib[e].pg, from |-> lib[e].from,
                perm |-> env_ipc_perm[thisenv[e]]])
    /\ UNCHANGED <<kernelVars, thisenv, pageVars, ret>>

\* A program that asked for a page and got perm finds the page at pg.
ReadValue(e) ==
    /\ Active(e) /\ lib[e].pc = "value"
    /\ ret' = [ret EXCEPT ![e] =
                 [from |-> lib[e].from, value |-> env_ipc_value[thisenv[e]],
                  page |-> IF lib[e].pg = PAGINA /\ lib[e].perm THEN mapa[e] ELSE NADA]]
    /\ Goto(e, USER)
    /\ UNCHANGED <<kernelVars, thisenv, pageVars>>

-----------------------------------------------------------------------------
\* ipc_send

\* ipc_send(to, value, srcva, perm), up to its loop.
IpcSend(e, to, value, srcva) ==
    /\ InUser(e)
    /\ Goto(e, [pc |-> "try", to |-> to, value |-> value, srcva |-> srcva])
    /\ ret' = [ret EXCEPT ![e] = NADA]
    /\ UNCHANGED <<kernelVars, thisenv, pageVars>>

\* Mistake: the receiver is left open to another send.
DeliverSinCerrar(e, perm) ==
    LET d == lib[e].to IN
    /\ env_ipc_perm' = [env_ipc_perm EXCEPT ![d] = perm]
    /\ env_ipc_from' = [env_ipc_from EXCEPT ![d] = e]
    /\ env_ipc_value' = [env_ipc_value EXCEPT ![d] = lib[e].value]
    /\ env_status' = [env_status EXCEPT ![d] = "RUNNABLE"]
    /\ Goto(e, USER)
    /\ UNCHANGED <<env_ipc_recving, env_ipc_dstva>>

\* The end of a send that succeeds ("bail"), and the return of ipc_send.
Deliver(e, perm) ==
    LET d == lib[e].to IN
    /\ env_ipc_perm' = [env_ipc_perm EXCEPT ![d] = perm]
    /\ env_ipc_from' = [env_ipc_from EXCEPT ![d] = e]
    /\ env_ipc_recving' = [env_ipc_recving EXCEPT ![d] = FALSE]
    /\ env_ipc_value' = [env_ipc_value EXCEPT ![d] = lib[e].value]
    /\ env_status' = [env_status EXCEPT ![d] = "RUNNABLE"]
    /\ Goto(e, USER)
    /\ UNCHANGED env_ipc_dstva

\* A try that fails: ipc_send goes to sys_yield, or panics; the kernel's fields
\* are as before.
Fails(e, call) == Goto(e, call) /\ UNCHANGED kernelVars

Try(e) == Active(e) /\ lib[e].pc = "try"
OpenTry(e) ==
    Try(e) /\ env_status[lib[e].to] # "FREE" /\ env_ipc_recving[lib[e].to]

\* -E_BAD_ENV; -E_IPC_NOT_RECV.
TrySendClosed(e) ==
    LET d == lib[e].to IN
    /\ Try(e)
    /\ IF env_status[d] = "FREE" THEN Fails(e, PANIC)
       ELSE ~env_ipc_recving[d] /\ Fails(e, [lib[e] EXCEPT !.pc = "yield"])
    /\ UNCHANGED <<thisenv, pageVars, ret>>

\* srcva >= UTOP: no page.
TrySendValue(e) ==
    /\ OpenTry(e)
    /\ lib[e].srcva = UTOP
    /\ Deliver(e, FALSE)
    /\ UNCHANGED <<thisenv, pageVars, ret>>

\* A page that is mapped: env_page_alloc takes a page that env_page_map gives
\* back at once; -E_NO_MEM without one.  env_ipc_perm is not written if the
\* receiver wants no page.
TrySendPage(e) ==
    LET d == lib[e].to IN
    /\ OpenTry(e)
    /\ lib[e].srcva = PAGINA /\ mapa[e] # NADA
    /\ IF env_ipc_dstva[d] = NULL THEN Deliver(e, env_ipc_perm[d]) /\ UNCHANGED mapa
       ELSE IF Libres = {} THEN Fails(e, PANIC) /\ UNCHANGED mapa
       ELSE Deliver(e, TRUE) /\ mapa' = [mapa EXCEPT ![d] = mapa[e]]
    /\ UNCHANGED <<thisenv, contenido, ret>>

\* An address where nothing is mapped: *srcpte is read through a pointer that
\* page_lookup has not set.  The checks refuse it, or let it through (a read that
\* faults in the kernel stops the machine).  Let through it is
\* sent as no page at all, or env_page_map fails once env_page_alloc has put
\* a new page in the receiver's place.
TrySendUnmapped(e) ==
    LET d == lib[e].to IN
    /\ OpenTry(e)
    /\ lib[e].srcva = PAGINA /\ mapa[e] = NADA
    /\ \/ Fails(e, PANIC) /\ UNCHANGED pageVars
       \/ /\ env_ipc_dstva[d] = NULL
          /\ Deliver(e, env_ipc_perm[d])
          /\ UNCHANGED pageVars
       \/ /\ env_ipc_dstva[d] = PAGINA
          /\ Fails(e, PANIC)
          /\ \E f \in Libres :
               /\ mapa' = [mapa EXCEPT ![d] = f]
               /\ contenido' = [contenido EXCEPT ![f] = ZERO]
    /\ UNCHANGED <<thisenv, ret>>

SysIpcTrySend(e) ==
    TrySendClosed(e) \/ TrySendValue(e) \/ TrySendPage(e) \/ TrySendUnmapped(e)

\* Mistake: the loop yields again instead of trying.
YieldSinReintento(e) ==
    /\ Active(e) /\ lib[e].pc = "yield"
    /\ UNCHANGED ipcVars

\* sys_yield in the loop of ipc_send.
Yield(e) ==
    /\ Active(e) /\ lib[e].pc = "yield"
    /\ Goto(e, [lib[e] EXCEPT !.pc = "try"])
    /\ UNCHANGED <<kernelVars, thisenv, pageVars, ret>>

-----------------------------------------------------------------------------
\* What a program that is in ipc_send or ipc_recv does next.
LibStep(e) == SysIpcTrySend(e) \/ Yield(e) \/ ReadFrom(e) \/ ReadPerm(e) \/ ReadValue(e)

\* What a program may do outside.
UserStep(e) ==
    \/ PageAlloc(e)
    \/ \E x \in Contents : Write(e, x)
    \/ \E c \in Envs : Fork(e, c)
    \/ \E pg \in Destinations : IpcRecv(e, pg)
    \/ \E to \in Envs, value \in Values, srcva \in Sources :
         IpcSend(e, to, value, srcva)

IpcNext == \E e \in Envs : LibStep(e) \/ UserStep(e) \/ Die(e)

IpcSpec == Init /\ [][IpcNext]_ipcVars

-----------------------------------------------------------------------------
\* Properties

\* In ipc_send; in sys_ipc_recv, whether blocked or served.
Sending(e) == lib[e].pc \in {"try", "yield"}
InRecv(e) == lib[e].pc \in {"recv", "perm", "value"}

\* What the receive in progress has been handed: the fields as they are, the
\* page that is mapped.
Handed(e) ==
    IF ~InRecv(e) \/ env_ipc_recving[e] THEN NADA
    ELSE [from |-> env_ipc_from[e], value |-> env_ipc_value[e],
          page |-> IF lib[e].pg = PAGINA /\ env_ipc_perm[e] THEN mapa[e] ELSE NADA]

Asks(e) ==
    IF InRecv(e) THEN IF lib[e].pg = PAGINA THEN "page" ELSE "value"
    ELSE IF env_status[e] # "FREE" /\ env_ipc_recving[e] THEN "refused" ELSE "no"

Offers(e) ==
    IF Sending(e)
    THEN [to |-> lib[e].to, value |-> lib[e].value, paged |-> lib[e].srcva = PAGINA]
    ELSE NADA

Rdv == INSTANCE Rendezvous WITH
    Process <- Envs, Pages <- Frames, Nothing <- NADA,
    offer <- [e \in Envs |-> Offers(e)],
    asking <- [e \in Envs |-> Asks(e)],
    taken <- [e \in Envs |-> Handed(e)],
    returned <- ret, page <- mapa

\* syscall.c:339-352, ipc.c:5-14: what ipc_recv returns (sender, value and page,
\* read in three steps through thisenv) is one message that one ipc_send sent,
\* and that ipc_send returns then and not before; a message is received once.
ImplementsRendezvous == Rdv!Spec
=============================================================================
