------------------------------- MODULE CowFork -------------------------------
(***************************************************************************)
(* fork with copy-on-write, which JOS writes in user code                  *)
(* (scheduler/lib/fork.c, pgfault.c, pfentry.S).                           *)
(*                                                                         *)
(* A step is one system call, or one access of user code, of one           *)
(* environment; others run between any two.  The stack is a page like the  *)
(* others, and the code of fork writes on it between its system calls: a   *)
(* write to a page that the last call made read-only faults there, and the *)
(* handler runs in the middle of fork.                                     *)
(*                                                                         *)
(* Page tables, reference counts and the lock of the kernel are module     *)
(* PhysMem's: here a frame is free when nothing maps it.  User code maps,  *)
(* unmaps and shares nothing but through fork.  Pages of devices (PTE_PCD) *)
(* are left out.                                                           *)
(***************************************************************************)
EXTENDS Naturals, FiniteSets

CONSTANTS
    Envs,           \* the slots of envs[]
    NMARCO,         \* the frames
    NVP,            \* the pages of a program; the last is its stack
    Datos,          \* what a page may hold; 0 is a page of zeros
    NULO

VPs    == 0 .. NVP - 1
STACK  == NVP - 1
Marcos == 1 .. NMARCO
Pte    == [marco : Marcos, w : BOOLEAN, cow : BOOLEAN]  \* PTE_W, PTE_COW

ASSUME CowForkAssumption ==
    /\ NVP \in Nat /\ NVP >= 2 /\ NMARCO \in Nat /\ NMARCO >= NVP /\ 0 \in Datos
    /\ NULO \notin Envs \cup Marcos \cup VPs \cup Datos \cup Pte

VARIABLES
    env,            \* each environment: see EnvType
    dato            \* what each frame holds

vars == <<env, dato>>

\* pc is where the program is in fork, n the page there and hijo the child;
\* falta is the page of the fault being handled, paso the handler's next call.
EnvType == [estado : {"libre", "embrion", "vivo", "panico"},
            pte : [VPs -> Pte \cup {NULO}],
            pftemp : Marcos \cup {NULO},
            uxstack : Marcos \cup {NULO},
            upcall : BOOLEAN,
            pc : {"usuario", "exofork", "hijo", "propia", "uxstack"},
            n : 0 .. NVP, hijo : Envs \cup {NULO},
            falta : VPs \cup {NULO}, paso : {"alloc", "copia", "map", "unmap"}]

Libre == [estado |-> "libre", pte |-> [v \in VPs |-> NULO], pftemp |-> NULO,
          uxstack |-> NULO, upcall |-> FALSE, pc |-> "usuario", n |-> 0,
          hijo |-> NULO, falta |-> NULO, paso |-> "alloc"]

Usados(r) == {r.pftemp, r.uxstack} \cup
             {r.pte[v].marco : v \in {u \in VPs : r.pte[u] # NULO}}
Libres == {p \in Marcos : \A e \in Envs : p \notin Usados(env[e])}

\* The frame that page_alloc returns.  Which of the free ones makes no difference.
Primera == CHOOSE p \in Libres : \A q \in Libres : p <= q

\* One program is loaded, some of its pages read-only, all of them zeros.
Init ==
    /\ dato = [p \in Marcos |-> 0]
    /\ \E e \in Envs, ro \in SUBSET (VPs \ {STACK}) :
        env = [f \in Envs |->
            IF f = e THEN [Libre EXCEPT !.estado = "vivo", !.pte =
                [v \in VPs |-> [marco |-> v + 1, w |-> v \notin ro, cow |-> FALSE]]]
            ELSE Libre]

-----------------------------------------------------------------------------
\* User code runs in e, out of the handler of page faults.
Corre(e)  == env[e].estado = "vivo" /\ env[e].falta = NULO
En(e, pc) == Corre(e) /\ env[e].pc = pc

\* panic stops the program where it is; what it has stays mapped.
Panic(e) == env' = [env EXCEPT ![e].estado = "panico"] /\ UNCHANGED dato

\* sys_page_alloc that succeeds, for the page Primera, which it zeroes; and one
\* that finds no page.
SysPageAlloc  == Libres # {} /\ dato' = [dato EXCEPT ![Primera] = 0]
SinMemoria    == Libres = {}

\* A write to page v.  Without write access page_fault_handler calls the upcall,
\* or destroys the environment when there is none.
Escribe(e, v) ==
    LET pte == env[e].pte[v]
    IN  IF pte.w
        THEN /\ \E d \in Datos : dato' = [dato EXCEPT ![pte.marco] = d]
             /\ UNCHANGED env
        ELSE /\ env' = [env EXCEPT ![e] =
                    IF @.upcall THEN [@ EXCEPT !.falta = v, !.paso = "alloc"] ELSE Libre]
             /\ UNCHANGED dato

\* The program writes anywhere; inside fork, on the stack.
UserWrite(e) == En(e, "usuario") /\ \E v \in VPs : Escribe(e, v)
ForkWrite(e) == Corre(e) /\ env[e].pc # "usuario" /\ Escribe(e, STACK)

\* exit
Exit(e) ==
    /\ En(e, "usuario")
    /\ env' = [env EXCEPT ![e] = Libre]
    /\ UNCHANGED dato

-----------------------------------------------------------------------------
\* pgfault.  The test of its line 28 is never true (FEC_WR & 0 or & 1), so it
\* copies the page whatever it was.

Atiende(e, paso) == /\ env[e].estado = "vivo" /\ env[e].falta # NULO
                    /\ env[e].paso = paso

PgfaultAlloc(e) ==
    /\ Atiende(e, "alloc")
    /\ \/ /\ SysPageAlloc
          /\ env' = [env EXCEPT ![e].pftemp = Primera, ![e].paso = "copia"]
       \/ SinMemoria /\ Panic(e)

\* memmove(PFTEMP, addr, PGSIZE)
PgfaultCopy(e) ==
    /\ Atiende(e, "copia")
    /\ dato' = [dato EXCEPT ![env[e].pftemp] = dato[env[e].pte[env[e].falta].marco]]
    /\ env' = [env EXCEPT ![e].paso = "map"]

PgfaultMap(e) ==
    /\ Atiende(e, "map")
    /\ env' = [env EXCEPT ![e].pte[env[e].falta] =
                              [marco |-> env[e].pftemp, w |-> TRUE, cow |-> FALSE],
                          ![e].paso = "unmap"]
    /\ UNCHANGED dato

\* The upcall returns by way of the stack of the program: it pushes the trapped
\* eip there (pfentry.S), which faults in its turn when that page is not writable.
PgfaultUnmap(e) ==
    /\ Atiende(e, "unmap")
    /\ env' = [env EXCEPT ![e] = [@ EXCEPT !.pftemp = NULO, !.paso = "alloc",
                  !.falta = IF env[e].pte[STACK].w THEN NULO ELSE STACK]]
    /\ UNCHANGED dato

-----------------------------------------------------------------------------
\* fork.

\* set_pgfault_handler, which asks for an exception stack the first time and
\* gives up in silence when there is no page for it.
SetPgfaultHandler(e) ==
    /\ En(e, "usuario")
    /\ LET entra == [env EXCEPT ![e].pc = "exofork"]
       IN  \/ /\ env[e].upcall \/ SinMemoria
              /\ env' = entra
              /\ UNCHANGED dato
           \/ /\ ~env[e].upcall
              /\ SysPageAlloc
              /\ env' = [entra EXCEPT ![e].uxstack = Primera, ![e].upcall = TRUE]

\* sys_exofork; without a free slot fork panics.
Exofork(e) ==
    /\ En(e, "exofork")
    /\ \/ \E c \in Envs :
            /\ env[c].estado = "libre"
            /\ env' = [env EXCEPT ![c].estado = "embrion",
                                  ![e].hijo = c, ![e].n = 0, ![e].pc = "hijo"]
            /\ UNCHANGED dato
       \/ (\A c \in Envs : env[c].estado # "libre") /\ Panic(e)

\* The loop of fork goes on to the next page after this one.
Siguiente(r) == [r EXCEPT !.n = r.n + 1,
                          !.pc = IF r.n + 1 < NVP THEN "hijo" ELSE "uxstack"]

\* Mistake: the mark does not take the write access away.
ConCowSinQuitar(pte) == [pte EXCEPT !.cow = TRUE]

ConCow(pte) == [pte EXCEPT !.w = FALSE, !.cow = TRUE]

\* duppage, its first sys_page_map: the page to the child.
DupPageHijo(e) ==
    LET r == env[e]  pte == r.pte[r.n]
    IN  /\ En(e, "hijo")
        /\ env' = IF pte.w \/ pte.cow
                  THEN [env EXCEPT ![r.hijo].pte[r.n] = ConCow(pte), ![e].pc = "propia"]
                  ELSE [env EXCEPT ![r.hijo].pte[r.n] = pte, ![e] = Siguiente(r)]
        /\ UNCHANGED dato

\* ... which finds no page for the child's page table.  Tables are not modelled, so it
\* may happen at any page.
DupPageSinTabla(e) == En(e, "hijo") /\ Panic(e)

\* Mistake: the parent keeps its write access.
DupPagePropiaSinMarcar(e) ==
    /\ En(e, "propia")
    /\ env' = [env EXCEPT ![e] = Siguiente(@)]
    /\ UNCHANGED dato

\* duppage, its second sys_page_map: the page that the parent has there by now.
DupPagePropia(e) ==
    LET r == env[e]
    IN  /\ En(e, "propia")
        /\ env' = [env EXCEPT ![e] = Siguiente([r EXCEPT !.pte[r.n] = ConCow(@)])]
        /\ UNCHANGED dato

\* The child's exception stack, its upcall and its start.
ForkEnd(e) ==
    LET c == env[e].hijo
    IN  /\ En(e, "uxstack")
        /\ \/ /\ SysPageAlloc
              /\ env' = [env EXCEPT ![c].uxstack = Primera, ![c].upcall = env[e].upcall,
                                    ![c].estado = "vivo",
                                    ![e].pc = "usuario", ![e].hijo = NULO, ![e].n = 0]
           \/ SinMemoria /\ Panic(e)

-----------------------------------------------------------------------------
Next == \E e \in Envs :
    \/ UserWrite(e) \/ ForkWrite(e) \/ Exit(e)
    \/ PgfaultAlloc(e) \/ PgfaultCopy(e) \/ PgfaultMap(e) \/ PgfaultUnmap(e)
    \/ SetPgfaultHandler(e) \/ Exofork(e) \/ DupPageHijo(e) \/ DupPagePropia(e)
    \/ DupPageSinTabla(e) \/ ForkEnd(e)

Spec == Init /\ [][Next]_vars

-----------------------------------------------------------------------------
\* Two pages share a frame with write access to it in no more than one place and
\* for no longer than the two calls of duppage: the parent's mapping, while the
\* child that has the other has not started (fork.c, duppage).
SharedIsReadOnly ==
    \A e, f \in Envs, u, v \in VPs :
        LET a == env[e].pte[u]  b == env[f].pte[v]
        IN  (a # NULO /\ b # NULO /\ <<e, u>> # <<f, v>>
                => (a.marco = b.marco /\ a.w
                    => /\ env[e].estado \in {"vivo", "panico"} /\ env[e].pc = "propia"
                       /\ env[e].n = u /\ env[e].hijo = f /\ env[f].estado = "embrion"))

\* What an environment that has started reads in its pages.
Memoria(e) == [v \in VPs |->
    IF env[e].estado \in {"vivo", "panico"} THEN dato[env[e].pte[v].marco] ELSE NULO]

\* Every environment has a memory of its own: a store changes what one of them
\* reads, and a child starts with its parent's memory, the stack aside.
PM == INSTANCE PrivateMemories WITH memoria <- [e \in Envs |-> Memoria(e)]

ImplementsPrivateMemories == PM!Spec
=============================================================================
