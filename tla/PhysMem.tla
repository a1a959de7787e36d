------------------------------- MODULE PhysMem -------------------------------
(***************************************************************************)
(* Physical pages and address spaces: the page allocator with its free     *)
(* list and reference counts, the two-level page tables, and every path of *)
(* the kernel that changes them: the creation and the teardown of an       *)
(* environment, the page system calls and the page sent by IPC             *)
(* (scheduler/kern/pmap.c, env.c, syscall.c).                              *)
(*                                                                         *)
(* The kernel's lock makes a system call atomic with respect to the other  *)
(* CPUs' kernel code, but their user code runs on: a CPU goes on using the *)
(* directory in its cr3 and the translations in its TLB.  env_free and     *)
(* load_icode are loops; each iteration is a step, taken with the lock     *)
(* held (nucleo).                                                          *)
(*                                                                         *)
(* A virtual address is a pair <<directory index, table index>>, below     *)
(* UTOP.  What a frame contains is modelled for directories and tables; a  *)
(* page that a program holds has no contents here.  Which environment a    *)
(* scheduler picks, the ids and the lock itself are module Kernel's.       *)
(***************************************************************************)
EXTENDS Naturals, Sequences, FiniteSets

CONSTANTS
    Pages,          \* the frames that page_init puts on the free list
    Envs,           \* the slots of envs[]
    CPUs,
    NULO,           \* no page, no environment, no CPU, kern_pgdir in a cr3
    NPD,            \* entries of a page directory below UTOP
    NPT,            \* entries of a page table
    REF_MOD,        \* pp_ref is a uint16_t: 2^16
    PAGINAS_AJENAS  \* FALSE: programs change their own address space, or that
                    \* of a child they have not started, as lib/ does

Indices  == 0 .. (IF NPD > NPT THEN NPD ELSE NPT) - 1
VAs      == (0 .. NPD - 1) \X (0 .. NPT - 1)
VA_0     == <<0, 0>>
Entrada  == [pagina : Pages, w : BOOLEAN]   \* a present pde or pte; w is PTE_W
VACIO    == [i \in Indices |-> NULO]        \* a zeroed frame

ASSUME PhysMemAssumption ==
    /\ IsFiniteSet(Pages) /\ IsFiniteSet(Envs)
    /\ NULO \notin Pages \cup Envs \cup CPUs \cup Entrada \cup VAs
    /\ NPD \in Nat \ {0} /\ NPT \in Nat \ {0} /\ REF_MOD \in Nat \ {0}
    /\ PAGINAS_AJENAS \in BOOLEAN

VARIABLES
    mem,            \* pp_ref, page_free_list, marco (the frames as tables) and
                    \* tlb (the addresses a CPU may translate as they were)
    env_pgdir,      \* envs[e].env_pgdir
    env_status,     \* envs[e].env_status
    padre,          \* the environment whose id is envs[e].env_parent_id
    dstva,          \* envs[e].env_ipc_dstva while env_ipc_recving, else NULO
    curenv,         \* cpus[c].cpu_env
    cr3,            \* the directory CPU c has loaded; NULO is kern_pgdir
    nucleo,         \* the CPU in a handler that takes several steps
    liberando,      \* the environment nucleo is freeing
    cargando,       \* the environment load_icode is loading
    arrancado       \* i386_init is over

memoria  == <<mem, env_pgdir>>
procesos == <<env_status, padre, dstva>>
cpus     == <<curenv, cr3>>
arranque == <<cargando, arrancado>>
vars == <<mem, env_pgdir, env_status, padre, dstva, curenv, cr3, nucleo,
          liberando, cargando, arrancado>>

\* page_init has linked every page, in some order, and nothing else has run.
Init ==
    /\ mem \in [pp_ref : {[p \in Pages |-> 0]},
                page_free_list : {s \in [1 .. Cardinality(Pages) -> Pages] :
                                    \A p \in Pages : \E k \in DOMAIN s : s[k] = p},
                marco : {[p \in Pages |-> VACIO]},
                tlb : {[c \in CPUs |-> {}]}]
    /\ env_pgdir = [e \in Envs |-> NULO]
    /\ env_status = [e \in Envs |-> "FREE"]
    /\ padre = [e \in Envs |-> NULO]
    /\ dstva = [e \in Envs |-> NULO]
    /\ curenv = [c \in CPUs |-> NULO]
    /\ cr3 = [c \in CPUs |-> NULO]
    /\ nucleo = NULO
    /\ liberando = NULO
    /\ cargando = NULO
    /\ arrancado = FALSE

-----------------------------------------------------------------------------
\* pmap.c, as operators from a memory m to a memory.  CPU c executes them.

HayLibre(m) == m.page_free_list # <<>>
Primera(m)  == Head(m.page_free_list)   \* the page page_alloc returns

\* page_alloc takes the head of the list and leaves its count at 0.
PageAlloc(m) ==
    [m EXCEPT !.page_free_list = Tail(@), !.marco[Primera(m)] = VACIO]

PageFree(m, p) == [m EXCEPT !.page_free_list = <<p>> \o @]

PageIncref(m, p) == [m EXCEPT !.pp_ref[p] = (@ + 1) % REF_MOD]

\* Mistake: the page that loses its last reference is not freed.
PageDecrefSinLiberar(m, p) == [m EXCEPT !.pp_ref[p] = (@ + REF_MOD - 1) % REF_MOD]

\* Mistake: the count is tested before it is decremented.
PageDecrefAntes(m, p) ==
    LET m1 == [m EXCEPT !.pp_ref[p] = (@ + REF_MOD - 1) % REF_MOD]
    IN  IF m1.pp_ref[p] <= 1 THEN PageFree(m1, p) ELSE m1

\* page_decref
PageDecref(m, p) ==
    LET m1 == [m EXCEPT !.pp_ref[p] = (@ + REF_MOD - 1) % REF_MOD]
    IN  IF m1.pp_ref[p] = 0 THEN PageFree(m1, p) ELSE m1

Pde(m, pgdir, va) == m.marco[pgdir][va[1]]

\* pgdir_walk with create: a missing table is allocated, if there is a page.
ConTabla(m, pgdir, va) ==
    IF Pde(m, pgdir, va) # NULO \/ ~HayLibre(m) THEN m
    ELSE LET t == Primera(m)
         IN  [PageIncref(PageAlloc(m), t)
                EXCEPT !.marco[pgdir][va[1]] = [pagina |-> t, w |-> TRUE]]

\* page_lookup, and pgdir_walk without create: the entry of va, or NULO.
PageLookup(m, pgdir, va) ==
    IF Pde(m, pgdir, va) = NULO THEN NULO
    ELSE m.marco[Pde(m, pgdir, va).pagina][va[2]]

EscribePte(m, pgdir, va, pte) ==
    [m EXCEPT !.marco[Pde(m, pgdir, va).pagina][va[2]] = pte]

\* tlb_invalidate flushes va on the CPU that executes it only, and env_run
\* reloads that CPU's cr3 when the call returns; another CPU that has this
\* directory loaded may go on translating va as it was.
TlbInvalidate(m, c, pgdir, va) ==
    [m EXCEPT !.tlb = [d \in CPUs |->
        IF d # c /\ cr3[d] = pgdir THEN @[d] \cup {va} ELSE @[d]]]

PageRemove(m, c, pgdir, va) ==
    LET pte == PageLookup(m, pgdir, va)
    IN  IF pte = NULO THEN m
        ELSE TlbInvalidate(
                EscribePte(PageDecref(m, pte.pagina), pgdir, va, NULO), c, pgdir, va)

\* page_insert returns -E_NO_MEM when there is no page for the table.
InsertaFalla(m, pgdir, va) == Pde(m, pgdir, va) = NULO /\ ~HayLibre(m)

\* Mistake: the mapping that is replaced is not removed first.
PageInsertEncima(m, c, pgdir, p, va, w) ==
    IF InsertaFalla(m, pgdir, va) THEN m
    ELSE EscribePte(PageIncref(ConTabla(m, pgdir, va), p), pgdir, va,
                    [pagina |-> p, w |-> w])

\* Mistake: the count is incremented after page_remove.
PageInsertTarde(m, c, pgdir, p, va, w) ==
    IF InsertaFalla(m, pgdir, va) THEN m
    ELSE EscribePte(PageIncref(PageRemove(ConTabla(m, pgdir, va), c, pgdir, va), p),
                    pgdir, va, [pagina |-> p, w |-> w])

\* page_insert counts the page before it removes what va had: pp may be that
\* very page.
PageInsert(m, c, pgdir, p, va, w) ==
    IF InsertaFalla(m, pgdir, va) THEN m
    ELSE LET m1 == PageIncref(ConTabla(m, pgdir, va), p)
         IN  EscribePte(PageRemove(m1, c, pgdir, va), pgdir, va,
                        [pagina |-> p, w |-> w])

\* user_mem_check: every page of the range is mapped, and writable if w.
UserMemCheck(e, rango, w) ==
    \A va \in rango :
        LET pte == PageLookup(mem, env_pgdir[e], va)
        IN  pte # NULO /\ (w => pte.w)

-----------------------------------------------------------------------------
\* syscall.c: the two helpers of the page system calls

\* env_page_alloc.  The page is taken before page_insert; when that fails for
\* want of a table, nobody frees it.
EnvPageAlloc(m, c, e, va, w) ==
    IF ~HayLibre(m) THEN m
    ELSE PageInsert(PageAlloc(m), c, env_pgdir[e], Primera(m), va, w)

AllocFalla(m, e, va) ==
    ~HayLibre(m) \/ InsertaFalla(PageAlloc(m), env_pgdir[e], va)

\* Mistake: PTE_W is not compared with the source's.
EnvPageMapSinPermiso(m, c, src, srcva, dst, va, w) ==
    LET pte == PageLookup(m, env_pgdir[src], srcva)
    IN  IF pte = NULO THEN m
        ELSE PageInsert(m, c, env_pgdir[dst], pte.pagina, va, w)

\* env_page_map: an unmapped source or a write access it lacks is -E_INVAL.
EnvPageMap(m, c, src, srcva, dst, va, w) ==
    LET pte == PageLookup(m, env_pgdir[src], srcva)
    IN  IF pte = NULO \/ (w /\ ~pte.w) THEN m
        ELSE PageInsert(m, c, env_pgdir[dst], pte.pagina, va, w)

MapFalla(m, src, srcva, dst, va, w) ==
    LET pte == PageLookup(m, env_pgdir[src], srcva)
    IN  pte = NULO \/ (w /\ ~pte.w) \/ InsertaFalla(m, env_pgdir[dst], va)

-----------------------------------------------------------------------------
\* env.c

\* env_alloc with env_setup_vm, when there is a page for the directory.
EnvAlloc(e, p) ==
    /\ env_status[e] = "FREE"
    /\ HayLibre(mem)
    /\ mem' = PageIncref(PageAlloc(mem), Primera(mem))
    /\ env_pgdir' = [env_pgdir EXCEPT ![e] = Primera(mem)]
    /\ padre' = [padre EXCEPT ![e] = p]
    /\ dstva' = [dstva EXCEPT ![e] = NULO]

\* env_create, up to load_icode.
EnvCreate(e) ==
    /\ ~arrancado
    /\ cargando = NULO
    /\ EnvAlloc(e, NULO)
    /\ env_status' = [env_status EXCEPT ![e] = "RUNNABLE"]
    /\ cargando' = e
    /\ UNCHANGED <<curenv, cr3, nucleo, liberando, arrancado>>

\* region_alloc, one page of a segment or the stack.  It panics when memory
\* does not suffice; here the images fit.  The CPU is the one that boots.
RegionAlloc(c, va) ==
    /\ cargando # NULO
    /\ ~AllocFalla(mem, cargando, va)
    /\ mem' = EnvPageAlloc(mem, c, cargando, va, TRUE)
    /\ UNCHANGED <<env_pgdir, procesos, cpus, nucleo, liberando, arranque>>

\* load_icode returns; i386_init goes on to the next ENV_CREATE, if there is
\* memory for it, or boots.
Cargado ==
    /\ cargando # NULO
    /\ cargando' = NULO
    /\ \/ arrancado' = TRUE
       \/ UNCHANGED arrancado /\ HayLibre(mem) /\ \E e \in Envs : env_status[e] = "FREE"
    /\ UNCHANGED <<memoria, procesos, cpus, nucleo, liberando>>

\* env_free begins: the current environment's directory is unloaded.
EnvFree(c, e) ==
    /\ nucleo' = c
    /\ liberando' = e
    /\ cr3' = IF e = curenv[c] THEN [cr3 EXCEPT ![c] = NULO] ELSE cr3

\* The addresses of a table of e, and the first of those that are mapped.
Mapeadas(e) == {va \in VAs : PageLookup(mem, env_pgdir[e], va) # NULO}
Antes(va, vb) == va[1] < vb[1] \/ (va[1] = vb[1] /\ va[2] < vb[2])

\* env_free: page_remove of the next mapped address.  A table is freed before
\* the entries of the next one are looked at.
EnvFreePage(va) ==
    /\ liberando # NULO
    /\ va \in Mapeadas(liberando)
    /\ \A vb \in VAs : Antes(vb, va) => /\ vb \notin Mapeadas(liberando)
                                        /\ vb[1] < va[1] =>
                                            Pde(mem, env_pgdir[liberando], vb) = NULO
    /\ mem' = PageRemove(mem, nucleo, env_pgdir[liberando], va)
    /\ UNCHANGED <<env_pgdir, procesos, cpus, nucleo, liberando, arranque>>

\* env_free: the first table, now empty.
EnvFreeTable(pdeno) ==
    /\ liberando # NULO
    /\ LET pgdir == env_pgdir[liberando]
           pde   == mem.marco[pgdir][pdeno]
       IN  /\ pde # NULO
           /\ \A i \in 0 .. NPD - 1 : i < pdeno => mem.marco[pgdir][i] = NULO
           /\ \A va \in Mapeadas(liberando) : va[1] # pdeno
           /\ mem' = PageDecref([mem EXCEPT !.marco[pgdir][pdeno] = NULO], pde.pagina)
    /\ UNCHANGED <<env_pgdir, procesos, cpus, nucleo, liberando, arranque>>

\* env_free: the directory; the slot is free.  If it was the current
\* environment, sched_yield follows; if not, the call returns to its program.
EnvFreeDir ==
    /\ liberando # NULO
    /\ \A i \in 0 .. NPD - 1 : mem.marco[env_pgdir[liberando]][i] = NULO
    /\ mem' = PageDecref(mem, env_pgdir[liberando])
    /\ env_pgdir' = [env_pgdir EXCEPT ![liberando] = NULO]
    /\ env_status' = [env_status EXCEPT ![liberando] = "FREE"]
    /\ padre' = [e \in Envs |-> IF padre[e] = liberando THEN NULO ELSE padre[e]]
    /\ dstva' = [dstva EXCEPT ![liberando] = NULO]
    /\ liberando' = NULO
    /\ IF curenv[nucleo] = liberando
       THEN curenv' = [curenv EXCEPT ![nucleo] = NULO] /\ UNCHANGED nucleo
       ELSE nucleo' = NULO /\ UNCHANGED curenv
    /\ UNCHANGED <<cr3, arranque>>

\* Mistake: an environment that runs on another CPU is freed under it.
EnvDestroyEnUso(c, e) ==
    /\ EnvFree(c, e)
    /\ UNCHANGED <<env_status, memoria, padre, dstva, curenv, arranque>>

\* env_destroy: an environment that runs on another CPU is marked, not freed.
EnvDestroy(c, e) ==
    /\ IF env_status[e] = "RUNNING" /\ curenv[c] # e
       THEN /\ env_status' = [env_status EXCEPT ![e] = "DYING"]
            /\ UNCHANGED <<cr3, nucleo, liberando>>
       ELSE EnvFree(c, e) /\ UNCHANGED env_status
    /\ UNCHANGED <<memoria, padre, dstva, curenv, arranque>>

\* env_run: cr3 is loaded, which empties the CPU's TLB.
EnvRun(c, e) ==
    /\ env_status' = [t \in Envs |->
            IF t = e THEN "RUNNING"
            ELSE IF t = curenv[c] /\ env_status[t] = "RUNNING" THEN "RUNNABLE"
            ELSE env_status[t]]
    /\ curenv' = [curenv EXCEPT ![c] = e]
    /\ cr3' = [cr3 EXCEPT ![c] = env_pgdir[e]]
    /\ mem' = [mem EXCEPT !.tlb[c] = {}]

\* sched_halt
SchedHalt(c) ==
    /\ curenv' = [curenv EXCEPT ![c] = NULO]
    /\ cr3' = [cr3 EXCEPT ![c] = NULO]
    /\ mem' = [mem EXCEPT !.tlb[c] = {}]
    /\ UNCHANGED env_status

\* sched_yield, on a timer interrupt, by a halted CPU or at the end of a call:
\* some runnable environment, else the current one, else the CPU halts.
SchedYield(c) ==
    /\ arrancado
    /\ IF nucleo = NULO THEN curenv[c] # NULO => env_status[curenv[c]] = "RUNNING"
       ELSE nucleo = c /\ liberando = NULO
    /\ LET listos == {e \in Envs : env_status[e] = "RUNNABLE"}
           actual == {e \in Envs : e = curenv[c] /\ env_status[e] = "RUNNING"}
       IN  \/ \E e \in IF listos # {} THEN listos ELSE actual : EnvRun(c, e)
           \/ listos \cup actual = {} /\ SchedHalt(c)
    /\ nucleo' = NULO
    /\ UNCHANGED <<env_pgdir, padre, dstva, liberando, arranque>>

\* trap() of a zombie: the CPU that ran it frees it.
Reap(c) ==
    /\ nucleo = NULO
    /\ curenv[c] # NULO
    /\ env_status[curenv[c]] = "DYING"
    /\ EnvFree(c, curenv[c])
    /\ UNCHANGED <<memoria, procesos, curenv, arranque>>

-----------------------------------------------------------------------------
\* System calls of the environment that runs on c

Sirve(c) ==
    /\ nucleo = NULO
    /\ curenv[c] # NULO
    /\ env_status[curenv[c]] = "RUNNING"

\* envid2env with checkperm: the caller itself or a child of its.
Alcanza(c) == {e \in Envs : env_status[e] # "FREE" /\ (e = curenv[c] \/ padre[e] = curenv[c])}

\* A child that exofork has made and its parent has not yet started.
SinArrancar(e) == env_status[e] = "NOT_RUNNABLE" /\ dstva[e] = NULO

\* Where the page calls of a program go.
AlcanzaPaginas(c) ==
    {e \in Alcanza(c) : PAGINAS_AJENAS \/ e = curenv[c] \/ SinArrancar(e)}

\* The end of a call: trap() runs the same environment, env_run reloads cr3.
Retorna(c, m) == mem' = [m EXCEPT !.tlb[c] = {}]

\* sys_exofork (-E_NO_MEM and -E_NO_FREE_ENV change nothing)
Exofork(c, e) ==
    /\ Sirve(c)
    /\ EnvAlloc(e, curenv[c])
    /\ env_status' = [env_status EXCEPT ![e] = "NOT_RUNNABLE"]
    /\ UNCHANGED <<cpus, nucleo, liberando, arranque>>

\* sys_env_set_status, as fork uses it: the child is started.
SetStatus(c, e) ==
    /\ Sirve(c)
    /\ e \in Alcanza(c)
    /\ SinArrancar(e)
    /\ env_status' = [env_status EXCEPT ![e] = "RUNNABLE"]
    /\ UNCHANGED <<memoria, padre, dstva, cpus, nucleo, liberando, arranque>>

SysPageAlloc(c, e, va, w) ==
    /\ Sirve(c)
    /\ e \in AlcanzaPaginas(c)
    /\ Retorna(c, EnvPageAlloc(mem, c, e, va, w))
    /\ UNCHANGED <<env_pgdir, procesos, cpus, nucleo, liberando, arranque>>

SysPageMap(c, src, srcva, dst, va, w) ==
    /\ Sirve(c)
    /\ src \in Alcanza(c)
    /\ dst \in AlcanzaPaginas(c)
    /\ Retorna(c, EnvPageMap(mem, c, src, srcva, dst, va, w))
    /\ UNCHANGED <<env_pgdir, procesos, cpus, nucleo, liberando, arranque>>

SysPageUnmap(c, e, va) ==
    /\ Sirve(c)
    /\ e \in AlcanzaPaginas(c)
    /\ Retorna(c, PageRemove(mem, c, env_pgdir[e], va))
    /\ UNCHANGED <<env_pgdir, procesos, cpus, nucleo, liberando, arranque>>

\* sys_ipc_recv: blocks, willing to have a page at va (none if it is address 0).
IpcRecv(c, va) ==
    /\ Sirve(c)
    /\ dstva' = [dstva EXCEPT ![curenv[c]] = va]
    /\ env_status' = [env_status EXCEPT ![curenv[c]] = "NOT_RUNNABLE"]
    /\ nucleo' = c
    /\ UNCHANGED <<memoria, padre, cpus, liberando, arranque>>

\* Mistake: env_ipc_recving is not cleared.
EntregaSinLimpiar(t) ==
    /\ env_status' = [env_status EXCEPT ![t] = "RUNNABLE"]
    /\ UNCHANGED dstva

\* sys_ipc_try_send, from bail on: the receiver goes on.
Entrega(t) ==
    /\ dstva' = [dstva EXCEPT ![t] = NULO]
    /\ env_status' = [env_status EXCEPT ![t] = "RUNNABLE"]

\* sys_ipc_try_send with srcva >= UTOP: no page.
IpcTrySend(c, t) ==
    /\ Sirve(c)
    /\ dstva[t] # NULO
    /\ Entrega(t)
    /\ Retorna(c, mem)
    /\ UNCHANGED <<env_pgdir, padre, cpus, nucleo, liberando, arranque>>

\* sys_ipc_try_send of the page at srcva.  A write access that the sender lacks
\* is refused at once.  If srcva is not mapped, page_lookup leaves srcpte
\* unset and the checks read through it: the kernel may stop there, refuse the
\* call, or let it pass, as if the access were allowed.
\* A page is then allocated at the receiver's address, only to be replaced by
\* the sender's; if either step fails the receiver goes on waiting.
IpcTrySendPage(c, t, srcva, w) ==
    LET e     == curenv[c]
        pte   == PageLookup(mem, env_pgdir[e], srcva)
        m1    == EnvPageAlloc(mem, c, t, dstva[t], w)
        falla == AllocFalla(mem, t, dstva[t])
                    \/ MapFalla(m1, e, srcva, t, dstva[t], w)
    IN  /\ Sirve(c)
        /\ dstva[t] # NULO
        /\ pte # NULO => (w => pte.w)
        /\ IF dstva[t] = VA_0 THEN Retorna(c, mem) /\ Entrega(t)
           ELSE IF falla THEN Retorna(c, m1) /\ UNCHANGED <<dstva, env_status>>
           ELSE Retorna(c, EnvPageMap(m1, c, e, srcva, t, dstva[t], w)) /\ Entrega(t)
        /\ UNCHANGED <<env_pgdir, padre, cpus, nucleo, liberando, arranque>>

\* sys_env_destroy.  A program does not destroy a child again that is DYING.
SysEnvDestroy(c, e) ==
    /\ Sirve(c)
    /\ e \in Alcanza(c)
    /\ env_status[e] # "DYING"
    /\ EnvDestroy(c, e)

\* user_mem_assert on the caller's own memory: sys_cputs asks for PTE_W, so does
\* page_fault_handler of the exception stack.  The other outcome changes nothing.
UserMemAssert(c, va, vb) ==
    LET rango == {v \in VAs : ~Antes(v, va) /\ ~Antes(vb, v)}
    IN  /\ Sirve(c)
        /\ ~UserMemCheck(curenv[c], rango, TRUE)
        /\ EnvDestroy(c, curenv[c])

\* sys_env_set_pgfault_upcall with an unmapped func: the target is destroyed.
SetPgfaultUpcall(c, e, va) ==
    /\ Sirve(c)
    /\ e \in AlcanzaPaginas(c)
    /\ env_status[e] # "DYING"
    /\ ~UserMemCheck(e, {va}, FALSE)
    /\ EnvDestroy(c, e)

Syscall(c) ==
    \/ \E e \in Envs : \/ Exofork(c, e) \/ SetStatus(c, e) \/ SysEnvDestroy(c, e)
                       \/ IpcTrySend(c, e)
    \/ \E va \in VAs : IpcRecv(c, va)
    \/ \E e \in Envs, va \in VAs :
          \/ SysPageUnmap(c, e, va)
          \/ SetPgfaultUpcall(c, e, va)
          \/ \E w \in BOOLEAN : \/ SysPageAlloc(c, e, va, w)
                                \/ IpcTrySendPage(c, e, va, w)
                                \/ \E f \in Envs, vb \in VAs :
                                      SysPageMap(c, e, va, f, vb, w)
    \/ \E va, vb \in VAs : UserMemAssert(c, va, vb)

Boot ==
    \/ \E e \in Envs : EnvCreate(e)
    \/ \E c \in CPUs, va \in VAs : RegionAlloc(c, va)
    \/ Cargado

EnvFreeStep ==
    \/ \E va \in VAs : EnvFreePage(va)
    \/ \E i \in 0 .. NPD - 1 : EnvFreeTable(i)
    \/ EnvFreeDir

Next ==
    \/ Boot
    \/ EnvFreeStep
    \/ \E c \in CPUs : Syscall(c) \/ SchedYield(c) \/ Reap(c)

Spec == Init /\ [][Next]_vars

-----------------------------------------------------------------------------
\* Properties

\* The entries that point to page p, and the environments whose directory it is.
Referencias(p) ==
    {x \in Pages \X Indices :
        mem.marco[x[1]][x[2]] # NULO /\ mem.marco[x[1]][x[2]].pagina = p}
Directorios(p) == {e \in Envs : env_pgdir[e] = p}

\* A page's count is the number of entries that point to it, in the directories
\* and tables of all environments, plus one for a directory.
RefCounts ==
    \A p \in Pages :
        mem.pp_ref[p] = Cardinality(Referencias(p)) + Cardinality(Directorios(p))

\* No page is on the free list twice, and a page on it is not in use: page_free
\* never meets a page that is linked, nor page_alloc hands one out twice.
FreePagesUnused ==
    \A j, k \in DOMAIN mem.page_free_list :
        /\ mem.page_free_list[j] = mem.page_free_list[k] => j = k
        /\ mem.pp_ref[mem.page_free_list[j]] = 0
        /\ mem.marco[mem.page_free_list[j]] = VACIO

EsTabla(p) ==
    \E e \in Envs, i \in 0 .. NPD - 1 :
        /\ env_pgdir[e] # NULO
        /\ mem.marco[env_pgdir[e]][i] # NULO
        /\ mem.marco[env_pgdir[e]][i].pagina = p

\* No program can write a page table: a page that serves as a directory or a
\* table has that one reference only, whatever is unmapped, shared or freed.
TablesPrivate ==
    \A p \in Pages : EsTabla(p) \/ Directorios(p) # {} =>
        Cardinality(Referencias(p)) + Cardinality(Directorios(p)) = 1

\* The directory a CPU has loaded is its environment's, and has not been freed,
\* also while that environment is destroyed from another CPU.
LoadedDirLive ==
    \A c \in CPUs : cr3[c] # NULO =>
        /\ curenv[c] # NULO
        /\ cr3[c] = env_pgdir[curenv[c]]
        /\ env_status[curenv[c]] # "FREE"

\* A CPU translates as the page tables say.  page_remove must invalidate the
\* TLB if it removes an entry, and does so on its own CPU only; a CPU is left
\* with an address it translates as before by nothing but a system call of its
\* environment's parent, on another CPU: not by a message, a teardown or a switch.
StaleOnlyByParent ==
    [][\A c \in CPUs :
        ~(mem'.tlb[c] \subseteq mem.tlb[c]) =>
            \E d \in CPUs \ {c} : /\ curenv[d] # NULO
                                  /\ curenv[c] # NULO
                                  /\ padre[curenv[c]] = curenv[d]]_vars

\* A page that is not referenced is on the free list, or lost.
EnLista(p) == \E k \in DOMAIN mem.page_free_list : mem.page_free_list[k] = p
Perdida(p) == mem.pp_ref[p] = 0 /\ ~EnLista(p)
\* A page is lost only by the call that takes the last free page and then
\* finds none for the page table.
LostOnlyWhenExhausted ==
    [][\A p \in Pages : Perdida(p)' /\ ~Perdida(p) => mem'.page_free_list = <<>>]_vars

\* The page tables implement the address spaces: no step of the kernel changes
\* more than one address of one environment, and none shares a page, or makes
\* one writable, in another way than AddressSpaces says.
Espacio ==
    [e \in Envs |-> [va \in VAs |->
        IF env_pgdir[e] = NULO THEN NULO ELSE PageLookup(mem, env_pgdir[e], va)]]
AS == INSTANCE AddressSpaces WITH espacio <- Espacio
ImplementsAddressSpaces == AS!Spec
=============================================================================
