-------------------------------- MODULE Boot --------------------------------
(***************************************************************************)
(* From power-on to the first environments (scheduler/kern/init.c,         *)
(* mpentry.S, mem_init of pmap.c, mpconfig.c, lapic.c): the boot processor *)
(* detects the memory, builds kern_pgdir with an allocator that only goes  *)
(* forward and then with the page allocator, reads the table of            *)
(* processors, and starts them one at a time while it holds the kernel's   *)
(* lock.  Module Kernel takes over where this one ends, and module PhysMem *)
(* starts from the free list that this one builds.                         *)
(*                                                                         *)
(* Memory is counted in pages; a virtual address is a page number from     *)
(* UTOP up, where UENVS is.  Pages have no contents but those that are     *)
(* page tables.  check_page_alloc, check_page and                          *)
(* check_page_installed_pgdir borrow pages and give them back, and         *)
(* ENV_CREATE is PhysMem's: neither changes what is modelled here.         *)
(***************************************************************************)
EXTENDS Naturals, Sequences, FiniteSets

CONSTANTS
    Machines,       \* the machines to boot, see MachineType
    NCPU,           \* entries of cpus[]
    PT,             \* pages that a page table maps (PTSIZE)
    KSTKSIZE, KSTKGAP,
    MPENTRY,        \* PGNUM(MPENTRY_PADDR)
    IOPHYSMEM, EXTPHYSMEM,
    EXT16MEM,       \* 16 MB
    END,            \* the first page behind the kernel's image
    KERN_PAGES,     \* pages that fit above KERNBASE
    INFOS_PER_PAGE, \* struct PageInfo in a page
    ENVS_PAGES,     \* pages of the array envs
    LAPIC_PAGE,     \* where the local APICs are in physical memory
    ENVIRONMENTS,   \* how many ENV_CREATE there are
    NULL

\* What the NVRAM says of the memory, and the MP table: the sequence of its
\* entries, or NULL when mpconfig finds no valid one.
MachineType == [base : Nat, ext : Nat, ext16 : Nat,
                table : Seq({"boot", "proc", "bus", "unknown"}) \cup {NULL}]

IsProcessor(e) == e \in {"boot", "proc"}

Ptes == [page : Nat, w : BOOLEAN, u : BOOLEAN]

ASSUME BootConstants ==
    /\ Machines \subseteq MachineType
    /\ {NCPU, PT, KSTKSIZE, KSTKGAP, MPENTRY, INFOS_PER_PAGE, ENVS_PAGES} \subseteq Nat \ {0}
    /\ {IOPHYSMEM, EXTPHYSMEM, EXT16MEM, END, KERN_PAGES, LAPIC_PAGE, ENVIRONMENTS} \subseteq Nat
    /\ NULL \notin Nat \cup Ptes

\* The kernel's: cpu.h:20 and mp_init take the position of a processor in the table for its
\* APIC id, and trap_init takes the boot processor for CPU 0.
ASSUME BootAssumption ==
    /\ \A m \in Machines : m.table # NULL =>
        \A j \in DOMAIN m.table : IsProcessor(m.table[j]) =>
            (m.table[j] = "boot" <=> \A k \in 1 .. j - 1 : ~IsProcessor(m.table[k]))
    \* page2kva reaches no further, and base memory ends where the hole begins
    /\ \A m \in Machines :
        EXT16MEM + m.ext16 <= KERN_PAGES /\ EXTPHYSMEM + m.ext <= KERN_PAGES /\ m.base <= IOPHYSMEM
    \* memlayout.h gives PTSIZE to each of UPAGES, UENVS and the stacks, and whole
    \* page tables to what is above KERNBASE
    /\ KERN_PAGES <= PT * INFOS_PER_PAGE /\ ENVS_PAGES <= PT /\ NCPU * (KSTKSIZE + KSTKGAP) <= PT
    /\ KERN_PAGES % PT = 0
    /\ MPENTRY < IOPHYSMEM /\ IOPHYSMEM < EXTPHYSMEM
    /\ EXTPHYSMEM + (NCPU + 1) * KSTKSIZE <= END /\ END < PT

HwCPUs == 0 .. NCPU     \* APIC ids; one processor more than cpus[] has room for
BSP    == 0

UENVS     == 0
UPAGES    == UENVS + PT
UVPT      == UPAGES + PT
MMIOBASE  == UVPT + PT
MMIOLIM   == MMIOBASE + PT
KSTACKTOP == MMIOLIM + PT
KERNBASE  == KSTACKTOP
Pdx       == 0 .. (KERNBASE + KERN_PAGES) \div PT - 1

bootstack         == EXTPHYSMEM             \* both are in the kernel's image
percpu_kstacks(i) == bootstack + (i + 1) * KSTKSIZE

VARIABLES
    machine,
    npages,
    mem,            \* the kernel's memory, see EmptyMemory
    regions,        \* what mem_init has still to map
    lapicaddr,      \* is there a local APIC to map?
    lapic,          \* the address it is mapped at
    entry,          \* mp_init's i
    ismp, bootcpu, ncpu,
    cpu_id, cpu_status,     \* of cpus[]
    ap,             \* boot_aps's c
    mpentry_kstack, \* the stack for the CPU that is being started
    pc, cr3, esp,   \* of each processor: where it is, its directory and stack
    tr,             \* the slot of the gdt that ltr has loaded
    gdt,            \* gdt[(GD_TSS0 >> 3) + i]: the CpuInfo that holds the TSS
    ts_esp0,        \* cpus[].cpu_ts.ts_esp0
    ipi,            \* STARTUP interrupts on their way to a processor
    kernel_lock,    \* the processor that has it
    created, running        \* environments created, and given to a CPU

memory  == <<npages, mem, regions>>
mpVars  == <<entry, ismp, bootcpu, ncpu, cpu_id>>
apVars  == <<ap, mpentry_kstack, ipi>>
tssVars == <<tr, gdt, ts_esp0>>
envVars == <<created, running>>
vars == <<machine, npages, mem, regions, lapicaddr, lapic, entry, ismp,
          bootcpu, ncpu, cpu_id, cpu_status, ap, mpentry_kstack, pc, cr3, esp,
          tr, gdt, ts_esp0, ipi, kernel_lock, created, running>>

EmptyMemory ==
    [nextfree |-> END,          \* boot_alloc's
     pages |-> NULL, envs |-> NULL, kern_pgdir |-> NULL,
     page_free_list |-> <<>>,
     linked |-> 0,              \* page_init's i
     pp1 |-> <<>>, pp2 |-> <<>>,    \* check_page_free_list's
     pgdir |-> [x \in Pdx |-> NULL],    \* the contents of kern_pgdir
     table |-> [p \in {} |-> NULL],     \* and those of its tables
     mmio |-> MMIOBASE]         \* mmio_map_region's base

\* The BSS is zero; entry.S has loaded entry_pgdir and bootstacktop.
Init ==
    /\ machine \in Machines
    /\ npages = 0
    /\ mem = EmptyMemory
    /\ regions = <<>>
    /\ lapicaddr = FALSE /\ lapic = NULL
    /\ entry = 1 /\ ismp = FALSE /\ bootcpu = 0 /\ ncpu = 0
    /\ cpu_id = [i \in 0 .. NCPU - 1 |-> 0]
    /\ cpu_status = [i \in 0 .. NCPU - 1 |-> "UNUSED"]
    /\ ap = 0 /\ mpentry_kstack = NULL
    /\ pc = [c \in HwCPUs |-> IF c = BSP THEN "detect" ELSE "parked"]
    /\ cr3 = [c \in HwCPUs |-> IF c = BSP THEN "entry_pgdir" ELSE NULL]
    /\ esp = [c \in HwCPUs |-> IF c = BSP THEN bootstack ELSE NULL]
    /\ tr = [c \in HwCPUs |-> NULL]
    /\ gdt = [i \in 0 .. NCPU - 1 |-> NULL]
    /\ ts_esp0 = [i \in 0 .. NCPU - 1 |-> NULL]
    /\ ipi = [c \in HwCPUs |-> 0]
    /\ kernel_lock = NULL
    /\ created = 0 /\ running = 0

Goto(c, p) == pc' = [pc EXCEPT ![c] = p]
At(c, p, q) == pc[c] = p /\ Goto(c, q)

-----------------------------------------------------------------------------
(* pmap.c, as operators on the memory m.                                   *)

Pages(n, perPage) == (n + perPage - 1) \div perPage     \* ROUNDUP

\* The kernel's, or mem_init would fault: entry_pgdir reaches all that boot_alloc
\* gives out, however much memory there is, and enough of the free pages for the
\* tables of mem_init.
ASSUME LowMemory ==
    LET nextfree == END + 1 + Pages(KERN_PAGES, INFOS_PER_PAGE) + ENVS_PAGES
    IN  /\ nextfree <= PT
        /\ 3 + KERN_PAGES \div PT <= (IOPHYSMEM - 2) + (PT - nextfree)

\* boot_alloc of n things of which perPage fit in a page.  The test is >=: an
\* allocation that ends where the memory ends is refused.
BootAllocPanics(m, n, perPage) == m.nextfree * perPage + n >= npages * perPage

BootAlloc(m, n, perPage) == [m EXCEPT !.nextfree = @ + Pages(n, perPage)]

\* Mistake: nobody thinks of the page that mpentry.S is going to be copied to.
InUseButMpentry(m, i) ==
    \/ i = 0
    \/ i \in IOPHYSMEM .. EXTPHYSMEM - 1
    \/ i \in EXTPHYSMEM .. m.nextfree - 1

\* The pages that page_init leaves out of the free list.
InUse(m, i) ==
    \/ i = 0
    \/ i = MPENTRY
    \/ i \in IOPHYSMEM .. EXTPHYSMEM - 1
    \/ i \in EXTPHYSMEM .. m.nextfree - 1

\* A round of page_init, which goes up and pushes in front.
LinkPage(m) ==
    [m EXCEPT !.linked = @ + 1,
              !.page_free_list = IF InUse(m, m.linked) THEN @ ELSE <<m.linked>> \o @]

InEntryPgdir(p) == p < PT

\* Mistake: pdx_limit is NPDENTRIES, and every page is low.
MovePageAllLow(m) ==
    [m EXCEPT !.page_free_list = Tail(@), !.pp1 = Append(@, Head(m.page_free_list))]

\* A round of check_page_free_list(1): the pages that entry_pgdir maps go to one
\* list and the others to another.
MovePage(m) ==
    LET p == Head(m.page_free_list)
    IN  [m EXCEPT !.page_free_list = Tail(@),
                  !.pp1 = IF InEntryPgdir(p) THEN Append(@, p) ELSE @,
                  !.pp2 = IF InEntryPgdir(p) THEN @ ELSE Append(@, p)]

\* The free list is then the first list followed by the second.
LowFirst(m) ==
    [m EXCEPT !.page_free_list = m.pp1 \o m.pp2, !.pp1 = <<>>, !.pp2 = <<>>]

\* The assertions of check_page_free_list.
FreeListPlausible(m) ==
    LET free == {m.page_free_list[k] : k \in DOMAIN m.page_free_list}
    IN  /\ \A p \in free :
            /\ p \notin {0, MPENTRY, IOPHYSMEM, EXTPHYSMEM - 1, EXTPHYSMEM}
            /\ p < EXTPHYSMEM \/ p >= m.nextfree
        /\ \E p \in free : p < EXTPHYSMEM
        /\ \E p \in free : p >= EXTPHYSMEM

\* pgdir_walk(create): page_alloc gives the head of the list to a missing table.
PgdirWalkFails(m, va) == m.pgdir[va \div PT] = NULL /\ m.page_free_list = <<>>

PgdirWalk(m, va) ==
    IF m.pgdir[va \div PT] # NULL THEN m
    ELSE LET t == Head(m.page_free_list)
         IN  [m EXCEPT
                !.page_free_list = Tail(@),
                !.pgdir[va \div PT] = [page |-> t, w |-> TRUE, u |-> TRUE],
                !.table = [p \in DOMAIN @ \cup {t} |->
                            IF p = t THEN [x \in 0 .. PT - 1 |-> NULL] ELSE @[p]]]

\* One round of boot_map_region.  The entry is always a new one: page_remove
\* finds nothing.
MapPage(m, va, pte) ==
    LET m1 == PgdirWalk(m, va)
    IN  [m1 EXCEPT !.table[m1.pgdir[va \div PT].page][va % PT] = pte]

\* check_va2pa: what an address above UTOP translates to.
Va2pa(va) ==
    LET pde == mem.pgdir[va \div PT]
    IN  IF pde = NULL THEN NULL ELSE mem.table[pde.page][va % PT]

\* Mistake: the stacks are laid one against the other.
StackTopNoGap(i) == KSTACKTOP - i * KSTKSIZE

StackTop(i) == KSTACKTOP - i * (KSTKSIZE + KSTKGAP)

\* The calls of boot_map_region in mem_init, and those of mem_init_mp.
Region(va, size, pa, w, u) == [va |-> va, size |-> size, pa |-> pa, w |-> w, u |-> u]

StackRegion(i) ==
    Region(StackTop(i) - KSTKSIZE, KSTKSIZE, percpu_kstacks(i), TRUE, FALSE)

BootRegions(m) ==
    <<Region(UPAGES, Pages(npages, INFOS_PER_PAGE), m.pages, FALSE, TRUE),
      Region(UENVS, ENVS_PAGES, m.envs, FALSE, TRUE),
      Region(KERNBASE, KERN_PAGES, 0, TRUE, FALSE)>>
    \o [k \in 1 .. NCPU |-> StackRegion(k - 1)]

-----------------------------------------------------------------------------
(* mem_init, on the boot processor.                                        *)

Panics(c) == Goto(c, "panic")

\* i386_detect_memory
DetectMemory ==
    /\ At(BSP, "detect", "alloc_pgdir")
    /\ npages' = IF machine.ext16 > 0 THEN EXT16MEM + machine.ext16
                 ELSE IF machine.ext > 0 THEN EXTPHYSMEM + machine.ext
                 ELSE machine.base
    /\ UNCHANGED <<machine, mem, regions, lapicaddr, lapic, mpVars, cpu_status,
                   apVars, cr3, esp, tssVars, kernel_lock, envVars>>

MemUnchanged ==
    UNCHANGED <<machine, npages, lapicaddr, lapic, mpVars, cpu_status, apVars,
                esp, tssVars, kernel_lock, envVars>>

\* kern_pgdir, with itself as the table of UVPT
AllocPgdir ==
    /\ pc[BSP] = "alloc_pgdir"
    /\ IF BootAllocPanics(mem, 1, 1)
       THEN Panics(BSP) /\ UNCHANGED mem
       ELSE /\ Goto(BSP, "alloc_pages")
            /\ mem' = [BootAlloc(mem, 1, 1) EXCEPT
                        !.kern_pgdir = mem.nextfree,
                        !.pgdir[UVPT \div PT] =
                            [page |-> mem.nextfree, w |-> FALSE, u |-> TRUE]]
    /\ UNCHANGED <<regions, cr3>> /\ MemUnchanged

AllocPages ==
    /\ pc[BSP] = "alloc_pages"
    /\ IF BootAllocPanics(mem, npages, INFOS_PER_PAGE)
       THEN Panics(BSP) /\ UNCHANGED mem
       ELSE /\ Goto(BSP, "alloc_envs")
            /\ mem' = [BootAlloc(mem, npages, INFOS_PER_PAGE) EXCEPT
                        !.pages = mem.nextfree]
    /\ UNCHANGED <<regions, cr3>> /\ MemUnchanged

AllocEnvs ==
    /\ pc[BSP] = "alloc_envs"
    /\ IF BootAllocPanics(mem, ENVS_PAGES, 1)
       THEN Panics(BSP) /\ UNCHANGED mem
       ELSE /\ Goto(BSP, "page_init")
            /\ mem' = [BootAlloc(mem, ENVS_PAGES, 1) EXCEPT !.envs = mem.nextfree]
    /\ UNCHANGED <<regions, cr3>> /\ MemUnchanged

LinkFreePages ==
    /\ pc[BSP] = "page_init"
    /\ IF mem.linked < npages
       THEN mem' = LinkPage(mem) /\ UNCHANGED pc
       ELSE Goto(BSP, "sort") /\ UNCHANGED mem
    /\ UNCHANGED <<regions, cr3>> /\ MemUnchanged

SortFreePages ==
    /\ pc[BSP] = "sort"
    /\ IF mem.page_free_list # <<>>
       THEN mem' = MovePage(mem) /\ UNCHANGED pc
       ELSE mem' = LowFirst(mem) /\ Goto(BSP, "check_free_list")
    /\ UNCHANGED <<regions, cr3>> /\ MemUnchanged

CheckFreeList ==
    /\ pc[BSP] = "check_free_list"
    /\ Goto(BSP, IF FreeListPlausible(mem) THEN "map" ELSE "panic")
    /\ regions' = BootRegions(mem)
    /\ UNCHANGED <<mem, cr3>> /\ MemUnchanged

\* The loop of boot_map_region, over the calls that are left.
MapRegion ==
    /\ pc[BSP] = "map" /\ regions # <<>>
    /\ LET r == Head(regions)
           next == [r EXCEPT !.va = @ + 1, !.pa = @ + 1, !.size = @ - 1]
       IN  IF PgdirWalkFails(mem, r.va)
           THEN Panics(BSP) /\ UNCHANGED <<mem, regions>>
           ELSE /\ mem' = MapPage(mem, r.va, [page |-> r.pa, w |-> r.w, u |-> r.u])
                /\ regions' = (IF r.size = 1 THEN <<>> ELSE <<next>>) \o Tail(regions)
                /\ UNCHANGED pc
    /\ UNCHANGED cr3 /\ MemUnchanged

\* The assertions of check_kern_pgdir.
KernPgdirPlausible ==
    /\ \A i \in 0 .. Pages(npages, INFOS_PER_PAGE) - 1 :
        Va2pa(UPAGES + i) # NULL /\ Va2pa(UPAGES + i).page = mem.pages + i
    /\ \A i \in 0 .. ENVS_PAGES - 1 :
        Va2pa(UENVS + i) # NULL /\ Va2pa(UENVS + i).page = mem.envs + i
    /\ \A i \in 0 .. npages - 1 :
        Va2pa(KERNBASE + i) # NULL /\ Va2pa(KERNBASE + i).page = i
    /\ \A k \in 0 .. NCPU - 1 :
        LET base == KSTACKTOP - (KSTKSIZE + KSTKGAP) * (k + 1)
        IN  /\ \A i \in 0 .. KSTKSIZE - 1 :
                /\ Va2pa(base + KSTKGAP + i) # NULL
                /\ Va2pa(base + KSTKGAP + i).page = percpu_kstacks(k) + i
            /\ \A i \in 0 .. KSTKGAP - 1 : Va2pa(base + i) = NULL
    /\ mem.pgdir[UVPT \div PT] # NULL

CheckKernPgdir ==
    /\ pc[BSP] = "map" /\ regions = <<>>
    /\ Goto(BSP, IF KernPgdirPlausible THEN "lcr3" ELSE "panic")
    /\ UNCHANGED <<mem, regions, cr3>> /\ MemUnchanged

\* lcr3(PADDR(kern_pgdir)) in mp_main and in mem_init, where
\* check_page_free_list(0) comes after it
LoadKernPgdir(c) ==
    /\ pc[c] = "lcr3"
    /\ cr3' = [cr3 EXCEPT ![c] = "kern_pgdir"]
    /\ Goto(c, IF c # BSP THEN "lapic_map"
               ELSE IF FreeListPlausible(mem) THEN "trap_init" ELSE "panic")
    /\ UNCHANGED <<mem, regions>> /\ MemUnchanged

-----------------------------------------------------------------------------
(* Both the boot processor and the others.                                 *)

\* Once the local APIC is mapped the processor's id, otherwise 0.
cpunum(c) == IF lapic = NULL THEN 0 ELSE c

\* trap_init_percpu: the TSS of thiscpu in the slot of its cpu_id, and ltr.
\* trap_init calls it before mp_init has run.
TrapInitPercpu(c) ==
    /\ At(c, "trap_init", IF c = BSP THEN "mp_init" ELSE "started")
    /\ LET i == cpunum(c)
       IN  /\ ts_esp0' = [ts_esp0 EXCEPT ![i] = StackTop(cpu_id[i])]
           /\ gdt' = [gdt EXCEPT ![cpu_id[i]] = i]
           /\ tr' = [tr EXCEPT ![c] = cpu_id[i]]
    /\ UNCHANGED <<machine, memory, lapicaddr, lapic, mpVars, cpu_status,
                   apVars, cr3, esp, kernel_lock, envVars>>

\* lapic_init, first half: mmio_map_region takes the next page of the MMIO
\* region.  Its test is >= as well.
MapLapic(c) ==
    /\ pc[c] = "lapic_map"
    /\ IF ~lapicaddr THEN Goto(c, "lock") /\ UNCHANGED mem
       ELSE IF mem.mmio + 1 >= MMIOLIM \/ PgdirWalkFails(mem, mem.mmio)
       THEN Panics(c) /\ UNCHANGED mem
       ELSE /\ Goto(c, "lapic_set")
            /\ mem' = [MapPage(mem, mem.mmio,
                               [page |-> LAPIC_PAGE, w |-> TRUE, u |-> FALSE])
                        EXCEPT !.mmio = @ + 1]
    /\ UNCHANGED <<machine, npages, regions, lapicaddr, lapic, mpVars, cpu_status,
                   apVars, cr3, esp, tssVars, kernel_lock, envVars>>

\* Second half: the pointer all processors share moves to the new page.
SetLapic(c) ==
    /\ At(c, "lapic_set", IF c = BSP THEN "lock" ELSE "trap_init")
    /\ lapic' = mem.mmio - 1
    /\ UNCHANGED <<machine, memory, lapicaddr, mpVars, cpu_status, apVars, cr3,
                   esp, tssVars, kernel_lock, envVars>>

\* Mistake: the boot processor starts the others before it has the lock.
LockKernelNotByBoot(c) ==
    /\ pc[c] = "lock"
    /\ Goto(c, IF c = BSP THEN "boot_aps" ELSE "sched")
    /\ IF c = BSP THEN UNCHANGED kernel_lock
       ELSE kernel_lock = NULL /\ kernel_lock' = c
    /\ UNCHANGED <<machine, memory, lapicaddr, lapic, mpVars, cpu_status, apVars,
                   cr3, esp, tssVars, envVars>>

\* lock_kernel() in i386_init and in mp_main
LockKernel(c) ==
    /\ At(c, "lock", IF c = BSP THEN "boot_aps" ELSE "sched")
    /\ kernel_lock = NULL
    /\ kernel_lock' = c
    /\ UNCHANGED <<machine, memory, lapicaddr, lapic, mpVars, cpu_status, apVars,
                   cr3, esp, tssVars, envVars>>

\* sched_yield: env_run, whose unlock_kernel lets the next processor in.
RunEnv(c) ==
    /\ At(c, "sched", "up")
    /\ running < created
    /\ running' = running + 1
    /\ kernel_lock' = NULL
    /\ UNCHANGED <<machine, memory, lapicaddr, lapic, mpVars, cpu_status, apVars,
                   cr3, esp, tssVars, created>>

\* sched_halt: with nothing left to pick the processor halts and lets the next
\* one in; with no environment at all it stays in the monitor, with the lock.
Halt(c) ==
    /\ pc[c] = "sched"
    /\ running = created
    /\ IF created = 0
       THEN Goto(c, "monitor") /\ UNCHANGED <<cpu_status, kernel_lock>>
       ELSE /\ Goto(c, "up")
            /\ cpu_status' = [cpu_status EXCEPT ![cpunum(c)] = "HALTED"]
            /\ kernel_lock' = NULL
    /\ UNCHANGED <<machine, memory, lapicaddr, lapic, mpVars, apVars, cr3, esp,
                   tssVars, envVars>>

-----------------------------------------------------------------------------
(* mp_init, on the boot processor.                                         *)

MpUnchanged ==
    UNCHANGED <<machine, memory, lapic, apVars, cr3, esp, tssVars,
                kernel_lock, envVars>>

\* mpconfig finds no table, or one it does not trust: ncpu stays 0.
MpNoTable ==
    /\ At(BSP, "mp_init", "lapic_map")
    /\ machine.table = NULL
    /\ UNCHANGED <<lapicaddr, mpVars, cpu_status>> /\ MpUnchanged

MpTable ==
    /\ At(BSP, "mp_init", "mp_entry")
    /\ machine.table # NULL
    /\ ismp' = TRUE /\ lapicaddr' = TRUE
    /\ UNCHANGED <<entry, bootcpu, ncpu, cpu_id, cpu_status>> /\ MpUnchanged

InTable == pc[BSP] = "mp_entry" /\ entry <= Len(machine.table)

\* A processor has the entry of cpus[] that comes next, if there is one.
MpProc ==
    /\ InTable /\ IsProcessor(machine.table[entry])
    /\ entry' = entry + 1
    /\ bootcpu' = IF machine.table[entry] = "boot" THEN ncpu ELSE bootcpu
    /\ IF ncpu < NCPU
       THEN cpu_id' = [cpu_id EXCEPT ![ncpu] = ncpu] /\ ncpu' = ncpu + 1
       ELSE UNCHANGED <<cpu_id, ncpu>>
    /\ UNCHANGED <<pc, lapicaddr, ismp, cpu_status>> /\ MpUnchanged

MpOther ==
    /\ InTable /\ machine.table[entry] = "bus"
    /\ entry' = entry + 1
    /\ UNCHANGED <<pc, lapicaddr, ismp, bootcpu, ncpu, cpu_id, cpu_status>>
    /\ MpUnchanged

\* The rest of the table is not read.
MpUnknown ==
    /\ InTable /\ machine.table[entry] = "unknown"
    /\ entry' = Len(machine.table) + 1
    /\ ismp' = FALSE
    /\ UNCHANGED <<pc, lapicaddr, bootcpu, ncpu, cpu_id, cpu_status>> /\ MpUnchanged

MpDone ==
    /\ At(BSP, "mp_entry", "lapic_map")
    /\ entry > Len(machine.table)
    /\ cpu_status' = [cpu_status EXCEPT ![bootcpu] = "STARTED"]
    /\ lapicaddr' = ismp
    /\ ncpu' = IF ismp THEN ncpu ELSE 1
    /\ UNCHANGED <<entry, ismp, bootcpu, cpu_id>> /\ MpUnchanged

-----------------------------------------------------------------------------
(* boot_aps, on the boot processor, and the others as they come up.        *)

ApUnchanged ==
    UNCHANGED <<machine, memory, lapicaddr, lapic, mpVars, tssVars, kernel_lock>>

\* for (c = cpus; ...) if (c == cpus + cpunum()) continue;
SkipSelf ==
    /\ pc[BSP] = "boot_aps" /\ ap < ncpu /\ ap = cpunum(BSP)
    /\ ap' = ap + 1
    /\ UNCHANGED <<mpentry_kstack, ipi, pc, cr3, esp, cpu_status, envVars>>
    /\ ApUnchanged

\* Tell mpentry.S which stack, and lapic_startap: STARTUP is sent twice.
StartAp ==
    /\ ap < ncpu /\ ap # cpunum(BSP)
    /\ At(BSP, "boot_aps", "wait")
    /\ mpentry_kstack' = percpu_kstacks(ap)
    /\ ipi' = [ipi EXCEPT ![cpu_id[ap]] = 2]
    /\ UNCHANGED <<ap, cr3, esp, cpu_status, envVars>> /\ ApUnchanged

\* Mistake: the next one is started without waiting.
WaitStartedNot ==
    /\ At(BSP, "wait", "boot_aps")
    /\ ap' = ap + 1
    /\ UNCHANGED <<mpentry_kstack, ipi, cr3, esp, cpu_status, envVars>>
    /\ ApUnchanged

\* while (c->cpu_status != CPU_STARTED)
WaitStarted ==
    /\ At(BSP, "wait", "boot_aps")
    /\ cpu_status[ap] = "STARTED"
    /\ ap' = ap + 1
    /\ UNCHANGED <<mpentry_kstack, ipi, cr3, esp, cpu_status, envVars>>
    /\ ApUnchanged

\* An interrupt arrives when it does.  A processor that already runs is not
\* started again.
Startup(c) ==
    /\ ipi[c] > 0
    /\ ipi' = [ipi EXCEPT ![c] = @ - 1]
    /\ IF pc[c] = "parked" THEN Goto(c, "mpentry") ELSE UNCHANGED pc
    /\ UNCHANGED <<ap, mpentry_kstack, cr3, esp, cpu_status, envVars>>
    /\ ApUnchanged

\* mpentry.S: entry_pgdir, then the stack, then mp_main
EntryPgdir(c) ==
    /\ At(c, "mpentry", "mpentry_esp")
    /\ cr3' = [cr3 EXCEPT ![c] = "entry_pgdir"]
    /\ UNCHANGED <<apVars, esp, cpu_status, envVars>> /\ ApUnchanged

TakeStack(c) ==
    /\ At(c, "mpentry_esp", "lcr3")
    /\ esp' = [esp EXCEPT ![c] = mpentry_kstack]
    /\ UNCHANGED <<apVars, cr3, cpu_status, envVars>> /\ ApUnchanged

\* xchg(&thiscpu->cpu_status, CPU_STARTED), before mp_main asks for the lock
Started(c) ==
    /\ At(c, "started", "lock")
    /\ cpu_status' = [cpu_status EXCEPT ![cpunum(c)] = "STARTED"]
    /\ UNCHANGED <<apVars, cr3, esp, envVars>> /\ ApUnchanged

\* The ENV_CREATEs of i386_init.
CreateEnvs ==
    /\ ap >= ncpu
    /\ At(BSP, "boot_aps", "sched")
    /\ created' = ENVIRONMENTS
    /\ UNCHANGED <<apVars, cr3, esp, cpu_status, running>> /\ ApUnchanged

-----------------------------------------------------------------------------
MemInit ==
    \/ DetectMemory \/ AllocPgdir \/ AllocPages \/ AllocEnvs \/ LinkFreePages
    \/ SortFreePages \/ CheckFreeList \/ MapRegion \/ CheckKernPgdir

MpInit == MpNoTable \/ MpTable \/ MpProc \/ MpOther \/ MpUnknown \/ MpDone

BootAps == SkipSelf \/ StartAp \/ WaitStarted \/ CreateEnvs

Cpu(c) ==
    \/ LoadKernPgdir(c) \/ TrapInitPercpu(c) \/ MapLapic(c) \/ SetLapic(c)
    \/ LockKernel(c) \/ RunEnv(c) \/ Halt(c)
    \/ EntryPgdir(c) \/ TakeStack(c) \/ Started(c)

CpusOfKernel == 0 .. (IF ncpu = 0 THEN 0 ELSE ncpu - 1)
AllUp == \A c \in CpusOfKernel : pc[c] = "up"

Next ==
    \/ MemInit \/ MpInit \/ BootAps
    \/ \E c \in HwCPUs : Cpu(c) \/ Startup(c)

\* Every processor runs, and the interrupts it is sent arrive.
Fairness ==
    /\ WF_vars(MemInit \/ MpInit \/ BootAps)
    /\ \A c \in HwCPUs : WF_vars(Cpu(c)) /\ WF_vars(Startup(c))

Spec == Init /\ [][Next]_vars /\ Fairness

-----------------------------------------------------------------------------
(* Properties.                                                             *)

FreePages == {mem.page_free_list[k] : k \in DOMAIN mem.page_free_list}

\* page_init (pmap.c:291): whatever boot_alloc has handed out before, no page
\* that something uses is ever free: the real-mode page, the one mpentry.S runs
\* from, the I/O hole, the kernel with its stacks, the boot allocations, and
\* later the page tables that page_alloc took from the list.
FreeListClean ==
    /\ \A p \in FreePages :
        /\ p \in 1 .. npages - 1
        /\ p # MPENTRY /\ p \notin IOPHYSMEM .. EXTPHYSMEM - 1
        /\ p \notin EXTPHYSMEM .. mem.nextfree - 1
        /\ p \notin DOMAIN mem.table
    /\ Cardinality(FreePages) = Len(mem.page_free_list)

\* check_page_free_list (pmap.c:703): up to the lcr3 of mem_init the kernel
\* reaches 4 MB of memory, and it writes to each of its tables and arrays.
WritesReachable ==
    cr3[BSP] = "entry_pgdir" =>
        /\ \A p \in DOMAIN mem.table : InEntryPgdir(p)
        /\ mem.page_free_list # <<>> => mem.nextfree <= PT

\* memlayout.h:21-83: from the lcr3 of mem_init on, through the mappings that
\* the processors add for their APICs, every region above UTOP is where it
\* should be, with its permissions, and what is under a stack is not mapped.
LayoutHolds ==
    (pc[BSP] = "map" /\ regions = <<>>) \/ cr3[BSP] = "kern_pgdir" =>
        /\ KernPgdirPlausible
        /\ mem.pgdir[UVPT \div PT].page = mem.kern_pgdir
        /\ \A va \in 0 .. KERNBASE + KERN_PAGES - 1 :
            va \notin UVPT .. MMIOBASE - 1 /\ Va2pa(va) # NULL =>
                /\ Va2pa(va).u <=> (va < UVPT)
                /\ Va2pa(va).w <=> (va >= MMIOBASE)
        /\ lapic # NULL => Va2pa(lapic) # NULL /\ Va2pa(lapic).page = LAPIC_PAGE

\* The pages of the stack that a processor is on, and of the one its TSS
\* names for traps.
StackPages(c) ==
    (IF esp[c] = NULL THEN {} ELSE esp[c] .. esp[c] + KSTKSIZE - 1)
    \cup (IF tr[c] = NULL THEN {}
          ELSE {Va2pa(va).page :
                va \in ts_esp0[gdt[tr[c]]] - KSTKSIZE .. ts_esp0[gdt[tr[c]]] - 1})

\* boot_aps and trap_init_percpu (init.c:83, trap.c:140): no two processors
\* ever use the same stack, although all read theirs from one variable.
StacksPrivate ==
    \A c, d \in HwCPUs : c # d => StackPages(c) \cap StackPages(d) = {}

\* i386_init (init.c:47-81): a machine with enough memory ends up with every
\* processor that mp_init has counted out of the kernel, running or halted; none
\* waits for ever for the lock, for the one it has started, or in the monitor.
Adequate ==
    IF machine.ext16 > 0 THEN EXT16MEM + machine.ext16 >= PT
    ELSE EXTPHYSMEM + machine.ext >= PT

Boots == Adequate => <>AllUp
=============================================================================
