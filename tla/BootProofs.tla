----------------------------- MODULE BootProofs -----------------------------
(***************************************************************************)
(* Proofs about Boot, for any machines, any size of cpus[] and any layout  *)
(* that BootConstants and BootAssumption admit; LowMemory is only used     *)
(* for WritesReachable.                                                    *)
(*                                                                         *)
(* The first half follows the functions of pmap.c on a memory m, the       *)
(* second half the processors.                                             *)
(***************************************************************************)
EXTENDS Boot, FiniteSetTheorems, SequenceTheorems, TLAPS

\* kern_pgdir and its tables.  The entry of UVPT leads back to kern_pgdir, and
\* no address in its 4 MB is looked at.
Tablas   == [0 .. PT - 1 -> Ptes \cup {NULL}]
Memorias == [nextfree : Nat, pages : Nat \cup {NULL}, envs : Nat \cup {NULL},
             kern_pgdir : Nat \cup {NULL}, page_free_list : Seq(Nat), linked : Nat,
             pp1 : Seq(Nat), pp2 : Seq(Nat), pgdir : [Pdx -> Ptes \cup {NULL}],
             table : UNION {[D -> Tablas] : D \in SUBSET Nat}, mmio : Nat]
Regiones == [va : Nat, size : Nat \ {0}, pa : Nat, w : BOOLEAN, u : BOOLEAN]

RANURA   == UVPT \div PT
Vas      == (0 .. UVPT - 1) \cup (MMIOBASE .. KERNBASE + KERN_PAGES - 1)
Ve(m, va) ==
    IF m.pgdir[va \div PT] = NULL THEN NULL ELSE m.table[m.pgdir[va \div PT].page][va % PT]

Distintas(s) == \A j, k \in DOMAIN s : s[j] = s[k] => j = k
Ajenas(s, t) == \A j \in DOMAIN s, k \in DOMAIN t : s[j] # t[k]

Limpia(m, np, p) ==
    /\ p \in 1 .. np - 1
    /\ p # MPENTRY /\ p \notin IOPHYSMEM .. EXTPHYSMEM - 1
    /\ p \notin EXTPHYSMEM .. m.nextfree - 1
    /\ p \notin DOMAIN m.table
Limpias(m, np, s) == \A k \in DOMAIN s : Limpia(m, np, s[k])

\* The free list, and the two that it is split into.
Listas(m, np) ==
    /\ Limpias(m, np, m.page_free_list) /\ Limpias(m, np, m.pp1) /\ Limpias(m, np, m.pp2)
    /\ Distintas(m.page_free_list) /\ Distintas(m.pp1) /\ Distintas(m.pp2)
    /\ Ajenas(m.page_free_list, m.pp1) /\ Ajenas(m.page_free_list, m.pp2)
    /\ Ajenas(m.pp1, m.pp2)

\* Every page table has one entry of kern_pgdir.
Directorio(m) ==
    /\ m.pgdir[RANURA] =
        IF m.kern_pgdir = NULL THEN NULL ELSE [page |-> m.kern_pgdir, w |-> FALSE, u |-> TRUE]
    /\ \A x \in Pdx \ {RANURA} : m.pgdir[x] # NULL => m.pgdir[x].page \in DOMAIN m.table
    /\ \A x, y \in Pdx \ {RANURA} :
        m.pgdir[x] # NULL /\ m.pgdir[y] # NULL /\ m.pgdir[x].page = m.pgdir[y].page => x = y

\* A region maps its addresses; when a page of it has been mapped the rest of
\* it is a region too.
En(r, va)  == r.va <= va /\ va < r.va + r.size
Pte(r, va) == [page |-> r.pa + (va - r.va), w |-> r.w, u |-> r.u]

\* Between two rounds of boot_map_region: every address of the regions B is
\* mapped as they say or is still to be, in rs, and nothing else is mapped but
\* what the local APICs have.
Mapa(B, m, rs) ==
    /\ \A k \in DOMAIN B, va \in Vas : En(B[k], va) =>
        Ve(m, va) = Pte(B[k], va) \/ \E j \in DOMAIN rs : En(rs[j], va)
    /\ \A va \in Vas : Ve(m, va) # NULL =>
        \/ \E k \in DOMAIN B : En(B[k], va) /\ Ve(m, va) = Pte(B[k], va)
        \/ va \in MMIOBASE .. m.mmio - 1
    /\ \A va \in MMIOBASE .. m.mmio - 1 :
        Ve(m, va) = [page |-> LAPIC_PAGE, w |-> TRUE, u |-> FALSE]
    /\ \A j \in DOMAIN rs : \E k \in DOMAIN B : \A va \in Nat :
        En(rs[j], va) => En(B[k], va) /\ Pte(B[k], va) = Pte(rs[j], va)

\* How far the boot processor has come.
Asignando  == {"detect", "alloc_pgdir", "alloc_pages", "alloc_envs"}
Ordenando  == {"page_init", "sort", "check_free_list"}
Arrancando == {"trap_init", "mp_init", "mp_entry", "lapic_map", "lapic_set", "lock"}
Sirviendo  == {"boot_aps", "wait", "sched", "up", "monitor"}
Lejos      == {"lock", "sched", "up", "monitor"}
Viniendo   == {"mpentry", "mpentry_esp", "lcr3", "lapic_map", "lapic_set", "trap_init", "started"}
Lugares    == Asignando \cup Ordenando \cup {"map", "lcr3"} \cup Arrancando \cup Sirviendo
              \cup Lejos \cup Viniendo \cup {"panic", "parked"}

Memoria ==
    /\ machine \in Machines /\ npages \in Nat /\ npages <= KERN_PAGES
    /\ mem \in Memorias /\ mem.nextfree >= END
    /\ regions \in Seq(Regiones)
    /\ mem.mmio \in MMIOBASE .. MMIOLIM - 1
    /\ lapic \in Nat \cup {NULL} /\ (lapic # NULL => lapic \in MMIOBASE .. mem.mmio - 1)

Fases ==
    /\ pc[BSP] \in Asignando \cup Ordenando \cup {"map", "lcr3"} \cup Arrancando \cup Sirviendo
                   \cup {"panic"}
    /\ cr3[BSP] \in {"entry_pgdir", "kern_pgdir"}
    /\ pc[BSP] \in Asignando \cup Ordenando \cup {"map", "lcr3"} => cr3[BSP] = "entry_pgdir"
    /\ pc[BSP] \in Arrancando \cup Sirviendo => cr3[BSP] = "kern_pgdir"
    /\ cr3[BSP] = "kern_pgdir" \/ pc[BSP] = "lcr3" => regions = <<>>
    /\ pc[BSP] \in Asignando =>
        mem.page_free_list = <<>> /\ mem.pp1 = <<>> /\ mem.pp2 = <<>> /\ mem.linked = 0
    /\ pc[BSP] = "page_init" =>
        /\ mem.pp1 = <<>> /\ mem.pp2 = <<>>
        /\ \A k \in DOMAIN mem.page_free_list : mem.page_free_list[k] < mem.linked
    /\ pc[BSP] \in Asignando \cup Ordenando =>
        /\ DOMAIN mem.table = {} /\ mem.mmio = MMIOBASE /\ lapic = NULL
        /\ \A x \in Pdx \ {RANURA} : mem.pgdir[x] = NULL
    /\ pc[BSP] \in {"detect", "alloc_pgdir"} => mem.kern_pgdir = NULL
    /\ pc[BSP] \notin {"detect", "alloc_pgdir", "panic"} \/ cr3[BSP] = "kern_pgdir" =>
        npages > 0 /\ mem.kern_pgdir # NULL
    /\ pc[BSP] \notin Asignando \cup {"panic"} \/ cr3[BSP] = "kern_pgdir" =>
        mem.pages # NULL /\ mem.envs # NULL
    /\ pc[BSP] = "alloc_envs" => mem.pages # NULL
    /\ pc[BSP] \in {"map", "lcr3"} \/ cr3[BSP] = "kern_pgdir" => Mapa(BootRegions(mem), mem, regions)
    /\ pc[BSP] \in {"map", "lcr3"} => mem.mmio = MMIOBASE

\* The processors.
Procesadores ==
    /\ pc \in [HwCPUs -> Lugares] /\ esp \in [HwCPUs -> Nat \cup {NULL}]
    /\ tr \in [HwCPUs -> 0 .. NCPU - 1 \cup {NULL}]
    /\ gdt \in [0 .. NCPU - 1 -> 0 .. NCPU - 1 \cup {NULL}]
    /\ ts_esp0 \in [0 .. NCPU - 1 -> Nat \cup {NULL}]
    /\ cr3 \in [HwCPUs -> {"entry_pgdir", "kern_pgdir", NULL}] /\ ipi \in [HwCPUs -> Nat]
    /\ cpu_id \in [0 .. NCPU - 1 -> 0 .. NCPU - 1] /\ entry \in Nat \ {0}
    /\ cpu_status \in [0 .. NCPU - 1 -> {"UNUSED", "STARTED", "HALTED"}]
    /\ ncpu \in 0 .. NCPU /\ bootcpu = 0 /\ ap \in 0 .. NCPU
    /\ mpentry_kstack \in Nat \cup {NULL}

BootCpu ==
    /\ cpu_id[0] = 0 /\ \A i \in 0 .. ncpu - 1 : cpu_id[i] = i
    /\ esp[BSP] = bootstack
    /\ pc[BSP] \notin Sirviendo => ap = 0
    /\ pc[BSP] \in Asignando \cup Ordenando \cup {"map", "lcr3", "trap_init", "mp_init"} =>
        ncpu = 0 /\ entry = 1
    /\ pc[BSP] = "mp_entry" => machine.table # NULL
    /\ pc[BSP] = "mp_entry" /\ entry <= Len(machine.table) =>
        (ncpu = 0 <=> \A k \in 1 .. entry - 1 : ~IsProcessor(machine.table[k]))
    /\ pc[BSP] \in {"lapic_map", "lapic_set", "lock"} \cup Sirviendo /\ ncpu > 1 => lapicaddr
    /\ pc[BSP] \in {"lock"} \cup Sirviendo /\ lapicaddr => lapic # NULL
    /\ pc[BSP] = "wait" =>
        ap \in 1 .. ncpu - 1 /\ mpentry_kstack = percpu_kstacks(ap)
    /\ \A c \in HwCPUs : pc[c] = "lapic_set" => mem.mmio > MMIOBASE

Secundario(c) ==
    /\ pc[c] \in {"parked"} \cup Viniendo \cup Lejos \cup {"panic"}
    /\ pc[c] \in Viniendo \/ (pc[c] = "parked" /\ ipi[c] > 0) => pc[BSP] = "wait" /\ ap = c
    /\ c < NCPU /\ cpu_status[c] # "UNUSED" => pc[c] \in Lejos
    /\ pc[c] \in {"trap_init", "started"} \cup Lejos => lapic # NULL
    /\ esp[c] # NULL => esp[c] = percpu_kstacks(c) /\ c < NCPU

Tss(c) ==
    tr[c] # NULL =>
        /\ tr[c] = c /\ gdt[c] = c /\ ts_esp0[c] = StackTop(c)
        /\ cr3[BSP] = "kern_pgdir"

Construccion == Memoria /\ Listas(mem, npages) /\ Directorio(mem) /\ Fases
Puesta == /\ Procesadores /\ BootCpu
          /\ \A c \in HwCPUs \ {BSP} : Secundario(c)
          /\ \A c \in HwCPUs : Tss(c)
IInv == Construccion /\ Puesta

-----------------------------------------------------------------------------
\* Arithmetic of the layout.

LEMMA Numeros ==
    /\ NCPU \in Nat \ {0} /\ PT \in Nat \ {0} /\ KSTKSIZE \in Nat \ {0}
    /\ KSTKGAP \in Nat \ {0} /\ MPENTRY \in Nat \ {0} /\ INFOS_PER_PAGE \in Nat \ {0}
    /\ ENVS_PAGES \in Nat \ {0}
    /\ IOPHYSMEM \in Nat /\ EXTPHYSMEM \in Nat /\ EXT16MEM \in Nat /\ END \in Nat
    /\ KERN_PAGES \in Nat /\ LAPIC_PAGE \in Nat /\ ENVIRONMENTS \in Nat
BY BootConstants

LEMMA NuloAparte == NULL \notin Nat /\ NULL \notin Ptes
BY BootConstants

LEMMA Monotonic ==
    ASSUME NEW d \in Nat, NEW a \in Int, NEW b \in Int, a < b
    PROVE  d * a + d <= d * b
<1>1. b - a >= 1
  OBVIOUS
<1>2. d * (b - a) >= d
  BY <1>1
<1>3. d * (b - a) = d * b - d * a
  OBVIOUS
<1> QED
  BY <1>2, <1>3

LEMMA DivMod ==
    ASSUME NEW a \in Nat
    PROVE  /\ a \div PT \in Nat /\ a % PT \in 0 .. PT - 1
           /\ a = PT * (a \div PT) + (a % PT)
<1>1. PT \in Nat /\ PT > 0
  BY Numeros
<1> QED
  BY <1>1

\* Two different addresses have different indices.
LEMMA IndicesDistintos ==
    ASSUME NEW a \in Nat, NEW b \in Nat, a \div PT = b \div PT, a % PT = b % PT
    PROVE  a = b
BY DivMod

\* The quotient is where the multiples of PT say.
LEMMA Cociente ==
    ASSUME NEW a \in Nat, NEW q \in Nat, PT * q <= a, a < PT * q + PT
    PROVE  a \div PT = q
<1> DEFINE d == a \div PT
<1>1. d \in Nat /\ PT \in Nat \ {0} /\ PT * d <= a /\ a < PT * d + PT
  BY DivMod, Numeros
<1> HIDE DEF d
<1>2. d < q => PT * d + PT <= PT * q
  BY <1>1, Monotonic
<1>3. q < d => PT * q + PT <= PT * d
  BY <1>1, Monotonic
<1>4. PT * q \in Int /\ PT * d \in Int
  BY <1>1
<1>5. d = q
  BY <1>1, <1>2, <1>3, <1>4
<1> QED
  BY <1>5 DEF d

LEMMA Direcciones ==
    /\ UENVS = 0 /\ UPAGES = PT /\ UVPT = 2 * PT /\ MMIOBASE = 3 * PT /\ MMIOLIM = 4 * PT
    /\ KSTACKTOP = 5 * PT /\ KERNBASE = 5 * PT
    /\ RANURA = 2
    /\ PT \in Nat \ {0} /\ KERN_PAGES \in Nat
    /\ (KERNBASE + KERN_PAGES) \div PT \in Nat
    /\ KERNBASE + KERN_PAGES = PT * ((KERNBASE + KERN_PAGES) \div PT)
<1>1. PT \in Nat \ {0} /\ KERN_PAGES \in Nat
  BY Numeros
<1>2. /\ UENVS = 0 /\ UPAGES = PT /\ UVPT = 2 * PT /\ MMIOBASE = 3 * PT /\ MMIOLIM = 4 * PT
      /\ KSTACKTOP = 5 * PT /\ KERNBASE = 5 * PT
  BY <1>1 DEF UENVS, UPAGES, UVPT, MMIOBASE, MMIOLIM, KSTACKTOP, KERNBASE
<1>3. RANURA = 2
  BY <1>1, <1>2, Cociente DEF RANURA
<1> DEFINE k == KERN_PAGES \div PT
           n == KERNBASE + KERN_PAGES
<1>4. k \in Nat /\ KERN_PAGES = PT * k
  BY <1>1, DivMod, BootAssumption
<1>5. n = PT * (5 + k)
  BY <1>1, <1>2, <1>4
<1>6. n \in Nat /\ 5 + k \in Nat
  BY <1>1, <1>2, <1>4
<1> HIDE DEF k, n
<1>7. n \div PT = 5 + k
  BY <1>1, <1>5, <1>6, Cociente
<1>8. n \div PT \in Nat /\ n = PT * (n \div PT)
  BY <1>5, <1>6, <1>7
<1> QED
  BY <1>1, <1>2, <1>3, <1>8 DEF n

\* An address that the proofs look at has an entry in a table, which is not
\* that of UVPT.
LEMMA VaEnTabla ==
    ASSUME NEW va \in Vas
    PROVE  va \in Nat /\ va \div PT \in Pdx \ {RANURA} /\ va % PT \in 0 .. PT - 1
<1> DEFINE d == va \div PT
           q == (KERNBASE + KERN_PAGES) \div PT
<1>1. va \in Nat /\ va < KERNBASE + KERN_PAGES /\ ~(2 * PT <= va /\ va < 3 * PT)
  BY Direcciones DEF Vas
<1>2. d \in Nat /\ va % PT \in 0 .. PT - 1 /\ va = PT * d + (va % PT) /\ PT \in Nat
  BY <1>1, DivMod, Numeros
<1>3. q \in Nat /\ KERNBASE + KERN_PAGES = PT * q
  BY Direcciones
<1> HIDE DEF d, q
<1>4. PT * d <= va /\ va < PT * d + PT /\ PT * d \in Int /\ PT * q \in Int
  BY <1>2, <1>3
<1>5. q < d => PT * q + PT <= PT * d
  BY <1>2, <1>3, Monotonic
<1>6. d < q
  BY <1>1, <1>2, <1>3, <1>4, <1>5
<1>7. d # 2
  BY <1>1, <1>2, <1>4
<1> QED
  BY <1>1, <1>2, <1>3, <1>6, <1>7, Direcciones DEF d, q, Pdx

LEMMA RanuraEnPdx == RANURA \in Pdx
<1> DEFINE q == (KERNBASE + KERN_PAGES) \div PT
<1>1. q \in Nat /\ PT \in Nat \ {0} /\ 5 * PT <= PT * q
  BY Direcciones
<1> HIDE DEF q
<1>2. q < 5 => PT * q + PT <= PT * 5
  BY <1>1, Monotonic
<1>3. q >= 5
  BY <1>1, <1>2
<1> QED
  BY <1>1, <1>3, Direcciones DEF q, Pdx

-----------------------------------------------------------------------------
\* Lists of pages.

LEMMA TailParts ==
    ASSUME NEW s \in Seq(Nat), s # <<>>
    PROVE  /\ Head(s) \in Nat /\ Head(s) = s[1] /\ 1 \in DOMAIN s
           /\ Tail(s) \in Seq(Nat)
           /\ \A k \in DOMAIN Tail(s) : k + 1 \in DOMAIN s /\ Tail(s)[k] = s[k + 1] /\ k + 1 # 1
<1>1. /\ Len(s) \in Nat /\ Len(s) >= 1 /\ DOMAIN s = 1 .. Len(s)
      /\ Head(s) = s[1] /\ Tail(s) \in Seq(Nat)
      /\ DOMAIN Tail(s) = 1 .. Len(s) - 1
      /\ \A k \in 1 .. Len(s) - 1 : Tail(s)[k] = s[k + 1]
  OBVIOUS
<1> QED
  BY <1>1

LEMMA TailDistintas ==
    ASSUME NEW s \in Seq(Nat), s # <<>>, Distintas(s)
    PROVE  Distintas(Tail(s)) /\ \A k \in DOMAIN Tail(s) : Tail(s)[k] # Head(s)
<1>1. DOMAIN Tail(s) \subseteq Nat
  OBVIOUS
<1> QED
  BY <1>1, TailParts DEF Distintas

LEMMA ConcatParts ==
    ASSUME NEW s \in Seq(Nat), NEW t \in Seq(Nat), Distintas(s), Distintas(t), Ajenas(s, t)
    PROVE  /\ s \o t \in Seq(Nat) /\ Distintas(s \o t)
           /\ \A k \in DOMAIN (s \o t) : \/ \E j \in DOMAIN s : (s \o t)[k] = s[j]
                                         \/ \E j \in DOMAIN t : (s \o t)[k] = t[j]
<1> DEFINE u == s \o t
<1>1. /\ Len(s) \in Nat /\ DOMAIN s = 1 .. Len(s) /\ Len(t) \in Nat /\ DOMAIN t = 1 .. Len(t)
      /\ u \in Seq(Nat) /\ DOMAIN u = 1 .. Len(s) + Len(t)
      /\ \A k \in 1 .. Len(s) + Len(t) : u[k] = IF k <= Len(s) THEN s[k] ELSE t[k - Len(s)]
  OBVIOUS
<1> HIDE DEF u
<1>2. ASSUME NEW k \in DOMAIN u
      PROVE  \/ k \in DOMAIN s /\ u[k] = s[k]
             \/ k - Len(s) \in DOMAIN t /\ u[k] = t[k - Len(s)] /\ k \notin DOMAIN s
  BY <1>1
<1>3. ASSUME NEW j \in DOMAIN u, NEW k \in DOMAIN u, u[j] = u[k] PROVE j = k
  <2>1. CASE j \in DOMAIN s /\ k \in DOMAIN s
    BY <1>2, <1>3, <2>1, <1>1 DEF Distintas
  <2>2. CASE j \notin DOMAIN s /\ k \notin DOMAIN s
    <3>1. j - Len(s) = k - Len(s)
      BY <1>2, <1>3, <2>2 DEF Distintas
    <3> QED
      BY <1>1, <3>1
  <2>3. CASE j \in DOMAIN s /\ k \notin DOMAIN s
    BY <1>1, <1>2, <1>3, <2>3 DEF Ajenas
  <2>4. CASE j \notin DOMAIN s /\ k \in DOMAIN s
    BY <1>1, <1>2, <1>3, <2>4 DEF Ajenas
  <2> QED
    BY <2>1, <2>2, <2>3, <2>4
<1> QED
  BY <1>1, <1>2, <1>3 DEF Distintas, u

LEMMA UnaPagina ==
    ASSUME NEW p \in Nat
    PROVE  /\ <<p>> \in Seq(Nat) /\ Distintas(<<p>>) /\ DOMAIN <<p>> = {1} /\ <<p>>[1] = p
BY DEF Distintas

\* A list without repetitions has as many pages as positions.
LEMMA CuantasPaginas ==
    ASSUME NEW s \in Seq(Nat), Distintas(s)
    PROVE  Cardinality({s[k] : k \in DOMAIN s}) = Len(s)
<1> DEFINE S == {s[k] : k \in DOMAIN s}
           f == [k \in 1 .. Len(s) |-> s[k]]
<1>1. Len(s) \in Nat /\ DOMAIN s = 1 .. Len(s)
  OBVIOUS
<1>2. f \in Bijection(1 .. Len(s), S)
  <2>1. f \in [1 .. Len(s) -> S]
    BY <1>1
  <2>2. \A j, k \in 1 .. Len(s) : f[j] = f[k] => j = k
    BY <1>1 DEF Distintas
  <2>3. \A x \in S : \E k \in 1 .. Len(s) : f[k] = x
    BY <1>1
  <2> QED
    BY <2>1, <2>2, <2>3 DEF Bijection, Injection, Surjection, IsInjective
<1>3. ExistsBijection(1 .. Len(s), S)
  BY <1>2 DEF ExistsBijection
<1> HIDE DEF S
<1>4. Cardinality(S) = Len(s)
  BY <1>1, <1>3, FS_CountingElements
<1> QED
  BY <1>4 DEF S

-----------------------------------------------------------------------------
\* The fields of a memory.

LEMMA Campos ==
    ASSUME NEW m \in Memorias
    PROVE  /\ m.nextfree \in Nat /\ m.pages \in Nat \cup {NULL} /\ m.envs \in Nat \cup {NULL}
           /\ m.kern_pgdir \in Nat \cup {NULL} /\ m.page_free_list \in Seq(Nat)
           /\ m.linked \in Nat /\ m.pp1 \in Seq(Nat) /\ m.pp2 \in Seq(Nat)
           /\ m.pgdir \in [Pdx -> Ptes \cup {NULL}]
           /\ DOMAIN m.table \subseteq Nat /\ m.table \in [DOMAIN m.table -> Tablas]
           /\ m.mmio \in Nat
<1>1. m.table \in UNION {[D -> Tablas] : D \in SUBSET Nat}
  BY DEF Memorias
<1>2. PICK D \in SUBSET Nat : m.table \in [D -> Tablas]
  BY <1>1
<1>3. DOMAIN m.table \subseteq Nat /\ m.table \in [DOMAIN m.table -> Tablas]
  BY <1>2
<1> QED
  BY <1>3 DEF Memorias

\* Everything but the lists is the same.
Iguales(m, n) ==
    /\ n.nextfree = m.nextfree /\ n.pages = m.pages /\ n.envs = m.envs
    /\ n.kern_pgdir = m.kern_pgdir /\ n.pgdir = m.pgdir /\ n.table = m.table /\ n.mmio = m.mmio

LEMMA LinkPageCampos ==
    ASSUME NEW m \in Memorias
    PROVE  LET n == LinkPage(m) IN
           /\ n \in Memorias /\ Iguales(m, n) /\ n.linked = m.linked + 1
           /\ n.pp1 = m.pp1 /\ n.pp2 = m.pp2
           /\ n.page_free_list = IF InUse(m, m.linked) THEN m.page_free_list
                                 ELSE <<m.linked>> \o m.page_free_list
<1>1. m.linked + 1 \in Nat /\ <<m.linked>> \o m.page_free_list \in Seq(Nat)
  BY Campos
<1> QED
  BY <1>1 DEF LinkPage, Memorias, Iguales

LEMMA MovePageCampos ==
    ASSUME NEW m \in Memorias, m.page_free_list # <<>>
    PROVE  LET n == MovePage(m)
               p == Head(m.page_free_list)
           IN  /\ n \in Memorias /\ Iguales(m, n) /\ n.linked = m.linked
               /\ n.page_free_list = Tail(m.page_free_list)
               /\ \/ p < PT /\ n.pp1 = m.pp1 \o <<p>> /\ n.pp2 = m.pp2
                  \/ p >= PT /\ n.pp1 = m.pp1 /\ n.pp2 = m.pp2 \o <<p>>
<1> DEFINE p == Head(m.page_free_list)
<1>1. p \in Nat /\ Tail(m.page_free_list) \in Seq(Nat)
  BY Campos, TailParts
<1>2. m.pp1 \in Seq(Nat) /\ m.pp2 \in Seq(Nat)
  BY Campos
<1> HIDE DEF p
<1>3. /\ Append(m.pp1, p) = m.pp1 \o <<p>> /\ Append(m.pp2, p) = m.pp2 \o <<p>>
      /\ m.pp1 \o <<p>> \in Seq(Nat) /\ m.pp2 \o <<p>> \in Seq(Nat)
  <2>1. ASSUME NEW s \in Seq(Nat) PROVE Append(s, p) = s \o <<p>> /\ s \o <<p>> \in Seq(Nat)
    <3>1. Append(s, p) = s \o <<p>>
      BY <1>1, AppendIsConcat
    <3> QED
      BY <1>1, <3>1
  <2> QED
    BY <1>2, <2>1
<1>4. MovePage(m) = [m EXCEPT !.page_free_list = Tail(m.page_free_list),
                              !.pp1 = IF InEntryPgdir(p) THEN m.pp1 \o <<p>> ELSE m.pp1,
                              !.pp2 = IF InEntryPgdir(p) THEN m.pp2 ELSE m.pp2 \o <<p>>]
  BY <1>3 DEF MovePage, p, Memorias
<1>5. (InEntryPgdir(p) /\ p < PT) \/ (~InEntryPgdir(p) /\ p >= PT)
  BY <1>1, Numeros DEF InEntryPgdir
<1> DEFINE n == MovePage(m)
<1>6. CASE InEntryPgdir(p) /\ p < PT
  <2>1. n = [m EXCEPT !.page_free_list = Tail(m.page_free_list), !.pp1 = m.pp1 \o <<p>>,
                      !.pp2 = m.pp2]
    BY <1>4, <1>6
  <2> HIDE DEF n
  <2>2. n \in Memorias /\ Iguales(m, n) /\ n.linked = m.linked
    BY <1>1, <1>2, <1>3, <2>1 DEF Memorias, Iguales
  <2>3. n.page_free_list = Tail(m.page_free_list) /\ n.pp1 = m.pp1 \o <<p>> /\ n.pp2 = m.pp2
    BY <2>1 DEF Memorias
  <2> QED
    BY <1>6, <2>2, <2>3 DEF n, p
<1>7. CASE ~InEntryPgdir(p) /\ p >= PT
  <2>1. n = [m EXCEPT !.page_free_list = Tail(m.page_free_list), !.pp1 = m.pp1,
                      !.pp2 = m.pp2 \o <<p>>]
    BY <1>4, <1>7
  <2> HIDE DEF n
  <2>2. n \in Memorias /\ Iguales(m, n) /\ n.linked = m.linked
    BY <1>1, <1>2, <1>3, <2>1 DEF Memorias, Iguales
  <2>3. n.page_free_list = Tail(m.page_free_list) /\ n.pp1 = m.pp1 /\ n.pp2 = m.pp2 \o <<p>>
    BY <2>1 DEF Memorias
  <2> QED
    BY <1>7, <2>2, <2>3 DEF n, p
<1> QED
  BY <1>5, <1>6, <1>7

LEMMA LowFirstCampos ==
    ASSUME NEW m \in Memorias
    PROVE  LET n == LowFirst(m) IN
           /\ n \in Memorias /\ Iguales(m, n) /\ n.linked = m.linked
           /\ n.page_free_list = m.pp1 \o m.pp2 /\ n.pp1 = <<>> /\ n.pp2 = <<>>
<1>1. m.pp1 \o m.pp2 \in Seq(Nat) /\ <<>> \in Seq(Nat)
  BY Campos
<1> QED
  BY <1>1 DEF LowFirst, Memorias, Iguales

LEMMA LimpiaIgual ==
    ASSUME NEW m, NEW n, Iguales(m, n), NEW np, NEW p
    PROVE  Limpia(n, np, p) <=> Limpia(m, np, p)
BY DEF Iguales, Limpia

LEMMA LimpiasIgual ==
    ASSUME NEW m, NEW n, Iguales(m, n), NEW np, NEW s
    PROVE  Limpias(n, np, s) <=> Limpias(m, np, s)
BY LimpiaIgual DEF Limpias

LEMMA LimpiasConcat ==
    ASSUME NEW m, NEW np, NEW s \in Seq(Nat), NEW t \in Seq(Nat),
           Distintas(s), Distintas(t), Ajenas(s, t), Limpias(m, np, s), Limpias(m, np, t)
    PROVE  Limpias(m, np, s \o t)
<1> SUFFICES ASSUME NEW k \in DOMAIN (s \o t) PROVE Limpia(m, np, (s \o t)[k])
  BY DEF Limpias
<1> QED
  BY ConcatParts DEF Limpias

LEMMA SinPaginas ==
    Distintas(<<>>) /\ \A s : Ajenas(s, <<>>) /\ Ajenas(<<>>, s) /\ \A m, np : Limpias(m, np, <<>>)
<1>1. DOMAIN <<>> = {}
  OBVIOUS
<1> QED
  BY <1>1 DEF Distintas, Ajenas, Limpias

\* page_init: the next page is new in the list, and nothing uses it.
LEMMA LinkPageListas ==
    ASSUME NEW m \in Memorias, NEW np \in Nat, Listas(m, np), m.pp1 = <<>>, m.pp2 = <<>>,
           \A k \in DOMAIN m.page_free_list : m.page_free_list[k] < m.linked,
           m.linked < np, DOMAIN m.table = {}
    PROVE  LET n == LinkPage(m) IN
           Listas(n, np) /\ \A k \in DOMAIN n.page_free_list : n.page_free_list[k] < n.linked
<1> DEFINE n == LinkPage(m)
           i == m.linked
           s == m.page_free_list
<1>1. /\ Iguales(m, n) /\ n.linked = i + 1 /\ n.pp1 = m.pp1 /\ n.pp2 = m.pp2
      /\ n.page_free_list = IF InUse(m, i) THEN s ELSE <<i>> \o s
  BY LinkPageCampos
<1>2. i \in Nat /\ s \in Seq(Nat)
  BY Campos
<1>3. Limpias(m, np, s) /\ Distintas(s)
  BY DEF Listas
<1> HIDE DEF n, i, s
<1>4. \A k \in DOMAIN s : s[k] < i /\ s[k] \in Nat
  BY <1>2 DEF i, s
<1>5. CASE InUse(m, i)
  <2>1. Limpias(n, np, s)
    BY <1>1, <1>3, LimpiasIgual
  <2>2. n.page_free_list = s
    BY <1>1, <1>5
  <2>3. \A k \in DOMAIN s : s[k] < i + 1
    BY <1>2, <1>4
  <2>4. Listas(n, np)
    BY <1>1, <1>3, <2>1, <2>2, SinPaginas DEF Listas
  <2> QED
    BY <1>1, <2>2, <2>3, <2>4 DEF n
<1>6. CASE ~InUse(m, i)
  <2>1. n.page_free_list = <<i>> \o s
    BY <1>1, <1>6
  <2>2. i < np
    BY DEF i
  <2>3. Limpia(m, np, i)
    BY <1>2, <1>6, <2>2 DEF InUse, Limpia
  <2>4. Limpias(m, np, <<i>>) /\ <<i>> \in Seq(Nat) /\ Distintas(<<i>>)
    BY <1>2, <2>3, UnaPagina DEF Limpias
  <2>5. Ajenas(<<i>>, s)
    BY <1>2, <1>4, UnaPagina DEF Ajenas
  <2>6. Limpias(m, np, <<i>> \o s) /\ Distintas(<<i>> \o s)
    BY <1>2, <1>3, <2>4, <2>5, LimpiasConcat, ConcatParts
  <2>7. ASSUME NEW k \in DOMAIN (<<i>> \o s) PROVE (<<i>> \o s)[k] < i + 1
    <3>1. \/ \E j \in DOMAIN <<i>> : (<<i>> \o s)[k] = <<i>>[j]
          \/ \E j \in DOMAIN s : (<<i>> \o s)[k] = s[j]
      BY <1>2, <1>3, <2>4, <2>5, ConcatParts
    <3>2. CASE \E j \in DOMAIN s : (<<i>> \o s)[k] = s[j]
      BY <1>2, <1>4, <3>2
    <3>3. CASE \E j \in DOMAIN <<i>> : (<<i>> \o s)[k] = <<i>>[j]
      BY <1>2, <3>3
    <3> QED
      BY <3>1, <3>2, <3>3
  <2>8. Limpias(n, np, <<i>> \o s)
    BY <1>1, <2>6, LimpiasIgual
  <2>9. Listas(n, np)
    BY <1>1, <2>1, <2>6, <2>8, SinPaginas DEF Listas
  <2> QED
    BY <1>1, <2>1, <2>7, <2>9 DEF n
<1> QED
  BY <1>5, <1>6

\* check_page_free_list: a page goes from one list to another.
LEMMA MovePageListas ==
    ASSUME NEW m \in Memorias, NEW np \in Nat, Listas(m, np), m.page_free_list # <<>>
    PROVE  Listas(MovePage(m), np)
<1> DEFINE n == MovePage(m)
           s == m.page_free_list
           p == Head(s)
<1>1. /\ Iguales(m, n) /\ n.page_free_list = Tail(s)
      /\ \/ n.pp1 = m.pp1 \o <<p>> /\ n.pp2 = m.pp2
         \/ n.pp1 = m.pp1 /\ n.pp2 = m.pp2 \o <<p>>
  BY MovePageCampos
<1>2. s \in Seq(Nat) /\ m.pp1 \in Seq(Nat) /\ m.pp2 \in Seq(Nat) /\ s # <<>>
  BY Campos
<1>3. /\ Limpias(m, np, s) /\ Limpias(m, np, m.pp1) /\ Limpias(m, np, m.pp2)
      /\ Distintas(s) /\ Distintas(m.pp1) /\ Distintas(m.pp2)
      /\ Ajenas(s, m.pp1) /\ Ajenas(s, m.pp2) /\ Ajenas(m.pp1, m.pp2)
  BY DEF Listas
<1> HIDE DEF n, s
<1>4. /\ p \in Nat /\ Tail(s) \in Seq(Nat) /\ p = s[1] /\ 1 \in DOMAIN s
      /\ \A k \in DOMAIN Tail(s) : k + 1 \in DOMAIN s /\ Tail(s)[k] = s[k + 1]
  BY <1>2, TailParts
<1>5. Distintas(Tail(s)) /\ \A k \in DOMAIN Tail(s) : Tail(s)[k] # p
  BY <1>2, <1>3, TailDistintas
<1> HIDE DEF p
<1>6. Limpias(m, np, Tail(s)) /\ Limpias(m, np, <<p>>)
  BY <1>3, <1>4, UnaPagina DEF Limpias
<1>7. Ajenas(Tail(s), m.pp1) /\ Ajenas(Tail(s), m.pp2) /\ Ajenas(Tail(s), <<p>>)
  BY <1>3, <1>4, <1>5, UnaPagina DEF Ajenas
<1>8. Ajenas(m.pp1, <<p>>) /\ Ajenas(m.pp2, <<p>>) /\ Ajenas(<<p>>, m.pp2)
  BY <1>3, <1>4, UnaPagina DEF Ajenas
<1>9. ASSUME NEW t \in Seq(Nat), Distintas(t), Ajenas(t, <<p>>), Limpias(m, np, t),
             Ajenas(Tail(s), t)
      PROVE  /\ Distintas(t \o <<p>>) /\ Limpias(m, np, t \o <<p>>)
             /\ Ajenas(Tail(s), t \o <<p>>)
             /\ \A k \in DOMAIN (t \o <<p>>) :
                    (t \o <<p>>)[k] = p \/ \E j \in DOMAIN t : (t \o <<p>>)[k] = t[j]
  <2>1. <<p>> \in Seq(Nat) /\ Distintas(<<p>>) /\ DOMAIN <<p>> = {1} /\ <<p>>[1] = p
    BY <1>4, UnaPagina
  <2>2. /\ Distintas(t \o <<p>>)
        /\ \A k \in DOMAIN (t \o <<p>>) : \/ \E j \in DOMAIN t : (t \o <<p>>)[k] = t[j]
                                          \/ \E j \in DOMAIN <<p>> : (t \o <<p>>)[k] = <<p>>[j]
    BY <1>9, <2>1, ConcatParts
  <2>3. \A k \in DOMAIN (t \o <<p>>) :
            (t \o <<p>>)[k] = p \/ \E j \in DOMAIN t : (t \o <<p>>)[k] = t[j]
    BY <2>1, <2>2
  <2>4. Limpias(m, np, t \o <<p>>)
    BY <1>6, <1>9, <2>1, LimpiasConcat
  <2>5. Ajenas(Tail(s), t \o <<p>>)
    BY <1>5, <1>9, <2>3 DEF Ajenas
  <2> QED
    BY <2>2, <2>3, <2>4, <2>5
<1>10. CASE n.pp1 = m.pp1 \o <<p>> /\ n.pp2 = m.pp2
  <2>1. /\ Distintas(m.pp1 \o <<p>>) /\ Limpias(m, np, m.pp1 \o <<p>>)
        /\ Ajenas(Tail(s), m.pp1 \o <<p>>)
        /\ \A k \in DOMAIN (m.pp1 \o <<p>>) :
            (m.pp1 \o <<p>>)[k] = p \/ \E j \in DOMAIN m.pp1 : (m.pp1 \o <<p>>)[k] = m.pp1[j]
    BY <1>2, <1>3, <1>7, <1>8, <1>9
  <2>2. Ajenas(m.pp1 \o <<p>>, m.pp2)
    BY <1>3, <1>8, <2>1, <1>4, UnaPagina DEF Ajenas
  <2> QED
    BY <1>1, <1>3, <1>5, <1>6, <1>7, <1>10, <2>1, <2>2, LimpiasIgual DEF Listas, n
<1>11. CASE n.pp1 = m.pp1 /\ n.pp2 = m.pp2 \o <<p>>
  <2>1. /\ Distintas(m.pp2 \o <<p>>) /\ Limpias(m, np, m.pp2 \o <<p>>)
        /\ Ajenas(Tail(s), m.pp2 \o <<p>>)
        /\ \A k \in DOMAIN (m.pp2 \o <<p>>) :
            (m.pp2 \o <<p>>)[k] = p \/ \E j \in DOMAIN m.pp2 : (m.pp2 \o <<p>>)[k] = m.pp2[j]
    BY <1>2, <1>3, <1>7, <1>8, <1>9
  <2>2. Ajenas(m.pp1, m.pp2 \o <<p>>)
    BY <1>3, <1>8, <2>1, <1>4, UnaPagina DEF Ajenas
  <2> QED
    BY <1>1, <1>3, <1>5, <1>6, <1>7, <1>11, <2>1, <2>2, LimpiasIgual DEF Listas, n
<1> QED
  BY <1>1, <1>10, <1>11

LEMMA LowFirstListas ==
    ASSUME NEW m \in Memorias, NEW np \in Nat, Listas(m, np)
    PROVE  Listas(LowFirst(m), np)
<1> DEFINE n == LowFirst(m)
<1>1. Iguales(m, n) /\ n.page_free_list = m.pp1 \o m.pp2 /\ n.pp1 = <<>> /\ n.pp2 = <<>>
  BY LowFirstCampos
<1>2. m.pp1 \in Seq(Nat) /\ m.pp2 \in Seq(Nat)
  BY Campos
<1> HIDE DEF n
<1>3. Distintas(m.pp1 \o m.pp2) /\ Limpias(m, np, m.pp1 \o m.pp2)
  BY <1>2, ConcatParts, LimpiasConcat DEF Listas
<1>4. Limpias(n, np, m.pp1 \o m.pp2)
  BY <1>1, <1>3, LimpiasIgual
<1>5. Listas(n, np)
  BY <1>1, <1>3, <1>4, SinPaginas DEF Listas
<1> QED
  BY <1>5 DEF n

-----------------------------------------------------------------------------
\* pgdir_walk and boot_map_region.

\* Neither touches what boot_alloc has given out.
Fijos(m, n) ==
    /\ n.nextfree = m.nextfree /\ n.pages = m.pages /\ n.envs = m.envs
    /\ n.kern_pgdir = m.kern_pgdir /\ n.linked = m.linked
    /\ n.pp1 = m.pp1 /\ n.pp2 = m.pp2 /\ n.mmio = m.mmio

Vacia == [x \in 0 .. PT - 1 |-> NULL]
Pde(t) == [page |-> t, w |-> TRUE, u |-> TRUE]

LEMMA PgdirWalkCampos ==
    ASSUME NEW m \in Memorias, NEW va \in Vas, m.pgdir[va \div PT] = NULL,
           m.page_free_list # <<>>
    PROVE  LET n == PgdirWalk(m, va)
               t == Head(m.page_free_list)
           IN  /\ n \in Memorias /\ Fijos(m, n)
               /\ n.page_free_list = Tail(m.page_free_list)
               /\ n.pgdir = [m.pgdir EXCEPT ![va \div PT] = Pde(t)]
               /\ n.table = [p \in DOMAIN m.table \cup {t} |->
                                IF p = t THEN Vacia ELSE m.table[p]]
<1> DEFINE t == Head(m.page_free_list)
           d == va \div PT
           f == [p \in DOMAIN m.table \cup {t} |-> IF p = t THEN Vacia ELSE m.table[p]]
           g == [m.pgdir EXCEPT ![d] = Pde(t)]
<1>1. /\ t \in Nat /\ Tail(m.page_free_list) \in Seq(Nat)
  BY Campos, TailParts
<1>2. /\ m.pgdir \in [Pdx -> Ptes \cup {NULL}] /\ DOMAIN m.table \in SUBSET Nat
      /\ m.table \in [DOMAIN m.table -> Tablas]
  BY Campos
<1>3. Vacia \in Tablas
  BY DEF Vacia, Tablas
<1>4. Pde(t) \in Ptes
  BY <1>1 DEF Pde, Ptes
<1>5. g \in [Pdx -> Ptes \cup {NULL}]
  BY <1>2, <1>4
<1>6. f \in UNION {[D -> Tablas] : D \in SUBSET Nat}
  <2>1. DOMAIN m.table \cup {t} \in SUBSET Nat
    BY <1>1, <1>2
  <2>2. f \in [DOMAIN m.table \cup {t} -> Tablas]
    BY <1>2, <1>3
  <2> QED
    BY <2>1, <2>2
<1>7. PgdirWalk(m, va) = [m EXCEPT !.page_free_list = Tail(m.page_free_list),
                                   !.pgdir = g, !.table = f]
  BY DEF PgdirWalk, Pde, Vacia, Memorias
<1> HIDE DEF f, g, t
<1>8. PgdirWalk(m, va) \in Memorias
  BY <1>1, <1>5, <1>6, <1>7 DEF Memorias
<1>9. /\ Fijos(m, PgdirWalk(m, va))
      /\ PgdirWalk(m, va).page_free_list = Tail(m.page_free_list)
      /\ PgdirWalk(m, va).pgdir = g /\ PgdirWalk(m, va).table = f
  BY <1>7 DEF Memorias, Fijos
<1> QED
  BY <1>8, <1>9 DEF f, g, t

\* What stays the same and what may be relied on, for a list of pages and a
\* directory in order.
Ordenada(m, np) == m \in Memorias /\ Listas(m, np) /\ Directorio(m)

LEMMA PgdirWalkParts ==
    ASSUME NEW m, NEW np, Ordenada(m, np), NEW va \in Vas, ~PgdirWalkFails(m, va)
    PROVE  LET n == PgdirWalk(m, va) IN
           /\ Ordenada(n, np) /\ Fijos(m, n) /\ n.pgdir[va \div PT] # NULL
           /\ \A x \in Vas : Ve(n, x) = Ve(m, x)
<1>0. m \in Memorias /\ Listas(m, np) /\ Directorio(m)
  BY DEF Ordenada
<1>1. CASE m.pgdir[va \div PT] # NULL
  BY <1>0, <1>1 DEF PgdirWalk, Fijos, Ordenada
<1>2. CASE m.pgdir[va \div PT] = NULL
  <2> DEFINE n == PgdirWalk(m, va)
             t == Head(m.page_free_list)
             d == va \div PT
  <2>1. m.page_free_list # <<>>
    BY <1>2 DEF PgdirWalkFails
  <2>2. /\ n \in Memorias /\ Fijos(m, n)
        /\ n.page_free_list = Tail(m.page_free_list)
        /\ n.pgdir = [m.pgdir EXCEPT ![d] = Pde(t)]
        /\ n.table = [p \in DOMAIN m.table \cup {t} |-> IF p = t THEN Vacia ELSE m.table[p]]
    BY <1>0, <1>2, <2>1, PgdirWalkCampos
  <2>3. va \in Nat /\ d \in Pdx \ {RANURA} /\ va % PT \in 0 .. PT - 1
    BY VaEnTabla
  <2>4. m.pgdir \in [Pdx -> Ptes \cup {NULL}]
    BY <1>0, Campos
  <2>5. m.pgdir[d] = NULL
    BY <1>2
  <2> HIDE DEF n, d
  <2>6. /\ t \in Nat /\ Tail(m.page_free_list) \in Seq(Nat) /\ t = m.page_free_list[1]
        /\ 1 \in DOMAIN m.page_free_list
        /\ \A k \in DOMAIN Tail(m.page_free_list) :
            k + 1 \in DOMAIN m.page_free_list
            /\ Tail(m.page_free_list)[k] = m.page_free_list[k + 1]
    BY <1>0, <2>1, Campos, TailParts
  <2>7. /\ Distintas(Tail(m.page_free_list))
        /\ \A k \in DOMAIN Tail(m.page_free_list) : Tail(m.page_free_list)[k] # t
    BY <1>0, <2>1, Campos, TailDistintas DEF Listas
  <2> HIDE DEF t
  <2>8. Pde(t) # NULL /\ Pde(t).page = t
    <3>1. Pde(t) \in Ptes /\ Pde(t).page = t
      BY <2>6 DEF Pde, Ptes
    <3> QED
      BY <3>1, NuloAparte
  <2>9. t \notin DOMAIN m.table
    BY <1>0, <2>6 DEF Listas, Limpias, Limpia
  <2>10. DOMAIN n.table = DOMAIN m.table \cup {t}
    BY <2>2
  <2>11. Listas(n, np)
    <3>1. \A p : Limpia(m, np, p) /\ p # t => Limpia(n, np, p)
      BY <2>2, <2>10 DEF Limpia, Fijos
    <3>2. Limpias(n, np, n.page_free_list)
      BY <1>0, <2>2, <2>6, <2>7, <3>1 DEF Listas, Limpias
    <3>3. \A k \in DOMAIN m.pp1 : m.pp1[k] # t
      BY <1>0, <2>6 DEF Listas, Ajenas
    <3>4. \A k \in DOMAIN m.pp2 : m.pp2[k] # t
      BY <1>0, <2>6 DEF Listas, Ajenas
    <3>5. Limpias(n, np, n.pp1) /\ Limpias(n, np, n.pp2)
      BY <1>0, <2>2, <3>1, <3>3, <3>4 DEF Listas, Limpias, Fijos
    <3>6. Ajenas(n.page_free_list, n.pp1) /\ Ajenas(n.page_free_list, n.pp2)
      BY <1>0, <2>2, <2>6 DEF Listas, Ajenas, Fijos
    <3>7. /\ Distintas(m.pp1) /\ Distintas(m.pp2) /\ Ajenas(m.pp1, m.pp2)
          /\ n.pp1 = m.pp1 /\ n.pp2 = m.pp2
      BY <1>0, <2>2 DEF Listas, Fijos
    <3> QED
      BY <2>2, <2>7, <3>2, <3>5, <3>6, <3>7 DEF Listas
  <2>12. RANURA \in Pdx /\ d \in Pdx /\ d # RANURA
    BY <2>3, RanuraEnPdx
  <2>13. \A x \in Pdx : n.pgdir[x] = IF x = d THEN Pde(t) ELSE m.pgdir[x]
    BY <2>2, <2>4
  <2>14. Directorio(n)
    <3>1. n.pgdir[RANURA] = m.pgdir[RANURA] /\ n.kern_pgdir = m.kern_pgdir
      BY <2>2, <2>12, <2>13 DEF Fijos
    <3>2. \A x \in Pdx \ {RANURA} : n.pgdir[x] # NULL => n.pgdir[x].page \in DOMAIN n.table
      BY <1>0, <2>8, <2>10, <2>13 DEF Directorio
    <3>3. ASSUME NEW x \in Pdx \ {RANURA}, NEW y \in Pdx \ {RANURA}, n.pgdir[x] # NULL,
                 n.pgdir[y] # NULL, n.pgdir[x].page = n.pgdir[y].page
          PROVE  x = y
      BY <1>0, <2>8, <2>9, <2>13, <3>3 DEF Directorio
    <3> QED
      BY <1>0, <3>1, <3>2, <3>3 DEF Directorio
  <2>15. ASSUME NEW x \in Vas PROVE Ve(n, x) = Ve(m, x)
    <3>1. x \div PT \in Pdx \ {RANURA} /\ x % PT \in 0 .. PT - 1
      BY VaEnTabla
    <3>2. CASE x \div PT = d
      <4>1. Ve(m, x) = NULL
        BY <2>5, <3>2 DEF Ve
      <4>2. n.pgdir[x \div PT] = Pde(t)
        BY <2>13, <3>1, <3>2
      <4>3. n.table[t] = Vacia
        BY <2>2
      <4> QED
        BY <2>8, <3>1, <4>1, <4>2, <4>3 DEF Ve, Vacia
    <3>3. CASE x \div PT # d
      <4>1. n.pgdir[x \div PT] = m.pgdir[x \div PT]
        BY <2>13, <3>1, <3>3
      <4>2. m.pgdir[x \div PT] # NULL => m.pgdir[x \div PT].page \in DOMAIN m.table
        BY <1>0, <3>1 DEF Directorio
      <4>3. \A p \in DOMAIN m.table : n.table[p] = m.table[p]
        BY <2>2, <2>9
      <4> QED
        BY <4>1, <4>2, <4>3 DEF Ve
    <3> QED
      BY <3>2, <3>3
  <2>16. n.pgdir[d] # NULL
    BY <2>8, <2>12, <2>13
  <2> QED
    BY <2>2, <2>11, <2>14, <2>15, <2>16 DEF Ordenada, n, d
<1> QED
  BY <1>1, <1>2

\* One entry of a table is written.
LEMMA EntradaCampos ==
    ASSUME NEW m \in Memorias, NEW q \in DOMAIN m.table, NEW o \in 0 .. PT - 1, NEW pte \in Ptes
    PROVE  LET n == [m EXCEPT !.table[q][o] = pte] IN
           /\ n \in Memorias /\ Fijos(m, n)
           /\ n.page_free_list = m.page_free_list /\ n.pgdir = m.pgdir
           /\ DOMAIN n.table = DOMAIN m.table
           /\ n.table[q][o] = pte
           /\ \A p \in DOMAIN m.table : p # q => n.table[p] = m.table[p]
           /\ \A x \in 0 .. PT - 1 : x # o => n.table[q][x] = m.table[q][x]
<1> DEFINE f == [m.table EXCEPT ![q][o] = pte]
<1>1. DOMAIN m.table \in SUBSET Nat /\ m.table \in [DOMAIN m.table -> Tablas]
  BY Campos
<1>2. m.table[q] \in [0 .. PT - 1 -> Ptes \cup {NULL}]
  BY <1>1 DEF Tablas
<1>3. [m.table[q] EXCEPT ![o] = pte] \in Tablas
  BY <1>2 DEF Tablas
<1>4. /\ f \in [DOMAIN m.table -> Tablas]
      /\ f[q] = [m.table[q] EXCEPT ![o] = pte]
      /\ \A p \in DOMAIN m.table : p # q => f[p] = m.table[p]
  BY <1>1, <1>3
<1>5. f[q][o] = pte /\ \A x \in 0 .. PT - 1 : x # o => f[q][x] = m.table[q][x]
  BY <1>2, <1>4
<1>6. [m EXCEPT !.table[q][o] = pte] = [m EXCEPT !.table = f]
  BY DEF Memorias
<1>7. f \in UNION {[D -> Tablas] : D \in SUBSET Nat} /\ DOMAIN f = DOMAIN m.table
  BY <1>1, <1>4
<1> HIDE DEF f
<1>8. [m EXCEPT !.table = f] \in Memorias
  BY <1>7 DEF Memorias
<1>9. /\ Fijos(m, [m EXCEPT !.table = f])
      /\ [m EXCEPT !.table = f].page_free_list = m.page_free_list
      /\ [m EXCEPT !.table = f].pgdir = m.pgdir /\ [m EXCEPT !.table = f].table = f
  BY DEF Memorias, Fijos
<1> QED
  BY <1>4, <1>5, <1>6, <1>7, <1>8, <1>9

LEMMA MapPageParts ==
    ASSUME NEW m, NEW np, Ordenada(m, np), NEW va \in Vas, NEW pte \in Ptes,
           ~PgdirWalkFails(m, va)
    PROVE  LET n == MapPage(m, va, pte) IN
           /\ Ordenada(n, np) /\ Fijos(m, n) /\ Ve(n, va) = pte
           /\ \A x \in Vas : x # va => Ve(n, x) = Ve(m, x)
<1> DEFINE m1 == PgdirWalk(m, va)
           d == va \div PT
           o == va % PT
           q == m1.pgdir[d].page
           n == [m1 EXCEPT !.table[q][o] = pte]
<1>1. /\ Ordenada(m1, np) /\ Fijos(m, m1) /\ m1.pgdir[d] # NULL
      /\ \A x \in Vas : Ve(m1, x) = Ve(m, x)
  BY PgdirWalkParts
<1>2. va \in Nat /\ d \in Pdx \ {RANURA} /\ o \in 0 .. PT - 1
  BY VaEnTabla
<1>3. MapPage(m, va, pte) = n
  BY DEF MapPage
<1>4. \A x \in Vas : x # va => x \div PT # d \/ x % PT # o
  <2> SUFFICES ASSUME NEW x \in Vas, x \div PT = d, x % PT = o PROVE x = va
    OBVIOUS
  <2> QED
    BY <1>2, VaEnTabla, IndicesDistintos
<1>5. Ve(m, va) = Ve(m1, va)
  BY <1>1
<1> HIDE DEF m1, d, o
<1>6. m1 \in Memorias /\ Listas(m1, np) /\ Directorio(m1)
  BY <1>1 DEF Ordenada
<1>7. q \in DOMAIN m1.table
  BY <1>1, <1>2, <1>6 DEF Directorio
<1> HIDE DEF q
<1>8. /\ n \in Memorias /\ Fijos(m1, n)
      /\ n.page_free_list = m1.page_free_list /\ n.pgdir = m1.pgdir
      /\ DOMAIN n.table = DOMAIN m1.table
      /\ n.table[q][o] = pte
      /\ \A p \in DOMAIN m1.table : p # q => n.table[p] = m1.table[p]
      /\ \A x \in 0 .. PT - 1 : x # o => n.table[q][x] = m1.table[q][x]
  BY <1>2, <1>6, <1>7, EntradaCampos
<1> HIDE DEF n
<1>9. Listas(n, np)
  <2>1. \A p : Limpia(n, np, p) <=> Limpia(m1, np, p)
    BY <1>8 DEF Limpia, Fijos
  <2>2. \A s : Limpias(n, np, s) <=> Limpias(m1, np, s)
    BY <2>1 DEF Limpias
  <2> QED
    BY <1>6, <1>8, <2>2 DEF Listas, Fijos
<1>10. Directorio(n)
  BY <1>6, <1>8 DEF Directorio, Fijos
<1>11. Ve(n, va) = pte
  BY <1>1, <1>8 DEF Ve, d, o, q
<1>12. ASSUME NEW x \in Vas, x # va PROVE Ve(n, x) = Ve(m1, x)
  <2>1. x \div PT \in Pdx \ {RANURA} /\ x % PT \in 0 .. PT - 1
    BY VaEnTabla
  <2>2. CASE m1.pgdir[x \div PT] = NULL
    BY <1>8, <2>2 DEF Ve
  <2>3. CASE m1.pgdir[x \div PT] # NULL /\ x \div PT # d
    <3>1. m1.pgdir[x \div PT].page \in DOMAIN m1.table /\ m1.pgdir[x \div PT].page # q
      BY <1>1, <1>2, <1>6, <2>1, <2>3 DEF Directorio, q
    <3> QED
      BY <1>8, <2>3, <3>1 DEF Ve
  <2>4. CASE m1.pgdir[x \div PT] # NULL /\ x \div PT = d
    <3>1. x % PT # o /\ m1.pgdir[x \div PT].page = q
      BY <1>4, <1>12, <2>4 DEF q
    <3> QED
      BY <1>8, <2>1, <2>4, <3>1 DEF Ve
  <2> QED
    BY <2>2, <2>3, <2>4
<1>13. Fijos(m, n)
  BY <1>1, <1>8 DEF Fijos
<1> QED
  BY <1>1, <1>3, <1>8, <1>9, <1>10, <1>11, <1>12, <1>13 DEF Ordenada

-----------------------------------------------------------------------------
\* The loop of boot_map_region, over any regions that do not overlap.

Buenas(B) ==
    /\ B \in Seq(Regiones)
    /\ \A k \in DOMAIN B, va \in Nat :
        En(B[k], va) => va \in Vas /\ va \notin MMIOBASE .. MMIOLIM - 1
    /\ \A j, k \in DOMAIN B, va \in Nat : En(B[j], va) /\ En(B[k], va) => j = k

Resto(r) == [r EXCEPT !.va = @ + 1, !.pa = @ + 1, !.size = @ - 1]

LEMMA RestoParts ==
    ASSUME NEW r \in Regiones
    PROVE  /\ r.va \in Nat /\ En(r, r.va) /\ Pte(r, r.va) = [page |-> r.pa, w |-> r.w, u |-> r.u]
           /\ Pte(r, r.va) \in Ptes
           /\ r.size # 1 => Resto(r) \in Regiones
           /\ \A va \in Nat : En(Resto(r), va) => En(r, va) /\ Pte(Resto(r), va) = Pte(r, va)
           /\ \A va \in Nat : En(r, va) /\ va # r.va => En(Resto(r), va) /\ r.size # 1
<1>1. r.va \in Nat /\ r.size \in Nat \ {0} /\ r.pa \in Nat /\ r.w \in BOOLEAN /\ r.u \in BOOLEAN
  BY DEF Regiones
<1>2. En(r, r.va)
  BY <1>1 DEF En
<1>3. Pte(r, r.va) = [page |-> r.pa, w |-> r.w, u |-> r.u]
  <2>1. r.pa + (r.va - r.va) = r.pa
    BY <1>1
  <2> QED
    BY <2>1 DEF Pte
<1>4. Pte(r, r.va) \in Ptes
  BY <1>1, <1>3 DEF Ptes
<1>5. /\ Resto(r).va = r.va + 1 /\ Resto(r).pa = r.pa + 1 /\ Resto(r).size = r.size - 1
      /\ Resto(r).w = r.w /\ Resto(r).u = r.u
  BY DEF Resto, Regiones
<1>6. r.size # 1 => Resto(r) \in Regiones
  <2>1. r.size # 1 => r.va + 1 \in Nat /\ r.pa + 1 \in Nat /\ r.size - 1 \in Nat \ {0}
    BY <1>1
  <2> QED
    BY <2>1 DEF Resto, Regiones
<1>7. ASSUME NEW va \in Nat
      PROVE  /\ En(Resto(r), va) => En(r, va)
             /\ Pte(Resto(r), va) = Pte(r, va)
             /\ En(r, va) /\ va # r.va => En(Resto(r), va) /\ r.size # 1
  <2>1. En(Resto(r), va) => En(r, va)
    BY <1>1, <1>5 DEF En
  <2>2. En(r, va) /\ va # r.va => En(Resto(r), va) /\ r.size # 1
    BY <1>1, <1>5 DEF En
  <2>3. Resto(r).pa + (va - Resto(r).va) = r.pa + (va - r.va)
    BY <1>1, <1>5
  <2>4. Pte(Resto(r), va) = Pte(r, va)
    BY <1>5, <2>3 DEF Pte
  <2> QED
    BY <2>1, <2>2, <2>4
<1> QED
  BY <1>1, <1>2, <1>3, <1>4, <1>6, <1>7

Siguen(rs) == (IF Head(rs).size = 1 THEN <<>> ELSE <<Resto(Head(rs))>>) \o Tail(rs)

\* What is left after a round: the rest of the first region and the others.
LEMMA SiguenParts ==
    ASSUME NEW rs \in Seq(Regiones), rs # <<>>
    PROVE  /\ Head(rs) \in Regiones /\ 1 \in DOMAIN rs /\ Head(rs) = rs[1]
           /\ Siguen(rs) \in Seq(Regiones)
           /\ \A j \in DOMAIN Siguen(rs) :
                \/ Head(rs).size # 1 /\ Siguen(rs)[j] = Resto(Head(rs))
                \/ \E i \in DOMAIN rs : Siguen(rs)[j] = rs[i]
           /\ \A va \in Nat, i \in DOMAIN rs : En(rs[i], va) /\ va # Head(rs).va =>
                \E j \in DOMAIN Siguen(rs) : En(Siguen(rs)[j], va)
<1> DEFINE r == Head(rs)
           t == Tail(rs)
           s == Siguen(rs)
<1>1. /\ Len(rs) \in Nat /\ Len(rs) >= 1 /\ DOMAIN rs = 1 .. Len(rs)
      /\ r = rs[1] /\ t \in Seq(Regiones) /\ Len(t) = Len(rs) - 1
      /\ DOMAIN t = 1 .. Len(rs) - 1
      /\ \A k \in 1 .. Len(rs) - 1 : t[k] = rs[k + 1]
  OBVIOUS
<1>2. r \in Regiones /\ 1 \in DOMAIN rs
  BY <1>1
<1>3. CASE r.size = 1
  <2>1. s = t
    <3>1. s = <<>> \o t
      BY <1>3 DEF Siguen
    <3> QED
      BY <1>1, <3>1
  <2>2. \A j \in DOMAIN t : j + 1 \in DOMAIN rs /\ t[j] = rs[j + 1]
    BY <1>1
  <2>3. ASSUME NEW va \in Nat, NEW i \in DOMAIN rs, En(rs[i], va), va # r.va
        PROVE  \E j \in DOMAIN t : En(t[j], va)
    <3>1. i # 1
      BY <1>1, <1>2, <1>3, <2>3, RestoParts
    <3>2. i - 1 \in DOMAIN t /\ t[i - 1] = rs[i]
      BY <1>1, <3>1
    <3> QED
      BY <2>3, <3>2
  <2> QED
    BY <1>1, <1>2, <2>1, <2>2, <2>3
<1>4. CASE r.size # 1
  <2> DEFINE n == Resto(r)
  <2>1. s = <<n>> \o t
    BY <1>4 DEF Siguen
  <2>2. n \in Regiones
    BY <1>2, <1>4, RestoParts
  <2> HIDE DEF n, s
  <2>3. /\ s \in Seq(Regiones) /\ DOMAIN s = 1 .. Len(rs)
        /\ s[1] = n /\ \A j \in 2 .. Len(rs) : s[j] = t[j - 1]
    BY <1>1, <2>1, <2>2
  <2>4. \A j \in 2 .. Len(rs) : s[j] = rs[j]
    <3> SUFFICES ASSUME NEW j \in 2 .. Len(rs) PROVE s[j] = rs[j]
      OBVIOUS
    <3>1. j - 1 \in 1 .. Len(rs) - 1 /\ (j - 1) + 1 = j
      BY <1>1
    <3> QED
      BY <1>1, <2>3, <3>1
  <2>5. \A j \in DOMAIN s : s[j] = n \/ \E i \in DOMAIN rs : s[j] = rs[i]
    BY <1>1, <2>3, <2>4
  <2>6. ASSUME NEW va \in Nat, NEW i \in DOMAIN rs, En(rs[i], va), va # r.va
        PROVE  \E j \in DOMAIN s : En(s[j], va)
    <3>1. CASE i = 1
      <4>1. En(n, va)
        BY <1>1, <1>2, <2>6, <3>1, RestoParts DEF n
      <4> QED
        BY <1>1, <2>3, <4>1
    <3>2. CASE i # 1
      <4>1. i \in DOMAIN s /\ s[i] = rs[i]
        BY <1>1, <2>3, <2>4, <3>2
      <4> QED
        BY <2>6, <4>1
    <3> QED
      BY <3>1, <3>2
  <2> QED
    BY <1>1, <1>2, <1>4, <2>3, <2>5, <2>6 DEF s, n
<1> QED
  BY <1>3, <1>4

LEMMA MapRegionMapa ==
    ASSUME NEW B, Buenas(B), NEW m, NEW np, Ordenada(m, np), NEW rs \in Seq(Regiones),
           rs # <<>>, Mapa(B, m, rs), m.mmio \in MMIOBASE .. MMIOLIM - 1,
           ~PgdirWalkFails(m, Head(rs).va)
    PROVE  LET r == Head(rs)
               n == MapPage(m, r.va, [page |-> r.pa, w |-> r.w, u |-> r.u])
           IN  Ordenada(n, np) /\ Fijos(m, n) /\ Mapa(B, n, Siguen(rs))
<1> DEFINE r == Head(rs)
           va == r.va
           pte == [page |-> r.pa, w |-> r.w, u |-> r.u]
           n == MapPage(m, va, pte)
           s == Siguen(rs)
<1>1. /\ r \in Regiones /\ 1 \in DOMAIN rs /\ r = rs[1]
      /\ \A j \in DOMAIN s : \/ r.size # 1 /\ s[j] = Resto(r)
                             \/ \E i \in DOMAIN rs : s[j] = rs[i]
      /\ \A x \in Nat, i \in DOMAIN rs : En(rs[i], x) /\ x # va => \E j \in DOMAIN s : En(s[j], x)
  BY SiguenParts
<1> HIDE DEF s
<1>2. /\ va \in Nat /\ En(r, va) /\ Pte(r, va) = pte /\ pte \in Ptes
      /\ \A x \in Nat : En(Resto(r), x) => En(r, x) /\ Pte(Resto(r), x) = Pte(r, x)
  BY <1>1, RestoParts
<1>3. \A j \in DOMAIN rs : \E k \in DOMAIN B : \A x \in Nat :
        En(rs[j], x) => En(B[k], x) /\ Pte(B[k], x) = Pte(rs[j], x)
  BY DEF Mapa
<1>4. PICK k \in DOMAIN B : \A x \in Nat : En(r, x) => En(B[k], x) /\ Pte(B[k], x) = Pte(r, x)
  BY <1>1, <1>3
<1>5. En(B[k], va) /\ Pte(B[k], va) = pte
  BY <1>2, <1>4
<1>6. va \in Vas /\ va \notin MMIOBASE .. MMIOLIM - 1
  BY <1>2, <1>5 DEF Buenas
<1>7. /\ Ordenada(n, np) /\ Fijos(m, n) /\ Ve(n, va) = pte
      /\ \A x \in Vas : x # va => Ve(n, x) = Ve(m, x)
  BY <1>2, <1>6, MapPageParts
<1> HIDE DEF n, va, pte, r
<1>8. n.mmio = m.mmio
  BY <1>7 DEF Fijos
<1>9. \A x \in Vas : x \in Nat
  BY VaEnTabla
<1>10. ASSUME NEW l \in DOMAIN B, NEW x \in Vas, En(B[l], x)
       PROVE  Ve(n, x) = Pte(B[l], x) \/ \E j \in DOMAIN s : En(s[j], x)
  <2>1. CASE x = va
    <3>1. l = k
      BY <1>5, <1>9, <1>10, <2>1 DEF Buenas
    <3> QED
      BY <1>5, <1>7, <2>1, <3>1
  <2>2. CASE x # va
    <3>1. Ve(m, x) = Pte(B[l], x) \/ \E j \in DOMAIN rs : En(rs[j], x)
      BY <1>10 DEF Mapa
    <3> QED
      BY <1>1, <1>7, <1>9, <2>2, <3>1
  <2> QED
    BY <2>1, <2>2
<1>11. ASSUME NEW x \in Vas, Ve(n, x) # NULL
       PROVE  \/ \E l \in DOMAIN B : En(B[l], x) /\ Ve(n, x) = Pte(B[l], x)
              \/ x \in MMIOBASE .. n.mmio - 1
  <2>1. CASE x = va
    BY <1>5, <1>7, <2>1
  <2>2. CASE x # va
    BY <1>7, <1>8, <1>11, <2>2 DEF Mapa
  <2> QED
    BY <2>1, <2>2
<1>12. ASSUME NEW x \in MMIOBASE .. n.mmio - 1
       PROVE  Ve(n, x) = [page |-> LAPIC_PAGE, w |-> TRUE, u |-> FALSE]
  <2>1. x \in MMIOBASE .. m.mmio - 1 /\ x \in MMIOBASE .. MMIOLIM - 1
    BY <1>8, <1>12, Direcciones
  <2>2. x \in Vas /\ x # va
    BY <1>6, <2>1, Direcciones DEF Vas
  <2>3. Ve(m, x) = [page |-> LAPIC_PAGE, w |-> TRUE, u |-> FALSE]
    BY <2>1 DEF Mapa
  <2> QED
    BY <1>7, <2>2, <2>3
<1>13. ASSUME NEW j \in DOMAIN s
       PROVE  \E l \in DOMAIN B : \A x \in Nat :
                En(s[j], x) => En(B[l], x) /\ Pte(B[l], x) = Pte(s[j], x)
  <2>1. CASE s[j] = Resto(r)
    BY <1>2, <1>4, <2>1
  <2>2. CASE \E i \in DOMAIN rs : s[j] = rs[i]
    BY <1>3, <2>2
  <2> QED
    BY <1>1, <2>1, <2>2
<1>14. Mapa(B, n, s)
  BY <1>10, <1>11, <1>12, <1>13 DEF Mapa
<1> QED
  BY <1>7, <1>14 DEF n, va, pte, r, s

\* mmio_map_region: the page behind those that the other processors have.
LEMMA MapLapicMapa ==
    ASSUME NEW B, Buenas(B), NEW m, NEW np, Ordenada(m, np), Mapa(B, m, <<>>),
           m.mmio \in MMIOBASE .. MMIOLIM - 1, ~(m.mmio + 1 >= MMIOLIM),
           ~PgdirWalkFails(m, m.mmio)
    PROVE  LET pte == [page |-> LAPIC_PAGE, w |-> TRUE, u |-> FALSE]
               n == [MapPage(m, m.mmio, pte) EXCEPT !.mmio = @ + 1]
           IN  /\ Ordenada(n, np) /\ Mapa(B, n, <<>>)
               /\ n.mmio = m.mmio + 1 /\ n.mmio \in MMIOBASE .. MMIOLIM - 1
               /\ n.nextfree = m.nextfree /\ n.pages = m.pages /\ n.envs = m.envs
               /\ n.kern_pgdir = m.kern_pgdir
<1> DEFINE pte == [page |-> LAPIC_PAGE, w |-> TRUE, u |-> FALSE]
           va == m.mmio
           m1 == MapPage(m, va, pte)
           n == [m1 EXCEPT !.mmio = m1.mmio + 1]
<1>0. [m1 EXCEPT !.mmio = @ + 1] = n
  OBVIOUS
<1>1. va \in Vas /\ va \in Nat /\ va \in MMIOBASE .. MMIOLIM - 1
  BY Direcciones DEF Vas
<1>2. pte \in Ptes
  BY Numeros DEF Ptes
<1>3. /\ Ordenada(m1, np) /\ Fijos(m, m1) /\ Ve(m1, va) = pte
      /\ \A x \in Vas : x # va => Ve(m1, x) = Ve(m, x)
  <2> HIDE DEF pte
  <2> QED
    BY <1>1, <1>2, MapPageParts
<1> HIDE DEF m1, pte
<1>4. m1 \in Memorias /\ Listas(m1, np) /\ Directorio(m1) /\ m1.mmio = va
  BY <1>3 DEF Ordenada, Fijos
<1>5. va + 1 \in Nat
  BY <1>1
<1>6. /\ n \in Memorias /\ n.mmio = va + 1
      /\ n.nextfree = m1.nextfree /\ n.pages = m1.pages /\ n.envs = m1.envs
      /\ n.kern_pgdir = m1.kern_pgdir /\ n.page_free_list = m1.page_free_list
      /\ n.pp1 = m1.pp1 /\ n.pp2 = m1.pp2 /\ n.pgdir = m1.pgdir /\ n.table = m1.table
  BY <1>4, <1>5 DEF Memorias
<1> HIDE DEF n
<1>7. \A x : Ve(n, x) = Ve(m1, x)
  BY <1>6 DEF Ve
<1>8. Listas(n, np)
  <2>1. \A p : Limpia(n, np, p) <=> Limpia(m1, np, p)
    BY <1>6 DEF Limpia
  <2>2. \A s : Limpias(n, np, s) <=> Limpias(m1, np, s)
    BY <2>1 DEF Limpias
  <2> QED
    BY <1>4, <1>6, <2>2 DEF Listas
<1>9. Directorio(n)
  BY <1>4, <1>6 DEF Directorio
<1> HIDE DEF va
<1>10. ASSUME NEW l \in DOMAIN B, NEW x \in Vas, En(B[l], x) PROVE Ve(n, x) = Pte(B[l], x)
  <2>1. x # va
    BY <1>1, <1>10, VaEnTabla DEF Buenas
  <2>2. Ve(m, x) = Pte(B[l], x)
    BY <1>10 DEF Mapa
  <2> QED
    BY <1>3, <1>7, <1>10, <2>1, <2>2
<1>11. ASSUME NEW x \in Vas, Ve(n, x) # NULL
       PROVE  \/ \E l \in DOMAIN B : En(B[l], x) /\ Ve(n, x) = Pte(B[l], x)
              \/ x \in MMIOBASE .. n.mmio - 1
  <2>1. CASE x = va
    BY <1>1, <1>6, <2>1, Direcciones
  <2>2. CASE x # va
    <3>1. Ve(n, x) = Ve(m, x)
      BY <1>3, <1>7, <1>11, <2>2
    <3>2. x \in MMIOBASE .. m.mmio - 1 => x \in MMIOBASE .. n.mmio - 1
      BY <1>1, <1>6, Direcciones DEF va
    <3> QED
      BY <1>11, <3>1, <3>2 DEF Mapa
  <2> QED
    BY <2>1, <2>2
<1>12. ASSUME NEW x \in MMIOBASE .. n.mmio - 1 PROVE Ve(n, x) = pte
  <2>1. x \in MMIOBASE .. MMIOLIM - 1 /\ (x = va \/ x \in MMIOBASE .. m.mmio - 1)
    BY <1>1, <1>6, <1>12, Direcciones DEF va
  <2>2. x \in Vas
    BY <2>1, Direcciones DEF Vas
  <2>3. x # va => Ve(m, x) = pte
    BY <2>1 DEF Mapa, pte
  <2> QED
    BY <1>3, <1>7, <2>2, <2>3
<1>13. Mapa(B, n, <<>>)
  <2>1. DOMAIN <<>> = {}
    OBVIOUS
  <2>2. \A x \in MMIOBASE .. n.mmio - 1 : Ve(n, x) = [page |-> LAPIC_PAGE, w |-> TRUE, u |-> FALSE]
    BY <1>12 DEF pte
  <2> QED
    BY <1>10, <1>11, <2>1, <2>2 DEF Mapa
<1>14. n.mmio \in MMIOBASE .. MMIOLIM - 1
  BY <1>1, <1>6, Direcciones DEF va
<1> QED
  BY <1>0, <1>3, <1>6, <1>8, <1>9, <1>13, <1>14 DEF Ordenada, Fijos, n, m1, va, pte

\* Before the first call nothing is mapped.
LEMMA MapaInicial ==
    ASSUME NEW B, Buenas(B), NEW m, m.mmio = MMIOBASE, \A x \in Pdx \ {RANURA} : m.pgdir[x] = NULL
    PROVE  Mapa(B, m, B)
<1>1. \A va \in Vas : Ve(m, va) = NULL
  BY VaEnTabla DEF Ve
<1>2. MMIOBASE .. m.mmio - 1 = {}
  BY Direcciones
<1> QED
  BY <1>1, <1>2 DEF Mapa

-----------------------------------------------------------------------------
\* The regions of mem_init and mem_init_mp do not overlap.

\* The array pages fits into the 4 MB of UPAGES.
LEMMA CuantasPages ==
    ASSUME NEW n \in Nat, n > 0, n <= KERN_PAGES
    PROVE  Pages(n, INFOS_PER_PAGE) \in Nat \ {0} /\ Pages(n, INFOS_PER_PAGE) <= PT
<1> DEFINE i == INFOS_PER_PAGE
           a == n + i - 1
           x == a \div i
<1>1. i \in Nat /\ i > 0 /\ PT \in Nat /\ KERN_PAGES \in Nat
  BY Numeros
<1>2. a \in Nat /\ a >= i /\ a < n + i
  BY <1>1
<1> HIDE DEF i, a
<1>3. x \in Nat /\ i * x <= a /\ a < i * x + i
  <2>1. x \in Nat /\ a % i \in 0 .. i - 1 /\ a = i * x + (a % i)
    BY <1>1, <1>2
  <2> HIDE DEF x
  <2>2. i * x \in Nat
    BY <1>1, <2>1
  <2> QED
    BY <1>1, <2>1, <2>2
<1> HIDE DEF x
<1>4. x # 0
  BY <1>1, <1>2, <1>3
<1>5. n <= i * PT
  <2>1. KERN_PAGES <= PT * INFOS_PER_PAGE
    BY BootAssumption
  <2>2. KERN_PAGES <= PT * i /\ PT * i = i * PT /\ PT * i \in Nat
    BY <1>1, <2>1 DEF i
  <2> QED
    BY <1>1, <2>2
<1>6. PT < x => i * PT + i <= i * x
  BY <1>1, <1>3, Monotonic
<1>7. i * PT \in Nat /\ i * x \in Nat
  BY <1>1, <1>3
<1>8. x <= PT
  BY <1>1, <1>2, <1>3, <1>5, <1>6, <1>7
<1> QED
  BY <1>3, <1>4, <1>8 DEF x, a, i, Pages

\* The stacks go down from KSTACKTOP and end where the MMIO region does, and
\* each has its pages of memory.
LEMMA Pilas ==
    /\ \A i \in 0 .. NCPU - 1 :
        /\ StackTop(i) \in Nat /\ StackTop(i) <= KSTACKTOP
        /\ MMIOLIM + KSTKSIZE + KSTKGAP <= StackTop(i)
        /\ percpu_kstacks(i) \in Nat
        /\ bootstack + KSTKSIZE <= percpu_kstacks(i)
        /\ KSTACKTOP - (KSTKSIZE + KSTKGAP) * (i + 1) = StackTop(i) - KSTKSIZE - KSTKGAP
    /\ \A i, j \in 0 .. NCPU - 1 : i < j =>
        /\ StackTop(j) + KSTKSIZE + KSTKGAP <= StackTop(i)
        /\ percpu_kstacks(i) + KSTKSIZE <= percpu_kstacks(j)
<1> DEFINE D == KSTKSIZE + KSTKGAP
<1>1. /\ D \in Nat /\ KSTKSIZE \in Nat /\ KSTKGAP \in Nat /\ NCPU \in Nat /\ PT \in Nat
      /\ EXTPHYSMEM \in Nat
  BY Numeros
<1>2. MMIOLIM = 4 * PT /\ KSTACKTOP = 5 * PT
  BY Direcciones
<1>3. D * NCPU <= PT
  <2>1. NCPU * (KSTKSIZE + KSTKGAP) <= PT
    BY BootAssumption
  <2> HIDE DEF D
  <2>2. NCPU * D <= PT
    BY <2>1 DEF D
  <2> QED
    BY <1>1, <2>2
<1>4. D = KSTKSIZE + KSTKGAP
  OBVIOUS
<1> HIDE DEF D
<1>5. \A i \in Nat : StackTop(i) = KSTACKTOP - D * i
  <2> SUFFICES ASSUME NEW i \in Nat PROVE KSTACKTOP - i * D = KSTACKTOP - D * i
    BY <1>4 DEF StackTop
  <2> QED
    BY <1>1
<1>6. \A i \in Nat : percpu_kstacks(i) = EXTPHYSMEM + KSTKSIZE * i + KSTKSIZE
  <2> SUFFICES ASSUME NEW i \in Nat
               PROVE  EXTPHYSMEM + (i + 1) * KSTKSIZE = EXTPHYSMEM + KSTKSIZE * i + KSTKSIZE
    BY DEF percpu_kstacks, bootstack
  <2> QED
    BY <1>1
<1>7. ASSUME NEW i \in 0 .. NCPU - 1
      PROVE  /\ StackTop(i) \in Nat /\ StackTop(i) <= KSTACKTOP
             /\ MMIOLIM + KSTKSIZE + KSTKGAP <= StackTop(i)
             /\ percpu_kstacks(i) \in Nat
             /\ bootstack + KSTKSIZE <= percpu_kstacks(i)
             /\ KSTACKTOP - (KSTKSIZE + KSTKGAP) * (i + 1) = StackTop(i) - KSTKSIZE - KSTKGAP
  <2>1. D * i \in Nat /\ KSTKSIZE * i \in Nat /\ D * NCPU \in Nat /\ i \in Nat
    BY <1>1
  <2>2. D * i + D <= D * NCPU
    BY <1>1, Monotonic
  <2>3. StackTop(i) = KSTACKTOP - D * i
    BY <1>5, <2>1
  <2>4. percpu_kstacks(i) = EXTPHYSMEM + KSTKSIZE * i + KSTKSIZE
    BY <1>6, <2>1
  <2>5. D * (i + 1) = D * i + D
    BY <1>1, <2>1
  <2> HIDE DEF StackTop
  <2>6. StackTop(i) \in Nat /\ StackTop(i) <= KSTACKTOP /\ MMIOLIM + D <= StackTop(i)
    BY <1>1, <1>2, <1>3, <2>1, <2>2, <2>3
  <2>7. KSTACKTOP - D * (i + 1) = StackTop(i) - D
    BY <1>1, <1>2, <2>1, <2>3, <2>5
  <2>8. percpu_kstacks(i) \in Nat /\ EXTPHYSMEM + KSTKSIZE <= percpu_kstacks(i)
    BY <1>1, <2>1, <2>4
  <2> QED
    BY <1>1, <1>2, <1>4, <2>6, <2>7, <2>8 DEF bootstack
<1>8. ASSUME NEW i \in 0 .. NCPU - 1, NEW j \in 0 .. NCPU - 1, i < j
      PROVE  /\ StackTop(j) + KSTKSIZE + KSTKGAP <= StackTop(i)
             /\ percpu_kstacks(i) + KSTKSIZE <= percpu_kstacks(j)
  <2>1. i \in Nat /\ j \in Nat /\ D * i \in Nat /\ D * j \in Nat /\ KSTKSIZE * i \in Nat
        /\ KSTKSIZE * j \in Nat
    BY <1>1
  <2>2. D * i + D <= D * j /\ KSTKSIZE * i + KSTKSIZE <= KSTKSIZE * j
    BY <1>1, <1>8, Monotonic
  <2>3. StackTop(i) = KSTACKTOP - D * i /\ StackTop(j) = KSTACKTOP - D * j
    BY <1>5, <2>1
  <2>4. /\ percpu_kstacks(i) = EXTPHYSMEM + KSTKSIZE * i + KSTKSIZE
        /\ percpu_kstacks(j) = EXTPHYSMEM + KSTKSIZE * j + KSTKSIZE
    BY <1>6, <2>1
  <2>5. StackTop(j) + D <= StackTop(i)
    BY <1>1, <1>2, <2>1, <2>2, <2>3
  <2>6. percpu_kstacks(i) + KSTKSIZE <= percpu_kstacks(j)
    BY <1>1, <2>1, <2>2, <2>4
  <2> QED
    BY <1>1, <1>2, <1>4, <2>1, <2>3, <2>5, <2>6
<1> QED
  BY <1>7, <1>8

\* What BootRegions starts from.
Asignada(m) ==
    /\ npages \in Nat /\ npages > 0 /\ npages <= KERN_PAGES
    /\ m.pages \in Nat /\ m.envs \in Nat

RPaginas(m) == Region(UPAGES, Pages(npages, INFOS_PER_PAGE), m.pages, FALSE, TRUE)
REntornos(m) == Region(UENVS, ENVS_PAGES, m.envs, FALSE, TRUE)
RNucleo == Region(KERNBASE, KERN_PAGES, 0, TRUE, FALSE)

LEMMA RegionesPartes ==
    ASSUME NEW m, Asignada(m)
    PROVE  /\ RPaginas(m) \in Regiones /\ REntornos(m) \in Regiones /\ RNucleo \in Regiones
           /\ \A i \in 0 .. NCPU - 1 : StackRegion(i) \in Regiones
           /\ \A x : En(RPaginas(m), x) <=> PT <= x /\ x < PT + Pages(npages, INFOS_PER_PAGE)
           /\ \A x : En(REntornos(m), x) <=> 0 <= x /\ x < 0 + ENVS_PAGES
           /\ \A x : En(RNucleo, x) <=> 5 * PT <= x /\ x < 5 * PT + KERN_PAGES
           /\ \A x : Pte(RPaginas(m), x) = [page |-> m.pages + (x - PT), w |-> FALSE, u |-> TRUE]
           /\ \A x : Pte(REntornos(m), x) = [page |-> m.envs + (x - 0), w |-> FALSE, u |-> TRUE]
           /\ \A x : Pte(RNucleo, x) = [page |-> 0 + (x - 5 * PT), w |-> TRUE, u |-> FALSE]
           /\ \A i \in 0 .. NCPU - 1 : \A x :
                /\ En(StackRegion(i), x) <=>
                    StackTop(i) - KSTKSIZE <= x /\ x < StackTop(i) - KSTKSIZE + KSTKSIZE
                /\ Pte(StackRegion(i), x) =
                    [page |-> percpu_kstacks(i) + (x - (StackTop(i) - KSTKSIZE)),
                     w |-> TRUE, u |-> FALSE]
<1>1. /\ KERN_PAGES \in Nat \ {0} /\ m.pages \in Nat /\ m.envs \in Nat
      /\ Pages(npages, INFOS_PER_PAGE) \in Nat \ {0} /\ ENVS_PAGES \in Nat \ {0}
  BY Numeros, CuantasPages DEF Asignada
<1>2. UPAGES = PT /\ UENVS = 0 /\ KERNBASE = 5 * PT /\ PT \in Nat /\ 5 * PT \in Nat
  BY Direcciones
<1>3. /\ RPaginas(m) \in Regiones
      /\ \A x : En(RPaginas(m), x) <=> PT <= x /\ x < PT + Pages(npages, INFOS_PER_PAGE)
      /\ \A x : Pte(RPaginas(m), x) = [page |-> m.pages + (x - PT), w |-> FALSE, u |-> TRUE]
  <2> HIDE DEF Pages, UPAGES
  <2> QED
    BY <1>1, <1>2 DEF RPaginas, Region, Regiones, En, Pte
<1>4. /\ REntornos(m) \in Regiones
      /\ \A x : En(REntornos(m), x) <=> 0 <= x /\ x < 0 + ENVS_PAGES
      /\ \A x : Pte(REntornos(m), x) = [page |-> m.envs + (x - 0), w |-> FALSE, u |-> TRUE]
  BY <1>1, <1>2 DEF REntornos, Region, Regiones, En, Pte
<1>5. /\ RNucleo \in Regiones
      /\ \A x : En(RNucleo, x) <=> 5 * PT <= x /\ x < 5 * PT + KERN_PAGES
      /\ \A x : Pte(RNucleo, x) = [page |-> 0 + (x - 5 * PT), w |-> TRUE, u |-> FALSE]
  BY <1>1, <1>2 DEF RNucleo, Region, Regiones, En, Pte
<1>6. ASSUME NEW i \in 0 .. NCPU - 1
      PROVE  /\ StackRegion(i) \in Regiones
             /\ \A x : En(StackRegion(i), x) <=>
                    StackTop(i) - KSTKSIZE <= x /\ x < StackTop(i) - KSTKSIZE + KSTKSIZE
             /\ \A x : Pte(StackRegion(i), x) =
                    [page |-> percpu_kstacks(i) + (x - (StackTop(i) - KSTKSIZE)),
                     w |-> TRUE, u |-> FALSE]
  <2>1. /\ StackTop(i) \in Nat /\ MMIOLIM + KSTKSIZE + KSTKGAP <= StackTop(i)
        /\ percpu_kstacks(i) \in Nat
    BY Pilas
  <2> HIDE DEF StackTop, percpu_kstacks
  <2>2. StackTop(i) - KSTKSIZE \in Nat /\ KSTKSIZE \in Nat \ {0}
    BY <2>1, Direcciones, Numeros
  <2> QED
    BY <2>1, <2>2 DEF StackRegion, Region, Regiones, En, Pte
<1> QED
  BY <1>3, <1>4, <1>5, <1>6

LEMMA TresYOtras ==
    ASSUME NEW S, NEW n \in Nat, NEW s \in Seq(S), NEW t \in Seq(S), Len(s) = 3, Len(t) = n
    PROVE  /\ s \o t \in Seq(S) /\ DOMAIN (s \o t) = 1 .. 3 + n
           /\ (s \o t)[1] = s[1] /\ (s \o t)[2] = s[2] /\ (s \o t)[3] = s[3]
           /\ \A k \in 1 .. n : (s \o t)[k + 3] = t[k]
<1> DEFINE u == s \o t
<1>0. /\ u \in Seq(S) /\ Len(u) = Len(s) + Len(t)
      /\ \A k \in 1 .. Len(s) + Len(t) : u[k] = IF k <= Len(s) THEN s[k] ELSE t[k - Len(s)]
  BY ConcatProperties
<1> HIDE DEF u
<1>1. u \in Seq(S) /\ Len(u) = 3 + n
  BY <1>0
<1>2. \A k \in 1 .. 3 + n : u[k] = IF k <= 3 THEN s[k] ELSE t[k - 3]
  BY <1>0
<1>3. DOMAIN u = 1 .. 3 + n
  BY <1>1
<1>4. ASSUME NEW k \in 1 .. n PROVE u[k + 3] = t[k]
  <2>1. k + 3 \in 1 .. 3 + n /\ ~(k + 3 <= 3) /\ (k + 3) - 3 = k
    OBVIOUS
  <2> QED
    BY <1>2, <2>1
<1>5. u[1] = s[1] /\ u[2] = s[2] /\ u[3] = s[3]
  <2>1. 1 \in 1 .. 3 + n /\ 2 \in 1 .. 3 + n /\ 3 \in 1 .. 3 + n
    OBVIOUS
  <2> QED
    BY <1>2, <2>1
<1> QED
  BY <1>1, <1>3, <1>4, <1>5 DEF u

LEMMA BootRegionsPartes ==
    ASSUME NEW m, Asignada(m)
    PROVE  LET B == BootRegions(m) IN
           /\ B \in Seq(Regiones) /\ NCPU \in Nat /\ DOMAIN B = 1 .. 3 + NCPU
           /\ B[1] = RPaginas(m) /\ B[2] = REntornos(m) /\ B[3] = RNucleo
           /\ \A i \in 0 .. NCPU - 1 : i + 4 \in DOMAIN B /\ B[i + 4] = StackRegion(i)
<1> DEFINE s == <<RPaginas(m), REntornos(m), RNucleo>>
           t == [k \in 1 .. NCPU |-> StackRegion(k - 1)]
<1>1. NCPU \in Nat
  BY Numeros
<1>2. s \in Seq(Regiones) /\ Len(s) = 3
  BY RegionesPartes
<1>3. t \in Seq(Regiones) /\ Len(t) = NCPU
  <2>1. \A k \in 1 .. NCPU : k - 1 \in 0 .. NCPU - 1
    BY <1>1
  <2>2. t \in [1 .. NCPU -> Regiones]
    BY <2>1, RegionesPartes
  <2> QED
    BY <1>1, <2>2
<1>4. BootRegions(m) = s \o t
  BY DEF BootRegions, RPaginas, REntornos, RNucleo
<1>5. s[1] = RPaginas(m) /\ s[2] = REntornos(m) /\ s[3] = RNucleo
  OBVIOUS
<1>6. \A i \in 0 .. NCPU - 1 : i + 1 \in 1 .. NCPU /\ t[i + 1] = StackRegion(i)
  <2> SUFFICES ASSUME NEW i \in 0 .. NCPU - 1
               PROVE i + 1 \in 1 .. NCPU /\ t[i + 1] = StackRegion(i)
    OBVIOUS
  <2>1. i + 1 \in 1 .. NCPU /\ (i + 1) - 1 = i
    BY <1>1
  <2> QED
    BY <2>1
<1> HIDE DEF s, t
<1>7. /\ s \o t \in Seq(Regiones) /\ DOMAIN (s \o t) = 1 .. 3 + NCPU
      /\ (s \o t)[1] = s[1] /\ (s \o t)[2] = s[2] /\ (s \o t)[3] = s[3]
      /\ \A k \in 1 .. NCPU : (s \o t)[k + 3] = t[k]
  BY <1>1, <1>2, <1>3, TresYOtras
<1>8. \A i \in 0 .. NCPU - 1 : i + 4 \in 1 .. 3 + NCPU /\ (s \o t)[i + 4] = StackRegion(i)
  <2> SUFFICES ASSUME NEW i \in 0 .. NCPU - 1
               PROVE i + 4 \in 1 .. 3 + NCPU /\ (s \o t)[i + 4] = StackRegion(i)
    OBVIOUS
  <2>1. i + 1 \in 1 .. NCPU /\ (i + 1) + 3 = i + 4 /\ i + 4 \in 1 .. 3 + NCPU
    BY <1>1
  <2> QED
    BY <1>6, <1>7, <2>1
<1> QED
  BY <1>1, <1>4, <1>5, <1>7, <1>8

\* A position of BootRegions is one of the first three or that of a stack.
LEMMA BootRegionsCasos ==
    ASSUME NEW m, Asignada(m), NEW k \in DOMAIN BootRegions(m)
    PROVE  \/ k \in 1 .. 3
           \/ k - 4 \in 0 .. NCPU - 1 /\ BootRegions(m)[k] = StackRegion(k - 4)
<1> DEFINE B == BootRegions(m)
<1>1. /\ NCPU \in Nat /\ DOMAIN B = 1 .. 3 + NCPU
      /\ \A i \in 0 .. NCPU - 1 : B[i + 4] = StackRegion(i)
  BY BootRegionsPartes
<1> HIDE DEF B
<1>2. k \in 1 .. 3 + NCPU
  BY <1>1 DEF B
<1>3. k \notin 1 .. 3 => k - 4 \in 0 .. NCPU - 1 /\ (k - 4) + 4 = k
  BY <1>1, <1>2
<1>4. k \notin 1 .. 3 => B[k] = StackRegion(k - 4)
  BY <1>1, <1>3
<1> QED
  BY <1>3, <1>4 DEF B

LEMMA BootRegionsBuenas ==
    ASSUME NEW m, Asignada(m)
    PROVE  Buenas(BootRegions(m))
<1> DEFINE B == BootRegions(m)
<1>1. /\ B \in Seq(Regiones)
      /\ B[1] = RPaginas(m) /\ B[2] = REntornos(m) /\ B[3] = RNucleo
  BY BootRegionsPartes
<1>2. \A k \in DOMAIN B : \/ k \in 1 .. 3
                          \/ k - 4 \in 0 .. NCPU - 1 /\ B[k] = StackRegion(k - 4)
  BY BootRegionsCasos
<1> HIDE DEF B
<1>3. /\ UENVS = 0 /\ UVPT = 2 * PT /\ MMIOBASE = 3 * PT /\ MMIOLIM = 4 * PT
      /\ KSTACKTOP = 5 * PT /\ KERNBASE = 5 * PT /\ PT \in Nat \ {0} /\ KERN_PAGES \in Nat
      /\ KSTKSIZE \in Nat /\ KSTKGAP \in Nat /\ ENVS_PAGES \in Nat /\ ENVS_PAGES <= PT
  BY Direcciones, Numeros, BootAssumption
<1>4. Pages(npages, INFOS_PER_PAGE) \in Nat /\ Pages(npages, INFOS_PER_PAGE) <= PT
  BY CuantasPages DEF Asignada
<1>5. /\ \A x \in Nat : En(RPaginas(m), x) => PT <= x /\ x < 2 * PT
      /\ \A x \in Nat : En(REntornos(m), x) => x < PT
      /\ \A x \in Nat : En(RNucleo, x) => 5 * PT <= x /\ x < 5 * PT + KERN_PAGES
  BY <1>3, <1>4, RegionesPartes
<1>6. \A i \in 0 .. NCPU - 1, x \in Nat : En(StackRegion(i), x) =>
        StackTop(i) - KSTKSIZE <= x /\ x < StackTop(i) /\ 4 * PT <= x /\ x < 5 * PT
  <2> SUFFICES ASSUME NEW i \in 0 .. NCPU - 1, NEW x \in Nat, En(StackRegion(i), x)
               PROVE  StackTop(i) - KSTKSIZE <= x /\ x < StackTop(i) /\ 4 * PT <= x /\ x < 5 * PT
    OBVIOUS
  <2>1. StackTop(i) \in Nat /\ StackTop(i) <= KSTACKTOP
        /\ MMIOLIM + KSTKSIZE + KSTKGAP <= StackTop(i)
    BY Pilas
  <2>2. StackTop(i) - KSTKSIZE <= x /\ x < StackTop(i) - KSTKSIZE + KSTKSIZE
    BY RegionesPartes
  <2> HIDE DEF StackTop
  <2> QED
    BY <1>3, <2>1, <2>2
<1>7. ASSUME NEW k \in DOMAIN B, NEW x \in Nat, En(B[k], x)
      PROVE  /\ k = 1 => PT <= x /\ x < 2 * PT
             /\ k = 2 => x < PT
             /\ k = 3 => 5 * PT <= x /\ x < 5 * PT + KERN_PAGES
             /\ k \notin {1, 2, 3} => /\ k - 4 \in 0 .. NCPU - 1 /\ 4 * PT <= x /\ x < 5 * PT
                                      /\ StackTop(k - 4) - KSTKSIZE <= x /\ x < StackTop(k - 4)
  BY <1>1, <1>2, <1>5, <1>6, <1>7
<1>8. ASSUME NEW k \in DOMAIN B, NEW x \in Nat, En(B[k], x)
      PROVE  x \in Vas /\ x \notin MMIOBASE .. MMIOLIM - 1
  BY <1>3, <1>7, <1>8 DEF Vas
<1>9. ASSUME NEW j \in DOMAIN B, NEW k \in DOMAIN B, NEW x \in Nat, En(B[j], x), En(B[k], x)
      PROVE  j = k
  <2>1. CASE j \in {1, 2, 3} \/ k \in {1, 2, 3}
    BY <1>3, <1>7, <1>9, <2>1
  <2>2. CASE j \notin {1, 2, 3} /\ k \notin {1, 2, 3}
    <3>1. /\ j - 4 \in 0 .. NCPU - 1 /\ StackTop(j - 4) - KSTKSIZE <= x /\ x < StackTop(j - 4)
          /\ k - 4 \in 0 .. NCPU - 1 /\ StackTop(k - 4) - KSTKSIZE <= x /\ x < StackTop(k - 4)
      BY <1>7, <1>9, <2>2
    <3>2. StackTop(j - 4) \in Nat /\ StackTop(k - 4) \in Nat
      BY <3>1, Pilas
    <3>3. /\ j - 4 < k - 4 => StackTop(k - 4) + KSTKSIZE + KSTKGAP <= StackTop(j - 4)
          /\ k - 4 < j - 4 => StackTop(j - 4) + KSTKSIZE + KSTKGAP <= StackTop(k - 4)
      BY <3>1, Pilas
    <3>4. j \in Int /\ k \in Int
      BY <1>1
    <3> HIDE DEF StackTop
    <3>5. ~(j - 4 < k - 4) /\ ~(k - 4 < j - 4)
      BY <1>3, <3>1, <3>2, <3>3
    <3> QED
      BY <3>4, <3>5
  <2> QED
    BY <2>1, <2>2
<1> QED
  BY <1>1, <1>8, <1>9 DEF Buenas, B

-----------------------------------------------------------------------------
\* When every region is mapped the assertions of check_kern_pgdir hold.

LEMMA DeLectura ==
    ASSUME NEW x \in Nat, NEW e, e = [page |-> x, w |-> FALSE, u |-> TRUE]
    PROVE  e # NULL /\ e.page = x /\ ~e.w /\ e.u
<1>1. e \in Ptes /\ e.page = x /\ ~e.w /\ e.u
  BY DEF Ptes
<1> QED
  BY <1>1, NuloAparte

LEMMA DelNucleo ==
    ASSUME NEW x \in Nat, NEW e, e = [page |-> x, w |-> TRUE, u |-> FALSE]
    PROVE  e # NULL /\ e.page = x /\ e.w /\ ~e.u
<1>1. e \in Ptes /\ e.page = x /\ e.w /\ ~e.u
  BY DEF Ptes
<1> QED
  BY <1>1, NuloAparte

Completa(m) ==
    /\ Asignada(m) /\ Mapa(BootRegions(m), m, <<>>)
    /\ m.mmio \in MMIOBASE .. MMIOLIM - 1

LEMMA EnRegion ==
    ASSUME NEW m, Completa(m), NEW k \in DOMAIN BootRegions(m), NEW va \in Nat,
           En(BootRegions(m)[k], va)
    PROVE  va \in Vas /\ Ve(m, va) = Pte(BootRegions(m)[k], va)
<1> DEFINE B == BootRegions(m)
<1>1. Buenas(B)
  BY BootRegionsBuenas DEF Completa
<1>2. DOMAIN <<>> = {}
  OBVIOUS
<1> QED
  BY <1>1, <1>2 DEF Completa, Mapa, Buenas

LEMMA PaginasEnSuSitio ==
    ASSUME NEW m, Completa(m)
    PROVE  /\ \A i \in 0 .. Pages(npages, INFOS_PER_PAGE) - 1 :
                Ve(m, UPAGES + i) # NULL /\ Ve(m, UPAGES + i).page = m.pages + i
           /\ \A i \in 0 .. ENVS_PAGES - 1 :
                Ve(m, UENVS + i) # NULL /\ Ve(m, UENVS + i).page = m.envs + i
           /\ \A i \in 0 .. npages - 1 :
                Ve(m, KERNBASE + i) # NULL /\ Ve(m, KERNBASE + i).page = i
<1> DEFINE B == BootRegions(m)
<1>1. Asignada(m)
  BY DEF Completa
<1>2. /\ NCPU \in Nat /\ DOMAIN B = 1 .. 3 + NCPU
      /\ B[1] = RPaginas(m) /\ B[2] = REntornos(m) /\ B[3] = RNucleo
  BY <1>1, BootRegionsPartes
<1>3. \A k \in DOMAIN B, va \in Nat : En(B[k], va) => Ve(m, va) = Pte(B[k], va)
  BY EnRegion
<1> HIDE DEF B
<1>4. /\ UPAGES = PT /\ UENVS = 0 /\ KERNBASE = 5 * PT /\ PT \in Nat
      /\ ENVS_PAGES \in Nat /\ KERN_PAGES \in Nat
      /\ npages \in Nat /\ npages <= KERN_PAGES /\ m.pages \in Nat /\ m.envs \in Nat
      /\ Pages(npages, INFOS_PER_PAGE) \in Nat
  BY <1>1, Direcciones, Numeros, CuantasPages DEF Asignada
<1>5. ASSUME NEW i \in 0 .. Pages(npages, INFOS_PER_PAGE) - 1
      PROVE  Ve(m, UPAGES + i) # NULL /\ Ve(m, UPAGES + i).page = m.pages + i
  <2> HIDE DEF Pages, UPAGES
  <2>1. PT + i \in Nat /\ PT <= PT + i /\ PT + i < PT + Pages(npages, INFOS_PER_PAGE)
        /\ m.pages + ((PT + i) - PT) = m.pages + i /\ m.pages + i \in Nat
    BY <1>4
  <2>2. En(RPaginas(m), PT + i)
    BY <1>1, <2>1, RegionesPartes
  <2>3. 1 \in DOMAIN B
    BY <1>2
  <2>4. Ve(m, PT + i) = Pte(RPaginas(m), PT + i)
    BY <1>2, <1>3, <2>1, <2>2, <2>3
  <2>5. PICK v \in Nat : v = PT + i
    BY <2>1
  <2>6. Pte(RPaginas(m), v) = [page |-> m.pages + (v - PT), w |-> FALSE, u |-> TRUE]
    BY <1>1, <2>5, RegionesPartes
  <2>7. Ve(m, PT + i) = [page |-> m.pages + i, w |-> FALSE, u |-> TRUE]
    BY <2>1, <2>4, <2>5, <2>6
  <2> QED
    BY <1>4, <2>1, <2>7, DeLectura
<1>6. ASSUME NEW i \in 0 .. ENVS_PAGES - 1
      PROVE  Ve(m, UENVS + i) # NULL /\ Ve(m, UENVS + i).page = m.envs + i
  <2> HIDE DEF UENVS
  <2>1. i \in Nat /\ 0 <= i /\ i < 0 + ENVS_PAGES /\ UENVS + i = i
        /\ m.envs + (i - 0) = m.envs + i /\ m.envs + i \in Nat
    BY <1>4
  <2>2. En(REntornos(m), i)
    BY <1>1, <2>1, RegionesPartes
  <2>3. 2 \in DOMAIN B
    BY <1>2
  <2>4. Ve(m, i) = Pte(REntornos(m), i)
    BY <1>2, <1>3, <2>1, <2>2, <2>3
  <2>5. Ve(m, i) = [page |-> m.envs + i, w |-> FALSE, u |-> TRUE]
    BY <1>1, <2>1, <2>4, RegionesPartes
  <2> QED
    BY <2>1, <2>5, DeLectura
<1>7. ASSUME NEW i \in 0 .. npages - 1
      PROVE  Ve(m, KERNBASE + i) # NULL /\ Ve(m, KERNBASE + i).page = i
  <2> HIDE DEF KERNBASE
  <2>1. /\ 5 * PT + i \in Nat /\ 5 * PT <= 5 * PT + i /\ 5 * PT + i < 5 * PT + KERN_PAGES
        /\ 0 + ((5 * PT + i) - 5 * PT) = i /\ i \in Nat
    BY <1>4
  <2>2. En(RNucleo, 5 * PT + i)
    BY <1>1, <2>1, RegionesPartes
  <2>3. 3 \in DOMAIN B
    BY <1>2
  <2>4. Ve(m, 5 * PT + i) = Pte(RNucleo, 5 * PT + i)
    BY <1>2, <1>3, <2>1, <2>2, <2>3
  <2>5. Ve(m, 5 * PT + i) = [page |-> i, w |-> TRUE, u |-> FALSE]
    BY <1>1, <2>1, <2>4, RegionesPartes
  <2> QED
    BY <1>4, <2>1, <2>5, DelNucleo
<1> QED
  BY <1>5, <1>6, <1>7

LEMMA PilasEnSuSitio ==
    ASSUME NEW m, Completa(m), NEW k \in 0 .. NCPU - 1
    PROVE  /\ \A i \in 0 .. KSTKSIZE - 1 :
                /\ Ve(m, StackTop(k) - KSTKSIZE + i) # NULL
                /\ Ve(m, StackTop(k) - KSTKSIZE + i).page = percpu_kstacks(k) + i
           /\ \A i \in 0 .. KSTKGAP - 1 : Ve(m, StackTop(k) - KSTKSIZE - KSTKGAP + i) = NULL
<1> DEFINE B == BootRegions(m)
<1>1. Asignada(m)
  BY DEF Completa
<1>2. /\ NCPU \in Nat /\ DOMAIN B = 1 .. 3 + NCPU
      /\ B[1] = RPaginas(m) /\ B[2] = REntornos(m) /\ B[3] = RNucleo
      /\ k + 4 \in DOMAIN B /\ B[k + 4] = StackRegion(k)
  BY <1>1, BootRegionsPartes
<1>3. \A j \in DOMAIN B, va \in Nat : En(B[j], va) => Ve(m, va) = Pte(B[j], va)
  BY EnRegion
<1>4. \A j \in DOMAIN B : \/ j \in 1 .. 3
                          \/ j - 4 \in 0 .. NCPU - 1 /\ B[j] = StackRegion(j - 4)
  BY <1>1, BootRegionsCasos
<1>5. \A va \in Vas : Ve(m, va) # NULL =>
        (\E j \in DOMAIN B : En(B[j], va)) \/ va \in MMIOBASE .. m.mmio - 1
  BY DEF Completa, Mapa
<1> HIDE DEF B
<1>6. /\ UENVS = 0 /\ UVPT = 2 * PT /\ MMIOBASE = 3 * PT /\ MMIOLIM = 4 * PT
      /\ KSTACKTOP = 5 * PT /\ KERNBASE = 5 * PT /\ PT \in Nat \ {0} /\ KERN_PAGES \in Nat
      /\ KSTKSIZE \in Nat /\ KSTKGAP \in Nat /\ ENVS_PAGES \in Nat /\ ENVS_PAGES <= PT
      /\ m.mmio \in MMIOBASE .. MMIOLIM - 1
      /\ Pages(npages, INFOS_PER_PAGE) \in Nat /\ Pages(npages, INFOS_PER_PAGE) <= PT
  BY <1>1, Direcciones, Numeros, BootAssumption, CuantasPages DEF Completa, Asignada
<1>7. /\ StackTop(k) \in Nat /\ StackTop(k) <= KSTACKTOP
      /\ MMIOLIM + KSTKSIZE + KSTKGAP <= StackTop(k) /\ percpu_kstacks(k) \in Nat
  BY Pilas
<1>8. ASSUME NEW i \in 0 .. KSTKSIZE - 1
      PROVE  /\ Ve(m, StackTop(k) - KSTKSIZE + i) # NULL
             /\ Ve(m, StackTop(k) - KSTKSIZE + i).page = percpu_kstacks(k) + i
  <2> DEFINE va == StackTop(k) - KSTKSIZE + i
  <2> HIDE DEF StackTop, percpu_kstacks
  <2>1. /\ va \in Nat /\ StackTop(k) - KSTKSIZE <= va /\ va < StackTop(k) - KSTKSIZE + KSTKSIZE
        /\ percpu_kstacks(k) + (va - (StackTop(k) - KSTKSIZE)) = percpu_kstacks(k) + i
        /\ percpu_kstacks(k) + i \in Nat
    BY <1>6, <1>7
  <2> HIDE DEF va
  <2>2. En(StackRegion(k), va)
    BY <1>1, <2>1, RegionesPartes
  <2>3. Ve(m, va) = Pte(StackRegion(k), va)
    BY <1>2, <1>3, <2>1, <2>2
  <2>4. Ve(m, va) = [page |-> percpu_kstacks(k) + i, w |-> TRUE, u |-> FALSE]
    BY <1>1, <2>1, <2>3, RegionesPartes
  <2>5. Ve(m, va) # NULL /\ Ve(m, va).page = percpu_kstacks(k) + i
    BY <2>1, <2>4, DelNucleo
  <2> QED
    BY <2>5 DEF va
<1>9. ASSUME NEW i \in 0 .. KSTKGAP - 1
      PROVE  Ve(m, StackTop(k) - KSTKSIZE - KSTKGAP + i) = NULL
  <2> DEFINE va == StackTop(k) - KSTKSIZE - KSTKGAP + i
  <2> HIDE DEF StackTop, percpu_kstacks, Pages
  <2>1. /\ va \in Nat /\ 4 * PT <= va /\ va < StackTop(k) - KSTKSIZE /\ va < 5 * PT
        /\ StackTop(k) <= va + KSTKSIZE + KSTKGAP
    BY <1>6, <1>7
  <2> HIDE DEF va
  <2>2. va \in Vas /\ va \notin MMIOBASE .. m.mmio - 1
    BY <1>6, <2>1 DEF Vas
  <2>3. /\ ~En(RPaginas(m), va) /\ ~En(REntornos(m), va) /\ ~En(RNucleo, va)
    BY <1>1, <1>6, <2>1, RegionesPartes
  <2>4. ASSUME NEW j \in 0 .. NCPU - 1 PROVE ~En(StackRegion(j), va)
    <3>1. StackTop(j) \in Nat
      BY Pilas
    <3>2. En(StackRegion(j), va) <=>
            StackTop(j) - KSTKSIZE <= va /\ va < StackTop(j) - KSTKSIZE + KSTKSIZE
      BY <1>1, RegionesPartes
    <3>3. /\ j < k => StackTop(k) + KSTKSIZE + KSTKGAP <= StackTop(j)
          /\ k < j => StackTop(j) + KSTKSIZE + KSTKGAP <= StackTop(k)
      BY Pilas
    <3>4. CASE j = k
      BY <1>6, <1>7, <2>1, <3>2, <3>4
    <3>5. CASE j < k
      BY <1>6, <1>7, <2>1, <3>1, <3>2, <3>3, <3>5
    <3>6. CASE k < j
      BY <1>6, <1>7, <2>1, <3>1, <3>2, <3>3, <3>6
    <3>7. j < k \/ j = k \/ k < j
      BY <1>2
    <3> QED
      BY <3>4, <3>5, <3>6, <3>7
  <2>5. \A j \in DOMAIN B : ~En(B[j], va)
    <3> SUFFICES ASSUME NEW j \in DOMAIN B PROVE ~En(B[j], va)
      OBVIOUS
    <3>1. j = 1 \/ j = 2 \/ j = 3 \/ (j - 4 \in 0 .. NCPU - 1 /\ B[j] = StackRegion(j - 4))
      BY <1>4
    <3> QED
      BY <1>2, <2>3, <2>4, <3>1
  <2>6. Ve(m, va) = NULL
    BY <1>5, <2>2, <2>5
  <2> QED
    BY <2>6 DEF va
<1> QED
  BY <1>8, <1>9

LEMMA Permisos ==
    ASSUME NEW m, Completa(m), NEW va \in Vas, Ve(m, va) # NULL
    PROVE  (Ve(m, va).u <=> va < UVPT) /\ (Ve(m, va).w <=> va >= MMIOBASE)
<1> DEFINE B == BootRegions(m)
<1>1. Asignada(m)
  BY DEF Completa
<1>2. /\ NCPU \in Nat /\ DOMAIN B = 1 .. 3 + NCPU
      /\ B[1] = RPaginas(m) /\ B[2] = REntornos(m) /\ B[3] = RNucleo
  BY <1>1, BootRegionsPartes
<1>3. \A j \in DOMAIN B : \/ j \in 1 .. 3
                          \/ j - 4 \in 0 .. NCPU - 1 /\ B[j] = StackRegion(j - 4)
  BY <1>1, BootRegionsCasos
<1>4. \/ \E j \in DOMAIN B : En(B[j], va) /\ Ve(m, va) = Pte(B[j], va)
      \/ va \in MMIOBASE .. m.mmio - 1
  BY DEF Completa, Mapa
<1>5. va \in MMIOBASE .. m.mmio - 1 =>
        Ve(m, va) = [page |-> LAPIC_PAGE, w |-> TRUE, u |-> FALSE]
  BY DEF Completa, Mapa
<1> HIDE DEF B
<1>6. /\ UENVS = 0 /\ UVPT = 2 * PT /\ MMIOBASE = 3 * PT /\ MMIOLIM = 4 * PT
      /\ KSTACKTOP = 5 * PT /\ KERNBASE = 5 * PT /\ PT \in Nat \ {0} /\ KERN_PAGES \in Nat
      /\ KSTKSIZE \in Nat /\ KSTKGAP \in Nat /\ ENVS_PAGES \in Nat /\ ENVS_PAGES <= PT
      /\ m.mmio \in MMIOBASE .. MMIOLIM - 1 /\ LAPIC_PAGE \in Nat
      /\ Pages(npages, INFOS_PER_PAGE) \in Nat /\ Pages(npages, INFOS_PER_PAGE) <= PT
      /\ m.pages \in Nat /\ m.envs \in Nat
  BY <1>1, Direcciones, Numeros, BootAssumption, CuantasPages DEF Completa, Asignada
<1>7. va \in Nat
  BY VaEnTabla
<1> HIDE DEF Pages
<1>8. CASE va \in MMIOBASE .. m.mmio - 1
  <2>1. Ve(m, va).w /\ ~Ve(m, va).u
    BY <1>5, <1>6, <1>8, DelNucleo
  <2>2. va >= MMIOBASE /\ ~(va < UVPT)
    BY <1>6, <1>8
  <2> QED
    BY <2>1, <2>2
<1>9. CASE En(RPaginas(m), va) /\ Ve(m, va) = Pte(RPaginas(m), va)
  <2>1. PT <= va /\ va < PT + Pages(npages, INFOS_PER_PAGE)
    BY <1>1, <1>9, RegionesPartes
  <2>2. m.pages + (va - PT) \in Nat /\ va < UVPT /\ ~(va >= MMIOBASE)
    BY <1>6, <1>7, <2>1
  <2>3. Ve(m, va) = [page |-> m.pages + (va - PT), w |-> FALSE, u |-> TRUE]
    BY <1>1, <1>9, RegionesPartes
  <2>4. ~Ve(m, va).w /\ Ve(m, va).u
    BY <2>2, <2>3, DeLectura
  <2> QED
    BY <2>2, <2>4
<1>10. CASE En(REntornos(m), va) /\ Ve(m, va) = Pte(REntornos(m), va)
  <2>1. va < 0 + ENVS_PAGES
    BY <1>1, <1>10, RegionesPartes
  <2>2. m.envs + (va - 0) \in Nat /\ va < UVPT /\ ~(va >= MMIOBASE)
    BY <1>6, <1>7, <2>1
  <2>3. Ve(m, va) = [page |-> m.envs + (va - 0), w |-> FALSE, u |-> TRUE]
    BY <1>1, <1>10, RegionesPartes
  <2>4. ~Ve(m, va).w /\ Ve(m, va).u
    BY <2>2, <2>3, DeLectura
  <2> QED
    BY <2>2, <2>4
<1>11. CASE En(RNucleo, va) /\ Ve(m, va) = Pte(RNucleo, va)
  <2>1. 5 * PT <= va
    BY <1>1, <1>11, RegionesPartes
  <2>2. 0 + (va - 5 * PT) \in Nat /\ ~(va < UVPT) /\ va >= MMIOBASE
    BY <1>6, <1>7, <2>1
  <2>3. Ve(m, va) = [page |-> 0 + (va - 5 * PT), w |-> TRUE, u |-> FALSE]
    BY <1>1, <1>11, RegionesPartes
  <2>4. Ve(m, va).w /\ ~Ve(m, va).u
    BY <2>2, <2>3, DelNucleo
  <2> QED
    BY <2>2, <2>4
<1>12. ASSUME NEW i \in 0 .. NCPU - 1, En(StackRegion(i), va), Ve(m, va) = Pte(StackRegion(i), va)
       PROVE  (Ve(m, va).u <=> va < UVPT) /\ (Ve(m, va).w <=> va >= MMIOBASE)
  <2>1. /\ StackTop(i) \in Nat /\ MMIOLIM + KSTKSIZE + KSTKGAP <= StackTop(i)
        /\ percpu_kstacks(i) \in Nat
    BY Pilas
  <2>2. StackTop(i) - KSTKSIZE <= va
    BY <1>1, <1>12, RegionesPartes
  <2>3. Ve(m, va) = [page |-> percpu_kstacks(i) + (va - (StackTop(i) - KSTKSIZE)),
                     w |-> TRUE, u |-> FALSE]
    BY <1>1, <1>12, RegionesPartes
  <2> HIDE DEF StackTop, percpu_kstacks
  <2>4. /\ percpu_kstacks(i) + (va - (StackTop(i) - KSTKSIZE)) \in Nat
        /\ ~(va < UVPT) /\ va >= MMIOBASE
    BY <1>6, <1>7, <2>1, <2>2
  <2>5. Ve(m, va).w /\ ~Ve(m, va).u
    BY <2>3, <2>4, DelNucleo
  <2> QED
    BY <2>4, <2>5
<1>13. ASSUME NEW j \in DOMAIN B, En(B[j], va), Ve(m, va) = Pte(B[j], va)
       PROVE  (Ve(m, va).u <=> va < UVPT) /\ (Ve(m, va).w <=> va >= MMIOBASE)
  <2>1. j = 1 \/ j = 2 \/ j = 3 \/ (j - 4 \in 0 .. NCPU - 1 /\ B[j] = StackRegion(j - 4))
    BY <1>3
  <2>2. CASE j = 1
    BY <1>2, <1>9, <1>13, <2>2
  <2>3. CASE j = 2
    BY <1>2, <1>10, <1>13, <2>3
  <2>4. CASE j = 3
    BY <1>2, <1>11, <1>13, <2>4
  <2>5. CASE j - 4 \in 0 .. NCPU - 1 /\ B[j] = StackRegion(j - 4)
    BY <1>12, <1>13, <2>5
  <2> QED
    BY <2>1, <2>2, <2>3, <2>4, <2>5
<1> QED
  BY <1>4, <1>8, <1>13

\* The assertions of check_kern_pgdir, and what LayoutHolds adds to them.
LEMMA CompletaPlausible ==
    ASSUME Completa(mem), Directorio(mem), mem.kern_pgdir \in Nat
    PROVE  KernPgdirPlausible /\ mem.pgdir[UVPT \div PT].page = mem.kern_pgdir
<1>1. \A va : Va2pa(va) = Ve(mem, va)
  BY DEF Va2pa, Ve
<1>2. /\ mem.pgdir[UVPT \div PT] # NULL
      /\ mem.pgdir[UVPT \div PT].page = mem.kern_pgdir
  <2>1. mem.pgdir[RANURA] = [page |-> mem.kern_pgdir, w |-> FALSE, u |-> TRUE]
    BY NuloAparte DEF Directorio
  <2> QED
    BY <2>1, DeLectura DEF RANURA
<1>3. \A k \in 0 .. NCPU - 1 :
        /\ \A i \in 0 .. KSTKSIZE - 1 :
            /\ Ve(mem, StackTop(k) - KSTKSIZE + i) # NULL
            /\ Ve(mem, StackTop(k) - KSTKSIZE + i).page = percpu_kstacks(k) + i
        /\ \A i \in 0 .. KSTKGAP - 1 : Ve(mem, StackTop(k) - KSTKSIZE - KSTKGAP + i) = NULL
  BY PilasEnSuSitio
<1>4. ASSUME NEW k \in 0 .. NCPU - 1, NEW base, base = KSTACKTOP - (KSTKSIZE + KSTKGAP) * (k + 1)
      PROVE  /\ \A i \in 0 .. KSTKSIZE - 1 :
                /\ Ve(mem, base + KSTKGAP + i) # NULL
                /\ Ve(mem, base + KSTKGAP + i).page = percpu_kstacks(k) + i
             /\ \A i \in 0 .. KSTKGAP - 1 : Ve(mem, base + i) = NULL
  <2>1. base = StackTop(k) - KSTKSIZE - KSTKGAP /\ StackTop(k) \in Nat
    BY <1>4, Pilas
  <2>2. KSTKSIZE \in Nat /\ KSTKGAP \in Nat
    BY Numeros
  <2> HIDE DEF StackTop
  <2>3. \A i \in 0 .. KSTKSIZE - 1 : base + KSTKGAP + i = StackTop(k) - KSTKSIZE + i
    BY <2>1, <2>2
  <2> QED
    BY <1>3, <2>1, <2>3
<1>5. \A k \in 0 .. NCPU - 1 :
        LET base == KSTACKTOP - (KSTKSIZE + KSTKGAP) * (k + 1)
        IN  /\ \A i \in 0 .. KSTKSIZE - 1 :
                /\ Va2pa(base + KSTKGAP + i) # NULL
                /\ Va2pa(base + KSTKGAP + i).page = percpu_kstacks(k) + i
            /\ \A i \in 0 .. KSTKGAP - 1 : Va2pa(base + i) = NULL
  BY <1>1, <1>4, Zenon
<1>6. /\ \A i \in 0 .. Pages(npages, INFOS_PER_PAGE) - 1 :
            Va2pa(UPAGES + i) # NULL /\ Va2pa(UPAGES + i).page = mem.pages + i
      /\ \A i \in 0 .. ENVS_PAGES - 1 :
            Va2pa(UENVS + i) # NULL /\ Va2pa(UENVS + i).page = mem.envs + i
      /\ \A i \in 0 .. npages - 1 :
            Va2pa(KERNBASE + i) # NULL /\ Va2pa(KERNBASE + i).page = i
  BY <1>1, PaginasEnSuSitio, Zenon
<1> QED
  BY <1>2, <1>5, <1>6, Zenon DEF KernPgdirPlausible

-----------------------------------------------------------------------------
\* mem_init, step by step.

LEMMA BspEsCpu == BSP \in HwCPUs /\ BSP = 0
BY Numeros DEF BSP, HwCPUs

LEMMA IrBsp ==
    ASSUME pc \in [HwCPUs -> Lugares]
    PROVE  \A p : Goto(BSP, p) => pc'[BSP] = p /\ \A d \in HwCPUs \ {BSP} : pc'[d] = pc[d]
BY BspEsCpu DEF Goto

LEMMA DetectMemoryConstruccion ==
    ASSUME Construccion, pc \in [HwCPUs -> Lugares], DetectMemory
    PROVE  Construccion'
<1>1. /\ pc[BSP] = "detect" /\ pc'[BSP] = "alloc_pgdir"
      /\ UNCHANGED <<machine, mem, regions, lapic, cr3>>
  BY BspEsCpu DEF DetectMemory, At, Goto
<1>2. npages' \in Nat /\ npages' <= KERN_PAGES
  <2>1. machine \in Machines /\ machine \in MachineType
    BY BootConstants DEF Construccion, Memoria
  <2>2. machine.base \in Nat /\ machine.ext \in Nat /\ machine.ext16 \in Nat
    BY <2>1 DEF MachineType
  <2>3. /\ EXT16MEM + machine.ext16 <= KERN_PAGES /\ EXTPHYSMEM + machine.ext <= KERN_PAGES
        /\ machine.base <= IOPHYSMEM /\ IOPHYSMEM < EXTPHYSMEM
    BY <2>1, BootAssumption
  <2>4. npages' = IF machine.ext16 > 0 THEN EXT16MEM + machine.ext16
                  ELSE IF machine.ext > 0 THEN EXTPHYSMEM + machine.ext
                  ELSE machine.base
    BY DEF DetectMemory
  <2> QED
    BY <2>2, <2>3, <2>4, Numeros
<1>3. Memoria'
  BY <1>1, <1>2 DEF Construccion, Memoria
<1>4. mem.page_free_list = <<>> /\ mem.pp1 = <<>> /\ mem.pp2 = <<>>
  BY <1>1 DEF Construccion, Fases, Asignando
<1>5. Listas(mem', npages')
  BY <1>1, <1>4, SinPaginas DEF Listas
<1>6. Fases'
  BY <1>1 DEF Construccion, Fases, Asignando, Ordenando, Arrancando, Sirviendo
<1> QED
  BY <1>1, <1>3, <1>5, <1>6 DEF Construccion

\* The three calls of boot_alloc: n is the memory behind one of them.
LEMMA PagesNat ==
    ASSUME NEW n \in Nat, NEW p \in Nat \ {0}
    PROVE  Pages(n, p) \in Nat
<1>1. n + p - 1 \in Nat /\ p \in Nat /\ p > 0
  OBVIOUS
<1>2. \A a \in Nat : a \div p \in Nat
  BY <1>1
<1> QED
  BY <1>1, <1>2 DEF Pages

\* While boot_alloc is used there are no lists, no tables and no APIC, and only
\* one entry in kern_pgdir.
Asignable(m) ==
    /\ m.page_free_list = <<>> /\ m.pp1 = <<>> /\ m.pp2 = <<>> /\ m.linked = 0
    /\ DOMAIN m.table = {} /\ m.mmio = MMIOBASE
    /\ \A x \in Pdx \ {RANURA} : m.pgdir[x] = NULL

LEMMA AsignableListas ==
    ASSUME NEW m, NEW np, Asignable(m)
    PROVE  Listas(m, np)
BY SinPaginas DEF Asignable, Listas

LEMMA AsignandoAsignable ==
    ASSUME Construccion, pc[BSP] \in Asignando
    PROVE  Asignable(mem) /\ lapic = NULL /\ cr3[BSP] = "entry_pgdir"
BY DEF Construccion, Fases, Asignable

LEMMA AllocPgdirCampos ==
    ASSUME NEW m \in Memorias, Directorio(m), Asignable(m), m.nextfree >= END
    PROVE  LET n == [BootAlloc(m, 1, 1) EXCEPT
                        !.kern_pgdir = m.nextfree,
                        !.pgdir[UVPT \div PT] = [page |-> m.nextfree, w |-> FALSE, u |-> TRUE]]
           IN  /\ n \in Memorias /\ n.nextfree >= END /\ Asignable(n) /\ Directorio(n)
               /\ n.kern_pgdir # NULL /\ n.pages = m.pages /\ n.envs = m.envs
<1> DEFINE e == [page |-> m.nextfree, w |-> FALSE, u |-> TRUE]
           f == [m.pgdir EXCEPT ![RANURA] = e]
           x == m.nextfree + Pages(1, 1)
           n == [m EXCEPT !.nextfree = x, !.kern_pgdir = m.nextfree, !.pgdir = f]
<1>1. /\ m.nextfree \in Nat /\ m.pgdir \in [Pdx -> Ptes \cup {NULL}]
  BY Campos
<1>2. x \in Nat /\ x >= END
  BY <1>1, PagesNat, Numeros
<1>3. e \in Ptes
  BY <1>1 DEF Ptes
<1>4. [BootAlloc(m, 1, 1) EXCEPT !.kern_pgdir = m.nextfree, !.pgdir[UVPT \div PT] = e] = n
  BY DEF BootAlloc, RANURA, Memorias
<1> HIDE DEF e
<1>5. /\ f \in [Pdx -> Ptes \cup {NULL}] /\ f[RANURA] = e
      /\ \A y \in Pdx \ {RANURA} : f[y] = NULL
  BY <1>1, <1>3, RanuraEnPdx DEF Asignable
<1> HIDE DEF f, x
<1>6. n \in Memorias
  BY <1>1, <1>2, <1>5 DEF Memorias
<1>7. /\ n.nextfree = x /\ n.kern_pgdir = m.nextfree /\ n.pgdir = f /\ n.pages = m.pages
      /\ n.envs = m.envs /\ n.page_free_list = m.page_free_list /\ n.pp1 = m.pp1
      /\ n.pp2 = m.pp2 /\ n.linked = m.linked /\ n.table = m.table /\ n.mmio = m.mmio
  BY DEF Memorias
<1> HIDE DEF n
<1>8. Asignable(n)
  BY <1>5, <1>7 DEF Asignable
<1>9. m.nextfree # NULL
  BY <1>1, NuloAparte
<1>10. Directorio(n)
  BY <1>5, <1>7, <1>9 DEF Directorio, e
<1> QED
  BY <1>2, <1>4, <1>6, <1>7, <1>8, <1>9, <1>10 DEF e

LEMMA AllocPagesCampos ==
    ASSUME NEW m \in Memorias, Directorio(m), Asignable(m), m.nextfree >= END,
           NEW k \in Nat, NEW p \in Nat \ {0}
    PROVE  LET n == [BootAlloc(m, k, p) EXCEPT !.pages = m.nextfree]
           IN  /\ n \in Memorias /\ n.nextfree >= END /\ Asignable(n) /\ Directorio(n)
               /\ n.kern_pgdir = m.kern_pgdir /\ n.pages # NULL /\ n.envs = m.envs
<1> DEFINE x == m.nextfree + Pages(k, p)
           n == [m EXCEPT !.nextfree = x, !.pages = m.nextfree]
<1>1. m.nextfree \in Nat /\ x \in Nat /\ x >= END
  <2>1. Pages(k, p) \in Nat /\ m.nextfree \in Nat /\ END \in Nat
    BY Campos, PagesNat, Numeros
  <2> QED
    BY <2>1
<1>2. [BootAlloc(m, k, p) EXCEPT !.pages = m.nextfree] = n
  BY DEF BootAlloc, Memorias
<1> HIDE DEF x
<1>3. n \in Memorias
  BY <1>1 DEF Memorias
<1>4. /\ n.nextfree = x /\ n.kern_pgdir = m.kern_pgdir /\ n.pgdir = m.pgdir
      /\ n.pages = m.nextfree
      /\ n.envs = m.envs /\ n.page_free_list = m.page_free_list /\ n.pp1 = m.pp1
      /\ n.pp2 = m.pp2 /\ n.linked = m.linked /\ n.table = m.table /\ n.mmio = m.mmio
  BY DEF Memorias
<1> HIDE DEF n
<1>5. Asignable(n) /\ Directorio(n)
  BY <1>4 DEF Asignable, Directorio
<1> QED
  BY <1>1, <1>2, <1>3, <1>4, <1>5, NuloAparte

LEMMA AllocEnvsCampos ==
    ASSUME NEW m \in Memorias, Directorio(m), Asignable(m), m.nextfree >= END,
           NEW k \in Nat, NEW p \in Nat \ {0}
    PROVE  LET n == [BootAlloc(m, k, p) EXCEPT !.envs = m.nextfree]
           IN  /\ n \in Memorias /\ n.nextfree >= END /\ Asignable(n) /\ Directorio(n)
               /\ n.kern_pgdir = m.kern_pgdir /\ n.pages = m.pages /\ n.envs # NULL
<1> DEFINE x == m.nextfree + Pages(k, p)
           n == [m EXCEPT !.nextfree = x, !.envs = m.nextfree]
<1>1. m.nextfree \in Nat /\ x \in Nat /\ x >= END
  <2>1. Pages(k, p) \in Nat /\ m.nextfree \in Nat /\ END \in Nat
    BY Campos, PagesNat, Numeros
  <2> QED
    BY <2>1
<1>2. [BootAlloc(m, k, p) EXCEPT !.envs = m.nextfree] = n
  BY DEF BootAlloc, Memorias
<1> HIDE DEF x
<1>3. n \in Memorias
  BY <1>1 DEF Memorias
<1>4. /\ n.nextfree = x /\ n.kern_pgdir = m.kern_pgdir /\ n.pgdir = m.pgdir
      /\ n.envs = m.nextfree
      /\ n.pages = m.pages /\ n.page_free_list = m.page_free_list /\ n.pp1 = m.pp1
      /\ n.pp2 = m.pp2 /\ n.linked = m.linked /\ n.table = m.table /\ n.mmio = m.mmio
  BY DEF Memorias
<1> HIDE DEF n
<1>5. Asignable(n) /\ Directorio(n)
  BY <1>4 DEF Asignable, Directorio
<1> QED
  BY <1>1, <1>2, <1>3, <1>4, <1>5, NuloAparte

\* Between two calls of boot_alloc.
LEMMA AsignableConstruccion ==
    ASSUME Construccion, Asignable(mem'), mem' \in Memorias, mem'.nextfree >= END,
           Directorio(mem'), UNCHANGED <<machine, npages, regions, cr3>>, lapic = NULL, lapic' = NULL,
           cr3[BSP] = "entry_pgdir", npages > 0, mem'.kern_pgdir # NULL,
           \/ pc'[BSP] = "alloc_pages"
           \/ pc'[BSP] = "alloc_envs" /\ mem'.pages # NULL
           \/ pc'[BSP] = "page_init" /\ mem'.pages # NULL /\ mem'.envs # NULL
    PROVE  Construccion'
<1>1. mem'.mmio = MMIOBASE
  BY DEF Asignable
<1>2. MMIOBASE \in MMIOBASE .. MMIOLIM - 1
  BY Direcciones
<1>3. Memoria'
  BY <1>1, <1>2 DEF Construccion, Memoria
<1>4. Listas(mem', npages')
  BY AsignableListas
<1>5. \A k \in DOMAIN <<>> : <<>>[k] < mem'.linked
  OBVIOUS
<1>6. Fases'
  BY <1>5 DEF Construccion, Fases, Asignando, Ordenando, Arrancando, Sirviendo, Asignable
<1> QED
  BY <1>3, <1>4, <1>6 DEF Construccion

\* A processor that panics stays where it is.
LEMMA PanicoConstruccion ==
    ASSUME Construccion, UNCHANGED <<machine, npages, mem, lapic, cr3>>, pc'[BSP] = "panic",
           regions' \in Seq(Regiones), regions' = regions \/ cr3[BSP] = "entry_pgdir",
           pc[BSP] # "lcr3"
    PROVE  Construccion'
<1>1. Memoria'
  BY DEF Construccion, Memoria
<1>2. cr3[BSP] = "kern_pgdir" => Mapa(BootRegions(mem), mem, regions)'
  BY DEF Construccion, Fases, BootRegions, StackRegion
<1>3. Fases'
  BY <1>2 DEF Construccion, Fases, Asignando, Ordenando, Arrancando, Sirviendo
<1> QED
  BY <1>1, <1>3 DEF Construccion

LEMMA AllocConstruccion ==
    ASSUME Construccion, pc \in [HwCPUs -> Lugares], AllocPgdir \/ AllocPages \/ AllocEnvs
    PROVE  Construccion'
<1>1. /\ mem \in Memorias /\ npages \in Nat /\ mem.nextfree >= END /\ Directorio(mem)
      /\ regions \in Seq(Regiones)
  BY DEF Construccion, Memoria
<1>2. UNCHANGED <<machine, npages, regions, lapic, cr3>>
  BY DEF AllocPgdir, AllocPages, AllocEnvs, MemUnchanged
<1>3. pc[BSP] \in Asignando
  BY DEF AllocPgdir, AllocPages, AllocEnvs, Asignando
<1>4. Asignable(mem) /\ lapic = NULL /\ cr3[BSP] = "entry_pgdir"
  BY <1>3, AsignandoAsignable
<1>5. mem.nextfree \in Nat
  BY <1>1, Campos
<1>6. CASE AllocPgdir
  <2>1. CASE BootAllocPanics(mem, 1, 1)
    <3>1. UNCHANGED mem /\ Goto(BSP, "panic") /\ pc[BSP] # "lcr3"
      BY <1>6, <2>1 DEF AllocPgdir, Panics
    <3>2. pc'[BSP] = "panic"
      BY <3>1, IrBsp, Zenon
    <3> QED
      BY <1>1, <1>2, <3>1, <3>2, PanicoConstruccion
  <2>2. CASE ~BootAllocPanics(mem, 1, 1)
    <3>1. /\ Goto(BSP, "alloc_pages")
          /\ mem' = [BootAlloc(mem, 1, 1) EXCEPT
                        !.kern_pgdir = mem.nextfree,
                        !.pgdir[UVPT \div PT] = [page |-> mem.nextfree, w |-> FALSE, u |-> TRUE]]
      BY <1>6, <2>2 DEF AllocPgdir
    <3>2. pc'[BSP] = "alloc_pages"
      BY <3>1, IrBsp, Zenon
    <3>3. /\ mem' \in Memorias /\ mem'.nextfree >= END /\ Asignable(mem') /\ Directorio(mem')
          /\ mem'.kern_pgdir # NULL
      BY <1>1, <1>4, <3>1, AllocPgdirCampos, Zenon
    <3>4. npages > 0
      BY <1>1, <1>5, <2>2 DEF BootAllocPanics
    <3> QED
      BY <1>2, <1>4, <3>2, <3>3, <3>4, AsignableConstruccion
  <2> QED
    BY <2>1, <2>2
<1>7. CASE AllocPages
  <2>1. CASE BootAllocPanics(mem, npages, INFOS_PER_PAGE)
    <3>1. UNCHANGED mem /\ Goto(BSP, "panic") /\ pc[BSP] # "lcr3"
      BY <1>7, <2>1 DEF AllocPages, Panics
    <3>2. pc'[BSP] = "panic"
      BY <3>1, IrBsp, Zenon
    <3> QED
      BY <1>1, <1>2, <3>1, <3>2, PanicoConstruccion
  <2>2. CASE ~BootAllocPanics(mem, npages, INFOS_PER_PAGE)
    <3>1. /\ Goto(BSP, "alloc_envs") /\ pc[BSP] = "alloc_pages"
          /\ mem' = [BootAlloc(mem, npages, INFOS_PER_PAGE) EXCEPT !.pages = mem.nextfree]
      BY <1>7, <2>2 DEF AllocPages
    <3>2. pc'[BSP] = "alloc_envs"
      BY <3>1, IrBsp, Zenon
    <3>3. /\ mem' \in Memorias /\ mem'.nextfree >= END /\ Asignable(mem') /\ Directorio(mem')
          /\ mem'.kern_pgdir = mem.kern_pgdir /\ mem'.pages # NULL
      BY <1>1, <1>4, <3>1, AllocPagesCampos, Numeros
    <3>4. npages > 0 /\ mem.kern_pgdir # NULL
      BY <3>1 DEF Construccion, Fases
    <3> QED
      BY <1>2, <1>4, <3>2, <3>3, <3>4, AsignableConstruccion
  <2> QED
    BY <2>1, <2>2
<1>8. CASE AllocEnvs
  <2>1. CASE BootAllocPanics(mem, ENVS_PAGES, 1)
    <3>1. UNCHANGED mem /\ Goto(BSP, "panic") /\ pc[BSP] # "lcr3"
      BY <1>8, <2>1 DEF AllocEnvs, Panics
    <3>2. pc'[BSP] = "panic"
      BY <3>1, IrBsp, Zenon
    <3> QED
      BY <1>1, <1>2, <3>1, <3>2, PanicoConstruccion
  <2>2. CASE ~BootAllocPanics(mem, ENVS_PAGES, 1)
    <3>1. /\ Goto(BSP, "page_init") /\ pc[BSP] = "alloc_envs"
          /\ mem' = [BootAlloc(mem, ENVS_PAGES, 1) EXCEPT !.envs = mem.nextfree]
      BY <1>8, <2>2 DEF AllocEnvs
    <3>2. pc'[BSP] = "page_init"
      BY <3>1, IrBsp, Zenon
    <3>3. /\ mem' \in Memorias /\ mem'.nextfree >= END /\ Asignable(mem') /\ Directorio(mem')
          /\ mem'.kern_pgdir = mem.kern_pgdir /\ mem'.pages = mem.pages /\ mem'.envs # NULL
      <4>1. ENVS_PAGES \in Nat /\ 1 \in Nat \ {0}
        BY Numeros
      <4> QED
        BY <1>1, <1>4, <3>1, <4>1, AllocEnvsCampos
    <3>4. npages > 0 /\ mem.kern_pgdir # NULL /\ mem.pages # NULL
      BY <3>1 DEF Construccion, Fases
    <3> QED
      BY <1>2, <1>4, <3>2, <3>3, <3>4, AsignableConstruccion
  <2> QED
    BY <2>1, <2>2
<1> QED
  BY <1>6, <1>7, <1>8

\* page_init and check_page_free_list.
LEMMA OrdenandoConstruccion ==
    ASSUME Construccion, pc[BSP] \in {"page_init", "sort"}, mem' \in Memorias,
           Iguales(mem, mem'), Listas(mem', npages),
           UNCHANGED <<machine, npages, regions, lapic, cr3>>, pc'[BSP] \in Ordenando,
           pc'[BSP] = "page_init" =>
             /\ mem'.pp1 = <<>> /\ mem'.pp2 = <<>>
             /\ \A k \in DOMAIN mem'.page_free_list : mem'.page_free_list[k] < mem'.linked
    PROVE  Construccion'
<1>1. Memoria'
  BY DEF Construccion, Memoria, Iguales
<1>2. Directorio(mem')
  BY DEF Construccion, Directorio, Iguales
<1>3. /\ DOMAIN mem.table = {} /\ mem.mmio = MMIOBASE /\ lapic = NULL
      /\ \A x \in Pdx \ {RANURA} : mem.pgdir[x] = NULL
      /\ npages > 0 /\ mem.kern_pgdir # NULL /\ mem.pages # NULL /\ mem.envs # NULL
      /\ cr3[BSP] = "entry_pgdir"
  BY DEF Construccion, Fases, Ordenando, Asignando
<1>4. Fases'
  BY <1>3 DEF Fases, Asignando, Ordenando, Arrancando, Sirviendo, Iguales
<1> QED
  BY <1>1, <1>2, <1>4 DEF Construccion

LEMMA LinkFreePagesConstruccion ==
    ASSUME Construccion, pc \in [HwCPUs -> Lugares], LinkFreePages
    PROVE  Construccion'
<1>1. /\ mem \in Memorias /\ npages \in Nat /\ Listas(mem, npages) /\ pc[BSP] = "page_init"
      /\ UNCHANGED <<machine, npages, regions, lapic, cr3>>
  BY DEF Construccion, Memoria, LinkFreePages, MemUnchanged
<1>2. /\ mem.pp1 = <<>> /\ mem.pp2 = <<>> /\ DOMAIN mem.table = {}
      /\ \A k \in DOMAIN mem.page_free_list : mem.page_free_list[k] < mem.linked
  BY <1>1 DEF Construccion, Fases, Ordenando
<1>3. CASE mem.linked < npages
  <2>1. mem' = LinkPage(mem) /\ UNCHANGED pc
    BY <1>3 DEF LinkFreePages
  <2>2. mem' \in Memorias /\ Iguales(mem, mem') /\ mem'.pp1 = <<>> /\ mem'.pp2 = <<>>
    BY <1>1, <1>2, <2>1, LinkPageCampos
  <2>3. /\ Listas(mem', npages)
        /\ \A k \in DOMAIN mem'.page_free_list : mem'.page_free_list[k] < mem'.linked
    BY <1>1, <1>2, <1>3, <2>1, LinkPageListas
  <2>4. pc'[BSP] \in Ordenando
    BY <1>1, <2>1 DEF Ordenando
  <2> QED
    BY <1>1, <2>2, <2>3, <2>4, OrdenandoConstruccion
<1>4. CASE ~(mem.linked < npages)
  <2>1. UNCHANGED mem /\ Goto(BSP, "sort")
    BY <1>4 DEF LinkFreePages
  <2>2. pc'[BSP] = "sort"
    BY <2>1, IrBsp, Zenon
  <2>3. mem' \in Memorias /\ Iguales(mem, mem') /\ Listas(mem', npages)
    BY <1>1, <2>1 DEF Iguales
  <2> QED
    BY <1>1, <2>2, <2>3, OrdenandoConstruccion DEF Ordenando
<1> QED
  BY <1>3, <1>4

LEMMA SortFreePagesConstruccion ==
    ASSUME Construccion, pc \in [HwCPUs -> Lugares], SortFreePages
    PROVE  Construccion'
<1>1. /\ mem \in Memorias /\ npages \in Nat /\ Listas(mem, npages) /\ pc[BSP] = "sort"
      /\ UNCHANGED <<machine, npages, regions, lapic, cr3>>
  BY DEF Construccion, Memoria, SortFreePages, MemUnchanged
<1>2. CASE mem.page_free_list # <<>>
  <2>1. mem' = MovePage(mem) /\ UNCHANGED pc
    BY <1>2 DEF SortFreePages
  <2>2. mem' \in Memorias /\ Iguales(mem, mem')
    BY <1>1, <1>2, <2>1, MovePageCampos
  <2>3. Listas(mem', npages)
    BY <1>1, <1>2, <2>1, MovePageListas
  <2> QED
    BY <1>1, <2>1, <2>2, <2>3, OrdenandoConstruccion DEF Ordenando
<1>3. CASE mem.page_free_list = <<>>
  <2>1. mem' = LowFirst(mem) /\ Goto(BSP, "check_free_list")
    BY <1>3 DEF SortFreePages
  <2>2. pc'[BSP] = "check_free_list"
    BY <2>1, IrBsp, Zenon
  <2>3. mem' \in Memorias /\ Iguales(mem, mem')
    BY <1>1, <2>1, LowFirstCampos
  <2>4. Listas(mem', npages)
    BY <1>1, <2>1, LowFirstListas
  <2> QED
    BY <1>1, <2>2, <2>3, <2>4, OrdenandoConstruccion DEF Ordenando
<1> QED
  BY <1>2, <1>3

LEMMA AsignadaYa ==
    ASSUME Construccion,
           pc[BSP] \in {"check_free_list", "map", "lcr3"} \/ cr3[BSP] = "kern_pgdir"
    PROVE  Asignada(mem) /\ mem.kern_pgdir \in Nat
<1>1. mem.pages # NULL /\ mem.envs # NULL /\ npages > 0 /\ mem.kern_pgdir # NULL
  BY DEF Construccion, Fases, Asignando
<1>2. mem \in Memorias /\ npages \in Nat /\ npages <= KERN_PAGES
  BY DEF Construccion, Memoria
<1> QED
  BY <1>1, <1>2, Campos DEF Asignada

\* What is mapped before boot_map_region is nothing.
LEMMA CheckFreeListConstruccion ==
    ASSUME Construccion, pc \in [HwCPUs -> Lugares], CheckFreeList
    PROVE  Construccion'
<1> DEFINE B == BootRegions(mem)
<1>1. /\ pc[BSP] = "check_free_list" /\ regions' = B
      /\ UNCHANGED <<machine, npages, mem, lapic, cr3>>
  BY DEF CheckFreeList, MemUnchanged
<1>2. pc'[BSP] = IF FreeListPlausible(mem) THEN "map" ELSE "panic"
  BY IrBsp, Zenon DEF CheckFreeList
<1>3. Asignada(mem)
  BY <1>1, AsignadaYa
<1>4. B \in Seq(Regiones) /\ Buenas(B)
  BY <1>3, BootRegionsPartes, BootRegionsBuenas
<1>5. /\ mem.mmio = MMIOBASE /\ lapic = NULL /\ \A x \in Pdx \ {RANURA} : mem.pgdir[x] = NULL
      /\ npages > 0 /\ mem.kern_pgdir # NULL /\ mem.pages # NULL /\ mem.envs # NULL
      /\ cr3[BSP] = "entry_pgdir"
  BY <1>1 DEF Construccion, Fases, Ordenando, Asignando
<1>6. Mapa(B, mem, B)
  BY <1>4, <1>5, MapaInicial
<1>7. BootRegions(mem)' = B
  BY <1>1 DEF BootRegions, StackRegion
<1> HIDE DEF B
<1>8. Memoria'
  BY <1>1, <1>4 DEF Construccion, Memoria
<1>9. CASE FreeListPlausible(mem)
  <2>1. pc'[BSP] = "map"
    BY <1>2, <1>9
  <2>2. Mapa(BootRegions(mem), mem, regions)'
    BY <1>1, <1>6, <1>7
  <2>3. Fases'
    BY <1>1, <1>5, <2>1, <2>2 DEF Fases, Asignando, Ordenando, Arrancando, Sirviendo
  <2> QED
    BY <1>1, <1>8, <2>3 DEF Construccion
<1>10. CASE ~FreeListPlausible(mem)
  <2>1. pc'[BSP] = "panic"
    BY <1>2, <1>10
  <2> QED
    BY <1>1, <1>4, <1>5, <2>1, PanicoConstruccion
<1> QED
  BY <1>9, <1>10

LEMMA MismasRegiones ==
    ASSUME UNCHANGED npages, mem'.pages = mem.pages, mem'.envs = mem.envs
    PROVE  BootRegions(mem)' = BootRegions(mem)
BY DEF BootRegions, StackRegion

\* A round of boot_map_region.
LEMMA MapRegionConstruccion ==
    ASSUME Construccion, pc \in [HwCPUs -> Lugares], MapRegion
    PROVE  Construccion'
<1> DEFINE r == Head(regions)
           pte == [page |-> r.pa, w |-> r.w, u |-> r.u]
           B == BootRegions(mem)
<1>1. /\ pc[BSP] = "map" /\ regions # <<>>
      /\ UNCHANGED <<machine, npages, lapic, cr3>>
  BY DEF MapRegion, MemUnchanged
<1>2. /\ regions \in Seq(Regiones) /\ Ordenada(mem, npages) /\ mem.mmio \in MMIOBASE .. MMIOLIM - 1
  BY DEF Construccion, Memoria, Ordenada
<1>3. CASE PgdirWalkFails(mem, r.va)
  <2>1. UNCHANGED <<mem, regions>> /\ Goto(BSP, "panic")
    BY <1>3 DEF MapRegion, Panics
  <2>2. pc'[BSP] = "panic"
    BY <2>1, IrBsp, Zenon
  <2> QED
    BY <1>1, <1>2, <2>1, <2>2, PanicoConstruccion
<1>4. CASE ~PgdirWalkFails(mem, r.va)
  <2>1. mem' = MapPage(mem, r.va, pte) /\ regions' = Siguen(regions) /\ UNCHANGED pc
    BY <1>4 DEF MapRegion, Siguen, Resto
  <2>2. Asignada(mem)
    BY <1>1, AsignadaYa
  <2>3. Buenas(B) /\ Mapa(B, mem, regions)
    BY <1>1, <2>2, BootRegionsBuenas DEF Construccion, Fases
  <2> HIDE DEF B
  <2>4. Ordenada(mem', npages) /\ Fijos(mem, mem') /\ Mapa(B, mem', regions')
    BY <1>1, <1>2, <1>4, <2>1, <2>3, MapRegionMapa
  <2>5. BootRegions(mem)' = B
    BY <1>1, <2>4, MismasRegiones DEF Fijos, B
  <2>6. regions' \in Seq(Regiones)
    BY <1>1, <1>2, <2>1, SiguenParts
  <2>7. Mapa(BootRegions(mem), mem, regions)'
    BY <2>4, <2>5
  <2>8. Memoria'
    BY <1>1, <2>4, <2>6 DEF Construccion, Memoria, Ordenada, Fijos
  <2>9. Fases'
    BY <1>1, <2>1, <2>4, <2>7 DEF Construccion, Fases, Asignando, Ordenando, Arrancando,
                                  Sirviendo, Fijos
  <2> QED
    BY <1>1, <2>4, <2>8, <2>9 DEF Construccion, Ordenada
<1> QED
  BY <1>3, <1>4

\* check_kern_pgdir writes nothing.
LEMMA CheckKernPgdirConstruccion ==
    ASSUME Construccion, pc \in [HwCPUs -> Lugares], CheckKernPgdir
    PROVE  Construccion'
<1>1. /\ pc[BSP] = "map" /\ regions = <<>> /\ regions \in Seq(Regiones)
      /\ UNCHANGED <<machine, npages, mem, regions, lapic, cr3>>
  BY DEF CheckKernPgdir, MemUnchanged, Construccion, Memoria
<1>2. pc'[BSP] = IF KernPgdirPlausible THEN "lcr3" ELSE "panic"
  BY IrBsp, Zenon DEF CheckKernPgdir
<1>3. BootRegions(mem)' = BootRegions(mem)
  BY <1>1, MismasRegiones
<1>4. CASE KernPgdirPlausible
  <2>1. pc'[BSP] = "lcr3"
    BY <1>2, <1>4
  <2>2. Mapa(BootRegions(mem), mem, regions)
    BY <1>1 DEF Construccion, Fases
  <2>3. Mapa(BootRegions(mem), mem, regions)'
    BY <1>1, <1>3, <2>2
  <2>4. Memoria'
    BY <1>1 DEF Construccion, Memoria
  <2>5. Fases'
    BY <1>1, <2>1, <2>3 DEF Construccion, Fases, Asignando, Ordenando, Arrancando, Sirviendo
  <2> QED
    BY <1>1, <2>4, <2>5 DEF Construccion
<1>5. CASE ~KernPgdirPlausible
  <2>1. pc'[BSP] = "panic"
    BY <1>2, <1>5
  <2> QED
    BY <1>1, <2>1, PanicoConstruccion
<1> QED
  BY <1>4, <1>5

\* The boot processor loads the directory when nothing is left to map.
LEMMA LoadKernPgdirConstruccion ==
    ASSUME Construccion, pc \in [HwCPUs -> Lugares],
           cr3 \in [HwCPUs -> {"entry_pgdir", "kern_pgdir", NULL}], LoadKernPgdir(BSP)
    PROVE  Construccion'
<1>1. /\ pc[BSP] = "lcr3" /\ UNCHANGED <<machine, npages, mem, regions, lapic>>
      /\ cr3' = [cr3 EXCEPT ![BSP] = "kern_pgdir"]
  BY DEF LoadKernPgdir, MemUnchanged
<1>2. cr3'[BSP] = "kern_pgdir"
  BY <1>1, BspEsCpu
<1>3. pc'[BSP] = IF FreeListPlausible(mem) THEN "trap_init" ELSE "panic"
  BY IrBsp, Zenon DEF LoadKernPgdir
<1>4. pc'[BSP] \in {"trap_init", "panic"}
  BY <1>3
<1>5. BootRegions(mem)' = BootRegions(mem)
  BY <1>1, MismasRegiones
<1>6. Mapa(BootRegions(mem), mem, regions)
  BY <1>1 DEF Construccion, Fases
<1>7. Mapa(BootRegions(mem), mem, regions)'
  BY <1>1, <1>5, <1>6
<1>8. Memoria'
  BY <1>1 DEF Construccion, Memoria
<1>9. /\ npages > 0 /\ mem.kern_pgdir # NULL /\ mem.pages # NULL /\ mem.envs # NULL
      /\ regions = <<>>
  BY <1>1 DEF Construccion, Fases, Asignando
<1>10. Fases'
  BY <1>1, <1>2, <1>4, <1>7, <1>9 DEF Fases, Asignando, Ordenando, Arrancando, Sirviendo
<1> QED
  BY <1>1, <1>8, <1>10 DEF Construccion

\* Steps that leave the memory alone.
LEMMA QuietaConstruccion ==
    ASSUME Construccion, UNCHANGED <<machine, npages, mem, regions>>, cr3'[BSP] = cr3[BSP],
           lapic' = lapic \/ (pc[BSP] \in Arrancando \cup Sirviendo /\ lapic' = mem.mmio - 1
                              /\ mem.mmio > MMIOBASE),
           \/ pc'[BSP] = pc[BSP]
           \/ pc[BSP] \in Arrancando \cup Sirviendo /\ pc'[BSP] \in Arrancando \cup Sirviendo
    PROVE  Construccion'
<1>1. BootRegions(mem)' = BootRegions(mem)
  BY MismasRegiones
<1>2. Mapa(BootRegions(mem), mem, regions)' <=> Mapa(BootRegions(mem), mem, regions)
  BY <1>1
<1>3. Memoria'
  <2>1. mem.mmio \in MMIOBASE .. MMIOLIM - 1 /\ MMIOBASE \in Nat /\ MMIOLIM \in Nat
    BY Direcciones DEF Construccion, Memoria
  <2>2. mem.mmio > MMIOBASE => mem.mmio - 1 \in MMIOBASE .. mem.mmio - 1 /\ mem.mmio - 1 \in Nat
    BY <2>1
  <2>3. \/ lapic' = lapic
        \/ lapic' \in Nat /\ lapic' \in MMIOBASE .. mem.mmio - 1
    BY <2>2
  <2> QED
    BY <2>3 DEF Construccion, Memoria
<1>4. CASE pc'[BSP] = pc[BSP]
  <2>1. lapic' = lapic \/ pc[BSP] \in Arrancando \cup Sirviendo
    OBVIOUS
  <2>2. Fases'
    BY <1>2, <1>4, <2>1 DEF Construccion, Fases, Asignando, Ordenando, Arrancando, Sirviendo
  <2> QED
    BY <1>3, <2>2 DEF Construccion
<1>5. CASE pc[BSP] \in Arrancando \cup Sirviendo /\ pc'[BSP] \in Arrancando \cup Sirviendo
  <2>1. Fases'
    BY <1>2, <1>5 DEF Construccion, Fases, Asignando, Ordenando, Arrancando, Sirviendo
  <2> QED
    BY <1>3, <2>1 DEF Construccion
<1> QED
  BY <1>4, <1>5

LEMMA PasoQuieto ==
    ASSUME Construccion, pc \in [HwCPUs -> Lugares], NEW c \in HwCPUs, NEW p, Goto(c, p),
           UNCHANGED <<machine, npages, mem, regions, lapic>>, cr3'[BSP] = cr3[BSP],
           c = BSP => pc[BSP] \in Arrancando \cup Sirviendo /\ p \in Arrancando \cup Sirviendo
    PROVE  Construccion'
<1>1. pc'[BSP] = IF c = BSP THEN p ELSE pc[BSP]
  BY BspEsCpu DEF Goto
<1> QED
  BY <1>1, QuietaConstruccion

\* The local APIC of each processor takes the next page of its region.
LEMMA MapLapicConstruccion ==
    ASSUME Construccion, Puesta, NEW c \in HwCPUs, MapLapic(c)
    PROVE  /\ Construccion' /\ mem'.nextfree = mem.nextfree
           /\ \/ ~lapicaddr /\ Goto(c, "lock") /\ mem' = mem
              \/ lapicaddr /\ Goto(c, "panic") /\ mem' = mem
              \/ lapicaddr /\ Goto(c, "lapic_set") /\ mem'.mmio = mem.mmio + 1
<1> DEFINE pte == [page |-> LAPIC_PAGE, w |-> TRUE, u |-> FALSE]
           B == BootRegions(mem)
<1>1. pc \in [HwCPUs -> Lugares] /\ pc[c] = "lapic_map"
  BY DEF Puesta, Procesadores, MapLapic
<1>2. UNCHANGED <<machine, npages, regions, lapic, cr3>>
  BY DEF MapLapic
<1>3. pc[BSP] \in Arrancando \cup Sirviendo
  <2>1. CASE c = BSP
    BY <1>1, <2>1 DEF Arrancando
  <2>2. CASE c # BSP
    BY <1>1, <2>2 DEF Puesta, Secundario, Viniendo, Sirviendo
  <2> QED
    BY <2>1, <2>2
<1>4. /\ cr3[BSP] = "kern_pgdir" /\ regions = <<>> /\ regions \in Seq(Regiones)
      /\ npages > 0 /\ mem.kern_pgdir # NULL /\ mem.pages # NULL /\ mem.envs # NULL
      /\ Mapa(B, mem, <<>>) /\ mem.mmio \in MMIOBASE .. MMIOLIM - 1 /\ Ordenada(mem, npages)
  BY <1>3 DEF Construccion, Memoria, Fases, Ordenada, Asignando, Arrancando, Sirviendo
<1>5. \A p : Goto(c, p) => pc'[BSP] = IF c = BSP THEN p ELSE pc[BSP]
  BY <1>1, BspEsCpu DEF Goto
<1>6. CASE ~lapicaddr
  <2>1. Goto(c, "lock") /\ UNCHANGED mem
    BY <1>6 DEF MapLapic
  <2>2. Construccion'
    BY <1>1, <1>2, <1>3, <2>1, PasoQuieto DEF Arrancando
  <2> QED
    BY <1>6, <2>1, <2>2
<1>7. CASE lapicaddr /\ (mem.mmio + 1 >= MMIOLIM \/ PgdirWalkFails(mem, mem.mmio))
  <2>1. Goto(c, "panic") /\ UNCHANGED mem
    BY <1>7 DEF MapLapic, Panics
  <2>2. CASE c = BSP
    <3>1. pc'[BSP] = "panic"
      BY <1>5, <2>1, <2>2
    <3>2. pc[BSP] # "lcr3"
      BY <1>3 DEF Arrancando, Sirviendo
    <3>3. Construccion'
      BY <1>2, <1>4, <2>1, <3>1, <3>2, PanicoConstruccion
    <3> QED
      BY <1>7, <2>1, <3>3
  <2>3. CASE c # BSP
    <3>1. Construccion'
      BY <1>1, <1>2, <2>1, <2>3, PasoQuieto
    <3> QED
      BY <1>7, <2>1, <3>1
  <2> QED
    BY <2>2, <2>3
<1>8. CASE lapicaddr /\ ~(mem.mmio + 1 >= MMIOLIM \/ PgdirWalkFails(mem, mem.mmio))
  <2>1. Goto(c, "lapic_set") /\ mem' = [MapPage(mem, mem.mmio, pte) EXCEPT !.mmio = @ + 1]
    BY <1>8 DEF MapLapic
  <2>2. Buenas(B)
    BY <1>4, AsignadaYa, BootRegionsBuenas
  <2> HIDE DEF B
  <2>3. /\ Ordenada(mem', npages) /\ Mapa(B, mem', <<>>)
        /\ mem'.mmio = mem.mmio + 1 /\ mem'.mmio \in MMIOBASE .. MMIOLIM - 1
        /\ mem'.nextfree = mem.nextfree /\ mem'.pages = mem.pages /\ mem'.envs = mem.envs
        /\ mem'.kern_pgdir = mem.kern_pgdir
    BY <1>4, <1>8, <2>1, <2>2, MapLapicMapa
  <2>4. BootRegions(mem)' = B
    BY <1>2, <2>3, MismasRegiones DEF B
  <2>5. Mapa(BootRegions(mem), mem, regions)'
    BY <1>2, <1>4, <2>3, <2>4
  <2>6. mem.mmio \in Nat /\ MMIOBASE \in Nat
    BY <1>4, Direcciones
  <2>7. MMIOBASE .. mem.mmio - 1 \subseteq MMIOBASE .. mem'.mmio - 1
    BY <2>3, <2>6
  <2>8. Memoria'
    BY <1>2, <2>3, <2>7 DEF Construccion, Memoria, Ordenada
  <2>9. pc'[BSP] \in Arrancando \cup Sirviendo
    BY <1>3, <1>5, <2>1 DEF Arrancando
  <2>10. Fases'
    BY <1>2, <1>4, <2>3, <2>5, <2>9 DEF Fases, Asignando, Ordenando, Arrancando, Sirviendo
  <2>11. Construccion'
    BY <1>2, <2>3, <2>8, <2>10 DEF Construccion, Ordenada
  <2> QED
    BY <1>8, <2>1, <2>3, <2>11
<1> QED
  BY <1>6, <1>7, <1>8

\* The rest of the steps of a processor.
LEMMA CpuConstruccion ==
    ASSUME Construccion, Puesta, NEW c \in HwCPUs, Cpu(c) \/ Startup(c)
    PROVE  Construccion'
<1>1. /\ pc \in [HwCPUs -> Lugares] /\ cr3 \in [HwCPUs -> {"entry_pgdir", "kern_pgdir", NULL}]
  BY DEF Puesta, Procesadores
<1>2. /\ pc[BSP] \in Asignando \cup Ordenando \cup {"map", "lcr3"} \cup Arrancando \cup Sirviendo
                     \cup {"panic"}
  BY DEF Construccion, Fases
<1>3. CASE LoadKernPgdir(c)
  <2>1. CASE c = BSP
    BY <1>1, <1>3, <2>1, LoadKernPgdirConstruccion
  <2>2. CASE c # BSP
    <3>1. /\ UNCHANGED <<machine, npages, mem, regions, lapic>>
          /\ cr3' = [cr3 EXCEPT ![c] = "kern_pgdir"] /\ Goto(c, "lapic_map")
      BY <1>3, <2>2 DEF LoadKernPgdir, MemUnchanged
    <3>2. cr3'[BSP] = cr3[BSP]
      BY <1>1, <2>2, <3>1, BspEsCpu
    <3> QED
      BY <1>1, <2>2, <3>1, <3>2, PasoQuieto
  <2> QED
    BY <2>1, <2>2
<1>4. CASE TrapInitPercpu(c)
  <2> DEFINE p == IF c = BSP THEN "mp_init" ELSE "started"
  <2>1. /\ pc[c] = "trap_init" /\ Goto(c, p)
        /\ UNCHANGED <<machine, npages, mem, regions, lapic, cr3>>
    BY <1>4 DEF TrapInitPercpu, At, memory
  <2>2. c = BSP => pc[BSP] \in Arrancando \cup Sirviendo /\ p \in Arrancando \cup Sirviendo
    BY <2>1 DEF Arrancando
  <2> QED
    BY <1>1, <2>1, <2>2, PasoQuieto
<1>5. CASE MapLapic(c)
  BY <1>5, MapLapicConstruccion
<1>6. CASE SetLapic(c)
  <2>1. /\ pc[c] = "lapic_set" /\ Goto(c, IF c = BSP THEN "lock" ELSE "trap_init")
        /\ lapic' = mem.mmio - 1 /\ UNCHANGED <<machine, npages, mem, regions, cr3>>
    BY <1>6 DEF SetLapic, At, memory
  <2>2. pc'[BSP] = IF c = BSP THEN "lock" ELSE pc[BSP]
    BY <1>1, <2>1, BspEsCpu DEF Goto
  <2>3. pc[BSP] \in Arrancando \cup Sirviendo /\ pc'[BSP] \in Arrancando \cup Sirviendo
    <3>1. CASE c = BSP
      BY <2>1, <2>2, <3>1 DEF Arrancando
    <3>2. CASE c # BSP
      <4>1. pc[BSP] = "wait"
        BY <2>1, <3>2 DEF Puesta, Secundario, Viniendo
      <4> QED
        BY <2>2, <3>2, <4>1 DEF Sirviendo
    <3> QED
      BY <3>1, <3>2
  <2>4. mem.mmio > MMIOBASE
    BY <2>1 DEF Puesta, BootCpu
  <2> QED
    BY <2>1, <2>3, <2>4, QuietaConstruccion
<1>7. CASE LockKernel(c)
  <2> DEFINE p == IF c = BSP THEN "boot_aps" ELSE "sched"
  <2>1. /\ pc[c] = "lock" /\ Goto(c, p)
        /\ UNCHANGED <<machine, npages, mem, regions, lapic, cr3>>
    BY <1>7 DEF LockKernel, At, memory
  <2>2. c = BSP => pc[BSP] \in Arrancando \cup Sirviendo /\ p \in Arrancando \cup Sirviendo
    BY <2>1 DEF Arrancando, Sirviendo
  <2> QED
    BY <1>1, <2>1, <2>2, PasoQuieto
<1>8. CASE RunEnv(c)
  <2>1. /\ pc[c] = "sched" /\ Goto(c, "up")
        /\ UNCHANGED <<machine, npages, mem, regions, lapic, cr3>>
    BY <1>8 DEF RunEnv, At, memory
  <2> QED
    BY <1>1, <2>1, PasoQuieto DEF Sirviendo
<1>9. CASE Halt(c)
  <2>1. /\ pc[c] = "sched" /\ UNCHANGED <<machine, npages, mem, regions, lapic, cr3>>
    BY <1>9 DEF Halt, memory
  <2>2. Goto(c, "monitor") \/ Goto(c, "up")
    BY <1>9 DEF Halt
  <2>3. CASE Goto(c, "monitor")
    BY <1>1, <2>1, <2>3, PasoQuieto DEF Sirviendo
  <2>4. CASE Goto(c, "up")
    BY <1>1, <2>1, <2>4, PasoQuieto DEF Sirviendo
  <2> QED
    BY <2>2, <2>3, <2>4
<1>10. CASE EntryPgdir(c)
  <2>1. /\ pc[c] = "mpentry" /\ Goto(c, "mpentry_esp")
        /\ cr3' = [cr3 EXCEPT ![c] = "entry_pgdir"]
        /\ UNCHANGED <<machine, npages, mem, regions, lapic>>
    BY <1>10 DEF EntryPgdir, At, ApUnchanged, memory
  <2>2. c # BSP
    BY <1>2, <2>1 DEF Asignando, Ordenando, Arrancando, Sirviendo
  <2>3. cr3'[BSP] = cr3[BSP]
    BY <1>1, <2>1, <2>2, BspEsCpu
  <2> QED
    BY <1>1, <2>1, <2>2, <2>3, PasoQuieto
<1>11. CASE TakeStack(c)
  <2>1. /\ pc[c] = "mpentry_esp" /\ Goto(c, "lcr3")
        /\ UNCHANGED <<machine, npages, mem, regions, lapic, cr3>>
    BY <1>11 DEF TakeStack, At, ApUnchanged, memory
  <2>2. c # BSP
    BY <1>2, <2>1 DEF Asignando, Ordenando, Arrancando, Sirviendo
  <2> QED
    BY <1>1, <2>1, <2>2, PasoQuieto
<1>12. CASE Started(c)
  <2>1. /\ pc[c] = "started" /\ Goto(c, "lock")
        /\ UNCHANGED <<machine, npages, mem, regions, lapic, cr3>>
    BY <1>12 DEF Started, At, ApUnchanged, apVars, memory
  <2>2. c # BSP
    BY <1>2, <2>1 DEF Asignando, Ordenando, Arrancando, Sirviendo
  <2> QED
    BY <1>1, <2>1, <2>2, PasoQuieto
<1>13. CASE Startup(c)
  <2>1. UNCHANGED <<machine, npages, mem, regions, lapic, cr3>>
    BY <1>13 DEF Startup, ApUnchanged, memory
  <2>2. CASE pc[c] = "parked"
    <3>1. Goto(c, "mpentry") /\ c # BSP
      BY <1>2, <1>13, <2>2 DEF Startup, Asignando, Ordenando, Arrancando, Sirviendo
    <3> QED
      BY <1>1, <2>1, <3>1, PasoQuieto
  <2>3. CASE pc[c] # "parked"
    <3>1. UNCHANGED pc
      BY <1>13, <2>3 DEF Startup
    <3> QED
      BY <2>1, <3>1, QuietaConstruccion
  <2> QED
    BY <2>2, <2>3
<1> QED
  BY <1>3, <1>4, <1>5, <1>6, <1>7, <1>8, <1>9, <1>10, <1>11, <1>12, <1>13 DEF Cpu

LEMMA MpConstruccion ==
    ASSUME Construccion, Puesta, MpInit \/ BootAps
    PROVE  Construccion'
<1>1. pc \in [HwCPUs -> Lugares] /\ BSP \in HwCPUs
  BY BspEsCpu DEF Puesta, Procesadores
<1>2. UNCHANGED <<machine, npages, mem, regions, lapic, cr3>>
  BY DEF MpInit, BootAps, MpNoTable, MpTable, MpProc, MpOther, MpUnknown, MpDone, SkipSelf,
         StartAp, WaitStarted, CreateEnvs, MpUnchanged, ApUnchanged, memory
<1>3. CASE MpProc \/ MpOther \/ MpUnknown \/ SkipSelf
  <2>1. UNCHANGED pc
    BY <1>3 DEF MpProc, MpOther, MpUnknown, SkipSelf
  <2> QED
    BY <1>2, <2>1, QuietaConstruccion
<1>4. CASE MpNoTable \/ MpTable \/ MpDone
  <2>1. \/ pc[BSP] = "mp_init" /\ Goto(BSP, "lapic_map")
        \/ pc[BSP] = "mp_init" /\ Goto(BSP, "mp_entry")
        \/ pc[BSP] = "mp_entry" /\ Goto(BSP, "lapic_map")
    BY <1>4 DEF MpNoTable, MpTable, MpDone, At
  <2>2. /\ pc[BSP] \in Arrancando /\ "lapic_map" \in Arrancando /\ "mp_entry" \in Arrancando
    BY <2>1 DEF Arrancando
  <2> QED
    BY <1>1, <1>2, <2>1, <2>2, PasoQuieto
<1>5. CASE StartAp \/ WaitStarted \/ CreateEnvs
  <2>1. \/ pc[BSP] = "boot_aps" /\ Goto(BSP, "wait")
        \/ pc[BSP] = "wait" /\ Goto(BSP, "boot_aps")
        \/ pc[BSP] = "boot_aps" /\ Goto(BSP, "sched")
    BY <1>5 DEF StartAp, WaitStarted, CreateEnvs, At
  <2>2. /\ pc[BSP] \in Sirviendo /\ "wait" \in Sirviendo /\ "boot_aps" \in Sirviendo
        /\ "sched" \in Sirviendo
    BY <2>1 DEF Sirviendo
  <2> QED
    BY <1>1, <1>2, <2>1, <2>2, PasoQuieto
<1> QED
  BY <1>3, <1>4, <1>5 DEF MpInit, BootAps

\* entry.S leaves an empty memory.
LEMMA InitConstruccion == Init => Construccion
<1> SUFFICES ASSUME Init PROVE Construccion
  OBVIOUS
<1>1. /\ machine \in Machines /\ npages = 0 /\ mem = EmptyMemory /\ regions = <<>> /\ lapic = NULL
      /\ pc[BSP] = "detect" /\ cr3[BSP] = "entry_pgdir"
  BY BspEsCpu DEF Init
<1>2. /\ mem.nextfree = END /\ mem.pages = NULL /\ mem.envs = NULL /\ mem.kern_pgdir = NULL
      /\ mem.page_free_list = <<>> /\ mem.pp1 = <<>> /\ mem.pp2 = <<>> /\ mem.linked = 0
      /\ mem.mmio = MMIOBASE /\ mem.pgdir = [x \in Pdx |-> NULL]
      /\ mem.table = [p \in {} |-> NULL]
  BY <1>1 DEF EmptyMemory
<1>3. DOMAIN mem.table = {} /\ \A x \in Pdx : mem.pgdir[x] = NULL
  BY <1>2
<1>4. mem \in Memorias
  <2>1. /\ END \in Nat /\ MMIOBASE \in Nat /\ <<>> \in Seq(Nat)
        /\ [x \in Pdx |-> NULL] \in [Pdx -> Ptes \cup {NULL}]
    BY Numeros, Direcciones
  <2>2. [p \in {} |-> NULL] \in UNION {[D -> Tablas] : D \in SUBSET Nat}
    <3>1. [p \in {} |-> NULL] \in [{} -> Tablas] /\ {} \in SUBSET Nat
      OBVIOUS
    <3> QED
      BY <3>1
  <2> QED
    BY <1>1, <2>1, <2>2 DEF EmptyMemory, Memorias
<1>5. MMIOBASE \in MMIOBASE .. MMIOLIM - 1
  BY Direcciones
<1>6. Memoria
  <2>1. /\ npages \in Nat /\ npages <= KERN_PAGES /\ mem.nextfree >= END /\ regions \in Seq(Regiones)
    BY <1>1, <1>2, Numeros
  <2> QED
    BY <1>1, <1>2, <1>4, <1>5, <2>1 DEF Memoria
<1>7. Listas(mem, npages)
  BY <1>2, SinPaginas DEF Listas
<1>8. Directorio(mem)
  BY <1>2, <1>3, RanuraEnPdx DEF Directorio
<1>9. Fases
  BY <1>1, <1>2, <1>3 DEF Fases, Asignando, Ordenando, Arrancando, Sirviendo
<1> QED
  BY <1>6, <1>7, <1>8, <1>9 DEF Construccion

LEMMA InitPuesta == Init => Puesta
<1> SUFFICES ASSUME Init PROVE Puesta
  OBVIOUS
<1>1. BSP \in HwCPUs /\ BSP = 0 /\ NCPU \in Nat \ {0} /\ 0 \in 0 .. NCPU - 1
  BY BspEsCpu, Numeros
<1>2. bootstack \in Nat
  BY Numeros DEF bootstack
<1>3. Procesadores
  <2>1. esp \in [HwCPUs -> Nat \cup {NULL}]
    BY <1>2 DEF Init
  <2>4. cr3 \in [HwCPUs -> {"entry_pgdir", "kern_pgdir", NULL}]
    BY DEF Init
  <2>5. "detect" \in Lugares /\ "parked" \in Lugares
    BY DEF Lugares, Asignando
  <2>6. pc \in [HwCPUs -> Lugares]
    BY <2>5 DEF Init
  <2>2. /\ tr \in [HwCPUs -> 0 .. NCPU - 1 \cup {NULL}]
        /\ gdt \in [0 .. NCPU - 1 -> 0 .. NCPU - 1 \cup {NULL}]
        /\ ts_esp0 \in [0 .. NCPU - 1 -> Nat \cup {NULL}] /\ ipi \in [HwCPUs -> Nat]
        /\ cpu_id \in [0 .. NCPU - 1 -> 0 .. NCPU - 1]
        /\ cpu_status \in [0 .. NCPU - 1 -> {"UNUSED", "STARTED", "HALTED"}]
    BY <1>1 DEF Init
  <2>3. /\ entry \in Nat \ {0} /\ ncpu \in 0 .. NCPU /\ bootcpu = 0 /\ ap \in 0 .. NCPU
        /\ mpentry_kstack \in Nat \cup {NULL}
    BY <1>1 DEF Init
  <2> QED
    BY <2>1, <2>2, <2>3, <2>4, <2>6 DEF Procesadores
<1>4. BootCpu
  <2>1. cpu_id[0] = 0 /\ pc[BSP] = "detect" /\ esp[BSP] = bootstack /\ ap = 0 /\ ncpu = 0 /\ entry = 1
    BY <1>1 DEF Init
  <2>2. \A c \in HwCPUs : pc[c] \in {"detect", "parked"}
    BY DEF Init
  <2> QED
    BY <2>1, <2>2 DEF BootCpu, Asignando, Ordenando, Sirviendo
<1>5. ASSUME NEW c \in HwCPUs \ {BSP} PROVE Secundario(c)
  <2>1. pc[c] = "parked" /\ ipi[c] = 0 /\ esp[c] = NULL
    BY <1>5 DEF Init
  <2>2. c < NCPU => cpu_status[c] = "UNUSED"
    BY <1>1 DEF Init, HwCPUs
  <2> QED
    BY <2>1, <2>2 DEF Secundario, Viniendo, Lejos
<1>6. ASSUME NEW c \in HwCPUs PROVE Tss(c)
  BY DEF Init, Tss
<1> QED
  BY <1>3, <1>4, <1>5, <1>6 DEF Puesta

-----------------------------------------------------------------------------
\* The processors, step by step.

\* A processor on its way is the one that the boot processor waits for.
LEMMA Viene ==
    ASSUME Puesta, NEW c \in HwCPUs \ {BSP}, pc[c] \in Viniendo
    PROVE  /\ pc[BSP] = "wait" /\ ap = c /\ c \in 1 .. ncpu - 1 /\ c \in 1 .. NCPU - 1
           /\ cpu_id[c] = c /\ mpentry_kstack = percpu_kstacks(c) /\ lapicaddr
           /\ cpu_status[c] = "UNUSED"
<1>1. pc[BSP] = "wait" /\ ap = c
  BY DEF Puesta, Secundario
<1>2. c \in 1 .. ncpu - 1 /\ mpentry_kstack = percpu_kstacks(c)
  BY <1>1 DEF Puesta, BootCpu
<1>3. NCPU \in Nat /\ ncpu \in 0 .. NCPU
  BY Numeros DEF Puesta, Procesadores
<1>4. c \in 1 .. NCPU - 1 /\ c \in 0 .. ncpu - 1 /\ ncpu > 1
  BY <1>2, <1>3
<1>5. cpu_id[c] = c /\ lapicaddr
  BY <1>1, <1>4 DEF Puesta, BootCpu, Sirviendo
<1>6. pc[c] \notin Lejos
  BY DEF Viniendo, Lejos
<1>7. cpu_status[c] = "UNUSED"
  BY <1>3, <1>4, <1>6 DEF Puesta, Secundario
<1> QED
  BY <1>1, <1>2, <1>4, <1>5, <1>7

\* While the boot processor does not wait nobody is coming.
LEMMA NadieViene ==
    ASSUME Puesta, pc[BSP] # "wait", NEW c \in HwCPUs \ {BSP}
    PROVE  pc[c] \notin Viniendo /\ ~(pc[c] = "parked" /\ ipi[c] > 0)
BY DEF Puesta, Secundario

LEMMA SecundarioIgual ==
    ASSUME NEW c \in HwCPUs \ {BSP}, Secundario(c), pc'[c] = pc[c], ipi'[c] = ipi[c],
           esp'[c] = esp[c], c < NCPU => cpu_status'[c] = cpu_status[c],
           lapic # NULL => lapic' # NULL,
           pc[BSP] = "wait" => pc'[BSP] = "wait" /\ ap' = ap
    PROVE  Secundario(c)'
BY DEF Secundario

LEMMA TssIgual ==
    ASSUME NEW c \in HwCPUs, Tss(c), UNCHANGED <<tr, gdt, ts_esp0>>,
           cr3'[BSP] = cr3[BSP] \/ cr3'[BSP] = "kern_pgdir"
    PROVE  Tss(c)'
BY DEF Tss

\* mem_init knows nothing of processors.
LEMMA MemInitPuesta ==
    ASSUME Construccion, Puesta, MemInit
    PROVE  Puesta'
<1> DEFINE Q == {"alloc_pgdir", "alloc_pages", "alloc_envs", "page_init", "sort",
                 "check_free_list", "map", "lcr3", "panic"}
<1>1. UNCHANGED <<machine, lapicaddr, lapic, entry, ncpu, bootcpu, cpu_id, cpu_status, ap,
                  mpentry_kstack, cr3, esp, tr, gdt, ts_esp0, ipi>>
  BY DEF MemInit, DetectMemory, AllocPgdir, AllocPages, AllocEnvs, LinkFreePages,
         SortFreePages, CheckFreeList, MapRegion, CheckKernPgdir, MemUnchanged, mpVars, apVars,
         tssVars
<1>2. pc[BSP] \in Asignando \cup Ordenando \cup {"map"}
  BY DEF MemInit, DetectMemory, AllocPgdir, AllocPages, AllocEnvs, LinkFreePages, At,
         SortFreePages, CheckFreeList, MapRegion, CheckKernPgdir, Asignando, Ordenando
<1>3. UNCHANGED pc \/ \E q \in Q : Goto(BSP, q)
  <2>1. CASE DetectMemory
    BY <2>1 DEF DetectMemory, At
  <2>2. CASE AllocPgdir
    BY <2>2 DEF AllocPgdir, Panics
  <2>3. CASE AllocPages
    BY <2>3 DEF AllocPages, Panics
  <2>4. CASE AllocEnvs
    BY <2>4 DEF AllocEnvs, Panics
  <2>5. CASE LinkFreePages
    BY <2>5 DEF LinkFreePages
  <2>6. CASE SortFreePages
    BY <2>6 DEF SortFreePages
  <2>7. CASE CheckFreeList
    <3>1. (IF FreeListPlausible(mem) THEN "map" ELSE "panic") \in Q
      OBVIOUS
    <3>2. Goto(BSP, IF FreeListPlausible(mem) THEN "map" ELSE "panic")
      BY <2>7 DEF CheckFreeList
    <3> QED
      BY <3>1, <3>2
  <2>8. CASE MapRegion
    BY <2>8 DEF MapRegion, Panics
  <2>9. CASE CheckKernPgdir
    <3>1. (IF KernPgdirPlausible THEN "lcr3" ELSE "panic") \in Q
      OBVIOUS
    <3>2. Goto(BSP, IF KernPgdirPlausible THEN "lcr3" ELSE "panic")
      BY <2>9 DEF CheckKernPgdir
    <3> QED
      BY <3>1, <3>2
  <2> QED
    BY <2>1, <2>2, <2>3, <2>4, <2>5, <2>6, <2>7, <2>8, <2>9 DEF MemInit
<1>4. pc \in [HwCPUs -> Lugares] /\ BSP \in HwCPUs
  BY BspEsCpu DEF Puesta, Procesadores
<1>5. /\ pc' \in [HwCPUs -> Lugares] /\ pc'[BSP] \in Q \cup {"detect"}
      /\ \A d \in HwCPUs \ {BSP} : pc'[d] = pc[d]
  <2>1. CASE UNCHANGED pc
    BY <1>2, <1>4, <2>1 DEF Asignando, Ordenando
  <2>2. CASE \E q \in Q : Goto(BSP, q)
    <3>1. PICK q \in Q : pc' = [pc EXCEPT ![BSP] = q]
      BY <2>2 DEF Goto
    <3>2. q \in Lugares
      BY DEF Lugares, Asignando, Ordenando
    <3> HIDE DEF Q
    <3> QED
      BY <1>4, <3>1, <3>2
  <2> QED
    BY <1>3, <2>1, <2>2
<1>6. pc[BSP] # "wait" /\ pc[BSP] \notin Sirviendo
  BY <1>2 DEF Asignando, Ordenando, Sirviendo
<1>7. \A d \in HwCPUs : pc'[d] # "lapic_set"
  <2>1. pc'[BSP] # "lapic_set"
    BY <1>5
  <2>2. \A d \in HwCPUs \ {BSP} : pc[d] # "lapic_set"
    BY <1>6, NadieViene DEF Viniendo
  <2> QED
    BY <1>5, <2>1, <2>2
<1>8. Procesadores'
  BY <1>1, <1>5 DEF Puesta, Procesadores
<1>9. ncpu = 0 /\ entry = 1 /\ ap = 0
  BY <1>2, <1>6 DEF Puesta, BootCpu
<1>10. BootCpu'
  <2>1. pc'[BSP] \notin Sirviendo /\ pc'[BSP] \notin {"mp_entry", "lapic_map", "lapic_set", "lock", "wait"}
    BY <1>5 DEF Sirviendo
  <2> QED
    BY <1>1, <1>7, <1>9, <2>1 DEF Puesta, BootCpu
<1>11. \A c \in HwCPUs \ {BSP} : Secundario(c)'
  BY <1>1, <1>5, <1>6, SecundarioIgual DEF Puesta
<1>12. \A c \in HwCPUs : Tss(c)'
  BY <1>1, TssIgual DEF Puesta
<1> QED
  BY <1>8, <1>10, <1>11, <1>12 DEF Puesta

\* mp_init: before it is over there are no other processors.
LEMMA MpPuesta ==
    ASSUME Construccion, Puesta, MpInit
    PROVE  Puesta'
<1>1. UNCHANGED <<machine, mem, lapic, ap, mpentry_kstack, ipi, cr3, esp, tr, gdt, ts_esp0>>
  BY DEF MpInit, MpNoTable, MpTable, MpProc, MpOther, MpUnknown, MpDone, MpUnchanged, memory,
         apVars, tssVars
<1>2. pc[BSP] \in {"mp_init", "mp_entry"}
  BY DEF MpInit, MpNoTable, MpTable, MpProc, MpOther, MpUnknown, MpDone, At, InTable
<1>3. /\ pc \in [HwCPUs -> Lugares] /\ BSP \in HwCPUs
      /\ NCPU \in Nat \ {0} /\ ncpu \in 0 .. NCPU /\ entry \in Nat \ {0} /\ bootcpu = 0
      /\ cpu_id \in [0 .. NCPU - 1 -> 0 .. NCPU - 1]
      /\ cpu_status \in [0 .. NCPU - 1 -> {"UNUSED", "STARTED", "HALTED"}]
  BY BspEsCpu, Numeros DEF Puesta, Procesadores
<1>4. /\ cpu_id[0] = 0 /\ \A i \in 0 .. ncpu - 1 : cpu_id[i] = i
      /\ esp[BSP] = bootstack /\ ap = 0
      /\ pc[BSP] = "mp_init" => ncpu = 0 /\ entry = 1
      /\ pc[BSP] = "mp_entry" => machine.table # NULL
      /\ pc[BSP] = "mp_entry" /\ entry <= Len(machine.table) =>
          (ncpu = 0 <=> \A k \in 1 .. entry - 1 : ~IsProcessor(machine.table[k]))
  BY <1>2 DEF Puesta, BootCpu, Sirviendo
<1>5. /\ "lapic_map" \in Lugares /\ "mp_entry" \in Lugares /\ "mp_init" \in Lugares
  BY DEF Lugares, Arrancando
<1>6. \A c \in HwCPUs \ {BSP} : pc[c] \notin Viniendo
  BY <1>2, NadieViene
\* What every one of them keeps.
<1>7. ASSUME pc'[BSP] \in {"lapic_map", "mp_entry"}, pc' \in [HwCPUs -> Lugares],
             \A d \in HwCPUs \ {BSP} : pc'[d] = pc[d],
             \A i \in 1 .. NCPU - 1 : cpu_status'[i] = cpu_status[i],
             ncpu' \in 0 .. NCPU, entry' \in Nat \ {0}, bootcpu' = 0,
             cpu_id' \in [0 .. NCPU - 1 -> 0 .. NCPU - 1],
             cpu_status' \in [0 .. NCPU - 1 -> {"UNUSED", "STARTED", "HALTED"}],
             cpu_id'[0] = 0, \A i \in 0 .. ncpu' - 1 : cpu_id'[i] = i,
             pc'[BSP] = "mp_entry" => machine.table # NULL,
             pc'[BSP] = "mp_entry" /\ entry' <= Len(machine.table) =>
                (ncpu' = 0 <=> \A k \in 1 .. entry' - 1 : ~IsProcessor(machine.table[k])),
             pc'[BSP] = "lapic_map" /\ ncpu' > 1 => lapicaddr'
      PROVE  Puesta'
  <2>1. Procesadores'
    BY <1>1, <1>7 DEF Puesta, Procesadores
  <2>2. \A d \in HwCPUs : pc'[d] # "lapic_set"
    BY <1>6, <1>7 DEF Viniendo
  <2>3. BootCpu'
    BY <1>1, <1>4, <1>7, <2>2 DEF BootCpu, Asignando, Ordenando, Sirviendo
  <2>4. ASSUME NEW c \in HwCPUs \ {BSP} PROVE Secundario(c)'
    <3>1. c < NCPU => c \in 1 .. NCPU - 1
      BY <1>3, BspEsCpu DEF HwCPUs
    <3> QED
      BY <1>1, <1>2, <1>7, <3>1, SecundarioIgual DEF Puesta
  <2>5. \A c \in HwCPUs : Tss(c)'
    BY <1>1, TssIgual DEF Puesta
  <2> QED
    BY <2>1, <2>3, <2>4, <2>5 DEF Puesta
<1>8. CASE MpNoTable
  <2>1. /\ pc[BSP] = "mp_init" /\ Goto(BSP, "lapic_map")
        /\ UNCHANGED <<entry, ncpu, bootcpu, cpu_id, cpu_status>>
    BY <1>8 DEF MpNoTable, At, mpVars
  <2>2. pc'[BSP] = "lapic_map" /\ pc' \in [HwCPUs -> Lugares]
    BY <1>3, <1>5, <2>1 DEF Goto
  <2>3. \A d \in HwCPUs \ {BSP} : pc'[d] = pc[d]
    BY <1>3, <2>1 DEF Goto
  <2> QED
    BY <1>3, <1>4, <1>7, <2>1, <2>2, <2>3
<1>9. CASE MpTable
  <2>1. /\ pc[BSP] = "mp_init" /\ Goto(BSP, "mp_entry") /\ machine.table # NULL
        /\ UNCHANGED <<entry, ncpu, bootcpu, cpu_id, cpu_status>>
    BY <1>9 DEF MpTable, At
  <2>2. pc'[BSP] = "mp_entry" /\ pc' \in [HwCPUs -> Lugares]
    BY <1>3, <1>5, <2>1 DEF Goto
  <2>3. \A d \in HwCPUs \ {BSP} : pc'[d] = pc[d]
    BY <1>3, <2>1 DEF Goto
  <2>4. entry' - 1 = 0 /\ ncpu' = 0
    BY <1>4, <2>1
  <2>5. \A k \in 1 .. entry' - 1 : ~IsProcessor(machine.table[k])
    BY <2>4
  <2> QED
    BY <1>3, <1>4, <1>7, <2>1, <2>2, <2>3, <2>4, <2>5
<1>10. CASE MpProc
  <2>1. /\ pc[BSP] = "mp_entry" /\ entry <= Len(machine.table) /\ entry' = entry + 1
        /\ IsProcessor(machine.table[entry]) /\ UNCHANGED <<pc, lapicaddr, cpu_status>>
        /\ bootcpu' = IF machine.table[entry] = "boot" THEN ncpu ELSE bootcpu
    BY <1>10 DEF MpProc, InTable
  <2>2. \/ ncpu < NCPU /\ cpu_id' = [cpu_id EXCEPT ![ncpu] = ncpu] /\ ncpu' = ncpu + 1
        \/ ~(ncpu < NCPU) /\ UNCHANGED <<cpu_id, ncpu>>
    BY <1>10 DEF MpProc
  <2>3. machine \in Machines /\ machine.table # NULL /\ machine.table \in Seq({"boot", "proc", "bus", "unknown"})
    <3>1. machine \in Machines /\ machine \in MachineType /\ machine.table # NULL
      BY <1>4, <2>1, BootConstants DEF Construccion, Memoria
    <3> QED
      BY <3>1 DEF MachineType
  <2>4. entry \in DOMAIN machine.table /\ Len(machine.table) \in Nat
    BY <1>3, <2>1, <2>3
  <2>5. bootcpu' = 0
    <3>1. CASE machine.table[entry] = "boot"
      <4>1. \A k \in 1 .. entry - 1 : ~IsProcessor(machine.table[k])
        BY <2>1, <2>3, <2>4, <3>1, BootAssumption
      <4> QED
        BY <1>4, <2>1, <3>1, <4>1
    <3>2. CASE machine.table[entry] # "boot"
      BY <1>3, <2>1, <3>2
    <3> QED
      BY <3>1, <3>2
  <2>6. /\ ncpu' \in 1 .. NCPU /\ cpu_id' \in [0 .. NCPU - 1 -> 0 .. NCPU - 1] /\ cpu_id'[0] = 0
        /\ \A i \in 0 .. ncpu' - 1 : cpu_id'[i] = i
    <3>1. CASE ncpu < NCPU /\ cpu_id' = [cpu_id EXCEPT ![ncpu] = ncpu] /\ ncpu' = ncpu + 1
      <4>1. ncpu \in 0 .. NCPU - 1 /\ ncpu' \in 1 .. NCPU /\ ncpu' - 1 = ncpu
        BY <1>3, <3>1
      <4>2. cpu_id' \in [0 .. NCPU - 1 -> 0 .. NCPU - 1]
        BY <1>3, <3>1, <4>1
      <4>3. ASSUME NEW i \in 0 .. ncpu PROVE cpu_id'[i] = i
        <5>1. i \in 0 .. NCPU - 1 /\ (i = ncpu \/ i \in 0 .. ncpu - 1)
          BY <1>3, <4>1
        <5> QED
          BY <1>3, <1>4, <3>1, <5>1
      <4>4. 0 \in 0 .. ncpu
        BY <4>1
      <4> QED
        BY <4>1, <4>2, <4>3, <4>4
    <3>2. CASE ~(ncpu < NCPU) /\ UNCHANGED <<cpu_id, ncpu>>
      BY <1>3, <1>4, <3>2
    <3> QED
      BY <2>2, <3>1, <3>2
  <2>7. entry \in 1 .. entry' - 1 /\ entry' \in Nat \ {0} /\ ncpu' \in 0 .. NCPU /\ ncpu' # 0
    <3>1. entry \in Nat \ {0} /\ entry' = entry + 1
      BY <1>3, <2>1
    <3>2. entry \in 1 .. entry' - 1 /\ entry' \in Nat \ {0}
      BY <3>1
    <3>3. NCPU \in Nat /\ ncpu' \in 1 .. NCPU
      BY <1>3, <2>6
    <3>4. ncpu' \in 0 .. NCPU /\ ncpu' # 0
      BY <3>3
    <3> QED
      BY <3>2, <3>4
  <2>8. pc'[BSP] = "mp_entry" /\ pc' \in [HwCPUs -> Lugares] /\ pc' = pc
    BY <1>3, <2>1
  <2> QED
    BY <1>3, <1>7, <2>1, <2>3, <2>5, <2>6, <2>7, <2>8
<1>11. CASE MpOther
  <2>1. /\ pc[BSP] = "mp_entry" /\ entry <= Len(machine.table) /\ entry' = entry + 1
        /\ machine.table[entry] = "bus" /\ UNCHANGED <<pc, ncpu, bootcpu, cpu_id, cpu_status>>
    BY <1>11 DEF MpOther, InTable
  <2>2. ~IsProcessor(machine.table[entry])
    BY <2>1 DEF IsProcessor
  <2>3. \A k \in 1 .. entry' - 1 : k = entry \/ k \in 1 .. entry - 1
    BY <1>3, <2>1
  <2>4. 1 .. entry - 1 \subseteq 1 .. entry' - 1
    BY <1>3, <2>1
  <2>5. ncpu' = 0 <=> \A k \in 1 .. entry' - 1 : ~IsProcessor(machine.table[k])
    BY <1>4, <2>1, <2>2, <2>3, <2>4
  <2>6. entry' \in Nat \ {0}
    BY <1>3, <2>1
  <2>7. pc'[BSP] = "mp_entry" /\ pc' \in [HwCPUs -> Lugares] /\ machine.table # NULL
    BY <1>3, <1>4, <2>1
  <2> QED
    BY <1>3, <1>4, <1>7, <2>1, <2>5, <2>6, <2>7
<1>12. CASE MpUnknown
  <2>1. /\ pc[BSP] = "mp_entry" /\ entry <= Len(machine.table) /\ entry' = Len(machine.table) + 1
        /\ UNCHANGED <<pc, ncpu, bootcpu, cpu_id, cpu_status>>
    BY <1>12 DEF MpUnknown, InTable
  <2>2. machine.table # NULL /\ machine.table \in Seq({"boot", "proc", "bus", "unknown"})
    <3>1. machine \in MachineType /\ machine.table # NULL
      BY <1>4, <2>1, BootConstants DEF Construccion, Memoria
    <3> QED
      BY <3>1 DEF MachineType
  <2>3. Len(machine.table) \in Nat
    BY <2>2
  <2>4. entry' \in Nat \ {0} /\ ~(entry' <= Len(machine.table))
    BY <2>1, <2>3
  <2>5. pc'[BSP] = "mp_entry" /\ pc' \in [HwCPUs -> Lugares]
    BY <1>3, <2>1
  <2> QED
    BY <1>3, <1>4, <1>7, <2>1, <2>2, <2>4, <2>5
<1>13. CASE MpDone
  <2>1. /\ pc[BSP] = "mp_entry" /\ Goto(BSP, "lapic_map")
        /\ cpu_status' = [cpu_status EXCEPT ![0] = "STARTED"]
        /\ lapicaddr' = ismp /\ ncpu' = (IF ismp THEN ncpu ELSE 1)
        /\ UNCHANGED <<entry, bootcpu, cpu_id>>
    BY <1>3, <1>13 DEF MpDone, At
  <2>2. pc'[BSP] = "lapic_map" /\ pc' \in [HwCPUs -> Lugares]
    BY <1>3, <1>5, <2>1 DEF Goto
  <2>3. \A d \in HwCPUs \ {BSP} : pc'[d] = pc[d]
    BY <1>3, <2>1 DEF Goto
  <2>4. cpu_status' \in [0 .. NCPU - 1 -> {"UNUSED", "STARTED", "HALTED"}]
    BY <1>3, <2>1
  <2>5. \A i \in 1 .. NCPU - 1 : cpu_status'[i] = cpu_status[i]
    BY <1>3, <2>1
  <2>6. ncpu' \in 0 .. NCPU /\ (ncpu' > 1 => lapicaddr')
    BY <1>3, <2>1
  <2>7. \A i \in 0 .. ncpu' - 1 : cpu_id'[i] = i
    <3>1. CASE ismp
      BY <1>4, <2>1, <3>1
    <3>2. CASE ~ismp
      BY <1>4, <2>1, <3>2
    <3> QED
      BY <3>1, <3>2
  <2> QED
    BY <1>3, <1>4, <1>7, <2>1, <2>2, <2>3, <2>4, <2>5, <2>6, <2>7
<1> QED
  BY <1>8, <1>9, <1>10, <1>11, <1>12, <1>13 DEF MpInit

\* boot_aps, on the boot processor.
LEMMA BootApsPuesta ==
    ASSUME Construccion, Puesta, BootAps
    PROVE  Puesta'
<1>1. UNCHANGED <<machine, mem, lapicaddr, lapic, entry, bootcpu, ncpu, cpu_id, cpu_status,
                  cr3, esp, tr, gdt, ts_esp0>>
  BY DEF BootAps, SkipSelf, StartAp, WaitStarted, CreateEnvs, ApUnchanged, memory, mpVars, tssVars
<1>2. pc[BSP] \in {"boot_aps", "wait"}
  BY DEF BootAps, SkipSelf, StartAp, WaitStarted, CreateEnvs, At
<1>3. /\ pc \in [HwCPUs -> Lugares] /\ BSP \in HwCPUs /\ BSP = 0 /\ NCPU \in Nat \ {0}
      /\ ncpu \in 0 .. NCPU /\ ap \in 0 .. NCPU /\ ipi \in [HwCPUs -> Nat]
      /\ mpentry_kstack \in Nat \cup {NULL}
  BY BspEsCpu, Numeros DEF Puesta, Procesadores
<1>4. /\ \A i \in 0 .. ncpu - 1 : cpu_id[i] = i
      /\ pc[BSP] = "wait" => ap \in 1 .. ncpu - 1 /\ mpentry_kstack = percpu_kstacks(ap)
      /\ ncpu > 1 => lapicaddr
      /\ lapicaddr => lapic # NULL
      /\ \A c \in HwCPUs : pc[c] = "lapic_set" => mem.mmio > MMIOBASE
  BY <1>2 DEF Puesta, BootCpu, Sirviendo
<1>5. cpunum(BSP) = 0
  BY <1>3 DEF cpunum
<1>6. "boot_aps" \in Lugares /\ "wait" \in Lugares /\ "sched" \in Lugares
  BY DEF Lugares, Sirviendo
<1>7. ASSUME pc'[BSP] \in {"boot_aps", "wait", "sched"}, pc' \in [HwCPUs -> Lugares],
             \A d \in HwCPUs \ {BSP} : pc'[d] = pc[d],
             ap' \in 0 .. NCPU, ipi' \in [HwCPUs -> Nat], mpentry_kstack' \in Nat \cup {NULL},
             pc'[BSP] = "wait" => ap' \in 1 .. ncpu - 1 /\ mpentry_kstack' = percpu_kstacks(ap'),
             \A c \in HwCPUs \ {BSP} : Secundario(c)'
      PROVE  Puesta'
  <2>1. Procesadores'
    BY <1>1, <1>7 DEF Puesta, Procesadores
  <2>2. \A d \in HwCPUs : pc'[d] = "lapic_set" => mem.mmio > MMIOBASE
    BY <1>4, <1>7
  <2>3. pc'[BSP] \in Sirviendo
    BY <1>7 DEF Sirviendo
  <2>4. cpu_id[0] = 0 /\ esp[BSP] = bootstack
    BY DEF Puesta, BootCpu
  <2>5. BootCpu'
    BY <1>1, <1>4, <1>7, <2>2, <2>3, <2>4 DEF BootCpu, Asignando, Ordenando, Sirviendo
  <2>6. \A c \in HwCPUs : Tss(c)'
    BY <1>1, TssIgual DEF Puesta
  <2> QED
    BY <1>7, <2>1, <2>5, <2>6 DEF Puesta
<1>8. CASE SkipSelf
  <2>1. /\ pc[BSP] = "boot_aps" /\ ap < ncpu /\ ap' = ap + 1
        /\ UNCHANGED <<mpentry_kstack, ipi, pc>>
    BY <1>8 DEF SkipSelf
  <2>2. ap' \in 0 .. NCPU
    BY <1>3, <2>1
  <2>3. \A c \in HwCPUs \ {BSP} : Secundario(c)'
    BY <1>1, <2>1, SecundarioIgual DEF Puesta
  <2> QED
    BY <1>3, <1>6, <1>7, <2>1, <2>2, <2>3
<1>9. CASE StartAp
  <2>1. /\ ap < ncpu /\ ap # 0 /\ pc[BSP] = "boot_aps" /\ Goto(BSP, "wait")
        /\ mpentry_kstack' = percpu_kstacks(ap)
        /\ ipi' = [ipi EXCEPT ![cpu_id[ap]] = 2] /\ ap' = ap
    BY <1>5, <1>9 DEF StartAp, At
  <2>2. ap \in 1 .. ncpu - 1 /\ ap \in 0 .. ncpu - 1 /\ ap \in 0 .. NCPU - 1
    BY <1>3, <2>1
  <2>3. ipi' = [ipi EXCEPT ![ap] = 2] /\ percpu_kstacks(ap) \in Nat
    BY <1>4, <2>1, <2>2, Pilas
  <2>4. pc'[BSP] = "wait" /\ pc' \in [HwCPUs -> Lugares]
    BY <1>3, <1>6, <2>1 DEF Goto
  <2>5. \A d \in HwCPUs \ {BSP} : pc'[d] = pc[d]
    BY <1>3, <2>1 DEF Goto
  <2>6. ipi' \in [HwCPUs -> Nat]
    BY <1>3, <2>3
  <2>7. ASSUME NEW c \in HwCPUs \ {BSP} PROVE Secundario(c)'
    <3>1. pc[c] \notin Viniendo /\ ~(pc[c] = "parked" /\ ipi[c] > 0)
      BY <2>1, NadieViene
    <3>2. CASE c = ap
      BY <1>1, <2>1, <2>4, <2>5, <3>1, <3>2 DEF Puesta, Secundario
    <3>3. CASE c # ap
      <4>1. ipi'[c] = ipi[c] /\ pc'[c] = pc[c]
        BY <1>3, <2>3, <2>5, <3>3
      <4> QED
        BY <1>1, <2>1, <4>1, SecundarioIgual DEF Puesta
    <3> QED
      BY <3>2, <3>3
  <2> QED
    BY <1>3, <1>7, <2>1, <2>2, <2>3, <2>4, <2>5, <2>6, <2>7
<1>10. CASE WaitStarted
  <2>1. /\ pc[BSP] = "wait" /\ Goto(BSP, "boot_aps") /\ cpu_status[ap] = "STARTED"
        /\ ap' = ap + 1 /\ UNCHANGED <<mpentry_kstack, ipi>>
    BY <1>10 DEF WaitStarted, At
  <2>2. ap \in 1 .. ncpu - 1 /\ ap < NCPU /\ ap \in HwCPUs \ {BSP} /\ ap' \in 0 .. NCPU
    BY <1>3, <1>4, <2>1 DEF HwCPUs
  <2>3. pc[ap] \in Lejos
    BY <2>1, <2>2 DEF Puesta, Secundario
  <2>4. pc'[BSP] = "boot_aps" /\ pc' \in [HwCPUs -> Lugares]
    BY <1>3, <1>6, <2>1 DEF Goto
  <2>5. \A d \in HwCPUs \ {BSP} : pc'[d] = pc[d]
    BY <1>3, <2>1 DEF Goto
  <2>6. ASSUME NEW c \in HwCPUs \ {BSP} PROVE Secundario(c)'
    <3>1. Secundario(c)
      BY DEF Puesta
    <3>2. pc[c] \notin Viniendo /\ ~(pc[c] = "parked" /\ ipi[c] > 0)
      <4>1. CASE c = ap
        BY <2>3, <4>1 DEF Viniendo, Lejos
      <4>2. CASE c # ap
        BY <3>1, <4>2 DEF Secundario
      <4> QED
        BY <4>1, <4>2
    <3> QED
      BY <1>1, <2>1, <2>5, <3>1, <3>2 DEF Secundario
  <2> QED
    BY <1>3, <1>7, <2>1, <2>2, <2>4, <2>5, <2>6
<1>11. CASE CreateEnvs
  <2>1. /\ pc[BSP] = "boot_aps" /\ Goto(BSP, "sched") /\ UNCHANGED <<ap, mpentry_kstack, ipi>>
    BY <1>11 DEF CreateEnvs, At, apVars
  <2>2. pc'[BSP] = "sched" /\ pc' \in [HwCPUs -> Lugares]
    BY <1>3, <1>6, <2>1 DEF Goto
  <2>3. \A d \in HwCPUs \ {BSP} : pc'[d] = pc[d]
    BY <1>3, <2>1 DEF Goto
  <2>4. \A c \in HwCPUs \ {BSP} : Secundario(c)'
    BY <1>1, <2>1, <2>3, SecundarioIgual DEF Puesta
  <2> QED
    BY <1>3, <1>7, <2>1, <2>2, <2>3, <2>4
<1> QED
  BY <1>8, <1>9, <1>10, <1>11 DEF BootAps

\* What a step of the boot processor outside boot_aps has to keep.
LEMMA BspPuesta ==
    ASSUME Puesta, pc[BSP] # "wait", pc' \in [HwCPUs -> Lugares],
           pc'[BSP] \notin {"wait", "mp_entry"},
           \A d \in HwCPUs \ {BSP} : pc'[d] = pc[d],
           UNCHANGED <<machine, lapicaddr, entry, bootcpu, ncpu, cpu_id, ap, mpentry_kstack, esp, ipi>>,
           \A i \in 1 .. NCPU - 1 : cpu_status'[i] = cpu_status[i],
           cpu_status' \in [0 .. NCPU - 1 -> {"UNUSED", "STARTED", "HALTED"}],
           tr' \in [HwCPUs -> 0 .. NCPU - 1 \cup {NULL}],
           gdt' \in [0 .. NCPU - 1 -> 0 .. NCPU - 1 \cup {NULL}],
           ts_esp0' \in [0 .. NCPU - 1 -> Nat \cup {NULL}],
           cr3' \in [HwCPUs -> {"entry_pgdir", "kern_pgdir", NULL}],
           lapic # NULL => lapic' # NULL,
           pc'[BSP] \in Sirviendo \/ ap = 0,
           pc'[BSP] \in Asignando \cup Ordenando \cup {"map", "lcr3", "trap_init", "mp_init"} =>
                ncpu = 0 /\ entry = 1,
           pc'[BSP] \in {"lapic_map", "lapic_set", "lock"} \cup Sirviendo /\ ncpu > 1 => lapicaddr,
           pc'[BSP] \in {"lock"} \cup Sirviendo /\ lapicaddr => lapic' # NULL,
           pc'[BSP] = "lapic_set" => mem'.mmio > MMIOBASE,
           \A d \in HwCPUs : Tss(d)'
    PROVE  Puesta'
<1>1. Procesadores'
  BY DEF Puesta, Procesadores
<1>2. \A d \in HwCPUs \ {BSP} : pc[d] # "lapic_set"
  BY NadieViene DEF Viniendo
<1>3. BootCpu'
  <2>1. cpu_id[0] = 0 /\ (\A i \in 0 .. ncpu - 1 : cpu_id[i] = i) /\ esp[BSP] = bootstack
    BY DEF Puesta, BootCpu
  <2>2. \A d \in HwCPUs : pc'[d] = "lapic_set" => mem'.mmio > MMIOBASE
    BY <1>2
  <2> QED
    BY <2>1, <2>2 DEF BootCpu
<1>4. ASSUME NEW c \in HwCPUs \ {BSP} PROVE Secundario(c)'
  <2>1. c < NCPU => c \in 1 .. NCPU - 1
    BY Numeros, BspEsCpu DEF HwCPUs
  <2> QED
    BY <2>1, SecundarioIgual DEF Puesta
<1> QED
  BY <1>1, <1>3, <1>4 DEF Puesta

\* And a step of another one.
LEMMA OtraPuesta ==
    ASSUME Puesta, NEW c \in HwCPUs \ {BSP}, pc' \in [HwCPUs -> Lugares],
           \A d \in HwCPUs \ {c} : pc'[d] = pc[d] /\ esp'[d] = esp[d] /\ ipi'[d] = ipi[d],
           UNCHANGED <<machine, lapicaddr, entry, bootcpu, ncpu, cpu_id, ap, mpentry_kstack>>,
           \A i \in 0 .. NCPU - 1 : i # c => cpu_status'[i] = cpu_status[i],
           cpu_status' \in [0 .. NCPU - 1 -> {"UNUSED", "STARTED", "HALTED"}],
           esp' \in [HwCPUs -> Nat \cup {NULL}], ipi' \in [HwCPUs -> Nat],
           tr' \in [HwCPUs -> 0 .. NCPU - 1 \cup {NULL}],
           gdt' \in [0 .. NCPU - 1 -> 0 .. NCPU - 1 \cup {NULL}],
           ts_esp0' \in [0 .. NCPU - 1 -> Nat \cup {NULL}],
           cr3' \in [HwCPUs -> {"entry_pgdir", "kern_pgdir", NULL}],
           lapic # NULL => lapic' # NULL,
           mem.mmio > MMIOBASE => mem'.mmio > MMIOBASE,
           pc'[c] = "lapic_set" => mem'.mmio > MMIOBASE,
           Secundario(c)', \A d \in HwCPUs : Tss(d)'
    PROVE  Puesta'
<1>1. Procesadores'
  BY DEF Puesta, Procesadores
<1>2. BSP \in HwCPUs \ {c} /\ pc'[BSP] = pc[BSP] /\ esp'[BSP] = esp[BSP]
  BY BspEsCpu
<1>3. BootCpu'
  <2>1. \A d \in HwCPUs : pc'[d] = "lapic_set" => mem'.mmio > MMIOBASE
    BY DEF Puesta, BootCpu
  <2> QED
    BY <1>2, <2>1 DEF Puesta, BootCpu
<1>4. ASSUME NEW d \in HwCPUs \ {BSP} PROVE Secundario(d)'
  <2>1. CASE d = c
    BY <2>1
  <2>2. CASE d # c
    <3>1. d < NCPU => d \in 0 .. NCPU - 1
      BY Numeros DEF HwCPUs
    <3> QED
      BY <1>2, <2>2, <3>1, SecundarioIgual DEF Puesta
  <2> QED
    BY <2>1, <2>2
<1> QED
  BY <1>1, <1>3, <1>4 DEF Puesta

\* mpentry.S and mp_main, up to the directory.
LEMMA SubePuesta ==
    ASSUME Construccion, Puesta, NEW c \in HwCPUs,
           EntryPgdir(c) \/ TakeStack(c) \/ LoadKernPgdir(c)
    PROVE  Puesta'
<1>1. UNCHANGED <<machine, lapicaddr, lapic, mem, entry, bootcpu, ncpu, cpu_id, cpu_status, ap,
                  mpentry_kstack, ipi, tr, gdt, ts_esp0>>
  BY DEF EntryPgdir, TakeStack, LoadKernPgdir, ApUnchanged, MemUnchanged, memory, mpVars, apVars,
         tssVars
<1>2. /\ pc \in [HwCPUs -> Lugares] /\ esp \in [HwCPUs -> Nat \cup {NULL}] /\ BSP \in HwCPUs
      /\ cr3 \in [HwCPUs -> {"entry_pgdir", "kern_pgdir", NULL}]
      /\ tr \in [HwCPUs -> 0 .. NCPU - 1 \cup {NULL}]
      /\ gdt \in [0 .. NCPU - 1 -> 0 .. NCPU - 1 \cup {NULL}]
      /\ ts_esp0 \in [0 .. NCPU - 1 -> Nat \cup {NULL}] /\ ipi \in [HwCPUs -> Nat]
      /\ cpu_status \in [0 .. NCPU - 1 -> {"UNUSED", "STARTED", "HALTED"}]
      /\ mpentry_kstack \in Nat \cup {NULL}
  BY BspEsCpu DEF Puesta, Procesadores
<1>3. /\ \/ pc[c] = "mpentry" /\ Goto(c, "mpentry_esp") /\ cr3' = [cr3 EXCEPT ![c] = "entry_pgdir"]
            /\ esp' = esp
         \/ pc[c] = "mpentry_esp" /\ Goto(c, "lcr3") /\ esp' = [esp EXCEPT ![c] = mpentry_kstack]
            /\ cr3' = cr3
         \/ pc[c] = "lcr3" /\ cr3' = [cr3 EXCEPT ![c] = "kern_pgdir"] /\ esp' = esp
            /\ Goto(c, IF c # BSP THEN "lapic_map"
                       ELSE IF FreeListPlausible(mem) THEN "trap_init" ELSE "panic")
  BY DEF EntryPgdir, TakeStack, LoadKernPgdir, At, MemUnchanged
<1>4. /\ "mpentry_esp" \in Lugares /\ "lcr3" \in Lugares /\ "lapic_map" \in Lugares
      /\ "trap_init" \in Lugares /\ "panic" \in Lugares
  BY DEF Lugares, Viniendo
<1>5. /\ esp' \in [HwCPUs -> Nat \cup {NULL}] /\ cr3' \in [HwCPUs -> {"entry_pgdir", "kern_pgdir", NULL}]
      /\ \A d \in HwCPUs \ {c} : esp'[d] = esp[d] /\ cr3'[d] = cr3[d]
  BY <1>2, <1>3
<1>6. CASE c = BSP
  <2>1. /\ pc[BSP] = "lcr3" /\ cr3' = [cr3 EXCEPT ![BSP] = "kern_pgdir"] /\ esp' = esp
        /\ Goto(BSP, IF FreeListPlausible(mem) THEN "trap_init" ELSE "panic")
    BY <1>3, <1>6 DEF Construccion, Fases, Asignando, Ordenando, Arrancando, Sirviendo
  <2>2. PICK q \in {"trap_init", "panic"} : Goto(BSP, q)
    BY <2>1
  <2>3. /\ pc' \in [HwCPUs -> Lugares] /\ pc'[BSP] \in {"trap_init", "panic"}
        /\ \A d \in HwCPUs \ {BSP} : pc'[d] = pc[d]
    BY <1>2, <1>4, <2>2 DEF Goto
  <2>4. ncpu = 0 /\ entry = 1 /\ ap = 0
    BY <2>1 DEF Puesta, BootCpu, Sirviendo
  <2>5. cr3'[BSP] = "kern_pgdir"
    BY <1>2, <2>1
  <2>6. \A d \in HwCPUs : Tss(d)'
    BY <1>1, <2>5, TssIgual DEF Puesta
  <2>7. pc'[BSP] \notin {"lapic_map", "lapic_set", "lock"} \cup Sirviendo
    BY <2>3 DEF Sirviendo
  <2> QED
    BY <1>1, <1>2, <1>5, <2>1, <2>3, <2>4, <2>6, <2>7, BspPuesta
<1>7. CASE c # BSP
  <2>1. c \in HwCPUs \ {BSP} /\ pc[c] \in Viniendo
    BY <1>3, <1>7 DEF Viniendo
  <2>2. /\ pc[BSP] = "wait" /\ ap = c /\ c \in 1 .. NCPU - 1
        /\ mpentry_kstack = percpu_kstacks(c) /\ cpu_status[c] = "UNUSED"
    BY <2>1, Viene
  <2>3. PICK q \in {"mpentry_esp", "lcr3", "lapic_map"} : Goto(c, q)
    BY <1>3, <1>7
  <2>4. /\ pc' \in [HwCPUs -> Lugares] /\ pc'[c] \in {"mpentry_esp", "lcr3", "lapic_map"}
        /\ \A d \in HwCPUs \ {c} : pc'[d] = pc[d]
    BY <1>2, <1>4, <2>3 DEF Goto
  <2>5. cr3'[BSP] = cr3[BSP] /\ pc'[BSP] = "wait"
    BY <1>2, <1>5, <1>7, <2>2, <2>4
  <2>6. \A d \in HwCPUs : Tss(d)'
    BY <1>1, <2>5, TssIgual DEF Puesta
  <2>7. esp'[c] = esp[c] \/ esp'[c] = percpu_kstacks(c)
    BY <1>2, <1>3, <2>2
  <2>8. esp'[c] # NULL => esp'[c] = percpu_kstacks(c) /\ c < NCPU
    <3>1. esp[c] # NULL => esp[c] = percpu_kstacks(c)
      BY <2>1 DEF Puesta, Secundario
    <3>2. c < NCPU
      BY <2>2, Numeros
    <3> QED
      BY <2>7, <3>1, <3>2
  <2>9. /\ pc'[c] \in Viniendo /\ pc'[c] \notin {"trap_init", "started"} \cup Lejos
    BY <2>4 DEF Viniendo, Lejos
  <2>10. Secundario(c)'
    BY <1>1, <2>2, <2>5, <2>8, <2>9 DEF Secundario
  <2> QED
    BY <1>1, <1>2, <1>5, <2>1, <2>4, <2>6, <2>9, <2>10, OtraPuesta DEF Viniendo
<1> QED
  BY <1>6, <1>7

LEMMA Tipos ==
    ASSUME Puesta
    PROVE  /\ pc \in [HwCPUs -> Lugares] /\ esp \in [HwCPUs -> Nat \cup {NULL}]
           /\ BSP \in HwCPUs /\ BSP = 0 /\ NCPU \in Nat \ {0}
           /\ cr3 \in [HwCPUs -> {"entry_pgdir", "kern_pgdir", NULL}]
           /\ tr \in [HwCPUs -> 0 .. NCPU - 1 \cup {NULL}]
           /\ gdt \in [0 .. NCPU - 1 -> 0 .. NCPU - 1 \cup {NULL}]
           /\ ts_esp0 \in [0 .. NCPU - 1 -> Nat \cup {NULL}] /\ ipi \in [HwCPUs -> Nat]
           /\ cpu_status \in [0 .. NCPU - 1 -> {"UNUSED", "STARTED", "HALTED"}]
BY BspEsCpu, Numeros DEF Puesta, Procesadores

\* Each processor's TSS goes to the slot of its own number.
LEMMA TrapInitPercpuPuesta ==
    ASSUME Construccion, Puesta, NEW c \in HwCPUs, TrapInitPercpu(c)
    PROVE  Puesta'
<1>1. UNCHANGED <<machine, lapicaddr, lapic, mem, entry, bootcpu, ncpu, cpu_id, cpu_status, ap,
                  mpentry_kstack, ipi, cr3, esp>>
  BY DEF TrapInitPercpu, memory, mpVars, apVars
<1>2. /\ pc[c] = "trap_init" /\ Goto(c, IF c = BSP THEN "mp_init" ELSE "started")
      /\ ts_esp0' = [ts_esp0 EXCEPT ![cpunum(c)] = StackTop(cpu_id[cpunum(c)])]
      /\ gdt' = [gdt EXCEPT ![cpu_id[cpunum(c)]] = cpunum(c)]
      /\ tr' = [tr EXCEPT ![c] = cpu_id[cpunum(c)]]
  BY DEF TrapInitPercpu, At
<1>3. c = BSP => ncpu = 0 /\ entry = 1 /\ ap = 0
  BY <1>2 DEF Puesta, BootCpu, Sirviendo
<1>4. c # BSP => /\ pc[BSP] = "wait" /\ ap = c /\ c \in 1 .. NCPU - 1 /\ cpu_id[c] = c
                 /\ cpu_status[c] = "UNUSED"
  BY <1>2, Viene DEF Viniendo
<1>5. c # BSP => lapic # NULL
  BY <1>2 DEF Puesta, Secundario
<1>6. cpunum(c) = c /\ cpu_id[c] = c /\ c \in 0 .. NCPU - 1
  <2>1. cpu_id[0] = 0
    BY DEF Puesta, BootCpu
  <2> QED
    BY <1>4, <1>5, <2>1, Tipos DEF cpunum
<1>7. StackTop(c) \in Nat
  BY <1>6, Pilas
<1>8. /\ ts_esp0' = [ts_esp0 EXCEPT ![c] = StackTop(c)] /\ gdt' = [gdt EXCEPT ![c] = c]
      /\ tr' = [tr EXCEPT ![c] = c]
  BY <1>2, <1>6
<1> DEFINE t == StackTop(c)
<1>9. t \in Nat /\ ts_esp0' = [ts_esp0 EXCEPT ![c] = t]
  BY <1>7, <1>8
<1> HIDE DEF t
<1>10. /\ tr' \in [HwCPUs -> 0 .. NCPU - 1 \cup {NULL}]
       /\ gdt' \in [0 .. NCPU - 1 -> 0 .. NCPU - 1 \cup {NULL}]
       /\ ts_esp0' \in [0 .. NCPU - 1 -> Nat \cup {NULL}]
       /\ tr'[c] = c /\ gdt'[c] = c /\ ts_esp0'[c] = t
       /\ \A d \in HwCPUs \ {c} : tr'[d] = tr[d]
       /\ \A i \in 0 .. NCPU - 1 : i # c => gdt'[i] = gdt[i] /\ ts_esp0'[i] = ts_esp0[i]
  BY <1>6, <1>8, <1>9, Tipos
<1>11. cr3[BSP] = "kern_pgdir"
  <2>1. pc[BSP] \in Arrancando \cup Sirviendo
    BY <1>2, <1>4 DEF Arrancando, Sirviendo
  <2> QED
    BY <2>1 DEF Construccion, Fases
<1>12. ASSUME NEW d \in HwCPUs PROVE Tss(d)'
  <2>1. CASE d = c
    BY <1>1, <1>10, <1>11, <2>1 DEF Tss, t
  <2>2. CASE d # c
    <3>1. Tss(d) /\ tr[d] \in 0 .. NCPU - 1 \cup {NULL}
      BY Tipos DEF Puesta
    <3>2. tr'[d] # NULL => tr[d] = d /\ d \in 0 .. NCPU - 1 /\ gdt[d] = d /\ ts_esp0[d] = StackTop(d)
      BY <1>10, <2>2, <3>1 DEF Tss
    <3> QED
      BY <1>1, <1>10, <1>11, <2>2, <3>2 DEF Tss
  <2> QED
    BY <2>1, <2>2
<1>13. "mp_init" \in Lugares /\ "started" \in Lugares
  BY DEF Lugares, Arrancando, Viniendo
<1>14. CASE c = BSP
  <2>1. /\ pc' \in [HwCPUs -> Lugares] /\ pc'[BSP] = "mp_init"
        /\ \A d \in HwCPUs \ {BSP} : pc'[d] = pc[d]
    BY <1>2, <1>13, <1>14, Tipos DEF Goto
  <2>2. pc[BSP] # "wait" /\ pc'[BSP] \notin {"lapic_map", "lapic_set", "lock"} \cup Sirviendo
    BY <1>2, <1>14, <2>1 DEF Sirviendo
  <2> QED
    BY <1>1, <1>3, <1>10, <1>12, <1>14, <2>1, <2>2, BspPuesta, Tipos
<1>15. CASE c # BSP
  <2>1. /\ pc' \in [HwCPUs -> Lugares] /\ pc'[c] = "started" /\ c \in HwCPUs \ {BSP}
        /\ \A d \in HwCPUs \ {c} : pc'[d] = pc[d]
    BY <1>2, <1>13, <1>15, Tipos DEF Goto
  <2>2. pc'[BSP] = "wait"
    BY <1>4, <1>15, <2>1, Tipos
  <2>3. Secundario(c)'
    <3>1. esp[c] # NULL => esp[c] = percpu_kstacks(c) /\ c < NCPU
      BY <2>1 DEF Puesta, Secundario
    <3> QED
      BY <1>1, <1>4, <1>5, <1>15, <2>1, <2>2, <3>1 DEF Secundario, Viniendo
  <2> QED
    BY <1>1, <1>10, <1>12, <2>1, <2>3, OtraPuesta, Tipos
<1> QED
  BY <1>14, <1>15

\* lapic_init.
LEMMA MapLapicPuesta ==
    ASSUME Construccion, Puesta, NEW c \in HwCPUs, MapLapic(c)
    PROVE  Puesta'
<1>1. UNCHANGED <<machine, lapicaddr, lapic, entry, bootcpu, ncpu, cpu_id, cpu_status, ap,
                  mpentry_kstack, ipi, cr3, esp, tr, gdt, ts_esp0>>
  BY DEF MapLapic, mpVars, apVars, tssVars
<1>2. /\ pc[c] = "lapic_map"
      /\ \/ ~lapicaddr /\ Goto(c, "lock") /\ mem' = mem
         \/ lapicaddr /\ Goto(c, "panic") /\ mem' = mem
         \/ lapicaddr /\ Goto(c, "lapic_set") /\ mem'.mmio = mem.mmio + 1
  BY MapLapicConstruccion DEF MapLapic
<1>3. mem.mmio \in Nat /\ MMIOBASE \in Nat /\ mem.mmio >= MMIOBASE
  BY Direcciones DEF Construccion, Memoria
<1>4. \A d \in HwCPUs : Tss(d)'
  BY <1>1, TssIgual DEF Puesta
<1>5. PICK q \in {"lock", "panic", "lapic_set"} :
        /\ Goto(c, q) /\ (q = "lock" <=> ~lapicaddr)
        /\ IF q = "lapic_set" THEN mem'.mmio = mem.mmio + 1 ELSE mem' = mem
  BY <1>2
<1>6. q \in Lugares
  BY DEF Lugares, Lejos, Viniendo
<1>7. /\ pc' \in [HwCPUs -> Lugares] /\ pc'[c] = q
      /\ \A d \in HwCPUs \ {c} : pc'[d] = pc[d]
  BY <1>5, <1>6, Tipos DEF Goto
<1>8. /\ q = "lapic_set" => mem'.mmio > MMIOBASE
      /\ mem.mmio > MMIOBASE => mem'.mmio > MMIOBASE
  BY <1>3, <1>5
<1>9. CASE c = BSP
  <2>1. pc[BSP] # "wait" /\ ap = 0 /\ (ncpu > 1 => lapicaddr)
    BY <1>2, <1>9 DEF Puesta, BootCpu, Sirviendo
  <2>2. /\ pc'[BSP] \notin {"wait", "mp_entry"} \cup Sirviendo
        /\ pc'[BSP] \notin Asignando \cup Ordenando \cup {"map", "lcr3", "trap_init", "mp_init"}
    BY <1>7, <1>9 DEF Sirviendo, Asignando, Ordenando
  <2>3. /\ pc' \in [HwCPUs -> Lugares] /\ \A d \in HwCPUs \ {BSP} : pc'[d] = pc[d]
    BY <1>7, <1>9
  <2>4. /\ pc'[BSP] = "lapic_set" => mem'.mmio > MMIOBASE
        /\ pc'[BSP] \in {"lock"} \cup Sirviendo /\ lapicaddr => lapic' # NULL
    BY <1>5, <1>7, <1>8, <1>9, <2>2
  <2> QED
    BY <1>1, <1>4, <2>1, <2>2, <2>3, <2>4, BspPuesta, Tipos
<1>10. CASE c # BSP
  <2>1. c \in HwCPUs \ {BSP}
    BY <1>10
  <2>2. pc[BSP] = "wait" /\ ap = c /\ cpu_status[c] = "UNUSED" /\ lapicaddr
    BY <1>2, <2>1, Viene DEF Viniendo
  <2>3. pc'[BSP] = "wait"
    BY <1>7, <2>1, <2>2, Tipos
  <2>4. pc'[c] \in {"panic", "lapic_set"}
    BY <1>5, <1>7, <2>2
  <2>5. Secundario(c)'
    <3>1. esp[c] # NULL => esp[c] = percpu_kstacks(c) /\ c < NCPU
      BY <2>1 DEF Puesta, Secundario
    <3> QED
      BY <1>1, <2>2, <2>3, <2>4, <3>1 DEF Secundario, Viniendo, Lejos
  <2> QED
    BY <1>1, <1>4, <1>7, <1>8, <2>1, <2>5, OtraPuesta, Tipos
<1> QED
  BY <1>9, <1>10

LEMMA SetLapicPuesta ==
    ASSUME Construccion, Puesta, NEW c \in HwCPUs, SetLapic(c)
    PROVE  Puesta'
<1>1. UNCHANGED <<machine, lapicaddr, mem, entry, bootcpu, ncpu, cpu_id, cpu_status, ap,
                  mpentry_kstack, ipi, cr3, esp, tr, gdt, ts_esp0>>
  BY DEF SetLapic, memory, mpVars, apVars, tssVars
<1>2. /\ pc[c] = "lapic_set" /\ Goto(c, IF c = BSP THEN "lock" ELSE "trap_init")
      /\ lapic' = mem.mmio - 1
  BY DEF SetLapic, At
<1>3. mem.mmio > MMIOBASE
  BY <1>2 DEF Puesta, BootCpu
<1>4. mem.mmio - 1 \in Nat
  BY <1>3, Direcciones DEF Construccion, Memoria
<1>5. lapic' # NULL
  BY <1>2, <1>4, NuloAparte
<1>6. \A d \in HwCPUs : Tss(d)'
  BY <1>1, TssIgual DEF Puesta
<1>7. "lock" \in Lugares /\ "trap_init" \in Lugares
  BY DEF Lugares, Lejos, Viniendo
<1>8. CASE c = BSP
  <2>1. pc[BSP] # "wait" /\ ap = 0 /\ (ncpu > 1 => lapicaddr)
    BY <1>2, <1>8 DEF Puesta, BootCpu, Sirviendo
  <2>2. /\ pc' \in [HwCPUs -> Lugares] /\ pc'[BSP] = "lock"
        /\ \A d \in HwCPUs \ {BSP} : pc'[d] = pc[d]
    BY <1>2, <1>7, <1>8, Tipos DEF Goto
  <2>3. pc'[BSP] \notin Asignando \cup Ordenando \cup {"map", "lcr3", "trap_init", "mp_init"}
    BY <2>2 DEF Asignando, Ordenando
  <2> QED
    BY <1>1, <1>5, <1>6, <2>1, <2>2, <2>3, BspPuesta, Tipos
<1>9. CASE c # BSP
  <2>1. c \in HwCPUs \ {BSP}
    BY <1>9
  <2>2. pc[BSP] = "wait" /\ ap = c /\ cpu_status[c] = "UNUSED"
    BY <1>2, <2>1, Viene DEF Viniendo
  <2>3. /\ pc' \in [HwCPUs -> Lugares] /\ pc'[c] = "trap_init"
        /\ \A d \in HwCPUs \ {c} : pc'[d] = pc[d]
    BY <1>2, <1>7, <1>9, Tipos DEF Goto
  <2>4. pc'[BSP] = "wait"
    BY <2>1, <2>2, <2>3, Tipos
  <2>5. Secundario(c)'
    <3>1. esp[c] # NULL => esp[c] = percpu_kstacks(c) /\ c < NCPU
      BY <2>1 DEF Puesta, Secundario
    <3> QED
      BY <1>1, <1>5, <2>2, <2>3, <2>4, <3>1 DEF Secundario, Viniendo
  <2> QED
    BY <1>1, <1>3, <1>5, <1>6, <2>1, <2>3, <2>5, OtraPuesta, Tipos
<1> QED
  BY <1>8, <1>9

\* The lock, and what comes behind it.
LEMMA SchedPuesta ==
    ASSUME Construccion, Puesta, NEW c \in HwCPUs, LockKernel(c) \/ RunEnv(c) \/ Halt(c)
    PROVE  Puesta'
<1>1. UNCHANGED <<machine, lapicaddr, lapic, mem, entry, bootcpu, ncpu, cpu_id, ap,
                  mpentry_kstack, ipi, cr3, esp, tr, gdt, ts_esp0>>
  BY DEF LockKernel, RunEnv, Halt, memory, mpVars, apVars, tssVars
<1>2. /\ pc[c] \in {"lock", "sched"}
      /\ \/ Goto(c, IF c = BSP THEN "boot_aps" ELSE "sched")
         \/ Goto(c, "up") \/ Goto(c, "monitor")
      /\ cpu_status' = cpu_status \/ cpu_status' = [cpu_status EXCEPT ![cpunum(c)] = "HALTED"]
  BY DEF LockKernel, RunEnv, Halt, At
<1>3. PICK q \in {"boot_aps", "sched", "up", "monitor"} : Goto(c, q) /\ (q = "boot_aps" => c = BSP)
  BY <1>2
<1>4. q \in Lugares /\ (q # "boot_aps" => q \in Lejos) /\ q \in Sirviendo
  BY DEF Lugares, Lejos, Sirviendo
<1>5. /\ pc' \in [HwCPUs -> Lugares] /\ pc'[c] = q
      /\ \A d \in HwCPUs \ {c} : pc'[d] = pc[d]
  BY <1>3, <1>4, Tipos DEF Goto
<1>6. \A d \in HwCPUs : Tss(d)'
  BY <1>1, TssIgual DEF Puesta
<1>7. c # BSP => lapic # NULL
  BY <1>2 DEF Puesta, Secundario, Lejos
<1>8. cpunum(c) = c
  BY <1>7, Tipos DEF cpunum
<1>9. /\ cpu_status' \in [0 .. NCPU - 1 -> {"UNUSED", "STARTED", "HALTED"}]
      /\ \A i \in 0 .. NCPU - 1 : i # c => cpu_status'[i] = cpu_status[i]
  BY <1>2, <1>8, Tipos
<1>10. CASE c = BSP
  <2>1. pc[BSP] # "wait" /\ (ncpu > 1 => lapicaddr) /\ (lapicaddr => lapic # NULL)
    BY <1>2, <1>10 DEF Puesta, BootCpu, Sirviendo
  <2>2. /\ pc'[BSP] \in Sirviendo /\ pc'[BSP] \notin {"wait", "mp_entry", "lapic_set"}
        /\ pc'[BSP] \notin Asignando \cup Ordenando \cup {"map", "lcr3", "trap_init", "mp_init"}
    BY <1>3, <1>4, <1>5, <1>10 DEF Asignando, Ordenando
  <2>3. \A i \in 1 .. NCPU - 1 : cpu_status'[i] = cpu_status[i]
    BY <1>9, <1>10, Tipos
  <2>4. \A d \in HwCPUs \ {BSP} : pc'[d] = pc[d]
    BY <1>5, <1>10
  <2> QED
    BY <1>1, <1>5, <1>6, <1>9, <2>1, <2>2, <2>3, <2>4, BspPuesta, Tipos
<1>11. CASE c # BSP
  <2>1. c \in HwCPUs \ {BSP} /\ pc'[c] \in Lejos
    BY <1>3, <1>4, <1>5, <1>11
  <2>2. pc'[c] \notin Viniendo \cup {"parked", "lapic_set"}
    BY <2>1 DEF Viniendo, Lejos
  <2>3. Secundario(c)'
    <3>1. esp[c] # NULL => esp[c] = percpu_kstacks(c) /\ c < NCPU
      BY <2>1 DEF Puesta, Secundario
    <3> QED
      BY <1>1, <1>7, <1>11, <2>1, <2>2, <3>1 DEF Secundario
  <2> QED
    BY <1>1, <1>5, <1>6, <1>9, <2>1, <2>2, <2>3, OtraPuesta, Tipos
<1> QED
  BY <1>10, <1>11

LEMMA StartedPuesta ==
    ASSUME Construccion, Puesta, NEW c \in HwCPUs, Started(c)
    PROVE  Puesta'
<1>1. UNCHANGED <<machine, lapicaddr, lapic, mem, entry, bootcpu, ncpu, cpu_id, ap,
                  mpentry_kstack, ipi, cr3, esp, tr, gdt, ts_esp0>>
  BY DEF Started, ApUnchanged, memory, mpVars, apVars, tssVars
<1>2. /\ pc[c] = "started" /\ Goto(c, "lock")
      /\ cpu_status' = [cpu_status EXCEPT ![cpunum(c)] = "STARTED"]
  BY DEF Started, At
<1>3. c \in HwCPUs \ {BSP}
  BY <1>2 DEF Construccion, Fases, Asignando, Ordenando, Arrancando, Sirviendo
<1>4. lapic # NULL /\ Secundario(c)
  BY <1>2, <1>3 DEF Puesta, Secundario
<1>5. cpu_status' = [cpu_status EXCEPT ![c] = "STARTED"]
  BY <1>2, <1>4 DEF cpunum
<1>6. /\ cpu_status' \in [0 .. NCPU - 1 -> {"UNUSED", "STARTED", "HALTED"}]
      /\ \A i \in 0 .. NCPU - 1 : i # c => cpu_status'[i] = cpu_status[i]
  BY <1>5, Tipos
<1>7. "lock" \in Lugares /\ "lock" \in Lejos /\ "lock" \notin Viniendo
  BY DEF Lugares, Lejos, Viniendo
<1>8. /\ pc' \in [HwCPUs -> Lugares] /\ pc'[c] = "lock"
      /\ \A d \in HwCPUs \ {c} : pc'[d] = pc[d]
  BY <1>2, <1>7, Tipos DEF Goto
<1>9. \A d \in HwCPUs : Tss(d)'
  BY <1>1, TssIgual DEF Puesta
<1>10. Secundario(c)'
  BY <1>1, <1>4, <1>7, <1>8 DEF Secundario
<1> QED
  BY <1>1, <1>3, <1>6, <1>8, <1>9, <1>10, OtraPuesta, Tipos

\* Only a parked processor takes notice of the interrupt.
LEMMA StartupPuesta ==
    ASSUME Construccion, Puesta, NEW c \in HwCPUs, Startup(c)
    PROVE  Puesta'
<1>1. UNCHANGED <<machine, lapicaddr, lapic, mem, entry, bootcpu, ncpu, cpu_id, cpu_status, ap,
                  mpentry_kstack, cr3, esp, tr, gdt, ts_esp0>>
  BY DEF Startup, ApUnchanged, memory, mpVars, tssVars
<1>2. /\ ipi[c] > 0 /\ ipi' = [ipi EXCEPT ![c] = @ - 1]
      /\ IF pc[c] = "parked" THEN Goto(c, "mpentry") ELSE UNCHANGED pc
  BY DEF Startup
<1>3. ipi[c] \in Nat /\ ipi[c] - 1 \in Nat /\ ipi' = [ipi EXCEPT ![c] = ipi[c] - 1]
  BY <1>2, Tipos
<1>4. ipi' \in [HwCPUs -> Nat] /\ \A d \in HwCPUs \ {c} : ipi'[d] = ipi[d]
  BY <1>3, Tipos
<1>5. \A d \in HwCPUs : Tss(d)'
  BY <1>1, TssIgual DEF Puesta
<1>6. CASE pc[c] = "parked"
  <2>1. c \in HwCPUs \ {BSP}
    BY <1>6 DEF Construccion, Fases, Asignando, Ordenando, Arrancando, Sirviendo
  <2>2. pc[BSP] = "wait" /\ ap = c /\ Secundario(c)
    BY <1>2, <1>6, <2>1 DEF Puesta, Secundario
  <2>3. "mpentry" \in Lugares /\ "mpentry" \in Viniendo /\ "parked" \notin Lejos
    BY DEF Lugares, Viniendo, Lejos
  <2>4. /\ pc' \in [HwCPUs -> Lugares] /\ pc'[c] = "mpentry"
        /\ \A d \in HwCPUs \ {c} : pc'[d] = pc[d]
    BY <1>2, <1>6, <2>3, Tipos DEF Goto
  <2>5. pc'[BSP] = "wait"
    BY <2>1, <2>2, <2>4, Tipos
  <2>6. "mpentry" \notin {"trap_init", "started"} \cup Lejos
    BY DEF Lejos
  <2>7. Secundario(c)'
    BY <1>1, <1>6, <2>2, <2>3, <2>4, <2>5, <2>6 DEF Secundario
  <2> QED
    BY <1>1, <1>4, <1>5, <2>1, <2>4, <2>7, OtraPuesta, Tipos
<1>7. CASE pc[c] # "parked"
  <2>1. pc' = pc
    BY <1>2, <1>7
  <2>2. Procesadores'
    BY <1>1, <1>4, <2>1 DEF Puesta, Procesadores
  <2>3. BootCpu'
    BY <1>1, <2>1 DEF Puesta, BootCpu
  <2>4. ASSUME NEW d \in HwCPUs \ {BSP} PROVE Secundario(d)'
    <3>1. Secundario(d)
      BY DEF Puesta
    <3>2. pc[d] = "parked" => ipi'[d] = ipi[d]
      BY <1>4, <1>7
    <3> QED
      BY <1>1, <2>1, <3>1, <3>2 DEF Secundario
  <2> QED
    BY <1>5, <2>2, <2>3, <2>4 DEF Puesta
<1> QED
  BY <1>6, <1>7

-----------------------------------------------------------------------------
LEMMA InitIInv == Init => IInv
BY InitConstruccion, InitPuesta DEF IInv

LEMMA NextIInv == IInv /\ [Next]_vars => IInv'
<1> SUFFICES ASSUME Construccion, Puesta, [Next]_vars PROVE Construccion' /\ Puesta'
  BY DEF IInv
<1>1. CASE MemInit
  <2>1. pc \in [HwCPUs -> Lugares]
    BY Tipos
  <2>2. Construccion'
    BY <1>1, <2>1, DetectMemoryConstruccion, AllocConstruccion, LinkFreePagesConstruccion,
       SortFreePagesConstruccion, CheckFreeListConstruccion, MapRegionConstruccion,
       CheckKernPgdirConstruccion, Zenon DEF MemInit
  <2> QED
    BY <1>1, <2>2, MemInitPuesta
<1>2. CASE MpInit
  BY <1>2, MpConstruccion, MpPuesta
<1>3. CASE BootAps
  BY <1>3, MpConstruccion, BootApsPuesta
<1>4. ASSUME NEW c \in HwCPUs, Cpu(c) \/ Startup(c) PROVE Construccion' /\ Puesta'
  <2>1. Construccion'
    BY <1>4, CpuConstruccion
  <2>2. Puesta'
    BY <1>4, SubePuesta, TrapInitPercpuPuesta, MapLapicPuesta, SetLapicPuesta, SchedPuesta,
       StartedPuesta, StartupPuesta, Zenon DEF Cpu
  <2> QED
    BY <2>1, <2>2
<1>5. CASE UNCHANGED vars
  <2>1. UNCHANGED <<machine, npages, mem, regions, lapicaddr, lapic, entry, bootcpu, ncpu, cpu_id,
                    cpu_status, ap, mpentry_kstack, pc, cr3, esp, tr, gdt, ts_esp0, ipi>>
    BY <1>5 DEF vars
  <2>2. Construccion'
    BY <2>1, QuietaConstruccion
  <2>3. Procesadores' /\ BootCpu'
    BY <2>1 DEF Puesta, Procesadores, BootCpu
  <2>4. \A c \in HwCPUs \ {BSP} : Secundario(c)'
    BY <2>1, SecundarioIgual DEF Puesta
  <2>5. \A c \in HwCPUs : Tss(c)'
    BY <2>1, TssIgual DEF Puesta
  <2> QED
    BY <2>2, <2>3, <2>4, <2>5 DEF Puesta
<1> QED
  BY <1>1, <1>2, <1>3, <1>4, <1>5 DEF Next

\* From power-on to the first environments, for any machines, any number of
\* processors and any layout that BootConstants and BootAssumption admit.
THEOREM InvariantTheorem == Spec => []IInv
<1>1. Init => IInv
  BY InitIInv
<1>2. IInv /\ [Next]_vars => IInv'
  BY NextIInv
<1> QED
  BY <1>1, <1>2, PTL DEF Spec

\* page_init (pmap.c:291) and what follows it: no page that something uses is
\* ever in the free list, and none is in it twice.
THEOREM FreeListCleanTheorem == Spec => []FreeListClean
<1>1. IInv => FreeListClean
  <2> SUFFICES ASSUME IInv PROVE FreeListClean
    OBVIOUS
  <2>1. /\ mem.page_free_list \in Seq(Nat) /\ Distintas(mem.page_free_list)
        /\ Limpias(mem, npages, mem.page_free_list)
    BY Campos DEF IInv, Construccion, Memoria, Listas
  <2>2. Cardinality(FreePages) = Len(mem.page_free_list)
    BY <2>1, CuantasPaginas DEF FreePages
  <2>3. \A p \in FreePages : Limpia(mem, npages, p)
    BY <2>1 DEF FreePages, Limpias
  <2> QED
    BY <2>2, <2>3 DEF FreeListClean, Limpia
<1> QED
  BY <1>1, InvariantTheorem, PTL

LEMMA YaCompleta ==
    ASSUME Construccion, (pc[BSP] = "map" /\ regions = <<>>) \/ cr3[BSP] = "kern_pgdir"
    PROVE  Completa(mem) /\ mem.kern_pgdir \in Nat /\ Directorio(mem)
<1>1. Asignada(mem) /\ mem.kern_pgdir \in Nat
  BY AsignadaYa
<1>2. regions = <<>> /\ Mapa(BootRegions(mem), mem, regions)
  BY DEF Construccion, Fases
<1>3. mem.mmio \in MMIOBASE .. MMIOLIM - 1 /\ Directorio(mem)
  BY DEF Construccion, Memoria
<1> QED
  BY <1>1, <1>2, <1>3 DEF Completa

LEMMA Traduce == \A va : Va2pa(va) = Ve(mem, va)
BY DEF Va2pa, Ve

\* mem_init and memlayout.h (memlayout.h:21-83): the assertions of
\* check_kern_pgdir hold when they are evaluated and ever after, and every
\* mapping above UTOP has the permissions of its region.
THEOREM LayoutHoldsTheorem == Spec => []LayoutHolds
<1>1. IInv => LayoutHolds
  <2> SUFFICES ASSUME IInv, (pc[BSP] = "map" /\ regions = <<>>) \/ cr3[BSP] = "kern_pgdir"
               PROVE  /\ KernPgdirPlausible
                      /\ mem.pgdir[UVPT \div PT].page = mem.kern_pgdir
                      /\ \A va \in 0 .. KERNBASE + KERN_PAGES - 1 :
                          va \notin UVPT .. MMIOBASE - 1 /\ Va2pa(va) # NULL =>
                              /\ Va2pa(va).u <=> (va < UVPT)
                              /\ Va2pa(va).w <=> (va >= MMIOBASE)
                      /\ lapic # NULL => Va2pa(lapic) # NULL /\ Va2pa(lapic).page = LAPIC_PAGE
    BY DEF LayoutHolds
  <2>1. Completa(mem) /\ mem.kern_pgdir \in Nat /\ Directorio(mem)
    BY YaCompleta DEF IInv
  <2>2. KernPgdirPlausible /\ mem.pgdir[UVPT \div PT].page = mem.kern_pgdir
    BY <2>1, CompletaPlausible
  <2>3. ASSUME NEW va \in 0 .. KERNBASE + KERN_PAGES - 1, va \notin UVPT .. MMIOBASE - 1,
               Va2pa(va) # NULL
        PROVE  (Va2pa(va).u <=> (va < UVPT)) /\ (Va2pa(va).w <=> (va >= MMIOBASE))
    <3>1. va \in Vas
      BY <2>3, Direcciones DEF Vas
    <3> QED
      BY <2>1, <2>3, <3>1, Permisos, Traduce
  <2>4. ASSUME lapic # NULL PROVE Va2pa(lapic) # NULL /\ Va2pa(lapic).page = LAPIC_PAGE
    <3>1. lapic \in MMIOBASE .. mem.mmio - 1
      BY <2>4 DEF IInv, Construccion, Memoria
    <3>2. Ve(mem, lapic) = [page |-> LAPIC_PAGE, w |-> TRUE, u |-> FALSE]
      BY <2>1, <3>1 DEF Completa, Mapa
    <3> QED
      BY <3>2, DelNucleo, Numeros, Traduce
  <2> QED
    BY <2>2, <2>3, <2>4
<1> QED
  BY <1>1, InvariantTheorem, PTL

LEMMA DeQuienEsLaPila ==
    ASSUME IInv, NEW c \in HwCPUs, NEW p \in StackPages(c)
    PROVE  \/ c = BSP /\ p \in bootstack .. bootstack + KSTKSIZE - 1
           \/ c \in 0 .. NCPU - 1 /\ p \in percpu_kstacks(c) .. percpu_kstacks(c) + KSTKSIZE - 1
<1>1. CASE esp[c] # NULL /\ p \in esp[c] .. esp[c] + KSTKSIZE - 1
  <2>1. CASE c = BSP
    BY <1>1, <2>1 DEF IInv, Puesta, BootCpu
  <2>2. CASE c # BSP
    <3>1. esp[c] = percpu_kstacks(c) /\ c < NCPU
      BY <1>1, <2>2 DEF IInv, Puesta, Secundario
    <3>2. c \in 0 .. NCPU - 1
      BY <3>1, Numeros DEF HwCPUs
    <3> QED
      BY <1>1, <3>1, <3>2
  <2> QED
    BY <2>1, <2>2
<1>2. CASE /\ tr[c] # NULL
           /\ p \in {Va2pa(va).page :
                va \in ts_esp0[gdt[tr[c]]] - KSTKSIZE .. ts_esp0[gdt[tr[c]]] - 1}
  <2>1. /\ tr[c] = c /\ gdt[c] = c /\ ts_esp0[c] = StackTop(c) /\ cr3[BSP] = "kern_pgdir"
    BY <1>2 DEF IInv, Puesta, Tss
  <2>2. tr[c] \in 0 .. NCPU - 1
    BY <1>2, Tipos DEF IInv
  <2>3. c \in 0 .. NCPU - 1
    BY <2>1, <2>2
  <2>4. PICK va \in StackTop(c) - KSTKSIZE .. StackTop(c) - 1 : p = Va2pa(va).page
    BY <1>2, <2>1
  <2>5. Completa(mem)
    BY <2>1, YaCompleta DEF IInv
  <2>6. StackTop(c) \in Nat /\ percpu_kstacks(c) \in Nat /\ KSTKSIZE \in Nat
    BY <2>3, Pilas, Numeros
  <2> HIDE DEF StackTop, percpu_kstacks
  <2> DEFINE i == va - (StackTop(c) - KSTKSIZE)
  <2>7. i \in 0 .. KSTKSIZE - 1 /\ va = StackTop(c) - KSTKSIZE + i
    BY <2>6
  <2>8. Ve(mem, va).page = percpu_kstacks(c) + i
    <3> HIDE DEF i
    <3> QED
      BY <2>3, <2>5, <2>7, PilasEnSuSitio
  <2>9. p = percpu_kstacks(c) + i
    BY <2>4, <2>8, Traduce
  <2>10. p \in percpu_kstacks(c) .. percpu_kstacks(c) + KSTKSIZE - 1
    BY <2>6, <2>7, <2>9
  <2> QED
    BY <2>3, <2>10
<1> QED
  BY <1>1, <1>2 DEF StackPages

\* boot_aps and trap_init_percpu (init.c:83, trap.c:140): each processor takes
\* the stack that was meant for it, and its TSS names that stack and no other.
THEOREM StacksPrivateTheorem == Spec => []StacksPrivate
<1>1. IInv => StacksPrivate
  <2> SUFFICES ASSUME IInv, NEW c \in HwCPUs, NEW d \in HwCPUs, c # d,
                      NEW p \in StackPages(c), p \in StackPages(d)
               PROVE  FALSE
    BY DEF StacksPrivate
  <2> DEFINE S(i) == percpu_kstacks(i) .. percpu_kstacks(i) + KSTKSIZE - 1
             T == bootstack .. bootstack + KSTKSIZE - 1
  <2>1. \/ c = BSP /\ p \in T
        \/ c \in 0 .. NCPU - 1 /\ p \in S(c)
    BY DeQuienEsLaPila
  <2>2. \/ d = BSP /\ p \in T
        \/ d \in 0 .. NCPU - 1 /\ p \in S(d)
    BY DeQuienEsLaPila
  <2>3. KSTKSIZE \in Nat /\ bootstack \in Nat
    BY Numeros DEF bootstack
  <2>4. \A i \in 0 .. NCPU - 1 : percpu_kstacks(i) \in Nat /\ bootstack + KSTKSIZE <= percpu_kstacks(i)
    BY Pilas
  <2>5. \A i, j \in 0 .. NCPU - 1 : i < j => percpu_kstacks(i) + KSTKSIZE <= percpu_kstacks(j)
    BY Pilas
  <2> HIDE DEF percpu_kstacks, bootstack
  <2>6. \A i \in 0 .. NCPU - 1 : S(i) \cap T = {}
    BY <2>3, <2>4
  <2>7. ASSUME NEW i \in 0 .. NCPU - 1, NEW j \in 0 .. NCPU - 1, i < j PROVE S(i) \cap S(j) = {}
    BY <2>3, <2>4, <2>5, <2>7
  <2>8. c < d \/ d < c
    BY Numeros DEF HwCPUs
  <2> HIDE DEF S, T
  <2>9. CASE c \in 0 .. NCPU - 1 /\ p \in S(c) /\ d \in 0 .. NCPU - 1 /\ p \in S(d)
    BY <2>7, <2>8, <2>9
  <2> QED
    BY <2>1, <2>2, <2>6, <2>9
<1> QED
  BY <1>1, InvariantTheorem, PTL

-----------------------------------------------------------------------------
\* What entry_pgdir reaches.

Reservadas == END + 1 + Pages(KERN_PAGES, INFOS_PER_PAGE) + ENVS_PAGES

\* mem_init needs a table for each 4 MB above UTOP but those of UVPT and of the
\* local APICs.
Necesarias == Pdx \ {2, 3}
Faltan(m)  == {x \in Necesarias : m.pgdir[x] = NULL}
Paginas(s) == {s[k] : k \in DOMAIN s}

\* In front of the first page that is out of reach there is one for each table
\* that is missing.
BajasPrimero(m) == \A k \in DOMAIN m.page_free_list :
    m.page_free_list[k] < PT \/ Cardinality(Faltan(m)) < k

\* What check_page_free_list keeps while it sorts.
Repartidas(m, np) ==
    /\ \A p \in 0 .. np - 1 :
        \/ InUse(m, p)
        \/ p \in Paginas(m.page_free_list) \cup Paginas(m.pp1) \cup Paginas(m.pp2)
    /\ \A p \in Paginas(m.pp1) : p < PT
    /\ \A p \in Paginas(m.pp2) : p >= PT

Alcance ==
    /\ pc[BSP] \in {"detect", "alloc_pgdir"} => mem.nextfree = END
    /\ pc[BSP] = "alloc_pages" => mem.nextfree = END + 1
    /\ pc[BSP] = "alloc_envs" => mem.nextfree = END + 1 + Pages(npages, INFOS_PER_PAGE)
    /\ mem.nextfree <= Reservadas
    /\ pc[BSP] = "page_init" =>
        \A p \in 0 .. mem.linked - 1 : InUse(mem, p) \/ p \in Paginas(mem.page_free_list)
    /\ pc[BSP] = "sort" => Repartidas(mem, npages)
    /\ pc[BSP] \in {"check_free_list", "map"} => BajasPrimero(mem)
    /\ cr3[BSP] = "entry_pgdir" => \A p \in DOMAIN mem.table : p < PT

LEMMA CuantasNecesarias ==
    /\ IsFiniteSet(Necesarias) /\ KERN_PAGES \div PT \in Nat
    /\ Cardinality(Necesarias) = 3 + KERN_PAGES \div PT
<1> DEFINE k == KERN_PAGES \div PT
<1>1. /\ k \in Nat /\ KERN_PAGES = PT * k /\ PT \in Nat \ {0}
  BY Numeros, DivMod, BootAssumption
<1>2. KERNBASE + KERN_PAGES = PT * (5 + k) /\ KERNBASE + KERN_PAGES \in Nat
  BY <1>1, Direcciones
<1> HIDE DEF k
<1>3. (KERNBASE + KERN_PAGES) \div PT = 5 + k
  BY <1>1, <1>2, Cociente
<1>4. Pdx = 0 .. k + 4
  <2> DEFINE q == (KERNBASE + KERN_PAGES) \div PT
  <2>1. Pdx = 0 .. q - 1
    BY DEF Pdx
  <2> HIDE DEF q
  <2>2. q - 1 = k + 4
    BY <1>1, <1>3 DEF q
  <2> QED
    BY <2>1, <2>2
<1>5. IsFiniteSet(Pdx) /\ Cardinality(Pdx) = 5 + k
  BY <1>1, <1>4, FS_Interval
<1>6. 2 \in Pdx /\ 3 \in Pdx
  BY <1>1, <1>4
<1>7. IsFiniteSet(Pdx \ {2}) /\ Cardinality(Pdx \ {2}) = 4 + k
  <2>1. IsFiniteSet(Pdx \ {2}) /\ Cardinality(Pdx \ {2}) = Cardinality(Pdx) - 1
    BY <1>5, <1>6, FS_RemoveElement
  <2> QED
    BY <1>1, <1>5, <2>1
<1>8. /\ IsFiniteSet((Pdx \ {2}) \ {3})
      /\ Cardinality((Pdx \ {2}) \ {3}) = Cardinality(Pdx \ {2}) - 1
  BY <1>6, <1>7, FS_RemoveElement
<1>9. (Pdx \ {2}) \ {3} = Necesarias
  BY DEF Necesarias
<1>10. IsFiniteSet(Necesarias) /\ Cardinality(Necesarias) = 3 + k
  BY <1>1, <1>7, <1>8, <1>9
<1> QED
  BY <1>1, <1>10 DEF k

LEMMA CuantasFaltan ==
    ASSUME NEW m
    PROVE  /\ IsFiniteSet(Faltan(m)) /\ Cardinality(Faltan(m)) \in Nat
           /\ Cardinality(Faltan(m)) <= 3 + KERN_PAGES \div PT
<1>1. Faltan(m) \in SUBSET Necesarias
  BY DEF Faltan
<1>2. IsFiniteSet(Faltan(m)) /\ Cardinality(Faltan(m)) <= Cardinality(Necesarias)
  BY <1>1, CuantasNecesarias, FS_Subset
<1> QED
  BY <1>2, CuantasNecesarias, FS_CardinalityType

\* More things take no fewer pages.
LEMMA PagesMonotona ==
    ASSUME NEW a \in Nat, NEW b \in Nat, a <= b, NEW p \in Nat \ {0}
    PROVE  Pages(a, p) <= Pages(b, p)
<1> DEFINE c == a + p - 1
           d == b + p - 1
           x == c \div p
           y == d \div p
<1>1. c \in Nat /\ d \in Nat /\ c <= d /\ p \in Nat /\ p > 0
  OBVIOUS
<1> HIDE DEF c, d
<1>2. /\ x \in Nat /\ y \in Nat /\ c % p \in 0 .. p - 1 /\ d % p \in 0 .. p - 1
      /\ c = p * x + (c % p) /\ d = p * y + (d % p)
  BY <1>1
<1> HIDE DEF x, y
<1>3. p * x \in Nat /\ p * y \in Nat
  BY <1>1, <1>2
<1>4. p * x <= c /\ d < p * y + p
  BY <1>1, <1>2, <1>3
<1>5. y < x => p * y + p <= p * x
  BY <1>1, <1>2, Monotonic
<1>6. x <= y
  BY <1>1, <1>2, <1>3, <1>4, <1>5
<1> QED
  BY <1>6 DEF x, y, c, d, Pages

LEMMA ConcatPaginas ==
    ASSUME NEW s \in Seq(Nat), NEW t \in Seq(Nat)
    PROVE  Paginas(s \o t) = Paginas(s) \cup Paginas(t)
<1> DEFINE u == s \o t
<1>1. /\ Len(s) \in Nat /\ DOMAIN s = 1 .. Len(s) /\ Len(t) \in Nat /\ DOMAIN t = 1 .. Len(t)
      /\ DOMAIN u = 1 .. Len(s) + Len(t)
      /\ \A k \in 1 .. Len(s) + Len(t) : u[k] = IF k <= Len(s) THEN s[k] ELSE t[k - Len(s)]
  OBVIOUS
<1> HIDE DEF u
<1>2. ASSUME NEW k \in DOMAIN u PROVE u[k] \in Paginas(s) \cup Paginas(t)
  <2>1. CASE k <= Len(s)
    BY <1>1, <2>1 DEF Paginas
  <2>2. CASE ~(k <= Len(s))
    <3>1. k - Len(s) \in DOMAIN t /\ u[k] = t[k - Len(s)]
      BY <1>1, <2>2
    <3> QED
      BY <3>1 DEF Paginas
  <2> QED
    BY <2>1, <2>2
<1>3. ASSUME NEW k \in DOMAIN s PROVE s[k] \in Paginas(u)
  <2>1. k \in DOMAIN u /\ u[k] = s[k]
    BY <1>1
  <2> QED
    BY <2>1 DEF Paginas
<1>4. ASSUME NEW k \in DOMAIN t PROVE t[k] \in Paginas(u)
  <2>1. /\ k + Len(s) \in 1 .. Len(s) + Len(t) /\ ~(k + Len(s) <= Len(s))
        /\ (k + Len(s)) - Len(s) = k
    BY <1>1
  <2>2. k + Len(s) \in DOMAIN u /\ u[k + Len(s)] = t[k]
    BY <1>1, <2>1
  <2> QED
    BY <2>2 DEF Paginas
<1> QED
  BY <1>2, <1>3, <1>4 DEF Paginas, u

LEMMA ColaPaginas ==
    ASSUME NEW s \in Seq(Nat), s # <<>>
    PROVE  Paginas(s) = {Head(s)} \cup Paginas(Tail(s))
<1>1. /\ Len(s) \in Nat /\ Len(s) >= 1 /\ DOMAIN s = 1 .. Len(s) /\ Head(s) = s[1]
      /\ DOMAIN Tail(s) = 1 .. Len(s) - 1 /\ \A k \in 1 .. Len(s) - 1 : Tail(s)[k] = s[k + 1]
  OBVIOUS
<1>2. ASSUME NEW k \in DOMAIN s, k # 1 PROVE s[k] \in Paginas(Tail(s))
  <2>1. k - 1 \in 1 .. Len(s) - 1 /\ (k - 1) + 1 = k
    BY <1>1, <1>2
  <2>2. k - 1 \in DOMAIN Tail(s) /\ Tail(s)[k - 1] = s[k]
    BY <1>1, <2>1
  <2> QED
    BY <2>2 DEF Paginas
<1>3. ASSUME NEW k \in DOMAIN Tail(s) PROVE Tail(s)[k] \in Paginas(s)
  <2>1. k + 1 \in DOMAIN s /\ Tail(s)[k] = s[k + 1]
    BY <1>1
  <2> QED
    BY <2>1 DEF Paginas
<1>4. Head(s) \in Paginas(s)
  BY <1>1 DEF Paginas
<1> QED
  BY <1>1, <1>2, <1>3, <1>4 DEF Paginas

LEMMA PocasPaginas == Paginas(<<>>) = {} /\ \A p : Paginas(<<p>>) = {p}
BY DEF Paginas

\* Where a position of s \o t leads.
LEMMA ConcatPosicion ==
    ASSUME NEW s \in Seq(Nat), NEW t \in Seq(Nat), NEW k \in DOMAIN (s \o t)
    PROVE  /\ k \in Nat /\ Len(s) \in Nat
           /\ k <= Len(s) => (s \o t)[k] \in Paginas(s)
           /\ ~(k <= Len(s)) => k - Len(s) \in DOMAIN t /\ (s \o t)[k] = t[k - Len(s)]
<1> DEFINE u == s \o t
<1>1. /\ Len(s) \in Nat /\ DOMAIN s = 1 .. Len(s) /\ Len(t) \in Nat /\ DOMAIN t = 1 .. Len(t)
      /\ DOMAIN u = 1 .. Len(s) + Len(t)
      /\ \A j \in 1 .. Len(s) + Len(t) : u[j] = IF j <= Len(s) THEN s[j] ELSE t[j - Len(s)]
  OBVIOUS
<1> HIDE DEF u
<1>2. k \in 1 .. Len(s) + Len(t)
  BY <1>1 DEF u
<1>3. k <= Len(s) => k \in DOMAIN s /\ u[k] = s[k]
  BY <1>1, <1>2
<1>4. ~(k <= Len(s)) => k - Len(s) \in DOMAIN t /\ u[k] = t[k - Len(s)]
  BY <1>1, <1>2
<1> QED
  BY <1>1, <1>2, <1>3, <1>4 DEF Paginas, u

\* The pages below 4 MB that page_init puts into the list when there is more
\* memory than that.
BajasLibres(n) == ((1 .. IOPHYSMEM - 1) \ {MPENTRY}) \cup (n .. PT - 1)

LEMMA CuantasBajas ==
    ASSUME NEW n \in Nat, END <= n, n <= Reservadas
    PROVE  /\ IsFiniteSet(BajasLibres(n))
           /\ 3 + KERN_PAGES \div PT <= Cardinality(BajasLibres(n))
<1> DEFINE S == 1 .. IOPHYSMEM - 1
           T == n .. PT - 1
           k == KERN_PAGES \div PT
           q == Reservadas
<1>0. q <= PT /\ 3 + k <= (IOPHYSMEM - 2) + (PT - q)
  BY LowMemory DEF Reservadas
<1>1. /\ k \in Nat /\ PT \in Nat /\ IOPHYSMEM \in Nat /\ MPENTRY \in Nat \ {0} /\ END \in Nat
      /\ MPENTRY < IOPHYSMEM /\ IOPHYSMEM < EXTPHYSMEM /\ EXTPHYSMEM \in Nat
  BY CuantasNecesarias, Numeros, BootAssumption
<1>2. EXTPHYSMEM <= END /\ q \in Nat
  <2>1. (NCPU + 1) * KSTKSIZE \in Nat /\ EXTPHYSMEM + (NCPU + 1) * KSTKSIZE <= END
    BY Numeros, BootAssumption
  <2>2. Pages(KERN_PAGES, INFOS_PER_PAGE) \in Nat
    BY PagesNat, Numeros
  <2>3. EXTPHYSMEM <= END
    <3> DEFINE x == (NCPU + 1) * KSTKSIZE
    <3>1. x \in Nat /\ EXTPHYSMEM + x <= END
      BY <2>1
    <3> HIDE DEF x
    <3> QED
      BY <1>1, <3>1
  <2> QED
    BY <2>2, <2>3, Numeros DEF Reservadas
<1> HIDE DEF k, q
<1>3. /\ IsFiniteSet(S) /\ Cardinality(S) = IOPHYSMEM - 1
  BY <1>1, FS_Interval
<1>4. MPENTRY \in S
  BY <1>1
<1>5. IsFiniteSet(T) /\ Cardinality(T) = PT - n
  BY <1>0, <1>1, <1>2, FS_Interval DEF q
<1>6. S \cap T = {}
  BY <1>1, <1>2
<1> HIDE DEF S, T
<1>7. IsFiniteSet(S \ {MPENTRY}) /\ Cardinality(S \ {MPENTRY}) = IOPHYSMEM - 2
  <2>1. /\ IsFiniteSet(S \ {MPENTRY}) /\ Cardinality(S \ {MPENTRY}) = Cardinality(S) - 1
    BY <1>3, <1>4, FS_RemoveElement
  <2> QED
    BY <1>1, <1>3, <2>1
<1>8. (S \ {MPENTRY}) \cap T = {}
  BY <1>6
<1>9. /\ IsFiniteSet((S \ {MPENTRY}) \cup T)
      /\ Cardinality((S \ {MPENTRY}) \cup T) = (IOPHYSMEM - 2) + (PT - n) - 0
  BY <1>5, <1>7, <1>8, FS_Union, FS_EmptySet
<1>10. 3 + k <= (IOPHYSMEM - 2) + (PT - n) - 0
  BY <1>0, <1>1, <1>2 DEF q
<1>11. IsFiniteSet((S \ {MPENTRY}) \cup T) /\ 3 + k <= Cardinality((S \ {MPENTRY}) \cup T)
  BY <1>9, <1>10
<1> QED
  BY <1>11 DEF S, T, k, BajasLibres

LEMMA EnUsoIgual ==
    ASSUME NEW m, NEW n, Iguales(m, n), NEW p
    PROVE  InUse(n, p) <=> InUse(m, p)
BY DEF Iguales, InUse

\* page_init: every page that it has passed is in use or in the list.
LEMMA LinkPageTodas ==
    ASSUME NEW m \in Memorias,
           \A p \in 0 .. m.linked - 1 : InUse(m, p) \/ p \in Paginas(m.page_free_list)
    PROVE  LET n == LinkPage(m) IN
           \A p \in 0 .. n.linked - 1 : InUse(n, p) \/ p \in Paginas(n.page_free_list)
<1> DEFINE n == LinkPage(m)
           i == m.linked
           s == m.page_free_list
<1>1. /\ Iguales(m, n) /\ n.linked = i + 1
      /\ n.page_free_list = IF InUse(m, i) THEN s ELSE <<i>> \o s
  BY LinkPageCampos
<1>2. i \in Nat /\ s \in Seq(Nat) /\ <<i>> \in Seq(Nat)
  BY Campos
<1>3. Paginas(<<i>> \o s) = Paginas(<<i>>) \cup Paginas(s) /\ Paginas(<<i>>) = {i}
  BY <1>2, ConcatPaginas, PocasPaginas
<1> HIDE DEF n
<1> SUFFICES ASSUME NEW p \in 0 .. n.linked - 1
             PROVE  InUse(n, p) \/ p \in Paginas(n.page_free_list)
  BY DEF n
<1>4. p = i \/ p \in 0 .. m.linked - 1
  BY <1>1, <1>2
<1>5. InUse(n, p) <=> InUse(m, p)
  BY <1>1, EnUsoIgual
<1> HIDE DEF i, s
<1>6. CASE p = i
  BY <1>1, <1>3, <1>5, <1>6
<1>7. CASE p \in 0 .. m.linked - 1
  <2>1. InUse(m, p) \/ p \in Paginas(s)
    BY <1>7 DEF s
  <2> QED
    BY <1>1, <1>3, <1>5, <2>1
<1> QED
  BY <1>4, <1>6, <1>7

\* check_page_free_list: a page goes from one list to another, low or high.
LEMMA MovePageRepartidas ==
    ASSUME NEW m \in Memorias, NEW np \in Nat, Repartidas(m, np), m.page_free_list # <<>>
    PROVE  Repartidas(MovePage(m), np)
<1> DEFINE n == MovePage(m)
           s == m.page_free_list
           q == Head(s)
<1>1. /\ Iguales(m, n) /\ n.page_free_list = Tail(s)
      /\ \/ q < PT /\ n.pp1 = m.pp1 \o <<q>> /\ n.pp2 = m.pp2
         \/ q >= PT /\ n.pp1 = m.pp1 /\ n.pp2 = m.pp2 \o <<q>>
  BY MovePageCampos
<1>2. /\ s \in Seq(Nat) /\ m.pp1 \in Seq(Nat) /\ m.pp2 \in Seq(Nat)
  BY Campos
<1>3. q \in Nat
  BY <1>2, TailParts
<1> HIDE DEF n, q
<1>4. <<q>> \in Seq(Nat)
  BY <1>3
<1>5. /\ Paginas(s) = {q} \cup Paginas(Tail(s))
      /\ Paginas(m.pp1 \o <<q>>) = Paginas(m.pp1) \cup {q}
      /\ Paginas(m.pp2 \o <<q>>) = Paginas(m.pp2) \cup {q}
  <2>1. Paginas(<<q>>) = {q}
    BY PocasPaginas
  <2>2. Paginas(s) = {q} \cup Paginas(Tail(s))
    BY <1>2, ColaPaginas DEF q
  <2>3. Paginas(m.pp1 \o <<q>>) = Paginas(m.pp1) \cup Paginas(<<q>>)
    BY <1>2, <1>4, ConcatPaginas
  <2>4. Paginas(m.pp2 \o <<q>>) = Paginas(m.pp2) \cup Paginas(<<q>>)
    BY <1>2, <1>4, ConcatPaginas
  <2> QED
    BY <2>1, <2>2, <2>3, <2>4
<1>6. ASSUME NEW p \in 0 .. np - 1
      PROVE  \/ InUse(n, p)
             \/ p \in Paginas(n.page_free_list) \cup Paginas(n.pp1) \cup Paginas(n.pp2)
  <2>1. InUse(m, p) \/ p \in Paginas(s) \cup Paginas(m.pp1) \cup Paginas(m.pp2)
    BY DEF Repartidas
  <2>2. InUse(n, p) <=> InUse(m, p)
    BY <1>1, EnUsoIgual
  <2> HIDE DEF s
  <2> QED
    BY <1>1, <1>5, <2>1, <2>2
<1>7. /\ \A p \in Paginas(m.pp1) : p < PT
      /\ \A p \in Paginas(m.pp2) : p >= PT
  BY DEF Repartidas
<1>8. \A p \in Paginas(n.pp1) : p < PT
  BY <1>1, <1>5, <1>7
<1>9. \A p \in Paginas(n.pp2) : p >= PT
  BY <1>1, <1>5, <1>7
<1> QED
  BY <1>6, <1>8, <1>9 DEF Repartidas, n

\* Then the pages below 4 MB come first, and there are enough of them.
LEMMA LowFirstBajas ==
    ASSUME NEW m \in Memorias, NEW np \in Nat, Listas(m, np), Repartidas(m, np),
           m.page_free_list = <<>>, END <= m.nextfree, m.nextfree <= Reservadas
    PROVE  BajasPrimero(LowFirst(m))
<1> DEFINE n == LowFirst(m)
           s == m.pp1
           t == m.pp2
<1>1. n.page_free_list = s \o t
  BY LowFirstCampos
<1>2. s \in Seq(Nat) /\ t \in Seq(Nat) /\ m.nextfree \in Nat /\ PT \in Nat
  BY Campos, Numeros
<1>3. Distintas(s) /\ Limpias(m, np, t)
  BY DEF Listas
<1>4. \A p \in Paginas(s) : p < PT
  BY DEF Repartidas
<1>5. \A p \in Paginas(t) : p >= PT
  BY DEF Repartidas
<1> HIDE DEF n, s, t
<1> SUFFICES ASSUME NEW k \in DOMAIN (s \o t), ~((s \o t)[k] < PT)
             PROVE  Cardinality(Faltan(n)) < k
  BY <1>1 DEF BajasPrimero, n
<1>6. /\ k \in Nat /\ Len(s) \in Nat
      /\ k <= Len(s) => (s \o t)[k] \in Paginas(s)
      /\ ~(k <= Len(s)) => k - Len(s) \in DOMAIN t /\ (s \o t)[k] = t[k - Len(s)]
  BY <1>2, ConcatPosicion
<1>7. ~(k <= Len(s))
  BY <1>4, <1>6
<1>8. PT < np
  <2> DEFINE p == t[k - Len(s)]
  <2>1. Limpia(m, np, p) /\ p \in Paginas(t)
    BY <1>3, <1>6, <1>7 DEF Limpias, Paginas
  <2>2. p \in 1 .. np - 1 /\ p >= PT
    BY <1>5, <2>1 DEF Limpia
  <2> HIDE DEF p
  <2> QED
    BY <1>2, <2>2
<1>9. ASSUME NEW p \in BajasLibres(m.nextfree) PROVE p \in Paginas(s)
  <2>1. /\ IOPHYSMEM \in Nat /\ IOPHYSMEM < EXTPHYSMEM /\ EXTPHYSMEM <= END /\ END < PT
        /\ EXTPHYSMEM \in Nat /\ END \in Nat
    <3> DEFINE x == (NCPU + 1) * KSTKSIZE
    <3>1. x \in Nat /\ EXTPHYSMEM + x <= END /\ EXTPHYSMEM \in Nat /\ END \in Nat
      BY Numeros, BootAssumption
    <3> HIDE DEF x
    <3>2. EXTPHYSMEM <= END
      BY <3>1
    <3> QED
      BY <3>1, <3>2, Numeros, BootAssumption
  <2>2. (p \in 1 .. IOPHYSMEM - 1 /\ p # MPENTRY) \/ p \in m.nextfree .. PT - 1
    BY <1>9 DEF BajasLibres
  <2>3. MPENTRY < IOPHYSMEM /\ MPENTRY \in Nat
    BY Numeros, BootAssumption
  <2>4. p \in Nat /\ p < PT /\ ~InUse(m, p)
    <3> DEFINE f == m.nextfree
    <3>1. f \in Nat /\ END <= f /\ PT \in Nat
      BY <1>2
    <3>2. (p \in 1 .. IOPHYSMEM - 1 /\ p # MPENTRY) \/ p \in f .. PT - 1
      BY <2>2
    <3> HIDE DEF f
    <3>3. p \in Nat /\ p < PT
      BY <2>1, <3>1, <3>2
    <3>4. /\ p # 0 /\ p # MPENTRY /\ p \notin IOPHYSMEM .. EXTPHYSMEM - 1
          /\ p \notin EXTPHYSMEM .. f - 1
      <4>1. CASE p \in 1 .. IOPHYSMEM - 1 /\ p # MPENTRY
        BY <2>1, <3>1, <4>1
      <4>2. CASE p \in f .. PT - 1
        <5>1. p \in Nat /\ f <= p /\ IOPHYSMEM < p /\ EXTPHYSMEM <= p
          BY <2>1, <3>1, <4>2
        <5> QED
          BY <2>1, <2>3, <3>1, <5>1
      <4> QED
        BY <3>2, <4>1, <4>2
    <3> QED
      BY <3>3, <3>4 DEF InUse, f
  <2>5. p \in 0 .. np - 1
    BY <1>2, <1>8, <2>4
  <2>6. p \notin Paginas(t)
    BY <1>2, <1>5, <2>4
  <2>7. p \in Paginas(m.page_free_list) \cup Paginas(s) \cup Paginas(t)
    BY <2>4, <2>5 DEF Repartidas, s, t
  <2> QED
    BY <2>6, <2>7, PocasPaginas
<1>10. Cardinality(Paginas(s)) = Len(s)
  BY <1>2, <1>3, CuantasPaginas DEF Paginas
<1>11. IsFiniteSet(Paginas(s))
  <2>1. Paginas(s) \in SUBSET Nat
    BY <1>2 DEF Paginas
  <2>2. \A p \in Paginas(s) : p <= PT
    BY <1>2, <1>4, <2>1
  <2> QED
    BY <1>2, <2>1, <2>2, FS_BoundedSetOfNaturals
<1>12. Cardinality(BajasLibres(m.nextfree)) <= Len(s)
  <2>1. BajasLibres(m.nextfree) \in SUBSET Paginas(s)
    BY <1>9
  <2> QED
    BY <1>10, <1>11, <2>1, FS_Subset
<1>13. /\ IsFiniteSet(BajasLibres(m.nextfree))
       /\ 3 + KERN_PAGES \div PT <= Cardinality(BajasLibres(m.nextfree))
  BY <1>2, CuantasBajas
<1>14. Cardinality(BajasLibres(m.nextfree)) \in Nat
  BY <1>13, FS_CardinalityType
<1>15. /\ Cardinality(Faltan(n)) \in Nat /\ Cardinality(Faltan(n)) <= 3 + KERN_PAGES \div PT
       /\ KERN_PAGES \div PT \in Nat
  BY CuantasFaltan, CuantasNecesarias
<1> DEFINE a == Cardinality(BajasLibres(m.nextfree))
           b == Cardinality(Faltan(n))
           c == KERN_PAGES \div PT
<1>16. a \in Nat /\ b \in Nat /\ c \in Nat /\ b <= 3 + c /\ 3 + c <= a /\ a <= Len(s)
  BY <1>12, <1>13, <1>14, <1>15
<1> HIDE DEF a, b, c
<1>17. b < k
  BY <1>6, <1>7, <1>16
<1> QED
  BY <1>17 DEF b

\* boot_map_region: the table that is missing comes from below 4 MB.
LEMMA PgdirWalkBajas ==
    ASSUME NEW m, NEW np, Ordenada(m, np), NEW va \in Vas, va \div PT \in Necesarias,
           ~PgdirWalkFails(m, va), BajasPrimero(m), \A p \in DOMAIN m.table : p < PT
    PROVE  LET n == PgdirWalk(m, va) IN
           BajasPrimero(n) /\ \A p \in DOMAIN n.table : p < PT
<1>0. m \in Memorias
  BY DEF Ordenada
<1>1. CASE m.pgdir[va \div PT] # NULL
  BY <1>1 DEF PgdirWalk
<1>2. CASE m.pgdir[va \div PT] = NULL
  <2> DEFINE n == PgdirWalk(m, va)
             s == m.page_free_list
             t == Head(s)
             d == va \div PT
  <2>1. s # <<>>
    BY <1>2 DEF PgdirWalkFails
  <2>2. /\ n.page_free_list = Tail(s)
        /\ n.pgdir = [m.pgdir EXCEPT ![d] = Pde(t)]
        /\ n.table = [p \in DOMAIN m.table \cup {t} |-> IF p = t THEN Vacia ELSE m.table[p]]
    BY <1>0, <1>2, <2>1, PgdirWalkCampos
  <2>3. s \in Seq(Nat) /\ m.pgdir \in [Pdx -> Ptes \cup {NULL}]
    BY <1>0, Campos
  <2>4. d \in Necesarias /\ d \in Pdx /\ m.pgdir[d] = NULL
    BY <1>2 DEF Necesarias
  <2>5. \A k \in DOMAIN s : s[k] < PT \/ Cardinality(Faltan(m)) < k
    BY DEF BajasPrimero
  <2> HIDE DEF n, d, s
  <2>6. /\ t \in Nat /\ t = s[1] /\ 1 \in DOMAIN s
        /\ \A k \in DOMAIN Tail(s) : k + 1 \in DOMAIN s /\ Tail(s)[k] = s[k + 1]
    BY <2>1, <2>3, TailParts
  <2>7. \A k \in DOMAIN Tail(s) : k \in Nat
    BY <2>1, <2>3
  <2> HIDE DEF t
  <2>8. Pde(t) # NULL
    <3>1. Pde(t) \in Ptes
      BY <2>6 DEF Pde, Ptes
    <3> QED
      BY <3>1, NuloAparte
  <2>9. /\ IsFiniteSet(Faltan(m)) /\ Cardinality(Faltan(m)) \in Nat
        /\ d \in Faltan(m)
    BY <2>4, CuantasFaltan DEF Faltan
  <2>10. Faltan(n) = Faltan(m) \ {d}
    <3>1. \A x \in Pdx : n.pgdir[x] = IF x = d THEN Pde(t) ELSE m.pgdir[x]
      BY <2>2, <2>3
    <3>2. Necesarias \subseteq Pdx
      BY DEF Necesarias
    <3> QED
      BY <2>8, <3>1, <3>2 DEF Faltan
  <2>11. Cardinality(Faltan(n)) = Cardinality(Faltan(m)) - 1
    BY <2>9, <2>10, FS_RemoveElement
  <2>12. Cardinality(Faltan(m)) # 0
    BY <2>9, FS_EmptySet
  <2>13. t < PT
    BY <2>5, <2>6, <2>9, <2>12
  <2>14. \A p \in DOMAIN n.table : p < PT
    BY <2>2, <2>13
  <2>15. ASSUME NEW k \in DOMAIN Tail(s), ~(Tail(s)[k] < PT)
         PROVE  Cardinality(Faltan(n)) < k
    <3>1. Cardinality(Faltan(m)) < k + 1
      BY <2>5, <2>6, <2>15
    <3> QED
      BY <2>7, <2>9, <2>11, <3>1
  <2>16. BajasPrimero(n)
    BY <2>2, <2>15 DEF BajasPrimero
  <2> QED
    BY <2>14, <2>16 DEF n
<1> QED
  BY <1>1, <1>2

LEMMA MapPageBajas ==
    ASSUME NEW m, NEW np, Ordenada(m, np), NEW va \in Vas, va \div PT \in Necesarias,
           NEW pte \in Ptes, ~PgdirWalkFails(m, va), BajasPrimero(m),
           \A p \in DOMAIN m.table : p < PT
    PROVE  LET n == MapPage(m, va, pte) IN
           BajasPrimero(n) /\ \A p \in DOMAIN n.table : p < PT
<1> DEFINE m1 == PgdirWalk(m, va)
           d == va \div PT
           o == va % PT
           q == m1.pgdir[d].page
           n == [m1 EXCEPT !.table[q][o] = pte]
<1>1. /\ Ordenada(m1, np) /\ m1.pgdir[d] # NULL
  BY PgdirWalkParts
<1>2. BajasPrimero(m1) /\ \A p \in DOMAIN m1.table : p < PT
  BY PgdirWalkBajas
<1>3. d \in Pdx \ {RANURA} /\ o \in 0 .. PT - 1
  BY VaEnTabla
<1>4. MapPage(m, va, pte) = n
  BY DEF MapPage
<1> HIDE DEF m1, d, o
<1>5. m1 \in Memorias /\ Directorio(m1)
  BY <1>1 DEF Ordenada
<1>6. q \in DOMAIN m1.table
  BY <1>1, <1>3, <1>5 DEF Directorio
<1> HIDE DEF q
<1>7. n.page_free_list = m1.page_free_list /\ n.pgdir = m1.pgdir /\ DOMAIN n.table = DOMAIN m1.table
  BY <1>3, <1>5, <1>6, EntradaCampos
<1> HIDE DEF n
<1>8. Faltan(n) = Faltan(m1)
  BY <1>7 DEF Faltan
<1> QED
  BY <1>2, <1>4, <1>7, <1>8 DEF BajasPrimero

\* An address that boot_map_region maps needs one of those tables.
LEMMA RegionNecesaria ==
    ASSUME NEW B, Buenas(B), NEW m, NEW rs \in Seq(Regiones), rs # <<>>, Mapa(B, m, rs)
    PROVE  LET r == Head(rs) IN
           /\ r.va \in Vas /\ r.va \div PT \in Necesarias
           /\ [page |-> r.pa, w |-> r.w, u |-> r.u] \in Ptes
<1> DEFINE r == Head(rs)
           va == r.va
           d == va \div PT
<1>1. r \in Regiones /\ 1 \in DOMAIN rs /\ r = rs[1]
  BY SiguenParts
<1>2. /\ va \in Nat /\ En(r, va)
      /\ Pte(r, va) = [page |-> r.pa, w |-> r.w, u |-> r.u] /\ Pte(r, va) \in Ptes
  BY <1>1, RestoParts
<1>3. PICK k \in DOMAIN B : \A x \in Nat : En(r, x) => En(B[k], x)
  BY <1>1 DEF Mapa
<1>4. va \in Vas /\ va \notin MMIOBASE .. MMIOLIM - 1
  BY <1>2, <1>3 DEF Buenas
<1>5. d \in Pdx \ {RANURA}
  BY <1>4, VaEnTabla
<1>6. /\ d \in Nat /\ va % PT \in 0 .. PT - 1 /\ va = PT * d + (va % PT) /\ PT \in Nat \ {0}
  BY <1>2, DivMod, Numeros
<1>7. MMIOBASE = 3 * PT /\ MMIOLIM = 4 * PT /\ RANURA = 2
  BY Direcciones
<1> HIDE DEF va, d
<1>8. d # 3
  <2> SUFFICES ASSUME d = 3 PROVE FALSE
    OBVIOUS
  <2>1. va = PT * 3 + (va % PT)
    BY <1>6
  <2>2. 3 * PT <= va /\ va < 4 * PT
    BY <1>2, <1>6, <2>1
  <2> QED
    BY <1>2, <1>4, <1>6, <1>7, <2>2
<1>9. d \in Necesarias
  BY <1>5, <1>7, <1>8 DEF Necesarias
<1> QED
  BY <1>2, <1>4, <1>9 DEF va, d

LEMMA PaginasDeUna ==
    ASSUME NEW n \in Nat
    PROVE  Pages(n, 1) = n
<1>1. n + 1 - 1 = n /\ n \div 1 = n
  OBVIOUS
<1> QED
  BY <1>1 DEF Pages

LEMMA BootAllocDonde ==
    ASSUME NEW m \in Memorias, NEW k, NEW p
    PROVE  LET n == BootAlloc(m, k, p) IN
           /\ n.nextfree = m.nextfree + Pages(k, p) /\ n.table = m.table /\ n.linked = m.linked
           /\ DOMAIN n = DOMAIN m
<1> HIDE DEF Pages
<1> QED
  BY DEF BootAlloc, Memorias

LEMMA ReservadasPartes ==
    ASSUME NEW n \in Nat, n <= KERN_PAGES
    PROVE  /\ END \in Nat /\ Reservadas \in Nat /\ ENVS_PAGES \in Nat
           /\ Pages(n, INFOS_PER_PAGE) \in Nat
           /\ END + 1 <= Reservadas
           /\ END + 1 + Pages(n, INFOS_PER_PAGE) <= Reservadas
           /\ END + 1 + Pages(n, INFOS_PER_PAGE) + ENVS_PAGES <= Reservadas
<1>1. /\ END \in Nat /\ ENVS_PAGES \in Nat /\ KERN_PAGES \in Nat
      /\ INFOS_PER_PAGE \in Nat \ {0}
  BY Numeros
<1>2. /\ Pages(n, INFOS_PER_PAGE) \in Nat /\ Pages(KERN_PAGES, INFOS_PER_PAGE) \in Nat
      /\ Pages(n, INFOS_PER_PAGE) <= Pages(KERN_PAGES, INFOS_PER_PAGE)
  BY <1>1, PagesNat, PagesMonotona
<1> DEFINE x == Pages(n, INFOS_PER_PAGE)
           y == Pages(KERN_PAGES, INFOS_PER_PAGE)
<1>3. Reservadas = END + 1 + y + ENVS_PAGES
  BY DEF Reservadas
<1>4. x \in Nat /\ y \in Nat /\ x <= y
  BY <1>2
<1> HIDE DEF x, y
<1>5. Reservadas \in Nat /\ END + 1 <= Reservadas /\ END + 1 + x <= Reservadas
      /\ END + 1 + x + ENVS_PAGES <= Reservadas
  BY <1>1, <1>3, <1>4
<1> QED
  BY <1>1, <1>4, <1>5 DEF x

\* Once kern_pgdir is loaded everything is in reach.
LEMMA AlcanceCargado ==
    ASSUME Construccion', cr3'[BSP] = "kern_pgdir", mem'.nextfree <= Reservadas
    PROVE  Alcance'
<1>1. pc'[BSP] \notin Asignando \cup Ordenando \cup {"map", "lcr3"}
  BY DEF Construccion, Fases
<1> QED
  BY <1>1 DEF Alcance, Asignando, Ordenando

\* A processor that goes on with the memory as it is.
LEMMA AlcanceQuieto ==
    ASSUME Alcance, UNCHANGED <<npages, mem>>, cr3'[BSP] = cr3[BSP],
           pc'[BSP] = pc[BSP] \/ pc'[BSP] \in {"lcr3", "panic"}
    PROVE  Alcance'
<1>1. CASE pc'[BSP] = pc[BSP]
  BY <1>1 DEF Alcance, Repartidas, BajasPrimero, Faltan, Paginas, InUse
<1>2. CASE pc'[BSP] \in {"lcr3", "panic"}
  BY <1>2 DEF Alcance
<1> QED
  BY <1>1, <1>2

LEMMA AllocAlcance ==
    ASSUME Construccion, Alcance, pc \in [HwCPUs -> Lugares],
           DetectMemory \/ AllocPgdir \/ AllocPages \/ AllocEnvs
    PROVE  Alcance'
<1>1. /\ mem \in Memorias /\ npages \in Nat /\ npages <= KERN_PAGES
      /\ mem.nextfree <= Reservadas /\ (cr3[BSP] = "entry_pgdir" => \A p \in DOMAIN mem.table : p < PT)
  BY DEF Construccion, Memoria, Alcance
<1>2. cr3' = cr3
  BY DEF DetectMemory, AllocPgdir, AllocPages, AllocEnvs, MemUnchanged
<1>3. mem.linked = 0
  BY DEF Construccion, Fases, Asignando, DetectMemory, AllocPgdir, AllocPages, AllocEnvs, At
<1>4. /\ END \in Nat /\ Reservadas \in Nat /\ ENVS_PAGES \in Nat
      /\ Pages(npages, INFOS_PER_PAGE) \in Nat
      /\ END + 1 <= Reservadas
      /\ END + 1 + Pages(npages, INFOS_PER_PAGE) <= Reservadas
      /\ END + 1 + Pages(npages, INFOS_PER_PAGE) + ENVS_PAGES <= Reservadas
  BY <1>1, ReservadasPartes
<1> HIDE DEF Pages, Reservadas
<1>5. ASSUME UNCHANGED <<npages, mem>>, Goto(BSP, "panic") PROVE Alcance'
  <2>1. pc'[BSP] = "panic"
    BY <1>5, IrBsp, Zenon
  <2> QED
    BY <1>2, <1>5, <2>1, AlcanceQuieto
<1>6. CASE DetectMemory
  <2>1. pc[BSP] = "detect" /\ Goto(BSP, "alloc_pgdir") /\ mem' = mem
    BY <1>6 DEF DetectMemory, At
  <2>2. pc'[BSP] = "alloc_pgdir"
    BY <2>1, IrBsp, Zenon
  <2>3. mem.nextfree = END
    BY <2>1 DEF Alcance
  <2> QED
    BY <1>1, <1>2, <2>1, <2>2, <2>3 DEF Alcance
<1>7. CASE AllocPgdir
  <2>1. CASE BootAllocPanics(mem, 1, 1)
    BY <1>5, <1>7, <2>1 DEF AllocPgdir, Panics, MemUnchanged
  <2>2. CASE ~BootAllocPanics(mem, 1, 1)
    <3>1. /\ Goto(BSP, "alloc_pages") /\ pc[BSP] = "alloc_pgdir"
          /\ mem' = [BootAlloc(mem, 1, 1) EXCEPT
                        !.kern_pgdir = mem.nextfree,
                        !.pgdir[UVPT \div PT] = [page |-> mem.nextfree, w |-> FALSE, u |-> TRUE]]
      BY <1>7, <2>2 DEF AllocPgdir
    <3>2. pc'[BSP] = "alloc_pages"
      BY <3>1, IrBsp, Zenon
    <3>3. mem'.nextfree = BootAlloc(mem, 1, 1).nextfree /\ mem'.table = BootAlloc(mem, 1, 1).table
      <4> HIDE DEF BootAlloc
      <4> QED
        BY <3>1
    <3>4. mem'.nextfree = mem.nextfree + Pages(1, 1) /\ mem'.table = mem.table
      BY <1>1, <3>3, BootAllocDonde
    <3>5. Pages(1, 1) = 1
      BY PaginasDeUna
    <3>6. mem'.nextfree = END + 1
      BY <3>1, <3>4, <3>5 DEF Alcance
    <3> QED
      BY <1>1, <1>2, <1>4, <3>2, <3>4, <3>6 DEF Alcance
  <2> QED
    BY <2>1, <2>2
<1>8. CASE AllocPages
  <2>1. CASE BootAllocPanics(mem, npages, INFOS_PER_PAGE)
    BY <1>5, <1>8, <2>1 DEF AllocPages, Panics, MemUnchanged
  <2>2. CASE ~BootAllocPanics(mem, npages, INFOS_PER_PAGE)
    <3>1. /\ Goto(BSP, "alloc_envs") /\ pc[BSP] = "alloc_pages" /\ npages' = npages
          /\ mem' = [BootAlloc(mem, npages, INFOS_PER_PAGE) EXCEPT !.pages = mem.nextfree]
      BY <1>8, <2>2 DEF AllocPages, MemUnchanged
    <3>2. pc'[BSP] = "alloc_envs"
      BY <3>1, IrBsp, Zenon
    <3>3. /\ mem'.nextfree = BootAlloc(mem, npages, INFOS_PER_PAGE).nextfree
          /\ mem'.table = BootAlloc(mem, npages, INFOS_PER_PAGE).table
      <4> HIDE DEF BootAlloc
      <4> QED
        BY <3>1
    <3>4. /\ mem'.nextfree = mem.nextfree + Pages(npages, INFOS_PER_PAGE)
          /\ mem'.table = mem.table
      BY <1>1, <3>3, BootAllocDonde
    <3>5. mem.nextfree = END + 1
      BY <3>1 DEF Alcance
    <3>6. mem'.nextfree = END + 1 + Pages(npages', INFOS_PER_PAGE)
      BY <3>1, <3>4, <3>5
    <3> QED
      BY <1>1, <1>2, <1>4, <3>1, <3>2, <3>4, <3>6 DEF Alcance
  <2> QED
    BY <2>1, <2>2
<1>9. CASE AllocEnvs
  <2>1. CASE BootAllocPanics(mem, ENVS_PAGES, 1)
    BY <1>5, <1>9, <2>1 DEF AllocEnvs, Panics, MemUnchanged
  <2>2. CASE ~BootAllocPanics(mem, ENVS_PAGES, 1)
    <3>1. /\ Goto(BSP, "page_init") /\ pc[BSP] = "alloc_envs"
          /\ mem' = [BootAlloc(mem, ENVS_PAGES, 1) EXCEPT !.envs = mem.nextfree]
      BY <1>9, <2>2 DEF AllocEnvs
    <3>2. pc'[BSP] = "page_init"
      BY <3>1, IrBsp, Zenon
    <3>3. /\ mem'.nextfree = BootAlloc(mem, ENVS_PAGES, 1).nextfree
          /\ mem'.table = BootAlloc(mem, ENVS_PAGES, 1).table
          /\ mem'.linked = BootAlloc(mem, ENVS_PAGES, 1).linked
      <4> HIDE DEF BootAlloc
      <4> QED
        BY <3>1
    <3>4. /\ mem'.nextfree = mem.nextfree + Pages(ENVS_PAGES, 1)
          /\ mem'.table = mem.table /\ mem'.linked = 0
      BY <1>1, <1>3, <3>3, BootAllocDonde
    <3>5. Pages(ENVS_PAGES, 1) = ENVS_PAGES
      BY <1>4, PaginasDeUna
    <3>6. mem.nextfree = END + 1 + Pages(npages, INFOS_PER_PAGE)
      BY <3>1 DEF Alcance
    <3>7. mem'.nextfree <= Reservadas
      BY <1>4, <3>4, <3>5, <3>6
    <3>8. 0 .. mem'.linked - 1 = {}
      BY <3>4
    <3> QED
      BY <1>1, <1>2, <3>2, <3>4, <3>7, <3>8 DEF Alcance
  <2> QED
    BY <2>1, <2>2
<1> QED
  BY <1>6, <1>7, <1>8, <1>9

\* page_init and check_page_free_list.
LEMMA OrdenandoAlcance ==
    ASSUME Construccion, Alcance, pc \in [HwCPUs -> Lugares],
           LinkFreePages \/ SortFreePages \/ CheckFreeList
    PROVE  Alcance'
<1>1. /\ mem \in Memorias /\ npages \in Nat /\ Listas(mem, npages) /\ mem.nextfree >= END
      /\ mem.nextfree \in Nat /\ END \in Nat
      /\ mem.nextfree <= Reservadas /\ (cr3[BSP] = "entry_pgdir" => \A p \in DOMAIN mem.table : p < PT)
  BY Campos, Numeros DEF Construccion, Memoria, Alcance
<1>2. cr3' = cr3 /\ npages' = npages
  BY DEF LinkFreePages, SortFreePages, CheckFreeList, MemUnchanged
<1>3. ASSUME Iguales(mem, mem')
      PROVE  /\ mem'.nextfree <= Reservadas
             /\ cr3'[BSP] = "entry_pgdir" => \A p \in DOMAIN mem'.table : p < PT
  BY <1>1, <1>2, <1>3 DEF Iguales
<1> HIDE DEF Reservadas
<1>4. CASE LinkFreePages
  <2>1. pc[BSP] = "page_init"
    BY <1>4 DEF LinkFreePages
  <2>2. \A p \in 0 .. mem.linked - 1 : InUse(mem, p) \/ p \in Paginas(mem.page_free_list)
    BY <2>1 DEF Alcance
  <2>3. CASE mem.linked < npages
    <3>1. mem' = LinkPage(mem) /\ pc' = pc
      BY <1>4, <2>3 DEF LinkFreePages
    <3>2. Iguales(mem, mem')
      BY <1>1, <3>1, LinkPageCampos
    <3>3. (\A p \in 0 .. mem.linked - 1 : InUse(mem, p) \/ p \in Paginas(mem.page_free_list))'
      BY <1>1, <2>2, <3>1, LinkPageTodas
    <3> QED
      BY <1>3, <2>1, <3>1, <3>2, <3>3 DEF Alcance
  <2>4. CASE ~(mem.linked < npages)
    <3>1. mem' = mem /\ Goto(BSP, "sort")
      BY <1>4, <2>4 DEF LinkFreePages
    <3>2. pc'[BSP] = "sort"
      BY <3>1, IrBsp, Zenon
    <3>3. mem.pp1 = <<>> /\ mem.pp2 = <<>> /\ mem.linked \in Nat
      BY <1>1, <2>1, Campos DEF Construccion, Fases
    <3>4. \A p \in 0 .. npages - 1 : p \in 0 .. mem.linked - 1
      BY <1>1, <2>4, <3>3
    <3>5. Repartidas(mem, npages)
      BY <2>2, <3>3, <3>4, PocasPaginas DEF Repartidas
    <3>6. Repartidas(mem, npages)'
      BY <1>2, <3>1, <3>5
    <3>7. Iguales(mem, mem')
      BY <3>1 DEF Iguales
    <3> QED
      BY <1>3, <3>2, <3>6, <3>7 DEF Alcance
  <2> QED
    BY <2>3, <2>4
<1>5. CASE SortFreePages
  <2>1. pc[BSP] = "sort" /\ Repartidas(mem, npages)
    BY <1>5 DEF SortFreePages, Alcance
  <2>2. CASE mem.page_free_list # <<>>
    <3>1. mem' = MovePage(mem) /\ pc' = pc
      BY <1>5, <2>2 DEF SortFreePages
    <3>2. Iguales(mem, mem')
      BY <1>1, <2>2, <3>1, MovePageCampos
    <3>3. Repartidas(MovePage(mem), npages)
      BY <1>1, <2>1, <2>2, MovePageRepartidas
    <3>4. Repartidas(mem, npages)'
      BY <1>2, <3>1, <3>3
    <3> QED
      BY <1>3, <2>1, <3>1, <3>2, <3>4 DEF Alcance
  <2>3. CASE mem.page_free_list = <<>>
    <3>1. mem' = LowFirst(mem) /\ Goto(BSP, "check_free_list")
      BY <1>5, <2>3 DEF SortFreePages
    <3>2. pc'[BSP] = "check_free_list"
      BY <3>1, IrBsp, Zenon
    <3>3. Iguales(mem, mem')
      BY <1>1, <3>1, LowFirstCampos
    <3>4. BajasPrimero(LowFirst(mem))
      BY <1>1, <2>1, <2>3, LowFirstBajas
    <3>5. BajasPrimero(mem)'
      BY <3>1, <3>4
    <3> QED
      BY <1>3, <3>2, <3>3, <3>5 DEF Alcance
  <2> QED
    BY <2>2, <2>3
<1>6. CASE CheckFreeList
  <2>1. pc[BSP] = "check_free_list" /\ mem' = mem /\ BajasPrimero(mem)
    BY <1>6 DEF CheckFreeList, Alcance
  <2>2. pc'[BSP] = IF FreeListPlausible(mem) THEN "map" ELSE "panic"
    BY <1>6, IrBsp, Zenon DEF CheckFreeList
  <2>3. pc'[BSP] \in {"map", "panic"}
    BY <2>2
  <2>4. BajasPrimero(mem)' /\ Iguales(mem, mem')
    BY <2>1 DEF Iguales, BajasPrimero, Faltan
  <2> QED
    BY <1>3, <2>3, <2>4 DEF Alcance
<1> QED
  BY <1>4, <1>5, <1>6

\* A round of boot_map_region, and the assertions behind the last.
LEMMA MapaAlcance ==
    ASSUME Construccion, Alcance, pc \in [HwCPUs -> Lugares], MapRegion \/ CheckKernPgdir
    PROVE  Alcance'
<1>1. /\ pc[BSP] = "map" /\ cr3' = cr3 /\ npages' = npages
  BY DEF MapRegion, CheckKernPgdir, MemUnchanged
<1>2. CASE CheckKernPgdir
  <2>1. mem' = mem
    BY <1>2 DEF CheckKernPgdir
  <2>2. pc'[BSP] = IF KernPgdirPlausible THEN "lcr3" ELSE "panic"
    BY <1>2, IrBsp, Zenon DEF CheckKernPgdir
  <2>3. pc'[BSP] \in {"lcr3", "panic"}
    BY <2>2
  <2> QED
    BY <1>1, <2>1, <2>3, AlcanceQuieto
<1>3. CASE MapRegion
  <2> DEFINE r == Head(regions)
             pte == [page |-> r.pa, w |-> r.w, u |-> r.u]
  <2>1. CASE PgdirWalkFails(mem, r.va)
    <3>1. mem' = mem /\ Goto(BSP, "panic")
      BY <1>3, <2>1 DEF MapRegion, Panics
    <3>2. pc'[BSP] = "panic"
      BY <3>1, IrBsp, Zenon
    <3> QED
      BY <1>1, <3>1, <3>2, AlcanceQuieto
  <2>2. CASE ~PgdirWalkFails(mem, r.va)
    <3>1. mem' = MapPage(mem, r.va, pte) /\ pc' = pc /\ regions # <<>>
      BY <1>3, <2>2 DEF MapRegion
    <3>2. /\ Ordenada(mem, npages) /\ regions \in Seq(Regiones)
          /\ cr3[BSP] = "entry_pgdir" /\ Mapa(BootRegions(mem), mem, regions)
      BY <1>1 DEF Construccion, Memoria, Fases, Ordenada
    <3>3. Asignada(mem)
      BY <1>1, AsignadaYa
    <3>4. Buenas(BootRegions(mem))
      BY <3>3, BootRegionsBuenas
    <3>5. r.va \in Vas /\ r.va \div PT \in Necesarias /\ pte \in Ptes
      BY <3>1, <3>2, <3>4, RegionNecesaria
    <3>6. BajasPrimero(mem) /\ \A p \in DOMAIN mem.table : p < PT
      BY <1>1, <3>2 DEF Alcance
    <3> HIDE DEF r, pte
    <3>7. /\ BajasPrimero(MapPage(mem, r.va, pte))
          /\ \A p \in DOMAIN MapPage(mem, r.va, pte).table : p < PT
      BY <2>2, <3>2, <3>5, <3>6, MapPageBajas
    <3>8. MapPage(mem, r.va, pte).nextfree = mem.nextfree
      BY <2>2, <3>2, <3>5, MapPageParts DEF Fijos
    <3>9. /\ BajasPrimero(mem)' /\ \A p \in DOMAIN mem'.table : p < PT
          /\ mem'.nextfree = mem.nextfree /\ pc'[BSP] = "map"
      BY <1>1, <3>1, <3>7, <3>8
    <3>10. mem'.nextfree <= Reservadas
      BY <3>9 DEF Alcance
    <3> QED
      BY <3>9, <3>10 DEF Alcance
  <2> QED
    BY <2>1, <2>2
<1> QED
  BY <1>2, <1>3

LEMMA InitAlcance == Init => Alcance
<1> SUFFICES ASSUME Init PROVE Alcance
  OBVIOUS
<1>1. mem.nextfree = END /\ DOMAIN mem.table = {} /\ pc[BSP] = "detect"
  BY BspEsCpu DEF Init, EmptyMemory
<1>2. END <= Reservadas
  <2>1. /\ END \in Nat /\ Reservadas \in Nat /\ END + 1 <= Reservadas
    BY Numeros, ReservadasPartes
  <2> HIDE DEF Reservadas
  <2> QED
    BY <2>1
<1> QED
  BY <1>1, <1>2 DEF Alcance

\* The other steps find kern_pgdir loaded, or leave the boot processor and the
\* memory alone.
LEMMA CpuAlcance ==
    ASSUME Construccion, Puesta, Construccion', Alcance, NEW c \in HwCPUs, Cpu(c) \/ Startup(c)
    PROVE  Alcance'
<1>1. /\ pc \in [HwCPUs -> Lugares] /\ cr3 \in [HwCPUs -> {"entry_pgdir", "kern_pgdir", NULL}]
      /\ mem.nextfree <= Reservadas
  BY DEF Puesta, Procesadores, Alcance
<1>2. /\ pc[BSP] \in Asignando \cup Ordenando \cup {"map", "lcr3"} \cup Arrancando \cup Sirviendo
                     \cup {"panic"}
      /\ pc[BSP] \in Arrancando \cup Sirviendo => cr3[BSP] = "kern_pgdir"
  BY DEF Construccion, Fases
<1> HIDE DEF Reservadas
<1>3. CASE c # BSP /\ ~MapLapic(c)
  <2>1. UNCHANGED <<npages, mem>>
    BY <1>3 DEF Cpu, LoadKernPgdir, MemUnchanged, TrapInitPercpu, SetLapic, LockKernel, RunEnv,
                Halt, EntryPgdir, TakeStack, Started, Startup, ApUnchanged, memory
  <2>2. pc' = pc \/ \E p : Goto(c, p)
    BY <1>3 DEF Cpu, LoadKernPgdir, TrapInitPercpu, SetLapic, LockKernel, RunEnv, Halt,
                EntryPgdir, TakeStack, Started, Startup, At
  <2>3. pc'[BSP] = pc[BSP]
    BY <1>1, <1>3, <2>2, BspEsCpu DEF Goto
  <2>4. cr3' = cr3 \/ \E x : cr3' = [cr3 EXCEPT ![c] = x]
    BY <1>3 DEF Cpu, LoadKernPgdir, TrapInitPercpu, SetLapic, LockKernel, RunEnv, Halt,
                EntryPgdir, TakeStack, Started, Startup
  <2>5. cr3'[BSP] = cr3[BSP]
    BY <1>1, <1>3, <2>4, BspEsCpu
  <2> QED
    BY <2>1, <2>3, <2>5, AlcanceQuieto
<1>4. CASE MapLapic(c)
  <2>1. pc[BSP] \in Arrancando \cup Sirviendo
    <3>1. pc[c] = "lapic_map"
      BY <1>4 DEF MapLapic
    <3>2. CASE c = BSP
      BY <3>1, <3>2 DEF Arrancando
    <3>3. CASE c # BSP
      BY <3>1, <3>3 DEF Puesta, Secundario, Viniendo, Sirviendo
    <3> QED
      BY <3>2, <3>3
  <2>2. cr3'[BSP] = "kern_pgdir"
    BY <1>2, <1>4, <2>1 DEF MapLapic
  <2>3. mem'.nextfree = mem.nextfree
    BY <1>4, MapLapicConstruccion
  <2> QED
    BY <1>1, <2>2, <2>3, AlcanceCargado
<1>5. CASE c = BSP /\ LoadKernPgdir(c)
  <2>1. cr3' = [cr3 EXCEPT ![BSP] = "kern_pgdir"] /\ mem' = mem
    BY <1>5 DEF LoadKernPgdir, MemUnchanged
  <2>2. cr3'[BSP] = "kern_pgdir"
    BY <1>1, <2>1, BspEsCpu
  <2> QED
    BY <1>1, <2>1, <2>2, AlcanceCargado
<1>6. CASE c = BSP /\ Startup(c)
  <2>1. UNCHANGED <<npages, mem, cr3>>
    BY <1>6 DEF Startup, ApUnchanged, memory
  <2>2. pc[BSP] # "parked"
    BY <1>2 DEF Asignando, Ordenando, Arrancando, Sirviendo
  <2>3. pc' = pc
    BY <1>6, <2>2 DEF Startup
  <2> QED
    BY <2>1, <2>3, AlcanceQuieto
<1>7. CASE c = BSP /\ Cpu(c) /\ ~MapLapic(c) /\ ~LoadKernPgdir(c)
  <2>1. UNCHANGED mem
    BY <1>7 DEF Cpu, TrapInitPercpu, SetLapic, LockKernel, RunEnv, Halt, EntryPgdir, TakeStack,
                Started, ApUnchanged, memory
  <2>2. pc[BSP] \in {"trap_init", "lapic_set", "lock", "sched", "mpentry", "mpentry_esp", "started"}
    BY <1>7 DEF Cpu, TrapInitPercpu, SetLapic, LockKernel, RunEnv, Halt, EntryPgdir, TakeStack,
                Started, At
  <2>3. pc[BSP] \in {"trap_init", "lapic_set", "lock", "sched"}
    BY <1>2, <2>2 DEF Asignando, Ordenando, Arrancando, Sirviendo
  <2>4. cr3[BSP] = "kern_pgdir"
    BY <1>2, <2>3 DEF Arrancando, Sirviendo
  <2>5. cr3' = cr3
    BY <1>7, <2>3 DEF Cpu, TrapInitPercpu, SetLapic, LockKernel, RunEnv, Halt, EntryPgdir,
                      TakeStack, Started, At
  <2> QED
    BY <1>1, <2>1, <2>4, <2>5, AlcanceCargado
<1> QED
  BY <1>3, <1>4, <1>5, <1>6, <1>7

LEMMA NextAlcance == IInv /\ IInv' /\ Alcance /\ [Next]_vars => Alcance'
<1> SUFFICES ASSUME Construccion, Puesta, Construccion', Alcance, [Next]_vars PROVE Alcance'
  BY DEF IInv
<1>1. pc \in [HwCPUs -> Lugares] /\ mem.nextfree <= Reservadas
  BY DEF Puesta, Procesadores, Alcance
<1>2. CASE MemInit
  BY <1>1, <1>2, AllocAlcance, OrdenandoAlcance, MapaAlcance, Zenon DEF MemInit
<1>3. CASE MpInit \/ BootAps
  <2>1. UNCHANGED <<mem, cr3>>
    BY <1>3 DEF MpInit, MpNoTable, MpTable, MpProc, MpOther, MpUnknown, MpDone, MpUnchanged,
                BootAps, SkipSelf, StartAp, WaitStarted, CreateEnvs, ApUnchanged, memory
  <2>2. pc[BSP] \in {"mp_init", "mp_entry", "boot_aps", "wait"}
    BY <1>3 DEF MpInit, MpNoTable, MpTable, MpProc, MpOther, MpUnknown, MpDone, InTable,
                BootAps, SkipSelf, StartAp, WaitStarted, CreateEnvs, At
  <2>3. cr3[BSP] = "kern_pgdir"
    BY <2>2 DEF Construccion, Fases, Arrancando, Sirviendo
  <2> QED
    BY <1>1, <2>1, <2>3, AlcanceCargado
<1>4. ASSUME NEW c \in HwCPUs, Cpu(c) \/ Startup(c) PROVE Alcance'
  BY <1>4, CpuAlcance
<1>5. CASE UNCHANGED vars
  BY <1>5, AlcanceQuieto DEF vars
<1> QED
  BY <1>2, <1>3, <1>4, <1>5 DEF Next

\* check_page_free_list (pmap.c:703): up to the lcr3 of mem_init the kernel only
\* writes to memory that entry_pgdir maps, on any machine; LowMemory says that
\* there is enough of it.
THEOREM WritesReachableTheorem == Spec => []WritesReachable
<1>1. Init => Alcance
  BY InitAlcance
<1>2. IInv /\ IInv' /\ Alcance /\ [Next]_vars => Alcance'
  BY NextAlcance
<1>3. IInv /\ Alcance => WritesReachable
  <2> SUFFICES ASSUME IInv, Alcance, cr3[BSP] = "entry_pgdir"
               PROVE  (\A p \in DOMAIN mem.table : InEntryPgdir(p)) /\ mem.nextfree <= PT
    BY DEF WritesReachable
  <2>1. \A p \in DOMAIN mem.table : p < PT
    BY DEF Alcance
  <2>2. mem.nextfree <= Reservadas
    BY DEF Alcance
  <2>3. Reservadas <= PT
    BY LowMemory DEF Reservadas
  <2>4. mem.nextfree \in Nat
    BY Campos DEF IInv, Construccion, Memoria
  <2>5. PT \in Nat /\ 0 \in Nat /\ 0 <= KERN_PAGES
    BY Numeros
  <2>6. Reservadas \in Nat
    BY <2>5, ReservadasPartes
  <2> HIDE DEF Reservadas
  <2>7. mem.nextfree <= PT
    BY <2>2, <2>3, <2>4, <2>5, <2>6
  <2> QED
    BY <2>1, <2>7 DEF InEntryPgdir
<1> QED
  BY <1>1, <1>2, <1>3, InvariantTheorem, PTL DEF Spec
=============================================================================
