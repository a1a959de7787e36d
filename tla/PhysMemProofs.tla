---------------------------- MODULE PhysMemProofs ----------------------------
(***************************************************************************)
(* Proofs about PhysMem, for any number of pages, environments and CPUs    *)
(* and any shape of the page tables, as long as no page's count is at its  *)
(* limit (SinVuelta): pp_ref has 16 bits and nothing bounds the mappings   *)
(* of a page.                                                              *)
(*                                                                         *)
(* The functions of pmap.c are followed one by one, on a memory m and a    *)
(* map d from environments to page directories.  Between two of them a     *)
(* page may be counted and not yet mapped: x is that page, or NULO.        *)
(***************************************************************************)
EXTENDS PhysMem, FiniteSetTheorems, TLAPS

Marcos   == [Pages -> [Indices -> Entrada \cup {NULO}]]
Memorias == [pp_ref : [Pages -> 0 .. REF_MOD - 1], page_free_list : Seq(Pages),
             marco : Marcos, tlb : [CPUs -> SUBSET VAs]]
Pgdirs   == [Envs -> Pages \cup {NULO}]

Apunta(marco, q, i, p) == marco[q][i] # NULO /\ marco[q][i].pagina = p
Refs(marco, p) == {y \in Pages \X Indices : Apunta(marco, y[1], y[2], p)}
Dirs(d, p)     == {e \in Envs : d[e] = p}
EsDir(d, p)    == \E e \in Envs : d[e] = p
EsTab(marco, d, p) == \E q \in Pages, i \in Indices : EsDir(d, q) /\ Apunta(marco, q, i, p)

\* Only directories and tables have entries; a directory belongs to one
\* environment and no entry points to it; a table has one entry that does.
Forma(marco, d) ==
    /\ \A p \in Pages, i \in Indices : marco[p][i] # NULO =>
            \/ EsDir(d, p) /\ i < NPD
            \/ EsTab(marco, d, p) /\ i < NPT
    /\ \A e, f \in Envs : d[e] = d[f] /\ d[e] # NULO => e = f
    /\ \A p, q \in Pages, i \in Indices : Apunta(marco, q, i, p) => ~EsDir(d, p)
    /\ \A p, q, r \in Pages, i, j \in Indices :
            Apunta(marco, q, i, p) /\ EsDir(d, q) /\ Apunta(marco, r, j, p) => r = q /\ j = i

Cuenta(marco, d, p) == Cardinality(Refs(marco, p)) + Cardinality(Dirs(d, p))

\* The directories, the frames and a memory, with one entry written.
PonDir(d, e, g)      == [d EXCEPT ![e] = g]
Pon(marco, q, i, v)  == [marco EXCEPT ![q][i] = v]
PonMem(m, q, i, v)   == [m EXCEPT !.marco[q][i] = v]

Contada(m, d, x) ==
    \A p \in Pages : m.pp_ref[p] = Cuenta(m.marco, d, p) + (IF p = x THEN 1 ELSE 0)

EnSeq(s, p)  == \E k \in DOMAIN s : s[k] = p
Distintas(s) == \A j, k \in DOMAIN s : s[j] = s[k] => j = k

Buena(m, d, x) ==
    /\ m \in Memorias /\ d \in Pgdirs /\ x \in Pages \cup {NULO}
    /\ Forma(m.marco, d)
    /\ Contada(m, d, x)
    /\ Distintas(m.page_free_list)
    /\ \A p \in Pages : EnSeq(m.page_free_list, p) => m.pp_ref[p] = 0

-----------------------------------------------------------------------------
\* The free list.

LEMMA TailParts ==
    ASSUME NEW s \in Seq(Pages), s # <<>>, Distintas(s)
    PROVE  /\ Head(s) \in Pages /\ Tail(s) \in Seq(Pages) /\ Distintas(Tail(s))
           /\ EnSeq(s, Head(s))
           /\ \A p : EnSeq(Tail(s), p) <=> EnSeq(s, p) /\ p # Head(s)
<1>1. /\ Len(s) \in Nat /\ Len(s) >= 1 /\ DOMAIN s = 1 .. Len(s)
      /\ Head(s) = s[1] /\ Tail(s) \in Seq(Pages)
      /\ DOMAIN Tail(s) = 1 .. Len(s) - 1
      /\ \A k \in 1 .. Len(s) - 1 : Tail(s)[k] = s[k + 1]
  OBVIOUS
<1>2. Distintas(Tail(s))
  BY <1>1 DEF Distintas
<1>3. ASSUME NEW p, EnSeq(Tail(s), p) PROVE EnSeq(s, p) /\ p # Head(s)
  <2>1. PICK k \in 1 .. Len(s) - 1 : s[k + 1] = p
    BY <1>1, <1>3 DEF EnSeq
  <2> QED
    BY <1>1, <2>1 DEF EnSeq, Distintas
<1>4. ASSUME NEW p, EnSeq(s, p), p # Head(s) PROVE EnSeq(Tail(s), p)
  <2>1. PICK k \in 1 .. Len(s) : s[k] = p
    BY <1>1, <1>4 DEF EnSeq
  <2>2. k - 1 \in 1 .. Len(s) - 1 /\ Tail(s)[k - 1] = p
    BY <1>1, <1>4, <2>1
  <2> QED
    BY <1>1, <2>2 DEF EnSeq
<1>5. EnSeq(s, Head(s)) /\ Head(s) \in Pages
  BY <1>1 DEF EnSeq
<1> QED
  BY <1>1, <1>2, <1>3, <1>4, <1>5

LEMMA ConsParts ==
    ASSUME NEW s \in Seq(Pages), NEW p \in Pages, Distintas(s), ~EnSeq(s, p)
    PROVE  /\ <<p>> \o s \in Seq(Pages) /\ Distintas(<<p>> \o s) /\ <<p>> \o s # <<>>
           /\ \A q : EnSeq(<<p>> \o s, q) <=> EnSeq(s, q) \/ q = p
<1> DEFINE t == <<p>> \o s
<1>1. /\ Len(s) \in Nat /\ DOMAIN s = 1 .. Len(s)
      /\ t \in Seq(Pages) /\ DOMAIN t = 1 .. Len(s) + 1
      /\ t[1] = p /\ \A k \in 1 .. Len(s) : t[k + 1] = s[k]
  OBVIOUS
<1>2. \A k \in 2 .. Len(s) + 1 : k - 1 \in 1 .. Len(s) /\ t[k] = s[k - 1]
  BY <1>1
<1> HIDE DEF t
<1>3. Distintas(t)
  <2> SUFFICES ASSUME NEW j \in 1 .. Len(s) + 1, NEW k \in 1 .. Len(s) + 1, t[j] = t[k]
               PROVE  j = k
    BY <1>1 DEF Distintas
  <2>1. j = 1 \/ j \in 2 .. Len(s) + 1
    BY <1>1
  <2>2. k = 1 \/ k \in 2 .. Len(s) + 1
    BY <1>1
  <2>3. ASSUME NEW i \in 2 .. Len(s) + 1 PROVE t[i] # p
    <3>1. i - 1 \in DOMAIN s /\ t[i] = s[i - 1]
      BY <1>1, <1>2
    <3> QED
      BY <3>1 DEF EnSeq
  <2>4. CASE j = 1 \/ k = 1
    BY <1>1, <2>1, <2>2, <2>3, <2>4
  <2>5. CASE j # 1 /\ k # 1
    BY <1>1, <1>2, <2>1, <2>2, <2>5 DEF Distintas
  <2> QED
    BY <2>4, <2>5
<1>4. \A q : EnSeq(t, q) => EnSeq(s, q) \/ q = p
  <2> SUFFICES ASSUME NEW k \in 1 .. Len(s) + 1, t[k] # p PROVE EnSeq(s, t[k])
    BY <1>1 DEF EnSeq
  <2>1. k \in 2 .. Len(s) + 1
    BY <1>1
  <2> QED
    BY <1>1, <1>2, <2>1 DEF EnSeq
<1>5. \A q : EnSeq(s, q) \/ q = p => EnSeq(t, q)
  <2>1. EnSeq(t, p)
    BY <1>1 DEF EnSeq
  <2>2. ASSUME NEW k \in 1 .. Len(s) PROVE EnSeq(t, s[k])
    BY <1>1 DEF EnSeq
  <2> QED
    BY <1>1, <2>1, <2>2 DEF EnSeq
<1>6. t # <<>>
  BY <1>1
<1> QED
  BY <1>1, <1>3, <1>4, <1>5, <1>6 DEF t

-----------------------------------------------------------------------------
\* The operators of pmap.c, field by field.

LEMMA Constantes ==
    /\ NULO \notin Pages /\ NULO \notin Envs /\ NULO \notin CPUs
    /\ NULO \notin Entrada /\ NULO \notin VAs
    /\ VACIO \in [Indices -> Entrada \cup {NULO}]
    /\ 0 .. NPD - 1 \subseteq Indices /\ 0 .. NPT - 1 \subseteq Indices
    /\ \A va \in VAs : va[1] \in Indices /\ va[2] \in Indices
                        /\ va[1] \in 0 .. NPD - 1 /\ va[2] \in 0 .. NPT - 1
    /\ Indices \subseteq Nat
BY PhysMemAssumption DEF VACIO, Indices, VAs

LEMMA Modulo ==
    /\ \A a \in 1 .. REF_MOD - 1 : (a + REF_MOD - 1) % REF_MOD = a - 1
    /\ \A a \in 0 .. REF_MOD - 1 : a + 1 < REF_MOD => (a + 1) % REF_MOD = a + 1
<1>1. ASSUME NEW a \in 1 .. REF_MOD - 1 PROVE (a + REF_MOD - 1) % REF_MOD = a - 1
  BY PhysMemAssumption
<1>2. ASSUME NEW a \in 0 .. REF_MOD - 1, a + 1 < REF_MOD PROVE (a + 1) % REF_MOD = a + 1
  BY <1>2, PhysMemAssumption
<1> QED
  BY <1>1, <1>2

LEMMA AllocCampos ==
    ASSUME NEW m \in Memorias, HayLibre(m)
    PROVE  LET n == PageAlloc(m)
           IN  /\ Primera(m) \in Pages
               /\ n \in Memorias /\ n.pp_ref = m.pp_ref /\ n.tlb = m.tlb
               /\ n.page_free_list = Tail(m.page_free_list)
               /\ n.marco = [m.marco EXCEPT ![Primera(m)] = VACIO]
<1>1. Head(m.page_free_list) \in Pages /\ Tail(m.page_free_list) \in Seq(Pages)
  BY DEF HayLibre, Memorias
<1> QED
  BY <1>1, Constantes DEF PageAlloc, Primera, Memorias, Marcos

LEMMA IncrefCampos ==
    ASSUME NEW m \in Memorias, NEW p \in Pages
    PROVE  LET n == PageIncref(m, p)
           IN  /\ n \in Memorias /\ n.marco = m.marco /\ n.tlb = m.tlb
               /\ n.page_free_list = m.page_free_list
               /\ n.pp_ref = [m.pp_ref EXCEPT ![p] = (@ + 1) % REF_MOD]
<1>1. m.pp_ref[p] \in Nat /\ (m.pp_ref[p] + 1) % REF_MOD \in 0 .. REF_MOD - 1
  BY PhysMemAssumption DEF Memorias
<1> QED
  BY <1>1 DEF PageIncref, Memorias

LEMMA DecrefCampos ==
    ASSUME NEW m \in Memorias, NEW p \in Pages
    PROVE  LET n == PageDecref(m, p)
           IN  /\ n \in Memorias /\ n.marco = m.marco /\ n.tlb = m.tlb
               /\ n.pp_ref = [m.pp_ref EXCEPT ![p] = (@ + REF_MOD - 1) % REF_MOD]
               /\ n.page_free_list = IF n.pp_ref[p] = 0
                                     THEN <<p>> \o m.page_free_list ELSE m.page_free_list
<1>1. (m.pp_ref[p] + REF_MOD - 1) % REF_MOD \in 0 .. REF_MOD - 1
  BY PhysMemAssumption DEF Memorias
<1>2. <<p>> \o m.page_free_list \in Seq(Pages)
  BY DEF Memorias
<1> QED
  BY <1>1, <1>2 DEF PageDecref, PageFree, Memorias

LEMMA EscribeCampos ==
    ASSUME NEW m \in Memorias, NEW q \in Pages, NEW i \in Indices, NEW v \in Entrada \cup {NULO}
    PROVE  LET n == PonMem(m, q, i, v)
           IN  /\ n \in Memorias /\ n.pp_ref = m.pp_ref /\ n.tlb = m.tlb
               /\ n.page_free_list = m.page_free_list
               /\ n.marco = Pon(m.marco, q, i, v)
BY DEF Memorias, Marcos, Pon, PonMem

LEMMA TlbCampos ==
    ASSUME NEW m \in Memorias, NEW c \in CPUs, NEW g, NEW va \in VAs
    PROVE  LET n == TlbInvalidate(m, c, g, va)
           IN  /\ n \in Memorias /\ n.pp_ref = m.pp_ref /\ n.marco = m.marco
               /\ n.page_free_list = m.page_free_list
               /\ \A k \in CPUs : k = c \/ cr3[k] # g => n.tlb[k] = m.tlb[k]
BY DEF TlbInvalidate, Memorias

LEMMA RetornaCampos ==
    ASSUME NEW m \in Memorias, NEW c \in CPUs
    PROVE  LET n == [m EXCEPT !.tlb[c] = {}]
           IN  /\ n \in Memorias /\ n.pp_ref = m.pp_ref /\ n.marco = m.marco
               /\ n.page_free_list = m.page_free_list
               /\ \A k \in CPUs : n.tlb[k] \subseteq m.tlb[k]
BY DEF Memorias

-----------------------------------------------------------------------------
\* Counting the entries that point to a page.

LEMMA Finitos ==
    ASSUME NEW marco, NEW d, NEW p
    PROVE  /\ IsFiniteSet(Refs(marco, p)) /\ Cardinality(Refs(marco, p)) \in Nat
           /\ IsFiniteSet(Dirs(d, p)) /\ Cardinality(Dirs(d, p)) \in Nat
           /\ Cuenta(marco, d, p) \in Nat
<1>1. IsFiniteSet(Indices)
  <2>1. IsFiniteSet(0 .. NPD - 1) /\ IsFiniteSet(0 .. NPT - 1)
    BY FS_Interval, PhysMemAssumption
  <2> QED
    BY <2>1 DEF Indices
<1>2. IsFiniteSet(Pages \X Indices)
  BY <1>1, PhysMemAssumption, FS_Product
<1>3. IsFiniteSet(Refs(marco, p))
  BY <1>2, FS_Subset DEF Refs
<1>4. IsFiniteSet(Dirs(d, p))
  BY PhysMemAssumption, FS_Subset DEF Dirs
<1>5. Cardinality(Refs(marco, p)) \in Nat /\ Cardinality(Dirs(d, p)) \in Nat
  BY <1>3, <1>4, FS_CardinalityType
<1> QED
  BY <1>3, <1>4, <1>5 DEF Cuenta

\* A page that has no count is in no entry and is no directory.
LEMMA SinReferencias ==
    ASSUME NEW marco, NEW d, NEW p
    PROVE  /\ Cuenta(marco, d, p) = 0 <=> Refs(marco, p) = {} /\ Dirs(d, p) = {}
           /\ Refs(marco, p) = {} <=> \A q \in Pages, i \in Indices : ~Apunta(marco, q, i, p)
           /\ Dirs(d, p) = {} <=> ~EsDir(d, p)
<1>1. Cardinality(Refs(marco, p)) = 0 <=> Refs(marco, p) = {}
  BY Finitos, FS_EmptySet
<1>2. Cardinality(Dirs(d, p)) = 0 <=> Dirs(d, p) = {}
  BY Finitos, FS_EmptySet
<1>3. Cuenta(marco, d, p) = 0 <=> Refs(marco, p) = {} /\ Dirs(d, p) = {}
  BY <1>1, <1>2, Finitos DEF Cuenta
<1>4. Refs(marco, p) = {} <=> \A q \in Pages, i \in Indices : ~Apunta(marco, q, i, p)
  <2>1. ASSUME NEW q \in Pages, NEW i \in Indices, Apunta(marco, q, i, p)
        PROVE  <<q, i>> \in Refs(marco, p)
    BY <2>1 DEF Refs
  <2> QED
    BY <2>1 DEF Refs
<1> QED
  BY <1>3, <1>4 DEF Dirs, EsDir

\* Filling an entry that is empty, and emptying one.
LEMMA PonCuenta ==
    ASSUME NEW marco \in Marcos, NEW d, NEW q \in Pages, NEW i \in Indices,
           NEW v \in Entrada, marco[q][i] = NULO, NEW p \in Pages
    PROVE  Cuenta(Pon(marco, q, i, v), d, p) =
                Cuenta(marco, d, p) + (IF p = v.pagina THEN 1 ELSE 0)
<1> DEFINE n == Pon(marco, q, i, v)
<1>1. \A r \in Pages, j \in Indices : Apunta(n, r, j, p) <=>
            Apunta(marco, r, j, p) \/ (r = q /\ j = i /\ p = v.pagina)
  BY Constantes DEF Apunta, Marcos, Pon
<1> HIDE DEF n
<1>2. CASE p = v.pagina
  <2>1. Refs(n, p) = Refs(marco, p) \cup {<<q, i>>}
    BY <1>1, <1>2 DEF Refs
  <2>2. <<q, i>> \notin Refs(marco, p)
    BY DEF Refs, Apunta
  <2>3. Cardinality(Refs(n, p)) = Cardinality(Refs(marco, p)) + 1
    BY <2>1, <2>2, Finitos, FS_AddElement
  <2> QED
    BY <1>2, <2>3, Finitos DEF Cuenta, n
<1>3. CASE p # v.pagina
  <2>1. Refs(n, p) = Refs(marco, p)
    BY <1>1, <1>3 DEF Refs
  <2> QED
    BY <1>3, <2>1, Finitos DEF Cuenta, n
<1> QED
  BY <1>2, <1>3

LEMMA QuitaCuenta ==
    ASSUME NEW marco \in Marcos, NEW d, NEW q \in Pages, NEW i \in Indices,
           marco[q][i] # NULO, NEW p \in Pages
    PROVE  Cuenta(marco, d, p) = Cuenta(Pon(marco, q, i, NULO), d, p)
                                    + (IF p = marco[q][i].pagina THEN 1 ELSE 0)
<1> DEFINE n == Pon(marco, q, i, NULO)
           v == marco[q][i]
<1>1. n \in Marcos /\ n[q][i] = NULO /\ v \in Entrada
  BY DEF Marcos, Pon
<1>2. marco = Pon(n, q, i, v)
  BY DEF Marcos, Pon
<1> HIDE DEF n, v
<1>3. Cuenta(Pon(n, q, i, v), d, p) = Cuenta(n, d, p) + (IF p = v.pagina THEN 1 ELSE 0)
  BY <1>1, PonCuenta
<1> QED
  BY <1>2, <1>3 DEF n, v

\* The same for a directory that an environment receives, and gives up.
LEMMA DirCuenta ==
    ASSUME NEW marco, NEW d \in Pgdirs, NEW e \in Envs, d[e] = NULO,
           NEW g \in Pages, NEW p \in Pages
    PROVE  Cuenta(marco, PonDir(d, e, g), p) =
                Cuenta(marco, d, p) + (IF p = g THEN 1 ELSE 0)
<1> DEFINE n == PonDir(d, e, g)
<1>1. \A f \in Envs : n[f] = IF f = e THEN g ELSE d[f]
  BY DEF Pgdirs, PonDir
<1> HIDE DEF n
<1>2. CASE p = g
  <2>1. Dirs(n, p) = Dirs(d, p) \cup {e} /\ e \notin Dirs(d, p)
    BY <1>1, <1>2, Constantes DEF Dirs
  <2>2. Cardinality(Dirs(n, p)) = Cardinality(Dirs(d, p)) + 1
    BY <2>1, Finitos, FS_AddElement
  <2> QED
    BY <1>2, <2>2, Finitos DEF Cuenta, n
<1>3. CASE p # g
  <2>1. Dirs(n, p) = Dirs(d, p)
    BY <1>1, <1>3, Constantes DEF Dirs
  <2> QED
    BY <1>3, <2>1, Finitos DEF Cuenta, n
<1> QED
  BY <1>2, <1>3

LEMMA SinDirCuenta ==
    ASSUME NEW marco, NEW d \in Pgdirs, NEW e \in Envs, d[e] # NULO, NEW p \in Pages
    PROVE  Cuenta(marco, d, p) =
                Cuenta(marco, PonDir(d, e, NULO), p) + (IF p = d[e] THEN 1 ELSE 0)
<1>1. PonDir(d, e, NULO) \in Pgdirs /\ d[e] \in Pages
  BY DEF Pgdirs, PonDir
<1>2. PICK n \in Pgdirs : n = PonDir(d, e, NULO)
  BY <1>1
<1>3. n[e] = NULO /\ d = PonDir(n, e, d[e])
  BY <1>2 DEF Pgdirs, PonDir
<1>4. Cuenta(marco, PonDir(n, e, d[e]), p) =
            Cuenta(marco, n, p) + (IF p = d[e] THEN 1 ELSE 0)
  BY <1>1, <1>2, <1>3, DirCuenta
<1> QED
  BY <1>2, <1>3, <1>4

-----------------------------------------------------------------------------
\* The shape of the page tables.  A write of a pte leaves it as it was; so does
\* one of a pde whose table is empty and in no other entry.

\* An entry of a table leads to a page that is neither a directory nor a table.
LEMMA PaginaDeDatos ==
    ASSUME NEW marco \in Marcos, NEW d \in Pgdirs, Forma(marco, d),
           NEW q \in Pages, NEW i \in Indices, NEW p \in Pages,
           EsTab(marco, d, q), Apunta(marco, q, i, p)
    PROVE  ~EsDir(d, q) /\ ~EsDir(d, p) /\ ~EsTab(marco, d, p)
<1>1. ~EsDir(d, q)
  BY DEF Forma, EsTab
<1>2. ~EsDir(d, p)
  BY DEF Forma
<1>3. ~EsTab(marco, d, p)
  BY <1>1 DEF Forma, EsTab
<1> QED
  BY <1>1, <1>2, <1>3

LEMMA FormaPte ==
    ASSUME NEW marco \in Marcos, NEW d \in Pgdirs, Forma(marco, d),
           NEW q \in Pages, NEW i \in Indices, i < NPT, EsTab(marco, d, q),
           NEW v \in Entrada \cup {NULO},
           v # NULO => ~EsDir(d, v.pagina) /\ ~EsTab(marco, d, v.pagina)
    PROVE  /\ Forma(Pon(marco, q, i, v), d)
           /\ \A p \in Pages : EsTab(Pon(marco, q, i, v), d, p) <=> EsTab(marco, d, p)
<1> DEFINE n == Pon(marco, q, i, v)
<1>1. \A r \in Pages, j \in Indices : n[r][j] = IF r = q /\ j = i THEN v ELSE marco[r][j]
  BY DEF Marcos, Pon
<1>2. ~EsDir(d, q)
  BY DEF Forma, EsTab
<1> HIDE DEF n
<1>3. \A p \in Pages, r \in Pages, j \in Indices :
        Apunta(n, r, j, p) <=> IF r = q /\ j = i THEN v # NULO /\ v.pagina = p
                                                 ELSE Apunta(marco, r, j, p)
  BY <1>1 DEF Apunta
<1>4. ASSUME NEW p \in Pages PROVE EsTab(n, d, p) <=> EsTab(marco, d, p)
  BY <1>2, <1>3 DEF EsTab
<1>5. ASSUME NEW p \in Pages, NEW j \in Indices, n[p][j] # NULO
      PROVE  (EsDir(d, p) /\ j < NPD) \/ (EsTab(n, d, p) /\ j < NPT)
  BY <1>1, <1>4, <1>5 DEF Forma
<1>6. ASSUME NEW p \in Pages, NEW r \in Pages, NEW j \in Indices, Apunta(n, r, j, p)
      PROVE  ~EsDir(d, p)
  BY <1>3, <1>6 DEF Forma
<1>7. ASSUME NEW p \in Pages, NEW r \in Pages, NEW s \in Pages, NEW j \in Indices, NEW k \in Indices,
             Apunta(n, r, j, p), EsDir(d, r), Apunta(n, s, k, p)
      PROVE  s = r /\ k = j
  <2>1. Apunta(marco, r, j, p) /\ EsTab(marco, d, p)
    BY <1>2, <1>3, <1>7 DEF EsTab
  <2>2. Apunta(marco, s, k, p)
    BY <1>3, <1>7, <2>1
  <2> QED
    BY <1>7, <2>1, <2>2 DEF Forma
<1> QED
  BY <1>4, <1>5, <1>6, <1>7 DEF Forma, n

LEMMA FormaPde ==
    ASSUME NEW marco \in Marcos, NEW d \in Pgdirs, Forma(marco, d),
           NEW g \in Pages, NEW i \in Indices, i < NPD, EsDir(d, g), marco[g][i] = NULO,
           NEW v \in Entrada, ~EsDir(d, v.pagina),
           \A j \in Indices : marco[v.pagina][j] = NULO,
           \A r \in Pages, j \in Indices : ~Apunta(marco, r, j, v.pagina)
    PROVE  LET n == Pon(marco, g, i, v)
           IN  /\ Forma(n, d)
               /\ \A p \in Pages : EsTab(n, d, p) <=> EsTab(marco, d, p) \/ p = v.pagina
<1> DEFINE n == Pon(marco, g, i, v)
<1>1. \A r \in Pages, j \in Indices : n[r][j] = IF r = g /\ j = i THEN v ELSE marco[r][j]
  BY DEF Marcos, Pon
<1>2. v # NULO /\ v.pagina \in Pages
  BY Constantes DEF Entrada
<1> HIDE DEF n
<1>3. \A p \in Pages, r \in Pages, j \in Indices :
        Apunta(n, r, j, p) <=> IF r = g /\ j = i THEN v.pagina = p ELSE Apunta(marco, r, j, p)
  BY <1>1, <1>2 DEF Apunta
<1>4. ASSUME NEW p \in Pages PROVE EsTab(n, d, p) <=> EsTab(marco, d, p) \/ p = v.pagina
  <2>1. ~Apunta(marco, g, i, p)
    BY DEF Apunta
  <2> QED
    BY <1>3, <2>1 DEF EsTab
<1>5. ASSUME NEW p \in Pages, NEW j \in Indices, n[p][j] # NULO
      PROVE  (EsDir(d, p) /\ j < NPD) \/ (EsTab(n, d, p) /\ j < NPT)
  BY <1>1, <1>4, <1>5 DEF Forma
<1>6. ASSUME NEW p \in Pages, NEW r \in Pages, NEW j \in Indices, Apunta(n, r, j, p)
      PROVE  ~EsDir(d, p)
  BY <1>3, <1>6 DEF Forma
<1>7. ASSUME NEW p \in Pages, NEW r \in Pages, NEW s \in Pages, NEW j \in Indices, NEW k \in Indices,
             Apunta(n, r, j, p), EsDir(d, r), Apunta(n, s, k, p)
      PROVE  s = r /\ k = j
  <2>1. CASE p = v.pagina
    BY <1>2, <1>3, <1>7, <2>1
  <2>2. CASE p # v.pagina
    <3>1. Apunta(marco, r, j, p) /\ Apunta(marco, s, k, p)
      BY <1>3, <1>7, <2>2
    <3> QED
      BY <1>7, <3>1 DEF Forma
  <2> QED
    BY <2>1, <2>2
<1> QED
  BY <1>4, <1>5, <1>6, <1>7 DEF Forma, n

LEMMA FormaSinPde ==
    ASSUME NEW marco \in Marcos, NEW d \in Pgdirs, Forma(marco, d),
           NEW g \in Pages, NEW i \in Indices, EsDir(d, g), marco[g][i] # NULO,
           \A j \in Indices : marco[marco[g][i].pagina][j] = NULO
    PROVE  Forma(Pon(marco, g, i, NULO), d)
<1> DEFINE n == Pon(marco, g, i, NULO)
           t == marco[g][i].pagina
<1>1. \A r \in Pages, j \in Indices : n[r][j] = IF r = g /\ j = i THEN NULO ELSE marco[r][j]
  BY DEF Marcos, Pon
<1>2. t \in Pages /\ Apunta(marco, g, i, t) /\ \A j \in Indices : marco[t][j] = NULO
  BY DEF Apunta, Marcos, Entrada
<1> HIDE DEF n, t
<1>3. \A p \in Pages, r \in Pages, j \in Indices :
        Apunta(n, r, j, p) <=> Apunta(marco, r, j, p) /\ ~(r = g /\ j = i)
  BY <1>1 DEF Apunta
<1>4. ASSUME NEW p \in Pages, EsTab(marco, d, p), p # t PROVE EsTab(n, d, p)
  <2>1. PICK r \in Pages, j \in Indices : EsDir(d, r) /\ Apunta(marco, r, j, p)
    BY <1>4 DEF EsTab
  <2>2. ~(r = g /\ j = i)
    BY <1>2, <1>4, <2>1 DEF Apunta
  <2> QED
    BY <1>3, <2>1, <2>2 DEF EsTab
<1>5. ASSUME NEW p \in Pages, NEW j \in Indices, n[p][j] # NULO
      PROVE  (EsDir(d, p) /\ j < NPD) \/ (EsTab(n, d, p) /\ j < NPT)
  <2>1. marco[p][j] # NULO /\ p # t
    BY <1>1, <1>2, <1>5
  <2> QED
    BY <1>4, <2>1 DEF Forma
<1>6. ASSUME NEW p \in Pages, NEW r \in Pages, NEW j \in Indices, Apunta(n, r, j, p)
      PROVE  ~EsDir(d, p)
  BY <1>3, <1>6 DEF Forma
<1>7. ASSUME NEW p \in Pages, NEW r \in Pages, NEW s \in Pages, NEW j \in Indices, NEW k \in Indices,
             Apunta(n, r, j, p), EsDir(d, r), Apunta(n, s, k, p)
      PROVE  s = r /\ k = j
  BY <1>3, <1>7 DEF Forma
<1> QED
  BY <1>5, <1>6, <1>7 DEF Forma, n

\* A directory that an environment receives, and gives up, is empty.
LEMMA FormaDir ==
    ASSUME NEW marco \in Marcos, NEW d \in Pgdirs, Forma(marco, d),
           NEW e \in Envs, d[e] = NULO, NEW g \in Pages, ~EsDir(d, g),
           \A j \in Indices : marco[g][j] = NULO,
           \A r \in Pages, j \in Indices : ~Apunta(marco, r, j, g)
    PROVE  Forma(marco, PonDir(d, e, g))
<1> DEFINE n == PonDir(d, e, g)
<1>1. \A f \in Envs : n[f] = IF f = e THEN g ELSE d[f]
  BY DEF Pgdirs, PonDir
<1> HIDE DEF n
<1>2. \A p \in Pages : EsDir(n, p) <=> EsDir(d, p) \/ p = g
  BY <1>1, Constantes DEF EsDir
<1>3. \A j \in Indices, p \in Pages : ~Apunta(marco, g, j, p)
  BY DEF Apunta
<1>4. \A p \in Pages : EsTab(marco, n, p) <=> EsTab(marco, d, p)
  BY <1>2, <1>3 DEF EsTab
<1>5. ASSUME NEW p \in Pages, NEW j \in Indices, marco[p][j] # NULO
      PROVE  (EsDir(n, p) /\ j < NPD) \/ (EsTab(marco, n, p) /\ j < NPT)
  BY <1>2, <1>4, <1>5 DEF Forma
<1>6. ASSUME NEW f \in Envs, NEW h \in Envs, n[f] = n[h], n[f] # NULO PROVE f = h
  BY <1>1, <1>6 DEF Forma, EsDir
<1>7. ASSUME NEW p \in Pages, NEW r \in Pages, NEW j \in Indices, Apunta(marco, r, j, p)
      PROVE  ~EsDir(n, p)
  BY <1>2, <1>7 DEF Forma
<1>8. ASSUME NEW p \in Pages, NEW r \in Pages, NEW s \in Pages, NEW j \in Indices, NEW k \in Indices,
             Apunta(marco, r, j, p), EsDir(n, r), Apunta(marco, s, k, p)
      PROVE  s = r /\ k = j
  BY <1>2, <1>3, <1>8 DEF Forma
<1> QED
  BY <1>5, <1>6, <1>7, <1>8 DEF Forma, n

LEMMA FormaSinDir ==
    ASSUME NEW marco \in Marcos, NEW d \in Pgdirs, Forma(marco, d),
           NEW e \in Envs, d[e] # NULO, \A j \in Indices : marco[d[e]][j] = NULO
    PROVE  Forma(marco, PonDir(d, e, NULO))
<1> DEFINE n == PonDir(d, e, NULO)
<1>1. \A f \in Envs : n[f] = IF f = e THEN NULO ELSE d[f]
  BY DEF Pgdirs, PonDir
<1> HIDE DEF n
<1>2. \A p \in Pages : EsDir(n, p) <=> EsDir(d, p) /\ p # d[e]
  BY <1>1, Constantes DEF EsDir, Forma
<1>3. \A j \in Indices, p \in Pages : ~Apunta(marco, d[e], j, p)
  BY DEF Apunta
<1>4. \A p \in Pages : EsTab(marco, n, p) <=> EsTab(marco, d, p)
  BY <1>2, <1>3 DEF EsTab
<1>5. ASSUME NEW p \in Pages, NEW j \in Indices, marco[p][j] # NULO
      PROVE  (EsDir(n, p) /\ j < NPD) \/ (EsTab(marco, n, p) /\ j < NPT)
  BY <1>2, <1>4, <1>5 DEF Forma
<1>6. ASSUME NEW f \in Envs, NEW h \in Envs, n[f] = n[h], n[f] # NULO PROVE f = h
  BY <1>1, <1>6 DEF Forma
<1>7. ASSUME NEW p \in Pages, NEW r \in Pages, NEW j \in Indices, Apunta(marco, r, j, p)
      PROVE  ~EsDir(n, p)
  BY <1>2, <1>7 DEF Forma
<1>8. ASSUME NEW p \in Pages, NEW r \in Pages, NEW s \in Pages, NEW j \in Indices, NEW k \in Indices,
             Apunta(marco, r, j, p), EsDir(n, r), Apunta(marco, s, k, p)
      PROVE  s = r /\ k = j
  BY <1>2, <1>8 DEF Forma
<1> QED
  BY <1>5, <1>6, <1>7, <1>8 DEF Forma, n

-----------------------------------------------------------------------------
\* The allocator on a good memory.

\* A page with no count is not in use.
LEMMA SinCuenta ==
    ASSUME NEW m, NEW d, NEW x, Buena(m, d, x), NEW p \in Pages, m.pp_ref[p] = 0
    PROVE  /\ p # x /\ m.marco[p] = VACIO /\ \A j \in Indices : m.marco[p][j] = NULO
           /\ \A q \in Pages, i \in Indices : ~Apunta(m.marco, q, i, p)
           /\ ~EsDir(d, p) /\ ~EsTab(m.marco, d, p)
<1>1. Cuenta(m.marco, d, p) = 0 /\ p # x
  BY Finitos DEF Buena, Contada
<1>2. (\A q \in Pages, i \in Indices : ~Apunta(m.marco, q, i, p)) /\ ~EsDir(d, p)
  BY <1>1, SinReferencias
<1>3. ~EsTab(m.marco, d, p)
  BY <1>2 DEF EsTab
<1>4. \A j \in Indices : m.marco[p][j] = NULO
  BY <1>2, <1>3 DEF Buena, Forma
<1>5. m.marco[p] = VACIO
  BY <1>4 DEF Buena, Memorias, Marcos, VACIO
<1> QED
  BY <1>1, <1>2, <1>3, <1>4, <1>5

\* A page that an entry points to, or that is a directory, has a count, and
\* so it is not on the list.
LEMMA ConCuenta ==
    ASSUME NEW m, NEW d, NEW x, Buena(m, d, x), NEW p \in Pages,
           EsDir(d, p) \/ \E q \in Pages, i \in Indices : Apunta(m.marco, q, i, p)
    PROVE  m.pp_ref[p] \in 1 .. REF_MOD - 1 /\ ~EnSeq(m.page_free_list, p)
<1>1. m.pp_ref[p] # 0
  BY SinCuenta
<1>2. m.pp_ref[p] \in 0 .. REF_MOD - 1 /\ REF_MOD \in Nat
  BY PhysMemAssumption DEF Buena, Memorias
<1> QED
  BY <1>1, <1>2 DEF Buena

LEMMA AllocBuena ==
    ASSUME NEW m, NEW d, Buena(m, d, NULO), HayLibre(m)
    PROVE  LET n == PageAlloc(m)
               p == Primera(m)
           IN  /\ p \in Pages /\ m.pp_ref[p] = 0 /\ EnSeq(m.page_free_list, p)
               /\ Buena(n, d, NULO)
               /\ n.pp_ref = m.pp_ref /\ n.tlb = m.tlb /\ n.marco = m.marco
               /\ \A q : EnSeq(n.page_free_list, q) <=> EnSeq(m.page_free_list, q) /\ q # p
<1> DEFINE n == PageAlloc(m)
           p == Primera(m)
<1>1. m \in Memorias /\ m.page_free_list \in Seq(Pages) /\ m.page_free_list # <<>>
      /\ Distintas(m.page_free_list) /\ p = Head(m.page_free_list)
  BY DEF Buena, Memorias, HayLibre, Primera
<1>2. /\ p \in Pages /\ EnSeq(m.page_free_list, p) /\ Distintas(Tail(m.page_free_list))
      /\ \A q : EnSeq(Tail(m.page_free_list), q) <=> EnSeq(m.page_free_list, q) /\ q # p
  BY <1>1, TailParts
<1>3. /\ n \in Memorias /\ n.pp_ref = m.pp_ref /\ n.tlb = m.tlb
      /\ n.page_free_list = Tail(m.page_free_list)
      /\ n.marco = [m.marco EXCEPT ![p] = VACIO]
  BY <1>1, AllocCampos
<1>4. m.pp_ref[p] = 0
  BY <1>2 DEF Buena
<1>5. m.marco[p] = VACIO
  BY <1>2, <1>4, SinCuenta
<1>6. n.marco = m.marco
  BY <1>1, <1>2, <1>3, <1>5 DEF Memorias, Marcos
<1> HIDE DEF n, p
<1>7. Buena(n, d, NULO)
  BY <1>2, <1>3, <1>6 DEF Buena, Contada
<1> QED
  BY <1>2, <1>3, <1>4, <1>6, <1>7 DEF n, p

LEMMA IncrefBuena ==
    ASSUME NEW m, NEW d, Buena(m, d, NULO), NEW p \in Pages,
           ~EnSeq(m.page_free_list, p), m.pp_ref[p] + 1 < REF_MOD
    PROVE  LET n == PageIncref(m, p)
           IN  /\ Buena(n, d, p) /\ n.marco = m.marco /\ n.tlb = m.tlb
               /\ n.page_free_list = m.page_free_list
               /\ \A q \in Pages : n.pp_ref[q] = m.pp_ref[q] + (IF q = p THEN 1 ELSE 0)
<1> DEFINE n == PageIncref(m, p)
<1>1. m \in Memorias /\ m.pp_ref \in [Pages -> 0 .. REF_MOD - 1] /\ REF_MOD \in Nat
  BY PhysMemAssumption DEF Buena, Memorias
<1>2. /\ n \in Memorias /\ n.marco = m.marco /\ n.tlb = m.tlb
      /\ n.page_free_list = m.page_free_list
      /\ n.pp_ref = [m.pp_ref EXCEPT ![p] = (@ + 1) % REF_MOD]
  BY <1>1, IncrefCampos
<1> HIDE DEF n
<1>3. (m.pp_ref[p] + 1) % REF_MOD = m.pp_ref[p] + 1
  BY <1>1, Modulo
<1>4. \A q \in Pages : n.pp_ref[q] = m.pp_ref[q] + (IF q = p THEN 1 ELSE 0)
  BY <1>1, <1>2, <1>3
<1>5. Contada(n, d, p)
  <2> SUFFICES ASSUME NEW q \in Pages
               PROVE  n.pp_ref[q] = Cuenta(n.marco, d, q) + (IF q = p THEN 1 ELSE 0)
    BY DEF Contada
  <2>1. m.pp_ref[q] = Cuenta(m.marco, d, q)
    BY Constantes, Finitos DEF Buena, Contada
  <2> QED
    BY <1>2, <1>4, <2>1
<1>6. Buena(n, d, p)
  <2>1. ASSUME NEW q \in Pages, EnSeq(n.page_free_list, q) PROVE n.pp_ref[q] = 0
    BY <1>2, <1>4, <2>1 DEF Buena
  <2> QED
    BY <1>2, <1>5, <2>1 DEF Buena
<1> QED
  BY <1>2, <1>4, <1>6 DEF n

PerdidaEn(m, p) == m.pp_ref[p] = 0 /\ ~EnSeq(m.page_free_list, p)

\* page_decref, when a reference to p has gone: the page is freed with the last.
LEMMA DecrefBuena ==
    ASSUME NEW m, NEW d, NEW x, Buena(m, d, x), NEW p \in Pages,
           NEW n \in Memorias, NEW b \in Pgdirs, Forma(n.marco, b),
           \A q \in Pages : Cuenta(m.marco, d, q) =
                                Cuenta(n.marco, b, q) + (IF q = p THEN 1 ELSE 0),
           n.pp_ref = PageDecref(m, p).pp_ref,
           n.page_free_list = PageDecref(m, p).page_free_list
    PROVE  /\ Buena(n, b, x)
           /\ \A q \in Pages : n.pp_ref[q] = m.pp_ref[q] - (IF q = p THEN 1 ELSE 0)
           /\ \A q \in Pages : PerdidaEn(n, q) => PerdidaEn(m, q)
<1>1. /\ m \in Memorias /\ m.pp_ref \in [Pages -> 0 .. REF_MOD - 1] /\ REF_MOD \in Nat
      /\ m.page_free_list \in Seq(Pages) /\ Distintas(m.page_free_list)
  BY PhysMemAssumption DEF Buena, Memorias
<1>2. /\ n.pp_ref = [m.pp_ref EXCEPT ![p] = (@ + REF_MOD - 1) % REF_MOD]
      /\ n.page_free_list = IF n.pp_ref[p] = 0
                            THEN <<p>> \o m.page_free_list ELSE m.page_free_list
  <2> DEFINE k == PageDecref(m, p)
  <2>1. /\ k.pp_ref = [m.pp_ref EXCEPT ![p] = (@ + REF_MOD - 1) % REF_MOD]
        /\ k.page_free_list = IF k.pp_ref[p] = 0
                              THEN <<p>> \o m.page_free_list ELSE m.page_free_list
    BY <1>1, DecrefCampos
  <2>2. n.pp_ref = k.pp_ref /\ n.page_free_list = k.page_free_list
    OBVIOUS
  <2> HIDE DEF k
  <2> QED
    BY <2>1, <2>2
<1>3. m.pp_ref[p] \in 1 .. REF_MOD - 1
  <2>1. /\ m.pp_ref[p] = Cuenta(m.marco, d, p) + (IF p = x THEN 1 ELSE 0)
        /\ Cuenta(m.marco, d, p) = Cuenta(n.marco, b, p) + 1
    BY DEF Buena, Contada
  <2>2. m.pp_ref[p] >= 1
    BY <2>1, Finitos
  <2> QED
    BY <1>1, <2>2
<1>4. (m.pp_ref[p] + REF_MOD - 1) % REF_MOD = m.pp_ref[p] - 1
  BY <1>3, Modulo
<1>5. \A q \in Pages : n.pp_ref[q] = m.pp_ref[q] - (IF q = p THEN 1 ELSE 0)
  BY <1>1, <1>2, <1>4
<1>6. Contada(n, b, x)
  <2> SUFFICES ASSUME NEW q \in Pages
               PROVE  n.pp_ref[q] = Cuenta(n.marco, b, q) + (IF q = x THEN 1 ELSE 0)
    BY DEF Contada
  <2>1. m.pp_ref[q] = Cuenta(m.marco, d, q) + (IF q = x THEN 1 ELSE 0)
    BY DEF Buena, Contada
  <2>2. Cuenta(m.marco, d, q) = Cuenta(n.marco, b, q) + (IF q = p THEN 1 ELSE 0)
    OBVIOUS
  <2>3. Cuenta(n.marco, b, q) \in Nat
    BY Finitos
  <2> QED
    BY <1>5, <2>1, <2>2, <2>3
<1>7. ~EnSeq(m.page_free_list, p)
  BY <1>3 DEF Buena
<1>8. /\ Distintas(n.page_free_list)
      /\ \A q : EnSeq(n.page_free_list, q) <=> EnSeq(m.page_free_list, q)
                                                \/ (q = p /\ n.pp_ref[p] = 0)
  BY <1>1, <1>2, <1>7, ConsParts
<1>9. \A q \in Pages : EnSeq(n.page_free_list, q) => n.pp_ref[q] = 0
  <2> SUFFICES ASSUME NEW q \in Pages, EnSeq(m.page_free_list, q), q # p PROVE n.pp_ref[q] = 0
    BY <1>7, <1>8
  <2>1. m.pp_ref[q] = 0
    BY DEF Buena
  <2> QED
    BY <1>5, <2>1
<1>10. \A q \in Pages : PerdidaEn(n, q) => PerdidaEn(m, q)
  <2> SUFFICES ASSUME NEW q \in Pages, PerdidaEn(n, q) PROVE PerdidaEn(m, q)
    OBVIOUS
  <2>1. q # p /\ ~EnSeq(m.page_free_list, q)
    BY <1>8 DEF PerdidaEn
  <2>2. m.pp_ref[q] \in Nat /\ n.pp_ref[q] = m.pp_ref[q] - 0
    BY <1>1, <1>5, <2>1
  <2> QED
    BY <2>1, <2>2 DEF PerdidaEn
<1>11. Buena(n, b, x)
  BY <1>6, <1>8, <1>9 DEF Buena
<1> QED
  BY <1>5, <1>10, <1>11

-----------------------------------------------------------------------------
\* Addresses.

\* The table of an address, and its entry.
LEMMA TablaDe ==
    ASSUME NEW marco \in Marcos, NEW d \in Pgdirs, Forma(marco, d),
           NEW g \in Pages, EsDir(d, g), NEW i \in Indices, marco[g][i] # NULO
    PROVE  LET t == marco[g][i].pagina
           IN  t \in Pages /\ Apunta(marco, g, i, t) /\ EsTab(marco, d, t) /\ ~EsDir(d, t)
<1>1. marco[g][i] \in Entrada
  BY DEF Marcos
<1>2. marco[g][i].pagina \in Pages /\ Apunta(marco, g, i, marco[g][i].pagina)
  BY <1>1 DEF Apunta, Entrada
<1> QED
  BY <1>2 DEF EsTab, Forma

\* n differs from m in what va is mapped to, now v.
Escrita(m, n, g, va, v) == n.marco = Pon(m.marco, Pde(m, g, va).pagina, va[2], v)

\* A write of the pte of va changes what va is mapped to, and no other address.
LEMMA EscribeLookup ==
    ASSUME NEW m, NEW n, NEW d \in Pgdirs, m.marco \in Marcos, Forma(m.marco, d),
           NEW g \in Pages, EsDir(d, g), NEW va \in VAs, Pde(m, g, va) # NULO, NEW v,
           Escrita(m, n, g, va, v)
    PROVE  \A h \in Pages : EsDir(d, h) =>
              /\ \A i \in Indices : n.marco[h][i] = m.marco[h][i]
              /\ \A vb \in VAs : PageLookup(n, h, vb) =
                    IF h = g /\ vb = va THEN v ELSE PageLookup(m, h, vb)
<1> DEFINE t == Pde(m, g, va).pagina
<1>1. va[1] \in Indices /\ va[2] \in Indices
  BY Constantes
<1>2. t \in Pages /\ Apunta(m.marco, g, va[1], t) /\ ~EsDir(d, t)
  BY <1>1, TablaDe DEF Pde
<1> HIDE DEF t
<1>3. \A r \in Pages, j \in Indices :
         n.marco[r][j] = IF r = t /\ j = va[2] THEN v ELSE m.marco[r][j]
  BY <1>1, <1>2 DEF Marcos, Pon, Escrita, t
<1> SUFFICES ASSUME NEW h \in Pages, EsDir(d, h)
             PROVE  /\ \A i \in Indices : n.marco[h][i] = m.marco[h][i]
                    /\ \A vb \in VAs : PageLookup(n, h, vb) =
                          IF h = g /\ vb = va THEN v ELSE PageLookup(m, h, vb)
  OBVIOUS
<1>4. \A i \in Indices : n.marco[h][i] = m.marco[h][i]
  BY <1>2, <1>3
<1>5. ASSUME NEW vb \in VAs
      PROVE  PageLookup(n, h, vb) = IF h = g /\ vb = va THEN v ELSE PageLookup(m, h, vb)
  <2>1. vb[1] \in Indices /\ vb[2] \in Indices
    BY Constantes
  <2>2. Pde(n, h, vb) = Pde(m, h, vb)
    BY <1>4, <2>1 DEF Pde
  <2>3. CASE Pde(m, h, vb) = NULO
    <3>1. ~(h = g /\ vb = va)
      BY <2>3
    <3> QED
      BY <2>2, <2>3, <3>1 DEF PageLookup
  <2>4. CASE Pde(m, h, vb) # NULO
    <3> DEFINE u == Pde(m, h, vb).pagina
    <3>1. u \in Pages /\ Apunta(m.marco, h, vb[1], u)
      BY <2>1, <2>4, TablaDe DEF Pde
    <3> HIDE DEF u
    <3>2. PageLookup(n, h, vb) = n.marco[u][vb[2]] /\ PageLookup(m, h, vb) = m.marco[u][vb[2]]
      BY <2>2, <2>4 DEF PageLookup, u
    <3>3. u = t => h = g /\ vb[1] = va[1]
      BY <1>1, <1>2, <2>1, <3>1 DEF Forma
    <3>4. vb[1] = va[1] /\ vb[2] = va[2] => vb = va
      BY DEF VAs
    <3>5. h = g /\ vb = va => u = t
      BY DEF u, t
    <3> QED
      BY <1>3, <2>1, <3>1, <3>2, <3>3, <3>4, <3>5
  <2> QED
    BY <2>3, <2>4
<1> QED
  BY <1>4, <1>5

-----------------------------------------------------------------------------
\* The steps of page_insert and page_remove on a good memory.

\* pgdir_walk with create.  The new table comes off the list and is counted;
\* nothing is mapped in it.
LEMMA ConTablaBuena ==
    ASSUME NEW m, NEW d, Buena(m, d, NULO), NEW g \in Pages, EsDir(d, g),
           NEW va \in VAs, ~InsertaFalla(m, g, va), 1 < REF_MOD
    PROVE  LET n == ConTabla(m, g, va)
           IN  /\ Buena(n, d, NULO) /\ n.tlb = m.tlb /\ Pde(n, g, va) # NULO
               /\ \A h \in Pages : EsDir(d, h) =>
                    \A vb \in VAs : PageLookup(n, h, vb) = PageLookup(m, h, vb)
               /\ \A q \in Pages : ~EnSeq(m.page_free_list, q) =>
                    /\ ~EnSeq(n.page_free_list, q) /\ n.pp_ref[q] = m.pp_ref[q]
                    /\ EsTab(n.marco, d, q) <=> EsTab(m.marco, d, q)
               /\ \A q \in Pages : PerdidaEn(n, q) => PerdidaEn(m, q)
<1> DEFINE n == ConTabla(m, g, va)
           t == Primera(m)
           a == PageAlloc(m)
           b == PageIncref(a, t)
           v == [pagina |-> t, w |-> TRUE]
<1>1. CASE Pde(m, g, va) # NULO
  <2>1. n = m
    BY <1>1 DEF ConTabla
  <2> QED
    BY <1>1, <2>1
<1>2. CASE Pde(m, g, va) = NULO
  <2>1. HayLibre(m) /\ n = PonMem(b, g, va[1], v)
    BY <1>2 DEF ConTabla, InsertaFalla, PonMem
  <2>2. /\ t \in Pages /\ m.pp_ref[t] = 0 /\ EnSeq(m.page_free_list, t)
        /\ Buena(a, d, NULO)
        /\ a.pp_ref = m.pp_ref /\ a.tlb = m.tlb /\ a.marco = m.marco
        /\ \A q : EnSeq(a.page_free_list, q) <=> EnSeq(m.page_free_list, q) /\ q # t
    BY <2>1, AllocBuena
  <2>3. /\ \A j \in Indices : m.marco[t][j] = NULO
        /\ \A q \in Pages, i \in Indices : ~Apunta(m.marco, q, i, t)
        /\ ~EsDir(d, t) /\ ~EsTab(m.marco, d, t)
    BY <2>2, SinCuenta
  <2> HIDE DEF a, t
  <2>4. /\ Buena(b, d, t) /\ b.marco = m.marco /\ b.tlb = m.tlb
        /\ b.page_free_list = a.page_free_list
        /\ \A q \in Pages : b.pp_ref[q] = a.pp_ref[q] + (IF q = t THEN 1 ELSE 0)
    <3>1. a.pp_ref[t] + 1 < REF_MOD /\ ~EnSeq(a.page_free_list, t)
      BY <2>2
    <3> QED
      BY <2>2, <3>1, IncrefBuena
  <2>5. /\ m \in Memorias /\ m.marco \in Marcos /\ d \in Pgdirs /\ Forma(m.marco, d)
        /\ b \in Memorias /\ v \in Entrada /\ v.pagina = t
        /\ va[1] \in Indices /\ va[2] \in Indices /\ va[1] < NPD /\ m.marco[g][va[1]] = NULO
    <3>1. v \in Entrada /\ v.pagina = t
      BY <2>2 DEF Entrada
    <3> HIDE DEF b, v
    <3>2. m \in Memorias /\ m.marco \in Marcos /\ d \in Pgdirs /\ Forma(m.marco, d)
      BY DEF Buena, Memorias
    <3>3. va[1] \in Indices /\ va[2] \in Indices /\ va[1] < NPD
      BY Constantes, PhysMemAssumption
    <3> QED
      BY <1>2, <2>4, <3>1, <3>2, <3>3 DEF Buena, Pde
  <2> HIDE DEF b, v
  <2>6. /\ n \in Memorias /\ n.pp_ref = b.pp_ref /\ n.tlb = m.tlb
        /\ n.page_free_list = a.page_free_list
        /\ n.marco = Pon(m.marco, g, va[1], v)
    BY <2>1, <2>4, <2>5, EscribeCampos
  <2> HIDE DEF n
  <2>7. /\ Forma(n.marco, d)
        /\ \A p \in Pages : EsTab(n.marco, d, p) <=> EsTab(m.marco, d, p) \/ p = t
    BY <2>3, <2>5, <2>6, FormaPde
  <2>8. \A q \in Pages : n.pp_ref[q] = m.pp_ref[q] + (IF q = t THEN 1 ELSE 0)
    BY <2>2, <2>4, <2>6
  <2>9. Contada(n, d, NULO)
    <3> SUFFICES ASSUME NEW q \in Pages PROVE n.pp_ref[q] = Cuenta(n.marco, d, q)
      BY Constantes, Finitos DEF Contada
    <3>1. m.pp_ref[q] = Cuenta(m.marco, d, q)
      BY Constantes, Finitos DEF Buena, Contada
    <3>2. Cuenta(n.marco, d, q) = Cuenta(m.marco, d, q) + (IF q = v.pagina THEN 1 ELSE 0)
      BY <2>5, <2>6, PonCuenta
    <3> QED
      BY <2>5, <2>8, <3>1, <3>2
  <2>10. Buena(n, d, NULO)
    <3>1. Distintas(n.page_free_list)
      BY <2>2, <2>6 DEF Buena
    <3>2. \A q \in Pages : EnSeq(n.page_free_list, q) => n.pp_ref[q] = 0
      BY <2>2, <2>6, <2>8 DEF Buena
    <3> QED
      BY <2>5, <2>6, <2>7, <2>9, <3>1, <3>2 DEF Buena
  <2>11. Pde(n, g, va) # NULO
    BY <2>5, <2>6, Constantes DEF Pde, Marcos, Pon
  <2>12. ASSUME NEW h \in Pages, EsDir(d, h), NEW vb \in VAs
         PROVE  PageLookup(n, h, vb) = PageLookup(m, h, vb)
    <3>1. vb[1] \in Indices /\ vb[2] \in Indices
      BY Constantes
    <3>2. \A r \in Pages, j \in Indices :
            n.marco[r][j] = IF r = g /\ j = va[1] THEN v ELSE m.marco[r][j]
      BY <2>5, <2>6 DEF Marcos, Pon
    <3>3. CASE h = g /\ vb[1] = va[1]
      <4>1. PageLookup(m, h, vb) = NULO
        BY <2>5, <3>3 DEF PageLookup, Pde
      <4>2. PageLookup(n, h, vb) = n.marco[t][vb[2]]
        BY <2>5, <3>2, <3>3, Constantes DEF PageLookup, Pde
      <4>3. t # g
        BY <2>3
      <4> QED
        BY <2>2, <2>3, <3>1, <3>2, <4>1, <4>2, <4>3
    <3>4. CASE ~(h = g /\ vb[1] = va[1])
      <4>1. Pde(n, h, vb) = Pde(m, h, vb)
        BY <3>1, <3>2, <3>4 DEF Pde
      <4>2. CASE Pde(m, h, vb) = NULO
        BY <4>1, <4>2 DEF PageLookup
      <4>3. CASE Pde(m, h, vb) # NULO
        <5>1. Pde(m, h, vb).pagina \in Pages /\ ~EsDir(d, Pde(m, h, vb).pagina)
          BY <2>5, <2>12, <3>1, <4>3, TablaDe DEF Pde
        <5>2. Pde(m, h, vb).pagina # g
          BY <5>1
        <5> QED
          BY <3>1, <3>2, <4>1, <4>3, <5>1, <5>2 DEF PageLookup
      <4> QED
        BY <4>2, <4>3
    <3> QED
      BY <3>3, <3>4
  <2>13. ASSUME NEW q \in Pages, ~EnSeq(m.page_free_list, q)
         PROVE  /\ ~EnSeq(n.page_free_list, q) /\ n.pp_ref[q] = m.pp_ref[q]
                /\ EsTab(n.marco, d, q) <=> EsTab(m.marco, d, q)
    <3>1. q # t /\ ~EnSeq(n.page_free_list, q)
      BY <2>2, <2>6, <2>13
    <3>2. m.pp_ref[q] \in Nat
      BY <2>5, PhysMemAssumption DEF Memorias
    <3>3. n.pp_ref[q] = m.pp_ref[q]
      BY <2>8, <3>1, <3>2
    <3> QED
      BY <2>7, <3>1, <3>3
  <2>14. ASSUME NEW q \in Pages, PerdidaEn(n, q) PROVE PerdidaEn(m, q)
    <3>1. m.pp_ref[q] \in Nat /\ m.pp_ref[t] \in Nat
      BY <2>2, <2>5, PhysMemAssumption DEF Memorias
    <3>2. q # t
      BY <2>2, <2>8, <2>14 DEF PerdidaEn
    <3> QED
      BY <2>2, <2>6, <2>8, <2>14, <3>1, <3>2 DEF PerdidaEn
  <2> QED
    BY <2>6, <2>10, <2>11, <2>12, <2>13, <2>14 DEF n
<1> QED
  BY <1>1, <1>2

\* What an address is mapped to, when it is mapped.
LEMMA LookupParts ==
    ASSUME NEW m, NEW d, NEW x, Buena(m, d, x), NEW g \in Pages, EsDir(d, g),
           NEW va \in VAs, PageLookup(m, g, va) # NULO
    PROVE  LET t == Pde(m, g, va).pagina
               p == PageLookup(m, g, va).pagina
           IN  /\ Pde(m, g, va) # NULO
               /\ t \in Pages /\ EsTab(m.marco, d, t) /\ ~EsDir(d, t)
               /\ PageLookup(m, g, va) \in Entrada /\ PageLookup(m, g, va) = m.marco[t][va[2]]
               /\ p \in Pages /\ Apunta(m.marco, t, va[2], p)
               /\ ~EsDir(d, p) /\ ~EsTab(m.marco, d, p)
               /\ m.pp_ref[p] \in 1 .. REF_MOD - 1 /\ ~EnSeq(m.page_free_list, p)
<1> DEFINE t == Pde(m, g, va).pagina
           pte == PageLookup(m, g, va)
<1>1. /\ m.marco \in Marcos /\ d \in Pgdirs /\ Forma(m.marco, d)
      /\ va[1] \in Indices /\ va[2] \in Indices
  BY Constantes DEF Buena, Memorias
<1>2. Pde(m, g, va) # NULO /\ pte = m.marco[t][va[2]]
  BY DEF PageLookup
<1>3. t \in Pages /\ EsTab(m.marco, d, t) /\ ~EsDir(d, t)
  BY <1>1, <1>2, TablaDe DEF Pde
<1> HIDE DEF t
<1>4. pte \in Entrada /\ Apunta(m.marco, t, va[2], pte.pagina) /\ pte.pagina \in Pages
  BY <1>1, <1>2, <1>3 DEF Marcos, Apunta, Entrada
<1>5. ~EsDir(d, pte.pagina) /\ ~EsTab(m.marco, d, pte.pagina)
  BY <1>1, <1>3, <1>4, PaginaDeDatos
<1>6. m.pp_ref[pte.pagina] \in 1 .. REF_MOD - 1 /\ ~EnSeq(m.page_free_list, pte.pagina)
  BY <1>1, <1>3, <1>4, ConCuenta
<1> QED
  BY <1>2, <1>3, <1>4, <1>5, <1>6 DEF t

\* page_remove.  Only other CPUs with this directory loaded may go on using va.
LEMMA RemueveBuena ==
    ASSUME NEW m, NEW d, NEW x, Buena(m, d, x), NEW g \in Pages, EsDir(d, g),
           NEW va \in VAs, NEW c \in CPUs
    PROVE  LET n == PageRemove(m, c, g, va)
           IN  /\ Buena(n, d, x)
               /\ \A k \in CPUs : k = c \/ cr3[k] # g => n.tlb[k] = m.tlb[k]
               /\ \A h \in Pages : EsDir(d, h) =>
                    /\ \A i \in Indices : n.marco[h][i] = m.marco[h][i]
                    /\ \A vb \in VAs : PageLookup(n, h, vb) =
                          IF h = g /\ vb = va THEN NULO ELSE PageLookup(m, h, vb)
               /\ \A q \in Pages : EsTab(n.marco, d, q) <=> EsTab(m.marco, d, q)
               /\ \A q \in Pages : n.pp_ref[q] <= m.pp_ref[q]
               /\ \A q \in Pages : PerdidaEn(n, q) => PerdidaEn(m, q)
<1> DEFINE n == PageRemove(m, c, g, va)
           pte == PageLookup(m, g, va)
           t == Pde(m, g, va).pagina
           p == pte.pagina
           k == PageDecref(m, p)
           r == EscribePte(k, g, va, NULO)
<1>1. m \in Memorias /\ m.marco \in Marcos /\ d \in Pgdirs /\ Forma(m.marco, d)
      /\ m.pp_ref \in [Pages -> 0 .. REF_MOD - 1] /\ REF_MOD \in Nat
      /\ va[1] \in Indices /\ va[2] \in Indices /\ va[2] < NPT
  BY Constantes, PhysMemAssumption DEF Buena, Memorias
<1>2. CASE pte = NULO
  <2>1. n = m
    BY <1>2 DEF PageRemove
  <2> QED
    BY <1>1, <1>2, <2>1
<1>3. CASE pte # NULO
  <2>1. n = TlbInvalidate(r, c, g, va)
    BY <1>3 DEF PageRemove
  <2>2. /\ Pde(m, g, va) # NULO /\ t \in Pages /\ EsTab(m.marco, d, t)
        /\ pte \in Entrada /\ pte = m.marco[t][va[2]] /\ p \in Pages
    BY <1>3, LookupParts
  <2> HIDE DEF pte, n
  <2>3. /\ k \in Memorias /\ k.marco = m.marco /\ k.tlb = m.tlb
    BY <1>1, <2>2, DecrefCampos
  <2> HIDE DEF p
  <2>4. r = PonMem(k, t, va[2], NULO)
    BY <2>3 DEF EscribePte, Pde, PonMem
  <2> HIDE DEF r, t
  <2>5. /\ r \in Memorias /\ r.marco = Pon(m.marco, t, va[2], NULO) /\ r.tlb = m.tlb
        /\ r.pp_ref = PageDecref(m, p).pp_ref
        /\ r.page_free_list = PageDecref(m, p).page_free_list
    <3>1. NULO \in Entrada \cup {NULO}
      OBVIOUS
    <3>2. /\ r \in Memorias /\ r.marco = Pon(k.marco, t, va[2], NULO) /\ r.tlb = k.tlb
          /\ r.pp_ref = k.pp_ref /\ r.page_free_list = k.page_free_list
      BY <1>1, <2>2, <2>3, <2>4, <3>1, EscribeCampos
    <3> QED
      BY <2>3, <3>2
  <2> HIDE DEF k
  <2>6. /\ n \in Memorias /\ n.pp_ref = r.pp_ref /\ n.marco = r.marco
        /\ n.page_free_list = r.page_free_list
        /\ \A j \in CPUs : j = c \/ cr3[j] # g => n.tlb[j] = m.tlb[j]
    BY <2>1, <2>5, TlbCampos
  <2>7. n.marco = Pon(m.marco, t, va[2], NULO)
    BY <2>5, <2>6
  <2>8. Forma(n.marco, d) /\ \A q \in Pages : EsTab(n.marco, d, q) <=> EsTab(m.marco, d, q)
    <3>1. NULO \in Entrada \cup {NULO}
      OBVIOUS
    <3> QED
      BY <1>1, <2>2, <2>7, <3>1, FormaPte
  <2>9. \A q \in Pages : Cuenta(m.marco, d, q) = Cuenta(n.marco, d, q) + (IF q = p THEN 1 ELSE 0)
    <3> SUFFICES ASSUME NEW q \in Pages
                 PROVE  Cuenta(m.marco, d, q) =
                            Cuenta(n.marco, d, q) + (IF q = p THEN 1 ELSE 0)
      OBVIOUS
    <3>1. m.marco[t][va[2]] # NULO /\ m.marco[t][va[2]].pagina = p
      BY <1>3, <2>2 DEF p
    <3>2. Cuenta(m.marco, d, q) =
                Cuenta(n.marco, d, q) + (IF q = m.marco[t][va[2]].pagina THEN 1 ELSE 0)
      BY <1>1, <2>2, <2>7, <3>1, QuitaCuenta
    <3> QED
      BY <3>1, <3>2
  <2>10. /\ Buena(n, d, x)
         /\ \A q \in Pages : n.pp_ref[q] = m.pp_ref[q] - (IF q = p THEN 1 ELSE 0)
         /\ \A q \in Pages : PerdidaEn(n, q) => PerdidaEn(m, q)
    <3>1. n.pp_ref = PageDecref(m, p).pp_ref /\ n.page_free_list = PageDecref(m, p).page_free_list
      BY <2>5, <2>6
    <3> QED
      BY <1>1, <2>2, <2>6, <2>8, <2>9, <3>1, DecrefBuena
  <2>11. \A h \in Pages : EsDir(d, h) =>
            /\ \A i \in Indices : n.marco[h][i] = m.marco[h][i]
            /\ \A vb \in VAs : PageLookup(n, h, vb) =
                    IF h = g /\ vb = va THEN NULO ELSE PageLookup(m, h, vb)
    <3>1. Escrita(m, n, g, va, NULO)
      BY <2>7 DEF Escrita, t
    <3> SUFFICES ASSUME NEW h \in Pages, EsDir(d, h)
                 PROVE  /\ \A i \in Indices : n.marco[h][i] = m.marco[h][i]
                        /\ \A vb \in VAs : PageLookup(n, h, vb) =
                                IF h = g /\ vb = va THEN NULO ELSE PageLookup(m, h, vb)
      OBVIOUS
    <3>2. \A i \in Indices : n.marco[h][i] = m.marco[h][i]
      BY <1>1, <2>2, <3>1, EscribeLookup
    <3>3. \A vb \in VAs : PageLookup(n, h, vb) =
                IF h = g /\ vb = va THEN NULO ELSE PageLookup(m, h, vb)
      <4>1. PICK v : v = NULO
        OBVIOUS
      <4>2. \A vb \in VAs : PageLookup(n, h, vb) =
                IF h = g /\ vb = va THEN v ELSE PageLookup(m, h, vb)
        BY <1>1, <2>2, <3>1, <4>1, EscribeLookup
      <4> QED
        BY <4>1, <4>2
    <3> QED
      BY <3>2, <3>3
  <2>12. \A q \in Pages : n.pp_ref[q] <= m.pp_ref[q]
    BY <1>1, <2>10
  <2> QED
    BY <2>6, <2>8, <2>10, <2>11, <2>12 DEF n
<1> QED
  BY <1>2, <1>3

\* The write with which page_insert ends, of a page that it has counted.
LEMMA PonPteBuena ==
    ASSUME NEW m, NEW d, NEW p \in Pages, Buena(m, d, p), NEW g \in Pages, EsDir(d, g),
           NEW va \in VAs, Pde(m, g, va) # NULO, PageLookup(m, g, va) = NULO,
           NEW w \in BOOLEAN, ~EsDir(d, p), ~EsTab(m.marco, d, p)
    PROVE  LET v == [pagina |-> p, w |-> w]
               n == EscribePte(m, g, va, v)
           IN  /\ Buena(n, d, NULO)
               /\ n.tlb = m.tlb /\ n.pp_ref = m.pp_ref /\ n.page_free_list = m.page_free_list
               /\ \A h \in Pages : EsDir(d, h) => \A vb \in VAs :
                    PageLookup(n, h, vb) = IF h = g /\ vb = va THEN v ELSE PageLookup(m, h, vb)
               /\ \A q \in Pages : EsTab(n.marco, d, q) <=> EsTab(m.marco, d, q)
<1> DEFINE v == [pagina |-> p, w |-> w]
           n == EscribePte(m, g, va, v)
           t == Pde(m, g, va).pagina
<1>1. m \in Memorias /\ m.marco \in Marcos /\ d \in Pgdirs /\ Forma(m.marco, d)
      /\ va[1] \in Indices /\ va[2] \in Indices /\ va[2] < NPT
  BY Constantes, PhysMemAssumption DEF Buena, Memorias
<1>2. t \in Pages /\ EsTab(m.marco, d, t)
  BY <1>1, TablaDe DEF Pde
<1>3. m.marco[t][va[2]] = NULO
  BY DEF PageLookup
<1>4. v \in Entrada /\ v.pagina = p
  BY DEF Entrada
<1>5. n = PonMem(m, t, va[2], v)
  BY DEF EscribePte, PonMem
<1> HIDE DEF v, n, t
<1>6. /\ n \in Memorias /\ n.marco = Pon(m.marco, t, va[2], v) /\ n.tlb = m.tlb
      /\ n.pp_ref = m.pp_ref /\ n.page_free_list = m.page_free_list
  BY <1>1, <1>2, <1>4, <1>5, EscribeCampos
<1>7. Forma(n.marco, d) /\ \A q \in Pages : EsTab(n.marco, d, q) <=> EsTab(m.marco, d, q)
  BY <1>1, <1>2, <1>4, <1>6, FormaPte
<1>8. Contada(n, d, NULO)
  <2> SUFFICES ASSUME NEW q \in Pages PROVE n.pp_ref[q] = Cuenta(n.marco, d, q)
    BY Constantes, Finitos DEF Contada
  <2>1. m.pp_ref[q] = Cuenta(m.marco, d, q) + (IF q = p THEN 1 ELSE 0)
    BY DEF Buena, Contada
  <2>2. Cuenta(n.marco, d, q) = Cuenta(m.marco, d, q) + (IF q = v.pagina THEN 1 ELSE 0)
    BY <1>1, <1>2, <1>3, <1>4, <1>6, PonCuenta
  <2> QED
    BY <1>4, <1>6, <2>1, <2>2
<1>9. Buena(n, d, NULO)
  BY <1>6, <1>7, <1>8 DEF Buena
<1>10. \A h \in Pages : EsDir(d, h) => \A vb \in VAs :
            PageLookup(n, h, vb) = IF h = g /\ vb = va THEN v ELSE PageLookup(m, h, vb)
  <2>1. Escrita(m, n, g, va, v)
    BY <1>6 DEF Escrita, t
  <2> QED
    BY <1>1, <2>1, EscribeLookup
<1> QED
  BY <1>6, <1>7, <1>9, <1>10 DEF v, n

\* page_insert, when it does not fail.
LEMMA InsertBuena ==
    ASSUME NEW m, NEW d, Buena(m, d, NULO), NEW g \in Pages, EsDir(d, g),
           NEW va \in VAs, NEW c \in CPUs, NEW p \in Pages, NEW w \in BOOLEAN,
           ~EnSeq(m.page_free_list, p), ~EsDir(d, p), ~EsTab(m.marco, d, p),
           m.pp_ref[p] + 1 < REF_MOD, ~InsertaFalla(m, g, va)
    PROVE  LET n == PageInsert(m, c, g, p, va, w)
           IN  /\ Buena(n, d, NULO)
               /\ \A k \in CPUs : k = c \/ cr3[k] # g => n.tlb[k] = m.tlb[k]
               /\ \A h \in Pages : EsDir(d, h) => \A vb \in VAs :
                    PageLookup(n, h, vb) = IF h = g /\ vb = va THEN [pagina |-> p, w |-> w]
                                                               ELSE PageLookup(m, h, vb)
               /\ \A q \in Pages : ~EnSeq(m.page_free_list, q) /\ q # p =>
                                        n.pp_ref[q] <= m.pp_ref[q]
               /\ \A q \in Pages : PerdidaEn(n, q) => PerdidaEn(m, q) /\ q # p
<1> DEFINE a == ConTabla(m, g, va)
           b == PageIncref(a, p)
           r == PageRemove(b, c, g, va)
           v == [pagina |-> p, w |-> w]
           n == EscribePte(r, g, va, v)
<1>1. n = PageInsert(m, c, g, p, va, w)
  BY DEF PageInsert
<1>2. /\ REF_MOD \in Nat /\ m.pp_ref \in [Pages -> 0 .. REF_MOD - 1] /\ 1 < REF_MOD
      /\ va[1] \in Indices
  <2>1. REF_MOD \in Nat /\ m.pp_ref \in [Pages -> 0 .. REF_MOD - 1]
    BY PhysMemAssumption DEF Buena, Memorias
  <2> QED
    BY <2>1, Constantes
<1>3. /\ Buena(a, d, NULO) /\ a.tlb = m.tlb /\ Pde(a, g, va) # NULO
      /\ \A h \in Pages : EsDir(d, h) =>
            \A vb \in VAs : PageLookup(a, h, vb) = PageLookup(m, h, vb)
      /\ \A q \in Pages : ~EnSeq(m.page_free_list, q) =>
            /\ ~EnSeq(a.page_free_list, q) /\ a.pp_ref[q] = m.pp_ref[q]
            /\ EsTab(a.marco, d, q) <=> EsTab(m.marco, d, q)
      /\ \A q \in Pages : PerdidaEn(a, q) => PerdidaEn(m, q)
  BY <1>2, ConTablaBuena
<1> HIDE DEF a
<1>4. /\ Buena(b, d, p) /\ b.marco = a.marco /\ b.tlb = a.tlb
      /\ b.page_free_list = a.page_free_list
      /\ \A q \in Pages : b.pp_ref[q] = a.pp_ref[q] + (IF q = p THEN 1 ELSE 0)
  BY <1>3, IncrefBuena
<1> HIDE DEF b
<1>5. \A h, vb : PageLookup(b, h, vb) = PageLookup(a, h, vb)
  BY <1>4 DEF PageLookup, Pde
<1>6. /\ Buena(r, d, p)
      /\ \A k \in CPUs : k = c \/ cr3[k] # g => r.tlb[k] = b.tlb[k]
      /\ \A h \in Pages : EsDir(d, h) =>
            /\ \A i \in Indices : r.marco[h][i] = b.marco[h][i]
            /\ \A vb \in VAs : PageLookup(r, h, vb) =
                    IF h = g /\ vb = va THEN NULO ELSE PageLookup(b, h, vb)
      /\ \A q \in Pages : EsTab(r.marco, d, q) <=> EsTab(b.marco, d, q)
      /\ \A q \in Pages : r.pp_ref[q] <= b.pp_ref[q]
      /\ \A q \in Pages : PerdidaEn(r, q) => PerdidaEn(b, q)
  BY <1>4, RemueveBuena
<1> HIDE DEF r
<1>7. /\ Pde(r, g, va) # NULO /\ PageLookup(r, g, va) = NULO /\ ~EsTab(r.marco, d, p)
  <2>1. Pde(r, g, va) = Pde(a, g, va)
    BY <1>2, <1>4, <1>6 DEF Pde
  <2> QED
    BY <1>3, <1>4, <1>6, <2>1
<1>8. /\ Buena(n, d, NULO)
      /\ n.tlb = r.tlb /\ n.pp_ref = r.pp_ref /\ n.page_free_list = r.page_free_list
      /\ \A h \in Pages : EsDir(d, h) => \A vb \in VAs :
            PageLookup(n, h, vb) = IF h = g /\ vb = va THEN v ELSE PageLookup(r, h, vb)
  BY <1>6, <1>7, PonPteBuena
<1> HIDE DEF n, v
<1>9. ASSUME NEW h \in Pages, EsDir(d, h), NEW vb \in VAs
      PROVE  PageLookup(n, h, vb) = IF h = g /\ vb = va THEN v ELSE PageLookup(m, h, vb)
  BY <1>3, <1>5, <1>6, <1>8, <1>9
<1>10. ASSUME NEW q \in Pages, ~EnSeq(m.page_free_list, q), q # p
       PROVE  n.pp_ref[q] <= m.pp_ref[q]
  <2>1. m.pp_ref[q] \in Nat /\ a.pp_ref[q] = m.pp_ref[q]
    BY <1>2, <1>3, <1>10
  <2>2. b.pp_ref[q] = m.pp_ref[q]
    BY <1>4, <1>10, <2>1
  <2> QED
    BY <1>6, <1>8, <2>2
<1>11. ASSUME NEW q \in Pages, PerdidaEn(n, q) PROVE PerdidaEn(m, q) /\ q # p
  <2>1. PerdidaEn(b, q)
    BY <1>6, <1>8, <1>11 DEF PerdidaEn
  <2>2. a.pp_ref[q] \in Nat
    BY <1>2, <1>3 DEF Buena, Memorias
  <2>3. q # p
    BY <1>4, <2>1, <2>2 DEF PerdidaEn
  <2>4. PerdidaEn(a, q)
    BY <1>4, <2>1, <2>2, <2>3 DEF PerdidaEn
  <2> QED
    BY <1>3, <2>3, <2>4
<1>12. \A k \in CPUs : k = c \/ cr3[k] # g => n.tlb[k] = m.tlb[k]
  BY <1>3, <1>4, <1>6, <1>8
<1> QED
  BY <1>1, <1>8, <1>9, <1>10, <1>11, <1>12 DEF v

-----------------------------------------------------------------------------
\* The address spaces that the page tables of m implement.

Vista(m, d) ==
    [e \in Envs |-> [va \in VAs |->
        IF d[e] = NULO THEN NULO ELSE PageLookup(m, d[e], va)]]

\* The space s, with v at address va of e.
Cambia(s, e, va, v) == [s EXCEPT ![e][va] = v]

Ajena(s, p) == \A e \in Envs, va \in VAs : s[e][va] # NULO => s[e][va].pagina # p

\* What AddressSpaces lets a step do.
PasoEspacios(s, t) ==
    \/ t = s
    \/ \E e \in Envs, va \in VAs :
         \/ \E v \in Entrada : Ajena(s, v.pagina) /\ t = Cambia(s, e, va, v)
         \/ \E v \in Entrada, f \in Envs, vb \in VAs :
                /\ s[f][vb] # NULO /\ v.pagina = s[f][vb].pagina /\ (v.w => s[f][vb].w)
                /\ t = Cambia(s, e, va, v)
         \/ t = Cambia(s, e, va, NULO)

\* No count is at the limit of its 16 bits.
SinVueltaEn(m) == \A p \in Pages : m.pp_ref[p] + 1 < REF_MOD

\* The CPUs other than c that have g loaded may gain stale translations.
SoloEn(m, n, c, g) == \A k \in CPUs : k = c \/ cr3[k] # g => n.tlb[k] \subseteq m.tlb[k]

\* A handler has taken the memory m, with directories d, to n, with b.
Paso(m, d, n, b) ==
    /\ Buena(n, b, NULO)
    /\ PasoEspacios(Vista(m, d), Vista(n, b))
    /\ \A p \in Pages : PerdidaEn(n, p) /\ ~PerdidaEn(m, p) => n.page_free_list = <<>>

LEMMA VistaTipo ==
    ASSUME NEW m, NEW d
    PROVE  \A e \in Envs, va \in VAs :
              Vista(m, d)[e][va] = IF d[e] = NULO THEN NULO ELSE PageLookup(m, d[e], va)
BY DEF Vista

LEMMA VistaIgual ==
    ASSUME NEW m, NEW d, NEW n, NEW b,
           \A e \in Envs, va \in VAs : Vista(n, b)[e][va] = Vista(m, d)[e][va]
    PROVE  Vista(n, b) = Vista(m, d)
BY DEF Vista

LEMMA CambiaTipo ==
    ASSUME NEW m, NEW d, NEW e \in Envs, NEW va \in VAs, NEW v
    PROVE  \A f \in Envs, vb \in VAs : Cambia(Vista(m, d), e, va, v)[f][vb] =
                IF f = e /\ vb = va THEN v ELSE Vista(m, d)[f][vb]
BY DEF Vista, Cambia

LEMMA CambiaIgual ==
    ASSUME NEW m, NEW d, NEW n, NEW b, NEW e \in Envs, NEW va \in VAs, NEW v,
           \A f \in Envs, vb \in VAs :
                Vista(n, b)[f][vb] = Cambia(Vista(m, d), e, va, v)[f][vb]
    PROVE  Vista(n, b) = Cambia(Vista(m, d), e, va, v)
<1> DEFINE s == Vista(n, b)
           t == Cambia(Vista(m, d), e, va, v)
<1>1. s = [f \in Envs |-> s[f]] /\ \A f \in Envs : s[f] = [vb \in VAs |-> s[f][vb]]
  BY DEF Vista
<1>2. t = [f \in Envs |-> t[f]]
  BY DEF Vista, Cambia
<1>3. ASSUME NEW f \in Envs PROVE t[f] = [vb \in VAs |-> t[f][vb]]
  <2>1. CASE f = e
    BY <2>1 DEF Vista, Cambia
  <2>2. CASE f # e
    BY <2>2 DEF Vista, Cambia
  <2> QED
    BY <2>1, <2>2
<1>4. \A f \in Envs, vb \in VAs : s[f][vb] = t[f][vb]
  OBVIOUS
<1> HIDE DEF s, t
<1>5. ASSUME NEW f \in Envs PROVE s[f] = t[f]
  BY <1>1, <1>3, <1>4
<1> QED
  BY <1>1, <1>2, <1>5 DEF s, t

LEMMA VistaCambia ==
    ASSUME NEW m, NEW n, NEW d \in Pgdirs, NEW x, Buena(m, d, x),
           NEW e \in Envs, d[e] # NULO, NEW va \in VAs, NEW v,
           \A h \in Pages : EsDir(d, h) => \A vb \in VAs :
                PageLookup(n, h, vb) = IF h = d[e] /\ vb = va THEN v ELSE PageLookup(m, h, vb)
    PROVE  Vista(n, d) = Cambia(Vista(m, d), e, va, v)
<1>1. ASSUME NEW f \in Envs, NEW vb \in VAs
      PROVE  Vista(n, d)[f][vb] = Cambia(Vista(m, d), e, va, v)[f][vb]
  <2>1. CASE d[f] = NULO
    <3>1. f # e
      BY <2>1
    <3> QED
      BY <2>1, <3>1, VistaTipo, CambiaTipo
  <2>2. CASE d[f] # NULO
    <3>1. d[f] \in Pages /\ EsDir(d, d[f]) /\ (d[f] = d[e] => f = e)
      BY <2>2 DEF EsDir, Pgdirs, Buena, Forma
    <3>2. PageLookup(n, d[f], vb) =
                IF d[f] = d[e] /\ vb = va THEN v ELSE PageLookup(m, d[f], vb)
      BY <3>1
    <3>3. Vista(n, d)[f][vb] = PageLookup(n, d[f], vb) /\ Vista(m, d)[f][vb] = PageLookup(m, d[f], vb)
      BY <2>2, VistaTipo
    <3>4. Cambia(Vista(m, d), e, va, v)[f][vb] =
                IF f = e /\ vb = va THEN v ELSE Vista(m, d)[f][vb]
      BY CambiaTipo
    <3> QED
      BY <3>1, <3>2, <3>3, <3>4
  <2> QED
    BY <2>1, <2>2
<1> QED
  BY <1>1, CambiaIgual

\* A page that has no count is mapped nowhere.
LEMMA SinCuentaAjena ==
    ASSUME NEW m, NEW d, NEW x, Buena(m, d, x), NEW p \in Pages, m.pp_ref[p] = 0
    PROVE  Ajena(Vista(m, d), p)
<1> SUFFICES ASSUME NEW e \in Envs, NEW va \in VAs, Vista(m, d)[e][va] # NULO
             PROVE  Vista(m, d)[e][va].pagina # p
  BY DEF Ajena
<1>1. d[e] # NULO /\ PageLookup(m, d[e], va) # NULO
      /\ Vista(m, d)[e][va] = PageLookup(m, d[e], va)
  BY VistaTipo
<1>2. d[e] \in Pages /\ EsDir(d, d[e])
  BY <1>1 DEF Buena, Pgdirs, EsDir
<1>3. m.pp_ref[PageLookup(m, d[e], va).pagina] \in 1 .. REF_MOD - 1
  BY <1>1, <1>2, LookupParts
<1> QED
  BY <1>1, <1>3

\* Only the TLBs change.
LEMMA TlbPaso ==
    ASSUME NEW m, NEW d, Buena(m, d, NULO), NEW n \in Memorias,
           n.pp_ref = m.pp_ref, n.marco = m.marco, n.page_free_list = m.page_free_list
    PROVE  Paso(m, d, n, d) /\ Vista(n, d) = Vista(m, d)
<1>1. Buena(n, d, NULO)
  BY DEF Buena, Contada
<1>2. Vista(n, d) = Vista(m, d)
  BY DEF Vista, PageLookup, Pde
<1> QED
  BY <1>1, <1>2 DEF Paso, PasoEspacios, PerdidaEn

-----------------------------------------------------------------------------
\* The helpers of the page system calls.

\* env_page_alloc: it maps a page that nobody has; or it fails, and then either
\* nothing has changed or the last page of the list is lost.
LEMMA PageAllocPaso ==
    ASSUME NEW m, Buena(m, env_pgdir, NULO), SinVueltaEn(m),
           NEW c \in CPUs, NEW e \in Envs, env_pgdir[e] # NULO, NEW va \in VAs, NEW w \in BOOLEAN
    PROVE  LET n == EnvPageAlloc(m, c, e, va, w)
               v == [pagina |-> Primera(m), w |-> w]
           IN  /\ Paso(m, env_pgdir, n, env_pgdir)
               /\ SoloEn(m, n, c, env_pgdir[e])
               /\ IF AllocFalla(m, e, va) THEN Vista(n, env_pgdir) = Vista(m, env_pgdir)
                  ELSE /\ Vista(n, env_pgdir) = Cambia(Vista(m, env_pgdir), e, va, v)
                       /\ \A q \in Pages : PerdidaEn(n, q) => PerdidaEn(m, q)
                       /\ \A q \in Pages : ~EnSeq(m.page_free_list, q) =>
                                                n.pp_ref[q] <= m.pp_ref[q]
<1> DEFINE n == EnvPageAlloc(m, c, e, va, w)
           a == PageAlloc(m)
           p == Primera(m)
           g == env_pgdir[e]
           v == [pagina |-> p, w |-> w]
<1>1. g \in Pages /\ EsDir(env_pgdir, g) /\ m \in Memorias /\ env_pgdir \in Pgdirs
  BY DEF Buena, Pgdirs, EsDir
<1>2. CASE ~HayLibre(m)
  <2>1. n = m /\ AllocFalla(m, e, va)
    BY <1>2 DEF EnvPageAlloc, AllocFalla
  <2> QED
    BY <1>1, <2>1, TlbPaso DEF SoloEn
<1>3. CASE HayLibre(m)
  <2>1. /\ n = PageInsert(a, c, g, p, va, w)
        /\ AllocFalla(m, e, va) <=> InsertaFalla(a, g, va)
    BY <1>3 DEF EnvPageAlloc, AllocFalla
  <2>2. /\ p \in Pages /\ m.pp_ref[p] = 0 /\ EnSeq(m.page_free_list, p)
        /\ Buena(a, env_pgdir, NULO)
        /\ a.pp_ref = m.pp_ref /\ a.tlb = m.tlb /\ a.marco = m.marco
        /\ \A q : EnSeq(a.page_free_list, q) <=> EnSeq(m.page_free_list, q) /\ q # p
    BY <1>3, AllocBuena
  <2>3. ~EsDir(env_pgdir, p) /\ ~EsTab(m.marco, env_pgdir, p) /\ Ajena(Vista(m, env_pgdir), p)
    BY <2>2, SinCuenta, SinCuentaAjena
  <2> HIDE DEF a, p, n, g
  <2>4. Vista(a, env_pgdir) = Vista(m, env_pgdir)
    BY <2>2 DEF Vista, PageLookup, Pde
  <2>5. CASE InsertaFalla(a, g, va)
    <3>1. n = a
      BY <2>1, <2>5 DEF PageInsert
    <3>2. a.page_free_list = <<>>
      BY <2>5 DEF InsertaFalla, HayLibre
    <3> QED
      BY <2>1, <2>2, <2>4, <2>5, <3>1, <3>2 DEF Paso, PasoEspacios, SoloEn, n
  <2>6. CASE ~InsertaFalla(a, g, va)
    <3>1. a.pp_ref[p] + 1 < REF_MOD
      BY <2>2 DEF SinVueltaEn
    <3>2. /\ Buena(n, env_pgdir, NULO)
          /\ \A k \in CPUs : k = c \/ cr3[k] # g => n.tlb[k] = a.tlb[k]
          /\ \A h \in Pages : EsDir(env_pgdir, h) => \A vb \in VAs :
                PageLookup(n, h, vb) = IF h = g /\ vb = va THEN v ELSE PageLookup(a, h, vb)
          /\ \A q \in Pages : ~EnSeq(a.page_free_list, q) /\ q # p => n.pp_ref[q] <= a.pp_ref[q]
          /\ \A q \in Pages : PerdidaEn(n, q) => PerdidaEn(a, q) /\ q # p
      BY <1>1, <2>1, <2>2, <2>3, <2>6, <3>1, InsertBuena
    <3>3. v \in Entrada /\ v.pagina = p
      BY <2>2 DEF Entrada
    <3> HIDE DEF v
    <3>4. Vista(n, env_pgdir) = Cambia(Vista(m, env_pgdir), e, va, v)
      BY <1>1, <2>2, <2>4, <3>2, VistaCambia DEF g
    <3>5. PasoEspacios(Vista(m, env_pgdir), Vista(n, env_pgdir))
      BY <2>3, <3>3, <3>4 DEF PasoEspacios
    <3>6. \A q \in Pages : PerdidaEn(n, q) => PerdidaEn(m, q)
      BY <2>2, <3>2 DEF PerdidaEn
    <3>7. SoloEn(m, n, c, g)
      BY <2>2, <3>2 DEF SoloEn
    <3>8. \A q \in Pages : ~EnSeq(m.page_free_list, q) => n.pp_ref[q] <= m.pp_ref[q]
      BY <2>2, <3>2
    <3> QED
      BY <2>1, <2>6, <3>2, <3>4, <3>5, <3>6, <3>7, <3>8 DEF Paso, n, g, v, p
  <2> QED
    BY <2>5, <2>6
<1> QED
  BY <1>2, <1>3

\* env_page_map: it shares a page that is mapped, with no more access than its
\* source has; or it fails, and nothing has changed.
LEMMA PageMapPaso ==
    ASSUME NEW m, Buena(m, env_pgdir, NULO), NEW c \in CPUs,
           NEW src \in Envs, env_pgdir[src] # NULO, NEW srcva \in VAs,
           NEW dst \in Envs, env_pgdir[dst] # NULO, NEW va \in VAs, NEW w \in BOOLEAN,
           LET pte == Vista(m, env_pgdir)[src][srcva]
           IN  pte # NULO => m.pp_ref[pte.pagina] + 1 < REF_MOD
    PROVE  LET n   == EnvPageMap(m, c, src, srcva, dst, va, w)
               pte == Vista(m, env_pgdir)[src][srcva]
           IN  /\ Paso(m, env_pgdir, n, env_pgdir)
               /\ SoloEn(m, n, c, env_pgdir[dst])
               /\ \A q \in Pages : PerdidaEn(n, q) => PerdidaEn(m, q)
               /\ ~MapFalla(m, src, srcva, dst, va, w) =>
                    /\ pte # NULO /\ pte \in Entrada /\ (w => pte.w)
                    /\ Vista(n, env_pgdir) =
                          Cambia(Vista(m, env_pgdir), dst, va, [pagina |-> pte.pagina, w |-> w])
<1> DEFINE n   == EnvPageMap(m, c, src, srcva, dst, va, w)
           pte == PageLookup(m, env_pgdir[src], srcva)
           g   == env_pgdir[dst]
           v   == [pagina |-> pte.pagina, w |-> w]
<1>1. /\ g \in Pages /\ EsDir(env_pgdir, g) /\ env_pgdir \in Pgdirs /\ m \in Memorias
      /\ env_pgdir[src] \in Pages /\ EsDir(env_pgdir, env_pgdir[src])
  BY DEF Buena, Pgdirs, EsDir
<1>2. Vista(m, env_pgdir)[src][srcva] = pte
  BY VistaTipo
<1>3. CASE MapFalla(m, src, srcva, dst, va, w)
  <2>1. n = m
    BY <1>3 DEF MapFalla, EnvPageMap, PageInsert
  <2> QED
    BY <1>1, <1>3, <2>1, TlbPaso DEF SoloEn
<1>4. CASE ~MapFalla(m, src, srcva, dst, va, w)
  <2>1. /\ pte # NULO /\ (w => pte.w) /\ ~InsertaFalla(m, g, va)
        /\ n = PageInsert(m, c, g, pte.pagina, va, w)
    BY <1>4 DEF MapFalla, EnvPageMap
  <2>2. /\ pte \in Entrada /\ pte.pagina \in Pages
        /\ ~EsDir(env_pgdir, pte.pagina) /\ ~EsTab(m.marco, env_pgdir, pte.pagina)
        /\ ~EnSeq(m.page_free_list, pte.pagina)
    BY <1>1, <2>1, LookupParts
  <2>3. m.pp_ref[pte.pagina] + 1 < REF_MOD
    BY <1>2, <2>1
  <2> HIDE DEF n, g, pte
  <2>4. /\ Buena(n, env_pgdir, NULO)
        /\ \A k \in CPUs : k = c \/ cr3[k] # g => n.tlb[k] = m.tlb[k]
        /\ \A h \in Pages : EsDir(env_pgdir, h) => \A vb \in VAs :
              PageLookup(n, h, vb) = IF h = g /\ vb = va THEN v ELSE PageLookup(m, h, vb)
        /\ \A q \in Pages : PerdidaEn(n, q) => PerdidaEn(m, q)
    BY <1>1, <2>1, <2>2, <2>3, InsertBuena
  <2>5. v \in Entrada /\ v.pagina = pte.pagina /\ v.w = w
    BY <2>2 DEF Entrada
  <2> HIDE DEF v
  <2>6. Vista(n, env_pgdir) = Cambia(Vista(m, env_pgdir), dst, va, v)
    BY <1>1, <2>4, VistaCambia DEF g
  <2>7. PasoEspacios(Vista(m, env_pgdir), Vista(n, env_pgdir))
    BY <1>2, <2>1, <2>5, <2>6 DEF PasoEspacios
  <2>8. SoloEn(m, n, c, g)
    BY <2>4 DEF SoloEn
  <2> QED
    BY <1>2, <2>1, <2>2, <2>4, <2>6, <2>7, <2>8 DEF Paso, n, g, v
<1> QED
  BY <1>3, <1>4

\* page_remove as a system call, and as a step of env_free.
LEMMA PageRemovePaso ==
    ASSUME NEW m, Buena(m, env_pgdir, NULO), NEW c \in CPUs,
           NEW e \in Envs, env_pgdir[e] # NULO, NEW va \in VAs
    PROVE  LET n == PageRemove(m, c, env_pgdir[e], va)
           IN  Paso(m, env_pgdir, n, env_pgdir) /\ SoloEn(m, n, c, env_pgdir[e])
<1> DEFINE g == env_pgdir[e]
           n == PageRemove(m, c, g, va)
<1>1. g \in Pages /\ EsDir(env_pgdir, g) /\ env_pgdir \in Pgdirs
  BY DEF Buena, Pgdirs, EsDir
<1>2. /\ Buena(n, env_pgdir, NULO)
      /\ \A k \in CPUs : k = c \/ cr3[k] # g => n.tlb[k] = m.tlb[k]
      /\ \A h \in Pages : EsDir(env_pgdir, h) => \A vb \in VAs :
            PageLookup(n, h, vb) = IF h = g /\ vb = va THEN NULO ELSE PageLookup(m, h, vb)
      /\ \A q \in Pages : PerdidaEn(n, q) => PerdidaEn(m, q)
  BY <1>1, RemueveBuena
<1> HIDE DEF n, g
<1>3. Vista(n, env_pgdir) = Cambia(Vista(m, env_pgdir), e, va, NULO)
  <2>1. PICK v : v = NULO
    OBVIOUS
  <2> QED
    BY <1>1, <1>2, <2>1, VistaCambia DEF g
<1>4. PasoEspacios(Vista(m, env_pgdir), Vista(n, env_pgdir))
  BY <1>3 DEF PasoEspacios
<1> QED
  BY <1>2, <1>4 DEF Paso, SoloEn, n, g

\* The page that sys_ipc_try_send maps: another one is allocated at the address
\* first, and if the second step fails it stays there.
LEMMA EnvioPaso ==
    ASSUME NEW m, Buena(m, env_pgdir, NULO), SinVueltaEn(m), NEW c \in CPUs,
           NEW e \in Envs, env_pgdir[e] # NULO, NEW srcva \in VAs,
           NEW t \in Envs, env_pgdir[t] # NULO, t # e, NEW va \in VAs, NEW w \in BOOLEAN
    PROVE  LET a == EnvPageAlloc(m, c, t, va, w)
               n == IF AllocFalla(m, t, va) \/ MapFalla(a, e, srcva, t, va, w)
                    THEN a ELSE EnvPageMap(a, c, e, srcva, t, va, w)
           IN  Paso(m, env_pgdir, n, env_pgdir) /\ SoloEn(m, n, c, env_pgdir[t])
<1> DEFINE a == EnvPageAlloc(m, c, t, va, w)
           n == EnvPageMap(a, c, e, srcva, t, va, w)
           s == Vista(m, env_pgdir)
           v == [pagina |-> Primera(m), w |-> w]
           pte == s[e][srcva]
           u == [pagina |-> pte.pagina, w |-> w]
<1>1. /\ Paso(m, env_pgdir, a, env_pgdir) /\ SoloEn(m, a, c, env_pgdir[t])
      /\ ~AllocFalla(m, t, va) =>
            /\ Vista(a, env_pgdir) = Cambia(s, t, va, v)
            /\ \A q \in Pages : PerdidaEn(a, q) => PerdidaEn(m, q)
            /\ \A q \in Pages : ~EnSeq(m.page_free_list, q) => a.pp_ref[q] <= m.pp_ref[q]
  BY PageAllocPaso
<1>2. CASE AllocFalla(m, t, va) \/ MapFalla(a, e, srcva, t, va, w)
  BY <1>1, <1>2
<1>3. CASE ~AllocFalla(m, t, va) /\ ~MapFalla(a, e, srcva, t, va, w)
  <2> HIDE DEF a, v
  <2>1. Buena(a, env_pgdir, NULO) /\ a \in Memorias /\ m \in Memorias
    BY <1>1 DEF Paso, Buena
  <2>2. Vista(a, env_pgdir)[e][srcva] = pte
    BY <1>1, <1>3, CambiaTipo
  <2>3. ASSUME pte # NULO PROVE a.pp_ref[pte.pagina] + 1 < REF_MOD
    <3>1. env_pgdir[e] \in Pages /\ EsDir(env_pgdir, env_pgdir[e])
      BY DEF Buena, Pgdirs, EsDir
    <3>2. pte = PageLookup(m, env_pgdir[e], srcva)
      BY VistaTipo
    <3>3. pte.pagina \in Pages /\ ~EnSeq(m.page_free_list, pte.pagina)
      BY <2>3, <3>1, <3>2, LookupParts
    <3>4. a.pp_ref[pte.pagina] <= m.pp_ref[pte.pagina] /\ m.pp_ref[pte.pagina] + 1 < REF_MOD
      BY <1>1, <1>3, <3>3 DEF SinVueltaEn
    <3>5. a.pp_ref[pte.pagina] \in Nat /\ m.pp_ref[pte.pagina] \in Nat /\ REF_MOD \in Nat
      BY <2>1, <3>3, PhysMemAssumption DEF Memorias
    <3> QED
      BY <3>4, <3>5
  <2> HIDE DEF pte
  <2>4. /\ Paso(a, env_pgdir, n, env_pgdir) /\ SoloEn(a, n, c, env_pgdir[t])
        /\ \A q \in Pages : PerdidaEn(n, q) => PerdidaEn(a, q)
        /\ pte # NULO /\ pte \in Entrada /\ (w => pte.w)
        /\ Vista(n, env_pgdir) = Cambia(Vista(a, env_pgdir), t, va, u)
    BY <1>3, <2>1, <2>2, <2>3, PageMapPaso
  <2>5. u \in Entrada /\ u.pagina = pte.pagina /\ u.w = w
    BY <2>4 DEF Entrada
  <2> HIDE DEF n, u
  <2>6. Vista(n, env_pgdir) = Cambia(s, t, va, u)
    <3>1. ASSUME NEW f \in Envs, NEW vb \in VAs
          PROVE  Vista(n, env_pgdir)[f][vb] = Cambia(s, t, va, u)[f][vb]
      <4>1. Vista(n, env_pgdir)[f][vb] =
                IF f = t /\ vb = va THEN u ELSE Vista(a, env_pgdir)[f][vb]
        BY <2>4, CambiaTipo
      <4>2. Vista(a, env_pgdir)[f][vb] = IF f = t /\ vb = va THEN v ELSE s[f][vb]
        BY <1>1, <1>3, CambiaTipo
      <4>3. Cambia(s, t, va, u)[f][vb] = IF f = t /\ vb = va THEN u ELSE s[f][vb]
        BY CambiaTipo
      <4> QED
        BY <4>1, <4>2, <4>3
    <3> QED
      BY <3>1, CambiaIgual
  <2>7. PasoEspacios(s, Vista(n, env_pgdir))
    BY <2>4, <2>5, <2>6 DEF PasoEspacios, pte
  <2>8. SoloEn(m, n, c, env_pgdir[t])
    BY <1>1, <2>4 DEF SoloEn
  <2>9. Paso(m, env_pgdir, n, env_pgdir)
    BY <1>1, <1>3, <2>4, <2>7 DEF Paso
  <2> QED
    BY <1>3, <2>8, <2>9 DEF a, n
<1> QED
  BY <1>2, <1>3

-----------------------------------------------------------------------------
\* The directory of an environment.

\* env_setup_vm: an empty directory, so a space where nothing is mapped.
LEMMA NuevoDirPaso ==
    ASSUME NEW m, NEW d, Buena(m, d, NULO), SinVueltaEn(m), HayLibre(m),
           NEW e \in Envs, d[e] = NULO
    PROVE  LET n == PageIncref(PageAlloc(m), Primera(m))
           IN  /\ Paso(m, d, n, PonDir(d, e, Primera(m))) /\ n.tlb = m.tlb
               /\ Primera(m) \in Pages /\ ~EsDir(d, Primera(m))
<1> DEFINE a == PageAlloc(m)
           p == Primera(m)
           n == PageIncref(a, p)
           b == PonDir(d, e, p)
<1>1. /\ p \in Pages /\ m.pp_ref[p] = 0 /\ EnSeq(m.page_free_list, p)
      /\ Buena(a, d, NULO)
      /\ a.pp_ref = m.pp_ref /\ a.tlb = m.tlb /\ a.marco = m.marco
      /\ \A q : EnSeq(a.page_free_list, q) <=> EnSeq(m.page_free_list, q) /\ q # p
  BY AllocBuena
<1>2. /\ \A j \in Indices : m.marco[p][j] = NULO
      /\ \A q \in Pages, i \in Indices : ~Apunta(m.marco, q, i, p)
      /\ ~EsDir(d, p)
  BY <1>1, SinCuenta
<1>3. d \in Pgdirs /\ m \in Memorias /\ m.marco \in Marcos /\ Forma(m.marco, d)
  BY DEF Buena, Memorias
<1> HIDE DEF a, p
<1>4. /\ Buena(n, d, p) /\ n.marco = a.marco /\ n.tlb = a.tlb
      /\ n.page_free_list = a.page_free_list
      /\ \A q \in Pages : n.pp_ref[q] = a.pp_ref[q] + (IF q = p THEN 1 ELSE 0)
  <2>1. a.pp_ref[p] + 1 < REF_MOD /\ ~EnSeq(a.page_free_list, p)
    BY <1>1 DEF SinVueltaEn
  <2> QED
    BY <1>1, <2>1, IncrefBuena
<1> HIDE DEF n
<1>5. b \in Pgdirs
  BY <1>1, <1>3 DEF Pgdirs, PonDir
<1>6. Forma(n.marco, b)
  BY <1>1, <1>2, <1>3, <1>4, FormaDir
<1>7. Contada(n, b, NULO)
  <2> SUFFICES ASSUME NEW q \in Pages PROVE n.pp_ref[q] = Cuenta(n.marco, b, q)
    BY Constantes, Finitos DEF Contada
  <2>1. n.pp_ref[q] = Cuenta(n.marco, d, q) + (IF q = p THEN 1 ELSE 0)
    BY <1>4 DEF Buena, Contada
  <2>2. Cuenta(n.marco, b, q) = Cuenta(n.marco, d, q) + (IF q = p THEN 1 ELSE 0)
    BY <1>1, <1>3, DirCuenta
  <2> QED
    BY <2>1, <2>2
<1> HIDE DEF b
<1>8. Buena(n, b, NULO)
  BY <1>4, <1>5, <1>6, <1>7 DEF Buena
<1>9. \A f \in Envs : b[f] = IF f = e THEN p ELSE d[f]
  BY <1>3 DEF b, Pgdirs, PonDir
<1>10. Vista(n, b) = Vista(m, d)
  <2> SUFFICES ASSUME NEW f \in Envs, NEW va \in VAs
               PROVE  Vista(n, b)[f][va] = Vista(m, d)[f][va]
    BY VistaIgual
  <2>1. va[1] \in Indices
    BY Constantes
  <2>2. CASE f = e
    <3>1. PageLookup(n, p, va) = NULO
      BY <1>1, <1>2, <1>4, <2>1 DEF PageLookup, Pde
    <3> QED
      BY <1>9, <2>2, <3>1, VistaTipo
  <2>3. CASE f # e
    <3>1. \A h : PageLookup(n, h, va) = PageLookup(m, h, va)
      BY <1>1, <1>4 DEF PageLookup, Pde
    <3> QED
      BY <1>9, <2>3, <3>1, VistaTipo
  <2> QED
    BY <2>2, <2>3
<1>11. ASSUME NEW q \in Pages, PerdidaEn(n, q) PROVE PerdidaEn(m, q)
  <2>1. m.pp_ref[q] \in Nat
    BY <1>3 DEF Memorias
  <2> QED
    BY <1>1, <1>4, <1>11, <2>1 DEF PerdidaEn
<1> QED
  BY <1>1, <1>2, <1>4, <1>8, <1>10, <1>11 DEF Paso, PasoEspacios, n, a, b, p

\* env_free of a table, when nothing is mapped in it.
LEMMA SinTablaPaso ==
    ASSUME NEW m, NEW d, Buena(m, d, NULO), NEW e \in Envs, d[e] # NULO,
           NEW i \in 0 .. NPD - 1, m.marco[d[e]][i] # NULO,
           \A va \in VAs : PageLookup(m, d[e], va) # NULO => va[1] # i
    PROVE  LET n == PageDecref(PonMem(m, d[e], i, NULO), m.marco[d[e]][i].pagina)
           IN  Paso(m, d, n, d) /\ n.tlb = m.tlb
<1> DEFINE g == d[e]
           t == m.marco[g][i].pagina
           k == PonMem(m, g, i, NULO)
           n == PageDecref(k, t)
           r == PageDecref(m, t)
<1>1. /\ m \in Memorias /\ m.marco \in Marcos /\ d \in Pgdirs /\ Forma(m.marco, d)
      /\ g \in Pages /\ EsDir(d, g) /\ i \in Indices /\ NULO \in Entrada \cup {NULO}
  BY Constantes DEF Buena, Memorias, Pgdirs, EsDir
<1>2. t \in Pages /\ Apunta(m.marco, g, i, t) /\ EsTab(m.marco, d, t) /\ ~EsDir(d, t)
  BY <1>1, TablaDe
<1>3. ASSUME NEW j \in Indices PROVE m.marco[t][j] = NULO
  <2>1. CASE j \in 0 .. NPT - 1
    <3> DEFINE va == <<i, j>>
    <3>1. va \in VAs /\ va[1] = i /\ va[2] = j
      BY <2>1 DEF VAs
    <3> HIDE DEF va
    <3>2. PageLookup(m, g, va) = NULO
      BY <3>1
    <3> QED
      BY <3>1, <3>2 DEF PageLookup, Pde
  <2>2. CASE j \notin 0 .. NPT - 1
    <3>1. j \in Nat /\ ~(j < NPT)
      BY <2>2, Constantes, PhysMemAssumption
    <3> QED
      BY <1>1, <1>2, <3>1 DEF Forma
  <2> QED
    BY <2>1, <2>2
<1>4. /\ k \in Memorias /\ k.pp_ref = m.pp_ref /\ k.tlb = m.tlb
      /\ k.page_free_list = m.page_free_list /\ k.marco = Pon(m.marco, g, i, NULO)
  BY <1>1, EscribeCampos
<1> HIDE DEF k, t
<1>5. /\ n \in Memorias /\ n.marco = k.marco /\ n.tlb = k.tlb
      /\ n.pp_ref = [k.pp_ref EXCEPT ![t] = (@ + REF_MOD - 1) % REF_MOD]
      /\ n.page_free_list = IF n.pp_ref[t] = 0
                            THEN <<t>> \o k.page_free_list ELSE k.page_free_list
  BY <1>2, <1>4, DecrefCampos
<1>6. /\ r.pp_ref = [m.pp_ref EXCEPT ![t] = (@ + REF_MOD - 1) % REF_MOD]
      /\ r.page_free_list = IF r.pp_ref[t] = 0
                            THEN <<t>> \o m.page_free_list ELSE m.page_free_list
  BY <1>1, <1>2, DecrefCampos
<1>7. n.pp_ref = r.pp_ref /\ n.page_free_list = r.page_free_list
  BY <1>4, <1>5, <1>6
<1> HIDE DEF n, g
<1>8. n.marco = Pon(m.marco, g, i, NULO)
  BY <1>4, <1>5
<1>9. Forma(n.marco, d)
  BY <1>1, <1>2, <1>3, <1>8, FormaSinPde DEF t, g
<1>10. \A q \in Pages : Cuenta(m.marco, d, q) = Cuenta(n.marco, d, q) + (IF q = t THEN 1 ELSE 0)
  <2> SUFFICES ASSUME NEW q \in Pages
               PROVE  Cuenta(m.marco, d, q) = Cuenta(n.marco, d, q) + (IF q = t THEN 1 ELSE 0)
    OBVIOUS
  <2>1. m.marco[g][i] # NULO /\ m.marco[g][i].pagina = t
    BY DEF g, t
  <2>2. Cuenta(m.marco, d, q) = Cuenta(Pon(m.marco, g, i, NULO), d, q)
                                    + (IF q = m.marco[g][i].pagina THEN 1 ELSE 0)
    BY <1>1, <2>1, QuitaCuenta
  <2> QED
    BY <1>8, <2>1, <2>2
<1>11. Buena(n, d, NULO) /\ \A q \in Pages : PerdidaEn(n, q) => PerdidaEn(m, q)
  BY <1>1, <1>2, <1>5, <1>7, <1>9, <1>10, DecrefBuena DEF r
<1>12. ASSUME NEW h \in Pages, EsDir(d, h), NEW va \in VAs
       PROVE  PageLookup(n, h, va) = PageLookup(m, h, va)
  <2>1. va[1] \in Indices /\ va[2] \in Indices
    BY Constantes
  <2>2. \A q \in Pages, j \in Indices :
            n.marco[q][j] = IF q = g /\ j = i THEN NULO ELSE m.marco[q][j]
    BY <1>1, <1>8 DEF Marcos, Pon
  <2>3. CASE h = g /\ va[1] = i
    <3>1. PageLookup(n, h, va) = NULO
      BY <1>1, <2>2, <2>3 DEF PageLookup, Pde
    <3>2. PageLookup(m, h, va) = NULO
      BY <2>3 DEF g
    <3> QED
      BY <3>1, <3>2
  <2>4. CASE ~(h = g /\ va[1] = i)
    <3>1. Pde(n, h, va) = Pde(m, h, va)
      BY <2>1, <2>2, <2>4 DEF Pde
    <3>2. CASE Pde(m, h, va) = NULO
      BY <3>1, <3>2 DEF PageLookup
    <3>3. CASE Pde(m, h, va) # NULO
      <4>1. Pde(m, h, va).pagina \in Pages /\ ~EsDir(d, Pde(m, h, va).pagina)
        BY <1>1, <1>12, <2>1, <3>3, TablaDe DEF Pde
      <4>2. Pde(m, h, va).pagina # g
        BY <1>1, <4>1
      <4> QED
        BY <2>1, <2>2, <3>1, <3>3, <4>1, <4>2 DEF PageLookup
    <3> QED
      BY <3>2, <3>3
  <2> QED
    BY <2>3, <2>4
<1>13. Vista(n, d) = Vista(m, d)
  <2> SUFFICES ASSUME NEW f \in Envs, NEW va \in VAs
               PROVE  Vista(n, d)[f][va] = Vista(m, d)[f][va]
    BY VistaIgual
  <2>1. d[f] # NULO => d[f] \in Pages /\ EsDir(d, d[f])
    BY <1>1 DEF Pgdirs, EsDir
  <2> QED
    BY <1>12, <2>1, VistaTipo
<1> QED
  BY <1>4, <1>5, <1>11, <1>13 DEF Paso, PasoEspacios, n, k, t, g

\* env_free of the directory, when it has no table left.
LEMMA SinDirPaso ==
    ASSUME NEW m, NEW d, Buena(m, d, NULO), NEW e \in Envs, d[e] # NULO,
           \A i \in 0 .. NPD - 1 : m.marco[d[e]][i] = NULO
    PROVE  LET n == PageDecref(m, d[e])
           IN  Paso(m, d, n, PonDir(d, e, NULO)) /\ n.tlb = m.tlb
<1> DEFINE g == d[e]
           n == PageDecref(m, g)
           b == PonDir(d, e, NULO)
<1>1. /\ m \in Memorias /\ m.marco \in Marcos /\ d \in Pgdirs /\ Forma(m.marco, d)
      /\ g \in Pages /\ EsDir(d, g)
  BY DEF Buena, Memorias, Pgdirs, EsDir
<1>2. ASSUME NEW j \in Indices PROVE m.marco[g][j] = NULO
  <2>1. CASE j \in 0 .. NPD - 1
    BY <2>1
  <2>2. CASE j \notin 0 .. NPD - 1
    <3>1. j \in Nat /\ ~(j < NPD)
      BY <2>2, Constantes, PhysMemAssumption
    <3>2. ~EsTab(m.marco, d, g)
      BY <1>1 DEF Forma, EsTab
    <3> QED
      BY <1>1, <3>1, <3>2 DEF Forma
  <2> QED
    BY <2>1, <2>2
<1>3. n \in Memorias /\ n.marco = m.marco /\ n.tlb = m.tlb
  BY <1>1, DecrefCampos
<1> HIDE DEF g
<1>4. b \in Pgdirs /\ \A f \in Envs : b[f] = IF f = e THEN NULO ELSE d[f]
  BY <1>1 DEF Pgdirs, PonDir
<1>5. Forma(n.marco, b)
  BY <1>1, <1>2, <1>3, FormaSinDir DEF g
<1>6. \A q \in Pages : Cuenta(m.marco, d, q) = Cuenta(n.marco, b, q) + (IF q = g THEN 1 ELSE 0)
  BY <1>1, <1>3, SinDirCuenta DEF g
<1>7. n.pp_ref = PageDecref(m, g).pp_ref /\ n.page_free_list = PageDecref(m, g).page_free_list
  OBVIOUS
<1> HIDE DEF n, b
<1>8. Buena(n, b, NULO) /\ \A q \in Pages : PerdidaEn(n, q) => PerdidaEn(m, q)
  BY <1>1, <1>3, <1>4, <1>5, <1>6, <1>7, DecrefBuena
<1>9. Vista(n, b) = Vista(m, d)
  <2> SUFFICES ASSUME NEW f \in Envs, NEW va \in VAs
               PROVE  Vista(n, b)[f][va] = Vista(m, d)[f][va]
    BY VistaIgual
  <2>1. \A h : PageLookup(n, h, va) = PageLookup(m, h, va)
    BY <1>3 DEF PageLookup, Pde
  <2>2. PageLookup(m, g, va) = NULO
    BY <1>2, Constantes DEF PageLookup, Pde
  <2> QED
    BY <1>4, <2>1, <2>2, VistaTipo DEF g
<1> QED
  BY <1>3, <1>8, <1>9 DEF Paso, PasoEspacios, n, b, g

-----------------------------------------------------------------------------
\* The environments and the CPUs.

Estados == {"FREE", "DYING", "RUNNABLE", "RUNNING", "NOT_RUNNABLE"}

\* A slot has a directory when it is not free; until i386_init is over no CPU
\* runs; an environment that is being freed runs nowhere, and only its own CPU
\* may still have it as curenv, or runs the one that asked for it; an
\* environment runs on one CPU, and one that is neither running nor a zombie is
\* curenv only inside a call.
InvProcesos ==
    /\ env_status \in [Envs -> Estados]
    /\ padre \in [Envs -> Envs \cup {NULO}]
    /\ dstva \in [Envs -> VAs \cup {NULO}]
    /\ curenv \in [CPUs -> Envs \cup {NULO}]
    /\ cr3 \in [CPUs -> Pages \cup {NULO}]
    /\ nucleo \in CPUs \cup {NULO} /\ liberando \in Envs \cup {NULO}
    /\ cargando \in Envs \cup {NULO} /\ arrancado \in BOOLEAN
    /\ \A e \in Envs : env_pgdir[e] = NULO <=> env_status[e] = "FREE"
    /\ cargando # NULO => env_status[cargando] = "RUNNABLE" /\ ~arrancado
    /\ ~arrancado => nucleo = NULO /\ \A c \in CPUs : curenv[c] = NULO
    /\ liberando # NULO =>
            /\ nucleo # NULO /\ env_status[liberando] # "FREE"
            /\ \A c \in CPUs : curenv[c] = liberando => c = nucleo /\ cr3[c] = NULO
            /\ \/ curenv[nucleo] = liberando
               \/ curenv[nucleo] # NULO /\ env_status[curenv[nucleo]] = "RUNNING"
    /\ \A c \in CPUs : cr3[c] # NULO => curenv[c] # NULO /\ cr3[c] = env_pgdir[curenv[c]]
    /\ \A c, b \in CPUs : curenv[c] = curenv[b] /\ curenv[b] # NULO => c = b
    /\ \A c \in CPUs : curenv[c] # NULO =>
            /\ env_status[curenv[c]] # "FREE"
            /\ env_status[curenv[c]] \in {"RUNNABLE", "NOT_RUNNABLE"} => nucleo = c
    /\ \A e \in Envs : dstva[e] # NULO => env_status[e] = "NOT_RUNNABLE"

IInv == Buena(mem, env_pgdir, NULO) /\ InvProcesos

SinVuelta == SinVueltaEn(mem)

\* What StaleOnlyByParent says of a step.
PasoTlb ==
    \A c \in CPUs : ~(mem'.tlb[c] \subseteq mem.tlb[c]) =>
        \E d \in CPUs \ {c} : /\ curenv[d] # NULO
                              /\ curenv[c] # NULO
                              /\ padre[curenv[c]] = curenv[d]

PasoMem == Paso(mem, env_pgdir, mem', env_pgdir') /\ PasoTlb

LEMMA RetornaPaso ==
    ASSUME NEW m, NEW n, NEW d, NEW b, Paso(m, d, n, b), NEW c \in CPUs
    PROVE  LET r == [n EXCEPT !.tlb[c] = {}]
           IN  /\ Paso(m, d, r, b)
               /\ \A g : SoloEn(m, n, c, g) => SoloEn(m, r, c, g)
<1> DEFINE r == [n EXCEPT !.tlb[c] = {}]
<1>1. n \in Memorias /\ Buena(n, b, NULO)
  BY DEF Paso, Buena
<1>2. /\ r \in Memorias /\ r.pp_ref = n.pp_ref /\ r.marco = n.marco
      /\ r.page_free_list = n.page_free_list
      /\ \A k \in CPUs : r.tlb[k] \subseteq n.tlb[k]
  BY <1>1, RetornaCampos
<1> HIDE DEF r
<1>3. Paso(n, b, r, b) /\ Vista(r, b) = Vista(n, b)
  BY <1>1, <1>2, TlbPaso
<1>4. Paso(m, d, r, b)
  BY <1>2, <1>3 DEF Paso, PerdidaEn
<1>5. ASSUME NEW g, SoloEn(m, n, c, g) PROVE SoloEn(m, r, c, g)
  BY <1>2, <1>5 DEF SoloEn
<1> QED
  BY <1>4, <1>5 DEF r

\* Whose translations a step on the directory of e leaves stale.
LEMMA TlbDe ==
    ASSUME IInv, NEW c \in CPUs, NEW e \in Envs, env_pgdir[e] # NULO,
           SoloEn(mem, mem', c, env_pgdir[e]),
           \A k \in CPUs \ {c} : curenv[k] = e /\ cr3[k] # NULO =>
                                    curenv[c] # NULO /\ padre[e] = curenv[c]
    PROVE  PasoTlb
<1> SUFFICES ASSUME NEW k \in CPUs, ~(mem'.tlb[k] \subseteq mem.tlb[k])
             PROVE  \E d \in CPUs \ {k} : /\ curenv[d] # NULO
                                          /\ curenv[k] # NULO
                                          /\ padre[curenv[k]] = curenv[d]
  BY DEF PasoTlb
<1>1. k # c /\ cr3[k] = env_pgdir[e]
  BY DEF SoloEn
<1>2. curenv[k] # NULO /\ curenv[k] \in Envs /\ env_pgdir[curenv[k]] = env_pgdir[e]
  BY <1>1 DEF IInv, InvProcesos
<1>3. curenv[k] = e
  BY <1>2 DEF IInv, Buena, Forma
<1> QED
  BY <1>1, <1>2, <1>3

\* The TLBs of a step that does not touch them, or empties one.
LEMMA TlbMenos ==
    ASSUME \A k \in CPUs : mem'.tlb[k] \subseteq mem.tlb[k]
    PROVE  PasoTlb
BY DEF PasoTlb

-----------------------------------------------------------------------------
\* The memory in each action.

LEMMA QuietoPaso ==
    ASSUME IInv, UNCHANGED <<mem, env_pgdir>>
    PROVE  PasoMem
<1>1. mem \in Memorias /\ Buena(mem, env_pgdir, NULO)
  BY DEF IInv, Buena
<1>2. Paso(mem, env_pgdir, mem, env_pgdir)
  BY <1>1, TlbPaso
<1>3. PasoTlb
  BY TlbMenos
<1> QED
  BY <1>2, <1>3 DEF PasoMem

LEMMA EnvAllocPaso ==
    ASSUME IInv, SinVuelta, NEW e \in Envs, NEW p, EnvAlloc(e, p)
    PROVE  PasoMem /\ env_pgdir' = PonDir(env_pgdir, e, Primera(mem)) /\ Primera(mem) \in Pages
<1>1. Buena(mem, env_pgdir, NULO) /\ SinVueltaEn(mem) /\ HayLibre(mem) /\ env_pgdir[e] = NULO
  BY DEF IInv, InvProcesos, SinVuelta, EnvAlloc
<1>2. /\ mem' = PageIncref(PageAlloc(mem), Primera(mem))
      /\ env_pgdir' = PonDir(env_pgdir, e, Primera(mem))
  BY DEF EnvAlloc, PonDir
<1>3. /\ Paso(mem, env_pgdir, mem', env_pgdir') /\ mem'.tlb = mem.tlb
      /\ Primera(mem) \in Pages
  BY <1>1, <1>2, NuevoDirPaso
<1>4. PasoTlb
  BY <1>3, TlbMenos
<1> QED
  BY <1>2, <1>3, <1>4 DEF PasoMem

LEMMA RegionAllocPaso ==
    ASSUME IInv, SinVuelta, NEW c \in CPUs, NEW va \in VAs, RegionAlloc(c, va)
    PROVE  PasoMem
<1>1. /\ Buena(mem, env_pgdir, NULO) /\ SinVueltaEn(mem)
      /\ cargando \in Envs /\ env_pgdir[cargando] # NULO
      /\ \A k \in CPUs : cr3[k] = NULO
  BY DEF IInv, InvProcesos, SinVuelta, RegionAlloc
<1>2. mem' = EnvPageAlloc(mem, c, cargando, va, TRUE) /\ env_pgdir' = env_pgdir
  BY DEF RegionAlloc
<1>3. Paso(mem, env_pgdir, mem', env_pgdir') /\ SoloEn(mem, mem', c, env_pgdir[cargando])
  BY <1>1, <1>2, PageAllocPaso
<1>4. PasoTlb
  BY <1>1, <1>3, TlbDe
<1> QED
  BY <1>3, <1>4 DEF PasoMem

\* env_free: the pages, the tables and the directory.
LEMMA LiberaParts ==
    ASSUME IInv, liberando # NULO
    PROVE  /\ Buena(mem, env_pgdir, NULO) /\ nucleo \in CPUs
           /\ liberando \in Envs /\ env_pgdir[liberando] # NULO
           /\ \A k \in CPUs \ {nucleo} : curenv[k] # liberando
BY DEF IInv, InvProcesos

LEMMA EnvFreePagePaso ==
    ASSUME IInv, NEW va \in VAs, EnvFreePage(va)
    PROVE  PasoMem
<1>1. liberando # NULO /\ mem' = PageRemove(mem, nucleo, env_pgdir[liberando], va)
      /\ env_pgdir' = env_pgdir
  BY DEF EnvFreePage
<1>2. Paso(mem, env_pgdir, mem', env_pgdir') /\ SoloEn(mem, mem', nucleo, env_pgdir[liberando])
  BY <1>1, LiberaParts, PageRemovePaso
<1>3. PasoTlb
  BY <1>1, <1>2, LiberaParts, TlbDe
<1> QED
  BY <1>2, <1>3 DEF PasoMem

LEMMA EnvFreeTablePaso ==
    ASSUME IInv, NEW i \in 0 .. NPD - 1, EnvFreeTable(i)
    PROVE  PasoMem
<1> DEFINE g == env_pgdir[liberando]
<1>1. /\ liberando # NULO /\ mem.marco[g][i] # NULO /\ env_pgdir' = env_pgdir
      /\ \A va \in VAs : PageLookup(mem, g, va) # NULO => va[1] # i
      /\ mem' = PageDecref(PonMem(mem, g, i, NULO), mem.marco[g][i].pagina)
  BY DEF EnvFreeTable, Mapeadas, PonMem
<1>2. Paso(mem, env_pgdir, mem', env_pgdir') /\ mem'.tlb = mem.tlb
  BY <1>1, LiberaParts, SinTablaPaso
<1>3. PasoTlb
  BY <1>2, TlbMenos
<1> QED
  BY <1>2, <1>3 DEF PasoMem

LEMMA EnvFreeDirPaso ==
    ASSUME IInv, EnvFreeDir
    PROVE  PasoMem
<1>1. /\ liberando # NULO /\ env_pgdir' = PonDir(env_pgdir, liberando, NULO)
      /\ \A i \in 0 .. NPD - 1 : mem.marco[env_pgdir[liberando]][i] = NULO
      /\ mem' = PageDecref(mem, env_pgdir[liberando])
  BY DEF EnvFreeDir, PonDir
<1>2. Paso(mem, env_pgdir, mem', env_pgdir') /\ mem'.tlb = mem.tlb
  BY <1>1, LiberaParts, SinDirPaso
<1>3. PasoTlb
  BY <1>2, TlbMenos
<1> QED
  BY <1>2, <1>3 DEF PasoMem

\* The system calls.  A program reaches itself and its children only, so the
\* CPU that gains a stale translation runs a child.
LEMMA SirveParts ==
    ASSUME IInv, NEW c \in CPUs, Sirve(c)
    PROVE  /\ Buena(mem, env_pgdir, NULO) /\ mem \in Memorias
           /\ curenv[c] \in Envs /\ env_pgdir[curenv[c]] # NULO
           /\ \A k \in CPUs \ {c} : curenv[k] # curenv[c]
           /\ \A e \in Alcanza(c) :
                /\ e \in Envs /\ env_pgdir[e] # NULO
                /\ \A k \in CPUs \ {c} : curenv[k] = e => padre[e] = curenv[c]
           /\ \A e \in Envs : dstva[e] # NULO =>
                /\ env_pgdir[e] # NULO /\ e # curenv[c] /\ \A k \in CPUs : curenv[k] # e
<1>1. nucleo = NULO /\ curenv[c] # NULO /\ env_status[curenv[c]] = "RUNNING"
  BY DEF Sirve
<1>2. Buena(mem, env_pgdir, NULO) /\ mem \in Memorias /\ curenv[c] \in Envs
      /\ env_pgdir[curenv[c]] # NULO
  BY <1>1 DEF IInv, InvProcesos, Buena
<1>3. \A k \in CPUs \ {c} : curenv[k] # curenv[c]
  BY <1>1 DEF IInv, InvProcesos
<1>4. ASSUME NEW e \in Alcanza(c)
      PROVE  /\ e \in Envs /\ env_pgdir[e] # NULO
             /\ \A k \in CPUs \ {c} : curenv[k] = e => padre[e] = curenv[c]
  BY <1>1, <1>3, <1>4 DEF IInv, InvProcesos, Alcanza
<1>5. ASSUME NEW e \in Envs, dstva[e] # NULO
      PROVE  env_pgdir[e] # NULO /\ e # curenv[c] /\ \A k \in CPUs : curenv[k] # e
  <2>1. env_status[e] = "NOT_RUNNABLE"
    BY <1>5 DEF IInv, InvProcesos
  <2>2. env_pgdir[e] # NULO /\ e # curenv[c]
    BY <1>1, <2>1 DEF IInv, InvProcesos
  <2>3. ASSUME NEW k \in CPUs, curenv[k] = e PROVE nucleo = k
    BY <1>5, <2>1, <2>3, Constantes DEF IInv, InvProcesos
  <2> QED
    BY <1>1, <2>2, <2>3, Constantes
<1> QED
  BY <1>2, <1>3, <1>4, <1>5

LEMMA SysPageAllocPaso ==
    ASSUME IInv, SinVuelta, NEW c \in CPUs, NEW e \in Envs, NEW va \in VAs, NEW w \in BOOLEAN,
           SysPageAlloc(c, e, va, w)
    PROVE  PasoMem
<1> DEFINE n == EnvPageAlloc(mem, c, e, va, w)
<1>1. /\ Sirve(c) /\ e \in Alcanza(c) /\ env_pgdir' = env_pgdir
      /\ mem' = [n EXCEPT !.tlb[c] = {}]
  BY DEF SysPageAlloc, AlcanzaPaginas, Retorna
<1>2. Paso(mem, env_pgdir, n, env_pgdir) /\ SoloEn(mem, n, c, env_pgdir[e])
  BY <1>1, SirveParts, PageAllocPaso DEF SinVuelta
<1> HIDE DEF n
<1>3. Paso(mem, env_pgdir, mem', env_pgdir') /\ SoloEn(mem, mem', c, env_pgdir[e])
  BY <1>1, <1>2, RetornaPaso
<1>4.PasoTlb
  <2>1. env_pgdir[e] # NULO /\ curenv[c] # NULO
    BY <1>1, SirveParts, Constantes
  <2>2. \A k \in CPUs \ {c} : curenv[k] = e => padre[e] = curenv[c]
    BY <1>1, SirveParts
  <2> QED
    BY <1>3, <2>1, <2>2, TlbDe
<1> QED
  BY <1>3, <1>4 DEF PasoMem

LEMMA SysPageMapPaso ==
    ASSUME IInv, SinVuelta, NEW c \in CPUs, NEW src \in Envs, NEW srcva \in VAs,
           NEW dst \in Envs, NEW va \in VAs, NEW w \in BOOLEAN,
           SysPageMap(c, src, srcva, dst, va, w)
    PROVE  PasoMem
<1> DEFINE n == EnvPageMap(mem, c, src, srcva, dst, va, w)
           pte == Vista(mem, env_pgdir)[src][srcva]
<1>1. /\ Sirve(c) /\ src \in Alcanza(c) /\ dst \in Alcanza(c) /\ env_pgdir' = env_pgdir
      /\ mem' = [n EXCEPT !.tlb[c] = {}]
  BY DEF SysPageMap, AlcanzaPaginas, Retorna
<1>2. ASSUME pte # NULO PROVE mem.pp_ref[pte.pagina] + 1 < REF_MOD
  <2>1. env_pgdir[src] \in Pages /\ EsDir(env_pgdir, env_pgdir[src]) /\ Buena(mem, env_pgdir, NULO)
    BY <1>1, SirveParts DEF Buena, Pgdirs, EsDir
  <2>2. pte = PageLookup(mem, env_pgdir[src], srcva)
    BY <2>1, Constantes, VistaTipo
  <2>3. pte.pagina \in Pages
    BY <1>2, <2>1, <2>2, LookupParts
  <2> QED
    BY <2>3 DEF SinVuelta, SinVueltaEn
<1>3. Paso(mem, env_pgdir, n, env_pgdir) /\ SoloEn(mem, n, c, env_pgdir[dst])
  BY <1>1, <1>2, SirveParts, PageMapPaso
<1> HIDE DEF n
<1>4. Paso(mem, env_pgdir, mem', env_pgdir') /\ SoloEn(mem, mem', c, env_pgdir[dst])
  BY <1>1, <1>3, RetornaPaso
<1>5.PasoTlb
  <2>1. env_pgdir[dst] # NULO /\ curenv[c] # NULO
    BY <1>1, SirveParts, Constantes
  <2>2. \A k \in CPUs \ {c} : curenv[k] = dst => padre[dst] = curenv[c]
    BY <1>1, SirveParts
  <2> QED
    BY <1>4, <2>1, <2>2, TlbDe
<1> QED
  BY <1>4, <1>5 DEF PasoMem

LEMMA SysPageUnmapPaso ==
    ASSUME IInv, NEW c \in CPUs, NEW e \in Envs, NEW va \in VAs, SysPageUnmap(c, e, va)
    PROVE  PasoMem
<1> DEFINE n == PageRemove(mem, c, env_pgdir[e], va)
<1>1. /\ Sirve(c) /\ e \in Alcanza(c) /\ env_pgdir' = env_pgdir
      /\ mem' = [n EXCEPT !.tlb[c] = {}]
  BY DEF SysPageUnmap, AlcanzaPaginas, Retorna
<1>2. Paso(mem, env_pgdir, n, env_pgdir) /\ SoloEn(mem, n, c, env_pgdir[e])
  BY <1>1, SirveParts, PageRemovePaso
<1> HIDE DEF n
<1>3. Paso(mem, env_pgdir, mem', env_pgdir') /\ SoloEn(mem, mem', c, env_pgdir[e])
  BY <1>1, <1>2, RetornaPaso
<1>4.PasoTlb
  <2>1. env_pgdir[e] # NULO /\ curenv[c] # NULO
    BY <1>1, SirveParts, Constantes
  <2>2. \A k \in CPUs \ {c} : curenv[k] = e => padre[e] = curenv[c]
    BY <1>1, SirveParts
  <2> QED
    BY <1>3, <2>1, <2>2, TlbDe
<1> QED
  BY <1>3, <1>4 DEF PasoMem

\* A step that only empties the TLB of c.
LEMMA VaciaPaso ==
    ASSUME IInv, NEW c \in CPUs, mem' = [mem EXCEPT !.tlb[c] = {}], env_pgdir' = env_pgdir
    PROVE  PasoMem
<1>1. mem \in Memorias /\ Buena(mem, env_pgdir, NULO)
  BY DEF IInv, Buena
<1>2. Paso(mem, env_pgdir, mem, env_pgdir)
  BY <1>1, TlbPaso
<1>3. Paso(mem, env_pgdir, mem', env_pgdir')
  BY <1>2, RetornaPaso
<1>4. \A k \in CPUs : mem'.tlb[k] \subseteq mem.tlb[k]
  BY <1>1, RetornaCampos
<1> QED
  BY <1>3, <1>4, TlbMenos DEF PasoMem

LEMMA IpcTrySendPagePaso ==
    ASSUME IInv, SinVuelta, NEW c \in CPUs, NEW t \in Envs, NEW srcva \in VAs, NEW w \in BOOLEAN,
           IpcTrySendPage(c, t, srcva, w)
    PROVE  PasoMem
<1> DEFINE e == curenv[c]
           va == dstva[t]
           a == EnvPageAlloc(mem, c, t, va, w)
           falla == AllocFalla(mem, t, va) \/ MapFalla(a, e, srcva, t, va, w)
           n == IF falla THEN a ELSE EnvPageMap(a, c, e, srcva, t, va, w)
<1>1. /\ Sirve(c) /\ va # NULO /\ env_pgdir' = env_pgdir
      /\ \/ mem' = [mem EXCEPT !.tlb[c] = {}]
         \/ mem' = [n EXCEPT !.tlb[c] = {}]
  BY DEF IpcTrySendPage, Retorna
<1>2. CASE mem' = [mem EXCEPT !.tlb[c] = {}]
  BY <1>1, <1>2, VaciaPaso
<1>3. CASE mem' = [n EXCEPT !.tlb[c] = {}]
  <2>1. /\ e \in Envs /\ env_pgdir[e] # NULO /\ env_pgdir[t] # NULO /\ t # e
        /\ \A k \in CPUs : curenv[k] # t
    BY <1>1, SirveParts
  <2>2. va \in VAs
    BY <1>1 DEF IInv, InvProcesos
  <2> HIDE DEF e, va
  <2>3. Paso(mem, env_pgdir, n, env_pgdir) /\ SoloEn(mem, n, c, env_pgdir[t])
    BY <2>1, <2>2, EnvioPaso DEF IInv, SinVuelta
  <2> HIDE DEF n
  <2>4. Paso(mem, env_pgdir, mem', env_pgdir') /\ SoloEn(mem, mem', c, env_pgdir[t])
    BY <1>1, <1>3, <2>3, RetornaPaso
  <2>5. PasoTlb
    BY <2>1, <2>4, TlbDe
  <2> QED
    BY <2>4, <2>5 DEF PasoMem
<1> QED
  BY <1>1, <1>2, <1>3

-----------------------------------------------------------------------------
\* The environments and the CPUs in each action.

LEMMA EnvCreateProcesos ==
    ASSUME IInv, SinVuelta, NEW e \in Envs, EnvCreate(e)
    PROVE  InvProcesos'
<1>1. /\ EnvAlloc(e, NULO) /\ ~arrancado /\ cargando = NULO /\ env_status[e] = "FREE"
      /\ env_status' = [env_status EXCEPT ![e] = "RUNNABLE"] /\ cargando' = e
      /\ padre' = [padre EXCEPT ![e] = NULO] /\ dstva' = [dstva EXCEPT ![e] = NULO]
      /\ UNCHANGED <<curenv, cr3, nucleo, liberando, arrancado>>
  BY DEF EnvCreate, EnvAlloc
<1>2. env_pgdir' = PonDir(env_pgdir, e, Primera(mem)) /\ Primera(mem) \in Pages
  BY <1>1, Constantes, EnvAllocPaso
<1>3. env_pgdir \in Pgdirs
  BY DEF IInv, Buena
<1>4. \A f \in Envs : env_pgdir'[f] = IF f = e THEN Primera(mem) ELSE env_pgdir[f]
  BY <1>2, <1>3 DEF PonDir, Pgdirs
<1> QED
  BY <1>1, <1>2, <1>4, Constantes DEF IInv, InvProcesos, Estados

LEMMA CargadoProcesos ==
    ASSUME IInv, Cargado
    PROVE  InvProcesos'
BY DEF IInv, InvProcesos, Cargado, memoria, procesos, cpus

LEMMA EnvFreeDirProcesos ==
    ASSUME IInv, EnvFreeDir
    PROVE  InvProcesos'
<1> DEFINE e == liberando
<1>1. /\ e # NULO
      /\ env_pgdir' = [env_pgdir EXCEPT ![e] = NULO]
      /\ env_status' = [env_status EXCEPT ![e] = "FREE"]
      /\ padre' = [f \in Envs |-> IF padre[f] = e THEN NULO ELSE padre[f]]
      /\ dstva' = [dstva EXCEPT ![e] = NULO]
      /\ liberando' = NULO
      /\ \/ curenv[nucleo] = e /\ curenv' = [curenv EXCEPT ![nucleo] = NULO] /\ nucleo' = nucleo
         \/ curenv[nucleo] # e /\ nucleo' = NULO /\ curenv' = curenv
      /\ UNCHANGED <<cr3, cargando, arrancado>>
  BY DEF EnvFreeDir, arranque
<1>2. /\ e \in Envs /\ nucleo \in CPUs /\ env_status[e] # "FREE" /\ arrancado
      /\ \A c \in CPUs : curenv[c] = e => c = nucleo /\ cr3[c] = NULO
      /\ env_pgdir \in Pgdirs
  BY <1>1 DEF IInv, InvProcesos, Buena
<1>3. \A f \in Envs : /\ env_pgdir'[f] = IF f = e THEN NULO ELSE env_pgdir[f]
                      /\ env_status'[f] = IF f = e THEN "FREE" ELSE env_status[f]
                      /\ dstva'[f] = IF f = e THEN NULO ELSE dstva[f]
  BY <1>1, <1>2 DEF IInv, InvProcesos, Pgdirs
<1>4. \A c \in CPUs : curenv'[c] = IF curenv[c] = e THEN NULO ELSE curenv[c]
  BY <1>1, <1>2 DEF IInv, InvProcesos
<1>5. /\ env_status' \in [Envs -> Estados] /\ padre' \in [Envs -> Envs \cup {NULO}]
      /\ dstva' \in [Envs -> VAs \cup {NULO}] /\ curenv' \in [CPUs -> Envs \cup {NULO}]
      /\ cr3' \in [CPUs -> Pages \cup {NULO}] /\ nucleo' \in CPUs \cup {NULO}
  BY <1>1, <1>2 DEF IInv, InvProcesos, Estados
<1>6. \A f \in Envs : env_pgdir'[f] = NULO <=> env_status'[f] = "FREE"
  BY <1>3 DEF IInv, InvProcesos
<1>7. \A c \in CPUs : cr3'[c] # NULO => curenv'[c] # NULO /\ cr3'[c] = env_pgdir'[curenv'[c]]
  BY <1>1, <1>2, <1>3, <1>4 DEF IInv, InvProcesos
<1>8. \A c, b \in CPUs : curenv'[c] = curenv'[b] /\ curenv'[b] # NULO => c = b
  BY <1>4 DEF IInv, InvProcesos
<1>9. \A c \in CPUs : curenv'[c] # NULO =>
            /\ env_status'[curenv'[c]] # "FREE"
            /\ env_status'[curenv'[c]] \in {"RUNNABLE", "NOT_RUNNABLE"} => nucleo' = c
  <2> SUFFICES ASSUME NEW c \in CPUs, curenv'[c] # NULO
               PROVE  /\ env_status'[curenv'[c]] # "FREE"
                      /\ env_status'[curenv'[c]] \in {"RUNNABLE", "NOT_RUNNABLE"} => nucleo' = c
    OBVIOUS
  <2>1. curenv[c] # e /\ curenv'[c] = curenv[c] /\ curenv[c] \in Envs /\ curenv[c] # NULO
    BY <1>4 DEF IInv, InvProcesos
  <2>2. env_status'[curenv'[c]] = env_status[curenv[c]]
    BY <1>3, <2>1
  <2>3. ASSUME env_status[curenv[c]] \in {"RUNNABLE", "NOT_RUNNABLE"} PROVE nucleo' = c
    <3>1. nucleo = c
      BY <2>1, <2>3 DEF IInv, InvProcesos
    <3>2. CASE curenv[nucleo] = e
      BY <2>1, <3>1, <3>2
    <3>3. CASE curenv[nucleo] # e
      BY <1>1, <2>3, <3>1, <3>3 DEF IInv, InvProcesos
    <3> QED
      BY <3>2, <3>3
  <2> QED
    BY <2>1, <2>2, <2>3 DEF IInv, InvProcesos
<1>10. \A f \in Envs : dstva'[f] # NULO => env_status'[f] = "NOT_RUNNABLE"
  BY <1>3 DEF IInv, InvProcesos
<1>11. arrancado' /\ cargando' \in Envs \cup {NULO} /\ arrancado' \in BOOLEAN /\ cargando' = NULO
  BY <1>1, <1>2 DEF IInv, InvProcesos
<1> QED
  BY <1>1, <1>5, <1>6, <1>7, <1>8, <1>9, <1>10, <1>11 DEF InvProcesos

\* sys_exofork and the other calls that make or change an environment.
LEMMA ExoforkProcesos ==
    ASSUME IInv, SinVuelta, NEW c \in CPUs, NEW e \in Envs, Exofork(c, e)
    PROVE  InvProcesos'
<1>1. /\ Sirve(c) /\ EnvAlloc(e, curenv[c]) /\ env_status[e] = "FREE"
      /\ env_status' = [env_status EXCEPT ![e] = "NOT_RUNNABLE"]
      /\ padre' = [padre EXCEPT ![e] = curenv[c]] /\ dstva' = [dstva EXCEPT ![e] = NULO]
      /\ UNCHANGED <<curenv, cr3, nucleo, liberando, cargando, arrancado>>
  BY DEF Exofork, EnvAlloc, cpus, arranque
<1>2. env_pgdir' = PonDir(env_pgdir, e, Primera(mem)) /\ Primera(mem) \in Pages
  BY <1>1, EnvAllocPaso
<1>3. env_pgdir \in Pgdirs
  BY DEF IInv, Buena
<1>4. \A f \in Envs : env_pgdir'[f] = IF f = e THEN Primera(mem) ELSE env_pgdir[f]
  BY <1>2, <1>3 DEF PonDir, Pgdirs
<1>5. nucleo = NULO /\ arrancado /\ cargando = NULO /\ liberando = NULO /\ curenv[c] \in Envs
  BY <1>1 DEF IInv, InvProcesos, Sirve
<1>6. \A k \in CPUs : curenv[k] # e
  BY <1>1, Constantes DEF IInv, InvProcesos
<1> QED
  BY <1>1, <1>2, <1>4, <1>5, <1>6, Constantes DEF IInv, InvProcesos, Estados

LEMMA SetStatusProcesos ==
    ASSUME IInv, NEW c \in CPUs, NEW e \in Envs, SetStatus(c, e)
    PROVE  InvProcesos'
<1>1. /\ nucleo = NULO /\ curenv[c] # NULO /\ env_status[e] = "NOT_RUNNABLE" /\ dstva[e] = NULO
      /\ env_status' = [env_status EXCEPT ![e] = "RUNNABLE"]
      /\ UNCHANGED <<env_pgdir, padre, dstva, curenv, cr3, nucleo, liberando, cargando, arrancado>>
  BY DEF SetStatus, SinArrancar, Sirve, memoria, cpus, arranque
<1>2. arrancado /\ cargando = NULO /\ liberando = NULO /\ \A k \in CPUs : curenv[k] # e
  BY <1>1, Constantes DEF IInv, InvProcesos
<1> QED
  BY <1>1, <1>2 DEF IInv, InvProcesos, Estados

LEMMA EnvFreeProcesos ==
    ASSUME IInv, NEW c \in CPUs, NEW e \in Envs, EnvFree(c, e), nucleo = NULO,
           curenv[c] # NULO, env_status[e] # "FREE",
           \/ e = curenv[c]
           \/ env_status[e] \in {"RUNNABLE", "NOT_RUNNABLE"} /\ env_status[curenv[c]] = "RUNNING",
           UNCHANGED <<env_pgdir, procesos, curenv, arranque>>
    PROVE  InvProcesos'
<1>1. /\ nucleo' = c /\ liberando' = e
      /\ cr3' = IF e = curenv[c] THEN [cr3 EXCEPT ![c] = NULO] ELSE cr3
      /\ UNCHANGED <<env_pgdir, env_status, padre, dstva, curenv, cargando, arrancado>>
  BY DEF EnvFree, procesos, arranque
<1>2. \A k \in CPUs : curenv[k] = e => k = c /\ e = curenv[c]
  <2> SUFFICES ASSUME NEW k \in CPUs, curenv[k] = e PROVE k = c /\ e = curenv[c]
    OBVIOUS
  <2>1. e # NULO
    BY Constantes
  <2>2. CASE e = curenv[c]
    BY <2>1, <2>2 DEF IInv, InvProcesos
  <2>3. CASE env_status[e] \in {"RUNNABLE", "NOT_RUNNABLE"}
    BY <2>1, <2>3, Constantes DEF IInv, InvProcesos
  <2> QED
    BY <2>2, <2>3
<1>3. arrancado /\ cargando = NULO /\ c # NULO
  BY Constantes DEF IInv, InvProcesos
<1>4. \A k \in CPUs : cr3'[k] = IF k = c /\ e = curenv[c] THEN NULO ELSE cr3[k]
  BY <1>1 DEF IInv, InvProcesos
<1>5. cr3' \in [CPUs -> Pages \cup {NULO}]
  BY <1>1 DEF IInv, InvProcesos
<1>6. \A k \in CPUs : curenv[k] # NULO => env_status[curenv[k]] \notin {"RUNNABLE", "NOT_RUNNABLE"}
  BY Constantes DEF IInv, InvProcesos
<1> QED
  BY <1>1, <1>2, <1>3, <1>4, <1>5, <1>6 DEF IInv, InvProcesos

\* env_destroy, when its caller does not destroy a zombie.
LEMMA EnvDestroyProcesos ==
    ASSUME IInv, NEW c \in CPUs, NEW e \in Envs, Sirve(c), EnvDestroy(c, e),
           env_status[e] \notin {"FREE", "DYING"}
    PROVE  InvProcesos'
<1>1. nucleo = NULO /\ curenv[c] # NULO /\ env_status[curenv[c]] = "RUNNING"
      /\ UNCHANGED <<env_pgdir, padre, dstva, curenv, cargando, arrancado>>
  BY DEF Sirve, EnvDestroy, memoria, arranque
<1>2. CASE env_status[e] = "RUNNING" /\ curenv[c] # e
  <2>1. env_status' = [env_status EXCEPT ![e] = "DYING"] /\ UNCHANGED <<cr3, nucleo, liberando>>
    BY <1>2 DEF EnvDestroy
  <2>2. arrancado /\ cargando = NULO /\ liberando = NULO
    BY <1>1, Constantes DEF IInv, InvProcesos
  <2> QED
    BY <1>1, <1>2, <2>1, <2>2 DEF IInv, InvProcesos, Estados
<1>3. CASE ~(env_status[e] = "RUNNING" /\ curenv[c] # e)
  <2>1. EnvFree(c, e) /\ env_status' = env_status
    BY <1>3 DEF EnvDestroy
  <2>2. e = curenv[c] \/ env_status[e] \in {"RUNNABLE", "NOT_RUNNABLE"}
    BY <1>3 DEF IInv, InvProcesos, Estados
  <2> QED
    BY <1>1, <2>1, <2>2, EnvFreeProcesos DEF procesos, arranque
<1> QED
  BY <1>2, <1>3

LEMMA IpcRecvProcesos ==
    ASSUME IInv, NEW c \in CPUs, NEW va \in VAs, IpcRecv(c, va)
    PROVE  InvProcesos'
<1> DEFINE e == curenv[c]
<1>1. /\ nucleo = NULO /\ e # NULO /\ env_status[e] = "RUNNING"
      /\ dstva' = [dstva EXCEPT ![e] = va]
      /\ env_status' = [env_status EXCEPT ![e] = "NOT_RUNNABLE"]
      /\ nucleo' = c
      /\ UNCHANGED <<env_pgdir, padre, curenv, cr3, liberando, cargando, arrancado>>
  BY DEF IpcRecv, Sirve, memoria, cpus, arranque
<1>2. arrancado /\ cargando = NULO /\ liberando = NULO /\ e \in Envs
      /\ \A k \in CPUs : curenv[k] = e => k = c
  BY <1>1, Constantes DEF IInv, InvProcesos
<1>3. \A k \in CPUs : curenv[k] # NULO => env_status[curenv[k]] \notin {"RUNNABLE", "NOT_RUNNABLE"}
  BY <1>1, Constantes DEF IInv, InvProcesos
<1> HIDE DEF e
<1>4. \A f \in Envs : env_status'[f] = IF f = e THEN "NOT_RUNNABLE" ELSE env_status[f]
  BY <1>1 DEF IInv, InvProcesos
<1>5. \A f \in Envs : dstva'[f] = IF f = e THEN va ELSE dstva[f]
  BY <1>1 DEF IInv, InvProcesos
<1>6. env_status' \in [Envs -> Estados] /\ dstva' \in [Envs -> VAs \cup {NULO}]
  BY <1>1 DEF IInv, InvProcesos, Estados
<1> QED
  BY <1>1, <1>2, <1>3, <1>4, <1>5, <1>6 DEF IInv, InvProcesos

\* A message delivered: the receiver, who waited, is ready again.
LEMMA EntregaProcesos ==
    ASSUME IInv, NEW c \in CPUs, Sirve(c), NEW t \in Envs, dstva[t] # NULO, Entrega(t),
           UNCHANGED <<env_pgdir, padre, cpus, nucleo, liberando, arranque>>
    PROVE  InvProcesos'
<1>1. /\ nucleo = NULO /\ curenv[c] # NULO /\ env_status[t] = "NOT_RUNNABLE"
      /\ dstva' = [dstva EXCEPT ![t] = NULO]
      /\ env_status' = [env_status EXCEPT ![t] = "RUNNABLE"]
      /\ UNCHANGED <<env_pgdir, padre, curenv, cr3, nucleo, liberando, cargando, arrancado>>
  BY DEF Sirve, Entrega, IInv, InvProcesos, cpus, arranque
<1>2. arrancado /\ cargando = NULO /\ liberando = NULO /\ \A k \in CPUs : curenv[k] # t
  BY <1>1, Constantes DEF IInv, InvProcesos
<1> QED
  BY <1>1, <1>2 DEF IInv, InvProcesos, Estados

LEMMA SchedYieldProcesos ==
    ASSUME IInv, NEW c \in CPUs, SchedYield(c)
    PROVE  InvProcesos' /\ mem' = [mem EXCEPT !.tlb[c] = {}] /\ env_pgdir' = env_pgdir
<1>1. /\ arrancado /\ nucleo' = NULO
      /\ IF nucleo = NULO THEN curenv[c] # NULO => env_status[curenv[c]] = "RUNNING"
         ELSE nucleo = c /\ liberando = NULO
      /\ UNCHANGED <<env_pgdir, padre, dstva, liberando, cargando, arrancado>>
  BY DEF SchedYield, arranque
<1>2. liberando = NULO /\ cargando = NULO
  BY <1>1 DEF IInv, InvProcesos
<1>3. \A k \in CPUs \ {c} : curenv[k] # NULO =>
            /\ env_status[curenv[k]] \notin {"RUNNABLE", "NOT_RUNNABLE"}
            /\ curenv[k] # curenv[c]
  BY <1>1, Constantes DEF IInv, InvProcesos
<1>4. CASE SchedHalt(c)
  <2>1. /\ curenv' = [curenv EXCEPT ![c] = NULO] /\ cr3' = [cr3 EXCEPT ![c] = NULO]
        /\ env_status' = env_status /\ mem' = [mem EXCEPT !.tlb[c] = {}]
    BY <1>4 DEF SchedHalt
  <2>2. \A k \in CPUs : /\ curenv'[k] = IF k = c THEN NULO ELSE curenv[k]
                        /\ cr3'[k] = IF k = c THEN NULO ELSE cr3[k]
    BY <2>1 DEF IInv, InvProcesos
  <2>3. curenv' \in [CPUs -> Envs \cup {NULO}] /\ cr3' \in [CPUs -> Pages \cup {NULO}]
    BY <2>1 DEF IInv, InvProcesos
  <2> QED
    BY <1>1, <1>2, <1>3, <2>1, <2>2, <2>3 DEF IInv, InvProcesos
<1>5. CASE \E e \in Envs : EnvRun(c, e) /\ (\/ env_status[e] = "RUNNABLE"
                                            \/ e = curenv[c] /\ env_status[e] = "RUNNING")
  <2>1. PICK e \in Envs : EnvRun(c, e) /\ (\/ env_status[e] = "RUNNABLE"
                                           \/ e = curenv[c] /\ env_status[e] = "RUNNING")
    BY <1>5
  <2>2. /\ curenv' = [curenv EXCEPT ![c] = e] /\ cr3' = [cr3 EXCEPT ![c] = env_pgdir[e]]
        /\ mem' = [mem EXCEPT !.tlb[c] = {}]
        /\ env_status' = [t \in Envs |->
              IF t = e THEN "RUNNING"
              ELSE IF t = curenv[c] /\ env_status[t] = "RUNNING" THEN "RUNNABLE"
              ELSE env_status[t]]
    BY <2>1 DEF EnvRun
  <2>3. \A k \in CPUs : /\ curenv'[k] = IF k = c THEN e ELSE curenv[k]
                        /\ cr3'[k] = IF k = c THEN env_pgdir[e] ELSE cr3[k]
    BY <2>2 DEF IInv, InvProcesos
  <2>4. /\ curenv' \in [CPUs -> Envs \cup {NULO}] /\ cr3' \in [CPUs -> Pages \cup {NULO}]
        /\ env_status' \in [Envs -> Estados]
    BY <2>2 DEF IInv, InvProcesos, Estados, Buena, Pgdirs
  <2>5. \A k \in CPUs \ {c} : curenv[k] # e
    BY <1>3, <2>1, Constantes
  <2>6. \A t \in Envs : (env_status'[t] = "FREE" <=> env_status[t] = "FREE")
                          /\ (dstva[t] # NULO => env_status'[t] = "NOT_RUNNABLE")
    BY <2>1, <2>2 DEF IInv, InvProcesos
  <2>7. \A k \in CPUs \ {c} : curenv[k] # NULO => env_status'[curenv[k]] = env_status[curenv[k]]
    BY <1>3, <2>2, <2>5 DEF IInv, InvProcesos
  <2>8. \A k \in CPUs : curenv'[k] # NULO =>
            env_status'[curenv'[k]] \notin {"FREE", "RUNNABLE", "NOT_RUNNABLE"}
    BY <1>3, <2>2, <2>3, <2>7 DEF IInv, InvProcesos
  <2>9. \A k \in CPUs : cr3'[k] # NULO => curenv'[k] # NULO /\ cr3'[k] = env_pgdir[curenv'[k]]
    BY <2>3, Constantes DEF IInv, InvProcesos
  <2>10. \A k, b \in CPUs : curenv'[k] = curenv'[b] /\ curenv'[b] # NULO => k = b
    BY <2>3, <2>5 DEF IInv, InvProcesos
  <2> QED
    BY <1>1, <1>2, <2>2, <2>4, <2>6, <2>8, <2>9, <2>10 DEF IInv, InvProcesos
<1> QED
  BY <1>4, <1>5 DEF SchedYield

-----------------------------------------------------------------------------
\* Every step.

LEMMA QuietosProcesos ==
    ASSUME IInv, UNCHANGED <<env_pgdir, procesos, cpus, nucleo, liberando, arranque>>
    PROVE  InvProcesos'
BY DEF IInv, InvProcesos, procesos, cpus, arranque

LEMMA ArranqueStep ==
    ASSUME IInv, SinVuelta, Boot
    PROVE  InvProcesos' /\ PasoMem
<1>1. ASSUME NEW e \in Envs, EnvCreate(e) PROVE InvProcesos' /\ PasoMem
  <2>1. EnvAlloc(e, NULO)
    BY <1>1 DEF EnvCreate
  <2> QED
    BY <1>1, <2>1, EnvCreateProcesos, EnvAllocPaso
<1>2. ASSUME NEW c \in CPUs, NEW va \in VAs, RegionAlloc(c, va) PROVE InvProcesos' /\ PasoMem
  <2>1. UNCHANGED <<env_pgdir, procesos, cpus, nucleo, liberando, arranque>>
    BY <1>2 DEF RegionAlloc
  <2> QED
    BY <1>2, <2>1, QuietosProcesos, RegionAllocPaso
<1>3. ASSUME Cargado PROVE InvProcesos' /\ PasoMem
  <2>1. UNCHANGED <<mem, env_pgdir>>
    BY <1>3 DEF Cargado, memoria
  <2> QED
    BY <1>3, <2>1, CargadoProcesos, QuietoPaso
<1> QED
  BY <1>1, <1>2, <1>3 DEF Boot

LEMMA EnvFreeStepStep ==
    ASSUME IInv, EnvFreeStep
    PROVE  InvProcesos' /\ PasoMem
<1>1. ASSUME NEW va \in VAs, EnvFreePage(va) PROVE InvProcesos' /\ PasoMem
  <2>1. UNCHANGED <<env_pgdir, procesos, cpus, nucleo, liberando, arranque>>
    BY <1>1 DEF EnvFreePage
  <2> QED
    BY <1>1, <2>1, QuietosProcesos, EnvFreePagePaso
<1>2. ASSUME NEW i \in 0 .. NPD - 1, EnvFreeTable(i) PROVE InvProcesos' /\ PasoMem
  <2>1. UNCHANGED <<env_pgdir, procesos, cpus, nucleo, liberando, arranque>>
    BY <1>2 DEF EnvFreeTable
  <2> QED
    BY <1>2, <2>1, QuietosProcesos, EnvFreeTablePaso
<1>3. ASSUME EnvFreeDir PROVE InvProcesos' /\ PasoMem
  BY <1>3, EnvFreeDirProcesos, EnvFreeDirPaso
<1> QED
  BY <1>1, <1>2, <1>3 DEF EnvFreeStep

LEMMA EnvDestroyStep ==
    ASSUME IInv, NEW c \in CPUs, NEW e \in Envs, Sirve(c), EnvDestroy(c, e),
           env_status[e] \notin {"FREE", "DYING"}
    PROVE  InvProcesos' /\ PasoMem
<1>1. UNCHANGED <<mem, env_pgdir>>
  BY DEF EnvDestroy, memoria
<1> QED
  BY <1>1, EnvDestroyProcesos, QuietoPaso

LEMMA IpcStep ==
    ASSUME IInv, SinVuelta, NEW c \in CPUs, NEW t \in Envs,
           \/ IpcTrySend(c, t)
           \/ \E va \in VAs, w \in BOOLEAN : IpcTrySendPage(c, t, va, w)
    PROVE  InvProcesos' /\ PasoMem
<1>1. CASE IpcTrySend(c, t)
  <2>1. /\ Sirve(c) /\ dstva[t] # NULO /\ Entrega(t) /\ mem' = [mem EXCEPT !.tlb[c] = {}]
        /\ UNCHANGED <<env_pgdir, padre, cpus, nucleo, liberando, arranque>>
    BY <1>1 DEF IpcTrySend, Retorna
  <2> QED
    BY <2>1, EntregaProcesos, VaciaPaso
<1>2. CASE \E va \in VAs, w \in BOOLEAN : IpcTrySendPage(c, t, va, w)
  <2>1. PICK va \in VAs, w \in BOOLEAN : IpcTrySendPage(c, t, va, w)
    BY <1>2
  <2>2. PasoMem
    BY <2>1, IpcTrySendPagePaso
  <2>3. /\ Sirve(c) /\ dstva[t] # NULO
        /\ Entrega(t) \/ UNCHANGED <<dstva, env_status>>
        /\ UNCHANGED <<env_pgdir, padre, cpus, nucleo, liberando, arranque>>
    BY <2>1 DEF IpcTrySendPage
  <2>4. CASE Entrega(t)
    BY <2>2, <2>3, <2>4, EntregaProcesos
  <2>5. CASE UNCHANGED <<dstva, env_status>>
    BY <2>2, <2>3, <2>5, QuietosProcesos DEF procesos
  <2> QED
    BY <2>3, <2>4, <2>5
<1> QED
  BY <1>1, <1>2

LEMMA PaginasStep ==
    ASSUME IInv, SinVuelta, NEW c \in CPUs, NEW e \in Envs, NEW va \in VAs,
           \/ SysPageUnmap(c, e, va)
           \/ \E w \in BOOLEAN : SysPageAlloc(c, e, va, w)
           \/ \E w \in BOOLEAN, f \in Envs, vb \in VAs : SysPageMap(c, e, va, f, vb, w)
    PROVE  InvProcesos' /\ PasoMem
<1>1. UNCHANGED <<env_pgdir, procesos, cpus, nucleo, liberando, arranque>>
  BY DEF SysPageUnmap, SysPageAlloc, SysPageMap
<1>2. InvProcesos'
  BY <1>1, QuietosProcesos
<1>3. CASE SysPageUnmap(c, e, va)
  BY <1>2, <1>3, SysPageUnmapPaso
<1>4. CASE \E w \in BOOLEAN : SysPageAlloc(c, e, va, w)
  BY <1>2, <1>4, SysPageAllocPaso
<1>5. CASE \E w \in BOOLEAN, f \in Envs, vb \in VAs : SysPageMap(c, e, va, f, vb, w)
  BY <1>2, <1>5, SysPageMapPaso
<1> QED
  BY <1>3, <1>4, <1>5

LEMMA SyscallStep ==
    ASSUME IInv, SinVuelta, NEW c \in CPUs, Syscall(c)
    PROVE  InvProcesos' /\ PasoMem
<1>1. ASSUME NEW e \in Envs, Exofork(c, e) PROVE InvProcesos' /\ PasoMem
  <2>1. EnvAlloc(e, curenv[c])
    BY <1>1 DEF Exofork
  <2> QED
    BY <1>1, <2>1, ExoforkProcesos, EnvAllocPaso
<1>2. ASSUME NEW e \in Envs, SetStatus(c, e) PROVE InvProcesos' /\ PasoMem
  <2>1. UNCHANGED <<mem, env_pgdir>>
    BY <1>2 DEF SetStatus, memoria
  <2> QED
    BY <1>2, <2>1, SetStatusProcesos, QuietoPaso
<1>3. ASSUME NEW e \in Envs, SysEnvDestroy(c, e) PROVE InvProcesos' /\ PasoMem
  <2>1. Sirve(c) /\ EnvDestroy(c, e) /\ env_status[e] \notin {"FREE", "DYING"}
    BY <1>3 DEF SysEnvDestroy, Alcanza
  <2> QED
    BY <2>1, EnvDestroyStep
<1>4. ASSUME NEW va \in VAs, IpcRecv(c, va) PROVE InvProcesos' /\ PasoMem
  <2>1. UNCHANGED <<mem, env_pgdir>>
    BY <1>4 DEF IpcRecv, memoria
  <2> QED
    BY <1>4, <2>1, IpcRecvProcesos, QuietoPaso
<1>5. ASSUME NEW e \in Envs, NEW va \in VAs, SetPgfaultUpcall(c, e, va)
      PROVE  InvProcesos' /\ PasoMem
  <2>1. Sirve(c) /\ EnvDestroy(c, e) /\ env_status[e] \notin {"FREE", "DYING"}
    BY <1>5 DEF SetPgfaultUpcall, AlcanzaPaginas, Alcanza
  <2> QED
    BY <2>1, EnvDestroyStep
<1>6. ASSUME NEW va \in VAs, NEW vb \in VAs, UserMemAssert(c, va, vb)
      PROVE  InvProcesos' /\ PasoMem
  <2>1. Sirve(c) /\ EnvDestroy(c, curenv[c])
    BY <1>6 DEF UserMemAssert
  <2>2. curenv[c] \in Envs /\ env_status[curenv[c]] \notin {"FREE", "DYING"}
    BY <2>1, SirveParts DEF Sirve
  <2> QED
    BY <2>1, <2>2, EnvDestroyStep
<1> QED
  BY <1>1, <1>2, <1>3, <1>4, <1>5, <1>6, IpcStep, PaginasStep DEF Syscall

\* The trap of a zombie: its CPU begins to free it.
LEMMA ReapStep ==
    ASSUME IInv, NEW c \in CPUs, Reap(c)
    PROVE  InvProcesos' /\ PasoMem
<1>1. /\ nucleo = NULO /\ curenv[c] # NULO /\ env_status[curenv[c]] = "DYING"
      /\ EnvFree(c, curenv[c])
      /\ UNCHANGED <<mem, env_pgdir, procesos, curenv, arranque>>
  BY DEF Reap, memoria
<1>2. curenv[c] \in Envs
  BY <1>1 DEF IInv, InvProcesos
<1> QED
  BY <1>1, <1>2, EnvFreeProcesos, QuietoPaso

LEMMA InductiveStep ==
    ASSUME IInv, SinVuelta, [Next]_vars
    PROVE  IInv' /\ PasoMem
<1>1. InvProcesos' /\ PasoMem
  <2>1. CASE Next
    <3>1. ASSUME NEW c \in CPUs, SchedYield(c) PROVE InvProcesos' /\ PasoMem
      BY <3>1, SchedYieldProcesos, VaciaPaso
    <3> QED
      BY <2>1, <3>1, ArranqueStep, EnvFreeStepStep, SyscallStep, ReapStep DEF Next
  <2>2. CASE UNCHANGED vars
    <3>1. UNCHANGED <<mem, env_pgdir, procesos, cpus, nucleo, liberando, arranque>>
      BY <2>2 DEF vars, procesos, cpus, arranque
    <3> QED
      BY <3>1, QuietosProcesos, QuietoPaso
  <2> QED
    BY <2>1, <2>2
<1> QED
  BY <1>1 DEF IInv, PasoMem, Paso

-----------------------------------------------------------------------------
\* The initial states: page_init links every page once.

LEMMA ListaInicial ==
    ASSUME NEW s \in [1 .. Cardinality(Pages) -> Pages],
           \A p \in Pages : \E k \in DOMAIN s : s[k] = p
    PROVE  s \in Seq(Pages) /\ Distintas(s)
<1>1. Cardinality(Pages) \in Nat
  BY PhysMemAssumption, FS_CardinalityType
<1>2. /\ IsFiniteSet(1 .. Cardinality(Pages))
      /\ Cardinality(1 .. Cardinality(Pages)) = Cardinality(Pages)
  BY <1>1, FS_Interval
<1>3. s \in Surjection(1 .. Cardinality(Pages), Pages)
  BY DEF Surjection
<1>4. s \in Injection(1 .. Cardinality(Pages), Pages)
  BY <1>2, <1>3, FS_SurjSameCardinalityImpliesInj
<1>5. Distintas(s)
  BY <1>4 DEF Injection, IsInjective, Distintas
<1> QED
  BY <1>1, <1>5

LEMMA InitIInv ==
    ASSUME Init
    PROVE  IInv
<1>1. PICK s \in [1 .. Cardinality(Pages) -> Pages] :
          /\ \A p \in Pages : \E k \in DOMAIN s : s[k] = p
          /\ mem.page_free_list = s
          /\ mem = [pp_ref |-> mem.pp_ref, page_free_list |-> mem.page_free_list,
                    marco |-> mem.marco, tlb |-> mem.tlb]
          /\ mem.pp_ref = [p \in Pages |-> 0] /\ mem.marco = [p \in Pages |-> VACIO]
          /\ mem.tlb = [c \in CPUs |-> {}]
  BY DEF Init
<1>2. mem.page_free_list \in Seq(Pages) /\ Distintas(mem.page_free_list)
  BY <1>1, ListaInicial
<1>3. mem.pp_ref \in [Pages -> 0 .. REF_MOD - 1] /\ mem.marco \in Marcos
      /\ mem.tlb \in [CPUs -> SUBSET VAs]
  BY <1>1, Constantes, PhysMemAssumption DEF Marcos
<1>4. mem \in Memorias
  BY <1>1, <1>2, <1>3 DEF Memorias
<1>5. env_pgdir \in Pgdirs /\ \A e \in Envs : env_pgdir[e] = NULO
  BY DEF Init, Pgdirs
<1>6. \A p \in Pages, i \in Indices : mem.marco[p][i] = NULO
  BY <1>1 DEF VACIO
<1>7. \A p \in Pages : ~EsDir(env_pgdir, p)
  BY <1>5, Constantes DEF EsDir
<1>8. Forma(mem.marco, env_pgdir)
  BY <1>5, <1>6 DEF Forma, Apunta
<1>9. ASSUME NEW p \in Pages PROVE Cuenta(mem.marco, env_pgdir, p) = 0
  BY <1>6, <1>7, SinReferencias DEF Apunta
<1>10. Contada(mem, env_pgdir, NULO)
  BY <1>1, <1>9, Constantes DEF Contada
<1>11. Buena(mem, env_pgdir, NULO)
  BY <1>1, <1>2, <1>4, <1>5, <1>8, <1>10 DEF Buena
<1>12. InvProcesos
  BY <1>5 DEF Init, InvProcesos, Estados
<1> QED
  BY <1>11, <1>12 DEF IInv

-----------------------------------------------------------------------------
\* What the invariant says.

LEMMA IInvRefCounts ==
    ASSUME IInv
    PROVE  RefCounts
<1> SUFFICES ASSUME NEW p \in Pages
             PROVE  mem.pp_ref[p] = Cardinality(Referencias(p)) + Cardinality(Directorios(p))
  BY DEF RefCounts
<1>1. Referencias(p) = Refs(mem.marco, p) /\ Directorios(p) = Dirs(env_pgdir, p)
  BY DEF Referencias, Directorios, Refs, Dirs, Apunta
<1>2. mem.pp_ref[p] = Cuenta(mem.marco, env_pgdir, p) + 0
  BY Constantes DEF IInv, Buena, Contada
<1> QED
  BY <1>1, <1>2, Finitos DEF Cuenta

LEMMA IInvFreePagesUnused ==
    ASSUME IInv
    PROVE  FreePagesUnused
<1> SUFFICES ASSUME NEW j \in DOMAIN mem.page_free_list, NEW k \in DOMAIN mem.page_free_list
             PROVE  /\ mem.page_free_list[j] = mem.page_free_list[k] => j = k
                    /\ mem.pp_ref[mem.page_free_list[j]] = 0
                    /\ mem.marco[mem.page_free_list[j]] = VACIO
  BY DEF FreePagesUnused
<1> DEFINE p == mem.page_free_list[j]
<1>1. mem.page_free_list \in Seq(Pages) /\ mem.marco \in Marcos
  BY DEF IInv, Buena, Memorias
<1>2. p \in Pages /\ EnSeq(mem.page_free_list, p)
  BY <1>1 DEF EnSeq
<1>3. mem.pp_ref[p] = 0
  BY <1>2 DEF IInv, Buena
<1>4. \A i \in Indices : mem.marco[p][i] = NULO
  BY <1>2, <1>3, SinCuenta DEF IInv
<1>5. mem.marco[p] = VACIO
  BY <1>1, <1>2, <1>4 DEF Marcos, VACIO
<1> QED
  BY <1>3, <1>5 DEF IInv, Buena, Distintas

LEMMA IInvTablesPrivate ==
    ASSUME IInv
    PROVE  TablesPrivate
<1> SUFFICES ASSUME NEW p \in Pages, EsTabla(p) \/ Directorios(p) # {}
             PROVE  Cardinality(Referencias(p)) + Cardinality(Directorios(p)) = 1
  BY DEF TablesPrivate
<1>1. Forma(mem.marco, env_pgdir) /\ env_pgdir \in Pgdirs
  BY DEF IInv, Buena
<1>2. CASE Directorios(p) # {}
  <2>1. PICK e \in Envs : env_pgdir[e] = p
    BY <1>2 DEF Directorios
  <2>2. EsDir(env_pgdir, p) /\ env_pgdir[e] # NULO
    BY <2>1, Constantes DEF EsDir
  <2>3. Directorios(p) = {e}
    BY <1>1, <2>1, <2>2 DEF Directorios, Forma
  <2>4. Referencias(p) = {}
    BY <1>1, <2>2 DEF Referencias, Forma, Apunta
  <2>5. Cardinality(Referencias(p)) = 0 /\ Cardinality(Directorios(p)) = 1
    BY <2>3, <2>4, FS_EmptySet, FS_Singleton
  <2> QED
    BY <2>5
<1>3. CASE EsTabla(p)
  <2>1. PICK e \in Envs, i \in 0 .. NPD - 1 :
            env_pgdir[e] # NULO /\ Apunta(mem.marco, env_pgdir[e], i, p)
    BY <1>3 DEF EsTabla, Apunta
  <2>2. env_pgdir[e] \in Pages /\ EsDir(env_pgdir, env_pgdir[e]) /\ i \in Indices
    BY <1>1, <2>1, Constantes DEF Pgdirs, EsDir
  <2>3. Directorios(p) = {}
    BY <1>1, <2>1, <2>2 DEF Directorios, Forma, EsDir
  <2>4. <<env_pgdir[e], i>> \in Referencias(p)
    BY <2>1, <2>2 DEF Referencias, Apunta
  <2>5. ASSUME NEW y \in Referencias(p) PROVE y = <<env_pgdir[e], i>>
    <3>1. y \in Pages \X Indices /\ Apunta(mem.marco, y[1], y[2], p)
      BY DEF Referencias, Apunta
    <3> QED
      BY <1>1, <2>1, <2>2, <3>1 DEF Forma
  <2>6. Referencias(p) = {<<env_pgdir[e], i>>}
    BY <2>4, <2>5
  <2>7. Cardinality(Directorios(p)) = 0
    BY <2>3, FS_EmptySet
  <2>8. Cardinality(Referencias(p)) = 1
    BY <2>6, FS_Singleton
  <2> QED
    BY <2>7, <2>8
<1> QED
  BY <1>2, <1>3

LEMMA IInvLoadedDirLive ==
    ASSUME IInv
    PROVE  LoadedDirLive
BY DEF IInv, InvProcesos, LoadedDirLive

-----------------------------------------------------------------------------
\* What a step says.

LEMMA PasoPerdida ==
    ASSUME PasoMem, NEW p \in Pages, Perdida(p)', ~Perdida(p)
    PROVE  mem'.page_free_list = <<>>
<1>1. PerdidaEn(mem', p) /\ ~PerdidaEn(mem, p)
  BY DEF Perdida, EnLista, PerdidaEn, EnSeq
<1> QED
  BY <1>1 DEF PasoMem, Paso

LEMMA PasoAddressSpaces ==
    ASSUME PasoMem
    PROVE  [AS!Next]_Espacio
<1>1. Espacio = Vista(mem, env_pgdir) /\ Espacio' = Vista(mem', env_pgdir')
  BY DEF Espacio, Vista
<1>2. PasoEspacios(Espacio, Espacio')
  BY <1>1 DEF PasoMem, Paso
<1> HIDE DEF Espacio
<1>3. AS!Entrada = Entrada
  BY DEF AS!Entrada, Entrada
<1>4. ASSUME NEW e \in Envs, NEW va \in VAs, NEW v \in Entrada, Ajena(Espacio, v.pagina),
             Espacio' = Cambia(Espacio, e, va, v)
      PROVE  AS!Alloc(e, va)
  BY <1>3, <1>4 DEF AS!Alloc, AS!SinMapear, Ajena, Cambia
<1>5. ASSUME NEW e \in Envs, NEW va \in VAs, NEW v \in Entrada, NEW f \in Envs, NEW vb \in VAs,
             Espacio[f][vb] # NULO, v.pagina = Espacio[f][vb].pagina,
             v.w => Espacio[f][vb].w, Espacio' = Cambia(Espacio, e, va, v)
      PROVE  AS!Map(e, va)
  BY <1>3, <1>5 DEF AS!Map, Cambia
<1>6. ASSUME NEW e \in Envs, NEW va \in VAs, Espacio' = Cambia(Espacio, e, va, NULO)
      PROVE  AS!Unmap(e, va)
  BY <1>6 DEF AS!Unmap, Cambia
<1> QED
  BY <1>2, <1>4, <1>5, <1>6 DEF PasoEspacios, AS!Next

-----------------------------------------------------------------------------
\* The theorems.  They all assume that no count reaches the limit of its 16
\* bits: after a wrap page_decref frees a page that is still mapped, and none
\* of them is true any more.

\* IInv is an inductive invariant: the memory is well formed, and the slots of
\* envs[] and the CPUs agree with each other and with the page directories,
\* between any two steps of env.c, pmap.c, syscall.c and sched.c.
THEOREM InvariantTheorem == Spec /\ []SinVuelta => []IInv
<1>1. Init => IInv
  BY InitIInv
<1>2. IInv /\ SinVuelta /\ [Next]_vars => IInv'
  BY InductiveStep
<1> QED
  BY <1>1, <1>2, PTL DEF Spec

\* A machine so small that all its page tables, full of one page, do not fill
\* the page's count.
CuentaCabe == Cardinality(Pages) * Cardinality(Indices) + 3 <= REF_MOD

LEMMA CuentaCabeSinVuelta ==
    ASSUME IInv, CuentaCabe PROVE SinVuelta
<1> SUFFICES ASSUME NEW p \in Pages PROVE mem.pp_ref[p] + 1 < REF_MOD
  BY DEF SinVuelta, SinVueltaEn
<1>1. Forma(mem.marco, env_pgdir) /\ mem.pp_ref[p] = Cuenta(mem.marco, env_pgdir, p)
  <2>1. p # NULO
    BY PhysMemAssumption
  <2>2. /\ Cardinality(Refs(mem.marco, p)) \in Nat
        /\ Cardinality(Dirs(env_pgdir, p)) \in Nat
    BY Finitos
  <2> QED
    BY <2>1, <2>2 DEF IInv, Buena, Contada, Cuenta
<1>2. Cardinality(Refs(mem.marco, p)) <= Cardinality(Pages) * Cardinality(Indices)
  <2>1. IsFiniteSet(Indices)
    <3>1. IsFiniteSet(0 .. NPD - 1) /\ IsFiniteSet(0 .. NPT - 1)
      BY PhysMemAssumption, FS_Interval
    <3> QED
      BY <3>1 DEF Indices
  <2>2. /\ IsFiniteSet(Pages \X Indices)
        /\ Cardinality(Pages \X Indices) = Cardinality(Pages) * Cardinality(Indices)
    BY <2>1, PhysMemAssumption, FS_Product
  <2>3. Refs(mem.marco, p) \subseteq Pages \X Indices
    BY DEF Refs
  <2> QED
    BY <2>2, <2>3, FS_Subset
<1>3. Cardinality(Dirs(env_pgdir, p)) <= 1
  <2>1. CASE Dirs(env_pgdir, p) = {}
    BY <2>1, FS_EmptySet
  <2>2. CASE Dirs(env_pgdir, p) # {}
    <3>1. PICK e \in Envs : env_pgdir[e] = p
      BY <2>2 DEF Dirs
    <3>2. Dirs(env_pgdir, p) = {e}
      BY <1>1, <3>1, PhysMemAssumption DEF Dirs, Forma
    <3>3. Cardinality({e}) = 1
      BY FS_Singleton
    <3> QED
      BY <3>2, <3>3
  <2> QED
    BY <2>1, <2>2
<1>4. /\ Cardinality(Refs(mem.marco, p)) \in Nat /\ Cardinality(Dirs(env_pgdir, p)) \in Nat
      /\ Cardinality(Pages) * Cardinality(Indices) \in Int
  <2>1. Cardinality(Pages) \in Nat /\ Cardinality(Indices) \in Nat
    <3>1. IsFiniteSet(0 .. NPD - 1) /\ IsFiniteSet(0 .. NPT - 1)
      BY PhysMemAssumption, FS_Interval
    <3> QED
      BY <3>1, PhysMemAssumption, FS_CardinalityType DEF Indices
  <2> QED
    BY <2>1, Finitos
<1> HIDE DEF CuentaCabe
<1>5. Cardinality(Pages) * Cardinality(Indices) + 3 <= REF_MOD
  BY DEF CuentaCabe
<1> QED
  BY <1>1, <1>2, <1>3, <1>4, <1>5, PhysMemAssumption DEF Cuenta

\* In a machine that small no count is ever at its limit, so that all that
\* follows holds there of every behaviour of the kernel.
THEOREM SinVueltaTheorem == CuentaCabe => (Spec => []SinVuelta)
<1> SUFFICES ASSUME CuentaCabe PROVE Spec => []SinVuelta
  OBVIOUS
<1>1. Init => IInv
  BY InitIInv
<1>2. IInv /\ [Next]_vars => IInv'
  BY CuentaCabeSinVuelta, InductiveStep
<1>3. IInv => SinVuelta
  BY CuentaCabeSinVuelta
<1> QED
  BY <1>1, <1>2, <1>3, PTL DEF Spec

\* page_incref, page_decref, page_insert, page_remove, pgdir_walk, env_setup_vm
\* and env_free together keep every pp_ref equal to the number of entries that
\* point to the page, plus one if it is a directory.
THEOREM RefCountsTheorem == Spec /\ []SinVuelta => []RefCounts
BY InvariantTheorem, IInvRefCounts, PTL

\* page_alloc never hands out a page that is in use or that it has handed out
\* already, and page_free never meets a page that is linked: the free list has
\* no repetitions, and its pages have no references and are no tables.
THEOREM FreePagesUnusedTheorem == Spec /\ []SinVuelta => []FreePagesUnused
BY InvariantTheorem, IInvFreePagesUnused, PTL

\* No system call maps a page directory or a page table into a program's
\* memory, nor makes two environments share one.
THEOREM TablesPrivateTheorem == Spec /\ []SinVuelta => []TablesPrivate
BY InvariantTheorem, IInvTablesPrivate, PTL

\* A CPU never runs on a directory that env_free has released, also when the
\* environment is destroyed from another CPU (the DYING state of env_destroy).
THEOREM LoadedDirLiveTheorem == Spec /\ []SinVuelta => []LoadedDirLive
BY InvariantTheorem, IInvLoadedDirLive, PTL

\* tlb_invalidate flushes its own CPU only: a CPU is left with a stale
\* translation by nothing but a page system call of its environment's parent.
THEOREM StaleOnlyByParentTheorem == Spec /\ []SinVuelta => StaleOnlyByParent
<1>1. IInv /\ SinVuelta /\ [Next]_vars =>
        [\A c \in CPUs :
            ~(mem'.tlb[c] \subseteq mem.tlb[c]) =>
                \E d \in CPUs \ {c} : /\ curenv[d] # NULO
                                      /\ curenv[c] # NULO
                                      /\ padre[curenv[c]] = curenv[d]]_vars
  BY InductiveStep DEF PasoMem, PasoTlb
<1> QED
  BY <1>1, InvariantTheorem, PTL DEF Spec, StaleOnlyByParent

\* A page is lost (no references and not on the free list) only by the call
\* that takes the last free page and finds none for the page table.
THEOREM LostOnlyWhenExhaustedTheorem == Spec /\ []SinVuelta => LostOnlyWhenExhausted
<1>1. IInv /\ SinVuelta /\ [Next]_vars =>
        [\A p \in Pages : Perdida(p)' /\ ~Perdida(p) => mem'.page_free_list = <<>>]_vars
  BY InductiveStep, PasoPerdida
<1> QED
  BY <1>1, InvariantTheorem, PTL DEF Spec, LostOnlyWhenExhausted

\* The page tables implement the address spaces of AddressSpaces: whatever
\* tables a step of the kernel allocates, fills, empties or frees, it maps a
\* page nobody has, shares one without granting a write access, or unmaps one,
\* at one address of one environment.
THEOREM AddressSpacesTheorem == Spec /\ []SinVuelta => ImplementsAddressSpaces
<1>1. Init => AS!Init
  BY DEF Init, Espacio, AS!Init
<1>2. IInv /\ SinVuelta /\ [Next]_vars => [AS!Next]_Espacio
  BY InductiveStep, PasoAddressSpaces
<1> QED
  BY <1>1, <1>2, InvariantTheorem, PTL
  DEF Spec, ImplementsAddressSpaces, AS!Spec
=============================================================================
