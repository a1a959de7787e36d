--------------------------- MODULE CowForkProofs ---------------------------
(***************************************************************************)
(* Proofs about CowFork, for any number of environments, pages and frames: *)
(* who may share a frame that somebody can write, and that fork and the    *)
(* handler of page faults give every environment a memory of its own.      *)
(***************************************************************************)
EXTENDS CowFork, WellFoundedInduction, TLAPS

TypeOK == env \in [Envs -> EnvType] /\ dato \in [Marcos -> Datos]

Vive(r) == r.estado \in {"vivo", "panico"}

\* What the fields of one environment say of each other: one that is not
\* started has no pages of its own accord, one that is has them all; inside fork
\* there is a child, and the only page that faults is the stack.
Bien(r) ==
    /\ ~Vive(r) => /\ r.pc = "usuario" /\ r.hijo = NULO
                   /\ r.falta = NULO /\ r.pftemp = NULO /\ r.uxstack = NULO
                   /\ r.upcall = FALSE
    /\ r.estado = "libre" => \A v \in VPs : r.pte[v] = NULO
    /\ Vive(r) => \A v \in VPs : r.pte[v] # NULO
    /\ r.hijo = NULO <=> r.pc \in {"usuario", "exofork"}
    /\ r.pc \in {"hijo", "propia"} => r.n < NVP
    /\ r.pc = "uxstack" => r.n = NVP
    /\ r.falta = NULO => r.paso = "alloc"
    /\ r.paso = "alloc" <=> r.pftemp = NULO
    /\ r.pc # "usuario" => r.falta \in {NULO, STACK}

\* The child of e is being made, by e only; it has the pages up to n, and those
\* other than the stack hold what the parent's hold.
Hijo(e) ==
    LET r == env[e]  c == r.hijo
    IN  c # NULO =>
        /\ env[c].estado = "embrion"
        /\ \A f \in Envs : env[f].hijo = c => f = e
        /\ \A v \in VPs : env[c].pte[v] # NULO <=> v < r.n \/ (v = r.n /\ r.pc = "propia")
        /\ \A v \in VPs \ {STACK} : env[c].pte[v] # NULO =>
                dato[env[c].pte[v].marco] = dato[r.pte[v].marco]

\* The page that the handler of e is filling is nobody else's; it holds the copy
\* until it is mapped in place of the page that faulted.
Temporal(e) ==
    LET r == env[e]
    IN  r.pftemp # NULO =>
        /\ \A f \in Envs : env[f].pftemp = r.pftemp => f = e
        /\ \A f \in Envs, v \in VPs :
                env[f].pte[v] # NULO /\ env[f].pte[v].marco = r.pftemp =>
                    f = e /\ v = r.falta /\ r.paso = "unmap"
        /\ r.paso = "map" => dato[r.pftemp] = dato[r.pte[r.falta].marco]

\* SharedIsReadOnly, with the two pages at the same address.
Compartida(e, u, f, v) ==
    /\ env[e].pte[u] # NULO /\ env[f].pte[v] # NULO /\ <<e, u>> # <<f, v>>
    /\ env[e].pte[u].marco = env[f].pte[v].marco
    /\ env[e].pte[u].w
    => /\ env[e].pc = "propia" /\ env[e].n = u /\ v = u
       /\ env[e].hijo = f

IInv ==
    /\ TypeOK
    /\ \A e \in Envs : Bien(env[e]) /\ Hijo(e) /\ Temporal(e)
    /\ \A e, f \in Envs, u, v \in VPs : Compartida(e, u, f, v)

\* What the programs read.
Mem == [e \in Envs |-> Memoria(e)]

Paso == IInv' /\ [PM!Next]_Mem

-----------------------------------------------------------------------------
\* The state, field by field.

LEMMA Constantes ==
    /\ STACK \in VPs /\ NULO \notin Envs /\ NULO \notin Marcos /\ NULO \notin VPs
    /\ NULO \notin Datos /\ NULO \notin Pte /\ 0 \in Datos /\ VPs \subseteq Nat
    /\ Marcos \subseteq Nat /\ NVP \in Nat /\ \A v \in Nat : v < NVP <=> v \in VPs
BY CowForkAssumption DEF STACK, VPs, Marcos

LEMMA Partes ==
    ASSUME IInv, NEW e \in Envs
    PROVE  /\ env[e] \in EnvType /\ Bien(env[e]) /\ Hijo(e) /\ Temporal(e)
           /\ \A v \in VPs : env[e].pte[v] # NULO =>
                /\ env[e].pte[v] \in Pte /\ env[e].pte[v].marco \in Marcos
                /\ env[e].pte[v].w \in BOOLEAN /\ env[e].pte[v].cow \in BOOLEAN
BY DEF IInv, TypeOK, EnvType, Pte

LEMMA VivePartes ==
    ASSUME IInv, NEW e \in Envs, Vive(env[e])
    PROVE  \A v \in VPs : /\ env[e].pte[v] # NULO /\ env[e].pte[v] \in Pte
                          /\ env[e].pte[v].marco \in Marcos
                          /\ env[e].pte[v].w \in BOOLEAN
BY Partes DEF Bien

LEMMA HijoPartes ==
    ASSUME IInv, NEW e \in Envs, env[e].hijo # NULO
    PROVE  LET c == env[e].hijo
           IN  /\ Vive(env[e]) /\ c \in Envs /\ c # e
               /\ env[c].estado = "embrion" /\ ~Vive(env[c])
               /\ env[c].hijo = NULO /\ env[c].pftemp = NULO
               /\ env[e].pc \in {"hijo", "propia", "uxstack"} /\ env[e].n \in 0 .. NVP
               /\ \A g \in Envs : env[g].hijo = c => g = e
<1>1. Bien(env[e]) /\ env[e] \in EnvType /\ Hijo(e)
  BY Partes
<1>2. Vive(env[e]) /\ env[e].pc \in {"hijo", "propia", "uxstack"} /\ env[e].n \in 0 .. NVP
      /\ env[e].hijo \in Envs
  BY <1>1 DEF Bien, EnvType
<1>3. /\ env[env[e].hijo].estado = "embrion" /\ ~Vive(env[env[e].hijo])
      /\ \A g \in Envs : env[g].hijo = env[e].hijo => g = e
  BY <1>1, <1>2 DEF Hijo, Vive
<1>4. env[env[e].hijo].hijo = NULO /\ env[env[e].hijo].pftemp = NULO
  BY <1>2, <1>3, Partes DEF Bien
<1> QED
  BY <1>2, <1>3, <1>4

\* What Hijo says of a child, and what makes it hold after a step.
LEMMA HijoDatos ==
    ASSUME NEW e \in Envs, Hijo(e), env[e].hijo # NULO
    PROVE  LET c == env[e].hijo
           IN  /\ env[c].estado = "embrion"
               /\ \A g \in Envs : env[g].hijo = c => g = e
               /\ \A v \in VPs : env[c].pte[v] # NULO <=>
                        v < env[e].n \/ (v = env[e].n /\ env[e].pc = "propia")
               /\ \A v \in VPs \ {STACK} : env[c].pte[v] # NULO =>
                        dato[env[c].pte[v].marco] = dato[env[e].pte[v].marco]
BY DEF Hijo

LEMMA HijoSigue ==
    ASSUME NEW e \in Envs, NEW c, env'[e].hijo = c, env'[c].estado = "embrion",
           \A g \in Envs : env'[g].hijo = c => g = e,
           \A v \in VPs : env'[c].pte[v] # NULO <=>
                v < env'[e].n \/ (v = env'[e].n /\ env'[e].pc = "propia"),
           \A v \in VPs \ {STACK} : env'[c].pte[v] # NULO =>
                dato'[env'[c].pte[v].marco] = dato'[env'[e].pte[v].marco]
    PROVE  Hijo(e)'
BY DEF Hijo

\* A step that leaves the parent, the child and the frames alone.
LEMMA HijoIgual ==
    ASSUME NEW e \in Envs, Hijo(e), env[e].hijo # NULO, env'[e] = env[e], dato' = dato,
           env'[env[e].hijo] = env[env[e].hijo],
           \A g \in Envs : env'[g].hijo = env[e].hijo => env[g].hijo = env[e].hijo
    PROVE  Hijo(e)'
<1>1. PICK c : c = env[e].hijo
  OBVIOUS
<1>2. env'[e] = env[e] /\ env'[c] = env[c] /\ env'[e].hijo = c
  BY <1>1
<1>3. /\ env[c].estado = "embrion"
      /\ \A g \in Envs : env[g].hijo = c => g = e
      /\ \A v \in VPs : env[c].pte[v] # NULO <=>
               v < env[e].n \/ (v = env[e].n /\ env[e].pc = "propia")
      /\ \A v \in VPs \ {STACK} : env[c].pte[v] # NULO =>
               dato[env[c].pte[v].marco] = dato[env[e].pte[v].marco]
  BY <1>1, HijoDatos
<1>4. \A g \in Envs : env'[g].hijo = c => g = e
  BY <1>1, <1>3
<1> QED
  BY <1>2, <1>3, <1>4, HijoSigue

\* The environment e has become x.
LEMMA Cambio ==
    ASSUME env \in [Envs -> EnvType], NEW e \in Envs, NEW x \in EnvType,
           env' = [env EXCEPT ![e] = x]
    PROVE  /\ env' \in [Envs -> EnvType]
           /\ \A f \in Envs : env'[f] = IF f = e THEN x ELSE env[f]
OBVIOUS

LEMMA LibreCampos ==
    /\ Libre \in EnvType /\ Libre.estado = "libre" /\ Libre.pftemp = NULO /\ Libre.uxstack = NULO
    /\ Libre.upcall = FALSE /\ Libre.pc = "usuario" /\ Libre.n = 0 /\ Libre.hijo = NULO
    /\ Libre.falta = NULO /\ Libre.paso = "alloc" /\ \A v \in VPs : Libre.pte[v] = NULO
BY CowForkAssumption DEF Libre, EnvType

\* The handler of a page fault ends where page_alloc begins: with the least of
\* the frames that are free.
LEMMA PrimeraLibre ==
    ASSUME IInv, Libres # {}
    PROVE  /\ Primera \in Marcos
           /\ \A e \in Envs : env[e].pftemp # Primera
           /\ \A e \in Envs, v \in VPs : env[e].pte[v] # NULO => env[e].pte[v].marco # Primera
<1> DEFINE R == OpToRel(<, Nat)
<1>1. IsWellFoundedOn(R, Nat)
  BY NatLessThanWellFounded
<1>2. \A p, q \in Nat : p < q => <<p, q>> \in R
  BY DEF OpToRel
<1>3. Libres \subseteq Nat
  BY Constantes DEF Libres
<1> HIDE DEF R
<1>4. PICK p \in Libres : \A q \in Libres : ~(<<q, p>> \in R)
  BY <1>1, <1>3, WFMin
<1>5. ASSUME NEW q \in Libres PROVE p <= q
  <2>1. p \in Nat /\ q \in Nat /\ ~(q < p)
    BY <1>2, <1>3, <1>4
  <2> QED
    BY <2>1
<1>6. Primera \in Libres
  BY <1>4, <1>5 DEF Primera
<1>7. Primera \in Marcos /\ \A e \in Envs : Primera \notin Usados(env[e])
  BY <1>6 DEF Libres
<1>8. ASSUME NEW e \in Envs, NEW v \in VPs, env[e].pte[v] # NULO
      PROVE  env[e].pte[v].marco \in Usados(env[e])
  BY <1>8 DEF Usados
<1>9. ASSUME NEW e \in Envs PROVE env[e].pftemp \in Usados(env[e])
  BY DEF Usados
<1> QED
  BY <1>7, <1>8, <1>9

\* A page that can be written shares its frame with the child's only.
LEMMA Escribible ==
    ASSUME IInv, NEW e \in Envs, NEW v \in VPs, env[e].pte[v] # NULO, env[e].pte[v].w,
           NEW f \in Envs, NEW u \in VPs, env[f].pte[u] # NULO,
           env[f].pte[u].marco = env[e].pte[v].marco, f # e \/ u # v
    PROVE  /\ env[e].pc = "propia" /\ env[e].hijo = f /\ u = v
           /\ env[f].estado = "embrion" /\ f # e
<1>1. <<e, v>> # <<f, u>>
  OBVIOUS
<1>2. env[e].pc = "propia" /\ env[e].hijo = f /\ u = v
  BY <1>1 DEF IInv, Compartida
<1>3. env[f].estado = "embrion"
  BY <1>2, Constantes, Partes DEF Hijo
<1>4. f # e
  BY <1>2, <1>3, Partes DEF Bien, Vive
<1> QED
  BY <1>2, <1>3, <1>4

\* The memories are those of before when every page of the environments that
\* have started holds what it held.
LEMMA MemIgual ==
    ASSUME \A e \in Envs : Vive(env'[e]) <=> Vive(env[e]),
           \A e \in Envs, v \in VPs : Vive(env[e]) =>
                dato'[env'[e].pte[v].marco] = dato[env[e].pte[v].marco]
    PROVE  Mem' = Mem
<1>1. ASSUME NEW e \in Envs PROVE Memoria(e)' = Memoria(e)
  BY DEF Memoria, Vive
<1> QED
  BY <1>1 DEF Mem

-----------------------------------------------------------------------------
\* A write of user code, and a program that ends.

LEMMA DestruyeStep ==
    ASSUME IInv, NEW e \in Envs, Vive(env[e]), env' = [env EXCEPT ![e] = Libre], dato' = dato
    PROVE  Paso
<1>1. /\ env' \in [Envs -> EnvType]
      /\ \A f \in Envs : env'[f] = IF f = e THEN Libre ELSE env[f]
  BY LibreCampos, Cambio DEF IInv, TypeOK
<1>2. TypeOK'
  BY <1>1 DEF IInv, TypeOK
<1>3. ASSUME NEW f \in Envs PROVE Bien(env'[f])
  BY <1>1, LibreCampos, Partes DEF Bien, Vive
<1>4. ASSUME NEW f \in Envs PROVE Hijo(f)'
  <2>1. CASE f = e
    BY <1>1, <2>1, LibreCampos DEF Hijo
  <2>2. CASE f # e /\ env[f].hijo # NULO
    <3>1. env[f].hijo \in Envs /\ env[env[f].hijo].estado = "embrion"
      BY <2>2, Partes DEF EnvType, Hijo
    <3>2. env[f].hijo # e
      BY <3>1 DEF Vive
    <3> QED
      BY <1>1, <2>2, <3>1, <3>2, LibreCampos, Partes DEF Hijo
  <2>3. CASE f # e /\ env[f].hijo = NULO
    BY <1>1, <2>3 DEF Hijo
  <2> QED
    BY <2>1, <2>2, <2>3
<1>5. ASSUME NEW f \in Envs PROVE Temporal(f)'
  BY <1>1, LibreCampos, Partes DEF Temporal
<1>6. ASSUME NEW f \in Envs, NEW g \in Envs, NEW u \in VPs, NEW v \in VPs
      PROVE  Compartida(f, u, g, v)'
  <2>1. Compartida(f, u, g, v)
    BY DEF IInv
  <2> QED
    BY <1>1, <2>1, LibreCampos DEF Compartida
<1>7. PM!End(e)
  <2>1. \A f \in Envs : Memoria(f)' = IF f = e THEN PM!Vacia ELSE Memoria(f)
    BY <1>1, LibreCampos DEF Memoria, PM!Vacia
  <2> QED
    BY <2>1 DEF PM!End, Mem
<1> QED
  BY <1>2, <1>3, <1>4, <1>5, <1>6, <1>7 DEF Paso, IInv, PM!Next, Mem

LEMMA EscribePageStep ==
    ASSUME IInv, NEW e \in Envs, Corre(e), NEW v \in VPs, env[e].pc = "usuario" \/ v = STACK,
           env[e].pte[v].w, env' = env, NEW d \in Datos,
           dato' = [dato EXCEPT ![env[e].pte[v].marco] = d]
    PROVE  Paso
<1> DEFINE p == env[e].pte[v].marco
<1>1. Vive(env[e]) /\ env[e].falta = NULO /\ env[e].pte[v] # NULO /\ p \in Marcos
  BY Partes DEF Corre, Vive, Bien
<1>2. dato' \in [Marcos -> Datos] /\ \A q \in Marcos : dato'[q] = IF q = p THEN d ELSE dato[q]
  BY <1>1 DEF IInv, TypeOK
<1>3. ASSUME NEW f \in Envs, NEW u \in VPs, env[f].pte[u] # NULO, env[f].pte[u].marco = p,
             f # e \/ u # v
      PROVE  env[e].pc = "propia" /\ env[e].hijo = f /\ u = v /\ env[f].estado = "embrion"
  BY <1>1, <1>3, Escribible
<1> HIDE DEF p
<1>4. TypeOK' /\ \A f \in Envs : Bien(env'[f])
  BY <1>2 DEF IInv, TypeOK
<1>5. ASSUME NEW f \in Envs PROVE Hijo(f)'
  <2> SUFFICES ASSUME env[f].hijo # NULO PROVE Hijo(f)'
    BY DEF Hijo
  <2> DEFINE c == env[f].hijo
  <2>1. /\ c \in Envs /\ env[c].estado = "embrion" /\ c # e
        /\ env[f].pc # "usuario" /\ env[f].estado # "embrion"
    BY <1>1, Partes DEF EnvType, Hijo, Bien, Vive
  <2>2. ASSUME NEW u \in VPs \ {STACK}, env[c].pte[u] # NULO
        PROVE  dato'[env[c].pte[u].marco] = dato'[env[f].pte[u].marco]
    <3>1. dato[env[c].pte[u].marco] = dato[env[f].pte[u].marco]
      BY <2>1, <2>2, Partes DEF Hijo
    <3>2. env[f].pte[u] # NULO
      BY <2>1, Partes DEF Bien
    <3>3. env[c].pte[u].marco # p
      BY <1>3, <2>1, <2>2
    <3>4. env[f].pte[u].marco # p
      BY <1>3, <2>1, <2>2, <3>2
    <3>5. env[c].pte[u].marco \in Marcos /\ env[f].pte[u].marco \in Marcos
      BY <2>1, <2>2, <3>2, Partes
    <3> QED
      BY <1>2, <3>1, <3>3, <3>4, <3>5
  <2> QED
    <3>1. /\ env'[f].hijo = c /\ env'[c].estado = "embrion"
          /\ \A g \in Envs : env'[g].hijo = c => g = f
          /\ \A u \in VPs : env'[c].pte[u] # NULO <=>
                u < env'[f].n \/ (u = env'[f].n /\ env'[f].pc = "propia")
      BY Partes, HijoDatos
    <3>2. \A u \in VPs \ {STACK} : env'[c].pte[u] # NULO =>
              dato'[env'[c].pte[u].marco] = dato'[env'[f].pte[u].marco]
      BY <2>2
    <3> HIDE DEF c
    <3> QED
      BY <3>1, <3>2, HijoSigue
<1>6. ASSUME NEW f \in Envs PROVE Temporal(f)'
  <2> SUFFICES ASSUME env[f].pftemp # NULO, env[f].paso = "map"
               PROVE  dato'[env[f].pftemp] = dato'[env[f].pte[env[f].falta].marco]
    BY Partes DEF Temporal
  <2>1. env[f].falta \in VPs /\ env[f].pftemp \in Marcos /\ Vive(env[f])
    BY Partes DEF EnvType, Bien
  <2>2. env[f].pte[env[f].falta] # NULO /\ f # e
    BY <1>1, <2>1, Constantes, Partes DEF Bien
  <2>3. dato[env[f].pftemp] = dato[env[f].pte[env[f].falta].marco]
    BY Partes DEF Temporal
  <2>4. env[f].pftemp # p
    BY <1>1, <2>1, <2>2, Partes DEF Temporal, p
  <2>5. env[f].pte[env[f].falta].marco # p
    BY <1>3, <2>1, <2>2 DEF Vive
  <2> QED
    BY <1>2, <2>1, <2>2, <2>3, <2>4, <2>5, Partes
<1>7. ASSUME NEW f \in Envs, NEW g \in Envs, NEW a \in VPs, NEW b \in VPs
      PROVE  Compartida(f, a, g, b)'
  BY DEF IInv, Compartida
<1>8. PM!Write(e, v)
  <2>1. ASSUME NEW f \in Envs, NEW u \in VPs
        PROVE  Memoria(f)'[u] = IF f = e /\ u = v THEN d ELSE Memoria(f)[u]
    <3>1. CASE ~Vive(env[f])
      BY <1>1, <3>1 DEF Memoria, Vive
    <3>2. CASE Vive(env[f])
      <4>1. env[f].pte[u] # NULO /\ env[f].pte[u].marco \in Marcos
        BY <3>2, Partes DEF Bien
      <4>2. env[f].pte[u].marco = p <=> f = e /\ u = v
        BY <1>3, <3>2, <4>1 DEF Vive, p
      <4>3. Memoria(f)[u] = dato[env[f].pte[u].marco] /\ Memoria(f)'[u] = dato'[env[f].pte[u].marco]
        BY <3>2 DEF Memoria, Vive
      <4> QED
        BY <1>2, <4>1, <4>2, <4>3
    <3> QED
      BY <3>1, <3>2
  <2>2. Memoria(e)[v] \in Datos
    BY <1>1 DEF Memoria, Vive, p, IInv, TypeOK
  <2>3. Mem[e] # PM!Vacia
    BY <2>2, Constantes DEF Mem, PM!Vacia
  <2>4. Mem' = [Mem EXCEPT ![e][v] = d]
    <3>1. \A f \in Envs : Memoria(f) = [u \in VPs |-> Memoria(f)[u]]
                            /\ Memoria(f)' = [u \in VPs |-> Memoria(f)'[u]]
      BY DEF Memoria
    <3>2. \A f \in Envs : Memoria(f)' = IF f = e THEN [Memoria(f) EXCEPT ![v] = d] ELSE Memoria(f)
      BY <2>1, <3>1
    <3> QED
      BY <3>2 DEF Mem
  <2> QED
    BY <2>3, <2>4 DEF PM!Write, Mem
<1> QED
  BY <1>4, <1>5, <1>6, <1>7, <1>8 DEF Paso, IInv, PM!Next, Mem

\* A step of e that only changes its fault, its upcall, its exception stack and
\* where it is, and the contents of z, which no program has as a page.
Propia(e, x, z) ==
    /\ Vive(env[e]) /\ Vive(x) /\ Bien(x)
    /\ x.pte = env[e].pte /\ x.n = env[e].n /\ x.hijo = env[e].hijo
    /\ x.pc = env[e].pc \/ x.hijo = NULO
    /\ dato' \in [Marcos -> Datos] /\ \A q \in Marcos : q # z => dato'[q] = dato[q]
    /\ \A f \in Envs, v \in VPs : env[f].pte[v] # NULO => env[f].pte[v].marco # z
    /\ \A f \in Envs \ {e} : env[f].pftemp # NULO =>
            env[f].pftemp # z /\ env[f].pftemp # x.pftemp
    /\ x.pftemp # NULO => \A f \in Envs, v \in VPs :
            env[f].pte[v] # NULO /\ env[f].pte[v].marco = x.pftemp =>
                f = e /\ v = x.falta /\ x.paso = "unmap"
    /\ x.paso = "map" => dato'[x.pftemp] = dato[x.pte[x.falta].marco]

LEMMA PropiaStep ==
    ASSUME IInv, NEW e \in Envs, NEW x \in EnvType, env' = [env EXCEPT ![e] = x],
           NEW z, Propia(e, x, z)
    PROVE  Paso
<1>1. /\ env' \in [Envs -> EnvType]
      /\ \A f \in Envs : env'[f] = IF f = e THEN x ELSE env[f]
  BY Cambio DEF IInv, TypeOK
<1>2. TypeOK'
  BY <1>1 DEF IInv, TypeOK, Propia
<1>3. \A f \in Envs : Bien(env'[f])
  BY <1>1, Partes DEF Propia
<1>4. \A f \in Envs, v \in VPs : env[f].pte[v] # NULO =>
          dato'[env[f].pte[v].marco] = dato[env[f].pte[v].marco]
  BY Partes DEF Propia
<1>5. \A f \in Envs : /\ env'[f].pte = env[f].pte /\ env'[f].n = env[f].n
                      /\ env'[f].hijo = env[f].hijo
                      /\ env[f].hijo # NULO => env'[f].pc = env[f].pc
                      /\ Vive(env'[f]) <=> Vive(env[f])
                      /\ env[f].estado = "embrion" => env'[f].estado = "embrion"
  BY <1>1 DEF Vive, Propia
<1>6. ASSUME NEW f \in Envs PROVE Hijo(f)'
  <2> SUFFICES ASSUME env[f].hijo # NULO PROVE Hijo(f)'
    BY <1>5 DEF Hijo
  <2> DEFINE c == env[f].hijo
  <2>1. /\ c \in Envs /\ env[c].estado = "embrion" /\ \A g \in Envs : env[g].hijo = c => g = f
        /\ \A v \in VPs : env[f].pte[v] # NULO
    BY HijoPartes, VivePartes
  <2>2. ASSUME NEW v \in VPs \ {STACK}, env[c].pte[v] # NULO
        PROVE  dato'[env[c].pte[v].marco] = dato'[env[f].pte[v].marco]
    <3>1. dato[env[c].pte[v].marco] = dato[env[f].pte[v].marco]
      BY <2>2, Partes, HijoDatos
    <3> QED
      BY <1>4, <2>1, <2>2, <3>1
  <2>3. \A v \in VPs : env[c].pte[v] # NULO <=> v < env[f].n \/ (v = env[f].n /\ env[f].pc = "propia")
    BY Partes, HijoDatos
  <2>4. /\ env'[f].hijo = c /\ env'[c].estado = "embrion" /\ env'[c].pte = env[c].pte
        /\ \A g \in Envs : env'[g].hijo = c => g = f
        /\ env'[f].n = env[f].n /\ env'[f].pc = env[f].pc /\ env'[f].pte = env[f].pte
    BY <1>5, <2>1
  <2> HIDE DEF c
  <2> QED
    BY <2>2, <2>3, <2>4, HijoSigue
<1>7. ASSUME NEW f \in Envs, f # e PROVE Temporal(f)'
  <2> SUFFICES ASSUME env[f].pftemp # NULO PROVE Temporal(f)'
    BY <1>1, <1>7 DEF Temporal
  <2>1. env'[f] = env[f] /\ \A g \in Envs : env'[g].pftemp = env[f].pftemp => g = f
    BY <1>1, <1>7, Partes DEF Temporal, Propia
  <2>2. env[f].paso = "map" => dato'[env[f].pftemp] = dato'[env[f].pte[env[f].falta].marco]
    <3> SUFFICES ASSUME env[f].paso = "map" PROVE dato'[env[f].pftemp] = dato'[env[f].pte[env[f].falta].marco]
      OBVIOUS
    <3>1. env[f].falta \in VPs /\ env[f].pftemp \in Marcos /\ Vive(env[f])
      BY Partes DEF EnvType, Bien
    <3>2. env[f].pte[env[f].falta] # NULO
      BY <3>1, Partes DEF Bien
    <3>3. dato[env[f].pftemp] = dato[env[f].pte[env[f].falta].marco]
      BY Partes DEF Temporal
    <3> QED
      BY <1>4, <1>7, <3>1, <3>2, <3>3 DEF Propia
  <2> QED
    BY <1>5, <2>1, <2>2, Partes DEF Temporal
<1>8. Temporal(e)'
  <2> SUFFICES ASSUME x.pftemp # NULO PROVE Temporal(e)'
    BY <1>1 DEF Temporal
  <2>1. \A g \in Envs : env'[g].pftemp = x.pftemp => g = e
    BY <1>1 DEF Propia
  <2>2. x.paso = "map" => dato'[x.pftemp] = dato'[x.pte[x.falta].marco]
    <3> SUFFICES ASSUME x.paso = "map" PROVE dato'[x.pftemp] = dato'[x.pte[x.falta].marco]
      OBVIOUS
    <3>1. x.falta \in VPs
      BY DEF Bien, EnvType, Propia
    <3>2. env[e].pte[x.falta] # NULO
      BY <3>1, VivePartes DEF Propia
    <3> QED
      BY <1>4, <3>1, <3>2 DEF Propia
  <2> QED
    BY <1>1, <1>5, <2>1, <2>2 DEF Temporal, Propia
<1>9. ASSUME NEW f \in Envs, NEW g \in Envs, NEW a \in VPs, NEW b \in VPs
      PROVE  Compartida(f, a, g, b)'
  <2>1. Compartida(f, a, g, b)
    BY DEF IInv
  <2>2. env[f].pc = "propia" => env[f].hijo # NULO
    BY Partes DEF Bien
  <2> QED
    BY <1>5, <2>1, <2>2 DEF Compartida
<1>10. Mem' = Mem
  <2>1. \A f \in Envs, v \in VPs : Vive(env[f]) =>
            dato'[env'[f].pte[v].marco] = dato[env[f].pte[v].marco]
    BY <1>4, <1>5, VivePartes
  <2> QED
    BY <1>5, <2>1, MemIgual
<1> QED
  BY <1>2, <1>3, <1>6, <1>7, <1>8, <1>9, <1>10 DEF Paso, IInv

\* A write of user code: to the page, a fault, or the end of the program.
LEMMA EscribeStep ==
    ASSUME IInv, NEW e \in Envs, Corre(e), NEW v \in VPs, env[e].pc = "usuario" \/ v = STACK,
           Escribe(e, v)
    PROVE  Paso
<1>1. Vive(env[e]) /\ env[e].falta = NULO /\ env[e] \in EnvType /\ Bien(env[e])
  BY Partes DEF Corre, Vive
<1>2. CASE env[e].pte[v].w
  BY <1>2, EscribePageStep DEF Escribe
<1>3. CASE ~env[e].pte[v].w /\ ~env[e].upcall
  BY <1>1, <1>3, DestruyeStep DEF Escribe
<1>4. CASE ~env[e].pte[v].w /\ env[e].upcall
  <2> DEFINE x == [env[e] EXCEPT !.falta = v, !.paso = "alloc"]
  <2>1. env' = [env EXCEPT ![e] = x] /\ dato' = dato
    BY <1>4 DEF Escribe
  <2>2. /\ x.pte = env[e].pte /\ x.n = env[e].n /\ x.hijo = env[e].hijo /\ x.pc = env[e].pc
        /\ x.estado = env[e].estado /\ x.uxstack = env[e].uxstack /\ x.upcall = env[e].upcall
        /\ x.pftemp = env[e].pftemp /\ x.falta = v /\ x.paso = "alloc" /\ x \in EnvType
    BY <1>1 DEF EnvType
  <2> HIDE DEF x
  <2>3. x.pftemp = NULO
    BY <1>1, <2>2 DEF Bien
  <2>4. Bien(x) /\ Vive(x)
    BY <1>1, <2>2, <2>3, Constantes DEF Bien, Vive
  <2>5. dato' \in [Marcos -> Datos] /\ \A f \in Envs, u \in VPs :
            env[f].pte[u] # NULO => env[f].pte[u].marco # NULO
    BY <2>1, Constantes, Partes DEF IInv, TypeOK
  <2>6. Propia(e, x, NULO)
    BY <1>1, <2>1, <2>2, <2>3, <2>4, <2>5 DEF Propia
  <2> QED
    BY <2>1, <2>2, <2>6, PropiaStep
<1> QED
  BY <1>2, <1>3, <1>4

LEMMA PanicStep ==
    ASSUME IInv, NEW e \in Envs, env[e].estado = "vivo", Panic(e)
    PROVE  Paso
<1> DEFINE x == [env[e] EXCEPT !.estado = "panico"]
<1>1. Vive(env[e]) /\ env[e] \in EnvType /\ Bien(env[e]) /\ Temporal(e)
  BY Partes DEF Vive
<1>2. env' = [env EXCEPT ![e] = x] /\ dato' = dato
  BY DEF Panic
<1>3. /\ x.pte = env[e].pte /\ x.n = env[e].n /\ x.hijo = env[e].hijo /\ x.pc = env[e].pc
      /\ x.estado = "panico" /\ x.uxstack = env[e].uxstack /\ x.upcall = env[e].upcall
      /\ x.pftemp = env[e].pftemp /\ x.falta = env[e].falta /\ x.paso = env[e].paso /\ x \in EnvType
  BY <1>1 DEF EnvType
<1> HIDE DEF x
<1>4. Bien(x) /\ Vive(x)
  BY <1>1, <1>3 DEF Bien, Vive
<1>5. dato' \in [Marcos -> Datos] /\ \A f \in Envs, u \in VPs :
          env[f].pte[u] # NULO => env[f].pte[u].marco # NULO
  BY <1>2, Constantes, Partes DEF IInv, TypeOK
<1>6. /\ \A f \in Envs \ {e} : env[f].pftemp # NULO => env[f].pftemp # x.pftemp
      /\ x.pftemp # NULO => \A f \in Envs, v \in VPs :
            env[f].pte[v] # NULO /\ env[f].pte[v].marco = x.pftemp =>
                f = e /\ v = x.falta /\ x.paso = "unmap"
      /\ x.paso = "map" => dato'[x.pftemp] = dato[x.pte[x.falta].marco]
  BY <1>1, <1>2, <1>3 DEF Temporal, Bien
<1>7. Propia(e, x, NULO)
  BY <1>1, <1>2, <1>3, <1>4, <1>5, <1>6 DEF Propia
<1> QED
  BY <1>2, <1>3, <1>7, PropiaStep

-----------------------------------------------------------------------------
\* The handler of page faults.

LEMMA PgfaultAllocStep ==
    ASSUME IInv, NEW e \in Envs, PgfaultAlloc(e)
    PROVE  Paso
<1>1. /\ Vive(env[e]) /\ env[e] \in EnvType /\ Bien(env[e]) /\ env[e].falta # NULO
      /\ env[e].paso = "alloc" /\ env[e].estado = "vivo"
  BY Partes DEF PgfaultAlloc, Atiende, Vive
<1>2. CASE SinMemoria /\ Panic(e)
  BY <1>1, <1>2, PanicStep
<1>3. CASE SysPageAlloc /\ env' = [env EXCEPT ![e].pftemp = Primera, ![e].paso = "copia"]
  <2> DEFINE z == Primera
             x == [env[e] EXCEPT !.pftemp = z, !.paso = "copia"]
  <2>1. /\ z \in Marcos /\ \A f \in Envs : env[f].pftemp # z
        /\ \A f \in Envs, u \in VPs : env[f].pte[u] # NULO => env[f].pte[u].marco # z
    BY <1>3, PrimeraLibre DEF SysPageAlloc
  <2>2. dato' = [dato EXCEPT ![z] = 0]
    BY <1>3 DEF SysPageAlloc
  <2> HIDE DEF z
  <2>3. env' = [env EXCEPT ![e] = x]
    BY <1>3 DEF z, IInv, TypeOK
  <2>4. /\ x.pte = env[e].pte /\ x.n = env[e].n /\ x.hijo = env[e].hijo /\ x.pc = env[e].pc
        /\ x.estado = env[e].estado /\ x.uxstack = env[e].uxstack /\ x.upcall = env[e].upcall
        /\ x.pftemp = z /\ x.falta = env[e].falta /\ x.paso = "copia" /\ x \in EnvType
    BY <1>1, <2>1 DEF EnvType
  <2> HIDE DEF x
  <2>5. Bien(x) /\ Vive(x)
    BY <1>1, <2>1, <2>4, Constantes DEF Bien, Vive
  <2>6. dato' \in [Marcos -> Datos] /\ \A q \in Marcos : q # z => dato'[q] = dato[q]
    BY <2>2, Constantes DEF IInv, TypeOK
  <2>7. Propia(e, x, z)
    BY <1>1, <2>1, <2>4, <2>5, <2>6, Constantes DEF Propia
  <2> QED
    BY <2>3, <2>4, <2>7, PropiaStep
<1> QED
  BY <1>2, <1>3 DEF PgfaultAlloc

LEMMA PgfaultCopyStep ==
    ASSUME IInv, NEW e \in Envs, PgfaultCopy(e)
    PROVE  Paso
<1> DEFINE z == env[e].pftemp
           x == [env[e] EXCEPT !.paso = "map"]
<1>1. /\ Vive(env[e]) /\ env[e] \in EnvType /\ Bien(env[e]) /\ Temporal(e)
      /\ env[e].falta \in VPs /\ env[e].paso = "copia" /\ env[e].estado = "vivo"
  BY Partes DEF PgfaultCopy, Atiende, Vive, EnvType
<1>2. z \in Marcos
  BY <1>1 DEF Bien, EnvType
<1>3. /\ \A f \in Envs \ {e} : env[f].pftemp # z
      /\ \A f \in Envs, u \in VPs : env[f].pte[u] # NULO => env[f].pte[u].marco # z
  BY <1>1, <1>2, Constantes DEF Temporal
<1>4. env[e].pte[env[e].falta].marco \in Marcos
  BY <1>1, VivePartes
<1>5. dato' = [dato EXCEPT ![z] = dato[env[e].pte[env[e].falta].marco]] /\ env' = [env EXCEPT ![e] = x]
  BY DEF PgfaultCopy
<1>6. /\ x.pte = env[e].pte /\ x.n = env[e].n /\ x.hijo = env[e].hijo /\ x.pc = env[e].pc
      /\ x.estado = env[e].estado /\ x.uxstack = env[e].uxstack /\ x.upcall = env[e].upcall
      /\ x.pftemp = z /\ x.falta = env[e].falta /\ x.paso = "map" /\ x \in EnvType
  BY <1>1 DEF EnvType
<1> HIDE DEF x, z
<1>7. Bien(x) /\ Vive(x)
  BY <1>1, <1>2, <1>6, Constantes DEF Bien, Vive
<1>8. /\ dato' \in [Marcos -> Datos] /\ \A q \in Marcos : q # z => dato'[q] = dato[q]
      /\ dato'[z] = dato[env[e].pte[env[e].falta].marco]
  BY <1>2, <1>4, <1>5 DEF IInv, TypeOK
<1>9. dato'[x.pftemp] = dato[x.pte[x.falta].marco]
  BY <1>6, <1>8
<1>10. Propia(e, x, z)
  BY <1>1, <1>3, <1>6, <1>7, <1>8, <1>9 DEF Propia
<1> QED
  BY <1>5, <1>6, <1>10, PropiaStep

LEMMA PgfaultUnmapStep ==
    ASSUME IInv, NEW e \in Envs, PgfaultUnmap(e)
    PROVE  Paso
<1> DEFINE g == IF env[e].pte[STACK].w THEN NULO ELSE STACK
           x == [env[e] EXCEPT !.pftemp = NULO, !.paso = "alloc", !.falta = g]
<1>1. Vive(env[e]) /\ env[e] \in EnvType /\ Bien(env[e])
  BY Partes DEF PgfaultUnmap, Atiende, Vive
<1>2. g \in {NULO, STACK} /\ g \in VPs \cup {NULO}
  BY Constantes
<1>3. env' = [env EXCEPT ![e] = x] /\ dato' = dato
  BY DEF PgfaultUnmap
<1> HIDE DEF g
<1>4. /\ x.pte = env[e].pte /\ x.n = env[e].n /\ x.hijo = env[e].hijo /\ x.pc = env[e].pc
      /\ x.estado = env[e].estado /\ x.uxstack = env[e].uxstack /\ x.upcall = env[e].upcall
      /\ x.pftemp = NULO /\ x.falta = g /\ x.paso = "alloc" /\ x \in EnvType
  BY <1>1, <1>2 DEF EnvType
<1> HIDE DEF x
<1>5. Bien(x) /\ Vive(x)
  BY <1>1, <1>2, <1>4 DEF Bien, Vive
<1>6. dato' \in [Marcos -> Datos] /\ \A f \in Envs, u \in VPs :
          env[f].pte[u] # NULO => env[f].pte[u].marco # NULO
  BY <1>3, Constantes, Partes DEF IInv, TypeOK
<1>7. Propia(e, x, NULO)
  BY <1>1, <1>3, <1>4, <1>5, <1>6 DEF Propia
<1> QED
  BY <1>3, <1>4, <1>7, PropiaStep

LEMMA PgfaultMapStep ==
    ASSUME IInv, NEW e \in Envs, PgfaultMap(e)
    PROVE  Paso
<1> DEFINE t == env[e].pftemp
           v == env[e].falta
           p == [marco |-> t, w |-> TRUE, cow |-> FALSE]
           x == [env[e] EXCEPT !.pte[v] = p, !.paso = "unmap"]
<1>1. /\ Vive(env[e]) /\ env[e] \in EnvType /\ Bien(env[e]) /\ Temporal(e)
      /\ v \in VPs /\ env[e].paso = "map" /\ env[e].estado = "vivo"
  BY Partes DEF PgfaultMap, Atiende, Vive, EnvType
<1>2. t \in Marcos /\ t # NULO
  BY <1>1, Constantes DEF Bien, EnvType
<1>3. /\ \A f \in Envs \ {e} : env[f].pftemp # t
      /\ \A f \in Envs, u \in VPs : env[f].pte[u] # NULO => env[f].pte[u].marco # t
      /\ dato[t] = dato[env[e].pte[v].marco]
  BY <1>1, <1>2 DEF Temporal
<1>4. p \in Pte /\ p.marco = t /\ p # NULO
  <2>1. p \in Pte /\ p.marco = t
    BY <1>2 DEF Pte
  <2> QED
    BY <2>1, Constantes
<1>5. env' = [env EXCEPT ![e] = x] /\ dato' = dato
  BY DEF PgfaultMap, IInv, TypeOK
<1> HIDE DEF p
<1>6. /\ x.n = env[e].n /\ x.hijo = env[e].hijo /\ x.pc = env[e].pc
      /\ x.estado = env[e].estado /\ x.uxstack = env[e].uxstack /\ x.upcall = env[e].upcall
      /\ x.pftemp = t /\ x.falta = v /\ x.paso = "unmap" /\ x \in EnvType
      /\ \A u \in VPs : x.pte[u] = IF u = v THEN p ELSE env[e].pte[u]
  BY <1>1, <1>4 DEF EnvType
<1> HIDE DEF x, t, v
<1>7. /\ env' \in [Envs -> EnvType]
      /\ \A f \in Envs : env'[f] = IF f = e THEN x ELSE env[f]
  BY <1>5, <1>6, Cambio DEF IInv, TypeOK
<1>8. TypeOK'
  BY <1>5, <1>7 DEF IInv, TypeOK
<1>9. Bien(x)
  BY <1>1, <1>2, <1>4, <1>6, Constantes DEF Bien, Vive, v
<1>10. ASSUME NEW f \in Envs PROVE Bien(env'[f])
  BY <1>7, <1>9, Partes
<1>11. \A f \in Envs, u \in VPs : f # e \/ u # v => env'[f].pte[u] = env[f].pte[u]
  BY <1>6, <1>7
<1>12. \A f \in Envs : /\ env'[f].n = env[f].n /\ env'[f].hijo = env[f].hijo
                       /\ env'[f].pc = env[f].pc /\ env'[f].estado = env[f].estado
                       /\ env'[f].pftemp = env[f].pftemp
  BY <1>6, <1>7 DEF t
<1>13. ASSUME NEW f \in Envs PROVE Hijo(f)'
  <2> SUFFICES ASSUME env[f].hijo # NULO PROVE Hijo(f)'
    BY <1>12 DEF Hijo
  <2>1. env[f].hijo \in Envs /\ env[f].hijo # e /\ env[env[f].hijo].estado = "embrion"
        /\ \A g \in Envs : env[g].hijo = env[f].hijo => g = f
    BY <1>1, HijoPartes
  <2>2. f = e => v = STACK
    BY <1>1, <1>2, Constantes, HijoPartes DEF Bien, v
  <2>3. \A u \in VPs : env'[env[f].hijo].pte[u] = env[env[f].hijo].pte[u]
    BY <1>11, <2>1
  <2>4. \A u \in VPs \ {STACK} : env'[f].pte[u] = env[f].pte[u]
    BY <1>11, <2>2
  <2>5. PICK c : c = env[f].hijo
    OBVIOUS
  <2>6. /\ env'[f].hijo = c /\ env'[c].estado = "embrion" /\ env'[f].n = env[f].n
        /\ env'[f].pc = env[f].pc /\ \A g \in Envs : env'[g].hijo = c => g = f
    BY <1>12, <2>1, <2>5
  <2>7. /\ \A u \in VPs : env[c].pte[u] # NULO <=>
                u < env[f].n \/ (u = env[f].n /\ env[f].pc = "propia")
        /\ \A u \in VPs \ {STACK} : env[c].pte[u] # NULO =>
                dato[env[c].pte[u].marco] = dato[env[f].pte[u].marco]
    BY <2>5, Partes, HijoDatos
  <2>8. \A u \in VPs : env'[c].pte[u] = env[c].pte[u]
    BY <2>3, <2>5
  <2>9. \A u \in VPs \ {STACK} : env'[c].pte[u] # NULO =>
            dato'[env'[c].pte[u].marco] = dato'[env'[f].pte[u].marco]
    BY <1>5, <2>4, <2>7, <2>8
  <2> QED
    BY <2>6, <2>7, <2>8, <2>9, HijoSigue
<1>14. ASSUME NEW f \in Envs, f # e PROVE Temporal(f)'
  <2> SUFFICES ASSUME env[f].pftemp # NULO PROVE Temporal(f)'
    BY <1>12 DEF Temporal
  <2>1. env'[f] = env[f] /\ env[f].pftemp # t
    BY <1>3, <1>7, <1>14
  <2>2. \A g \in Envs, u \in VPs :
            env'[g].pte[u] # NULO /\ env'[g].pte[u].marco = env[f].pftemp =>
                g = f /\ u = env[f].falta /\ env[f].paso = "unmap"
    BY <1>4, <1>6, <1>7, <1>11, <2>1, Partes DEF Temporal
  <2> QED
    BY <1>5, <1>12, <2>1, <2>2, Partes DEF Temporal
<1>15. Temporal(e)'
  <2>1. \A g \in Envs : env'[g].pftemp = t => g = e
    BY <1>3, <1>12
  <2>2. \A g \in Envs, u \in VPs :
            env'[g].pte[u] # NULO /\ env'[g].pte[u].marco = t => g = e /\ u = v
    BY <1>3, <1>11
  <2> QED
    BY <1>6, <1>7, <2>1, <2>2 DEF Temporal
<1>16. ASSUME NEW f \in Envs, NEW g \in Envs, NEW a \in VPs, NEW b \in VPs
       PROVE  Compartida(f, a, g, b)'
  <2>1. CASE f = e /\ a = v
    BY <1>3, <1>4, <1>6, <1>7, <1>11, <2>1 DEF Compartida
  <2>2. CASE g = e /\ b = v
    BY <1>3, <1>4, <1>6, <1>7, <1>11, <2>2 DEF Compartida
  <2>3. CASE ~(f = e /\ a = v) /\ ~(g = e /\ b = v)
    <3>1. Compartida(f, a, g, b)
      BY DEF IInv
    <3> QED
      BY <1>11, <1>12, <2>3, <3>1 DEF Compartida
  <2> QED
    BY <2>1, <2>2, <2>3
<1>17. Mem' = Mem
  <2>1. ASSUME NEW f \in Envs, NEW u \in VPs, Vive(env[f])
        PROVE  dato'[env'[f].pte[u].marco] = dato[env[f].pte[u].marco]
    BY <1>3, <1>4, <1>5, <1>6, <1>7, <1>11
  <2> QED
    BY <1>12, <2>1, MemIgual DEF Vive
<1> QED
  BY <1>8, <1>10, <1>13, <1>14, <1>15, <1>16, <1>17 DEF Paso, IInv

-----------------------------------------------------------------------------
\* fork.

LEMMA SetPgfaultHandlerStep ==
    ASSUME IInv, NEW e \in Envs, SetPgfaultHandler(e)
    PROVE  Paso
<1>1. /\ Vive(env[e]) /\ env[e] \in EnvType /\ Bien(env[e]) /\ env[e].hijo = NULO
      /\ env[e].falta = NULO /\ env[e].paso = "alloc" /\ env[e].pftemp = NULO
  BY Partes DEF SetPgfaultHandler, En, Corre, Vive, Bien
<1>2. CASE env' = [env EXCEPT ![e].pc = "exofork"] /\ UNCHANGED dato
  <2> DEFINE x == [env[e] EXCEPT !.pc = "exofork"]
  <2>1. env' = [env EXCEPT ![e] = x] /\ dato' = dato
    BY <1>2
  <2>2. /\ x.pte = env[e].pte /\ x.n = env[e].n /\ x.hijo = env[e].hijo /\ x.pc = "exofork"
        /\ x.estado = env[e].estado /\ x.uxstack = env[e].uxstack /\ x.upcall = env[e].upcall
        /\ x.pftemp = env[e].pftemp /\ x.falta = env[e].falta /\ x.paso = env[e].paso
        /\ x \in EnvType
    BY <1>1 DEF EnvType
  <2> HIDE DEF x
  <2>3. Bien(x) /\ Vive(x)
    BY <1>1, <2>2 DEF Bien, Vive
  <2>4. dato' \in [Marcos -> Datos] /\ \A f \in Envs, u \in VPs :
            env[f].pte[u] # NULO => env[f].pte[u].marco # NULO
    BY <2>1, Constantes, Partes DEF IInv, TypeOK
  <2>5. Propia(e, x, NULO)
    BY <1>1, <2>1, <2>2, <2>3, <2>4 DEF Propia
  <2> QED
    BY <2>1, <2>2, <2>5, PropiaStep
<1>3. CASE /\ SysPageAlloc
           /\ env' = [[env EXCEPT ![e].pc = "exofork"]
                        EXCEPT ![e].uxstack = Primera, ![e].upcall = TRUE]
  <2> DEFINE z == Primera
             x == [env[e] EXCEPT !.pc = "exofork", !.uxstack = z, !.upcall = TRUE]
  <2>1. /\ z \in Marcos /\ \A f \in Envs : env[f].pftemp # z
        /\ \A f \in Envs, u \in VPs : env[f].pte[u] # NULO => env[f].pte[u].marco # z
    BY <1>3, PrimeraLibre DEF SysPageAlloc
  <2>2. dato' = [dato EXCEPT ![z] = 0]
    BY <1>3 DEF SysPageAlloc
  <2> HIDE DEF z
  <2>3. env' = [env EXCEPT ![e] = x]
    BY <1>3 DEF z, IInv, TypeOK
  <2>4. /\ x.pte = env[e].pte /\ x.n = env[e].n /\ x.hijo = env[e].hijo /\ x.pc = "exofork"
        /\ x.estado = env[e].estado /\ x.uxstack = z /\ x.upcall = TRUE
        /\ x.pftemp = env[e].pftemp /\ x.falta = env[e].falta /\ x.paso = env[e].paso
        /\ x \in EnvType
    BY <1>1, <2>1 DEF EnvType
  <2> HIDE DEF x
  <2>5. Bien(x) /\ Vive(x)
    BY <1>1, <2>1, <2>4, Constantes DEF Bien, Vive
  <2>6. dato' \in [Marcos -> Datos] /\ \A q \in Marcos : q # z => dato'[q] = dato[q]
    BY <2>2, Constantes DEF IInv, TypeOK
  <2>7. Propia(e, x, z)
    BY <1>1, <2>1, <2>4, <2>5, <2>6, Constantes DEF Propia
  <2> QED
    BY <2>3, <2>4, <2>7, PropiaStep
<1> QED
  BY <1>2, <1>3 DEF SetPgfaultHandler

\* Two environments have changed.
LEMMA CambioDos ==
    ASSUME env \in [Envs -> EnvType], NEW c \in Envs, NEW e \in Envs, c # e,
           NEW y \in EnvType, NEW x \in EnvType, env' = [[env EXCEPT ![c] = y] EXCEPT ![e] = x]
    PROVE  /\ env' \in [Envs -> EnvType]
           /\ \A f \in Envs : env'[f] = IF f = e THEN x ELSE IF f = c THEN y ELSE env[f]
OBVIOUS

LEMMA ExoforkStep ==
    ASSUME IInv, NEW e \in Envs, Exofork(e)
    PROVE  Paso
<1>1. /\ Vive(env[e]) /\ env[e] \in EnvType /\ Bien(env[e]) /\ env[e].hijo = NULO
      /\ env[e].falta = NULO /\ env[e].pc = "exofork" /\ env[e].estado = "vivo"
  BY Partes DEF Exofork, En, Corre, Vive, Bien
<1>2. CASE Panic(e)
  BY <1>1, <1>2, PanicStep
<1>3. CASE \E c \in Envs : /\ env[c].estado = "libre"
                           /\ env' = [env EXCEPT ![c].estado = "embrion",
                                                 ![e].hijo = c, ![e].n = 0, ![e].pc = "hijo"]
                           /\ UNCHANGED dato
  <2>1. PICK c \in Envs : /\ env[c].estado = "libre"
                          /\ env' = [env EXCEPT ![c].estado = "embrion",
                                                ![e].hijo = c, ![e].n = 0, ![e].pc = "hijo"]
                          /\ UNCHANGED dato
    BY <1>3
  <2> DEFINE y == [env[c] EXCEPT !.estado = "embrion"]
             x == [env[e] EXCEPT !.hijo = c, !.n = 0, !.pc = "hijo"]
  <2>2. c # e /\ env[c] \in EnvType /\ Bien(env[c]) /\ ~Vive(env[c])
    BY <1>1, <2>1, Partes DEF Vive
  <2>3. env' = [[env EXCEPT ![c] = y] EXCEPT ![e] = x]
    BY <2>1, <2>2 DEF IInv, TypeOK
  <2>4. /\ x.pte = env[e].pte /\ x.n = 0 /\ x.hijo = c /\ x.pc = "hijo"
        /\ x.estado = env[e].estado /\ x.uxstack = env[e].uxstack /\ x.upcall = env[e].upcall
        /\ x.pftemp = env[e].pftemp /\ x.falta = env[e].falta /\ x.paso = env[e].paso
        /\ x \in EnvType
    <3>1. 0 \in 0 .. NVP
      BY CowForkAssumption
    <3> QED
      BY <1>1, <3>1 DEF EnvType
  <2>5. /\ y.pte = env[c].pte /\ y.n = env[c].n /\ y.hijo = env[c].hijo /\ y.pc = env[c].pc
        /\ y.estado = "embrion" /\ y.uxstack = env[c].uxstack /\ y.upcall = env[c].upcall
        /\ y.pftemp = env[c].pftemp /\ y.falta = env[c].falta /\ y.paso = env[c].paso
        /\ y \in EnvType
    BY <2>2 DEF EnvType
  <2> HIDE DEF x, y
  <2>6. /\ env' \in [Envs -> EnvType]
        /\ \A f \in Envs : env'[f] = IF f = e THEN x ELSE IF f = c THEN y ELSE env[f]
    BY <2>2, <2>3, <2>4, <2>5, CambioDos DEF IInv, TypeOK
  <2>7. TypeOK'
    BY <2>1, <2>6 DEF IInv, TypeOK
  <2>8. Bien(x)
    BY <1>1, <2>4, Constantes, CowForkAssumption DEF Bien, Vive
  <2>9. Bien(y) /\ ~Vive(y) /\ y.hijo = NULO /\ \A v \in VPs : y.pte[v] = NULO
    BY <2>1, <2>2, <2>5 DEF Bien, Vive
  <2>10. \A f \in Envs : Bien(env'[f])
    BY <2>6, <2>8, <2>9, Partes
  <2>11. \A f \in Envs : /\ env'[f].pte = env[f].pte /\ env'[f].pftemp = env[f].pftemp
                         /\ env'[f].falta = env[f].falta /\ env'[f].paso = env[f].paso
                         /\ Vive(env'[f]) <=> Vive(env[f])
                         /\ f # e => /\ env'[f].hijo = env[f].hijo /\ env'[f].pc = env[f].pc
                                   /\ env'[f].n = env[f].n
                         /\ f # e /\ f # c => env'[f] = env[f]
    BY <1>1, <2>2, <2>4, <2>5, <2>6, <2>9 DEF Vive
  <2>12. Hijo(e)'
    <3>1. \A g \in Envs : env[g].hijo # c
      BY <2>1, Constantes, HijoPartes
    <3>2. \A g \in Envs : env'[g].hijo = c => g = e
      BY <2>11, <3>1
    <3>3. env'[c].estado = "embrion" /\ \A v \in VPs : env'[c].pte[v] = NULO
      BY <2>2, <2>5, <2>6, <2>9
    <3>4. \A v \in VPs : ~(v < 0) /\ v \in Nat
      BY Constantes
    <3> QED
      BY <2>4, <2>6, <3>2, <3>3, <3>4 DEF Hijo
  <2>13. ASSUME NEW f \in Envs, f # e PROVE Hijo(f)'
    <3> SUFFICES ASSUME env[f].hijo # NULO PROVE Hijo(f)'
      BY <2>11, <2>13 DEF Hijo
    <3> DEFINE h == env[f].hijo
    <3>1. /\ h \in Envs /\ env[h].estado = "embrion" /\ Vive(env[f])
          /\ \A g \in Envs : env[g].hijo = h => g = f
      BY HijoPartes
    <3>2. h # e /\ h # c /\ f # c
      BY <1>1, <2>1, <2>2, <3>1
    <3>3. env'[h] = env[h] /\ env'[f] = env[f]
      BY <2>11, <2>13, <3>1, <3>2
    <3>4. \A g \in Envs : env'[g].hijo = h => g = f
      BY <2>4, <2>6, <2>11, <3>1, <3>2
    <3>5. Hijo(f) /\ dato' = dato
      BY <2>1, Partes
    <3> QED
      BY <3>3, <3>4, <3>5 DEF Hijo
  <2>14. ASSUME NEW f \in Envs PROVE Temporal(f)'
    <3>1. Temporal(f) /\ dato' = dato
      BY <2>1, Partes
    <3>2. \A g \in Envs : env'[g].pte = env[g].pte /\ env'[g].pftemp = env[g].pftemp
      BY <2>11
    <3>3. env'[f].falta = env[f].falta /\ env'[f].paso = env[f].paso
      BY <2>11
    <3> QED
      BY <3>1, <3>2, <3>3 DEF Temporal
  <2>15. ASSUME NEW f \in Envs, NEW g \in Envs, NEW a \in VPs, NEW b \in VPs
         PROVE  Compartida(f, a, g, b)'
    <3>1. Compartida(f, a, g, b)
      BY DEF IInv
    <3>2. env'[f].pte = env[f].pte /\ env'[g].pte = env[g].pte
      BY <2>11
    <3>3. CASE f = e
      BY <1>1, <3>1, <3>2, <3>3 DEF Compartida
    <3>4. CASE f # e
      BY <2>11, <3>1, <3>2, <3>4 DEF Compartida
    <3> QED
      BY <3>3, <3>4
  <2>16. Mem' = Mem
    BY <2>1, <2>11, MemIgual
  <2> QED
    BY <2>7, <2>10, <2>12, <2>13, <2>14, <2>15, <2>16 DEF Paso, IInv
<1> QED
  BY <1>2, <1>3 DEF Exofork

\* Where the loop of fork is after page n.
LEMMA SiguienteCampos ==
    ASSUME NEW r \in EnvType, r.n < NVP
    PROVE  LET x == Siguiente(r)
           IN  /\ x \in EnvType /\ x.n = r.n + 1
               /\ x.pc = IF r.n + 1 < NVP THEN "hijo" ELSE "uxstack"
               /\ x.pc = "uxstack" => x.n = NVP
               /\ x.pte = r.pte /\ x.hijo = r.hijo /\ x.estado = r.estado
               /\ x.uxstack = r.uxstack /\ x.upcall = r.upcall /\ x.pftemp = r.pftemp
               /\ x.falta = r.falta /\ x.paso = r.paso
<1>1. r.n \in Nat /\ r.n + 1 \in 0 .. NVP /\ (~(r.n + 1 < NVP) => r.n + 1 = NVP)
  BY CowForkAssumption DEF EnvType
<1> QED
  BY <1>1 DEF Siguiente, EnvType

LEMMA DupPageSinTablaStep ==
    ASSUME IInv, NEW e \in Envs, DupPageSinTabla(e)
    PROVE  Paso
<1>1. env[e].estado = "vivo" /\ Panic(e)
  BY DEF DupPageSinTabla, En, Corre
<1> QED
  BY <1>1, PanicStep

\* The first sys_page_map of duppage gives the child the page of the parent,
\* without write access; if the parent has it, it gives it up next.
LEMMA DupPageHijoStep ==
    ASSUME IInv, NEW e \in Envs, DupPageHijo(e)
    PROVE  Paso
<1> DEFINE c == env[e].hijo
           n == env[e].n
           p == env[e].pte[n]
           compartir == p.w \/ p.cow
           q == IF compartir THEN ConCow(p) ELSE p
           x == IF compartir THEN [env[e] EXCEPT !.pc = "propia"] ELSE Siguiente(env[e])
           y == [env[c] EXCEPT !.pte[n] = q]
<1>1. /\ Vive(env[e]) /\ env[e] \in EnvType /\ Bien(env[e]) /\ env[e].pc = "hijo"
      /\ env[e].falta = NULO /\ c # NULO
  BY Partes DEF DupPageHijo, En, Corre, Vive, Bien
<1>2. n \in VPs /\ n < NVP /\ n \in Nat
  BY <1>1, Constantes DEF Bien, EnvType
<1>3. /\ c \in Envs /\ c # e /\ env[c].estado = "embrion" /\ ~Vive(env[c])
      /\ \A g \in Envs : env[g].hijo = c => g = e
  BY <1>1, HijoPartes
<1>4. env[c] \in EnvType /\ Bien(env[c])
  BY <1>3, Partes
<1>5. p \in Pte /\ p # NULO
  BY <1>1, <1>2, VivePartes
<1>6. q \in Pte /\ q.marco = p.marco /\ ~q.w /\ q # NULO
  <2>1. q \in Pte /\ q.marco = p.marco /\ ~q.w
    BY <1>5 DEF ConCow, Pte
  <2> QED
    BY <2>1, Constantes
<1>7. env' = [[env EXCEPT ![c] = y] EXCEPT ![e] = x] /\ dato' = dato
  <2>1. CASE compartir
    BY <1>3, <2>1 DEF DupPageHijo, IInv, TypeOK
  <2>2. CASE ~compartir
    BY <1>3, <2>2 DEF DupPageHijo, IInv, TypeOK
  <2> QED
    BY <2>1, <2>2
<1>8. /\ x.pte = env[e].pte /\ x.hijo = c /\ x.estado = env[e].estado
      /\ x.uxstack = env[e].uxstack /\ x.upcall = env[e].upcall /\ x.pftemp = env[e].pftemp
      /\ x.falta = env[e].falta /\ x.paso = env[e].paso /\ x \in EnvType
      /\ \/ x.pc = "propia" /\ x.n = n
         \/ /\ x.pc \in {"hijo", "uxstack"} /\ x.n = n + 1 /\ ~p.w
            /\ x.pc = "hijo" => x.n < NVP
            /\ x.pc = "uxstack" => x.n = NVP
  <2>1. CASE compartir
    BY <1>1, <2>1 DEF EnvType
  <2>2. CASE ~compartir
    BY <1>1, <1>2, <2>2, SiguienteCampos
  <2> QED
    BY <2>1, <2>2
<1> HIDE DEF q
<1>9. /\ y.hijo = env[c].hijo /\ y.pc = env[c].pc /\ y.n = env[c].n
      /\ y.estado = "embrion" /\ y.uxstack = env[c].uxstack /\ y.upcall = env[c].upcall
      /\ y.pftemp = env[c].pftemp /\ y.falta = env[c].falta /\ y.paso = env[c].paso
      /\ y \in EnvType
      /\ \A v \in VPs : y.pte[v] = IF v = n THEN q ELSE env[c].pte[v]
  BY <1>2, <1>3, <1>4, <1>6 DEF EnvType
<1> HIDE DEF x, y
<1>10. /\ env' \in [Envs -> EnvType]
       /\ \A f \in Envs : env'[f] = IF f = e THEN x ELSE IF f = c THEN y ELSE env[f]
  BY <1>3, <1>7, <1>8, <1>9, CambioDos DEF IInv, TypeOK
<1>11. TypeOK'
  BY <1>7, <1>10 DEF IInv, TypeOK
<1>12. Bien(x)
  BY <1>1, <1>2, <1>8 DEF Bien, Vive
<1>13. Bien(y) /\ ~Vive(y)
  BY <1>3, <1>4, <1>9 DEF Bien, Vive
<1>14. \A f \in Envs : Bien(env'[f])
  BY <1>10, <1>12, <1>13, Partes
<1>15. \A f \in Envs : /\ env'[f].hijo = env[f].hijo /\ env'[f].pftemp = env[f].pftemp
                       /\ env'[f].falta = env[f].falta /\ env'[f].paso = env[f].paso
                       /\ env'[f].estado = env[f].estado
                       /\ f # e => env'[f].n = env[f].n /\ env'[f].pc = env[f].pc
                       /\ \A v \in VPs : f # c \/ v # n => env'[f].pte[v] = env[f].pte[v]
  BY <1>3, <1>8, <1>9, <1>10
<1>16. env'[c].pte[n] = q
  BY <1>2, <1>3, <1>9, <1>10
<1>17. Hijo(e)'
  <2>1. Hijo(e) /\ env'[e].hijo = c /\ env'[c].estado = "embrion"
        /\ \A g \in Envs : env'[g].hijo = c => g = e
    BY <1>3, <1>15, Partes
  <2>2. ASSUME NEW v \in VPs
        PROVE  env'[c].pte[v] # NULO <=> v < x.n \/ (v = x.n /\ x.pc = "propia")
    <3>1. v \in Nat /\ (env[c].pte[v] # NULO <=> v < n)
      BY <1>1, <2>1, Constantes DEF Hijo
    <3>2. v # n => env'[c].pte[v] = env[c].pte[v]
      BY <1>3, <1>15
    <3> QED
      BY <1>2, <1>6, <1>8, <1>16, <3>1, <3>2
  <2>3. ASSUME NEW v \in VPs \ {STACK}, env'[c].pte[v] # NULO
        PROVE  dato'[env'[c].pte[v].marco] = dato'[env'[e].pte[v].marco]
    <3>1. env'[e].pte[v] = env[e].pte[v]
      BY <1>3, <1>15
    <3>2. CASE v = n
      BY <1>6, <1>16, <3>1, <3>2
    <3>3. CASE v # n
      <4>1. env'[c].pte[v] = env[c].pte[v]
        BY <1>3, <1>15, <3>3
      <4> QED
        <5>1. \A u \in VPs \ {STACK} : env[c].pte[u] # NULO =>
                  dato[env[c].pte[u].marco] = dato[env[e].pte[u].marco]
          BY <1>1, <2>1, HijoDatos
        <5>2. env[c].pte[v] # NULO
          BY <2>3, <4>1
        <5> QED
          BY <1>7, <2>3, <3>1, <4>1, <5>1, <5>2
    <3> QED
      BY <3>2, <3>3
  <2> QED
    <3>1. env'[e] = x
      BY <1>10
    <3> HIDE DEF c
    <3> QED
      BY <2>1, <2>2, <2>3, <3>1, HijoSigue
<1>18. ASSUME NEW f \in Envs, f # e PROVE Hijo(f)'
  <2> SUFFICES ASSUME env[f].hijo # NULO PROVE Hijo(f)'
    BY <1>15 DEF Hijo
  <2> DEFINE h == env[f].hijo
  <2>1. h \in Envs /\ env[h].estado = "embrion" /\ Vive(env[f]) /\ h # e /\ h # c /\ f # c
    BY <1>1, <1>3, <1>18, HijoPartes DEF Vive
  <2>2. env'[h] = env[h] /\ env'[f] = env[f]
    BY <1>10, <1>18, <2>1
  <2>3. Hijo(f) /\ dato' = dato
    BY <1>7, Partes
  <2> QED
    BY <1>15, <2>2, <2>3, HijoIgual
<1>19. ASSUME NEW f \in Envs PROVE Temporal(f)'
  <2> SUFFICES ASSUME env[f].pftemp # NULO PROVE Temporal(f)'
    BY <1>15 DEF Temporal
  <2>1. Temporal(f) /\ dato' = dato /\ f # c
    BY <1>3, <1>4, <1>7, Partes DEF Bien
  <2>2. p.marco # env[f].pftemp
    BY <1>1, <1>2, <1>5, <2>1, Constantes DEF Temporal
  <2>3. \A g \in Envs, v \in VPs :
            env'[g].pte[v] # NULO /\ env'[g].pte[v].marco = env[f].pftemp =>
                g = f /\ v = env[f].falta /\ env[f].paso = "unmap"
    BY <1>6, <1>15, <1>16, <2>1, <2>2 DEF Temporal
  <2>4. \A v \in VPs : env'[f].pte[v] = env[f].pte[v]
    BY <1>15, <2>1
  <2>5. env[f].paso = "map" => env[f].falta \in VPs
    BY Partes DEF Bien, EnvType
  <2> QED
    BY <1>15, <2>1, <2>3, <2>4, <2>5 DEF Temporal
<1>20. ASSUME NEW f \in Envs, NEW g \in Envs, NEW a \in VPs, NEW b \in VPs
       PROVE  Compartida(f, a, g, b)'
  <2>1. CASE f = c /\ a = n
    BY <1>6, <1>16, <2>1 DEF Compartida
  <2>2. CASE ~(f = c /\ a = n) /\ g = c /\ b = n
    <3> SUFFICES ASSUME env[f].pte[a] # NULO, env[f].pte[a].marco = p.marco, env[f].pte[a].w
                 PROVE  Compartida(f, a, g, b)'
      BY <1>6, <1>15, <1>16, <2>2 DEF Compartida
    <3>1. CASE f = e /\ a = n
      BY <1>8, <1>10, <2>2, <3>1 DEF Compartida
    <3>2. CASE ~(f = e /\ a = n)
      <4>1. env[f].hijo = e /\ env[e].estado = "embrion"
        BY <1>2, <1>5, <3>2, Escribible
      <4> QED
        BY <1>1, <4>1 DEF Vive
    <3> QED
      BY <3>1, <3>2
  <2>3. CASE ~(f = c /\ a = n) /\ ~(g = c /\ b = n)
    <3>1. Compartida(f, a, g, b)
      BY DEF IInv
    <3>2. env'[f].pte[a] = env[f].pte[a] /\ env'[g].pte[b] = env[g].pte[b]
      BY <1>15, <2>3
    <3>3. CASE f = e
      BY <1>1, <3>1, <3>2, <3>3 DEF Compartida
    <3>4. CASE f # e
      BY <1>15, <3>1, <3>2, <3>4 DEF Compartida
    <3> QED
      BY <3>3, <3>4
  <2> QED
    BY <2>1, <2>2, <2>3
<1>21. Mem' = Mem
  <2>1. ASSUME NEW f \in Envs, NEW v \in VPs, Vive(env[f])
        PROVE  dato'[env'[f].pte[v].marco] = dato[env[f].pte[v].marco]
    BY <1>3, <1>7, <1>15, <2>1
  <2> QED
    BY <1>15, <2>1, MemIgual DEF Vive
<1> QED
  BY <1>11, <1>14, <1>17, <1>18, <1>19, <1>20, <1>21 DEF Paso, IInv

\* The second takes the write access away from the page that the parent has by
\* now, which may be a copy that its handler has just made.
LEMMA DupPagePropiaStep ==
    ASSUME IInv, NEW e \in Envs, DupPagePropia(e)
    PROVE  Paso
<1> DEFINE c == env[e].hijo
           n == env[e].n
           p == env[e].pte[n]
           q == ConCow(p)
           r == [env[e] EXCEPT !.pte[n] = q]
           x == Siguiente(r)
<1>1. /\ Vive(env[e]) /\ env[e] \in EnvType /\ Bien(env[e]) /\ env[e].pc = "propia"
      /\ env[e].falta = NULO /\ c # NULO
  BY Partes DEF DupPagePropia, En, Corre, Vive, Bien
<1>2. n \in VPs /\ n < NVP /\ n \in Nat
  BY <1>1, Constantes DEF Bien, EnvType
<1>3. p \in Pte /\ p # NULO
  BY <1>1, <1>2, VivePartes
<1>4. q \in Pte /\ q.marco = p.marco /\ ~q.w /\ q # NULO
  <2>1. q \in Pte /\ q.marco = p.marco /\ ~q.w
    BY <1>3 DEF ConCow, Pte
  <2> QED
    BY <2>1, Constantes
<1>5. env' = [env EXCEPT ![e] = x] /\ dato' = dato
  BY DEF DupPagePropia
<1> HIDE DEF q
<1>6. /\ r.n = n /\ r.hijo = c /\ r.estado = env[e].estado
      /\ r.uxstack = env[e].uxstack /\ r.upcall = env[e].upcall /\ r.pftemp = env[e].pftemp
      /\ r.falta = env[e].falta /\ r.paso = env[e].paso /\ r \in EnvType
      /\ \A v \in VPs : r.pte[v] = IF v = n THEN q ELSE env[e].pte[v]
  BY <1>1, <1>2, <1>4 DEF EnvType
<1> HIDE DEF r
<1>7. /\ x.n = n + 1 /\ x.hijo = c /\ x.estado = env[e].estado
      /\ x.uxstack = env[e].uxstack /\ x.upcall = env[e].upcall /\ x.pftemp = env[e].pftemp
      /\ x.falta = env[e].falta /\ x.paso = env[e].paso /\ x \in EnvType
      /\ \A v \in VPs : x.pte[v] = IF v = n THEN q ELSE env[e].pte[v]
      /\ x.pc \in {"hijo", "uxstack"} /\ (x.pc = "hijo" => x.n < NVP)
      /\ x.pc = "uxstack" => x.n = NVP
  BY <1>2, <1>6, SiguienteCampos
<1> HIDE DEF x
<1>8. /\ env' \in [Envs -> EnvType]
      /\ \A f \in Envs : env'[f] = IF f = e THEN x ELSE env[f]
  BY <1>5, <1>7, Cambio DEF IInv, TypeOK
<1>9. TypeOK'
  BY <1>5, <1>8 DEF IInv, TypeOK
<1>10. Bien(x)
  BY <1>1, <1>4, <1>7 DEF Bien, Vive
<1>11. \A f \in Envs : Bien(env'[f])
  BY <1>8, <1>10, Partes
<1>12. \A f \in Envs : /\ env'[f].hijo = env[f].hijo /\ env'[f].pftemp = env[f].pftemp
                       /\ env'[f].falta = env[f].falta /\ env'[f].paso = env[f].paso
                       /\ env'[f].estado = env[f].estado
                       /\ f # e => env'[f] = env[f]
  BY <1>7, <1>8
<1>13. \A f \in Envs, v \in VPs :
            /\ env'[f].pte[v] # NULO <=> env[f].pte[v] # NULO
            /\ env'[f].pte[v].marco = env[f].pte[v].marco
            /\ env'[f].pte[v].w => env'[f].pte[v] = env[f].pte[v] /\ ~(f = e /\ v = n)
  BY <1>3, <1>4, <1>7, <1>8
<1>14. Hijo(e)'
  <2>1. Hijo(e) /\ c \in Envs /\ c # e
    BY <1>1, HijoPartes, Partes
  <2>2. /\ env'[e].hijo = c /\ env'[c].estado = "embrion" /\ env'[c] = env[c]
        /\ \A g \in Envs : env'[g].hijo = c => g = e
    BY <1>1, <1>12, <2>1 DEF Hijo
  <2>3. ASSUME NEW v \in VPs
        PROVE  env'[c].pte[v] # NULO <=> v < x.n \/ (v = x.n /\ x.pc = "propia")
    <3>1. v \in Nat /\ (env[c].pte[v] # NULO <=> v < n \/ v = n)
      BY <1>1, <2>1, Constantes DEF Hijo
    <3> QED
      BY <1>2, <1>7, <2>2, <3>1
  <2>4. ASSUME NEW v \in VPs \ {STACK}, env'[c].pte[v] # NULO
        PROVE  dato'[env'[c].pte[v].marco] = dato'[env'[e].pte[v].marco]
    <3>1. dato[env[c].pte[v].marco] = dato[env[e].pte[v].marco]
      BY <1>1, <2>1, <2>2, <2>4 DEF Hijo
    <3> QED
      BY <1>5, <1>13, <2>2, <3>1
  <2> QED
    BY <1>8, <2>2, <2>3, <2>4 DEF Hijo
<1>15. ASSUME NEW f \in Envs, f # e PROVE Hijo(f)'
  <2> SUFFICES ASSUME env[f].hijo # NULO PROVE Hijo(f)'
    BY <1>12 DEF Hijo
  <2>1. env[f].hijo \in Envs /\ env[f].hijo # e
    BY <1>1, HijoPartes
  <2>2. env'[env[f].hijo] = env[env[f].hijo] /\ env'[f] = env[f]
    BY <1>12, <1>15, <2>1
  <2>3. Hijo(f) /\ dato' = dato
    BY <1>5, Partes
  <2> QED
    BY <1>12, <2>2, <2>3, HijoIgual
<1>16. ASSUME NEW f \in Envs PROVE Temporal(f)'
  <2>1. Temporal(f) /\ dato' = dato /\ (env[f].paso = "map" => env[f].falta \in VPs)
    BY <1>5, Partes DEF Bien, EnvType
  <2> QED
    BY <1>12, <1>13, <2>1 DEF Temporal
<1>17. ASSUME NEW f \in Envs, NEW g \in Envs, NEW a \in VPs, NEW b \in VPs
       PROVE  Compartida(f, a, g, b)'
  <2> SUFFICES ASSUME env'[f].pte[a] # NULO, env'[g].pte[b] # NULO, <<f, a>> # <<g, b>>,
                      env'[f].pte[a].marco = env'[g].pte[b].marco, env'[f].pte[a].w
               PROVE  /\ env'[f].pc = "propia" /\ env'[f].n = a /\ b = a
                      /\ env'[f].hijo = g
    BY DEF Compartida
  <2>1. env[f].pc = "propia" /\ env[f].n = a /\ b = a /\ env[f].hijo = g /\ ~(f = e /\ a = n)
    BY <1>13 DEF IInv, Compartida
  <2> QED
    BY <1>12, <2>1
<1>18. Mem' = Mem
  BY <1>5, <1>12, <1>13, MemIgual DEF Vive
<1> QED
  BY <1>9, <1>11, <1>14, <1>15, <1>16, <1>17, <1>18 DEF Paso, IInv

\* The child starts with what its parent has in every page, the stack aside.
LEMMA ForkEndStep ==
    ASSUME IInv, NEW e \in Envs, ForkEnd(e)
    PROVE  Paso
<1> DEFINE c == env[e].hijo
           z == Primera
<1>1. /\ Vive(env[e]) /\ env[e] \in EnvType /\ Bien(env[e]) /\ env[e].pc = "uxstack"
      /\ env[e].falta = NULO /\ c # NULO /\ env[e].n = NVP /\ env[e].estado = "vivo"
      /\ env[e].pftemp = NULO /\ env[e].paso = "alloc"
  BY Partes DEF ForkEnd, En, Corre, Vive, Bien
<1>2. CASE SinMemoria /\ Panic(e)
  BY <1>1, <1>2, PanicStep
<1>3. CASE /\ SysPageAlloc
           /\ env' = [env EXCEPT ![c].uxstack = z, ![c].upcall = env[e].upcall,
                                 ![c].estado = "vivo",
                                 ![e].pc = "usuario", ![e].hijo = NULO, ![e].n = 0]
  <2> DEFINE y == [env[c] EXCEPT !.uxstack = z, !.upcall = env[e].upcall, !.estado = "vivo"]
             x == [env[e] EXCEPT !.pc = "usuario", !.hijo = NULO, !.n = 0]
  <2>1. /\ c \in Envs /\ c # e /\ env[c].estado = "embrion" /\ ~Vive(env[c])
        /\ \A g \in Envs : env[g].hijo = c => g = e
    BY <1>1, HijoPartes
  <2>2. env[c] \in EnvType /\ Bien(env[c]) /\ Hijo(e)
    BY <2>1, Partes
  <2>3. /\ z \in Marcos /\ \A f \in Envs : env[f].pftemp # z
        /\ \A f \in Envs, u \in VPs : env[f].pte[u] # NULO => env[f].pte[u].marco # z
    BY <1>3, PrimeraLibre DEF SysPageAlloc
  <2>4. dato' = [dato EXCEPT ![z] = 0]
    BY <1>3 DEF SysPageAlloc
  <2> HIDE DEF z
  <2>5. env' = [[env EXCEPT ![c] = y] EXCEPT ![e] = x]
    BY <1>3, <2>1 DEF IInv, TypeOK
  <2>6. dato' \in [Marcos -> Datos] /\ \A p \in Marcos : p # z => dato'[p] = dato[p]
    BY <2>4, Constantes DEF IInv, TypeOK
  <2>7. /\ x.pte = env[e].pte /\ x.n = 0 /\ x.hijo = NULO /\ x.pc = "usuario"
        /\ x.estado = env[e].estado /\ x.uxstack = env[e].uxstack /\ x.upcall = env[e].upcall
        /\ x.pftemp = env[e].pftemp /\ x.falta = env[e].falta /\ x.paso = env[e].paso
        /\ x \in EnvType
    <3>1. 0 \in 0 .. NVP
      BY CowForkAssumption
    <3> QED
      BY <1>1, <3>1 DEF EnvType
  <2>8. /\ y.pte = env[c].pte /\ y.n = env[c].n /\ y.hijo = env[c].hijo /\ y.pc = env[c].pc
        /\ y.estado = "vivo" /\ y.uxstack = z /\ y.upcall = env[e].upcall
        /\ y.pftemp = env[c].pftemp /\ y.falta = env[c].falta /\ y.paso = env[c].paso
        /\ y \in EnvType
    BY <1>1, <2>2, <2>3 DEF EnvType
  <2> HIDE DEF x, y
  <2>9. /\ env' \in [Envs -> EnvType]
        /\ \A f \in Envs : env'[f] = IF f = e THEN x ELSE IF f = c THEN y ELSE env[f]
    BY <2>1, <2>5, <2>7, <2>8, CambioDos DEF IInv, TypeOK
  <2>10. TypeOK'
    BY <2>6, <2>9 DEF IInv, TypeOK
  <2>11. \A v \in VPs : env[c].pte[v] # NULO /\ env[e].pte[v] # NULO
    <3>1. \A v \in VPs : v < NVP
      BY CowForkAssumption DEF VPs
    <3> QED
      BY <1>1, <2>2, <3>1, VivePartes DEF Hijo
  <2>12. Bien(x) /\ Vive(x)
    BY <1>1, <2>7, <2>11 DEF Bien, Vive
  <2>13. Bien(y) /\ Vive(y)
    BY <2>1, <2>2, <2>8, <2>11 DEF Bien, Vive
  <2>14. \A f \in Envs : Bien(env'[f])
    BY <2>9, <2>12, <2>13, Partes
  <2>15. \A f \in Envs : /\ env'[f].pte = env[f].pte /\ env'[f].pftemp = env[f].pftemp
                         /\ env'[f].falta = env[f].falta /\ env'[f].paso = env[f].paso
                         /\ f # e => /\ env'[f].hijo = env[f].hijo /\ env'[f].pc = env[f].pc
                                     /\ env'[f].n = env[f].n
                         /\ f # e /\ f # c => env'[f] = env[f]
    BY <2>1, <2>7, <2>8, <2>9
  <2>16. \A f \in Envs, v \in VPs : env[f].pte[v] # NULO =>
            dato'[env[f].pte[v].marco] = dato[env[f].pte[v].marco]
    BY <2>3, <2>6, Partes
  <2>17. ASSUME NEW f \in Envs PROVE Hijo(f)'
    <3>1. CASE f = e
      BY <2>7, <2>9, <3>1 DEF Hijo
    <3>2. CASE f # e /\ env[f].hijo = NULO
      BY <2>15, <3>2 DEF Hijo
    <3>3. CASE f # e /\ env[f].hijo # NULO
      <4> DEFINE h == env[f].hijo
      <4>1. /\ h \in Envs /\ env[h].estado = "embrion" /\ Vive(env[f]) /\ Hijo(f)
            /\ \A g \in Envs : env[g].hijo = h => g = f
        BY <3>3, HijoPartes, Partes
      <4>2. h # e /\ h # c /\ f # c
        BY <1>1, <2>1, <3>3, <4>1 DEF Vive
      <4>3. env'[h] = env[h] /\ env'[f] = env[f]
        BY <2>15, <3>3, <4>1, <4>2
      <4>4. \A g \in Envs : env'[g].hijo = h => g = f
        BY <2>7, <2>9, <2>15, <3>3, <4>1
      <4>5. \A v \in VPs : env[f].pte[v] # NULO
        BY <4>1, VivePartes
      <4>6. \A v \in VPs \ {STACK} : env[h].pte[v] # NULO =>
                dato'[env[h].pte[v].marco] = dato'[env[f].pte[v].marco]
        BY <2>16, <3>3, <4>1, <4>5 DEF Hijo
      <4> QED
        <5>1. /\ env'[f].hijo = h /\ env'[h].estado = "embrion"
              /\ \A v \in VPs : env'[h].pte[v] # NULO <=>
                    v < env'[f].n \/ (v = env'[f].n /\ env'[f].pc = "propia")
          BY <3>3, <4>1, <4>3, Partes, HijoDatos
        <5>2. \A v \in VPs \ {STACK} : env'[h].pte[v] # NULO =>
                  dato'[env'[h].pte[v].marco] = dato'[env'[f].pte[v].marco]
          BY <4>3, <4>6
        <5> HIDE DEF h
        <5> QED
          BY <4>4, <5>1, <5>2, HijoSigue
    <3> QED
      BY <3>1, <3>2, <3>3
  <2>18. ASSUME NEW f \in Envs PROVE Temporal(f)'
    <3> SUFFICES ASSUME env[f].pftemp # NULO PROVE Temporal(f)'
      BY <2>15 DEF Temporal
    <3>1. Temporal(f) /\ \A g \in Envs : env'[g].pte = env[g].pte /\ env'[g].pftemp = env[g].pftemp
      BY <2>15, Partes
    <3>2. env'[f].falta = env[f].falta /\ env'[f].paso = env[f].paso
      BY <2>15
    <3>3. env[f].paso = "map" => dato'[env[f].pftemp] = dato'[env[f].pte[env[f].falta].marco]
      <4> SUFFICES ASSUME env[f].paso = "map"
                   PROVE  dato'[env[f].pftemp] = dato'[env[f].pte[env[f].falta].marco]
        OBVIOUS
      <4>1. env[f].falta \in VPs /\ env[f].pftemp \in Marcos /\ Vive(env[f])
        BY Partes DEF EnvType, Bien
      <4>2. env[f].pte[env[f].falta] # NULO
        BY <4>1, VivePartes
      <4>3. dato[env[f].pftemp] = dato[env[f].pte[env[f].falta].marco]
        BY <3>1 DEF Temporal
      <4> QED
        BY <2>3, <2>6, <2>16, <4>1, <4>2, <4>3
    <3> QED
      BY <3>1, <3>2, <3>3 DEF Temporal
  <2>19. ASSUME NEW f \in Envs, NEW g \in Envs, NEW a \in VPs, NEW b \in VPs
         PROVE  Compartida(f, a, g, b)'
    <3>1. Compartida(f, a, g, b)
      BY DEF IInv
    <3>2. env'[f].pte = env[f].pte /\ env'[g].pte = env[g].pte
      BY <2>15
    <3>3. CASE f = e
      BY <1>1, <3>1, <3>2, <3>3 DEF Compartida
    <3>4. CASE f # e
      BY <2>15, <3>1, <3>2, <3>4 DEF Compartida
    <3> QED
      BY <3>3, <3>4
  <2>20. PM!Start(e, c)
    <3>0. PICK k \in Envs : k = c
      BY <2>1
    <3> DEFINE d == dato[env[k].pte[STACK].marco]
    <3>1. d \in Datos
      BY <2>1, <3>0, <2>11, Constantes, Partes DEF IInv, TypeOK
    <3>2. Memoria(e)[STACK] \in Datos
      BY <1>1, Constantes, VivePartes DEF Memoria, Vive, IInv, TypeOK
    <3>3. Mem[e] # PM!Vacia
      BY <3>2, Constantes DEF Mem, PM!Vacia
    <3>4. Mem[k] = PM!Vacia
      BY <2>1, <3>0 DEF Mem, Memoria, Vive, PM!Vacia
    <3>5. ASSUME NEW f \in Envs, f # k PROVE Memoria(f)' = Memoria(f)
      <4>1. Vive(env'[f]) <=> Vive(env[f])
        BY <1>1, <2>9, <2>12, <3>0, <3>5
      <4>2. ASSUME NEW v \in VPs, Vive(env[f])
            PROVE  dato'[env'[f].pte[v].marco] = dato[env[f].pte[v].marco]
        BY <2>15, <2>16, <4>2, VivePartes
      <4> QED
        BY <4>1, <4>2 DEF Memoria, Vive
    <3>6. Memoria(k)' = [Memoria(e) EXCEPT ![STACK] = d]
      <4>1. Vive(env'[k]) /\ env'[k].pte = env[k].pte
        BY <2>1, <3>0, <2>9, <2>13, <2>15
      <4>2. ASSUME NEW v \in VPs, v # STACK
            PROVE  dato'[env[k].pte[v].marco] = dato[env[e].pte[v].marco]
        <5>1. dato[env[k].pte[v].marco] = dato[env[e].pte[v].marco]
          BY <1>1, <2>2, <2>11, <3>0, <4>2 DEF Hijo
        <5> QED
          BY <2>1, <3>0, <2>11, <2>16, <5>1
      <4>3. dato'[env[k].pte[STACK].marco] = d
        BY <2>1, <3>0, <2>11, <2>16, Constantes
      <4>4. /\ Memoria(k)' = [v \in VPs |-> dato'[env[k].pte[v].marco]]
            /\ Memoria(e) = [v \in VPs |-> dato[env[e].pte[v].marco]]
        BY <1>1, <4>1 DEF Memoria, Vive
      <4> HIDE DEF d
      <4> QED
        BY <4>2, <4>3, <4>4
    <3> HIDE DEF d
    <3>7. Mem' = [Mem EXCEPT ![k] = [Mem[e] EXCEPT ![STACK] = d]]
      <4>1. Mem[e] = Memoria(e)
        BY DEF Mem
      <4>2. \A f \in Envs : Memoria(f)' = IF f = k THEN [Mem[e] EXCEPT ![STACK] = d] ELSE Memoria(f)
        BY <3>5, <3>6, <4>1
      <4> QED
        BY <4>2 DEF Mem
    <3> QED
      BY <3>0, <3>1, <3>3, <3>4, <3>7 DEF PM!Start, PM!Vacia, Mem
  <2> QED
    BY <2>1, <2>10, <2>14, <2>17, <2>18, <2>19, <2>20 DEF Paso, IInv, PM!Next, Mem
<1> QED
  BY <1>2, <1>3 DEF ForkEnd

-----------------------------------------------------------------------------
\* Every step.

LEMMA InductiveStep ==
    ASSUME IInv, [Next]_vars
    PROVE  IInv' /\ [PM!Next]_Mem
<1>1. CASE Next
  <2>1. PICK e \in Envs :
            \/ UserWrite(e) \/ ForkWrite(e) \/ Exit(e)
            \/ PgfaultAlloc(e) \/ PgfaultCopy(e) \/ PgfaultMap(e) \/ PgfaultUnmap(e)
            \/ SetPgfaultHandler(e) \/ Exofork(e) \/ DupPageHijo(e) \/ DupPagePropia(e)
            \/ DupPageSinTabla(e) \/ ForkEnd(e)
    BY <1>1 DEF Next
  <2>2. CASE UserWrite(e)
    BY <2>2, EscribeStep DEF UserWrite, En, Paso
  <2>3. CASE ForkWrite(e)
    BY <2>3, EscribeStep, Constantes DEF ForkWrite, Paso
  <2>4. CASE Exit(e)
    <3>1. Vive(env[e]) /\ env' = [env EXCEPT ![e] = Libre] /\ dato' = dato
      BY <2>4 DEF Exit, En, Corre, Vive
    <3> QED
      BY <3>1, DestruyeStep DEF Paso
  <2>5. CASE PgfaultAlloc(e) \/ PgfaultCopy(e) \/ PgfaultMap(e) \/ PgfaultUnmap(e)
    BY <2>5, PgfaultAllocStep, PgfaultCopyStep, PgfaultMapStep, PgfaultUnmapStep DEF Paso
  <2>6. CASE SetPgfaultHandler(e) \/ Exofork(e) \/ DupPageSinTabla(e) \/ ForkEnd(e)
    BY <2>6, SetPgfaultHandlerStep, ExoforkStep, DupPageSinTablaStep, ForkEndStep DEF Paso
  <2>7. CASE DupPageHijo(e) \/ DupPagePropia(e)
    BY <2>7, DupPageHijoStep, DupPagePropiaStep DEF Paso
  <2> QED
    BY <2>1, <2>2, <2>3, <2>4, <2>5, <2>6, <2>7
<1>2. CASE UNCHANGED vars
  <2>1. env' = env /\ dato' = dato
    BY <1>2 DEF vars
  <2>2. IInv'
    BY <2>1 DEF IInv, TypeOK, Bien, Vive, Hijo, Temporal, Compartida
  <2>3. Mem' = Mem
    BY <2>1 DEF Mem, Memoria
  <2> QED
    BY <2>2, <2>3 DEF Paso
<1> QED
  BY <1>1, <1>2

LEMMA InitIInv ==
    ASSUME Init
    PROVE  IInv /\ PM!Init
<1>1. PICK e \in Envs, ro \in SUBSET (VPs \ {STACK}) :
          env = [f \in Envs |->
                    IF f = e THEN [Libre EXCEPT !.estado = "vivo", !.pte =
                        [v \in VPs |-> [marco |-> v + 1, w |-> v \notin ro, cow |-> FALSE]]]
                    ELSE Libre]
  BY DEF Init
<1> DEFINE g == [v \in VPs |-> [marco |-> v + 1, w |-> v \notin ro, cow |-> FALSE]]
           x == [Libre EXCEPT !.estado = "vivo", !.pte = g]
<1>2. \A v \in VPs : v \in Nat /\ v + 1 \in Marcos
  BY CowForkAssumption DEF VPs, Marcos
<1>3. /\ g \in [VPs -> Pte] /\ \A v \in VPs : g[v].marco = v + 1
  BY <1>2 DEF Pte
<1>4. \A v \in VPs : g[v] # NULO
  BY <1>3, Constantes
<1> HIDE DEF g
<1>5. /\ x \in EnvType /\ x.estado = "vivo" /\ x.pte = g /\ x.pftemp = NULO /\ x.hijo = NULO
      /\ x.pc = "usuario" /\ x.falta = NULO /\ x.paso = "alloc"
  BY <1>3, LibreCampos DEF EnvType
<1>6. env = [f \in Envs |-> IF f = e THEN x ELSE Libre]
  BY <1>1 DEF g
<1> HIDE DEF x
<1>7. \A f \in Envs : env[f] = IF f = e THEN x ELSE Libre
  BY <1>6
<1>8. dato \in [Marcos -> Datos] /\ \A p \in Marcos : dato[p] = 0
  BY Constantes DEF Init
<1>9. TypeOK
  BY <1>5, <1>6, <1>8, LibreCampos DEF TypeOK
<1>10. \A f \in Envs : Bien(env[f])
  BY <1>4, <1>5, <1>7, LibreCampos DEF Bien, Vive
<1>11. \A f \in Envs : env[f].hijo = NULO /\ env[f].pftemp = NULO
  BY <1>5, <1>7, LibreCampos
<1>12. \A f \in Envs : Hijo(f) /\ Temporal(f)
  BY <1>11 DEF Hijo, Temporal
<1>13. ASSUME NEW f \in Envs, NEW h \in Envs, NEW a \in VPs, NEW b \in VPs
       PROVE  Compartida(f, a, h, b)
  <2> SUFFICES ASSUME env[f].pte[a] # NULO, env[h].pte[b] # NULO, <<f, a>> # <<h, b>>,
                      env[f].pte[a].marco = env[h].pte[b].marco
               PROVE  FALSE
    BY DEF Compartida
  <2>1. f = e /\ h = e
    BY <1>7, LibreCampos
  <2>2. g[a].marco = a + 1 /\ g[b].marco = b + 1 /\ a \in Nat /\ b \in Nat
    BY <1>2, <1>3
  <2>3. a = b
    BY <1>5, <1>7, <2>1, <2>2
  <2> QED
    BY <2>1, <2>3
<1>14. Mem = [f \in Envs |-> IF f = e THEN [v \in VPs |-> 0] ELSE PM!Vacia]
  <2>1. ASSUME NEW f \in Envs, f # e PROVE Memoria(f) = PM!Vacia
    BY <1>7, <2>1, LibreCampos DEF Memoria, PM!Vacia
  <2>2. Memoria(e) = [v \in VPs |-> 0]
    BY <1>2, <1>3, <1>5, <1>7, <1>8 DEF Memoria
  <2> QED
    BY <2>1, <2>2 DEF Mem
<1> QED
  BY <1>9, <1>10, <1>12, <1>13, <1>14, Constantes DEF IInv, PM!Init, Mem

LEMMA IInvSharedIsReadOnly ==
    ASSUME IInv
    PROVE  SharedIsReadOnly
<1> SUFFICES ASSUME NEW e \in Envs, NEW f \in Envs, NEW u \in VPs, NEW v \in VPs,
                    env[e].pte[u] # NULO, env[f].pte[v] # NULO, <<e, u>> # <<f, v>>,
                    env[e].pte[u].marco = env[f].pte[v].marco, env[e].pte[u].w
             PROVE  /\ env[e].estado \in {"vivo", "panico"} /\ env[e].pc = "propia"
                    /\ env[e].n = u /\ env[e].hijo = f /\ env[f].estado = "embrion"
  BY DEF SharedIsReadOnly
<1>1. env[e].pc = "propia" /\ env[e].n = u /\ env[e].hijo = f
  BY DEF IInv, Compartida
<1>2. Vive(env[e]) /\ env[f].estado = "embrion"
  BY <1>1, Constantes, HijoPartes
<1> QED
  BY <1>1, <1>2 DEF Vive

-----------------------------------------------------------------------------
\* IInv is an inductive invariant: in any interleaving of the system calls and
\* stores of fork, of the page fault handlers and of the programs, a child being
\* made has one parent, which only writes on its stack meanwhile, and the page
\* that a handler fills is nobody else's.
THEOREM InvariantTheorem == Spec => []IInv
<1>1. Init => IInv
  BY InitIInv
<1>2. IInv /\ [Next]_vars => IInv'
  BY InductiveStep
<1> QED
  BY <1>1, <1>2, PTL DEF Spec

\* Two pages share a frame that one of them can write only between the two
\* sys_page_map of one duppage, when the writable one is the parent's and the
\* child that has the other has not started.
THEOREM SharedIsReadOnlyTheorem == Spec => []SharedIsReadOnly
BY InvariantTheorem, IInvSharedIsReadOnly, PTL

\* fork, duppage and pgfault implement private memories: a store changes what
\* one environment reads in one page, a child starts with its parent's memory,
\* the stack aside, and no other step changes what any program reads.
THEOREM PrivateMemoriesTheorem == Spec => ImplementsPrivateMemories
<1>1. Init => PM!Init
  BY InitIInv
<1>2. IInv /\ [Next]_vars => [PM!Next]_Mem
  BY InductiveStep
<1> QED
  BY <1>1, <1>2, InvariantTheorem, PTL DEF Spec, ImplementsPrivateMemories, PM!Spec, Mem
=============================================================================
