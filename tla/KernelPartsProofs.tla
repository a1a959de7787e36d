-------------------------- MODULE KernelPartsProofs --------------------------
(***************************************************************************)
(* Proofs about the two parts of the kernel that Kernel takes in the       *)
(* abstract: the spinlock, for every set of CPUs, and the rings of         *)
(* sched.c, for every size.                                                *)
(*                                                                         *)
(* The runs check MutualExclusion and NoFalsePanic; neither is inductive,  *)
(* because neither says what lk->locked and lk->cpu hold while a CPU is    *)
(* inside.  IInv does.  That the rings implement the sequences is shown    *)
(* call by call: Lee is what a window reads of any cells.                  *)
(***************************************************************************)
EXTENDS Spinlock, MlfqRing, SequenceTheorems, WellFoundedInduction, TLAPS

-----------------------------------------------------------------------------
\* The spinlock.

\* lk->cpu names the CPU inside between its two writes of it.
Owned == {"critical", "unlock.locked", "unlock.cpu", "clearcpu"}

IInv ==
    /\ TypeOK
    /\ MutualExclusion
    /\ NoFalsePanic
    /\ \A c \in CPUs : pc[c] \in Inside => locked
    /\ \A c \in CPUs : cpu = c <=> pc[c] \in Owned

\* The spinlock's invariant: its type, exclusion, no panic, and what the two
\* shared fields of struct spinlock hold, whatever spin_lock and spin_unlock
\* calls the CPUs interleave.
THEOREM SpinlockInvariant == Spec => []IInv
<1>1. Init => IInv
  BY SpinlockAssumption DEF Init, IInv, TypeOK, MutualExclusion, NoFalsePanic,
     Points, Locking, Inside, Owned
<1>2. IInv /\ [Next]_vars => IInv'
  <2> SUFFICES ASSUME IInv, [Next]_vars PROVE IInv'
    OBVIOUS
  <2> USE SpinlockAssumption DEF IInv, TypeOK, MutualExclusion, NoFalsePanic,
      Points, Locking, Inside, Owned, Goto
  <2>1. ASSUME NEW c \in CPUs, CallLock(c) PROVE IInv'
    BY <2>1 DEF CallLock
  <2>2. ASSUME NEW c \in CPUs, LockReadLocked(c) PROVE IInv'
    BY <2>2 DEF LockReadLocked
  <2>3. ASSUME NEW c \in CPUs, LockReadCpu(c) PROVE IInv'
    BY <2>3 DEF LockReadCpu
  <2>4. ASSUME NEW c \in CPUs, Xchg(c) PROVE IInv'
    BY <2>4 DEF Xchg
  <2>5. ASSUME NEW c \in CPUs, SetCpu(c) PROVE IInv'
    BY <2>5 DEF SetCpu
  <2>6. ASSUME NEW c \in CPUs, CallUnlock(c) PROVE IInv'
    BY <2>6 DEF CallUnlock
  <2>7. ASSUME NEW c \in CPUs, UnlockReadLocked(c) PROVE IInv'
    BY <2>7 DEF UnlockReadLocked
  <2>8. ASSUME NEW c \in CPUs, UnlockReadCpu(c) PROVE IInv'
    BY <2>8 DEF UnlockReadCpu
  <2>9. ASSUME NEW c \in CPUs, ClearCpu(c) PROVE IInv'
    BY <2>9 DEF ClearCpu
  <2>10. ASSUME NEW c \in CPUs, Release(c) PROVE IInv'
    BY <2>10 DEF Release
  <2>11. CASE UNCHANGED vars
    BY <2>11 DEF vars
  <2> QED
    BY <2>1, <2>2, <2>3, <2>4, <2>5, <2>6, <2>7, <2>8, <2>9, <2>10, <2>11
       DEF Next, Progress
<1> QED
  BY <1>1, <1>2, PTL DEF Spec

\* Mutual exclusion of the region from the xchg that takes the lock to the
\* xchg that gives it away (spinlock.c:76-123), for any number of CPUs.
THEOREM SpinlockExclusion == Spec => []MutualExclusion
<1>1. IInv => MutualExclusion
  BY DEF IInv
<1> QED
  BY <1>1, SpinlockInvariant, PTL

\* The holding() checks of spinlock.c:71 and 87 never raise a false alarm.
THEOREM SpinlockNoPanic == Spec => []NoFalsePanic
<1>1. IInv => NoFalsePanic
  BY DEF IInv
<1> QED
  BY <1>1, SpinlockInvariant, PTL

\* spinlock.c implements the lock that spinlock.h promises: under Phase every
\* step is a Request, an Enter, a Leave or a stutter of KernelLock.
THEOREM SpinlockImplementsLock == Spec => LockSpec
<1> DEFINE owner == [c \in CPUs |-> Phase(pc[c])]
<1>1. Init => Lock!Init
  BY DEF Init, Lock!Init, Phase, Locking, Inside
<1>2. IInv /\ IInv' /\ [Next]_vars => [Lock!Next]_owner
  <2> SUFFICES ASSUME IInv, IInv', [Next]_vars
               PROVE  Lock!Next \/ UNCHANGED owner
    BY DEF Lock!Next
  <2>1. ASSUME NEW c \in CPUs, CallLock(c) PROVE Lock!Request(c)
    BY <2>1 DEF CallLock, Lock!Request, Phase, Locking, Inside, Goto, IInv,
       TypeOK
  <2>2. ASSUME NEW c \in CPUs, Xchg(c), ~locked PROVE Lock!Enter(c)
    <3>1. \A d \in CPUs : pc[d] \notin Inside
      BY <2>2 DEF IInv
    <3> QED
      BY <2>2, <3>1 DEF Xchg, Lock!Enter, Phase, Locking, Inside, Goto, IInv,
         TypeOK
  <2>3. ASSUME NEW c \in CPUs, Xchg(c), locked PROVE UNCHANGED owner
    BY <2>3 DEF Xchg, Goto, IInv, TypeOK
  <2>4. ASSUME NEW c \in CPUs, Release(c) PROVE Lock!Leave(c)
    BY <2>4 DEF Release, Lock!Leave, Phase, Locking, Inside, Goto, IInv, TypeOK
  <2>5. ASSUME NEW c \in CPUs, LockReadLocked(c) \/ LockReadCpu(c)
        PROVE  UNCHANGED owner
    BY <2>5 DEF LockReadLocked, LockReadCpu, Phase, Locking, Inside, Goto, IInv,
       TypeOK, NoFalsePanic
  <2>6. ASSUME NEW c \in CPUs,
               SetCpu(c) \/ CallUnlock(c) \/ UnlockReadLocked(c)
                 \/ UnlockReadCpu(c) \/ ClearCpu(c)
        PROVE  UNCHANGED owner
    BY <2>6 DEF SetCpu, CallUnlock, UnlockReadLocked, UnlockReadCpu, ClearCpu,
       Phase, Locking, Inside, Goto, IInv, TypeOK, NoFalsePanic
  <2>7. CASE UNCHANGED vars
    BY <2>7 DEF vars
  <2> QED
    BY <2>1, <2>2, <2>3, <2>4, <2>5, <2>6, <2>7
       DEF Next, Progress, Lock!Next
<1> QED
  BY <1>1, <1>2, SpinlockInvariant, PTL DEF Spec, LockSpec, Lock!Spec

-----------------------------------------------------------------------------
\* The ring.

\* What the window [p, u) of the cells c reads.
Lee(c, p, u) == [k \in 1 .. u - p |-> c[(p + k - 1) % NENV]]

LEMMA Multiplos ==
    ASSUME NEW n \in Nat \ {0}, NEW x \in Int, NEW y \in Int, x < y
    PROVE  n * x + n <= n * y
<1>1. PICK d \in Nat : y = x + 1 + d
  <2>1. y - x - 1 \in Nat /\ y = x + 1 + (y - x - 1)
    OBVIOUS
  <2> QED
    BY <2>1
<1>2. n * y = n * x + n + n * d
  BY <1>1
<1>3. n * d \in Nat /\ n * x \in Int
  BY <1>1
<1> QED
  BY <1>2, <1>3

\* Quotient and remainder are what the equation says.
LEMMA UnResto ==
    ASSUME NEW n \in Nat \ {0}, NEW x \in Int, NEW y \in Int,
           NEW r \in 0 .. n - 1, NEW s \in 0 .. n - 1, n * x + r = n * y + s
    PROVE  x = y /\ r = s
<1>1. n * x \in Int /\ n * y \in Int
  OBVIOUS
<1>2. x < y => n * x + n <= n * y
  BY Multiplos
<1>3. y < x => n * y + n <= n * x
  BY Multiplos
<1>4. x = y
  BY <1>1, <1>2, <1>3
<1> QED
  BY <1>1, <1>4

LEMMA Division ==
    ASSUME NEW a \in Int
    PROVE  /\ NENV \in Nat \ {0} /\ a \div NENV \in Int /\ a % NENV \in 0 .. NENV - 1
           /\ a = NENV * (a \div NENV) + (a % NENV)
<1>1. NENV \in Nat /\ NENV > 0
  BY RingAssumption
<1> QED
  BY <1>1

\* The remainder is known from any equation.
LEMMA Resto ==
    ASSUME NEW a \in Int, NEW q \in Int, NEW r \in 0 .. NENV - 1, a = NENV * q + r
    PROVE  a % NENV = r
<1> DEFINE x == a \div NENV
           s == a % NENV
<1>1. /\ NENV \in Nat \ {0} /\ x \in Int /\ s \in 0 .. NENV - 1 /\ a = NENV * x + s
  BY Division
<1> HIDE DEF x, s
<1>2. s = r
  BY <1>1, UnResto
<1> QED
  BY <1>2 DEF s

\* Two positions are the same cell when their distance is a multiple of the ring.
LEMMA MismaCelda ==
    ASSUME NEW a \in Int, NEW b \in Int
    PROVE  a % NENV = b % NENV <=> (a - b) % NENV = 0
<1> DEFINE x == a \div NENV
           r == a % NENV
           y == b \div NENV
           s == b % NENV
           z == (a - b) \div NENV
           t == (a - b) % NENV
<1>1. NENV \in Nat \ {0} /\ 0 \in 0 .. NENV - 1
  BY RingAssumption
<1>2. /\ x \in Int /\ r \in 0 .. NENV - 1 /\ a = NENV * x + r
      /\ y \in Int /\ s \in 0 .. NENV - 1 /\ b = NENV * y + s
      /\ z \in Int /\ t \in 0 .. NENV - 1 /\ a - b = NENV * z + t
  BY Division
<1> HIDE DEF x, r, y, s, z, t
<1>3. ASSUME r = s PROVE t = 0
  <2>1. a - b = NENV * (x - y) + 0 /\ x - y \in Int /\ a - b \in Int
    BY <1>1, <1>2, <1>3
  <2>2. (a - b) % NENV = 0
    BY <1>1, <2>1, Resto
  <2> QED
    BY <2>2 DEF t
<1>4. ASSUME t = 0 PROVE r = s
  <2>1. a = NENV * (y + z) + s /\ y + z \in Int
    BY <1>1, <1>2, <1>4
  <2>2. a % NENV = s
    BY <1>2, <2>1, Resto
  <2> QED
    BY <2>2 DEF r
<1> QED
  BY <1>3, <1>4 DEF r, s, t

LEMMA AliasEsCelda ==
    ASSUME NEW p \in Int, NEW j \in Int, NEW k \in Int
    PROVE  Abstracto!Alias(j, k) <=> (p + j - 1) % NENV = (p + k - 1) % NENV
<1>1. p + j - 1 \in Int /\ p + k - 1 \in Int /\ (p + j - 1) - (p + k - 1) = j - k
  OBVIOUS
<1> DEFINE a == p + j - 1
           b == p + k - 1
<1> HIDE DEF a, b
<1>2. a % NENV = b % NENV <=> (a - b) % NENV = 0
  BY <1>1, MismaCelda DEF a, b
<1>3. a - b = j - k
  BY <1>1 DEF a, b
<1>4. a % NENV = b % NENV <=> (j - k) % NENV = 0
  BY <1>2, <1>3
<1> QED
  BY <1>4 DEF a, b, Abstracto!Alias

LEMMA EnCeldas == \A a \in Int : a % NENV \in Celdas
BY Division DEF Celdas

\* What Lee gives is a sequence.
LEMMA LeeLen ==
    ASSUME NEW c, NEW p \in Nat, NEW u \in Nat, p <= u
    PROVE  u - p \in Nat /\ Len(Lee(c, p, u)) = u - p /\ DOMAIN Lee(c, p, u) = 1 .. u - p
<1>1. u - p \in Nat
  OBVIOUS
<1> QED
  BY <1>1 DEF Lee

LEMMA LeeCelda ==
    ASSUME NEW c, NEW p \in Nat, NEW u \in Nat, NEW k \in 1 .. u - p
    PROVE  Lee(c, p, u)[k] = c[(p + k - 1) % NENV] /\ p + k - 1 \in Nat
BY DEF Lee

\* sched_agregar_env on the cells is Agregar on what the window reads.
LEMMA LeeAgregar ==
    ASSUME NEW c, DOMAIN c = Celdas, NEW p \in Nat, NEW u \in Nat, p <= u, NEW id
    PROVE  Lee([c EXCEPT ![u % NENV] = id], p, u + 1) = Abstracto!Agregar(Lee(c, p, u), id)
<1> DEFINE s == Lee(c, p, u)
           n == u - p
           d == [c EXCEPT ![u % NENV] = id]
<1>1. n \in Nat /\ Len(s) = n /\ u + 1 - p = n + 1
  <2>1. u - p \in Nat /\ Len(Lee(c, p, u)) = u - p
    BY LeeLen
  <2> QED
    BY <2>1
<1>2. ASSUME NEW k \in 1 .. n + 1
      PROVE  d[(p + k - 1) % NENV] = IF Abstracto!Alias(k, n + 1) THEN id ELSE s[k]
  <2> DEFINE x == (p + k - 1) % NENV
  <2>1. x \in Celdas /\ u % NENV \in Celdas
    BY EnCeldas
  <2>2. p + (n + 1) - 1 = u
    BY <1>1
  <2>3. Abstracto!Alias(k, n + 1) <=> x = u % NENV
    <3>1. Abstracto!Alias(k, n + 1) <=> x = (p + (n + 1) - 1) % NENV
      BY <1>1, AliasEsCelda
    <3> QED
      BY <2>2, <3>1
  <2>4. d[x] = IF x = u % NENV THEN id ELSE c[x]
    BY <2>1
  <2>5. x # u % NENV => k \in 1 .. n
    BY <1>1, <2>2
  <2>6. k \in 1 .. n => s[k] = c[x]
    BY LeeCelda
  <2> QED
    BY <2>3, <2>4, <2>5, <2>6
<1>3. Lee(d, p, u + 1) = [k \in 1 .. n + 1 |-> d[(p + k - 1) % NENV]]
  BY <1>1 DEF Lee
<1>4. Abstracto!Agregar(s, id) = [k \in 1 .. n + 1 |-> IF Abstracto!Alias(k, n + 1) THEN id ELSE s[k]]
  BY <1>1 DEF Abstracto!Agregar
<1> HIDE DEF s, n, d
<1>5. Lee(d, p, u + 1) = Abstracto!Agregar(s, id)
  BY <1>2, <1>3, <1>4
<1> QED
  BY <1>5 DEF d, s

\* The cells after a swap, and a swap of a cell with itself changes nothing.
LEMMA BorrarCeldaEs ==
    ASSUME NEW c, c = [x \in Celdas |-> c[x]], NEW p \in Nat, NEW i \in Nat
    PROVE  BorrarCelda(c, p, i % NENV) =
               [x \in Celdas |-> IF x = i % NENV THEN c[p % NENV]
                                 ELSE IF x = p % NENV THEN c[i % NENV] ELSE c[x]]
<1>1. p % NENV \in Celdas /\ i % NENV \in Celdas
  BY EnCeldas
<1>2. ASSUME i % NENV = p PROVE p % NENV = p
  <2>1. p \in 0 .. NENV - 1 /\ p = NENV * 0 + p
    BY <1>1, <1>2, Division DEF Celdas
  <2> QED
    BY <2>1, Resto
<1> DEFINE y == i % NENV
           z == p % NENV
<1>3. y \in Celdas /\ z \in Celdas /\ (y = p => z = y)
  BY <1>1, <1>2
<1> HIDE DEF y, z
<1>4. (IF y = p THEN c ELSE [c EXCEPT ![z] = c[y], ![y] = c[z]])
        = [x \in Celdas |-> IF x = y THEN c[z] ELSE IF x = z THEN c[y] ELSE c[x]]
  <2>1. CASE y = p
    BY <1>3, <2>1
  <2>2. CASE y # p
    BY <1>3, <2>2
  <2> QED
    BY <2>1, <2>2
<1> QED
  BY <1>4 DEF BorrarCelda, y, z

LEMMA TailDe ==
    ASSUME NEW n \in Nat \ {0}, NEW f, f = [k \in 1 .. n |-> f[k]]
    PROVE  Tail(f) = [k \in 1 .. n - 1 |-> f[k + 1]]
<1>1. Len(f) = n
  OBVIOUS
<1> QED
  BY <1>1

\* sched_borrar_env on the cells is Borrar on what the window reads, whatever
\* the shortcut of BorrarCelda compares.
LEMMA LeeBorrar ==
    ASSUME NEW c, c = [x \in Celdas |-> c[x]], NEW p \in Nat, NEW u \in Nat,
           NEW i \in p .. u - 1
    PROVE  Lee(BorrarCelda(c, p, i % NENV), p + 1, u)
              = Abstracto!Borrar(Lee(c, p, u), i - p + 1)
<1> DEFINE s == Lee(c, p, u)
           n == u - p
           j == i - p + 1
           d == BorrarCelda(c, p, i % NENV)
           y == i % NENV
           z == p % NENV
           f == [k \in 1 .. n |-> IF Abstracto!Alias(k, j) THEN s[1]
                                  ELSE IF Abstracto!Alias(k, 1) THEN s[j] ELSE s[k]]
<1>1. /\ n \in Nat \ {0} /\ p <= u /\ i \in Nat /\ j \in 1 .. n /\ 1 \in 1 .. n /\ p + j - 1 = i
      /\ p + 1 - 1 = p /\ u - (p + 1) = n - 1
  OBVIOUS
<1>2. Len(s) = n
  BY <1>1, LeeLen
<1>3. s[1] = c[z] /\ s[j] = c[y]
  <2>1. \A k \in 1 .. n : s[k] = c[(p + k - 1) % NENV]
    BY LeeCelda
  <2> HIDE DEF s, n, j
  <2>2. s[1] = c[(p + 1 - 1) % NENV] /\ s[j] = c[(p + j - 1) % NENV]
    BY <1>1, <2>1
  <2> QED
    BY <1>1, <2>2
<1>4. \A x \in Celdas : d[x] = IF x = y THEN c[z] ELSE IF x = z THEN c[y] ELSE c[x]
  <2>1. d = [x \in Celdas |-> IF x = y THEN c[z] ELSE IF x = z THEN c[y] ELSE c[x]]
    BY <1>1, BorrarCeldaEs
  <2> HIDE DEF d
  <2> QED
    BY <2>1
<1>5. ASSUME NEW k \in 1 .. n - 1 PROVE d[(p + 1 + k - 1) % NENV] = f[k + 1]
  <2> DEFINE m == k + 1
             x == (p + m - 1) % NENV
  <2>1. m \in 1 .. n /\ p + 1 + k - 1 = p + m - 1 /\ m \in Int /\ j \in Int
    BY <1>1
  <2>2. x \in Celdas
    BY <2>1, EnCeldas
  <2>3. Abstracto!Alias(m, j) <=> x = y
    <3>1. Abstracto!Alias(m, j) <=> x = (p + j - 1) % NENV
      BY <2>1, AliasEsCelda
    <3> QED
      BY <1>1, <3>1
  <2>4. Abstracto!Alias(m, 1) <=> x = z
    <3>1. Abstracto!Alias(m, 1) <=> x = (p + 1 - 1) % NENV
      BY <2>1, AliasEsCelda
    <3> QED
      BY <1>1, <3>1
  <2>5. s[m] = c[x]
    BY <2>1, LeeCelda
  <2>6. f[m] = IF Abstracto!Alias(m, j) THEN s[1] ELSE IF Abstracto!Alias(m, 1) THEN s[j] ELSE s[m]
    BY <2>1
  <2>7. (p + 1 + k - 1) % NENV = x
    BY <2>1
  <2> HIDE DEF x, y, z, s, f, d, m
  <2>8. d[x] = f[m]
    BY <1>3, <1>4, <2>2, <2>3, <2>4, <2>5, <2>6, Zenon
  <2> QED
    BY <2>7, <2>8 DEF m
<1>6. Abstracto!Borrar(s, j) = Tail(f)
  BY <1>2 DEF Abstracto!Borrar
<1>7. Tail(f) = [k \in 1 .. n - 1 |-> f[k + 1]]
  BY <1>1, TailDe
<1>8. Lee(d, p + 1, u) = [k \in 1 .. n - 1 |-> d[(p + 1 + k - 1) % NENV]]
  BY <1>1 DEF Lee
<1> HIDE DEF f, s, d, n, j
<1>9. Lee(d, p + 1, u) = Abstracto!Borrar(s, j)
  BY <1>5, <1>6, <1>7, <1>8
<1> QED
  BY <1>9 DEF d, s, j

\* sched_eliminar_env takes the first position that holds the id.
LEMMA LeeEliminar ==
    ASSUME NEW c, c = [x \in Celdas |-> c[x]], NEW p \in Nat, NEW u \in Nat, NEW id,
           NEW i \in p .. u - 1, c[i % NENV] = id,
           \A h \in p .. u - 1 : c[h % NENV] = id => i <= h
    PROVE  Lee(BorrarCelda(c, p, i % NENV), p + 1, u) = Abstracto!Eliminar(Lee(c, p, u), id)
<1> DEFINE s == Lee(c, p, u)
           n == u - p
           j == i - p + 1
           Primera(k) == s[k] = id /\ \A h \in 1 .. (k - 1) : s[h] # id
<1>1. n \in Nat \ {0} /\ p <= u /\ j \in 1 .. n /\ p + j - 1 = i
  OBVIOUS
<1>2. Len(s) = n
  BY <1>1, LeeLen
<1>3. \A k \in 1 .. n : s[k] = c[(p + k - 1) % NENV] /\ p + k - 1 \in p .. u - 1
  BY <1>1, LeeCelda
<1>4. s[j] = id
  BY <1>1, <1>3
<1>5. \A k \in 1 .. n : s[k] = id => j <= k
  <2> SUFFICES ASSUME NEW k \in 1 .. n, s[k] = id PROVE j <= k
    OBVIOUS
  <2>1. i <= p + k - 1
    BY <1>3
  <2> QED
    BY <1>1, <2>1
<1> HIDE DEF s, j
<1>6. Primera(j)
  BY <1>1, <1>4, <1>5
<1>7. \A k \in 1 .. n : Primera(k) => k = j
  <2> SUFFICES ASSUME NEW k \in 1 .. n, Primera(k), j < k PROVE FALSE
    BY <1>1, <1>5
  <2>1. j \in 1 .. k - 1
    BY <1>1
  <2> QED
    BY <1>4, <2>1
<1> HIDE DEF Primera
<1>8. (CHOOSE k \in 1 .. n : Primera(k)) = j
  BY <1>1, <1>6, <1>7
<1>9. Abstracto!Eliminar(s, id) = Abstracto!Borrar(s, CHOOSE k \in 1 .. n : Primera(k))
  BY <1>1, <1>2, <1>4 DEF Abstracto!Eliminar, Primera
<1>10. Lee(BorrarCelda(c, p, i % NENV), p + 1, u) = Abstracto!Borrar(s, j)
  BY LeeBorrar DEF s, j
<1> QED
  BY <1>8, <1>9, <1>10 DEF s

LEMMA LeeNada ==
    ASSUME NEW c, NEW p \in Nat, NEW u \in Nat, p <= u, NEW id,
           \A h \in p .. u - 1 : c[h % NENV] # id
    PROVE  Abstracto!Eliminar(Lee(c, p, u), id) = Lee(c, p, u)
<1>1. u - p \in Nat /\ Len(Lee(c, p, u)) = u - p
  BY LeeLen
<1>2. ASSUME NEW k \in 1 .. u - p PROVE Lee(c, p, u)[k] # id
  <2>1. p + k - 1 \in p .. u - 1
    BY <1>1
  <2>2. Lee(c, p, u)[k] = c[(p + k - 1) % NENV]
    BY LeeCelda
  <2> QED
    BY <2>1, <2>2
<1> QED
  BY <1>1, <1>2 DEF Abstracto!Eliminar

-----------------------------------------------------------------------------
\* promover_colas.

\* What is read of the entries w once they are all added: the last that was
\* written to each cell.
Cerrada(w) == [k \in 1 .. Len(w) |-> w[Abstracto!UltimoAlias(k, Len(w))]]

\* The last position that shares a cell, one entry later.
LEMMA UltimoAliasSigue ==
    ASSUME NEW n \in Nat, NEW k \in 1 .. n + 1
    PROVE  /\ Abstracto!Alias(k, n + 1) => Abstracto!UltimoAlias(k, n + 1) = n + 1
           /\ ~Abstracto!Alias(k, n + 1) =>
                /\ k \in 1 .. n
                /\ Abstracto!UltimoAlias(k, n + 1) = Abstracto!UltimoAlias(k, n)
           /\ Abstracto!UltimoAlias(k, n + 1) \in k .. n + 1
<1> DEFINE d == (n + 1) - k
           x == d \div NENV
           r == d % NENV
<1>1. d \in Nat /\ k \in Int /\ n + 1 \in Int /\ 0 \in Int
  OBVIOUS
<1> HIDE DEF d
<1>2. NENV \in Nat \ {0} /\ x \in Int /\ r \in 0 .. NENV - 1 /\ d = NENV * x + r
  BY <1>1, Division
<1>3. Abstracto!Alias(k, n + 1) <=> r = 0
  <2>1. (0 + k - 1) % NENV = (0 + (n + 1) - 1) % NENV <=> Abstracto!Alias(k, n + 1)
    BY <1>1, AliasEsCelda
  <2>2. (0 + (n + 1) - 1) % NENV = (0 + k - 1) % NENV <=> r = 0
    <3>1. (0 + (n + 1) - 1) - (0 + k - 1) = d /\ 0 + (n + 1) - 1 \in Int /\ 0 + k - 1 \in Int
      BY <1>1 DEF d
    <3> DEFINE a == 0 + (n + 1) - 1
               b == 0 + k - 1
    <3> HIDE DEF a, b
    <3>2. a % NENV = b % NENV <=> (a - b) % NENV = 0
      BY <3>1, MismaCelda DEF a, b
    <3>3. a - b = d
      BY <3>1 DEF a, b
    <3>4. a % NENV = b % NENV <=> r = 0
      BY <3>2, <3>3
    <3> QED
      BY <3>4 DEF a, b
  <2> QED
    BY <2>1, <2>2
<1>4. r <= d
  <2>1. CASE x >= 0
    <3>1. NENV * x >= 0 /\ NENV * x \in Int
      BY <1>2, <2>1
    <3> HIDE DEF x, r, d
    <3> QED
      BY <1>1, <1>2, <3>1
  <2>2. CASE x < 0
    <3> HIDE DEF x, r, d
    <3>1. NENV * x + NENV <= NENV * 0
      BY <1>2, <2>2, Multiplos
    <3>2. NENV * x \in Int /\ NENV * 0 = 0
      BY <1>2
    <3> QED
      BY <1>1, <1>2, <3>1, <3>2
  <2> HIDE DEF x
  <2> QED
    BY <1>2, <2>1, <2>2
<1>5. Abstracto!UltimoAlias(k, n + 1) = (n + 1) - r
  BY DEF Abstracto!UltimoAlias, d
<1>6. ASSUME r # 0 PROVE k \in 1 .. n /\ Abstracto!UltimoAlias(k, n) = (n + 1) - r
  <2> HIDE DEF x, r
  <2>1. k \in 1 .. n
    BY <1>2, <1>4, <1>6 DEF d
  <2>2. n - k = NENV * x + (r - 1) /\ r - 1 \in 0 .. NENV - 1 /\ n - k \in Int
    <3>1. NENV * x \in Int
      BY <1>2
    <3> QED
      BY <1>2, <1>6, <3>1 DEF d
  <2>3. (n - k) % NENV = r - 1
    BY <1>2, <2>2, Resto
  <2> QED
    BY <1>2, <2>1, <2>3 DEF Abstracto!UltimoAlias
<1> HIDE DEF x, r
<1> QED
  BY <1>2, <1>3, <1>4, <1>5, <1>6 DEF d

LEMMA CerradaAgregar ==
    ASSUME NEW V, NEW w \in Seq(V), NEW id \in V
    PROVE  Cerrada(Append(w, id)) = Abstracto!Agregar(Cerrada(w), id)
<1> DEFINE n == Len(w)
           v == Append(w, id)
           s == Cerrada(w)
<1>1. n \in Nat /\ Len(v) = n + 1 /\ v[n + 1] = id /\ \A k \in 1 .. n : v[k] = w[k]
  OBVIOUS
<1>2. Len(s) = n /\ \A k \in 1 .. n : s[k] = w[Abstracto!UltimoAlias(k, n)]
  BY <1>1 DEF Cerrada
<1> HIDE DEF n, v, s
<1>3. ASSUME NEW k \in 1 .. n + 1
      PROVE  v[Abstracto!UltimoAlias(k, n + 1)]
                = IF Abstracto!Alias(k, n + 1) THEN id ELSE s[k]
  <2>1. CASE Abstracto!Alias(k, n + 1)
    BY <1>1, <2>1, UltimoAliasSigue
  <2>2. CASE ~Abstracto!Alias(k, n + 1)
    <3> DEFINE m == Abstracto!UltimoAlias(k, n)
    <3>1. k \in 1 .. n /\ Abstracto!UltimoAlias(k, n + 1) = m
      BY <1>1, <2>2, UltimoAliasSigue
    <3>2. m \in k .. n
      <4>1. n - 1 \in Nat /\ k \in 1 .. (n - 1) + 1 /\ (n - 1) + 1 = n
        BY <1>1, <3>1
      <4>2. Abstracto!UltimoAlias(k, (n - 1) + 1) \in k .. (n - 1) + 1
        BY <4>1, UltimoAliasSigue
      <4> QED
        BY <4>1, <4>2
    <3> HIDE DEF m
    <3>3. v[m] = w[m]
      BY <1>1, <3>1, <3>2
    <3> QED
      BY <1>2, <2>2, <3>1, <3>3 DEF m
  <2> QED
    BY <2>1, <2>2
<1>4. Cerrada(v) = [k \in 1 .. n + 1 |-> v[Abstracto!UltimoAlias(k, n + 1)]]
  BY <1>1 DEF Cerrada
<1>5. Abstracto!Agregar(s, id) = [k \in 1 .. n + 1 |-> IF Abstracto!Alias(k, n + 1) THEN id ELSE s[k]]
  BY <1>1, <1>2 DEF Abstracto!Agregar
<1>6. Cerrada(v) = Abstracto!Agregar(s, id)
  BY <1>3, <1>4, <1>5
<1> QED
  BY <1>6 DEF v, s

\* A window reads the same value wherever it reads the same cell.
LEMMA LeeCerrada ==
    ASSUME NEW c, NEW p \in Nat, NEW u \in Nat, p <= u
    PROVE  Cerrada(Lee(c, p, u)) = Lee(c, p, u)
<1> DEFINE s == Lee(c, p, u)
           n == u - p
<1>1. n \in Nat /\ Len(s) = n
  BY LeeLen
<1>2. ASSUME NEW k \in 1 .. n PROVE s[Abstracto!UltimoAlias(k, n)] = s[k]
  <2> DEFINE m == Abstracto!UltimoAlias(k, n)
             d == n - k
             r == d % NENV
             x == d \div NENV
  <2>1. n - 1 \in Nat /\ k \in 1 .. (n - 1) + 1 /\ (n - 1) + 1 = n
    BY <1>1
  <2>2. m \in k .. n
    <3>1. Abstracto!UltimoAlias(k, (n - 1) + 1) \in k .. (n - 1) + 1
      BY <2>1, UltimoAliasSigue
    <3> QED
      BY <2>1, <3>1
  <2>3. /\ NENV \in Nat \ {0} /\ x \in Int /\ r \in 0 .. NENV - 1 /\ d = NENV * x + r
        /\ d \in Int
    <3>1. d \in Int
      BY <1>1
    <3> HIDE DEF d
    <3> QED
      BY <3>1, Division
  <2>4. m = n - r
    BY DEF Abstracto!UltimoAlias
  <2> HIDE DEF m, r, x, n
  <2>5. m - k = NENV * x + 0 /\ m - k \in Int /\ 0 \in 0 .. NENV - 1
    <3>1. NENV * x \in Int
      BY <2>3
    <3> QED
      BY <1>1, <2>1, <2>2, <2>3, <2>4, <3>1
  <2>6. (m - k) % NENV = 0
    BY <2>3, <2>5, Resto
  <2>7. (p + m - 1) % NENV = (p + k - 1) % NENV
    <3>1. m \in Int /\ k \in Int
      BY <1>1, <2>2
    <3> QED
      BY <2>6, <3>1, AliasEsCelda DEF Abstracto!Alias
  <2>8. s[m] = c[(p + m - 1) % NENV] /\ s[k] = c[(p + k - 1) % NENV]
    <3>1. \A h \in 1 .. n : s[h] = c[(p + h - 1) % NENV]
      BY LeeCelda DEF n
    <3>2. m \in 1 .. n
      BY <1>1, <2>2
    <3> HIDE DEF s
    <3> QED
      BY <3>1, <3>2
  <2> QED
    BY <2>7, <2>8 DEF m
<1>3. Cerrada(s) = [k \in 1 .. n |-> s[Abstracto!UltimoAlias(k, n)]]
  BY <1>1 DEF Cerrada
<1>4. s = [k \in 1 .. n |-> s[k]]
  BY DEF Lee
<1> HIDE DEF s, n
<1>5. Cerrada(s) = s
  BY <1>2, <1>3, <1>4
<1> QED
  BY <1>5 DEF s

\* A set of naturals that is not empty has a least element.
LEMMA Minimo ==
    ASSUME NEW D \in SUBSET Nat, D # {}
    PROVE  \E x \in D : \A y \in D : ~(y < x)
<1>1. PICK x \in D : \A y \in D : <<y, x>> \notin OpToRel(<, Nat)
  BY WFMin, NatLessThanWellFounded
<1> QED
  BY <1>1 DEF OpToRel

\* One turn of the loop of promover_cola(q).
Vuelta(q, b, k) ==
    [celdas |-> [b.celdas EXCEPT ![b.ultimo % NENV] = envs[q][(primero[q] + k - 1) % NENV]],
     ultimo |-> b.ultimo + 1]

\* The first turns of the loop: the function that PromoverCola defines by
\* recursion exists up to any of them.
Vueltas(q, a, m, h) ==
    h = [k \in 0 .. m |-> IF k = 0 THEN a ELSE Vuelta(q, h[k - 1], k)]

LEMMA VueltasSigue ==
    ASSUME NEW q, NEW a, NEW m \in Nat, NEW h, Vueltas(q, a, m, h)
    PROVE  \E g : Vueltas(q, a, m + 1, g)
<1> DEFINE g == [k \in 0 .. m + 1 |-> IF k = m + 1 THEN Vuelta(q, h[m], m + 1) ELSE h[k]]
<1>1. \A k \in 0 .. m : h[k] = IF k = 0 THEN a ELSE Vuelta(q, h[k - 1], k)
  BY DEF Vueltas
<1>2. ASSUME NEW k \in 0 .. m + 1
      PROVE  g[k] = IF k = 0 THEN a ELSE Vuelta(q, g[k - 1], k)
  <2>1. CASE k = m + 1
    <3>1. k # 0 /\ k - 1 = m /\ m \in 0 .. m + 1 /\ m # m + 1
      BY <2>1
    <3>2. g[k - 1] = h[m]
      BY <3>1
    <3> QED
      BY <2>1, <3>1, <3>2
  <2>2. CASE k \in 0 .. m /\ k # 0
    <3>1. g[k] = h[k] /\ g[k - 1] = h[k - 1]
      BY <2>2
    <3> QED
      BY <1>1, <2>2, <3>1
  <2>3. CASE k = 0
    BY <1>1, <2>3
  <2> QED
    BY <2>1, <2>2, <2>3
<1>3. g = [k \in 0 .. m + 1 |-> g[k]]
  OBVIOUS
<1> HIDE DEF g
<1>4. Vueltas(q, a, m + 1, g)
  BY <1>2, <1>3 DEF Vueltas
<1> QED
  BY <1>4

LEMMA VueltasHay ==
    ASSUME NEW q, NEW a, NEW n \in Nat
    PROVE  \E h : Vueltas(q, a, n, h)
<1> DEFINE D == {m \in Nat : ~\E h : Vueltas(q, a, m, h)}
<1>1. SUFFICES ASSUME D # {} PROVE FALSE
  OBVIOUS
<1>2. PICK m \in D : \A y \in D : ~(y < m)
  BY <1>1, Minimo
<1>3. m \in Nat /\ ~\E h : Vueltas(q, a, m, h)
  BY <1>2
<1>4. m # 0
  <2> DEFINE h == [k \in 0 .. 0 |-> a]
  <2>1. Vueltas(q, a, 0, h)
    BY DEF Vueltas
  <2> QED
    BY <1>3, <2>1
<1>5. m - 1 \in Nat /\ m - 1 < m /\ (m - 1) + 1 = m
  BY <1>3, <1>4
<1>6. \E h : Vueltas(q, a, m - 1, h)
  BY <1>2, <1>5
<1>7. \E h : Vueltas(q, a, (m - 1) + 1, h)
  BY <1>5, <1>6, VueltasSigue
<1> QED
  BY <1>3, <1>5, <1>7

LEMMA PromoverColaEs ==
    ASSUME NEW q, NEW a, ultimo[q] - primero[q] \in Nat
    PROVE  \E h : /\ Vueltas(q, a, ultimo[q] - primero[q], h)
                  /\ PromoverCola(q, a) = h[ultimo[q] - primero[q]]
<1> DEFINE n == ultimo[q] - primero[q]
           tras == CHOOSE h : Vueltas(q, a, n, h)
<1>1. Vueltas(q, a, n, tras)
  BY VueltasHay
<1>2. PromoverCola(q, a) = tras[n]
  BY DEF PromoverCola, Vueltas, Vuelta
<1> QED
  BY <1>1, <1>2

\* The cells b.celdas and the index b.ultimo hold in [p, b.ultimo) what is left
\* of the entries w.
Promovido(b, p, w) ==
    /\ b.celdas = [x \in Celdas |-> b.celdas[x]]
    /\ b.ultimo \in Nat /\ p <= b.ultimo
    /\ Lee(b.celdas, p, b.ultimo) = Cerrada(w)

LEMMA VueltaPromueve ==
    ASSUME NEW V, NEW w \in Seq(V), NEW p \in Nat, NEW b, Promovido(b, p, w), NEW q, NEW k,
           envs[q][(primero[q] + k - 1) % NENV] \in V
    PROVE  Promovido(Vuelta(q, b, k), p, Append(w, envs[q][(primero[q] + k - 1) % NENV]))
<1> DEFINE id == envs[q][(primero[q] + k - 1) % NENV]
           c == b.celdas
           u == b.ultimo
           d == [c EXCEPT ![u % NENV] = id]
           v == Vuelta(q, b, k)
<1>1. /\ c = [x \in Celdas |-> c[x]] /\ u \in Nat /\ p <= u /\ Lee(c, p, u) = Cerrada(w)
  BY DEF Promovido
<1>2. v.celdas = d /\ v.ultimo = u + 1
  BY DEF Vuelta
<1>3. id \in V
  OBVIOUS
<1> HIDE DEF id, c, u, v
<1>4. DOMAIN c = Celdas
  BY <1>1
<1>5. d = [x \in Celdas |-> d[x]]
  BY <1>4
<1>6. Lee(d, p, u + 1) = Abstracto!Agregar(Lee(c, p, u), id)
  BY <1>1, <1>4, LeeAgregar
<1>7. Lee(d, p, u + 1) = Cerrada(Append(w, id))
  BY <1>1, <1>3, <1>6, CerradaAgregar
<1> HIDE DEF d
<1>8. Promovido(v, p, Append(w, id))
  BY <1>1, <1>2, <1>5, <1>7 DEF Promovido
<1> QED
  BY <1>8 DEF v, id

LEMMA UnoMas ==
    ASSUME NEW V, NEW w \in Seq(V), NEW s \in Seq(V), NEW k \in 1 .. Len(s)
    PROVE  w \o SubSeq(s, 1, k) = Append(w \o SubSeq(s, 1, k - 1), s[k])
<1> DEFINE x == SubSeq(s, 1, k)
           y == SubSeq(s, 1, k - 1)
<1>1. /\ x \in Seq(V) /\ Len(x) = k /\ y \in Seq(V) /\ Len(y) = k - 1 /\ s[k] \in V
      /\ \A i \in 1 .. k : x[i] = s[i]
      /\ \A i \in 1 .. k - 1 : y[i] = s[i]
  BY SubSeqProperties
<1> HIDE DEF x, y
<1>2. Len(w \o x) = Len(w) + k /\ Len(w \o y) = Len(w) + k - 1 /\ Len(w) \in Nat /\ w \o y \in Seq(V)
      /\ w \o x \in Seq(V)
  <2>1. w \o x \in Seq(V) /\ Len(w \o x) = Len(w) + Len(x)
    BY <1>1, ConcatProperties
  <2>2. w \o y \in Seq(V) /\ Len(w \o y) = Len(w) + Len(y)
    BY <1>1, ConcatProperties
  <2>3. Len(w) \in Nat
    OBVIOUS
  <2> QED
    BY <1>1, <2>1, <2>2, <2>3
<1>3. Len(Append(w \o y, s[k])) = Len(w) + k /\ Append(w \o y, s[k]) \in Seq(V)
  BY <1>1, <1>2
<1>4. ASSUME NEW i \in 1 .. Len(w) + k PROVE (w \o x)[i] = Append(w \o y, s[k])[i]
  <2> DEFINE n == Len(w)
             z == w \o y
  <2>1. n \in Nat /\ z \in Seq(V) /\ Len(z) = n + (k - 1) /\ k \in Nat \ {0}
    BY <1>2
  <2>2. CASE i \in 1 .. n
    <3>1. (w \o x)[i] = w[i] /\ z[i] = w[i]
      BY <1>1, <2>2, ConcatProperties
    <3> QED
      BY <2>1, <2>2, <3>1
  <2>3. CASE i \in n + 1 .. n + k
    <3>1. (w \o x)[i] = x[i - n] /\ i - n \in 1 .. k
      BY <1>1, <2>1, <2>3, ConcatProperties
    <3>2. (w \o x)[i] = s[i - n]
      BY <1>1, <3>1
    <3>3. CASE i = n + k
      <4>1. Append(z, s[k])[i] = s[k] /\ i - n = k
        BY <2>1, <3>3
      <4> QED
        BY <3>2, <4>1
    <3>4. CASE i # n + k
      <4>1. i \in n + 1 .. n + (k - 1) /\ i - n \in 1 .. k - 1
        BY <2>1, <2>3, <3>4
      <4>2. z[i] = y[i - n]
        BY <1>1, <2>1, <4>1, ConcatProperties
      <4>3. Append(z, s[k])[i] = z[i]
        BY <2>1, <4>1
      <4> QED
        BY <1>1, <3>2, <4>1, <4>2, <4>3
    <3> QED
      BY <3>3, <3>4
  <2>4. i \in 1 .. n \/ i \in n + 1 .. n + k
    <3>1. i \in 1 .. n + k
      OBVIOUS
    <3> HIDE DEF n
    <3> QED
      BY <2>1, <3>1
  <2> QED
    BY <2>2, <2>3, <2>4
<1>5. w \o x = Append(w \o y, s[k])
  BY <1>2, <1>3, <1>4, SeqEqual
<1> QED
  BY <1>5 DEF x, y

\* promover_cola(q): cola_a reads what it did with the entries of q added.
LEMMA PromoverColaPromueve ==
    ASSUME NEW q, primero[q] \in Nat, ultimo[q] \in Nat, primero[q] <= ultimo[q],
           NEW V, Ventana(q) \in Seq(V),
           NEW w \in Seq(V), NEW p \in Nat, NEW a, Promovido(a, p, w)
    PROVE  Promovido(PromoverCola(q, a), p, w \o Ventana(q))
<1> DEFINE n == ultimo[q] - primero[q]
           s == Ventana(q)
           Va(h, k) == Promovido(h[k], p, w \o SubSeq(s, 1, k))
<1>1. n \in Nat /\ Len(s) = n /\ \A k \in 1 .. n : s[k] = envs[q][(primero[q] + k - 1) % NENV]
  BY DEF Ventana
<1>2. \A k \in 1 .. n : s[k] \in V
  <2> HIDE DEF s, n
  <2> QED
    BY <1>1 DEF s
<1>3. PICK h : Vueltas(q, a, n, h) /\ PromoverCola(q, a) = h[n]
  BY <1>1, PromoverColaEs
<1>4. \A k \in 0 .. n : h[k] = IF k = 0 THEN a ELSE Vuelta(q, h[k - 1], k)
  BY <1>1, <1>3 DEF Vueltas
<1> HIDE DEF s, n
<1>5. s \in Seq(V)
  BY DEF s
<1>6. Va(h, 0)
  <2>1. h[0] = a /\ SubSeq(s, 1, 0) = <<>>
    BY <1>1, <1>4, SubSeqEmpty
  <2>2. w \o <<>> = w
    BY ConcatEmptySeq
  <2> QED
    BY <2>1, <2>2
<1>7. ASSUME NEW k \in 1 .. n, Va(h, k - 1) PROVE Va(h, k)
  <2> DEFINE v == w \o SubSeq(s, 1, k - 1)
             id == envs[q][(primero[q] + k - 1) % NENV]
             b == h[k - 1]
  <2>1. SubSeq(s, 1, k - 1) \in Seq(V)
    BY <1>1, <1>2, SubSeqProperties
  <2>2. v \in Seq(V)
    BY <2>1, ConcatProperties
  <2>3. id = s[k] /\ id \in V
    BY <1>1, <1>2
  <2>4. h[k] = Vuelta(q, b, k)
    BY <1>1, <1>4
  <2>5. w \o SubSeq(s, 1, k) = Append(v, id)
    <3>1. k \in 1 .. Len(s)
      BY <1>1
    <3>2. w \o SubSeq(s, 1, k) = Append(w \o SubSeq(s, 1, k - 1), s[k])
      BY <1>5, <3>1, UnoMas
    <3> QED
      BY <2>3, <3>2
  <2>6. Promovido(b, p, v)
    BY <1>7
  <2> HIDE DEF v, b
  <2>7. Promovido(Vuelta(q, b, k), p, Append(v, id))
    BY <2>2, <2>3, <2>6, VueltaPromueve
  <2> QED
    BY <2>4, <2>5, <2>7
<1>8. Va(h, n)
  <2> DEFINE D == {k \in 0 .. n : ~Va(h, k)}
  <2>1. SUFFICES ASSUME D # {} PROVE FALSE
    BY <1>1
  <2>2. D \in SUBSET Nat
    BY <1>1
  <2> HIDE DEF Va
  <2>3. PICK k \in D : \A y \in D : ~(y < k)
    BY <2>1, <2>2, Minimo
  <2>4. k \in 0 .. n /\ ~Va(h, k)
    BY <2>3
  <2>5. k # 0
    BY <1>6, <2>4
  <2>6. k \in 1 .. n /\ k - 1 \in 0 .. n /\ k - 1 < k
    BY <1>1, <2>4, <2>5
  <2>7. Va(h, k - 1)
    BY <2>3, <2>6
  <2> QED
    BY <1>7, <2>4, <2>6, <2>7
<1>9. SubSeq(s, 1, n) = s
  BY <1>1, <1>5, SubSeqFull
<1> QED
  BY <1>3, <1>8, <1>9 DEF s

-----------------------------------------------------------------------------
\* The ring's invariant: each queue has NENV cells, and primero does not pass
\* ultimo.
RingInv ==
    /\ \A q \in 0 .. 3 : envs[q] = [x \in Celdas |-> envs[q][x]]
    /\ envs = [q \in 0 .. 3 |-> envs[q]]
    /\ primero \in [0 .. 3 -> Nat] /\ ultimo \in [0 .. 3 -> Nat]
    /\ \A q \in 0 .. 3 : primero[q] <= ultimo[q]

\* What the windows of the four queues read.
Colas4 == [q \in 0 .. 3 |-> Ventana(q)]

LEMMA VentanaEsLee == \A q : Ventana(q) = Lee(envs[q], primero[q], ultimo[q])
BY DEF Ventana, Lee

LEMMA RingInicio == RingInit => RingInv /\ Abstracto!Init
<1> SUFFICES ASSUME RingInit PROVE RingInv /\ Abstracto!Init
  OBVIOUS
<1>1. /\ envs = [q \in 0 .. 3 |-> [x \in Celdas |-> SIN_ESCRIBIR]]
      /\ primero = [q \in 0 .. 3 |-> 0] /\ ultimo = [q \in 0 .. 3 |-> 0] /\ llamada = <<>>
  BY DEF RingInit
<1>2. RingInv
  BY <1>1 DEF RingInv
<1>3. \A q \in 0 .. 3 : Ventana(q) = <<>>
  BY <1>1 DEF Ventana
<1>4. Colas4 = [q \in 0 .. 3 |-> <<>>]
  BY <1>3 DEF Colas4
<1> QED
  BY <1>1, <1>2, <1>4 DEF Abstracto!Init, Colas4, Abstracto!Colas, Abstracto!COLAS_MAXIMAS

\* A queue changes, the others are as they were.
Cambia(q, c, p, u) ==
    /\ envs' = [envs EXCEPT ![q] = c] /\ primero' = [primero EXCEPT ![q] = p]
    /\ ultimo' = [ultimo EXCEPT ![q] = u]

CambiaCola(q, s) == Colas4' = [Colas4 EXCEPT ![q] = s]

LEMMA UnaCola ==
    ASSUME RingInv, NEW q \in 0 .. 3, NEW c, NEW p, NEW u, Cambia(q, c, p, u),
           c = [x \in Celdas |-> c[x]], p \in Nat, u \in Nat, p <= u
    PROVE  RingInv' /\ CambiaCola(q, Lee(c, p, u))
<1>1. /\ \A r \in 0 .. 3 : envs'[r] = IF r = q THEN c ELSE envs[r]
      /\ \A r \in 0 .. 3 : primero'[r] = IF r = q THEN p ELSE primero[r]
      /\ \A r \in 0 .. 3 : ultimo'[r] = IF r = q THEN u ELSE ultimo[r]
      /\ envs' = [r \in 0 .. 3 |-> envs'[r]]
      /\ primero' \in [0 .. 3 -> Nat] /\ ultimo' \in [0 .. 3 -> Nat]
  BY DEF RingInv, Cambia
<1>2. RingInv'
  BY <1>1 DEF RingInv
<1>3. ASSUME NEW r \in 0 .. 3 PROVE Ventana(r)' = IF r = q THEN Lee(c, p, u) ELSE Ventana(r)
  BY <1>1 DEF Ventana, Lee
<1>4. Colas4' = [r \in 0 .. 3 |-> IF r = q THEN Lee(c, p, u) ELSE Ventana(r)]
  BY <1>3 DEF Colas4
<1>5. [Colas4 EXCEPT ![q] = Lee(c, p, u)] = [r \in 0 .. 3 |-> IF r = q THEN Lee(c, p, u) ELSE Ventana(r)]
  BY DEF Colas4
<1> QED
  BY <1>2, <1>4, <1>5 DEF CambiaCola

LEMMA RingCola ==
    ASSUME RingInv, NEW q \in 0 .. 3
    PROVE  /\ envs[q] = [x \in Celdas |-> envs[q][x]] /\ DOMAIN envs[q] = Celdas
           /\ primero[q] \in Nat /\ ultimo[q] \in Nat /\ primero[q] <= ultimo[q]
           /\ Colas4[q] = Lee(envs[q], primero[q], ultimo[q]) /\ q \in Abstracto!Colas
<1>1. envs[q] = [x \in Celdas |-> envs[q][x]]
  BY DEF RingInv
<1>2. DOMAIN envs[q] = Celdas
  BY <1>1
<1> QED
  <2>1. Colas4[q] = Ventana(q) /\ Ventana(q) = Lee(envs[q], primero[q], ultimo[q])
    BY VentanaEsLee DEF Colas4
  <2> QED
    BY <1>1, <1>2, <2>1 DEF RingInv, Abstracto!Colas, Abstracto!COLAS_MAXIMAS

LEMMA AgregarImplementa ==
    ASSUME RingInv, NEW q \in 0 .. 3, NEW id, SchedAgregarEnv(q, id)
    PROVE  RingInv' /\ Abstracto!AgregarEnv(q, id)
<1> DEFINE c == envs[q]
           p == primero[q]
           u == ultimo[q]
           d == [c EXCEPT ![u % NENV] = id]
<1>1. /\ c = [x \in Celdas |-> c[x]] /\ DOMAIN c = Celdas
      /\ p \in Nat /\ u \in Nat /\ p <= u /\ Colas4[q] = Lee(c, p, u)
  BY RingCola
<1>2. Cambia(q, d, p, u + 1) /\ llamada' = <<"agregar", q, id>>
  BY DEF SchedAgregarEnv, RingInv, Cambia
<1>3. Lee(d, p, u + 1) = Abstracto!Agregar(Lee(c, p, u), id)
  BY <1>1, LeeAgregar
<1>4. d = [x \in Celdas |-> d[x]] /\ u + 1 \in Nat /\ p <= u + 1
  BY <1>1
<1> HIDE DEF c, p, u, d
<1>5. RingInv' /\ CambiaCola(q, Lee(d, p, u + 1))
  BY <1>1, <1>2, <1>4, UnaCola
<1>6. Colas4' = [Colas4 EXCEPT ![q] = Abstracto!Agregar(@, id)]
  BY <1>1, <1>3, <1>5 DEF CambiaCola
<1> QED
  BY <1>2, <1>5, <1>6 DEF Abstracto!AgregarEnv, Colas4

\* sched_borrar_env on position i of the window.
LEMMA SchedBorrarEnvEs ==
    ASSUME RingInv, NEW q \in 0 .. 3, NEW i \in primero[q] .. ultimo[q] - 1, SchedBorrarEnv(q, i)
    PROVE  /\ RingInv'
           /\ Colas4' = [Colas4 EXCEPT ![q] =
                    Lee(BorrarCelda(envs[q], primero[q], i % NENV), primero[q] + 1, ultimo[q])]
<1> DEFINE c == envs[q]
           p == primero[q]
           u == ultimo[q]
           d == BorrarCelda(c, p, i % NENV)
<1>1. /\ c = [x \in Celdas |-> c[x]] /\ p \in Nat /\ u \in Nat /\ p <= u
  BY RingCola
<1>2. i \in Nat /\ p + 1 \in Nat /\ p + 1 <= u
  BY <1>1
<1>3. d = [x \in Celdas |-> d[x]]
  <2>1. d = [x \in Celdas |-> IF x = i % NENV THEN c[p % NENV]
                              ELSE IF x = p % NENV THEN c[i % NENV] ELSE c[x]]
    BY <1>1, <1>2, BorrarCeldaEs
  <2> HIDE DEF d
  <2> QED
    BY <2>1
<1>4. Cambia(q, d, p + 1, u)
  BY DEF SchedBorrarEnv, RingInv, Cambia
<1> HIDE DEF c, p, u, d
<1>5. RingInv' /\ CambiaCola(q, Lee(d, p + 1, u))
  BY <1>1, <1>2, <1>3, <1>4, UnaCola
<1> QED
  BY <1>5 DEF c, p, u, d, CambiaCola

LEMMA BorrarImplementa ==
    ASSUME RingInv, NEW q \in 0 .. 3, BorrarEnv(q)
    PROVE  RingInv' /\ Abstracto!BorrarEnv(q)
<1> DEFINE c == envs[q]
           p == primero[q]
           u == ultimo[q]
<1>1. PICK i \in p .. u - 1 : SchedBorrarEnv(q, i) /\ llamada' = <<"borrar", q, i - p + 1>>
  BY DEF BorrarEnv
<1>2. /\ c = [x \in Celdas |-> c[x]] /\ p \in Nat /\ u \in Nat /\ p <= u
      /\ Colas4[q] = Lee(c, p, u)
  BY RingCola
<1>3. /\ RingInv'
      /\ Colas4' = [Colas4 EXCEPT ![q] = Lee(BorrarCelda(c, p, i % NENV), p + 1, u)]
  BY <1>1, SchedBorrarEnvEs
<1>4. Len(Lee(c, p, u)) = u - p
  BY <1>2, LeeLen
<1> DEFINE s == Lee(c, p, u)
           j == i - p + 1
<1> HIDE DEF c, p, u
<1>5. Lee(BorrarCelda(c, p, i % NENV), p + 1, u) = Abstracto!Borrar(s, j)
  BY <1>2, LeeBorrar
<1>6. j \in 1 .. Len(Colas4[q])
  BY <1>2, <1>4
<1> HIDE DEF s, j
<1>7. Colas4' = [Colas4 EXCEPT ![q] = Abstracto!Borrar(@, j)]
  BY <1>2, <1>3, <1>5 DEF s
<1>8. llamada' = <<"borrar", q, j>>
  BY <1>1 DEF j
<1> QED
  BY <1>3, <1>6, <1>7, <1>8 DEF Abstracto!BorrarEnv, Colas4

LEMMA EliminarImplementa ==
    ASSUME RingInv, NEW q \in 0 .. 3, NEW id, SchedEliminarEnv(q, id)
    PROVE  RingInv' /\ Abstracto!EliminarEnv(q, id)
<1> DEFINE c == envs[q]
           p == primero[q]
           u == ultimo[q]
           hallados == {i \in p .. u - 1 : c[i % NENV] = id}
<1>1. /\ c = [x \in Celdas |-> c[x]] /\ p \in Nat /\ u \in Nat /\ p <= u
      /\ Colas4[q] = Lee(c, p, u)
  BY RingCola
<1>2. llamada' = <<"eliminar", q, id>>
  BY DEF SchedEliminarEnv
<1>3. \/ \E i \in hallados : (\A j \in hallados : i <= j) /\ SchedBorrarEnv(q, i)
      \/ hallados = {} /\ UNCHANGED <<envs, primero, ultimo>>
  BY DEF SchedEliminarEnv
<1>4. ASSUME NEW i \in hallados, \A j \in hallados : i <= j, SchedBorrarEnv(q, i)
      PROVE  RingInv' /\ Colas4' = [Colas4 EXCEPT ![q] = Abstracto!Eliminar(@, id)]
  <2>1. i \in p .. u - 1 /\ c[i % NENV] = id /\ \A h \in p .. u - 1 : c[h % NENV] = id => i <= h
    BY <1>4
  <2>2. /\ RingInv'
        /\ Colas4' = [Colas4 EXCEPT ![q] = Lee(BorrarCelda(c, p, i % NENV), p + 1, u)]
    BY <1>4, <2>1, SchedBorrarEnvEs
  <2> HIDE DEF c, p, u
  <2>3. Lee(BorrarCelda(c, p, i % NENV), p + 1, u) = Abstracto!Eliminar(Lee(c, p, u), id)
    BY <1>1, <2>1, LeeEliminar
  <2> QED
    BY <1>1, <2>2, <2>3
<1>5. ASSUME hallados = {}, UNCHANGED <<envs, primero, ultimo>>
      PROVE  RingInv' /\ Colas4' = [Colas4 EXCEPT ![q] = Abstracto!Eliminar(@, id)]
  <2>1. RingInv' /\ Colas4' = Colas4
    BY <1>5 DEF RingInv, Colas4, Ventana
  <2>2. \A h \in p .. u - 1 : c[h % NENV] # id
    BY <1>5
  <2> HIDE DEF c, p, u
  <2>3. Abstracto!Eliminar(Lee(c, p, u), id) = Lee(c, p, u)
    BY <1>1, <2>2, LeeNada
  <2> QED
    BY <1>1, <2>1, <2>3 DEF Colas4
<1>6. RingInv' /\ Colas4' = [Colas4 EXCEPT ![q] = Abstracto!Eliminar(@, id)]
  BY <1>3, <1>4, <1>5
<1> QED
  BY <1>2, <1>6 DEF Abstracto!EliminarEnv, Colas4

LEMMA VentanaSeq ==
    ASSUME RingInv, NEW q \in 0 .. 3
    PROVE  Ventana(q) \in Seq({envs[r][x] : r \in 0 .. 3, x \in Celdas})
<1> DEFINE V == {envs[r][x] : r \in 0 .. 3, x \in Celdas}
           n == ultimo[q] - primero[q]
<1>1. n \in Nat /\ primero[q] \in Nat
  BY RingCola
<1>2. ASSUME NEW k \in 1 .. n PROVE envs[q][(primero[q] + k - 1) % NENV] \in V
  <2>1. (primero[q] + k - 1) % NENV \in Celdas
    BY <1>1, EnCeldas
  <2> QED
    BY <2>1
<1> HIDE DEF V
<1>3. Ventana(q) \in [1 .. n -> V]
  BY <1>2 DEF Ventana
<1>4. Ventana(q) \in Seq(V)
  BY <1>1, <1>3
<1> QED
  BY <1>4 DEF V

LEMMA PromoverImplementa ==
    ASSUME RingInv, PromoverColas
    PROVE  RingInv' /\ Abstracto!PromoverColas
<1> DEFINE V == {envs[r][x] : r \in 0 .. 3, x \in Celdas}
           w0 == Ventana(0)
           w1 == w0 \o Ventana(1)
           w2 == w1 \o Ventana(2)
           w3 == w2 \o Ventana(3)
           p  == primero[0]
           a0 == [celdas |-> envs[0], ultimo |-> ultimo[0]]
           a1 == PromoverCola(1, a0)
           a2 == PromoverCola(2, a1)
           a3 == PromoverCola(3, a2)
<1>1. /\ 0 \in 0 .. 3 /\ 1 \in 0 .. 3 /\ 2 \in 0 .. 3 /\ 3 \in 0 .. 3
      /\ \A q \in 0 .. 3 : primero[q] \in Nat /\ ultimo[q] \in Nat /\ primero[q] <= ultimo[q]
  BY DEF RingInv
<1>2. \A q \in 0 .. 3 : Ventana(q) \in Seq(V)
  BY VentanaSeq
<1>3. /\ envs' = [envs EXCEPT ![0] = a3.celdas]
      /\ ultimo' = [q \in 0 .. 3 |-> IF q = 0 THEN a3.ultimo ELSE 0]
      /\ primero' = [q \in 0 .. 3 |-> IF q = 0 THEN p ELSE 0]
      /\ llamada' = <<"promover">>
  BY DEF PromoverColas
<1>4. Promovido(a0, p, w0)
  <2>1. /\ envs[0] = [x \in Celdas |-> envs[0][x]] /\ p \in Nat /\ ultimo[0] \in Nat
        /\ p <= ultimo[0]
    BY <1>1, RingCola
  <2>2. w0 = Lee(envs[0], p, ultimo[0])
    BY VentanaEsLee
  <2>3. Cerrada(w0) = w0
    BY <2>1, <2>2, LeeCerrada
  <2> QED
    BY <2>1, <2>2, <2>3 DEF Promovido
<1>5. w0 \in Seq(V) /\ w1 \in Seq(V) /\ w2 \in Seq(V) /\ w3 \in Seq(V) /\ p \in Nat
  BY <1>1, <1>2, ConcatProperties
<1> HIDE DEF V, w0, a0, p
<1>6. Promovido(a1, p, w1)
  BY <1>1, <1>2, <1>4, <1>5, PromoverColaPromueve
<1> HIDE DEF a1, w1
<1>7. Promovido(a2, p, w2)
  BY <1>1, <1>2, <1>5, <1>6, PromoverColaPromueve
<1> HIDE DEF a2, w2
<1>8. Promovido(a3, p, w3)
  BY <1>1, <1>2, <1>5, <1>7, PromoverColaPromueve
<1> DEFINE c == a3.celdas
           u == a3.ultimo
<1> HIDE DEF a3
<1>9. c = [x \in Celdas |-> c[x]] /\ u \in Nat /\ p <= u /\ Lee(c, p, u) = Cerrada(w3)
  BY <1>8 DEF Promovido
<1> HIDE DEF c, u
<1>10. /\ envs' = [envs EXCEPT ![0] = c]
       /\ ultimo' = [q \in 0 .. 3 |-> IF q = 0 THEN u ELSE 0]
       /\ primero' = [q \in 0 .. 3 |-> IF q = 0 THEN p ELSE 0]
  BY <1>3 DEF c, u
<1>11. /\ \A q \in 0 .. 3 : envs'[q] = IF q = 0 THEN c ELSE envs[q]
       /\ envs' = [q \in 0 .. 3 |-> envs'[q]]
  BY <1>1, <1>10 DEF RingInv
<1>12. RingInv'
  BY <1>5, <1>9, <1>10, <1>11 DEF RingInv
<1>13. ASSUME NEW q \in 0 .. 3 PROVE Ventana(q)' = IF q = 0 THEN Cerrada(w3) ELSE <<>>
  <2>1. CASE q = 0
    BY <1>9, <1>10, <1>11, <2>1 DEF Ventana, Lee
  <2>2. CASE q # 0
    <3>1. ultimo'[q] = 0 /\ primero'[q] = 0
      BY <1>10, <2>2
    <3> QED
      BY <2>2, <3>1 DEF Ventana
  <2> QED
    BY <2>1, <2>2
<1>14. Colas4' = [q \in 0 .. 3 |-> IF q = 0 THEN Cerrada(w3) ELSE <<>>]
  BY <1>13 DEF Colas4
<1>15. Cerrada(w3) = Abstracto!ColaPromovida(Colas4)
  <2>1. w3 = Colas4[0] \o Colas4[1] \o Colas4[2] \o Colas4[3]
    BY <1>1 DEF w3, w2, w1, w0, Colas4
  <2> HIDE DEF w3
  <2> QED
    BY <2>1 DEF Cerrada, Abstracto!ColaPromovida
<1>16. Colas4' = Abstracto!Promover(Colas4)
  BY <1>14, <1>15 DEF Abstracto!Promover, Abstracto!Colas, Abstracto!COLAS_MAXIMAS
<1> QED
  BY <1>3, <1>12, <1>16 DEF Abstracto!PromoverColas, Colas4

LEMMA RingPaso ==
    ASSUME RingInv, [RingNext]_ringVars
    PROVE  RingInv' /\ [Abstracto!Next]_(<<Colas4, llamada>>)
<1>1. ASSUME NEW q \in ColasUsadas, NEW id \in Ids, SchedAgregarEnv(q, id)
      PROVE  RingInv' /\ Abstracto!Next
  <2>1. q \in 0 .. 3 /\ q \in Abstracto!Colas
    BY RingAssumption DEF Abstracto!Colas, Abstracto!COLAS_MAXIMAS
  <2> QED
    BY <1>1, <2>1, AgregarImplementa DEF Abstracto!Next
<1>2. ASSUME NEW q \in ColasUsadas, NEW id \in Ids, SchedEliminarEnv(q, id)
      PROVE  RingInv' /\ Abstracto!Next
  <2>1. q \in 0 .. 3 /\ q \in Abstracto!Colas
    BY RingAssumption DEF Abstracto!Colas, Abstracto!COLAS_MAXIMAS
  <2> QED
    BY <1>2, <2>1, EliminarImplementa DEF Abstracto!Next
<1>3. ASSUME NEW q \in ColasUsadas, BorrarEnv(q) PROVE RingInv' /\ Abstracto!Next
  <2>1. q \in 0 .. 3 /\ q \in Abstracto!Colas
    BY RingAssumption DEF Abstracto!Colas, Abstracto!COLAS_MAXIMAS
  <2> QED
    BY <1>3, <2>1, BorrarImplementa DEF Abstracto!Next
<1>4. CASE PromoverColas
  BY <1>4, PromoverImplementa DEF Abstracto!Next
<1>5. CASE UNCHANGED ringVars
  BY <1>5 DEF ringVars, RingInv, Colas4, Ventana
<1> QED
  BY <1>1, <1>2, <1>3, <1>4, <1>5 DEF RingNext

\* The arrays and indices of sched.c do, call by call, what the sequences of
\* MlfqQueues do, for any size of the ring and however far it overflows.
THEOREM RingImplementsQueues == RingSpec => ImplementsQueues
<1>1. RingInit => RingInv /\ Abstracto!Init
  BY RingInicio
<1>2. RingInv /\ [RingNext]_ringVars => RingInv' /\ [Abstracto!Next]_Abstracto!vars
  BY RingPaso DEF Abstracto!vars, Colas4
<1> QED
  BY <1>1, <1>2, PTL DEF RingSpec, ImplementsQueues, Abstracto!Spec
=============================================================================
