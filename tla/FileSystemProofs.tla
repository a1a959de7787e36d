-------------------------- MODULE FileSystemProofs --------------------------
(***************************************************************************)
(* Proofs about FileSystem, for every size of the table and every set of   *)
(* names.  Types, paths and remounting hold for any number of threads;     *)
(* sizes, the count and the tree when one thread changes names: with two,  *)
(* the steps of create_inode and remove_inode undo each other's work.      *)
(***************************************************************************)
EXTENDS FileSystem, FiniteSetTheorems, WellFoundedInduction, TLAPS

-----------------------------------------------------------------------------
\* Paths

\* A path other than the root is its parent with one name more.
LEMMA PathParts ==
    ASSUME NEW p \in Seq(Names), p # ROOT
    PROVE  /\ Len(p) > 0
           /\ Padre(p) \in Seq(Names) /\ Nombre(p) \in Names
           /\ Append(Padre(p), Nombre(p)) = p
           /\ Len(Padre(p)) = Len(p) - 1
<1>1. Len(p) \in Nat /\ Len(p) > 0
  BY DEF ROOT
<1>2. Padre(p) \in Seq(Names) /\ Len(Padre(p)) = Len(p) - 1
  BY <1>1 DEF Padre
<1>3. Nombre(p) \in Names
  BY <1>1 DEF Nombre
<1>4. Append(Padre(p), Nombre(p)) = p
  BY <1>1 DEF Padre, Nombre
<1> QED
  BY <1>1, <1>2, <1>3, <1>4

LEMMA ChildParts ==
    ASSUME NEW q \in Seq(Names), NEW n \in Names
    PROVE  /\ Append(q, n) \in Seq(Names) /\ Append(q, n) # ROOT
           /\ Padre(Append(q, n)) = q /\ Nombre(Append(q, n)) = n
<1>1. Append(q, n) \in Seq(Names) /\ Len(Append(q, n)) = Len(q) + 1 /\ Len(q) \in Nat
  OBVIOUS
<1>2. Append(q, n) # ROOT
  BY <1>1 DEF ROOT
<1>3. Nombre(Append(q, n)) = n
  BY <1>1 DEF Nombre
<1>4. Padre(Append(q, n)) = q
  BY <1>1 DEF Padre
<1> QED
  BY <1>1, <1>2, <1>3, <1>4

LEMMA PathsAreSeqs == Paths \subseteq Seq(Names)
<1> SUFFICES ASSUME NEW n \in 0 .. MAX_DEPTH, NEW p \in [1 .. n -> Names]
             PROVE  p \in Seq(Names)
  BY DEF Paths
<1>1. n \in Nat
  BY FileSystemAssumption
<1> QED
  BY <1>1

-----------------------------------------------------------------------------
\* Searches

\* A set of naturals that is not empty has a least element.
LEMMA Minimum ==
    ASSUME NEW D \in SUBSET Nat, D # {}
    PROVE  \E x \in D : \A y \in D : x <= y
<1>1. PICK x \in D : \A y \in D : <<y, x>> \notin OpToRel(<, Nat)
  BY WFMin, NatLessThanWellFounded
<1>2. \A y \in D : ~(y < x)
  BY <1>1 DEF OpToRel
<1> QED
  BY <1>2

LEMMA SearchInodeFinds ==
    ASSUME NEW p
    PROVE  /\ SearchInode(p) \in Idx \cup {ERROR}
           /\ SearchInode(p) # ERROR => SearchInode(p) \in Idx /\ Coincide(SearchInode(p), p)
           /\ SearchInode(p) = ERROR => \A i \in Idx : ~Coincide(i, p)
<1>1. CASE \E i \in Idx : Coincide(i, p)
  <2> DEFINE D == {i \in Idx : Coincide(i, p)}
  <2>1. D \in SUBSET Nat /\ D # {}
    BY <1>1, FileSystemAssumption DEF Idx
  <2>2. PICK x \in D : \A y \in D : x <= y
    <3> HIDE DEF D
    <3> QED BY <2>1, Minimum
  <2>3. D # {} /\ \E i \in D : \A j \in D : i <= j
    BY <2>1, <2>2
  <2>4. SearchInode(p) \in D
    <3>1. SearchInode(p) = CHOOSE i \in D : \A j \in D : i <= j
      BY <2>3 DEF SearchInode
    <3> QED BY <2>3, <3>1
  <2> QED
    BY <2>4 DEF Idx, ERROR
<1>2. CASE ~ \E i \in Idx : Coincide(i, p)
  BY <1>2 DEF SearchInode, ERROR
<1> QED
  BY <1>1, <1>2

LEMMA SearchFreeInodeFinds ==
    /\ SearchFreeInode \in Idx \cup {ERROR}
    /\ SearchFreeInode # ERROR =>
            SearchFreeInode \in Idx /\ inode_bitmap[SearchFreeInode] = 0
<1>1. CASE \E i \in Idx : inode_bitmap[i] = 0
  <2> DEFINE D == {i \in Idx : inode_bitmap[i] = 0}
  <2>1. D \in SUBSET Nat /\ D # {}
    BY <1>1, FileSystemAssumption DEF Idx
  <2>2. PICK x \in D : \A y \in D : x <= y
    <3> HIDE DEF D
    <3> QED BY <2>1, Minimum
  <2>3. x \in Idx /\ inode_bitmap[x] = 0 /\ \A j \in Idx : j < x => inode_bitmap[j] # 0
    BY <2>2 DEF Idx
  <2>4. SearchFreeInode \in Idx /\ inode_bitmap[SearchFreeInode] = 0
    BY <2>3 DEF SearchFreeInode
  <2> QED
    BY <2>4 DEF Idx, ERROR
<1>2. CASE ~ \E i \in Idx : inode_bitmap[i] = 0
  BY <1>2 DEF SearchFreeInode, ERROR
<1> QED
  BY <1>1, <1>2

-----------------------------------------------------------------------------
\* The saved image

\* In a set of naturals, some element has exactly k below it, for every k less
\* than the size of the set.
LEMMA RankExists ==
    ASSUME NEW N \in Nat, NEW S \in SUBSET (0 .. N - 1), NEW k \in Nat,
           k < Cardinality(S)
    PROVE  \E i \in S : Cardinality({j \in S : j < i}) = k
<1> DEFINE Below(m) == {j \in S : j < m}
           D == {m \in 0 .. N : Cardinality(Below(m)) > k}
<1>1. IsFiniteSet(S)
  <2>1. IsFiniteSet(0 .. N - 1)
    BY FS_Interval
  <2> QED
    BY <2>1, FS_Subset
<1>2. \A m \in 0 .. N : IsFiniteSet(Below(m)) /\ Cardinality(Below(m)) \in Nat
  <2> TAKE m \in 0 .. N
  <2>1. Below(m) \subseteq S
    OBVIOUS
  <2>2. IsFiniteSet(Below(m))
    BY <1>1, <2>1, FS_Subset
  <2> QED
    BY <2>2, FS_CardinalityType
<1>11. \A j \in S : j \in Nat /\ j < N
  OBVIOUS
<1>3. Below(N) = S /\ Below(0) = {}
  <2>1. Below(N) = S
    BY <1>11
  <2>2. Below(0) = {}
    <3>1. \A j \in S : ~(j < 0)
      BY <1>11
    <3> QED
      BY <3>1
  <2> QED
    BY <2>1, <2>2
<1>4. D \in SUBSET Nat /\ D # {}
  <2>1. N \in D
    BY <1>3
  <2>2. D \in SUBSET Nat
    OBVIOUS
  <2> QED
    BY <2>1, <2>2
<1>5. PICK m \in D : \A y \in D : m <= y
  <2> HIDE DEF D
  <2> QED BY <1>4, Minimum
<1>6. m # 0
  BY <1>3, <1>5, FS_EmptySet
<1> DEFINE i == m - 1
<1>7. i \in 0 .. N - 1 /\ m = i + 1 /\ i \notin D
  BY <1>5, <1>6
<1>8. Cardinality(Below(i)) <= k
  <2> HIDE DEF Below
  <2> QED BY <1>2, <1>7
<1>9. CASE i \in S
  <2>1. i \notin Below(i)
    BY <1>7
  <2>4. Below(m) = Below(i) \cup {i}
    <3>1. i \in Int /\ m = i + 1
      BY <1>7
    <3>2. \A j \in S : j < m <=> j < i \/ j = i
      <4> HIDE DEF i
      <4> QED BY <1>11, <3>1
    <3> HIDE DEF i
    <3> QED BY <1>9, <3>2
  <2>2. Cardinality(Below(m)) = Cardinality(Below(i)) + 1
    <3>1. i \in 0 .. N
      BY <1>7
    <3> HIDE DEF i, Below
    <3> QED BY <2>1, <2>4, <3>1, <1>2, FS_AddElement
  <2>3. Cardinality(Below(i)) = k
    <3> HIDE DEF Below
    <3> QED BY <1>2, <1>5, <1>7, <1>8, <2>2
  <2> QED
    BY <1>9, <2>3
<1>10. CASE i \notin S
  <2>1. Below(m) = Below(i)
    <3>1. i \in Int /\ m = i + 1
      BY <1>7
    <3>2. \A j \in S : j < m <=> j < i
      <4> HIDE DEF i
      <4> QED BY <1>11, <1>10, <3>1
    <3> HIDE DEF i
    <3> QED BY <3>2
  <2> QED
    <3> HIDE DEF Below
    <3> QED BY <1>5, <1>8, <1>2, <1>7, <2>1
<1> QED
  BY <1>9, <1>10

\* serialize: the k-th inode of the image is the one in use with k - 1 others
\* before it.
LEMMA ImageParts ==
    ASSUME inodes \in [Idx -> Inodos], inode_amount \in Int
    PROVE  LET S == {i \in Idx : EnImagen(i)}
           IN  /\ IsFiniteSet(S) /\ Cardinality(S) \in 0 .. INODES_AMOUNT
               /\ Serializados \in Seq(Inodos) /\ Len(Serializados) = Cardinality(S)
               /\ \A k \in 1 .. Len(Serializados) : \E i \in Idx :
                    EnImagen(i) /\ Posicion(i) = k - 1 /\ Serializados[k] = SinBuffer(inodes[i])
<1> DEFINE S == {i \in Idx : EnImagen(i)}
           n == Cardinality(S)
<1>1. IsFiniteSet(Idx) /\ Cardinality(Idx) = INODES_AMOUNT
  BY FS_Interval, FileSystemAssumption DEF Idx
<1>2. IsFiniteSet(S) /\ n \in Nat /\ n <= INODES_AMOUNT
  <2>1. S \subseteq Idx
    OBVIOUS
  <2>2. IsFiniteSet(S) /\ n <= INODES_AMOUNT
    <3> HIDE DEF S
    <3> QED BY <1>1, <2>1, FS_Subset
  <2> QED
    BY <2>2, FS_CardinalityType
<1>3. ASSUME NEW k \in 1 .. n
      PROVE  \E i \in Idx : EnImagen(i) /\ Posicion(i) = k - 1
  <2>1. S \in SUBSET (0 .. INODES_AMOUNT - 1)
    BY DEF Idx
  <2>2. \E i \in S : Cardinality({j \in S : j < i}) = k - 1
    <3>1. k - 1 \in Nat /\ k - 1 < Cardinality(S) /\ INODES_AMOUNT \in Nat
      <4> HIDE DEF S
      <4> QED BY <1>2, FileSystemAssumption
    <3> HIDE DEF S
    <3> QED BY <2>1, <3>1, RankExists
  <2>3. ASSUME NEW i \in S
        PROVE  Posicion(i) = Cardinality({j \in S : j < i})
    <3>1. {j \in Idx : j < i /\ EnImagen(j)} = {j \in S : j < i}
      OBVIOUS
    <3> QED
      BY <3>1 DEF Posicion
  <2> QED
    BY <2>2, <2>3
<1> DEFINE el(k) == CHOOSE i \in Idx : EnImagen(i) /\ Posicion(i) = k - 1
<1>4. \A k \in 1 .. n : el(k) \in Idx /\ EnImagen(el(k)) /\ Posicion(el(k)) = k - 1
  <2> HIDE DEF n
  <2> QED BY <1>3
<1>5. Serializados = [k \in 1 .. n |-> SinBuffer(inodes[el(k)])]
  BY DEF Serializados
<1>6. Serializados \in Seq(Inodos) /\ Len(Serializados) = n
  <2>1. \A r \in Inodos : SinBuffer(r) \in Inodos
    BY DEF SinBuffer, Inodos
  <2> HIDE DEF n, el
  <2> QED BY <1>2, <1>4, <1>5, <2>1
<1>7. ASSUME NEW k \in 1 .. n
      PROVE  \E i \in Idx : /\ EnImagen(i) /\ Posicion(i) = k - 1
                            /\ Serializados[k] = SinBuffer(inodes[i])
  <2> HIDE DEF n, el
  <2> QED BY <1>4, <1>5
<1> QED
  <2> HIDE DEF n
  <2>1. Cardinality(S) = n
    BY DEF n
  <2> HIDE DEF S
  <2>2. n \in 0 .. INODES_AMOUNT
    BY <1>2, FileSystemAssumption
  <2> QED BY <1>2, <1>6, <1>7, <2>1, <2>2 DEF S

-----------------------------------------------------------------------------
\* Types, for any number of threads

LEMMA RecordTypes ==
    /\ SIN_ENTRADAS \in [Names -> Nat]
    /\ SIN_USAR \in Inodos
    /\ \A p \in Seq(Names), t \in {INODE_FILE, INODE_DIR}, c \in Nat : Inode(p, t, c) \in Inodos
    /\ OCIOSO \in Pasos
    /\ \A r \in Inodos : /\ SinBuffer(r) \in Inodos
                         /\ Visto(r) \in Vistos /\ Visto(SinBuffer(r)) = Visto(r)
<1>1. ROOT \in Seq(Names)
  BY DEF ROOT
<1>2. 0 \in Idx
  BY FileSystemAssumption DEF Idx
<1>3. SIN_ENTRADAS \in [Names -> Nat]
  BY DEF SIN_ENTRADAS
<1>4. \A p \in Seq(Names), t \in {INODE_FILE, INODE_DIR}, c \in Nat : Inode(p, t, c) \in Inodos
  BY <1>3 DEF Inode, Inodos
<1>5. SIN_USAR \in Inodos
  BY <1>1, <1>4 DEF SIN_USAR
<1>6. OCIOSO \in Pasos
  BY <1>1, <1>2 DEF OCIOSO, Pasos
<1>7. \A r \in Inodos : Visto(r) \in Vistos
  BY DEF Visto, Vistos, Inodos
<1>8. \A r \in Inodos : SinBuffer(r) \in Inodos /\ Visto(SinBuffer(r)) = Visto(r)
  BY DEF SinBuffer, Visto, Inodos
<1> QED
  BY <1>3, <1>4, <1>5, <1>6, <1>7, <1>8

\* A directory with one entry more or less is the same inode otherwise.
LEMMA EntryTypes ==
    ASSUME NEW r \in Inodos, NEW n \in Names
    PROVE  /\ ConEntrada(r, n) \in Inodos /\ SinEntrada(r, n) \in Inodos
           /\ ConEntrada(r, n).path = r.path /\ SinEntrada(r, n).path = r.path
           /\ ConEntrada(r, n).type = r.type /\ SinEntrada(r, n).type = r.type
           /\ ConEntrada(r, n).dentries = ConNombre(r.dentries, n)
           /\ SinEntrada(r, n).dentries = SinNombre(r.dentries, n)
<1>1. /\ r.dentries \in [Names -> Nat] /\ r.dentries[n] \in Nat
      /\ r.largo \in Int /\ r.size \in Nat /\ r.cap \in Nat
  BY DEF Inodos
<1>2. ENTRADA \in Nat /\ INITIAL_CONTENT_LENGTH \in Nat
  BY FileSystemAssumption
<1>3. ENTRADA * r.dentries[n] \in Int
  BY <1>1, <1>2
<1>4. ConNombre(r.dentries, n) \in [Names -> Nat] /\ SinNombre(r.dentries, n) \in [Names -> Nat]
  BY <1>1 DEF ConNombre, SinNombre
<1>5. r.largo - ENTRADA * r.dentries[n] \in Int
  BY <1>1, <1>3
<1>6. r.largo + ENTRADA \in Int /\ r.size + ENTRADA + INITIAL_CONTENT_LENGTH \in Nat
  BY <1>1, <1>2
<1>7. /\ ConEntrada(r, n) \in Inodos /\ ConEntrada(r, n).path = r.path
      /\ ConEntrada(r, n).type = r.type
      /\ ConEntrada(r, n).dentries = ConNombre(r.dentries, n)
  BY <1>1, <1>4, <1>6 DEF ConEntrada, Inodos
<1>8. /\ SinEntrada(r, n) \in Inodos /\ SinEntrada(r, n).path = r.path
      /\ SinEntrada(r, n).type = r.type
      /\ SinEntrada(r, n).dentries = SinNombre(r.dentries, n)
  BY <1>1, <1>4, <1>5 DEF SinEntrada, Inodos
<1> QED
  BY <1>7, <1>8

\* The inode that remove_inode rewrites, and the one whose content it frees.
Reescrita(padre, k, n) == [inodes EXCEPT ![padre] = SinEntrada(@, n), ![k].cap = 0]

LEMMA RewriteTypes ==
    ASSUME TypeOK, NEW padre \in Idx, NEW k \in Idx, NEW n \in Names,
           inodes' = Reescrita(padre, k, n)
    PROVE  /\ inodes' \in [Idx -> Inodos]
           /\ \A i \in Idx : /\ inodes'[i].path = inodes[i].path
                             /\ inodes'[i].type = inodes[i].type
           /\ \A i \in Idx : i # padre => inodes'[i].dentries = inodes[i].dentries
           /\ \A i \in Idx : i # padre /\ i # k => inodes'[i] = inodes[i]
           /\ padre # k => inodes'[padre] = SinEntrada(inodes[padre], n)
           /\ inodes'[padre].dentries = SinNombre(inodes[padre].dentries, n)
<1> DEFINE con == [inodes EXCEPT ![padre] = SinEntrada(@, n)]
<1>1. \A i \in Idx : inodes[i] \in Inodos
  BY DEF TypeOK
<1>2. con \in [Idx -> Inodos] /\ con[padre] = SinEntrada(inodes[padre], n)
      /\ \A i \in Idx : i # padre => con[i] = inodes[i]
  BY <1>1, EntryTypes DEF TypeOK
<1>3. inodes' = [con EXCEPT ![k] = [con[k] EXCEPT !.cap = 0]]
  BY <1>2 DEF Reescrita
<1>4. \A i \in Idx : con[i].path = inodes[i].path /\ con[i].type = inodes[i].type
  <2>1. /\ SinEntrada(inodes[padre], n).path = inodes[padre].path
        /\ SinEntrada(inodes[padre], n).type = inodes[padre].type
    BY <1>1, EntryTypes
  <2> HIDE DEF con
  <2> QED BY <1>2, <2>1
<1>5. /\ [con[k] EXCEPT !.cap = 0] \in Inodos
      /\ [con[k] EXCEPT !.cap = 0].path = con[k].path
      /\ [con[k] EXCEPT !.cap = 0].type = con[k].type
      /\ [con[k] EXCEPT !.cap = 0].dentries = con[k].dentries
  <2>1. con[k] \in Inodos
    BY <1>2
  <2> HIDE DEF con
  <2> QED BY <2>1 DEF Inodos
<1> HIDE DEF con
<1>6. inodes' \in [Idx -> Inodos]
  BY <1>2, <1>3, <1>5
<1>7. \A i \in Idx : inodes'[i] = IF i = k THEN [con[k] EXCEPT !.cap = 0] ELSE con[i]
  BY <1>2, <1>3
<1>8. \A i \in Idx : /\ inodes'[i].path = con[i].path /\ inodes'[i].type = con[i].type
                     /\ inodes'[i].dentries = con[i].dentries
  BY <1>5, <1>7
<1>9. con[padre].dentries = SinNombre(inodes[padre].dentries, n)
  BY <1>1, <1>2, EntryTypes
<1> QED
  BY <1>2, <1>4, <1>6, <1>7, <1>8, <1>9

\* Stopping the server leaves a table and threads of the right types.
LEMMA ApagarTypes ==
    ASSUME TypeOK, Apagar
    PROVE  /\ inodes' \in [Idx -> Inodos] /\ inode_bitmap' \in [Idx -> {0, 1}]
           /\ inode_amount' \in Int /\ hilo' \in [Hilos -> Pasos]
           /\ servidor' \in {"apagado", "montado", "fallido"}
<1>1. inodes' \in [Idx -> Inodos]
  <2>1. inodes' = [i \in Idx |-> SIN_USAR]
    BY DEF Apagar, Limpiar
  <2> QED
    BY <2>1, RecordTypes
<1>2. inode_bitmap' \in [Idx -> {0, 1}] /\ inode_amount' \in Int
  BY DEF Apagar, Limpiar
<1>4. servidor' \in {"apagado", "montado", "fallido"}
  BY DEF Apagar
<1>3. hilo' \in [Hilos -> Pasos]
  <2>1. hilo' = [h \in Hilos |-> OCIOSO]
    BY DEF Apagar, Limpiar
  <2> QED
    BY <2>1, RecordTypes
<1> QED
  BY <1>1, <1>2, <1>3, <1>4

LEMMA InitTypes == Init => TypeOK
<1> SUFFICES ASSUME Init PROVE TypeOK
  OBVIOUS
<1>1. inodes \in [Idx -> Inodos] /\ inode_bitmap \in [Idx -> {0, 1}] /\ hilo \in [Hilos -> Pasos]
  BY RecordTypes DEF Init
<1>2. disco \in Imagenes /\ Len(disco.inodos) <= INODES_AMOUNT
  BY FileSystemAssumption DEF Init, NO_EXISTE, Imagenes
<1>3. guardado.arbol \subseteq Vistos /\ guardado.entero \in BOOLEAN
  <2>1. guardado.arbol = {} /\ guardado.entero = TRUE
    BY DEF Init
  <2> QED
    BY <2>1
<1>4. inode_amount \in Int /\ montajes \in Nat
  BY DEF Init
<1>5. sano \in BOOLEAN /\ rutas \in BOOLEAN
  <2>1. sano = TRUE /\ rutas = TRUE
    BY DEF Init
  <2> QED
    BY <2>1
<1>6. servidor \in {"apagado", "montado", "fallido"}
  BY DEF Init
<1> QED
  BY <1>1, <1>2, <1>3, <1>4, <1>5, <1>6 DEF TypeOK

LEMMA CrearTypes ==
    ASSUME TypeOK, NEW h \in Hilos, NEW p \in Paths, NEW t \in {INODE_FILE, INODE_DIR},
           Crear(h, p, t)
    PROVE  TypeOK'
<1>1. SearchFreeInode \in Idx /\ p \in Seq(Names)
  BY SearchFreeInodeFinds, PathsAreSeqs DEF Crear
<1>2. hilo' \in [Hilos -> Pasos]
  BY <1>1 DEF Crear, TypeOK, Pasos
<1> QED
  BY <1>2 DEF Crear, TypeOK, tabla, historia

LEMMA LlenarInodoTypes ==
    ASSUME TypeOK, NEW h \in Hilos, LlenarInodo(h)
    PROVE  TypeOK'
<1>1. hilo[h] \in Pasos
  BY DEF TypeOK
<1>2. INITIAL_CONTENT_LENGTH \in Nat
  BY FileSystemAssumption
<1>3. Inode(hilo[h].path, hilo[h].type, INITIAL_CONTENT_LENGTH) \in Inodos
  BY <1>1, <1>2, RecordTypes DEF Pasos
<1>4. inodes' \in [Idx -> Inodos] /\ inode_bitmap' \in [Idx -> {0, 1}]
  BY <1>1, <1>3 DEF LlenarInodo, TypeOK, Pasos
<1>5. hilo' \in [Hilos -> Pasos]
  <2>1. inode_amount \in Int /\ hilo \in [Hilos -> Pasos]
    BY DEF TypeOK
  <2>2. [hilo[h] EXCEPT !.pc = "contar", !.leido = inode_amount] \in Pasos
    <3> DEFINE s == [hilo[h] EXCEPT !.pc = "contar", !.leido = inode_amount]
    <3>1. s.pc # "ocioso" => s.path # ROOT
      BY <1>1 DEF LlenarInodo, Pasos
    <3>2. s \in [pc : {"ocioso", "llenar", "contar", "agregar",
                       "reescribir", "descontar_quitado"},
                 path : Seq(Names), type : {INODE_FILE, INODE_DIR},
                 idx : Idx, leido : Int]
      BY <1>1, <2>1 DEF Pasos
    <3> SUFFICES s \in Pasos
      OBVIOUS
    <3> HIDE DEF s
    <3> QED
      BY <3>1, <3>2 DEF Pasos
  <2>3. hilo' = [hilo EXCEPT ![h] = [hilo[h] EXCEPT !.pc = "contar", !.leido = inode_amount]]
    BY <2>1 DEF LlenarInodo
  <2> QED
    BY <2>1, <2>2, <2>3
<1> QED
  BY <1>4, <1>5 DEF LlenarInodo, TypeOK, historia

LEMMA ContarTypes ==
    ASSUME TypeOK, NEW h \in Hilos, Contar(h)
    PROVE  TypeOK'
<1>1. hilo[h] \in Pasos
  BY DEF TypeOK
<1>2. inode_amount' \in Int
  BY <1>1 DEF Contar, Pasos
<1>3. hilo' \in [Hilos -> Pasos]
  <2> DEFINE s == [hilo[h] EXCEPT !.pc = "agregar"]
  <2>1. s \in Pasos
    <3>1. s.pc # "ocioso" => s.path # ROOT
      BY <1>1 DEF Contar, Pasos
    <3>2. s \in [pc : {"ocioso", "llenar", "contar", "agregar",
                       "reescribir", "descontar_quitado"},
                 path : Seq(Names), type : {INODE_FILE, INODE_DIR},
                 idx : Idx, leido : Int]
      BY <1>1 DEF Pasos
    <3> HIDE DEF s
    <3> QED
      BY <3>1, <3>2 DEF Pasos
  <2>2. hilo \in [Hilos -> Pasos] /\ hilo' = [hilo EXCEPT ![h] = s]
    BY DEF Contar, TypeOK
  <2> QED
    BY <2>1, <2>2
<1> QED
  BY <1>2, <1>3 DEF Contar, TypeOK, historia

LEMMA AddDentryToParentDirTypes ==
    ASSUME TypeOK, NEW h \in Hilos, AddDentryToParentDir(h)
    PROVE  TypeOK'
<1> DEFINE p == hilo[h].path
           padre == SearchInode(Padre(p))
<1>0. p \in Seq(Names) /\ p # ROOT
  BY DEF AddDentryToParentDir, TypeOK, Pasos
<1>1. inodes' \in [Idx -> Inodos]
  <2>1. CASE padre # ERROR /\ inodes[padre].type = INODE_DIR
    <3>1. padre \in Idx /\ inodes[padre] \in Inodos /\ Nombre(p) \in Names
      BY <1>0, <2>1, SearchInodeFinds, PathParts DEF TypeOK
    <3>2. inodes' = [inodes EXCEPT ![padre] = ConEntrada(inodes[padre], Nombre(p))]
      BY <2>1 DEF AddDentryToParentDir
    <3>3. ConEntrada(inodes[padre], Nombre(p)) \in Inodos
      BY <3>1, EntryTypes
    <3> HIDE DEF padre, p
    <3> QED
      BY <3>1, <3>2, <3>3 DEF TypeOK
  <2>2. CASE ~(padre # ERROR /\ inodes[padre].type = INODE_DIR)
    BY <2>2 DEF AddDentryToParentDir, TypeOK
  <2> QED
    BY <2>1, <2>2
<1>2. hilo' \in [Hilos -> Pasos]
  BY RecordTypes DEF AddDentryToParentDir, TypeOK
<1> QED
  BY <1>1, <1>2 DEF AddDentryToParentDir, TypeOK, historia

LEMMA QuitarTypes ==
    ASSUME TypeOK, NEW h \in Hilos, NEW p \in Paths, Quitar(h, p)
    PROVE  TypeOK'
<1>1. SearchInode(p) \in Idx /\ p \in Seq(Names)
  BY SearchInodeFinds, PathsAreSeqs DEF Quitar, Resuelve
<1>2. inodes' \in [Idx -> Inodos] /\ inode_bitmap' \in [Idx -> {0, 1}]
  BY <1>1, RecordTypes DEF Quitar, TypeOK
<1>3. hilo' \in [Hilos -> Pasos]
  <2>1. inodes[SearchInode(p)].type \in {INODE_FILE, INODE_DIR}
    BY <1>1 DEF TypeOK, Inodos
  <2> QED
    BY <1>1, <2>1 DEF Quitar, TypeOK, Pasos
<1> QED
  BY <1>2, <1>3 DEF Quitar, TypeOK, historia

LEMMA ReescribirPadreTypes ==
    ASSUME TypeOK, NEW h \in Hilos, ReescribirPadre(h)
    PROVE  TypeOK'
<1> DEFINE p == hilo[h].path
           padre == SearchInode(Padre(p))
<1>1. CASE padre = ERROR
  <2>1. hilo' \in [Hilos -> Pasos]
    BY <1>1, RecordTypes DEF ReescribirPadre, TypeOK
  <2> QED
    BY <1>1, <2>1 DEF ReescribirPadre, TypeOK, historia
<1>2. CASE padre # ERROR
  <2>1. padre \in Idx /\ hilo[h].idx \in Idx
    BY <1>2, SearchInodeFinds DEF TypeOK, Pasos
  <2>2. Nombre(p) \in Names
    BY PathParts DEF ReescribirPadre, TypeOK, Pasos
  <2>3. inodes' = Reescrita(padre, hilo[h].idx, Nombre(p))
    BY <1>2 DEF ReescribirPadre, Reescrita
  <2>4. inodes' \in [Idx -> Inodos]
    <3> HIDE DEF padre, p
    <3> QED BY <2>1, <2>2, <2>3, RewriteTypes
  <2>5. hilo' \in [Hilos -> Pasos]
    <3>1. hilo' = [hilo EXCEPT ![h] =
                      [hilo[h] EXCEPT !.pc = "descontar_quitado", !.leido = inode_amount]]
      BY <1>2 DEF ReescribirPadre
    <3>2. hilo[h] \in Pasos /\ hilo[h].pc # "ocioso" /\ inode_amount \in Int
      BY DEF ReescribirPadre, TypeOK
    <3>3. [hilo[h] EXCEPT !.pc = "descontar_quitado", !.leido = inode_amount] \in Pasos
      BY <3>2 DEF Pasos
    <3> QED
      BY <3>1, <3>3 DEF TypeOK
  <2> QED
    BY <2>4, <2>5 DEF ReescribirPadre, TypeOK, historia
<1> QED
  BY <1>1, <1>2

LEMMA DescontarTypes ==
    ASSUME TypeOK, NEW h \in Hilos, Descontar(h)
    PROVE  TypeOK'
<1>1. hilo[h] \in Pasos
  BY DEF TypeOK
<1>2. inode_amount' \in Int
  BY <1>1 DEF Descontar, Pasos
<1>3. hilo' \in [Hilos -> Pasos]
  BY RecordTypes DEF Descontar, TypeOK
<1> QED
  BY <1>2, <1>3 DEF Descontar, TypeOK, historia

\* fisopfs_write and fisopfs_truncate change one inode, its size and its buffer.
LEMMA SizesTypes ==
    ASSUME TypeOK, NEW i \in Idx, NEW c \in Nat, NEW s \in Nat,
           inodes' = [inodes EXCEPT ![i] = [inodes[i] EXCEPT !.cap = c, !.size = s]],
           UNCHANGED <<inode_bitmap, inode_amount, hilo, servidor, disco, historia>>
    PROVE  TypeOK'
<1>1. inodes[i] \in Inodos
  BY DEF TypeOK
<1>2. [inodes[i] EXCEPT !.cap = c, !.size = s] \in Inodos
  BY <1>1 DEF Inodos
<1>3. inodes' \in [Idx -> Inodos]
  BY <1>2 DEF TypeOK
<1> QED
  BY <1>3 DEF TypeOK, historia

LEMMA EscribirTypes ==
    ASSUME TypeOK, NEW p, NEW off \in 0 .. MAX_SIZE, NEW n \in 1 .. MAX_SIZE,
           Escribir(p, off, n)
    PROVE  TypeOK'
<1> DEFINE i == SearchInode(p)
           c == IF off + n > inodes[i].size THEN off + n ELSE inodes[i].cap
<1>1. i \in Idx
  BY SearchInodeFinds DEF Escribir, Escribible, Resuelve
<1>2. off + n \in Nat
  BY FileSystemAssumption
<1>3. inodes[i] \in Inodos
  BY <1>1 DEF TypeOK
<1>4. c \in Nat
  <2> HIDE DEF i
  <2> QED BY <1>2, <1>3 DEF Inodos
<1>5. inodes' = [inodes EXCEPT ![i] = [inodes[i] EXCEPT !.cap = c, !.size = off + n]]
  <2>1. inodes' = [inodes EXCEPT ![i].cap = c, ![i].size = off + n]
    BY DEF Escribir
  <2> HIDE DEF i, c
  <2> QED BY <1>1, <1>3, <2>1 DEF TypeOK, Inodos
<1>6. UNCHANGED <<inode_bitmap, inode_amount, hilo, servidor, disco, historia>>
  BY DEF Escribir
<1> HIDE DEF i, c
<1> QED
  BY <1>1, <1>2, <1>4, <1>5, <1>6, SizesTypes

LEMMA TruncarTypes ==
    ASSUME TypeOK, NEW p, NEW s \in 0 .. MAX_SIZE, Truncar(p, s)
    PROVE  TypeOK'
<1> DEFINE i == SearchInode(p)
           nuevo == IF s = 0 THEN INITIAL_CONTENT_LENGTH ELSE s
<1>1. i \in Idx
  BY SearchInodeFinds DEF Truncar, Escribible, Resuelve
<1>2. nuevo \in Nat
  BY FileSystemAssumption
<1>3. inodes[i] \in Inodos
  BY <1>1 DEF TypeOK
<1>5. inodes' = [inodes EXCEPT ![i] = [inodes[i] EXCEPT !.cap = nuevo, !.size = nuevo]]
  <2>1. inodes' = [inodes EXCEPT ![i].cap = nuevo, ![i].size = nuevo]
    BY DEF Truncar
  <2> HIDE DEF i, nuevo
  <2> QED BY <1>1, <1>3, <2>1 DEF TypeOK, Inodos
<1>6. UNCHANGED <<inode_bitmap, inode_amount, hilo, servidor, disco, historia>>
  BY DEF Truncar
<1> HIDE DEF i, nuevo
<1> QED
  BY <1>1, <1>2, <1>5, <1>6, SizesTypes

\* A cut path is a path, and a cut int one.
LEMMA CutPieces ==
    /\ \A p \in Seq(Names) : RutasCortadas(p) \subseteq Seq(Names)
    /\ \A n \in Int : Truncados(n) \subseteq Int
    /\ \A n \in Nat : Truncados(n) \subseteq Nat
<1>1. ASSUME NEW p \in Seq(Names)
      PROVE  RutasCortadas(p) \subseteq Seq(Names)
  <2>1. \A n \in 0 .. Len(p) : SubSeq(p, 1, n) \in Seq(Names)
    OBVIOUS
  <2>2. ASSUME NEW n \in 1 .. Len(p), NEW m \in Names
        PROVE  Append(SubSeq(p, 1, n - 1), m) \in Seq(Names)
    <3>1. n - 1 \in 0 .. Len(p)
      OBVIOUS
    <3>2. SubSeq(p, 1, n - 1) \in Seq(Names)
      BY <2>1, <3>1
    <3> QED
      BY <3>2
  <2> QED
    BY <2>1, <2>2 DEF RutasCortadas
<1>2. ASSUME NEW n \in Int
      PROVE  /\ Truncados(n) \subseteq Int
             /\ n \in Nat => Truncados(n) \subseteq Nat
  <2>1. /\ n % 1 \in Nat /\ n % 256 \in Nat /\ n % 65536 \in Nat /\ n % 16777216 \in Nat
    OBVIOUS
  <2> QED
    BY <2>1 DEF Truncados
<1> QED
  BY <1>1, <1>2

\* What a cut inode keeps.
LEMMA CutInode ==
    ASSUME NEW r \in Inodos, NEW c \in InodosCortados(r)
    PROVE  /\ c \in Inodos
           /\ c.type = INODE_DIR => c.size = r.size /\ c.largo <= r.largo /\ r.type = INODE_DIR
<1>1. /\ r.path \in Seq(Names) /\ r.type \in {INODE_FILE, INODE_DIR}
      /\ r.largo \in Int /\ r.size \in Nat
  BY DEF Inodos
<1>2. CASE \E p \in RutasCortadas(r.path) : c = Inode(p, INODE_FILE, 0)
  <2>1. PICK p \in RutasCortadas(r.path) : c = Inode(p, INODE_FILE, 0)
    BY <1>2
  <2>2. p \in Seq(Names) /\ 0 \in Nat /\ INODE_FILE \in {INODE_FILE, INODE_DIR}
    BY <1>1, CutPieces
  <2>3. c \in Inodos
    BY <2>1, <2>2, RecordTypes
  <2>4. c.type # INODE_DIR
    BY <2>1 DEF Inode, INODE_FILE, INODE_DIR
  <2> QED
    BY <2>3, <2>4
<1>3. CASE \E s \in Truncados(r.size) : c = [Inode(r.path, INODE_FILE, 0) EXCEPT !.size = s]
  <2>1. PICK s \in Truncados(r.size) : c = [Inode(r.path, INODE_FILE, 0) EXCEPT !.size = s]
    BY <1>3
  <2>2. s \in Nat
    BY <1>1, CutPieces
  <2>3. SIN_ENTRADAS \in [Names -> Nat]
    BY RecordTypes
  <2>4. c = [path |-> r.path, type |-> INODE_FILE, dentries |-> SIN_ENTRADAS, largo |-> 0,
             size |-> s, cap |-> 0]
    BY <2>1 DEF Inode
  <2>5. c \in Inodos
    BY <1>1, <2>2, <2>3, <2>4 DEF Inodos
  <2>6. c.type # INODE_DIR
    BY <2>4 DEF INODE_FILE, INODE_DIR
  <2> QED
    BY <2>5, <2>6
<1>4. CASE c \in TextosCortados(r)
  <2>1a. PICK l \in 0 .. r.largo : \E d \in Quedan(r, l) : c = ConTexto(r, d, l)
    BY <1>4 DEF TextosCortados
  <2>1b. PICK d \in Quedan(r, l) : c = ConTexto(r, d, l)
    BY <2>1a
  <2>1. c = [r EXCEPT !.dentries = d, !.largo = l]
    BY <2>1b DEF ConTexto
  <2>2. d \in [Names -> Nat] /\ l \in Int /\ l <= r.largo
    BY <1>1, <2>1b DEF Quedan
  <2>3. c \in Inodos
    BY <2>1, <2>2 DEF Inodos
  <2>4. c.type = r.type /\ c.size = r.size /\ c.largo = l
    BY <2>1 DEF Inodos
  <2> QED
    BY <2>2, <2>3, <2>4
<1> QED
  BY <1>2, <1>3, <1>4 DEF InodosCortados

\* A cut image holds the count only, or the first inodes with the last one cut.
LEMMA CutParts ==
    ASSUME TypeOK, NEW d \in ImagenesCortadas
    PROVE  /\ d.amount \in Int /\ (inode_amount \in Nat => d.amount \in Nat)
           /\ \/ d = [amount |-> d.amount, inodos |-> << >>]
              \/ \E k \in 1 .. Len(Serializados) :
                    /\ d = [amount |-> inode_amount, inodos |-> d.inodos]
                    /\ d.inodos \in Seq(Inodos) /\ Len(d.inodos) = k
                    /\ d.inodos[k] \in InodosCortados(Serializados[k])
                    /\ \A j \in 1 .. k - 1 : d.inodos[j] = Serializados[j]
<1>0. inode_amount \in Int
  BY DEF TypeOK
<1>1. Serializados \in Seq(Inodos) /\ Len(Serializados) \in Nat
  BY ImageParts DEF TypeOK
<1>2. CASE \E n \in Truncados(inode_amount) : d = [amount |-> n, inodos |-> << >>]
  BY <1>0, <1>2, CutPieces
<1>3. CASE \E k \in 1 .. Len(Serializados) : \E r \in InodosCortados(Serializados[k]) :
                d = HastaEl(k, r)
  <2>1a. PICK k \in 1 .. Len(Serializados) : \E r \in InodosCortados(Serializados[k]) :
                d = HastaEl(k, r)
    BY <1>3
  <2>1. PICK r \in InodosCortados(Serializados[k]) : d = HastaEl(k, r)
    BY <2>1a
  <2>2. Serializados[k] \in Inodos /\ k - 1 \in 0 .. Len(Serializados) /\ k \in Nat
    BY <1>1
  <2>3. r \in Inodos
    BY <2>2, CutInode
  <2> DEFINE corta == SubSeq(Serializados, 1, k - 1)
  <2>4. /\ corta \in Seq(Inodos) /\ Len(corta) = k - 1
        /\ \A j \in 1 .. k - 1 : corta[j] = Serializados[j]
    BY <1>1, <2>2
  <2>5. d = [amount |-> inode_amount, inodos |-> Append(corta, r)]
    BY <2>1 DEF HastaEl
  <2> HIDE DEF corta
  <2>6. /\ Append(corta, r) \in Seq(Inodos) /\ Len(Append(corta, r)) = k
        /\ Append(corta, r)[k] = r
        /\ \A j \in 1 .. k - 1 : Append(corta, r)[j] = Serializados[j]
    BY <2>2, <2>3, <2>4
  <2> QED
    BY <1>0, <2>1, <2>5, <2>6
<1> QED
  BY <1>2, <1>3 DEF ImagenesCortadas

\* What the unmounted server leaves in the persistence file.
LEMMA ImageTypes ==
    ASSUME TypeOK
    PROVE  /\ Imagen \in Imagenes /\ Len(Imagen.inodos) <= INODES_AMOUNT
           /\ \A d \in ImagenesCortadas : d \in Imagenes /\ Len(d.inodos) <= INODES_AMOUNT
           /\ Arbol \subseteq Vistos
<1>1. /\ Serializados \in Seq(Inodos) /\ Len(Serializados) \in Nat
      /\ Len(Serializados) <= INODES_AMOUNT
  BY ImageParts DEF TypeOK
<1>2. Imagen \in Imagenes /\ Len(Imagen.inodos) <= INODES_AMOUNT
  BY <1>1 DEF Imagen, Imagenes, TypeOK
<1>3. ASSUME NEW d \in ImagenesCortadas
      PROVE  d \in Imagenes /\ Len(d.inodos) <= INODES_AMOUNT
  <2>1. CASE d = [amount |-> d.amount, inodos |-> << >>]
    <3>1. PICK n : n = d.amount
      OBVIOUS
    <3>2. d \in Imagenes
      <4>1. n \in Int /\ << >> \in Seq(Inodos)
        BY <3>1, CutParts
      <4>2. d = [amount |-> n, inodos |-> << >>]
        BY <2>1, <3>1
      <4> QED
        BY <4>1, <4>2 DEF Imagenes
    <3>3. Len(d.inodos) = 0
      BY <2>1
    <3> QED
      BY <3>2, <3>3, FileSystemAssumption
  <2>2. ASSUME NEW k \in 1 .. Len(Serializados),
               d = [amount |-> inode_amount, inodos |-> d.inodos],
               d.inodos \in Seq(Inodos), Len(d.inodos) = k
        PROVE  d \in Imagenes /\ Len(d.inodos) <= INODES_AMOUNT
    <3>1. inode_amount \in Int
      BY DEF TypeOK
    <3>2. d \in Imagenes
      BY <2>2, <3>1 DEF Imagenes
    <3>3. k <= INODES_AMOUNT
      BY <1>1, FileSystemAssumption
    <3> QED
      BY <2>2, <3>2, <3>3
  <2> QED
    BY <2>1, <2>2, CutParts
<1>4. Arbol \subseteq Vistos
  BY RecordTypes DEF Arbol, Usados, TypeOK
<1> QED
  BY <1>2, <1>3, <1>4

LEMMA DesmontarTypes ==
    ASSUME TypeOK, Desmontar \/ DesmontarCortado
    PROVE  TypeOK'
<1>1. Apagar /\ UNCHANGED <<montajes, sano>>
  BY DEF Desmontar, DesmontarCortado
<1>4. rutas' \in BOOLEAN
  <2>1. rutas \in BOOLEAN
    BY DEF TypeOK
  <2>2. CASE Desmontar
    BY <2>1, <2>2 DEF Desmontar
  <2>3. CASE DesmontarCortado
    <3>1. rutas' = (rutas /\ \A k \in 1 .. Len(disco'.inodos) :
                        disco'.inodos[k].path = Serializados[k].path)
      BY <2>3 DEF DesmontarCortado
    <3> QED
      BY <3>1
  <2> QED
    BY <2>2, <2>3
<1>2. disco' \in Imagenes /\ Len(disco'.inodos) <= INODES_AMOUNT
  BY ImageTypes DEF Desmontar, DesmontarCortado
<1>3. guardado'.arbol \subseteq Vistos /\ guardado'.entero \in BOOLEAN
  <2>1. guardado'.arbol = Arbol
    BY DEF Desmontar, DesmontarCortado
  <2>2. CASE Desmontar
    <3>1. guardado'.entero = (\A i \in Usados : i < inode_amount)
      BY <2>2 DEF Desmontar
    <3> QED
      BY <2>1, <3>1, ImageTypes
  <2>3. CASE DesmontarCortado
    <3>1. guardado'.entero = FALSE
      BY <2>3 DEF DesmontarCortado
    <3> QED
      BY <2>1, <3>1, ImageTypes
  <2> QED
    BY <2>2, <2>3
<1> QED
  BY <1>1, <1>2, <1>3, <1>4, ApagarTypes DEF TypeOK

LEMMA CrashTypes ==
    ASSUME TypeOK, Crash
    PROVE  TypeOK'
  BY ApagarTypes DEF Crash, TypeOK, historia

LEMMA FormatearTypes ==
    ASSUME TypeOK, Formatear
    PROVE  TypeOK'
<1>1. inodes' \in [Idx -> Inodos]
  <2>1. Inode(ROOT, INODE_DIR, INITIAL_CONTENT_LENGTH) \in Inodos
    <3>1. ROOT \in Seq(Names) /\ INITIAL_CONTENT_LENGTH \in Nat
      BY FileSystemAssumption DEF ROOT
    <3> QED
      BY <3>1, RecordTypes
  <2> QED
    BY <2>1, RecordTypes DEF Formatear, Limpiar
<1>2. inode_bitmap' \in [Idx -> {0, 1}] /\ inode_amount' \in Int /\ montajes' \in Nat
  BY DEF Formatear, Limpiar, TypeOK
<1>3. hilo' \in [Hilos -> Pasos]
  BY RecordTypes DEF Formatear, Limpiar
<1>4. disco' \in Imagenes /\ Len(disco'.inodos) <= INODES_AMOUNT
  BY FileSystemAssumption DEF Formatear, IMAGEN_VACIA, Imagenes
<1>5. servidor' \in {"apagado", "montado", "fallido"}
  BY DEF Formatear
<1> QED
  BY <1>1, <1>2, <1>3, <1>4, <1>5 DEF Formatear, TypeOK

LEMMA MontarTypes ==
    ASSUME TypeOK, Montar
    PROVE  TypeOK'
<1>1. inodes' \in [Idx -> Inodos]
  <2>1. ASSUME NEW i \in Idx, Cargado(i)
        PROVE  [disco.inodos[i + 1] EXCEPT !.cap = disco.inodos[i + 1].size] \in Inodos
    <3>1. i + 1 \in 1 .. Len(disco.inodos)
      BY <2>1, FileSystemAssumption DEF Cargado, Idx, TypeOK, Imagenes
    <3>2. disco.inodos[i + 1] \in Inodos
      BY <3>1 DEF TypeOK, Imagenes
    <3> QED
      BY <3>2 DEF Inodos
  <2> QED
    BY <2>1, RecordTypes DEF Montar, Limpiar
<1>2. inode_bitmap' \in [Idx -> {0, 1}] /\ inode_amount' \in Int /\ montajes' \in Nat
  BY DEF Montar, Limpiar, TypeOK, Imagenes
<1>3. hilo' \in [Hilos -> Pasos]
  BY RecordTypes DEF Montar, Limpiar
<1>4. guardado'.arbol \subseteq Vistos /\ guardado'.entero \in BOOLEAN
  <2>1. Arbol' \subseteq Vistos
    BY <1>1, RecordTypes DEF Arbol, Usados
  <2> QED
    BY <2>1 DEF Montar
<1>5. servidor' \in {"apagado", "montado", "fallido"} /\ sano' \in BOOLEAN
  <2>1. sano' = (sano /\ Arbol' = guardado.arbol)
    BY DEF Montar
  <2> QED
    BY <2>1 DEF Montar
<1> QED
  BY <1>1, <1>2, <1>3, <1>4, <1>5 DEF Montar, TypeOK

LEMMA MontarConErrorTypes ==
    ASSUME TypeOK, NEW k \in 0 .. INODES_AMOUNT, MontarConError(k)
    PROVE  TypeOK'
<1>1. inodes' \in [Idx -> Inodos]
  <2>1. ASSUME NEW i \in Idx, i < k
        PROVE  SinBuffer(disco.inodos[i + 1]) \in Inodos
    <3>1. i + 1 \in 1 .. Len(disco.inodos)
      BY <2>1, FileSystemAssumption DEF MontarConError, Idx, TypeOK, Imagenes
    <3>2. disco.inodos[i + 1] \in Inodos
      BY <3>1 DEF TypeOK, Imagenes
    <3> QED
      BY <3>2, RecordTypes
  <2> QED
    BY <2>1, RecordTypes DEF MontarConError, Limpiar
<1>2. inode_bitmap' \in [Idx -> {0, 1}] /\ inode_amount' \in Int /\ montajes' \in Nat
  BY DEF MontarConError, Limpiar, TypeOK
<1>3. hilo' \in [Hilos -> Pasos]
  BY RecordTypes DEF MontarConError, Limpiar
<1>4. servidor' \in {"apagado", "montado", "fallido"}
  BY DEF MontarConError
<1>5. sano' \in BOOLEAN
  <2>1. sano' = FALSE
    BY DEF MontarConError
  <2> QED
    BY <2>1
<1> QED
  BY <1>1, <1>2, <1>3, <1>4, <1>5 DEF MontarConError, TypeOK

\* FileSystem's types, for any number of threads: every index that the callbacks
\* use (search_inode, search_free_inode) is inside the inode table, an image holds
\* no more inodes than the table, and every record keeps its shape.
THEOREM FileSystemTypes == Spec => []TypeOK
<1>1. ASSUME TypeOK, [Next]_vars
      PROVE  TypeOK'
  <2>1. ASSUME NEW h \in Hilos, NEW p \in Paths, NEW t \in {INODE_FILE, INODE_DIR},
               Crear(h, p, t)
        PROVE  TypeOK'
    BY <1>1, <2>1, CrearTypes
  <2>2. ASSUME NEW h \in Hilos, NEW p \in Paths, Quitar(h, p)
        PROVE  TypeOK'
    BY <1>1, <2>2, QuitarTypes
  <2>3. ASSUME NEW h \in Hilos,
               LlenarInodo(h) \/ Contar(h) \/ AddDentryToParentDir(h)
                \/ ReescribirPadre(h) \/ Descontar(h)
        PROVE  TypeOK'
    BY <1>1, <2>3, LlenarInodoTypes, ContarTypes, AddDentryToParentDirTypes,
       ReescribirPadreTypes, DescontarTypes
  <2>4. ASSUME NEW p \in Paths, NEW off \in 0 .. MAX_SIZE, NEW n \in 1 .. MAX_SIZE,
               Escribir(p, off, n)
        PROVE  TypeOK'
    BY <1>1, <2>4, EscribirTypes
  <2>5. ASSUME NEW p \in Paths, NEW s \in 0 .. MAX_SIZE, Truncar(p, s)
        PROVE  TypeOK'
    BY <1>1, <2>5, TruncarTypes
  <2>6. CASE Desmontar \/ DesmontarCortado
    BY <1>1, <2>6, DesmontarTypes
  <2>7. CASE Crash
    BY <1>1, <2>7, CrashTypes
  <2>8. CASE Formatear
    BY <1>1, <2>8, FormatearTypes
  <2>9. CASE Montar
    BY <1>1, <2>9, MontarTypes
  <2>10. ASSUME NEW k \in 0 .. INODES_AMOUNT, MontarConError(k)
         PROVE  TypeOK'
    BY <1>1, <2>10, MontarConErrorTypes
  <2>11. CASE UNCHANGED vars
    BY <1>1, <2>11 DEF vars, tabla, historia, TypeOK
  <2> QED
    BY <1>1, <2>1, <2>2, <2>3, <2>4, <2>5, <2>6, <2>7, <2>8, <2>9, <2>10, <2>11 DEF Next
<1> QED
  BY <1>1, InitTypes, PTL DEF Spec

-----------------------------------------------------------------------------
\* Paths, for any number of threads.  create_inode does not look for the path it
\* adds, so the argument carries what the caller found until the inode is there.

RutasDelDiscoUnicas ==
    \A k, l \in 1 .. Len(disco.inodos) :
        disco.inodos[k].path = disco.inodos[l].path => k = l
RutasPorLlenarLibres ==
    \A h \in Hilos : hilo[h].pc = "llenar" =>
        \A i \in Usados : inodes[i].path # hilo[h].path
RutasPorLlenarUnicas ==
    \A g, h \in Hilos :
        hilo[g].pc = "llenar" /\ hilo[h].pc = "llenar" /\ hilo[g].path = hilo[h].path => g = h
RutasDeTablaUnicas ==
    \A i, j \in Usados : inodes[i].path = inodes[j].path => i = j
RutasUnicas ==
    RutasDeTablaUnicas /\ RutasDelDiscoUnicas /\ RutasPorLlenarLibres /\ RutasPorLlenarUnicas

\* A step that adds no inode and starts no creation keeps the table's paths apart.
LEMMA PathsKept ==
    ASSUME TypeOK, RutasUnicas,
           \A i \in Idx : inode_bitmap'[i] = 1 =>
                inode_bitmap[i] = 1 /\ inodes'[i].path = inodes[i].path,
           \A h \in Hilos : hilo'[h].pc = "llenar" =>
                hilo[h].pc = "llenar" /\ hilo'[h].path = hilo[h].path,
           RutasDelDiscoUnicas'
    PROVE  RutasUnicas'
<1>1. RutasDeTablaUnicas'
  BY DEF RutasUnicas, RutasDeTablaUnicas, Usados
<1>2. RutasPorLlenarLibres'
  BY DEF RutasUnicas, RutasPorLlenarLibres, Usados
<1>3. RutasPorLlenarUnicas'
  BY DEF RutasUnicas, RutasPorLlenarUnicas
<1> QED
  BY <1>1, <1>2, <1>3 DEF RutasUnicas

\* An image has the paths of the table, those of one path once.
LEMMA ImagePaths ==
    ASSUME TypeOK, RutasDeTablaUnicas
    PROVE  \A k, l \in 1 .. Len(Serializados) :
                Serializados[k].path = Serializados[l].path => k = l
<1>1. Serializados \in Seq(Inodos) /\ Len(Serializados) \in Nat
  BY ImageParts DEF TypeOK
<1>2. \A i \in Idx : SinBuffer(inodes[i]).path = inodes[i].path
  BY DEF SinBuffer, TypeOK, Inodos
<1>3. ASSUME NEW k \in 1 .. Len(Serializados), NEW l \in 1 .. Len(Serializados),
             Serializados[k].path = Serializados[l].path
      PROVE  k = l
  <2>1. PICK i \in Idx : EnImagen(i) /\ Posicion(i) = k - 1 /\ Serializados[k] = SinBuffer(inodes[i])
    BY ImageParts DEF TypeOK
  <2>2. PICK j \in Idx : EnImagen(j) /\ Posicion(j) = l - 1 /\ Serializados[l] = SinBuffer(inodes[j])
    BY ImageParts DEF TypeOK
  <2>3. i = j
    BY <1>2, <1>3, <2>1, <2>2 DEF RutasDeTablaUnicas, Usados, EnImagen
  <2>4. k - 1 = l - 1 /\ k \in Int /\ l \in Int
    BY <2>1, <2>2, <2>3
  <2> QED
    BY <2>4
<1> QED
  BY <1>3

\* ... and a cut one is no longer.
LEMMA CutLength ==
    ASSUME TypeOK, NEW d \in ImagenesCortadas
    PROVE  Len(d.inodos) \in Nat /\ Len(d.inodos) <= Len(Serializados)
<1>1. Len(Serializados) \in Nat
  BY ImageParts DEF TypeOK
<1>2. CASE d = [amount |-> d.amount, inodos |-> << >>]
  <2>1. Len(d.inodos) = 0
    BY <1>2
  <2> QED
    BY <1>1, <2>1
<1>3. CASE \E k \in 1 .. Len(Serializados) : Len(d.inodos) = k
  BY <1>1, <1>3
<1> QED
  BY <1>2, <1>3, CutParts

LEMMA CrearPaths ==
    ASSUME TypeOK, RutasUnicas, NEW h \in Hilos, NEW p \in Paths,
           NEW t \in {INODE_FILE, INODE_DIR}, Crear(h, p, t)
    PROVE  RutasUnicas'
<1>1. \A i \in Usados : inodes[i].path # p
  BY SearchInodeFinds DEF Crear, Usados, Coincide
<1>2. \A g \in Hilos : hilo[g].pc = "llenar" => hilo[g].path # p
  BY DEF Crear, PadreBloqueable, Ocupado
<1>3. /\ hilo'[h].path = p
      /\ \A g \in Hilos : g # h => hilo'[g] = hilo[g]
  BY DEF Crear, TypeOK
<1>4. UNCHANGED <<inodes, inode_bitmap, disco>>
  BY DEF Crear, tabla
<1>5. RutasDeTablaUnicas' /\ RutasDelDiscoUnicas'
  BY <1>4 DEF RutasUnicas, RutasDeTablaUnicas, RutasDelDiscoUnicas, Usados
<1>6. RutasPorLlenarLibres'
  BY <1>1, <1>3, <1>4 DEF RutasUnicas, RutasPorLlenarLibres, Usados
<1>7. RutasPorLlenarUnicas'
  BY <1>2, <1>3 DEF RutasUnicas, RutasPorLlenarUnicas
<1> QED
  BY <1>5, <1>6, <1>7 DEF RutasUnicas

LEMMA LlenarInodoPaths ==
    ASSUME TypeOK, RutasUnicas, NEW h \in Hilos, LlenarInodo(h)
    PROVE  RutasUnicas'
<1> DEFINE k == hilo[h].idx
           p == hilo[h].path
<1>1. k \in Idx
  BY DEF TypeOK, Pasos
<1>2. inodes'[k].path = p
  BY <1>1 DEF LlenarInodo, TypeOK, Inode
<1>3. \A i \in Idx : i # k => inodes'[i] = inodes[i] /\ inode_bitmap'[i] = inode_bitmap[i]
  BY <1>1 DEF LlenarInodo, TypeOK
<1>4. hilo'[h].pc = "contar" /\ \A g \in Hilos : g # h => hilo'[g] = hilo[g]
  BY DEF LlenarInodo, TypeOK, Pasos
<1>5. UNCHANGED disco
  BY DEF LlenarInodo
<1>6. \A i \in Usados : inodes[i].path # p
  BY DEF LlenarInodo, RutasUnicas, RutasPorLlenarLibres
<1>7. \A g \in Hilos : g # h /\ hilo[g].pc = "llenar" => hilo[g].path # p
  BY DEF LlenarInodo, RutasUnicas, RutasPorLlenarUnicas
<1> HIDE DEF k, p
<1>8. RutasDeTablaUnicas'
  BY <1>1, <1>2, <1>3, <1>6 DEF RutasUnicas, RutasDeTablaUnicas, Usados
<1>9. RutasPorLlenarLibres'
  BY <1>1, <1>2, <1>3, <1>4, <1>7 DEF RutasUnicas, RutasPorLlenarLibres, Usados
<1>10. RutasPorLlenarUnicas'
  BY <1>4 DEF RutasUnicas, RutasPorLlenarUnicas
<1>11. RutasDelDiscoUnicas'
  BY <1>5 DEF RutasUnicas, RutasDelDiscoUnicas
<1> QED
  BY <1>8, <1>9, <1>10, <1>11 DEF RutasUnicas

LEMMA CallbackPaths ==
    ASSUME TypeOK, RutasUnicas, NEW h \in Hilos,
           Contar(h) \/ AddDentryToParentDir(h) \/ ReescribirPadre(h) \/ Descontar(h)
    PROVE  RutasUnicas'
<1>1. UNCHANGED <<inode_bitmap, disco>>
  BY DEF Contar, AddDentryToParentDir, ReescribirPadre, Descontar
<1>2. \A i \in Idx : inodes'[i].path = inodes[i].path
  <2>0. \A i \in Idx : inodes[i] \in Inodos
    BY DEF TypeOK
  <2>1. CASE Contar(h) \/ Descontar(h)
    BY <2>1 DEF Contar, Descontar
  <2> DEFINE p == hilo[h].path
             padre == SearchInode(Padre(p))
  <2>4. p \in Seq(Names) /\ (hilo[h].pc # "ocioso" => Nombre(p) \in Names)
    BY PathParts DEF TypeOK, Pasos
  <2>2. CASE AddDentryToParentDir(h)
    <3>1. CASE padre # ERROR /\ inodes[padre].type = INODE_DIR
      <4>1. padre \in Idx /\ inodes[padre] \in Inodos /\ Nombre(p) \in Names
        BY <2>0, <2>2, <2>4, <3>1, SearchInodeFinds DEF AddDentryToParentDir
      <4>2. inodes' = [inodes EXCEPT ![padre] = ConEntrada(inodes[padre], Nombre(p))]
        BY <2>2, <3>1 DEF AddDentryToParentDir
      <4>3. ConEntrada(inodes[padre], Nombre(p)).path = inodes[padre].path
        BY <4>1, EntryTypes
      <4> HIDE DEF padre, p
      <4> QED
        BY <4>1, <4>2, <4>3 DEF TypeOK
    <3>2. CASE ~(padre # ERROR /\ inodes[padre].type = INODE_DIR)
      BY <2>2, <3>2 DEF AddDentryToParentDir
    <3> QED
      BY <3>1, <3>2
  <2>3. CASE ReescribirPadre(h)
    <3>1. CASE padre = ERROR
      BY <2>3, <3>1 DEF ReescribirPadre
    <3>2. CASE padre # ERROR
      <4>1. padre \in Idx /\ hilo[h].idx \in Idx /\ Nombre(p) \in Names
        BY <2>3, <2>4, <3>2, SearchInodeFinds DEF ReescribirPadre, TypeOK, Pasos
      <4>2. inodes' = Reescrita(padre, hilo[h].idx, Nombre(p))
        BY <2>3, <3>2 DEF ReescribirPadre, Reescrita
      <4> HIDE DEF padre, p
      <4> QED
        BY <4>1, <4>2, RewriteTypes
    <3> QED
      BY <3>1, <3>2
  <2> QED
    BY <2>1, <2>2, <2>3
<1>3. hilo'[h].pc # "llenar" /\ \A g \in Hilos : g # h => hilo'[g] = hilo[g]
  BY DEF TypeOK, Pasos, Contar, AddDentryToParentDir, ReescribirPadre, Descontar, OCIOSO
<1>4. RutasDelDiscoUnicas'
  BY <1>1 DEF RutasUnicas, RutasDelDiscoUnicas
<1> QED
  BY <1>1, <1>2, <1>3, <1>4, PathsKept

LEMMA QuitarPaths ==
    ASSUME TypeOK, RutasUnicas, NEW h \in Hilos, NEW p \in Paths, Quitar(h, p)
    PROVE  RutasUnicas'
<1>1. SearchInode(p) \in Idx
  BY SearchInodeFinds DEF Quitar, Resuelve
<1>2. \A i \in Idx : inode_bitmap'[i] = 1 =>
            inode_bitmap[i] = 1 /\ inodes'[i].path = inodes[i].path
  BY <1>1 DEF Quitar, TypeOK
<1>3. hilo'[h].pc # "llenar" /\ \A g \in Hilos : g # h => hilo'[g] = hilo[g]
  BY DEF Quitar, TypeOK
<1>4. RutasDelDiscoUnicas'
  BY DEF Quitar, RutasUnicas, RutasDelDiscoUnicas
<1> QED
  BY <1>2, <1>3, <1>4, PathsKept

LEMMA SizesPaths ==
    ASSUME TypeOK, RutasUnicas, NEW p,
           \/ \E off \in 0 .. MAX_SIZE, n \in 1 .. MAX_SIZE : Escribir(p, off, n)
           \/ \E s \in 0 .. MAX_SIZE : Truncar(p, s)
    PROVE  RutasUnicas'
<1>1. \A i \in Idx : inodes[i] \in Inodos
  BY DEF TypeOK
<1>2. \A i \in Idx : inodes'[i].path = inodes[i].path
  <2>1. ASSUME NEW off \in 0 .. MAX_SIZE, NEW n \in 1 .. MAX_SIZE, Escribir(p, off, n)
        PROVE  \A i \in Idx : inodes'[i].path = inodes[i].path
    BY <1>1, <2>1 DEF Escribir, TypeOK, Inodos
  <2>2. ASSUME NEW s \in 0 .. MAX_SIZE, Truncar(p, s)
        PROVE  \A i \in Idx : inodes'[i].path = inodes[i].path
    BY <1>1, <2>2 DEF Truncar, TypeOK, Inodos
  <2> QED
    BY <2>1, <2>2
<1>3. UNCHANGED <<inode_bitmap, hilo, disco>>
  BY DEF Escribir, Truncar
<1>4. RutasDelDiscoUnicas'
  BY <1>3 DEF RutasUnicas, RutasDelDiscoUnicas
<1> QED
  BY <1>2, <1>3, <1>4, PathsKept

\* A server that stops leaves an empty table and idle threads.
LEMMA ApagarPaths ==
    ASSUME TypeOK, RutasUnicas, Apagar, RutasDelDiscoUnicas'
    PROVE  RutasUnicas'
<1>1. \A i \in Idx : inode_bitmap'[i] # 1
  BY DEF Apagar, Limpiar
<1>2. \A h \in Hilos : hilo'[h].pc # "llenar"
  BY DEF Apagar, Limpiar, OCIOSO
<1> QED
  BY <1>1, <1>2, PathsKept

LEMMA UnmountPaths ==
    ASSUME TypeOK, RutasUnicas, rutas', Desmontar \/ DesmontarCortado \/ Crash
    PROVE  RutasUnicas'
<1>1. Apagar
  BY DEF Desmontar, DesmontarCortado, Crash
<1>2. RutasDelDiscoUnicas'
  <2>0. RutasDeTablaUnicas /\ RutasDelDiscoUnicas
    BY DEF RutasUnicas
  <2>1. CASE Desmontar
    <3>1. disco'.inodos = Serializados
      BY <2>1 DEF Desmontar, Imagen
    <3> QED
      BY <2>0, <3>1, ImagePaths DEF RutasDelDiscoUnicas
  <2>2. CASE DesmontarCortado
    <3>1. \A k \in 1 .. Len(disco'.inodos) : disco'.inodos[k].path = Serializados[k].path
      BY <2>2 DEF DesmontarCortado
    <3>2. Len(disco'.inodos) \in Nat /\ Len(disco'.inodos) <= Len(Serializados)
      BY <2>2, CutLength DEF DesmontarCortado
    <3>3. \A k \in 1 .. Len(disco'.inodos) : k \in 1 .. Len(Serializados)
      BY <3>2, ImageParts DEF TypeOK
    <3>4. ASSUME NEW k \in 1 .. Len(disco'.inodos), NEW l \in 1 .. Len(disco'.inodos),
                 disco'.inodos[k].path = disco'.inodos[l].path
          PROVE  k = l
      BY <2>0, <3>1, <3>3, <3>4, ImagePaths
    <3> QED
      BY <3>4 DEF RutasDelDiscoUnicas
  <2>3. CASE Crash
    BY <2>0, <2>3 DEF Crash, RutasDelDiscoUnicas
  <2> QED
    BY <2>1, <2>2, <2>3
<1> QED
  BY <1>1, <1>2, ApagarPaths

LEMMA MountPaths ==
    ASSUME TypeOK, RutasUnicas,
           Formatear \/ Montar \/ \E k \in 0 .. INODES_AMOUNT : MontarConError(k)
    PROVE  RutasUnicas'
<1>1. \A h \in Hilos : hilo'[h].pc # "llenar"
  BY DEF Formatear, Montar, MontarConError, Limpiar, OCIOSO
<1>2. RutasDeTablaUnicas'
  <2>1. CASE Formatear
    <3>1. \A i \in Idx : inode_bitmap'[i] = 1 => i = 0
      BY <2>1 DEF Formatear, Limpiar
    <3> QED
      BY <3>1 DEF RutasDeTablaUnicas, Usados
  <2>2. ASSUME NEW n \in 0 .. Len(disco.inodos),
               \A i \in Idx : inode_bitmap'[i] = 1 =>
                    i < n /\ inodes'[i].path = disco.inodos[i + 1].path
        PROVE  RutasDeTablaUnicas'
    <3>1. ASSUME NEW i \in Idx, inode_bitmap'[i] = 1
          PROVE  i + 1 \in 1 .. Len(disco.inodos)
      BY <2>2, <3>1, FileSystemAssumption DEF Idx, TypeOK, Imagenes
    <3>2. ASSUME NEW i \in Idx, NEW j \in Idx, inode_bitmap'[i] = 1, inode_bitmap'[j] = 1,
                 inodes'[i].path = inodes'[j].path
          PROVE  i = j
      <4>1. i + 1 = j + 1
        BY <2>2, <3>1, <3>2 DEF RutasUnicas, RutasDelDiscoUnicas
      <4> QED
        BY <4>1, FileSystemAssumption DEF Idx
    <3> QED
      BY <3>2 DEF RutasDeTablaUnicas, Usados
  <2>3. CASE Montar
    <3>1. ASSUME NEW i \in Idx, inode_bitmap'[i] = 1
          PROVE  i < Len(disco.inodos) /\ inodes'[i].path = disco.inodos[i + 1].path
      <4>1. i < Len(disco.inodos)
        BY <2>3, <3>1 DEF Montar, Limpiar, Cargado
      <4>2. disco.inodos[i + 1] \in Inodos
        BY <4>1, FileSystemAssumption DEF Idx, TypeOK, Imagenes
      <4>3. inodes'[i] = [disco.inodos[i + 1] EXCEPT !.cap = disco.inodos[i + 1].size]
        BY <2>3, <4>1 DEF Montar, Limpiar, Cargado
      <4> QED
        BY <4>1, <4>2, <4>3 DEF Inodos
    <3>2. Len(disco.inodos) \in 0 .. Len(disco.inodos)
      BY DEF TypeOK, Imagenes
    <3> QED
      BY <2>2, <3>1, <3>2
  <2>4. ASSUME NEW k \in 0 .. INODES_AMOUNT, MontarConError(k)
        PROVE  RutasDeTablaUnicas'
    <3>1. k \in 0 .. Len(disco.inodos)
      BY <2>4, FileSystemAssumption DEF MontarConError, TypeOK, Imagenes
    <3>2. ASSUME NEW i \in Idx, inode_bitmap'[i] = 1
          PROVE  i < k /\ inodes'[i].path = disco.inodos[i + 1].path
      <4>1. i < k
        BY <2>4, <3>2 DEF MontarConError, Limpiar
      <4>2. disco.inodos[i + 1] \in Inodos
        BY <3>1, <4>1, FileSystemAssumption DEF Idx, TypeOK, Imagenes
      <4>3. inodes'[i] = SinBuffer(disco.inodos[i + 1])
        BY <2>4, <4>1 DEF MontarConError, Limpiar
      <4> QED
        BY <4>1, <4>2, <4>3 DEF SinBuffer, Inodos
    <3> QED
      BY <2>2, <3>1, <3>2
  <2> QED
    BY <2>1, <2>3, <2>4
<1>3. RutasDelDiscoUnicas'
  <2>1. CASE Formatear
    BY <2>1 DEF Formatear, IMAGEN_VACIA, RutasDelDiscoUnicas
  <2>2. CASE Montar \/ \E k \in 0 .. INODES_AMOUNT : MontarConError(k)
    BY <2>2 DEF Montar, MontarConError, RutasUnicas, RutasDelDiscoUnicas
  <2> QED
    BY <2>1, <2>2
<1> QED
  BY <1>1, <1>2, <1>3 DEF RutasUnicas, RutasPorLlenarLibres, RutasPorLlenarUnicas

\* No two inodes in use ever have the same path (create_inode, deserialize), with
\* any number of threads, interrupted saves, failed mounts and lost inodes, until a
\* save is interrupted inside a path: whoever creates holds the parent directory
\* since it found the path free.
THEOREM FileSystemPathsUnique == Spec => []PathsUnique
<1>1. Init => (rutas => RutasUnicas)
  BY DEF Init, NO_EXISTE, OCIOSO, RutasUnicas, RutasDeTablaUnicas, Usados, RutasDelDiscoUnicas,
         RutasPorLlenarLibres, RutasPorLlenarUnicas
<1>2. ASSUME TypeOK, rutas => RutasUnicas, [Next]_vars
      PROVE  rutas' => RutasUnicas'
  <2> SUFFICES ASSUME rutas' PROVE RutasUnicas'
    OBVIOUS
  <2>0. RutasUnicas
    BY <1>2 DEF Next, vars, historia, Crear, LlenarInodo, Contar, AddDentryToParentDir, Quitar,
                ReescribirPadre, Descontar, Escribir, Truncar, Desmontar, DesmontarCortado,
                Crash, Formatear, Montar, MontarConError
  <2>1. ASSUME NEW h \in Hilos, NEW p \in Paths, NEW t \in {INODE_FILE, INODE_DIR},
               Crear(h, p, t)
        PROVE  RutasUnicas'
    BY <1>2, <2>0, <2>1, CrearPaths
  <2>2. ASSUME NEW h \in Hilos, NEW p \in Paths, Quitar(h, p)
        PROVE  RutasUnicas'
    BY <1>2, <2>0, <2>2, QuitarPaths
  <2>3. ASSUME NEW h \in Hilos, LlenarInodo(h)
        PROVE  RutasUnicas'
    BY <1>2, <2>0, <2>3, LlenarInodoPaths
  <2>4. ASSUME NEW h \in Hilos,
               Contar(h) \/ AddDentryToParentDir(h) \/ ReescribirPadre(h) \/ Descontar(h)
        PROVE  RutasUnicas'
    BY <1>2, <2>0, <2>4, CallbackPaths
  <2>5. ASSUME NEW p \in Paths,
               \/ \E off \in 0 .. MAX_SIZE, n \in 1 .. MAX_SIZE : Escribir(p, off, n)
               \/ \E s \in 0 .. MAX_SIZE : Truncar(p, s)
        PROVE  RutasUnicas'
    BY <1>2, <2>0, <2>5, SizesPaths
  <2>6. CASE Desmontar \/ DesmontarCortado \/ Crash
    BY <1>2, <2>0, <2>6, UnmountPaths
  <2>7. CASE Formatear \/ Montar \/ \E k \in 0 .. INODES_AMOUNT : MontarConError(k)
    BY <1>2, <2>0, <2>7, MountPaths
  <2>8. CASE UNCHANGED vars
    <3>1. UNCHANGED <<inodes, inode_bitmap, hilo, disco>>
      BY <2>8 DEF vars, tabla
    <3>2. RutasDelDiscoUnicas'
      BY <2>0, <3>1 DEF RutasUnicas, RutasDelDiscoUnicas
    <3> QED
      BY <1>2, <2>0, <3>1, <3>2, PathsKept
  <2> QED
    BY <1>2, <2>1, <2>2, <2>3, <2>4, <2>5, <2>6, <2>7, <2>8 DEF Next
<1>3. (rutas => RutasUnicas) => PathsUnique
  BY DEF RutasUnicas, RutasDeTablaUnicas, PathsUnique
<1> QED
  BY <1>1, <1>2, <1>3, FileSystemTypes, PTL DEF Spec

-----------------------------------------------------------------------------
\* Saving and mounting, for any number of threads

\* Of two inodes in the image, the one further on in the table is further on in the
\* image.
LEMMA PositionsIncrease ==
    ASSUME NEW i \in Idx, NEW j \in Idx, i < j, EnImagen(i)
    PROVE  Posicion(i) # Posicion(j) /\ Posicion(i) \in Nat
<1> DEFINE A == {m \in Idx : m < i /\ EnImagen(m)}
           B == {m \in Idx : m < j /\ EnImagen(m)}
<1>1. IsFiniteSet(Idx)
  BY FS_Interval, FileSystemAssumption DEF Idx
<1>2. IsFiniteSet(A) /\ IsFiniteSet(B)
  <2>1. A \subseteq Idx /\ B \subseteq Idx
    OBVIOUS
  <2> HIDE DEF A, B
  <2> QED BY <1>1, <2>1, FS_Subset
<1>3. A \cup {i} \subseteq B /\ i \notin A
  <2>1. \A m \in Idx : m \in Int
    BY FileSystemAssumption DEF Idx
  <2>2. \A m \in Idx : m < i => m < j
    BY <2>1
  <2>3. ~(i < i)
    BY <2>1
  <2> QED
    BY <2>2, <2>3
<1>4. Cardinality(A) + 1 <= Cardinality(B) /\ Cardinality(A) \in Nat /\ Cardinality(B) \in Nat
  <2> HIDE DEF A, B
  <2>1. Cardinality(A \cup {i}) = Cardinality(A) + 1 /\ IsFiniteSet(A \cup {i})
    BY <1>2, <1>3, FS_AddElement
  <2>2. Cardinality(A \cup {i}) <= Cardinality(B)
    BY <1>2, <1>3, FS_Subset
  <2> QED
    BY <1>2, <2>1, <2>2, FS_CardinalityType
<1>5. Posicion(i) = Cardinality(A) /\ Posicion(j) = Cardinality(B)
  BY DEF Posicion
<1> HIDE DEF A, B
<1> QED
  BY <1>4, <1>5

\* Every inode that serialize writes is in the image.
LEMMA ImageComplete ==
    ASSUME TypeOK, NEW i \in Idx, EnImagen(i)
    PROVE  \E k \in 1 .. Len(Serializados) : Serializados[k] = SinBuffer(inodes[i])
<1> DEFINE S == {j \in Idx : EnImagen(j)}
           k == Posicion(i) + 1
<1>1. IsFiniteSet(S) /\ Cardinality(S) \in Nat /\ Len(Serializados) = Cardinality(S)
  BY ImageParts, FileSystemAssumption DEF TypeOK
<1>2. Posicion(i) \in Nat /\ Posicion(i) + 1 <= Cardinality(S)
  <2> DEFINE A == {m \in Idx : m < i /\ EnImagen(m)}
  <2>1. ~(i < i)
    BY FileSystemAssumption DEF Idx
  <2>2. A \subseteq S /\ i \in S /\ i \notin A
    BY <2>1
  <2>3. Posicion(i) = Cardinality(A)
    BY DEF Posicion
  <2> HIDE DEF A, S
  <2>4. IsFiniteSet(A) /\ Cardinality(A) \in Nat
    BY <1>1, <2>2, FS_Subset, FS_CardinalityType
  <2>5. Cardinality(A \cup {i}) = Cardinality(A) + 1
    BY <2>2, <2>4, FS_AddElement
  <2>6. Cardinality(A \cup {i}) <= Cardinality(S)
    BY <1>1, <2>2, FS_Subset
  <2> QED
    BY <2>3, <2>4, <2>5, <2>6
<1>3. k \in 1 .. Len(Serializados)
  <2> HIDE DEF S
  <2> QED BY <1>1, <1>2
<1>4. PICK j \in Idx : EnImagen(j) /\ Posicion(j) = k - 1 /\ Serializados[k] = SinBuffer(inodes[j])
  <2> HIDE DEF k
  <2> QED BY <1>3, ImageParts DEF TypeOK
<1>5. Posicion(j) = Posicion(i)
  BY <1>2, <1>4
<1>6. i = j
  <2>1. i \in Int /\ j \in Int
    BY FileSystemAssumption DEF Idx
  <2>2. ~(i < j)
    BY <1>4, <1>5, PositionsIncrease
  <2>3. ~(j < i)
    BY <1>4, <1>5, PositionsIncrease
  <2> QED
    BY <2>1, <2>2, <2>3
<1> QED
  BY <1>3, <1>4, <1>6

\* What the image shows of its inodes, and that it is what should be given back.
VistosDe(d) == {Visto(d.inodos[k]) : k \in 1 .. Len(d.inodos)}
ImagenFiel == guardado.entero => VistosDe(disco) = guardado.arbol

LEMMA DesmontarFaithful ==
    ASSUME TypeOK, Desmontar
    PROVE  ImagenFiel'
<1> SUFFICES ASSUME guardado'.entero
             PROVE  VistosDe(disco') = Arbol
  BY DEF ImagenFiel, VistosDe, Desmontar
<1>1. \A i \in Usados : EnImagen(i)
  BY DEF Desmontar, Usados, EnImagen
<1>2. disco'.inodos = Serializados
  BY DEF Desmontar, Imagen
<1>3. \A k \in 1 .. Len(Serializados) : \E i \in Usados : Serializados[k] = SinBuffer(inodes[i])
  BY ImageParts DEF TypeOK, Usados, EnImagen
<1>5. \A i \in Usados : Visto(SinBuffer(inodes[i])) = Visto(inodes[i])
  BY RecordTypes DEF TypeOK, Usados
<1>4. \A i \in Usados : \E k \in 1 .. Len(Serializados) : Serializados[k] = SinBuffer(inodes[i])
  BY <1>1, ImageComplete DEF Usados
<1> QED
  BY <1>2, <1>3, <1>4, <1>5 DEF VistosDe, Arbol

\* What a mount loads is what the image shows.
LEMMA MontarLoads ==
    ASSUME TypeOK, Montar
    PROVE  Arbol' = VistosDe(disco)
<1> DEFINE n == Len(disco.inodos)
<1>1. n \in Nat /\ n <= INODES_AMOUNT /\ \A k \in 1 .. n : disco.inodos[k] \in Inodos
  BY DEF TypeOK, Imagenes
<1>2. Usados' = {i \in Idx : i < n}
  BY DEF Montar, Limpiar, Cargado, Usados
<1>3. ASSUME NEW i \in Idx, i < n
      PROVE  i + 1 \in 1 .. n /\ Visto(inodes'[i]) = Visto(disco.inodos[i + 1])
  <2>1. i + 1 \in 1 .. n
    BY <1>1, <1>3, FileSystemAssumption DEF Idx
  <2>2. inodes'[i] = [disco.inodos[i + 1] EXCEPT !.cap = disco.inodos[i + 1].size]
    BY <1>3 DEF Montar, Limpiar, Cargado
  <2> QED
    BY <1>1, <2>1, <2>2 DEF Visto, Inodos
<1>4. \A k \in 1 .. n : k - 1 \in Idx /\ k - 1 < n /\ (k - 1) + 1 = k
  BY <1>1, FileSystemAssumption DEF Idx
<1>5. Arbol' = {Visto(inodes'[i]) : i \in {j \in Idx : j < n}}
  BY <1>2 DEF Arbol, Visto
<1>6. ASSUME NEW v \in Arbol'
      PROVE  v \in VistosDe(disco)
  BY <1>3, <1>5, <1>6 DEF VistosDe
<1>7. ASSUME NEW v \in VistosDe(disco)
      PROVE  v \in Arbol'
  <2>1. PICK k \in 1 .. n : v = Visto(disco.inodos[k])
    BY <1>7 DEF VistosDe
  <2>2. Visto(inodes'[k - 1]) = v
    BY <1>3, <1>4, <2>1
  <2> QED
    BY <1>4, <1>5, <2>2
<1> QED
  BY <1>6, <1>7

\* A mount gives back exactly the tree of the last unmount, if that wrote the whole
\* image of a table without holes (serialize, deserialize), for any number of
\* threads and whatever crashed in between.
THEOREM FileSystemRemountRestores == Spec => RemountRestores
<1>1. Init => ImagenFiel
  BY DEF Init, NO_EXISTE, ImagenFiel, VistosDe
<1>2. ASSUME TypeOK, ImagenFiel, [Next]_vars
      PROVE  ImagenFiel'
  <2>1. CASE Desmontar
    BY <1>2, <2>1, DesmontarFaithful
  <2>2. CASE DesmontarCortado
    <3>1. guardado'.entero = FALSE
      BY <2>2 DEF DesmontarCortado
    <3> QED
      BY <3>1 DEF ImagenFiel
  <2>3. CASE Montar
    <3>1. guardado'.arbol = Arbol' /\ disco' = disco
      BY <2>3 DEF Montar
    <3>2. Arbol' = VistosDe(disco)
      BY <1>2, <2>3, MontarLoads
    <3> QED
      BY <3>1, <3>2 DEF ImagenFiel, VistosDe
  <2>4. CASE Formatear
    BY <1>2, <2>4 DEF Formatear, ImagenFiel, VistosDe, NO_EXISTE, IMAGEN_VACIA
  <2>5. CASE UNCHANGED <<disco, guardado>>
    BY <1>2, <2>5 DEF ImagenFiel, VistosDe
  <2>6. \/ Desmontar \/ DesmontarCortado \/ Montar \/ Formatear
        \/ UNCHANGED <<disco, guardado>>
    BY <1>2 DEF Next, vars, historia, Crear, LlenarInodo, Contar, AddDentryToParentDir,
                Quitar, ReescribirPadre, Descontar, Escribir, Truncar, Crash, MontarConError
  <2> QED
    BY <2>1, <2>2, <2>3, <2>4, <2>5, <2>6
<1>3. ASSUME TypeOK, ImagenFiel
      PROVE  [Montar /\ guardado.entero => Arbol' = guardado.arbol]_vars
  BY <1>3, MontarLoads DEF ImagenFiel
<1> QED
  BY <1>1, <1>2, <1>3, FileSystemTypes, PTL DEF Spec, RemountRestores

-----------------------------------------------------------------------------
\* One thread that changes names.

UnHilo == \A g, h \in Hilos : g = h

\* A callback is under way only while the server is mounted.
Inactivo == servidor # "montado" => \A h \in Hilos : hilo[h].pc = "ocioso"

LEMMA ServerIdle == Spec => []Inactivo
<1>1. Init => Inactivo
  BY DEF Init, Inactivo, OCIOSO
<1>2. ASSUME TypeOK, Inactivo, [Next]_vars
      PROVE  Inactivo'
  <2>1. CASE UNCHANGED vars
    BY <1>2, <2>1 DEF vars, Inactivo
  <2>2. ASSUME NEW h \in Hilos,
               \/ \E p \in Paths : \/ \E t \in {INODE_FILE, INODE_DIR} : Crear(h, p, t)
                                 \/ Quitar(h, p)
               \/ LlenarInodo(h) \/ Contar(h) \/ AddDentryToParentDir(h)
               \/ ReescribirPadre(h) \/ Descontar(h)
        PROVE  Inactivo'
    <3>1. servidor = "montado" /\ UNCHANGED servidor
      BY <1>2, <2>2 DEF Inactivo, Crear, Quitar, LlenarInodo, Contar, AddDentryToParentDir,
                        ReescribirPadre, Descontar
    <3> QED
      BY <3>1 DEF Inactivo
  <2>3. ASSUME NEW p \in Paths,
               \/ \E off \in 0 .. MAX_SIZE, n \in 1 .. MAX_SIZE : Escribir(p, off, n)
               \/ \E s \in 0 .. MAX_SIZE : Truncar(p, s)
        PROVE  Inactivo'
    BY <1>2, <2>3 DEF Inactivo, Escribir, Truncar
  <2>4. CASE \/ Desmontar \/ DesmontarCortado \/ Crash \/ Formatear \/ Montar
             \/ \E k \in 0 .. INODES_AMOUNT : MontarConError(k)
    BY <2>4 DEF Inactivo, Desmontar, DesmontarCortado, Crash, Formatear, Montar,
                MontarConError, Apagar, Limpiar, OCIOSO
  <2> QED
    BY <1>2, <2>1, <2>2, <2>3, <2>4 DEF Next
<1> QED
  BY <1>1, <1>2, FileSystemTypes, PTL DEF Spec

-----------------------------------------------------------------------------
\* Sizes.  remove_inode frees a content last, so the slot must still be free then.

LibreAlReescribir ==
    \A h \in Hilos : hilo[h].pc = "reescribir" => inode_bitmap[hilo[h].idx] = 0
CabeTexto(r) == r.type = INODE_DIR => r.largo <= r.size
Cabe(r) == r.size <= r.cap /\ CabeTexto(r)
CabeDisco == \A k \in 1 .. Len(disco.inodos) : CabeTexto(disco.inodos[k])
TamaniosOK == LibreAlReescribir /\ CabeDisco /\ \A i \in Usados : Cabe(inodes[i])
\* A mount that failed has freed the buffers; the texts it read are as short.
TamaniosServidor ==
    IF servidor = "montado" THEN TamaniosOK
    ELSE LibreAlReescribir /\ CabeDisco /\ \A i \in Usados : CabeTexto(inodes[i])

\* An entry more or less leaves the text inside the size (add_dentry_to_content, the
\* loop of remove_inode).
LEMMA EntryFits ==
    ASSUME NEW r \in Inodos, Cabe(r), NEW n \in Names
    PROVE  /\ r.type = INODE_DIR => Cabe(ConEntrada(r, n))
           /\ Cabe(SinEntrada(r, n))
<1>1. /\ r.dentries[n] \in Nat /\ r.largo \in Int /\ r.size \in Nat /\ r.cap \in Nat
      /\ DOMAIN r = {"path", "type", "dentries", "largo", "size", "cap"}
  BY DEF Inodos
<1>2. ENTRADA \in Nat /\ INITIAL_CONTENT_LENGTH \in Nat
  BY FileSystemAssumption
<1>3. ENTRADA * r.dentries[n] \in Nat
  BY <1>1, <1>2
<1>4. r.size <= r.cap /\ (r.type = INODE_DIR => r.largo <= r.size)
  BY DEF Cabe, CabeTexto
<1>5. /\ SinEntrada(r, n).size = r.size /\ SinEntrada(r, n).cap = r.size
      /\ SinEntrada(r, n).largo = r.largo - ENTRADA * r.dentries[n]
      /\ SinEntrada(r, n).type = r.type
  BY <1>1 DEF SinEntrada
<1>6. Cabe(SinEntrada(r, n))
  BY <1>1, <1>3, <1>4, <1>5 DEF Cabe, CabeTexto
<1>7. r.type = INODE_DIR => Cabe(ConEntrada(r, n))
  BY <1>1, <1>2, <1>4 DEF ConEntrada, Cabe, CabeTexto
<1> QED
  BY <1>6, <1>7

\* A step after which every inode in use was so before, or has its size inside its
\* buffer now.
LEMMA SizesKept ==
    ASSUME TypeOK, TamaniosOK,
           \A i \in Idx : inode_bitmap'[i] = 1 =>
                \/ inode_bitmap[i] = 1 /\ inodes'[i] = inodes[i]
                \/ Cabe(inodes'[i]),
           LibreAlReescribir', CabeDisco'
    PROVE  TamaniosOK'
  BY DEF TamaniosOK, Usados, Cabe, CabeTexto

LEMMA NameStepSizes ==
    ASSUME UnHilo, TypeOK, TamaniosOK, NEW h \in Hilos,
           \/ \E p \in Paths, t \in {INODE_FILE, INODE_DIR} : Crear(h, p, t)
           \/ LlenarInodo(h) \/ Contar(h) \/ AddDentryToParentDir(h) \/ Descontar(h)
    PROVE  TamaniosOK'
<1>0. \A i \in Idx : inodes[i] \in Inodos
  BY DEF TypeOK
<1>1. LibreAlReescribir' /\ CabeDisco'
  <2>1. LibreAlReescribir'
    BY DEF UnHilo, LibreAlReescribir, Crear, LlenarInodo, Contar, AddDentryToParentDir, Descontar,
           OCIOSO, TypeOK, Pasos
  <2>2. UNCHANGED disco
    BY DEF Crear, LlenarInodo, Contar, AddDentryToParentDir, Descontar
  <2> QED
    BY <2>1, <2>2 DEF TamaniosOK, CabeDisco
<1>2. CASE LlenarInodo(h)
  <2> DEFINE k == hilo[h].idx
  <2>1. k \in Idx
    BY DEF TypeOK, Pasos
  <2>2. Cabe(inodes'[k])
    BY <1>2, <2>1, FileSystemAssumption DEF LlenarInodo, Inode, Cabe, CabeTexto, TypeOK
  <2>3. \A i \in Idx : i # k => inodes'[i] = inodes[i] /\ inode_bitmap'[i] = inode_bitmap[i]
    BY <1>2, <2>1 DEF LlenarInodo, TypeOK
  <2> HIDE DEF k
  <2> QED
    BY <1>1, <2>1, <2>2, <2>3, SizesKept
<1>3. CASE AddDentryToParentDir(h)
  <2> DEFINE p == hilo[h].path
             padre == SearchInode(Padre(p))
  <2>1. UNCHANGED inode_bitmap
    BY <1>3 DEF AddDentryToParentDir
  <2>2. CASE padre # ERROR /\ inodes[padre].type = INODE_DIR
    <3>1. padre \in Idx /\ inode_bitmap[padre] = 1
      BY <2>2, SearchInodeFinds DEF Coincide
    <3>2. Nombre(p) \in Names
      BY <1>3, PathParts DEF AddDentryToParentDir, TypeOK, Pasos
    <3>3. Cabe(inodes[padre])
      BY <3>1 DEF TamaniosOK, Usados
    <3>4. inodes' = [inodes EXCEPT ![padre] = ConEntrada(inodes[padre], Nombre(p))]
      BY <1>3, <2>2 DEF AddDentryToParentDir
    <3>5. Cabe(ConEntrada(inodes[padre], Nombre(p)))
      BY <1>0, <2>2, <3>1, <3>2, <3>3, EntryFits
    <3> HIDE DEF padre, p
    <3>6. /\ Cabe(inodes'[padre])
          /\ \A i \in Idx : i # padre => inodes'[i] = inodes[i]
      BY <3>1, <3>4, <3>5 DEF TypeOK
    <3> QED
      BY <1>1, <2>1, <3>1, <3>6, SizesKept
  <2>3. CASE ~(padre # ERROR /\ inodes[padre].type = INODE_DIR)
    <3>1. UNCHANGED inodes
      BY <1>3, <2>3 DEF AddDentryToParentDir
    <3> QED
      BY <1>1, <2>1, <3>1, SizesKept
  <2> QED
    BY <2>2, <2>3
<1>4. CASE \/ \E p \in Paths, t \in {INODE_FILE, INODE_DIR} : Crear(h, p, t)
           \/ Contar(h) \/ Descontar(h)
  <2>1. UNCHANGED <<inodes, inode_bitmap>>
    BY <1>4 DEF Crear, Contar, Descontar, tabla
  <2> QED
    BY <1>1, <2>1, SizesKept
<1> QED
  BY <1>2, <1>3, <1>4

LEMMA RemoveStepSizes ==
    ASSUME UnHilo, TypeOK, TamaniosOK, NEW h \in Hilos,
           ReescribirPadre(h) \/ \E p \in Paths : Quitar(h, p)
    PROVE  TamaniosOK'
<1>0. \A i \in Idx : inodes[i] \in Inodos
  BY DEF TypeOK
<1>1. CASE ReescribirPadre(h)
  <2> DEFINE p == hilo[h].path
             padre == SearchInode(Padre(p))
  <2>1. UNCHANGED <<inode_bitmap, disco>> /\ inode_bitmap[hilo[h].idx] = 0
    BY <1>1 DEF ReescribirPadre, TamaniosOK, LibreAlReescribir
  <2>2. LibreAlReescribir' /\ CabeDisco'
    <3>1. LibreAlReescribir'
      BY <1>1 DEF UnHilo, LibreAlReescribir, ReescribirPadre, OCIOSO, TypeOK, Pasos
    <3> QED
      BY <2>1, <3>1 DEF TamaniosOK, CabeDisco
  <2>3. CASE padre = ERROR
    <3>1. UNCHANGED inodes
      BY <1>1, <2>3 DEF ReescribirPadre
    <3> QED
      BY <2>1, <2>2, <3>1, SizesKept
  <2>4. CASE padre # ERROR
    <3>1. padre \in Idx /\ inode_bitmap[padre] = 1 /\ hilo[h].idx \in Idx
      BY <2>4, SearchInodeFinds DEF Coincide, TypeOK, Pasos
    <3>2. Nombre(p) \in Names
      BY <1>1, PathParts DEF ReescribirPadre, TypeOK, Pasos
    <3>3. inodes' = Reescrita(padre, hilo[h].idx, Nombre(p))
      BY <1>1, <2>4 DEF ReescribirPadre, Reescrita
    <3>4. padre # hilo[h].idx
      <4> HIDE DEF padre
      <4> QED BY <2>1, <3>1
    <3>5. Cabe(SinEntrada(inodes[padre], Nombre(p)))
      <4>1. Cabe(inodes[padre])
        BY <3>1 DEF TamaniosOK, Usados
      <4> HIDE DEF padre, p
      <4> QED BY <1>0, <3>1, <3>2, <4>1, EntryFits
    <3> HIDE DEF padre, p
    <3>6. /\ inodes'[padre] = SinEntrada(inodes[padre], Nombre(p))
          /\ \A i \in Idx : i # padre /\ i # hilo[h].idx => inodes'[i] = inodes[i]
      BY <3>1, <3>2, <3>3, <3>4, RewriteTypes
    <3> QED
      BY <2>1, <2>2, <3>1, <3>5, <3>6, SizesKept
  <2> QED
    BY <2>3, <2>4
<1>2. ASSUME NEW p \in Paths, Quitar(h, p)
      PROVE  TamaniosOK'
  <2>1. SearchInode(p) \in Idx
    BY <1>2, SearchInodeFinds DEF Quitar, Resuelve
  <2>2. \A i \in Idx : inode_bitmap'[i] = 1 => inode_bitmap[i] = 1 /\ inodes'[i] = inodes[i]
    BY <1>2, <2>1 DEF Quitar, TypeOK
  <2>3. inode_bitmap'[hilo'[h].idx] = 0
    BY <1>2, <2>1 DEF Quitar, TypeOK
  <2>4. LibreAlReescribir' /\ CabeDisco'
    BY <1>2, <2>3 DEF UnHilo, LibreAlReescribir, Quitar, TamaniosOK, CabeDisco
  <2> QED
    BY <2>2, <2>4, SizesKept
<1> QED
  BY <1>1, <1>2

LEMMA EscribirSizes ==
    ASSUME TypeOK, TamaniosOK, NEW p, NEW off \in 0 .. MAX_SIZE, NEW n \in 1 .. MAX_SIZE,
           Escribir(p, off, n)
    PROVE  TamaniosOK'
<1> DEFINE i == SearchInode(p)
           c == IF off + n > inodes[i].size THEN off + n ELSE inodes[i].cap
<1>1. i \in Idx /\ inode_bitmap[i] = 1 /\ inodes[i].type = INODE_FILE
  BY SearchInodeFinds DEF Escribir, Escribible, Resuelve, EsTipo, Coincide
<1>2. inodes[i] \in Inodos
  BY <1>1 DEF TypeOK
<1>3. inodes[i].size <= inodes[i].cap
  BY <1>1 DEF TamaniosOK, Usados, Cabe
<1>4. inodes' = [inodes EXCEPT ![i].cap = c, ![i].size = off + n]
  BY DEF Escribir
<1>5. off + n \in Int /\ inodes[i].size \in Int /\ inodes[i].cap \in Int
  <2>1. off + n \in Int
    BY FileSystemAssumption
  <2> HIDE DEF i
  <2> QED BY <1>2, <2>1 DEF Inodos
<1>6. off + n <= c
  <2> HIDE DEF i
  <2> QED BY <1>3, <1>5
<1>7. inodes'[i].size = off + n /\ inodes'[i].cap = c /\ inodes'[i].type = INODE_FILE
  <2> HIDE DEF i, c
  <2> QED BY <1>1, <1>2, <1>4 DEF TypeOK, Inodos
<1>8. \A j \in Idx : j # i => inodes'[j] = inodes[j]
  <2> HIDE DEF i, c
  <2> QED BY <1>1, <1>4 DEF TypeOK
<1>9. UNCHANGED inode_bitmap /\ LibreAlReescribir' /\ CabeDisco'
  BY DEF Escribir, TamaniosOK, LibreAlReescribir, CabeDisco
<1> HIDE DEF i, c
<1> QED
  BY <1>1, <1>6, <1>7, <1>8, <1>9, SizesKept DEF Cabe, CabeTexto, INODE_FILE, INODE_DIR

LEMMA TruncarSizes ==
    ASSUME TypeOK, TamaniosOK, NEW p, NEW s \in 0 .. MAX_SIZE, Truncar(p, s)
    PROVE  TamaniosOK'
<1> DEFINE i == SearchInode(p)
           nuevo == IF s = 0 THEN INITIAL_CONTENT_LENGTH ELSE s
<1>1. i \in Idx /\ inodes[i] \in Inodos /\ inodes[i].type = INODE_FILE
  BY SearchInodeFinds DEF Truncar, Escribible, Resuelve, EsTipo, TypeOK
<1>2. nuevo \in Int
  BY FileSystemAssumption
<1>3. inodes' = [inodes EXCEPT ![i].cap = nuevo, ![i].size = nuevo]
  BY DEF Truncar
<1>4. inodes'[i].size = nuevo /\ inodes'[i].cap = nuevo /\ inodes'[i].type = INODE_FILE
  <2> HIDE DEF i, nuevo
  <2> QED BY <1>1, <1>3 DEF TypeOK, Inodos
<1>5. \A j \in Idx : j # i => inodes'[j] = inodes[j]
  <2> HIDE DEF i, nuevo
  <2> QED BY <1>1, <1>3 DEF TypeOK
<1>6. UNCHANGED inode_bitmap /\ LibreAlReescribir' /\ CabeDisco'
  BY DEF Truncar, TamaniosOK, LibreAlReescribir, CabeDisco
<1> HIDE DEF i, nuevo
<1> QED
  BY <1>1, <1>2, <1>4, <1>5, <1>6, SizesKept DEF Cabe, CabeTexto, INODE_FILE, INODE_DIR

\* The texts of the directories in an image fit too: they are those of the table, or
\* were lost.
LEMMA ImageFits ==
    ASSUME TypeOK, \A i \in Usados : CabeTexto(inodes[i])
    PROVE  /\ \A k \in 1 .. Len(Serializados) : CabeTexto(Serializados[k])
           /\ \A d \in ImagenesCortadas : \A k \in 1 .. Len(d.inodos) : CabeTexto(d.inodos[k])
<1>1. Serializados \in Seq(Inodos) /\ Len(Serializados) \in Nat
  BY ImageParts DEF TypeOK
<1>2. \A k \in 1 .. Len(Serializados) : CabeTexto(Serializados[k])
  <2> TAKE k \in 1 .. Len(Serializados)
  <2>1. PICK i \in Idx : EnImagen(i) /\ Serializados[k] = SinBuffer(inodes[i])
    BY ImageParts DEF TypeOK
  <2>2. inodes[i] \in Inodos /\ CabeTexto(inodes[i])
    BY <2>1 DEF EnImagen, Usados, TypeOK
  <2> QED
    BY <2>1, <2>2 DEF SinBuffer, CabeTexto, Inodos
<1>3. ASSUME NEW r \in Inodos, CabeTexto(r), NEW c \in InodosCortados(r)
      PROVE  CabeTexto(c)
  BY <1>3, CutInode DEF CabeTexto, Inodos
<1>4. ASSUME NEW d \in ImagenesCortadas, NEW m \in 1 .. Len(d.inodos)
      PROVE  CabeTexto(d.inodos[m])
  <2>1. CASE d = [amount |-> d.amount, inodos |-> << >>]
    <3>1. Len(d.inodos) = 0
      BY <2>1
    <3> QED
      BY <3>1
  <2>2. ASSUME NEW k \in 1 .. Len(Serializados), Len(d.inodos) = k,
               d.inodos[k] \in InodosCortados(Serializados[k]),
               \A j \in 1 .. k - 1 : d.inodos[j] = Serializados[j]
        PROVE  CabeTexto(d.inodos[m])
    <3>1. Serializados[k] \in Inodos /\ CabeTexto(Serializados[k])
      BY <1>1, <1>2
    <3>2. CASE m = k
      BY <1>3, <2>2, <3>1, <3>2
    <3>3. CASE m # k
      <4>1. m \in 1 .. k - 1 /\ m \in 1 .. Len(Serializados)
        BY <1>1, <2>2, <3>3
      <4> QED
        BY <1>2, <2>2, <4>1
    <3> QED
      BY <3>2, <3>3
  <2> QED
    BY <2>1, <2>2, CutParts
<1> QED
  BY <1>2, <1>4

LEMMA ServerSizes ==
    ASSUME TypeOK, TamaniosServidor,
           \/ Desmontar \/ DesmontarCortado \/ Crash \/ Formatear \/ Montar
           \/ \E k \in 0 .. INODES_AMOUNT : MontarConError(k)
    PROVE  TamaniosServidor'
<1>0. CabeDisco /\ \A i \in Usados : CabeTexto(inodes[i])
  BY DEF TamaniosServidor, TamaniosOK, Cabe
<1>1. LibreAlReescribir'
  <2>1. hilo' = [h \in Hilos |-> OCIOSO]
    BY DEF Desmontar, DesmontarCortado, Crash, Formatear, Montar, MontarConError, Apagar, Limpiar
  <2> QED
    BY <2>1 DEF LibreAlReescribir, OCIOSO
<1>2. CabeDisco'
  <2>1. CASE Desmontar
    BY <1>0, <2>1, ImageFits DEF Desmontar, Imagen, CabeDisco
  <2>2. CASE DesmontarCortado
    BY <1>0, <2>2, ImageFits DEF DesmontarCortado, CabeDisco
  <2>3. CASE Crash \/ Montar \/ \E k \in 0 .. INODES_AMOUNT : MontarConError(k)
    BY <1>0, <2>3 DEF Crash, Montar, MontarConError, CabeDisco
  <2>4. CASE Formatear
    BY <2>4 DEF Formatear, IMAGEN_VACIA, CabeDisco
  <2> QED
    BY <2>1, <2>2, <2>3, <2>4
<1>3. CASE Apagar
  <2>1. Usados' = {} /\ servidor' = "apagado"
    BY <1>3 DEF Apagar, Limpiar, Usados
  <2> QED
    BY <1>1, <1>2, <2>1 DEF TamaniosServidor
<1>4. CASE Formatear
  <2>1. Cabe(Inode(ROOT, INODE_DIR, INITIAL_CONTENT_LENGTH))
    BY FileSystemAssumption DEF Cabe, CabeTexto, Inode
  <2>2. servidor' = "montado"
        /\ \A i \in Usados' : inodes'[i] = Inode(ROOT, INODE_DIR, INITIAL_CONTENT_LENGTH)
    BY <1>4 DEF Formatear, Limpiar, Usados
  <2>3. \A i \in Usados' : Cabe(inodes'[i])
    BY <2>1, <2>2
  <2> QED
    BY <1>1, <1>2, <2>2, <2>3 DEF TamaniosServidor, TamaniosOK, Cabe, CabeTexto
<1>5. ASSUME NEW i \in Idx, i < Len(disco.inodos)
      PROVE  disco.inodos[i + 1] \in Inodos /\ CabeTexto(disco.inodos[i + 1])
  <2>1. i + 1 \in 1 .. Len(disco.inodos)
    BY <1>5, FileSystemAssumption DEF Idx, TypeOK, Imagenes
  <2> QED
    BY <1>0, <2>1 DEF TypeOK, Imagenes, CabeDisco
<1>6. CASE Montar
  <2>1. ASSUME NEW i \in Usados'
        PROVE  Cabe(inodes'[i])
    <3>1. Cargado(i) /\ i \in Idx
      BY <1>6, <2>1 DEF Montar, Limpiar, Usados
    <3>2. disco.inodos[i + 1] \in Inodos /\ CabeTexto(disco.inodos[i + 1])
      BY <1>5, <3>1 DEF Cargado
    <3>3. inodes'[i] = [disco.inodos[i + 1] EXCEPT !.cap = disco.inodos[i + 1].size]
      BY <1>6, <3>1 DEF Montar, Limpiar
    <3> QED
      BY <3>2, <3>3 DEF Inodos, Cabe, CabeTexto
  <2>2. servidor' = "montado"
    BY <1>6 DEF Montar
  <2> QED
    BY <1>1, <1>2, <2>1, <2>2 DEF TamaniosServidor, TamaniosOK, Cabe, CabeTexto
<1>7. ASSUME NEW k \in 0 .. INODES_AMOUNT, MontarConError(k)
      PROVE  TamaniosServidor'
  <2>1. ASSUME NEW i \in Usados'
        PROVE  CabeTexto(inodes'[i])
    <3>1. i < k /\ i \in Idx
      BY <1>7, <2>1 DEF MontarConError, Limpiar, Usados
    <3>2. i < Len(disco.inodos)
      BY <1>7, <3>1, FileSystemAssumption DEF MontarConError, Idx, TypeOK, Imagenes
    <3>3. disco.inodos[i + 1] \in Inodos /\ CabeTexto(disco.inodos[i + 1])
      BY <1>5, <3>1, <3>2
    <3>4. inodes'[i] = SinBuffer(disco.inodos[i + 1])
      BY <1>7, <3>1 DEF MontarConError, Limpiar
    <3> QED
      BY <3>3, <3>4 DEF SinBuffer, Inodos, CabeTexto
  <2>2. servidor' = "fallido"
    BY <1>7 DEF MontarConError
  <2> QED
    BY <1>1, <1>2, <2>1, <2>2 DEF TamaniosServidor, CabeTexto
<1> QED
  BY <1>3, <1>4, <1>6, <1>7 DEF Desmontar, DesmontarCortado, Crash

\* With one thread that changes names, no inode in use says more of its size than its
\* buffer has, whatever is written, truncated, added, removed, saved and mounted again
\* (fisopfs_write, fisopfs_truncate, add_dentry_to_content, deserialize), and no
\* directory has entries beyond its size; remove_inode frees no buffer in use.  Only a
\* mount that failed frees them all.
THEOREM FileSystemSizeWithinBuffer == UnHilo => (Spec => []SizeWithinBuffer)
<1> SUFFICES ASSUME UnHilo PROVE Spec => []SizeWithinBuffer
  OBVIOUS
<1>1. Init => TamaniosServidor
  BY DEF Init, OCIOSO, NO_EXISTE, TamaniosServidor, LibreAlReescribir, CabeDisco, Usados
<1>2. ASSUME TypeOK, Inactivo, TamaniosServidor, [Next]_vars
      PROVE  TamaniosServidor'
  <2>1. CASE UNCHANGED vars
    <3>1. UNCHANGED <<inodes, inode_bitmap, hilo, disco, servidor>>
      BY <2>1 DEF vars, tabla
    <3> QED
      BY <1>2, <3>1 DEF TamaniosServidor, TamaniosOK, LibreAlReescribir, CabeDisco, Usados,
                        Cabe, CabeTexto
  <2>2. ASSUME NEW h \in Hilos,
               \/ \E p \in Paths : \/ \E t \in {INODE_FILE, INODE_DIR} : Crear(h, p, t)
                                 \/ Quitar(h, p)
               \/ LlenarInodo(h) \/ Contar(h) \/ AddDentryToParentDir(h)
               \/ ReescribirPadre(h) \/ Descontar(h)
        PROVE  TamaniosServidor'
    <3>1. servidor = "montado" /\ UNCHANGED servidor
      BY <1>2, <2>2 DEF Inactivo, Crear, Quitar, LlenarInodo, Contar, AddDentryToParentDir,
                        ReescribirPadre, Descontar
    <3>2. TamaniosOK
      BY <1>2, <3>1 DEF TamaniosServidor
    <3>3. TamaniosOK'
      BY <1>2, <2>2, <3>2, NameStepSizes, RemoveStepSizes
    <3> QED
      BY <3>1, <3>3 DEF TamaniosServidor
  <2>3. ASSUME NEW p \in Paths,
               \/ \E off \in 0 .. MAX_SIZE, n \in 1 .. MAX_SIZE : Escribir(p, off, n)
               \/ \E s \in 0 .. MAX_SIZE : Truncar(p, s)
        PROVE  TamaniosServidor'
    <3>1. servidor = "montado" /\ UNCHANGED servidor
      BY <2>3 DEF Escribir, Truncar, Escribible
    <3>2. TamaniosOK
      BY <1>2, <3>1 DEF TamaniosServidor
    <3>3. TamaniosOK'
      BY <1>2, <2>3, <3>2, EscribirSizes, TruncarSizes
    <3> QED
      BY <3>1, <3>3 DEF TamaniosServidor
  <2>4. CASE \/ Desmontar \/ DesmontarCortado \/ Crash \/ Formatear \/ Montar
             \/ \E k \in 0 .. INODES_AMOUNT : MontarConError(k)
    BY <1>2, <2>4, ServerSizes
  <2> QED
    BY <1>2, <2>1, <2>2, <2>3, <2>4 DEF Next
<1>3. TamaniosServidor => SizeWithinBuffer
  BY DEF TamaniosServidor, TamaniosOK, SizeWithinBuffer, Cabe, CabeTexto
<1> QED
  BY <1>1, <1>2, <1>3, ServerIdle, FileSystemTypes, PTL DEF Spec

-----------------------------------------------------------------------------
\* The count.  Between the steps of a callback inode_amount is behind or ahead of
\* the table by the inode that the callback is about.

EnUso == Cardinality(Usados)
CuentaDelHilo(h) ==
    /\ hilo[h].pc \in {"ocioso", "llenar", "agregar"} => inode_amount >= EnUso
    /\ hilo[h].pc = "contar" => hilo[h].leido = inode_amount /\ inode_amount + 1 >= EnUso
    /\ hilo[h].pc \in {"reescribir", "descontar_quitado"} => inode_amount >= EnUso + 1
    /\ hilo[h].pc = "descontar_quitado" => hilo[h].leido = inode_amount
CuentaOK ==
    /\ Hilos = {} => inode_amount >= EnUso
    /\ \A h \in Hilos : CuentaDelHilo(h)
    /\ disco # NO_EXISTE => disco.amount >= Len(disco.inodos)
\* A mount that failed sets inode_amount to 0 with inodes in use.
CuentaServidor ==
    IF servidor # "fallido" THEN CuentaOK
    ELSE inode_amount = 0 /\ (disco # NO_EXISTE => disco.amount >= Len(disco.inodos))

LEMMA UsedFinite ==
    ASSUME TypeOK
    PROVE  IsFiniteSet(Usados) /\ EnUso \in Nat
<1>1. IsFiniteSet(Idx)
  BY FS_Interval, FileSystemAssumption DEF Idx
<1>2. Usados \subseteq Idx
  BY DEF Usados
<1>3. IsFiniteSet(Usados)
  BY <1>1, <1>2, FS_Subset
<1> QED
  BY <1>3, FS_CardinalityType DEF EnUso

LEMMA UsedFiniteNext ==
    ASSUME TypeOK'
    PROVE  IsFiniteSet(Usados') /\ EnUso' \in Nat
<1>1. IsFiniteSet(Idx)
  BY FS_Interval, FileSystemAssumption DEF Idx
<1>2. Usados' \subseteq Idx
  BY DEF Usados
<1>3. IsFiniteSet(Usados')
  BY <1>1, <1>2, FS_Subset
<1> QED
  BY <1>3, FS_CardinalityType DEF EnUso

\* With no more slots than indices below n in use, no more than n are.
LEMMA BelowCount ==
    ASSUME NEW S \in SUBSET Idx, NEW n \in Nat, \A i \in S : i < n
    PROVE  IsFiniteSet(S) /\ Cardinality(S) <= n
<1>1. S \subseteq 0 .. n - 1
  BY FileSystemAssumption DEF Idx
<1>2. IsFiniteSet(0 .. n - 1) /\ Cardinality(0 .. n - 1) = n
  BY FS_Interval
<1> QED
  BY <1>1, <1>2, FS_Subset

LEMMA LlenarInodoCount ==
    ASSUME UnHilo, TypeOK, TypeOK', CuentaOK, NEW h \in Hilos, LlenarInodo(h)
    PROVE  CuentaOK'
<1> DEFINE k == hilo[h].idx
<1>1. Usados' = Usados \cup {k}
  <2>1. k \in Idx
    BY DEF TypeOK, Pasos
  <2>2. inode_bitmap \in [Idx -> {0, 1}] /\ inode_bitmap' = [inode_bitmap EXCEPT ![k] = 1]
    BY DEF TypeOK, LlenarInodo
  <2> HIDE DEF k
  <2> QED
    BY <2>1, <2>2 DEF Usados
<1>2. EnUso' <= EnUso + 1
  <2> HIDE DEF k
  <2>1. EnUso \in Nat /\ IsFiniteSet(Usados)
    BY UsedFinite
  <2>2. \/ Cardinality(Usados \cup {k}) = Cardinality(Usados)
        \/ Cardinality(Usados \cup {k}) = Cardinality(Usados) + 1
    BY <2>1, FS_AddElement
  <2>3. EnUso' = EnUso \/ EnUso' = EnUso + 1
    BY <1>1, <2>2 DEF EnUso
  <2> HIDE DEF EnUso
  <2> QED
    BY <2>1, <2>3
<1>3. EnUso \in Nat /\ EnUso' \in Nat /\ inode_amount \in Int
  BY UsedFinite, UsedFiniteNext DEF TypeOK
<1>4. inode_amount >= EnUso
  BY DEF LlenarInodo, CuentaOK, CuentaDelHilo
<1>5. hilo'[h].pc = "contar" /\ hilo'[h].leido = inode_amount /\ inode_amount' = inode_amount
  BY DEF LlenarInodo, TypeOK, Pasos
<1>6. CuentaDelHilo(h)'
  <2> HIDE DEF EnUso
  <2> QED BY <1>2, <1>3, <1>4, <1>5 DEF CuentaDelHilo
<1> QED
  BY <1>6 DEF UnHilo, CuentaOK, LlenarInodo

LEMMA QuitarCount ==
    ASSUME UnHilo, TypeOK, TypeOK', CuentaOK, NEW h \in Hilos, NEW p \in Paths, Quitar(h, p)
    PROVE  CuentaOK'
<1> DEFINE k == SearchInode(p)
<1>1. k \in Idx /\ inode_bitmap[k] = 1
  BY SearchInodeFinds DEF Quitar, Resuelve, Coincide
<1>2. Usados = Usados' \cup {k} /\ k \notin Usados'
  BY <1>1 DEF Quitar, TypeOK, Usados
<1>3. EnUso = EnUso' + 1
  BY <1>2, UsedFiniteNext, FS_AddElement DEF EnUso
<1>4. inode_amount >= EnUso
  BY DEF Quitar, Ocupado, CuentaOK, CuentaDelHilo
<1>5. hilo'[h].pc = "reescribir" /\ inode_amount' = inode_amount
  BY DEF Quitar, TypeOK
<1>6. CuentaDelHilo(h)'
  <2> HIDE DEF EnUso
  <2> QED BY <1>3, <1>4, <1>5 DEF CuentaDelHilo
<1> QED
  BY <1>6 DEF UnHilo, CuentaOK, Quitar

LEMMA CallbackCount ==
    ASSUME UnHilo, TypeOK, CuentaOK, NEW h \in Hilos,
           \/ \E p \in Paths, t \in {INODE_FILE, INODE_DIR} : Crear(h, p, t)
           \/ Contar(h) \/ AddDentryToParentDir(h) \/ ReescribirPadre(h) \/ Descontar(h)
    PROVE  CuentaOK'
<1>1. UNCHANGED <<inode_bitmap, disco>>
  BY DEF Crear, Contar, AddDentryToParentDir, ReescribirPadre, Descontar, tabla
<1>2. EnUso' = EnUso
  BY <1>1 DEF EnUso, Usados
<1>3. EnUso \in Nat /\ inode_amount \in Int
  BY UsedFinite DEF TypeOK
<1>4. CuentaDelHilo(h)
  BY DEF CuentaOK
<1>5. CuentaDelHilo(h)'
  <2>1. CASE \E p \in Paths, t \in {INODE_FILE, INODE_DIR} : Crear(h, p, t)
    <3>1. hilo[h].pc = "ocioso" /\ hilo'[h].pc = "llenar" /\ inode_amount' = inode_amount
      BY <2>1 DEF Crear, TypeOK, Ocupado, tabla
    <3> HIDE DEF EnUso
    <3> QED BY <1>2, <1>4, <3>1 DEF CuentaDelHilo
  <2>2. CASE Contar(h)
    <3>1. /\ hilo[h].pc = "contar" /\ hilo'[h].pc = "agregar"
          /\ inode_amount' = hilo[h].leido + 1
      BY <2>2 DEF Contar, TypeOK, Pasos
    <3> HIDE DEF EnUso
    <3> QED BY <1>2, <1>4, <3>1 DEF CuentaDelHilo
  <2>3. CASE AddDentryToParentDir(h)
    <3>1. hilo[h].pc = "agregar" /\ hilo'[h].pc = "ocioso" /\ inode_amount' = inode_amount
      BY <2>3 DEF AddDentryToParentDir, TypeOK, OCIOSO
    <3> HIDE DEF EnUso
    <3> QED BY <1>2, <1>4, <3>1 DEF CuentaDelHilo
  <2>4. CASE ReescribirPadre(h)
    <3>1. /\ hilo[h].pc = "reescribir" /\ inode_amount' = inode_amount
          /\ \/ hilo'[h].pc = "ocioso"
             \/ hilo'[h].pc = "descontar_quitado" /\ hilo'[h].leido = inode_amount
      BY <2>4 DEF ReescribirPadre, TypeOK, Pasos, OCIOSO
    <3> HIDE DEF EnUso
    <3> QED BY <1>2, <1>3, <1>4, <3>1 DEF CuentaDelHilo
  <2>5. CASE Descontar(h)
    <3>1. /\ hilo[h].pc = "descontar_quitado" /\ hilo'[h].pc = "ocioso"
          /\ inode_amount' = hilo[h].leido - 1
      BY <2>5 DEF Descontar, TypeOK, OCIOSO
    <3> HIDE DEF EnUso
    <3> QED BY <1>2, <1>3, <1>4, <3>1 DEF CuentaDelHilo
  <2> QED
    BY <2>1, <2>2, <2>3, <2>4, <2>5
<1> QED
  BY <1>1, <1>5 DEF UnHilo, CuentaOK

\* No image has more inodes than its count says.
LEMMA UnmountCount ==
    ASSUME TypeOK, TypeOK', CuentaServidor, Desmontar \/ DesmontarCortado \/ Crash
    PROVE  CuentaServidor'
<1>1. Apagar
  BY DEF Desmontar, DesmontarCortado, Crash
<1>2. /\ inode_amount' = 0 /\ \A h \in Hilos : hilo'[h].pc = "ocioso"
      /\ servidor' = "apagado"
  BY <1>1 DEF Apagar, Limpiar, OCIOSO
<1>3. EnUso' = 0
  <2>1. Usados' = {}
    BY <1>1 DEF Apagar, Limpiar, Usados
  <2> QED
    BY <2>1, FS_EmptySet DEF EnUso
<1>4. disco' # NO_EXISTE => disco'.amount >= Len(disco'.inodos)
  <2>1. CASE Crash
    BY <2>1 DEF Crash, CuentaServidor, CuentaOK
  <2>2. CASE Desmontar \/ DesmontarCortado
    <3>1. EnUso \in Nat /\ inode_amount \in Int /\ IsFiniteSet(Usados)
      BY UsedFinite DEF TypeOK
    <3>2. inode_amount >= EnUso \/ inode_amount = 0
      BY <2>2 DEF Desmontar, DesmontarCortado, Ocupado, CuentaServidor, CuentaOK, CuentaDelHilo
    <3>3. Serializados \in Seq(Inodos) /\ Len(Serializados) = Cardinality({i \in Idx : EnImagen(i)})
      BY ImageParts DEF TypeOK
    <3>5. Len(Serializados) \in Nat /\ Len(Serializados) <= inode_amount
      <4>1. CASE inode_amount >= EnUso
        <5>1. {i \in Idx : EnImagen(i)} \subseteq Usados
          BY DEF EnImagen, Usados
        <5>2. Len(Serializados) <= EnUso
          BY <3>1, <3>3, <5>1, FS_Subset DEF EnUso
        <5>3. Len(Serializados) \in Nat
          BY <3>3
        <5> HIDE DEF EnUso
        <5> QED BY <3>1, <4>1, <5>2, <5>3
      <4>2. CASE inode_amount = 0
        <5>1. \A i \in Idx : ~EnImagen(i)
          BY <4>2, FileSystemAssumption DEF EnImagen, Idx
        <5>2. {i \in Idx : EnImagen(i)} = {}
          BY <5>1
        <5> QED
          BY <3>3, <4>2, <5>2, FS_EmptySet
      <4> QED
        BY <3>2, <4>1, <4>2
    <3>6. CASE Desmontar
      BY <3>5, <3>6 DEF Desmontar, Imagen
    <3>7. CASE DesmontarCortado
      <4>1. disco' \in ImagenesCortadas /\ inode_amount \in Nat
        BY <3>1, <3>5, <3>7 DEF DesmontarCortado
      <4>2. CASE disco' = [amount |-> disco'.amount, inodos |-> << >>]
        <5>1. disco'.amount \in Nat
          BY <4>1, CutParts
        <5>2. Len(disco'.inodos) = 0
          BY <4>2
        <5> QED
          BY <5>1, <5>2
      <4>3. ASSUME NEW k \in 1 .. Len(Serializados), Len(disco'.inodos) = k,
                   disco' = [amount |-> inode_amount, inodos |-> disco'.inodos]
            PROVE  disco'.amount >= Len(disco'.inodos)
        <5>1. disco'.amount = inode_amount
          BY <4>3
        <5> QED
          BY <3>1, <3>5, <4>3, <5>1
      <4> QED
        BY <4>1, <4>2, <4>3, CutParts
    <3> QED
      BY <2>2, <3>6, <3>7
  <2> QED
    BY <2>1, <2>2
<1>5. inode_amount' >= EnUso'
  BY <1>2, <1>3
<1> QED
  BY <1>2, <1>4, <1>5 DEF CuentaServidor, CuentaOK, CuentaDelHilo

LEMMA MountCount ==
    ASSUME TypeOK, TypeOK', CuentaOK, Formatear \/ Montar
    PROVE  CuentaOK'
<1>1. \A h \in Hilos : hilo'[h].pc = "ocioso"
  BY DEF Formatear, Montar, Limpiar, OCIOSO
<1>2. inode_amount' >= EnUso' /\ (disco' # NO_EXISTE => disco'.amount >= Len(disco'.inodos))
  <2>1. CASE Formatear
    <3>1. Usados' \in SUBSET Idx /\ inode_amount' = 1 /\ \A i \in Usados' : i < 1
      BY <2>1 DEF Formatear, Limpiar, Usados
    <3>2. EnUso' <= 1
      BY <3>1, BelowCount DEF EnUso
    <3>3. disco' = IMAGEN_VACIA
      BY <2>1 DEF Formatear
    <3> QED
      BY <3>1, <3>2, <3>3, UsedFiniteNext DEF IMAGEN_VACIA
  <2>2. CASE Montar
    <3> DEFINE n == Len(disco.inodos)
    <3>1. n \in Nat
      BY DEF TypeOK, Imagenes
    <3>2. Usados' \in SUBSET Idx /\ \A i \in Usados' : i < n
      BY <2>2 DEF Montar, Limpiar, Usados, Cargado
    <3>3. EnUso' <= n
      <4> HIDE DEF n
      <4> QED BY <3>1, <3>2, BelowCount DEF EnUso
    <3>4. inode_amount' = disco.amount /\ disco.amount >= n /\ UNCHANGED disco
      BY <2>2 DEF Montar, Limpiar, CuentaOK
    <3>5. disco.amount \in Int /\ EnUso' \in Nat
      BY UsedFiniteNext DEF TypeOK, Imagenes
    <3> HIDE DEF EnUso
    <3> QED BY <3>1, <3>3, <3>4, <3>5
  <2> QED
    BY <2>1, <2>2
<1> QED
  BY <1>1, <1>2 DEF CuentaOK, CuentaDelHilo

\* With one thread that changes names, inode_amount is never below the number of
\* inodes in use between callbacks (create_inode, remove_inode, deserialize), also
\* after saves that were cut short.
THEOREM FileSystemAmountCovers == UnHilo => (Spec => []AmountCovers)
<1> SUFFICES ASSUME UnHilo PROVE Spec => []AmountCovers
  OBVIOUS
<1>1. Init => CuentaServidor
  <2> SUFFICES ASSUME Init PROVE CuentaServidor
    OBVIOUS
  <2>1. Usados = {}
    BY DEF Init, Usados
  <2>2. EnUso = 0
    BY <2>1, FS_EmptySet DEF EnUso
  <2>3. inode_amount >= EnUso
    BY <2>2 DEF Init
  <2>4. disco = NO_EXISTE /\ \A h \in Hilos : hilo[h].pc = "ocioso"
    BY DEF Init, OCIOSO
  <2> QED
    BY <2>3, <2>4 DEF Init, CuentaServidor, CuentaOK, CuentaDelHilo
<1>2. ASSUME TypeOK, TypeOK', CuentaOK, [Next]_vars, UNCHANGED servidor,
             servidor # "fallido"
      PROVE  CuentaOK'
  <2>1. ASSUME UNCHANGED <<inode_bitmap, inode_amount, hilo, disco>>
        PROVE  CuentaOK'
    BY <1>2, <2>1 DEF CuentaOK, CuentaDelHilo, EnUso, Usados
  <2>2. CASE UNCHANGED vars
    BY <2>1, <2>2 DEF vars, tabla
  <2>3. ASSUME NEW p \in Paths,
               \/ \E off \in 0 .. MAX_SIZE, n \in 1 .. MAX_SIZE : Escribir(p, off, n)
               \/ \E s \in 0 .. MAX_SIZE : Truncar(p, s)
        PROVE  CuentaOK'
    BY <2>1, <2>3 DEF Escribir, Truncar
  <2>4. ASSUME NEW h \in Hilos, NEW p \in Paths, Quitar(h, p)
        PROVE  CuentaOK'
    BY <1>2, <2>4, QuitarCount
  <2>5. ASSUME NEW h \in Hilos, LlenarInodo(h)
        PROVE  CuentaOK'
    BY <1>2, <2>5, LlenarInodoCount
  <2>6. ASSUME NEW h \in Hilos,
               \/ \E p \in Paths, t \in {INODE_FILE, INODE_DIR} : Crear(h, p, t)
               \/ Contar(h) \/ AddDentryToParentDir(h) \/ ReescribirPadre(h) \/ Descontar(h)
        PROVE  CuentaOK'
    BY <1>2, <2>6, CallbackCount
  <2>7. CASE \/ Desmontar \/ DesmontarCortado \/ Crash \/ Formatear \/ Montar
             \/ \E k \in 0 .. INODES_AMOUNT : MontarConError(k)
    BY <1>2, <2>7 DEF Desmontar, DesmontarCortado, Crash, Formatear, Montar, MontarConError,
                      Montable, Apagar
  <2> QED
    BY <1>2, <2>2, <2>3, <2>4, <2>5, <2>6, <2>7 DEF Next
<1>3. ASSUME TypeOK, TypeOK', Inactivo, CuentaServidor, [Next]_vars
      PROVE  CuentaServidor'
  <2>1. CASE Desmontar \/ DesmontarCortado \/ Crash
    BY <1>3, <2>1, UnmountCount
  <2>2. CASE Formatear \/ Montar
    <3>1. servidor = "apagado" /\ servidor' = "montado"
      BY <2>2 DEF Formatear, Montar, Montable
    <3>2. CuentaOK'
      BY <1>3, <2>2, <3>1, MountCount DEF CuentaServidor
    <3> QED
      BY <3>1, <3>2 DEF CuentaServidor
  <2>3. ASSUME NEW k \in 0 .. INODES_AMOUNT, MontarConError(k)
        PROVE  CuentaServidor'
    <3>1. servidor = "apagado" /\ servidor' = "fallido" /\ inode_amount' = 0 /\ UNCHANGED disco
      BY <2>3 DEF MontarConError, Montable, Limpiar
    <3> QED
      BY <1>3, <3>1 DEF CuentaServidor, CuentaOK
  <2>4. ASSUME NEW h \in Hilos,
               \/ \E p \in Paths : \/ \E t \in {INODE_FILE, INODE_DIR} : Crear(h, p, t)
                                 \/ Quitar(h, p)
               \/ LlenarInodo(h) \/ Contar(h) \/ AddDentryToParentDir(h)
               \/ ReescribirPadre(h) \/ Descontar(h)
        PROVE  servidor = "montado" /\ UNCHANGED servidor
    BY <1>3, <2>4 DEF Inactivo, Crear, Quitar, LlenarInodo, Contar, AddDentryToParentDir,
                      ReescribirPadre, Descontar
  <2>5. ASSUME NEW p \in Paths,
               \/ \E off \in 0 .. MAX_SIZE, n \in 1 .. MAX_SIZE : Escribir(p, off, n)
               \/ \E s \in 0 .. MAX_SIZE : Truncar(p, s)
        PROVE  servidor = "montado" /\ UNCHANGED servidor
    BY <2>5 DEF Escribir, Truncar, Escribible
  <2>6. CASE servidor = "montado" /\ UNCHANGED servidor
    BY <1>2, <1>3, <2>6 DEF CuentaServidor
  <2>7. CASE UNCHANGED vars
    BY <1>3, <2>7 DEF vars, tabla, CuentaServidor, CuentaOK, CuentaDelHilo, EnUso, Usados
  <2> QED
    BY <1>3, <2>1, <2>2, <2>3, <2>4, <2>5, <2>6, <2>7 DEF Next
<1>4. TypeOK /\ CuentaServidor => AmountCovers
  BY DEF CuentaServidor, CuentaOK, CuentaDelHilo, AmountCovers, Ocupado, EnUso
<1> QED
  BY <1>1, <1>3, <1>4, ServerIdle, FileSystemTypes, PTL DEF Spec

-----------------------------------------------------------------------------
\* The tree, as facts about the slots of the table: what TreeConsistent says, what a
\* callback knows between its steps, and that the saved tree was in order.

TieneMadre(i) ==
    \E j \in Usados : /\ inodes[j].path = Padre(inodes[i].path) /\ inodes[j].type = INODE_DIR
                      /\ inodes[j].dentries[Nombre(inodes[i].path)] > 0
ConHijo(j, n) == \E i \in Usados : inodes[i].path = Append(inodes[j].path, n)
TablaOK ==
    /\ \A i \in Usados :
        inodes[i].path = ROOT \/ EnCamino(inodes[i].path) \/ TieneMadre(i)
    /\ \A j \in Usados, n \in Names : inodes[j].dentries[n] > 0 =>
        /\ inodes[j].dentries[n] = 1
        /\ Saliendo(Append(inodes[j].path, n)) \/ ConHijo(j, n)

MadreDe(p, i) == inodes[i].path = Padre(p) /\ inodes[i].type = INODE_DIR
CreandoOK(h) ==
    hilo[h].pc \in {"llenar", "contar", "agregar"} =>
        /\ hilo[h].path # ROOT
        /\ \E i \in Usados : /\ MadreDe(hilo[h].path, i)
                             /\ inodes[i].dentries[Nombre(hilo[h].path)] = 0
        /\ IF hilo[h].pc = "llenar"
           THEN inode_bitmap[hilo[h].idx] = 0
           ELSE \E i \in Usados : inodes[i].path = hilo[h].path
QuitandoOK(h) ==
    hilo[h].pc = "reescribir" =>
        /\ hilo[h].path # ROOT
        /\ \E i \in Usados : MadreDe(hilo[h].path, i)
        /\ \A i \in Usados : inodes[i].path # hilo[h].path

EnOrden(arbol) ==
    /\ \A r \in arbol :
        \/ r.path = ROOT
        \/ \E q \in arbol : /\ q.path = Padre(r.path) /\ q.type = INODE_DIR
                           /\ q.dentries[Nombre(r.path)] > 0
    /\ \A q \in arbol, n \in Names : q.dentries[n] > 0 =>
        /\ q.dentries[n] = 1
        /\ \E r \in arbol : r.path = Append(q.path, n)

ArbolOK ==
    sano /\ rutas => /\ TablaOK
                     /\ \A h \in Hilos : CreandoOK(h) /\ QuitandoOK(h)
                     /\ EnOrden(guardado.arbol)

\* What Arbol shows of a slot.
LEMMA TreeParts ==
    ASSUME TypeOK
    PROVE  \A i \in Usados :
                /\ i \in Idx /\ inodes[i] \in Inodos /\ Visto(inodes[i]) \in Arbol
                /\ Visto(inodes[i]).path = inodes[i].path
                /\ Visto(inodes[i]).type = inodes[i].type
                /\ Visto(inodes[i]).dentries = inodes[i].dentries
  BY DEF TypeOK, Usados, Arbol, Visto

LEMMA TreeOfTable ==
    ASSUME TypeOK, ArbolOK
    PROVE  TreeConsistent
<1> SUFFICES ASSUME sano, rutas PROVE TreeConsistent
  BY DEF TreeConsistent
<1>1. TablaOK
  BY DEF ArbolOK
<1>2. \A r \in Arbol : \E i \in Usados : r = Visto(inodes[i])
  BY DEF Arbol
<1>3. ASSUME NEW i \in Usados
      PROVE  \/ inodes[i].path = ROOT
             \/ EnCamino(inodes[i].path)
             \/ \E q \in Arbol : /\ q.path = Padre(inodes[i].path) /\ q.type = INODE_DIR
                                /\ q.dentries[Nombre(inodes[i].path)] > 0
  BY <1>1, TreeParts DEF TablaOK, TieneMadre
<1>4. ASSUME NEW j \in Usados, NEW n \in Names, inodes[j].dentries[n] > 0
      PROVE  /\ inodes[j].dentries[n] = 1
             /\ \/ Saliendo(Append(inodes[j].path, n))
                \/ \E r \in Arbol : r.path = Append(inodes[j].path, n)
  BY <1>1, <1>4, TreeParts DEF TablaOK, ConHijo
<1>5. \A r \in Arbol :
        \/ r.path = ROOT
        \/ EnCamino(r.path)
        \/ \E q \in Arbol : /\ q.path = Padre(r.path) /\ q.type = INODE_DIR
                           /\ q.dentries[Nombre(r.path)] > 0
  BY <1>2, <1>3, TreeParts
<1>6. \A q \in Arbol, n \in Names : q.dentries[n] > 0 =>
        /\ q.dentries[n] = 1
        /\ Saliendo(Append(q.path, n)) \/ \E r \in Arbol : r.path = Append(q.path, n)
  BY <1>2, <1>4, TreeParts
<1> QED
  BY <1>5, <1>6 DEF TreeConsistent

\* Without a callback under way the tree is in order.
LEMMA IdleTree ==
    ASSUME TypeOK, ArbolOK, sano, rutas, \A h \in Hilos : hilo[h].pc = "ocioso"
    PROVE  EnOrden(Arbol)
<1>1. TreeConsistent
  BY TreeOfTable
<1>2. \A p : ~EnCamino(p) /\ ~Saliendo(p)
  BY DEF EnCamino, Saliendo
<1> QED
  BY <1>1, <1>2 DEF TreeConsistent, EnOrden

LEMMA LoadedTree ==
    ASSUME TypeOK', EnOrden(Arbol')
    PROVE  TablaOK'
<1>1. \A i \in Usados' :
            /\ Visto(inodes'[i]) \in Arbol'
            /\ Visto(inodes'[i]).path = inodes'[i].path
            /\ Visto(inodes'[i]).type = inodes'[i].type
            /\ Visto(inodes'[i]).dentries = inodes'[i].dentries
  BY DEF Arbol, Visto
<1>2. \A r \in Arbol' : \E i \in Usados' :
            r.path = inodes'[i].path /\ r.type = inodes'[i].type
            /\ r.dentries = inodes'[i].dentries
  BY DEF Arbol, Visto
<1>3. ASSUME NEW i \in Usados'
      PROVE  inodes'[i].path = ROOT \/ TieneMadre(i)'
  BY <1>1, <1>2 DEF EnOrden, TieneMadre
<1>4. ASSUME NEW j \in Usados', NEW n \in Names, inodes'[j].dentries[n] > 0
      PROVE  inodes'[j].dentries[n] = 1 /\ ConHijo(j, n)'
  <2> DEFINE q == Visto(inodes'[j])
  <2>1. /\ q \in Arbol' /\ q.path = inodes'[j].path /\ q.dentries = inodes'[j].dentries
    BY <1>1
  <2> HIDE DEF q
  <2>2. q.dentries[n] = 1 /\ \E r \in Arbol' : r.path = Append(q.path, n)
    BY <1>4, <2>1 DEF EnOrden
  <2>3. \E i \in Usados' : inodes'[i].path = Append(inodes'[j].path, n)
    BY <1>2, <2>1, <2>2
  <2> QED
    BY <2>1, <2>2, <2>3 DEF ConHijo
<1> QED
  BY <1>3, <1>4 DEF TablaOK

-----------------------------------------------------------------------------
\* Every step keeps it.

MismaTabla ==
    /\ UNCHANGED inode_bitmap
    /\ \A i \in Idx : /\ inodes'[i].path = inodes[i].path /\ inodes'[i].type = inodes[i].type
                      /\ inodes'[i].dentries = inodes[i].dentries

LEMMA SameTable ==
    ASSUME MismaTabla
    PROVE  /\ Usados' = Usados
           /\ \A i \in Usados : TieneMadre(i)' <=> TieneMadre(i)
           /\ \A j \in Usados : \A n : ConHijo(j, n)' <=> ConHijo(j, n)
           /\ \A p : \A i \in Usados : MadreDe(p, i)' <=> MadreDe(p, i)
  BY DEF MismaTabla, Usados, TieneMadre, ConHijo, MadreDe

\* Writing and truncating leave the tree alone.
LEMMA SizesTree ==
    ASSUME TypeOK, ArbolOK, NEW p,
           \/ \E off \in 0 .. MAX_SIZE, n \in 1 .. MAX_SIZE : Escribir(p, off, n)
           \/ \E s \in 0 .. MAX_SIZE : Truncar(p, s)
    PROVE  ArbolOK'
<1>1. \A i \in Idx : inodes[i] \in Inodos
  BY DEF TypeOK
<1>2. UNCHANGED <<inode_bitmap, hilo, guardado, sano, rutas>>
  BY DEF Escribir, Truncar, historia
<1>3. MismaTabla
  <2>1. ASSUME NEW off \in 0 .. MAX_SIZE, NEW n \in 1 .. MAX_SIZE, Escribir(p, off, n)
        PROVE  MismaTabla
    BY <1>1, <2>1 DEF Escribir, TypeOK, Inodos, MismaTabla
  <2>2. ASSUME NEW s \in 0 .. MAX_SIZE, Truncar(p, s)
        PROVE  MismaTabla
    BY <1>1, <2>2 DEF Truncar, TypeOK, Inodos, MismaTabla
  <2> QED
    BY <2>1, <2>2
<1>4. \A i \in Usados : /\ inodes'[i].path = inodes[i].path /\ inodes'[i].type = inodes[i].type
                        /\ inodes'[i].dentries = inodes[i].dentries
  BY <1>3 DEF MismaTabla, Usados
<1>5. \A q : (EnCamino(q)' <=> EnCamino(q)) /\ (Saliendo(q)' <=> Saliendo(q))
  BY <1>2 DEF EnCamino, Saliendo
<1>6. TablaOK => TablaOK'
  BY <1>3, <1>4, <1>5, SameTable DEF TablaOK
<1>7. \A h \in Hilos : (CreandoOK(h) => CreandoOK(h)') /\ (QuitandoOK(h) => QuitandoOK(h)')
  BY <1>2, <1>3, <1>4, SameTable DEF CreandoOK, QuitandoOK
<1> QED
  BY <1>2, <1>6, <1>7 DEF ArbolOK

LEMMA CrearTree ==
    ASSUME UnHilo, TypeOK, ArbolOK, NEW h \in Hilos, NEW p \in Paths,
           NEW t \in {INODE_FILE, INODE_DIR}, Crear(h, p, t)
    PROVE  ArbolOK'
<1> SUFFICES ASSUME sano, rutas PROVE ArbolOK'
  BY DEF Crear, historia, ArbolOK
<1>0. TablaOK /\ EnOrden(guardado.arbol)
  BY DEF ArbolOK
<1>1. UNCHANGED <<inodes, inode_bitmap, guardado, sano>>
  BY DEF Crear, tabla, historia
<1>2. /\ hilo'[h].pc = "llenar" /\ hilo'[h].path = p /\ hilo'[h].idx = SearchFreeInode
      /\ hilo[h].pc = "ocioso" /\ p \in Seq(Names) /\ p # ROOT
  BY PathsAreSeqs DEF Crear, Ocupado, TypeOK
<1>3. \A q : ~EnCamino(q) /\ ~Saliendo(q)
  BY <1>2 DEF UnHilo, EnCamino, Saliendo
<1>4. TablaOK'
  BY <1>0, <1>1, <1>3 DEF TablaOK, TieneMadre, ConHijo, Usados
<1>5. CreandoOK(h)'
  <2> DEFINE i == SearchInode(Padre(p))
  <2>1. i \in Usados /\ MadreDe(p, i)
    BY SearchInodeFinds DEF Crear, Resuelve, EsTipo, Usados, Coincide, MadreDe
  <2>2. Append(inodes[i].path, Nombre(p)) = p /\ Nombre(p) \in Names
    BY <1>2, <2>1, PathParts DEF MadreDe
  <2>3. \A j \in Usados : inodes[j].path # p
    BY SearchInodeFinds DEF Crear, Usados, Coincide
  <2>4. ~(inodes[i].dentries[Nombre(p)] > 0)
    <3> HIDE DEF i
    <3> QED BY <1>0, <1>3, <2>1, <2>2, <2>3 DEF TablaOK, ConHijo
  <2>5. inodes[i].dentries[Nombre(p)] \in Nat
    <3> HIDE DEF i
    <3> QED BY <2>1, <2>2, TreeParts DEF Inodos
  <2>6. inode_bitmap[SearchFreeInode] = 0
    BY SearchFreeInodeFinds DEF Crear
  <2> HIDE DEF i
  <2> QED
    BY <1>1, <1>2, <2>1, <2>4, <2>5, <2>6 DEF CreandoOK, MadreDe, Usados
<1>6. QuitandoOK(h)'
  BY <1>2 DEF QuitandoOK
<1> QED
  BY <1>0, <1>1, <1>4, <1>5, <1>6 DEF UnHilo, ArbolOK

LEMMA LlenarInodoTree ==
    ASSUME UnHilo, TypeOK, ArbolOK, NEW h \in Hilos, LlenarInodo(h)
    PROVE  ArbolOK'
<1> SUFFICES ASSUME sano, rutas PROVE ArbolOK'
  BY DEF LlenarInodo, historia, ArbolOK
<1>11. PICK k, p : k = hilo[h].idx /\ p = hilo[h].path
  OBVIOUS
<1>0. TablaOK /\ EnOrden(guardado.arbol) /\ CreandoOK(h)
  BY DEF ArbolOK
<1>1. /\ k \in Idx /\ p \in Seq(Names) /\ inode_bitmap[k] = 0 /\ p # ROOT
      /\ hilo[h].pc = "llenar" /\ UNCHANGED <<guardado, sano>>
  BY <1>0, <1>11 DEF LlenarInodo, historia, TypeOK, Pasos, CreandoOK
<1>2. /\ hilo'[h].pc = "contar" /\ hilo'[h].path = p
      /\ inodes'[k].path = p /\ inodes'[k].dentries = SIN_ENTRADAS /\ inode_bitmap'[k] = 1
      /\ \A i \in Idx : i # k => inodes'[i] = inodes[i] /\ inode_bitmap'[i] = inode_bitmap[i]
  BY <1>1, <1>11 DEF LlenarInodo, TypeOK, Pasos, Inode
<1>3. Usados' = Usados \cup {k} /\ k \notin Usados /\ \A i \in Usados : inodes'[i] = inodes[i]
  BY <1>1, <1>2 DEF Usados
<1>4. \A q : ~EnCamino(q) /\ ~Saliendo(q)
  BY <1>1 DEF UnHilo, EnCamino, Saliendo
<1>5. EnCamino(p)'
  BY <1>2 DEF EnCamino
<1>6. ASSUME NEW i \in Usados'
      PROVE  (inodes[i].path = ROOT \/ EnCamino(inodes[i].path) \/ TieneMadre(i))'
  <2>1. CASE i = k
    BY <1>2, <1>5, <2>1
  <2>2. CASE i # k
    <3>1. i \in Usados
      BY <1>3, <2>2
    <3>2. inodes[i].path = ROOT \/ TieneMadre(i)
      BY <1>0, <1>4, <3>1 DEF TablaOK
    <3> QED
      BY <1>3, <3>1, <3>2 DEF TieneMadre
  <2> QED
    BY <2>1, <2>2
<1>7. ASSUME NEW j \in Usados', NEW n \in Names, inodes'[j].dentries[n] > 0
      PROVE  inodes'[j].dentries[n] = 1 /\ ConHijo(j, n)'
  <2>1. j # k
    BY <1>2, <1>7 DEF SIN_ENTRADAS
  <2>2. j \in Usados
    BY <1>3, <2>1
  <2>3. inodes[j].dentries[n] = 1 /\ ConHijo(j, n)
    BY <1>0, <1>3, <1>4, <1>7, <2>2 DEF TablaOK
  <2> QED
    BY <1>3, <2>2, <2>3 DEF ConHijo
<1>8. TablaOK'
  BY <1>6, <1>7 DEF TablaOK
<1>9. CreandoOK(h)'
  <2>1. PICK i \in Usados : MadreDe(p, i) /\ inodes[i].dentries[Nombre(p)] = 0
    BY <1>0, <1>1, <1>11 DEF CreandoOK
  <2>2. i \in Usados' /\ MadreDe(p, i)' /\ inodes'[i].dentries[Nombre(p)] = 0
    BY <1>3, <2>1 DEF MadreDe
  <2> QED
    BY <1>1, <1>2, <1>3, <2>2 DEF CreandoOK, MadreDe
<1>10. QuitandoOK(h)'
  BY <1>2 DEF QuitandoOK
<1> QED
  BY <1>0, <1>1, <1>8, <1>9, <1>10 DEF UnHilo, ArbolOK

LEMMA CountTree ==
    ASSUME UnHilo, TypeOK, ArbolOK, NEW h \in Hilos, Contar(h) \/ Descontar(h)
    PROVE  ArbolOK'
<1>1. UNCHANGED <<inodes, inode_bitmap, guardado, sano, rutas>>
  BY DEF Contar, Descontar, historia
<1>2. \A q : (EnCamino(q)' <=> EnCamino(q)) /\ (Saliendo(q)' <=> Saliendo(q))
  BY DEF UnHilo, Contar, Descontar, OCIOSO, EnCamino, Saliendo, TypeOK, Pasos
<1>3. TablaOK => TablaOK'
  BY <1>1, <1>2 DEF TablaOK, TieneMadre, ConHijo, Usados
<1>4. CreandoOK(h) => CreandoOK(h)'
  <2>1. CASE Contar(h)
    <3>1. /\ hilo[h].pc = "contar" /\ hilo'[h].pc = "agregar"
          /\ hilo'[h].path = hilo[h].path
      BY <2>1 DEF Contar, TypeOK, Pasos
    <3> QED
      BY <1>1, <3>1 DEF CreandoOK, MadreDe, Usados
  <2>2. CASE Descontar(h)
    BY <2>2 DEF Descontar, OCIOSO, TypeOK, CreandoOK
  <2> QED
    BY <2>1, <2>2
<1>5. QuitandoOK(h)'
  BY DEF Contar, Descontar, OCIOSO, TypeOK, Pasos, QuitandoOK
<1> QED
  BY <1>1, <1>3, <1>4, <1>5 DEF UnHilo, ArbolOK

LEMMA AddDentryTree ==
    ASSUME UnHilo, TypeOK, PathsUnique, ArbolOK, NEW h \in Hilos, AddDentryToParentDir(h)
    PROVE  ArbolOK'
<1> SUFFICES ASSUME sano, rutas PROVE ArbolOK'
  BY DEF AddDentryToParentDir, historia, ArbolOK
<1>1. PICK p, padre, n : p = hilo[h].path /\ padre = SearchInode(Padre(p)) /\ n = Nombre(p)
  OBVIOUS
<1>2. TablaOK /\ EnOrden(guardado.arbol) /\ CreandoOK(h)
  BY DEF ArbolOK
<1>3. /\ p \in Seq(Names) /\ p # ROOT /\ hilo[h].pc = "agregar"
      /\ UNCHANGED <<inode_bitmap, guardado, sano>>
  BY <1>1, <1>2 DEF AddDentryToParentDir, historia, TypeOK, Pasos, CreandoOK
<1>4. padre \in Usados /\ MadreDe(p, padre) /\ inodes[padre].dentries[n] = 0 /\ padre # ERROR
  <2>1. PICK i \in Usados : MadreDe(p, i) /\ inodes[i].dentries[n] = 0
    BY <1>1, <1>2, <1>3 DEF CreandoOK
  <2>2. padre # ERROR /\ padre \in Usados /\ inodes[padre].path = Padre(p)
    BY <1>1, <2>1, SearchInodeFinds DEF Usados, Coincide, MadreDe
  <2>3. i = padre
    BY <2>1, <2>2 DEF PathsUnique, MadreDe
  <2> QED
    BY <2>1, <2>2, <2>3
<1>5. Append(inodes[padre].path, n) = p /\ n \in Names /\ p \in {inodes[i].path : i \in Usados}
  <2>1. Append(Padre(p), n) = p /\ n \in Names
    BY <1>1, <1>3, PathParts
  <2>2. \E i \in Usados : inodes[i].path = p
    BY <1>1, <1>2, <1>3 DEF CreandoOK
  <2> QED
    BY <1>4, <2>1, <2>2 DEF MadreDe
<1>6. /\ Usados' = Usados
      /\ \A i \in Usados : inodes'[i].path = inodes[i].path /\ inodes'[i].type = inodes[i].type
      /\ \A i \in Usados, m \in Names :
            inodes'[i].dentries[m] = IF i = padre /\ m = n THEN 1 ELSE inodes[i].dentries[m]
  <2>1. Usados' = Usados
    BY <1>3 DEF Usados
  <2>2. inodes' = [inodes EXCEPT ![padre] = ConEntrada(inodes[padre], n)]
    BY <1>1, <1>4 DEF AddDentryToParentDir, MadreDe
  <2>3. padre \in Idx /\ inodes[padre] \in Inodos /\ inodes[padre].dentries \in [Names -> Nat]
    BY <1>4, TreeParts DEF Usados, Inodos
  <2>4. \A i \in Usados : inodes'[i] =
            IF i = padre THEN ConEntrada(inodes[padre], n) ELSE inodes[i]
    BY <2>2, TreeParts DEF TypeOK
  <2>5. /\ ConEntrada(inodes[padre], n).path = inodes[padre].path
        /\ ConEntrada(inodes[padre], n).type = inodes[padre].type
        /\ ConEntrada(inodes[padre], n).dentries = ConNombre(inodes[padre].dentries, n)
    BY <1>4, <1>5, <2>3, EntryTypes
  <2>6. \A i \in Usados : inodes'[i].path = inodes[i].path /\ inodes'[i].type = inodes[i].type
    BY <2>4, <2>5
  <2>7. \A m \in Names :
            inodes'[padre].dentries[m] = IF m = n THEN 1 ELSE inodes[padre].dentries[m]
    <3>1. inodes'[padre].dentries = ConNombre(inodes[padre].dentries, n)
      BY <1>4, <2>4, <2>5
    <3>2. ConNombre(inodes[padre].dentries, n) = [inodes[padre].dentries EXCEPT ![n] = 1]
      BY <1>4 DEF ConNombre
    <3> QED
      BY <1>5, <2>3, <3>1, <3>2
  <2> QED
    BY <2>1, <2>4, <2>6, <2>7
<1>7. \A q : EnCamino(q) => q = p
  BY <1>1 DEF UnHilo, EnCamino
<1>8. \A q : ~Saliendo(q)
  BY <1>3 DEF UnHilo, Saliendo
<1>9. ASSUME NEW i \in Usados'
      PROVE  (inodes[i].path = ROOT \/ EnCamino(inodes[i].path) \/ TieneMadre(i))'
  <2>1. CASE inodes[i].path = p
    <3>1. /\ padre \in Usados' /\ inodes'[padre].path = Padre(inodes'[i].path)
          /\ inodes'[padre].type = INODE_DIR
          /\ inodes'[padre].dentries[Nombre(inodes'[i].path)] > 0
      BY <1>1, <1>4, <1>5, <1>6, <2>1 DEF MadreDe
    <3> QED
      BY <3>1 DEF TieneMadre
  <2>2. CASE TieneMadre(i) /\ inodes[i].path # ROOT
    <3>1. PICK j \in Usados : /\ inodes[j].path = Padre(inodes[i].path)
                              /\ inodes[j].type = INODE_DIR
                              /\ inodes[j].dentries[Nombre(inodes[i].path)] > 0
      BY <2>2 DEF TieneMadre
    <3>2. Nombre(inodes[i].path) \in Names
      BY <1>6, <2>2, TreeParts, PathParts DEF Inodos
    <3>3. inodes'[j].dentries[Nombre(inodes[i].path)] > 0
      BY <1>6, <3>1, <3>2
    <3> QED
      BY <1>6, <3>1, <3>3 DEF TieneMadre
  <2> QED
    BY <1>2, <1>6, <1>7, <2>1, <2>2 DEF TablaOK
<1>10. ASSUME NEW j \in Usados', NEW m \in Names, inodes'[j].dentries[m] > 0
       PROVE  inodes'[j].dentries[m] = 1 /\ ConHijo(j, m)'
  <2>1. CASE j = padre /\ m = n
    <3>1. padre \in Usados
      BY <1>4
    <3>2. inodes'[j].dentries[m] = 1 /\ inodes'[padre].path = inodes[padre].path
      BY <1>6, <2>1, <3>1
    <3>3. PICK i \in Usados : inodes[i].path = p
      BY <1>5
    <3>4. i \in Usados' /\ inodes'[i].path = Append(inodes'[j].path, m)
      BY <1>5, <1>6, <2>1, <3>2, <3>3
    <3> QED
      BY <3>2, <3>4 DEF ConHijo
  <2>2. CASE ~(j = padre /\ m = n)
    <3>1. inodes[j].dentries[m] = 1 /\ ConHijo(j, m)
      BY <1>2, <1>6, <1>8, <1>10, <2>2 DEF TablaOK
    <3> QED
      BY <1>6, <2>2, <3>1 DEF ConHijo
  <2> QED
    BY <2>1, <2>2
<1>11. TablaOK'
  BY <1>9, <1>10 DEF TablaOK
<1>12. CreandoOK(h)' /\ QuitandoOK(h)'
  BY DEF AddDentryToParentDir, OCIOSO, TypeOK, CreandoOK, QuitandoOK
<1> QED
  BY <1>2, <1>3, <1>11, <1>12 DEF UnHilo, ArbolOK

LEMMA QuitarTree ==
    ASSUME UnHilo, TypeOK, PathsUnique, ArbolOK, NEW h \in Hilos, NEW p \in Paths, Quitar(h, p)
    PROVE  ArbolOK'
<1> SUFFICES ASSUME sano, rutas PROVE ArbolOK'
  BY DEF Quitar, historia, ArbolOK
<1>1. PICK k : k = SearchInode(p)
  OBVIOUS
<1>2. TablaOK /\ EnOrden(guardado.arbol)
  BY DEF ArbolOK
<1>3. /\ k \in Usados /\ k \in Idx /\ inodes[k].path = p
      /\ p \in Seq(Names) /\ p # ROOT /\ hilo[h].pc = "ocioso"
      /\ UNCHANGED <<guardado, sano>>
  BY <1>1, SearchInodeFinds, PathsAreSeqs
     DEF Quitar, Resuelve, Usados, Coincide, Ocupado, historia
<1>4. /\ Usados' = Usados \ {k} /\ \A i \in Usados' : inodes'[i] = inodes[i]
      /\ hilo'[h].pc = "reescribir" /\ hilo'[h].path = p
  BY <1>1, <1>3 DEF Quitar, TypeOK, Usados
<1>5. \A q : ~EnCamino(q) /\ ~Saliendo(q)
  BY <1>3 DEF UnHilo, EnCamino, Saliendo
<1>6. Saliendo(p)'
  BY <1>4 DEF Saliendo
<1>7. inodes[k].type = INODE_DIR => \A n \in Names : ~(inodes[k].dentries[n] > 0)
  BY <1>1 DEF Quitar, Borrable, SIN_ENTRADAS
<1>8. ASSUME NEW i \in Usados'
      PROVE  (inodes[i].path = ROOT \/ TieneMadre(i))'
  <2>1. inodes[i].path = ROOT \/ TieneMadre(i)
    BY <1>2, <1>4, <1>5 DEF TablaOK
  <2>2. CASE inodes[i].path # ROOT
    <3>1. PICK j \in Usados : /\ inodes[j].path = Padre(inodes[i].path)
                              /\ inodes[j].type = INODE_DIR
                              /\ inodes[j].dentries[Nombre(inodes[i].path)] > 0
      BY <2>1, <2>2 DEF TieneMadre
    <3>2. Nombre(inodes[i].path) \in Names
      BY <1>4, <2>2, TreeParts, PathParts DEF Inodos
    <3>3. j # k
      BY <1>7, <3>1, <3>2
    <3> QED
      BY <1>4, <3>1, <3>3 DEF TieneMadre
  <2> QED
    BY <1>4, <2>2
<1>9. ASSUME NEW j \in Usados', NEW n \in Names, inodes'[j].dentries[n] > 0
      PROVE  /\ inodes'[j].dentries[n] = 1
             /\ (Saliendo(Append(inodes[j].path, n)) \/ ConHijo(j, n))'
  <2>1. inodes[j].dentries[n] = 1 /\ ConHijo(j, n)
    BY <1>2, <1>4, <1>5, <1>9 DEF TablaOK
  <2>2. PICK i \in Usados : inodes[i].path = Append(inodes[j].path, n)
    BY <2>1 DEF ConHijo
  <2>3. CASE i = k
    <3>1. Append(inodes'[j].path, n) = p
      BY <1>3, <1>4, <2>2, <2>3
    <3>2. \E g \in Hilos : hilo'[g].path = Append(inodes'[j].path, n)
                           /\ hilo'[g].pc = "reescribir"
      BY <1>4, <3>1
    <3> QED
      BY <1>4, <2>1, <3>2 DEF Saliendo
  <2>4. CASE i # k
    BY <1>4, <2>1, <2>2, <2>4 DEF ConHijo
  <2> QED
    BY <2>3, <2>4
<1>10. TablaOK'
  BY <1>8, <1>9 DEF TablaOK
<1>11. QuitandoOK(h)'
  <2>1. PICK m : m = SearchInode(Padre(p))
    OBVIOUS
  <2>2. EsTipo(Padre(p), INODE_DIR)
    <3>1. Len(p) \in Nat /\ Len(p) > 0
      BY <1>3, PathParts
    <3>2. Len(p) - 1 \in 0 .. Len(p) - 1
      BY <3>1
    <3>3. EsTipo(SubSeq(p, 1, Len(p) - 1), INODE_DIR)
      BY <3>2 DEF Quitar, Resuelve
    <3> QED
      BY <3>3 DEF Padre
  <2>3. m \in Usados /\ MadreDe(p, m)
    BY <2>1, <2>2, SearchInodeFinds DEF EsTipo, Usados, Coincide, MadreDe
  <2>4. Padre(p) # p
    <3>1. Len(Padre(p)) = Len(p) - 1 /\ Len(p) \in Nat
      BY <1>3, PathParts
    <3> QED
      BY <3>1
  <2>5. m \in Usados' /\ inodes'[m] = inodes[m]
    BY <1>3, <1>4, <2>3, <2>4 DEF MadreDe
  <2>6. \A i \in Usados' : inodes'[i].path # p
    BY <1>3, <1>4 DEF PathsUnique
  <2> QED
    BY <1>3, <1>4, <2>3, <2>5, <2>6 DEF QuitandoOK, MadreDe
<1>12. CreandoOK(h)'
  BY <1>4 DEF CreandoOK
<1> QED
  BY <1>2, <1>3, <1>10, <1>11, <1>12 DEF UnHilo, ArbolOK

LEMMA ReescribirTree ==
    ASSUME UnHilo, TypeOK, PathsUnique, ArbolOK, NEW h \in Hilos, ReescribirPadre(h)
    PROVE  ArbolOK'
<1> SUFFICES ASSUME sano, rutas PROVE ArbolOK'
  BY DEF ReescribirPadre, historia, ArbolOK
<1>1. PICK p, padre, n : p = hilo[h].path /\ padre = SearchInode(Padre(p)) /\ n = Nombre(p)
  OBVIOUS
<1>2. TablaOK /\ EnOrden(guardado.arbol) /\ QuitandoOK(h)
  BY DEF ArbolOK
<1>3. /\ p \in Seq(Names) /\ p # ROOT /\ hilo[h].pc = "reescribir"
      /\ UNCHANGED <<inode_bitmap, guardado, sano>>
      /\ \A i \in Usados : inodes[i].path # p
  BY <1>1, <1>2 DEF ReescribirPadre, historia, TypeOK, Pasos, QuitandoOK
<1>4. padre \in Usados /\ inodes[padre].path = Padre(p) /\ padre # ERROR
  <2>1. PICK i \in Usados : MadreDe(p, i)
    BY <1>1, <1>2, <1>3 DEF QuitandoOK
  <2> QED
    BY <1>1, <2>1, SearchInodeFinds DEF Usados, Coincide, MadreDe
<1>5. Append(inodes[padre].path, n) = p /\ n \in Names
  BY <1>1, <1>3, <1>4, PathParts
<1>6. /\ Usados' = Usados
      /\ \A i \in Usados : inodes'[i].path = inodes[i].path /\ inodes'[i].type = inodes[i].type
      /\ \A i \in Usados, m \in Names :
            inodes'[i].dentries[m] = IF i = padre /\ m = n THEN 0 ELSE inodes[i].dentries[m]
  <2>1. Usados' = Usados
    BY <1>3 DEF Usados
  <2>2. inodes' = Reescrita(padre, hilo[h].idx, n)
    BY <1>1, <1>4 DEF ReescribirPadre, Reescrita
  <2>3. padre \in Idx /\ hilo[h].idx \in Idx /\ inodes[padre] \in Inodos
        /\ inodes[padre].dentries \in [Names -> Nat]
    BY <1>4, TreeParts DEF Usados, Inodos, TypeOK, Pasos
  <2>4. /\ \A i \in Idx : /\ inodes'[i].path = inodes[i].path
                          /\ inodes'[i].type = inodes[i].type
        /\ \A i \in Idx : i # padre => inodes'[i].dentries = inodes[i].dentries
        /\ inodes'[padre].dentries = SinNombre(inodes[padre].dentries, n)
    BY <1>5, <2>2, <2>3, RewriteTypes
  <2>5. \A m \in Names :
            inodes'[padre].dentries[m] = IF m = n THEN 0 ELSE inodes[padre].dentries[m]
    BY <1>5, <2>3, <2>4 DEF SinNombre
  <2> QED
    BY <2>1, <2>4, <2>5 DEF Usados
<1>7. \A q : ~EnCamino(q)
  BY <1>3 DEF UnHilo, EnCamino
<1>8. \A q : Saliendo(q) => q = p
  BY <1>1 DEF UnHilo, Saliendo
<1>9. ASSUME NEW i \in Usados'
      PROVE  (inodes[i].path = ROOT \/ TieneMadre(i))'
  <2>1. inodes[i].path = ROOT \/ TieneMadre(i)
    BY <1>2, <1>6, <1>7 DEF TablaOK
  <2>2. CASE inodes[i].path # ROOT
    <3>1. PICK j \in Usados : /\ inodes[j].path = Padre(inodes[i].path)
                              /\ inodes[j].type = INODE_DIR
                              /\ inodes[j].dentries[Nombre(inodes[i].path)] > 0
      BY <2>1, <2>2 DEF TieneMadre
    <3>2. /\ Nombre(inodes[i].path) \in Names
          /\ Append(Padre(inodes[i].path), Nombre(inodes[i].path)) = inodes[i].path
      BY <1>6, <2>2, TreeParts, PathParts DEF Inodos
    <3>3. ~(j = padre /\ Nombre(inodes[i].path) = n)
      BY <1>3, <1>5, <1>6, <3>1, <3>2
    <3>4. inodes'[j].dentries[Nombre(inodes[i].path)] > 0
      BY <1>6, <3>1, <3>2, <3>3
    <3> QED
      BY <1>6, <3>1, <3>4 DEF TieneMadre
  <2> QED
    BY <1>6, <2>2
<1>10. ASSUME NEW j \in Usados', NEW m \in Names, inodes'[j].dentries[m] > 0
       PROVE  inodes'[j].dentries[m] = 1 /\ ConHijo(j, m)'
  <2>1. ~(j = padre /\ m = n) /\ inodes[j].dentries[m] > 0
    BY <1>6, <1>10
  <2>2. /\ inodes[j].dentries[m] = 1
        /\ Saliendo(Append(inodes[j].path, m)) \/ ConHijo(j, m)
    BY <1>2, <1>6, <2>1 DEF TablaOK
  <2>3. ~Saliendo(Append(inodes[j].path, m))
    <3>1. SUFFICES ASSUME Append(inodes[j].path, m) = p PROVE FALSE
      BY <1>8
    <3>2. inodes[j].path = Padre(p) /\ m = n
      <4>1. inodes[j].path \in Seq(Names)
        BY <1>6, TreeParts DEF Inodos
      <4> QED
        BY <1>1, <3>1, <4>1, ChildParts
    <3>3. j = padre
      BY <1>4, <1>6, <3>2 DEF PathsUnique
    <3> QED
      BY <2>1, <3>2, <3>3
  <2> QED
    BY <1>6, <2>1, <2>2, <2>3 DEF ConHijo
<1>11. TablaOK'
  BY <1>9, <1>10 DEF TablaOK
<1>12. CreandoOK(h)' /\ QuitandoOK(h)'
  BY <1>1, <1>4 DEF ReescribirPadre, TypeOK, Pasos, CreandoOK, QuitandoOK
<1> QED
  BY <1>2, <1>3, <1>11, <1>12 DEF UnHilo, ArbolOK

LEMMA ServerTree ==
    ASSUME TypeOK, TypeOK', ArbolOK,
           \/ Desmontar \/ DesmontarCortado \/ Crash \/ Formatear \/ Montar
           \/ \E k \in 0 .. INODES_AMOUNT : MontarConError(k)
    PROVE  ArbolOK'
<1> SUFFICES ASSUME sano', rutas' PROVE ArbolOK'
  BY DEF ArbolOK
<1>1. /\ sano /\ rutas
      /\ Desmontar \/ DesmontarCortado \/ Crash \/ Formatear \/ Montar
  BY DEF Desmontar, DesmontarCortado, Crash, Formatear, Montar, MontarConError, historia
<1>2. EnOrden(guardado.arbol)
  BY <1>1 DEF ArbolOK
<1>3. \A h \in Hilos : CreandoOK(h)' /\ QuitandoOK(h)'
  <2>1. hilo' = [h \in Hilos |-> OCIOSO]
    BY <1>1 DEF Desmontar, DesmontarCortado, Crash, Formatear, Montar, Apagar, Limpiar
  <2> QED
    BY <2>1 DEF OCIOSO, CreandoOK, QuitandoOK
<1>4. CASE Desmontar \/ DesmontarCortado \/ Crash
  <2>1. Usados' = {}
    <3>1. Apagar
      BY <1>4 DEF Desmontar, DesmontarCortado, Crash
    <3> QED
      BY <3>1 DEF Apagar, Limpiar, Usados
  <2>2. TablaOK'
    BY <2>1 DEF TablaOK
  <2>3. EnOrden(guardado'.arbol)
    <3>1. CASE Desmontar \/ DesmontarCortado
      <4>1. guardado'.arbol = Arbol /\ \A h \in Hilos : hilo[h].pc = "ocioso"
        <5>1. CASE Desmontar
          BY <5>1 DEF Desmontar, Ocupado
        <5>2. CASE DesmontarCortado
          BY <5>2 DEF DesmontarCortado, Ocupado
        <5> QED
          BY <3>1, <5>1, <5>2
      <4> QED
        BY <1>1, <4>1, IdleTree
    <3>2. CASE UNCHANGED guardado
      BY <1>2, <3>2
    <3> QED
      BY <1>4, <3>1, <3>2 DEF Crash, historia
  <2> QED
    BY <1>3, <2>2, <2>3 DEF ArbolOK
<1>5. CASE Formatear
  <2>1. /\ \A i \in Usados' : inodes'[i].path = ROOT /\ inodes'[i].dentries = SIN_ENTRADAS
        /\ UNCHANGED guardado
    BY <1>5 DEF Formatear, Limpiar, Usados, Inode
  <2>2. TablaOK'
    BY <2>1 DEF TablaOK, SIN_ENTRADAS
  <2> QED
    BY <1>2, <1>3, <2>1, <2>2 DEF ArbolOK
<1>6. CASE Montar
  <2>1. Arbol' = guardado.arbol /\ guardado'.arbol = Arbol'
    BY <1>6 DEF Montar
  <2>2. TablaOK'
    BY <1>2, <2>1, LoadedTree
  <2> QED
    BY <1>2, <1>3, <2>1, <2>2 DEF ArbolOK
<1> QED
  BY <1>1, <1>4, <1>5, <1>6

\* With one thread that changes names, and until a mount fails or restores less than
\* there was, the directories say what the table holds (add_dentry_to_parent_dir,
\* remove_inode), between the steps of a callback up to the entry it is working on.
THEOREM FileSystemTreeConsistent == UnHilo => (Spec => []TreeConsistent)
<1> SUFFICES ASSUME UnHilo PROVE Spec => []TreeConsistent
  OBVIOUS
<1>1. Init => ArbolOK
  BY DEF Init, OCIOSO, ArbolOK, TablaOK, Usados, CreandoOK, QuitandoOK, EnOrden
<1>2. ASSUME TypeOK, TypeOK', PathsUnique, ArbolOK, [Next]_vars
      PROVE  ArbolOK'
  <2>1. ASSUME NEW h \in Hilos, NEW p \in Paths, NEW t \in {INODE_FILE, INODE_DIR},
               Crear(h, p, t)
        PROVE  ArbolOK'
    BY <1>2, <2>1, CrearTree
  <2>2. ASSUME NEW h \in Hilos, NEW p \in Paths, Quitar(h, p)
        PROVE  ArbolOK'
    BY <1>2, <2>2, QuitarTree
  <2>3. ASSUME NEW h \in Hilos,
               LlenarInodo(h) \/ Contar(h) \/ AddDentryToParentDir(h)
                \/ ReescribirPadre(h) \/ Descontar(h)
        PROVE  ArbolOK'
    BY <1>2, <2>3, LlenarInodoTree, CountTree, AddDentryTree, ReescribirTree
  <2>4. ASSUME NEW p \in Paths,
               \/ \E off \in 0 .. MAX_SIZE, n \in 1 .. MAX_SIZE : Escribir(p, off, n)
               \/ \E s \in 0 .. MAX_SIZE : Truncar(p, s)
        PROVE  ArbolOK'
    BY <1>2, <2>4, SizesTree
  <2>5. CASE \/ Desmontar \/ DesmontarCortado \/ Crash \/ Formatear \/ Montar
             \/ \E k \in 0 .. INODES_AMOUNT : MontarConError(k)
    BY <1>2, <2>5, ServerTree
  <2>6. CASE UNCHANGED vars
    BY <1>2, <2>6 DEF vars, tabla, historia, ArbolOK, TablaOK, CreandoOK, QuitandoOK, EnOrden,
                      TieneMadre, ConHijo, MadreDe, EnCamino, Saliendo, Usados
  <2> QED
    BY <1>2, <2>1, <2>2, <2>3, <2>4, <2>5, <2>6 DEF Next
<1>3. TypeOK /\ ArbolOK => TreeConsistent
  BY TreeOfTable
<1> QED
  BY <1>1, <1>2, <1>3, FileSystemTypes, FileSystemPathsUnique, PTL DEF Spec
=============================================================================
