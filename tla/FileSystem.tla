----------------------------- MODULE FileSystem -----------------------------
(***************************************************************************)
(* The FUSE file system of file_system/: the inode table of fs.c, the      *)
(* callbacks of fisopfs.c that change it, mounting and unmounting with the *)
(* saved image, and a server that dies at any moment.                      *)
(*                                                                         *)
(* FUSE serves callbacks on several threads and the code takes no lock, so *)
(* a callback that changes names is a sequence of steps.  What the callers *)
(* guarantee is modelled as external: the kernel resolves every component  *)
(* of a path with fisopfs_getattr before it calls, holds the lock of the   *)
(* parent directory (and of a directory being removed) during the call,    *)
(* and libfuse does not remove a path that another call is using.          *)
(*                                                                         *)
(* A path is the sequence of its names, << >> being "/".  The bytes of a   *)
(* file, times, owners and permissions are left out.  Paths are shorter    *)
(* than MAX_PATH: fisopfs_getattr copies the path to a buffer of that size *)
(* before anything else looks at it.  A NUL one byte past a buffer         *)
(* (add_dentry_to_content at the end of the text and of the path,          *)
(* fisopfs_truncate, the text of a full directory in deserialize) goes     *)
(* unnoticed, since the allocator rounds blocks up, or the allocator       *)
(* aborts the server, which is a Crash.  Outside a mount malloc does not   *)
(* fail.                                                                   *)
(***************************************************************************)
EXTENDS Integers, Sequences, FiniteSets

CONSTANTS
    Hilos,                   \* threads that serve name changes
    Names,                   \* names of files and directories
    INODES_AMOUNT,           \* fs.h: size of the inode table
    INITIAL_CONTENT_LENGTH,  \* fs.h: bytes of a new buffer
    ENTRADA,                 \* bytes of a name and its newline; all are as long
    MAX_DEPTH,               \* bound: names in a path
    MAX_SIZE,                \* bound: bytes in a file
    MAX_MONTAJES             \* bound: times the file system is mounted

ASSUME FileSystemAssumption ==
    /\ INODES_AMOUNT \in Nat \ {0}
    /\ INITIAL_CONTENT_LENGTH \in Nat \ {0}
    /\ ENTRADA \in Nat \ {0}
    /\ MAX_SIZE \in Nat /\ MAX_SIZE >= INITIAL_CONTENT_LENGTH
    /\ MAX_DEPTH \in Nat
    /\ MAX_MONTAJES \in Nat

VARIABLES
    inodes,        \* superblock.inodes
    inode_bitmap,  \* superblock.inode_bitmap
    inode_amount,  \* superblock.inode_amount
    hilo,          \* what each thread is doing
    servidor,      \* "apagado", "montado", or "fallido": mounted, but deserialize failed
    disco,         \* the image in the persistence file
    montajes,      \* times mounted so far
    guardado,      \* history: the tree that the image should give back, and
                   \*   whether it was written whole from a table without holes
    sano,          \* history: every mount has restored all that was there
    rutas          \* history: no image was cut in the middle of a path

tabla == <<inodes, inode_bitmap, inode_amount>>
historia == <<montajes, guardado, sano, rutas>>
vars == <<tabla, hilo, servidor, disco, historia>>

ERROR == -1
Idx == 0 .. INODES_AMOUNT - 1
Paths == UNION {[1 .. n -> Names] : n \in 0 .. MAX_DEPTH}
ROOT == << >>
\* get_parent, of any path but the root's.
Padre(p) == SubSeq(p, 1, Len(p) - 1)
Nombre(p) == p[Len(p)]
Prefijo(p, q) == Len(p) <= Len(q) /\ SubSeq(q, 1, Len(p)) = p

INODE_FILE == "file"
INODE_DIR == "dir"

\* size and cap are what the inode and the allocator say of content: the bytes that
\* serialize writes, and those that there are.  Of the text of a directory, dentries
\* says how often each name is in it and largo its strlen.
SIN_ENTRADAS == [n \in Names |-> 0]
Inode(p, t, c) ==
    [path |-> p, type |-> t, dentries |-> SIN_ENTRADAS, largo |-> 0, size |-> 0, cap |-> c]
SIN_USAR == Inode(ROOT, INODE_FILE, 0)

ConNombre(dentries, nombre) == [dentries EXCEPT ![nombre] = @ + 1]
SinNombre(dentries, nombre) == [dentries EXCEPT ![nombre] = 0]

\* add_dentry_to_content: without room the buffer grows to new_size.
ConEntradaSinCrecer(r, nombre) ==   \* mutant: compares the length without the entry
    LET crece    == r.largo > r.size
        new_size == r.size + ENTRADA + INITIAL_CONTENT_LENGTH
    IN  [r EXCEPT !.dentries = ConNombre(@, nombre),
                  !.largo = @ + ENTRADA,
                  !.size = IF crece THEN new_size ELSE @,
                  !.cap = IF crece THEN new_size ELSE @]
ConEntrada(r, nombre) ==
    LET crece    == r.largo + ENTRADA > r.size
        new_size == r.size + ENTRADA + INITIAL_CONTENT_LENGTH
    IN  [r EXCEPT !.dentries = ConNombre(@, nombre),
                  !.largo = @ + ENTRADA,
                  !.size = IF crece THEN new_size ELSE @,
                  !.cap = IF crece THEN new_size ELSE @]

\* The loop of remove_inode, which copies every other entry to a buffer of size
\* bytes.  They fit, as they did in the old one.
SinEntrada(r, nombre) ==
    [r EXCEPT !.dentries = SinNombre(@, nombre),
              !.largo = @ - ENTRADA * r.dentries[nombre],
              !.cap = r.size]

\* The persistence file does not exist yet.
NO_EXISTE == [amount |-> -1, inodos |-> << >>]
IMAGEN_VACIA == [amount |-> 0, inodos |-> << >>]

OCIOSO == [pc |-> "ocioso", path |-> ROOT, type |-> INODE_FILE, idx |-> 0, leido |-> 0]

-----------------------------------------------------------------------------
\* search_inode: the first inode in use with that path.
Coincide(i, p) == inode_bitmap[i] = 1 /\ inodes[i].path = p
SearchInodeSalvoUltimo(p) ==    \* mutant: stops at INODES_AMOUNT - 1
    IF \E i \in Idx \ {INODES_AMOUNT - 1} : Coincide(i, p)
    THEN CHOOSE i \in Idx : Coincide(i, p)
    ELSE ERROR
SearchInode(p) ==
    LET iguales == {i \in Idx : Coincide(i, p)}
    IN  IF iguales = {} THEN ERROR
        ELSE CHOOSE i \in iguales : \A j \in iguales : i <= j

SearchFreeInode ==
    IF \E i \in Idx : inode_bitmap[i] = 0
    THEN CHOOSE i \in Idx :
            inode_bitmap[i] = 0 /\ \A j \in Idx : j < i => inode_bitmap[j] # 0
    ELSE ERROR

EsTipo(p, t) == LET i == SearchInode(p) IN i # ERROR /\ inodes[i].type = t

\* External: the kernel walks the path, every component but the last a directory.
Resuelve(p) ==
    /\ SearchInode(p) # ERROR
    /\ \A n \in 0 .. Len(p) - 1 : EsTipo(SubSeq(p, 1, n), INODE_DIR)

Ocupado(h) == hilo[h].pc # "ocioso"
Quitando(h) == hilo[h].pc \in {"reescribir", "descontar_quitado"}

\* External: nobody else changes names in the parent directory of p or removes
\* a directory on the way.
PadreBloqueable(p) ==
    \A h \in Hilos : Ocupado(h) =>
        /\ Padre(hilo[h].path) # Padre(p)
        /\ Quitando(h) => ~Prefijo(hilo[h].path, p)

-----------------------------------------------------------------------------
Init ==
    /\ inodes = [i \in Idx |-> SIN_USAR]
    /\ inode_bitmap = [i \in Idx |-> 0]
    /\ inode_amount = 0
    /\ hilo = [h \in Hilos |-> OCIOSO]
    /\ servidor = "apagado"
    /\ disco = NO_EXISTE
    /\ montajes = 0
    /\ guardado = [arbol |-> {}, entero |-> TRUE]
    /\ sano = TRUE
    /\ rutas = TRUE

\* fisopfs_mkdir, fisopfs_create, up to search_free_inode of create_inode.  With
\* a full table (ENOSPC) or no memory (ENOMEM) nothing that anybody reads changes.
Crear(h, p, t) ==
    /\ servidor = "montado" /\ ~Ocupado(h) /\ p # ROOT
    /\ Resuelve(Padre(p)) /\ EsTipo(Padre(p), INODE_DIR)
    /\ SearchInode(p) = ERROR
    /\ PadreBloqueable(p)
    /\ SearchFreeInode # ERROR
    /\ hilo' = [hilo EXCEPT ![h] = [pc |-> "llenar", path |-> p, type |-> t,
                                     idx |-> SearchFreeInode, leido |-> 0]]
    /\ UNCHANGED <<tabla, servidor, disco, historia>>

\* create_inode fills the inode in and marks it; inode_amount++ reads here.
LlenarInodo(h) ==
    /\ hilo[h].pc = "llenar"
    /\ inodes' = [inodes EXCEPT ![hilo[h].idx] =
            Inode(hilo[h].path, hilo[h].type, INITIAL_CONTENT_LENGTH)]
    /\ inode_bitmap' = [inode_bitmap EXCEPT ![hilo[h].idx] = 1]
    /\ hilo' = [hilo EXCEPT ![h].pc = "contar", ![h].leido = inode_amount]
    /\ UNCHANGED <<inode_amount, servidor, disco, historia>>

\* ... and writes here.
ContarSinSumar(h) ==            \* mutant: inode_amount is not incremented
    /\ hilo[h].pc = "contar"
    /\ hilo' = [hilo EXCEPT ![h].pc = "agregar"]
    /\ UNCHANGED <<tabla, servidor, disco, historia>>
Contar(h) ==
    /\ hilo[h].pc = "contar"
    /\ inode_amount' = hilo[h].leido + 1
    /\ hilo' = [hilo EXCEPT ![h].pc = "agregar"]
    /\ UNCHANGED <<inodes, inode_bitmap, servidor, disco, historia>>

\* add_dentry_to_parent_dir.  Without a parent it returns -ERROR, which is
\* positive and taken for success; on a file it returns ENOTDIR.  Either way the
\* new inode stays.
AddDentryToParentDir(h) ==
    LET p == hilo[h].path
        padre == SearchInode(Padre(p))
    IN  /\ hilo[h].pc = "agregar"
        /\ inodes' = IF padre # ERROR /\ inodes[padre].type = INODE_DIR
                     THEN [inodes EXCEPT ![padre] = ConEntrada(@, Nombre(p))]
                     ELSE inodes
        /\ hilo' = [hilo EXCEPT ![h] = OCIOSO]
        /\ UNCHANGED <<inode_bitmap, inode_amount, servidor, disco, historia>>

\* fisopfs_unlink of a file, fisopfs_rmdir of a directory without text.
BorrableSiempre(i) == TRUE      \* mutant: rmdir does not look for entries
Borrable(i) ==
    inodes[i].type = INODE_DIR => inodes[i].dentries = SIN_ENTRADAS /\ inodes[i].largo = 0

\* ... up to the first statement of remove_inode.
Quitar(h, p) ==
    /\ servidor = "montado" /\ ~Ocupado(h) /\ p # ROOT
    /\ Resuelve(p)
    /\ PadreBloqueable(p)
    /\ \A k \in Hilos : Ocupado(k) => ~Prefijo(p, hilo[k].path)
    /\ Borrable(SearchInode(p))
    /\ inode_bitmap' = [inode_bitmap EXCEPT ![SearchInode(p)] = 0]
    /\ hilo' = [hilo EXCEPT ![h] = [pc |-> "reescribir", path |-> p,
                    type |-> inodes[SearchInode(p)].type,
                    idx |-> SearchInode(p), leido |-> 0]]
    /\ inodes' = [inodes EXCEPT ![SearchInode(p)] = SIN_USAR]
    /\ UNCHANGED <<inode_amount, servidor, disco, historia>>

\* The rest of remove_inode: the parent's content without the entry takes the
\* place of the old one, the inode's content is freed and inode_amount is read.
\* Without a parent it returns before all that.
ReescribirPadre(h) ==
    LET p == hilo[h].path
        padre == SearchInode(Padre(p))
    IN  /\ hilo[h].pc = "reescribir"
        /\ IF padre = ERROR
           THEN hilo' = [hilo EXCEPT ![h] = OCIOSO] /\ UNCHANGED inodes
           ELSE /\ inodes' = [inodes EXCEPT ![padre] = SinEntrada(@, Nombre(p)),
                                          ![hilo[h].idx].cap = 0]
                /\ hilo' = [hilo EXCEPT ![h].pc = "descontar_quitado",
                                        ![h].leido = inode_amount]
        /\ UNCHANGED <<inode_bitmap, inode_amount, servidor, disco, historia>>

\* inode_amount-- writes.
Descontar(h) ==
    /\ hilo[h].pc = "descontar_quitado"
    /\ inode_amount' = hilo[h].leido - 1
    /\ hilo' = [hilo EXCEPT ![h] = OCIOSO]
    /\ UNCHANGED <<inodes, inode_bitmap, servidor, disco, historia>>

\* External: a file that nobody is creating or removing.
Escribible(p) ==
    /\ servidor = "montado" /\ Resuelve(p) /\ EsTipo(p, INODE_FILE)
    /\ \A h \in Hilos : Ocupado(h) => hilo[h].path # p

\* fisopfs_write of n bytes at off.  The file ends where the write ends, even if
\* it was longer before.
EscribirReallocCorto(p, off, n) ==      \* mutant: realloc of n bytes
    LET i == SearchInode(p)
    IN  /\ Escribible(p)
        /\ inodes' = [inodes EXCEPT
                ![i].cap = IF off + n > inodes[i].size THEN n ELSE @,
                ![i].size = off + n]
        /\ UNCHANGED <<inode_bitmap, inode_amount, hilo, servidor, disco, historia>>
Escribir(p, off, n) ==
    LET i == SearchInode(p)
    IN  /\ Escribible(p)
        /\ inodes' = [inodes EXCEPT
                ![i].cap = IF off + n > inodes[i].size THEN off + n ELSE @,
                ![i].size = off + n]
        /\ UNCHANGED <<inode_bitmap, inode_amount, hilo, servidor, disco, historia>>

\* fisopfs_truncate.  Truncating to 0 leaves a file of INITIAL_CONTENT_LENGTH
\* zeros.
Truncar(p, s) ==
    LET i == SearchInode(p)
        nuevo == IF s = 0 THEN INITIAL_CONTENT_LENGTH ELSE s
    IN  /\ Escribible(p)
        /\ inodes' = [inodes EXCEPT ![i].cap = nuevo, ![i].size = nuevo]
        /\ UNCHANGED <<inode_bitmap, inode_amount, hilo, servidor, disco, historia>>

-----------------------------------------------------------------------------
Usados == {i \in Idx : inode_bitmap[i] = 1}

\* What a program can see of an inode.
Visto(r) == [path |-> r.path, type |-> r.type, dentries |-> r.dentries, size |-> r.size]
Arbol == {Visto(inodes[i]) : i \in Usados}

\* serialize: the count, and the inodes in use among the first inode_amount.  A count
\* that a cut image left too high may pass the table's end.  What follows it is
\* no inode in use (inode_bitmap[INODES_AMOUNT] is inode_amount itself), or the
\* server dies there, as in DesmontarCortado.
EnImagenSalvoUltimo(i) == i < inode_amount - 1 /\ inode_bitmap[i] = 1     \* mutant
EnImagen(i) == i < inode_amount /\ inode_bitmap[i] = 1
Posicion(i) == Cardinality({j \in Idx : j < i /\ EnImagen(j)})
SinBuffer(r) == [r EXCEPT !.cap = 0]
Serializados ==
    [k \in 1 .. Cardinality({i \in Idx : EnImagen(i)}) |->
        SinBuffer(inodes[CHOOSE i \in Idx : EnImagen(i) /\ Posicion(i) = k - 1])]
Imagen == [amount |-> inode_amount, inodos |-> Serializados]

\* What is in the file when the server dies or the disk fills up while it saves: any
\* number of bytes, and read takes what there is for an inode, over memory that is
\* zero: of an int, the low bytes.
Truncados(n) == {n % m : m \in {1, 256, 65536, 16777216}} \cup {n}
\* A path cut at a slash is a directory's, and the rest of a name is another name.
RutasCortadas(p) ==
    {SubSeq(p, 1, n) : n \in 0 .. Len(p) - 1} \cup
    {Append(SubSeq(p, 1, n - 1), m) : n \in 1 .. Len(p), m \in Names}
\* The text of a directory loses its last entries.  What is left of a name counts for
\* its bytes only: that it may read as a name, that the next entry is written right
\* after it, or that remove_inode ends it with a newline, is left out.
Entradas(dentries) == Cardinality(UNION {{n} \X (1 .. dentries[n]) : n \in Names})
Quedan(r, l) ==
    {d \in [Names -> 0 .. r.largo] :
        /\ \A n \in Names : d[n] <= r.dentries[n]
        /\ Entradas(d) = l \div ENTRADA}
ConTexto(r, d, l) == [r EXCEPT !.dentries = d, !.largo = l]
TextosCortados(r) == UNION {{ConTexto(r, d, l) : d \in Quedan(r, l)} : l \in 0 .. r.largo}
InodosCortados(r) ==
    {Inode(p, INODE_FILE, 0) : p \in RutasCortadas(r.path)} \cup
    {[Inode(r.path, INODE_FILE, 0) EXCEPT !.size = s] : s \in Truncados(r.size)} \cup
    TextosCortados(r)
HastaEl(k, r) ==
    [amount |-> inode_amount, inodos |-> Append(SubSeq(Serializados, 1, k - 1), r)]
ImagenesCortadas ==
    {[amount |-> n, inodos |-> << >>] : n \in Truncados(inode_amount)} \cup
    UNION {{HastaEl(k, r) : r \in InodosCortados(Serializados[k])} :
                k \in 1 .. Len(Serializados)}

\* The memory of a server that has just been started, or is gone.
Limpiar(nuevos, bitmap, cantidad) ==
    /\ inodes' = nuevos
    /\ inode_bitmap' = bitmap
    /\ inode_amount' = cantidad
    /\ hilo' = [h \in Hilos |-> OCIOSO]

Apagar ==
    /\ Limpiar([i \in Idx |-> SIN_USAR], [i \in Idx |-> 0], 0)
    /\ servidor' = "apagado"

\* fisopfs_destroy, once no callback is running.  After a mount that failed it
\* writes a count of 0 over the image.
Desmontar ==
    /\ servidor # "apagado" /\ \A h \in Hilos : ~Ocupado(h)
    /\ disco' = Imagen
    /\ guardado' = [arbol |-> Arbol, entero |-> \A i \in Usados : i < inode_amount]
    /\ Apagar
    /\ UNCHANGED <<montajes, sano, rutas>>

DesmontarCortado ==
    /\ servidor # "apagado" /\ \A h \in Hilos : ~Ocupado(h)
    /\ disco' \in ImagenesCortadas
    /\ guardado' = [arbol |-> Arbol, entero |-> FALSE]
    /\ rutas' = (rutas /\ \A k \in 1 .. Len(disco'.inodos) :
                    disco'.inodos[k].path = Serializados[k].path)
    /\ Apagar
    /\ UNCHANGED <<montajes, sano>>

\* The server dies without saving.
Crash ==
    /\ servidor # "apagado"
    /\ Apagar
    /\ UNCHANGED <<disco, historia>>

Montable == servidor = "apagado" /\ montajes < MAX_MONTAJES

\* fisopfs_init without a persistence file: the root, and an empty file.
Formatear ==
    /\ Montable /\ disco = NO_EXISTE
    /\ Limpiar([i \in Idx |-> IF i = 0
                    THEN Inode(ROOT, INODE_DIR, INITIAL_CONTENT_LENGTH)
                    ELSE SIN_USAR],
               [i \in Idx |-> IF i = 0 THEN 1 ELSE 0], 1)
    /\ servidor' = "montado"
    /\ disco' = IMAGEN_VACIA
    /\ montajes' = montajes + 1
    /\ UNCHANGED <<guardado, sano, rutas>>

\* deserialize: the inodes of the file fill the table from its start; the count
\* is the one in the file, however many inodes follow it.
Cargado(i) == i < Len(disco.inodos)
Montar ==
    /\ Montable /\ disco # NO_EXISTE
    /\ Limpiar([i \in Idx |-> IF Cargado(i)
                    THEN [disco.inodos[i + 1] EXCEPT !.cap = disco.inodos[i + 1].size]
                    ELSE SIN_USAR],
               [i \in Idx |-> IF Cargado(i) THEN 1 ELSE 0], disco.amount)
    /\ servidor' = "montado"
    /\ sano' = (sano /\ Arbol' = guardado.arbol)
    /\ guardado' = [arbol |-> Arbol', entero |-> TRUE]
    /\ montajes' = montajes + 1
    /\ UNCHANGED <<disco, rutas>>

\* deserialize when a read (of the count, if k is 0) or calloc fails after k inodes:
\* they stay in use, their contents freed, and the count is 0.  The server goes on;
\* a callback would read freed memory and do anything, so none is modelled.
MontarConError(k) ==
    /\ Montable /\ disco # NO_EXISTE
    /\ k <= Len(disco.inodos) /\ (k > 0 => k < disco.amount)
    /\ Limpiar([i \in Idx |-> IF i < k THEN SinBuffer(disco.inodos[i + 1]) ELSE SIN_USAR],
               [i \in Idx |-> IF i < k THEN 1 ELSE 0], 0)
    /\ servidor' = "fallido"
    /\ sano' = FALSE
    /\ montajes' = montajes + 1
    /\ UNCHANGED <<disco, guardado, rutas>>

Next ==
    \/ \E h \in Hilos, p \in Paths :
        \/ \E t \in {INODE_FILE, INODE_DIR} : Crear(h, p, t)
        \/ Quitar(h, p)
    \/ \E h \in Hilos :
        \/ LlenarInodo(h) \/ Contar(h) \/ AddDentryToParentDir(h)
        \/ ReescribirPadre(h) \/ Descontar(h)
    \/ \E p \in Paths :
        /\ Escribible(p)
        /\ \/ \E off \in 0 .. MAX_SIZE, n \in 1 .. MAX_SIZE :
                off + n <= MAX_SIZE /\ Escribir(p, off, n)
           \/ \E s \in 0 .. MAX_SIZE : Truncar(p, s)
    \/ Desmontar \/ DesmontarCortado \/ Crash \/ Formatear \/ Montar
    \/ \E k \in 0 .. INODES_AMOUNT : MontarConError(k)

Spec == Init /\ [][Next]_vars

-----------------------------------------------------------------------------
\* Type invariant.
Inodos == [path : Seq(Names), type : {INODE_FILE, INODE_DIR}, dentries : [Names -> Nat],
           largo : Int, size : Nat, cap : Nat]
Imagenes == [amount : Int, inodos : Seq(Inodos)]
Vistos == [path : Seq(Names), type : {INODE_FILE, INODE_DIR}, dentries : [Names -> Nat],
           size : Nat]
Pasos == {s \in [pc : {"ocioso", "llenar", "contar", "agregar", "reescribir",
                       "descontar_quitado"},
                 path : Seq(Names), type : {INODE_FILE, INODE_DIR}, idx : Idx, leido : Int] :
              s.pc # "ocioso" => s.path # ROOT}
TypeOK ==
    /\ inodes \in [Idx -> Inodos]
    /\ inode_bitmap \in [Idx -> {0, 1}]
    /\ inode_amount \in Int
    /\ hilo \in [Hilos -> Pasos]
    /\ servidor \in {"apagado", "montado", "fallido"}
    /\ disco \in Imagenes /\ Len(disco.inodos) <= INODES_AMOUNT
    /\ montajes \in Nat
    /\ guardado.arbol \subseteq Vistos /\ guardado.entero \in BOOLEAN
    /\ sano \in BOOLEAN /\ rutas \in BOOLEAN

\* p is being created and its entry is not written yet.
EnCamino(p) ==
    \E h \in Hilos : hilo[h].path = p /\ hilo[h].pc \in {"contar", "agregar"}
\* p has been removed and its entry is still there.
Saliendo(p) ==
    \E h \in Hilos : hilo[h].path = p /\ hilo[h].pc = "reescribir"

\* The directories say what the table holds (add_dentry_to_parent_dir,
\* remove_inode): every inode but the root has its name in a directory of the
\* table, every name in a directory is that of an inode, and no directory lists
\* a name twice.  A mount that failed or restored less than was saved voids this.
TreeConsistent ==
    sano /\ rutas =>
    /\ \A r \in Arbol :
        \/ r.path = ROOT
        \/ EnCamino(r.path)
        \/ \E q \in Arbol : /\ q.path = Padre(r.path) /\ q.type = INODE_DIR
                           /\ q.dentries[Nombre(r.path)] > 0
    /\ \A q \in Arbol, n \in Names : q.dentries[n] > 0 =>
        /\ q.dentries[n] = 1
        /\ Saliendo(Append(q.path, n)) \/ \E r \in Arbol : r.path = Append(q.path, n)

\* create_inode does not look whether the path exists: still no two inodes in
\* use have the same path, however many inodes and directories were lost with
\* their entries, until deserialize takes a piece of a path for one.
PathsUnique ==
    rutas => \A i, j \in Usados : inodes[i].path = inodes[j].path => i = j

\* inode_amount is never below the number of inodes in use when no callback is
\* running, otherwise serialize would cut off inodes even of a table without holes.
\* A mount that failed leaves it so.
AmountCovers ==
    servidor = "montado" /\ (\A h \in Hilos : ~Ocupado(h)) => inode_amount >= Cardinality(Usados)

\* What an inode says of its size is never more than its buffer, which
\* fisopfs_read and serialize copy it from, and the entries of a directory never
\* reach past that size: beyond it they would not be saved.  A mount that failed
\* has freed the buffers.
SizeWithinBuffer ==
    servidor = "montado" => \A i \in Usados :
        /\ inodes[i].size <= inodes[i].cap
        /\ inodes[i].type = INODE_DIR => inodes[i].largo <= inodes[i].size

\* serialize and deserialize: a mount gives back exactly what the last unmount
\* saw, if that wrote the whole image and the table had no holes.
RemountRestores ==
    [][Montar /\ guardado.entero => Arbol' = guardado.arbol]_vars

\* What fs.c:280 says of serialize ("Escribe el estado del sistema de archivos en
\* el archivo"): an unmount that writes the whole image writes every inode in use,
\* of a table that no earlier mount has damaged.
EverythingSaved ==
    [][Desmontar /\ sano => Len(Imagen.inodos) = Cardinality(Usados)]_vars
=============================================================================
