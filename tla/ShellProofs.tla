----------------------------- MODULE ShellProofs -----------------------------
(***************************************************************************)
(* Proofs about Shell, for any lines, programs, directories and number of  *)
(* processes: who holds the ends of a pipe, that the prompt comes back     *)
(* with nothing left of the line that was run, and that each program of a  *)
(* line has what the line asks for.                                        *)
(*                                                                         *)
(* Of a command the first two ask only its length.  The third asks what    *)
(* the parser makes of a line (ComoEscrita), stage by stage, and which     *)
(* process got which stage (Linajes).                                      *)
(***************************************************************************)
EXTENDS Shell, FiniteSetTheorems, SequenceTheorems, WellFoundedInduction, TLAPS

\* The fields of a process; cmd, environ and the names of files hold anything.
Campos == {"est", "padre", "pgid", "bg_pgid", "pc", "cmd", "fd", "extremos", "pipefd",
           "sigchld", "salida", "environ"}
EsRegistro(r) == r = [f \in Campos |-> r[f]]

PcShell == {"prompt", "fork", "espera"}
PcHijo  == {"exec_cmd", "redir", "programa", "fork_1", "fork_2", "hijo_1", "hijo_2",
            "wait_1", "wait_2", "exit"}

Proceso(r, q) ==
    /\ EsRegistro(r) /\ r.fd = [i \in 0 .. 2 |-> r.fd[i]]
    /\ r.est \in {"libre", "vivo", "zombi", "cosechado"}
    /\ r.est = "vivo" => r.pc \in (IF q = SHELL THEN PcShell ELSE PcHijo)

\* Pids are handed out in order, and only the shell is where the shell may be.
Tipos ==
    /\ proc = [q \in Pids |-> proc[q]] /\ \A q \in Pids : Proceso(proc[q], q)
    /\ \E n \in 1 .. NPID : \A q \in Pids : proc[q].est # "libre" <=> q <= n
    /\ fallos \in Nat

\* Process k has made its pipe and forked once, or twice.
Bifurco1(k) ==
    /\ proc[k].est # "libre"
    /\ proc[k].est = "vivo" => proc[k].pc \in {"fork_2", "wait_1", "wait_2", "exit"}
Bifurco2(k) ==
    /\ proc[k].est # "libre"
    /\ proc[k].est = "vivo" => proc[k].pc \in {"wait_1", "wait_2", "exit"}

\* The ends that q holds besides its three descriptors depend on where it is.
Extra(q) ==
    LET r == proc[q]  k == r.pipefd
    IN  /\ r.pc \in {"fork_1", "fork_2"} => k = q
        /\ r.pc \in {"hijo_1", "hijo_2"} => k \in Pids \ {q}
        /\ r.pc = "fork_1" => r.extremos = {Lee(k), Escribe(k)}
        /\ r.pc = "fork_2" => r.extremos = {Lee(k)}
        /\ r.pc = "hijo_1" => /\ r.extremos = {Lee(k), Escribe(k)}
                              /\ Bifurco1(k) /\ ~EsPipe(r.cmd) /\ r.fd[0] # Lee(k)
        /\ r.pc = "hijo_2" => r.extremos = {Lee(k)} /\ Bifurco2(k)
        /\ r.pc \notin {"fork_1", "fork_2", "hijo_1", "hijo_2"} => r.extremos = {}

\* What its descriptors may be: it reads a pipe when both of its processes are
\* there, and a process that writes to a pipe forks no more.
Descriptores(q) ==
    LET r == proc[q]
    IN  \A k \in Pids :
            /\ r.fd[0] # Escribe(k)
            /\ r.fd[0] = Lee(k) => k # q /\ Bifurco2(k)
            /\ Escribe(k) \in {r.fd[1], r.fd[2]} =>
                    /\ k # q /\ Bifurco1(k) /\ r.fd[0] # Lee(k)
                    /\ r.pc \in {"exec_cmd", "redir", "programa"} /\ ~EsPipe(r.cmd)

\* q, which did not make it, holds the write end of the pipe of k.
Escritor(q, k) ==
    LET r == proc[q]
    IN  /\ r.est = "vivo"
        /\ (r.pc = "hijo_1" /\ r.pipefd = k) \/ Escribe(k) \in {r.fd[1], r.fd[2]}

Pipes ==
    /\ \A q \in Pids : proc[q].est = "vivo" => Extra(q) /\ Descriptores(q)
    /\ \A k, q, s \in Pids : Escritor(q, k) /\ Escritor(s, k) => q = s

ConHijos == {"fork_2", "wait_1", "wait_2"}
EnFamilia(q) == proc[q].est \in {"vivo", "zombi"}

\* The parent of q is alive and older than q, and it is where it can have
\* children; an orphan is what a fork that failed left behind.
Pariente(q) ==
    LET r == proc[q]  k == r.padre
    IN  /\ k \in Pids \cup {INIT}
        /\ k \in Pids =>
            /\ k < q /\ proc[k].est = "vivo"
            /\ k = SHELL => EsBack(r.cmd) \/ (En(SHELL, "espera") /\ q = hijo)
            /\ k # SHELL => proc[k].pc \in ConHijos
            /\ k # SHELL /\ proc[k].pc = "fork_2" => ~EsPipe(r.cmd)
        /\ k = INIT /\ proc[SHELL].est = "vivo" => fallos > 0 /\ ~EsPipe(r.cmd)

EsHijo(a, k) == EnFamilia(a) /\ proc[a].padre = k

\* As many children as waits are left, at most.
Prole(k) ==
    /\ proc[k].pc \in ConHijos => EsPipe(proc[k].cmd)
    /\ proc[k].pc = "fork_1" => EsPipe(proc[k].cmd)
    /\ proc[k].pc \in {"fork_2", "wait_2"} =>
            \A a, b \in Pids : EsHijo(a, k) /\ EsHijo(b, k) => a = b
    /\ proc[k].pc = "wait_1" =>
            \A a, b, c \in Pids : EsHijo(a, k) /\ EsHijo(b, k) /\ EsHijo(c, k) =>
                a = b \/ b = c \/ a = c

Familias ==
    /\ proc[SHELL].padre = INIT
    /\ proc[SHELL].est \in {"vivo", "cosechado"}
    /\ \A q \in Pids \ {SHELL} : EnFamilia(q) => Pariente(q)
    /\ \A k \in Pids \ {SHELL} : proc[k].est = "vivo" => Prole(k)

IInv == Tipos /\ Pipes /\ Familias

-----------------------------------------------------------------------------
\* The table of processes.

LEMMA NPIDTipo == NPID \in Nat /\ NPID >= 1
BY ShellAssumption

\* The new pid is the least that was never used.
LEMMA NuevoLibre ==
    ASSUME Tipos
    PROVE  /\ Nuevo \in Nat /\ Nuevo > SHELL
           /\ \A q \in Pids : proc[q].est # "libre" <=> q < Nuevo
           /\ \E n \in 1 .. NPID : Nuevo = n + 1
<1> DEFINE U == {q \in Pids : proc[q].est # "libre"}
<1>1. PICK n \in 1 .. NPID : \A q \in Pids : proc[q].est # "libre" <=> q <= n
  BY DEF Tipos
<1>2. U = 1 .. n
  BY <1>1, NPIDTipo DEF Pids
<1>3. Cardinality(1 .. n) = n /\ n \in Nat
  BY <1>1, NPIDTipo, FS_Interval
<1>4. Nuevo = 1 + Cardinality(U)
  BY Zenon DEF Nuevo
<1> HIDE DEF U
<1>5. Nuevo = n + 1
  BY <1>2, <1>3, <1>4
<1> QED
  BY <1>1, <1>5, NPIDTipo DEF Pids, SHELL

LEMMA ShellEsPid == SHELL \in Pids /\ INIT \notin Pids /\ FALLO \notin Pids /\ Pids \subseteq Nat
BY NPIDTipo DEF SHELL, INIT, FALLO, Pids

LEMMA EscribeUno ==
    ASSUME proc = [q \in Pids |-> proc[q]], NEW p \in Pids, NEW x, proc' = [proc EXCEPT ![p] = x]
    PROVE  /\ proc' = [q \in Pids |-> proc'[q]]
           /\ \A q \in Pids : proc'[q] = IF q = p THEN x ELSE proc[q]
BY Zenon

LEMMA EscribeDos ==
    ASSUME proc = [q \in Pids |-> proc[q]], NEW p \in Pids, NEW x, NEW c, NEW y, c # p,
           proc' = [[proc EXCEPT ![c] = y] EXCEPT ![p] = x]
    PROVE  /\ proc' = [q \in Pids |-> proc'[q]]
           /\ \A q \in Pids : proc'[q] = IF q = p THEN x ELSE IF q = c THEN y ELSE proc[q]
OBVIOUS

\* A step that uses no new pid.
LEMMA TiposPaso ==
    ASSUME Tipos, proc' = [q \in Pids |-> proc'[q]], \A q \in Pids : Proceso(proc'[q], q),
           \A q \in Pids : proc'[q].est = "libre" <=> proc[q].est = "libre", fallos' \in Nat
    PROVE  Tipos'
BY DEF Tipos

\* A fork that succeeds.
LEMMA TiposFork ==
    ASSUME Tipos, proc' = [q \in Pids |-> proc'[q]], \A q \in Pids : Proceso(proc'[q], q),
           \A q \in Pids : proc'[q].est = "libre" <=> proc[q].est = "libre" /\ q # Nuevo,
           fallos' \in Nat
    PROVE  Tipos'
<1>1. PICK n \in 1 .. NPID : Nuevo = n + 1 /\ \A q \in Pids : proc[q].est # "libre" <=> q <= n
  <2>1. PICK n \in 1 .. NPID : Nuevo = n + 1
    BY NuevoLibre
  <2>2. \A q \in Pids : q < Nuevo <=> q <= n
    BY <2>1 DEF Pids
  <2> QED
    BY <2>1, <2>2, NuevoLibre
<1>2. \A q \in Pids : proc'[q].est # "libre" <=> q <= n + 1
  BY <1>1 DEF Pids
<1>3. CASE n = NPID
  <2>1. \A q \in Pids : proc'[q].est # "libre" <=> q <= n
    BY <1>2, <1>3, NPIDTipo DEF Pids
  <2> QED
    BY <2>1 DEF Tipos
<1>4. CASE n # NPID
  <2>1. n + 1 \in 1 .. NPID
    BY <1>4, NPIDTipo
  <2> QED
    BY <1>2, <2>1 DEF Tipos
<1> QED
  BY <1>3, <1>4

\* A process that stays as it is but for est, pc, fd, extremos, pipefd and cmd
\* says nothing new of a pipe.
Quieto(q) ==
    /\ proc[q].est = "vivo" /\ proc'[q].est = "vivo"
    /\ proc'[q].fd = proc[q].fd /\ proc'[q].extremos = proc[q].extremos
    /\ proc'[q].pipefd = proc[q].pipefd
    /\ \/ proc'[q].pc = proc[q].pc /\ proc'[q].cmd = proc[q].cmd
       \/ /\ proc[q].pc \in {"exec_cmd", "redir"} /\ proc'[q].pc \in {"exec_cmd", "redir"}
          /\ proc'[q].cmd = proc[q].cmd
       \/ /\ proc[q].pc \in PcShell \cup {"wait_1", "wait_2", "exit"}
          /\ proc'[q].pc \in PcShell \cup {"wait_1", "wait_2", "exit"}

\* No process goes back to before its forks.
Avanza ==
    \A k \in Pids : proc[k].est # "libre" =>
        /\ proc'[k].est # "libre"
        /\ proc'[k].est = "vivo" =>
            /\ proc[k].est = "vivo"
            /\ \/ proc'[k].pc = proc[k].pc
               \/ proc[k].pc \notin {"fork_2", "wait_1", "wait_2", "exit"}
               \/ proc[k].pc # "exit" /\ proc'[k].pc \in {"wait_1", "wait_2", "exit"}

LEMMA BifurcoSigue ==
    ASSUME Avanza, NEW k \in Pids
    PROVE  (Bifurco1(k) => Bifurco1(k)') /\ (Bifurco2(k) => Bifurco2(k)')
BY DEF Avanza, Bifurco1, Bifurco2

LEMMA QuietoPipes ==
    ASSUME Avanza, NEW q \in Pids, Quieto(q), Extra(q), Descriptores(q)
    PROVE  /\ Extra(q)' /\ Descriptores(q)'
           /\ \A k \in Pids : Escritor(q, k)' => Escritor(q, k)
<1>1. Extra(q)'
  <2>1. proc[q].pc \in {"hijo_1", "hijo_2"} => proc[q].pipefd \in Pids
    BY DEF Extra
  <2>2. CASE proc'[q].pc = proc[q].pc /\ proc'[q].cmd = proc[q].cmd
    BY <2>1, <2>2, BifurcoSigue DEF Quieto, Extra
  <2>3. CASE proc'[q].pc # proc[q].pc \/ proc'[q].cmd # proc[q].cmd
    BY <2>3 DEF Quieto, Extra, PcShell
  <2> QED
    BY <2>2, <2>3
<1>2. Descriptores(q)'
  <2> SUFFICES ASSUME NEW k \in Pids
               PROVE  LET r == proc'[q]
                      IN  /\ r.fd[0] # Escribe(k)
                          /\ r.fd[0] = Lee(k) => k # q /\ Bifurco2(k)'
                          /\ Escribe(k) \in {r.fd[1], r.fd[2]} =>
                                /\ k # q /\ Bifurco1(k)' /\ r.fd[0] # Lee(k)
                                /\ r.pc \in {"exec_cmd", "redir", "programa"} /\ ~EsPipe(r.cmd)
    BY DEF Descriptores, Lee, Escribe
  <2> QED
    BY BifurcoSigue DEF Quieto, Descriptores, PcShell
<1>3. ASSUME NEW k \in Pids, Escritor(q, k)' PROVE Escritor(q, k)
  BY <1>3 DEF Escritor, Quieto, PcShell, Escribe
<1> QED
  BY <1>1, <1>2, <1>3

LEMMA PipesPaso ==
    ASSUME Pipes, Avanza, NEW p,
           \A q \in Pids \ {p} : proc'[q].est = "vivo" => Quieto(q),
           p \in Pids /\ proc'[p].est = "vivo" =>
                /\ proc[p].est = "vivo" /\ Extra(p)' /\ Descriptores(p)'
                /\ \A k \in Pids : Escritor(p, k)' => Escritor(p, k)
    PROVE  Pipes'
<1>1. ASSUME NEW q \in Pids, proc'[q].est = "vivo"
      PROVE  /\ Extra(q)' /\ Descriptores(q)'
             /\ \A k \in Pids : Escritor(q, k)' => Escritor(q, k)
  <2>1. CASE q = p
    BY <1>1, <2>1
  <2>2. CASE q # p
    <3>1. Quieto(q)
      BY <1>1, <2>2
    <3>2. Extra(q) /\ Descriptores(q)
      BY <3>1 DEF Quieto, Pipes
    <3> QED
      BY <3>1, <3>2, QuietoPipes
  <2> QED
    BY <2>1, <2>2
<1>2. ASSUME NEW k \in Pids, NEW q \in Pids, Escritor(q, k)' PROVE Escritor(q, k)
  <2>1. proc'[q].est = "vivo"
    BY <1>2 DEF Escritor
  <2> QED
    BY <1>1, <1>2, <2>1
<1> QED
  BY <1>1, <1>2 DEF Pipes

-----------------------------------------------------------------------------
\* The end of a process.

LEMMA Registros ==
    /\ EsRegistro(Libre) /\ EsRegistro(Cosechado)
    /\ Libre.fd = [i \in 0 .. 2 |-> Libre.fd[i]] /\ Libre.est = "libre"
    /\ Cosechado.fd = [i \in 0 .. 2 |-> Cosechado.fd[i]] /\ Cosechado.est = "cosechado"
    /\ Cosechado.padre = INIT
BY DEF EsRegistro, Campos, Libre, Cosechado, INIT

ConSigchld(r) == [r EXCEPT !.sigchld = TRUE]
ConPadreInit(r) == [r EXCEPT !.padre = INIT]

LEMMA Copias ==
    ASSUME NEW r, NEW q, Proceso(r, q)
    PROVE  LET s == ConSigchld(r)  i == ConPadreInit(r)
           IN  /\ Proceso(s, q) /\ s.est = r.est /\ s.pc = r.pc /\ s.cmd = r.cmd
               /\ s.fd = r.fd /\ s.extremos = r.extremos /\ s.pipefd = r.pipefd
               /\ s.padre = r.padre /\ s.environ = r.environ
               /\ Proceso(i, q) /\ i.est = r.est /\ i.pc = r.pc /\ i.cmd = r.cmd
               /\ i.fd = r.fd /\ i.extremos = r.extremos /\ i.pipefd = r.pipefd
               /\ i.padre = INIT /\ i.environ = r.environ
<1> DEFINE s == ConSigchld(r)  i == ConPadreInit(r)
<1>1. EsRegistro(r)
  BY DEF Proceso
<1>2. /\ EsRegistro(s) /\ s.est = r.est /\ s.pc = r.pc /\ s.cmd = r.cmd /\ s.fd = r.fd
      /\ s.extremos = r.extremos /\ s.pipefd = r.pipefd /\ s.padre = r.padre
      /\ s.environ = r.environ
  BY <1>1 DEF EsRegistro, Campos, ConSigchld
<1>3. /\ EsRegistro(i) /\ i.est = r.est /\ i.pc = r.pc /\ i.cmd = r.cmd /\ i.fd = r.fd
      /\ i.extremos = r.extremos /\ i.pipefd = r.pipefd /\ i.padre = INIT
      /\ i.environ = r.environ
  BY <1>1 DEF EsRegistro, Campos, ConPadreInit
<1> HIDE DEF s, i
<1>5. Proceso(s, q) /\ Proceso(i, q)
  BY <1>2, <1>3 DEF Proceso
<1> QED
  BY <1>2, <1>3, <1>5 DEF s, i

LEMMA TerminaDatos ==
    ASSUME Tipos, NEW p \in Pids, proc[p].est = "vivo", NEW st, Termina(p, st), fallos' \in Nat
    PROVE  /\ Tipos'
           /\ proc'[p].est \in {"zombi", "cosechado"}
           /\ proc[p].padre = INIT => proc'[p].est = "cosechado" /\ proc'[p].padre = INIT
           /\ proc[p].padre # INIT => /\ proc'[p].est = "zombi"
                                      /\ proc'[p].padre = proc[p].padre
                                      /\ proc'[p].cmd = proc[p].cmd
           /\ \A q \in Pids \ {p} :
                /\ proc[q].est = "vivo" =>
                    /\ proc'[q].est = "vivo" /\ proc'[q].pc = proc[q].pc
                    /\ proc'[q].cmd = proc[q].cmd /\ proc'[q].fd = proc[q].fd
                    /\ proc'[q].extremos = proc[q].extremos
                    /\ proc'[q].pipefd = proc[q].pipefd /\ proc'[q].environ = proc[q].environ
                    /\ \/ q = proc[p].padre /\ proc'[q].padre = proc[q].padre
                       \/ proc[q].padre = p /\ proc'[q].padre = INIT
                       \/ proc[q].padre # p /\ proc'[q].padre = proc[q].padre
                /\ proc[q].est = "zombi" /\ proc[q].padre = p => proc'[q].est = "cosechado"
                /\ ~(proc[q].est = "vivo") /\ ~(proc[q].est = "zombi" /\ proc[q].padre = p) =>
                        proc'[q] = proc[q]
<1> DEFINE r == proc[p]
           z == [Libre EXCEPT !.est = "zombi", !.padre = r.padre, !.pgid = r.pgid,
                              !.cmd = r.cmd, !.salida = st]
<1>1. proc' = [q \in Pids |-> proc'[q]]
  BY DEF Termina
<1>2. proc'[p] = IF r.padre = INIT THEN Cosechado ELSE z
  BY DEF Termina
<1>3. ASSUME NEW q \in Pids \ {p}
      PROVE  \/ /\ q = r.padre /\ proc[q].est = "vivo"
                /\ proc'[q] = ConSigchld(proc[q])
             \/ /\ proc[q].est = "zombi" /\ proc[q].padre = p /\ proc'[q] = Cosechado
             \/ /\ proc[q].est = "vivo" /\ proc[q].padre = p
                /\ proc'[q] = ConPadreInit(proc[q])
             \/ /\ ~(proc[q].est \in {"vivo", "zombi"} /\ proc[q].padre = p)
                /\ proc'[q] = proc[q]
  <2>1. q \in Hijos(p) <=> proc[q].est \in {"vivo", "zombi"} /\ proc[q].padre = p
    BY DEF Hijos
  <2>2. proc'[q] = IF q = r.padre /\ proc[q].est = "vivo"
                   THEN ConSigchld(proc[q])
                   ELSE IF q \in Hijos(p)
                   THEN IF proc[q].est = "zombi" THEN Cosechado
                        ELSE ConPadreInit(proc[q])
                   ELSE proc[q]
    BY DEF Termina, ConSigchld, ConPadreInit
  <2> QED
    BY <2>1, <2>2
<1>4. /\ EsRegistro(z) /\ z.est = "zombi" /\ z.padre = r.padre /\ z.cmd = r.cmd
      /\ z.fd = [i \in 0 .. 2 |-> z.fd[i]]
  BY DEF EsRegistro, Campos, Libre
<1> HIDE DEF z
<1>5. ASSUME NEW q \in Pids \ {p}
      PROVE  /\ Proceso(proc'[q], q) /\ (proc'[q].est = "libre" <=> proc[q].est = "libre")
             /\ proc[q].est = "vivo" =>
                    /\ proc'[q].est = "vivo" /\ proc'[q].pc = proc[q].pc
                    /\ proc'[q].cmd = proc[q].cmd /\ proc'[q].fd = proc[q].fd
                    /\ proc'[q].extremos = proc[q].extremos
                    /\ proc'[q].pipefd = proc[q].pipefd /\ proc'[q].environ = proc[q].environ
                    /\ \/ q = proc[p].padre /\ proc'[q].padre = proc[q].padre
                       \/ proc[q].padre = p /\ proc'[q].padre = INIT
                       \/ proc[q].padre # p /\ proc'[q].padre = proc[q].padre
             /\ proc[q].est = "zombi" /\ proc[q].padre = p => proc'[q].est = "cosechado"
             /\ ~(proc[q].est = "vivo") /\ ~(proc[q].est = "zombi" /\ proc[q].padre = p) =>
                        proc'[q] = proc[q]
  <2>1. Proceso(proc[q], q)
    BY DEF Tipos
  <2> DEFINE s == ConSigchld(proc[q])  i == ConPadreInit(proc[q])
  <2>2. /\ Proceso(s, q) /\ s.est = proc[q].est /\ s.pc = proc[q].pc /\ s.cmd = proc[q].cmd
        /\ s.fd = proc[q].fd /\ s.extremos = proc[q].extremos
        /\ s.pipefd = proc[q].pipefd /\ s.padre = proc[q].padre
        /\ s.environ = proc[q].environ /\ i.environ = proc[q].environ
        /\ Proceso(i, q) /\ i.est = proc[q].est /\ i.pc = proc[q].pc /\ i.cmd = proc[q].cmd
        /\ i.fd = proc[q].fd /\ i.extremos = proc[q].extremos
        /\ i.pipefd = proc[q].pipefd /\ i.padre = INIT
    BY <2>1, Copias
  <2>3. \/ proc'[q] = s /\ q = r.padre /\ proc[q].est = "vivo"
        \/ proc'[q] = Cosechado /\ proc[q].est = "zombi" /\ proc[q].padre = p
        \/ proc'[q] = i /\ proc[q].est = "vivo" /\ proc[q].padre = p
        \/ proc'[q] = proc[q] /\ ~(proc[q].est \in {"vivo", "zombi"} /\ proc[q].padre = p)
    BY <1>3
  <2> HIDE DEF s, i
  <2>4. Proceso(Cosechado, q)
    BY Registros DEF Proceso
  <2>5. CASE proc'[q] = s /\ q = r.padre /\ proc[q].est = "vivo"
    BY <2>2, <2>5
  <2>6. CASE proc'[q] = Cosechado /\ proc[q].est = "zombi" /\ proc[q].padre = p
    BY <2>4, <2>6, Registros
  <2>7. CASE proc'[q] = i /\ proc[q].est = "vivo" /\ proc[q].padre = p
    BY <2>2, <2>7
  <2>8. CASE proc'[q] = proc[q] /\ ~(proc[q].est \in {"vivo", "zombi"} /\ proc[q].padre = p)
    BY <2>1, <2>8
  <2> QED
    BY <2>3, <2>5, <2>6, <2>7, <2>8
<1>6. /\ proc'[p].est \in {"zombi", "cosechado"} /\ Proceso(proc'[p], p)
      /\ r.padre = INIT => proc'[p].est = "cosechado" /\ proc'[p].padre = INIT
      /\ r.padre # INIT => /\ proc'[p].est = "zombi" /\ proc'[p].padre = r.padre
                           /\ proc'[p].cmd = r.cmd
  BY <1>2, <1>4, Registros DEF Proceso
<1>7. proc[p].est # "libre" /\ proc'[p].est # "libre"
  BY <1>6
<1>8. \A q \in Pids : Proceso(proc'[q], q) /\ (proc'[q].est = "libre" <=> proc[q].est = "libre")
  BY <1>5, <1>6, <1>7
<1>9. Tipos'
  BY <1>1, <1>8, TiposPaso
<1> QED
  BY <1>5, <1>6, <1>9

LEMMA PipesTermina ==
    ASSUME Tipos, Pipes, NEW p \in Pids, proc[p].est = "vivo", NEW st, Termina(p, st),
           fallos' \in Nat
    PROVE  Pipes'
<1>1. /\ proc'[p].est \in {"zombi", "cosechado"}
      /\ \A q \in Pids \ {p} :
            /\ proc[q].est = "vivo" =>
                    /\ proc'[q].est = "vivo" /\ proc'[q].pc = proc[q].pc
                    /\ proc'[q].cmd = proc[q].cmd /\ proc'[q].fd = proc[q].fd
                    /\ proc'[q].extremos = proc[q].extremos
                    /\ proc'[q].pipefd = proc[q].pipefd
            /\ ~(proc[q].est = "vivo") => ~(proc'[q].est = "vivo")
            /\ proc[q].est # "libre" => proc'[q].est # "libre"
  BY TerminaDatos
<1>2. Avanza
  BY <1>1 DEF Avanza
<1>3. \A q \in Pids \ {p} : proc'[q].est = "vivo" => Quieto(q)
  BY <1>1 DEF Quieto
<1> QED
  BY <1>1, <1>2, <1>3, PipesPaso

-----------------------------------------------------------------------------
\* The steps that create no process and end none.

\* p moves and perhaps reaps some of its children.
Mueve(p) ==
    /\ proc' = [q \in Pids |-> proc'[q]]
    /\ proc[p].est = "vivo" /\ proc'[p].est = "vivo"
    /\ Proceso(proc'[p], p) /\ proc'[p].padre = proc[p].padre
    /\ \A q \in Pids \ {p} :
        \/ proc'[q] = proc[q]
        \/ proc[q].est = "zombi" /\ proc[q].padre = p /\ proc'[q] = Cosechado

LEMMA MueveTipos ==
    ASSUME Tipos, NEW p \in Pids, Mueve(p), fallos' \in Nat
    PROVE  Tipos'
<1>1. \A q \in Pids : Proceso(Cosechado, q)
  BY Registros DEF Proceso
<1>2. \A q \in Pids : Proceso(proc'[q], q) /\ (proc'[q].est = "libre" <=> proc[q].est = "libre")
  BY <1>1, Registros DEF Mueve, Tipos
<1> QED
  BY <1>2, TiposPaso DEF Mueve

\* The step of an action that only writes the record of p.
LEMMA MueveUno ==
    ASSUME Tipos, NEW p \in Pids, proc[p].est = "vivo", NEW x, EsRegistro(x), x.est = "vivo",
           x.fd = [i \in 0 .. 2 |-> x.fd[i]], x.pc \in (IF p = SHELL THEN PcShell ELSE PcHijo),
           x.padre = proc[p].padre,
           proc' = [proc EXCEPT ![p] = x]
    PROVE  Mueve(p) /\ proc'[p] = x
<1>1. proc = [q \in Pids |-> proc[q]]
  BY DEF Tipos
<1>2. /\ proc' = [q \in Pids |-> proc'[q]]
      /\ \A q \in Pids : proc'[q] = IF q = p THEN x ELSE proc[q]
  BY <1>1, EscribeUno
<1> QED
  BY <1>2 DEF Mueve, Proceso

LEMMA ExecCmdBackDatos ==
    ASSUME Tipos, NEW p \in Pids, ExecCmdBack(p)
    PROVE  /\ Mueve(p) /\ proc'[p].cmd = proc[p].cmd /\ proc'[p].fd = proc[p].fd
           /\ proc'[p].extremos = proc[p].extremos /\ proc'[p].pipefd = proc[p].pipefd
           /\ proc'[p].environ = proc[p].environ
           /\ proc[p].pc = "exec_cmd" /\ proc'[p].pc = "redir"
<1> DEFINE bg == IF proc[p].bg_pgid = 0 THEN p ELSE proc[p].bg_pgid
           x == [proc[p] EXCEPT !.bg_pgid = bg, !.pgid = bg, !.pc = "redir"]
<1>1. Proceso(proc[p], p) /\ proc[p].est = "vivo" /\ proc[p].pc = "exec_cmd"
  BY DEF ExecCmdBack, En, Tipos
<1>2. p # SHELL
  BY <1>1 DEF Proceso, PcShell
<1>3. /\ EsRegistro(x) /\ x.est = "vivo" /\ x.fd = proc[p].fd /\ x.pc = "redir"
      /\ x.padre = proc[p].padre /\ x.cmd = proc[p].cmd /\ x.extremos = proc[p].extremos
      /\ x.pipefd = proc[p].pipefd /\ x.environ = proc[p].environ
  BY <1>1 DEF Proceso, EsRegistro, Campos
<1>4. proc' = [proc EXCEPT ![p] = x]
  BY <1>1 DEF ExecCmdBack, Tipos
<1> HIDE DEF x
<1>5. x.fd = [i \in 0 .. 2 |-> x.fd[i]] /\ x.pc \in PcHijo
  BY <1>1, <1>3 DEF Proceso, PcHijo
<1>6. Mueve(p) /\ proc'[p] = x
  BY <1>1, <1>2, <1>3, <1>4, <1>5, MueveUno
<1> QED
  BY <1>1, <1>3, <1>6

Tres(fd, a, b, c) == [fd EXCEPT ![0] = a, ![1] = b, ![2] = c]

LEMMA TresDescriptores ==
    ASSUME NEW fd, fd = [i \in 0 .. 2 |-> fd[i]], NEW a, NEW b, NEW c
    PROVE  LET g == Tres(fd, a, b, c)
           IN  g = [i \in 0 .. 2 |-> g[i]] /\ g[0] = a /\ g[1] = b /\ g[2] = c
<1>1. DOMAIN fd = 0 .. 2
  OBVIOUS
<1>2. PICK f : f = [fd EXCEPT ![0] = a]
  OBVIOUS
<1>3. DOMAIN f = 0 .. 2 /\ f[0] = a
  BY <1>1, <1>2
<1>4. PICK h : h = [f EXCEPT ![1] = b]
  OBVIOUS
<1>5. DOMAIN h = 0 .. 2 /\ h[0] = a /\ h[1] = b
  BY <1>3, <1>4
<1>6. PICK g : g = [h EXCEPT ![2] = c]
  OBVIOUS
<1>7. DOMAIN g = 0 .. 2 /\ g[0] = a /\ g[1] = b /\ g[2] = c
  BY <1>5, <1>6
<1>8. g = [i \in 0 .. 2 |-> g[i]]
  BY <1>5, <1>6
<1>9. g = Tres(fd, a, b, c)
  BY <1>2, <1>4, <1>6, Zenon DEF Tres
<1> QED
  BY <1>7, <1>8, <1>9, Zenon

\* The redirections put files in the descriptors, and otherwise nothing new.
LEMMA RedirigidosDatos ==
    ASSUME NEW fd, fd = [i \in 0 .. 2 |-> fd[i]], NEW s
    PROVE  LET f == Redirigidos(fd, s)
               as == {Archivo(s.in_file), Archivo(s.out_file), Archivo(s.err_file)}
           IN  /\ f = [i \in 0 .. 2 |-> f[i]]
               /\ f[0] \in as \cup {fd[0]}
               /\ f[1] \in as \cup {fd[1]} /\ f[2] \in as \cup {fd[1], fd[2]}
<1> DEFINE as == {Archivo(s.in_file), Archivo(s.out_file), Archivo(s.err_file)}
           ent == IF s.in_file  # "" THEN Archivo(s.in_file)  ELSE fd[0]
           sal == IF s.out_file # "" THEN Archivo(s.out_file) ELSE fd[1]
           err == IF s.err_file = s.out_file THEN sal
                  ELSE IF s.err_file # "" THEN Archivo(s.err_file) ELSE fd[2]
<1>1. ent \in as \cup {fd[0]} /\ sal \in as \cup {fd[1]} /\ err \in as \cup {fd[1], fd[2]}
  BY Zenon
<1>2. Redirigidos(fd, s) =
        IF s.redir THEN [fd EXCEPT ![0] = ent, ![1] = sal, ![2] = err] ELSE fd
  BY Zenon DEF Redirigidos
<1> HIDE DEF as, ent, sal, err
<1>3. PICK g : g = Redirigidos(fd, s)
  OBVIOUS
<1>4. /\ g = [i \in 0 .. 2 |-> g[i]] /\ g[0] \in as \cup {fd[0]}
      /\ g[1] \in as \cup {fd[1]} /\ g[2] \in as \cup {fd[1], fd[2]}
  <2>1. CASE s.redir
    <3>1. g = Tres(fd, ent, sal, err)
      BY <1>2, <1>3, <2>1, Zenon DEF Tres
    <3>2. g = [i \in 0 .. 2 |-> g[i]] /\ g[0] = ent /\ g[1] = sal /\ g[2] = err
      BY <3>1, TresDescriptores
    <3> QED
      BY <1>1, <3>2, Zenon
  <2>2. CASE ~s.redir
    <3>1. g = fd
      BY <1>2, <1>3, <2>2
    <3> QED
      BY <3>1
  <2> QED
    BY <2>1, <2>2
<1> QED
  BY <1>3, <1>4, Zenon DEF as

LEMMA ExecCmdExecDatos ==
    ASSUME Tipos, NEW p \in Pids, ExecCmdExec(p)
    PROVE  /\ Mueve(p) /\ proc'[p].cmd = proc[p].cmd
           /\ proc'[p].extremos = proc[p].extremos /\ proc'[p].pipefd = proc[p].pipefd
           /\ proc'[p].fd = Redirigidos(proc[p].fd, proc[p].cmd[1])
           /\ proc'[p].environ = SetEnvironVars(proc[p].environ, proc[p].cmd[1].eargv)
           /\ proc[p].pc \in {"exec_cmd", "redir"} /\ proc'[p].pc = "programa"
           /\ \A k \in Pids :
                /\ proc'[p].fd[0] \in {Lee(k), Escribe(k)} => proc'[p].fd[0] = proc[p].fd[0]
                /\ Escribe(k) \in {proc'[p].fd[1], proc'[p].fd[2]} =>
                        Escribe(k) \in {proc[p].fd[1], proc[p].fd[2]}
<1> DEFINE s == proc[p].cmd[1]
           f == Redirigidos(proc[p].fd, s)
           e == SetEnvironVars(proc[p].environ, s.eargv)
           x == [proc[p] EXCEPT !.fd = f, !.pc = "programa", !.environ = e]
<1>1. Proceso(proc[p], p) /\ proc[p].est = "vivo" /\ proc[p].pc \in {"exec_cmd", "redir"}
  BY DEF ExecCmdExec, EnEtapa, En, Tipos
<1>2. p # SHELL
  BY <1>1 DEF Proceso, PcShell
<1>3. proc[p].fd = [i \in 0 .. 2 |-> proc[p].fd[i]]
  BY <1>1 DEF Proceso
<1>4. /\ f = [i \in 0 .. 2 |-> f[i]]
      /\ \A k \in Pids :
                /\ f[0] \in {Lee(k), Escribe(k)} => f[0] = proc[p].fd[0]
                /\ Escribe(k) \in {f[1], f[2]} =>
                        Escribe(k) \in {proc[p].fd[1], proc[p].fd[2]}
  <2> DEFINE as == {Archivo(s.in_file), Archivo(s.out_file), Archivo(s.err_file)}
  <2>1. /\ f = [i \in 0 .. 2 |-> f[i]]
        /\ f[0] \in as \cup {proc[p].fd[0]}
        /\ f[1] \in as \cup {proc[p].fd[1]} /\ f[2] \in as \cup {proc[p].fd[1], proc[p].fd[2]}
    BY <1>3, RedirigidosDatos
  <2>2. \A k \in Pids : Lee(k) \notin as /\ Escribe(k) \notin as
    BY DEF Archivo, Lee, Escribe
  <2> HIDE DEF as, f
  <2> QED
    BY <2>1, <2>2
<1>5. proc' = [proc EXCEPT ![p].fd = f, ![p].pc = "programa", ![p].environ = e]
  BY <1>1, Zenon DEF ExecCmdExec
<1> HIDE DEF f, e
<1>6. /\ EsRegistro(x) /\ x.est = "vivo" /\ x.fd = f /\ x.pc = "programa"
      /\ x.padre = proc[p].padre /\ x.cmd = proc[p].cmd /\ x.extremos = proc[p].extremos
      /\ x.pipefd = proc[p].pipefd /\ x.environ = e
  BY <1>1 DEF Proceso, EsRegistro, Campos
<1>7. proc' = [proc EXCEPT ![p] = x]
  BY <1>1, <1>5 DEF Tipos
<1> HIDE DEF x
<1>8. x.fd = [i \in 0 .. 2 |-> x.fd[i]] /\ x.pc \in PcHijo
  BY <1>4, <1>6 DEF PcHijo
<1>9. Mueve(p) /\ proc'[p] = x
  BY <1>1, <1>2, <1>6, <1>7, <1>8, MueveUno
<1> QED
  BY <1>1, <1>4, <1>6, <1>9 DEF f, e

\* The step of an action in which p forks.
Nace(p, pc, c) ==
    /\ proc' = [q \in Pids |-> proc'[q]]
    /\ proc[p].est = "vivo" /\ proc'[p].est = "vivo"
    /\ Proceso(proc'[p], p) /\ proc'[p].padre = proc[p].padre
    /\ \A q \in Pids \ {p, Nuevo} : proc'[q] = proc[q]
    /\ Nuevo \in Pids =>
        LET r == proc'[Nuevo]
        IN  /\ Proceso(r, Nuevo) /\ r.est = "vivo" /\ r.padre = p /\ r.pc = pc /\ r.cmd = c
            /\ r.fd = proc[p].fd /\ r.extremos = proc[p].extremos /\ r.pipefd = proc[p].pipefd
            /\ r.environ = proc[p].environ

LEMMA BifurcadoDatos ==
    ASSUME Tipos, NEW p \in Pids, NEW pc, NEW c, proc[p].est = "vivo"
    PROVE  LET r == Bifurcado(p, pc, c)
           IN  /\ EsRegistro(r) /\ r.est = "vivo" /\ r.padre = p /\ r.pc = pc /\ r.cmd = c
               /\ r.fd = proc[p].fd /\ r.extremos = proc[p].extremos
               /\ r.environ = proc[p].environ
               /\ r.pipefd = proc[p].pipefd /\ r.fd = [i \in 0 .. 2 |-> r.fd[i]]
<1> DEFINE r == Bifurcado(p, pc, c)
<1>1. EsRegistro(proc[p]) /\ proc[p].fd = [i \in 0 .. 2 |-> proc[p].fd[i]]
  BY DEF Tipos, Proceso
<1>2. /\ EsRegistro(r) /\ r.est = "vivo" /\ r.padre = p /\ r.pc = pc /\ r.cmd = c
      /\ r.fd = proc[p].fd /\ r.extremos = proc[p].extremos
      /\ r.pipefd = proc[p].pipefd /\ r.environ = proc[p].environ
  BY <1>1 DEF Bifurcado, EsRegistro, Campos
<1> HIDE DEF r
<1>3. r.fd = [i \in 0 .. 2 |-> r.fd[i]]
  BY <1>1, <1>2
<1> QED
  BY <1>2, <1>3 DEF r

LEMMA NaceUno ==
    ASSUME Tipos, NEW p \in Pids, proc[p].est = "vivo", NEW x, EsRegistro(x), x.est = "vivo",
           x.fd = [i \in 0 .. 2 |-> x.fd[i]], x.pc \in (IF p = SHELL THEN PcShell ELSE PcHijo),
           x.padre = proc[p].padre, NEW pc \in PcHijo, NEW c,
           proc' = [[proc EXCEPT ![Nuevo] = Bifurcado(p, pc, c)] EXCEPT ![p] = x]
    PROVE  Nace(p, pc, c) /\ proc'[p] = x
<1> DEFINE r == Bifurcado(p, pc, c)
<1>1. proc = [q \in Pids |-> proc[q]] /\ Nuevo # p /\ Nuevo # SHELL
  BY NuevoLibre DEF Tipos, SHELL
<1>2. /\ EsRegistro(r) /\ r.est = "vivo" /\ r.padre = p /\ r.pc = pc /\ r.cmd = c
      /\ r.fd = proc[p].fd /\ r.extremos = proc[p].extremos
      /\ r.environ = proc[p].environ
      /\ r.pipefd = proc[p].pipefd /\ r.fd = [i \in 0 .. 2 |-> r.fd[i]]
  BY BifurcadoDatos
<1> HIDE DEF r
<1>3. /\ proc' = [q \in Pids |-> proc'[q]]
      /\ \A q \in Pids : proc'[q] = IF q = p THEN x ELSE IF q = Nuevo THEN r ELSE proc[q]
  <2>1. proc' = [[proc EXCEPT ![Nuevo] = r] EXCEPT ![p] = x]
    BY DEF r
  <2>2. PICK n : n = Nuevo
    OBVIOUS
  <2> QED
    BY <1>1, <2>1, <2>2, EscribeDos
<1>4. Proceso(x, p) /\ Proceso(r, Nuevo)
  BY <1>1, <1>2 DEF Proceso
<1> QED
  BY <1>1, <1>2, <1>3, <1>4 DEF Nace

LEMMA NaceTipos ==
    ASSUME Tipos, NEW p \in Pids, NEW pc, NEW c, Nace(p, pc, c), fallos' \in Nat
    PROVE  Tipos'
<1>1. Nuevo # p /\ \A q \in Pids : q = Nuevo => proc[q].est = "libre"
  BY NuevoLibre DEF Nace
<1>2. \A q \in Pids :
        /\ Proceso(proc'[q], q)
        /\ proc'[q].est = "libre" <=> proc[q].est = "libre" /\ q # Nuevo
  BY <1>1 DEF Nace, Tipos
<1> QED
  BY <1>2, TiposFork DEF Nace

LEMMA Fork1Datos ==
    ASSUME Tipos, NEW p \in Pids, Fork1(p)
    PROVE  \/ /\ fallos' = fallos + 1 /\ proc[p].est = "vivo" /\ proc[p].pc = "fork_1"
              /\ Termina(p, EXIT_255)
           \/ /\ fallos' = fallos /\ proc[p].pc = "fork_1" /\ p # SHELL
              /\ Nace(p, "hijo_1", <<proc[p].cmd[1]>>)
              /\ proc'[p].pc = "fork_2" /\ proc'[p].cmd = proc[p].cmd
              /\ proc'[p].fd = proc[p].fd /\ proc'[p].pipefd = proc[p].pipefd
              /\ proc'[p].environ = proc[p].environ
              /\ proc'[p].extremos = proc[p].extremos \ {Escribe(p)}
<1> DEFINE c == <<proc[p].cmd[1]>>
           y == Bifurcado(p, "hijo_1", c)
           e == proc[p].extremos \ {Escribe(p)}
           x == [proc[p] EXCEPT !.extremos = e, !.pc = "fork_2"]
<1>1. proc[p].est = "vivo" /\ proc[p].pc = "fork_1"
  BY DEF Fork1, En
<1>2. CASE ForkFalla(p)
  BY <1>1, <1>2 DEF ForkFalla
<1>3. ASSUME proc' = [proc EXCEPT ![Nuevo] = y, ![p].extremos = @ \ {Escribe(p)},
                                  ![p].pc = "fork_2"],
             fallos' = fallos
      PROVE  /\ fallos' = fallos /\ p # SHELL
             /\ Nace(p, "hijo_1", c)
             /\ proc'[p].pc = "fork_2" /\ proc'[p].cmd = proc[p].cmd
             /\ proc'[p].fd = proc[p].fd /\ proc'[p].pipefd = proc[p].pipefd
             /\ proc'[p].environ = proc[p].environ
             /\ proc'[p].extremos = e
  <2>1. Proceso(proc[p], p) /\ p # SHELL
    BY <1>1 DEF Tipos, Proceso, PcShell
  <2> HIDE DEF y, c
  <2>2. /\ EsRegistro(x) /\ x.est = "vivo" /\ x.fd = proc[p].fd /\ x.pc = "fork_2"
        /\ x.padre = proc[p].padre /\ x.cmd = proc[p].cmd /\ x.extremos = e
        /\ x.pipefd = proc[p].pipefd /\ x.environ = proc[p].environ
    BY <1>1, <2>1 DEF Proceso, EsRegistro, Campos
  <2>3. proc' = [[proc EXCEPT ![Nuevo] = y] EXCEPT ![p] = x]
    <3>1. Nuevo # p
      BY <1>1, NuevoLibre
    <3>2. PICK n : n = Nuevo
      OBVIOUS
    <3>3. PICK f : f = [proc EXCEPT ![n] = y]
      OBVIOUS
    <3>4. f[p] = proc[p] /\ p \in DOMAIN f
      BY <3>1, <3>2, <3>3 DEF Tipos
    <3>5. proc' = [[f EXCEPT ![p].extremos = e] EXCEPT ![p].pc = "fork_2"]
      BY <1>3, <3>2, <3>3, Zenon
    <3>6. proc' = [f EXCEPT ![p] = x]
      BY <3>4, <3>5
    <3> QED
      BY <3>2, <3>3, <3>6, Zenon
  <2> HIDE DEF x
  <2>4. x.fd = [i \in 0 .. 2 |-> x.fd[i]] /\ x.pc \in PcHijo /\ "hijo_1" \in PcHijo
    BY <2>1, <2>2 DEF Proceso, PcHijo
  <2>5. Nace(p, "hijo_1", c) /\ proc'[p] = x
    BY <1>1, <2>1, <2>2, <2>3, <2>4, NaceUno DEF y
  <2> QED
    BY <1>3, <2>1, <2>2, <2>5
<1> QED
  BY <1>1, <1>2, <1>3 DEF Fork1

LEMMA Fork2Datos ==
    ASSUME Tipos, NEW p \in Pids, Fork2(p)
    PROVE  \/ /\ fallos' = fallos + 1 /\ proc[p].est = "vivo" /\ proc[p].pc = "fork_2"
              /\ Termina(p, EXIT_255)
           \/ /\ fallos' = fallos /\ proc[p].pc = "fork_2" /\ p # SHELL
              /\ Nace(p, "hijo_2", Tail(proc[p].cmd))
              /\ proc'[p].pc = "wait_1" /\ proc'[p].cmd = proc[p].cmd
              /\ proc'[p].fd = proc[p].fd /\ proc'[p].pipefd = proc[p].pipefd
              /\ proc'[p].environ = proc[p].environ
              /\ proc'[p].extremos = proc[p].extremos \ {Lee(p)}
<1> DEFINE c == Tail(proc[p].cmd)
           y == Bifurcado(p, "hijo_2", c)
           e == proc[p].extremos \ {Lee(p)}
           x == [proc[p] EXCEPT !.extremos = e, !.pc = "wait_1"]
<1>1. proc[p].est = "vivo" /\ proc[p].pc = "fork_2"
  BY DEF Fork2, En
<1>2. CASE ForkFalla(p)
  BY <1>1, <1>2 DEF ForkFalla
<1>3. ASSUME proc' = [proc EXCEPT ![Nuevo] = y, ![p].extremos = @ \ {Lee(p)},
                                  ![p].pc = "wait_1"],
             fallos' = fallos
      PROVE  /\ fallos' = fallos /\ p # SHELL
             /\ Nace(p, "hijo_2", c)
             /\ proc'[p].pc = "wait_1" /\ proc'[p].cmd = proc[p].cmd
             /\ proc'[p].fd = proc[p].fd /\ proc'[p].pipefd = proc[p].pipefd
             /\ proc'[p].environ = proc[p].environ
             /\ proc'[p].extremos = e
  <2>1. Proceso(proc[p], p) /\ p # SHELL
    BY <1>1 DEF Tipos, Proceso, PcShell
  <2> HIDE DEF y, c
  <2>2. /\ EsRegistro(x) /\ x.est = "vivo" /\ x.fd = proc[p].fd /\ x.pc = "wait_1"
        /\ x.padre = proc[p].padre /\ x.cmd = proc[p].cmd /\ x.extremos = e
        /\ x.pipefd = proc[p].pipefd /\ x.environ = proc[p].environ
    BY <1>1, <2>1 DEF Proceso, EsRegistro, Campos
  <2>3. proc' = [[proc EXCEPT ![Nuevo] = y] EXCEPT ![p] = x]
    <3>1. Nuevo # p
      BY <1>1, NuevoLibre
    <3>2. PICK n : n = Nuevo
      OBVIOUS
    <3>3. PICK f : f = [proc EXCEPT ![n] = y]
      OBVIOUS
    <3>4. f[p] = proc[p] /\ p \in DOMAIN f
      BY <3>1, <3>2, <3>3 DEF Tipos
    <3>5. proc' = [[f EXCEPT ![p].extremos = e] EXCEPT ![p].pc = "wait_1"]
      BY <1>3, <3>2, <3>3, Zenon
    <3>6. proc' = [f EXCEPT ![p] = x]
      BY <3>4, <3>5
    <3> QED
      BY <3>2, <3>3, <3>6, Zenon
  <2> HIDE DEF x
  <2>4. x.fd = [i \in 0 .. 2 |-> x.fd[i]] /\ x.pc \in PcHijo /\ "hijo_2" \in PcHijo
    BY <2>1, <2>2 DEF Proceso, PcHijo
  <2>5. Nace(p, "hijo_2", c) /\ proc'[p] = x
    BY <1>1, <2>1, <2>2, <2>3, <2>4, NaceUno DEF y
  <2> QED
    BY <1>3, <2>1, <2>2, <2>5
<1> QED
  BY <1>1, <1>2, <1>3 DEF Fork2

\* The step of an action that reaps z and writes the record of p.
LEMMA MueveDos ==
    ASSUME Tipos, NEW p \in Pids, proc[p].est = "vivo", NEW x, EsRegistro(x), x.est = "vivo",
           x.fd = [i \in 0 .. 2 |-> x.fd[i]], x.pc \in (IF p = SHELL THEN PcShell ELSE PcHijo),
           x.padre = proc[p].padre, NEW z \in Zombis(p),
           proc' = [[proc EXCEPT ![z] = Cosechado] EXCEPT ![p] = x]
    PROVE  Mueve(p) /\ proc'[p] = x /\ proc'[z] = Cosechado /\ z # p
<1>1. /\ proc = [q \in Pids |-> proc[q]] /\ z # p /\ z \in Pids
      /\ proc[z].est = "zombi" /\ proc[z].padre = p
  BY DEF Tipos, Zombis
<1>2. /\ proc' = [q \in Pids |-> proc'[q]]
      /\ \A q \in Pids : proc'[q] = IF q = p THEN x ELSE IF q = z THEN Cosechado ELSE proc[q]
  <2>1. PICK c : c = Cosechado
    OBVIOUS
  <2> QED
    BY <1>1, <2>1, EscribeDos
<1> QED
  BY <1>1, <1>2 DEF Mueve, Proceso

LEMMA ExecCmdPipeDatos ==
    ASSUME Tipos, NEW p \in Pids, ExecCmdPipe(p)
    PROVE  /\ Mueve(p) /\ proc'[p].cmd = proc[p].cmd /\ proc'[p].fd = proc[p].fd
           /\ proc'[p].extremos = proc[p].extremos \cup {Lee(p), Escribe(p)}
           /\ proc'[p].environ = proc[p].environ
           /\ proc'[p].pipefd = p /\ EsPipe(proc[p].cmd) /\ p # SHELL
           /\ proc[p].pc = "exec_cmd" /\ proc'[p].pc = "fork_1"
<1> DEFINE e == proc[p].extremos \cup {Lee(p), Escribe(p)}
           x == [proc[p] EXCEPT !.extremos = e, !.pipefd = p, !.pc = "fork_1"]
<1>1. /\ Proceso(proc[p], p) /\ proc[p].est = "vivo" /\ proc[p].pc = "exec_cmd"
      /\ EsPipe(proc[p].cmd)
  BY DEF ExecCmdPipe, En, Tipos
<1>2. p # SHELL
  BY <1>1 DEF Proceso, PcShell
<1>3. /\ EsRegistro(x) /\ x.est = "vivo" /\ x.fd = proc[p].fd /\ x.pc = "fork_1"
      /\ x.padre = proc[p].padre /\ x.cmd = proc[p].cmd /\ x.extremos = e
      /\ x.pipefd = p /\ x.environ = proc[p].environ
  BY <1>1 DEF Proceso, EsRegistro, Campos
<1>4. proc' = [proc EXCEPT ![p] = x]
  BY <1>1 DEF ExecCmdPipe, Tipos
<1> HIDE DEF x
<1>5. x.fd = [i \in 0 .. 2 |-> x.fd[i]] /\ x.pc \in PcHijo
  BY <1>1, <1>3 DEF Proceso, PcHijo
<1>6. Mueve(p) /\ proc'[p] = x
  BY <1>1, <1>2, <1>3, <1>4, <1>5, MueveUno
<1> QED
  BY <1>1, <1>2, <1>3, <1>6

LEMMA Hijo1Datos ==
    ASSUME Tipos, NEW p \in Pids, Hijo1(p)
    PROVE  /\ Mueve(p) /\ proc'[p].cmd = proc[p].cmd
           /\ proc'[p].pipefd = proc[p].pipefd /\ proc'[p].environ = proc[p].environ
           /\ proc'[p].fd = [proc[p].fd EXCEPT ![1] = Escribe(proc[p].pipefd)]
           /\ proc'[p].extremos =
                proc[p].extremos \ {Lee(proc[p].pipefd), Escribe(proc[p].pipefd)}
           /\ proc[p].pc = "hijo_1" /\ proc'[p].pc = "exec_cmd"
<1> DEFINE k == proc[p].pipefd
           e == proc[p].extremos \ {Lee(k), Escribe(k)}
           f == [proc[p].fd EXCEPT ![1] = Escribe(k)]
           x == [proc[p] EXCEPT !.fd = f, !.extremos = e, !.pc = "exec_cmd"]
<1>1. Proceso(proc[p], p) /\ proc[p].est = "vivo" /\ proc[p].pc = "hijo_1"
  BY DEF Hijo1, En, Tipos
<1>2. p # SHELL
  BY <1>1 DEF Proceso, PcShell
<1>3. f = [i \in 0 .. 2 |-> f[i]]
  BY <1>1 DEF Proceso
<1> HIDE DEF f
<1>4. /\ EsRegistro(x) /\ x.est = "vivo" /\ x.fd = f /\ x.pc = "exec_cmd"
      /\ x.padre = proc[p].padre /\ x.cmd = proc[p].cmd /\ x.extremos = e
      /\ x.pipefd = proc[p].pipefd /\ x.environ = proc[p].environ
  BY <1>1 DEF Proceso, EsRegistro, Campos
<1>5. proc' = [proc EXCEPT ![p] = x]
  <2>1. proc' = [proc EXCEPT ![p].fd = f, ![p].extremos = e, ![p].pc = "exec_cmd"]
    BY <1>1 DEF Hijo1, f
  <2> QED
    BY <1>1, <2>1 DEF Tipos
<1> HIDE DEF x
<1>6. x.fd = [i \in 0 .. 2 |-> x.fd[i]] /\ x.pc \in PcHijo
  BY <1>3, <1>4 DEF PcHijo
<1>7. Mueve(p) /\ proc'[p] = x
  BY <1>1, <1>2, <1>4, <1>5, <1>6, MueveUno
<1> QED
  BY <1>1, <1>4, <1>7 DEF f

LEMMA Hijo2Datos ==
    ASSUME Tipos, NEW p \in Pids, Hijo2(p)
    PROVE  /\ Mueve(p) /\ proc'[p].cmd = proc[p].cmd
           /\ proc'[p].pipefd = proc[p].pipefd /\ proc'[p].environ = proc[p].environ
           /\ proc'[p].fd = [proc[p].fd EXCEPT ![0] = Lee(proc[p].pipefd)]
           /\ proc'[p].extremos = proc[p].extremos \ {Lee(proc[p].pipefd)}
           /\ proc[p].pc = "hijo_2" /\ proc'[p].pc = "exec_cmd"
<1> DEFINE k == proc[p].pipefd
           e == proc[p].extremos \ {Lee(k)}
           f == [proc[p].fd EXCEPT ![0] = Lee(k)]
           x == [proc[p] EXCEPT !.fd = f, !.extremos = e, !.pc = "exec_cmd"]
<1>1. Proceso(proc[p], p) /\ proc[p].est = "vivo" /\ proc[p].pc = "hijo_2"
  BY DEF Hijo2, En, Tipos
<1>2. p # SHELL
  BY <1>1 DEF Proceso, PcShell
<1>3. f = [i \in 0 .. 2 |-> f[i]]
  BY <1>1 DEF Proceso
<1> HIDE DEF f
<1>4. /\ EsRegistro(x) /\ x.est = "vivo" /\ x.fd = f /\ x.pc = "exec_cmd"
      /\ x.padre = proc[p].padre /\ x.cmd = proc[p].cmd /\ x.extremos = e
      /\ x.pipefd = proc[p].pipefd /\ x.environ = proc[p].environ
  BY <1>1 DEF Proceso, EsRegistro, Campos
<1>5. proc' = [proc EXCEPT ![p] = x]
  <2>1. proc' = [proc EXCEPT ![p].fd = f, ![p].extremos = e, ![p].pc = "exec_cmd"]
    BY <1>1 DEF Hijo2, f
  <2> QED
    BY <1>1, <2>1 DEF Tipos
<1> HIDE DEF x
<1>6. x.fd = [i \in 0 .. 2 |-> x.fd[i]] /\ x.pc \in PcHijo
  BY <1>3, <1>4 DEF PcHijo
<1>7. Mueve(p) /\ proc'[p] = x
  BY <1>1, <1>2, <1>4, <1>5, <1>6, MueveUno
<1> QED
  BY <1>1, <1>4, <1>7 DEF f

LEMMA PipeWaitDatos ==
    ASSUME Tipos, NEW p \in Pids, NEW pc \in PcHijo, NEW sig \in PcHijo, PipeWait(p, pc, sig)
    PROVE  /\ Mueve(p) /\ proc'[p].cmd = proc[p].cmd /\ proc'[p].fd = proc[p].fd
           /\ proc'[p].extremos = proc[p].extremos /\ proc'[p].pipefd = proc[p].pipefd
           /\ proc'[p].environ = proc[p].environ
           /\ proc[p].pc = pc /\ proc'[p].pc = sig
           /\ \/ \A q \in Pids : ~EsHijo(q, p)
              \/ \E z \in Pids : EsHijo(z, p) /\ proc'[z] = Cosechado
<1> DEFINE x == [proc[p] EXCEPT !.pc = sig]
<1>1. Proceso(proc[p], p) /\ proc[p].est = "vivo" /\ proc[p].pc = pc
  BY DEF PipeWait, En, Tipos
<1>2. p # SHELL
  BY <1>1 DEF Proceso, PcShell, PcHijo
<1>3. /\ EsRegistro(x) /\ x.est = "vivo" /\ x.fd = proc[p].fd /\ x.pc = sig
      /\ x.padre = proc[p].padre /\ x.cmd = proc[p].cmd /\ x.extremos = proc[p].extremos
      /\ x.pipefd = proc[p].pipefd /\ x.environ = proc[p].environ
  BY <1>1 DEF Proceso, EsRegistro, Campos
<1>4. x.fd = [i \in 0 .. 2 |-> x.fd[i]] /\ x.pc \in PcHijo
  BY <1>1, <1>3 DEF Proceso
<1>5. CASE Hijos(p) = {} /\ proc' = [proc EXCEPT ![p].pc = sig]
  <2>1. proc' = [proc EXCEPT ![p] = x]
    BY <1>1, <1>5 DEF Tipos
  <2> HIDE DEF x
  <2>2. Mueve(p) /\ proc'[p] = x
    BY <1>1, <1>2, <1>3, <1>4, <2>1, MueveUno
  <2>3. \A q \in Pids : ~EsHijo(q, p)
    BY <1>5 DEF Hijos, EsHijo, EnFamilia
  <2> QED
    BY <1>1, <1>3, <2>2, <2>3
<1>6. ASSUME NEW z \in Zombis(p), proc' = [proc EXCEPT ![z] = Cosechado, ![p].pc = sig]
      PROVE  /\ Mueve(p) /\ proc'[p] = x
             /\ EsHijo(z, p) /\ proc'[z] = Cosechado
  <2>1. z # p /\ EsHijo(z, p)
    BY <1>1 DEF Zombis, EsHijo, EnFamilia
  <2>2. proc' = [[proc EXCEPT ![z] = Cosechado] EXCEPT ![p] = x]
    <3>1. PICK c : c = Cosechado
      OBVIOUS
    <3>2. PICK f : f = [proc EXCEPT ![z] = c]
      OBVIOUS
    <3>3. f[p] = proc[p] /\ p \in DOMAIN f
      BY <2>1, <3>2 DEF Tipos
    <3>4. proc' = [f EXCEPT ![p].pc = sig]
      BY <1>6, <3>1, <3>2, Zenon
    <3>5. proc' = [f EXCEPT ![p] = x]
      BY <3>3, <3>4
    <3> QED
      BY <3>1, <3>2, <3>5, Zenon
  <2> HIDE DEF x
  <2> QED
    BY <1>1, <1>2, <1>3, <1>4, <2>1, <2>2, MueveDos
<1> HIDE DEF x
<1>7. CASE \E z \in Zombis(p) : proc' = [proc EXCEPT ![z] = Cosechado, ![p].pc = sig]
  <2>1. PICK z \in Zombis(p) : proc' = [proc EXCEPT ![z] = Cosechado, ![p].pc = sig]
    BY <1>7
  <2> QED
    BY <1>1, <1>3, <1>6, <2>1 DEF Zombis
<1> QED
  BY <1>5, <1>7, Zenon DEF PipeWait

LEMMA SigchldHandlerDatos ==
    ASSUME Tipos, NEW p \in Pids, SigchldHandler(p)
    PROVE  /\ Mueve(p) /\ proc'[p].cmd = proc[p].cmd /\ proc'[p].fd = proc[p].fd
           /\ proc'[p].extremos = proc[p].extremos /\ proc'[p].pipefd = proc[p].pipefd
           /\ proc'[p].environ = proc[p].environ
           /\ proc'[p].pc = proc[p].pc
<1> DEFINE x == [proc[p] EXCEPT !.sigchld = FALSE]
           grupo == IF proc[p].bg_pgid = 0 THEN proc[p].pgid ELSE proc[p].bg_pgid
<1>1. Proceso(proc[p], p) /\ proc[p].est = "vivo"
  BY DEF SigchldHandler, Tipos
<1>2. /\ EsRegistro(x) /\ x.est = "vivo" /\ x.fd = proc[p].fd /\ x.pc = proc[p].pc
      /\ x.padre = proc[p].padre /\ x.cmd = proc[p].cmd /\ x.extremos = proc[p].extremos
      /\ x.pipefd = proc[p].pipefd /\ x.environ = proc[p].environ
  BY <1>1 DEF Proceso, EsRegistro, Campos
<1>3. proc' = [q \in Pids |->
                IF q = p THEN x
                ELSE IF q \in Zombis(p) /\ proc[q].pgid = grupo THEN Cosechado
                ELSE proc[q]]
  BY Zenon DEF SigchldHandler
<1> HIDE DEF x, grupo
<1>4. Proceso(x, p)
  BY <1>1, <1>2 DEF Proceso
<1>5. /\ proc' = [q \in Pids |-> proc'[q]] /\ proc'[p] = x
      /\ \A q \in Pids \ {p} :
            \/ proc'[q] = proc[q]
            \/ proc[q].est = "zombi" /\ proc[q].padre = p /\ proc'[q] = Cosechado
  BY <1>3 DEF Zombis
<1> QED
  BY <1>1, <1>2, <1>4, <1>5 DEF Mueve

\* The shell with another command and at another statement.
ShellEn(c, pc) == [proc[SHELL] EXCEPT !.cmd = c, !.pc = pc]

LEMMA ShellEnDatos ==
    ASSUME Tipos, proc[SHELL].est = "vivo", NEW c, NEW pc \in PcShell
    PROVE  LET x == ShellEn(c, pc)
           IN  /\ EsRegistro(x) /\ x.est = "vivo" /\ x.fd = proc[SHELL].fd /\ x.pc = pc
               /\ x.padre = proc[SHELL].padre /\ x.cmd = c
               /\ x.extremos = proc[SHELL].extremos /\ x.pipefd = proc[SHELL].pipefd
               /\ x.environ = proc[SHELL].environ
               /\ x.fd = [i \in 0 .. 2 |-> x.fd[i]]
<1> DEFINE x == ShellEn(c, pc)
<1>1. Proceso(proc[SHELL], SHELL)
  BY ShellEsPid DEF Tipos
<1>2. /\ EsRegistro(x) /\ x.est = "vivo" /\ x.fd = proc[SHELL].fd /\ x.pc = pc
      /\ x.padre = proc[SHELL].padre /\ x.cmd = c
      /\ x.extremos = proc[SHELL].extremos /\ x.pipefd = proc[SHELL].pipefd
      /\ x.environ = proc[SHELL].environ
  BY <1>1 DEF Proceso, EsRegistro, Campos, ShellEn
<1> HIDE DEF x
<1>3. x.fd = [i \in 0 .. 2 |-> x.fd[i]]
  BY <1>1, <1>2 DEF Proceso
<1> QED
  BY <1>2, <1>3 DEF x

LEMMA AlPromptEs ==
    ASSUME NEW f, f[SHELL] = proc[SHELL], SHELL \in DOMAIN f
    PROVE  AlPrompt(f) = [f EXCEPT ![SHELL] = ShellEn(<<>>, "prompt")]
BY DEF AlPrompt, FreeCommand, ShellEn

LEMMA RunCmdDatos ==
    ASSUME Tipos, NEW l, En(SHELL, "prompt"), RunCmd(l)
    PROVE  /\ Mueve(SHELL) /\ proc'[SHELL].fd = proc[SHELL].fd
           /\ proc'[SHELL].extremos = proc[SHELL].extremos
           /\ proc'[SHELL].pipefd = proc[SHELL].pipefd
           /\ proc'[SHELL].environ = proc[SHELL].environ
           /\ proc[SHELL].pc = "prompt" /\ proc'[SHELL].pc = "fork"
           /\ hijo' = hijo /\ fallos' = fallos /\ status' = status
           /\ linea' = l /\ proc'[SHELL].cmd = ParseLine(l, status, Entorno)
<1> DEFINE c == ParseLine(l, status, Entorno)
           x == ShellEn(c, "fork")
<1>1. SHELL \in Pids /\ proc[SHELL].est = "vivo" /\ proc[SHELL].pc = "prompt"
  BY ShellEsPid DEF En
<1>2. /\ proc' = [proc EXCEPT ![SHELL].pc = "fork", ![SHELL].cmd = c]
      /\ hijo' = hijo /\ fallos' = fallos /\ status' = status /\ linea' = l
  BY Zenon DEF RunCmd
<1> HIDE DEF c
<1>3. /\ EsRegistro(x) /\ x.est = "vivo" /\ x.fd = proc[SHELL].fd /\ x.pc = "fork"
      /\ x.padre = proc[SHELL].padre /\ x.cmd = c
      /\ x.extremos = proc[SHELL].extremos /\ x.pipefd = proc[SHELL].pipefd
      /\ x.environ = proc[SHELL].environ
      /\ x.fd = [i \in 0 .. 2 |-> x.fd[i]] /\ x.pc \in PcShell
  <2>1. "fork" \in PcShell
    BY DEF PcShell
  <2> QED
    BY <1>1, <2>1, ShellEnDatos
<1>4. proc' = [proc EXCEPT ![SHELL] = x]
  <2>1. EsRegistro(proc[SHELL])
    BY <1>1 DEF Tipos, Proceso
  <2>2. x = [proc[SHELL] EXCEPT !.pc = "fork", !.cmd = c]
    BY <2>1 DEF ShellEn, EsRegistro, Campos
  <2> HIDE DEF x
  <2> QED
    BY <1>1, <1>2, <2>2 DEF Tipos
<1> HIDE DEF x
<1>5. Mueve(SHELL) /\ proc'[SHELL] = x
  BY <1>1, <1>3, <1>4, MueveUno
<1> QED
  BY <1>1, <1>2, <1>3, <1>5 DEF c

LEMMA RunCmdWaitDatos ==
    ASSUME Tipos, RunCmdWait
    PROVE  /\ Mueve(SHELL) /\ proc'[SHELL].fd = proc[SHELL].fd
           /\ proc'[SHELL].extremos = proc[SHELL].extremos
           /\ proc'[SHELL].pipefd = proc[SHELL].pipefd
           /\ proc'[SHELL].environ = proc[SHELL].environ
           /\ proc[SHELL].pc = "espera" /\ proc'[SHELL].pc = "prompt"
           /\ fallos' = fallos
           /\ \A q \in Pids : EsHijo(q, SHELL) => q # hijo \/ proc'[q] = Cosechado
<1> DEFINE x == ShellEn(<<>>, "prompt")
           esperados == IF hijo = FALLO THEN Hijos(SHELL) ELSE Hijos(SHELL) \cap {hijo}
<1>1. SHELL \in Pids /\ proc[SHELL].est = "vivo" /\ proc[SHELL].pc = "espera"
  BY ShellEsPid DEF RunCmdWait, En
<1>2. /\ EsRegistro(x) /\ x.est = "vivo" /\ x.fd = proc[SHELL].fd /\ x.pc = "prompt"
      /\ x.padre = proc[SHELL].padre
      /\ x.extremos = proc[SHELL].extremos /\ x.pipefd = proc[SHELL].pipefd
      /\ x.environ = proc[SHELL].environ
      /\ x.fd = [i \in 0 .. 2 |-> x.fd[i]] /\ x.pc \in PcShell
  <2>1. "prompt" \in PcShell
    BY DEF PcShell
  <2> QED
    BY <1>1, <2>1, ShellEnDatos
<1>3. /\ fallos' = fallos
      /\ \/ \E z \in esperados \cap Zombis(SHELL) :
                proc' = AlPrompt([proc EXCEPT ![z] = Cosechado])
         \/ esperados = {} /\ proc' = AlPrompt(proc)
  BY Zenon DEF RunCmdWait
<1>4. \A q \in Pids : EsHijo(q, SHELL) <=> q \in Hijos(SHELL)
  BY DEF Hijos, EsHijo, EnFamilia
<1>5. \A q \in Pids : q # FALLO
  BY ShellEsPid
<1>6. CASE esperados = {} /\ proc' = AlPrompt(proc)
  <2>1. proc' = [proc EXCEPT ![SHELL] = x]
    BY <1>1, <1>6, AlPromptEs DEF Tipos
  <2> HIDE DEF x
  <2>2. Mueve(SHELL) /\ proc'[SHELL] = x
    BY <1>1, <1>2, <2>1, MueveUno
  <2>3. \A q \in Pids : EsHijo(q, SHELL) => q # hijo
    BY <1>4, <1>5, <1>6
  <2> QED
    BY <1>1, <1>2, <1>3, <2>2, <2>3
<1>7. ASSUME NEW z \in esperados \cap Zombis(SHELL),
             proc' = AlPrompt([proc EXCEPT ![z] = Cosechado])
      PROVE  /\ Mueve(SHELL) /\ proc'[SHELL] = x
             /\ \A q \in Pids : EsHijo(q, SHELL) => q # hijo \/ proc'[q] = Cosechado
  <2>1. z # SHELL /\ z \in Pids
    BY <1>1 DEF Zombis
  <2>2. proc' = [[proc EXCEPT ![z] = Cosechado] EXCEPT ![SHELL] = x]
    <3>1. PICK c : c = Cosechado
      OBVIOUS
    <3>2. PICK f : f = [proc EXCEPT ![z] = c]
      OBVIOUS
    <3>3. f[SHELL] = proc[SHELL] /\ SHELL \in DOMAIN f
      BY <1>1, <2>1, <3>2 DEF Tipos
    <3>4. proc' = AlPrompt(f)
      BY <1>7, <3>1, <3>2, Zenon
    <3>5. proc' = [f EXCEPT ![SHELL] = x]
      BY <3>3, <3>4, AlPromptEs
    <3> QED
      BY <3>1, <3>2, <3>5, Zenon
  <2> HIDE DEF x
  <2>3. Mueve(SHELL) /\ proc'[SHELL] = x /\ proc'[z] = Cosechado
    BY <1>1, <1>2, <2>2, MueveDos
  <2>4. \A q \in Pids : EsHijo(q, SHELL) /\ q = hijo => q = z
    BY <1>4, <1>5, <1>7
  <2> QED
    BY <2>3, <2>4
<1> HIDE DEF x, esperados
<1>8. CASE \E z \in esperados \cap Zombis(SHELL) :
                proc' = AlPrompt([proc EXCEPT ![z] = Cosechado])
  <2>1. PICK z \in esperados \cap Zombis(SHELL) :
                proc' = AlPrompt([proc EXCEPT ![z] = Cosechado])
    BY <1>8
  <2> QED
    BY <1>1, <1>2, <1>3, <1>7, <2>1
<1> QED
  BY <1>3, <1>6, <1>8

LEMMA RunCmdForkDatos ==
    ASSUME Tipos, RunCmdFork
    PROVE  /\ proc[SHELL].pc = "fork" /\ proc[SHELL].est = "vivo"
           /\ proc'[SHELL].fd = proc[SHELL].fd
           /\ proc'[SHELL].extremos = proc[SHELL].extremos
           /\ proc'[SHELL].pipefd = proc[SHELL].pipefd
           /\ proc'[SHELL].environ = proc[SHELL].environ
           /\ status' = status
           /\ \/ EsBack(proc[SHELL].cmd) /\ proc'[SHELL].pc = "prompt"
              \/ /\ ~EsBack(proc[SHELL].cmd) /\ proc'[SHELL].pc = "espera"
                 /\ proc'[SHELL].cmd = proc[SHELL].cmd /\ linea' = linea
           /\ \/ Mueve(SHELL) /\ fallos' = fallos + 1
              \/ /\ Nace(SHELL, "exec_cmd", proc[SHELL].cmd) /\ fallos' = fallos
                 /\ ~EsBack(proc[SHELL].cmd) => hijo' = Nuevo
<1> DEFINE c == proc[SHELL].cmd
           g == [proc EXCEPT ![Nuevo] = Bifurcado(SHELL, "exec_cmd", c)]
           x == IF EsBack(c) THEN ShellEn(<<>>, "prompt") ELSE ShellEn(c, "espera")
           sigue(f, p) ==
             IF EsBack(c)
             THEN proc' = AlPrompt(f) /\ linea' = <<>> /\ hijo' = 0
             ELSE proc' = [f EXCEPT ![SHELL].pc = "espera"] /\ linea' = linea /\ hijo' = p
<1>1. SHELL \in Pids /\ proc[SHELL].est = "vivo" /\ proc[SHELL].pc = "fork"
  BY ShellEsPid DEF RunCmdFork, En
<1>2. /\ EsRegistro(x) /\ x.est = "vivo" /\ x.fd = proc[SHELL].fd
      /\ x.pc = (IF EsBack(c) THEN "prompt" ELSE "espera") /\ (~EsBack(c) => x.cmd = c)
      /\ x.padre = proc[SHELL].padre
      /\ x.extremos = proc[SHELL].extremos /\ x.pipefd = proc[SHELL].pipefd
      /\ x.environ = proc[SHELL].environ
      /\ x.fd = [i \in 0 .. 2 |-> x.fd[i]] /\ x.pc \in PcShell
  <2>1. "prompt" \in PcShell /\ "espera" \in PcShell
    BY DEF PcShell
  <2>2. CASE EsBack(c)
    <3>1. x = ShellEn(<<>>, "prompt")
      BY <2>2
    <3> HIDE DEF x
    <3> QED
      BY <1>1, <2>1, <2>2, <3>1, ShellEnDatos
  <2>3. CASE ~EsBack(c)
    <3>1. x = ShellEn(c, "espera")
      BY <2>3
    <3> HIDE DEF x
    <3> QED
      BY <1>1, <2>1, <2>3, <3>1, ShellEnDatos
  <2> QED
    BY <2>2, <2>3
<1>3. ASSUME NEW f, NEW p, sigue(f, p), f[SHELL] = proc[SHELL], SHELL \in DOMAIN f
      PROVE  /\ proc' = [f EXCEPT ![SHELL] = x]
             /\ ~EsBack(c) => hijo' = p /\ linea' = linea
  <2>1. CASE EsBack(c)
    <3>1. proc' = AlPrompt(f)
      BY <1>3, <2>1
    <3> QED
      BY <1>3, <2>1, <3>1, AlPromptEs
  <2>2. CASE ~EsBack(c)
    <3>1. proc' = [f EXCEPT ![SHELL].pc = "espera"] /\ hijo' = p /\ linea' = linea
      BY <1>3, <2>2
    <3>2. EsRegistro(proc[SHELL])
      BY <1>1 DEF Tipos, Proceso
    <3>3. x = [proc[SHELL] EXCEPT !.pc = "espera"]
      BY <2>2, <3>2 DEF ShellEn, EsRegistro, Campos
    <3> HIDE DEF x
    <3> QED
      BY <1>3, <2>2, <3>1, <3>3
  <2> QED
    BY <2>1, <2>2
<1>4. /\ status' = status
      /\ \/ sigue(g, Nuevo) /\ fallos' = fallos
         \/ sigue(proc, FALLO) /\ fallos' = fallos + 1
  BY Zenon DEF RunCmdFork
<1> HIDE DEF x, sigue
<1>5. CASE sigue(g, Nuevo) /\ fallos' = fallos
  <2>1. Nuevo # SHELL
    BY NuevoLibre DEF SHELL
  <2>2. g[SHELL] = proc[SHELL] /\ SHELL \in DOMAIN g
    BY <1>1, <2>1 DEF Tipos
  <2>3. proc' = [g EXCEPT ![SHELL] = x] /\ (~EsBack(c) => hijo' = Nuevo /\ linea' = linea)
    BY <1>3, <1>5, <2>2
  <2>4. "exec_cmd" \in PcHijo
    BY DEF PcHijo
  <2>5. Nace(SHELL, "exec_cmd", c) /\ proc'[SHELL] = x
    BY <1>1, <1>2, <2>3, <2>4, NaceUno
  <2> QED
    BY <1>1, <1>2, <1>4, <1>5, <2>3, <2>5
<1>6. CASE sigue(proc, FALLO) /\ fallos' = fallos + 1
  <2>1. proc' = [proc EXCEPT ![SHELL] = x] /\ (~EsBack(c) => linea' = linea)
    BY <1>1, <1>3, <1>6 DEF Tipos
  <2>2. Mueve(SHELL) /\ proc'[SHELL] = x
    BY <1>1, <1>2, <2>1, MueveUno
  <2> QED
    BY <1>1, <1>2, <1>4, <1>6, <2>1, <2>2
<1> QED
  BY <1>4, <1>5, <1>6

-----------------------------------------------------------------------------
\* Who holds the ends of the pipes.

\* A step in which p moves as Avanza says and the other processes stay.
LEMMA PipesMueve ==
    ASSUME Tipos, Pipes, NEW p \in Pids, Mueve(p),
           \/ proc'[p].pc = proc[p].pc
           \/ proc[p].pc \notin {"fork_2", "wait_1", "wait_2", "exit"}
           \/ proc[p].pc # "exit" /\ proc'[p].pc \in {"wait_1", "wait_2", "exit"}
    PROVE  /\ Avanza
           /\ \A q \in Pids \ {p} : proc'[q].est = "vivo" => Quieto(q)
           /\ Quieto(p) => Pipes'
           /\ /\ Extra(p)' /\ Descriptores(p)'
              /\ \A k \in Pids : Escritor(p, k)' => Escritor(p, k)
              => Pipes'
<1>1. Avanza
  BY Registros DEF Avanza, Mueve
<1>2. ASSUME NEW q \in Pids \ {p}, proc'[q].est = "vivo" PROVE Quieto(q)
  BY <1>2, Registros DEF Quieto, Mueve
<1>3. ASSUME Quieto(p) PROVE Pipes'
  <2>1. Extra(p) /\ Descriptores(p)
    BY <1>3 DEF Pipes, Quieto
  <2>2. /\ Extra(p)' /\ Descriptores(p)'
        /\ \A k \in Pids : Escritor(p, k)' => Escritor(p, k)
    BY <1>1, <1>3, <2>1, QuietoPipes
  <2>3. proc[p].est = "vivo"
    BY DEF Mueve
  <2> QED
    BY <1>1, <1>2, <2>2, <2>3, PipesPaso
<1>4. ASSUME /\ Extra(p)' /\ Descriptores(p)'
             /\ \A k \in Pids : Escritor(p, k)' => Escritor(p, k)
      PROVE  Pipes'
  BY <1>1, <1>2, <1>4, PipesPaso DEF Mueve
<1> QED
  BY <1>1, <1>2, <1>3, <1>4, Zenon

LEMMA PipesQuietos ==
    ASSUME Tipos, Pipes, NEW p \in Pids,
           \/ ExecCmdBack(p) \/ SigchldHandler(p) \/ PipeWaits(p)
           \/ p = SHELL /\ (ReadLine \/ RunCmdWait \/ (RunCmdFork /\ Mueve(SHELL)))
    PROVE  Pipes'
<1>1. CASE ExecCmdBack(p)
  <2>1. Mueve(p) /\ Quieto(p) /\ proc[p].pc = "exec_cmd"
    BY <1>1, ExecCmdBackDatos DEF Quieto, Mueve
  <2> QED
    BY <2>1, PipesMueve
<1>2. CASE SigchldHandler(p)
  <2>1. Mueve(p) /\ Quieto(p) /\ proc'[p].pc = proc[p].pc
    BY <1>2, SigchldHandlerDatos DEF Quieto, Mueve
  <2> QED
    BY <2>1, PipesMueve
<1>3. ASSUME NEW pc \in {"wait_1", "wait_2"}, NEW sig \in {"wait_2", "exit"},
             PipeWait(p, pc, sig)
      PROVE  Pipes'
  <2>1. pc \in PcHijo /\ sig \in PcHijo
    BY DEF PcHijo
  <2>2. /\ Mueve(p) /\ proc'[p].cmd = proc[p].cmd /\ proc'[p].fd = proc[p].fd
        /\ proc'[p].extremos = proc[p].extremos /\ proc'[p].pipefd = proc[p].pipefd
        /\ proc[p].pc = pc /\ proc'[p].pc = sig
    BY <1>3, <2>1, PipeWaitDatos
  <2>3. Quieto(p)
    BY <2>2 DEF Quieto, Mueve
  <2> QED
    BY <2>2, <2>3, PipesMueve
<1>4. CASE PipeWaits(p)
  BY <1>3, <1>4 DEF PipeWaits
<1>5. CASE p = SHELL /\ ReadLine
  <2>1. PICK l : RunCmd(l) /\ En(SHELL, "prompt")
    BY <1>5 DEF ReadLine
  <2>2. Mueve(SHELL) /\ Quieto(SHELL) /\ proc[SHELL].pc = "prompt"
    BY <2>1, RunCmdDatos DEF Quieto, Mueve, PcShell
  <2> QED
    BY <1>5, <2>2, PipesMueve
<1>6. CASE p = SHELL /\ RunCmdWait
  <2>1. Mueve(SHELL) /\ Quieto(SHELL) /\ proc[SHELL].pc = "espera"
    BY <1>6, RunCmdWaitDatos DEF Quieto, Mueve, PcShell
  <2> QED
    BY <1>6, <2>1, PipesMueve
<1>7. CASE p = SHELL /\ RunCmdFork /\ Mueve(SHELL)
  <2>1. Quieto(SHELL) /\ proc[SHELL].pc = "fork"
    BY <1>7, RunCmdForkDatos DEF Quieto, Mueve, PcShell
  <2> QED
    BY <1>7, <2>1, PipesMueve
<1> QED
  BY <1>1, <1>2, <1>4, <1>5, <1>6, <1>7

LEMMA ExtremosDistintos ==
    \A k, j : /\ Lee(k) # Escribe(j) /\ (Lee(k) = Lee(j) => k = j)
              /\ (Escribe(k) = Escribe(j) => k = j)
BY DEF Lee, Escribe

LEMMA PipesExec ==
    ASSUME Tipos, Pipes, NEW p \in Pids, ExecCmdExec(p)
    PROVE  Pipes'
<1>1. /\ Mueve(p) /\ proc'[p].cmd = proc[p].cmd
      /\ proc'[p].extremos = proc[p].extremos /\ proc'[p].pipefd = proc[p].pipefd
      /\ proc[p].pc \in {"exec_cmd", "redir"} /\ proc'[p].pc = "programa"
      /\ \A k \in Pids :
            /\ proc'[p].fd[0] \in {Lee(k), Escribe(k)} => proc'[p].fd[0] = proc[p].fd[0]
            /\ Escribe(k) \in {proc'[p].fd[1], proc'[p].fd[2]} =>
                    Escribe(k) \in {proc[p].fd[1], proc[p].fd[2]}
  BY ExecCmdExecDatos
<1>2. Extra(p) /\ Descriptores(p)
  BY <1>1 DEF Pipes, Mueve
<1>3. Avanza
  BY <1>1, PipesMueve
<1>4. Extra(p)'
  BY <1>1, <1>2 DEF Extra
<1>5. Descriptores(p)'
  <2> SUFFICES ASSUME NEW k \in Pids
               PROVE  LET r == proc'[p]
                      IN  /\ r.fd[0] # Escribe(k)
                          /\ r.fd[0] = Lee(k) => k # p /\ Bifurco2(k)'
                          /\ Escribe(k) \in {r.fd[1], r.fd[2]} =>
                                /\ k # p /\ Bifurco1(k)' /\ r.fd[0] # Lee(k)
                                /\ r.pc \in {"exec_cmd", "redir", "programa"} /\ ~EsPipe(r.cmd)
    BY DEF Descriptores, Lee, Escribe
  <2>1. (Bifurco1(k) => Bifurco1(k)') /\ (Bifurco2(k) => Bifurco2(k)')
    BY <1>3, BifurcoSigue
  <2> QED
    BY <1>1, <1>2, <2>1 DEF Descriptores
<1>6. ASSUME NEW k \in Pids, Escritor(p, k)' PROVE Escritor(p, k)
  BY <1>1, <1>6 DEF Escritor, Escribe, Mueve
<1> QED
  BY <1>1, <1>4, <1>5, <1>6, PipesMueve

LEMMA PipesPipe ==
    ASSUME Tipos, Pipes, NEW p \in Pids, ExecCmdPipe(p)
    PROVE  Pipes'
<1>1. /\ Mueve(p) /\ proc'[p].cmd = proc[p].cmd /\ proc'[p].fd = proc[p].fd
      /\ proc'[p].extremos = proc[p].extremos \cup {Lee(p), Escribe(p)}
      /\ proc'[p].pipefd = p /\ EsPipe(proc[p].cmd)
      /\ proc[p].pc = "exec_cmd" /\ proc'[p].pc = "fork_1"
  BY ExecCmdPipeDatos
<1>2. Extra(p) /\ Descriptores(p)
  BY <1>1 DEF Pipes, Mueve
<1>3. Avanza
  BY <1>1, PipesMueve
<1>4. Extra(p)'
  <2>1. proc[p].extremos = {}
    BY <1>1, <1>2 DEF Extra
  <2> QED
    BY <1>1, <2>1 DEF Extra
<1>5. Descriptores(p)'
  <2> SUFFICES ASSUME NEW k \in Pids
               PROVE  LET r == proc'[p]
                      IN  /\ r.fd[0] # Escribe(k)
                          /\ r.fd[0] = Lee(k) => k # p /\ Bifurco2(k)'
                          /\ Escribe(k) \in {r.fd[1], r.fd[2]} =>
                                /\ k # p /\ Bifurco1(k)' /\ r.fd[0] # Lee(k)
                                /\ r.pc \in {"exec_cmd", "redir", "programa"} /\ ~EsPipe(r.cmd)
    BY DEF Descriptores, Lee, Escribe
  <2>1. (Bifurco1(k) => Bifurco1(k)') /\ (Bifurco2(k) => Bifurco2(k)')
    BY <1>3, BifurcoSigue
  <2> QED
    BY <1>1, <1>2, <2>1 DEF Descriptores
<1>6. ASSUME NEW k \in Pids, Escritor(p, k)' PROVE Escritor(p, k)
  BY <1>1, <1>6 DEF Escritor, Escribe, Mueve
<1> QED
  BY <1>1, <1>4, <1>5, <1>6, PipesMueve

LEMMA PipesHijo1 ==
    ASSUME Tipos, Pipes, NEW p \in Pids, Hijo1(p)
    PROVE  Pipes'
<1> DEFINE k == proc[p].pipefd
<1>1. /\ Mueve(p) /\ proc'[p].cmd = proc[p].cmd /\ proc'[p].pipefd = k
      /\ proc'[p].fd = [proc[p].fd EXCEPT ![1] = Escribe(k)]
      /\ proc'[p].extremos = proc[p].extremos \ {Lee(k), Escribe(k)}
      /\ proc[p].pc = "hijo_1" /\ proc'[p].pc = "exec_cmd"
  BY Hijo1Datos
<1>2. Extra(p) /\ Descriptores(p)
  BY <1>1 DEF Pipes, Mueve
<1>3. /\ k \in Pids \ {p} /\ proc[p].extremos = {Lee(k), Escribe(k)}
      /\ Bifurco1(k) /\ ~EsPipe(proc[p].cmd) /\ proc[p].fd[0] # Lee(k)
  BY <1>1, <1>2 DEF Extra
<1>4. /\ proc'[p].fd[0] = proc[p].fd[0] /\ proc'[p].fd[1] = Escribe(k)
      /\ proc'[p].fd[2] = proc[p].fd[2]
  <2>1. proc[p].fd = [i \in 0 .. 2 |-> proc[p].fd[i]]
    BY DEF Tipos, Proceso
  <2>2. PICK e : e = Escribe(k)
    OBVIOUS
  <2> QED
    BY <1>1, <2>1, <2>2
<1>5. Avanza
  BY <1>1, PipesMueve
<1>6. Extra(p)'
  <2>1. proc'[p].extremos = {}
    BY <1>1, <1>3
  <2> QED
    BY <1>1, <2>1 DEF Extra
<1>7. Descriptores(p)'
  <2> SUFFICES ASSUME NEW j \in Pids
               PROVE  LET r == proc'[p]
                      IN  /\ r.fd[0] # Escribe(j)
                          /\ r.fd[0] = Lee(j) => j # p /\ Bifurco2(j)'
                          /\ Escribe(j) \in {r.fd[1], r.fd[2]} =>
                                /\ j # p /\ Bifurco1(j)' /\ r.fd[0] # Lee(j)
                                /\ r.pc \in {"exec_cmd", "redir", "programa"} /\ ~EsPipe(r.cmd)
    BY DEF Descriptores, Lee, Escribe
  <2>1. (Bifurco1(j) => Bifurco1(j)') /\ (Bifurco2(j) => Bifurco2(j)')
    BY <1>5, BifurcoSigue
  <2>2. /\ proc[p].fd[0] # Escribe(j) /\ (proc[p].fd[0] = Lee(j) => j # p /\ Bifurco2(j))
        /\ Escribe(j) # proc[p].fd[2]
    BY <1>1, <1>2 DEF Descriptores
  <2>3. Escribe(j) \in {proc'[p].fd[1], proc'[p].fd[2]} => j = k
    BY <1>4, <2>2, ExtremosDistintos
  <2> QED
    BY <1>1, <1>3, <1>4, <2>1, <2>2, <2>3
<1>8. ASSUME NEW j \in Pids, Escritor(p, j)' PROVE Escritor(p, j)
  <2>1. Escribe(j) \in {Escribe(k), proc[p].fd[2]}
    BY <1>1, <1>4, <1>8 DEF Escritor
  <2>2. proc[p].est = "vivo" /\ Escribe(j) # proc[p].fd[2]
    BY <1>1, <1>2 DEF Mueve, Descriptores
  <2> QED
    BY <1>1, <2>1, <2>2, ExtremosDistintos DEF Escritor
<1> QED
  BY <1>1, <1>6, <1>7, <1>8, PipesMueve

LEMMA PipesHijo2 ==
    ASSUME Tipos, Pipes, NEW p \in Pids, Hijo2(p)
    PROVE  Pipes'
<1> DEFINE k == proc[p].pipefd
<1>1. /\ Mueve(p) /\ proc'[p].cmd = proc[p].cmd /\ proc'[p].pipefd = k
      /\ proc'[p].fd = [proc[p].fd EXCEPT ![0] = Lee(k)]
      /\ proc'[p].extremos = proc[p].extremos \ {Lee(k)}
      /\ proc[p].pc = "hijo_2" /\ proc'[p].pc = "exec_cmd"
  BY Hijo2Datos
<1>2. Extra(p) /\ Descriptores(p)
  BY <1>1 DEF Pipes, Mueve
<1>3. k \in Pids \ {p} /\ proc[p].extremos = {Lee(k)} /\ Bifurco2(k)
  BY <1>1, <1>2 DEF Extra
<1>4. /\ proc'[p].fd[0] = Lee(k) /\ proc'[p].fd[1] = proc[p].fd[1]
      /\ proc'[p].fd[2] = proc[p].fd[2]
  <2>1. proc[p].fd = [i \in 0 .. 2 |-> proc[p].fd[i]]
    BY DEF Tipos, Proceso
  <2>2. PICK e : e = Lee(k)
    OBVIOUS
  <2> QED
    BY <1>1, <2>1, <2>2
<1>5. Avanza
  BY <1>1, PipesMueve
<1>6. Extra(p)'
  <2>1. proc'[p].extremos = {}
    BY <1>1, <1>3
  <2> QED
    BY <1>1, <2>1 DEF Extra
<1>7. \A j \in Pids : Escribe(j) # proc[p].fd[1] /\ Escribe(j) # proc[p].fd[2]
  BY <1>1, <1>2 DEF Descriptores
<1>8. Descriptores(p)'
  <2> SUFFICES ASSUME NEW j \in Pids
               PROVE  LET r == proc'[p]
                      IN  /\ r.fd[0] # Escribe(j)
                          /\ r.fd[0] = Lee(j) => j # p /\ Bifurco2(j)'
                          /\ Escribe(j) \in {r.fd[1], r.fd[2]} =>
                                /\ j # p /\ Bifurco1(j)' /\ r.fd[0] # Lee(j)
                                /\ r.pc \in {"exec_cmd", "redir", "programa"} /\ ~EsPipe(r.cmd)
    BY DEF Descriptores, Lee, Escribe
  <2>1. Bifurco2(j) => Bifurco2(j)'
    BY <1>5, BifurcoSigue
  <2> QED
    BY <1>3, <1>4, <1>7, <2>1, ExtremosDistintos
<1>9. ASSUME NEW j \in Pids, Escritor(p, j)' PROVE Escritor(p, j)
  BY <1>1, <1>4, <1>7, <1>9 DEF Escritor
<1> QED
  BY <1>1, <1>6, <1>8, <1>9, PipesMueve

LEMMA AvanzaNace ==
    ASSUME Tipos, NEW p \in Pids, NEW pc, NEW c, Nace(p, pc, c),
           \/ proc[p].pc \notin {"fork_2", "wait_1", "wait_2", "exit"}
           \/ proc[p].pc # "exit" /\ proc'[p].pc \in {"wait_1", "wait_2", "exit"}
    PROVE  /\ Avanza
           /\ \A q \in Pids \ {p, Nuevo} : proc'[q].est = "vivo" => Quieto(q)
<1>1. \A q \in Pids : q = Nuevo => proc[q].est = "libre"
  BY NuevoLibre
<1> QED
  BY <1>1 DEF Avanza, Quieto, Nace

LEMMA PipesNace ==
    ASSUME Tipos, Pipes, NEW p \in Pids, NEW pc, NEW c, Nace(p, pc, c), Avanza,
           \A q \in Pids \ {p, Nuevo} : proc'[q].est = "vivo" => Quieto(q),
           Extra(p)', Descriptores(p)', \A k \in Pids : Escritor(p, k)' => Escritor(p, k),
           \A n \in Pids : n = Nuevo =>
                /\ Extra(n)' /\ Descriptores(n)'
                /\ \A k \in Pids : Escritor(n, k)' => \A s \in Pids : ~Escritor(s, k)
    PROVE  Pipes'
<1>1. PICK n : n = Nuevo
  OBVIOUS
<1>2. \A q \in Pids \ {p, n} : proc'[q].est = "vivo" =>
        /\ Extra(q)' /\ Descriptores(q)'
        /\ \A k \in Pids : Escritor(q, k)' => Escritor(q, k)
  <2> SUFFICES ASSUME NEW q \in Pids \ {p, n}, proc'[q].est = "vivo"
               PROVE  /\ Extra(q)' /\ Descriptores(q)'
                      /\ \A k \in Pids : Escritor(q, k)' => Escritor(q, k)
    OBVIOUS
  <2>1. Quieto(q)
    BY <1>1
  <2>2. Extra(q) /\ Descriptores(q)
    BY <2>1 DEF Quieto, Pipes
  <2> QED
    BY <2>1, <2>2, QuietoPipes
<1>3. \A q \in Pids : proc'[q].est = "vivo" => Extra(q)' /\ Descriptores(q)'
  BY <1>1, <1>2
<1>4. \A q, k \in Pids : Escritor(q, k)' =>
        \/ Escritor(q, k)
        \/ q = n /\ \A s \in Pids : ~Escritor(s, k)
  BY <1>1, <1>2 DEF Escritor
<1>5. \A k, q, s \in Pids : Escritor(q, k)' /\ Escritor(s, k)' => q = s
  BY <1>4 DEF Pipes
<1> QED
  BY <1>3, <1>5 DEF Pipes

LEMMA PipesFork1 ==
    ASSUME Tipos, Pipes, NEW p \in Pids, Fork1(p), fallos' \in Nat
    PROVE  Pipes'
<1> DEFINE c == <<proc[p].cmd[1]>>
<1>1. CASE proc[p].est = "vivo" /\ Termina(p, EXIT_255)
  BY <1>1, PipesTermina
<1>2. CASE /\ proc[p].pc = "fork_1" /\ Nace(p, "hijo_1", c)
           /\ proc'[p].pc = "fork_2" /\ proc'[p].cmd = proc[p].cmd
           /\ proc'[p].fd = proc[p].fd /\ proc'[p].pipefd = proc[p].pipefd
           /\ proc'[p].extremos = proc[p].extremos \ {Escribe(p)}
  <2>1. /\ proc[p].est = "vivo" /\ Extra(p) /\ Descriptores(p)
        /\ proc[p].pipefd = p /\ proc[p].extremos = {Lee(p), Escribe(p)}
        /\ proc'[p].est = "vivo"
    BY <1>2 DEF Nace, Pipes, Extra
  <2>2. Avanza /\ \A q \in Pids \ {p, Nuevo} : proc'[q].est = "vivo" => Quieto(q)
    BY <1>2, AvanzaNace
  <2>3. Extra(p)'
    <3>1. proc'[p].extremos = {Lee(p)}
      BY <1>2, <2>1, ExtremosDistintos
    <3> QED
      BY <1>2, <2>1, <3>1 DEF Extra
  <2>4. \A k \in Pids :
            /\ (Bifurco1(k) => Bifurco1(k)') /\ (Bifurco2(k) => Bifurco2(k)')
            /\ proc[p].fd[0] # Escribe(k)
            /\ proc[p].fd[0] = Lee(k) => k # p /\ Bifurco2(k)'
            /\ Escribe(k) \notin {proc[p].fd[1], proc[p].fd[2]}
    BY <1>2, <2>1, <2>2, BifurcoSigue DEF Descriptores
  <2>5. Descriptores(p)'
    BY <1>2, <2>4 DEF Descriptores
  <2>6. ASSUME NEW k \in Pids, Escritor(p, k)' PROVE FALSE
    BY <1>2, <2>4, <2>6 DEF Escritor
  <2>7. ASSUME NEW n \in Pids, n = Nuevo
        PROVE  /\ Extra(n)' /\ Descriptores(n)'
               /\ \A k \in Pids : Escritor(n, k)' => \A s \in Pids : ~Escritor(s, k)
    <3>1. /\ proc'[n].est = "vivo" /\ proc'[n].pc = "hijo_1" /\ proc'[n].cmd = c
          /\ proc'[n].fd = proc[p].fd /\ proc'[n].extremos = proc[p].extremos
          /\ proc'[n].pipefd = p /\ n # p /\ proc[n].est = "libre"
      <4>1. n # p /\ proc[n].est = "libre"
        BY <2>1, <2>7, NuevoLibre
      <4> QED
        BY <1>2, <2>1, <2>7, <4>1 DEF Nace
    <3>2. ~EsPipe(c)
      BY DEF EsPipe
    <3>3. Bifurco1(p)'
      BY <1>2, <2>1 DEF Bifurco1
    <3>4. proc[p].fd[0] # Lee(p)
      BY <2>4
    <3>5. Extra(n)'
      BY <2>1, <3>1, <3>2, <3>3, <3>4 DEF Extra
    <3>6. ~Bifurco2(n)
      BY <3>1 DEF Bifurco2
    <3>7. Descriptores(n)'
      <4>1. \A k \in Pids : proc[p].fd[0] = Lee(k) => k # n
        BY <2>1, <3>6 DEF Descriptores
      <4> QED
        BY <2>4, <3>1, <4>1 DEF Descriptores
    <3>8. ASSUME NEW k \in Pids, Escritor(n, k)', NEW s \in Pids, Escritor(s, k)
          PROVE  FALSE
      <4>1. k = p
        BY <2>4, <3>1, <3>8 DEF Escritor
      <4>2. proc[s].est = "vivo"
        BY <3>8 DEF Escritor
      <4>3. Extra(s) /\ Descriptores(s)
        BY <4>2 DEF Pipes
      <4>4. Bifurco1(k)
        BY <3>8, <4>3 DEF Escritor, Extra, Descriptores
      <4> QED
        BY <1>2, <2>1, <4>1, <4>4 DEF Bifurco1
    <3> QED
      BY <3>5, <3>7, <3>8
  <2> QED
    BY <1>2, <2>2, <2>3, <2>5, <2>6, <2>7, PipesNace
<1> QED
  BY <1>1, <1>2, Fork1Datos

LEMMA PipesFork2 ==
    ASSUME Tipos, Pipes, NEW p \in Pids, Fork2(p), fallos' \in Nat
    PROVE  Pipes'
<1> DEFINE c == Tail(proc[p].cmd)
<1>1. CASE proc[p].est = "vivo" /\ Termina(p, EXIT_255)
  BY <1>1, PipesTermina
<1>2. CASE /\ proc[p].pc = "fork_2" /\ Nace(p, "hijo_2", c)
           /\ proc'[p].pc = "wait_1" /\ proc'[p].cmd = proc[p].cmd
           /\ proc'[p].fd = proc[p].fd /\ proc'[p].pipefd = proc[p].pipefd
           /\ proc'[p].extremos = proc[p].extremos \ {Lee(p)}
  <2>1. /\ proc[p].est = "vivo" /\ Extra(p) /\ Descriptores(p)
        /\ proc[p].pipefd = p /\ proc[p].extremos = {Lee(p)}
        /\ proc'[p].est = "vivo"
    BY <1>2 DEF Nace, Pipes, Extra
  <2>2. Avanza /\ \A q \in Pids \ {p, Nuevo} : proc'[q].est = "vivo" => Quieto(q)
    BY <1>2, AvanzaNace
  <2>3. Extra(p)'
    <3>1. proc'[p].extremos = {}
      BY <1>2, <2>1
    <3> QED
      BY <1>2, <2>1, <3>1 DEF Extra
  <2>4. \A k \in Pids :
            /\ (Bifurco1(k) => Bifurco1(k)') /\ (Bifurco2(k) => Bifurco2(k)')
            /\ proc[p].fd[0] # Escribe(k)
            /\ proc[p].fd[0] = Lee(k) => k # p /\ Bifurco2(k)'
            /\ Escribe(k) \notin {proc[p].fd[1], proc[p].fd[2]}
    BY <1>2, <2>1, <2>2, BifurcoSigue DEF Descriptores
  <2>5. Descriptores(p)'
    BY <1>2, <2>4 DEF Descriptores
  <2>6. ASSUME NEW k \in Pids, Escritor(p, k)' PROVE FALSE
    BY <1>2, <2>4, <2>6 DEF Escritor
  <2>7. ASSUME NEW n \in Pids, n = Nuevo
        PROVE  /\ Extra(n)' /\ Descriptores(n)'
               /\ \A k \in Pids : ~Escritor(n, k)'
    <3>1. /\ proc'[n].est = "vivo" /\ proc'[n].pc = "hijo_2" /\ proc'[n].cmd = c
          /\ proc'[n].fd = proc[p].fd /\ proc'[n].extremos = proc[p].extremos
          /\ proc'[n].pipefd = p /\ n # p /\ proc[n].est = "libre"
      <4>1. n # p /\ proc[n].est = "libre"
        BY <2>1, <2>7, NuevoLibre
      <4> QED
        BY <1>2, <2>1, <2>7, <4>1 DEF Nace
    <3>2. Bifurco2(p)'
      BY <1>2, <2>1 DEF Bifurco2
    <3>3. Extra(n)'
      BY <2>1, <3>1, <3>2 DEF Extra
    <3>4. ~Bifurco2(n)
      BY <3>1 DEF Bifurco2
    <3>5. Descriptores(n)'
      <4>1. \A k \in Pids : proc[p].fd[0] = Lee(k) => k # n
        BY <2>1, <3>4 DEF Descriptores
      <4> QED
        BY <2>4, <3>1, <4>1 DEF Descriptores
    <3>6. ASSUME NEW k \in Pids, Escritor(n, k)' PROVE FALSE
      BY <2>4, <3>1, <3>6 DEF Escritor
    <3> QED
      BY <3>3, <3>5, <3>6
  <2> QED
    BY <1>2, <2>2, <2>3, <2>5, <2>6, <2>7, PipesNace
<1> QED
  BY <1>1, <1>2, Fork2Datos

LEMMA PipesRunCmdFork ==
    ASSUME Tipos, Pipes, RunCmdFork, fallos' \in Nat
    PROVE  Pipes'
<1> DEFINE c == proc[SHELL].cmd
<1>1. CASE Mueve(SHELL)
  BY <1>1, ShellEsPid, PipesQuietos
<1>2. CASE Nace(SHELL, "exec_cmd", c)
  <2>1. /\ proc[SHELL].est = "vivo" /\ proc'[SHELL].est = "vivo" /\ SHELL \in Pids
        /\ proc[SHELL].pc = "fork" /\ proc'[SHELL].pc \in {"prompt", "espera"}
        /\ proc'[SHELL].fd = proc[SHELL].fd /\ proc'[SHELL].extremos = proc[SHELL].extremos
        /\ proc'[SHELL].pipefd = proc[SHELL].pipefd
    BY <1>2, ShellEsPid, RunCmdForkDatos DEF Nace
  <2>2. Extra(SHELL) /\ Descriptores(SHELL) /\ proc[SHELL].extremos = {}
    BY <2>1 DEF Pipes, Extra
  <2>3. Avanza /\ \A q \in Pids \ {SHELL, Nuevo} : proc'[q].est = "vivo" => Quieto(q)
    BY <1>2, <2>1, AvanzaNace
  <2>4. Extra(SHELL)'
    BY <2>1, <2>2 DEF Extra
  <2>5. \A k \in Pids :
            /\ (Bifurco1(k) => Bifurco1(k)') /\ (Bifurco2(k) => Bifurco2(k)')
            /\ proc[SHELL].fd[0] # Escribe(k)
            /\ proc[SHELL].fd[0] = Lee(k) => k # SHELL /\ Bifurco2(k)'
            /\ Escribe(k) \notin {proc[SHELL].fd[1], proc[SHELL].fd[2]}
    BY <2>1, <2>2, <2>3, BifurcoSigue DEF Descriptores
  <2>6. Descriptores(SHELL)'
    BY <2>1, <2>5 DEF Descriptores
  <2>7. ASSUME NEW k \in Pids, Escritor(SHELL, k)' PROVE FALSE
    BY <2>1, <2>5, <2>7 DEF Escritor
  <2>8. ASSUME NEW n \in Pids, n = Nuevo
        PROVE  /\ Extra(n)' /\ Descriptores(n)'
               /\ \A k \in Pids : ~Escritor(n, k)'
    <3>1. /\ proc'[n].est = "vivo" /\ proc'[n].pc = "exec_cmd"
          /\ proc'[n].fd = proc[SHELL].fd /\ proc'[n].extremos = proc[SHELL].extremos
          /\ n # SHELL /\ proc[n].est = "libre"
      <4>1. n # SHELL /\ proc[n].est = "libre"
        BY <2>1, <2>8, NuevoLibre
      <4> QED
        BY <1>2, <2>1, <2>8, <4>1 DEF Nace
    <3>2. Extra(n)'
      BY <2>2, <3>1 DEF Extra
    <3>3. ~Bifurco2(n)
      BY <3>1 DEF Bifurco2
    <3>4. Descriptores(n)'
      <4>1. \A k \in Pids : proc[SHELL].fd[0] = Lee(k) => k # n
        BY <2>2, <3>3 DEF Descriptores
      <4> QED
        BY <2>5, <3>1, <4>1 DEF Descriptores
    <3>5. ASSUME NEW k \in Pids, Escritor(n, k)' PROVE FALSE
      BY <2>5, <3>1, <3>5 DEF Escritor
    <3> QED
      BY <3>2, <3>4, <3>5
  <2> QED
    BY <1>2, <2>1, <2>3, <2>4, <2>6, <2>7, <2>8, PipesNace
<1> QED
  BY <1>1, <1>2, RunCmdForkDatos

-----------------------------------------------------------------------------
\* The families of processes.

\* A step in which p moves: what p has to see to.
LEMMA FamiliasMueve ==
    ASSUME Tipos, Familias, NEW p \in Pids, Mueve(p), fallos > 0 => fallos' > 0,
           p # SHELL =>
                /\ proc'[p].cmd = proc[p].cmd /\ Prole(p)'
                /\ proc[p].pc \in ConHijos /\ proc'[p].pc \notin ConHijos =>
                        \A a \in Pids : ~EsHijo(a, p)'
                /\ proc'[p].pc = "fork_2" => proc[p].pc = "fork_2",
           En(SHELL, "espera") =>
                \A a \in Pids : EsHijo(a, SHELL)' /\ a = hijo =>
                    En(SHELL, "espera")' /\ a = hijo'
    PROVE  Familias'
<1>1. \A a \in Pids : EnFamilia(a)' =>
            /\ EnFamilia(a) /\ proc'[a].padre = proc[a].padre
            /\ a # SHELL => proc'[a].cmd = proc[a].cmd
  BY Registros DEF Mueve, EnFamilia
<1>2. /\ proc'[SHELL].padre = INIT /\ proc'[SHELL].est \in {"vivo", "cosechado"}
      /\ proc'[SHELL].est = proc[SHELL].est
  BY ShellEsPid, Registros DEF Mueve, Familias
<1>3. \A k \in Pids : /\ proc'[k].est = "vivo" <=> proc[k].est = "vivo"
                      /\ k # p => proc'[k].pc = proc[k].pc \/ proc[k].est # "vivo"
  BY Registros DEF Mueve
<1>4. ASSUME NEW q \in Pids \ {SHELL}, EnFamilia(q)' PROVE Pariente(q)'
  <2> DEFINE k == proc[q].padre
  <2>1. /\ EnFamilia(q) /\ proc'[q].padre = k /\ proc'[q].cmd = proc[q].cmd /\ Pariente(q)
    BY <1>1, <1>4 DEF Familias
  <2>2. CASE k = INIT
    BY <1>2, <2>1, <2>2, ShellEsPid DEF Pariente
  <2>3. CASE k = SHELL
    <3>1. EsHijo(q, SHELL)'
      BY <1>4, <2>1, <2>3 DEF EsHijo
    <3>2. EsBack(proc[q].cmd) \/ (En(SHELL, "espera")' /\ q = hijo')
      BY <2>1, <2>3, <3>1, ShellEsPid DEF Pariente
    <3> QED
      BY <1>2, <2>1, <2>3, <3>2, ShellEsPid DEF Pariente, SHELL, INIT
  <2>4. CASE k \in Pids \ {SHELL}
    <3>1. /\ k < q /\ proc[k].est = "vivo" /\ proc[k].pc \in ConHijos
          /\ proc[k].pc = "fork_2" => ~EsPipe(proc[q].cmd)
      BY <2>1, <2>4 DEF Pariente
    <3>2. /\ proc'[k].est = "vivo" /\ proc'[k].pc \in ConHijos
          /\ proc'[k].pc = "fork_2" => proc[k].pc = "fork_2"
      <4>1. CASE k = p
        <5>1. EsHijo(q, p)'
          BY <1>4, <2>1, <4>1 DEF EsHijo
        <5> QED
          BY <1>3, <2>4, <3>1, <4>1, <5>1
      <4>2. CASE k # p
        BY <1>3, <2>4, <3>1, <4>2
      <4> QED
        BY <4>1, <4>2
    <3> QED
      BY <2>1, <2>4, <3>1, <3>2, ShellEsPid DEF Pariente
  <2> QED
    BY <2>1, <2>2, <2>3, <2>4 DEF Pariente
<1>5. ASSUME NEW k \in Pids \ {SHELL}, proc'[k].est = "vivo" PROVE Prole(k)'
  <2>1. CASE k = p
    BY <1>5, <2>1
  <2>2. CASE k # p
    <3>1. proc'[k].pc = proc[k].pc /\ Prole(k) /\ proc'[k].cmd = proc[k].cmd
      <4>1. EnFamilia(k)'
        BY <1>5 DEF EnFamilia
      <4> QED
        BY <1>1, <1>3, <1>5, <2>2, <4>1 DEF Familias
    <3>2. \A a \in Pids : EsHijo(a, k)' => EsHijo(a, k)
      BY <1>1 DEF EsHijo
    <3> QED
      BY <3>1, <3>2 DEF Prole
  <2> QED
    BY <2>1, <2>2
<1> QED
  BY <1>2, <1>4, <1>5 DEF Familias

\* The steps that change no statement that the families depend on.
LEMMA FamiliasQuietas ==
    ASSUME Tipos, Familias, NEW p \in Pids, Mueve(p), fallos' = fallos, hijo' = hijo,
           p # SHELL =>
                /\ proc'[p].cmd = proc[p].cmd
                /\ \/ proc'[p].pc = proc[p].pc
                   \/ proc'[p].pc \notin ConHijos /\ proc[p].pc \notin ConHijos
                /\ proc'[p].pc = "fork_1" => EsPipe(proc[p].cmd),
           p = SHELL /\ proc[p].pc = "espera" => proc'[p].pc = "espera"
    PROVE  Familias'
<1>1. \A a, k \in Pids : EsHijo(a, k)' => EsHijo(a, k)
  BY Registros DEF Mueve, EsHijo, EnFamilia
<1>2. ASSUME p # SHELL PROVE Prole(p)'
  <2>1. Prole(p)
    BY <1>2 DEF Familias, Mueve
  <2> QED
    BY <1>1, <1>2, <2>1 DEF Prole, ConHijos
<1>3. En(SHELL, "espera") => En(SHELL, "espera")'
  BY ShellEsPid DEF En, Mueve
<1>4. p # SHELL /\ proc'[p].pc = "fork_2" => proc[p].pc = "fork_2"
  BY DEF ConHijos
<1> QED
  BY <1>2, <1>3, <1>4, FamiliasMueve

LEMMA FamiliasPipeWaits ==
    ASSUME Tipos, Familias, NEW p \in Pids, PipeWaits(p)
    PROVE  Familias'
<1>1. ASSUME NEW pc, NEW sig, PipeWait(p, pc, sig),
             \/ pc = "wait_1" /\ sig = "wait_2"
             \/ pc = "wait_2" /\ sig = "exit"
      PROVE  Familias'
  <2>1. pc \in PcHijo /\ sig \in PcHijo
    BY <1>1 DEF PcHijo
  <2>2. /\ Mueve(p) /\ proc'[p].cmd = proc[p].cmd
        /\ proc[p].pc = pc /\ proc'[p].pc = sig
        /\ \/ \A q \in Pids : ~EsHijo(q, p)
           \/ \E z \in Pids : EsHijo(z, p) /\ proc'[z] = Cosechado
    BY <1>1, <2>1, PipeWaitDatos
  <2>3. p # SHELL /\ proc[p].est = "vivo"
    BY <1>1, <2>2 DEF Tipos, Proceso, PcShell, Mueve
  <2>4. Prole(p)
    BY <2>3 DEF Familias
  <2>5. \A a \in Pids : EsHijo(a, p)' => EsHijo(a, p) /\ proc'[a] # Cosechado
    BY <2>2, Registros DEF Mueve, EsHijo, EnFamilia
  <2>6. CASE pc = "wait_1" /\ sig = "wait_2"
    <3>1. \A a, b \in Pids : EsHijo(a, p)' /\ EsHijo(b, p)' => a = b
      <4>1. CASE \A q \in Pids : ~EsHijo(q, p)
        BY <2>5, <4>1
      <4>2. CASE \E z \in Pids : EsHijo(z, p) /\ proc'[z] = Cosechado
        BY <2>2, <2>4, <2>5, <2>6, <4>2 DEF Prole
      <4> QED
        BY <2>2, <4>1, <4>2
    <3>2. Prole(p)'
      BY <2>2, <2>4, <2>6, <3>1 DEF Prole, ConHijos
    <3> QED
      BY <1>1, <2>2, <2>3, <2>6, <3>2, FamiliasMueve, ShellEsPid DEF PipeWait, ConHijos, En, Mueve
  <2>7. CASE pc = "wait_2" /\ sig = "exit"
    <3>1. \A a \in Pids : ~EsHijo(a, p)'
      <4>1. CASE \A q \in Pids : ~EsHijo(q, p)
        BY <2>5, <4>1
      <4>2. CASE \E z \in Pids : EsHijo(z, p) /\ proc'[z] = Cosechado
        BY <2>2, <2>4, <2>5, <2>7, <4>2 DEF Prole
      <4> QED
        BY <2>2, <4>1, <4>2
    <3>2. Prole(p)'
      BY <2>2, <2>7 DEF Prole, ConHijos
    <3>3. fallos' = fallos /\ hijo' = hijo
      BY <1>1 DEF PipeWait
    <3>4. En(SHELL, "espera") => En(SHELL, "espera")'
      BY <2>2, <2>3, ShellEsPid DEF En, Mueve
    <3> QED
      BY <2>2, <2>3, <2>7, <3>1, <3>2, <3>3, <3>4, FamiliasMueve
  <2> QED
    BY <1>1, <2>6, <2>7
<1> QED
  BY <1>1, Zenon DEF PipeWaits

LEMMA FamiliasPasoQuieto ==
    ASSUME Tipos, Familias, NEW p \in Pids,
           ExecCmdBack(p) \/ ExecCmdExec(p) \/ ExecCmdPipe(p) \/ Hijo1(p) \/ Hijo2(p)
    PROVE  Familias'
<1>1. fallos' = fallos /\ hijo' = hijo
  BY DEF ExecCmdBack, ExecCmdExec, ExecCmdPipe, Hijo1, Hijo2
<1>2. /\ Mueve(p) /\ proc'[p].cmd = proc[p].cmd
      /\ proc[p].pc \in {"exec_cmd", "redir", "hijo_1", "hijo_2"}
      /\ proc'[p].pc \in {"exec_cmd", "redir", "programa", "fork_1"}
      /\ proc'[p].pc = "fork_1" => EsPipe(proc[p].cmd)
  <2>1. CASE ExecCmdBack(p)
    BY <2>1, ExecCmdBackDatos
  <2>2. CASE ExecCmdExec(p)
    BY <2>2, ExecCmdExecDatos
  <2>3. CASE ExecCmdPipe(p)
    BY <2>3, ExecCmdPipeDatos
  <2>4. CASE Hijo1(p)
    BY <2>4, Hijo1Datos
  <2>5. CASE Hijo2(p)
    BY <2>5, Hijo2Datos
  <2> QED
    BY <2>1, <2>2, <2>3, <2>4, <2>5
<1>3. /\ proc'[p].pc \notin ConHijos /\ proc[p].pc \notin ConHijos
      /\ proc[p].pc # "espera"
  BY <1>2 DEF ConHijos
<1> QED
  BY <1>1, <1>2, <1>3, FamiliasQuietas

LEMMA FamiliasSigchld ==
    ASSUME Tipos, Familias, NEW p \in Pids, SigchldHandler(p)
    PROVE  Familias'
<1>1. fallos' = fallos /\ hijo' = hijo
  BY DEF SigchldHandler
<1>2. Mueve(p) /\ proc'[p].cmd = proc[p].cmd /\ proc'[p].pc = proc[p].pc
  BY SigchldHandlerDatos
<1>3. p # SHELL /\ proc[p].pc = "fork_1" => EsPipe(proc[p].cmd)
  BY <1>2 DEF Familias, Prole, Mueve
<1> QED
  BY <1>1, <1>2, <1>3, FamiliasQuietas

LEMMA FamiliasReadLine ==
    ASSUME Tipos, Familias, ReadLine
    PROVE  Familias'
<1>1. PICK l : RunCmd(l) /\ En(SHELL, "prompt")
  BY DEF ReadLine
<1>2. /\ Mueve(SHELL) /\ proc[SHELL].pc = "prompt" /\ hijo' = hijo /\ fallos' = fallos
  BY <1>1, RunCmdDatos
<1> QED
  BY <1>2, ShellEsPid, FamiliasQuietas

LEMMA FamiliasRunCmdWait ==
    ASSUME Tipos, Familias, RunCmdWait
    PROVE  Familias'
<1>1. /\ Mueve(SHELL) /\ fallos' = fallos
      /\ \A q \in Pids : EsHijo(q, SHELL) => q # hijo \/ proc'[q] = Cosechado
  BY RunCmdWaitDatos
<1>2. \A a \in Pids : EsHijo(a, SHELL)' => EsHijo(a, SHELL) /\ proc'[a] # Cosechado
  BY <1>1, Registros, ShellEsPid DEF Mueve, EsHijo, EnFamilia
<1> QED
  BY <1>1, <1>2, ShellEsPid, FamiliasMueve

LEMMA FamiliasTermina ==
    ASSUME Tipos, Familias, NEW p \in Pids \ {SHELL}, proc[p].est = "vivo", NEW st,
           Termina(p, st), fallos' \in Nat, hijo' = hijo, fallos > 0 => fallos' > 0,
           proc[p].pc \notin {"wait_1", "wait_2"}, proc[p].pc = "fork_2" => fallos' > 0
    PROVE  Familias'
<1>1. /\ proc'[p].est \in {"zombi", "cosechado"}
      /\ proc[p].padre = INIT => proc'[p].est = "cosechado" /\ proc'[p].padre = INIT
      /\ proc[p].padre # INIT => /\ proc'[p].est = "zombi"
                                 /\ proc'[p].padre = proc[p].padre
                                 /\ proc'[p].cmd = proc[p].cmd
      /\ \A q \in Pids \ {p} :
            /\ proc[q].est = "vivo" =>
                /\ proc'[q].est = "vivo" /\ proc'[q].pc = proc[q].pc
                /\ proc'[q].cmd = proc[q].cmd
                /\ \/ q = proc[p].padre /\ proc'[q].padre = proc[q].padre
                   \/ proc[q].padre = p /\ proc'[q].padre = INIT
                   \/ proc[q].padre # p /\ proc'[q].padre = proc[q].padre
            /\ proc[q].est = "zombi" /\ proc[q].padre = p => proc'[q].est = "cosechado"
            /\ ~(proc[q].est = "vivo") /\ ~(proc[q].est = "zombi" /\ proc[q].padre = p) =>
                    proc'[q] = proc[q]
  BY TerminaDatos
<1>2. Pariente(p) /\ EnFamilia(p)
  BY DEF Familias, EnFamilia
<1>3. /\ proc'[SHELL].padre = INIT /\ proc'[SHELL].est = proc[SHELL].est
      /\ proc[SHELL].est = "vivo" => proc'[SHELL].pc = proc[SHELL].pc
      /\ proc'[SHELL].est \in {"vivo", "cosechado"}
  <2>1. SHELL \in Pids \ {p} /\ p # INIT
    BY ShellEsPid
  <2> QED
    BY <1>1, <2>1 DEF Familias
<1>4. ASSUME NEW q \in Pids \ {SHELL}, EnFamilia(q)' PROVE Pariente(q)'
  <2>1. EnFamilia(q) /\ Pariente(q)
    BY <1>1, <1>2, <1>4 DEF EnFamilia, Familias
  <2>2. proc'[q].cmd = proc[q].cmd
    BY <1>1, <1>4, <2>1 DEF EnFamilia
  <2>3. \/ proc'[q].padre = proc[q].padre /\ proc[q].padre # p
        \/ proc[q].padre = p /\ proc'[q].padre = INIT
    <3>1. CASE q = p
      <4>1. proc[p].padre # p
        BY <1>2 DEF Pariente, Pids
      <4> QED
        BY <1>1, <3>1, <4>1
    <3>2. CASE q # p
      <4>1. proc[q].padre = p => q # proc[p].padre
        BY <1>2, <2>1 DEF Pariente, Pids
      <4> QED
        BY <1>1, <1>4, <2>1, <3>2, <4>1 DEF EnFamilia
    <3> QED
      BY <3>1, <3>2
  <2>4. CASE proc[q].padre = p /\ proc'[q].padre = INIT
    <3>1. proc[p].pc = "fork_2" /\ ~EsPipe(proc[q].cmd)
      BY <2>1, <2>4 DEF Pariente, ConHijos
    <3> QED
      BY <2>2, <2>4, <3>1, ShellEsPid DEF Pariente
  <2>5. CASE proc'[q].padre = proc[q].padre /\ proc[q].padre # p
    <3> DEFINE k == proc[q].padre
    <3>1. CASE k = INIT
      BY <1>3, <2>1, <2>2, <2>5, <3>1, ShellEsPid DEF Pariente
    <3>2. CASE k = SHELL
      BY <1>3, <2>1, <2>2, <2>5, <3>2, ShellEsPid DEF Pariente, SHELL, INIT, En
    <3>3. CASE k \in Pids \ {SHELL}
      <4>1. proc[k].est = "vivo" /\ k # p
        BY <2>1, <2>5, <3>3 DEF Pariente
      <4>2. proc'[k].est = "vivo" /\ proc'[k].pc = proc[k].pc
        BY <1>1, <3>3, <4>1
      <4> QED
        BY <2>1, <2>2, <2>5, <3>3, <4>2, ShellEsPid DEF Pariente
    <3> QED
      BY <2>1, <3>1, <3>2, <3>3 DEF Pariente
  <2> QED
    BY <2>3, <2>4, <2>5
<1>5. ASSUME NEW k \in Pids \ {SHELL}, proc'[k].est = "vivo" PROVE Prole(k)'
  <2>1. k # p /\ proc[k].est = "vivo" /\ proc'[k].pc = proc[k].pc /\ proc'[k].cmd = proc[k].cmd
    BY <1>1, <1>5
  <2>2. Prole(k)
    BY <2>1 DEF Familias
  <2>3. \A a \in Pids : EsHijo(a, k)' => EsHijo(a, k)
    <3> SUFFICES ASSUME NEW a \in Pids, EsHijo(a, k)' PROVE EsHijo(a, k)
      OBVIOUS
    <3>1. k # INIT
      BY ShellEsPid
    <3>2. EnFamilia(a) /\ (a = p => proc[p].padre # INIT)
      BY <1>1, <1>2 DEF EsHijo, EnFamilia
    <3> QED
      BY <1>1, <3>1, <3>2 DEF EsHijo, EnFamilia
  <2> QED
    BY <2>1, <2>2, <2>3 DEF Prole
<1> QED
  BY <1>3, <1>4, <1>5 DEF Familias

\* When the shell ends its children are orphans.
LEMMA FamiliasExitShell ==
    ASSUME Tipos, Familias, ExitShell
    PROVE  Familias'
<1>1. /\ SHELL \in Pids /\ proc[SHELL].est = "vivo" /\ Termina(SHELL, EXIT_0)
      /\ fallos' \in Nat /\ fallos' = fallos
  BY ShellEsPid DEF ExitShell, En, Tipos
<1>2. /\ proc'[SHELL].est = "cosechado" /\ proc'[SHELL].padre = INIT
      /\ \A q \in Pids \ {SHELL} :
            /\ proc[q].est = "vivo" =>
                /\ proc'[q].est = "vivo" /\ proc'[q].pc = proc[q].pc
                /\ proc'[q].cmd = proc[q].cmd
                /\ \/ q = proc[SHELL].padre /\ proc'[q].padre = proc[q].padre
                   \/ proc[q].padre = SHELL /\ proc'[q].padre = INIT
                   \/ proc[q].padre # SHELL /\ proc'[q].padre = proc[q].padre
            /\ proc[q].est = "zombi" /\ proc[q].padre = SHELL => proc'[q].est = "cosechado"
            /\ ~(proc[q].est = "vivo") /\ ~(proc[q].est = "zombi" /\ proc[q].padre = SHELL) =>
                    proc'[q] = proc[q]
  BY <1>1, TerminaDatos DEF Familias
<1>3. proc[SHELL].padre = INIT
  BY DEF Familias
<1>4. ASSUME NEW q \in Pids \ {SHELL}, EnFamilia(q)'
      PROVE  /\ EnFamilia(q) /\ proc'[q].cmd = proc[q].cmd
             /\ \/ proc[q].padre = SHELL /\ proc'[q].padre = INIT
                \/ proc[q].padre # SHELL /\ proc'[q].padre = proc[q].padre
  <2>1. EnFamilia(q)
    BY <1>2, <1>4 DEF EnFamilia
  <2>2. q # INIT
    BY ShellEsPid
  <2> QED
    BY <1>2, <1>3, <1>4, <2>1, <2>2 DEF EnFamilia
<1>5. ASSUME NEW q \in Pids \ {SHELL}, EnFamilia(q)' PROVE Pariente(q)'
  <2> DEFINE k == proc[q].padre
  <2>1. Pariente(q)
    BY <1>4, <1>5 DEF Familias
  <2>2. CASE k \in {SHELL, INIT}
    <3>1. proc'[q].padre = INIT
      BY <1>4, <1>5, <2>2
    <3> QED
      BY <1>2, <3>1, ShellEsPid DEF Pariente
  <2>3. CASE k \in Pids \ {SHELL}
    <3>1. proc[k].est = "vivo"
      BY <2>1, <2>3 DEF Pariente
    <3>2. proc'[k].est = "vivo" /\ proc'[k].pc = proc[k].pc
      BY <1>2, <2>3, <3>1
    <3> QED
      BY <1>4, <1>5, <2>1, <2>3, <3>2, ShellEsPid DEF Pariente
  <2> QED
    BY <2>1, <2>2, <2>3 DEF Pariente
<1>6. ASSUME NEW k \in Pids \ {SHELL}, proc'[k].est = "vivo" PROVE Prole(k)'
  <2>1. proc[k].est = "vivo" /\ proc'[k].pc = proc[k].pc /\ proc'[k].cmd = proc[k].cmd
    BY <1>2, <1>6
  <2>2. Prole(k)
    BY <2>1 DEF Familias
  <2>3. \A a \in Pids : EsHijo(a, k)' => EsHijo(a, k)
    <3> SUFFICES ASSUME NEW a \in Pids, EsHijo(a, k)' PROVE EsHijo(a, k)
      OBVIOUS
    <3>1. k # INIT /\ a # SHELL
      BY <1>2, ShellEsPid DEF EsHijo, EnFamilia
    <3>2. EnFamilia(a)' /\ proc'[a].padre = k
      BY DEF EsHijo
    <3> QED
      BY <1>4, <3>1, <3>2 DEF EsHijo
  <2> QED
    BY <2>1, <2>2, <2>3 DEF Prole
<1> QED
  BY <1>2, <1>5, <1>6 DEF Familias

LEMMA FamiliasNace ==
    ASSUME Tipos, Familias, NEW p \in Pids, NEW pc \in {"exec_cmd", "hijo_1", "hijo_2"}, NEW c,
           Nace(p, pc, c), fallos' = fallos,
           p # SHELL =>
                /\ hijo' = hijo /\ proc'[p].cmd = proc[p].cmd /\ Prole(p)'
                /\ proc'[p].pc \in ConHijos
                /\ proc'[p].pc = "fork_2" => proc[p].pc \notin ConHijos /\ ~EsPipe(c),
           p = SHELL =>
                /\ ~En(SHELL, "espera")
                /\ EsBack(c) \/ (En(SHELL, "espera")' /\ hijo' = Nuevo)
    PROVE  Familias'
<1>1. PICK n : n = Nuevo
  OBVIOUS
<1>2. /\ \A q \in Pids : proc[q].est # "libre" <=> q < n
      /\ n > SHELL /\ n # p /\ p < n /\ (n \in Pids => proc[n].est = "libre")
  BY <1>1, NuevoLibre DEF Nace
<1>3. /\ \A q \in Pids \ {p, n} : proc'[q] = proc[q]
      /\ proc[p].est = "vivo" /\ proc'[p].est = "vivo" /\ proc'[p].padre = proc[p].padre
      /\ n \in Pids => /\ proc'[n].est = "vivo" /\ proc'[n].padre = p
                       /\ proc'[n].pc = pc /\ proc'[n].cmd = c
  BY <1>1 DEF Nace
<1>4. /\ proc'[SHELL].padre = INIT /\ proc'[SHELL].est = proc[SHELL].est
      /\ proc'[SHELL].est \in {"vivo", "cosechado"}
      /\ p # SHELL => proc'[SHELL] = proc[SHELL]
  <2>1. SHELL \in Pids \ {n}
    BY <1>2, ShellEsPid
  <2> QED
    BY <1>3, <2>1 DEF Familias
<1>5. ASSUME NEW q \in Pids \ {SHELL}, q # n, EnFamilia(q)' PROVE Pariente(q)'
  <2> DEFINE k == proc[q].padre
  <2>1. /\ EnFamilia(q) /\ proc'[q].padre = k /\ proc'[q].cmd = proc[q].cmd /\ Pariente(q)
    BY <1>3, <1>5 DEF Familias, EnFamilia
  <2>2. CASE k = INIT
    BY <1>4, <2>1, <2>2, ShellEsPid DEF Pariente
  <2>3. CASE k = SHELL
    <3>1. /\ SHELL < q /\ proc[SHELL].est = "vivo"
          /\ EsBack(proc[q].cmd) \/ (En(SHELL, "espera") /\ q = hijo)
      BY <2>1, <2>3, ShellEsPid DEF Pariente
    <3>2. EsBack(proc[q].cmd) \/ (En(SHELL, "espera")' /\ q = hijo')
      BY <1>4, <3>1 DEF En
    <3> QED
      BY <1>4, <2>1, <2>3, <3>1, <3>2, ShellEsPid DEF Pariente, SHELL, INIT
  <2>4. CASE k \in Pids \ {SHELL}
    <3>1. /\ k < q /\ proc[k].est = "vivo" /\ proc[k].pc \in ConHijos
          /\ proc[k].pc = "fork_2" => ~EsPipe(proc[q].cmd)
      BY <2>1, <2>4 DEF Pariente
    <3>2. k # n
      BY <1>2, <2>4, <3>1
    <3>3. /\ proc'[k].est = "vivo" /\ proc'[k].pc \in ConHijos
          /\ proc'[k].pc = "fork_2" => proc[k].pc = "fork_2"
      BY <1>3, <2>4, <3>1, <3>2
    <3> QED
      BY <2>1, <2>4, <3>1, <3>3, ShellEsPid DEF Pariente
  <2> QED
    BY <2>1, <2>2, <2>3, <2>4 DEF Pariente
<1>6. ASSUME n \in Pids PROVE Pariente(n)' /\ Prole(n)'
  <2>1. Prole(n)'
    BY <1>3, <1>6 DEF Prole, ConHijos
  <2>2. /\ proc'[n].padre = p /\ proc'[n].cmd = c /\ proc'[p].est = "vivo"
        /\ p < n /\ p # INIT
    BY <1>2, <1>3, <1>6, ShellEsPid
  <2>3. p = SHELL => EsBack(c) \/ (En(SHELL, "espera")' /\ n = hijo')
    BY <1>1
  <2>4. p # SHELL => proc'[p].pc \in ConHijos /\ (proc'[p].pc = "fork_2" => ~EsPipe(c))
    OBVIOUS
  <2>5. Pariente(n)'
    BY <2>2, <2>3, <2>4 DEF Pariente
  <2> QED
    BY <2>1, <2>5
<1>7. ASSUME NEW k \in Pids \ {SHELL}, k # n, proc'[k].est = "vivo" PROVE Prole(k)'
  <2>1. CASE k = p
    BY <1>7, <2>1
  <2>2. CASE k # p
    <3>1. proc'[k] = proc[k] /\ Prole(k)
      BY <1>3, <1>7, <2>2 DEF Familias
    <3>2. \A a \in Pids : EsHijo(a, k)' => EsHijo(a, k)
      BY <1>3, <2>2 DEF EsHijo, EnFamilia
    <3> QED
      BY <3>1, <3>2 DEF Prole
  <2> QED
    BY <2>1, <2>2
<1> QED
  BY <1>4, <1>5, <1>6, <1>7 DEF Familias

LEMMA FamiliasFork1 ==
    ASSUME Tipos, Familias, NEW p \in Pids, Fork1(p)
    PROVE  Familias'
<1> DEFINE c == <<proc[p].cmd[1]>>
<1>1. hijo' = hijo /\ fallos \in Nat
  BY DEF Fork1, Tipos
<1>2. CASE /\ fallos' = fallos + 1 /\ proc[p].est = "vivo" /\ proc[p].pc = "fork_1"
           /\ Termina(p, EXIT_255)
  <2>1. p # SHELL
    BY <1>2 DEF Tipos, Proceso, PcShell
  <2> QED
    BY <1>1, <1>2, <2>1, FamiliasTermina
<1>3. CASE /\ fallos' = fallos /\ proc[p].pc = "fork_1" /\ p # SHELL
           /\ Nace(p, "hijo_1", c)
           /\ proc'[p].pc = "fork_2" /\ proc'[p].cmd = proc[p].cmd
  <2>1. proc[p].est = "vivo" /\ Prole(p) /\ EsPipe(proc[p].cmd)
    BY <1>3 DEF Nace, Familias, Prole
  <2>2. \A a \in Pids : ~EsHijo(a, p)
    <3> SUFFICES ASSUME NEW a \in Pids, EsHijo(a, p) PROVE FALSE
      OBVIOUS
    <3>1. a # SHELL
      BY ShellEsPid DEF EsHijo, Familias
    <3>2. Pariente(a) /\ proc[a].padre = p
      BY <3>1 DEF EsHijo, Familias
    <3> QED
      BY <1>3, <3>2 DEF Pariente, ConHijos
  <2>3. PICK n : n = Nuevo
    OBVIOUS
  <2>4. \A a \in Pids : EsHijo(a, p)' => a = n
    <3> SUFFICES ASSUME NEW a \in Pids, EsHijo(a, p)', a # n PROVE FALSE
      OBVIOUS
    <3>1. a # p \/ proc[a].padre = p
      BY <1>3 DEF Nace, EsHijo
    <3>2. EsHijo(a, p)
      BY <1>3, <2>1, <2>3, <3>1 DEF Nace, EsHijo, EnFamilia
    <3> QED
      BY <2>2, <3>2
  <2>5. Prole(p)'
    BY <1>3, <2>1, <2>4 DEF Prole
  <2>6. ~EsPipe(c)
    BY DEF EsPipe
  <2>7. proc'[p].pc \in ConHijos /\ proc[p].pc \notin ConHijos
    BY <1>3 DEF ConHijos
  <2> QED
    BY <1>1, <1>3, <2>5, <2>6, <2>7, FamiliasNace
<1> QED
  BY <1>2, <1>3, Fork1Datos

LEMMA FamiliasFork2 ==
    ASSUME Tipos, Familias, NEW p \in Pids, Fork2(p)
    PROVE  Familias'
<1> DEFINE c == Tail(proc[p].cmd)
<1>1. hijo' = hijo /\ fallos \in Nat
  BY DEF Fork2, Tipos
<1>2. CASE /\ fallos' = fallos + 1 /\ proc[p].est = "vivo" /\ proc[p].pc = "fork_2"
           /\ Termina(p, EXIT_255)
  <2>1. p # SHELL
    BY <1>2 DEF Tipos, Proceso, PcShell
  <2> QED
    BY <1>1, <1>2, <2>1, FamiliasTermina
<1>3. CASE /\ fallos' = fallos /\ proc[p].pc = "fork_2" /\ p # SHELL
           /\ Nace(p, "hijo_2", c)
           /\ proc'[p].pc = "wait_1" /\ proc'[p].cmd = proc[p].cmd
  <2>1. proc[p].est = "vivo" /\ Prole(p) /\ EsPipe(proc[p].cmd)
    BY <1>3 DEF Nace, Familias, Prole, ConHijos
  <2>2. \A a, b \in Pids : EsHijo(a, p) /\ EsHijo(b, p) => a = b
    BY <1>3, <2>1 DEF Prole
  <2>3. PICK n : n = Nuevo
    OBVIOUS
  <2>4. \A a \in Pids : EsHijo(a, p)' => a = n \/ EsHijo(a, p)
    <3> SUFFICES ASSUME NEW a \in Pids, EsHijo(a, p)', a # n PROVE EsHijo(a, p)
      OBVIOUS
    <3>1. a # p \/ proc[a].padre = p
      BY <1>3 DEF Nace, EsHijo
    <3> QED
      BY <1>3, <2>1, <2>3, <3>1 DEF Nace, EsHijo, EnFamilia
  <2>5. Prole(p)'
    BY <1>3, <2>1, <2>2, <2>4 DEF Prole
  <2>6. proc'[p].pc \in ConHijos /\ proc'[p].pc # "fork_2"
    BY <1>3 DEF ConHijos
  <2> QED
    BY <1>1, <1>3, <2>5, <2>6, FamiliasNace
<1> QED
  BY <1>2, <1>3, Fork2Datos

LEMMA FamiliasRunCmdFork ==
    ASSUME Tipos, Familias, RunCmdFork
    PROVE  Familias'
<1> DEFINE c == proc[SHELL].cmd
<1>1. /\ SHELL \in Pids /\ fallos \in Nat /\ ~En(SHELL, "espera")
      /\ \/ EsBack(c)
         \/ ~EsBack(c) /\ proc'[SHELL].pc = "espera"
  BY ShellEsPid, RunCmdForkDatos DEF Tipos, En
<1>2. CASE Mueve(SHELL) /\ fallos' = fallos + 1
  BY <1>1, <1>2, FamiliasMueve
<1>3. CASE /\ Nace(SHELL, "exec_cmd", c) /\ fallos' = fallos
           /\ ~EsBack(c) => hijo' = Nuevo
  <2>1. EsBack(c) \/ (En(SHELL, "espera")' /\ hijo' = Nuevo)
    BY <1>1, <1>3 DEF En, Nace
  <2> QED
    BY <1>1, <1>3, <2>1, FamiliasNace
<1> QED
  BY <1>2, <1>3, RunCmdForkDatos

-----------------------------------------------------------------------------
\* Every step keeps the invariant.

LEMMA Iguales ==
    ASSUME IInv, proc' = proc, hijo' = hijo, fallos' = fallos
    PROVE  IInv'
<1>1. Tipos'
  BY DEF IInv, Tipos
<1>2. Pipes'
  <2>1. \A q, k \in Pids :
            /\ Extra(q)' = Extra(q) /\ Descriptores(q)' = Descriptores(q)
            /\ Escritor(q, k)' = Escritor(q, k)
    BY DEF Extra, Descriptores, Escritor, Bifurco1, Bifurco2
  <2> QED
    BY <2>1 DEF IInv, Pipes
<1>3. Familias'
  <2>1. \A q, k \in Pids :
            /\ EnFamilia(q)' = EnFamilia(q) /\ Pariente(q)' = Pariente(q)
            /\ EsHijo(q, k)' = EsHijo(q, k)
    BY DEF EnFamilia, Pariente, EsHijo, En
  <2>2. \A k \in Pids : Prole(k)' = Prole(k)
    BY <2>1 DEF Prole
  <2> QED
    BY <2>1, <2>2 DEF IInv, Familias
<1> QED
  BY <1>1, <1>2, <1>3 DEF IInv

LEMMA FinDatos ==
    ASSUME Tipos, NEW p \in Pids, ExecCmdFalla(p) \/ ExitHijo(p) \/ ProgramaTermina(p)
    PROVE  /\ p # SHELL /\ proc[p].est = "vivo"
           /\ proc[p].pc \notin {"fork_2", "wait_1", "wait_2"}
           /\ \E st : Termina(p, st)
           /\ fallos' = fallos /\ hijo' = hijo
<1>1. /\ proc[p].est = "vivo" /\ proc[p].pc \in {"redir", "exec_cmd", "exit", "programa"}
      /\ fallos' = fallos /\ hijo' = hijo /\ \E st : Termina(p, st)
  <2>1. CASE ExecCmdFalla(p)
    BY <2>1 DEF ExecCmdFalla, EnEtapa, En
  <2>2. CASE ExitHijo(p)
    BY <2>2 DEF ExitHijo, En
  <2>3. CASE ProgramaTermina(p)
    <3>1. \E st : Termina(p, st)
      BY <2>3, Zenon DEF ProgramaTermina
    <3>2. En(p, "programa") /\ fallos' = fallos /\ hijo' = hijo
      BY <2>3, Zenon DEF ProgramaTermina
    <3> QED
      BY <3>1, <3>2 DEF En
  <2> QED
    BY <2>1, <2>2, <2>3
<1> QED
  BY <1>1 DEF Tipos, Proceso, PcShell

LEMMA TiposNext ==
    ASSUME Tipos, Next
    PROVE  Tipos' /\ fallos' \in Nat
<1> SHELL \in Pids /\ fallos \in Nat
  BY ShellEsPid DEF Tipos
<1>1. CASE Cd
  BY <1>1 DEF Cd, Tipos
<1>2. CASE ReadLine
  <2>1. PICK l : RunCmd(l) /\ En(SHELL, "prompt")
    BY <1>2 DEF ReadLine
  <2> QED
    BY <2>1, RunCmdDatos, MueveTipos
<1>3. CASE ExitShell
  <2>1. proc[SHELL].est = "vivo" /\ Termina(SHELL, EXIT_0) /\ fallos' = fallos
    BY <1>3 DEF ExitShell, En
  <2> QED
    BY <2>1, TerminaDatos
<1>4. CASE RunCmdFork
  <2>1. \/ Mueve(SHELL) /\ fallos' \in Nat
        \/ Nace(SHELL, "exec_cmd", proc[SHELL].cmd) /\ fallos' \in Nat
    BY <1>4, RunCmdForkDatos
  <2> QED
    BY <2>1, MueveTipos, NaceTipos
<1>5. CASE RunCmdWait
  BY <1>5, RunCmdWaitDatos, MueveTipos
<1>6. ASSUME NEW p \in Pids, SigchldHandler(p) PROVE Tipos' /\ fallos' \in Nat
  <2>1. fallos' = fallos
    BY <1>6 DEF SigchldHandler
  <2> QED
    BY <1>6, <2>1, SigchldHandlerDatos, MueveTipos
<1>7. ASSUME NEW p \in Pids,
             \/ ExecCmdBack(p) \/ ExecCmdExec(p) \/ ExecCmdPipe(p) \/ Hijo1(p) \/ Hijo2(p)
             \/ PipeWaits(p)
      PROVE  Tipos' /\ fallos' \in Nat
  <2>1. fallos' = fallos
    BY <1>7 DEF ExecCmdBack, ExecCmdExec, ExecCmdPipe, Hijo1, Hijo2, PipeWaits, PipeWait
  <2>2. "wait_1" \in PcHijo /\ "wait_2" \in PcHijo /\ "exit" \in PcHijo
    BY DEF PcHijo
  <2>3. PipeWaits(p) => Mueve(p)
    BY <2>2, PipeWaitDatos DEF PipeWaits
  <2>4. Mueve(p)
    BY <1>7, <2>3, ExecCmdBackDatos, ExecCmdExecDatos, ExecCmdPipeDatos, Hijo1Datos, Hijo2Datos
  <2> QED
    BY <2>1, <2>4, MueveTipos
<1>8. ASSUME NEW p \in Pids, Fork1(p) PROVE Tipos' /\ fallos' \in Nat
  <2>1. \/ proc[p].est = "vivo" /\ Termina(p, EXIT_255) /\ fallos' \in Nat
        \/ Nace(p, "hijo_1", <<proc[p].cmd[1]>>) /\ fallos' \in Nat
    BY <1>8, Fork1Datos
  <2> QED
    BY <2>1, TerminaDatos, NaceTipos
<1>9. ASSUME NEW p \in Pids, Fork2(p) PROVE Tipos' /\ fallos' \in Nat
  <2>1. \/ proc[p].est = "vivo" /\ Termina(p, EXIT_255) /\ fallos' \in Nat
        \/ Nace(p, "hijo_2", Tail(proc[p].cmd)) /\ fallos' \in Nat
    BY <1>9, Fork2Datos
  <2> QED
    BY <2>1, TerminaDatos, NaceTipos
<1>10. ASSUME NEW p \in Pids, ExecCmdFalla(p) \/ ExitHijo(p) \/ ProgramaTermina(p)
       PROVE  Tipos' /\ fallos' \in Nat
  <2>1. proc[p].est = "vivo" /\ (\E st : Termina(p, st)) /\ fallos' = fallos
    BY <1>10, FinDatos
  <2>2. PICK st : Termina(p, st)
    BY <2>1
  <2> QED
    BY <2>1, <2>2, TerminaDatos
<1> QED
  BY <1>1, <1>2, <1>3, <1>4, <1>5, <1>6, <1>7, <1>8, <1>9, <1>10 DEF Next, Paso

LEMMA PipesNext ==
    ASSUME Tipos, Pipes, Next, ~Cd
    PROVE  Pipes'
<1> SHELL \in Pids /\ fallos \in Nat /\ fallos' \in Nat
  BY ShellEsPid, TiposNext DEF Tipos
<1>1. CASE ReadLine \/ RunCmdWait
  BY <1>1, PipesQuietos
<1>2. CASE ExitShell
  <2>1. proc[SHELL].est = "vivo" /\ Termina(SHELL, EXIT_0)
    BY <1>2 DEF ExitShell, En
  <2> QED
    BY <2>1, PipesTermina
<1>3. CASE RunCmdFork
  BY <1>3, PipesRunCmdFork
<1>4. ASSUME NEW p \in Pids, SigchldHandler(p) \/ ExecCmdBack(p) \/ PipeWaits(p) PROVE Pipes'
  BY <1>4, PipesQuietos
<1>5. ASSUME NEW p \in Pids,
             \/ ExecCmdExec(p) \/ ExecCmdPipe(p) \/ Hijo1(p) \/ Hijo2(p) \/ Fork1(p) \/ Fork2(p)
      PROVE  Pipes'
  BY <1>5, PipesExec, PipesPipe, PipesHijo1, PipesHijo2, PipesFork1, PipesFork2
<1>6. ASSUME NEW p \in Pids, ExecCmdFalla(p) \/ ExitHijo(p) \/ ProgramaTermina(p) PROVE Pipes'
  <2>1. proc[p].est = "vivo" /\ \E st : Termina(p, st)
    BY <1>6, FinDatos
  <2>2. PICK st : Termina(p, st)
    BY <2>1
  <2> QED
    BY <2>1, <2>2, PipesTermina
<1> QED
  BY <1>1, <1>2, <1>3, <1>4, <1>5, <1>6 DEF Next, Paso

LEMMA FamiliasNext ==
    ASSUME Tipos, Familias, Next, ~Cd
    PROVE  Familias'
<1> SHELL \in Pids /\ fallos \in Nat /\ fallos' \in Nat
  BY ShellEsPid, TiposNext DEF Tipos
<1>1. CASE ReadLine \/ RunCmdWait \/ ExitShell \/ RunCmdFork
  BY <1>1, FamiliasReadLine, FamiliasRunCmdWait, FamiliasExitShell, FamiliasRunCmdFork
<1>2. ASSUME NEW p \in Pids,
             \/ ExecCmdBack(p) \/ ExecCmdExec(p) \/ ExecCmdPipe(p) \/ Hijo1(p) \/ Hijo2(p)
             \/ SigchldHandler(p) \/ PipeWaits(p)
      PROVE  Familias'
  BY <1>2, FamiliasPasoQuieto, FamiliasSigchld, FamiliasPipeWaits
<1>3. ASSUME NEW p \in Pids, Fork1(p) \/ Fork2(p) PROVE Familias'
  BY <1>3, FamiliasFork1, FamiliasFork2
<1>4. ASSUME NEW p \in Pids, ExecCmdFalla(p) \/ ExitHijo(p) \/ ProgramaTermina(p)
      PROVE  Familias'
  <2>1. /\ p # SHELL /\ proc[p].est = "vivo"
        /\ proc[p].pc \notin {"fork_2", "wait_1", "wait_2"}
        /\ fallos' = fallos /\ hijo' = hijo /\ \E st : Termina(p, st)
    BY <1>4, FinDatos
  <2>2. PICK st : Termina(p, st)
    BY <2>1
  <2> QED
    BY <2>1, <2>2, FamiliasTermina
<1> QED
  BY <1>1, <1>2, <1>3, <1>4 DEF Next, Paso

LEMMA IInvNext ==
    ASSUME IInv, [Next]_vars
    PROVE  IInv'
<1>1. CASE UNCHANGED vars
  BY <1>1, Iguales DEF vars
<1>2. CASE Cd
  BY <1>2, Iguales DEF Cd
<1>3. CASE Next /\ ~Cd
  BY <1>3, TiposNext, PipesNext, FamiliasNext DEF IInv
<1> QED
  BY <1>1, <1>2, <1>3

LEMMA IInvInit ==
    ASSUME Init
    PROVE  IInv
<1> DEFINE s == [Libre EXCEPT !.est = "vivo", !.pgid = SHELL, !.pc = "prompt",
                              !.fd = [i \in 0 .. 2 |-> TTY], !.environ = Entorno]
<1>1. /\ EsRegistro(s) /\ s.est = "vivo" /\ s.pc = "prompt" /\ s.fd = [i \in 0 .. 2 |-> TTY]
      /\ s.padre = INIT /\ s.extremos = {}
  BY DEF Libre, EsRegistro, Campos
<1>2. proc = [q \in Pids |-> IF q = SHELL THEN s ELSE Libre]
  BY Zenon DEF Init
<1> HIDE DEF s
<1>3. /\ proc = [q \in Pids |-> proc[q]] /\ SHELL \in Pids
      /\ \A q \in Pids : proc[q] = IF q = SHELL THEN s ELSE Libre
  BY <1>2, ShellEsPid
<1>4. \A q \in Pids : q # SHELL => proc[q].est = "libre"
  BY <1>3, Registros
<1>5. Tipos
  <2>1. s.fd = [i \in 0 .. 2 |-> s.fd[i]] /\ "prompt" \in PcShell
    BY <1>1 DEF PcShell
  <2>2. \A q \in Pids : Proceso(proc[q], q)
    BY <1>1, <1>3, <2>1, Registros DEF Proceso
  <2>3. \A q \in Pids : proc[q].est # "libre" <=> q <= 1
    BY <1>1, <1>3, <1>4 DEF Pids, SHELL
  <2>4. 1 \in 1 .. NPID
    BY NPIDTipo
  <2> QED
    BY <1>3, <2>2, <2>3, <2>4 DEF Init, Tipos
<1>6. Pipes
  <2>1. /\ proc[SHELL].pc = "prompt" /\ proc[SHELL].extremos = {}
        /\ proc[SHELL].fd[0] = TTY /\ proc[SHELL].fd[1] = TTY /\ proc[SHELL].fd[2] = TTY
    BY <1>1, <1>3
  <2>2. \A k : TTY # Lee(k) /\ TTY # Escribe(k)
    BY DEF TTY, Lee, Escribe
  <2>3. Extra(SHELL) /\ Descriptores(SHELL)
    BY <2>1, <2>2 DEF Extra, Descriptores
  <2> QED
    BY <1>4, <2>3 DEF Pipes, Escritor
<1>7. Familias
  BY <1>1, <1>3, <1>4 DEF Familias, EnFamilia
<1> QED
  BY <1>5, <1>6, <1>7 DEF IInv

-----------------------------------------------------------------------------
\* What the invariant gives.

LEMMA PipeEndsOwnedDeIInv ==
    ASSUME IInv
    PROVE  PipeEndsOwned
<1> SUFFICES ASSUME NEW p \in Programas
             PROVE  /\ proc[p].extremos = {}
                    /\ \A k \in Pids : proc[p].fd[0] = Lee(k) =>
                        LET escritores == {q \in Vivos : Escribe(k) \in Extremos(q)}
                        IN  Cardinality(escritores) <= 1 /\ escritores \cap {p, k} = {}
  BY Zenon DEF PipeEndsOwned
<1>1. /\ p \in Pids /\ proc[p].est = "vivo" /\ proc[p].pc = "programa"
      /\ Extra(p) /\ Descriptores(p)
  BY DEF Programas, En, IInv, Pipes
<1>2. proc[p].extremos = {}
  BY <1>1 DEF Extra
<1>3. ASSUME NEW k \in Pids, proc[p].fd[0] = Lee(k)
      PROVE  LET escritores == {q \in Vivos : Escribe(k) \in Extremos(q)}
             IN  Cardinality(escritores) <= 1 /\ escritores \cap {p, k} = {}
  <2> DEFINE escritores == {q \in Vivos : Escribe(k) \in Extremos(q)}
  <2>1. Bifurco2(k)
    BY <1>1, <1>3 DEF Descriptores
  <2>2. ASSUME NEW q \in escritores PROVE q \in Pids /\ Escritor(q, k) /\ q # p /\ q # k
    <3>1. /\ q \in Pids /\ proc[q].est = "vivo" /\ Extra(q) /\ Descriptores(q)
          /\ Escribe(k) \in proc[q].extremos \cup {proc[q].fd[i] : i \in 0 .. 2}
      BY DEF Vivos, Extremos, IInv, Pipes
    <3>2. CASE Escribe(k) \in proc[q].extremos
      <4>1. CASE proc[q].pc = "fork_1"
        <5>1. k = q
          BY <3>1, <3>2, <4>1, ExtremosDistintos DEF Extra
        <5> QED
          BY <2>1, <3>1, <4>1, <5>1 DEF Bifurco2
      <4>2. CASE proc[q].pc = "hijo_1"
        <5>1. proc[q].pipefd = k /\ k # q
          BY <3>1, <3>2, <4>2, ExtremosDistintos DEF Extra
        <5> QED
          BY <1>1, <3>1, <4>2, <5>1 DEF Escritor
      <4>3. CASE proc[q].pc \notin {"fork_1", "hijo_1"}
        BY <3>1, <3>2, <4>3, ExtremosDistintos DEF Extra
      <4> QED
        BY <4>1, <4>2, <4>3
    <3>3. CASE \E i \in 0 .. 2 : Escribe(k) = proc[q].fd[i]
      <4>1. Escribe(k) # proc[q].fd[0]
        BY <3>1 DEF Descriptores
      <4>2. Escribe(k) \in {proc[q].fd[1], proc[q].fd[2]}
        <5>1. PICK i \in 0 .. 2 : Escribe(k) = proc[q].fd[i]
          BY <3>3
        <5>2. i = 0 \/ i = 1 \/ i = 2
          OBVIOUS
        <5> QED
          BY <4>1, <5>1, <5>2
      <4>3. k # q /\ proc[q].fd[0] # Lee(k)
        BY <3>1, <4>2 DEF Descriptores
      <4> QED
        BY <1>3, <3>1, <4>2, <4>3 DEF Escritor
    <3> QED
      BY <3>1, <3>2, <3>3
  <2>3. \A q, s \in escritores : q = s
    BY <2>2 DEF IInv, Pipes
  <2> HIDE DEF escritores
  <2>4. Cardinality(escritores) <= 1
    <3>1. CASE escritores = {}
      BY <3>1, FS_EmptySet
    <3>2. CASE escritores # {}
      <4>1. PICK w : w \in escritores
        BY <3>2
      <4>2. escritores = {w}
        BY <2>3, <4>1
      <4>3. Cardinality({w}) = 1
        BY FS_Singleton
      <4> QED
        BY <4>2, <4>3
    <3> QED
      BY <3>1, <3>2
  <2>5. escritores \cap {p, k} = {}
    BY <2>2
  <2> QED
    BY <2>4, <2>5 DEF escritores
<1> QED
  BY <1>2, <1>3

\* A set of naturals that is not empty has a least element.
LEMMA Minimo ==
    ASSUME NEW D \in SUBSET Nat, D # {}
    PROVE  \E x \in D : \A y \in D : ~(y < x)
<1>1. PICK x \in D : \A y \in D : <<y, x>> \notin OpToRel(<, Nat)
  BY WFMin, NatLessThanWellFounded
<1> QED
  BY <1>1 DEF OpToRel

\* At the prompt no process is in the middle of a pipe: the oldest of them would
\* have a parent that is one of them too.
LEMMA NadieEspera ==
    ASSUME IInv, En(SHELL, "prompt"), NEW k \in Pids \ {SHELL}, proc[k].est = "vivo",
           proc[k].pc \in ConHijos
    PROVE  FALSE
<1> DEFINE M == {j \in Pids \ {SHELL} : proc[j].est = "vivo" /\ proc[j].pc \in ConHijos}
<1>1. M \subseteq Nat /\ M # {}
  BY ShellEsPid
<1>2. PICK m \in M : \A y \in M : ~(y < m)
  BY <1>1, Minimo
<1>3. /\ m \in Pids \ {SHELL} /\ Pariente(m) /\ EsPipe(proc[m].cmd)
      /\ proc[SHELL].est = "vivo" /\ ~En(SHELL, "espera")
  BY DEF IInv, Familias, EnFamilia, Prole, En
<1>4. ~EsBack(proc[m].cmd)
  <2> SUFFICES ASSUME EsBack(proc[m].cmd) PROVE FALSE
    OBVIOUS
  <2>1. PICK n : n = Len(proc[m].cmd)
    OBVIOUS
  <2>2. n > 1 /\ n = 1
    BY <1>3, <2>1, Zenon DEF EsPipe, EsBack
  <2> QED
    BY <2>2
<1> DEFINE j == proc[m].padre
<1>5. j \in Pids \ {SHELL}
  BY <1>3, <1>4 DEF Pariente
<1>6. j \in M /\ j < m
  BY <1>3, <1>5 DEF Pariente
<1> QED
  BY <1>2, <1>6

LEMMA ForegroundDoneDeIInv ==
    ASSUME IInv
    PROVE  ForegroundDone
<1> SUFFICES ASSUME En(SHELL, "prompt"), NEW q \in Pids \ {SHELL},
                    proc[q].est \in {"vivo", "zombi"}
             PROVE  \/ proc[q].padre = SHELL /\ EsBack(proc[q].cmd)
                    \/ proc[q].padre = INIT /\ fallos > 0
  BY Zenon DEF ForegroundDone
<1>1. Pariente(q) /\ proc[SHELL].est = "vivo" /\ ~En(SHELL, "espera")
  BY DEF IInv, Familias, EnFamilia, En
<1> DEFINE k == proc[q].padre
<1>2. CASE k = INIT
  BY <1>1, <1>2 DEF Pariente
<1>3. CASE k = SHELL
  BY <1>1, <1>3, ShellEsPid DEF Pariente
<1>4. CASE k \in Pids \ {SHELL}
  BY <1>1, <1>4, NadieEspera DEF Pariente
<1> QED
  BY <1>1, <1>2, <1>3, <1>4 DEF Pariente

-----------------------------------------------------------------------------
\* The parser.  Counting positions.

LEMMA PrimeroDe ==
    ASSUME NEW n \in Nat, NEW I, I # {}, \A i \in I : i \in 1 .. n
    PROVE  Min(I) \in I /\ \A y \in I : Min(I) <= y
<1>1. PICK x \in I : \A y \in I : ~(y < x)
  <2>1. I \in SUBSET Nat
    OBVIOUS
  <2> QED
    BY <2>1, Minimo
<1>2. \A y \in I : x <= y
  BY <1>1
<1> QED
  BY <1>1, <1>2 DEF Min

LEMMA UltimoDe ==
    ASSUME NEW n \in Nat, NEW I, I # {}, \A i \in I : i \in 1 .. n
    PROVE  Max(I) \in I /\ \A y \in I : y <= Max(I)
<1> DEFINE D == {n - y : y \in I}
<1>1. D \in SUBSET Nat /\ D # {}
  OBVIOUS
<1>2. PICK d \in D : \A e \in D : ~(e < d)
  BY <1>1, Minimo
<1>3. PICK x \in I : d = n - x
  BY <1>2
<1>4. ASSUME NEW y \in I PROVE x >= y
  <2>1. n - y \in D /\ n - y \in Int /\ x \in Int /\ y \in Int
    OBVIOUS
  <2> QED
    BY <1>2, <1>3, <2>1
<1> QED
  BY <1>3, <1>4 DEF Max

\* How many of the positions J come before k, k included.
Hasta(J, k) == Cardinality({i \in J : i <= k})

LEMMA HastaDatos ==
    ASSUME NEW n \in Nat, NEW J, \A j \in J : j \in 1 .. n, NEW k \in 0 .. n
    PROVE  /\ Hasta(J, k) \in Nat /\ IsFiniteSet({i \in J : i <= k})
           /\ \A j \in 0 .. k : Hasta(J, j) <= Hasta(J, k)
           /\ \A j \in 0 .. k : k \in J /\ j < k => Hasta(J, j) < Hasta(J, k)
           /\ k \in J => Hasta(J, k) \in 1 .. Hasta(J, n)
           /\ Hasta(J, n) = Cardinality(J)
<1> DEFINE S(j) == {i \in J : i <= j}
<1>1. ASSUME NEW j \in 0 .. n PROVE IsFiniteSet(S(j)) /\ Cardinality(S(j)) \in Nat
  <2>1. IsFiniteSet(1 .. n) /\ S(j) \in SUBSET (1 .. n)
    BY FS_Interval
  <2>2. PICK s : s = S(j)
    OBVIOUS
  <2>3. IsFiniteSet(s)
    BY <2>1, <2>2, FS_Subset
  <2> QED
    BY <2>2, <2>3, FS_CardinalityType
<1>2. ASSUME NEW j \in 0 .. n, NEW m \in 0 .. n, j <= m
      PROVE  /\ Cardinality(S(j)) <= Cardinality(S(m))
             /\ m \in J /\ j < m => Cardinality(S(j)) < Cardinality(S(m))
  <2>1. S(j) \in SUBSET S(m)
    BY <1>2
  <2>2. m \in J /\ j < m => S(j) # S(m)
    OBVIOUS
  <2>3. IsFiniteSet(S(m)) /\ Cardinality(S(j)) \in Nat /\ Cardinality(S(m)) \in Nat
    BY <1>1
  <2>4. PICK a, b : a = S(j) /\ b = S(m)
    OBVIOUS
  <2>5. Cardinality(a) <= Cardinality(b) /\ (Cardinality(b) = Cardinality(a) => b = a)
    BY <2>1, <2>3, <2>4, FS_Subset
  <2> QED
    BY <2>2, <2>3, <2>4, <2>5
<1>5. S(n) = J
  OBVIOUS
<1>6. \A j : Hasta(J, j) = Cardinality(S(j))
  BY DEF Hasta
<1> HIDE DEF S
<1>7. k \in J => Cardinality(S(k)) \in 1 .. Cardinality(S(n))
  <2>1. k \in J => 0 < k
    OBVIOUS
  <2>2. 0 \in 0 .. n /\ n \in 0 .. n /\ 0 <= k /\ k <= n
    OBVIOUS
  <2>3. /\ k \in J => Cardinality(S(0)) < Cardinality(S(k))
        /\ Cardinality(S(k)) <= Cardinality(S(n))
        /\ Cardinality(S(0)) \in Nat /\ Cardinality(S(k)) \in Nat /\ Cardinality(S(n)) \in Nat
    BY <1>1, <1>2, <2>1, <2>2
  <2> QED
    BY <2>3
<1>8. \A j \in 0 .. k : /\ Cardinality(S(j)) <= Cardinality(S(k))
                        /\ k \in J /\ j < k => Cardinality(S(j)) < Cardinality(S(k))
  BY <1>2
<1>9. Cardinality(S(k)) \in Nat /\ IsFiniteSet(S(k))
  BY <1>1
<1>10. S(k) = {i \in J : i <= k}
  BY DEF S
<1> QED
  BY <1>5, <1>6, <1>7, <1>8, <1>9, <1>10

LEMMA HastaCero ==
    ASSUME NEW n \in Nat, NEW J, \A j \in J : j \in 1 .. n
    PROVE  Hasta(J, 0) = 0
<1>1. {i \in J : i <= 0} = {}
  OBVIOUS
<1> QED
  BY <1>1, FS_EmptySet DEF Hasta

LEMMA HastaPaso ==
    ASSUME NEW n \in Nat, NEW J, \A j \in J : j \in 1 .. n, NEW k \in 1 .. n
    PROVE  Hasta(J, k) = Hasta(J, k - 1) + (IF k \in J THEN 1 ELSE 0)
<1>1. PICK a, b : a = {i \in J : i <= k - 1} /\ b = {i \in J : i <= k}
  OBVIOUS
<1>2. k - 1 \in 0 .. n /\ k \notin a
  BY <1>1
<1>3. /\ Hasta(J, k - 1) \in Nat /\ IsFiniteSet(a)
      /\ Hasta(J, k - 1) = Cardinality(a) /\ Hasta(J, k) = Cardinality(b)
  <2>1. Hasta(J, k - 1) = Cardinality(a) /\ Hasta(J, k) = Cardinality(b)
    BY <1>1 DEF Hasta
  <2>2. Hasta(J, k - 1) \in Nat /\ IsFiniteSet({i \in J : i <= k - 1})
    BY <1>2, HastaDatos
  <2> QED
    BY <1>1, <2>1, <2>2
<1>4. \A i \in J : i \in Nat /\ (i <= k <=> i <= k - 1 \/ i = k)
  OBVIOUS
<1>5. CASE k \in J
  <2>1. b = a \cup {k}
    BY <1>1, <1>4, <1>5
  <2> QED
    BY <1>2, <1>3, <1>5, <2>1, FS_AddElement
<1>6. CASE k \notin J
  <2>1. b = a
    BY <1>1, <1>4, <1>6
  <2> QED
    BY <1>3, <1>6, <2>1
<1> QED
  BY <1>5, <1>6

\* The function of EnOrden, up to m.
Anota(s, J, h, k) ==
    IF k = 0 THEN <<>> ELSE IF k \in J THEN Append(h[k - 1], s[k]) ELSE h[k - 1]
Anotadas(s, J, m, h) == h = [k \in 0 .. m |-> Anota(s, J, h, k)]

LEMMA AnotadasSigue ==
    ASSUME NEW s, NEW J, NEW m \in Nat, NEW h, Anotadas(s, J, m, h)
    PROVE  \E g : Anotadas(s, J, m + 1, g)
<1> DEFINE g == [k \in 0 .. m + 1 |-> IF k = m + 1 THEN Anota(s, J, h, k) ELSE h[k]]
<1>1. \A k \in 0 .. m : h[k] = Anota(s, J, h, k)
  BY DEF Anotadas
<1>2. ASSUME NEW k \in 0 .. m + 1
      PROVE  g[k] = Anota(s, J, g, k)
  <2>1. k # 0 => k - 1 \in 0 .. m /\ g[k - 1] = h[k - 1]
    OBVIOUS
  <2>2. Anota(s, J, g, k) = Anota(s, J, h, k)
    <3> HIDE DEF g
    <3> QED
      BY <2>1 DEF Anota
  <2>3. CASE k = m + 1
    <3>1. g[k] = Anota(s, J, h, k)
      BY <2>3
    <3> QED
      BY <2>2, <3>1
  <2>4. CASE k \in 0 .. m
    <3>1. g[k] = h[k]
      BY <2>4
    <3> QED
      BY <1>1, <2>2, <2>4, <3>1
  <2> QED
    BY <2>3, <2>4
<1>3. g = [k \in 0 .. m + 1 |-> g[k]]
  OBVIOUS
<1> HIDE DEF g
<1>4. Anotadas(s, J, m + 1, g)
  BY <1>2, <1>3 DEF Anotadas
<1> QED
  BY <1>4

LEMMA AnotadasHay ==
    ASSUME NEW s, NEW J, NEW n \in Nat
    PROVE  \E h : Anotadas(s, J, n, h)
<1> DEFINE D == {m \in Nat : ~\E h : Anotadas(s, J, m, h)}
<1>1. SUFFICES ASSUME D # {} PROVE FALSE
  OBVIOUS
<1>2. PICK m \in D : \A y \in D : ~(y < m)
  BY <1>1, Minimo
<1>3. m \in Nat /\ ~\E h : Anotadas(s, J, m, h)
  BY <1>2
<1>4. m # 0
  <2> DEFINE h == [k \in 0 .. 0 |-> <<>>]
  <2>1. Anotadas(s, J, 0, h)
    BY DEF Anotadas, Anota
  <2> QED
    BY <1>3, <2>1
<1>5. m - 1 \in Nat /\ m - 1 < m /\ (m - 1) + 1 = m
  BY <1>3, <1>4
<1>6. \E h : Anotadas(s, J, m - 1, h)
  BY <1>2, <1>5
<1>7. \E h : Anotadas(s, J, (m - 1) + 1, h)
  BY <1>5, <1>6, AnotadasSigue
<1> QED
  BY <1>3, <1>5, <1>7

LEMMA EnOrdenEs ==
    ASSUME NEW S, NEW s \in Seq(S), NEW J
    PROVE  \E h : Anotadas(s, J, Len(s), h) /\ EnOrden(s, J) = h[Len(s)]
<1> DEFINE h == CHOOSE g : Anotadas(s, J, Len(s), g)
<1>1. Anotadas(s, J, Len(s), h)
  BY AnotadasHay
<1>2. EnOrden(s, J) = h[Len(s)]
  BY DEF EnOrden, Anotadas, Anota
<1> QED
  BY <1>1, <1>2

\* e is what is at the positions of J up to k.
Anotado(e, S, s, J, k) ==
    /\ e \in Seq(S) /\ Len(e) = Hasta(J, k)
    /\ \A j \in J : j <= k => e[Hasta(J, j)] = s[j]
    /\ \A m \in 1 .. Len(e) : \E j \in J : j <= k /\ Hasta(J, j) = m

LEMMA AnotadoSigue ==
    ASSUME NEW S, NEW s \in Seq(S), NEW J, \A j \in J : j \in 1 .. Len(s),
           NEW k \in 1 .. Len(s), NEW e, Anotado(e, S, s, J, k - 1)
    PROVE  Anotado(IF k \in J THEN Append(e, s[k]) ELSE e, S, s, J, k)
<1>1. Len(s) \in Nat
  OBVIOUS
<1> DEFINE n == Len(s)
<1>2. n \in Nat /\ k \in 0 .. n /\ k > 0 /\ k - 1 \in 0 .. n /\ \A j \in J : j \in 1 .. n
  BY <1>1
<1> HIDE DEF n
<1>3. /\ Hasta(J, k) \in Nat /\ Hasta(J, k - 1) \in Nat
      /\ Hasta(J, k) = Hasta(J, k - 1) + (IF k \in J THEN 1 ELSE 0)
  <2>1. Hasta(J, k - 1) \in Nat
    BY <1>2, HastaDatos
  <2>2. Hasta(J, k) \in Nat
    BY <1>2, HastaDatos
  <2>3. k \in 1 .. n
    BY <1>2
  <2>4. Hasta(J, k) = Hasta(J, k - 1) + (IF k \in J THEN 1 ELSE 0)
    BY <1>2, <2>3, HastaPaso
  <2> QED
    BY <2>1, <2>2, <2>4
<1>4. \A j \in J : j <= k <=> j <= k - 1 \/ j = k
  BY <1>2
<1>5. /\ e \in Seq(S) /\ Len(e) = Hasta(J, k - 1)
      /\ \A j \in J : j <= k - 1 => e[Hasta(J, j)] = s[j]
      /\ \A m \in 1 .. Len(e) : \E j \in J : j <= k - 1 /\ Hasta(J, j) = m
  BY DEF Anotado
<1>6. CASE k \notin J
  BY <1>3, <1>4, <1>5, <1>6 DEF Anotado
<1>7. CASE k \in J
  <2>1. s[k] \in S
    OBVIOUS
  <2> DEFINE f == Append(e, s[k])
  <2>2. /\ f \in Seq(S) /\ Len(f) = Len(e) + 1
        /\ \A i \in 1 .. Len(e) : f[i] = e[i]
        /\ f[Len(e) + 1] = s[k]
    BY <1>5, <2>1, AppendProperties
  <2> HIDE DEF f
  <2>3. Len(f) = Hasta(J, k) /\ f[Hasta(J, k)] = s[k]
    BY <1>3, <1>5, <1>7, <2>2
  <2>4. ASSUME NEW j \in J, j <= k PROVE f[Hasta(J, j)] = s[j]
    <3>1. CASE j = k
      BY <2>3, <3>1
    <3>2. CASE j # k
      <4>1. j <= k - 1 /\ j \in 0 .. n /\ 0 < j /\ j \in 0 .. k - 1
        BY <1>2, <2>4, <3>2
      <4>2. Hasta(J, j) \in Nat /\ Hasta(J, j) <= Hasta(J, k - 1)
        BY <1>2, <4>1, HastaDatos
      <4>3. Hasta(J, j) > 0
        <5>1. Hasta(J, j) \in 1 .. Hasta(J, n)
          BY <1>2, <4>1, HastaDatos
        <5> QED
          BY <5>1
      <4>4. Hasta(J, j) \in 1 .. Len(e)
        BY <1>3, <1>5, <4>2, <4>3
      <4> QED
        BY <1>5, <2>2, <4>1, <4>4
    <3> QED
      BY <3>1, <3>2
  <2>5. ASSUME NEW m \in 1 .. Len(f) PROVE \E j \in J : j <= k /\ Hasta(J, j) = m
    <3>1. CASE m = Hasta(J, k)
      BY <1>2, <1>7, <3>1
    <3>2. CASE m # Hasta(J, k)
      <4>1. m \in 1 .. Len(e)
        BY <1>3, <1>5, <2>2, <2>3, <3>2
      <4> QED
        BY <1>4, <1>5, <4>1
    <3> QED
      BY <3>1, <3>2
  <2>6. Anotado(f, S, s, J, k)
    BY <2>2, <2>3, <2>4, <2>5 DEF Anotado
  <2> QED
    BY <1>7, <2>6 DEF f
<1> QED
  BY <1>6, <1>7

\* What EnOrden gives: one element for each position, in their order.
LEMMA EnOrdenDatos ==
    ASSUME NEW S, NEW s \in Seq(S), NEW J, \A j \in J : j \in 1 .. Len(s)
    PROVE  Anotado(EnOrden(s, J), S, s, J, Len(s))
<1> DEFINE n == Len(s)
<1>1. n \in Nat /\ \A j \in J : j \in 1 .. n
  OBVIOUS
<1>2. PICK h : Anotadas(s, J, n, h) /\ EnOrden(s, J) = h[n]
  BY EnOrdenEs
<1>3. \A k \in 0 .. n : h[k] = Anota(s, J, h, k)
  BY <1>2 DEF Anotadas
<1> DEFINE D == {k \in 0 .. n : ~Anotado(h[k], S, s, J, k)}
<1>4. SUFFICES D = {}
  <2>1. n \in 0 .. n
    BY <1>1
  <2> HIDE DEF n
  <2> QED
    BY <1>2, <2>1 DEF n
<1>5. SUFFICES ASSUME D # {} PROVE FALSE
  OBVIOUS
<1>6. PICK k \in D : \A y \in D : ~(y < k)
  <2>1. D \in SUBSET Nat
    OBVIOUS
  <2> QED
    BY <1>5, <2>1, Minimo
<1>7. k \in 0 .. n /\ ~Anotado(h[k], S, s, J, k)
  BY <1>6
<1>8. CASE k = 0
  <2>1. h[k] = <<>>
    BY <1>3, <1>7, <1>8 DEF Anota
  <2>4. Hasta(J, k) = 0
    <3> HIDE DEF n
    <3> QED
      BY <1>1, <1>8, HastaCero
  <2>2. <<>> \in Seq(S) /\ Len(<<>>) = 0
    OBVIOUS
  <2>3. \A j \in J : ~(j <= 0)
    BY <1>1
  <2> QED
    BY <1>7, <1>8, <2>1, <2>2, <2>3, <2>4 DEF Anotado
<1>9. CASE k # 0
  <2>1. k - 1 \in 0 .. n /\ k - 1 < k /\ k \in 1 .. n
    BY <1>7, <1>9
  <2>2. Anotado(h[k - 1], S, s, J, k - 1)
    BY <1>6, <2>1
  <2>3. h[k] = IF k \in J THEN Append(h[k - 1], s[k]) ELSE h[k - 1]
    BY <1>3, <1>7, <1>9 DEF Anota
  <2>4. PICK e : e = h[k - 1]
    OBVIOUS
  <2>5. Anotado(IF k \in J THEN Append(e, s[k]) ELSE e, S, s, J, k)
    BY <2>1, <2>2, <2>4, AnotadoSigue
  <2> QED
    BY <1>7, <2>3, <2>4, <2>5
<1> QED
  BY <1>8, <1>9

\* The same positions, d further on.
LEMMA HastaCorre ==
    ASSUME NEW n \in Nat, NEW J, \A j \in J : j \in 1 .. n, NEW d \in Nat, NEW k \in 0 .. n,
           NEW K, \A i : i \in K <=> \E j \in J : i = j + d
    PROVE  Hasta(K, k + d) = Hasta(J, k) /\ \A i \in K : i \in 1 .. n + d
<1>1. PICK a, b : a = {i \in J : i <= k} /\ b = {i \in K : i <= k + d}
  OBVIOUS
<1>2. IsFiniteSet({i \in J : i <= k})
  BY HastaDatos
<1> DEFINE f == [i \in a |-> i + d]
<1>3. f \in Bijection(a, b)
  <2>1. \A i \in a : i \in J /\ i \in Int /\ i <= k
    BY <1>1
  <2>2. \A i \in a : i + d \in b
    BY <1>1, <2>1
  <2>3. \A i, j \in a : i + d = j + d => i = j
    BY <2>1
  <2>4. ASSUME NEW i \in b PROVE \E j \in a : i = j + d
    <3>1. i \in K /\ i <= k + d
      BY <1>1
    <3>2. PICK j \in J : i = j + d
      BY <3>1
    <3>3. j <= k
      BY <3>1, <3>2
    <3> QED
      BY <1>1, <3>2, <3>3
  <2> QED
    BY <2>2, <2>3, <2>4 DEF Bijection, Injection, Surjection, IsInjective
<1>4. ExistsBijection(a, b)
  BY <1>3 DEF ExistsBijection
<1>5. Cardinality(b) = Cardinality(a)
  BY <1>1, <1>2, <1>4, FS_Bijection
<1>6. \A i \in K : i \in 1 .. n + d
  OBVIOUS
<1> QED
  BY <1>1, <1>5, <1>6 DEF Hasta

LEMMA FuncionSeq ==
    ASSUME NEW n \in Nat, NEW S, NEW f, f = [i \in 1 .. n |-> f[i]], \A i \in 1 .. n : f[i] \in S
    PROVE  f \in Seq(S) /\ Len(f) = n /\ DOMAIN f = 1 .. n
<1>1. f \in [1 .. n -> S]
  OBVIOUS
<1>2. f \in Seq(S)
  BY <1>1, SeqDef
<1> QED
  BY <1>1, <1>2

\* The last of the positions of these kinds is the one that Ultimo looks at.
LEMMA UltimoDatos ==
    ASSUME NEW S, NEW u \in Seq(S), NEW tipos
    PROVE  /\ De(u, tipos) = {} => Ultimo(u, tipos) = ""
           /\ De(u, tipos) # {} =>
                \E k \in De(u, tipos) :
                    Ultimo(u, tipos) = u[k].v /\ \A j \in De(u, tipos) : j <= k
<1> DEFINE I == {i \in 1 .. Len(u) : u[i].t \in tipos}
           k == IF I # {} THEN Max(I) ELSE 0
<1>1. I = De(u, tipos)
  BY DEF De
<1>2. Ultimo(u, tipos) = IF k = 0 THEN "" ELSE u[k].v
  BY Zenon DEF Ultimo, SelectLastInSeq
<1>3. Len(u) \in Nat
  OBVIOUS
<1>4. CASE I = {}
  BY <1>1, <1>2, <1>4
<1>5. CASE I # {}
  <2>1. \A i \in I : i \in 1 .. Len(u)
    OBVIOUS
  <2>2. PICK n : n = Len(u)
    OBVIOUS
  <2> HIDE DEF I
  <2>3. Max(I) \in I /\ \A y \in I : y <= Max(I)
    BY <1>3, <1>5, <2>1, <2>2, UltimoDe
  <2>4. k = Max(I) /\ k # 0
    BY <1>5, <2>1, <2>3
  <2> HIDE DEF k
  <2> QED
    BY <1>1, <1>2, <1>5, <2>3, <2>4
<1> QED
  BY <1>4, <1>5

\* What parse_redir_flow leaves in err_file when nobody asks for one.
LEMMA ErrFileDatos ==
    ASSUME NEW S, NEW u \in Seq(S), De(u, {"2>", "2>&1"}) = {}
    PROVE  ErrFile(u) = ""
<1> DEFINE I == {i \in 1 .. Len(u) : u[i].t \in {"2>", "2>&1"}}
           k == IF I # {} THEN Max(I) ELSE 0
<1>1. I = De(u, {"2>", "2>&1"})
  BY DEF De
<1>2. k = 0
  BY <1>1
<1>3. ErrFile(u) = IF k = 0 THEN "" ELSE IF u[k].t = "2>" THEN u[k].v
                   ELSE Ultimo(SubSeq(u, 1, k - 1), {">"})
  BY Zenon DEF ErrFile, SelectLastInSeq
<1> QED
  BY <1>2, <1>3

\* The arguments, one for each token that is one, in their order.
Argumento(tok, st, e) == tok.t \in Argumentos /\ ExpandEnvironVar(tok, st, e) # ""

Args(u, st, e) == {k \in 1 .. Len(u) : Argumento(u[k], st, e)}

LEMMA ArgvDatos ==
    ASSUME NEW S, NEW u \in Seq(S), NEW st, NEW e
    PROVE  LET J == Args(u, st, e)
               argv == Argv(u, st, e)
           IN  /\ \E T : argv \in Seq(T)
               /\ Len(argv) = Hasta(J, Len(u))
               /\ \A j \in J : argv[Hasta(J, j)] = ExpandEnvironVar(u[j], st, e)
<1> DEFINE n == Len(u)
           T == {ExpandEnvironVar(u[k], st, e) : k \in 1 .. n}
           x == Textos(u, st, e)
           J == {k \in 1 .. n : Argumento(u[k], st, e)}
<1>1. n \in Nat /\ DOMAIN u = 1 .. n
  OBVIOUS
<1>2. x = [k \in 1 .. n |-> ExpandEnvironVar(u[k], st, e)]
  BY <1>1 DEF Textos
<1>3. J = {k \in De(u, Argumentos) : x[k] # ""}
  BY <1>1, <1>2 DEF De, Argumento
<1>4. Argv(u, st, e) = EnOrden(x, J)
  BY <1>3, Zenon DEF Argv
<1>5. x = [k \in 1 .. n |-> x[k]] /\ \A k \in 1 .. n : x[k] \in T
  BY <1>2
<1>6. \A k \in 1 .. n : x[k] = ExpandEnvironVar(u[k], st, e)
  BY <1>2
<1>7. \A j \in J : j \in 1 .. n
  OBVIOUS
<1> HIDE DEF n, T, x, J
<1>8. x \in Seq(T) /\ Len(x) = n
  BY <1>1, <1>5, FuncionSeq
<1>9. Anotado(EnOrden(x, J), T, x, J, n)
  BY <1>7, <1>8, EnOrdenDatos
<1>10. \A j \in J : j <= n
  BY <1>1, <1>7
<1>11. PICK v : v = EnOrden(x, J)
  OBVIOUS
<1>12. v \in Seq(T) /\ Len(v) = Hasta(J, n) /\ \A j \in J : v[Hasta(J, j)] = ExpandEnvironVar(u[j], st, e)
  BY <1>6, <1>7, <1>9, <1>10, <1>11 DEF Anotado
<1> QED
  BY <1>4, <1>11, <1>12, Zenon DEF n, J, Args

\* The variables: the last token that assigns one gives it its value.
Asignan(u, n) == {j \in De(u, {"="}) : u[j].n = n}

LEMMA SetEnvironVarsDatos ==
    ASSUME NEW S, NEW u \in Seq(S), NEW env
    PROVE  LET f == SetEnvironVars(env, EnOrden(u, De(u, {"="})))
           IN  \A n \in DOMAIN f :
                f[n] = IF Asignan(u, n) = {} THEN env[n] ELSE u[Max(Asignan(u, n))].v
<1> DEFINE J == De(u, {"="})
           de(n) == {j \in J : u[j].n = n}
<1>1. PICK len : len = Len(u)
  OBVIOUS
<1>2. PICK v : v = EnOrden(u, J)
  OBVIOUS
<1>3. len \in Nat /\ \A j \in J : j \in 1 .. len /\ j <= len
  BY <1>1 DEF De
<1> HIDE DEF J
<1>4. /\ v \in Seq(S) /\ Len(v) = Hasta(J, len)
      /\ \A j \in J : v[Hasta(J, j)] = u[j]
      /\ \A m \in 1 .. Len(v) : \E j \in J : Hasta(J, j) = m
  <2>1. Anotado(EnOrden(u, J), S, u, J, Len(u))
    BY <1>1, <1>3, EnOrdenDatos
  <2> QED
    BY <1>1, <1>2, <1>3, <2>1 DEF Anotado
<1>5. ASSUME NEW j \in J PROVE Hasta(J, j) \in 1 .. Len(v)
  <2>1. j \in 0 .. len
    BY <1>3
  <2>2. Hasta(J, j) \in 1 .. Hasta(J, len)
    BY <1>3, <2>1, HastaDatos
  <2> QED
    BY <1>4, <2>2
<1> DEFINE nombres == {v[k].n : k \in DOMAIN v}
           I(n) == {k \in 1 .. Len(v) : v[k].n = n}
           k(n) == IF I(n) # {} THEN Max(I(n)) ELSE 0
           g == [n \in nombres |-> v[k(n)].v]
<1>6. DOMAIN v = 1 .. Len(v) /\ Len(v) \in Nat
  BY <1>4
<1>7. \A n : n \in nombres <=> de(n) # {}
  BY <1>4, <1>5, <1>6
<1>8. ASSUME NEW n \in nombres PROVE g[n] = u[Max(de(n))].v
  <2>1. I(n) # {}
    BY <1>6, <1>8
  <2>2. Max(I(n)) \in I(n) /\ \A y \in I(n) : y <= Max(I(n))
    <3>1. \A i \in I(n) : i \in 1 .. Len(v)
      OBVIOUS
    <3> HIDE DEF I
    <3> QED
      BY <1>6, <2>1, <3>1, UltimoDe
  <2>3. PICK m : m = Max(I(n))
    OBVIOUS
  <2>4. m \in 1 .. Len(v) /\ v[m].n = n /\ \A y \in I(n) : y <= m
    BY <2>2, <2>3
  <2>5. PICK j \in J : Hasta(J, j) = m
    BY <1>4, <2>4
  <2>6. v[m] = u[j] /\ j \in de(n)
    BY <1>4, <2>4, <2>5
  <2>7. ASSUME NEW i \in de(n) PROVE i <= j
    <3>1. i \in J /\ u[i].n = n
      OBVIOUS
    <3>2. Hasta(J, i) \in I(n)
      BY <1>4, <1>5, <3>1
    <3>3. Hasta(J, i) <= Hasta(J, j)
      BY <2>4, <2>5, <3>2
    <3>4. i \in 0 .. len /\ j \in 0 .. len
      BY <1>3, <3>1
    <3>5. Hasta(J, i) \in Nat /\ Hasta(J, j) \in Nat
      BY <1>3, <3>4, HastaDatos
    <3>6. j < i => Hasta(J, j) < Hasta(J, i)
      <4>1. SUFFICES ASSUME j < i PROVE Hasta(J, j) < Hasta(J, i)
        OBVIOUS
      <4>2. j \in 0 .. i
        BY <3>4, <4>1
      <4> QED
        BY <1>3, <3>1, <3>4, <4>1, <4>2, HastaDatos
    <3> QED
      BY <3>3, <3>4, <3>5, <3>6
  <2>8. Max(de(n)) = j
    <3>1. Max(de(n)) \in de(n) /\ \A y \in de(n) : y <= Max(de(n))
      <4>1. \A i \in de(n) : i \in 1 .. len
        BY <1>3
      <4>2. de(n) # {}
        BY <2>6
      <4> HIDE DEF de
      <4> QED
        BY <1>3, <4>1, <4>2, UltimoDe
    <3>2. \A i \in de(n) : i \in Int
      BY <1>3
    <3> HIDE DEF de
    <3> QED
      BY <2>6, <2>7, <3>1, <3>2
  <2>9. g[n] = v[k(n)].v /\ k(n) = m
    BY <2>1, <2>3
  <2> QED
    BY <2>6, <2>8, <2>9
<1>9. SetEnvironVars(env, v) = [n \in DOMAIN env \cup nombres |->
                                  IF n \in nombres THEN v[k(n)].v ELSE env[n]]
  BY Zenon DEF SetEnvironVars, UltimoValor, SelectLastInSeq
<1>10. PICK f : f = SetEnvironVars(env, EnOrden(u, J))
  OBVIOUS
<1>11. ASSUME NEW n \in DOMAIN f
       PROVE  f[n] = IF de(n) = {} THEN env[n] ELSE u[Max(de(n))].v
  <2>1. n \in DOMAIN env \cup nombres /\ f[n] = IF n \in nombres THEN v[k(n)].v ELSE env[n]
    <3> HIDE DEF nombres, k
    <3> QED
      BY <1>2, <1>9, <1>10, <1>11
  <2>2. CASE n \in nombres
    <3>1. f[n] = g[n]
      BY <2>1, <2>2
    <3> QED
      BY <1>7, <1>8, <2>2, <3>1
  <2>3. CASE n \notin nombres
    <3> HIDE DEF nombres
    <3> QED
      BY <1>7, <2>1, <2>3
  <2> QED
    BY <2>2, <2>3
<1> HIDE DEF nombres, k, I
<1> QED
  BY <1>10, <1>11 DEF J, Asignan

LEMMA SubSub ==
    ASSUME NEW S, NEW s \in Seq(S), NEW i \in 1 .. Len(s) + 1, NEW j \in i - 1 .. Len(s),
           NEW m \in 1 .. j - i + 2, NEW n \in m - 1 .. j - i + 1
    PROVE  /\ SubSeq(s, i, j) \in Seq(S) /\ Len(SubSeq(s, i, j)) = j - i + 1
           /\ \A k \in 1 .. j - i + 1 : SubSeq(s, i, j)[k] = s[i + k - 1]
           /\ SubSeq(SubSeq(s, i, j), m, n) = SubSeq(s, i + m - 1, i + n - 1)
<1>1. Len(s) \in Nat /\ \A k \in 1 .. Len(s) : s[k] \in S
  OBVIOUS
<1>2. \A k \in i .. j : k \in 1 .. Len(s)
  BY <1>1
<1>3. i \in Int /\ j \in Int /\ m \in Int /\ n \in Int
  BY <1>1
<1>4. PICK t : t = SubSeq(s, i, j)
  OBVIOUS
<1>5. \A k \in i .. j : s[k] \in S
  BY <1>1, <1>2
<1>6. /\ t \in Seq(S) /\ Len(t) = IF i <= j THEN j - i + 1 ELSE 0
      /\ \A k \in 1 .. j - i + 1 : t[k] = s[i + k - 1]
  BY <1>3, <1>4, <1>5, SubSeqProperties
<1>7. Len(t) = j - i + 1
  BY <1>1, <1>6
<1>8. \A k \in m .. n : k \in 1 .. Len(t) /\ t[k] \in S
  BY <1>1, <1>6, <1>7
<1>9. PICK u, v : u = SubSeq(t, m, n) /\ v = SubSeq(s, i + m - 1, i + n - 1)
  OBVIOUS
<1>10. /\ u \in Seq(S) /\ Len(u) = IF m <= n THEN n - m + 1 ELSE 0
       /\ \A k \in 1 .. n - m + 1 : u[k] = t[m + k - 1]
  BY <1>3, <1>8, <1>9, SubSeqProperties
<1>11. PICK a, b : a = i + m - 1 /\ b = i + n - 1
  OBVIOUS
<1>12. a \in Int /\ b \in Int /\ \A k \in a .. b : k \in 1 .. Len(s) /\ s[k] \in S
  BY <1>1, <1>3, <1>11
<1>13. /\ v \in Seq(S) /\ Len(v) = IF a <= b THEN b - a + 1 ELSE 0
       /\ \A k \in 1 .. b - a + 1 : v[k] = s[a + k - 1]
  BY <1>9, <1>11, <1>12, SubSeqProperties
<1>14. Len(u) = Len(v)
  BY <1>3, <1>10, <1>11, <1>13
<1>15. ASSUME NEW k \in 1 .. Len(u) PROVE u[k] = v[k]
  <2>1. k \in 1 .. n - m + 1 /\ k \in 1 .. b - a + 1 /\ k \in Int
    BY <1>3, <1>10, <1>11
  <2>2. m + k - 1 \in 1 .. j - i + 1 /\ i + (m + k - 1) - 1 = a + k - 1
    BY <1>3, <1>11, <2>1
  <2>3. u[k] = t[m + k - 1] /\ v[k] = s[a + k - 1]
    BY <1>10, <1>13, <2>1
  <2> QED
    BY <1>6, <2>2, <2>3
<1>16. u = v
  BY <1>10, <1>13, <1>14, <1>15, SeqEqual
<1> QED
  BY <1>4, <1>6, <1>7, <1>9, <1>16

\* The position of the first token of these kinds, 0 when there is none.
Primera(s, tipos) == IF De(s, tipos) # {} THEN Min(De(s, tipos)) ELSE 0

LEMMA PrimeraDatos ==
    ASSUME NEW S, NEW s \in Seq(S), NEW tipos
    PROVE  /\ De(s, tipos) = {} => Primera(s, tipos) = 0
           /\ De(s, tipos) # {} =>
                /\ Primera(s, tipos) \in 1 .. Len(s) /\ s[Primera(s, tipos)].t \in tipos
                /\ \A j \in 1 .. Len(s) : s[j].t \in tipos => Primera(s, tipos) <= j
<1>1. \A j : j \in De(s, tipos) <=> j \in 1 .. Len(s) /\ s[j].t \in tipos
  BY DEF De
<1>2. PICK n : n = Len(s)
  OBVIOUS
<1>3. CASE De(s, tipos) # {}
  <2>1. n \in Nat /\ \A i \in De(s, tipos) : i \in 1 .. n
    BY <1>1, <1>2
  <2>2. Min(De(s, tipos)) \in De(s, tipos) /\ \A y \in De(s, tipos) : Min(De(s, tipos)) <= y
    BY <1>3, <2>1, PrimeroDe
  <2> QED
    BY <1>1, <1>3, <2>2 DEF Primera
<1> QED
  BY <1>3 DEF Primera

LEMMA PrimeraEs ==
    ASSUME NEW S, NEW s \in Seq(S)
    PROVE  /\ SelectInSeq(s, LAMBDA x : x.t = "|") = Primera(s, {"|"})
           /\ SelectInSeq(s, LAMBDA x : x.t \in {"&", "2>&1"}) = Primera(s, {"&", "2>&1"})
<1>1. {i \in 1 .. Len(s) : s[i].t = "|"} = De(s, {"|"})
  BY DEF De
<1>2. {i \in 1 .. Len(s) : s[i].t \in {"&", "2>&1"}} = De(s, {"&", "2>&1"})
  BY DEF De
<1> QED
  BY <1>1, <1>2, Zenon DEF SelectInSeq, Primera

LEMMA SplitLineEs ==
    ASSUME NEW S, NEW s \in Seq(S)
    PROVE  LET b == Primera(s, {"|"})
           IN  SplitLine(s) = IF b = 0 THEN <<s, <<>>>>
                              ELSE <<SubSeq(s, 1, b - 1), SubSeq(s, b + 1, Len(s))>>
<1>1. {i \in 1 .. Len(s) : s[i].t = "|"} = De(s, {"|"})
  BY DEF De
<1> QED
  BY <1>1, Zenon DEF SplitLine, SelectInSeq, Primera
\* The function of ParseLine, on the tokens from m on.
Linea(l, st, e, h, i) ==
    LET partes == SplitLine(SubSeq(l, i, Len(l)))
        d == Len(l) + 1 - Len(partes[2])
        r == IF SelectInSeq(partes[2], LAMBDA x : x.t = "|") > 1 THEN h[d]
             ELSE ParseCmd(partes[2], st, e)
    IN  PipeCmdCreate(ParseCmd(partes[1], st, e)[1], r)
Lineada(l, st, e, m, h) == h = [i \in m .. Len(l) + 1 |-> Linea(l, st, e, h, i)]

\* What comes from token i on, and after its first bar.
Resto(l, i)  == SubSeq(l, i, Len(l))
Barra1(l, i) == Primera(Resto(l, i), {"|"})

LEMMA LineaEs ==
    ASSUME NEW S, NEW l \in Seq(S), NEW i \in 1 .. Len(l) + 1, NEW st, NEW e, NEW h
    PROVE  LET b == i + Barra1(l, i) - 1
           IN  IF Barra1(l, i) = 0
               THEN Linea(l, st, e, h, i) = PipeCmdCreate(ParseCmd(Resto(l, i), st, e)[1], <<>>)
               ELSE /\ b \in i .. Len(l) /\ l[b].t = "|"
                    /\ \A j \in i .. b - 1 : l[j].t # "|"
                    /\ Linea(l, st, e, h, i) =
                        PipeCmdCreate(ParseCmd(SubSeq(l, i, b - 1), st, e)[1],
                            IF Primera(Resto(l, b + 1), {"|"}) > 1 THEN h[b + 1]
                            ELSE ParseCmd(Resto(l, b + 1), st, e))
<1>1. PICK n : n = Len(l)
  OBVIOUS
<1>2. n \in Nat /\ i \in 1 .. n + 1
  BY <1>1
<1>3. PICK s : s = Resto(l, i)
  OBVIOUS
<1>4. /\ s \in Seq(S) /\ Len(s) = n - i + 1
      /\ \A k \in 1 .. n - i + 1 : s[k] = l[i + k - 1]
      /\ \A m \in 1 .. n - i + 2 : \A k \in m - 1 .. n - i + 1 :
            SubSeq(s, m, k) = SubSeq(l, i + m - 1, i + k - 1)
  <2>1. n \in i - 1 .. Len(l)
    BY <1>1, <1>2
  <2>2. ASSUME NEW m \in 1 .. n - i + 2, NEW k \in m - 1 .. n - i + 1
        PROVE  /\ s \in Seq(S) /\ Len(s) = n - i + 1
               /\ \A j \in 1 .. n - i + 1 : s[j] = l[i + j - 1]
               /\ SubSeq(s, m, k) = SubSeq(l, i + m - 1, i + k - 1)
    BY <1>1, <1>3, <2>1, SubSub DEF Resto
  <2>3. 1 \in 1 .. n - i + 2 /\ 0 \in 1 - 1 .. n - i + 1
    BY <1>2
  <2> QED
    BY <2>2, <2>3
<1>5. PICK c : c = Barra1(l, i)
  OBVIOUS
<1>6. c = Primera(s, {"|"})
  BY <1>3, <1>5 DEF Barra1
<1>7. SplitLine(s) = IF c = 0 THEN <<s, <<>>>> ELSE <<SubSeq(s, 1, c - 1), SubSeq(s, c + 1, Len(s))>>
  BY <1>4, <1>6, SplitLineEs
<1>8. CASE c = 0
  <2>1. SplitLine(s) = <<s, <<>>>>
    BY <1>7, <1>8
  <2>2. SelectInSeq(<<>>, LAMBDA x : x.t = "|") = 0
    <3>1. <<>> \in Seq(S) /\ De(<<>>, {"|"}) = {}
      BY DEF De
    <3>2. Primera(<<>>, {"|"}) = 0
      BY <3>1, PrimeraDatos
    <3> QED
      BY <3>1, <3>2, PrimeraEs
  <2>3. ParseCmd(<<>>, st, e) = <<>>
    BY DEF ParseCmd
  <2>4. Linea(l, st, e, h, i) = PipeCmdCreate(ParseCmd(s, st, e)[1], <<>>)
    <3>1. PICK p : p = SplitLine(s)
      OBVIOUS
    <3>2. p[1] = s /\ p[2] = <<>>
      BY <2>1, <3>1
    <3>3. ~(SelectInSeq(p[2], LAMBDA x : x.t = "|") > 1) /\ ParseCmd(p[2], st, e) = <<>>
      BY <2>2, <2>3, <3>2
    <3>4. Linea(l, st, e, h, i) =
            PipeCmdCreate(ParseCmd(p[1], st, e)[1],
                IF SelectInSeq(p[2], LAMBDA x : x.t = "|") > 1 THEN h[Len(l) + 1 - Len(p[2])]
                ELSE ParseCmd(p[2], st, e))
      BY <1>3, <3>1, Zenon DEF Linea, Resto
    <3> QED
      BY <3>2, <3>3, <3>4
  <2> QED
    BY <1>3, <1>5, <1>8, <2>4
<1>9. CASE c # 0
  <2>1. /\ c \in 1 .. n - i + 1 /\ s[c].t = "|"
        /\ \A j \in 1 .. n - i + 1 : s[j].t = "|" => c <= j
    BY <1>4, <1>6, <1>9, PrimeraDatos
  <2>2. PICK b : b = i + c - 1
    OBVIOUS
  <2>3. b \in i .. n /\ l[b].t = "|" /\ b + 1 \in 1 .. n + 1
    <3>1. s[c] = l[i + c - 1]
      BY <1>4, <2>1
    <3> QED
      BY <1>2, <2>1, <2>2, <3>1
  <2>4. ASSUME NEW j \in i .. b - 1 PROVE l[j].t # "|"
    <3>1. j - i + 1 \in 1 .. n - i + 1 /\ j - i + 1 < c /\ i + (j - i + 1) - 1 = j
      BY <1>2, <2>1, <2>2
    <3>2. s[j - i + 1] = l[j]
      BY <1>4, <3>1
    <3> QED
      BY <1>2, <2>1, <3>1, <3>2
  <2>5. SubSeq(s, 1, c - 1) = SubSeq(l, i, b - 1) /\ SubSeq(s, c + 1, Len(s)) = Resto(l, b + 1)
    <3>1. /\ 1 \in 1 .. n - i + 2 /\ c - 1 \in 1 - 1 .. n - i + 1
          /\ i + 1 - 1 = i /\ i + (c - 1) - 1 = b - 1
          /\ c + 1 \in 1 .. n - i + 2 /\ n - i + 1 \in (c + 1) - 1 .. n - i + 1
          /\ i + (c + 1) - 1 = b + 1 /\ i + (n - i + 1) - 1 = n
      BY <1>2, <2>1, <2>2
    <3>2. SubSeq(s, 1, c - 1) = SubSeq(l, i + 1 - 1, i + (c - 1) - 1)
      BY <1>4, <3>1
    <3>3. SubSeq(s, c + 1, n - i + 1) = SubSeq(l, i + (c + 1) - 1, i + (n - i + 1) - 1)
      BY <1>4, <3>1
    <3> QED
      BY <1>1, <1>4, <3>1, <3>2, <3>3 DEF Resto
  <2>6. Resto(l, b + 1) \in Seq(S) /\ Len(Resto(l, b + 1)) = n - b
    <3>1. /\ b + 1 \in 1 .. Len(l) + 1 /\ n \in (b + 1) - 1 .. Len(l)
          /\ 1 \in 1 .. n - (b + 1) + 2 /\ 0 \in 1 - 1 .. n - (b + 1) + 1
      BY <1>1, <1>2, <2>3
    <3>2. SubSeq(l, b + 1, n) \in Seq(S) /\ Len(SubSeq(l, b + 1, n)) = n - (b + 1) + 1
      BY <3>1, SubSub
    <3> QED
      BY <1>1, <1>2, <2>3, <3>2 DEF Resto
  <2>7. PICK p : p = SplitLine(s)
    OBVIOUS
  <2>8. p[1] = SubSeq(l, i, b - 1) /\ p[2] = Resto(l, b + 1)
    <3>1. PICK u, v : u = SubSeq(l, i, b - 1) /\ v = Resto(l, b + 1)
      OBVIOUS
    <3>2. p = <<u, v>>
      BY <1>7, <1>9, <2>5, <2>7, <3>1
    <3> QED
      BY <3>1, <3>2
  <2>9. SelectInSeq(p[2], LAMBDA x : x.t = "|") = Primera(Resto(l, b + 1), {"|"})
    BY <2>6, <2>8, PrimeraEs
  <2>10. Len(l) + 1 - Len(p[2]) = b + 1
    BY <1>1, <1>2, <2>3, <2>6, <2>8
  <2>11. Linea(l, st, e, h, i) =
            PipeCmdCreate(ParseCmd(p[1], st, e)[1],
                IF SelectInSeq(p[2], LAMBDA x : x.t = "|") > 1 THEN h[Len(l) + 1 - Len(p[2])]
                ELSE ParseCmd(p[2], st, e))
    BY <1>3, <2>7, Zenon DEF Linea, Resto
  <2>12. Linea(l, st, e, h, i) =
            PipeCmdCreate(ParseCmd(SubSeq(l, i, b - 1), st, e)[1],
                IF Primera(Resto(l, b + 1), {"|"}) > 1 THEN h[b + 1]
                ELSE ParseCmd(Resto(l, b + 1), st, e))
    BY <2>8, <2>9, <2>10, <2>11
  <2> QED
    BY <1>1, <1>5, <1>9, <2>2, <2>3, <2>4, <2>12
<1> QED
  BY <1>8, <1>9, <1>5

LEMMA LineadaSigue ==
    ASSUME NEW S, NEW l \in Seq(S), NEW st, NEW e, NEW m \in 2 .. Len(l) + 2, NEW h,
           Lineada(l, st, e, m, h)
    PROVE  \E g : Lineada(l, st, e, m - 1, g)
<1>1. PICK n : n = Len(l)
  OBVIOUS
<1>2. n \in Nat /\ m \in 2 .. n + 2 /\ m - 1 \in 1 .. n + 1
  BY <1>1
<1> DEFINE g == [i \in m - 1 .. n + 1 |-> IF i = m - 1 THEN Linea(l, st, e, h, i) ELSE h[i]]
<1>3. \A i \in m .. n + 1 : h[i] = Linea(l, st, e, h, i)
  BY <1>1 DEF Lineada
<1>4. /\ g = [i \in m - 1 .. n + 1 |-> g[i]] /\ g[m - 1] = Linea(l, st, e, h, m - 1)
      /\ \A i \in m .. n + 1 : g[i] = h[i]
  BY <1>2
<1> HIDE DEF g
<1>5. ASSUME NEW i \in m - 1 .. n + 1
      PROVE  Linea(l, st, e, g, i) = Linea(l, st, e, h, i)
  <2>1. i \in 1 .. Len(l) + 1
    BY <1>1, <1>2
  <2>2. CASE Barra1(l, i) = 0
    <3>1. Linea(l, st, e, g, i) = PipeCmdCreate(ParseCmd(Resto(l, i), st, e)[1], <<>>)
      BY <2>1, <2>2, LineaEs
    <3>2. Linea(l, st, e, h, i) = PipeCmdCreate(ParseCmd(Resto(l, i), st, e)[1], <<>>)
      BY <2>1, <2>2, LineaEs
    <3> QED
      BY <3>1, <3>2
  <2>3. CASE Barra1(l, i) # 0
    <3>1. PICK b : b = i + Barra1(l, i) - 1
      OBVIOUS
    <3>2. /\ b \in i .. n
          /\ Linea(l, st, e, g, i) =
                PipeCmdCreate(ParseCmd(SubSeq(l, i, b - 1), st, e)[1],
                    IF Primera(Resto(l, b + 1), {"|"}) > 1 THEN g[b + 1]
                    ELSE ParseCmd(Resto(l, b + 1), st, e))
      BY <1>1, <2>1, <2>3, <3>1, LineaEs
    <3>3. Linea(l, st, e, h, i) =
                PipeCmdCreate(ParseCmd(SubSeq(l, i, b - 1), st, e)[1],
                    IF Primera(Resto(l, b + 1), {"|"}) > 1 THEN h[b + 1]
                    ELSE ParseCmd(Resto(l, b + 1), st, e))
      BY <2>1, <2>3, <3>1, LineaEs
    <3>4. g[b + 1] = h[b + 1]
      <4>1. b + 1 \in m .. n + 1
        BY <1>2, <3>2
      <4> QED
        BY <1>4, <4>1
    <3> QED
      BY <3>2, <3>3, <3>4
  <2> QED
    BY <2>2, <2>3
<1>6. ASSUME NEW i \in m - 1 .. n + 1 PROVE g[i] = Linea(l, st, e, g, i)
  <2>1. i = m - 1 \/ i \in m .. n + 1
    BY <1>2
  <2> QED
    BY <1>3, <1>4, <1>5, <2>1
<1>7. Lineada(l, st, e, m - 1, g)
  BY <1>1, <1>4, <1>6 DEF Lineada
<1> QED
  BY <1>7

LEMMA ParseLineEs ==
    ASSUME NEW S, NEW l \in Seq(S), NEW st, NEW e
    PROVE  \E h : Lineada(l, st, e, 1, h) /\ ParseLine(l, st, e) = h[1]
<1>1. PICK n : n = Len(l)
  OBVIOUS
<1>2. n \in Nat
  BY <1>1
<1> DEFINE D == {k \in 0 .. n + 1 : ~\E h : Lineada(l, st, e, n + 2 - k, h)}
<1>3. D = {}
  <2>1. SUFFICES ASSUME D # {} PROVE FALSE
    OBVIOUS
  <2>2. PICK k \in D : \A y \in D : ~(y < k)
    <3>1. D \in SUBSET Nat
      OBVIOUS
    <3> QED
      BY <2>1, <3>1, Minimo
  <2>3. k \in 0 .. n + 1 /\ ~\E h : Lineada(l, st, e, n + 2 - k, h)
    BY <2>2
  <2>4. k # 0
    <3> DEFINE h == [i \in n + 2 .. n + 1 |-> i]
    <3>1. n + 2 .. n + 1 = {}
      BY <1>2
    <3>2. Lineada(l, st, e, n + 2, h)
      BY <1>1, <3>1 DEF Lineada
    <3> QED
      BY <1>2, <2>3, <3>2
  <2>5. k - 1 \in 0 .. n + 1 /\ k - 1 < k /\ n + 2 - (k - 1) \in 2 .. n + 2
        /\ (n + 2 - (k - 1)) - 1 = n + 2 - k
    BY <1>2, <2>3, <2>4
  <2>6. \E h : Lineada(l, st, e, n + 2 - (k - 1), h)
    BY <2>2, <2>5
  <2>7. \E h : Lineada(l, st, e, (n + 2 - (k - 1)) - 1, h)
    <3>1. PICK m : m = n + 2 - (k - 1)
      OBVIOUS
    <3>2. m \in 2 .. Len(l) + 2 /\ \E h : Lineada(l, st, e, m, h)
      BY <1>1, <2>5, <2>6, <3>1
    <3>3. \E h : Lineada(l, st, e, m - 1, h)
      BY <3>2, LineadaSigue
    <3> QED
      BY <3>1, <3>3
  <2> QED
    BY <2>3, <2>5, <2>7
<1>4. \E h : Lineada(l, st, e, 1, h)
  <2>1. n + 1 \in 0 .. n + 1 /\ n + 2 - (n + 1) = 1
    BY <1>2
  <2> QED
    BY <1>3, <2>1
<1> DEFINE h == CHOOSE g : Lineada(l, st, e, 1, g)
<1>5. Lineada(l, st, e, 1, h)
  BY <1>4
<1>6. ParseLine(l, st, e) = h[1]
  BY Zenon DEF ParseLine, Lineada, Linea
<1> QED
  BY <1>5, <1>6

-----------------------------------------------------------------------------
\* The parser.  The stages of a line and the commands of a chain of pipes.

\* The stages of a line are between its bars.
Barras(l) == De(l, {"|"})
Etapas(l) == 1 + Cardinality(Barras(l))

LEMMA BarrasDatos ==
    ASSUME NEW S, NEW l \in Seq(S)
    PROVE  /\ \A j : j \in Barras(l) <=> j \in 1 .. Len(l) /\ l[j].t = "|"
           /\ Len(l) \in Nat /\ \A j \in Barras(l) : j \in 1 .. Len(l)
           /\ Etapas(l) = 1 + Hasta(Barras(l), Len(l)) /\ Etapas(l) \in Nat /\ Etapas(l) >= 1
<1>1. \A j : j \in Barras(l) <=> j \in 1 .. Len(l) /\ l[j].t = "|"
  BY DEF De, Barras
<1>2. PICK n : n = Len(l)
  OBVIOUS
<1>3. n \in Nat /\ n \in 0 .. n /\ \A j \in Barras(l) : j \in 1 .. n
  BY <1>1, <1>2
<1>4. Hasta(Barras(l), n) \in Nat /\ Hasta(Barras(l), n) = Cardinality(Barras(l))
  BY <1>3, HastaDatos
<1> QED
  BY <1>1, <1>2, <1>3, <1>4 DEF Etapas

LEMMA DeEtapaEs ==
    ASSUME NEW S, NEW l \in Seq(S), NEW i, NEW j
    PROVE  j \in DeEtapa(l, i) <=>
                j \in 1 .. Len(l) /\ j \notin Barras(l) /\ Hasta(Barras(l), j) = i - 1
<1>1. \A k : k \in Barras(l) <=> k \in 1 .. Len(l) /\ l[k].t = "|"
  BY BarrasDatos
<1>2. ASSUME j \in 1 .. Len(l)
      PROVE  {b \in 1 .. j : l[b].t = "|"} = {b \in Barras(l) : b <= j}
  BY <1>1, <1>2
<1>3. j \in DeEtapa(l, i) <=>
        j \in 1 .. Len(l) /\ l[j].t # "|" /\ Cardinality({b \in 1 .. j : l[b].t = "|"}) = i - 1
  BY DEF DeEtapa
<1>4. CASE j \in 1 .. Len(l)
  <2>1. Cardinality({b \in 1 .. j : l[b].t = "|"}) = Hasta(Barras(l), j)
    BY <1>2, <1>4 DEF Hasta
  <2>2. j \in Barras(l) <=> l[j].t = "|"
    BY <1>1, <1>4
  <2> QED
    BY <1>3, <1>4, <2>1, <2>2
<1> QED
  BY <1>3, <1>4

\* Stage i begins at a; it goes from a to b - 1.
Comienzo(l, i, a) ==
    /\ a \in 1 .. Len(l) + 1 /\ Hasta(Barras(l), a - 1) = i - 1
    /\ a = 1 \/ a - 1 \in Barras(l)
Tramo(l, i, a, b) ==
    /\ a \in 1 .. Len(l) /\ b \in a + 1 .. Len(l) + 1
    /\ \A j : j \in DeEtapa(l, i) <=> j \in a .. b - 1

LEMMA TramoDe ==
    ASSUME NEW S, NEW l \in Seq(S), NEW i \in 1 .. Etapas(l), NEW a, Comienzo(l, i, a),
           NEW b \in a .. Len(l) + 1, b = Len(l) + 1 \/ b \in Barras(l),
           \A j \in a .. b - 1 : l[j].t # "|"
    PROVE  /\ \A j : j \in DeEtapa(l, i) <=> j \in a .. b - 1
           /\ DeEtapa(l, i) # {} => Tramo(l, i, a, b)
           /\ b \in Barras(l) => i + 1 \in 1 .. Etapas(l) /\ Comienzo(l, i + 1, b + 1)
           /\ b = Len(l) + 1 => i = Etapas(l)
<1> DEFINE B == Barras(l)
<1>1. PICK n : n = Len(l)
  OBVIOUS
<1>2. /\ n \in Nat /\ \A j : j \in B <=> j \in 1 .. n /\ l[j].t = "|"
      /\ \A j \in B : j \in 1 .. n
      /\ Etapas(l) = 1 + Hasta(B, n) /\ Etapas(l) \in Nat
  BY <1>1, BarrasDatos
<1>3. \A j : j \in DeEtapa(l, i) <=> j \in 1 .. n /\ j \notin B /\ Hasta(B, j) = i - 1
  BY <1>1, DeEtapaEs
<1>4. /\ a \in 1 .. n + 1 /\ b \in a .. n + 1 /\ a - 1 \in 0 .. n
      /\ Hasta(B, a - 1) = i - 1 /\ i \in Nat
      /\ a = 1 \/ a - 1 \in B
      /\ b = n + 1 \/ b \in B
  BY <1>1, <1>2 DEF Comienzo
<1> HIDE DEF B
<1>5. ASSUME NEW j \in a - 1 .. b - 1 PROVE j \in 0 .. n /\ Hasta(B, j) = i - 1
  <2>1. j \in 0 .. n
    BY <1>2, <1>4
  <2>2. ASSUME NEW x \in B PROVE x <= j <=> x <= a - 1
    <3>1. x \in 1 .. n /\ l[x].t = "|" /\ x \notin a .. b - 1
      BY <1>2
    <3> QED
      BY <1>2, <1>4, <3>1
  <2>3. {x \in B : x <= j} = {x \in B : x <= a - 1}
    BY <2>2
  <2> QED
    BY <1>4, <2>1, <2>3 DEF Hasta
<1>6. ASSUME NEW j \in a .. b - 1 PROVE j \in DeEtapa(l, i)
  <2>1. j \in a - 1 .. b - 1 /\ j \in 1 .. n /\ j \notin B
    BY <1>2, <1>4
  <2> QED
    BY <1>3, <1>5, <2>1
<1>7. ASSUME NEW j \in DeEtapa(l, i) PROVE j \in a .. b - 1
  <2>1. j \in 1 .. n /\ j \in 0 .. n /\ j \notin B /\ Hasta(B, j) = i - 1
    BY <1>2, <1>3
  <2>2. ASSUME j < a PROVE FALSE
    <3>1. a - 1 \in B /\ j \in 0 .. a - 1 /\ j < a - 1
      BY <1>2, <1>4, <2>1, <2>2
    <3>2. Hasta(B, j) < Hasta(B, a - 1)
      BY <1>2, <1>4, <3>1, HastaDatos
    <3> QED
      BY <1>4, <2>1, <3>2
  <2>3. ASSUME j >= b PROVE FALSE
    <3>1. b \in B /\ b \in 0 .. n /\ b \in 0 .. j /\ a - 1 \in 0 .. b /\ a - 1 < b
      BY <1>2, <1>4, <2>1, <2>3
    <3>2. Hasta(B, a - 1) < Hasta(B, b)
      BY <1>2, <3>1, HastaDatos
    <3>3. Hasta(B, b) <= Hasta(B, j)
      BY <1>2, <2>1, <3>1, HastaDatos
    <3>4. Hasta(B, b) \in Nat
      BY <1>2, <3>1, HastaDatos
    <3> QED
      BY <1>4, <2>1, <3>2, <3>3, <3>4
  <2> QED
    BY <1>4, <2>1, <2>2, <2>3
<1>8. ASSUME DeEtapa(l, i) # {} PROVE Tramo(l, i, a, b)
  <2>1. PICK j \in DeEtapa(l, i) : TRUE
    BY <1>8
  <2>2. j \in a .. b - 1
    BY <1>7
  <2>3. a \in 1 .. n /\ b \in a + 1 .. n + 1
    BY <1>2, <1>4, <2>2
  <2> QED
    BY <1>1, <1>6, <1>7, <2>3 DEF Tramo
<1>9. b - 1 \in a - 1 .. b - 1
  BY <1>4
<1>10. ASSUME b \in B PROVE i + 1 \in 1 .. Etapas(l) /\ Comienzo(l, i + 1, b + 1)
  <2>1. b \in 1 .. n /\ b \in 0 .. n
    BY <1>2, <1>10
  <2>2. Hasta(B, b) = Hasta(B, b - 1) + (IF b \in B THEN 1 ELSE 0)
    BY <1>2, <2>1, HastaPaso
  <2>3. Hasta(B, b - 1) = i - 1
    BY <1>5, <1>9
  <2>4. Hasta(B, b) = i
    BY <1>4, <1>10, <2>2, <2>3
  <2>5. Hasta(B, b) \in 1 .. Hasta(B, n) /\ Hasta(B, n) \in Nat
    <3>1. Hasta(B, b) \in 1 .. Hasta(B, n)
      BY <1>2, <1>10, <2>1, HastaDatos
    <3>2. n \in 0 .. n
      BY <1>2
    <3>3. Hasta(B, n) \in Nat
      BY <1>2, <3>2, HastaDatos
    <3> QED
      BY <3>1, <3>3
  <2>6. i + 1 \in 1 .. Etapas(l)
    BY <1>2, <1>4, <2>4, <2>5
  <2>7. (b + 1) - 1 = b /\ (i + 1) - 1 = i /\ b + 1 \in 1 .. n + 1
    BY <1>2, <1>4, <2>1
  <2> QED
    BY <1>1, <1>10, <2>4, <2>6, <2>7 DEF Comienzo, B
<1>11. ASSUME b = n + 1 PROVE i = Etapas(l)
  <2>1. Hasta(B, n) = i - 1
    BY <1>2, <1>5, <1>9, <1>11
  <2> QED
    BY <1>2, <1>4, <2>1
<1> QED
  BY <1>1, <1>6, <1>7, <1>8, <1>10, <1>11 DEF B
\* The command of the tokens a .. b - 1, and the commands of the stages from i on.
Mando(l, st, e, a, b) == ParseCmd(SubSeq(l, a, b - 1), st, e)[1]
Mandos(l, st, e) == {Mando(l, st, e, a, b) : a \in 1 .. Len(l) + 1, b \in 1 .. Len(l) + 1}
Partido(c, l, st, e, i) ==
    /\ c \in Seq(Mandos(l, st, e)) /\ Len(c) = Etapas(l) - i + 1
    /\ \A k \in i .. Etapas(l) : \E a, b :
            Tramo(l, k, a, b) /\ c[k - i + 1] = Mando(l, st, e, a, b)

LEMMA PartidoSigue ==
    ASSUME NEW S, NEW l \in Seq(S), NEW st, NEW e, NEW i \in 1 .. Etapas(l), NEW a, NEW b,
           Tramo(l, i, a, b), NEW r,
           \/ i = Etapas(l) /\ r = <<>>
           \/ i < Etapas(l) /\ Partido(r, l, st, e, i + 1)
    PROVE  Partido(PipeCmdCreate(Mando(l, st, e, a, b), r), l, st, e, i)
<1> DEFINE T == Mandos(l, st, e)
<1>1. PICK n : n = Etapas(l)
  OBVIOUS
<1>2. n \in Nat /\ i \in 1 .. n /\ Len(l) \in Nat
  BY <1>1, BarrasDatos
<1>3. PICK x : x = Mando(l, st, e, a, b)
  OBVIOUS
<1>4. x \in T
  <2>1. a \in 1 .. Len(l) + 1 /\ b \in 1 .. Len(l) + 1
    BY <1>2 DEF Tramo
  <2> QED
    BY <1>3, <2>1 DEF Mandos
<1> HIDE DEF T
<1>5. /\ r \in Seq(T) /\ Len(r) = n - i
      /\ \A k \in i + 1 .. n : \E p, q :
            Tramo(l, k, p, q) /\ r[k - (i + 1) + 1] = Mando(l, st, e, p, q)
  <2>1. CASE i = n /\ r = <<>>
    <3>1. <<>> \in Seq(T) /\ Len(<<>>) = 0
      OBVIOUS
    <3>2. i + 1 .. n = {}
      BY <1>2, <2>1
    <3> QED
      BY <1>2, <2>1, <3>1, <3>2
  <2>2. CASE i < n /\ Partido(r, l, st, e, i + 1)
    <3>1. Len(r) = n - (i + 1) + 1
      BY <1>1, <2>2 DEF Partido
    <3> QED
      BY <1>1, <1>2, <2>2, <3>1 DEF Partido, T
  <2> QED
    BY <1>1, <2>1, <2>2
<1>6. PICK u : u = <<x>> /\ u \in Seq(T) /\ Len(u) = 1 /\ u[1] = x
  <2>1. <<x>> \in Seq(T) /\ Len(<<x>>) = 1 /\ <<x>>[1] = x
    BY <1>4
  <2> QED
    BY <2>1
<1>7. PICK c : c = PipeCmdCreate(x, r)
  OBVIOUS
<1>8. c = u \o r
  BY <1>6, <1>7 DEF PipeCmdCreate
<1>9. /\ c \in Seq(T) /\ Len(c) = n - i + 1
      /\ \A k \in 1 .. 1 + (n - i) : c[k] = IF k <= 1 THEN u[k] ELSE r[k - 1]
  <2>1. /\ c \in Seq(T) /\ Len(c) = Len(u) + Len(r)
        /\ \A k \in 1 .. Len(u) + Len(r) : c[k] = IF k <= Len(u) THEN u[k] ELSE r[k - Len(u)]
    BY <1>5, <1>6, <1>8, ConcatProperties
  <2> QED
    BY <1>2, <1>5, <1>6, <2>1
<1>10. ASSUME NEW k \in i .. n
       PROVE  \E p, q : Tramo(l, k, p, q) /\ c[k - i + 1] = Mando(l, st, e, p, q)
  <2>1. CASE k = i
    <3>1. k - i + 1 = 1 /\ 1 \in 1 .. 1 + (n - i)
      BY <1>2, <2>1
    <3>2. c[1] = x
      BY <1>6, <1>9, <3>1
    <3> QED
      BY <1>3, <2>1, <3>1, <3>2
  <2>2. CASE k # i
    <3>1. /\ k \in i + 1 .. n /\ k - i + 1 \in 1 .. 1 + (n - i) /\ ~(k - i + 1 <= 1)
          /\ (k - i + 1) - 1 = k - (i + 1) + 1
      BY <1>2, <2>2
    <3>2. c[k - i + 1] = r[(k - i + 1) - 1]
      BY <1>9, <3>1
    <3> QED
      BY <1>5, <3>1, <3>2
  <2> QED
    BY <2>1, <2>2
<1> QED
  BY <1>1, <1>3, <1>7, <1>9, <1>10 DEF Partido, T

LEMMA ParseCmdUno ==
    ASSUME NEW u, u # <<>>, NEW st, NEW e
    PROVE  ParseCmd(u, st, e) = <<ParseCmd(u, st, e)[1]>>
<1>1. \/ \E x : ParseCmd(u, st, e) = <<x>>
  BY Zenon DEF ParseCmd
<1> QED
  BY <1>1

LEMMA ParseLineDatos ==
    ASSUME NEW S, NEW l \in Seq(S), NEW st, NEW e,
           \A i \in 1 .. Etapas(l) : DeEtapa(l, i) # {}
    PROVE  Partido(ParseLine(l, st, e), l, st, e, 1)
<1>1. PICK n : n = Len(l)
  OBVIOUS
<1>2. n \in Nat /\ Etapas(l) \in Nat /\ \A j : j \in Barras(l) <=> j \in 1 .. n /\ l[j].t = "|"
  BY <1>1, BarrasDatos
<1>3. PICK h : Lineada(l, st, e, 1, h) /\ ParseLine(l, st, e) = h[1]
  BY ParseLineEs
<1>4. \A i \in 1 .. n + 1 : h[i] = Linea(l, st, e, h, i)
  BY <1>1, <1>3 DEF Lineada
<1> DEFINE Mal(a) == \E i \in 1 .. Etapas(l) : Comienzo(l, i, a) /\ ~Partido(h[a], l, st, e, i)
           D == {k \in 0 .. n : Mal(n + 1 - k)}
<1>5. ASSUME NEW a \in 1 .. n + 1, Mal(a), \A x \in a + 1 .. n + 1 : ~Mal(x)
      PROVE  FALSE
  <2>1. PICK i \in 1 .. Etapas(l) : Comienzo(l, i, a) /\ ~Partido(h[a], l, st, e, i)
    BY <1>5
  <2>2. a \in 1 .. Len(l) + 1 /\ DeEtapa(l, i) # {} /\ h[a] = Linea(l, st, e, h, a)
    BY <1>1, <1>4
  <2>3. CASE Barra1(l, a) = 0
    <3>1. \A j \in a .. n : l[j].t # "|"
      <4>1. n \in a - 1 .. Len(l) /\ 1 \in 1 .. n - a + 2 /\ 0 \in 1 - 1 .. n - a + 1
        BY <1>1, <1>2
      <4>2. /\ Resto(l, a) \in Seq(S) /\ Len(Resto(l, a)) = n - a + 1
            /\ \A k \in 1 .. n - a + 1 : Resto(l, a)[k] = l[a + k - 1]
        BY <1>1, <2>2, <4>1, SubSub DEF Resto
      <4>3. \A k \in 1 .. Len(Resto(l, a)) : Resto(l, a)[k].t # "|"
        <5>1. De(Resto(l, a), {"|"}) = {}
          BY <2>3, <4>2, PrimeraDatos DEF Barra1
        <5> QED
          BY <4>2, <5>1 DEF De
      <4> SUFFICES ASSUME NEW j \in a .. n PROVE l[j].t # "|"
        OBVIOUS
      <4>4. j - a + 1 \in 1 .. n - a + 1 /\ a + (j - a + 1) - 1 = j
        BY <1>2
      <4> QED
        BY <4>2, <4>3, <4>4
    <3>2. n + 1 \in a .. Len(l) + 1 /\ (n + 1) - 1 = n
      BY <1>1, <1>2
    <3>3. Tramo(l, i, a, n + 1) /\ i = Etapas(l)
      BY <1>1, <2>1, <2>2, <3>1, <3>2, TramoDe
    <3>4. h[a] = PipeCmdCreate(ParseCmd(Resto(l, a), st, e)[1], <<>>)
      BY <2>2, <2>3, LineaEs
    <3>5. h[a] = PipeCmdCreate(Mando(l, st, e, a, n + 1), <<>>)
      BY <1>1, <3>2, <3>4 DEF Mando, Resto
    <3>6. Partido(PipeCmdCreate(Mando(l, st, e, a, n + 1), <<>>), l, st, e, i)
      BY <3>3, PartidoSigue
    <3> QED
      BY <2>1, <3>5, <3>6
  <2>4. CASE Barra1(l, a) # 0
    <3>1. PICK b : b = a + Barra1(l, a) - 1
      OBVIOUS
    <3>2. PICK r : r = IF Primera(Resto(l, b + 1), {"|"}) > 1 THEN h[b + 1]
                       ELSE ParseCmd(Resto(l, b + 1), st, e)
      OBVIOUS
    <3>3. /\ b \in a .. n /\ l[b].t = "|" /\ \A j \in a .. b - 1 : l[j].t # "|"
          /\ h[a] = PipeCmdCreate(Mando(l, st, e, a, b), r)
      BY <1>1, <2>2, <2>4, <3>1, <3>2, LineaEs DEF Mando
    <3>4. b \in Barras(l) /\ b \in a .. Len(l) + 1 /\ b + 1 \in 1 .. n + 1 /\ b + 1 \in a + 1 .. n + 1
      BY <1>1, <1>2, <3>3
    <3>5. Tramo(l, i, a, b) /\ i + 1 \in 1 .. Etapas(l) /\ Comienzo(l, i + 1, b + 1)
      BY <2>1, <2>2, <3>3, <3>4, TramoDe
    <3>6. DeEtapa(l, i + 1) # {}
      BY <3>5
    <3>7. /\ Resto(l, b + 1) \in Seq(S) /\ Len(Resto(l, b + 1)) = n - b
          /\ \A k \in 1 .. n - b : Resto(l, b + 1)[k] = l[b + k]
      <4>1. /\ b + 1 \in 1 .. Len(l) + 1 /\ n \in (b + 1) - 1 .. Len(l)
            /\ 1 \in 1 .. n - (b + 1) + 2 /\ 0 \in 1 - 1 .. n - (b + 1) + 1
        BY <1>1, <1>2, <3>3
      <4>2. /\ SubSeq(l, b + 1, n) \in Seq(S) /\ Len(SubSeq(l, b + 1, n)) = n - (b + 1) + 1
            /\ \A k \in 1 .. n - (b + 1) + 1 : SubSeq(l, b + 1, n)[k] = l[(b + 1) + k - 1]
        BY <4>1, SubSub
      <4>3. PICK t : t = SubSeq(l, b + 1, n)
        OBVIOUS
      <4>4. Resto(l, b + 1) = t
        BY <1>1, <4>3 DEF Resto
      <4>5. /\ n - (b + 1) + 1 = n - b
            /\ \A k \in 1 .. n - b : k \in 1 .. n - (b + 1) + 1 /\ (b + 1) + k - 1 = b + k
        BY <1>2, <3>3
      <4>6. \A k \in 1 .. n - b : t[k] = l[b + k]
        BY <4>2, <4>3, <4>5
      <4> QED
        BY <4>2, <4>3, <4>4, <4>5, <4>6
    <3>8. Partido(r, l, st, e, i + 1)
      <4>1. CASE Primera(Resto(l, b + 1), {"|"}) > 1
        <5>1. r = h[b + 1]
          BY <3>2, <4>1
        <5> QED
          BY <1>5, <3>4, <3>5, <5>1
      <4>2. CASE ~(Primera(Resto(l, b + 1), {"|"}) > 1)
        <5>1. \A j \in b + 1 .. n : l[j].t # "|"
          <6>1. SUFFICES ASSUME De(Resto(l, b + 1), {"|"}) # {} PROVE FALSE
            <7> SUFFICES ASSUME NEW j \in b + 1 .. n, l[j].t = "|" PROVE FALSE
              OBVIOUS
            <7>1. j - b \in 1 .. n - b /\ b + (j - b) = j
              BY <1>2, <3>4
            <7>2. j - b \in De(Resto(l, b + 1), {"|"})
              BY <3>7, <7>1 DEF De
            <7> QED
              BY <6>1, <7>2
          <6>2. /\ Primera(Resto(l, b + 1), {"|"}) \in 1 .. n - b
                /\ Resto(l, b + 1)[Primera(Resto(l, b + 1), {"|"})].t = "|"
            BY <3>7, <6>1, PrimeraDatos
          <6>3. Primera(Resto(l, b + 1), {"|"}) = 1
            BY <4>2, <6>2
          <6>4. l[b + 1].t = "|" /\ b + 1 \in 1 .. n
            BY <1>2, <3>4, <3>7, <6>2, <6>3
          <6>5. b + 1 \in Barras(l) /\ b + 1 \in b + 1 .. Len(l) + 1 /\ b + 1 .. (b + 1) - 1 = {}
            BY <1>1, <1>2, <6>4
          <6>6. \A j : j \in DeEtapa(l, i + 1) <=> j \in b + 1 .. (b + 1) - 1
            BY <3>5, <6>5, TramoDe
          <6> QED
            BY <3>6, <6>5, <6>6
        <5>2. n + 1 \in b + 1 .. Len(l) + 1 /\ (n + 1) - 1 = n
          BY <1>1, <1>2, <3>4
        <5>3. Tramo(l, i + 1, b + 1, n + 1) /\ i + 1 = Etapas(l)
          BY <1>1, <3>5, <3>6, <5>1, <5>2, TramoDe
        <5>4. Resto(l, b + 1) # <<>>
          <6>1. b + 1 \in 1 .. n
            BY <1>1, <5>3 DEF Tramo
          <6> QED
            BY <1>2, <3>4, <3>7, <6>1
        <5>5. r = <<Mando(l, st, e, b + 1, n + 1)>>
          <6>1. ParseCmd(Resto(l, b + 1), st, e) = <<ParseCmd(Resto(l, b + 1), st, e)[1]>>
            BY <5>4, ParseCmdUno
          <6> QED
            BY <1>1, <3>2, <4>2, <5>2, <6>1 DEF Mando, Resto
        <5>6. PipeCmdCreate(Mando(l, st, e, b + 1, n + 1), <<>>) = r
          <6>1. PICK x : x = Mando(l, st, e, b + 1, n + 1)
            OBVIOUS
          <6>2. <<x>> \in Seq({x})
            OBVIOUS
          <6>3. <<x>> \o <<>> = <<x>>
            BY <6>2, ConcatEmptySeq
          <6> QED
            BY <5>5, <6>1, <6>3 DEF PipeCmdCreate
        <5>7. PICK k : k = i + 1
          OBVIOUS
        <5>8. Partido(PipeCmdCreate(Mando(l, st, e, b + 1, n + 1), <<>>), l, st, e, k)
          BY <3>5, <5>3, <5>7, PartidoSigue
        <5> QED
          BY <5>6, <5>7, <5>8
      <4> QED
        BY <4>1, <4>2
    <3>9. i < Etapas(l)
      BY <1>2, <3>5
    <3>10. Partido(PipeCmdCreate(Mando(l, st, e, a, b), r), l, st, e, i)
      BY <3>5, <3>8, <3>9, PartidoSigue
    <3> QED
      BY <2>1, <3>3, <3>10
  <2> QED
    BY <2>3, <2>4
<1> HIDE DEF Mal
<1>6. D = {}
  <2>1. SUFFICES ASSUME D # {} PROVE FALSE
    OBVIOUS
  <2>2. PICK k \in D : \A y \in D : ~(y < k)
    <3>1. D \in SUBSET Nat
      OBVIOUS
    <3> QED
      BY <2>1, <3>1, Minimo
  <2>3. n + 1 - k \in 1 .. n + 1 /\ Mal(n + 1 - k) /\ k \in 0 .. n
    BY <1>2, <2>2
  <2>4. ASSUME NEW x \in (n + 1 - k) + 1 .. n + 1 PROVE ~Mal(x)
    <3>1. n + 1 - x \in 0 .. n /\ n + 1 - x < k /\ n + 1 - (n + 1 - x) = x
      BY <1>2, <2>3
    <3> QED
      BY <2>2, <3>1
  <2> QED
    BY <1>5, <2>3, <2>4
<1>7. ~Mal(1)
  <2>1. n \in 0 .. n /\ n + 1 - n = 1
    BY <1>2
  <2> QED
    BY <1>6, <2>1
<1>8. 1 \in 1 .. Etapas(l) /\ Comienzo(l, 1, 1)
  <2>1. 1 \in 1 .. Etapas(l)
    <3>1. /\ n \in 0 .. n /\ \A j \in Barras(l) : j \in 1 .. n
          /\ Etapas(l) = 1 + Hasta(Barras(l), n)
      BY <1>1, <1>2, BarrasDatos
    <3>2. Hasta(Barras(l), n) \in Nat
      BY <1>2, <3>1, HastaDatos
    <3> QED
      BY <3>1, <3>2
  <2>2. Hasta(Barras(l), 0) = 0
    BY <1>2, HastaCero
  <2> QED
    BY <1>1, <1>2, <2>1, <2>2 DEF Comienzo
<1> QED
  BY <1>3, <1>7, <1>8 DEF Mal

-----------------------------------------------------------------------------
\* The parser.  One stage.

\* w is what is parsed of stage i: its tokens, d positions further back.
Copia(S, w, l, i, d) ==
    /\ w \in Seq(S) /\ d \in Nat
    /\ \A k \in 1 .. Len(w) : k + d \in DeEtapa(l, i) /\ w[k] = l[k + d]
    /\ \A j \in DeEtapa(l, i) : l[j].t # "&" => j - d \in 1 .. Len(w)

\* The fields of c are those that exec_cmd_create and parse_exec make of w.
Campo(c, w, st, e) ==
    /\ c.argv = Argv(w, st, e) /\ c.eargv = EnOrden(w, De(w, {"="}))
    /\ c.redir = (De(w, {"<", ">", "2>", "2>&1"}) # {})
    /\ c.in_file = Ultimo(w, {"<"}) /\ c.out_file = Ultimo(w, {">"})
    /\ c.err_file = ErrFile(w)

LEMMA ParseCmdDatos ==
    ASSUME NEW S, NEW u \in Seq(S), u # <<>>, \A j \in De(u, {"&"}) : j = Len(u), NEW st, NEW e
    PROVE  \E p \in 0 .. Len(u) :
                /\ Campo(ParseCmd(u, st, e)[1], SubSeq(u, 1, p), st, e)
                /\ \A j \in p + 1 .. Len(u) : u[j].t = "&"
<1>1. PICK n : n = Len(u)
  OBVIOUS
<1>2. n \in Nat
  BY <1>1
<1>3. PICK k : k = SelectInSeq(u, LAMBDA x : x.t \in {"&", "2>&1"})
  OBVIOUS
<1>4. k = Primera(u, {"&", "2>&1"})
  BY <1>3, PrimeraEs
<1>5. \A w : Campo(ParseExec(w, st, e), w, st, e) /\ Campo(BackCmdCreate(ParseExec(w, st, e)), w, st, e)
  <2> SUFFICES ASSUME NEW w
               PROVE  /\ Campo(ParseExec(w, st, e), w, st, e)
                      /\ Campo(BackCmdCreate(ParseExec(w, st, e)), w, st, e)
    OBVIOUS
  <2>1. Campo(ParseExec(w, st, e), w, st, e)
    BY DEF ParseExec, Campo
  <2>2. Campo(BackCmdCreate(ParseExec(w, st, e)), w, st, e)
    BY DEF ParseExec, BackCmdCreate, Campo
  <2> QED
    BY <2>1, <2>2
<1>6. CASE k > 0 /\ u[k].t = "&"
  <2>1. k \in 1 .. n /\ k = n
    <3>1. De(u, {"&", "2>&1"}) # {}
      BY <1>4, <1>6, PrimeraDatos
    <3>2. k \in 1 .. n
      BY <1>1, <1>4, <3>1, PrimeraDatos
    <3>3. k \in De(u, {"&"})
      BY <1>1, <1>6, <3>2 DEF De
    <3> QED
      BY <1>1, <3>2, <3>3
  <2>2. ParseCmd(u, st, e) = <<BackCmdCreate(ParseExec(SubSeq(u, 1, k - 1), st, e))>>
    BY <1>3, <1>6, Zenon DEF ParseCmd
  <2>3. ParseCmd(u, st, e)[1] = BackCmdCreate(ParseExec(SubSeq(u, 1, k - 1), st, e))
    BY <2>2
  <2>4. Campo(ParseCmd(u, st, e)[1], SubSeq(u, 1, k - 1), st, e)
    BY <1>5, <2>3
  <2>5. k - 1 \in 0 .. n /\ \A j \in (k - 1) + 1 .. n : u[j].t = "&"
    BY <1>2, <1>6, <2>1
  <2> QED
    BY <1>1, <2>4, <2>5
<1>7. CASE ~(k > 0 /\ u[k].t = "&")
  <2>1. ParseCmd(u, st, e) = <<ParseExec(u, st, e)>>
    BY <1>3, <1>7, Zenon DEF ParseCmd
  <2>2. ParseCmd(u, st, e)[1] = ParseExec(u, st, e)
    BY <2>1
  <2>3. SubSeq(u, 1, n) = u
    BY <1>1, SubSeqFull
  <2>4. Campo(ParseCmd(u, st, e)[1], SubSeq(u, 1, n), st, e)
    BY <1>5, <2>2, <2>3
  <2>5. n \in 0 .. n /\ n + 1 .. n = {}
    BY <1>2
  <2> QED
    BY <1>1, <2>4, <2>5
<1> QED
  BY <1>6, <1>7

LEMMA MandoDatos ==
    ASSUME NEW S, NEW l \in Seq(S), \A j \in De(l, {"&"}) : j = Len(l) \/ l[j + 1].t = "|",
           NEW i, NEW a, NEW b, Tramo(l, i, a, b), NEW st, NEW e
    PROVE  \E w, d : Copia(S, w, l, i, d) /\ Campo(Mando(l, st, e, a, b), w, st, e)
<1>1. PICK n, z : n = Len(l) /\ z = b - 1
  OBVIOUS
<1>2. /\ n \in Nat /\ a \in 1 .. n /\ b \in a + 1 .. n + 1 /\ z \in a .. n
      /\ \A j : j \in DeEtapa(l, i) <=> j \in a .. z
  BY <1>1 DEF Tramo
<1>3. PICK u : u = SubSeq(l, a, z)
  OBVIOUS
<1>4. /\ u \in Seq(S) /\ Len(u) = z - a + 1
      /\ \A k \in 1 .. z - a + 1 : u[k] = l[a + k - 1]
      /\ \A p \in 0 .. z - a + 1 : SubSeq(u, 1, p) = SubSeq(l, a, a + p - 1)
  <2>1. a \in 1 .. Len(l) + 1 /\ z \in a - 1 .. Len(l)
    BY <1>1, <1>2
  <2>2. ASSUME NEW p \in 0 .. z - a + 1
        PROVE  /\ u \in Seq(S) /\ Len(u) = z - a + 1
               /\ \A k \in 1 .. z - a + 1 : u[k] = l[a + k - 1]
               /\ SubSeq(u, 1, p) = SubSeq(l, a, a + p - 1)
    <3>1. 1 \in 1 .. z - a + 2 /\ p \in 1 - 1 .. z - a + 1 /\ a + 1 - 1 = a
      BY <1>2
    <3>2. /\ SubSeq(l, a, z) \in Seq(S) /\ Len(SubSeq(l, a, z)) = z - a + 1
          /\ \A k \in 1 .. z - a + 1 : SubSeq(l, a, z)[k] = l[a + k - 1]
          /\ SubSeq(SubSeq(l, a, z), 1, p) = SubSeq(l, a + 1 - 1, a + p - 1)
      BY <2>1, <3>1, SubSub
    <3> QED
      BY <1>3, <3>1, <3>2
  <2>3. 0 \in 0 .. z - a + 1
    BY <1>2
  <2> QED
    BY <2>2, <2>3
<1>5. u # <<>>
  BY <1>2, <1>4
<1>6. ASSUME NEW j \in De(u, {"&"}) PROVE j = Len(u)
  <2>1. j \in 1 .. z - a + 1 /\ u[j].t = "&"
    BY <1>4 DEF De
  <2>2. PICK m : m = a + j - 1
    OBVIOUS
  <2>3. m \in a .. z /\ m \in 1 .. n /\ l[m].t = "&"
    BY <1>2, <1>4, <2>1, <2>2
  <2>4. m \in De(l, {"&"})
    BY <1>1, <2>3 DEF De
  <2>5. m = n \/ l[m + 1].t = "|"
    BY <1>1, <2>4
  <2>6. m + 1 \in a .. z => l[m + 1].t # "|"
    BY <1>2 DEF DeEtapa
  <2>7. m = z
    BY <1>2, <2>3, <2>5, <2>6
  <2> QED
    BY <1>2, <1>4, <2>1, <2>2, <2>7
<1>7. PICK p \in 0 .. Len(u) :
            /\ Campo(ParseCmd(u, st, e)[1], SubSeq(u, 1, p), st, e)
            /\ \A j \in p + 1 .. Len(u) : u[j].t = "&"
  BY <1>4, <1>5, <1>6, ParseCmdDatos
<1>8. PICK w, d : w = SubSeq(u, 1, p) /\ d = a - 1
  OBVIOUS
<1>9. Campo(Mando(l, st, e, a, b), w, st, e)
  BY <1>1, <1>3, <1>7, <1>8 DEF Mando
<1>10. /\ w \in Seq(S) /\ Len(w) = p /\ \A k \in 1 .. p : w[k] = u[k]
  <2>1. p \in Nat /\ p \in 0 .. Len(u) /\ Len(u) \in Nat
    BY <1>4
  <2>2. 1 \in 1 .. Len(u) + 1 /\ p \in 1 - 1 .. Len(u) /\ 1 \in 1 .. p - 1 + 2 /\ 0 \in 1 - 1 .. p - 1 + 1
    BY <2>1
  <2>3. /\ SubSeq(u, 1, p) \in Seq(S) /\ Len(SubSeq(u, 1, p)) = p - 1 + 1
        /\ \A k \in 1 .. p - 1 + 1 : SubSeq(u, 1, p)[k] = u[1 + k - 1]
    BY <1>4, <2>2, SubSub
  <2>4. p - 1 + 1 = p /\ \A k \in 1 .. p : 1 + k - 1 = k
    BY <2>1
  <2> QED
    BY <1>8, <2>3, <2>4
<1>11. ASSUME NEW k \in 1 .. Len(w) PROVE k + d \in DeEtapa(l, i) /\ w[k] = l[k + d]
  <2>1. /\ k \in 1 .. p /\ k \in 1 .. z - a + 1 /\ k + d = a + k - 1 /\ k + d \in a .. z
    <3>1. p \in 0 .. z - a + 1 /\ k \in 1 .. p
      BY <1>4, <1>10
    <3>2. d = a - 1 /\ a \in Nat /\ z \in Nat
      BY <1>2, <1>8
    <3>3. k \in 1 .. z - a + 1
      BY <3>1, <3>2
    <3>4. k \in Int /\ k + d = a + k - 1
      BY <3>1, <3>2
    <3>5. k + d \in a .. z
      BY <3>2, <3>3
    <3> QED
      BY <3>1, <3>3, <3>4, <3>5
  <2> QED
    BY <1>2, <1>4, <1>10, <2>1
<1>12. ASSUME NEW j \in DeEtapa(l, i), l[j].t # "&" PROVE j - d \in 1 .. Len(w)
  <2>1. j \in a .. z
    BY <1>2
  <2>2. j - d \in 1 .. z - a + 1 /\ a + (j - d) - 1 = j
    BY <1>2, <1>8, <2>1
  <2>3. u[j - d] = l[j]
    BY <1>4, <2>2
  <2>4. ~(j - d \in p + 1 .. Len(u))
    BY <1>7, <1>12, <2>3
  <2> QED
    BY <1>4, <1>10, <2>2, <2>4
<1>13. Copia(S, w, l, i, d)
  <2>1. d \in Nat
    BY <1>2, <1>8
  <2> QED
    BY <1>10, <1>11, <1>12, <2>1 DEF Copia
<1> QED
  BY <1>9, <1>13

\* The tokens of these kinds, in the copy and in the stage.
LEMMA CopiaDe ==
    ASSUME NEW S, NEW w, NEW l \in Seq(S), NEW i, NEW d, Copia(S, w, l, i, d)
    PROVE  /\ d \in Nat /\ Len(w) \in Nat /\ Len(l) \in Nat
           /\ \A j \in DeEtapa(l, i) : j \in 1 .. Len(l)
           /\ \A k \in 1 .. Len(w) : k + d \in 1 .. Len(l)
           /\ \A j \in DeEtapa(l, i) : l[j].t # "&" =>
                j - d \in 1 .. Len(w) /\ w[j - d] = l[j] /\ (j - d) + d = j
<1>1. /\ w \in Seq(S) /\ d \in Nat
      /\ \A k \in 1 .. Len(w) : k + d \in DeEtapa(l, i) /\ w[k] = l[k + d]
      /\ \A j \in DeEtapa(l, i) : l[j].t # "&" => j - d \in 1 .. Len(w)
  BY DEF Copia
<1>2. Len(w) \in Nat /\ Len(l) \in Nat
  BY <1>1
<1>3. \A j \in DeEtapa(l, i) : j \in 1 .. Len(l)
  BY DEF DeEtapa
<1>4. ASSUME NEW j \in DeEtapa(l, i), l[j].t # "&"
      PROVE  j - d \in 1 .. Len(w) /\ w[j - d] = l[j] /\ (j - d) + d = j
  <2>1. j - d \in 1 .. Len(w) /\ (j - d) + d = j
    BY <1>1, <1>2, <1>3, <1>4
  <2>2. w[j - d] = l[(j - d) + d]
    BY <1>1, <2>1
  <2> QED
    BY <2>1, <2>2
<1> QED
  BY <1>1, <1>2, <1>3, <1>4

\* The file of the last redirection of this kind in the stage, if there is one.
Nombra(f, l, i, t) ==
    /\ f = "" \/ \E j \in DeEtapa(l, i) : l[j].t = t
    /\ \A j \in DeEtapa(l, i) : l[j].t = t =>
        \E k \in DeEtapa(l, i) : /\ l[k].t = t /\ f = l[k].v
                                 /\ \A m \in DeEtapa(l, i) : l[m].t = t => m <= k

LEMMA UltimoEtapa ==
    ASSUME NEW S, NEW w, NEW l \in Seq(S), NEW i, NEW d, Copia(S, w, l, i, d),
           NEW t, t # "&"
    PROVE  Nombra(Ultimo(w, {t}), l, i, t)
<1>1. /\ w \in Seq(S) /\ d \in Nat
      /\ \A k \in 1 .. Len(w) : k + d \in DeEtapa(l, i) /\ w[k] = l[k + d]
  BY DEF Copia
<1>2. /\ Len(w) \in Nat /\ Len(l) \in Nat
      /\ \A j \in DeEtapa(l, i) : j \in 1 .. Len(l)
      /\ \A j \in DeEtapa(l, i) : l[j].t # "&" =>
                j - d \in 1 .. Len(w) /\ w[j - d] = l[j] /\ (j - d) + d = j
  BY CopiaDe
<1>3. \A k : k \in De(w, {t}) <=> k \in 1 .. Len(w) /\ w[k].t = t
  BY <1>1 DEF De
<1>4. PICK f : f = Ultimo(w, {t})
  OBVIOUS
<1>5. CASE De(w, {t}) = {}
  <2>1. f = ""
    BY <1>1, <1>4, <1>5, UltimoDatos
  <2>2. \A j \in DeEtapa(l, i) : l[j].t # t
    BY <1>2, <1>3, <1>5
  <2> QED
    BY <1>4, <2>1, <2>2 DEF Nombra
<1>6. CASE De(w, {t}) # {}
  <2>1. PICK k \in De(w, {t}) : f = w[k].v /\ \A j \in De(w, {t}) : j <= k
    BY <1>1, <1>4, <1>6, UltimoDatos
  <2>2. PICK m : m = k + d
    OBVIOUS
  <2>3. k \in 1 .. Len(w) /\ m \in DeEtapa(l, i) /\ l[m].t = t /\ f = l[m].v
    BY <1>1, <1>3, <2>1, <2>2
  <2>4. ASSUME NEW j \in DeEtapa(l, i), l[j].t = t PROVE j <= m
    <3>1. j - d \in De(w, {t}) /\ j \in 1 .. Len(l)
      BY <1>2, <1>3, <2>4
    <3>2. j - d <= k
      BY <2>1, <3>1
    <3> QED
      BY <1>1, <1>2, <2>2, <2>3, <3>1, <3>2
  <2> QED
    BY <1>4, <2>3, <2>4 DEF Nombra
<1> QED
  BY <1>5, <1>6

ArgsEtapa(l, i, st, e) == {j \in DeEtapa(l, i) : Argumento(l[j], st, e)}
AsignaEtapa(l, i, n) == {j \in DeEtapa(l, i) : l[j].t = "=" /\ l[j].n = n}

\* Each argument has the text of its token.
EnSuSitio(argv, J, l, st, e) == \A j \in J : argv[Hasta(J, j)] = ExpandEnvironVar(l[j], st, e)

LEMMA ArgvEtapa ==
    ASSUME NEW S, NEW w, NEW l \in Seq(S), NEW i, NEW d, Copia(S, w, l, i, d), NEW st, NEW e
    PROVE  /\ \E T : Argv(w, st, e) \in Seq(T)
           /\ Len(Argv(w, st, e)) = Cardinality(ArgsEtapa(l, i, st, e))
           /\ EnSuSitio(Argv(w, st, e), ArgsEtapa(l, i, st, e), l, st, e)
<1> DEFINE K == {j \in DeEtapa(l, i) : Argumento(l[j], st, e)}
           J == Args(w, st, e)
<1>1. PICK n : n = Len(w)
  OBVIOUS
<1>2. /\ w \in Seq(S) /\ d \in Nat
      /\ \A k \in 1 .. n : k + d \in DeEtapa(l, i) /\ w[k] = l[k + d]
  BY <1>1 DEF Copia
<1>3. /\ n \in Nat /\ Len(l) \in Nat
      /\ \A j \in DeEtapa(l, i) : j \in 1 .. Len(l)
      /\ \A j \in DeEtapa(l, i) : l[j].t # "&" =>
                j - d \in 1 .. n /\ w[j - d] = l[j] /\ (j - d) + d = j
  BY <1>1, CopiaDe
<1>4. PICK argv : argv = Argv(w, st, e)
  OBVIOUS
<1>5. /\ \E T : argv \in Seq(T)
      /\ Len(argv) = Hasta(J, n)
      /\ \A j \in J : argv[Hasta(J, j)] = ExpandEnvironVar(w[j], st, e)
  BY <1>1, <1>2, <1>4, ArgvDatos
<1>6. \A tok : Argumento(tok, st, e) => tok.t # "&"
  BY DEF Argumento, Argumentos
<1>7. \A j : j \in K <=> \E k \in J : j = k + d
  <2>1. ASSUME NEW j \in K PROVE \E k \in J : j = k + d
    <3>1. j - d \in 1 .. n /\ w[j - d] = l[j] /\ (j - d) + d = j
      BY <1>3, <1>6
    <3>2. j - d \in J
      BY <1>1, <3>1 DEF Args
    <3> QED
      BY <3>1, <3>2
  <2>2. ASSUME NEW k \in J PROVE k + d \in K
    BY <1>1, <1>2 DEF Args
  <2> QED
    BY <2>1, <2>2
<1>8. \A j \in K : j \in 1 .. Len(l)
  BY <1>3
<1>9. \A k \in J : k \in 1 .. n /\ w[k] = l[k + d]
  BY <1>1, <1>2 DEF Args
<1> HIDE DEF K, J
<1>10. \A k \in J : k \in 1 .. n
  BY <1>9
<1>11. ASSUME NEW k \in 0 .. n
       PROVE  Hasta(K, k + d) = Hasta(J, k) /\ \A j \in K : j \in 1 .. n + d
  <2>1. d \in Nat /\ n \in Nat /\ k \in 0 .. n
    BY <1>2, <1>3
  <2>2. PICK a, b : a = J /\ b = K
    OBVIOUS
  <2>3. /\ \A j \in a : j \in 1 .. n
        /\ \A j : j \in b <=> \E x \in a : j = x + d
    BY <1>7, <1>10, <2>2
  <2>4. Hasta(b, k + d) = Hasta(a, k) /\ \A j \in b : j \in 1 .. n + d
    BY <2>1, <2>3, HastaCorre
  <2> QED
    BY <2>2, <2>4
<1>12. Cardinality(K) = Hasta(J, n)
  <2>1. n \in 0 .. n /\ n + d \in Nat /\ n + d \in 0 .. n + d
    BY <1>2, <1>3
  <2>2. Hasta(K, n + d) = Hasta(J, n) /\ \A j \in K : j \in 1 .. n + d
    BY <1>11, <2>1
  <2>3. Hasta(K, n + d) = Cardinality(K)
    BY <2>1, <2>2, HastaDatos
  <2> QED
    BY <2>2, <2>3
<1>13. ASSUME NEW j \in K PROVE argv[Hasta(K, j)] = ExpandEnvironVar(l[j], st, e)
  <2>1. PICK k \in J : j = k + d
    BY <1>7
  <2>2. k \in 0 .. n /\ w[k] = l[j]
    BY <1>3, <1>9, <2>1
  <2>3. Hasta(K, j) = Hasta(J, k)
    BY <1>11, <2>1, <2>2
  <2> QED
    BY <1>5, <2>2, <2>3
<1> QED
  <2>1. K = ArgsEtapa(l, i, st, e)
    BY DEF K, ArgsEtapa
  <2> QED
    BY <1>4, <1>5, <1>12, <1>13, <2>1 DEF EnSuSitio

LEMMA EnvironEtapa ==
    ASSUME NEW S, NEW w, NEW l \in Seq(S), NEW i, NEW d, Copia(S, w, l, i, d), NEW env
    PROVE  LET f == SetEnvironVars(env, EnOrden(w, De(w, {"="})))
           IN  \A n \in DOMAIN f : f[n] = IF AsignaEtapa(l, i, n) = {} THEN env[n]
                                          ELSE l[Max(AsignaEtapa(l, i, n))].v
<1> DEFINE J == De(w, {"="})
           de(n) == Asignan(w, n)
           asigna(n) == AsignaEtapa(l, i, n)
<1>1. PICK len : len = Len(w)
  OBVIOUS
<1>2. /\ w \in Seq(S) /\ d \in Nat
      /\ \A k \in 1 .. len : k + d \in DeEtapa(l, i) /\ w[k] = l[k + d]
  BY <1>1 DEF Copia
<1>3. /\ len \in Nat /\ Len(l) \in Nat
      /\ \A j \in DeEtapa(l, i) : j \in 1 .. Len(l)
      /\ \A j \in DeEtapa(l, i) : l[j].t # "&" =>
                j - d \in 1 .. len /\ w[j - d] = l[j] /\ (j - d) + d = j
  BY <1>1, CopiaDe
<1>4. PICK f : f = SetEnvironVars(env, EnOrden(w, J))
  OBVIOUS
<1>5. \A n \in DOMAIN f : f[n] = IF de(n) = {} THEN env[n] ELSE w[Max(de(n))].v
  BY <1>2, <1>4, SetEnvironVarsDatos
<1>6. \A n, k : k \in de(n) <=> k \in 1 .. len /\ w[k].t = "=" /\ w[k].n = n
  BY <1>1, <1>2 DEF De, Asignan
<1>7. \A n, j : j \in asigna(n) <=> j \in DeEtapa(l, i) /\ l[j].t = "=" /\ l[j].n = n
  BY DEF AsignaEtapa
<1> HIDE DEF J, de, asigna
<1>8. ASSUME NEW n
      PROVE  /\ \A k \in de(n) : k + d \in asigna(n)
             /\ \A j \in asigna(n) : j - d \in de(n) /\ (j - d) + d = j
  <2>1. ASSUME NEW k \in de(n) PROVE k + d \in asigna(n)
    <3>1. k \in 1 .. len /\ w[k].t = "=" /\ w[k].n = n
      BY <1>6
    <3>2. k + d \in DeEtapa(l, i) /\ w[k] = l[k + d]
      BY <1>2, <3>1
    <3> QED
      BY <1>7, <3>1, <3>2
  <2>2. ASSUME NEW j \in asigna(n) PROVE j - d \in de(n) /\ (j - d) + d = j
    <3>1. j \in DeEtapa(l, i) /\ l[j].t = "=" /\ l[j].n = n
      BY <1>7
    <3>2. j - d \in 1 .. len /\ w[j - d] = l[j] /\ (j - d) + d = j
      BY <1>3, <3>1
    <3> QED
      BY <1>6, <3>1, <3>2
  <2> QED
    BY <2>1, <2>2
<1>9. ASSUME NEW n, de(n) # {}
      PROVE  w[Max(de(n))] = l[Max(asigna(n))] /\ asigna(n) # {}
  <2>1. PICK m : m = Max(de(n))
    OBVIOUS
  <2>2. m \in de(n) /\ \A y \in de(n) : y <= m
    <3>1. \A k \in de(n) : k \in 1 .. len
      BY <1>6
    <3>2. Max(de(n)) \in de(n) /\ \A y \in de(n) : y <= Max(de(n))
      BY <1>3, <1>9, <3>1, UltimoDe
    <3> QED
      BY <2>1, <3>2
  <2>3. m + d \in asigna(n) /\ w[m] = l[m + d] /\ m \in 1 .. len
    BY <1>2, <1>6, <1>8, <2>2
  <2>4. PICK x : x = Max(asigna(n))
    OBVIOUS
  <2>5. x \in asigna(n) /\ x \in 1 .. Len(l) /\ \A y \in asigna(n) : y <= x
    <3>1. \A j \in asigna(n) : j \in 1 .. Len(l)
      BY <1>3, <1>7
    <3>2. asigna(n) # {}
      BY <2>3
    <3>3. Max(asigna(n)) \in asigna(n) /\ \A y \in asigna(n) : y <= Max(asigna(n))
      BY <1>3, <3>1, <3>2, UltimoDe
    <3> QED
      BY <2>4, <3>1, <3>3
  <2>6. x - d <= m /\ m + d <= x
    BY <1>8, <2>2, <2>3, <2>5
  <2>7. x = m + d
    BY <1>2, <1>3, <2>3, <2>5, <2>6
  <2> QED
    BY <2>1, <2>3, <2>4, <2>7
<1>10. ASSUME NEW n \in DOMAIN f
       PROVE  f[n] = IF asigna(n) = {} THEN env[n] ELSE l[Max(asigna(n))].v
  <2>1. f[n] = IF de(n) = {} THEN env[n] ELSE w[Max(de(n))].v
    BY <1>5
  <2>2. CASE de(n) = {}
    <3>1. asigna(n) = {}
      BY <1>8, <2>2
    <3> QED
      BY <2>1, <2>2, <3>1
  <2>3. CASE de(n) # {}
    BY <1>9, <2>1, <2>3
  <2> QED
    BY <2>2, <2>3
<1> QED
  BY <1>4, <1>10 DEF J, asigna

-----------------------------------------------------------------------------
\* The parser.  A whole line.

\* What the parser makes of stage i of a line.
ComoEscrita(c, l, i, st) ==
    /\ Nombra(c.in_file, l, i, "<") /\ Nombra(c.out_file, l, i, ">")
    /\ c.redir <=> \E j \in DeEtapa(l, i) : l[j].t \in {"<", ">", "2>", "2>&1"}
    /\ (\A j \in DeEtapa(l, i) : l[j].t \notin {"2>", "2>&1"}) => c.err_file = ""
    /\ \E T : c.argv \in Seq(T)
    /\ Len(c.argv) = Cardinality(ArgsEtapa(l, i, st, Entorno))
    /\ EnSuSitio(c.argv, ArgsEtapa(l, i, st, Entorno), l, st, Entorno)
    /\ LET f == SetEnvironVars(Entorno, c.eargv)
       IN  \A n \in DOMAIN f : f[n] = IF AsignaEtapa(l, i, n) = {} THEN Entorno[n]
                                      ELSE l[Max(AsignaEtapa(l, i, n))].v

LEMMA CampoDatos ==
    ASSUME NEW S, NEW l \in Seq(S), NEW i, NEW w, NEW d, Copia(S, w, l, i, d),
           NEW st, NEW c, Campo(c, w, st, Entorno)
    PROVE  ComoEscrita(c, l, i, st)
<1>1. /\ c.argv = Argv(w, st, Entorno) /\ c.eargv = EnOrden(w, De(w, {"="}))
      /\ c.redir = (De(w, {"<", ">", "2>", "2>&1"}) # {})
      /\ c.in_file = Ultimo(w, {"<"}) /\ c.out_file = Ultimo(w, {">"})
      /\ c.err_file = ErrFile(w)
  BY DEF Campo
<1>2. /\ w \in Seq(S) /\ d \in Nat
      /\ \A k \in 1 .. Len(w) : k + d \in DeEtapa(l, i) /\ w[k] = l[k + d]
  BY DEF Copia
<1>3. \A j \in DeEtapa(l, i) : l[j].t # "&" => j - d \in 1 .. Len(w) /\ w[j - d] = l[j]
  BY CopiaDe
<1>4. Nombra(c.in_file, l, i, "<")
  BY <1>1, UltimoEtapa
<1>5. Nombra(c.out_file, l, i, ">")
  BY <1>1, UltimoEtapa
<1>6. ASSUME NEW tipos, "&" \notin tipos
      PROVE  De(w, tipos) # {} <=> \E j \in DeEtapa(l, i) : l[j].t \in tipos
  <2>1. \A k : k \in De(w, tipos) <=> k \in 1 .. Len(w) /\ w[k].t \in tipos
    BY <1>2 DEF De
  <2>2. ASSUME NEW k \in De(w, tipos) PROVE \E j \in DeEtapa(l, i) : l[j].t \in tipos
    BY <1>2, <2>1
  <2>3. ASSUME NEW j \in DeEtapa(l, i), l[j].t \in tipos PROVE De(w, tipos) # {}
    BY <1>3, <1>6, <2>1, <2>3
  <2> QED
    BY <2>2, <2>3
<1>7. c.redir <=> \E j \in DeEtapa(l, i) : l[j].t \in {"<", ">", "2>", "2>&1"}
  BY <1>1, <1>6
<1>8. (\A j \in DeEtapa(l, i) : l[j].t \notin {"2>", "2>&1"}) => c.err_file = ""
  <2>1. SUFFICES ASSUME \A j \in DeEtapa(l, i) : l[j].t \notin {"2>", "2>&1"}
                 PROVE  c.err_file = ""
    OBVIOUS
  <2>2. De(w, {"2>", "2>&1"}) = {}
    BY <1>6, <2>1
  <2> QED
    BY <1>1, <1>2, <2>2, ErrFileDatos
<1>9. /\ \E T : c.argv \in Seq(T)
      /\ Len(c.argv) = Cardinality(ArgsEtapa(l, i, st, Entorno))
      /\ EnSuSitio(c.argv, ArgsEtapa(l, i, st, Entorno), l, st, Entorno)
  <2>1. \E T : Argv(w, st, Entorno) \in Seq(T)
    BY ArgvEtapa
  <2>2. Len(Argv(w, st, Entorno)) = Cardinality(ArgsEtapa(l, i, st, Entorno))
    BY ArgvEtapa
  <2>3. EnSuSitio(Argv(w, st, Entorno), ArgsEtapa(l, i, st, Entorno), l, st, Entorno)
    BY ArgvEtapa
  <2>4. c.argv = Argv(w, st, Entorno)
    BY <1>1
  <2> QED
    BY <2>1, <2>2, <2>3, <2>4, Zenon
<1>10. LET f == SetEnvironVars(Entorno, c.eargv)
       IN  \A n \in DOMAIN f : f[n] = IF AsignaEtapa(l, i, n) = {} THEN Entorno[n]
                                      ELSE l[Max(AsignaEtapa(l, i, n))].v
  BY <1>1, EnvironEtapa
<1> QED
  BY <1>4, <1>5, <1>7, <1>8, <1>9, <1>10, Zenon DEF ComoEscrita

LEMMA ParseLineComoEscrita ==
    ASSUME NEW l, LineaClara(l), NEW st
    PROVE  LET c == ParseLine(l, st, Entorno)
           IN  /\ \E T : c \in Seq(T)
               /\ Len(c) = Etapas(l) /\ Etapas(l) \in Nat
               /\ \A i \in 1 .. Etapas(l) : ComoEscrita(c[i], l, i, st)
<1> DEFINE S == Range(l)
           c == ParseLine(l, st, Entorno)
<1>1. /\ l \in Seq(S)
      /\ \A i \in 1 .. Etapas(l) : \E j \in DeEtapa(l, i) : TRUE
      /\ \A j \in De(l, {"&"}) : j = Len(l) \/ l[j + 1].t = "|"
  BY Zenon DEF LineaClara, Etapas, Barras
<1> HIDE DEF S
<1>2. \A i \in 1 .. Etapas(l) : DeEtapa(l, i) # {}
  BY <1>1
<1>3. Partido(c, l, st, Entorno, 1)
  BY <1>1, <1>2, ParseLineDatos
<1>4. Etapas(l) \in Nat
  BY <1>1, BarrasDatos
<1> HIDE DEF c
<1>5. /\ c \in Seq(Mandos(l, st, Entorno)) /\ Len(c) = Etapas(l) - 1 + 1
      /\ \A k \in 1 .. Etapas(l) : \E a, b :
            Tramo(l, k, a, b) /\ c[k - 1 + 1] = Mando(l, st, Entorno, a, b)
  BY <1>3 DEF Partido
<1>6. ASSUME NEW i \in 1 .. Etapas(l) PROVE ComoEscrita(c[i], l, i, st)
  <2>1. i - 1 + 1 = i
    BY <1>4
  <2>2. PICK a, b : Tramo(l, i, a, b) /\ c[i] = Mando(l, st, Entorno, a, b)
    BY <1>5, <2>1
  <2>3. PICK w, d : Copia(S, w, l, i, d) /\ Campo(Mando(l, st, Entorno, a, b), w, st, Entorno)
    BY <1>1, <2>2, MandoDatos
  <2>4. PICK x : x = c[i]
    OBVIOUS
  <2>5. Campo(x, w, st, Entorno)
    BY <2>2, <2>3, <2>4
  <2>6. ComoEscrita(x, l, i, st)
    BY <1>1, <2>3, <2>5, CampoDatos
  <2> QED
    BY <2>4, <2>6
<1>7. Len(c) = Etapas(l)
  BY <1>4, <1>5
<1> QED
  BY <1>4, <1>5, <1>6, <1>7 DEF c

\* The stage of a command is told by its program.
LEMMA EtapaEs ==
    ASSUME NEW l, LineaClara(l), NEW st, NEW i \in 1 .. Etapas(l), NEW c, ComoEscrita(c, l, i, st)
    PROVE  (CHOOSE x \in DOMAIN l :
                \E j \in DeEtapa(l, x) : l[j] = Palabra(c.argv[1])) = i
<1> DEFINE S == Range(l)
           B == Barras(l)
           J == ArgsEtapa(l, i, st, Entorno)
<1>1. /\ l \in Seq(S)
      /\ \E j \in DeEtapa(l, i) :
            /\ l[j] = Palabra(l[j].v) /\ l[j].v # ""
            /\ \A k \in DeEtapa(l, i) : k < j =>
                \/ l[k].t \notin Argumentos
                \/ l[k].t = "$" /\ ExpandEnvironVar(l[k], 0, Entorno) = ""
            /\ \A k \in DOMAIN l \ DeEtapa(l, i) : l[k] # l[j]
  BY Zenon DEF LineaClara, Etapas, Barras
<1> HIDE DEF S
<1>2. PICK j \in DeEtapa(l, i) :
            /\ l[j] = Palabra(l[j].v) /\ l[j].v # ""
            /\ \A k \in DeEtapa(l, i) : k < j =>
                \/ l[k].t \notin Argumentos
                \/ l[k].t = "$" /\ ExpandEnvironVar(l[k], 0, Entorno) = ""
            /\ \A k \in DOMAIN l \ DeEtapa(l, i) : l[k] # l[j]
  BY <1>1
<1>3. l[j].t = "palabra"
  <2>1. PICK v : l[j] = Palabra(v)
    BY <1>2
  <2> QED
    BY <2>1 DEF Palabra
<1>4. PICK n : n = Len(l)
  OBVIOUS
<1>5. /\ n \in Nat /\ DOMAIN l = 1 .. n /\ Etapas(l) \in Nat /\ i \in Nat
      /\ \A k \in B : k \in 1 .. n
      /\ \A x, k : k \in DeEtapa(l, x) <=> k \in 1 .. n /\ k \notin B /\ Hasta(B, k) = x - 1
  <2>1. n \in Nat /\ DOMAIN l = 1 .. n
    BY <1>1, <1>4, LenProperties
  <2>2. Etapas(l) \in Nat /\ \A k \in B : k \in 1 .. n
    BY <1>1, <1>4, BarrasDatos
  <2>3. \A x, k : k \in DeEtapa(l, x) <=> k \in 1 .. n /\ k \notin B /\ Hasta(B, k) = x - 1
    BY <1>1, <1>4, DeEtapaEs
  <2> QED
    BY <2>1, <2>2, <2>3
<1>6. \A tok : tok.t = "palabra" => ExpandEnvironVar(tok, st, Entorno) = tok.v
  BY DEF ExpandEnvironVar
<1>7. \A tok : tok.t = "$" => ExpandEnvironVar(tok, st, Entorno) = ExpandEnvironVar(tok, 0, Entorno)
  BY DEF ExpandEnvironVar
<1>8. j \in J
  BY <1>2, <1>3, <1>6 DEF ArgsEtapa, Argumento, Argumentos
<1>9. ASSUME NEW k \in J PROVE k <= j <=> k = j
  <2>1. k \in DeEtapa(l, i) /\ Argumento(l[k], st, Entorno)
    BY DEF ArgsEtapa
  <2>2. ~(k < j)
    BY <1>2, <1>7, <2>1 DEF Argumento
  <2>3. k \in 1 .. n /\ j \in 1 .. n
    BY <1>5, <2>1
  <2> QED
    BY <2>2, <2>3
<1> HIDE DEF J, B
<1>10. Hasta(J, j) = 1
  <2>1. {k \in J : k <= j} = {j}
    BY <1>8, <1>9
  <2> QED
    BY <2>1, FS_Singleton DEF Hasta
<1>11. c.argv[1] = l[j].v
  <2>1. c.argv[Hasta(J, j)] = ExpandEnvironVar(l[j], st, Entorno)
    <3>1. EnSuSitio(c.argv, J, l, st, Entorno)
      BY Zenon DEF ComoEscrita, J
    <3> QED
      BY <1>8, <3>1 DEF EnSuSitio
  <2> QED
    BY <1>3, <1>6, <1>10, <2>1
<1>12. Palabra(c.argv[1]) = l[j]
  BY <1>2, <1>11
<1>13. i \in DOMAIN l
  <2>1. j \in 1 .. n /\ j \notin B /\ Hasta(B, j) = i - 1
    BY <1>5
  <2>2. PICK b : b = {x \in B : x <= j}
    OBVIOUS
  <2>3. \A x \in b : x \in 1 .. j - 1
    BY <1>5, <2>1, <2>2
  <2>4. IsFiniteSet(1 .. j - 1) /\ Cardinality(1 .. j - 1) = j - 1
    <3>1. 1 <= j - 1 \/ j - 1 < 1
      BY <1>5, <2>1
    <3>2. Cardinality(1 .. j - 1) = IF 1 > j - 1 THEN 0 ELSE j - 1 - 1 + 1
      BY <1>5, <2>1, FS_Interval
    <3> QED
      BY <1>5, <2>1, <3>1, <3>2, FS_Interval
  <2>5. b \in SUBSET (1 .. j - 1)
    BY <2>3
  <2>6. Cardinality(b) <= j - 1
    <3>1. PICK r : r = 1 .. j - 1
      OBVIOUS
    <3>2. IsFiniteSet(r) /\ b \in SUBSET r /\ Cardinality(r) = j - 1
      BY <2>4, <2>5, <3>1
    <3>3. Cardinality(b) <= Cardinality(r)
      BY <3>2, FS_Subset
    <3> QED
      BY <3>2, <3>3
  <2>7. i - 1 <= j - 1
    BY <2>1, <2>2, <2>6 DEF Hasta
  <2> QED
    BY <1>5, <2>1, <2>7
<1>14. ASSUME NEW x \in DOMAIN l, NEW k \in DeEtapa(l, x), l[k] = Palabra(c.argv[1])
       PROVE  x = i
  <2>1. k \in DOMAIN l /\ Hasta(B, k) = x - 1
    BY <1>5
  <2>2. k \in DeEtapa(l, i)
    BY <1>2, <1>12, <1>14, <2>1
  <2>3. Hasta(B, k) = i - 1
    BY <1>5, <2>2
  <2> QED
    BY <1>5, <2>1, <2>3
<1> DEFINE P(x) == \E k \in DeEtapa(l, x) : l[k] = Palabra(c.argv[1])
<1>15. P(i) /\ \A x \in DOMAIN l : P(x) => x = i
  BY <1>12, <1>14
<1> HIDE DEF P
<1>16. (CHOOSE x \in DOMAIN l : P(x)) = i
  BY <1>13, <1>15
<1> QED
  BY <1>16 DEF P

-----------------------------------------------------------------------------
\* The processes of the line in the foreground.

\* q is alive and belongs to the line in the foreground.
Activo(q) ==
    LET r == proc[q]
    IN  /\ q # SHELL /\ r.est = "vivo" /\ r.padre # INIT
        /\ ~(r.padre = SHELL /\ EsBack(r.cmd))

\* What the shell runs, and what is left of it from stage i on.
Orden == proc[SHELL].cmd
Desde(i) == SubSeq(Orden, i, Len(Orden))

\* f is what the descriptors of q are before its redirections.
Antes(q, f) ==
    /\ f = [x \in 0 .. 2 |-> f[x]]
    /\ proc[q].fd = IF proc[q].pc = "programa" THEN Redirigidos(f, proc[q].cmd[1]) ELSE f

\* q has the stages from i on: it reads what comes out of stage i - 1.
Cola(q, i, f) ==
    LET r == proc[q]  k == r.padre
    IN  /\ r.cmd = Desde(i) /\ r.pc # "hijo_1" /\ f[1] = TTY /\ f[2] = TTY
        /\ i = 1 => k = SHELL /\ r.pc # "hijo_2" /\ f[0] = TTY
        /\ i > 1 => /\ k # SHELL /\ proc[k].cmd = Desde(i - 1)
                    /\ r.pc # "hijo_2" => f[0] = Lee(k)

\* q has stage i alone, and its parent the stages from i on: it reads what its
\* parent would and writes to the pipe of its parent.
Cabeza(q, i, f) ==
    LET r == proc[q]  k == r.padre
    IN  /\ r.cmd = <<Orden[i]>> /\ r.pc # "hijo_2" /\ i < Len(Orden)
        /\ k # SHELL /\ proc[k].cmd = Desde(i)
        /\ f[0] = proc[k].fd[0] /\ f[2] = TTY
        /\ f[1] = IF r.pc = "hijo_1" THEN TTY ELSE Escribe(k)

Eslabon(q) ==
    /\ proc[q].pc \in {"hijo_1", "hijo_2"} => proc[q].pipefd = proc[q].padre
    /\ \E i \in 1 .. Len(Orden) : \E f : Antes(q, f) /\ (Cola(q, i, f) \/ Cabeza(q, i, f))

Unicos ==
    \A q, s \in Pids : Activo(q) /\ Activo(s) /\ EsPipe(proc[q].cmd)
                       /\ proc[q].cmd = proc[s].cmd => q = s

\* While the shell waits, each process of the line is a link of its chain, and
\* no two of them have the same two stages or more.
Linajes ==
    En(SHELL, "espera") /\ LineaClara(linea) =>
        (\A q \in Pids : Activo(q) => Eslabon(q)) /\ Unicos

\* What the shell runs is what the parser made of the line.
Encargo ==
    proc[SHELL].est = "vivo" =>
        /\ proc[SHELL].fd = [i \in 0 .. 2 |-> TTY]
        /\ proc[SHELL].pc \in {"fork", "espera"} =>
                linea \in Lineas \ {<<>>} /\ Orden = ParseLine(linea, status, Entorno)

\* The variables of a process are those of the shell, and in a program also
\* those of its own stage; a program has one stage.
Ambiente(q) ==
    proc[q].est = "vivo" =>
        /\ proc[q].environ = IF proc[q].pc = "programa"
                             THEN SetEnvironVars(Entorno, proc[q].cmd[1].eargv) ELSE Entorno
        /\ proc[q].pc \in {"redir", "programa"} => ~EsPipe(proc[q].cmd)

Ambientes == \A q \in Pids : Ambiente(q)

LInv == Encargo /\ Ambientes /\ Linajes

-----------------------------------------------------------------------------
\* What is left of a line.

LEMMA DesdeDatos ==
    ASSUME NEW T, Orden \in Seq(T), NEW i \in 1 .. Len(Orden)
    PROVE  /\ Desde(i) \in Seq(T) /\ Len(Desde(i)) = Len(Orden) - i + 1 /\ Desde(i)[1] = Orden[i]
           /\ i = 1 => Desde(i) = Orden
           /\ i < Len(Orden) => Tail(Desde(i)) = Desde(i + 1)
<1> DEFINE c == Orden  n == Len(Orden)
<1>1. n \in Nat /\ c \in Seq(T)
  BY LenProperties
<1> HIDE DEF c, n
<1>2. PICK d : d = SubSeq(c, i, n)
  OBVIOUS
<1>3. /\ d \in Seq(T) /\ Len(d) = n - i + 1 /\ \A x \in 1 .. n - i + 1 : d[x] = c[i + x - 1]
  <2>1. d \in Seq(T)
    BY <1>1, <1>2 DEF n, c
  <2>2. Len(d) = n - i + 1
    BY <1>1, <1>2 DEF n, c
  <2>3. \A x \in 1 .. n - i + 1 : d[x] = c[i + x - 1]
    BY <1>1, <1>2 DEF n, c
  <2> QED
    BY <2>1, <2>2, <2>3
<1>4. i \in 1 .. n /\ d = Desde(i)
  BY <1>2 DEF Desde, c, n
<1>5. d[1] = c[i]
  BY <1>1, <1>3, <1>4
<1>6. ASSUME i = 1 PROVE d = c
  <2>1. Len(d) = n /\ \A x \in 1 .. n : d[x] = c[x]
    BY <1>1, <1>3, <1>6
  <2>2. Len(c) = n
    BY DEF c, n
  <2> QED
    BY <1>1, <1>3, <2>1, <2>2, SeqEqual
<1>7. ASSUME i < n PROVE Tail(d) = Desde(i + 1)
  <2>1. PICK e : e = SubSeq(c, i + 1, n)
    OBVIOUS
  <2>2. /\ e \in Seq(T) /\ Len(e) = n - (i + 1) + 1
        /\ \A x \in 1 .. n - (i + 1) + 1 : e[x] = c[i + 1 + x - 1]
    <3>1. i + 1 \in 1 .. n
      BY <1>1, <1>4, <1>7
    <3> QED
      BY <1>1, <2>1, <3>1 DEF n, c
  <2>3. PICK t : t = Tail(d)
    OBVIOUS
  <2>4. t \in Seq(T) /\ Len(t) = Len(d) - 1 /\ \A x \in 1 .. Len(d) - 1 : t[x] = d[x + 1]
    BY <1>1, <1>3, <1>4, <2>3
  <2>5. Len(t) = Len(e) /\ \A x \in 1 .. Len(t) : t[x] = e[x]
    <3>1. n \in Nat /\ i \in Nat /\ Len(t) = n - i /\ Len(e) = n - i
      BY <1>1, <1>3, <1>4, <2>2, <2>4
    <3>2. ASSUME NEW x \in 1 .. n - i PROVE t[x] = e[x]
      <4>1. /\ x \in 1 .. Len(d) - 1 /\ x + 1 \in 1 .. n - i + 1
            /\ x \in 1 .. n - (i + 1) + 1
        BY <1>3, <3>1
      <4>2. t[x] = d[x + 1] /\ d[x + 1] = c[i + (x + 1) - 1] /\ e[x] = c[i + 1 + x - 1]
        BY <1>3, <2>2, <2>4, <4>1
      <4>3. i + (x + 1) - 1 = i + 1 + x - 1
        BY <3>1
      <4> QED
        BY <4>2, <4>3
    <3> QED
      BY <3>1, <3>2
  <2>6. t = e
    BY <2>2, <2>4, <2>5, SeqEqual
  <2> QED
    BY <2>1, <2>3, <2>6 DEF Desde, c, n
<1> QED
  BY <1>3, <1>4, <1>5, <1>6, <1>7 DEF c, n

-----------------------------------------------------------------------------
\* What a step of a process leaves alone.

LEMMA PipeNoBack ==
    ASSUME NEW c, EsPipe(c)
    PROVE  ~EsBack(c)
<1>1. PICK n : n = Len(c)
  OBVIOUS
<1>2. n > 1
  BY <1>1, Zenon DEF EsPipe
<1>3. ASSUME EsBack(c) PROVE FALSE
  <2>1. n = 1
    BY <1>1, <1>3, Zenon DEF EsBack
  <2> QED
    BY <1>2, <2>1
<1> QED
  BY <1>3

\* q, if it is still alive, is where it was.
Mismo(q) ==
    LET r == proc[q]  s == proc'[q]
    IN  s.est = "vivo" =>
            /\ r.est = "vivo" /\ s.cmd = r.cmd /\ s.fd = r.fd /\ s.environ = r.environ
            /\ s.padre = r.padre \/ s.padre = INIT
            /\ s.pc = "redir" => r.pc = "redir" \/ EsBack(r.cmd)
            /\ \/ s.pc = r.pc /\ (r.pc \in {"hijo_1", "hijo_2"} => s.pipefd = r.pipefd)
               \/ {r.pc, s.pc} \cap {"programa", "hijo_1", "hijo_2"} = {}

ShellQuieta ==
    /\ linea' = linea /\ status' = status
    /\ proc'[SHELL].est = "vivo" =>
        /\ proc[SHELL].est = "vivo" /\ proc'[SHELL].pc = proc[SHELL].pc
        /\ proc'[SHELL].fd = proc[SHELL].fd /\ proc'[SHELL].cmd = proc[SHELL].cmd

LEMMA MueveMismos ==
    ASSUME NEW p \in Pids, Mueve(p)
    PROVE  /\ \A q \in Pids \ {p} : Mismo(q)
           /\ \A q \in Pids \ {p} : proc[q].est = "vivo" => proc'[q] = proc[q]
           /\ p # SHELL /\ linea' = linea /\ status' = status => ShellQuieta
<1>1. ASSUME NEW q \in Pids \ {p}
      PROVE  /\ proc[q].est = "vivo" => proc'[q] = proc[q]
             /\ proc'[q].est = "vivo" => proc'[q] = proc[q]
  BY Registros DEF Mueve
<1>2. \A q \in Pids \ {p} : Mismo(q)
  BY <1>1 DEF Mismo
<1>3. p # SHELL /\ linea' = linea /\ status' = status => ShellQuieta
  BY <1>1, ShellEsPid DEF ShellQuieta
<1> QED
  BY <1>1, <1>2, <1>3

LEMMA NaceMismos ==
    ASSUME Tipos, NEW p \in Pids, NEW pc, NEW c, Nace(p, pc, c)
    PROVE  /\ \A q \in Pids \ {p, Nuevo} : Mismo(q) /\ proc'[q] = proc[q]
           /\ p # SHELL /\ linea' = linea /\ status' = status => ShellQuieta
<1>1. \A q \in Pids \ {p, Nuevo} : proc'[q] = proc[q]
  BY DEF Nace
<1>2. Nuevo # SHELL
  BY NuevoLibre DEF SHELL
<1>3. p # SHELL /\ linea' = linea /\ status' = status => ShellQuieta
  BY <1>1, <1>2, ShellEsPid DEF ShellQuieta
<1> QED
  BY <1>1, <1>3 DEF Mismo

LEMMA TerminaMismos ==
    ASSUME Tipos, NEW p \in Pids \ {SHELL}, proc[p].est = "vivo", NEW st, Termina(p, st),
           fallos' \in Nat, linea' = linea, status' = status
    PROVE  ShellQuieta /\ \A q \in Pids : Mismo(q)
<1>1. /\ proc'[p].est # "vivo"
      /\ \A q \in Pids \ {p} :
            /\ proc[q].est = "vivo" =>
                    /\ proc'[q].est = "vivo" /\ proc'[q].pc = proc[q].pc
                    /\ proc'[q].cmd = proc[q].cmd /\ proc'[q].fd = proc[q].fd
                    /\ proc'[q].pipefd = proc[q].pipefd /\ proc'[q].environ = proc[q].environ
                    /\ proc'[q].padre \in {proc[q].padre, INIT}
            /\ proc[q].est = "zombi" /\ proc[q].padre = p => proc'[q].est = "cosechado"
            /\ ~(proc[q].est = "vivo") /\ ~(proc[q].est = "zombi" /\ proc[q].padre = p) =>
                        proc'[q] = proc[q]
  BY TerminaDatos
<1>2. \A q \in Pids : Mismo(q)
  <2>1. ASSUME NEW q \in Pids \ {p} PROVE Mismo(q)
    <3>1. CASE proc[q].est = "vivo"
      BY <1>1, <3>1 DEF Mismo
    <3>2. CASE proc[q].est # "vivo"
      <4>1. proc'[q].est # "vivo"
        BY <1>1, <3>2
      <4> QED
        BY <4>1 DEF Mismo
    <3> QED
      BY <3>1, <3>2
  <2>2. Mismo(p)
    BY <1>1 DEF Mismo
  <2> QED
    BY <2>1, <2>2
<1>3. ShellQuieta
  BY <1>1, ShellEsPid DEF ShellQuieta
<1> QED
  BY <1>2, <1>3

\* The steps of a process that are not Avanza1, Avanza2, Lanza or a fork leave
\* every process where it was.
LEMMA PasoMismos ==
    ASSUME Tipos, NEW p \in Pids, SigchldHandler(p) \/ Paso(p)
    PROVE  /\ ShellQuieta /\ \A q \in Pids \ {p, Nuevo} : Mismo(q)
           /\ \/ \A q \in Pids : Mismo(q)
              \/ ExecCmdExec(p) \/ Hijo1(p) \/ Hijo2(p)
              \/ Fork1(p) /\ Nace(p, "hijo_1", <<proc[p].cmd[1]>>) /\ Mismo(p)
              \/ Fork2(p) /\ Nace(p, "hijo_2", Tail(proc[p].cmd)) /\ Mismo(p)
<1> linea' = linea /\ status' = status /\ fallos \in Nat
  BY DEF SigchldHandler, Paso, ExecCmdBack, ExecCmdExec, ExecCmdFalla, ExecCmdPipe, Fork1, Fork2,
         Hijo1, Hijo2, PipeWaits, PipeWait, ExitHijo, ProgramaTermina, Tipos
<1>1. CASE SigchldHandler(p)
  <2>1. /\ Mueve(p) /\ proc'[p].cmd = proc[p].cmd /\ proc'[p].fd = proc[p].fd
        /\ proc'[p].environ = proc[p].environ /\ proc'[p].pipefd = proc[p].pipefd
        /\ proc'[p].pc = proc[p].pc
    BY <1>1, SigchldHandlerDatos
  <2>2. Mismo(p)
    BY <2>1 DEF Mismo, Mueve
  <2>3. ShellQuieta
    <3>1. CASE p = SHELL
      BY <2>1, <3>1 DEF ShellQuieta, Mueve
    <3> QED
      BY <2>1, <3>1, MueveMismos
  <2> QED
    BY <2>1, <2>2, <2>3, MueveMismos
<1>2. CASE ExecCmdBack(p) \/ ExecCmdPipe(p) \/ PipeWaits(p)
  <2>1. /\ Mueve(p) /\ proc'[p].cmd = proc[p].cmd /\ proc'[p].fd = proc[p].fd
        /\ proc'[p].environ = proc[p].environ
        /\ {proc[p].pc, proc'[p].pc} \cap {"programa", "hijo_1", "hijo_2"} = {}
        /\ proc'[p].pc = "redir" => EsBack(proc[p].cmd)
        /\ proc[p].pc \in PcHijo
    <3>1. "wait_1" \in PcHijo /\ "wait_2" \in PcHijo /\ "exit" \in PcHijo /\ "exec_cmd" \in PcHijo
      BY DEF PcHijo
    <3>2. CASE ExecCmdBack(p)
      BY <3>1, <3>2, ExecCmdBackDatos DEF ExecCmdBack
    <3>3. CASE ExecCmdPipe(p)
      BY <3>1, <3>3, ExecCmdPipeDatos
    <3>4. CASE PipeWaits(p)
      BY <3>1, <3>4, PipeWaitDatos DEF PipeWaits
    <3> QED
      BY <1>2, <3>2, <3>3, <3>4
  <2>2. Mismo(p)
    BY <2>1 DEF Mismo, Mueve
  <2>3. p # SHELL
    BY <2>1 DEF Mueve, Tipos, Proceso, PcShell, PcHijo
  <2> QED
    BY <2>1, <2>2, <2>3, MueveMismos
<1>3. CASE ExecCmdExec(p) \/ Hijo1(p) \/ Hijo2(p)
  <2>1. Mueve(p) /\ proc[p].pc \in PcHijo
    BY <1>3, ExecCmdExecDatos, Hijo1Datos, Hijo2Datos DEF PcHijo
  <2>2. p # SHELL
    BY <2>1 DEF Mueve, Tipos, Proceso, PcShell, PcHijo
  <2> QED
    BY <1>3, <2>1, <2>2, MueveMismos
<1>4. CASE Fork1(p)
  <2>1. CASE /\ Nace(p, "hijo_1", <<proc[p].cmd[1]>>) /\ p # SHELL
             /\ proc[p].pc = "fork_1" /\ proc'[p].pc = "fork_2"
             /\ proc'[p].cmd = proc[p].cmd /\ proc'[p].fd = proc[p].fd
             /\ proc'[p].environ = proc[p].environ
    <3>1. Mismo(p)
      BY <2>1 DEF Mismo, Nace
    <3> QED
      BY <1>4, <2>1, <3>1, NaceMismos
  <2>2. CASE proc[p].est = "vivo" /\ proc[p].pc = "fork_1" /\ Termina(p, EXIT_255) /\ fallos' = fallos + 1
    <3>1. p # SHELL
      BY <2>2 DEF Tipos, Proceso, PcShell
    <3>2. fallos' \in Nat
      BY <2>2
    <3> QED
      BY <2>2, <3>1, <3>2, TerminaMismos
  <2> QED
    BY <1>4, <2>1, <2>2, Fork1Datos
<1>5. CASE Fork2(p)
  <2>1. CASE /\ Nace(p, "hijo_2", Tail(proc[p].cmd)) /\ p # SHELL
             /\ proc[p].pc = "fork_2" /\ proc'[p].pc = "wait_1"
             /\ proc'[p].cmd = proc[p].cmd /\ proc'[p].fd = proc[p].fd
             /\ proc'[p].environ = proc[p].environ
    <3>1. Mismo(p)
      BY <2>1 DEF Mismo, Nace
    <3> QED
      BY <1>5, <2>1, <3>1, NaceMismos
  <2>2. CASE proc[p].est = "vivo" /\ proc[p].pc = "fork_2" /\ Termina(p, EXIT_255) /\ fallos' = fallos + 1
    <3>1. p # SHELL
      BY <2>2 DEF Tipos, Proceso, PcShell
    <3>2. fallos' \in Nat
      BY <2>2
    <3> QED
      BY <2>2, <3>1, <3>2, TerminaMismos
  <2> QED
    BY <1>5, <2>1, <2>2, Fork2Datos
<1>6. CASE ExecCmdFalla(p) \/ ExitHijo(p) \/ ProgramaTermina(p)
  <2>1. p # SHELL /\ proc[p].est = "vivo" /\ (\E st : Termina(p, st)) /\ fallos' = fallos
    BY <1>6, FinDatos
  <2>2. PICK st : Termina(p, st)
    BY <2>1
  <2> QED
    BY <2>1, <2>2, TerminaMismos
<1> QED
  BY <1>1, <1>2, <1>3, <1>4, <1>5, <1>6 DEF Paso

-----------------------------------------------------------------------------
\* What the shell runs and the variables of each process.

LEMMA EncargoNext ==
    ASSUME Tipos, Encargo, Next, ~Cd
    PROVE  Encargo'
<1>1. CASE ReadLine
  <2>1. PICK l \in Lineas : RunCmd(l)
    BY <1>1 DEF ReadLine
  <2>2. l # <<>>
    BY <2>1 DEF RunCmd, EsInterno
  <2>3. En(SHELL, "prompt") /\ proc[SHELL].est = "vivo"
    BY <1>1 DEF ReadLine, En
  <2>4. /\ proc'[SHELL].fd = proc[SHELL].fd /\ proc'[SHELL].cmd = ParseLine(l, status, Entorno)
        /\ linea' = l /\ status' = status
    BY <2>1, <2>3, RunCmdDatos
  <2> QED
    BY <2>2, <2>3, <2>4 DEF Encargo, Orden
<1>2. CASE ExitShell
  <2>1. proc[SHELL].est = "vivo" /\ Termina(SHELL, EXIT_0) /\ fallos' \in Nat /\ SHELL \in Pids
    BY <1>2, ShellEsPid DEF ExitShell, En, Tipos
  <2>2. proc'[SHELL].est # "vivo"
    BY <2>1, TerminaDatos
  <2> QED
    BY <2>2 DEF Encargo
<1>3. CASE RunCmdFork
  <2>1. /\ proc[SHELL].pc = "fork" /\ proc[SHELL].est = "vivo"
        /\ proc'[SHELL].fd = proc[SHELL].fd /\ status' = status
        /\ \/ proc'[SHELL].pc = "prompt"
           \/ proc'[SHELL].cmd = proc[SHELL].cmd /\ linea' = linea
    BY <1>3, RunCmdForkDatos
  <2> QED
    BY <2>1 DEF Encargo, Orden
<1>4. CASE RunCmdWait
  <2>1. /\ proc[SHELL].est = "vivo" /\ proc'[SHELL].pc = "prompt"
        /\ proc'[SHELL].fd = proc[SHELL].fd
    BY <1>4, RunCmdWaitDatos DEF Mueve
  <2> QED
    BY <2>1 DEF Encargo
<1>5. ASSUME NEW p \in Pids, SigchldHandler(p) \/ Paso(p) PROVE Encargo'
  <2>1. ShellQuieta
    BY <1>5, PasoMismos
  <2> QED
    BY <2>1 DEF ShellQuieta, Encargo, Orden
<1> QED
  BY <1>1, <1>2, <1>3, <1>4, <1>5 DEF Next

LEMMA AmbienteMismo ==
    ASSUME NEW q, Mismo(q), Ambiente(q)
    PROVE  Ambiente(q)'
BY PipeNoBack DEF Mismo, Ambiente

LEMMA AmbienteNace ==
    ASSUME Tipos, Ambientes, NEW p \in Pids, NEW pc \in {"exec_cmd", "hijo_1", "hijo_2"}, NEW c,
           Nace(p, pc, c), proc[p].pc # "programa", NEW n \in Pids, n = Nuevo
    PROVE  Ambiente(n)'
<1>1. proc'[n].pc = pc /\ proc'[n].environ = proc[p].environ
  BY DEF Nace
<1>2. proc[p].environ = Entorno
  BY DEF Nace, Ambientes, Ambiente
<1> QED
  BY <1>1, <1>2 DEF Ambiente

LEMMA AmbientesNext ==
    ASSUME Tipos, Ambientes, Next, ~Cd
    PROVE  Ambientes'
<1>0. \A q \in Pids : Ambiente(q)
  BY DEF Ambientes
<1> SUFFICES ASSUME NEW q \in Pids PROVE Ambiente(q)'
  BY DEF Ambientes
<1>1. ASSUME Mismo(q) PROVE Ambiente(q)'
  BY <1>0, <1>1, AmbienteMismo
<1>2. ASSUME Mueve(SHELL), proc'[SHELL].environ = proc[SHELL].environ,
             {proc[SHELL].pc, proc'[SHELL].pc} \cap {"redir", "programa"} = {}
      PROVE  Ambiente(q)'
  <2>1. CASE q = SHELL
    BY <1>0, <1>2, <2>1 DEF Ambiente, Mueve
  <2>2. CASE q # SHELL
    BY <1>1, <1>2, <2>2, MueveMismos, ShellEsPid
  <2> QED
    BY <2>1, <2>2
<1>3. CASE ReadLine
  <2>1. PICK l \in Lineas : RunCmd(l) /\ En(SHELL, "prompt")
    BY <1>3 DEF ReadLine
  <2>2. /\ Mueve(SHELL) /\ proc'[SHELL].environ = proc[SHELL].environ
        /\ proc[SHELL].pc = "prompt" /\ proc'[SHELL].pc = "fork"
    BY <2>1, RunCmdDatos
  <2> QED
    BY <1>2, <2>2
<1>4. CASE RunCmdWait
  <2>1. /\ Mueve(SHELL) /\ proc'[SHELL].environ = proc[SHELL].environ
        /\ proc[SHELL].pc = "espera" /\ proc'[SHELL].pc = "prompt"
    BY <1>4, RunCmdWaitDatos
  <2> QED
    BY <1>2, <2>1
<1>5. CASE ExitShell
  <2>1. proc[SHELL].est = "vivo" /\ Termina(SHELL, EXIT_0) /\ fallos' \in Nat /\ SHELL \in Pids
    BY <1>5, ShellEsPid DEF ExitShell, En, Tipos
  <2>2. proc'[SHELL].est # "vivo"
    BY <2>1, TerminaDatos
  <2>3. ASSUME q # SHELL, proc'[q].est = "vivo"
        PROVE  /\ proc[q].est = "vivo" /\ proc'[q].pc = proc[q].pc
               /\ proc'[q].cmd = proc[q].cmd /\ proc'[q].environ = proc[q].environ
    <3>1. CASE proc[q].est = "vivo"
      BY <2>1, <2>3, <3>1, TerminaDatos
    <3>2. CASE proc[q].est # "vivo"
      BY <2>1, <2>3, <3>2, TerminaDatos
    <3> QED
      BY <3>1, <3>2
  <2> QED
    BY <1>0, <2>2, <2>3 DEF Ambiente
<1>6. CASE RunCmdFork
  <2>1. /\ proc[SHELL].pc = "fork" /\ proc[SHELL].est = "vivo"
        /\ proc'[SHELL].environ = proc[SHELL].environ
        /\ proc'[SHELL].pc \in {"prompt", "espera"}
        /\ Mueve(SHELL) \/ Nace(SHELL, "exec_cmd", proc[SHELL].cmd)
    BY <1>6, RunCmdForkDatos
  <2>2. CASE Mueve(SHELL)
    BY <1>2, <2>1, <2>2
  <2>3. CASE Nace(SHELL, "exec_cmd", proc[SHELL].cmd)
    <3>1. CASE q = SHELL
      BY <1>0, <2>1, <3>1 DEF Ambiente
    <3>2. CASE q = Nuevo
      BY <2>1, <2>3, <3>2, AmbienteNace, ShellEsPid
    <3>3. CASE q \notin {SHELL, Nuevo}
      BY <1>1, <2>3, <3>3, NaceMismos, ShellEsPid
    <3> QED
      BY <3>1, <3>2, <3>3
  <2> QED
    BY <2>1, <2>2, <2>3
<1>7. ASSUME NEW p \in Pids, SigchldHandler(p) \/ Paso(p) PROVE Ambiente(q)'
  <2>1. /\ \A s \in Pids \ {p, Nuevo} : Mismo(s)
        /\ \/ \A s \in Pids : Mismo(s)
           \/ ExecCmdExec(p) \/ Hijo1(p) \/ Hijo2(p)
           \/ Fork1(p) /\ Nace(p, "hijo_1", <<proc[p].cmd[1]>>) /\ Mismo(p)
           \/ Fork2(p) /\ Nace(p, "hijo_2", Tail(proc[p].cmd)) /\ Mismo(p)
    BY <1>7, PasoMismos
  <2>2. CASE ExecCmdExec(p)
    <3>1. /\ Mueve(p) /\ proc'[p].cmd = proc[p].cmd /\ proc'[p].pc = "programa"
          /\ proc'[p].environ = SetEnvironVars(proc[p].environ, proc[p].cmd[1].eargv)
          /\ proc[p].pc \in {"exec_cmd", "redir"}
      BY <2>2, ExecCmdExecDatos
    <3>2. proc[p].environ = Entorno
      BY <1>0, <3>1 DEF Ambiente, Mueve
    <3>3. ~EsPipe(proc[p].cmd)
      BY <1>0, <2>2 DEF Ambiente, ExecCmdExec, EnEtapa, En
    <3>4. Ambiente(p)'
      BY <3>1, <3>2, <3>3 DEF Ambiente
    <3> QED
      BY <1>1, <3>1, <3>4, MueveMismos
  <2>3. CASE Hijo1(p) \/ Hijo2(p)
    <3>1. /\ Mueve(p) /\ proc'[p].environ = proc[p].environ /\ proc'[p].pc = "exec_cmd"
          /\ proc[p].pc \in {"hijo_1", "hijo_2"}
      BY <2>3, Hijo1Datos, Hijo2Datos
    <3>2. Ambiente(p)'
      BY <1>0, <3>1 DEF Ambiente, Mueve
    <3> QED
      BY <1>1, <3>1, <3>2, MueveMismos
  <2>4. ASSUME NEW pc \in {"hijo_1", "hijo_2"}, NEW c, Nace(p, pc, c), Mismo(p),
               proc[p].pc # "programa"
        PROVE  Ambiente(q)'
    <3>1. CASE q = Nuevo
      BY <2>4, <3>1, AmbienteNace
    <3>2. CASE q # Nuevo
      BY <1>1, <2>1, <2>4, <3>2
    <3> QED
      BY <3>1, <3>2
  <2>5. (Fork1(p) \/ Fork2(p)) => proc[p].pc # "programa"
    BY DEF Fork1, Fork2, En
  <2> QED
    BY <1>1, <2>1, <2>2, <2>3, <2>4, <2>5
<1> QED
  BY <1>3, <1>4, <1>5, <1>6, <1>7 DEF Next

-----------------------------------------------------------------------------
\* The chain of the line.

LEMMA PadreActivo ==
    ASSUME IInv, proc[SHELL].est = "vivo", NEW q \in Pids, Activo(q),
           NEW k, k = proc[q].padre, k # SHELL
    PROVE  /\ k \in Pids \ {SHELL} /\ k # q /\ k < q /\ Activo(k) /\ EsPipe(proc[k].cmd)
           /\ proc[k].pc \in ConHijos
           /\ proc[k].pc = "fork_2" => ~EsPipe(proc[q].cmd)
<1>1. q # SHELL /\ EnFamilia(q) /\ k # INIT
  BY DEF Activo, EnFamilia
<1>2. /\ k \in Pids \ {SHELL} /\ k < q /\ proc[k].est = "vivo" /\ proc[k].pc \in ConHijos
      /\ proc[k].pc = "fork_2" => ~EsPipe(proc[q].cmd)
  BY <1>1 DEF IInv, Familias, Pariente
<1>3. EsPipe(proc[k].cmd)
  BY <1>2 DEF IInv, Familias, Prole
<1>4. proc[k].padre # INIT
  BY <1>2, <1>3 DEF IInv, Familias, Pariente, EnFamilia
<1>5. ~EsBack(proc[k].cmd)
  BY <1>3, PipeNoBack
<1>6. k # q
  BY <1>2, ShellEsPid
<1> QED
  BY <1>2, <1>3, <1>4, <1>5, <1>6 DEF Activo

\* The same of every process, to be used of the state after a step.
Padres ==
    proc[SHELL].est = "vivo" =>
        \A q \in Pids : Activo(q) /\ proc[q].padre # SHELL =>
            /\ proc[q].padre \in Pids /\ Activo(proc[q].padre)
            /\ proc[proc[q].padre].pc \in ConHijos

LEMMA PadresDeIInv == IInv => Padres
BY PadreActivo DEF Padres

LEMMA PadresDespues == IInv' => Padres'
BY PadresDeIInv, PTL

\* There is no line in the foreground unless the shell waits for it.
LEMMA NadieActivo ==
    ASSUME IInv, proc[SHELL].est = "vivo", ~En(SHELL, "espera"), NEW q \in Pids, Activo(q)
    PROVE  FALSE
<1> DEFINE M == {j \in Pids : Activo(j)}
<1>1. M \in SUBSET Nat /\ M # {}
  BY ShellEsPid
<1>2. PICK m \in M : \A y \in M : ~(y < m)
  BY <1>1, Minimo
<1> DEFINE k == proc[m].padre
<1>3. k # SHELL
  <2>1. m \in Pids \ {SHELL} /\ EnFamilia(m) /\ Activo(m)
    BY DEF Activo, EnFamilia
  <2> QED
    BY <2>1, ShellEsPid DEF IInv, Familias, Pariente, Activo
<1>4. k \in M /\ k < m
  BY <1>3, PadreActivo
<1> QED
  BY <1>2, <1>4

\* A process of the line that stays where it was is still its link, if its
\* parent has not moved.
LEMMA EslabonSigue ==
    ASSUME Orden' = Orden, NEW q, Mismo(q), proc'[q].est = "vivo", Eslabon(q),
           NEW k, k = proc[q].padre, proc'[q].padre = k,
           k = SHELL \/ (proc'[k].cmd = proc[k].cmd /\ proc'[k].fd = proc[k].fd)
    PROVE  Eslabon(q)'
<1>1. /\ proc[q].pc \in {"hijo_1", "hijo_2"} => proc[q].pipefd = k
      /\ \E i \in 1 .. Len(Orden) : \E f : Antes(q, f) /\ (Cola(q, i, f) \/ Cabeza(q, i, f))
  BY DEF Eslabon
<1>2a. PICK i \in 1 .. Len(Orden) : \E f : Antes(q, f) /\ (Cola(q, i, f) \/ Cabeza(q, i, f))
  BY <1>1
<1>2. PICK f : Antes(q, f) /\ (Cola(q, i, f) \/ Cabeza(q, i, f))
  BY <1>2a
<1>3. /\ proc'[q].cmd = proc[q].cmd /\ proc'[q].fd = proc[q].fd
      /\ \A x \in {"programa", "hijo_1", "hijo_2"} : proc'[q].pc = x <=> proc[q].pc = x
      /\ proc'[q].pc \in {"hijo_1", "hijo_2"} => proc'[q].pipefd = proc[q].pipefd
  BY DEF Mismo
<1>4. Antes(q, f)'
  <2>1. Antes(q, f)
    BY <1>2
  <2> QED
    BY <1>3, <2>1 DEF Antes
<1>5. \A j : Desde(j)' = Desde(j)
  BY DEF Desde
<1>6. ASSUME Cola(q, i, f) PROVE Cola(q, i, f)'
  BY <1>3, <1>5, <1>6 DEF Cola
<1>7. ASSUME Cabeza(q, i, f) PROVE Cabeza(q, i, f)'
  BY <1>3, <1>5, <1>7 DEF Cabeza
<1>8. i \in 1 .. Len(Orden')
  OBVIOUS
<1>9. proc'[q].pc \in {"hijo_1", "hijo_2"} => proc'[q].pipefd = proc'[q].padre
  BY <1>1, <1>3
<1> QED
  BY <1>2, <1>4, <1>6, <1>7, <1>8, <1>9 DEF Eslabon

\* A step in which only p may become a link of the chain or another link of it.
LEMMA LinajesDe ==
    ASSUME IInv, IInv', Linajes, En(SHELL, "espera"), En(SHELL, "espera")',
           linea' = linea, Orden' = Orden, NEW p,
           LineaClara(linea) /\ p \in Pids /\ Activo(p)' => Eslabon(p)',
           \A q \in Pids \ {p} : Mismo(q),
           p \in Pids /\ Activo(p)' /\ proc'[p].pc \in ConHijos => Mismo(p),
           \A s \in Pids \ {p} :
                LineaClara(linea) /\ p \in Pids /\ Activo(p)' /\ Activo(s)' /\ EsPipe(proc'[p].cmd) =>
                    proc'[p].cmd # proc'[s].cmd
    PROVE  Linajes'
<1> SUFFICES ASSUME LineaClara(linea)
             PROVE  (\A q \in Pids : Activo(q) => Eslabon(q))' /\ Unicos'
  BY DEF Linajes
<1>1. (\A q \in Pids : Activo(q) => Eslabon(q)) /\ Unicos
  BY DEF Linajes
<1>2. proc'[SHELL].est = "vivo"
  BY DEF En
<1>3. ASSUME NEW q \in Pids, Mismo(q), Activo(q)'
      PROVE  /\ Activo(q) /\ proc'[q].est = "vivo" /\ proc'[q].padre = proc[q].padre
             /\ proc'[q].cmd = proc[q].cmd /\ proc'[q].fd = proc[q].fd
  BY <1>3 DEF Activo, Mismo
<1>4. ASSUME NEW q \in Pids \ {p}, Activo(q)' PROVE Eslabon(q)'
  <2>1. /\ Mismo(q) /\ Activo(q) /\ proc'[q].est = "vivo" /\ proc'[q].padre = proc[q].padre
    BY <1>3, <1>4
  <2>2. PICK k : k = proc[q].padre
    OBVIOUS
  <2>3. k = SHELL \/ (proc'[k].cmd = proc[k].cmd /\ proc'[k].fd = proc[k].fd)
    <3>1. SUFFICES ASSUME k # SHELL
                   PROVE  proc'[k].cmd = proc[k].cmd /\ proc'[k].fd = proc[k].fd
      OBVIOUS
    <3>2. k = proc'[q].padre
      BY <2>1, <2>2
    <3>3. k \in Pids /\ Activo(k)' /\ proc'[k].pc \in ConHijos
      BY <1>2, <1>4, <3>1, <3>2, PadresDespues DEF Padres
    <3>4. Mismo(k)
      BY <3>3
    <3> QED
      BY <1>3, <3>3, <3>4
  <2>4. Eslabon(q)
    BY <1>1, <2>1
  <2> QED
    BY <2>1, <2>2, <2>3, <2>4, EslabonSigue
<1>5. \A q \in Pids : Activo(q)' => Eslabon(q)'
  BY <1>4
<1>6. ASSUME NEW q \in Pids, NEW s \in Pids, Activo(q)', Activo(s)', EsPipe(proc'[q].cmd),
             proc'[q].cmd = proc'[s].cmd
      PROVE  q = s
  <2>1. CASE q # p /\ s # p
    <3>1. /\ Activo(q) /\ Activo(s) /\ proc'[q].cmd = proc[q].cmd
          /\ proc'[s].cmd = proc[s].cmd
      BY <1>3, <1>6, <2>1
    <3> QED
      BY <1>1, <1>6, <3>1 DEF Unicos
  <2>2. CASE q = p /\ s # p
    BY <1>6, <2>2
  <2>3. CASE q # p /\ s = p
    BY <1>6, <2>3
  <2> QED
    BY <2>1, <2>2, <2>3
<1> QED
  BY <1>5, <1>6 DEF Unicos

LEMMA OrdenDatos ==
    ASSUME Encargo, En(SHELL, "fork") \/ En(SHELL, "espera"), LineaClara(linea)
    PROVE  /\ \E T : Orden \in Seq(T)
           /\ Len(Orden) = Etapas(linea) /\ Etapas(linea) \in Nat
           /\ \A i \in 1 .. Etapas(linea) : ComoEscrita(Orden[i], linea, i, status)
<1>1. Orden = ParseLine(linea, status, Entorno)
  BY DEF Encargo, En
<1> QED
  BY <1>1, ParseLineComoEscrita

\* A step in which nothing forks.
LEMMA LinajesMueve ==
    ASSUME IInv, IInv', Linajes, En(SHELL, "espera"), En(SHELL, "espera")',
           linea' = linea, Orden' = Orden, NEW p \in Pids, Mueve(p),
           proc'[p].cmd = proc[p].cmd, proc'[p].pc \notin ConHijos,
           LineaClara(linea) /\ Activo(p)' => Eslabon(p)'
    PROVE  Linajes'
<1>1. /\ \A q \in Pids \ {p} : Mismo(q)
  BY MueveMismos
<1>2. Activo(p)' => Activo(p)
  BY DEF Activo, Mueve
<1>3. ASSUME NEW s \in Pids \ {p}, LineaClara(linea), Activo(p)', Activo(s)',
             EsPipe(proc'[p].cmd)
      PROVE  proc'[p].cmd # proc'[s].cmd
  <2>1. Activo(p) /\ Activo(s) /\ proc'[s].cmd = proc[s].cmd
    BY <1>1, <1>2, <1>3 DEF Activo, Mismo
  <2>2. Unicos
    BY <1>3 DEF Linajes
  <2> QED
    BY <1>3, <2>1, <2>2 DEF Unicos
<1> QED
  BY <1>1, <1>3, LinajesDe

\* The parent of a process that moves stays.
LEMMA PadreQuieto ==
    ASSUME IInv, proc[SHELL].est = "vivo", NEW p \in Pids, Mueve(p), Activo(p)',
           proc'[p].cmd = proc[p].cmd, NEW k, k = proc[p].padre
    PROVE  Activo(p) /\ proc'[p].padre = k /\ (k # SHELL => proc'[k] = proc[k])
<1>1. Activo(p) /\ proc'[p].padre = k
  BY DEF Activo, Mueve
<1>2. ASSUME k # SHELL PROVE proc'[k] = proc[k]
  <2>1. k \in Pids /\ k # p /\ Activo(k)
    BY <1>1, <1>2, PadreActivo
  <2>2. proc[k].est = "vivo"
    BY <2>1 DEF Activo
  <2> QED
    BY <2>1, <2>2, MueveMismos
<1> QED
  BY <1>1, <1>2

LEMMA LinajesHijo1 ==
    ASSUME IInv, IInv', Linajes, En(SHELL, "espera"), En(SHELL, "espera")',
           linea' = linea, Orden' = Orden, NEW p \in Pids, Hijo1(p)
    PROVE  Linajes'
<1>1. /\ Mueve(p) /\ proc'[p].cmd = proc[p].cmd
      /\ proc'[p].fd = [proc[p].fd EXCEPT ![1] = Escribe(proc[p].pipefd)]
      /\ proc[p].pc = "hijo_1" /\ proc'[p].pc = "exec_cmd"
  BY Hijo1Datos DEF IInv
<1>2. ASSUME LineaClara(linea), Activo(p)' PROVE Eslabon(p)'
  <2>1. PICK k : k = proc[p].padre
    OBVIOUS
  <2>2. Activo(p) /\ proc'[p].padre = k /\ (k # SHELL => proc'[k] = proc[k])
    BY <1>1, <1>2, <2>1, PadreQuieto DEF En
  <2>3. Eslabon(p)
    BY <1>2, <2>2 DEF Linajes
  <2>4a. PICK i \in 1 .. Len(Orden) : \E f : Antes(p, f) /\ (Cola(p, i, f) \/ Cabeza(p, i, f))
    BY <2>3 DEF Eslabon
  <2>4. PICK f : Antes(p, f) /\ (Cola(p, i, f) \/ Cabeza(p, i, f))
    BY <2>4a
  <2>5. proc[p].pipefd = k /\ Cabeza(p, i, f) /\ f = proc[p].fd /\ f = [x \in 0 .. 2 |-> f[x]]
    BY <1>1, <2>1, <2>3, <2>4 DEF Eslabon, Cola, Antes
  <2>6. PICK g : g = [f EXCEPT ![1] = Escribe(k)]
    OBVIOUS
  <2>7. /\ g = [x \in 0 .. 2 |-> g[x]] /\ g[0] = f[0] /\ g[1] = Escribe(k) /\ g[2] = f[2]
        /\ g = proc'[p].fd
    <3>1. DOMAIN f = 0 .. 2
      BY <2>5
    <3>2. g = proc'[p].fd
      BY <1>1, <2>5, <2>6
    <3>3. DOMAIN g = 0 .. 2 /\ \A x \in 0 .. 2 : g[x] = IF x = 1 THEN Escribe(k) ELSE f[x]
      BY <2>6, <3>1
    <3>4. g = [x \in 0 .. 2 |-> g[x]]
      BY <2>6, <3>3
    <3>5. g[0] = f[0] /\ g[1] = Escribe(k) /\ g[2] = f[2]
      BY <3>3
    <3> QED
      BY <3>2, <3>4, <3>5
  <2>8. Antes(p, g)'
    BY <1>1, <2>7 DEF Antes
  <2>9. Desde(i)' = Desde(i)
    BY DEF Desde
  <2>10. Cabeza(p, i, g)'
    BY <1>1, <2>1, <2>2, <2>5, <2>7, <2>9 DEF Cabeza
  <2>11. i \in 1 .. Len(Orden')
    OBVIOUS
  <2> QED
    BY <1>1, <2>8, <2>10, <2>11 DEF Eslabon
<1>3. proc'[p].pc \notin ConHijos
  BY <1>1 DEF ConHijos
<1> QED
  BY <1>1, <1>2, <1>3, LinajesMueve

LEMMA LinajesHijo2 ==
    ASSUME IInv, IInv', Linajes, En(SHELL, "espera"), En(SHELL, "espera")',
           linea' = linea, Orden' = Orden, NEW p \in Pids, Hijo2(p)
    PROVE  Linajes'
<1>1. /\ Mueve(p) /\ proc'[p].cmd = proc[p].cmd
      /\ proc'[p].fd = [proc[p].fd EXCEPT ![0] = Lee(proc[p].pipefd)]
      /\ proc[p].pc = "hijo_2" /\ proc'[p].pc = "exec_cmd"
  BY Hijo2Datos DEF IInv
<1>2. ASSUME LineaClara(linea), Activo(p)' PROVE Eslabon(p)'
  <2>1. PICK k : k = proc[p].padre
    OBVIOUS
  <2>2. Activo(p) /\ proc'[p].padre = k /\ (k # SHELL => proc'[k] = proc[k])
    BY <1>1, <1>2, <2>1, PadreQuieto DEF En
  <2>3. Eslabon(p)
    BY <1>2, <2>2 DEF Linajes
  <2>4a. PICK i \in 1 .. Len(Orden) : \E f : Antes(p, f) /\ (Cola(p, i, f) \/ Cabeza(p, i, f))
    BY <2>3 DEF Eslabon
  <2>4. PICK f : Antes(p, f) /\ (Cola(p, i, f) \/ Cabeza(p, i, f))
    BY <2>4a
  <2>5. proc[p].pipefd = k /\ Cola(p, i, f) /\ f = proc[p].fd /\ f = [x \in 0 .. 2 |-> f[x]]
    BY <1>1, <2>1, <2>3, <2>4 DEF Eslabon, Cabeza, Antes
  <2>6. PICK g : g = [f EXCEPT ![0] = Lee(k)]
    OBVIOUS
  <2>7. /\ g = [x \in 0 .. 2 |-> g[x]] /\ g[0] = Lee(k) /\ g[1] = f[1] /\ g[2] = f[2]
        /\ g = proc'[p].fd
    <3>1. DOMAIN f = 0 .. 2
      BY <2>5
    <3>2. g = proc'[p].fd
      BY <1>1, <2>5, <2>6
    <3> QED
      BY <2>6, <3>1, <3>2
  <2>8. Antes(p, g)'
    BY <1>1, <2>7 DEF Antes
  <2>9. \A j : Desde(j)' = Desde(j)
    BY DEF Desde
  <2>10. Cola(p, i, g)'
    BY <1>1, <2>1, <2>2, <2>5, <2>7, <2>9 DEF Cola
  <2>11. i \in 1 .. Len(Orden')
    OBVIOUS
  <2> QED
    BY <1>1, <2>8, <2>10, <2>11 DEF Eslabon
<1>3. proc'[p].pc \notin ConHijos
  BY <1>1 DEF ConHijos
<1> QED
  BY <1>1, <1>2, <1>3, LinajesMueve

LEMMA LinajesExec ==
    ASSUME IInv, IInv', Linajes, En(SHELL, "espera"), En(SHELL, "espera")',
           linea' = linea, Orden' = Orden, NEW p \in Pids, ExecCmdExec(p)
    PROVE  Linajes'
<1>1. /\ Mueve(p) /\ proc'[p].cmd = proc[p].cmd
      /\ proc'[p].fd = Redirigidos(proc[p].fd, proc[p].cmd[1])
      /\ proc[p].pc \in {"exec_cmd", "redir"} /\ proc'[p].pc = "programa"
  BY ExecCmdExecDatos DEF IInv
<1>2. ASSUME LineaClara(linea), Activo(p)' PROVE Eslabon(p)'
  <2>1. PICK k : k = proc[p].padre
    OBVIOUS
  <2>2. Activo(p) /\ proc'[p].padre = k /\ (k # SHELL => proc'[k] = proc[k])
    BY <1>1, <1>2, <2>1, PadreQuieto DEF En
  <2>3. Eslabon(p)
    BY <1>2, <2>2 DEF Linajes
  <2>4a. PICK i \in 1 .. Len(Orden) : \E f : Antes(p, f) /\ (Cola(p, i, f) \/ Cabeza(p, i, f))
    BY <2>3 DEF Eslabon
  <2>4. PICK f : Antes(p, f) /\ (Cola(p, i, f) \/ Cabeza(p, i, f))
    BY <2>4a
  <2>5. f = proc[p].fd /\ f = [x \in 0 .. 2 |-> f[x]]
    BY <1>1, <2>4 DEF Antes
  <2>6. Antes(p, f)'
    BY <1>1, <2>5 DEF Antes
  <2>7. \A j : Desde(j)' = Desde(j)
    BY DEF Desde
  <2>8. Cola(p, i, f) => Cola(p, i, f)'
    BY <1>1, <2>1, <2>2, <2>7 DEF Cola
  <2>9. Cabeza(p, i, f) => Cabeza(p, i, f)'
    BY <1>1, <2>1, <2>2, <2>7 DEF Cabeza
  <2>10. i \in 1 .. Len(Orden')
    OBVIOUS
  <2> QED
    BY <1>1, <2>4, <2>6, <2>8, <2>9, <2>10 DEF Eslabon
<1>3. proc'[p].pc \notin ConHijos
  BY <1>1 DEF ConHijos
<1> QED
  BY <1>1, <1>2, <1>3, LinajesMueve

LEMMA PipeActivo ==
    ASSUME IInv, proc[SHELL].est = "vivo", NEW p \in Pids \ {SHELL}, proc[p].est = "vivo",
           EsPipe(proc[p].cmd)
    PROVE  Activo(p)
<1>1. proc[p].padre # INIT
  BY DEF IInv, Familias, Pariente, EnFamilia
<1>2. ~EsBack(proc[p].cmd)
  BY PipeNoBack
<1> QED
  BY <1>1, <1>2 DEF Activo

\* Two stages or more are what is left of the line from some stage on.
LEMMA PipeCola ==
    ASSUME NEW T, Orden \in Seq(T), NEW p, Eslabon(p), EsPipe(proc[p].cmd)
    PROVE  \E i \in 1 .. Len(Orden) : \E f : Antes(p, f) /\ Cola(p, i, f) /\ i < Len(Orden)
<1>1a. PICK i \in 1 .. Len(Orden) : \E f : Antes(p, f) /\ (Cola(p, i, f) \/ Cabeza(p, i, f))
  BY DEF Eslabon
<1>1. PICK f : Antes(p, f) /\ (Cola(p, i, f) \/ Cabeza(p, i, f))
  BY <1>1a
<1>2. PICK m : m = Len(proc[p].cmd)
  OBVIOUS
<1>3. m > 1
  BY <1>2, Zenon DEF EsPipe
<1>4. ~Cabeza(p, i, f)
  <2>1. SUFFICES ASSUME Cabeza(p, i, f) PROVE FALSE
    OBVIOUS
  <2>2. proc[p].cmd = <<Orden[i]>>
    BY <2>1 DEF Cabeza
  <2>3. m = 1
    BY <1>2, <2>2
  <2> QED
    BY <1>3, <2>3
<1>5. proc[p].cmd = Desde(i) /\ Cola(p, i, f)
  BY <1>1, <1>4 DEF Cola
<1>6. m = Len(Orden) - i + 1 /\ Len(Orden) \in Nat
  BY <1>2, <1>5, DesdeDatos
<1>7. i < Len(Orden)
  BY <1>3, <1>6
<1> QED
  BY <1>1, <1>5, <1>7

LEMMA UnoNoPipe ==
    ASSUME NEW x
    PROVE  ~EsPipe(<<x>>)
BY DEF EsPipe

LEMMA LinajesFork1 ==
    ASSUME IInv, IInv', Encargo, Linajes, En(SHELL, "espera"), En(SHELL, "espera")',
           linea' = linea, Orden' = Orden, NEW p \in Pids, Fork1(p),
           Nace(p, "hijo_1", <<proc[p].cmd[1]>>), Mismo(p),
           \A q \in Pids \ {p, Nuevo} : Mismo(q)
    PROVE  Linajes'
<1>1. PICK n : n = Nuevo
  OBVIOUS
<1>2. /\ proc[p].est = "vivo" /\ proc[p].pc = "fork_1" /\ p # SHELL /\ p # n
      /\ proc[SHELL].est = "vivo"
  BY <1>1, NuevoLibre DEF Fork1, En, IInv, Tipos, Proceso, PcShell
<1>3. EsPipe(proc[p].cmd) /\ proc[p].pipefd = p
  BY <1>2 DEF IInv, Familias, Prole, Pipes, Extra
<1>4. proc'[p].est = "vivo" /\ proc'[p].cmd = proc[p].cmd /\ proc'[p].fd = proc[p].fd
  BY DEF Mismo, Nace
<1>5. Activo(p)
  BY <1>2, <1>3, PipeActivo
<1>6. n \in Pids => /\ proc'[n].pc = "hijo_1" /\ proc'[n].cmd = <<proc[p].cmd[1]>>
                    /\ proc'[n].padre = p /\ proc'[n].fd = proc[p].fd /\ proc'[n].pipefd = p
  BY <1>1, <1>3 DEF Nace
<1>7. ASSUME LineaClara(linea), n \in Pids PROVE Eslabon(n)'
  <2>1. PICK T : Orden \in Seq(T)
    BY <1>7, OrdenDatos
  <2>2. Eslabon(p)
    BY <1>5, <1>7 DEF Linajes
  <2>3a. PICK i \in 1 .. Len(Orden) : \E f : Antes(p, f) /\ Cola(p, i, f) /\ i < Len(Orden)
    BY <1>3, <2>1, <2>2, PipeCola
  <2>3. PICK f : Antes(p, f) /\ Cola(p, i, f) /\ i < Len(Orden)
    BY <2>3a
  <2>4. f = proc[p].fd /\ f = [x \in 0 .. 2 |-> f[x]] /\ f[1] = TTY /\ f[2] = TTY
    BY <1>2, <2>3 DEF Antes, Cola
  <2>5. proc[p].cmd = Desde(i) /\ proc[p].cmd[1] = Orden[i]
    <3>1. proc[p].cmd = Desde(i)
      BY <2>3 DEF Cola
    <3> QED
      BY <2>1, <3>1, DesdeDatos
  <2>6. Antes(n, f)'
    BY <1>6, <1>7, <2>4 DEF Antes
  <2>7. Desde(i)' = Desde(i)
    BY DEF Desde
  <2>8. Cabeza(n, i, f)'
    BY <1>2, <1>4, <1>6, <1>7, <2>3, <2>4, <2>5, <2>7 DEF Cabeza
  <2>9. i \in 1 .. Len(Orden')
    OBVIOUS
  <2> QED
    BY <1>6, <1>7, <2>6, <2>8, <2>9 DEF Eslabon
<1>8. \A q \in Pids \ {n} : Mismo(q)
  BY <1>1
<1>9. n \in Pids => proc'[n].pc \notin ConHijos /\ ~EsPipe(proc'[n].cmd)
  BY <1>6, UnoNoPipe DEF ConHijos
<1> QED
  BY <1>7, <1>8, <1>9, LinajesDe

LEMMA LinajesFork2 ==
    ASSUME IInv, IInv', Encargo, Linajes, En(SHELL, "espera"), En(SHELL, "espera")',
           linea' = linea, Orden' = Orden, NEW p \in Pids, Fork2(p),
           Nace(p, "hijo_2", Tail(proc[p].cmd)), Mismo(p),
           \A q \in Pids \ {p, Nuevo} : Mismo(q)
    PROVE  Linajes'
<1>1. PICK n : n = Nuevo
  OBVIOUS
<1>2. /\ proc[p].est = "vivo" /\ proc[p].pc = "fork_2" /\ p # SHELL /\ p # n
      /\ proc[SHELL].est = "vivo"
  BY <1>1, NuevoLibre DEF Fork2, En, IInv, Tipos, Proceso, PcShell
<1>3. EsPipe(proc[p].cmd) /\ proc[p].pipefd = p
  BY <1>2 DEF IInv, Familias, Prole, Pipes, Extra, ConHijos
<1>4. proc'[p].est = "vivo" /\ proc'[p].cmd = proc[p].cmd /\ proc'[p].fd = proc[p].fd
  BY DEF Mismo, Nace
<1>5. Activo(p)
  BY <1>2, <1>3, PipeActivo
<1>6. n \in Pids => /\ proc'[n].pc = "hijo_2" /\ proc'[n].cmd = Tail(proc[p].cmd)
                    /\ proc'[n].padre = p /\ proc'[n].fd = proc[p].fd /\ proc'[n].pipefd = p
  BY <1>1, <1>3 DEF Nace
<1>7. ASSUME LineaClara(linea)
      PROVE  \E T : \E i \in 1 .. Len(Orden) : \E f :
                /\ Orden \in Seq(T) /\ i < Len(Orden) /\ i + 1 \in 1 .. Len(Orden)
                /\ f = proc[p].fd /\ f = [x \in 0 .. 2 |-> f[x]] /\ f[1] = TTY /\ f[2] = TTY
                /\ proc[p].cmd = Desde(i) /\ Tail(proc[p].cmd) = Desde(i + 1)
  <2>1. PICK T : Orden \in Seq(T)
    BY <1>7, OrdenDatos
  <2>2. Eslabon(p)
    BY <1>5, <1>7 DEF Linajes
  <2>3a. PICK i \in 1 .. Len(Orden) : \E f : Antes(p, f) /\ Cola(p, i, f) /\ i < Len(Orden)
    BY <1>3, <2>1, <2>2, PipeCola
  <2>3. PICK f : Antes(p, f) /\ Cola(p, i, f) /\ i < Len(Orden)
    BY <2>3a
  <2>4. f = proc[p].fd /\ f = [x \in 0 .. 2 |-> f[x]] /\ f[1] = TTY /\ f[2] = TTY
    BY <1>2, <2>3 DEF Antes, Cola
  <2>5. proc[p].cmd = Desde(i) /\ Tail(proc[p].cmd) = Desde(i + 1)
    <3>1. proc[p].cmd = Desde(i)
      BY <2>3 DEF Cola
    <3> QED
      BY <2>1, <2>3, <3>1, DesdeDatos
  <2>6. i + 1 \in 1 .. Len(Orden)
    BY <2>1, <2>3, LenProperties
  <2> QED
    BY <2>1, <2>3, <2>4, <2>5, <2>6
<1>8. ASSUME LineaClara(linea), n \in Pids PROVE Eslabon(n)'
  <2>1a. PICK T : \E i \in 1 .. Len(Orden) : \E f :
                /\ Orden \in Seq(T) /\ i < Len(Orden) /\ i + 1 \in 1 .. Len(Orden)
                /\ f = proc[p].fd /\ f = [x \in 0 .. 2 |-> f[x]] /\ f[1] = TTY /\ f[2] = TTY
                /\ proc[p].cmd = Desde(i) /\ Tail(proc[p].cmd) = Desde(i + 1)
    BY <1>7, <1>8
  <2>1b. PICK i \in 1 .. Len(Orden) : \E f :
                /\ Orden \in Seq(T) /\ i < Len(Orden) /\ i + 1 \in 1 .. Len(Orden)
                /\ f = proc[p].fd /\ f = [x \in 0 .. 2 |-> f[x]] /\ f[1] = TTY /\ f[2] = TTY
                /\ proc[p].cmd = Desde(i) /\ Tail(proc[p].cmd) = Desde(i + 1)
    BY <2>1a
  <2>1. PICK f :
                /\ Orden \in Seq(T) /\ i < Len(Orden) /\ i + 1 \in 1 .. Len(Orden)
                /\ f = proc[p].fd /\ f = [x \in 0 .. 2 |-> f[x]] /\ f[1] = TTY /\ f[2] = TTY
                /\ proc[p].cmd = Desde(i) /\ Tail(proc[p].cmd) = Desde(i + 1)
    BY <2>1b
  <2>2. PICK j : j = i + 1
    OBVIOUS
  <2>3. j \in 1 .. Len(Orden) /\ j - 1 = i /\ j > 1 /\ j # 1
    BY <2>1, <2>2
  <2>4. Antes(n, f)'
    BY <1>6, <1>8, <2>1 DEF Antes
  <2>5. \A x : Desde(x)' = Desde(x)
    BY DEF Desde
  <2>6. Cola(n, j, f)'
    BY <1>2, <1>4, <1>6, <1>8, <2>1, <2>2, <2>3, <2>5 DEF Cola
  <2>7. j \in 1 .. Len(Orden')
    BY <2>3
  <2> QED
    BY <1>6, <1>8, <2>4, <2>6, <2>7 DEF Eslabon
<1>9. \A q \in Pids \ {n} : Mismo(q)
  BY <1>1
<1>10. ASSUME NEW s \in Pids \ {n}, LineaClara(linea), n \in Pids, Activo(s)',
              EsPipe(proc'[n].cmd), proc'[n].cmd = proc'[s].cmd
       PROVE  FALSE
  <2>1a. PICK T : \E i \in 1 .. Len(Orden) : \E f :
                /\ Orden \in Seq(T) /\ i < Len(Orden) /\ i + 1 \in 1 .. Len(Orden)
                /\ f = proc[p].fd /\ f = [x \in 0 .. 2 |-> f[x]] /\ f[1] = TTY /\ f[2] = TTY
                /\ proc[p].cmd = Desde(i) /\ Tail(proc[p].cmd) = Desde(i + 1)
    BY <1>7, <1>10
  <2>1b. PICK i \in 1 .. Len(Orden) : \E f :
                /\ Orden \in Seq(T) /\ i < Len(Orden) /\ i + 1 \in 1 .. Len(Orden)
                /\ f = proc[p].fd /\ f = [x \in 0 .. 2 |-> f[x]] /\ f[1] = TTY /\ f[2] = TTY
                /\ proc[p].cmd = Desde(i) /\ Tail(proc[p].cmd) = Desde(i + 1)
    BY <2>1a
  <2>1. PICK f :
                /\ Orden \in Seq(T) /\ i < Len(Orden) /\ i + 1 \in 1 .. Len(Orden)
                /\ f = proc[p].fd /\ f = [x \in 0 .. 2 |-> f[x]] /\ f[1] = TTY /\ f[2] = TTY
                /\ proc[p].cmd = Desde(i) /\ Tail(proc[p].cmd) = Desde(i + 1)
    BY <2>1b
  <2>2. Activo(s) /\ proc[s].cmd = Desde(i + 1) /\ EsPipe(proc[s].cmd)
    BY <1>6, <1>9, <1>10, <2>1 DEF Activo, Mismo
  <2>3. Eslabon(s) /\ Unicos
    BY <1>10, <2>2 DEF Linajes
  <2>4a. PICK j \in 1 .. Len(Orden) : \E g : Cola(s, j, g)
    BY <2>1, <2>2, <2>3, PipeCola
  <2>4. PICK g : Cola(s, j, g)
    BY <2>4a
  <2>5. j = i + 1
    <3>1. proc[s].cmd = Desde(j)
      BY <2>4 DEF Cola
    <3>2. PICK m : m = Len(proc[s].cmd)
      OBVIOUS
    <3>3. m = Len(Orden) - j + 1
      BY <2>1, <3>1, <3>2, DesdeDatos
    <3>4. m = Len(Orden) - (i + 1) + 1
      BY <2>1, <2>2, <3>2, DesdeDatos
    <3>5. Len(Orden) \in Nat
      BY <2>1, LenProperties
    <3> QED
      BY <2>1, <3>3, <3>4, <3>5
  <2>6. PICK k : k = proc[s].padre
    OBVIOUS
  <2>7. k # SHELL /\ proc[k].cmd = Desde(i)
    <3>1. j > 1 /\ j - 1 = i
      BY <2>5
    <3> QED
      BY <2>4, <2>6, <3>1 DEF Cola
  <2>8. /\ k \in Pids /\ Activo(k) /\ EsPipe(proc[k].cmd)
        /\ proc[k].pc = "fork_2" => ~EsPipe(proc[s].cmd)
    BY <1>2, <2>2, <2>6, <2>7, PadreActivo
  <2>9. k = p
    BY <1>5, <2>1, <2>3, <2>7, <2>8 DEF Unicos
  <2> QED
    BY <1>2, <2>2, <2>8, <2>9
<1>11. n \in Pids => proc'[n].pc \notin ConHijos
  BY <1>6 DEF ConHijos
<1> QED
  BY <1>8, <1>9, <1>10, <1>11, LinajesDe

LEMMA LinajesRunCmdFork ==
    ASSUME IInv, Encargo, RunCmdFork
    PROVE  Linajes'
<1> SUFFICES ASSUME En(SHELL, "espera")', LineaClara(linea)'
             PROVE  (\A q \in Pids : Activo(q) => Eslabon(q))' /\ Unicos'
  BY DEF Linajes
<1>1. PICK n : n = Nuevo
  OBVIOUS
<1>2. /\ proc[SHELL].pc = "fork" /\ proc[SHELL].est = "vivo"
      /\ linea' = linea /\ Orden' = Orden
      /\ Mueve(SHELL) \/ Nace(SHELL, "exec_cmd", Orden)
  <2>1. /\ proc[SHELL].pc = "fork" /\ proc[SHELL].est = "vivo"
        /\ \/ proc'[SHELL].pc = "prompt"
           \/ proc'[SHELL].cmd = proc[SHELL].cmd /\ linea' = linea
        /\ Mueve(SHELL) \/ Nace(SHELL, "exec_cmd", proc[SHELL].cmd)
    BY RunCmdForkDatos DEF IInv
  <2>2. proc'[SHELL].pc = "espera"
    BY DEF En
  <2> QED
    BY <2>1, <2>2 DEF Orden
<1>3. ASSUME NEW q \in Pids \ {SHELL}, proc'[q] = proc[q] PROVE ~Activo(q)'
  <2>1. Activo(q)' => Activo(q)
    BY <1>3 DEF Activo
  <2>2. ~En(SHELL, "espera")
    BY <1>2 DEF En
  <2> QED
    BY <1>2, <2>1, <2>2, NadieActivo
<1>4. ~Activo(SHELL)'
  BY DEF Activo
<1>5. CASE Mueve(SHELL)
  <2>1. ASSUME NEW q \in Pids PROVE ~Activo(q)'
    <3>1. q # SHELL /\ proc'[q] # proc[q] => proc'[q].est # "vivo"
      BY <1>5, Registros DEF Mueve
    <3>2. proc'[q].est # "vivo" => ~Activo(q)'
      BY DEF Activo
    <3> QED
      BY <1>3, <1>4, <3>1, <3>2
  <2> QED
    BY <2>1 DEF Unicos
<1>6. CASE Nace(SHELL, "exec_cmd", Orden)
  <2>1. \A q \in Pids \ {n} : ~Activo(q)'
    BY <1>1, <1>3, <1>4, <1>6 DEF Nace
  <2>2. ASSUME n \in Pids PROVE Eslabon(n)'
    <3>1. /\ proc'[n].pc = "exec_cmd" /\ proc'[n].cmd = Orden /\ proc'[n].padre = SHELL
          /\ proc'[n].fd = proc[SHELL].fd
      BY <1>1, <1>6, <2>2 DEF Nace
    <3>2. PICK f : f = [x \in 0 .. 2 |-> TTY]
      OBVIOUS
    <3>3. /\ proc[SHELL].fd = f /\ f = [x \in 0 .. 2 |-> f[x]]
          /\ f[0] = TTY /\ f[1] = TTY /\ f[2] = TTY
      BY <1>2, <3>2 DEF Encargo
    <3>4. Antes(n, f)'
      BY <3>1, <3>3 DEF Antes
    <3>5. 1 \in 1 .. Len(Orden) /\ Desde(1) = Orden
      <4>1. LineaClara(linea) /\ En(SHELL, "fork")
        BY <1>2 DEF En
      <4>2. (\E T : Orden \in Seq(T)) /\ Len(Orden) = Etapas(linea)
        BY <4>1, OrdenDatos
      <4>3. PICK T : Orden \in Seq(T)
        BY <4>2
      <4>4. PICK S : linea \in Seq(S)
        BY <4>1, Zenon DEF LineaClara
      <4>5. Etapas(linea) \in Nat /\ Etapas(linea) >= 1
        BY <4>4, BarrasDatos
      <4>6. 1 \in 1 .. Len(Orden)
        BY <4>2, <4>5
      <4> QED
        BY <4>3, <4>6, DesdeDatos
    <3>6. Desde(1)' = Desde(1)
      BY <1>2 DEF Desde
    <3>7. Cola(n, 1, f)'
      BY <3>1, <3>3, <3>5, <3>6 DEF Cola
    <3>8. 1 \in 1 .. Len(Orden')
      BY <1>2, <3>5
    <3> QED
      BY <3>1, <3>4, <3>7, <3>8 DEF Eslabon
  <2> QED
    BY <2>1, <2>2 DEF Unicos
<1> QED
  BY <1>2, <1>5, <1>6

LEMMA LinajesNext ==
    ASSUME IInv, IInv', Encargo, Linajes, Next, ~Cd
    PROVE  Linajes'
<1>1. CASE ReadLine
  <2>1. PICK l \in Lineas : RunCmd(l) /\ En(SHELL, "prompt")
    BY <1>1 DEF ReadLine
  <2>2. proc'[SHELL].pc = "fork"
    BY <2>1, RunCmdDatos DEF IInv
  <2> QED
    BY <2>2 DEF Linajes, En
<1>2. CASE ExitShell
  <2>1. proc[SHELL].est = "vivo" /\ Termina(SHELL, EXIT_0) /\ fallos' \in Nat /\ SHELL \in Pids
    BY <1>2, ShellEsPid DEF ExitShell, En, IInv, Tipos
  <2>2. proc'[SHELL].est # "vivo"
    BY <2>1, TerminaDatos DEF IInv
  <2> QED
    BY <2>2 DEF Linajes, En
<1>3. CASE RunCmdFork
  BY <1>3, LinajesRunCmdFork
<1>4. CASE RunCmdWait
  <2>1. proc'[SHELL].pc = "prompt"
    BY <1>4, RunCmdWaitDatos DEF IInv
  <2> QED
    BY <2>1 DEF Linajes, En
<1>5. ASSUME NEW p \in Pids, SigchldHandler(p) \/ Paso(p) PROVE Linajes'
  <2>1. SUFFICES ASSUME En(SHELL, "espera")' PROVE Linajes'
    BY DEF Linajes
  <2>2. /\ ShellQuieta /\ \A q \in Pids \ {p, Nuevo} : Mismo(q)
        /\ \/ \A q \in Pids : Mismo(q)
           \/ ExecCmdExec(p) \/ Hijo1(p) \/ Hijo2(p)
           \/ Fork1(p) /\ Nace(p, "hijo_1", <<proc[p].cmd[1]>>) /\ Mismo(p)
           \/ Fork2(p) /\ Nace(p, "hijo_2", Tail(proc[p].cmd)) /\ Mismo(p)
    BY <1>5, PasoMismos DEF IInv
  <2>3. En(SHELL, "espera") /\ linea' = linea /\ Orden' = Orden
    BY <2>1, <2>2 DEF ShellQuieta, En, Orden
  <2>4. CASE \A q \in Pids : Mismo(q)
    <3>1. INIT \notin Pids
      BY ShellEsPid
    <3> QED
      BY <2>1, <2>3, <2>4, <3>1, LinajesDe
  <2> QED
    BY <2>1, <2>2, <2>3, <2>4, LinajesExec, LinajesHijo1, LinajesHijo2, LinajesFork1, LinajesFork2
<1> QED
  BY <1>1, <1>2, <1>3, <1>4, <1>5 DEF Next

LEMMA LInvNext ==
    ASSUME IInv, LInv, [Next]_vars
    PROVE  LInv'
<1>1. CASE proc' = proc /\ linea' = linea /\ status' = status
  <2>1. Encargo' /\ Ambientes'
    BY <1>1 DEF LInv, Encargo, Ambientes, Ambiente, Orden
  <2>2. Linajes'
    <3>1. \A q, i, f : /\ Antes(q, f)' = Antes(q, f) /\ Cola(q, i, f)' = Cola(q, i, f)
                       /\ Cabeza(q, i, f)' = Cabeza(q, i, f)
      BY <1>1 DEF Antes, Cola, Cabeza, Desde, Orden
    <3>2. \A q : Activo(q)' = Activo(q) /\ Eslabon(q)' = Eslabon(q)
      BY <1>1, <3>1 DEF Activo, Eslabon, Orden
    <3>3. Unicos' = Unicos /\ En(SHELL, "espera")' = En(SHELL, "espera")
      BY <1>1, <3>2 DEF Unicos, En
    <3> QED
      BY <1>1, <3>2, <3>3 DEF LInv, Linajes
  <2> QED
    BY <2>1, <2>2 DEF LInv
<1>2. CASE UNCHANGED vars \/ Cd
  BY <1>1, <1>2 DEF vars, Cd
<1>3. CASE Next /\ ~Cd
  <2>1. IInv'
    BY IInvNext
  <2> QED
    BY <1>3, <2>1, EncargoNext, AmbientesNext, LinajesNext DEF IInv, LInv
<1> QED
  BY <1>2, <1>3

LEMMA LInvInit ==
    ASSUME Init
    PROVE  LInv
<1> DEFINE s == [Libre EXCEPT !.est = "vivo", !.pgid = SHELL, !.pc = "prompt",
                              !.fd = [i \in 0 .. 2 |-> TTY], !.environ = Entorno]
<1>1. s.pc = "prompt" /\ s.fd = [i \in 0 .. 2 |-> TTY] /\ s.environ = Entorno
  BY DEF Libre
<1>2. proc = [q \in Pids |-> IF q = SHELL THEN s ELSE Libre]
  BY Zenon DEF Init
<1> HIDE DEF s
<1>3. proc[SHELL] = s /\ \A q \in Pids \ {SHELL} : proc[q].est # "vivo"
  BY <1>2, ShellEsPid, Registros
<1> QED
  BY <1>1, <1>3 DEF LInv, Encargo, Ambientes, Ambiente, Linajes, En

-----------------------------------------------------------------------------
\* Where the programs of the line have their input and their output.

\* The pipe between stage i and the next one is the one that m made.
Une(m, i) == m \in Pids /\ Activo(m) /\ EsPipe(proc[m].cmd) /\ proc[m].cmd = Desde(i)

EntraPor(i, x) ==
    /\ i = 1 => x = TTY
    /\ i > 1 => \E m : Une(m, i - 1) /\ x = Lee(m)

LEMMA EntradaCola ==
    ASSUME IInv, proc[SHELL].est = "vivo", NEW q \in Pids, Activo(q), proc[q].pc # "hijo_2",
           NEW i \in Nat, NEW f, Cola(q, i, f)
    PROVE  EntraPor(i, f[0])
<1>1. i = 1 => f[0] = TTY
  BY DEF Cola
<1>2. ASSUME i > 1 PROVE \E m : Une(m, i - 1) /\ f[0] = Lee(m)
  <2>1. PICK m : m = proc[q].padre
    OBVIOUS
  <2>2. m # SHELL /\ proc[m].cmd = Desde(i - 1) /\ f[0] = Lee(m)
    BY <1>2, <2>1 DEF Cola
  <2>3. m \in Pids /\ Activo(m) /\ EsPipe(proc[m].cmd)
    BY <2>1, <2>2, PadreActivo
  <2> QED
    BY <2>2, <2>3 DEF Une
<1> QED
  BY <1>1, <1>2 DEF EntraPor

LEMMA EntradaDe ==
    ASSUME IInv, LInv, En(SHELL, "espera"), LineaClara(linea), NEW q \in Pids, Activo(q),
           proc[q].pc \notin {"hijo_1", "hijo_2"},
           NEW i \in 1 .. Len(Orden), NEW f, Cola(q, i, f) \/ Cabeza(q, i, f)
    PROVE  EntraPor(i, f[0])
<1>1. proc[SHELL].est = "vivo" /\ i \in Nat
  BY DEF En
<1>2. CASE Cola(q, i, f)
  BY <1>1, <1>2, EntradaCola
<1>3. CASE Cabeza(q, i, f)
  <2>1. PICK k : k = proc[q].padre
    OBVIOUS
  <2>2. k # SHELL /\ proc[k].cmd = Desde(i) /\ f[0] = proc[k].fd[0]
    BY <1>3, <2>1 DEF Cabeza
  <2>3. k \in Pids /\ Activo(k) /\ EsPipe(proc[k].cmd) /\ proc[k].pc \in ConHijos
    BY <1>1, <2>1, <2>2, PadreActivo
  <2>4. Eslabon(k)
    BY <2>3 DEF LInv, Linajes
  <2>5. PICK T : Orden \in Seq(T)
    BY OrdenDatos DEF LInv
  <2>6a. PICK j \in 1 .. Len(Orden) : \E g : Antes(k, g) /\ Cola(k, j, g)
    BY <2>3, <2>4, <2>5, PipeCola
  <2>6. PICK g : Antes(k, g) /\ Cola(k, j, g)
    BY <2>6a
  <2>7. j = i
    <3>1. proc[k].cmd = Desde(j)
      BY <2>6 DEF Cola
    <3>2. PICK m : m = Len(proc[k].cmd)
      OBVIOUS
    <3>3. m = Len(Orden) - j + 1
      BY <2>5, <3>1, <3>2, DesdeDatos
    <3>4. m = Len(Orden) - i + 1
      BY <2>2, <2>5, <3>2, DesdeDatos
    <3>5. Len(Orden) \in Nat
      BY <2>5, LenProperties
    <3> QED
      BY <3>3, <3>4, <3>5
  <2>8. g = proc[k].fd /\ proc[k].pc # "hijo_2"
    BY <2>3, <2>6 DEF Antes, ConHijos
  <2>9. EntraPor(i, g[0])
    BY <1>1, <2>3, <2>6, <2>7, <2>8, EntradaCola
  <2> QED
    BY <2>2, <2>8, <2>9
<1> QED
  BY <1>2, <1>3

\* What a program of the line has: f is where its descriptors were before the
\* redirections of its stage i.
Puesto(p, i, f) ==
    LET c == proc[p].cmd[1]
    IN  /\ i \in 1 .. Etapas(linea) /\ ComoEscrita(c, linea, i, status) /\ Etapa(p) = i
        /\ f = [x \in 0 .. 2 |-> f[x]] /\ proc[p].fd = Redirigidos(f, c)
        /\ EntraPor(i, f[0]) /\ f[2] = TTY
        /\ i = Etapas(linea) => f[1] = TTY
        /\ i < Etapas(linea) => \E m : Une(m, i) /\ f[1] = Escribe(m)

LEMMA DelanteActivo ==
    ASSUME IInv, NEW p \in Delante
    PROVE  /\ p \in Pids /\ Activo(p) /\ proc[p].pc = "programa" /\ proc[p].est = "vivo"
           /\ En(SHELL, "espera")
<1>1. /\ p \in Pids /\ proc[p].pc = "programa" /\ proc[p].est = "vivo" /\ En(SHELL, "espera")
      /\ proc[p].padre # INIT /\ ~(proc[p].padre = SHELL /\ EsBack(proc[p].cmd))
  BY DEF Delante, Programas, En
<1>2. p # SHELL
  BY <1>1 DEF En
<1> QED
  BY <1>1, <1>2 DEF Activo

LEMMA PuestoDe ==
    ASSUME IInv, LInv, LineaClara(linea), NEW p \in Delante
    PROVE  \E i, f : Puesto(p, i, f)
<1>1. /\ p \in Pids /\ Activo(p) /\ proc[p].pc = "programa" /\ proc[p].est = "vivo"
      /\ En(SHELL, "espera") /\ proc[SHELL].est = "vivo"
  BY DelanteActivo DEF En
<1>2. Eslabon(p) /\ ~EsPipe(proc[p].cmd)
  BY <1>1 DEF LInv, Linajes, Ambientes, Ambiente
<1>3a. PICK i \in 1 .. Len(Orden) : \E f : Antes(p, f) /\ (Cola(p, i, f) \/ Cabeza(p, i, f))
  BY <1>2 DEF Eslabon
<1>3. PICK f : Antes(p, f) /\ (Cola(p, i, f) \/ Cabeza(p, i, f))
  BY <1>3a
<1>4. PICK T : Orden \in Seq(T)
  BY <1>1, OrdenDatos DEF LInv
<1>5. /\ Len(Orden) = Etapas(linea) /\ Etapas(linea) \in Nat
      /\ ComoEscrita(Orden[i], linea, i, status)
  BY <1>1, <1>3, OrdenDatos DEF LInv
<1>6. PICK n : n = Etapas(linea)
  OBVIOUS
<1>7. i \in 1 .. n /\ n \in Nat /\ n = Len(Orden)
  BY <1>5, <1>6
<1>8. EntraPor(i, f[0]) /\ f[2] = TTY
  <2>1. EntraPor(i, f[0])
    BY <1>1, <1>3, EntradaDe
  <2> QED
    BY <1>3, <2>1 DEF Cola, Cabeza
<1>9. /\ proc[p].cmd[1] = Orden[i]
      /\ i = n => f[1] = TTY
      /\ i < n => \E m : Une(m, i) /\ f[1] = Escribe(m)
  <2>1. CASE Cola(p, i, f)
    <3>1. proc[p].cmd = Desde(i) /\ f[1] = TTY
      BY <2>1 DEF Cola
    <3>2. PICK m : m = Len(proc[p].cmd)
      OBVIOUS
    <3>3. m = n - i + 1 /\ proc[p].cmd[1] = Orden[i]
      BY <1>3, <1>4, <1>7, <3>1, <3>2, DesdeDatos
    <3>4. ~(m > 1)
      BY <1>2, <3>2, Zenon DEF EsPipe
    <3>5. i = n
      BY <1>7, <3>3, <3>4
    <3> QED
      BY <1>7, <3>1, <3>3, <3>5
  <2>2. CASE Cabeza(p, i, f)
    <3>1. PICK m : m = proc[p].padre
      OBVIOUS
    <3>2. /\ proc[p].cmd[1] = Orden[i] /\ i < n /\ m # SHELL /\ proc[m].cmd = Desde(i)
          /\ f[1] = Escribe(m)
      BY <1>1, <1>7, <2>2, <3>1 DEF Cabeza
    <3>3. Une(m, i)
      BY <1>1, <3>1, <3>2, PadreActivo DEF Une
    <3> QED
      BY <1>7, <3>2, <3>3
  <2> QED
    BY <1>3, <2>1, <2>2
<1>10. Etapa(p) = i
  <2>1. ComoEscrita(proc[p].cmd[1], linea, i, status) /\ i \in 1 .. Etapas(linea)
    BY <1>5, <1>6, <1>7, <1>9
  <2> QED
    BY <2>1, EtapaEs DEF Etapa
<1>11. f = [x \in 0 .. 2 |-> f[x]] /\ proc[p].fd = Redirigidos(f, proc[p].cmd[1])
  BY <1>1, <1>3 DEF Antes
<1>12. ComoEscrita(proc[p].cmd[1], linea, i, status)
  BY <1>5, <1>9
<1> QED
  BY <1>6, <1>7, <1>8, <1>9, <1>10, <1>11, <1>12 DEF Puesto

-----------------------------------------------------------------------------
\* The words and the wires of a program.

\* The values that make a token an argument, as WordsAsTyped has them.
Vale(tok, st) ==
    (CASE tok.t = "palabra" -> {tok.v}
       [] tok.t = "$?" -> {ToString(st)}
       [] tok.t = "$" -> {Entorno[n] : n \in {tok.v} \cap DOMAIN Entorno}
       [] OTHER -> {}) \ {""}

LEMMA ValeDatos ==
    ASSUME NEW tok, NEW st
    PROVE  Vale(tok, st) = IF Argumento(tok, st, Entorno)
                           THEN {ExpandEnvironVar(tok, st, Entorno)} ELSE {}
<1>1. CASE tok.t = "palabra"
  <2>1. Vale(tok, st) = {tok.v} \ {""} /\ ExpandEnvironVar(tok, st, Entorno) = tok.v
    BY <1>1 DEF Vale, ExpandEnvironVar
  <2> QED
    BY <1>1, <2>1 DEF Argumento, Argumentos
<1>2. CASE tok.t = "$?"
  <2>1. Vale(tok, st) = {ToString(st)} \ {""} /\ ExpandEnvironVar(tok, st, Entorno) = ToString(st)
    BY <1>2 DEF Vale, ExpandEnvironVar
  <2> QED
    BY <1>2, <2>1 DEF Argumento, Argumentos
<1>3. CASE tok.t = "$"
  <2>1. Vale(tok, st) = {Entorno[n] : n \in {tok.v} \cap DOMAIN Entorno} \ {""}
    BY <1>3 DEF Vale
  <2>2. ExpandEnvironVar(tok, st, Entorno) =
            IF tok.v \in DOMAIN Entorno THEN Entorno[tok.v] ELSE ""
    BY <1>3 DEF ExpandEnvironVar
  <2>3. CASE tok.v \in DOMAIN Entorno
    BY <1>3, <2>1, <2>2, <2>3 DEF Argumento, Argumentos
  <2>4. CASE tok.v \notin DOMAIN Entorno
    BY <1>3, <2>1, <2>2, <2>4 DEF Argumento, Argumentos
  <2> QED
    BY <2>3, <2>4
<1>4. CASE tok.t \notin Argumentos
  BY <1>4 DEF Vale, Argumento, Argumentos
<1> QED
  BY <1>1, <1>2, <1>3, <1>4 DEF Argumentos

LEMMA WordsDe ==
    ASSUME IInv, LInv, LineaClara(linea)
    PROVE  WordsAsTyped
<1> SUFFICES ASSUME NEW p \in Delante
             PROVE  LET i == Etapa(p)
                        argv == proc[p].cmd[1].argv
                        args == {j \in DeEtapa(linea, i) : Vale(linea[j], status) # {}}
                        asigna(n) == {j \in DeEtapa(linea, i) : linea[j].t = "=" /\ linea[j].n = n}
                    IN  /\ Len(argv) = Cardinality(args)
                        /\ \A j \in args :
                            argv[Cardinality({k \in args : k <= j})] \in Vale(linea[j], status)
                        /\ \A n \in DOMAIN proc[p].environ :
                            proc[p].environ[n] = IF asigna(n) = {} THEN Entorno[n]
                                                 ELSE linea[Max(asigna(n))].v
  BY Zenon DEF WordsAsTyped, Vale
<1> DEFINE J == ArgsEtapa(linea, Etapa(p), status, Entorno)
           args == {j \in DeEtapa(linea, Etapa(p)) : Vale(linea[j], status) # {}}
<1>1. PICK i, f : Puesto(p, i, f)
  BY PuestoDe
<1>2. PICK c : c = proc[p].cmd[1]
  OBVIOUS
<1>3. ComoEscrita(c, linea, i, status) /\ Etapa(p) = i
  BY <1>1, <1>2 DEF Puesto
<1>4. args = J
  BY ValeDatos DEF ArgsEtapa
<1>5. Len(c.argv) = Cardinality(J) /\ EnSuSitio(c.argv, J, linea, status, Entorno)
  BY <1>3, Zenon DEF ComoEscrita
<1>6. ASSUME NEW j \in J
      PROVE  c.argv[Cardinality({k \in J : k <= j})] \in Vale(linea[j], status)
  <2>1. c.argv[Hasta(J, j)] = ExpandEnvironVar(linea[j], status, Entorno)
    BY <1>5 DEF EnSuSitio
  <2>2. Argumento(linea[j], status, Entorno)
    BY DEF ArgsEtapa
  <2>3. ExpandEnvironVar(linea[j], status, Entorno) \in Vale(linea[j], status)
    BY <2>2, ValeDatos
  <2> HIDE DEF J
  <2> QED
    BY <2>1, <2>3 DEF Hasta
<1>7. proc[p].environ = SetEnvironVars(Entorno, c.eargv)
  <2>1. p \in Pids /\ proc[p].pc = "programa" /\ proc[p].est = "vivo"
    BY DelanteActivo
  <2> QED
    BY <1>2, <2>1 DEF LInv, Ambientes, Ambiente
<1>8. LET e == SetEnvironVars(Entorno, c.eargv)
      IN  \A n \in DOMAIN e : e[n] = IF AsignaEtapa(linea, i, n) = {} THEN Entorno[n]
                                     ELSE linea[Max(AsignaEtapa(linea, i, n))].v
  BY <1>3, Zenon DEF ComoEscrita
<1>9. ASSUME NEW n \in DOMAIN proc[p].environ
      PROVE  proc[p].environ[n] = IF AsignaEtapa(linea, i, n) = {} THEN Entorno[n]
                                  ELSE linea[Max(AsignaEtapa(linea, i, n))].v
  BY <1>7, <1>8
<1> HIDE DEF J, args
<1>10. /\ Len(c.argv) = Cardinality(args)
       /\ \A j \in args : c.argv[Cardinality({k \in args : k <= j})] \in Vale(linea[j], status)
  BY <1>4, <1>5, <1>6, Zenon
<1> QED
  BY <1>2, <1>3, <1>9, <1>10, Zenon DEF args, AsignaEtapa

\* What the redirections of a command leave in each descriptor.
LEMMA RedirigidosSon ==
    ASSUME NEW fd, fd = [i \in 0 .. 2 |-> fd[i]], NEW s
    PROVE  /\ Redirigidos(fd, s)[0] = IF s.redir /\ s.in_file # "" THEN Archivo(s.in_file) ELSE fd[0]
           /\ Redirigidos(fd, s)[1] = IF s.redir /\ s.out_file # "" THEN Archivo(s.out_file) ELSE fd[1]
           /\ s.err_file = "" /\ (s.redir => s.out_file # "") => Redirigidos(fd, s)[2] = fd[2]
<1> DEFINE ent == IF s.in_file  # "" THEN Archivo(s.in_file)  ELSE fd[0]
           sal == IF s.out_file # "" THEN Archivo(s.out_file) ELSE fd[1]
           err == IF s.err_file = s.out_file THEN sal
                  ELSE IF s.err_file # "" THEN Archivo(s.err_file) ELSE fd[2]
<1>1. s.err_file = "" /\ s.out_file # "" => err = fd[2]
  BY Zenon
<1>2. Redirigidos(fd, s) =
        IF s.redir THEN [fd EXCEPT ![0] = ent, ![1] = sal, ![2] = err] ELSE fd
  BY Zenon DEF Redirigidos
<1>3. PICK g : g = Redirigidos(fd, s)
  OBVIOUS
<1>4. CASE s.redir
  <2> HIDE DEF ent, sal, err
  <2>1. g = Tres(fd, ent, sal, err)
    BY <1>2, <1>3, <1>4, Zenon DEF Tres
  <2>2. g[0] = ent /\ g[1] = sal /\ g[2] = err
    BY <2>1, TresDescriptores
  <2> USE DEF ent, sal
  <2> QED
    BY <1>1, <1>3, <1>4, <2>2, Zenon
<1>5. CASE ~s.redir
  BY <1>2, <1>3, <1>5, Zenon
<1> QED
  BY <1>4, <1>5

Pide(l, i, t) == \E j \in DeEtapa(l, i) : l[j].t = t
Nombrado(l, i, t, e) ==
    \E j \in DeEtapa(l, i) : /\ l[j].t = t /\ e = Archivo(l[j].v)
                             /\ \A k \in DeEtapa(l, i) : l[k].t = t => k <= j

LEMMA NombraPide ==
    ASSUME NEW l, LineaClara(l), NEW i, NEW t \in {"<", ">"}, NEW f, Nombra(f, l, i, t)
    PROVE  /\ f # "" <=> Pide(l, i, t)
           /\ Pide(l, i, t) => Nombrado(l, i, t, Archivo(f))
<1>1. \A j \in DeEtapa(l, i) : l[j].t = t => l[j].v # ""
  <2>1. \A j \in De(l, {"<", ">", "2>"}) : l[j].v # ""
    BY Zenon DEF LineaClara
  <2> QED
    BY <2>1 DEF De, DeEtapa
<1>2. f = "" \/ Pide(l, i, t)
  BY Zenon DEF Nombra, Pide
<1>3. ASSUME Pide(l, i, t)
      PROVE  \E k \in DeEtapa(l, i) : /\ l[k].t = t /\ f = l[k].v
                                      /\ \A m \in DeEtapa(l, i) : l[m].t = t => m <= k
  BY <1>3, Zenon DEF Nombra, Pide
<1>4. ASSUME Pide(l, i, t) PROVE f # "" /\ Nombrado(l, i, t, Archivo(f))
  <2>1. PICK k \in DeEtapa(l, i) : /\ l[k].t = t /\ f = l[k].v
                                   /\ \A m \in DeEtapa(l, i) : l[m].t = t => m <= k
    BY <1>3, <1>4
  <2>2. f # ""
    BY <1>1, <2>1
  <2>3. Archivo(f) = Archivo(l[k].v)
    BY <2>1
  <2> QED
    BY <2>1, <2>2, <2>3, Zenon DEF Nombrado
<1> QED
  BY <1>2, <1>4

LEMMA UltimaEs ==
    ASSUME NEW l, LineaClara(l), NEW i \in 1 .. Etapas(l)
    PROVE  (\A j \in DOMAIN l : j \notin DeEtapa(l, i + 1)) <=> i = Etapas(l)
<1> DEFINE S == Range(l)
           B == Barras(l)
<1>1. l \in Seq(S) /\ \A x \in 1 .. Etapas(l) : \E j \in DeEtapa(l, x) : TRUE
  BY Zenon DEF LineaClara, Etapas, Barras
<1> HIDE DEF S, B
<1>2. PICK n : n = Len(l)
  OBVIOUS
<1>3. PICK m : m = Etapas(l)
  OBVIOUS
<1>4. /\ n \in Nat /\ m \in Nat /\ m = 1 + Hasta(B, n) /\ DOMAIN l = 1 .. n
      /\ \A j \in B : j \in 1 .. n
  BY <1>1, <1>2, <1>3, BarrasDatos, LenProperties DEF B
<1>5. \A j \in DeEtapa(l, i + 1) : j \in 1 .. n /\ Hasta(B, j) = i + 1 - 1
  BY <1>1, <1>2, DeEtapaEs DEF B
<1>6. i \in 1 .. m
  BY <1>3
<1>7. ASSUME i = m, NEW j \in DeEtapa(l, i + 1) PROVE FALSE
  <2>1. j \in 0 .. n /\ n \in 0 .. n /\ Hasta(B, j) = i
    BY <1>4, <1>5, <1>6
  <2>2. Hasta(B, j) <= Hasta(B, n) /\ Hasta(B, n) \in Nat
    BY <1>4, <2>1, HastaDatos
  <2> QED
    BY <1>4, <1>6, <1>7, <2>1, <2>2
<1>8. ASSUME i # m PROVE \E j \in DOMAIN l : j \in DeEtapa(l, i + 1)
  <2>1. i + 1 \in 1 .. m
    BY <1>4, <1>6, <1>8
  <2>2. PICK j : j \in DeEtapa(l, i + 1)
    BY <1>1, <1>3, <2>1
  <2> QED
    BY <1>4, <1>5, <2>2
<1> QED
  BY <1>3, <1>7, <1>8

\* The input and the outputs of a program.
LEMMA CablesDe ==
    ASSUME LineaClara(linea), NEW p, NEW i, NEW f, Puesto(p, i, f)
    PROVE  /\ IF Pide(linea, i, "<") THEN Nombrado(linea, i, "<", proc[p].fd[0])
              ELSE proc[p].fd[0] = f[0]
           /\ IF Pide(linea, i, ">") THEN Nombrado(linea, i, ">", proc[p].fd[1])
              ELSE proc[p].fd[1] = f[1]
           /\ ~Pide(linea, i, "2>") /\ ~Pide(linea, i, "2>&1")
              /\ (Pide(linea, i, "<") => Pide(linea, i, ">")) => proc[p].fd[2] = f[2]
           /\ proc[p].fd[0][1] = "lee" => proc[p].fd[0] = f[0]
           /\ proc[p].fd[1][1] = "escribe" => proc[p].fd[1] = f[1]
<1>1. PICK c : c = proc[p].cmd[1]
  OBVIOUS
<1>2. PICK g : g = proc[p].fd
  OBVIOUS
<1>3. /\ ComoEscrita(c, linea, i, status) /\ f = [x \in 0 .. 2 |-> f[x]]
      /\ g = Redirigidos(f, c)
  BY <1>1, <1>2 DEF Puesto
<1>4. /\ g[0] = IF c.redir /\ c.in_file # "" THEN Archivo(c.in_file) ELSE f[0]
      /\ g[1] = IF c.redir /\ c.out_file # "" THEN Archivo(c.out_file) ELSE f[1]
      /\ c.err_file = "" /\ (c.redir => c.out_file # "") => g[2] = f[2]
  BY <1>3, RedirigidosSon
<1>5. /\ Nombra(c.in_file, linea, i, "<") /\ Nombra(c.out_file, linea, i, ">")
      /\ c.redir <=> \E j \in DeEtapa(linea, i) : linea[j].t \in {"<", ">", "2>", "2>&1"}
      /\ (\A j \in DeEtapa(linea, i) : linea[j].t \notin {"2>", "2>&1"}) => c.err_file = ""
  BY <1>3, Zenon DEF ComoEscrita
<1>6. /\ c.in_file # "" <=> Pide(linea, i, "<")
      /\ Pide(linea, i, "<") => Nombrado(linea, i, "<", Archivo(c.in_file))
  BY <1>5, NombraPide
<1>7. /\ c.out_file # "" <=> Pide(linea, i, ">")
      /\ Pide(linea, i, ">") => Nombrado(linea, i, ">", Archivo(c.out_file))
  BY <1>5, NombraPide
<1>8. /\ c.redir <=> \/ Pide(linea, i, "<") \/ Pide(linea, i, ">")
                     \/ Pide(linea, i, "2>") \/ Pide(linea, i, "2>&1")
      /\ ~Pide(linea, i, "2>") /\ ~Pide(linea, i, "2>&1") => c.err_file = ""
  BY <1>5 DEF Pide
<1>9. /\ g[0] = IF Pide(linea, i, "<") THEN Archivo(c.in_file) ELSE f[0]
      /\ g[1] = IF Pide(linea, i, ">") THEN Archivo(c.out_file) ELSE f[1]
  BY <1>4, <1>6, <1>7, <1>8, Zenon
<1>10. ~Pide(linea, i, "2>") /\ ~Pide(linea, i, "2>&1")
       /\ (Pide(linea, i, "<") => Pide(linea, i, ">")) => g[2] = f[2]
  BY <1>4, <1>7, <1>8, Zenon
<1>11. g[0][1] = "lee" => g[0] = f[0]
  <2>1. Archivo(c.in_file)[1] # "lee"
    BY DEF Archivo
  <2> QED
    BY <1>9, <2>1, Zenon
<1>12. g[1][1] = "escribe" => g[1] = f[1]
  <2>1. Archivo(c.out_file)[1] # "escribe"
    BY DEF Archivo
  <2> QED
    BY <1>9, <2>1, Zenon
<1> QED
  BY <1>2, <1>6, <1>7, <1>9, <1>10, <1>11, <1>12, Zenon

LEMMA WiresDe ==
    ASSUME IInv, LInv, LineaClara(linea)
    PROVE  WiresAsTyped
<1> SUFFICES ASSUME NEW p \in Delante
             PROVE  LET i == Etapa(p)
                        fd == proc[p].fd
                    IN  /\ IF Pide(linea, i, "<") THEN Nombrado(linea, i, "<", fd[0])
                           ELSE IF i = 1 THEN fd[0] = TTY ELSE fd[0][1] = "lee"
                        /\ IF Pide(linea, i, ">") THEN Nombrado(linea, i, ">", fd[1])
                           ELSE IF \A j \in DOMAIN linea : j \notin DeEtapa(linea, i + 1)
                                THEN fd[1] = TTY ELSE fd[1][1] = "escribe"
                        /\ ~Pide(linea, i, "2>") /\ ~Pide(linea, i, "2>&1")
                           /\ (Pide(linea, i, "<") => Pide(linea, i, ">")) => fd[2] = TTY
                        /\ \A q \in Delante : Etapa(q) = i + 1 =>
                            (fd[1][1] = "escribe" /\ proc[q].fd[0][1] = "lee"
                                => fd[1][2] = proc[q].fd[0][2])
  BY Zenon DEF WiresAsTyped, Pide, Nombrado
<1>1. PICK i, f : Puesto(p, i, f)
  BY PuestoDe
<1>2. PICK fd : fd = proc[p].fd
  OBVIOUS
<1>3. PICK n : n = Etapas(linea)
  OBVIOUS
<1>4. /\ i \in 1 .. n /\ Etapa(p) = i /\ EntraPor(i, f[0]) /\ f[2] = TTY
      /\ i = n => f[1] = TTY
      /\ i < n => \E m : Une(m, i) /\ f[1] = Escribe(m)
  BY <1>1, <1>3 DEF Puesto
<1>5. n \in Nat
  <2>1. linea \in Seq(Range(linea))
    BY Zenon DEF LineaClara
  <2> QED
    BY <1>3, <2>1, BarrasDatos
<1>6. /\ IF Pide(linea, i, "<") THEN Nombrado(linea, i, "<", fd[0]) ELSE fd[0] = f[0]
      /\ IF Pide(linea, i, ">") THEN Nombrado(linea, i, ">", fd[1]) ELSE fd[1] = f[1]
      /\ ~Pide(linea, i, "2>") /\ ~Pide(linea, i, "2>&1")
         /\ (Pide(linea, i, "<") => Pide(linea, i, ">")) => fd[2] = f[2]
      /\ fd[1][1] = "escribe" => fd[1] = f[1]
  BY <1>1, <1>2, CablesDe
<1>7. IF i = 1 THEN f[0] = TTY ELSE f[0][1] = "lee"
  <2>1. CASE i = 1
    BY <1>4, <2>1 DEF EntraPor
  <2>2. CASE i # 1
    <3>1. i > 1
      BY <1>4, <1>5, <2>2
    <3>2. PICK m : f[0] = Lee(m)
      BY <1>4, <3>1 DEF EntraPor
    <3> QED
      BY <2>2, <3>2 DEF Lee
  <2> QED
    BY <2>1, <2>2
<1>8. (\A j \in DOMAIN linea : j \notin DeEtapa(linea, i + 1)) <=> i = n
  BY <1>3, <1>4, UltimaEs
<1>9. IF i = n THEN f[1] = TTY ELSE f[1][1] = "escribe"
  <2>1. CASE i # n
    <3>1. i < n
      BY <1>4, <1>5, <2>1
    <3>2. PICK m : f[1] = Escribe(m)
      BY <1>4, <3>1
    <3> QED
      BY <2>1, <3>2 DEF Escribe
  <2> QED
    BY <1>4, <2>1
<1>10. ASSUME NEW q \in Delante, Etapa(q) = i + 1, fd[1][1] = "escribe",
              proc[q].fd[0][1] = "lee"
       PROVE  fd[1][2] = proc[q].fd[0][2]
  <2>1. PICK j, g : Puesto(q, j, g)
    BY PuestoDe
  <2>2. j = i + 1 /\ j \in 1 .. n /\ EntraPor(j, g[0])
    BY <1>3, <1>10, <2>1 DEF Puesto
  <2>3. proc[q].fd[0] = g[0] /\ fd[1] = f[1]
    BY <1>6, <1>10, <2>1, CablesDe
  <2>4. i < n /\ j > 1 /\ j - 1 = i
    BY <1>4, <1>5, <2>2
  <2>5. PICK m : Une(m, i) /\ f[1] = Escribe(m)
    BY <1>4, <2>4
  <2>6. PICK k : Une(k, i) /\ g[0] = Lee(k)
    BY <2>2, <2>4 DEF EntraPor
  <2>7. k = m
    <3>1. En(SHELL, "espera")
      BY DelanteActivo
    <3>2. Unicos
      BY <3>1 DEF LInv, Linajes
    <3> QED
      BY <2>5, <2>6, <3>2 DEF Unicos, Une
  <2> QED
    BY <2>3, <2>5, <2>6, <2>7 DEF Lee, Escribe
<1>11. \A q \in Delante : Etapa(q) = i + 1 =>
            (fd[1][1] = "escribe" /\ proc[q].fd[0][1] = "lee" => fd[1][2] = proc[q].fd[0][2])
  BY <1>10
<1> QED
  BY <1>2, <1>4, <1>6, <1>7, <1>8, <1>9, <1>11, Zenon

\* LineAsTyped, of a line that it speaks of.
Claro == LineaClara(linea) => LineAsTyped

LEMMA ClaroDe ==
    ASSUME IInv, LInv
    PROVE  Claro
  BY WiresDe, WordsDe, Zenon DEF Claro, LineAsTyped

\* LineAsTyped in each state, if the lines that can be typed are clear.
LEMMA ClarasDe ==
    ASSUME IInv, LInv, \A l \in Lineas \ {<<>>} : LineaClara(l)
    PROVE  LineAsTyped
<1>1. CASE Delante = {}
  BY <1>1, Zenon DEF LineAsTyped, WiresAsTyped, WordsAsTyped
<1>2. CASE Delante # {}
  <2>1. En(SHELL, "espera")
    BY <1>2, DelanteActivo
  <2>2. linea \in Lineas \ {<<>>}
    BY <2>1 DEF LInv, Encargo, En
  <2>3. LineaClara(linea)
    BY <2>2
  <2> QED
    BY <2>3, WiresDe, WordsDe, Zenon DEF LineAsTyped
<1> QED
  BY <1>1, <1>2

-----------------------------------------------------------------------------
\* The inductive invariant holds for any lines and any number of processes: pids
\* are handed out in order (fork), the ends of a pipe go where exec_cmd moves
\* them, and a process has no more children than it has waits to come.
THEOREM InvariantTheorem == Spec => []IInv
<1>1. Init => IInv
  BY IInvInit
<1>2. IInv /\ [Next]_vars => IInv'
  BY IInvNext
<1> QED
  BY <1>1, <1>2, PTL DEF Spec

\* A program that reads a pipe is never left waiting for the end of its input by
\* a write end that exec_cmd forgot to close, in itself, in the process that made
\* the pipe or in a second writer, in pipes of any length.
THEOREM PipeEndsOwnedTheorem == Spec => []PipeEndsOwned
<1>1. IInv => PipeEndsOwned
  BY PipeEndsOwnedDeIInv
<1> QED
  BY <1>1, InvariantTheorem, PTL

\* The prompt does not come back while a process of a line in the foreground is
\* alive or not reaped, whichever of waitpid and sigchld_handler got to it first.
THEOREM ForegroundDoneTheorem == Spec => []ForegroundDone
<1>1. IInv => ForegroundDone
  BY ForegroundDoneDeIInv
<1> QED
  BY <1>1, InvariantTheorem, PTL

\* Each process of the line in the foreground is a link of one chain: it has the
\* stages that exec_cmd left it, reads what its parent's pipe or input gives and
\* writes where exec_cmd moved its output; what the shell runs is what parse_line
\* made of the line; and the variables of a program are those of the shell under
\* those of its own stage.
THEOREM ChainTheorem == Spec => []LInv
<1>1. Init => LInv
  BY LInvInit
<1>2. IInv /\ LInv /\ [Next]_vars => LInv'
  BY LInvNext
<1> QED
  BY <1>1, <1>2, InvariantTheorem, PTL DEF Spec

\* Of any clear line, the stages of any number that run at once have the arguments,
\* the variables, the files and the pipes that the line asks for: parse_line and
\* split_line cut it there, parse_exec sorts its tokens, exec_cmd joins each
\* neighbour with its own pipe, and open_redir_fd and set_environ_vars end it.
THEOREM ClearLineTheorem == Spec => [](LineaClara(linea) => LineAsTyped)
<1>1. IInv /\ LInv => (LineaClara(linea) => LineAsTyped)
  BY ClaroDe, Zenon DEF Claro
<1> QED
  BY <1>1, InvariantTheorem, ChainTheorem, PTL

\* The invariant that the runs check, of any set of clear lines (MCShell assumes
\* of its lines that they are clear, and TLC evaluates it).
THEOREM LineAsTypedTheorem ==
    ASSUME \A l \in Lineas \ {<<>>} : LineaClara(l)
    PROVE  Spec => []LineAsTyped
<1>1. IInv /\ LInv => LineAsTyped
  BY ClarasDe
<1> QED
  BY <1>1, InvariantTheorem, ChainTheorem, PTL
=============================================================================
