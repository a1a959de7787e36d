-------------------------------- MODULE Shell --------------------------------
(***************************************************************************)
(* The processes of the shell (shell/sh.c, runcmd.c, builtin.c, exec.c,    *)
(* printstatus.c): the shell at its prompt, the children that run exec_cmd *)
(* on a command until they become a program, the pipes between them and    *)
(* the handler of SIGCHLD, which the children inherit.                     *)
(*                                                                         *)
(* The system under them is modelled from how the code uses it: fork,      *)
(* waitpid, wait, setpgid, pipe, dup2, execvp, exit and the delivery of    *)
(* SIGCHLD at any moment.  When a handler and a blocked waitpid are both   *)
(* due for the same child, either may come first.                          *)
(*                                                                         *)
(* Paths are whole and resolved, so that getcwd gives back what chdir was  *)
(* given.  The files' contents and the heap are left out.                  *)
(***************************************************************************)
EXTENDS Integers, FiniteSets, ShellParse

CONSTANTS
    NPID,           \* pids are 1 .. NPID and are not used twice
    Lineas,         \* the lines that may be typed, as sequences of tokens
    Directorios,    \* the directories that chdir accepts
    Entorno,        \* the environment that the shell starts with
    Clase,          \* the kind of each program there is, see ProgramaTermina,
    Salidas,        \* and the wait statuses with which it may end by itself
    Inexistentes,   \* the files that open(2) refuses
    MAX_FALLOS      \* how many times fork may fail

Pids  == 1 .. NPID
SHELL == 1
INIT  == 0          \* the process that adopts and reaps orphans
FALLO == -1         \* what fork returns when it fails

ASSUME ShellAssumption ==
    /\ NPID \in Nat /\ NPID >= 1 /\ MAX_FALLOS \in Nat
    /\ \A l \in Lineas \ {<<>>} : \A s \in Range(ParseLine(l, 0, Entorno)) : s.argv # <<>>
    /\ "HOME" \in DOMAIN Entorno
    /\ \A c \in DOMAIN Clase : Salidas[c] \subseteq Nat

VARIABLES
    proc,           \* the processes, dead ones included
    linea,          \* the line being run, <<>> at the prompt
    hijo,           \* p of run_cmd
    status,         \* the global status: $?
    cwd,            \* the directory of the shell
    fallos          \* the forks that have failed

vars == <<proc, linea, hijo, status, cwd, fallos>>

TTY            == <<"tty", "">>
CERRADO        == <<"cerrado", "">>
Archivo(f)     == <<"archivo", f>>
Lee(k)         == <<"lee", k>>          \* the ends of the pipe that process k made
Escribe(k)     == <<"escribe", k>>

Libre == [est |-> "libre", padre |-> INIT, pgid |-> 0, bg_pgid |-> 0, pc |-> "",
          cmd |-> <<>>, fd |-> [i \in 0 .. 2 |-> CERRADO], extremos |-> {},
          pipefd |-> 0, sigchld |-> FALSE, salida |-> 0, environ |-> <<>>]

Vivos      == {q \in Pids : proc[q].est = "vivo"}
Zombis(p)  == {q \in Pids : proc[q].est = "zombi" /\ proc[q].padre = p}
Hijos(p)   == {q \in Pids : proc[q].est \in {"vivo", "zombi"} /\ proc[q].padre = p}
Nuevo      == 1 + Cardinality({q \in Pids : proc[q].est # "libre"})

\* p is alive and its next statement is pc.
En(p, pc) == proc[p].est = "vivo" /\ proc[p].pc = pc

Cosechado == [Libre EXCEPT !.est = "cosechado"]

\* What fork gives the child, which goes on at pc with the command c.
Bifurcado(p, pc, c) ==
    [proc[p] EXCEPT !.padre = p, !.pc = pc, !.cmd = c, !.sigchld = FALSE]

\* Process p ends with the wait status st: its descriptors are closed, its
\* parent is told and its children pass to init.
Termina(p, st) ==
    LET r == proc[p]
    IN  proc' = [q \in Pids |->
            IF q = p
            THEN IF r.padre = INIT THEN Cosechado
                 ELSE [Libre EXCEPT !.est = "zombi", !.padre = r.padre, !.pgid = r.pgid,
                                    !.cmd = r.cmd, !.salida = st]
            ELSE IF q = r.padre /\ proc[q].est = "vivo"
            THEN [proc[q] EXCEPT !.sigchld = TRUE]
            ELSE IF q \in Hijos(p)
            THEN IF proc[q].est = "zombi" THEN Cosechado
                 ELSE [proc[q] EXCEPT !.padre = INIT]
            ELSE proc[q]]

\* Wait statuses: exit(n) is n * 256, death by a signal is its number.
EXIT_0   == 0
EXIT_255 == 255 * 256       \* exit(-1), _exit(-1)
SIGPIPE  == 13

\* init_shell: the shell goes to $HOME if it can, else it stays where it was.
INICIO == "inicio"
InitShell == IF Entorno["HOME"] \in Directorios THEN Entorno["HOME"] ELSE INICIO

Init ==
    /\ proc = [q \in Pids |->
                IF q = SHELL
                THEN [Libre EXCEPT !.est = "vivo", !.pgid = SHELL, !.pc = "prompt",
                                   !.fd = [i \in 0 .. 2 |-> TTY],
                                   !.environ = Entorno]
                ELSE Libre]
    /\ linea = <<>> /\ hijo = 0 /\ status = 0 /\ cwd = InitShell /\ fallos = 0

-----------------------------------------------------------------------------
\* The shell.

EsPipe(c) == Len(c) > 1
EsBack(c) == Len(c) = 1 /\ c[1].back

\* The directory that chdir goes to on the lines "cd" and "cd directory", in
\* whose text no variable is expanded: none when chdir fails.
Destino(l) ==
    {d \in Directorios : \/ l = <<Palabra("cd"), Palabra(d)>>
                         \/ l = <<Palabra("cd")>> /\ d = Entorno["HOME"]}

\* cd.  When chdir fails cd returns 0, as if the line had been another command.
Cd ==
    /\ En(SHELL, "prompt")
    /\ \E l \in Lineas : cwd' \in Destino(l)
    /\ UNCHANGED <<proc, linea, hijo, status, fallos>>

\* The lines that run_cmd is done with at once: the empty one, a cd that
\* succeeds, "exit", and "history" and "pwd", which change nothing.
EsInterno(l) ==
    \/ l \in {<<>>, <<Palabra("history")>>, <<Palabra("pwd")>>, <<Palabra("exit")>>}
    \/ Destino(l) # {}

\* run_cmd up to fork, on a line that is a command.
RunCmd(l) ==
    LET parsed == ParseLine(l, status, Entorno)
    IN  /\ ~EsInterno(l)
        /\ Nuevo + 2 * (Len(parsed) - 1) \in Pids
        /\ linea' = l
        /\ proc' = [proc EXCEPT ![SHELL].pc = "fork", ![SHELL].cmd = parsed]
        /\ UNCHANGED <<hijo, status, cwd, fallos>>

\* read_line.  A line is typed while there are pids for it.
ReadLine == En(SHELL, "prompt") /\ \E l \in Lineas : RunCmd(l)

\* "exit" or the end of the input.
ExitShell ==
    /\ En(SHELL, "prompt")
    /\ Termina(SHELL, EXIT_0)
    /\ UNCHANGED <<linea, hijo, status, cwd, fallos>>

FreeCommand(f) == [f EXCEPT ![SHELL].cmd = <<>>]

\* Back at the prompt, the command freed.
AlPrompt(f) == [FreeCommand(f) EXCEPT ![SHELL].pc = "prompt"]

\* fork in run_cmd.  Its result is not tested against an error.
RunCmdFork ==
    LET c == proc[SHELL].cmd
        sigue(f, p) ==
            IF EsBack(c)
            THEN proc' = AlPrompt(f) /\ linea' = <<>> /\ hijo' = 0
            ELSE proc' = [f EXCEPT ![SHELL].pc = "espera"] /\ linea' = linea /\ hijo' = p
    IN  /\ En(SHELL, "fork")
        /\ \/ /\ sigue([proc EXCEPT ![Nuevo] = Bifurcado(SHELL, "exec_cmd", c)], Nuevo)
              /\ UNCHANGED fallos
           \/ /\ fallos < MAX_FALLOS /\ fallos' = fallos + 1
              /\ sigue(proc, FALLO)
        /\ UNCHANGED <<status, cwd>>

\* print_status_info: the wait status becomes the value of $?.
Informado(st) ==
    IF st % 128 = 0 THEN (st \div 256) % 256        \* WIFEXITED
    ELSE IF st % 128 # 127 THEN -(st % 128)         \* WIFSIGNALED
    ELSE -((st \div 256) % 256)

\* Mistake: the shell goes on waiting for a child that the handler has reaped.
RunCmdWaitSinECHILD ==
    /\ En(SHELL, "espera")
    /\ \E z \in Zombis(SHELL) :
        /\ hijo \in {z, FALLO}
        /\ proc' = AlPrompt([proc EXCEPT ![z] = Cosechado])
        /\ status' = IF EsPipe(proc[SHELL].cmd) THEN proc[z].salida
                     ELSE Informado(proc[z].salida)
    /\ linea' = <<>> /\ hijo' = 0
    /\ UNCHANGED <<cwd, fallos>>

\* waitpid(p, &status, 0) and print_status_info.  With p = -1 any child will do;
\* with no such child waitpid fails and leaves status as it was.
RunCmdWait ==
    LET esperados == IF hijo = FALLO THEN Hijos(SHELL) ELSE Hijos(SHELL) \cap {hijo}
        informa(st) == IF EsPipe(proc[SHELL].cmd) THEN st ELSE Informado(st)
    IN  /\ En(SHELL, "espera")
        /\ \/ \E z \in esperados \cap Zombis(SHELL) :
                /\ proc' = AlPrompt([proc EXCEPT ![z] = Cosechado])
                /\ status' = informa(proc[z].salida)
           \/ /\ esperados = {}
              /\ proc' = AlPrompt(proc)
              /\ status' = informa(status)
        /\ linea' = <<>> /\ hijo' = 0
        /\ UNCHANGED <<cwd, fallos>>

-----------------------------------------------------------------------------
\* sigchld_handler, in the shell or in a child that has not become a program:
\* waitpid(-bg_pgid, ...), where 0 is the caller's own group.
SigchldHandler(p) ==
    LET grupo == IF proc[p].bg_pgid = 0 THEN proc[p].pgid ELSE proc[p].bg_pgid
    IN  /\ proc[p].est = "vivo" /\ proc[p].sigchld
        /\ proc' = [q \in Pids |->
                IF q = p THEN [proc[p] EXCEPT !.sigchld = FALSE]
                ELSE IF q \in Zombis(p) /\ proc[q].pgid = grupo THEN Cosechado
                ELSE proc[q]]
        /\ UNCHANGED <<linea, hijo, status, cwd, fallos>>

-----------------------------------------------------------------------------
\* exec_cmd, in a child.

\* BACK, before the command in it.
ExecCmdBack(p) ==
    /\ En(p, "exec_cmd") /\ EsBack(proc[p].cmd)
    /\ LET bg == IF proc[p].bg_pgid = 0 THEN p ELSE proc[p].bg_pgid
       IN  proc' = [proc EXCEPT ![p].bg_pgid = bg, ![p].pgid = bg, ![p].pc = "redir"]
    /\ UNCHANGED <<linea, hijo, status, cwd, fallos>>

EnEtapa(p) ==
    \/ En(p, "redir")
    \/ En(p, "exec_cmd") /\ ~EsPipe(proc[p].cmd) /\ ~EsBack(proc[p].cmd)

\* The descriptors after the redirections of a REDIR command.
Redirigidos(fd, s) ==
    LET ent == IF s.in_file  # "" THEN Archivo(s.in_file)  ELSE fd[0]
        sal == IF s.out_file # "" THEN Archivo(s.out_file) ELSE fd[1]
        err == IF s.err_file = s.out_file THEN sal
               ELSE IF s.err_file # "" THEN Archivo(s.err_file) ELSE fd[2]
    IN  IF s.redir THEN [fd EXCEPT ![0] = ent, ![1] = sal, ![2] = err] ELSE fd

NoAbre(s)    == {s.in_file, s.out_file, s.err_file} \cap Inexistentes # {}
NoEjecuta(s) == s.argv[1] \notin DOMAIN Clase

\* The last value that the tokens give to the variable n.
UltimoValor(eargv, n) == eargv[SelectLastInSeq(eargv, LAMBDA x : x.n = n)].v

\* Mistake: the value that a variable has already stays.
SetEnvironVarsSinPisar(environ, eargv) ==
    LET nombres == {eargv[k].n : k \in DOMAIN eargv}
    IN  [n \in DOMAIN environ \cup nombres |->
            IF n \in DOMAIN environ THEN environ[n] ELSE UltimoValor(eargv, n)]

\* set_environ_vars: the last value given to a name is the one it has.
SetEnvironVars(environ, eargv) ==
    LET nombres == {eargv[k].n : k \in DOMAIN eargv}
    IN  [n \in DOMAIN environ \cup nombres |->
            IF n \in nombres THEN UltimoValor(eargv, n) ELSE environ[n]]

\* REDIR and EXEC: the program runs.
ExecCmdExec(p) ==
    /\ EnEtapa(p)
    /\ LET s == proc[p].cmd[1]
       IN  /\ ~NoAbre(s) /\ ~NoEjecuta(s)
           /\ proc' = [proc EXCEPT ![p].fd = Redirigidos(@, s), ![p].pc = "programa",
                                   ![p].environ = SetEnvironVars(@, s.eargv)]
    /\ UNCHANGED <<linea, hijo, status, cwd, fallos>>

\* REDIR and EXEC: a file is not opened, or execvp fails.
ExecCmdFalla(p) ==
    /\ EnEtapa(p)
    /\ LET s == proc[p].cmd[1] IN NoAbre(s) \/ NoEjecuta(s)
    /\ Termina(p, EXIT_255)
    /\ UNCHANGED <<linea, hijo, status, cwd, fallos>>

\* PIPE: pipe(pipefd).
ExecCmdPipe(p) ==
    /\ En(p, "exec_cmd") /\ EsPipe(proc[p].cmd)
    /\ proc' = [proc EXCEPT ![p].extremos = @ \cup {Lee(p), Escribe(p)},
                            ![p].pipefd = p, ![p].pc = "fork_1"]
    /\ UNCHANGED <<linea, hijo, status, cwd, fallos>>

\* A fork in exec_cmd that fails ends the process.
ForkFalla(p) ==
    /\ fallos < MAX_FALLOS /\ fallos' = fallos + 1
    /\ Termina(p, EXIT_255)

\* Mistake: the parent keeps the write end.
Fork1SinCerrar(p) ==
    /\ En(p, "fork_1")
    /\ \/ /\ proc' = [proc EXCEPT
                ![Nuevo] = Bifurcado(p, "hijo_1", <<proc[p].cmd[1]>>),
                ![p].pc = "fork_2"]
          /\ UNCHANGED fallos
       \/ ForkFalla(p)
    /\ UNCHANGED <<linea, hijo, status, cwd>>

\* The first fork; the parent closes the write end.
Fork1(p) ==
    /\ En(p, "fork_1")
    /\ \/ /\ proc' = [proc EXCEPT
                ![Nuevo] = Bifurcado(p, "hijo_1", <<proc[p].cmd[1]>>),
                ![p].extremos = @ \ {Escribe(p)}, ![p].pc = "fork_2"]
          /\ UNCHANGED fallos
       \/ ForkFalla(p)
    /\ UNCHANGED <<linea, hijo, status, cwd>>

\* The second fork; the parent closes the read end.
Fork2(p) ==
    /\ En(p, "fork_2")
    /\ \/ /\ proc' = [proc EXCEPT
                ![Nuevo] = Bifurcado(p, "hijo_2", Tail(proc[p].cmd)),
                ![p].extremos = @ \ {Lee(p)}, ![p].pc = "wait_1"]
          /\ UNCHANGED fallos
       \/ ForkFalla(p)
    /\ UNCHANGED <<linea, hijo, status, cwd>>

Hijo1(p) ==
    /\ En(p, "hijo_1")
    /\ LET k == proc[p].pipefd
       IN  proc' = [proc EXCEPT ![p].fd[1] = Escribe(k),
                                ![p].extremos = @ \ {Lee(k), Escribe(k)},
                                ![p].pc = "exec_cmd"]
    /\ UNCHANGED <<linea, hijo, status, cwd, fallos>>

Hijo2(p) ==
    /\ En(p, "hijo_2")
    /\ LET k == proc[p].pipefd
       IN  proc' = [proc EXCEPT ![p].fd[0] = Lee(k), ![p].extremos = @ \ {Lee(k)},
                                ![p].pc = "exec_cmd"]
    /\ UNCHANGED <<linea, hijo, status, cwd, fallos>>

\* wait(NULL), twice: any child, or none when there are no children.
PipeWait(p, pc, sig) ==
    /\ En(p, pc)
    /\ \/ \E z \in Zombis(p) : proc' = [proc EXCEPT ![z] = Cosechado, ![p].pc = sig]
       \/ Hijos(p) = {} /\ proc' = [proc EXCEPT ![p].pc = sig]
    /\ UNCHANGED <<linea, hijo, status, cwd, fallos>>

\* Mistake: one wait for the two children.
PipeWaitsUna(p) == PipeWait(p, "wait_1", "exit")

PipeWaits(p) == PipeWait(p, "wait_1", "wait_2") \/ PipeWait(p, "wait_2", "exit")

\* exec_cmd returns to run_cmd, which exits.  (The second child of a PIPE whose
\* command was a PIPE waits twice more on the way, for no children.)
ExitHijo(p) ==
    /\ En(p, "exit")
    /\ Termina(p, EXIT_0)
    /\ UNCHANGED <<linea, hijo, status, cwd, fallos>>

-----------------------------------------------------------------------------
\* The programs.  Nothing in the model depends on what is written.

Extremos(q) == proc[q].extremos \cup {proc[q].fd[i] : i \in 0 .. 2}

SinEscritores(e) == e[1] = "lee" => \A q \in Vivos : Escribe(e[2]) \notin Extremos(q)
SinLectores(e)   == e[1] = "escribe" /\ \A q \in Vivos : Lee(e[2]) \notin Extremos(q)

\* A "corto" ends by itself; a "filtro" ends when its input does; a
\* "filtro" and a "fuente", which never ends by itself, write until nobody reads.
ProgramaTermina(p) ==
    /\ En(p, "programa")
    /\ LET argv_0 == proc[p].cmd[1].argv[1]
           clase  == Clase[argv_0]
           fd     == proc[p].fd
       IN  \/ /\ clase = "corto" \/ (clase = "filtro" /\ SinEscritores(fd[0]))
              /\ \E st \in Salidas[argv_0] : Termina(p, st)
           \/ clase \in {"filtro", "fuente"} /\ SinLectores(fd[1]) /\ Termina(p, SIGPIPE)
    /\ UNCHANGED <<linea, hijo, status, cwd, fallos>>

-----------------------------------------------------------------------------
Paso(p) ==
    \/ ExecCmdBack(p) \/ ExecCmdExec(p) \/ ExecCmdFalla(p) \/ ExecCmdPipe(p)
    \/ Fork1(p) \/ Fork2(p) \/ Hijo1(p) \/ Hijo2(p) \/ PipeWaits(p) \/ ExitHijo(p)
    \/ ProgramaTermina(p)

Next ==
    \/ Cd \/ ReadLine \/ ExitShell \/ RunCmdFork \/ RunCmdWait
    \/ \E p \in Pids : SigchldHandler(p) \/ Paso(p)

\* The system runs every process that can run; the shell at its prompt may be
\* left there.
Corre(p) ==
    \/ SigchldHandler(p) \/ Paso(p)
    \/ p = SHELL /\ (RunCmdFork \/ RunCmdWait)

Fairness == \A p \in Pids : WF_vars(Corre(p))

Spec == Init /\ [][Next]_vars /\ Fairness

-----------------------------------------------------------------------------
\* At the prompt nothing is left of the lines run in the foreground, alive or
\* not reaped, whether waitpid or the handler took each child: all that is left
\* is the children of '&' lines and what a pipe without its second process
\* abandoned (run_cmd, the PIPE case of exec_cmd and sigchld_handler).
ForegroundDone ==
    En(SHELL, "prompt") =>
        \A q \in Pids \ {SHELL} : proc[q].est \in {"vivo", "zombi"} =>
            \/ proc[q].padre = SHELL /\ EsBack(proc[q].cmd)
            \/ proc[q].padre = INIT /\ fallos > 0

\* The tokens of stage i of a line, by their positions.
DeEtapa(l, i) ==
    {j \in DOMAIN l : /\ l[j].t # "|"
                      /\ Cardinality({b \in 1 .. j : l[b].t = "|"}) = i - 1}

\* The lines that LineAsTyped speaks of: in each stage the program comes before
\* its other arguments and no other stage names it; a file has a name; nothing
\* follows an '&' in its stage.
LineaClara(l) ==
    /\ l \in Seq(Range(l))
    /\ \A i \in 1 .. 1 + Cardinality(De(l, {"|"})) : \E j \in DeEtapa(l, i) :
        /\ l[j] = Palabra(l[j].v) /\ l[j].v # ""
        /\ \A k \in DeEtapa(l, i) : k < j =>
            \/ l[k].t \notin Argumentos
            \/ l[k].t = "$" /\ ExpandEnvironVar(l[k], 0, Entorno) = ""
        /\ \A k \in DOMAIN l \ DeEtapa(l, i) : l[k] # l[j]
    /\ \A j \in De(l, {"<", ">", "2>"}) : l[j].v # ""
    /\ \A j \in De(l, {"&"}) : j = Len(l) \/ l[j + 1].t = "|"

Programas == {p \in Pids : En(p, "programa")}

\* The programs of the line in the foreground.
Delante == {p \in Programas : /\ En(SHELL, "espera") /\ hijo # FALLO
                              /\ proc[p].padre # INIT
                              /\ ~(proc[p].padre = SHELL /\ EsBack(proc[p].cmd))}

\* Its stage in the line, if that is a LineaClara.
Etapa(p) == CHOOSE i \in DOMAIN linea :
                \E j \in DeEtapa(linea, i) : linea[j] = Palabra(proc[p].cmd[1].argv[1])

\* A program of the line in the foreground has its input and output where the
\* line says: in the last file named by '<' or '>' in its stage, else in the
\* pipe that joins it to its neighbour and to no other, else in the terminal;
\* and its errors in the terminal when nothing asks otherwise.  (A stage with
\* '<' and no '>' has them in its output; see exec.c:187.)
WiresAsTyped ==
    \A p \in Delante :
        LET i == Etapa(p)
            ultima == \A j \in DOMAIN linea : j \notin DeEtapa(linea, i + 1)
            nombrado(t, e) == \E j \in DeEtapa(linea, i) :
                /\ linea[j].t = t /\ e = Archivo(linea[j].v)
                /\ \A k \in DeEtapa(linea, i) : linea[k].t = t => k <= j
            pide(t) == \E j \in DeEtapa(linea, i) : linea[j].t = t
            fd == proc[p].fd
        IN  /\ IF pide("<") THEN nombrado("<", fd[0])
               ELSE IF i = 1 THEN fd[0] = TTY ELSE fd[0][1] = "lee"
            /\ IF pide(">") THEN nombrado(">", fd[1])
               ELSE IF ultima THEN fd[1] = TTY ELSE fd[1][1] = "escribe"
            /\ ~pide("2>") /\ ~pide("2>&1") /\ (pide("<") => pide(">")) => fd[2] = TTY
            /\ \A q \in Delante : Etapa(q) = i + 1 =>
                (fd[1][1] = "escribe" /\ proc[q].fd[0][1] = "lee"
                    => fd[1][2] = proc[q].fd[0][2])

\* A program of the line in the foreground has the arguments that its stage of
\* the line asks for: '$?' is the result of the line before and a variable
\* without a value is no argument.  It has the variables
\* that its own stage assigns, over those of the shell.
WordsAsTyped ==
    \A p \in Delante :
        LET i == Etapa(p)
            argv == proc[p].cmd[1].argv
            vale(j) == (CASE linea[j].t = "palabra" -> {linea[j].v}
                          [] linea[j].t = "$?" -> {ToString(status)}
                          [] linea[j].t = "$" ->
                                {Entorno[n] : n \in {linea[j].v} \cap DOMAIN Entorno}
                          [] OTHER -> {}) \ {""}
            args == {j \in DeEtapa(linea, i) : vale(j) # {}}
            asigna(n) == {j \in DeEtapa(linea, i) : linea[j].t = "=" /\ linea[j].n = n}
        IN  /\ Len(argv) = Cardinality(args)
            /\ \A j \in args : argv[Cardinality({k \in args : k <= j})] \in vale(j)
            /\ \A n \in DOMAIN proc[p].environ :
                proc[p].environ[n] = IF asigna(n) = {} THEN Entorno[n]
                                     ELSE linea[Max(asigna(n))].v

LineAsTyped == WiresAsTyped /\ WordsAsTyped

\* A program has no pipe but in its three descriptors, and the write end of the
\* pipe that it reads is in one process at most, not the program itself nor the
\* one that made the pipe: otherwise the end of its input would never come.
PipeEndsOwned ==
    \A p \in Programas :
        /\ proc[p].extremos = {}
        /\ \A k \in Pids : proc[p].fd[0] = Lee(k) =>
            LET escritores == {q \in Vivos : Escribe(k) \in Extremos(q)}
            IN  Cardinality(escritores) <= 1 /\ escritores \cap {p, k} = {}

\* The prompt comes back: no line waits for ever, when its programs end with
\* their input and on SIGPIPE, even if some forks fail.
PromptReturns == En(SHELL, "espera") ~> ~En(SHELL, "espera")

\* What the tests expect of $?: after a line that is not a pipe nor in the
\* background, one of the results that its program may have.
StatusIsOutcome ==
    [][ En(SHELL, "espera") /\ hijo \in Pids /\ ~EsPipe(proc[SHELL].cmd) /\ hijo' = 0
        => \E st \in Salidas[proc[SHELL].cmd[1].argv[1]] : status' = Informado(st) ]_vars
=============================================================================
