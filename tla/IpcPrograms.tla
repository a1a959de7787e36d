---------------------------- MODULE IpcPrograms ----------------------------
(***************************************************************************)
(* The programs of scheduler/user that talk to each other, over module Ipc:*)
(* primes, pingpong and sendpage, each of which knows what it will print,  *)
(* and fairness.  pingpongs stops at once: sfork is not implemented.       *)
(*                                                                         *)
(* What a program does between two calls is one step, together with the    *)
(* beginning of the next call.                                             *)
(***************************************************************************)
EXTENDS Ipc, SequencesExt

CONSTANTS
    PROGRAMAS,      \* the programs of user/ that are started
    MAX_ENTERO      \* the generator of primes stops after it (bound)

ASSUME ProgramsAssumption ==
    /\ PROGRAMAS \subseteq {"primes", "pingpong", "sendpage", "fairness"}
    /\ {"str1", "str2"} \subseteq Contents
    /\ 0 .. MAX_ENTERO \subseteq Values /\ 0 .. 10 \subseteq Values
    /\ 0 \in Envs

VARIABLES
    programa,   \* what runs
    prog,       \* where each environment is in it: pc; id, the environment it
                \* talks to; n, its number (i of main, p of primeproc, i)
    salida      \* what the programs have printed with cprintf

vars == <<ipcVars, programa, prog, salida>>

MAIN == 0               \* the environment that env_create makes

\* fairness: "Start three instances of this program"; MAIN is the one they
\* send to.  What the slots' last owners left is the same in every slot (bound).
PInit ==
    /\ programa \in PROGRAMAS
    /\ env_status = [e \in Envs |->
          IF e = MAIN \/ (programa = "fairness" /\ e < 3) THEN "RUNNABLE" ELSE "FREE"]
    /\ env_ipc_from = [e \in Envs |-> MAIN]
    /\ env_ipc_value = [e \in Envs |-> 0]
    /\ \E usado \in BOOLEAN :
        /\ env_ipc_perm = [e \in Envs |-> usado]
        /\ env_ipc_dstva = [e \in Envs |-> IF usado THEN PAGINA ELSE NULL]
    /\ Init
    /\ prog = [e \in Envs |-> [pc |-> programa, id |-> NADA, n |-> 0]]
    /\ salida = <<>>

\* e is at point p of the program, outside the library.
At(e, p) == InUser(e) /\ prog[e].pc = p

Moves(e, p, id, n) == prog' = [prog EXCEPT ![e] = [pc |-> p, id |-> id, n |-> n]]

\* fork: the child goes on at point q, the parent at p with its id; panic when
\* the table is full.
Forks(e, q, p) ==
    /\ \/ \E c \in Envs :
            /\ Fork(e, c)
            /\ prog' = [prog EXCEPT ![e] = [@ EXCEPT !.pc = p, !.id = c],
                                    ![c] = [pc |-> q, id |-> e, n |-> 0]]
       \/ /\ \A c \in Envs : env_status[c] # "FREE"
          /\ Panics(e)
          /\ UNCHANGED <<kernelVars, thisenv, pageVars, ret, prog>>
    /\ UNCHANGED <<programa, salida>>

\* ipc_recv, going on at p.
Receives(e, pg, p) ==
    /\ IpcRecv(e, pg)
    /\ Moves(e, p, prog[e].id, prog[e].n)
    /\ UNCHANGED <<programa, salida>>

\* The end of umain: exit().
Exits(e) ==
    /\ Die(e)
    /\ UNCHANGED <<programa, prog, salida>>

-----------------------------------------------------------------------------
\* user/primes.c

PrimesMain(e) == At(e, "primes") /\ Forks(e, "top", "feed")

\* for (i = 2;; i++) ipc_send(id, i, 0, 0)
PrimesFeed(e) ==
    LET i == IF prog[e].n = 0 THEN 2 ELSE prog[e].n IN
    /\ At(e, "feed")
    /\ i <= MAX_ENTERO
    /\ IpcSend(e, prog[e].id, i, UTOP)
    /\ Moves(e, "feed", prog[e].id, i + 1)
    /\ UNCHANGED <<programa, salida>>

PrimesTop(e) == At(e, "top") /\ Receives(e, NULL, "got_prime")

\* p = ipc_recv(...), and its cprintf.
PrimesGot(e) ==
    /\ At(e, "got_prime")
    /\ salida' = Append(salida, ret[e].value)
    /\ Moves(e, "fork", NADA, ret[e].value)
    /\ UNCHANGED <<ipcVars, programa>>

PrimesFork(e) == At(e, "fork") /\ Forks(e, "top", "filter")

PrimesFilter(e) == At(e, "filter") /\ Receives(e, NULL, "test")

\* if (i % p) ipc_send(id, i, 0, 0)
PrimesTest(e) ==
    /\ At(e, "test")
    /\ IF ret[e].value % prog[e].n # 0
       THEN IpcSend(e, prog[e].id, ret[e].value, UTOP)
       ELSE UNCHANGED ipcVars
    /\ Moves(e, "filter", prog[e].id, prog[e].n)
    /\ UNCHANGED <<programa, salida>>

Primes(e) == \/ PrimesMain(e) \/ PrimesFeed(e) \/ PrimesTop(e) \/ PrimesGot(e)
             \/ PrimesFork(e) \/ PrimesFilter(e) \/ PrimesTest(e)

-----------------------------------------------------------------------------
\* user/pingpong.c

PingpongMain(e) == At(e, "pingpong") /\ Forks(e, "receive", "ball")

\* "get the ball rolling"
PingpongBall(e) ==
    /\ At(e, "ball")
    /\ IpcSend(e, prog[e].id, 0, UTOP)
    /\ Moves(e, "receive", prog[e].id, 0)
    /\ UNCHANGED <<programa, salida>>

PingpongReceive(e) == At(e, "receive") /\ prog[e].n # 10 /\ Receives(e, NULL, "got")

\* i = ipc_recv(&who, 0, 0), its cprintf, and the answer unless i is 10.
PingpongGot(e) ==
    LET i == ret[e].value IN
    /\ At(e, "got")
    /\ salida' = Append(salida, i)
    /\ IF i = 10 THEN Moves(e, "exit", NADA, i) /\ UNCHANGED ipcVars
       ELSE /\ IpcSend(e, ret[e].from, i + 1, UTOP)
            /\ Moves(e, "receive", ret[e].from, i + 1)
    /\ UNCHANGED programa

PingpongExit(e) ==
    /\ At(e, "exit") \/ (At(e, "receive") /\ prog[e].n = 10)
    /\ Exits(e)

Pingpong(e) == \/ PingpongMain(e) \/ PingpongBall(e) \/ PingpongReceive(e)
               \/ PingpongGot(e) \/ PingpongExit(e)

-----------------------------------------------------------------------------
\* user/sendpage.c: the parent's page, TEMP_ADDR, and the child's,
\* TEMP_ADDR_CHILD, are one frame after the first message.

SendpageMain(e) == At(e, "sendpage") /\ Forks(e, "child_receives", "alloc")

SendpageAlloc(e) ==
    /\ At(e, "alloc")
    /\ PageAlloc(e)
    /\ Moves(e, "write", prog[e].id, 0)
    /\ UNCHANGED <<programa, salida>>

\* memcpy(TEMP_ADDR, str1), memcpy(TEMP_ADDR_CHILD, str2)
SendpageWrite(e) ==
    /\ At(e, "write") \/ At(e, "child_writes")
    /\ Write(e, IF prog[e].pc = "write" THEN "str1" ELSE "str2")
    /\ Moves(e, IF prog[e].pc = "write" THEN "send" ELSE "child_sends", prog[e].id, 0)
    /\ UNCHANGED <<programa, salida>>

SendpageSend(e) ==
    /\ At(e, "send") \/ At(e, "child_sends")
    /\ IpcSend(e, prog[e].id, 0, PAGINA)
    /\ Moves(e, IF prog[e].pc = "send" THEN "parent_receives" ELSE "end", prog[e].id, 0)
    /\ UNCHANGED <<programa, salida>>

SendpageReceive(e) ==
    \/ At(e, "parent_receives") /\ Receives(e, PAGINA, "parent_got")
    \/ At(e, "child_receives") /\ Receives(e, PAGINA, "child_got")

\* "%x got message from %x: %s"
SendpageGot(e) ==
    /\ At(e, "parent_got") \/ At(e, "child_got")
    /\ salida' = Append(salida, contenido[mapa[e]])
    /\ Moves(e, IF prog[e].pc = "child_got" THEN "child_writes" ELSE "end", ret[e].from, 0)
    /\ UNCHANGED <<ipcVars, programa>>

SendpageExit(e) == At(e, "end") /\ Exits(e)

Sendpage(e) == \/ SendpageMain(e) \/ SendpageAlloc(e) \/ SendpageWrite(e)
               \/ SendpageSend(e) \/ SendpageReceive(e) \/ SendpageGot(e)
               \/ SendpageExit(e)

-----------------------------------------------------------------------------
\* user/fairness.c: one receives for ever, the others send to it for ever.  In
\* this model they may ask for a page, at a place that is refused too, have
\* pages and send them, and any of them may be killed.

FairnessReceive(e) ==
    /\ At(e, "fairness") /\ e = MAIN
    /\ \E pg \in Destinations : Receives(e, pg, "fairness")

FairnessSend(e) ==
    /\ At(e, "fairness") /\ e # MAIN
    /\ \E srcva \in Sources : IpcSend(e, MAIN, e, srcva)
    /\ UNCHANGED <<programa, prog, salida>>

FairnessAlloc(e) ==
    /\ At(e, "fairness") /\ e # MAIN /\ mapa[e] = NADA
    /\ PageAlloc(e)
    /\ UNCHANGED <<programa, prog, salida>>

FairnessKilled(e) ==
    /\ programa = "fairness"
    /\ Exits(e)

Fairness(e) == FairnessReceive(e) \/ FairnessSend(e) \/ FairnessAlloc(e)

-----------------------------------------------------------------------------
\* What e does next: in the library, or in its program.
Step(e) == \/ LibStep(e) /\ UNCHANGED <<programa, prog, salida>>
           \/ Primes(e) \/ Pingpong(e) \/ Sendpage(e) \/ Fairness(e)

PNext == \E e \in Envs : Step(e) \/ FairnessKilled(e)

\* A runnable environment runs (Kernel's RunnableRuns) and a program goes on.
Spec == PInit /\ [][PNext]_vars /\ \A e \in Envs : WF_vars(Step(e))

-----------------------------------------------------------------------------
\* Properties

Primos == SelectSeq([i \in 1 .. MAX_ENTERO - 1 |-> i + 1],
                    LAMBDA n : \A d \in 2 .. n - 1 : n % d # 0)

\* What a program prints.  The last environment of primes that fits into the
\* table prints its prime and fails to fork (primes.c:6).
Expected ==
    CASE programa = "primes"   -> SubSeq(Primos, 1, Cardinality(Envs) - 1)
      [] programa = "pingpong" -> [i \in 1 .. 11 |-> i - 1]
      [] programa = "sendpage" -> <<"str1", "str2">>
      [] programa = "fairness" -> <<>>

\* grade-lab4:141: the programs print these lines, all of them, in this order and
\* no others, although the lines come from different environments.
PrintsAll == <>[](salida = Expected)

\* fairness.c: "lack of fairness": of two senders one may never be served; but a
\* receiver is, as long as anybody sends to it.
SomebodyIsServed ==
    \A r \in Envs :
        (lib[r].pc = "recv" /\ \E s \in Envs : Sending(s) /\ lib[s].to = r)
            ~> \/ lib[r].pc # "recv"
               \/ env_ipc_recving[r] /\ ~\E s \in Envs : Sending(s) /\ lib[s].to = r
=============================================================================
