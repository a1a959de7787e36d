----------------------------- MODULE IpcProofs -----------------------------
(***************************************************************************)
(* Ipc implements Rendezvous, for any environments, values and pages, and  *)
(* programs that call ipc_send and ipc_recv in any order.                  *)
(*                                                                         *)
(* The invariant says what a receiver may rely on between the wake-up by a *)
(* sender and its own three reads: nobody can open it again, so nobody     *)
(* writes its fields.                                                      *)
(***************************************************************************)
EXTENDS Ipc, TLAPS

TypeOK ==
    /\ env_status \in [Envs -> {"FREE", "RUNNABLE", "NOT_RUNNABLE"}]
    /\ env_ipc_recving \in [Envs -> BOOLEAN]
    /\ env_ipc_from \in [Envs -> Envs]
    /\ env_ipc_value \in [Envs -> Values]
    /\ env_ipc_perm \in [Envs -> BOOLEAN]
    /\ env_ipc_dstva \in [Envs -> {NULL, PAGINA}]
    /\ thisenv = [e \in Envs |-> e]
    /\ mapa \in [Envs -> Frames \cup {NADA}]
    /\ lib \in [Envs -> Calls]

\* A slot on the free list is not in the library.
FreeIsOut == \A e \in Envs : env_status[e] = "FREE" => lib[e] = USER

\* In the system call: open exactly while it is blocked.
OpenWhileBlocked ==
    \A e \in Envs : lib[e].pc = "recv" =>
        /\ env_ipc_dstva[e] = lib[e].pg
        /\ env_status[e] = "NOT_RUNNABLE" <=> env_ipc_recving[e]

\* After it: closed, and what it has read is still there.
ClosedWhileReading ==
    \A e \in Envs : lib[e].pc \in {"perm", "value"} =>
        /\ ~env_ipc_recving[e]
        /\ lib[e].from = env_ipc_from[e]
        /\ lib[e].pc = "value" => lib[e].perm = env_ipc_perm[e]

IInv == TypeOK /\ FreeIsOut /\ OpenWhileBlocked /\ ClosedWhileReading

-----------------------------------------------------------------------------
\* What lib[e] can be.
LEMMA CallShapes ==
    ASSUME NEW k \in Calls
    PROVE  /\ k.pc \in {"user", "panic", "try", "yield", "recv", "perm", "value"}
           /\ k.pc = "user" <=> k = USER
           /\ k.pc \in {"try", "yield"} =>
                /\ k.to \in Envs /\ k.value \in Values /\ k.srcva \in Sources
           /\ k.pc \in {"recv", "perm", "value"} => k.pg \in {NULL, PAGINA}
           /\ k.pc \in {"perm", "value"} => k.from \in Envs
           /\ k.pc = "value" => k.perm \in BOOLEAN
  BY DEF Calls, USER, PANIC

\* The points that the actions go to.
LEMMA CallsMade ==
    /\ USER \in Calls /\ PANIC \in Calls /\ USER.pc = "user" /\ PANIC.pc = "panic"
    /\ \A to \in Envs, value \in Values, srcva \in Sources :
         [pc |-> "try", to |-> to, value |-> value, srcva |-> srcva] \in Calls
    /\ \A pg \in {NULL, PAGINA} : [pc |-> "recv", pg |-> pg] \in Calls
    /\ \A pg \in {NULL, PAGINA}, from \in Envs :
         [pc |-> "perm", pg |-> pg, from |-> from] \in Calls
    /\ \A pg \in {NULL, PAGINA}, from \in Envs, perm \in BOOLEAN :
         [pc |-> "value", pg |-> pg, from |-> from, perm |-> perm] \in Calls
  BY DEF Calls, USER, PANIC

\* The loop of ipc_send keeps its arguments.
LEMMA CallLoops ==
    ASSUME NEW k \in Calls, k.pc \in {"try", "yield"}, NEW p \in {"try", "yield"}
    PROVE  LET m == [k EXCEPT !.pc = p]
           IN  m \in Calls /\ m.pc = p /\ m.to = k.to /\ m.value = k.value
               /\ m.srcva = k.srcva
<1>1. k \in [pc : {"try", "yield"}, to : Envs, value : Values, srcva : Sources]
  BY DEF Calls, USER, PANIC
<1> QED
  BY <1>1 DEF Calls

-----------------------------------------------------------------------------
\* The invariant

\* Steps of e that leave the kernel's fields, the pages' places and thisenv alone.
LEMMA InvMoves ==
    ASSUME IInv, NEW e \in Envs, NEW k \in Calls, Goto(e, k),
           UNCHANGED <<kernelVars, thisenv>>,
           mapa' \in [Envs -> Frames \cup {NADA}],
           env_status[e] # "FREE",
           k.pc # "recv",
           k.pc \in {"perm", "value"} =>
             /\ ~env_ipc_recving[e]
             /\ k.from = env_ipc_from[e]
             /\ k.pc = "value" => k.perm = env_ipc_perm[e]
    PROVE  IInv'
<1>1. TypeOK'
  BY DEF IInv, TypeOK, Goto, kernelVars
<1>2. \A x \in Envs : lib'[x] = IF x = e THEN k ELSE lib[x]
  BY DEF Goto, IInv, TypeOK
<1>3. FreeIsOut'
  BY <1>2 DEF IInv, FreeIsOut, kernelVars
<1>4. OpenWhileBlocked'
  BY <1>2 DEF IInv, OpenWhileBlocked, kernelVars
<1>5. ClosedWhileReading'
  BY <1>2 DEF IInv, ClosedWhileReading, kernelVars
<1> QED
  BY <1>1, <1>3, <1>4, <1>5 DEF IInv

\* The end of a send: e serves an environment that is open.
LEMMA InvDeliver ==
    ASSUME IInv, NEW e \in Envs, OpenTry(e), NEW perm \in BOOLEAN, Deliver(e, perm),
           UNCHANGED thisenv, mapa' \in [Envs -> Frames \cup {NADA}]
    PROVE  IInv'
<1> DEFINE d == lib[e].to
<1>1. d \in Envs /\ lib[e].value \in Values /\ lib[e] \in Calls /\ lib[e].pc = "try"
      /\ USER \in Calls /\ USER.pc = "user"
  BY CallShapes, CallsMade DEF IInv, TypeOK, OpenTry, Try
<1>2. env_status[d] # "FREE" /\ env_ipc_recving[d] /\ env_status[e] = "RUNNABLE"
  BY DEF OpenTry, Try, Active
<1> HIDE DEF d
<1>3. /\ \A x \in Envs : lib'[x] = IF x = e THEN USER ELSE lib[x]
      /\ env_status' = [env_status EXCEPT ![d] = "RUNNABLE"]
      /\ env_ipc_recving' = [env_ipc_recving EXCEPT ![d] = FALSE]
      /\ env_ipc_from' = [env_ipc_from EXCEPT ![d] = e]
      /\ env_ipc_perm' = [env_ipc_perm EXCEPT ![d] = perm]
      /\ UNCHANGED env_ipc_dstva
  BY DEF Deliver, Goto, IInv, TypeOK, d
<1>4. TypeOK'
  BY <1>1 DEF IInv, TypeOK, Deliver, Goto, d
<1>5. lib[d].pc \notin {"perm", "value"}
  BY <1>1, <1>2 DEF IInv, ClosedWhileReading
<1>6. FreeIsOut'
  BY <1>1, <1>2, <1>3 DEF IInv, FreeIsOut, TypeOK
<1>7. OpenWhileBlocked'
  BY <1>1, <1>2, <1>3 DEF IInv, OpenWhileBlocked, TypeOK
<1>8. ClosedWhileReading'
  BY <1>1, <1>2, <1>3, <1>5 DEF IInv, ClosedWhileReading, TypeOK
<1> QED
  BY <1>4, <1>6, <1>7, <1>8 DEF IInv

LEMMA InvSend ==
    ASSUME IInv, NEW e \in Envs, SysIpcTrySend(e)
    PROVE  IInv'
<1>1. lib[e] \in Calls /\ lib[e].pc = "try" /\ lib[e].to \in Envs
      /\ env_status[e] = "RUNNABLE"
  BY CallShapes DEF SysIpcTrySend, TrySendClosed, TrySendValue, TrySendPage,
     TrySendUnmapped, OpenTry, Try, Active, IInv, TypeOK
<1>2. /\ PANIC \in Calls /\ PANIC.pc = "panic"
      /\ [lib[e] EXCEPT !.pc = "yield"] \in Calls
      /\ [lib[e] EXCEPT !.pc = "yield"].pc = "yield"
  BY <1>1, CallsMade, CallLoops
<1>3. ASSUME Fails(e, PANIC) \/ Fails(e, [lib[e] EXCEPT !.pc = "yield"]),
             UNCHANGED thisenv, mapa' \in [Envs -> Frames \cup {NADA}]
      PROVE  IInv'
  BY <1>1, <1>2, <1>3, InvMoves DEF Fails
<1>4. mapa \in [Envs -> Frames \cup {NADA}]
      /\ \A d \in Envs, f \in Frames \cup {NADA} :
            [mapa EXCEPT ![d] = f] \in [Envs -> Frames \cup {NADA}]
      /\ env_ipc_perm[lib[e].to] \in BOOLEAN
  BY <1>1 DEF IInv, TypeOK
<1>5. CASE TrySendClosed(e)
  BY <1>3, <1>4, <1>5 DEF TrySendClosed, pageVars
<1>6. CASE TrySendValue(e)
  BY <1>4, <1>6, InvDeliver DEF TrySendValue, pageVars
<1>7. CASE TrySendPage(e)
  <2>1. mapa[e] \in Frames \cup {NADA}
    BY <1>4
  <2>2. mapa' \in [Envs -> Frames \cup {NADA}] /\ UNCHANGED thisenv /\ OpenTry(e)
    BY <1>1, <1>4, <1>7, <2>1 DEF TrySendPage
  <2>3. Fails(e, PANIC) \/ (\E perm \in BOOLEAN : Deliver(e, perm))
    BY <1>4, <1>7 DEF TrySendPage
  <2> QED
    BY <1>3, <2>2, <2>3, InvDeliver
<1>8. CASE TrySendUnmapped(e)
  <2>1. mapa' \in [Envs -> Frames \cup {NADA}] /\ UNCHANGED thisenv /\ OpenTry(e)
    BY <1>1, <1>4, <1>8 DEF TrySendUnmapped, pageVars, Libres
  <2>2. Fails(e, PANIC) \/ (\E perm \in BOOLEAN : Deliver(e, perm))
    BY <1>4, <1>8 DEF TrySendUnmapped
  <2> QED
    BY <1>3, <2>1, <2>2, InvDeliver
<1> QED
  BY <1>5, <1>6, <1>7, <1>8 DEF SysIpcTrySend

LEMMA InvLibrary ==
    ASSUME IInv, NEW e \in Envs, LibStep(e)
    PROVE  IInv'
<1>0. /\ lib[e] \in Calls /\ mapa \in [Envs -> Frames \cup {NADA}]
      /\ thisenv[e] = e /\ env_ipc_from[e] \in Envs /\ env_ipc_perm[e] \in BOOLEAN
  BY DEF IInv, TypeOK
<1>1. CASE Yield(e)
  <2>1. [lib[e] EXCEPT !.pc = "try"] \in Calls /\ [lib[e] EXCEPT !.pc = "try"].pc = "try"
    BY <1>0, <1>1, CallLoops DEF Yield
  <2> QED
    BY <1>0, <1>1, <2>1, InvMoves DEF Yield, Active, pageVars
<1>2. CASE ReadFrom(e)
  <2> DEFINE k == [pc |-> "perm", pg |-> lib[e].pg, from |-> env_ipc_from[thisenv[e]]]
  <2>1. k \in Calls /\ k.pc = "perm" /\ k.from = env_ipc_from[e]
    BY <1>0, <1>2, CallShapes, CallsMade DEF ReadFrom
  <2>2. ~env_ipc_recving[e]
    BY <1>2 DEF ReadFrom, Active, IInv, OpenWhileBlocked, TypeOK
  <2>3. Goto(e, k) /\ UNCHANGED <<kernelVars, thisenv, mapa>> /\ env_status[e] # "FREE"
    BY <1>2 DEF ReadFrom, Active, pageVars
  <2> HIDE DEF k
  <2> QED
    BY <1>0, <2>1, <2>2, <2>3, InvMoves
<1>3. CASE ReadPerm(e)
  <2> DEFINE k == [pc |-> "value", pg |-> lib[e].pg, from |-> lib[e].from,
                   perm |-> env_ipc_perm[thisenv[e]]]
  <2>1. ~env_ipc_recving[e] /\ lib[e].from = env_ipc_from[e]
    BY <1>3 DEF ReadPerm, IInv, ClosedWhileReading
  <2>2. k \in Calls /\ k.pc = "value" /\ k.from = env_ipc_from[e]
        /\ k.perm = env_ipc_perm[e]
    BY <1>0, <1>3, <2>1, CallShapes, CallsMade DEF ReadPerm
  <2>3. Goto(e, k) /\ UNCHANGED <<kernelVars, thisenv, mapa>> /\ env_status[e] # "FREE"
    BY <1>3 DEF ReadPerm, Active, pageVars
  <2> HIDE DEF k
  <2> QED
    BY <1>0, <2>1, <2>2, <2>3, InvMoves
<1>4. CASE ReadValue(e)
  BY <1>0, <1>4, CallsMade, InvMoves DEF ReadValue, Active, pageVars
<1> QED
  BY <1>1, <1>2, <1>3, <1>4, InvSend DEF LibStep

LEMMA InvUser ==
    ASSUME IInv, NEW e \in Envs, UserStep(e)
    PROVE  IInv'
<1>0. /\ lib[e] \in Calls /\ mapa \in [Envs -> Frames \cup {NADA}]
      /\ lib \in [Envs -> Calls] /\ env_status[e] = "RUNNABLE" /\ lib[e] = USER
      /\ USER \in Calls /\ USER.pc = "user"
  BY CallsMade DEF IInv, TypeOK, UserStep, PageAlloc, Write, Fork, IpcRecv, IpcSend,
     InUser, Active
<1>1. CASE PageAlloc(e) \/ \E x \in Contents : Write(e, x)
  <2>1. mapa' \in [Envs -> Frames \cup {NADA}] /\ UNCHANGED <<kernelVars, thisenv, lib>>
    BY <1>0, <1>1 DEF PageAlloc, Write, Libres
  <2>2. Goto(e, USER)
    BY <1>0, <2>1 DEF Goto
  <2> QED
    BY <1>0, <2>1, <2>2, InvMoves
<1>2. ASSUME NEW c \in Envs, Fork(e, c) PROVE IInv'
  <2>1. lib[c] = USER /\ UNCHANGED <<lib, mapa, env_ipc_from, env_ipc_perm, env_ipc_dstva>>
        /\ env_status[c] = "FREE"
    BY <1>2 DEF Fork, IInv, FreeIsOut, pageVars
  <2>2. TypeOK'
    BY <1>2 DEF Fork, IInv, TypeOK, pageVars
  <2>3. FreeIsOut'
    BY <1>2, <2>1 DEF Fork, IInv, FreeIsOut, TypeOK
  <2>4. OpenWhileBlocked' /\ ClosedWhileReading'
    BY <1>0, <1>2, <2>1 DEF Fork, IInv, OpenWhileBlocked, ClosedWhileReading, TypeOK
  <2> QED
    BY <2>2, <2>3, <2>4 DEF IInv
<1>3. ASSUME NEW pg \in Destinations, IpcRecv(e, pg) PROVE IInv'
  <2> DEFINE k == [pc |-> "recv", pg |-> pg]
  <2>1. CASE pg = INVALID
    <3>1. /\ env_ipc_recving' = [env_ipc_recving EXCEPT ![e] = TRUE]
          /\ UNCHANGED <<env_status, env_ipc_dstva, lib, env_ipc_from, env_ipc_value,
                         env_ipc_perm, thisenv, mapa>>
      BY <1>3, <2>1 DEF IpcRecv, RecvRefused, pageVars
    <3>2. TypeOK'
      BY <3>1 DEF IInv, TypeOK
    <3>3. FreeIsOut' /\ OpenWhileBlocked' /\ ClosedWhileReading'
      BY <1>0, <3>1 DEF IInv, TypeOK, FreeIsOut, OpenWhileBlocked, ClosedWhileReading
    <3> QED
      BY <3>2, <3>3 DEF IInv
  <2>2. CASE pg # INVALID
    <3>1. k \in Calls /\ k.pc = "recv" /\ k.pg = pg /\ pg \in {NULL, PAGINA}
      BY <2>2, CallsMade DEF Destinations
    <3>2. /\ lib' = [lib EXCEPT ![e] = k]
          /\ env_ipc_recving' = [env_ipc_recving EXCEPT ![e] = TRUE]
          /\ env_ipc_dstva' = [env_ipc_dstva EXCEPT ![e] = pg]
          /\ env_status' = [env_status EXCEPT ![e] = "NOT_RUNNABLE"]
          /\ UNCHANGED <<env_ipc_from, env_ipc_value, env_ipc_perm, thisenv, mapa>>
      BY <1>3, <2>2 DEF IpcRecv, RecvBlocks, Goto, pageVars
    <3> HIDE DEF k
    <3>3. TypeOK'
      BY <3>1, <3>2 DEF IInv, TypeOK
    <3>4. FreeIsOut'
      BY <1>0, <3>2 DEF IInv, FreeIsOut, TypeOK
    <3>5. OpenWhileBlocked'
      BY <1>0, <3>1, <3>2 DEF IInv, OpenWhileBlocked, TypeOK
    <3>6. ClosedWhileReading'
      BY <1>0, <3>1, <3>2 DEF IInv, ClosedWhileReading, TypeOK
    <3> QED
      BY <3>3, <3>4, <3>5, <3>6 DEF IInv
  <2> QED
    BY <2>1, <2>2
<1>4. ASSUME NEW to \in Envs, NEW value \in Values, NEW srcva \in Sources,
             IpcSend(e, to, value, srcva)
      PROVE  IInv'
  <2> DEFINE k == [pc |-> "try", to |-> to, value |-> value, srcva |-> srcva]
  <2>1. k \in Calls /\ k.pc = "try" /\ Goto(e, k)
    BY <1>4, CallsMade DEF IpcSend
  <2> HIDE DEF k
  <2> QED
    BY <1>0, <1>4, <2>1, InvMoves DEF IpcSend, pageVars
<1> QED
  BY <1>1, <1>2, <1>3, <1>4 DEF UserStep

LEMMA InvDie ==
    ASSUME IInv, NEW e \in Envs, Die(e)
    PROVE  IInv'
<1>0. lib \in [Envs -> Calls] /\ USER \in Calls /\ USER.pc = "user"
  BY CallsMade DEF IInv, TypeOK
<1>1. TypeOK'
  BY <1>0 DEF Die, IInv, TypeOK, Goto
<1>2. FreeIsOut'
  BY <1>0 DEF Die, IInv, FreeIsOut, TypeOK, Goto
<1>3. OpenWhileBlocked' /\ ClosedWhileReading'
  BY <1>0 DEF Die, IInv, OpenWhileBlocked, ClosedWhileReading, TypeOK, Goto
<1> QED
  BY <1>1, <1>2, <1>3 DEF IInv

\* A receiver that has been served finds its message where the sender put it until
\* it has read all of it, and is open to nobody else meanwhile.
THEOREM IpcInvariant == IpcSpec => []IInv
<1>1. Init => IInv
  BY CallsMade DEF Init, IInv, TypeOK, FreeIsOut, OpenWhileBlocked, ClosedWhileReading
<1>2. IInv /\ [IpcNext]_ipcVars => IInv'
  <2>1. IInv /\ UNCHANGED ipcVars => IInv'
    BY DEF ipcVars, IInv, TypeOK, FreeIsOut, OpenWhileBlocked, ClosedWhileReading
  <2> QED
    BY <2>1, InvLibrary, InvUser, InvDie DEF IpcNext
<1> QED
  BY <1>1, <1>2, PTL DEF IpcSpec

-----------------------------------------------------------------------------
\* The steps of Rendezvous

\* An environment that nobody touched looks the same.
LEMMA Untouched ==
    ASSUME NEW x \in Envs, lib'[x] = lib[x], env_ipc_recving'[x] = env_ipc_recving[x],
           env_status'[x] = "FREE" <=> env_status[x] = "FREE",
           env_ipc_from'[x] = env_ipc_from[x], env_ipc_value'[x] = env_ipc_value[x],
           env_ipc_perm'[x] = env_ipc_perm[x], mapa'[x] = mapa[x]
    PROVE  Offers(x)' = Offers(x) /\ Asks(x)' = Asks(x) /\ Handed(x)' = Handed(x)
  BY DEF Offers, Asks, Handed, Sending, InRecv

\* Outside the library; in ipc_send.
LEMMA OutLooks ==
    ASSUME NEW x \in Envs, lib[x].pc \in {"user", "panic"}
    PROVE  /\ Offers(x) = NADA /\ Handed(x) = NADA
           /\ Asks(x) = IF env_status[x] # "FREE" /\ env_ipc_recving[x]
                        THEN "refused" ELSE "no"
  BY DEF Offers, Asks, Handed, Sending, InRecv

LEMMA SendLooks ==
    ASSUME NEW x \in Envs, lib[x].pc \in {"try", "yield"}
    PROVE  /\ Offers(x) = [to |-> lib[x].to, value |-> lib[x].value,
                           paged |-> lib[x].srcva = PAGINA]
           /\ Handed(x) = NADA
           /\ Asks(x) = IF env_status[x] # "FREE" /\ env_ipc_recving[x]
                        THEN "refused" ELSE "no"
  BY DEF Offers, Asks, Handed, Sending, InRecv

\* In ipc_recv.
LEMMA RecvLooks ==
    ASSUME NEW x \in Envs, lib[x].pc \in {"recv", "perm", "value"}
    PROVE  /\ Offers(x) = NADA
           /\ Asks(x) = IF lib[x].pg = PAGINA THEN "page" ELSE "value"
           /\ Handed(x) = IF env_ipc_recving[x] THEN NADA
                ELSE [from |-> env_ipc_from[x], value |-> env_ipc_value[x],
                      page |-> IF lib[x].pg = PAGINA /\ env_ipc_perm[x]
                               THEN mapa[x] ELSE NADA]
  BY DEF Offers, Asks, Handed, Sending, InRecv

\* The abstract state of environment x is as before.
Igual(x) == Offers(x)' = Offers(x) /\ Asks(x)' = Asks(x) /\ Handed(x)' = Handed(x)

\* A stutter of Rendezvous.
LEMMA Stutters ==
    ASSUME \A x \in Envs : Igual(x), UNCHANGED <<mapa, ret>>
    PROVE  UNCHANGED Rdv!rvars
<1>1. UNCHANGED [e \in Envs |-> Offers(e)]
  BY DEF Igual
<1>2. UNCHANGED [e \in Envs |-> Asks(e)]
  BY DEF Igual
<1>3. UNCHANGED [e \in Envs |-> Handed(e)]
  BY DEF Igual
<1> QED
  BY <1>1, <1>2, <1>3 DEF Rdv!rvars

\* One environment's abstract state changes.
LEMMA OneMoves ==
    ASSUME NEW e \in Envs, \A x \in Envs : x # e => Igual(x)
    PROVE  /\ [x \in Envs |-> Offers(x)]'
                = [[x \in Envs |-> Offers(x)] EXCEPT ![e] = Offers(e)']
           /\ [x \in Envs |-> Asks(x)]'
                = [[x \in Envs |-> Asks(x)] EXCEPT ![e] = Asks(e)']
           /\ [x \in Envs |-> Handed(x)]'
                = [[x \in Envs |-> Handed(x)] EXCEPT ![e] = Handed(e)']
  BY DEF Igual

\* PageAlloc gets the program a page.
LEMMA StepAlloc ==
    ASSUME IInv, NEW e \in Envs, PageAlloc(e)
    PROVE  Rdv!Map(e)
<1>1. lib[e].pc = "user" /\ UNCHANGED <<kernelVars, lib, ret>>
      /\ \E f \in Frames : mapa' = [mapa EXCEPT ![e] = f]
  BY CallsMade DEF PageAlloc, InUser, Libres
<1>2. \A x \in Envs : x # e => Igual(x)
  BY <1>1, Untouched DEF Igual, kernelVars
<1>3. Igual(e)
  BY <1>1 DEF Igual, kernelVars, Offers, Asks, Handed, Sending, InRecv
<1>4. UNCHANGED [x \in Envs |-> Offers(x)] /\ UNCHANGED [x \in Envs |-> Asks(x)]
      /\ UNCHANGED [x \in Envs |-> Handed(x)]
  BY <1>2, <1>3 DEF Igual
<1>5. Offers(e) = NADA /\ Asks(e) \notin {"value", "page"}
  BY <1>1, OutLooks
<1> QED
  BY <1>1, <1>4, <1>5 DEF Rdv!Map, Rdv!Idle, Rdv!Receiving

\* ipc_send begins.
LEMMA StepOffer ==
    ASSUME IInv, NEW e \in Envs, NEW to \in Envs, NEW value \in Values,
           NEW srcva \in Sources, IpcSend(e, to, value, srcva)
    PROVE  Rdv!Offer(e)
<1> DEFINE k == [pc |-> "try", to |-> to, value |-> value, srcva |-> srcva]
           m == [to |-> to, value |-> value, paged |-> srcva = PAGINA]
<1>1. lib[e].pc = "user" /\ lib'[e] = k /\ UNCHANGED <<kernelVars, mapa>>
      /\ ret' = [ret EXCEPT ![e] = NADA]
      /\ \A x \in Envs : x # e => lib'[x] = lib[x]
  BY CallsMade DEF IpcSend, InUser, Goto, pageVars, IInv, TypeOK
<1>2. \A x \in Envs : x # e => Igual(x)
  BY <1>1, Untouched DEF Igual, kernelVars
<1>3. Offers(e)' = m /\ Handed(e)' = Handed(e) /\ Asks(e)' = Asks(e)
  BY <1>1 DEF kernelVars, Offers, Asks, Handed, Sending, InRecv
<1>4. m \in [to : Envs, value : Values, paged : BOOLEAN]
  OBVIOUS
<1>5. Offers(e) = NADA /\ Asks(e) \notin {"value", "page"}
  BY <1>1, OutLooks
<1> HIDE DEF m
<1>6. UNCHANGED [x \in Envs |-> Asks(x)] /\ UNCHANGED [x \in Envs |-> Handed(x)]
  BY <1>2, <1>3 DEF Igual
<1>7. [x \in Envs |-> Offers(x)]' = [[x \in Envs |-> Offers(x)] EXCEPT ![e] = m]
  BY <1>2, <1>3, OneMoves
<1> QED
  BY <1>1, <1>4, <1>5, <1>6, <1>7 DEF Rdv!Offer, Rdv!Idle, Rdv!Receiving

\* ipc_recv begins, or is refused.
LEMMA StepAsk ==
    ASSUME IInv, NEW e \in Envs, NEW pg \in Destinations, IpcRecv(e, pg)
    PROVE  \E what \in {"value", "page", "refused"} : Rdv!Ask(e, what)
<1> DEFINE what == IF pg = INVALID THEN "refused"
                   ELSE IF pg = PAGINA THEN "page" ELSE "value"
<1>1. /\ lib[e].pc = "user" /\ env_status[e] = "RUNNABLE"
      /\ lib'[e] = IF pg = INVALID THEN lib[e] ELSE [pc |-> "recv", pg |-> pg]
      /\ env_ipc_recving'[e] = TRUE /\ env_status'[e] # "FREE"
      /\ UNCHANGED <<env_ipc_from, env_ipc_value, env_ipc_perm, mapa>>
      /\ ret' = [ret EXCEPT ![e] = NADA]
      /\ \A x \in Envs : x # e => /\ lib'[x] = lib[x]
                                  /\ env_ipc_recving'[x] = env_ipc_recving[x]
                                  /\ env_status'[x] = env_status[x]
  BY CallsMade DEF IpcRecv, RecvRefused, RecvBlocks, InUser, Active, Goto, pageVars,
     IInv, TypeOK
<1>2. \A x \in Envs : x # e => Igual(x)
  BY <1>1, Untouched DEF Igual
<1>3. Offers(e) = NADA /\ Handed(e) = NADA /\ Asks(e) \notin {"value", "page"}
  BY <1>1, OutLooks
<1>4. Offers(e)' = NADA /\ Handed(e)' = NADA /\ Asks(e)' = what
  BY <1>1 DEF Offers, Asks, Handed, Sending, InRecv, Destinations, NULL, PAGINA, INVALID
<1>5. what \in {"value", "page", "refused"}
  OBVIOUS
<1> HIDE DEF what
<1>6. UNCHANGED [x \in Envs |-> Offers(x)] /\ UNCHANGED [x \in Envs |-> Handed(x)]
  BY <1>2, <1>3, <1>4 DEF Igual
<1>7. [x \in Envs |-> Asks(x)]' = [[x \in Envs |-> Asks(x)] EXCEPT ![e] = what]
  BY <1>2, <1>4, OneMoves
<1>8. Rdv!Ask(e, what)
  BY <1>1, <1>3, <1>6, <1>7 DEF Rdv!Ask, Rdv!Idle, Rdv!Receiving
<1> QED
  BY <1>5, <1>8

\* The end of an environment.
LEMMA StepQuit ==
    ASSUME IInv, NEW e \in Envs, Die(e)
    PROVE  Rdv!Quit(e)
<1>1. /\ lib'[e] = USER /\ env_status'[e] = "FREE"
      /\ UNCHANGED <<env_ipc_recving, env_ipc_from, env_ipc_value, env_ipc_perm>>
      /\ mapa' = [mapa EXCEPT ![e] = NADA] /\ ret' = [ret EXCEPT ![e] = NADA]
      /\ \A x \in Envs : x # e => /\ lib'[x] = lib[x] /\ mapa'[x] = mapa[x]
                                  /\ env_status'[x] = env_status[x]
  BY DEF Die, Goto, IInv, TypeOK
<1>2. \A x \in Envs : x # e => Igual(x)
  BY <1>1, Untouched DEF Igual
<1>3. Offers(e)' = NADA /\ Handed(e)' = NADA /\ Asks(e)' = "no"
  BY <1>1 DEF Offers, Asks, Handed, Sending, InRecv, USER
<1> QED
  BY <1>1, <1>2, <1>3, OneMoves DEF Rdv!Quit

\* The three reads of ipc_recv: only the last one shows.
LEMMA StepReads ==
    ASSUME IInv, NEW e \in Envs, ReadFrom(e) \/ ReadPerm(e)
    PROVE  UNCHANGED Rdv!rvars
<1>1. /\ lib[e].pc \in {"recv", "perm"} /\ lib'[e].pc \in {"perm", "value"}
      /\ lib'[e].pg = lib[e].pg
      /\ UNCHANGED <<kernelVars, mapa, ret>>
      /\ \A x \in Envs : x # e => lib'[x] = lib[x]
  BY DEF ReadFrom, ReadPerm, Goto, pageVars, IInv, TypeOK
<1>2. \A x \in Envs : x # e => Igual(x)
  BY <1>1, Untouched DEF Igual, kernelVars
<1>3. Igual(e)
  BY <1>1 DEF Igual, Offers, Asks, Handed, Sending, InRecv, kernelVars
<1> QED
  BY <1>1, <1>2, <1>3, Stutters

LEMMA StepReturn ==
    ASSUME IInv, NEW e \in Envs, ReadValue(e)
    PROVE  Rdv!Return(e)
<1> DEFINE m == [from |-> env_ipc_from[e], value |-> env_ipc_value[e],
                 page |-> IF lib[e].pg = PAGINA /\ env_ipc_perm[e] THEN mapa[e] ELSE NADA]
<1>0. /\ ~env_ipc_recving[e] /\ lib[e].from = env_ipc_from[e]
      /\ lib[e].perm = env_ipc_perm[e] /\ lib[e].pc = "value" /\ thisenv[e] = e
  BY DEF ReadValue, IInv, ClosedWhileReading, TypeOK
<1>1. /\ lib'[e] = USER /\ UNCHANGED <<kernelVars, mapa>>
      /\ ret' = [ret EXCEPT ![e] = m]
      /\ \A x \in Envs : x # e => lib'[x] = lib[x]
  BY <1>0 DEF ReadValue, Goto, pageVars, IInv, TypeOK
<1>2. \A x \in Envs : x # e => Igual(x)
  BY <1>1, Untouched DEF Igual, kernelVars
<1>3. m \in [from : Envs, value : Values, page : Frames \cup {NADA}]
  BY DEF IInv, TypeOK
<1>4. m # NADA
  BY <1>3, IpcAssumption
<1>5. Offers(e) = NADA /\ Handed(e) = m
  BY <1>0, RecvLooks
<1>6. Offers(e)' = NADA /\ Handed(e)' = NADA /\ Asks(e)' = "no"
  BY <1>0, <1>1 DEF Offers, Asks, Handed, Sending, InRecv, USER, kernelVars
<1> HIDE DEF m
<1>7. UNCHANGED [x \in Envs |-> Offers(x)]
  BY <1>2, <1>5, <1>6 DEF Igual
<1> QED
  BY <1>1, <1>2, <1>4, <1>5, <1>6, <1>7, OneMoves DEF Rdv!Return

\* A try that fails or goes round the loop: no field of the kernel's changes.
LEMMA StepFails ==
    ASSUME IInv, NEW e \in Envs, Try(e), UNCHANGED ret,
           Fails(e, PANIC) \/ Fails(e, [lib[e] EXCEPT !.pc = "yield"]),
           \/ UNCHANGED mapa
           \/ \E d \in Envs : /\ Fails(e, PANIC) /\ d = lib[e].to
                              /\ env_status[d] # "FREE" /\ env_ipc_recving[d]
                              /\ \E f \in Frames : mapa' = [mapa EXCEPT ![d] = f]
    PROVE  (\E d \in Envs : Rdv!Withdraw(e, d)) \/ UNCHANGED Rdv!rvars
<1>0. PICK d \in Envs : d = lib[e].to
  BY CallShapes DEF Try, IInv, TypeOK
<1> DEFINE m == [to |-> d, value |-> lib[e].value, paged |-> lib[e].srcva = PAGINA]
<1>1. /\ lib[e] \in Calls /\ lib[e].pc = "try" /\ d \in Envs /\ lib[e].value \in Values
      /\ UNCHANGED <<kernelVars, ret>>
      /\ \A x \in Envs : x # e => lib'[x] = lib[x]
  BY <1>0, CallShapes DEF Try, Fails, Goto, IInv, TypeOK
<1>2. Offers(e) = m /\ Handed(e) = NADA /\ m # NADA /\ m.to = d
  <2>1. m \in [to : Envs, value : Values, paged : BOOLEAN]
    BY <1>1
  <2> QED
    BY <1>0, <1>1, <2>1, SendLooks, IpcAssumption
<1>3. CASE Fails(e, [lib[e] EXCEPT !.pc = "yield"]) /\ UNCHANGED mapa
  <2>1. /\ lib'[e].pc = "yield" /\ lib'[e].to = d /\ lib'[e].value = lib[e].value
        /\ lib'[e].srcva = lib[e].srcva
    BY <1>0, <1>1, <1>3, CallLoops DEF Fails, Goto, IInv, TypeOK
  <2>2. Igual(e)
    <3>1. Offers(e)' = m
      BY <2>1 DEF Offers, Sending
    <3>2. Handed(e)' = NADA
      BY <2>1 DEF Handed, InRecv
    <3>3. Asks(e)' = Asks(e)
      BY <1>1, <2>1 DEF Asks, InRecv, kernelVars
    <3> QED
      BY <1>2, <3>1, <3>2, <3>3 DEF Igual
  <2>3. \A x \in Envs : x # e => Igual(x)
    BY <1>1, <1>3, Untouched DEF Igual, kernelVars
  <2> QED
    BY <1>1, <1>3, <2>2, <2>3, Stutters
<1>4. CASE Fails(e, PANIC)
  <2>1. lib'[e].pc = "panic"
    BY <1>4, CallsMade DEF Fails, Goto, IInv, TypeOK
  <2>2. Offers(e)' = NADA /\ Handed(e)' = NADA /\ Asks(e)' = Asks(e)
    BY <1>1, <2>1 DEF Offers, Asks, Handed, Sending, InRecv, kernelVars
  <2>3. CASE UNCHANGED mapa
    <3>1. \A x \in Envs : x # e => Igual(x)
      BY <1>1, <2>3, Untouched DEF Igual, kernelVars
    <3>2. UNCHANGED [x \in Envs |-> Asks(x)] /\ UNCHANGED [x \in Envs |-> Handed(x)]
      BY <1>2, <2>2, <3>1 DEF Igual
    <3>3. Rdv!Withdraw(e, d)
      BY <1>1, <1>2, <2>2, <2>3, <3>1, <3>2, OneMoves DEF Rdv!Withdraw
    <3> QED
      BY <1>1, <3>3
  <2>4. CASE /\ env_status[d] # "FREE" /\ env_ipc_recving[d]
             /\ \E f \in Frames : mapa' = [mapa EXCEPT ![d] = f]
    <3>1. Handed(d) = NADA /\ Asks(d) # "no"
      BY <1>1, <2>4 DEF Handed, Asks
    <3>2. \A x \in Envs : x # e => Igual(x)
      <4>1. ASSUME NEW x \in Envs, x # e, x # d PROVE Igual(x)
        BY <1>1, <2>4, <4>1, Untouched DEF Igual, kernelVars, IInv, TypeOK
      <4>2. d # e => Igual(d)
        BY <1>1, <2>4 DEF Igual, Offers, Asks, Handed, Sending, InRecv, kernelVars
      <4> QED
        BY <4>1, <4>2
    <3>3. UNCHANGED [x \in Envs |-> Asks(x)] /\ UNCHANGED [x \in Envs |-> Handed(x)]
      BY <1>2, <2>2, <3>2 DEF Igual
    <3>4. [x \in Envs |-> Offers(x)]' = [[x \in Envs |-> Offers(x)] EXCEPT ![e] = NADA]
      BY <2>2, <3>2, OneMoves
    <3>5. /\ [x \in Envs |-> Offers(x)][e] = m
          /\ [x \in Envs |-> Handed(x)][d] = NADA /\ [x \in Envs |-> Asks(x)][d] # "no"
      BY <1>1, <1>2, <3>1
    <3>6. Rdv!Withdraw(e, d)
      BY <1>1, <1>2, <2>4, <3>3, <3>4, <3>5 DEF Rdv!Withdraw
    <3> QED
      BY <1>1, <3>6
  <2> QED
    BY <1>0, <2>3, <2>4
<1> QED
  BY <1>3, <1>4

\* A try that succeeds.  The page arrives if the sender has one and the receiver
\* asked for one.
LEMMA StepDeliver ==
    ASSUME IInv, NEW e \in Envs, OpenTry(e), UNCHANGED ret, NEW perm \in BOOLEAN,
           Deliver(e, perm),
           \/ lib[e].srcva = UTOP /\ ~perm /\ UNCHANGED mapa
           \/ env_ipc_dstva[lib[e].to] = NULL /\ UNCHANGED mapa
           \/ /\ lib[e].srcva = PAGINA /\ env_ipc_dstva[lib[e].to] = PAGINA /\ perm
              /\ mapa' = [mapa EXCEPT ![lib[e].to] = mapa[e]]
    PROVE  \E d \in Envs : Rdv!Deliver(e, d) \/ Rdv!Lose(e, d)
<1>0. PICK d \in Envs : d = lib[e].to
  BY CallShapes DEF OpenTry, Try, IInv, TypeOK
<1> DEFINE m == [to |-> d, value |-> lib[e].value, paged |-> lib[e].srcva = PAGINA]
<1>1. /\ lib[e] \in Calls /\ lib[e].pc = "try" /\ d \in Envs /\ lib[e].value \in Values
      /\ env_status[d] # "FREE" /\ env_ipc_recving[d]
  BY <1>0, CallShapes DEF OpenTry, Try, IInv, TypeOK
<1>2. Offers(e) = m /\ Handed(e) = NADA /\ m # NADA /\ m.to = d
      /\ m.paged = (lib[e].srcva = PAGINA)
  <2>1. m \in [to : Envs, value : Values, paged : BOOLEAN]
    BY <1>1
  <2> QED
    BY <1>0, <1>1, <2>1, SendLooks, IpcAssumption
<1>3. /\ lib'[e] = USER /\ \A x \in Envs : x # e => lib'[x] = lib[x]
      /\ env_status'[d] = "RUNNABLE" /\ env_ipc_recving'[d] = FALSE
      /\ env_ipc_from'[d] = e /\ env_ipc_value'[d] = lib[e].value
      /\ env_ipc_perm'[d] = perm
      /\ \A x \in Envs : x # d =>
           /\ env_status'[x] = env_status[x] /\ env_ipc_recving'[x] = env_ipc_recving[x]
           /\ env_ipc_from'[x] = env_ipc_from[x] /\ env_ipc_value'[x] = env_ipc_value[x]
           /\ env_ipc_perm'[x] = env_ipc_perm[x] /\ mapa'[x] = mapa[x]
  BY <1>0, <1>1 DEF Deliver, Goto, IInv, TypeOK
<1>4. \A x \in Envs : x # e /\ x # d => Igual(x)
  BY <1>3, Untouched DEF Igual
<1>5. Offers(e)' = NADA /\ Handed(e)' = NADA
  BY <1>3 DEF Offers, Handed, Sending, InRecv, USER
<1>6. d # e => Asks(e)' = Asks(e)
  BY <1>1, <1>3 DEF Asks, InRecv, USER
<1>7. CASE lib[d].pc \in {"recv", "perm", "value"}
  <2> DEFINE sends == m.paged /\ Asks(d) = "page"
             t == [from |-> e, value |-> m.value,
                   page |-> IF sends THEN mapa[e] ELSE NADA]
  <2>1. lib[d].pc = "recv" /\ d # e /\ env_ipc_dstva[d] = lib[d].pg
    BY <1>1, <1>7 DEF IInv, ClosedWhileReading, OpenWhileBlocked
  <2>2. /\ Offers(d) = NADA /\ Handed(d) = NADA
        /\ Asks(d) = IF lib[d].pg = PAGINA THEN "page" ELSE "value"
    BY <1>1, <1>7, RecvLooks
  <2>3. Offers(d)' = NADA /\ Asks(d)' = Asks(d)
        /\ Handed(d)' = [from |-> e, value |-> m.value,
                         page |-> IF lib[d].pg = PAGINA /\ perm
                                  THEN mapa'[d] ELSE NADA]
    BY <1>1, <1>3, <2>1, <2>2 DEF Offers, Asks, Handed, Sending, InRecv
  <2>4. sends <=> lib[d].pg = PAGINA /\ lib[e].srcva = PAGINA
    BY <1>2, <2>2
  <2>5. mapa' = IF sends THEN [mapa EXCEPT ![d] = mapa[e]] ELSE mapa
    BY <1>0, <2>1, <2>4 DEF NULL, PAGINA, UTOP
  <2>6. (lib[d].pg = PAGINA /\ perm) <=> sends
    BY <1>0, <2>1, <2>4 DEF NULL, PAGINA, UTOP
  <2>7. sends => mapa'[d] = mapa[e]
    BY <1>1, <2>5 DEF IInv, TypeOK
  <2>8. Handed(d)' = t
    BY <2>3, <2>6, <2>7
  <2>9. [x \in Envs |-> Offers(x)]' = [[x \in Envs |-> Offers(x)] EXCEPT ![e] = NADA]
    BY <1>4, <1>5, <2>2, <2>3 DEF Igual
  <2>10. UNCHANGED [x \in Envs |-> Asks(x)]
    BY <1>4, <1>6, <2>1, <2>3 DEF Igual
  <2>11. [x \in Envs |-> Handed(x)]' = [[x \in Envs |-> Handed(x)] EXCEPT ![d] = t]
    BY <1>2, <1>4, <1>5, <2>8 DEF Igual
  <2>12. Asks(d) \in {"value", "page"}
    BY <2>2
  <2> HIDE DEF m, t
  <2>13. Rdv!Deliver(e, d)
    BY <1>1, <1>2, <2>2, <2>5, <2>9, <2>10, <2>11, <2>12
       DEF Rdv!Deliver, Rdv!Receiving, t
  <2> QED
    BY <1>1, <2>13
<1>8. CASE lib[d].pc \notin {"recv", "perm", "value"}
  <2>1. Asks(d) = "refused" /\ Handed(d) = NADA
    BY <1>1, <1>8 DEF Asks, Handed, InRecv
  <2>2. Asks(d)' = "no" /\ Handed(d)' = NADA
    BY <1>3, <1>8 DEF Asks, Handed, InRecv, USER
  <2>3. d # e => Offers(d)' = Offers(d)
    BY <1>3 DEF Offers, Sending
  <2>4. [x \in Envs |-> Offers(x)]' = [[x \in Envs |-> Offers(x)] EXCEPT ![e] = NADA]
    BY <1>4, <1>5, <2>3 DEF Igual
  <2>5. [x \in Envs |-> Asks(x)]' = [[x \in Envs |-> Asks(x)] EXCEPT ![d] = "no"]
    BY <1>4, <1>6, <2>2 DEF Igual
  <2>6. UNCHANGED [x \in Envs |-> Handed(x)]
    BY <1>2, <1>4, <1>5, <2>1, <2>2 DEF Igual
  <2>7. mapa' = mapa \/ mapa' = [mapa EXCEPT ![d] = mapa[e]]
    BY <1>0
  <2> HIDE DEF m
  <2>8. Rdv!Lose(e, d)
    BY <1>1, <1>2, <2>1, <2>4, <2>5, <2>6, <2>7 DEF Rdv!Lose
  <2> QED
    BY <1>1, <2>8
<1> QED
  BY <1>7, <1>8

\* ipc_send goes round its loop.
LEMMA StepYield ==
    ASSUME IInv, NEW e \in Envs, Yield(e)
    PROVE  UNCHANGED Rdv!rvars
<1>1. /\ lib[e].pc = "yield" /\ lib'[e].pc = "try" /\ lib'[e].to = lib[e].to
      /\ lib'[e].value = lib[e].value /\ lib'[e].srcva = lib[e].srcva
      /\ UNCHANGED <<kernelVars, mapa, ret>>
      /\ \A x \in Envs : x # e => lib'[x] = lib[x]
  <2>1. lib[e] \in Calls
    BY DEF IInv, TypeOK
  <2> QED
    BY <2>1, CallLoops DEF Yield, Goto, pageVars, IInv, TypeOK
<1>2. \A x \in Envs : x # e => Igual(x)
  BY <1>1, Untouched DEF Igual, kernelVars
<1>3. Offers(e)' = Offers(e)
  BY <1>1 DEF Offers, Sending
<1>4. Handed(e)' = Handed(e) /\ Asks(e)' = Asks(e)
  BY <1>1 DEF Handed, Asks, InRecv, kernelVars
<1> QED
  BY <1>1, <1>2, <1>3, <1>4, Stutters DEF Igual

\* A new environment is not in the library, and closed whatever the slot's last
\* owner did.
LEMMA StepFork ==
    ASSUME IInv, NEW e \in Envs, NEW c \in Envs, Fork(e, c)
    PROVE  UNCHANGED Rdv!rvars
<1>1. /\ lib[c] = USER /\ env_status[c] = "FREE" /\ env_ipc_recving'[c] = FALSE
      /\ UNCHANGED <<lib, mapa, ret, env_ipc_from, env_ipc_value, env_ipc_perm>>
      /\ \A x \in Envs : x # c => /\ env_status'[x] = env_status[x]
                                  /\ env_ipc_recving'[x] = env_ipc_recving[x]
  BY DEF Fork, IInv, TypeOK, FreeIsOut, pageVars
<1>2. \A x \in Envs : x # c => Igual(x)
  BY <1>1, Untouched DEF Igual
<1>3. Igual(c)
  BY <1>1 DEF Igual, Offers, Asks, Handed, Sending, InRecv, USER
<1> QED
  BY <1>1, <1>2, <1>3, Stutters

\* sys_ipc_try_send, by its cases.
LEMMA StepSend ==
    ASSUME IInv, NEW e \in Envs, SysIpcTrySend(e)
    PROVE  \/ \E d \in Envs : Rdv!Deliver(e, d) \/ Rdv!Lose(e, d) \/ Rdv!Withdraw(e, d)
           \/ UNCHANGED Rdv!rvars
<1>1. lib[e].to \in Envs /\ lib[e].srcva \in Sources /\ Try(e) /\ UNCHANGED ret
      /\ env_ipc_dstva[lib[e].to] \in {NULL, PAGINA}
      /\ env_ipc_perm[lib[e].to] \in BOOLEAN
      /\ mapa[e] \in Frames \cup {NADA}
  <2>1. lib[e] \in Calls /\ lib[e].pc = "try" /\ Try(e) /\ UNCHANGED ret
    BY DEF SysIpcTrySend, TrySendClosed, TrySendValue, TrySendPage, TrySendUnmapped,
       OpenTry, Try, IInv, TypeOK
  <2> QED
    BY <2>1, CallShapes DEF IInv, TypeOK
<1>2. CASE TrySendClosed(e)
  <2>1. UNCHANGED mapa
        /\ (Fails(e, PANIC) \/ Fails(e, [lib[e] EXCEPT !.pc = "yield"]))
    BY <1>2 DEF TrySendClosed, pageVars
  <2> QED
    BY <1>1, <2>1, StepFails
<1>3. CASE TrySendValue(e)
  <2>1. UNCHANGED mapa /\ OpenTry(e) /\ Deliver(e, FALSE) /\ lib[e].srcva = UTOP
    BY <1>3 DEF TrySendValue, pageVars
  <2> QED
    BY <1>1, <2>1, StepDeliver
<1>4. CASE TrySendPage(e)
  <2>1. CASE env_ipc_dstva[lib[e].to] = NULL
    <3>1. UNCHANGED mapa /\ OpenTry(e) /\ Deliver(e, env_ipc_perm[lib[e].to])
      BY <1>4, <2>1 DEF TrySendPage
    <3> QED
      BY <1>1, <2>1, <3>1, StepDeliver
  <2>2. CASE env_ipc_dstva[lib[e].to] # NULL /\ Libres = {}
    <3>1. UNCHANGED mapa /\ Fails(e, PANIC)
      BY <1>4, <2>2 DEF TrySendPage
    <3> QED
      BY <1>1, <3>1, StepFails
  <2>3. CASE env_ipc_dstva[lib[e].to] # NULL /\ Libres # {}
    <3>1. /\ OpenTry(e) /\ Deliver(e, TRUE) /\ mapa' = [mapa EXCEPT ![lib[e].to] = mapa[e]]
          /\ lib[e].srcva = PAGINA /\ env_ipc_dstva[lib[e].to] = PAGINA
      BY <1>1, <1>4, <2>3 DEF TrySendPage
    <3> QED
      BY <1>1, <3>1, StepDeliver
  <2> QED
    BY <2>1, <2>2, <2>3
<1>5. CASE TrySendUnmapped(e)
  <2>1. OpenTry(e)
    BY <1>5 DEF TrySendUnmapped
  <2>2. CASE Fails(e, PANIC) /\ UNCHANGED pageVars
    BY <1>1, <2>2, StepFails DEF pageVars
  <2>3. CASE /\ env_ipc_dstva[lib[e].to] = NULL
             /\ Deliver(e, env_ipc_perm[lib[e].to]) /\ UNCHANGED pageVars
    BY <1>1, <2>1, <2>3, StepDeliver DEF pageVars
  <2>4. CASE Fails(e, PANIC) /\ \E f \in Frames : mapa' = [mapa EXCEPT ![lib[e].to] = f]
    BY <1>1, <2>1, <2>4, StepFails DEF OpenTry
  <2> QED
    BY <1>5, <2>2, <2>3, <2>4 DEF TrySendUnmapped, Libres
<1> QED
  BY <1>2, <1>3, <1>4, <1>5 DEF SysIpcTrySend

\* What ipc_recv returns is one message that one ipc_send sent, whole, and both
\* return because of each other (syscall.c:339-352, ipc.c:5-14), whatever other
\* environments send, fork, or are killed meanwhile, between the system call and
\* the three reads of ipc_recv too.
THEOREM IpcImplementsRendezvous == IpcSpec => ImplementsRendezvous
<1>1. Init => Rdv!Init
  <2> SUFFICES ASSUME Init PROVE Rdv!Init
    OBVIOUS
  <2>1. \A e \in Envs : Offers(e) = NADA /\ Handed(e) = NADA /\ Asks(e) = "no"
    BY DEF Init, Offers, Handed, Asks, Sending, InRecv, USER
  <2> QED
    BY <2>1 DEF Init, Rdv!Init
<1>2. IInv /\ [IpcNext]_ipcVars => [Rdv!Next]_(Rdv!rvars)
  <2> SUFFICES ASSUME IInv, [IpcNext]_ipcVars PROVE Rdv!Next \/ UNCHANGED Rdv!rvars
    OBVIOUS
  <2>1. CASE UNCHANGED ipcVars
    BY <2>1, Untouched, Stutters DEF ipcVars, Igual
  <2>2. ASSUME NEW e \in Envs, LibStep(e) PROVE Rdv!Next \/ UNCHANGED Rdv!rvars
    <3>1. CASE SysIpcTrySend(e)
      BY <3>1, StepSend DEF Rdv!Next
    <3>2. CASE Yield(e)
      BY <3>2, StepYield
    <3>3. CASE ReadFrom(e) \/ ReadPerm(e)
      BY <3>3, StepReads
    <3>4. CASE ReadValue(e)
      BY <3>4, StepReturn DEF Rdv!Next
    <3> QED
      BY <2>2, <3>1, <3>2, <3>3, <3>4 DEF LibStep
  <2>3. ASSUME NEW e \in Envs, UserStep(e) PROVE Rdv!Next \/ UNCHANGED Rdv!rvars
    <3>1. CASE PageAlloc(e)
      BY <3>1, StepAlloc DEF Rdv!Next
    <3>2. ASSUME NEW x \in Contents, Write(e, x) PROVE UNCHANGED Rdv!rvars
      BY <3>2, Untouched, Stutters DEF Write, Igual, kernelVars
    <3>3. ASSUME NEW c \in Envs, Fork(e, c) PROVE UNCHANGED Rdv!rvars
      BY <3>3, StepFork
    <3>4. ASSUME NEW pg \in Destinations, IpcRecv(e, pg) PROVE Rdv!Next
      BY <3>4, StepAsk DEF Rdv!Next
    <3>5. ASSUME NEW to \in Envs, NEW value \in Values, NEW srcva \in Sources,
                 IpcSend(e, to, value, srcva)
          PROVE  Rdv!Next
      BY <3>5, StepOffer DEF Rdv!Next
    <3> QED
      BY <2>3, <3>1, <3>2, <3>3, <3>4, <3>5 DEF UserStep
  <2>4. ASSUME NEW e \in Envs, Die(e) PROVE Rdv!Next
    BY <2>4, StepQuit DEF Rdv!Next
  <2> QED
    BY <2>1, <2>2, <2>3, <2>4 DEF IpcNext
<1> QED
  BY <1>1, <1>2, IpcInvariant, PTL DEF IpcSpec, ImplementsRendezvous, Rdv!Spec
=============================================================================
