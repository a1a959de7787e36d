---------------------------- MODULE AddressSpaces ----------------------------
(***************************************************************************)
(* What the memory system calls promise to a program (syscall.c:212-322,   *)
(* 325-356): an environment has an address space, a map from virtual       *)
(* addresses to pages, and a step changes one address of one environment.  *)
(* It maps a page that nobody has, shares a page that is mapped somewhere, *)
(* without granting a write access its source lacks, or unmaps.  There are *)
(* no page tables, reference counts or free list here.                     *)
(***************************************************************************)
CONSTANTS Pages, Envs, VAs, NULO

VARIABLE espacio    \* espacio[e][va]: the page mapped there, or NULO

Entrada == [pagina : Pages, w : BOOLEAN]

\* The page is mapped in no address space.
SinMapear(p) ==
    \A e \in Envs, va \in VAs : espacio[e][va] # NULO => espacio[e][va].pagina # p

Init == espacio = [e \in Envs |-> [va \in VAs |-> NULO]]

\* sys_page_alloc: a page of its own, with any permission.
Alloc(e, va) ==
    \E nueva \in Entrada :
        /\ SinMapear(nueva.pagina)
        /\ espacio' = [espacio EXCEPT ![e][va] = nueva]

\* sys_page_map, sys_ipc_try_send: the page of another address, and write
\* access only if that address has it.
Map(e, va) ==
    \E nueva \in Entrada, src \in Envs, srcva \in VAs :
        /\ espacio[src][srcva] # NULO
        /\ nueva.pagina = espacio[src][srcva].pagina
        /\ nueva.w => espacio[src][srcva].w
        /\ espacio' = [espacio EXCEPT ![e][va] = nueva]

\* sys_page_unmap, and each page of an environment that is freed.
Unmap(e, va) == espacio' = [espacio EXCEPT ![e][va] = NULO]

Next == \E e \in Envs, va \in VAs : Alloc(e, va) \/ Map(e, va) \/ Unmap(e, va)

Spec == Init /\ [][Next]_espacio
=============================================================================
