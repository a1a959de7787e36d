----------------------------- MODULE Rendezvous -----------------------------
(***************************************************************************)
(* What ipc_send and ipc_recv (scheduler/lib/ipc.c) promise to programs: a  *)
(* message goes, whole, from one sender to one receive in progress, and    *)
(* neither call returns before; no message waits in the kernel.            *)
(*                                                                         *)
(* Two things the kernel does are part of it.  A receive that is refused   *)
(* leaves the receiver open to one more send, which is lost.  A send that  *)
(* fails may have put a blank page in the receiver's place.                *)
(***************************************************************************)
CONSTANTS Process, Values, Pages, Nothing

VARIABLES
    offer,      \* the message that a process is sending, or Nothing
    asking,     \* "no", or the receive in progress: for a "value", or for a
                \* "page" too; "refused": none, but the kernel thinks so
    taken,      \* the message handed to the receive in progress, or Nothing
    returned,   \* what the last receive of a process returned
    page        \* the page that each process sends and receives, or Nothing

rvars == <<offer, asking, taken, returned, page>>

Init ==
    /\ offer = [p \in Process |-> Nothing]
    /\ asking = [p \in Process |-> "no"]
    /\ taken = [p \in Process |-> Nothing]
    /\ returned = [p \in Process |-> Nothing]
    /\ page = [p \in Process |-> Nothing]

Receiving(p) == asking[p] \in {"value", "page"}
Idle(p) == offer[p] = Nothing /\ ~Receiving(p)

\* A process gets a page of its own.
Map(p) ==
    /\ Idle(p)
    /\ \E x \in Pages : page' = [page EXCEPT ![p] = x]
    /\ UNCHANGED <<offer, asking, taken, returned>>

Offer(s) ==
    /\ Idle(s)
    /\ \E m \in [to : Process, value : Values, paged : BOOLEAN] :
         offer' = [offer EXCEPT ![s] = m]
    /\ returned' = [returned EXCEPT ![s] = Nothing]
    /\ UNCHANGED <<asking, taken, page>>

Ask(r, what) ==
    /\ Idle(r)
    /\ asking' = [asking EXCEPT ![r] = what]
    /\ returned' = [returned EXCEPT ![r] = Nothing]
    /\ UNCHANGED <<offer, taken, page>>

Deliver(s, r) ==
    LET sends == offer[s].paged /\ asking[r] = "page" IN
    /\ offer[s] # Nothing /\ offer[s].to = r
    /\ Receiving(r) /\ taken[r] = Nothing
    /\ taken' = [taken EXCEPT ![r] =
                    [from |-> s, value |-> offer[s].value,
                     page |-> IF sends THEN page[s] ELSE Nothing]]
    /\ page' = IF sends THEN [page EXCEPT ![r] = page[s]] ELSE page
    /\ offer' = [offer EXCEPT ![s] = Nothing]
    /\ UNCHANGED <<asking, returned>>

\* The send succeeds, and only the page may arrive.
Lose(s, r) ==
    /\ offer[s] # Nothing
    /\ offer[s].to = r
    /\ asking[r] = "refused"
    /\ offer' = [offer EXCEPT ![s] = Nothing]
    /\ asking' = [asking EXCEPT ![r] = "no"]
    /\ page' \in {page, [page EXCEPT ![r] = page[s]]}
    /\ UNCHANGED <<taken, returned>>

\* The send fails.
Withdraw(s, r) ==
    /\ offer[s] # Nothing
    /\ offer[s].to = r
    /\ offer' = [offer EXCEPT ![s] = Nothing]
    /\ \/ page' = page
       \/ /\ asking[r] # "no" /\ taken[r] = Nothing
          /\ \E x \in Pages : page' = [page EXCEPT ![r] = x]
    /\ UNCHANGED <<asking, taken, returned>>

Return(r) ==
    /\ taken[r] # Nothing
    /\ returned' = [returned EXCEPT ![r] = taken[r]]
    /\ taken' = [taken EXCEPT ![r] = Nothing]
    /\ asking' = [asking EXCEPT ![r] = "no"]
    /\ UNCHANGED <<offer, page>>

\* A process ends, wherever it is.
Quit(p) ==
    /\ offer' = [offer EXCEPT ![p] = Nothing]
    /\ asking' = [asking EXCEPT ![p] = "no"]
    /\ taken' = [taken EXCEPT ![p] = Nothing]
    /\ returned' = [returned EXCEPT ![p] = Nothing]
    /\ page' = [page EXCEPT ![p] = Nothing]

Next ==
    \/ \E s, r \in Process : Deliver(s, r) \/ Lose(s, r) \/ Withdraw(s, r)
    \/ \E p \in Process :
        \/ Map(p) \/ Offer(p) \/ Return(p) \/ Quit(p)
        \/ \E what \in {"value", "page", "refused"} : Ask(p, what)

Spec == Init /\ [][Next]_rvars
=============================================================================
