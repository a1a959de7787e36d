----------------------------- MODULE KernelLock -----------------------------
(***************************************************************************)
(* What scheduler/kern/spinlock.h promises of the big kernel lock          *)
(* ("Mutual exclusion lock."): a CPU asks for the lock, gets it when       *)
(* nobody has it, and gives it back.  Both the spinlock itself (module     *)
(* Spinlock) and the kernel that brackets every handler with               *)
(* lock_kernel / unlock_kernel (module Kernel) are shown to implement it.  *)
(***************************************************************************)

CONSTANT CPUs

VARIABLE owner     \* owner[c]: "out", "waiting" or "in"

TypeOK == owner \in [CPUs -> {"out", "waiting", "in"}]

Init == owner \in [CPUs -> {"out", "waiting"}]

\* lock_kernel() is called.
Request(c) ==
    /\ owner[c] = "out"
    /\ owner' = [owner EXCEPT ![c] = "waiting"]

\* lock_kernel() returns: only when no CPU is inside.
Enter(c) ==
    /\ owner[c] = "waiting"
    /\ \A d \in CPUs : owner[d] # "in"
    /\ owner' = [owner EXCEPT ![c] = "in"]

\* unlock_kernel().
Leave(c) ==
    /\ owner[c] = "in"
    /\ owner' = [owner EXCEPT ![c] = "out"]

Next == \E c \in CPUs : Request(c) \/ Enter(c) \/ Leave(c)

Spec == Init /\ [][Next]_owner

\* At most one CPU is between lock_kernel and unlock_kernel.
Mutex == \A c, d \in CPUs : owner[c] = "in" /\ owner[d] = "in" => c = d
=============================================================================
