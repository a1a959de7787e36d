------------------------------ MODULE Spinlock ------------------------------
(***************************************************************************)
(* The debug spinlock of scheduler/kern/spinlock.c, one step per access    *)
(* to the shared fields lk->locked and lk->cpu (DEBUG_SPINLOCK is defined  *)
(* in spinlock.h:7, so holding() and lk->cpu are part of the build).       *)
(* The caller stack lk->pcs and the lock's name only feed the panic        *)
(* message and are left out.                                               *)
(***************************************************************************)
CONSTANTS CPUs, NOBODY

ASSUME SpinlockAssumption == NOBODY \notin CPUs

VARIABLES
    locked,     \* lk->locked as a BOOLEAN
    cpu,        \* lk->cpu: a CPU, or NOBODY for the null pointer
    pc          \* where each CPU is in spin_lock / spin_unlock

vars == <<locked, cpu, pc>>

\* Program points of spin_lock, of the critical section, of spin_unlock.
Locking   == {"lock.locked", "lock.cpu", "xchg"}
Inside    == {"setcpu", "critical", "unlock.locked", "unlock.cpu",
              "clearcpu", "release"}
Points    == {"out", "panic"} \cup Locking \cup Inside

Init ==
    /\ locked = FALSE
    /\ cpu = NOBODY
    /\ pc = [c \in CPUs |-> "out"]

Goto(c, p) == pc' = [pc EXCEPT ![c] = p]

-----------------------------------------------------------------------------
(* Ways this code could plausibly be wrong; each breaks a property above.  *)

\* The test-and-set is not atomic: a CPU that saw the lock free a moment ago
\* goes ahead.
XchgNotAtomic(c) ==
    /\ pc[c] = "xchg"
    /\ locked' = TRUE
    /\ Goto(c, IF locked /\ cpu # NOBODY THEN "xchg" ELSE "setcpu")
    /\ UNCHANGED cpu

\* spin_unlock does not clear lk->cpu.
ClearCpuForgotten(c) ==
    /\ pc[c] = "clearcpu"
    /\ Goto(c, "release")
    /\ UNCHANGED <<locked, cpu>>

\* spin_unlock gives the lock away while it still has to clear lk->cpu.
ReleaseBeforeClear(c) ==
    /\ pc[c] = "unlock.cpu"
    /\ locked' = FALSE
    /\ Goto(c, IF cpu = c THEN "clearcpu" ELSE "panic")
    /\ UNCHANGED cpu

\* spin_unlock returns without the xchg.
ReleaseForgotten(c) ==
    /\ pc[c] = "release"
    /\ Goto(c, "out")
    /\ UNCHANGED <<locked, cpu>>

-----------------------------------------------------------------------------
\* spin_lock

CallLock(c) ==
    /\ pc[c] = "out"
    /\ Goto(c, "lock.locked")
    /\ UNCHANGED <<locked, cpu>>

\* if (holding(lk)) panic: holding() reads lk->locked, then lk->cpu.
LockReadLocked(c) ==
    /\ pc[c] = "lock.locked"
    /\ Goto(c, IF locked THEN "lock.cpu" ELSE "xchg")
    /\ UNCHANGED <<locked, cpu>>

LockReadCpu(c) ==
    /\ pc[c] = "lock.cpu"
    /\ Goto(c, IF cpu = c THEN "panic" ELSE "xchg")
    /\ UNCHANGED <<locked, cpu>>

\* while (xchg(&lk->locked, 1) != 0) pause;
Xchg(c) ==
    /\ pc[c] = "xchg"
    /\ locked' = TRUE
    /\ Goto(c, IF locked THEN "xchg" ELSE "setcpu")
    /\ UNCHANGED cpu

SetCpu(c) ==
    /\ pc[c] = "setcpu"
    /\ cpu' = c
    /\ Goto(c, "critical")
    /\ UNCHANGED locked

-----------------------------------------------------------------------------
\* spin_unlock

CallUnlock(c) ==
    /\ pc[c] = "critical"
    /\ Goto(c, "unlock.locked")
    /\ UNCHANGED <<locked, cpu>>

\* if (!holding(lk)) panic
UnlockReadLocked(c) ==
    /\ pc[c] = "unlock.locked"
    /\ Goto(c, IF locked THEN "unlock.cpu" ELSE "panic")
    /\ UNCHANGED <<locked, cpu>>

UnlockReadCpu(c) ==
    /\ pc[c] = "unlock.cpu"
    /\ Goto(c, IF cpu = c THEN "clearcpu" ELSE "panic")
    /\ UNCHANGED <<locked, cpu>>

\* lk->cpu = 0, before the xchg that gives the lock away
ClearCpu(c) ==
    /\ pc[c] = "clearcpu"
    /\ cpu' = NOBODY
    /\ Goto(c, "release")
    /\ UNCHANGED locked

Release(c) ==
    /\ pc[c] = "release"
    /\ locked' = FALSE
    /\ Goto(c, "out")
    /\ UNCHANGED cpu

-----------------------------------------------------------------------------
\* A CPU inside spin_lock or spin_unlock keeps executing; whether it calls
\* spin_lock again is up to the rest of the kernel.
Progress(c) ==
    \/ LockReadLocked(c) \/ LockReadCpu(c) \/ Xchg(c) \/ SetCpu(c)
    \/ CallUnlock(c) \/ UnlockReadLocked(c) \/ UnlockReadCpu(c)
    \/ ClearCpu(c) \/ Release(c)

Next == \E c \in CPUs : CallLock(c) \/ Progress(c)

Fairness == \A c \in CPUs : WF_vars(Progress(c))

Spec == Init /\ [][Next]_vars

FairSpec == Spec /\ Fairness

-----------------------------------------------------------------------------
\* Type invariant.
TypeOK ==
    /\ locked \in BOOLEAN
    /\ cpu \in CPUs \cup {NOBODY}
    /\ pc \in [CPUs -> Points]

\* spinlock.h "Mutual exclusion lock.": the xchg loop lets one CPU at a time
\* past it, up to the xchg that releases the lock.
MutualExclusion ==
    \A c, d \in CPUs : pc[c] \in Inside /\ pc[d] \in Inside => c = d

\* The two panics of spinlock.c (71, 109) are for a CPU that takes a lock it
\* has or drops one it has not.  A CPU that pairs its calls never meets them,
\* although holding() reads two fields that other CPUs are writing.
NoFalsePanic == \A c \in CPUs : pc[c] # "panic"

\* The spinlock implements the abstract lock: a CPU has the lock from the xchg
\* that found it free to the xchg that frees it.
Phase(p) ==
    IF p \in Inside THEN "in" ELSE IF p \in Locking THEN "waiting" ELSE "out"

Lock == INSTANCE KernelLock WITH owner <- [c \in CPUs |-> Phase(pc[c])]

LockSpec == Lock!Spec

\* While some CPU waits, the lock keeps being granted to some CPU: spinlock.c
\* never leaves the lock taken with nobody inside.  (Which CPU gets it is up
\* to the hardware: a given CPU may lose every race.)
SomeoneEnters ==
    (\E c \in CPUs : pc[c] \in Locking) ~> (\E c \in CPUs : pc[c] \in Inside)
=============================================================================
