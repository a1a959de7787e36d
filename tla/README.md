# A verification development of Features_Operating_Systems

The repository holds three independent programs in C:

* `scheduler/`: the JOS kernel with two schedulers (round robin, and a multi-level
  feedback queue, MLFQ, chosen at build time), its user library and test programs;
* `file_system/`: a FUSE file system that keeps everything in one inode table and
  saves it to a file;
* `shell/`: a Unix shell with redirections, pipelines and background jobs.

This directory models them in TLA+, checks the models with TLC on small instances and
proves theorems about them with TLAPS. The kernel comes first: its concurrency is real
(several CPUs, one lock, timer interrupts) and its scheduler is the part written for
this repository. `PROJECT.json` maps every definition to the lines it stands for.

## 1. Inventory

### 1.1 Kernel (`scheduler/`)

| Part | State | Operations | Used by / uses |
|---|---|---|---|
| Big kernel lock, `kern/spinlock.[ch]` | `kernel_lock.locked`, `.cpu` | `spin_lock`, `spin_unlock`, `holding` | `i386_init`, `mp_main`, `trap`, `env_run`, `sched_halt` |
| Environments, `kern/env.c` | `envs[NENV]`, `env_free_list`, per-CPU `curenv` | `env_init`, `env_alloc`, `env_create`, `env_free`, `env_destroy`, `env_run`, `envid2env` | system calls, `trap`, scheduler |
| Scheduling, `kern/sched.c` | `cpu_status`, `mlfq_scheduler` (4 rings, `ejecuciones_totales`), `env.cola_actual` | `sched_yield`, `round_robin`, `prioridad_MLFQ`, `promover_colas`, `sched_halt` | called at the end of traps, by `sys_yield`, `sys_ipc_recv`, `env_destroy`; calls `env_run` |
| Traps, `kern/trap.c` | `cpu_status`, `curenv` | `trap`, `trap_dispatch`, `page_fault_handler` | entered by hardware; take the lock |
| Boot, `kern/init.c`, `mpentry.S`, `mpconfig.c`, `lapic.c`, `mem_init` of `kern/pmap.c` | `nextfree`, `kern_pgdir`, `cpus[]`, `ncpu`, `lapic`, `mpentry_kstack`, the TSSs | `i386_init`, `boot_alloc`, `page_init`, `boot_map_region`, `mmio_map_region`, `mp_init`, `lapic_init`, `boot_aps`, `mp_main` | sets up everything above; takes the lock before the other CPUs start |
| System calls, `kern/syscall.c` | the caller's and another environment's slot | `sys_env_destroy`, `sys_exofork`, `sys_env_set_status`, `sys_ipc_*`, `sys_env_*_prioridad`, `sys_page_*` | `trap_dispatch` |
| Memory, `kern/pmap.c` | `pages[]`, `pp_ref`, `page_free_list`, page tables | `page_alloc/free/decref`, `page_insert/remove/lookup`, `user_mem_check` | env, system calls |
| User library, `lib/` | the program's own pages, `_pgfault_handler`, `thisenv` | `fork`, `duppage`, `pgfault`, `ipc_send`, `ipc_recv` | system calls |
| User programs, `user/` | their own variables | `primes`, `pingpong`, `sendpage`, `fairness` and others that use one call each | the library |

What is hard: two or more CPUs in user mode, in `lock_kernel`, or past `unlock_kernel`
(the end of `env_run`) while a third is in a handler; environments killed while they run
elsewhere; ids that outlive their slot; a CPU that halts with the lock and must take it
again through `cpu_status`; a periodic timer; queues that are never pruned; a receiver
that reads what a message left in its slot, in user mode, while others run.

What makes it correct: one CPU in the kernel; no environment on two CPUs; a zombie freed
by its own trap and by nothing else; the free list exact; the machine stops in the
monitor only when nothing can run; a CPU halts only when nothing is runnable; a runnable
environment eventually runs; the MLFQ picks the best priority; an entry is in the queue
that `cola_actual` says; a message reaches one receive, whole.

### 1.2 File system (`file_system/`)

| Part | State | Operations | Used by / uses |
|---|---|---|---|
| Inode table, `fs.c` | `superblock.inodes`, `.inode_bitmap`, `.inode_amount`; a directory's `content` is a text of names | `search_inode`, `search_free_inode`, `create_inode`, `remove_inode`, `add_dentry_to_parent_dir` | the callbacks |
| Callbacks, `fisopfs.c` | none of their own | `mkdir`, `create`, `unlink`, `rmdir`, `write`, `truncate`, `read`, `readdir`, `getattr`, `utimens` | FUSE, on several threads; the table |
| Saving, `fs.c` | the persistence file | `fisopfs_init` with `deserialize`, `fisopfs_destroy` with `serialize` | mount and unmount |

Hard: callbacks run on several FUSE threads and nothing locks the table; a creation and a
removal have several steps, of which one may fail after another was done; the server may
die at any of them or at any byte while it saves; a mount may fail half way; the image must
hold what the table holds; offsets and sizes at their limits. Correct if the directories
and the table agree, no path is there twice, the count covers the table, files and
directories stay inside their buffers, and a mount gives back what the unmount saw.

### 1.3 Shell (`shell/`)

State: processes and their groups, open descriptors and variables, the shell's directory,
`status`, `bg_pgid`. Operations: `run_cmd`, `exec_cmd` (EXEC, BACK, REDIR, PIPE),
`sigchld_handler`, built-ins; a parser made of pure functions. Hard: the signal handler
races with `waitpid`; pipes reach end of file only if every spare descriptor is closed;
forks fail half way. Correct if every child is reaped once and by the right party, the
prompt waits for exactly the foreground command, descriptors, arguments and variables are
what the line says, a pipeline ends, the status is the last command's.

The hazards met while reading, each with its line and the property that covers it or the
reason why none does, are listed in `PROJECT.json`.

## 2. Modules

| Module | Models |
|---|---|
| `KernelLock` | what `spinlock.h` promises: request, enter when nobody is inside, leave |
| `Spinlock` | `spin_lock`/`spin_unlock`, one step per access to `locked` and `cpu` |
| `MlfqQueues` | the queue operations of `sched.c` on sequences |
| `MlfqAbstract` | those operations in any order, as a specification |
| `MlfqRing`, `MCMlfqRing` | the arrays and indices of `sched.c`, shown to implement `MlfqAbstract` |
| `KernelPartsProofs` | the lock's invariant, exclusion, no panic and refinement of `KernelLock`; that the arrays implement `MlfqAbstract`, for any ring |
| `Kernel`, `MCKernel` | CPUs, environments, traps, system calls, both schedulers |
| `KernelProofs` | lemmas on the queue operations; the kernel's types, lock and assertions, for any programs; the environment table; the queues in the MLFQ build |
| `Rendezvous` | what `ipc_send` and `ipc_recv` promise: a message goes from one sender to one receive in progress |
| `Ipc` | `sys_ipc_try_send`, `sys_ipc_recv` and the library over them, for any programs; shown to implement `Rendezvous` |
| `IpcProofs` | that refinement, for any number of environments, values and pages |
| `IpcPrograms`, `MCIpc` | `primes`, `pingpong`, `sendpage` and `fairness` over `Ipc` |
| `FileSystem`, `MCFileSystem` | the inode table, the callbacks step by step, saving (cut at any byte), mounting (that may fail), crashes |
| `FileSystemProofs` | types, paths and remounting, for any number of threads; sizes, count and tree, for one thread that changes names |
| `Boot`, `MCBoot` | from power-on to the first `sched_yield` of every processor: memory detection, boot allocator, free list, `kern_pgdir`, processor table, the start of the other processors |
| `BootProofs` | the free list, the layout above `UTOP`, what `mem_init` writes to and the stacks, for any machines, processors and layout |
| `AddressSpaces` | what the memory calls promise: each environment a map from addresses to pages |
| `PhysMem`, `MCPhysMem` | the page allocator, page tables, page calls, pages in messages, loading and teardown; shown to implement `AddressSpaces` |
| `PhysMemProofs` | counts, free list, tables, loaded directories and that refinement, for any memory |
| `PrivateMemories` | what `fork` promises to programs: each environment a memory of its own |
| `CowFork`, `MCCowFork` | `fork`, `duppage`, the page fault handler and its return; shown to implement `PrivateMemories` |
| `CowForkProofs` | who shares what can be written, and that refinement, for any environments, pages and frames |
| `ShellParse` | the shell's parser, from tokens to commands |
| `Shell`, `MCShell` | the shell, its children, pipes and signal handler |
| `ShellProofs` | who holds the ends of a pipe, what is left at the prompt, and that a line is run as typed, for any lines and programs |

### 2.1 How `Kernel` corresponds to the code

One action is one handler, from the point where the CPU has the lock to the point where
it leaves the kernel or calls `sched_yield`. `pc[c]` says where CPU `c` is:

| `pc` | In the code |
|---|---|
| `off`, `spin_boot`, `spin_sched`, `spin_user` | an AP before `mp_main`; in `lock_kernel` called by `i386_init`, by `mp_main` or `trap` from the halt loop, by `trap` from user mode |
| `boot` | `i386_init` with the lock |
| `trap`, `ret`, `yield` | `trap` before dispatch; after dispatch (`trap.c:294`); entering `sched_yield` |
| `resume` | `env_run` after `unlock_kernel`, before it writes `env_cpunum` |
| `user`, `halted`, `monitor`, `panic` | user code; the `hlt` loop; the monitor loop of `sched_halt`; a failed assertion |

`sched_yield` is an action of its own because every caller ends in it and nothing can
come between on the CPU that holds the lock; `pc = "yield"` forces it. The two schedulers
are `RoundRobin` and `PrioridadMLFQ`, selected by the constant `SCHED_PRIORITIES` as the
preprocessor does. `LIBOS` restricts system calls to the arguments that `lib/` and
`user/` use: `sys_env_set_status` only on a child just forked, `sys_env_destroy` of a
child once, `sys_ipc_recv` with a valid address. With `LIBOS = FALSE` a program may pass
anything.

Abstractions, all in `Kernel`:

* an id is `<<slot, generation>>`; the generation wraps at `MAXGEN` (in the code after
  2^19 uses of a slot). A call with id 0 is the call with one's own id;
* memory, registers, message contents and statistics (`env_runs`, `ejecuciones`) are
  left out: no branch of the modelled handlers that changes a status, a queue or a lock
  reads them. A call that fails because of them is `OtherTrap`; `Ipc` has the contents of
  messages, `PhysMem` the memory;
* a queue is the sequence of what its window reads, so a ring overflow shows as
  overwritten elements (`Alias`); `MlfqRing` shows that this is exact (both
  specifications record the last call in `llamada`, so that each call of the code has to
  match the same call on sequences);
* in the round robin build the queues, which nothing reads there, stay empty;
* a CPU whose environment was freed under it (possible only after a second
  `sys_env_destroy` of a zombie, see section 3) stops: its page directory is gone;
* the overflow of an exception stack, at which the kernel panics (see section 3), is left
  out.

### 2.2 The lock, twice

`KernelLock` is implemented at two grains. `Spinlock` shows that the memory accesses of
`spinlock.c` implement it; `Kernel` shows that the handlers, which take the lock in one
place and release it in another (`trap` takes, `env_run` or `sched_halt` releases),
use it as a lock. In `Kernel` taking the lock is one step; that is what `Spinlock`
justifies.

### 2.3 How `FileSystem` corresponds to the code

A callback that changes names is cut at every place where another thread, a crash or a
failure makes a difference; `hilo[h].pc` says where thread `h` is:

| `pc` | In the code |
|---|---|
| `ocioso` | in no callback that changes names |
| `llenar` | `create_inode` after `search_free_inode` (`Crear` came so far) |
| `contar` | `create_inode` with the inode marked and `inode_amount` read, not yet written |
| `agregar` | `fisopfs_mkdir`, `fisopfs_create` before `add_dentry_to_parent_dir` |
| `reescribir` | `remove_inode` after the bit was cleared (`Quitar` came so far) |
| `descontar_quitado` | `remove_inode` with `inode_amount` read, not yet decremented |

`Escribir` and `Truncar` are one step each. `servidor` says whether the server is running
and whether its mount succeeded. `Desmontar` is `fisopfs_destroy` with `serialize`,
`DesmontarCortado` the same cut short by a full disk or a dying server, `Crash` a server
that dies without saving, `Formatear` and `Montar` the two branches of `fisopfs_init`, and
`MontarConError` the second when a `read` or `calloc` of `deserialize` fails: the inodes
read so far stay marked, their contents freed, the count is 0, and the server goes on. A
callback would then use freed memory and may do anything, so there is none in the model;
`Desmontar` still writes the count of 0 over the image.

`ImagenesCortadas` are the files that a save cut at any byte may leave, as `deserialize`
reads them: it takes whatever `read` returns above 0 for an inode, over memory that is
zero. The count or a size may have its low bytes only; the last inode may have part of its
path and nothing else, all of its path and no type (a file) or all but its contents, and of
a directory the text up to any byte. A path cut at a slash is the path of a directory; cut
inside a name it is any other name there. What is left of a name at the end of a directory's
text counts for its bytes only: that it may read as a name, and what happens to its end when
the next entry is written after it or a removal copies it, is left out. So is that
`serialize` runs on after a short write that is no error: the disk does not regain space
within a save.

External, from how FUSE calls the code: the kernel looks every path up with
`fisopfs_getattr` before it calls and holds the lock of the parent directory
(`Resuelve`, `PadreBloqueable`), and libfuse keeps a path that a call is using
(`Escribible`). `create_inode` depends on this: it does not look for the path itself.

Abstractions: a path is the sequence of its names, shorter than `MAX_PATH`; a directory's
text is how often each name is in it (the order never matters to the code, the
repetitions do: a removal drops every copy) and its length, `largo`; an entry takes
`ENTRADA` bytes, whatever its name. Of every inode there is the size that it states,
`size`, and the buffer that was allocated for it, `cap`: `add_dentry_to_content` grows both
when an entry does not fit, a removal copies the rest to a new buffer of the same `size`.
`malloc` fails in a mount only: the early returns of `create_inode` for want of memory change
nothing that anybody reads; those of `add_dentry_to_content`, `remove_inode` and
`fisopfs_truncate`, which leave a name or an inode without its other half, are left out. The
NUL that goes one byte past a buffer when an entry fills it exactly, or past the text of a
directory that a mount has read into a buffer of just its size, is not in `largo`: it goes
unnoticed, or the allocator aborts the server, which is a `Crash`. An `inode_amount` that a
cut image left too high may pass the table's end, where `serialize` reads what follows the
table: no inode in use, or the server dies there, as in `DesmontarCortado`. Times, owners,
permissions and bytes are left out. Three history variables: `guardado`, the tree the last
unmount saw and whether it was written whole; `sano`, whether no mount has failed or restored
less than was there; and `rutas`, whether no save was cut in the middle of a path. After a
loss the directories may list files that are gone, and `TreeConsistent` claims nothing more;
a piece of a path may be a path that is in use, and `PathsUnique` claims nothing more.

### 2.4 How `PhysMem` corresponds to the code

`mem` is the memory the kernel manages: `pp_ref`, `page_free_list`, the frames as page
directories and tables (`marco`), and for each CPU the addresses its TLB may translate as
they were (`tlb`). The functions of `pmap.c` are operators from one such memory to the
next, composed as the code composes them: `PageInsert` walks (and may allocate a table),
counts the page, removes what was there, writes the entry. A handler is one action, ended
by `Retorna` (the `lcr3` of `env_run`); the two loops of `env_free` are a step for each
iteration (`EnvFreePage`, `EnvFreeTable`, `EnvFreeDir`), and so is each page that
`load_icode` maps. `nucleo` is the CPU in such a handler, which keeps the lock.

The model meets `Kernel` at the status of an environment: it takes statuses, ids and the
lock as `Kernel` has them for library programs, lets `sched_yield` pick any runnable
environment, and follows `curenv` and `cr3` through every switch, because a directory may
be freed only when no CPU has it loaded. `PAGINAS_AJENAS` lets programs change the address
space of a child that already runs, which `lib/` does not do.

Abstractions: `check_perm` is left with `PTE_W` (the other bits change no branch but its
own early returns); an entry of a user page table is a page and that bit. What a user page
holds is left out, and so is the memory above UTOP, which no environment changes.
`sys_ipc_try_send` of an unmapped page reads through an unset pointer: the model lets the
call fail, or get past the checks as if they had succeeded.

### 2.5 How `CowFork` corresponds to the code

`fork` runs in user code, so a step is one system call or one store of one environment,
and steps of the others come between any two. `env[e].pc` says where program `e` is:

| `pc` | In the code |
|---|---|
| `usuario` | outside `fork` |
| `exofork` | after `set_pgfault_handler` (`fork.c:211`) |
| `hijo`, `propia` | `duppage` of page `n`, before its first and its second `sys_page_map` (`fork.c:82`, `fork.c:86`) |
| `uxstack` | after the loop (`fork.c:239`) |

A page fault may come at any store, inside `fork` too, where the stack is what is
written: `falta` is the page, and `paso` the next call of `pgfault` (`alloc`, `copia`,
`map`, `unmap`). The upcall returns through the stack of the program (`pfentry.S:70`),
which may fault in its turn. `ForkEnd` is the allocation of the child's exception stack
with the two calls that follow it: the child has not started and no one else looks at it.

The kernel under it is `PhysMem`'s, reduced to what programs see: a frame is free when
nothing maps it, `sys_page_alloc` fails when there is none. Page tables are not modelled:
that there is no page for the child's is `DupPageSinTabla`, at any page. `panic` stops the
program with its pages mapped. User programs map and unmap pages through `fork` only. `fork_v0`,
`dup_or_share` and `sfork` are called by no program and left out, like device pages.

### 2.6 How `Shell` corresponds to the code

`proc` is the system's process table as the shell sees it: state, parent, group, command,
the three descriptors, the spare ends of the pipe a process has made, whether a SIGCHLD is
pending. `proc[p].pc` is where a process is in `run_cmd` or `exec_cmd`:

| `pc` | In the code |
|---|---|
| `prompt`, `fork`, `espera` | the shell in `read_line`; before the `fork` of `run_cmd`; in its `waitpid` |
| `exec_cmd`, `redir` | a child that enters `exec_cmd`; in the command of a `BACK` |
| `fork_1`, `fork_2`, `wait_1`, `wait_2` | the runner of a `PIPE`, before its two `fork`s and its two `wait`s |
| `hijo_1`, `hijo_2` | the two children before their `dup2` |
| `programa` | after `execvp` |
| `exit` | back from `exec_cmd` in `run_cmd`'s child |

`SigchldHandler` may run in the shell and in every child that SIGCHLD was sent to, between
any two steps: that a child which is about to become a program still has the shell's
handler is in the code. `Bifurcado` copies `bg_pgid` as `fork` copies memory, which is why
the shell's own never changes. A `fork` may fail, `MAX_FALLOS` times. A `pipe` that fails
has no action of its own: it ends the process before it has children, as the first `fork`
of `PIPE` does when it fails. The `dup2` of a pipe end, which is open, onto descriptor 0 or
1 does not fail.

`ShellParse` has the parser as operators on tokens, and `ReadLine` applies it to what is
typed. External: `fork`, `waitpid`, `exit`, pipes and signals as POSIX has them, and
programs of three kinds (`Clase`): those that end by themselves, those that end with their
input, and those that write until nobody reads; a program without a kind does not exist.
Variables are expanded when the line is parsed, in the shell (`ExpandEnvironVar`), and
assigned when the child is about to become a program (`SetEnvironVars`). Of the built-ins
`cd` changes the shell's directory and `exit` ends it; the others change nothing. A `cd`
that fails is not done with: `run_cmd` goes on and looks for a program of that name, as
`RunCmd` does. Paths are whole and resolved; the contents of files and the heap are left
out, and so are lines that the C code does not survive (a stage without a program).

### 2.7 How `Ipc` corresponds to the code

A system call is one step, because it runs under the lock; what the library does between
two of them is in steps of its own, and those of other environments come between.
`lib[e].pc` says where program `e` is:

| `pc` | In the code |
|---|---|
| `user` | outside `ipc_send` and `ipc_recv` |
| `try`, `yield` | the loop of `ipc_send` before `sys_ipc_try_send`; before `sys_yield` |
| `recv` | in `sys_ipc_recv`, blocked or already woken |
| `perm`, `value` | `ipc_recv`, about to read `env_ipc_perm`; about to read `env_ipc_value` |
| `panic` | in the loop at the end of `_panic` |

`Init` lets every slot hold what its last owner left in the fields that `env_alloc` does
not reset. The branches of `sys_ipc_try_send` are actions of their own: no such
environment or nobody receiving, a value alone, a page, and a page that is not mapped,
where the code reads through a pointer that `page_lookup` has not set and the model
takes each of the outcomes. `thisenv` is a variable, since `fork` has to correct it.

Abstractions: every program sends from and receives at one address, `PAGINA`; permissions
are `PhysMem`'s; an environment is its slot, since a send to an id that is gone panics
like one to a free slot; `fork` is one step, before the program has a page (`CowFork` has
its steps); any environment that is not blocked may take the next step (`Kernel` has the
scheduling).

`IpcPrograms` has four programs of `user/` as state machines over these actions: `prog[e]`
is the place in the source and `salida` what was printed. `fairness` is widened to be a
test of everything: its programs may ask for pages, give addresses that are refused, have
pages, and be killed.

### 2.8 How `Boot` corresponds to the code

`mem` is what `mem_init` builds: `boot_alloc`'s pointer, the free list in its order, the
contents of `kern_pgdir` and of its tables. Memory is counted in pages, addresses from
`UTOP` up. `pc[c]` is where processor `c` is; the boot processor is 0.

| `pc` | In the code |
|---|---|
| `detect` to `page_init` | `mem_init` up to `page_init`, whose loop is a step per page |
| `sort`, `check_free_list` | the loop of `check_page_free_list(1)` that sorts the list, page by page; its assertions |
| `map`, `lcr3` | `boot_map_region` over `regions`, page by page, then `check_kern_pgdir`; the `lcr3` |
| `trap_init`, `mp_init`, `mp_entry` | `trap_init_percpu`; `mp_init` before and in its loop |
| `lapic_map`, `lapic_set` | `lapic_init` before and after `mmio_map_region` has the page |
| `lock`, `boot_aps`, `wait`, `sched` | `lock_kernel`; the loop of `boot_aps` and its wait; `sched_yield` |
| `parked`, `mpentry`, `mpentry_esp`, `started` | another processor before its STARTUP; in `mpentry.S`; before it sets `CPU_STARTED` |
| `up`, `monitor`, `panic` | out of the kernel, where `Kernel` goes on; the loop of `sched_halt`; a failed assertion |

The two STARTUP interrupts that `lapic_startap` sends are on their way in `ipi` and
arrive at any time; a processor that runs already takes no notice. `Kernel` has all this
in one action, `MpMain`. A panic stops the boot processor: the assertions that the boot
runs over its own work (`check_page_free_list`, `check_kern_pgdir`) are part of it, with
the exact comparison of `boot_alloc`, which refuses an allocation that fits to the byte.

`Boots` is about the boot: the environments that the boot processor runs first do not all
end before the last of the others has reached its `sched_yield`. If they did, that one would
find nothing left and enter the monitor (`sched.c:276`), as `Kernel` has it; `Halt` of `Boot`
enters it only while no environment was made.

`BootAssumption` states what the code takes for granted: APIC ids are positions in the
table and the boot processor is the first (`trap_init` gives it CPU 0's TSS before
`mp_init` has found out); there is no more memory than fits above `KERNBASE`, and base
memory ends where the I/O hole begins; the page that `mpentry.S` runs from is below the
hole, and the kernel's image, with its stacks, between the hole and the end of the 4 MB of
`entry_pgdir`; and the constants of `memlayout.h` fit together (`PTSIZE` is enough for the
arrays at `UPAGES` and `UENVS` and for the stacks, and what is above `KERNBASE` is made of
whole page tables). `LowMemory` adds what `mem_init` counts on until its `lcr3`, on a machine
with as much memory as there may be: all that `boot_alloc` gives out is in the first 4 MB,
and in what is left of them there is a free page for each table. In the code that is at most
67 tables (64 above `KERNBASE`, and those of `UENVS`, `UPAGES` and the stacks), of which the
158 free pages below the I/O hole would be enough, and 256 MB of memory take 128 pages of
`struct PageInfo`.

## 3. Runs

Bounds: `NCPU`, `NENV`, `MAXGEN`, `NINICIAL` (environments created at boot),
`MAX_EJECUCIONES_MLFQ` (50 in the code), `MAX_ENTRADAS` (queue entries explored),
`MAX_INDICE` (ring indices explored). Two CPUs give every pairwise race of the kernel,
since only one CPU at a time is inside and the others differ only in where they wait;
three slots give two environments on the CPUs and a third waiting, forked or reused. Two
generations are enough for a stale id to be told from the current one and, after the
wrap, to be mistaken for it; `kernel_rr`, with three slots, has one, so that there an old
id always names the slot's new owner.

| Run | Instance | Checks |
|---|---|---|
| `spinlock` | 3 CPUs | no false panic, refinement of the lock (exclusion), `SomeoneEnters` |
| `mlfq_ring` | ring of 2, 3 interchangeable ids, indices to 6 | refinement of the sequences, call by call, past overflow |
| `kernel_rr` | 2 CPUs, 3 slots, 1 generation, fair | the safety and action properties of the table, the free list, the CPUs and halting; every zombie is freed |
| `boot` | 8 memories, 5 processor tables, 3 entries in `cpus[]`, fair | the free list, what entry_pgdir reaches, the layout above `UTOP`, a stack for each processor, all of them get out of the kernel |
| `kernel_mlfq` | 1 CPU, 3 slots, 2 generations, at most 3 entries, fair, arbitrary arguments | queues cover the runnable environments, best priority first, every runnable environment runs |
| `ipc` | 4 environments, 2 pages, values to 10, primes to 7, fair | refinement of `Rendezvous`; what the programs print; a receiver is served |
| `file_system` | 1 thread for names, 3 inodes, 2 names, depth 2, buffers and entries of 2 bytes, files of up to 3, 2 mounts | the tree, unique paths, the count, files and directories inside their buffers, remounting |
| `phys_mem` | 2 environments, 2 CPUs, 6 frames, directories of 2 tables of 1 entry, any page calls | counts, free list, private tables, loaded directories, stale translations, lost pages, refinement of `AddressSpaces` |
| `cow_fork` | 3 environments, 7 frames, programs of 3 pages, 2 contents | frames shared by two pages are read-only; refinement of `PrivateMemories`, in which faults and `fork` change nothing that a program reads |
| `shell` | 6 lines, 6 processes in a session, 1 failed fork, fair | nothing of a foreground line is left at the prompt, descriptors, arguments and variables as typed, ends of pipes, the prompt comes back |

In `kernel_mlfq` the promotion comes after 2 dispatches instead of 50, so that it
happens in every behaviour; at most `NENV` entries means that no ring overflows. What
happens beyond is under "Disagreements" below. One CPU is enough there: the queues are
changed under the lock only, and the theorems on them hold for any number.
Neither `kernel_rr` nor `file_system` lists its type invariant, nor `kernel_rr` the lock:
these are theorems (section 4).

In `ipc` four environments are three primes and the generator, which sends until the
fourth `fork` fails; `MAX_ENTERO` is 7, so that one number (4 or 6) is filtered out by the
first prime and one, 7, reaches the environment that cannot fork. `pingpong` counts to 10,
as in the code. Two pages are enough to send one to an environment that has one, and to
have none left. Slots start with what a last owner left, the same in all of them, or
clean. Programs end and panic, so deadlock is not checked.

In `phys_mem` six frames hold two directories, two or three tables and one or two pages,
so that memory runs out in the middle of calls; two environments give a parent, a child, a
sender and a receiver, and pages shared between them and within one. Counts stay below
`REF_MOD`, which is 2^16 in the code. Frames, slots and CPUs are interchangeable
(`SYMMETRY`): nothing orders them but the free list, which is part of the state.

In `file_system` a new buffer is as long as one entry, so that a directory
with one name fills it exactly and one with both has to grow. A table of 3 inodes has the
root, a directory and a file in it, or two siblings, and can be full; a hole in the table
with an inode after it needs one creation and one removal less than that. A piece of a
path, which is where `PathsUnique` ends, is a directory's at depth 2; three bytes are a file
that grows past its buffer, is written in its middle and cut, and a text cut inside an
entry. Two mounts are the first and one of a saved or cut image, or one that fails, with
whatever is done, and saved, after it. What a third adds rests on the theorems, which are
for any `MAX_MONTAJES`, as they are for any size and depth. Nothing but that bound makes the
run stop: a file system that is not mounted may stay so, so deadlock is not checked there.

In `cow_fork` a grandchild needs three environments; three pages are the stack, one that
is written and one that may be read-only. Seven frames are enough for a parent and a child
with an exception stack each and a private copy of two pages, and too few for three
programs: memory runs out in every place where a page is asked for. Environments are
interchangeable (`SYMMETRY`). `Vista` (`VIEW`) replaces a frame by its contents and the
places where it is mapped: the number of a frame decides nothing, because nothing reads a
free one before it is zeroed or copied over. A program that has panicked, or has no page
left, may stop for good, so deadlock is not checked.

In `shell` there is one line of each shape: a `cd`, a simple command that fails, with the
last status and an empty variable among its arguments, a background command, a pipe of
three whose first program never ends by itself and whose others assign variables, one of
them twice and one that the shell has too, redirections of all kinds with `2>&1` in their
midst in front of a program that does not exist, and a line that begins like a `cd` and
has `&` and `|` both. Six processes are a pipe of three with its two runners and the
shell, or two or three shorter lines of which the first is still running; pids are not
used twice, so a session ends when they are used up, and the shell may exit: deadlock is
not checked.

In `boot` the 4 MB of a page table are 24 pages, a stack is two pages and its gap one.
The memories are too small for `boot_alloc` by one page and just enough for it, just not
enough and just enough for the page tables, below and above 4 MB; the tables are absent,
with one processor, with as many as `cpus[]` holds and one more, and with an entry that
`mp_init` does not know. `Adequate` asks for 4 MB; below that the boot may panic. The model
ends where `Kernel` begins, so deadlock is not checked.

Runs that end in a violation, each a disagreement between the code and what the
repository says of it (`findings` in `PROJECT.json` has the quotes):

| Run | What it shows |
|---|---|
| `fs_lost` | after a removal the unmount writes fewer inodes than there are: the loop of `serialize` stops at `inode_amount`, which counts inodes, not slots |
| `shell_status` | the handler may reap the foreground child before `run_cmd` waits for it: `$?` is then the old status, decoded once more |

Round robin restarts at slot 0 whenever the CPU's last environment died, so that a
steady supply of dying children keeps higher slots from ever running: `RunnableRuns`
is checked in the MLFQ build only.

Disagreements that have no run of their own. In `scheduler/`:

* with `LIBOS = FALSE`, TLC finds `OneCpuPerEnv` violated: `sys_env_set_status`
  (`syscall.c:186`), or a send after a `sys_ipc_recv` that was rejected
  (`syscall.c:423`), makes a running environment RUNNABLE and a second CPU runs it too
  (`user/stresssched.c:25` checks that this never happens);
* with `MAX_ENTRADAS` above `NENV`, TLC finds `HaltsOnlyIdle` violated: entries of dead
  environments fill the ring (`sched.c:93`), a live one is overwritten and the CPU halts
  although it is runnable;
* `sys_page_alloc` takes the last page, finds none for the page table and does not give
  the page back (`syscall.c:60`; the comment at `syscall.c:238` asks for it). For the
  same reason a page that needs none may be refused: `sys_ipc_try_send` allocates a page
  that it gives back at once, and fails without one.
  `LostOnlyWhenExhausted` says that pages are lost in no other way;
* `env_ipc_perm` is written only if the receiver asked for a page (`syscall.c:397`): one
  that did not, and is sent a page, finds the permission of an earlier message there,
  although "`env_ipc_perm` is set to 'perm' if a page was transferred, 0 otherwise"
  (`syscall.c:339`) and `*perm_store` "is nonzero iff a page was successfully transferred"
  (`ipc.c:10-12`);
* `sys_ipc_recv` takes address 0 for "no page" and refuses every address from `UTOP` up
  (`syscall.c:424`), where its comment makes those mean "no page" (`syscall.c:413-419`).
  Refused, it has already set `env_ipc_recving` (`syscall.c:423`): the next send to the
  environment succeeds and is lost, although "the send fails [...] if the target is not
  blocked" (`syscall.c:329`);
* when the exception stack overflows the kernel panics (`trap.c:372`), where the comment has
  the environment destroyed (`trap.c:336-338`);
* a send of a page that is not mapped may leave a blank page in the receiver's place and
  fail, although "the ipc only happens when no errors occur" (`syscall.c:346`);
* `fork_v0` panics on its first page: `dup_or_share` leaves nothing
  but `PTE_W` of the permissions and the system calls ask for `PTE_U | PTE_P`. No program
  calls it;
* `pgfault` never panics on a write to a page that is not copy-on-write, as its comment
  demands (`fork.c:21-23`): `(err & FEC_WR) & !(pte & PTE_COW)` is 2 & 0 or 2 & 1. A
  read-only page is copied and becomes writable;
* with `LIBOS = FALSE`, TLC finds `ZombieFreedByItsTrap` violated: `env_destroy` tests
  for RUNNING only (`env.c:481`), so destroying a zombie a second time, before it traps,
  frees it under its CPU;
* in the MLFQ build a slot that is used again may have an old entry beside its own, and
  an environment that has moved down to `cola_c` then runs before one of `cola_b`
  (`PriorityRespectedIfUnique` without its condition; `sched.c:228`);
* `page_remove` must invalidate the TLB, says `pmap.c:543`, and does so on its own CPU
  only: a child that runs elsewhere while its parent remaps its pages goes on with the
  old translation (`StaleOnlyByParent` says that this is the only way);
* `page_init` is to free base memory up to `npages_basemem` (`pmap.c:302`) and frees it
  up to `IOPHYSMEM`, 640 KB; `npages_basemem` is computed and never read. Where the NVRAM
  says less than 640 KB, pages are on the free list that the machine keeps for itself;
* `sys_cputs` says that it checks for permission to read and asks for `PTE_W`
  (`syscall.c:86`).

In `shell/`:

* children of `&` lines are never reaped: their group is not the one that the handler
  waits for, since `bg_pgid` is assigned in the child only (`exec.c:170`). Each of them
  gets a group of its own, where the comment speaks of the first one's;
* `cmd < f` sends the errors to the output: `err_file` and `out_file` are both empty, so
  the test for `2>&1` succeeds (`exec.c:187`). `WiresAsTyped`, a part of `LineAsTyped`,
  has the exception;
* `a 2>&1 &` runs in the foreground: `parse_cmd` looks at the first `&` only
  (`parsing.c:210`);
* a `cd` that fails goes on as a command (`builtin.c:44`): after the message of `chdir`
  comes that of `execvp`, and `$?` is 255;
* `run_cmd` does not test its `fork` and then waits for any child (`runcmd.c:44`); the
  status of a pipe stays undecoded in `$?` (`printstatus.c:11`).

In `file_system/`:

* with two threads in `Hilos`, TLC finds `TreeConsistent`, `AmountCovers` and
  `SizeWithinBuffer` violated: two creations take the same free inode, one of their updates
  of `inode_amount` is lost, or a creation takes the inode of an unfinished removal and has
  its content freed (`fs.c:74`, `fs.c:98`, `fs.c:161`);
* `deserialize` accepts a part of an inode (`fs.c:249`): after a save that was cut inside a
  path two inodes may share one (`PathsUnique` without `rutas`);
* `deserialize`, when it fails, "libera recursos ya asignados" (`fs.c:231`) and leaves the
  inodes whose contents it has freed in use (`fs.c:269-275`): the server serves them, and its
  unmount saves an empty table over the image;
* the first mount leaves an empty file (`fisopfs.c:347`); if the server dies before it
  unmounts, every later mount loads a table without a root;
* `--filedisk NAME` of the README is parsed, but mounting and unmounting open the
  default file;
* a write in the middle of a file ends the file there (`fisopfs.c:291`), and truncating
  to 0 leaves 1024 zeros; the model has both as they are.

### Fairness

`Spinlock`: weak fairness of the steps inside `spin_lock` and `spin_unlock`; a CPU does
not stop there (interrupts are off). Nothing is assumed of who wins the `xchg`, and only
`SomeoneEnters` is claimed.

`Kernel`: weak fairness of what a CPU does by itself in the kernel (`KernelStep`), of
entering the kernel from user mode and from the halt loop (the local APIC's timer is
periodic, `lapic.c:68-74`), strong fairness of `Timer` (a program that keeps making
system calls is interrupted again and again; sooner or later the trap is the timer's) and
of `LockKernel` (a CPU for which the lock keeps being free gets it: handlers are short,
and `unlock_kernel` pauses so that another CPU can take it, `spinlock.h:41-45`). No
fairness is assumed of system calls: a program may stop calling.

`Boot`: weak fairness of every processor and of the delivery of its interrupts.

`IpcPrograms`: weak fairness of each environment's next step, which is what `RunnableRuns`
gives a runnable environment. Nothing is assumed of which of two senders finds the
receiver ready, and `SomebodyIsServed` claims nothing about one sender; environments may
be killed in `fairness` and need not be.

Deadlock is checked in every run but those of the file system, the shell, `boot`, `ipc`
and `cow_fork`. The monitor loop is a step that changes nothing, so a
machine that ended there is not a deadlock; a CPU that waits for ever elsewhere would be.

`Shell`: weak fairness of each process, its signal handler included, but not of the
shell at its prompt: the system runs every process that can run. It covers that a program
which can end does: `PromptReturns` is about lines whose
programs end by themselves, with their input or on SIGPIPE. Nothing is assumed of what is
typed, nor of which of `waitpid` and the handler comes first.

`FileSystem`, `PhysMem` and `CowFork` claim nothing that needs fairness.

## 4. Proofs

All theorems hold for every value of the constants allowed by the modules' assumptions.

`KernelPartsProofs`, the lock. Exclusion alone is not inductive: it does not say what `locked` and
`cpu` hold while a CPU is inside. `IInv` adds that `locked` is set while anybody is
inside and that `cpu` names the CPU between its two writes. From it follow
`SpinlockExclusion`, `SpinlockNoPanic` and, with every step mapped to a step of
`KernelLock` or a stutter, `SpinlockImplementsLock`.

`KernelPartsProofs`, the rings, for any `NENV` and any number of additions, overflow
included. `Lee` is what a window of positions reads of an array of cells, and two positions
are the same cell exactly when their distance is a multiple of `NENV`. The lemmas say of
each function of `sched.c` what a window reads after it: that an addition shows at every
place of the window that is its cell (`LeeAgregar`), and that the removal, which copies
cell by cell on top of what it still has to read, leaves what the sequence's removal leaves
(`LeeEliminar`, `LeeBorrar`). `promover_todos` is a loop of additions to a queue that
may overflow while it is filled; the invariant of the loop is that the window reads, at each
place, the last entry written to its cell (`Cerrada`). The recursive function of the loop
exists because the least round for which it did not would have one before it.
`RingImplementsQueues` is then one step per call.

`KernelProofs`, the operations on queues. For every ring size all of them turn queues of
ids into queues of ids. While a window fits its ring `BorrarRoom` says what a removal does
(the entry at that position is gone, the first one is in its place and the others where they
were), and `PromoverRoom` what a promotion does (the four queues are one after the other in
the first). Past that cells are shared, and what is then read of the rings is what
`RingImplementsQueues` says.

`KernelProofs`, the kernel. `KInv` is `TypeOK`, `LockHeldInKernel`, `NoPanic` and what makes them
inductive: a CPU is halted exactly when its `cpu_status` says so (that is why `trap`
takes the lock again, once), and a CPU that runs or serves an environment has one.
`KernelInvariant` proves it for any number of CPUs, slots and generations, both
schedulers and arbitrary programs; `KernelTypes`, `KernelLockHeld` and `KernelNoPanic`
are its parts and `KernelImplementsLock` the refinement of `KernelLock`.

`KernelProofs`, the table. None of the properties of the table is inductive alone: a slot may be
allocated, freed or woken only if no CPU runs it, which the kernel knows from its status
only, and the status is right only because of the others. `TInv` joins `OneCpuPerEnv`,
`FreeListExact` and `RecvingIsBlocked` with `RunningHasCpu` and `CurenvStatus`, which says
for each place a CPU can be in what the status of its environment may be (for instance:
blocked only in `sched_yield` or the monitor). Each action is then one of eight kinds of
step (`MoveStep`, `RunStep`, `HaltStep`, `FreeSelfStep`, `FreeChildStep`,
`OtherStatusStep`, `BlockStep`, `AllocStep`), and each kind preserves `TInv`. These
theorems assume `LIBOS`; without it they are false (see the disagreements in section 3).
`RecvingIsBlocked`, `BlockedStaysBlocked`, `CpunumIsCurrent` and `MonitorOnlyWhenDone` are
proved for every instance, so no run repeats them; `MutualExclusion` and
`LockHeldInKernel` are what the refinements of `KernelLock` rest on.
`KernelMonitorOnlyWhenDone` and `KernelHaltsOnlyIdle` (round robin) need no such
assumption; the latter rests on the well-foundedness of `<`: among the runnable slots one
is nearest after `curenv`.

`KernelProofs`, the queues of environments, for any number of CPUs and slots and any programs. It assumes that
no ring overflows (`MAX_ENTRADAS <= NENV`; beyond it the theorems are false) and, for the
order of dispatch, the MLFQ build. That every runnable slot has an entry says nothing of
where it is, while every operation moves entries about; what is common to adding, removing
and promoting is that each entry they keep goes to a place that no other goes to
(`Conserva`). So no slot loses its entry, a slot with two keeps two, and an entry that has
always been alone is where `cola_actual` says (`Localiza`), which is what
`PriorityRespectedIfUnique` needs. `RunnableQueued` follows once every action is seen to
make a slot runnable only together with an entry, or to find one there.

`IpcProofs`, for any environments, values and pages and programs that call in any order.
A receiver reads three fields in three steps; what protects them is that the sender which
wrote them closed the receiver, and only the receiver opens itself again. `IInv` says so:
in the system call it is open exactly while it is blocked, past it it is closed and what
it has read is still in the slot. Each action then maps to one action of `Rendezvous` or
to a stutter.

`FileSystemProofs`, for any number of threads. `TypeOK` is inductive. `PathsUnique` is
not: `create_inode` adds a path without looking, so `RutasUnicas` adds that a path about
to be added is not in the table, that no two threads are about to add the same (both from
the parent's lock), and that the image has no path twice. All of it is said until a save is
cut in the middle of a path (`rutas`): of the images that any other cut leaves `CutParts`
says that they are a beginning of the whole one, but for what the last inode has besides its
path. `RemountRestores` rests on
`ImagenFiel`: what the image shows is the saved tree, if it was written whole. That needs
what `serialize` computes: `ImageParts` and `ImageComplete` say that the k-th inode of the
image is the one with k - 1 before it in the table, and that none below `inode_amount` is
missing (`RankExists`, by the least counterexample).

Its second part assumes `UnHilo`, at most one thread that changes names; with two
the theorems are false. A mount that fails ends what they say of the table (the count is 0
and the buffers are gone), until the next one. Each invariant follows a callback through its steps: the slot of
an unfinished removal is free and neither a file nor a directory is longer than its
buffer, in the table (`TamaniosOK`) and in the image, from which a mount allocates
(`CabeDisco`), the count is ahead of the table by the inode under way (`CuentaOK`, which
also says that an image is no longer than its count), and the parent directory is there
and lists the new name not yet, or the old one still (`ArbolOK`, which carries the saved
tree's order across a mount).

`PhysMemProofs`, for any pages, environments, CPUs and shape of the page tables. The code
of `pmap.c` is written as operators on a memory, and the proof follows it function by
function: `Buena(m, d, x)` says of a memory `m` and the directories `d` that every count
is right (`Contada`), where `x` is a page already counted and not mapped yet or the
reverse; that only directories and tables have entries, a directory has one owner and a
table one entry (`Forma`); and that what is on the free list has no references and is
there once. Counts alone are not inductive: `page_remove` may release a page only because
no entry of a *table* is taken for a mapping, and `env_free` a table only because nothing
else points to it. `InvProcesos` adds what the handlers in `env.c` and `syscall.c` need:
that an environment has a directory exactly while it is not free, what each CPU runs and
has loaded, and what a handler of several steps has done so far. One lemma per function
says what it does to `Buena`, to the TLBs and to `Espacio`, the map of `AddressSpaces`;
one per action puts them together, and the seven theorems are read off.

All of them assume `[]SinVuelta`: no `pp_ref` is at its limit. The field has 16 bits, the
code bounds nothing, and after 2^16 mappings of a page the count wraps and every property
here is false; that is a hazard of the code (section 1), not a convenience. The hypothesis
is met by all the states of run `phys_mem` (there a count has three bits), and
`SinVueltaTheorem` proves it for machines whose tables, full of one page, do not fill a
count.

`CowForkProofs`, for any environments, pages, frames and contents. Who may write a shared
frame depends on where the parent is in the loop of `fork`. `IInv` says it of every step:
a child being made belongs to one parent, has exactly its pages up to the one at hand,
with equal contents but for the stack (`Hijo`); the page a fault handler is filling is
nobody else's until it is mapped, and holds the copy (`Temporal`); and a writable frame is
shared only by the parent and the child, at the page between the two calls of `duppage`
(`Compartida`). A step of a page fault moves the memory of nobody, which is why the
handler may be interrupted between its calls; the other steps are those of
`PrivateMemories`. The least free frame, which `page_alloc` takes, exists because `<` is
well-founded.

`ShellProofs`, for any lines, programs, failures of `fork` and number of processes. Its
first half needs nothing of the parser: of a command it uses only the number of stages.
`Tipos` says that pids are handed out in order. `Pipes` follows the ends of a pipe: what a
process holds is fixed by its place in `exec_cmd` (`Extra`), one that reads a pipe has a
maker that has forked twice, and one that writes to a pipe neither made it nor forks again
(`Descriptores`); since the maker closes the write end at its first fork, and only then has
a writer, there is never a second one. `Familias` counts: before each `wait` a process has
no more children than waits to come, parents are older than their children, and a process
without a parent that waits for it is an `&` line or was left by a `fork` that failed. At
the prompt nobody can be in the middle of a pipe, because the oldest that were would have a
parent in the middle of one; that step takes the least pid, by the well-foundedness of `<`.

Its second half is `LineAsTyped`, of any line that it can speak of (`LineaClara`): lines of
any length where the program comes first among the arguments of its stage and tells that
stage from the others, files have names and nothing follows an `&` in its stage. That is
what lets the property find the stage of a program, not what the code needs; other lines
are run too, and are outside the theorem. `MCShell` assumes it of its lines, so TLC
evaluates it there. What the parser does is proved by position: the recursive functions of
`ParseLine` and of `EnOrden`, which keeps some tokens of a sequence in their order, are
followed by least counterexample, from the last bar back and from the first token on.
`ComoEscrita` is the outcome: the command of stage `i` has the redirections, the arguments
and the variables that stage `i` of the line says. What the processes do is `LInv`, a
second invariant on top of the first: what the shell runs is what the parser made of the
line (`Encargo`); each process of the line has the stages from one on, or one alone, and
its descriptors are what that place says, the pipe of its parent included (`Linajes`); no
two processes have the same two stages or more, so that there is one pipe between two
neighbours (`Unicos`); and the variables are those of the shell until the program starts
(`Ambientes`). Where `exec_cmd` forks, the chain must be followed through the parent, which
has its old stages until it has forked twice.

`BootProofs`, for any machines, number of processors and layout. `IInv` has two halves.
`Construccion` is about the memory that `mem_init` builds. That the free list is clean
needs the two lists that `check_page_free_list` sorts it into: no page is in two of them or
twice in one, and none is an allocation's or a table's (`Listas`). That `LayoutHolds` needs
every round of `boot_map_region`: each address of a region is mapped as the region says or
is still to be mapped, nothing else is but what the processors have mapped for their
APICs (`Mapa`), and each table has one entry of `kern_pgdir` (`Directorio`), so that an
entry written in one table is not seen through another. The regions do not overlap, which
is arithmetic on `memlayout.h`. `Puesta` is about the processors: all read their stack from
one variable, so a processor that is anywhere between the STARTUP interrupt and
`CPU_STARTED` is the one that the boot processor waits for (`Secundario`); who has been
started has the stack of its own number, and the TSS in its slot of the `gdt` is its own
(`Tss`). `mp_init` numbers the processors in order, whatever the table holds
(`BootCpu`). Every action preserves both halves, and `FreeListClean`, `LayoutHolds` and
`StacksPrivate` are read off. `WritesReachable` is a count on top of them (`Alcance`).
`check_page_free_list` puts the pages below 4 MB first (`Repartidas`), and no page that
nobody uses is missing from the list, because `page_init` looked at each; so either all are
below 4 MB or there are at least as many in front of the first that is not as `LowMemory`
says. From then on every table takes one page from the front and one off the tables that are
missing: a page that is out of reach is never at the front while there is a table to make
(`BajasPrimero`).

Only model-checked: the liveness properties (`SomeoneEnters`, `RunnableRuns`,
`ZombieFreed`, `PromptReturns`, `Boots`, `PrintsAll`, `SomebodyIsServed`), which are beyond
the prover. Every invariant and every action property that a run checks is a theorem too.

## 5. Not modelled

Left out for good: device drivers, console, monitor commands, stabs lookup, ELF loading,
formatting and the library's string functions, none of which another part's correctness
depends on; `fisopfs_read`'s bytes, times and owners. Of `user/`, the programs that use one
call each add nothing to `Kernel` and `CowFork`, where programs are arbitrary; `pingpongs`
stops at its first call (`sfork`). The generated and vendored parts (the table in
`entrypgdir.c`, `gradelib.py`) hold no behaviour of their own.

One width is left out: ring indices, which only grow and overflow after 2^31 additions to
a queue. That of `pp_ref` is modelled (`REF_MOD`), but no run has the 2^16 mappings of a
page that would make it wrap.
