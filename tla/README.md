# A TLA+ model of the systems in this repository

The repository holds the course projects of an operating-systems class: a
multiprocessor JOS kernel (`TP2-sched`), a FUSE file system (`TP3-fisopfs`), a
shell (`TP1-shell`), two process exercises (`TP0-fork`) and some small tools
(`challenges`, `ejemplos`). This directory keeps specifications of the parts
whose correctness depends on what several CPUs, threads or processes do at the
same time or on what fails half way, TLC configurations that check them on small
instances, and TLAPS proofs, for every instance, of the kernel's scheduler, of its
memory, of the file system, of the sieve of processes and of the shell.

| modules | part | section |
|---|---|---|
| `EnvSched`, `EnvFamily`, `EnvSched_proofs` | environments, scheduler, traps, the big lock, IPC blocking | 3 |
| `Memory`, `UserFork`, their `_proofs`, `AddressSpaces`, `UserForkSpaces_proofs` | physical pages and page tables, user-level fork, page faults, IPC pages | 4 |
| `Fisopfs`, `FisopfsLost`, `Fisopfs_proofs`, `FisopfsTree_proofs`, `TreeFs`, `MCFisopfs` | the FUSE file system | 5 |
| `Unix`, `Primes`, `Primes_proofs` | the sieve of processes | 6 |
| `Unix`, `Shell`, `Shell_proofs`, `MCShell` | what the shell does with a line | 7 |
| `BootMemory`, `CheckMemory`, `ShellParse`, `Console`, `MCAlgorithms` | sequential computations | 8 |

## 1. Inventory

### The kernel (TP2-sched)

| part | state | operations | interacts by |
|---|---|---|---|
| environments (`kern/env.c`) | `envs[]` (status, id, parent, priority, runs, cpunum), `env_free_list`, `curenv` of each CPU | `env_alloc`, `env_free`, `env_destroy`, `env_run`, `envid2env` | called by the scheduler, the traps and the system calls |
| scheduler (`kern/sched.c`) | `env_priority`, `env_runs`, `last_env`, statistics | `sched_yield` (round robin or priorities, chosen at build time), `sched_halt` | picks from `envs[]`, ends in `env_run` or a halted CPU |
| traps (`kern/trap.c`) | `cpu_status` | `trap`, `trap_dispatch`, `page_fault_handler` | takes the lock, reaps zombies, calls `syscall` or `sched_yield` |
| system calls (`kern/syscall.c`) | the IPC fields of `struct Env` | exofork, set_status, destroy, yield, IPC, page calls, priorities | act on `envs[]`, often on another environment's entry |
| big kernel lock (`kern/spinlock.c`) | `kernel_lock` | `lock_kernel`, `unlock_kernel` | taken in `trap`, `mp_main`, `i386_init`; released in `env_run` and `sched_halt` only |
| memory (`kern/pmap.c`) | `pages[]`, `page_free_list`, the page directories | alloc, free, insert, remove, decref, `user_mem_check`; `mem_init` at boot | page system calls, `env_free`, IPC |
| user library (`lib/fork.c`, `lib/pgfault.c`, `lib/ipc.c`) | page tables seen through `uvpt`, `env_pgfault_upcall`, `_pgfault_handler` | `fork`, `fork_v0`, `set_pgfault_handler`, `pgfault`, `ipc_send`, `ipc_recv` | system calls only; the kernel calls it back through the upcall |
| console (`kern/console.c`, `lib/readline.c`) | the circular buffer `cons`, the shift state | `kbd_proc_data`, `cons_intr`, `cons_getc`, `readline` | whoever asks for a character polls the devices first |
| devices, monitor, printing | hardware | | the timer interrupt |

What is hard here. Only one thing serialises the CPUs, the big lock, and it is
taken and released in different functions, some of which never return: a trap
takes it, `env_run` or `sched_halt` drops it. `env_run` writes `env_cpunum`
after it has dropped it. An environment that runs on one CPU can be destroyed,
sent to or have its status set from another. Ids are reused with a bounded
generation. The scheduler ages priorities and lifts them, and claims that
nobody starves. A page is a directory, a table or memory of one or several
environments, and every call that counts its references may run out of memory
half way. `fork` is a sequence of system calls of a program whose own stack
becomes copy-on-write in the middle of it, with page faults, other environments
and destruction between any two.

What makes it correct: an environment is current on one CPU at most; RUNNING
and DYING mean some CPU has it; a slot is on the free list exactly while free;
a zombie is freed once, by its own CPU; a blocked receiver is resumed by a send
only; nobody is ended by a stranger while ids have not all been used; a CPU halts only with nothing to run; the
monitor is entered only with nothing alive; everyone who is runnable runs; a
page's count is the number of its references and it is free exactly when that is
zero; an environment sees only its own writes, and a forked one starts with its
parent's memory.

### The file system (TP3-fisopfs)

State: one `superbloque` in memory (1024 inodes with path, content and a
bitmap) and a file on disk. Operations: the FUSE callbacks (create, mkdir,
unlink, rmdir, read, write, truncate, readdir, getattr, utimens), `init` which
loads the file, `flush` and `destroy` which write it. libfuse runs callbacks on
several threads and nothing here is locked. Hard: two creations that choose the
same free inode; a full directory or table half-way through a creation;
directory entries where inode 0 means "empty" although 0 is the root; a crash
between two saves or in the middle of one. Correct when: every name in a
directory leads to an inode of that path and every inode in use has a name,
unless its own creation failed for want of room; no
two files share an inode; bytes past the end of a file read as zero after it
grows; what is on disk after a clean unmount is what was in memory.

### The shell (TP1-shell)

State: child processes, process groups, pipe ends, the `SIGCHLD` handler that
reaps with `waitpid(0)`. Operations: run a command in the foreground or the
background, a pipeline, redirections. Hard: `setpgid` happens in the child, so
the handler may reap a foreground child before the main `waitpid`; every unused
pipe end must be closed or a reader never sees the end of file; a pipeline's
exit status is lost. Correct when: every child is reaped; a pipeline ends
when its commands do; the status printed is that of the command; a line is
executed as it says.

### Process exercises (TP0-fork) and tools (challenges, ejemplos)

`primes` is a sieve of processes joined by bounded pipes: it must print exactly
the primes, in order, and every process must end. `xargs` groups lines four by
four. `timeout` races an alarm with the end of its child. `strace` alternates
two stops per system call. The rest read files and print.

## 2. Plan

Done, in this order:

1. `EnvSched`, the kernel's core, with both schedulers, and its theorems.
2. `Fisopfs` and its promise `TreeFs`: FUSE threads over one superblock, saves
   and crashes; its theorems for one thread.
3. `Memory` (operators on the kernel's memory), `UserFork` over it (the state
   machine), its promise `AddressSpaces`, the theorems of the first two, and that
   `UserFork` implements `AddressSpaces`.
4. `Unix` (processes and pipes, external) and over it `Primes` and `Shell`, with
   their theorems.
5. The sequential parts over all small inputs: `MCAlgorithms`.

Left, most important first:

1. An abstract specification of the core, in which a CPU simply takes and gives
   back environments, refined by `EnvSched`.
2. Two FUSE threads in one directory, where the inode is not shared but `unlink`
   and a creation still overlap.
3. The scheduler's statistics, `xargs`, `timeout`.

A violation run is there only where the code and its documentation really
disagree: `starved`, `overflow`, `leak` and `fs_threads`.

## 3. EnvSched

### The correspondence

| model | code |
|---|---|
| `env_status`, `env_id`, `env_parent_id`, `env_priority`, `env_cpunum`, `env_ipc_recving` | the fields of `struct Env` |
| `env_ran` | `env_runs > 0`, the only thing the scheduler asks of the counter |
| `env_free_list` | the list through `env_link`, as a sequence |
| `curenv[c]`, `cpu_status[c]` | `cpus[c].cpu_env`, `cpus[c].cpu_status` |
| `kernel_lock` | the CPU that holds the lock |
| `pc[c]` | `user`: in user mode; `trap`: spinning in `trap`; `kern`: holding the lock, in `trap`, with `curenv` set; `leave`: in `env_run` after `unlock_kernel`; `start`, `kern_idle`: the same as `trap` and `kern` without a `curenv`; `halted`; `monitor`; `panic` |

What happens between two lock operations is one atomic action, because all the
state it touches is protected by the lock; the actions outside the lock are
`TrapUser`, `TimerHalted`, `Lock` and `ReturnToUser` (the tail of `env_run`). A
handler ends in `env_run`, in `sched_halt` or in the monitor: the operators
`EnvRun`, `SchedHalt`, `SchedYield` and `TrapEnd` take what the handler has made
of the table as arguments and fix the rest, so that each action is the whole
path from the trap to the release of the lock. `NoEffect` stands for the system
calls that leave this state alone and for the failures of the others. The
monitor and a panic keep the lock for ever, as the code does.

The priority scheduler starts its scan after `curenv`, the round robin starts
at `curenv` itself (`sched.c:117`, although the comment above it says "just
after"), which makes no difference while `curenv` is RUNNING.

The programs. `Calls` says which calls they make. `OrdinaryCalls` are those that
the programs and the library of the repository make; in particular `fork` and
`dumbfork` use `sys_env_set_status` once, on a child that has not run. The
kernel accepts three more (`UnusualCalls`): `set_status_any`, `destroy_dying`
and `recv_bad_va`. Properties that do not survive them are claimed, checked and
proved for the ordinary calls only, and say so.

### The runs

| run | instance | states | what it shows |
|---|---|---|---|
| `rr` | round robin, 2 CPUs, 3 slots, 2 initial environments, ordinary calls; with fairness | 463 000 | the safety of the table, the lock and IPC blocking; a child destroyed while it runs is freed |
| `any` | priorities, 2 CPUs, 2 slots, 2 generations, all nine calls | 2 800 000 | what holds however programs behave; who may end whom |
| `live` | priorities, 2 CPUs, 3 environments, receive, send, destroy, lower priority; with fairness | 85 000 | nobody starves |
| `starved` | priorities, 1 CPU, 4 slots, two programs, one of which forks and exits; with fairness | - | `NoStarvation` fails |

Bounds. Two CPUs are enough for every conflict in the code, which is always
between the CPU that acts and the one that runs the target. Three slots let one
environment be freed and reused while a parent and a child are alive on two
CPUs; two slots are enough for `any`, whose point is reuse: with `GenLimit` 2
a slot has been everything an id can make of it after two forks (none of its ids
used again, another's in between, the same one back), which is all that `reused`
tells apart. `PRIORIDAD_MAX` is 2 (10 in the code): a pick can be
below, at and, with `MaxPriority` 3, above the maximum. `MaxPriority` is only
where the model stops counting. CPUs are not declared symmetric: the boot CPU is
distinguished.

Fairness. `CpuFairness`: weak fairness of `TrapUser` and `TimerHalted`, since the
LAPIC timer is periodic, and of `ReturnToUser` and `Handler`, since a CPU in the
kernel does not stop. Strong fairness of `Lock` is an assumption the code does not
guarantee: an `xchg` spin lock is not a queue; the `pause` in `unlock_kernel` is
there for it. This is all that `ZombiesAreFreed` needs (`CpuFairSpec`): every
trap of the CPU that has the zombie frees it. `NoStarvation` needs
`TimerFairness` too (`FairSpec`), strong fairness of `Yield`: among the traps of a
CPU the timer comes again and again, and a program cannot keep it out with system
calls. `live` has no `exofork`: with it `NoStarvation` is false, as `starved`
shows under the same fairness.

### Who ends whom

The kernel knows a parent only by the id in `env_parent_id`, and generations wrap
(`env.c:220`), so the permission test of `envid2env` says little by itself.
`EnvFamily` adds what no id can change: `maker[e]` is the slot whose environment
forked e, and `reused[e]` counts how often that slot has been taken since, up to
`GenLimit` and round again. `EndedByFamily` says that e is ended only by itself or
by an environment in the slot of its maker, and only when that slot was never
taken again or all its generations have been used since: no stranger before that.
The code has 2^19 - 1 generations for a slot. A generation that does not advance
when a slot is reused lets the very next environment in it end somebody else's
child, which is what the mutant does.

### The disagreement found

`starved`: `sched_prioridades` does not age an environment it picks for the
first time (`sched.c:76`), and a pick at `PRIORIDAD_MAX` is what lifts the others.
`ForkAndExitSpec` has two programs: V computes and calls nothing; the other forks
a child, starts it, computes until the timer interrupts it, and exits, and its
child is the same program. V ages to the next priority. From then on there is
always a fresh child at the best priority: picked for the first time it is not
aged, forks in its turn and is interrupted; then its parent is picked again, aged
while it runs, and exits before it can be chosen at `PRIORIDAD_MAX`. V stays
RUNNABLE for ever, although every timer interrupt comes. No id plays a part in it:
`NoIdComesBack` leaves out the behaviours in which the id of a living
environment's parent is given out again, so that two generations in the model stand
for the 2^19 - 1 of the code, and nobody destroys anybody but itself. Four slots
hold V, the parent, its child and the child's child.

Round robin has the same weakness for another reason: after an exit there is no
`curenv` and the scan restarts at slot 0.

### Known behaviours

No document says otherwise, so they are not findings; they are why some
properties are claimed for `OrdinaryCalls` only.

* `sys_ipc_recv` marks the caller as receiving before it rejects a bad address
  (`syscall.c:417`). A send then overwrites RUNNING with RUNNABLE and the
  environment is taken by a second CPU (`recv_bad_va` breaks `OneCpuPerEnv`).
* `sys_modificar_prioridad` has no limit (`syscall.c:441`), and priorities above
  the maximum are never picked: a CPU then halts with work to do (`modificar`
  breaks `NoIdleWithWork`).
* `sys_env_set_status` on a child that runs, and a second destroy of a zombie,
  put an environment on two CPUs or free it under one.

### The proofs

`EnvSched_proofs` proves, for every number of slots, CPUs, generations and
priorities:

* for all calls: `TypeOK`, `KernelLock`, `FreeListExact`, and of `EnvFamily`'s
  specification `EndedByFamily`;
* for ordinary calls (`Ordinary`): `OneCpuPerEnv`, `RunningIsHeld`,
  `MonitorIsFinal`, `RecvingIsBlocked`, `CpunumIsCurrent`,
  `ZombieFreedByItsCpu`, `BlockedUntilSent`;
* under `PrioritiesBounded` (round robin, or no priority above the maximum):
  `NoIdleWithWork`.

Assumptions: those named in `EnvSched` (at least one slot and one generation,
finitely many CPUs, `PRIORIDAD_MIN <= PRIORIDAD_MAX <= MaxPriority`, ...).

The argument. Every handler ends in the scheduler, so the proofs go in two
steps: a lemma for each handler says with which statuses, `curenv` and runs it
reaches the scheduler (`SysExoforkOutcome`, ...), and one lemma for each
invariant says what an `Outcome` of the scheduler makes of it (`OutcomeType`,
`OutcomeLock`, `OutcomeSched`, `OutcomeStatus`). `Outcome` is an over-
approximation of both schedulers, proved in `SchedYieldOutcome`; nothing else
depends on how they choose.

`OneCpuPerEnv` is not inductive. The inductive invariant `IInv` adds that a CPU
with a `curenv` has it RUNNING or DYING (`UserHoldsRunning`), that CPUs without
one hold `None`, that two CPUs hold different environments, that nothing is
alive when a CPU is in the monitor, and two facts about programs: what is open
to a send is NOT_RUNNABLE, and has run before. The last one is why the
`set_status` of `fork` can never hit a blocked receiver: its target has not run.
`Mid` is the part of `IInv` that a handler owes the scheduler while its own CPU
and `curenv` are out of account.

`EndedByFamily` needs an invariant of its own, `FamilyInv`: an id always carries
its slot (`IdsNameSlots`), and the id in `env_parent_id[e]` is the one that, after
`reused[e]` turns from it, gives the present id of the maker's slot
(`ParentsAreMakers`). So the two ids are equal only after no turn or after a whole
round, whatever has been freed, forked and destroyed in between.

Only model-checked: `NoStarvation` and `ZombiesAreFreed`, liveness properties,
which are beyond the prover.

### Not modelled in EnvSched

Page tables and memory exhaustion (they are in `UserFork`; a failed `env_alloc`
for lack of memory is `NoEffect`); message values; page-fault upcalls (a fault
without one is a destroy); statistics, `env_type`, trap frames; the boot of the
other CPUs before they ask for the lock in `mp_main`. What a CPU does in user
mode on a page directory freed under it (`destroy_dying`) is undefined; the
model keeps only the timer and the panic.

## 4. Memory, fork and page faults

### The correspondence

`Memory` has no state of its own: its operators take the kernel's memory, one
record `m`, and give the memory after the call, with an error flag when the call
may fail. What they do when they fail half way is in the result too, as in the
code. `UserFork` is the machine that applies them.

| model | code |
|---|---|
| `m.slot` | everything that refers to a page: `env_pgdir`, a directory entry, a table entry. `NoPage` is a clear `PTE_P` |
| `m.perm` | `PTE_W` and `PTE_COW` of an entry; `PTE_U` is always set below `UTOP` |
| `m.pp_ref`, `m.page_free_list` | the fields of `struct PageInfo`, the list as a set |
| `m.data` | what a page holds |
| `m.unlisted` | history: the kernel's own pages, and those `env_page_alloc` loses (`syscall.c:57`) |
| `env_status`, `env_parent_id`, `env_pgfault_upcall`, `env_ipc_recving`, `env_ipc_dstva` | the fields of `struct Env`; RUNNABLE stands for RUNNING too |
| `pgfault_handler`, `pc`, `child`, `pnum` | the library: `_pgfault_handler`, where the program is, the locals of `fork` |
| `faults[e]` | the trap frames on the exception stack, each with the place of `pgfault` it has got to |
| `touched` | history for the refinement, read by no action |

A system call is one step, since it runs under the kernel lock; between two
system calls of a program every other one may run. `fork` is `ForkBegin`,
`SetHandler`, `SetUpcall`, `SysExofork`, then `Dup` and `DupSelf` for each page,
`ChildStack`, `ChildUpcall`, `SetStatus`; `fork_v0` has `V0Page`, `V0Map`,
`V0Copy`, `V0Unmap`; the page-fault handler is `HandlerAlloc` to
`HandlerReturn`. Calling a function pushes on the stack, so that an environment
whose stack page is not writable faults before its next call (`StackFault`):
that is how the code behaves between `DupSelf` of its stack and the rest of
`fork`. A call that fails makes the program panic (`Result`), which leaves it in
the breakpoint loop with what it had half done.

`PageFault` is `page_fault_handler`: without an upcall or a writable exception
stack the environment is destroyed, otherwise a frame is pushed and only then is
it asked whether it still lies on the exception stack; if not the kernel
panics.

### The runs

| run | instance | states | what it shows |
|---|---|---|---|
| `mem` | 2 environments, 14 pages or 13 or 4, 1 data page, 2 forks, all kinds of programs; with fairness | 103 000 | references and free list exact, tables and stacks private, the address spaces implemented, faults end |
| `overflow` | the same | - | `KernelSurvives` fails |
| `leak` | the same | - | `NoPageLost` fails |

Bounds. An environment with both stacks needs a directory, three tables and four
or five pages, so that 14 pages hold one and a half: the second environment runs
out of memory at every point of `fork`, of its faults and of a message, in some
behaviour. One page less moves those points; with four the first environment
cannot be loaded. Two frames make a fault inside the
handler possible and a third one the overflow. Two forks let a child fork, and
a parent fork again into a slot that was freed. The addresses are folded so that
the data, the temporary pages and the stacks lie under three different tables,
as they do in `memlayout.h`. The model loads one environment before it starts;
`init.c` of the default build loads two, which adds nothing that a fork does not
reach.

Fairness. Weak fairness of `StackFault` and `HandlerStep` of each environment:
`sys_yield` and the timer give every runnable environment its turn (`NoStarvation`
of `EnvSched`). Nothing is asked of programs otherwise.

`ImplementsSpaces`. `AddressSpaces` is the promise: each environment has an
address space of its own; a write is immediate and seen by nobody else; fork
gives a copy; a fault shows nothing. The mapping takes what an environment sees
through its tables once it has started. A cell is *shared* after its page was
passed by IPC, while it can be written at another address, of another environment
or of the same one (a program may pass a page to itself by way of another, and see
it twice); such a cell may change at any time. What is written by another while a
page is being duplicated may show in the copy: that is `touched`. The first
environment begins when `kernel` becomes `"running"`; a boot that has no memory to
load it (`"boot_panic"`, `load_icode`'s panic) never begins.

### The disagreements found

`overflow`: `page_fault_handler` panics the kernel when the exception stack
overflows (`trap.c:372`), where the comment above it (`trap.c:333`) says that the
environment is destroyed. A program gets there by faulting in its own handler;
`pgfault` does not stop it, because its test `(err & FEC_WR) & !(...)`
(`fork.c:29`) is always 0.

`leak`: when `page_insert` fails for want of a page table, `env_page_alloc`
returns its error and forgets the page (`syscall.c:57`), against the hint at
`syscall.c:235`. The trace is 24 states long: the child of a fork starts and faults
on its copy-on-write stack with one free page left, `pgfault` asks for a page at
`PFTEMP`, whose table does not exist, and the page is in `unlisted` from then on.
`FreeListExact` holds of everything else, those pages apart.

### Known behaviours

* A page shared by IPC stops being shared after a fork of either side: `duppage`
  makes it copy-on-write. `AddressSpaces` allows it, no comment forbids it.
* `sys_cputs` asks for `PTE_W` on the string, and so destroys a program that
  prints from a copy-on-write page (`Cputs`).
* `sys_ipc_try_send` with no page at `srcva` reads through a `srcpte` that was never
  set, whether the table is missing or only the entry is clear (`pmap.c:521`,
  `syscall.c:376`-`380`). What it finds may pass the tests or not, or fault in the
  kernel (`SrcTests`); if it passes, the call fails after the receiver's page was
  replaced. `"ipc_unmapped"` in `Programs` adds such senders; `BlockedSpaceStable`
  does not survive it, and the runs leave it out, as no program of the repository
  does it.

### The proofs

`Memory_proofs` proves what the operators preserve and `UserFork_proofs` what
the machine does, for every number of environments, pages, forks and frames and
for all programs: `TypeOK` (so no count falls below zero), `RefsExact`,
`FreeListExact`, `TablesPrivate`, and `ForkOwnsChild`: until fork starts it, a
child does not run, waits for no message, and its parent in the table is the one
that forks it.

Assumptions: those named in `Memory` and `UserFork` (finitely many environments
and pages, at least one data page, `Zero` is a value, at least one frame, at
least one environment).

The argument. `MemInv(m, x, h)` is the invariant of a memory in the middle of a
call: `x` is the page that the call has taken from the free list and not mapped
yet, `h` the page whose count it has raised ahead of its mapping. Between calls
both are `NoPage`, and the first two conjuncts are then `RefsExact` and
`FreeListExact`. Without the two holes no lemma about `page_insert` could be
stated, since it raises the count before it removes the page that may be the
same. Each operator has one lemma that says with which holes it starts and ends,
with and without an error. `Private` and `Walkable` (a table entry in use is
below a directory entry in use) are what makes the counts inductive: a table is
referred to once, so freeing an environment's tables frees nothing else.

The machine adds `FreeIsEmpty` (a free slot refers to no page, so that
`env_setup_vm` loses nothing), `WaitingSleeps` and `ForkOwnsChild`. The last one
is needed by the first: `Dup` maps pages into `child[e]`, and were that slot
free it would no longer be empty. It holds because the only ones who can destroy
the child are its parent, busy in `fork`, and itself, not started; and because a
send wakes only what receives.

`UserFork_proofs` also proves `BlockedSpaceStable`, under the assumption that no
program sends a page it does not have (`"ipc_unmapped" \notin Programs`; with
such senders the property is false, see above). Each step changes the memory of
one environment x (`Disturbs`), and x is either running, or forked and not
started, or being freed, or the receiver of a send. The argument is in the last
case: `sys_ipc_try_send` may fail in its first call, which then leaves table
entries and permissions as they were, or succeed in it and then not fail in the
second, because the first has left a page table behind (`TransferApart`).

`UserFork_proofs` proves `StacksPrivate` last. It adds four things to the
invariant (`Sharing`), which say who may have a page in common with whom at every
point of `fork`, of `fork_v0` and of `pgfault`. `SameKind`: a page that two
entries refer to is at the same address in both or is a page of the program in
both, so a page of a stack is never at another's data. `Writes`: who may write a
page of another's stack is forking that other one, and is at the only places
where it may: between the two mappings of `duppage`, at `UTEMP` while `fork_v0`
copies the page, or in the monitor after a call failed there. `Temporary`: a page
at `UTEMP` or `PFTEMP` is there only in the middle of `fork_v0` or of a fault, and
what `pgfault` has at `PFTEMP` is nobody else's until it is mapped; a nested fault
does not break this because it starts over with a page of its own. `Places`: the
addresses in frames, in messages and in `pnum` are those of a program's memory,
and the child of a fork has not begun to run. The property follows with
`ForkOwnsChild`: the one whose stack may be written is a child not started. TLC
checked the four on the instance of run `mem` before they were proved. `Fewer`,
`Sets` and the three `...Keeps` lemmas say what each kind of change to the tables
does to them: entries that go, a page that nobody had, a page that somebody has.

`UserForkSpaces_proofs` proves `ImplementsSpaces`, again for senders that have the
page they send: each initial state maps to one of `AddressSpaces`, and each step
maps to a step of it or leaves what it sees alone. That needs to know what is in
the pages, and so a third layer of the invariant (`Spacing`).

* `Booting`: until the first environment runs there is no other, all its pages are
  zero, and none is at two addresses; so its space is blank memory when it begins.
* `Idle`: who does not run is neither in `fork` nor in a fault, and nothing of a slot
  that holds no environment that has begun is in `touched`; so a child begins with
  no shared cell that was not its parent's.
* `Faulting`: within `fork` only the stack faults, and `fork_v0` finds the page it
  copies where it was.
* `Handling`: what `pgfault` has copied to `PFTEMP` is what the page at the faulting
  address holds, or the cell is in `touched`; so `sys_page_map` over it shows nothing.
* `Copying`: at every place of the two loops, what the child has at each address
  (`Cell`): nothing ahead of the loop; at its page, the half-made copy; behind it
  (`Duplicated`), the parent's own page, which the parent cannot write, or a copy
  that holds the same unless the cell is in `touched`. A page that the child could
  write is at no other place (`Secluded`) but the parent's `UTEMP`. So the child's
  space when `SetStatus` starts it is its parent's, though the parent has run,
  faulted, and been written to by others between any two of the calls.

`KeepsData` and the `...Data` lemmas say what each operator of `Memory` does to the
contents; then one lemma per action gives both the invariant after it and the step
of `AddressSpaces` it is: `SetStatus` is `Fork`, a destruction `Die`, the call that
passes a page `Send`, the last step of the boot `Begin`, a store `Write` and so is
`sys_page_unmap`, and everything else `Fault` or nothing. TLC finds `Spacing` and
`Sharing` true in all states of the instance of run `mem`.

The proof changed the model in three places where no state of the instance of `mem`
had told the difference. A boot that fails used to have the same `kernel` as a panic
of `page_fault_handler`, and so had begun in the abstract without a memory. `Copied`
left out the page that `fork_v0` has copied and not yet unmapped, so that a write of
another to it was not recorded in `touched`. A page that an environment had received
at two of its own addresses was not shared between them. The hypothesis on senders is that of
`BlockedSpaceStable`: without it the receiver loses its page.

Only model-checked: `FaultsEnd`, a liveness property, which is beyond the prover.

### Not modelled here

The kernel's mappings above `UTOP` (section 8 has their construction); TLBs: the
code flushes only the TLB of its own CPU, and only for the current directory, so
that a mapping removed from an environment on another CPU may be used there until
its next switch; `env_ipc_value`, `env_ipc_from` and `env_ipc_perm`, which only
the receiver reads; addresses and permissions that are turned down before any
state changes.

## 5. Fisopfs

### The correspondence

| model | code |
|---|---|
| `bitmap_inodes`, `inodos` | the two arrays of `superbloque_t` |
| an inode's `path`, `tipo`, `inumero` | `path` as a sequence of names (`directory_path` and `nombre` are its two parts), `tipo_archivo`, `inumero` |
| `entradas`, `datos` | the two readings of `content`; in a directory `tam` counts entries |
| `disk` | `file.fisopfs`: absent, cut short, or a complete image |
| `fase` | the process: not running, mounted, in the final `fisopfs_destroy` |
| `hilo[t]` | the operation that FUSE thread `t` serves: its next step, its path, the inode and the parent it has found |

A creation is `Nuevo` (the checks and `obtener_inodo_libre`), `CrearInodo`,
`AgregarEntrada` and, for a directory, `InicializarEntradas`. `unlink` is
`Unlink` (the checks), `Liberar` (bitmap), `Borrar` (memset), `QuitarEntrada`;
`rmdir` is `Rmdir`, `QuitarEntrada`, `Liberar`, `Borrar`: the order of the code.
`Write` and `Truncate` are one step, since they touch one file, which the kernel
locks. A save is `Flush` or `Unmount` (fopen empties the file) and then
`Escribir`. Operations that fail with nothing done are left out: they change
nothing. The two failures that come after a change, no room in the directory and
an `rmdir` that finds no entry, are in `AgregarEntrada` and `QuitarEntrada`.

A crash while the image is written leaves a file cut short. The bitmap is the
last part of the image and exactly one page of it, so it is either written or
not: a short file has no bitmap, whatever of the inodes it has, and no inode is
in use after it is loaded.

External: the kernel's walk (`Camino`), its lock of the directory that changes
(`Bloqueados`), and the death of the process.

`TreeFs` is the promise: a tree of files and directories that each call changes
at once, and a saved copy that a crash does not lose unless it falls inside a
save. `ImplementsTree` maps the tree to what `buscar_inodo` finds: an inode
appears when `crear_inodo` has set its path and disappears when its bitmap entry
is cleared. `Hierarchical` and `EntriesAreTrue` say that the other way in,
`readdir`, agrees with it between operations.

A creation in a full directory answers with an error after its inode is in use and
named (`fisopfs.c:184`, `:361`), and keeps it: it is found by its path and listed
nowhere. `FisopfsLost` adds the history variable `perdidos` (and
`perdidosEnDisco`, what of it is in the saved file), the inodes that this has
happened to and that have not been freed since. `Hierarchical` leaves out those and
no other: what is made inside such a directory, or in the room that comes free
later, must be listed. `ImplementsTree` speaks of the steps taken while there are
none, because a directory that holds only lost ones can be removed, which no call
of a tree does.

### The runs

| run | instance | states | what it shows |
|---|---|---|---|
| `fs` | 1 thread, 2 names, depth 2, 4 inodes, 2 entries, 2 bytes | 508 000 | names and inodes agree, full directories included; the tree is implemented, with crashes and remounts |
| `fs_threads` | the same with 2 threads | - | `NoSharedInode` fails |

Bounds. A directory inside the root has two entries, one of which is ".", so its
second child finds it full: with 4 inodes, the root, the directory and both
children, `AgregarEntrada` fails. The lost inode may be removed if it is a file; its
directory may get room again, or be removed and made again; and it may then be
saved and mounted. What two levels do not have is a lost directory with something
in it, which only the theorems cover. The directory reaches `MAX_DIR_ENTRIES + 1` in
`tam`. Two bytes tell a hole from what was there before. `MaxInUse` bounds the
inodes in use in memory and in the saved file together, at 5: a full table can be
saved only in part, and a mount of up to two inodes goes on from there; the
theorems have no such bound. Names are symmetric: only equality and position in a
path matter.

`fs` has one thread, that is a mount with `-s`; the default mount has several,
and `fs_threads` shows what that does. That there is no fairness and no liveness
here is deliberate: every operation is a straight line.

### The disagreement found

`fs_threads`: two creations in different directories take the same inode
(`fs.c:56`, `:102`).

### Known behaviour

The inode lost to a full directory survives the removal of that directory when it
is a file, and a directory lost so can never be removed, since `rmdir` does not
find its entry.

### The proofs

`Fisopfs_proofs` proves `TypeOK` and `EntriesAreTrue` for any size of the tables,
any names, depth and bytes, from `SizesAssumption`, `BytesAssumption`,
`NamesAssumption` and one thread (`UnHilo`): with two threads TLC finds both
violated, an inode shared by two operations or saved in the middle of one.

`EntriesAreTrue` only speaks of what is true between operations, and is not
inductive even there. The invariant `IInv` adds, first, what a directory looks
like (`Ordenado`): its used entries come first and `tam` counts them, or one
more in a child of the root. Without it a new entry could overwrite one, a
removal could drop the last one, and `readdir` would not show them all. Second,
`Cierta` says more of an entry "..": the directory it leads to still lists this
one. That is why it cannot dangle, since only a directory without names is
removed. Third, the steps in the middle of an operation. A creation needs only
that its inode is in use and listed nowhere (`Creando`). A removal passes through
states where an entry names a free inode, or a directory that nobody lists is in
use; `VBitmap` and `VInodos` are the superblock as if the removal took effect
when the entry goes, an `unlink` having its file in use until then and an
`rmdir` no longer after it, and it is of that superblock that the invariant
holds (`Bueno`). Every operation then has a lemma that one superblock is good if
the other was (`CreaBueno`, `AgregaBueno`, `PuntosBueno`, `DatosBueno`,
`QuitaBueno`, `BorraBueno`), and every action one that it keeps `IInv`. The saved
image is a good superblock too, so a mount needs nothing else.

`FisopfsTree_proofs` proves `Hierarchical` and `ImplementsTree` of `LostSpec`, with
one thread again and nothing else assumed: directories may be full at any time.

The invariant grows by `Arbolado`: every inode in use is listed, but the lost
ones and the one that a creation has just taken (`Pendiente`), in the superblock seen as above and in a
complete image; past its end a file holds zeros (`FinEnCeros`), without which a
truncate that extends would show old bytes; and what a removal is about to free
is still the only inode with its path (`Liberando`). That an `rmdir` removes a
directory that is empty in the tree, not only in its own listing, is where
`ImplementsTree` needs `Hierarchical`.

Each call takes effect at one step: a creation at `CrearInodo`, a removal at
`Liberar`, a write and a truncate at theirs, a save from the opening of the file
(`Flush`, `Unmount`) to `Escribir`, a crash and a mount at theirs. For every
other step a lemma says that it is invisible (`AgregarInvisible`,
`InicializarInvisible`, `BorrarInvisible`, `QuitarInvisible`). The tree is a
function on paths defined with a choice of the inode, so the lemmas `ArbolIgual`,
`ArbolCon` and `ArbolSin` say once what becomes of it when nothing, one inode
or one bit of the bitmap changes.

### Not modelled

Times, owners, permissions, link counts, `utimens`, paths
of 256 characters or more, errors of the disk file, reading the options.
`fisopfs.md` announces "renombrado": there is no rename operation to model.

## 6. Primes

### The correspondence

`Unix` is external: processes, descriptors and pipes as the code of TP0 and TP1
uses them. A descriptor is named by the variable that keeps it. A read blocks
while the pipe is empty and someone holds its write end; a write blocks while it
is full and someone holds its read end, and is a `SIGPIPE` otherwise.

| model | code |
|---|---|
| `u` | the operating system |
| `i`, `recibido[p]`, `numero[p]`, `pid[p]` | the variables of `main` and of each `filtro` |
| `stdout[p]`, `output` | what `printf` has not written yet, copied by `fork`; what came out |
| `tty` | stdout is a terminal, and each line is written at once |
| `pc` | `main`, `send`; `born`, `first`, `pipe`, `next`, `pass`; `wait`; `ended` |

A step is one system call that another process can notice, with the closes
around it. `MainFails` and `NewFilterFails` stand for a `pipe` or `fork` that
fails. `CanFork` and `CanPipe` are the bounds: a new filter waits for a free
process and a free pipe of the model.

### The run

`sieve`: 7 processes, pipes of 2 numbers, every n up to 9, to a terminal and to
a file, with calls that fail: 4 800 states. Four primes below 10 make a
chain of six processes (the last one only sees the end of file), and 7 slots are
one more. With 2 numbers in a pipe a writer blocks and a pipe is both full and
empty along the way; n below 2 is a chain that ends at once. What comes out is
right (`OnlyPrimes`), each pipe joins two processes (`OneReaderOneWriter`) and
everyone ends (`SieveEnds`) under weak fairness of every process, which is what
an operating system gives: no step of one process disables another's for ever.

### The proofs

`Primes_proofs` proves the three invariants for every n, any number of processes
and pipes, and pipes of any size. Nothing is assumed but that main is a process, that
n has a bound and that a process keeps four descriptors.

The invariant `IInv` says that there are a chain `c` of processes, the pipe
`K[k]` that each reads and a level `L[k]` of each, such that:

* the chain (`Chain`, `Places`): each process is the child of the one before; all
  but the last are in their loop or wait, those that wait come first, and only
  the last may have ended. `Exit`, `Reap` and `Fork` keep it so.
* the descriptors (`HasEnds`, `HasPipes`): what each holds depends on its place
  and its label alone, and two pipes in use are different. From this and nothing
  else follow `OneReaderOneWriter`, that the end of a pipe means that its writer
  waits, and that a `SIGPIPE` means that its reader has ended. Without it none
  of the rest is inductive: a read could return what another filter was sent.
* the streams (`Streams`): c[k] reads `Numbers(c, k)`, what the filters before it
  leave of 2..n. Its pipe holds, in order, those of them between its own level
  and that of its writer, and its `recibido` is the least of them.
* the output (`Output`): what is printed are the numbers of the filters, and
  what is missing at the end is so because a call failed.

That the number of a filter is prime is then arithmetic: it is the least number
that no filter before it divides (`FirstIsPrime`), a number that has a divisor
has one that a filter divides (`DivTrans`), and a filter takes no other prime
out (`PrimeStays`). `SieveEnds` is liveness and stays with TLC.

### Known behaviours

To a file lines come out more than once, since `fork` copies the buffer, and
those of a process that `SIGPIPE` kills do not come out. `OnlyPrimes` says so:
the order and the absence of repetition are for a terminal. The processes left
by a failure end through `SIGPIPE` or the end of their child, and none stays.

`xargs` is a loop of fork and wait of one process, and is left out.

## 7. Shell

### The correspondence

| model | code |
|---|---|
| `u`, `pgid`, `raw`, `sigchld` | processes, groups, wait statuses and pending signals, external |
| `Commands`, `Lines` | what `parse_line` gives: for a line or a side of one, and for a line |
| `cmd[p]`, `side[p]` | the command that process executes, and of which side of a pipeline |
| `kids[p]` | the pids that `run_cmd` or `ejecutar_pipe` will wait for, in order |
| `status`, `last` | the global `status`; history: the last foreground command |
| `RunCmd`, `WaitForeground`, `WaitAny` | `run_cmd` up to `fork`, its `waitpid`, and the same after a `fork` that failed |
| `Handler` | `sigchild_handler`, in the shell and in every child until its `execve` |
| `Born`, `Redir`, `Exec`, `ForkLeft`, `ForkRight`, `WaitSide`, `PipeEnds` | the cases of `exec_cmd` and `ejecutar_pipe` |
| `Prog...` | the programs: "source" writes, "copy" copies its input, "quit" ends, "crash" aborts |

A step ends at a fork, a wait, an `execve` or an exit: between them a process
only changes its own descriptors. `setpgid` happens in the child, in `Born`, so
that the handler may run between the fork and it. `CanFork` and `CanPipe` are the
bounds: a fork waits for a free process of the model, a pipeline for a free pipe.

A command is a record with the fields of `execcmd`, `backcmd` and `pipecmd` that
something depends on (`Simples`, `Redirections`, `Pipelines`; `Opened` is a
redirection once done, when its type is `EXEC`). `CommandsAssumption` says that
`Commands` are such records and that the sides of a pipeline are commands, the
left one never a pipeline: `parse_line` cuts at the first "|".

### The run

`shell`: two lines out of eight kinds (`MCLines`), 7 processes, pipes of one
value, programs that write two: 43 000 states. The lines are commands that
fail, die and do not exist, redirections that work and that do not, background
jobs, and pipelines of two and three sides with a `2>&1`. Two lines are enough
for a background job of the first to end, and be reaped, at every point of the
second. A pipe smaller than what is written into it makes the writer block.

`StatusIsForegrounds`: `$?` is the status of the last foreground command,
whoever reaps what. `PromptMeansDone`: at the prompt nobody of a foreground
command is left. `OnlyItsEnds`: a program has no end of a pipe but its own.
`PromptReturns` and `AllReaped` under weak fairness of the system as a whole:
all the programs are finite, so it is enough that something goes on.

### The proofs

`Shell_proofs` proves the four invariants for every set of commands, pipelines of
any length, any number of lines, processes and pipes, and pipes of any size. What
is assumed is in `Shell`: the shell is a process, a process has five descriptors,
and the commands are what the parser gives. `IInv` has four parts:

* `TypeOK`. A status is between -255 and 255 * 256: what `print_status_info` makes
  of the status of a pipeline is the raw one. That `kids[Shell]` has one pid at
  most needs `WaitForeground` to forget it, which is what its mutant does not do.
* `Local(p)`, of one process: what it is at goes with what it executes and how many
  children it has to wait for (`Known`); its standard descriptors are a file or the
  right end of a pipe, never both ends of one (`Standard`); and what it has in `r`
  and `w` goes with its label and its side (`Between`): both ends just after the
  fork of a left side, the end to read in the one that forks the right side and in
  that right side when it is born, nothing else. `OnlyItsEnds` is this, at `prog`.
* `Linked`: there is a chain of processes, the first the child that the shell waits
  for, each the last child of the one before it, which waits for it. Only its last
  process may be about to fork. Everyone else executes one program, and is either
  waited for by someone in the chain, or a background job, or an orphan of a fork
  that failed or of a shell that ended. When the shell is at the prompt the
  chain is empty, and `PromptMeansDone` follows. The chain is why a wait for one pid
  is a wait for all of them: a process that waits ends with nobody left to wait
  for, and only the last one may end.
* `Statuses`: the child that the shell waits for is its child, was not reaped, and
  executes the last line or ended the way that line says. It is in a group of its
  own from `Born` on, and not a zombie before, so the handler, which takes only
  the shell's group, never takes it: this is what `StatusIsForegrounds` rests on.

The system calls are treated once, field by field (`Opens`, `Forks`,
`Duplicates`), and the steps by their kind: a step that changes its own process
only (`OwnStep`), a fork (`ForkStep`), an end (`EndStep`), a wait (`ReapStep`).
`PromptReturns` and `AllReaped` are liveness and stay with TLC.

### Known behaviours

* A `fork` that fails in `run_cmd` is not looked at: `waitpid(-1)` takes a
  background job's status, or decodes the last one a second time; a line in the
  background does nothing. `StatusIsForegrounds` leaves such lines out.
* The second `fork` of a pipeline that fails: `handle_error` takes the pid for
  an array and dies of it (`exec.c:201`); the left side is an orphan.
* A pipeline's status is always 0, as `shell.md:132` says.
* A background command ignores its redirections.
* The words that the parser loses are in section 8.

Not modelled: a `pipe()` that fails (`exec.c:155`; `exec_cmd` returns, against
the comment of `exec.c:95`, and the child is a second shell on the same input);
signals from the terminal; background jobs that read the terminal; environment
variables, that only the program sees.

## 8. Sequential parts

`MCAlgorithms` has one variable, the input, and evaluates three computations on
each input of a set, against what they should give. One run, `algorithms`:
59 000 states. Only model-checked: what these computations give for every
input is an induction over the input, beyond the provers.

**The boot** (`BootMemory`, `CheckMemory`; `BootsRight`). `mem_init` with real
page numbers on 74 machines: memory from nothing to the 256 MB that fit at
`KERNBASE`, kernels that end at 1.4 MB and at 2.7 MB. Until the kernel's own
directory is loaded only 4 MB are mapped, so every page table has to come from
below: what makes it so is the order in which `check_page_free_list(1)` leaves the
list, and the MMIO table that `check_page` leaves behind is one of those that
`check_kern_pgdir` expects. Two of the kernel's "checks" are thus part of what
it does. `Walk` is the processor's walk, through both levels and their
permissions, with the directory as its own table at `UVPT` (`pmap.c:149`). Users
read through it the two arrays at `UPAGES` and `UENVS`, the directory and its
tables, and nothing else; they write none of it, and no page of it is free. With
640 KB of base memory the free pages and the tables are together exactly the memory
that the comment in `page_init` calls free. With 639 KB, which some machines report,
they are not: page 159 is free, although the comment (`pmap.c:302`) ends base
memory at `npages_basemem`, which `page_init` does not look at. No two regions
share an address. The property holds from 80 free pages above the kernel's arrays
on; a machine of 3 MB panics in the last check. `CheckMemory` runs the kernel's own
tests of its page functions on the operators of `Memory`: the model passes the
assertions that the code was written against, with 3 to 5 free pages.

**The parser** (`ShellParse`; `ParsesRight`). Lines of every three characters,
of one or two commands of one or two words of ten kinds, of three words with
pipes, and builtins: some 14 000 lines. `Meant` says what a line means as `shell.md`
has it, by cutting it at the separators; the parser goes from left to right.
They agree on `WellFormed` lines. Outside them: `cmd 2>&1 &` is not run in the
background, since only the first "&" is looked at; a word with ">" after its
second character is lost; "exit" is compared by its first four characters; `cd`
to a directory that does not exist is run as a command.

**The console** (`Console`; `LineAsTyped`). No interrupt brings a character: there
is no gate and no trap case for the keyboard or the serial port (`trap.c:96`,
`:227`), so `cons_getc` is the only one to call `cons_intr` once the kernel runs.
Each `getchar` first takes every code that has arrived, behind what still waits in
the buffer, and then one character. An input says which codes arrive before each
of its first questions, up to four; after that nothing is typed. The program must
get the lines that the keys meant when they were pressed (`Meaning`), a line for
every Enter, with Ctl ('\r') or without ('\n'). The buffer has 3 places and the line
3 (512 and 1024 in the code): what matters is that both wrap and fill, with
characters waiting. `Fits` is the hypothesis: nobody looks whether the buffer is
full, and when 3 characters wait it looks empty and all are lost; with `Fits`
weakened by one the property fails. The two Shift keys share one flag, so that
releasing either ends both, and `Meaning` says so. Codes after `0xE0` and the serial
port are left out.

## 9. Not modelled

| part | why |
|---|---|
| user programs of TP2 | they are the environment of the models: the calls they make are `OrdinaryCalls` and `Programs` |
| scheduler statistics | counters that no decision reads |
| LAPIC, MP table, PIC, CMOS, entry code | hardware; the timer is an action of `EnvSched` |
| monitor, debugging, printing, C library | formatting and wrappers |
| `xargs`, the tools of challenges, ejemplos | one process that reads and prints, or one child and one wait |

Each section says what is left out of the parts that are modelled.
