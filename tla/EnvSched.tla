------------------------------ MODULE EnvSched ------------------------------
(***************************************************************************)
(* The environment table, the scheduler and the system calls that move an  *)
(* environment between states, on a multiprocessor JOS kernel (TP2-sched): *)
(* kern/env.c, kern/sched.c, kern/syscall.c, kern/trap.c, kern/init.c and  *)
(* kern/spinlock.c.                                                        *)
(*                                                                         *)
(* A CPU is in user mode, spins on the big kernel lock, or runs a handler  *)
(* while it holds the lock.  A handler reads and writes only state the     *)
(* lock protects, so it is one atomic action; what the code does outside   *)
(* the lock (the spin, the tail of env_run after unlock_kernel, the halted *)
(* CPU waiting for its timer) is made of separate actions.                 *)
(***************************************************************************)
EXTENDS Naturals, Sequences, FiniteSets

CONSTANTS
    NENV,           \* slots of envs[]
    CPUs,           \* the processors
    BootCpu,        \* the one that runs i386_init
    None,           \* a null pointer
    NInitial,       \* environments i386_init creates with ENV_CREATE
    Scheduler,      \* "RR" (SCHED_ROUND_ROBIN) or "PR" (SCHED_PRIORITIES)
    PRIORIDAD_MIN, PRIORIDAD_MAX,
    MaxPriority,    \* bound: sys_modificar_prioridad stops counting here
    GenLimit,       \* generations an env_id can tell apart before it wraps
    Calls           \* the kinds of calls the user programs make

Envs == 0 .. NENV - 1

\* The calls of the programs of the repository ...
OrdinaryCalls == {"exofork", "set_status", "destroy", "recv", "send", "modificar"}
\* ... and those the kernel accepts from any program although none of the
\* repository makes them: set_status on an environment that has already run,
\* a second destroy of a dying one, and a receive at an invalid address.
UnusualCalls == {"set_status_any", "destroy_dying", "recv_bad_va"}

ASSUME NENVAssumption == NENV \in Nat \ {0}
ASSUME CPUsAssumption == BootCpu \in CPUs /\ IsFiniteSet(CPUs)
ASSUME NoneAssumption == None \notin Envs /\ None \notin CPUs
ASSUME NInitialAssumption == NInitial \in 0 .. NENV
ASSUME SchedulerAssumption == Scheduler \in {"RR", "PR"}
ASSUME PriorityAssumption ==
    /\ PRIORIDAD_MIN \in Nat /\ PRIORIDAD_MAX \in Nat /\ MaxPriority \in Nat
    /\ PRIORIDAD_MIN <= PRIORIDAD_MAX /\ PRIORIDAD_MAX <= MaxPriority
ASSUME GenLimitAssumption == GenLimit \in Nat \ {0}
ASSUME CallsAssumption == Calls \subseteq OrdinaryCalls \cup UnusualCalls

VARIABLES
    env_status, env_id, env_parent_id, env_priority,
    env_ran,            \* env_runs > 0, all the scheduler asks of env_runs
    env_cpunum, env_ipc_recving,
    env_free_list,
    curenv,             \* cpus[c].cpu_env
    cpu_status,
    kernel_lock,        \* the CPU that holds the lock, or None
    pc                  \* where each CPU is

envVars == <<env_status, env_id, env_parent_id, env_priority, env_ran,
             env_cpunum, env_ipc_recving, env_free_list>>
vars == <<envVars, curenv, cpu_status, kernel_lock, pc>>

Status == {"FREE", "DYING", "RUNNABLE", "RUNNING", "NOT_RUNNABLE"}

\* An envid_t: its uniqueifier and its index.  0 is "the caller" as an
\* argument, "no parent" in env_parent_id, "never used" in env_id.
EnvIds == [gen : 0 .. GenLimit, index : Envs]
EnvId(gen, e) == [gen |-> gen, index |-> e]
ZeroId == EnvId(0, 0)

UserPC == {"user", "trap", "kern", "leave"}     \* curenv is on this CPU
IdlePC == {"start", "kern_idle", "halted"}      \* curenv is NULL
KernPC == {"kern", "kern_idle", "monitor", "panic"}     \* holds the lock

TypeOK ==
    /\ env_status \in [Envs -> Status]
    /\ env_id \in [Envs -> EnvIds]
    /\ env_parent_id \in [Envs -> EnvIds]
    /\ env_priority \in [Envs -> 0 .. MaxPriority]
    /\ env_ran \in [Envs -> BOOLEAN]
    /\ env_cpunum \in [Envs -> CPUs]
    /\ env_ipc_recving \in [Envs -> BOOLEAN]
    /\ env_free_list \in Seq(Envs)
    /\ curenv \in [CPUs -> Envs \cup {None}]
    /\ cpu_status \in [CPUs -> {"STARTED", "HALTED"}]
    /\ kernel_lock \in CPUs \cup {None}
    /\ pc \in [CPUs -> UserPC \cup IdlePC \cup KernPC]

\* i386_init once boot_aps and the ENV_CREATEs are done: the boot CPU is about
\* to call sched_yield with the lock, the others wait for it in mp_main.
Init ==
    /\ env_status = [e \in Envs |-> IF e < NInitial THEN "RUNNABLE" ELSE "FREE"]
    /\ env_id = [e \in Envs |-> IF e < NInitial THEN EnvId(1, e) ELSE ZeroId]
    /\ env_parent_id = [e \in Envs |-> ZeroId]
    /\ env_priority = [e \in Envs |-> 0]
    /\ env_ran = [e \in Envs |-> FALSE]
    /\ env_cpunum = [e \in Envs |-> BootCpu]
    /\ env_ipc_recving = [e \in Envs |-> FALSE]
    /\ env_free_list = [i \in 1 .. NENV - NInitial |-> NInitial + i - 1]
    /\ curenv = [c \in CPUs |-> None]
    /\ cpu_status = [c \in CPUs |-> "STARTED"]
    /\ kernel_lock = BootCpu
    /\ pc = [c \in CPUs |-> IF c = BootCpu THEN "kern_idle" ELSE "start"]

-----------------------------------------------------------------------------
(***************************************************************************)
(* The scheduler.  A handler passes on what it has made of the table (st,  *)
(* the statuses; pr, the priorities; rn, who has run) and of curenv (cur); *)
(* these operators fix every variable the scheduler writes.                *)
(***************************************************************************)

\* Faulty forms of env_run: the environment switched away from stays RUNNING,
\* or is made RUNNABLE whatever it was.
EnvRunNoDemotion(c, cur, e, st, rn) ==
    /\ env_status' = [st EXCEPT ![e] = "RUNNING"]
    /\ env_ran' = [rn EXCEPT ![e] = TRUE]
    /\ curenv' = [curenv EXCEPT ![c] = e]
    /\ kernel_lock' = None
    /\ pc' = [pc EXCEPT ![c] = "leave"]
    /\ UNCHANGED cpu_status
EnvRunWakesBlocked(c, cur, e, st, rn) ==
    /\ env_status' = [f \in Envs |-> IF f = e THEN "RUNNING"
                                     ELSE IF f = cur THEN "RUNNABLE" ELSE st[f]]
    /\ env_ran' = [rn EXCEPT ![e] = TRUE]
    /\ curenv' = [curenv EXCEPT ![c] = e]
    /\ kernel_lock' = None
    /\ pc' = [pc EXCEPT ![c] = "leave"]
    /\ UNCHANGED cpu_status

\* env_run, up to unlock_kernel
EnvRun(c, cur, e, st, rn) ==
    /\ env_status' = [f \in Envs |->
                        IF f = e THEN "RUNNING"
                        ELSE IF f = cur /\ st[f] = "RUNNING" THEN "RUNNABLE"
                        ELSE st[f]]
    /\ env_ran' = [rn EXCEPT ![e] = TRUE]
    /\ curenv' = [curenv EXCEPT ![c] = e]
    /\ kernel_lock' = None
    /\ pc' = [pc EXCEPT ![c] = "leave"]
    /\ UNCHANGED cpu_status

\* Faulty form: a zombie on another CPU does not count.
AliveButZombies(st) == \E e \in Envs : st[e] \in {"RUNNABLE", "RUNNING"}

SomethingAlive(st) == \E e \in Envs : st[e] \in {"RUNNABLE", "RUNNING", "DYING"}

\* sched_halt.  With nothing alive it enters the monitor and never leaves it,
\* still holding the lock.
SchedHalt(c, cur, st, rn) ==
    /\ env_status' = st
    /\ env_ran' = rn
    /\ IF SomethingAlive(st)
       THEN /\ curenv' = [curenv EXCEPT ![c] = None]
            /\ cpu_status' = [cpu_status EXCEPT ![c] = "HALTED"]
            /\ kernel_lock' = None
            /\ pc' = [pc EXCEPT ![c] = "halted"]
       ELSE /\ curenv' = [curenv EXCEPT ![c] = cur]
            /\ pc' = [pc EXCEPT ![c] = "monitor"]
            /\ UNCHANGED <<cpu_status, kernel_lock>>

\* Faulty form: the scan also takes what another CPU is running.
RunnableOrRunning(st) == {e \in Envs : st[e] \in {"RUNNABLE", "RUNNING"}}
Runnable(st) == {e \in Envs : st[e] = "RUNNABLE"}

\* How far e is from index start in the circular scan of envs[]
Offset(start, e) == IF e >= start THEN e - start ELSE NENV + e - start

FirstInScan(start, S) ==
    {e \in S : \A f \in S : Offset(start, e) <= Offset(start, f)}

\* Faulty form of the scan: it does not wrap around at the end of envs[].
RoundRobinNoWrap(c, cur, st, pr, rn) ==
    LET start == IF cur = None THEN 0 ELSE cur
        seen  == {e \in Runnable(st) : e >= start}
        keep  == cur \in Envs /\ st[cur] = "RUNNING"
    IN  /\ env_priority' = pr
        /\ \/ \E e \in FirstInScan(start, seen) : EnvRun(c, cur, e, st, rn)
           \/ seen = {} /\ keep /\ EnvRun(c, cur, cur, st, rn)
           \/ seen = {} /\ ~keep /\ SchedHalt(c, cur, st, rn)

\* SCHED_ROUND_ROBIN: the scan starts at curenv's own slot, at 0 without one.
RoundRobin(c, cur, st, pr, rn) ==
    LET start == IF cur = None THEN 0 ELSE cur
        keep  == cur \in Envs /\ st[cur] = "RUNNING"
    IN  /\ env_priority' = pr
        /\ \/ \E e \in FirstInScan(start, Runnable(st)) : EnvRun(c, cur, e, st, rn)
           \/ Runnable(st) = {} /\ keep /\ EnvRun(c, cur, cur, st, rn)
           \/ Runnable(st) = {} /\ ~keep /\ SchedHalt(c, cur, st, rn)

\* Who sched_prioridades picks: the least priority not above the maximum,
\* the first in the scan among equals.
Elegibles(st, pr) == {e \in Runnable(st) : pr[e] <= PRIORIDAD_MAX}
Elegidos(start, st, pr) ==
    FirstInScan(start, {e \in Elegibles(st, pr) :
                            \A f \in Elegibles(st, pr) : pr[e] <= pr[f]})

\* Faulty form: priorities only go down, with no lift at the maximum.
RepriorizarNoBoost(e, st, pr, rn) == IF rn[e] THEN [pr EXCEPT ![e] = @ + 1] ELSE pr

\* A pick at the maximum lifts everyone runnable back to the minimum; another
\* one that has run before goes down one step.
Repriorizar(e, st, pr, rn) ==
    IF pr[e] = PRIORIDAD_MAX
    THEN [f \in Envs |-> IF st[f] = "RUNNABLE" THEN PRIORIDAD_MIN ELSE pr[f]]
    ELSE IF rn[e] THEN [pr EXCEPT ![e] = @ + 1] ELSE pr

SchedPrioridades(c, cur, st, pr, rn) ==
    LET start == IF cur = None THEN 0 ELSE cur + 1
        keep  == cur \in Envs /\ st[cur] = "RUNNING" /\ env_cpunum[cur] = c
    IN  \/ \E e \in Elegidos(start, st, pr) :
              /\ env_priority' = Repriorizar(e, st, pr, rn)
              /\ EnvRun(c, cur, e, st, rn)
        \/ /\ Elegibles(st, pr) = {}
           /\ env_priority' = pr
           /\ \/ keep /\ EnvRun(c, cur, cur, st, rn)
              \/ ~keep /\ SchedHalt(c, cur, st, rn)

\* sched_yield
SchedYield(c, cur, st, pr, rn) ==
    \/ Scheduler = "RR" /\ RoundRobin(c, cur, st, pr, rn)
    \/ Scheduler = "PR" /\ SchedPrioridades(c, cur, st, pr, rn)

\* The end of trap(): back to curenv if it may still run, else sched_yield.
TrapEnd(c, st, pr, rn) ==
    IF st[curenv[c]] = "RUNNING"
    THEN env_priority' = pr /\ EnvRun(c, curenv[c], curenv[c], st, rn)
    ELSE SchedYield(c, curenv[c], st, pr, rn)

-----------------------------------------------------------------------------
(***************************************************************************)
(* Outside the lock.                                                       *)
(***************************************************************************)

\* A system call, an exception or the timer takes a CPU out of user mode.
TrapUser(c) ==
    /\ pc[c] = "user"
    /\ pc' = [pc EXCEPT ![c] = "trap"]
    /\ UNCHANGED <<envVars, curenv, cpu_status, kernel_lock>>

\* The timer wakes a halted CPU.  It is a trap from kernel mode, so only
\* CPU_HALTED tells trap() that the lock has to be taken.
TimerHalted(c) ==
    /\ pc[c] = "halted"
    /\ cpu_status' = [cpu_status EXCEPT ![c] = "STARTED"]
    /\ pc' = [pc EXCEPT ![c] = IF cpu_status[c] = "HALTED" THEN "start" ELSE "kern_idle"]
    /\ UNCHANGED <<envVars, curenv, kernel_lock>>

\* Faulty form: the lock is taken without looking whether it is free.
LockNoTest(c) ==
    /\ pc[c] \in {"trap", "start"}
    /\ kernel_lock' = c
    /\ pc' = [pc EXCEPT ![c] = IF @ = "trap" THEN "kern" ELSE "kern_idle"]
    /\ UNCHANGED <<envVars, curenv, cpu_status>>

\* spin_lock: the xchg that finds the lock free.
Lock(c) ==
    /\ pc[c] \in {"trap", "start"}
    /\ kernel_lock = None
    /\ kernel_lock' = c
    /\ pc' = [pc EXCEPT ![c] = IF @ = "trap" THEN "kern" ELSE "kern_idle"]
    /\ UNCHANGED <<envVars, curenv, cpu_status>>

\* Faulty form: the CPU number is not recorded.
ReturnToUserNoCpunum(c) ==
    /\ pc[c] = "leave"
    /\ pc' = [pc EXCEPT ![c] = "user"]
    /\ UNCHANGED <<envVars, curenv, cpu_status, kernel_lock>>

\* The tail of env_run, after unlock_kernel: env_cpunum and context_switch.
ReturnToUser(c) ==
    /\ pc[c] = "leave"
    /\ env_cpunum' = [env_cpunum EXCEPT ![curenv[c]] = c]
    /\ pc' = [pc EXCEPT ![c] = "user"]
    /\ UNCHANGED <<env_status, env_id, env_parent_id, env_priority, env_ran,
                   env_ipc_recving, env_free_list, curenv, cpu_status, kernel_lock>>

-----------------------------------------------------------------------------
(***************************************************************************)
(* Handlers, with the lock.                                                *)
(***************************************************************************)

\* Faulty form: trap() does not look for zombies.
InKernelEvenZombie(c) == pc[c] = "kern"

\* trap() has curenv's registers and dispatches its call.
InKernel(c) == pc[c] = "kern" /\ env_status[curenv[c]] \notin {"DYING", "FREE"}

\* envid2env(id, &e, checkperm) succeeds, called by c's environment.
Envid2env(c, id, e, checkperm) ==
    \/ id = ZeroId /\ e = curenv[c]
    \/ /\ id # ZeroId
       /\ e = id.index
       /\ env_status[e] # "FREE"
       /\ env_id[e] = id
       /\ checkperm => e = curenv[c] \/ env_parent_id[e] = env_id[curenv[c]]

\* env_free: the effect of a free on the statuses and on the free list
Freed(e) == [env_status EXCEPT ![e] = "FREE"]
\* Faulty form: the slot is not returned.
PushNothing(e) == env_free_list
Push(e) == <<e>> \o env_free_list

tableVars == <<env_id, env_parent_id, env_cpunum, env_ipc_recving, env_free_list>>

\* mp_main and i386_init at their first sched_yield; the timer of a halted CPU
SchedIdle(c) ==
    /\ pc[c] = "kern_idle"
    /\ SchedYield(c, None, env_status, env_priority, env_ran)
    /\ UNCHANGED tableVars

\* trap() frees an environment another CPU has left dying, and runs another.
ReapZombie(c) ==
    /\ pc[c] = "kern"
    /\ env_status[curenv[c]] = "DYING"
    /\ env_free_list' = Push(curenv[c])
    /\ SchedYield(c, None, Freed(curenv[c]), env_priority, env_ran)
    /\ UNCHANGED <<env_id, env_parent_id, env_cpunum, env_ipc_recving>>

\* The timer interrupt and sys_yield
Yield(c) ==
    /\ pc[c] = "kern" /\ env_status[curenv[c]] # "DYING"
    /\ SchedYield(c, curenv[c], env_status, env_priority, env_ran)
    /\ UNCHANGED tableVars

\* Every call that leaves the scheduling state alone or fails: sys_getenvid,
\* the page calls, a stale or forbidden envid, no receiver, no free slot, ...
NoEffect(c) ==
    /\ InKernel(c)
    /\ TrapEnd(c, env_status, env_priority, env_ran)
    /\ UNCHANGED tableVars

\* Faulty form: the generation does not start again.
NextGenNoWrap(e) == env_id[e].gen + 1
\* Faulty form: a slot keeps its generation.
NextGenStays(e) == IF env_id[e].gen = 0 THEN 1 ELSE env_id[e].gen
\* env_alloc's next generation; after the last one they start again at 1.
NextGen(e) == IF env_id[e].gen < GenLimit THEN env_id[e].gen + 1 ELSE 1

\* sys_exofork: env_alloc, then the child is held back and given the caller's
\* priority.
SysExofork(c) ==
    /\ "exofork" \in Calls
    /\ InKernel(c)
    /\ env_free_list # <<>>
    /\ LET e == Head(env_free_list)
       IN  /\ env_free_list' = Tail(env_free_list)
           /\ env_id' = [env_id EXCEPT ![e] = EnvId(NextGen(e), e)]
           /\ env_parent_id' = [env_parent_id EXCEPT ![e] = env_id[curenv[c]]]
           /\ env_ipc_recving' = [env_ipc_recving EXCEPT ![e] = FALSE]
           /\ TrapEnd(c, [env_status EXCEPT ![e] = "NOT_RUNNABLE"],
                      [env_priority EXCEPT ![e] = env_priority[curenv[c]]],
                      [env_ran EXCEPT ![e] = FALSE])
    /\ UNCHANGED env_cpunum

\* sys_env_set_status.  fork and dumbfork use it once, on a child that has not
\* run yet; a program may also suspend itself.
SysEnvSetStatus(c, id, s) ==
    /\ InKernel(c)
    /\ \E e \in Envs :
          /\ Envid2env(c, id, e, TRUE)
          /\ \/ "set_status_any" \in Calls
             \/ /\ "set_status" \in Calls
                /\ e # curenv[c] => env_status[e] = "NOT_RUNNABLE" /\ ~env_ran[e]
          /\ TrapEnd(c, [env_status EXCEPT ![e] = s], env_priority, env_ran)
    /\ UNCHANGED tableVars

\* sys_env_destroy, and every other caller of env_destroy: a page fault with
\* no upcall, an unexpected trap, user_mem_assert.
SysEnvDestroy(c, id) ==
    /\ "destroy" \in Calls
    /\ InKernel(c)
    /\ \E e \in Envs :
          /\ Envid2env(c, id, e, TRUE)
          /\ env_status[e] = "DYING" => "destroy_dying" \in Calls
          /\ \/ /\ env_status[e] = "RUNNING" /\ e # curenv[c]
                /\ TrapEnd(c, [env_status EXCEPT ![e] = "DYING"], env_priority, env_ran)
                /\ UNCHANGED env_free_list
             \/ /\ env_status[e] # "RUNNING" /\ e # curenv[c]
                /\ TrapEnd(c, Freed(e), env_priority, env_ran)
                /\ env_free_list' = Push(e)
             \/ /\ e = curenv[c]
                /\ SchedYield(c, None, Freed(e), env_priority, env_ran)
                /\ env_free_list' = Push(e)
    /\ UNCHANGED <<env_id, env_parent_id, env_cpunum, env_ipc_recving>>

\* sys_ipc_recv with an address the kernel accepts
SysIpcRecv(c) ==
    /\ "recv" \in Calls
    /\ InKernel(c)
    /\ env_ipc_recving' = [env_ipc_recving EXCEPT ![curenv[c]] = TRUE]
    /\ SchedYield(c, curenv[c], [env_status EXCEPT ![curenv[c]] = "NOT_RUNNABLE"],
                  env_priority, env_ran)
    /\ UNCHANGED <<env_id, env_parent_id, env_cpunum, env_free_list>>

\* ... and with one it rejects, after it has set env_ipc_recving
SysIpcRecvBadVa(c) ==
    /\ "recv_bad_va" \in Calls
    /\ InKernel(c)
    /\ env_ipc_recving' = [env_ipc_recving EXCEPT ![curenv[c]] = TRUE]
    /\ TrapEnd(c, env_status, env_priority, env_ran)
    /\ UNCHANGED <<env_id, env_parent_id, env_cpunum, env_free_list>>

\* Faulty form: the receiver stays open to a second send.
SysIpcTrySendStillRecving(c, id) ==
    /\ "send" \in Calls
    /\ InKernel(c)
    /\ \E e \in Envs :
          /\ Envid2env(c, id, e, FALSE)
          /\ env_ipc_recving[e]
          /\ TrapEnd(c, [env_status EXCEPT ![e] = "RUNNABLE"], env_priority, env_ran)
    /\ UNCHANGED tableVars

\* sys_ipc_try_send when it succeeds; anyone may send to anyone.
SysIpcTrySend(c, id) ==
    /\ "send" \in Calls
    /\ InKernel(c)
    /\ \E e \in Envs :
          /\ Envid2env(c, id, e, FALSE)
          /\ env_ipc_recving[e]
          /\ env_ipc_recving' = [env_ipc_recving EXCEPT ![e] = FALSE]
          /\ TrapEnd(c, [env_status EXCEPT ![e] = "RUNNABLE"], env_priority, env_ran)
    /\ UNCHANGED <<env_id, env_parent_id, env_cpunum, env_free_list>>

\* sys_modificar_prioridad
SysModificarPrioridad(c) ==
    /\ "modificar" \in Calls
    /\ InKernel(c)
    /\ env_priority[curenv[c]] < MaxPriority
    /\ TrapEnd(c, env_status, [env_priority EXCEPT ![curenv[c]] = @ + 1], env_ran)
    /\ UNCHANGED tableVars

\* An environment freed under its CPU by a second destroy.  That CPU runs on a
\* page directory that has been freed, so what it does in user mode is anyone's
\* guess; of what it may do in the kernel the model keeps two outcomes: the
\* timer switches away from it (Yield), or env_free and env_run follow the null
\* env_pgdir and panic.  The panicking CPU keeps the lock for ever.
Panic(c) ==
    /\ pc[c] = "kern"
    /\ env_status[curenv[c]] = "FREE"
    /\ pc' = [pc EXCEPT ![c] = "panic"]
    /\ UNCHANGED <<envVars, curenv, cpu_status, kernel_lock>>

\* The monitor's loop, entered from sched_halt or from a panic
Monitor(c) ==
    /\ pc[c] \in {"monitor", "panic"}
    /\ UNCHANGED vars

-----------------------------------------------------------------------------
\* The last disjunct holds what only a program that makes unusual calls comes to.
Handler(c) ==
    \/ SchedIdle(c) \/ ReapZombie(c) \/ Yield(c) \/ NoEffect(c) \/ SysExofork(c)
    \/ \E id \in EnvIds :
          \/ SysEnvDestroy(c, id) \/ SysIpcTrySend(c, id)
          \/ \E s \in {"RUNNABLE", "NOT_RUNNABLE"} : SysEnvSetStatus(c, id, s)
    \/ SysIpcRecv(c) \/ SysModificarPrioridad(c)
    \/ \E call \in Calls \cap UnusualCalls : SysIpcRecvBadVa(c) \/ Panic(c)

Next == \E c \in CPUs :
    TrapUser(c) \/ TimerHalted(c) \/ Lock(c) \/ ReturnToUser(c) \/ Handler(c) \/ Monitor(c)

Spec == Init /\ [][Next]_vars

-----------------------------------------------------------------------------
(***************************************************************************)
(* Safety.                                                                 *)
(***************************************************************************)

\* The big kernel lock: its holder is exactly the CPU that is inside the
\* kernel, across traps, halts, env_run and the monitor (kern/spinlock.h and
\* its callers; a halted CPU must say so for its timer to take the lock again).
KernelLock == \A c \in CPUs : pc[c] \in KernPC <=> kernel_lock = c

\* No environment is current on two CPUs at once (sched.c: "Never choose an
\* environment that's currently running on another CPU").
OneCpuPerEnv ==
    \A c, d \in CPUs : c # d /\ curenv[c] # None => curenv[c] # curenv[d]

\* An environment is RUNNING or DYING exactly while some CPU has it loaded: none
\* is left RUNNING with no CPU to run it, no zombie with no CPU to free it.
RunningIsHeld ==
    \A e \in Envs : env_status[e] \in {"RUNNING", "DYING"}
                    <=> \E c \in CPUs : curenv[c] = e /\ pc[c] \in UserPC

\* env_free_list holds each free slot once and nothing else, however forks and
\* destroys from several CPUs interleave.
FreeListExact ==
    /\ \A e \in Envs : env_status[e] = "FREE"
                       <=> \E i \in DOMAIN env_free_list : env_free_list[i] = e
    /\ \A i, j \in DOMAIN env_free_list : env_free_list[i] = env_free_list[j] => i = j

\* env_cpunum, written after the lock is gone, is right whenever the kernel can
\* read it for curenv (sched_prioridades does) or the program does.
CpunumIsCurrent ==
    \A c \in CPUs : pc[c] \in {"user", "trap", "kern"} => env_cpunum[curenv[c]] = c

\* The monitor is entered with nothing alive and, as it keeps the lock, nothing
\* comes back to life on another CPU (sched_halt).
MonitorIsFinal ==
    \A c \in CPUs : pc[c] = "monitor" =>
        \A e \in Envs : env_status[e] \in {"FREE", "NOT_RUNNABLE"}

\* env_ipc_recving marks an environment that is blocked: a send can only wake
\* an environment that no CPU is running and no one has queued.
RecvingIsBlocked ==
    \A e \in Envs : env_ipc_recving[e] /\ env_status[e] # "FREE"
                    => env_status[e] = "NOT_RUNNABLE"

\* A zombie is freed by a trap of its own CPU, which drops it in the same step,
\* and by nothing else (env.c: "A zombie environment will be freed the next time
\* it traps to the kernel").
ZombieFreedByItsCpuStep ==
    \A e \in Envs : env_status[e] = "DYING" /\ env_status'[e] # "DYING" =>
        /\ env_status'[e] = "FREE"
        /\ \E c \in CPUs : pc[c] = "kern" /\ curenv[c] = e /\ curenv'[c] # e
ZombieFreedByItsCpu == [][ZombieFreedByItsCpuStep]_vars

\* A CPU halts only when no environment could run on it.
NoIdleWithWorkStep ==
    \A c \in CPUs : pc[c] # "halted" /\ pc'[c] = "halted" =>
        \A e \in Envs : env_status'[e] # "RUNNABLE"
NoIdleWithWork == [][NoIdleWithWorkStep]_vars

\* What blocked in sys_ipc_recv stays blocked until a send reaches it, or it is
\* destroyed: neither the scheduler nor a parent's set_status resumes it early.
BlockedUntilSentStep ==
    \A e \in Envs : env_status[e] = "NOT_RUNNABLE" /\ env_ipc_recving[e] =>
        \/ env_status'[e] \in {"NOT_RUNNABLE", "FREE"}
        \/ env_status'[e] # "DYING" /\ ~env_ipc_recving'[e]
BlockedUntilSent == [][BlockedUntilSentStep]_vars

-----------------------------------------------------------------------------
(***************************************************************************)
(* Liveness.                                                               *)
(***************************************************************************)

\* The timer interrupts user code and halted CPUs; a CPU that has left the lock
\* reaches user mode; a CPU in the kernel finishes.  The xchg spin lock is not
\* a queue: that a CPU that keeps asking for it gets it is an assumption.
CpuFairness ==
    \A c \in CPUs :
        /\ WF_vars(TrapUser(c)) /\ WF_vars(TimerHalted(c))
        /\ WF_vars(ReturnToUser(c)) /\ WF_vars(Handler(c))
        /\ SF_vars(Lock(c))

\* So is that the timer is the cause of a trap again and again: a program cannot
\* keep it out with system calls.
TimerFairness == \A c \in CPUs : SF_vars(Yield(c))

CpuFairSpec == Spec /\ CpuFairness
FairSpec == CpuFairSpec /\ TimerFairness

\* Every runnable environment gets a CPU or is destroyed (sched.c: "Be careful
\* to not fall in starvation").
NoStarvation ==
    \A e \in Envs : env_status[e] = "RUNNABLE" ~> env_status[e] # "RUNNABLE"

\* A destroyed environment gives its slot back.
ZombiesAreFreed ==
    \A e \in Envs : env_status[e] = "DYING" ~> env_status[e] = "FREE"
====
