------------------------------ MODULE UserFork ------------------------------
(***************************************************************************)
(* Environments that share memory: TP2-sched's user-level fork (lib/fork.c *)
(* and lib/pgfault.c), the page faults the kernel sends back up            *)
(* (kern/trap.c), pages passed by IPC, and exits, over the kernel memory   *)
(* of module Memory.                                                       *)
(*                                                                         *)
(* A handler of the kernel is one step: it runs under the kernel lock      *)
(* (module EnvSched).  Between two system calls of an environment the      *)
(* others run, so fork and the page-fault handler are sequences of steps.  *)
(* Every call a program makes pushes on its stack: at such a step an       *)
(* environment whose stack page is not writable faults first.              *)
(***************************************************************************)
EXTENDS Memory, Sequences

CONSTANTS NoEnv,
          InUse,             \* the sets of pages page_init may find in use
          Frames,            \* how many page faults fit in the exception stack
          MaxForks,          \* bound: forks begun in a run
          Programs           \* what programs do, besides writing their memory

ASSUME InUseAssumption == InUse \subseteq SUBSET Pages
ASSUME NoEnvAssumption == Envs # {} /\ NoEnv \notin Envs
ASSUME FramesAssumption == Frames \in Nat \ {0}
ASSUME MaxForksAssumption == MaxForks \in Nat

VARIABLES m,                 \* the kernel's memory
          env_status,
          env_parent_id,     \* an environment that is gone is nobody's parent
          env_pgfault_upcall,
          env_ipc_recving,
          env_ipc_dstva,     \* 0: no page wanted
          touched,           \* history: cells changed by another, through a
                             \* page passed by IPC, after they were copied
          pgfault_handler,   \* _pgfault_handler is set, in the program's memory
          pc,                \* where each program is
          child,             \* envid, in fork
          pnum,              \* the page fork is at
          faults,            \* the trap frames on the exception stack
          forks,             \* how many forks were begun
          kernel             \* "booting", "running", "panic", or no memory to
                             \* load the first environment: "boot_panic"

envvars == <<env_status, env_parent_id, env_pgfault_upcall, pgfault_handler, kernel>>
ipcvars == <<env_ipc_recving, env_ipc_dstva, touched>>
progvars == <<pc, child, pnum, forks>>
vars == <<m, envvars, ipcvars, progvars, faults>>

ForkPcs == {"set_handler", "set_upcall", "exofork", "dup", "dup_self", "child_stack",
            "child_upcall", "v0_exofork", "v0", "v0_map", "v0_copy", "v0_unmap", "set_status"}

TypeOK ==
    /\ m \in MemType
    /\ env_status \in [Envs -> {"FREE", "NOT_RUNNABLE", "RUNNABLE"}]
    /\ env_parent_id \in [Envs -> Envs \cup {NoEnv}]
    /\ env_pgfault_upcall \in [Envs -> BOOLEAN]
    /\ env_ipc_recving \in [Envs -> BOOLEAN]
    /\ env_ipc_dstva \in [Envs -> VAs]
    /\ touched \subseteq Envs \X Data
    /\ pgfault_handler \in [Envs -> BOOLEAN]
    /\ pc \in [Envs -> ForkPcs \cup {"user", "panic"}]
    /\ child \in [Envs -> Envs \cup {NoEnv}]
    /\ pnum \in [Envs -> VAs \cup {UXSTACK + 1}]
    /\ faults \in [Envs -> Seq([va : VAs, at : {"alloc", "copy", "map", "unmap", "return"}])]
    /\ forks \in 0..MaxForks
    /\ kernel \in {"booting", "boot_panic", "running", "panic"}

\* mem_init and env_init are done
Init ==
    /\ \E inuse \in InUse : m = page_init(inuse)
    /\ env_status = [x \in Envs |-> "FREE"]
    /\ env_parent_id = [x \in Envs |-> NoEnv]
    /\ env_pgfault_upcall = [x \in Envs |-> FALSE]
    /\ env_ipc_recving = [x \in Envs |-> FALSE]
    /\ env_ipc_dstva = [x \in Envs |-> 0]
    /\ touched = {}
    /\ pgfault_handler = [x \in Envs |-> FALSE]
    /\ pc = [x \in Envs |-> "user"]
    /\ child = [x \in Envs |-> NoEnv]
    /\ pnum = [x \in Envs |-> 0]
    /\ faults = [x \in Envs |-> <<>>]
    /\ forks = 0
    /\ kernel = "booting"

-----------------------------------------------------------------------------
(***************************************************************************)
(* The kernel's side.                                                      *)
(***************************************************************************)

\* The loops over pages go from the lowest address up
First(S) == CHOOSE va \in S : \A v \in S : va <= v

\* env_create loads one environment before any runs
FirstEnv == CHOOSE e \in Envs : TRUE

Booted(r, next) ==
    /\ m' = r.m
    /\ kernel' = IF r.err THEN "boot_panic" ELSE next
    /\ UNCHANGED <<env_parent_id, env_pgfault_upcall, pgfault_handler, ipcvars, progvars, faults>>

EnvCreate(e) ==
    /\ kernel = "booting" /\ env_status[e] = "FREE"
    /\ Booted(env_setup_vm(m, e), "booting")
    /\ env_status' = [env_status EXCEPT ![e] = IF m.page_free_list = {} THEN "FREE" ELSE "RUNNABLE"]

\* One turn of region_alloc's loop; after the last page the scheduler starts
LoadIcode(e) ==
    LET missing == {va \in Data \cup {STACK} : ~Mapped(m, e, va)}
        va == First(missing)
    IN  /\ kernel = "booting" /\ env_status[e] = "RUNNABLE"
        /\ missing # {}
        /\ Booted(region_alloc(m, e, va), IF missing = {va} THEN "running" ELSE "booting")
        /\ UNCHANGED env_status

\* env_free: its memory, its slot; its children have no parent any more.  The
\* rest of a free slot is written before it is read again: it is cleared here
Destroyed(e) ==
    /\ m' = env_free(m, e)
    /\ env_status' = [env_status EXCEPT ![e] = "FREE"]
    /\ env_parent_id' = [x \in Envs |-> IF e \in {x, env_parent_id[x]} THEN NoEnv ELSE env_parent_id[x]]
    /\ env_pgfault_upcall' = [env_pgfault_upcall EXCEPT ![e] = FALSE]
    /\ env_ipc_recving' = [env_ipc_recving EXCEPT ![e] = FALSE]
    /\ env_ipc_dstva' = [env_ipc_dstva EXCEPT ![e] = 0]
    /\ touched' = {t \in touched : t[1] # e}
    /\ pgfault_handler' = [pgfault_handler EXCEPT ![e] = FALSE]
    /\ pc' = [pc EXCEPT ![e] = "user"]
    /\ child' = [child EXCEPT ![e] = NoEnv]
    /\ pnum' = [pnum EXCEPT ![e] = 0]
    /\ faults' = [faults EXCEPT ![e] = <<>>]
    /\ UNCHANGED <<kernel, forks>>

\* The frame is pushed before the check that there was room for it
PageFault(e, va) ==
    IF ~(env_pgfault_upcall[e] /\ user_mem_check(m, e, UXSTACK, {"W"}))
    THEN Destroyed(e)
    ELSE /\ IF Len(faults[e]) < Frames
            THEN /\ faults' = [faults EXCEPT ![e] = Append(@, [va |-> va, at |-> "alloc"])]
                 /\ UNCHANGED kernel
            ELSE kernel' = "panic" /\ UNCHANGED faults
         /\ UNCHANGED <<m, env_status, env_parent_id, env_pgfault_upcall, pgfault_handler,
                        ipcvars, progvars>>

-----------------------------------------------------------------------------
(***************************************************************************)
(* The program's side.                                                     *)
(***************************************************************************)

Running(e) == kernel = "running" /\ env_status[e] = "RUNNABLE" /\ pc[e] # "panic"

\* Outside the handler, about to use the stack
AtStack(e) == Running(e) /\ faults[e] = <<>>
CanCall(e) == AtStack(e) /\ HasBit(m, e, STACK, "W")
At(e, label) == CanCall(e) /\ pc[e] = label

StackFault(e) == AtStack(e) /\ ~HasBit(m, e, STACK, "W") /\ PageFault(e, STACK)

Goto(e, label) == pc' = [pc EXCEPT ![e] = label] /\ UNCHANGED <<child, pnum, forks>>

\* After a call that fails the program panics: it enters the monitor for good
Result(e, r, label) ==
    /\ m' = r.m
    /\ pc' = [pc EXCEPT ![e] = IF r.err THEN "panic" ELSE label]

\* A copy of this page of e is about to be used, by its child or by itself
Copied(e, va) ==
    \/ child[e] # NoEnv /\ (va < pnum[e] \/ (pc[e] = "v0_unmap" /\ va = pnum[e]))
    \/ \E i \in DOMAIN faults[e] : faults[e][i] = [va |-> va, at |-> "map"]

\* The program stores x in a page of its own, or reads a page that is not there
Write(e, va, x) ==
    /\ At(e, "user")
    /\ IF HasBit(m, e, va, "W")
       THEN /\ m.data[PageAt(m, e, va)] # x
            /\ m' = [m EXCEPT !.data[PageAt(m, e, va)] = x]
            /\ touched' = touched \cup {t \in (Envs \ {e}) \X Data :
                                         Copied(t[1], t[2]) /\ PageAt(m, t[1], t[2]) = PageAt(m, e, va)}
            /\ UNCHANGED <<env_ipc_recving, env_ipc_dstva, envvars, progvars, faults>>
       ELSE PageFault(e, va)

ReadUnmapped(e, va) == At(e, "user") /\ ~Mapped(m, e, va) /\ PageFault(e, va)

\* sys_cputs of a string in page va: the kernel asks for PTE_W
Cputs(e, va) ==
    /\ At(e, "user")
    /\ ~user_mem_check(m, e, va, {"W"})
    /\ Destroyed(e)

SysPageUnmap(e, va) ==
    /\ At(e, "user")
    /\ Mapped(m, e, va)
    /\ m' = page_remove(m, e, va)
    /\ UNCHANGED <<envvars, ipcvars, progvars, faults>>

\* Itself, or a child; an environment running on another CPU is freed at its
\* next trap, which is when this step is taken
SysEnvDestroy(e, x) ==
    /\ At(e, "user")
    /\ x = e \/ env_parent_id[x] = e
    /\ env_status[x] # "FREE"
    /\ Destroyed(x)

-----------------------------------------------------------------------------
(***************************************************************************)
(* IPC with a page.  ipc_send repeats while the receiver is not receiving. *)
(***************************************************************************)

IpcRecv(e, dstva) ==
    /\ At(e, "user")
    /\ env_ipc_recving' = [env_ipc_recving EXCEPT ![e] = TRUE]
    /\ env_ipc_dstva' = [env_ipc_dstva EXCEPT ![e] = dstva]
    /\ env_status' = [env_status EXCEPT ![e] = "NOT_RUNNABLE"]
    /\ UNCHANGED <<m, env_parent_id, env_pgfault_upcall, pgfault_handler, kernel, touched, progvars, faults>>

\* bail: the message itself.  dstva is not read again before the next receive
Delivered(f) ==
    /\ env_ipc_recving' = [env_ipc_recving EXCEPT ![f] = FALSE]
    /\ env_ipc_dstva' = [env_ipc_dstva EXCEPT ![f] = 0]
    /\ env_status' = [env_status EXCEPT ![f] = "RUNNABLE"]
    /\ UNCHANGED <<env_parent_id, env_pgfault_upcall, pgfault_handler, kernel, touched, faults>>

Receiving(e, f) == At(e, "user") /\ env_status[f] # "FREE" /\ env_ipc_recving[f]

SendValue(e, f) ==
    /\ Receiving(e, f)
    /\ Delivered(f)
    /\ UNCHANGED <<m, progvars>>

\* Faulty form: the page is allocated in the receiver before anything is
\* known of the sender's
SendPageAllocFirst(e, f, srcva, perm) ==
    LET a == env_page_alloc(m, f, env_ipc_dstva[f], perm)
        t == env_page_map(a.m, e, srcva, f, env_ipc_dstva[f], perm)
        r == IF a.err THEN a ELSE t
    IN  /\ Receiving(e, f) /\ env_ipc_dstva[f] # 0
        /\ Mapped(m, e, srcva)
        /\ Result(e, r, "user")
        /\ UNCHANGED <<child, pnum, forks>>
        /\ IF r.err
           THEN UNCHANGED <<envvars, ipcvars, faults>>
           ELSE Delivered(f)

\* The receiver's page is allocated first and the sender's mapped over it
TransferPage(e, srcva, f, perm) ==
    LET a == env_page_alloc(m, f, env_ipc_dstva[f], perm)
        t == env_page_map(a.m, e, srcva, f, env_ipc_dstva[f], perm)
    IN  IF a.err THEN a
        ELSE t

\* What the tests of *srcpte say.  Without a page at srcva page_lookup leaves
\* the pointer unset: what it reads then may pass them or not, or fault in the
\* kernel, which is a panic.
SrcTests(e, srcva, perm) ==
    IF ~Mapped(m, e, srcva) THEN {"pass", "refuse", "fault"}
    ELSE IF "W" \in perm /\ ~HasBit(m, e, srcva, "W") THEN {"refuse"} ELSE {"pass"}

\* That srcva holds a page is not asked before env_page_map
SendPage(e, f, srcva, perm) ==
    LET r == TransferPage(e, srcva, f, perm)
    IN  /\ Receiving(e, f)
        /\ Mapped(m, e, srcva) \/ "ipc_unmapped" \in Programs
        /\ \E test \in SrcTests(e, srcva, perm) :
           IF test = "fault"
           THEN /\ kernel' = "panic"
                /\ UNCHANGED <<m, env_status, env_parent_id, env_pgfault_upcall, pgfault_handler,
                               ipcvars, progvars, faults>>
           ELSE IF test = "refuse"
           THEN /\ Goto(e, "panic")
                /\ UNCHANGED <<m, envvars, ipcvars, faults>>
           ELSE IF env_ipc_dstva[f] = 0
           THEN Delivered(f) /\ UNCHANGED <<m, progvars>>
           ELSE /\ Result(e, r, "user")
                /\ UNCHANGED <<child, pnum, forks>>
                /\ IF r.err
                   THEN UNCHANGED <<envvars, ipcvars, faults>>
                   ELSE Delivered(f)

-----------------------------------------------------------------------------
(***************************************************************************)
(* fork.                                                                   *)
(***************************************************************************)

Same == UNCHANGED <<envvars, ipcvars, faults>>

ForkBegin(e) ==
    /\ At(e, "user")
    /\ forks < MaxForks
    /\ forks' = forks + 1
    /\ pc' = [pc EXCEPT ![e] = IF pgfault_handler[e] THEN "exofork" ELSE "set_handler"]
    /\ UNCHANGED <<m, child, pnum, envvars, ipcvars, faults>>

\* Without memory set_pgfault_handler just returns, and fork goes on
SetHandler(e) ==
    LET r == env_page_alloc(m, e, UXSTACK, {"W"})
    IN  /\ At(e, "set_handler")
        /\ m' = r.m
        /\ Goto(e, IF r.err THEN "exofork" ELSE "set_upcall")
        /\ Same

SetUpcall(e) ==
    /\ At(e, "set_upcall")
    /\ env_pgfault_upcall' = [env_pgfault_upcall EXCEPT ![e] = TRUE]
    /\ pgfault_handler' = [pgfault_handler EXCEPT ![e] = TRUE]
    /\ Goto(e, "exofork")
    /\ UNCHANGED <<m, env_status, env_parent_id, kernel, ipcvars, faults>>

ForkV0Begin(e) ==
    /\ At(e, "user")
    /\ forks < MaxForks
    /\ forks' = forks + 1
    /\ pc' = [pc EXCEPT ![e] = "v0_exofork"]
    /\ UNCHANGED <<m, child, pnum, envvars, ipcvars, faults>>

\* The child has its parent's registers, and the parent's memory when it has it
NewChild(e, c, loop) ==
    /\ m' = env_setup_vm(m, c).m
    /\ env_status' = [env_status EXCEPT ![c] = "NOT_RUNNABLE"]
    /\ env_parent_id' = [env_parent_id EXCEPT ![c] = e]
    /\ env_pgfault_upcall' = [env_pgfault_upcall EXCEPT ![c] = FALSE]
    /\ env_ipc_recving' = [env_ipc_recving EXCEPT ![c] = FALSE]
    /\ pgfault_handler' = [pgfault_handler EXCEPT ![c] = pgfault_handler[e]]
    /\ pc' = [pc EXCEPT ![e] = loop, ![c] = "user"]
    /\ child' = [child EXCEPT ![e] = c]
    /\ pnum' = [pnum EXCEPT ![e] = 0]
    /\ UNCHANGED <<kernel, forks, env_ipc_dstva, touched, faults>>

SysExofork(e, label, loop) ==
    LET free == {c \in Envs : env_status[c] = "FREE"}
    IN  /\ At(e, label)
        /\ IF free = {} \/ m.page_free_list = {}
           THEN Goto(e, "panic") /\ UNCHANGED <<m, envvars, ipcvars, faults>>
           ELSE \E c \in free : NewChild(e, c, loop)

\* The pages from pnum on that the loop finds in uvpt
Left(e, skipped) == {va \in VAs : va >= pnum[e] /\ Mapped(m, e, va) /\ va \notin skipped}

\* duppage: the child's mapping comes before the parent's own
Dup(e) ==
    LET va == First(Left(e, {UXSTACK}))
        private == m.perm[e][va] # {}
        r == env_page_map(m, e, va, child[e], va, IF private THEN {"COW"} ELSE {})
    IN  /\ At(e, "dup")
        /\ IF Left(e, {UXSTACK}) = {}
           THEN Goto(e, "child_stack") /\ UNCHANGED m
           ELSE /\ Result(e, r, IF private THEN "dup_self" ELSE "dup")
                /\ pnum' = [pnum EXCEPT ![e] = IF private THEN va ELSE va + 1]
                /\ UNCHANGED <<child, forks>>
        /\ Same

\* Faulty form: the parent keeps its write permission
DupSelfNot(e) ==
    /\ At(e, "dup_self")
    /\ pc' = [pc EXCEPT ![e] = "dup"]
    /\ pnum' = [pnum EXCEPT ![e] = @ + 1]
    /\ UNCHANGED <<m, child, forks>>
    /\ Same

DupSelf(e) ==
    LET r == env_page_map(m, e, pnum[e], e, pnum[e], {"COW"})
    IN  /\ At(e, "dup_self")
        /\ Result(e, r, "dup")
        /\ pnum' = [pnum EXCEPT ![e] = @ + 1]
        /\ UNCHANGED <<child, forks>>
        /\ Same

ChildStack(e) ==
    /\ At(e, "child_stack")
    /\ Result(e, env_page_alloc(m, child[e], UXSTACK, {"W"}), "child_upcall")
    /\ UNCHANGED <<child, pnum, forks>>
    /\ Same

\* Without an upcall of its own the parent does not get here: its stack is
\* copy-on-write since DupSelf
ChildUpcall(e) ==
    /\ At(e, "child_upcall")
    /\ env_pgfault_upcall' = [env_pgfault_upcall EXCEPT ![child[e]] = env_pgfault_upcall[e]]
    /\ Goto(e, "set_status")
    /\ UNCHANGED <<m, env_status, env_parent_id, pgfault_handler, kernel, ipcvars, faults>>

SetStatus(e) ==
    /\ At(e, "set_status")
    /\ env_status' = [env_status EXCEPT ![child[e]] = "RUNNABLE"]
    /\ pc' = [pc EXCEPT ![e] = "user"]
    /\ child' = [child EXCEPT ![e] = NoEnv]
    /\ pnum' = [pnum EXCEPT ![e] = 0]
    /\ touched' = {t \in touched : t[1] # e}
    /\ UNCHANGED <<m, env_parent_id, env_pgfault_upcall, pgfault_handler, kernel, env_ipc_recving,
                   env_ipc_dstva, forks, faults>>

\* fork_v0, dup_or_share: a writable page is copied, any other is shared
V0Page(e) ==
    LET va == First(Left(e, {}))
        r == IF "W" \in m.perm[e][va] THEN env_page_alloc(m, child[e], va, {"W"})
             ELSE env_page_map(m, e, va, child[e], va, {})
    IN  /\ At(e, "v0")
        /\ IF Left(e, {}) = {}
           THEN Goto(e, "set_status") /\ UNCHANGED m
           ELSE /\ Result(e, r, IF "W" \in m.perm[e][va] THEN "v0_map" ELSE "v0")
                /\ pnum' = [pnum EXCEPT ![e] = IF "W" \in m.perm[e][va] THEN va ELSE va + 1]
                /\ UNCHANGED <<child, forks>>
        /\ Same

V0Map(e) ==
    /\ At(e, "v0_map")
    /\ Result(e, env_page_map(m, child[e], pnum[e], e, UTEMP, {"W"}), "v0_copy")
    /\ UNCHANGED <<child, pnum, forks>>
    /\ Same

V0Copy(e) ==
    /\ At(e, "v0_copy")
    /\ IF Mapped(m, e, pnum[e])
       THEN m' = CopyPage(m, e, pnum[e], UTEMP) /\ Goto(e, "v0_unmap") /\ Same
       ELSE PageFault(e, pnum[e])

V0Unmap(e) ==
    /\ At(e, "v0_unmap")
    /\ m' = page_remove(m, e, UTEMP)
    /\ pc' = [pc EXCEPT ![e] = "v0"]
    /\ pnum' = [pnum EXCEPT ![e] = @ + 1]
    /\ UNCHANGED <<child, forks>>
    /\ Same

-----------------------------------------------------------------------------
(***************************************************************************)
(* pgfault, called by _pgfault_upcall on the exception stack.              *)
(***************************************************************************)

Top(e) == faults[e][Len(faults[e])]
InHandler(e, label) == Running(e) /\ faults[e] # <<>> /\ Top(e).at = label
Step(e, r, label) ==
    /\ m' = r.m
    /\ IF r.err
       THEN Goto(e, "panic") /\ UNCHANGED faults
       ELSE /\ faults' = [faults EXCEPT ![e][Len(faults[e])].at = label]
            /\ UNCHANGED progvars
    /\ touched' = IF label = "unmap" THEN touched \ {<<e, Top(e).va>>} ELSE touched
    /\ UNCHANGED <<envvars, env_ipc_recving, env_ipc_dstva>>

\* The test of FEC_WR and PTE_COW that comes first never panics: & of the
\* bit 2 and a truth value
HandlerAlloc(e) ==
    InHandler(e, "alloc") /\ Step(e, env_page_alloc(m, e, PFTEMP, {"W"}), "copy")

HandlerCopy(e) ==
    /\ InHandler(e, "copy")
    /\ IF Mapped(m, e, Top(e).va)
       THEN Step(e, Ok(CopyPage(m, e, Top(e).va, PFTEMP)), "map")
       ELSE PageFault(e, Top(e).va)

\* Faulty form: the private copy is not made writable
HandlerMapReadOnly(e) ==
    InHandler(e, "map") /\ Step(e, env_page_map(m, e, PFTEMP, e, Top(e).va, {}), "unmap")

HandlerMap(e) ==
    InHandler(e, "map") /\ Step(e, env_page_map(m, e, PFTEMP, e, Top(e).va, {"W"}), "unmap")

HandlerUnmap(e) ==
    InHandler(e, "unmap") /\ Step(e, Ok(page_remove(m, e, PFTEMP)), "return")

\* The upcall writes the trap-time eip on the trap-time stack: the user's,
\* if this is the outer frame
HandlerReturn(e) ==
    /\ InHandler(e, "return")
    /\ IF Len(faults[e]) = 1 /\ ~HasBit(m, e, STACK, "W")
       THEN PageFault(e, STACK)
       ELSE /\ faults' = [faults EXCEPT ![e] = SubSeq(@, 1, Len(@) - 1)]
            /\ UNCHANGED <<m, envvars, ipcvars, progvars>>

-----------------------------------------------------------------------------

ForkStep(e) ==
    \/ SetHandler(e) \/ SetUpcall(e)
    \/ SysExofork(e, "exofork", "dup") \/ SysExofork(e, "v0_exofork", "v0")
    \/ Dup(e) \/ DupSelf(e) \/ ChildStack(e) \/ ChildUpcall(e) \/ SetStatus(e)
    \/ V0Page(e) \/ V0Map(e) \/ V0Copy(e) \/ V0Unmap(e)

HandlerStep(e) ==
    \/ HandlerAlloc(e) \/ HandlerCopy(e) \/ HandlerMap(e) \/ HandlerUnmap(e) \/ HandlerReturn(e)

ProgramStep(e) ==
    \/ \E va \in Data, x \in Vals : Write(e, va, x)
    \/ "wild" \in Programs /\ \E va \in Data : ReadUnmapped(e, va) \/ SysPageUnmap(e, va)
    \/ "cputs" \in Programs /\ \E va \in Data : Cputs(e, va)
    \/ "fork" \in Programs /\ ForkBegin(e)
    \/ "fork_v0" \in Programs /\ ForkV0Begin(e)
    \/ "exit" \in Programs /\ \E x \in Envs : SysEnvDestroy(e, x)
    \/ "ipc" \in Programs /\ \E va \in Data \cup {0} : IpcRecv(e, va)
    \/ "ipc" \in Programs /\ \E f \in Envs :
          SendValue(e, f) \/ \E va \in Data, perm \in {{}, {"W"}} : SendPage(e, f, va, perm)

Next ==
    \/ EnvCreate(FirstEnv)
    \/ LoadIcode(FirstEnv)
    \/ \E e \in Envs : StackFault(e) \/ ForkStep(e) \/ HandlerStep(e) \/ ProgramStep(e)

Spec == Init /\ [][Next]_vars

\* The kernel schedules every runnable environment (NoStarvation of EnvSched)
Fairness == \A e \in Envs : WF_vars(StackFault(e)) /\ WF_vars(HandlerStep(e))
FairSpec == Spec /\ Fairness

-----------------------------------------------------------------------------
(***************************************************************************)
(* What holds.                                                             *)
(***************************************************************************)

\* A page's reference count is the number of directories, directory entries
\* and table entries that refer to it, whatever fails half way.
RefsExact == \A p \in Pages : m.pp_ref[p] = Cardinality(Users(m, p))

\* A page on page_free_list is mapped nowhere, and a page nobody refers to is on
\* the list, or is the kernel's own, or was lost at the one place that loses
\* pages (NoPageLost).
FreeListExact ==
    \A p \in Pages : (p \in m.page_free_list) <=> (Users(m, p) = {} /\ p \notin m.unlisted)

\* kern/syscall.c:235: "If page_insert() fails, remember to free the page you
\* allocated!"  Once environments run no page leaves the allocator for good.
NoPageLost == [][kernel = "running" => m'.unlisted = m.unlisted]_vars

\* A page that serves as a directory or a table is nothing else: no program
\* can write one, and no two environments have one in common.
TablesPrivate ==
    \A s \in Slots : s[2] # "pte" /\ m.slot[s] # NoPage => Users(m, m.slot[s]) = {s}

Started(e) ==
    /\ kernel \in {"running", "panic"}
    /\ env_status[e] = "RUNNABLE" \/ (env_status[e] # "FREE" /\ env_ipc_recving[e])

\* e and f have the page at e's va in common and f may write it
WritableBy(f, e, va) ==
    \E w \in VAs : Mapped(m, e, va) /\ HasBit(m, f, w, "W") /\ PageAt(m, e, va) = PageAt(m, f, w)

\* No environment can write another's stack, in spite of fork mapping the
\* page in both while the parent goes on using it.
StacksPrivate ==
    \A e, f \in Envs : Started(e) /\ Started(f) /\ e # f =>
        \A va \in {STACK, UXSTACK} : ~WritableBy(f, e, va)

\* While an environment waits for a message its address space stands still
\* (unless the environment is destroyed): a send that fails does not show.
BlockedSpaceStable ==
    [][\A e \in Envs :
         env_status[e] # "FREE" /\ env_ipc_recving[e] /\ env_status'[e] # "FREE" /\ env_ipc_recving'[e]
         => \A va \in Data : /\ Mapped(m, e, va) => m'.slot[Pte(e, va)] = m.slot[Pte(e, va)]
                            /\ m'.perm[e][va] = m.perm[e][va]]_vars

\* An environment that faults on its stack gets a stack it can write and
\* goes on, through faults inside the handler too, or it stops for good.
FaultsEnd ==
    \A e \in Envs :
        (AtStack(e) /\ ~HasBit(m, e, STACK, "W"))
        ~> ((faults[e] = <<>> /\ HasBit(m, e, STACK, "W")) \/ ~Running(e))

\* trap.c:335: an environment that overflows its exception stack is
\* destroyed; no program brings the kernel down.
KernelSurvives == kernel # "panic"

\* The refinement mapping of AddressSpaces.  A cell is shared while it may be
\* written at another address, or by another environment; and in the middle of
\* a fork or of a fault, when another has changed it since it was copied.
Content(e, va) == IF Mapped(m, e, va) THEN m.data[PageAt(m, e, va)] ELSE NoPage
SharedCell(e, va) ==
    /\ Started(e)
    /\ \/ \E f \in Envs, w \in Data :
             /\ Started(f) /\ <<f, w>> # <<e, va>>
             /\ Mapped(m, e, va) /\ HasBit(m, f, w, "W") /\ PageAt(m, e, va) = PageAt(m, f, w)
       \/ <<e, va>> \in touched

Spaces == INSTANCE AddressSpaces WITH
    Addresses <- Data,
    Unmapped <- NoPage,
    begun <- kernel \in {"running", "panic"},
    alive <- {e \in Envs : Started(e)},
    space <- [e \in Envs |-> [va \in Data |-> IF Started(e) THEN Content(e, va) ELSE NoPage]],
    faulting <- {e \in Envs : faults[e] # <<>>},
    shared <- {c \in Envs \X Data : SharedCell(c[1], c[2])}

\* Under copy-on-write, page faults inside fork, exits and memory that runs
\* out, an environment sees its own writes, a child starts with its
\* parent's memory, and nobody sees another's writes but in a page passed
\* by IPC.
ImplementsSpaces == Spaces!Spec
=============================================================================
