-------------------------- MODULE UserFork_proofs --------------------------
(***************************************************************************)
(* What holds of module UserFork for any set of environments, any amount   *)
(* of memory, any programs and any number of forks: reference counts and   *)
(* the free list are exact, page directories and tables are private, what  *)
(* an environment has mapped stands still while it waits, and nobody may   *)
(* write another's stack.                                                  *)
(***************************************************************************)
EXTENDS UserFork, Memory_proofs, SequenceTheorems, WellFoundedInduction

Frame == [va : VAs, at : {"alloc", "copy", "map", "unmap", "return"}]

\* Where a program is while it has a child it has not started
Loops == {"dup", "dup_self", "child_stack", "child_upcall",
          "v0", "v0_map", "v0_copy", "v0_unmap", "set_status"}
\* ... with a page in the middle of being duplicated
OnPage == {"dup_self", "v0_map", "v0_copy", "v0_unmap"}

Types ==
    /\ env_status \in [Envs -> {"FREE", "NOT_RUNNABLE", "RUNNABLE"}]
    /\ env_parent_id \in [Envs -> Envs \cup {NoEnv}]
    /\ env_pgfault_upcall \in [Envs -> BOOLEAN]
    /\ env_ipc_recving \in [Envs -> BOOLEAN]
    /\ env_ipc_dstva \in [Envs -> VAs]
    /\ touched \subseteq Envs \X Data
    /\ pgfault_handler \in [Envs -> BOOLEAN]
    /\ pc \in [Envs -> ForkPcs \cup {"user", "panic"}]
    /\ child \in [Envs -> Envs \cup {NoEnv}]
    /\ pnum \in [Envs -> VAs \cup {UXSTACK + 1}]
    /\ faults \in [Envs -> Seq(Frame)]
    /\ forks \in 0..MaxForks
    /\ kernel \in {"booting", "boot_panic", "running", "panic"}

\* A free slot of envs[] has no memory, waits for nothing and has no child.
FreeIsEmpty ==
    \A e \in Envs : env_status[e] = "FREE" =>
        /\ \A s \in Slots : s[1] = e => m.slot[s] = NoPage
        /\ child[e] = NoEnv

WaitingSleeps == \A e \in Envs : env_ipc_recving[e] => env_status[e] = "NOT_RUNNABLE"

\* The child of an unfinished fork is its parent's, and nobody else can start,
\* wake or destroy it.
ForkOwnsChild ==
    \A e \in Envs :
        /\ pc[e] \in Loops => child[e] \in Envs
        /\ pc[e] \in OnPage => pnum[e] \in VAs
        /\ child[e] \in Envs =>
              /\ pc[e] \in Loops \cup {"panic"}
              /\ env_status[child[e]] = "NOT_RUNNABLE"
              /\ ~env_ipc_recving[child[e]]
              /\ env_parent_id[child[e]] = e

IInv ==
    /\ MemInv(m, NoPage, NoPage)
    /\ Types
    /\ FreeIsEmpty
    /\ WaitingSleeps
    /\ ForkOwnsChild

-----------------------------------------------------------------------------

\* The parts of the invariant that the runs check.
LEMMA Consequences == IInv => TypeOK /\ RefsExact /\ FreeListExact /\ TablesPrivate
<1> SUFFICES ASSUME IInv
             PROVE  TypeOK /\ RefsExact /\ FreeListExact /\ TablesPrivate
  OBVIOUS
<1>1. MemInv(m, NoPage, NoPage) /\ m \in MemType
  BY DEF IInv, MemInv
<1>2. TypeOK
  BY <1>1 DEF IInv, Types, TypeOK, Frame
<1>3. RefsExact
  BY <1>1, PagesAssumption DEF MemInv, Counted, RefsExact
<1>4. FreeListExact
  BY <1>1, PagesAssumption DEF MemInv, ListExact, FreeListExact
<1>5. TablesPrivate
  <2> SUFFICES ASSUME NEW s \in Slots, s[2] # "pte", m.slot[s] # NoPage
               PROVE  Users(m, m.slot[s]) = {s}
    BY DEF TablesPrivate
  <2> QED
    BY <1>1 DEF MemInv, Private, Users
<1> QED
  BY <1>2, <1>3, <1>4, <1>5

LEMMA InitIInv == Init => IInv
<1> SUFFICES ASSUME Init
             PROVE  IInv
  OBVIOUS
<1>1. PICK inuse \in InUse : m = page_init(inuse)
  BY DEF Init
<1>2. MemInv(m, NoPage, NoPage)
  BY <1>1, InitInv, InUseAssumption
<1>3. Types
  <2>1. 0 \in VAs /\ 0 \in 0..MaxForks
    BY AddressFacts, MaxForksAssumption DEF UTEMP
  <2>2. <<>> \in Seq(Frame)
    OBVIOUS
  <2> QED
    BY <2>1, <2>2 DEF Init, Types
<1>4. FreeIsEmpty
  BY <1>1 DEF Init, FreeIsEmpty, page_init
<1>5. WaitingSleeps /\ ForkOwnsChild
  BY NoEnvAssumption DEF Init, WaitingSleeps, ForkOwnsChild, Loops, OnPage
<1> QED
  BY <1>2, <1>3, <1>4, <1>5 DEF IInv

-----------------------------------------------------------------------------

\* A loop over pages finds the next one, when there is one left.
LEMMA FirstIn ==
    ASSUME NEW S \in SUBSET VAs, S # {}
    PROVE  First(S) \in S /\ \A v \in S : First(S) <= v
<1> DEFINE less == OpToRel(<, Nat)
<1>1. IsWellFoundedOn(less, Nat)
  BY NatLessThanWellFounded
<1>2. S \subseteq Nat
  BY AddressFacts
<1>3. \A a, b \in Nat : a < b => <<a, b>> \in less
  BY DEF OpToRel
<1> HIDE DEF less
<1>4. PICK va \in S : \A v \in S : <<v, va>> \notin less
  BY <1>1, <1>2, WFMin
<1>5. ASSUME NEW v \in S
      PROVE  va <= v
  <2>1. v \in Nat /\ va \in Nat
    BY <1>2
  <2>2. ~(v < va)
    BY <1>3, <1>4, <2>1
  <2> QED
    BY <2>1, <2>2
<1> QED
  BY <1>5 DEF First

\* The parts of the invariant, and what being a runnable environment excludes.
LEMMA Parts ==
    ASSUME IInv
    PROVE  /\ MemInv(m, NoPage, NoPage) /\ Types /\ FreeIsEmpty /\ WaitingSleeps /\ ForkOwnsChild
           /\ \A e \in Envs : env_status[e] = "RUNNABLE" =>
                 \A f \in Envs : child[f] # e /\ env_parent_id[e] \in Envs \cup {NoEnv}
           /\ \A e, f \in Envs : env_ipc_recving[f] => child[e] # f
<1>1. MemInv(m, NoPage, NoPage) /\ Types /\ FreeIsEmpty /\ WaitingSleeps /\ ForkOwnsChild
  BY DEF IInv
<1>2. \A e \in Envs : env_status[e] = "RUNNABLE" =>
         \A f \in Envs : child[f] # e /\ env_parent_id[e] \in Envs \cup {NoEnv}
  BY <1>1 DEF ForkOwnsChild, Types
<1>3. \A e, f \in Envs : env_ipc_recving[f] => child[e] # f
  BY <1>1 DEF ForkOwnsChild
<1> QED
  BY <1>1, <1>2, <1>3

\* A step that changes the memory of one environment, and nothing of who is
\* free, who waits and whose child is whose.
LEMMA QuietStep ==
    ASSUME IInv, MemInv(m', NoPage, NoPage), Types',
           NEW x \in Envs, OnlySlotsOf(m, m', x), env_status[x] # "FREE",
           UNCHANGED <<env_status, env_parent_id, env_ipc_recving, child>>,
           NEW e \in Envs,
           \A f \in Envs : f # e => pc'[f] = pc[f] /\ pnum'[f] = pnum[f],
           pc'[e] \in Loops => child[e] \in Envs,
           child[e] \in Envs => pc'[e] \in Loops \cup {"panic"},
           pc'[e] \in OnPage => pnum'[e] \in VAs
    PROVE  IInv'
<1>1. /\ MemInv(m, NoPage, NoPage) /\ Types /\ FreeIsEmpty /\ WaitingSleeps /\ ForkOwnsChild
  BY Parts
<1>2. FreeIsEmpty'
  BY <1>1 DEF FreeIsEmpty, OnlySlotsOf
<1>3. WaitingSleeps'
  BY <1>1 DEF WaitingSleeps
<1>4. ForkOwnsChild'
  <2> SUFFICES ASSUME NEW f \in Envs
               PROVE  /\ pc'[f] \in Loops => child[f] \in Envs
                      /\ pc'[f] \in OnPage => pnum'[f] \in VAs
                      /\ child[f] \in Envs =>
                            /\ pc'[f] \in Loops \cup {"panic"}
                            /\ env_status[child[f]] = "NOT_RUNNABLE"
                            /\ ~env_ipc_recving[child[f]]
                            /\ env_parent_id[child[f]] = f
    BY DEF ForkOwnsChild
  <2>1. CASE f = e
    BY <1>1, <2>1 DEF ForkOwnsChild
  <2>2. CASE f # e
    BY <1>1, <2>2 DEF ForkOwnsChild
  <2> QED
    BY <2>1, <2>2
<1> QED
  BY <1>2, <1>3, <1>4 DEF IInv

\* An environment goes, if no unfinished fork has it as its child.
LEMMA DestroyedKeeps ==
    ASSUME IInv, NEW x \in Envs, Destroyed(x), \A f \in Envs : child[f] # x
    PROVE  IInv'
<1>1. /\ MemInv(m, NoPage, NoPage) /\ Types /\ FreeIsEmpty /\ WaitingSleeps /\ ForkOwnsChild
  BY Parts
<1>2. /\ MemInv(m', NoPage, NoPage)
      /\ OnlySlotsOf(m, m', x)
      /\ \A s \in Slots : s[1] = x => m'.slot[s] = NoPage
  BY <1>1, EnvFreeInv DEF Destroyed
<1>3. Types'
  <2>1. 0 \in VAs /\ <<>> \in Seq(Frame)
    BY AddressFacts DEF UTEMP
  <2> QED
    BY <1>1, <2>1 DEF Types, Destroyed
<1>4. FreeIsEmpty'
  BY <1>1, <1>2 DEF FreeIsEmpty, OnlySlotsOf, Destroyed, Types
<1>5. WaitingSleeps'
  BY <1>1 DEF WaitingSleeps, Destroyed, Types
<1>6. ForkOwnsChild'
  <2> SUFFICES ASSUME NEW f \in Envs
               PROVE  /\ pc'[f] \in Loops => child'[f] \in Envs
                      /\ pc'[f] \in OnPage => pnum'[f] \in VAs
                      /\ child'[f] \in Envs =>
                            /\ pc'[f] \in Loops \cup {"panic"}
                            /\ env_status'[child'[f]] = "NOT_RUNNABLE"
                            /\ ~env_ipc_recving'[child'[f]]
                            /\ env_parent_id'[child'[f]] = f
    BY DEF ForkOwnsChild
  <2>1. CASE f = x
    BY <1>1, <2>1, NoEnvAssumption DEF Types, Destroyed, Loops, OnPage
  <2>2. CASE f # x
    <3>1. child'[f] = child[f] /\ pc'[f] = pc[f] /\ pnum'[f] = pnum[f] /\ child[f] # x
      BY <1>1, <2>2 DEF Types, Destroyed
    <3>2. ASSUME child[f] \in Envs
          PROVE  /\ env_status'[child[f]] = "NOT_RUNNABLE"
                 /\ ~env_ipc_recving'[child[f]]
                 /\ env_parent_id'[child[f]] = f
      <4>1. /\ env_status[child[f]] = "NOT_RUNNABLE"
            /\ ~env_ipc_recving[child[f]]
            /\ env_parent_id[child[f]] = f
        BY <1>1, <3>2 DEF ForkOwnsChild
      <4> QED
        BY <1>1, <2>2, <3>1, <3>2, <4>1 DEF Types, Destroyed
    <3> QED
      BY <1>1, <3>1, <3>2 DEF ForkOwnsChild
  <2> QED
    BY <2>1, <2>2
<1> QED
  BY <1>2, <1>3, <1>4, <1>5, <1>6 DEF IInv

\* Nothing of the page tables changes: the rest of the memory may.
LEMMA SameSlots ==
    ASSUME NEW mm, NEW nn, NEW e \in Envs, nn.slot = mm.slot
    PROVE  OnlySlotsOf(mm, nn, e)
BY DEF OnlySlotsOf

\* A page fault is a frame more, a panic, or the end of the environment.
LEMMA PageFaultKeeps ==
    ASSUME IInv, NEW e \in Envs, env_status[e] = "RUNNABLE", NEW va \in VAs, PageFault(e, va)
    PROVE  IInv'
<1>1. /\ MemInv(m, NoPage, NoPage) /\ Types /\ FreeIsEmpty /\ WaitingSleeps /\ ForkOwnsChild
      /\ \A f \in Envs : child[f] # e
  BY Parts
<1>2. CASE Destroyed(e)
  BY <1>1, <1>2, DestroyedKeeps
<1>3. CASE ~Destroyed(e)
  <2>1. /\ UNCHANGED <<m, env_status, env_parent_id, env_pgfault_upcall, pgfault_handler, ipcvars, progvars>>
        /\ \/ Len(faults[e]) < Frames /\ UNCHANGED kernel
              /\ faults' = [faults EXCEPT ![e] = Append(@, [va |-> va, at |-> "alloc"])]
           \/ kernel' = "panic" /\ UNCHANGED faults
    BY <1>3 DEF PageFault
  <2>2. Types'
    <3>1. faults[e] \in Seq(Frame) /\ [va |-> va, at |-> "alloc"] \in Frame
      BY <1>1 DEF Types, Frame
    <3>2. Append(faults[e], [va |-> va, at |-> "alloc"]) \in Seq(Frame)
      BY <3>1, AppendProperties
    <3> QED
      BY <1>1, <2>1, <3>2 DEF Types, ipcvars, progvars
  <2>3. MemInv(m', NoPage, NoPage) /\ OnlySlotsOf(m, m', e)
    BY <1>1, <2>1, SameSlots
  <2> QED
    BY <1>1, <2>1, <2>2, <2>3, QuietStep DEF ipcvars, progvars, ForkOwnsChild
<1> QED
  BY <1>2, <1>3

-----------------------------------------------------------------------------
(***************************************************************************)
(* One lemma per action.                                                   *)
(***************************************************************************)

LEMMA EnvCreateKeeps ==
    ASSUME IInv, NEW e \in Envs, EnvCreate(e)
    PROVE  IInv'
<1>1. /\ MemInv(m, NoPage, NoPage) /\ Types /\ FreeIsEmpty /\ WaitingSleeps /\ ForkOwnsChild
  BY Parts
<1> DEFINE r == env_setup_vm(m, e)
<1>2. /\ kernel = "booting" /\ env_status[e] = "FREE" /\ m' = r.m
      /\ kernel' = IF r.err THEN "boot_panic" ELSE "booting"
      /\ env_status' = [env_status EXCEPT ![e] = IF m.page_free_list = {} THEN "FREE" ELSE "RUNNABLE"]
      /\ UNCHANGED <<env_parent_id, env_pgfault_upcall, pgfault_handler, ipcvars, progvars, faults>>
  BY DEF EnvCreate, Booted
<1>3. m.slot[Pgdir(e)] = NoPage
  BY <1>1, <1>2, SlotFacts DEF FreeIsEmpty
<1>4. Settled(m, r, e) /\ (r.err <=> m.page_free_list = {})
  BY <1>1, <1>3, SetupInv
<1>5. r.err => r.m = m
  BY <1>4 DEF env_setup_vm, Fail
<1> HIDE DEF r
<1>6. Types'
  BY <1>1, <1>2, <1>4 DEF Types, Settled, ipcvars, progvars
<1>7. FreeIsEmpty'
  BY <1>1, <1>2, <1>4, <1>5 DEF FreeIsEmpty, Settled, OnlySlotsOf, Types, progvars
<1>8. WaitingSleeps'
  BY <1>1, <1>2 DEF WaitingSleeps, Types, ipcvars
<1>9. ForkOwnsChild'
  BY <1>1, <1>2 DEF ForkOwnsChild, Types, ipcvars, progvars
<1> QED
  BY <1>2, <1>4, <1>6, <1>7, <1>8, <1>9 DEF IInv, Settled

LEMMA LoadIcodeKeeps ==
    ASSUME IInv, NEW e \in Envs, LoadIcode(e)
    PROVE  IInv'
<1>1. /\ MemInv(m, NoPage, NoPage) /\ Types /\ FreeIsEmpty /\ WaitingSleeps /\ ForkOwnsChild
  BY Parts
<1> DEFINE missing == {va \in Data \cup {STACK} : ~Mapped(m, e, va)}
           va == First(missing)
           r == region_alloc(m, e, va)
<1>2. /\ env_status[e] = "RUNNABLE" /\ missing # {}
      /\ m' = r.m
      /\ kernel' \in {"booting", "boot_panic", "running", "panic"}
      /\ UNCHANGED <<env_status, env_parent_id, env_pgfault_upcall, pgfault_handler, ipcvars, progvars, faults>>
  BY DEF LoadIcode, Booted
<1>3. va \in VAs
  BY <1>2, FirstIn, AddressFacts
<1>4. Settled(m, r, e)
  BY <1>1, <1>3, PageAllocInv DEF region_alloc, Bits
<1> HIDE DEF missing, r
<1>5. Types'
  BY <1>1, <1>2 DEF Types, ipcvars, progvars
<1> QED
  BY <1>1, <1>2, <1>4, <1>5, QuietStep DEF Settled, ipcvars, progvars, ForkOwnsChild

\* A program's own steps: it is runnable, and no unfinished fork's child.
LEMMA RunningFacts ==
    ASSUME IInv, NEW e \in Envs, Running(e)
    PROVE  /\ MemInv(m, NoPage, NoPage) /\ Types /\ ForkOwnsChild
           /\ env_status[e] = "RUNNABLE" /\ env_status[e] # "FREE"
           /\ \A f \in Envs : child[f] # e
           /\ pc[e] \notin Loops => child[e] \notin Envs
<1>1. /\ MemInv(m, NoPage, NoPage) /\ Types /\ ForkOwnsChild /\ env_status[e] = "RUNNABLE" /\ pc[e] # "panic"
  BY Parts DEF Running
<1>2. \A f \in Envs : child[f] # e
  BY <1>1, Parts
<1>3. pc[e] \notin Loops => child[e] \notin Envs
  BY <1>1 DEF ForkOwnsChild
<1> QED
  BY <1>1, <1>2, <1>3

LEMMA StackFaultKeeps ==
    ASSUME IInv, NEW e \in Envs, StackFault(e)
    PROVE  IInv'
BY RunningFacts, PageFaultKeeps, AddressFacts DEF StackFault, AtStack

LEMMA WriteKeeps ==
    ASSUME IInv, NEW e \in Envs, NEW va \in Data, NEW v \in Vals, Write(e, va, v)
    PROVE  IInv'
<1>1. /\ MemInv(m, NoPage, NoPage) /\ Types /\ ForkOwnsChild /\ env_status[e] = "RUNNABLE"
  BY RunningFacts DEF Write, At, CanCall, AtStack
<1>2. va \in VAs
  BY AddressFacts
<1>3. CASE PageFault(e, va)
  BY <1>1, <1>2, <1>3, PageFaultKeeps
<1>4. CASE ~PageFault(e, va)
  <2>1. /\ m' = [m EXCEPT !.data[PageAt(m, e, va)] = v]
        /\ touched' = touched \cup {t \in (Envs \ {e}) \X Data :
                                     Copied(t[1], t[2]) /\ PageAt(m, t[1], t[2]) = PageAt(m, e, va)}
        /\ UNCHANGED <<env_ipc_recving, env_ipc_dstva, envvars, progvars, faults>>
    BY <1>4 DEF Write
  <2>2. MemInv(m', NoPage, NoPage) /\ OnlySlotsOf(m, m', e)
    BY <1>1, <2>1, StoreInv, SameSlots
  <2>3. Types'
    BY <1>1, <2>1 DEF Types, envvars, progvars
  <2> QED
    BY <1>1, <2>1, <2>2, <2>3, QuietStep DEF envvars, progvars, ForkOwnsChild
<1> QED
  BY <1>3, <1>4

LEMMA ReadKeeps ==
    ASSUME IInv, NEW e \in Envs, NEW va \in Data, ReadUnmapped(e, va)
    PROVE  IInv'
BY RunningFacts, PageFaultKeeps, AddressFacts DEF ReadUnmapped, At, CanCall, AtStack

LEMMA CputsKeeps ==
    ASSUME IInv, NEW e \in Envs, NEW va \in Data, Cputs(e, va)
    PROVE  IInv'
BY RunningFacts, DestroyedKeeps DEF Cputs, At, CanCall, AtStack

LEMMA SysPageUnmapKeeps ==
    ASSUME IInv, NEW e \in Envs, NEW va \in Data, SysPageUnmap(e, va)
    PROVE  IInv'
<1>1. /\ MemInv(m, NoPage, NoPage) /\ Types /\ ForkOwnsChild /\ env_status[e] = "RUNNABLE"
  BY RunningFacts DEF SysPageUnmap, At, CanCall, AtStack
<1>2. m' = page_remove(m, e, va) /\ UNCHANGED <<envvars, ipcvars, progvars, faults>>
  BY DEF SysPageUnmap
<1>3. MemInv(m', NoPage, NoPage) /\ OnlySlotsOf(m, m', e)
  BY <1>1, <1>2, RemoveInv, AddressFacts
<1>4. Types'
  BY <1>1, <1>2 DEF Types, envvars, ipcvars, progvars
<1> QED
  BY <1>1, <1>2, <1>3, <1>4, QuietStep DEF envvars, ipcvars, progvars, ForkOwnsChild

\* The child of a fork is destroyed by nobody: its parent is still in fork.
LEMMA SysEnvDestroyKeeps ==
    ASSUME IInv, NEW e \in Envs, NEW x \in Envs, SysEnvDestroy(e, x)
    PROVE  IInv'
<1>1. /\ ForkOwnsChild /\ Destroyed(x) /\ pc[e] = "user" /\ (x = e \/ env_parent_id[x] = e)
      /\ \A f \in Envs : child[f] # e
  BY RunningFacts DEF SysEnvDestroy, At, CanCall, AtStack
<1>2. ASSUME NEW f \in Envs, child[f] = x
      PROVE  FALSE
  BY <1>1, <1>2 DEF ForkOwnsChild, Loops
<1> QED
  BY <1>1, <1>2, DestroyedKeeps

LEMMA IpcRecvKeeps ==
    ASSUME IInv, NEW e \in Envs, NEW dstva \in Data \cup {0}, IpcRecv(e, dstva)
    PROVE  IInv'
<1>1. /\ MemInv(m, NoPage, NoPage) /\ Types /\ FreeIsEmpty /\ WaitingSleeps /\ ForkOwnsChild
      /\ env_status[e] = "RUNNABLE" /\ \A f \in Envs : child[f] # e
  BY Parts, RunningFacts DEF IpcRecv, At, CanCall, AtStack
<1>2. /\ env_ipc_recving' = [env_ipc_recving EXCEPT ![e] = TRUE]
      /\ env_ipc_dstva' = [env_ipc_dstva EXCEPT ![e] = dstva]
      /\ env_status' = [env_status EXCEPT ![e] = "NOT_RUNNABLE"]
      /\ UNCHANGED <<m, env_parent_id, env_pgfault_upcall, pgfault_handler, kernel, touched, progvars, faults>>
  BY DEF IpcRecv
<1>3. dstva \in VAs
  BY AddressFacts DEF UTEMP
<1>4. Types'
  BY <1>1, <1>2, <1>3 DEF Types, progvars
<1>5. FreeIsEmpty'
  BY <1>1, <1>2 DEF FreeIsEmpty, Types, progvars
<1>6. WaitingSleeps'
  BY <1>1, <1>2 DEF WaitingSleeps, Types
<1>7. ForkOwnsChild'
  BY <1>1, <1>2 DEF ForkOwnsChild, Types, progvars
<1> QED
  BY <1>1, <1>2, <1>4, <1>5, <1>6, <1>7 DEF IInv

\* The receiver that a message wakes is no unfinished fork's child.  The
\* memory of the receiver may have changed, and the sender is still a program.
LEMMA DeliveredKeeps ==
    ASSUME IInv, NEW f \in Envs, env_ipc_recving[f], Delivered(f),
           MemInv(m', NoPage, NoPage), OnlySlotsOf(m, m', f),
           UNCHANGED progvars
    PROVE  IInv'
<1>1. /\ MemInv(m, NoPage, NoPage) /\ Types /\ FreeIsEmpty /\ WaitingSleeps /\ ForkOwnsChild
      /\ \A e \in Envs : child[e] # f
  BY Parts
<1>2. /\ env_ipc_recving' = [env_ipc_recving EXCEPT ![f] = FALSE]
      /\ env_ipc_dstva' = [env_ipc_dstva EXCEPT ![f] = 0]
      /\ env_status' = [env_status EXCEPT ![f] = "RUNNABLE"]
      /\ UNCHANGED <<env_parent_id, env_pgfault_upcall, pgfault_handler, kernel, touched, faults>>
  BY DEF Delivered
<1>3. 0 \in VAs
  BY AddressFacts DEF UTEMP
<1>4. Types'
  BY <1>1, <1>2, <1>3 DEF Types, progvars
<1>5. FreeIsEmpty'
  BY <1>1, <1>2 DEF FreeIsEmpty, OnlySlotsOf, Types, progvars
<1>6. WaitingSleeps'
  BY <1>1, <1>2 DEF WaitingSleeps, Types
<1>7. ForkOwnsChild'
  BY <1>1, <1>2 DEF ForkOwnsChild, Types, progvars
<1> QED
  BY <1>4, <1>5, <1>6, <1>7 DEF IInv

LEMMA SendValueKeeps ==
    ASSUME IInv, NEW e \in Envs, NEW f \in Envs, SendValue(e, f)
    PROVE  IInv'
<1>1. env_ipc_recving[f] /\ Delivered(f) /\ m' = m /\ UNCHANGED progvars
  BY DEF SendValue, Receiving
<1>2. MemInv(m', NoPage, NoPage) /\ OnlySlotsOf(m, m', f)
  BY <1>1, Parts, SameSlots
<1> QED
  BY <1>1, <1>2, DeliveredKeeps

\* A step of e's that only moves e to another place, not in fork.
LEMMA GotoKeeps ==
    ASSUME IInv, NEW e \in Envs, Running(e), pc[e] \notin Loops,
           NEW label \in ForkPcs \cup {"user", "panic"}, label \notin Loops,
           pc' = [pc EXCEPT ![e] = label], UNCHANGED <<child, pnum, env_status, env_parent_id, env_ipc_recving>>,
           Types', MemInv(m', NoPage, NoPage),
           NEW x \in Envs, env_status[x] # "FREE", OnlySlotsOf(m, m', x)
    PROVE  IInv'
<1>1. pc \in [Envs -> ForkPcs \cup {"user", "panic"}] /\ child[e] \notin Envs
  BY RunningFacts DEF Types
<1>2. pc'[e] = label /\ label \notin OnPage /\ \A f \in Envs : f # e => pc'[f] = pc[f]
  BY <1>1 DEF OnPage, Loops
<1> QED
  BY <1>1, <1>2, QuietStep

LEMMA SendPageKeeps ==
    ASSUME IInv, NEW e \in Envs, NEW f \in Envs, NEW srcva \in Data, NEW perm \in {{}, {"W"}},
           SendPage(e, f, srcva, perm)
    PROVE  IInv'
<1>1. /\ MemInv(m, NoPage, NoPage) /\ Types /\ env_status[e] = "RUNNABLE"
      /\ Running(e) /\ pc[e] = "user" /\ pc[e] \notin Loops
      /\ env_status[f] # "FREE" /\ env_ipc_recving[f]
  BY RunningFacts DEF SendPage, Receiving, At, CanCall, AtStack, Loops
<1> DEFINE dst == env_ipc_dstva[f]
           a == env_page_alloc(m, f, dst, perm)
           t == env_page_map(a.m, e, srcva, f, dst, perm)
           r == TransferPage(e, srcva, f, perm)
<1>2. Settled(m, r, f)
  <2>1. dst \in VAs /\ perm \in SUBSET Bits /\ srcva \in VAs
    BY <1>1, AddressFacts DEF Types, Bits
  <2>2. Settled(m, a, f)
    BY <1>1, <2>1, PageAllocInv
  <2>3. Settled(a.m, t, f)
    BY <2>1, <2>2, PageMapInv DEF Settled
  <2>4. r = IF a.err THEN a ELSE t
    BY DEF TransferPage
  <2> QED
    BY <2>2, <2>3, <2>4 DEF Settled, OnlySlotsOf
<1> HIDE DEF dst, a, t, r
<1>3. CASE Goto(e, "panic") /\ UNCHANGED <<m, envvars, ipcvars, faults>>
  <2>1. MemInv(m', NoPage, NoPage) /\ OnlySlotsOf(m, m', f)
    BY <1>1, <1>3, SameSlots
  <2>2. Types'
    BY <1>1, <1>3 DEF Types, Goto, envvars, ipcvars
  <2> QED
    BY <1>1, <1>3, <2>1, <2>2, GotoKeeps DEF Goto, envvars, ipcvars, Loops
<1>4. CASE Delivered(f) /\ UNCHANGED <<m, progvars>>
  <2>1. MemInv(m', NoPage, NoPage) /\ OnlySlotsOf(m, m', f)
    BY <1>1, <1>4, SameSlots
  <2> QED
    BY <1>1, <1>4, <2>1, DeliveredKeeps
<1>5. CASE Result(e, r, "user") /\ r.err /\ UNCHANGED <<child, pnum, forks, envvars, ipcvars, faults>>
  <2>1. m' = r.m /\ pc' = [pc EXCEPT ![e] = "panic"]
    BY <1>5 DEF Result
  <2>2. MemInv(m', NoPage, NoPage) /\ OnlySlotsOf(m, m', f)
    BY <1>2, <2>1 DEF Settled
  <2>3. Types'
    BY <1>1, <1>5, <2>1 DEF Types, envvars, ipcvars
  <2> QED
    BY <1>1, <1>5, <2>1, <2>2, <2>3, GotoKeeps DEF envvars, ipcvars, Loops
<1>6. CASE Result(e, r, "user") /\ ~r.err /\ Delivered(f) /\ UNCHANGED <<child, pnum, forks>>
  <2>1. m' = r.m /\ pc' = pc
    BY <1>1, <1>6 DEF Result, Types
  <2>2. MemInv(m', NoPage, NoPage) /\ OnlySlotsOf(m, m', f)
    BY <1>2, <2>1 DEF Settled
  <2> QED
    BY <1>1, <1>6, <2>1, <2>2, DeliveredKeeps DEF progvars
<1>7. CASE kernel' = "panic" /\ UNCHANGED <<m, env_status, env_parent_id, env_pgfault_upcall,
                                            pgfault_handler, ipcvars, progvars, faults>>
  <2>1. Types'
    BY <1>1, <1>7 DEF Types, ipcvars, progvars
  <2> QED
    BY <1>7, <2>1, Parts DEF IInv, FreeIsEmpty, WaitingSleeps, ForkOwnsChild, ipcvars, progvars
<1>8. ASSUME NEW test \in SrcTests(e, srcva, perm), test # "fault", test # "refuse",
             env_ipc_dstva[f] # 0, Result(e, r, "user"), UNCHANGED <<child, pnum, forks>>,
             IF r.err THEN UNCHANGED <<envvars, ipcvars, faults>> ELSE Delivered(f)
      PROVE  IInv'
  BY <1>5, <1>6, <1>8
<1> QED
  BY <1>3, <1>4, <1>7, <1>8 DEF SendPage, r

LEMMA ForkBeginKeeps ==
    ASSUME IInv, NEW e \in Envs, ForkBegin(e) \/ ForkV0Begin(e)
    PROVE  IInv'
<1>1. /\ MemInv(m, NoPage, NoPage) /\ Types /\ env_status[e] # "FREE"
      /\ Running(e) /\ pc[e] = "user" /\ pc[e] \notin Loops
  BY RunningFacts DEF ForkBegin, ForkV0Begin, At, CanCall, AtStack, Loops
<1>2. /\ forks < MaxForks /\ forks' = forks + 1
      /\ \E label \in {"exofork", "set_handler", "v0_exofork"} : pc' = [pc EXCEPT ![e] = label]
      /\ UNCHANGED <<m, child, pnum, envvars, ipcvars, faults>>
  BY DEF ForkBegin, ForkV0Begin
<1>3. PICK label \in {"exofork", "set_handler", "v0_exofork"} : pc' = [pc EXCEPT ![e] = label]
  BY <1>2
<1>4. label \in ForkPcs /\ label \notin Loops
  BY DEF ForkPcs, Loops
<1>5. MemInv(m', NoPage, NoPage) /\ OnlySlotsOf(m, m', e)
  BY <1>1, <1>2, SameSlots
<1>6. Types'
  <2>1. forks' \in 0..MaxForks
    BY <1>1, <1>2, MaxForksAssumption DEF Types
  <2> QED
    BY <1>1, <1>2, <1>3, <1>4, <2>1 DEF Types, envvars, ipcvars
<1> QED
  BY <1>1, <1>2, <1>3, <1>4, <1>5, <1>6, GotoKeeps DEF envvars, ipcvars

LEMMA SetHandlerKeeps ==
    ASSUME IInv, NEW e \in Envs, SetHandler(e)
    PROVE  IInv'
<1>1. /\ MemInv(m, NoPage, NoPage) /\ Types /\ env_status[e] # "FREE"
      /\ Running(e) /\ pc[e] = "set_handler" /\ pc[e] \notin Loops
  BY RunningFacts DEF SetHandler, At, CanCall, AtStack, Loops
<1> DEFINE r == env_page_alloc(m, e, UXSTACK, {"W"})
           label == IF r.err THEN "exofork" ELSE "set_upcall"
<1>2. /\ m' = r.m /\ pc' = [pc EXCEPT ![e] = label]
      /\ UNCHANGED <<child, pnum, forks, envvars, ipcvars, faults>>
  BY DEF SetHandler, Goto, Same
<1>3. Settled(m, r, e)
  BY <1>1, PageAllocInv, AddressFacts DEF Bits
<1>4. label \in ForkPcs /\ label \notin Loops
  BY DEF ForkPcs, Loops
<1> HIDE DEF r, label
<1>5. Types'
  BY <1>1, <1>2, <1>4 DEF Types, envvars, ipcvars
<1> QED
  BY <1>1, <1>2, <1>3, <1>4, <1>5, GotoKeeps DEF envvars, ipcvars, Settled

LEMMA SetUpcallKeeps ==
    ASSUME IInv, NEW e \in Envs, SetUpcall(e)
    PROVE  IInv'
<1>1. /\ MemInv(m, NoPage, NoPage) /\ Types /\ env_status[e] # "FREE"
      /\ Running(e) /\ pc[e] = "set_upcall" /\ pc[e] \notin Loops
  BY RunningFacts DEF SetUpcall, At, CanCall, AtStack, Loops
<1>2. /\ env_pgfault_upcall' = [env_pgfault_upcall EXCEPT ![e] = TRUE]
      /\ pgfault_handler' = [pgfault_handler EXCEPT ![e] = TRUE]
      /\ pc' = [pc EXCEPT ![e] = "exofork"]
      /\ UNCHANGED <<m, env_status, env_parent_id, kernel, ipcvars, faults, child, pnum, forks>>
  BY DEF SetUpcall, Goto
<1>3. "exofork" \in ForkPcs /\ "exofork" \notin Loops
  BY DEF ForkPcs, Loops
<1>4. Types'
  BY <1>1, <1>2, <1>3 DEF Types, ipcvars
<1>5. MemInv(m', NoPage, NoPage) /\ OnlySlotsOf(m, m', e)
  BY <1>1, <1>2, SameSlots
<1> QED
  BY <1>1, <1>2, <1>3, <1>4, <1>5, GotoKeeps DEF ipcvars

\* The child is taken from the free slots; until it is started only its
\* parent knows it.
LEMMA SysExoforkKeeps ==
    ASSUME IInv, NEW e \in Envs,
           NEW label \in {"exofork", "v0_exofork"}, NEW loop \in {"dup", "v0"}, SysExofork(e, label, loop)
    PROVE  IInv'
<1>1. /\ MemInv(m, NoPage, NoPage) /\ Types /\ FreeIsEmpty /\ WaitingSleeps /\ ForkOwnsChild
      /\ env_status[e] = "RUNNABLE" /\ \A f \in Envs : child[f] # e
      /\ Running(e) /\ pc[e] \notin Loops
  BY Parts, RunningFacts DEF SysExofork, At, CanCall, AtStack, Loops
<1>2. CASE Goto(e, "panic") /\ UNCHANGED <<m, envvars, ipcvars, faults>>
  <2>1. MemInv(m', NoPage, NoPage) /\ OnlySlotsOf(m, m', e)
    BY <1>1, <1>2, SameSlots
  <2>2. Types'
    BY <1>1, <1>2 DEF Types, Goto, envvars, ipcvars
  <2> QED
    BY <1>1, <1>2, <2>1, <2>2, GotoKeeps DEF Goto, envvars, ipcvars, Loops
<1>3. ASSUME NEW c \in Envs, env_status[c] = "FREE", NewChild(e, c, loop)
      PROVE  IInv'
  <2>1. e # c /\ c \in Envs /\ child[c] = NoEnv /\ m.slot[Pgdir(c)] = NoPage
    BY <1>1, <1>3, SlotFacts DEF FreeIsEmpty
  <2>2. /\ m' = env_setup_vm(m, c).m
        /\ env_status' = [env_status EXCEPT ![c] = "NOT_RUNNABLE"]
        /\ env_parent_id' = [env_parent_id EXCEPT ![c] = e]
        /\ env_pgfault_upcall' = [env_pgfault_upcall EXCEPT ![c] = FALSE]
        /\ env_ipc_recving' = [env_ipc_recving EXCEPT ![c] = FALSE]
        /\ pgfault_handler' = [pgfault_handler EXCEPT ![c] = pgfault_handler[e]]
        /\ pc' = [pc EXCEPT ![e] = loop, ![c] = "user"]
        /\ child' = [child EXCEPT ![e] = c]
        /\ pnum' = [pnum EXCEPT ![e] = 0]
        /\ UNCHANGED <<kernel, forks, env_ipc_dstva, touched, faults>>
    BY <1>3 DEF NewChild
  <2>3. Settled(m, env_setup_vm(m, c), c)
    BY <1>1, <2>1, SetupInv
  <2>4. MemInv(m', NoPage, NoPage) /\ OnlySlotsOf(m, m', c)
    BY <2>2, <2>3 DEF Settled
  <2>5. Types'
    <3>1. 0 \in VAs /\ loop \in ForkPcs
      BY AddressFacts DEF UTEMP, ForkPcs
    <3> QED
      BY <1>1, <2>2, <3>1 DEF Types
  <2>6. FreeIsEmpty'
    BY <1>1, <2>1, <2>2, <2>4 DEF FreeIsEmpty, OnlySlotsOf, Types
  <2>7. WaitingSleeps'
    BY <1>1, <2>2 DEF WaitingSleeps, Types
  <2>8. ForkOwnsChild'
    <3> SUFFICES ASSUME NEW f \in Envs
                 PROVE  /\ pc'[f] \in Loops => child'[f] \in Envs
                        /\ pc'[f] \in OnPage => pnum'[f] \in VAs
                        /\ child'[f] \in Envs =>
                              /\ pc'[f] \in Loops \cup {"panic"}
                              /\ env_status'[child'[f]] = "NOT_RUNNABLE"
                              /\ ~env_ipc_recving'[child'[f]]
                              /\ env_parent_id'[child'[f]] = f
      BY DEF ForkOwnsChild
    <3>1. CASE f = e
      <4>1. child'[e] = c /\ pc'[e] = loop /\ loop \in Loops /\ loop \notin OnPage
        BY <1>1, <2>1, <2>2 DEF Types, Loops, OnPage
      <4>2. env_status'[c] = "NOT_RUNNABLE" /\ ~env_ipc_recving'[c] /\ env_parent_id'[c] = e
        BY <1>1, <2>2 DEF Types
      <4> QED
        BY <2>1, <3>1, <4>1, <4>2
    <3>2. CASE f = c
      <4>1. child'[c] = NoEnv /\ pc'[c] = "user"
        BY <1>1, <2>1, <2>2 DEF Types
      <4> QED
        BY <3>2, <4>1, NoEnvAssumption DEF Loops, OnPage
    <3>3. CASE f # e /\ f # c
      <4>1. child'[f] = child[f] /\ pc'[f] = pc[f] /\ pnum'[f] = pnum[f]
        BY <1>1, <2>2, <3>3 DEF Types
      <4>2. ASSUME child[f] \in Envs
            PROVE  /\ env_status'[child[f]] = "NOT_RUNNABLE"
                   /\ ~env_ipc_recving'[child[f]]
                   /\ env_parent_id'[child[f]] = f
        <5>1. /\ env_status[child[f]] = "NOT_RUNNABLE" /\ ~env_ipc_recving[child[f]]
              /\ env_parent_id[child[f]] = f /\ child[f] # c
          BY <1>1, <1>3, <4>2 DEF ForkOwnsChild
        <5> QED
          BY <1>1, <2>2, <4>2, <5>1 DEF Types
      <4> QED
        BY <1>1, <4>1, <4>2 DEF ForkOwnsChild
    <3> QED
      BY <3>1, <3>2, <3>3
  <2> QED
    BY <2>4, <2>5, <2>6, <2>7, <2>8 DEF IInv
<1> QED
  BY <1>2, <1>3 DEF SysExofork

\* A step of fork while it has its child: e stays in the loops or panics.
LEMMA LoopKeeps ==
    ASSUME IInv, NEW e \in Envs, Running(e), pc[e] \in Loops,
           NEW label \in Loops \cup {"panic"}, pc' = [pc EXCEPT ![e] = label],
           NEW n \in VAs \cup {UXSTACK + 1}, pnum' = [pnum EXCEPT ![e] = n],
           label \in OnPage => n \in VAs,
           UNCHANGED <<child, forks, env_status, env_parent_id, pgfault_handler, kernel, ipcvars, faults>>,
           env_pgfault_upcall' \in [Envs -> BOOLEAN],
           NEW x \in {e, child[e]}, MemInv(m', NoPage, NoPage), OnlySlotsOf(m, m', x)
    PROVE  IInv'
<1>1. /\ Types /\ ForkOwnsChild /\ env_status[e] # "FREE"
  BY RunningFacts
<1>2. child[e] \in Envs /\ env_status[child[e]] # "FREE" /\ label \in ForkPcs \cup {"panic"}
  BY <1>1 DEF ForkOwnsChild, Loops, ForkPcs
<1>3. Types'
  BY <1>1, <1>2 DEF Types, ipcvars
<1>4. /\ pc'[e] = label /\ pnum'[e] = n
      /\ \A f \in Envs : f # e => pc'[f] = pc[f] /\ pnum'[f] = pnum[f]
  BY <1>1 DEF Types
<1> QED
  BY <1>1, <1>2, <1>3, <1>4, QuietStep DEF ipcvars

\* What a step of fork starts from.
LEMMA LoopFacts ==
    ASSUME IInv, NEW e \in Envs, NEW label \in Loops, At(e, label)
    PROVE  /\ MemInv(m, NoPage, NoPage) /\ Types
           /\ Running(e) /\ pc[e] = label /\ pc[e] \in Loops
           /\ child[e] \in Envs /\ env_status[child[e]] = "NOT_RUNNABLE"
           /\ pnum[e] \in VAs \cup {UXSTACK + 1}
           /\ label \in OnPage => pnum[e] \in VAs
<1>1. /\ MemInv(m, NoPage, NoPage) /\ Types /\ ForkOwnsChild /\ Running(e) /\ pc[e] = label
  BY RunningFacts DEF At, CanCall, AtStack
<1> QED
  BY <1>1 DEF ForkOwnsChild, Types

\* The addresses a loop goes through.
LEMMA NextAddress == \A va \in VAs : va + 1 \in VAs \cup {UXSTACK + 1}
BY NDataAssumption DEF VAs, UXSTACK

LEMMA ForkLabels ==
    /\ {"dup", "child_stack", "child_upcall", "v0", "set_status"} \subseteq Loops \ OnPage
    /\ OnPage \subseteq Loops
    /\ OnPage = {"dup_self", "v0_map", "v0_copy", "v0_unmap"}
BY DEF Loops, OnPage

LEMMA DupKeeps ==
    ASSUME IInv, NEW e \in Envs, Dup(e)
    PROVE  IInv'
<1> DEFINE left == Left(e, {UXSTACK})
           va == First(left)
           private == m.perm[e][va] # {}
           r == env_page_map(m, e, va, child[e], va, IF private THEN {"COW"} ELSE {})
<1>1. /\ MemInv(m, NoPage, NoPage) /\ Types /\ Running(e) /\ pc[e] = "dup" /\ pc[e] \in Loops
      /\ child[e] \in Envs /\ pnum[e] \in VAs \cup {UXSTACK + 1}
  BY LoopFacts, ForkLabels DEF Dup
<1>2. UNCHANGED <<child, forks, envvars, ipcvars, faults>>
  BY DEF Dup, Same, Goto
<1>3. CASE left = {}
  <2>1. m' = m /\ pc' = [pc EXCEPT ![e] = "child_stack"] /\ pnum' = pnum
    BY <1>3 DEF Dup, Goto
  <2>2. MemInv(m', NoPage, NoPage) /\ OnlySlotsOf(m, m', e)
    BY <1>1, <2>1, SameSlots
  <2>3. pnum' = [pnum EXCEPT ![e] = pnum[e]]
    BY <1>1, <2>1 DEF Types
  <2>4. env_pgfault_upcall' \in [Envs -> BOOLEAN]
    BY <1>1, <1>2 DEF Types, envvars
  <2> QED
    BY <1>1, <1>2, <2>1, <2>2, <2>3, <2>4, LoopKeeps, ForkLabels DEF envvars
<1>4. CASE left # {}
  <2> DEFINE label == IF r.err THEN "panic" ELSE IF private THEN "dup_self" ELSE "dup"
             n == IF private THEN va ELSE va + 1
  <2>1. m' = r.m /\ pc' = [pc EXCEPT ![e] = label] /\ pnum' = [pnum EXCEPT ![e] = n]
    BY <1>4 DEF Dup, Result
  <2>2. va \in VAs
    BY <1>4, FirstIn DEF Left
  <2>3. Settled(m, r, child[e])
    BY <1>1, <2>2, PageMapInv DEF Bits
  <2>4. /\ n \in VAs \cup {UXSTACK + 1} /\ label \in Loops \cup {"panic"}
        /\ label \in OnPage => n \in VAs
    BY <2>2, NextAddress, ForkLabels
  <2>5. env_pgfault_upcall' \in [Envs -> BOOLEAN]
    BY <1>1, <1>2 DEF Types, envvars
  <2> HIDE DEF r, n, label
  <2> QED
    BY <1>1, <1>2, <2>1, <2>3, <2>4, <2>5, LoopKeeps DEF envvars, Settled
<1> QED
  BY <1>3, <1>4

LEMMA DupSelfKeeps ==
    ASSUME IInv, NEW e \in Envs, DupSelf(e)
    PROVE  IInv'
<1> DEFINE r == env_page_map(m, e, pnum[e], e, pnum[e], {"COW"})
           label == IF r.err THEN "panic" ELSE "dup"
           n == pnum[e] + 1
<1>1. /\ MemInv(m, NoPage, NoPage) /\ Types /\ Running(e) /\ pc[e] \in Loops /\ pnum[e] \in VAs
  BY LoopFacts, ForkLabels DEF DupSelf
<1>2. /\ m' = r.m /\ pc' = [pc EXCEPT ![e] = label] /\ pnum' = [pnum EXCEPT ![e] = n]
      /\ UNCHANGED <<child, forks, envvars, ipcvars, faults>>
  BY DEF DupSelf, Same, Result
<1>3. Settled(m, r, e)
  BY <1>1, PageMapInv DEF Bits
<1>4. n \in VAs \cup {UXSTACK + 1} /\ label \in Loops \cup {"panic"} /\ label \notin OnPage
  BY <1>1, NextAddress, ForkLabels
<1>5. env_pgfault_upcall' \in [Envs -> BOOLEAN]
  BY <1>1, <1>2 DEF Types, envvars
<1> HIDE DEF r, n, label
<1> QED
  BY <1>1, <1>2, <1>3, <1>4, <1>5, LoopKeeps DEF envvars, Settled

LEMMA ChildStackKeeps ==
    ASSUME IInv, NEW e \in Envs, ChildStack(e)
    PROVE  IInv'
<1> DEFINE r == env_page_alloc(m, child[e], UXSTACK, {"W"})
           label == IF r.err THEN "panic" ELSE "child_upcall"
<1>1. /\ MemInv(m, NoPage, NoPage) /\ Types /\ Running(e) /\ pc[e] \in Loops
      /\ child[e] \in Envs /\ pnum[e] \in VAs \cup {UXSTACK + 1}
  BY LoopFacts, ForkLabels DEF ChildStack
<1>2. /\ m' = r.m /\ pc' = [pc EXCEPT ![e] = label] /\ pnum' = [pnum EXCEPT ![e] = pnum[e]]
      /\ UNCHANGED <<child, forks, envvars, ipcvars, faults>>
  BY <1>1 DEF ChildStack, Same, Result, Types
<1>3. Settled(m, r, child[e])
  BY <1>1, PageAllocInv, AddressFacts DEF Bits
<1>4. label \in Loops \cup {"panic"} /\ label \notin OnPage
  BY ForkLabels
<1>5. env_pgfault_upcall' \in [Envs -> BOOLEAN]
  BY <1>1, <1>2 DEF Types, envvars
<1> HIDE DEF r, label
<1> QED
  BY <1>1, <1>2, <1>3, <1>4, <1>5, LoopKeeps DEF envvars, Settled

LEMMA ChildUpcallKeeps ==
    ASSUME IInv, NEW e \in Envs, ChildUpcall(e)
    PROVE  IInv'
<1>1. /\ MemInv(m, NoPage, NoPage) /\ Types /\ Running(e) /\ pc[e] \in Loops
      /\ child[e] \in Envs /\ pnum[e] \in VAs \cup {UXSTACK + 1}
  BY LoopFacts, ForkLabels DEF ChildUpcall
<1>2. /\ m' = m /\ pc' = [pc EXCEPT ![e] = "set_status"] /\ pnum' = [pnum EXCEPT ![e] = pnum[e]]
      /\ env_pgfault_upcall' = [env_pgfault_upcall EXCEPT ![child[e]] = env_pgfault_upcall[e]]
      /\ UNCHANGED <<child, forks, env_status, env_parent_id, pgfault_handler, kernel, ipcvars, faults>>
  BY <1>1 DEF ChildUpcall, Goto, Types
<1>3. MemInv(m', NoPage, NoPage) /\ OnlySlotsOf(m, m', e)
  BY <1>1, <1>2, SameSlots
<1>4. env_pgfault_upcall' \in [Envs -> BOOLEAN]
  BY <1>1, <1>2 DEF Types
<1> QED
  BY <1>1, <1>2, <1>3, <1>4, LoopKeeps, ForkLabels

\* The child is let go when nothing of the fork is left to do.
LEMMA SetStatusKeeps ==
    ASSUME IInv, NEW e \in Envs, SetStatus(e)
    PROVE  IInv'
<1>1. /\ MemInv(m, NoPage, NoPage) /\ Types /\ FreeIsEmpty /\ WaitingSleeps /\ ForkOwnsChild
      /\ child[e] \in Envs /\ env_status[child[e]] = "NOT_RUNNABLE" /\ ~env_ipc_recving[child[e]]
      /\ env_parent_id[child[e]] = e
  BY Parts, LoopFacts, ForkLabels DEF SetStatus, ForkOwnsChild
<1> DEFINE c == child[e]
<1>2. /\ env_status' = [env_status EXCEPT ![c] = "RUNNABLE"]
      /\ pc' = [pc EXCEPT ![e] = "user"]
      /\ child' = [child EXCEPT ![e] = NoEnv]
      /\ pnum' = [pnum EXCEPT ![e] = 0]
      /\ touched' = {t \in touched : t[1] # e}
      /\ UNCHANGED <<m, env_parent_id, env_pgfault_upcall, pgfault_handler, kernel, env_ipc_recving,
                     env_ipc_dstva, forks, faults>>
  BY DEF SetStatus
<1>3. Types'
  <2>1. 0 \in VAs
    BY AddressFacts DEF UTEMP
  <2> QED
    BY <1>1, <1>2, <2>1 DEF Types
<1>4. FreeIsEmpty'
  BY <1>1, <1>2 DEF FreeIsEmpty, Types
<1>5. WaitingSleeps'
  BY <1>1, <1>2 DEF WaitingSleeps, Types
<1>6. ForkOwnsChild'
  <2> SUFFICES ASSUME NEW f \in Envs
               PROVE  /\ pc'[f] \in Loops => child'[f] \in Envs
                      /\ pc'[f] \in OnPage => pnum'[f] \in VAs
                      /\ child'[f] \in Envs =>
                            /\ pc'[f] \in Loops \cup {"panic"}
                            /\ env_status'[child'[f]] = "NOT_RUNNABLE"
                            /\ ~env_ipc_recving'[child'[f]]
                            /\ env_parent_id'[child'[f]] = f
    BY DEF ForkOwnsChild
  <2>1. CASE f = e
    BY <1>1, <1>2, <2>1, NoEnvAssumption DEF Types, Loops, OnPage
  <2>2. CASE f # e
    <3>1. child'[f] = child[f] /\ pc'[f] = pc[f] /\ pnum'[f] = pnum[f]
      BY <1>1, <1>2, <2>2 DEF Types
    <3>2. ASSUME child[f] \in Envs
          PROVE  /\ env_status'[child[f]] = "NOT_RUNNABLE"
                 /\ ~env_ipc_recving'[child[f]]
                 /\ env_parent_id'[child[f]] = f
      <4>1. /\ env_status[child[f]] = "NOT_RUNNABLE" /\ ~env_ipc_recving[child[f]]
            /\ env_parent_id[child[f]] = f /\ child[f] # c
        BY <1>1, <2>2, <3>2 DEF ForkOwnsChild
      <4> QED
        BY <1>1, <1>2, <3>2, <4>1 DEF Types
    <3> QED
      BY <1>1, <3>1, <3>2 DEF ForkOwnsChild
  <2> QED
    BY <2>1, <2>2
<1>7. MemInv(m', NoPage, NoPage)
  BY <1>1, <1>2
<1> QED
  BY <1>3, <1>4, <1>5, <1>6, <1>7 DEF IInv

LEMMA V0PageKeeps ==
    ASSUME IInv, NEW e \in Envs, V0Page(e)
    PROVE  IInv'
<1> DEFINE left == Left(e, {})
           va == First(left)
           writable == "W" \in m.perm[e][va]
           a == env_page_alloc(m, child[e], va, {"W"})
           t == env_page_map(m, e, va, child[e], va, {})
           r == IF writable THEN a ELSE t
<1>1. /\ MemInv(m, NoPage, NoPage) /\ Types /\ Running(e) /\ pc[e] \in Loops
      /\ child[e] \in Envs /\ pnum[e] \in VAs \cup {UXSTACK + 1}
  BY LoopFacts, ForkLabels DEF V0Page
<1>2. UNCHANGED <<child, forks, envvars, ipcvars, faults>>
  BY DEF V0Page, Same, Goto
<1>3. env_pgfault_upcall' \in [Envs -> BOOLEAN]
  BY <1>1, <1>2 DEF Types, envvars
<1>4. CASE left = {}
  <2>1. m' = m /\ pc' = [pc EXCEPT ![e] = "set_status"] /\ pnum' = pnum
    BY <1>4 DEF V0Page, Goto
  <2>2. MemInv(m', NoPage, NoPage) /\ OnlySlotsOf(m, m', e)
    BY <1>1, <2>1, SameSlots
  <2>3. pnum' = [pnum EXCEPT ![e] = pnum[e]]
    BY <1>1, <2>1 DEF Types
  <2> QED
    BY <1>1, <1>2, <1>3, <2>1, <2>2, <2>3, LoopKeeps, ForkLabels DEF envvars
<1>5. CASE left # {}
  <2> DEFINE label == IF r.err THEN "panic" ELSE IF writable THEN "v0_map" ELSE "v0"
             n == IF writable THEN va ELSE va + 1
  <2>1. m' = r.m /\ pc' = [pc EXCEPT ![e] = label] /\ pnum' = [pnum EXCEPT ![e] = n]
    BY <1>5 DEF V0Page, Result
  <2>2. va \in VAs
    BY <1>5, FirstIn DEF Left
  <2>3. Settled(m, a, child[e])
    BY <1>1, <2>2, PageAllocInv DEF Bits
  <2>4. Settled(m, t, child[e])
    BY <1>1, <2>2, PageMapInv DEF Bits
  <2>5. Settled(m, r, child[e])
    BY <2>3, <2>4
  <2>6. /\ n \in VAs \cup {UXSTACK + 1} /\ label \in Loops \cup {"panic"}
        /\ label \in OnPage => n \in VAs
    BY <2>2, NextAddress, ForkLabels
  <2> HIDE DEF r, n, label
  <2> QED
    BY <1>1, <1>2, <1>3, <2>1, <2>5, <2>6, LoopKeeps DEF envvars, Settled
<1> QED
  BY <1>4, <1>5

LEMMA V0MapKeeps ==
    ASSUME IInv, NEW e \in Envs, V0Map(e)
    PROVE  IInv'
<1> DEFINE r == env_page_map(m, child[e], pnum[e], e, UTEMP, {"W"})
           label == IF r.err THEN "panic" ELSE "v0_copy"
<1>1. /\ MemInv(m, NoPage, NoPage) /\ Types /\ Running(e) /\ pc[e] \in Loops
      /\ child[e] \in Envs /\ pnum[e] \in VAs
  BY LoopFacts, ForkLabels DEF V0Map
<1>2. /\ m' = r.m /\ pc' = [pc EXCEPT ![e] = label] /\ pnum' = [pnum EXCEPT ![e] = pnum[e]]
      /\ UNCHANGED <<child, forks, envvars, ipcvars, faults>>
  BY <1>1 DEF V0Map, Same, Result, Types
<1>3. Settled(m, r, e)
  BY <1>1, PageMapInv, AddressFacts DEF Bits
<1>4. label \in Loops \cup {"panic"}
  BY ForkLabels
<1>5. env_pgfault_upcall' \in [Envs -> BOOLEAN]
  BY <1>1, <1>2 DEF Types, envvars
<1> HIDE DEF r, label
<1> QED
  BY <1>1, <1>2, <1>3, <1>4, <1>5, LoopKeeps DEF envvars, Settled

LEMMA V0CopyKeeps ==
    ASSUME IInv, NEW e \in Envs, V0Copy(e)
    PROVE  IInv'
<1>1. /\ MemInv(m, NoPage, NoPage) /\ Types /\ Running(e) /\ pc[e] \in Loops
      /\ child[e] \in Envs /\ pnum[e] \in VAs /\ env_status[e] = "RUNNABLE"
  BY LoopFacts, ForkLabels DEF V0Copy, Running
<1>2. CASE Mapped(m, e, pnum[e])
  <2>1. /\ m' = CopyPage(m, e, pnum[e], UTEMP)
        /\ pc' = [pc EXCEPT ![e] = "v0_unmap"] /\ pnum' = [pnum EXCEPT ![e] = pnum[e]]
        /\ UNCHANGED <<child, forks, envvars, ipcvars, faults>>
    BY <1>1, <1>2 DEF V0Copy, Goto, Same, Types
  <2>2. MemInv(m', NoPage, NoPage) /\ m'.slot = m.slot
    BY <1>1, <1>2, <2>1, CopyInv, AddressFacts
  <2>3. OnlySlotsOf(m, m', e)
    BY <2>2, SameSlots
  <2>4. env_pgfault_upcall' \in [Envs -> BOOLEAN]
    BY <1>1, <2>1 DEF Types, envvars
  <2> QED
    BY <1>1, <2>1, <2>2, <2>3, <2>4, LoopKeeps, ForkLabels DEF envvars
<1>3. CASE ~Mapped(m, e, pnum[e])
  BY <1>1, <1>3, PageFaultKeeps DEF V0Copy
<1> QED
  BY <1>2, <1>3

LEMMA V0UnmapKeeps ==
    ASSUME IInv, NEW e \in Envs, V0Unmap(e)
    PROVE  IInv'
<1>1. /\ MemInv(m, NoPage, NoPage) /\ Types /\ Running(e) /\ pc[e] \in Loops /\ pnum[e] \in VAs
  BY LoopFacts, ForkLabels DEF V0Unmap
<1>2. /\ m' = page_remove(m, e, UTEMP)
      /\ pc' = [pc EXCEPT ![e] = "v0"] /\ pnum' = [pnum EXCEPT ![e] = pnum[e] + 1]
      /\ UNCHANGED <<child, forks, envvars, ipcvars, faults>>
  BY <1>1 DEF V0Unmap, Same, Types
<1>3. MemInv(m', NoPage, NoPage) /\ OnlySlotsOf(m, m', e)
  BY <1>1, <1>2, RemoveInv, AddressFacts
<1>4. pnum[e] + 1 \in VAs \cup {UXSTACK + 1}
  BY <1>1, NextAddress
<1>5. env_pgfault_upcall' \in [Envs -> BOOLEAN]
  BY <1>1, <1>2 DEF Types, envvars
<1> QED
  BY <1>1, <1>2, <1>3, <1>4, <1>5, LoopKeeps, ForkLabels DEF envvars

\* The page-fault handler: what the trap frame on top says.
LEMMA HandlerFacts ==
    ASSUME IInv, NEW e \in Envs, NEW label, InHandler(e, label)
    PROVE  /\ MemInv(m, NoPage, NoPage) /\ Types /\ ForkOwnsChild /\ env_status[e] = "RUNNABLE"
           /\ faults[e] \in Seq(Frame) /\ Len(faults[e]) \in Nat /\ Len(faults[e]) \in 1..Len(faults[e])
           /\ Top(e) \in Frame /\ Top(e).va \in VAs
<1>1. /\ MemInv(m, NoPage, NoPage) /\ Types /\ ForkOwnsChild /\ env_status[e] = "RUNNABLE" /\ faults[e] # <<>>
  BY RunningFacts DEF InHandler
<1>2. faults[e] \in Seq(Frame)
  BY <1>1 DEF Types
<1>3. Len(faults[e]) \in Nat /\ Len(faults[e]) \in 1..Len(faults[e])
  BY <1>1, <1>2
<1>4. Top(e) \in Frame
  BY <1>2, <1>3, ElementOfSeq DEF Top
<1> QED
  BY <1>1, <1>2, <1>3, <1>4 DEF Frame

LEMMA StepKeeps ==
    ASSUME IInv, NEW e \in Envs, NEW now, InHandler(e, now),
           NEW r, r.err \in BOOLEAN, MemInv(r.m, NoPage, NoPage), OnlySlotsOf(m, r.m, e),
           NEW label \in {"copy", "map", "unmap", "return"}, Step(e, r, label)
    PROVE  IInv'
<1>1. /\ MemInv(m, NoPage, NoPage) /\ Types /\ ForkOwnsChild /\ env_status[e] = "RUNNABLE"
      /\ faults[e] \in Seq(Frame) /\ Len(faults[e]) \in 1..Len(faults[e]) /\ Top(e) \in Frame
  BY HandlerFacts
<1>2. /\ m' = r.m /\ touched' \subseteq touched
      /\ UNCHANGED <<envvars, env_ipc_recving, env_ipc_dstva, child, pnum, forks>>
  BY DEF Step, Goto, progvars
<1>3. CASE r.err
  <2>1. pc' = [pc EXCEPT ![e] = "panic"] /\ faults' = faults
    BY <1>3 DEF Step, Goto
  <2>2. Types'
    BY <1>1, <1>2, <2>1 DEF Types, envvars
  <2>3. pc'[e] = "panic" /\ \A f \in Envs : f # e => pc'[f] = pc[f]
    BY <1>1, <2>1 DEF Types
  <2> QED
    BY <1>1, <1>2, <2>2, <2>3, QuietStep DEF envvars, Loops, OnPage
<1>4. CASE ~r.err
  <2> DEFINE n == Len(faults[e])
             frame == [Top(e) EXCEPT !.at = label]
             fs == [faults[e] EXCEPT ![n] = frame]
  <2>1. faults' = [faults EXCEPT ![e] = fs] /\ pc' = pc
    BY <1>4 DEF Step, progvars, Top
  <2>2. frame \in Frame
    BY <1>1 DEF Frame
  <2> HIDE DEF frame
  <2>3. fs \in Seq(Frame)
    BY <1>1, <2>2, ExceptSeq
  <2> HIDE DEF fs
  <2>4. Types'
    BY <1>1, <1>2, <2>1, <2>3 DEF Types, envvars
  <2> QED
    BY <1>1, <1>2, <2>1, <2>4, QuietStep DEF envvars, ForkOwnsChild
<1> QED
  BY <1>3, <1>4

LEMMA HandlerAllocKeeps ==
    ASSUME IInv, NEW e \in Envs, HandlerAlloc(e)
    PROVE  IInv'
<1> DEFINE r == env_page_alloc(m, e, PFTEMP, {"W"})
<1>1. InHandler(e, "alloc") /\ Step(e, r, "copy")
  BY DEF HandlerAlloc
<1>2. Settled(m, r, e)
  BY <1>1, HandlerFacts, PageAllocInv, AddressFacts DEF Bits
<1> HIDE DEF r
<1> QED
  BY <1>1, <1>2, StepKeeps DEF Settled

LEMMA HandlerCopyKeeps ==
    ASSUME IInv, NEW e \in Envs, HandlerCopy(e)
    PROVE  IInv'
<1>1. /\ MemInv(m, NoPage, NoPage) /\ env_status[e] = "RUNNABLE" /\ Top(e).va \in VAs
      /\ InHandler(e, "copy")
  BY HandlerFacts DEF HandlerCopy
<1>2. CASE Mapped(m, e, Top(e).va)
  <2> DEFINE nn == CopyPage(m, e, Top(e).va, PFTEMP)
             r == Ok(nn)
  <2>1. Step(e, r, "map")
    BY <1>2 DEF HandlerCopy
  <2>2. MemInv(nn, NoPage, NoPage) /\ nn.slot = m.slot
    BY <1>1, <1>2, CopyInv, AddressFacts
  <2>3. OnlySlotsOf(m, nn, e)
    BY <2>2, SameSlots
  <2> HIDE DEF nn
  <2>4. r.err \in BOOLEAN /\ r.m = nn
    BY DEF Ok
  <2> HIDE DEF r
  <2> QED
    BY <1>1, <2>1, <2>2, <2>3, <2>4, StepKeeps
<1>3. CASE ~Mapped(m, e, Top(e).va)
  BY <1>1, <1>3, PageFaultKeeps DEF HandlerCopy
<1> QED
  BY <1>2, <1>3

LEMMA HandlerMapKeeps ==
    ASSUME IInv, NEW e \in Envs, HandlerMap(e)
    PROVE  IInv'
<1> DEFINE r == env_page_map(m, e, PFTEMP, e, Top(e).va, {"W"})
<1>1. InHandler(e, "map") /\ Step(e, r, "unmap")
  BY DEF HandlerMap
<1>2. Settled(m, r, e)
  BY <1>1, HandlerFacts, PageMapInv, AddressFacts DEF Bits
<1> HIDE DEF r
<1> QED
  BY <1>1, <1>2, StepKeeps DEF Settled

LEMMA HandlerUnmapKeeps ==
    ASSUME IInv, NEW e \in Envs, HandlerUnmap(e)
    PROVE  IInv'
<1> DEFINE nn == page_remove(m, e, PFTEMP)
           r == Ok(nn)
<1>1. InHandler(e, "unmap") /\ Step(e, r, "return")
  BY DEF HandlerUnmap
<1>2. MemInv(m, NoPage, NoPage)
  BY <1>1, HandlerFacts
<1>3. MemInv(nn, NoPage, NoPage) /\ OnlySlotsOf(m, nn, e)
  BY <1>2, RemoveInv, AddressFacts
<1> HIDE DEF nn
<1>4. r.err \in BOOLEAN /\ r.m = nn
  BY DEF Ok
<1> HIDE DEF r
<1> QED
  BY <1>1, <1>3, <1>4, StepKeeps

LEMMA HandlerReturnKeeps ==
    ASSUME IInv, NEW e \in Envs, HandlerReturn(e)
    PROVE  IInv'
<1>1. /\ MemInv(m, NoPage, NoPage) /\ Types /\ ForkOwnsChild /\ env_status[e] = "RUNNABLE"
      /\ faults[e] \in Seq(Frame) /\ Len(faults[e]) \in Nat
  BY HandlerFacts DEF HandlerReturn
<1>2. CASE PageFault(e, STACK)
  BY <1>1, <1>2, PageFaultKeeps, AddressFacts
<1>3. CASE ~PageFault(e, STACK)
  <2> DEFINE fs == SubSeq(faults[e], 1, Len(faults[e]) - 1)
  <2>1. faults' = [faults EXCEPT ![e] = fs] /\ UNCHANGED <<m, envvars, ipcvars, progvars>>
    BY <1>3 DEF HandlerReturn
  <2>2. fs \in Seq(Frame)
    <3>1. \A i \in 1..Len(faults[e]) - 1 : faults[e][i] \in Frame
      BY <1>1, ElementOfSeq
    <3> QED
      BY <1>1, <3>1, SubSeqProperties
  <2> HIDE DEF fs
  <2>3. Types'
    BY <1>1, <2>1, <2>2 DEF Types, envvars, ipcvars, progvars
  <2>4. MemInv(m', NoPage, NoPage) /\ OnlySlotsOf(m, m', e)
    BY <1>1, <2>1, SameSlots
  <2> QED
    BY <1>1, <2>1, <2>3, <2>4, QuietStep DEF envvars, ipcvars, progvars, ForkOwnsChild
<1> QED
  BY <1>2, <1>3

-----------------------------------------------------------------------------

LEMMA StutterKeeps ==
    ASSUME IInv, UNCHANGED vars
    PROVE  IInv'
<1>1. UNCHANGED <<m, env_status, env_parent_id, env_pgfault_upcall, env_ipc_recving, env_ipc_dstva, touched,
                  pgfault_handler, pc, child, pnum, faults, forks, kernel>>
  BY DEF vars, envvars, ipcvars, progvars
<1> QED
  BY <1>1, Parts DEF IInv, Types, FreeIsEmpty, WaitingSleeps, ForkOwnsChild

LEMMA ForkStepKeeps ==
    ASSUME IInv, NEW e \in Envs, ForkStep(e)
    PROVE  IInv'
<1>1. CASE SetHandler(e) \/ SetUpcall(e) \/ Dup(e) \/ DupSelf(e) \/ ChildStack(e)
  BY <1>1, SetHandlerKeeps, SetUpcallKeeps, DupKeeps, DupSelfKeeps, ChildStackKeeps
<1>2. CASE SysExofork(e, "exofork", "dup") \/ SysExofork(e, "v0_exofork", "v0")
  BY <1>2, SysExoforkKeeps
<1>3. CASE ChildUpcall(e) \/ SetStatus(e) \/ V0Page(e)
  BY <1>3, ChildUpcallKeeps, SetStatusKeeps, V0PageKeeps
<1>4. CASE V0Map(e) \/ V0Copy(e) \/ V0Unmap(e)
  BY <1>4, V0MapKeeps, V0CopyKeeps, V0UnmapKeeps
<1> QED
  BY <1>1, <1>2, <1>3, <1>4 DEF ForkStep

LEMMA HandlerStepKeeps ==
    ASSUME IInv, NEW e \in Envs, HandlerStep(e)
    PROVE  IInv'
BY HandlerAllocKeeps, HandlerCopyKeeps, HandlerMapKeeps, HandlerUnmapKeeps, HandlerReturnKeeps
   DEF HandlerStep

LEMMA ProgramStepKeeps ==
    ASSUME IInv, NEW e \in Envs, ProgramStep(e)
    PROVE  IInv'
<1>1. CASE \E va \in Data, v \in Vals : Write(e, va, v)
  BY <1>1, WriteKeeps
<1>2. CASE \E va \in Data : ReadUnmapped(e, va) \/ SysPageUnmap(e, va) \/ Cputs(e, va)
  BY <1>2, ReadKeeps, SysPageUnmapKeeps, CputsKeeps
<1>3. CASE ForkBegin(e) \/ ForkV0Begin(e)
  BY <1>3, ForkBeginKeeps
<1>4. CASE \E x \in Envs : SysEnvDestroy(e, x)
  BY <1>4, SysEnvDestroyKeeps
<1>5. CASE \E va \in Data \cup {0} : IpcRecv(e, va)
  BY <1>5, IpcRecvKeeps
<1>6. CASE \E f \in Envs : SendValue(e, f)
  BY <1>6, SendValueKeeps
<1>7. CASE \E f \in Envs, va \in Data, perm \in {{}, {"W"}} : SendPage(e, f, va, perm)
  BY <1>7, SendPageKeeps
<1> QED
  BY <1>1, <1>2, <1>3, <1>4, <1>5, <1>6, <1>7 DEF ProgramStep

LEMMA NextKeeps == IInv /\ [Next]_vars => IInv'
<1> SUFFICES ASSUME IInv, [Next]_vars
             PROVE  IInv'
  OBVIOUS
<1>1. FirstEnv \in Envs
  BY NoEnvAssumption DEF FirstEnv
<1>2. CASE EnvCreate(FirstEnv) \/ LoadIcode(FirstEnv)
  BY <1>1, <1>2, EnvCreateKeeps, LoadIcodeKeeps
<1>3. ASSUME NEW e \in Envs, StackFault(e) \/ ForkStep(e) \/ HandlerStep(e) \/ ProgramStep(e)
      PROVE  IInv'
  BY <1>3, StackFaultKeeps, ForkStepKeeps, HandlerStepKeeps, ProgramStepKeeps
<1>4. CASE UNCHANGED vars
  BY <1>4, StutterKeeps
<1> QED
  BY <1>2, <1>3, <1>4 DEF Next

\* The inductive invariant holds of every run, whatever the programs do.
THEOREM Invariant == Spec => []IInv
<1>1. Init => IInv
  BY InitIInv
<1>2. IInv /\ [Next]_vars => IInv'
  BY NextKeeps
<1> QED
  BY <1>1, <1>2, PTL DEF Spec

\* Every variable keeps its type: page reference counts never go below zero,
\* fork never works on a page past UXSTACK.
THEOREM TypeCorrect == Spec => []TypeOK
<1>1. IInv => TypeOK
  BY Consequences
<1> QED
  BY <1>1, Invariant, PTL

\* pp_ref is the number of references to the page, after calls that fail half
\* way too.
THEOREM RefsAreExact == Spec => []RefsExact
<1>1. IInv => RefsExact
  BY Consequences
<1> QED
  BY <1>1, Invariant, PTL

\* page_free_list never holds a page somebody refers to, and holds every
\* other page the allocator has not lost.
THEOREM FreeListIsExact == Spec => []FreeListExact
<1>1. IInv => FreeListExact
  BY Consequences
<1> QED
  BY <1>1, Invariant, PTL

\* A page directory or page table has one reference and is no program's page.
THEOREM TablesArePrivate == Spec => []TablesPrivate
<1>1. IInv => TablesPrivate
  BY Consequences
<1> QED
  BY <1>1, Invariant, PTL

\* Until fork starts it, a child does not run, does not wait for a message and
\* is nobody else's to destroy.
THEOREM ChildrenAreTheirParents == Spec => []ForkOwnsChild
<1>1. IInv => ForkOwnsChild
  BY DEF IInv
<1> QED
  BY <1>1, Invariant, PTL

-----------------------------------------------------------------------------
(***************************************************************************)
(* While an environment waits for a message nobody changes what it has     *)
(* mapped: not the ones that run, and not a send that fails half way.  The *)
(* senders are those that have a page where they say (the programs of the  *)
(* repository do): see SrcTests.                                           *)
(***************************************************************************)

\* Only the memory of x is not what it was
Apart(mm, nn, x) ==
    /\ OnlySlotsOf(mm, nn, x)
    /\ \A f \in Envs : f # x => nn.perm[f] = mm.perm[f]

SameTables(mm, nn) ==
    /\ \A s \in Slots : s[2] = "pte" => nn.slot[s] = mm.slot[s]
    /\ nn.perm = mm.perm

-----------------------------------------------------------------------------

LEMMA RemoveApart ==
    ASSUME NEW mm, MemInv(mm, NoPage, NoPage), NEW e \in Envs, NEW va \in VAs
    PROVE  Apart(mm, page_remove(mm, e, va), e)
<1> DEFINE nn == page_remove(mm, e, va)
<1>1. OnlySlotsOf(mm, nn, e)
  BY RemoveInv
<1>2. ASSUME NEW f \in Envs, f # e
      PROVE  nn.perm[f] = mm.perm[f]
  <2>1. mm.perm \in [Envs -> [VAs -> SUBSET Bits]] /\ mm \in MemType
    BY DEF MemInv, MemType
  <2> QED
    BY <1>2, <2>1 DEF page_remove, page_decref, MemType
<1> QED
  BY <1>1, <1>2 DEF Apart

\* A mapping that is made leaves a page table behind
LEMMA InsertApart ==
    ASSUME NEW mm, NEW p \in Pages, NEW x \in {p, NoPage}, MemInv(mm, x, NoPage),
           x = NoPage => Users(mm, p) # {} /\ \A t \in Users(mm, p) : t[2] = "pte",
           NEW e \in Envs, NEW va \in VAs, NEW perm \in SUBSET Bits
    PROVE  LET r == page_insert(mm, e, p, va, perm)
           IN  /\ Apart(mm, r.m, e)
               /\ ~r.err => r.m.slot[Pde(e, va)] # NoPage
<1> DEFINE w == pgdir_walk(mm, e, va)
           v == [w EXCEPT !.pp_ref[p] = @ + 1]
           u == page_remove(v, e, va)
           n == [u EXCEPT !.slot[Pte(e, va)] = p, !.perm[e][va] = perm]
           r == page_insert(mm, e, p, va, perm)
<1>1. /\ MemInv(w, x, NoPage) /\ w.perm = mm.perm
  BY WalkInv
<1>2. w \in MemType
  BY <1>1 DEF MemInv
<1>3. r = IF w.slot[Pde(e, va)] = NoPage THEN Fail(w) ELSE Ok(n)
  BY DEF page_insert
<1>4. OnlySlotsOf(mm, r.m, e)
  BY InsertInv
<1>5. Pte(e, va) # Pde(e, va) /\ Pde(e, va) \in Slots
  BY SlotFacts
<1> HIDE DEF w, r
<1>6. /\ \A f \in Envs : f # e => n.perm[f] = w.perm[f]
      /\ n.slot[Pde(e, va)] = w.slot[Pde(e, va)]
  <2>1. v \in [slot : [Slots -> Pages \cup {NoPage}], perm : [Envs -> [VAs -> SUBSET Bits]],
                pp_ref : [Pages -> Nat], page_free_list : SUBSET Pages, data : [Pages -> Vals],
                unlisted : SUBSET Pages] /\ v.perm = w.perm /\ v.slot = w.slot
    BY <1>2 DEF MemType
  <2> HIDE DEF v
  <2>2. /\ u.slot = v.slot \/ u.slot = [v.slot EXCEPT ![Pte(e, va)] = NoPage]
        /\ u.perm = v.perm \/ u.perm = [v.perm EXCEPT ![e][va] = {}]
    BY <2>1 DEF page_remove, page_decref
  <2>3. n.slot = [u.slot EXCEPT ![Pte(e, va)] = p] /\ n.perm = [u.perm EXCEPT ![e][va] = perm]
    BY DEF page_remove, page_decref
  <2> HIDE DEF u, n
  <2>4. \A f \in Envs : f # e => n.perm[f] = w.perm[f]
    BY <2>1, <2>2, <2>3
  <2>5. n.slot[Pde(e, va)] = w.slot[Pde(e, va)]
    BY <1>5, <2>1, <2>2, <2>3
  <2> QED
    BY <2>4, <2>5
<1> QED
  BY <1>1, <1>3, <1>4, <1>6 DEF Apart, Ok, Fail, r

LEMMA PageAllocApart ==
    ASSUME NEW mm, MemInv(mm, NoPage, NoPage), NEW e \in Envs, NEW va \in VAs, NEW perm \in SUBSET Bits
    PROVE  LET r == env_page_alloc(mm, e, va, perm)
           IN  /\ Apart(mm, r.m, e)
               /\ ~r.err => r.m.slot[Pde(e, va)] # NoPage
<1> DEFINE p == FreePage(mm)
           aa == page_alloc(mm)
           i == page_insert(aa, e, p, va, perm)
           lost == [i.m EXCEPT !.unlisted = @ \cup {p}]
           r == env_page_alloc(mm, e, va, perm)
<1>1. CASE mm.page_free_list = {}
  <2>1. r.err = TRUE /\ r.m = mm
    BY <1>1 DEF env_page_alloc, Fail
  <2> HIDE DEF r
  <2> QED
    BY <2>1 DEF Apart, OnlySlotsOf, r
<1>2. CASE mm.page_free_list # {}
  <2>1. /\ p \in Pages /\ aa.slot = mm.slot /\ aa.perm = mm.perm /\ MemInv(aa, p, NoPage)
    BY <1>2, AllocShape, AllocInv DEF MemInv
  <2>2. p # NoPage
    BY <2>1, PagesAssumption
  <2> HIDE DEF p, aa
  <2>3. /\ Apart(aa, i.m, e) /\ (~i.err => i.m.slot[Pde(e, va)] # NoPage)
        /\ MemInv(i.m, IF i.err THEN p ELSE NoPage, NoPage)
    BY <2>1, <2>2, InsertApart, InsertInv
  <2> HIDE DEF i
  <2>4. lost.slot = i.m.slot /\ lost.perm = i.m.perm
    BY <2>3 DEF MemInv, MemType
  <2>5. r = IF i.err THEN Fail(lost) ELSE i
    BY <1>2 DEF env_page_alloc, i, aa, p
  <2> HIDE DEF lost, r
  <2>6. r.m.slot = i.m.slot /\ r.m.perm = i.m.perm /\ (~r.err => ~i.err)
    BY <2>4, <2>5 DEF Fail
  <2> QED
    BY <2>1, <2>3, <2>6 DEF Apart, OnlySlotsOf, r
<1> QED
  BY <1>1, <1>2

LEMMA PageMapApart ==
    ASSUME NEW mm, MemInv(mm, NoPage, NoPage), NEW src \in Envs, NEW srcva \in VAs,
           NEW dst \in Envs, NEW dstva \in VAs, NEW perm \in SUBSET Bits
    PROVE  Apart(mm, env_page_map(mm, src, srcva, dst, dstva, perm).m, dst)
<1> DEFINE p == PageAt(mm, src, srcva)
           r == env_page_map(mm, src, srcva, dst, dstva, perm)
           refused == ~Mapped(mm, src, srcva) \/ ("W" \in perm /\ "W" \notin mm.perm[src][srcva])
<1>1. CASE refused
  <2>1. r.m = mm
    BY <1>1 DEF env_page_map, Fail
  <2> HIDE DEF r
  <2> QED
    BY <2>1 DEF Apart, OnlySlotsOf, r
<1>2. CASE ~refused
  <2>1. /\ p \in Pages /\ Pte(src, srcva) \in Users(mm, p)
        /\ \A t \in Users(mm, p) : t[2] = "pte"
    <3>1. p \in Pages /\ Pte(src, srcva) \in Users(mm, p) /\ Pte(src, srcva)[2] = "pte"
      BY <1>2, SlotFacts DEF MemInv, MemType, Mapped, PageAt, Users
    <3>2. ASSUME NEW t \in Users(mm, p), t[2] # "pte"
          PROVE  FALSE
      BY <3>1, <3>2, PagesAssumption DEF MemInv, Private, Users
    <3> QED
      BY <3>1, <3>2
  <2>2. r = page_insert(mm, dst, p, dstva, perm)
    BY <1>2 DEF env_page_map
  <2> HIDE DEF p, r
  <2> QED
    BY <2>1, <2>2, InsertApart DEF r
<1> QED
  BY <1>1, <1>2

LEMMA EnvFreeApart ==
    ASSUME NEW mm, MemInv(mm, NoPage, NoPage), NEW e \in Envs
    PROVE  Apart(mm, env_free(mm, e), e)
<1>1. OnlySlotsOf(mm, env_free(mm, e), e)
  BY EnvFreeInv
<1>2. mm \in MemType
  BY DEF MemInv
<1>3. \A f \in Envs : f # e => env_free(mm, e).perm[f] = mm.perm[f]
  BY <1>2 DEF env_free, MemType
<1> QED
  BY <1>1, <1>3 DEF Apart

LEMMA SetupApart ==
    ASSUME NEW mm, MemInv(mm, NoPage, NoPage), NEW e \in Envs, mm.slot[Pgdir(e)] = NoPage
    PROVE  Apart(mm, env_setup_vm(mm, e).m, e)
<1> DEFINE p == FreePage(mm)
           nn == [page_alloc(mm) EXCEPT !.pp_ref[p] = @ + 1, !.slot[Pgdir(e)] = p]
           r == env_setup_vm(mm, e)
<1>1. OnlySlotsOf(mm, r.m, e)
  BY SetupInv DEF Settled
<1>2. mm.page_free_list # {} => nn.perm = mm.perm
  BY SlotFacts, TableShape DEF MemInv
<1>3. r.m = IF mm.page_free_list = {} THEN mm ELSE nn
  BY DEF env_setup_vm, Ok, Fail
<1> HIDE DEF nn, r
<1> QED
  BY <1>1, <1>2, <1>3 DEF Apart, r

-----------------------------------------------------------------------------

\* x is the one whose memory the step changes; it does not wait, or not any
\* more, or what it has mapped stays.
Disturbs(x) ==
    /\ Apart(m, m', x)
    /\ \/ env_status[x] = "FREE" \/ env_status'[x] = "FREE"
       \/ ~env_ipc_recving[x] \/ ~env_ipc_recving'[x]
       \/ SameTables(m, m')

LEMMA Quiet ==
    ASSUME NEW e \in Envs, m'.slot = m.slot, m'.perm = m.perm
    PROVE  Disturbs(e)
BY DEF Disturbs, Apart, OnlySlotsOf, SameTables

LEMMA OwnDisturbs ==
    ASSUME IInv, NEW e \in Envs, Running(e), Apart(m, m', e)
    PROVE  Disturbs(e)
<1>1. ~env_ipc_recving[e]
  BY DEF IInv, WaitingSleeps, Running
<1> QED
  BY <1>1 DEF Disturbs

LEMMA DestroyedDisturbs ==
    ASSUME IInv, NEW x \in Envs, Destroyed(x)
    PROVE  Disturbs(x)
<1>1. Apart(m, m', x)
  BY EnvFreeApart DEF IInv, Destroyed
<1>2. env_status'[x] = "FREE"
  BY DEF IInv, Types, Destroyed
<1> QED
  BY <1>1, <1>2 DEF Disturbs

LEMMA PageFaultDisturbs ==
    ASSUME IInv, NEW e \in Envs, NEW va, PageFault(e, va)
    PROVE  Disturbs(e)
<1>1. CASE Destroyed(e)
  BY <1>1, DestroyedDisturbs
<1>2. CASE ~Destroyed(e)
  BY <1>2, Quiet DEF PageFault
<1> QED
  BY <1>1, <1>2

LEMMA BootDisturbs ==
    ASSUME IInv, NEW e \in Envs, EnvCreate(e) \/ LoadIcode(e)
    PROVE  Disturbs(e)
<1>1. MemInv(m, NoPage, NoPage) /\ WaitingSleeps /\ FreeIsEmpty
  BY Parts
<1>2. CASE EnvCreate(e)
  <2>1. env_status[e] = "FREE" /\ m' = env_setup_vm(m, e).m
    BY <1>2 DEF EnvCreate, Booted
  <2>2. m.slot[Pgdir(e)] = NoPage
    BY <1>1, <2>1, SlotFacts DEF FreeIsEmpty
  <2> QED
    BY <1>1, <2>1, <2>2, SetupApart DEF Disturbs
<1>3. CASE LoadIcode(e)
  <2> DEFINE missing == {va \in Data \cup {STACK} : ~Mapped(m, e, va)}
             va == First(missing)
  <2>1. /\ env_status[e] = "RUNNABLE" /\ missing # {}
        /\ m' = region_alloc(m, e, va).m
    BY <1>3 DEF LoadIcode, Booted
  <2>2. va \in VAs
    BY <2>1, FirstIn, AddressFacts
  <2> HIDE DEF va
  <2>3. Apart(m, m', e)
    BY <1>1, <2>1, <2>2, PageAllocApart DEF region_alloc, Bits
  <2>4. ~env_ipc_recving[e]
    BY <1>1, <2>1 DEF WaitingSleeps
  <2> QED
    BY <2>3, <2>4 DEF Disturbs
<1> QED
  BY <1>2, <1>3

\* The steps of a running program but the sends and the forks
LEMMA ProgramDisturbs ==
    ASSUME IInv, NEW e \in Envs
    PROVE  /\ StackFault(e) => Disturbs(e)
           /\ \A va \in Data : /\ \A v \in Vals : Write(e, va, v) => Disturbs(e)
                               /\ ReadUnmapped(e, va) => Disturbs(e)
                               /\ SysPageUnmap(e, va) => Disturbs(e)
                               /\ Cputs(e, va) => Disturbs(e)
           /\ \A x \in Envs : SysEnvDestroy(e, x) => Disturbs(x)
           /\ \A va \in VAs : IpcRecv(e, va) => Disturbs(e)
           /\ ForkBegin(e) \/ ForkV0Begin(e) => Disturbs(e)
<1>1. MemInv(m, NoPage, NoPage) /\ m \in MemType /\ Data \subseteq VAs
  BY Parts, AddressFacts DEF MemInv
<1>2. StackFault(e) => Disturbs(e)
  BY PageFaultDisturbs DEF StackFault
<1>3. ASSUME NEW va \in Data, NEW v \in Vals, Write(e, va, v)
      PROVE  Disturbs(e)
  <2>1. CASE PageFault(e, va)
    BY <2>1, PageFaultDisturbs
  <2>2. CASE ~PageFault(e, va)
    <3>1. m' = [m EXCEPT !.data[PageAt(m, e, va)] = v]
      BY <1>3, <2>2 DEF Write
    <3>2. m'.slot = m.slot /\ m'.perm = m.perm
      BY <1>1, <3>1, StoreInv
    <3> QED
      BY <3>2, Quiet
  <2> QED
    BY <2>1, <2>2
<1>4. ASSUME NEW va \in Data, ReadUnmapped(e, va) \/ Cputs(e, va)
      PROVE  Disturbs(e)
  BY <1>4, PageFaultDisturbs, DestroyedDisturbs DEF ReadUnmapped, Cputs
<1>5. ASSUME NEW va \in Data, SysPageUnmap(e, va)
      PROVE  Disturbs(e)
  <2>1. m' = page_remove(m, e, va) /\ Running(e)
    BY <1>5 DEF SysPageUnmap, At, CanCall, AtStack
  <2>2. Apart(m, m', e)
    BY <1>1, <2>1, RemoveApart
  <2> QED
    BY <2>1, <2>2, OwnDisturbs
<1>6. ASSUME NEW x \in Envs, SysEnvDestroy(e, x)
      PROVE  Disturbs(x)
  BY <1>6, DestroyedDisturbs DEF SysEnvDestroy
<1>7. ASSUME NEW va \in VAs, IpcRecv(e, va)
      PROVE  Disturbs(e)
  BY <1>7, Quiet DEF IpcRecv
<1>8. ForkBegin(e) \/ ForkV0Begin(e) => Disturbs(e)
  BY Quiet DEF ForkBegin, ForkV0Begin
<1> QED
  BY <1>2, <1>3, <1>4, <1>5, <1>6, <1>7, <1>8

-----------------------------------------------------------------------------

\* Once the page of the receiver is allocated its page table is there, and
\* the second call cannot fail any more.
LEMMA TransferApart ==
    ASSUME IInv, NEW e \in Envs, NEW f \in Envs, e # f, NEW srcva \in VAs, NEW perm \in SUBSET Bits,
           Mapped(m, e, srcva), "W" \in perm => "W" \in m.perm[e][srcva]
    PROVE  LET r == TransferPage(e, srcva, f, perm)
           IN  /\ Apart(m, r.m, f)
               /\ r.err => SameTables(m, r.m)
<1> DEFINE dst == env_ipc_dstva[f]
           a == env_page_alloc(m, f, dst, perm)
           t == env_page_map(a.m, e, srcva, f, dst, perm)
           r == TransferPage(e, srcva, f, perm)
<1>1. MemInv(m, NoPage, NoPage) /\ dst \in VAs
  BY DEF IInv, Types
<1> HIDE DEF dst
<1>2. /\ Apart(m, a.m, f) /\ (~a.err => a.m.slot[Pde(f, dst)] # NoPage)
      /\ Settled(m, a, f) /\ (a.err => SameTables(m, a.m))
  BY <1>1, PageAllocApart, PageAllocInv DEF SameTables
<1> HIDE DEF a
<1>3. /\ Apart(a.m, t.m, f) /\ Settled(a.m, t, f)
      /\ (t.err /\ Mapped(a.m, e, srcva) /\ ("W" \in perm => "W" \in a.m.perm[e][srcva]))
            => a.m.slot[Pde(f, dst)] = NoPage
  BY <1>1, <1>2, PageMapApart, PageMapInv DEF Settled
<1>4. Mapped(a.m, e, srcva) /\ a.m.perm[e] = m.perm[e]
  BY <1>2, SlotFacts DEF Apart, OnlySlotsOf, Mapped
<1>5. ~a.err => ~t.err
  BY <1>2, <1>3, <1>4 DEF Settled
<1>6. r = IF a.err THEN a ELSE t
  BY DEF TransferPage, a, dst
<1>7. Apart(m, t.m, f)
  BY <1>2, <1>3 DEF Apart, OnlySlotsOf
<1> HIDE DEF t, r
<1>8. Apart(m, r.m, f) /\ (r.err => SameTables(m, r.m))
  BY <1>2, <1>5, <1>6, <1>7
<1> QED
  BY <1>8 DEF r

LEMMA SendDisturbs ==
    ASSUME IInv, "ipc_unmapped" \notin Programs, NEW e \in Envs, NEW f \in Envs
    PROVE  /\ SendValue(e, f) => Disturbs(f)
           /\ \A srcva \in Data, perm \in {{}, {"W"}} : SendPage(e, f, srcva, perm) => Disturbs(f)
<1>1. SendValue(e, f) => Disturbs(f)
  BY Quiet DEF SendValue
<1>2. ASSUME NEW srcva \in Data, NEW perm \in {{}, {"W"}}, SendPage(e, f, srcva, perm)
      PROVE  Disturbs(f)
  <2> DEFINE r == TransferPage(e, srcva, f, perm)
  <2>1. /\ e # f /\ srcva \in VAs /\ perm \in SUBSET Bits /\ Mapped(m, e, srcva)
        /\ env_ipc_recving \in [Envs -> BOOLEAN]
    BY <1>2, AddressFacts
    DEF SendPage, Receiving, At, CanCall, AtStack, Running, IInv, WaitingSleeps, Types, Bits
  <2>2. PICK test \in SrcTests(e, srcva, perm) :
           \/ m' = m
           \/ /\ test = "pass"
              /\ m' = r.m
              /\ ~r.err => Delivered(f)
    BY <1>2 DEF SendPage, SrcTests, Result
  <2>3. CASE m' = m
    BY <2>3, Quiet
  <2>4. CASE test = "pass" /\ m' = r.m /\ (~r.err => Delivered(f))
    <3>1. "W" \in perm => "W" \in m.perm[e][srcva]
      BY <2>1, <2>2, <2>4 DEF SrcTests, HasBit, Mapped
    <3>2. Apart(m, r.m, f) /\ (r.err => SameTables(m, r.m))
      BY <2>1, <3>1, TransferApart
    <3>3. Delivered(f) => ~env_ipc_recving'[f]
      BY <2>1 DEF Delivered
    <3> HIDE DEF r
    <3> QED
      BY <2>4, <3>2, <3>3 DEF Disturbs
  <2> QED
    BY <2>2, <2>3, <2>4
<1> QED
  BY <1>1, <1>2

-----------------------------------------------------------------------------

\* Fork works on its own memory and on that of its child, which does not wait.
LEMMA ChildDisturbs ==
    ASSUME IInv, NEW e \in Envs, child[e] \in Envs, Apart(m, m', child[e])
    PROVE  Disturbs(child[e])
<1>1. ~env_ipc_recving[child[e]]
  BY DEF IInv, ForkOwnsChild
<1> QED
  BY <1>1 DEF Disturbs

LEMMA BeginningDisturbs ==
    ASSUME IInv, NEW e \in Envs
    PROVE  /\ SetHandler(e) \/ SetUpcall(e) => Disturbs(e)
           /\ \A label, loop : SysExofork(e, label, loop) => \E x \in Envs : Disturbs(x)
<1>1. MemInv(m, NoPage, NoPage) /\ FreeIsEmpty
  BY Parts
<1>2. CASE SetHandler(e)
  <2>1. m' = env_page_alloc(m, e, UXSTACK, {"W"}).m /\ Running(e)
    BY <1>2 DEF SetHandler, At, CanCall, AtStack
  <2>2. Apart(m, m', e)
    BY <1>1, <2>1, PageAllocApart, AddressFacts DEF Bits
  <2> QED
    BY <2>1, <2>2, OwnDisturbs
<1>3. CASE SetUpcall(e)
  BY <1>3, Quiet DEF SetUpcall
<1>4. ASSUME NEW label, NEW loop, SysExofork(e, label, loop)
      PROVE  \E x \in Envs : Disturbs(x)
  <2>1. CASE m' = m
    BY <2>1, Quiet
  <2>2. CASE \E c \in Envs : env_status[c] = "FREE" /\ NewChild(e, c, loop)
    <3>1. PICK c \in Envs : env_status[c] = "FREE" /\ NewChild(e, c, loop)
      BY <2>2
    <3>2. m.slot[Pgdir(c)] = NoPage
      BY <1>1, <3>1, SlotFacts DEF FreeIsEmpty
    <3>3. Apart(m, m', c)
      BY <1>1, <3>1, <3>2, SetupApart DEF NewChild
    <3> QED
      BY <3>1, <3>3 DEF Disturbs
  <2> QED
    BY <1>4, <2>1, <2>2 DEF SysExofork
<1> QED
  BY <1>2, <1>3, <1>4

LEMMA DupDisturbs ==
    ASSUME IInv, NEW e \in Envs
    PROVE  /\ Dup(e) => Disturbs(child[e])
           /\ DupSelf(e) => Disturbs(e)
           /\ ChildStack(e) => Disturbs(child[e])
           /\ ChildUpcall(e) \/ SetStatus(e) => Disturbs(e)
<1>1. ASSUME Dup(e)
      PROVE  Disturbs(child[e])
  <2> DEFINE left == Left(e, {UXSTACK})
             va == First(left)
             perm == IF m.perm[e][va] # {} THEN {"COW"} ELSE {}
  <2>1. MemInv(m, NoPage, NoPage) /\ child[e] \in Envs
    BY <1>1, LoopFacts, ForkLabels DEF Dup
  <2>2. CASE m' = m
    BY <2>1, <2>2, Quiet
  <2>3. CASE m' # m
    <3>1. left # {} /\ m' = env_page_map(m, e, va, child[e], va, perm).m
      BY <1>1, <2>3 DEF Dup, Result
    <3>2. va \in VAs /\ perm \in SUBSET Bits
      BY <3>1, FirstIn DEF Left, Bits
    <3> HIDE DEF va, perm
    <3>3. Apart(m, m', child[e])
      BY <2>1, <3>1, <3>2, PageMapApart
    <3> QED
      BY <2>1, <3>3, ChildDisturbs
  <2> QED
    BY <2>2, <2>3
<1>2. ASSUME DupSelf(e)
      PROVE  Disturbs(e)
  <2>1. MemInv(m, NoPage, NoPage) /\ Running(e) /\ pnum[e] \in VAs
    BY <1>2, LoopFacts, ForkLabels DEF DupSelf
  <2>2. m' = env_page_map(m, e, pnum[e], e, pnum[e], {"COW"}).m
    BY <1>2 DEF DupSelf, Result
  <2>3. Apart(m, m', e)
    BY <2>1, <2>2, PageMapApart DEF Bits
  <2> QED
    BY <2>1, <2>3, OwnDisturbs
<1>3. ASSUME ChildStack(e)
      PROVE  Disturbs(child[e])
  <2>1. MemInv(m, NoPage, NoPage) /\ child[e] \in Envs
    BY <1>3, LoopFacts, ForkLabels DEF ChildStack
  <2>2. m' = env_page_alloc(m, child[e], UXSTACK, {"W"}).m
    BY <1>3 DEF ChildStack, Result
  <2>3. Apart(m, m', child[e])
    BY <2>1, <2>2, PageAllocApart, AddressFacts DEF Bits
  <2> QED
    BY <2>1, <2>3, ChildDisturbs
<1>4. ASSUME ChildUpcall(e) \/ SetStatus(e)
      PROVE  Disturbs(e)
  BY <1>4, Quiet DEF ChildUpcall, SetStatus
<1> QED
  BY <1>1, <1>2, <1>3, <1>4

LEMMA V0Disturbs ==
    ASSUME IInv, NEW e \in Envs
    PROVE  /\ V0Page(e) => Disturbs(child[e])
           /\ V0Map(e) \/ V0Copy(e) \/ V0Unmap(e) => Disturbs(e)
<1>1. ASSUME V0Page(e)
      PROVE  Disturbs(child[e])
  <2> DEFINE left == Left(e, {})
             va == First(left)
             a == env_page_alloc(m, child[e], va, {"W"})
             t == env_page_map(m, e, va, child[e], va, {})
  <2>1. MemInv(m, NoPage, NoPage) /\ child[e] \in Envs
    BY <1>1, LoopFacts, ForkLabels DEF V0Page
  <2>2. CASE m' = m
    BY <2>1, <2>2, Quiet
  <2>3. CASE m' # m
    <3>1. left # {} /\ m' \in {a.m, t.m}
      BY <1>1, <2>3 DEF V0Page, Result
    <3>2. va \in VAs
      BY <3>1, FirstIn DEF Left
    <3> HIDE DEF va
    <3>3. Apart(m, a.m, child[e]) /\ Apart(m, t.m, child[e])
      BY <2>1, <3>2, PageAllocApart, PageMapApart DEF Bits
    <3> HIDE DEF a, t
    <3> QED
      BY <2>1, <3>1, <3>3, ChildDisturbs
  <2> QED
    BY <2>2, <2>3
<1>2. ASSUME V0Map(e)
      PROVE  Disturbs(e)
  <2>1. MemInv(m, NoPage, NoPage) /\ Running(e) /\ child[e] \in Envs /\ pnum[e] \in VAs
    BY <1>2, LoopFacts, ForkLabels DEF V0Map
  <2>2. m' = env_page_map(m, child[e], pnum[e], e, UTEMP, {"W"}).m
    BY <1>2 DEF V0Map, Result
  <2>3. Apart(m, m', e)
    BY <2>1, <2>2, PageMapApart, AddressFacts DEF Bits
  <2> QED
    BY <2>1, <2>3, OwnDisturbs
<1>3. ASSUME V0Copy(e)
      PROVE  Disturbs(e)
  <2>1. MemInv(m, NoPage, NoPage) /\ pnum[e] \in VAs
    BY <1>3, LoopFacts, ForkLabels DEF V0Copy
  <2>2. CASE Mapped(m, e, pnum[e])
    <3>1. m' = CopyPage(m, e, pnum[e], UTEMP)
      BY <1>3, <2>2 DEF V0Copy
    <3>2. UTEMP \in VAs
      BY AddressFacts
    <3>3. m'.slot = m.slot /\ m'.perm = m.perm
      BY <2>1, <2>2, <3>1, <3>2, CopyInv
    <3> QED
      BY <3>3, Quiet
  <2>3. CASE ~Mapped(m, e, pnum[e])
    BY <1>3, <2>3, PageFaultDisturbs DEF V0Copy
  <2> QED
    BY <2>2, <2>3
<1>4. ASSUME V0Unmap(e)
      PROVE  Disturbs(e)
  <2>1. MemInv(m, NoPage, NoPage) /\ Running(e) /\ m' = page_remove(m, e, UTEMP)
    BY <1>4, LoopFacts, ForkLabels DEF V0Unmap
  <2>2. Apart(m, m', e)
    BY <2>1, RemoveApart, AddressFacts
  <2> QED
    BY <2>1, <2>2, OwnDisturbs
<1> QED
  BY <1>1, <1>2, <1>3, <1>4

\* The page-fault handler works on the memory of the environment it runs in.
LEMMA HandlerDisturbs ==
    ASSUME IInv, NEW e \in Envs, HandlerStep(e)
    PROVE  Disturbs(e)
<1> DEFINE va == Top(e).va
<1>1. /\ MemInv(m, NoPage, NoPage) /\ Running(e) /\ va \in VAs
  BY HandlerFacts
  DEF HandlerStep, HandlerAlloc, HandlerCopy, HandlerMap, HandlerUnmap, HandlerReturn, InHandler
<1> HIDE DEF va
<1>2. CASE HandlerAlloc(e)
  <2>1. m' = env_page_alloc(m, e, PFTEMP, {"W"}).m
    BY <1>2 DEF HandlerAlloc, Step
  <2>2. Apart(m, m', e)
    BY <1>1, <2>1, PageAllocApart, AddressFacts DEF Bits
  <2> QED
    BY <1>1, <2>2, OwnDisturbs
<1>3. CASE HandlerCopy(e)
  <2>1. CASE Mapped(m, e, va)
    <3>1. m' = CopyPage(m, e, va, PFTEMP)
      BY <1>3, <2>1 DEF HandlerCopy, Step, Ok, va
    <3>2. PFTEMP \in VAs
      BY AddressFacts
    <3>3. m'.slot = m.slot /\ m'.perm = m.perm
      BY <1>1, <2>1, <3>1, <3>2, CopyInv
    <3> QED
      BY <3>3, Quiet
  <2>2. CASE ~Mapped(m, e, va)
    BY <1>3, <2>2, PageFaultDisturbs DEF HandlerCopy, va
  <2> QED
    BY <2>1, <2>2
<1>4. CASE HandlerMap(e)
  <2>1. m' = env_page_map(m, e, PFTEMP, e, va, {"W"}).m
    BY <1>4 DEF HandlerMap, Step, va
  <2>2. Apart(m, m', e)
    BY <1>1, <2>1, PageMapApart, AddressFacts DEF Bits
  <2> QED
    BY <1>1, <2>2, OwnDisturbs
<1>5. CASE HandlerUnmap(e)
  <2>1. m' = page_remove(m, e, PFTEMP)
    BY <1>5 DEF HandlerUnmap, Step, Ok
  <2>2. Apart(m, m', e)
    BY <1>1, <2>1, RemoveApart, AddressFacts
  <2> QED
    BY <1>1, <2>2, OwnDisturbs
<1>6. CASE HandlerReturn(e)
  BY <1>6, PageFaultDisturbs, Quiet DEF HandlerReturn
<1> QED
  BY <1>2, <1>3, <1>4, <1>5, <1>6 DEF HandlerStep

-----------------------------------------------------------------------------

LEMMA StepDisturbs ==
    ASSUME IInv, "ipc_unmapped" \notin Programs, [Next]_vars
    PROVE  \E x \in Envs : Disturbs(x)
<1>1. FirstEnv \in Envs
  BY NoEnvAssumption DEF FirstEnv
<1>2. CASE UNCHANGED vars
  BY <1>1, <1>2, Quiet DEF vars
<1>3. CASE EnvCreate(FirstEnv) \/ LoadIcode(FirstEnv)
  BY <1>1, <1>3, BootDisturbs
<1>4. ASSUME NEW e \in Envs, StackFault(e) \/ HandlerStep(e)
      PROVE  \E x \in Envs : Disturbs(x)
  BY <1>4, ProgramDisturbs, HandlerDisturbs
<1>5. ASSUME NEW e \in Envs, ForkStep(e)
      PROVE  \E x \in Envs : Disturbs(x)
  <2>1. CASE \/ SetHandler(e) \/ SetUpcall(e)
             \/ SysExofork(e, "exofork", "dup") \/ SysExofork(e, "v0_exofork", "v0")
    BY <2>1, BeginningDisturbs
  <2>2. CASE Dup(e) \/ ChildStack(e) \/ V0Page(e)
    <3>1. child[e] \in Envs
      BY <2>2, LoopFacts, ForkLabels DEF Dup, ChildStack, V0Page
    <3> QED
      BY <2>2, <3>1, DupDisturbs, V0Disturbs
  <2>3. CASE DupSelf(e) \/ ChildUpcall(e) \/ SetStatus(e) \/ V0Map(e) \/ V0Copy(e) \/ V0Unmap(e)
    BY <2>3, DupDisturbs, V0Disturbs
  <2> QED
    BY <1>5, <2>1, <2>2, <2>3 DEF ForkStep
<1>6. ASSUME NEW e \in Envs, ProgramStep(e)
      PROVE  \E x \in Envs : Disturbs(x)
  <2>1. CASE \/ \E va \in Data, v \in Vals : Write(e, va, v)
             \/ \E va \in Data : ReadUnmapped(e, va) \/ SysPageUnmap(e, va) \/ Cputs(e, va)
             \/ ForkBegin(e) \/ ForkV0Begin(e)
             \/ \E x \in Envs : SysEnvDestroy(e, x)
    BY <2>1, ProgramDisturbs
  <2>2. CASE \E va \in Data \cup {0} : IpcRecv(e, va)
    BY <2>2, ProgramDisturbs, AddressFacts DEF UTEMP
  <2>3. CASE \E f \in Envs :
                SendValue(e, f) \/ \E va \in Data, perm \in {{}, {"W"}} : SendPage(e, f, va, perm)
    BY <2>3, SendDisturbs
  <2> QED
    BY <1>6, <2>1, <2>2, <2>3 DEF ProgramStep
<1> QED
  BY <1>2, <1>3, <1>4, <1>5, <1>6 DEF Next

\* What BlockedSpaceStable asks of a step.
Untouched ==
    \A e \in Envs :
        env_status[e] # "FREE" /\ env_ipc_recving[e] /\ env_status'[e] # "FREE" /\ env_ipc_recving'[e]
        => \A va \in Data : /\ Mapped(m, e, va) => m'.slot[Pte(e, va)] = m.slot[Pte(e, va)]
                           /\ m'.perm[e][va] = m.perm[e][va]

LEMMA DisturbsOne ==
    ASSUME NEW x \in Envs, Disturbs(x)
    PROVE  Untouched
<1> SUFFICES ASSUME NEW e \in Envs, env_status[e] # "FREE", env_ipc_recving[e],
                    env_status'[e] # "FREE", env_ipc_recving'[e], NEW va \in Data
             PROVE  m'.slot[Pte(e, va)] = m.slot[Pte(e, va)] /\ m'.perm[e][va] = m.perm[e][va]
  BY DEF Untouched
<1>1. Pte(e, va) \in Slots /\ Pte(e, va)[1] = e /\ Pte(e, va)[2] = "pte"
  BY AddressFacts, SlotFacts
<1>2. CASE e # x
  BY <1>1, <1>2 DEF Disturbs, Apart, OnlySlotsOf
<1>3. CASE e = x
  BY <1>1, <1>3 DEF Disturbs, SameTables
<1> QED
  BY <1>2, <1>3

\* A receiver that still waits after a step, whatever the step was, has the
\* pages it had with the permissions they had: a page that could not be
\* passed leaves no trace.
THEOREM ReceiverUntouched ==
    ASSUME "ipc_unmapped" \notin Programs
    PROVE  Spec => BlockedSpaceStable
<1>1. IInv /\ [Next]_vars => [Untouched]_vars
  BY StepDisturbs, DisturbsOne
<1> QED
  BY <1>1, Invariant, PTL DEF Spec, BlockedSpaceStable, Untouched

-----------------------------------------------------------------------------
(***************************************************************************)
(* Whose stack a page is.  A page of the program and a page of a stack are *)
(* never one; the pages at PFTEMP and UTEMP are there only between two     *)
(* steps of pgfault or of fork_v0; and who may write a page of another's   *)
(* stack is the one that makes it, its child not being started.            *)
(***************************************************************************)

Stacks == {STACK, UXSTACK}
Lasting == Data \cup Stacks

\* e at va and f at w have the same page
Common(mm, e, va, f, w) ==
    mm.slot[Pte(e, va)] # NoPage /\ mm.slot[Pte(e, va)] = mm.slot[Pte(f, w)]

SameKind(mm) ==
    \A e, f \in Envs : \A va, w \in Lasting :
        Common(mm, e, va, f, w) => va = w \/ (va \in Data /\ w \in Data)

\* The places where f has a page of its child's stack and may write it
Making(f, w, va) ==
    \/ pc[f] = "panic"
    \/ pc[f] = "dup_self" /\ w = va /\ va = pnum[f]
    \/ pc[f] \in {"v0_copy", "v0_unmap"} /\ w = UTEMP

Writes(f) ==
    \A e \in Envs, va \in Stacks, w \in VAs :
        e # f /\ Common(m, e, va, f, w) /\ "W" \in m.perm[f][w] => child[f] = e /\ Making(f, w, va)

\* What pgfault has at PFTEMP is its own until it is mapped
Temporary(f) ==
    /\ m.slot[Pte(f, UTEMP)] # NoPage => pc[f] \in {"v0_copy", "v0_unmap", "panic"}
    /\ m.slot[Pte(f, PFTEMP)] # NoPage =>
          /\ faults[f] # <<>> /\ Top(f).at # "return"
          /\ Top(f).at # "unmap" =>
                \A e \in Envs, w \in VAs : Common(m, f, PFTEMP, e, w) => e = f /\ w = PFTEMP

Own(f) == Writes(f) /\ Temporary(f)

Places(f) ==
    /\ \A i \in 1..Len(faults[f]) : faults[f][i].va \in Lasting
    /\ pc[f] \in {"v0_map", "v0_copy"} => pnum[f] \in Lasting
    /\ env_ipc_dstva[f] \in Data \cup {0}
    /\ child[f] \in Envs => pc[child[f]] = "user"

Sharing == SameKind(m) /\ \A f \in Envs : Own(f) /\ Places(f)
StackInv == IInv /\ Sharing

-----------------------------------------------------------------------------
(***************************************************************************)
(* What the calls of the kernel do to the tables.                          *)
(***************************************************************************)

\* Only the entry of e at va changes: it has page p now
Sets(mm, nn, e, va, p, perm) ==
    /\ nn.slot[Pte(e, va)] = p /\ nn.perm[e][va] = perm
    /\ \A f \in Envs, w \in VAs : <<f, w>> # <<e, va>> =>
          nn.slot[Pte(f, w)] = mm.slot[Pte(f, w)] /\ nn.perm[f][w] = mm.perm[f][w]

\* Some entries are empty now; no other changes
Fewer(mm, nn) ==
    \A f \in Envs, w \in VAs :
        \/ nn.slot[Pte(f, w)] = NoPage
        \/ nn.slot[Pte(f, w)] = mm.slot[Pte(f, w)] /\ nn.perm[f][w] = mm.perm[f][w]

LEMMA SameFewer ==
    ASSUME NEW mm, NEW nn, SameTables(mm, nn)
    PROVE  Fewer(mm, nn)
BY SlotFacts DEF SameTables, Fewer

LEMMA RemoveFewer ==
    ASSUME NEW mm, MemInv(mm, NoPage, NoPage), NEW e \in Envs, NEW va \in VAs
    PROVE  LET nn == page_remove(mm, e, va)
           IN  /\ Fewer(mm, nn)
               /\ nn.slot[Pte(e, va)] = NoPage
               /\ \A f \in Envs, w \in VAs : <<f, w>> # <<e, va>> =>
                     nn.slot[Pte(f, w)] = mm.slot[Pte(f, w)] /\ nn.perm[f][w] = mm.perm[f][w]
<1> DEFINE nn == page_remove(mm, e, va)
<1>1. /\ nn.slot[Pte(e, va)] = NoPage
      /\ \A s \in Slots : s # Pte(e, va) => nn.slot[s] = mm.slot[s]
  <2>1. nn.slot[Pte(e, va)] = NoPage
    <3>1. MemInv(nn, NoPage, NoPage) /\ nn.slot[Pte(e, va)] = NoPage
      BY RemoveInv
    <3> QED
      BY <3>1
  <2>2. ASSUME NEW s \in Slots, s # Pte(e, va)
        PROVE  nn.slot[s] = mm.slot[s]
    BY <2>2, RemoveInv
  <2> QED
    BY <2>1, <2>2
<1>2. ASSUME NEW f \in Envs, NEW w \in VAs, <<f, w>> # <<e, va>>
      PROVE  nn.perm[f][w] = mm.perm[f][w]
  <2>1. mm.perm \in [Envs -> [VAs -> SUBSET Bits]] /\ mm \in MemType
    BY DEF MemInv, MemType
  <2> QED
    BY <1>2, <2>1 DEF page_remove, page_decref, MemType
<1> HIDE DEF nn
<1>3. ASSUME NEW f \in Envs, NEW w \in VAs, <<f, w>> # <<e, va>>
      PROVE  nn.slot[Pte(f, w)] = mm.slot[Pte(f, w)] /\ nn.perm[f][w] = mm.perm[f][w]
  BY <1>1, <1>2, <1>3, SlotFacts
<1>4. Fewer(mm, nn)
  <2> SUFFICES ASSUME NEW f \in Envs, NEW w \in VAs
               PROVE  \/ nn.slot[Pte(f, w)] = NoPage
                      \/ nn.slot[Pte(f, w)] = mm.slot[Pte(f, w)] /\ nn.perm[f][w] = mm.perm[f][w]
    BY DEF Fewer
  <2>1. CASE f = e /\ w = va
    BY <1>1, <2>1
  <2>2. CASE ~(f = e /\ w = va)
    BY <1>3, <2>2
  <2> QED
    BY <2>1, <2>2
<1> QED
  BY <1>1, <1>3, <1>4 DEF nn

LEMMA FreeFewer ==
    ASSUME NEW mm, MemInv(mm, NoPage, NoPage), NEW e \in Envs
    PROVE  /\ Fewer(mm, env_free(mm, e))
           /\ \A w \in VAs : env_free(mm, e).slot[Pte(e, w)] = NoPage
<1> DEFINE nn == env_free(mm, e)
<1>1. Apart(mm, nn, e) /\ \A s \in Slots : s[1] = e => nn.slot[s] = NoPage
  BY EnvFreeApart, EnvFreeInv
<1> HIDE DEF nn
<1>2. Fewer(mm, nn) /\ \A w \in VAs : nn.slot[Pte(e, w)] = NoPage
  BY <1>1, SlotFacts DEF Apart, OnlySlotsOf, Fewer
<1> QED
  BY <1>2 DEF nn

LEMMA SetupFewer ==
    ASSUME NEW mm, MemInv(mm, NoPage, NoPage), NEW e \in Envs,
           \A s \in Slots : s[1] = e => mm.slot[s] = NoPage
    PROVE  SameTables(mm, env_setup_vm(mm, e).m)
<1> DEFINE p == FreePage(mm)
           nn == [page_alloc(mm) EXCEPT !.pp_ref[p] = @ + 1, !.slot[Pgdir(e)] = p]
<1>1. CASE mm.page_free_list = {}
  BY <1>1 DEF env_setup_vm, Fail, SameTables
<1>2. CASE mm.page_free_list # {}
  <2>1. nn.slot = [mm.slot EXCEPT ![Pgdir(e)] = p] /\ nn.perm = mm.perm
    <3>1. mm \in MemType /\ Pgdir(e) \in Slots
      BY SlotFacts DEF MemInv
    <3> QED
      BY <1>2, <3>1, TableShape
  <2>2. env_setup_vm(mm, e).m = nn
    BY <1>2 DEF env_setup_vm, Ok
  <2>3. mm.slot \in [Slots -> Pages \cup {NoPage}]
    BY DEF MemInv, MemType
  <2> HIDE DEF nn, p
  <2> QED
    BY <2>1, <2>2, <2>3, SlotFacts DEF SameTables
<1> QED
  BY <1>1, <1>2

LEMMA InsertSets ==
    ASSUME NEW mm, NEW p \in Pages, NEW x \in {p, NoPage}, MemInv(mm, x, NoPage),
           NEW e \in Envs, NEW va \in VAs, NEW perm \in SUBSET Bits,
           ~page_insert(mm, e, p, va, perm).err
    PROVE  Sets(mm, page_insert(mm, e, p, va, perm).m, e, va, p, perm)
<1> DEFINE w == pgdir_walk(mm, e, va)
           v == [w EXCEPT !.pp_ref[p] = @ + 1]
           u == page_remove(v, e, va)
           n == [u EXCEPT !.slot[Pte(e, va)] = p, !.perm[e][va] = perm]
           r == page_insert(mm, e, p, va, perm)
<1>1. /\ MemInv(w, x, NoPage) /\ w.perm = mm.perm
      /\ \A s \in Slots : s # Pde(e, va) => w.slot[s] = mm.slot[s]
  BY WalkInv
<1>2. w \in MemType
  BY <1>1 DEF MemInv
<1>3. r = IF w.slot[Pde(e, va)] = NoPage THEN Fail(w) ELSE Ok(n)
  BY DEF page_insert
<1>4. r.m = n
  BY <1>3 DEF Ok, Fail
<1> HIDE DEF w, r
<1>5. /\ n.slot[Pte(e, va)] = p /\ n.perm[e][va] = perm
      /\ \A s \in Slots : s # Pte(e, va) => n.slot[s] = w.slot[s]
      /\ \A f \in Envs, a \in VAs : <<f, a>> # <<e, va>> => n.perm[f][a] = w.perm[f][a]
  <2>1. /\ w.slot \in [Slots -> Pages \cup {NoPage}] /\ w.perm \in [Envs -> [VAs -> SUBSET Bits]]
        /\ v.perm = w.perm /\ v.slot = w.slot
        /\ v \in [slot : [Slots -> Pages \cup {NoPage}], perm : [Envs -> [VAs -> SUBSET Bits]],
                  pp_ref : [Pages -> Nat], page_free_list : SUBSET Pages, data : [Pages -> Vals],
                  unlisted : SUBSET Pages]
    <3>1. w.pp_ref \in [Pages -> Nat] /\ w.pp_ref[p] + 1 \in Nat
      BY <1>2 DEF MemType
    <3>2. [w.pp_ref EXCEPT ![p] = @ + 1] \in [Pages -> Nat]
      BY <3>1
    <3>3. v = [w EXCEPT !.pp_ref = [w.pp_ref EXCEPT ![p] = @ + 1]]
      BY <1>2, <3>1 DEF MemType
    <3> HIDE DEF v
    <3> QED
      BY <1>2, <3>2, <3>3 DEF MemType
  <2> HIDE DEF v
  <2>2. /\ u.slot = v.slot \/ u.slot = [v.slot EXCEPT ![Pte(e, va)] = NoPage]
        /\ u.perm = v.perm \/ u.perm = [v.perm EXCEPT ![e][va] = {}]
    BY <2>1 DEF page_remove, page_decref
  <2>3. n.slot = [u.slot EXCEPT ![Pte(e, va)] = p] /\ n.perm = [u.perm EXCEPT ![e][va] = perm]
    BY DEF page_remove, page_decref
  <2> HIDE DEF u, n
  <2>4. n.slot[Pte(e, va)] = p /\ \A s \in Slots : s # Pte(e, va) => n.slot[s] = w.slot[s]
    BY <2>1, <2>2, <2>3, SlotFacts
  <2>5. n.perm[e][va] = perm
    BY <2>1, <2>2, <2>3
  <2>6. ASSUME NEW f \in Envs, NEW a \in VAs, <<f, a>> # <<e, va>>
        PROVE  n.perm[f][a] = w.perm[f][a]
    BY <2>1, <2>2, <2>3, <2>6
  <2> QED
    BY <2>4, <2>5, <2>6
<1> HIDE DEF n
<1>6. Sets(mm, n, e, va, p, perm)
  BY <1>1, <1>5, SlotFacts DEF Sets
<1> QED
  BY <1>4, <1>6 DEF r

\* A page that is allocated is nobody else's.
LEMMA AllocSets ==
    ASSUME NEW mm, MemInv(mm, NoPage, NoPage), NEW e \in Envs, NEW va \in VAs, NEW perm \in SUBSET Bits
    PROVE  LET r == env_page_alloc(mm, e, va, perm)
           IN  /\ r.err => SameTables(mm, r.m)
               /\ ~r.err => \E p \in Pages : /\ \A s \in Slots : mm.slot[s] # p
                                             /\ Sets(mm, r.m, e, va, p, perm)
<1> DEFINE p == FreePage(mm)
           aa == page_alloc(mm)
           i == page_insert(aa, e, p, va, perm)
           r == env_page_alloc(mm, e, va, perm)
<1>1. r.err => SameTables(mm, r.m)
  BY PageAllocInv DEF SameTables
<1>2. ASSUME ~r.err
      PROVE  \E q \in Pages : (\A s \in Slots : mm.slot[s] # q) /\ Sets(mm, r.m, e, va, q, perm)
  <2>1. mm.page_free_list # {} /\ ~i.err /\ r.m = i.m
    BY <1>2 DEF env_page_alloc, Fail
  <2>2. p \in mm.page_free_list /\ p \in Pages /\ aa.slot = mm.slot /\ aa.perm = mm.perm /\ MemInv(aa, p, NoPage)
    BY <2>1, AllocShape, AllocInv DEF MemInv
  <2>3. \A s \in Slots : mm.slot[s] # p
    BY <2>2 DEF MemInv, ListExact, Users
  <2> HIDE DEF p, aa, r
  <2>4. Sets(aa, i.m, e, va, p, perm)
    BY <2>1, <2>2, InsertSets
  <2> HIDE DEF i
  <2> QED
    BY <2>1, <2>2, <2>3, <2>4 DEF Sets
<1> QED
  BY <1>1, <1>2

LEMMA MapSets ==
    ASSUME NEW mm, MemInv(mm, NoPage, NoPage), NEW src \in Envs, NEW srcva \in VAs,
           NEW dst \in Envs, NEW dstva \in VAs, NEW perm \in SUBSET Bits
    PROVE  LET r == env_page_map(mm, src, srcva, dst, dstva, perm)
           IN  /\ r.err => SameTables(mm, r.m)
               /\ ~r.err => /\ Sets(mm, r.m, dst, dstva, mm.slot[Pte(src, srcva)], perm)
                            /\ mm.slot[Pte(src, srcva)] # NoPage
                            /\ "W" \in perm => "W" \in mm.perm[src][srcva]
<1> DEFINE p == PageAt(mm, src, srcva)
           r == env_page_map(mm, src, srcva, dst, dstva, perm)
<1>1. r.err => SameTables(mm, r.m)
  BY PageMapInv DEF SameTables
<1>2. ASSUME ~r.err
      PROVE  /\ Sets(mm, r.m, dst, dstva, mm.slot[Pte(src, srcva)], perm)
             /\ mm.slot[Pte(src, srcva)] # NoPage
             /\ "W" \in perm => "W" \in mm.perm[src][srcva]
  <2>1. Mapped(mm, src, srcva) /\ ("W" \in perm => "W" \in mm.perm[src][srcva])
    BY <1>2 DEF env_page_map, Fail
  <2>2. r = page_insert(mm, dst, p, dstva, perm)
    BY <2>1 DEF env_page_map
  <2>3. p \in Pages /\ p = mm.slot[Pte(src, srcva)] /\ p # NoPage
    BY <2>1, SlotFacts DEF MemInv, MemType, Mapped, PageAt
  <2> HIDE DEF p, r
  <2>4. Sets(mm, r.m, dst, dstva, p, perm)
    BY <1>2, <2>2, <2>3, InsertSets
  <2> QED
    BY <2>1, <2>3, <2>4
<1> QED
  BY <1>1, <1>2

-----------------------------------------------------------------------------
(***************************************************************************)
(* What each kind of change does to who shares what.                       *)
(***************************************************************************)

Writing == {"dup_self", "v0_copy", "v0_unmap", "panic"}

Stays(f) ==
    /\ child'[f] = child[f]
    /\ pc'[f] = "panic" \/ (pc'[f] = pc[f] /\ pnum'[f] = pnum[f])

\* A step after which f has no memory, or does with the pages it writes what
\* it did before
Steady(f) ==
    \/ \A w \in VAs : m'.slot[Pte(f, w)] = NoPage
    \/ /\ faults'[f] = faults[f]
       /\ \/ pc[f] \notin Writing
          \/ Stays(f)

LEMMA Kinds ==
    /\ Lasting \subseteq VAs /\ Stacks \subseteq Lasting /\ Data \subseteq Lasting
    /\ Data \cap Stacks = {} /\ STACK # UXSTACK
    /\ PFTEMP \notin Lasting /\ UTEMP \notin Lasting /\ PFTEMP # UTEMP
    /\ PFTEMP \in VAs /\ UTEMP \in VAs
BY NDataAssumption DEF Lasting, Stacks, Data, STACK, UXSTACK, PFTEMP, UTEMP, VAs

LEMMA SteadyMaking ==
    ASSUME NEW f \in Envs, NEW w, NEW va, Making(f, w, va), NEW e, child[f] = e,
           \/ pc[f] \notin Writing
           \/ Stays(f)
    PROVE  child'[f] = e /\ Making(f, w, va)'
BY DEF Making, Writing, Stays

\* An environment without pages shares none.
LEMMA GoneOwn ==
    ASSUME NEW f \in Envs, \A w \in VAs : m'.slot[Pte(f, w)] = NoPage
    PROVE  Own(f)'
<1>1. Temporary(f)'
  BY Kinds DEF Temporary
<1>2. Writes(f)'
  BY DEF Writes, Common
<1> QED
  BY <1>1, <1>2 DEF Own

LEMMA FewerKeeps ==
    ASSUME SameKind(m), Fewer(m, m')
    PROVE  /\ SameKind(m')
           /\ \A f \in Envs : Own(f) /\ Steady(f) => Own(f)'
<1>1. ASSUME NEW e \in Envs, NEW va \in VAs, NEW f \in Envs, NEW w \in VAs, Common(m', e, va, f, w)
      PROVE  Common(m, e, va, f, w) /\ m'.perm[f][w] = m.perm[f][w]
  BY <1>1 DEF Common, Fewer
<1>2. SameKind(m')
  BY <1>1, Kinds DEF SameKind
<1>3. ASSUME NEW f \in Envs, Own(f), Steady(f), ~(\A w \in VAs : m'.slot[Pte(f, w)] = NoPage)
      PROVE  Own(f)'
  <2>1. /\ faults'[f] = faults[f]
        /\ \/ pc[f] \notin Writing
           \/ Stays(f)
    BY <1>3 DEF Steady
  <2>2. Temporary(f)'
    <3>1. m'.slot[Pte(f, UTEMP)] # NoPage => pc'[f] \in {"v0_copy", "v0_unmap", "panic"}
      BY <1>3, <2>1, Kinds DEF Own, Temporary, Fewer, Writing, Stays
    <3>2. ASSUME m'.slot[Pte(f, PFTEMP)] # NoPage
          PROVE  /\ faults[f] # <<>> /\ Top(f).at # "return"
                 /\ Top(f).at # "unmap" =>
                       \A e \in Envs, w \in VAs : Common(m', f, PFTEMP, e, w) => e = f /\ w = PFTEMP
      <4>1. m.slot[Pte(f, PFTEMP)] # NoPage
        BY <3>2, Kinds DEF Fewer
      <4> QED
        BY <1>1, <1>3, <4>1, Kinds DEF Own, Temporary
    <3> QED
      BY <2>1, <3>1, <3>2 DEF Temporary, Top
  <2>3. Writes(f)'
    <3> SUFFICES ASSUME NEW e \in Envs, NEW va \in Stacks, NEW w \in VAs,
                        e # f, Common(m', e, va, f, w), "W" \in m'.perm[f][w]
                 PROVE  child'[f] = e /\ Making(f, w, va)'
      BY DEF Writes
    <3>1. child[f] = e /\ Making(f, w, va)
      BY <1>1, <1>3, Kinds DEF Own, Writes
    <3> QED
      BY <2>1, <3>1, SteadyMaking
  <2> QED
    BY <2>2, <2>3 DEF Own
<1> QED
  BY <1>2, <1>3, GoneOwn

LEMMA FreshKeeps ==
    ASSUME SameKind(m), NEW x \in Envs, NEW v \in VAs, NEW p \in Pages, NEW perm,
           \A f \in Envs, w \in VAs : m.slot[Pte(f, w)] = p => f = x /\ w \notin Lasting,
           Sets(m, m', x, v, p, perm)
    PROVE  /\ SameKind(m')
           /\ \A f \in Envs :
                 /\ Own(f) /\ Steady(f)
                 /\ f = x => v \in Lasting /\ \A w \in VAs : m.slot[Pte(x, w)] # p
                 => Own(f)'
           /\ Own(x) /\ pc'[x] = pc[x] /\ child'[x] = child[x] /\ pnum'[x] = pnum[x]
                 => Writes(x)'
<1>1. ASSUME NEW e \in Envs, NEW va \in VAs, NEW f \in Envs, NEW w \in VAs, Common(m', e, va, f, w)
      PROVE  \/ e = x /\ (va = v \/ va \notin Lasting) /\ f = x /\ (w = v \/ w \notin Lasting)
                /\ ((\A z \in VAs : m.slot[Pte(x, z)] # p) => va = v /\ w = v)
             \/ Common(m, e, va, f, w) /\ m'.perm[f][w] = m.perm[f][w]
  BY <1>1 DEF Common, Sets
<1>2. SameKind(m')
  BY <1>1, Kinds DEF SameKind
<1>3. ASSUME NEW f \in Envs, Own(f), Steady(f),
             f = x => v \in Lasting /\ \A w \in VAs : m.slot[Pte(x, w)] # p,
             ~(\A w \in VAs : m'.slot[Pte(f, w)] = NoPage)
      PROVE  Own(f)'
  <2>1. /\ faults'[f] = faults[f]
        /\ \/ pc[f] \notin Writing
           \/ Stays(f)
    BY <1>3 DEF Steady
  <2>2. /\ m'.slot[Pte(f, UTEMP)] = m.slot[Pte(f, UTEMP)]
        /\ m'.slot[Pte(f, PFTEMP)] = m.slot[Pte(f, PFTEMP)]
    BY <1>3, Kinds DEF Sets
  <2>3. Temporary(f)'
    <3>1. m'.slot[Pte(f, UTEMP)] # NoPage => pc'[f] \in {"v0_copy", "v0_unmap", "panic"}
      BY <1>3, <2>1, <2>2 DEF Own, Temporary, Writing, Stays
    <3>2. ASSUME m'.slot[Pte(f, PFTEMP)] # NoPage
          PROVE  /\ faults[f] # <<>> /\ Top(f).at # "return"
                 /\ Top(f).at # "unmap" =>
                       \A e \in Envs, w \in VAs : Common(m', f, PFTEMP, e, w) => e = f /\ w = PFTEMP
      BY <1>1, <1>3, <2>2, <3>2, Kinds DEF Own, Temporary
    <3> QED
      BY <2>1, <3>1, <3>2 DEF Temporary, Top
  <2>4. Writes(f)'
    <3> SUFFICES ASSUME NEW e \in Envs, NEW va \in Stacks, NEW w \in VAs,
                        e # f, Common(m', e, va, f, w), "W" \in m'.perm[f][w]
                 PROVE  child'[f] = e /\ Making(f, w, va)'
      BY DEF Writes
    <3>1. child[f] = e /\ Making(f, w, va)
      BY <1>1, <1>3, Kinds DEF Own, Writes
    <3> QED
      BY <2>1, <3>1, SteadyMaking
  <2> QED
    BY <2>3, <2>4 DEF Own
<1>4. ASSUME Own(x), pc'[x] = pc[x], child'[x] = child[x], pnum'[x] = pnum[x]
      PROVE  Writes(x)'
  <2> SUFFICES ASSUME NEW e \in Envs, NEW va \in Stacks, NEW w \in VAs,
                      e # x, Common(m', e, va, x, w), "W" \in m'.perm[x][w]
               PROVE  child'[x] = e /\ Making(x, w, va)'
    BY DEF Writes
  <2>1. child[x] = e /\ Making(x, w, va)
    BY <1>1, <1>4, Kinds DEF Own, Writes
  <2> QED
    BY <1>4, <2>1 DEF Making
<1> QED
  BY <1>2, <1>3, <1>4, GoneOwn

\* x gets at v what y has at u.
LEMMA CopyKeeps ==
    ASSUME SameKind(m), NEW x \in Envs, NEW v \in VAs, NEW y \in Envs, NEW u \in Lasting, NEW perm,
           m.slot[Pte(y, u)] # NoPage, Sets(m, m', x, v, m.slot[Pte(y, u)], perm),
           v \in Lasting => v = u \/ (v \in Data /\ u \in Data)
    PROVE  /\ SameKind(m')
           /\ \A f \in Envs :
                 /\ Own(f) /\ Steady(f)
                 /\ f = x => v \in Lasting /\ ("W" \notin perm \/ u \in Data)
                 /\ v \in Stacks => f # y /\ child[f] # y
                 => Own(f)'
<1>1. ASSUME NEW e \in Envs, NEW va \in VAs, NEW f \in Envs, NEW w \in VAs, Common(m', e, va, f, w)
      PROVE  /\ e = x /\ va = v /\ ~(f = x /\ w = v) => Common(m, y, u, f, w)
             /\ f = x /\ w = v /\ ~(e = x /\ va = v) => Common(m, e, va, y, u)
             /\ ~(e = x /\ va = v) /\ ~(f = x /\ w = v) => Common(m, e, va, f, w)
             /\ ~(f = x /\ w = v) => m'.perm[f][w] = m.perm[f][w]
             /\ f = x /\ w = v => m'.perm[f][w] = perm
  BY <1>1 DEF Common, Sets
<1>2. SameKind(m')
  <2> SUFFICES ASSUME NEW e \in Envs, NEW f \in Envs, NEW va \in Lasting, NEW w \in Lasting,
                      Common(m', e, va, f, w)
               PROVE  va = w \/ (va \in Data /\ w \in Data)
    BY DEF SameKind
  <2>1. va \in VAs /\ w \in VAs
    BY Kinds
  <2>2. CASE e = x /\ va = v /\ ~(f = x /\ w = v)
    <3>1. u = w \/ (u \in Data /\ w \in Data)
      BY <1>1, <2>1, <2>2 DEF SameKind
    <3> QED
      BY <2>2, <3>1
  <2>3. CASE f = x /\ w = v /\ ~(e = x /\ va = v)
    <3>1. va = u \/ (va \in Data /\ u \in Data)
      BY <1>1, <2>1, <2>3 DEF SameKind
    <3> QED
      BY <2>3, <3>1
  <2>4. CASE ~(e = x /\ va = v) /\ ~(f = x /\ w = v)
    BY <1>1, <2>1, <2>4 DEF SameKind
  <2> QED
    BY <2>2, <2>3, <2>4
<1>3. ASSUME NEW f \in Envs, Own(f), Steady(f),
             f = x => v \in Lasting /\ ("W" \notin perm \/ u \in Data),
             v \in Stacks => f # y /\ child[f] # y,
             ~(\A w \in VAs : m'.slot[Pte(f, w)] = NoPage)
      PROVE  Own(f)'
  <2>1. /\ faults'[f] = faults[f]
        /\ \/ pc[f] \notin Writing
           \/ Stays(f)
    BY <1>3 DEF Steady
  <2>2. /\ m'.slot[Pte(f, UTEMP)] = m.slot[Pte(f, UTEMP)]
        /\ m'.slot[Pte(f, PFTEMP)] = m.slot[Pte(f, PFTEMP)]
    BY <1>3, Kinds DEF Sets
  <2>3. Temporary(f)'
    <3>1. m'.slot[Pte(f, UTEMP)] # NoPage => pc'[f] \in {"v0_copy", "v0_unmap", "panic"}
      BY <1>3, <2>1, <2>2 DEF Own, Temporary, Writing, Stays
    <3>2. ASSUME m'.slot[Pte(f, PFTEMP)] # NoPage
          PROVE  /\ faults[f] # <<>> /\ Top(f).at # "return"
                 /\ Top(f).at # "unmap" =>
                       \A e \in Envs, w \in VAs : Common(m', f, PFTEMP, e, w) => e = f /\ w = PFTEMP
      <4>1. /\ faults[f] # <<>> /\ Top(f).at # "return"
            /\ Top(f).at # "unmap" =>
                  \A e \in Envs, w \in VAs : Common(m, f, PFTEMP, e, w) => e = f /\ w = PFTEMP
        BY <1>3, <2>2, <3>2 DEF Own, Temporary
      <4>2. ASSUME Top(f).at # "unmap", NEW e \in Envs, NEW w \in VAs, Common(m', f, PFTEMP, e, w)
            PROVE  e = f /\ w = PFTEMP
        <5>1. ~(f = x /\ PFTEMP = v) /\ PFTEMP \in VAs /\ u \in VAs /\ u # PFTEMP
          BY <1>3, Kinds
        <5>2. CASE e = x /\ w = v
          <6>1. Common(m, f, PFTEMP, y, u)
            BY <1>1, <4>2, <5>1, <5>2
          <6> QED
            BY <4>1, <4>2, <5>1, <6>1
        <5>3. CASE ~(e = x /\ w = v)
          BY <1>1, <4>1, <4>2, <5>1, <5>3
        <5> QED
          BY <5>2, <5>3
      <4> QED
        BY <4>1, <4>2
    <3> QED
      BY <2>1, <3>1, <3>2 DEF Temporary, Top
  <2>4. Writes(f)'
    <3> SUFFICES ASSUME NEW e \in Envs, NEW va \in Stacks, NEW w \in VAs,
                        e # f, Common(m', e, va, f, w), "W" \in m'.perm[f][w]
                 PROVE  child'[f] = e /\ Making(f, w, va)'
      BY DEF Writes
    <3>0. va \in VAs /\ va \in Lasting /\ va \notin Data /\ u \in VAs
      BY Kinds
    <3>1. CASE e = x /\ va = v
      <4>1. Common(m, y, u, f, w) /\ "W" \in m.perm[f][w] /\ u = v
        BY <1>1, <3>0, <3>1
      <4>2. child[f] = y
        BY <1>3, <3>1, <4>1 DEF Own, Writes
      <4> QED
        BY <1>3, <3>1, <4>2
    <3>2. CASE f = x /\ w = v
      <4>1. Common(m, e, va, y, u) /\ u \in Data
        BY <1>1, <1>3, <3>0, <3>2
      <4> QED
        BY <3>0, <4>1 DEF SameKind
    <3>3. CASE ~(e = x /\ va = v) /\ ~(f = x /\ w = v)
      <4>1. Common(m, e, va, f, w) /\ "W" \in m.perm[f][w]
        BY <1>1, <3>0, <3>3
      <4>2. child[f] = e /\ Making(f, w, va)
        BY <1>3, <4>1 DEF Own, Writes
      <4> QED
        BY <2>1, <4>2, SteadyMaking
    <3> QED
      BY <3>1, <3>2, <3>3
  <2> QED
    BY <2>3, <2>4 DEF Own
<1> QED
  BY <1>2, <1>3, GoneOwn

-----------------------------------------------------------------------------
(***************************************************************************)
(* The steps of the programs.                                              *)
(***************************************************************************)

\* Only e moves: the others are where they were.
Alone(e) ==
    \A f \in Envs \ {e} :
        faults'[f] = faults[f] /\ pc'[f] = pc[f] /\ pnum'[f] = pnum[f] /\ child'[f] = child[f]

LEMMA PlacesKeep ==
    ASSUME Sharing, NEW e \in Envs, \A g \in Envs : child[g] # e, Alone(e),
           \A f \in Envs : env_ipc_dstva'[f] \in Data \cup {0},
           \A i \in 1..Len(faults'[e]) : faults'[e][i].va \in Lasting,
           pc'[e] \in {"v0_map", "v0_copy"} => pnum'[e] \in Lasting,
           child'[e] \in {child[e], NoEnv}
    PROVE  \A f \in Envs : Places(f)'
<1> SUFFICES ASSUME NEW f \in Envs
             PROVE  Places(f)'
  OBVIOUS
<1>1. Places(f)
  BY DEF Sharing
<1>2. child'[f] \in Envs => child'[f] = child[f] /\ child'[f] # e
  BY NoEnvAssumption DEF Alone
<1>3. child'[f] \in Envs => pc'[child'[f]] = "user"
  BY <1>1, <1>2 DEF Places, Alone
<1>4. CASE f = e
  BY <1>3, <1>4 DEF Places
<1>5. CASE f # e
  BY <1>1, <1>3, <1>5 DEF Places, Alone
<1> QED
  BY <1>4, <1>5

\* What most steps do with the tables: entries go, or a new page comes, or one
\* of the program is passed to where another of the program is.
Ordinary ==
    \/ Fewer(m, m')
    \/ \E x \in Envs, v \in Lasting, p \in Pages, perm \in SUBSET Bits :
          (\A s \in Slots : m.slot[s] # p) /\ Sets(m, m', x, v, p, perm)
    \/ \E x, y \in Envs, v, u \in Data, perm \in SUBSET Bits :
          m.slot[Pte(y, u)] # NoPage /\ Sets(m, m', x, v, m.slot[Pte(y, u)], perm)

LEMMA OrdinaryKeeps ==
    ASSUME Sharing, Ordinary, \A f \in Envs : Steady(f)
    PROVE  SameKind(m') /\ \A f \in Envs : Own(f)'
<1>1. SameKind(m) /\ \A f \in Envs : Own(f)
  BY DEF Sharing
<1>2. CASE Fewer(m, m')
  BY <1>1, <1>2, FewerKeeps
<1>3. ASSUME NEW x \in Envs, NEW v \in Lasting, NEW p \in Pages, NEW perm \in SUBSET Bits,
             \A s \in Slots : m.slot[s] # p, Sets(m, m', x, v, p, perm)
      PROVE  SameKind(m') /\ \A f \in Envs : Own(f)'
  <2>1. v \in VAs /\ \A f \in Envs, w \in VAs : m.slot[Pte(f, w)] # p
    BY <1>3, Kinds, SlotFacts
  <2> QED
    BY <1>1, <1>3, <2>1, FreshKeeps
<1>4. ASSUME NEW x \in Envs, NEW y \in Envs, NEW v \in Data, NEW u \in Data, NEW perm \in SUBSET Bits,
             m.slot[Pte(y, u)] # NoPage, Sets(m, m', x, v, m.slot[Pte(y, u)], perm)
      PROVE  SameKind(m') /\ \A f \in Envs : Own(f)'
  <2>1. v \in VAs /\ u \in Lasting /\ v \in Lasting /\ v \notin Stacks
    BY Kinds
  <2> QED
    BY <1>1, <1>4, <2>1, CopyKeeps
<1> QED
  BY <1>2, <1>3, <1>4 DEF Ordinary

LEMMA SteadyAll ==
    ASSUME NEW e \in Envs, Alone(e), faults'[e] = faults[e], pc[e] \notin Writing
    PROVE  \A f \in Envs : Steady(f)
BY DEF Alone, Stays, Steady

\* A step of e that is not in the middle of a page.
LEMMA PlainStep ==
    ASSUME StackInv, NEW e \in Envs, Running(e), Alone(e), faults'[e] = faults[e], pc[e] \notin Writing,
           \A f \in Envs : env_ipc_dstva'[f] \in Data \cup {0},
           pc'[e] \in {"v0_map", "v0_copy"} => pnum'[e] \in Lasting,
           child'[e] \in {child[e], NoEnv}, Ordinary
    PROVE  Sharing'
<1>1. IInv /\ Sharing /\ \A g \in Envs : child[g] # e
  BY RunningFacts DEF StackInv
<1>2. \A i \in 1..Len(faults'[e]) : faults'[e][i].va \in Lasting
  BY <1>1 DEF Sharing, Places
<1>3. \A f \in Envs : Places(f)'
  BY <1>1, <1>2, PlacesKeep
<1>4. SameKind(m') /\ \A f \in Envs : Own(f)'
  BY <1>1, OrdinaryKeeps, SteadyAll
<1> QED
  BY <1>3, <1>4 DEF Sharing

\* ... and one that changes nothing of where programs are.
LEMMA StillStep ==
    ASSUME Sharing, Ordinary, UNCHANGED <<pc, child, pnum, faults>>,
           \A f \in Envs : env_ipc_dstva'[f] \in Data \cup {0}
    PROVE  Sharing'
<1>1. SameKind(m') /\ \A f \in Envs : Own(f)'
  BY OrdinaryKeeps DEF Stays, Steady
<1>2. \A f \in Envs : Places(f)'
  BY DEF Sharing, Places
<1> QED
  BY <1>1, <1>2 DEF Sharing

LEMMA SameStep ==
    ASSUME Sharing, m'.slot = m.slot, m'.perm = m.perm, UNCHANGED <<progvars, faults, env_ipc_dstva>>
    PROVE  Sharing'
<1>1. Ordinary
  BY DEF Ordinary, Fewer
<1> QED
  BY <1>1, StillStep DEF progvars, Sharing, Places

LEMMA DestroyedSharing ==
    ASSUME StackInv, NEW x \in Envs, Destroyed(x), \A g \in Envs : child[g] # x
    PROVE  Sharing'
<1>1. IInv /\ Sharing /\ MemInv(m, NoPage, NoPage) /\ Types
  BY Parts DEF StackInv
<1>2. /\ m' = env_free(m, x)
      /\ pc' = [pc EXCEPT ![x] = "user"]
      /\ child' = [child EXCEPT ![x] = NoEnv]
      /\ pnum' = [pnum EXCEPT ![x] = 0]
      /\ faults' = [faults EXCEPT ![x] = <<>>]
      /\ env_ipc_dstva' = [env_ipc_dstva EXCEPT ![x] = 0]
  BY DEF Destroyed
<1>3. Fewer(m, m') /\ \A w \in VAs : m'.slot[Pte(x, w)] = NoPage
  BY <1>1, <1>2, FreeFewer
<1>4. Alone(x) /\ child'[x] = NoEnv /\ faults'[x] = <<>> /\ pc'[x] = "user"
  BY <1>1, <1>2 DEF Types, Alone
<1>5. \A f \in Envs : Steady(f)
  BY <1>3, <1>4 DEF Stays, Steady, Alone
<1>6. SameKind(m') /\ \A f \in Envs : Own(f)'
  BY <1>1, <1>3, <1>5, OrdinaryKeeps DEF Ordinary
<1>7. \A f \in Envs : env_ipc_dstva'[f] \in Data \cup {0}
  BY <1>1, <1>2 DEF Types, Sharing, Places
<1>8. \A i \in 1..Len(faults'[x]) : faults'[x][i].va \in Lasting
  BY <1>4
<1>9. \A f \in Envs : Places(f)'
  BY <1>1, <1>4, <1>7, <1>8, PlacesKeep
<1> QED
  BY <1>6, <1>9 DEF Sharing

\* A fault inside pgfault comes before anything is mapped or after it is unmapped.
LEMMA PageFaultSharing ==
    ASSUME StackInv, NEW e \in Envs, Running(e), NEW va \in Lasting, PageFault(e, va),
           faults[e] = <<>> \/ Top(e).at \in {"copy", "return"}
    PROVE  Sharing'
<1>1. IInv /\ Sharing /\ Types /\ \A g \in Envs : child[g] # e
  BY RunningFacts DEF StackInv
<1>2. CASE Destroyed(e)
  BY <1>1, <1>2, DestroyedSharing
<1>3. CASE ~Destroyed(e)
  <2> DEFINE frame == [va |-> va, at |-> "alloc"]
  <2>1. /\ UNCHANGED <<m, env_status, env_parent_id, env_pgfault_upcall, pgfault_handler, ipcvars, progvars>>
        /\ \/ faults' = [faults EXCEPT ![e] = Append(@, frame)]
           \/ UNCHANGED faults
    BY <1>3 DEF PageFault
  <2>2. Alone(e) /\ pc' = pc /\ child' = child /\ pnum' = pnum /\ env_ipc_dstva' = env_ipc_dstva
    BY <1>1, <2>1 DEF Alone, Types, progvars, ipcvars
  <2>3. Places(e) /\ Own(e) /\ \A f \in Envs : env_ipc_dstva[f] \in Data \cup {0}
    BY <1>1 DEF Sharing, Places
  <2>a. frame.at = "alloc" /\ frame.va = va /\ frame \in Frame
    BY Kinds DEF Frame
  <2> HIDE DEF frame
  <2>4. \/ faults'[e] = faults[e]
        \/ /\ faults'[e] = Append(faults[e], frame)
           /\ Len(faults'[e]) = Len(faults[e]) + 1 /\ Len(faults[e]) \in Nat
           /\ \A i \in 1..Len(faults[e]) : faults'[e][i] = faults[e][i]
           /\ faults'[e][Len(faults'[e])] = frame
    <3>1. faults[e] \in Seq(Frame)
      BY <1>1 DEF Types
    <3>2. faults'[e] = faults[e] \/ faults'[e] = Append(faults[e], frame)
      BY <1>1, <2>1 DEF Types
    <3>3. ASSUME faults'[e] = Append(faults[e], frame)
          PROVE  /\ Len(faults'[e]) = Len(faults[e]) + 1 /\ Len(faults[e]) \in Nat
                 /\ \A i \in 1..Len(faults[e]) : faults'[e][i] = faults[e][i]
                 /\ faults'[e][Len(faults'[e])] = frame
      <4>1. Len(faults[e]) \in Nat
        BY <3>1, LenProperties
      <4> QED
        BY <3>1, <3>3, <4>1, AppendProperties
    <3> QED
      BY <3>2, <3>3
  <2>5. \A i \in 1..Len(faults'[e]) : faults'[e][i].va \in Lasting
    BY <2>a, <2>3, <2>4 DEF Places
  <2>6. \A f \in Envs : Places(f)'
    BY <1>1, <2>2, <2>3, <2>5, PlacesKeep DEF Places
  <2>7. \A f \in Envs \ {e} : Steady(f)
    BY <2>2 DEF Stays, Steady, Alone
  <2>8. Fewer(m, m')
    BY <2>1 DEF Fewer
  <2>9. SameKind(m') /\ \A f \in Envs \ {e} : Own(f)'
    BY <1>1, <2>7, <2>8, FewerKeeps DEF Sharing
  <2>10. Own(e)'
    <3>1. Writes(e)'
      BY <2>1, <2>2, <2>3 DEF Own, Writes, Making
    <3>2. Temporary(e)'
      BY <2>a, <2>1, <2>2, <2>3, <2>4 DEF Own, Temporary, Top
    <3> QED
      BY <3>1, <3>2 DEF Own
  <2> QED
    BY <2>6, <2>9, <2>10 DEF Sharing
<1> QED
  BY <1>2, <1>3

LEMMA InitSharing ==
    ASSUME Init
    PROVE  Sharing
<1>1. PICK inuse \in InUse : m = page_init(inuse)
  BY DEF Init
<1>2. \A s \in Slots : m.slot[s] = NoPage
  BY <1>1 DEF page_init
<1>3. \A e \in Envs, va \in VAs : m.slot[Pte(e, va)] = NoPage
  BY <1>2, SlotFacts
<1>4. SameKind(m)
  BY <1>3, Kinds DEF SameKind, Common
<1>5. ASSUME NEW f \in Envs
      PROVE  Own(f) /\ Places(f)
  <2>1. /\ pc[f] = "user" /\ child[f] = NoEnv /\ faults[f] = <<>> /\ env_ipc_dstva[f] = 0
    BY DEF Init
  <2>2. Places(f)
    BY <2>1, NoEnvAssumption DEF Places
  <2>3. Own(f)
    BY <1>3, Kinds DEF Own, Writes, Temporary, Common
  <2> QED
    BY <2>2, <2>3
<1> QED
  BY <1>4, <1>5 DEF Sharing

LEMMA AllocOrdinary ==
    ASSUME IInv, NEW x \in Envs, NEW v \in Lasting, m' = env_page_alloc(m, x, v, {"W"}).m
    PROVE  Ordinary
<1> DEFINE r == env_page_alloc(m, x, v, {"W"})
<1>1. /\ r.err => SameTables(m, r.m)
      /\ ~r.err => \E p \in Pages : /\ \A s \in Slots : m.slot[s] # p
                                    /\ Sets(m, r.m, x, v, p, {"W"})
  BY Kinds, AllocSets DEF Bits, IInv
<1>2. {"W"} \in SUBSET Bits
  BY DEF Bits
<1> HIDE DEF r
<1>3. m' = r.m
  BY DEF r
<1> QED
  BY <1>1, <1>2, <1>3, SameFewer DEF Ordinary

LEMMA BootSharing ==
    ASSUME StackInv, NEW e \in Envs, EnvCreate(e) \/ LoadIcode(e)
    PROVE  Sharing'
<1>1. IInv /\ Sharing /\ MemInv(m, NoPage, NoPage) /\ FreeIsEmpty
  BY Parts DEF StackInv
<1>2. /\ UNCHANGED <<pc, child, pnum, faults>>
      /\ \A f \in Envs : env_ipc_dstva'[f] \in Data \cup {0}
  BY <1>1 DEF EnvCreate, LoadIcode, Booted, progvars, ipcvars, Sharing, Places
<1>3. Ordinary
  <2>1. CASE EnvCreate(e)
    <3>1. env_status[e] = "FREE" /\ m' = env_setup_vm(m, e).m
      BY <2>1 DEF EnvCreate, Booted
    <3>2. SameTables(m, m')
      BY <1>1, <3>1, SetupFewer DEF FreeIsEmpty
    <3> QED
      BY <3>2, SameFewer DEF Ordinary
  <2>2. CASE LoadIcode(e)
    <3> DEFINE missing == {va \in Data \cup {STACK} : ~Mapped(m, e, va)}
               va == First(missing)
    <3>1. missing # {} /\ m' = env_page_alloc(m, e, va, {"W"}).m
      BY <2>2 DEF LoadIcode, Booted, region_alloc
    <3>2. va \in Lasting
      <4>1. missing \in SUBSET VAs /\ missing \subseteq Lasting
        BY Kinds DEF Lasting, Stacks
      <4> QED
        BY <3>1, <4>1, FirstIn
    <3> HIDE DEF va
    <3> QED
      BY <1>1, <3>1, <3>2, AllocOrdinary
  <2> QED
    BY <2>1, <2>2
<1> QED
  BY <1>1, <1>2, <1>3, StillStep

\* The steps of a program but the sends and fork.
LEMMA ProgramSharing ==
    ASSUME StackInv, NEW e \in Envs,
           \/ StackFault(e)
           \/ \E va \in Data, v \in Vals : Write(e, va, v)
           \/ \E va \in Data : ReadUnmapped(e, va) \/ SysPageUnmap(e, va) \/ Cputs(e, va)
           \/ \E va \in Data \cup {0} : IpcRecv(e, va)
           \/ \E x \in Envs : SysEnvDestroy(e, x)
    PROVE  Sharing'
<1>1. /\ IInv /\ Sharing /\ MemInv(m, NoPage, NoPage) /\ Types /\ ForkOwnsChild /\ m \in MemType
      /\ \A f \in Envs : env_ipc_dstva[f] \in Data \cup {0}
  BY Parts DEF StackInv, MemInv, Sharing, Places
<1>2. Running(e) /\ faults[e] = <<>> /\ \A f \in Envs : child[f] # e
  <2>1. Running(e) /\ faults[e] = <<>>
    BY DEF StackFault, Write, ReadUnmapped, SysPageUnmap, Cputs, IpcRecv, SysEnvDestroy, At, CanCall, AtStack
  <2> QED
    BY <1>1, <2>1, RunningFacts
<1>3. CASE StackFault(e)
  BY <1>2, <1>3, PageFaultSharing, Kinds DEF StackFault, Stacks
<1>4. ASSUME NEW va \in Data, NEW v \in Vals, Write(e, va, v)
      PROVE  Sharing'
  <2>1. CASE PageFault(e, va)
    BY <1>2, <2>1, PageFaultSharing, Kinds
  <2>2. CASE ~PageFault(e, va)
    <3>1. /\ m' = [m EXCEPT !.data[PageAt(m, e, va)] = v]
          /\ UNCHANGED <<progvars, faults, env_ipc_dstva>>
      BY <1>4, <2>2 DEF Write
    <3>2. m'.slot = m.slot /\ m'.perm = m.perm
      BY <1>1, <3>1, StoreInv
    <3> QED
      BY <1>1, <3>1, <3>2, SameStep
  <2> QED
    BY <2>1, <2>2
<1>5. ASSUME NEW va \in Data, ReadUnmapped(e, va)
      PROVE  Sharing'
  BY <1>2, <1>5, PageFaultSharing, Kinds DEF ReadUnmapped
<1>6. ASSUME NEW va \in Data, Cputs(e, va)
      PROVE  Sharing'
  BY <1>2, <1>6, DestroyedSharing DEF Cputs
<1>7. ASSUME NEW va \in Data, SysPageUnmap(e, va)
      PROVE  Sharing'
  <2>1. m' = page_remove(m, e, va) /\ UNCHANGED <<pc, child, pnum, faults, env_ipc_dstva>>
    BY <1>7 DEF SysPageUnmap, progvars, ipcvars
  <2>2. Fewer(m, m')
    BY <1>1, <2>1, RemoveFewer, Kinds
  <2> QED
    BY <1>1, <2>1, <2>2, StillStep DEF Ordinary
<1>8. ASSUME NEW va \in Data \cup {0}, IpcRecv(e, va)
      PROVE  Sharing'
  <2>1. m' = m /\ UNCHANGED <<pc, child, pnum, faults>>
        /\ env_ipc_dstva' = [env_ipc_dstva EXCEPT ![e] = va]
    BY <1>8 DEF IpcRecv, progvars
  <2>2. \A f \in Envs : env_ipc_dstva'[f] \in Data \cup {0}
    BY <1>1, <2>1 DEF Types
  <2>3. Ordinary
    BY <2>1 DEF Ordinary, Fewer
  <2> QED
    BY <1>1, <2>1, <2>2, <2>3, StillStep
<1>9. ASSUME NEW x \in Envs, SysEnvDestroy(e, x)
      PROVE  Sharing'
  <2>1. Destroyed(x) /\ pc[e] = "user" /\ (x = e \/ env_parent_id[x] = e)
    BY <1>9 DEF SysEnvDestroy, At
  <2>2. \A f \in Envs : child[f] # x
    BY <1>1, <1>2, <2>1 DEF ForkOwnsChild, Loops
  <2> QED
    BY <2>1, <2>2, DestroyedSharing
<1> QED
  BY <1>3, <1>4, <1>5, <1>6, <1>7, <1>8, <1>9

\* A page passed, or one that could not be: the receiver has a page of the
\* sender's program in its own program.
LEMMA TransferOrdinary ==
    ASSUME IInv, NEW e \in Envs, NEW f \in Envs, e # f, NEW srcva \in Data, NEW perm \in SUBSET Bits,
           env_ipc_dstva[f] \in Data, m' = TransferPage(e, srcva, f, perm).m
    PROVE  Ordinary
<1> DEFINE dst == env_ipc_dstva[f]
           a == env_page_alloc(m, f, dst, perm)
           t == env_page_map(a.m, e, srcva, f, dst, perm)
<1>1. MemInv(m, NoPage, NoPage) /\ dst \in VAs /\ srcva \in VAs /\ dst \in Lasting /\ dst \in Data
  BY Kinds DEF IInv
<1>2. m' = IF a.err THEN a.m ELSE t.m
  BY DEF TransferPage
<1> HIDE DEF dst
<1>3. /\ MemInv(a.m, NoPage, NoPage)
      /\ a.err => SameTables(m, a.m)
      /\ ~a.err => \E p \in Pages : (\A s \in Slots : m.slot[s] # p) /\ Sets(m, a.m, f, dst, p, perm)
  BY <1>1, AllocSets, PageAllocInv DEF Settled
<1> HIDE DEF a
<1>4. /\ t.err => SameTables(a.m, t.m)
      /\ ~t.err => /\ Sets(a.m, t.m, f, dst, a.m.slot[Pte(e, srcva)], perm)
                   /\ a.m.slot[Pte(e, srcva)] # NoPage
  BY <1>1, <1>3, MapSets
<1> HIDE DEF t
<1>5. CASE a.err
  BY <1>2, <1>3, <1>5, SameFewer DEF Ordinary
<1>6. CASE ~a.err
  <2>1. PICK p \in Pages : (\A s \in Slots : m.slot[s] # p) /\ Sets(m, a.m, f, dst, p, perm)
    BY <1>3, <1>6
  <2>2. CASE t.err
    <3>1. Sets(m, t.m, f, dst, p, perm)
      BY <1>1, <1>4, <2>1, <2>2, SlotFacts DEF Sets, SameTables
    <3> QED
      BY <1>1, <1>2, <1>6, <2>1, <3>1 DEF Ordinary
  <2>3. CASE ~t.err
    <3>1. a.m.slot[Pte(e, srcva)] = m.slot[Pte(e, srcva)]
      BY <1>1, <2>1 DEF Sets
    <3>2. Sets(m, t.m, f, dst, m.slot[Pte(e, srcva)], perm)
      BY <1>4, <2>1, <2>3, <3>1 DEF Sets
    <3> QED
      BY <1>1, <1>2, <1>4, <1>6, <2>3, <3>1, <3>2 DEF Ordinary
  <2> QED
    BY <2>2, <2>3
<1> QED
  BY <1>5, <1>6

LEMMA SendSharing ==
    ASSUME StackInv, NEW e \in Envs, NEW f \in Envs,
           \/ SendValue(e, f)
           \/ \E srcva \in Data, perm \in {{}, {"W"}} : SendPage(e, f, srcva, perm)
    PROVE  Sharing'
<1>1. /\ IInv /\ Sharing /\ Types
      /\ \A g \in Envs : env_ipc_dstva[g] \in Data \cup {0}
  BY Parts DEF StackInv, Sharing, Places
<1>2. Running(e) /\ pc[e] = "user" /\ e # f
  BY <1>1, Parts DEF SendValue, SendPage, Receiving, At, CanCall, AtStack, Running, WaitingSleeps
<1>3. Delivered(f) => faults' = faults /\ \A g \in Envs : env_ipc_dstva'[g] \in Data \cup {0}
  BY <1>1 DEF Delivered, Types
<1>4. ASSUME Delivered(f), m' = m, UNCHANGED progvars
      PROVE  Sharing'
  <2>1. Ordinary
    BY <1>4 DEF Ordinary, Fewer
  <2> QED
    BY <1>1, <1>3, <1>4, <2>1, StillStep DEF progvars
<1>5. ASSUME NEW label \in {"user", "panic"}, pc' = [pc EXCEPT ![e] = label],
             UNCHANGED <<child, pnum, faults>>, Ordinary,
             \A g \in Envs : env_ipc_dstva'[g] \in Data \cup {0}
      PROVE  Sharing'
  <2>1. Alone(e) /\ pc'[e] = label /\ child'[e] = child[e] /\ faults'[e] = faults[e]
    BY <1>1, <1>5 DEF Alone, Types
  <2> QED
    BY <1>2, <1>5, <2>1, PlainStep DEF Writing
<1>6. ASSUME NEW srcva \in Data, NEW perm \in {{}, {"W"}}, SendPage(e, f, srcva, perm)
      PROVE  Sharing'
  <2> DEFINE r == TransferPage(e, srcva, f, perm)
  <2>1. \/ Goto(e, "panic") /\ UNCHANGED <<m, envvars, ipcvars, faults>>
        \/ Delivered(f) /\ UNCHANGED <<m, progvars>>
        \/ UNCHANGED <<m, ipcvars, progvars, faults>>
        \/ /\ env_ipc_dstva[f] # 0 /\ Result(e, r, "user") /\ UNCHANGED <<child, pnum, forks>>
           /\ IF r.err THEN UNCHANGED <<envvars, ipcvars, faults>> ELSE Delivered(f)
    BY <1>6 DEF SendPage
  <2>2. CASE Goto(e, "panic") /\ UNCHANGED <<m, envvars, ipcvars, faults>>
    <3>1. Ordinary
      BY <2>2 DEF Ordinary, Fewer
    <3> QED
      BY <1>1, <1>5, <2>2, <3>1 DEF Goto, ipcvars
  <2>3. CASE /\ env_ipc_dstva[f] # 0 /\ Result(e, r, "user") /\ UNCHANGED <<child, pnum, forks>>
             /\ IF r.err THEN UNCHANGED <<envvars, ipcvars, faults>> ELSE Delivered(f)
    <3>1. env_ipc_dstva[f] \in Data /\ perm \in SUBSET Bits /\ m' = r.m
      BY <1>1, <2>3 DEF Bits, Result
    <3>2. Ordinary
      BY <1>1, <1>2, <3>1, TransferOrdinary
    <3>3. \E label \in {"user", "panic"} : pc' = [pc EXCEPT ![e] = label]
      BY <2>3 DEF Result
    <3>4. faults' = faults /\ \A g \in Envs : env_ipc_dstva'[g] \in Data \cup {0}
      BY <1>1, <1>3, <2>3 DEF ipcvars
    <3> QED
      BY <1>5, <2>3, <3>2, <3>3, <3>4
  <2>4. CASE UNCHANGED <<m, ipcvars, progvars, faults>>
    BY <1>1, <2>4, SameStep DEF ipcvars
  <2> QED
    BY <1>4, <2>1, <2>2, <2>3, <2>4
<1> QED
  BY <1>4, <1>6 DEF SendValue

\* A step of fork that moves e from one place to the next.
LEMMA MoveStep ==
    ASSUME StackInv, NEW e \in Envs, Running(e), pc[e] \notin Writing,
           NEW label, pc' = [pc EXCEPT ![e] = label], NEW n, pnum' = [pnum EXCEPT ![e] = n],
           label \in {"v0_map", "v0_copy"} => n \in Lasting,
           UNCHANGED <<child, faults, env_ipc_dstva>>, Ordinary
    PROVE  Sharing'
<1>1. Types /\ Sharing
  BY Parts DEF StackInv
<1>2. Alone(e) /\ pc'[e] = label /\ pnum'[e] = n /\ child'[e] = child[e] /\ faults'[e] = faults[e]
  BY <1>1 DEF Alone, Types
<1>3. \A f \in Envs : env_ipc_dstva'[f] \in Data \cup {0}
  BY <1>1 DEF Sharing, Places
<1> QED
  BY <1>2, <1>3, PlainStep

LEMMA BeginningSharing ==
    ASSUME StackInv, NEW e \in Envs, ForkBegin(e) \/ ForkV0Begin(e) \/ SetHandler(e) \/ SetUpcall(e)
    PROVE  Sharing'
<1>1. /\ IInv /\ Types /\ Running(e) /\ pc[e] \in {"user", "set_handler", "set_upcall"}
  BY Parts DEF StackInv, ForkBegin, ForkV0Begin, SetHandler, SetUpcall, At, CanCall, AtStack
<1>2. Ordinary
  <2>1. CASE m' = m
    BY <2>1 DEF Ordinary, Fewer
  <2>2. CASE SetHandler(e)
    BY <1>1, <2>2, AllocOrdinary, Kinds DEF SetHandler, Stacks
  <2> QED
    BY <2>1, <2>2 DEF ForkBegin, ForkV0Begin, SetUpcall
<1>3. /\ \E label \in {"exofork", "set_handler", "set_upcall", "v0_exofork"} : pc' = [pc EXCEPT ![e] = label]
      /\ UNCHANGED <<child, pnum, faults, env_ipc_dstva>>
  BY DEF ForkBegin, ForkV0Begin, SetHandler, SetUpcall, Goto, Same, ipcvars
<1>4. pnum' = [pnum EXCEPT ![e] = pnum[e]]
  BY <1>1, <1>3 DEF Types
<1> QED
  BY <1>1, <1>2, <1>3, <1>4, MoveStep DEF Writing

LEMMA SysExoforkSharing ==
    ASSUME StackInv, NEW e \in Envs,
           NEW label \in {"exofork", "v0_exofork"}, NEW loop \in {"dup", "v0"}, SysExofork(e, label, loop)
    PROVE  Sharing'
<1>1. /\ MemInv(m, NoPage, NoPage) /\ Types /\ FreeIsEmpty /\ ForkOwnsChild /\ Sharing
      /\ \A f \in Envs : child[f] # e
      /\ Running(e) /\ pc[e] = label /\ env_status[e] = "RUNNABLE"
  BY Parts, RunningFacts DEF SysExofork, At, CanCall, AtStack, StackInv
<1>2. CASE Goto(e, "panic") /\ UNCHANGED <<m, envvars, ipcvars, faults>>
  <2>1. /\ \E place \in {"panic"} : pc' = [pc EXCEPT ![e] = place]
        /\ pnum' = [pnum EXCEPT ![e] = pnum[e]]
        /\ UNCHANGED <<child, faults, env_ipc_dstva>> /\ pc[e] \notin Writing
    BY <1>1, <1>2 DEF Types, Goto, ipcvars, Writing
  <2>2. Ordinary
    BY <1>2 DEF Ordinary, Fewer
  <2> QED
    BY <1>1, <2>1, <2>2, MoveStep
<1>3. ASSUME NEW c \in Envs, env_status[c] = "FREE", NewChild(e, c, loop)
      PROVE  Sharing'
  <2>1. /\ m' = env_setup_vm(m, c).m
        /\ pc' = [pc EXCEPT ![e] = loop, ![c] = "user"]
        /\ child' = [child EXCEPT ![e] = c]
        /\ pnum' = [pnum EXCEPT ![e] = 0]
        /\ UNCHANGED <<env_ipc_dstva, faults>>
    BY <1>3 DEF NewChild
  <2>2. /\ e # c /\ child[c] = NoEnv /\ \A s \in Slots : s[1] = c => m.slot[s] = NoPage
        /\ \A f \in Envs : child[f] # c
    BY <1>1, <1>3 DEF FreeIsEmpty, ForkOwnsChild
  <2>3. /\ \A f \in Envs \ {e, c} : pc'[f] = pc[f] /\ child'[f] = child[f] /\ pnum'[f] = pnum[f]
        /\ pc'[e] = loop /\ child'[e] = c
        /\ pc'[c] = "user" /\ child'[c] = NoEnv
    BY <1>1, <2>1, <2>2 DEF Types
  <2>4. SameTables(m, m')
    BY <1>1, <2>1, <2>2, SetupFewer
  <2>5. \A w \in VAs : m'.slot[Pte(c, w)] = NoPage
    BY <2>2, <2>4, SlotFacts DEF SameTables
  <2>6. \A f \in Envs : Steady(f)
    BY <1>1, <2>1, <2>3, <2>5 DEF Stays, Steady, Writing
  <2>7. SameKind(m') /\ \A f \in Envs : Own(f)'
    BY <1>1, <2>4, <2>6, SameFewer, OrdinaryKeeps DEF Ordinary
  <2>8. ASSUME NEW f \in Envs
        PROVE  Places(f)'
    <3>1. Places(f) /\ faults' = faults /\ env_ipc_dstva' = env_ipc_dstva
      BY <1>1, <2>1 DEF Sharing
    <3>2. CASE f = e
      BY <2>2, <2>3, <3>1, <3>2 DEF Places
    <3>3. CASE f = c
      BY <2>3, <3>1, <3>3, NoEnvAssumption DEF Places
    <3>4. CASE f \notin {e, c}
      <4>1. child[f] \in Envs => pc'[child[f]] = "user"
        BY <1>1, <2>2, <2>3, <3>1 DEF Places
      <4> QED
        BY <2>3, <3>1, <3>4, <4>1 DEF Places
    <3> QED
      BY <3>2, <3>3, <3>4
  <2> QED
    BY <2>7, <2>8 DEF Sharing
<1> QED
  BY <1>2, <1>3 DEF SysExofork

LEMMA EndingSharing ==
    ASSUME StackInv, NEW e \in Envs, ChildStack(e) \/ ChildUpcall(e) \/ SetStatus(e)
    PROVE  Sharing'
<1>1. /\ IInv /\ Types /\ Sharing /\ Running(e) /\ pc[e] \in {"child_stack", "child_upcall", "set_status"}
      /\ child[e] \in Envs
  BY Parts, LoopFacts, ForkLabels DEF StackInv, ChildStack, ChildUpcall, SetStatus
<1>2. Ordinary
  <2>1. CASE m' = m
    BY <2>1 DEF Ordinary, Fewer
  <2>2. CASE ChildStack(e)
    BY <1>1, <2>2, AllocOrdinary, Kinds DEF ChildStack, Result, Stacks
  <2> QED
    BY <2>1, <2>2 DEF ChildUpcall, SetStatus
<1>3. CASE ChildStack(e) \/ ChildUpcall(e)
  <2>1. /\ \E label \in {"child_upcall", "set_status", "panic"} : pc' = [pc EXCEPT ![e] = label]
        /\ UNCHANGED <<child, pnum, faults, env_ipc_dstva>>
    BY <1>3 DEF ChildStack, ChildUpcall, Goto, Same, Result, ipcvars
  <2>2. pnum' = [pnum EXCEPT ![e] = pnum[e]]
    BY <1>1, <2>1 DEF Types
  <2> QED
    BY <1>1, <1>2, <2>1, <2>2, MoveStep DEF Writing
<1>4. CASE SetStatus(e)
  <2>1. /\ pc' = [pc EXCEPT ![e] = "user"]
        /\ child' = [child EXCEPT ![e] = NoEnv]
        /\ pnum' = [pnum EXCEPT ![e] = 0]
        /\ UNCHANGED <<env_ipc_dstva, faults>>
    BY <1>4 DEF SetStatus
  <2>2. Alone(e) /\ pc'[e] = "user" /\ child'[e] = NoEnv /\ faults'[e] = faults[e]
    BY <1>1, <2>1 DEF Alone, Types
  <2>3. \A f \in Envs : env_ipc_dstva'[f] \in Data \cup {0}
    BY <1>1, <2>1 DEF Sharing, Places
  <2> QED
    BY <1>1, <1>2, <2>2, <2>3, PlainStep DEF Writing
<1> QED
  BY <1>3, <1>4

-----------------------------------------------------------------------------
(***************************************************************************)
(* The steps of fork that give the child a page, or give one up.           *)
(***************************************************************************)

\* fork finds the pages of the program and its stacks, and no page in passing.
LEMMA LeftLasting ==
    ASSUME Sharing, NEW e \in Envs, faults[e] = <<>>, pc[e] \notin {"v0_copy", "v0_unmap", "panic"}
    PROVE  /\ m.slot[Pte(e, UTEMP)] = NoPage /\ m.slot[Pte(e, PFTEMP)] = NoPage
           /\ \A va \in VAs : m.slot[Pte(e, va)] # NoPage => va \in Lasting
<1>1. m.slot[Pte(e, UTEMP)] = NoPage /\ m.slot[Pte(e, PFTEMP)] = NoPage
  BY DEF Sharing, Own, Temporary
<1>2. \A va \in VAs : va \in Lasting \/ va = UTEMP \/ va = PFTEMP
  BY NDataAssumption DEF Lasting, Stacks, Data, STACK, UXSTACK, PFTEMP, UTEMP, VAs
<1> QED
  BY <1>1, <1>2

\* Where a page of e's is the child's, e may write it only until DupSelf.
LEMMA ShareKeeps ==
    ASSUME StackInv, NEW e \in Envs, Running(e), pc[e] \in {"dup", "v0"}, faults[e] = <<>>,
           child[e] \in Envs, NEW va \in VAs, m.slot[Pte(e, va)] # NoPage,
           NEW perm \in SUBSET Bits, "W" \notin perm,
           Sets(m, m', child[e], va, m.slot[Pte(e, va)], perm),
           Alone(e), UNCHANGED <<child, faults, env_ipc_dstva>>,
           pc'[e] \in {"dup", "dup_self", "v0"},
           "W" \in m.perm[e][va] => pc'[e] = "dup_self" /\ pnum'[e] = va
    PROVE  Sharing'
<1> DEFINE c == child[e]
<1>1. Sharing /\ SameKind(m) /\ Own(e) /\ c # e /\ c \in Envs /\ \A g \in Envs : child[g] # e
  BY RunningFacts DEF StackInv, Sharing
<1>2. \A w \in VAs : m.slot[Pte(e, w)] # NoPage => w \in Lasting
  BY <1>1, LeftLasting
<1>3. va \in Lasting
  BY <1>2
<1>4. SameKind(m') /\ \A f \in Envs : Own(f) /\ Steady(f) /\ f # e => Own(f)'
  BY <1>1, <1>3, CopyKeeps
<1>5. \A f \in Envs \ {e} : Own(f)'
  BY <1>1, <1>4 DEF Sharing, Alone, Stays, Steady
<1>6. \A w \in VAs : m'.slot[Pte(e, w)] = m.slot[Pte(e, w)] /\ m'.perm[e][w] = m.perm[e][w]
  BY <1>1 DEF Sets
<1>7. Temporary(e)'
  BY <1>1, <1>6, LeftLasting, Kinds DEF Temporary
<1>8. Writes(e)'
  <2> SUFFICES ASSUME NEW g \in Envs, NEW v \in Stacks, NEW w \in VAs,
                      g # e, Common(m', g, v, e, w), "W" \in m'.perm[e][w]
               PROVE  child'[e] = g /\ Making(e, w, v)'
    BY DEF Writes
  <2>1. v \in VAs /\ v \in Lasting /\ v \notin Data
    BY Kinds
  <2>2. CASE g = c /\ v = va
    <3>1. Common(m, e, va, e, w)
      BY <1>6, <2>2 DEF Common, Sets
    <3>2. w \in Lasting
      BY <1>2, <3>1 DEF Common
    <3>3. w = va
      BY <1>1, <1>3, <2>1, <2>2, <3>1, <3>2 DEF SameKind
    <3> QED
      BY <1>6, <2>2, <3>3 DEF Making
  <2>3. CASE ~(g = c /\ v = va)
    <3>1. Common(m, g, v, e, w) /\ "W" \in m.perm[e][w]
      BY <1>6, <2>1, <2>3 DEF Common, Sets
    <3>2. Making(e, w, v)
      BY <1>1, <3>1 DEF Own, Writes
    <3> QED
      BY <3>2 DEF Making
  <2> QED
    BY <2>2, <2>3
<1>9. \A f \in Envs : Places(f)'
  BY <1>1, PlacesKeep DEF Sharing, Places
<1> QED
  BY <1>4, <1>5, <1>7, <1>8, <1>9 DEF Sharing, Own

LEMMA DupSharing ==
    ASSUME StackInv, NEW e \in Envs, Dup(e)
    PROVE  Sharing'
<1> DEFINE left == Left(e, {UXSTACK})
           va == First(left)
           private == m.perm[e][va] # {}
           perm == IF private THEN {"COW"} ELSE {}
           r == env_page_map(m, e, va, child[e], va, perm)
<1>1. /\ MemInv(m, NoPage, NoPage) /\ Types /\ Running(e) /\ pc[e] = "dup"
      /\ child[e] \in Envs /\ faults[e] = <<>>
  BY LoopFacts, ForkLabels DEF StackInv, Dup, At, CanCall, AtStack
<1>2. UNCHANGED <<child, faults, env_ipc_dstva>>
  BY DEF Dup, Same, Goto, ipcvars
<1>3. CASE left = {}
  <2>1. m' = m /\ (\E place \in {"child_stack"} : pc' = [pc EXCEPT ![e] = place]) /\ pnum' = pnum
    BY <1>3 DEF Dup, Goto
  <2>2. pnum' = [pnum EXCEPT ![e] = pnum[e]]
    BY <1>1, <2>1 DEF Types
  <2>3. Ordinary
    BY <2>1 DEF Ordinary, Fewer
  <2> QED
    BY <1>1, <1>2, <2>1, <2>2, <2>3, MoveStep DEF Writing
<1>4. CASE left # {}
  <2> DEFINE label == IF r.err THEN "panic" ELSE IF private THEN "dup_self" ELSE "dup"
             n == IF private THEN va ELSE va + 1
  <2>1. m' = r.m /\ pc' = [pc EXCEPT ![e] = label] /\ pnum' = [pnum EXCEPT ![e] = n]
    BY <1>4 DEF Dup, Result
  <2>2. va \in VAs /\ perm \in SUBSET Bits /\ "W" \notin perm
    BY <1>4, FirstIn DEF Left, Bits
  <2>3. /\ r.err => SameTables(m, r.m)
        /\ ~r.err => /\ Sets(m, r.m, child[e], va, m.slot[Pte(e, va)], perm)
                     /\ m.slot[Pte(e, va)] # NoPage
    BY <1>1, <2>2, MapSets
  <2>4. /\ r.err => label = "panic"
        /\ ~r.err => label \in {"dup", "dup_self"}
        /\ ~r.err /\ "W" \in m.perm[e][va] => label = "dup_self" /\ n = va
    OBVIOUS
  <2>5. Alone(e) /\ pc'[e] = label /\ pnum'[e] = n
    BY <1>1, <1>2, <2>1 DEF Alone, Types
  <2> HIDE DEF r, n, label, va, perm
  <2>6. CASE r.err
    <3>1. Ordinary
      BY <2>1, <2>3, <2>6, SameFewer DEF Ordinary
    <3> QED
      BY <1>1, <1>2, <2>1, <2>4, <2>6, <3>1, MoveStep DEF Writing
  <2>7. CASE ~r.err
    BY <1>1, <1>2, <2>1, <2>2, <2>3, <2>4, <2>5, <2>7, ShareKeeps
  <2> QED
    BY <2>6, <2>7
<1> QED
  BY <1>3, <1>4

LEMMA V0PageSharing ==
    ASSUME StackInv, NEW e \in Envs, V0Page(e)
    PROVE  Sharing'
<1> DEFINE left == Left(e, {})
           va == First(left)
           writable == "W" \in m.perm[e][va]
           a == env_page_alloc(m, child[e], va, {"W"})
           t == env_page_map(m, e, va, child[e], va, {})
           r == IF writable THEN a ELSE t
<1>1. /\ IInv /\ Sharing /\ MemInv(m, NoPage, NoPage) /\ Types /\ Running(e) /\ pc[e] = "v0"
      /\ child[e] \in Envs /\ faults[e] = <<>>
  BY LoopFacts, ForkLabels DEF StackInv, V0Page, At, CanCall, AtStack
<1>2. UNCHANGED <<child, faults, env_ipc_dstva>>
  BY DEF V0Page, Same, Goto, ipcvars
<1>3. CASE left = {}
  <2>1. m' = m /\ (\E place \in {"set_status"} : pc' = [pc EXCEPT ![e] = place]) /\ pnum' = pnum
    BY <1>3 DEF V0Page, Goto
  <2>2. pnum' = [pnum EXCEPT ![e] = pnum[e]]
    BY <1>1, <2>1 DEF Types
  <2>3. Ordinary
    BY <2>1 DEF Ordinary, Fewer
  <2> QED
    BY <1>1, <1>2, <2>1, <2>2, <2>3, MoveStep DEF Writing
<1>4. CASE left # {}
  <2> DEFINE label == IF r.err THEN "panic" ELSE IF writable THEN "v0_map" ELSE "v0"
             n == IF writable THEN va ELSE va + 1
  <2>1. m' = r.m /\ pc' = [pc EXCEPT ![e] = label] /\ pnum' = [pnum EXCEPT ![e] = n]
    BY <1>4 DEF V0Page, Result
  <2>2. va \in VAs /\ m.slot[Pte(e, va)] # NoPage
    BY <1>4, FirstIn DEF Left, Mapped
  <2>3. va \in Lasting
    BY <1>1, <2>2, LeftLasting
  <2>4. /\ r.err => label = "panic"
        /\ writable /\ ~r.err => label = "v0_map" /\ n = va
        /\ ~writable /\ ~r.err => label = "v0"
        /\ r = IF writable THEN a ELSE t
    OBVIOUS
  <2>5. /\ t.err => SameTables(m, t.m)
        /\ ~t.err => Sets(m, t.m, child[e], va, m.slot[Pte(e, va)], {})
    BY <1>1, <2>2, MapSets
  <2>6. Alone(e) /\ pc'[e] = label /\ pnum'[e] = n
    BY <1>1, <1>2, <2>1 DEF Alone, Types
  <2> HIDE DEF va
  <2>7. CASE writable
    <3>1. Ordinary
      BY <1>1, <2>1, <2>3, <2>4, <2>7, AllocOrdinary
    <3> HIDE DEF r, n, label, a
    <3> QED
      BY <1>1, <1>2, <2>1, <2>3, <2>4, <2>7, <3>1, MoveStep DEF Writing
  <2> HIDE DEF r, n, label, a, t
  <2>8. CASE ~writable /\ t.err
    <3>1. Ordinary
      BY <2>1, <2>4, <2>5, <2>8, SameFewer DEF Ordinary
    <3> QED
      BY <1>1, <1>2, <2>1, <2>4, <2>8, <3>1, MoveStep DEF Writing
  <2>9. CASE ~writable /\ ~t.err
    <3>1. {} \in SUBSET Bits /\ "W" \notin {} /\ m' = t.m
      BY <2>1, <2>4, <2>9
    <3> QED
      BY <1>1, <1>2, <2>2, <2>4, <2>5, <2>6, <2>9, <3>1, ShareKeeps
  <2> QED
    BY <2>7, <2>8, <2>9
<1> QED
  BY <1>3, <1>4

\* A step of e in the middle of a page: what e does with it is shown apart.
LEMMA PageStep ==
    ASSUME StackInv, NEW e \in Envs, Running(e),
           NEW label, pc' = [pc EXCEPT ![e] = label], NEW n, pnum' = [pnum EXCEPT ![e] = n],
           label \in {"v0_map", "v0_copy"} => n \in Lasting,
           UNCHANGED <<child, faults, env_ipc_dstva>>,
           SameKind(m'), \A f \in Envs \ {e} : Own(f) /\ Steady(f) => Own(f)', Own(e)'
    PROVE  Sharing'
<1>1. Sharing /\ Types /\ \A g \in Envs : child[g] # e
  BY RunningFacts DEF StackInv
<1>2. Alone(e) /\ pc'[e] = label /\ pnum'[e] = n
  BY <1>1 DEF Alone, Types
<1>3. \A f \in Envs \ {e} : Own(f)'
  BY <1>1, <1>2 DEF Sharing, Alone, Stays, Steady
<1>4. \A f \in Envs : Places(f)'
  BY <1>1, <1>2, PlacesKeep DEF Sharing, Places
<1> QED
  BY <1>3, <1>4 DEF Sharing

\* ... if it panics there.
LEMMA PanicStep ==
    ASSUME StackInv, NEW e \in Envs, Running(e), pc' = [pc EXCEPT ![e] = "panic"],
           NEW n, pnum' = [pnum EXCEPT ![e] = n],
           UNCHANGED <<child, faults, env_ipc_dstva>>, SameTables(m, m')
    PROVE  Sharing'
<1>1. Sharing /\ Types /\ Fewer(m, m') /\ \A g \in Envs : child[g] # e
  BY SameFewer, RunningFacts DEF StackInv
<1>2. Alone(e) /\ pc'[e] = "panic"
  BY <1>1 DEF Alone, Types
<1>3. \A f \in Envs : Steady(f)
  BY <1>2 DEF Alone, Stays, Steady
<1>4. SameKind(m') /\ \A f \in Envs : Own(f)'
  BY <1>1, <1>3, OrdinaryKeeps DEF Ordinary
<1>5. \A f \in Envs : Places(f)'
  BY <1>1, <1>2, PlacesKeep DEF Sharing, Places
<1> QED
  BY <1>4, <1>5 DEF Sharing

\* The parent's own mapping loses its write permission.
LEMMA DupSelfSharing ==
    ASSUME StackInv, NEW e \in Envs, DupSelf(e)
    PROVE  Sharing'
<1> DEFINE va == pnum[e]
           r == env_page_map(m, e, va, e, va, {"COW"})
           label == IF r.err THEN "panic" ELSE "dup"
           n == va + 1
<1>1. /\ MemInv(m, NoPage, NoPage) /\ Types /\ Running(e) /\ pc[e] = "dup_self" /\ va \in VAs
      /\ child[e] \in Envs /\ faults[e] = <<>> /\ Sharing /\ SameKind(m) /\ Own(e)
      /\ \A g \in Envs : child[g] # e
  BY LoopFacts, RunningFacts, ForkLabels DEF StackInv, DupSelf, At, CanCall, AtStack, Sharing
<1>2. /\ m' = r.m /\ pc' = [pc EXCEPT ![e] = label] /\ pnum' = [pnum EXCEPT ![e] = n]
      /\ UNCHANGED <<child, faults, env_ipc_dstva>>
  BY DEF DupSelf, Same, Result, ipcvars
<1>3. /\ r.err => SameTables(m, r.m)
      /\ ~r.err => /\ Sets(m, r.m, e, va, m.slot[Pte(e, va)], {"COW"})
                   /\ m.slot[Pte(e, va)] # NoPage
  BY <1>1, MapSets DEF Bits
<1>4. (r.err => label = "panic") /\ (~r.err => label = "dup")
  OBVIOUS
<1> HIDE DEF r, label, n
<1>5. CASE r.err
  BY <1>1, <1>2, <1>3, <1>4, <1>5, PanicStep
<1>6. CASE ~r.err
  <2>1. va \in Lasting
    BY <1>1, <1>3, <1>6, LeftLasting
  <2>2. SameKind(m') /\ \A f \in Envs \ {e} : Own(f) /\ Steady(f) => Own(f)'
    <3> DEFINE cow == {"COW"}
    <3>1. Sets(m, m', e, va, m.slot[Pte(e, va)], cow) /\ m.slot[Pte(e, va)] # NoPage /\ va \in VAs
      BY <1>1, <1>2, <1>3, <1>6
    <3> HIDE DEF va, cow
    <3> QED
      BY <1>1, <2>1, <3>1, CopyKeeps
  <2>3. Temporary(e)'
    BY <1>1, <1>2, <1>3, <1>6, <2>1, LeftLasting, Kinds DEF Temporary, Sets
  <2>4. Writes(e)'
    <3> SUFFICES ASSUME NEW g \in Envs, NEW v \in Stacks, NEW w \in VAs,
                        g # e, Common(m', g, v, e, w), "W" \in m'.perm[e][w]
                 PROVE  FALSE
      BY DEF Writes
    <3>1. w # va
      BY <1>2, <1>3, <1>6 DEF Sets
    <3>2. Common(m, g, v, e, w) /\ "W" \in m.perm[e][w]
      BY <1>2, <1>3, <1>6, <3>1, Kinds DEF Common, Sets
    <3>3. Making(e, w, v)
      BY <1>1, <3>2 DEF Own, Writes
    <3> QED
      BY <1>1, <3>1, <3>3 DEF Making
  <2> QED
    BY <1>1, <1>2, <1>4, <1>6, <2>2, <2>3, <2>4, PageStep DEF Own
<1> QED
  BY <1>5, <1>6

\* fork_v0 maps the child's new page at UTEMP: nobody else has it but the child.
LEMMA V0MapSharing ==
    ASSUME StackInv, NEW e \in Envs, V0Map(e)
    PROVE  Sharing'
<1> DEFINE c == child[e]
           u == pnum[e]
           r == env_page_map(m, c, u, e, UTEMP, {"W"})
           label == IF r.err THEN "panic" ELSE "v0_copy"
<1>1. /\ MemInv(m, NoPage, NoPage) /\ Types /\ Running(e) /\ pc[e] = "v0_map" /\ u \in VAs
      /\ c \in Envs /\ faults[e] = <<>> /\ Sharing /\ SameKind(m) /\ ForkOwnsChild
      /\ \A g \in Envs : child[g] # e
  BY LoopFacts, RunningFacts, ForkLabels DEF StackInv, V0Map, At, CanCall, AtStack, Sharing
<1>2. /\ m' = r.m /\ pc' = [pc EXCEPT ![e] = label] /\ pnum' = [pnum EXCEPT ![e] = u]
      /\ UNCHANGED <<child, faults, env_ipc_dstva>>
  BY <1>1 DEF V0Map, Same, Result, Types, ipcvars
<1>3. /\ r.err => SameTables(m, r.m)
      /\ ~r.err => /\ Sets(m, r.m, e, UTEMP, m.slot[Pte(c, u)], {"W"})
                   /\ m.slot[Pte(c, u)] # NoPage
                   /\ "W" \in m.perm[c][u]
  BY <1>1, MapSets, Kinds DEF Bits
<1>4. (r.err => label = "panic") /\ (~r.err => label = "v0_copy")
  OBVIOUS
<1>5. Own(e) /\ Own(c) /\ u \in Lasting /\ pc[c] = "user" /\ child[c] \notin Envs
  <2>1. Own(e) /\ Own(c) /\ u \in Lasting /\ pc[c] = "user"
    BY <1>1 DEF Sharing, Places
  <2> QED
    BY <1>1, <2>1 DEF ForkOwnsChild, Loops
<1> HIDE DEF r, label
<1>6. CASE r.err
  BY <1>1, <1>2, <1>3, <1>4, <1>6, PanicStep
<1>7. CASE ~r.err
  <2>1. SameKind(m') /\ \A f \in Envs \ {e} : Own(f) /\ Steady(f) => Own(f)'
    BY <1>1, <1>2, <1>3, <1>5, <1>7, Kinds, CopyKeeps
  <2>2. pc'[e] = "v0_copy" /\ child'[e] = c /\ faults'[e] = <<>>
    BY <1>1, <1>2, <1>4, <1>7 DEF Types
  <2>3. Temporary(e)'
    <3>1. m'.slot[Pte(e, PFTEMP)] = NoPage
      BY <1>1, <1>2, <1>3, <1>7, LeftLasting, Kinds DEF Sets
    <3> QED
      BY <2>2, <3>1 DEF Temporary
  <2>4. Writes(e)'
    <3> SUFFICES ASSUME NEW g \in Envs, NEW v \in Stacks, NEW w \in VAs,
                        g # e, Common(m', g, v, e, w), "W" \in m'.perm[e][w]
                 PROVE  g = c /\ w = UTEMP
      BY <2>2 DEF Writes, Making
    <3>1. v \in VAs
      BY Kinds
    <3>2. CASE w = UTEMP
      <4>1. Common(m, g, v, c, u)
        BY <1>2, <1>3, <1>7, <3>1, <3>2 DEF Common, Sets
      <4>2. g # c => child[c] = g
        BY <1>1, <1>3, <1>5, <1>7, <4>1 DEF Own, Writes
      <4> QED
        BY <1>5, <3>2, <4>2
    <3>3. CASE w # UTEMP
      <4>1. Common(m, g, v, e, w) /\ "W" \in m.perm[e][w]
        BY <1>2, <1>3, <1>7, <3>1, <3>3 DEF Common, Sets
      <4>2. Making(e, w, v)
        BY <1>5, <4>1 DEF Own, Writes
      <4> QED
        BY <1>1, <4>2 DEF Making
    <3> QED
      BY <3>2, <3>3
  <2> QED
    BY <1>1, <1>2, <1>5, <2>1, <2>3, <2>4, PageStep DEF Own
<1> QED
  BY <1>6, <1>7

LEMMA V0CopySharing ==
    ASSUME StackInv, NEW e \in Envs, V0Copy(e)
    PROVE  Sharing'
<1>1. /\ MemInv(m, NoPage, NoPage) /\ Types /\ Running(e) /\ pc[e] = "v0_copy" /\ pnum[e] \in VAs
      /\ faults[e] = <<>> /\ Sharing /\ SameKind(m) /\ Own(e) /\ pnum[e] \in Lasting
  BY LoopFacts, ForkLabels DEF StackInv, V0Copy, At, CanCall, AtStack, Sharing, Places
<1>2. CASE Mapped(m, e, pnum[e])
  <2>1. /\ m' = CopyPage(m, e, pnum[e], UTEMP)
        /\ pc' = [pc EXCEPT ![e] = "v0_unmap"] /\ pnum' = [pnum EXCEPT ![e] = pnum[e]]
        /\ UNCHANGED <<child, faults, env_ipc_dstva>>
    BY <1>1, <1>2 DEF V0Copy, Goto, Same, Types, ipcvars
  <2>2. m'.slot = m.slot /\ m'.perm = m.perm
    BY <1>1, <1>2, <2>1, CopyInv, AddressFacts
  <2>3. Fewer(m, m')
    BY <2>2 DEF Fewer
  <2>4. SameKind(m') /\ \A f \in Envs \ {e} : Own(f) /\ Steady(f) => Own(f)'
    BY <1>1, <2>3, FewerKeeps
  <2>5. pc'[e] = "v0_unmap" /\ child'[e] = child[e] /\ faults'[e] = <<>>
    BY <1>1, <2>1 DEF Types
  <2>6. Own(e)'
    <3>1. Temporary(e)'
      BY <1>1, <2>2, <2>5 DEF Own, Temporary
    <3>2. Writes(e)'
      BY <1>1, <2>2, <2>5 DEF Own, Writes, Common, Making
    <3> QED
      BY <3>1, <3>2 DEF Own
  <2>7. \E place \in {"v0_unmap"} : pc' = [pc EXCEPT ![e] = place]
    BY <2>1
  <2> QED
    BY <1>1, <2>1, <2>4, <2>6, <2>7, PageStep
<1>3. CASE ~Mapped(m, e, pnum[e])
  BY <1>1, <1>3, PageFaultSharing DEF V0Copy
<1> QED
  BY <1>2, <1>3

LEMMA V0UnmapSharing ==
    ASSUME StackInv, NEW e \in Envs, V0Unmap(e)
    PROVE  Sharing'
<1>1. /\ MemInv(m, NoPage, NoPage) /\ Types /\ Running(e) /\ pc[e] = "v0_unmap" /\ faults[e] = <<>>
      /\ Sharing /\ SameKind(m) /\ Own(e)
  BY LoopFacts, ForkLabels DEF StackInv, V0Unmap, At, CanCall, AtStack, Sharing
<1>2. /\ m' = page_remove(m, e, UTEMP)
      /\ \E place \in {"v0"} : pc' = [pc EXCEPT ![e] = place]
      /\ \E n \in {pnum[e] + 1} : pnum' = [pnum EXCEPT ![e] = n]
      /\ UNCHANGED <<child, faults, env_ipc_dstva>>
  BY <1>1 DEF V0Unmap, Same, ipcvars, Types
<1>3. Fewer(m, m') /\ m'.slot[Pte(e, UTEMP)] = NoPage
  BY <1>1, <1>2, RemoveFewer, Kinds
<1>4. SameKind(m') /\ \A f \in Envs \ {e} : Own(f) /\ Steady(f) => Own(f)'
  BY <1>1, <1>3, FewerKeeps
<1>5. Temporary(e)'
  <2>1. m'.slot[Pte(e, PFTEMP)] = NoPage
    BY <1>1, <1>3, Kinds DEF Own, Temporary, Fewer
  <2> QED
    BY <1>3, <2>1 DEF Temporary
<1>6. Writes(e)'
  <2> SUFFICES ASSUME NEW g \in Envs, NEW v \in Stacks, NEW w \in VAs,
                      g # e, Common(m', g, v, e, w), "W" \in m'.perm[e][w]
               PROVE  FALSE
    BY DEF Writes
  <2>1. Common(m, g, v, e, w) /\ "W" \in m.perm[e][w] /\ w # UTEMP
    BY <1>3, Kinds DEF Common, Fewer
  <2>2. Making(e, w, v)
    BY <1>1, <2>1 DEF Own, Writes
  <2> QED
    BY <1>1, <2>1, <2>2 DEF Making
<1> QED
  BY <1>1, <1>2, <1>4, <1>5, <1>6, PageStep DEF Own

-----------------------------------------------------------------------------
(***************************************************************************)
(* The page-fault handler.                                                 *)
(***************************************************************************)

\* A step of pgfault: its frame is at the next place, or it panics.
LEMMA StepFacts ==
    ASSUME IInv, NEW e \in Envs, NEW now, InHandler(e, now),
           NEW r, NEW label \in {"copy", "map", "unmap", "return"}, Step(e, r, label)
    PROVE  /\ m' = r.m /\ UNCHANGED <<child, env_ipc_dstva>>
           /\ pnum' = [pnum EXCEPT ![e] = pnum[e]]
           /\ r.err => pc' = [pc EXCEPT ![e] = "panic"] /\ faults' = faults
           /\ ~r.err => /\ pc' = pc /\ pnum' = pnum
                        /\ \A f \in Envs \ {e} : faults'[f] = faults[f]
                        /\ faults'[e] # <<>> /\ Len(faults'[e]) = Len(faults[e])
                        /\ \A i \in 1..Len(faults[e]) : faults'[e][i].va = faults[e][i].va
                        /\ Top(e)'.at = label
<1>1. /\ Types /\ faults[e] \in Seq(Frame) /\ Len(faults[e]) \in Nat /\ Len(faults[e]) \in 1..Len(faults[e])
      /\ Top(e) \in Frame
  BY HandlerFacts
<1>2. m' = r.m /\ UNCHANGED <<child, env_ipc_dstva, pnum>>
  BY DEF Step, Goto, progvars
<1>3. pnum' = [pnum EXCEPT ![e] = pnum[e]]
  BY <1>1, <1>2 DEF Types
<1>4. CASE r.err
  BY <1>2, <1>3, <1>4 DEF Step, Goto
<1>5. CASE ~r.err
  <2> DEFINE n == Len(faults[e])
             frame == [Top(e) EXCEPT !.at = label]
             fs == [faults[e] EXCEPT ![n] = frame]
  <2>1. faults' = [faults EXCEPT ![e] = fs] /\ pc' = pc
    BY <1>5 DEF Step, progvars, Top
  <2>2. frame \in Frame /\ frame.at = label /\ frame.va = Top(e).va
    BY <1>1 DEF Frame
  <2> HIDE DEF frame
  <2>3. /\ fs \in Seq(Frame) /\ Len(fs) = n /\ fs[n] = frame
        /\ \A i \in 1..n : i # n => fs[i] = faults[e][i]
    BY <1>1, <2>2, ExceptSeq
  <2>4. \A i \in 1..n : fs[i].va = faults[e][i].va
    BY <2>2, <2>3 DEF Top
  <2> HIDE DEF fs
  <2>5. faults'[e] = fs /\ \A f \in Envs \ {e} : faults'[f] = faults[f]
    BY <1>1, <2>1 DEF Types
  <2>6. fs # <<>> /\ Top(e)'.at = label
    BY <1>1, <2>2, <2>3, <2>5 DEF Top
  <2> QED
    BY <1>2, <1>3, <1>5, <2>1, <2>3, <2>4, <2>5, <2>6
<1> QED
  BY <1>4, <1>5

LEMMA HandlerPlaces ==
    ASSUME StackInv, NEW e \in Envs, NEW now, InHandler(e, now),
           NEW r, ~r.err, NEW label \in {"copy", "map", "unmap", "return"}, Step(e, r, label),
           SameKind(m'), \A f \in Envs \ {e} : Own(f) /\ Steady(f) => Own(f)', Own(e)'
    PROVE  Sharing'
<1>1. IInv /\ Sharing /\ \A g \in Envs : child[g] # e
  BY RunningFacts DEF StackInv, InHandler
<1>2. /\ UNCHANGED <<child, env_ipc_dstva, pc, pnum>> /\ \A f \in Envs \ {e} : faults'[f] = faults[f]
      /\ Len(faults'[e]) = Len(faults[e]) /\ \A i \in 1..Len(faults[e]) : faults'[e][i].va = faults[e][i].va
  BY <1>1, StepFacts
<1>3. Alone(e)
  BY <1>2 DEF Alone
<1>4. \A f \in Envs \ {e} : Own(f)'
  BY <1>1, <1>3 DEF Sharing, Alone, Stays, Steady
<1>5. \A f \in Envs : Places(f)'
  BY <1>1, <1>2, <1>3, PlacesKeep DEF Sharing, Places
<1> QED
  BY <1>4, <1>5 DEF Sharing

LEMMA HandlerStart ==
    ASSUME StackInv, NEW e \in Envs, NEW now, InHandler(e, now)
    PROVE  /\ IInv /\ Sharing /\ MemInv(m, NoPage, NoPage) /\ Types /\ SameKind(m) /\ Own(e)
           /\ Running(e) /\ faults[e] # <<>> /\ Top(e).at = now
           /\ Top(e).va \in Lasting /\ Top(e).va \in VAs
<1>1. IInv /\ Sharing /\ SameKind(m) /\ Own(e) /\ Places(e)
  BY DEF StackInv, Sharing
<1>2. MemInv(m, NoPage, NoPage) /\ Types /\ Len(faults[e]) \in 1..Len(faults[e])
  BY <1>1, HandlerFacts
<1>3. Top(e).va \in Lasting
  BY <1>1, <1>2 DEF Places, Top
<1> QED
  BY <1>1, <1>2, <1>3, Kinds DEF InHandler

LEMMA HandlerAllocSharing ==
    ASSUME StackInv, NEW e \in Envs, HandlerAlloc(e)
    PROVE  Sharing'
<1> DEFINE r == env_page_alloc(m, e, PFTEMP, {"W"})
<1>1. InHandler(e, "alloc") /\ Step(e, r, "copy")
  BY DEF HandlerAlloc
<1>2. IInv /\ MemInv(m, NoPage, NoPage) /\ Running(e) /\ Own(e) /\ SameKind(m)
  BY <1>1, HandlerStart
<1>3. /\ r.err => SameTables(m, r.m)
      /\ ~r.err => \E p \in Pages : /\ \A s \in Slots : m.slot[s] # p
                                    /\ Sets(m, r.m, e, PFTEMP, p, {"W"})
  BY <1>2, AllocSets, Kinds DEF Bits
<1> HIDE DEF r
<1>4. CASE r.err
  BY <1>1, <1>2, <1>3, <1>4, StepFacts, PanicStep
<1>5. CASE ~r.err
  <2>1. /\ m' = r.m /\ UNCHANGED <<child, pc, pnum>> /\ faults'[e] # <<>> /\ Top(e)'.at = "copy"
    BY <1>1, <1>2, <1>5, StepFacts
  <2>2. PICK p \in Pages : (\A s \in Slots : m.slot[s] # p) /\ Sets(m, m', e, PFTEMP, p, {"W"})
    BY <1>3, <1>5, <2>1
  <2>3. \A f \in Envs, w \in VAs : m.slot[Pte(f, w)] # p
    BY <2>2, SlotFacts
  <2>4. /\ SameKind(m') /\ Writes(e)'
        /\ \A f \in Envs \ {e} : Own(f) /\ Steady(f) => Own(f)'
    BY <1>2, <2>1, <2>2, <2>3, FreshKeeps, Kinds
  <2>5. Temporary(e)'
    <3>1. m'.slot[Pte(e, UTEMP)] # NoPage => pc'[e] \in {"v0_copy", "v0_unmap", "panic"}
      BY <1>2, <2>1, <2>2, Kinds DEF Own, Temporary, Sets
    <3>2. \A g \in Envs, w \in VAs : Common(m', e, PFTEMP, g, w) => g = e /\ w = PFTEMP
      BY <2>2, <2>3, Kinds DEF Common, Sets
    <3> QED
      BY <2>1, <3>1, <3>2 DEF Temporary
  <2> QED
    BY <1>1, <1>5, <2>4, <2>5, HandlerPlaces DEF Own
<1> QED
  BY <1>4, <1>5

LEMMA HandlerCopySharing ==
    ASSUME StackInv, NEW e \in Envs, HandlerCopy(e)
    PROVE  Sharing'
<1>1. InHandler(e, "copy")
  BY DEF HandlerCopy
<1>2. /\ IInv /\ MemInv(m, NoPage, NoPage) /\ Running(e) /\ Own(e) /\ SameKind(m) /\ Top(e).at = "copy"
      /\ Top(e).va \in Lasting /\ Top(e).va \in VAs
  BY <1>1, HandlerStart
<1>3. CASE Mapped(m, e, Top(e).va)
  <2> DEFINE nn == CopyPage(m, e, Top(e).va, PFTEMP)
             r == Ok(nn)
  <2>1. Step(e, r, "map")
    BY <1>3 DEF HandlerCopy
  <2>2. nn.slot = m.slot /\ nn.perm = m.perm
    <3> DEFINE va == Top(e).va
    <3>1. MemInv(m, NoPage, NoPage) /\ Mapped(m, e, va) /\ va \in VAs /\ PFTEMP \in VAs
      BY <1>2, <1>3, Kinds
    <3> HIDE DEF va
    <3>2. CopyPage(m, e, va, PFTEMP).slot = m.slot /\ CopyPage(m, e, va, PFTEMP).perm = m.perm
      BY <3>1, CopyInv
    <3> QED
      BY <3>2 DEF va
  <2> HIDE DEF nn
  <2>3. ~r.err /\ r.m = nn
    BY DEF Ok
  <2> HIDE DEF r
  <2>4. m' = nn /\ UNCHANGED <<child, pc, pnum>> /\ faults'[e] # <<>> /\ Top(e)'.at = "map"
    BY <1>1, <1>2, <2>1, <2>3, StepFacts
  <2>5. Fewer(m, m')
    BY <2>2, <2>4 DEF Fewer
  <2>6. SameKind(m') /\ \A f \in Envs \ {e} : Own(f) /\ Steady(f) => Own(f)'
    BY <1>2, <2>5, FewerKeeps
  <2>7. Temporary(e)'
    BY <1>2, <2>2, <2>4 DEF Own, Temporary, Common
  <2>8. Writes(e)'
    BY <1>2, <2>2, <2>4 DEF Own, Writes, Common, Making
  <2> QED
    BY <1>1, <2>1, <2>3, <2>6, <2>7, <2>8, HandlerPlaces DEF Own
<1>4. CASE ~Mapped(m, e, Top(e).va)
  BY <1>2, <1>4, PageFaultSharing DEF HandlerCopy
<1> QED
  BY <1>3, <1>4

\* The page at PFTEMP is nobody else's until it is the page of the cell.
LEMMA HandlerMapSharing ==
    ASSUME StackInv, NEW e \in Envs, HandlerMap(e)
    PROVE  Sharing'
<1> DEFINE va == Top(e).va
           p == m.slot[Pte(e, PFTEMP)]
           r == env_page_map(m, e, PFTEMP, e, va, {"W"})
<1>1. InHandler(e, "map") /\ Step(e, r, "unmap")
  BY DEF HandlerMap
<1>2. /\ IInv /\ MemInv(m, NoPage, NoPage) /\ Running(e) /\ Own(e) /\ SameKind(m) /\ Top(e).at = "map"
      /\ va \in Lasting /\ va \in VAs
  BY <1>1, HandlerStart
<1>3. /\ r.err => SameTables(m, r.m)
      /\ ~r.err => Sets(m, r.m, e, va, p, {"W"}) /\ p # NoPage
  BY <1>2, MapSets, Kinds DEF Bits
<1> HIDE DEF r, va
<1>4. CASE r.err
  BY <1>1, <1>2, <1>3, <1>4, StepFacts, PanicStep
<1>5. CASE ~r.err
  <2>1. /\ m' = r.m /\ UNCHANGED <<child, pc, pnum>> /\ faults'[e] # <<>> /\ Top(e)'.at = "unmap"
    BY <1>1, <1>2, <1>5, StepFacts
  <2>2. p \in Pages
    BY <1>2, <1>3, <1>5, Kinds, SlotFacts DEF MemInv, MemType
  <2>3. \A f \in Envs, w \in VAs : m.slot[Pte(f, w)] = p => f = e /\ w \notin Lasting
    BY <1>2, <1>3, <1>5, Kinds DEF Own, Temporary, Common
  <2>4. Sets(m, m', e, va, p, {"W"})
    BY <1>3, <1>5, <2>1
  <2> HIDE DEF p
  <2>5. /\ SameKind(m') /\ Writes(e)'
        /\ \A f \in Envs \ {e} : Own(f) /\ Steady(f) => Own(f)'
    BY <1>2, <2>1, <2>2, <2>3, <2>4, FreshKeeps
  <2>6. Temporary(e)'
    BY <1>2, <2>1, <2>4, Kinds DEF Own, Temporary, Sets
  <2> QED
    BY <1>1, <1>5, <2>5, <2>6, HandlerPlaces DEF Own
<1> QED
  BY <1>4, <1>5

LEMMA HandlerUnmapSharing ==
    ASSUME StackInv, NEW e \in Envs, HandlerUnmap(e)
    PROVE  Sharing'
<1> DEFINE nn == page_remove(m, e, PFTEMP)
           r == Ok(nn)
<1>1. InHandler(e, "unmap") /\ Step(e, r, "return")
  BY DEF HandlerUnmap
<1>2. IInv /\ MemInv(m, NoPage, NoPage) /\ Running(e) /\ Own(e) /\ SameKind(m)
  BY <1>1, HandlerStart
<1>3. Fewer(m, nn) /\ nn.slot[Pte(e, PFTEMP)] = NoPage
  BY <1>2, RemoveFewer, Kinds
<1> HIDE DEF nn
<1>4. ~r.err /\ r.m = nn
  BY DEF Ok
<1> HIDE DEF r
<1>5. m' = nn /\ UNCHANGED <<child, pc, pnum>>
  BY <1>1, <1>2, <1>4, StepFacts
<1>6. SameKind(m') /\ \A f \in Envs \ {e} : Own(f) /\ Steady(f) => Own(f)'
  BY <1>2, <1>3, <1>5, FewerKeeps
<1>7. Temporary(e)'
  BY <1>2, <1>3, <1>5, Kinds DEF Own, Temporary, Fewer
<1>8. Writes(e)'
  BY <1>2, <1>3, <1>5, Kinds DEF Own, Writes, Common, Fewer, Making
<1> QED
  BY <1>1, <1>4, <1>6, <1>7, <1>8, HandlerPlaces DEF Own

LEMMA HandlerReturnSharing ==
    ASSUME StackInv, NEW e \in Envs, HandlerReturn(e)
    PROVE  Sharing'
<1>1. InHandler(e, "return")
  BY DEF HandlerReturn
<1>2. /\ IInv /\ Sharing /\ Types /\ Running(e) /\ Own(e) /\ SameKind(m) /\ Top(e).at = "return"
      /\ faults[e] \in Seq(Frame) /\ Len(faults[e]) \in Nat /\ \A g \in Envs : child[g] # e
  BY <1>1, HandlerStart, HandlerFacts, RunningFacts
<1>3. CASE PageFault(e, STACK)
  BY <1>2, <1>3, PageFaultSharing, Kinds DEF Stacks
<1>4. CASE ~PageFault(e, STACK)
  <2> DEFINE n == Len(faults[e]) - 1
             fs == SubSeq(faults[e], 1, n)
  <2>1. faults' = [faults EXCEPT ![e] = fs] /\ UNCHANGED <<m, env_ipc_dstva, pc, child, pnum>>
    BY <1>4 DEF HandlerReturn, progvars, ipcvars
  <2>2. Len(fs) \in 0..n /\ \A i \in 1..Len(fs) : fs[i] = faults[e][i]
    BY <1>1, <1>2, HandlerFacts
  <2> HIDE DEF fs
  <2>3. faults'[e] = fs /\ Alone(e)
    BY <1>2, <2>1 DEF Types, Alone
  <2>4. \A i \in 1..Len(faults'[e]) : faults'[e][i].va \in Lasting
    BY <1>2, <2>2, <2>3 DEF Sharing, Places
  <2>5. \A f \in Envs : Places(f)'
    BY <1>2, <2>1, <2>3, <2>4, PlacesKeep DEF Sharing, Places
  <2>6. Fewer(m, m')
    BY <2>1 DEF Fewer
  <2>7. SameKind(m') /\ \A f \in Envs \ {e} : Own(f)'
    BY <1>2, <2>3, <2>6, FewerKeeps DEF Sharing, Alone, Stays, Steady
  <2>8. Own(e)'
    BY <1>2, <2>1 DEF Own, Temporary, Writes, Common, Making
  <2> QED
    BY <2>5, <2>7, <2>8 DEF Sharing
<1> QED
  BY <1>3, <1>4

-----------------------------------------------------------------------------

LEMMA ForkSharing ==
    ASSUME StackInv, NEW e \in Envs, ForkStep(e)
    PROVE  Sharing'
<1>1. CASE SetHandler(e) \/ SetUpcall(e) \/ ChildStack(e) \/ ChildUpcall(e) \/ SetStatus(e)
  BY <1>1, BeginningSharing, EndingSharing
<1>2. CASE SysExofork(e, "exofork", "dup") \/ SysExofork(e, "v0_exofork", "v0")
  BY <1>2, SysExoforkSharing
<1>3. CASE Dup(e) \/ DupSelf(e) \/ V0Page(e)
  BY <1>3, DupSharing, DupSelfSharing, V0PageSharing
<1>4. CASE V0Map(e) \/ V0Copy(e) \/ V0Unmap(e)
  BY <1>4, V0MapSharing, V0CopySharing, V0UnmapSharing
<1> QED
  BY <1>1, <1>2, <1>3, <1>4 DEF ForkStep

LEMMA HandlerSharing ==
    ASSUME StackInv, NEW e \in Envs, HandlerStep(e)
    PROVE  Sharing'
BY HandlerAllocSharing, HandlerCopySharing, HandlerMapSharing, HandlerUnmapSharing, HandlerReturnSharing
   DEF HandlerStep

LEMMA ProgramStepSharing ==
    ASSUME StackInv, NEW e \in Envs, ProgramStep(e)
    PROVE  Sharing'
<1>1. CASE \/ \E va \in Data, v \in Vals : Write(e, va, v)
           \/ \E va \in Data : ReadUnmapped(e, va) \/ SysPageUnmap(e, va) \/ Cputs(e, va)
           \/ \E va \in Data \cup {0} : IpcRecv(e, va)
           \/ \E x \in Envs : SysEnvDestroy(e, x)
  BY <1>1, ProgramSharing
<1>2. CASE ForkBegin(e) \/ ForkV0Begin(e)
  BY <1>2, BeginningSharing
<1>3. CASE \E f \in Envs : \/ SendValue(e, f)
                           \/ \E va \in Data, perm \in {{}, {"W"}} : SendPage(e, f, va, perm)
  BY <1>3, SendSharing
<1> QED
  BY <1>1, <1>2, <1>3 DEF ProgramStep

LEMMA NextSharing ==
    ASSUME StackInv, [Next]_vars
    PROVE  StackInv'
<1> SUFFICES Sharing'
  BY NextKeeps DEF StackInv
<1>1. FirstEnv \in Envs
  BY NoEnvAssumption DEF FirstEnv
<1>2. CASE EnvCreate(FirstEnv) \/ LoadIcode(FirstEnv)
  BY <1>1, <1>2, BootSharing
<1>3. ASSUME NEW e \in Envs, StackFault(e) \/ ForkStep(e) \/ HandlerStep(e) \/ ProgramStep(e)
      PROVE  Sharing'
  BY <1>3, ProgramSharing, ForkSharing, HandlerSharing, ProgramStepSharing
<1>4. CASE UNCHANGED vars
  <2>1. m' = m /\ UNCHANGED <<progvars, faults, env_ipc_dstva>>
    BY <1>4 DEF vars, ipcvars
  <2>2. Sharing /\ m'.slot = m.slot /\ m'.perm = m.perm
    BY <2>1 DEF StackInv
  <2> QED
    BY <2>1, <2>2, SameStep
<1> QED
  BY <1>2, <1>3, <1>4 DEF Next

\* A child whose stack its parent may still write is not started.
LEMMA SharingPrivate == StackInv => StacksPrivate
<1> SUFFICES ASSUME StackInv, NEW e \in Envs, NEW f \in Envs, Started(e), e # f,
                    NEW va \in {STACK, UXSTACK}, NEW w \in VAs,
                    Mapped(m, e, va), HasBit(m, f, w, "W"), PageAt(m, e, va) = PageAt(m, f, w)
             PROVE  FALSE
  BY DEF StacksPrivate, WritableBy
<1>1. Common(m, e, va, f, w) /\ "W" \in m.perm[f][w] /\ va \in Stacks
  BY DEF Common, Mapped, PageAt, HasBit, Stacks
<1>2. child[f] = e
  BY <1>1 DEF StackInv, Sharing, Own, Writes
<1>3. env_status[e] = "NOT_RUNNABLE" /\ ~env_ipc_recving[e]
  BY <1>2 DEF StackInv, IInv, ForkOwnsChild
<1> QED
  BY <1>3 DEF Started

\* Whatever runs in between the steps of fork, fork_v0 and pgfault, and
\* whatever pages are passed by IPC, no environment that was started has its
\* stack or its exception stack where another may write it.
THEOREM StacksArePrivate == Spec => []StacksPrivate
<1>1. Init => StackInv
  BY InitIInv, InitSharing DEF StackInv
<1>2. StackInv /\ [Next]_vars => StackInv'
  BY NextSharing
<1>3. StackInv => StacksPrivate
  BY SharingPrivate
<1> QED
  BY <1>1, <1>2, <1>3, PTL DEF Spec
=============================================================================
