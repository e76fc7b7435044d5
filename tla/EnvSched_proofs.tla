--------------------------- MODULE EnvSched_proofs ---------------------------
(***************************************************************************)
(* What EnvSched satisfies for every number of environments and CPUs, for  *)
(* both schedulers and all priorities, and EnvFamily for every number of   *)
(* generations.                                                            *)
(***************************************************************************)
EXTENDS EnvFamily, TLAPS

\* No priority exceeds what sched_prioridades looks at.
PrioritiesBounded == Scheduler = "RR" \/ MaxPriority = PRIORIDAD_MAX

\* What a handler leaves behind once it has called the scheduler or returned:
\* it runs an environment that was RUNNABLE, or curenv again, or it halts and
\* abandons neither a curenv that is RUNNING here nor, with bounded priorities,
\* a runnable one.
Outcome(c, cur, st, rn) ==
    /\ env_priority' \in [Envs -> 0 .. MaxPriority]
    /\ \/ \E e \in Envs : /\ st[e] = "RUNNABLE" \/ (e = cur /\ st[e] = "RUNNING")
                          /\ EnvRun(c, cur, e, st, rn)
       \/ /\ ~(cur \in Envs /\ st[cur] = "RUNNING" /\ env_cpunum[cur] = c)
          /\ PrioritiesBounded => Runnable(st) = {}
          /\ SchedHalt(c, cur, st, rn)

\* The new priorities stay in range: only a pick below the maximum is aged.
LEMMA RepriorizarType ==
    ASSUME NEW e \in Envs, NEW st \in [Envs -> Status],
           NEW pr \in [Envs -> 0 .. MaxPriority], NEW rn \in [Envs -> BOOLEAN],
           pr[e] <= PRIORIDAD_MAX
    PROVE  Repriorizar(e, st, pr, rn) \in [Envs -> 0 .. MaxPriority]
<1>1. CASE pr[e] = PRIORIDAD_MAX
  BY <1>1, PriorityAssumption DEF Repriorizar
<1>2. CASE pr[e] # PRIORIDAD_MAX
  <2>1. pr[e] + 1 \in 0 .. MaxPriority
    BY <1>2, PriorityAssumption
  <2> QED
    BY <1>2, <2>1 DEF Repriorizar
<1> QED
  BY <1>1, <1>2

\* Both schedulers choose among the runnable, or keep curenv, or halt.
LEMMA SchedYieldOutcome ==
    ASSUME NEW c \in CPUs, NEW cur \in Envs \cup {None}, NEW st \in [Envs -> Status],
           NEW pr \in [Envs -> 0 .. MaxPriority], NEW rn \in [Envs -> BOOLEAN],
           SchedYield(c, cur, st, pr, rn)
    PROVE  Outcome(c, cur, st, rn)
<1>1. CASE Scheduler = "RR" /\ RoundRobin(c, cur, st, pr, rn)
  <2>1. CASE \E e \in Runnable(st) : EnvRun(c, cur, e, st, rn)
    BY <1>1, <2>1 DEF Outcome, RoundRobin, Runnable
  <2>2. CASE cur \in Envs /\ st[cur] = "RUNNING" /\ EnvRun(c, cur, cur, st, rn)
    BY <1>1, <2>2 DEF Outcome, RoundRobin
  <2>3. CASE /\ ~(cur \in Envs /\ st[cur] = "RUNNING") /\ Runnable(st) = {}
             /\ SchedHalt(c, cur, st, rn)
    BY <1>1, <2>3 DEF Outcome, RoundRobin
  <2> QED
    BY <1>1, <2>1, <2>2, <2>3 DEF RoundRobin, FirstInScan
<1>2. CASE Scheduler = "PR" /\ SchedPrioridades(c, cur, st, pr, rn)
  <2> DEFINE start == IF cur = None THEN 0 ELSE cur + 1
  <2>1. CASE \E e \in Elegidos(start, st, pr) : /\ env_priority' = Repriorizar(e, st, pr, rn)
                                                /\ EnvRun(c, cur, e, st, rn)
    <3>1. PICK e \in Elegidos(start, st, pr) : /\ env_priority' = Repriorizar(e, st, pr, rn)
                                               /\ EnvRun(c, cur, e, st, rn)
      BY <2>1
    <3>2. e \in Envs /\ st[e] = "RUNNABLE" /\ pr[e] <= PRIORIDAD_MAX
      BY <3>1 DEF Elegidos, FirstInScan, Elegibles, Runnable
    <3>3. env_priority' \in [Envs -> 0 .. MaxPriority]
      BY <3>1, <3>2, RepriorizarType
    <3> QED
      BY <3>1, <3>2, <3>3 DEF Outcome
  <2>2. CASE /\ env_priority' = pr
             /\ cur \in Envs /\ st[cur] = "RUNNING"
             /\ EnvRun(c, cur, cur, st, rn)
    BY <2>2 DEF Outcome
  <2>3. CASE /\ env_priority' = pr /\ Elegibles(st, pr) = {}
             /\ ~(cur \in Envs /\ st[cur] = "RUNNING" /\ env_cpunum[cur] = c)
             /\ SchedHalt(c, cur, st, rn)
    <3>1. PrioritiesBounded => Runnable(st) = {}
      BY <1>2, <2>3, PriorityAssumption DEF PrioritiesBounded, Elegibles, Runnable
    <3> QED
      BY <2>3, <3>1 DEF Outcome
  <2> QED
    BY <1>2, <2>1, <2>2, <2>3 DEF SchedPrioridades
<1> QED
  BY <1>1, <1>2 DEF SchedYield

\* ... and so does a trap that ends.
LEMMA TrapEndOutcome ==
    ASSUME NEW c \in CPUs, curenv[c] \in Envs, NEW st \in [Envs -> Status],
           NEW pr \in [Envs -> 0 .. MaxPriority], NEW rn \in [Envs -> BOOLEAN],
           TrapEnd(c, st, pr, rn)
    PROVE  Outcome(c, curenv[c], st, rn)
<1>1. CASE st[curenv[c]] = "RUNNING"
  BY <1>1 DEF TrapEnd, Outcome
<1>2. CASE st[curenv[c]] # "RUNNING"
  BY <1>2, SchedYieldOutcome DEF TrapEnd
<1> QED
  BY <1>1, <1>2

-----------------------------------------------------------------------------
(***************************************************************************)
(* Types.                                                                  *)
(***************************************************************************)

\* A CPU in user mode or serving a trap from it has a curenv: the assert of trap().
CurenvSet == \A c \in CPUs : pc[c] \in UserPC => curenv[c] \in Envs

TypeInv == TypeOK /\ CurenvSet

\* The variables the scheduler writes, after any outcome
SchedVarsOK ==
    /\ env_status \in [Envs -> Status]
    /\ env_priority \in [Envs -> 0 .. MaxPriority]
    /\ env_ran \in [Envs -> BOOLEAN]
    /\ curenv \in [CPUs -> Envs \cup {None}]
    /\ cpu_status \in [CPUs -> {"STARTED", "HALTED"}]
    /\ kernel_lock \in CPUs \cup {None}
    /\ pc \in [CPUs -> UserPC \cup IdlePC \cup KernPC]
    /\ CurenvSet

\* The rest of the table
TableOK ==
    /\ env_id \in [Envs -> EnvIds]
    /\ env_parent_id \in [Envs -> EnvIds]
    /\ env_cpunum \in [Envs -> CPUs]
    /\ env_ipc_recving \in [Envs -> BOOLEAN]
    /\ env_free_list \in Seq(Envs)

LEMMA TypeInvParts == TypeInv' <=> SchedVarsOK' /\ TableOK'
BY DEF TypeInv, TypeOK, SchedVarsOK, TableOK

\* Any outcome of a handler keeps the types.
LEMMA OutcomeType ==
    ASSUME TypeInv, NEW c \in CPUs, NEW cur \in Envs \cup {None},
           NEW st \in [Envs -> Status], NEW rn \in [Envs -> BOOLEAN],
           Outcome(c, cur, st, rn)
    PROVE  SchedVarsOK'
<1>1. CASE \E e \in Envs : EnvRun(c, cur, e, st, rn)
  <2>1. PICK e \in Envs : EnvRun(c, cur, e, st, rn)
    BY <1>1
  <2>2. /\ env_status' \in [Envs -> Status]
        /\ env_ran' \in [Envs -> BOOLEAN]
        /\ env_priority' \in [Envs -> 0 .. MaxPriority]
    BY <2>1 DEF EnvRun, Outcome, Status
  <2>3. /\ curenv' \in [CPUs -> Envs \cup {None}]
        /\ cpu_status' \in [CPUs -> {"STARTED", "HALTED"}]
        /\ kernel_lock' \in CPUs \cup {None}
        /\ pc' \in [CPUs -> UserPC \cup IdlePC \cup KernPC]
        /\ CurenvSet'
    BY <2>1 DEF EnvRun, TypeInv, TypeOK, CurenvSet, UserPC
  <2> QED
    BY <2>2, <2>3 DEF SchedVarsOK
<1>2. CASE SchedHalt(c, cur, st, rn)
  <2>1. /\ env_status' \in [Envs -> Status]
        /\ env_ran' \in [Envs -> BOOLEAN]
        /\ env_priority' \in [Envs -> 0 .. MaxPriority]
    BY <1>2 DEF SchedHalt, Outcome
  <2>2. /\ cpu_status' \in [CPUs -> {"STARTED", "HALTED"}]
        /\ kernel_lock' \in CPUs \cup {None}
        /\ curenv' \in [CPUs -> Envs \cup {None}]
    BY <1>2 DEF SchedHalt, TypeInv, TypeOK
  <2>3. /\ pc' \in [CPUs -> UserPC \cup IdlePC \cup KernPC]
        /\ CurenvSet'
    BY <1>2 DEF SchedHalt, TypeInv, TypeOK, CurenvSet, UserPC, IdlePC, KernPC
  <2> QED
    BY <2>1, <2>2, <2>3 DEF SchedVarsOK
<1> QED
  BY <1>1, <1>2 DEF Outcome

LEMMA FreedType ==
    ASSUME TypeInv, NEW e \in Envs
    PROVE  Freed(e) \in [Envs -> Status] /\ Push(e) \in Seq(Envs)
BY DEF Freed, Push, TypeInv, TypeOK, Status

LEMMA EnvIdType ==
    ASSUME NEW g \in 0 .. GenLimit, NEW e \in Envs
    PROVE  EnvId(g, e) \in EnvIds
BY DEF EnvId, EnvIds

LEMMA NextGenType ==
    ASSUME TypeInv, NEW e \in Envs
    PROVE  NextGen(e) \in 0 .. GenLimit
BY GenLimitAssumption DEF NextGen, TypeInv, TypeOK, EnvIds

-----------------------------------------------------------------------------
(***************************************************************************)
(* The handlers, one by one: what each has made of the statuses when its   *)
(* outcome is decided.                                                     *)
(***************************************************************************)

LEMMA TypeFacts ==
    ASSUME TypeInv
    PROVE  /\ env_status \in [Envs -> Status]
           /\ env_priority \in [Envs -> 0 .. MaxPriority]
           /\ env_ran \in [Envs -> BOOLEAN]
           /\ TableOK
           /\ \A c \in CPUs : pc[c] = "kern" => curenv[c] \in Envs
           /\ \A e \in Envs, s \in Status : [env_status EXCEPT ![e] = s] \in [Envs -> Status]
BY DEF TypeInv, TypeOK, TableOK, CurenvSet, UserPC

LEMMA StatusNames ==
    {"FREE", "DYING", "RUNNABLE", "RUNNING", "NOT_RUNNABLE"} \subseteq Status
BY DEF Status

LEMMA SchedIdleOutcome ==
    ASSUME TypeInv, NEW c \in CPUs, SchedIdle(c)
    PROVE  Outcome(c, None, env_status, env_ran)
BY TypeFacts, SchedYieldOutcome DEF SchedIdle

LEMMA ReapZombieOutcome ==
    ASSUME TypeInv, NEW c \in CPUs, ReapZombie(c)
    PROVE  curenv[c] \in Envs /\ Outcome(c, None, Freed(curenv[c]), env_ran)
BY TypeFacts, FreedType, SchedYieldOutcome DEF ReapZombie

LEMMA YieldOutcome ==
    ASSUME TypeInv, NEW c \in CPUs, Yield(c)
    PROVE  curenv[c] \in Envs /\ Outcome(c, curenv[c], env_status, env_ran)
BY TypeFacts, SchedYieldOutcome DEF Yield

LEMMA NoEffectOutcome ==
    ASSUME TypeInv, NEW c \in CPUs, NoEffect(c)
    PROVE  curenv[c] \in Envs /\ Outcome(c, curenv[c], env_status, env_ran)
BY TypeFacts, TrapEndOutcome DEF NoEffect, InKernel

LEMMA SysExoforkOutcome ==
    ASSUME TypeInv, NEW c \in CPUs, SysExofork(c), NEW e, e = Head(env_free_list)
    PROVE  /\ curenv[c] \in Envs /\ e \in Envs
           /\ Tail(env_free_list) \in Seq(Envs)
           /\ [env_ran EXCEPT ![e] = FALSE] \in [Envs -> BOOLEAN]
           /\ Outcome(c, curenv[c], [env_status EXCEPT ![e] = "NOT_RUNNABLE"],
                      [env_ran EXCEPT ![e] = FALSE])
<1> DEFINE st == [env_status EXCEPT ![e] = "NOT_RUNNABLE"]
           pr == [env_priority EXCEPT ![e] = env_priority[curenv[c]]]
           rn == [env_ran EXCEPT ![e] = FALSE]
<1>1. e \in Envs /\ Tail(env_free_list) \in Seq(Envs) /\ curenv[c] \in Envs
  BY TypeFacts DEF SysExofork, InKernel, TableOK
<1>2. st \in [Envs -> Status] /\ pr \in [Envs -> 0 .. MaxPriority] /\ rn \in [Envs -> BOOLEAN]
  BY <1>1, TypeFacts, StatusNames
<1>3. TrapEnd(c, st, pr, rn)
  BY DEF SysExofork
<1>4. Outcome(c, curenv[c], st, rn)
  <2> HIDE DEF st, pr, rn
  <2> QED BY <1>1, <1>2, <1>3, TrapEndOutcome
<1> QED
  BY <1>1, <1>2, <1>4

SetsStatus(c, id, s, e) ==
    /\ Envid2env(c, id, e, TRUE)
    /\ \/ "set_status_any" \in Calls
       \/ e # curenv[c] => env_status[e] = "NOT_RUNNABLE" /\ ~env_ran[e]
    /\ [env_status EXCEPT ![e] = s] \in [Envs -> Status]
    /\ Outcome(c, curenv[c], [env_status EXCEPT ![e] = s], env_ran)

LEMMA SysEnvSetStatusOutcome ==
    ASSUME TypeInv, NEW c \in CPUs, NEW id \in EnvIds,
           NEW s \in {"RUNNABLE", "NOT_RUNNABLE"}, SysEnvSetStatus(c, id, s)
    PROVE  /\ curenv[c] \in Envs
           /\ \E e \in Envs : SetsStatus(c, id, s, e)
<1>1. curenv[c] \in Envs
  BY TypeFacts DEF SysEnvSetStatus, InKernel
<1>2. PICK e \in Envs :
          /\ Envid2env(c, id, e, TRUE)
          /\ \/ "set_status_any" \in Calls
             \/ e # curenv[c] => env_status[e] = "NOT_RUNNABLE" /\ ~env_ran[e]
          /\ TrapEnd(c, [env_status EXCEPT ![e] = s], env_priority, env_ran)
  BY DEF SysEnvSetStatus
<1>3. [env_status EXCEPT ![e] = s] \in [Envs -> Status]
  BY TypeFacts, StatusNames
<1>4. Outcome(c, curenv[c], [env_status EXCEPT ![e] = s], env_ran)
  BY <1>1, <1>2, <1>3, TypeFacts, TrapEndOutcome
<1> QED
  BY <1>1, <1>2, <1>3, <1>4 DEF SetsStatus

\* The three ways env_destroy goes: mark a zombie, free another environment,
\* free the caller.
LEMMA SysEnvDestroyOutcome ==
    ASSUME TypeInv, NEW c \in CPUs, NEW id \in EnvIds, SysEnvDestroy(c, id)
    PROVE  /\ curenv[c] \in Envs
           /\ \E e \in Envs :
                 /\ Envid2env(c, id, e, TRUE)
                 /\ env_status[e] = "DYING" => "destroy_dying" \in Calls
                 /\ \/ /\ env_status[e] = "RUNNING" /\ e # curenv[c]
                       /\ [env_status EXCEPT ![e] = "DYING"] \in [Envs -> Status]
                       /\ Outcome(c, curenv[c], [env_status EXCEPT ![e] = "DYING"], env_ran)
                       /\ UNCHANGED env_free_list
                    \/ /\ env_status[e] # "RUNNING" /\ e # curenv[c]
                       /\ Outcome(c, curenv[c], Freed(e), env_ran)
                       /\ env_free_list' = Push(e)
                    \/ /\ e = curenv[c]
                       /\ Outcome(c, None, Freed(e), env_ran)
                       /\ env_free_list' = Push(e)
<1>1. curenv[c] \in Envs
  BY TypeFacts DEF SysEnvDestroy, InKernel
<1>2. PICK e \in Envs :
          /\ Envid2env(c, id, e, TRUE)
          /\ env_status[e] = "DYING" => "destroy_dying" \in Calls
          /\ \/ /\ env_status[e] = "RUNNING" /\ e # curenv[c]
                /\ TrapEnd(c, [env_status EXCEPT ![e] = "DYING"], env_priority, env_ran)
                /\ UNCHANGED env_free_list
             \/ /\ env_status[e] # "RUNNING" /\ e # curenv[c]
                /\ TrapEnd(c, Freed(e), env_priority, env_ran)
                /\ env_free_list' = Push(e)
             \/ /\ e = curenv[c]
                /\ SchedYield(c, None, Freed(e), env_priority, env_ran)
                /\ env_free_list' = Push(e)
  BY DEF SysEnvDestroy
<1>3. Freed(e) \in [Envs -> Status] /\ [env_status EXCEPT ![e] = "DYING"] \in [Envs -> Status]
  BY FreedType, TypeFacts, StatusNames
<1> QED
  BY <1>1, <1>2, <1>3, TypeFacts, TrapEndOutcome, SchedYieldOutcome

LEMMA SysIpcRecvOutcome ==
    ASSUME TypeInv, NEW c \in CPUs, SysIpcRecv(c)
    PROVE  /\ curenv[c] \in Envs
           /\ [env_status EXCEPT ![curenv[c]] = "NOT_RUNNABLE"] \in [Envs -> Status]
           /\ Outcome(c, curenv[c], [env_status EXCEPT ![curenv[c]] = "NOT_RUNNABLE"], env_ran)
<1>1. curenv[c] \in Envs
  BY TypeFacts DEF SysIpcRecv, InKernel
<1>2. [env_status EXCEPT ![curenv[c]] = "NOT_RUNNABLE"] \in [Envs -> Status]
  BY <1>1, TypeFacts, StatusNames
<1> QED
  BY <1>1, <1>2, TypeFacts, SchedYieldOutcome DEF SysIpcRecv

LEMMA SysIpcRecvBadVaOutcome ==
    ASSUME TypeInv, NEW c \in CPUs, SysIpcRecvBadVa(c)
    PROVE  curenv[c] \in Envs /\ Outcome(c, curenv[c], env_status, env_ran)
BY TypeFacts, TrapEndOutcome DEF SysIpcRecvBadVa, InKernel

LEMMA SysIpcTrySendOutcome ==
    ASSUME TypeInv, NEW c \in CPUs, NEW id \in EnvIds, SysIpcTrySend(c, id)
    PROVE  /\ curenv[c] \in Envs
           /\ \E e \in Envs :
                 /\ Envid2env(c, id, e, FALSE)
                 /\ env_ipc_recving[e]
                 /\ env_ipc_recving' = [env_ipc_recving EXCEPT ![e] = FALSE]
                 /\ [env_status EXCEPT ![e] = "RUNNABLE"] \in [Envs -> Status]
                 /\ Outcome(c, curenv[c], [env_status EXCEPT ![e] = "RUNNABLE"], env_ran)
<1>1. curenv[c] \in Envs
  BY TypeFacts DEF SysIpcTrySend, InKernel
<1>2. PICK e \in Envs :
          /\ Envid2env(c, id, e, FALSE)
          /\ env_ipc_recving[e]
          /\ env_ipc_recving' = [env_ipc_recving EXCEPT ![e] = FALSE]
          /\ TrapEnd(c, [env_status EXCEPT ![e] = "RUNNABLE"], env_priority, env_ran)
  BY DEF SysIpcTrySend
<1>3. [env_status EXCEPT ![e] = "RUNNABLE"] \in [Envs -> Status]
  BY TypeFacts, StatusNames
<1> QED
  BY <1>1, <1>2, <1>3, TypeFacts, TrapEndOutcome

LEMMA SysModificarPrioridadOutcome ==
    ASSUME TypeInv, NEW c \in CPUs, SysModificarPrioridad(c)
    PROVE  curenv[c] \in Envs /\ Outcome(c, curenv[c], env_status, env_ran)
<1>1. curenv[c] \in Envs
  BY TypeFacts DEF SysModificarPrioridad, InKernel
<1>2. [env_priority EXCEPT ![curenv[c]] = @ + 1] \in [Envs -> 0 .. MaxPriority]
  BY <1>1, TypeFacts, PriorityAssumption DEF SysModificarPrioridad
<1> QED
  BY <1>1, <1>2, TypeFacts, TrapEndOutcome DEF SysModificarPrioridad

LEMMA HandlerType ==
    ASSUME TypeInv, NEW c \in CPUs, Handler(c)
    PROVE  TypeInv'
<1>0. TableOK /\ env_status \in [Envs -> Status] /\ env_ran \in [Envs -> BOOLEAN]
  BY TypeFacts
<1>1. CASE SchedIdle(c)
  BY <1>0, <1>1, SchedIdleOutcome, OutcomeType, TypeInvParts DEF SchedIdle, tableVars, TableOK
<1>2. CASE ReapZombie(c)
  BY <1>0, <1>2, ReapZombieOutcome, OutcomeType, TypeInvParts, FreedType DEF ReapZombie, TableOK
<1>3. CASE Yield(c)
  BY <1>0, <1>3, YieldOutcome, OutcomeType, TypeInvParts DEF Yield, tableVars, TableOK
<1>4. CASE NoEffect(c)
  BY <1>0, <1>4, NoEffectOutcome, OutcomeType, TypeInvParts DEF NoEffect, tableVars, TableOK
<1>5. CASE SysExofork(c)
  <2> DEFINE e == Head(env_free_list)
  <2>1. SchedVarsOK'
    BY <1>0, <1>5, SysExoforkOutcome, OutcomeType, TypeFacts, StatusNames
  <2>2. e \in Envs /\ curenv[c] \in Envs /\ Tail(env_free_list) \in Seq(Envs)
    BY <1>5, SysExoforkOutcome
  <2>3. EnvId(NextGen(e), e) \in EnvIds
    BY <2>2, NextGenType, EnvIdType
  <2>4. TableOK'
    BY <1>0, <1>5, <2>2, <2>3 DEF SysExofork, TableOK
  <2> QED
    BY <2>1, <2>4, TypeInvParts
<1>6. ASSUME NEW id \in EnvIds, SysEnvDestroy(c, id) PROVE TypeInv'
  BY <1>0, <1>6, SysEnvDestroyOutcome, OutcomeType, FreedType, TypeInvParts
     DEF SysEnvDestroy, TableOK
<1>7. ASSUME NEW id \in EnvIds, SysIpcTrySend(c, id) PROVE TypeInv'
  BY <1>0, <1>7, SysIpcTrySendOutcome, OutcomeType, TypeInvParts DEF SysIpcTrySend, TableOK
<1>8. ASSUME NEW id \in EnvIds, NEW s \in {"RUNNABLE", "NOT_RUNNABLE"},
             SysEnvSetStatus(c, id, s)
      PROVE  TypeInv'
  BY <1>0, <1>8, SysEnvSetStatusOutcome, OutcomeType, TypeInvParts
     DEF SetsStatus, SysEnvSetStatus, tableVars, TableOK
<1>9. CASE SysIpcRecv(c)
  BY <1>0, <1>9, SysIpcRecvOutcome, OutcomeType, TypeInvParts DEF SysIpcRecv, TableOK
<1>10. CASE SysIpcRecvBadVa(c)
  BY <1>0, <1>10, SysIpcRecvBadVaOutcome, OutcomeType, TypeInvParts DEF SysIpcRecvBadVa, TableOK
<1>11. CASE SysModificarPrioridad(c)
  BY <1>0, <1>11, SysModificarPrioridadOutcome, OutcomeType, TypeInvParts
     DEF SysModificarPrioridad, tableVars, TableOK
<1>12. CASE Panic(c)
  BY <1>12 DEF Panic, TypeInv, TypeOK, CurenvSet, envVars, UserPC, KernPC
<1> QED
  BY <1>1, <1>2, <1>3, <1>4, <1>5, <1>6, <1>7, <1>8, <1>9, <1>10, <1>11, <1>12 DEF Handler

-----------------------------------------------------------------------------
\* TypeInv is inductive.
LEMMA TypeInduction == Spec => []TypeInv
<1>1. Init => TypeInv
  <2> SUFFICES ASSUME Init PROVE TypeInv
    OBVIOUS
  <2>1. ZeroId \in EnvIds /\ \A e \in Envs : EnvId(1, e) \in EnvIds
    BY GenLimitAssumption, NENVAssumption DEF ZeroId, EnvId, EnvIds, Envs
  <2>2. env_free_list \in Seq(Envs)
    <3>1. NENV - NInitial \in Nat /\ \A i \in 1 .. NENV - NInitial : NInitial + i - 1 \in Envs
      BY NENVAssumption, NInitialAssumption DEF Envs
    <3> QED
      BY <3>1 DEF Init
  <2>3. env_priority \in [Envs -> 0 .. MaxPriority]
    BY PriorityAssumption DEF Init
  <2> QED
    BY <2>1, <2>2, <2>3, CPUsAssumption DEF Init, TypeInv, TypeOK, CurenvSet, Status, UserPC, IdlePC, KernPC
<1>2. TypeInv /\ [Next]_vars => TypeInv'
  <2> SUFFICES ASSUME TypeInv, [Next]_vars PROVE TypeInv'
    OBVIOUS
  <2> USE DEF TypeInv, TypeOK, CurenvSet, UserPC, IdlePC, KernPC
  <2>1. ASSUME NEW c \in CPUs, TrapUser(c) PROVE TypeInv'
    BY <2>1 DEF TrapUser, envVars
  <2>2. ASSUME NEW c \in CPUs, TimerHalted(c) PROVE TypeInv'
    BY <2>2 DEF TimerHalted, envVars
  <2>3. ASSUME NEW c \in CPUs, Lock(c) PROVE TypeInv'
    BY <2>3 DEF Lock, envVars
  <2>4. ASSUME NEW c \in CPUs, ReturnToUser(c) PROVE TypeInv'
    BY <2>4 DEF ReturnToUser
  <2>5. CASE UNCHANGED vars
    BY <2>5 DEF vars, envVars
  <2> QED
    BY <2>1, <2>2, <2>3, <2>4, <2>5, HandlerType DEF Next, Monitor
<1> QED
  BY <1>1, <1>2, PTL DEF Spec

\* TypeOK holds of every behaviour, whatever calls the programs make: a CPU in
\* user mode always has a curenv, priorities stay in range, and generations
\* wrap instead of growing.
THEOREM TypeCorrect == Spec => []TypeOK
<1>1. TypeInv => TypeOK
  BY DEF TypeInv
<1> QED
  BY <1>1, TypeInduction, PTL

-----------------------------------------------------------------------------
(***************************************************************************)
(* The big kernel lock.                                                    *)
(***************************************************************************)

\* KernelLock is not inductive: the timer of a halted CPU takes the lock only
\* because sched_halt has left CPU_HALTED behind.
LockInv ==
    /\ KernelLock
    /\ \A c \in CPUs : pc[c] = "halted" => cpu_status[c] = "HALTED"

\* A handler gives the lock up, or ends in the monitor with it.
LEMMA OutcomeLock ==
    ASSUME TypeInv, LockInv, NEW c \in CPUs, pc[c] \in {"kern", "kern_idle"},
           NEW cur \in Envs \cup {None}, NEW st \in [Envs -> Status],
           NEW rn \in [Envs -> BOOLEAN], Outcome(c, cur, st, rn)
    PROVE  LockInv'
<1>0. /\ pc \in [CPUs -> UserPC \cup IdlePC \cup KernPC]
      /\ cpu_status \in [CPUs -> {"STARTED", "HALTED"}]
      /\ kernel_lock = c /\ None \notin CPUs
      /\ \A d \in CPUs : pc[d] \in KernPC <=> d = c
      /\ \A d \in CPUs : pc[d] = "halted" => cpu_status[d] = "HALTED"
  BY NoneAssumption DEF TypeInv, TypeOK, LockInv, KernelLock, KernPC
<1>1. CASE \E e \in Envs : EnvRun(c, cur, e, st, rn)
  <2>1. /\ kernel_lock' = None
        /\ cpu_status' = cpu_status
        /\ pc' = [pc EXCEPT ![c] = "leave"]
    BY <1>1 DEF EnvRun
  <2> QED
    BY <1>0, <2>1 DEF LockInv, KernelLock, KernPC
<1>2. CASE SchedHalt(c, cur, st, rn)
  <2>1. \/ /\ kernel_lock' = None
           /\ cpu_status' = [cpu_status EXCEPT ![c] = "HALTED"]
           /\ pc' = [pc EXCEPT ![c] = "halted"]
        \/ /\ kernel_lock' = kernel_lock /\ cpu_status' = cpu_status
           /\ pc' = [pc EXCEPT ![c] = "monitor"]
    BY <1>2 DEF SchedHalt
  <2> QED
    BY <1>0, <2>1 DEF LockInv, KernelLock, KernPC
<1> QED
  BY <1>1, <1>2 DEF Outcome

LEMMA HandlerLock ==
    ASSUME TypeInv, LockInv, NEW c \in CPUs, Handler(c)
    PROVE  LockInv'
<1>0. /\ env_status \in [Envs -> Status] /\ env_ran \in [Envs -> BOOLEAN]
      /\ \A e \in Envs : Freed(e) \in [Envs -> Status]
  BY TypeFacts, FreedType
<1>1. CASE SchedIdle(c)
  BY <1>0, <1>1, SchedIdleOutcome, OutcomeLock DEF SchedIdle
<1>2. CASE ReapZombie(c)
  BY <1>0, <1>2, ReapZombieOutcome, OutcomeLock DEF ReapZombie
<1>3. CASE Yield(c)
  BY <1>0, <1>3, YieldOutcome, OutcomeLock DEF Yield
<1>4. CASE NoEffect(c)
  BY <1>0, <1>4, NoEffectOutcome, OutcomeLock DEF NoEffect, InKernel
<1>5. CASE SysExofork(c)
  BY <1>0, <1>5, SysExoforkOutcome, OutcomeLock, TypeFacts, StatusNames DEF SysExofork, InKernel
<1>6. ASSUME NEW id \in EnvIds, SysEnvDestroy(c, id) PROVE LockInv'
  BY <1>0, <1>6, SysEnvDestroyOutcome, OutcomeLock DEF SysEnvDestroy, InKernel
<1>7. ASSUME NEW id \in EnvIds, SysIpcTrySend(c, id) PROVE LockInv'
  BY <1>0, <1>7, SysIpcTrySendOutcome, OutcomeLock DEF SysIpcTrySend, InKernel
<1>8. ASSUME NEW id \in EnvIds, NEW s \in {"RUNNABLE", "NOT_RUNNABLE"},
             SysEnvSetStatus(c, id, s)
      PROVE  LockInv'
  BY <1>0, <1>8, SysEnvSetStatusOutcome, OutcomeLock DEF SetsStatus, SysEnvSetStatus, InKernel
<1>9. CASE SysIpcRecv(c)
  BY <1>0, <1>9, SysIpcRecvOutcome, OutcomeLock DEF SysIpcRecv, InKernel
<1>10. CASE SysIpcRecvBadVa(c)
  BY <1>0, <1>10, SysIpcRecvBadVaOutcome, OutcomeLock DEF SysIpcRecvBadVa, InKernel
<1>11. CASE SysModificarPrioridad(c)
  BY <1>0, <1>11, SysModificarPrioridadOutcome, OutcomeLock DEF SysModificarPrioridad, InKernel
<1>12. CASE Panic(c)
  BY <1>12 DEF Panic, LockInv, KernelLock, KernPC, TypeInv, TypeOK, envVars
<1> QED
  BY <1>1, <1>2, <1>3, <1>4, <1>5, <1>6, <1>7, <1>8, <1>9, <1>10, <1>11, <1>12 DEF Handler

\* LockInv is inductive.
LEMMA LockInduction == Spec => []LockInv
<1>1. Init => LockInv
  BY CPUsAssumption, NoneAssumption DEF Init, LockInv, KernelLock, KernPC
<1>2. TypeInv /\ LockInv /\ [Next]_vars => LockInv'
  <2> SUFFICES ASSUME TypeInv, LockInv, [Next]_vars PROVE LockInv'
    OBVIOUS
  <2> USE NoneAssumption DEF TypeInv, TypeOK, LockInv, KernelLock, KernPC
  <2>1. ASSUME NEW c \in CPUs, TrapUser(c) PROVE LockInv'
    BY <2>1 DEF TrapUser
  <2>2. ASSUME NEW c \in CPUs, TimerHalted(c) PROVE LockInv'
    BY <2>2 DEF TimerHalted
  <2>3. ASSUME NEW c \in CPUs, Lock(c) PROVE LockInv'
    BY <2>3 DEF Lock
  <2>4. ASSUME NEW c \in CPUs, ReturnToUser(c) PROVE LockInv'
    BY <2>4 DEF ReturnToUser
  <2>5. CASE UNCHANGED vars
    BY <2>5 DEF vars
  <2> QED
    BY <2>1, <2>2, <2>3, <2>4, <2>5, HandlerLock DEF Next, Monitor
<1> QED
  BY <1>1, <1>2, TypeInduction, PTL DEF Spec

\* The holder of the lock is exactly the CPU inside the kernel, whatever calls
\* the programs make and however traps, halts and switches interleave.
THEOREM LockHeldInKernel == Spec => []KernelLock
<1>1. LockInv => KernelLock
  BY DEF LockInv
<1> QED
  BY <1>1, LockInduction, PTL

-----------------------------------------------------------------------------
(***************************************************************************)
(* The free list.                                                          *)
(***************************************************************************)

\* The scheduler neither frees nor revives anything.
LEMMA OutcomeFree ==
    ASSUME NEW c \in CPUs, NEW cur \in Envs \cup {None},
           NEW st \in [Envs -> Status], NEW rn \in [Envs -> BOOLEAN],
           Outcome(c, cur, st, rn), NEW e \in Envs
    PROVE  env_status'[e] = "FREE" <=> st[e] = "FREE"
BY DEF Outcome, EnvRun, SchedHalt

\* FreeListExact for statuses st and a list l
ListsFree(l, st) ==
    /\ \A e \in Envs : st[e] = "FREE" <=> \E i \in DOMAIN l : l[i] = e
    /\ \A i, j \in DOMAIN l : l[i] = l[j] => i = j

LEMMA OutcomeList ==
    ASSUME NEW c \in CPUs, NEW cur \in Envs \cup {None},
           NEW st \in [Envs -> Status], NEW rn \in [Envs -> BOOLEAN],
           Outcome(c, cur, st, rn), ListsFree(env_free_list', st)
    PROVE  FreeListExact'
BY OutcomeFree DEF ListsFree, FreeListExact

\* Taking the head out and occupying its slot
LEMMA TailListsFree ==
    ASSUME NEW l \in Seq(Envs), l # <<>>, NEW st \in [Envs -> Status], ListsFree(l, st),
           NEW s \in Status, s # "FREE"
    PROVE  ListsFree(Tail(l), [st EXCEPT ![Head(l)] = s])
<1>1. Len(l) \in Nat \ {0} /\ Head(l) = l[1] /\ Head(l) \in Envs /\ 1 \in DOMAIN l
  OBVIOUS
<1>2. /\ DOMAIN Tail(l) = 1 .. Len(l) - 1
      /\ \A i \in 1 .. Len(l) - 1 : Tail(l)[i] = l[i + 1] /\ i + 1 \in DOMAIN l
  BY <1>1
<1>3. \A i \in DOMAIN l : i # 1 => i - 1 \in 1 .. Len(l) - 1 /\ Tail(l)[i - 1] = l[i]
  BY <1>1, <1>2
<1>4. \A i, j \in DOMAIN Tail(l) : Tail(l)[i] = Tail(l)[j] => i = j
  <2> TAKE i, j \in DOMAIN Tail(l)
  <2> HAVE Tail(l)[i] = Tail(l)[j]
  <2>1. l[i + 1] = l[j + 1] /\ i + 1 \in DOMAIN l /\ j + 1 \in DOMAIN l
    BY <1>2
  <2>2. i + 1 = j + 1
    BY <2>1 DEF ListsFree
  <2> QED
    BY <1>2, <2>2
<1>5. ASSUME NEW e \in Envs
      PROVE  [st EXCEPT ![Head(l)] = s][e] = "FREE"
             <=> \E i \in DOMAIN Tail(l) : Tail(l)[i] = e
  <2>1. CASE e = Head(l)
    <3>1. \A i \in DOMAIN Tail(l) : Tail(l)[i] # e
      <4> SUFFICES ASSUME NEW i \in DOMAIN Tail(l), Tail(l)[i] = e PROVE FALSE
        OBVIOUS
      <4>1. l[i + 1] = l[1] /\ i + 1 \in DOMAIN l /\ i + 1 # 1
        BY <1>1, <1>2, <2>1
      <4> QED
        BY <1>1, <4>1 DEF ListsFree
    <3> QED
      BY <2>1, <3>1
  <2>2. CASE e # Head(l)
    <3>1. st[e] = "FREE" <=> \E i \in DOMAIN l : l[i] = e
      BY DEF ListsFree
    <3>2. (\E i \in DOMAIN l : l[i] = e) <=> \E i \in DOMAIN Tail(l) : Tail(l)[i] = e
      BY <1>1, <1>2, <1>3, <2>2
    <3> QED
      BY <2>2, <3>1, <3>2
  <2> QED
    BY <2>1, <2>2
<1> QED
  BY <1>4, <1>5 DEF ListsFree

\* Pushing a slot that was not free
LEMMA PushListsFree ==
    ASSUME NEW l \in Seq(Envs), NEW st \in [Envs -> Status], ListsFree(l, st),
           NEW e \in Envs, st[e] # "FREE"
    PROVE  ListsFree(<<e>> \o l, [st EXCEPT ![e] = "FREE"])
<1> DEFINE m == <<e>> \o l
<1>1. /\ Len(l) \in Nat /\ DOMAIN l = 1 .. Len(l)
      /\ DOMAIN m = 1 .. Len(l) + 1 /\ m[1] = e
      /\ \A i \in 2 .. Len(l) + 1 : m[i] = l[i - 1] /\ i - 1 \in DOMAIN l
      /\ \A i \in DOMAIN l : i + 1 \in DOMAIN m /\ m[i + 1] = l[i]
  OBVIOUS
<1> HIDE DEF m
<1>2. \A i \in DOMAIN l : l[i] # e
  BY DEF ListsFree
<1>3. \A i, j \in DOMAIN m : m[i] = m[j] => i = j
  <2> TAKE i, j \in DOMAIN m
  <2> HAVE m[i] = m[j]
  <2>1. CASE i = 1 \/ j = 1
    <3>1. \A k \in DOMAIN m : k # 1 => m[k] # e
      <4> TAKE k \in DOMAIN m
      <4> HAVE k # 1
      <4>1. k \in 2 .. Len(l) + 1
        BY <1>1
      <4>2. m[k] = l[k - 1] /\ k - 1 \in DOMAIN l
        BY <1>1, <4>1
      <4> QED
        BY <1>2, <4>2
    <3> QED
      BY <1>1, <2>1, <3>1
  <2>2. CASE i # 1 /\ j # 1
    <3>1. i - 1 \in DOMAIN l /\ j - 1 \in DOMAIN l /\ l[i - 1] = l[j - 1]
      BY <1>1, <2>2
    <3>2. i - 1 = j - 1
      BY <3>1 DEF ListsFree
    <3> QED
      BY <1>1, <3>2
  <2> QED
    BY <2>1, <2>2
<1>4. ASSUME NEW f \in Envs
      PROVE  [st EXCEPT ![e] = "FREE"][f] = "FREE" <=> \E i \in DOMAIN m : m[i] = f
  <2>1. CASE f = e
    BY <1>1, <2>1
  <2>2. CASE f # e
    <3>1. st[f] = "FREE" <=> \E i \in DOMAIN l : l[i] = f
      BY DEF ListsFree
    <3>2. ASSUME NEW i \in DOMAIN m, m[i] = f PROVE \E k \in DOMAIN l : l[k] = f
      <4>1. i \in 2 .. Len(l) + 1
        BY <1>1, <2>2, <3>2
      <4> QED
        BY <1>1, <3>2, <4>1
    <3>3. (\E i \in DOMAIN l : l[i] = f) <=> \E i \in DOMAIN m : m[i] = f
      BY <1>1, <3>2
    <3> QED
      BY <2>2, <3>1, <3>3
  <2> QED
    BY <2>1, <2>2
<1> QED
  BY <1>3, <1>4 DEF ListsFree, m

\* Moving a live environment to another live state
LEMMA StatusListsFree ==
    ASSUME NEW l, NEW st \in [Envs -> Status], ListsFree(l, st),
           NEW e \in Envs, st[e] # "FREE", NEW s, s # "FREE"
    PROVE  ListsFree(l, [st EXCEPT ![e] = s])
BY DEF ListsFree

\* envid2env never returns a free slot to a caller that is alive.
LEMMA Envid2envAlive ==
    ASSUME NEW c \in CPUs, InKernel(c), NEW id \in EnvIds, NEW e \in Envs,
           NEW p \in BOOLEAN, Envid2env(c, id, e, p)
    PROVE  env_status[e] # "FREE"
BY DEF InKernel, Envid2env

LEMMA HandlerFree ==
    ASSUME TypeInv, FreeListExact, NEW c \in CPUs, Handler(c)
    PROVE  FreeListExact'
<1>0. /\ ListsFree(env_free_list, env_status)
      /\ env_status \in [Envs -> Status] /\ env_ran \in [Envs -> BOOLEAN]
      /\ env_free_list \in Seq(Envs)
      /\ \A e \in Envs : Freed(e) \in [Envs -> Status]
  BY TypeFacts, FreedType DEF FreeListExact, ListsFree, TableOK
<1>f. ASSUME NEW e \in Envs, env_status[e] # "FREE", env_free_list' = Push(e)
      PROVE  ListsFree(env_free_list', Freed(e))
  BY <1>0, <1>f, PushListsFree DEF Freed, Push
<1>1. CASE SchedIdle(c)
  BY <1>0, <1>1, SchedIdleOutcome, OutcomeList DEF SchedIdle, tableVars
<1>2. CASE ReapZombie(c)
  BY <1>0, <1>2, <1>f, ReapZombieOutcome, OutcomeList DEF ReapZombie
<1>3. CASE Yield(c)
  BY <1>0, <1>3, YieldOutcome, OutcomeList DEF Yield, tableVars
<1>4. CASE NoEffect(c)
  BY <1>0, <1>4, NoEffectOutcome, OutcomeList DEF NoEffect, tableVars
<1>5. CASE SysExofork(c)
  <2> DEFINE e == Head(env_free_list)
  <2>1. e \in Envs /\ env_free_list # <<>> /\ env_free_list' = Tail(env_free_list)
    BY <1>5, SysExoforkOutcome DEF SysExofork
  <2>2. ListsFree(env_free_list', [env_status EXCEPT ![e] = "NOT_RUNNABLE"])
    BY <1>0, <2>1, TailListsFree, StatusNames
  <2>3. [env_status EXCEPT ![e] = "NOT_RUNNABLE"] \in [Envs -> Status]
    BY <2>1, TypeFacts, StatusNames
  <2> QED
    BY <1>5, <2>2, <2>3, SysExoforkOutcome, OutcomeList
<1>6. ASSUME NEW id \in EnvIds, SysEnvDestroy(c, id) PROVE FreeListExact'
  <2>1. PICK e \in Envs :
           /\ Envid2env(c, id, e, TRUE)
           /\ \/ /\ [env_status EXCEPT ![e] = "DYING"] \in [Envs -> Status]
                 /\ Outcome(c, curenv[c], [env_status EXCEPT ![e] = "DYING"], env_ran)
                 /\ UNCHANGED env_free_list
              \/ Outcome(c, curenv[c], Freed(e), env_ran) /\ env_free_list' = Push(e)
              \/ Outcome(c, None, Freed(e), env_ran) /\ env_free_list' = Push(e)
    BY <1>0, <1>6, SysEnvDestroyOutcome
  <2>2. env_status[e] # "FREE" /\ curenv[c] \in Envs
    BY <1>6, <2>1, Envid2envAlive, SysEnvDestroyOutcome DEF SysEnvDestroy
  <2>3. ListsFree(env_free_list, [env_status EXCEPT ![e] = "DYING"])
    BY <1>0, <2>2, StatusListsFree
  <2> QED
    BY <1>0, <1>f, <2>1, <2>2, <2>3, OutcomeList
<1>7. ASSUME NEW id \in EnvIds, SysIpcTrySend(c, id) PROVE FreeListExact'
  <2>1. PICK e \in Envs :
           /\ Envid2env(c, id, e, FALSE)
           /\ [env_status EXCEPT ![e] = "RUNNABLE"] \in [Envs -> Status]
           /\ Outcome(c, curenv[c], [env_status EXCEPT ![e] = "RUNNABLE"], env_ran)
    BY <1>0, <1>7, SysIpcTrySendOutcome
  <2>2. env_status[e] # "FREE" /\ curenv[c] \in Envs
    BY <1>7, <2>1, Envid2envAlive, SysIpcTrySendOutcome DEF SysIpcTrySend
  <2>3. ListsFree(env_free_list, [env_status EXCEPT ![e] = "RUNNABLE"])
    BY <1>0, <2>2, StatusListsFree
  <2> QED
    BY <1>0, <1>7, <2>1, <2>2, <2>3, OutcomeList DEF SysIpcTrySend
<1>8. ASSUME NEW id \in EnvIds, NEW s \in {"RUNNABLE", "NOT_RUNNABLE"},
             SysEnvSetStatus(c, id, s)
      PROVE  FreeListExact'
  <2>0. PICK e \in Envs : SetsStatus(c, id, s, e)
    BY <1>0, <1>8, SysEnvSetStatusOutcome
  <2>1. /\ Envid2env(c, id, e, TRUE)
        /\ [env_status EXCEPT ![e] = s] \in [Envs -> Status]
        /\ Outcome(c, curenv[c], [env_status EXCEPT ![e] = s], env_ran)
    BY <2>0 DEF SetsStatus
  <2>2. env_status[e] # "FREE" /\ curenv[c] \in Envs
    BY <1>8, <2>1, Envid2envAlive, SysEnvSetStatusOutcome DEF SysEnvSetStatus
  <2>3. ListsFree(env_free_list, [env_status EXCEPT ![e] = s])
    BY <1>0, <2>2, StatusListsFree
  <2> QED
    BY <1>0, <1>8, <2>1, <2>2, <2>3, OutcomeList DEF SysEnvSetStatus, tableVars
<1>9. CASE SysIpcRecv(c)
  <2>1. curenv[c] \in Envs /\ env_status[curenv[c]] # "FREE"
    BY <1>9, SysIpcRecvOutcome DEF SysIpcRecv, InKernel
  <2>2. ListsFree(env_free_list, [env_status EXCEPT ![curenv[c]] = "NOT_RUNNABLE"])
    BY <1>0, <2>1, StatusListsFree
  <2> QED
    BY <1>0, <1>9, <2>1, <2>2, SysIpcRecvOutcome, OutcomeList DEF SysIpcRecv
<1>10. CASE SysIpcRecvBadVa(c)
  BY <1>0, <1>10, SysIpcRecvBadVaOutcome, OutcomeList DEF SysIpcRecvBadVa
<1>11. CASE SysModificarPrioridad(c)
  BY <1>0, <1>11, SysModificarPrioridadOutcome, OutcomeList DEF SysModificarPrioridad, tableVars
<1>12. CASE Panic(c)
  BY <1>12 DEF Panic, FreeListExact, envVars
<1> QED
  BY <1>1, <1>2, <1>3, <1>4, <1>5, <1>6, <1>7, <1>8, <1>9, <1>10, <1>11, <1>12 DEF Handler

\* env_free_list is exactly the free slots, each once, whatever calls the
\* programs make: no interleaving of forks, exits and destroys frees a slot
\* twice or hands out one that is in use.
THEOREM FreeListCorrect == Spec => []FreeListExact
<1>1. Init => FreeListExact
  <2> SUFFICES ASSUME Init PROVE FreeListExact
    OBVIOUS
  <2> DEFINE n == NENV - NInitial
  <2>1. n \in Nat /\ NInitial \in Nat /\ NENV \in Nat /\ NENV = NInitial + n
    BY NENVAssumption, NInitialAssumption
  <2>2. /\ DOMAIN env_free_list = 1 .. n
        /\ \A i \in 1 .. n : env_free_list[i] = NInitial + i - 1
    BY DEF Init
  <2>3. \A i, j \in DOMAIN env_free_list : env_free_list[i] = env_free_list[j] => i = j
    BY <2>1, <2>2
  <2>4. ASSUME NEW e \in Envs
        PROVE  env_status[e] = "FREE" <=> \E i \in DOMAIN env_free_list : env_free_list[i] = e
    <3>1. e \in 0 .. NENV - 1 /\ (env_status[e] = "FREE" <=> ~(e < NInitial))
      BY DEF Init, Envs
    <3>2. CASE e < NInitial
      BY <2>1, <2>2, <3>1, <3>2
    <3>3. CASE ~(e < NInitial)
      <4>1. e - NInitial + 1 \in 1 .. n /\ NInitial + (e - NInitial + 1) - 1 = e
        BY <2>1, <3>1, <3>3
      <4> QED
        BY <2>2, <3>1, <3>3, <4>1
    <3> QED
      BY <3>2, <3>3
  <2> QED
    BY <2>3, <2>4 DEF FreeListExact
<1>2. TypeInv /\ FreeListExact /\ [Next]_vars => FreeListExact'
  <2> SUFFICES ASSUME TypeInv, FreeListExact, [Next]_vars PROVE FreeListExact'
    OBVIOUS
  <2>1. ASSUME NEW c \in CPUs, TrapUser(c) \/ TimerHalted(c) \/ Lock(c) \/ ReturnToUser(c)
        PROVE  FreeListExact'
    BY <2>1 DEF TrapUser, TimerHalted, Lock, ReturnToUser, envVars, FreeListExact
  <2>2. CASE UNCHANGED vars
    BY <2>2 DEF vars, envVars, FreeListExact
  <2> QED
    BY <2>1, <2>2, HandlerFree DEF Next, Monitor
<1> QED
  BY <1>1, <1>2, TypeInduction, PTL DEF Spec

-----------------------------------------------------------------------------
(***************************************************************************)
(* One CPU per environment, when the programs make only the calls those of *)
(* the repository make.                                                    *)
(***************************************************************************)

Ordinary == Calls \subseteq OrdinaryCalls

\* The inductive invariant.  RunningIsHeld and OneCpuPerEnv come from the first
\* four parts; the last two are why neither a send nor fork's set_status can
\* make an environment RUNNABLE that some CPU is running: what is open to a
\* send is blocked, and has run, so it is not a child waiting for its parent.
UserHoldsRunning ==
    \A c \in CPUs : pc[c] \in UserPC => env_status[curenv[c]] \in {"RUNNING", "DYING"}
IdleHoldsNone == \A c \in CPUs : pc[c] \in IdlePC => curenv[c] = None
HoldersDiffer ==
    \A c, d \in CPUs : c # d /\ pc[c] \in UserPC /\ pc[d] \in UserPC => curenv[c] # curenv[d]
RunningHasHolder ==
    \A e \in Envs : env_status[e] \in {"RUNNING", "DYING"} =>
        \E c \in CPUs : curenv[c] = e /\ pc[c] \in UserPC
NoPanic == \A c \in CPUs : pc[c] # "panic"
HasRun ==
    \A e \in Envs :
        \/ env_status[e] \in {"RUNNING", "DYING"}
        \/ env_ipc_recving[e] /\ env_status[e] # "FREE"
        => env_ran[e]

SchedInv ==
    /\ UserHoldsRunning /\ IdleHoldsNone /\ HoldersDiffer /\ RunningHasHolder
    /\ MonitorIsFinal /\ NoPanic /\ CpunumIsCurrent
    /\ RecvingIsBlocked /\ HasRun

IInv == TypeInv /\ LockInv /\ FreeListExact /\ SchedInv

\* What a handler on c owes the scheduler: the invariant, with st for the
\* statuses, cur for curenv and c itself left out of account.
Mid(c, cur, st, rn) ==
    /\ pc[c] \in {"kern", "kern_idle"}
    /\ \A d \in CPUs \ {c} : pc[d] \in UserPC =>
            st[curenv[d]] \in {"RUNNING", "DYING"} /\ curenv[d] # cur
    /\ cur \in Envs => st[cur] # "DYING" /\ env_cpunum[cur] = c
    /\ \A e \in Envs : st[e] \in {"RUNNING", "DYING"} =>
            \/ e = cur
            \/ \E d \in CPUs \ {c} : curenv[d] = e /\ pc[d] \in UserPC
    /\ \A e \in Envs : env_ipc_recving'[e] /\ st[e] # "FREE" =>
            st[e] = "NOT_RUNNABLE" /\ rn[e]
    /\ \A e \in Envs : st[e] \in {"RUNNING", "DYING"} => rn[e]
    /\ env_cpunum' = env_cpunum

\* If it keeps its side, any outcome restores the invariant.
LEMMA OutcomeSched ==
    ASSUME TypeInv, LockInv, SchedInv, NEW c \in CPUs, NEW cur \in Envs \cup {None},
           NEW st \in [Envs -> Status], NEW rn \in [Envs -> BOOLEAN],
           Mid(c, cur, st, rn), Outcome(c, cur, st, rn)
    PROVE  SchedInv'
<1>0. /\ curenv \in [CPUs -> Envs \cup {None}] /\ pc \in [CPUs -> UserPC \cup IdlePC \cup KernPC]
      /\ \A d \in CPUs : pc[d] \in UserPC => curenv[d] \in Envs
      /\ kernel_lock = c
      /\ \A d \in CPUs : d # c => pc[d] \notin KernPC
  BY NoneAssumption DEF TypeInv, TypeOK, CurenvSet, LockInv, KernelLock, KernPC, Mid
<1>1. ASSUME NEW e \in Envs, st[e] = "RUNNABLE" \/ (e = cur /\ st[e] = "RUNNING"),
             EnvRun(c, cur, e, st, rn)
      PROVE  SchedInv'
  <2>1. /\ curenv' = [curenv EXCEPT ![c] = e] /\ pc' = [pc EXCEPT ![c] = "leave"]
        /\ env_status'[e] = "RUNNING" /\ env_ran' = [rn EXCEPT ![e] = TRUE]
        /\ \A f \in Envs \ {e} :
              env_status'[f] = IF f = cur /\ st[f] = "RUNNING" THEN "RUNNABLE" ELSE st[f]
        /\ "leave" \in UserPC /\ "leave" \notin IdlePC
    BY <1>1 DEF EnvRun, UserPC, IdlePC
  <2>2. \A d \in CPUs \ {c} : pc[d] \in UserPC => curenv[d] # e /\ curenv[d] # cur
    BY <1>1 DEF Mid
  <2>3. \A d \in CPUs \ {c} : pc'[d] = pc[d] /\ curenv'[d] = curenv[d]
    BY <1>0, <2>1
  <2>4. pc'[c] = "leave" /\ curenv'[c] = e
    BY <1>0, <2>1
  <2>5. UserHoldsRunning'
    <3> SUFFICES ASSUME NEW d \in CPUs, pc'[d] \in UserPC
                 PROVE  env_status'[curenv'[d]] \in {"RUNNING", "DYING"}
      BY DEF UserHoldsRunning
    <3>1. CASE d = c
      BY <2>1, <2>4, <3>1
    <3>2. CASE d # c
      BY <1>0, <2>1, <2>2, <2>3, <3>2 DEF Mid
    <3> QED
      BY <3>1, <3>2
  <2>6. IdleHoldsNone'
    BY <2>1, <2>3, <2>4 DEF IdleHoldsNone, SchedInv
  <2>7. HoldersDiffer'
    BY <2>2, <2>3, <2>4 DEF HoldersDiffer, SchedInv
  <2>8. RunningHasHolder'
    <3> SUFFICES ASSUME NEW f \in Envs, env_status'[f] \in {"RUNNING", "DYING"}
                 PROVE  \E d \in CPUs : curenv'[d] = f /\ pc'[d] \in UserPC
      BY DEF RunningHasHolder
    <3>1. CASE f = e
      BY <2>1, <2>4, <3>1
    <3>2. CASE f # e
      <4>1. f # cur /\ st[f] \in {"RUNNING", "DYING"}
        BY <2>1, <3>2 DEF Mid
      <4> QED
        BY <2>3, <4>1 DEF Mid
    <3> QED
      BY <3>1, <3>2
  <2>9. MonitorIsFinal' /\ NoPanic'
    BY <1>0, <2>3, <2>4 DEF MonitorIsFinal, NoPanic, KernPC
  <2>10. CpunumIsCurrent'
    BY <2>3, <2>4 DEF CpunumIsCurrent, SchedInv, Mid
  <2>11. RecvingIsBlocked'
    BY <1>1, <2>1 DEF RecvingIsBlocked, Mid
  <2>12. HasRun'
    BY <1>1, <2>1 DEF HasRun, Mid
  <2> QED
    BY <2>5, <2>6, <2>7, <2>8, <2>9, <2>10, <2>11, <2>12 DEF SchedInv
<1>2. ASSUME ~(cur \in Envs /\ st[cur] = "RUNNING" /\ env_cpunum[cur] = c),
             SchedHalt(c, cur, st, rn)
      PROVE  SchedInv'
  <2>1. \A d \in CPUs \ {c} : pc'[d] = pc[d] /\ curenv'[d] = curenv[d]
    BY <1>0, <1>2 DEF SchedHalt
  <2>2. env_status' = st /\ env_ran' = rn
    BY <1>2 DEF SchedHalt
  <2>3. \/ pc'[c] = "halted" /\ curenv'[c] = None
        \/ pc'[c] = "monitor" /\ ~SomethingAlive(st)
    BY <1>0, <1>2 DEF SchedHalt
  <2>4. UserHoldsRunning' /\ IdleHoldsNone' /\ HoldersDiffer'
    BY <2>1, <2>2, <2>3
       DEF UserHoldsRunning, IdleHoldsNone, HoldersDiffer, SchedInv, Mid, UserPC, IdlePC
  <2>5. RunningHasHolder'
    <3> SUFFICES ASSUME NEW f \in Envs, env_status'[f] \in {"RUNNING", "DYING"}
                 PROVE  \E d \in CPUs : curenv'[d] = f /\ pc'[d] \in UserPC
      BY DEF RunningHasHolder
    <3>1. f # cur
      BY <1>2, <2>2 DEF Mid
    <3> QED
      BY <2>1, <2>2, <3>1 DEF Mid
  <2>6. MonitorIsFinal'
    BY <1>0, <2>1, <2>2, <2>3 DEF MonitorIsFinal, SomethingAlive, KernPC, Status
  <2>7. NoPanic' /\ CpunumIsCurrent'
    BY <2>1, <2>3 DEF NoPanic, CpunumIsCurrent, SchedInv, Mid
  <2>8. RecvingIsBlocked' /\ HasRun'
    BY <2>2 DEF RecvingIsBlocked, HasRun, Mid
  <2> QED
    BY <2>4, <2>5, <2>6, <2>7, <2>8 DEF SchedInv
<1> QED
  BY <1>1, <1>2 DEF Outcome

LEMMA HandlerSched ==
    ASSUME Ordinary, IInv, NEW c \in CPUs, Handler(c)
    PROVE  SchedInv'
<1> DEFINE cur == curenv[c]
<1>0. /\ env_status \in [Envs -> Status] /\ env_ran \in [Envs -> BOOLEAN]
      /\ env_ipc_recving \in [Envs -> BOOLEAN]
      /\ \A e \in Envs : Freed(e) \in [Envs -> Status]
      /\ \A d \in CPUs : pc[d] \in UserPC => curenv[d] \in Envs
      /\ TypeInv /\ LockInv /\ SchedInv
  BY TypeFacts, FreedType DEF IInv, TypeInv, CurenvSet, TableOK
\* A trap in hand: curenv is running here and nowhere else.
<1>k. ASSUME pc[c] = "kern", env_status[cur] # "DYING"
      PROVE  /\ cur \in Envs /\ env_status[cur] = "RUNNING" /\ env_cpunum[cur] = c
             /\ ~env_ipc_recving[cur] /\ env_ran[cur]
  BY <1>0, <1>k DEF SchedInv, UserHoldsRunning, CpunumIsCurrent, RecvingIsBlocked, HasRun, UserPC
\* The others do not hold it.
<1>o. ASSUME pc[c] = "kern"
      PROVE  \A d \in CPUs \ {c} : pc[d] \in UserPC =>
                 curenv[d] # cur /\ env_status[curenv[d]] \in {"RUNNING", "DYING"}
  BY <1>o DEF IInv, SchedInv, HoldersDiffer, UserHoldsRunning, UserPC
<1>kern. pc[c] \in {"kern", "kern_idle"}
  BY DEF Handler, SchedIdle, ReapZombie, Yield, NoEffect, SysExofork, SysEnvDestroy,
         SysIpcTrySend, SysEnvSetStatus, SysIpcRecv, SysIpcRecvBadVa,
         SysModificarPrioridad, Panic, InKernel
\* Whoever is RUNNING or DYING, unless it is curenv, is held by another CPU.
<1>h. ASSUME NEW e \in Envs, env_status[e] \in {"RUNNING", "DYING"}
      PROVE  \/ pc[c] = "kern" /\ e = cur
             \/ \E d \in CPUs \ {c} : curenv[d] = e /\ pc[d] \in UserPC
  BY <1>h, <1>kern DEF IInv, SchedInv, RunningHasHolder, UserPC
\* Handlers that leave the statuses alone
<1>s. ASSUME pc[c] = "kern", env_status[cur] # "DYING",
             env_ipc_recving' = env_ipc_recving, env_cpunum' = env_cpunum
      PROVE  Mid(c, cur, env_status, env_ran)
  BY <1>0, <1>k, <1>o, <1>h, <1>s DEF Mid, SchedInv, RecvingIsBlocked, HasRun
<1>1. CASE SchedIdle(c)
  <2>1. pc[c] = "kern_idle" /\ env_ipc_recving' = env_ipc_recving /\ env_cpunum' = env_cpunum
    BY <1>1 DEF SchedIdle, tableVars
  <2>2. Mid(c, None, env_status, env_ran)
    BY <1>0, <1>h, <2>1, NoneAssumption
       DEF Mid, SchedInv, UserHoldsRunning, RecvingIsBlocked, HasRun
  <2> QED
    BY <1>0, <1>1, <2>2, SchedIdleOutcome, OutcomeSched
<1>2. CASE ReapZombie(c)
  <2>1. /\ pc[c] = "kern" /\ env_status[cur] = "DYING"
        /\ env_ipc_recving' = env_ipc_recving /\ env_cpunum' = env_cpunum /\ cur \in Envs
    BY <1>2, ReapZombieOutcome, <1>0 DEF ReapZombie
  <2>2. Mid(c, None, Freed(cur), env_ran)
    BY <1>0, <1>o, <1>h, <2>1, NoneAssumption
       DEF Mid, Freed, SchedInv, UserHoldsRunning, RecvingIsBlocked, HasRun
  <2> QED
    BY <1>0, <1>2, <2>2, ReapZombieOutcome, OutcomeSched
<1>3. CASE Yield(c)
  BY <1>0, <1>3, <1>s, YieldOutcome, OutcomeSched DEF Yield, tableVars
<1>4. CASE NoEffect(c)
  BY <1>0, <1>4, <1>s, NoEffectOutcome, OutcomeSched DEF NoEffect, InKernel, tableVars
<1>5. CASE SysExofork(c)
  <2> DEFINE e == Head(env_free_list)
             st == [env_status EXCEPT ![e] = "NOT_RUNNABLE"]
             rn == [env_ran EXCEPT ![e] = FALSE]
  <2>1. /\ e \in Envs /\ rn \in [Envs -> BOOLEAN] /\ Outcome(c, cur, st, rn)
        /\ st \in [Envs -> Status] /\ cur \in Envs
    BY <1>0, <1>5, SysExoforkOutcome, TypeFacts, StatusNames
  <2>2. env_status[e] = "FREE"
    <3>1. 1 \in DOMAIN env_free_list /\ env_free_list[1] = e
      BY <1>5 DEF SysExofork, IInv, TypeInv, TypeOK
    <3> QED
      BY <2>1, <3>1 DEF IInv, FreeListExact
  <2>3. /\ pc[c] = "kern" /\ env_status[cur] # "DYING" /\ env_cpunum' = env_cpunum
        /\ env_ipc_recving' = [env_ipc_recving EXCEPT ![e] = FALSE]
    BY <1>5 DEF SysExofork, InKernel
  <2>4. Mid(c, cur, st, rn)
    BY <1>0, <1>k, <1>o, <1>h, <2>1, <2>2, <2>3
       DEF Mid, SchedInv, RecvingIsBlocked, HasRun
  <2> QED
    BY <1>0, <2>1, <2>4, OutcomeSched
<1>6. ASSUME NEW id \in EnvIds, SysEnvDestroy(c, id) PROVE SchedInv'
  <2>1. PICK e \in Envs :
           /\ Envid2env(c, id, e, TRUE)
           /\ env_status[e] = "DYING" => "destroy_dying" \in Calls
           /\ \/ /\ env_status[e] = "RUNNING" /\ e # cur
                 /\ [env_status EXCEPT ![e] = "DYING"] \in [Envs -> Status]
                 /\ Outcome(c, cur, [env_status EXCEPT ![e] = "DYING"], env_ran)
              \/ /\ env_status[e] # "RUNNING" /\ e # cur
                 /\ Outcome(c, cur, Freed(e), env_ran)
              \/ e = cur /\ Outcome(c, None, Freed(e), env_ran)
    BY <1>0, <1>6, SysEnvDestroyOutcome
  <2>2. /\ pc[c] = "kern" /\ env_status[cur] # "DYING" /\ env_status[e] # "DYING"
        /\ env_ipc_recving' = env_ipc_recving /\ env_cpunum' = env_cpunum
    BY <1>6, <2>1 DEF SysEnvDestroy, InKernel, Ordinary, OrdinaryCalls
  <2>3. CASE /\ env_status[e] = "RUNNING" /\ e # cur
             /\ [env_status EXCEPT ![e] = "DYING"] \in [Envs -> Status]
             /\ Outcome(c, cur, [env_status EXCEPT ![e] = "DYING"], env_ran)
    <3>1. Mid(c, cur, [env_status EXCEPT ![e] = "DYING"], env_ran)
      BY <1>0, <1>k, <1>o, <1>h, <2>2, <2>3 DEF Mid, SchedInv, RecvingIsBlocked, HasRun
    <3> QED
      BY <1>0, <1>k, <2>2, <2>3, <3>1, OutcomeSched
  <2>4. CASE env_status[e] # "RUNNING" /\ e # cur /\ Outcome(c, cur, Freed(e), env_ran)
    <3>1. Mid(c, cur, Freed(e), env_ran)
      BY <1>0, <1>k, <1>o, <1>h, <2>2, <2>4 DEF Mid, Freed, SchedInv, RecvingIsBlocked, HasRun
    <3> QED
      BY <1>0, <1>k, <2>2, <2>4, <3>1, OutcomeSched
  <2>5. CASE e = cur /\ Outcome(c, None, Freed(e), env_ran)
    <3>1. Mid(c, None, Freed(e), env_ran)
      BY <1>0, <1>k, <1>o, <1>h, <2>2, <2>5, NoneAssumption
         DEF Mid, Freed, SchedInv, RecvingIsBlocked, HasRun
    <3> QED
      BY <1>0, <2>5, <3>1, OutcomeSched
  <2> QED
    BY <2>1, <2>3, <2>4, <2>5
<1>7. ASSUME NEW id \in EnvIds, SysIpcTrySend(c, id) PROVE SchedInv'
  <2>1. PICK e \in Envs :
           /\ Envid2env(c, id, e, FALSE)
           /\ env_ipc_recving[e]
           /\ env_ipc_recving' = [env_ipc_recving EXCEPT ![e] = FALSE]
           /\ [env_status EXCEPT ![e] = "RUNNABLE"] \in [Envs -> Status]
           /\ Outcome(c, cur, [env_status EXCEPT ![e] = "RUNNABLE"], env_ran)
    BY <1>0, <1>7, SysIpcTrySendOutcome
  <2>2. /\ pc[c] = "kern" /\ env_status[cur] # "DYING" /\ env_cpunum' = env_cpunum
        /\ env_status[e] # "FREE"
    BY <1>7, <2>1, Envid2envAlive DEF SysIpcTrySend, InKernel
  <2>3. env_status[e] = "NOT_RUNNABLE" /\ e # cur
    BY <1>0, <1>k, <2>1, <2>2 DEF SchedInv, RecvingIsBlocked
  <2>4. Mid(c, cur, [env_status EXCEPT ![e] = "RUNNABLE"], env_ran)
    BY <1>0, <1>k, <1>o, <1>h, <2>1, <2>2, <2>3 DEF Mid, SchedInv, RecvingIsBlocked, HasRun
  <2> QED
    BY <1>0, <1>k, <2>1, <2>2, <2>4, OutcomeSched
<1>8. ASSUME NEW id \in EnvIds, NEW s \in {"RUNNABLE", "NOT_RUNNABLE"},
             SysEnvSetStatus(c, id, s)
      PROVE  SchedInv'
  <2>0. PICK e \in Envs : SetsStatus(c, id, s, e)
    BY <1>0, <1>8, SysEnvSetStatusOutcome
  <2>1. /\ Envid2env(c, id, e, TRUE)
        /\ \/ "set_status_any" \in Calls
           \/ e # cur => env_status[e] = "NOT_RUNNABLE" /\ ~env_ran[e]
        /\ [env_status EXCEPT ![e] = s] \in [Envs -> Status]
        /\ Outcome(c, cur, [env_status EXCEPT ![e] = s], env_ran)
    BY <2>0 DEF SetsStatus
  <2>2. /\ pc[c] = "kern" /\ env_status[cur] # "DYING"
        /\ env_ipc_recving' = env_ipc_recving /\ env_cpunum' = env_cpunum
        /\ e # cur => env_status[e] = "NOT_RUNNABLE" /\ ~env_ran[e]
    BY <1>8, <2>1 DEF SysEnvSetStatus, InKernel, tableVars, Ordinary, OrdinaryCalls
  <2>3. ~env_ipc_recving[e]
    BY <1>0, <1>k, <2>2 DEF SchedInv, HasRun
  <2>4. Mid(c, cur, [env_status EXCEPT ![e] = s], env_ran)
    BY <1>0, <1>k, <1>o, <1>h, <2>2, <2>3 DEF Mid, SchedInv, RecvingIsBlocked, HasRun
  <2> QED
    BY <1>0, <1>k, <2>1, <2>2, <2>4, OutcomeSched
<1>9. CASE SysIpcRecv(c)
  <2>1. /\ pc[c] = "kern" /\ env_status[cur] # "DYING" /\ env_cpunum' = env_cpunum
        /\ env_ipc_recving' = [env_ipc_recving EXCEPT ![cur] = TRUE]
    BY <1>9 DEF SysIpcRecv, InKernel
  <2>2. Mid(c, cur, [env_status EXCEPT ![cur] = "NOT_RUNNABLE"], env_ran)
    BY <1>0, <1>k, <1>o, <1>h, <2>1 DEF Mid, SchedInv, RecvingIsBlocked, HasRun
  <2> QED
    BY <1>0, <1>9, <2>2, SysIpcRecvOutcome, OutcomeSched
<1>10. CASE SysIpcRecvBadVa(c)
  BY <1>10 DEF SysIpcRecvBadVa, Ordinary, OrdinaryCalls
<1>11. CASE SysModificarPrioridad(c)
  BY <1>0, <1>11, <1>s, SysModificarPrioridadOutcome, OutcomeSched
     DEF SysModificarPrioridad, InKernel, tableVars
<1>12. CASE Panic(c)
  BY <1>0, <1>12 DEF Panic, SchedInv, UserHoldsRunning, UserPC
<1> QED
  BY <1>1, <1>2, <1>3, <1>4, <1>5, <1>6, <1>7, <1>8, <1>9, <1>10, <1>11, <1>12 DEF Handler

\* IInv is inductive.
LEMMA SchedInduction == ASSUME Ordinary PROVE Spec => []IInv
<1>1. Init => SchedInv
  <2> SUFFICES ASSUME Init PROVE SchedInv
    OBVIOUS
  <2>1. \A c \in CPUs : pc[c] \in {"kern_idle", "start"} /\ curenv[c] = None
    BY DEF Init
  <2>2. /\ \A e \in Envs : env_status[e] \in {"RUNNABLE", "FREE"} /\ ~env_ipc_recving[e]
    BY DEF Init
  <2> QED
    BY <2>1, <2>2 DEF SchedInv, UserHoldsRunning, IdleHoldsNone, HoldersDiffer, RunningHasHolder,
                      MonitorIsFinal, NoPanic, CpunumIsCurrent, RecvingIsBlocked, HasRun,
                      UserPC, IdlePC
<1>2. IInv /\ [Next]_vars => SchedInv'
  <2> SUFFICES ASSUME IInv, [Next]_vars PROVE SchedInv'
    OBVIOUS
  <2>0. TypeOK /\ CurenvSet /\ LockInv /\ SchedInv
    BY DEF IInv, TypeInv
  <2> USE DEF SchedInv, UserHoldsRunning, IdleHoldsNone, HoldersDiffer, RunningHasHolder,
              MonitorIsFinal, NoPanic, CpunumIsCurrent, RecvingIsBlocked, HasRun,
              UserPC, IdlePC, TypeOK, CurenvSet
  <2>1. ASSUME NEW c \in CPUs, TrapUser(c) PROVE SchedInv'
    BY <2>0, <2>1 DEF TrapUser, envVars
  <2>2. ASSUME NEW c \in CPUs, TimerHalted(c) PROVE SchedInv'
    BY <2>0, <2>2 DEF TimerHalted, envVars
  <2>3. ASSUME NEW c \in CPUs, Lock(c) PROVE SchedInv'
    BY <2>0, <2>3 DEF Lock, envVars
  <2>4. ASSUME NEW c \in CPUs, ReturnToUser(c) PROVE SchedInv'
    BY <2>0, <2>4 DEF ReturnToUser
  <2>5. CASE UNCHANGED vars
    BY <2>0, <2>5 DEF vars, envVars
  <2> QED
    BY <2>0, <2>1, <2>2, <2>3, <2>4, <2>5, HandlerSched DEF Next, Monitor
<1>3. TypeInv /\ LockInv /\ FreeListExact /\ SchedInv <=> IInv
  BY DEF IInv
<1> QED
  BY <1>1, <1>2, <1>3, TypeInduction, LockInduction, FreeListCorrect, PTL DEF Spec

\* No environment is ever current on two CPUs.
THEOREM NeverOnTwoCpus == ASSUME Ordinary PROVE Spec => []OneCpuPerEnv
<1>1. IInv => OneCpuPerEnv
  <2> SUFFICES ASSUME IInv, NEW c \in CPUs, NEW d \in CPUs, c # d, curenv[c] # None,
                      curenv[c] = curenv[d]
               PROVE  FALSE
    BY DEF OneCpuPerEnv
  <2>1. pc[c] \in UserPC \cup {"monitor"} /\ pc[d] \in UserPC \cup {"monitor"}
    BY DEF IInv, TypeInv, TypeOK, SchedInv, IdleHoldsNone, NoPanic, UserPC, IdlePC, KernPC
  <2>2. ~(pc[c] = "monitor" /\ pc[d] = "monitor")
    BY NoneAssumption DEF IInv, LockInv, KernelLock, KernPC
  <2>3. \A x, y \in CPUs : ~(pc[x] = "monitor" /\ pc[y] \in UserPC)
    BY DEF IInv, TypeInv, CurenvSet, SchedInv, MonitorIsFinal, UserHoldsRunning
  <2> QED
    BY <2>1, <2>2, <2>3 DEF IInv, SchedInv, HoldersDiffer
<1> QED
  BY <1>1, SchedInduction, PTL

\* RUNNING and DYING mean that some CPU has the environment: none is lost by a
\* switch, a halt, an exit or a destroy from another CPU.
THEOREM NoneLost == ASSUME Ordinary PROVE Spec => []RunningIsHeld
<1>1. IInv => RunningIsHeld
  BY DEF IInv, SchedInv, RunningHasHolder, UserHoldsRunning, RunningIsHeld
<1> QED
  BY <1>1, SchedInduction, PTL

\* The monitor is entered with nothing alive, and nothing comes back to life.
THEOREM MonitorFinal == ASSUME Ordinary PROVE Spec => []MonitorIsFinal
<1>1. IInv => MonitorIsFinal
  BY DEF IInv, SchedInv
<1> QED
  BY <1>1, SchedInduction, PTL

\* What is open to a send is blocked, on no CPU.
THEOREM RecvingBlocked == ASSUME Ordinary PROVE Spec => []RecvingIsBlocked
<1>1. IInv => RecvingIsBlocked
  BY DEF IInv, SchedInv
<1> QED
  BY <1>1, SchedInduction, PTL

\* env_cpunum is right where the kernel reads it, although it is written after
\* the lock is released.
THEOREM CpunumCurrent == ASSUME Ordinary PROVE Spec => []CpunumIsCurrent
<1>1. IInv => CpunumIsCurrent
  BY DEF IInv, SchedInv
<1> QED
  BY <1>1, SchedInduction, PTL

-----------------------------------------------------------------------------
(***************************************************************************)
(* What a step may never do.                                               *)
(***************************************************************************)

\* The scheduler moves environments between RUNNABLE and RUNNING only.
LEMMA OutcomeStatus ==
    ASSUME NEW c \in CPUs, NEW cur \in Envs \cup {None},
           NEW st \in [Envs -> Status], NEW rn \in [Envs -> BOOLEAN],
           Outcome(c, cur, st, rn), NEW e \in Envs
    PROVE  /\ st[e] \in {"DYING", "FREE", "NOT_RUNNABLE"} => env_status'[e] = st[e]
           /\ st[e] \in {"RUNNABLE", "RUNNING"} => env_status'[e] \in {"RUNNABLE", "RUNNING"}
BY DEF Outcome, EnvRun, SchedHalt

\* Outside the handlers no status and no env_ipc_recving changes.
LEMMA QuietSteps ==
    ASSUME NEW c \in CPUs,
           TrapUser(c) \/ TimerHalted(c) \/ Lock(c) \/ ReturnToUser(c) \/ Monitor(c)
    PROVE  UNCHANGED <<env_status, env_ipc_recving>>
BY DEF TrapUser, TimerHalted, Lock, ReturnToUser, Monitor, envVars, vars

\* CPU c may end e as far as checkperm can tell.
MayEnd(c, e) ==
    /\ pc[c] = "kern" /\ curenv[c] \in Envs
    /\ \/ curenv[c] = e
       \/ env_status[curenv[c]] # "FREE" /\ env_parent_id[e] = env_id[curenv[c]]

\* No handler ends another environment than those envid2env lets it.
LEMMA HandlerMayEnd ==
    ASSUME TypeInv, NEW c \in CPUs, Handler(c), NEW e \in Envs,
           env_status[e] \notin {"FREE", "DYING"}, env_status'[e] \in {"FREE", "DYING"}
    PROVE  MayEnd(c, e)
<1>0. /\ TypeInv /\ env_status \in [Envs -> Status] /\ env_ran \in [Envs -> BOOLEAN]
      /\ env_status[e] \in {"RUNNABLE", "RUNNING", "NOT_RUNNABLE"}
      /\ \A f \in Envs : Freed(f) \in [Envs -> Status]
  BY TypeFacts, FreedType DEF Status
\* The scheduler did not end e, so the handler has.
<1>e. ASSUME NEW cur \in Envs \cup {None}, NEW st \in [Envs -> Status],
             NEW rn \in [Envs -> BOOLEAN], Outcome(c, cur, st, rn)
      PROVE  st[e] \in {"FREE", "DYING"}
  <2>1. st[e] \in Status
    OBVIOUS
  <2> QED
    BY <1>e, <2>1, OutcomeStatus DEF Status
\* No handler that leaves the statuses alone has.
<1>s. ASSUME NEW cur \in Envs \cup {None}, Outcome(c, cur, env_status, env_ran)
      PROVE  FALSE
  BY <1>0, <1>e, <1>s
<1>1. CASE SchedIdle(c)
  <2>1. Outcome(c, None, env_status, env_ran)
    BY <1>0, <1>1, SchedIdleOutcome
  <2> QED
    BY <1>s, <2>1
<1>2. CASE ReapZombie(c)
  <2>1. curenv[c] \in Envs /\ Outcome(c, None, Freed(curenv[c]), env_ran) /\ pc[c] = "kern"
    BY <1>0, <1>2, ReapZombieOutcome DEF ReapZombie
  <2>2. Freed(curenv[c])[e] \in {"FREE", "DYING"}
    BY <1>0, <1>e, <2>1
  <2> QED
    BY <1>0, <2>1, <2>2 DEF Freed, MayEnd
<1>3. CASE Yield(c)
  BY <1>0, <1>3, YieldOutcome, <1>s
<1>4. CASE NoEffect(c)
  BY <1>0, <1>4, NoEffectOutcome, <1>s
<1>5. CASE SysExofork(c)
  <2> DEFINE n == Head(env_free_list)
             st == [env_status EXCEPT ![n] = "NOT_RUNNABLE"]
             rn == [env_ran EXCEPT ![n] = FALSE]
  <2>1. /\ n \in Envs /\ curenv[c] \in Envs /\ st \in [Envs -> Status]
        /\ rn \in [Envs -> BOOLEAN] /\ Outcome(c, curenv[c], st, rn)
    BY <1>0, <1>5, SysExoforkOutcome, TypeFacts, StatusNames
  <2>2. st[e] \notin {"FREE", "DYING"}
    BY <1>0, <2>1
  <2> HIDE DEF st, rn
  <2> QED
    BY <2>1, <2>2, <1>e
<1>6. ASSUME NEW id \in EnvIds, SysEnvDestroy(c, id)
      PROVE  MayEnd(c, e)
  <2>1. PICK f \in Envs :
           /\ Envid2env(c, id, f, TRUE)
           /\ \/ /\ [env_status EXCEPT ![f] = "DYING"] \in [Envs -> Status]
                 /\ Outcome(c, curenv[c], [env_status EXCEPT ![f] = "DYING"], env_ran)
              \/ Outcome(c, curenv[c], Freed(f), env_ran)
              \/ Outcome(c, None, Freed(f), env_ran)
    BY <1>0, <1>6, SysEnvDestroyOutcome
  <2>2. curenv[c] \in Envs /\ pc[c] = "kern" /\ env_status[curenv[c]] # "FREE"
    BY <1>6, TypeFacts DEF SysEnvDestroy, InKernel
  <2>3. \/ [env_status EXCEPT ![f] = "DYING"][e] \in {"FREE", "DYING"}
        \/ Freed(f)[e] \in {"FREE", "DYING"}
    BY <1>0, <1>e, <2>1, <2>2
  <2>4. e = f
    BY <1>0, <2>3 DEF Freed
  <2> QED
    BY <2>1, <2>2, <2>4 DEF Envid2env, MayEnd
<1>7. ASSUME NEW id \in EnvIds, SysIpcTrySend(c, id) PROVE FALSE
  <2>1. PICK f \in Envs :
           /\ Envid2env(c, id, f, FALSE)
           /\ [env_status EXCEPT ![f] = "RUNNABLE"] \in [Envs -> Status]
           /\ Outcome(c, curenv[c], [env_status EXCEPT ![f] = "RUNNABLE"], env_ran)
    BY <1>0, <1>7, SysIpcTrySendOutcome
  <2>2. curenv[c] \in Envs
    BY <1>7, TypeFacts DEF SysIpcTrySend, InKernel
  <2>3. [env_status EXCEPT ![f] = "RUNNABLE"][e] \in {"FREE", "DYING"}
    BY <1>0, <1>e, <2>1, <2>2
  <2> QED
    BY <1>0, <2>3
<1>8. ASSUME NEW id \in EnvIds, NEW s \in {"RUNNABLE", "NOT_RUNNABLE"},
             SysEnvSetStatus(c, id, s)
      PROVE  FALSE
  <2>0. PICK f \in Envs : SetsStatus(c, id, s, f)
    BY TypeInv, <1>8, SysEnvSetStatusOutcome
  <2>1. /\ Envid2env(c, id, f, TRUE)
        /\ \/ "set_status_any" \in Calls
           \/ f # curenv[c] => env_status[f] = "NOT_RUNNABLE" /\ ~env_ran[f]
        /\ [env_status EXCEPT ![f] = s] \in [Envs -> Status]
        /\ Outcome(c, curenv[c], [env_status EXCEPT ![f] = s], env_ran)
    BY <2>0 DEF SetsStatus
  <2>2. curenv[c] \in Envs
    BY <1>8, TypeFacts DEF SysEnvSetStatus, InKernel
  <2> DEFINE st == [env_status EXCEPT ![f] = s]
  <2>3. st[e] \notin {"FREE", "DYING"}
    BY <1>0
  <2>4. st \in [Envs -> Status] /\ Outcome(c, curenv[c], st, env_ran)
    BY <2>1
  <2> HIDE DEF st
  <2> QED
    BY <1>0, <1>e, <2>2, <2>3, <2>4
<1>9. CASE SysIpcRecv(c)
  <2> DEFINE st == [env_status EXCEPT ![curenv[c]] = "NOT_RUNNABLE"]
  <2>1. curenv[c] \in Envs /\ st \in [Envs -> Status] /\ Outcome(c, curenv[c], st, env_ran)
    BY <1>0, <1>9, SysIpcRecvOutcome
  <2>2. st[e] \notin {"FREE", "DYING"}
    BY <1>0, <2>1
  <2> HIDE DEF st
  <2> QED
    BY <1>0, <2>1, <2>2, <1>e
<1>10. CASE SysIpcRecvBadVa(c)
  BY <1>0, <1>10, SysIpcRecvBadVaOutcome, <1>s
<1>11. CASE SysModificarPrioridad(c)
  BY <1>0, <1>11, SysModificarPrioridadOutcome, <1>s
<1>12. CASE Panic(c)
  BY <1>12 DEF Panic, envVars
<1> QED
  BY <1>1, <1>2, <1>3, <1>4, <1>5, <1>6, <1>7, <1>8, <1>9, <1>10, <1>11, <1>12 DEF Handler

\* Only a fork takes a slot, the first of the free list, and gives out ids.
LEMMA OnlyForkTakes ==
    ASSUME TypeInv, FreeListExact, NEW c \in CPUs, Handler(c), ~SysExofork(c)
    PROVE  UNCHANGED <<env_id, env_parent_id>> /\ Taken = {}
<1>1. UNCHANGED <<env_id, env_parent_id>>
  BY DEF Handler, SchedIdle, ReapZombie, Yield, NoEffect, SysEnvDestroy, SysIpcTrySend,
         SysEnvSetStatus, SysIpcRecv, SysIpcRecvBadVa, SysModificarPrioridad, Panic,
         tableVars, envVars
<1>2. env_free_list' = env_free_list \/ \E x \in Envs : env_free_list' = Push(x)
  BY TypeFacts
     DEF Handler, SchedIdle, ReapZombie, Yield, NoEffect, SysEnvDestroy, SysIpcTrySend,
         SysEnvSetStatus, SysIpcRecv, SysIpcRecvBadVa, SysModificarPrioridad, Panic,
         tableVars, envVars
<1>3. FreeListExact'
  BY HandlerFree
<1>4. ASSUME NEW e \in Envs, env_status[e] = "FREE"
      PROVE  env_status'[e] = "FREE"
  <2>1. PICK i \in DOMAIN env_free_list : env_free_list[i] = e
    BY <1>4 DEF FreeListExact
  <2>2. \E j \in DOMAIN env_free_list' : env_free_list'[j] = e
    <3>1. CASE env_free_list' = env_free_list
      BY <2>1, <3>1
    <3>2. ASSUME NEW x \in Envs, env_free_list' = Push(x)
          PROVE  \E j \in DOMAIN env_free_list' : env_free_list'[j] = e
      <4>1. i + 1 \in DOMAIN Push(x) /\ Push(x)[i + 1] = e
        BY <2>1, TypeFacts DEF Push, TableOK
      <4> QED
        BY <3>2, <4>1
    <3> QED
      BY <1>2, <3>1, <3>2
  <2> QED
    BY <1>3, <2>2 DEF FreeListExact
<1> QED
  BY <1>1, <1>4 DEF Taken

LEMMA ForkTakesHead ==
    ASSUME TypeInv, FreeListExact, NEW c \in CPUs, SysExofork(c)
    PROVE  LET n == Head(env_free_list)
           IN  /\ n \in Envs /\ curenv[c] \in Envs /\ pc[c] = "kern"
               /\ env_status[n] = "FREE" /\ env_status[curenv[c]] # "FREE"
               /\ Taken = {n}
               /\ env_id' = [env_id EXCEPT ![n] = EnvId(NextGen(n), n)]
               /\ env_parent_id' = [env_parent_id EXCEPT ![n] = env_id[curenv[c]]]
<1> DEFINE n == Head(env_free_list)
           l == env_free_list
<1>1. /\ n \in Envs /\ curenv[c] \in Envs /\ l # <<>> /\ env_free_list' = Tail(l)
      /\ l \in Seq(Envs)
  BY SysExoforkOutcome, TypeFacts DEF SysExofork, TableOK
<1>2. 1 \in DOMAIN l /\ l[1] = n
  BY <1>1
<1>3. env_status[n] = "FREE"
  BY <1>1, <1>2 DEF FreeListExact
<1>4. FreeListExact'
  BY HandlerFree DEF Handler
<1>5. \A j \in DOMAIN Tail(l) : j + 1 \in DOMAIN l /\ Tail(l)[j] = l[j + 1] /\ j + 1 # 1
  BY <1>1
<1>6. env_status'[n] # "FREE"
  <2>1. \A j \in DOMAIN Tail(l) : Tail(l)[j] # n
    BY <1>2, <1>5 DEF FreeListExact
  <2> QED
    BY <1>1, <1>4, <2>1 DEF FreeListExact
<1>7. ASSUME NEW e \in Envs, e # n, env_status[e] = "FREE"
      PROVE  env_status'[e] = "FREE"
  <2>1. PICK i \in DOMAIN l : l[i] = e
    BY <1>7 DEF FreeListExact
  <2>2. i - 1 \in DOMAIN Tail(l) /\ Tail(l)[i - 1] = e
    BY <1>1, <1>2, <1>7, <2>1
  <2> QED
    BY <1>1, <1>4, <2>2 DEF FreeListExact
<1>8. Taken = {n}
  BY <1>1, <1>3, <1>6, <1>7 DEF Taken
<1> QED
  BY <1>1, <1>3, <1>8 DEF SysExofork, InKernel

\* The generation of a slot that had g and has been taken n times since
After(g, n) == IF g + n <= GenLimit THEN g + n ELSE g + n - GenLimit

\* What the ids of the living say about who made them: an id is its slot's, and
\* a child keeps the one its maker had, the slot's now but for reused[e] turns.
IdsNameSlots ==
    \A e \in Envs : env_status[e] # "FREE" =>
        env_id[e].index = e /\ env_id[e].gen \in 1 .. GenLimit
ParentsAreMakers ==
    \A e \in Envs : env_status[e] # "FREE" =>
        /\ maker[e] = None => env_parent_id[e] = ZeroId
        /\ maker[e] # None =>
              /\ env_parent_id[e].index = maker[e]
              /\ env_parent_id[e].gen \in 1 .. GenLimit
              /\ env_id[maker[e]].gen = After(env_parent_id[e].gen, reused[e])
FamilyInv == FamilyTypeOK /\ IdsNameSlots /\ ParentsAreMakers

\* One more turn of the generations.
LEMMA AfterNext ==
    ASSUME NEW g \in 1 .. GenLimit, NEW n \in 0 .. GenLimit
    PROVE  LET h == After(g, n)
           IN  /\ h \in 1 .. GenLimit
               /\ (IF h < GenLimit THEN h + 1 ELSE 1)
                     = After(g, IF n < GenLimit THEN n + 1 ELSE 1)
               /\ h = g => n \in {0, GenLimit}
               /\ After(g, 0) = g
BY GenLimitAssumption DEF After

LEMMA FamilyInvInit == FamilyInit => FamilyInv
<1> SUFFICES ASSUME FamilyInit PROVE FamilyInv
  OBVIOUS
<1>1. FamilyTypeOK
  BY GenLimitAssumption DEF FamilyInit, FamilyTypeOK
<1>2. IdsNameSlots
  BY GenLimitAssumption DEF FamilyInit, Init, IdsNameSlots, EnvId
<1>3. ParentsAreMakers
  BY DEF FamilyInit, Init, ParentsAreMakers
<1> QED
  BY <1>1, <1>2, <1>3 DEF FamilyInv

\* A step that takes no slot leaves the family as it is.
LEMMA NoneTakenFamily ==
    ASSUME TypeInv, FamilyInv, Family, Taken = {}, UNCHANGED <<env_id, env_parent_id>>
    PROVE  FamilyInv'
<1>1. FamilyTypeOK'
  BY GenLimitAssumption DEF Family, FamilyInv, FamilyTypeOK
<1>2. ASSUME NEW e \in Envs, env_status'[e] # "FREE"
      PROVE  env_status[e] # "FREE" /\ maker'[e] = maker[e] /\ reused'[e] = reused[e]
  BY <1>2 DEF Family, Taken
<1>3. IdsNameSlots'
  BY <1>2 DEF FamilyInv, IdsNameSlots
<1>4. ParentsAreMakers'
  BY <1>2 DEF FamilyInv, ParentsAreMakers, After
<1> QED
  BY <1>1, <1>3, <1>4 DEF FamilyInv

\* A fork gives the new child its maker, and every orphan of its slot a turn.
LEMMA ForkFamily ==
    ASSUME TypeInv, LockInv, FreeListExact, FamilyInv, Family,
           NEW c \in CPUs, SysExofork(c)
    PROVE  FamilyInv'
<1> DEFINE n == Head(env_free_list)
           k == curenv[c]
<1>0. /\ n \in Envs /\ k \in Envs /\ pc[c] = "kern"
      /\ env_status[n] = "FREE" /\ env_status[k] # "FREE"
      /\ Taken = {n}
      /\ env_id' = [env_id EXCEPT ![n] = EnvId(NextGen(n), n)]
      /\ env_parent_id' = [env_parent_id EXCEPT ![n] = env_id[k]]
  BY ForkTakesHead
<1> HIDE DEF n, k
<1>1. kernel_lock = c
  BY <1>0 DEF LockInv, KernelLock, KernPC
<1>2. env_id \in [Envs -> EnvIds] /\ env_parent_id \in [Envs -> EnvIds]
  BY DEF TypeInv, TypeOK
<1>3. FamilyTypeOK'
  BY <1>0, <1>1, GenLimitAssumption DEF Family, FamilyInv, FamilyTypeOK, k
<1>4. env_status'[n] # "FREE" /\ maker'[n] = k /\ reused'[n] = 0
  BY <1>0, <1>1 DEF Family, Taken, k
<1>5. ASSUME NEW e \in Envs, e # n, env_status'[e] # "FREE"
      PROVE  /\ env_status[e] # "FREE" /\ maker'[e] = maker[e]
             /\ reused'[e] = IF maker[e] # n THEN reused[e]
                             ELSE IF reused[e] < GenLimit THEN reused[e] + 1 ELSE 1
             /\ env_id'[e] = env_id[e] /\ env_parent_id'[e] = env_parent_id[e]
  BY <1>0, <1>2, <1>5 DEF Family, Taken
<1>6. env_id'[n].index = n /\ env_id'[n].gen = NextGen(n) /\ NextGen(n) \in 1 .. GenLimit
  <2>1. env_id[n].gen \in 0 .. GenLimit
    BY <1>0, <1>2 DEF EnvIds
  <2>2. NextGen(n) \in 1 .. GenLimit
    BY <2>1, GenLimitAssumption DEF NextGen
  <2> QED
    BY <1>0, <1>2, <2>2 DEF EnvId
<1>7. IdsNameSlots'
  BY <1>5, <1>6 DEF FamilyInv, IdsNameSlots
<1>8. ASSUME NEW e \in Envs, env_status'[e] # "FREE"
      PROVE  /\ maker'[e] = None => env_parent_id'[e] = ZeroId
             /\ maker'[e] # None =>
                   /\ env_parent_id'[e].index = maker'[e]
                   /\ env_parent_id'[e].gen \in 1 .. GenLimit
                   /\ env_id'[maker'[e]].gen = After(env_parent_id'[e].gen, reused'[e])
  <2>1. CASE e = n
    <3>1. env_parent_id'[n] = env_id[k] /\ k # n /\ env_id'[k] = env_id[k]
      BY <1>0, <1>2
    <3>2. env_id[k].index = k /\ env_id[k].gen \in 1 .. GenLimit
      BY <1>0 DEF FamilyInv, IdsNameSlots
    <3>3. After(env_id[k].gen, 0) = env_id[k].gen
      BY <3>2, GenLimitAssumption DEF After
    <3> QED
      BY <1>0, <1>4, <2>1, <3>1, <3>2, <3>3, NoneAssumption
  <2>2. CASE e # n /\ maker[e] = n
    <3> DEFINE g == env_parent_id[e].gen
               r == reused[e]
    <3>1. /\ env_parent_id'[e] = env_parent_id[e] /\ maker'[e] = n /\ n # None
          /\ reused'[e] = IF r < GenLimit THEN r + 1 ELSE 1
          /\ env_parent_id[e].index = n /\ g \in 1 .. GenLimit
          /\ env_id[n].gen = After(g, r) /\ r \in 0 .. GenLimit
      BY <1>0, <1>5, <1>8, <2>2, NoneAssumption DEF FamilyInv, ParentsAreMakers, FamilyTypeOK
    <3>2. NextGen(n) = IF After(g, r) < GenLimit THEN After(g, r) + 1 ELSE 1
      BY <3>1 DEF NextGen
    <3> HIDE DEF g, r
    <3>3. NextGen(n) = After(g, reused'[e])
      BY <3>1, <3>2, AfterNext
    <3> QED
      BY <1>6, <3>1, <3>3 DEF g
  <2>3. CASE e # n /\ maker[e] # n
    <3>1. /\ env_status[e] # "FREE" /\ maker'[e] = maker[e] /\ reused'[e] = reused[e]
          /\ env_parent_id'[e] = env_parent_id[e]
      BY <1>5, <1>8, <2>3
    <3>2. maker[e] # None => maker[e] \in Envs /\ env_id'[maker[e]] = env_id[maker[e]]
      BY <1>0, <1>2, <2>3 DEF FamilyInv, FamilyTypeOK
    <3> QED
      BY <3>1, <3>2 DEF FamilyInv, ParentsAreMakers
  <2> QED
    BY <2>1, <2>2, <2>3
<1>9. ParentsAreMakers'
  <2> DEFINE Good(e) ==
                 /\ maker[e] = None => env_parent_id[e] = ZeroId
                 /\ maker[e] # None =>
                       /\ env_parent_id[e].index = maker[e]
                       /\ env_parent_id[e].gen \in 1 .. GenLimit
                       /\ env_id[maker[e]].gen = After(env_parent_id[e].gen, reused[e])
  <2>1. ParentsAreMakers' <=> \A e \in Envs : env_status'[e] # "FREE" => Good(e)'
    BY DEF ParentsAreMakers, ZeroId, EnvId
  <2>2. \A e \in Envs : env_status'[e] # "FREE" => Good(e)'
    BY <1>8 DEF After, ZeroId, EnvId
  <2> QED
    BY <2>1, <2>2
<1> QED
  BY <1>3, <1>7, <1>9 DEF FamilyInv

LEMMA QuietKeepsIds ==
    ASSUME NEW c \in CPUs,
           TrapUser(c) \/ TimerHalted(c) \/ Lock(c) \/ ReturnToUser(c) \/ Monitor(c)
    PROVE  UNCHANGED <<env_id, env_parent_id>> /\ Taken = {}
BY DEF TrapUser, TimerHalted, Lock, ReturnToUser, Monitor, envVars, vars, Taken

LEMMA FamilyNextParts ==
    ASSUME FamilyNext
    PROVE  Family /\ \E c \in CPUs :
             \/ TrapUser(c) \/ TimerHalted(c) \/ Lock(c) \/ ReturnToUser(c) \/ Monitor(c)
             \/ Handler(c)
BY DEF FamilyNext, Handler

LEMMA FamilyStep ==
    ASSUME TypeInv, LockInv, FreeListExact, FamilyInv, FamilyNext
    PROVE  FamilyInv'
<1>1. ASSUME NEW c \in CPUs,
             TrapUser(c) \/ TimerHalted(c) \/ Lock(c) \/ ReturnToUser(c) \/ Monitor(c)
      PROVE  FamilyInv'
  BY <1>1, QuietKeepsIds, NoneTakenFamily, FamilyNextParts
<1>2. ASSUME NEW c \in CPUs, Handler(c) PROVE FamilyInv'
  BY <1>2, OnlyForkTakes, NoneTakenFamily, ForkFamily, FamilyNextParts
<1> QED
  BY <1>1, <1>2, FamilyNextParts

\* The history variables only look on: what holds of Spec holds of FamilySpec.
LEMMA FamilyIsSpec == FamilySpec => Spec
<1>1. FamilyInit => Init
  BY DEF FamilyInit
<1>2. [FamilyNext]_familyVars => [Next]_vars
  BY FamilyNextParts DEF Next, familyVars
<1> QED
  BY <1>1, <1>2, PTL DEF FamilySpec, Spec

\* The ids tell the truth about who made whom, but for whole turns of the
\* generations.
THEOREM FamilyCorrect == FamilySpec => []FamilyInv
<1>1. /\ TypeInv /\ LockInv /\ FreeListExact /\ FamilyInv /\ [FamilyNext]_familyVars
      => FamilyInv'
  <2>1. ASSUME FamilyInv, UNCHANGED familyVars PROVE FamilyInv'
    BY <2>1 DEF FamilyInv, FamilyTypeOK, IdsNameSlots, ParentsAreMakers, familyVars, vars,
                envVars, After, ZeroId, EnvId
  <2> QED
    BY <2>1, FamilyStep
<1> QED
  BY <1>1, FamilyInvInit, FamilyIsSpec, TypeInduction, LockInduction, FreeListCorrect, PTL
     DEF FamilySpec

\* Who ends an environment is that environment, the one that forked it, or one
\* that has taken the latter's slot a whole number of turns of the generations
\* later, whatever the programs call and however the slots are reused.
THEOREM OnlyFamilyEnds == FamilySpec => EndedByFamily
<1>1. TypeInv /\ FamilyInv /\ [FamilyNext]_familyVars => [EndedByFamilyStep]_familyVars
  <2> SUFFICES ASSUME TypeInv, FamilyInv, FamilyNext,
                      NEW e \in Envs, env_status[e] \notin {"FREE", "DYING"},
                      env_status'[e] \in {"FREE", "DYING"}
               PROVE  \E c \in CPUs :
                         /\ pc[c] = "kern"
                         /\ curenv[c] = e \/ (curenv[c] = maker[e] /\ reused[e] \in {0, GenLimit})
    BY DEF EndedByFamilyStep
  <2>1. PICK c \in CPUs : Handler(c)
    BY QuietSteps, FamilyNextParts
  <2>2. MayEnd(c, e)
    BY <2>1, HandlerMayEnd
  <2> DEFINE k == curenv[c]
  <2>3. CASE env_status[k] # "FREE" /\ env_parent_id[e] = env_id[k] /\ k \in Envs
    <3>1. env_id[k].index = k /\ env_id[k].gen \in 1 .. GenLimit
      BY <2>3 DEF FamilyInv, IdsNameSlots
    <3>2. maker[e] # None
      BY <2>3, <3>1 DEF FamilyInv, ParentsAreMakers, ZeroId, EnvId
    <3>3. /\ env_parent_id[e].index = maker[e]
          /\ env_parent_id[e].gen \in 1 .. GenLimit
          /\ env_id[maker[e]].gen = After(env_parent_id[e].gen, reused[e])
          /\ reused[e] \in 0 .. GenLimit
      BY <3>2 DEF FamilyInv, ParentsAreMakers, FamilyTypeOK
    <3>4. maker[e] = k /\ reused[e] \in {0, GenLimit}
      BY <2>3, <3>1, <3>3, AfterNext
    <3> QED
      BY <2>2, <3>4 DEF MayEnd
  <2> QED
    BY <2>2, <2>3 DEF MayEnd
<1> QED
  BY <1>1, FamilyIsSpec, FamilyCorrect, TypeInduction, PTL DEF FamilySpec, EndedByFamily

\* With every priority within what sched_prioridades looks at, a handler that
\* halts its CPU has found nothing to run.
LEMMA OutcomeIdle ==
    ASSUME PrioritiesBounded, TypeInv, NEW c \in CPUs, NEW cur, NEW st, NEW rn,
           Outcome(c, cur, st, rn)
    PROVE  NoIdleWithWorkStep
<1> SUFFICES ASSUME NEW d \in CPUs, pc[d] # "halted", pc'[d] = "halted",
                    NEW e \in Envs, env_status'[e] = "RUNNABLE"
             PROVE  FALSE
  BY DEF NoIdleWithWorkStep
<1>1. pc \in [CPUs -> UserPC \cup IdlePC \cup KernPC]
  BY DEF TypeInv, TypeOK
<1>2. ASSUME NEW f \in Envs, EnvRun(c, cur, f, st, rn) PROVE FALSE
  BY <1>1, <1>2 DEF EnvRun
<1>3. ASSUME Runnable(st) = {}, SchedHalt(c, cur, st, rn) PROVE FALSE
  BY <1>3 DEF SchedHalt, Runnable
<1> QED
  BY <1>2, <1>3 DEF Outcome

LEMMA HandlerIdle ==
    ASSUME PrioritiesBounded, TypeInv, NEW c \in CPUs, Handler(c)
    PROVE  NoIdleWithWorkStep
<1>1. CASE SchedIdle(c)
  BY TypeInv, <1>1, SchedIdleOutcome, OutcomeIdle
<1>2. CASE ReapZombie(c)
  BY TypeInv, <1>2, ReapZombieOutcome, OutcomeIdle
<1>3. CASE Yield(c)
  BY TypeInv, <1>3, YieldOutcome, OutcomeIdle
<1>4. CASE NoEffect(c)
  BY TypeInv, <1>4, NoEffectOutcome, OutcomeIdle
<1>5. CASE SysExofork(c)
  BY TypeInv, <1>5, SysExoforkOutcome, OutcomeIdle
<1>6. ASSUME NEW id \in EnvIds, SysEnvDestroy(c, id) PROVE NoIdleWithWorkStep
  BY TypeInv, <1>6, SysEnvDestroyOutcome, OutcomeIdle
<1>7. ASSUME NEW id \in EnvIds, SysIpcTrySend(c, id) PROVE NoIdleWithWorkStep
  BY TypeInv, <1>7, SysIpcTrySendOutcome, OutcomeIdle
<1>8. ASSUME NEW id \in EnvIds, NEW s \in {"RUNNABLE", "NOT_RUNNABLE"},
             SysEnvSetStatus(c, id, s)
      PROVE  NoIdleWithWorkStep
  <2>0. PICK f \in Envs : SetsStatus(c, id, s, f)
    BY TypeInv, <1>8, SysEnvSetStatusOutcome
  <2>1. /\ Envid2env(c, id, f, TRUE)
        /\ \/ "set_status_any" \in Calls
           \/ f # curenv[c] => env_status[f] = "NOT_RUNNABLE" /\ ~env_ran[f]
        /\ [env_status EXCEPT ![f] = s] \in [Envs -> Status]
        /\ Outcome(c, curenv[c], [env_status EXCEPT ![f] = s], env_ran)
    BY <2>0 DEF SetsStatus
  <2> QED
    BY TypeInv, <2>1, OutcomeIdle
<1>9. CASE SysIpcRecv(c)
  BY TypeInv, <1>9, SysIpcRecvOutcome, OutcomeIdle
<1>10. CASE SysIpcRecvBadVa(c)
  BY TypeInv, <1>10, SysIpcRecvBadVaOutcome, OutcomeIdle
<1>11. CASE SysModificarPrioridad(c)
  BY TypeInv, <1>11, SysModificarPrioridadOutcome, OutcomeIdle
<1>12. CASE Panic(c)
  BY <1>12 DEF Panic, NoIdleWithWorkStep, TypeInv, TypeOK
<1> QED
  BY <1>1, <1>2, <1>3, <1>4, <1>5, <1>6, <1>7, <1>8, <1>9, <1>10, <1>11, <1>12 DEF Handler

\* A CPU halts only when nothing could run on it: always under round robin,
\* and under priorities as long as none exceeds PRIORIDAD_MAX.
THEOREM NeverIdleWithWork == ASSUME PrioritiesBounded PROVE Spec => NoIdleWithWork
<1>1. TypeInv /\ [Next]_vars => [NoIdleWithWorkStep]_vars
  <2> SUFFICES ASSUME TypeInv, Next PROVE NoIdleWithWorkStep
    OBVIOUS
  <2>0. pc \in [CPUs -> UserPC \cup IdlePC \cup KernPC]
    BY DEF TypeInv, TypeOK
  <2>1. ASSUME NEW c \in CPUs,
               TrapUser(c) \/ TimerHalted(c) \/ Lock(c) \/ ReturnToUser(c) \/ Monitor(c)
        PROVE  NoIdleWithWorkStep
    BY <2>0, <2>1 DEF TrapUser, TimerHalted, Lock, ReturnToUser, Monitor, vars, NoIdleWithWorkStep
  <2> QED
    BY <2>1, HandlerIdle DEF Next
<1> QED
  BY <1>1, TypeInduction, PTL DEF Spec, NoIdleWithWork

\* Out of the scheduler's reach: a zombie, or what waits for a send.
Parked(e) == env_status[e] = "DYING" \/ (env_status[e] = "NOT_RUNNABLE" /\ env_ipc_recving[e])

\* How a handler on c may end that: its own CPU reaps the zombie; a send reaches
\* the receiver, or it is destroyed.
LeavesParked(c, e) ==
    \/ /\ env_status[e] = "DYING" /\ env_status'[e] = "FREE"
       /\ pc[c] = "kern" /\ curenv[c] = e /\ curenv'[c] # e
    \/ env_status[e] = "NOT_RUNNABLE" /\ env_status'[e] = "FREE"
    \/ /\ env_status[e] = "NOT_RUNNABLE" /\ env_status'[e] # "DYING"
       /\ ~env_ipc_recving'[e]

LEMMA HandlerSpares ==
    ASSUME Ordinary, IInv, NEW c \in CPUs, Handler(c), NEW e \in Envs, Parked(e)
    PROVE  env_status'[e] = env_status[e] \/ LeavesParked(c, e)
<1> DEFINE cur == curenv[c]
           Goal == env_status'[e] = env_status[e] \/ LeavesParked(c, e)
<1>0. /\ env_status \in [Envs -> Status] /\ env_ran \in [Envs -> BOOLEAN]
      /\ env_ipc_recving \in [Envs -> BOOLEAN]
      /\ \A f \in Envs : Freed(f) \in [Envs -> Status]
      /\ TypeInv /\ SchedInv
  BY TypeFacts, FreedType DEF IInv, TableOK
<1>t. TypeInv
  BY DEF IInv
<1>p. env_status[e] \in {"DYING", "NOT_RUNNABLE"}
  BY DEF Parked
\* A handler that leaves e's status alone leaves e alone.
<1>e. ASSUME NEW cu \in Envs \cup {None}, NEW st \in [Envs -> Status],
             NEW rn \in [Envs -> BOOLEAN], Outcome(c, cu, st, rn), st[e] = env_status[e]
      PROVE  env_status'[e] = env_status[e]
  BY <1>p, <1>e, OutcomeStatus
<1>s. ASSUME NEW cu \in Envs \cup {None}, Outcome(c, cu, env_status, env_ran)
      PROVE  env_status'[e] = env_status[e]
  BY <1>0, <1>s, <1>e
\* One that frees e, and calls sched_yield without a curenv or with another.
<1>f. ASSUME NEW cu \in Envs \cup {None}, cu # e, Outcome(c, cu, Freed(e), env_ran)
      PROVE  env_status'[e] = "FREE" /\ (cu = None => curenv'[c] # e)
  <2>1. Freed(e)[e] = "FREE" /\ Freed(e) \in [Envs -> Status]
    BY <1>0 DEF Freed
  <2>2. env_status'[e] = "FREE"
    BY <1>0, <1>f, <2>1, OutcomeStatus
  <2>3. curenv \in [CPUs -> Envs \cup {None}]
    BY <1>0 DEF TypeInv, TypeOK
  <2>4. ASSUME NEW f \in Envs, Freed(e)[f] = "RUNNABLE", EnvRun(c, cu, f, Freed(e), env_ran)
        PROVE  curenv'[c] # e
    BY <2>1, <2>3, <2>4 DEF EnvRun
  <2>5. ASSUME cu = None, SchedHalt(c, cu, Freed(e), env_ran) PROVE curenv'[c] # e
    BY <2>3, <2>5, NoneAssumption DEF SchedHalt
  <2> QED
    BY <1>f, <2>2, <2>4, <2>5, NoneAssumption DEF Outcome
\* A live curenv is RUNNING, so it is not e.
<1>k. ASSUME pc[c] = "kern", env_status[cur] # "DYING"
      PROVE  cur \in Envs /\ env_status[cur] = "RUNNING" /\ cur # e
  BY <1>0, <1>k, <1>p DEF TypeInv, CurenvSet, SchedInv, UserHoldsRunning, UserPC
<1>1. CASE SchedIdle(c)
  <2>1. Outcome(c, None, env_status, env_ran)
    BY <1>0, <1>1, SchedIdleOutcome
  <2> QED
    BY <1>s, <2>1
<1>2. CASE ReapZombie(c)
  <2>1. /\ cur \in Envs /\ Outcome(c, None, Freed(cur), env_ran)
        /\ pc[c] = "kern" /\ env_status[cur] = "DYING"
    BY <1>0, <1>2, ReapZombieOutcome DEF ReapZombie
  <2>2. CASE cur = e
    BY <1>f, <2>1, <2>2, NoneAssumption DEF LeavesParked
  <2>3. CASE cur # e
    <3>1. Freed(cur)[e] = env_status[e]
      BY <1>0, <2>3 DEF Freed
    <3> QED
      BY <1>0, <1>e, <2>1, <3>1
  <2> QED
    BY <2>2, <2>3
<1>3. CASE Yield(c)
  BY <1>0, <1>3, YieldOutcome, <1>s
<1>4. CASE NoEffect(c)
  BY <1>0, <1>4, NoEffectOutcome, <1>s
<1>5. CASE SysExofork(c)
  <2> DEFINE n == Head(env_free_list)
             st == [env_status EXCEPT ![n] = "NOT_RUNNABLE"]
             rn == [env_ran EXCEPT ![n] = FALSE]
  <2>1. /\ n \in Envs /\ cur \in Envs /\ st \in [Envs -> Status]
        /\ rn \in [Envs -> BOOLEAN] /\ Outcome(c, cur, st, rn)
    BY <1>0, <1>5, SysExoforkOutcome, TypeFacts, StatusNames
  <2>2. 1 \in DOMAIN env_free_list /\ env_free_list[1] = n
    BY <1>5 DEF SysExofork, IInv, TypeInv, TypeOK
  <2>3. env_status[n] = "FREE"
    BY <2>1, <2>2 DEF IInv, FreeListExact
  <2>4. st[e] = env_status[e]
    BY <1>0, <1>p, <2>3
  <2> HIDE DEF st, rn
  <2> QED
    BY <2>1, <2>4, <1>e
<1>6. ASSUME NEW id \in EnvIds, SysEnvDestroy(c, id) PROVE Goal
  <2>1. PICK f \in Envs :
           /\ env_status[f] = "DYING" => "destroy_dying" \in Calls
           /\ \/ /\ env_status[f] = "RUNNING" /\ f # cur
                 /\ [env_status EXCEPT ![f] = "DYING"] \in [Envs -> Status]
                 /\ Outcome(c, cur, [env_status EXCEPT ![f] = "DYING"], env_ran)
              \/ f # cur /\ Outcome(c, cur, Freed(f), env_ran)
              \/ f = cur /\ Outcome(c, None, Freed(f), env_ran)
    BY <1>0, <1>6, SysEnvDestroyOutcome
  <2>2. /\ cur \in Envs /\ cur # e /\ env_status[f] # "DYING"
        /\ env_status[cur] = "RUNNING"
    BY <1>6, <1>k, <2>1 DEF SysEnvDestroy, InKernel, Ordinary, OrdinaryCalls
  <2>3. CASE f = e
    <3>1. env_status[e] = "NOT_RUNNABLE"
      BY <1>p, <2>2, <2>3
    <3>2. Outcome(c, cur, Freed(e), env_ran)
      BY <2>1, <2>2, <2>3, <3>1
    <3> QED
      BY <1>f, <2>2, <3>1, <3>2 DEF LeavesParked
  <2>4. CASE f # e
    <3>1. [env_status EXCEPT ![f] = "DYING"][e] = env_status[e] /\ Freed(f)[e] = env_status[e]
      BY <1>0, <2>4 DEF Freed
    <3> QED
      BY <1>0, <1>e, <2>1, <2>2, <3>1
  <2> QED
    BY <2>3, <2>4
<1>7. ASSUME NEW id \in EnvIds, SysIpcTrySend(c, id) PROVE Goal
  <2>1. PICK f \in Envs :
           /\ Envid2env(c, id, f, FALSE)
           /\ env_ipc_recving[f]
           /\ env_ipc_recving' = [env_ipc_recving EXCEPT ![f] = FALSE]
           /\ [env_status EXCEPT ![f] = "RUNNABLE"] \in [Envs -> Status]
           /\ Outcome(c, cur, [env_status EXCEPT ![f] = "RUNNABLE"], env_ran)
    BY <1>0, <1>7, SysIpcTrySendOutcome
  <2>2. cur \in Envs
    BY <1>7, <1>k DEF SysIpcTrySend, InKernel
  <2>3. env_status[f] = "NOT_RUNNABLE"
    BY <1>7, <2>1, <1>0, Envid2envAlive DEF SysIpcTrySend, InKernel, SchedInv, RecvingIsBlocked
  <2>4. CASE f = e
    <3> DEFINE st == [env_status EXCEPT ![f] = "RUNNABLE"]
    <3>1. st[e] = "RUNNABLE" /\ st \in [Envs -> Status] /\ Outcome(c, cur, st, env_ran)
      BY <1>0, <2>1, <2>4
    <3>2. ~env_ipc_recving'[e]
      BY <1>0, <2>1, <2>4
    <3> HIDE DEF st
    <3>3. env_status'[e] \in {"RUNNABLE", "RUNNING"}
      BY <1>0, <2>2, <3>1, OutcomeStatus
    <3> QED
      BY <2>3, <2>4, <3>2, <3>3 DEF LeavesParked
  <2>5. CASE f # e
    <3>1. [env_status EXCEPT ![f] = "RUNNABLE"][e] = env_status[e]
      BY <1>0, <2>5
    <3> QED
      BY <1>0, <1>e, <2>1, <2>2, <3>1
  <2> QED
    BY <2>4, <2>5
<1>8. ASSUME NEW id \in EnvIds, NEW s \in {"RUNNABLE", "NOT_RUNNABLE"},
             SysEnvSetStatus(c, id, s)
      PROVE  Goal
  <2>0. PICK f \in Envs : SetsStatus(c, id, s, f)
    BY <1>t, <1>8, SysEnvSetStatusOutcome
  <2>1. /\ Envid2env(c, id, f, TRUE)
        /\ \/ "set_status_any" \in Calls
           \/ f # curenv[c] => env_status[f] = "NOT_RUNNABLE" /\ ~env_ran[f]
        /\ [env_status EXCEPT ![f] = s] \in [Envs -> Status]
        /\ Outcome(c, curenv[c], [env_status EXCEPT ![f] = s], env_ran)
    BY <2>0 DEF SetsStatus
  <2>2. /\ cur \in Envs /\ cur # e
        /\ f # cur => env_status[f] = "NOT_RUNNABLE" /\ ~env_ran[f]
    BY <1>8, <1>k, <2>1 DEF SysEnvSetStatus, InKernel, Ordinary, OrdinaryCalls
  <2>3. f # e
    BY <1>0, <2>2 DEF Parked, SchedInv, HasRun
  <2>4. [env_status EXCEPT ![f] = s][e] = env_status[e]
    BY <1>0, <2>3
  <2> QED
    BY <1>0, <1>e, <2>1, <2>2, <2>4
<1>9. CASE SysIpcRecv(c)
  <2> DEFINE st == [env_status EXCEPT ![cur] = "NOT_RUNNABLE"]
  <2>1. cur # e
    BY <1>9, <1>k DEF SysIpcRecv, InKernel
  <2>2. cur \in Envs /\ st \in [Envs -> Status] /\ Outcome(c, cur, st, env_ran)
    BY <1>0, <1>9, SysIpcRecvOutcome
  <2>3. st[e] = env_status[e]
    BY <1>0, <2>1
  <2> HIDE DEF st
  <2> QED
    BY <1>0, <2>2, <2>3, <1>e
<1>10. CASE SysIpcRecvBadVa(c)
  BY <1>0, <1>10, SysIpcRecvBadVaOutcome, <1>s
<1>11. CASE SysModificarPrioridad(c)
  BY <1>0, <1>11, SysModificarPrioridadOutcome, <1>s
<1>12. CASE Panic(c)
  BY <1>12 DEF Panic, envVars
<1> QED
  BY <1>1, <1>2, <1>3, <1>4, <1>5, <1>6, <1>7, <1>8, <1>9, <1>10, <1>11, <1>12 DEF Handler

\* The two together, over any step
LEMMA StepSpares ==
    ASSUME Ordinary, IInv, Next, NEW e \in Envs, Parked(e)
    PROVE  env_status'[e] = env_status[e] \/ \E c \in CPUs : LeavesParked(c, e)
<1>1. ASSUME NEW c \in CPUs,
             TrapUser(c) \/ TimerHalted(c) \/ Lock(c) \/ ReturnToUser(c) \/ Monitor(c)
      PROVE  env_status'[e] = env_status[e]
  BY <1>1, QuietSteps
<1> QED
  BY <1>1, HandlerSpares DEF Next

\* A zombie is freed by a trap of the CPU that has it, which drops it.
THEOREM OwnCpuReaps == ASSUME Ordinary PROVE Spec => ZombieFreedByItsCpu
<1>1. IInv /\ [Next]_vars => [ZombieFreedByItsCpuStep]_vars
  BY StepSpares DEF ZombieFreedByItsCpuStep, Parked, LeavesParked
<1> QED
  BY <1>1, SchedInduction, PTL DEF Spec, ZombieFreedByItsCpu

\* A receiver is resumed by a send alone.
THEOREM OnlySendResumes == ASSUME Ordinary PROVE Spec => BlockedUntilSent
<1>1. IInv /\ [Next]_vars => [BlockedUntilSentStep]_vars
  BY StepSpares DEF BlockedUntilSentStep, Parked, LeavesParked
<1> QED
  BY <1>1, SchedInduction, PTL DEF Spec, BlockedUntilSent

=============================================================================
