----------------------------- MODULE EnvFamily -----------------------------
(***************************************************************************)
(* Who made whom.  The kernel knows an environment's parent only by the id *)
(* it wrote in env_parent_id, and ids come back once their generations     *)
(* have gone round (env_alloc).  This module adds to EnvSched two history  *)
(* variables that no id can deceive, and says with them which environments *)
(* the permission test of envid2env really lets end another.               *)
(***************************************************************************)
EXTENDS EnvSched

VARIABLES
    maker,      \* the slot of the environment that forked each one, or None
    reused      \* how many environments have taken the maker's slot since:
                \* 0 for none, then 1 .. GenLimit over and over

familyVars == <<vars, maker, reused>>

FamilyTypeOK ==
    /\ maker \in [Envs -> Envs \cup {None}]
    /\ reused \in [Envs -> 0 .. GenLimit]

FamilyInit == Init /\ maker = [e \in Envs |-> None] /\ reused = [e \in Envs |-> 0]

\* The slots this step takes off the free list
Taken == {e \in Envs : env_status[e] = "FREE" /\ env_status'[e] # "FREE"}

\* Only the holder of the lock forks.  A slot that is free has no maker.
Family ==
    /\ maker' = [e \in Envs |-> IF e \in Taken THEN curenv[kernel_lock]
                                ELSE IF env_status'[e] = "FREE" THEN None
                                ELSE maker[e]]
    /\ reused' = [e \in Envs |-> IF e \in Taken \/ env_status'[e] = "FREE" THEN 0
                                 ELSE IF maker[e] \notin Taken THEN reused[e]
                                 ELSE IF reused[e] < GenLimit THEN reused[e] + 1 ELSE 1]

\* Every step of Next, and Family with it
FamilyNext == \E c \in CPUs :
    \/ (TrapUser(c) \/ TimerHalted(c) \/ Lock(c) \/ ReturnToUser(c) \/ Monitor(c)) /\ Family
    \/ (SchedIdle(c) \/ ReapZombie(c) \/ Yield(c) \/ NoEffect(c)) /\ Family
    \/ SysExofork(c) /\ Family
    \/ (\E id \in EnvIds : SysEnvDestroy(c, id)) /\ Family
    \/ (\E id \in EnvIds : SysIpcTrySend(c, id)) /\ Family
    \/ (\E id \in EnvIds, s \in {"RUNNABLE", "NOT_RUNNABLE"} : SysEnvSetStatus(c, id, s)) /\ Family
    \/ SysIpcRecv(c) /\ Family
    \/ (\E call \in Calls \cap UnusualCalls : SysIpcRecvBadVa(c)) /\ Family
    \/ SysModificarPrioridad(c) /\ Family
    \/ (\E call \in Calls \cap UnusualCalls : Panic(c)) /\ Family

FamilySpec == FamilyInit /\ [][FamilyNext]_familyVars

\* An environment is ended only by itself, by the environment that forked it,
\* or, once the generations of its parent's slot have gone all the way round
\* (env.c:218), by the one that then has the parent's id: never by another that
\* has taken the parent's slot in between, and by nobody who was not made there.
\* (envid2env's checkperm against env_alloc, sys_exofork and sys_env_destroy.)
EndedByFamilyStep ==
    \A e \in Envs : env_status[e] \notin {"FREE", "DYING"}
                    /\ env_status'[e] \in {"FREE", "DYING"} =>
        \E c \in CPUs : /\ pc[c] = "kern"
                        /\ \/ curenv[c] = e
                           \/ curenv[c] = maker[e] /\ reused[e] \in {0, GenLimit}
EndedByFamily == [][EndedByFamilyStep]_familyVars

-----------------------------------------------------------------------------
(***************************************************************************)
(* A schedule that starves.                                                *)
(***************************************************************************)

Children(e) == {f \in Envs : env_status[f] # "FREE" /\ maker[f] = e /\ reused[f] = 0}

\* No environment takes a stranger for its parent: a parent's id does not come
\* back while a child that outlived it is left.  The code has 2^19 - 1
\* generations to go through first.
NoIdComesBack ==
    \A e \in Envs : maker[e] # None /\ reused[e] # 0 => env_parent_id[e] # env_id[maker[e]]

\* Two programs: the one of slot 0 computes and calls nothing; the other forks a
\* child when it has none, starts it, computes and exits.
ForkAndExit(c) ==
    pc[c] = "kern" =>
        LET e == curenv[c]
        IN  \/ e = 0 /\ Yield(c)
            \/ (\E f \in Children(e) : env_status[f] = "RUNNABLE") /\ Yield(c)
            \/ e # 0 /\ Children(e) = {} /\ SysExofork(c)
            \/ \E f \in Children(e) : /\ env_status[f] = "NOT_RUNNABLE"
                                      /\ SysEnvSetStatus(c, env_id[f], "RUNNABLE")
            \/ /\ e # 0 /\ \A f \in Children(e) : env_status[f] = "RUNNABLE"
               /\ SysEnvDestroy(c, ZeroId)

\* Some of the behaviours of FamilySpec, with all the fairness of FairSpec.
ForkAndExitSpec ==
    /\ FamilyInit
    /\ [][FamilyNext /\ (\A c \in CPUs : ForkAndExit(c)) /\ NoIdComesBack']_familyVars
    /\ CpuFairness /\ TimerFairness
====
