--------------------------- MODULE AddressSpaces ---------------------------
(***************************************************************************)
(* What the memory of TP2-sched's environments promises a program, with no *)
(* physical pages, page faults or copy-on-write: an environment has an     *)
(* address space of its own, fork gives the child a copy of it, and only a *)
(* page passed by IPC can change behind an environment's back, or be seen  *)
(* at two of its addresses.                                                *)
(***************************************************************************)
EXTENDS Naturals

CONSTANTS Envs, Addresses,
          Vals,              \* what a program can store, Zero among them
          Zero,
          Unmapped           \* no page here; it is not one of Vals

VARIABLES begun,             \* the first environment was loaded
          alive,             \* the environments that have begun
          space,             \* what each of them sees
          faulting,          \* those in the middle of a page fault
          shared             \* the cells that change when another is written

vars == <<begun, alive, space, faulting, shared>>

Cells == Envs \X Addresses
Blank == [a \in Addresses |-> Unmapped]

Init ==
    /\ begun = FALSE
    /\ alive = {}
    /\ space = [f \in Envs |-> Blank]
    /\ faulting = {}
    /\ shared = {}

\* The first environment: all its memory is zero
Begin(e) ==
    /\ ~begun /\ begun'
    /\ alive' = {e}
    /\ space' = [space EXCEPT ![e] = [a \in Addresses |-> Zero]]
    /\ UNCHANGED <<faulting, shared>>

\* Cells other than those of C keep what they hold, shared ones excepted
OthersKept(C) == \A e \in alive, a \in Addresses :
                    <<e, a>> \in C \cup shared \/ space'[e][a] = space[e][a]

\* What an instruction writes it writes at once: never a page fault
Write(e, a, x) ==
    /\ e \in alive \ faulting
    /\ space'[e][a] = x
    /\ OthersKept({<<e, a>>})
    /\ shared' \subseteq shared
    /\ UNCHANGED <<begun, alive, faulting>>

\* A page fault begins, ends or goes on: it shows nothing to the program, but
\* another writer may no longer reach the cell
Fault ==
    /\ faulting' \subseteq alive
    /\ shared' \subseteq shared
    /\ OthersKept({})
    /\ UNCHANGED <<begun, alive>>

Fork(e, c) ==
    /\ e \in alive /\ c \notin alive
    /\ alive' = alive \cup {c}
    /\ \A a \in Addresses : <<e, a>> \in shared \/ space'[c][a] = space[e][a]
    /\ OthersKept({})
    /\ UNCHANGED <<begun, faulting>>
    /\ shared' \subseteq shared \cup {<<c, a>> : a \in {b \in Addresses : <<e, b>> \in shared}}

Die(e) ==
    /\ e \in alive
    /\ alive' = alive \ {e}
    /\ faulting' = faulting \ {e}
    /\ OthersKept({e} \X Addresses)
    /\ shared' \subseteq shared
    /\ UNCHANGED begun

Send(e, a, f, b) ==
    /\ {e, f} \subseteq alive \ faulting
    /\ space'[f][b] = space[e][a]
    /\ OthersKept({<<f, b>>})
    /\ shared' \subseteq shared \cup {<<e, a>>, <<f, b>>}
    /\ UNCHANGED <<begun, alive, faulting>>

Next ==
    \/ \E e \in Envs : Begin(e)
    \/ Fault
    \/ \E e \in Envs : Die(e)
    \/ \E e \in Envs, a \in Addresses, x \in Vals \cup {Unmapped} : Write(e, a, x)
    \/ \E e, c \in Envs : Fork(e, c)
    \/ \E e, f \in Envs, a, b \in Addresses : Send(e, a, f, b)

Spec == Init /\ [][Next]_vars
=============================================================================
