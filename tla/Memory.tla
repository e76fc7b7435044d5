------------------------------- MODULE Memory -------------------------------
(***************************************************************************)
(* TP2-sched's memory: kern/pmap.c, the address spaces kern/env.c builds   *)
(* and tears down, and the page half of the system calls.                  *)
(*                                                                         *)
(* The state is one record m.  A page directory, a page table and a mapped *)
(* page are all physical pages, so everything that refers to one is a      *)
(* "slot": the directory of an environment, an entry of that directory, an *)
(* entry of a table.  The operators below take the memory before a call    *)
(* and give the memory after it; a call that may fail gives both an error  *)
(* flag and the memory, which is not always what it was.                   *)
(*                                                                         *)
(* Virtual addresses are the page numbers the library calls pnum, with the *)
(* layout of inc/memlayout.h folded to a few pages: UTEMP and PFTEMP in    *)
(* one page table, the program in another, both stacks in a third.  PTE_P  *)
(* is "the slot holds a page", PTE_U is always set below UTOP, and of the  *)
(* other bits PTE_W and PTE_COW are kept.  The order of page_free_list is  *)
(* left out: every user page is cleared when it is allocated, so which     *)
(* free page is taken tells nothing apart.  Addresses that no page can     *)
(* have (past UTOP, not aligned) and permissions out of PTE_SYSCALL are    *)
(* turned down before any state is touched, and are left out too.          *)
(***************************************************************************)
EXTENDS Naturals, FiniteSets

CONSTANTS Envs,              \* the slots of envs[]
          Pages,             \* the physical pages
          NData,             \* pages of a program: code, data, bss
          Vals,              \* what a page may contain
          Zero,              \* ... after ALLOC_ZERO
          NoPage

ASSUME EnvsAssumption == IsFiniteSet(Envs)
ASSUME PagesAssumption == IsFiniteSet(Pages) /\ NoPage \notin Pages
ASSUME NDataAssumption == NData \in Nat \ {0}
ASSUME ValsAssumption == Zero \in Vals

UTEMP == 0
PFTEMP == 1
Data == 2..NData + 1
STACK == NData + 2           \* USTACKTOP - PGSIZE
UXSTACK == NData + 3         \* UXSTACKTOP - PGSIZE
VAs == 0..NData + 3

PDX(va) == IF va <= PFTEMP THEN 0 ELSE IF va \in Data THEN 1 ELSE 2

Slots == (Envs \X {"env_pgdir"} \X {0}) \cup (Envs \X {"pde"} \X (0..2)) \cup (Envs \X {"pte"} \X VAs)

Pgdir(e) == <<e, "env_pgdir", 0>>
Pde(e, va) == <<e, "pde", PDX(va)>>
Pte(e, va) == <<e, "pte", va>>
SlotsOf(e) == {s \in Slots : s[1] = e}

Bits == {"W", "COW"}

\* struct PageInfo[], page_free_list, the page tables and the contents.
\* unlisted is history: the pages the allocator will never give out, the
\* kernel's own and those env_page_alloc loses.
MemType ==
    [slot : [Slots -> Pages \cup {NoPage}],
     perm : [Envs -> [VAs -> SUBSET Bits]],
     pp_ref : [Pages -> Nat],
     page_free_list : SUBSET Pages,
     data : [Pages -> Vals],
     unlisted : SUBSET Pages]

Users(m, p) == {s \in Slots : m.slot[s] = p}
Mapped(m, e, va) == m.slot[Pde(e, va)] # NoPage /\ m.slot[Pte(e, va)] # NoPage
PageAt(m, e, va) == m.slot[Pte(e, va)]
HasBit(m, e, va, bit) == Mapped(m, e, va) /\ bit \in m.perm[e][va]

Ok(m) == [err |-> FALSE, m |-> m]
Fail(m) == [err |-> TRUE, m |-> m]

-----------------------------------------------------------------------------
(***************************************************************************)
(* kern/pmap.c.                                                            *)
(***************************************************************************)

\* Page 0, the page of mpentry.S, the I/O hole and the kernel are in use
page_init(inuse) ==
    [slot |-> [s \in Slots |-> NoPage],
     perm |-> [e \in Envs |-> [va \in VAs |-> {}]],
     pp_ref |-> [p \in Pages |-> 0],
     page_free_list |-> Pages \ inuse,
     data |-> [p \in Pages |-> Zero],
     unlisted |-> inuse]

FreePage(m) == CHOOSE p \in m.page_free_list : TRUE

page_alloc(m) ==
    LET p == FreePage(m)
    IN  [m EXCEPT !.page_free_list = @ \ {p}, !.data[p] = Zero]

\* Faulty forms: the page is given back while someone still refers to it, or
\* the count is tested before it is decremented
page_decrefEarly(m, p) ==
    [m EXCEPT !.pp_ref[p] = @ - 1,
              !.page_free_list = IF m.pp_ref[p] <= 2 THEN @ \cup {p} ELSE @,
              !.data[p] = IF m.pp_ref[p] <= 2 THEN Zero ELSE @]
page_decrefPost(m, p) ==
    [m EXCEPT !.pp_ref[p] = @ - 1,
              !.page_free_list = IF m.pp_ref[p] = 0 THEN @ \cup {p} ELSE @]

\* What is left in a free page is nobody's, and is taken as cleared
page_decref(m, p) ==
    [m EXCEPT !.pp_ref[p] = @ - 1,
              !.page_free_list = IF m.pp_ref[p] = 1 THEN @ \cup {p} ELSE @,
              !.data[p] = IF m.pp_ref[p] = 1 THEN Zero ELSE @]

\* create = 1: a missing page table is allocated, if there is a page for it
pgdir_walk(m, e, va) ==
    LET p == FreePage(m)
    IN  IF m.slot[Pde(e, va)] = NoPage /\ m.page_free_list # {}
        THEN [page_alloc(m) EXCEPT !.pp_ref[p] = @ + 1, !.slot[Pde(e, va)] = p]
        ELSE m

page_remove(m, e, va) ==
    IF Mapped(m, e, va)
    THEN [page_decref(m, PageAt(m, e, va)) EXCEPT !.slot[Pte(e, va)] = NoPage,
                                                  !.perm[e][va] = {}]
    ELSE m

\* Faulty form: no reference is counted
page_insertNoRef(m, e, p, va, perm) ==
    LET w == pgdir_walk(m, e, va)
        r == page_remove(w, e, va)
    IN  IF w.slot[Pde(e, va)] = NoPage
        THEN Fail(w)
        ELSE Ok([r EXCEPT !.slot[Pte(e, va)] = p, !.perm[e][va] = perm])

\* The reference is counted before the old page is removed: it may be the
\* same page
page_insert(m, e, p, va, perm) ==
    LET w == pgdir_walk(m, e, va)
        r == page_remove([w EXCEPT !.pp_ref[p] = @ + 1], e, va)
    IN  IF w.slot[Pde(e, va)] = NoPage
        THEN Fail(w)
        ELSE Ok([r EXCEPT !.slot[Pte(e, va)] = p, !.perm[e][va] = perm])

user_mem_check(m, e, va, perm) == Mapped(m, e, va) /\ perm \subseteq m.perm[e][va]

-----------------------------------------------------------------------------
(***************************************************************************)
(* kern/env.c and the helpers of kern/syscall.c.                           *)
(***************************************************************************)

env_setup_vm(m, e) ==
    LET p == FreePage(m)
    IN  IF m.page_free_list = {}
        THEN Fail(m)
        ELSE Ok([page_alloc(m) EXCEPT !.pp_ref[p] = @ + 1, !.slot[Pgdir(e)] = p])

\* Faulty form: a page the environment has mapped twice is released once
env_freeOnce(m, e) ==
    LET mine(p) == Users(m, p) \cap SlotsOf(e)
        ref == [p \in Pages |-> IF mine(p) = {} THEN m.pp_ref[p] ELSE m.pp_ref[p] - 1]
        freed == {p \in Pages : mine(p) # {} /\ ref[p] = 0}
    IN  [m EXCEPT !.slot = [s \in Slots |-> IF s \in SlotsOf(e) THEN NoPage ELSE m.slot[s]],
                  !.perm[e] = [va \in VAs |-> {}],
                  !.pp_ref = ref,
                  !.page_free_list = @ \cup freed]

\* Every table entry, then each table, then the directory
env_free(m, e) ==
    LET mine(p) == Users(m, p) \cap SlotsOf(e)
        ref == [p \in Pages |-> m.pp_ref[p] - Cardinality(mine(p))]
        freed == {p \in Pages : mine(p) # {} /\ ref[p] = 0}
    IN  [m EXCEPT !.slot = [s \in Slots |-> IF s \in SlotsOf(e) THEN NoPage ELSE m.slot[s]],
                  !.perm[e] = [va \in VAs |-> {}],
                  !.pp_ref = ref,
                  !.page_free_list = @ \cup freed,
                  !.data = [p \in Pages |-> IF p \in freed THEN Zero ELSE m.data[p]]]

\* A page for which no table could be allocated is not given back
env_page_alloc(m, e, va, perm) ==
    LET p == FreePage(m)
        i == page_insert(page_alloc(m), e, p, va, perm)
    IN  IF m.page_free_list = {} THEN Fail(m)
        ELSE IF i.err THEN Fail([i.m EXCEPT !.unlisted = @ \cup {p}])
        ELSE i

env_page_map(m, src, srcva, dst, dstva, perm) ==
    IF ~Mapped(m, src, srcva) \/ ("W" \in perm /\ "W" \notin m.perm[src][srcva])
    THEN Fail(m)
    ELSE page_insert(m, dst, PageAt(m, src, srcva), dstva, perm)

\* A page of the program or its stack; without it the kernel panics
region_alloc(m, e, va) == env_page_alloc(m, e, va, {"W"})

\* Faulty form: the new page stays as it was allocated
CopyPageNot(m, e, from, to) == m
\* memmove of a page that is mapped at both addresses
CopyPage(m, e, from, to) == [m EXCEPT !.data[PageAt(m, e, to)] = m.data[PageAt(m, e, from)]]
=============================================================================
