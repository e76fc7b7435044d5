----------------------------- MODULE BootMemory -----------------------------
(***************************************************************************)
(* kern/pmap.c from the moment the kernel is entered to the moment its own *)
(* page directory is in use: mem_init, with boot_alloc, page_init, the     *)
(* mappings above UTOP, and the checks the kernel makes on the way.        *)
(*                                                                         *)
(* Addresses are page numbers, and they are the real ones.  The state is   *)
(* one record k; page_free_list is a list here, because which page is      *)
(* allocated matters: until the directory is loaded only the first 4 MB    *)
(* are mapped (kern/entrypgdir.c).  The page directory has its entries and *)
(* one of them is for itself; what its tables say is kept as the regions   *)
(* that were mapped, each a few numbers, not an entry per page.            *)
(* TP1_PSE is not defined by the makefile.                                 *)
(***************************************************************************)
EXTENDS Integers, Sequences, FiniteSets, SequencesExt, TLC

PGSIZE == 4096
NPTENTRIES == 1024
MPENTRY == 7                 \* MPENTRY_PADDR
IOPHYSMEM == 160
EXTPHYSMEM == 256
KERNBASE == 983040           \* 0xF0000
KSTACKTOP == KERNBASE
KSTKSIZE == 8
KSTKGAP == 8
NCPU == 8
MMIOLIM == KSTACKTOP - NPTENTRIES
MMIOBASE == MMIOLIM - NPTENTRIES
ULIM == MMIOBASE
UVPT == ULIM - NPTENTRIES
UPAGES == UVPT - NPTENTRIES
UENVS == UPAGES - NPTENTRIES
PageInfoSize == 8
EnvsSize == 1024 * 140       \* NENV * sizeof(struct Env)

PDX(va) == va \div NPTENTRIES
PTX(va) == va % NPTENTRIES
ROUNDUP(n) == (n + PGSIZE - 1) \div PGSIZE

\* What the first directory maps at KERNBASE
entry_pgdir == 0..NPTENTRIES - 1

\* The amount of memory, from the CMOS: in KB, in KB, in 64 KB
i386_detect_memory(cmos) ==
    LET totalmem == IF cmos.ext16mem > 0 THEN 16 * 1024 + cmos.ext16mem * 64
                    ELSE IF cmos.extmem > 0 THEN 1024 + cmos.extmem
                    ELSE cmos.basemem
    IN  totalmem \div 4

\* end: the first page after the kernel; stacks: where percpu_kstacks is
Entered(cmos, end, stacks) ==
    [npages |-> i386_detect_memory(cmos), nextfree |-> end, stacks |-> stacks,
     page_free_list |-> <<>>,
     pde |-> <<>>,           \* the entries of kern_pgdir that are set
     regions |-> {},         \* what is mapped in their tables
     mmio |-> MMIOBASE,
     written |-> {},         \* pages written while entry_pgdir is in use
     pages |-> 0, envs |-> 0, kern_pgdir |-> 0,
     panic |-> FALSE]

-----------------------------------------------------------------------------

\* boot_alloc and the memset that follows each call
boot_alloc(k, bytes) ==
    LET next == k.nextfree + ROUNDUP(bytes)
    IN  IF k.panic \/ k.nextfree * PGSIZE + bytes >= PGSIZE * k.npages
        THEN [k EXCEPT !.panic = TRUE]
        ELSE [k EXCEPT !.nextfree = next, !.written = @ \cup (k.nextfree..next - 1)]

\* The list is built from its end: the last page comes first
page_init(k) ==
    LET free(i) == ~(i = 0 \/ i = MPENTRY \/ i \in IOPHYSMEM..EXTPHYSMEM - 1
                           \/ i \in EXTPHYSMEM..k.nextfree - 1)
    IN  [k EXCEPT !.page_free_list = SelectSeq([n \in 1..k.npages |-> k.npages - n], free)]

Entry(pa, perm) == [pa |-> pa, perm |-> perm]

\* pgdir_walk with create, for one entry after another: a table that is missing
\* is the first free page, cleared
NewTables(k, pdxs) ==
    LET missing == pdxs \ DOMAIN k.pde
        n == Cardinality(missing)
        page(d) == k.page_free_list[Cardinality({x \in missing : x <= d})]
    IN  IF Len(k.page_free_list) < n THEN [k EXCEPT !.panic = TRUE]
        ELSE [k EXCEPT !.pde = [d \in missing |-> Entry(page(d), {"W", "U"})] @@ @,
                       !.written = @ \cup {page(d) : d \in missing},
                       !.page_free_list = SubSeq(@, n + 1, Len(@))]

Region(va, size, pa, perm) == [va |-> va, size |-> size, pa |-> pa, perm |-> perm]

boot_map_region(k, va, size, pa, perm) ==
    [NewTables(k, PDX(va)..PDX(va + size - 1)) EXCEPT !.regions = @ \cup {Region(va, size, pa, perm)}]

mmio_map_region(k, pa, size) ==
    IF k.mmio + size >= MMIOLIM
    THEN [k EXCEPT !.panic = TRUE]
    ELSE [boot_map_region(k, k.mmio, size, pa, {"W"}) EXCEPT !.mmio = @ + size]

mem_init_mp(k) ==
    LET stack(n) == KSTACKTOP - n * (KSTKSIZE + KSTKGAP) - KSTKSIZE
    IN  FoldLeft(LAMBDA x, n : boot_map_region(x, stack(n), KSTKSIZE, k.stacks + n * KSTKSIZE, {"W"}),
                 k, [n \in 1..NCPU |-> n - 1])

-----------------------------------------------------------------------------
\* The checks that change something

\* Faulty form: the list is only looked at
check_page_free_listNoMove(k) == k

\* only_low_memory: the pages that entry_pgdir maps go first
check_page_free_list(k) ==
    LET low(i) == PDX(i) < 1
        high(i) == PDX(i) >= 1
    IN  [k EXCEPT !.page_free_list = SelectSeq(@, low) \o SelectSeq(@, high),
                  !.written = @ \cup {i \in Range(k.page_free_list) : PDX(i) < 1}]

\* check_page frees its three pages in the order it took them, so they change
\* places; and the two regions it maps leave the table of MMIOBASE behind
check_page(k) ==
    LET f == k.page_free_list
        back == [k EXCEPT !.page_free_list = <<f[3], f[2], f[1]>> \o SubSeq(f, 4, Len(f))]
        mapped == mmio_map_region(mmio_map_region(back, 0, 2), 0, 1)
    IN  IF k.panic \/ Len(f) < 3 THEN [k EXCEPT !.panic = TRUE]
        ELSE [mapped EXCEPT !.regions = k.regions]

-----------------------------------------------------------------------------
\* What the checks assert

\* What the processor finds for an address, if anything: the page and what both
\* levels allow.  The directory is its own table at UVPT
Walk(k, va) ==
    LET pde == k.pde[PDX(va)]
        ptes == IF pde.pa = k.kern_pgdir
                THEN {k.pde[i] : i \in {PTX(va)} \cap DOMAIN k.pde}
                ELSE {Entry(r.pa + va - r.va, r.perm) :
                         r \in {x \in k.regions : x.va <= va /\ va < x.va + x.size}}
    IN  IF PDX(va) \notin DOMAIN k.pde THEN {}
        ELSE {Entry(pte.pa, pte.perm \cap pde.perm) : pte \in ptes}

\* ~0 when nothing is mapped
check_va2pa(k, va) ==
    IF Walk(k, va) = {} THEN -1 ELSE (CHOOSE e \in Walk(k, va) : TRUE).pa

FreeListAsserted(k) ==
    LET free == Range(k.page_free_list)
    IN  /\ free \subseteq 0..k.npages - 1
        /\ free \cap {0, IOPHYSMEM, EXTPHYSMEM - 1, EXTPHYSMEM, MPENTRY} = {}
        /\ \A i \in free : i < EXTPHYSMEM \/ i >= k.nextfree
        /\ \E i \in free : i < EXTPHYSMEM
        /\ \E i \in free : i >= EXTPHYSMEM

check_kern_pgdir(k) ==
    /\ \A i \in 0..ROUNDUP(k.npages * PageInfoSize) - 1 : check_va2pa(k, UPAGES + i) = k.pages + i
    /\ \A i \in 0..ROUNDUP(EnvsSize) - 1 : check_va2pa(k, UENVS + i) = k.envs + i
    /\ \A i \in 0..k.npages - 1 : check_va2pa(k, KERNBASE + i) = i
    /\ \A n \in 0..NCPU - 1 :
          LET base == KSTACKTOP - (KSTKSIZE + KSTKGAP) * (n + 1)
          IN  /\ \A i \in 0..KSTKSIZE - 1 : check_va2pa(k, base + KSTKGAP + i) = k.stacks + n * KSTKSIZE + i
              /\ \A i \in 0..KSTKGAP - 1 : check_va2pa(k, base + i) = -1
    /\ DOMAIN k.pde = {PDX(UVPT), PDX(KSTACKTOP - 1), PDX(UPAGES), PDX(UENVS), PDX(MMIOBASE)}
                      \cup (PDX(KERNBASE)..NPTENTRIES - 1)
    /\ \A i \in PDX(KERNBASE)..NPTENTRIES - 1 : "W" \in k.pde[i].perm

\* What users find between UTOP and the tables of KERNBASE, and what of it they
\* may read and write
UserEntries(k) == {e \in UNION {Walk(k, va) : va \in UENVS..KSTACKTOP - 1} : "U" \in e.perm}
UserReads(k) == {e.pa : e \in UserEntries(k)}
UserWrites(k) == {e.pa : e \in {x \in UserEntries(k) : "W" \in x.perm}}

\* The whole of it; an assertion that fails is a panic
kassert(k, holds) == IF k.panic \/ holds THEN k ELSE [k EXCEPT !.panic = TRUE]

mem_init(cmos, end, stacks) ==
    LET k0 == Entered(cmos, end, stacks)
        k1 == [boot_alloc(k0, PGSIZE) EXCEPT !.kern_pgdir = end,
                                             !.pde = PDX(UVPT) :> Entry(end, {"U"})]
        k2 == [boot_alloc(k1, k0.npages * PageInfoSize) EXCEPT !.pages = k1.nextfree]
        k3 == [boot_alloc(k2, EnvsSize) EXCEPT !.envs = k2.nextfree]
        k4 == check_page_free_list(page_init(k3))
        k5 == check_page(kassert(k4, FreeListAsserted(k4)))
        k6 == boot_map_region(k5, UPAGES, ROUNDUP(k0.npages * PageInfoSize), k5.pages, {"U"})
        k7 == boot_map_region(k6, UENVS, ROUNDUP(EnvsSize), k5.envs, {"U"})
        k8 == mem_init_mp(boot_map_region(k7, KERNBASE, 65536, 0, {"W"}))
    IN  CASE k3.panic -> k3
          [] k5.panic -> k5
          [] OTHER -> kassert(kassert(k8, check_kern_pgdir(k8)), FreeListAsserted(k8))
=============================================================================
