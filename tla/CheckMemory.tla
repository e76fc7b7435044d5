---------------------------- MODULE CheckMemory ----------------------------
(***************************************************************************)
(* The kernel's own test of its page functions (check_page_alloc and       *)
(* check_page in kern/pmap.c) run on the operators of module Memory: the   *)
(* steps are the test's, and so is what it asserts after each of them.     *)
(* Address 0 and PGSIZE are UTEMP and PFTEMP, which share a page table;    *)
(* PTSIZE is the first page of another.  PTE_U, which Memory leaves out,   *)
(* is COW here.                                                            *)
(***************************************************************************)
EXTENDS Memory

CONSTANT kern_pgdir          \* one of Envs

page_free(m, p) == [m EXCEPT !.page_free_list = @ \cup {p}]
Steal(m) == [m EXCEPT !.page_free_list = {}]
Cleared(m, va) == [m EXCEPT !.slot[Pde(kern_pgdir, va)] = NoPage,
                            !.pp_ref[m.slot[Pde(kern_pgdir, va)]] = 0]

insert(m, p, va, perm) == page_insert(m, kern_pgdir, p, va, perm)
remove(m, va) == page_remove(m, kern_pgdir, va)
mapped(m, va) == IF Mapped(m, kern_pgdir, va) THEN PageAt(m, kern_pgdir, va) ELSE NoPage
table(m, va) == m.slot[Pde(kern_pgdir, va)]
bits(m, va) == m.perm[kern_pgdir][va]

PTSIZE == 2

\* Three pages come out of page_alloc, all different, go back, and come out again
check_page_alloc(m) ==
    LET p0 == FreePage(m)
        m1 == page_alloc(m)
        p1 == FreePage(m1)
        m2 == page_alloc(m1)
        p2 == FreePage(m2)
        none == Steal(page_alloc(m2))
        three == page_free(page_free(page_free(none, p0), p1), p2)
        again == page_alloc(page_alloc(page_alloc(three)))
    IN  /\ Cardinality({p0, p1, p2}) = 3
        /\ none.page_free_list = {} /\ again.page_free_list = {}
        /\ FreePage(page_free(again, p0)) = p0
        /\ page_alloc(page_free(again, p0)).data[p0] = Zero
        /\ page_free(page_free(page_free(page_alloc(m2), p0), p1), p2).page_free_list = m.page_free_list

check_page(m) ==
    LET p0 == FreePage(m)
        m1 == page_alloc(m)
        p1 == FreePage(m1)
        m2 == page_alloc(m1)
        p2 == FreePage(m2)
        a == Steal(page_alloc(m2))
        b == insert(page_free(a, p0), p1, 0, {"W"}).m
        c == insert(b, p2, 1, {"W"}).m
        d == insert(c, p2, 1, {"W"}).m
        e == insert(d, p2, 1, {"W", "COW"}).m
        f == insert(e, p2, 1, {"W"}).m
        g == insert(f, p1, 1, {"W"}).m
        h == remove(page_alloc(g), 0)
        i == insert(h, p1, 1, {}).m
        j == remove(i, 1)
        k == page_free(Cleared(page_alloc(j), 0), p0)
        l == pgdir_walk(k, kern_pgdir, PTSIZE)
        n == pgdir_walk(page_free(Cleared(l, PTSIZE), p0), kern_pgdir, 0)
    IN  \* no free memory: no table
        /\ mapped(a, 0) = NoPage
        /\ insert(a, p1, 0, {"W"}).err
        \* p0 is used for the table
        /\ table(b, 0) = p0 /\ mapped(b, 0) = p1
        /\ b.pp_ref[p1] = 1 /\ b.pp_ref[p0] = 1
        /\ mapped(c, 1) = p2 /\ c.pp_ref[p2] = 1 /\ c.page_free_list = {}
        \* p2 once more in the same place
        /\ mapped(d, 1) = p2 /\ d.pp_ref[p2] = 1 /\ d.page_free_list = {}
        /\ mapped(e, 1) = p2 /\ e.pp_ref[p2] = 1 /\ "COW" \in bits(e, 1)
        /\ bits(f, 1) = {"W"}
        /\ insert(f, p0, PTSIZE, {"W"}).err
        \* p1 in both places, p2 in none
        /\ bits(g, 1) = {"W"} /\ mapped(g, 0) = p1 /\ mapped(g, 1) = p1
        /\ g.pp_ref[p1] = 2 /\ g.pp_ref[p2] = 0
        /\ FreePage(g) = p2
        /\ mapped(h, 0) = NoPage /\ mapped(h, 1) = p1
        /\ h.pp_ref[p1] = 1 /\ h.pp_ref[p2] = 0
        /\ i.pp_ref[p1] = 1 /\ i.page_free_list = {}
        /\ mapped(j, 0) = NoPage /\ mapped(j, 1) = NoPage
        /\ j.pp_ref[p1] = 0 /\ j.pp_ref[p2] = 0
        /\ FreePage(j) = p1 /\ page_alloc(j).page_free_list = {}
        /\ table(j, 0) = p0 /\ j.pp_ref[p0] = 1
        \* a new table is where its entry says, and empty
        /\ table(l, PTSIZE) = p0
        /\ table(n, 0) = p0 /\ \A va \in {0, 1} : mapped(n, va) = NoPage
=============================================================================
