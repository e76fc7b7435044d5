--------------------------- MODULE Memory_proofs ---------------------------
(***************************************************************************)
(* What the page operations of module Memory preserve, for any set of      *)
(* environments, pages and addresses: reference counts stay exact, the     *)
(* free list holds the pages nobody refers to, and the pages that are page *)
(* directories or page tables have one reference.                          *)
(***************************************************************************)
EXTENDS Memory, FiniteSetTheorems, TLAPS

(***************************************************************************)
(* The invariant of a memory in the middle of a call.  x is the page the   *)
(* call took from the free list and has not mapped yet; h is the page      *)
(* whose count it has raised ahead of the mapping.  Each is NoPage when    *)
(* there is none.                                                          *)
(***************************************************************************)
Counted(mm, h) ==
    \A p \in Pages : mm.pp_ref[p] = IF p = h THEN Cardinality(Users(mm, p)) + 1 ELSE Cardinality(Users(mm, p))

ListExact(mm, x, h) ==
    \A p \in Pages : p \in mm.page_free_list <=>
        Users(mm, p) = {} /\ p \notin mm.unlisted /\ p # x /\ p # h

Unused(mm, x) ==
    /\ x \notin mm.unlisted
    /\ \A p \in Pages : p \in mm.unlisted \cup {x} => Users(mm, p) = {}

Private(mm) ==
    \A s, t \in Slots : s[2] # "pte" /\ mm.slot[s] # NoPage /\ mm.slot[t] = mm.slot[s] => t = s

Walkable(mm) ==
    \A e \in Envs, va \in VAs : mm.slot[Pte(e, va)] # NoPage => mm.slot[Pde(e, va)] # NoPage

MemInv(mm, x, h) ==
    /\ mm \in MemType
    /\ Counted(mm, h)
    /\ ListExact(mm, x, h)
    /\ Unused(mm, x)
    /\ Private(mm)
    /\ Walkable(mm)

-----------------------------------------------------------------------------
(***************************************************************************)
(* Slots.                                                                  *)
(***************************************************************************)

\* The addresses of the layout.
LEMMA AddressFacts ==
    /\ Data \subseteq VAs /\ {UTEMP, PFTEMP, STACK, UXSTACK} \subseteq VAs
    /\ VAs \subseteq Nat /\ IsFiniteSet(VAs)
    /\ \A va : PDX(va) \in 0..2
<1>1. IsFiniteSet(VAs)
  BY NDataAssumption, FS_Interval DEF VAs
<1> QED
  BY <1>1, NDataAssumption DEF Data, VAs, UTEMP, PFTEMP, STACK, UXSTACK, PDX

\* A slot is what it is made of.
LEMMA SlotFacts ==
    /\ \A e \in Envs : Pgdir(e) \in Slots /\ Pgdir(e)[1] = e /\ Pgdir(e)[2] = "env_pgdir"
    /\ \A e \in Envs, va \in VAs :
          /\ Pde(e, va) \in Slots /\ Pde(e, va)[1] = e /\ Pde(e, va)[2] = "pde"
          /\ Pte(e, va) \in Slots /\ Pte(e, va)[1] = e /\ Pte(e, va)[2] = "pte"
    /\ \A e, f \in Envs, va, w \in VAs : Pte(e, va) = Pte(f, w) => e = f /\ va = w
    /\ \A s \in Slots : s[1] \in Envs /\ s[2] \in {"env_pgdir", "pde", "pte"}
  BY AddressFacts DEF Slots, Pgdir, Pde, Pte

\* Triples with one kind in the middle are as finite as pairs.
LEMMA FiniteTriple ==
    ASSUME NEW kind, NEW T, IsFiniteSet(T)
    PROVE  IsFiniteSet(Envs \X {kind} \X T)
<1> DEFINE f == [x \in Envs \X T |-> <<x[1], kind, x[2]>>]
<1>1. IsFiniteSet(Envs \X T)
  BY EnvsAssumption, FS_Product
<1>2. f \in Surjection(Envs \X T, Envs \X {kind} \X T)
  <2>1. f \in [Envs \X T -> Envs \X {kind} \X T]
    OBVIOUS
  <2>2. ASSUME NEW s \in Envs \X {kind} \X T
        PROVE  \E x \in Envs \X T : f[x] = s
    <3>1. <<s[1], s[3]>> \in Envs \X T /\ f[<<s[1], s[3]>>] = s
      OBVIOUS
    <3> QED
      BY <3>1
  <2> QED
    BY <2>1, <2>2 DEF Surjection
<1> QED
  BY <1>1, <1>2, FS_Surjection

\* There are finitely many slots, and so finitely many users of a page.
LEMMA SlotsFinite == IsFiniteSet(Slots)
<1>1. IsFiniteSet(Envs \X {"env_pgdir"} \X {0})
  BY FS_Singleton, FiniteTriple
<1>2. IsFiniteSet(Envs \X {"pde"} \X (0..2))
  <2>1. IsFiniteSet(0..2)
    <3>1. IsFiniteSet({0} \cup {1} \cup {2})
      BY FS_Singleton, FS_Union
    <3> QED
      BY <3>1
  <2> QED
    BY <2>1, FiniteTriple
<1>3. IsFiniteSet(Envs \X {"pte"} \X VAs)
  BY AddressFacts, FiniteTriple
<1> QED
  BY <1>1, <1>2, <1>3, FS_Union DEF Slots

LEMMA UsersFinite ==
    ASSUME NEW mm, NEW p
    PROVE  /\ IsFiniteSet(Users(mm, p)) /\ Users(mm, p) \subseteq Slots
           /\ Cardinality(Users(mm, p)) \in Nat
           /\ Cardinality(Users(mm, p)) = 0 <=> Users(mm, p) = {}
<1>1. Users(mm, p) \in SUBSET Slots
  BY DEF Users
<1>2. IsFiniteSet(Users(mm, p))
  BY <1>1, SlotsFinite, FS_Subset
<1> QED
  BY <1>1, <1>2, FS_CardinalityType, FS_EmptySet

\* A page put in an empty slot has one more user; no other page has.
LEMMA FillSlot ==
    ASSUME NEW mm, NEW nn, NEW s \in Slots, NEW p \in Pages,
           mm.slot \in [Slots -> Pages \cup {NoPage}], mm.slot[s] = NoPage,
           nn.slot = [mm.slot EXCEPT ![s] = p]
    PROVE  /\ \A q \in Pages : q # p => Users(nn, q) = Users(mm, q)
           /\ Users(nn, p) = Users(mm, p) \cup {s}
           /\ Cardinality(Users(nn, p)) = Cardinality(Users(mm, p)) + 1
<1>1. /\ \A q \in Pages : q # p => Users(nn, q) = Users(mm, q)
      /\ Users(nn, p) = Users(mm, p) \cup {s}
      /\ s \notin Users(mm, p)
  BY PagesAssumption DEF Users
<1> QED
  BY <1>1, UsersFinite, FS_AddElement

\* A slot that is emptied is one user less of the page it held.
LEMMA ClearSlot ==
    ASSUME NEW mm, NEW nn, NEW s \in Slots,
           mm.slot \in [Slots -> Pages \cup {NoPage}], mm.slot[s] # NoPage,
           nn.slot = [mm.slot EXCEPT ![s] = NoPage]
    PROVE  /\ \A q \in Pages : q # mm.slot[s] => Users(nn, q) = Users(mm, q)
           /\ Users(nn, mm.slot[s]) = Users(mm, mm.slot[s]) \ {s}
           /\ Cardinality(Users(nn, mm.slot[s])) = Cardinality(Users(mm, mm.slot[s])) - 1
           /\ s \in Users(mm, mm.slot[s])
<1> DEFINE p == mm.slot[s]
<1>1. /\ \A q \in Pages : q # p => Users(nn, q) = Users(mm, q)
      /\ Users(nn, p) = Users(mm, p) \ {s}
      /\ s \in Users(mm, p)
  BY PagesAssumption DEF Users
<1>2. IsFiniteSet(Users(mm, p))
  BY UsersFinite
<1>3. Cardinality(Users(mm, p) \ {s}) = Cardinality(Users(mm, p)) - 1
  BY ONLY <1>1, <1>2, FS_RemoveElement
<1> QED
  BY <1>1, <1>3

-----------------------------------------------------------------------------
(***************************************************************************)
(* The four things a call does to a memory, each to one slot and one page. *)
(***************************************************************************)

\* A page from the free list becomes a directory or a table.
LEMMA GiveTable ==
    ASSUME NEW mm, NEW nn, NEW x \in Pages \cup {NoPage}, NEW s \in Slots, NEW p \in mm.page_free_list,
           MemInv(mm, x, NoPage), nn \in MemType,
           s[2] # "pte", mm.slot[s] = NoPage,
           nn.slot = [mm.slot EXCEPT ![s] = p],
           nn.pp_ref = [mm.pp_ref EXCEPT ![p] = @ + 1],
           nn.page_free_list = mm.page_free_list \ {p},
           nn.unlisted = mm.unlisted
    PROVE  MemInv(nn, x, NoPage)
<1>1. /\ p \in Pages /\ Users(mm, p) = {} /\ p \notin mm.unlisted /\ p # x
      /\ mm.slot \in [Slots -> Pages \cup {NoPage}] /\ mm.pp_ref \in [Pages -> Nat]
      /\ Counted(mm, NoPage) /\ ListExact(mm, x, NoPage) /\ Unused(mm, x) /\ Private(mm) /\ Walkable(mm)
  BY DEF MemInv, MemType, ListExact
<1>2. /\ \A q \in Pages : q # p => Users(nn, q) = Users(mm, q)
      /\ Users(nn, p) = {s}
      /\ Cardinality(Users(nn, p)) = Cardinality(Users(mm, p)) + 1
  <2>1. /\ \A q \in Pages : q # p => Users(nn, q) = Users(mm, q)
        /\ Users(nn, p) = Users(mm, p) \cup {s}
        /\ Cardinality(Users(nn, p)) = Cardinality(Users(mm, p)) + 1
    <3>1. p \in Pages /\ mm.slot \in [Slots -> Pages \cup {NoPage}]
      BY <1>1
    <3>2. s \in Slots /\ mm.slot[s] = NoPage /\ nn.slot = [mm.slot EXCEPT ![s] = p]
      OBVIOUS
    <3> QED
      BY ONLY <3>1, <3>2, FillSlot
  <2> QED
    BY <1>1, <2>1
<1>3. Counted(nn, NoPage)
  <2> SUFFICES ASSUME NEW q \in Pages
               PROVE  nn.pp_ref[q] = Cardinality(Users(nn, q))
    BY PagesAssumption DEF Counted
  <2>1. mm.pp_ref[q] = Cardinality(Users(mm, q))
    BY <1>1, PagesAssumption DEF Counted
  <2>2. Cardinality(Users(mm, p)) \in Nat
    BY UsersFinite
  <2> QED
    BY <1>1, <1>2, <2>1, <2>2
<1>4. ListExact(nn, x, NoPage)
  BY <1>1, <1>2 DEF ListExact
<1>5. Unused(nn, x)
  BY <1>1, <1>2 DEF Unused
<1>6. Private(nn)
  <2> SUFFICES ASSUME NEW t \in Slots, NEW u \in Slots,
                      t[2] # "pte", nn.slot[t] # NoPage, nn.slot[u] = nn.slot[t]
               PROVE  u = t
    BY DEF Private
  <2>1. CASE nn.slot[t] = p
    <3>1. t \in Users(nn, p) /\ u \in Users(nn, p)
      BY <2>1 DEF Users
    <3> QED
      BY <3>1, <1>2
  <2>2. CASE nn.slot[t] # p
    <3>1. mm.slot[t] = nn.slot[t] /\ mm.slot[u] = nn.slot[u]
      BY <1>1, <2>2
    <3> QED
      BY <3>1, <1>1 DEF Private
  <2> QED
    BY <2>1, <2>2
<1>7. Walkable(nn)
  BY <1>1, SlotFacts, PagesAssumption DEF Walkable
<1> QED
  BY <1>3, <1>4, <1>5, <1>6, <1>7 DEF MemInv

\* The count of a page is raised before the page is mapped.
LEMMA Hold ==
    ASSUME NEW mm, NEW nn, NEW p \in Pages, NEW x \in {p, NoPage},
           MemInv(mm, x, NoPage), nn \in MemType,
           x = NoPage => Users(mm, p) # {},
           nn.slot = mm.slot,
           nn.pp_ref = [mm.pp_ref EXCEPT ![p] = @ + 1],
           nn.page_free_list = mm.page_free_list,
           nn.unlisted = mm.unlisted
    PROVE  MemInv(nn, NoPage, p)
<1>1. /\ mm.pp_ref \in [Pages -> Nat]
      /\ Counted(mm, NoPage) /\ ListExact(mm, x, NoPage) /\ Unused(mm, x) /\ Private(mm) /\ Walkable(mm)
  BY DEF MemInv, MemType
<1>2. \A q : Users(nn, q) = Users(mm, q)
  BY DEF Users
<1>3. Counted(nn, p)
  <2> SUFFICES ASSUME NEW q \in Pages
               PROVE  nn.pp_ref[q] = IF q = p THEN Cardinality(Users(mm, q)) + 1 ELSE Cardinality(Users(mm, q))
    BY <1>2 DEF Counted
  <2>1. mm.pp_ref[q] = Cardinality(Users(mm, q))
    BY <1>1, PagesAssumption, UsersFinite DEF Counted
  <2> QED
    BY <1>1, <2>1
<1>4. ListExact(nn, NoPage, p)
  BY <1>1, <1>2, PagesAssumption DEF ListExact
<1>5. Unused(nn, NoPage)
  BY <1>1, <1>2, PagesAssumption DEF Unused, MemType
<1>6. Private(nn) /\ Walkable(nn)
  BY <1>1 DEF Private, Walkable
<1> QED
  BY <1>3, <1>4, <1>5, <1>6 DEF MemInv

\* A held page is mapped where nothing is.
LEMMA MapHeld ==
    ASSUME NEW mm, NEW nn, NEW p \in Pages, NEW e \in Envs, NEW va \in VAs,
           MemInv(mm, NoPage, p), nn \in MemType,
           \A t \in Users(mm, p) : t[2] = "pte",
           mm.slot[Pte(e, va)] = NoPage, mm.slot[Pde(e, va)] # NoPage,
           nn.slot = [mm.slot EXCEPT ![Pte(e, va)] = p],
           nn.pp_ref = mm.pp_ref,
           nn.page_free_list = mm.page_free_list,
           nn.unlisted = mm.unlisted, p \notin mm.unlisted
    PROVE  MemInv(nn, NoPage, NoPage)
<1> DEFINE s == Pte(e, va)
<1>0. s \in Slots /\ s[2] = "pte"
  BY SlotFacts
<1>1. /\ mm.slot \in [Slots -> Pages \cup {NoPage}]
      /\ Counted(mm, p) /\ ListExact(mm, NoPage, p) /\ Unused(mm, NoPage) /\ Private(mm) /\ Walkable(mm)
  BY DEF MemInv, MemType
<1>2. /\ \A q \in Pages : q # p => Users(nn, q) = Users(mm, q)
      /\ Users(nn, p) = Users(mm, p) \cup {s}
      /\ Cardinality(Users(nn, p)) = Cardinality(Users(mm, p)) + 1
  BY <1>0, <1>1, FillSlot
<1> HIDE DEF s
<1>3. Counted(nn, NoPage)
  <2> SUFFICES ASSUME NEW q \in Pages
               PROVE  nn.pp_ref[q] = Cardinality(Users(nn, q))
    BY PagesAssumption DEF Counted
  <2>1. mm.pp_ref[q] = IF q = p THEN Cardinality(Users(mm, q)) + 1 ELSE Cardinality(Users(mm, q))
    BY <1>1 DEF Counted
  <2> QED
    BY <1>2, <2>1
<1>4. ListExact(nn, NoPage, NoPage)
  BY <1>1, <1>2, PagesAssumption DEF ListExact
<1>5. Unused(nn, NoPage)
  BY <1>1, <1>2, PagesAssumption DEF Unused, MemType
<1>6. Private(nn)
  <2> SUFFICES ASSUME NEW t \in Slots, NEW u \in Slots,
                      t[2] # "pte", nn.slot[t] # NoPage, nn.slot[u] = nn.slot[t]
               PROVE  u = t
    BY DEF Private
  <2>1. t # s /\ mm.slot[t] = nn.slot[t]
    BY <1>0, <1>1 DEF s
  <2>2. nn.slot[t] # p
    BY <2>1 DEF Users
  <2>3. u # s /\ mm.slot[u] = nn.slot[u]
    BY <1>0, <1>1, <2>2 DEF s
  <2> QED
    BY <2>1, <2>3, <1>1 DEF Private
<1>7. Walkable(nn)
  <2> SUFFICES ASSUME NEW f \in Envs, NEW w \in VAs, nn.slot[Pte(f, w)] # NoPage
               PROVE  nn.slot[Pde(f, w)] # NoPage
    BY DEF Walkable
  <2>1. nn.slot[Pde(f, w)] = mm.slot[Pde(f, w)]
    BY <1>0, <1>1, SlotFacts DEF s
  <2>2. CASE Pte(f, w) = s
    BY <2>1, <2>2, SlotFacts DEF s
  <2>3. CASE Pte(f, w) # s
    BY <2>1, <2>3, <1>1, SlotFacts DEF s, Walkable
  <2> QED
    BY <2>2, <2>3
<1> QED
  BY <1>3, <1>4, <1>5, <1>6, <1>7 DEF MemInv

\* A page is unmapped, and freed if that was its last reference.
LEMMA Unmap ==
    ASSUME NEW mm, NEW nn, NEW x \in Pages \cup {NoPage}, NEW h \in Pages \cup {NoPage},
           NEW e \in Envs, NEW va \in VAs, NEW p \in Pages,
           MemInv(mm, x, h), nn \in MemType,
           mm.slot[Pte(e, va)] = p,
           nn.slot = [mm.slot EXCEPT ![Pte(e, va)] = NoPage],
           nn.pp_ref = [mm.pp_ref EXCEPT ![p] = @ - 1],
           nn.page_free_list = IF mm.pp_ref[p] = 1 THEN mm.page_free_list \cup {p} ELSE mm.page_free_list,
           nn.unlisted = mm.unlisted
    PROVE  MemInv(nn, x, h)
<1> DEFINE s == Pte(e, va)
<1>0. s \in Slots /\ s[2] = "pte"
  BY SlotFacts
<1>1. /\ mm.slot \in [Slots -> Pages \cup {NoPage}] /\ mm.pp_ref \in [Pages -> Nat]
      /\ Counted(mm, h) /\ ListExact(mm, x, h) /\ Unused(mm, x) /\ Private(mm) /\ Walkable(mm)
  BY DEF MemInv, MemType
<1>2. /\ \A q \in Pages : q # p => Users(nn, q) = Users(mm, q)
      /\ Users(nn, p) = Users(mm, p) \ {s}
      /\ Cardinality(Users(nn, p)) = Cardinality(Users(mm, p)) - 1
      /\ s \in Users(mm, p)
  BY <1>0, <1>1, ClearSlot, PagesAssumption
<1> HIDE DEF s
<1>3. Counted(nn, h)
  <2> SUFFICES ASSUME NEW q \in Pages
               PROVE  nn.pp_ref[q] = IF q = h THEN Cardinality(Users(nn, q)) + 1 ELSE Cardinality(Users(nn, q))
    BY DEF Counted
  <2>1. mm.pp_ref[q] = IF q = h THEN Cardinality(Users(mm, q)) + 1 ELSE Cardinality(Users(mm, q))
    BY <1>1 DEF Counted
  <2>2. Cardinality(Users(mm, p)) \in Nat
    BY UsersFinite
  <2>3. CASE q = p
    <3>1. mm.pp_ref[p] \in Nat /\ nn.pp_ref[p] = mm.pp_ref[p] - 1
      BY <1>1
    <3>2. Cardinality(Users(nn, p)) = Cardinality(Users(mm, p)) - 1
      BY <1>2
    <3> QED
      BY ONLY <2>1, <2>2, <2>3, <3>1, <3>2
  <2>4. CASE q # p
    BY <1>1, <1>2, <2>1, <2>4
  <2> QED
    BY <2>3, <2>4
<1>4. ListExact(nn, x, h)
  <2>1. p \notin mm.unlisted /\ p # x /\ p \notin mm.page_free_list
    BY <1>1, <1>2 DEF Unused, ListExact
  <2>2. mm.pp_ref[p] = 1 <=> Users(nn, p) = {} /\ p # h
    <3>1. mm.pp_ref[p] = IF p = h THEN Cardinality(Users(mm, p)) + 1 ELSE Cardinality(Users(mm, p))
      BY <1>1 DEF Counted
    <3>2. /\ Cardinality(Users(mm, p)) \in Nat /\ Cardinality(Users(nn, p)) \in Nat
          /\ Cardinality(Users(nn, p)) = 0 <=> Users(nn, p) = {}
      BY UsersFinite
    <3> QED
      BY <1>2, <3>1, <3>2
  <2> QED
    BY <1>1, <1>2, <2>1, <2>2 DEF ListExact
<1>5. Unused(nn, x)
  BY <1>1, <1>2 DEF Unused
<1>6. Private(nn)
  <2> SUFFICES ASSUME NEW t \in Slots, NEW u \in Slots,
                      t[2] # "pte", nn.slot[t] # NoPage, nn.slot[u] = nn.slot[t]
               PROVE  u = t
    BY DEF Private
  <2>1. mm.slot[t] = nn.slot[t] /\ mm.slot[u] = nn.slot[u]
    BY <1>0, <1>1, PagesAssumption DEF s
  <2> QED
    BY <2>1, <1>1 DEF Private
<1>7. Walkable(nn)
  BY <1>0, <1>1, SlotFacts, PagesAssumption DEF s, Walkable
<1> QED
  BY <1>3, <1>4, <1>5, <1>6, <1>7 DEF MemInv

-----------------------------------------------------------------------------
(***************************************************************************)
(* kern/pmap.c.                                                            *)
(***************************************************************************)

\* What a call on the address space of e leaves alone.
OnlySlotsOf(mm, nn, e) == \A s \in Slots : s[1] # e => nn.slot[s] = mm.slot[s]

\* The allocator has made no promise yet.
LEMMA InitInv ==
    ASSUME NEW inuse \in SUBSET Pages
    PROVE  MemInv(page_init(inuse), NoPage, NoPage)
<1> DEFINE mm == page_init(inuse)
<1>1. /\ mm \in MemType
      /\ mm.slot = [s \in Slots |-> NoPage] /\ mm.pp_ref = [p \in Pages |-> 0]
      /\ mm.page_free_list = Pages \ inuse /\ mm.unlisted = inuse
  BY ValsAssumption DEF page_init, MemType
<1> HIDE DEF mm
<1>2. \A p \in Pages : Users(mm, p) = {}
  BY <1>1, PagesAssumption DEF Users
<1>3. \A p \in Pages : Cardinality(Users(mm, p)) = 0
  BY <1>2, FS_EmptySet
<1>4. Counted(mm, NoPage)
  BY <1>1, <1>3, PagesAssumption DEF Counted
<1>5. ListExact(mm, NoPage, NoPage) /\ Unused(mm, NoPage)
  BY <1>1, <1>2, PagesAssumption DEF ListExact, Unused
<1>6. Private(mm) /\ Walkable(mm)
  BY <1>1, SlotFacts DEF Private, Walkable
<1> QED
  BY <1>1, <1>4, <1>5, <1>6 DEF MemInv, mm

LEMMA AllocShape ==
    ASSUME NEW mm \in MemType, mm.page_free_list # {}
    PROVE  LET p == FreePage(mm)
               nn == page_alloc(mm)
           IN  /\ p \in mm.page_free_list /\ p \in Pages
               /\ nn \in MemType
               /\ nn.slot = mm.slot /\ nn.perm = mm.perm /\ nn.pp_ref = mm.pp_ref
               /\ nn.page_free_list = mm.page_free_list \ {p}
               /\ nn.unlisted = mm.unlisted
<1>1. FreePage(mm) \in mm.page_free_list
  BY DEF FreePage
<1> QED
  BY <1>1, ValsAssumption DEF page_alloc, MemType

\* A page that is allocated is in hand: it is in no list and mapped nowhere.
LEMMA AllocInv ==
    ASSUME NEW mm, MemInv(mm, NoPage, NoPage), mm.page_free_list # {}
    PROVE  MemInv(page_alloc(mm), FreePage(mm), NoPage)
<1> DEFINE nn == page_alloc(mm)
           p == FreePage(mm)
<1>1. /\ mm \in MemType /\ Counted(mm, NoPage) /\ ListExact(mm, NoPage, NoPage)
      /\ Unused(mm, NoPage) /\ Private(mm) /\ Walkable(mm)
  BY DEF MemInv
<1>2. /\ p \in mm.page_free_list /\ p \in Pages /\ nn \in MemType
      /\ nn.slot = mm.slot /\ nn.pp_ref = mm.pp_ref
      /\ nn.page_free_list = mm.page_free_list \ {p} /\ nn.unlisted = mm.unlisted
  BY <1>1, AllocShape
<1> HIDE DEF nn, p
<1>3. \A q : Users(nn, q) = Users(mm, q)
  BY <1>2 DEF Users
<1>4. Counted(nn, NoPage)
  BY <1>1, <1>2, <1>3 DEF Counted
<1>5. ListExact(nn, p, NoPage)
  BY <1>1, <1>2, <1>3, PagesAssumption DEF ListExact
<1>6. Unused(nn, p)
  BY <1>1, <1>2, <1>3 DEF Unused, ListExact
<1>7. Private(nn) /\ Walkable(nn)
  BY <1>1, <1>2 DEF Private, Walkable
<1> QED
  BY <1>2, <1>4, <1>5, <1>6, <1>7 DEF MemInv, nn, p

\* pgdir_walk's shape, when it allocates a table.
LEMMA TableShape ==
    ASSUME NEW mm \in MemType, mm.page_free_list # {}, NEW s \in Slots
    PROVE  LET p == FreePage(mm)
               nn == [page_alloc(mm) EXCEPT !.pp_ref[p] = @ + 1, !.slot[s] = p]
           IN  /\ nn \in MemType
               /\ nn.slot = [mm.slot EXCEPT ![s] = p]
               /\ nn.pp_ref = [mm.pp_ref EXCEPT ![p] = @ + 1]
               /\ nn.page_free_list = mm.page_free_list \ {p}
               /\ nn.unlisted = mm.unlisted /\ nn.perm = mm.perm
<1> DEFINE p == FreePage(mm)
           aa == page_alloc(mm)
<1>1. /\ p \in mm.page_free_list /\ p \in Pages /\ aa \in MemType
      /\ aa.slot = mm.slot /\ aa.perm = mm.perm /\ aa.pp_ref = mm.pp_ref
      /\ aa.page_free_list = mm.page_free_list \ {p} /\ aa.unlisted = mm.unlisted
  BY AllocShape
<1> HIDE DEF p, aa
<1>2. LET nn == [aa EXCEPT !.pp_ref[p] = @ + 1, !.slot[s] = p]
      IN  /\ nn \in MemType
          /\ nn.slot = [aa.slot EXCEPT ![s] = p]
          /\ nn.pp_ref = [aa.pp_ref EXCEPT ![p] = @ + 1]
          /\ nn.page_free_list = aa.page_free_list
          /\ nn.unlisted = aa.unlisted /\ nn.perm = aa.perm
  <2> DEFINE nn == [aa EXCEPT !.pp_ref[p] = @ + 1, !.slot[s] = p]
             ref == [aa.pp_ref EXCEPT ![p] = @ + 1]
             slot == [aa.slot EXCEPT ![s] = p]
  <2>1. aa.pp_ref \in [Pages -> Nat] /\ aa.slot \in [Slots -> Pages \cup {NoPage}]
    BY <1>1 DEF MemType
  <2>2. ref \in [Pages -> Nat] /\ slot \in [Slots -> Pages \cup {NoPage}]
    BY <1>1, <2>1
  <2>3. nn = [aa EXCEPT !.pp_ref = ref, !.slot = slot]
    BY <1>1 DEF MemType
  <2> HIDE DEF nn, ref, slot
  <2>4. /\ nn \in MemType /\ nn.slot = slot /\ nn.pp_ref = ref
        /\ nn.page_free_list = aa.page_free_list
        /\ nn.unlisted = aa.unlisted /\ nn.perm = aa.perm
    BY <1>1, <2>2, <2>3 DEF MemType
  <2> QED
    BY <2>4 DEF nn, ref, slot
<1> QED
  BY <1>1, <1>2 DEF p, aa

\* A missing table is allocated or the memory stays as it is; in both cases
\* the page in hand stays in hand.
LEMMA WalkInv ==
    ASSUME NEW mm, NEW x \in Pages \cup {NoPage}, MemInv(mm, x, NoPage),
           NEW e \in Envs, NEW va \in VAs
    PROVE  LET nn == pgdir_walk(mm, e, va)
           IN  /\ MemInv(nn, x, NoPage)
               /\ OnlySlotsOf(mm, nn, e)
               /\ \A s \in Slots : s # Pde(e, va) => nn.slot[s] = mm.slot[s]
               /\ mm.slot[Pde(e, va)] # NoPage => nn = mm
               /\ \A q \in Pages : q \notin mm.page_free_list => Users(nn, q) = Users(mm, q)
               /\ nn.unlisted = mm.unlisted
               /\ nn.perm = mm.perm
<1> DEFINE s == Pde(e, va)
           p == FreePage(mm)
           nn == [page_alloc(mm) EXCEPT !.pp_ref[p] = @ + 1, !.slot[s] = p]
<1>1. CASE mm.slot[s] # NoPage \/ mm.page_free_list = {}
  BY <1>1 DEF pgdir_walk, OnlySlotsOf
<1>2. CASE mm.slot[s] = NoPage /\ mm.page_free_list # {}
  <2>1. s \in Slots /\ s[1] = e /\ s[2] = "pde"
    BY SlotFacts
  <2>2. mm \in MemType /\ mm.slot \in [Slots -> Pages \cup {NoPage}]
    BY DEF MemInv, MemType
  <2>3. p \in mm.page_free_list /\ p \in Pages
    BY <1>2, <2>2, AllocShape
  <2>4. /\ nn \in MemType
        /\ nn.slot = [mm.slot EXCEPT ![s] = p]
        /\ nn.pp_ref = [mm.pp_ref EXCEPT ![p] = @ + 1]
        /\ nn.page_free_list = mm.page_free_list \ {p}
        /\ nn.unlisted = mm.unlisted /\ nn.perm = mm.perm
    BY <1>2, <2>1, <2>2, TableShape
  <2>5. pgdir_walk(mm, e, va) = nn
    BY <1>2 DEF pgdir_walk
  <2> HIDE DEF nn, s, p
  <2>6. MemInv(nn, x, NoPage)
    BY <1>2, <2>1, <2>3, <2>4, GiveTable
  <2>7. \A q \in Pages : q # p => Users(nn, q) = Users(mm, q)
    BY <1>2, <2>1, <2>2, <2>3, <2>4, FillSlot
  <2>8. \A t \in Slots : t # s => nn.slot[t] = mm.slot[t]
    BY <2>2, <2>4
  <2>9. OnlySlotsOf(mm, nn, e)
    BY <2>1, <2>8 DEF OnlySlotsOf
  <2> QED
    BY <1>2, <2>3, <2>4, <2>5, <2>6, <2>7, <2>8, <2>9 DEF s
<1> QED
  BY <1>1, <1>2

\* What is unmapped was mapped once, and nothing else changes place.
LEMMA RemoveInv ==
    ASSUME NEW mm, NEW x \in Pages \cup {NoPage}, NEW h \in Pages \cup {NoPage}, MemInv(mm, x, h),
           NEW e \in Envs, NEW va \in VAs
    PROVE  LET nn == page_remove(mm, e, va)
           IN  /\ MemInv(nn, x, h)
               /\ nn.slot[Pte(e, va)] = NoPage
               /\ \A s \in Slots : s # Pte(e, va) => nn.slot[s] = mm.slot[s]
               /\ OnlySlotsOf(mm, nn, e)
               /\ \A q : q # NoPage => Users(nn, q) \subseteq Users(mm, q)
               /\ nn.unlisted = mm.unlisted
<1> DEFINE s == Pte(e, va)
           p == mm.slot[s]
           nn == page_remove(mm, e, va)
<1>0. s \in Slots /\ s[1] = e
  BY SlotFacts
<1>1. mm \in MemType /\ Walkable(mm) /\ mm.slot \in [Slots -> Pages \cup {NoPage}]
  BY DEF MemInv, MemType
<1>2. CASE ~Mapped(mm, e, va)
  <2>1. nn = mm
    BY <1>2 DEF page_remove
  <2>2. mm.slot[s] = NoPage
    BY <1>1, <1>2 DEF Mapped, Walkable
  <2> QED
    BY <2>1, <2>2 DEF OnlySlotsOf
<1>3. CASE Mapped(mm, e, va)
  <2>1. p \in Pages
    BY <1>0, <1>1, <1>3 DEF Mapped
  <2>2. mm.pp_ref[p] \in Nat \ {0}
    <3>1. s \in Users(mm, p)
      BY <1>0 DEF Users
    <3>2. Cardinality(Users(mm, p)) \in Nat \ {0}
      BY <3>1, UsersFinite
    <3> QED
      BY <2>1, <3>2 DEF MemInv, Counted
  <2>3. nn = [page_decref(mm, p) EXCEPT !.slot[s] = NoPage, !.perm[e][va] = {}]
    BY <1>3 DEF page_remove, PageAt
  <2> HIDE DEF s, p, nn
  <2> DEFINE dd == page_decref(mm, p)
  <2>4. /\ dd \in MemType /\ dd.slot = mm.slot /\ dd.perm = mm.perm
        /\ dd.pp_ref = [mm.pp_ref EXCEPT ![p] = @ - 1]
        /\ dd.page_free_list = IF mm.pp_ref[p] = 1 THEN mm.page_free_list \cup {p} ELSE mm.page_free_list
        /\ dd.unlisted = mm.unlisted
    <3>1. mm.pp_ref \in [Pages -> Nat] /\ mm.data \in [Pages -> Vals] /\ mm.page_free_list \subseteq Pages
      BY <1>1 DEF MemType
    <3> DEFINE ref == [mm.pp_ref EXCEPT ![p] = @ - 1]
               list == IF mm.pp_ref[p] = 1 THEN mm.page_free_list \cup {p} ELSE mm.page_free_list
               data == [mm.data EXCEPT ![p] = IF mm.pp_ref[p] = 1 THEN Zero ELSE @]
    <3>2. ref \in [Pages -> Nat]
      <4>1. mm.pp_ref[p] - 1 \in Nat
        BY <2>2
      <4> QED
        BY <3>1, <4>1
    <3>3. list \subseteq Pages /\ data \in [Pages -> Vals]
      BY <2>1, <3>1, ValsAssumption
    <3>4. dd = [mm EXCEPT !.pp_ref = ref, !.page_free_list = list, !.data = data]
      BY <1>1 DEF page_decref, MemType
    <3> HIDE DEF ref, list, data, dd
    <3>5. /\ dd \in MemType /\ dd.slot = mm.slot /\ dd.perm = mm.perm /\ dd.pp_ref = ref
          /\ dd.page_free_list = list /\ dd.unlisted = mm.unlisted
      BY <1>1, <3>2, <3>3, <3>4 DEF MemType
    <3> QED
      BY <3>5 DEF ref, list, dd
  <2> HIDE DEF dd
  <2>5. /\ nn \in MemType /\ nn.slot = [mm.slot EXCEPT ![s] = NoPage]
        /\ nn.pp_ref = dd.pp_ref /\ nn.page_free_list = dd.page_free_list /\ nn.unlisted = mm.unlisted
    <3> DEFINE slot == [dd.slot EXCEPT ![s] = NoPage]
               perm == [dd.perm EXCEPT ![e] = [@ EXCEPT ![va] = {}]]
    <3>1. dd.slot \in [Slots -> Pages \cup {NoPage}] /\ dd.perm \in [Envs -> [VAs -> SUBSET Bits]]
      BY <2>4 DEF MemType
    <3>2. slot \in [Slots -> Pages \cup {NoPage}] /\ perm \in [Envs -> [VAs -> SUBSET Bits]]
      BY <3>1
    <3>3. nn = [dd EXCEPT !.slot = slot, !.perm = perm]
      BY <2>3, <2>4 DEF MemType, dd
    <3> HIDE DEF slot, perm
    <3>4. /\ nn \in MemType /\ nn.slot = slot /\ nn.pp_ref = dd.pp_ref
          /\ nn.page_free_list = dd.page_free_list /\ nn.unlisted = dd.unlisted
      BY <2>4, <3>2, <3>3 DEF MemType
    <3> QED
      BY <2>4, <3>4 DEF slot
  <2>6. MemInv(nn, x, h)
    <3>1. mm.slot[Pte(e, va)] = p /\ nn.slot = [mm.slot EXCEPT ![Pte(e, va)] = NoPage]
      BY <2>5 DEF s, p
    <3>2. /\ nn \in MemType /\ nn.unlisted = mm.unlisted
          /\ nn.pp_ref = [mm.pp_ref EXCEPT ![p] = @ - 1]
          /\ nn.page_free_list = IF mm.pp_ref[p] = 1 THEN mm.page_free_list \cup {p} ELSE mm.page_free_list
      BY <2>4, <2>5
    <3> QED
      BY <2>1, <3>1, <3>2, Unmap
  <2>7. nn.slot[s] = NoPage /\ \A t \in Slots : t # s => nn.slot[t] = mm.slot[t]
    BY <1>0, <1>1, <2>5
  <2>8. OnlySlotsOf(mm, nn, e)
    BY <1>0, <2>7 DEF OnlySlotsOf
  <2>9. \A q : q # NoPage => Users(nn, q) \subseteq Users(mm, q)
    BY <2>7 DEF Users
  <2> QED
    BY <2>5, <2>6, <2>7, <2>8, <2>9 DEF s, nn
<1> QED
  BY <1>2, <1>3

\* Mapping page p, which is in hand or mapped elsewhere already, fails without
\* a trace in the entries or leaves nothing in hand.
LEMMA InsertInv ==
    ASSUME NEW mm, NEW p \in Pages, NEW x \in {p, NoPage}, MemInv(mm, x, NoPage),
           x = NoPage => Users(mm, p) # {} /\ \A t \in Users(mm, p) : t[2] = "pte",
           NEW e \in Envs, NEW va \in VAs, NEW perm \in SUBSET Bits
    PROVE  LET r == page_insert(mm, e, p, va, perm)
           IN  /\ r.err \in BOOLEAN
               /\ MemInv(r.m, IF r.err THEN x ELSE NoPage, NoPage)
               /\ OnlySlotsOf(mm, r.m, e)
               /\ r.m.unlisted = mm.unlisted
               /\ r.err => mm.slot[Pde(e, va)] = NoPage
               /\ r.err => r.m.perm = mm.perm /\ \A s \in Slots : s[2] = "pte" => r.m.slot[s] = mm.slot[s]
<1> DEFINE w == pgdir_walk(mm, e, va)
           v == [w EXCEPT !.pp_ref[p] = @ + 1]
           u == page_remove(v, e, va)
           n == [u EXCEPT !.slot[Pte(e, va)] = p, !.perm[e][va] = perm]
           r == page_insert(mm, e, p, va, perm)
<1>0. /\ Pte(e, va) \in Slots /\ Pde(e, va) \in Slots /\ Pte(e, va) # Pde(e, va)
      /\ Pte(e, va)[1] = e /\ Pde(e, va)[2] # "pte"
  BY SlotFacts
<1>1. /\ MemInv(w, x, NoPage) /\ OnlySlotsOf(mm, w, e)
      /\ \A s \in Slots : s # Pde(e, va) => w.slot[s] = mm.slot[s]
      /\ mm.slot[Pde(e, va)] # NoPage => w = mm
      /\ \A q \in Pages : q \notin mm.page_free_list => Users(w, q) = Users(mm, q)
      /\ w.unlisted = mm.unlisted /\ w.perm = mm.perm
  BY WalkInv
<1>2. r = IF w.slot[Pde(e, va)] = NoPage THEN Fail(w) ELSE Ok(n)
  BY DEF page_insert
<1>3. CASE w.slot[Pde(e, va)] = NoPage
  <2>1. r.err = TRUE /\ r.m = w
    BY <1>2, <1>3 DEF Fail
  <2>2. \A s \in Slots : s[2] = "pte" => w.slot[s] = mm.slot[s]
    BY <1>0, <1>1
  <2>3. mm.slot[Pde(e, va)] = NoPage
    BY <1>1, <1>3
  <2> HIDE DEF w, r
  <2> QED
    BY <1>1, <2>1, <2>2, <2>3 DEF r
<1>4. CASE w.slot[Pde(e, va)] # NoPage
  <2>1. r.err = FALSE /\ r.m = n
    BY <1>2, <1>4 DEF Ok
  <2> HIDE DEF w, r, n
  <2>2. w \in MemType
    BY <1>1 DEF MemInv
  <2>3. Users(w, p) = Users(mm, p) /\ p \notin w.unlisted
    <3>1. p \notin mm.page_free_list /\ p \notin mm.unlisted
      <4>1. ListExact(mm, x, NoPage) /\ Unused(mm, x)
        BY DEF MemInv
      <4>2. CASE x = NoPage
        BY <4>1, <4>2 DEF ListExact, Unused
      <4>3. CASE x = p
        BY <4>1, <4>3 DEF ListExact, Unused
      <4> QED
        BY <4>2, <4>3
    <3> QED
      BY <1>1, <3>1
  <2>4. /\ v \in MemType /\ v.slot = w.slot /\ v.pp_ref = [w.pp_ref EXCEPT ![p] = @ + 1]
        /\ v.page_free_list = w.page_free_list /\ v.unlisted = w.unlisted /\ v.perm = w.perm
    <3> DEFINE ref == [w.pp_ref EXCEPT ![p] = @ + 1]
    <3>1. ref \in [Pages -> Nat]
      BY <2>2 DEF MemType
    <3>2. v = [w EXCEPT !.pp_ref = ref]
      BY <2>2 DEF MemType
    <3> HIDE DEF v, ref
    <3>3. /\ v \in MemType /\ v.slot = w.slot /\ v.pp_ref = ref
          /\ v.page_free_list = w.page_free_list /\ v.unlisted = w.unlisted /\ v.perm = w.perm
      BY <2>2, <3>1, <3>2 DEF MemType
    <3> QED
      BY <3>3 DEF ref
  <2> HIDE DEF v
  <2>5. MemInv(v, NoPage, p)
    BY <1>1, <2>3, <2>4, Hold
  <2>6. /\ MemInv(u, NoPage, p) /\ u.slot[Pte(e, va)] = NoPage
        /\ \A s \in Slots : s # Pte(e, va) => u.slot[s] = v.slot[s]
        /\ OnlySlotsOf(v, u, e)
        /\ Users(u, p) \subseteq Users(v, p)
        /\ u.unlisted = v.unlisted
    BY <2>5, RemoveInv, PagesAssumption
  <2> HIDE DEF u
  <2>7. u \in MemType
    BY <2>6 DEF MemInv
  <2>8. /\ n \in MemType /\ n.slot = [u.slot EXCEPT ![Pte(e, va)] = p] /\ n.pp_ref = u.pp_ref
        /\ n.page_free_list = u.page_free_list /\ n.unlisted = u.unlisted
    <3> DEFINE slot == [u.slot EXCEPT ![Pte(e, va)] = p]
               bits == [u.perm EXCEPT ![e] = [@ EXCEPT ![va] = perm]]
    <3>1. u.slot \in [Slots -> Pages \cup {NoPage}] /\ u.perm \in [Envs -> [VAs -> SUBSET Bits]]
      BY <2>7 DEF MemType
    <3>2. slot \in [Slots -> Pages \cup {NoPage}] /\ bits \in [Envs -> [VAs -> SUBSET Bits]]
      BY <3>1
    <3>3. n = [u EXCEPT !.slot = slot, !.perm = bits]
      BY <2>7 DEF MemType, n
    <3> HIDE DEF slot, bits
    <3>4. /\ n \in MemType /\ n.slot = slot /\ n.pp_ref = u.pp_ref
          /\ n.page_free_list = u.page_free_list /\ n.unlisted = u.unlisted
      BY <2>7, <3>2, <3>3 DEF MemType
    <3> QED
      BY <3>4 DEF slot
  <2>9. \A t \in Users(u, p) : t[2] = "pte"
    <3>1. Users(v, p) = Users(mm, p)
      BY <2>3, <2>4 DEF Users
    <3>2. \A t \in Users(mm, p) : t[2] = "pte"
      <4>1. x = p => Users(mm, p) = {}
        BY DEF MemInv, Unused
      <4> QED
        BY <4>1
    <3> QED
      BY <2>6, <3>1, <3>2
  <2>10. u.slot[Pde(e, va)] # NoPage
    BY <1>0, <1>4, <2>4, <2>6
  <2>11. MemInv(n, NoPage, NoPage)
    BY <2>3, <2>4, <2>6, <2>8, <2>9, <2>10, MapHeld
  <2>12. OnlySlotsOf(mm, n, e)
    <3> SUFFICES ASSUME NEW s \in Slots, s[1] # e
                 PROVE  n.slot[s] = mm.slot[s]
      BY DEF OnlySlotsOf
    <3>1. n.slot[s] = u.slot[s]
      BY <1>0, <2>7, <2>8 DEF MemType
    <3> QED
      BY <1>1, <2>4, <2>6, <3>1 DEF OnlySlotsOf
  <2> QED
    BY <1>1, <2>1, <2>4, <2>6, <2>8, <2>11, <2>12 DEF r
<1> QED
  BY <1>3, <1>4

-----------------------------------------------------------------------------
(***************************************************************************)
(* kern/env.c and kern/syscall.c.                                          *)
(***************************************************************************)

\* What a call that ends leaves behind, whether it failed or not.
Settled(mm, r, e) ==
    /\ r.err \in BOOLEAN
    /\ MemInv(r.m, NoPage, NoPage)
    /\ OnlySlotsOf(mm, r.m, e)

LEMMA SetupInv ==
    ASSUME NEW mm, MemInv(mm, NoPage, NoPage), NEW e \in Envs, mm.slot[Pgdir(e)] = NoPage
    PROVE  /\ Settled(mm, env_setup_vm(mm, e), e)
           /\ env_setup_vm(mm, e).err <=> mm.page_free_list = {}
<1> DEFINE p == FreePage(mm)
           s == Pgdir(e)
           nn == [page_alloc(mm) EXCEPT !.pp_ref[p] = @ + 1, !.slot[s] = p]
           r == env_setup_vm(mm, e)
<1>1. CASE mm.page_free_list = {}
  <2>1. r.err = TRUE /\ r.m = mm
    BY <1>1 DEF env_setup_vm, Fail
  <2> HIDE DEF r
  <2> QED
    BY <1>1, <2>1 DEF Settled, OnlySlotsOf, r
<1>2. CASE mm.page_free_list # {}
  <2>1. r.err = FALSE /\ r.m = nn
    BY <1>2 DEF env_setup_vm, Ok
  <2>2. s \in Slots /\ s[1] = e /\ s[2] # "pte"
    BY SlotFacts
  <2>3. mm \in MemType /\ mm.slot \in [Slots -> Pages \cup {NoPage}]
    BY DEF MemInv, MemType
  <2>4. p \in mm.page_free_list
    BY <1>2, <2>3, AllocShape
  <2>5. /\ nn \in MemType
        /\ nn.slot = [mm.slot EXCEPT ![s] = p]
        /\ nn.pp_ref = [mm.pp_ref EXCEPT ![p] = @ + 1]
        /\ nn.page_free_list = mm.page_free_list \ {p}
        /\ nn.unlisted = mm.unlisted
    BY <1>2, <2>2, <2>3, TableShape
  <2>6. mm.slot[s] = NoPage
    OBVIOUS
  <2> HIDE DEF nn, s, p, r
  <2>7. MemInv(nn, NoPage, NoPage)
    BY <2>2, <2>4, <2>5, <2>6, GiveTable
  <2>8. OnlySlotsOf(mm, nn, e)
    BY <2>2, <2>3, <2>5 DEF OnlySlotsOf
  <2> QED
    BY <1>2, <2>1, <2>7, <2>8 DEF Settled, r
<1> QED
  BY <1>1, <1>2

\* env_page_alloc may lose the page, and nothing else.
LEMMA PageAllocInv ==
    ASSUME NEW mm, MemInv(mm, NoPage, NoPage), NEW e \in Envs, NEW va \in VAs, NEW perm \in SUBSET Bits
    PROVE  LET r == env_page_alloc(mm, e, va, perm)
           IN  /\ Settled(mm, r, e)
               /\ r.err => r.m.perm = mm.perm /\ \A s \in Slots : s[2] = "pte" => r.m.slot[s] = mm.slot[s]
<1> DEFINE p == FreePage(mm)
           aa == page_alloc(mm)
           i == page_insert(aa, e, p, va, perm)
           lost == [i.m EXCEPT !.unlisted = @ \cup {p}]
           r == env_page_alloc(mm, e, va, perm)
<1>1. CASE mm.page_free_list = {}
  <2>1. r.err = TRUE /\ r.m = mm
    BY <1>1 DEF env_page_alloc, Fail
  <2> HIDE DEF r
  <2> QED
    BY <2>1 DEF Settled, OnlySlotsOf, r
<1>2. CASE mm.page_free_list # {}
  <2>1. r = IF i.err THEN Fail(lost) ELSE i
    BY <1>2 DEF env_page_alloc
  <2>2. mm \in MemType
    BY DEF MemInv
  <2>3. p \in Pages /\ aa.slot = mm.slot /\ aa.perm = mm.perm
    BY <1>2, <2>2, AllocShape
  <2>4. MemInv(aa, p, NoPage)
    BY <1>2, AllocInv
  <2>5. /\ i.err \in BOOLEAN
        /\ MemInv(i.m, IF i.err THEN p ELSE NoPage, NoPage)
        /\ OnlySlotsOf(aa, i.m, e)
        /\ i.err => i.m.perm = aa.perm /\ \A s \in Slots : s[2] = "pte" => i.m.slot[s] = aa.slot[s]
    BY <2>3, <2>4, InsertInv, PagesAssumption
  <2>6. OnlySlotsOf(mm, i.m, e)
    BY <2>3, <2>5 DEF OnlySlotsOf
  <2>7. CASE ~i.err
    BY <2>1, <2>5, <2>6, <2>7 DEF Settled
  <2>8. CASE i.err
    <3>1. MemInv(i.m, p, NoPage)
      BY <2>5, <2>8
    <3>2. r.err = TRUE /\ r.m = lost
      BY <2>1, <2>8 DEF Fail
    <3>3. /\ lost \in MemType /\ lost.slot = i.m.slot /\ lost.pp_ref = i.m.pp_ref
          /\ lost.page_free_list = i.m.page_free_list /\ lost.unlisted = i.m.unlisted \cup {p}
          /\ lost.perm = i.m.perm
      BY <2>3, <3>1 DEF MemInv, MemType
    <3> HIDE DEF i, lost, p, r, aa
    <3>4. /\ Counted(i.m, NoPage) /\ ListExact(i.m, p, NoPage) /\ Unused(i.m, p)
          /\ Private(i.m) /\ Walkable(i.m)
      BY <3>1 DEF MemInv
    <3>5. \A q : Users(lost, q) = Users(i.m, q)
      BY <3>3 DEF Users
    <3>6. Counted(lost, NoPage)
      BY <3>3, <3>4, <3>5 DEF Counted
    <3>7. ListExact(lost, NoPage, NoPage)
      BY <3>3, <3>4, <3>5, PagesAssumption DEF ListExact
    <3>8. Unused(lost, NoPage)
      BY <3>3, <3>4, <3>5, PagesAssumption DEF Unused, MemType
    <3>9. Private(lost) /\ Walkable(lost)
      BY <3>3, <3>4 DEF Private, Walkable
    <3>10. MemInv(lost, NoPage, NoPage)
      BY <3>3, <3>6, <3>7, <3>8, <3>9 DEF MemInv
    <3>11. OnlySlotsOf(mm, lost, e)
      BY <2>6, <3>3 DEF OnlySlotsOf
    <3> QED
      BY <2>3, <2>5, <2>8, <3>2, <3>3, <3>10, <3>11 DEF Settled, r
  <2> QED
    BY <2>5, <2>7, <2>8
<1> QED
  BY <1>1, <1>2

LEMMA PageMapInv ==
    ASSUME NEW mm, MemInv(mm, NoPage, NoPage), NEW src \in Envs, NEW srcva \in VAs,
           NEW dst \in Envs, NEW dstva \in VAs, NEW perm \in SUBSET Bits
    PROVE  LET r == env_page_map(mm, src, srcva, dst, dstva, perm)
           IN  /\ Settled(mm, r, dst)
               /\ r.err => r.m.perm = mm.perm /\ \A s \in Slots : s[2] = "pte" => r.m.slot[s] = mm.slot[s]
               /\ (r.err /\ Mapped(mm, src, srcva) /\ ("W" \in perm => "W" \in mm.perm[src][srcva]))
                     => mm.slot[Pde(dst, dstva)] = NoPage
<1> DEFINE p == PageAt(mm, src, srcva)
           r == env_page_map(mm, src, srcva, dst, dstva, perm)
           refused == ~Mapped(mm, src, srcva) \/ ("W" \in perm /\ "W" \notin mm.perm[src][srcva])
<1>1. CASE refused
  <2>1. r.err = TRUE /\ r.m = mm
    BY <1>1 DEF env_page_map, Fail
  <2> HIDE DEF r
  <2>2. Settled(mm, r, dst)
    BY <2>1 DEF Settled, OnlySlotsOf
  <2>3. r.m.perm = mm.perm /\ \A s \in Slots : s[2] = "pte" => r.m.slot[s] = mm.slot[s]
    BY <2>1
  <2> QED
    BY <1>1, <2>2, <2>3 DEF r
<1>2. CASE ~refused
  <2>1. r = page_insert(mm, dst, p, dstva, perm)
    BY <1>2 DEF env_page_map
  <2>2. Pte(src, srcva) \in Slots /\ Pte(src, srcva)[2] = "pte"
    BY SlotFacts
  <2>3. p \in Pages /\ p # NoPage /\ Pte(src, srcva) \in Users(mm, p)
    <3>1. mm.slot \in [Slots -> Pages \cup {NoPage}]
      BY DEF MemInv, MemType
    <3> QED
      BY <1>2, <2>2, <3>1 DEF Mapped, PageAt, Users
  <2>4. \A t \in Users(mm, p) : t[2] = "pte"
    BY <2>2, <2>3 DEF MemInv, Private, Users
  <2> HIDE DEF p, r
  <2>5. NoPage \in {p, NoPage} /\ Users(mm, p) # {}
    BY <2>3
  <2>6. /\ r.err \in BOOLEAN
        /\ MemInv(r.m, IF r.err THEN NoPage ELSE NoPage, NoPage)
        /\ OnlySlotsOf(mm, r.m, dst)
        /\ r.err => mm.slot[Pde(dst, dstva)] = NoPage
        /\ r.err => r.m.perm = mm.perm /\ \A s \in Slots : s[2] = "pte" => r.m.slot[s] = mm.slot[s]
    BY <2>1, <2>3, <2>4, <2>5, InsertInv
  <2> QED
    BY <2>6 DEF Settled, r
<1> QED
  BY <1>1, <1>2

\* Whatever an environment has mapped is dropped, each reference once; what
\* others have mapped stays.
LEMMA EnvFreeInv ==
    ASSUME NEW mm, MemInv(mm, NoPage, NoPage), NEW e \in Envs
    PROVE  LET nn == env_free(mm, e)
           IN  /\ MemInv(nn, NoPage, NoPage)
               /\ OnlySlotsOf(mm, nn, e)
               /\ \A s \in Slots : s[1] = e => nn.slot[s] = NoPage
<1> DEFINE mine(p) == Users(mm, p) \cap SlotsOf(e)
           ref == [p \in Pages |-> mm.pp_ref[p] - Cardinality(mine(p))]
           freed == {p \in Pages : mine(p) # {} /\ ref[p] = 0}
           slot == [s \in Slots |-> IF s \in SlotsOf(e) THEN NoPage ELSE mm.slot[s]]
           data == [p \in Pages |-> IF p \in freed THEN Zero ELSE mm.data[p]]
           perm == [mm.perm EXCEPT ![e] = [va \in VAs |-> {}]]
           nn == env_free(mm, e)
<1>1. /\ mm \in MemType /\ Counted(mm, NoPage) /\ ListExact(mm, NoPage, NoPage)
      /\ Unused(mm, NoPage) /\ Private(mm) /\ Walkable(mm)
  BY DEF MemInv
<1>2. /\ mm.slot \in [Slots -> Pages \cup {NoPage}] /\ mm.pp_ref \in [Pages -> Nat]
      /\ mm.perm \in [Envs -> [VAs -> SUBSET Bits]] /\ mm.data \in [Pages -> Vals]
  BY <1>1 DEF MemType
<1>3. ASSUME NEW p \in Pages
      PROVE  /\ Cardinality(Users(mm, p) \ SlotsOf(e)) = ref[p] /\ ref[p] \in Nat
             /\ ref[p] = 0 <=> Users(mm, p) \ SlotsOf(e) = {}
  <2>1. IsFiniteSet(Users(mm, p))
    BY UsersFinite
  <2>2. /\ Cardinality(Users(mm, p) \ SlotsOf(e)) = Cardinality(Users(mm, p)) - Cardinality(mine(p))
        /\ IsFiniteSet(Users(mm, p) \ SlotsOf(e))
    BY <2>1, FS_Difference
  <2>3. mm.pp_ref[p] = Cardinality(Users(mm, p))
    BY <1>1, PagesAssumption DEF Counted
  <2>4. /\ Cardinality(Users(mm, p) \ SlotsOf(e)) \in Nat
        /\ Cardinality(Users(mm, p) \ SlotsOf(e)) = 0 <=> Users(mm, p) \ SlotsOf(e) = {}
    BY <2>2, FS_CardinalityType, FS_EmptySet
  <2> QED
    BY <2>2, <2>3, <2>4
<1>4. /\ ref \in [Pages -> Nat] /\ slot \in [Slots -> Pages \cup {NoPage}] /\ freed \subseteq Pages
      /\ data \in [Pages -> Vals] /\ perm \in [Envs -> [VAs -> SUBSET Bits]]
  BY <1>2, <1>3, ValsAssumption
<1>5. nn = [mm EXCEPT !.slot = slot, !.perm = perm, !.pp_ref = ref,
                      !.page_free_list = @ \cup freed, !.data = data]
  BY <1>1 DEF env_free, MemType
<1>6. \A p \in Pages : p \in freed <=> mine(p) # {} /\ ref[p] = 0
  OBVIOUS
<1>7. \A s \in Slots : slot[s] = IF s[1] = e THEN NoPage ELSE mm.slot[s]
  BY DEF SlotsOf
<1>8. \A p \in Pages : {s \in Slots : slot[s] = p} = Users(mm, p) \ SlotsOf(e)
  BY <1>2, PagesAssumption DEF Users
<1> HIDE DEF ref, freed, slot, data, perm, nn
<1>9. /\ nn \in MemType /\ nn.slot = slot /\ nn.pp_ref = ref
      /\ nn.page_free_list = mm.page_free_list \cup freed /\ nn.unlisted = mm.unlisted
  BY <1>1, <1>4, <1>5 DEF MemType
<1>10. \A p \in Pages : Users(nn, p) = Users(mm, p) \ SlotsOf(e)
  BY <1>8, <1>9 DEF Users
<1>11. Counted(nn, NoPage)
  BY <1>3, <1>9, <1>10, PagesAssumption DEF Counted
<1>12. ListExact(nn, NoPage, NoPage)
  <2> SUFFICES ASSUME NEW p \in Pages
               PROVE  p \in mm.page_free_list \cup freed <=> Users(nn, p) = {} /\ p \notin mm.unlisted
    BY <1>9, PagesAssumption DEF ListExact
  <2>1. p \in mm.page_free_list <=> Users(mm, p) = {} /\ p \notin mm.unlisted
    BY <1>1, PagesAssumption DEF ListExact
  <2>2. p \in mm.unlisted => Users(mm, p) = {}
    BY <1>1 DEF Unused
  <2> QED
    BY <1>3, <1>6, <1>10, <2>1, <2>2
<1>13. Unused(nn, NoPage)
  BY <1>1, <1>9, <1>10, PagesAssumption DEF Unused
<1>14. Private(nn)
  <2> SUFFICES ASSUME NEW t \in Slots, NEW u \in Slots,
                      t[2] # "pte", slot[t] # NoPage, slot[u] = slot[t]
               PROVE  u = t
    BY <1>9 DEF Private
  <2>1. slot[t] = mm.slot[t] /\ slot[u] = mm.slot[u]
    BY <1>7
  <2> QED
    BY <2>1, <1>1 DEF Private
<1>15. Walkable(nn)
  <2> SUFFICES ASSUME NEW f \in Envs, NEW va \in VAs, slot[Pte(f, va)] # NoPage
               PROVE  slot[Pde(f, va)] # NoPage
    BY <1>9 DEF Walkable
  <2>1. f # e /\ slot[Pte(f, va)] = mm.slot[Pte(f, va)] /\ slot[Pde(f, va)] = mm.slot[Pde(f, va)]
    BY <1>7, SlotFacts
  <2> QED
    BY <1>1, <2>1 DEF Walkable
<1>16. MemInv(nn, NoPage, NoPage)
  BY <1>9, <1>11, <1>12, <1>13, <1>14, <1>15 DEF MemInv
<1>17. OnlySlotsOf(mm, nn, e) /\ \A s \in Slots : s[1] = e => nn.slot[s] = NoPage
  BY <1>7, <1>9 DEF OnlySlotsOf
<1> QED
  BY <1>16, <1>17 DEF nn

\* Contents are nobody's reference.
LEMMA StoreInv ==
    ASSUME NEW mm, MemInv(mm, NoPage, NoPage), NEW p, NEW v \in Vals
    PROVE  LET nn == [mm EXCEPT !.data[p] = v]
           IN  /\ MemInv(nn, NoPage, NoPage) /\ nn.slot = mm.slot /\ nn.perm = mm.perm
<1> DEFINE nn == [mm EXCEPT !.data[p] = v]
<1>1. mm \in MemType
  BY DEF MemInv
<1>2. /\ nn \in MemType /\ nn.slot = mm.slot /\ nn.pp_ref = mm.pp_ref /\ nn.perm = mm.perm
      /\ nn.page_free_list = mm.page_free_list /\ nn.unlisted = mm.unlisted
  <2> DEFINE data == [mm.data EXCEPT ![p] = v]
  <2>1. data \in [Pages -> Vals]
    BY <1>1 DEF MemType
  <2>2. nn = [mm EXCEPT !.data = data]
    BY <1>1 DEF MemType
  <2> HIDE DEF nn, data
  <2> QED
    BY <1>1, <2>1, <2>2 DEF MemType
<1> HIDE DEF nn
<1>3. \A q : Users(nn, q) = Users(mm, q)
  BY <1>2 DEF Users
<1>4. MemInv(nn, NoPage, NoPage)
  BY <1>2, <1>3 DEF MemInv, Counted, ListExact, Unused, Private, Walkable
<1> QED
  BY <1>2, <1>4 DEF nn

LEMMA CopyInv ==
    ASSUME NEW mm, MemInv(mm, NoPage, NoPage), NEW e \in Envs, NEW from \in VAs, NEW to \in VAs,
           Mapped(mm, e, from)
    PROVE  LET nn == CopyPage(mm, e, from, to)
           IN  /\ MemInv(nn, NoPage, NoPage) /\ nn.slot = mm.slot /\ nn.perm = mm.perm
<1>1. mm.data[PageAt(mm, e, from)] \in Vals
  BY SlotFacts DEF MemInv, MemType, Mapped, PageAt
<1> QED
  BY <1>1, StoreInv DEF CopyPage
=============================================================================
