------------------------- MODULE UserForkSpaces_proofs -------------------------
(***************************************************************************)
(* Module UserFork implements AddressSpaces, for any set of environments,  *)
(* any amount of memory and any number of forks: what fork, fork_v0,       *)
(* pgfault, exits and messages do to the pages shows to the programs as    *)
(* the steps of address spaces of their own.                               *)
(***************************************************************************)
EXTENDS UserFork_proofs

Up == kernel \in {"running", "panic"}

\* A slot of envs[] that holds no environment that has begun
Fresh(e) == env_status[e] # "RUNNABLE" /\ ~env_ipc_recving[e]

\* Before the first environment runs there is no other, its pages are zero,
\* and no page is at two addresses
Booting ==
    /\ ~Up => touched = {} /\ \A e \in Envs : faults[e] = <<>>
    /\ kernel = "booting" =>
          /\ \A e \in Envs : e # FirstEnv => env_status[e] = "FREE"
          /\ \A p \in Pages : m.data[p] = Zero
          /\ \A va, w \in VAs : Common(m, FirstEnv, va, FirstEnv, w) => va = w

\* Who does not run is neither in fork nor in the middle of a fault
Idle(e) ==
    /\ env_status[e] # "RUNNABLE" => child[e] = NoEnv /\ faults[e] = <<>>
    /\ Fresh(e) => \A va \in Data : <<e, va>> \notin touched

\* In fork only the stack faults; the page of fork_v0 stays where it is
Faulting(e) ==
    /\ child[e] \in Envs => \A i \in 1..Len(faults[e]) : faults[e][i].va = STACK
    /\ pc[e] \in {"v0_map", "v0_copy"} => m.slot[Pte(e, pnum[e])] # NoPage

\* What pgfault has copied is what the page holds, unless another has written
\* the page since
Handling(e) ==
    LET va == Top(e).va
    IN  pc[e] # "panic" /\ faults[e] # <<>> /\ Top(e).at = "map" /\ va \in Data /\ m.slot[Pte(e, PFTEMP)] # NoPage =>
          /\ m.slot[Pte(e, va)] # NoPage
          /\ <<e, va>> \in touched \/ m.data[m.slot[Pte(e, PFTEMP)]] = m.data[m.slot[Pte(e, va)]]

\* Where fork is in its loop over the pages
AtPage(e) == pc[e] \in {"dup", "dup_self", "v0", "v0_map", "v0_copy", "v0_unmap"}
Ahead(e, va) == AtPage(e) /\ (pnum[e] < va \/ (pnum[e] = va /\ pc[e] \in {"dup", "v0"}))
Behind(e, va) == va < pnum[e] \/ (va = pnum[e] /\ pc[e] = "v0_unmap")

\* The page at va is duplicated: it is in both and the parent cannot write it,
\* or the child has a copy
Duplicated(e, c, va) ==
    LET p == m.slot[Pte(e, va)]
        q == m.slot[Pte(c, va)]
    IN  \/ p = q /\ (p = NoPage \/ "W" \notin m.perm[e][va])
        \/ /\ p # NoPage /\ q # NoPage /\ Behind(e, va)
           /\ "W" \in m.perm[c][va]
           /\ <<e, va>> \in touched \/ m.data[p] = m.data[q]

\* ... ahead of the loop, where it is, and behind it
Cell(e, c, va) ==
    IF Ahead(e, va)
    THEN m.slot[Pte(c, va)] = NoPage
    ELSE IF AtPage(e) /\ va = pnum[e] /\ pc[e] # "v0_unmap"
    THEN IF pc[e] = "dup_self"
         THEN m.slot[Pte(c, va)] = m.slot[Pte(e, va)]
         ELSE m.slot[Pte(c, va)] # NoPage /\ "W" \in m.perm[c][va]
    ELSE Duplicated(e, c, va)

\* The child's page at va is its own; at UTEMP fork_v0 fills it
Secluded(mm, c, va, e) ==
    \A x \in Envs, w \in VAs :
        "W" \in mm.perm[c][va] /\ Common(mm, c, va, x, w) => (x = c /\ w = va) \/ (x = e /\ w = UTEMP)

Copying(e) ==
    LET c == child[e]
    IN  c \in Envs /\ pc[e] \in Loops =>
          /\ \A va \in Data : Secluded(m, c, va, e) /\ Cell(e, c, va)
          /\ pc[e] = "v0_copy" => m.slot[Pte(e, UTEMP)] = m.slot[Pte(c, pnum[e])]

Spacing == Booting /\ \A e \in Envs : Idle(e) /\ Faulting(e) /\ Handling(e) /\ Copying(e)
SpaceInv == StackInv /\ Spacing

-----------------------------------------------------------------------------
(***************************************************************************)
(* What the calls of the kernel do to the contents of the pages.           *)
(***************************************************************************)

\* A page that is in use before and after keeps what it holds; the others
\* are cleared or left alone
KeepsData(mm, nn) ==
    /\ \A q \in Pages : Users(mm, q) # {} /\ Users(nn, q) # {} => nn.data[q] = mm.data[q]
    /\ \A q \in Pages : nn.data[q] \in {mm.data[q], Zero}

LEMMA AllocData ==
    ASSUME NEW mm \in MemType, mm.page_free_list # {}
    PROVE  page_alloc(mm).data = [mm.data EXCEPT ![FreePage(mm)] = Zero]
BY DEF page_alloc, MemType

LEMMA WalkData ==
    ASSUME NEW mm \in MemType, NEW e \in Envs, NEW va \in VAs, NEW q \in Pages
    PROVE  LET nn == pgdir_walk(mm, e, va)
           IN  nn.data[q] = mm.data[q] \/ (q \in mm.page_free_list /\ nn.data[q] = Zero)
<1> DEFINE s == Pde(e, va)
           p == FreePage(mm)
           aa == page_alloc(mm)
           nn == [aa EXCEPT !.pp_ref[p] = @ + 1, !.slot[s] = p]
<1>1. CASE mm.slot[s] # NoPage \/ mm.page_free_list = {}
  BY <1>1 DEF pgdir_walk
<1>2. CASE mm.slot[s] = NoPage /\ mm.page_free_list # {}
  <2>1. pgdir_walk(mm, e, va) = nn
    BY <1>2 DEF pgdir_walk
  <2>2. p \in mm.page_free_list /\ p \in Pages /\ aa \in MemType
    BY <1>2, AllocShape
  <2>3. aa.data = [mm.data EXCEPT ![p] = Zero] /\ mm.data \in [Pages -> Vals]
    BY <1>2, AllocData DEF MemType
  <2>4. nn.data = aa.data
    BY <2>2 DEF MemType
  <2> HIDE DEF nn, aa, p, s
  <2> QED
    BY <2>1, <2>2, <2>3, <2>4
<1> QED
  BY <1>1, <1>2

LEMMA RemoveData ==
    ASSUME NEW mm \in MemType, NEW e \in Envs, NEW va \in VAs, NEW q \in Pages
    PROVE  LET nn == page_remove(mm, e, va)
           IN  \/ nn.data[q] = mm.data[q]
               \/ q = mm.slot[Pte(e, va)] /\ mm.pp_ref[q] = 1 /\ nn.data[q] = Zero
<1> DEFINE p == PageAt(mm, e, va)
           dd == page_decref(mm, p)
           nn == page_remove(mm, e, va)
<1>1. CASE ~Mapped(mm, e, va)
  BY <1>1 DEF page_remove
<1>2. CASE Mapped(mm, e, va)
  <2>1. nn = [dd EXCEPT !.slot[Pte(e, va)] = NoPage, !.perm[e][va] = {}]
    BY <1>2 DEF page_remove
  <2>2. /\ dd.data = [mm.data EXCEPT ![p] = IF mm.pp_ref[p] = 1 THEN Zero ELSE @]
        /\ nn.data = dd.data
    BY <2>1 DEF page_decref, MemType
  <2>3. mm.data \in [Pages -> Vals] /\ p = mm.slot[Pte(e, va)]
    BY DEF MemType, PageAt
  <2> HIDE DEF dd, p
  <2> QED
    BY <2>2, <2>3
<1> QED
  BY <1>1, <1>2

\* A page that page_remove clears was mapped nowhere else.
LEMMA LastUser ==
    ASSUME NEW mm, NEW h, MemInv(mm, h, NoPage), NEW s \in Slots, NEW q \in Pages,
           mm.slot[s] = q
    PROVE  /\ mm.pp_ref[q] \in Nat \ {0}
           /\ mm.pp_ref[q] = 1 => Users(mm, q) = {s}
<1>1. mm.pp_ref[q] = Cardinality(Users(mm, q)) /\ s \in Users(mm, q)
  BY PagesAssumption DEF MemInv, Counted, Users
<1>2. IsFiniteSet(Users(mm, q)) /\ Cardinality(Users(mm, q)) \in Nat \ {0}
  BY <1>1, UsersFinite
<1>3. ASSUME mm.pp_ref[q] = 1
      PROVE  Users(mm, q) = {s}
  <2> DEFINE U == Users(mm, q)
  <2>1. IsFiniteSet(U) /\ s \in U /\ Cardinality(U) = 1
    BY <1>1, <1>2, <1>3
  <2> HIDE DEF U
  <2>2. IsFiniteSet(U \ {s}) /\ Cardinality(U \ {s}) = Cardinality(U) - 1
    BY <2>1, FS_RemoveElement
  <2>3. Cardinality(U \ {s}) = 0
    BY <2>1, <2>2
  <2>4. U \ {s} = {}
    BY <2>2, <2>3, FS_EmptySet
  <2> QED
    BY <2>1, <2>4 DEF U
<1> QED
  BY <1>1, <1>2, <1>3

LEMMA RemoveKeeps ==
    ASSUME NEW mm, MemInv(mm, NoPage, NoPage), NEW e \in Envs, NEW va \in VAs
    PROVE  KeepsData(mm, page_remove(mm, e, va))
<1> DEFINE nn == page_remove(mm, e, va)
<1>1. mm \in MemType /\ Pte(e, va) \in Slots
  BY SlotFacts DEF MemInv
<1>2. ASSUME NEW q \in Pages
      PROVE  \/ nn.data[q] = mm.data[q]
             \/ q = mm.slot[Pte(e, va)] /\ mm.pp_ref[q] = 1 /\ nn.data[q] = Zero
  BY <1>1, RemoveData
<1>3. /\ MemInv(nn, NoPage, NoPage) /\ nn.slot[Pte(e, va)] = NoPage
      /\ \A q : q # NoPage => Users(nn, q) \subseteq Users(mm, q)
  BY RemoveInv
<1> HIDE DEF nn
<1>4. ASSUME NEW q \in Pages, Users(nn, q) # {}
      PROVE  nn.data[q] = mm.data[q]
  <2> SUFFICES ASSUME q = mm.slot[Pte(e, va)], mm.pp_ref[q] = 1
               PROVE  FALSE
    BY <1>2
  <2>1. Users(mm, q) = {Pte(e, va)}
    BY <1>1, LastUser
  <2>2. Pte(e, va) \notin Users(nn, q)
    BY <1>3, PagesAssumption DEF Users
  <2> QED
    BY <1>3, <1>4, <2>1, <2>2, PagesAssumption
<1> QED
  BY <1>2, <1>4 DEF KeepsData, nn

LEMMA InsertKeeps ==
    ASSUME NEW mm, NEW p \in Pages, NEW x \in {p, NoPage}, MemInv(mm, x, NoPage),
           NEW e \in Envs, NEW va \in VAs, NEW perm \in SUBSET Bits
    PROVE  KeepsData(mm, page_insert(mm, e, p, va, perm).m)
<1> DEFINE w == pgdir_walk(mm, e, va)
           v == [w EXCEPT !.pp_ref[p] = @ + 1]
           u == page_remove(v, e, va)
           n == [u EXCEPT !.slot[Pte(e, va)] = p, !.perm[e][va] = perm]
           r == page_insert(mm, e, p, va, perm)
<1>0. Pte(e, va) \in Slots /\ Pde(e, va) \in Slots /\ Pte(e, va) # Pde(e, va) /\ x \in Pages \cup {NoPage}
  BY SlotFacts
<1>1. /\ mm \in MemType /\ w \in MemType /\ MemInv(w, x, NoPage)
      /\ \A s \in Slots : s # Pde(e, va) => w.slot[s] = mm.slot[s]
  BY <1>0, WalkInv DEF MemInv
<1>2. r = IF w.slot[Pde(e, va)] = NoPage THEN Fail(w) ELSE Ok(n)
  BY DEF page_insert
<1>3. r.err \in BOOLEAN /\ r.m = IF r.err THEN w ELSE n
  BY <1>2 DEF Ok, Fail
<1>4. ASSUME NEW q \in Pages
      PROVE  w.data[q] = mm.data[q] \/ (q \in mm.page_free_list /\ w.data[q] = Zero)
  BY <1>1, WalkData
<1>5. ASSUME NEW q \in Pages, Users(mm, q) # {}
      PROVE  q \notin mm.page_free_list
  BY <1>5, <1>0, PagesAssumption DEF MemInv, ListExact
<1> HIDE DEF w, r
<1>6. /\ v \in MemType /\ v.data = w.data /\ v.slot = w.slot
      /\ v.pp_ref = [w.pp_ref EXCEPT ![p] = @ + 1] /\ w.pp_ref \in [Pages -> Nat]
  <2>1. w.pp_ref \in [Pages -> Nat]
    BY <1>1 DEF MemType
  <2>2. [w.pp_ref EXCEPT ![p] = @ + 1] \in [Pages -> Nat]
    BY <2>1
  <2> DEFINE ref == [w.pp_ref EXCEPT ![p] = @ + 1]
  <2>3. v = [w EXCEPT !.pp_ref = ref]
    BY <1>1 DEF MemType
  <2> HIDE DEF ref, v
  <2>4. v \in MemType /\ v.data = w.data /\ v.slot = w.slot /\ v.pp_ref = ref
    BY <1>1, <2>2, <2>3 DEF MemType, ref
  <2> QED
    BY <2>1, <2>4 DEF ref
<1> HIDE DEF v
<1>7. ASSUME NEW q \in Pages
      PROVE  u.data[q] = w.data[q] \/ (q = w.slot[Pte(e, va)] /\ v.pp_ref[q] = 1 /\ u.data[q] = Zero)
  <2>1. u.data[q] = v.data[q] \/ (q = v.slot[Pte(e, va)] /\ v.pp_ref[q] = 1 /\ u.data[q] = Zero)
    BY <1>6, RemoveData
  <2> QED
    BY <1>6, <2>1
<1>8. /\ n.data = u.data /\ n.slot = [u.slot EXCEPT ![Pte(e, va)] = p]
      /\ u.slot = v.slot \/ u.slot = [v.slot EXCEPT ![Pte(e, va)] = NoPage]
      /\ v.slot \in [Slots -> Pages \cup {NoPage}]
  BY <1>6 DEF page_remove, page_decref, MemType
<1> HIDE DEF u, n
<1>9. ASSUME NEW q \in Pages, q = w.slot[Pte(e, va)], v.pp_ref[q] = 1
      PROVE  q # p /\ Users(n, q) = {}
  <2>1. w.pp_ref[q] \in Nat \ {0} /\ (w.pp_ref[q] = 1 => Users(w, q) = {Pte(e, va)})
    BY <1>0, <1>1, <1>9, LastUser
  <2>2. q # p /\ w.pp_ref[q] = 1
    BY <1>6, <1>9, <2>1
  <2>3. \A s \in Slots : s # Pte(e, va) => n.slot[s] = w.slot[s]
    BY <1>6, <1>8
  <2>4. n.slot[Pte(e, va)] = p
    BY <1>0, <1>8
  <2> QED
    BY <2>1, <2>2, <2>3, <2>4 DEF Users
<1>10. \A q \in Pages : r.m.data[q] \in {mm.data[q], Zero}
  BY <1>3, <1>4, <1>7, <1>8
<1>11. ASSUME NEW q \in Pages, Users(mm, q) # {}, Users(r.m, q) # {}
       PROVE  r.m.data[q] = mm.data[q]
  BY <1>3, <1>4, <1>5, <1>7, <1>8, <1>9, <1>11
<1> QED
  BY <1>10, <1>11 DEF r, KeepsData

LEMMA AllocKeeps ==
    ASSUME NEW mm, MemInv(mm, NoPage, NoPage), NEW e \in Envs, NEW va \in VAs, NEW perm \in SUBSET Bits
    PROVE  KeepsData(mm, env_page_alloc(mm, e, va, perm).m)
<1> DEFINE p == FreePage(mm)
           aa == page_alloc(mm)
           i == page_insert(aa, e, p, va, perm)
           r == env_page_alloc(mm, e, va, perm)
<1>1. CASE mm.page_free_list = {}
  BY <1>1 DEF env_page_alloc, Fail, KeepsData
<1>2. CASE mm.page_free_list # {}
  <2>1. /\ mm \in MemType /\ p \in mm.page_free_list /\ p \in Pages /\ aa \in MemType /\ aa.slot = mm.slot
        /\ aa.data = [mm.data EXCEPT ![p] = Zero] /\ mm.data \in [Pages -> Vals]
    BY <1>2, AllocShape, AllocData DEF MemInv, MemType
  <2>2. MemInv(aa, p, NoPage)
    BY <1>2, AllocInv
  <2>3. r.m.data = i.m.data /\ r.m.slot = i.m.slot
    <3>1. /\ r = IF i.err THEN Fail([i.m EXCEPT !.unlisted = @ \cup {p}]) ELSE i
      BY <1>2 DEF env_page_alloc
    <3>2. i.m \in MemType
      BY <2>1, <2>2, InsertInv, PagesAssumption DEF MemInv
    <3> HIDE DEF i, r
    <3> QED
      BY <3>1, <3>2 DEF Fail, MemType
  <2>4. KeepsData(aa, i.m)
    <3> HIDE DEF aa, p
    <3> QED
      BY <2>1, <2>2, InsertKeeps
  <2>5. \A q \in Pages : Users(mm, q) # {} => q \notin mm.page_free_list
    BY PagesAssumption DEF MemInv, ListExact
  <2>6. \A q : Users(aa, q) = Users(mm, q) /\ Users(r.m, q) = Users(i.m, q)
    BY <2>1, <2>3 DEF Users
  <2> HIDE DEF aa, p, i, r
  <2>7. KeepsData(mm, r.m)
    BY <2>1, <2>3, <2>4, <2>5, <2>6 DEF KeepsData
  <2> QED
    BY <2>7 DEF r
<1> QED
  BY <1>1, <1>2

LEMMA MapKeeps ==
    ASSUME NEW mm, MemInv(mm, NoPage, NoPage), NEW src \in Envs, NEW srcva \in VAs,
           NEW dst \in Envs, NEW dstva \in VAs, NEW perm \in SUBSET Bits
    PROVE  KeepsData(mm, env_page_map(mm, src, srcva, dst, dstva, perm).m)
<1> DEFINE p == PageAt(mm, src, srcva)
           r == env_page_map(mm, src, srcva, dst, dstva, perm)
<1>1. CASE ~Mapped(mm, src, srcva) \/ ("W" \in perm /\ "W" \notin mm.perm[src][srcva])
  BY <1>1 DEF env_page_map, Fail, KeepsData
<1>2. CASE Mapped(mm, src, srcva) /\ ~("W" \in perm /\ "W" \notin mm.perm[src][srcva])
  <2>1. r = page_insert(mm, dst, p, dstva, perm)
    BY <1>2 DEF env_page_map
  <2>2. p \in Pages
    BY <1>2, SlotFacts DEF MemInv, MemType, Mapped, PageAt
  <2> HIDE DEF p
  <2> QED
    BY <2>1, <2>2, InsertKeeps
<1> QED
  BY <1>1, <1>2

LEMMA SetupKeeps ==
    ASSUME NEW mm, MemInv(mm, NoPage, NoPage), NEW e \in Envs
    PROVE  KeepsData(mm, env_setup_vm(mm, e).m)
<1> DEFINE p == FreePage(mm)
           aa == page_alloc(mm)
           nn == [aa EXCEPT !.pp_ref[p] = @ + 1, !.slot[Pgdir(e)] = p]
<1>1. CASE mm.page_free_list = {}
  BY <1>1 DEF env_setup_vm, Fail, KeepsData
<1>2. CASE mm.page_free_list # {}
  <2>1. /\ mm \in MemType /\ p \in mm.page_free_list /\ p \in Pages /\ aa \in MemType
        /\ aa.data = [mm.data EXCEPT ![p] = Zero] /\ mm.data \in [Pages -> Vals]
    BY <1>2, AllocShape, AllocData DEF MemInv, MemType
  <2>2. env_setup_vm(mm, e).m = nn
    BY <1>2 DEF env_setup_vm, Ok
  <2>3. nn.data = aa.data
    BY <2>1 DEF MemType
  <2>4. \A q \in Pages : Users(mm, q) # {} => q \notin mm.page_free_list
    BY PagesAssumption DEF MemInv, ListExact
  <2> HIDE DEF nn, aa, p
  <2> QED
    BY <2>1, <2>2, <2>3, <2>4 DEF KeepsData
<1> QED
  BY <1>1, <1>2

LEMMA FreeKeeps ==
    ASSUME NEW mm, MemInv(mm, NoPage, NoPage), NEW e \in Envs
    PROVE  KeepsData(mm, env_free(mm, e))
<1> DEFINE mine(p) == Users(mm, p) \cap SlotsOf(e)
           ref == [p \in Pages |-> mm.pp_ref[p] - Cardinality(mine(p))]
           freed == {p \in Pages : mine(p) # {} /\ ref[p] = 0}
           nn == env_free(mm, e)
<1>1. mm \in MemType /\ nn.data = [q \in Pages |-> IF q \in freed THEN Zero ELSE mm.data[q]]
  BY DEF env_free, MemInv, MemType
<1>2. MemInv(nn, NoPage, NoPage)
  BY EnvFreeInv
<1>3. nn.pp_ref = ref
  BY DEF env_free, MemInv, MemType
<1> HIDE DEF nn
<1>4. ASSUME NEW q \in freed
      PROVE  Users(nn, q) = {}
  <2>1. q \in Pages /\ nn.pp_ref[q] = 0
    BY <1>3
  <2>2. Cardinality(Users(nn, q)) = 0
    BY <1>2, <2>1, PagesAssumption DEF MemInv, Counted
  <2> QED
    BY <2>2, UsersFinite
<1> HIDE DEF freed
<1> QED
  BY <1>1, <1>4 DEF KeepsData, nn

\* A page that is in a table before the step and in one after it keeps what it
\* holds.
Kept ==
    \A f, g \in Envs : \A w, z \in VAs :
        LET p == m.slot[Pte(f, w)]
        IN  p # NoPage /\ m'.slot[Pte(g, z)] = p => m'.data[p] = m.data[p]

LEMMA KeptPages ==
    ASSUME MemInv(m, NoPage, NoPage), KeepsData(m, m')
    PROVE  Kept
<1> SUFFICES ASSUME NEW f \in Envs, NEW g \in Envs, NEW w \in VAs, NEW z \in VAs,
                    m.slot[Pte(f, w)] # NoPage, m'.slot[Pte(g, z)] = m.slot[Pte(f, w)]
             PROVE  m'.data[m.slot[Pte(f, w)]] = m.data[m.slot[Pte(f, w)]]
  BY DEF Kept
<1>1. Pte(f, w) \in Slots /\ Pte(g, z) \in Slots
  BY SlotFacts
<1>2. m.slot[Pte(f, w)] \in Pages
  BY <1>1 DEF MemInv, MemType
<1> QED
  BY <1>1, <1>2 DEF KeepsData, Users

-----------------------------------------------------------------------------
(***************************************************************************)
(* The mapping, in terms of the table entries.                             *)
(***************************************************************************)

LEMMA MappedIs ==
    ASSUME NEW mm, MemInv(mm, NoPage, NoPage), NEW e \in Envs, NEW va \in VAs
    PROVE  Mapped(mm, e, va) <=> mm.slot[Pte(e, va)] # NoPage
BY DEF MemInv, Walkable, Mapped

\* f may write at w what e has at va
Link(e, va, f, w) ==
    /\ Started(f) /\ <<f, w>> # <<e, va>>
    /\ Common(m, e, va, f, w) /\ "W" \in m.perm[f][w]

Shared(e, va) ==
    Started(e) /\ (<<e, va>> \in touched \/ \E f \in Envs, w \in Data : Link(e, va, f, w))

Holds(e, va) == IF m.slot[Pte(e, va)] = NoPage THEN NoPage ELSE m.data[m.slot[Pte(e, va)]]

LEMMA MappingIs ==
    ASSUME MemInv(m, NoPage, NoPage), NEW e \in Envs, NEW va \in Data
    PROVE  (SharedCell(e, va) <=> Shared(e, va)) /\ Content(e, va) = Holds(e, va)
<1>1. va \in VAs /\ Data \subseteq VAs
  BY Kinds
<1>2. Content(e, va) = Holds(e, va)
  BY <1>1, MappedIs DEF Content, Holds, PageAt
<1>3. ASSUME NEW f \in Envs, NEW w \in Data
      PROVE  (/\ Started(f) /\ <<f, w>> # <<e, va>>
              /\ Mapped(m, e, va) /\ HasBit(m, f, w, "W") /\ PageAt(m, e, va) = PageAt(m, f, w))
             <=> Link(e, va, f, w)
  BY <1>1, MappedIs DEF Link, HasBit, PageAt, Common
<1> QED
  BY <1>2, <1>3 DEF SharedCell, Shared

LEMMA MappingWillBe ==
    ASSUME MemInv(m', NoPage, NoPage), NEW e \in Envs, NEW va \in Data
    PROVE  (SharedCell(e, va)' <=> Shared(e, va)') /\ Content(e, va)' = Holds(e, va)'
<1>1. va \in VAs /\ Data \subseteq VAs
  BY Kinds
<1>2. Content(e, va)' = Holds(e, va)'
  BY <1>1, MappedIs DEF Content, Holds, PageAt
<1>3. ASSUME NEW f \in Envs, NEW w \in Data
      PROVE  (/\ Started(f)' /\ <<f, w>> # <<e, va>>
              /\ Mapped(m', e, va) /\ HasBit(m', f, w, "W") /\ PageAt(m', e, va) = PageAt(m', f, w))
             <=> Link(e, va, f, w)'
  BY <1>1, MappedIs DEF Link, HasBit, PageAt, Common
<1> QED
  BY <1>2, <1>3 DEF SharedCell, Shared

Began == {e \in Envs : Started(e)}
InFault == {e \in Envs : faults[e] # <<>>}
SharedCells == {c \in Envs \X Data : SharedCell(c[1], c[2])}
Space == [e \in Envs |-> [va \in Data |-> IF Started(e) THEN Content(e, va) ELSE NoPage]]

\* What an environment sees is what its entries hold, unless the step C does
\* reaches it or another writes there.
Seen(C) ==
    \A e \in Envs, va \in Data :
        Started(e) => <<e, va>> \in C \/ Shared(e, va) \/ (Started(e)' => Holds(e, va)' = Holds(e, va))

LEMMA SeenKept ==
    ASSUME MemInv(m, NoPage, NoPage), MemInv(m', NoPage, NoPage), NEW C, Seen(C),
           \A e \in Envs, va \in Data : Started(e) /\ ~Started(e)' => <<e, va>> \in C
    PROVE  Spaces!OthersKept(C)
<1>1. \A e \in Began, va \in Data : <<e, va>> \in C \cup SharedCells \/ Space'[e][va] = Space[e][va]
  <2> SUFFICES ASSUME NEW e \in Envs, Started(e), NEW va \in Data, <<e, va>> \notin C, <<e, va>> \notin SharedCells
               PROVE  Space'[e][va] = Space[e][va]
    BY DEF Began
  <2>1. ~SharedCell(e, va)
    BY DEF SharedCells
  <2>2. Started(e)' /\ Holds(e, va)' = Holds(e, va)
    BY <2>1, MappingIs DEF Seen
  <2>3. Space[e][va] = Content(e, va) /\ Space'[e][va] = Content(e, va)'
    BY <2>2 DEF Space
  <2> QED
    BY <2>2, <2>3, MappingIs, MappingWillBe
<1> QED
  BY <1>1 DEF Spaces!OthersKept, Began, SharedCells, Space

\* No cell is shared that was not, but those of C
NoMore(C) == \A e \in Envs, va \in Data : Shared(e, va)' => Shared(e, va) \/ <<e, va>> \in C

LEMMA NoMoreShared ==
    ASSUME MemInv(m, NoPage, NoPage), MemInv(m', NoPage, NoPage), NEW C, NoMore(C)
    PROVE  SharedCells' \subseteq SharedCells \cup C
<1> SUFFICES ASSUME NEW e \in Envs, NEW va \in Data, SharedCell(e, va)'
             PROVE  SharedCell(e, va) \/ <<e, va>> \in C
  BY DEF SharedCells
<1>1. Shared(e, va)'
  BY MappingWillBe
<1> QED
  BY <1>1, MappingIs DEF NoMore

-----------------------------------------------------------------------------
(***************************************************************************)
(* What a step of one environment leaves of the others'.                   *)
(***************************************************************************)

\* The entries of e stay as they are
Still(e) == \A w \in VAs : m'.slot[Pte(e, w)] = m.slot[Pte(e, w)] /\ m'.perm[e][w] = m.perm[e][w]

\* A page that is put in a table was free, or one that y had
From(y) ==
    \A x \in Envs, w \in VAs :
        LET p == m'.slot[Pte(x, w)]
        IN  \/ p \in {NoPage, m.slot[Pte(x, w)]}
            \/ \A s \in Slots : m.slot[s] # p
            \/ \E u \in VAs : p = m.slot[Pte(y, u)]

\* No other's fork or page fault is about x
Clear(e, x) == \A g \in Envs \ {e} : child[g] # x /\ (g = x => child[g] \notin Envs /\ faults[g] = <<>>)

\* What g has copied is as it was, or is known to be touched
Steadfast(g) ==
    \A va \in Data : Copied(g, va) =>
        \/ <<g, va>> \in touched'
        \/ /\ <<g, va>> \notin touched
           /\ m.slot[Pte(g, va)] # NoPage => m'.data[m.slot[Pte(g, va)]] = m.data[m.slot[Pte(g, va)]]
           /\ child[g] \in Envs /\ pc[g] \in Loops /\ m.slot[Pte(child[g], va)] # NoPage /\ "W" \in m.perm[child[g]][va]
                => m'.data[m.slot[Pte(child[g], va)]] = m.data[m.slot[Pte(child[g], va)]]
           /\ m.slot[Pte(g, PFTEMP)] # NoPage /\ faults[g] # <<>> /\ Top(g).at = "map"
                => m'.data[m.slot[Pte(g, PFTEMP)]] = m.data[m.slot[Pte(g, PFTEMP)]]

Unmoved(g) == child'[g] = child[g] /\ pc'[g] = pc[g] /\ pnum'[g] = pnum[g] /\ faults'[g] = faults[g]

SecludedKept(c) ==
    \A va \in Data, x \in Envs, w \in VAs :
        "W" \in m.perm[c][va] /\ Common(m', c, va, x, w) => Common(m, c, va, x, w)

LEMMA SpaceParts ==
    ASSUME SpaceInv
    PROVE  /\ StackInv /\ IInv /\ Sharing /\ MemInv(m, NoPage, NoPage) /\ Types /\ SameKind(m)
           /\ Booting /\ FreeIsEmpty /\ WaitingSleeps /\ ForkOwnsChild
           /\ \A g \in Envs : /\ Idle(g) /\ Faulting(g) /\ Handling(g) /\ Copying(g)
                              /\ Own(g) /\ Places(g)
BY DEF SpaceInv, StackInv, IInv, Sharing, Spacing

LEMMA NotEmpty ==
    ASSUME NEW s \in Seq(Frame), s # <<>>
    PROVE  Len(s) \in Nat /\ Len(s) \in 1..Len(s) /\ Len(s) \in DOMAIN s /\ s[Len(s)] \in Frame
OBVIOUS

\* Copying, in a fork whose place and tables are as they were.
LEMMA CopyingKept ==
    ASSUME SpaceInv, NEW g \in Envs,
           child'[g] = child[g], pc'[g] = pc[g], pnum'[g] = pnum[g],
           pc[g] \in Loops =>
              /\ \A w \in Data : m'.slot[Pte(g, w)] = m.slot[Pte(g, w)] /\ m'.perm[g][w] = m.perm[g][w]
              /\ m'.slot[Pte(g, UTEMP)] = m.slot[Pte(g, UTEMP)]
              /\ child[g] \in Envs => Still(child[g]) /\ SecludedKept(child[g]),
           Steadfast(g)
    PROVE  Copying(g)'
<1> SUFFICES ASSUME NEW c \in Envs, c = child[g], pc[g] \in Loops
             PROVE  Copying(g)'
  BY DEF Copying
<1>1. Copying(g) /\ Data \subseteq VAs /\ UTEMP \in VAs /\ Types
  BY SpaceParts, Kinds
<1>2. /\ \A w \in Data : m'.slot[Pte(g, w)] = m.slot[Pte(g, w)] /\ m'.perm[g][w] = m.perm[g][w]
      /\ m'.slot[Pte(g, UTEMP)] = m.slot[Pte(g, UTEMP)]
      /\ \A w \in VAs : m'.slot[Pte(c, w)] = m.slot[Pte(c, w)] /\ m'.perm[c][w] = m.perm[c][w]
      /\ SecludedKept(c)
  BY DEF Still
<1>3. child'[g] = c /\ c # NoEnv
  BY NoEnvAssumption
<1>4. ASSUME NEW va \in Data
      PROVE  Secluded(m', c, va, g)
  BY <1>1, <1>2, <1>3 DEF Copying, Secluded, SecludedKept
<1>5. ASSUME NEW va \in Data, Duplicated(g, c, va)
      PROVE  Duplicated(g, c, va)'
  <2> DEFINE p == m.slot[Pte(g, va)]
             q == m.slot[Pte(c, va)]
  <2>1. va \in VAs /\ m'.slot[Pte(g, va)] = p /\ m'.slot[Pte(c, va)] = q
        /\ m'.perm[g][va] = m.perm[g][va] /\ m'.perm[c][va] = m.perm[c][va]
    BY <1>1, <1>2
  <2>2. CASE p = q /\ (p = NoPage \/ "W" \notin m.perm[g][va])
    BY <1>3, <2>1, <2>2 DEF Duplicated
  <2>3. CASE /\ p # NoPage /\ q # NoPage /\ Behind(g, va)
             /\ "W" \in m.perm[c][va]
             /\ <<g, va>> \in touched \/ m.data[p] = m.data[q]
    <3>1. Copied(g, va)
      BY <1>3, <2>3 DEF Copied, Behind
    <3>2. <<g, va>> \in touched' \/ m'.data[p] = m'.data[q]
      BY <1>3, <2>3, <3>1 DEF Steadfast
    <3>3. Behind(g, va)'
      BY <2>3 DEF Behind
    <3> QED
      BY <1>3, <2>1, <2>3, <3>2, <3>3 DEF Duplicated
  <2> QED
    BY <1>5, <2>2, <2>3 DEF Duplicated
<1>6. ASSUME NEW va \in Data
      PROVE  (Ahead(g, va)' <=> Ahead(g, va)) /\ (AtPage(g)' <=> AtPage(g))
  BY DEF Ahead, AtPage
<1>7. pc[g] = "v0_copy" => pnum[g] \in VAs
  BY <1>3, SpaceParts DEF ForkOwnsChild, OnPage
<1> QED
  BY <1>1, <1>2, <1>3, <1>4, <1>5, <1>6, <1>7 DEF Copying, Cell

\* Who is in the middle of nothing.
LEMMA Bare ==
    ASSUME NEW g \in Envs, child'[g] \notin Envs, pc'[g] \notin {"v0_map", "v0_copy"}, faults'[g] = <<>>
    PROVE  Faulting(g)' /\ Handling(g)' /\ Copying(g)'
<1>1. Faulting(g)'
  BY DEF Faulting
<1>2. Handling(g)'
  BY DEF Handling
<1>3. Copying(g)'
  BY DEF Copying
<1> QED
  BY <1>1, <1>2, <1>3

LEMMA AsideKept ==
    ASSUME SpaceInv, NEW g \in Envs, Unmoved(g), Still(g),
           child[g] \in Envs /\ pc[g] \in Loops => Still(child[g]) /\ SecludedKept(child[g]),
           Steadfast(g)
    PROVE  Faulting(g)' /\ Handling(g)' /\ Copying(g)'
<1>1. Data \subseteq VAs /\ {UTEMP, PFTEMP} \subseteq VAs /\ Faulting(g) /\ Handling(g) /\ Types /\ ForkOwnsChild
  BY SpaceParts, Kinds
<1>2. Faulting(g)'
  <2>1. pc[g] \in {"v0_map", "v0_copy"} => pnum[g] \in VAs
    BY <1>1 DEF ForkOwnsChild, OnPage
  <2> QED
    BY <1>1, <2>1 DEF Faulting, Unmoved, Still
<1>3. Handling(g)'
  <2> DEFINE va == Top(g).va
             t == m.slot[Pte(g, PFTEMP)]
             p == m.slot[Pte(g, va)]
  <2>1. Top(g)' = Top(g) /\ faults'[g] = faults[g] /\ pc'[g] = pc[g]
    BY DEF Top, Unmoved
  <2> SUFFICES ASSUME pc[g] # "panic", faults[g] # <<>>, Top(g).at = "map", va \in Data, m'.slot[Pte(g, PFTEMP)] # NoPage
               PROVE  /\ m'.slot[Pte(g, va)] # NoPage
                      /\ <<g, va>> \in touched' \/ m'.data[m'.slot[Pte(g, PFTEMP)]] = m'.data[m'.slot[Pte(g, va)]]
    BY <2>1 DEF Handling
  <2>2. m'.slot[Pte(g, PFTEMP)] = t /\ m'.slot[Pte(g, va)] = p
    BY <1>1 DEF Still
  <2>3. p # NoPage /\ (<<g, va>> \in touched \/ m.data[t] = m.data[p])
    BY <1>1, <2>2 DEF Handling
  <2>4. Copied(g, va)
    <3>1. faults[g] \in Seq(Frame) /\ Len(faults[g]) \in DOMAIN faults[g] /\ Top(g) \in Frame
      BY <1>1, NotEmpty DEF Types, Top
    <3>2. Top(g) = [va |-> va, at |-> "map"]
      BY <3>1 DEF Frame
    <3> QED
      BY <3>1, <3>2 DEF Copied, Top
  <2> QED
    BY <2>2, <2>3, <2>4 DEF Steadfast
<1>4. Copying(g)'
  BY <1>1, CopyingKept DEF Unmoved, Still
<1> QED
  BY <1>2, <1>3, <1>4

\* A page that comes from elsewhere is none of those that are the child's own.
LEMMA FromSecludes ==
    ASSUME SpaceInv, NEW y \in Envs, From(y), NEW g \in Envs, child[g] \in Envs, pc[g] \in Loops,
           Still(child[g]), y # g, y # child[g]
    PROVE  SecludedKept(child[g])
<1> DEFINE c == child[g]
<1> SUFFICES ASSUME NEW va \in Data, NEW x \in Envs, NEW w \in VAs, "W" \in m.perm[c][va], Common(m', c, va, x, w)
             PROVE  Common(m, c, va, x, w)
  BY DEF SecludedKept
<1>1. va \in VAs /\ Secluded(m, c, va, g) /\ Pte(c, va) \in Slots
  BY SpaceParts, Kinds, SlotFacts DEF Copying
<1>2. m'.slot[Pte(c, va)] = m.slot[Pte(c, va)] /\ m.slot[Pte(c, va)] # NoPage
      /\ m'.slot[Pte(x, w)] = m.slot[Pte(c, va)]
  BY <1>1 DEF Still, Common
<1>3. ASSUME NEW u \in VAs, m.slot[Pte(y, u)] = m.slot[Pte(c, va)]
      PROVE  FALSE
  BY <1>1, <1>2, <1>3 DEF Secluded, Common
<1> QED
  BY <1>1, <1>2, <1>3 DEF From, Common

LEMMA KeptSteadfast ==
    ASSUME Kept, NEW g \in Envs, Still(g), child[g] \in Envs /\ pc[g] \in Loops => Still(child[g]),
           \A va \in Data : <<g, va>> \in touched' <=> <<g, va>> \in touched
    PROVE  Steadfast(g)
<1>1. Data \subseteq VAs /\ PFTEMP \in VAs
  BY Kinds
<1>2. ASSUME NEW f \in Envs, Still(f), NEW w \in VAs, m.slot[Pte(f, w)] # NoPage
      PROVE  m'.data[m.slot[Pte(f, w)]] = m.data[m.slot[Pte(f, w)]]
  BY <1>2 DEF Kept, Still
<1> QED
  BY <1>1, <1>2 DEF Steadfast

\* What a step does to the tables, as the lemmas below take it: only x's
\* change, with pages that were free or were y's.
Only(x, y) == From(y) /\ \A f \in Envs : f # x => Still(f)

LEMMA SameOnly ==
    ASSUME SameTables(m, m'), NEW x, NEW y
    PROVE  Only(x, y)
BY SlotFacts DEF SameTables, Only, From, Still

LEMMA FewerOnly ==
    ASSUME Fewer(m, m'), NEW x, Apart(m, m', x), NEW y
    PROVE  Only(x, y)
<1>1. From(y)
  BY DEF Fewer, From
<1>2. ASSUME NEW f \in Envs, f # x
      PROVE  Still(f)
  BY <1>2, SlotFacts DEF Apart, OnlySlotsOf, Still
<1> QED
  BY <1>1, <1>2 DEF Only

LEMMA SetsOnly ==
    ASSUME NEW x \in Envs, NEW v \in VAs, NEW p, NEW perm, Sets(m, m', x, v, p, perm), NEW y,
           (\A s \in Slots : m.slot[s] # p) \/ \E u \in VAs : p = m.slot[Pte(y, u)]
    PROVE  Only(x, y)
<1>1. From(y)
  <2> SUFFICES ASSUME NEW f \in Envs, NEW w \in VAs
               PROVE  \/ m'.slot[Pte(f, w)] \in {NoPage, m.slot[Pte(f, w)]}
                      \/ \A s \in Slots : m.slot[s] # m'.slot[Pte(f, w)]
                      \/ \E u \in VAs : m'.slot[Pte(f, w)] = m.slot[Pte(y, u)]
    BY DEF From
  <2>1. CASE f = x /\ w = v
    BY <2>1 DEF Sets
  <2>2. CASE ~(f = x /\ w = v)
    BY <2>2 DEF Sets
  <2> QED
    BY <2>1, <2>2
<1>2. ASSUME NEW f \in Envs, f # x
      PROVE  Still(f)
  BY <1>2 DEF Sets, Still
<1> QED
  BY <1>1, <1>2 DEF Only

LEMMA ClearSelf ==
    ASSUME SpaceInv, NEW e \in Envs, Running(e)
    PROVE  Clear(e, e)
<1>1. \A g \in Envs : child[g] # e
  BY SpaceParts, RunningFacts
<1> QED
  BY <1>1 DEF Clear

LEMMA ClearChild ==
    ASSUME SpaceInv, NEW e \in Envs, child[e] \in Envs
    PROVE  Clear(e, child[e])
<1>1. ForkOwnsChild /\ Idle(child[e]) /\ NoEnv \notin Envs
  BY SpaceParts, NoEnvAssumption
<1> QED
  BY <1>1 DEF Clear, ForkOwnsChild, Idle

LEMMA ClearOther ==
    ASSUME SpaceInv, NEW e \in Envs, NEW x \in Envs, env_ipc_recving[x] \/ env_status[x] = "FREE"
    PROVE  Clear(e, x) /\ child[x] = NoEnv /\ faults[x] = <<>>
<1>1. ForkOwnsChild /\ Idle(x) /\ WaitingSleeps /\ NoEnv \notin Envs
  BY SpaceParts, NoEnvAssumption
<1>2. env_status[x] # "RUNNABLE"
  BY <1>1 DEF WaitingSleeps
<1>3. child[x] = NoEnv /\ faults[x] = <<>>
  BY <1>1, <1>2 DEF Idle
<1> QED
  BY <1>1, <1>3 DEF Clear, ForkOwnsChild

\* The others' cells are touched or not as they were
TouchedKept(e) == \A g \in Envs \ {e}, va \in Data : <<g, va>> \in touched' <=> <<g, va>> \in touched

\* The others, when e takes a step that changes x's tables.
LEMMA OthersKeep ==
    ASSUME SpaceInv, NEW e \in Envs, NEW x \in Envs, NEW y \in Envs, Clear(e, x), Clear(e, y), Only(x, y),
           NEW g \in Envs \ {e, x}, Unmoved(g), Steadfast(g)
    PROVE  Faulting(g)' /\ Handling(g)' /\ Copying(g)'
<1>1. ForkOwnsChild
  BY SpaceParts
<1>2. CASE child[g] \notin Envs /\ faults[g] = <<>>
  <2>1. pc[g] \notin {"v0_map", "v0_copy"}
    BY <1>1, <1>2 DEF ForkOwnsChild, Loops
  <2> QED
    BY <1>2, <2>1, Bare DEF Unmoved
<1>3. CASE ~(child[g] \notin Envs /\ faults[g] = <<>>)
  <2>1. Still(g)
    BY DEF Only
  <2>2. ASSUME child[g] \in Envs, pc[g] \in Loops
        PROVE  Still(child[g]) /\ SecludedKept(child[g])
    <3>1. child[g] # x /\ child[g] # y /\ y # g
      BY <1>3 DEF Clear
    <3>2. Still(child[g])
      BY <2>2, <3>1 DEF Only
    <3> QED
      BY <2>2, <3>1, <3>2, FromSecludes DEF Only
  <2> QED
    BY <2>1, <2>2, AsideKept
<1> QED
  BY <1>2, <1>3

LEMMA OthersSteadfast ==
    ASSUME SpaceInv, NEW e \in Envs, NEW x \in Envs, NEW y \in Envs, Clear(e, x), Only(x, y),
           Kept, NEW g \in Envs \ {e, x}, \A va \in Data : <<g, va>> \in touched' <=> <<g, va>> \in touched
    PROVE  Steadfast(g)
<1>1. Still(g) /\ child[g] # x
  BY DEF Only, Clear
<1>2. child[g] \in Envs => Still(child[g])
  BY <1>1 DEF Only
<1> QED
  BY <1>1, <1>2, KeptSteadfast

\* Who was idle and is not woken.
LEMMA IdleKept ==
    ASSUME SpaceInv, NEW g \in Envs, Unmoved(g),
           env_status'[g] # "RUNNABLE" => env_status[g] # "RUNNABLE",
           Fresh(g)' => Fresh(g) /\ \A va \in Data : <<g, va>> \in touched' => <<g, va>> \in touched
    PROVE  Idle(g)'
<1>1. Idle(g)
  BY SpaceParts
<1> QED
  BY <1>1 DEF Idle, Unmoved

\* The whole invariant, from what a step does to the one that takes it.
LEMMA SpacingKept ==
    ASSUME SpaceInv, NEW e \in Envs, NEW x \in Envs, NEW y \in Envs, Clear(e, x), Clear(e, y), Only(x, y),
           kernel' \in {"running", "panic"},
           \A g \in Envs \ {e, x} :
              /\ Unmoved(g) /\ Steadfast(g)
              /\ env_status'[g] = env_status[g] /\ env_ipc_recving'[g] = env_ipc_recving[g]
              /\ Fresh(g) => \A va \in Data : <<g, va>> \in touched' => <<g, va>> \in touched,
           \A g \in {e, x} : Idle(g)' /\ Faulting(g)' /\ Handling(g)' /\ Copying(g)'
    PROVE  Spacing'
<1>1. Booting'
  BY DEF Booting, Up
<1>2. ASSUME NEW g \in Envs \ {e, x}
      PROVE  Idle(g)' /\ Faulting(g)' /\ Handling(g)' /\ Copying(g)'
  <2>1. Idle(g)'
    BY <1>2, IdleKept DEF Fresh
  <2> QED
    BY <1>2, <2>1, OthersKeep
<1> QED
  BY <1>1, <1>2 DEF Spacing

-----------------------------------------------------------------------------
(***************************************************************************)
(* Steps that do not show.                                                 *)
(***************************************************************************)

LEMMA StartedIs ==
    ASSUME WaitingSleeps, NEW g \in Envs
    PROVE  Started(g) <=> Up /\ ~Fresh(g)
BY DEF WaitingSleeps, Started, Up, Fresh

\* What the started see is as it was, but in the cells of C, and no entry is
\* more than it was
Invisible(C) ==
    \A g \in Envs, va \in Data : Started(g)' =>
        /\ Started(g)
        /\ \/ m'.slot[Pte(g, va)] = NoPage
           \/ m'.slot[Pte(g, va)] = m.slot[Pte(g, va)] /\ ("W" \in m'.perm[g][va] => "W" \in m.perm[g][va])
        /\ \/ <<g, va>> \in C
           \/ /\ m'.slot[Pte(g, va)] = m.slot[Pte(g, va)]
              /\ m.slot[Pte(g, va)] # NoPage => m'.data[m.slot[Pte(g, va)]] = m.data[m.slot[Pte(g, va)]]
        /\ <<g, va>> \in touched' => <<g, va>> \in touched

LEMMA InvisibleSeen ==
    ASSUME NEW C, Invisible(C)
    PROVE  Seen(C) /\ NoMore({})
<1>1. Seen(C)
  BY DEF Invisible, Seen, Holds
<1>2. ASSUME NEW e \in Envs, NEW va \in Data, NEW f \in Envs, NEW w \in Data, Started(e)', Link(e, va, f, w)'
      PROVE  Link(e, va, f, w)
  BY <1>2 DEF Invisible, Link, Common
<1>3. NoMore({})
  <2> SUFFICES ASSUME NEW e \in Envs, NEW va \in Data, Shared(e, va)'
               PROVE  Shared(e, va)
    BY DEF NoMore
  <2>1. Started(e) /\ Started(e)' /\ (<<e, va>> \in touched' => <<e, va>> \in touched)
    BY DEF Shared, Invisible
  <2> QED
    BY <1>2, <2>1 DEF Shared
<1> QED
  BY <1>1, <1>3

\* A step after which the same environments are there and see the same.
LEMMA InvisibleFault ==
    ASSUME SpaceInv, StackInv', Spacing', Up' <=> Up, Up, Invisible({}),
           \A g \in Envs : Fresh(g)' <=> Fresh(g)
    PROVE  Spaces!Fault
<1>1. MemInv(m, NoPage, NoPage) /\ MemInv(m', NoPage, NoPage) /\ WaitingSleeps /\ WaitingSleeps'
  BY SpaceParts DEF StackInv, IInv
<1>2. \A g \in Envs : Started(g)' <=> Started(g)
  BY <1>1, StartedIs DEF Started, Fresh, Up, WaitingSleeps
<1>3. Spaces!OthersKept({})
  BY <1>1, <1>2, InvisibleSeen, SeenKept
<1>4. SharedCells' \subseteq SharedCells
  BY <1>1, InvisibleSeen, NoMoreShared
<1>5. InFault' \subseteq Began
  <2> SUFFICES ASSUME NEW g \in Envs, faults'[g] # <<>>
               PROVE  Started(g)
    BY DEF InFault, Began
  <2>1. env_status'[g] = "RUNNABLE"
    BY DEF Spacing, Idle
  <2> QED
    BY <1>2, <2>1 DEF Started, Up
<1>6. Began' = Began
  BY <1>2 DEF Began
<1> QED
  BY <1>3, <1>4, <1>5, <1>6 DEF Spaces!Fault, Up, Began, InFault, SharedCells

\* The page that x has at va holds what it held
Intact(x, va) == m.slot[Pte(x, va)] # NoPage => m'.data[m.slot[Pte(x, va)]] = m.data[m.slot[Pte(x, va)]]
Preserves == \A g \in Envs : ~Fresh(g) => \A va \in Data : Intact(g, va)

LEMMA FaultSpaces ==
    ASSUME SpaceInv, StackInv', NEW e \in Envs, NEW x \in Envs, NEW y \in Envs, kernel = "running",
           Clear(e, x), Clear(e, y), Only(x, y), kernel' \in {"running", "panic"},
           \A g \in Envs \ {e, x} :
              /\ Unmoved(g) /\ Steadfast(g)
              /\ env_status'[g] = env_status[g] /\ env_ipc_recving'[g] = env_ipc_recving[g],
           touched' \subseteq touched,
           \A g \in {e, x} : /\ Idle(g)' /\ Faulting(g)' /\ Handling(g)' /\ Copying(g)'
                             /\ Fresh(g)' <=> Fresh(g),
           Preserves,
           ~Fresh(x) => \A va \in Data : /\ m'.slot[Pte(x, va)] = m.slot[Pte(x, va)]
                                         /\ "W" \in m'.perm[x][va] => "W" \in m.perm[x][va]
    PROVE  Spacing' /\ Spaces!Fault
<1>1. Spacing'
  BY SpacingKept
<1>2. \A g \in Envs : Fresh(g)' <=> Fresh(g)
  BY DEF Fresh
<1>3. WaitingSleeps /\ WaitingSleeps' /\ Data \subseteq VAs
  BY SpaceParts, Kinds DEF StackInv, IInv
<1>4. Up /\ Up'
  BY DEF Up
<1>5. Invisible({})
  <2> SUFFICES ASSUME NEW g \in Envs, NEW va \in Data, Started(g)'
               PROVE  /\ Started(g)
                      /\ m'.slot[Pte(g, va)] = m.slot[Pte(g, va)] /\ ("W" \in m'.perm[g][va] => "W" \in m.perm[g][va])
                      /\ m.slot[Pte(g, va)] # NoPage => m'.data[m.slot[Pte(g, va)]] = m.data[m.slot[Pte(g, va)]]
                      /\ <<g, va>> \in touched' => <<g, va>> \in touched
    BY DEF Invisible
  <2>1. ~Fresh(g) /\ Started(g)
    BY <1>2, <1>3, <1>4, StartedIs DEF Started, Fresh, WaitingSleeps
  <2>2. m'.slot[Pte(g, va)] = m.slot[Pte(g, va)] /\ ("W" \in m'.perm[g][va] => "W" \in m.perm[g][va])
    <3>1. CASE g = x
      BY <2>1, <3>1
    <3>2. CASE g # x
      BY <1>3, <3>2 DEF Only, Still
    <3> QED
      BY <3>1, <3>2
  <2>3. m.slot[Pte(g, va)] # NoPage => m'.data[m.slot[Pte(g, va)]] = m.data[m.slot[Pte(g, va)]]
    BY <2>1 DEF Preserves, Intact
  <2> QED
    BY <2>1, <2>2, <2>3
<1> QED
  BY <1>1, <1>2, <1>4, <1>5, InvisibleFault

\* ... when the pages in use keep what they hold.
LEMMA KeptSpaces ==
    ASSUME SpaceInv, StackInv', NEW e \in Envs, NEW x \in Envs, NEW y \in Envs, kernel = "running",
           Clear(e, x), Clear(e, y), Only(x, y), Kept, kernel' \in {"running", "panic"},
           \A g \in Envs \ {e, x} :
              Unmoved(g) /\ env_status'[g] = env_status[g] /\ env_ipc_recving'[g] = env_ipc_recving[g],
           touched' \subseteq touched, TouchedKept(e),
           \A g \in {e, x} : /\ Idle(g)' /\ Faulting(g)' /\ Handling(g)' /\ Copying(g)'
                             /\ Fresh(g)' <=> Fresh(g),
           ~Fresh(x) => \A va \in Data : /\ m'.slot[Pte(x, va)] = m.slot[Pte(x, va)]
                                         /\ "W" \in m'.perm[x][va] => "W" \in m.perm[x][va]
    PROVE  Spacing' /\ Spaces!Fault
<1>1. \A g \in Envs \ {e, x} : Steadfast(g)
  BY OthersSteadfast DEF TouchedKept
<1>2. ASSUME NEW g \in Envs, NEW va \in Data, ~Fresh(g), m.slot[Pte(g, va)] # NoPage
      PROVE  m'.data[m.slot[Pte(g, va)]] = m.data[m.slot[Pte(g, va)]]
  <2>1. va \in VAs
    BY Kinds
  <2>2. m'.slot[Pte(g, va)] = m.slot[Pte(g, va)]
    BY <1>2, <2>1 DEF Only, Still
  <2> QED
    BY <1>2, <2>1, <2>2 DEF Kept
<1>3. Preserves
  BY <1>2 DEF Preserves, Intact
<1> QED
  BY <1>1, <1>3, FaultSpaces

LEMMA ActorFacts ==
    ASSUME SpaceInv, NEW e \in Envs, Running(e)
    PROVE  /\ Clear(e, e) /\ kernel = "running" /\ Up /\ ~Fresh(e) /\ Started(e)
           /\ env_status[e] = "RUNNABLE" /\ ~env_ipc_recving[e] /\ pc[e] # "panic"
           /\ pc[e] \notin Loops => child[e] = NoEnv
<1>1. WaitingSleeps /\ Types
  BY SpaceParts
<1>2. env_status[e] = "RUNNABLE" /\ kernel = "running" /\ pc[e] # "panic"
  BY DEF Running
<1>3. pc[e] \notin Loops => child[e] = NoEnv
  BY <1>1, SpaceParts, RunningFacts DEF Types
<1> QED
  BY <1>1, <1>2, <1>3, ClearSelf DEF WaitingSleeps, Up, Fresh, Started

\* Nothing the program has in hand: before and after, no fork and no fault.
LEMMA BareSpaces ==
    ASSUME SpaceInv, StackInv', NEW e \in Envs, Running(e), faults[e] = <<>>, pc[e] \notin Loops,
           NEW label, label \notin Loops, pc' = [pc EXCEPT ![e] = label],
           Only(e, e), Kept, UNCHANGED <<child, pnum, faults, touched, kernel>>,
           \A g \in Envs \ {e} : env_status'[g] = env_status[g] /\ env_ipc_recving'[g] = env_ipc_recving[g],
           ~Fresh(e)',
           \A va \in Data : /\ m'.slot[Pte(e, va)] = m.slot[Pte(e, va)]
                            /\ "W" \in m'.perm[e][va] => "W" \in m.perm[e][va]
    PROVE  Spacing' /\ Spaces!Fault
<1>1. /\ Clear(e, e) /\ kernel = "running" /\ Up /\ ~Fresh(e)
      /\ env_status[e] = "RUNNABLE" /\ (pc[e] \notin Loops => child[e] = NoEnv)
  BY ActorFacts
<1>2. Types /\ {"v0_map", "v0_copy"} \subseteq Loops /\ NoEnv \notin Envs
  BY SpaceParts, NoEnvAssumption DEF Loops
<1>3. \A g \in Envs \ {e} : Unmoved(g)
  BY <1>2 DEF Types, Unmoved
<1>4. child'[e] = NoEnv /\ faults'[e] = <<>> /\ pc'[e] = label
  BY <1>1, <1>2 DEF Types
<1>5. Idle(e)' /\ Faulting(e)' /\ Handling(e)' /\ Copying(e)'
  BY <1>2, <1>4, Bare DEF Idle
<1> QED
  BY <1>1, <1>3, <1>5, KeptSpaces DEF TouchedKept

LEMMA SameSteadfast ==
    ASSUME NEW g \in Envs, m' = m, UNCHANGED touched
    PROVE  Steadfast(g)
BY DEF Steadfast

LEMMA SameKept ==
    ASSUME m' = m
    PROVE  /\ Kept /\ \A x, y : Only(x, y)
           /\ \A g \in Envs : Still(g) /\ SecludedKept(g)
<1>1. SameTables(m, m')
  BY DEF SameTables
<1> QED
  BY <1>1, SameOnly DEF Kept, Still, SecludedKept

\* An environment goes: it dies, if it had begun.
LEMMA DestroyedSpaces ==
    ASSUME SpaceInv, StackInv', NEW x \in Envs, kernel = "running", Destroyed(x), \A g \in Envs : child[g] # x
    PROVE  Spacing' /\ Spaces!Next
<1>1. /\ MemInv(m, NoPage, NoPage) /\ MemInv(m', NoPage, NoPage) /\ Types /\ WaitingSleeps /\ WaitingSleeps'
      /\ NoEnv \notin Envs /\ Data \subseteq VAs
  BY SpaceParts, NoEnvAssumption, Kinds DEF StackInv, IInv
<1>2. m' = env_free(m, x) /\ kernel' = kernel
  BY DEF Destroyed
<1>3. /\ Only(x, x) /\ Kept
      /\ \A w \in VAs : m'.slot[Pte(x, w)] = NoPage
  <2>1. KeepsData(m, m') /\ Fewer(m, m') /\ Apart(m, m', x) /\ \A w \in VAs : m'.slot[Pte(x, w)] = NoPage
    BY <1>1, <1>2, FreeKeeps, FreeFewer, EnvFreeApart
  <2> QED
    BY <1>1, <2>1, FewerOnly, KeptPages
<1>4. \A g \in Envs \ {x} :
         /\ Unmoved(g) /\ env_status'[g] = env_status[g] /\ env_ipc_recving'[g] = env_ipc_recving[g]
         /\ Fresh(g)' <=> Fresh(g)
  BY <1>1 DEF Destroyed, Types, Unmoved, Fresh
<1>5. /\ child'[x] = NoEnv /\ faults'[x] = <<>> /\ pc'[x] = "user" /\ Fresh(x)'
      /\ touched' \subseteq touched /\ TouchedKept(x) /\ \A va \in Data : <<x, va>> \notin touched'
  BY <1>1 DEF Destroyed, Types, Fresh, TouchedKept
<1>6. Idle(x)' /\ Faulting(x)' /\ Handling(x)' /\ Copying(x)'
  BY <1>1, <1>5, Bare DEF Idle
<1>7. Clear(x, x) /\ Up /\ Up' /\ kernel' \in {"running", "panic"}
  BY <1>2 DEF Clear, Up
<1>8. CASE Fresh(x)
  BY <1>3, <1>4, <1>5, <1>6, <1>7, <1>8, KeptSpaces DEF Spaces!Next
<1>9. CASE ~Fresh(x)
  <2> DEFINE C == {x} \X Data
  <2>1. \A g \in Envs \ {x} : Steadfast(g)
    BY <1>3, <1>5, <1>7, OthersSteadfast DEF TouchedKept
  <2>2. Spacing'
    BY <1>3, <1>4, <1>5, <1>6, <1>7, <2>1, SpacingKept
  <2>3. Started(x) /\ ~Started(x)' /\ \A g \in Envs \ {x} : Started(g)' <=> Started(g)
    BY <1>1, <1>4, <1>5, <1>7, <1>9, StartedIs DEF Started, Fresh, WaitingSleeps, Up
  <2>4. Invisible(C)
    <3> SUFFICES ASSUME NEW g \in Envs, NEW va \in Data, Started(g)'
                 PROVE  /\ Started(g)
                        /\ m'.slot[Pte(g, va)] = m.slot[Pte(g, va)] /\ m'.perm[g][va] = m.perm[g][va]
                        /\ m.slot[Pte(g, va)] # NoPage => m'.data[m.slot[Pte(g, va)]] = m.data[m.slot[Pte(g, va)]]
                        /\ <<g, va>> \in touched' => <<g, va>> \in touched
      BY DEF Invisible
    <3>1. g # x /\ Started(g) /\ va \in VAs
      BY <1>1, <2>3
    <3>2. m'.slot[Pte(g, va)] = m.slot[Pte(g, va)] /\ m'.perm[g][va] = m.perm[g][va]
      BY <1>3, <3>1 DEF Only, Still
    <3> QED
      BY <1>3, <1>5, <3>1, <3>2 DEF Kept
  <2>5. Spaces!OthersKept(C)
    <3>1. \A e \in Envs, va \in Data : Started(e) /\ ~Started(e)' => <<e, va>> \in C
      BY <2>3
    <3> HIDE DEF C
    <3> QED
      BY <1>1, <2>4, <3>1, InvisibleSeen, SeenKept
  <2>6. SharedCells' \subseteq SharedCells
    BY <1>1, <2>4, InvisibleSeen, NoMoreShared
  <2>7. Began' = Began \ {x} /\ x \in Began
    BY <2>3 DEF Began
  <2>8. InFault' = InFault \ {x}
    BY <1>4, <1>5 DEF InFault, Unmoved
  <2>9. Spaces!Die(x)
    BY <1>7, <2>5, <2>6, <2>7, <2>8 DEF Spaces!Die, Up, Began, InFault, SharedCells
  <2> QED
    BY <2>2, <2>9 DEF Spaces!Next
<1> QED
  BY <1>8, <1>9

LEMMA PageFaultSpaces ==
    ASSUME SpaceInv, StackInv', NEW e \in Envs, Running(e), NEW va \in VAs, PageFault(e, va),
           child[e] \in Envs => va = STACK
    PROVE  Spacing' /\ Spaces!Next
<1>1. /\ Clear(e, e) /\ kernel = "running" /\ Up /\ ~Fresh(e)
      /\ env_status[e] = "RUNNABLE" /\ (pc[e] \notin Loops => child[e] = NoEnv)
  BY ActorFacts
<1>2. /\ IInv /\ Types /\ Faulting(e) /\ Handling(e) /\ Copying(e) /\ ForkOwnsChild
      /\ \A g \in Envs : child[g] # e
  BY SpaceParts, RunningFacts
<1>3. CASE ~(env_pgfault_upcall[e] /\ user_mem_check(m, e, UXSTACK, {"W"}))
  BY <1>1, <1>2, <1>3, DestroyedSpaces DEF PageFault
<1>4. CASE env_pgfault_upcall[e] /\ user_mem_check(m, e, UXSTACK, {"W"})
  <2> DEFINE f == [va |-> va, at |-> "alloc"]
  <2>1. /\ m' = m /\ UNCHANGED <<touched, env_status, env_ipc_recving, pc, child, pnum>>
        /\ \/ faults' = [faults EXCEPT ![e] = Append(@, f)] /\ kernel' = kernel
           \/ faults' = faults /\ kernel' = "panic"
    BY <1>4 DEF PageFault, ipcvars, progvars
  <2>2. /\ Kept /\ Only(e, e) /\ Still(e) /\ \A g \in Envs : Still(g) /\ SecludedKept(g) /\ Steadfast(g)
    BY <2>1, SameKept, SameSteadfast
  <2>3. \A g \in Envs \ {e} : Unmoved(g)
    BY <1>2, <2>1 DEF Unmoved, Types
  <2>4. Idle(e)' /\ Fresh(e)' = Fresh(e)
    BY <1>1, <2>1 DEF Idle, Fresh
  <2>5. Copying(e)'
    <3>1. /\ \A w \in Data : m'.slot[Pte(e, w)] = m.slot[Pte(e, w)] /\ m'.perm[e][w] = m.perm[e][w]
          /\ m'.slot[Pte(e, UTEMP)] = m.slot[Pte(e, UTEMP)]
      BY <2>1
    <3> QED
      BY <2>1, <2>2, <3>1, CopyingKept
  <2>6. Faulting(e)' /\ Handling(e)'
    <3>1. CASE faults' = faults
      BY <1>2, <2>1, <3>1 DEF Faulting, Handling, Top
    <3>2. CASE faults' = [faults EXCEPT ![e] = Append(@, f)]
      <4>1. faults'[e] = Append(faults[e], f) /\ faults[e] \in Seq(Frame)
        BY <1>2, <3>2 DEF Types
      <4>2. f \in Frame
        BY DEF Frame
      <4> HIDE DEF f
      <4>3. /\ Len(faults'[e]) = Len(faults[e]) + 1 /\ Len(faults[e]) \in Nat
            /\ faults'[e][Len(faults[e]) + 1] = f
            /\ \A i \in 1..Len(faults[e]) : faults'[e][i] = faults[e][i]
        BY <4>1, <4>2
      <4>4. Top(e)' = f
        BY <4>3 DEF Top
      <4>5. Handling(e)'
        BY <4>4 DEF Handling, f
      <4>6. \A i \in 1..Len(faults'[e]) : i \in 1..Len(faults[e]) \/ i = Len(faults[e]) + 1
        BY <4>3
      <4>7. child[e] \in Envs => \A i \in 1..Len(faults'[e]) : faults'[e][i].va = STACK
        BY <1>2, <4>3, <4>6 DEF Faulting, f
      <4>8. Faulting(e)'
        BY <1>2, <2>1, <4>7 DEF Faulting
      <4> QED
        BY <4>5, <4>8
    <3> QED
      BY <2>1, <3>1, <3>2
  <2>7. Spacing' /\ Spaces!Fault
    <3>1. \A va_1 \in Data : m'.slot[Pte(e, va_1)] = m.slot[Pte(e, va_1)] /\ m'.perm[e][va_1] = m.perm[e][va_1]
      BY <2>1
    <3>2. kernel' \in {"running", "panic"} /\ touched' \subseteq touched /\ TouchedKept(e)
      BY <1>1, <2>1 DEF TouchedKept
    <3>3. \A g \in Envs \ {e, e} : /\ Unmoved(g)
                                   /\ env_status'[g] = env_status[g] /\ env_ipc_recving'[g] = env_ipc_recving[g]
      BY <2>1, <2>3
    <3>4. \A g \in {e, e} : /\ Idle(g)' /\ Faulting(g)' /\ Handling(g)' /\ Copying(g)'
                            /\ Fresh(g)' <=> Fresh(g)
      BY <2>4, <2>5, <2>6
    <3> QED
      BY <1>1, <2>2, <3>1, <3>2, <3>3, <3>4, KeptSpaces
  <2> QED
    BY <2>7 DEF Spaces!Next
<1> QED
  BY <1>3, <1>4

-----------------------------------------------------------------------------
(***************************************************************************)
(* What programs do.                                                       *)
(***************************************************************************)

LEMMA UserFacts ==
    ASSUME SpaceInv, NEW e \in Envs, NEW label, At(e, label), label \notin Loops
    PROVE  /\ Running(e) /\ faults[e] = <<>> /\ child[e] = NoEnv /\ pc[e] = label /\ pc[e] \notin Loops
           /\ HasBit(m, e, STACK, "W") /\ "user" \notin Loops
<1>1. Running(e) /\ faults[e] = <<>> /\ pc[e] = label /\ HasBit(m, e, STACK, "W")
  BY DEF At, CanCall, AtStack
<1>2. child[e] = NoEnv
  BY <1>1, ActorFacts
<1> QED
  BY <1>1, <1>2 DEF Loops

LEMMA StackFaultSpaces ==
    ASSUME SpaceInv, StackInv', NEW e \in Envs, StackFault(e)
    PROVE  Spacing' /\ Spaces!Next
<1>1. Running(e) /\ PageFault(e, STACK) /\ STACK \in VAs
  BY AddressFacts DEF StackFault, AtStack
<1> QED
  BY <1>1, PageFaultSpaces

LEMMA FaultingSpaces ==
    ASSUME SpaceInv, StackInv', NEW e \in Envs, At(e, "user"), NEW va \in Data, PageFault(e, va)
    PROVE  Spacing' /\ Spaces!Next
<1>1. Running(e) /\ child[e] = NoEnv /\ va \in VAs /\ NoEnv \notin Envs
  BY UserFacts, AddressFacts, NoEnvAssumption DEF Loops
<1> QED
  BY <1>1, PageFaultSpaces

\* A write reaches the writer's cell, and those that share its page.
LEMMA StoreSpaces ==
    ASSUME SpaceInv, StackInv', NEW e \in Envs, NEW va \in Data, NEW x \in Vals,
           Write(e, va, x), HasBit(m, e, va, "W")
    PROVE  Spacing' /\ Spaces!Next
<1> DEFINE p == m.slot[Pte(e, va)]
<1>1. /\ Running(e) /\ faults[e] = <<>> /\ child[e] = NoEnv /\ pc[e] = "user"
  BY UserFacts DEF Write, Loops
<1>2. /\ Clear(e, e) /\ kernel = "running" /\ ~Fresh(e) /\ Started(e) /\ env_status[e] = "RUNNABLE"
  BY <1>1, ActorFacts
<1>3. /\ MemInv(m, NoPage, NoPage) /\ MemInv(m', NoPage, NoPage) /\ Types /\ m \in MemType
      /\ NoEnv \notin Envs /\ Data \subseteq VAs /\ PFTEMP \in VAs /\ PFTEMP \notin Data /\ UTEMP \notin Data
  BY SpaceParts, NoEnvAssumption, Kinds DEF StackInv, IInv, MemInv
<1>4. p # NoPage /\ "W" \in m.perm[e][va] /\ p \in Pages
  BY <1>3, SlotFacts, MappedIs DEF HasBit, MemType
<1>5. /\ m' = [m EXCEPT !.data[p] = x]
      /\ touched' = touched \cup {t \in (Envs \ {e}) \X Data : Copied(t[1], t[2]) /\ PageAt(m, t[1], t[2]) = p}
      /\ UNCHANGED <<env_ipc_recving, env_status, kernel, pc, child, pnum, faults>>
  BY DEF Write, PageAt, envvars, progvars
<1>6. m'.slot = m.slot /\ m'.perm = m.perm /\ m'.data = [m.data EXCEPT ![p] = x] /\ m.data \in [Pages -> Vals]
  BY <1>3, <1>5 DEF MemType
<1>7. Only(e, e)
  BY <1>6, SameOnly DEF SameTables
<1> HIDE DEF p
<1>8. ASSUME NEW q, q \in Pages, q # p
      PROVE  m'.data[q] = m.data[q]
  BY <1>6, <1>8
<1>9. ASSUME NEW g \in Envs, NEW w \in VAs, m.slot[Pte(g, w)] # NoPage, m.slot[Pte(g, w)] # p
      PROVE  m'.data[m.slot[Pte(g, w)]] = m.data[m.slot[Pte(g, w)]]
  BY <1>3, <1>8, <1>9, SlotFacts DEF MemType
<1>10. ASSUME NEW g \in Envs \ {e}
       PROVE  Steadfast(g)
  <2> SUFFICES ASSUME NEW w \in Data, Copied(g, w), <<g, w>> \notin touched'
               PROVE  /\ <<g, w>> \notin touched
                      /\ m.slot[Pte(g, w)] # NoPage => m'.data[m.slot[Pte(g, w)]] = m.data[m.slot[Pte(g, w)]]
                      /\ child[g] \in Envs /\ pc[g] \in Loops /\ m.slot[Pte(child[g], w)] # NoPage /\ "W" \in m.perm[child[g]][w]
                           => m'.data[m.slot[Pte(child[g], w)]] = m.data[m.slot[Pte(child[g], w)]]
                      /\ m.slot[Pte(g, PFTEMP)] # NoPage /\ faults[g] # <<>> /\ Top(g).at = "map"
                           => m'.data[m.slot[Pte(g, PFTEMP)]] = m.data[m.slot[Pte(g, PFTEMP)]]
    BY DEF Steadfast
  <2>1. <<g, w>> \notin touched /\ m.slot[Pte(g, w)] # p
    <3>1. <<g, w>> \in (Envs \ {e}) \X Data /\ <<g, w>>[1] = g /\ <<g, w>>[2] = w
      OBVIOUS
    <3> QED
      BY <1>5, <3>1 DEF PageAt
  <2>2. child[g] \in Envs /\ pc[g] \in Loops /\ m.slot[Pte(child[g], w)] # NoPage /\ "W" \in m.perm[child[g]][w]
          => m.slot[Pte(child[g], w)] # p
    <3> SUFFICES ASSUME child[g] \in Envs, pc[g] \in Loops, m.slot[Pte(child[g], w)] # NoPage,
                        "W" \in m.perm[child[g]][w], m.slot[Pte(child[g], w)] = p
                 PROVE  FALSE
      OBVIOUS
    <3>1. Secluded(m, child[g], w, g)
      BY SpaceParts DEF Copying
    <3>2. Common(m, child[g], w, e, va)
      BY DEF Common, p
    <3>3. e = child[g]
      BY <1>3, <3>1, <3>2 DEF Secluded
    <3> QED
      BY <1>2, <3>3 DEF Clear
  <2>3. m.slot[Pte(g, PFTEMP)] # NoPage /\ faults[g] # <<>> /\ Top(g).at = "map" => m.slot[Pte(g, PFTEMP)] # p
    <3>1. Temporary(g)
      BY SpaceParts DEF Own
    <3> QED
      BY <1>3, <3>1 DEF Temporary, Common, p
  <2> QED
    BY <1>3, <1>9, <2>1, <2>2, <2>3
<1>11. ASSUME NEW t \in touched' \ touched
       PROVE  /\ t \in (Envs \ {e}) \X Data /\ m.slot[Pte(t[1], t[2])] = p
              /\ child[t[1]] # NoEnv \/ faults[t[1]] # <<>>
  <2>1. t \in (Envs \ {e}) \X Data /\ m.slot[Pte(t[1], t[2])] = p /\ Copied(t[1], t[2])
    BY <1>5 DEF PageAt
  <2>2. ASSUME faults[t[1]] = <<>>, child[t[1]] = NoEnv
        PROVE  FALSE
    BY <2>1, <2>2 DEF Copied
  <2> QED
    BY <2>1, <2>2
<1>12. ASSUME NEW g \in Envs \ {e}, Fresh(g), NEW w \in Data, <<g, w>> \in touched'
       PROVE  <<g, w>> \in touched
  <2>1. child[g] = NoEnv /\ faults[g] = <<>>
    BY <1>12, SpaceParts DEF Idle, Fresh
  <2> QED
    BY <1>11, <1>12, <2>1
<1>13. Spacing'
  <2>1. Idle(e)' /\ Faulting(e)' /\ Handling(e)' /\ Copying(e)'
    BY <1>1, <1>2, <1>3, <1>5, Bare DEF Idle, Fresh
  <2>2. \A g \in Envs \ {e, e} :
           /\ Unmoved(g) /\ Steadfast(g)
           /\ env_status'[g] = env_status[g] /\ env_ipc_recving'[g] = env_ipc_recving[g]
           /\ Fresh(g) => \A w \in Data : <<g, w>> \in touched' => <<g, w>> \in touched
    BY <1>5, <1>10, <1>12 DEF Unmoved
  <2> QED
    BY <1>2, <1>5, <1>7, <2>1, <2>2, SpacingKept
<1>14. \A g \in Envs : Started(g)' <=> Started(g)
  BY <1>5 DEF Started
<1>15. ASSUME NEW g \in Envs, NEW w \in Data, m.slot[Pte(g, w)] = p, Started(g), <<g, w>> # <<e, va>>
       PROVE  Shared(g, w)
  <2>1. Link(g, w, e, va)
    BY <1>2, <1>4, <1>15 DEF Link, Common, p
  <2> QED
    BY <1>15, <2>1 DEF Shared
<1>16. Spaces!OthersKept({<<e, va>>})
  <2>1. Seen({<<e, va>>})
    <3> SUFFICES ASSUME NEW g \in Envs, NEW w \in Data, Started(g), <<g, w>> # <<e, va>>, ~Shared(g, w)
                 PROVE  Holds(g, w)' = Holds(g, w)
      BY DEF Seen
    <3>1. m.slot[Pte(g, w)] # p /\ w \in VAs
      BY <1>3, <1>15
    <3> QED
      BY <1>6, <1>9, <3>1 DEF Holds
  <2> QED
    BY <1>3, <1>14, <2>1, SeenKept
<1>17. SharedCells' \subseteq SharedCells
  <2>1. ASSUME NEW g \in Envs, NEW w \in Data, Shared(g, w)'
        PROVE  Shared(g, w)
    <3>1. Started(g)
      BY <1>14, <2>1 DEF Shared
    <3>2. CASE <<g, w>> \in touched' \ touched
      <4>1. g # e /\ m.slot[Pte(g, w)] = p
        <5>1. <<g, w>>[1] = g /\ <<g, w>>[2] = w
          OBVIOUS
        <5> QED
          BY <1>11, <3>2, <5>1
      <4> QED
        BY <1>15, <3>1, <4>1
    <3>3. CASE <<g, w>> \in touched
      BY <3>1, <3>3 DEF Shared
    <3>4. CASE \E f \in Envs, z \in Data : Link(g, w, f, z)'
      BY <1>6, <1>14, <3>1, <3>4 DEF Link, Common, Shared
    <3> QED
      BY <2>1, <3>2, <3>3, <3>4 DEF Shared
  <2> QED
    BY <1>3, <2>1, NoMoreShared DEF NoMore
<1>18. Space'[e][va] = x
  <2>1. Holds(e, va)' = x
    BY <1>4, <1>6 DEF Holds, p
  <2> QED
    BY <1>2, <1>3, <1>14, <2>1, MappingWillBe DEF Space
<1>19. Began' = Began /\ InFault' = InFault /\ e \in Began /\ e \notin InFault
  BY <1>1, <1>2, <1>5, <1>14 DEF Began, InFault
<1>20. Spaces!Write(e, va, x)
  BY <1>5, <1>16, <1>17, <1>18, <1>19 DEF Spaces!Write, Up, Began, InFault, SharedCells, Space
<1> QED
  BY <1>13, <1>20 DEF Spaces!Next

LEMMA WriteSpaces ==
    ASSUME SpaceInv, StackInv', NEW e \in Envs, NEW va \in Data, NEW x \in Vals, Write(e, va, x)
    PROVE  Spacing' /\ Spaces!Next
<1>1. CASE HasBit(m, e, va, "W")
  BY <1>1, StoreSpaces
<1>2. CASE ~HasBit(m, e, va, "W")
  BY <1>2, FaultingSpaces DEF Write
<1> QED
  BY <1>1, <1>2

\* To the program, an unmapped page is one more value.
LEMMA SysPageUnmapSpaces ==
    ASSUME SpaceInv, StackInv', NEW e \in Envs, NEW va \in Data, SysPageUnmap(e, va)
    PROVE  Spacing' /\ Spaces!Next
<1> DEFINE C == {<<e, va>>}
<1>1. /\ Running(e) /\ faults[e] = <<>> /\ child[e] = NoEnv /\ pc[e] = "user"
  BY UserFacts DEF SysPageUnmap, Loops
<1>2. /\ Clear(e, e) /\ kernel = "running" /\ ~Fresh(e) /\ Started(e) /\ env_status[e] = "RUNNABLE"
  BY <1>1, ActorFacts
<1>3. /\ MemInv(m, NoPage, NoPage) /\ MemInv(m', NoPage, NoPage) /\ NoEnv \notin Envs /\ Data \subseteq VAs
  BY SpaceParts, NoEnvAssumption, Kinds DEF StackInv, IInv
<1>4. /\ m' = page_remove(m, e, va)
      /\ UNCHANGED <<env_ipc_recving, env_status, kernel, pc, child, pnum, faults, touched>>
  BY DEF SysPageUnmap, envvars, progvars, ipcvars
<1>5. /\ KeepsData(m, m') /\ Fewer(m, m') /\ Apart(m, m', e)
      /\ m'.slot[Pte(e, va)] = NoPage /\ \A s \in Slots : s # Pte(e, va) => m'.slot[s] = m.slot[s]
  BY <1>3, <1>4, RemoveKeeps, RemoveFewer, RemoveApart, RemoveInv
<1>6. Kept /\ Only(e, e)
  BY <1>3, <1>5, KeptPages, FewerOnly
<1>7. Idle(e)' /\ Faulting(e)' /\ Handling(e)' /\ Copying(e)'
  BY <1>1, <1>2, <1>3, <1>4, Bare DEF Idle, Fresh
<1>8. \A g \in Envs \ {e} : Unmoved(g) /\ Steadfast(g)
  BY <1>2, <1>4, <1>6, OthersSteadfast DEF Unmoved
<1>9. Spacing'
  BY <1>2, <1>4, <1>6, <1>7, <1>8, SpacingKept
<1>10. \A g \in Envs : Started(g)' <=> Started(g)
  BY <1>4 DEF Started
<1>11. Invisible(C)
  <2> SUFFICES ASSUME NEW g \in Envs, NEW w \in Data, Started(g)'
               PROVE  /\ \/ m'.slot[Pte(g, w)] = NoPage
                         \/ m'.slot[Pte(g, w)] = m.slot[Pte(g, w)] /\ ("W" \in m'.perm[g][w] => "W" \in m.perm[g][w])
                      /\ \/ <<g, w>> = <<e, va>>
                         \/ /\ m'.slot[Pte(g, w)] = m.slot[Pte(g, w)]
                            /\ m.slot[Pte(g, w)] # NoPage => m'.data[m.slot[Pte(g, w)]] = m.data[m.slot[Pte(g, w)]]
    BY <1>4, <1>10 DEF Invisible
  <2>1. w \in VAs /\ Pte(g, w) \in Slots
    BY <1>3, SlotFacts
  <2>2. CASE <<g, w>> = <<e, va>>
    BY <1>5, <2>2
  <2>3. CASE <<g, w>> # <<e, va>>
    <3>1. Pte(g, w) # Pte(e, va)
      BY <1>3, <2>3, SlotFacts
    <3>2. m'.slot[Pte(g, w)] = m.slot[Pte(g, w)]
      BY <1>5, <2>1, <3>1
    <3> QED
      BY <1>5, <1>6, <2>1, <3>2 DEF Fewer, Kept
  <2> QED
    BY <2>2, <2>3
<1> HIDE DEF C
<1>12. Spaces!OthersKept(C) /\ SharedCells' \subseteq SharedCells
  BY <1>3, <1>10, <1>11, InvisibleSeen, SeenKept, NoMoreShared
<1>13. Space'[e][va] = NoPage
  <2>1. Holds(e, va)' = NoPage
    BY <1>5 DEF Holds
  <2> QED
    BY <1>2, <1>3, <1>10, <2>1, MappingWillBe DEF Space
<1>14. Began' = Began /\ InFault' = InFault /\ e \in Began /\ e \notin InFault
  BY <1>1, <1>2, <1>4, <1>10 DEF Began, InFault
<1>15. Spaces!Write(e, va, NoPage)
  BY <1>4, <1>12, <1>13, <1>14 DEF Spaces!Write, Up, Began, InFault, SharedCells, Space, C
<1> QED
  BY <1>9, <1>15 DEF Spaces!Next

LEMMA EndSpaces ==
    ASSUME SpaceInv, StackInv', NEW e \in Envs,
           (\E va \in Data : Cputs(e, va)) \/ (\E x \in Envs : SysEnvDestroy(e, x))
    PROVE  Spacing' /\ Spaces!Next
<1>1. /\ Running(e) /\ child[e] = NoEnv /\ NoEnv \notin Envs
  BY UserFacts, NoEnvAssumption DEF Cputs, SysEnvDestroy, Loops
<1>2. kernel = "running" /\ ForkOwnsChild /\ \A g \in Envs : child[g] # e
  BY <1>1, SpaceParts, RunningFacts DEF Running
<1>3. CASE \E va \in Data : Cputs(e, va)
  BY <1>2, <1>3, DestroyedSpaces DEF Cputs
<1>4. ASSUME NEW x \in Envs, SysEnvDestroy(e, x)
      PROVE  Spacing' /\ Spaces!Next
  <2>1. Destroyed(x) /\ (x = e \/ env_parent_id[x] = e)
    BY <1>4 DEF SysEnvDestroy
  <2>2. \A g \in Envs : child[g] # x
    BY <1>1, <1>2, <2>1 DEF ForkOwnsChild
  <2> QED
    BY <1>2, <2>1, <2>2, DestroyedSpaces
<1> QED
  BY <1>3, <1>4

LEMMA IpcRecvSpaces ==
    ASSUME SpaceInv, StackInv', NEW e \in Envs, NEW dstva, IpcRecv(e, dstva)
    PROVE  Spacing' /\ Spaces!Next
<1>1. /\ Running(e) /\ faults[e] = <<>> /\ pc[e] = "user" /\ "user" \notin Loops /\ Types
  BY UserFacts, SpaceParts DEF IpcRecv, Loops
<1>2. m' = m /\ UNCHANGED <<kernel, pc, child, pnum, faults, touched>>
  BY DEF IpcRecv, progvars
<1>3. pc' = [pc EXCEPT ![e] = "user"]
  BY <1>1, <1>2 DEF Types
<1>4. /\ \A g \in Envs \ {e} : env_status'[g] = env_status[g] /\ env_ipc_recving'[g] = env_ipc_recving[g]
      /\ ~Fresh(e)'
  BY <1>1 DEF IpcRecv, Types, Fresh
<1>5. Kept /\ Only(e, e)
  BY <1>2, SameKept
<1>6. Spacing' /\ Spaces!Fault
  BY <1>1, <1>2, <1>3, <1>4, <1>5, BareSpaces
<1> QED
  BY <1>6 DEF Spaces!Next

\* A message without a page.
LEMMA DeliveredSpaces ==
    ASSUME SpaceInv, StackInv', NEW e \in Envs, NEW f \in Envs, Receiving(e, f), Delivered(f),
           m' = m, UNCHANGED progvars
    PROVE  Spacing' /\ Spaces!Next
<1>1. /\ Running(e) /\ child[e] = NoEnv /\ faults[e] = <<>> /\ pc[e] = "user" /\ env_ipc_recving[f]
  BY UserFacts DEF Receiving, Loops
<1>2. /\ Clear(e, e) /\ kernel = "running" /\ ~Fresh(e) /\ env_status[e] = "RUNNABLE" /\ ~env_ipc_recving[e]
  BY <1>1, ActorFacts
<1>3. /\ Clear(e, f) /\ child[f] = NoEnv /\ faults[f] = <<>> /\ e # f
  BY <1>1, <1>2, ClearOther
<1>4. Types /\ ForkOwnsChild /\ NoEnv \notin Envs
  BY SpaceParts, NoEnvAssumption
<1>5. /\ UNCHANGED <<kernel, touched, faults, pc, child, pnum>>
      /\ env_status'[f] = "RUNNABLE"
      /\ \A g \in Envs \ {f} : env_status'[g] = env_status[g] /\ env_ipc_recving'[g] = env_ipc_recving[g]
  BY <1>4 DEF Delivered, progvars, Types
<1>6. Kept /\ Only(f, e)
  BY SameKept
<1>7. pc[f] \notin {"v0_map", "v0_copy"}
  BY <1>3, <1>4 DEF ForkOwnsChild, Loops
<1>8. \A g \in {e, f} : Idle(g)' /\ Faulting(g)' /\ Handling(g)' /\ Copying(g)'
  BY <1>1, <1>2, <1>3, <1>4, <1>5, <1>7, Bare DEF Idle, Fresh
<1>9. \A g \in {e, f} : Fresh(g)' <=> Fresh(g)
  BY <1>1, <1>2, <1>3, <1>5 DEF Fresh
<1>10. Spacing' /\ Spaces!Fault
  BY <1>2, <1>3, <1>5, <1>6, <1>8, <1>9, KeptSpaces DEF TouchedKept, Unmoved
<1> QED
  BY <1>10 DEF Spaces!Next

LEMMA BeginningSpaces ==
    ASSUME SpaceInv, StackInv', NEW e \in Envs, ForkBegin(e) \/ ForkV0Begin(e) \/ SetHandler(e) \/ SetUpcall(e)
    PROVE  Spacing' /\ Spaces!Next
<1> DEFINE Begun == {"set_handler", "set_upcall", "exofork", "v0_exofork"}
<1>1. Types /\ MemInv(m, NoPage, NoPage) /\ UXSTACK \in VAs /\ UXSTACK \notin Data /\ Data \subseteq VAs
  BY SpaceParts, AddressFacts, Kinds DEF Stacks
<1>2. PICK label \in Begun : pc' = [pc EXCEPT ![e] = label]
  BY DEF ForkBegin, ForkV0Begin, SetHandler, SetUpcall, Goto
<1>3. PICK at \in {"user", "set_handler", "set_upcall"} : At(e, at)
  BY DEF ForkBegin, ForkV0Begin, SetHandler, SetUpcall
<1>4. label \notin Loops /\ at \notin Loops
  BY DEF Loops
<1>5. /\ Running(e) /\ faults[e] = <<>> /\ pc[e] \notin Loops
  BY <1>3, <1>4, UserFacts
<1>6. ~Fresh(e)
  BY <1>5, ActorFacts
<1>7. UNCHANGED <<child, pnum, faults, touched, kernel, env_status, env_ipc_recving>>
  BY DEF ForkBegin, ForkV0Begin, SetHandler, SetUpcall, Goto, envvars, ipcvars, Same
<1>8. /\ Kept /\ Only(e, e)
      /\ \A va \in Data : m'.slot[Pte(e, va)] = m.slot[Pte(e, va)] /\ m'.perm[e][va] = m.perm[e][va]
  <2>1. CASE m' = m
    BY <2>1, SameKept
  <2>2. CASE m' = env_page_alloc(m, e, UXSTACK, {"W"}).m
    <3> DEFINE r == env_page_alloc(m, e, UXSTACK, {"W"})
    <3>1. {"W"} \in SUBSET Bits
      BY DEF Bits
    <3>2. Kept
      BY <1>1, <2>2, <3>1, AllocKeeps, KeptPages
    <3>3. CASE r.err
      <4>1. SameTables(m, m')
        BY <1>1, <2>2, <3>1, <3>3, AllocSets
      <4> QED
        BY <1>1, <3>2, <4>1, SameOnly, SlotFacts DEF SameTables
    <3>4. CASE ~r.err
      <4>1. PICK p \in Pages : (\A s \in Slots : m.slot[s] # p) /\ Sets(m, m', e, UXSTACK, p, {"W"})
        BY <1>1, <2>2, <3>1, <3>4, AllocSets
      <4> QED
        BY <1>1, <3>2, <4>1, SetsOnly DEF Sets
    <3> QED
      BY <3>3, <3>4
  <2> QED
    BY <2>1, <2>2 DEF ForkBegin, ForkV0Begin, SetHandler, SetUpcall
<1>9. Spacing' /\ Spaces!Fault
  BY <1>2, <1>4, <1>5, <1>6, <1>7, <1>8, BareSpaces DEF Fresh
<1> QED
  BY <1>9 DEF Spaces!Next

-----------------------------------------------------------------------------
(***************************************************************************)
(* fork.                                                                   *)
(***************************************************************************)

LEMMA SysExoforkSpaces ==
    ASSUME SpaceInv, StackInv', NEW e \in Envs,
           NEW label \in {"exofork", "v0_exofork"}, NEW loop \in {"dup", "v0"}, SysExofork(e, label, loop)
    PROVE  Spacing' /\ Spaces!Next
<1>1. /\ Running(e) /\ faults[e] = <<>> /\ child[e] = NoEnv /\ pc[e] \notin Loops
  <2>1. At(e, label) /\ label \notin Loops
    BY DEF SysExofork, Loops
  <2> QED
    BY <2>1, UserFacts
<1>2. /\ Clear(e, e) /\ kernel = "running" /\ ~Fresh(e) /\ env_status[e] = "RUNNABLE" /\ ~env_ipc_recving[e]
  BY <1>1, ActorFacts
<1>3. Types /\ ForkOwnsChild /\ WaitingSleeps /\ MemInv(m, NoPage, NoPage) /\ FreeIsEmpty /\ NoEnv \notin Envs
      /\ Data \subseteq VAs /\ VAs \subseteq Nat
  BY SpaceParts, NoEnvAssumption, AddressFacts
<1>4. CASE Goto(e, "panic") /\ UNCHANGED <<m, envvars, ipcvars, faults>>
  <2>1. /\ m' = m /\ pc' = [pc EXCEPT ![e] = "panic"]
        /\ UNCHANGED <<child, pnum, faults, touched, kernel, env_status, env_ipc_recving>>
    BY <1>4 DEF Goto, envvars, ipcvars
  <2>2. Kept /\ Only(e, e) /\ "panic" \notin Loops /\ ~Fresh(e)'
    BY <1>2, <2>1, SameKept DEF Loops, Fresh
  <2>3. Spacing' /\ Spaces!Fault
    BY <1>1, <2>1, <2>2, BareSpaces
  <2> QED
    BY <2>3 DEF Spaces!Next
<1>5. ASSUME NEW c \in Envs, env_status[c] = "FREE", NewChild(e, c, loop)
      PROVE  Spacing' /\ Spaces!Next
  <2>1. Clear(e, c) /\ child[c] = NoEnv /\ faults[c] = <<>> /\ c # e /\ ~env_ipc_recving[c] /\ Idle(c)
    BY <1>2, <1>3, <1>5, ClearOther, SpaceParts DEF WaitingSleeps
  <2>2. \A s \in Slots : s[1] = c => m.slot[s] = NoPage
    BY <1>3, <1>5 DEF FreeIsEmpty
  <2>3. /\ m' = env_setup_vm(m, c).m /\ SameTables(m, m') /\ KeepsData(m, m')
    BY <1>3, <1>5, <2>2, SetupFewer, SetupKeeps DEF NewChild
  <2>4. Kept /\ Only(c, c)
    BY <1>3, <2>3, KeptPages, SameOnly
  <2>5. \A w \in VAs : m'.slot[Pte(c, w)] = NoPage
    BY <2>2, <2>3, SlotFacts DEF SameTables
  <2>6. /\ child'[e] = c /\ pc'[e] = loop /\ pnum'[e] = 0 /\ faults' = faults /\ touched' = touched
        /\ child'[c] = NoEnv /\ pc'[c] = "user" /\ kernel' = kernel
        /\ env_status'[e] = env_status[e] /\ env_status'[c] = "NOT_RUNNABLE"
        /\ env_ipc_recving'[e] = env_ipc_recving[e] /\ ~env_ipc_recving'[c]
        /\ \A g \in Envs \ {e, c} : /\ Unmoved(g)
                                    /\ env_status'[g] = env_status[g] /\ env_ipc_recving'[g] = env_ipc_recving[g]
    BY <1>3, <1>5, <2>1 DEF NewChild, Types, Unmoved
  <2>7. Copying(e)'
    <3>1. ASSUME NEW va \in Data
          PROVE  Secluded(m', c, va, e) /\ Ahead(e, va)' /\ m'.slot[Pte(c, va)] = NoPage
      <4>1. m'.slot[Pte(c, va)] = NoPage /\ va \in Nat
        BY <1>3, <2>5
      <4>2. Ahead(e, va)'
        BY <2>6, <4>1 DEF Ahead, AtPage
      <4> QED
        BY <4>1, <4>2 DEF Secluded, Common
    <3>2. pc'[e] # "v0_copy"
      BY <2>6
    <3> QED
      BY <2>6, <3>1, <3>2 DEF Copying, Cell
  <2>8. Idle(e)' /\ Faulting(e)' /\ Handling(e)'
    BY <1>1, <1>2, <2>6 DEF Idle, Faulting, Handling, Fresh
  <2>9. Idle(c)' /\ Faulting(c)' /\ Handling(c)' /\ Copying(c)'
    <3>1. Idle(c)'
      BY <1>5, <2>1, <2>6 DEF Idle, Fresh
    <3> QED
      BY <1>3, <2>1, <2>6, <3>1, Bare
  <2>10. \A g \in {e, c} : Fresh(g)' <=> Fresh(g)
    BY <1>2, <1>5, <2>1, <2>6 DEF Fresh
  <2>11. Fresh(c)
    BY <1>5, <2>1 DEF Fresh
  <2>12. Spacing' /\ Spaces!Fault
    BY <1>2, <2>1, <2>4, <2>6, <2>7, <2>8, <2>9, <2>10, <2>11, KeptSpaces DEF TouchedKept
  <2> QED
    BY <2>12 DEF Spaces!Next
<1> QED
  BY <1>4, <1>5 DEF SysExofork

LEMMA ForkFacts ==
    ASSUME SpaceInv, NEW e \in Envs, NEW label \in Loops, At(e, label)
    PROVE  LET c == child[e]
           IN  /\ MemInv(m, NoPage, NoPage) /\ Types
               /\ Running(e) /\ pc[e] = label /\ pc[e] \in Loops /\ faults[e] = <<>> /\ kernel = "running"
               /\ c \in Envs /\ c # e /\ Fresh(c) /\ child[c] = NoEnv /\ faults[c] = <<>> /\ pc[c] = "user"
               /\ env_status[c] = "NOT_RUNNABLE" /\ ~env_ipc_recving[c]
               /\ \A va \in Data : <<c, va>> \notin touched
               /\ env_status[e] = "RUNNABLE" /\ ~Fresh(e) /\ Started(e) /\ ~env_ipc_recving[e]
               /\ Clear(e, e) /\ Clear(e, c) /\ Copying(e)
               /\ label \in OnPage => pnum[e] \in VAs
<1>1. IInv /\ ForkOwnsChild /\ Copying(e) /\ Places(e) /\ \A g \in Envs : Idle(g)
  BY SpaceParts
<1>2. /\ MemInv(m, NoPage, NoPage) /\ Types
      /\ Running(e) /\ pc[e] = label /\ pc[e] \in Loops
      /\ child[e] \in Envs /\ env_status[child[e]] = "NOT_RUNNABLE"
      /\ label \in OnPage => pnum[e] \in VAs
  BY <1>1, LoopFacts
<1>3. faults[e] = <<>>
  BY DEF At, CanCall, AtStack
<1>4. /\ Clear(e, e) /\ kernel = "running" /\ ~Fresh(e) /\ Started(e) /\ env_status[e] = "RUNNABLE" /\ ~env_ipc_recving[e]
  BY <1>2, ActorFacts
<1>5. ~env_ipc_recving[child[e]] /\ pc[child[e]] = "user"
  BY <1>1, <1>2 DEF ForkOwnsChild, Places
<1>6. Fresh(child[e]) /\ child[child[e]] = NoEnv /\ faults[child[e]] = <<>>
      /\ \A va \in Data : <<child[e], va>> \notin touched
  BY <1>1, <1>2, <1>5 DEF Idle, Fresh
<1>7. Clear(e, child[e])
  BY <1>2, ClearChild
<1> QED
  BY <1>1, <1>2, <1>3, <1>4, <1>5, <1>6, <1>7

\* The programs' pages are where they were, and no more of them can be written
NoGain(x) ==
    \A va \in Data : /\ m'.slot[Pte(x, va)] = m.slot[Pte(x, va)]
                     /\ "W" \in m'.perm[x][va] => "W" \in m.perm[x][va]
OthersSteady(e, x) == \A g \in Envs \ {e, x} : Steadfast(g)

\* A turn of the loop shows to nobody: the child has not begun.
LEMMA LoopSpaces ==
    ASSUME SpaceInv, StackInv', NEW e \in Envs, NEW label \in Loops, At(e, label),
           NEW x \in {e, child[e]}, NEW y \in {e, child[e]}, Only(x, y),
           NEW next \in Loops \cup {"panic"}, pc' = [pc EXCEPT ![e] = next],
           NEW n, pnum' = [pnum EXCEPT ![e] = n],
           UNCHANGED <<child, faults, touched, kernel, env_status, env_ipc_recving>>,
           OthersSteady(e, x), Preserves, NoGain(e),
           next \in {"v0_map", "v0_copy"} => m'.slot[Pte(e, n)] # NoPage,
           next # "panic" => Copying(e)'
    PROVE  Spacing' /\ Spaces!Next
<1>0. PICK c \in Envs : c = child[e]
  BY ForkFacts
<1>1. /\ MemInv(m, NoPage, NoPage) /\ Types
      /\ Running(e) /\ pc[e] = label /\ pc[e] \in Loops /\ faults[e] = <<>> /\ kernel = "running"
      /\ c # e /\ Fresh(c) /\ child[c] = NoEnv /\ faults[c] = <<>> /\ pc[c] = "user"
      /\ env_status[e] = "RUNNABLE" /\ ~Fresh(e)
      /\ Clear(e, e) /\ Clear(e, c) /\ NoEnv \notin Envs /\ Idle(c)
  BY <1>0, ForkFacts, NoEnvAssumption, SpaceParts
<1>2. /\ pc'[e] = next /\ pnum'[e] = n /\ \A g \in Envs \ {e} : Unmoved(g)
  BY <1>1 DEF Unmoved, Types
<1>3. \A g \in Envs : Fresh(g)' <=> Fresh(g)
  BY DEF Fresh
<1>4. /\ Idle(e)' /\ Handling(e)' /\ Faulting(e)'
  BY <1>1, <1>2, <1>3 DEF Idle, Handling, Faulting
<1>5. Copying(e)'
  BY <1>2 DEF Copying, Loops
<1>6. Idle(c)' /\ Faulting(c)' /\ Handling(c)' /\ Copying(c)'
  <2>1. Idle(c)'
    BY <1>1, <1>2, <1>3 DEF Idle
  <2>2. pc'[c] = "user" /\ faults'[c] = <<>> /\ child'[c] = NoEnv
    BY <1>1, <1>2 DEF Unmoved
  <2> QED
    BY <1>1, <2>1, <2>2, Bare
<1>7. \A g \in Envs \ {e, x} : /\ Unmoved(g) /\ Steadfast(g)
                              /\ env_status'[g] = env_status[g] /\ env_ipc_recving'[g] = env_ipc_recving[g]
  BY <1>2 DEF OthersSteady
<1>8. \A g \in {e, x} : /\ Idle(g)' /\ Faulting(g)' /\ Handling(g)' /\ Copying(g)'
                        /\ Fresh(g)' <=> Fresh(g)
  BY <1>0, <1>3, <1>4, <1>5, <1>6
<1>9. /\ x \in Envs /\ y \in Envs /\ Clear(e, x) /\ Clear(e, y)
      /\ ~Fresh(x) => x = e
  BY <1>0, <1>1
<1>10. Spacing' /\ Spaces!Fault
  <2>1. ~Fresh(x) => \A va \in Data : /\ m'.slot[Pte(x, va)] = m.slot[Pte(x, va)]
                                      /\ "W" \in m'.perm[x][va] => "W" \in m.perm[x][va]
    BY <1>9 DEF NoGain
  <2>2. kernel' \in {"running", "panic"} /\ touched' \subseteq touched
    BY <1>1
  <2> QED
    BY <1>1, <1>7, <1>8, <1>9, <2>1, <2>2, FaultSpaces
<1> QED
  BY <1>10 DEF Spaces!Next

LEMMA KeptLoopSpaces ==
    ASSUME SpaceInv, StackInv', NEW e \in Envs, NEW label \in Loops, At(e, label),
           NEW x \in {e, child[e]}, NEW y \in {e, child[e]}, Only(x, y), Kept,
           NEW next \in Loops \cup {"panic"}, pc' = [pc EXCEPT ![e] = next],
           NEW n, pnum' = [pnum EXCEPT ![e] = n],
           UNCHANGED <<child, faults, touched, kernel, env_status, env_ipc_recving>>,
           \A va \in Data : /\ m'.slot[Pte(e, va)] = m.slot[Pte(e, va)]
                            /\ "W" \in m'.perm[e][va] => "W" \in m.perm[e][va],
           next \in {"v0_map", "v0_copy"} => m'.slot[Pte(e, n)] # NoPage,
           next # "panic" => Copying(e)'
    PROVE  Spacing' /\ Spaces!Next
<1>1. /\ child[e] \in Envs /\ Fresh(child[e]) /\ Clear(e, e) /\ Clear(e, child[e]) /\ Data \subseteq VAs
  BY ForkFacts, AddressFacts
<1>2. \A g \in Envs \ {e, x} : Steadfast(g)
  BY <1>1, OthersSteadfast
<1>3. ASSUME NEW g \in Envs, NEW va \in Data, ~Fresh(g), m.slot[Pte(g, va)] # NoPage
      PROVE  m'.data[m.slot[Pte(g, va)]] = m.data[m.slot[Pte(g, va)]]
  <2>1. va \in VAs
    BY <1>1
  <2>2. m'.slot[Pte(g, va)] = m.slot[Pte(g, va)]
    <3>1. CASE g = e
      BY <3>1
    <3>2. CASE g # e
      BY <1>1, <1>3, <2>1, <3>2 DEF Only, Still
    <3> QED
      BY <3>1, <3>2
  <2> QED
    BY <1>3, <2>1, <2>2 DEF Kept
<1>4. Preserves
  BY <1>3 DEF Preserves, Intact
<1>5. OthersSteady(e, x) /\ NoGain(e)
  BY <1>2 DEF OthersSteady, NoGain
<1> QED
  BY <1>4, <1>5, LoopSpaces

\* The child's own pages, when the pages that move were not among them.
LEMMA SecludedKeeps ==
    ASSUME NEW e \in Envs, NEW c \in Envs, c # e, NEW va \in Data, Secluded(m, c, va, e),
           m'.slot[Pte(c, va)] = m.slot[Pte(c, va)], m'.perm[c][va] = m.perm[c][va],
           \A x \in Envs, w \in VAs :
              LET p == m'.slot[Pte(x, w)]
              IN  \/ p \in {NoPage, m.slot[Pte(x, w)]}
                  \/ \A s \in Slots : m.slot[s] # p
                  \/ \E u \in VAs : p = m.slot[Pte(e, u)] /\ u # UTEMP
                  \/ x = e /\ w = UTEMP
    PROVE  Secluded(m', c, va, e)
<1> SUFFICES ASSUME NEW x \in Envs, NEW w \in VAs, "W" \in m.perm[c][va], Common(m', c, va, x, w)
             PROVE  (x = c /\ w = va) \/ (x = e /\ w = UTEMP)
  BY DEF Secluded
<1>1. va \in VAs /\ Pte(c, va) \in Slots
  BY Kinds, SlotFacts
<1>2. m.slot[Pte(c, va)] # NoPage /\ m'.slot[Pte(x, w)] = m.slot[Pte(c, va)]
  BY DEF Common
<1>3. ASSUME NEW u \in VAs, m.slot[Pte(e, u)] = m.slot[Pte(c, va)], u # UTEMP
      PROVE  FALSE
  BY <1>2, <1>3 DEF Secluded, Common
<1>4. CASE m'.slot[Pte(x, w)] = m.slot[Pte(x, w)]
  BY <1>2, <1>4 DEF Secluded, Common
<1> QED
  BY <1>1, <1>2, <1>3, <1>4

\* The number of a page, and the one past the last.
LEMMA Numbers ==
    ASSUME Types, NEW e \in Envs
    PROVE  pnum[e] \in Nat
<1>1. UXSTACK \in VAs /\ VAs \subseteq Nat
  BY AddressFacts
<1>2. UXSTACK + 1 \in Nat
  BY <1>1
<1>3. pnum[e] \in VAs \cup {UXSTACK + 1}
  BY DEF Types
<1> QED
  BY <1>1, <1>2, <1>3

LEMMA KeptIntact ==
    ASSUME Kept, NEW x \in Envs, NEW va \in VAs, m'.slot[Pte(x, va)] = m.slot[Pte(x, va)]
    PROVE  Intact(x, va)
BY DEF Kept, Intact

LEMMA DuplicatedKept ==
    ASSUME NEW e \in Envs, NEW c \in Envs, NEW va \in Data, Duplicated(e, c, va), touched' = touched,
           Intact(e, va), Intact(c, va),
           m'.slot[Pte(e, va)] = m.slot[Pte(e, va)], "W" \in m'.perm[e][va] => "W" \in m.perm[e][va],
           m'.slot[Pte(c, va)] = m.slot[Pte(c, va)], m'.perm[c][va] = m.perm[c][va],
           Behind(e, va) => Behind(e, va)'
    PROVE  Duplicated(e, c, va)'
<1> QED
  BY DEF Duplicated, Intact

\* The loop goes to page v, or past it: of the others it leaves what it found.
LEMMA TurnKeeps ==
    ASSUME SpaceInv, NEW e \in Envs, NEW c \in Envs, child[e] = c, pc[e] \in {"dup", "v0"},
           NEW v \in VAs, pnum[e] <= v, \A u \in Data : pnum[e] <= u /\ u < v => m.slot[Pte(e, u)] = NoPage,
           Kept, touched' = touched,
           \A u \in Data : /\ m'.slot[Pte(e, u)] = m.slot[Pte(e, u)] /\ m'.perm[e][u] = m.perm[e][u]
                           /\ u # v => m'.slot[Pte(c, u)] = m.slot[Pte(c, u)] /\ m'.perm[c][u] = m.perm[c][u],
           \/ pc'[e] \in {"dup_self", "v0_map"} /\ pnum'[e] = v
           \/ pc'[e] \in {"dup", "v0"} /\ pnum'[e] = v + 1,
           NEW va \in Data, va # v
    PROVE  Cell(e, c, va)'
<1>1. /\ Copying(e) /\ pc[e] \in Loops /\ VAs \subseteq Nat /\ va \in VAs /\ Types
  BY SpaceParts, Kinds, AddressFacts DEF Loops
<1>2. Cell(e, c, va) /\ pnum[e] \in Nat /\ va \in Nat /\ v \in Nat
  <2>1. pnum[e] \in Nat
    BY <1>1, Numbers
  <2>2. Cell(e, c, va)
    BY <1>1 DEF Copying
  <2> QED
    BY <1>1, <2>1, <2>2
<1>3. CASE v < va
  <2>1. Ahead(e, va) /\ Ahead(e, va)'
    BY <1>2, <1>3 DEF Ahead, AtPage
  <2> QED
    BY <1>2, <2>1 DEF Cell
<1>4. CASE va < v
  <2>1. /\ ~Ahead(e, va)' /\ va # pnum'[e] /\ Behind(e, va)'
    BY <1>2, <1>4 DEF Ahead, AtPage, Behind
  <2>2. Duplicated(e, c, va)'
    <3>1. CASE pnum[e] <= va
      <4>1. Ahead(e, va) /\ m.slot[Pte(e, va)] = NoPage
        BY <1>2, <1>4, <3>1 DEF Ahead, AtPage
      <4> QED
        BY <1>2, <1>4, <4>1 DEF Cell, Duplicated
    <3>2. CASE va < pnum[e]
      <4>1. ~Ahead(e, va) /\ va # pnum[e]
        BY <1>2, <3>2 DEF Ahead
      <4>2. Duplicated(e, c, va)
        BY <1>2, <4>1 DEF Cell
      <4>3. Intact(e, va) /\ Intact(c, va)
        BY <1>1, <1>4, KeptIntact
      <4> QED
        BY <1>4, <2>1, <4>2, <4>3, DuplicatedKept
    <3> QED
      BY <1>2, <3>1, <3>2
  <2> QED
    BY <2>1, <2>2 DEF Cell
<1> QED
  BY <1>2, <1>3, <1>4

\* No page is left: what is not mapped needs no copy.
LEMMA LoopDone ==
    ASSUME SpaceInv, NEW e \in Envs, NEW c \in Envs, child[e] = c, pc[e] \in {"dup", "v0"},
           NEW skipped, Left(e, skipped) = {}, skipped \cap Data = {},
           m' = m, touched' = touched, pnum'[e] = pnum[e], child'[e] = c,
           pc'[e] \in {"child_stack", "set_status"}
    PROVE  Copying(e)'
<1>1. /\ Copying(e) /\ pc[e] \in Loops /\ VAs \subseteq Nat /\ Data \subseteq VAs /\ Types /\ MemInv(m, NoPage, NoPage)
  BY SpaceParts, Kinds, AddressFacts DEF Loops
<1>2. Kept /\ pnum[e] \in Nat
  BY <1>1, SameKept, Numbers
<1>3. ASSUME NEW va \in Data
      PROVE  Secluded(m', c, va, e) /\ Cell(e, c, va)'
  <2>1. Secluded(m, c, va, e) /\ Cell(e, c, va) /\ pnum[e] \in Nat /\ va \in Nat
    BY <1>1, <1>2 DEF Copying
  <2>2. Duplicated(e, c, va)'
    <3>1. CASE pnum[e] <= va
      <4>1. Ahead(e, va)
        BY <2>1, <3>1 DEF Ahead, AtPage
      <4>2. m.slot[Pte(e, va)] = NoPage
        BY <1>1, <3>1, MappedIs DEF Left
      <4> QED
        BY <2>1, <4>1, <4>2 DEF Cell, Duplicated
    <3>2. CASE va < pnum[e]
      <4>1. ~Ahead(e, va) /\ va # pnum[e] /\ Behind(e, va)'
        BY <2>1, <3>2 DEF Ahead, Behind
      <4>2. Duplicated(e, c, va)
        BY <2>1, <4>1 DEF Cell
      <4>3. Intact(e, va) /\ Intact(c, va)
        BY <1>1, <1>2, KeptIntact
      <4> QED
        BY <4>1, <4>2, <4>3, DuplicatedKept
    <3> QED
      BY <2>1, <3>1, <3>2
  <2>3. ~AtPage(e)' /\ ~Ahead(e, va)'
    BY DEF AtPage, Ahead
  <2> QED
    BY <2>1, <2>2, <2>3 DEF Cell
<1> QED
  BY <1>3 DEF Copying

\* The page it goes to.
LEMMA TurnFacts ==
    ASSUME SpaceInv, NEW e \in Envs, pc[e] \in {"dup", "v0"}, faults[e] = <<>>,
           NEW skipped, skipped \cap Data = {}, Left(e, skipped) # {}, NEW v, v = First(Left(e, skipped))
    PROVE  /\ v \in VAs /\ pnum[e] <= v /\ m.slot[Pte(e, v)] # NoPage /\ v \in Lasting /\ v # UTEMP
           /\ \A u \in Data : pnum[e] <= u /\ u < v => m.slot[Pte(e, u)] = NoPage
<1>1. MemInv(m, NoPage, NoPage) /\ Types /\ Sharing /\ Data \subseteq VAs /\ VAs \subseteq Nat
  BY SpaceParts, AddressFacts
<1>2. v \in Left(e, skipped) /\ \A u \in Left(e, skipped) : v <= u
  BY FirstIn DEF Left
<1>3. v \in VAs /\ pnum[e] <= v /\ m.slot[Pte(e, v)] # NoPage
  BY <1>2 DEF Left, Mapped
<1>4. v \in Lasting /\ v # UTEMP
  BY <1>1, <1>3, LeftLasting, Kinds
<1>5. ASSUME NEW u \in Data, pnum[e] <= u, u < v
      PROVE  m.slot[Pte(e, u)] = NoPage
  <2>1. u \in VAs /\ u \in Nat /\ v \in Nat
    BY <1>1, <1>3
  <2>2. u \notin Left(e, skipped)
    BY <1>2, <1>5, <2>1
  <2> QED
    BY <1>1, <1>5, <2>1, <2>2, MappedIs DEF Left
<1> QED
  BY <1>3, <1>4, <1>5

LEMMA DupSpaces ==
    ASSUME SpaceInv, StackInv', NEW e \in Envs, Dup(e)
    PROVE  Spacing' /\ Spaces!Next
<1> DEFINE left == Left(e, {UXSTACK})
           v == First(left)
           private == m.perm[e][v] # {}
           perm == IF private THEN {"COW"} ELSE {}
           r == env_page_map(m, e, v, child[e], v, perm)
<1>0. PICK c \in Envs : c = child[e]
  BY ForkFacts, ForkLabels DEF Dup
<1>1. /\ At(e, "dup") /\ "dup" \in Loops /\ UNCHANGED <<child, faults, touched, kernel, env_status, env_ipc_recving>>
  BY ForkLabels DEF Dup, Same, Goto, ipcvars, envvars
<1>2. /\ MemInv(m, NoPage, NoPage) /\ Types /\ Running(e) /\ pc[e] = "dup" /\ faults[e] = <<>> /\ c # e
      /\ Sharing /\ Copying(e) /\ NoEnv \notin Envs /\ Data \subseteq VAs
      /\ VAs \subseteq Nat /\ pnum[e] \in Nat
  <2>1. /\ MemInv(m, NoPage, NoPage) /\ Types /\ Running(e) /\ pc[e] = "dup" /\ faults[e] = <<>> /\ c # e
        /\ Copying(e)
    BY <1>0, <1>1, ForkFacts
  <2>2. Sharing /\ NoEnv \notin Envs /\ Data \subseteq VAs /\ VAs \subseteq Nat
    BY SpaceParts, NoEnvAssumption, Kinds, AddressFacts
  <2> QED
    BY <2>1, <2>2, Numbers
<1>3. CASE left = {}
  <2>1. /\ m' = m /\ pc' = [pc EXCEPT ![e] = "child_stack"] /\ pnum' = [pnum EXCEPT ![e] = pnum[e]]
    BY <1>2, <1>3 DEF Dup, Goto, Types
  <2>2. Kept /\ Only(e, e)
    BY <2>1, SameKept
  <2>3. Copying(e)'
    <3>1. pc'[e] = "child_stack" /\ pnum'[e] = pnum[e] /\ {UXSTACK} \cap Data = {}
      BY <1>2, <2>1, Kinds DEF Types, Stacks
    <3> QED
      BY <1>0, <1>1, <1>2, <1>3, <2>1, <3>1, LoopDone
  <2> QED
    BY <1>1, <2>1, <2>2, <2>3, KeptLoopSpaces, ForkLabels
<1>4. CASE left # {}
  <2> DEFINE label == IF r.err THEN "panic" ELSE IF private THEN "dup_self" ELSE "dup"
             n == IF private THEN v ELSE v + 1
  <2>1. m' = r.m /\ pc' = [pc EXCEPT ![e] = label] /\ pnum' = [pnum EXCEPT ![e] = n]
    BY <1>4 DEF Dup, Result
  <2>2. /\ v \in VAs /\ pnum[e] <= v /\ m.slot[Pte(e, v)] # NoPage /\ v \in Lasting /\ v # UTEMP
        /\ \A u \in Data : pnum[e] <= u /\ u < v => m.slot[Pte(e, u)] = NoPage
    <3>1. {UXSTACK} \cap Data = {}
      BY Kinds DEF Stacks
    <3> HIDE DEF v
    <3>2. v = First(left)
      BY DEF v
    <3> QED
      BY <1>2, <1>4, <3>1, <3>2, TurnFacts
  <2>3. perm \in SUBSET Bits /\ "W" \notin perm
    BY DEF Bits
  <2>4. /\ r.err => SameTables(m, r.m)
        /\ ~r.err => Sets(m, r.m, c, v, m.slot[Pte(e, v)], perm)
    BY <1>0, <1>2, <2>2, <2>3, MapSets
  <2>5. KeepsData(m, r.m)
    BY <1>0, <1>2, <2>2, <2>3, MapKeeps
  <2>6. /\ r.err => label = "panic"
        /\ ~r.err => label \in {"dup", "dup_self"}
        /\ ~r.err /\ private => label = "dup_self" /\ n = v
        /\ ~r.err /\ ~private => label = "dup" /\ n = v + 1 /\ m.perm[e][v] = {}
    OBVIOUS
  <2>7. pc'[e] = label /\ pnum'[e] = n
    BY <1>2, <2>1 DEF Types
  <2> HIDE DEF r, n, label, v, perm, private
  <2>8. Kept
    BY <1>2, <2>1, <2>5, KeptPages
  <2>9. CASE r.err
    <3>1. SameTables(m, m') /\ Only(e, e) /\ label = "panic"
      BY <2>1, <2>4, <2>6, <2>9, SameOnly
    <3>2. \A va \in Data : m'.slot[Pte(e, va)] = m.slot[Pte(e, va)] /\ m'.perm[e][va] = m.perm[e][va]
      BY <1>2, <3>1, SlotFacts DEF SameTables
    <3> QED
      BY <1>1, <2>1, <2>8, <3>1, <3>2, KeptLoopSpaces
  <2>10. CASE ~r.err
    <3>1. Sets(m, m', c, v, m.slot[Pte(e, v)], perm)
      BY <2>1, <2>4, <2>10
    <3>2. Only(c, e)
      BY <2>2, <3>1, SetsOnly
    <3>3. \A va \in VAs : /\ m'.slot[Pte(e, va)] = m.slot[Pte(e, va)] /\ m'.perm[e][va] = m.perm[e][va]
                          /\ va # v => m'.slot[Pte(c, va)] = m.slot[Pte(c, va)] /\ m'.perm[c][va] = m.perm[c][va]
      BY <1>2, <3>1 DEF Sets
    <3>4. m'.slot[Pte(c, v)] = m.slot[Pte(e, v)] /\ m'.perm[c][v] = perm
      BY <3>1 DEF Sets
    <3>5. ASSUME NEW va \in Data
          PROVE  Secluded(m', c, va, e)
      <4>1. CASE va = v
        BY <2>3, <3>4, <4>1 DEF Secluded
      <4>2. CASE va # v
        <5>1. Secluded(m, c, va, e)
          BY <1>0, <1>2 DEF Copying, Loops
        <5>2. \A x \in Envs, w \in VAs :
                 \/ m'.slot[Pte(x, w)] = m.slot[Pte(x, w)]
                 \/ \E u \in VAs : m'.slot[Pte(x, w)] = m.slot[Pte(e, u)] /\ u # UTEMP
          BY <2>2, <2>3, <3>1 DEF Sets
        <5> QED
          BY <1>2, <3>3, <4>2, <5>1, <5>2, SecludedKeeps
      <4> QED
        BY <4>1, <4>2
    <3>6. ASSUME NEW va \in Data
          PROVE  Cell(e, c, va)'
      <4>1. CASE va = v
        <5>1. v \in Nat /\ m'.slot[Pte(c, v)] = m'.slot[Pte(e, v)]
          BY <1>2, <2>2, <3>3, <3>4
        <5>2. CASE private
          BY <2>6, <2>7, <2>10, <4>1, <5>1, <5>2 DEF Cell, Ahead, AtPage
        <5>3. CASE ~private
          <6>1. m'.perm[e][va] = {}
            BY <4>1, <2>2, <2>6, <2>10, <3>3, <5>3
          <6>2. pnum'[e] = va + 1
            BY <2>6, <2>7, <2>10, <4>1, <5>3
          <6>3. ~Ahead(e, va)' /\ va # pnum'[e]
            BY <4>1, <5>1, <6>2 DEF Ahead
          <6>4. Duplicated(e, c, va)'
            BY <4>1, <5>1, <6>1 DEF Duplicated
          <6> QED
            BY <6>3, <6>4 DEF Cell
        <5> QED
          BY <5>2, <5>3
      <4>2. CASE va # v
        <5>1. \/ pc'[e] \in {"dup_self", "v0_map"} /\ pnum'[e] = v
              \/ pc'[e] \in {"dup", "v0"} /\ pnum'[e] = v + 1
          BY <2>6, <2>7, <2>10
        <5>2. \A u \in Data : /\ m'.slot[Pte(e, u)] = m.slot[Pte(e, u)] /\ m'.perm[e][u] = m.perm[e][u]
                              /\ u # v => m'.slot[Pte(c, u)] = m.slot[Pte(c, u)] /\ m'.perm[c][u] = m.perm[c][u]
          BY <1>2, <3>3
        <5>3. child[e] = c /\ pc[e] \in {"dup", "v0"} /\ touched' = touched
          BY <1>0, <1>1, <1>2
        <5> QED
          BY <2>2, <2>8, <4>2, <5>1, <5>2, <5>3, TurnKeeps
      <4> QED
        BY <4>1, <4>2
    <3>7. Copying(e)'
      <4>1. child'[e] = c /\ pc'[e] # "v0_copy"
        BY <1>0, <1>1, <2>6, <2>7, <2>10
      <4> QED
        BY <3>5, <3>6, <4>1 DEF Copying
    <3>8. label \in Loops /\ label \notin {"v0_map", "v0_copy"}
      BY <2>6, <2>10 DEF Loops
    <3>9. \A va \in Data : m'.slot[Pte(e, va)] = m.slot[Pte(e, va)] /\ m'.perm[e][va] = m.perm[e][va]
      BY <1>2, <3>3
    <3> QED
      BY <1>0, <1>1, <2>1, <2>8, <3>2, <3>7, <3>8, <3>9, KeptLoopSpaces
  <2> QED
    BY <2>9, <2>10
<1> QED
  BY <1>3, <1>4

\* The fork works on the page it is at: the others stay as they are.
LEMMA PageKeeps ==
    ASSUME SpaceInv, NEW e \in Envs, NEW c \in Envs, child[e] = c, pc[e] \in OnPage, pnum[e] \in VAs,
           touched' = touched,
           \/ pc'[e] \in OnPage /\ pnum'[e] = pnum[e]
           \/ pc'[e] \in {"dup", "v0"} /\ pnum'[e] = pnum[e] + 1,
           NEW va \in Data, va # pnum[e], Intact(e, va), Intact(c, va),
           m'.slot[Pte(e, va)] = m.slot[Pte(e, va)], "W" \in m'.perm[e][va] => "W" \in m.perm[e][va],
           m'.slot[Pte(c, va)] = m.slot[Pte(c, va)], m'.perm[c][va] = m.perm[c][va]
    PROVE  Cell(e, c, va)'
<1>1. Copying(e) /\ pc[e] \in Loops /\ VAs \subseteq Nat /\ Data \subseteq VAs
  BY SpaceParts, ForkLabels, AddressFacts
<1>2. Cell(e, c, va) /\ pnum[e] \in Nat /\ va \in Nat
  BY <1>1 DEF Copying
<1>3. CASE pnum[e] < va
  <2>1. Ahead(e, va) /\ Ahead(e, va)'
    BY <1>2, <1>3 DEF Ahead, AtPage, OnPage
  <2> QED
    BY <1>2, <2>1 DEF Cell
<1>4. CASE va < pnum[e]
  <2>1. ~Ahead(e, va) /\ ~Ahead(e, va)' /\ va # pnum'[e] /\ Behind(e, va)'
    BY <1>2, <1>4 DEF Ahead, Behind
  <2>2. Duplicated(e, c, va)
    BY <1>2, <2>1 DEF Cell
  <2> QED
    BY <2>1, <2>2, DuplicatedKept DEF Cell
<1> QED
  BY <1>2, <1>3, <1>4

\* A call of fork failed.
LEMMA PanicSpaces ==
    ASSUME SpaceInv, StackInv', NEW e \in Envs, NEW label \in Loops, At(e, label),
           SameTables(m, m'), KeepsData(m, m'), pc' = [pc EXCEPT ![e] = "panic"],
           NEW n, pnum' = [pnum EXCEPT ![e] = n],
           UNCHANGED <<child, faults, touched, kernel, env_status, env_ipc_recving>>
    PROVE  Spacing' /\ Spaces!Next
<1>1. Kept /\ Only(e, e)
  BY SpaceParts, KeptPages, SameOnly
<1>2. \A va \in Data : m'.slot[Pte(e, va)] = m.slot[Pte(e, va)] /\ m'.perm[e][va] = m.perm[e][va]
  BY Kinds, SlotFacts DEF SameTables
<1> QED
  BY <1>1, <1>2, KeptLoopSpaces

LEMMA DupSelfSpaces ==
    ASSUME SpaceInv, StackInv', NEW e \in Envs, DupSelf(e)
    PROVE  Spacing' /\ Spaces!Next
<1> DEFINE r == env_page_map(m, e, pnum[e], e, pnum[e], {"COW"})
<1>0. PICK c \in Envs, v \in VAs : c = child[e] /\ v = pnum[e]
  BY ForkFacts, ForkLabels DEF DupSelf
<1>1. /\ At(e, "dup_self") /\ "dup_self" \in Loops /\ "dup_self" \in OnPage
      /\ UNCHANGED <<child, faults, touched, kernel, env_status, env_ipc_recving>>
      /\ m' = r.m /\ pc' = [pc EXCEPT ![e] = IF r.err THEN "panic" ELSE "dup"]
      /\ pnum' = [pnum EXCEPT ![e] = v + 1]
  BY <1>0, ForkLabels DEF DupSelf, Same, Result, ipcvars, envvars
<1>2. /\ MemInv(m, NoPage, NoPage) /\ Types /\ Running(e) /\ pc[e] = "dup_self" /\ c # e
      /\ Copying(e) /\ VAs \subseteq Nat /\ Data \subseteq VAs /\ {"COW"} \in SUBSET Bits
  BY <1>0, <1>1, ForkFacts, AddressFacts DEF Bits
<1>3. /\ r.err => SameTables(m, r.m)
      /\ ~r.err => Sets(m, r.m, e, v, m.slot[Pte(e, v)], {"COW"})
  BY <1>0, <1>2, MapSets
<1>4. KeepsData(m, r.m)
  BY <1>0, <1>2, MapKeeps
<1> HIDE DEF r
<1>5. CASE r.err
  BY <1>1, <1>3, <1>4, <1>5, PanicSpaces
<1>6. CASE ~r.err
  <2>1. Sets(m, m', e, v, m.slot[Pte(e, v)], {"COW"}) /\ pc' = [pc EXCEPT ![e] = "dup"]
    BY <1>1, <1>3, <1>6
  <2>2. Kept /\ Only(e, e)
    BY <1>1, <1>2, <1>4, <2>1, KeptPages, SetsOnly
  <2>3. /\ pc'[e] = "dup" /\ pnum'[e] = v + 1 /\ child'[e] = c
    BY <1>0, <1>1, <1>2, <2>1 DEF Types
  <2>4. \A x \in Envs, w \in VAs :
           /\ m'.slot[Pte(x, w)] = m.slot[Pte(x, w)]
           /\ <<x, w>> # <<e, v>> => m'.perm[x][w] = m.perm[x][w]
           /\ "W" \in m'.perm[x][w] => "W" \in m.perm[x][w]
    BY <2>1 DEF Sets
  <2>5. m'.perm[e][v] = {"COW"}
    BY <2>1 DEF Sets
  <2>6. ASSUME NEW va \in Data
        PROVE  Secluded(m', c, va, e) /\ Cell(e, c, va)'
    <3>1. Secluded(m, c, va, e) /\ Cell(e, c, va)
      BY <1>0, <1>1, <1>2 DEF Copying
    <3>2. Secluded(m', c, va, e)
      BY <1>2, <2>4, <3>1, SecludedKeeps
    <3>3. CASE va = v
      <4>1. m.slot[Pte(c, va)] = m.slot[Pte(e, va)]
        <5>1. ~Ahead(e, va) /\ AtPage(e)
          BY <1>0, <1>2, <3>3 DEF Ahead, AtPage
        <5> QED
          BY <1>0, <1>2, <3>1, <3>3, <5>1 DEF Cell
      <4>2. ~Ahead(e, va)' /\ va # pnum'[e]
        BY <1>2, <2>3, <3>3 DEF Ahead
      <4>3. Duplicated(e, c, va)'
        BY <1>2, <2>4, <2>5, <3>3, <4>1 DEF Duplicated
      <4> QED
        BY <3>2, <4>2, <4>3 DEF Cell
    <3>4. CASE va # v
      <4>1. Intact(e, va) /\ Intact(c, va)
        BY <1>2, <2>2, <2>4, KeptIntact
      <4>2. Cell(e, c, va)'
        BY <1>0, <1>1, <1>2, <2>3, <2>4, <3>4, <4>1, PageKeeps
      <4> QED
        BY <3>2, <4>2
    <3> QED
      BY <3>3, <3>4
  <2>7. Copying(e)'
    BY <2>3, <2>6 DEF Copying
  <2>8. \A va \in Data : m'.slot[Pte(e, va)] = m.slot[Pte(e, va)] /\ ("W" \in m'.perm[e][va] => "W" \in m.perm[e][va])
    BY <1>2, <2>4
  <2> QED
    BY <1>1, <2>1, <2>2, <2>7, <2>8, KeptLoopSpaces, ForkLabels
<1> QED
  BY <1>5, <1>6

\* The child's exception stack and its upcall.
LEMMA ChildStackSpaces ==
    ASSUME SpaceInv, StackInv', NEW e \in Envs, ChildStack(e) \/ ChildUpcall(e)
    PROVE  Spacing' /\ Spaces!Next
<1>0. PICK c \in Envs : c = child[e]
  BY ForkFacts, ForkLabels DEF ChildStack, ChildUpcall
<1>1. /\ {"child_stack", "child_upcall", "set_status"} \subseteq Loops
      /\ UNCHANGED <<child, faults, touched, kernel, env_status, env_ipc_recving>>
      /\ pnum' = pnum
  BY ForkLabels DEF ChildStack, ChildUpcall, Same, Goto, ipcvars, envvars
<1>2. PICK label \in {"child_stack", "child_upcall"} : At(e, label) /\ (ChildStack(e) <=> label = "child_stack")
  BY DEF ChildStack, ChildUpcall, At
<1>3. /\ MemInv(m, NoPage, NoPage) /\ Types /\ Running(e) /\ pc[e] = label /\ c # e
      /\ Copying(e) /\ Data \subseteq VAs /\ UXSTACK \in VAs \ Data /\ {"W"} \in SUBSET Bits /\ label \in Loops
  BY <1>0, <1>1, <1>2, ForkFacts, Kinds, AddressFacts DEF Bits, Stacks
<1>4. pnum' = [pnum EXCEPT ![e] = pnum[e]]
  BY <1>1, <1>3 DEF Types
<1>5. ASSUME NEW next \in {"child_upcall", "set_status"}, pc' = [pc EXCEPT ![e] = next],
             Kept, Only(c, e),
             \A x \in {e, c}, w \in Data : m'.slot[Pte(x, w)] = m.slot[Pte(x, w)] /\ m'.perm[x][w] = m.perm[x][w],
             \A x \in Envs, w \in VAs : \/ m'.slot[Pte(x, w)] = m.slot[Pte(x, w)]
                                        \/ \A s \in Slots : m.slot[s] # m'.slot[Pte(x, w)]
      PROVE  Spacing' /\ Spaces!Next
  <2>1. pc'[e] = next /\ pnum'[e] = pnum[e] /\ child'[e] = c
    BY <1>0, <1>1, <1>3, <1>5 DEF Types
  <2>2. ASSUME NEW va \in Data
        PROVE  Secluded(m', c, va, e) /\ Cell(e, c, va)'
    <3>1. Secluded(m, c, va, e) /\ Cell(e, c, va)
      BY <1>0, <1>3 DEF Copying
    <3>2. Secluded(m', c, va, e)
      BY <1>3, <1>5, <3>1, SecludedKeeps
    <3>3. ~AtPage(e) /\ ~AtPage(e)' /\ ~Ahead(e, va) /\ ~Ahead(e, va)' /\ (Behind(e, va) => Behind(e, va)')
      BY <1>3, <2>1 DEF AtPage, Ahead, Behind
    <3>4. Duplicated(e, c, va) /\ Intact(e, va) /\ Intact(c, va)
      BY <1>3, <1>5, <3>1, <3>3, KeptIntact DEF Cell
    <3>5. Duplicated(e, c, va)'
      BY <1>1, <1>5, <3>3, <3>4, DuplicatedKept
    <3> QED
      BY <3>2, <3>3, <3>5 DEF Cell
  <2>3. Copying(e)'
    BY <2>1, <2>2 DEF Copying
  <2>4. /\ c \in {e, child[e]} /\ e \in {e, child[e]} /\ next \in Loops \cup {"panic"}
        /\ next \notin {"v0_map", "v0_copy"}
        /\ \A w \in Data : m'.slot[Pte(e, w)] = m.slot[Pte(e, w)] /\ ("W" \in m'.perm[e][w] => "W" \in m.perm[e][w])
    BY <1>0, <1>1, <1>5
  <2> QED
    BY <1>1, <1>2, <1>3, <1>4, <1>5, <2>3, <2>4, KeptLoopSpaces
<1>6. CASE ChildUpcall(e)
  <2>1. m' = m /\ pc' = [pc EXCEPT ![e] = "set_status"]
    BY <1>6 DEF ChildUpcall, Goto
  <2>2. Kept /\ Only(c, e)
    BY <2>1, SameKept
  <2> QED
    BY <1>5, <2>1, <2>2
<1>7. CASE ChildStack(e)
  <2> DEFINE r == env_page_alloc(m, c, UXSTACK, {"W"})
  <2>1. m' = r.m /\ pc' = [pc EXCEPT ![e] = IF r.err THEN "panic" ELSE "child_upcall"]
    BY <1>0, <1>7 DEF ChildStack, Result
  <2>2. /\ r.err => SameTables(m, r.m)
        /\ ~r.err => \E p \in Pages : /\ \A s \in Slots : m.slot[s] # p
                                      /\ Sets(m, r.m, c, UXSTACK, p, {"W"})
    BY <1>3, AllocSets
  <2>3. KeepsData(m, r.m)
    BY <1>3, AllocKeeps
  <2> HIDE DEF r
  <2>4. CASE r.err
    BY <1>1, <1>2, <1>3, <1>4, <2>1, <2>2, <2>3, <2>4, PanicSpaces
  <2>5. CASE ~r.err
    <3>1. PICK p \in Pages : (\A s \in Slots : m.slot[s] # p) /\ Sets(m, m', c, UXSTACK, p, {"W"})
      BY <2>1, <2>2, <2>5
    <3>2. Kept /\ Only(c, e)
      BY <1>3, <2>1, <2>3, <3>1, KeptPages, SetsOnly
    <3>3. \A x \in {e, c}, w \in Data : m'.slot[Pte(x, w)] = m.slot[Pte(x, w)] /\ m'.perm[x][w] = m.perm[x][w]
      BY <1>3, <3>1 DEF Sets
    <3>4. \A x \in Envs, w \in VAs : \/ m'.slot[Pte(x, w)] = m.slot[Pte(x, w)]
                                     \/ \A s \in Slots : m.slot[s] # m'.slot[Pte(x, w)]
      BY <3>1 DEF Sets
    <3> QED
      BY <1>5, <2>1, <2>5, <3>2, <3>3, <3>4
  <2> QED
    BY <2>4, <2>5
<1> QED
  BY <1>6, <1>7

LEMMA V0PageSpaces ==
    ASSUME SpaceInv, StackInv', NEW e \in Envs, V0Page(e)
    PROVE  Spacing' /\ Spaces!Next
<1> DEFINE left == Left(e, {})
<1>a. PICK c \in Envs : c = child[e]
  BY ForkFacts, ForkLabels DEF V0Page
<1>b. PICK v : v = First(left)
  OBVIOUS
<1> DEFINE writable == "W" \in m.perm[e][v]
           r == IF writable THEN env_page_alloc(m, c, v, {"W"}) ELSE env_page_map(m, e, v, c, v, {})
           label == IF r.err THEN "panic" ELSE IF writable THEN "v0_map" ELSE "v0"
           n == IF writable THEN v ELSE v + 1
<1>1. /\ At(e, "v0") /\ "v0" \in Loops /\ UNCHANGED <<child, faults, touched, kernel, env_status, env_ipc_recving>>
  BY ForkLabels DEF V0Page, Same, Goto, ipcvars, envvars
<1>2. /\ MemInv(m, NoPage, NoPage) /\ Types /\ Running(e) /\ pc[e] = "v0" /\ faults[e] = <<>> /\ c # e
      /\ Copying(e) /\ Data \subseteq VAs /\ VAs \subseteq Nat /\ {"set_status", "v0", "v0_map"} \subseteq Loops
      /\ {} \in SUBSET Bits /\ {"W"} \in SUBSET Bits
  BY <1>a, <1>b, <1>1, ForkFacts, ForkLabels, AddressFacts DEF Bits
<1>3. CASE left = {}
  <2>1. /\ m' = m /\ pc' = [pc EXCEPT ![e] = "set_status"] /\ pnum' = [pnum EXCEPT ![e] = pnum[e]]
    BY <1>2, <1>3 DEF V0Page, Goto, Types
  <2>2. Kept /\ Only(e, e)
    BY <2>1, SameKept
  <2>3. Copying(e)'
    <3>1. pc'[e] = "set_status" /\ pnum'[e] = pnum[e]
      BY <1>2, <2>1 DEF Types
    <3> QED
      BY <1>a, <1>b, <1>1, <1>2, <1>3, <2>1, <3>1, LoopDone
  <2>4. \A va \in Data : m'.slot[Pte(e, va)] = m.slot[Pte(e, va)] /\ m'.perm[e][va] = m.perm[e][va]
    BY <2>1
  <2>5. "set_status" \in Loops \cup {"panic"} /\ e \in {e, child[e]}
    BY <1>2
  <2> QED
    BY <1>1, <2>1, <2>2, <2>3, <2>4, <2>5, KeptLoopSpaces
<1>4. CASE left # {}
  <2>1. m' = r.m /\ pc' = [pc EXCEPT ![e] = label] /\ pnum' = [pnum EXCEPT ![e] = n]
    BY <1>a, <1>b, <1>4 DEF V0Page, Result
  <2>2. /\ v \in VAs /\ pnum[e] <= v /\ m.slot[Pte(e, v)] # NoPage /\ v \in Lasting /\ v # UTEMP
        /\ \A u \in Data : pnum[e] <= u /\ u < v => m.slot[Pte(e, u)] = NoPage
    BY <1>a, <1>b, <1>2, <1>4, TurnFacts
  <2>3. /\ r.err => SameTables(m, r.m)
        /\ ~r.err /\ writable => \E p \in Pages : /\ \A s \in Slots : m.slot[s] # p
                                                  /\ Sets(m, r.m, c, v, p, {"W"})
        /\ ~r.err /\ ~writable => Sets(m, r.m, c, v, m.slot[Pte(e, v)], {})
    BY <1>2, <2>2, AllocSets, MapSets
  <2>4. KeepsData(m, r.m)
    BY <1>2, <2>2, AllocKeeps, MapKeeps
  <2>5. /\ r.err => label = "panic"
        /\ ~r.err /\ writable => label = "v0_map" /\ n = v
        /\ ~r.err /\ ~writable => label = "v0" /\ n = v + 1
    OBVIOUS
  <2>6. pc'[e] = label /\ pnum'[e] = n
    BY <1>2, <2>1 DEF Types
  <2> HIDE DEF r, n, label
  <2>7. CASE r.err
    BY <1>1, <2>1, <2>3, <2>4, <2>5, <2>7, PanicSpaces
  <2>8. CASE ~r.err
    <3>1. PICK p \in Pages, perm \in SUBSET Bits :
             /\ Sets(m, m', c, v, p, perm)
             /\ writable => perm = {"W"} /\ \A s \in Slots : m.slot[s] # p
             /\ ~writable => perm = {} /\ p = m.slot[Pte(e, v)]
      <4>1. CASE writable
        BY <1>2, <2>1, <2>3, <2>8, <4>1
      <4>2. CASE ~writable
        <5>1. m.slot[Pte(e, v)] \in Pages
          BY <1>2, <2>2, SlotFacts DEF MemInv, MemType
        <5> QED
          BY <1>2, <2>1, <2>3, <2>8, <4>2, <5>1
      <4> QED
        BY <4>1, <4>2
    <3>2. Kept /\ Only(c, e)
      <4>1. Kept
        BY <1>2, <2>1, <2>4, KeptPages
      <4>2. (\A s \in Slots : m.slot[s] # p) \/ \E u \in VAs : p = m.slot[Pte(e, u)]
        BY <2>2, <3>1
      <4>3. Only(c, e)
        BY <2>2, <3>1, <4>2, SetsOnly
      <4> QED
        BY <4>1, <4>3
    <3>3. \A va \in VAs : /\ m'.slot[Pte(e, va)] = m.slot[Pte(e, va)] /\ m'.perm[e][va] = m.perm[e][va]
                          /\ va # v => m'.slot[Pte(c, va)] = m.slot[Pte(c, va)] /\ m'.perm[c][va] = m.perm[c][va]
      BY <1>2, <3>1 DEF Sets
    <3>4. m'.slot[Pte(c, v)] = p /\ m'.perm[c][v] = perm
      BY <3>1 DEF Sets
    <3>5. \A x \in Envs, w \in VAs : <<x, w>> # <<c, v>> => m'.slot[Pte(x, w)] = m.slot[Pte(x, w)]
      BY <3>1 DEF Sets
    <3>6. ASSUME NEW va \in Data
          PROVE  Secluded(m', c, va, e)
      <4>1. CASE va = v
        <5>1. ASSUME writable
              PROVE  \A x \in Envs, w \in VAs : m.slot[Pte(x, w)] # p
          BY <3>1, <5>1, SlotFacts
        <5> QED
          BY <3>1, <3>4, <3>5, <4>1, <5>1 DEF Secluded, Common
      <4>2. CASE va # v
        <5>1. Secluded(m, c, va, e)
          BY <1>a, <1>b, <1>2 DEF Copying, Loops
        <5>2. \A x \in Envs, w \in VAs :
                 \/ m'.slot[Pte(x, w)] = m.slot[Pte(x, w)]
                 \/ \A s \in Slots : m.slot[s] # m'.slot[Pte(x, w)]
                 \/ \E u \in VAs : m'.slot[Pte(x, w)] = m.slot[Pte(e, u)] /\ u # UTEMP
          BY <2>2, <3>1, <3>4, <3>5
        <5> QED
          BY <1>2, <3>3, <4>2, <5>1, <5>2, SecludedKeeps
      <4> QED
        BY <4>1, <4>2
    <3>7. ASSUME NEW va \in Data
          PROVE  Cell(e, c, va)'
      <4>1. CASE va = v /\ writable
        <5>1. pc'[e] = "v0_map" /\ pnum'[e] = va /\ va \in Nat
          BY <1>2, <2>5, <2>6, <2>8, <4>1
        <5>2. m'.slot[Pte(c, va)] # NoPage /\ "W" \in m'.perm[c][va]
          BY <3>1, <3>4, <4>1, PagesAssumption
        <5> QED
          BY <5>1, <5>2 DEF Cell, Ahead, AtPage
      <4>2. CASE va = v /\ ~writable
        <5>1. pc'[e] = "v0" /\ pnum'[e] = va + 1 /\ va \in Nat
          BY <1>2, <2>5, <2>6, <2>8, <4>2
        <5>2. m'.slot[Pte(c, va)] = m'.slot[Pte(e, va)] /\ "W" \notin m'.perm[e][va]
          BY <1>2, <3>1, <3>3, <3>4, <4>2
        <5>3. ~Ahead(e, va)' /\ va # pnum'[e]
          BY <5>1 DEF Ahead
        <5>4. Duplicated(e, c, va)'
          BY <5>2 DEF Duplicated
        <5> QED
          BY <5>3, <5>4 DEF Cell
      <4>3. CASE va # v
        <5>1. \/ pc'[e] \in {"dup_self", "v0_map"} /\ pnum'[e] = v
              \/ pc'[e] \in {"dup", "v0"} /\ pnum'[e] = v + 1
          BY <2>5, <2>6, <2>8
        <5> QED
          BY <1>a, <1>b, <1>1, <1>2, <2>2, <3>2, <3>3, <4>3, <5>1, TurnKeeps
      <4> QED
        BY <4>1, <4>2, <4>3
    <3>8. Copying(e)'
      <4>1. child'[e] = c /\ pc'[e] # "v0_copy"
        BY <1>a, <1>b, <1>1, <2>5, <2>6, <2>8
      <4> QED
        BY <3>6, <3>7, <4>1 DEF Copying
    <3>9. /\ label \in Loops \cup {"panic"} /\ label # "v0_copy" /\ c \in {e, child[e]} /\ e \in {e, child[e]}
          /\ label = "v0_map" => m'.slot[Pte(e, n)] # NoPage
      BY <1>a, <1>b, <1>2, <2>2, <2>5, <2>8, <3>3
    <3>10. \A va \in Data : m'.slot[Pte(e, va)] = m.slot[Pte(e, va)] /\ m'.perm[e][va] = m.perm[e][va]
      BY <1>2, <3>3
    <3> QED
      BY <1>1, <2>1, <3>2, <3>8, <3>9, <3>10, KeptLoopSpaces
  <2> QED
    BY <2>7, <2>8
<1> QED
  BY <1>3, <1>4

\* fork_v0 maps the child's page at UTEMP.
LEMMA V0MapSpaces ==
    ASSUME SpaceInv, StackInv', NEW e \in Envs, V0Map(e)
    PROVE  Spacing' /\ Spaces!Next
<1>0. PICK c \in Envs, v \in VAs : c = child[e] /\ v = pnum[e]
  BY ForkFacts, ForkLabels DEF V0Map
<1> DEFINE r == env_page_map(m, c, v, e, UTEMP, {"W"})
<1>1. /\ At(e, "v0_map") /\ {"v0_map", "v0_copy"} \subseteq Loops /\ {"v0_map", "v0_copy"} \subseteq OnPage
      /\ UNCHANGED <<child, faults, touched, kernel, env_status, env_ipc_recving>>
      /\ m' = r.m /\ pc' = [pc EXCEPT ![e] = IF r.err THEN "panic" ELSE "v0_copy"] /\ pnum' = pnum
  BY <1>0, ForkLabels DEF V0Map, Same, Result, ipcvars, envvars
<1>2. /\ MemInv(m, NoPage, NoPage) /\ Types /\ Running(e) /\ pc[e] = "v0_map" /\ c # e
      /\ Copying(e) /\ VAs \subseteq Nat /\ Data \subseteq VAs /\ {"W"} \in SUBSET Bits
      /\ UTEMP \in VAs /\ UTEMP \notin Data
  BY <1>0, <1>1, ForkFacts, AddressFacts, Kinds DEF Bits
<1>3. v # UTEMP /\ m.slot[Pte(e, v)] # NoPage
  BY <1>0, <1>2, SpaceParts, Kinds DEF Places, Faulting
<1>4. /\ r.err => SameTables(m, r.m)
      /\ ~r.err => Sets(m, r.m, e, UTEMP, m.slot[Pte(c, v)], {"W"})
  BY <1>0, <1>2, MapSets
<1>5. KeepsData(m, r.m)
  BY <1>0, <1>2, MapKeeps
<1>6. pnum' = [pnum EXCEPT ![e] = v]
  BY <1>0, <1>1, <1>2 DEF Types
<1> HIDE DEF r
<1>7. CASE r.err
  BY <1>1, <1>4, <1>5, <1>6, <1>7, PanicSpaces
<1>8. CASE ~r.err
  <2>1. Sets(m, m', e, UTEMP, m.slot[Pte(c, v)], {"W"}) /\ pc' = [pc EXCEPT ![e] = "v0_copy"]
    BY <1>1, <1>4, <1>8
  <2>2. Kept /\ Only(e, c)
    BY <1>1, <1>2, <1>5, <2>1, KeptPages, SetsOnly
  <2>3. pc'[e] = "v0_copy" /\ pnum'[e] = v /\ child'[e] = c
    BY <1>0, <1>1, <1>2, <2>1 DEF Types
  <2>4. /\ \A x \in Envs, w \in VAs : <<x, w>> # <<e, UTEMP>> =>
              m'.slot[Pte(x, w)] = m.slot[Pte(x, w)] /\ m'.perm[x][w] = m.perm[x][w]
        /\ m'.slot[Pte(e, UTEMP)] = m.slot[Pte(c, v)]
    BY <2>1 DEF Sets
  <2>5. ASSUME NEW va \in Data
        PROVE  Secluded(m', c, va, e) /\ Cell(e, c, va)'
    <3>1. Secluded(m, c, va, e) /\ Cell(e, c, va)
      BY <1>0, <1>1, <1>2 DEF Copying
    <3>2. m'.slot[Pte(c, va)] = m.slot[Pte(c, va)] /\ m'.perm[c][va] = m.perm[c][va]
          /\ m'.slot[Pte(e, va)] = m.slot[Pte(e, va)] /\ m'.perm[e][va] = m.perm[e][va]
      BY <1>2, <2>4
    <3>3. \A x \in Envs, w \in VAs : m'.slot[Pte(x, w)] = m.slot[Pte(x, w)] \/ (x = e /\ w = UTEMP)
      BY <2>4
    <3>4. Secluded(m', c, va, e)
      BY <1>2, <3>1, <3>2, <3>3, SecludedKeeps
    <3>5. CASE va = v
      <4>1. ~Ahead(e, va) /\ AtPage(e) /\ ~Ahead(e, va)' /\ AtPage(e)'
        BY <1>0, <1>2, <2>3, <3>5 DEF Ahead, AtPage
      <4>2. m.slot[Pte(c, va)] # NoPage /\ "W" \in m.perm[c][va]
        BY <1>0, <1>2, <3>1, <3>5, <4>1 DEF Cell
      <4> QED
        BY <2>3, <3>2, <3>4, <3>5, <4>1, <4>2 DEF Cell
    <3>6. CASE va # v
      <4>1. Intact(e, va) /\ Intact(c, va)
        BY <1>2, <2>2, <3>2, KeptIntact
      <4>2. Cell(e, c, va)'
        BY <1>0, <1>1, <1>2, <2>3, <3>2, <3>6, <4>1, PageKeeps
      <4> QED
        BY <3>4, <4>2
    <3> QED
      BY <3>5, <3>6
  <2>6. m'.slot[Pte(e, UTEMP)] = m'.slot[Pte(c, v)] /\ m'.slot[Pte(e, v)] # NoPage
    BY <1>0, <1>2, <1>3, <2>4
  <2>7. Copying(e)'
    BY <2>3, <2>5, <2>6 DEF Copying
  <2>8. /\ "v0_map" \in Loops /\ "v0_copy" \in Loops \cup {"panic"} /\ e \in {e, child[e]} /\ c \in {e, child[e]}
        /\ UNCHANGED <<child, faults, touched, kernel, env_status, env_ipc_recving>>
        /\ \A va \in Data : m'.slot[Pte(e, va)] = m.slot[Pte(e, va)] /\ m'.perm[e][va] = m.perm[e][va]
    BY <1>0, <1>1, <1>2, <2>4
  <2>9. At(e, "v0_map") /\ pc' = [pc EXCEPT ![e] = "v0_copy"]
    BY <1>1, <2>1
  <2> QED
    BY <1>6, <2>2, <2>6, <2>7, <2>8, <2>9, KeptLoopSpaces
<1> QED
  BY <1>7, <1>8

\* ... and removes it from there.
LEMMA V0UnmapSpaces ==
    ASSUME SpaceInv, StackInv', NEW e \in Envs, V0Unmap(e)
    PROVE  Spacing' /\ Spaces!Next
<1>0. PICK c \in Envs, v \in VAs : c = child[e] /\ v = pnum[e]
  BY ForkFacts, ForkLabels DEF V0Unmap
<1>1. /\ At(e, "v0_unmap") /\ "v0_unmap" \in Loops /\ "v0_unmap" \in OnPage /\ "v0" \in Loops \cup {"panic"}
      /\ UNCHANGED <<child, faults, touched, kernel, env_status, env_ipc_recving>>
      /\ m' = page_remove(m, e, UTEMP) /\ pc' = [pc EXCEPT ![e] = "v0"] /\ pnum' = [pnum EXCEPT ![e] = v + 1]
  BY <1>0, ForkLabels DEF V0Unmap, Same, ipcvars, envvars
<1>2. /\ MemInv(m, NoPage, NoPage) /\ Types /\ Running(e) /\ pc[e] = "v0_unmap" /\ c # e
      /\ Copying(e) /\ VAs \subseteq Nat /\ Data \subseteq VAs
      /\ UTEMP \in VAs /\ UTEMP \notin Data
  BY <1>0, <1>1, ForkFacts, AddressFacts, Kinds
<1>3. /\ KeepsData(m, m') /\ Fewer(m, m') /\ Apart(m, m', e) /\ m'.slot[Pte(e, UTEMP)] = NoPage
      /\ \A x \in Envs, w \in VAs : <<x, w>> # <<e, UTEMP>> =>
            m'.slot[Pte(x, w)] = m.slot[Pte(x, w)] /\ m'.perm[x][w] = m.perm[x][w]
  BY <1>1, <1>2, RemoveKeeps, RemoveFewer, RemoveApart
<1>4. Kept /\ Only(e, e)
  BY <1>2, <1>3, KeptPages, FewerOnly
<1>5. pc'[e] = "v0" /\ pnum'[e] = v + 1 /\ child'[e] = c
  BY <1>0, <1>1, <1>2 DEF Types
<1>6. ASSUME NEW va \in Data
      PROVE  Secluded(m', c, va, e) /\ Cell(e, c, va)'
  <2>1. Secluded(m, c, va, e) /\ Cell(e, c, va)
    BY <1>0, <1>1, <1>2 DEF Copying
  <2>2. /\ m'.slot[Pte(c, va)] = m.slot[Pte(c, va)] /\ m'.perm[c][va] = m.perm[c][va]
        /\ m'.slot[Pte(e, va)] = m.slot[Pte(e, va)] /\ m'.perm[e][va] = m.perm[e][va]
    BY <1>2, <1>3
  <2>3. \A x \in Envs, w \in VAs : m'.slot[Pte(x, w)] = m.slot[Pte(x, w)] \/ (x = e /\ w = UTEMP)
    BY <1>3
  <2>4. Secluded(m', c, va, e)
    BY <1>2, <2>1, <2>2, <2>3, SecludedKeeps
  <2>5. Intact(e, va) /\ Intact(c, va)
    BY <1>2, <1>4, <2>2, KeptIntact
  <2>6. CASE va = v
    <3>1. ~Ahead(e, va) /\ ~Ahead(e, va)' /\ va # pnum'[e] /\ Behind(e, va)'
      BY <1>0, <1>2, <1>5, <2>6 DEF Ahead, Behind
    <3>2. Duplicated(e, c, va)
      BY <1>2, <2>1, <3>1 DEF Cell
    <3>3. Duplicated(e, c, va)'
      BY <1>1, <2>2, <2>5, <3>1, <3>2, DuplicatedKept
    <3> QED
      BY <2>4, <3>1, <3>3 DEF Cell
  <2>7. CASE va # v
    <3>1. Cell(e, c, va)'
      BY <1>0, <1>1, <1>2, <1>5, <2>2, <2>5, <2>7, PageKeeps
    <3> QED
      BY <2>4, <3>1
  <2> QED
    BY <2>6, <2>7
<1>7. Copying(e)'
  BY <1>5, <1>6 DEF Copying
<1>8. \A va \in Data : /\ m'.slot[Pte(e, va)] = m.slot[Pte(e, va)]
                       /\ "W" \in m'.perm[e][va] => "W" \in m.perm[e][va]
  BY <1>2, <1>3
<1>9. "v0" \in {"v0_map", "v0_copy"} => m'.slot[Pte(e, v + 1)] # NoPage
  OBVIOUS
<1>10. "v0" # "panic" => Copying(e)'
  BY <1>7
<1> QED
  BY <1>1, <1>4, <1>8, <1>9, <1>10, KeptLoopSpaces

\* The page at UTEMP is at no other address of a program but the child's.
LEMMA V0CopySpaces ==
    ASSUME SpaceInv, StackInv', NEW e \in Envs, V0Copy(e)
    PROVE  Spacing' /\ Spaces!Next
<1>0. PICK c \in Envs, v \in VAs : c = child[e] /\ v = pnum[e]
  BY ForkFacts, ForkLabels DEF V0Copy
<1>1. /\ At(e, "v0_copy") /\ "v0_copy" \in Loops /\ "v0_unmap" \in Loops \cup {"panic"}
      /\ {"v0_copy", "v0_unmap"} \subseteq OnPage
  BY ForkLabels DEF V0Copy
<1>2. /\ MemInv(m, NoPage, NoPage) /\ m \in MemType /\ Types /\ Running(e) /\ pc[e] = "v0_copy" /\ c # e
      /\ Fresh(c) /\ child[c] = NoEnv /\ faults[c] = <<>> /\ Clear(e, e) /\ Clear(e, c)
      /\ Copying(e) /\ VAs \subseteq Nat /\ Data \subseteq VAs /\ SameKind(m)
  BY <1>0, <1>1, ForkFacts, AddressFacts, SpaceParts DEF MemInv
<1>3. /\ PFTEMP \in VAs /\ PFTEMP # UTEMP /\ UTEMP \in VAs /\ UTEMP \notin Data /\ PFTEMP \notin Data
      /\ v \in Lasting /\ PFTEMP \notin Lasting /\ UTEMP \notin Lasting /\ Data \subseteq Lasting
      /\ m.slot[Pte(e, v)] # NoPage
  BY <1>0, <1>2, SpaceParts, Kinds DEF Places, Faulting
<1> DEFINE p == m.slot[Pte(e, v)]
           q == m.slot[Pte(c, v)]
<1>4. m.slot[Pte(e, UTEMP)] = q
  BY <1>0, <1>1, <1>2 DEF Copying
<1>5. /\ m' = [m EXCEPT !.data[q] = m.data[p]] /\ pc' = [pc EXCEPT ![e] = "v0_unmap"] /\ pnum' = [pnum EXCEPT ![e] = v]
      /\ UNCHANGED <<child, faults, touched, kernel, env_status, env_ipc_recving>>
  <2>1. Mapped(m, e, v)
    BY <1>2, <1>3, MappedIs
  <2>2. m' = CopyPage(m, e, v, UTEMP) /\ Goto(e, "v0_unmap") /\ Same
    BY <1>0, <2>1 DEF V0Copy
  <2> QED
    BY <1>0, <1>2, <1>4, <2>2 DEF CopyPage, PageAt, Goto, Same, ipcvars, envvars, Types
<1>6. m'.slot = m.slot /\ m'.perm = m.perm /\ m'.data = [m.data EXCEPT ![q] = m.data[p]] /\ m.data \in [Pages -> Vals]
  BY <1>2, <1>5 DEF MemType
<1>7. pc'[e] = "v0_unmap" /\ pnum'[e] = v /\ child'[e] = c
  BY <1>0, <1>2, <1>5 DEF Types
<1>8. v \in Data => q # NoPage /\ "W" \in m.perm[c][v] /\ Secluded(m, c, v, e)
  <2> SUFFICES ASSUME v \in Data
               PROVE  q # NoPage /\ "W" \in m.perm[c][v] /\ Secluded(m, c, v, e)
    OBVIOUS
  <2>1. Cell(e, c, v) /\ Secluded(m, c, v, e)
    BY <1>0, <1>1, <1>2 DEF Copying
  <2>2. ~Ahead(e, v) /\ AtPage(e)
    BY <1>0, <1>2 DEF Ahead, AtPage
  <2> QED
    BY <1>0, <1>2, <2>1, <2>2 DEF Cell
<1>9. ASSUME NEW x \in Envs, NEW w \in Data, m.slot[Pte(x, w)] = q, q # NoPage
      PROVE  x = c /\ w = v
  <2>1. Common(m, c, v, x, w) /\ w \in VAs
    BY <1>2, <1>9 DEF Common
  <2>2. CASE v \in Data
    BY <1>3, <1>8, <2>1, <2>2 DEF Secluded
  <2>3. CASE v \notin Data
    BY <1>2, <1>3, <2>1, <2>3 DEF SameKind
  <2> QED
    BY <2>2, <2>3
<1>10. ASSUME NEW x \in Envs, m.slot[Pte(x, PFTEMP)] = q, q # NoPage, faults[x] # <<>>, Top(x).at = "map"
       PROVE  FALSE
  <2>1. Temporary(x) /\ Common(m, x, PFTEMP, c, v)
    BY <1>10, SpaceParts DEF Own, Common
  <2> QED
    BY <1>3, <1>10, <2>1 DEF Temporary
<1>11. ASSUME NEW x \in Envs, NEW w \in VAs, m.slot[Pte(x, w)] # NoPage, m.slot[Pte(x, w)] # q
       PROVE  m'.data[m.slot[Pte(x, w)]] = m.data[m.slot[Pte(x, w)]]
  BY <1>2, <1>6, <1>11, SlotFacts DEF MemType
<1> HIDE DEF p, q
<1>12. ASSUME NEW g \in Envs \ {e}
       PROVE  Steadfast(g)
  <2> SUFFICES ASSUME NEW w \in Data, Copied(g, w), <<g, w>> \notin touched'
               PROVE  /\ m.slot[Pte(g, w)] # NoPage => m'.data[m.slot[Pte(g, w)]] = m.data[m.slot[Pte(g, w)]]
                      /\ child[g] \in Envs /\ pc[g] \in Loops /\ m.slot[Pte(child[g], w)] # NoPage
                           => m'.data[m.slot[Pte(child[g], w)]] = m.data[m.slot[Pte(child[g], w)]]
                      /\ m.slot[Pte(g, PFTEMP)] # NoPage /\ faults[g] # <<>> /\ Top(g).at = "map"
                           => m'.data[m.slot[Pte(g, PFTEMP)]] = m.data[m.slot[Pte(g, PFTEMP)]]
    BY <1>5 DEF Steadfast
  <2>1. g # c /\ child[g] # c
    <3>1. ~Copied(c, w)
      BY <1>2 DEF Copied
    <3> QED
      BY <1>2, <3>1 DEF Clear
  <2> QED
    BY <1>2, <1>3, <1>9, <1>10, <1>11, <2>1
<1>13. Preserves
  BY <1>2, <1>9, <1>11 DEF Preserves, Intact
<1>14. ASSUME NEW va \in Data
       PROVE  Secluded(m', c, va, e) /\ Cell(e, c, va)'
  <2>1. Secluded(m, c, va, e)
    BY <1>0, <1>1, <1>2 DEF Copying
  <2>2. Secluded(m', c, va, e)
    BY <1>2, <1>6, <2>1, SecludedKeeps
  <2>3. CASE va = v
    <3>1. ~Ahead(e, va)' /\ Behind(e, va)'
      BY <1>2, <1>7, <2>3 DEF Ahead, Behind
    <3>2. q # NoPage /\ q \in Pages /\ p # NoPage /\ "W" \in m.perm[c][va]
      BY <1>2, <1>3, <1>8, <2>3, SlotFacts DEF MemType, p, q
    <3>3. m'.data[p] = m'.data[q]
      BY <1>6, <3>2
    <3>4. Duplicated(e, c, va)'
      BY <1>6, <2>3, <3>1, <3>2, <3>3 DEF Duplicated, p, q
    <3> QED
      BY <1>7, <2>2, <3>1, <3>4 DEF Cell
  <2>4. CASE va # v
    <3>1. Intact(e, va) /\ Intact(c, va)
      BY <1>2, <1>9, <1>11, <2>4 DEF Intact
    <3>2. Cell(e, c, va)'
      BY <1>0, <1>1, <1>2, <1>5, <1>6, <1>7, <2>4, <3>1, PageKeeps
    <3> QED
      BY <2>2, <3>2
  <2> QED
    BY <2>3, <2>4
<1>15. Copying(e)'
  BY <1>7, <1>14 DEF Copying
<1>16. Only(e, e) /\ e \in {e, child[e]}
  BY <1>6, SameOnly DEF SameTables
<1>17. /\ At(e, "v0_copy") /\ "v0_copy" \in Loops /\ "v0_unmap" \in Loops \cup {"panic"}
       /\ pc' = [pc EXCEPT ![e] = "v0_unmap"] /\ pnum' = [pnum EXCEPT ![e] = v]
  BY <1>1, <1>5
<1>18. UNCHANGED <<child, faults, touched, kernel, env_status, env_ipc_recving>>
  BY <1>5
<1>19. OthersSteady(e, e) /\ NoGain(e)
  BY <1>6, <1>12 DEF OthersSteady, NoGain
<1> QED
  BY <1>13, <1>15, <1>16, <1>17, <1>18, <1>19, LoopSpaces

\* The child begins: it sees what its parent sees.
LEMMA SetStatusSpaces ==
    ASSUME SpaceInv, StackInv', NEW e \in Envs, SetStatus(e)
    PROVE  Spacing' /\ Spaces!Next
<1>0. PICK c \in Envs : c = child[e]
  BY ForkFacts, ForkLabels DEF SetStatus
<1>1. /\ At(e, "set_status") /\ "set_status" \in Loops
      /\ m' = m /\ env_status' = [env_status EXCEPT ![c] = "RUNNABLE"]
      /\ pc' = [pc EXCEPT ![e] = "user"] /\ child' = [child EXCEPT ![e] = NoEnv]
      /\ pnum' = [pnum EXCEPT ![e] = 0] /\ touched' = {t \in touched : t[1] # e}
      /\ UNCHANGED <<kernel, env_ipc_recving, faults>>
  BY <1>0, ForkLabels DEF SetStatus
<1>2. /\ MemInv(m, NoPage, NoPage) /\ MemInv(m', NoPage, NoPage) /\ Types /\ Running(e) /\ pc[e] = "set_status"
      /\ faults[e] = <<>> /\ kernel = "running" /\ c # e /\ Fresh(c) /\ child[c] = NoEnv /\ faults[c] = <<>>
      /\ pc[c] = "user" /\ env_status[e] = "RUNNABLE" /\ ~Fresh(e) /\ Started(e)
      /\ Clear(e, c) /\ Clear(e, e) /\ Copying(e)
      /\ NoEnv \notin Envs /\ WaitingSleeps /\ WaitingSleeps'
  BY <1>0, <1>1, ForkFacts, SpaceParts, NoEnvAssumption DEF StackInv, IInv
<1>3. \A va \in Data : <<c, va>> \notin touched
  BY <1>0, <1>1, ForkFacts
<1>4. /\ pc'[e] = "user" /\ child'[e] = NoEnv
      /\ env_status'[c] = "RUNNABLE" /\ \A g \in Envs \ {c} : env_status'[g] = env_status[g]
      /\ \A g \in Envs \ {e} : Unmoved(g)
  BY <1>1, <1>2 DEF Unmoved, Types
<1>5. \A g \in Envs, va \in Data : <<g, va>> \in touched' <=> <<g, va>> \in touched /\ g # e
  BY <1>1
<1>6. Only(c, e)
  BY <1>1, SameKept
<1>7. Spacing'
  <2>1. Idle(e)' /\ Idle(c)'
    BY <1>2, <1>4 DEF Idle, Fresh
  <2>2. Faulting(e)' /\ Handling(e)' /\ Copying(e)'
    BY <1>1, <1>2, <1>4, Bare
  <2>3. Faulting(c)' /\ Handling(c)' /\ Copying(c)'
    BY <1>1, <1>2, <1>4, Bare DEF Unmoved
  <2>4. ASSUME NEW g \in Envs \ {e, c}
        PROVE  /\ Unmoved(g) /\ Steadfast(g)
               /\ env_status'[g] = env_status[g] /\ env_ipc_recving'[g] = env_ipc_recving[g]
               /\ Fresh(g) => \A va \in Data : <<g, va>> \in touched' => <<g, va>> \in touched
    BY <1>1, <1>4, <1>5 DEF Steadfast
  <2> QED
    BY <1>1, <1>2, <1>6, <2>1, <2>2, <2>3, <2>4, SpacingKept
<1>8. \A g \in Envs : Started(g)' <=> Started(g) \/ g = c
  BY <1>1, <1>2, <1>4 DEF Started
<1>9. ~Started(c)
  BY <1>2, StartedIs
<1>10. Spaces!OthersKept({})
  <2>1. Seen({})
    BY <1>1 DEF Seen, Holds
  <2> QED
    BY <1>2, <1>8, <2>1, SeenKept
<1>11. ASSUME NEW va \in Data
       PROVE  Duplicated(e, c, va) /\ Secluded(m, c, va, e) /\ va # UTEMP
  <2>1. Secluded(m, c, va, e) /\ Cell(e, c, va)
    BY <1>0, <1>1, <1>2 DEF Copying
  <2>2. ~Ahead(e, va) /\ ~AtPage(e)
    BY <1>2 DEF Ahead, AtPage
  <2> QED
    BY <2>1, <2>2, Kinds DEF Cell
<1>12. \A va \in Data : <<e, va>> \in SharedCells \/ Space'[c][va] = Space[e][va]
  <2> SUFFICES ASSUME NEW va \in Data, <<e, va>> \notin SharedCells
               PROVE  Space'[c][va] = Space[e][va]
    OBVIOUS
  <2>1. ~Shared(e, va)
    BY <1>2, MappingIs DEF SharedCells
  <2>2. <<e, va>> \notin touched
    BY <1>2, <2>1 DEF Shared
  <2>3. Holds(c, va)' = Holds(e, va)
    BY <1>1, <1>11, <2>2 DEF Duplicated, Holds
  <2>4. Space[e][va] = Content(e, va) /\ Space'[c][va] = Content(c, va)'
    BY <1>2, <1>8 DEF Space
  <2> QED
    BY <1>2, <2>3, <2>4, MappingIs, MappingWillBe
<1>13. ASSUME NEW g \in Envs, NEW va \in Data, Shared(g, va)'
       PROVE  Shared(g, va) \/ (g = c /\ Shared(e, va))
  <2>1. CASE <<g, va>> \in touched'
    BY <1>3, <1>5, <1>8, <1>13, <2>1 DEF Shared
  <2>2. CASE \E f \in Envs, w \in Data : Link(g, va, f, w)'
    <3>1. PICK f \in Envs, w \in Data : /\ Started(f)' /\ <<f, w>> # <<g, va>>
                                        /\ Common(m, g, va, f, w) /\ "W" \in m.perm[f][w]
      BY <1>1, <2>2 DEF Link, Common
    <3>2. ASSUME f = c
          PROVE  FALSE
      <4>1. Common(m, c, w, g, va) /\ "W" \in m.perm[c][w]
        BY <3>1, <3>2 DEF Common
      <4>2. va \in VAs /\ va # UTEMP
        BY <1>11, Kinds
      <4> QED
        BY <1>11, <3>1, <3>2, <4>1, <4>2 DEF Secluded
    <3>3. Started(f)
      BY <1>8, <3>1, <3>2
    <3>4. CASE g # c
      BY <1>8, <1>13, <3>1, <3>3, <3>4 DEF Shared, Link
    <3>5. CASE g = c
      <4>1. ASSUME "W" \in m.perm[c][va]
            PROVE  FALSE
        <5>1. w \in VAs /\ w # UTEMP
          BY <1>11, Kinds
        <5> QED
          BY <1>11, <3>1, <3>2, <3>5, <4>1, <5>1 DEF Secluded
      <4>2. m.slot[Pte(e, va)] = m.slot[Pte(c, va)] /\ "W" \notin m.perm[e][va]
        BY <1>11, <3>1, <3>5, <4>1 DEF Duplicated, Common
      <4>3. Link(e, va, f, w)
        BY <3>1, <3>3, <3>5, <4>2 DEF Link, Common
      <4> QED
        BY <1>2, <3>5, <4>3 DEF Shared
    <3> QED
      BY <3>4, <3>5
  <2> QED
    BY <1>13, <2>1, <2>2 DEF Shared
<1>14. SharedCells' \subseteq SharedCells \cup {<<c, a>> : a \in {b \in Data : <<e, b>> \in SharedCells}}
  <2> SUFFICES ASSUME NEW g \in Envs, NEW va \in Data, SharedCell(g, va)'
               PROVE  SharedCell(g, va) \/ (g = c /\ SharedCell(e, va))
    BY DEF SharedCells
  <2>1. Shared(g, va)'
    BY <1>2, MappingWillBe
  <2> QED
    BY <1>2, <1>13, <2>1, MappingIs
<1>15. Began' = Began \cup {c} /\ InFault' = InFault /\ e \in Began /\ c \notin Began
  BY <1>1, <1>2, <1>8, <1>9 DEF Began, InFault
<1>16. Spaces!Fork(e, c)
  BY <1>1, <1>10, <1>12, <1>14, <1>15 DEF Spaces!Fork, Up, Began, InFault, SharedCells, Space
<1> QED
  BY <1>7, <1>16 DEF Spaces!Next

LEMMA ForkSpaces ==
    ASSUME SpaceInv, StackInv', NEW e \in Envs, ForkStep(e)
    PROVE  Spacing' /\ Spaces!Next
BY BeginningSpaces, SysExoforkSpaces, DupSpaces, DupSelfSpaces, ChildStackSpaces, SetStatusSpaces,
   V0PageSpaces, V0MapSpaces, V0CopySpaces, V0UnmapSpaces DEF ForkStep
-----------------------------------------------------------------------------
(***************************************************************************)
(* pgfault.                                                                *)
(***************************************************************************)

\* A step of the handler changes only the entries of the environment it runs
\* in, and none that shows.
LEMMA HandlerSpaces ==
    ASSUME SpaceInv, StackInv', NEW e \in Envs, Running(e), UNCHANGED <<kernel, env_status, env_ipc_recving>>,
           \A g \in Envs \ {e} : Unmoved(g), Only(e, e), touched' \subseteq touched,
           OthersSteady(e, e), Preserves, NoGain(e), Faulting(e)', Handling(e)', Copying(e)'
    PROVE  Spacing' /\ Spaces!Next
<1>1. Clear(e, e) /\ kernel = "running" /\ ~Fresh(e) /\ env_status[e] = "RUNNABLE"
  BY ActorFacts
<1>2. Idle(e)' /\ (Fresh(e)' <=> Fresh(e))
  BY <1>1 DEF Idle, Fresh
<1>3. \A g \in Envs \ {e, e} :
         /\ Unmoved(g) /\ Steadfast(g)
         /\ env_status'[g] = env_status[g] /\ env_ipc_recving'[g] = env_ipc_recving[g]
  BY DEF OthersSteady
<1>4. \A g \in {e, e} : Idle(g)' /\ Faulting(g)' /\ Handling(g)' /\ Copying(g)' /\ (Fresh(g)' <=> Fresh(g))
  BY <1>2
<1>5. ~Fresh(e) => \A va \in Data : /\ m'.slot[Pte(e, va)] = m.slot[Pte(e, va)]
                                    /\ "W" \in m'.perm[e][va] => "W" \in m.perm[e][va]
  BY DEF NoGain
<1>6. kernel' \in {"running", "panic"}
  BY <1>1
<1> QED
  BY <1>1, <1>3, <1>4, <1>5, <1>6, FaultSpaces DEF Spaces!Next

LEMMA KeptHandlerSpaces ==
    ASSUME SpaceInv, StackInv', NEW e \in Envs, Running(e), UNCHANGED <<kernel, env_status, env_ipc_recving>>,
           \A g \in Envs \ {e} : Unmoved(g), Only(e, e), touched' \subseteq touched, TouchedKept(e),
           Kept, NoGain(e), Faulting(e)', Handling(e)', Copying(e)'
    PROVE  Spacing' /\ Spaces!Next
<1>1. Clear(e, e) /\ Data \subseteq VAs
  BY ActorFacts, Kinds
<1>2. OthersSteady(e, e)
  BY <1>1, OthersSteadfast DEF OthersSteady, TouchedKept
<1>3. ASSUME NEW g \in Envs, NEW va \in Data
      PROVE  Intact(g, va)
  <2>1. m'.slot[Pte(g, va)] = m.slot[Pte(g, va)] /\ va \in VAs
    BY <1>1 DEF NoGain, Only, Still
  <2> QED
    BY <2>1, KeptIntact
<1>4. Preserves
  BY <1>3 DEF Preserves
<1> QED
  BY <1>2, <1>4, HandlerSpaces

\* What Step leaves alone.
LEMMA StepAside ==
    ASSUME IInv, NEW e \in Envs, NEW now, InHandler(e, now),
           NEW r, r.err \in BOOLEAN, NEW label \in {"copy", "map", "unmap", "return"}, Step(e, r, label)
    PROVE  /\ UNCHANGED <<kernel, env_status, env_ipc_recving, child, pnum>>
           /\ touched' \subseteq touched /\ TouchedKept(e)
           /\ label # "unmap" \/ Top(e).va \notin Data => touched' = touched
           /\ \A g \in Envs \ {e} : Unmoved(g)
           /\ ~r.err => Top(e)'.va = Top(e).va
<1>1. Types /\ faults[e] \in Seq(Frame) /\ Len(faults[e]) \in 1..Len(faults[e])
  BY HandlerFacts
<1>2. UNCHANGED <<kernel, env_status, env_ipc_recving, child, pnum>>
  BY DEF Step, envvars, Goto, progvars
<1>3. touched' = IF label = "unmap" THEN touched \ {<<e, Top(e).va>>} ELSE touched
  BY DEF Step
<1>4. touched' \subseteq touched /\ TouchedKept(e) /\ (label # "unmap" \/ Top(e).va \notin Data => touched' = touched)
  BY <1>1, <1>3 DEF TouchedKept, Types
<1>5. \A g \in Envs \ {e} : Unmoved(g)
  BY <1>1, <1>2, StepFacts DEF Unmoved, Types
<1>6. ~r.err => Top(e)'.va = Top(e).va
  BY <1>1, StepFacts DEF Top
<1> QED
  BY <1>2, <1>4, <1>5, <1>6

\* Without memory the program panics in the handler.
LEMMA StepPanicSpaces ==
    ASSUME SpaceInv, StackInv', NEW e \in Envs, NEW now, InHandler(e, now),
           NEW r, r.err = TRUE, NEW label \in {"copy", "map", "unmap", "return"}, Step(e, r, label),
           SameTables(m, m'), Kept
    PROVE  Spacing' /\ Spaces!Next
<1>1. IInv /\ Types /\ Running(e) /\ Faulting(e) /\ Data \subseteq VAs /\ r.err \in BOOLEAN
  BY SpaceParts, HandlerStart, Kinds
<1>2. pc' = [pc EXCEPT ![e] = "panic"] /\ faults' = faults
  BY <1>1, StepFacts
<1>3. /\ UNCHANGED <<kernel, env_status, env_ipc_recving, child, pnum>> /\ touched' \subseteq touched /\ TouchedKept(e)
      /\ \A g \in Envs \ {e} : Unmoved(g)
  BY <1>1, StepAside
<1>4. pc'[e] = "panic"
  BY <1>1, <1>2 DEF Types
<1>5. Faulting(e)' /\ Handling(e)' /\ Copying(e)'
  BY <1>1, <1>2, <1>3, <1>4 DEF Faulting, Handling, Copying, Loops
<1>6. Only(e, e) /\ NoGain(e)
  BY <1>1, SameOnly, SlotFacts DEF SameTables, NoGain
<1> QED
  BY <1>1, <1>3, <1>5, <1>6, KeptHandlerSpaces

\* Only the entry of e at v changes: it is empty, or has a new page, or the one
\* of PFTEMP
Changes(e, v) ==
    /\ Only(e, e) /\ Kept
    /\ \A f \in Envs, w \in VAs : <<f, w>> # <<e, v>> =>
          m'.slot[Pte(f, w)] = m.slot[Pte(f, w)] /\ m'.perm[f][w] = m.perm[f][w]
    /\ \/ m'.slot[Pte(e, v)] \in {NoPage, m.slot[Pte(e, PFTEMP)]}
       \/ \A s \in Slots : m.slot[s] # m'.slot[Pte(e, v)]
    /\ v \in Stacks => m'.slot[Pte(e, v)] # NoPage

\* A step that changes the entry at v, which is no page of the program's data.
LEMMA StepKeptSpaces ==
    ASSUME SpaceInv, StackInv', NEW e \in Envs, NEW now, InHandler(e, now),
           NEW r, r.err = FALSE, NEW label \in {"copy", "unmap", "return"}, Step(e, r, label),
           NEW v \in Stacks \cup {PFTEMP}, Changes(e, v),
           now # "map" \/ v \in Stacks, label # "unmap" \/ Top(e).va \notin Data
    PROVE  Spacing' /\ Spaces!Next
<1>0. /\ Only(e, e) /\ Kept
      /\ \A f \in Envs, w \in VAs : <<f, w>> # <<e, v>> =>
            m'.slot[Pte(f, w)] = m.slot[Pte(f, w)] /\ m'.perm[f][w] = m.perm[f][w]
      /\ \/ m'.slot[Pte(e, v)] \in {NoPage, m.slot[Pte(e, PFTEMP)]}
         \/ \A s \in Slots : m.slot[s] # m'.slot[Pte(e, v)]
      /\ v \in Stacks => m'.slot[Pte(e, v)] # NoPage
  BY DEF Changes
<1>1. /\ IInv /\ Types /\ Running(e) /\ Faulting(e) /\ Copying(e) /\ Places(e) /\ ForkOwnsChild /\ Top(e).at = now
      /\ faults[e] # <<>> /\ r.err \in BOOLEAN
  BY SpaceParts, HandlerStart
<1>2. /\ Lasting \subseteq VAs /\ Data \subseteq Lasting /\ Data \cap Stacks = {} /\ PFTEMP \notin Lasting
      /\ PFTEMP \in VAs /\ UTEMP \in VAs /\ UTEMP \notin Lasting /\ PFTEMP # UTEMP /\ Stacks \subseteq Lasting
  BY Kinds
<1>3. /\ UNCHANGED <<kernel, env_status, env_ipc_recving, child, pnum>>
      /\ touched' = touched /\ TouchedKept(e) /\ \A g \in Envs \ {e} : Unmoved(g)
  BY <1>1, StepAside
<1>4. /\ pc' = pc /\ faults'[e] # <<>> /\ Len(faults'[e]) = Len(faults[e]) /\ Top(e)'.at = label
      /\ \A i \in 1..Len(faults[e]) : faults'[e][i].va = faults[e][i].va
  BY <1>1, StepFacts
<1>5. v \notin Data /\ v # UTEMP
  BY <1>2
<1>6. \A w \in Data : m'.slot[Pte(e, w)] = m.slot[Pte(e, w)] /\ m'.perm[e][w] = m.perm[e][w]
  BY <1>0, <1>2, <1>5
<1>7. NoGain(e) /\ Handling(e)'
  BY <1>4, <1>6 DEF NoGain, Handling
<1>8. Faulting(e)'
  <2>1. pc[e] \in {"v0_map", "v0_copy"} => m'.slot[Pte(e, pnum[e])] # NoPage
    <3> SUFFICES ASSUME pc[e] \in {"v0_map", "v0_copy"}
                 PROVE  m'.slot[Pte(e, pnum[e])] # NoPage
      OBVIOUS
    <3>1. pnum[e] \in Lasting /\ m.slot[Pte(e, pnum[e])] # NoPage
      BY <1>1 DEF Places, Faulting
    <3>2. CASE pnum[e] = v
      BY <1>0, <1>2, <3>1, <3>2
    <3>3. CASE pnum[e] # v
      BY <1>0, <1>2, <3>1, <3>3
    <3> QED
      BY <3>2, <3>3
  <2> QED
    BY <1>1, <1>3, <1>4, <2>1 DEF Faulting
<1>9. Copying(e)'
  <2> SUFFICES ASSUME NEW c \in Envs, c = child[e], pc[e] \in Loops
               PROVE  Copying(e)'
    BY <1>3, <1>4 DEF Copying
  <2>1. c # e /\ Still(c) /\ m'.slot[Pte(e, UTEMP)] = m.slot[Pte(e, UTEMP)]
    <3>1. c # e
      BY <1>1, RunningFacts
    <3> QED
      BY <1>0, <1>2, <1>5, <3>1 DEF Only, Still
  <2>2. SecludedKept(c)
    <3> SUFFICES ASSUME NEW va \in Data, NEW x \in Envs, NEW w \in VAs, "W" \in m.perm[c][va], Common(m', c, va, x, w)
                 PROVE  Common(m, c, va, x, w)
      BY DEF SecludedKept
    <3>1. Secluded(m, c, va, e) /\ va \in VAs /\ Pte(c, va) \in Slots
      BY <1>1, <1>2, SlotFacts DEF Copying
    <3>2. m'.slot[Pte(c, va)] = m.slot[Pte(c, va)] /\ m.slot[Pte(c, va)] # NoPage
          /\ m'.slot[Pte(x, w)] = m.slot[Pte(c, va)]
      BY <2>1, <3>1 DEF Still, Common
    <3>3. m.slot[Pte(c, va)] # m.slot[Pte(e, PFTEMP)]
      BY <1>2, <2>1, <3>1, <3>2 DEF Secluded, Common
    <3>4. ~(x = e /\ w = v)
      BY <1>0, <3>1, <3>2, <3>3
    <3> QED
      BY <1>0, <3>2, <3>4 DEF Common
  <2>3. Steadfast(e)
    <3>1. ASSUME NEW f \in Envs, NEW w \in VAs, ~(f = e /\ w = v)
          PROVE  Intact(f, w)
      BY <1>0, <3>1, KeptIntact
    <3>2. now # "map" \/ v # PFTEMP
      BY <1>2
    <3> QED
      BY <1>1, <1>2, <1>3, <1>5, <2>1, <3>1, <3>2 DEF Steadfast, Intact
  <2>4. child'[e] = child[e] /\ pc'[e] = pc[e] /\ pnum'[e] = pnum[e]
    BY <1>3, <1>4
  <2> QED
    BY <1>6, <2>1, <2>2, <2>3, <2>4, CopyingKept
<1> QED
  BY <1>0, <1>1, <1>3, <1>7, <1>8, <1>9, KeptHandlerSpaces

LEMMA HandlerAllocSpaces ==
    ASSUME SpaceInv, StackInv', NEW e \in Envs, HandlerAlloc(e)
    PROVE  Spacing' /\ Spaces!Next
<1> DEFINE r == env_page_alloc(m, e, PFTEMP, {"W"})
<1>1. InHandler(e, "alloc") /\ Step(e, r, "copy")
  BY DEF HandlerAlloc
<1>2. /\ MemInv(m, NoPage, NoPage) /\ PFTEMP \in VAs /\ PFTEMP \notin Lasting /\ Stacks \subseteq Lasting
      /\ {"W"} \in SUBSET Bits
  BY SpaceParts, Kinds DEF Bits
<1>3. m' = r.m /\ r.err \in BOOLEAN
  <2>1. r.err \in BOOLEAN
    BY <1>2, PageAllocInv DEF Settled
  <2> HIDE DEF r
  <2> QED
    BY <1>1, <2>1 DEF Step
<1>4. Kept
  BY <1>2, <1>3, AllocKeeps, KeptPages
<1>5. /\ r.err => SameTables(m, r.m)
      /\ ~r.err => \E p \in Pages : /\ \A s \in Slots : m.slot[s] # p
                                    /\ Sets(m, r.m, e, PFTEMP, p, {"W"})
  BY <1>2, AllocSets
<1> HIDE DEF r
<1>6. CASE r.err
  <2>1. r.err = TRUE /\ SameTables(m, m')
    BY <1>3, <1>5, <1>6
  <2> QED
    BY <1>1, <1>4, <2>1, StepPanicSpaces
<1>7. CASE ~r.err
  <2>1. PICK p \in Pages : (\A s \in Slots : m.slot[s] # p) /\ Sets(m, m', e, PFTEMP, p, {"W"})
    BY <1>3, <1>5, <1>7
  <2>2. Only(e, e)
    BY <1>2, <2>1, SetsOnly
  <2>3. r.err = FALSE /\ PFTEMP \in Stacks \cup {PFTEMP} /\ "copy" \in {"copy", "unmap", "return"}
    BY <1>3, <1>7
  <2>4. Changes(e, PFTEMP)
    BY <1>2, <1>4, <2>1, <2>2 DEF Sets, Changes
  <2>5. ("alloc" # "map" \/ PFTEMP \in Stacks) /\ ("copy" # "unmap" \/ Top(e).va \notin Data)
    OBVIOUS
  <2> QED
    BY <1>1, <2>3, <2>4, <2>5, StepKeptSpaces
<1> QED
  BY <1>3, <1>6, <1>7

LEMMA HandlerUnmapSpaces ==
    ASSUME SpaceInv, StackInv', NEW e \in Envs, HandlerUnmap(e)
    PROVE  Spacing' /\ Spaces!Next
<1> DEFINE nn == page_remove(m, e, PFTEMP)
           r == Ok(nn)
<1>1. InHandler(e, "unmap") /\ Step(e, r, "return")
  BY DEF HandlerUnmap
<1>2. /\ MemInv(m, NoPage, NoPage) /\ PFTEMP \in VAs /\ PFTEMP \notin Lasting /\ Stacks \subseteq Lasting
  BY SpaceParts, Kinds
<1>3. /\ KeepsData(m, nn) /\ Fewer(m, nn) /\ Apart(m, nn, e) /\ nn.slot[Pte(e, PFTEMP)] = NoPage
      /\ \A f \in Envs, w \in VAs : <<f, w>> # <<e, PFTEMP>> =>
            nn.slot[Pte(f, w)] = m.slot[Pte(f, w)] /\ nn.perm[f][w] = m.perm[f][w]
  BY <1>2, RemoveKeeps, RemoveFewer, RemoveApart
<1> HIDE DEF nn
<1>4. r.err = FALSE /\ r.m = nn
  BY DEF Ok
<1> HIDE DEF r
<1>5. m' = nn
  BY <1>1, <1>4 DEF Step
<1>6. Kept /\ Only(e, e)
  BY <1>2, <1>3, <1>5, KeptPages, FewerOnly
<1>7. PFTEMP \in Stacks \cup {PFTEMP} /\ "return" \in {"copy", "unmap", "return"}
  OBVIOUS
<1>8. Changes(e, PFTEMP)
  BY <1>2, <1>3, <1>5, <1>6 DEF Changes
<1>9. ("unmap" # "map" \/ PFTEMP \in Stacks) /\ ("return" # "unmap" \/ Top(e).va \notin Data)
  OBVIOUS
<1> QED
  BY <1>1, <1>4, <1>7, <1>8, <1>9, StepKeptSpaces

\* pgfault fills a page that nobody else has.
LEMMA HandlerCopySpaces ==
    ASSUME SpaceInv, StackInv', NEW e \in Envs, HandlerCopy(e)
    PROVE  Spacing' /\ Spaces!Next
<1>0. PICK va \in VAs : va = Top(e).va
  BY SpaceParts, HandlerStart DEF HandlerCopy
<1>1. InHandler(e, "copy") /\ "copy" # "map"
  BY DEF HandlerCopy
<1>2. /\ IInv /\ MemInv(m, NoPage, NoPage) /\ Types /\ Running(e) /\ Own(e) /\ Top(e).at = "copy" /\ faults[e] # <<>>
      /\ Faulting(e) /\ Copying(e) /\ m \in MemType /\ va \in Lasting
      /\ Clear(e, e) /\ faults[e] \in Seq(Frame) /\ Len(faults[e]) \in 1..Len(faults[e])
  BY <1>0, <1>1, SpaceParts, HandlerStart, HandlerFacts, ActorFacts DEF MemInv
<1>3. child[e] \in Envs => va = STACK
  BY <1>0, <1>2 DEF Faulting, Top
<1>4. CASE ~Mapped(m, e, va)
  BY <1>0, <1>2, <1>3, <1>4, PageFaultSpaces DEF HandlerCopy
<1>5. CASE Mapped(m, e, va)
  <2> DEFINE p == m.slot[Pte(e, va)]
             t == m.slot[Pte(e, PFTEMP)]
             r == Ok(CopyPage(m, e, va, PFTEMP))
  <2>0. /\ Lasting \subseteq VAs /\ Data \subseteq Lasting /\ PFTEMP \notin Lasting /\ PFTEMP \in VAs
    BY Kinds
  <2>1. Step(e, r, "map")
    BY <1>0, <1>5 DEF HandlerCopy
  <2>2. r.err = FALSE /\ r.m = [m EXCEPT !.data[t] = m.data[p]] /\ r.err \in BOOLEAN
    BY DEF Ok, CopyPage, PageAt
  <2>3. p \in Pages /\ p # NoPage /\ t \in Pages \cup {NoPage}
    BY <1>2, <1>5, <2>0, SlotFacts, MappedIs DEF MemType
  <2> HIDE DEF r, p, t
  <2>4. /\ m' = r.m /\ pc' = pc /\ faults'[e] # <<>> /\ Len(faults'[e]) = Len(faults[e]) /\ Top(e)'.at = "map"
        /\ \A i \in 1..Len(faults[e]) : faults'[e][i].va = faults[e][i].va
    BY <1>1, <1>2, <2>1, <2>2, StepFacts
  <2>5. /\ UNCHANGED <<kernel, env_status, env_ipc_recving, child, pnum>> /\ touched' = touched
        /\ Top(e)'.va = va /\ \A g \in Envs \ {e} : Unmoved(g)
    BY <1>0, <1>1, <1>2, <2>1, <2>2, StepAside
  <2>6. /\ m'.slot = m.slot /\ m'.perm = m.perm /\ m'.data = [m.data EXCEPT ![t] = m.data[p]]
        /\ m.data \in [Pages -> Vals]
    BY <1>2, <2>2, <2>4 DEF MemType
  <2>7. ASSUME NEW g \in Envs, NEW w \in VAs, ~(g = e /\ w = PFTEMP)
        PROVE  Intact(g, w)
    <3> SUFFICES ASSUME m.slot[Pte(g, w)] # NoPage
                 PROVE  m'.data[m.slot[Pte(g, w)]] = m.data[m.slot[Pte(g, w)]]
      BY DEF Intact
    <3>1. m.slot[Pte(g, w)] \in Pages
      BY <1>2, SlotFacts DEF MemType
    <3>2. m.slot[Pte(g, w)] # t
      BY <1>2, <2>0, <2>7 DEF Own, Temporary, Common, t
    <3> QED
      BY <2>6, <3>1, <3>2
  <2>8. Preserves
    BY <2>0, <2>7 DEF Preserves
  <2>9. ASSUME NEW g \in Envs
        PROVE  Steadfast(g)
    <3> SUFFICES ASSUME NEW w \in Data, <<g, w>> \notin touched'
                 PROVE  /\ Intact(g, w)
                        /\ child[g] \in Envs => Intact(child[g], w)
                        /\ Top(g).at = "map" => Intact(g, PFTEMP)
      BY <2>5 DEF Steadfast, Intact
    <3>1. w \in VAs /\ w # PFTEMP
      BY <2>0
    <3> QED
      BY <1>2, <2>0, <2>7, <3>1
  <2>10. Handling(e)'
    <3> SUFFICES ASSUME va \in Data, t # NoPage
                 PROVE  m'.data[t] = m'.data[p]
      BY <2>3, <2>5, <2>6 DEF Handling, p, t
    <3>1. Intact(e, va)
      BY <2>0, <2>7
    <3> QED
      BY <2>3, <2>6, <3>1 DEF Intact, p
  <2>11. Faulting(e)'
    BY <1>2, <2>4, <2>5, <2>6 DEF Faulting
  <2>12. Copying(e)'
    <3>1. child[e] \in Envs => Still(child[e]) /\ SecludedKept(child[e])
      BY <2>6 DEF Still, SecludedKept, Common
    <3> QED
      BY <2>4, <2>5, <2>6, <2>9, <3>1, CopyingKept
  <2>13. OthersSteady(e, e) /\ NoGain(e) /\ Only(e, e)
    BY <2>6, <2>9, SameOnly DEF OthersSteady, NoGain, SameTables
  <2> QED
    BY <1>2, <2>5, <2>8, <2>10, <2>11, <2>12, <2>13, HandlerSpaces
<1> QED
  BY <1>4, <1>5

\* The handler returns, or the stack it returns to faults first.
LEMMA HandlerReturnSpaces ==
    ASSUME SpaceInv, StackInv', NEW e \in Envs, HandlerReturn(e)
    PROVE  Spacing' /\ Spaces!Next
<1>1. InHandler(e, "return")
  BY DEF HandlerReturn
<1>2. /\ IInv /\ Types /\ Running(e) /\ Own(e) /\ Top(e).at = "return" /\ faults[e] # <<>> /\ Faulting(e) /\ Copying(e)
      /\ faults[e] \in Seq(Frame) /\ Len(faults[e]) \in Nat /\ Len(faults[e]) \in 1..Len(faults[e])
  BY <1>1, SpaceParts, HandlerStart, HandlerFacts
<1>3. CASE PageFault(e, STACK)
  BY <1>2, <1>3, PageFaultSpaces, Kinds DEF Stacks
<1>4. CASE ~PageFault(e, STACK)
  <2> DEFINE n == Len(faults[e]) - 1
             fs == SubSeq(faults[e], 1, n)
  <2>1. faults' = [faults EXCEPT ![e] = fs] /\ UNCHANGED <<m, touched, env_status, env_ipc_recving, kernel, pc, child, pnum>>
    BY <1>4 DEF HandlerReturn, progvars, ipcvars, envvars
  <2>2. Len(fs) \in 0..n /\ \A i \in 1..Len(fs) : fs[i] = faults[e][i] /\ i \in 1..Len(faults[e])
    BY <1>2
  <2> HIDE DEF fs
  <2>3. faults'[e] = fs /\ \A g \in Envs \ {e} : Unmoved(g)
    BY <1>2, <2>1 DEF Types, Unmoved
  <2>4. Faulting(e)'
    BY <1>2, <2>1, <2>2, <2>3 DEF Faulting
  <2>5. Handling(e)'
    BY <1>2, <2>1 DEF Own, Temporary, Handling
  <2>6. Kept /\ Only(e, e) /\ \A g \in Envs : Still(g) /\ SecludedKept(g) /\ Steadfast(g)
    BY <2>1, SameKept, SameSteadfast
  <2>7. /\ \A w \in Data : m'.slot[Pte(e, w)] = m.slot[Pte(e, w)] /\ m'.perm[e][w] = m.perm[e][w]
        /\ m'.slot[Pte(e, UTEMP)] = m.slot[Pte(e, UTEMP)]
    BY <2>1
  <2>8. Copying(e)' /\ NoGain(e)
    BY <2>1, <2>6, <2>7, CopyingKept DEF NoGain
  <2>9. touched' \subseteq touched /\ TouchedKept(e)
    BY <2>1 DEF TouchedKept
  <2> QED
    BY <1>2, <2>1, <2>3, <2>4, <2>5, <2>6, <2>8, <2>9, KeptHandlerSpaces
<1> QED
  BY <1>3, <1>4

\* The copy takes the place of the page: the cell holds what it held, and is
\* shared with nobody.
LEMMA CopyMapped ==
    ASSUME SpaceInv, StackInv', NEW e \in Envs, NEW r, r.err = FALSE, InHandler(e, "map"), Step(e, r, "unmap"),
           NEW va \in Data, Top(e).va = va, NEW p, p = m.slot[Pte(e, PFTEMP)], p # NoPage,
           Sets(m, m', e, va, p, {"W"}), Only(e, e), Kept
    PROVE  Spacing' /\ Spaces!Next
<1>1. /\ IInv /\ Types /\ Running(e) /\ Faulting(e) /\ Handling(e) /\ Own(e) /\ ForkOwnsChild /\ Top(e).at = "map"
      /\ faults[e] # <<>> /\ r.err \in BOOLEAN /\ MemInv(m, NoPage, NoPage) /\ MemInv(m', NoPage, NoPage)
      /\ Len(faults[e]) \in 1..Len(faults[e])
  BY SpaceParts, HandlerStart, HandlerFacts DEF StackInv, IInv
<1>2. /\ Clear(e, e) /\ kernel = "running" /\ Up /\ ~Fresh(e) /\ Started(e) /\ env_status[e] = "RUNNABLE" /\ pc[e] # "panic"
  BY <1>1, ActorFacts
<1>3. /\ UNCHANGED <<kernel, env_status, env_ipc_recving, child, pnum>>
      /\ touched' \subseteq touched /\ TouchedKept(e) /\ \A g \in Envs \ {e} : Unmoved(g)
  BY <1>1, StepAside
<1>4. pc' = pc /\ faults'[e] # <<>> /\ Top(e)'.at = "unmap"
  BY <1>1, StepFacts
<1>5. Data \subseteq VAs /\ STACK \notin Data /\ PFTEMP \notin Data /\ PFTEMP \in VAs
  BY Kinds DEF Stacks
<1>6. child[e] \notin Envs
  BY <1>1, <1>5 DEF Faulting, Top
<1>7. pc[e] \notin {"v0_map", "v0_copy"}
  BY <1>1, <1>6 DEF ForkOwnsChild, Loops
<1>8. Idle(e)' /\ Faulting(e)' /\ Handling(e)' /\ Copying(e)'
  BY <1>2, <1>3, <1>4, <1>6, <1>7 DEF Idle, Fresh, Faulting, Handling, Copying
<1>9. \A g \in Envs \ {e} : Steadfast(g)
  BY <1>2, <1>3, OthersSteadfast DEF TouchedKept
<1>10. Spacing'
  <2>1. \A g \in Envs \ {e, e} :
           /\ Unmoved(g) /\ Steadfast(g)
           /\ env_status'[g] = env_status[g] /\ env_ipc_recving'[g] = env_ipc_recving[g]
           /\ Fresh(g) => \A w \in Data : <<g, w>> \in touched' => <<g, w>> \in touched
    BY <1>3, <1>9
  <2>2. \A g \in {e, e} : Idle(g)' /\ Faulting(g)' /\ Handling(g)' /\ Copying(g)'
    BY <1>8
  <2>3. kernel' \in {"running", "panic"}
    BY <1>2, <1>3
  <2> QED
    BY <1>2, <2>1, <2>2, <2>3, SpacingKept
<1>11. \A g \in Envs : Started(g)' <=> Started(g)
  BY <1>3 DEF Started
<1>12. ASSUME NEW g \in Envs, NEW w \in VAs, <<g, w>> # <<e, va>>
       PROVE  m'.slot[Pte(g, w)] = m.slot[Pte(g, w)] /\ m'.perm[g][w] = m.perm[g][w] /\ Intact(g, w)
  BY <1>12, KeptIntact DEF Sets
<1>13. m'.slot[Pte(e, va)] = p /\ m'.data[p] = m.data[p]
  BY <1>5 DEF Sets, Kept
<1>14. ASSUME NEW g \in Envs, NEW w \in Data, m.slot[Pte(g, w)] = p
       PROVE  FALSE
  BY <1>1, <1>5, <1>14 DEF Own, Temporary, Common
<1>15. ASSUME NEW g \in Envs, NEW w \in Data, Started(g), ~Shared(g, w)
       PROVE  Holds(g, w)' = Holds(g, w)
  <2>1. CASE <<g, w>> = <<e, va>>
    <3>1. <<e, va>> \notin touched
      BY <1>2, <1>15, <2>1 DEF Shared
    <3>2. m.slot[Pte(e, va)] # NoPage /\ m.data[p] = m.data[m.slot[Pte(e, va)]]
      BY <1>1, <1>2, <3>1 DEF Handling
    <3> QED
      BY <1>13, <2>1, <3>2 DEF Holds
  <2>2. CASE <<g, w>> # <<e, va>>
    BY <1>5, <1>12, <2>2 DEF Holds, Intact
  <2> QED
    BY <2>1, <2>2
<1>16. Spaces!OthersKept({})
  <2>1. Seen({})
    BY <1>15 DEF Seen
  <2> QED
    BY <1>1, <1>11, <2>1, SeenKept
<1>17. SharedCells' \subseteq SharedCells
  <2>1. ASSUME NEW g \in Envs, NEW w \in Data, NEW f \in Envs, NEW z \in Data, Link(g, w, f, z)'
        PROVE  Link(g, w, f, z)
    <3>1. Started(f) /\ <<f, z>> # <<g, w>> /\ m'.slot[Pte(g, w)] # NoPage
          /\ m'.slot[Pte(g, w)] = m'.slot[Pte(f, z)] /\ "W" \in m'.perm[f][z]
      BY <1>11, <2>1 DEF Link, Common
    <3>2. CASE <<g, w>> = <<e, va>>
      <4>1. m.slot[Pte(f, z)] = p
        BY <1>5, <1>12, <1>13, <3>1, <3>2
      <4> QED
        BY <1>14, <4>1
    <3>3. CASE <<f, z>> = <<e, va>>
      <4>1. m.slot[Pte(g, w)] = p
        BY <1>5, <1>12, <1>13, <3>1, <3>3
      <4> QED
        BY <1>14, <4>1
    <3>4. CASE <<g, w>> # <<e, va>> /\ <<f, z>> # <<e, va>>
      <4>1. /\ m'.slot[Pte(g, w)] = m.slot[Pte(g, w)] /\ m'.slot[Pte(f, z)] = m.slot[Pte(f, z)]
            /\ m'.perm[f][z] = m.perm[f][z]
        BY <1>5, <1>12, <3>4
      <4> QED
        BY <3>1, <4>1 DEF Link, Common
    <3> QED
      BY <3>2, <3>3, <3>4
  <2>2. NoMore({})
    <3> SUFFICES ASSUME NEW g \in Envs, NEW w \in Data, Shared(g, w)'
                 PROVE  Shared(g, w)
      BY DEF NoMore
    <3>1. /\ Started(g)
          /\ <<g, w>> \in touched' \/ \E f \in Envs, z \in Data : Link(g, w, f, z)'
      BY <1>11 DEF Shared
    <3> QED
      BY <1>3, <2>1, <3>1 DEF Shared
  <2> QED
    BY <1>1, <2>2, NoMoreShared
<1>18. Began' = Began
  BY <1>11 DEF Began
<1>19. InFault' \subseteq Began
  <2> SUFFICES ASSUME NEW g \in Envs, faults'[g] # <<>>
               PROVE  Started(g)
    BY DEF InFault, Began
  <2>1. env_status'[g] = "RUNNABLE"
    BY <1>10 DEF Spacing, Idle
  <2> QED
    BY <1>2, <1>3, <2>1 DEF Started, Up
<1>20. Spaces!Fault
  BY <1>3, <1>16, <1>17, <1>18, <1>19 DEF Spaces!Fault, Up, Began, InFault, SharedCells
<1> QED
  BY <1>10, <1>20 DEF Spaces!Next

LEMMA HandlerMapSpaces ==
    ASSUME SpaceInv, StackInv', NEW e \in Envs, HandlerMap(e)
    PROVE  Spacing' /\ Spaces!Next
<1> DEFINE r == env_page_map(m, e, PFTEMP, e, Top(e).va, {"W"})
<1>0. PICK va \in VAs : va = Top(e).va
  BY SpaceParts, HandlerStart DEF HandlerMap
<1>1. InHandler(e, "map") /\ Step(e, r, "unmap")
  BY DEF HandlerMap
<1>2. MemInv(m, NoPage, NoPage) /\ PFTEMP \in VAs /\ {"W"} \in SUBSET Bits /\ va \in Lasting /\ Lasting = Data \cup Stacks
  BY <1>0, <1>1, SpaceParts, HandlerStart, Kinds DEF Bits, Lasting
<1>3. r = env_page_map(m, e, PFTEMP, e, va, {"W"})
  BY <1>0
<1> HIDE DEF r
<1>4. /\ r.err \in BOOLEAN
      /\ r.err => SameTables(m, r.m)
      /\ ~r.err => Sets(m, r.m, e, va, m.slot[Pte(e, PFTEMP)], {"W"}) /\ m.slot[Pte(e, PFTEMP)] # NoPage
  BY <1>2, <1>3, PageMapInv, MapSets DEF Settled
<1>5. m' = r.m
  BY <1>1, <1>4 DEF Step
<1>6. Kept
  BY <1>2, <1>3, <1>5, MapKeeps, KeptPages
<1>7. CASE r.err
  <2>1. r.err = TRUE /\ SameTables(m, m')
    BY <1>4, <1>5, <1>7
  <2> QED
    BY <1>1, <1>6, <2>1, StepPanicSpaces
<1>8. CASE ~r.err
  <2>1. PICK p : p = m.slot[Pte(e, PFTEMP)]
    OBVIOUS
  <2>2. r.err = FALSE /\ Sets(m, m', e, va, p, {"W"}) /\ p # NoPage
    BY <1>4, <1>5, <1>8, <2>1
  <2>3. Only(e, e)
    BY <1>2, <2>1, <2>2, SetsOnly
  <2>4. CASE va \in Data
    BY <1>0, <1>1, <1>6, <2>1, <2>2, <2>3, <2>4, CopyMapped
  <2>5. CASE va \in Stacks
    <3>1. Changes(e, va)
      BY <1>6, <2>1, <2>2, <2>3 DEF Changes, Sets
    <3>2. Top(e).va \notin Data /\ "unmap" \in {"copy", "unmap", "return"} /\ va \in Stacks \cup {PFTEMP}
      BY <1>0, <2>5, Kinds
    <3>3. ("map" # "map" \/ va \in Stacks) /\ ("unmap" # "unmap" \/ Top(e).va \notin Data)
      BY <2>5, <3>2
    <3> QED
      BY <1>1, <2>2, <3>1, <3>2, <3>3, StepKeptSpaces
  <2> QED
    BY <1>2, <2>4, <2>5
<1> QED
  BY <1>4, <1>7, <1>8

LEMMA HandlerStepSpaces ==
    ASSUME SpaceInv, StackInv', NEW e \in Envs, HandlerStep(e)
    PROVE  Spacing' /\ Spaces!Next
BY HandlerAllocSpaces, HandlerCopySpaces, HandlerMapSpaces, HandlerUnmapSpaces, HandlerReturnSpaces DEF HandlerStep
-----------------------------------------------------------------------------
(***************************************************************************)
(* Pages passed by IPC.                                                    *)
(***************************************************************************)

\* The two calls together: the receiver's entry has the sender's page, or the
\* tables are as they were.
LEMMA TransferSets ==
    ASSUME IInv, NEW e \in Envs, NEW f \in Envs, e # f, NEW srcva \in VAs, NEW perm \in SUBSET Bits,
           Mapped(m, e, srcva), "W" \in perm => "W" \in m.perm[e][srcva],
           m' = TransferPage(e, srcva, f, perm).m
    PROVE  /\ TransferPage(e, srcva, f, perm).err \in BOOLEAN
           /\ Kept
           /\ TransferPage(e, srcva, f, perm).err => SameTables(m, m')
           /\ ~TransferPage(e, srcva, f, perm).err =>
                 /\ Sets(m, m', f, env_ipc_dstva[f], m.slot[Pte(e, srcva)], perm)
                 /\ m.slot[Pte(e, srcva)] # NoPage
<1>0. PICK dst \in VAs : dst = env_ipc_dstva[f]
  BY DEF IInv, Types
<1> DEFINE a == env_page_alloc(m, f, dst, perm)
           t == env_page_map(a.m, e, srcva, f, dst, perm)
           r == TransferPage(e, srcva, f, perm)
<1>1. MemInv(m, NoPage, NoPage)
  BY DEF IInv
<1>2. r = IF a.err THEN a ELSE t
  BY <1>0 DEF TransferPage
<1>3. r.err => SameTables(m, r.m)
  BY TransferApart
<1>4. /\ MemInv(a.m, NoPage, NoPage) /\ a.err \in BOOLEAN /\ KeepsData(m, a.m)
      /\ a.err => SameTables(m, a.m)
      /\ ~a.err => \E p \in Pages : (\A s \in Slots : m.slot[s] # p) /\ Sets(m, a.m, f, dst, p, perm)
  BY <1>1, AllocSets, AllocKeeps, PageAllocInv DEF Settled
<1> HIDE DEF a, r
<1>5. /\ t.err \in BOOLEAN /\ KeepsData(a.m, t.m)
      /\ t.err => SameTables(a.m, t.m)
      /\ ~t.err => /\ Sets(a.m, t.m, f, dst, a.m.slot[Pte(e, srcva)], perm)
                   /\ a.m.slot[Pte(e, srcva)] # NoPage
  BY <1>4, MapSets, MapKeeps, PageMapInv DEF Settled
<1> HIDE DEF t
<1>6. r.err \in BOOLEAN /\ m' = r.m
  BY <1>2, <1>4, <1>5 DEF r
<1>7. ASSUME ~r.err
      PROVE  /\ Sets(m, m', f, dst, m.slot[Pte(e, srcva)], perm)
             /\ m.slot[Pte(e, srcva)] # NoPage
  <2>1. ~a.err /\ ~t.err /\ m' = t.m
    BY <1>2, <1>6, <1>7
  <2>2. PICK p \in Pages : Sets(m, a.m, f, dst, p, perm)
    BY <1>4, <2>1
  <2>3. a.m.slot[Pte(e, srcva)] = m.slot[Pte(e, srcva)]
    BY <2>2 DEF Sets
  <2> QED
    BY <1>5, <2>1, <2>2, <2>3 DEF Sets
<1>8. Kept
  <2>1. CASE a.err
    BY <1>1, <1>2, <1>4, <1>6, <2>1, KeptPages
  <2>2. CASE ~a.err
    <3> SUFFICES ASSUME NEW g \in Envs, NEW h \in Envs, NEW w \in VAs, NEW z \in VAs, NEW q,
                        q = m.slot[Pte(g, w)], q # NoPage, m'.slot[Pte(h, z)] = q
                 PROVE  m'.data[q] = m.data[q]
      BY DEF Kept
    <3>1. /\ Pte(g, w) \in Slots /\ Pte(h, z) \in Slots /\ Pte(e, srcva) \in Slots /\ m' = t.m
          /\ Pte(f, dst) \in Slots
      BY <1>2, <1>6, <2>2, SlotFacts
    <3>2. q \in Pages
      BY <1>1, <3>1 DEF MemInv, MemType
    <3>3. a.m.slot[Pte(h, z)] = q \/ a.m.slot[Pte(e, srcva)] = q
      <4>1. CASE t.err
        BY <1>5, <3>1, <4>1, SlotFacts DEF SameTables
      <4>2. CASE ~t.err
        BY <1>5, <3>1, <4>2 DEF Sets
      <4> QED
        BY <1>5, <4>1, <4>2
    <3>4. Users(m, q) # {} /\ Users(a.m, q) # {} /\ Users(t.m, q) # {}
      BY <3>1, <3>3 DEF Users
    <3> QED
      BY <1>4, <1>5, <3>1, <3>2, <3>4 DEF KeepsData
  <2> QED
    BY <1>4, <2>1, <2>2
<1> QED
  BY <1>0, <1>3, <1>6, <1>7, <1>8 DEF r

LEMMA PassedSpaces ==
    ASSUME SpaceInv, StackInv', NEW e \in Envs, NEW f \in Envs, Receiving(e, f), Delivered(f),
           UNCHANGED <<pc, child, pnum>>, NEW srcva \in Data, NEW dst \in Data, NEW perm,
           NEW p, p = m.slot[Pte(e, srcva)], p # NoPage, "W" \in perm => "W" \in m.perm[e][srcva],
           Sets(m, m', f, dst, p, perm), Kept
    PROVE  Spacing' /\ Spaces!Next
<1> DEFINE C == {<<e, srcva>>, <<f, dst>>}
<1>1. /\ Running(e) /\ child[e] = NoEnv /\ faults[e] = <<>> /\ pc[e] = "user" /\ env_ipc_recving[f] /\ env_status[f] # "FREE"
  BY UserFacts DEF Receiving, Loops
<1>2. /\ Clear(e, e) /\ kernel = "running" /\ Up /\ ~Fresh(e) /\ Started(e) /\ env_status[e] = "RUNNABLE" /\ ~env_ipc_recving[e]
  BY <1>1, ActorFacts
<1>3. /\ Clear(e, f) /\ child[f] = NoEnv /\ faults[f] = <<>> /\ e # f
  BY <1>1, <1>2, ClearOther
<1>4. /\ Types /\ ForkOwnsChild /\ NoEnv \notin Envs /\ Data \subseteq VAs
      /\ MemInv(m, NoPage, NoPage) /\ MemInv(m', NoPage, NoPage) /\ WaitingSleeps /\ WaitingSleeps'
  BY SpaceParts, NoEnvAssumption, Kinds DEF StackInv, IInv
<1>5. /\ UNCHANGED <<kernel, touched, faults>>
      /\ env_status'[f] = "RUNNABLE"
      /\ \A g \in Envs \ {f} : env_status'[g] = env_status[g] /\ env_ipc_recving'[g] = env_ipc_recving[g]
  BY <1>4 DEF Delivered, Types
<1>6. Only(f, e)
  BY <1>4, SetsOnly
<1>7. pc[f] \notin {"v0_map", "v0_copy"}
  BY <1>3, <1>4 DEF ForkOwnsChild, Loops
<1>8. \A g \in {e, f} : Idle(g)' /\ Faulting(g)' /\ Handling(g)' /\ Copying(g)'
  BY <1>1, <1>2, <1>3, <1>4, <1>5, <1>7, Bare DEF Idle, Fresh
<1>9. \A g \in Envs \ {e, f} : Steadfast(g)
  BY <1>3, <1>5, <1>6, OthersSteadfast
<1>10. Spacing'
  <2>1. \A g \in Envs \ {e, f} :
           /\ Unmoved(g) /\ Steadfast(g)
           /\ env_status'[g] = env_status[g] /\ env_ipc_recving'[g] = env_ipc_recving[g]
           /\ Fresh(g) => \A w \in Data : <<g, w>> \in touched' => <<g, w>> \in touched
    BY <1>5, <1>9 DEF Unmoved
  <2>2. kernel' \in {"running", "panic"}
    BY <1>2, <1>5
  <2> QED
    BY <1>2, <1>3, <1>6, <1>8, <2>1, <2>2, SpacingKept
<1>11. Started(f) /\ \A g \in Envs : Started(g)' <=> Started(g)
  BY <1>1, <1>2, <1>5 DEF Started, Up
<1>12. ASSUME NEW g \in Envs, NEW w \in VAs, <<g, w>> # <<f, dst>>
       PROVE  m'.slot[Pte(g, w)] = m.slot[Pte(g, w)] /\ m'.perm[g][w] = m.perm[g][w] /\ Intact(g, w)
  BY <1>12, KeptIntact DEF Sets
<1>13. /\ m'.slot[Pte(f, dst)] = p /\ m'.perm[f][dst] = perm /\ m'.slot[Pte(e, srcva)] = p
       /\ m'.data[p] = m.data[p]
  BY <1>3, <1>4 DEF Sets, Kept
<1>14. Spaces!OthersKept({<<f, dst>>})
  <2>1. Seen({<<f, dst>>})
    BY <1>4, <1>12 DEF Seen, Holds, Intact
  <2> QED
    BY <1>4, <1>11, <2>1, SeenKept
<1>15. SharedCells' \subseteq SharedCells \cup C
  <2>1. ASSUME NEW g \in Envs, NEW w \in Data, <<g, w>> \notin C, Started(g),
               NEW h \in Envs, NEW z \in Data, Link(g, w, h, z)'
        PROVE  Shared(g, w)
    <3>1. /\ Started(h) /\ <<h, z>> # <<g, w>> /\ m'.slot[Pte(g, w)] # NoPage
          /\ m'.slot[Pte(g, w)] = m'.slot[Pte(h, z)] /\ "W" \in m'.perm[h][z]
      BY <1>11, <2>1 DEF Link, Common
    <3>2. m'.slot[Pte(g, w)] = m.slot[Pte(g, w)]
      BY <1>4, <1>12, <2>1
    <3>3. CASE <<h, z>> = <<f, dst>>
      <4>1. Link(g, w, e, srcva)
        BY <1>2, <1>13, <2>1, <3>1, <3>2, <3>3 DEF Link, Common
      <4> QED
        BY <2>1, <4>1 DEF Shared
    <3>4. CASE <<h, z>> # <<f, dst>>
      <4>1. Link(g, w, h, z)
        BY <1>4, <1>12, <3>1, <3>2, <3>4 DEF Link, Common
      <4> QED
        BY <2>1, <4>1 DEF Shared
    <3> QED
      BY <3>3, <3>4
  <2>2. NoMore(C)
    <3> SUFFICES ASSUME NEW g \in Envs, NEW w \in Data, Shared(g, w)', <<g, w>> \notin C
                 PROVE  Shared(g, w)
      BY DEF NoMore
    <3>1. /\ Started(g)
          /\ <<g, w>> \in touched \/ \E h \in Envs, z \in Data : Link(g, w, h, z)'
      BY <1>5, <1>11 DEF Shared
    <3> QED
      BY <2>1, <3>1 DEF Shared
  <2> HIDE DEF C
  <2> QED
    BY <1>4, <2>2, NoMoreShared
<1>16. Space'[f][dst] = Space[e][srcva]
  <2>1. Holds(f, dst)' = Holds(e, srcva)
    BY <1>13 DEF Holds
  <2>2. Space'[f][dst] = Content(f, dst)' /\ Space[e][srcva] = Content(e, srcva)
    BY <1>2, <1>11 DEF Space
  <2> QED
    BY <1>4, <2>1, <2>2, MappingIs, MappingWillBe
<1>17. Began' = Began /\ InFault' = InFault /\ {e, f} \subseteq Began \ InFault
  BY <1>1, <1>2, <1>3, <1>5, <1>11 DEF Began, InFault
<1>18. Spaces!Send(e, srcva, f, dst)
  BY <1>5, <1>14, <1>15, <1>16, <1>17 DEF Spaces!Send, Up, Began, InFault, SharedCells, Space
<1> QED
  BY <1>10, <1>18 DEF Spaces!Next

LEMMA SendPageSpaces ==
    ASSUME SpaceInv, StackInv', "ipc_unmapped" \notin Programs, NEW e \in Envs, NEW f \in Envs,
           NEW srcva \in Data, NEW perm \in {{}, {"W"}}, SendPage(e, f, srcva, perm)
    PROVE  Spacing' /\ Spaces!Next
<1> DEFINE r == TransferPage(e, srcva, f, perm)
<1>1. Receiving(e, f) /\ Mapped(m, e, srcva)
  BY DEF SendPage
<1>2. /\ IInv /\ Types /\ MemInv(m, NoPage, NoPage) /\ Places(f) /\ srcva \in VAs /\ perm \in SUBSET Bits
  BY SpaceParts, Kinds DEF Bits
<1>3. /\ Running(e) /\ faults[e] = <<>> /\ pc[e] = "user" /\ "user" \notin Loops /\ "panic" \notin Loops
      /\ [pc EXCEPT ![e] = "user"] = pc
  <2>1. Running(e) /\ faults[e] = <<>> /\ pc[e] = "user"
    BY <1>1, UserFacts DEF Receiving, Loops
  <2>2. [pc EXCEPT ![e] = "user"] = pc
    BY <1>2, <2>1 DEF Types
  <2> QED
    BY <2>1, <2>2 DEF Loops
<1>4. e # f /\ ~Fresh(e)
  BY <1>1, <1>3, ActorFacts DEF Receiving
<1>5. PICK test \in SrcTests(e, srcva, perm) :
         IF test # "pass"
         THEN /\ Goto(e, "panic")
              /\ UNCHANGED <<m, envvars, ipcvars, faults>>
         ELSE IF env_ipc_dstva[f] = 0
         THEN Delivered(f) /\ UNCHANGED <<m, progvars>>
         ELSE /\ Result(e, r, "user")
              /\ UNCHANGED <<child, pnum, forks>>
              /\ IF r.err
                 THEN UNCHANGED <<envvars, ipcvars, faults>>
                 ELSE Delivered(f)
  BY <1>1 DEF SendPage, SrcTests
<1>6. ASSUME pc' = [pc EXCEPT ![e] = "panic"], SameTables(m, m'), Kept,
             UNCHANGED <<child, pnum, envvars, ipcvars, faults>>
      PROVE  Spacing' /\ Spaces!Next
  <2>1. UNCHANGED <<child, pnum, faults, touched, kernel>> /\ UNCHANGED <<env_status, env_ipc_recving>>
    BY <1>6 DEF envvars, ipcvars
  <2>2. Only(e, e)
    BY <1>6, SameOnly
  <2>3. ~Fresh(e)' /\ \A g \in Envs \ {e} : env_status'[g] = env_status[g] /\ env_ipc_recving'[g] = env_ipc_recving[g]
    BY <1>4, <2>1 DEF Fresh
  <2>4. \A va \in Data : /\ m'.slot[Pte(e, va)] = m.slot[Pte(e, va)]
                         /\ "W" \in m'.perm[e][va] => "W" \in m.perm[e][va]
    BY <1>6, SlotFacts, Kinds DEF SameTables
  <2>5. Spacing' /\ Spaces!Fault
    BY <1>3, <1>6, <2>1, <2>2, <2>3, <2>4, BareSpaces
  <2> QED
    BY <2>5 DEF Spaces!Next
<1> HIDE DEF r
<1>7. CASE test # "pass"
  <2>1. m' = m /\ pc' = [pc EXCEPT ![e] = "panic"] /\ UNCHANGED <<child, pnum, envvars, ipcvars, faults>>
    BY <1>5, <1>7 DEF Goto
  <2>2. SameTables(m, m') /\ Kept
    BY <2>1, SameKept DEF SameTables
  <2> QED
    BY <1>6, <2>1, <2>2
<1>8. CASE test = "pass" /\ env_ipc_dstva[f] = 0
  <2>1. Delivered(f) /\ m' = m /\ UNCHANGED progvars
    BY <1>5, <1>8
  <2> QED
    BY <1>1, <2>1, DeliveredSpaces
<1>9. CASE test = "pass" /\ env_ipc_dstva[f] # 0
  <2>1. /\ m' = r.m /\ pc' = [pc EXCEPT ![e] = IF r.err THEN "panic" ELSE "user"] /\ UNCHANGED <<child, pnum, forks>>
        /\ r.err => UNCHANGED <<envvars, ipcvars, faults>>
        /\ ~r.err => Delivered(f)
    BY <1>5, <1>9 DEF Result
  <2>2. "W" \in perm => "W" \in m.perm[e][srcva]
    BY <1>1, <1>9 DEF SrcTests, HasBit, Mapped
  <2>3. /\ r.err \in BOOLEAN /\ Kept
        /\ r.err => SameTables(m, m')
        /\ ~r.err => /\ Sets(m, m', f, env_ipc_dstva[f], m.slot[Pte(e, srcva)], perm)
                     /\ m.slot[Pte(e, srcva)] # NoPage
    BY <1>1, <1>2, <1>4, <2>1, <2>2, TransferSets DEF r
  <2>4. CASE r.err
    BY <1>6, <2>1, <2>3, <2>4
  <2>5. CASE ~r.err
    <3>1. PICK dst \in Data : dst = env_ipc_dstva[f]
      BY <1>2, <1>9 DEF Places
    <3>2. PICK p : p = m.slot[Pte(e, srcva)]
      OBVIOUS
    <3>3. Sets(m, m', f, dst, p, perm) /\ p # NoPage /\ Kept
      BY <2>3, <2>5, <3>1, <3>2
    <3>4. UNCHANGED <<pc, child, pnum>> /\ Delivered(f)
      BY <1>3, <2>1, <2>5
    <3> QED
      BY <1>1, <2>2, <3>2, <3>3, <3>4, PassedSpaces
  <2> QED
    BY <2>3, <2>4, <2>5
<1> QED
  BY <1>7, <1>8, <1>9

LEMMA ProgramSpaces ==
    ASSUME SpaceInv, StackInv', "ipc_unmapped" \notin Programs, NEW e \in Envs, ProgramStep(e)
    PROVE  Spacing' /\ Spaces!Next
<1>1. CASE \E va \in Data, x \in Vals : Write(e, va, x)
  BY <1>1, WriteSpaces
<1>2. CASE \E va \in Data : ReadUnmapped(e, va)
  BY <1>2, FaultingSpaces DEF ReadUnmapped
<1>3. CASE \E va \in Data : SysPageUnmap(e, va)
  BY <1>3, SysPageUnmapSpaces
<1>4. CASE (\E va \in Data : Cputs(e, va)) \/ (\E x \in Envs : SysEnvDestroy(e, x))
  BY <1>4, EndSpaces
<1>5. CASE ForkBegin(e) \/ ForkV0Begin(e)
  BY <1>5, BeginningSpaces
<1>6. CASE \E va \in Data \cup {0} : IpcRecv(e, va)
  BY <1>6, IpcRecvSpaces
<1>7. ASSUME NEW f \in Envs, SendValue(e, f)
      PROVE  Spacing' /\ Spaces!Next
  BY <1>7, DeliveredSpaces DEF SendValue
<1>8. ASSUME NEW f \in Envs, NEW va \in Data, NEW perm \in {{}, {"W"}}, SendPage(e, f, va, perm)
      PROVE  Spacing' /\ Spaces!Next
  BY <1>8, SendPageSpaces
<1> QED
  BY <1>1, <1>2, <1>3, <1>4, <1>5, <1>6, <1>7, <1>8 DEF ProgramStep
-----------------------------------------------------------------------------
(***************************************************************************)
(* From the kernel's start to the first environment's.                     *)
(***************************************************************************)

\* Until then there is nothing to see.
LEMMA DownIs ==
    ASSUME ~Up, \A g \in Envs : faults[g] = <<>>
    PROVE  /\ Began = {} /\ InFault = {} /\ SharedCells = {}
           /\ Space = [g \in Envs |-> [va \in Data |-> NoPage]]
BY DEF Up, Began, InFault, SharedCells, Space, Started, SharedCell

LEMMA DownWillBe ==
    ASSUME ~Up', \A g \in Envs : faults'[g] = <<>>
    PROVE  /\ Began' = {} /\ InFault' = {} /\ SharedCells' = {}
           /\ Space' = [g \in Envs |-> [va \in Data |-> NoPage]]
BY DEF Up, Began, InFault, SharedCells, Space, Started, SharedCell

\* The pages of env_create are cleared, and no two addresses have the same.
LEMMA BootFacts ==
    ASSUME SpaceInv, NEW e \in Envs, e = FirstEnv, EnvCreate(e) \/ LoadIcode(e)
    PROVE  /\ kernel = "booting" /\ kernel' \in {"booting", "boot_panic", "running"}
           /\ \A g \in Envs : /\ child'[g] = NoEnv /\ faults[g] = <<>> /\ faults'[g] = <<>>
                              /\ pc'[g] \notin {"v0_map", "v0_copy"} /\ ~env_ipc_recving'[g]
           /\ touched = {} /\ touched' = {}
           /\ \A g \in Envs : g # e => env_status'[g] = "FREE"
           /\ \A p \in Pages : m'.data[p] = Zero
           /\ \A va, w \in VAs : Common(m', e, va, e, w) => va = w
<1>1. /\ MemInv(m, NoPage, NoPage) /\ Types /\ FreeIsEmpty /\ WaitingSleeps /\ ForkOwnsChild /\ Booting /\ NoEnv \notin Envs
  BY SpaceParts, NoEnvAssumption
<1>2. /\ kernel = "booting" /\ kernel' \in {"booting", "boot_panic", "running"}
      /\ UNCHANGED <<touched, env_ipc_recving, pc, child, faults>>
  BY DEF EnvCreate, LoadIcode, Booted, ipcvars, progvars
<1>3. /\ touched = {} /\ \A g \in Envs : faults[g] = <<>>
      /\ \A g \in Envs : g # e => env_status[g] = "FREE"
      /\ \A p \in Pages : m.data[p] = Zero
      /\ \A va, w \in VAs : Common(m, e, va, e, w) => va = w
  BY <1>1, <1>2 DEF Booting, Up
<1>4. env_status[e] # "NOT_RUNNABLE"
  BY DEF EnvCreate, LoadIcode
<1>5. \A g \in Envs : env_status[g] # "NOT_RUNNABLE"
  BY <1>3, <1>4
<1>6. \A g \in Envs : child[g] = NoEnv /\ pc[g] \notin {"v0_map", "v0_copy"} /\ ~env_ipc_recving[g]
  BY <1>1, <1>5 DEF Types, ForkOwnsChild, WaitingSleeps, Loops
<1>7. \A g \in Envs : g # e => env_status'[g] = "FREE"
  <2>1. env_status \in [Envs -> {"FREE", "NOT_RUNNABLE", "RUNNABLE"}]
    BY <1>1 DEF Types
  <2>2. \A g \in Envs : g # e => env_status'[g] = env_status[g]
    BY <2>1 DEF EnvCreate, LoadIcode
  <2> QED
    BY <1>3, <2>2
<1>8. KeepsData(m, m') /\ \A va, w \in VAs : Common(m', e, va, e, w) => va = w
  <2>1. CASE EnvCreate(e)
    <3>1. m' = env_setup_vm(m, e).m /\ env_status[e] = "FREE"
      BY <2>1 DEF EnvCreate, Booted
    <3>2. KeepsData(m, m') /\ SameTables(m, m')
      BY <1>1, <3>1, SetupKeeps, SetupFewer DEF FreeIsEmpty
    <3> QED
      BY <1>3, <3>2, SlotFacts DEF SameTables, Common
  <2>2. CASE LoadIcode(e)
    <3> DEFINE missing == {va \in Data \cup {STACK} : ~Mapped(m, e, va)}
    <3>1. PICK v : v = First(missing)
      OBVIOUS
    <3>2. missing # {} /\ m' = env_page_alloc(m, e, v, {"W"}).m
      BY <2>2, <3>1 DEF LoadIcode, Booted, region_alloc
    <3>3. v \in VAs /\ {"W"} \in SUBSET Bits
      <4>1. missing \in SUBSET VAs
        BY Kinds DEF Lasting, Stacks
      <4> QED
        BY <3>1, <3>2, <4>1, FirstIn DEF Bits
    <3>4. KeepsData(m, m')
      BY <1>1, <3>2, <3>3, AllocKeeps
    <3>5. CASE SameTables(m, m')
      BY <1>3, <3>4, <3>5, SlotFacts DEF SameTables, Common
    <3>6. CASE \E p \in Pages : (\A s \in Slots : m.slot[s] # p) /\ Sets(m, m', e, v, p, {"W"})
      <4>1. PICK p \in Pages : (\A s \in Slots : m.slot[s] # p) /\ Sets(m, m', e, v, p, {"W"})
        BY <3>6
      <4>2. \A w \in VAs : m.slot[Pte(e, w)] # p
        BY <4>1, SlotFacts
      <4> QED
        BY <1>3, <3>4, <4>1, <4>2 DEF Sets, Common
    <3> QED
      BY <1>1, <3>2, <3>3, <3>5, <3>6, AllocSets
  <2> QED
    BY <2>1, <2>2
<1>9. \A p \in Pages : m'.data[p] = Zero
  BY <1>3, <1>8 DEF KeepsData
<1> QED
  BY <1>2, <1>3, <1>6, <1>7, <1>8, <1>9

LEMMA BootSpaces ==
    ASSUME SpaceInv, StackInv', NEW e \in Envs, e = FirstEnv, EnvCreate(e) \/ LoadIcode(e)
    PROVE  Spacing' /\ (UNCHANGED Spaces!vars \/ Spaces!Begin(e))
<1>1. /\ kernel = "booting" /\ kernel' \in {"booting", "boot_panic", "running"}
      /\ \A g \in Envs : /\ child'[g] = NoEnv /\ faults[g] = <<>> /\ faults'[g] = <<>>
                         /\ pc'[g] \notin {"v0_map", "v0_copy"} /\ ~env_ipc_recving'[g]
      /\ touched = {} /\ touched' = {}
      /\ \A g \in Envs : g # e => env_status'[g] = "FREE"
      /\ \A p \in Pages : m'.data[p] = Zero
      /\ \A va, w \in VAs : Common(m', e, va, e, w) => va = w
  BY BootFacts
<1>2. Spacing'
  <2>1. Booting'
    BY <1>1 DEF Booting
  <2>2. \A g \in Envs : Idle(g)'
    BY <1>1 DEF Idle
  <2>3. \A g \in Envs : Faulting(g)' /\ Handling(g)' /\ Copying(g)'
    BY <1>1, Bare, NoEnvAssumption
  <2> QED
    BY <2>1, <2>2, <2>3 DEF Spacing
<1>3. /\ ~Up /\ Began = {} /\ InFault = {} /\ SharedCells = {}
      /\ Space = [g \in Envs |-> [va \in Data |-> NoPage]]
  BY <1>1, DownIs DEF Up
<1>4. CASE kernel' # "running"
  <2>1. /\ ~Up' /\ Began' = {} /\ InFault' = {} /\ SharedCells' = {}
        /\ Space' = [g \in Envs |-> [va \in Data |-> NoPage]]
    BY <1>1, <1>4, DownWillBe DEF Up
  <2>2. UNCHANGED Spaces!vars
    BY <1>3, <2>1 DEF Spaces!vars, Up, Began, InFault, SharedCells, Space
  <2> QED
    BY <1>2, <2>2
<1>5. CASE kernel' = "running"
  <2> DEFINE missing == {va \in Data \cup {STACK} : ~Mapped(m, e, va)}
             r == region_alloc(m, e, First(missing))
  <2>1. PICK v : v = First(missing)
    OBVIOUS
  <2>2. /\ LoadIcode(e) /\ env_status[e] = "RUNNABLE" /\ missing = {v} /\ m' = r.m /\ ~r.err
        /\ UNCHANGED env_status
    BY <1>5, <2>1 DEF LoadIcode, EnvCreate, Booted
  <2>3. /\ MemInv(m, NoPage, NoPage) /\ MemInv(m', NoPage, NoPage) /\ Data \subseteq VAs /\ STACK \in VAs
        /\ {"W"} \in SUBSET Bits /\ v \in VAs /\ m' \in MemType
    <3>1. v \in Data \cup {STACK} /\ Data \subseteq VAs /\ STACK \in VAs
      BY <2>2, Kinds DEF Stacks
    <3> QED
      BY <3>1, SpaceParts DEF StackInv, IInv, MemInv, Bits
  <2>4. PICK p \in Pages : Sets(m, m', e, v, p, {"W"})
    BY <2>1, <2>2, <2>3, AllocSets DEF region_alloc
  <2>5. ASSUME NEW va \in Data
        PROVE  m'.slot[Pte(e, va)] \in Pages
    <3>1. CASE va = v
      BY <2>4, <3>1 DEF Sets
    <3>2. CASE va # v
      <4>1. m.slot[Pte(e, va)] # NoPage
        BY <2>2, <3>2 DEF Mapped
      <4>2. m'.slot[Pte(e, va)] # NoPage
        BY <2>3, <2>4, <3>2, <4>1 DEF Sets
      <4> QED
        BY <2>3, <4>2, SlotFacts DEF MemType
    <3> QED
      BY <3>1, <3>2
  <2> HIDE DEF missing, r
  <2>6. Up' /\ \A g \in Envs : Started(g)' <=> g = e
    BY <1>1, <1>5, <2>2 DEF Started, Up
  <2>7. Began' = {e} /\ InFault' = {}
    BY <1>1, <2>6 DEF Began, InFault
  <2>8. ASSUME NEW va \in Data
        PROVE  Content(e, va)' = Zero /\ \A g \in Envs : ~SharedCell(g, va)'
    <3>1. m'.slot[Pte(e, va)] # NoPage /\ m'.data[m'.slot[Pte(e, va)]] = Zero
      BY <1>1, <2>5, PagesAssumption
    <3>2. Holds(e, va)' = Zero
      BY <3>1 DEF Holds
    <3>3. ASSUME NEW g \in Envs, Shared(g, va)'
          PROVE  FALSE
      <4>1. PICK f \in Envs, w \in Data : Started(g)' /\ Link(g, va, f, w)'
        BY <1>1, <3>3 DEF Shared
      <4>2. g = e /\ f = e /\ w # va /\ Common(m', e, va, e, w) /\ w \in VAs /\ va \in VAs
        BY <2>3, <2>6, <4>1 DEF Link
      <4> QED
        BY <1>1, <4>2
    <3> QED
      BY <2>3, <3>2, <3>3, MappingWillBe
  <2>9. SharedCells' = {}
    BY <2>8 DEF SharedCells
  <2>10. Space' = [Space EXCEPT ![e] = [va \in Data |-> Zero]]
    <3> DEFINE row(g) == [va \in Data |-> IF Started(g)' THEN Content(g, va)' ELSE NoPage]
    <3>1. row(e) = [va \in Data |-> Zero]
      BY <2>6, <2>8
    <3>2. ASSUME NEW g \in Envs, g # e
          PROVE  row(g) = [va \in Data |-> NoPage]
      BY <2>6, <3>2
    <3>3. Space' = [g \in Envs |-> row(g)]
      BY DEF Space
    <3> HIDE DEF row
    <3> QED
      BY <1>3, <3>1, <3>2, <3>3
  <2>11. Spaces!Begin(e)
    BY <1>3, <2>6, <2>7, <2>9, <2>10 DEF Spaces!Begin, Up, Began, InFault, SharedCells, Space
  <2> QED
    BY <1>2, <2>11
<1> QED
  BY <1>4, <1>5

LEMMA InitSpaces ==
    ASSUME Init
    PROVE  Spacing /\ Spaces!Init
<1>1. PICK inuse \in InUse : m = page_init(inuse)
  BY DEF Init
<1>2. /\ \A g \in Envs : /\ env_status[g] = "FREE" /\ faults[g] = <<>> /\ child[g] = NoEnv
                         /\ pc[g] = "user" /\ ~env_ipc_recving[g]
      /\ touched = {} /\ kernel = "booting"
  BY DEF Init
<1>3. /\ \A p \in Pages : m.data[p] = Zero
      /\ \A g \in Envs, va \in VAs : m.slot[Pte(g, va)] = NoPage
  BY <1>1, SlotFacts DEF page_init
<1>4. Booting
  <2>1. FirstEnv \in Envs
    BY NoEnvAssumption DEF FirstEnv
  <2> QED
    BY <1>2, <1>3, <2>1 DEF Booting, Common
<1>5. \A g \in Envs : Idle(g) /\ Faulting(g) /\ Handling(g) /\ Copying(g)
  BY <1>2, NoEnvAssumption DEF Idle, Faulting, Handling, Copying
<1>6. /\ ~Up /\ Began = {} /\ InFault = {} /\ SharedCells = {}
      /\ Space = [g \in Envs |-> [va \in Data |-> NoPage]]
  BY <1>2, DownIs DEF Up
<1>7. Spaces!Init
  BY <1>6 DEF Spaces!Init, Spaces!Blank, Up, Began, InFault, SharedCells, Space
<1> QED
  BY <1>4, <1>5, <1>7 DEF Spacing

LEMMA StutterSpaces ==
    ASSUME Spacing, UNCHANGED vars
    PROVE  Spacing' /\ UNCHANGED Spaces!vars
<1>1. UNCHANGED <<m, env_status, env_ipc_recving, touched, pc, child, pnum, faults, kernel>>
  BY DEF vars, envvars, ipcvars, progvars
<1>2. Booting' /\ \A e \in Envs : Idle(e)' /\ Faulting(e)'
  BY <1>1 DEF Spacing, Booting, Up, Common, Idle, Fresh, Faulting
<1>3. \A e \in Envs : Handling(e)'
  BY <1>1 DEF Spacing, Handling, Top
<1>4. \A e \in Envs : Copying(e)'
  BY <1>1 DEF Spacing, Copying, Secluded, Cell, Ahead, AtPage, Duplicated, Behind, Common
<1>5. Spacing'
  BY <1>2, <1>3, <1>4 DEF Spacing
<1>6. Began' = Began /\ InFault' = InFault /\ SharedCells' = SharedCells /\ Space' = Space
  BY <1>1 DEF Began, InFault, SharedCells, Space, SharedCell, Content, Started, Mapped, PageAt, HasBit
<1> QED
  BY <1>1, <1>5, <1>6 DEF Spaces!vars, Began, InFault, SharedCells, Space

LEMMA NextSpaces ==
    ASSUME SpaceInv, "ipc_unmapped" \notin Programs, [Next]_vars
    PROVE  SpaceInv' /\ [Spaces!Next]_(Spaces!vars)
<1>1. StackInv' /\ Spacing
  BY NextSharing DEF SpaceInv
<1>2. FirstEnv \in Envs
  BY NoEnvAssumption DEF FirstEnv
<1>3. CASE EnvCreate(FirstEnv) \/ LoadIcode(FirstEnv)
  <2>1. PICK e \in Envs : e = FirstEnv
    BY <1>2
  <2>2. Spacing' /\ (UNCHANGED Spaces!vars \/ Spaces!Begin(e))
    BY <1>1, <1>3, <2>1, BootSpaces
  <2> QED
    BY <1>1, <2>2 DEF SpaceInv, Spaces!Next
<1>4. ASSUME NEW e \in Envs, StackFault(e) \/ ForkStep(e) \/ HandlerStep(e) \/ ProgramStep(e)
      PROVE  Spacing' /\ Spaces!Next
  BY <1>1, <1>4, StackFaultSpaces, ForkSpaces, HandlerStepSpaces, ProgramSpaces
<1>5. CASE UNCHANGED vars
  BY <1>1, <1>5, StutterSpaces DEF SpaceInv
<1> QED
  BY <1>1, <1>3, <1>4, <1>5 DEF Next, SpaceInv

\* However fork, fork_v0, pgfault, exits and messages interleave, and wherever
\* memory runs out, a program sees an address space of its own: its writes, its
\* parent's memory at its start, and no write of another but in a page passed by
\* IPC.  A sender with no page to send is left out: such a send fails after the
\* receiver's page was replaced (kern/syscall.c:376, :378).
THEOREM SpacesImplemented ==
    ASSUME "ipc_unmapped" \notin Programs
    PROVE  Spec => ImplementsSpaces
<1>1. Init => SpaceInv /\ Spaces!Init
  BY InitIInv, InitSharing, InitSpaces DEF SpaceInv, StackInv
<1>2. SpaceInv /\ [Next]_vars => SpaceInv' /\ [Spaces!Next]_(Spaces!vars)
  BY NextSpaces
<1> QED
  BY <1>1, <1>2, PTL DEF Spec, ImplementsSpaces, Spaces!Spec
=============================================================================
