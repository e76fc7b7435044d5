--------------------------- MODULE Fisopfs_proofs ---------------------------
(***************************************************************************)
(* What holds of module Fisopfs with one FUSE thread, for any number of    *)
(* inodes, entries, names, levels and bytes: sizes and entries stay in     *)
(* range, used entries come first, and every entry of a directory is true. *)
(* With two threads it does not hold: see NoSharedInode.                   *)
(***************************************************************************)
EXTENDS Fisopfs, SequenceTheorems, WellFoundedInduction, TLAPS

\* The only thread, of a file system mounted with -s
t == CHOOSE x \in Threads : TRUE
UnHilo == \E x : Threads = {x}

Inodo == [inumero : Inodes, path : Paths \cup {NoPath}, tipo : {"DIR", "REG"},
          tam : 0..MAX_CONTENT \cup 0..MAX_DIR_ENTRIES + 1,
          entradas : [Slots -> [inodo : Inodes, nombre : Names \cup {"", ".", ".."}]],
          datos : [1..MAX_CONTENT -> Bytes]]

\* The used entries are the first ones, tam counts them, and one more in a
\* child of the root.
Ordenado(v) ==
    \E c \in 0..MAX_DIR_ENTRIES :
        /\ \A k \in Slots : v.entradas[k].inodo # 0 <=> k < c
        /\ v.tam \in {c, c + 1}

Tipado(bm, ino) ==
    /\ bm \in [Inodes -> BOOLEAN] /\ ino \in [Inodes -> Inodo]
    /\ \A i \in Inodes : /\ ino[i].tipo = "DIR" => Ordenado(ino[i])
                         /\ ino[i].tipo = "REG" => ino[i].tam <= MAX_CONTENT

\* The root is inode 0; of a file that was cut short there is nothing.
RaizPrimera(bm, ino) ==
    \/ bm[0] /\ ino[0].path = ROOT_PATH /\ ino[0].tipo = "DIR"
    \/ \A i \in Inodes : ~bm[i]

Unicos(bm, ino) ==
    \A i \in Inodes : bm[i] =>
        /\ ino[i].path \in Paths /\ ino[i].inumero = i
        /\ \A j \in Inodes : bm[j] /\ ino[j].path = ino[i].path => j = i

Nombra(e, i) == i # 0 /\ e.inodo = i /\ e.nombre \in Names

\* What entry k of directory d may be.  A directory with an entry ".." is
\* still listed where that entry leads, which is why it cannot dangle.
Cierta(bm, ino, d, k) ==
    LET e == ino[d].entradas[k]
    IN  \/ e.nombre = "." /\ e.inodo = d
        \/ /\ e.nombre = ".." /\ bm[e.inodo] /\ ino[e.inodo].tipo = "DIR"
           /\ \E j \in Slots : Nombra(ino[e.inodo].entradas[j], d)
        \/ /\ e.nombre \in Names /\ bm[e.inodo]
           /\ ino[e.inodo].path = Append(ino[d].path, e.nombre)
           /\ \A j \in Slots : ino[d].entradas[j].inodo # 0 /\ ino[d].entradas[j].nombre = e.nombre
                               => j = k

Ciertas(bm, ino) ==
    \A d \in Inodes : bm[d] /\ ino[d].tipo = "DIR" =>
        \A k \in Slots : ino[d].entradas[k].inodo # 0 => Cierta(bm, ino, d, k)

Bueno(bm, ino) == Tipado(bm, ino) /\ RaizPrimera(bm, ino) /\ Unicos(bm, ino) /\ Ciertas(bm, ino)

-----------------------------------------------------------------------------

h == hilo[t]

Tarea == [op : {"none", "create", "mkdir", "unlink", "rmdir", "guardar"},
          paso : {"fin", "crear", "agregar", "puntos", "liberar", "borrar", "quitar", "escribir"},
          path : Paths \cup {NoPath}, ino : Inodes, padre : Inodes]

\* The superblock as if a removal took effect when the entry goes: an unlink
\* has the inode in use until then, an rmdir not any more after it.
VBitmap ==
    IF h.op = "unlink" THEN [bitmap_inodes EXCEPT ![h.ino] = TRUE]
    ELSE IF h.paso \in {"liberar", "borrar"} THEN [bitmap_inodes EXCEPT ![h.ino] = FALSE]
    ELSE bitmap_inodes
VInodos ==
    IF h.op = "unlink" THEN [inodos EXCEPT ![h.ino] = InodoNuevo(h.ino, h.path, "REG")] ELSE inodos

\* What the thread works on: an inode that is not the root and its directory.
EnPadre ==
    /\ h.ino # 0 /\ h.ino # h.padre
    /\ h.path \in Paths /\ h.path # <<>>
    /\ bitmap_inodes[h.padre] /\ inodos[h.padre].tipo = "DIR"
    /\ inodos[h.padre].path = Dirname(h.path)
SinNombre == \A k \in Entradas(h.padre) : inodos[h.padre].entradas[k].nombre # Basename(h.path)

Creando ==
    /\ EnPadre
    /\ h.paso = "crear" => /\ ~bitmap_inodes[h.ino] /\ SinNombre
                           /\ \A i \in Inodes : bitmap_inodes[i] => inodos[i].path # h.path
    /\ h.paso = "agregar" => SinNombre
    /\ h.paso \in {"agregar", "puntos"} =>
          /\ bitmap_inodes[h.ino]
          /\ inodos[h.ino] = InodoNuevo(h.ino, h.path, IF h.op = "mkdir" THEN "DIR" ELSE "REG")
    /\ h.paso = "puntos" => \E k \in Slots : Nombra(inodos[h.padre].entradas[k], h.ino)

Quitando ==
    /\ EnPadre
    /\ h.paso = "borrar" \/ (h.op = "unlink" /\ h.paso = "quitar") => ~bitmap_inodes[h.ino]
    /\ (h.op = "rmdir" /\ h.paso = "quitar") =>
          /\ bitmap_inodes[h.ino] /\ inodos[h.ino].path = h.path /\ inodos[h.ino].tipo = "DIR"
          /\ \A k \in Entradas(h.ino) : inodos[h.ino].entradas[k].nombre \in {".", ".."}

Fases ==
    /\ hilo \in [Threads -> Tarea]
    /\ \/ h = Quieto
       \/ h.op = "guardar" /\ h.paso = "escribir"
       \/ h.op = "create" /\ h.paso \in {"crear", "agregar"} /\ Creando
       \/ h.op = "mkdir" /\ h.paso \in {"crear", "agregar", "puntos"} /\ Creando
       \/ h.op \in {"unlink", "rmdir"} /\ h.paso \in {"liberar", "borrar", "quitar"} /\ Quitando

IInv ==
    /\ fase \in {"off", "mounted", "unmounting"}
    /\ fase = "off" => h = Quieto /\ \A i \in Inodes : ~bitmap_inodes[i] /\ inodos[i] = InodoCero
    /\ Fases
    /\ Tipado(bitmap_inodes, inodos)
    /\ Bueno(VBitmap, VInodos)
    /\ \/ disk \in {Ausente, Cortado}
       \/ disk.estado = "completo" /\ Bueno(disk.bitmap, disk.inodos)

-----------------------------------------------------------------------------
(***************************************************************************)
(* Numbers, paths and inodes.                                              *)
(***************************************************************************)

LEMMA Numeros ==
    /\ Inodes \subseteq Nat /\ Slots \subseteq Nat /\ 0 \in Inodes /\ {0, 1} \subseteq Slots
    /\ MAX_INODES \in Nat /\ MAX_DIR_ENTRIES \in Nat /\ MAX_CONTENT \in Nat
    /\ \A k : k \in Slots <=> k \in Nat /\ k < MAX_DIR_ENTRIES
BY SizesAssumption DEF Inodes, Slots

LEMMA PrimeroEs ==
    ASSUME NEW S \in SUBSET Nat
    PROVE  /\ S = {} => Primero(S) = -1
           /\ S # {} => Primero(S) \in S /\ \A j \in S : Primero(S) <= j
<1>1. CASE S = {}
  BY <1>1 DEF Primero
<1>2. CASE S # {}
  <2>1. PICK i \in S : \A j \in S : i <= j
    <3> DEFINE less == OpToRel(<, Nat)
    <3>1. IsWellFoundedOn(less, Nat)
      BY NatLessThanWellFounded
    <3>2. \A a, b \in Nat : a < b => <<a, b>> \in less
      BY DEF OpToRel
    <3> HIDE DEF less
    <3>3. PICK i \in S : \A j \in S : <<j, i>> \notin less
      BY <1>2, <3>1, WFMin
    <3>4. ASSUME NEW j \in S
          PROVE  i <= j
      <4>1. i \in Nat /\ j \in Nat
        OBVIOUS
      <4>2. ~(j < i)
        BY <3>2, <3>3, <4>1
      <4> QED
        BY <4>1, <4>2
    <3> QED
      BY <3>4
  <2> QED
    BY <1>2, <2>1 DEF Primero
<1> QED
  BY <1>1, <1>2

LEMMA Puntos == "" \notin Names /\ "." \notin Names /\ ".." \notin Names
BY NamesAssumption

\* A path is the path of its directory and its name.
LEMMA Partes ==
    ASSUME NEW p \in Paths
    PROVE  /\ p \in Seq(Names) /\ p # NoPath
           /\ p # <<>> => /\ Dirname(p) \in Paths /\ Dirname(p) # p
                          /\ Basename(p) \in Names
                          /\ p = Append(Dirname(p), Basename(p))
<1>1. PICK d \in 0..MaxDepth : p \in [1..d -> Names]
  BY DEF Paths
<1>2. d \in Nat
  BY SizesAssumption
<1>3. p \in Seq(Names) /\ Len(p) = d
  <2>1. p \in Seq(Names)
    BY <1>1, <1>2, SeqDef
  <2>2. DOMAIN p = 1..d /\ DOMAIN p = 1..Len(p) /\ Len(p) \in Nat
    BY <1>1, <2>1, LenProperties
  <2>3. Len(p) = d
    BY <1>2, <2>2
  <2> QED
    BY <2>1, <2>3
<1>4. p # NoPath
  <2>1. CASE d = 1
    <3>1. p[1] \in Names /\ NoPath[1] = ""
      BY <1>1, <2>1 DEF NoPath
    <3> QED
      BY <3>1, Puntos
  <2>2. CASE d # 1
    <3>1. Len(NoPath) = 1
      BY DEF NoPath
    <3> QED
      BY <1>3, <2>2, <3>1
  <2> QED
    BY <2>1, <2>2
<1>5. ASSUME p # <<>>
      PROVE  /\ Dirname(p) \in Paths /\ Dirname(p) # p /\ Basename(p) \in Names
             /\ p = Append(Dirname(p), Basename(p))
  <2>1. d # 0
    BY <1>3, <1>5, EmptySeq
  <2>2. /\ Dirname(p) \in Seq(Names) /\ Len(Dirname(p)) = d - 1
        /\ \A i \in 1..d - 1 : Dirname(p)[i] = p[i]
    <3>1. \A i \in 1..d - 1 : p[i] \in Names
      BY <1>1
    <3> QED
      BY <1>2, <1>3, <2>1, <3>1, SubSeqProperties DEF Dirname
  <2>3. Basename(p) = p[d] /\ p[d] \in Names
    BY <1>1, <1>2, <1>3, <1>5, <2>1 DEF Basename
  <2>4. Dirname(p) \in Paths
    <3>1. d - 1 \in 0..MaxDepth
      BY <1>2, <2>1, SizesAssumption
    <3>2. Dirname(p) \in [1..d - 1 -> Names]
      BY <2>2, LenProperties
    <3> QED
      BY <3>1, <3>2 DEF Paths
  <2>5. p = Append(Dirname(p), Basename(p))
    <3> DEFINE q == Append(Dirname(p), Basename(p))
    <3>1. q \in Seq(Names) /\ Len(q) = d /\ \A i \in 1..d : q[i] = IF i = d THEN p[d] ELSE p[i]
      BY <1>2, <2>1, <2>2, <2>3, AppendProperties
    <3> HIDE DEF q
    <3>2. p = q
      BY <1>3, <3>1, SeqEqual
    <3> QED
      BY <3>2 DEF q
  <2>6. Dirname(p) # p
    BY <1>2, <1>3, <2>2
  <2> QED
    BY <2>3, <2>4, <2>5, <2>6
<1> QED
  BY <1>3, <1>4, <1>5

LEMMA MismasPartes ==
    ASSUME NEW p \in Seq(Names), NEW q \in Seq(Names), NEW a \in Names, NEW b \in Names,
           Append(p, a) = Append(q, b)
    PROVE  p = q /\ a = b
BY AppendInjective

LEMMA RaizEsPath == ROOT_PATH \in Paths
<1>1. ROOT_PATH \in [1..0 -> Names]
  BY DEF ROOT_PATH
<1>2. 0 \in 0..MaxDepth
  BY SizesAssumption
<1> QED
  BY <1>1, <1>2 DEF Paths

Entrada == [inodo : Inodes, nombre : Names \cup {"", ".", ".."}]

LEMMA SinEntradasEs ==
    /\ SinEntradas \in [Slots -> Entrada]
    /\ \A k \in Slots : SinEntradas[k].inodo = 0 /\ SinEntradas[k].nombre = ""
<1>1. Vacia \in Entrada /\ Vacia.inodo = 0 /\ Vacia.nombre = ""
  BY Numeros DEF Vacia, Entrada
<1>2. SinEntradas \in [Slots -> Entrada] /\ \A k \in Slots : SinEntradas[k] = Vacia
  BY <1>1 DEF SinEntradas
<1> QED
  BY <1>1, <1>2

LEMMA VacioOrdenado ==
    ASSUME NEW v, v.entradas = SinEntradas, v.tam = 0
    PROVE  Ordenado(v)
<1>1. 0 \in 0..MAX_DIR_ENTRIES
  BY Numeros
<1>2. \A k \in Slots : v.entradas[k].inodo # 0 <=> k < 0
  <2>1. ASSUME NEW k \in Slots
        PROVE  v.entradas[k].inodo = 0 /\ ~(k < 0)
    <3>1. v.entradas[k].inodo = 0
      BY SinEntradasEs
    <3>2. k \in Nat
      BY Numeros
    <3> QED
      BY <3>1, <3>2
  <2> QED
    BY <2>1
<1> QED
  BY <1>1, <1>2 DEF Ordenado

LEMMA CamposFrescos ==
    /\ Ceros \in [1..MAX_CONTENT -> Bytes]
    /\ 0 \in 0..MAX_CONTENT \cup 0..MAX_DIR_ENTRIES + 1
    /\ 0 \in Inodes
BY Numeros, BytesAssumption DEF Ceros

\* An inode without entries: a zeroed one, the root's, a fresh one.
LEMMA CeroEs ==
    /\ InodoCero \in Inodo /\ InodoCero.tipo = "DIR" /\ Ordenado(InodoCero)
    /\ InodoCero.entradas = SinEntradas
<1>1. InodoCero \in Inodo /\ InodoCero.entradas = SinEntradas /\ InodoCero.tam = 0 /\ InodoCero.tipo = "DIR"
  BY SinEntradasEs, CamposFrescos DEF InodoCero, Inodo, Entrada
<1> QED
  BY <1>1, VacioOrdenado

LEMMA RaizEs ==
    /\ Raiz \in Inodo /\ Raiz.tipo = "DIR" /\ Ordenado(Raiz) /\ Raiz.entradas = SinEntradas
    /\ Raiz.path = ROOT_PATH /\ Raiz.inumero = 0
<1>1. /\ Raiz \in Inodo /\ Raiz.entradas = SinEntradas /\ Raiz.tam = 0 /\ Raiz.tipo = "DIR"
      /\ Raiz.path = ROOT_PATH /\ Raiz.inumero = 0
  BY SinEntradasEs, CamposFrescos, RaizEsPath DEF Raiz, InodoCero, Inodo, Entrada
<1> QED
  BY <1>1, VacioOrdenado

LEMMA NuevoEs ==
    ASSUME NEW i \in Inodes, NEW p \in Paths, NEW tipo \in {"DIR", "REG"}
    PROVE  LET v == InodoNuevo(i, p, tipo)
           IN  /\ v \in Inodo /\ v.path = p /\ v.tipo = tipo /\ v.inumero = i
               /\ v.entradas = SinEntradas /\ v.tam = 0 /\ Ordenado(v)
<1> DEFINE v == InodoNuevo(i, p, tipo)
<1>1. /\ v \in Inodo /\ v.path = p /\ v.tipo = tipo /\ v.inumero = i
      /\ v.entradas = SinEntradas /\ v.tam = 0
  BY SinEntradasEs, CamposFrescos DEF InodoNuevo, InodoCero, Inodo, Entrada
<1> HIDE DEF v
<1>2. Ordenado(v)
  BY <1>1, VacioOrdenado
<1> QED
  BY <1>1, <1>2 DEF v

\* One inode is written.
LEMMA TipadoPone ==
    ASSUME NEW bm, NEW ino, Tipado(bm, ino), NEW i \in Inodes, NEW v \in Inodo,
           v.tipo = "DIR" => Ordenado(v), v.tipo = "REG" => v.tam <= MAX_CONTENT
    PROVE  Tipado(bm, [ino EXCEPT ![i] = v])
BY DEF Tipado

LEMMA TipadoBitmap ==
    ASSUME NEW bm, NEW ino, Tipado(bm, ino), NEW i \in Inodes, NEW b \in BOOLEAN
    PROVE  Tipado([bm EXCEPT ![i] = b], ino)
BY DEF Tipado

-----------------------------------------------------------------------------
(***************************************************************************)
(* The entries of one directory.                                           *)
(***************************************************************************)

\* The new entry goes after the used ones.
LEMMA ConEntradaEs ==
    ASSUME Tipado(bitmap_inodes, inodos), NEW d \in Inodes, NEW i \in Inodes,
           inodos[d].tipo = "DIR", HayLugar(d), i # 0,
           inodos[i].inumero = i, inodos[i].path \in Paths, inodos[i].path # <<>>
    PROVE  LET v == ConEntrada(d, i)
           IN  /\ v \in Inodo /\ Ordenado(v)
               /\ v.path = inodos[d].path /\ v.tipo = "DIR" /\ v.inumero = inodos[d].inumero
               /\ \E c \in Slots :
                     /\ inodos[d].entradas[c].inodo = 0
                     /\ v.entradas = [inodos[d].entradas EXCEPT
                                        ![c] = [inodo |-> i, nombre |-> Basename(inodos[i].path)]]
<1> DEFINE w == inodos[d]
           e == [inodo |-> i, nombre |-> Basename(inodos[i].path)]
           s == Primero(Slots \ Entradas(d))
           v == ConEntrada(d, i)
<1>1. w \in Inodo /\ Ordenado(w) /\ e \in Entrada
  BY Partes DEF Tipado, Entrada
<1>2. PICK c \in 0..MAX_DIR_ENTRIES :
         (\A k \in Slots : w.entradas[k].inodo # 0 <=> k < c) /\ w.tam \in {c, c + 1}
  BY <1>1 DEF Ordenado
<1>3. Slots \ Entradas(d) = {k \in Slots : ~(k < c)} /\ Slots \ Entradas(d) # {}
  BY <1>2 DEF Entradas, HayLugar
<1>4. c \in Slots /\ s = c
  <2>1. s \in Slots \ Entradas(d) /\ \A j \in Slots \ Entradas(d) : s <= j
    BY <1>3, Numeros, PrimeroEs
  <2> HIDE DEF s
  <2>2. s \in Nat /\ s < MAX_DIR_ENTRIES /\ ~(s < c) /\ c \in Nat
    BY <1>2, <1>3, <2>1, Numeros
  <2>3. c \in Slots
    BY <2>2, Numeros
  <2> QED
    BY <1>3, <2>1, <2>2, <2>3
<1> HIDE DEF s, e
<1>5. v = [w EXCEPT !.entradas[c] = e, !.tam = @ + 1]
  BY <1>4 DEF ConEntrada, s, e
<1> HIDE DEF w, v
<1>6. /\ v.entradas = [w.entradas EXCEPT ![c] = e] /\ v.tam = w.tam + 1
      /\ v.path = w.path /\ v.tipo = w.tipo /\ v.inumero = w.inumero /\ v.datos = w.datos
  BY <1>1, <1>5 DEF Inodo
<1>7. v.tam \in 0..MAX_DIR_ENTRIES + 1
  BY <1>2, <1>4, <1>6, Numeros
<1>8. v \in Inodo
  BY <1>1, <1>5, <1>6, <1>7 DEF Inodo, Entrada
<1>9. Ordenado(v)
  <2>1. c + 1 \in 0..MAX_DIR_ENTRIES /\ c \in Nat
    BY <1>2, <1>4, Numeros
  <2>2. \A k \in Slots : v.entradas[k].inodo # 0 <=> k < c + 1
    <3> SUFFICES ASSUME NEW k \in Slots
                 PROVE  v.entradas[k].inodo # 0 <=> k < c + 1
      OBVIOUS
    <3>1. k \in Nat
      BY Numeros
    <3>2. CASE k = c
      <4>1. v.entradas[k] = e
        BY <1>1, <1>4, <1>6, <3>2 DEF Inodo
      <4> QED
        BY <2>1, <3>2, <4>1 DEF e
    <3>3. CASE k # c
      <4>1. v.entradas[k] = w.entradas[k]
        BY <1>1, <1>4, <1>6, <3>3 DEF Inodo
      <4> QED
        BY <1>2, <2>1, <3>1, <3>3, <4>1
    <3> QED
      BY <3>2, <3>3
  <2>3. v.tam \in {c + 1, c + 1 + 1}
    BY <1>2, <1>6, <2>1
  <2> QED
    BY <2>1, <2>2, <2>3 DEF Ordenado
<1>10. w.entradas[c].inodo = 0
  BY <1>2, <1>4, Numeros
<1> QED
  BY <1>4, <1>6, <1>8, <1>9, <1>10 DEF v, w, e

\* v with "." and ".."; in a child of the root ".." reads as a free entry.
LEMMA ConPuntosEs ==
    ASSUME Tipado(bitmap_inodes, inodos), NEW i \in Inodes, i # 0, NEW g \in Inodes,
           NEW p \in Paths, inodos[i] = InodoNuevo(i, p, "DIR")
    PROVE  LET v == ConPuntos(i, g)
           IN  /\ v \in Inodo /\ Ordenado(v)
               /\ v.path = p /\ v.tipo = "DIR" /\ v.inumero = i
               /\ \A k \in Slots : v.entradas[k].inodo # 0 =>
                     v.entradas[k] \in {[inodo |-> i, nombre |-> "."], [inodo |-> g, nombre |-> ".."]}
<1> DEFINE w == inodos[i]
           uno == [inodo |-> i, nombre |-> "."]
           dos == [inodo |-> g, nombre |-> ".."]
           v == ConPuntos(i, g)
<1>1. /\ w \in Inodo /\ w.entradas = SinEntradas /\ w.path = p /\ w.tipo = "DIR" /\ w.inumero = i
      /\ uno \in Entrada /\ dos \in Entrada /\ uno.inodo # 0
  <2>1. w = InodoNuevo(i, p, "DIR")
    OBVIOUS
  <2> HIDE DEF w
  <2> QED
    BY <2>1, NuevoEs DEF Entrada
<1>2. v = [w EXCEPT !.entradas[0] = uno, !.entradas[1] = dos, !.tam = 2]
  BY DEF ConPuntos
<1> HIDE DEF w, uno, v
<1>3. /\ v.entradas = [[w.entradas EXCEPT ![0] = uno] EXCEPT ![1] = dos] /\ v.tam = 2
      /\ v.path = w.path /\ v.tipo = w.tipo /\ v.inumero = w.inumero /\ v.datos = w.datos
  BY <1>1, <1>2 DEF Inodo
<1>4. w.entradas \in [Slots -> Entrada]
  BY <1>1 DEF Inodo, Entrada
<1>5. /\ v.entradas \in [Slots -> Entrada]
      /\ v.entradas[0] = uno /\ v.entradas[1] = dos
      /\ \A k \in Slots : k # 0 /\ k # 1 => v.entradas[k].inodo = 0
  <2>1. \A k \in Slots : w.entradas[k].inodo = 0
    BY <1>1, SinEntradasEs
  <2> HIDE DEF dos
  <2> QED
    BY <1>1, <1>3, <1>4, <2>1, Numeros
<1>6. 2 \in 0..MAX_DIR_ENTRIES + 1 /\ 2 \in 0..MAX_DIR_ENTRIES /\ 1 \in 0..MAX_DIR_ENTRIES
  BY SizesAssumption
<1>7. v \in Inodo
  BY <1>1, <1>2, <1>3, <1>5, <1>6 DEF Inodo, Entrada
<1>8. Ordenado(v)
  <2>1. CASE g = 0
    <3>1. \A k \in Slots : v.entradas[k].inodo # 0 <=> k < 1
      BY <1>1, <1>5, <2>1, Numeros
    <3> QED
      BY <1>3, <1>6, <3>1 DEF Ordenado
  <2>2. CASE g # 0
    <3>1. \A k \in Slots : v.entradas[k].inodo # 0 <=> k < 2
      BY <1>1, <1>5, <2>2, Numeros
    <3> QED
      BY <1>3, <1>6, <3>1 DEF Ordenado
  <2> QED
    BY <2>1, <2>2
<1>9. \A k \in Slots : v.entradas[k].inodo # 0 => v.entradas[k] \in {uno, dos}
  BY <1>5
<1> QED
  BY <1>1, <1>3, <1>7, <1>8, <1>9 DEF v, uno

\* w is v without its entry k; what followed it is one place before.
Sin(v, w, k) ==
    /\ w.path = v.path /\ w.tipo = v.tipo /\ w.inumero = v.inumero
    /\ \A j \in Slots : w.entradas[j].inodo # 0 =>
          LET i == IF j < k THEN j ELSE j + 1
          IN  i \in Slots /\ i # k /\ w.entradas[j] = v.entradas[i]
    /\ \A i \in Slots : i # k /\ v.entradas[i].inodo # 0 => \E j \in Slots : w.entradas[j] = v.entradas[i]

\* w is v without its entry named b, if v has one.
SinNombrada(v, w, b) ==
    \/ w = v /\ \A k \in Slots : v.entradas[k].inodo # 0 => v.entradas[k].nombre # b
    \/ \E k \in Slots : v.entradas[k].inodo # 0 /\ v.entradas[k].nombre = b /\ Sin(v, w, k)

\* Of the others only g changed, that way.
SoloPadre(ino, jno, x, g, b) ==
    (\A i \in Inodes \ {x, g} : jno[i] = ino[i]) /\ SinNombrada(ino[g], jno[g], b)

\* A file, or a directory that directorio_esta_vacio finds empty
Quitable(v) ==
    \/ v.tipo = "REG"
    \/ \A k \in Slots : v.entradas[k].inodo # 0 => v.entradas[k].nombre \in {".", ".."}

LEMMA SinEntradaEs ==
    ASSUME Tipado(bitmap_inodes, inodos), NEW d \in Inodes, inodos[d].tipo = "DIR", NEW k \in Entradas(d)
    PROVE  LET w == SinEntradaK(d, k)
           IN  w \in Inodo /\ Ordenado(w) /\ Sin(inodos[d], w, k)
<1> DEFINE v == inodos[d]
           n == v.tam
           e == v.entradas
           f == [j \in Slots |-> IF j < k \/ j >= n THEN e[j]
                                 ELSE IF j = n - 1 \/ j + 1 \notin Slots THEN Vacia
                                 ELSE e[j + 1]]
           w == SinEntradaK(d, k)
<1>1. v \in Inodo /\ Ordenado(v) /\ v.tipo = "DIR"
  BY DEF Tipado
<1>2. w = [v EXCEPT !.entradas = f, !.tam = @ - 1]
  BY DEF SinEntradaK
<1>3. k \in Slots /\ e[k].inodo # 0
  BY DEF Entradas
<1>4. e \in [Slots -> Entrada] /\ Vacia \in Entrada /\ Vacia.inodo = 0
  BY <1>1, Numeros DEF Inodo, Entrada, Vacia
<1> HIDE DEF v, w
<1>5. PICK c \in 0..MAX_DIR_ENTRIES :
         (\A j \in Slots : e[j].inodo # 0 <=> j < c) /\ n \in {c, c + 1}
  BY <1>1 DEF Ordenado
<1>6. /\ k \in Nat /\ c \in Nat /\ k < c /\ c <= MAX_DIR_ENTRIES /\ MAX_DIR_ENTRIES \in Nat
      /\ n \in Nat /\ (n = c \/ n = c + 1)
  BY <1>3, <1>5, Numeros
<1> HIDE DEF n, e
<1>7. ASSUME NEW j \in Slots
      PROVE  f[j] = IF j < k \/ j >= n THEN e[j]
                    ELSE IF j = n - 1 \/ j + 1 \notin Slots THEN Vacia
                    ELSE e[j + 1]
  OBVIOUS
<1>8. f \in [Slots -> Entrada]
  BY <1>4
<1> HIDE DEF f
<1>9. /\ w.entradas = f /\ w.tam = n - 1
      /\ w.path = v.path /\ w.tipo = v.tipo /\ w.inumero = v.inumero /\ w.datos = v.datos
  BY <1>1, <1>2 DEF Inodo, n
<1>10. ASSUME NEW j \in Slots, j < c - 1
       PROVE  LET i == IF j < k THEN j ELSE j + 1
              IN  i \in Slots /\ i # k /\ f[j] = e[i] /\ e[i].inodo # 0
  <2>1. j \in Nat /\ j + 1 \in Slots /\ ~(j >= n) /\ j # n - 1
    BY <1>5, <1>6, <1>10, Numeros
  <2>2. e[j].inodo # 0 /\ e[j + 1].inodo # 0
    BY <1>5, <1>6, <1>10, <2>1
  <2> QED
    BY <1>6, <1>7, <2>1, <2>2
<1>11. ASSUME NEW j \in Slots, ~(j < c - 1)
       PROVE  f[j].inodo = 0
  <2>1. j \in Nat /\ ~(j < k)
    BY <1>6, <1>11, Numeros
  <2>2. CASE j >= n
    <3>1. f[j] = e[j] /\ ~(j < c)
      BY <1>5, <1>6, <1>7, <2>1, <2>2
    <3> QED
      BY <1>5, <3>1
  <2>3. CASE ~(j >= n) /\ (j = n - 1 \/ j + 1 \notin Slots)
    BY <1>4, <1>7, <2>1, <2>3
  <2>4. CASE ~(j >= n) /\ ~(j = n - 1 \/ j + 1 \notin Slots)
    <3>1. f[j] = e[j + 1] /\ ~(j + 1 < c) /\ j + 1 \in Slots
      BY <1>6, <1>7, <1>11, <2>1, <2>4
    <3> QED
      BY <1>5, <3>1
  <2> QED
    BY <2>2, <2>3, <2>4
<1>12. w \in Inodo
  <2>1. n - 1 \in 0..MAX_DIR_ENTRIES + 1
    BY <1>6
  <2> QED
    BY <1>1, <1>2, <1>8, <1>9, <2>1 DEF Inodo, Entrada
<1>13. Ordenado(w)
  <2>1. c - 1 \in 0..MAX_DIR_ENTRIES /\ w.tam \in {c - 1, c - 1 + 1}
    BY <1>6, <1>9
  <2>2. \A j \in Slots : w.entradas[j].inodo # 0 <=> j < c - 1
    BY <1>9, <1>10, <1>11
  <2> QED
    BY <2>1, <2>2 DEF Ordenado
<1>14. Sin(v, w, k)
  <2>1. ASSUME NEW j \in Slots, w.entradas[j].inodo # 0
        PROVE  LET i == IF j < k THEN j ELSE j + 1
               IN  i \in Slots /\ i # k /\ w.entradas[j] = v.entradas[i]
    <3>1. j < c - 1
      BY <1>9, <1>11, <2>1
    <3> QED
      BY <1>9, <1>10, <3>1 DEF e
  <2>2. ASSUME NEW i \in Slots, i # k, v.entradas[i].inodo # 0
        PROVE  \E j \in Slots : w.entradas[j] = v.entradas[i]
    <3>1. i \in Nat /\ i < c
      BY <1>5, <2>2, Numeros DEF e
    <3>2. CASE i < k
      <4>1. i < c - 1 /\ f[i] = e[i]
        BY <1>6, <1>10, <3>1, <3>2
      <4> QED
        BY <1>9, <4>1 DEF e
    <3>3. CASE ~(i < k)
      <4>1. i - 1 \in Slots /\ i - 1 < c - 1 /\ ~(i - 1 < k) /\ i - 1 + 1 = i
        BY <1>6, <2>2, <3>1, <3>3, Numeros
      <4>2. f[i - 1] = e[i]
        BY <1>10, <4>1
      <4> QED
        BY <1>9, <4>1, <4>2 DEF e
    <3> QED
      BY <3>2, <3>3
  <2> QED
    BY <1>9, <2>1, <2>2 DEF Sin
<1> QED
  BY <1>12, <1>13, <1>14 DEF v, w

-----------------------------------------------------------------------------
(***************************************************************************)
(* A superblock, before and after.                                         *)
(***************************************************************************)

\* Nothing in use, and a new file system.
LEMMA NadaBueno ==
    ASSUME NEW bm \in [Inodes -> BOOLEAN], NEW ino \in [Inodes -> Inodo],
           \A i \in Inodes : ~bm[i] /\ ino[i] = InodoCero
    PROVE  Bueno(bm, ino)
<1>1. Tipado(bm, ino)
  BY CeroEs DEF Tipado
<1> QED
  BY <1>1 DEF Bueno, RaizPrimera, Unicos, Ciertas

LEMMA NuevoBueno ==
    ASSUME NEW bm, NEW ino,
           bm = [i \in Inodes |-> i = 0], ino = [i \in Inodes |-> IF i = 0 THEN Raiz ELSE InodoCero]
    PROVE  Bueno(bm, ino)
<1>1. ino[0] = Raiz /\ bm[0] /\ \A i \in Inodes : (bm[i] <=> i = 0) /\ (i # 0 => ino[i] = InodoCero)
  BY Numeros
<1>2. Tipado(bm, ino)
  <2>1. bm \in [Inodes -> BOOLEAN] /\ ino \in [Inodes -> Inodo]
    BY CeroEs, RaizEs
  <2>2. \A i \in Inodes : ino[i] = Raiz \/ ino[i] = InodoCero
    BY <1>1
  <2> QED
    BY <2>1, <2>2, CeroEs, RaizEs DEF Tipado
<1>3. RaizPrimera(bm, ino)
  BY <1>1, RaizEs DEF RaizPrimera
<1>4. Unicos(bm, ino)
  BY <1>1, RaizEs, RaizEsPath DEF Unicos
<1>5. Ciertas(bm, ino)
  BY <1>1, RaizEs, SinEntradasEs DEF Ciertas
<1> QED
  BY <1>2, <1>3, <1>4, <1>5 DEF Bueno

LEMMA CiertaDe ==
    ASSUME NEW bm, NEW ino, Bueno(bm, ino), NEW d \in Inodes, bm[d], ino[d].tipo = "DIR",
           NEW k \in Slots, ino[d].entradas[k].inodo # 0
    PROVE  Cierta(bm, ino, d, k) /\ ino[d].entradas[k].inodo \in Inodes
<1>1. Cierta(bm, ino, d, k)
  BY DEF Bueno, Ciertas
<1>2. ino[d] \in Inodo
  BY DEF Bueno, Tipado
<1>3. ino[d].entradas[k].inodo \in Inodes
  BY <1>2 DEF Inodo
<1> QED
  BY <1>1, <1>3

\* An entry stays true when its directory and what it leads to stay.
LEMMA CiertaSigue ==
    ASSUME NEW bm, NEW ino, NEW d, NEW k, Cierta(bm, ino, d, k),
           NEW bn, NEW jno, jno[d].path = ino[d].path, jno[d].entradas = ino[d].entradas,
           LET x == ino[d].entradas[k].inodo
           IN  /\ bm[x] => bn[x]
               /\ bm[x] => jno[x].tipo = ino[x].tipo /\ jno[x].path = ino[x].path
               /\ bm[x] /\ ino[x].tipo = "DIR" =>
                     \A j \in Slots : Nombra(ino[x].entradas[j], d) => Nombra(jno[x].entradas[j], d)
    PROVE  Cierta(bn, jno, d, k)
BY DEF Cierta

\* crear_inodo: an inode in use that no directory lists.
LEMMA CreaBueno ==
    ASSUME NEW bm, NEW ino, Bueno(bm, ino), NEW i \in Inodes, i # 0, ~bm[i],
           NEW g \in Inodes, bm[g], NEW p \in Paths, NEW tipo \in {"DIR", "REG"},
           \A j \in Inodes : bm[j] => ino[j].path # p
    PROVE  Bueno([bm EXCEPT ![i] = TRUE], [ino EXCEPT ![i] = InodoNuevo(i, p, tipo)])
<1> DEFINE v == InodoNuevo(i, p, tipo)
           bn == [bm EXCEPT ![i] = TRUE]
           jno == [ino EXCEPT ![i] = v]
<1>1. /\ v \in Inodo /\ v.path = p /\ v.tipo = tipo /\ v.inumero = i /\ v.entradas = SinEntradas
      /\ Ordenado(v) /\ v.tam = 0
  BY NuevoEs
<1> HIDE DEF v
<1>2. bm \in [Inodes -> BOOLEAN] /\ ino \in [Inodes -> Inodo]
  BY DEF Bueno, Tipado
<1>3. /\ bn[i] /\ jno[i] = v
      /\ \A j \in Inodes : j # i => bn[j] = bm[j] /\ jno[j] = ino[j]
  BY <1>2
<1>4. Tipado(bn, jno)
  <2>1. Tipado(bm, jno)
    BY <1>1, TipadoPone, Numeros DEF Bueno
  <2> HIDE DEF jno
  <2> QED
    BY <2>1, TipadoBitmap
<1> HIDE DEF bn, jno
<1>5. RaizPrimera(bn, jno)
  BY <1>3, Numeros DEF Bueno, RaizPrimera
<1>6. Unicos(bn, jno)
  BY <1>1, <1>3 DEF Bueno, Unicos
<1>7. Ciertas(bn, jno)
  <2> SUFFICES ASSUME NEW d \in Inodes, bn[d], jno[d].tipo = "DIR",
                      NEW k \in Slots, jno[d].entradas[k].inodo # 0
               PROVE  Cierta(bn, jno, d, k)
    BY DEF Ciertas
  <2>1. d # i
    <3>1. SinEntradas[k].inodo = 0
      BY SinEntradasEs
    <3> QED
      BY <1>1, <1>3, <3>1
  <2>2. Cierta(bm, ino, d, k) /\ ino[d].entradas[k].inodo \in Inodes
    BY <1>3, <2>1, CiertaDe
  <2> DEFINE x == ino[d].entradas[k].inodo
  <2>3. jno[d] = ino[d] /\ x \in Inodes
    BY <1>3, <2>1, <2>2
  <2> HIDE DEF x
  <2>4. /\ bm[x] => bn[x]
        /\ bm[x] => jno[x] = ino[x]
    BY <1>3, <2>3
  <2>5. LET z == ino[d].entradas[k].inodo
        IN  /\ bm[z] => bn[z]
            /\ bm[z] => jno[z].tipo = ino[z].tipo /\ jno[z].path = ino[z].path
            /\ bm[z] /\ ino[z].tipo = "DIR" =>
                  \A j \in Slots : Nombra(ino[z].entradas[j], d) => Nombra(jno[z].entradas[j], d)
    BY <2>4 DEF x
  <2> QED
    BY <2>2, <2>3, <2>5, CiertaSigue
<1> QED
  BY <1>4, <1>5, <1>6, <1>7 DEF Bueno, bn, jno, v

\* What a file holds is nobody's business.
LEMMA DatosBueno ==
    ASSUME NEW bm, NEW ino, Bueno(bm, ino), NEW i \in Inodes, NEW v \in Inodo,
           v.path = ino[i].path, ino[i].tipo = "REG", v.tipo = "REG", v.inumero = ino[i].inumero,
           v.tam <= MAX_CONTENT
    PROVE  Bueno(bm, [ino EXCEPT ![i] = v])
<1> DEFINE jno == [ino EXCEPT ![i] = v]
<1>1. bm \in [Inodes -> BOOLEAN] /\ ino \in [Inodes -> Inodo]
  BY DEF Bueno, Tipado
<1>2. Tipado(bm, jno)
  BY TipadoPone DEF Bueno
<1>3. \A j \in Inodes : /\ jno[j].path = ino[j].path /\ jno[j].tipo = ino[j].tipo
                        /\ jno[j].inumero = ino[j].inumero
                        /\ ino[j].tipo = "DIR" => jno[j].entradas = ino[j].entradas
  BY <1>1
<1> HIDE DEF jno
<1>4. RaizPrimera(bm, jno) /\ Unicos(bm, jno)
  BY <1>3, Numeros DEF Bueno, RaizPrimera, Unicos
<1>5. Ciertas(bm, jno)
  <2> SUFFICES ASSUME NEW d \in Inodes, bm[d], jno[d].tipo = "DIR",
                      NEW k \in Slots, jno[d].entradas[k].inodo # 0
               PROVE  Cierta(bm, jno, d, k)
    BY DEF Ciertas
  <2>1. Cierta(bm, ino, d, k) /\ ino[d].entradas[k].inodo \in Inodes
    BY <1>3, CiertaDe
  <2> QED
    BY <1>3, <2>1, CiertaSigue
<1> QED
  BY <1>2, <1>4, <1>5 DEF Bueno, jno

\* agregar_entrada_directorio: i is listed by its directory.
LEMMA AgregaBueno ==
    ASSUME NEW bm, NEW ino, Bueno(bm, ino), NEW d \in Inodes, NEW i \in Inodes, d # i, i # 0,
           bm[d], bm[i], ino[d].tipo = "DIR", NEW b \in Names, ino[i].path = Append(ino[d].path, b),
           \A k \in Slots : ino[d].entradas[k].inodo # 0 => ino[d].entradas[k].nombre # b,
           NEW v \in Inodo, Ordenado(v),
           v.path = ino[d].path, v.tipo = "DIR", v.inumero = ino[d].inumero,
           NEW c \in Slots, ino[d].entradas[c].inodo = 0,
           v.entradas = [ino[d].entradas EXCEPT ![c] = [inodo |-> i, nombre |-> b]]
    PROVE  /\ Bueno(bm, [ino EXCEPT ![d] = v])
           /\ Nombra(v.entradas[c], i)
<1> DEFINE jno == [ino EXCEPT ![d] = v]
<1>1. bm \in [Inodes -> BOOLEAN] /\ ino \in [Inodes -> Inodo]
  BY DEF Bueno, Tipado
<1>2. Tipado(bm, jno)
  BY TipadoPone DEF Bueno
<1>3. /\ \A k \in Slots : k # c => v.entradas[k] = ino[d].entradas[k]
      /\ v.entradas[c].inodo = i /\ v.entradas[c].nombre = b
  <2>1. ino[d].entradas \in [Slots -> Entrada]
    BY <1>1 DEF Inodo, Entrada
  <2> QED
    BY <2>1
<1>4. jno[d] = v /\ \A j \in Inodes : j # d => jno[j] = ino[j]
  BY <1>1
<1> HIDE DEF jno
<1>5. RaizPrimera(bm, jno) /\ Unicos(bm, jno)
  <2>1. \A j \in Inodes : /\ jno[j].path = ino[j].path /\ jno[j].tipo = ino[j].tipo
                          /\ jno[j].inumero = ino[j].inumero
    BY <1>4
  <2>2. RaizPrimera(bm, jno)
    BY <2>1, Numeros DEF Bueno, RaizPrimera
  <2>3. Unicos(bm, jno)
    BY <2>1 DEF Bueno, Unicos
  <2> QED
    BY <2>2, <2>3
<1>6. \A j \in Slots, x \in Inodes : Nombra(ino[d].entradas[j], x) => Nombra(v.entradas[j], x)
  BY <1>3 DEF Nombra
<1>7. Ciertas(bm, jno)
  <2> SUFFICES ASSUME NEW f \in Inodes, bm[f], jno[f].tipo = "DIR",
                      NEW k \in Slots, jno[f].entradas[k].inodo # 0
               PROVE  Cierta(bm, jno, f, k)
    BY DEF Ciertas
  <2>1. CASE f # d
    <3>1. Cierta(bm, ino, f, k) /\ ino[f].entradas[k].inodo \in Inodes
      BY <1>4, <2>1, CiertaDe
    <3>2. \A x \in Inodes : /\ jno[x].tipo = ino[x].tipo /\ jno[x].path = ino[x].path
                            /\ \A j \in Slots : Nombra(ino[x].entradas[j], f) => Nombra(jno[x].entradas[j], f)
      BY <1>4, <1>6
    <3> QED
      BY <1>4, <2>1, <3>1, <3>2, CiertaSigue
  <2>2. CASE f = d /\ k = c
    <3>1. jno[f].entradas[k].inodo = i /\ jno[f].entradas[k].nombre = b
      BY <1>3, <1>4, <2>2
    <3>2. jno[i].path = Append(jno[f].path, b)
      BY <1>4, <2>2
    <3>3. ASSUME NEW j \in Slots, jno[f].entradas[j].inodo # 0, jno[f].entradas[j].nombre = b, j # k
          PROVE  FALSE
      <4>1. jno[f].entradas[j] = ino[d].entradas[j]
        BY <1>3, <1>4, <2>2, <3>3
      <4> QED
        BY <3>3, <4>1
    <3> QED
      BY <3>1, <3>2, <3>3 DEF Cierta
  <2>3. CASE f = d /\ k # c
    <3> DEFINE e == ino[d].entradas[k]
    <3>1. jno[d].entradas[k] = e
      BY <1>3, <1>4, <2>3
    <3>2. Cierta(bm, ino, d, k) /\ e.inodo \in Inodes /\ e.inodo # 0
      BY <2>3, <3>1, CiertaDe
    <3> HIDE DEF e
    <3>3. CASE e.nombre = "." /\ e.inodo = d
      BY <2>3, <3>1, <3>3 DEF Cierta
    <3>4. CASE /\ e.nombre = ".." /\ bm[e.inodo] /\ ino[e.inodo].tipo = "DIR"
               /\ \E j \in Slots : Nombra(ino[e.inodo].entradas[j], d)
      <4>1. jno[e.inodo].tipo = "DIR" /\ \E j \in Slots : Nombra(jno[e.inodo].entradas[j], d)
        BY <1>4, <1>6, <3>2, <3>4
      <4> QED
        BY <2>3, <3>1, <3>4, <4>1 DEF Cierta
    <3>5. CASE /\ e.nombre \in Names /\ bm[e.inodo]
               /\ ino[e.inodo].path = Append(ino[d].path, e.nombre)
               /\ \A j \in Slots : ino[d].entradas[j].inodo # 0 /\ ino[d].entradas[j].nombre = e.nombre
                                   => j = k
      <4>1. e.nombre # b
        BY <3>2 DEF e
      <4>2. ASSUME NEW j \in Slots, jno[d].entradas[j].inodo # 0, jno[d].entradas[j].nombre = e.nombre
            PROVE  j = k
        <5>1. j # c
          BY <1>3, <1>4, <4>1, <4>2
        <5>2. jno[d].entradas[j] = ino[d].entradas[j]
          BY <1>3, <1>4, <5>1
        <5> QED
          BY <3>5, <4>2, <5>2
      <4>3. jno[e.inodo].path = Append(jno[d].path, e.nombre)
        BY <1>4, <3>2, <3>5
      <4> QED
        BY <2>3, <3>1, <3>5, <4>2, <4>3 DEF Cierta
    <3> QED
      BY <3>2, <3>3, <3>4, <3>5 DEF Cierta, e
  <2> QED
    BY <2>1, <2>2, <2>3
<1>8. Nombra(v.entradas[c], i)
  BY <1>3 DEF Nombra
<1> QED
  BY <1>2, <1>5, <1>7, <1>8 DEF Bueno, jno

\* inicializar_entradas_directorio
LEMMA PuntosBueno ==
    ASSUME NEW bm, NEW ino, Bueno(bm, ino), NEW i \in Inodes, NEW g \in Inodes, i # g,
           bm[i], ino[i].tipo = "DIR", ino[i].entradas = SinEntradas,
           bm[g], ino[g].tipo = "DIR", \E k \in Slots : Nombra(ino[g].entradas[k], i),
           NEW v \in Inodo, Ordenado(v),
           v.path = ino[i].path, v.tipo = "DIR", v.inumero = ino[i].inumero,
           \A k \in Slots : v.entradas[k].inodo # 0 =>
              v.entradas[k] \in {[inodo |-> i, nombre |-> "."], [inodo |-> g, nombre |-> ".."]}
    PROVE  Bueno(bm, [ino EXCEPT ![i] = v])
<1> DEFINE jno == [ino EXCEPT ![i] = v]
<1>1. bm \in [Inodes -> BOOLEAN] /\ ino \in [Inodes -> Inodo]
  BY DEF Bueno, Tipado
<1>2. Tipado(bm, jno)
  BY TipadoPone DEF Bueno
<1>3. jno[i] = v /\ \A j \in Inodes : j # i => jno[j] = ino[j]
  BY <1>1
<1> HIDE DEF jno
<1>4. RaizPrimera(bm, jno) /\ Unicos(bm, jno)
  BY <1>3, Numeros DEF Bueno, RaizPrimera, Unicos
<1>5. \A j \in Slots : \A x : ~Nombra(ino[i].entradas[j], x)
  BY SinEntradasEs DEF Nombra
<1>6. Ciertas(bm, jno)
  <2> SUFFICES ASSUME NEW f \in Inodes, bm[f], jno[f].tipo = "DIR",
                      NEW k \in Slots, jno[f].entradas[k].inodo # 0
               PROVE  Cierta(bm, jno, f, k)
    BY DEF Ciertas
  <2>1. CASE f # i
    <3>1. Cierta(bm, ino, f, k) /\ ino[f].entradas[k].inodo \in Inodes
      BY <1>3, <2>1, CiertaDe
    <3>2. \A x \in Inodes : /\ jno[x].tipo = ino[x].tipo /\ jno[x].path = ino[x].path
                            /\ \A j \in Slots : Nombra(ino[x].entradas[j], f) => Nombra(jno[x].entradas[j], f)
      BY <1>3, <1>5
    <3> QED
      BY <1>3, <2>1, <3>1, <3>2, CiertaSigue
  <2>2. CASE f = i
    <3>1. CASE v.entradas[k] = [inodo |-> i, nombre |-> "."]
      <4>1. jno[f].entradas[k].nombre = "." /\ jno[f].entradas[k].inodo = f
        BY <1>3, <2>2, <3>1
      <4> QED
        BY <4>1 DEF Cierta
    <3>2. CASE v.entradas[k] = [inodo |-> g, nombre |-> ".."]
      <4>1. jno[f].entradas[k].nombre = ".." /\ jno[f].entradas[k].inodo = g
        BY <1>3, <2>2, <3>2
      <4>2. jno[g] = ino[g]
        BY <1>3
      <4> QED
        BY <2>2, <4>1, <4>2 DEF Cierta
    <3> QED
      BY <1>3, <2>2, <3>1, <3>2
  <2> QED
    BY <2>1, <2>2
<1> QED
  BY <1>2, <1>4, <1>6 DEF Bueno, jno

\* eliminar_entrada_directorio and the end of a removal: x goes, and the entry
\* of its directory g that named it, if there was one.
LEMMA QuitaBueno ==
    ASSUME NEW bm, NEW ino, Bueno(bm, ino), NEW x \in Inodes, NEW g \in Inodes, x # g, x # 0,
           bm[x], bm[g], ino[g].tipo = "DIR", NEW b \in Names, ino[x].path = Append(ino[g].path, b),
           Quitable(ino[x]),
           NEW jno, Tipado(bm, jno), SoloPadre(ino, jno, x, g, b)
    PROVE  Bueno([bm EXCEPT ![x] = FALSE], jno)
<1> DEFINE bn == [bm EXCEPT ![x] = FALSE]
<1>1. /\ bm \in [Inodes -> BOOLEAN] /\ ino \in [Inodes -> Inodo]
      /\ RaizPrimera(bm, ino) /\ Unicos(bm, ino)
  BY DEF Bueno, Tipado
<1>0. \A i \in Inodes \ {x, g} : jno[i] = ino[i]
  BY DEF SoloPadre
<1>2. Tipado(bn, jno)
  BY TipadoBitmap
<1>3. ~bn[x] /\ \A i \in Inodes : i # x => bn[i] = bm[i]
  BY <1>1
<1> HIDE DEF bn
\* Entry k of g, the one that goes; -1 when there is none.
<1>4. PICK q \in Slots \cup {-1} :
         /\ q \in Slots => /\ ino[g].entradas[q].inodo # 0 /\ ino[g].entradas[q].nombre = b
                           /\ Sin(ino[g], jno[g], q)
         /\ q \notin Slots => /\ jno[g] = ino[g]
                              /\ \A k \in Slots : ino[g].entradas[k].inodo # 0 => ino[g].entradas[k].nombre # b
  <2>1. -1 \notin Slots
    BY Numeros
  <2> QED
    BY <2>1 DEF SoloPadre, SinNombrada
<1>5. \A i \in Inodes : i # x => jno[i].path = ino[i].path /\ jno[i].tipo = ino[i].tipo
                                 /\ jno[i].inumero = ino[i].inumero
  BY <1>0, <1>4 DEF Sin
<1>6. RaizPrimera(bn, jno)
  BY <1>1, <1>3, <1>5, Numeros DEF RaizPrimera
<1>7. Unicos(bn, jno)
  BY <1>1, <1>3, <1>5 DEF Unicos
\* The place an entry of g had.
<1> DEFINE antes(d, k) == IF d = g /\ q \in Slots /\ ~(k < q) THEN k + 1 ELSE k
<1>8. ASSUME NEW d \in Inodes, d # x, NEW k \in Slots, jno[d].entradas[k].inodo # 0
      PROVE  /\ antes(d, k) \in Slots /\ (d = g => antes(d, k) # q)
             /\ jno[d].entradas[k] = ino[d].entradas[antes(d, k)]
  <2>1. CASE d # g
    BY <1>0, <1>8, <2>1
  <2>2. CASE d = g /\ q \in Slots
    BY <1>4, <1>8, <2>2 DEF Sin
  <2>3. CASE d = g /\ q \notin Slots
    BY <1>4, <1>8, <2>3
  <2> QED
    BY <2>1, <2>2, <2>3
<1>9. ASSUME NEW d \in Inodes, NEW k \in Slots, NEW j \in Slots,
             antes(d, k) = antes(d, j), q \in Slots \cup {-1}
      PROVE  k = j
  <2>1. k \in Nat /\ j \in Nat /\ (q \in Slots => q \in Nat)
    BY Numeros
  <2>2. CASE d = g /\ q \in Slots
    BY <1>9, <2>1, <2>2
  <2>3. CASE ~(d = g /\ q \in Slots)
    BY <1>9, <2>3
  <2> QED
    BY <2>2, <2>3
<1> HIDE DEF antes
\* The entry that goes is the one that led to x.
<1>10. q \in Slots => ino[g].entradas[q].inodo = x
  <2> SUFFICES ASSUME q \in Slots
               PROVE  ino[g].entradas[q].inodo = x
    OBVIOUS
  <2> DEFINE y == ino[g].entradas[q].inodo
  <2>1. Cierta(bm, ino, g, q) /\ y \in Inodes /\ ino[g].entradas[q].nombre = b
    BY <1>4, CiertaDe
  <2>2. bm[y] /\ ino[y].path = ino[x].path
    BY <2>1, Puntos DEF Cierta
  <2> QED
    BY <1>1, <2>1, <2>2 DEF Unicos
<1>11. Ciertas(bn, jno)
  <2> SUFFICES ASSUME NEW d \in Inodes, bn[d], jno[d].tipo = "DIR",
                      NEW k \in Slots, jno[d].entradas[k].inodo # 0
               PROVE  Cierta(bn, jno, d, k)
    BY DEF Ciertas
  <2> DEFINE i == antes(d, k)
             e == ino[d].entradas[i]
             y == e.inodo
  <2>1. d # x /\ bm[d] /\ ino[d].tipo = "DIR"
    BY <1>3, <1>5
  <2>2. i \in Slots /\ (d = g => i # q) /\ jno[d].entradas[k] = e /\ y # 0
    BY <1>8, <2>1
  <2> HIDE DEF i
  <2>3. Cierta(bm, ino, d, i) /\ y \in Inodes
    BY <2>1, <2>2, CiertaDe
  <2>4. CASE e.nombre = "." /\ y = d
    BY <2>2, <2>4 DEF Cierta
  <2>5. CASE /\ e.nombre = ".." /\ bm[y] /\ ino[y].tipo = "DIR"
             /\ \E j \in Slots : Nombra(ino[y].entradas[j], d)
    <3>1. PICK j \in Slots : Nombra(ino[y].entradas[j], d)
      BY <2>5
    <3>2. y # x
      BY <2>5, <3>1, Puntos DEF Nombra, Quitable
    <3>3. \E l \in Slots : Nombra(jno[y].entradas[l], d)
      <4>1. CASE y # g
        BY <1>0, <2>3, <3>1, <3>2, <4>1
      <4>2. CASE y = g /\ q \notin Slots
        BY <1>4, <3>1, <4>2
      <4>3. CASE y = g /\ q \in Slots
        <5>1. j # q
          BY <1>10, <2>1, <3>1, <4>3 DEF Nombra
        <5>2. \E l \in Slots : jno[g].entradas[l] = ino[g].entradas[j]
          BY <1>4, <3>1, <4>3, <5>1 DEF Sin, Nombra
        <5> QED
          BY <3>1, <4>3, <5>2
      <4> QED
        BY <4>1, <4>2, <4>3
    <3>4. bn[y] /\ jno[y].tipo = "DIR"
      BY <1>3, <1>5, <2>3, <2>5, <3>2
    <3> QED
      BY <2>2, <2>5, <3>3, <3>4 DEF Cierta
  <2>6. CASE /\ e.nombre \in Names /\ bm[y]
             /\ ino[y].path = Append(ino[d].path, e.nombre)
             /\ \A j \in Slots : ino[d].entradas[j].inodo # 0 /\ ino[d].entradas[j].nombre = e.nombre
                                 => j = i
    <3>1. y # x
      <4> SUFFICES ASSUME y = x
                   PROVE  FALSE
        OBVIOUS
      <4>1. Append(ino[d].path, e.nombre) = Append(ino[g].path, b)
        BY <2>6
      <4>2. ino[d].path \in Paths /\ ino[g].path \in Paths
        BY <1>1, <2>1 DEF Unicos
      <4>3. ino[d].path \in Seq(Names) /\ ino[g].path \in Seq(Names)
        BY <4>2, Partes
      <4>4. ino[d].path = ino[g].path /\ e.nombre = b
        <5>1. e.nombre \in Names
          BY <2>6
        <5> DEFINE p1 == ino[d].path
                   p2 == ino[g].path
                   n1 == e.nombre
        <5>2. p1 \in Seq(Names) /\ p2 \in Seq(Names) /\ n1 \in Names /\ Append(p1, n1) = Append(p2, b)
          BY <4>1, <4>3, <5>1
        <5> HIDE DEF p1, p2, n1
        <5>3. p1 = p2 /\ n1 = b
          BY <5>2, MismasPartes
        <5> QED
          BY <5>3 DEF p1, p2, n1
      <4>5. d = g
        BY <1>1, <2>1, <4>4 DEF Unicos
      <4>6. CASE q \in Slots
        BY <1>4, <2>2, <2>6, <4>4, <4>5, <4>6
      <4>7. CASE q \notin Slots
        BY <1>4, <2>2, <4>4, <4>5, <4>7
      <4> QED
        BY <4>6, <4>7
    <3>2. bn[y] /\ jno[y].path = Append(jno[d].path, e.nombre)
      BY <1>3, <1>5, <2>1, <2>3, <2>6, <3>1
    <3>3. ASSUME NEW j \in Slots, jno[d].entradas[j].inodo # 0, jno[d].entradas[j].nombre = e.nombre
          PROVE  j = k
      <4>1. antes(d, j) \in Slots /\ jno[d].entradas[j] = ino[d].entradas[antes(d, j)]
        BY <1>8, <2>1, <3>3
      <4>2. antes(d, j) = i
        BY <2>6, <3>3, <4>1
      <4> QED
        BY <1>9, <4>2 DEF i
    <3> QED
      BY <2>2, <2>6, <3>2, <3>3 DEF Cierta
  <2> QED
    BY <2>3, <2>4, <2>5, <2>6 DEF Cierta
<1> QED
  BY <1>2, <1>6, <1>7, <1>11 DEF Bueno, bn

\* The memset of an inode that is not in use.
LEMMA BorraBueno ==
    ASSUME NEW bm, NEW ino, Bueno(bm, ino), NEW i \in Inodes, ~bm[i]
    PROVE  Bueno(bm, [ino EXCEPT ![i] = InodoCero])
<1> DEFINE jno == [ino EXCEPT ![i] = InodoCero]
<1>1. Tipado(bm, jno)
  BY CeroEs, TipadoPone DEF Bueno
<1>2. \A j \in Inodes : bm[j] => jno[j] = ino[j]
  BY DEF Bueno, Tipado
<1> HIDE DEF jno
<1>3. RaizPrimera(bm, jno) /\ Unicos(bm, jno)
  BY <1>2, Numeros DEF Bueno, RaizPrimera, Unicos
<1>4. Ciertas(bm, jno)
  <2> SUFFICES ASSUME NEW d \in Inodes, bm[d], jno[d].tipo = "DIR",
                      NEW k \in Slots, jno[d].entradas[k].inodo # 0
               PROVE  Cierta(bm, jno, d, k)
    BY DEF Ciertas
  <2>1. Cierta(bm, ino, d, k) /\ ino[d].entradas[k].inodo \in Inodes
    BY <1>2, CiertaDe
  <2> QED
    BY <1>2, <2>1, CiertaSigue
<1> QED
  BY <1>1, <1>3, <1>4 DEF Bueno, jno

-----------------------------------------------------------------------------
(***************************************************************************)
(* Lookups.                                                                *)
(***************************************************************************)

LEMMA Busqueda ==
    ASSUME NEW p
    PROVE  LET i == BuscarInodo(p)
           IN  /\ i = -1 => \A j \in Inodes : bitmap_inodes[j] => inodos[j].path # p
               /\ i # -1 => i \in Inodes /\ bitmap_inodes[i] /\ inodos[i].path = p
<1> DEFINE S == {i \in Inodes : bitmap_inodes[i] /\ inodos[i].path = p}
<1>1. S \in SUBSET Nat /\ BuscarInodo(p) = Primero(S)
  BY Numeros DEF BuscarInodo, BuscarEn
<1>2. -1 \notin Nat
  OBVIOUS
<1>3. (S = {} => BuscarInodo(p) = -1) /\ (S # {} => BuscarInodo(p) \in S)
  BY <1>1, PrimeroEs
<1> QED
  BY <1>1, <1>2, <1>3

LEMMA Libre ==
    ASSUME ObtenerInodoLibre # -1
    PROVE  ObtenerInodoLibre \in Inodes /\ ~bitmap_inodes[ObtenerInodoLibre]
<1> DEFINE S == {i \in Inodes : ~bitmap_inodes[i]}
<1>1. S \in SUBSET Nat /\ ObtenerInodoLibre = Primero(S)
  BY Numeros DEF ObtenerInodoLibre
<1>2. (S = {} => ObtenerInodoLibre = -1) /\ (S # {} => ObtenerInodoLibre \in S)
  BY <1>1, PrimeroEs
<1> QED
  BY <1>2

\* A name that is not found is in no entry.
LEMMA SinEntrada ==
    ASSUME Tipado(bitmap_inodes, inodos), NEW d \in Inodes, NEW b, BuscarEntrada(d, b) = -1
    PROVE  \A k \in Entradas(d) : inodos[d].entradas[k].nombre # b
<1> DEFINE S == {j \in Entradas(d) : inodos[d].entradas[j].nombre = b}
           k == Primero(S)
<1>1. S \in SUBSET Nat
  BY Numeros DEF Entradas
<1>2. S # {} => k \in S
  BY <1>1, PrimeroEs
<1>3. ASSUME S # {}
      PROVE  FALSE
  <2>1. k \in Slots /\ k # -1
    BY <1>2, <1>3, Numeros DEF Entradas
  <2>2. inodos[d].entradas[k].inodo \in Inodes
    BY <2>1 DEF Tipado, Inodo
  <2>3. BuscarEntrada(d, b) = inodos[d].entradas[k].inodo
    BY <2>1 DEF BuscarEntrada
  <2> QED
    BY <2>2, <2>3, Numeros
<1> QED
  BY <1>3

\* An entry to remove is one with that name; without one there is none.
LEMMA Eliminar ==
    ASSUME Tipado(bitmap_inodes, inodos), NEW d \in Inodes, inodos[d].tipo = "DIR", NEW b
    PROVE  LET k == EntradaAEliminar(d, b)
           IN  /\ k = -1 => \A j \in Entradas(d) : inodos[d].entradas[j].nombre # b
               /\ k # -1 => k \in Entradas(d) /\ inodos[d].entradas[k].nombre = b
<1> DEFINE S == {k \in Entradas(d) : k < inodos[d].tam /\ inodos[d].entradas[k].nombre = b}
<1>1. S \in SUBSET Nat /\ EntradaAEliminar(d, b) = Primero(S)
  BY Numeros DEF EntradaAEliminar, Entradas
<1>2. \A k \in Entradas(d) : k < inodos[d].tam
  <2>1. PICK c \in 0..MAX_DIR_ENTRIES : /\ \A k \in Slots : inodos[d].entradas[k].inodo # 0 <=> k < c
                                        /\ inodos[d].tam \in {c, c + 1}
    BY DEF Tipado, Ordenado
  <2> SUFFICES ASSUME NEW k \in Entradas(d)
               PROVE  k < inodos[d].tam
    OBVIOUS
  <2>2. k \in Nat /\ k < c
    BY <2>1, Numeros DEF Entradas
  <2> QED
    BY <2>1, <2>2
<1>3. (S = {} => EntradaAEliminar(d, b) = -1) /\ (S # {} => EntradaAEliminar(d, b) \in S)
  BY <1>1, PrimeroEs
<1>4. -1 \notin Nat
  OBVIOUS
<1> QED
  BY <1>1, <1>2, <1>3, <1>4

\* The kernel has resolved the path: its directory is one, in use.
LEMMA CaminoEs ==
    ASSUME NEW p \in Paths, Camino(p)
    PROVE  LET g == BuscarInodo(Dirname(p))
           IN  /\ p # <<>> /\ g \in Inodes /\ bitmap_inodes[g]
               /\ inodos[g].tipo = "DIR" /\ inodos[g].path = Dirname(p)
<1>1. p # <<>> /\ p \in Seq(Names)
  BY Partes DEF Camino, ROOT_PATH
<1>2. Len(p) - 1 \in 0..Len(p) - 1
  BY <1>1, EmptySeq
<1>3. EsDir(Dirname(p))
  BY <1>2 DEF Camino, Dirname
<1> QED
  BY <1>1, <1>3, Busqueda DEF EsDir

-----------------------------------------------------------------------------
(***************************************************************************)
(* The steps.                                                              *)
(***************************************************************************)

LEMMA ElHilo ==
    ASSUME UnHilo
    PROVE  t \in Threads /\ Threads = {t}
BY DEF UnHilo, t

LEMMA QuietoEs ==
    /\ Quieto \in Tarea /\ Quieto.op = "none" /\ Quieto.paso = "fin"
    /\ [Quieto EXCEPT !.op = "guardar", !.paso = "escribir"] \in Tarea
BY Numeros DEF Quieto, Tarea

LEMMA Cambia ==
    ASSUME UnHilo, hilo \in [Threads -> Tarea]
    PROVE  /\ h \in Tarea
           /\ \A x \in Tarea : hilo' = [hilo EXCEPT ![t] = x] => hilo' \in [Threads -> Tarea] /\ h' = x
           /\ \A paso : paso \in {"crear", "agregar", "puntos", "liberar", "borrar", "quitar"} /\ Paso(t, paso) =>
                 /\ hilo' \in [Threads -> Tarea]
                 /\ h'.paso = paso /\ h'.op = h.op /\ h'.path = h.path
                 /\ h'.ino = h.ino /\ h'.padre = h.padre
<1>1. t \in Threads
  BY ElHilo
<1>2. h \in Tarea
  BY <1>1 DEF h
<1>3. ASSUME NEW x \in Tarea, hilo' = [hilo EXCEPT ![t] = x]
      PROVE  hilo' \in [Threads -> Tarea] /\ h' = x
  BY <1>1, <1>3 DEF h
<1>4. ASSUME NEW paso \in {"crear", "agregar", "puntos", "liberar", "borrar", "quitar"}, Paso(t, paso)
      PROVE  /\ hilo' \in [Threads -> Tarea]
             /\ h'.paso = paso /\ h'.op = h.op /\ h'.path = h.path
             /\ h'.ino = h.ino /\ h'.padre = h.padre
  <2> DEFINE x == [h EXCEPT !.paso = paso]
  <2>1. x \in Tarea /\ x.paso = paso /\ x.op = h.op /\ x.path = h.path /\ x.ino = h.ino /\ x.padre = h.padre
    BY <1>2 DEF Tarea
  <2>2. hilo' = [hilo EXCEPT ![t] = x]
    BY <1>4 DEF Paso, h
  <2> HIDE DEF x
  <2>3. hilo' \in [Threads -> Tarea] /\ h' = x
    BY <1>3, <2>1, <2>2
  <2> QED
    BY <2>1, <2>3
<1> QED
  BY <1>2, <1>3, <1>4

\* Where the thread is, and what that says of the superblock.
LEMMA Hechos ==
    ASSUME IInv, UnHilo
    PROVE  /\ Fases /\ h \in Tarea /\ Tipado(bitmap_inodes, inodos) /\ Bueno(VBitmap, VInodos)
           /\ bitmap_inodes \in [Inodes -> BOOLEAN] /\ inodos \in [Inodes -> Inodo]
           /\ fase = "off" => h = Quieto
           /\ h.op # "unlink" /\ h.paso \notin {"liberar", "borrar"} =>
                 Bueno(bitmap_inodes, inodos)
<1>1. Fases /\ Tipado(bitmap_inodes, inodos) /\ Bueno(VBitmap, VInodos) /\ (fase = "off" => h = Quieto)
  BY DEF IInv
<1>2. h \in Tarea
  BY <1>1, Cambia DEF Fases
<1>3. h.op # "unlink" /\ h.paso \notin {"liberar", "borrar"} => Bueno(bitmap_inodes, inodos)
  BY <1>1 DEF VBitmap, VInodos
<1> QED
  BY <1>1, <1>2, <1>3 DEF Tipado

\* A step that ends with nothing half removed.
LEMMA Compone ==
    ASSUME IInv, Fases', Bueno(bitmap_inodes', inodos'),
           h'.op # "unlink", h'.paso \notin {"liberar", "borrar"},
           fase' = fase, fase # "off",
           disk' = disk \/ disk' = Cortado \/ disk' = Imagen(bitmap_inodes', inodos')
    PROVE  IInv'
<1>1. VBitmap' = bitmap_inodes' /\ VInodos' = inodos'
  BY DEF VBitmap, VInodos
<1>2. Bueno(VBitmap', VInodos') /\ Tipado(bitmap_inodes', inodos')
  BY <1>1 DEF Bueno
<1>3. \/ disk' \in {Ausente, Cortado}
      \/ disk'.estado = "completo" /\ Bueno(disk'.bitmap, disk'.inodos)
  <2>1. CASE disk' = disk
    BY <2>1 DEF IInv
  <2>2. CASE disk' = Cortado
    BY <2>2
  <2>3. CASE disk' = Imagen(bitmap_inodes', inodos')
    BY <2>3 DEF Imagen
  <2> QED
    BY <2>1, <2>2, <2>3
<1> QED
  BY <1>2, <1>3 DEF IInv

LEMMA NuevoSigue ==
    ASSUME IInv, UnHilo, NEW op \in {"create", "mkdir"}, NEW p \in Paths, Nuevo(t, op, p)
    PROVE  IInv'
<1> DEFINE i == ObtenerInodoLibre
           g == BuscarInodo(Dirname(p))
           x == [op |-> op, paso |-> "crear", path |-> p, ino |-> i, padre |-> g]
<1>1. /\ h = Quieto /\ fase = "mounted" /\ Camino(p) /\ BuscarInodo(p) = -1
      /\ BuscarEntrada(g, Basename(p)) = -1 /\ i # -1
      /\ hilo' = [hilo EXCEPT ![t] = x] /\ UNCHANGED <<bitmap_inodes, inodos, disk, fase>>
  BY DEF Nuevo, Listo, Empieza, superbloque, h
<1>2. /\ hilo \in [Threads -> Tarea] /\ Tipado(bitmap_inodes, inodos) /\ Bueno(bitmap_inodes, inodos)
  BY <1>1, Hechos, QuietoEs DEF Fases
<1>3. /\ p # <<>> /\ g \in Inodes /\ bitmap_inodes[g]
      /\ inodos[g].tipo = "DIR" /\ inodos[g].path = Dirname(p)
  BY <1>1, CaminoEs
<1>4. i \in Inodes /\ ~bitmap_inodes[i]
  BY <1>1, Libre
<1>5. i # 0 /\ i # g
  BY <1>2, <1>3, <1>4 DEF Bueno, RaizPrimera
<1>6. /\ \A k \in Entradas(g) : inodos[g].entradas[k].nombre # Basename(p)
      /\ \A j \in Inodes : bitmap_inodes[j] => inodos[j].path # p
  BY <1>1, <1>2, <1>3, SinEntrada, Busqueda
<1> HIDE DEF i, g
<1>7. x \in Tarea
  BY <1>3, <1>4 DEF Tarea
<1>8. hilo' \in [Threads -> Tarea] /\ h' = x
  BY <1>1, <1>2, <1>7, Cambia
<1>9. Creando'
  <2>1. EnPadre'
    BY <1>1, <1>3, <1>5, <1>8 DEF EnPadre
  <2>2. SinNombre'
    BY <1>1, <1>6, <1>8 DEF SinNombre, Entradas
  <2> QED
    BY <1>1, <1>4, <1>6, <1>8, <2>1, <2>2 DEF Creando
<1>10. Fases'
  BY <1>8, <1>9 DEF Fases
<1> QED
  BY <1>1, <1>2, <1>8, <1>10, Compone

LEMMA CrearSigue ==
    ASSUME IInv, UnHilo, CrearInodo(t)
    PROVE  IInv'
<1> DEFINE tipo == IF h.op = "mkdir" THEN "DIR" ELSE "REG"
           v == InodoNuevo(h.ino, h.path, tipo)
<1>1. /\ h.paso = "crear"
      /\ bitmap_inodes' = [bitmap_inodes EXCEPT ![h.ino] = TRUE]
      /\ inodos' = [inodos EXCEPT ![h.ino] = v]
      /\ Paso(t, "agregar") /\ UNCHANGED <<disk, fase>>
  BY DEF CrearInodo, PonerInodo, h
<1>2. /\ hilo \in [Threads -> Tarea] /\ h \in Tarea
      /\ bitmap_inodes \in [Inodes -> BOOLEAN] /\ inodos \in [Inodes -> Inodo] /\ fase # "off"
      /\ h.op \in {"create", "mkdir"} /\ Creando
  BY <1>1, Hechos, QuietoEs DEF Fases
<1>3. Bueno(bitmap_inodes, inodos)
  BY <1>1, <1>2, Hechos
<1>4. /\ h.ino \in Inodes /\ h.padre \in Inodes /\ h.ino # h.padre /\ h.ino # 0
      /\ h.path \in Paths /\ h.path # <<>>
      /\ bitmap_inodes[h.padre] /\ inodos[h.padre].tipo = "DIR" /\ inodos[h.padre].path = Dirname(h.path)
      /\ ~bitmap_inodes[h.ino] /\ SinNombre
      /\ \A i \in Inodes : bitmap_inodes[i] => inodos[i].path # h.path
  BY <1>1, <1>2 DEF Creando, EnPadre, Tarea
<1>5. Bueno(bitmap_inodes', inodos')
  BY <1>1, <1>3, <1>4, CreaBueno
<1>6. /\ hilo' \in [Threads -> Tarea] /\ h'.paso = "agregar" /\ h'.op = h.op
      /\ h'.path = h.path /\ h'.ino = h.ino /\ h'.padre = h.padre
  BY <1>1, <1>2, Cambia
<1> HIDE DEF v
<1>7. /\ bitmap_inodes'[h.ino] /\ inodos'[h.ino] = v
      /\ bitmap_inodes'[h.padre] /\ inodos'[h.padre] = inodos[h.padre]
  BY <1>1, <1>2, <1>4
<1>8. Creando'
  <2>1. EnPadre'
    BY <1>4, <1>6, <1>7 DEF EnPadre
  <2>2. SinNombre'
    BY <1>4, <1>6, <1>7 DEF SinNombre, Entradas
  <2> QED
    BY <1>6, <1>7, <2>1, <2>2 DEF Creando, v
<1>9. Fases'
  BY <1>2, <1>6, <1>8 DEF Fases
<1> QED
  BY <1>1, <1>2, <1>5, <1>6, <1>9, Compone

\* The thread has nothing more to do.
LEMMA TerminaFases ==
    ASSUME IInv, UnHilo, Termina(t)
    PROVE  Fases' /\ h'.op = "none" /\ h'.paso = "fin"
<1>1. hilo' \in [Threads -> Tarea] /\ h' = Quieto
  BY Hechos, Cambia, QuietoEs DEF Termina, Fases
<1> QED
  BY <1>1, QuietoEs DEF Fases

LEMMA AgregarSigue ==
    ASSUME IInv, UnHilo, AgregarEntrada(t)
    PROVE  IInv'
<1> DEFINE tipo == IF h.op = "mkdir" THEN "DIR" ELSE "REG"
           w == InodoNuevo(h.ino, h.path, tipo)
           v == ConEntrada(h.padre, h.ino)
           b == Basename(h.path)
<1>1. h.paso = "agregar" /\ UNCHANGED <<bitmap_inodes, disk, fase>>
  BY DEF AgregarEntrada, h
<1>2. /\ hilo \in [Threads -> Tarea] /\ h \in Tarea
      /\ bitmap_inodes \in [Inodes -> BOOLEAN] /\ inodos \in [Inodes -> Inodo] /\ fase # "off"
      /\ h.op \in {"create", "mkdir"} /\ Creando
      /\ Tipado(bitmap_inodes, inodos)
  BY <1>1, Hechos, QuietoEs DEF Fases
<1>3. Bueno(bitmap_inodes, inodos)
  BY <1>1, <1>2, Hechos
<1>4. /\ h.ino \in Inodes /\ h.padre \in Inodes /\ h.ino # h.padre /\ h.ino # 0
      /\ h.path \in Paths /\ h.path # <<>>
      /\ bitmap_inodes[h.padre] /\ inodos[h.padre].tipo = "DIR" /\ inodos[h.padre].path = Dirname(h.path)
      /\ bitmap_inodes[h.ino] /\ SinNombre /\ inodos[h.ino] = w
  BY <1>1, <1>2 DEF Creando, EnPadre, Tarea
<1>5. w.path = h.path /\ w.inumero = h.ino
  BY <1>4, NuevoEs
<1>6. b \in Names /\ h.path = Append(Dirname(h.path), b)
  BY <1>4, Partes
<1> HIDE DEF w, b, v
<1>7. CASE ~HayLugar(h.padre)
  <2>1. Termina(t) /\ inodos' = inodos
    BY <1>7 DEF AgregarEntrada, h
  <2> QED
    BY <1>1, <1>2, <1>3, <2>1, TerminaFases, Compone
<1>8. CASE HayLugar(h.padre)
  <2>1. /\ inodos' = [inodos EXCEPT ![h.padre] = v]
        /\ IF h.op = "mkdir" THEN Paso(t, "puntos") ELSE Termina(t)
    BY <1>8 DEF AgregarEntrada, PonerInodo, h, v
  <2>2. /\ v \in Inodo /\ Ordenado(v)
        /\ v.path = inodos[h.padre].path /\ v.tipo = "DIR" /\ v.inumero = inodos[h.padre].inumero
        /\ \E c \in Slots : /\ inodos[h.padre].entradas[c].inodo = 0
                            /\ v.entradas = [inodos[h.padre].entradas EXCEPT ![c] = [inodo |-> h.ino, nombre |-> b]]
    <3>1. inodos[h.ino].path = h.path /\ inodos[h.ino].inumero = h.ino
      BY <1>4, <1>5
    <3>2. b = Basename(inodos[h.ino].path) /\ v = ConEntrada(h.padre, h.ino)
      BY <3>1 DEF b, v
    <3> DEFINE d == h.padre
               i == h.ino
               u == ConEntrada(d, i)
    <3>3. /\ d \in Inodes /\ i \in Inodes /\ inodos[d].tipo = "DIR" /\ HayLugar(d) /\ i # 0
          /\ inodos[i].inumero = i /\ inodos[i].path \in Paths /\ inodos[i].path # <<>>
      BY <1>4, <1>8, <3>1
    <3>4. v = u /\ b = Basename(inodos[i].path)
      BY <3>2
    <3> HIDE DEF d, i
    <3>5. /\ u \in Inodo /\ Ordenado(u)
          /\ u.path = inodos[d].path /\ u.tipo = "DIR" /\ u.inumero = inodos[d].inumero
          /\ \E c \in Slots : /\ inodos[d].entradas[c].inodo = 0
                              /\ u.entradas = [inodos[d].entradas EXCEPT
                                    ![c] = [inodo |-> i, nombre |-> Basename(inodos[i].path)]]
      BY <1>2, <3>3, ConEntradaEs
    <3> HIDE DEF u
    <3> QED
      BY <3>4, <3>5 DEF d, i
  <2>3. PICK c \in Slots : /\ inodos[h.padre].entradas[c].inodo = 0
                           /\ v.entradas = [inodos[h.padre].entradas EXCEPT ![c] = [inodo |-> h.ino, nombre |-> b]]
    BY <2>2
  <2>4. \A k \in Slots : inodos[h.padre].entradas[k].inodo # 0 => inodos[h.padre].entradas[k].nombre # b
    BY <1>4 DEF SinNombre, Entradas, b
  <2>5. inodos[h.ino].path = Append(inodos[h.padre].path, b)
    BY <1>4, <1>5, <1>6
  <2>6. Bueno(bitmap_inodes, [inodos EXCEPT ![h.padre] = v]) /\ Nombra(v.entradas[c], h.ino)
    BY <1>3, <1>4, <1>6, <2>2, <2>3, <2>4, <2>5, AgregaBueno
  <2>7. Bueno(bitmap_inodes', inodos')
    BY <1>1, <2>1, <2>6
  <2>8. CASE h.op = "mkdir"
    <3>1. /\ hilo' \in [Threads -> Tarea] /\ h'.paso = "puntos" /\ h'.op = h.op
          /\ h'.path = h.path /\ h'.ino = h.ino /\ h'.padre = h.padre
      BY <1>2, <2>1, <2>8, Cambia
    <3>2. inodos'[h.padre] = v /\ inodos'[h.ino] = w
      BY <1>2, <1>4, <2>1
    <3>3. EnPadre'
      BY <1>1, <1>4, <2>2, <3>1, <3>2 DEF EnPadre
    <3>4. Creando'
      BY <1>1, <1>4, <2>6, <2>8, <3>1, <3>2, <3>3 DEF Creando, w
    <3>5. Fases'
      BY <2>8, <3>1, <3>4 DEF Fases
    <3> QED
      BY <1>1, <1>2, <2>7, <2>8, <3>1, <3>5, Compone
  <2>9. CASE h.op # "mkdir"
    BY <1>1, <1>2, <2>1, <2>7, <2>9, TerminaFases, Compone
  <2> QED
    BY <2>8, <2>9
<1> QED
  BY <1>7, <1>8

LEMMA InicializarSigue ==
    ASSUME IInv, UnHilo, InicializarEntradas(t)
    PROVE  IInv'
<1> DEFINE w == InodoNuevo(h.ino, h.path, "DIR")
           v == ConPuntos(h.ino, h.padre)
<1>1. /\ h.paso = "puntos" /\ inodos' = [inodos EXCEPT ![h.ino] = v] /\ Termina(t)
      /\ UNCHANGED <<bitmap_inodes, disk, fase>>
  BY DEF InicializarEntradas, PonerInodo, h
<1>2. /\ h \in Tarea /\ fase # "off" /\ h.op = "mkdir" /\ Creando /\ Tipado(bitmap_inodes, inodos)
  BY <1>1, Hechos, QuietoEs DEF Fases
<1>3. Bueno(bitmap_inodes, inodos)
  BY <1>1, <1>2, Hechos
<1>4. /\ h.ino \in Inodes /\ h.padre \in Inodes /\ h.ino # h.padre /\ h.ino # 0 /\ h.path \in Paths
      /\ bitmap_inodes[h.padre] /\ inodos[h.padre].tipo = "DIR"
      /\ bitmap_inodes[h.ino] /\ inodos[h.ino] = w
      /\ \E k \in Slots : Nombra(inodos[h.padre].entradas[k], h.ino)
  BY <1>1, <1>2 DEF Creando, EnPadre, Tarea
<1>5. w.path = h.path /\ w.inumero = h.ino /\ w.tipo = "DIR" /\ w.entradas = SinEntradas
  BY <1>4, NuevoEs
<1>6. /\ v \in Inodo /\ Ordenado(v) /\ v.path = h.path /\ v.tipo = "DIR" /\ v.inumero = h.ino
      /\ \A k \in Slots : v.entradas[k].inodo # 0 =>
            v.entradas[k] \in {[inodo |-> h.ino, nombre |-> "."], [inodo |-> h.padre, nombre |-> ".."]}
  BY <1>2, <1>4, ConPuntosEs
<1> HIDE DEF v, w
<1>7. Bueno(bitmap_inodes, [inodos EXCEPT ![h.ino] = v])
  BY <1>3, <1>4, <1>5, <1>6, PuntosBueno
<1> QED
  BY <1>1, <1>2, <1>7, TerminaFases, Compone

\* What a removal begins with.
LEMMA UnlinkSigue ==
    ASSUME IInv, UnHilo, NEW p \in Paths, Unlink(t, p)
    PROVE  IInv'
<1> DEFINE i == BuscarInodo(p)
           g == BuscarInodo(Dirname(p))
           x == [op |-> "unlink", paso |-> "liberar", path |-> p, ino |-> i, padre |-> g]
           v == InodoNuevo(i, p, "REG")
<1>1. /\ h = Quieto /\ fase = "mounted" /\ Camino(p) /\ EsArchivo(p)
      /\ hilo' = [hilo EXCEPT ![t] = x] /\ UNCHANGED <<bitmap_inodes, inodos, disk, fase>>
  BY DEF Unlink, Listo, Empieza, superbloque, h
<1>2. /\ hilo \in [Threads -> Tarea] /\ Tipado(bitmap_inodes, inodos) /\ Bueno(bitmap_inodes, inodos)
      /\ bitmap_inodes \in [Inodes -> BOOLEAN] /\ inodos \in [Inodes -> Inodo]
  BY <1>1, Hechos, QuietoEs DEF Fases
<1>3. /\ p # <<>> /\ g \in Inodes /\ bitmap_inodes[g]
      /\ inodos[g].tipo = "DIR" /\ inodos[g].path = Dirname(p)
  BY <1>1, CaminoEs
<1>4. i \in Inodes /\ bitmap_inodes[i] /\ inodos[i].path = p /\ inodos[i].tipo = "REG"
  BY <1>1, Busqueda DEF EsArchivo
<1>5. i # 0 /\ i # g
  BY <1>2, <1>3, <1>4 DEF Bueno, RaizPrimera
<1>6. v \in Inodo /\ v.path = p /\ v.tipo = "REG" /\ v.inumero = i /\ v.tam = 0
  BY <1>4, NuevoEs
<1>7. inodos[i].inumero = i
  BY <1>2, <1>4 DEF Bueno, Unicos
<1> HIDE DEF i, g, v
<1>8. Bueno(bitmap_inodes, [inodos EXCEPT ![i] = v])
  <2>1. v.tam <= MAX_CONTENT
    BY <1>6, Numeros
  <2> QED
    BY <1>2, <1>4, <1>6, <1>7, <2>1, DatosBueno
<1>9. x \in Tarea
  BY <1>3, <1>4 DEF Tarea
<1>10. hilo' \in [Threads -> Tarea] /\ h' = x
  BY <1>1, <1>2, <1>9, Cambia
<1>11. Quitando'
  <2>1. EnPadre'
    BY <1>1, <1>3, <1>5, <1>10 DEF EnPadre
  <2> QED
    BY <1>10, <2>1 DEF Quitando
<1>12. Fases'
  BY <1>10, <1>11 DEF Fases
<1>13. VBitmap' = bitmap_inodes /\ VInodos' = [inodos EXCEPT ![i] = v]
  <2>1. [bitmap_inodes EXCEPT ![i] = TRUE] = bitmap_inodes
    BY <1>2, <1>4
  <2> QED
    BY <1>1, <1>10, <2>1 DEF VBitmap, VInodos, v
<1> QED
  BY <1>1, <1>2, <1>8, <1>12, <1>13 DEF IInv

LEMMA RmdirSigue ==
    ASSUME IInv, UnHilo, NEW p \in Paths, Rmdir(t, p)
    PROVE  IInv'
<1> DEFINE i == BuscarInodo(p)
           g == BuscarInodo(Dirname(p))
           x == [op |-> "rmdir", paso |-> "quitar", path |-> p, ino |-> i, padre |-> g]
<1>1. /\ h = Quieto /\ fase = "mounted" /\ Camino(p) /\ EsDir(p) /\ DirectorioEstaVacio(i)
      /\ hilo' = [hilo EXCEPT ![t] = x] /\ UNCHANGED <<bitmap_inodes, inodos, disk, fase>>
  BY DEF Rmdir, Listo, Empieza, superbloque, h
<1>2. /\ hilo \in [Threads -> Tarea] /\ Bueno(bitmap_inodes, inodos)
  BY <1>1, Hechos, QuietoEs DEF Fases
<1>3. /\ p # <<>> /\ g \in Inodes /\ bitmap_inodes[g]
      /\ inodos[g].tipo = "DIR" /\ inodos[g].path = Dirname(p)
  BY <1>1, CaminoEs
<1>4. i \in Inodes /\ bitmap_inodes[i] /\ inodos[i].path = p /\ inodos[i].tipo = "DIR"
  BY <1>1, Busqueda DEF EsDir
<1>5. Dirname(p) # p
  BY <1>3, Partes
<1>6. i # 0 /\ i # g
  BY <1>2, <1>3, <1>4, <1>5 DEF Bueno, RaizPrimera, ROOT_PATH
<1> HIDE DEF i, g
<1>7. x \in Tarea
  BY <1>3, <1>4 DEF Tarea
<1>8. hilo' \in [Threads -> Tarea] /\ h' = x
  BY <1>1, <1>2, <1>7, Cambia
<1>9. Quitando'
  <2>1. EnPadre'
    BY <1>1, <1>3, <1>6, <1>8 DEF EnPadre
  <2> QED
    BY <1>1, <1>4, <1>8, <2>1 DEF Quitando, DirectorioEstaVacio, Entradas
<1>10. Fases'
  BY <1>8, <1>9 DEF Fases
<1> QED
  BY <1>1, <1>2, <1>8, <1>10, Compone

\* What every step of a removal knows.
LEMMA Removiendo ==
    ASSUME IInv, UnHilo, h.paso \in {"liberar", "borrar", "quitar"}
    PROVE  /\ hilo \in [Threads -> Tarea] /\ h \in Tarea /\ fase # "off"
           /\ bitmap_inodes \in [Inodes -> BOOLEAN] /\ inodos \in [Inodes -> Inodo]
           /\ Tipado(bitmap_inodes, inodos) /\ Bueno(VBitmap, VInodos)
           /\ h.op \in {"unlink", "rmdir"} /\ Quitando
           /\ h.ino \in Inodes /\ h.padre \in Inodes /\ h.ino # h.padre /\ h.ino # 0
           /\ h.path \in Paths /\ h.path # <<>>
           /\ bitmap_inodes[h.padre] /\ inodos[h.padre].tipo = "DIR"
           /\ inodos[h.padre].path = Dirname(h.path)
<1>1. /\ Fases /\ h \in Tarea /\ Tipado(bitmap_inodes, inodos) /\ Bueno(VBitmap, VInodos)
      /\ bitmap_inodes \in [Inodes -> BOOLEAN] /\ inodos \in [Inodes -> Inodo]
      /\ (fase = "off" => h = Quieto)
  BY Hechos
<1>2. h.op \in {"unlink", "rmdir"} /\ Quitando /\ h # Quieto
  BY <1>1, QuietoEs DEF Fases
<1>3. h.ino \in Inodes /\ h.padre \in Inodes
  BY <1>1 DEF Tarea
<1> QED
  BY <1>1, <1>2, <1>3 DEF Quitando, EnPadre, Fases

LEMMA LiberarSigue ==
    ASSUME IInv, UnHilo, Liberar(t)
    PROVE  IInv'
<1>1. /\ h.paso = "liberar" /\ bitmap_inodes' = [bitmap_inodes EXCEPT ![h.ino] = FALSE]
      /\ Paso(t, "borrar") /\ UNCHANGED <<inodos, disk, fase>>
  BY DEF Liberar, h
<1>2. /\ hilo \in [Threads -> Tarea] /\ h \in Tarea /\ fase # "off"
      /\ bitmap_inodes \in [Inodes -> BOOLEAN]
      /\ Tipado(bitmap_inodes, inodos) /\ Bueno(VBitmap, VInodos)
      /\ h.op \in {"unlink", "rmdir"} /\ Quitando
      /\ h.ino \in Inodes /\ h.padre \in Inodes /\ h.ino # h.padre /\ h.ino # 0
      /\ h.path \in Paths /\ h.path # <<>>
      /\ bitmap_inodes[h.padre] /\ inodos[h.padre].tipo = "DIR"
      /\ inodos[h.padre].path = Dirname(h.path)
  BY <1>1, Removiendo
<1>3. /\ hilo' \in [Threads -> Tarea] /\ h'.paso = "borrar" /\ h'.op = h.op
      /\ h'.path = h.path /\ h'.ino = h.ino /\ h'.padre = h.padre
  BY <1>1, <1>2, Cambia
<1>4. bitmap_inodes'[h.padre] /\ ~bitmap_inodes'[h.ino]
  BY <1>1, <1>2
<1>5. Fases'
  <2>1. EnPadre'
    BY <1>1, <1>2, <1>3, <1>4 DEF EnPadre
  <2>2. Quitando'
    BY <1>3, <1>4, <2>1 DEF Quitando
  <2> QED
    BY <1>2, <1>3, <2>2 DEF Fases
<1>6. VBitmap' = VBitmap
  <2>1. CASE h.op = "unlink"
    BY <1>1, <1>2, <1>3, <2>1 DEF VBitmap
  <2>2. CASE h.op = "rmdir"
    BY <1>1, <1>2, <1>3, <2>2 DEF VBitmap
  <2> QED
    BY <1>2, <2>1, <2>2
<1>7. VInodos' = VInodos
  BY <1>1, <1>3 DEF VInodos
<1>8. Tipado(bitmap_inodes', inodos')
  BY <1>1, <1>2, TipadoBitmap
<1> QED
  BY <1>1, <1>2, <1>5, <1>6, <1>7, <1>8 DEF IInv

LEMMA BorrarSigue ==
    ASSUME IInv, UnHilo, Borrar(t)
    PROVE  IInv'
<1>1. /\ h.paso = "borrar" /\ inodos' = [inodos EXCEPT ![h.ino] = InodoCero]
      /\ IF h.op = "unlink" THEN Paso(t, "quitar") ELSE Termina(t)
      /\ UNCHANGED <<bitmap_inodes, disk, fase>>
  BY DEF Borrar, PonerInodo, h
<1>2. /\ hilo \in [Threads -> Tarea] /\ h \in Tarea /\ fase # "off"
      /\ bitmap_inodes \in [Inodes -> BOOLEAN] /\ inodos \in [Inodes -> Inodo]
      /\ Tipado(bitmap_inodes, inodos) /\ Bueno(VBitmap, VInodos)
      /\ h.op \in {"unlink", "rmdir"} /\ Quitando
      /\ h.ino \in Inodes /\ h.padre \in Inodes /\ h.ino # h.padre /\ h.ino # 0
      /\ h.path \in Paths /\ h.path # <<>>
      /\ bitmap_inodes[h.padre] /\ inodos[h.padre].tipo = "DIR"
      /\ inodos[h.padre].path = Dirname(h.path)
  BY <1>1, Removiendo
<1>3. ~bitmap_inodes[h.ino]
  BY <1>1, <1>2 DEF Quitando
<1>4. CASE h.op = "unlink"
  <2>1. /\ hilo' \in [Threads -> Tarea] /\ h'.paso = "quitar" /\ h'.op = h.op
        /\ h'.path = h.path /\ h'.ino = h.ino /\ h'.padre = h.padre
    BY <1>1, <1>2, <1>4, Cambia
  <2>2. inodos'[h.padre] = inodos[h.padre]
    BY <1>1, <1>2
  <2>3. Fases'
    <3>1. EnPadre'
      BY <1>1, <1>2, <2>1, <2>2 DEF EnPadre
    <3>2. Quitando'
      BY <1>1, <1>3, <1>4, <2>1, <3>1 DEF Quitando
    <3> QED
      BY <1>2, <2>1, <3>2 DEF Fases
  <2>4. VBitmap' = VBitmap
    BY <1>1, <1>4, <2>1 DEF VBitmap
  <2>5. VInodos' = VInodos
    <3> DEFINE v == InodoNuevo(h.ino, h.path, "REG")
    <3>1. VInodos = [inodos EXCEPT ![h.ino] = v] /\ VInodos' = [inodos' EXCEPT ![h.ino] = v]
      BY <1>4, <2>1 DEF VInodos
    <3> HIDE DEF v
    <3> QED
      BY <1>1, <1>2, <3>1
  <2>6. Tipado(bitmap_inodes', inodos')
    BY <1>1, <1>2, CeroEs, TipadoPone
  <2> QED
    BY <1>1, <1>2, <2>3, <2>4, <2>5, <2>6 DEF IInv
<1>5. CASE h.op # "unlink"
  <2>1. VBitmap = bitmap_inodes /\ VInodos = inodos
    BY <1>1, <1>2, <1>3, <1>5 DEF VBitmap, VInodos
  <2>2. Bueno(bitmap_inodes', inodos')
    BY <1>1, <1>2, <1>3, <2>1, BorraBueno
  <2> QED
    BY <1>1, <1>2, <1>5, <2>2, TerminaFases, Compone
<1> QED
  BY <1>4, <1>5

\* eliminar_entrada_directorio: of the inodes of VBitmap and VInodos one goes,
\* with the entry of its directory that names it.
LEMMA QuitarEs ==
    ASSUME IInv, UnHilo, QuitarEntrada(t)
    PROVE  /\ h.paso = "quitar" /\ Tipado(VBitmap, inodos') /\ Tipado(bitmap_inodes, inodos')
           /\ VBitmap[h.ino] /\ VBitmap[h.padre] /\ VInodos[h.padre].tipo = "DIR"
           /\ Basename(h.path) \in Names /\ Quitable(VInodos[h.ino])
           /\ VInodos[h.ino].path = Append(VInodos[h.padre].path, Basename(h.path))
           /\ SoloPadre(VInodos, inodos', h.ino, h.padre, Basename(h.path))
<1> DEFINE x == h.ino
           g == h.padre
           b == Basename(h.path)
           k == EntradaAEliminar(g, b)
           v == SinEntradaK(g, k)
           w == InodoNuevo(x, h.path, "REG")
<1>1. /\ h.paso = "quitar"
      /\ IF k = -1 THEN inodos' = inodos ELSE inodos' = [inodos EXCEPT ![g] = v]
      /\ IF h.op = "rmdir" /\ k # -1 THEN Paso(t, "liberar") ELSE Termina(t)
      /\ UNCHANGED <<bitmap_inodes, disk, fase>>
  BY DEF QuitarEntrada, PonerInodo, h
<1>2. /\ hilo \in [Threads -> Tarea] /\ h \in Tarea /\ fase # "off"
      /\ bitmap_inodes \in [Inodes -> BOOLEAN] /\ inodos \in [Inodes -> Inodo]
      /\ Tipado(bitmap_inodes, inodos) /\ Bueno(VBitmap, VInodos)
      /\ h.op \in {"unlink", "rmdir"} /\ Quitando
      /\ x \in Inodes /\ g \in Inodes /\ x # g /\ x # 0
      /\ h.path \in Paths /\ h.path # <<>>
      /\ bitmap_inodes[g] /\ inodos[g].tipo = "DIR"
      /\ inodos[g].path = Dirname(h.path)
  BY <1>1, Removiendo
<1>3. b \in Names /\ h.path = Append(inodos[g].path, b)
  BY <1>2, Partes
<1>4. /\ k = -1 => \A j \in Entradas(g) : inodos[g].entradas[j].nombre # b
      /\ k # -1 => k \in Entradas(g) /\ inodos[g].entradas[k].nombre = b
  <2> HIDE DEF g, b
  <2> QED
    BY <1>2, Eliminar
<1>5. k # -1 => v \in Inodo /\ Ordenado(v) /\ Sin(inodos[g], v, k)
  <2> HIDE DEF g, k
  <2> QED
    BY <1>2, <1>4, SinEntradaEs
<1>6. k # -1 => v.path = inodos[g].path /\ v.tipo = "DIR"
  BY <1>2, <1>5 DEF Sin
<1>7. /\ VBitmap = [bitmap_inodes EXCEPT ![x] = (h.op = "unlink" \/ @)]
      /\ VInodos = IF h.op = "unlink" THEN [inodos EXCEPT ![x] = w] ELSE inodos
  <2>1. CASE h.op = "unlink"
    BY <1>2, <2>1 DEF VBitmap, VInodos
  <2>2. CASE h.op # "unlink"
    BY <1>1, <1>2, <2>2 DEF VBitmap, VInodos
  <2> QED
    BY <2>1, <2>2
<1>8. w.tipo = "REG" /\ w.path = h.path
  BY <1>2, NuevoEs
<1>9. /\ h.op = "unlink" => ~bitmap_inodes[x]
      /\ h.op = "rmdir" => /\ bitmap_inodes[x] /\ inodos[x].path = h.path
                           /\ \A j \in Entradas(x) : inodos[x].entradas[j].nombre \in {".", ".."}
  BY <1>1, <1>2 DEF Quitando
<1> HIDE DEF x, g, b, k, v, w
<1>10. Tipado(bitmap_inodes, inodos')
  <2>1. CASE k = -1
    BY <1>1, <1>2, <2>1
  <2>2. CASE k # -1
    <3>1. inodos' = [inodos EXCEPT ![g] = v] /\ v \in Inodo /\ Ordenado(v) /\ v.tipo # "REG"
      BY <1>1, <1>5, <1>6, <2>2
    <3> QED
      BY <1>2, <3>1, TipadoPone
  <2> QED
    BY <2>1, <2>2
<1>11. Tipado(VBitmap, inodos')
  BY <1>2, <1>10 DEF Tipado, Bueno
<1>12. VBitmap[x] /\ VBitmap[g]
  BY <1>2, <1>7, <1>9
<1>13. VInodos[g] = inodos[g]
  BY <1>2, <1>7
<1>14. VInodos[x].path = Append(VInodos[g].path, b) /\ Quitable(VInodos[x])
  <2>1. CASE h.op = "unlink"
    BY <1>2, <1>3, <1>7, <1>8, <1>13, <2>1 DEF Quitable
  <2>2. CASE h.op = "rmdir"
    BY <1>2, <1>3, <1>7, <1>9, <1>13, <2>2 DEF Quitable, Entradas
  <2> QED
    BY <1>2, <2>1, <2>2
<1>15. \A i \in Inodes \ {x, g} : inodos'[i] = VInodos[i]
  <2>1. \A i \in Inodes \ {x, g} : VInodos[i] = inodos[i]
    BY <1>2, <1>7
  <2>2. \A i \in Inodes \ {x, g} : inodos'[i] = inodos[i]
    BY <1>1, <1>2
  <2> QED
    BY <2>1, <2>2
<1>16. SinNombrada(VInodos[g], inodos'[g], b)
  <2>1. CASE k = -1
    BY <1>1, <1>4, <1>13, <2>1 DEF SinNombrada, Entradas
  <2>2. CASE k # -1
    <3>1. inodos'[g] = v
      BY <1>1, <1>2, <2>2
    <3>2. k \in Slots /\ inodos[g].entradas[k].inodo # 0
      BY <1>4, <2>2 DEF Entradas
    <3> QED
      BY <1>4, <1>5, <1>13, <2>2, <3>1, <3>2 DEF SinNombrada
  <2> QED
    BY <2>1, <2>2
<1> QED
  BY <1>1, <1>2, <1>3, <1>10, <1>11, <1>12, <1>13, <1>14, <1>15, <1>16 DEF SoloPadre, x, g, b

\* The entry goes, and with it the inode of VBitmap and VInodos.
LEMMA QuitarSigue ==
    ASSUME IInv, UnHilo, QuitarEntrada(t)
    PROVE  IInv'
<1> DEFINE x == h.ino
           g == h.padre
           b == Basename(h.path)
           k == EntradaAEliminar(g, b)
           v == SinEntradaK(g, k)
           w == InodoNuevo(x, h.path, "REG")
<1>1. /\ h.paso = "quitar"
      /\ IF k = -1 THEN inodos' = inodos ELSE inodos' = [inodos EXCEPT ![g] = v]
      /\ IF h.op = "rmdir" /\ k # -1 THEN Paso(t, "liberar") ELSE Termina(t)
      /\ UNCHANGED <<bitmap_inodes, disk, fase>>
  BY DEF QuitarEntrada, PonerInodo, h
<1>2. /\ hilo \in [Threads -> Tarea] /\ h \in Tarea /\ fase # "off"
      /\ bitmap_inodes \in [Inodes -> BOOLEAN] /\ inodos \in [Inodes -> Inodo]
      /\ Tipado(bitmap_inodes, inodos) /\ Bueno(VBitmap, VInodos)
      /\ h.op \in {"unlink", "rmdir"} /\ Quitando
      /\ x \in Inodes /\ g \in Inodes /\ x # g /\ x # 0
      /\ h.path \in Paths /\ h.path # <<>>
      /\ bitmap_inodes[g] /\ inodos[g].tipo = "DIR"
      /\ inodos[g].path = Dirname(h.path)
  BY <1>1, Removiendo
<1>4. /\ k = -1 => \A j \in Entradas(g) : inodos[g].entradas[j].nombre # b
      /\ k # -1 => k \in Entradas(g) /\ inodos[g].entradas[k].nombre = b
  <2> HIDE DEF g, b
  <2> QED
    BY <1>2, Eliminar
<1>5. k # -1 => v \in Inodo /\ Ordenado(v) /\ Sin(inodos[g], v, k)
  <2> HIDE DEF g, k
  <2> QED
    BY <1>2, <1>4, SinEntradaEs
<1>6. k # -1 => v.path = inodos[g].path /\ v.tipo = "DIR"
  BY <1>2, <1>5 DEF Sin
<1>7. /\ VBitmap = [bitmap_inodes EXCEPT ![x] = (h.op = "unlink" \/ @)]
      /\ VInodos = IF h.op = "unlink" THEN [inodos EXCEPT ![x] = w] ELSE inodos
  <2>1. CASE h.op = "unlink"
    BY <1>2, <2>1 DEF VBitmap, VInodos
  <2>2. CASE h.op # "unlink"
    BY <1>1, <1>2, <2>2 DEF VBitmap, VInodos
  <2> QED
    BY <2>1, <2>2
<1>9. /\ h.op = "unlink" => ~bitmap_inodes[x]
      /\ h.op = "rmdir" => /\ bitmap_inodes[x] /\ inodos[x].path = h.path
                           /\ \A j \in Entradas(x) : inodos[x].entradas[j].nombre \in {".", ".."}
  BY <1>1, <1>2 DEF Quitando
<1> HIDE DEF x, g, b, k, v, w
<1>10. Tipado(bitmap_inodes, inodos')
  BY QuitarEs
<1>11. Bueno([VBitmap EXCEPT ![x] = FALSE], inodos')
  <2> DEFINE bm == VBitmap
             ino == VInodos
             jno == inodos'
  <2>1. /\ Bueno(bm, ino) /\ bm[x] /\ bm[g] /\ ino[g].tipo = "DIR"
        /\ ino[x].path = Append(ino[g].path, b) /\ Quitable(ino[x])
        /\ Tipado(bm, jno) /\ SoloPadre(ino, jno, x, g, b)
        /\ x \in Inodes /\ g \in Inodes /\ x # g /\ x # 0 /\ b \in Names
    BY <1>2, QuitarEs DEF x, g, b
  <2> HIDE DEF bm, ino, jno
  <2>2. Bueno([bm EXCEPT ![x] = FALSE], jno)
    BY <2>1, QuitaBueno
  <2> QED
    BY <2>2 DEF bm, jno
<1>12. CASE h.op = "unlink"
  <2>1. [VBitmap EXCEPT ![x] = FALSE] = bitmap_inodes
    BY <1>2, <1>7, <1>9, <1>12
  <2>2. Bueno(bitmap_inodes', inodos')
    BY <1>1, <1>11, <2>1
  <2> QED
    BY <1>1, <1>2, <1>12, <2>2, TerminaFases, Compone
<1>13. CASE h.op = "rmdir" /\ k = -1
  <2>1. inodos' = inodos /\ VBitmap = bitmap_inodes /\ VInodos = inodos
    BY <1>1, <1>13 DEF VBitmap, VInodos
  <2>2. Bueno(bitmap_inodes', inodos')
    BY <1>1, <1>2, <2>1
  <2> QED
    BY <1>1, <1>2, <1>13, <2>2, TerminaFases, Compone
<1>14. CASE h.op = "rmdir" /\ k # -1
  <2>1. /\ hilo' \in [Threads -> Tarea] /\ h'.paso = "liberar" /\ h'.op = h.op
        /\ h'.path = h.path /\ h'.ino = h.ino /\ h'.padre = h.padre
    BY <1>1, <1>2, <1>14, Cambia
  <2>2. inodos'[g] = v
    BY <1>1, <1>2, <1>14
  <2>3. EnPadre'
    BY <1>1, <1>2, <1>6, <1>14, <2>1, <2>2 DEF EnPadre, x, g
  <2>4. Fases'
    BY <1>2, <1>14, <2>1, <2>3 DEF Fases, Quitando
  <2>5. VBitmap' = [VBitmap EXCEPT ![x] = FALSE] /\ VInodos' = inodos'
    BY <1>1, <1>14, <2>1 DEF VBitmap, VInodos, x
  <2> QED
    BY <1>1, <1>2, <1>10, <1>11, <2>4, <2>5 DEF IInv
<1> QED
  BY <1>2, <1>12, <1>13, <1>14

\* A file's bytes and size change.
LEMMA ArchivoSigue ==
    ASSUME IInv, UnHilo, NEW p, Listo(t, {p}), EsArchivo(p), NEW v \in Inodo,
           LET i == BuscarInodo(p)
           IN  /\ inodos' = [inodos EXCEPT ![i] = v]
               /\ v.path = inodos[i].path /\ v.tipo = inodos[i].tipo /\ v.inumero = inodos[i].inumero,
           v.tam <= MAX_CONTENT, UNCHANGED <<bitmap_inodes, disk, fase, hilo>>
    PROVE  IInv'
<1> DEFINE i == BuscarInodo(p)
<1>1. h = Quieto /\ fase = "mounted"
  BY DEF Listo, h
<1>2. Fases /\ Bueno(bitmap_inodes, inodos)
  BY <1>1, Hechos, QuietoEs
<1>3. i \in Inodes /\ inodos[i].tipo = "REG"
  BY Busqueda DEF EsArchivo
<1>4. Bueno(bitmap_inodes, inodos')
  <2> HIDE DEF i
  <2>1. /\ inodos' = [inodos EXCEPT ![i] = v]
        /\ v.path = inodos[i].path /\ v.tipo = inodos[i].tipo /\ v.inumero = inodos[i].inumero
    BY DEF i
  <2>2. Bueno(bitmap_inodes, inodos) /\ inodos[i].tipo = "REG" /\ v.tipo = "REG"
    BY <1>2, <1>3, <2>1
  <2>3. Bueno(bitmap_inodes, [inodos EXCEPT ![i] = v])
    BY <1>3, <2>1, <2>2, DatosBueno
  <2> QED
    BY <2>1, <2>3
<1>5. h' = h /\ Fases'
  <2>1. h' = h
    BY DEF h
  <2> QED
    BY <1>1, <1>2, <2>1 DEF Fases
<1> QED
  BY <1>1, <1>4, <1>5, QuietoEs, Compone

LEMMA WriteSigue ==
    ASSUME IInv, UnHilo, NEW p \in Paths, NEW o \in 0..MAX_CONTENT, NEW c \in Bytes, Write(t, p, o, <<c>>)
    PROVE  IInv'
<1> DEFINE i == BuscarInodo(p)
           w == inodos[i]
           b == <<c>>
           n == o + Len(b)
           d == [k \in 1..MAX_CONTENT |-> IF k \in o + 1..n THEN b[k - o] ELSE w.datos[k]]
           s == IF n > w.tam THEN n ELSE w.tam
           v == [w EXCEPT !.datos = d, !.tam = s]
<1>1. /\ Listo(t, {p}) /\ EsArchivo(p) /\ n <= MAX_CONTENT
      /\ inodos' = [inodos EXCEPT ![i] = v] /\ UNCHANGED <<bitmap_inodes, disk, fase, hilo>>
  BY DEF Write, PonerInodo, Cabe
<1>2. i \in Inodes /\ w.tipo = "REG"
  BY <1>1, Busqueda DEF EsArchivo
<1>3. w \in Inodo /\ w.tam <= MAX_CONTENT
  <2> HIDE DEF i
  <2> QED
    BY <1>2, Hechos DEF Tipado
<1> HIDE DEF w, i
<1>4. n = o + 1 /\ b[1] = c /\ o \in Nat
  BY Numeros
<1>5. d \in [1..MAX_CONTENT -> Bytes]
  <2> SUFFICES ASSUME NEW k \in 1..MAX_CONTENT
               PROVE  d[k] \in Bytes
    OBVIOUS
  <2>1. w.datos[k] \in Bytes
    BY <1>3 DEF Inodo
  <2>2. k \in o + 1..n => b[k - o] = c
    BY <1>4, Numeros
  <2> QED
    BY <2>1, <2>2
<1>6. s \in 0..MAX_CONTENT
  <2>1. w.tam \in Nat
    <3>1. 0..MAX_CONTENT \cup 0..MAX_DIR_ENTRIES + 1 \subseteq Nat
      OBVIOUS
    <3> QED
      BY <1>3, <3>1 DEF Inodo
  <2> HIDE DEF n
  <2> QED
    BY <1>1, <1>3, <1>4, <2>1, Numeros
<1> HIDE DEF d, s
<1>7. /\ v \in Inodo /\ v.tam = s
      /\ v.path = w.path /\ v.tipo = w.tipo /\ v.inumero = w.inumero
  BY <1>3, <1>5, <1>6 DEF Inodo
<1>8. s <= MAX_CONTENT
  BY <1>6, Numeros
<1> HIDE DEF v
<1> QED
  BY <1>1, <1>7, <1>8, ArchivoSigue DEF i, w

LEMMA TruncateSigue ==
    ASSUME IInv, UnHilo, NEW p \in Paths, NEW n \in 0..MAX_CONTENT, Truncate(t, p, n)
    PROVE  IInv'
<1> DEFINE i == BuscarInodo(p)
           w == inodos[i]
           d == ConCeros(w.datos, n, w.tam)
           v == [w EXCEPT !.datos = d, !.tam = n]
<1>1. /\ Listo(t, {p}) /\ EsArchivo(p)
      /\ inodos' = [inodos EXCEPT ![i] = v] /\ UNCHANGED <<bitmap_inodes, disk, fase, hilo>>
  BY DEF Truncate, PonerInodo
<1>2. i \in Inodes
  BY <1>1, Busqueda DEF EsArchivo
<1>3. w \in Inodo
  <2> HIDE DEF i
  <2> QED
    BY <1>2, Hechos
<1> HIDE DEF w, i
<1>4. d \in [1..MAX_CONTENT -> Bytes]
  BY <1>3, BytesAssumption DEF ConCeros, Inodo
<1> HIDE DEF d
<1>5. /\ v \in Inodo /\ v.tam = n
      /\ v.path = w.path /\ v.tipo = w.tipo /\ v.inumero = w.inumero
  BY <1>3, <1>4 DEF Inodo
<1>6. n <= MAX_CONTENT
  BY Numeros
<1> HIDE DEF v
<1> QED
  BY <1>1, <1>5, <1>6, ArchivoSigue DEF i, w

\* The file is opened, and so cut short.
LEMMA AbrirSigue ==
    ASSUME IInv, UnHilo, h = Quieto, Abrir(t), fase # "off", fase' \in {"mounted", "unmounting"}
    PROVE  IInv'
<1> DEFINE x == [Quieto EXCEPT !.op = "guardar", !.paso = "escribir"]
<1>1. hilo' = [hilo EXCEPT ![t] = x] /\ disk' = Cortado /\ UNCHANGED <<bitmap_inodes, inodos>>
  BY DEF Abrir, superbloque
<1>2. /\ hilo \in [Threads -> Tarea] /\ Tipado(bitmap_inodes, inodos) /\ Bueno(bitmap_inodes, inodos)
  BY Hechos, QuietoEs DEF Fases
<1>3. hilo' \in [Threads -> Tarea] /\ h' = x
  BY <1>1, <1>2, QuietoEs, Cambia
<1>4. x.op = "guardar" /\ x.paso = "escribir"
  BY DEF Quieto
<1> HIDE DEF x
<1>5. Fases'
  BY <1>3, <1>4 DEF Fases
<1>6. VBitmap' = bitmap_inodes' /\ VInodos' = inodos'
  BY <1>3, <1>4 DEF VBitmap, VInodos
<1> QED
  BY <1>1, <1>2, <1>5, <1>6 DEF IInv

\* The process ends; what is on disk stays.
LEMMA MuereSigue ==
    ASSUME UnHilo, Muere, hilo \in [Threads -> Tarea],
           \/ disk' \in {Ausente, Cortado}
           \/ disk'.estado = "completo" /\ Bueno(disk'.bitmap, disk'.inodos)
    PROVE  IInv'
<1>1. /\ fase' = "off" /\ bitmap_inodes' = [i \in Inodes |-> FALSE]
      /\ inodos' = [i \in Inodes |-> InodoCero] /\ hilo' = [x \in Threads |-> Quieto]
  BY DEF Muere
<1>2. Bueno(bitmap_inodes', inodos')
  <2> DEFINE bm == bitmap_inodes'
             ino == inodos'
  <2>1. /\ bm \in [Inodes -> BOOLEAN] /\ ino \in [Inodes -> Inodo]
        /\ \A i \in Inodes : ~bm[i] /\ ino[i] = InodoCero
    BY <1>1, CeroEs
  <2> HIDE DEF bm, ino
  <2>2. Bueno(bm, ino)
    BY <2>1, NadaBueno
  <2> QED
    BY <2>2 DEF bm, ino
<1>3. h' = Quieto /\ Fases'
  <2>1. hilo' \in [Threads -> Tarea]
    BY <1>1, QuietoEs
  <2>2. h' = Quieto
    BY <1>1, ElHilo DEF h
  <2> QED
    BY <2>1, <2>2 DEF Fases
<1>4. VBitmap' = bitmap_inodes' /\ VInodos' = inodos'
  BY <1>3, QuietoEs DEF VBitmap, VInodos
<1> QED
  BY <1>1, <1>2, <1>3, <1>4 DEF IInv, Bueno

LEMMA EscribirSigue ==
    ASSUME IInv, UnHilo, Escribir(t)
    PROVE  IInv'
<1>1. /\ h.paso = "escribir" /\ disk' = Imagen(bitmap_inodes, inodos)
      /\ \/ fase = "mounted" /\ Termina(t) /\ UNCHANGED <<bitmap_inodes, inodos, fase>>
         \/ fase = "unmounting" /\ Muere
  BY DEF Escribir, superbloque, h
<1>2. hilo \in [Threads -> Tarea] /\ Bueno(bitmap_inodes, inodos)
  BY <1>1, Hechos, QuietoEs DEF Fases
<1>3. disk'.estado = "completo" /\ Bueno(disk'.bitmap, disk'.inodos)
  BY <1>1, <1>2 DEF Imagen
<1>4. CASE fase = "mounted" /\ Termina(t) /\ UNCHANGED <<bitmap_inodes, inodos, fase>>
  <2>1. bitmap_inodes' = bitmap_inodes /\ inodos' = inodos /\ fase' = fase /\ fase # "off"
    BY <1>4
  <2>2. Fases' /\ h'.op = "none" /\ h'.paso = "fin"
    BY <1>4, TerminaFases
  <2> QED
    BY <1>1, <1>2, <2>1, <2>2, Compone
<1>5. CASE fase = "unmounting" /\ Muere
  BY <1>2, <1>3, <1>5, MuereSigue
<1> QED
  BY <1>1, <1>4, <1>5

LEMMA CrashSigue ==
    ASSUME IInv, UnHilo, Crash
    PROVE  IInv'
<1>1. Muere /\ disk' = disk
  BY DEF Crash
<1>2. /\ hilo \in [Threads -> Tarea]
      /\ \/ disk \in {Ausente, Cortado}
         \/ disk.estado = "completo" /\ Bueno(disk.bitmap, disk.inodos)
  BY DEF IInv, Fases
<1> QED
  BY <1>1, <1>2, MuereSigue

LEMMA MountSigue ==
    ASSUME IInv, UnHilo, Mount
    PROVE  IInv'
<1>1. fase = "off" /\ fase' = "mounted" /\ disk' = disk /\ hilo' = hilo
  BY DEF Mount
<1>2. /\ h = Quieto /\ Fases /\ Bueno(bitmap_inodes, inodos)
      /\ \/ disk \in {Ausente, Cortado}
         \/ disk.estado = "completo" /\ Bueno(disk.bitmap, disk.inodos)
  BY <1>1, Hechos, QuietoEs DEF IInv
<1>3. Bueno(bitmap_inodes', inodos')
  <2>1. CASE /\ bitmap_inodes' = [i \in Inodes |-> i = 0]
             /\ inodos' = [i \in Inodes |-> IF i = 0 THEN Raiz ELSE InodoCero]
    BY <2>1, NuevoBueno
  <2>2. CASE UNCHANGED superbloque
    BY <1>2, <2>2 DEF superbloque
  <2>3. CASE disk.estado = "completo" /\ bitmap_inodes' = disk.bitmap /\ inodos' = disk.inodos
    <3>1. disk \notin {Ausente, Cortado}
      BY <2>3 DEF Ausente, Cortado
    <3> QED
      BY <1>2, <2>3, <3>1
  <2> QED
    BY <2>1, <2>2, <2>3 DEF Mount
<1>4. h' = h /\ Fases'
  <2>1. h' = h
    BY <1>1 DEF h
  <2> QED
    BY <1>1, <1>2, <2>1 DEF Fases
<1>5. VBitmap' = bitmap_inodes' /\ VInodos' = inodos'
  BY <1>2, <1>4, QuietoEs DEF VBitmap, VInodos
<1> QED
  BY <1>1, <1>2, <1>3, <1>4, <1>5 DEF IInv, Bueno

LEMMA QuedaIgual ==
    ASSUME IInv, UNCHANGED vars
    PROVE  IInv'
<1>1. /\ bitmap_inodes' = bitmap_inodes /\ inodos' = inodos /\ disk' = disk
      /\ fase' = fase /\ hilo' = hilo
  BY DEF vars
<1>2. h' = h
  BY <1>1 DEF h
<1>3. VBitmap' = VBitmap /\ VInodos' = VInodos
  BY <1>1, <1>2 DEF VBitmap, VInodos
<1>4. Fases'
  <2>1. Creando' = Creando /\ Quitando' = Quitando
    BY <1>1, <1>2 DEF Creando, Quitando, EnPadre, SinNombre, Entradas
  <2> QED
    BY <1>1, <1>2, <2>1 DEF IInv, Fases
<1> QED
  BY <1>1, <1>2, <1>3, <1>4 DEF IInv

LEMMA PasoSigue ==
    ASSUME IInv, UnHilo, [Next]_vars
    PROVE  IInv'
<1>1. CASE UNCHANGED vars
  BY <1>1, QuedaIgual
<1>2. CASE Mount
  BY <1>2, MountSigue
<1>3. CASE Crash
  BY <1>3, CrashSigue
<1>4. CASE Pide(t)
  <2>1. ASSUME NEW p \in Paths, Nuevo(t, "create", p) \/ Nuevo(t, "mkdir", p)
        PROVE  IInv'
    BY <2>1, NuevoSigue
  <2>2. ASSUME NEW p \in Paths, Unlink(t, p)
        PROVE  IInv'
    BY <2>2, UnlinkSigue
  <2>3. ASSUME NEW p \in Paths, Rmdir(t, p)
        PROVE  IInv'
    BY <2>3, RmdirSigue
  <2>4. ASSUME NEW p \in Paths, NEW n \in 0..MAX_CONTENT, Truncate(t, p, n)
        PROVE  IInv'
    BY <2>4, TruncateSigue
  <2>5. ASSUME NEW p \in Paths, NEW o \in 0..MAX_CONTENT, NEW c \in Bytes, Write(t, p, o, <<c>>)
        PROVE  IInv'
    BY <2>5, WriteSigue
  <2>6. CASE Flush(t)
    <3>1. h = Quieto /\ fase = "mounted" /\ fase' = fase /\ Abrir(t)
      BY <2>6 DEF Flush, Listo, h
    <3> QED
      BY <3>1, AbrirSigue
  <2>7. CASE Unmount(t)
    <3>1. h = Quieto /\ fase = "mounted" /\ fase' = "unmounting" /\ Abrir(t)
      BY <2>7, ElHilo DEF Unmount, h
    <3> QED
      BY <3>1, AbrirSigue
  <2> QED
    BY <1>4, <2>1, <2>2, <2>3, <2>4, <2>5, <2>6, <2>7 DEF Pide
<1>5. CASE Sigue(t)
  BY <1>5, CrearSigue, AgregarSigue, InicializarSigue, LiberarSigue, BorrarSigue, QuitarSigue,
     EscribirSigue DEF Sigue
<1> QED
  BY <1>1, <1>2, <1>3, <1>4, <1>5, ElHilo DEF Next

LEMMA EmpiezaBien ==
    ASSUME UnHilo, Init
    PROVE  IInv
<1>1. /\ bitmap_inodes \in [Inodes -> BOOLEAN] /\ inodos \in [Inodes -> Inodo]
      /\ \A i \in Inodes : ~bitmap_inodes[i] /\ inodos[i] = InodoCero
      /\ disk = Ausente /\ fase = "off"
  BY CeroEs DEF Init
<1>2. Bueno(bitmap_inodes, inodos)
  BY <1>1, NadaBueno
<1>3. h = Quieto /\ hilo \in [Threads -> Tarea]
  BY ElHilo, QuietoEs DEF Init, h
<1>4. VBitmap = bitmap_inodes /\ VInodos = inodos
  BY <1>3, QuietoEs DEF VBitmap, VInodos
<1> QED
  BY <1>1, <1>2, <1>3, <1>4 DEF IInv, Fases, Bueno

-----------------------------------------------------------------------------
(***************************************************************************)
(* What follows.                                                           *)
(***************************************************************************)

\* Between operations, and at every step of one, the superblock is good or a
\* removal is under way that leaves a good one; and so is what is on disk.
THEOREM Invariante ==
    ASSUME UnHilo
    PROVE  Spec => []IInv
<1>1. Init => IInv
  BY EmpiezaBien
<1>2. IInv /\ [Next]_vars => IInv'
  BY PasoSigue
<1> QED
  BY <1>1, <1>2, PTL DEF Spec

\* Sizes stay within content and entries within the table of inodes, in memory
\* and in a file written by fisopfs_destroy.
THEOREM TypeCorrect ==
    ASSUME UnHilo
    PROVE  Spec => []TypeOK
<1>1. IInv => TypeOK
  <2> SUFFICES ASSUME IInv
               PROVE  TypeOK
    OBVIOUS
  <2>1. ASSUME NEW bm, NEW ino, Tipado(bm, ino)
        PROVE  <<bm, ino>> \in Superbloques
    <3>1. bm \in [Inodes -> BOOLEAN] /\ ino \in [Inodes -> Inodo]
      BY <2>1 DEF Tipado
    <3> QED
      BY <3>1 DEF Superbloques, Inodo
  <2>2. superbloque \in Superbloques
    BY <2>1 DEF IInv, superbloque
  <2>3. disk \in {Ausente, Cortado} \/ <<disk.bitmap, disk.inodos>> \in Superbloques
    BY <2>1 DEF IInv, Bueno
  <2>4. \A u \in Threads : hilo[u] \in Tarea
    BY DEF IInv, Fases
  <2>5. \A i \in Inodes : inodos[i].tipo = "REG" => inodos[i].tam <= MAX_CONTENT
    BY DEF IInv, Tipado
  <2>6. fase \in {"off", "mounted", "unmounting"}
    BY DEF IInv
  <2> QED
    BY <2>2, <2>3, <2>4, <2>5, <2>6 DEF TypeOK, Tarea
<1> QED
  BY <1>1, Invariante, PTL

\* Between operations an entry of a directory names an inode in use, the one a
\* lookup of that name finds: no step of an operation, crash or mount leaves a
\* dangling name or a name twice.
THEOREM EntriesTrue ==
    ASSUME UnHilo
    PROVE  Spec => []EntriesAreTrue
<1>1. IInv => EntriesAreTrue
  <2> SUFFICES ASSUME IInv, Quieta,
                      NEW d \in Inodes, bitmap_inodes[d], inodos[d].tipo = "DIR", NEW k \in Entradas(d)
               PROVE  LET e == inodos[d].entradas[k]
                      IN  \/ e.nombre \in {".", ".."} /\ bitmap_inodes[e.inodo]
                          \/ /\ k \in Listado(d)
                             /\ BuscarInodo(Append(inodos[d].path, e.nombre)) = e.inodo
                             /\ \A j \in Entradas(d) \ {k} : inodos[d].entradas[j].nombre # e.nombre
    BY DEF EntriesAreTrue
  <2> DEFINE e == inodos[d].entradas[k]
             y == e.inodo
             p == Append(inodos[d].path, e.nombre)
  <2>1. h.op \in {"none", "guardar"}
    BY ElHilo DEF Quieta, h
  <2>2. h.paso \notin {"liberar", "borrar"} /\ h.op # "unlink"
    BY <2>1, QuietoEs DEF IInv, Fases
  <2>3. Bueno(bitmap_inodes, inodos)
    BY <2>2, Hechos
  <2>4. k \in Slots /\ y # 0
    BY DEF Entradas
  <2>5. Cierta(bitmap_inodes, inodos, d, k) /\ y \in Inodes
    BY <2>3, <2>4, CiertaDe
  <2>6. CASE e.nombre = "." /\ y = d
    BY <2>6
  <2>7. CASE e.nombre = ".." /\ bitmap_inodes[y]
    BY <2>7
  <2>8. CASE /\ e.nombre \in Names /\ bitmap_inodes[y] /\ inodos[y].path = p
             /\ \A j \in Slots : inodos[d].entradas[j].inodo # 0 /\ inodos[d].entradas[j].nombre = e.nombre
                                 => j = k
    <3>1. k < inodos[d].tam
      <4>1. PICK c \in 0..MAX_DIR_ENTRIES : /\ \A j \in Slots : inodos[d].entradas[j].inodo # 0 <=> j < c
                                            /\ inodos[d].tam \in {c, c + 1}
        BY <2>3 DEF Bueno, Tipado, Ordenado
      <4>2. k \in Nat /\ k < c
        BY <2>4, <4>1, Numeros
      <4> QED
        BY <4>1, <4>2
    <3>2. k \in Listado(d)
      BY <2>8, <3>1, Puntos DEF Listado
    <3>3. BuscarInodo(p) = y
      <4> HIDE DEF y, p
      <4>1. BuscarInodo(p) # -1
        BY <2>5, <2>8, Busqueda
      <4>2. BuscarInodo(p) \in Inodes /\ bitmap_inodes[BuscarInodo(p)] /\ inodos[BuscarInodo(p)].path = p
        BY <4>1, Busqueda
      <4> QED
        BY <2>3, <2>5, <2>8, <4>2 DEF Bueno, Unicos
    <3>4. \A j \in Entradas(d) \ {k} : inodos[d].entradas[j].nombre # e.nombre
      BY <2>8 DEF Entradas
    <3> QED
      BY <3>2, <3>3, <3>4
  <2> QED
    BY <2>5, <2>6, <2>7, <2>8 DEF Cierta
<1> QED
  BY <1>1, Invariante, PTL
=============================================================================
