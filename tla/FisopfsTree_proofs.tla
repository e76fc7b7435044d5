------------------------ MODULE FisopfsTree_proofs -------------------------
(***************************************************************************)
(* With one FUSE thread Fisopfs keeps every inode in use listed by its     *)
(* directory, unless that directory was full when it was created, and      *)
(* implements the tree of TreeFs: every step of every operation, save,     *)
(* crash and mount is a call of the tree or is invisible.                  *)
(***************************************************************************)
EXTENDS Fisopfs_proofs, FisopfsLost

\* A directory in use lists i under its name.
EnLista(bm, ino, i) ==
    \E d \in Inodes, k \in Slots :
        /\ bm[d] /\ ino[d].tipo = "DIR" /\ ino[d].path = Dirname(ino[i].path)
        /\ Nombra(ino[d].entradas[k], i)

\* Every inode in use is in a list, but the root, x and those of P.
Listados(bm, ino, x, P) == \A i \in Inodes \ ({0, x} \cup P) : bm[i] => EnLista(bm, ino, i)

\* Past its end a file has only zeros.
FinEnCeros(ino) ==
    \A i \in Inodes : ino[i].tipo = "REG" =>
        \A k \in 1..MAX_CONTENT : k > ino[i].tam => ino[i].datos[k] = 0

\* The inode in use that is in no list yet, or that is being removed
Pendiente == IF h.paso = "agregar" \/ h.op = "unlink" THEN h.ino ELSE 0

NadiePerdido == perdidos = {}

\* What is about to be freed is still the only one with its path.
Liberando ==
    h.paso = "liberar" =>
        /\ bitmap_inodes[h.ino] /\ inodos[h.ino].path = h.path
        /\ inodos[h.ino].tipo = IF h.op = "unlink" THEN "REG" ELSE "DIR"
        /\ \A i \in Inodes \ {h.ino} : bitmap_inodes[i] => inodos[i].path # h.path

Arbolado ==
    /\ Listados(VBitmap, VInodos, Pendiente, perdidos)
    /\ FinEnCeros(inodos)
    /\ Liberando
    /\ disk.estado = "completo" => /\ Listados(disk.bitmap, disk.inodos, 0, perdidosEnDisco)
                                  /\ FinEnCeros(disk.inodos)

-----------------------------------------------------------------------------
(***************************************************************************)
(* The lists of a superblock, before and after.                            *)
(***************************************************************************)

LEMMA EnListaSigue ==
    ASSUME NEW bm, NEW ino, NEW i \in Inodes, EnLista(bm, ino, i),
           NEW bn, NEW jno, jno[i].path = ino[i].path,
           \A d \in Inodes : bm[d] /\ ino[d].tipo = "DIR" =>
              \/ /\ bn[d] /\ jno[d].tipo = "DIR" /\ jno[d].path = ino[d].path
                 /\ \A k \in Slots : Nombra(ino[d].entradas[k], i) =>
                       \E j \in Slots : Nombra(jno[d].entradas[j], i)
              \/ \A k \in Slots : ~Nombra(ino[d].entradas[k], i)
    PROVE  EnLista(bn, jno, i)
<1>1. PICK d \in Inodes, k \in Slots :
         /\ bm[d] /\ ino[d].tipo = "DIR" /\ ino[d].path = Dirname(ino[i].path)
         /\ Nombra(ino[d].entradas[k], i)
  BY DEF EnLista
<1>2. /\ bn[d] /\ jno[d].tipo = "DIR" /\ jno[d].path = ino[d].path
      /\ \E j \in Slots : Nombra(jno[d].entradas[j], i)
  BY <1>1
<1> QED
  BY <1>1, <1>2 DEF EnLista

\* Nothing that was listed is lost: only inodes in use matter.
LEMMA ListadosIgual ==
    ASSUME NEW bm, NEW ino, NEW x, NEW P, Listados(bm, ino, x, P), NEW bn, NEW jno, NEW Q, P \subseteq Q,
           \A i \in Inodes : bn[i] => bm[i],
           \A i \in Inodes : bm[i] =>
              /\ bn[i] /\ jno[i].path = ino[i].path /\ jno[i].tipo = ino[i].tipo
              /\ ino[i].tipo = "DIR" => jno[i].entradas = ino[i].entradas
    PROVE  Listados(bn, jno, x, Q)
<1> SUFFICES ASSUME NEW i \in Inodes \ ({0, x} \cup Q), bn[i]
             PROVE  EnLista(bn, jno, i)
  BY DEF Listados
<1>1. EnLista(bm, ino, i) /\ jno[i].path = ino[i].path
  BY DEF Listados
<1>2. \A d \in Inodes : bm[d] /\ ino[d].tipo = "DIR" =>
         /\ bn[d] /\ jno[d].tipo = "DIR" /\ jno[d].path = ino[d].path
         /\ jno[d].entradas = ino[d].entradas
  OBVIOUS
<1> QED
  BY <1>1, <1>2, EnListaSigue

\* crear_inodo: the new one is not listed yet.
LEMMA ListadosCrea ==
    ASSUME NEW bm \in [Inodes -> BOOLEAN], NEW ino \in [Inodes -> Inodo],
           NEW P, Listados(bm, ino, 0, P), NEW Q, P \subseteq Q,
           NEW i \in Inodes, ~bm[i], NEW v
    PROVE  Listados([bm EXCEPT ![i] = TRUE], [ino EXCEPT ![i] = v], i, Q)
<1> DEFINE bn == [bm EXCEPT ![i] = TRUE]
           jno == [ino EXCEPT ![i] = v]
<1>1. \A d \in Inodes : d # i => bn[d] = bm[d] /\ jno[d] = ino[d]
  OBVIOUS
<1> HIDE DEF bn, jno
<1>2. ASSUME NEW j \in Inodes \ ({0, i} \cup Q), bn[j]
      PROVE  EnLista(bn, jno, j)
  <2>1. EnLista(bm, ino, j) /\ jno[j].path = ino[j].path
    BY <1>1, <1>2 DEF Listados
  <2>2. \A d \in Inodes : bm[d] => bn[d] /\ jno[d] = ino[d]
    BY <1>1
  <2> QED
    BY <2>1, <2>2, EnListaSigue
<1> QED
  BY <1>2 DEF Listados, bn, jno

\* agregar_entrada_directorio: the directory d lists i.
LEMMA ListadosAgrega ==
    ASSUME NEW bm \in [Inodes -> BOOLEAN], NEW ino \in [Inodes -> Inodo],
           NEW i \in Inodes, NEW P, Listados(bm, ino, i, P), NEW Q, P \subseteq Q,
           NEW d \in Inodes, d # i, bm[d], ino[d].tipo = "DIR", ino[d].path = Dirname(ino[i].path),
           NEW v, v.path = ino[d].path, v.tipo = "DIR",
           NEW c \in Slots, ino[d].entradas[c].inodo = 0, Nombra(v.entradas[c], i),
           NEW e, v.entradas = [ino[d].entradas EXCEPT ![c] = e]
    PROVE  Listados(bm, [ino EXCEPT ![d] = v], 0, Q)
<1> DEFINE jno == [ino EXCEPT ![d] = v]
<1>1. jno[d] = v /\ \A j \in Inodes : j # d => jno[j] = ino[j]
  OBVIOUS
<1>2. \A k \in Slots : k # c => v.entradas[k] = ino[d].entradas[k]
  <2>1. ino[d].entradas \in [Slots -> Entrada]
    BY DEF Inodo, Entrada
  <2> QED
    BY <2>1
<1> HIDE DEF jno
<1>3. EnLista(bm, jno, i)
  <2>1. jno[i].path = ino[i].path
    BY <1>1
  <2> QED
    BY <1>1, <2>1 DEF EnLista
<1>4. ASSUME NEW j \in Inodes \ ({0, i} \cup Q), bm[j]
      PROVE  EnLista(bm, jno, j)
  <2>1. EnLista(bm, ino, j) /\ jno[j].path = ino[j].path
    BY <1>1, <1>4 DEF Listados
  <2>2. \A k \in Slots : Nombra(ino[d].entradas[k], j) => Nombra(v.entradas[k], j)
    BY <1>2 DEF Nombra
  <2>3. ASSUME NEW f \in Inodes, bm[f], ino[f].tipo = "DIR"
        PROVE  /\ jno[f].tipo = "DIR" /\ jno[f].path = ino[f].path
               /\ \A k \in Slots : Nombra(ino[f].entradas[k], j) => Nombra(jno[f].entradas[k], j)
    BY <1>1, <2>2, <2>3
  <2> QED
    BY <2>1, <2>3, EnListaSigue
<1> QED
  BY <1>3, <1>4 DEF Listados, jno

\* inicializar_entradas_directorio: a new directory lists nobody yet.
LEMMA ListadosPuntos ==
    ASSUME NEW bm \in [Inodes -> BOOLEAN], NEW ino \in [Inodes -> Inodo],
           NEW P, Listados(bm, ino, 0, P), NEW Q, P \subseteq Q,
           NEW i \in Inodes, ino[i].entradas = SinEntradas, NEW v, v.path = ino[i].path
    PROVE  Listados(bm, [ino EXCEPT ![i] = v], 0, Q)
<1> DEFINE jno == [ino EXCEPT ![i] = v]
<1>1. jno[i] = v /\ \A j \in Inodes : j # i => jno[j] = ino[j]
  OBVIOUS
<1> HIDE DEF jno
<1>2. \A k \in Slots : \A j : ~Nombra(ino[i].entradas[k], j)
  BY SinEntradasEs DEF Nombra
<1>3. ASSUME NEW j \in Inodes \ ({0} \cup Q), bm[j]
      PROVE  EnLista(bm, jno, j)
  <2>1. EnLista(bm, ino, j) /\ jno[j].path = ino[j].path
    BY <1>1, <1>3 DEF Listados
  <2>2. \A d \in Inodes : bm[d] /\ ino[d].tipo = "DIR" =>
           \/ jno[d] = ino[d]
           \/ \A k \in Slots : ~Nombra(ino[d].entradas[k], j)
    BY <1>1, <1>2
  <2> QED
    BY <2>1, <2>2, EnListaSigue
<1> QED
  BY <1>3 DEF Listados, jno

\* The end of a removal: x goes, which lists nobody, and its directory g loses
\* the entry that named it.
LEMMA ListadosQuita ==
    ASSUME NEW bm, NEW ino, Bueno(bm, ino),
           NEW x \in Inodes, NEW y \in {0, x}, NEW P, Listados(bm, ino, y, P), NEW Q, P \subseteq Q,
           NEW g \in Inodes, x # g, x # 0, bm[x], bm[g], ino[g].tipo = "DIR",
           NEW b \in Names, ino[x].path = Append(ino[g].path, b), Quitable(ino[x]),
           NEW jno, SoloPadre(ino, jno, x, g, b)
    PROVE  Listados([bm EXCEPT ![x] = FALSE], jno, 0, Q)
<1> DEFINE bn == [bm EXCEPT ![x] = FALSE]
<1>1. bm \in [Inodes -> BOOLEAN] /\ Unicos(bm, ino)
  BY DEF Bueno, Tipado
<1>2. ~bn[x] /\ \A i \in Inodes : i # x => bn[i] = bm[i]
  BY <1>1
<1> HIDE DEF bn
<1>3. jno[g].path = ino[g].path /\ jno[g].tipo = "DIR"
  BY DEF SoloPadre, SinNombrada, Sin
<1>4. \A i \in Inodes \ {x, g} : jno[i] = ino[i]
  BY DEF SoloPadre
<1>5. ASSUME NEW i \in Inodes \ ({0} \cup Q), bn[i]
      PROVE  EnLista(bn, jno, i)
  <2>1. i # x /\ bm[i] /\ EnLista(bm, ino, i)
    BY <1>2, <1>5 DEF Listados
  <2>2. jno[i].path = ino[i].path
    BY <1>3, <1>4, <2>1
  <2>3. ASSUME NEW k \in Slots, Nombra(ino[x].entradas[k], i), ino[x].tipo = "DIR"
        PROVE  FALSE
    BY <2>3, Puntos DEF Quitable, Nombra
  <2>4. ASSUME NEW k \in Slots, Nombra(ino[g].entradas[k], i)
        PROVE  \E j \in Slots : Nombra(jno[g].entradas[j], i)
    <3>1. CASE jno[g] = ino[g]
      BY <2>4, <3>1
    <3>2. CASE \E q \in Slots : /\ ino[g].entradas[q].inodo # 0 /\ ino[g].entradas[q].nombre = b
                                /\ Sin(ino[g], jno[g], q)
      <4>1. PICK q \in Slots : /\ ino[g].entradas[q].inodo # 0 /\ ino[g].entradas[q].nombre = b
                               /\ Sin(ino[g], jno[g], q)
        BY <3>2
      <4>2. q # k
        <5> SUFFICES ASSUME q = k
                     PROVE  FALSE
          OBVIOUS
        <5>1. Cierta(bm, ino, g, k) /\ ino[g].entradas[k].inodo = i /\ ino[g].entradas[k].nombre = b
          BY <2>4, <4>1, CiertaDe DEF Nombra
        <5>2. ino[i].path = Append(ino[g].path, b)
          BY <5>1, Puntos DEF Cierta
        <5> QED
          BY <1>1, <2>1, <5>2, SMTT(20) DEF Unicos
      <4>3. \E j \in Slots : jno[g].entradas[j] = ino[g].entradas[k]
        BY <2>4, <4>1, <4>2 DEF Sin, Nombra
      <4> QED
        BY <2>4, <4>3
    <3> QED
      BY <3>1, <3>2 DEF SoloPadre, SinNombrada
  <2>5. ASSUME NEW d \in Inodes, bm[d], ino[d].tipo = "DIR"
        PROVE  \/ /\ bn[d] /\ jno[d].tipo = "DIR" /\ jno[d].path = ino[d].path
                  /\ \A k \in Slots : Nombra(ino[d].entradas[k], i) =>
                        \E j \in Slots : Nombra(jno[d].entradas[j], i)
               \/ \A k \in Slots : ~Nombra(ino[d].entradas[k], i)
    <3>1. CASE d = x
      BY <2>3, <2>5, <3>1
    <3>2. CASE d = g
      BY <1>2, <1>3, <2>4, <2>5, <3>2
    <3>3. CASE d # x /\ d # g
      BY <1>2, <1>4, <2>5, <3>3
    <3> QED
      BY <3>1, <3>2, <3>3
  <2> QED
    BY <2>1, <2>2, <2>5, EnListaSigue
<1> QED
  BY <1>5 DEF Listados, bn

-----------------------------------------------------------------------------
(***************************************************************************)
(* Every step keeps the lists.                                             *)
(***************************************************************************)

LEMMA FinPone ==
    ASSUME NEW ino \in [Inodes -> Inodo], FinEnCeros(ino), NEW i \in Inodes, NEW v,
           v.tipo = "REG" => \A k \in 1..MAX_CONTENT : k > v.tam => v.datos[k] = 0
    PROVE  FinEnCeros([ino EXCEPT ![i] = v])
BY DEF FinEnCeros

\* A zeroed inode, the root's and a fresh one.
LEMMA FinFresco ==
    /\ \A k \in 1..MAX_CONTENT : Ceros[k] = 0
    /\ InodoCero.datos = Ceros /\ Raiz.datos = Ceros /\ InodoCero.tipo = "DIR" /\ Raiz.tipo = "DIR"
    /\ \A i, p, tipo : InodoNuevo(i, p, tipo).datos = Ceros
BY DEF Ceros, InodoCero, Raiz, InodoNuevo

\* A step that leaves no removal under way.
LEMMA ArboladoCompone ==
    ASSUME Arbolado, Perdidos, h'.op # "unlink", h'.paso \notin {"liberar", "borrar"},
           Listados(bitmap_inodes', inodos', Pendiente', perdidos'), FinEnCeros(inodos'),
           \/ disk' = disk \/ disk' = Cortado
           \/ /\ disk' = Imagen(bitmap_inodes', inodos')
              /\ Listados(bitmap_inodes', inodos', 0, perdidos)
    PROVE  Arbolado'
<1>1. VBitmap' = bitmap_inodes' /\ VInodos' = inodos'
  BY DEF VBitmap, VInodos
<1>2. disk'.estado = "completo" => /\ Listados(disk'.bitmap, disk'.inodos, 0, perdidosEnDisco')
                                   /\ FinEnCeros(disk'.inodos)
  <2>1. CASE disk' = disk
    BY <2>1 DEF Arbolado, Perdidos
  <2>2. CASE disk' = Cortado
    BY <2>2 DEF Cortado
  <2>3. CASE /\ disk' # disk /\ disk' = Imagen(bitmap_inodes', inodos')
             /\ Listados(bitmap_inodes', inodos', 0, perdidos)
    <3>1. disk' # Cortado /\ disk'.bitmap = bitmap_inodes' /\ disk'.inodos = inodos'
      BY <2>3 DEF Imagen, Cortado
    <3>2. perdidosEnDisco' = perdidos
      BY <2>3, <3>1 DEF Perdidos
    <3> QED
      BY <2>3, <3>1, <3>2
  <2> QED
    BY <2>1, <2>2, <2>3
<1> QED
  BY <1>1, <1>2 DEF Arbolado, Liberando

\* What there is when no removal is under way.
LEMMA ArboladoEs ==
    ASSUME Arbolado, h.op # "unlink", h.paso \notin {"liberar", "borrar"}
    PROVE  /\ Listados(bitmap_inodes, inodos, Pendiente, perdidos)
           /\ FinEnCeros(inodos)
BY DEF Arbolado, VBitmap, VInodos

\* Nothing is struck off the record but what is freed.
LEMMA PerdidosQuedan ==
    ASSUME UnHilo, Perdidos, fase # "off", fase' # "off", NEW X,
           \A i \in Inodes \ X : bitmap_inodes[i] => bitmap_inodes'[i]
    PROVE  perdidos \subseteq perdidos' \cup X
<1>1. Liberados \subseteq X
  BY DEF Liberados
<1> QED
  BY <1>1 DEF Perdidos

\* Nothing is, while no inode is freed.
LEMMA PerdidosSiguen ==
    ASSUME IInv, UnHilo, Perdidos, fase' = fase, h # Quieto \/ fase = "mounted",
           \A i \in Inodes : bitmap_inodes[i] => bitmap_inodes'[i]
    PROVE  perdidos \subseteq perdidos'
<1>1. fase # "off"
  BY Hechos
<1> QED
  BY <1>1, PerdidosQuedan

\* A creation that finds no room is put on it.
LEMMA PerdidoEs ==
    ASSUME UnHilo, Perdidos, fase # "off", fase' # "off", bitmap_inodes' = bitmap_inodes,
           h.paso = "agregar", h'.paso # "agregar", ~HayLugar(h.padre)
    PROVE  h.ino \in perdidos'
<1>1. h.ino \in SinLugar
  BY ElHilo DEF SinLugar, h
<1>2. h.ino \notin Liberados
  BY DEF Liberados
<1> QED
  BY <1>1, <1>2 DEF Perdidos
LEMMA ArboladoNuevo ==
    ASSUME IInv, Arbolado, Perdidos, UnHilo, NEW op \in {"create", "mkdir"}, NEW p \in Paths, Nuevo(t, op, p)
    PROVE  Arbolado'
<1> DEFINE x == [op |-> op, paso |-> "crear", path |-> p, ino |-> ObtenerInodoLibre,
                 padre |-> BuscarInodo(Dirname(p))]
<1>1. /\ h = Quieto /\ Camino(p) /\ ObtenerInodoLibre # -1
      /\ hilo' = [hilo EXCEPT ![t] = x] /\ UNCHANGED <<bitmap_inodes, inodos, disk, fase>>
  BY DEF Nuevo, Listo, Empieza, superbloque, h
<1>2. x \in Tarea
  BY <1>1, CaminoEs, Libre DEF Tarea
<1>3. h' = x
  BY <1>1, <1>2, Hechos, Cambia DEF Fases
<1>4. Listados(bitmap_inodes, inodos, 0, perdidos) /\ FinEnCeros(inodos)
  BY <1>1, ArboladoEs, QuietoEs DEF Pendiente
<1>5. Pendiente' = 0
  BY <1>3 DEF Pendiente
<1>6. perdidos \subseteq perdidos'
  BY <1>1, PerdidosSiguen DEF Nuevo, Listo
<1>7. Listados(bitmap_inodes', inodos', Pendiente', perdidos')
  BY <1>1, <1>4, <1>5, <1>6 DEF Listados
<1> QED
  BY <1>1, <1>3, <1>4, <1>7, ArboladoCompone

LEMMA ArboladoCrear ==
    ASSUME IInv, Arbolado, Perdidos, UnHilo, CrearInodo(t)
    PROVE  Arbolado'
<1> DEFINE v == InodoNuevo(h.ino, h.path, IF h.op = "mkdir" THEN "DIR" ELSE "REG")
<1>1. /\ h.paso = "crear"
      /\ bitmap_inodes' = [bitmap_inodes EXCEPT ![h.ino] = TRUE]
      /\ inodos' = [inodos EXCEPT ![h.ino] = v]
      /\ Paso(t, "agregar") /\ UNCHANGED <<disk, fase>>
  BY DEF CrearInodo, PonerInodo, h
<1>2. /\ hilo \in [Threads -> Tarea] /\ h.ino \in Inodes
      /\ bitmap_inodes \in [Inodes -> BOOLEAN] /\ inodos \in [Inodes -> Inodo]
      /\ h.op \in {"create", "mkdir"} /\ ~bitmap_inodes[h.ino]
  BY <1>1, Hechos, QuietoEs DEF Fases, Creando, Tarea
<1>3. h'.paso = "agregar" /\ h'.op = h.op /\ h'.ino = h.ino
  BY <1>1, <1>2, Cambia
<1>4. Listados(bitmap_inodes, inodos, 0, perdidos) /\ FinEnCeros(inodos)
  BY <1>1, <1>2, ArboladoEs DEF Pendiente
<1>5. Pendiente' = h.ino
  BY <1>3 DEF Pendiente
<1>6. \A k \in 1..MAX_CONTENT : v.datos[k] = 0
  BY FinFresco
<1> HIDE DEF v
<1>7. Listados(bitmap_inodes', inodos', Pendiente', perdidos')
  <2>1. perdidos \subseteq perdidos'
    BY <1>1, <1>2, PerdidosSiguen, QuietoEs
  <2> QED
    BY <1>1, <1>2, <1>4, <1>5, <2>1, ListadosCrea
<1>8. FinEnCeros(inodos')
  BY <1>1, <1>2, <1>4, <1>6, FinPone
<1> QED
  BY <1>1, <1>2, <1>3, <1>7, <1>8, ArboladoCompone

LEMMA ArboladoAgregar ==
    ASSUME IInv, Arbolado, Perdidos, UnHilo, AgregarEntrada(t), HayLugar(h.padre)
    PROVE  Arbolado'
<1> DEFINE d == h.padre
           i == h.ino
           v == ConEntrada(d, i)
<1>1. /\ h.paso = "agregar" /\ UNCHANGED <<bitmap_inodes, disk, fase>>
      /\ HayLugar(d) /\ inodos' = [inodos EXCEPT ![d] = v]
      /\ IF h.op = "mkdir" THEN Paso(t, "puntos") ELSE Termina(t)
  BY DEF AgregarEntrada, PonerInodo, h
<1>2. /\ hilo \in [Threads -> Tarea] /\ h \in Tarea
      /\ bitmap_inodes \in [Inodes -> BOOLEAN] /\ inodos \in [Inodes -> Inodo]
      /\ h.op \in {"create", "mkdir"} /\ Creando /\ Tipado(bitmap_inodes, inodos)
  BY <1>1, Hechos, QuietoEs DEF Fases
<1>3. /\ i \in Inodes /\ d \in Inodes /\ d # i /\ i # 0
      /\ h.path \in Paths /\ h.path # <<>>
      /\ bitmap_inodes[d] /\ inodos[d].tipo = "DIR" /\ inodos[d].path = Dirname(h.path)
      /\ inodos[i] = InodoNuevo(i, h.path, IF h.op = "mkdir" THEN "DIR" ELSE "REG")
  BY <1>1, <1>2 DEF Creando, EnPadre, Tarea
<1>4. inodos[i].path = h.path /\ inodos[i].inumero = i
  BY <1>3, NuevoEs
<1>5. h'.op # "unlink" /\ h'.paso \notin {"liberar", "borrar", "agregar"}
  BY <1>1, <1>2, TerminaFases, Cambia
<1>6. Listados(bitmap_inodes, inodos, i, perdidos) /\ FinEnCeros(inodos)
  BY <1>1, <1>2, ArboladoEs DEF Pendiente
<1>7. Pendiente' = 0
  BY <1>5 DEF Pendiente
<1> HIDE DEF d, i, v
<1>8. /\ v.path = inodos[d].path /\ v.tipo = "DIR"
      /\ \E c \in Slots :
            /\ inodos[d].entradas[c].inodo = 0
            /\ v.entradas = [inodos[d].entradas EXCEPT
                               ![c] = [inodo |-> i, nombre |-> Basename(inodos[i].path)]]
  BY <1>1, <1>2, <1>3, <1>4, ConEntradaEs DEF v
<1>9. PICK c \in Slots :
         /\ inodos[d].entradas[c].inodo = 0
         /\ v.entradas = [inodos[d].entradas EXCEPT
                            ![c] = [inodo |-> i, nombre |-> Basename(inodos[i].path)]]
  BY <1>8
<1>10. Nombra(v.entradas[c], i)
  <2>1. inodos[d].entradas \in [Slots -> Entrada]
    BY <1>2, <1>3 DEF Inodo, Entrada
  <2>2. Basename(inodos[i].path) \in Names
    BY <1>3, <1>4, Partes
  <2> QED
    BY <1>3, <1>9, <2>1, <2>2 DEF Nombra
<1>13. perdidos \subseteq perdidos'
  <2>1. h # Quieto
    BY <1>1, QuietoEs
  <2> QED
    BY <1>1, <2>1, PerdidosSiguen
<1>11. Listados(bitmap_inodes, [inodos EXCEPT ![d] = v], 0, perdidos')
  <2> DEFINE e == [inodo |-> i, nombre |-> Basename(inodos[i].path)]
  <2>1. inodos[d].path = Dirname(inodos[i].path) /\ v.entradas = [inodos[d].entradas EXCEPT ![c] = e]
    BY <1>3, <1>4, <1>9
  <2> HIDE DEF e
  <2> QED
    BY <1>2, <1>3, <1>6, <1>8, <1>9, <1>10, <1>13, <2>1, ListadosAgrega
<1>12. FinEnCeros(inodos')
  BY <1>1, <1>2, <1>3, <1>6, <1>8, FinPone
<1> QED
  BY <1>1, <1>5, <1>7, <1>11, <1>12, ArboladoCompone

\* Without room the new inode goes on the record.
LEMMA ArboladoSinLugar ==
    ASSUME IInv, Arbolado, Perdidos, UnHilo, AgregarEntrada(t), ~HayLugar(h.padre)
    PROVE  Arbolado'
<1>1. /\ h.paso = "agregar" /\ UNCHANGED <<bitmap_inodes, inodos, disk, fase>> /\ Termina(t)
  BY DEF AgregarEntrada, h
<1>2. h # Quieto /\ fase # "off"
  BY <1>1, Hechos, QuietoEs
<1>3. h'.op = "none" /\ h'.paso = "fin"
  BY <1>1, TerminaFases
<1>4. h.op # "unlink" /\ h.paso \notin {"liberar", "borrar"}
  BY <1>1, Hechos, QuietoEs DEF Fases
<1>5. Listados(bitmap_inodes, inodos, h.ino, perdidos) /\ FinEnCeros(inodos)
  BY <1>1, <1>4, ArboladoEs DEF Pendiente
<1>6. perdidos \subseteq perdidos' /\ h.ino \in perdidos'
  BY <1>1, <1>2, <1>3, PerdidosSiguen, PerdidoEs
<1>7. Pendiente' = 0
  BY <1>3 DEF Pendiente
<1>8. Listados(bitmap_inodes', inodos', Pendiente', perdidos')
  BY <1>1, <1>5, <1>6, <1>7 DEF Listados
<1> QED
  BY <1>1, <1>3, <1>5, <1>8, ArboladoCompone

LEMMA ArboladoInicializar ==
    ASSUME IInv, Arbolado, Perdidos, UnHilo, InicializarEntradas(t)
    PROVE  Arbolado'
<1> DEFINE i == h.ino
           v == ConPuntos(i, h.padre)
<1>1. /\ h.paso = "puntos" /\ inodos' = [inodos EXCEPT ![i] = v] /\ Termina(t)
      /\ UNCHANGED <<bitmap_inodes, disk, fase>>
  BY DEF InicializarEntradas, PonerInodo, h
<1>2. /\ h \in Tarea /\ h.op = "mkdir" /\ Creando /\ Tipado(bitmap_inodes, inodos)
      /\ bitmap_inodes \in [Inodes -> BOOLEAN] /\ inodos \in [Inodes -> Inodo]
  BY <1>1, Hechos, QuietoEs DEF Fases
<1>3. /\ i \in Inodes /\ h.padre \in Inodes /\ i # 0 /\ h.path \in Paths
      /\ inodos[i] = InodoNuevo(i, h.path, "DIR")
  BY <1>1, <1>2 DEF Creando, EnPadre, Tarea
<1>4. inodos[i].path = h.path /\ inodos[i].entradas = SinEntradas
  BY <1>3, NuevoEs
<1>5. Listados(bitmap_inodes, inodos, 0, perdidos) /\ FinEnCeros(inodos)
  BY <1>1, <1>2, ArboladoEs DEF Pendiente
<1>6. h'.op = "none" /\ h'.paso = "fin"
  BY <1>1, TerminaFases
<1>7. Pendiente' = 0
  BY <1>6 DEF Pendiente
<1> HIDE DEF i
<1>8. v.path = h.path /\ v.tipo = "DIR"
  BY <1>2, <1>3, ConPuntosEs
<1> HIDE DEF v
<1>9. Listados(bitmap_inodes, inodos', 0, perdidos')
  <2>1. perdidos \subseteq perdidos'
    BY <1>1, <1>2, PerdidosSiguen, QuietoEs
  <2> QED
    BY <1>1, <1>2, <1>3, <1>4, <1>5, <1>8, <2>1, ListadosPuntos
<1>10. FinEnCeros(inodos')
  BY <1>1, <1>2, <1>3, <1>5, <1>8, FinPone
<1> QED
  BY <1>1, <1>6, <1>7, <1>9, <1>10, ArboladoCompone

LEMMA ArboladoUnlink ==
    ASSUME IInv, Arbolado, Perdidos, UnHilo, NEW p \in Paths, Unlink(t, p)
    PROVE  Arbolado'
<1> DEFINE i == BuscarInodo(p)
           x == [op |-> "unlink", paso |-> "liberar", path |-> p, ino |-> i,
                 padre |-> BuscarInodo(Dirname(p))]
           v == InodoNuevo(i, p, "REG")
<1>1. /\ h = Quieto /\ Camino(p) /\ EsArchivo(p)
      /\ hilo' = [hilo EXCEPT ![t] = x] /\ UNCHANGED <<bitmap_inodes, inodos, disk, fase>>
  BY DEF Unlink, Listo, Empieza, superbloque, h
<1>2. /\ hilo \in [Threads -> Tarea] /\ Bueno(bitmap_inodes, inodos)
      /\ bitmap_inodes \in [Inodes -> BOOLEAN] /\ inodos \in [Inodes -> Inodo]
  BY <1>1, Hechos, QuietoEs DEF Fases
<1>3. i \in Inodes /\ bitmap_inodes[i] /\ inodos[i].path = p /\ inodos[i].tipo = "REG"
  BY <1>1, Busqueda DEF EsArchivo
<1>4. Listados(bitmap_inodes, inodos, 0, perdidos) /\ FinEnCeros(inodos)
  BY <1>1, ArboladoEs, QuietoEs DEF Pendiente
<1>5. v.path = p /\ v.tipo = "REG"
  BY <1>3, NuevoEs
<1>6. x \in Tarea
  BY <1>1, <1>3, CaminoEs DEF Tarea
<1> HIDE DEF i
<1>7. h' = x
  BY <1>1, <1>2, <1>6, Cambia
<1>8. VBitmap' = bitmap_inodes /\ VInodos' = [inodos EXCEPT ![i] = v]
  <2>1. [bitmap_inodes EXCEPT ![i] = TRUE] = bitmap_inodes
    BY <1>2, <1>3
  <2> QED
    BY <1>1, <1>7, <2>1 DEF VBitmap, VInodos
<1> HIDE DEF v
<1>11. Pendiente' = i
  BY <1>7 DEF Pendiente
<1>9. Listados(VBitmap', VInodos', Pendiente', perdidos')
  <2> DEFINE jno == [inodos EXCEPT ![i] = v]
  <2>1. \A j \in Inodes : /\ jno[j].path = inodos[j].path /\ jno[j].tipo = inodos[j].tipo
                          /\ inodos[j].tipo = "DIR" => jno[j].entradas = inodos[j].entradas
    BY <1>2, <1>3, <1>5
  <2> HIDE DEF jno
  <2>2. perdidos \subseteq perdidos'
    BY <1>1, PerdidosSiguen DEF Unlink, Listo
  <2>3. Listados(bitmap_inodes, jno, 0, perdidos')
    BY <1>4, <2>1, <2>2, ListadosIgual
  <2> QED
    BY <1>8, <1>11, <2>3 DEF jno, Listados
<1>10. Liberando'
  BY <1>1, <1>2, <1>3, <1>7 DEF Liberando, Bueno, Unicos
<1> QED
  BY <1>1, <1>4, <1>9, <1>10 DEF Arbolado, Perdidos

LEMMA ArboladoRmdir ==
    ASSUME IInv, Arbolado, Perdidos, UnHilo, NEW p \in Paths, Rmdir(t, p)
    PROVE  Arbolado'
<1> DEFINE x == [op |-> "rmdir", paso |-> "quitar", path |-> p, ino |-> BuscarInodo(p),
                 padre |-> BuscarInodo(Dirname(p))]
<1>1. /\ h = Quieto /\ Camino(p) /\ EsDir(p)
      /\ hilo' = [hilo EXCEPT ![t] = x] /\ UNCHANGED <<bitmap_inodes, inodos, disk, fase>>
  BY DEF Rmdir, Listo, Empieza, superbloque, h
<1>2. x \in Tarea
  BY <1>1, CaminoEs, Busqueda DEF Tarea, EsDir
<1>3. h' = x
  BY <1>1, <1>2, Hechos, Cambia DEF Fases
<1>4. Listados(bitmap_inodes, inodos, 0, perdidos) /\ FinEnCeros(inodos)
  BY <1>1, ArboladoEs, QuietoEs DEF Pendiente
<1>5. Pendiente' = 0
  BY <1>3 DEF Pendiente
<1>6. perdidos \subseteq perdidos'
  BY <1>1, PerdidosSiguen DEF Rmdir, Listo
<1>7. Listados(bitmap_inodes', inodos', Pendiente', perdidos')
  BY <1>1, <1>4, <1>5, <1>6 DEF Listados
<1> QED
  BY <1>1, <1>3, <1>4, <1>7, ArboladoCompone

LEMMA ArboladoLiberar ==
    ASSUME IInv, Arbolado, Perdidos, UnHilo, Liberar(t)
    PROVE  Arbolado'
<1>1. /\ h.paso = "liberar" /\ bitmap_inodes' = [bitmap_inodes EXCEPT ![h.ino] = FALSE]
      /\ Paso(t, "borrar") /\ UNCHANGED <<inodos, disk, fase>>
  BY DEF Liberar, h
<1>2. /\ hilo \in [Threads -> Tarea] /\ h.op \in {"unlink", "rmdir"}
      /\ bitmap_inodes \in [Inodes -> BOOLEAN] /\ h.ino \in Inodes
  BY <1>1, Removiendo
<1>3. h'.paso = "borrar" /\ h'.op = h.op /\ h'.path = h.path /\ h'.ino = h.ino
  BY <1>1, <1>2, Cambia
<1>4. VBitmap' = VBitmap
  <2>1. CASE h.op = "unlink"
    BY <1>1, <1>2, <1>3, <2>1 DEF VBitmap
  <2>2. CASE h.op = "rmdir"
    BY <1>1, <1>2, <1>3, <2>2 DEF VBitmap
  <2> QED
    BY <1>2, <2>1, <2>2
<1>5. VInodos' = VInodos
  BY <1>1, <1>3 DEF VInodos
<1>6. Pendiente' = Pendiente
  BY <1>1, <1>3 DEF Pendiente
<1>7. perdidos \subseteq perdidos' \cup {h.ino}
  <2>1. fase # "off" /\ fase' # "off"
    BY <1>1, Removiendo
  <2> QED
    BY <1>1, <1>2, <2>1, PerdidosQuedan
\* What an rmdir frees is not in use any more, what an unlink frees is exempt.
<1>8. Listados(VBitmap, VInodos, Pendiente, perdidos')
  <2>1. Listados(VBitmap, VInodos, Pendiente, perdidos)
    BY DEF Arbolado
  <2>2. CASE h.op = "unlink"
    <3>1. Pendiente = h.ino
      BY <2>2 DEF Pendiente
    <3> QED
      BY <1>7, <2>1, <3>1 DEF Listados
  <2>3. CASE h.op = "rmdir"
    <3>1. VBitmap = [bitmap_inodes EXCEPT ![h.ino] = FALSE]
      BY <1>1, <2>3 DEF VBitmap
    <3>2. ~VBitmap[h.ino]
      BY <1>2, <3>1
    <3> QED
      BY <1>7, <2>1, <3>2 DEF Listados
  <2> QED
    BY <1>2, <2>2, <2>3
<1> QED
  BY <1>1, <1>3, <1>4, <1>5, <1>6, <1>8 DEF Arbolado, Liberando, Perdidos

LEMMA ArboladoBorrar ==
    ASSUME IInv, Arbolado, Perdidos, UnHilo, Borrar(t)
    PROVE  Arbolado'
<1>1. /\ h.paso = "borrar" /\ inodos' = [inodos EXCEPT ![h.ino] = InodoCero]
      /\ IF h.op = "unlink" THEN Paso(t, "quitar") ELSE Termina(t)
      /\ UNCHANGED <<bitmap_inodes, disk, fase>>
  BY DEF Borrar, PonerInodo, h
<1>2. /\ hilo \in [Threads -> Tarea] /\ h.op \in {"unlink", "rmdir"} /\ h.ino \in Inodes
      /\ bitmap_inodes \in [Inodes -> BOOLEAN] /\ inodos \in [Inodes -> Inodo]
      /\ ~bitmap_inodes[h.ino]
  BY <1>1, Removiendo DEF Quitando
<1>3. FinEnCeros(inodos')
  BY <1>1, <1>2, FinFresco, FinPone DEF Arbolado
<1>4. Listados(VBitmap, VInodos, Pendiente, perdidos') /\ perdidos \subseteq perdidos'
  <2>1. h # Quieto
    BY <1>1, QuietoEs
  <2>2. perdidos \subseteq perdidos'
    BY <1>1, <2>1, PerdidosSiguen
  <2> QED
    BY <2>2 DEF Arbolado, Listados
<1>5. CASE h.op = "unlink"
  <2>1. h'.paso = "quitar" /\ h'.op = h.op /\ h'.path = h.path /\ h'.ino = h.ino
    BY <1>1, <1>2, <1>5, Cambia
  <2>2. VBitmap' = VBitmap
    BY <1>1, <1>5, <2>1 DEF VBitmap
  <2>3. VInodos' = VInodos
    <3> DEFINE v == InodoNuevo(h.ino, h.path, "REG")
    <3>1. VInodos = [inodos EXCEPT ![h.ino] = v] /\ VInodos' = [inodos' EXCEPT ![h.ino] = v]
      BY <1>5, <2>1 DEF VInodos
    <3> HIDE DEF v
    <3> QED
      BY <1>1, <1>2, <3>1
  <2>4. Pendiente' = Pendiente
    BY <1>5, <2>1 DEF Pendiente
  <2> QED
    BY <1>1, <1>3, <1>4, <2>1, <2>2, <2>3, <2>4 DEF Arbolado, Liberando, Perdidos
<1>6. CASE h.op # "unlink"
  <2>1. VBitmap = bitmap_inodes /\ VInodos = inodos
    BY <1>1, <1>2, <1>6 DEF VBitmap, VInodos
  <2>2. h'.op = "none" /\ h'.paso = "fin"
    BY <1>1, <1>6, TerminaFases
  <2>3. \A i \in Inodes : bitmap_inodes[i] => inodos'[i] = inodos[i]
    BY <1>1, <1>2
  <2>4. Listados(bitmap_inodes', inodos', 0, perdidos')
    <3>1. Pendiente = 0
      BY <1>1, <1>6 DEF Pendiente
    <3>2. Listados(bitmap_inodes, inodos, 0, perdidos')
      BY <1>4, <2>1, <3>1
    <3>3. \A i \in Inodes : bitmap_inodes[i] =>
             /\ bitmap_inodes'[i] /\ inodos'[i].path = inodos[i].path /\ inodos'[i].tipo = inodos[i].tipo
             /\ inodos[i].tipo = "DIR" => inodos'[i].entradas = inodos[i].entradas
      BY <1>1, <2>3
    <3> QED
      <4>1. perdidos' \subseteq perdidos' /\ \A i \in Inodes : bitmap_inodes'[i] => bitmap_inodes[i]
        BY <1>1
      <4>2. Listados(bitmap_inodes', inodos', 0, perdidos')
        BY <3>2, <3>3, <4>1, ListadosIgual
      <4> QED
        BY <4>2
  <2>5. Pendiente' = 0
    BY <2>2 DEF Pendiente
  <2> QED
    BY <1>1, <1>3, <2>2, <2>4, <2>5, ArboladoCompone
<1> QED
  BY <1>5, <1>6

LEMMA ArboladoQuitar ==
    ASSUME IInv, Arbolado, Perdidos, UnHilo, QuitarEntrada(t)
    PROVE  Arbolado'
<1> DEFINE x == h.ino
           g == h.padre
           b == Basename(h.path)
           k == EntradaAEliminar(g, b)
<1>1. /\ h.paso = "quitar" /\ (k = -1 => inodos' = inodos)
      /\ IF h.op = "rmdir" /\ k # -1 THEN Paso(t, "liberar") ELSE Termina(t)
      /\ UNCHANGED <<bitmap_inodes, disk, fase>>
  BY DEF QuitarEntrada, h
<1>2. /\ hilo \in [Threads -> Tarea] /\ h.op \in {"unlink", "rmdir"} /\ Quitando
      /\ bitmap_inodes \in [Inodes -> BOOLEAN] /\ inodos \in [Inodes -> Inodo]
      /\ Bueno(VBitmap, VInodos)
      /\ x \in Inodes /\ g \in Inodes /\ x # g /\ x # 0
  BY <1>1, Removiendo
<1>3. /\ VBitmap[x] /\ VBitmap[g] /\ VInodos[g].tipo = "DIR" /\ b \in Names
      /\ VInodos[x].path = Append(VInodos[g].path, b) /\ Quitable(VInodos[x])
      /\ SoloPadre(VInodos, inodos', x, g, b) /\ Tipado(bitmap_inodes, inodos')
  BY QuitarEs
<1>4. /\ h.op = "unlink" => ~bitmap_inodes[x]
      /\ h.op = "rmdir" => bitmap_inodes[x] /\ inodos[x].path = h.path /\ inodos[x].tipo = "DIR"
  BY <1>1, <1>2 DEF Quitando
<1> HIDE DEF x, g, b, k
<1>11. perdidos \subseteq perdidos'
  <2>1. h # Quieto
    BY <1>1, QuietoEs
  <2> QED
    BY <1>1, <2>1, PerdidosSiguen
<1>5. Listados([VBitmap EXCEPT ![x] = FALSE], inodos', 0, perdidos')
  <2> DEFINE bm == VBitmap
             ino == VInodos
             jno == inodos'
  <2>1. /\ Bueno(bm, ino) /\ Listados(bm, ino, Pendiente, perdidos) /\ bm[x] /\ bm[g] /\ ino[g].tipo = "DIR"
        /\ ino[x].path = Append(ino[g].path, b) /\ Quitable(ino[x]) /\ SoloPadre(ino, jno, x, g, b)
        /\ x \in Inodes /\ g \in Inodes /\ x # g /\ x # 0 /\ b \in Names
        /\ Pendiente \in {0, x}
    BY <1>1, <1>2, <1>3 DEF Arbolado, Pendiente, x
  <2> HIDE DEF bm, ino, jno
  <2>2. Listados([bm EXCEPT ![x] = FALSE], jno, 0, perdidos')
    BY <1>11, <2>1, ListadosQuita
  <2> QED
    BY <2>2 DEF bm, jno
\* Only directory g changes, and it stays one.
<1>6. \A i \in Inodes : /\ inodos'[i].path = inodos[i].path /\ inodos'[i].tipo = inodos[i].tipo
                        /\ inodos[i].tipo = "REG" => inodos'[i] = inodos[i]
  <2>1. CASE k = -1
    BY <1>1, <2>1
  <2>2. CASE k # -1
    <3> DEFINE v == SinEntradaK(g, k)
    <3>1. inodos' = [inodos EXCEPT ![g] = v]
      BY <2>2 DEF QuitarEntrada, PonerInodo, h, k, g, b
    <3>2. k \in Entradas(g) /\ inodos[g].tipo = "DIR" /\ Tipado(bitmap_inodes, inodos)
      BY <1>1, <1>2, <2>2, Removiendo, Eliminar DEF k, g
    <3>3. v.path = inodos[g].path /\ v.tipo = "DIR"
      BY <1>2, <3>2, SinEntradaEs DEF Sin
    <3> HIDE DEF v
    <3> QED
      BY <1>2, <3>1, <3>2, <3>3
  <2> QED
    BY <2>1, <2>2
<1>7. FinEnCeros(inodos')
  BY <1>6 DEF Arbolado, FinEnCeros
<1>8. CASE h.op = "unlink"
  <2>1. [VBitmap EXCEPT ![x] = FALSE] = bitmap_inodes
    BY <1>2, <1>4, <1>8 DEF VBitmap, x
  <2>2. h'.op = "none" /\ h'.paso = "fin"
    BY <1>1, <1>8, TerminaFases
  <2>3. Pendiente' = 0
    BY <2>2 DEF Pendiente
  <2> QED
    BY <1>1, <1>5, <1>7, <2>1, <2>2, <2>3, ArboladoCompone
<1>9. CASE h.op = "rmdir" /\ k = -1
  <2>1. inodos' = inodos /\ Listados(bitmap_inodes, inodos, 0, perdidos')
    BY <1>1, <1>9, <1>11 DEF VBitmap, VInodos, Arbolado, Pendiente, Listados
  <2>2. h'.op = "none" /\ h'.paso = "fin"
    BY <1>1, <1>9, TerminaFases
  <2>3. Pendiente' = 0
    BY <2>2 DEF Pendiente
  <2> QED
    BY <1>1, <1>7, <2>1, <2>2, <2>3, ArboladoCompone
<1>10. CASE h.op = "rmdir" /\ k # -1
  <2>1. h'.paso = "liberar" /\ h'.op = h.op /\ h'.path = h.path /\ h'.ino = x
    BY <1>1, <1>2, <1>10, Cambia DEF x
  <2>2. VBitmap' = [VBitmap EXCEPT ![x] = FALSE] /\ VInodos' = inodos'
    BY <1>1, <1>10, <2>1 DEF VBitmap, VInodos
  <2>3. Pendiente' = 0
    BY <1>10, <2>1 DEF Pendiente
  <2>4. Unicos(bitmap_inodes, inodos)
    BY <1>1, <1>2, <1>10 DEF Bueno, VBitmap, VInodos
  <2>5. Liberando'
    BY <1>1, <1>2, <1>4, <1>6, <1>10, <2>1, <2>4 DEF Liberando, Unicos
  <2> QED
    BY <1>1, <1>5, <1>7, <2>2, <2>3, <2>5 DEF Arbolado, Perdidos
<1> QED
  BY <1>2, <1>8, <1>9, <1>10

\* A file's bytes and size change.
LEMMA ArboladoArchivo ==
    ASSUME IInv, Arbolado, Perdidos, UnHilo, NEW p, Listo(t, {p}), NEW i \in Inodes, inodos[i].tipo = "REG",
           \A j \in Inodes \ {i} : inodos'[j] = inodos[j],
           inodos'[i].path = inodos[i].path, inodos'[i].tipo = inodos[i].tipo,
           \A k \in 1..MAX_CONTENT : k > inodos'[i].tam => inodos'[i].datos[k] = 0,
           UNCHANGED <<bitmap_inodes, disk, fase, hilo>>
    PROVE  Arbolado'
<1>1. h = Quieto /\ h' = h /\ fase = "mounted"
  BY DEF Listo, h
<1>2. Listados(bitmap_inodes, inodos, 0, perdidos) /\ FinEnCeros(inodos)
  BY <1>1, ArboladoEs, QuietoEs DEF Pendiente
<1>3. Listados(bitmap_inodes, inodos', 0, perdidos')
  <2>1. \A j \in Inodes : /\ inodos'[j].path = inodos[j].path /\ inodos'[j].tipo = inodos[j].tipo
                          /\ inodos[j].tipo = "DIR" => inodos'[j].entradas = inodos[j].entradas
    OBVIOUS
  <2>2. perdidos \subseteq perdidos'
    BY <1>1, PerdidosSiguen
  <2> QED
    BY <1>2, <2>1, <2>2, ListadosIgual
<1>4. FinEnCeros(inodos')
  BY <1>2 DEF FinEnCeros
<1>5. Pendiente' = 0
  BY <1>1, QuietoEs DEF Pendiente
<1> QED
  BY <1>1, <1>3, <1>4, <1>5, QuietoEs, ArboladoCompone

\* What a write of one byte makes of a file.
ConByte(d, o, c) == [k \in 1..MAX_CONTENT |-> IF k = o + 1 THEN c ELSE d[k]]
Hasta(tam, n) == IF n > tam THEN n ELSE tam

LEMMA WriteEs ==
    ASSUME IInv, UnHilo, NEW p, NEW o \in 0..MAX_CONTENT, NEW c \in Bytes, Write(t, p, o, <<c>>)
    PROVE  LET i == BuscarInodo(p)
           IN  /\ Listo(t, {p}) /\ EsArchivo(p) /\ o + 1 <= MAX_CONTENT
               /\ UNCHANGED <<bitmap_inodes, disk, fase, hilo>>
               /\ i \in Inodes /\ bitmap_inodes[i] /\ inodos[i].path = p /\ inodos[i].tipo = "REG"
               /\ inodos[i] \in Inodo /\ inodos[i].tam \in 0..MAX_CONTENT
               /\ \A j \in Inodes \ {i} : inodos'[j] = inodos[j]
               /\ inodos'[i].path = inodos[i].path /\ inodos'[i].tipo = inodos[i].tipo
               /\ inodos'[i].datos = ConByte(inodos[i].datos, o, c)
               /\ inodos'[i].tam = Hasta(inodos[i].tam, o + 1)
<1> DEFINE i == BuscarInodo(p)
           w == inodos[i]
           b == <<c>>
           n == o + Len(b)
           d == [k \in 1..MAX_CONTENT |-> IF k \in o + 1..n THEN b[k - o] ELSE w.datos[k]]
           v == [w EXCEPT !.datos = d, !.tam = IF n > w.tam THEN n ELSE w.tam]
<1>1. /\ Listo(t, {p}) /\ EsArchivo(p) /\ n <= MAX_CONTENT
      /\ inodos' = [inodos EXCEPT ![i] = v] /\ UNCHANGED <<bitmap_inodes, disk, fase, hilo>>
  BY DEF Write, PonerInodo, Cabe
<1>2. i \in Inodes /\ bitmap_inodes[i] /\ w.path = p /\ w.tipo = "REG"
  BY <1>1, Busqueda DEF EsArchivo
<1>3. w \in Inodo /\ w.tam <= MAX_CONTENT
  <2> HIDE DEF i
  <2> QED
    BY <1>2, Hechos DEF Tipado
<1>4. w.tam \in 0..MAX_CONTENT
  <2>1. 0..MAX_CONTENT \cup 0..MAX_DIR_ENTRIES + 1 \subseteq Nat
    OBVIOUS
  <2>2. w.tam \in Nat
    BY <1>3, <2>1 DEF Inodo
  <2> QED
    BY <1>3, <2>2, Numeros
<1> HIDE DEF w
<1>5. n = o + 1 /\ b[1] = c /\ o \in Nat
  BY Numeros
<1>6. d = ConByte(w.datos, o, c)
  <2> HIDE DEF b, n
  <2>1. \A k \in 1..MAX_CONTENT : (k \in o + 1..n <=> k = o + 1) /\ (k = o + 1 => b[k - o] = c)
    BY <1>5, Numeros
  <2> QED
    BY <2>1 DEF ConByte
<1> HIDE DEF d, n
<1>7. v.path = w.path /\ v.tipo = w.tipo /\ v.datos = d /\ v.tam = Hasta(w.tam, o + 1)
  BY <1>3, <1>5 DEF Inodo, Hasta
<1> HIDE DEF v, i
<1>8. inodos'[i] = v /\ \A j \in Inodes \ {i} : inodos'[j] = inodos[j]
  BY <1>1, <1>2, Hechos
<1> QED
  BY <1>1, <1>2, <1>3, <1>4, <1>5, <1>6, <1>7, <1>8 DEF i, w

LEMMA TruncateEs ==
    ASSUME IInv, UnHilo, NEW p, NEW n \in 0..MAX_CONTENT, Truncate(t, p, n)
    PROVE  LET i == BuscarInodo(p)
           IN  /\ Listo(t, {p}) /\ EsArchivo(p)
               /\ UNCHANGED <<bitmap_inodes, disk, fase, hilo>>
               /\ i \in Inodes /\ bitmap_inodes[i] /\ inodos[i].path = p /\ inodos[i].tipo = "REG"
               /\ inodos[i] \in Inodo /\ inodos[i].tam \in 0..MAX_CONTENT
               /\ \A j \in Inodes \ {i} : inodos'[j] = inodos[j]
               /\ inodos'[i].path = inodos[i].path /\ inodos'[i].tipo = inodos[i].tipo
               /\ inodos'[i].datos = ConCeros(inodos[i].datos, n, inodos[i].tam)
               /\ inodos'[i].tam = n
<1> DEFINE i == BuscarInodo(p)
           w == inodos[i]
           v == [w EXCEPT !.datos = ConCeros(w.datos, n, w.tam), !.tam = n]
<1>1. Listo(t, {p}) /\ EsArchivo(p) /\ UNCHANGED <<bitmap_inodes, disk, fase, hilo>>
  BY DEF Truncate
<1>2. inodos' = [inodos EXCEPT ![i] = v]
  BY DEF Truncate, PonerInodo
<1>3. i \in Inodes /\ bitmap_inodes[i] /\ w.path = p /\ w.tipo = "REG"
  BY <1>1, Busqueda DEF EsArchivo
<1>5. w \in Inodo /\ w.tam <= MAX_CONTENT
  <2> HIDE DEF i
  <2> QED
    BY <1>3, Hechos DEF Tipado
<1>6. w.tam \in 0..MAX_CONTENT
  <2>1. 0..MAX_CONTENT \cup 0..MAX_DIR_ENTRIES + 1 \subseteq Nat
    OBVIOUS
  <2>2. w.tam \in Nat
    BY <1>5, <2>1 DEF Inodo
  <2> QED
    BY <1>5, <2>2, Numeros
<1>7. /\ v.path = w.path /\ v.tipo = w.tipo
      /\ v.datos = ConCeros(w.datos, n, w.tam) /\ v.tam = n
  BY <1>5 DEF Inodo
<1> HIDE DEF v, i
<1>8. inodos'[i] = v /\ \A j \in Inodes \ {i} : inodos'[j] = inodos[j]
  BY <1>2, <1>3, Hechos
<1> QED
  BY <1>1, <1>3, <1>5, <1>6, <1>7, <1>8 DEF i

LEMMA ArboladoWrite ==
    ASSUME IInv, Arbolado, Perdidos, UnHilo, NEW p, NEW o \in 0..MAX_CONTENT, NEW c \in Bytes, Write(t, p, o, <<c>>)
    PROVE  Arbolado'
<1> DEFINE i == BuscarInodo(p)
           w == inodos[i]
           v == inodos'[i]
<1>1. /\ Listo(t, {p}) /\ UNCHANGED <<bitmap_inodes, disk, fase, hilo>>
      /\ i \in Inodes /\ w.tipo = "REG" /\ w.tam \in 0..MAX_CONTENT
      /\ \A j \in Inodes \ {i} : inodos'[j] = inodos[j]
      /\ v.path = w.path /\ v.tipo = w.tipo
      /\ v.datos = ConByte(w.datos, o, c) /\ v.tam = Hasta(w.tam, o + 1)
  BY WriteEs
<1> HIDE DEF i
<1>2. ASSUME NEW k \in 1..MAX_CONTENT, k > v.tam
      PROVE  v.datos[k] = 0
  <2>1. w.tam \in Nat /\ o \in Nat /\ k \in Nat
    BY <1>1, Numeros
  <2>2. k > w.tam => w.datos[k] = 0
    BY <1>1 DEF Arbolado, FinEnCeros
  <2> HIDE DEF w, v
  <2>3. k > w.tam /\ k # o + 1
    BY <1>1, <1>2, <2>1 DEF Hasta
  <2> QED
    BY <1>1, <2>1, <2>2, <2>3 DEF ConByte
<1> QED
  BY <1>1, <1>2, ArboladoArchivo

LEMMA ArboladoTruncate ==
    ASSUME IInv, Arbolado, Perdidos, UnHilo, NEW p, NEW n \in 0..MAX_CONTENT, Truncate(t, p, n)
    PROVE  Arbolado'
<1> DEFINE i == BuscarInodo(p)
           w == inodos[i]
           v == inodos'[i]
<1>1. /\ Listo(t, {p}) /\ UNCHANGED <<bitmap_inodes, disk, fase, hilo>>
      /\ i \in Inodes /\ w.tipo = "REG" /\ w.tam \in 0..MAX_CONTENT
      /\ \A j \in Inodes \ {i} : inodos'[j] = inodos[j]
      /\ v.path = w.path /\ v.tipo = w.tipo
      /\ v.datos = ConCeros(w.datos, n, w.tam) /\ v.tam = n
  BY TruncateEs
<1> HIDE DEF i
<1>2. ASSUME NEW k \in 1..MAX_CONTENT, k > v.tam
      PROVE  v.datos[k] = 0
  <2>1. w.tam \in Nat /\ n \in Nat /\ k \in Nat
    BY <1>1, Numeros
  <2>2. k > w.tam => w.datos[k] = 0
    BY <1>1 DEF Arbolado, FinEnCeros
  <2> HIDE DEF w, v
  <2>3. v.datos[k] = IF k \in n + 1..w.tam THEN 0 ELSE w.datos[k]
    BY <1>1 DEF ConCeros
  <2> QED
    BY <1>1, <1>2, <2>1, <2>2, <2>3
<1> QED
  BY <1>1, <1>2, ArboladoArchivo

LEMMA ArboladoAbrir ==
    ASSUME IInv, Arbolado, Perdidos, UnHilo, h = Quieto, Abrir(t), fase = "mounted", fase' # "off"
    PROVE  Arbolado'
<1> DEFINE x == [Quieto EXCEPT !.op = "guardar", !.paso = "escribir"]
<1>1. hilo' = [hilo EXCEPT ![t] = x] /\ disk' = Cortado /\ UNCHANGED <<bitmap_inodes, inodos>>
  BY DEF Abrir, superbloque
<1>2. h' = x
  BY <1>1, Hechos, QuietoEs, Cambia DEF Fases
<1>3. x.op = "guardar" /\ x.paso = "escribir"
  BY DEF Quieto
<1> HIDE DEF x
<1>4. Listados(bitmap_inodes, inodos, 0, perdidos) /\ FinEnCeros(inodos)
  BY ArboladoEs, QuietoEs DEF Pendiente
<1>5. Pendiente' = 0
  BY <1>2, <1>3 DEF Pendiente
<1>6. Listados(bitmap_inodes', inodos', Pendiente', perdidos')
  BY <1>1, <1>4, <1>5, PerdidosQuedan DEF Listados
<1> QED
  BY <1>1, <1>2, <1>3, <1>4, <1>6, ArboladoCompone

\* Nothing in use.
LEMMA ArboladoNada ==
    ASSUME UnHilo, h' = Quieto,
           \A i \in Inodes : ~bitmap_inodes'[i] /\ inodos'[i] = InodoCero,
           disk'.estado = "completo" => /\ Listados(disk'.bitmap, disk'.inodos, 0, perdidosEnDisco')
                                         /\ FinEnCeros(disk'.inodos)
    PROVE  Arbolado'
<1>1. Listados(bitmap_inodes', inodos', 0, perdidos')
  BY DEF Listados
<1>2. FinEnCeros(inodos')
  BY FinFresco DEF FinEnCeros
<1>3. VBitmap' = bitmap_inodes' /\ VInodos' = inodos' /\ Pendiente' = 0
  BY QuietoEs DEF VBitmap, VInodos, Pendiente
<1> QED
  BY <1>1, <1>2, <1>3, QuietoEs DEF Arbolado, Liberando

LEMMA MuereEs ==
    ASSUME UnHilo, Muere
    PROVE  /\ h' = Quieto /\ fase' = "off"
           /\ \A i \in Inodes : ~bitmap_inodes'[i] /\ inodos'[i] = InodoCero
BY ElHilo DEF Muere, h

LEMMA EscribirEs ==
    ASSUME IInv, UnHilo, Escribir(t)
    PROVE  /\ h.op = "guardar" /\ h.paso = "escribir" /\ disk' = Imagen(bitmap_inodes, inodos)
           /\ \/ fase = "mounted" /\ Termina(t) /\ UNCHANGED <<bitmap_inodes, inodos, fase>>
              \/ fase = "unmounting" /\ Muere
<1>1. h.paso = "escribir"
  BY DEF Escribir, h
<1> QED
  BY <1>1, Hechos, QuietoEs DEF Escribir, superbloque, Fases

LEMMA ArboladoEscribir ==
    ASSUME IInv, Arbolado, Perdidos, UnHilo, Escribir(t)
    PROVE  Arbolado'
<1>1. Listados(bitmap_inodes, inodos, 0, perdidos) /\ FinEnCeros(inodos)
  BY EscribirEs, ArboladoEs DEF Pendiente
<1>2. disk' = Imagen(bitmap_inodes, inodos)
  BY EscribirEs
<1>3. CASE fase = "mounted" /\ Termina(t) /\ UNCHANGED <<bitmap_inodes, inodos, fase>>
  <2>1. h'.op = "none" /\ h'.paso = "fin"
    BY <1>3, TerminaFases
  <2>2. Pendiente' = 0
    BY <2>1 DEF Pendiente
  <2>3. Listados(bitmap_inodes', inodos', Pendiente', perdidos')
    BY <1>1, <1>3, <2>2, PerdidosQuedan DEF Listados
  <2> QED
    BY <1>1, <1>2, <1>3, <2>1, <2>3, ArboladoCompone
<1>4. CASE fase = "unmounting" /\ Muere
  <2>1. disk'.bitmap = bitmap_inodes /\ disk'.inodos = inodos
    BY <1>2 DEF Imagen
  <2> QED
    <3>1. disk' # disk => perdidosEnDisco' = perdidos
      BY <1>2 DEF Perdidos, Imagen, Cortado
    <3>2. disk' = disk => perdidosEnDisco' = perdidosEnDisco
      BY DEF Perdidos
    <3> QED
      BY <1>1, <1>4, <2>1, <3>1, <3>2, MuereEs, ArboladoNada DEF Arbolado
<1> QED
  BY <1>3, <1>4, EscribirEs

LEMMA ArboladoCrash ==
    ASSUME IInv, Arbolado, Perdidos, UnHilo, Crash
    PROVE  Arbolado'
<1>1. Muere /\ disk' = disk
  BY DEF Crash
<1> QED
  BY <1>1, MuereEs, ArboladoNada DEF Arbolado, Perdidos

LEMMA ArboladoMount ==
    ASSUME IInv, Arbolado, Perdidos, UnHilo, Mount
    PROVE  Arbolado'
<1>1. h = Quieto /\ h' = Quieto /\ disk' = disk
  BY Hechos DEF Mount, h
<1>2. /\ \A i \in Inodes : ~bitmap_inodes[i]
      /\ FinEnCeros(inodos) /\ perdidos' = perdidosEnDisco
  BY DEF Mount, IInv, Arbolado, Perdidos
<1>3. Listados(bitmap_inodes', inodos', 0, perdidos') /\ FinEnCeros(inodos')
  <2>1. CASE /\ bitmap_inodes' = [i \in Inodes |-> i = 0]
             /\ inodos' = [i \in Inodes |-> IF i = 0 THEN Raiz ELSE InodoCero]
    <3>1. Listados(bitmap_inodes', inodos', 0, perdidos')
      BY <2>1 DEF Listados
    <3>2. \A i \in Inodes : inodos'[i] = Raiz \/ inodos'[i] = InodoCero
      BY <2>1
    <3>3. FinEnCeros(inodos')
      BY <3>2, FinFresco DEF FinEnCeros
    <3> QED
      BY <3>1, <3>3
  <2>2. CASE UNCHANGED superbloque
    BY <1>2, <2>2 DEF superbloque, Listados
  <2>3. CASE disk.estado = "completo" /\ bitmap_inodes' = disk.bitmap /\ inodos' = disk.inodos
    BY <1>2, <2>3 DEF Arbolado
  <2> QED
    BY <2>1, <2>2, <2>3 DEF Mount
<1>4. Pendiente' = 0
  BY <1>1, QuietoEs DEF Pendiente
<1> QED
  BY <1>1, <1>3, <1>4, QuietoEs, ArboladoCompone

LEMMA ArboladoIgual ==
    ASSUME Arbolado, UNCHANGED lostVars
    PROVE  Arbolado'
<1>1. /\ bitmap_inodes' = bitmap_inodes /\ inodos' = inodos /\ disk' = disk /\ h' = h
  BY DEF lostVars, vars, h
<1> QED
  BY <1>1 DEF lostVars, Arbolado, VBitmap, VInodos, Pendiente, Liberando

LEMMA ArboladoSigue ==
    ASSUME IInv, Arbolado, Perdidos, UnHilo, Next
    PROVE  Arbolado'
<1>2. CASE Mount
  BY <1>2, ArboladoMount
<1>3. CASE Crash
  BY <1>3, ArboladoCrash
<1>4. CASE Pide(t)
  <2>1. ASSUME NEW p \in Paths, Nuevo(t, "create", p) \/ Nuevo(t, "mkdir", p)
        PROVE  Arbolado'
    BY <2>1, ArboladoNuevo
  <2>2. ASSUME NEW p \in Paths, Unlink(t, p)
        PROVE  Arbolado'
    BY <2>2, ArboladoUnlink
  <2>3. ASSUME NEW p \in Paths, Rmdir(t, p)
        PROVE  Arbolado'
    BY <2>3, ArboladoRmdir
  <2>4. ASSUME NEW p \in Paths, NEW n \in 0..MAX_CONTENT, Truncate(t, p, n)
        PROVE  Arbolado'
    BY <2>4, ArboladoTruncate
  <2>5. ASSUME NEW p \in Paths, NEW o \in 0..MAX_CONTENT, NEW c \in Bytes, Write(t, p, o, <<c>>)
        PROVE  Arbolado'
    BY <2>5, ArboladoWrite
  <2>6. CASE Flush(t) \/ Unmount(t)
    <3>1. h = Quieto /\ Abrir(t) /\ fase = "mounted" /\ fase' # "off"
      BY <2>6, ElHilo DEF Flush, Unmount, Listo, h
    <3> QED
      BY <3>1, ArboladoAbrir
  <2> QED
    BY <1>4, <2>1, <2>2, <2>3, <2>4, <2>5, <2>6 DEF Pide
<1>5. CASE Sigue(t)
  BY <1>5, ArboladoCrear, ArboladoAgregar, ArboladoSinLugar, ArboladoInicializar, ArboladoLiberar, ArboladoBorrar,
     ArboladoQuitar, ArboladoEscribir DEF Sigue
<1> QED
  BY <1>2, <1>3, <1>4, <1>5, ElHilo DEF Next

LEMMA ArboladoEmpieza ==
    ASSUME UnHilo, LostInit
    PROVE  Arbolado
<1>1. h = Quieto /\ disk = Ausente /\ \A i \in Inodes : ~bitmap_inodes[i] /\ inodos[i] = InodoCero
  BY ElHilo DEF LostInit, Init, h
<1>2. Listados(bitmap_inodes, inodos, 0, perdidos) /\ FinEnCeros(inodos)
  BY <1>1, FinFresco DEF Listados, FinEnCeros
<1>3. VBitmap = bitmap_inodes /\ VInodos = inodos /\ Pendiente = 0
  BY <1>1, QuietoEs DEF VBitmap, VInodos, Pendiente
<1> QED
  BY <1>1, <1>2, <1>3, QuietoEs DEF Arbolado, Liberando, Ausente

-----------------------------------------------------------------------------
(***************************************************************************)
(* The hierarchy.                                                          *)
(***************************************************************************)

\* Every inode in use is listed, or on the record, between operations and in
\* a complete file.
THEOREM InvarianteArbol ==
    ASSUME UnHilo
    PROVE  LostSpec => [](IInv /\ Arbolado)
<1>1. LostInit => IInv /\ Arbolado
  BY EmpiezaBien, ArboladoEmpieza DEF LostInit
<1>2. IInv /\ Arbolado /\ [LostNext]_lostVars => IInv' /\ Arbolado'
  BY PasoSigue, ArboladoSigue, ArboladoIgual DEF LostNext, lostVars
<1> QED
  BY <1>1, <1>2, PTL DEF LostSpec

\* Between operations every inode in use, but the root's and those whose
\* creation found its directory full, is in the listing of a directory in use
\* whose path is its dirname: fisopfs_readdir shows all there is.
THEOREM HierarchicalHolds ==
    ASSUME UnHilo
    PROVE  LostSpec => []Hierarchical
<1>1. IInv /\ Arbolado => Hierarchical
  <2> SUFFICES ASSUME IInv, Arbolado, Quieta, NEW i \in Inodes \ ({0} \cup perdidos), bitmap_inodes[i]
               PROVE  \E d \in Inodes :
                         /\ bitmap_inodes[d] /\ inodos[d].tipo = "DIR"
                         /\ inodos[d].path = Dirname(inodos[i].path)
                         /\ \E k \in Listado(d) : inodos[d].entradas[k].inodo = i
    BY DEF Hierarchical
  <2>1. h.op \in {"none", "guardar"}
    BY ElHilo DEF Quieta, h
  <2>2. h.paso \notin {"liberar", "borrar", "agregar"} /\ h.op # "unlink"
    BY <2>1, QuietoEs DEF IInv, Fases
  <2>3. EnLista(bitmap_inodes, inodos, i)
    BY <2>2, ArboladoEs DEF Pendiente, Listados
  <2>4. PICK d \in Inodes, k \in Slots :
           /\ bitmap_inodes[d] /\ inodos[d].tipo = "DIR" /\ inodos[d].path = Dirname(inodos[i].path)
           /\ Nombra(inodos[d].entradas[k], i)
    BY <2>3 DEF EnLista
  <2>5. k < inodos[d].tam
    <3>1. PICK c \in 0..MAX_DIR_ENTRIES : /\ \A j \in Slots : inodos[d].entradas[j].inodo # 0 <=> j < c
                                          /\ inodos[d].tam \in {c, c + 1}
      BY <2>4 DEF IInv, Tipado, Ordenado
    <3>2. k \in Nat /\ k < c
      BY <2>4, <3>1, Numeros DEF Nombra
    <3> QED
      BY <3>1, <3>2
  <2>6. k \in Listado(d) /\ inodos[d].entradas[k].inodo = i
    BY <2>4, <2>5, Puntos DEF Listado, Entradas, Nombra
  <2> QED
    BY <2>4, <2>6
<1> QED
  BY <1>1, InvarianteArbol, PTL

-----------------------------------------------------------------------------
(***************************************************************************)
(* Trees.                                                                  *)
(***************************************************************************)

Distintos(bm, ino) == \A i, j \in Inodes : bm[i] /\ bm[j] /\ ino[i].path = ino[j].path => i = j

\* A path leads to the node of the inode that has it.
LEMMA ArbolEs ==
    ASSUME NEW bm, NEW ino, Distintos(bm, ino)
    PROVE  /\ Arbol(bm, ino) = [p \in DOMAIN Arbol(bm, ino) |-> Arbol(bm, ino)[p]]
           /\ \A p \in DOMAIN Arbol(bm, ino) : \E i \in Inodes : bm[i] /\ p = ino[i].path
           /\ \A i \in Inodes : bm[i] => /\ ino[i].path \in DOMAIN Arbol(bm, ino)
                                         /\ Arbol(bm, ino)[ino[i].path] = Nodo(ino[i])
<1> DEFINE D == {ino[i].path : i \in {j \in Inodes : bm[j]}}
<1>1. Arbol(bm, ino) = [p \in D |-> Nodo(ino[BuscarEn(bm, ino, p)])]
  BY DEF Arbol
<1>2. \A p : p \in D <=> \E i \in Inodes : bm[i] /\ p = ino[i].path
  OBVIOUS
<1>3. ASSUME NEW i \in Inodes, bm[i]
      PROVE  BuscarEn(bm, ino, ino[i].path) = i
  <2> DEFINE S == {j \in Inodes : bm[j] /\ ino[j].path = ino[i].path}
  <2>1. S \in SUBSET Nat /\ i \in S /\ BuscarEn(bm, ino, ino[i].path) = Primero(S)
    BY <1>3, Numeros DEF BuscarEn
  <2>2. \A j \in S : j = i
    BY <1>3 DEF Distintos
  <2> HIDE DEF S
  <2>3. Primero(S) \in S
    BY <2>1, PrimeroEs
  <2> QED
    BY <2>1, <2>2, <2>3
<1> HIDE DEF D
<1>4. DOMAIN Arbol(bm, ino) = D
  BY <1>1
<1>5. \A p \in D : Arbol(bm, ino)[p] = Nodo(ino[BuscarEn(bm, ino, p)])
  BY <1>1
<1>6. Arbol(bm, ino) = [p \in DOMAIN Arbol(bm, ino) |-> Arbol(bm, ino)[p]]
  BY <1>1, <1>4
<1> QED
  BY <1>2, <1>3, <1>4, <1>5, <1>6

\* Functions are the same when their values are.
LEMMA Extension ==
    ASSUME NEW f, NEW g, f = [p \in DOMAIN f |-> f[p]], g = [p \in DOMAIN g |-> g[p]],
           DOMAIN f = DOMAIN g, \A p \in DOMAIN f : f[p] = g[p]
    PROVE  f = g
OBVIOUS

\* Nothing that a lookup shows has changed.
LEMMA ArbolIgual ==
    ASSUME NEW bm, NEW ino, Distintos(bm, ino), NEW bn, NEW jno,
           \A i \in Inodes : bn[i] <=> bm[i],
           \A i \in Inodes : bm[i] => jno[i].path = ino[i].path /\ Nodo(jno[i]) = Nodo(ino[i])
    PROVE  Arbol(bn, jno) = Arbol(bm, ino)
<1> DEFINE f == Arbol(bm, ino)
           g == Arbol(bn, jno)
<1>1. Distintos(bn, jno)
  BY DEF Distintos
<1>2. /\ f = [p \in DOMAIN f |-> f[p]]
      /\ \A p \in DOMAIN f : \E i \in Inodes : bm[i] /\ p = ino[i].path
      /\ \A i \in Inodes : bm[i] => ino[i].path \in DOMAIN f /\ f[ino[i].path] = Nodo(ino[i])
  BY ArbolEs
<1>3. /\ g = [p \in DOMAIN g |-> g[p]]
      /\ \A p \in DOMAIN g : \E i \in Inodes : bn[i] /\ p = jno[i].path
      /\ \A i \in Inodes : bn[i] => jno[i].path \in DOMAIN g /\ g[jno[i].path] = Nodo(jno[i])
  BY <1>1, ArbolEs
<1> HIDE DEF f, g
<1>4. \A p : p \in DOMAIN f <=> p \in DOMAIN g
  BY <1>2, <1>3
<1>5. DOMAIN f = DOMAIN g
  BY <1>4
<1>6. \A p \in DOMAIN f : f[p] = g[p]
  BY <1>2, <1>3
<1>7. g = f
  BY <1>2, <1>3, <1>5, <1>6, Extension
<1> QED
  BY <1>7 DEF f, g

\* The node of inode i is new, or another one.
LEMMA ArbolCon ==
    ASSUME NEW bm, NEW ino, Distintos(bm, ino), NEW bn, NEW jno, Distintos(bn, jno),
           NEW i \in Inodes, bn[i], bm[i] => ino[i].path = jno[i].path,
           \A j \in Inodes \ {i} : bn[j] <=> bm[j],
           \A j \in Inodes \ {i} : bm[j] => jno[j].path = ino[j].path /\ Nodo(jno[j]) = Nodo(ino[j])
    PROVE  LET p == jno[i].path
           IN  Arbol(bn, jno) = [q \in DOMAIN Arbol(bm, ino) \cup {p} |->
                                   IF q = p THEN Nodo(jno[i]) ELSE Arbol(bm, ino)[q]]
<1> DEFINE f == Arbol(bm, ino)
           g == Arbol(bn, jno)
           p == jno[i].path
           k == [q \in DOMAIN f \cup {p} |-> IF q = p THEN Nodo(jno[i]) ELSE f[q]]
<1>1. /\ \A q \in DOMAIN f : \E j \in Inodes : bm[j] /\ q = ino[j].path
      /\ \A j \in Inodes : bm[j] => ino[j].path \in DOMAIN f /\ f[ino[j].path] = Nodo(ino[j])
  BY ArbolEs
<1>2. /\ g = [q \in DOMAIN g |-> g[q]]
      /\ \A q \in DOMAIN g : \E j \in Inodes : bn[j] /\ q = jno[j].path
      /\ \A j \in Inodes : bn[j] => jno[j].path \in DOMAIN g /\ g[jno[j].path] = Nodo(jno[j])
  BY ArbolEs
<1>3. /\ DOMAIN k = DOMAIN f \cup {p} /\ k = [q \in DOMAIN k |-> k[q]]
      /\ \A q \in DOMAIN k : k[q] = IF q = p THEN Nodo(jno[i]) ELSE f[q]
  OBVIOUS
<1> HIDE DEF f, g, k
<1>4. \A q : q \in DOMAIN g <=> q \in DOMAIN f \cup {p}
  BY <1>1, <1>2
<1>5. DOMAIN g = DOMAIN k
  BY <1>3, <1>4
<1>6. ASSUME NEW q \in DOMAIN g
      PROVE  g[q] = k[q]
  <2>1. PICK j \in Inodes : bn[j] /\ q = jno[j].path /\ g[q] = Nodo(jno[j])
    BY <1>2
  <2>2. CASE j = i
    BY <1>3, <1>5, <2>1, <2>2
  <2>3. CASE j # i
    <3>1. q # p
      BY <2>1, <2>3 DEF Distintos
    <3> QED
      BY <1>1, <1>3, <1>5, <2>1, <2>3, <3>1
  <2> QED
    BY <2>2, <2>3
<1>7. g = k
  BY <1>2, <1>3, <1>5, <1>6, Extension
<1> QED
  BY <1>7 DEF f, g, k

\* Inode i is not in use any more.
LEMMA ArbolSin ==
    ASSUME NEW bm, NEW ino, Distintos(bm, ino), NEW bn,
           NEW i \in Inodes, bm[i], ~bn[i], \A j \in Inodes \ {i} : bn[j] <=> bm[j]
    PROVE  Arbol(bn, ino) = [q \in DOMAIN Arbol(bm, ino) \ {ino[i].path} |-> Arbol(bm, ino)[q]]
<1> DEFINE f == Arbol(bm, ino)
           g == Arbol(bn, ino)
           p == ino[i].path
           k == [q \in DOMAIN f \ {p} |-> f[q]]
<1>0. Distintos(bn, ino)
  BY DEF Distintos
<1>1. /\ \A q \in DOMAIN f : \E j \in Inodes : bm[j] /\ q = ino[j].path
      /\ \A j \in Inodes : bm[j] => ino[j].path \in DOMAIN f /\ f[ino[j].path] = Nodo(ino[j])
  BY ArbolEs
<1>2. /\ g = [q \in DOMAIN g |-> g[q]]
      /\ \A q \in DOMAIN g : \E j \in Inodes : bn[j] /\ q = ino[j].path
      /\ \A j \in Inodes : bn[j] => ino[j].path \in DOMAIN g /\ g[ino[j].path] = Nodo(ino[j])
  BY <1>0, ArbolEs
<1>3. /\ DOMAIN k = DOMAIN f \ {p} /\ k = [q \in DOMAIN k |-> k[q]]
      /\ \A q \in DOMAIN k : k[q] = f[q]
  OBVIOUS
<1> HIDE DEF f, g, k
<1>4. ASSUME NEW q \in DOMAIN g
      PROVE  q \in DOMAIN f \ {p} /\ g[q] = f[q]
  <2>1. PICK j \in Inodes : bn[j] /\ q = ino[j].path
    BY <1>2
  <2>2. j # i /\ bm[j]
    BY <2>1
  <2>3. q # p
    BY <2>1, <2>2 DEF Distintos
  <2> QED
    BY <1>1, <1>2, <2>1, <2>2, <2>3
<1>5. ASSUME NEW q \in DOMAIN f \ {p}
      PROVE  q \in DOMAIN g
  <2>1. PICK j \in Inodes : bm[j] /\ q = ino[j].path
    BY <1>1
  <2> QED
    BY <1>2, <2>1
<1>6. DOMAIN g = DOMAIN k
  BY <1>3, <1>4, <1>5
<1>7. \A q \in DOMAIN g : g[q] = k[q]
  BY <1>3, <1>4, <1>6
<1>8. g = k
  BY <1>2, <1>3, <1>6, <1>7, Extension
<1> QED
  BY <1>8 DEF f, g, k

\* Nothing in use, no tree.
LEMMA ArbolVacio ==
    ASSUME NEW bm, NEW ino, \A i \in Inodes : ~bm[i]
    PROVE  Arbol(bm, ino) = [p \in {} |-> Nodo(Raiz)]
<1>1. {ino[i].path : i \in {j \in Inodes : bm[j]}} = {}
  OBVIOUS
<1>2. Arbol(bm, ino) = [p \in {} |-> Nodo(ino[BuscarEn(bm, ino, p)])]
  BY <1>1 DEF Arbol
<1> QED
  BY <1>2

\* What a file holds, byte by byte
LEMMA Contenido ==
    ASSUME NEW d \in [1..MAX_CONTENT -> Bytes], NEW n \in 0..MAX_CONTENT
    PROVE  /\ SubSeq(d, 1, n) = [k \in 1..n |-> d[k]]
           /\ Len(SubSeq(d, 1, n)) = n
<1>1. n \in Nat /\ MAX_CONTENT \in Nat
  BY Numeros
<1>2. d \in Seq(Bytes) /\ Len(d) = MAX_CONTENT
  <2>1. d \in Seq(Bytes)
    BY <1>1, SeqDef
  <2>2. DOMAIN d = 1..MAX_CONTENT /\ DOMAIN d = 1..Len(d) /\ Len(d) \in Nat
    BY <2>1, LenProperties
  <2> QED
    BY <1>1, <2>1, <2>2
<1> DEFINE s == SubSeq(d, 1, n)
<1>3. /\ s \in Seq(Bytes) /\ Len(s) = n
      /\ \A i \in 1..n : s[i] = d[i]
  <2>1. CASE n = 0
    <3>1. s = <<>>
      BY <1>2, <2>1, SubSeqProperties
    <3> QED
      BY <2>1, <3>1, EmptySeq
  <2>2. CASE n # 0
    <3>1. \A i \in 1..n : d[i] \in Bytes
      BY <1>1
    <3> QED
      BY <1>1, <1>2, <2>2, <3>1, SubSeqProperties
  <2> QED
    BY <2>1, <2>2
<1> HIDE DEF s
<1>4. s = [k \in 1..n |-> s[k]]
  <2>1. s \in [1..n -> Bytes]
    BY <1>3, LenProperties
  <2> QED
    BY <2>1
<1>5. s = [k \in 1..n |-> d[k]]
  BY <1>3, <1>4
<1> QED
  BY <1>3, <1>5 DEF s

-----------------------------------------------------------------------------
(***************************************************************************)
(* Every step is a call of the tree or is invisible.                       *)
(***************************************************************************)

Tree == Arbol(bitmap_inodes, inodos)
Saving == \E x \in Threads : hilo[x].paso = "escribir"

LEMMA Estados ==
    /\ Ausente.estado = "ausente" /\ Cortado.estado = "cortado"
    /\ \A bm, ino : Imagen(bm, ino).estado = "completo"
    /\ Nodo(Raiz) = Promise!Dir /\ Nodo(InodoCero) = Promise!Dir
    /\ \A v : v.tipo = "DIR" => Nodo(v) = Promise!Dir
BY FinFresco DEF Ausente, Cortado, Imagen, Nodo, Promise!Dir

LEMMA SavingEs ==
    ASSUME UnHilo
    PROVE  Saving = (h.paso = "escribir") /\ Saving' = (h'.paso = "escribir")
BY ElHilo DEF Saving, h

\* Two inodes in use never have one path, not even in the middle of a removal.
LEMMA PathsUnicos ==
    ASSUME IInv, Arbolado, UnHilo
    PROVE  Distintos(bitmap_inodes, inodos)
<1>1. /\ bitmap_inodes \in [Inodes -> BOOLEAN] /\ inodos \in [Inodes -> Inodo]
      /\ Unicos(VBitmap, VInodos) /\ h \in Tarea
  BY Hechos DEF Bueno
<1>2. h.ino \in Inodes
  BY <1>1 DEF Tarea
<1>3. CASE h.op # "unlink" /\ h.paso \notin {"liberar", "borrar"}
  BY <1>1, <1>3 DEF VBitmap, VInodos, Unicos, Distintos
<1>4. CASE h.op = "unlink" \/ h.paso \in {"liberar", "borrar"}
  <2>1. \A i \in Inodes \ {h.ino} : VBitmap[i] = bitmap_inodes[i] /\ VInodos[i] = inodos[i]
    BY <1>1, <1>2 DEF VBitmap, VInodos
  <2>2. \A i, j \in Inodes \ {h.ino} :
           bitmap_inodes[i] /\ bitmap_inodes[j] /\ inodos[i].path = inodos[j].path => i = j
    BY <1>1, <2>1 DEF Unicos
  <2>3. bitmap_inodes[h.ino] =>
           \A i \in Inodes \ {h.ino} : bitmap_inodes[i] => inodos[i].path # inodos[h.ino].path
    <3>1. CASE h.paso = "liberar"
      BY <3>1 DEF Arbolado, Liberando
    <3>2. CASE h.paso # "liberar"
      <4>1. h.paso \in {"borrar", "quitar"} /\ (h.paso = "quitar" => h.op = "unlink") /\ Quitando
        BY <1>4, <3>2, Hechos, QuietoEs DEF Fases
      <4>2. ~bitmap_inodes[h.ino]
        BY <4>1 DEF Quitando
      <4> QED
        BY <4>2
    <3> QED
      BY <3>1, <3>2
  <2> QED
    BY <2>2, <2>3 DEF Distintos
<1> QED
  BY <1>3, <1>4

\* A path of the tree that a lookup finds.
LEMMA EnTree ==
    ASSUME IInv, Arbolado, UnHilo, NEW i \in Inodes, bitmap_inodes[i]
    PROVE  inodos[i].path \in DOMAIN Tree /\ Tree[inodos[i].path] = Nodo(inodos[i])
BY PathsUnicos, ArbolEs DEF Tree

LEMMA Invisible ==
    ASSUME UnHilo, Tree' = Tree, disk' = disk, h.paso # "escribir", h'.paso # "escribir"
    PROVE  UNCHANGED Promise!vars
<1>1. Saving' = Saving
  BY SavingEs
<1>2. Guardado' = Guardado
  BY DEF Guardado
<1> QED
  BY <1>1, <1>2 DEF Promise!vars, Tree, Saving

\* The beginning of an operation
LEMMA EmpiezaInvisible ==
    ASSUME UnHilo, hilo \in [Threads -> Tarea], h = Quieto, NEW op, NEW paso, NEW p, NEW i,
           Empieza(t, op, paso, p, i), paso # "escribir"
    PROVE  UNCHANGED Promise!vars
<1> DEFINE x == [op |-> op, paso |-> paso, path |-> p, ino |-> i, padre |-> BuscarInodo(Dirname(p))]
<1>1. hilo' = [hilo EXCEPT ![t] = x] /\ UNCHANGED <<bitmap_inodes, inodos, disk, fase>>
  BY DEF Empieza, superbloque
<1>2. h' = x
  BY <1>1, ElHilo DEF h
<1>3. h'.paso = paso
  BY <1>2
<1>4. Tree' = Tree
  BY <1>1 DEF Tree
<1> QED
  BY <1>1, <1>3, <1>4, QuietoEs, Invisible

\* Lists of entries do not show.
LEMMA EntradasInvisibles ==
    ASSUME IInv, Arbolado, UnHilo, NEW d \in Inodes, inodos[d].tipo = "DIR",
           inodos'[d].path = inodos[d].path, inodos'[d].tipo = "DIR",
           \A i \in Inodes \ {d} : inodos'[i] = inodos[i],
           bitmap_inodes' = bitmap_inodes, disk' = disk, h.paso # "escribir", h'.paso # "escribir"
    PROVE  UNCHANGED Promise!vars
<1>1. \A i \in Inodes : inodos'[i].path = inodos[i].path /\ Nodo(inodos'[i]) = Nodo(inodos[i])
  BY Estados
<1>2. Tree' = Tree
  BY <1>1, PathsUnicos, ArbolIgual DEF Tree
<1> QED
  BY <1>2, Invisible

LEMMA AgregarInvisible ==
    ASSUME IInv, Arbolado, UnHilo, AgregarEntrada(t), HayLugar(h.padre)
    PROVE  UNCHANGED Promise!vars
<1> DEFINE d == h.padre
           i == h.ino
           v == ConEntrada(d, i)
<1>1. /\ h.paso = "agregar" /\ UNCHANGED <<bitmap_inodes, disk, fase>>
      /\ HayLugar(d) /\ inodos' = [inodos EXCEPT ![d] = v]
      /\ IF h.op = "mkdir" THEN Paso(t, "puntos") ELSE Termina(t)
  BY DEF AgregarEntrada, PonerInodo, h
<1>2. /\ hilo \in [Threads -> Tarea] /\ h \in Tarea
      /\ bitmap_inodes \in [Inodes -> BOOLEAN] /\ inodos \in [Inodes -> Inodo]
      /\ h.op \in {"create", "mkdir"} /\ Creando /\ Tipado(bitmap_inodes, inodos)
  BY <1>1, Hechos, QuietoEs DEF Fases
<1>3. /\ i \in Inodes /\ d \in Inodes /\ d # i /\ i # 0
      /\ h.path \in Paths /\ h.path # <<>>
      /\ inodos[d].tipo = "DIR"
      /\ inodos[i] = InodoNuevo(i, h.path, IF h.op = "mkdir" THEN "DIR" ELSE "REG")
  BY <1>1, <1>2 DEF Creando, EnPadre, Tarea
<1>4. inodos[i].path = h.path /\ inodos[i].inumero = i
  BY <1>3, NuevoEs
<1>5. h'.paso # "escribir"
  BY <1>1, <1>2, TerminaFases, Cambia
<1> HIDE DEF d, i, v
<1>6. v.path = inodos[d].path /\ v.tipo = "DIR"
  BY <1>1, <1>2, <1>3, <1>4, ConEntradaEs DEF v
<1>7. inodos'[d] = v /\ \A j \in Inodes \ {d} : inodos'[j] = inodos[j]
  BY <1>1, <1>2, <1>3
<1> QED
  BY <1>1, <1>3, <1>5, <1>6, <1>7, EntradasInvisibles

LEMMA SinLugarInvisible ==
    ASSUME IInv, Arbolado, UnHilo, AgregarEntrada(t), ~HayLugar(h.padre)
    PROVE  UNCHANGED Promise!vars
<1>1. h.paso = "agregar" /\ UNCHANGED <<bitmap_inodes, inodos, disk, fase>> /\ Termina(t)
  BY DEF AgregarEntrada, h
<1>2. Tree' = Tree /\ h'.paso # "escribir"
  BY <1>1, TerminaFases DEF Tree
<1> QED
  BY <1>1, <1>2, Invisible

LEMMA InicializarInvisible ==
    ASSUME IInv, Arbolado, UnHilo, InicializarEntradas(t)
    PROVE  UNCHANGED Promise!vars
<1> DEFINE i == h.ino
           v == ConPuntos(i, h.padre)
<1>1. /\ h.paso = "puntos" /\ inodos' = [inodos EXCEPT ![i] = v] /\ Termina(t)
      /\ UNCHANGED <<bitmap_inodes, disk, fase>>
  BY DEF InicializarEntradas, PonerInodo, h
<1>2. /\ h \in Tarea /\ h.op = "mkdir" /\ Creando /\ Tipado(bitmap_inodes, inodos)
      /\ inodos \in [Inodes -> Inodo]
  BY <1>1, Hechos, QuietoEs DEF Fases
<1>3. /\ i \in Inodes /\ h.padre \in Inodes /\ i # 0 /\ h.path \in Paths
      /\ inodos[i] = InodoNuevo(i, h.path, "DIR")
  BY <1>1, <1>2 DEF Creando, EnPadre, Tarea
<1>4. inodos[i].path = h.path /\ inodos[i].tipo = "DIR"
  BY <1>3, NuevoEs
<1>5. h'.paso = "fin"
  BY <1>1, TerminaFases
<1> HIDE DEF i
<1>6. v.path = h.path /\ v.tipo = "DIR"
  BY <1>2, <1>3, ConPuntosEs
<1> HIDE DEF v
<1>7. inodos'[i] = v /\ \A j \in Inodes \ {i} : inodos'[j] = inodos[j]
  BY <1>1, <1>2, <1>3
<1> QED
  BY <1>1, <1>3, <1>4, <1>5, <1>6, <1>7, EntradasInvisibles

LEMMA BorrarInvisible ==
    ASSUME IInv, Arbolado, UnHilo, Borrar(t)
    PROVE  UNCHANGED Promise!vars
<1>1. /\ h.paso = "borrar" /\ inodos' = [inodos EXCEPT ![h.ino] = InodoCero]
      /\ IF h.op = "unlink" THEN Paso(t, "quitar") ELSE Termina(t)
      /\ UNCHANGED <<bitmap_inodes, disk, fase>>
  BY DEF Borrar, PonerInodo, h
<1>2. /\ hilo \in [Threads -> Tarea] /\ h.ino \in Inodes /\ inodos \in [Inodes -> Inodo]
      /\ ~bitmap_inodes[h.ino]
  BY <1>1, Removiendo DEF Quitando
<1>3. h'.paso # "escribir"
  BY <1>1, <1>2, TerminaFases, Cambia
<1>4. \A i \in Inodes : bitmap_inodes[i] => inodos'[i] = inodos[i]
  BY <1>1, <1>2
<1>5. Tree' = Tree
  <2>1. \A i \in Inodes : /\ bitmap_inodes'[i] <=> bitmap_inodes[i]
                          /\ bitmap_inodes[i] => /\ inodos'[i].path = inodos[i].path
                                                 /\ Nodo(inodos'[i]) = Nodo(inodos[i])
    BY <1>1, <1>4
  <2> QED
    BY <2>1, PathsUnicos, ArbolIgual DEF Tree
<1> QED
  BY <1>1, <1>3, <1>5, Invisible

LEMMA QuitarInvisible ==
    ASSUME IInv, Arbolado, UnHilo, QuitarEntrada(t)
    PROVE  UNCHANGED Promise!vars
<1> DEFINE g == h.padre
           k == EntradaAEliminar(g, Basename(h.path))
           v == SinEntradaK(g, k)
<1>1. /\ h.paso = "quitar"
      /\ IF k = -1 THEN inodos' = inodos ELSE inodos' = [inodos EXCEPT ![g] = v]
      /\ IF h.op = "rmdir" /\ k # -1 THEN Paso(t, "liberar") ELSE Termina(t)
      /\ UNCHANGED <<bitmap_inodes, disk, fase>>
  BY DEF QuitarEntrada, PonerInodo, h
<1>2. /\ hilo \in [Threads -> Tarea] /\ inodos \in [Inodes -> Inodo]
      /\ Tipado(bitmap_inodes, inodos) /\ g \in Inodes /\ inodos[g].tipo = "DIR"
  BY <1>1, Removiendo
<1>3. k # -1 => k \in Entradas(g)
  <2> HIDE DEF g
  <2> QED
    BY <1>2, Eliminar
<1>4. k # -1 => v.path = inodos[g].path /\ v.tipo = "DIR"
  <2> HIDE DEF g, k
  <2> QED
    BY <1>2, <1>3, SinEntradaEs DEF Sin
<1>5. h'.paso # "escribir"
  BY <1>1, <1>2, TerminaFases, Cambia
<1> HIDE DEF g, k, v
<1>6. /\ inodos'[g].path = inodos[g].path /\ inodos'[g].tipo = "DIR"
      /\ \A j \in Inodes \ {g} : inodos'[j] = inodos[j]
  BY <1>1, <1>2, <1>4
<1> QED
  BY <1>1, <1>2, <1>5, <1>6, EntradasInvisibles

\* crear_inodo adds the path.
LEMMA CrearAgrega ==
    ASSUME IInv, Arbolado, UnHilo, CrearInodo(t)
    PROVE  \E p \in Paths : Promise!Add(p, Promise!Dir) \/ Promise!Add(p, Promise!File(<<>>))
<1> DEFINE i == h.ino
           g == h.padre
           p == h.path
           tipo == IF h.op = "mkdir" THEN "DIR" ELSE "REG"
           v == InodoNuevo(i, p, tipo)
<1>1. /\ h.paso = "crear"
      /\ bitmap_inodes' = [bitmap_inodes EXCEPT ![i] = TRUE]
      /\ inodos' = [inodos EXCEPT ![i] = v]
      /\ Paso(t, "agregar") /\ UNCHANGED <<disk, fase>>
  BY DEF CrearInodo, PonerInodo, h
<1>2. /\ hilo \in [Threads -> Tarea] /\ h \in Tarea
      /\ bitmap_inodes \in [Inodes -> BOOLEAN] /\ inodos \in [Inodes -> Inodo]
      /\ Creando
  BY <1>1, Hechos, QuietoEs DEF Fases
<1>3. /\ i \in Inodes /\ g \in Inodes /\ p \in Paths /\ p # <<>>
      /\ bitmap_inodes[g] /\ inodos[g].tipo = "DIR" /\ inodos[g].path = Dirname(p)
      /\ ~bitmap_inodes[i] /\ \A j \in Inodes : bitmap_inodes[j] => inodos[j].path # p
  BY <1>1, <1>2 DEF Creando, EnPadre, Tarea
<1>4. h'.paso = "agregar"
  BY <1>1, <1>2, Cambia
<1>5. v.path = p /\ v.tipo = tipo
  BY <1>3, NuevoEs
<1>6. Nodo(v) = IF h.op = "mkdir" THEN Promise!Dir ELSE Promise!File(<<>>)
  <2>1. v.datos = Ceros /\ v.tam = 0
    BY <1>3, NuevoEs, FinFresco
  <2>2. SubSeq(Ceros, 1, 0) = <<>>
    <3>1. Ceros \in [1..MAX_CONTENT -> Bytes] /\ 0 \in 0..MAX_CONTENT
      BY CamposFrescos, Numeros
    <3>2. SubSeq(Ceros, 1, 0) = [k \in 1..0 |-> Ceros[k]]
      BY <3>1, Contenido
    <3> QED
      BY <3>2
  <2> HIDE DEF v
  <2> QED
    BY <1>5, <2>1, <2>2 DEF Nodo, Promise!Dir, Promise!File
<1> HIDE DEF i, g, p, v
<1>7. Distintos(bitmap_inodes, inodos) /\ Distintos(bitmap_inodes', inodos')
  <2>1. Distintos(bitmap_inodes, inodos)
    BY PathsUnicos
  <2>2. ASSUME NEW j \in Inodes, NEW k \in Inodes, bitmap_inodes'[j], bitmap_inodes'[k],
               inodos'[j].path = inodos'[k].path
        PROVE  j = k
    BY <1>1, <1>2, <1>3, <1>5, <2>1, <2>2 DEF Distintos
  <2> QED
    BY <2>1, <2>2 DEF Distintos
<1>8. /\ bitmap_inodes'[i] /\ inodos'[i] = v
      /\ \A j \in Inodes \ {i} : (bitmap_inodes'[j] <=> bitmap_inodes[j]) /\ inodos'[j] = inodos[j]
  BY <1>1, <1>2, <1>3
<1>9. Tree' = [q \in DOMAIN Tree \cup {p} |-> IF q = p THEN Nodo(v) ELSE Tree[q]]
  <2> DEFINE bm == bitmap_inodes
             ino == inodos
             bn == bitmap_inodes'
             jno == inodos'
  <2>1. /\ Distintos(bm, ino) /\ Distintos(bn, jno) /\ i \in Inodes /\ bn[i] /\ jno[i] = v
        /\ bm[i] => ino[i].path = jno[i].path
        /\ \A j \in Inodes \ {i} : bn[j] <=> bm[j]
        /\ \A j \in Inodes \ {i} : bm[j] => jno[j].path = ino[j].path /\ Nodo(jno[j]) = Nodo(ino[j])
    BY <1>3, <1>7, <1>8
  <2> HIDE DEF bm, ino, bn, jno
  <2>2. LET r == jno[i].path
        IN  Arbol(bn, jno) = [q \in DOMAIN Arbol(bm, ino) \cup {r} |->
                                IF q = r THEN Nodo(jno[i]) ELSE Arbol(bm, ino)[q]]
    BY <2>1, ArbolCon, SMTT(20)
  <2> QED
    BY <1>5, <2>1, <2>2 DEF Tree, bm, ino, bn, jno
<1>10. p \notin DOMAIN Tree
  BY <1>3, <1>7, ArbolEs DEF Tree
<1>11. Dirname(p) \in DOMAIN Tree /\ Tree[Dirname(p)].tipo = "DIR"
  BY <1>3, EnTree, Estados DEF Promise!Dir
<1>12. Saving' = Saving /\ Guardado' = Guardado
  BY <1>1, <1>4, SavingEs DEF Guardado
<1>13. Promise!Add(p, Nodo(v))
  BY <1>3, <1>9, <1>10, <1>11, <1>12
     DEF Promise!Add, Promise!With, Promise!IsDir, Promise!Exists, Promise!Parent, Tree, Saving, Dirname
<1> QED
  BY <1>3, <1>6, <1>13

\* The bitmap entry that goes takes the path away: of a file, or of a directory
\* that no other path is in.
LEMMA LiberarQuita ==
    ASSUME IInv, Arbolado, UnHilo, Liberar(t), NadiePerdido
    PROVE  \E p \in Paths : Promise!Unlink(p) \/ Promise!Rmdir(p)
<1> DEFINE i == h.ino
           p == h.path
<1>1. /\ h.paso = "liberar" /\ bitmap_inodes' = [bitmap_inodes EXCEPT ![i] = FALSE]
      /\ Paso(t, "borrar") /\ UNCHANGED <<inodos, disk, fase>>
  BY DEF Liberar, h
<1>2. /\ hilo \in [Threads -> Tarea] /\ h.op \in {"unlink", "rmdir"}
      /\ bitmap_inodes \in [Inodes -> BOOLEAN] /\ i \in Inodes /\ p \in Paths /\ p # <<>>
      /\ h.padre \in Inodes /\ bitmap_inodes[h.padre]
  BY <1>1, Removiendo
<1>3. /\ bitmap_inodes[i] /\ inodos[i].path = p
      /\ inodos[i].tipo = IF h.op = "unlink" THEN "REG" ELSE "DIR"
      /\ \A j \in Inodes \ {i} : bitmap_inodes[j] => inodos[j].path # p
  BY <1>1 DEF Arbolado, Liberando
<1>4. h'.paso = "borrar"
  BY <1>1, <1>2, Cambia
<1> HIDE DEF i, p
<1>5. p \in DOMAIN Tree /\ Tree[p] = Nodo(inodos[i])
  BY <1>2, <1>3, EnTree
<1>6. Tree' = [q \in DOMAIN Tree \ {p} |-> Tree[q]]
  <2> DEFINE bm == bitmap_inodes
             bn == bitmap_inodes'
             ino == inodos
  <2>1. /\ Distintos(bm, ino) /\ i \in Inodes /\ bm[i] /\ ~bn[i] /\ ino[i].path = p
        /\ \A j \in Inodes \ {i} : bn[j] <=> bm[j]
    BY <1>1, <1>2, <1>3, PathsUnicos
  <2> HIDE DEF bm, bn, ino
  <2>2. Arbol(bn, ino) = [q \in DOMAIN Arbol(bm, ino) \ {ino[i].path} |-> Arbol(bm, ino)[q]]
    BY <2>1, ArbolSin
  <2> QED
    BY <1>1, <2>1, <2>2 DEF Tree, bm, bn, ino
<1>7. Saving' = Saving /\ Guardado' = Guardado
  BY <1>1, <1>4, SavingEs DEF Guardado
<1>8. CASE h.op = "unlink"
  <2>1. Tree[p].tipo = "REG"
    BY <1>3, <1>5, <1>8 DEF Nodo
  <2>2. Promise!Unlink(p)
    BY <1>5, <1>6, <1>7, <2>1
       DEF Promise!Unlink, Promise!IsFile, Promise!Exists, Promise!Without, Tree, Saving
  <2> QED
    BY <1>2, <2>2
<1>9. CASE h.op = "rmdir"
  <2>1. Tree[p].tipo = "DIR"
    BY <1>3, <1>5, <1>9 DEF Nodo
  <2>2. ASSUME NEW q \in DOMAIN Tree, q # <<>>, Dirname(q) = p
        PROVE  FALSE
    <3>1. PICK j \in Inodes : bitmap_inodes[j] /\ q = inodos[j].path
      BY PathsUnicos, ArbolEs DEF Tree
    <3>2. /\ VBitmap = [bitmap_inodes EXCEPT ![i] = FALSE] /\ VInodos = inodos
          /\ Bueno(VBitmap, VInodos) /\ Listados(VBitmap, VInodos, 0, {})
      BY <1>1, <1>9, Hechos DEF VBitmap, VInodos, i, Arbolado, Pendiente, NadiePerdido
    <3>3. j # i
      <4>1. Dirname(p) # p
        BY <1>2, Partes
      <4> QED
        BY <1>3, <2>2, <3>1, <4>1
    <3>4. VBitmap[j]
      BY <1>2, <3>1, <3>2, <3>3
    <3>5. j # 0
      BY <2>2, <3>1, <3>2, <3>4, Numeros DEF Bueno, RaizPrimera, ROOT_PATH
    <3>6. EnLista(VBitmap, VInodos, j)
      BY <3>2, <3>4, <3>5 DEF Listados
    <3>7. PICK d \in Inodes : VBitmap[d] /\ inodos[d].path = p
      BY <2>2, <3>1, <3>2, <3>6 DEF EnLista
    <3>8. d # i /\ bitmap_inodes[d]
      BY <1>2, <3>2, <3>7
    <3> QED
      BY <1>3, <3>7, <3>8
  <2>3. Promise!Rmdir(p)
    BY <1>2, <1>5, <1>6, <1>7, <2>1, <2>2
       DEF Promise!Rmdir, Promise!IsDir, Promise!Exists, Promise!Without, Promise!Children,
           Promise!Parent, Tree, Saving, Dirname
  <2> QED
    BY <1>2, <2>3
<1> QED
  BY <1>2, <1>8, <1>9

\* The tree f with node n at p
Con(f, p, n) == [q \in DOMAIN f \cup {p} |-> IF q = p THEN n ELSE f[q]]

\* A file's contents change, and nothing else.
LEMMA ArchivoCambia ==
    ASSUME IInv, Arbolado, UnHilo, NEW p, Listo(t, {p}), NEW i \in Inodes,
           bitmap_inodes[i], inodos[i].path = p, inodos[i].tipo = "REG", inodos[i] \in Inodo,
           inodos[i].tam \in 0..MAX_CONTENT,
           \A j \in Inodes \ {i} : inodos'[j] = inodos[j],
           inodos'[i].path = inodos[i].path, inodos'[i].tipo = inodos[i].tipo,
           UNCHANGED <<bitmap_inodes, disk, fase, hilo>>
    PROVE  /\ Promise!IsFile(p) /\ Tree[p].datos = [k \in 1..inodos[i].tam |-> inodos[i].datos[k]]
           /\ Len(Tree[p].datos) = inodos[i].tam
           /\ Tree' = Con(Tree, p, Nodo(inodos'[i]))
           /\ Guardado' = Guardado /\ Saving' = Saving
<1>1. p \in DOMAIN Tree /\ Tree[p] = Nodo(inodos[i])
  BY EnTree
<1>2. Tree[p].tipo = "REG" /\ Tree[p].datos = SubSeq(inodos[i].datos, 1, inodos[i].tam)
  BY <1>1 DEF Nodo
<1>3. inodos[i].datos \in [1..MAX_CONTENT -> Bytes]
  BY DEF Inodo
<1>4. /\ SubSeq(inodos[i].datos, 1, inodos[i].tam) = [k \in 1..inodos[i].tam |-> inodos[i].datos[k]]
      /\ Len(SubSeq(inodos[i].datos, 1, inodos[i].tam)) = inodos[i].tam
  BY <1>3, Contenido
<1>5. Tree' = Con(Tree, p, Nodo(inodos'[i]))
  <2> DEFINE bm == bitmap_inodes
             ino == inodos
             jno == inodos'
  <2>1. Distintos(bm, ino)
    BY PathsUnicos
  <2>2. Distintos(bm, jno)
    BY <2>1 DEF Distintos
  <2>3. /\ i \in Inodes /\ bm[i] /\ jno[i].path = p /\ (bm[i] => ino[i].path = jno[i].path)
        /\ \A j \in Inodes \ {i} : bm[j] <=> bm[j]
        /\ \A j \in Inodes \ {i} : bm[j] => jno[j].path = ino[j].path /\ Nodo(jno[j]) = Nodo(ino[j])
    OBVIOUS
  <2> HIDE DEF bm, ino, jno
  <2>4. LET r == jno[i].path
        IN  Arbol(bm, jno) = [q \in DOMAIN Arbol(bm, ino) \cup {r} |->
                                IF q = r THEN Nodo(jno[i]) ELSE Arbol(bm, ino)[q]]
    BY <2>1, <2>2, <2>3, ArbolCon
  <2>5. bitmap_inodes' = bm
    BY DEF bm
  <2> QED
    BY <2>3, <2>4, <2>5 DEF Tree, Con, bm, ino, jno
<1>6. Guardado' = Guardado /\ Saving' = Saving
  BY DEF Guardado, Saving
<1>7. Promise!IsFile(p)
  BY <1>1, <1>2 DEF Promise!IsFile, Promise!Exists, Tree
<1> QED
  BY <1>2, <1>4, <1>5, <1>6, <1>7

LEMMA WriteEscribe ==
    ASSUME IInv, IInv', Arbolado, UnHilo, NEW p \in Paths, NEW o \in 0..MAX_CONTENT, NEW c \in Bytes,
           Write(t, p, o, <<c>>)
    PROVE  o \in 0..MAX_CONTENT - 1 /\ Promise!Write(p, o, <<c>>)
<1> DEFINE i == BuscarInodo(p)
           w == inodos[i]
           v == inodos'[i]
           n == Hasta(w.tam, o + 1)
<1>1. /\ Listo(t, {p}) /\ o + 1 <= MAX_CONTENT /\ UNCHANGED <<bitmap_inodes, disk, fase, hilo>>
      /\ i \in Inodes /\ bitmap_inodes[i] /\ w.path = p /\ w.tipo = "REG"
      /\ w \in Inodo /\ w.tam \in 0..MAX_CONTENT
      /\ \A j \in Inodes \ {i} : inodos'[j] = inodos[j]
      /\ v.path = w.path /\ v.tipo = w.tipo
      /\ v.datos = ConByte(w.datos, o, c) /\ v.tam = n
  BY WriteEs, ZenonT(60)
<1> HIDE DEF i
<1>2. /\ Promise!IsFile(p) /\ Tree[p].datos = [k \in 1..w.tam |-> w.datos[k]]
      /\ Len(Tree[p].datos) = w.tam
      /\ Tree' = Con(Tree, p, Nodo(v))
      /\ Guardado' = Guardado /\ Saving' = Saving
  BY <1>1, ArchivoCambia
<1>3. o \in Nat /\ MAX_CONTENT \in Nat /\ w.tam \in Nat /\ o \in 0..MAX_CONTENT - 1
  BY <1>1, Numeros
<1>4. \A k \in 1..MAX_CONTENT : k > w.tam => w.datos[k] = 0
  BY <1>1 DEF Arbolado, FinEnCeros
<1>5. v.datos \in [1..MAX_CONTENT -> Bytes] /\ v.tam \in 0..MAX_CONTENT
  <2>1. inodos'[i] \in Inodo
    BY <1>1 DEF IInv, Tipado
  <2>2. n \in 0..MAX_CONTENT
    BY <1>1, <1>3 DEF Hasta
  <2> QED
    BY <1>1, <2>1, <2>2 DEF Inodo
<1> HIDE DEF w, v
<1>6. Nodo(v) = Promise!File(Promise!Overwritten(Tree[p].datos, o, <<c>>))
  <2> DEFINE d == Tree[p].datos
             b == <<c>>
             m == IF Len(d) < o + Len(b) THEN o + Len(b) ELSE Len(d)
  <2>1. Nodo(v) = [tipo |-> "REG", datos |-> [k \in 1..n |-> v.datos[k]]]
    BY <1>1, <1>5, Contenido DEF Nodo
  <2>2. Len(b) = 1 /\ b[1] = c /\ m = n
    BY <1>2, <1>3 DEF Hasta
  <2>3. Promise!Overwritten(d, o, b) =
          [k \in 1..m |-> IF k \in o + 1..o + Len(b) THEN b[k - o] ELSE Promise!Resized(d, m)[k]]
    BY DEF Promise!Overwritten
  <2>4. Promise!Resized(d, m) = [k \in 1..m |-> IF k <= Len(d) THEN d[k] ELSE 0]
    BY DEF Promise!Resized
  <2>5. \A k \in 1..n : v.datos[k] = IF k = o + 1 THEN c ELSE w.datos[k]
    BY <1>1, <1>5, <1>3 DEF ConByte
  <2>6. n \in Nat /\ n <= MAX_CONTENT
    BY <1>1, <1>3 DEF Hasta
  <2>7. Len(d) = w.tam /\ \A k \in 1..w.tam : d[k] = w.datos[k]
    BY <1>2
  <2> HIDE DEF b, d, m, n
  <2>8. ASSUME NEW k \in 1..n
        PROVE  v.datos[k] = IF k \in o + 1..o + Len(b) THEN b[k - o] ELSE Promise!Resized(d, m)[k]
    <3>1. k \in Nat /\ (k \in o + 1..o + Len(b) <=> k = o + 1) /\ (k = o + 1 => k - o = 1)
      BY <1>3, <2>2, <2>6
    <3>2. Promise!Resized(d, m)[k] = IF k <= w.tam THEN d[k] ELSE 0
      BY <2>2, <2>4, <2>7
    <3>3. Promise!Resized(d, m)[k] = w.datos[k]
      <4>1. CASE k <= w.tam
        <5>1. k \in 1..w.tam
          BY <1>3, <4>1
        <5> QED
          BY <2>7, <3>2, <4>1, <5>1
      <4>2. CASE k > w.tam
        <5>1. k \in 1..MAX_CONTENT
          BY <1>3, <2>6
        <5> QED
          BY <1>3, <1>4, <3>1, <3>2, <4>2, <5>1
      <4> QED
        BY <1>3, <3>1, <4>1, <4>2
    <3> QED
      BY <2>2, <2>5, <3>1, <3>3
  <2>9. Promise!Overwritten(d, o, b) = [k \in 1..n |-> v.datos[k]]
    BY <2>2, <2>3, <2>8
  <2> QED
    BY <2>1, <2>9 DEF Promise!File, d, b
<1>7. o + Len(<<c>>) <= MAX_CONTENT
  BY <1>1, <1>3
<1> QED
  BY <1>2, <1>3, <1>6, <1>7 DEF Promise!Write, Promise!With, Con, Tree, Saving

LEMMA TruncateCorta ==
    ASSUME IInv, IInv', Arbolado, UnHilo, NEW p \in Paths, NEW n \in 0..MAX_CONTENT, Truncate(t, p, n)
    PROVE  Promise!Truncate(p, n)
<1> DEFINE i == BuscarInodo(p)
           w == inodos[i]
           v == inodos'[i]
<1>1. /\ Listo(t, {p}) /\ UNCHANGED <<bitmap_inodes, disk, fase, hilo>>
      /\ i \in Inodes /\ bitmap_inodes[i] /\ w.path = p /\ w.tipo = "REG"
      /\ w \in Inodo /\ w.tam \in 0..MAX_CONTENT
      /\ \A j \in Inodes \ {i} : inodos'[j] = inodos[j]
      /\ v.path = w.path /\ v.tipo = w.tipo
      /\ v.datos = ConCeros(w.datos, n, w.tam) /\ v.tam = n
  BY TruncateEs
<1> HIDE DEF i
<1>2. /\ Promise!IsFile(p) /\ Tree[p].datos = [k \in 1..w.tam |-> w.datos[k]]
      /\ Len(Tree[p].datos) = w.tam
      /\ Tree' = Con(Tree, p, Nodo(v))
      /\ Guardado' = Guardado /\ Saving' = Saving
  BY <1>1, ArchivoCambia
<1>3. n \in Nat /\ MAX_CONTENT \in Nat /\ w.tam \in Nat /\ n <= MAX_CONTENT
  BY <1>1, Numeros
<1>4. \A k \in 1..MAX_CONTENT : k > w.tam => w.datos[k] = 0
  BY <1>1 DEF Arbolado, FinEnCeros
<1>5. v.datos \in [1..MAX_CONTENT -> Bytes]
  <2>1. inodos'[i] \in Inodo
    BY <1>1 DEF IInv, Tipado
  <2> QED
    BY <2>1 DEF Inodo
<1> HIDE DEF w, v
<1>6. Nodo(v) = Promise!File(Promise!Resized(Tree[p].datos, n))
  <2> DEFINE d == Tree[p].datos
  <2>1. Nodo(v) = [tipo |-> "REG", datos |-> [k \in 1..n |-> v.datos[k]]]
    BY <1>1, <1>5, Contenido DEF Nodo
  <2>2. Promise!Resized(d, n) = [k \in 1..n |-> IF k <= Len(d) THEN d[k] ELSE 0]
    BY DEF Promise!Resized
  <2>3. Len(d) = w.tam /\ \A k \in 1..w.tam : d[k] = w.datos[k]
    BY <1>2
  <2> HIDE DEF d
  <2>4. ASSUME NEW k \in 1..n
        PROVE  v.datos[k] = IF k <= Len(d) THEN d[k] ELSE 0
    <3>1. k \in 1..MAX_CONTENT /\ ~(k \in n + 1..w.tam)
      BY <1>3
    <3>2. v.datos[k] = w.datos[k]
      BY <1>1, <3>1 DEF ConCeros
    <3>3. CASE k <= w.tam
      <4>1. k \in 1..w.tam
        BY <1>3, <3>3
      <4> QED
        BY <2>3, <3>2, <3>3, <4>1
    <3>4. CASE k > w.tam
      BY <1>3, <1>4, <2>3, <3>1, <3>2, <3>4
    <3> QED
      BY <1>3, <3>3, <3>4
  <2>5. Promise!Resized(d, n) = [k \in 1..n |-> v.datos[k]]
    BY <2>2, <2>4
  <2> QED
    BY <2>1, <2>5 DEF Promise!File, d
<1> QED
  BY <1>2, <1>6 DEF Promise!Truncate, Promise!With, Con, Tree, Saving

LEMMA AbrirEmpieza ==
    ASSUME IInv, UnHilo, h = Quieto, Abrir(t)
    PROVE  Promise!BeginSave
<1> DEFINE x == [Quieto EXCEPT !.op = "guardar", !.paso = "escribir"]
<1>1. hilo' = [hilo EXCEPT ![t] = x] /\ disk' = Cortado /\ UNCHANGED <<bitmap_inodes, inodos>>
  BY DEF Abrir, superbloque
<1>2. h' = x
  BY <1>1, Hechos, QuietoEs, Cambia DEF Fases
<1>3. x.paso = "escribir"
  BY DEF Quieto
<1> HIDE DEF x
<1>4. Saving = FALSE /\ Saving' = TRUE
  BY <1>2, <1>3, SavingEs, QuietoEs
<1>5. Guardado' = Promise!Nothing
  BY <1>1, Estados DEF Guardado, Promise!Nothing
<1>6. Tree' = Tree
  BY <1>1 DEF Tree
<1> QED
  BY <1>4, <1>5, <1>6 DEF Promise!BeginSave, Tree, Saving

\* The process ends, with nothing in use.
LEMMA MuereNada ==
    ASSUME UnHilo, Muere
    PROVE  Tree' = Promise!Nothing /\ Saving' = FALSE
<1>1. h' = Quieto /\ \A i \in Inodes : ~bitmap_inodes'[i]
  BY MuereEs
<1>2. Saving' = FALSE
  BY <1>1, SavingEs, QuietoEs
<1>3. Tree' = Promise!Nothing
  BY <1>1, ArbolVacio, Estados DEF Tree, Promise!Nothing
<1> QED
  BY <1>2, <1>3

LEMMA EscribirTermina ==
    ASSUME IInv, UnHilo, Escribir(t)
    PROVE  Promise!EndSave \/ Promise!EndUnmount
<1>1. Saving = TRUE
  BY EscribirEs, SavingEs
<1>2. disk' = Imagen(bitmap_inodes, inodos)
  BY EscribirEs
<1>3. Guardado' = Tree
  <2>1. disk' # Ausente /\ disk' # Cortado
    BY <1>2, Estados
  <2>2. disk'.bitmap = bitmap_inodes /\ disk'.inodos = inodos
    BY <1>2 DEF Imagen
  <2> QED
    BY <2>1, <2>2 DEF Guardado, Tree
<1>4. CASE fase = "mounted" /\ Termina(t) /\ UNCHANGED <<bitmap_inodes, inodos, fase>>
  <2>1. Saving' = FALSE
    BY <1>4, TerminaFases, SavingEs
  <2>2. Tree' = Tree
    BY <1>4 DEF Tree
  <2> QED
    BY <1>1, <1>3, <2>1, <2>2 DEF Promise!EndSave, Tree, Saving
<1>5. CASE fase = "unmounting" /\ Muere
  BY <1>1, <1>3, <1>5, MuereNada DEF Promise!EndUnmount, Tree, Saving
<1> QED
  BY <1>4, <1>5, EscribirEs

LEMMA CrashCae ==
    ASSUME UnHilo, Crash
    PROVE  Promise!Crash
<1>1. Muere /\ Guardado' = Guardado
  BY DEF Crash, Guardado
<1> QED
  BY <1>1, MuereNada DEF Promise!Crash, Tree, Saving

LEMMA MountLee ==
    ASSUME IInv, UnHilo, Mount
    PROVE  Promise!Mount
<1>1. fase = "off" /\ disk' = disk /\ hilo' = hilo
  BY DEF Mount
<1>2. h = Quieto /\ h' = h /\ \A i \in Inodes : ~bitmap_inodes[i]
  BY <1>1 DEF IInv, h
<1>3. Tree = Promise!Nothing
  BY <1>2, ArbolVacio, Estados DEF Tree, Promise!Nothing
<1>4. Saving = FALSE /\ Saving' = FALSE
  BY <1>2, SavingEs, QuietoEs
<1>5. Guardado' = Guardado
  BY <1>1 DEF Guardado
<1>6. Tree' = Guardado
  <2>1. CASE /\ disk = Ausente
             /\ bitmap_inodes' = [i \in Inodes |-> i = 0]
             /\ inodos' = [i \in Inodes |-> IF i = 0 THEN Raiz ELSE InodoCero]
    <3> DEFINE bn == bitmap_inodes'
               jno == inodos'
               f == Arbol(bn, jno)
               g == [p \in {ROOT_PATH} |-> Nodo(Raiz)]
    <3>1. /\ 0 \in Inodes /\ bn[0] /\ jno[0] = Raiz
          /\ \A i \in Inodes : bn[i] => i = 0
      BY <2>1, Numeros
    <3> HIDE DEF bn, jno
    <3>2. Distintos(bn, jno)
      BY <3>1 DEF Distintos
    <3>3. /\ f = [p \in DOMAIN f |-> f[p]]
          /\ \A p \in DOMAIN f : \E i \in Inodes : bn[i] /\ p = jno[i].path
          /\ \A i \in Inodes : bn[i] => jno[i].path \in DOMAIN f /\ f[jno[i].path] = Nodo(jno[i])
      BY <3>2, ArbolEs
    <3> HIDE DEF f
    <3>4. ROOT_PATH \in DOMAIN f /\ f[ROOT_PATH] = Nodo(Raiz) /\ \A p \in DOMAIN f : p = ROOT_PATH
      BY <3>1, <3>3, RaizEs
    <3>5. DOMAIN f = DOMAIN g
      BY <3>4
    <3>6. f = g
      BY <3>3, <3>4, <3>5, Extension
    <3>7. Guardado = g
      BY <2>1 DEF Guardado
    <3> QED
      BY <3>6, <3>7 DEF Tree, f, bn, jno
  <2>2. CASE disk = Cortado /\ UNCHANGED superbloque
    <3>1. Tree' = Tree
      BY <2>2 DEF Tree, superbloque
    <3>2. Guardado = [p \in {} |-> Nodo(Raiz)]
      BY <2>2, Estados DEF Guardado
    <3> QED
      BY <1>3, <3>1, <3>2, Estados DEF Promise!Nothing
  <2>3. CASE disk.estado = "completo" /\ bitmap_inodes' = disk.bitmap /\ inodos' = disk.inodos
    <3>1. disk # Ausente /\ disk # Cortado
      BY <2>3, Estados
    <3> QED
      BY <2>3, <3>1 DEF Guardado, Tree
  <2> QED
    BY <2>1, <2>2, <2>3 DEF Mount
<1> QED
  BY <1>3, <1>4, <1>5, <1>6 DEF Promise!Mount, Tree, Saving

LEMMA PasoCumple ==
    ASSUME IInv, IInv', Arbolado, NadiePerdido, UnHilo, [Next]_vars
    PROVE  Promise!Next \/ UNCHANGED Promise!vars
<1>1. CASE UNCHANGED vars
  <2>1. Tree' = Tree /\ Guardado' = Guardado /\ Saving' = Saving
    BY <1>1 DEF vars, Tree, Guardado, Saving
  <2> QED
    BY <2>1 DEF Promise!vars, Tree, Saving
<1>2. CASE Mount
  BY <1>2, MountLee DEF Promise!Next
<1>3. CASE Crash
  BY <1>3, CrashCae DEF Promise!Next
<1>4. CASE Pide(t)
  <2>1. h = Quieto /\ hilo \in [Threads -> Tarea]
    BY <1>4, Hechos, ElHilo DEF Pide, Nuevo, Unlink, Rmdir, Truncate, Write, Flush, Unmount, Listo, h, Fases
  <2>2. ASSUME NEW p \in Paths,
               \/ Nuevo(t, "create", p) \/ Nuevo(t, "mkdir", p)
               \/ Unlink(t, p) \/ Rmdir(t, p)
        PROVE  UNCHANGED Promise!vars
    BY <2>1, <2>2, EmpiezaInvisible DEF Nuevo, Unlink, Rmdir
  <2>3. ASSUME NEW p \in Paths, NEW n \in 0..MAX_CONTENT, Truncate(t, p, n)
        PROVE  Promise!Next
    <3>1. Promise!Truncate(p, n)
      BY <2>3, TruncateCorta
    <3> QED
      BY <3>1 DEF Promise!Next
  <2>4. ASSUME NEW p \in Paths, NEW o \in 0..MAX_CONTENT, NEW c \in Bytes, Write(t, p, o, <<c>>)
        PROVE  Promise!Next
    <3>1. o \in 0..MAX_CONTENT - 1 /\ Promise!Write(p, o, <<c>>)
      BY <2>4, WriteEscribe
    <3> QED
      BY <3>1 DEF Promise!Next
  <2>5. CASE Flush(t) \/ Unmount(t)
    <3>1. Abrir(t)
      BY <2>5 DEF Flush, Unmount
    <3> QED
      BY <2>1, <3>1, AbrirEmpieza DEF Promise!Next
  <2> QED
    BY <1>4, <2>2, <2>3, <2>4, <2>5 DEF Pide
<1>5. CASE Sigue(t)
  <2>1. CASE CrearInodo(t)
    BY <2>1, CrearAgrega DEF Promise!Next
  <2>2. CASE Liberar(t)
    BY <2>2, LiberarQuita DEF Promise!Next
  <2>3. CASE Escribir(t)
    BY <2>3, EscribirTermina DEF Promise!Next
  <2> QED
    BY <1>5, <2>1, <2>2, <2>3, AgregarInvisible, SinLugarInvisible, InicializarInvisible, BorrarInvisible,
       QuitarInvisible
       DEF Sigue
<1> QED
  BY <1>1, <1>2, <1>3, <1>4, <1>5, ElHilo DEF Next

\* With one thread the file system is the tree that TreeFs promises, whenever
\* no inode is lost: each operation takes effect at one of its steps, and a
\* mount finds what the last complete save held.
THEOREM TreeImplemented ==
    ASSUME UnHilo
    PROVE  LostSpec => ImplementsTree
<1>1. LostInit => Promise!Init
  <2> SUFFICES ASSUME LostInit
               PROVE  Promise!Init
    OBVIOUS
  <2>1. h = Quieto /\ disk = Ausente /\ \A i \in Inodes : ~bitmap_inodes[i]
    BY ElHilo DEF LostInit, Init, h
  <2>2. Tree = Promise!Nothing
    BY <2>1, ArbolVacio, Estados DEF Tree, Promise!Nothing
  <2>3. Saving = FALSE
    BY <2>1, SavingEs, QuietoEs
  <2>4. Guardado = Promise!OnlyRoot
    BY <2>1, Estados DEF Guardado, Promise!OnlyRoot, ROOT_PATH
  <2> QED
    BY <2>2, <2>3, <2>4 DEF Promise!Init, Tree, Saving
<1>2. IInv /\ IInv' /\ Arbolado /\ [LostNext]_lostVars =>
         [perdidos = {} => Promise!Next]_(Promise!vars)
  BY PasoCumple DEF LostNext, lostVars, NadiePerdido
<1> QED
  BY <1>1, <1>2, InvarianteArbol, PTL DEF LostSpec, ImplementsTree
=============================================================================
