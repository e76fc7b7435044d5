------------------------------ MODULE Fisopfs ------------------------------
(***************************************************************************)
(* TP3's file system: fisopfs.c, the FUSE operations, and fs.c, the table  *)
(* of inodes, its bitmap and the directory entries.  An operation is a     *)
(* sequence of steps of the FUSE thread that serves it, so that the steps  *)
(* of two threads interleave and a crash may fall between any two.         *)
(*                                                                         *)
(* The kernel in front of FUSE is external: it looks a path up before it   *)
(* asks for an operation and it locks the directory that changes.  Times,  *)
(* owners, permissions and link counts are left out.  tam counts entries   *)
(* in a directory and bytes in a file, and the two views of content are    *)
(* two fields.                                                             *)
(***************************************************************************)
EXTENDS Integers, Sequences, FiniteSets

CONSTANTS Threads,           \* FUSE threads; one when mounted with -s
          Names,             \* file names
          MaxDepth,          \* bound: the longest path
          MAX_INODES, MAX_DIR_ENTRIES, MAX_CONTENT,
          Bytes              \* byte values; 0 is among them

ASSUME SizesAssumption ==
    /\ MAX_INODES \in Nat \ {0}
    /\ MAX_DIR_ENTRIES \in Nat \ {0, 1}     \* room for "." and ".."
    /\ MAX_CONTENT \in Nat
    /\ MaxDepth \in Nat
ASSUME BytesAssumption == 0 \in Bytes /\ Bytes \subseteq Int
ASSUME NamesAssumption == {"", ".", ".."} \cap Names = {}

VARIABLES bitmap_inodes,     \* superbloque.bitmap_inodes[i] = OCUPADO
          inodos,            \* superbloque.inodos
          disk,              \* the file file.fisopfs
          fase,              \* the process: off, mounted, unmounting
          hilo               \* what each thread is doing

superbloque == <<bitmap_inodes, inodos>>
vars == <<bitmap_inodes, inodos, disk, fase, hilo>>

Inodes == 0..MAX_INODES - 1
Slots == 0..MAX_DIR_ENTRIES - 1
Paths == UNION {[1..d -> Names] : d \in 0..MaxDepth}
ROOT_PATH == <<>>
NoPath == <<"">>             \* a zeroed inode's path

\* separar_path: the directory and the name
Dirname(p) == SubSeq(p, 1, Len(p) - 1)
Basename(p) == IF p = <<>> THEN "" ELSE p[Len(p)]

Vacia == [inodo |-> 0, nombre |-> ""]
SinEntradas == [k \in Slots |-> Vacia]
Ceros == [k \in 1..MAX_CONTENT |-> 0]

\* A zeroed inode (DIR_T is 0), the root's and a fresh one
InodoCero == [inumero |-> 0, path |-> NoPath, tipo |-> "DIR", tam |-> 0,
              entradas |-> SinEntradas, datos |-> Ceros]
Raiz == [InodoCero EXCEPT !.path = ROOT_PATH]
InodoNuevo(i, p, tipo) == [InodoCero EXCEPT !.inumero = i, !.path = p, !.tipo = tipo]

Quieto == [op |-> "none", paso |-> "fin", path |-> NoPath, ino |-> 0, padre |-> 0]
Ausente == [estado |-> "ausente"]
Cortado == [estado |-> "cortado"]
Imagen(bm, ino) == [estado |-> "completo", bitmap |-> bm, inodos |-> ino]

-----------------------------------------------------------------------------
(***************************************************************************)
(* fs.c.                                                                   *)
(***************************************************************************)

Primero(S) == IF S = {} THEN -1 ELSE CHOOSE i \in S : \A j \in S : i <= j

BuscarEn(bm, ino, p) == Primero({i \in Inodes : bm[i] /\ ino[i].path = p})
BuscarInodo(p) == BuscarEn(bitmap_inodes, inodos, p)

ObtenerInodoLibre == Primero({i \in Inodes : ~bitmap_inodes[i]})

Entradas(d) == {k \in Slots : inodos[d].entradas[k].inodo # 0}

BuscarEntrada(d, nombre) ==
    LET k == Primero({j \in Entradas(d) : inodos[d].entradas[j].nombre = nombre})
    IN  IF k = -1 THEN -1 ELSE inodos[d].entradas[k].inodo

\* Faulty form: the first two entries are taken for "." and "..".
DirectorioEstaVacioDesdeDos(d) == Entradas(d) \subseteq {0, 1}

DirectorioEstaVacio(d) ==
    \A k \in Entradas(d) : inodos[d].entradas[k].nombre \in {".", ".."}

\* The directory d after agregar_entrada_directorio.  The first entry whose
\* inode is 0 is free: so is the ".." of a child of the root.
HayLugar(d) == Entradas(d) # Slots
ConEntrada(d, i) ==
    [inodos[d] EXCEPT !.entradas[Primero(Slots \ Entradas(d))] =
                          [inodo |-> inodos[i].inumero,
                           nombre |-> Basename(inodos[inodos[i].inumero].path)],
                      !.tam = @ + 1]

\* Faulty form: the entries after the removed one are not moved.
SinEntradaK_NoMueve(d, k) ==
    [inodos[d] EXCEPT !.entradas[inodos[d].tam - 1] = Vacia, !.tam = @ - 1]

\* The directory d without its entry k: what follows moves up one place.
\* Past content there are only zeros, which read as a free entry.
SinEntradaK(d, k) ==
    LET e == inodos[d].entradas
        n == inodos[d].tam
    IN  [inodos[d] EXCEPT
           !.entradas = [j \in Slots |->
                           IF j < k \/ j >= n THEN e[j]
                           ELSE IF j = n - 1 \/ j + 1 \notin Slots THEN Vacia
                           ELSE e[j + 1]],
           !.tam = @ - 1]

\* The entry eliminar_entrada_directorio removes, or -1
EntradaAEliminar(d, nombre) ==
    Primero({k \in Entradas(d) : k < inodos[d].tam /\ inodos[d].entradas[k].nombre = nombre})

\* inicializar_entradas_directorio
ConPuntos(i, padre) ==
    [inodos[i] EXCEPT !.entradas[0] = [inodo |-> i, nombre |-> "."],
                      !.entradas[1] = [inodo |-> padre, nombre |-> ".."],
                      !.tam = 2]

-----------------------------------------------------------------------------
(***************************************************************************)
(* The kernel in front of FUSE (external).                                 *)
(***************************************************************************)

EsDir(p) == BuscarInodo(p) # -1 /\ inodos[BuscarInodo(p)].tipo = "DIR"
EsArchivo(p) == BuscarInodo(p) # -1 /\ inodos[BuscarInodo(p)].tipo = "REG"

\* It resolves a path from the root, one fisopfs_getattr per component.
Camino(p) == p # ROOT_PATH /\ \A n \in 0..Len(p) - 1 : EsDir(SubSeq(p, 1, n))

\* It holds the parent directory during a change of its entries, and what is
\* removed or written.
Bloqueados(t) ==
    CASE hilo[t].op \in {"create", "mkdir"} -> {Dirname(hilo[t].path)}
      [] hilo[t].op \in {"unlink", "rmdir"} -> {Dirname(hilo[t].path), hilo[t].path}
      [] OTHER -> {}
PuedeBloquear(t, S) == \A u \in Threads \ {t} : Bloqueados(u) \cap S = {}

Listo(t, S) == fase = "mounted" /\ hilo[t] = Quieto /\ PuedeBloquear(t, S)

-----------------------------------------------------------------------------
(***************************************************************************)
(* fisopfs.c.                                                              *)
(***************************************************************************)

Paso(t, paso) == hilo' = [hilo EXCEPT ![t].paso = paso]
Termina(t) == hilo' = [hilo EXCEPT ![t] = Quieto]
PonerInodo(i, v) == inodos' = [inodos EXCEPT ![i] = v]

Empieza(t, op, paso, p, i) ==
    /\ hilo' = [hilo EXCEPT ![t] = [op |-> op, paso |-> paso, path |-> p,
                                    ino |-> i, padre |-> BuscarInodo(Dirname(p))]]
    /\ UNCHANGED <<superbloque, disk, fase>>

\* fisopfs_create and fisopfs_mkdir: the checks, and obtener_inodo_libre
Nuevo(t, op, p) ==
    /\ Listo(t, {Dirname(p)})
    /\ Camino(p) /\ BuscarInodo(p) = -1
    /\ BuscarEntrada(BuscarInodo(Dirname(p)), Basename(p)) = -1
    /\ ObtenerInodoLibre # -1
    /\ Empieza(t, op, "crear", p, ObtenerInodoLibre)

\* The rest of crear_inodo
CrearInodo(t) ==
    /\ hilo[t].paso = "crear"
    /\ bitmap_inodes' = [bitmap_inodes EXCEPT ![hilo[t].ino] = TRUE]
    /\ PonerInodo(hilo[t].ino, InodoNuevo(hilo[t].ino, hilo[t].path,
                                          IF hilo[t].op = "mkdir" THEN "DIR" ELSE "REG"))
    /\ Paso(t, "agregar")
    /\ UNCHANGED <<disk, fase>>

\* agregar_entrada_directorio.  With no room the operation fails here, and
\* leaves the inode.
AgregarEntrada(t) ==
    /\ hilo[t].paso = "agregar"
    /\ IF HayLugar(hilo[t].padre)
       THEN /\ PonerInodo(hilo[t].padre, ConEntrada(hilo[t].padre, hilo[t].ino))
            /\ IF hilo[t].op = "mkdir" THEN Paso(t, "puntos") ELSE Termina(t)
       ELSE Termina(t) /\ UNCHANGED inodos
    /\ UNCHANGED <<bitmap_inodes, disk, fase>>

InicializarEntradas(t) ==
    /\ hilo[t].paso = "puntos"
    /\ PonerInodo(hilo[t].ino, ConPuntos(hilo[t].ino, hilo[t].padre))
    /\ Termina(t)
    /\ UNCHANGED <<bitmap_inodes, disk, fase>>

\* The checks of fisopfs_unlink and of fisopfs_rmdir
Unlink(t, p) ==
    /\ Listo(t, {Dirname(p), p})
    /\ Camino(p) /\ EsArchivo(p)
    /\ Empieza(t, "unlink", "liberar", p, BuscarInodo(p))

Rmdir(t, p) ==
    /\ Listo(t, {Dirname(p), p})
    /\ Camino(p) /\ EsDir(p)
    /\ DirectorioEstaVacio(BuscarInodo(p))
    /\ Empieza(t, "rmdir", "quitar", p, BuscarInodo(p))

\* The bitmap, then the memset.  unlink goes on with the entry, which rmdir
\* has removed before.
Liberar(t) ==
    /\ hilo[t].paso = "liberar"
    /\ bitmap_inodes' = [bitmap_inodes EXCEPT ![hilo[t].ino] = FALSE]
    /\ Paso(t, "borrar")
    /\ UNCHANGED <<inodos, disk, fase>>

Borrar(t) ==
    /\ hilo[t].paso = "borrar"
    /\ PonerInodo(hilo[t].ino, InodoCero)
    /\ IF hilo[t].op = "unlink" THEN Paso(t, "quitar") ELSE Termina(t)
    /\ UNCHANGED <<bitmap_inodes, disk, fase>>

\* eliminar_entrada_directorio.  Without an entry to remove rmdir gives up.
QuitarEntrada(t) ==
    /\ hilo[t].paso = "quitar"
    /\ LET k == EntradaAEliminar(hilo[t].padre, Basename(hilo[t].path))
       IN  /\ IF k = -1 THEN UNCHANGED inodos
              ELSE PonerInodo(hilo[t].padre, SinEntradaK(hilo[t].padre, k))
           /\ IF hilo[t].op = "rmdir" /\ k # -1 THEN Paso(t, "liberar") ELSE Termina(t)
    /\ UNCHANGED <<bitmap_inodes, disk, fase>>

\* Faulty form: no limit.
CabeSiempre(o, b) == TRUE
Cabe(o, b) == o + Len(b) <= MAX_CONTENT

Write(t, p, o, b) ==
    /\ Listo(t, {p})
    /\ Camino(p) /\ EsArchivo(p)
    /\ Cabe(o, b)
    /\ LET i == BuscarInodo(p)
           n == o + Len(b)
       IN  PonerInodo(i, [inodos[i] EXCEPT
              !.datos = [k \in 1..MAX_CONTENT |-> IF k \in o + 1..n THEN b[k - o] ELSE @[k]],
              !.tam = IF n > @ THEN n ELSE @])
    /\ UNCHANGED <<bitmap_inodes, disk, fase, hilo>>

\* Faulty form: what is cut off is not zeroed.
CortadoSinCeros(d, n, tam) == d
\* The memset of fisopfs_truncate
ConCeros(d, n, tam) == [k \in 1..MAX_CONTENT |-> IF k \in n + 1..tam THEN 0 ELSE d[k]]

Truncate(t, p, n) ==
    /\ Listo(t, {p})
    /\ Camino(p) /\ EsArchivo(p)
    /\ LET i == BuscarInodo(p)
       IN  PonerInodo(i, [inodos[i] EXCEPT
              !.datos = ConCeros(@, n, inodos[i].tam), !.tam = n])
    /\ UNCHANGED <<bitmap_inodes, disk, fase, hilo>>

\* fopen("wb") of fisopfs_destroy, called by flush and at the unmount
Abrir(t) ==
    /\ hilo' = [hilo EXCEPT ![t] = [Quieto EXCEPT !.op = "guardar", !.paso = "escribir"]]
    /\ disk' = Cortado
    /\ UNCHANGED superbloque
Flush(t) == Listo(t, {}) /\ Abrir(t) /\ UNCHANGED fase
Unmount(t) ==
    /\ fase = "mounted" /\ \A u \in Threads : hilo[u] = Quieto
    /\ fase' = "unmounting"
    /\ Abrir(t)

Muere ==
    /\ fase' = "off"
    /\ bitmap_inodes' = [i \in Inodes |-> FALSE]
    /\ inodos' = [i \in Inodes |-> InodoCero]
    /\ hilo' = [t \in Threads |-> Quieto]

\* fwrite and fclose; after an unmount the process ends.
Escribir(t) ==
    /\ hilo[t].paso = "escribir"
    /\ disk' = Imagen(bitmap_inodes, inodos)
    /\ \/ fase = "mounted" /\ Termina(t) /\ UNCHANGED <<superbloque, fase>>
       \/ fase = "unmounting" /\ Muere

Crash == fase # "off" /\ Muere /\ UNCHANGED disk

\* fisopfs_init.  A file that is cut short has no bitmap: fread fails and the
\* process serves what there is, a superblock with every inode free.
Mount ==
    /\ fase = "off" /\ fase' = "mounted"
    /\ \/ /\ disk = Ausente
          /\ bitmap_inodes' = [i \in Inodes |-> i = 0]
          /\ inodos' = [i \in Inodes |-> IF i = 0 THEN Raiz ELSE InodoCero]
       \/ /\ disk = Cortado
          /\ UNCHANGED superbloque
       \/ /\ disk.estado = "completo"
          /\ bitmap_inodes' = disk.bitmap
          /\ inodos' = disk.inodos
    /\ UNCHANGED <<disk, hilo>>

Init ==
    /\ bitmap_inodes = [i \in Inodes |-> FALSE]
    /\ inodos = [i \in Inodes |-> InodoCero]
    /\ disk = Ausente
    /\ fase = "off"
    /\ hilo = [t \in Threads |-> Quieto]

Sigue(t) ==
    \/ CrearInodo(t) \/ AgregarEntrada(t) \/ InicializarEntradas(t)
    \/ Liberar(t) \/ Borrar(t) \/ QuitarEntrada(t) \/ Escribir(t)

Pide(t) ==
    \/ \E p \in Paths :
          \/ Nuevo(t, "create", p) \/ Nuevo(t, "mkdir", p)
          \/ Unlink(t, p) \/ Rmdir(t, p)
          \/ \E n \in 0..MAX_CONTENT : Truncate(t, p, n)
          \/ \E o \in 0..MAX_CONTENT, b \in Bytes : Write(t, p, o, <<b>>)
    \/ Flush(t) \/ Unmount(t)

Next == Mount \/ Crash \/ \E t \in Threads : Pide(t) \/ Sigue(t)

Spec == Init /\ [][Next]_vars

-----------------------------------------------------------------------------
(***************************************************************************)
(* Properties.                                                             *)
(***************************************************************************)

Superbloques ==
    [Inodes -> BOOLEAN] \X
    [Inodes -> [inumero : Inodes, path : Paths \cup {NoPath}, tipo : {"DIR", "REG"},
                tam : 0..MAX_CONTENT \cup 0..MAX_DIR_ENTRIES + 1,
                entradas : [Slots -> [inodo : Inodes, nombre : Names \cup {"", ".", ".."}]],
                datos : [1..MAX_CONTENT -> Bytes]]]

\* Sizes stay within content (one entry more for a child of the root, whose
\* ".." counts but is overwritten), entries within the table of inodes.
TypeOK ==
    /\ superbloque \in Superbloques
    /\ disk \in {Ausente, Cortado} \/ <<disk.bitmap, disk.inodos>> \in Superbloques
    /\ fase \in {"off", "mounted", "unmounting"}
    /\ \A t \in Threads :
          hilo[t] \in [op : {"none", "create", "mkdir", "unlink", "rmdir", "guardar"},
                       paso : {"fin", "crear", "agregar", "puntos", "liberar", "borrar",
                               "quitar", "escribir"},
                       path : Paths \cup {NoPath}, ino : Inodes, padre : Inodes]
    /\ \A i \in Inodes : inodos[i].tipo = "REG" => inodos[i].tam <= MAX_CONTENT

Quieta == fase = "mounted" /\ \A t \in Threads : hilo[t].op \in {"none", "guardar"}

\* fisopfs_readdir: the entries it shows, without "." and ".."
Listado(d) == {k \in Entradas(d) : /\ k < inodos[d].tam
                                   /\ inodos[d].entradas[k].nombre \notin {".", ".."}}

\* Between operations an entry of a directory names an inode in use, the one
\* that a lookup of that name in that directory finds, and no name is twice.
EntriesAreTrue ==
    Quieta =>
        \A d \in Inodes : bitmap_inodes[d] /\ inodos[d].tipo = "DIR" =>
            \A k \in Entradas(d) :
                LET e == inodos[d].entradas[k]
                IN  \/ e.nombre \in {".", ".."} /\ bitmap_inodes[e.inodo]
                    \/ /\ k \in Listado(d)
                       /\ BuscarInodo(Append(inodos[d].path, e.nombre)) = e.inodo
                       /\ \A j \in Entradas(d) \ {k} : inodos[d].entradas[j].nombre # e.nombre

\* Two operations never hold the same new inode (fs.c: "Busca un índice libre
\* en el bitmap de inodos").
NoSharedInode ==
    \A t, u \in Threads : t # u /\ {hilo[t].op, hilo[u].op} \subseteq {"create", "mkdir"}
                          => hilo[t].ino # hilo[u].ino

\* What the calls that look things up (getattr, read) show: a tree.
Nodo(ino) == IF ino.tipo = "DIR" THEN [tipo |-> "DIR", datos |-> <<>>]
             ELSE [tipo |-> "REG", datos |-> SubSeq(ino.datos, 1, ino.tam)]
Arbol(bm, ino) ==
    [p \in {ino[i].path : i \in {j \in Inodes : bm[j]}} |-> Nodo(ino[BuscarEn(bm, ino, p)])]

Guardado == IF disk = Ausente THEN [p \in {ROOT_PATH} |-> Nodo(Raiz)]
            ELSE IF disk = Cortado THEN [p \in {} |-> Nodo(Raiz)]
            ELSE Arbol(disk.bitmap, disk.inodos)

Promise == INSTANCE TreeFs WITH
              tree <- Arbol(bitmap_inodes, inodos), saved <- Guardado,
              saving <- \E t \in Threads : hilo[t].paso = "escribir"
=============================================================================
