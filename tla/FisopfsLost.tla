----------------------------- MODULE FisopfsLost -----------------------------
(***************************************************************************)
(* A creation that finds its directory full answers ENOSPC (mkdir, EPERM)  *)
(* and leaves the inode it had made: in use, found by its path, listed by  *)
(* nobody.  This module adds to Fisopfs the record of those inodes, in     *)
(* memory and in the saved file, and states with it what stays true.       *)
(***************************************************************************)
EXTENDS Fisopfs

CONSTANT MaxInUse            \* bound: the inodes in use, memory and file together

VARIABLES perdidos,          \* the inodes that no directory had room for
          perdidosEnDisco    \* those of the file file.fisopfs

lostVars == <<vars, perdidos, perdidosEnDisco>>

\* What agregar_entrada_directorio fails to list in this step
SinLugar ==
    {hilo[t].ino : t \in {u \in Threads : /\ hilo[u].paso = "agregar"
                                          /\ hilo'[u].paso # "agregar"
                                          /\ ~HayLugar(hilo[u].padre)}}

Liberados == {i \in Inodes : bitmap_inodes[i] /\ ~bitmap_inodes'[i]}

\* They live in the superblock, and so does the record of them.
Perdidos ==
    /\ perdidos' = IF fase' = "off" THEN {}
                   ELSE IF fase = "off" THEN perdidosEnDisco
                   ELSE (perdidos \cup SinLugar) \ Liberados
    /\ perdidosEnDisco' = IF disk' = disk THEN perdidosEnDisco
                          ELSE IF disk' = Cortado THEN {} ELSE perdidos

\* When the process is off, what it would mount counts as in memory.
EnUso(bm) == Cardinality({i \in Inodes : bm[i]})
EnElArchivo == IF disk.estado = "completo" THEN EnUso(disk.bitmap) ELSE 0
EnMemoria == IF fase = "off" THEN EnElArchivo ELSE EnUso(bitmap_inodes)
Acotado == EnElArchivo + EnMemoria <= MaxInUse

LostInit == Init /\ perdidos = {} /\ perdidosEnDisco = {}
LostNext == Next /\ Perdidos /\ Acotado'
LostSpec == LostInit /\ [][LostNext]_lostVars

\* Between operations every inode in use, but the root's, is listed by a
\* directory in use whose path is its dirname (fisopfs.md: "cada directorio
\* contiene una lista de entradas"), unless its own creation found that
\* directory full and failed.  What has been lost so hides nothing else: neither
\* what is made inside it nor what takes the room that comes free later.
Hierarchical ==
    Quieta =>
        \A i \in Inodes \ ({0} \cup perdidos) : bitmap_inodes[i] =>
            \E d \in Inodes :
                /\ bitmap_inodes[d] /\ inodos[d].tipo = "DIR"
                /\ inodos[d].path = Dirname(inodos[i].path)
                /\ \E k \in Listado(d) : inodos[d].entradas[k].inodo = i

\* With one thread every step of every operation is a call of the tree or is
\* invisible, and what is saved is the tree (fisopfs.md: "garantizan que las
\* operaciones realizadas por el usuario persistan"), whenever no inode is lost.
\* A directory that holds only lost ones can be removed, which is no call of
\* the tree.
ImplementsTree == Promise!Init /\ [][perdidos = {} => Promise!Next]_(Promise!vars)
=============================================================================
