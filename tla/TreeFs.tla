------------------------------- MODULE TreeFs -------------------------------
(***************************************************************************)
(* What fisopfs promises its users, without inodes, directory entries or   *)
(* program steps: a tree of files and directories, changed by one call at  *)
(* a time, and a copy of it that survives a crash unless the crash falls   *)
(* in the middle of making it.                                             *)
(***************************************************************************)
EXTENDS Integers, Sequences

CONSTANTS Paths,        \* sequences of names; <<>> is the root
          Bytes,        \* 0 is among them
          MAX_CONTENT

VARIABLES tree,         \* a function from the paths that exist to their nodes
          saved,        \* the tree the next mount will find
          saving        \* a save has begun and has not ended

vars == <<tree, saved, saving>>

Dir == [tipo |-> "DIR", datos |-> <<>>]
File(d) == [tipo |-> "REG", datos |-> d]
Nothing == [p \in {} |-> Dir]
OnlyRoot == [p \in {<<>>} |-> Dir]

Exists(p) == p \in DOMAIN tree
IsDir(p) == Exists(p) /\ tree[p].tipo = "DIR"
IsFile(p) == Exists(p) /\ tree[p].tipo = "REG"
Parent(p) == SubSeq(p, 1, Len(p) - 1)
Children(p) == {q \in DOMAIN tree : q # <<>> /\ Parent(q) = p}

With(p, node) == [q \in DOMAIN tree \cup {p} |-> IF q = p THEN node ELSE tree[q]]
Without(p) == [q \in DOMAIN tree \ {p} |-> tree[q]]

\* A file's contents grown with zeros, or cut, to length n
Resized(d, n) == [k \in 1..n |-> IF k <= Len(d) THEN d[k] ELSE 0]
\* ... and with the bytes of b written over it from offset o
Overwritten(d, o, b) ==
    LET n == IF Len(d) < o + Len(b) THEN o + Len(b) ELSE Len(d)
    IN  [k \in 1..n |-> IF k \in o + 1..o + Len(b) THEN b[k - o] ELSE Resized(d, n)[k]]

Init == tree = Nothing /\ saved = OnlyRoot /\ saving = FALSE

Add(p, node) ==
    /\ p # <<>> /\ ~Exists(p) /\ IsDir(Parent(p))
    /\ tree' = With(p, node)
    /\ UNCHANGED <<saved, saving>>

Unlink(p) == IsFile(p) /\ tree' = Without(p) /\ UNCHANGED <<saved, saving>>

Rmdir(p) ==
    /\ p # <<>> /\ IsDir(p) /\ Children(p) = {}
    /\ tree' = Without(p)
    /\ UNCHANGED <<saved, saving>>

Write(p, o, b) ==
    /\ IsFile(p) /\ o + Len(b) <= MAX_CONTENT
    /\ tree' = With(p, File(Overwritten(tree[p].datos, o, b)))
    /\ UNCHANGED <<saved, saving>>

Truncate(p, n) ==
    /\ IsFile(p)
    /\ tree' = With(p, File(Resized(tree[p].datos, n)))
    /\ UNCHANGED <<saved, saving>>

Mount == tree = Nothing /\ ~saving /\ tree' = saved /\ UNCHANGED <<saved, saving>>

\* A save first gives up the old copy.
BeginSave == ~saving /\ saving' = TRUE /\ saved' = Nothing /\ UNCHANGED tree
EndSave == saving /\ saving' = FALSE /\ saved' = tree /\ UNCHANGED tree
\* An unmount ends with a save.
EndUnmount == saving /\ saving' = FALSE /\ saved' = tree /\ tree' = Nothing

Crash == tree' = Nothing /\ saving' = FALSE /\ UNCHANGED saved

Next ==
    \/ \E p \in Paths :
          \/ Add(p, Dir) \/ Add(p, File(<<>>)) \/ Unlink(p) \/ Rmdir(p)
          \/ \E n \in 0..MAX_CONTENT : Truncate(p, n)
          \/ \E o \in 0..MAX_CONTENT - 1, b \in Bytes : Write(p, o, <<b>>)
    \/ Mount \/ BeginSave \/ EndSave \/ EndUnmount \/ Crash

Spec == Init /\ [][Next]_vars
=============================================================================
