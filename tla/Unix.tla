-------------------------------- MODULE Unix --------------------------------
(***************************************************************************)
(* The processes of the operating system under TP0-fork and TP1-shell, as  *)
(* their code uses it: fork, exit, pipe, dup2, close, read and write.  It  *)
(* is not part of the repository.                                          *)
(*                                                                         *)
(* The state is one record u.  A descriptor is named by the variable of    *)
(* the program that keeps it; what it names is the end of a pipe, or       *)
(* something that is no pipe.  A pipe has no state of its own beyond its   *)
(* contents: who may read it or write it is who holds the end.             *)
(***************************************************************************)
EXTENDS Naturals, Sequences, FiniteSets

CONSTANTS Procs,             \* the process table
          Fds,               \* the descriptors a program keeps
          Pipes,
          PIPE_BUF,          \* how many values fit in a pipe
          InitProc           \* the parent of the orphans

ASSUME PipeAssumption == PIPE_BUF \in Nat \ {0}
ASSUME InitProcAssumption == InitProc \notin Procs

End(k, side) == <<k, side>>
Ends == Pipes \X {"r", "w"}
Closed == <<>>
Plain == <<"file">>          \* the terminal, or a file

UnixType ==
    [state : [Procs -> {"none", "running", "zombie"}],
     parent : [Procs -> Procs \cup {InitProc}],
     fds : [Procs -> [Fds -> Ends \cup {Closed, Plain}]],
     pipe : [Pipes -> Seq(Nat)]]

Boot(p, fds) ==
    [state |-> [x \in Procs |-> IF x = p THEN "running" ELSE "none"],
     parent |-> [x \in Procs |-> InitProc],
     fds |-> [x \in Procs |-> IF x = p THEN fds ELSE [n \in Fds |-> Closed]],
     pipe |-> [k \in Pipes |-> <<>>]]

Running(u, p) == u.state[p] = "running"
Children(u, p) == {c \in Procs : u.parent[c] = p /\ u.state[c] # "none"}

Holders(u, end) == {p \in Procs : \E n \in Fds : u.fds[p][n] = end}
Held(u, p) == {u.fds[p][n] : n \in Fds} \cap Ends

\* Two processes that differ in nothing are told apart by nobody
FreeProc(u) == CHOOSE c \in Procs : u.state[c] = "none"
CanFork(u) == \E c \in Procs : u.state[c] = "none"
Unheld(u, k) == Holders(u, End(k, "r")) \cup Holders(u, End(k, "w")) = {}
FreePipe(u) == CHOOSE k \in Pipes : Unheld(u, k)
CanPipe(u) == \E k \in Pipes : Unheld(u, k)

\* The child has its parent's descriptors
Fork(u, p) ==
    LET c == FreeProc(u)
    IN  [u EXCEPT !.state[c] = "running", !.parent[c] = p, !.fds[c] = u.fds[p]]

\* pipe(2): rd and wr are where the program keeps the two ends
Pipe(u, p, rd, wr) ==
    LET k == FreePipe(u)
    IN  [u EXCEPT !.fds[p][rd] = End(k, "r"), !.fds[p][wr] = End(k, "w"), !.pipe[k] = <<>>]

Close(u, p, names) ==
    [u EXCEPT !.fds[p] = [n \in Fds |-> IF n \in names THEN Closed ELSE @[n]]]

Dup2(u, p, from, to) == [u EXCEPT !.fds[p][to] = u.fds[p][from]]

\* exit(2) or death by a signal: the descriptors are closed, the children
\* are init's, which reaps them
Exit(u, p) ==
    LET orphan(c) == u.parent[c] = p
        gone(c) == (orphan(c) /\ u.state[c] = "zombie") \/ (c = p /\ u.parent[p] = InitProc)
    IN  [u EXCEPT !.state = [c \in Procs |-> IF gone(c) THEN "none" ELSE IF c = p THEN "zombie" ELSE @[c]],
                  !.parent = [c \in Procs |-> IF orphan(c) \/ gone(c) THEN InitProc ELSE @[c]],
                  !.fds[p] = [n \in Fds |-> Closed]]

Reap(u, c) == [u EXCEPT !.state[c] = "none", !.parent[c] = InitProc]
ReapAll(u, S) ==
    [u EXCEPT !.state = [c \in Procs |-> IF c \in S THEN "none" ELSE @[c]],
              !.parent = [c \in Procs |-> IF c \in S THEN InitProc ELSE @[c]]]

\* read(2) from descriptor n blocks while the pipe is empty and has a writer
Source(u, p, n) == u.fds[p][n][1]
IsPipe(u, p, n) == u.fds[p][n] \in Ends
CanRead(u, p, n) == IsPipe(u, p, n) /\ u.pipe[Source(u, p, n)] # <<>>
AtEof(u, p, n) ==
    ~IsPipe(u, p, n) \/ (~CanRead(u, p, n) /\ Holders(u, End(Source(u, p, n), "w")) = {})
Front(u, p, n) == Head(u.pipe[Source(u, p, n)])
Read(u, p, n) == [u EXCEPT !.pipe[Source(u, p, n)] = Tail(@)]

\* write(2) blocks while the pipe is full and has a reader; without one it is
\* SIGPIPE
Broken(u, p, n) == IsPipe(u, p, n) /\ Holders(u, End(Source(u, p, n), "r")) = {}
CanWrite(u, p, n) ==
    IsPipe(u, p, n) => Len(u.pipe[Source(u, p, n)]) < PIPE_BUF /\ ~Broken(u, p, n)
Write(u, p, n, v) ==
    IF IsPipe(u, p, n) THEN [u EXCEPT !.pipe[Source(u, p, n)] = Append(@, v)] ELSE u
=============================================================================
