------------------------------- MODULE Primes -------------------------------
(***************************************************************************)
(* TP0-fork/primes.c: the sieve of processes.  main writes 2..n in a pipe; *)
(* every filter prints the first number it reads, forks the next filter    *)
(* and passes on what is not a multiple of its own.                        *)
(*                                                                         *)
(* Each step is one system call that another process can notice, with the  *)
(* descriptors the program closes around it.  What printf has not written  *)
(* yet is part of a process and is copied by fork.                         *)
(***************************************************************************)
EXTENDS Unix

CONSTANTS MaxN,              \* bound: the largest argument
          Main,
          Faults             \* the calls that may fail: "fork", "pipe"

ASSUME MainAssumption == Main \in Procs
ASSUME MaxNAssumption == MaxN \in Nat \ {0}
ASSUME FdsAssumption == Fds = {"padre0", "padre1", "hijo0", "hijo1"}

VARIABLES u,                 \* processes and pipes
          n,                 \* the argument
          tty,               \* stdout is a terminal: printf writes each line
          pc,
          i,                 \* main's counter
          recibido,          \* the filter's number
          numero,            \* the last one it has read
          pid,               \* its child
          stdout,            \* what it has printed and not written yet
          output,            \* what was written
          failed             \* history: a call has failed

progvars == <<n, tty, i, recibido, numero, pid, stdout, output, failed>>
vars == <<u, n, tty, pc, i, recibido, numero, pid, stdout, output, failed>>

TypeOK ==
    /\ u \in UnixType
    /\ n \in 0..MaxN /\ i \in 2..MaxN + 1
    /\ tty \in BOOLEAN /\ failed \in BOOLEAN
    /\ pc \in [Procs -> {"main", "send", "born", "first", "pipe", "next", "pass", "wait", "ended"}]
    /\ recibido \in [Procs -> 0..MaxN]
    /\ numero \in [Procs -> 0..MaxN]
    /\ pid \in [Procs -> Procs \cup {InitProc}]
    /\ stdout \in [Procs -> Seq(2..MaxN)]
    /\ output \in Seq(2..MaxN)

Init ==
    /\ u = Boot(Main, [f \in Fds |-> Closed])
    /\ n \in 0..MaxN /\ tty \in BOOLEAN
    /\ pc = [p \in Procs |-> IF p = Main THEN "main" ELSE "ended"]
    /\ i = 2
    /\ recibido = [p \in Procs |-> 0]
    /\ numero = [p \in Procs |-> 0]
    /\ pid = [p \in Procs |-> InitProc]
    /\ stdout = [p \in Procs |-> <<>>]
    /\ output = <<>>
    /\ failed = FALSE

At(p, label) == Running(u, p) /\ pc[p] = label
Goto(p, label) == pc' = [pc EXCEPT ![p] = label]
Same == UNCHANGED progvars

\* exit(3) writes what stdout still holds; SIGPIPE does not
Ended(p, unix, written) ==
    /\ u' = Exit(unix, p)
    /\ output' = IF written THEN output \o stdout[p] ELSE output
    /\ stdout' = [stdout EXCEPT ![p] = <<>>]
    /\ recibido' = [recibido EXCEPT ![p] = 0]
    /\ numero' = [numero EXCEPT ![p] = 0]
    /\ pid' = [pid EXCEPT ![p] = InitProc]
    /\ Goto(p, "ended")
    /\ UNCHANGED <<n, tty, i>>

Failed(p) == Ended(p, u, TRUE) /\ failed' = TRUE

\* The child begins with everything its parent has
Forked(p, unix, unread, label) ==
    LET c == FreeProc(unix)
    IN  /\ u' = Close(Fork(unix, p), p, {unread})
        /\ pc' = [pc EXCEPT ![p] = label, ![c] = "born"]
        /\ pid' = [pid EXCEPT ![p] = c]
        /\ stdout' = [stdout EXCEPT ![c] = stdout[p]]
        /\ UNCHANGED <<n, tty, i, recibido, numero, output, failed>>

-----------------------------------------------------------------------------
\* main

MainPipe ==
    LET unix == Pipe(u, Main, "padre0", "padre1")
    IN  At(Main, "main") /\ CanPipe(u) /\ CanFork(u) /\ Forked(Main, unix, "padre0", "send")

MainFails == At(Main, "main") /\ Faults # {} /\ Failed(Main)

\* Faulty form: one number too many
MainSendMore ==
    /\ At(Main, "send") /\ i <= n + 1
    /\ CanWrite(u, Main, "padre1")
    /\ u' = Write(u, Main, "padre1", i)
    /\ i' = i + 1
    /\ UNCHANGED <<n, tty, pc, recibido, numero, pid, stdout, output, failed>>

MainSend ==
    /\ At(Main, "send") /\ i <= n
    /\ CanWrite(u, Main, "padre1")
    /\ u' = Write(u, Main, "padre1", i)
    /\ i' = i + 1
    /\ UNCHANGED <<n, tty, pc, recibido, numero, pid, stdout, output, failed>>

MainDone ==
    /\ At(Main, "send") /\ i > n
    /\ u' = Close(u, Main, {"padre1"})
    /\ Goto(Main, "wait") /\ Same

-----------------------------------------------------------------------------
\* filtro

\* Faulty form: the child keeps the end its parent writes
BornKeeps(p) ==
    LET new == IF u.fds[p]["hijo0"] = Closed THEN "padre0" ELSE "hijo0"
    IN  /\ At(p, "born")
        /\ u' = [u EXCEPT !.fds[p]["padre0"] = u.fds[p][new], !.fds[p]["hijo0"] = Closed]
        /\ Goto(p, "first") /\ Same

\* The child closes what is not the end it reads; that one is its pipe_padre
Born(p) ==
    LET new == IF u.fds[p]["hijo0"] = Closed THEN "padre0" ELSE "hijo0"
    IN  /\ At(p, "born")
        /\ u' = [u EXCEPT !.fds[p] = [x \in Fds |-> IF x = "padre0" THEN u.fds[p][new] ELSE Closed]]
        /\ Goto(p, "first") /\ Same

First(p) ==
    /\ At(p, "first") /\ CanRead(u, p, "padre0")
    /\ u' = Read(u, p, "padre0")
    /\ LET v == Front(u, p, "padre0")
       IN  /\ recibido' = [recibido EXCEPT ![p] = v]
           /\ IF tty
              THEN output' = Append(output, v) /\ UNCHANGED stdout
              ELSE stdout' = [stdout EXCEPT ![p] = Append(@, v)] /\ UNCHANGED output
    /\ Goto(p, "pipe")
    /\ UNCHANGED <<n, tty, i, numero, pid, failed>>

FirstEof(p) == At(p, "first") /\ AtEof(u, p, "padre0") /\ Ended(p, u, TRUE) /\ UNCHANGED failed

NewFilter(p) ==
    LET unix == Pipe(u, p, "hijo0", "hijo1")
    IN  At(p, "pipe") /\ CanPipe(u) /\ CanFork(u) /\ Forked(p, unix, "hijo0", "next")

NewFilterFails(p) == At(p, "pipe") /\ Faults # {} /\ Failed(p)

\* Faulty form: multiples are passed on too
ReadNextAll(p) ==
    /\ At(p, "next") /\ CanRead(u, p, "padre0")
    /\ u' = Read(u, p, "padre0")
    /\ numero' = [numero EXCEPT ![p] = Front(u, p, "padre0")]
    /\ Goto(p, "pass")
    /\ UNCHANGED <<n, tty, i, recibido, pid, stdout, output, failed>>

ReadNext(p) ==
    /\ At(p, "next") /\ CanRead(u, p, "padre0")
    /\ LET v == Front(u, p, "padre0")
       IN  /\ u' = Read(u, p, "padre0")
           /\ IF v % recibido[p] # 0
              THEN numero' = [numero EXCEPT ![p] = v] /\ Goto(p, "pass")
              ELSE UNCHANGED <<numero, pc>>
    /\ UNCHANGED <<n, tty, i, recibido, pid, stdout, output, failed>>

Pass(p) ==
    /\ At(p, "pass") /\ CanWrite(u, p, "hijo1")
    /\ u' = Write(u, p, "hijo1", numero[p])
    /\ numero' = [numero EXCEPT ![p] = 0]
    /\ Goto(p, "next")
    /\ UNCHANGED <<n, tty, i, recibido, pid, stdout, output, failed>>

\* Faulty form: the next filter is waited for with its pipe open
NextEofOpen(p) ==
    /\ At(p, "next") /\ AtEof(u, p, "padre0")
    /\ u' = Close(u, p, {"padre0"})
    /\ Goto(p, "wait") /\ Same

NextEof(p) ==
    /\ At(p, "next") /\ AtEof(u, p, "padre0")
    /\ u' = Close(u, p, {"hijo1", "padre0"})
    /\ Goto(p, "wait") /\ Same

-----------------------------------------------------------------------------
\* Both

\* The one who reads from p has ended
Sigpipe(p) ==
    /\ \/ At(p, "send") /\ i <= n /\ Broken(u, p, "padre1")
       \/ At(p, "pass") /\ Broken(u, p, "hijo1")
    /\ Ended(p, u, FALSE)
    /\ UNCHANGED failed

\* wait(NULL), which returns at once when there is no child
Wait(p) ==
    /\ At(p, "wait")
    /\ u.state[pid[p]] = "zombie"
    /\ Ended(p, Reap(u, pid[p]), TRUE)
    /\ UNCHANGED failed

Step(p) ==
    \/ Born(p) \/ First(p) \/ FirstEof(p) \/ NewFilter(p) \/ NewFilterFails(p)
    \/ ReadNext(p) \/ Pass(p) \/ NextEof(p) \/ Sigpipe(p) \/ Wait(p)

MainStep == MainPipe \/ MainFails \/ MainSend \/ MainDone

Next == MainStep \/ \E p \in Procs : Step(p)

Spec == Init /\ [][Next]_vars

\* The operating system runs every process that can go on
FairSpec == Spec /\ WF_vars(MainStep) /\ \A p \in Procs : WF_vars(Step(p))

-----------------------------------------------------------------------------

PrimesTo(k) == {v \in 2..k : \A d \in 2..v - 1 : v % d # 0}
AllEnded == \A p \in Procs : u.state[p] = "none"

\* On a terminal the primes come out in order, each once and none left out
\* before another, whatever the processes do; to a file they may be repeated (fork copies what printf holds)
\* but only primes come out.  Without a failure none is missing at the end.
OnlyPrimes ==
    LET Written == {output[k] : k \in DOMAIN output}
    IN  /\ Written \subseteq PrimesTo(n)
        /\ tty => \A k \in DOMAIN output :
                    /\ \A l \in 1..k - 1 : output[l] < output[k]
                    /\ \A v \in PrimesTo(n) : v < output[k] => v \in Written
        /\ AllEnded /\ ~failed => Written = PrimesTo(n)

\* A pipe joins two processes: once the filter that reads from it is at work,
\* nobody but its parent can write in it and nobody but it can read it, or the
\* end of file would not come.  (A child that has not closed what it inherits
\* holds it too, and does not read.)  No process works with more
\* than two ends, however long the chain is.
OneReaderOneWriter ==
    /\ \A p \in Procs : Running(u, p) /\ pc[p] \in {"first", "pipe", "next", "pass"} =>
          LET k == Source(u, p, "padre0")
          IN  /\ {x \in Holders(u, End(k, "r")) : pc[x] # "born"} = {p}
              /\ Holders(u, End(k, "w")) \subseteq {u.parent[p]}
    /\ \A p \in Procs : Running(u, p) /\ pc[p] # "born" => Cardinality(Held(u, p)) <= 2

\* The sieve ends: every process does, and is waited for.
SieveEnds == <>AllEnded
=============================================================================
