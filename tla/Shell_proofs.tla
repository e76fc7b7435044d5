---------------------------- MODULE Shell_proofs ----------------------------
(***************************************************************************)
(* What holds of the shell for every set of commands, any number of lines, *)
(* processes and pipes of any size, and every order in which they run.     *)
(*                                                                         *)
(* The processes of the foreground command that may fork form a chain: the *)
(* first is the child the shell waits for, the next one is the right side  *)
(* of the pipeline of the one before, which waits for it.  All the others  *)
(* execute one program: left sides, background jobs, and those that lost   *)
(* the one that waited for them.                                           *)
(***************************************************************************)
EXTENDS Shell, TLAPS

Simple(p) == pc[p] \in {"born", "redir", "exec", "prog"} /\ cmd[p] \notin Pipelines

\* What a process is at goes with what it executes and with the children it has
\* to wait for.
Known(p) ==
    /\ u.state[p] = "running" <=> pc[p] # "ended"
    /\ p = Shell => pc[p] \in {"prompt", "waitany", "wait", "ended"} /\ side[p] = "run"
    /\ p # Shell => pc[p] \notin {"prompt", "waitany"}
    /\ pc[p] = "born" => cmd[p] \in Commands
    /\ pc[p] = "redir" => cmd[p] \in Redirections
    /\ pc[p] \in {"exec", "prog"} => cmd[p] \in Simples \cup Opened
    /\ p # Shell /\ pc[p] \in {"pipe", "right", "wait"} => cmd[p] \in Pipelines
    /\ pc[p] \in {"prompt", "waitany", "born", "redir", "exec", "prog", "pipe", "ended"} => kids[p] = <<>>
    /\ pc[p] = "right" => Len(kids[p]) = 1
    /\ p = Shell /\ pc[p] = "wait" => Len(kids[p]) = 1

Std == {"0", "1", "2"}

\* The standard descriptors of a process are files, or ends of the right kind,
\* and never both ends of one pipe
Standard(p) ==
    /\ u.fds[p]["0"] = Plain \/ \E k \in Pipes : u.fds[p]["0"] = End(k, "r")
    /\ u.fds[p]["1"] = Plain \/ \E k \in Pipes : u.fds[p]["1"] = End(k, "w")
    /\ u.fds[p]["2"] = Plain \/ \E k \in Pipes : u.fds[p]["2"] = End(k, "w")
    /\ \A k \in Pipes : u.fds[p]["0"] = End(k, "r") =>
                            u.fds[p]["1"] # End(k, "w") /\ u.fds[p]["2"] # End(k, "w")
    /\ side[p] = "run" => \A n \in Std : u.fds[p][n] = Plain

Apart(p, k) == \A n \in Std : u.fds[p][n] # End(k, "r") /\ u.fds[p][n] # End(k, "w")

\* What a process has in r and w: a side of a pipeline has both ends when it is
\* born, unless its sibling was born before; the one that forks them has the end
\* to read in between
Between(p) ==
    IF pc[p] = "born" /\ side[p] = "left"
    THEN \E k \in Pipes : u.fds[p]["r"] = End(k, "r") /\ u.fds[p]["w"] = End(k, "w") /\ Apart(p, k)
    ELSE IF pc[p] = "right" \/ (pc[p] = "born" /\ side[p] = "right")
    THEN \E k \in Pipes : u.fds[p]["r"] = End(k, "r") /\ u.fds[p]["w"] = Closed /\ Apart(p, k)
    ELSE u.fds[p]["r"] = Closed /\ u.fds[p]["w"] = Closed

Local(p) == Known(p) /\ (Running(u, p) => Standard(p) /\ Between(p))

\* A background job: in the group of the shell
Back(p) ==
    /\ u.parent[p] = Shell /\ pgid[p] = Shell
    /\ pc[p] = "born" => side[p] = "run" /\ cmd[p].type = "BACK"

Chain(m, c) ==
    /\ m \in Nat
    /\ \A j \in 1..m : c[j] \in Procs \ {Shell} /\ Running(u, c[j])
    /\ \A i, j \in 1..m : c[i] = c[j] => i = j
    /\ m > 0 => pc[Shell] = "wait" /\ kids[Shell][1] = c[1]
    /\ \A j \in 2..m : pc[c[j - 1]] = "wait" /\ kids[c[j - 1]] # <<>>
                       /\ kids[c[j - 1]][Len(kids[c[j - 1]])] = c[j]

Free(p) == failed \/ pc[Shell] = "ended" \/ Back(p)

Others(m, c) ==
    \A p \in Procs \ {Shell} : Running(u, p) /\ (\A j \in 1..m : c[j] # p) =>
        /\ Simple(p)
        /\ Free(p) \/ \E j \in 1..m : \E i \in 1..Len(kids[c[j]]) : kids[c[j]][i] = p

Linked == \E m, c : Chain(m, c) /\ Others(m, c)

\* The foreground child f executes l, or ended the way l says
Executes(f, l) ==
    /\ pc[f] \in {"born", "redir"} => cmd[f] = l
    /\ pc[f] \in {"exec", "prog"} => /\ cmd[f].prog = l.prog
                                     /\ l \in Simples \cup Redirections
                                     /\ l \in Redirections => ~CannotOpen(l)
    /\ pc[f] = "prog" => l.prog # "missing"
    /\ pc[f] \in {"pipe", "right", "wait"} => l \in Pipelines
    /\ pc[f] = "ended" => Decoded(l, raw[f]) = Outcome(l)

Foreground(f) ==
    /\ f \in Procs \ {Shell} /\ u.parent[f] = Shell /\ u.state[f] # "none"
    /\ pc[f] # "ended" => side[f] = "run"
    /\ pc[f] = "born" => cmd[f].type # "BACK"
    /\ pc[f] # "born" => pgid[f] = f
    /\ last # NoCmd => Executes(f, last)

Statuses ==
    /\ pgid[Shell] = Shell /\ u.parent[Shell] = InitProc
    /\ pc[Shell] = "waitany" => last = NoCmd
    /\ pc[Shell] = "prompt" /\ last # NoCmd => status = Outcome(last)
    /\ pc[Shell] = "wait" => Foreground(kids[Shell][1])

IInv == TypeOK /\ (\A p \in Procs : Local(p)) /\ Linked /\ Statuses

-----------------------------------------------------------------------------
(***************************************************************************)
(* The system calls, field by field.                                       *)
(***************************************************************************)

FdSet == Ends \cup {Closed, Plain}

LEMMA Fields ==
    ASSUME NEW x \in UnixType
    PROVE  /\ x.state \in [Procs -> {"none", "running", "zombie"}]
           /\ x.parent \in [Procs -> Procs \cup {InitProc}]
           /\ x.fds \in [Procs -> [Fds -> FdSet]]
           /\ x.pipe \in [Pipes -> Seq(Nat)]
  BY DEF UnixType, FdSet

LEMMA EndsDiffer ==
    ASSUME NEW a \in Pipes, NEW b \in Pipes
    PROVE  /\ End(a, "r") # End(b, "w")
           /\ End(a, "r") = End(b, "r") => a = b
           /\ End(a, "w") = End(b, "w") => a = b
           /\ End(a, "r") \in Ends /\ End(a, "w") \in Ends
           /\ End(a, "r") \in FdSet /\ End(a, "w") \in FdSet
           /\ End(a, "r")[2] = "r" /\ End(a, "w")[2] = "w"
           /\ End(a, "r") # Closed /\ End(a, "w") # Closed
           /\ End(a, "r") # Plain /\ End(a, "w") # Plain
  BY DEF End, Ends, FdSet, Closed, Plain

LEMMA FdsDiffer == Closed # Plain /\ Closed \in FdSet /\ Plain \in FdSet /\ Closed \notin Ends /\ Plain \notin Ends
  BY DEF Closed, Plain, FdSet, Ends

\* A change of what p has in its descriptors, and nothing else
WithFds(x, p, f) == [x EXCEPT !.fds[p] = f]

LEMMA WithFdsEs ==
    ASSUME NEW x \in UnixType, NEW p \in Procs, NEW f \in [Fds -> FdSet]
    PROVE  /\ WithFds(x, p, f) \in UnixType
           /\ WithFds(x, p, f).state = x.state /\ WithFds(x, p, f).parent = x.parent
           /\ WithFds(x, p, f).pipe = x.pipe
           /\ WithFds(x, p, f).fds[p] = f
           /\ \A q \in Procs \ {p} : WithFds(x, p, f).fds[q] = x.fds[q]
  BY DEF WithFds, UnixType, FdSet

LEMMA CloseIs ==
    ASSUME NEW x \in UnixType, NEW p \in Procs, NEW D
    PROVE  \E f \in [Fds -> FdSet] :
              /\ Close(x, p, D) = WithFds(x, p, f)
              /\ \A d \in Fds : f[d] = IF d \in D THEN Closed ELSE x.fds[p][d]
<1> DEFINE f == [d \in Fds |-> IF d \in D THEN Closed ELSE x.fds[p][d]]
<1>1. f \in [Fds -> FdSet]
  BY Fields, FdsDiffer
<1>2. Close(x, p, D) = WithFds(x, p, f)
  BY Fields DEF Close, WithFds, UnixType
<1> QED
  BY <1>1, <1>2

\* dup2(2): f is what p has then
Duplicates(x, p, from, to, f) ==
    /\ f \in [Fds -> FdSet]
    /\ Dup2(x, p, from, to) = WithFds(x, p, f)
    /\ \A d \in Fds : f[d] = IF d = to THEN x.fds[p][from] ELSE x.fds[p][d]

LEMMA Dup2Is ==
    ASSUME NEW x \in UnixType, NEW p \in Procs, NEW from \in Fds, NEW to \in Fds
    PROVE  \E f : Duplicates(x, p, from, to, f)
<1> DEFINE f == [x.fds[p] EXCEPT ![to] = x.fds[p][from]]
<1>1. f \in [Fds -> FdSet] /\ \A d \in Fds : f[d] = IF d = to THEN x.fds[p][from] ELSE x.fds[p][d]
  BY Fields
<1>2. Dup2(x, p, from, to) = WithFds(x, p, f)
  BY Fields DEF Dup2, WithFds, UnixType
<1> QED
  BY <1>1, <1>2 DEF Duplicates

LEMMA TwiceIs ==
    ASSUME NEW x \in UnixType, NEW p \in Procs, NEW f \in [Fds -> FdSet], NEW g \in [Fds -> FdSet]
    PROVE  WithFds(WithFds(x, p, f), p, g) = WithFds(x, p, g)
  BY DEF WithFds, UnixType

LEMMA ExitEs ==
    ASSUME NEW x \in UnixType, NEW p \in Procs
    PROVE  /\ Exit(x, p) \in UnixType
           /\ \A q \in Procs \ {p} : Exit(x, p).fds[q] = x.fds[q]
           /\ \A q \in Procs : Exit(x, p).state[q] =
                 IF x.parent[q] = p /\ x.state[q] = "zombie" THEN "none"
                 ELSE IF q = p THEN (IF x.parent[p] = InitProc THEN "none" ELSE "zombie")
                 ELSE x.state[q]
           /\ \A q \in Procs : Exit(x, p).parent[q] =
                 IF x.parent[q] = p \/ (q = p /\ x.parent[p] = InitProc) THEN InitProc ELSE x.parent[q]
  BY DEF Exit, UnixType

LEMMA ReapAllEs ==
    ASSUME NEW x \in UnixType, NEW S
    PROVE  /\ ReapAll(x, S) \in UnixType
           /\ ReapAll(x, S).fds = x.fds
           /\ \A q \in Procs : ReapAll(x, S).state[q] = IF q \in S THEN "none" ELSE x.state[q]
           /\ \A q \in Procs : ReapAll(x, S).parent[q] = IF q \in S THEN InitProc ELSE x.parent[q]
  BY DEF ReapAll, UnixType

\* fork(2): b is the child
Forks(x, p, b, y) ==
    /\ b \in Procs \ {p} /\ x.state[b] = "none"
    /\ y \in UnixType
    /\ y.state[b] = "running" /\ y.parent[b] = p
    /\ \A q \in Procs \ {b} : y.state[q] = x.state[q] /\ y.parent[q] = x.parent[q]
    /\ \A q \in Procs \ {b, p} : y.fds[q] = x.fds[q]

LEMMA ForkEs ==
    ASSUME NEW x \in UnixType, CanFork(x), NEW p \in Procs, Running(x, p)
    PROVE  /\ Forks(x, p, FreeProc(x), Fork(x, p))
           /\ Fork(x, p).fds[FreeProc(x)] = x.fds[p] /\ Fork(x, p).fds[p] = x.fds[p]
<1>1. PICK b : b = FreeProc(x)
  OBVIOUS
<1>2. b \in Procs /\ x.state[b] = "none"
  BY <1>1 DEF CanFork, FreeProc
<1>3. Fork(x, p) = [x EXCEPT !.state[b] = "running", !.parent[b] = p, !.fds[b] = x.fds[p]]
  BY <1>1 DEF Fork
<1>4. b # p
  BY <1>2 DEF Running
<1>5. /\ x.fds[p] \in [Fds -> FdSet] /\ x.fds \in [Procs -> [Fds -> FdSet]]
      /\ x.state \in [Procs -> {"none", "running", "zombie"}] /\ x.parent \in [Procs -> Procs \cup {InitProc}]
  BY Fields
<1>6. PICK y : y = Fork(x, p)
  OBVIOUS
<1>7. /\ y.state = [x.state EXCEPT ![b] = "running"] /\ y.parent = [x.parent EXCEPT ![b] = p]
      /\ y.fds = [x.fds EXCEPT ![b] = x.fds[p]]
  BY <1>3, <1>6 DEF UnixType
<1>8. y \in UnixType
  <2>1. PICK S, P, F : /\ S = [x.state EXCEPT ![b] = "running"] /\ P = [x.parent EXCEPT ![b] = p]
                       /\ F = [x.fds EXCEPT ![b] = x.fds[p]]
    OBVIOUS
  <2>2. /\ S \in [Procs -> {"none", "running", "zombie"}] /\ P \in [Procs -> Procs \cup {InitProc}]
        /\ F \in [Procs -> [Fds -> FdSet]]
    BY <1>2, <1>5, <2>1
  <2>3. y = [x EXCEPT !.state = S, !.parent = P, !.fds = F]
    BY <1>3, <1>6, <2>1
  <2> QED
    BY <2>2, <2>3 DEF UnixType, FdSet
<1>9. Forks(x, p, b, y)
  BY <1>2, <1>4, <1>5, <1>7, <1>8 DEF Forks
<1> QED
  BY <1>1, <1>2, <1>4, <1>5, <1>6, <1>7, <1>9

\* pipe(2): k is the pipe, and f what p has then
Opens(x, p, k, f, y) ==
    /\ k \in Pipes /\ f \in [Fds -> FdSet] /\ Unheld(x, k)
    /\ y \in UnixType /\ y.state = x.state /\ y.parent = x.parent
    /\ y.fds[p] = f /\ \A q \in Procs \ {p} : y.fds[q] = x.fds[q]
    /\ f["r"] = End(k, "r") /\ f["w"] = End(k, "w")
    /\ \A d \in Fds \ {"r", "w"} : f[d] = x.fds[p][d]

LEMMA PipeIs ==
    ASSUME NEW x \in UnixType, CanPipe(x), NEW p \in Procs, "r" \in Fds, "w" \in Fds,
           NEW y, y = Pipe(x, p, "r", "w")
    PROVE  \E k, f : Opens(x, p, k, f, y)
<1>1. PICK k : k = FreePipe(x)
  OBVIOUS
<1>2. k \in Pipes /\ Unheld(x, k)
  BY <1>1 DEF CanPipe, FreePipe
<1>3. End(k, "r") \in FdSet /\ End(k, "w") \in FdSet
  BY <1>2, EndsDiffer
<1>4. PICK e, g : e = End(k, "r") /\ g = End(k, "w")
  OBVIOUS
<1>5. x.fds[p] \in [Fds -> FdSet] /\ <<>> \in Seq(Nat)
  BY Fields
<1>6. PICK f : f = [[x.fds[p] EXCEPT !["r"] = e] EXCEPT !["w"] = g]
  OBVIOUS
<1>7. f \in [Fds -> FdSet] /\ f["r"] = e /\ f["w"] = g /\ \A d \in Fds \ {"r", "w"} : f[d] = x.fds[p][d]
  BY <1>3, <1>4, <1>5, <1>6
<1>8. y = [x EXCEPT !.fds = [x.fds EXCEPT ![p] = f], !.pipe = [x.pipe EXCEPT ![k] = <<>>]]
  BY <1>1, <1>4, <1>5, <1>6, Fields DEF Pipe, UnixType
<1>9. x.fds \in [Procs -> [Fds -> FdSet]] /\ x.pipe \in [Pipes -> Seq(Nat)]
  BY Fields
<1>10. PICK F, P : F = [x.fds EXCEPT ![p] = f] /\ P = [x.pipe EXCEPT ![k] = <<>>]
  OBVIOUS
<1>11. F \in [Procs -> [Fds -> FdSet]] /\ P \in [Pipes -> Seq(Nat)]
  BY <1>2, <1>5, <1>7, <1>9, <1>10
<1>12. y = [x EXCEPT !.fds = F, !.pipe = P]
  BY <1>8, <1>10
<1>13. y \in UnixType
  BY <1>11, <1>12 DEF UnixType, FdSet
<1>14. y.state = x.state /\ y.parent = x.parent /\ y.fds = F
  BY <1>12 DEF UnixType
<1>15. y.fds[p] = f /\ \A q \in Procs \ {p} : y.fds[q] = x.fds[q]
  BY <1>9, <1>10, <1>14
<1>16. Opens(x, p, k, f, y)
  BY <1>2, <1>4, <1>7, <1>13, <1>14, <1>15 DEF Opens
<1> QED
  BY <1>16

LEMMA PipeData ==
    ASSUME NEW x \in UnixType, NEW p \in Procs, NEW d \in Fds
    PROVE  /\ CanRead(x, p, d) => /\ Read(x, p, d) \in UnixType
                                  /\ Read(x, p, d).state = x.state /\ Read(x, p, d).parent = x.parent
                                  /\ Read(x, p, d).fds = x.fds
           /\ /\ Write(x, p, d, 0) \in UnixType
              /\ Write(x, p, d, 0).state = x.state /\ Write(x, p, d, 0).parent = x.parent
              /\ Write(x, p, d, 0).fds = x.fds
<1>1. PICK k : k = Source(x, p, d)
  OBVIOUS
<1>2. IsPipe(x, p, d) => k \in Pipes
  BY <1>1 DEF IsPipe, Source, Ends
<1>3. CASE IsPipe(x, p, d)
  <2>1. x.pipe[k] \in Seq(Nat) /\ Append(x.pipe[k], 0) \in Seq(Nat)
    BY <1>2, <1>3, Fields
  <2>2. Write(x, p, d, 0) = [x EXCEPT !.pipe[k] = Append(@, 0)] /\ Read(x, p, d) = [x EXCEPT !.pipe[k] = Tail(@)]
    BY <1>1, <1>3 DEF Write, Read
  <2>3. CanRead(x, p, d) => Tail(x.pipe[k]) \in Seq(Nat)
    BY <1>1, <2>1 DEF CanRead
  <2>4. ASSUME NEW s \in Seq(Nat), NEW y, y = [x EXCEPT !.pipe[k] = s]
        PROVE  y \in UnixType /\ y.state = x.state /\ y.parent = x.parent /\ y.fds = x.fds
    BY <1>2, <1>3, <2>4 DEF UnixType
  <2>5. PICK y, z : y = Write(x, p, d, 0) /\ z = Read(x, p, d)
    OBVIOUS
  <2>6. y \in UnixType /\ y.state = x.state /\ y.parent = x.parent /\ y.fds = x.fds
    BY <2>1, <2>2, <2>4, <2>5
  <2>7. CanRead(x, p, d) => z \in UnixType /\ z.state = x.state /\ z.parent = x.parent /\ z.fds = x.fds
    BY <2>2, <2>3, <2>4, <2>5
  <2> QED
    BY <2>5, <2>6, <2>7
<1>4. CASE ~IsPipe(x, p, d)
  BY <1>4 DEF Write, CanRead
<1> QED
  BY <1>3, <1>4

-----------------------------------------------------------------------------
(***************************************************************************)
(* Types.                                                                  *)
(***************************************************************************)

Raws == {0, ERROR * 256, SIGABRT, SIGSEGV, SIGPIPE}
Numbers == -ERROR..ERROR * 256

LEMMA NumbersIs ==
    /\ ERROR * 256 = 65280
    /\ \A s : s \in Numbers <=> s \in Int /\ -255 <= s /\ s <= 65280
<1>1. ERROR * 256 = 65280 /\ -ERROR = -255
  BY DEF ERROR
<1> QED
  BY <1>1 DEF Numbers

LEMMA RawNumbers == Raws \subseteq Numbers /\ 0 \in Numbers
<1>1. Raws = {0, 65280, 6, 11, 13}
  BY NumbersIs DEF Raws, SIGABRT, SIGSEGV, SIGPIPE
<1>2. 0 \in Numbers /\ 65280 \in Numbers /\ 6 \in Numbers /\ 11 \in Numbers /\ 13 \in Numbers
  BY NumbersIs
<1> QED
  BY <1>1, <1>2

LEMMA DecodedType ==
    ASSUME NEW c, NEW s \in Numbers
    PROVE  Decoded(c, s) \in Numbers
<1>1. s \in Int
  BY NumbersIs
<1>2. s % 128 \in 0..127 /\ (s \div 256) % 256 \in 0..255
  BY <1>1
<1>3. PICK m \in 0..127, e \in 0..255 : m = s % 128 /\ e = (s \div 256) % 256
  BY <1>2
<1>4. Decoded(c, s) \in {s, e, -m, -e}
  BY <1>3 DEF Decoded
<1>5. e \in Numbers
  BY NumbersIs
<1>6. -m \in Numbers
  BY NumbersIs
<1>7. -e \in Numbers
  BY NumbersIs
<1> QED
  BY <1>4, <1>5, <1>6, <1>7

\* What TypeOK says of the shell, and what it says of the processes
ShellType ==
    /\ status \in Numbers
    /\ lines \in 0..MaxLines
    /\ last \in Lines \cup {NoCmd} /\ failed \in BOOLEAN

KidsType == /\ kids \in [Procs -> Seq(Procs)]
            /\ \A p \in Procs : Len(kids[p]) <= IF p = Shell THEN 1 ELSE 2

PcType == pc \in [Procs -> {"prompt", "waitany", "born", "exec", "redir", "pipe", "right", "wait", "prog", "ended"}]
CmdType == cmd \in [Procs -> Commands \cup Opened \cup {NoCmd}]
RestType ==
    /\ pgid \in [Procs -> Procs]
    /\ raw \in [Procs -> Raws]
    /\ sigchld \subseteq Procs
    /\ side \in [Procs -> {"run", "left", "right"}]
    /\ todo \in [Procs -> 0..Writes + 1]

LEMMA Typed == TypeOK <=> u \in UnixType /\ PcType /\ CmdType /\ KidsType /\ RestType /\ ShellType
  BY DEF TypeOK, PcType, CmdType, KidsType, RestType, ShellType, Raws, Numbers

LEMMA TypedNext ==
    TypeOK' <=> u' \in UnixType /\ PcType' /\ CmdType' /\ KidsType' /\ RestType' /\ ShellType'
  BY DEF TypeOK, PcType, CmdType, KidsType, RestType, ShellType, Raws, Numbers

LEMMA InitType == Init => TypeOK
<1> SUFFICES ASSUME Init
             PROVE  TypeOK
  OBVIOUS
<1>1. u \in UnixType
  <2>1. [n \in Fds |-> IF n \in {"0", "1", "2"} THEN Plain ELSE Closed] \in [Fds -> FdSet]
    BY FdsDiffer
  <2>2. PICK f \in [Fds -> FdSet] : u = Boot(Shell, f)
    BY <2>1 DEF Init
  <2>3. [x \in Procs |-> IF x = Shell THEN f ELSE [n \in Fds |-> Closed]] \in [Procs -> [Fds -> FdSet]]
    BY <2>2, FdsDiffer
  <2>4. [k \in Pipes |-> <<>>] \in [Pipes -> Seq(Nat)]
    OBVIOUS
  <2> QED
    BY <2>2, <2>3, <2>4 DEF Boot, UnixType, FdSet
<1>2. PcType /\ CmdType
  BY DEF Init, PcType, CmdType
<1>3. ShellType
  <2>1. status \in Numbers /\ lines \in 0..MaxLines
    BY RawNumbers, BoundsAssumption DEF Init
  <2>2. last \in Lines \cup {NoCmd} /\ failed \in BOOLEAN
    BY DEF Init
  <2> QED
    BY <2>1, <2>2 DEF ShellType
<1>4. KidsType
  <2>1. <<>> \in Seq(Procs) /\ Len(<<>>) = 0
    OBVIOUS
  <2> QED
    BY <2>1 DEF Init, KidsType
<1>5. RestType
  BY BoundsAssumption DEF Init, RestType, Raws
<1> QED
  BY <1>1, <1>2, <1>3, <1>4, <1>5, Typed

LEMMA CollectedType ==
    ASSUME TypeOK, NEW S, Collected(S)
    PROVE  u' \in UnixType /\ pgid' \in [Procs -> Procs] /\ raw' \in [Procs -> Raws]
<1>1. u \in UnixType /\ RestType
  BY Typed
<1>2. u' \in UnixType
  BY <1>1, ReapAllEs DEF Collected
<1> QED
  BY <1>1, <1>2 DEF Collected, RestType, Raws

LEMMA EndedType ==
    ASSUME TypeOK, NEW p \in Procs, NEW w \in Raws, Ended(p, u, w), ShellType'
    PROVE  TypeOK'
<1>1. u \in UnixType /\ PcType /\ CmdType /\ KidsType /\ RestType
  BY Typed
<1>2. u' \in UnixType
  BY <1>1, ExitEs DEF Ended
<1>3. PcType' /\ CmdType'
  BY <1>1 DEF Ended, Goto, PcType, CmdType
<1>4. KidsType'
  <2>1. <<>> \in Seq(Procs) /\ Len(<<>>) = 0
    OBVIOUS
  <2> QED
    BY <1>1, <2>1 DEF Ended, KidsType
<1>5. RestType'
  <2>1. sigchld' \subseteq Procs
    BY <1>1 DEF Ended, RestType, Handles
  <2>2. raw' \in [Procs -> Raws]
    BY <1>1 DEF Ended, RestType, Raws
  <2>3. pgid' \in [Procs -> Procs]
    BY <1>1 DEF Ended, RestType
  <2> QED
    BY <1>1, <2>1, <2>2, <2>3, BoundsAssumption DEF Ended, RestType
<1> QED
  BY <1>2, <1>3, <1>4, <1>5, TypedNext

LEMMA SameShell == ASSUME TypeOK, UNCHANGED shellvars PROVE ShellType'
  BY Typed DEF ShellType, shellvars

LEMMA HandlerType == ASSUME TypeOK, NEW p \in Procs, Handler(p) PROVE TypeOK'
<1>1. u \in UnixType /\ PcType /\ CmdType /\ KidsType /\ RestType
  BY Typed
<1>2. u' \in UnixType /\ pgid' \in [Procs -> Procs] /\ raw' \in [Procs -> Raws]
  BY CollectedType DEF Handler
<1>3. sigchld' = sigchld \ {p} /\ UNCHANGED <<pc, cmd, side, kids, todo>> /\ UNCHANGED shellvars
  BY DEF Handler
<1>4. PcType' /\ CmdType' /\ KidsType'
  BY <1>1, <1>3 DEF PcType, CmdType, KidsType
<1>5. RestType'
  BY <1>1, <1>2, <1>3 DEF RestType
<1> QED
  BY <1>2, <1>3, <1>4, <1>5, SameShell, TypedNext

LEMMA WaitSideType == ASSUME TypeOK, NEW p \in Procs, WaitSide(p) PROVE TypeOK'
<1>1. u \in UnixType /\ PcType /\ CmdType /\ KidsType /\ RestType
  BY Typed
<1>2. u' \in UnixType /\ pgid' \in [Procs -> Procs] /\ raw' \in [Procs -> Raws]
  BY CollectedType DEF WaitSide
<1>3. /\ kids[p] # <<>> /\ p # Shell /\ kids' = [kids EXCEPT ![p] = Tail(@)]
      /\ UNCHANGED <<sigchld, pc, cmd, side, todo>> /\ UNCHANGED shellvars
  BY DEF WaitSide
<1>4. PcType' /\ CmdType' /\ RestType'
  BY <1>1, <1>2, <1>3 DEF PcType, CmdType, RestType
<1>5. KidsType'
  <2>1. kids[p] \in Seq(Procs) /\ Tail(kids[p]) \in Seq(Procs) /\ Len(Tail(kids[p])) <= Len(kids[p])
    BY <1>1, <1>3 DEF KidsType
  <2>2. Len(Tail(kids[p])) <= 2
    BY <1>1, <1>3, <2>1 DEF KidsType
  <2> QED
    BY <1>1, <1>3, <2>1, <2>2 DEF KidsType
<1> QED
  BY <1>2, <1>3, <1>4, <1>5, SameShell, TypedNext

LEMMA ForegroundType == ASSUME TypeOK, WaitForeground, Known(Shell) PROVE TypeOK'
<1>1. u \in UnixType /\ PcType /\ CmdType /\ KidsType /\ RestType /\ ShellType
  BY Typed
<1>2. u' \in UnixType /\ pgid' \in [Procs -> Procs] /\ raw' \in [Procs -> Raws]
  BY CollectedType DEF WaitForeground
<1>3. PICK c, s : /\ c = Head(kids[Shell]) /\ status' = Decoded(last, s)
                  /\ s = status \/ s = raw[c]
  BY DEF WaitForeground
<1>4. /\ kids' = [kids EXCEPT ![Shell] = <<>>] /\ pc' = [pc EXCEPT ![Shell] = "prompt"]
      /\ UNCHANGED <<sigchld, cmd, side, todo, lines, last, failed>> /\ At(Shell, "wait")
  BY DEF WaitForeground, Goto
<1>5. PcType' /\ CmdType' /\ RestType'
  BY <1>1, <1>2, <1>4, ShellAssumption DEF PcType, CmdType, RestType
<1>6. KidsType'
  <2>1. <<>> \in Seq(Procs) /\ Len(<<>>) = 0
    OBVIOUS
  <2>2. kids' \in [Procs -> Seq(Procs)] /\ \A p \in Procs : kids'[p] = IF p = Shell THEN <<>> ELSE kids[p]
    BY <1>1, <1>4, <2>1 DEF KidsType
  <2>3. \A p \in Procs : Len(kids'[p]) <= IF p = Shell THEN 1 ELSE 2
    BY <1>1, <2>1, <2>2 DEF KidsType
  <2> QED
    BY <2>2, <2>3 DEF KidsType
<1>7. ShellType'
  <2>1. kids[Shell] \in Seq(Procs) /\ Len(kids[Shell]) = 1
    BY <1>1, <1>4, ShellAssumption DEF KidsType, Known, At
  <2>2. c \in Procs
    BY <1>3, <2>1
  <2>3. s \in Numbers
    BY <1>1, <1>3, <2>2, RawNumbers DEF RestType, ShellType
  <2>4. status' \in Numbers
    BY <1>3, <2>3, DecodedType
  <2> QED
    BY <1>1, <1>4, <2>4 DEF ShellType
<1> QED
  BY <1>2, <1>5, <1>6, <1>7, TypedNext

LEMMA WaitAnyType == ASSUME TypeOK, WaitAny PROVE TypeOK'
<1>1. u \in UnixType /\ PcType /\ CmdType /\ KidsType /\ RestType /\ ShellType
  BY Typed
<1>2. u' \in UnixType /\ pgid' \in [Procs -> Procs] /\ raw' \in [Procs -> Raws]
  BY <1>1, CollectedType DEF WaitAny, RestType
<1>3. PICK s \in Numbers : status' = Decoded(cmd[Shell], s)
  <2>1. \E c \in Procs : status' = Decoded(cmd[Shell], status) \/ status' = Decoded(cmd[Shell], raw[c])
    BY ShellAssumption DEF WaitAny, Zombies, Children
  <2> QED
    BY <1>1, <2>1, RawNumbers DEF ShellType, RestType
<1>4. /\ cmd' = [cmd EXCEPT ![Shell] = NoCmd] /\ pc' = [pc EXCEPT ![Shell] = "prompt"]
      /\ UNCHANGED <<sigchld, side, kids, todo, lines, last, failed>>
  BY DEF WaitAny, Goto
<1>5. PcType' /\ CmdType' /\ RestType' /\ KidsType'
  BY <1>1, <1>2, <1>4, ShellAssumption DEF PcType, CmdType, RestType, KidsType
<1>6. ShellType'
  BY <1>1, <1>3, <1>4, DecodedType DEF ShellType
<1> QED
  BY <1>2, <1>5, <1>6, TypedNext

LEMMA RunCmdFailsType == ASSUME TypeOK, NEW c \in Lines, RunCmdFails(c) PROVE TypeOK'
<1>1. u \in UnixType /\ PcType /\ CmdType /\ KidsType /\ RestType /\ ShellType /\ c \in Commands
  BY Typed, CommandsAssumption
<1>2. /\ pc' \in {[pc EXCEPT ![Shell] = "prompt"], [pc EXCEPT ![Shell] = "waitany"]}
      /\ cmd' \in {[cmd EXCEPT ![Shell] = cmd[Shell]], [cmd EXCEPT ![Shell] = c]}
      /\ lines < MaxLines /\ lines' = lines + 1 /\ last' \in {last, NoCmd} /\ failed' = TRUE
      /\ UNCHANGED <<u, pgid, raw, sigchld, side, kids, todo, status>>
  BY DEF RunCmdFails, Goto
<1>3. PcType' /\ CmdType' /\ RestType' /\ KidsType'
  <2>1. PcType'
    BY <1>1, <1>2, ShellAssumption DEF PcType
  <2>2. CmdType'
    BY <1>1, <1>2, ShellAssumption DEF CmdType
  <2>3. RestType' /\ KidsType'
    BY <1>1, <1>2 DEF RestType, KidsType
  <2> QED
    BY <2>1, <2>2, <2>3
<1>4. ShellType'
  BY <1>1, <1>2, BoundsAssumption DEF ShellType
<1> QED
  BY <1>1, <1>2, <1>3, <1>4, TypedNext

-----------------------------------------------------------------------------
(***************************************************************************)
(* What the actions do, field by field.  p forks b.                        *)
(***************************************************************************)

ForkStep(p, b, command, where, label, waited) ==
    /\ Forks(u, p, b, u')
    /\ pgid' = [pgid EXCEPT ![b] = pgid[p]]
    /\ cmd' = [cmd EXCEPT ![b] = command]
    /\ side' = [side EXCEPT ![b] = where]
    /\ kids' = [kids EXCEPT ![p] = IF waited THEN Append(@, b) ELSE @]
    /\ pc' = [pc EXCEPT ![p] = label, ![b] = "born"]
    /\ UNCHANGED <<raw, sigchld, todo>>

LEMMA StdFds == Std \subseteq Fds /\ "r" \in Fds /\ "w" \in Fds /\ Fds = Std \cup {"r", "w"}
                /\ "r" \notin Std /\ "w" \notin Std
  BY FdsAssumption DEF Std

LEMMA RunCmdEs ==
    ASSUME TypeOK, NEW c \in Lines, RunCmd(c)
    PROVE  \E b \in Procs :
              /\ ForkStep(Shell, b, c, "run", IF c.type = "BACK" THEN "prompt" ELSE "wait", c.type # "BACK")
              /\ u'.fds[b] = u.fds[Shell] /\ u'.fds[Shell] = u.fds[Shell]
<1>1. u \in UnixType /\ CanFork(u) /\ Running(u, Shell) /\ u' = Fork(u, Shell)
  BY Typed DEF RunCmd, At
<1>2. PICK b : b = FreeProc(u)
  OBVIOUS
<1>3. Forks(u, Shell, b, u') /\ u'.fds[b] = u.fds[Shell] /\ u'.fds[Shell] = u.fds[Shell]
  BY <1>1, <1>2, ForkEs, ShellAssumption
<1>4. b \in Procs
  BY <1>3 DEF Forks
<1> QED
  BY <1>2, <1>3, <1>4 DEF ForkStep, RunCmd, Forked

\* After a fork, the parent closes the descriptors D
LEMMA ForkCloseEs ==
    ASSUME NEW x \in UnixType, CanFork(x), NEW p \in Procs, Running(x, p), NEW D
    PROVE  LET b == FreeProc(x)
               y == Close(Fork(x, p), p, D)
           IN  /\ Forks(x, p, b, y)
               /\ y.fds[b] = x.fds[p]
               /\ \A d \in Fds : y.fds[p][d] = IF d \in D THEN Closed ELSE x.fds[p][d]
<1>1. PICK b, z : b = FreeProc(x) /\ z = Fork(x, p)
  OBVIOUS
<1>2. Forks(x, p, b, z) /\ z.fds[b] = x.fds[p] /\ z.fds[p] = x.fds[p]
  BY <1>1, ForkEs
<1>3. z \in UnixType /\ b \in Procs \ {p}
  BY <1>2 DEF Forks
<1>4. PICK f \in [Fds -> FdSet] : /\ Close(z, p, D) = WithFds(z, p, f)
                                  /\ \A d \in Fds : f[d] = IF d \in D THEN Closed ELSE z.fds[p][d]
  BY <1>3, CloseIs
<1>5. PICK y : y = WithFds(z, p, f)
  OBVIOUS
<1>6. /\ y \in UnixType /\ y.state = z.state /\ y.parent = z.parent
      /\ y.fds[p] = f /\ \A q \in Procs \ {p} : y.fds[q] = z.fds[q]
  BY <1>3, <1>5, WithFdsEs
<1>7. Forks(x, p, b, y)
  BY <1>2, <1>6 DEF Forks
<1> QED
  BY <1>1, <1>2, <1>3, <1>4, <1>5, <1>6, <1>7

LEMMA ForkLeftEs ==
    ASSUME TypeOK, NEW p \in Procs, ForkLeft(p)
    PROVE  \E b \in Procs, k \in Pipes :
              /\ ForkStep(p, b, cmd[p].left, "left", "right", TRUE)
              /\ Unheld(u, k)
              /\ u'.fds[b]["r"] = End(k, "r") /\ u'.fds[b]["w"] = End(k, "w")
              /\ u'.fds[p]["r"] = End(k, "r") /\ u'.fds[p]["w"] = Closed
              /\ \A n \in Std : u'.fds[b][n] = u.fds[p][n] /\ u'.fds[p][n] = u.fds[p][n]
<1>1. u \in UnixType /\ CanPipe(u) /\ CanFork(u) /\ Running(u, p)
  BY Typed DEF ForkLeft, At
<1>2. PICK x : x = Pipe(u, p, "r", "w")
  OBVIOUS
<1>3. PICK k, f : Opens(u, p, k, f, x)
  BY <1>1, <1>2, PipeIs, StdFds
<1>4. CanFork(x) /\ Running(x, p)
  BY <1>1, <1>3 DEF CanFork, Running, Opens
<1>5. PICK b : b = FreeProc(x)
  OBVIOUS
<1>6. u' = Close(Fork(x, p), p, {"w"})
  BY <1>2 DEF ForkLeft
<1>7. /\ Forks(x, p, b, u') /\ u'.fds[b] = f
      /\ \A d \in Fds : u'.fds[p][d] = IF d \in {"w"} THEN Closed ELSE f[d]
  BY <1>3, <1>4, <1>5, <1>6, ForkCloseEs DEF Opens
<1>8. Forks(u, p, b, u') /\ b \in Procs
  BY <1>3, <1>7 DEF Forks, Opens
<1>9. ForkStep(p, b, cmd[p].left, "left", "right", TRUE)
  BY <1>2, <1>5, <1>8 DEF ForkStep, ForkLeft, Forked
<1>10. /\ u'.fds[b]["r"] = End(k, "r") /\ u'.fds[b]["w"] = End(k, "w")
       /\ u'.fds[p]["r"] = End(k, "r") /\ u'.fds[p]["w"] = Closed
       /\ \A n \in Std : u'.fds[b][n] = u.fds[p][n] /\ u'.fds[p][n] = u.fds[p][n]
  BY <1>3, <1>7, StdFds DEF Opens
<1> QED
  BY <1>3, <1>8, <1>9, <1>10 DEF Opens

LEMMA ForkRightEs ==
    ASSUME TypeOK, NEW p \in Procs, ForkRight(p)
    PROVE  \E b \in Procs :
              /\ ForkStep(p, b, cmd[p].right, "right", "wait", TRUE)
              /\ u'.fds[b] = u.fds[p]
              /\ u'.fds[p]["r"] = Closed /\ u'.fds[p]["w"] = Closed
              /\ \A n \in Std : u'.fds[p][n] = u.fds[p][n]
<1>1. u \in UnixType /\ CanFork(u) /\ Running(u, p) /\ u' = Close(Fork(u, p), p, {"r", "w"})
  BY Typed DEF ForkRight, At
<1>2. PICK b : b = FreeProc(u)
  OBVIOUS
<1>3. /\ Forks(u, p, b, u') /\ u'.fds[b] = u.fds[p]
      /\ \A d \in Fds : u'.fds[p][d] = IF d \in {"r", "w"} THEN Closed ELSE u.fds[p][d]
  BY <1>1, <1>2, ForkCloseEs
<1>4. ForkStep(p, b, cmd[p].right, "right", "wait", TRUE) /\ b \in Procs
  BY <1>2, <1>3 DEF ForkStep, ForkRight, Forked, Forks
<1> QED
  BY <1>3, <1>4, StdFds

LEMMA ForkStepType ==
    ASSUME TypeOK, NEW p \in Procs, NEW b \in Procs, NEW command \in Commands,
           NEW where \in {"run", "left", "right"}, NEW label \in {"prompt", "right", "wait"},
           NEW waited \in BOOLEAN, ForkStep(p, b, command, where, label, waited),
           waited => Len(kids[p]) < IF p = Shell THEN 1 ELSE 2, ShellType'
    PROVE  TypeOK'
<1>1. u \in UnixType /\ PcType /\ CmdType /\ KidsType /\ RestType
  BY Typed
<1>2. /\ cmd' = [cmd EXCEPT ![b] = command] /\ side' = [side EXCEPT ![b] = where]
      /\ pgid' = [pgid EXCEPT ![b] = pgid[p]]
      /\ kids' = [kids EXCEPT ![p] = IF waited THEN Append(@, b) ELSE @]
      /\ pc' = [pc EXCEPT ![p] = label, ![b] = "born"]
      /\ UNCHANGED <<raw, sigchld, todo>> /\ u' \in UnixType
  BY DEF ForkStep, Forks
<1>3. PcType' /\ CmdType'
  BY <1>1, <1>2 DEF PcType, CmdType
<1>4. KidsType'
  <2>1. Append(kids[p], b) \in Seq(Procs) /\ Len(Append(kids[p], b)) = Len(kids[p]) + 1 /\ Len(kids[p]) \in Nat
    BY <1>1 DEF KidsType
  <2>2. PICK s \in Seq(Procs) : kids' = [kids EXCEPT ![p] = s] /\ Len(s) <= IF p = Shell THEN 1 ELSE 2
    <3>1. Len(kids[p]) <= IF p = Shell THEN 1 ELSE 2
      BY <1>1 DEF KidsType
    <3>2. CASE waited
      <4>1. kids' = [kids EXCEPT ![p] = Append(kids[p], b)]
        BY <1>2, <3>2
      <4>2. Len(Append(kids[p], b)) <= IF p = Shell THEN 1 ELSE 2
        BY <2>1, <3>2
      <4> QED
        BY <2>1, <4>1, <4>2
    <3>3. CASE ~waited
      BY <1>1, <1>2, <3>1, <3>3 DEF KidsType
    <3> QED
      BY <3>2, <3>3
  <2> QED
    BY <1>1, <2>2 DEF KidsType
<1>5. RestType'
  BY <1>1, <1>2 DEF RestType
<1> QED
  BY <1>2, <1>3, <1>4, <1>5, TypedNext

LEMMA ForkTypes ==
    ASSUME TypeOK, NEW p \in Procs, \A q \in Procs : Known(q)
    PROVE  /\ \A c \in Lines : RunCmd(c) => TypeOK'
           /\ ForkLeft(p) \/ ForkRight(p) => TypeOK'
<1>1. CmdType /\ KidsType /\ ShellType
  BY Typed
<1>2. ASSUME NEW c \in Lines, RunCmd(c)
      PROVE  TypeOK'
  <2>1. PICK b \in Procs :
           ForkStep(Shell, b, c, "run", IF c.type = "BACK" THEN "prompt" ELSE "wait", c.type # "BACK")
    BY <1>2, RunCmdEs
  <2>2. PICK label \in {"prompt", "wait"}, waited \in BOOLEAN : ForkStep(Shell, b, c, "run", label, waited)
    BY <2>1
  <2>3. ShellType'
    BY <1>1, <1>2, BoundsAssumption DEF RunCmd, ShellType
  <2>4. Len(kids[Shell]) = 0
    <3>1. pc[Shell] = "prompt" /\ kids[Shell] = <<>>
      BY <1>2, ShellAssumption DEF RunCmd, At, Known
    <3> QED
      BY <3>1
  <2>5. c \in Commands
    BY CommandsAssumption
  <2>6. Len(kids[Shell]) < IF Shell = Shell THEN 1 ELSE 2
    BY <2>4
  <2> QED
    BY <2>2, <2>3, <2>5, <2>6, ShellAssumption, ForkStepType
<1>3. ASSUME ForkLeft(p)
      PROVE  TypeOK'
  <2>1. PICK b \in Procs : ForkStep(p, b, cmd[p].left, "left", "right", TRUE)
    BY <1>3, ForkLeftEs
  <2>2. pc[p] = "pipe" /\ p # Shell
    BY <1>3 DEF ForkLeft, At, Known
  <2>3. kids[p] = <<>> /\ cmd[p] \in Pipelines
    BY <2>2 DEF Known
  <2>4. cmd[p].left \in Commands /\ Len(kids[p]) < IF p = Shell THEN 1 ELSE 2
    BY <2>2, <2>3 DEF Pipelines
  <2>5. ShellType'
    BY <1>3, SameShell DEF ForkLeft
  <2> QED
    BY <2>1, <2>4, <2>5, ForkStepType
<1>4. ASSUME ForkRight(p)
      PROVE  TypeOK'
  <2>1. PICK b \in Procs : ForkStep(p, b, cmd[p].right, "right", "wait", TRUE)
    BY <1>4, ForkRightEs
  <2>2. pc[p] = "right" /\ p # Shell
    BY <1>4 DEF ForkRight, At, Known
  <2>3. Len(kids[p]) = 1 /\ cmd[p] \in Pipelines
    BY <2>2 DEF Known
  <2>4. cmd[p].right \in Commands /\ Len(kids[p]) < IF p = Shell THEN 1 ELSE 2
    BY <2>2, <2>3 DEF Pipelines
  <2>5. ShellType'
    BY <1>4, SameShell DEF ForkRight
  <2> QED
    BY <2>1, <2>4, <2>5, ForkStepType
<1> QED
  BY <1>2, <1>3, <1>4

\* p does something of its own: no process begins or ends
OwnStep(p) ==
    /\ Running(u, p)
    /\ u' \in UnixType /\ u'.state = u.state /\ u'.parent = u.parent
    /\ \A q \in Procs \ {p} :
          u'.fds[q] = u.fds[q] /\ pc'[q] = pc[q] /\ cmd'[q] = cmd[q] /\ pgid'[q] = pgid[q]
    /\ UNCHANGED <<raw, side, kids>> /\ UNCHANGED shellvars

LEMMA LeftEs ==
    ASSUME NEW x \in UnixType, NEW p \in Procs
    PROVE  \E f \in [Fds -> FdSet] :
              /\ Close(Dup2(Close(x, p, {"r"}), p, "w", "1"), p, {"w"}) = WithFds(x, p, f)
              /\ f["r"] = Closed /\ f["w"] = Closed /\ f["1"] = x.fds[p]["w"]
              /\ f["0"] = x.fds[p]["0"] /\ f["2"] = x.fds[p]["2"]
<1>1. "0" \in Fds /\ "1" \in Fds /\ "2" \in Fds /\ "r" \in Fds /\ "w" \in Fds
  BY FdsAssumption
<1>2. PICK f \in [Fds -> FdSet] : /\ Close(x, p, {"r"}) = WithFds(x, p, f)
                                  /\ \A d \in Fds : f[d] = IF d \in {"r"} THEN Closed ELSE x.fds[p][d]
  BY CloseIs
<1>3. PICK y : y = WithFds(x, p, f)
  OBVIOUS
<1>4. y \in UnixType /\ y.fds[p] = f
  BY <1>3, WithFdsEs
<1>5. PICK g \in [Fds -> FdSet] : /\ Dup2(y, p, "w", "1") = WithFds(y, p, g)
                                  /\ \A d \in Fds : g[d] = IF d = "1" THEN f["w"] ELSE f[d]
  <2>1. PICK g : Duplicates(y, p, "w", "1", g)
    BY <1>1, <1>4, Dup2Is
  <2> QED
    BY <1>4, <2>1 DEF Duplicates
<1>6. PICK z : z = WithFds(y, p, g)
  OBVIOUS
<1>7. z \in UnixType /\ z.fds[p] = g
  BY <1>4, <1>6, WithFdsEs
<1>8. PICK h \in [Fds -> FdSet] : /\ Close(z, p, {"w"}) = WithFds(z, p, h)
                                  /\ \A d \in Fds : h[d] = IF d \in {"w"} THEN Closed ELSE g[d]
  BY <1>7, CloseIs
<1>9. z = WithFds(x, p, g)
  BY <1>3, <1>6, TwiceIs
<1>10. WithFds(z, p, h) = WithFds(x, p, h)
  BY <1>9, TwiceIs
<1>11. Close(Dup2(Close(x, p, {"r"}), p, "w", "1"), p, {"w"}) = WithFds(x, p, h)
  BY <1>2, <1>3, <1>5, <1>6, <1>8, <1>10
<1>12. /\ h["r"] = Closed /\ h["w"] = Closed /\ h["1"] = x.fds[p]["w"]
       /\ h["0"] = x.fds[p]["0"] /\ h["2"] = x.fds[p]["2"]
  BY <1>1, <1>2, <1>5, <1>8
<1> QED
  BY <1>11, <1>12

LEMMA RightEs ==
    ASSUME NEW x \in UnixType, NEW p \in Procs
    PROVE  \E f \in [Fds -> FdSet] :
              /\ Close(Dup2(x, p, "r", "0"), p, {"r"}) = WithFds(x, p, f)
              /\ f["r"] = Closed /\ f["w"] = x.fds[p]["w"] /\ f["0"] = x.fds[p]["r"]
              /\ f["1"] = x.fds[p]["1"] /\ f["2"] = x.fds[p]["2"]
<1>1. "0" \in Fds /\ "1" \in Fds /\ "2" \in Fds /\ "r" \in Fds /\ "w" \in Fds
  BY FdsAssumption
<1>2. PICK f \in [Fds -> FdSet] : /\ Dup2(x, p, "r", "0") = WithFds(x, p, f)
                                  /\ \A d \in Fds : f[d] = IF d = "0" THEN x.fds[p]["r"] ELSE x.fds[p][d]
  <2>1. PICK f : Duplicates(x, p, "r", "0", f)
    BY <1>1, Dup2Is
  <2> QED
    BY <2>1 DEF Duplicates
<1>3. PICK y : y = WithFds(x, p, f)
  OBVIOUS
<1>4. y \in UnixType /\ y.fds[p] = f
  BY <1>3, WithFdsEs
<1>5. PICK g \in [Fds -> FdSet] : /\ Close(y, p, {"r"}) = WithFds(y, p, g)
                                  /\ \A d \in Fds : g[d] = IF d \in {"r"} THEN Closed ELSE f[d]
  BY <1>4, CloseIs
<1>6. Close(Dup2(x, p, "r", "0"), p, {"r"}) = WithFds(x, p, g)
  BY <1>2, <1>3, <1>5, TwiceIs
<1>7. /\ g["r"] = Closed /\ g["w"] = x.fds[p]["w"] /\ g["0"] = x.fds[p]["r"]
      /\ g["1"] = x.fds[p]["1"] /\ g["2"] = x.fds[p]["2"]
  BY <1>1, <1>2, <1>5
<1> QED
  BY <1>6, <1>7

LEMMA Kinds ==
    ASSUME NEW c
    PROVE  /\ c \in Simples => c.type \in {"EXEC", "BACK"} /\ c.prog \in Programs
           /\ c \in Redirections => c.type = "REDIR"
           /\ c \in Pipelines => /\ c.type = "PIPE"
                                 /\ c.left \in Commands /\ c.left \in Simples \cup Redirections
                                 /\ c.right \in Commands
           /\ c \in Opened => c.type = "EXEC"
           /\ c \in Commands => c \in Simples \cup Redirections \cup Pipelines
           /\ c \in Lines => c \in Commands
  BY CommandsAssumption DEF Simples, Redirections, Pipelines, Opened

LEMMA LabelsEs ==
    ASSUME NEW c
    PROVE  /\ c \in Simples => Labels[c.type] = "exec"
           /\ c \in Redirections => Labels[c.type] = "redir"
           /\ c \in Pipelines => Labels[c.type] = "pipe"
  BY Kinds DEF Labels

LEMMA OwnType ==
    ASSUME TypeOK, NEW p \in Procs, OwnStep(p), NEW label \in {"exec", "redir", "pipe", "prog"},
           pc' = [pc EXCEPT ![p] = label], cmd' \in [Procs -> Commands \cup Opened \cup {NoCmd}],
           pgid' \in [Procs -> Procs], sigchld' \subseteq Procs, todo' \in [Procs -> 0..Writes + 1]
    PROVE  TypeOK'
<1>1. u' \in UnixType /\ PcType /\ KidsType /\ RestType
  BY Typed DEF OwnStep
<1>2. PcType' /\ CmdType' /\ KidsType' /\ RestType'
  BY <1>1 DEF OwnStep, PcType, CmdType, KidsType, RestType
<1> QED
  BY <1>1, <1>2, SameShell, TypedNext DEF OwnStep

LEMMA BornEs ==
    ASSUME TypeOK, NEW p \in Procs, Known(p), Born(p)
    PROVE  /\ TypeOK' /\ OwnStep(p)
           /\ pc[p] = "born" /\ pc'[p] = Labels[cmd[p].type] /\ cmd'[p] = cmd[p]
           /\ pgid'[p] = IF side[p] = "run" /\ cmd[p].type = "BACK" THEN pgid[p] ELSE p
           /\ side[p] = "run" => u'.fds[p] = u.fds[p]
           /\ side[p] = "left" => /\ u'.fds[p]["r"] = Closed /\ u'.fds[p]["w"] = Closed
                                  /\ u'.fds[p]["1"] = u.fds[p]["w"]
                                  /\ u'.fds[p]["0"] = u.fds[p]["0"] /\ u'.fds[p]["2"] = u.fds[p]["2"]
           /\ side[p] = "right" => /\ u'.fds[p]["r"] = Closed /\ u'.fds[p]["w"] = u.fds[p]["w"]
                                   /\ u'.fds[p]["0"] = u.fds[p]["r"]
                                   /\ u'.fds[p]["1"] = u.fds[p]["1"] /\ u'.fds[p]["2"] = u.fds[p]["2"]
<1>1. u \in UnixType /\ PcType /\ CmdType /\ RestType
  BY Typed
<1>2. /\ Running(u, p) /\ pc[p] = "born" /\ u' = Ends2(p) /\ pc' = [pc EXCEPT ![p] = Labels[cmd[p].type]]
      /\ pgid' = [pgid EXCEPT ![p] = IF side[p] = "run" /\ cmd[p].type = "BACK" THEN @ ELSE p]
      /\ UNCHANGED <<raw, sigchld, cmd, side, kids, todo>> /\ UNCHANGED shellvars
  BY DEF Born, At, Goto
<1>3. \E f \in [Fds -> FdSet] :
         /\ u' = WithFds(u, p, f)
         /\ side[p] = "run" => f = u.fds[p]
         /\ side[p] = "left" => /\ f["r"] = Closed /\ f["w"] = Closed /\ f["1"] = u.fds[p]["w"]
                                /\ f["0"] = u.fds[p]["0"] /\ f["2"] = u.fds[p]["2"]
         /\ side[p] = "right" => /\ f["r"] = Closed /\ f["w"] = u.fds[p]["w"] /\ f["0"] = u.fds[p]["r"]
                                 /\ f["1"] = u.fds[p]["1"] /\ f["2"] = u.fds[p]["2"]
  <2>1. CASE side[p] = "left"
    <3>1. PICK f \in [Fds -> FdSet] :
              /\ Close(Dup2(Close(u, p, {"r"}), p, "w", "1"), p, {"w"}) = WithFds(u, p, f)
              /\ f["r"] = Closed /\ f["w"] = Closed /\ f["1"] = u.fds[p]["w"]
              /\ f["0"] = u.fds[p]["0"] /\ f["2"] = u.fds[p]["2"]
      BY <1>1, LeftEs
    <3> QED
      BY <1>2, <2>1, <3>1 DEF Ends2
  <2>2. CASE side[p] = "right"
    <3>1. PICK f \in [Fds -> FdSet] :
              /\ Close(Dup2(u, p, "r", "0"), p, {"r"}) = WithFds(u, p, f)
              /\ f["r"] = Closed /\ f["w"] = u.fds[p]["w"] /\ f["0"] = u.fds[p]["r"]
              /\ f["1"] = u.fds[p]["1"] /\ f["2"] = u.fds[p]["2"]
      BY <1>1, RightEs
    <3> QED
      BY <1>2, <2>2, <3>1 DEF Ends2
  <2>3. CASE side[p] = "run"
    <3>1. u.fds[p] \in [Fds -> FdSet] /\ u = WithFds(u, p, u.fds[p])
      BY <1>1, Fields DEF WithFds, UnixType
    <3> QED
      BY <1>2, <2>3, <3>1 DEF Ends2
  <2> QED
    BY <1>1, <2>1, <2>2, <2>3 DEF RestType
<1>4. PICK f \in [Fds -> FdSet] :
         /\ u' = WithFds(u, p, f)
         /\ side[p] = "run" => f = u.fds[p]
         /\ side[p] = "left" => /\ f["r"] = Closed /\ f["w"] = Closed /\ f["1"] = u.fds[p]["w"]
                                /\ f["0"] = u.fds[p]["0"] /\ f["2"] = u.fds[p]["2"]
         /\ side[p] = "right" => /\ f["r"] = Closed /\ f["w"] = u.fds[p]["w"] /\ f["0"] = u.fds[p]["r"]
                                 /\ f["1"] = u.fds[p]["1"] /\ f["2"] = u.fds[p]["2"]
  BY <1>3
<1>5. /\ u' \in UnixType /\ u'.state = u.state /\ u'.parent = u.parent /\ u'.fds[p] = f
      /\ \A q \in Procs \ {p} : u'.fds[q] = u.fds[q]
  BY <1>1, <1>4, WithFdsEs
<1>6. pgid' \in [Procs -> Procs] /\ pgid'[p] = IF side[p] = "run" /\ cmd[p].type = "BACK" THEN pgid[p] ELSE p
  BY <1>1, <1>2 DEF RestType
<1>7. OwnStep(p)
  BY <1>1, <1>2, <1>5 DEF OwnStep, PcType, RestType
<1>8. Labels[cmd[p].type] \in {"exec", "redir", "pipe"}
  BY <1>2, Kinds, LabelsEs DEF Known
<1>9. TypeOK'
  <2>1. /\ sigchld' \subseteq Procs /\ todo' \in [Procs -> 0..Writes + 1]
        /\ cmd' \in [Procs -> Commands \cup Opened \cup {NoCmd}]
    BY <1>1, <1>2 DEF RestType, CmdType
  <2> QED
    BY <1>2, <1>6, <1>7, <1>8, <2>1, OwnType
<1>10. pc'[p] = Labels[cmd[p].type] /\ cmd'[p] = cmd[p]
  BY <1>1, <1>2 DEF PcType
<1> QED
  BY <1>2, <1>4, <1>5, <1>6, <1>7, <1>9, <1>10

LEMMA RedirEs ==
    ASSUME TypeOK, NEW p \in Procs, Known(p), Redir(p)
    PROVE  /\ TypeOK' /\ OwnStep(p)
           /\ pc[p] = "redir" /\ pc'[p] = "exec" /\ cmd[p] \in Redirections /\ ~CannotOpen(cmd[p])
           /\ cmd'[p] \in Opened /\ cmd'[p].prog = cmd[p].prog /\ pgid'[p] = pgid[p]
           /\ u'.fds[p]["r"] = u.fds[p]["r"] /\ u'.fds[p]["w"] = u.fds[p]["w"]
           /\ u'.fds[p]["0"] \in {Plain, u.fds[p]["0"]} /\ u'.fds[p]["1"] \in {Plain, u.fds[p]["1"]}
           /\ u'.fds[p]["2"] \in {Plain, u.fds[p]["2"], u'.fds[p]["1"]}
<1>1. u \in UnixType /\ PcType /\ CmdType /\ RestType
  BY Typed
<1>2. /\ Running(u, p) /\ pc[p] = "redir" /\ ~CannotOpen(cmd[p]) /\ u' = Redirected(p)
      /\ cmd' = [cmd EXCEPT ![p].type = "EXEC"] /\ pc' = [pc EXCEPT ![p] = "exec"]
      /\ UNCHANGED <<pgid, raw, sigchld, side, kids, todo>> /\ UNCHANGED shellvars
  BY DEF Redir, At, Goto
<1>3. cmd[p] \in Redirections
  BY <1>2 DEF Known
<1>4. PICK d : d = [cmd[p] EXCEPT !.type = "EXEC"]
  OBVIOUS
<1>5. d \in Opened /\ d.prog = cmd[p].prog
  BY <1>3, <1>4 DEF Redirections, Opened
<1>6. cmd' = [cmd EXCEPT ![p] = d]
  BY <1>2, <1>4
<1>7. cmd'[p] = d /\ cmd' \in [Procs -> Commands \cup Opened \cup {NoCmd}] /\ \A q \in Procs \ {p} : cmd'[q] = cmd[q]
  BY <1>1, <1>5, <1>6 DEF CmdType
<1>8. /\ "0" \in Fds /\ "1" \in Fds /\ "2" \in Fds /\ "r" \in Fds /\ "w" \in Fds
      /\ u.fds[p] \in [Fds -> FdSet] /\ Plain \in FdSet
  BY <1>1, FdsAssumption, Fields, FdsDiffer
<1>9. PICK in, out, err : /\ in = IF cmd[p].in = "" THEN u.fds[p]["0"] ELSE Plain
                          /\ out = IF cmd[p].out = "" THEN u.fds[p]["1"] ELSE Plain
                          /\ err = IF cmd[p].err = "" THEN u.fds[p]["2"]
                                   ELSE IF cmd[p].err = "&1" THEN out ELSE Plain
  OBVIOUS
<1>10. /\ in \in {Plain, u.fds[p]["0"]} /\ out \in {Plain, u.fds[p]["1"]}
       /\ err \in {Plain, u.fds[p]["2"], out} /\ in \in FdSet /\ out \in FdSet /\ err \in FdSet
  BY <1>8, <1>9
<1>11. PICK f : f = [u.fds[p] EXCEPT !["0"] = in, !["1"] = out, !["2"] = err]
  OBVIOUS
<1>12. /\ f \in [Fds -> FdSet] /\ f["0"] = in /\ f["1"] = out /\ f["2"] = err
       /\ f["r"] = u.fds[p]["r"] /\ f["w"] = u.fds[p]["w"]
  BY <1>8, <1>10, <1>11
<1>13. u' = WithFds(u, p, f)
  <2>1. Redirected(p) = [u EXCEPT !.fds[p] = [@ EXCEPT !["0"] = in, !["1"] = out, !["2"] = err]]
    BY <1>9 DEF Redirected
  <2> QED
    BY <1>1, <1>2, <1>11, <2>1, Fields DEF WithFds, UnixType
<1>14. /\ u' \in UnixType /\ u'.state = u.state /\ u'.parent = u.parent /\ u'.fds[p] = f
       /\ \A q \in Procs \ {p} : u'.fds[q] = u.fds[q]
  BY <1>1, <1>12, <1>13, WithFdsEs
<1>15. OwnStep(p)
  BY <1>1, <1>2, <1>7, <1>14 DEF OwnStep, PcType
<1>16. TypeOK'
  <2>1. sigchld' \subseteq Procs /\ todo' \in [Procs -> 0..Writes + 1] /\ pgid' \in [Procs -> Procs]
    BY <1>1, <1>2 DEF RestType
  <2> QED
    BY <1>2, <1>7, <1>15, <2>1, OwnType
<1>17. pc'[p] = "exec" /\ pgid'[p] = pgid[p]
  BY <1>1, <1>2 DEF PcType
<1> QED
  BY <1>2, <1>3, <1>5, <1>7, <1>10, <1>12, <1>14, <1>15, <1>16, <1>17

LEMMA ExecEs ==
    ASSUME TypeOK, NEW p \in Procs, Exec(p)
    PROVE  /\ TypeOK' /\ OwnStep(p)
           /\ pc[p] = "exec" /\ pc'[p] = "prog" /\ cmd'[p] = cmd[p] /\ cmd[p].prog # "missing"
           /\ pgid'[p] = pgid[p] /\ u' = u
<1>1. u \in UnixType /\ PcType /\ CmdType /\ RestType
  BY Typed
<1>2. /\ Running(u, p) /\ pc[p] = "exec" /\ cmd[p].prog # "missing" /\ pc' = [pc EXCEPT ![p] = "prog"]
      /\ todo' = [todo EXCEPT ![p] = IF cmd[p].prog = "source" THEN Writes ELSE 0]
      /\ sigchld' = sigchld \ {p}
      /\ UNCHANGED <<u, pgid, raw, cmd, side, kids>> /\ UNCHANGED shellvars
  BY DEF Exec, At, Goto
<1>3. OwnStep(p)
  BY <1>1, <1>2 DEF OwnStep, PcType
<1>4. /\ sigchld' \subseteq Procs /\ todo' \in [Procs -> 0..Writes + 1] /\ pgid' \in [Procs -> Procs]
      /\ cmd' \in [Procs -> Commands \cup Opened \cup {NoCmd}]
  BY <1>1, <1>2, BoundsAssumption DEF RestType, CmdType
<1>5. TypeOK'
  BY <1>2, <1>3, <1>4, OwnType
<1> QED
  BY <1>1, <1>2, <1>3, <1>5 DEF PcType

LEMMA ProgEs ==
    ASSUME TypeOK, NEW p \in Procs, ProgWrite(p) \/ ProgRead(p)
    PROVE  /\ TypeOK' /\ OwnStep(p)
           /\ pc[p] = "prog" /\ pc'[p] = "prog" /\ cmd'[p] = cmd[p] /\ pgid'[p] = pgid[p]
           /\ u'.fds = u.fds
<1>1. u \in UnixType /\ PcType /\ CmdType /\ RestType /\ "0" \in Fds /\ "1" \in Fds
  BY Typed, FdsAssumption
<1>2. /\ Running(u, p) /\ pc[p] = "prog"
      /\ UNCHANGED <<pgid, raw, sigchld, pc, cmd, side, kids>> /\ UNCHANGED shellvars
  BY DEF ProgWrite, ProgRead, At
<1>3. u' \in UnixType /\ u'.state = u.state /\ u'.parent = u.parent /\ u'.fds = u.fds
  <2>1. CASE ProgWrite(p)
    <3>1. u' = Write(u, p, "1", 0)
      BY <2>1 DEF ProgWrite
    <3> QED
      BY <1>1, <3>1, PipeData
  <2>2. CASE ProgRead(p)
    <3>1. u' = Read(u, p, "0") /\ CanRead(u, p, "0")
      BY <2>2 DEF ProgRead
    <3> QED
      BY <1>1, <3>1, PipeData
  <2> QED
    BY <2>1, <2>2
<1>4. todo' \in [Procs -> 0..Writes + 1]
  <2>1. CASE ProgWrite(p)
    BY <1>1, <2>1, BoundsAssumption DEF ProgWrite, RestType
  <2>2. CASE ProgRead(p)
    BY <1>1, <2>2, BoundsAssumption DEF ProgRead, RestType
  <2> QED
    BY <2>1, <2>2
<1>5. OwnStep(p)
  BY <1>2, <1>3 DEF OwnStep
<1>6. pc' = [pc EXCEPT ![p] = "prog"]
  BY <1>1, <1>2 DEF PcType
<1>7. TypeOK'
  <2>1. /\ sigchld' \subseteq Procs /\ pgid' \in [Procs -> Procs]
        /\ cmd' \in [Procs -> Commands \cup Opened \cup {NoCmd}]
    BY <1>1, <1>2 DEF RestType, CmdType
  <2> QED
    BY <1>4, <1>5, <1>6, <2>1, OwnType
<1> QED
  BY <1>2, <1>3, <1>5, <1>7

\* p ends with wait status w
EndStep(p, w) ==
    /\ Running(u, p)
    /\ \A q \in Procs \ {p} : u'.fds[q] = u.fds[q]
    /\ \A q \in Procs : u'.state[q] =
          IF u.parent[q] = p /\ u.state[q] = "zombie" THEN "none"
          ELSE IF q = p THEN (IF u.parent[p] = InitProc THEN "none" ELSE "zombie")
          ELSE u.state[q]
    /\ \A q \in Procs : u'.parent[q] =
          IF u.parent[q] = p \/ (q = p /\ u.parent[p] = InitProc) THEN InitProc ELSE u.parent[q]
    /\ \A q \in Procs \ {p} : /\ pc'[q] = pc[q] /\ cmd'[q] = cmd[q] /\ side'[q] = side[q] /\ kids'[q] = kids[q]
                              /\ pgid'[q] = pgid[q] /\ raw'[q] = raw[q]
    /\ pc'[p] = "ended" /\ side'[p] = "run" /\ kids'[p] = <<>>
    /\ raw'[p] = (IF u.parent[p] = InitProc THEN 0 ELSE w)
    /\ pgid'[p] = (IF u.parent[p] = InitProc THEN p ELSE pgid[p])

LEMMA EndedEs ==
    ASSUME TypeOK, NEW p \in Procs, NEW w \in Raws, Running(u, p), Ended(p, u, w)
    PROVE  EndStep(p, w)
<1>1. u \in UnixType /\ PcType /\ CmdType /\ KidsType /\ RestType
  BY Typed
<1>2. /\ u' = Exit(u, p)
      /\ raw' = [raw EXCEPT ![p] = IF u.parent[p] = InitProc THEN 0 ELSE w]
      /\ pgid' = [pgid EXCEPT ![p] = IF u.parent[p] = InitProc THEN p ELSE @]
      /\ cmd' = [cmd EXCEPT ![p] = NoCmd] /\ side' = [side EXCEPT ![p] = "run"]
      /\ kids' = [kids EXCEPT ![p] = <<>>] /\ pc' = [pc EXCEPT ![p] = "ended"]
  BY DEF Ended, Goto
<1>3. /\ \A q \in Procs \ {p} : /\ pc'[q] = pc[q] /\ cmd'[q] = cmd[q] /\ side'[q] = side[q]
                                /\ kids'[q] = kids[q] /\ pgid'[q] = pgid[q] /\ raw'[q] = raw[q]
      /\ pc'[p] = "ended" /\ side'[p] = "run" /\ kids'[p] = <<>>
  BY <1>1, <1>2 DEF PcType, CmdType, KidsType, RestType
<1>4. /\ raw'[p] = (IF u.parent[p] = InitProc THEN 0 ELSE w)
      /\ pgid'[p] = (IF u.parent[p] = InitProc THEN p ELSE pgid[p])
  BY <1>1, <1>2 DEF RestType
<1>5. /\ \A q \in Procs \ {p} : u'.fds[q] = u.fds[q]
      /\ \A q \in Procs : u'.state[q] =
            IF u.parent[q] = p /\ u.state[q] = "zombie" THEN "none"
            ELSE IF q = p THEN (IF u.parent[p] = InitProc THEN "none" ELSE "zombie")
            ELSE u.state[q]
      /\ \A q \in Procs : u'.parent[q] =
            IF u.parent[q] = p \/ (q = p /\ u.parent[p] = InitProc) THEN InitProc ELSE u.parent[q]
  <2>1. PICK y : y = Exit(u, p)
    OBVIOUS
  <2>2. /\ \A q \in Procs \ {p} : y.fds[q] = u.fds[q]
        /\ \A q \in Procs : y.state[q] =
              IF u.parent[q] = p /\ u.state[q] = "zombie" THEN "none"
              ELSE IF q = p THEN (IF u.parent[p] = InitProc THEN "none" ELSE "zombie")
              ELSE u.state[q]
        /\ \A q \in Procs : y.parent[q] =
              IF u.parent[q] = p \/ (q = p /\ u.parent[p] = InitProc) THEN InitProc ELSE u.parent[q]
    BY <1>1, <2>1, ExitEs
  <2> QED
    BY <1>2, <2>1, <2>2
<1> QED
  BY <1>3, <1>4, <1>5 DEF EndStep

Dies(p) == RedirFails(p) \/ ExecFails(p) \/ PipeEnds(p) \/ ProgSigpipe(p) \/ ProgEnds(p)

LEMMA DiesEs ==
    ASSUME TypeOK, NEW p \in Procs, Dies(p)
    PROVE  /\ TypeOK' /\ UNCHANGED shellvars
           /\ \E w \in Raws : /\ EndStep(p, w)
                              /\ \/ pc[p] = "redir" /\ CannotOpen(cmd[p]) /\ w = ERROR * 256
                                 \/ pc[p] = "exec" /\ cmd[p].prog = "missing" /\ w = ERROR * 256
                                 \/ p # Shell /\ pc[p] = "wait" /\ kids[p] = <<>> /\ w = 0
                                 \/ pc[p] = "prog" /\ Broken(u, p, "1") /\ w = SIGPIPE
                                 \/ pc[p] = "prog" /\ cmd[p].prog = "crash" /\ w = SIGABRT
                                 \/ pc[p] = "prog" /\ cmd[p].prog # "crash" /\ w = 0
<1>1. ERROR * 256 \in Raws /\ 0 \in Raws /\ SIGPIPE \in Raws /\ SIGABRT \in Raws
  BY DEF Raws
<1>2. PICK w \in Raws :
         /\ Running(u, p) /\ Ended(p, u, w) /\ UNCHANGED shellvars
         /\ \/ pc[p] = "redir" /\ CannotOpen(cmd[p]) /\ w = ERROR * 256
            \/ pc[p] = "exec" /\ cmd[p].prog = "missing" /\ w = ERROR * 256
            \/ p # Shell /\ pc[p] = "wait" /\ kids[p] = <<>> /\ w = 0
            \/ pc[p] = "prog" /\ Broken(u, p, "1") /\ w = SIGPIPE
            \/ pc[p] = "prog" /\ cmd[p].prog = "crash" /\ w = SIGABRT
            \/ pc[p] = "prog" /\ cmd[p].prog # "crash" /\ w = 0
  <2>1. CASE RedirFails(p)
    BY <1>1, <2>1 DEF RedirFails, At
  <2>2. CASE ExecFails(p)
    BY <1>1, <2>2 DEF ExecFails, At
  <2>3. CASE PipeEnds(p)
    BY <1>1, <2>3 DEF PipeEnds, At
  <2>4. CASE ProgSigpipe(p)
    BY <1>1, <2>4 DEF ProgSigpipe, At
  <2>5. CASE ProgEnds(p)
    BY <1>1, <2>5 DEF ProgEnds, At
  <2> QED
    BY <2>1, <2>2, <2>3, <2>4, <2>5 DEF Dies
<1>3. EndStep(p, w)
  BY <1>2, EndedEs
<1>4. TypeOK'
  BY <1>2, SameShell, EndedType
<1> QED
  BY <1>2, <1>3, <1>4

LEMMA PipeForkFailsEs ==
    ASSUME TypeOK, NEW p \in Procs, PipeForkFails(p)
    PROVE  /\ TypeOK' /\ EndStep(p, SIGSEGV) /\ pc[p] \in {"pipe", "right"}
           /\ failed' = TRUE /\ last' = NoCmd /\ status' = status
<1>1. /\ Running(u, p) /\ Ended(p, u, SIGSEGV) /\ pc[p] \in {"pipe", "right"}
      /\ failed' = TRUE /\ last' = NoCmd /\ UNCHANGED <<status, lines>>
  BY DEF PipeForkFails, At
<1>2. SIGSEGV \in Raws
  BY DEF Raws
<1>3. ShellType'
  BY <1>1, Typed DEF ShellType
<1> QED
  BY <1>1, <1>2, <1>3, EndedEs, EndedType

LEMMA ShellEndsEs ==
    ASSUME TypeOK, ShellEnds
    PROVE  TypeOK' /\ EndStep(Shell, 0) /\ pc[Shell] = "prompt" /\ UNCHANGED shellvars
<1>1. Running(u, Shell) /\ Ended(Shell, u, 0) /\ pc[Shell] = "prompt" /\ UNCHANGED shellvars
  BY DEF ShellEnds, At
<1>2. 0 \in Raws
  BY DEF Raws
<1> QED
  BY <1>1, <1>2, SameShell, EndedEs, EndedType, ShellAssumption

\* The zombies in S are waited for
ReapStep(S) ==
    /\ \A q \in Procs : q \in S => u.state[q] = "zombie"
    /\ u'.fds = u.fds
    /\ \A q \in Procs : u'.state[q] = IF q \in S THEN "none" ELSE u.state[q]
    /\ \A q \in Procs : u'.parent[q] = IF q \in S THEN InitProc ELSE u.parent[q]
    /\ \A q \in Procs : pgid'[q] = IF q \in S THEN q ELSE pgid[q]
    /\ \A q \in Procs : raw'[q] = IF q \in S THEN 0 ELSE raw[q]
    /\ UNCHANGED side

LEMMA CollectedEs ==
    ASSUME TypeOK, NEW S, Collected(S), \A q \in Procs : q \in S => u.state[q] = "zombie", UNCHANGED side
    PROVE  ReapStep(S)
<1>1. PICK y : y = ReapAll(u, S)
  OBVIOUS
<1>2. /\ y.fds = u.fds
      /\ \A q \in Procs : y.state[q] = IF q \in S THEN "none" ELSE u.state[q]
      /\ \A q \in Procs : y.parent[q] = IF q \in S THEN InitProc ELSE u.parent[q]
  BY <1>1, ReapAllEs, Typed
<1>3. u' = y /\ pgid' = [c \in Procs |-> IF c \in S THEN c ELSE pgid[c]]
      /\ raw' = [c \in Procs |-> IF c \in S THEN 0 ELSE raw[c]]
  BY <1>1 DEF Collected
<1> QED
  BY <1>2, <1>3 DEF ReapStep

LEMMA HandlerEs ==
    ASSUME TypeOK, NEW p \in Procs, Handler(p)
    PROVE  \E S : /\ ReapStep(S) /\ UNCHANGED <<pc, cmd, kids>> /\ UNCHANGED shellvars
                  /\ \A c \in S : u.parent[c] = p /\ pgid[c] = pgid[p]
<1>1. PICK S : S = {c \in Zombies(p) : pgid[c] = pgid[p]}
  OBVIOUS
<1>2. \A c \in S : u.parent[c] = p /\ pgid[c] = pgid[p] /\ u.state[c] = "zombie"
  BY <1>1 DEF Zombies, Children
<1>3. Collected(S) /\ UNCHANGED <<pc, cmd, side, kids, todo>> /\ UNCHANGED shellvars
  BY <1>1 DEF Handler
<1> QED
  BY <1>2, <1>3, CollectedEs

LEMMA WaitSideEs ==
    ASSUME TypeOK, NEW p \in Procs, WaitSide(p)
    PROVE  /\ ReapStep({Head(kids[p])}) /\ u.parent[Head(kids[p])] = p /\ u.state[Head(kids[p])] = "zombie"
           /\ p # Shell /\ pc[p] = "wait" /\ Running(u, p) /\ kids[p] # <<>>
           /\ kids' = [kids EXCEPT ![p] = Tail(kids[p])]
           /\ UNCHANGED <<pc, cmd>> /\ UNCHANGED shellvars
<1>1. PICK c : c = Head(kids[p])
  OBVIOUS
<1>2. /\ Collected({c}) /\ u.parent[c] = p /\ u.state[c] = "zombie" /\ UNCHANGED side
      /\ p # Shell /\ pc[p] = "wait" /\ Running(u, p) /\ kids[p] # <<>>
      /\ kids' = [kids EXCEPT ![p] = Tail(kids[p])]
      /\ UNCHANGED <<pc, cmd>> /\ UNCHANGED shellvars
  BY <1>1 DEF WaitSide, At, Zombies, Children
<1>3. ReapStep({c})
  BY <1>2, CollectedEs
<1> QED
  BY <1>1, <1>2, <1>3

LEMMA ForegroundEs ==
    ASSUME TypeOK, WaitForeground
    PROVE  LET c == Head(kids[Shell])
           IN  /\ ReapStep({c} \cap Zombies(Shell))
               /\ pc[Shell] = "wait" /\ Running(u, Shell)
               /\ c \notin Children(u, Shell) \/ u.state[c] = "zombie"
               /\ status' = Decoded(last, IF c \notin Children(u, Shell) THEN status ELSE raw[c])
               /\ kids' = [kids EXCEPT ![Shell] = <<>>] /\ pc' = [pc EXCEPT ![Shell] = "prompt"]
               /\ UNCHANGED <<cmd, last, failed>>
<1>1. PICK c, S : c = Head(kids[Shell]) /\ S = {c} \cap Zombies(Shell)
  OBVIOUS
<1>2. /\ Collected(S) /\ UNCHANGED side /\ pc[Shell] = "wait" /\ Running(u, Shell)
      /\ c \notin Children(u, Shell) \/ u.state[c] = "zombie"
      /\ status' = Decoded(last, IF c \notin Children(u, Shell) THEN status ELSE raw[c])
      /\ kids' = [kids EXCEPT ![Shell] = <<>>] /\ pc' = [pc EXCEPT ![Shell] = "prompt"]
      /\ UNCHANGED <<cmd, last, failed>>
  BY <1>1 DEF WaitForeground, At, Goto, Zombies
<1>3. \A q \in Procs : q \in S => u.state[q] = "zombie"
  BY <1>1 DEF Zombies
<1>4. ReapStep(S)
  BY <1>2, <1>3, CollectedEs
<1> QED
  BY <1>1, <1>2, <1>4

LEMMA WaitAnyEs ==
    ASSUME TypeOK, WaitAny
    PROVE  /\ \E S : ReapStep(S)
           /\ pc[Shell] = "waitany" /\ Running(u, Shell)
           /\ cmd' = [cmd EXCEPT ![Shell] = NoCmd] /\ pc' = [pc EXCEPT ![Shell] = "prompt"]
           /\ UNCHANGED <<side, kids, last, failed>>
<1>1. /\ pc[Shell] = "waitany" /\ Running(u, Shell)
      /\ cmd' = [cmd EXCEPT ![Shell] = NoCmd] /\ pc' = [pc EXCEPT ![Shell] = "prompt"]
      /\ UNCHANGED <<side, kids, last, failed>>
  BY DEF WaitAny, At, Goto
<1>2. \E S : ReapStep(S)
  <2>1. CASE UNCHANGED <<u, pgid, raw>>
    <3>1. ReapStep({})
      BY <1>1, <2>1 DEF ReapStep
    <3> QED
      BY <3>1
  <2>2. CASE \E c \in Zombies(Shell) : Collected({c})
    <3>1. PICK c \in Zombies(Shell) : Collected({c})
      BY <2>2
    <3>2. ReapStep({c})
      BY <1>1, <3>1, CollectedEs DEF Zombies
    <3> QED
      BY <3>2
  <2> QED
    BY <2>1, <2>2 DEF WaitAny
<1> QED
  BY <1>1, <1>2

LEMMA NextType ==
    ASSUME TypeOK, \A p \in Procs : Known(p), Next
    PROVE  TypeOK'
<1>1. ASSUME NEW p \in Procs, Step(p)
      PROVE  TypeOK'
  <2>1. CASE Dies(p)
    BY <2>1, DiesEs
  <2>2. CASE Handler(p)
    BY <2>2, HandlerType
  <2>3. CASE Born(p)
    BY <2>3, BornEs
  <2>4. CASE Redir(p)
    BY <2>4, RedirEs
  <2>5. CASE Exec(p)
    BY <2>5, ExecEs
  <2>6. CASE ForkLeft(p) \/ ForkRight(p)
    BY <2>6, ForkTypes
  <2>7. CASE PipeForkFails(p)
    BY <2>7, PipeForkFailsEs
  <2>8. CASE WaitSide(p)
    BY <2>8, WaitSideType
  <2>9. CASE ProgWrite(p) \/ ProgRead(p)
    BY <2>9, ProgEs
  <2> QED
    BY <1>1, <2>1, <2>2, <2>3, <2>4, <2>5, <2>6, <2>7, <2>8, <2>9 DEF Step, Dies
<1>2. ASSUME NEW c \in Lines, RunCmd(c) \/ RunCmdFails(c)
      PROVE  TypeOK'
  BY <1>2, ForkTypes, RunCmdFailsType, ShellAssumption
<1>3. CASE WaitForeground \/ WaitAny
  BY <1>3, ForegroundType, WaitAnyType, ShellAssumption
<1>4. CASE ShellEnds
  BY <1>4, ShellEndsEs
<1> QED
  BY <1>1, <1>2, <1>3, <1>4 DEF Next, User, System

-----------------------------------------------------------------------------
(***************************************************************************)
(* What holds of each process by itself.                                   *)
(***************************************************************************)

LEMMA LocalFrame ==
    ASSUME NEW q \in Procs, Local(q), pc'[q] = pc[q], cmd'[q] = cmd[q], side'[q] = side[q],
           kids'[q] = kids[q], u'.fds[q] = u.fds[q],
           u'.state[q] = "running" <=> u.state[q] = "running"
    PROVE  Local(q)'
<1>1. Known(q)'
  BY DEF Local, Known
<1>2. Running(u, q)' <=> Running(u, q)
  BY DEF Running
<1>3. Standard(q)' <=> Standard(q)
  BY DEF Standard
<1>4. Between(q)' <=> Between(q)
  BY DEF Between, Apart
<1> QED
  BY <1>1, <1>2, <1>3, <1>4 DEF Local

\* A process that has ended
LEMMA LocalEnded ==
    ASSUME NEW q \in Procs, u'.state[q] # "running", pc'[q] = "ended", kids'[q] = <<>>, side'[q] = "run"
    PROVE  Local(q)'
  BY DEF Local, Known, Running

LEMMA StdNames == Std = {"0", "1", "2"} /\ "0" \in Std /\ "1" \in Std /\ "2" \in Std
  BY DEF Std

LEMMA RunningIs == ASSUME NEW x, NEW p PROVE Running(x, p) <=> x.state[p] = "running"
  BY DEF Running

LEMMA ReapLocal ==
    ASSUME \A q \in Procs : Local(q), NEW S, ReapStep(S), UNCHANGED <<pc, cmd, kids>>
    PROVE  \A q \in Procs : Local(q)'
<1> SUFFICES ASSUME NEW q \in Procs
             PROVE  Local(q)'
  OBVIOUS
<1>1. /\ pc'[q] = pc[q] /\ cmd'[q] = cmd[q] /\ side'[q] = side[q] /\ kids'[q] = kids[q] /\ u'.fds[q] = u.fds[q]
      /\ u'.state[q] = "running" <=> u.state[q] = "running"
  BY DEF ReapStep
<1> QED
  BY <1>1, LocalFrame

LEMMA EndLocal ==
    ASSUME \A q \in Procs : Local(q), NEW p \in Procs, NEW w, EndStep(p, w)
    PROVE  \A q \in Procs : Local(q)'
<1>1. ASSUME NEW q \in Procs \ {p}
      PROVE  Local(q)'
  <2>1. /\ pc'[q] = pc[q] /\ cmd'[q] = cmd[q] /\ side'[q] = side[q] /\ kids'[q] = kids[q] /\ u'.fds[q] = u.fds[q]
        /\ u'.state[q] = "running" <=> u.state[q] = "running"
    BY DEF EndStep
  <2> QED
    BY <2>1, LocalFrame
<1>2. Local(p)'
  <2>1. u'.state[p] # "running" /\ pc'[p] = "ended" /\ kids'[p] = <<>> /\ side'[p] = "run"
    BY RunningIs DEF EndStep
  <2> QED
    BY <2>1, LocalEnded
<1> QED
  BY <1>1, <1>2

LEMMA OwnOthersLocal ==
    ASSUME \A q \in Procs : Local(q), NEW p \in Procs, OwnStep(p)
    PROVE  \A q \in Procs \ {p} : Local(q)'
<1> SUFFICES ASSUME NEW q \in Procs \ {p}
             PROVE  Local(q)'
  OBVIOUS
<1>1. /\ pc'[q] = pc[q] /\ cmd'[q] = cmd[q] /\ side'[q] = side[q] /\ kids'[q] = kids[q] /\ u'.fds[q] = u.fds[q]
      /\ u'.state[q] = "running" <=> u.state[q] = "running"
  BY DEF OwnStep
<1> QED
  BY <1>1, LocalFrame

LEMMA BornLocal ==
    ASSUME TypeOK, \A q \in Procs : Local(q), NEW p \in Procs, Born(p)
    PROVE  \A q \in Procs : Local(q)'
<1>1. Known(p) /\ pc[p] = "born" /\ Running(u, p) /\ Standard(p) /\ Between(p)
  BY DEF Local, Born, At
<1>2. OwnStep(p) /\ pc'[p] = Labels[cmd[p].type] /\ cmd'[p] = cmd[p]
  BY <1>1, BornEs
<1>3. PICK f, g : f = u.fds[p] /\ g = u'.fds[p]
  OBVIOUS
<1>4. /\ side[p] = "run" => g = f
      /\ side[p] = "left" => /\ g["r"] = Closed /\ g["w"] = Closed /\ g["1"] = f["w"]
                             /\ g["0"] = f["0"] /\ g["2"] = f["2"]
      /\ side[p] = "right" => /\ g["r"] = Closed /\ g["w"] = f["w"] /\ g["0"] = f["r"]
                              /\ g["1"] = f["1"] /\ g["2"] = f["2"]
  BY <1>1, <1>3, BornEs
<1>5. p # Shell /\ cmd[p] \in Commands /\ kids[p] = <<>> /\ side[p] \in {"run", "left", "right"}
  BY <1>1, Typed DEF Known, RestType
<1>6. Known(p)'
  <2>1. pc'[p] \in {"exec", "redir", "pipe"}
    BY <1>2, <1>5, Kinds, LabelsEs
  <2>2. /\ pc'[p] = "exec" => cmd[p] \in Simples
        /\ pc'[p] = "redir" => cmd[p] \in Redirections
        /\ pc'[p] = "pipe" => cmd[p] \in Pipelines
    BY <1>2, <1>5, Kinds, LabelsEs
  <2>3. u'.state[p] = "running" /\ kids'[p] = <<>>
    BY <1>2, <1>5, RunningIs DEF OwnStep
  <2> QED
    BY <1>2, <1>5, <2>1, <2>2, <2>3 DEF Known
<1>7. side'[p] = side[p] /\ pc'[p] \in {"exec", "redir", "pipe"}
  BY <1>2, <1>5, Kinds, LabelsEs DEF OwnStep
<1>8. Standard(p)' /\ Between(p)'
  <2>1. CASE side[p] = "run"
    <3>1. Standard(p)'
      BY <1>1, <1>3, <1>4, <1>7, <2>1 DEF Standard
    <3>2. g["r"] = Closed /\ g["w"] = Closed
      BY <1>1, <1>3, <1>4, <2>1 DEF Between
    <3> QED
      BY <1>3, <1>7, <3>1, <3>2 DEF Between
  <2>2. CASE side[p] = "left"
    <3>1. PICK k \in Pipes : f["r"] = End(k, "r") /\ f["w"] = End(k, "w") /\ Apart(p, k)
      BY <1>1, <1>3, <2>2 DEF Between
    <3>2. g["0"] # End(k, "r") /\ g["1"] = End(k, "w")
      BY <1>3, <1>4, <2>2, <3>1, StdNames DEF Apart
    <3>3. /\ g["0"] = Plain \/ \E j \in Pipes : g["0"] = End(j, "r")
          /\ g["2"] = Plain \/ \E j \in Pipes : g["2"] = End(j, "w")
          /\ \A j \in Pipes : g["0"] = End(j, "r") => g["2"] # End(j, "w")
      BY <1>1, <1>3, <1>4, <2>2 DEF Standard
    <3>4. \A j \in Pipes : g["0"] = End(j, "r") => g["1"] # End(j, "w")
      BY <3>2, EndsDiffer
    <3>5. Standard(p)'
      BY <1>3, <1>7, <2>2, <3>2, <3>3, <3>4 DEF Standard
    <3> QED
      BY <1>3, <1>4, <1>7, <2>2, <3>5 DEF Between
  <2>3. CASE side[p] = "right"
    <3>1. PICK k \in Pipes : f["r"] = End(k, "r") /\ f["w"] = Closed /\ Apart(p, k)
      BY <1>1, <1>3, <2>3 DEF Between
    <3>2. g["0"] = End(k, "r") /\ g["1"] # End(k, "w") /\ g["2"] # End(k, "w")
      BY <1>3, <1>4, <2>3, <3>1, StdNames DEF Apart
    <3>3. /\ g["1"] = Plain \/ \E j \in Pipes : g["1"] = End(j, "w")
          /\ g["2"] = Plain \/ \E j \in Pipes : g["2"] = End(j, "w")
      BY <1>1, <1>3, <1>4, <2>3 DEF Standard
    <3>4. \A j \in Pipes : g["0"] = End(j, "r") => g["1"] # End(j, "w") /\ g["2"] # End(j, "w")
      BY <3>2, EndsDiffer
    <3>5. Standard(p)'
      BY <1>3, <1>7, <2>3, <3>2, <3>3, <3>4 DEF Standard
    <3> QED
      BY <1>3, <1>4, <1>7, <2>3, <3>1, <3>5 DEF Between
  <2> QED
    BY <1>5, <2>1, <2>2, <2>3
<1> QED
  BY <1>2, <1>6, <1>8, OwnOthersLocal DEF Local

LEMMA RedirLocal ==
    ASSUME TypeOK, \A q \in Procs : Local(q), NEW p \in Procs, Redir(p)
    PROVE  \A q \in Procs : Local(q)'
<1>1. Known(p) /\ pc[p] = "redir" /\ Running(u, p) /\ Standard(p) /\ Between(p)
  BY DEF Local, Redir, At
<1>2. OwnStep(p) /\ pc'[p] = "exec" /\ cmd'[p] \in Opened
  BY <1>1, RedirEs
<1>3. PICK f, g : f = u.fds[p] /\ g = u'.fds[p]
  OBVIOUS
<1>4. /\ g["r"] = f["r"] /\ g["w"] = f["w"] /\ g["0"] \in {Plain, f["0"]} /\ g["1"] \in {Plain, f["1"]}
      /\ g["2"] \in {Plain, f["2"], g["1"]}
  BY <1>1, <1>3, RedirEs
<1>5. Known(p)'
  BY <1>1, <1>2, RunningIs DEF Known, OwnStep
<1>6. side'[p] = side[p]
  BY <1>2 DEF OwnStep
<1>7. Standard(p)'
  <2>1. /\ f["0"] = Plain \/ \E k \in Pipes : f["0"] = End(k, "r")
        /\ f["1"] = Plain \/ \E k \in Pipes : f["1"] = End(k, "w")
        /\ f["2"] = Plain \/ \E k \in Pipes : f["2"] = End(k, "w")
        /\ \A k \in Pipes : f["0"] = End(k, "r") => f["1"] # End(k, "w") /\ f["2"] # End(k, "w")
        /\ side[p] = "run" => f["0"] = Plain /\ f["1"] = Plain /\ f["2"] = Plain
    BY <1>1, <1>3, StdNames DEF Standard
  <2>2. /\ g["0"] = Plain \/ \E k \in Pipes : g["0"] = End(k, "r")
        /\ g["1"] = Plain \/ \E k \in Pipes : g["1"] = End(k, "w")
        /\ g["2"] = Plain \/ \E k \in Pipes : g["2"] = End(k, "w")
    BY <1>4, <2>1
  <2>3. \A k \in Pipes : g["0"] = End(k, "r") => g["1"] # End(k, "w") /\ g["2"] # End(k, "w")
    BY <1>4, <2>1, EndsDiffer
  <2>4. side[p] = "run" => g["0"] = Plain /\ g["1"] = Plain /\ g["2"] = Plain
    BY <1>4, <2>1
  <2> QED
    BY <1>3, <1>6, <2>2, <2>3, <2>4, StdNames DEF Standard
<1>8. Between(p)'
  BY <1>1, <1>2, <1>3, <1>4 DEF Between
<1> QED
  BY <1>2, <1>5, <1>7, <1>8, OwnOthersLocal DEF Local

LEMMA ExecLocal ==
    ASSUME TypeOK, \A q \in Procs : Local(q), NEW p \in Procs, Exec(p) \/ ProgWrite(p) \/ ProgRead(p)
    PROVE  \A q \in Procs : Local(q)'
<1>1. /\ OwnStep(p) /\ pc[p] \in {"exec", "prog"} /\ pc'[p] = "prog" /\ cmd'[p] = cmd[p] /\ u'.fds = u.fds
  BY ExecEs, ProgEs
<1>2. Known(p) /\ Running(u, p) /\ Standard(p) /\ Between(p)
  BY <1>1 DEF Local, OwnStep
<1>3. side'[p] = side[p] /\ kids'[p] = kids[p] /\ u'.state[p] = "running"
  BY <1>1, RunningIs DEF OwnStep
<1>4. Known(p)'
  BY <1>1, <1>2, <1>3 DEF Known
<1>5. Standard(p)'
  BY <1>1, <1>2, <1>3 DEF Standard
<1>6. Between(p)'
  BY <1>1, <1>2, <1>3 DEF Between
<1> QED
  BY <1>1, <1>4, <1>5, <1>6, OwnOthersLocal DEF Local

LEMMA WaitSideLocal ==
    ASSUME TypeOK, \A q \in Procs : Local(q), NEW p \in Procs, WaitSide(p)
    PROVE  \A q \in Procs : Local(q)'
<1>1. /\ ReapStep({Head(kids[p])}) /\ p # Shell /\ pc[p] = "wait"
      /\ kids' = [kids EXCEPT ![p] = Tail(kids[p])] /\ UNCHANGED <<pc, cmd>>
  BY WaitSideEs
<1>2. \A q \in Procs : u'.state[q] = "running" <=> u.state[q] = "running"
  BY <1>1 DEF ReapStep
<1>3. UNCHANGED side /\ u'.fds = u.fds
  BY <1>1 DEF ReapStep
<1>4. ASSUME NEW q \in Procs \ {p}
      PROVE  Local(q)'
  <2>1. kids'[q] = kids[q]
    BY <1>1, Typed DEF KidsType
  <2> QED
    BY <1>1, <1>2, <1>3, <2>1, LocalFrame
<1>5. Local(p)'
  <2>1. Known(p)'
    BY <1>1, <1>2, <1>3 DEF Local, Known
  <2>2. Running(u, p)' => Standard(p)' /\ Between(p)'
    <3>1. Running(u, p)' <=> Running(u, p)
      BY <1>2 DEF Running
    <3>2. Standard(p)' <=> Standard(p)
      BY <1>3 DEF Standard
    <3>3. Between(p)' <=> Between(p)
      BY <1>1, <1>3 DEF Between, Apart
    <3> QED
      BY <3>1, <3>2, <3>3 DEF Local
  <2> QED
    BY <2>1, <2>2 DEF Local
<1> QED
  BY <1>4, <1>5

\* Only what the shell is at changes, and it has nobody to wait for
LEMMA PromptLocal ==
    ASSUME TypeOK, \A q \in Procs : Local(q), Running(u, Shell), NEW label \in {"prompt", "waitany"},
           pc' = [pc EXCEPT ![Shell] = label], kids'[Shell] = <<>>,
           \A q \in Procs \ {Shell} : kids'[q] = kids[q] /\ cmd'[q] = cmd[q],
           u'.fds = u.fds, UNCHANGED side,
           \A q \in Procs : u'.state[q] = "running" <=> u.state[q] = "running"
    PROVE  \A q \in Procs : Local(q)'
<1>1. \A q \in Procs \ {Shell} : pc'[q] = pc[q]
  BY Typed DEF PcType
<1>2. pc'[Shell] = label
  BY Typed, ShellAssumption DEF PcType
<1>3. \A q \in Procs \ {Shell} : Local(q)'
  BY <1>1, LocalFrame
<1>4. Known(Shell)'
  BY <1>2, ShellAssumption DEF Local, Known, Running
<1>5. Standard(Shell)'
  BY ShellAssumption DEF Local, Standard
<1>6. Between(Shell)'
  <2>1. pc[Shell] # "born" /\ pc[Shell] # "right"
    BY ShellAssumption DEF Local, Known
  <2> QED
    BY <1>2, <2>1, ShellAssumption DEF Local, Between
<1> QED
  BY <1>3, <1>4, <1>5, <1>6, ShellAssumption DEF Local

LEMMA ForegroundLocal ==
    ASSUME TypeOK, \A q \in Procs : Local(q), WaitForeground \/ WaitAny
    PROVE  \A q \in Procs : Local(q)'
<1>1. PICK S : ReapStep(S)
  BY ForegroundEs, WaitAnyEs
<1>2. /\ Running(u, Shell) /\ pc' = [pc EXCEPT ![Shell] = "prompt"]
      /\ \/ pc[Shell] = "wait" /\ kids' = [kids EXCEPT ![Shell] = <<>>] /\ cmd' = cmd
         \/ pc[Shell] = "waitany" /\ kids' = kids /\ cmd' = [cmd EXCEPT ![Shell] = NoCmd]
  BY ForegroundEs, WaitAnyEs
<1>3. kids'[Shell] = <<>> /\ \A q \in Procs \ {Shell} : kids'[q] = kids[q] /\ cmd'[q] = cmd[q]
  <2>1. pc[Shell] = "waitany" => kids[Shell] = <<>>
    BY ShellAssumption DEF Local, Known
  <2> QED
    BY <1>2, <2>1, Typed, ShellAssumption DEF KidsType, CmdType
<1>4. u'.fds = u.fds /\ UNCHANGED side /\ \A q \in Procs : u'.state[q] = "running" <=> u.state[q] = "running"
  BY <1>1 DEF ReapStep
<1> QED
  BY <1>2, <1>3, <1>4, PromptLocal

LEMMA RunCmdFailsLocal ==
    ASSUME TypeOK, \A q \in Procs : Local(q), NEW c \in Lines, RunCmdFails(c)
    PROVE  \A q \in Procs : Local(q)'
<1>1. PICK label \in {"prompt", "waitany"} : pc' = [pc EXCEPT ![Shell] = label]
  BY DEF RunCmdFails, Goto
<1>2. Running(u, Shell) /\ pc[Shell] = "prompt" /\ UNCHANGED <<u, side, kids>>
  BY DEF RunCmdFails, At
<1>3. kids'[Shell] = <<>> /\ \A q \in Procs \ {Shell} : kids'[q] = kids[q] /\ cmd'[q] = cmd[q]
  <2>1. kids[Shell] = <<>>
    BY <1>2, ShellAssumption DEF Local, Known
  <2>2. \A q \in Procs \ {Shell} : cmd'[q] = cmd[q]
    BY Typed DEF RunCmdFails, CmdType
  <2> QED
    BY <1>2, <2>1, <2>2
<1> QED
  BY <1>1, <1>2, <1>3, PromptLocal

\* The same for each process
Grows(p, b, command, where, label, waited) ==
    /\ b # p /\ u.state[b] = "none" /\ u'.state[b] = "running" /\ u'.parent[b] = p
    /\ pc'[b] = "born" /\ cmd'[b] = command /\ side'[b] = where /\ pgid'[b] = pgid[p]
    /\ pc'[p] = label /\ kids'[p] = IF waited THEN Append(kids[p], b) ELSE kids[p]
    /\ \A q \in Procs \ {b} : /\ u'.state[q] = u.state[q] /\ u'.parent[q] = u.parent[q]
                              /\ cmd'[q] = cmd[q] /\ side'[q] = side[q] /\ pgid'[q] = pgid[q]
    /\ \A q \in Procs \ {p} : kids'[q] = kids[q]
    /\ \A q \in Procs \ {b, p} : pc'[q] = pc[q] /\ u'.fds[q] = u.fds[q]
    /\ raw' = raw

LEMMA ForkFields ==
    ASSUME TypeOK, NEW p \in Procs, NEW b \in Procs, NEW command, NEW where, NEW label, NEW waited,
           ForkStep(p, b, command, where, label, waited)
    PROVE  Grows(p, b, command, where, label, waited)
<1>1. PcType /\ CmdType /\ KidsType /\ RestType
  BY Typed
<1>2. /\ b # p /\ u.state[b] = "none" /\ u'.state[b] = "running" /\ u'.parent[b] = p
      /\ \A q \in Procs \ {b} : u'.state[q] = u.state[q] /\ u'.parent[q] = u.parent[q]
      /\ \A q \in Procs \ {b, p} : u'.fds[q] = u.fds[q]
  BY DEF ForkStep, Forks
<1>3. /\ cmd' = [cmd EXCEPT ![b] = command] /\ side' = [side EXCEPT ![b] = where]
      /\ pgid' = [pgid EXCEPT ![b] = pgid[p]]
      /\ kids' = [kids EXCEPT ![p] = IF waited THEN Append(kids[p], b) ELSE kids[p]]
      /\ pc' = [pc EXCEPT ![p] = label, ![b] = "born"] /\ raw' = raw
  BY DEF ForkStep
<1>4. cmd'[b] = command /\ \A q \in Procs \ {b} : cmd'[q] = cmd[q]
  BY <1>1, <1>3 DEF CmdType
<1>5. side'[b] = where /\ pgid'[b] = pgid[p] /\ \A q \in Procs \ {b} : side'[q] = side[q] /\ pgid'[q] = pgid[q]
  BY <1>1, <1>3 DEF RestType
<1>6. /\ kids'[p] = IF waited THEN Append(kids[p], b) ELSE kids[p]
      /\ \A q \in Procs \ {p} : kids'[q] = kids[q]
  BY <1>1, <1>3 DEF KidsType
<1>7. pc'[b] = "born" /\ pc'[p] = label /\ \A q \in Procs \ {b, p} : pc'[q] = pc[q]
  BY <1>1, <1>2, <1>3 DEF PcType
<1> QED
  BY <1>2, <1>3, <1>4, <1>5, <1>6, <1>7 DEF Grows

LEMMA ForkLocal ==
    ASSUME TypeOK, \A q \in Procs : Local(q), NEW p \in Procs, NEW b \in Procs \ {Shell},
           NEW command \in Commands, NEW where, NEW label, NEW waited,
           Grows(p, b, command, where, label, waited), Local(p)', Standard(b)', Between(b)'
    PROVE  \A q \in Procs : Local(q)'
<1>1. /\ b # p /\ u.state[b] = "none" /\ u'.state[b] = "running" /\ pc'[b] = "born" /\ cmd'[b] = command
      /\ \A q \in Procs \ {b} : u'.state[q] = u.state[q] /\ cmd'[q] = cmd[q] /\ side'[q] = side[q]
      /\ \A q \in Procs \ {p} : kids'[q] = kids[q]
      /\ \A q \in Procs \ {b, p} : pc'[q] = pc[q] /\ u'.fds[q] = u.fds[q]
  BY DEF Grows
<1>2. \A q \in Procs \ {b, p} : Local(q)'
  BY <1>1, LocalFrame
<1>3. kids'[b] = <<>>
  BY <1>1 DEF Local, Known
<1>4. Known(b)'
  BY <1>1, <1>3 DEF Known
<1> QED
  BY <1>2, <1>4 DEF Local

LEMMA RunCmdLocal ==
    ASSUME TypeOK, \A q \in Procs : Local(q), NEW c \in Lines, RunCmd(c)
    PROVE  \A q \in Procs : Local(q)'
<1>1. PICK b \in Procs :
         /\ ForkStep(Shell, b, c, "run", IF c.type = "BACK" THEN "prompt" ELSE "wait", c.type # "BACK")
         /\ u'.fds[b] = u.fds[Shell] /\ u'.fds[Shell] = u.fds[Shell]
  BY RunCmdEs
<1>2. Running(u, Shell) /\ pc[Shell] = "prompt"
  BY DEF RunCmd, At
<1>3. PICK label \in {"prompt", "wait"}, waited \in BOOLEAN :
         ForkStep(Shell, b, c, "run", label, waited) /\ (label = "wait" <=> waited)
  <2>1. CASE c.type = "BACK"
    BY <1>1, <2>1
  <2>2. CASE c.type # "BACK"
    BY <1>1, <2>2
  <2> QED
    BY <2>1, <2>2
<1>4. Grows(Shell, b, c, "run", label, waited)
  BY <1>3, ForkFields, ShellAssumption
<1>5. /\ b # Shell /\ pc'[Shell] = label /\ pc'[b] = "born" /\ side'[b] = "run"
      /\ kids'[Shell] = IF waited THEN Append(kids[Shell], b) ELSE kids[Shell]
      /\ side'[Shell] = side[Shell] /\ u'.state[Shell] = u.state[Shell]
  BY <1>3, <1>4, ShellAssumption DEF Grows
<1>6. Known(Shell) /\ Standard(Shell) /\ Between(Shell)
  BY <1>2, ShellAssumption DEF Local
<1>7. side[Shell] = "run" /\ kids[Shell] = <<>>
  BY <1>2, <1>6 DEF Known
<1>8. Known(Shell)'
  <2>1. label = "prompt" => kids'[Shell] = <<>>
    BY <1>3, <1>5, <1>7
  <2>2. label = "wait" => Len(kids'[Shell]) = 1
    BY <1>3, <1>5, <1>7
  <2>3. u'.state[Shell] = "running"
    BY <1>2, <1>5, RunningIs
  <2> QED
    BY <1>5, <1>7, <2>1, <2>2, <2>3 DEF Known
<1>9. Local(Shell)'
  <2>1. Standard(Shell)'
    BY <1>1, <1>5, <1>6 DEF Standard
  <2>2. Between(Shell)'
    BY <1>1, <1>2, <1>5, <1>6 DEF Between
  <2> QED
    BY <1>8, <2>1, <2>2 DEF Local
<1>10. Standard(b)'
  BY <1>1, <1>5, <1>6, <1>7 DEF Standard
<1>11. Between(b)'
  <2>1. u.fds[Shell]["r"] = Closed /\ u.fds[Shell]["w"] = Closed
    BY <1>2, <1>6 DEF Between
  <2> QED
    BY <1>1, <1>5, <2>1 DEF Between
<1> QED
  BY <1>4, <1>5, <1>9, <1>10, <1>11, Kinds, ShellAssumption, ForkLocal

\* Only the foreground command forks: the shell is waiting for it
LEMMA ShellWaits ==
    ASSUME \A q \in Procs : Local(q), Linked, NEW p \in Procs, Running(u, p), pc[p] \in {"pipe", "right"}
    PROVE  p # Shell /\ pc[Shell] = "wait" /\ Running(u, Shell)
<1>1. p # Shell
  BY ShellAssumption DEF Local, Known
<1>2. PICK m, c : Chain(m, c) /\ Others(m, c)
  BY DEF Linked
<1>3. ~Simple(p)
  BY DEF Simple
<1>4. PICK j \in 1..m : c[j] = p
  BY <1>1, <1>2, <1>3 DEF Others
<1>5. pc[Shell] = "wait"
  BY <1>2, <1>4 DEF Chain
<1> QED
  BY <1>1, <1>5, ShellAssumption DEF Local, Known, Running

LEMMA ForkLeftLocal ==
    ASSUME TypeOK, \A q \in Procs : Local(q), Linked, NEW p \in Procs, ForkLeft(p)
    PROVE  \A q \in Procs : Local(q)'
<1>1. PICK b \in Procs, k \in Pipes :
         /\ ForkStep(p, b, cmd[p].left, "left", "right", TRUE)
         /\ Unheld(u, k)
         /\ u'.fds[b]["r"] = End(k, "r") /\ u'.fds[b]["w"] = End(k, "w")
         /\ u'.fds[p]["r"] = End(k, "r") /\ u'.fds[p]["w"] = Closed
         /\ \A n \in Std : u'.fds[b][n] = u.fds[p][n] /\ u'.fds[p][n] = u.fds[p][n]
  BY ForkLeftEs
<1>2. Running(u, p) /\ pc[p] = "pipe"
  BY DEF ForkLeft, At
<1>3. p # Shell /\ Running(u, Shell)
  BY <1>2, ShellWaits
<1>4. Known(p) /\ Standard(p)
  BY <1>2 DEF Local
<1>5. cmd[p] \in Pipelines /\ kids[p] = <<>> /\ cmd[p].left \in Commands
  BY <1>2, <1>3, <1>4, Kinds DEF Known
<1>6. Grows(p, b, cmd[p].left, "left", "right", TRUE)
  BY <1>1, ForkFields
<1>7. /\ b # p /\ u.state[b] = "none" /\ pc'[b] = "born" /\ side'[b] = "left" /\ pc'[p] = "right"
      /\ kids'[p] = Append(kids[p], b) /\ cmd'[p] = cmd[p] /\ side'[p] = side[p]
      /\ u'.state[p] = u.state[p]
  BY <1>6 DEF Grows
<1>8. b # Shell
  BY <1>3, <1>7, RunningIs
<1>9. Apart(p, k)
  BY <1>1, StdFds DEF Unheld, Holders, Apart
<1>10. Known(p)'
  <2>1. Len(kids'[p]) = 1
    BY <1>5, <1>7
  <2>2. u'.state[p] = "running"
    BY <1>2, <1>7, RunningIs
  <2> QED
    BY <1>3, <1>5, <1>7, <2>1, <2>2 DEF Known
<1>11. Standard(p)'
  BY <1>1, <1>4, <1>7, StdNames DEF Standard
<1>12. Between(p)'
  <2>1. Apart(p, k)'
    BY <1>1, <1>9 DEF Apart
  <2> QED
    BY <1>1, <1>7, <2>1 DEF Between
<1>13. Standard(b)'
  BY <1>1, <1>4, <1>7, StdNames DEF Standard
<1>14. Between(b)'
  <2>1. Apart(b, k)'
    BY <1>1, <1>9 DEF Apart
  <2> QED
    BY <1>1, <1>7, <2>1 DEF Between
<1>15. Local(p)'
  BY <1>10, <1>11, <1>12 DEF Local
<1> QED
  BY <1>5, <1>8, <1>13, <1>14, <1>6, <1>15, ForkLocal

LEMMA ForkRightLocal ==
    ASSUME TypeOK, \A q \in Procs : Local(q), Linked, NEW p \in Procs, ForkRight(p)
    PROVE  \A q \in Procs : Local(q)'
<1>1. PICK b \in Procs :
         /\ ForkStep(p, b, cmd[p].right, "right", "wait", TRUE)
         /\ u'.fds[b] = u.fds[p]
         /\ u'.fds[p]["r"] = Closed /\ u'.fds[p]["w"] = Closed
         /\ \A n \in Std : u'.fds[p][n] = u.fds[p][n]
  BY ForkRightEs
<1>2. Running(u, p) /\ pc[p] = "right"
  BY DEF ForkRight, At
<1>3. p # Shell /\ Running(u, Shell)
  BY <1>2, ShellWaits
<1>4. Known(p) /\ Standard(p) /\ Between(p)
  BY <1>2 DEF Local
<1>5. cmd[p] \in Pipelines /\ cmd[p].right \in Commands
  BY <1>2, <1>3, <1>4, Kinds DEF Known
<1>6. Grows(p, b, cmd[p].right, "right", "wait", TRUE)
  BY <1>1, ForkFields
<1>7. /\ b # p /\ u.state[b] = "none" /\ pc'[b] = "born" /\ side'[b] = "right" /\ pc'[p] = "wait"
      /\ cmd'[p] = cmd[p] /\ side'[p] = side[p] /\ u'.state[p] = u.state[p]
  BY <1>6 DEF Grows
<1>8. b # Shell
  BY <1>3, <1>7, RunningIs
<1>9. PICK k \in Pipes : u.fds[p]["r"] = End(k, "r") /\ u.fds[p]["w"] = Closed /\ Apart(p, k)
  BY <1>2, <1>4 DEF Between
<1>10. Known(p)'
  <2>1. u'.state[p] = "running"
    BY <1>2, <1>7, RunningIs
  <2> QED
    BY <1>3, <1>5, <1>7, <2>1 DEF Known
<1>11. Standard(p)'
  BY <1>1, <1>4, <1>7, StdNames DEF Standard
<1>12. Between(p)'
  BY <1>1, <1>7 DEF Between
<1>13. Standard(b)'
  <2>1. /\ u.fds[p]["0"] = Plain \/ \E j \in Pipes : u.fds[p]["0"] = End(j, "r")
        /\ u.fds[p]["1"] = Plain \/ \E j \in Pipes : u.fds[p]["1"] = End(j, "w")
        /\ u.fds[p]["2"] = Plain \/ \E j \in Pipes : u.fds[p]["2"] = End(j, "w")
        /\ \A j \in Pipes : u.fds[p]["0"] = End(j, "r") =>
                                u.fds[p]["1"] # End(j, "w") /\ u.fds[p]["2"] # End(j, "w")
    BY <1>4 DEF Standard
  <2> QED
    BY <1>1, <1>7, <2>1 DEF Standard
<1>14. Between(b)'
  <2>1. Apart(b, k)'
    BY <1>1, <1>9 DEF Apart
  <2> QED
    BY <1>1, <1>7, <1>9, <2>1 DEF Between
<1>15. Local(p)'
  BY <1>10, <1>11, <1>12 DEF Local
<1> QED
  BY <1>5, <1>8, <1>13, <1>14, <1>6, <1>15, ForkLocal

LEMMA LocalNext ==
    ASSUME TypeOK, \A q \in Procs : Local(q), Linked, Next
    PROVE  \A q \in Procs : Local(q)'
<1>1. ASSUME NEW p \in Procs, Step(p)
      PROVE  \A q \in Procs : Local(q)'
  <2>1. CASE Dies(p)
    BY <2>1, DiesEs, EndLocal
  <2>2. CASE Handler(p)
    <3>1. PICK S : ReapStep(S) /\ UNCHANGED <<pc, cmd, kids>>
      BY <2>2, HandlerEs
    <3> QED
      BY <3>1, ReapLocal
  <2>3. CASE Born(p)
    BY <2>3, BornLocal
  <2>4. CASE Redir(p)
    BY <2>4, RedirLocal
  <2>5. CASE Exec(p) \/ ProgWrite(p) \/ ProgRead(p)
    BY <2>5, ExecLocal
  <2>6. CASE ForkLeft(p)
    BY <2>6, ForkLeftLocal
  <2>7. CASE ForkRight(p)
    BY <2>7, ForkRightLocal
  <2>8. CASE PipeForkFails(p)
    BY <2>8, PipeForkFailsEs, EndLocal
  <2>9. CASE WaitSide(p)
    BY <2>9, WaitSideLocal
  <2> QED
    BY <1>1, <2>1, <2>2, <2>3, <2>4, <2>5, <2>6, <2>7, <2>8, <2>9 DEF Step, Dies
<1>2. ASSUME NEW c \in Lines, RunCmd(c) \/ RunCmdFails(c)
      PROVE  \A q \in Procs : Local(q)'
  BY <1>2, RunCmdLocal, RunCmdFailsLocal
<1>3. CASE WaitForeground \/ WaitAny
  BY <1>3, ForegroundLocal
<1>4. CASE ShellEnds
  BY <1>4, ShellEndsEs, EndLocal, ShellAssumption
<1> QED
  BY <1>1, <1>2, <1>3, <1>4 DEF Next, User, System

-----------------------------------------------------------------------------
(***************************************************************************)
(* The chain of the foreground command.                                    *)
(***************************************************************************)

InChain(m, c, p) == \E j \in 1..m : c[j] = p
WaitedBy(m, c, p) == \E j \in 1..m : \E i \in 1..Len(kids[c[j]]) : kids[c[j]][i] = p

LEMMA OthersIs ==
    ASSUME NEW m, NEW c
    PROVE  Others(m, c) <=> \A p \in Procs \ {Shell} :
              u.state[p] = "running" /\ ~InChain(m, c, p) => Simple(p) /\ (Free(p) \/ WaitedBy(m, c, p))
  BY DEF Others, InChain, WaitedBy, Running

LEMMA OthersNext ==
    ASSUME NEW m, NEW c
    PROVE  Others(m, c)' <=> \A p \in Procs \ {Shell} :
              u'.state[p] = "running" /\ ~InChain(m, c, p) => Simple(p)' /\ (Free(p)' \/ WaitedBy(m, c, p)')
  BY DEF Others, InChain, WaitedBy, Running

LEMMA ChainKeep ==
    ASSUME NEW m, NEW c, Chain(m, c), m > 0 => pc'[Shell] = pc[Shell] /\ kids'[Shell] = kids[Shell],
           \A j \in 1..m : /\ u'.state[c[j]] = "running"
                           /\ pc[c[j]] = "wait" => pc'[c[j]] = "wait"
                           /\ kids'[c[j]] = kids[c[j]]
    PROVE  Chain(m, c)'
<1>1. m \in Nat /\ \A j \in 2..m : j - 1 \in 1..m
  BY DEF Chain
<1>2. /\ \A j \in 1..m : c[j] \in Procs \ {Shell}
      /\ \A i, j \in 1..m : c[i] = c[j] => i = j
      /\ m > 0 => pc'[Shell] = "wait" /\ kids'[Shell][1] = c[1]
  BY DEF Chain
<1>3. \A j \in 2..m : pc'[c[j - 1]] = "wait" /\ kids'[c[j - 1]] # <<>>
                      /\ kids'[c[j - 1]][Len(kids'[c[j - 1]])] = c[j]
  <2> SUFFICES ASSUME NEW j \in 2..m
               PROVE  pc'[c[j - 1]] = "wait" /\ kids'[c[j - 1]] # <<>>
                      /\ kids'[c[j - 1]][Len(kids'[c[j - 1]])] = c[j]
    OBVIOUS
  <2>1. PICK x : x = c[j - 1]
    OBVIOUS
  <2>2. pc[x] = "wait" /\ kids[x] # <<>> /\ kids[x][Len(kids[x])] = c[j]
    BY <2>1 DEF Chain
  <2>3. (pc[x] = "wait" => pc'[x] = "wait") /\ kids'[x] = kids[x]
    BY <1>1, <2>1
  <2> QED
    BY <2>1, <2>2, <2>3
<1>4. \A j \in 1..m : Running(u, c[j])'
  BY DEF Running
<1> QED
  BY <1>1, <1>2, <1>3, <1>4 DEF Chain

LEMMA OthersKeep ==
    ASSUME NEW m, NEW c, Others(m, c),
           \A p \in Procs \ {Shell} : u'.state[p] = "running" /\ ~InChain(m, c, p) =>
               /\ u.state[p] = "running"
               /\ Simple(p) => Simple(p)'
               /\ Free(p) => Free(p)',
           \A j \in 1..m : kids'[c[j]] = kids[c[j]]
    PROVE  Others(m, c)'
<1> SUFFICES ASSUME NEW p \in Procs \ {Shell}, u'.state[p] = "running", ~InChain(m, c, p)
             PROVE  Simple(p)' /\ (Free(p)' \/ WaitedBy(m, c, p)')
  BY OthersNext
<1>1. Simple(p)' /\ (Free(p) \/ WaitedBy(m, c, p)) /\ (Free(p) => Free(p)')
  BY OthersIs
<1>2. WaitedBy(m, c, p) => WaitedBy(m, c, p)'
  BY DEF WaitedBy
<1> QED
  BY <1>1, <1>2

LEMMA BackKeep ==
    ASSUME NEW p, Back(p), u'.parent[p] = u.parent[p], pgid'[p] = pgid[p],
           pc'[p] = "born" => pc[p] = "born" /\ side'[p] = side[p] /\ cmd'[p] = cmd[p]
    PROVE  Back(p)'
  BY DEF Back

LEMMA FreeKeep ==
    ASSUME NEW p, Free(p), failed => failed', pc[Shell] = "ended" => pc'[Shell] = "ended", Back(p) => Back(p)'
    PROVE  Free(p)'
  BY DEF Free

LEMMA SimpleKeep ==
    ASSUME NEW p, Simple(p), pc'[p] = pc[p], cmd'[p] = cmd[p]
    PROVE  Simple(p)'
  BY DEF Simple

\* At the prompt nobody executes the foreground command
LEMMA NoChain ==
    ASSUME NEW m, NEW c, Chain(m, c), pc[Shell] # "wait"
    PROVE  m = 0
  BY DEF Chain

LEMMA EmptyChain ==
    ASSUME NEW c
    PROVE  Chain(0, c)'
  BY DEF Chain

\* p is not one that waits
LEMMA OwnLinked ==
    ASSUME Linked, NEW p \in Procs \ {Shell}, OwnStep(p), pc[p] # "wait", Simple(p) => Simple(p)', Back(p) => Back(p)'
    PROVE  Linked'
<1>1. PICK m, c : Chain(m, c) /\ Others(m, c)
  BY DEF Linked
<1>2. /\ u'.state = u.state /\ u'.parent = u.parent /\ kids' = kids /\ side' = side /\ failed' = failed
      /\ \A q \in Procs \ {p} : pc'[q] = pc[q] /\ cmd'[q] = cmd[q] /\ pgid'[q] = pgid[q]
  BY DEF OwnStep, shellvars
<1>3. Chain(m, c)'
  <2>1. \A j \in 1..m : c[j] \in Procs \ {Shell} /\ u.state[c[j]] = "running"
    BY <1>1 DEF Chain, Running
  <2>2. \A j \in 1..m : pc[c[j]] = "wait" => pc'[c[j]] = "wait"
    BY <1>2, <2>1
  <2>3. pc'[Shell] = pc[Shell]
    BY <1>2, ShellAssumption
  <2> QED
    BY <1>1, <1>2, <2>1, <2>2, <2>3, ChainKeep
<1>4. Others(m, c)'
  <2>1. ASSUME NEW q \in Procs \ {Shell}
        PROVE  (Simple(q) => Simple(q)') /\ (Free(q) => Free(q)')
    <3>1. CASE q = p
      BY <1>2, <3>1, FreeKeep, ShellAssumption
    <3>2. CASE q # p
      BY <1>2, <3>2, FreeKeep, BackKeep, SimpleKeep, ShellAssumption
    <3> QED
      BY <3>1, <3>2
  <2> QED
    BY <1>1, <1>2, <2>1, OthersKeep
<1> QED
  BY <1>3, <1>4 DEF Linked

LEMMA BornLinked ==
    ASSUME TypeOK, \A q \in Procs : Local(q), Linked, NEW p \in Procs, Born(p)
    PROVE  Linked'
<1>1. Known(p) /\ pc[p] = "born"
  BY DEF Local, Born, At
<1>2. /\ OwnStep(p) /\ pc'[p] = Labels[cmd[p].type] /\ cmd'[p] = cmd[p] /\ cmd[p] \in Commands
      /\ pgid'[p] = IF side[p] = "run" /\ cmd[p].type = "BACK" THEN pgid[p] ELSE p
  BY <1>1, BornEs DEF Known
<1>3. p # Shell
  BY <1>1 DEF Known
<1>4. Simple(p) => Simple(p)'
  BY <1>2, Kinds, LabelsEs DEF Simple
<1>5. Back(p) => Back(p)'
  <2>1. u'.parent = u.parent /\ pc'[p] # "born"
    BY <1>2, Kinds, LabelsEs DEF OwnStep
  <2> QED
    BY <1>1, <1>2, <2>1 DEF Back
<1> QED
  BY <1>1, <1>2, <1>3, <1>4, <1>5, OwnLinked

LEMMA RedirLinked ==
    ASSUME TypeOK, \A q \in Procs : Local(q), Linked, NEW p \in Procs, Redir(p)
    PROVE  Linked'
<1>1. Known(p) /\ pc[p] = "redir"
  BY DEF Local, Redir, At
<1>2. OwnStep(p) /\ pc'[p] = "exec" /\ cmd'[p] \in Opened /\ pgid'[p] = pgid[p]
  BY <1>1, RedirEs
<1>3. p # Shell
  BY <1>1 DEF Known
<1>4. Simple(p)'
  BY <1>2, Kinds DEF Simple
<1>5. Back(p) => Back(p)'
  BY <1>2, BackKeep DEF OwnStep
<1> QED
  BY <1>1, <1>2, <1>3, <1>4, <1>5, OwnLinked

LEMMA ExecLinked ==
    ASSUME TypeOK, \A q \in Procs : Local(q), Linked, NEW p \in Procs, Exec(p) \/ ProgWrite(p) \/ ProgRead(p)
    PROVE  Linked'
<1>1. /\ OwnStep(p) /\ pc[p] \in {"exec", "prog"} /\ pc'[p] = "prog" /\ cmd'[p] = cmd[p] /\ pgid'[p] = pgid[p]
  BY ExecEs, ProgEs
<1>2. p # Shell
  BY <1>1 DEF Local, Known
<1>3. Simple(p) => Simple(p)'
  BY <1>1 DEF Simple
<1>4. Back(p) => Back(p)'
  BY <1>1, BackKeep DEF OwnStep
<1> QED
  BY <1>1, <1>2, <1>3, <1>4, OwnLinked

\* Waiting changes nothing of who runs
LEMMA ReapKeeps ==
    ASSUME NEW S, ReapStep(S), NEW p \in Procs, u.state[p] = "running" \/ u'.state[p] = "running",
           pc'[p] = pc[p], cmd'[p] = cmd[p]
    PROVE  /\ u.state[p] = "running" /\ u'.state[p] = "running"
           /\ Simple(p) => Simple(p)'
           /\ Back(p) => Back(p)'
<1>1. u.state[p] = "running" /\ u'.state[p] = "running" /\ p \notin S
  BY DEF ReapStep
<1>2. u'.parent[p] = u.parent[p] /\ pgid'[p] = pgid[p] /\ side' = side
  BY <1>1 DEF ReapStep
<1> QED
  BY <1>1, <1>2, SimpleKeep, BackKeep

LEMMA HandlerLinked ==
    ASSUME TypeOK, Linked, NEW p \in Procs, Handler(p)
    PROVE  Linked'
<1>1. PICK S : ReapStep(S) /\ UNCHANGED <<pc, cmd, kids>> /\ UNCHANGED shellvars
  BY HandlerEs
<1>2. PICK m, c : Chain(m, c) /\ Others(m, c)
  BY DEF Linked
<1>3. Chain(m, c)'
  <2>1. \A j \in 1..m : c[j] \in Procs \ {Shell} /\ u.state[c[j]] = "running"
    BY <1>2 DEF Chain, Running
  <2>2. \A j \in 1..m : u'.state[c[j]] = "running"
    BY <1>1, <2>1, ReapKeeps
  <2> QED
    BY <1>1, <1>2, <2>2, ChainKeep
<1>4. Others(m, c)'
  <2>1. ASSUME NEW q \in Procs \ {Shell}, u'.state[q] = "running"
        PROVE  u.state[q] = "running" /\ (Simple(q) => Simple(q)') /\ (Free(q) => Free(q)')
    <3>1. u.state[q] = "running" /\ (Simple(q) => Simple(q)') /\ (Back(q) => Back(q)')
      BY <1>1, <2>1, ReapKeeps
    <3>2. Free(q) => Free(q)'
      BY <1>1, <3>1, FreeKeep DEF shellvars
    <3> QED
      BY <3>1, <3>2
  <2> QED
    BY <1>1, <1>2, <2>1, OthersKeep
<1> QED
  BY <1>3, <1>4 DEF Linked

LEMMA WaitSideLinked ==
    ASSUME TypeOK, Linked, NEW p \in Procs, WaitSide(p)
    PROVE  Linked'
<1>1. PICK h : h = Head(kids[p])
  OBVIOUS
<1>2. /\ ReapStep({h}) /\ u.state[h] = "zombie" /\ p # Shell /\ pc[p] = "wait" /\ kids[p] # <<>>
      /\ kids' = [kids EXCEPT ![p] = Tail(kids[p])] /\ UNCHANGED <<pc, cmd>> /\ UNCHANGED shellvars
  BY <1>1, WaitSideEs
<1>3. PICK m, c : Chain(m, c) /\ Others(m, c)
  BY DEF Linked
<1>4. kids \in [Procs -> Seq(Procs)]
  BY Typed DEF KidsType
<1>5. \A q \in Procs \ {p} : kids'[q] = kids[q]
  BY <1>2, <1>4
<1>6. PICK s, t : s = kids[p] /\ t = kids'[p]
  OBVIOUS
<1>7. s \in Seq(Procs) /\ s # <<>> /\ h = Head(s) /\ t = Tail(s)
  BY <1>1, <1>2, <1>4, <1>6
<1>8. s[1] = h /\ Len(t) = Len(s) - 1 /\ Len(s) \in Nat \ {0} /\ \A i \in 1..Len(t) : t[i] = s[i + 1]
  BY <1>7
<1>9. ASSUME NEW q, q \in Procs, u.state[q] = "running", NEW i \in 1..Len(s), s[i] = q
      PROVE  i - 1 \in 1..Len(t) /\ t[i - 1] = q
  <2>1. i # 1
    BY <1>2, <1>8, <1>9
  <2>2. i - 1 \in 1..Len(t) /\ (i - 1) + 1 = i
    BY <1>8, <2>1
  <2> QED
    BY <1>8, <1>9, <2>2
<1>10. \A j \in 1..m : c[j] \in Procs \ {Shell} /\ u.state[c[j]] = "running" /\ u'.state[c[j]] = "running"
  BY <1>2, <1>3, ReapKeeps DEF Chain, Running
<1>11. Chain(m, c)'
  <2>1. m \in Nat /\ \A j \in 2..m : j \in 1..m /\ j - 1 \in 1..m
    BY <1>3 DEF Chain
  <2>2. /\ \A i, j \in 1..m : c[i] = c[j] => i = j
        /\ m > 0 => pc'[Shell] = "wait" /\ kids'[Shell][1] = c[1]
    BY <1>2, <1>3, <1>5, ShellAssumption DEF Chain
  <2>3. ASSUME NEW j \in 2..m
        PROVE  pc'[c[j - 1]] = "wait" /\ kids'[c[j - 1]] # <<>>
               /\ kids'[c[j - 1]][Len(kids'[c[j - 1]])] = c[j]
    <3>1. PICK x, y : x = c[j - 1] /\ y = c[j]
      OBVIOUS
    <3>2. pc[x] = "wait" /\ kids[x] # <<>> /\ kids[x][Len(kids[x])] = y
      BY <1>3, <3>1 DEF Chain
    <3>3. x \in Procs /\ y \in Procs /\ u.state[y] = "running"
      BY <1>10, <2>1, <3>1
    <3>4. CASE x # p
      BY <1>2, <1>5, <3>1, <3>2, <3>3, <3>4
    <3>5. CASE x = p
      <4>1. s[Len(s)] = y /\ Len(s) \in 1..Len(s)
        BY <1>6, <1>8, <3>2, <3>5
      <4>2. Len(s) - 1 \in 1..Len(t) /\ t[Len(s) - 1] = y
        BY <1>9, <3>3, <4>1
      <4>3. t # <<>> /\ t[Len(t)] = y
        BY <1>8, <4>2
      <4> QED
        BY <1>2, <1>6, <3>1, <3>5, <4>3
    <3> QED
      BY <3>4, <3>5
  <2>4. \A j \in 1..m : Running(u, c[j])'
    BY <1>10 DEF Running
  <2> QED
    BY <1>10, <2>1, <2>2, <2>3, <2>4 DEF Chain
<1>12. Others(m, c)'
  <2> SUFFICES ASSUME NEW q \in Procs \ {Shell}, u'.state[q] = "running", ~InChain(m, c, q)
               PROVE  Simple(q)' /\ (Free(q)' \/ WaitedBy(m, c, q)')
    BY OthersNext
  <2>1. u.state[q] = "running" /\ (Simple(q) => Simple(q)') /\ (Back(q) => Back(q)')
    BY <1>2, ReapKeeps
  <2>2. Free(q) => Free(q)'
    BY <1>2, <2>1, FreeKeep DEF shellvars
  <2>3. Simple(q) /\ (Free(q) \/ WaitedBy(m, c, q))
    BY <1>3, <2>1, OthersIs
  <2>4. ASSUME WaitedBy(m, c, q)
        PROVE  WaitedBy(m, c, q)'
    <3>1. PICK j \in 1..m : \E i \in 1..Len(kids[c[j]]) : kids[c[j]][i] = q
      BY <2>4 DEF WaitedBy
    <3>2. PICK x : x = c[j] /\ x \in Procs
      BY <1>10
    <3>3. PICK i \in 1..Len(kids[x]) : kids[x][i] = q
      BY <3>1, <3>2
    <3>4. \E k \in 1..Len(kids'[x]) : kids'[x][k] = q
      <4>1. CASE x = p
        <5>1. i - 1 \in 1..Len(t) /\ t[i - 1] = q
          BY <1>6, <1>9, <2>1, <3>3, <4>1
        <5> QED
          BY <1>6, <4>1, <5>1
      <4>2. CASE x # p
        BY <1>5, <3>2, <3>3, <4>2
      <4> QED
        BY <4>1, <4>2
    <3> QED
      BY <3>2, <3>4 DEF WaitedBy
  <2> QED
    BY <2>1, <2>2, <2>3, <2>4
<1> QED
  BY <1>11, <1>12 DEF Linked

LEMMA ForegroundLinked ==
    ASSUME TypeOK, \A q \in Procs : Local(q), Linked, Statuses, WaitForeground \/ WaitAny
    PROVE  Linked'
<1>1. PICK S : ReapStep(S)
  BY ForegroundEs, WaitAnyEs
<1>2. /\ pc' = [pc EXCEPT ![Shell] = "prompt"] /\ pc[Shell] \in {"wait", "waitany"} /\ failed' = failed
      /\ cmd' = cmd \/ cmd' = [cmd EXCEPT ![Shell] = NoCmd]
  BY ForegroundEs, WaitAnyEs
<1>3. PICK m, c : Chain(m, c) /\ Others(m, c)
  BY DEF Linked
<1>4. m = 0
  <2>1. CASE WaitAny
    BY <1>3, <2>1, WaitAnyEs, NoChain
  <2>2. CASE WaitForeground
    <3>1. PICK f : f = Head(kids[Shell])
      OBVIOUS
    <3>2. pc[Shell] = "wait" /\ (f \notin Children(u, Shell) \/ u.state[f] = "zombie")
      BY <2>2, <3>1, ForegroundEs
    <3>3. f = kids[Shell][1]
      <4>1. kids[Shell] \in Seq(Procs) /\ Len(kids[Shell]) = 1
        BY <3>2, Typed, ShellAssumption DEF Local, Known, KidsType
      <4> QED
        BY <3>1, <4>1
    <3>4. f \in Procs /\ u.parent[f] = Shell /\ u.state[f] # "none"
      BY <3>2, <3>3 DEF Statuses, Foreground
    <3>5. u.state[f] = "zombie"
      BY <3>2, <3>4 DEF Children
    <3>6. ASSUME m > 0
          PROVE  FALSE
      <4>1. 1 \in 1..m
        BY <1>3, <3>6 DEF Chain
      <4>2. f = c[1] /\ u.state[c[1]] = "running"
        BY <1>3, <3>3, <3>6, <4>1 DEF Chain, Running
      <4> QED
        BY <3>5, <4>2
    <3> QED
      BY <1>3, <3>6 DEF Chain
  <2> QED
    BY <2>1, <2>2
<1>5. Others(0, c)'
  <2> SUFFICES ASSUME NEW q \in Procs \ {Shell}, u'.state[q] = "running"
               PROVE  Simple(q)' /\ Free(q)'
    BY OthersNext
  <2>1. pc'[q] = pc[q] /\ cmd'[q] = cmd[q]
    BY <1>2, Typed DEF PcType, CmdType
  <2>2. u.state[q] = "running" /\ (Simple(q) => Simple(q)') /\ (Back(q) => Back(q)')
    BY <1>1, <2>1, ReapKeeps
  <2>3. ~InChain(m, c, q) /\ ~WaitedBy(m, c, q)
    BY <1>4 DEF InChain, WaitedBy
  <2>4. Simple(q) /\ Free(q)
    BY <1>3, <2>2, <2>3, OthersIs
  <2>5. Free(q)'
    BY <1>2, <2>2, <2>4 DEF Free
  <2> QED
    BY <2>2, <2>4, <2>5
<1> QED
  BY <1>5, EmptyChain DEF Linked

LEMMA RunCmdFailsLinked ==
    ASSUME TypeOK, Linked, NEW c \in Lines, RunCmdFails(c)
    PROVE  Linked'
<1>1. PICK label, d : pc' = [pc EXCEPT ![Shell] = label] /\ cmd' = [cmd EXCEPT ![Shell] = d]
  BY DEF RunCmdFails, Goto
<1>2. pc[Shell] = "prompt" /\ UNCHANGED <<u, side, kids>> /\ failed' = TRUE
  BY DEF RunCmdFails, At
<1>3. PICK m, e : Chain(m, e) /\ Others(m, e)
  BY DEF Linked
<1>4. m = 0
  BY <1>2, <1>3, NoChain
<1>5. Others(0, e)'
  <2> SUFFICES ASSUME NEW q \in Procs \ {Shell}, u'.state[q] = "running"
               PROVE  Simple(q)' /\ Free(q)'
    BY OthersNext
  <2>1. pc'[q] = pc[q] /\ cmd'[q] = cmd[q] /\ u.state[q] = "running"
    BY <1>1, <1>2, Typed DEF PcType, CmdType
  <2>2. ~InChain(m, e, q)
    BY <1>4 DEF InChain
  <2>3. Simple(q)'
    BY <1>3, <2>1, <2>2, OthersIs, SimpleKeep
  <2> QED
    BY <1>2, <2>3 DEF Free
<1> QED
  BY <1>5, EmptyChain DEF Linked

\* Who was there before a fork, and is not the one that forks
LEMMA GrowsKeeps ==
    ASSUME NEW p \in Procs, NEW b \in Procs, NEW command, NEW where, NEW label, NEW waited,
           Grows(p, b, command, where, label, waited), NEW q \in Procs \ {b, p}
    PROVE  /\ u'.state[q] = u.state[q] /\ kids'[q] = kids[q] /\ pc'[q] = pc[q]
           /\ Simple(q) => Simple(q)'
           /\ Back(q) => Back(q)'
<1>1. /\ u'.state[q] = u.state[q] /\ kids'[q] = kids[q] /\ pc'[q] = pc[q] /\ u'.parent[q] = u.parent[q]
      /\ cmd'[q] = cmd[q] /\ side'[q] = side[q] /\ pgid'[q] = pgid[q]
  BY DEF Grows
<1> QED
  BY <1>1, SimpleKeep, BackKeep

LEMMA RunCmdLinked ==
    ASSUME TypeOK, \A q \in Procs : Local(q), Linked, Statuses, NEW d \in Lines, RunCmd(d)
    PROVE  Linked'
<1>1. PICK b \in Procs :
         ForkStep(Shell, b, d, "run", IF d.type = "BACK" THEN "prompt" ELSE "wait", d.type # "BACK")
  BY RunCmdEs
<1>2. Running(u, Shell) /\ pc[Shell] = "prompt" /\ failed' = failed
  BY DEF RunCmd, At
<1>3. PICK label \in {"prompt", "wait"}, waited \in BOOLEAN :
         /\ Grows(Shell, b, d, "run", label, waited)
         /\ d.type = "BACK" => ~waited
         /\ d.type # "BACK" => waited /\ label = "wait"
  <2>1. CASE d.type = "BACK"
    <3>1. PICK waited \in BOOLEAN : waited = FALSE /\ ForkStep(Shell, b, d, "run", "prompt", waited)
      BY <1>1, <2>1
    <3>2. Grows(Shell, b, d, "run", "prompt", waited)
      BY <3>1, ForkFields, ShellAssumption
    <3> QED
      BY <2>1, <3>1, <3>2
  <2>2. CASE d.type # "BACK"
    <3>1. PICK waited \in BOOLEAN : waited = TRUE /\ ForkStep(Shell, b, d, "run", "wait", waited)
      BY <1>1, <2>2
    <3>2. Grows(Shell, b, d, "run", "wait", waited)
      BY <3>1, ForkFields, ShellAssumption
    <3> QED
      BY <2>2, <3>1, <3>2
  <2> QED
    BY <2>1, <2>2
<1>4. /\ b # Shell /\ u'.state[b] = "running" /\ u'.parent[b] = Shell /\ pc'[b] = "born" /\ cmd'[b] = d
      /\ side'[b] = "run" /\ pgid'[b] = pgid[Shell] /\ pc'[Shell] = label
      /\ kids'[Shell] = IF waited THEN Append(kids[Shell], b) ELSE kids[Shell]
  BY <1>3 DEF Grows
<1>5. PICK m, e : Chain(m, e) /\ Others(m, e)
  BY DEF Linked
<1>6. m = 0
  BY <1>2, <1>5, NoChain
<1>7. ASSUME NEW q \in Procs \ {Shell, b}, u'.state[q] = "running"
      PROVE  Simple(q)' /\ Free(q)'
  <2>1. u.state[q] = "running" /\ (Simple(q) => Simple(q)') /\ (Back(q) => Back(q)')
    BY <1>3, <1>7, GrowsKeeps, ShellAssumption
  <2>2. ~InChain(m, e, q) /\ ~WaitedBy(m, e, q)
    BY <1>6 DEF InChain, WaitedBy
  <2>3. Simple(q) /\ Free(q)
    BY <1>5, <2>1, <2>2, OthersIs
  <2> QED
    BY <1>2, <2>1, <2>3 DEF Free
<1>8. CASE d.type = "BACK"
  <2>1. Simple(b)'
    BY <1>4, <1>8, Kinds DEF Simple
  <2>2. Free(b)'
    BY <1>4, <1>8 DEF Free, Back, Statuses
  <2>3. Others(0, e)'
    BY <1>7, <2>1, <2>2, OthersNext
  <2> QED
    BY <2>3, EmptyChain DEF Linked
<1>9. CASE d.type # "BACK"
  <2>1. PICK f : f = <<b>>
    OBVIOUS
  <2>2. kids[Shell] = <<>>
    BY <1>2, ShellAssumption DEF Local, Known
  <2>3. pc'[Shell] = "wait" /\ kids'[Shell][1] = b
    BY <1>3, <1>4, <1>9, <2>2
  <2>4. Chain(1, f)'
    <3>1. f[1] = b /\ \A j \in 1..1 : j = 1
      BY <2>1
    <3>2. \A j \in 1..1 : f[j] \in Procs \ {Shell} /\ Running(u, f[j])'
      BY <1>4, <3>1 DEF Running
    <3>3. \A j \in 2..1 : FALSE
      OBVIOUS
    <3> QED
      BY <2>3, <3>1, <3>2, <3>3 DEF Chain
  <2>5. Others(1, f)'
    <3>1. InChain(1, f, b)
      BY <2>1 DEF InChain
    <3> QED
      BY <1>7, <3>1, OthersNext
  <2> QED
    BY <2>4, <2>5 DEF Linked
<1> QED
  BY <1>8, <1>9

\* One that does not wait for the next one is the last of the chain
LEMMA TipIs ==
    ASSUME NEW m, NEW c, Chain(m, c), NEW j \in 1..m, NEW p, c[j] = p, pc[p] = "wait" => kids[p] = <<>>
    PROVE  m \in Nat /\ j = m
<1>1. m \in Nat
  BY DEF Chain
<1>2. ASSUME j # m
      PROVE  FALSE
  <2>1. PICK i \in 2..m : i - 1 = j
    BY <1>1, <1>2
  <2>2. pc[c[i - 1]] = "wait" /\ kids[c[i - 1]] # <<>>
    BY DEF Chain
  <2> QED
    BY <2>1, <2>2
<1> QED
  BY <1>1, <1>2

LEMMA ForkLeftLinked ==
    ASSUME TypeOK, \A q \in Procs : Local(q), Linked, NEW p \in Procs, ForkLeft(p)
    PROVE  Linked'
<1>1. PICK b \in Procs : ForkStep(p, b, cmd[p].left, "left", "right", TRUE)
  BY ForkLeftEs
<1>2. Running(u, p) /\ pc[p] = "pipe" /\ failed' = failed
  BY DEF ForkLeft, At, shellvars
<1>3. p # Shell /\ Running(u, Shell)
  BY <1>2, ShellWaits
<1>4. Grows(p, b, cmd[p].left, "left", "right", TRUE)
  BY <1>1, ForkFields
<1>5. /\ u.state[b] = "none" /\ u'.state[b] = "running" /\ pc'[b] = "born" /\ cmd'[b] = cmd[p].left
      /\ kids'[p] = Append(kids[p], b) /\ b # p /\ u'.state[p] = u.state[p]
  BY <1>4 DEF Grows
<1>6. b # Shell
  BY <1>3, <1>5, RunningIs
<1>7. ASSUME NEW q \in Procs \ {b, p}
      PROVE  /\ u'.state[q] = u.state[q] /\ kids'[q] = kids[q] /\ pc'[q] = pc[q]
             /\ Simple(q) => Simple(q)'
             /\ Back(q) => Back(q)'
  BY <1>4, GrowsKeeps
<1>8. PICK m, c : Chain(m, c) /\ Others(m, c)
  BY DEF Linked
<1>9. PICK j \in 1..m : c[j] = p
  <2>1. ~Simple(p) /\ u.state[p] = "running"
    BY <1>2, RunningIs DEF Simple
  <2> QED
    BY <1>3, <1>8, <2>1, OthersIs DEF InChain
<1>10. m \in Nat /\ j = m
  BY <1>2, <1>8, <1>9, TipIs
<1>11. kids[p] = <<>> /\ cmd[p] \in Pipelines
  BY <1>2, <1>3 DEF Local, Known
<1>12. Len(kids'[p]) = 1 /\ kids'[p][1] = b
  BY <1>5, <1>11
<1>13. \A i \in 1..m : c[i] \in Procs \ {Shell} /\ u.state[c[i]] = "running" /\ c[i] # b
  BY <1>5, <1>8 DEF Chain, Running
<1>14. Chain(m, c)'
  <2>1. pc'[Shell] = pc[Shell] /\ kids'[Shell] = kids[Shell]
    BY <1>3, <1>6, <1>7, ShellAssumption
  <2>2. \A i \in 1..m : Running(u, c[i])'
    <3>1. \A i \in 1..m : u'.state[c[i]] = "running"
      BY <1>2, <1>5, <1>7, <1>13, RunningIs
    <3> QED
      BY <3>1 DEF Running
  <2>3. ASSUME NEW i \in 2..m
        PROVE  pc'[c[i - 1]] = "wait" /\ kids'[c[i - 1]] # <<>>
               /\ kids'[c[i - 1]][Len(kids'[c[i - 1]])] = c[i]
    <3>1. PICK x, y : x = c[i - 1] /\ y = c[i]
      OBVIOUS
    <3>2. pc[x] = "wait" /\ kids[x] # <<>> /\ kids[x][Len(kids[x])] = y
      BY <1>8, <3>1 DEF Chain
    <3>3. x \in Procs /\ x # b /\ x # p
      <4>1. i - 1 \in 1..m
        BY <1>10
      <4> QED
        BY <1>2, <1>13, <3>1, <3>2, <4>1
    <3> QED
      BY <1>7, <3>1, <3>2, <3>3
  <2> QED
    BY <1>8, <1>13, <2>1, <2>2, <2>3 DEF Chain
<1>15. Others(m, c)'
  <2> SUFFICES ASSUME NEW q \in Procs \ {Shell}, u'.state[q] = "running", ~InChain(m, c, q)
               PROVE  Simple(q)' /\ (Free(q)' \/ WaitedBy(m, c, q)')
    BY OthersNext
  <2>1. CASE q = b
    <3>1. Simple(b)'
      BY <1>5, <1>11, Kinds DEF Simple
    <3>2. WaitedBy(m, c, b)'
      <4>1. 1 \in 1..Len(kids'[c[j]]) /\ kids'[c[j]][1] = b
        BY <1>9, <1>12
      <4> QED
        BY <4>1 DEF WaitedBy
    <3> QED
      BY <2>1, <3>1, <3>2
  <2>2. CASE q # b
    <3>1. q # p
      BY <1>9 DEF InChain
    <3>2. u.state[q] = "running" /\ (Simple(q) => Simple(q)') /\ (Back(q) => Back(q)')
      BY <1>7, <2>2, <3>1
    <3>3. Simple(q) /\ (Free(q) \/ WaitedBy(m, c, q))
      BY <1>8, <3>2, OthersIs
    <3>4. Free(q) => Free(q)'
      <4>1. pc'[Shell] = pc[Shell]
        BY <1>3, <1>6, <1>7, ShellAssumption
      <4> QED
        BY <1>2, <3>2, <4>1, FreeKeep
    <3>5. ASSUME WaitedBy(m, c, q)
          PROVE  WaitedBy(m, c, q)'
      <4>1. PICK i \in 1..m : \E k \in 1..Len(kids[c[i]]) : kids[c[i]][k] = q
        BY <3>5 DEF WaitedBy
      <4>2. c[i] # p
        BY <1>11, <4>1
      <4>3. kids'[c[i]] = kids[c[i]]
        BY <1>7, <1>13, <4>2
      <4> QED
        BY <4>1, <4>3 DEF WaitedBy
    <3> QED
      BY <3>2, <3>3, <3>4, <3>5
  <2> QED
    BY <2>1, <2>2
<1> QED
  BY <1>14, <1>15 DEF Linked

LEMMA ForkRightLinked ==
    ASSUME TypeOK, \A q \in Procs : Local(q), Linked, NEW p \in Procs, ForkRight(p)
    PROVE  Linked'
<1>1. PICK b \in Procs : ForkStep(p, b, cmd[p].right, "right", "wait", TRUE)
  BY ForkRightEs
<1>2. Running(u, p) /\ pc[p] = "right" /\ failed' = failed
  BY DEF ForkRight, At, shellvars
<1>3. p # Shell /\ Running(u, Shell)
  BY <1>2, ShellWaits
<1>4. Grows(p, b, cmd[p].right, "right", "wait", TRUE)
  BY <1>1, ForkFields
<1>5. /\ u.state[b] = "none" /\ u'.state[b] = "running" /\ pc'[p] = "wait"
      /\ kids'[p] = Append(kids[p], b) /\ b # p /\ u'.state[p] = u.state[p]
  BY <1>4 DEF Grows
<1>6. b # Shell
  BY <1>3, <1>5, RunningIs
<1>7. ASSUME NEW q \in Procs \ {b, p}
      PROVE  /\ u'.state[q] = u.state[q] /\ kids'[q] = kids[q] /\ pc'[q] = pc[q]
             /\ Simple(q) => Simple(q)'
             /\ Back(q) => Back(q)'
  BY <1>4, GrowsKeeps
<1>8. PICK m, c : Chain(m, c) /\ Others(m, c)
  BY DEF Linked
<1>9. PICK j \in 1..m : c[j] = p
  <2>1. ~Simple(p) /\ u.state[p] = "running"
    BY <1>2, RunningIs DEF Simple
  <2> QED
    BY <1>3, <1>8, <2>1, OthersIs DEF InChain
<1>10. m \in Nat /\ j = m
  BY <1>2, <1>8, <1>9, TipIs
<1>11. kids[p] \in Seq(Procs)
  BY Typed DEF KidsType
<1>12. /\ kids'[p] # <<>> /\ kids'[p][Len(kids'[p])] = b
       /\ \A k \in 1..Len(kids[p]) : k \in 1..Len(kids'[p]) /\ kids'[p][k] = kids[p][k]
  BY <1>5, <1>11
<1>13. \A i \in 1..m : c[i] \in Procs \ {Shell} /\ u.state[c[i]] = "running" /\ c[i] # b
  BY <1>5, <1>8 DEF Chain, Running
<1>14. PICK d : d = [i \in 1..m + 1 |-> IF i <= m THEN c[i] ELSE b]
  OBVIOUS
<1>15. /\ \A i \in 1..m : i \in 1..m + 1 /\ d[i] = c[i]
       /\ m + 1 \in 1..m + 1 /\ d[m + 1] = b /\ d[m] = p
       /\ \A i \in 1..m + 1 : i \in 1..m \/ i = m + 1
  BY <1>9, <1>10, <1>14
<1>16. Chain(m + 1, d)'
  <2>1. pc'[Shell] = pc[Shell] /\ kids'[Shell] = kids[Shell]
    BY <1>3, <1>6, <1>7, ShellAssumption
  <2>2. pc'[Shell] = "wait" /\ kids'[Shell][1] = d[1]
    <3>1. 1 \in 1..m /\ m > 0
      BY <1>9, <1>10
    <3> QED
      BY <1>8, <1>15, <2>1, <3>1 DEF Chain
  <2>3. \A i \in 1..m + 1 : d[i] \in Procs \ {Shell} /\ Running(u, d[i])'
    <3>1. \A i \in 1..m : u'.state[c[i]] = "running"
      BY <1>2, <1>5, <1>7, <1>13, RunningIs
    <3> QED
      BY <1>5, <1>6, <1>13, <1>15, <3>1 DEF Running
  <2>4. \A i, k \in 1..m + 1 : d[i] = d[k] => i = k
    <3>1. \A i, k \in 1..m : c[i] = c[k] => i = k
      BY <1>8 DEF Chain
    <3> QED
      BY <1>13, <1>15, <3>1
  <2>5. ASSUME NEW i \in 2..m + 1
        PROVE  pc'[d[i - 1]] = "wait" /\ kids'[d[i - 1]] # <<>>
               /\ kids'[d[i - 1]][Len(kids'[d[i - 1]])] = d[i]
    <3>1. PICK h \in 1..m : h = i - 1 /\ i = h + 1
      BY <1>10
    <3>2. CASE h = m
      <4>1. d[h] = p /\ d[i] = b
        BY <1>15, <3>1, <3>2
      <4> QED
        BY <1>5, <1>12, <3>1, <4>1
    <3>3. CASE h # m
      <4>1. i \in 2..m /\ i \in 1..m
        BY <1>10, <3>1, <3>3
      <4>2. PICK x, y : x = c[h] /\ y = c[i] /\ d[h] = x /\ d[i] = y
        BY <1>15, <4>1
      <4>3. pc[x] = "wait" /\ kids[x] # <<>> /\ kids[x][Len(kids[x])] = y
        BY <1>8, <3>1, <4>1, <4>2 DEF Chain
      <4>4. x \in Procs /\ x # b /\ x # p
        BY <1>2, <1>13, <4>2, <4>3
      <4> QED
        BY <1>7, <3>1, <4>2, <4>3, <4>4
    <3> QED
      BY <3>2, <3>3
  <2>6. m + 1 \in Nat
    BY <1>10
  <2> QED
    BY <2>2, <2>3, <2>4, <2>5, <2>6 DEF Chain
<1>17. Others(m + 1, d)'
  <2> SUFFICES ASSUME NEW q \in Procs \ {Shell}, u'.state[q] = "running", ~InChain(m + 1, d, q)
               PROVE  Simple(q)' /\ (Free(q)' \/ WaitedBy(m + 1, d, q)')
    BY OthersNext
  <2>1. q # b /\ q # p /\ ~InChain(m, c, q)
    <3>1. \A i \in 1..m + 1 : d[i] # q
      BY DEF InChain
    <3>2. q # b /\ \A i \in 1..m : c[i] # q
      BY <1>15, <3>1
    <3> QED
      BY <1>9, <3>2 DEF InChain
  <2>2. u.state[q] = "running" /\ (Simple(q) => Simple(q)') /\ (Back(q) => Back(q)')
    BY <1>7, <2>1
  <2>3. Simple(q) /\ (Free(q) \/ WaitedBy(m, c, q))
    BY <1>8, <2>1, <2>2, OthersIs
  <2>4. Free(q) => Free(q)'
    <3>1. pc'[Shell] = pc[Shell]
      BY <1>3, <1>6, <1>7, ShellAssumption
    <3> QED
      BY <1>2, <2>2, <3>1, FreeKeep
  <2>5. ASSUME WaitedBy(m, c, q)
        PROVE  WaitedBy(m + 1, d, q)'
    <3>1. PICK i \in 1..m : \E k \in 1..Len(kids[c[i]]) : kids[c[i]][k] = q
      BY <2>5 DEF WaitedBy
    <3>2. PICK x : x = c[i] /\ x = d[i] /\ i \in 1..m + 1
      BY <1>15
    <3>3. \E k \in 1..Len(kids'[x]) : kids'[x][k] = q
      <4>1. CASE x = p
        BY <1>12, <3>1, <3>2, <4>1
      <4>2. CASE x # p
        <5>1. kids'[x] = kids[x]
          BY <1>7, <1>13, <3>2, <4>2
        <5> QED
          BY <3>1, <3>2, <5>1
      <4> QED
        BY <4>1, <4>2
    <3> QED
      BY <3>2, <3>3 DEF WaitedBy
  <2> QED
    BY <2>2, <2>3, <2>4, <2>5
<1> QED
  BY <1>16, <1>17 DEF Linked

\* p ends, with nobody to wait for unless a fork failed: its left side goes on
\* without it
LEMMA EndLinked ==
    ASSUME TypeOK, Linked, NEW p \in Procs \ {Shell}, NEW w, EndStep(p, w),
           pc[p] = "wait" => kids[p] = <<>>,
           kids[p] = <<>> \/ failed', failed => failed'
    PROVE  Linked'
<1>1. PICK m, c : Chain(m, c) /\ Others(m, c)
  BY DEF Linked
<1>2. /\ u.state[p] = "running" /\ u'.state[p] # "running"
      /\ \A q \in Procs \ {p} : u.state[q] = "running" <=> u'.state[q] = "running"
      /\ \A q \in Procs \ {p} : pc'[q] = pc[q] /\ cmd'[q] = cmd[q] /\ side'[q] = side[q] /\ kids'[q] = kids[q]
                                /\ pgid'[q] = pgid[q]
      /\ \A q \in Procs \ {p} : u.parent[q] = Shell => u'.parent[q] = Shell
  BY RunningIs DEF EndStep
<1>3. pc'[Shell] = pc[Shell] /\ kids'[Shell] = kids[Shell]
  BY <1>2, ShellAssumption
<1>4. ASSUME NEW q \in Procs \ {Shell}, u'.state[q] = "running"
      PROVE  q # p /\ u.state[q] = "running" /\ (Simple(q) => Simple(q)') /\ (Free(q) => Free(q)')
  <2>1. q # p /\ u.state[q] = "running"
    BY <1>2, <1>4
  <2>2. Simple(q) => Simple(q)'
    BY <1>2, <2>1, SimpleKeep
  <2>3. Back(q) => Back(q)'
    BY <1>2, <2>1 DEF Back
  <2>4. Free(q) => Free(q)'
    BY <1>3, <2>3, FreeKeep
  <2> QED
    BY <2>1, <2>2, <2>4
<1>5. \A i \in 1..m : c[i] \in Procs \ {Shell} /\ u.state[c[i]] = "running"
  BY <1>1 DEF Chain, Running
<1>6. CASE ~InChain(m, c, p)
  <2>1. \A i \in 1..m : c[i] # p
    BY <1>6 DEF InChain
  <2>2. \A i \in 1..m : u'.state[c[i]] = "running" /\ pc'[c[i]] = pc[c[i]] /\ kids'[c[i]] = kids[c[i]]
    BY <1>2, <1>5, <2>1
  <2>3. Chain(m, c)'
    BY <1>1, <1>3, <2>2, ChainKeep
  <2>4. Others(m, c)'
    BY <1>1, <1>4, <2>2, OthersKeep
  <2> QED
    BY <2>3, <2>4 DEF Linked
<1>7. CASE InChain(m, c, p)
  <2>1. PICK j \in 1..m : c[j] = p
    BY <1>7 DEF InChain
  <2>2. m \in Nat /\ j = m
    BY <1>1, <2>1, TipIs
  <2>3. PICK n \in Nat : n = m - 1
    BY <2>1, <2>2
  <2>4. \A i \in 1..n : i \in 1..m /\ c[i] # p
    <3>1. \A i, k \in 1..m : c[i] = c[k] => i = k
      BY <1>1 DEF Chain
    <3> QED
      BY <2>1, <2>2, <2>3, <3>1
  <2>5. \A i \in 1..n : u'.state[c[i]] = "running" /\ pc'[c[i]] = pc[c[i]] /\ kids'[c[i]] = kids[c[i]]
    BY <1>2, <1>5, <2>4
  <2>6. Chain(n, c)
    <3>1. \A i \in 1..n : c[i] \in Procs \ {Shell} /\ Running(u, c[i])
      BY <1>1, <2>4 DEF Chain
    <3>2. \A i, k \in 1..n : c[i] = c[k] => i = k
      BY <1>1, <2>4 DEF Chain
    <3>3. n > 0 => pc[Shell] = "wait" /\ kids[Shell][1] = c[1]
      BY <1>1, <2>2, <2>3 DEF Chain
    <3>4. \A i \in 2..n : pc[c[i - 1]] = "wait" /\ kids[c[i - 1]] # <<>>
                          /\ kids[c[i - 1]][Len(kids[c[i - 1]])] = c[i]
      <4>1. \A i \in 2..n : i \in 2..m
        BY <2>2, <2>3
      <4> QED
        BY <1>1, <4>1 DEF Chain
    <3> QED
      BY <3>1, <3>2, <3>3, <3>4 DEF Chain
  <2>7. Chain(n, c)'
    BY <1>3, <2>5, <2>6, ChainKeep
  <2>8. Others(n, c)'
    <3> SUFFICES ASSUME NEW q \in Procs \ {Shell}, u'.state[q] = "running", ~InChain(n, c, q)
                 PROVE  Simple(q)' /\ (Free(q)' \/ WaitedBy(n, c, q)')
      BY OthersNext
    <3>1. q # p /\ u.state[q] = "running" /\ (Simple(q) => Simple(q)') /\ (Free(q) => Free(q)')
      BY <1>4
    <3>2. ~InChain(m, c, q)
      <4>1. \A i \in 1..m : i \in 1..n \/ i = m
        BY <2>2, <2>3
      <4> QED
        BY <2>1, <2>2, <3>1, <4>1 DEF InChain
    <3>3. Simple(q) /\ (Free(q) \/ WaitedBy(m, c, q))
      BY <1>1, <3>1, <3>2, OthersIs
    <3>4. ASSUME WaitedBy(m, c, q), ~failed'
          PROVE  WaitedBy(n, c, q)'
      <4>1. PICK i \in 1..m : \E k \in 1..Len(kids[c[i]]) : kids[c[i]][k] = q
        BY <3>4 DEF WaitedBy
      <4>2. kids[p] = <<>>
        BY <3>4
      <4>3. i # m
        BY <2>1, <2>2, <4>1, <4>2
      <4>4. i \in 1..n
        BY <2>2, <2>3, <4>3
      <4> QED
        BY <2>5, <4>1, <4>4 DEF WaitedBy
    <3>5. failed' => Free(q)'
      BY DEF Free
    <3> QED
      BY <3>1, <3>3, <3>4, <3>5
  <2> QED
    BY <2>7, <2>8 DEF Linked
<1> QED
  BY <1>6, <1>7

LEMMA DiesLinked ==
    ASSUME TypeOK, \A q \in Procs : Local(q), Linked, NEW p \in Procs, Dies(p)
    PROVE  Linked'
<1>1. PICK w \in Raws : /\ EndStep(p, w)
                       /\ \/ pc[p] \in {"redir", "exec", "prog"}
                          \/ pc[p] = "wait" /\ kids[p] = <<>> /\ p # Shell
  BY DiesEs
<1>2. p # Shell /\ kids[p] = <<>>
  BY <1>1 DEF Local, Known
<1>3. failed' = failed
  BY DiesEs DEF shellvars
<1> QED
  BY <1>1, <1>2, <1>3, EndLinked

LEMMA PipeForkFailsLinked ==
    ASSUME TypeOK, \A q \in Procs : Local(q), Linked, NEW p \in Procs, PipeForkFails(p)
    PROVE  Linked'
<1>1. EndStep(p, SIGSEGV) /\ pc[p] \in {"pipe", "right"} /\ failed' = TRUE
  BY PipeForkFailsEs
<1>2. p # Shell
  BY <1>1 DEF Local, Known
<1>3. pc[p] # "wait" /\ failed'
  BY <1>1
<1> QED
  BY <1>1, <1>2, <1>3, EndLinked

LEMMA ShellEndsLinked ==
    ASSUME TypeOK, Linked, ShellEnds
    PROVE  Linked'
<1>1. EndStep(Shell, 0) /\ pc[Shell] = "prompt"
  BY ShellEndsEs
<1>2. PICK m, c : Chain(m, c) /\ Others(m, c)
  BY DEF Linked
<1>3. m = 0
  BY <1>1, <1>2, NoChain
<1>4. Others(0, c)'
  <2> SUFFICES ASSUME NEW q \in Procs \ {Shell}, u'.state[q] = "running"
               PROVE  Simple(q)' /\ Free(q)'
    BY OthersNext
  <2>1. pc'[q] = pc[q] /\ cmd'[q] = cmd[q] /\ u.state[q] = "running" /\ pc'[Shell] = "ended"
    BY <1>1 DEF EndStep
  <2>2. ~InChain(m, c, q)
    BY <1>3 DEF InChain
  <2>3. Simple(q)'
    BY <1>2, <2>1, <2>2, OthersIs, SimpleKeep
  <2> QED
    BY <2>1, <2>3 DEF Free
<1> QED
  BY <1>4, EmptyChain DEF Linked

LEMMA LinkedNext ==
    ASSUME TypeOK, \A q \in Procs : Local(q), Linked, Statuses, Next
    PROVE  Linked'
<1>1. ASSUME NEW p \in Procs, Step(p)
      PROVE  Linked'
  <2>1. CASE Dies(p)
    BY <2>1, DiesLinked
  <2>2. CASE Handler(p)
    BY <2>2, HandlerLinked
  <2>3. CASE Born(p)
    BY <2>3, BornLinked
  <2>4. CASE Redir(p)
    BY <2>4, RedirLinked
  <2>5. CASE Exec(p) \/ ProgWrite(p) \/ ProgRead(p)
    BY <2>5, ExecLinked
  <2>6. CASE ForkLeft(p)
    BY <2>6, ForkLeftLinked
  <2>7. CASE ForkRight(p)
    BY <2>7, ForkRightLinked
  <2>8. CASE PipeForkFails(p)
    BY <2>8, PipeForkFailsLinked
  <2>9. CASE WaitSide(p)
    BY <2>9, WaitSideLinked
  <2> QED
    BY <1>1, <2>1, <2>2, <2>3, <2>4, <2>5, <2>6, <2>7, <2>8, <2>9 DEF Step, Dies
<1>2. ASSUME NEW c \in Lines, RunCmd(c) \/ RunCmdFails(c)
      PROVE  Linked'
  BY <1>2, RunCmdLinked, RunCmdFailsLinked
<1>3. CASE WaitForeground \/ WaitAny
  BY <1>3, ForegroundLinked
<1>4. CASE ShellEnds
  BY <1>4, ShellEndsLinked
<1> QED
  BY <1>1, <1>2, <1>3, <1>4 DEF Next, User, System

-----------------------------------------------------------------------------
(***************************************************************************)
(* The status of the foreground command.                                   *)
(***************************************************************************)

LEMMA ForegroundKeep ==
    ASSUME NEW f, Foreground(f), u'.parent[f] = u.parent[f], u'.state[f] = u.state[f], pc'[f] = pc[f],
           cmd'[f] = cmd[f], side'[f] = side[f], pgid'[f] = pgid[f], raw'[f] = raw[f], last' \in {last, NoCmd}
    PROVE  Foreground(f)'
<1>1. last' # NoCmd => last' = last /\ last # NoCmd
  OBVIOUS
<1>2. ASSUME last' # NoCmd
      PROVE  Executes(f, last)'
  <2>1. Executes(f, last)
    BY <1>1, <1>2 DEF Foreground
  <2> QED
    BY <1>1, <1>2, <2>1 DEF Executes
<1> QED
  BY <1>2 DEF Foreground

LEMMA StatusesKeep ==
    ASSUME Statuses, pgid'[Shell] = pgid[Shell], u'.parent[Shell] = u.parent[Shell], pc'[Shell] = pc[Shell],
           kids'[Shell] = kids[Shell], last' \in {last, NoCmd}, status' = status,
           \A f : f = kids[Shell][1] /\ Foreground(f) /\ pc[Shell] = "wait" => Foreground(f)'
    PROVE  Statuses'
<1>1. pgid'[Shell] = Shell /\ u'.parent[Shell] = InitProc
  BY DEF Statuses
<1>2. pc'[Shell] = "waitany" => last' = NoCmd
  BY DEF Statuses
<1>3. pc'[Shell] = "prompt" /\ last' # NoCmd => status' = Outcome(last')
  BY DEF Statuses
<1>4. ASSUME pc'[Shell] = "wait"
      PROVE  Foreground(kids[Shell][1])'
  <2>1. PICK f : f = kids[Shell][1]
    OBVIOUS
  <2>2. Foreground(f)'
    BY <1>4, <2>1 DEF Statuses
  <2>3. f = kids'[Shell][1]
    BY <2>1
  <2> QED
    BY <2>2, <2>3
<1> QED
  BY <1>1, <1>2, <1>3, <1>4 DEF Statuses

\* A process does something of its own
LEMMA OwnStatuses ==
    ASSUME Statuses, NEW p \in Procs \ {Shell}, OwnStep(p), Foreground(p) => Foreground(p)'
    PROVE  Statuses'
<1>1. /\ u'.state = u.state /\ u'.parent = u.parent /\ kids' = kids /\ side' = side /\ raw' = raw
      /\ status' = status /\ last' = last
      /\ \A q \in Procs \ {p} : pc'[q] = pc[q] /\ cmd'[q] = cmd[q] /\ pgid'[q] = pgid[q]
  BY DEF OwnStep, shellvars
<1>2. ASSUME NEW f, Foreground(f)
      PROVE  Foreground(f)'
  <2>1. f \in Procs
    BY <1>2 DEF Foreground
  <2>2. CASE f = p
    BY <1>2, <2>2
  <2>3. CASE f # p
    BY <1>1, <1>2, <2>1, <2>3, ForegroundKeep
  <2> QED
    BY <2>2, <2>3
<1> QED
  BY <1>1, <1>2, StatusesKeep, ShellAssumption

LEMMA BornStatuses ==
    ASSUME TypeOK, \A q \in Procs : Local(q), Statuses, NEW p \in Procs, Born(p)
    PROVE  Statuses'
<1>1. Known(p) /\ pc[p] = "born"
  BY DEF Local, Born, At
<1>2. /\ OwnStep(p) /\ pc'[p] = Labels[cmd[p].type] /\ cmd'[p] = cmd[p] /\ cmd[p] \in Commands
      /\ pgid'[p] = IF side[p] = "run" /\ cmd[p].type = "BACK" THEN pgid[p] ELSE p
  BY <1>1, BornEs DEF Known
<1>3. p # Shell
  BY <1>1 DEF Known
<1>4. /\ u'.state = u.state /\ u'.parent = u.parent /\ side' = side /\ last' = last
  BY <1>2 DEF OwnStep, shellvars
<1>5. \/ cmd[p] \in Simples /\ pc'[p] = "exec"
      \/ cmd[p] \in Redirections /\ pc'[p] = "redir"
      \/ cmd[p] \in Pipelines /\ pc'[p] = "pipe"
  BY <1>2, Kinds, LabelsEs
<1>6. ASSUME Foreground(p)
      PROVE  Foreground(p)'
  <2>1. /\ p \in Procs \ {Shell} /\ u.parent[p] = Shell /\ u.state[p] # "none" /\ side[p] = "run"
        /\ cmd[p].type # "BACK"
        /\ last # NoCmd => cmd[p] = last
    BY <1>1, <1>6 DEF Foreground, Executes
  <2>2. pc'[p] # "born" /\ pc'[p] # "ended" /\ pc'[p] # "prog" /\ pgid'[p] = p
    BY <1>2, <1>5, <2>1
  <2>3. ASSUME last # NoCmd
        PROVE  Executes(p, last)'
    <3>1. cmd[p] = last
      BY <2>1, <2>3
    <3>2. cmd[p] \in Simples => cmd[p] \notin Redirections
      BY Kinds
    <3> QED
      BY <1>2, <1>4, <1>5, <3>1, <3>2 DEF Executes
  <2> QED
    BY <1>4, <2>1, <2>2, <2>3 DEF Foreground
<1> QED
  BY <1>2, <1>3, <1>6, OwnStatuses

LEMMA RedirStatuses ==
    ASSUME TypeOK, \A q \in Procs : Local(q), Statuses, NEW p \in Procs, Redir(p)
    PROVE  Statuses'
<1>1. Known(p) /\ pc[p] = "redir"
  BY DEF Local, Redir, At
<1>2. /\ OwnStep(p) /\ pc'[p] = "exec" /\ cmd[p] \in Redirections /\ ~CannotOpen(cmd[p])
      /\ cmd'[p].prog = cmd[p].prog /\ pgid'[p] = pgid[p]
  BY <1>1, RedirEs
<1>3. p # Shell
  BY <1>1 DEF Known
<1>4. u'.state = u.state /\ u'.parent = u.parent /\ side' = side /\ last' = last
  BY <1>2 DEF OwnStep, shellvars
<1>5. ASSUME Foreground(p)
      PROVE  Foreground(p)'
  <2>1. last # NoCmd => cmd[p] = last
    BY <1>1, <1>5 DEF Foreground, Executes
  <2>2. ASSUME last # NoCmd
        PROVE  Executes(p, last)'
    BY <1>2, <1>4, <2>1, <2>2 DEF Executes
  <2> QED
    BY <1>1, <1>2, <1>4, <1>5, <2>2 DEF Foreground
<1> QED
  BY <1>2, <1>3, <1>5, OwnStatuses

LEMMA ExecStatuses ==
    ASSUME TypeOK, \A q \in Procs : Local(q), Statuses, NEW p \in Procs, Exec(p) \/ ProgWrite(p) \/ ProgRead(p)
    PROVE  Statuses'
<1>1. /\ OwnStep(p) /\ pc[p] \in {"exec", "prog"} /\ pc'[p] = "prog" /\ cmd'[p] = cmd[p] /\ pgid'[p] = pgid[p]
      /\ pc[p] = "exec" => cmd[p].prog # "missing"
  BY ExecEs, ProgEs
<1>2. p # Shell
  BY <1>1 DEF Local, Known
<1>3. u'.state = u.state /\ u'.parent = u.parent /\ side' = side /\ last' = last
  BY <1>1 DEF OwnStep, shellvars
<1>4. ASSUME Foreground(p)
      PROVE  Foreground(p)'
  <2>1. ASSUME last # NoCmd
        PROVE  Executes(p, last)'
    <3>1. Executes(p, last)
      BY <1>4, <2>1 DEF Foreground
    <3> QED
      BY <1>1, <1>3, <3>1 DEF Executes
  <2> QED
    BY <1>1, <1>3, <1>4, <2>1 DEF Foreground
<1> QED
  BY <1>1, <1>2, <1>4, OwnStatuses

LEMMA DecodedIs ==
    ASSUME NEW c
    PROVE  /\ c.type # "PIPE" => /\ Decoded(c, ERROR * 256) = ERROR
                                 /\ Decoded(c, SIGABRT) = -SIGABRT
                                 /\ Decoded(c, 0) = 0
           /\ c.type = "PIPE" => Decoded(c, 0) = 0
<1>1. ERROR * 256 = 65280 /\ 65280 % 128 = 0 /\ (65280 \div 256) % 256 = 255 /\ ERROR = 255
  BY DEF ERROR
<1>2. SIGABRT = 6 /\ 6 % 128 = 6 /\ 0 % 128 = 0 /\ (0 \div 256) % 256 = 0
  BY DEF SIGABRT
<1>3. c.type # "PIPE" => Decoded(c, ERROR * 256) = ERROR
  BY <1>1 DEF Decoded
<1>4. c.type # "PIPE" => Decoded(c, SIGABRT) = -SIGABRT
  BY <1>2 DEF Decoded
<1>5. Decoded(c, 0) = 0
  BY <1>2 DEF Decoded
<1> QED
  BY <1>3, <1>4, <1>5

LEMMA OutcomeIs ==
    ASSUME NEW c
    PROVE  /\ c \in Pipelines => Outcome(c) = 0
           /\ c \in Redirections /\ CannotOpen(c) => Outcome(c) = ERROR
           /\ c \in Simples \/ (c \in Redirections /\ ~CannotOpen(c)) =>
                 /\ c.prog = "missing" => Outcome(c) = ERROR
                 /\ c.prog = "crash" => Outcome(c) = -SIGABRT
                 /\ c.prog \notin {"missing", "crash"} => Outcome(c) = 0
<1>1. /\ c \in Pipelines => c.type = "PIPE"
      /\ c \in Redirections => c.type = "REDIR"
      /\ c \in Simples => c.type \in {"EXEC", "BACK"}
  BY Kinds
<1> QED
  BY <1>1 DEF Outcome

\* The way the foreground child ends is what the command says
LEMMA OutcomeKept ==
    ASSUME TypeOK, NEW p \in Procs, Local(p), NEW l, Executes(p, l), side[p] = "run", l \in Commands,
           Dies(p), NEW w, EndStep(p, w),
           \/ pc[p] = "redir" /\ CannotOpen(cmd[p]) /\ w = ERROR * 256
           \/ pc[p] = "exec" /\ cmd[p].prog = "missing" /\ w = ERROR * 256
           \/ p # Shell /\ pc[p] = "wait" /\ kids[p] = <<>> /\ w = 0
           \/ pc[p] = "prog" /\ Broken(u, p, "1") /\ w = SIGPIPE
           \/ pc[p] = "prog" /\ cmd[p].prog = "crash" /\ w = SIGABRT
           \/ pc[p] = "prog" /\ cmd[p].prog # "crash" /\ w = 0
    PROVE  Decoded(l, w) = Outcome(l)
<1>1. Known(p) /\ Running(u, p) /\ Standard(p)
  BY DEF Local, EndStep
<1>2. ~Broken(u, p, "1")
  <2>1. u.fds[p]["1"] = Plain
    BY <1>1, StdNames DEF Standard
  <2> QED
    BY <2>1, FdsDiffer DEF Broken, IsPipe
<1>3. /\ l \in Simples \cup Redirections => l.type # "PIPE"
      /\ l \in Pipelines => l.type = "PIPE"
  BY Kinds
<1>4. CASE pc[p] = "redir" /\ CannotOpen(cmd[p]) /\ w = ERROR * 256
  <2>1. l \in Redirections /\ CannotOpen(l)
    BY <1>1, <1>4 DEF Known, Executes
  <2> QED
    BY <1>3, <1>4, <2>1, DecodedIs, OutcomeIs
<1>5. CASE pc[p] = "exec" /\ cmd[p].prog = "missing" /\ w = ERROR * 256
  <2>1. l \in Simples \cup Redirections /\ (l \in Redirections => ~CannotOpen(l)) /\ l.prog = "missing"
    BY <1>5 DEF Executes
  <2> QED
    BY <1>3, <1>5, <2>1, DecodedIs, OutcomeIs
<1>6. CASE p # Shell /\ pc[p] = "wait" /\ kids[p] = <<>> /\ w = 0
  <2>1. l \in Pipelines
    BY <1>6 DEF Executes
  <2> QED
    BY <1>3, <1>6, <2>1, DecodedIs, OutcomeIs
<1>7. ASSUME pc[p] = "prog"
      PROVE  l \in Simples \cup Redirections /\ (l \in Redirections => ~CannotOpen(l))
             /\ l.prog = cmd[p].prog /\ l.prog # "missing"
  BY <1>7 DEF Executes
<1>8. CASE pc[p] = "prog" /\ cmd[p].prog = "crash" /\ w = SIGABRT
  BY <1>3, <1>7, <1>8, DecodedIs, OutcomeIs
<1>9. CASE pc[p] = "prog" /\ cmd[p].prog # "crash" /\ w = 0
  BY <1>3, <1>7, <1>9, DecodedIs, OutcomeIs
<1> QED
  BY <1>2, <1>4, <1>5, <1>6, <1>8, <1>9

\* p is not the shell, and ends with w
LEMMA EndStatuses ==
    ASSUME TypeOK, Statuses, NEW p \in Procs \ {Shell}, NEW w, EndStep(p, w), last' \in {last, NoCmd}, status' = status,
           last' # NoCmd /\ Foreground(p) => Decoded(last', w) = Outcome(last'), pc[p] # "born"
    PROVE  Statuses'
<1>1. u.parent[Shell] = InitProc /\ InitProc \notin Procs
  BY InitProcAssumption DEF Statuses
<1>2. /\ pgid'[Shell] = pgid[Shell] /\ pc'[Shell] = pc[Shell] /\ kids'[Shell] = kids[Shell]
      /\ u'.parent[Shell] = u.parent[Shell]
  BY <1>1, ShellAssumption DEF EndStep
<1>3. ASSUME NEW f, Foreground(f)
      PROVE  Foreground(f)'
  <2>1. f \in Procs \ {Shell} /\ u.parent[f] = Shell /\ u.state[f] # "none"
    BY <1>3 DEF Foreground
  <2>2. Shell # InitProc /\ Shell # p
    BY ShellAssumption, InitProcAssumption
  <2>3. u'.parent[f] = Shell /\ u'.state[f] # "none"
    BY <2>1, <2>2 DEF EndStep
  <2>4. CASE f # p
    <3>1. /\ u'.state[f] = u.state[f] /\ pc'[f] = pc[f] /\ cmd'[f] = cmd[f] /\ side'[f] = side[f]
          /\ pgid'[f] = pgid[f] /\ raw'[f] = raw[f]
      BY <2>1, <2>2, <2>4 DEF EndStep
    <3> QED
      BY <1>3, <2>1, <2>3, <3>1, ForegroundKeep
  <2>5. CASE f = p
    <3>1. pc'[p] = "ended" /\ raw'[p] = w /\ pgid'[p] = pgid[p]
      BY <2>1, <2>2, <2>5 DEF EndStep
    <3>2. pgid[p] = p
      BY <1>3, <2>5 DEF Foreground
    <3>3. last' # NoCmd => Executes(p, last)'
      BY <1>3, <2>5, <3>1 DEF Executes
    <3> QED
      BY <2>1, <2>3, <2>5, <3>1, <3>2, <3>3 DEF Foreground
  <2> QED
    BY <2>4, <2>5
<1> QED
  BY <1>2, <1>3, StatusesKeep

LEMMA DiesStatuses ==
    ASSUME TypeOK, \A q \in Procs : Local(q), Statuses, NEW p \in Procs, Dies(p)
    PROVE  Statuses'
<1>1. PICK w \in Raws :
         /\ EndStep(p, w)
         /\ \/ pc[p] = "redir" /\ CannotOpen(cmd[p]) /\ w = ERROR * 256
            \/ pc[p] = "exec" /\ cmd[p].prog = "missing" /\ w = ERROR * 256
            \/ p # Shell /\ pc[p] = "wait" /\ kids[p] = <<>> /\ w = 0
            \/ pc[p] = "prog" /\ Broken(u, p, "1") /\ w = SIGPIPE
            \/ pc[p] = "prog" /\ cmd[p].prog = "crash" /\ w = SIGABRT
            \/ pc[p] = "prog" /\ cmd[p].prog # "crash" /\ w = 0
  BY DiesEs
<1>2. last' = last /\ status' = status
  BY DiesEs DEF shellvars
<1>3. p # Shell /\ pc[p] # "born" /\ pc[p] # "ended"
  BY <1>1 DEF Local, Known
<1>4. ASSUME last # NoCmd, Foreground(p)
      PROVE  Decoded(last, w) = Outcome(last)
  <2>1. PICK l : l = last
    OBVIOUS
  <2>2. Executes(p, l) /\ side[p] = "run" /\ l \in Commands
    BY <1>3, <1>4, <2>1, Typed, CommandsAssumption DEF Foreground, ShellType
  <2> QED
    BY <1>1, <2>1, <2>2, OutcomeKept
<1> QED
  BY <1>1, <1>2, <1>3, <1>4, EndStatuses

LEMMA PipeForkFailsStatuses ==
    ASSUME TypeOK, \A q \in Procs : Local(q), Statuses, NEW p \in Procs, PipeForkFails(p)
    PROVE  Statuses'
<1>1. EndStep(p, SIGSEGV) /\ pc[p] \in {"pipe", "right"} /\ last' = NoCmd /\ status' = status
  BY PipeForkFailsEs
<1>2. p # Shell
  BY <1>1 DEF Local, Known
<1> QED
  BY <1>1, <1>2, EndStatuses

\* Somebody else's zombies, or those of another group, are waited for
LEMMA ReapStatuses ==
    ASSUME TypeOK, Statuses, NEW S, ReapStep(S), UNCHANGED <<pc, cmd>>, UNCHANGED shellvars,
           kids'[Shell] = kids[Shell], Shell \notin S, \A f : Foreground(f) => f \notin S
    PROVE  Statuses'
<1>1. /\ pgid'[Shell] = pgid[Shell] /\ u'.parent[Shell] = u.parent[Shell] /\ pc' = pc /\ cmd' = cmd
      /\ status' = status /\ last' = last
  BY ShellAssumption DEF ReapStep, shellvars
<1>2. ASSUME NEW f, Foreground(f)
      PROVE  Foreground(f)'
  <2>1. f \in Procs /\ f \notin S
    BY <1>2 DEF Foreground
  <2>2. /\ u'.parent[f] = u.parent[f] /\ u'.state[f] = u.state[f] /\ side'[f] = side[f]
        /\ pgid'[f] = pgid[f] /\ raw'[f] = raw[f]
    BY <2>1 DEF ReapStep
  <2> QED
    BY <1>1, <1>2, <2>2, ForegroundKeep
<1> QED
  BY <1>1, <1>2, StatusesKeep

LEMMA HandlerStatuses ==
    ASSUME TypeOK, \A q \in Procs : Local(q), Statuses, NEW p \in Procs, Handler(p)
    PROVE  Statuses'
<1>1. PICK S : /\ ReapStep(S) /\ UNCHANGED <<pc, cmd, kids>> /\ UNCHANGED shellvars
               /\ \A c \in S : u.parent[c] = p /\ pgid[c] = pgid[p]
  BY HandlerEs
<1>2. Shell \notin S
  BY <1>1, InitProcAssumption DEF Statuses
<1>3. ASSUME NEW f, Foreground(f), f \in S
      PROVE  FALSE
  <2>1. f \in Procs \ {Shell} /\ u.parent[f] = Shell /\ (pc[f] # "born" => pgid[f] = f)
    BY <1>3 DEF Foreground
  <2>2. p = Shell /\ pgid[f] = Shell
    BY <1>1, <1>3, <2>1 DEF Statuses
  <2>3. pc[f] = "ended"
    BY <1>1, <1>3, <2>1 DEF ReapStep, Local, Known
  <2> QED
    BY <2>1, <2>2, <2>3
<1> QED
  BY <1>1, <1>2, <1>3, ReapStatuses

LEMMA WaitSideStatuses ==
    ASSUME TypeOK, Statuses, NEW p \in Procs, WaitSide(p)
    PROVE  Statuses'
<1>1. PICK h : h = Head(kids[p])
  OBVIOUS
<1>2. /\ ReapStep({h}) /\ u.parent[h] = p /\ p # Shell
      /\ kids' = [kids EXCEPT ![p] = Tail(kids[p])] /\ UNCHANGED <<pc, cmd>> /\ UNCHANGED shellvars
  BY <1>1, WaitSideEs
<1>3. kids'[Shell] = kids[Shell]
  BY <1>2, Typed, ShellAssumption DEF KidsType
<1>4. h # Shell /\ \A f : Foreground(f) => f # h
  BY <1>2, InitProcAssumption DEF Statuses, Foreground
<1> QED
  BY <1>2, <1>3, <1>4, ReapStatuses

LEMMA ForegroundStatuses ==
    ASSUME TypeOK, \A q \in Procs : Local(q), Statuses, WaitForeground
    PROVE  Statuses'
<1>1. PICK f, S : f = Head(kids[Shell]) /\ S = {f} \cap Zombies(Shell)
  OBVIOUS
<1>2. /\ ReapStep(S) /\ pc[Shell] = "wait" /\ Running(u, Shell)
      /\ f \notin Children(u, Shell) \/ u.state[f] = "zombie"
      /\ status' = Decoded(last, IF f \notin Children(u, Shell) THEN status ELSE raw[f])
      /\ pc' = [pc EXCEPT ![Shell] = "prompt"] /\ last' = last
  BY <1>1, ForegroundEs
<1>3. f = kids[Shell][1]
  <2>1. kids[Shell] \in Seq(Procs) /\ Len(kids[Shell]) = 1
    BY <1>2, Typed, ShellAssumption DEF Local, Known, KidsType
  <2> QED
    BY <1>1, <2>1
<1>4. Foreground(f)
  BY <1>2, <1>3 DEF Statuses
<1>5. f \in Procs \ {Shell} /\ f \in Children(u, Shell) /\ u.state[f] = "zombie"
  BY <1>2, <1>4 DEF Foreground, Children
<1>6. status' = Decoded(last, raw[f])
  BY <1>2, <1>5
<1>7. pc[f] = "ended"
  BY <1>5 DEF Local, Known
<1>8. last # NoCmd => status' = Outcome(last)
  BY <1>4, <1>6, <1>7 DEF Foreground, Executes
<1>9. Shell \notin S
  BY <1>1, <1>5
<1>10. pgid'[Shell] = Shell /\ u'.parent[Shell] = InitProc
  BY <1>2, <1>9, ShellAssumption DEF ReapStep, Statuses
<1>11. pc'[Shell] = "prompt"
  BY <1>2, Typed, ShellAssumption DEF PcType
<1> QED
  BY <1>2, <1>8, <1>10, <1>11 DEF Statuses

LEMMA WaitAnyStatuses ==
    ASSUME TypeOK, Statuses, WaitAny
    PROVE  Statuses'
<1>1. PICK S : ReapStep(S)
  BY WaitAnyEs
<1>2. pc[Shell] = "waitany" /\ Running(u, Shell) /\ pc' = [pc EXCEPT ![Shell] = "prompt"] /\ last' = last
  BY WaitAnyEs
<1>3. Shell \notin S
  BY <1>1, <1>2, ShellAssumption, RunningIs DEF ReapStep
<1>4. pgid'[Shell] = Shell /\ u'.parent[Shell] = InitProc
  BY <1>1, <1>3, ShellAssumption DEF ReapStep, Statuses
<1>5. pc'[Shell] = "prompt" /\ last' = NoCmd
  BY <1>2, Typed, ShellAssumption DEF PcType, Statuses
<1> QED
  BY <1>4, <1>5 DEF Statuses

LEMMA RunCmdFailsStatuses ==
    ASSUME TypeOK, Statuses, NEW c \in Lines, RunCmdFails(c)
    PROVE  Statuses'
<1>1. /\ pc[Shell] = "prompt" /\ pc' = [pc EXCEPT ![Shell] = IF c.type = "BACK" THEN "prompt" ELSE "waitany"]
      /\ last' = (IF c.type = "BACK" THEN last ELSE NoCmd) /\ UNCHANGED <<u, pgid, status>>
  BY DEF RunCmdFails, At, Goto
<1>2. pc'[Shell] = IF c.type = "BACK" THEN "prompt" ELSE "waitany"
  BY <1>1, Typed, ShellAssumption DEF PcType
<1>3. CASE c.type = "BACK"
  BY <1>1, <1>2, <1>3 DEF Statuses
<1>4. CASE c.type # "BACK"
  BY <1>1, <1>2, <1>4 DEF Statuses
<1> QED
  BY <1>3, <1>4

LEMMA RunCmdStatuses ==
    ASSUME TypeOK, \A q \in Procs : Local(q), Statuses, NEW d \in Lines, RunCmd(d)
    PROVE  Statuses'
<1>1. PICK b \in Procs :
         ForkStep(Shell, b, d, "run", IF d.type = "BACK" THEN "prompt" ELSE "wait", d.type # "BACK")
  BY RunCmdEs
<1>2. /\ Running(u, Shell) /\ pc[Shell] = "prompt" /\ status' = status
      /\ last' = IF d.type = "BACK" THEN last ELSE d
  BY DEF RunCmd, At
<1>3. PICK label, waited :
         /\ Grows(Shell, b, d, "run", label, waited)
         /\ label = IF d.type = "BACK" THEN "prompt" ELSE "wait"
         /\ waited = (d.type # "BACK")
  <2>1. PICK label, waited : /\ label = IF d.type = "BACK" THEN "prompt" ELSE "wait"
                             /\ waited = (d.type # "BACK")
    OBVIOUS
  <2>2. ForkStep(Shell, b, d, "run", label, waited)
    BY <1>1, <2>1
  <2>3. Grows(Shell, b, d, "run", label, waited)
    BY <2>2, ForkFields, ShellAssumption
  <2> QED
    BY <2>1, <2>3
<1>4. /\ b # Shell /\ u'.state[b] = "running" /\ u'.parent[b] = Shell /\ pc'[b] = "born" /\ cmd'[b] = d
      /\ side'[b] = "run" /\ pc'[Shell] = label
      /\ kids'[Shell] = IF waited THEN Append(kids[Shell], b) ELSE kids[Shell]
      /\ pgid'[Shell] = pgid[Shell] /\ u'.parent[Shell] = u.parent[Shell]
  BY <1>3, ShellAssumption DEF Grows
<1>5. pgid'[Shell] = Shell /\ u'.parent[Shell] = InitProc
  BY <1>4 DEF Statuses
<1>6. CASE d.type = "BACK"
  <2>1. pc'[Shell] = "prompt" /\ last' = last
    BY <1>2, <1>3, <1>4, <1>6
  <2> QED
    BY <1>2, <1>5, <2>1 DEF Statuses
<1>7. CASE d.type # "BACK"
  <2>1. pc'[Shell] = "wait" /\ last' = d /\ kids'[Shell] = Append(kids[Shell], b)
    BY <1>2, <1>3, <1>4, <1>7
  <2>2. kids[Shell] = <<>>
    BY <1>2, ShellAssumption DEF Local, Known
  <2>3. kids'[Shell][1] = b
    BY <2>1, <2>2
  <2>4. Executes(b, last)'
    BY <1>4, <2>1 DEF Executes
  <2>5. Foreground(b)'
    BY <1>4, <1>7, <2>4 DEF Foreground
  <2> QED
    BY <1>5, <2>1, <2>3, <2>5 DEF Statuses
<1> QED
  BY <1>6, <1>7

\* One side of a pipeline is forked
LEMMA GrowsStatuses ==
    ASSUME TypeOK, Statuses, NEW p \in Procs \ {Shell}, NEW b \in Procs \ {Shell},
           NEW command, NEW where, NEW label, NEW waited,
           Grows(p, b, command, where, label, waited), UNCHANGED shellvars,
           pc[p] \in {"pipe", "right"}, label \in {"right", "wait"}
    PROVE  Statuses'
<1>1. status' = status /\ last' = last
  BY DEF shellvars
<1>2. /\ pgid'[Shell] = pgid[Shell] /\ u'.parent[Shell] = u.parent[Shell] /\ pc'[Shell] = pc[Shell]
      /\ kids'[Shell] = kids[Shell]
  BY ShellAssumption DEF Grows
<1>3. ASSUME NEW f, Foreground(f)
      PROVE  Foreground(f)'
  <2>1. f \in Procs /\ f # b
    BY <1>3 DEF Foreground, Grows
  <2>2. /\ u'.parent[f] = u.parent[f] /\ u'.state[f] = u.state[f] /\ side'[f] = side[f]
        /\ cmd'[f] = cmd[f] /\ pgid'[f] = pgid[f] /\ raw'[f] = raw[f]
    BY <2>1 DEF Grows
  <2>3. CASE f # p
    <3>1. pc'[f] = pc[f]
      BY <2>1, <2>3 DEF Grows
    <3> QED
      BY <1>1, <1>3, <2>2, <3>1, ForegroundKeep
  <2>4. CASE f = p
    <3>1. pc'[p] = label
      BY DEF Grows
    <3>2. last' # NoCmd => Executes(p, last)'
      BY <1>1, <1>3, <2>4, <3>1 DEF Foreground, Executes
    <3> QED
      BY <1>3, <2>2, <2>4, <3>1, <3>2 DEF Foreground
  <2> QED
    BY <2>3, <2>4
<1> QED
  BY <1>1, <1>2, <1>3, StatusesKeep

LEMMA ForkStatuses ==
    ASSUME TypeOK, \A q \in Procs : Local(q), Linked, Statuses, NEW p \in Procs, ForkLeft(p) \/ ForkRight(p)
    PROVE  Statuses'
<1>1. Running(u, p) /\ pc[p] \in {"pipe", "right"} /\ UNCHANGED shellvars
  BY DEF ForkLeft, ForkRight, At
<1>2. p # Shell /\ Running(u, Shell)
  BY <1>1, ShellWaits
<1>3. PICK b, command, where, label, waited :
         /\ b \in Procs /\ label \in {"right", "wait"}
         /\ Grows(p, b, command, where, label, waited)
  <2>1. CASE ForkLeft(p)
    <3>1. PICK b \in Procs : ForkStep(p, b, cmd[p].left, "left", "right", TRUE)
      BY <2>1, ForkLeftEs
    <3>2. Grows(p, b, cmd[p].left, "left", "right", TRUE)
      BY <3>1, ForkFields
    <3> QED
      BY <3>2
  <2>2. CASE ForkRight(p)
    <3>1. PICK b \in Procs : ForkStep(p, b, cmd[p].right, "right", "wait", TRUE)
      BY <2>2, ForkRightEs
    <3>2. Grows(p, b, cmd[p].right, "right", "wait", TRUE)
      BY <3>1, ForkFields
    <3> QED
      BY <3>2
  <2> QED
    BY <2>1, <2>2
<1>4. b # Shell
  BY <1>2, <1>3, RunningIs DEF Grows
<1> QED
  BY <1>1, <1>2, <1>3, <1>4, GrowsStatuses

LEMMA ShellEndsStatuses ==
    ASSUME TypeOK, Statuses, ShellEnds
    PROVE  Statuses'
<1>1. EndStep(Shell, 0)
  BY ShellEndsEs
<1>2. u.parent[Shell] = InitProc
  BY DEF Statuses
<1>3. pc'[Shell] = "ended" /\ pgid'[Shell] = Shell /\ u'.parent[Shell] = InitProc
  BY <1>1, <1>2, ShellAssumption DEF EndStep
<1> QED
  BY <1>3 DEF Statuses

LEMMA StatusesNext ==
    ASSUME TypeOK, \A q \in Procs : Local(q), Linked, Statuses, Next
    PROVE  Statuses'
<1>1. ASSUME NEW p \in Procs, Step(p)
      PROVE  Statuses'
  <2>1. CASE Dies(p)
    BY <2>1, DiesStatuses
  <2>2. CASE Handler(p)
    BY <2>2, HandlerStatuses
  <2>3. CASE Born(p)
    BY <2>3, BornStatuses
  <2>4. CASE Redir(p)
    BY <2>4, RedirStatuses
  <2>5. CASE Exec(p) \/ ProgWrite(p) \/ ProgRead(p)
    BY <2>5, ExecStatuses
  <2>6. CASE ForkLeft(p) \/ ForkRight(p)
    BY <2>6, ForkStatuses
  <2>7. CASE PipeForkFails(p)
    BY <2>7, PipeForkFailsStatuses
  <2>8. CASE WaitSide(p)
    BY <2>8, WaitSideStatuses
  <2> QED
    BY <1>1, <2>1, <2>2, <2>3, <2>4, <2>5, <2>6, <2>7, <2>8 DEF Step, Dies
<1>2. ASSUME NEW c \in Lines, RunCmd(c) \/ RunCmdFails(c)
      PROVE  Statuses'
  BY <1>2, RunCmdStatuses, RunCmdFailsStatuses
<1>3. CASE WaitForeground \/ WaitAny
  BY <1>3, ForegroundStatuses, WaitAnyStatuses
<1>4. CASE ShellEnds
  BY <1>4, ShellEndsStatuses
<1> QED
  BY <1>1, <1>2, <1>3, <1>4 DEF Next, User, System

-----------------------------------------------------------------------------
(***************************************************************************)
(* The invariant, and what follows from it.                                *)
(***************************************************************************)

LEMMA InitInv == Init => IInv
<1> SUFFICES ASSUME Init
             PROVE  IInv
  OBVIOUS
<1>1. PICK f : f = [n \in Fds |-> IF n \in {"0", "1", "2"} THEN Plain ELSE Closed]
  OBVIOUS
<1>2. u = Boot(Shell, f)
  BY <1>1 DEF Init
<1>3. \A p \in Procs : /\ u.state[p] = IF p = Shell THEN "running" ELSE "none"
                       /\ u.parent[p] = InitProc
                       /\ u.fds[p] = IF p = Shell THEN f ELSE [n \in Fds |-> Closed]
  BY <1>2 DEF Boot
<1>4. \A p \in Procs : /\ pc[p] = IF p = Shell THEN "prompt" ELSE "ended"
                       /\ side[p] = "run" /\ kids[p] = <<>> /\ pgid[p] = p
  BY DEF Init
<1>5. ASSUME NEW p \in Procs
      PROVE  Local(p)
  <2>1. Known(p)
    BY <1>3, <1>4 DEF Known
  <2>2. Running(u, p) => Standard(p) /\ Between(p)
    <3>1. Running(u, p) => p = Shell
      BY <1>3 DEF Running
    <3>2. /\ \A n \in Std : u.fds[Shell][n] = Plain
          /\ u.fds[Shell]["r"] = Closed /\ u.fds[Shell]["w"] = Closed
      BY <1>1, <1>3, StdFds, StdNames, ShellAssumption
    <3>3. Standard(Shell)
      BY <3>2, StdNames, EndsDiffer DEF Standard
    <3>4. Between(Shell)
      BY <1>4, <3>2, ShellAssumption DEF Between
    <3> QED
      BY <3>1, <3>3, <3>4
  <2> QED
    BY <2>1, <2>2 DEF Local
<1>6. Linked
  <2>1. Chain(0, <<>>)
    BY DEF Chain
  <2>2. Others(0, <<>>)
    BY <1>3, OthersIs
  <2> QED
    BY <2>1, <2>2 DEF Linked
<1>7. Statuses
  BY <1>3, <1>4, ShellAssumption DEF Statuses, Init
<1> QED
  BY <1>5, <1>6, <1>7, InitType DEF IInv

LEMMA NextInv == IInv /\ Next => IInv'
<1> SUFFICES ASSUME IInv, Next
             PROVE  IInv'
  OBVIOUS
<1>1. TypeOK /\ (\A p \in Procs : Local(p)) /\ Linked /\ Statuses
  BY DEF IInv
<1>2. TypeOK'
  BY <1>1, NextType DEF Local
<1>3. \A p \in Procs : Local(p)'
  BY <1>1, LocalNext
<1>4. Linked' /\ Statuses'
  BY <1>1, LinkedNext, StatusesNext
<1> QED
  BY <1>2, <1>3, <1>4 DEF IInv

LEMMA SameInv == IInv /\ UNCHANGED vars => IInv'
<1> SUFFICES ASSUME IInv, UNCHANGED vars
             PROVE  IInv'
  OBVIOUS
<1>1. UNCHANGED <<u, pgid, raw, sigchld, pc, cmd, side, kids, todo, status, lines, last, failed>>
  BY DEF vars
<1>2. TypeOK'
  BY <1>1 DEF IInv, TypeOK
<1>3. \A p \in Procs : Local(p)'
  BY <1>1, LocalFrame DEF IInv
<1>4. Linked'
  <2>1. PICK m, c : Chain(m, c) /\ Others(m, c)
    BY DEF IInv, Linked
  <2>2. Chain(m, c)'
    BY <1>1, <2>1 DEF Chain, Running
  <2>3. Others(m, c)'
    BY <1>1, <2>1 DEF Others, Running, Simple, Free, Back
  <2> QED
    BY <2>2, <2>3 DEF Linked
<1>5. Statuses'
  <2>1. \A f : Foreground(f) => Foreground(f)'
    BY <1>1, ForegroundKeep
  <2> QED
    BY <1>1, <2>1, StatusesKeep DEF IInv
<1> QED
  BY <1>2, <1>3, <1>4, <1>5 DEF IInv

\* The processes that may fork are the chain of the foreground command, and
\* what each process has and is at goes together: run_cmd (runcmd.c),
\* exec_cmd and ejecutar_pipe (exec.c).
THEOREM ShellInv == Spec => []IInv
<1>1. Init => IInv
  BY InitInv
<1>2. IInv /\ [Next]_vars => IInv'
  BY NextInv, SameInv
<1> QED
  BY <1>1, <1>2, PTL DEF Spec

\* Every process has the state the code gives it: nobody waits for more than
\* two children, the shell for more than one, and the descriptors are pipes,
\* files or closed.
THEOREM ShellTypes == Spec => []TypeOK
<1>1. IInv => TypeOK
  BY DEF IInv
<1> QED
  BY <1>1, ShellInv, PTL

\* At the prompt the status is the one of the last foreground command, whatever
\* ends in the background and whoever reaps it: print_status_info and the
\* SIGCHLD handler (sh.c, printstatus.c).
THEOREM ShellStatus == Spec => []StatusIsForegrounds
<1>1. IInv => StatusIsForegrounds
  BY DEF IInv, Statuses, StatusIsForegrounds, At
<1> QED
  BY <1>1, ShellInv, PTL

\* When the shell is at the prompt every process of the foreground command has
\* ended: run_cmd and ejecutar_pipe wait for all they fork, however long the
\* pipeline, unless a fork failed.
THEOREM ShellDone == Spec => []PromptMeansDone
<1>1. ASSUME IInv
      PROVE  PromptMeansDone
  <2> SUFFICES ASSUME At(Shell, "prompt"), NEW p \in Procs, Running(u, p), p # Shell
               PROVE  (u.parent[p] = Shell /\ pgid[p] = pgid[Shell]) \/ failed
    BY DEF PromptMeansDone
  <2>1. PICK m, c : Chain(m, c) /\ Others(m, c)
    BY <1>1 DEF IInv, Linked
  <2>2. pc[Shell] = "prompt"
    BY DEF At
  <2>3. m = 0
    BY <2>1, <2>2, NoChain
  <2>4. ~InChain(m, c, p) /\ ~WaitedBy(m, c, p)
    BY <2>3 DEF InChain, WaitedBy
  <2>5. Free(p)
    BY <2>1, <2>4, OthersIs, RunningIs
  <2> QED
    BY <1>1, <2>2, <2>5 DEF IInv, Statuses, Free, Back
<1> QED
  BY <1>1, ShellInv, PTL

\* A program has no end of a pipe but those of its side of the pipeline, and
\* never both ends of one: what ejecutar_pipe and exec_cmd close before execvp.
THEOREM ShellPrograms == Spec => []OnlyItsEnds
<1>1. ASSUME IInv
      PROVE  OnlyItsEnds
  <2> SUFFICES ASSUME NEW p \in Procs, At(p, "prog")
               PROVE  /\ u.fds[p]["r"] = Closed /\ u.fds[p]["w"] = Closed
                      /\ \A k \in Pipes : {End(k, "r"), End(k, "w")} \cap Held(u, p) # {End(k, "r"), End(k, "w")}
                      /\ u.fds[p]["0"] \in Ends => u.fds[p]["0"][2] = "r"
                      /\ u.fds[p]["1"] \in Ends => u.fds[p]["1"][2] = "w"
    BY DEF OnlyItsEnds
  <2>1. Standard(p) /\ Between(p) /\ pc[p] = "prog"
    BY <1>1 DEF IInv, Local, At
  <2>2. u.fds[p]["r"] = Closed /\ u.fds[p]["w"] = Closed
    BY <2>1 DEF Between
  <2>3. PICK g : g = u.fds[p]
    OBVIOUS
  <2>4. /\ g["0"] = Plain \/ \E k \in Pipes : g["0"] = End(k, "r")
        /\ g["1"] = Plain \/ \E k \in Pipes : g["1"] = End(k, "w")
        /\ g["2"] = Plain \/ \E k \in Pipes : g["2"] = End(k, "w")
        /\ \A k \in Pipes : g["0"] = End(k, "r") => g["1"] # End(k, "w") /\ g["2"] # End(k, "w")
    BY <2>1, <2>3 DEF Standard
  <2>5. ASSUME NEW k \in Pipes, End(k, "r") \in Held(u, p), End(k, "w") \in Held(u, p)
        PROVE  FALSE
    <3>1. PICK i \in Fds, j \in Fds : g[i] = End(k, "r") /\ g[j] = End(k, "w")
      BY <2>3, <2>5 DEF Held
    <3>2. i \in Std /\ j \in Std
      BY <2>2, <2>3, <3>1, StdFds, EndsDiffer
    <3>3. i = "0"
      BY <2>4, <3>1, <3>2, EndsDiffer DEF Std
    <3>4. j \in {"1", "2"}
      BY <2>4, <3>1, <3>2, EndsDiffer DEF Std
    <3> QED
      BY <2>4, <3>1, <3>3, <3>4
  <2>6. \A k \in Pipes : {End(k, "r"), End(k, "w")} \cap Held(u, p) # {End(k, "r"), End(k, "w")}
    BY <2>5
  <2>7. /\ g["0"] \in Ends => g["0"][2] = "r"
        /\ g["1"] \in Ends => g["1"][2] = "w"
    BY <2>4, EndsDiffer, FdsDiffer
  <2> QED
    BY <2>2, <2>3, <2>6, <2>7
<1> QED
  BY <1>1, ShellInv, PTL
=============================================================================
