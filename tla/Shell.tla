-------------------------------- MODULE Shell --------------------------------
(***************************************************************************)
(* TP1-shell: what happens to a line once it is parsed.  run_cmd forks; the *)
(* child executes the command, and for a pipeline it is the one that pipes, *)
(* forks both sides and waits for them; the SIGCHLD handler reaps what runs *)
(* in the background.                                                       *)
(*                                                                         *)
(* A step ends where another process can make a difference: at a fork, a   *)
(* wait, an execve, an exit.  The descriptors closed and moved in between   *)
(* are part of it.  Programs, processes and pipes are external.            *)
(***************************************************************************)
EXTENDS Unix, Integers

CONSTANTS Shell,
          Commands,          \* what parse_line gives for a line, or for a side of it
          Lines,             \* those a user may type
          MaxLines,          \* bound: how many are typed
          Writes             \* how many values "source" writes

Programs == {"source", "copy", "quit", "crash", "missing"}
Files == {"", "file", "missing", "&1"}
Simples == [type : {"EXEC", "BACK"}, prog : Programs]
Redirections == [type : {"REDIR"}, prog : Programs, in : Files, out : Files, err : Files]
Opened == [type : {"EXEC"}, prog : Programs, in : Files, out : Files, err : Files]

\* The left side of a pipeline ends at the first "|": it has no pipe in it
Pipelines == [type : {"PIPE"}, left : Commands \cap (Simples \cup Redirections), right : Commands]

ASSUME ShellAssumption == Shell \in Procs
ASSUME FdsAssumption == Fds = {"0", "1", "2", "r", "w"}
ASSUME BoundsAssumption == MaxLines \in Nat /\ Writes \in Nat
ASSUME CommandsAssumption == /\ Commands \subseteq Simples \cup Redirections \cup Pipelines
                             /\ Lines \subseteq Commands

VARIABLES u,                 \* processes, descriptors and pipes
          pgid,              \* the group of each process
          raw,               \* what each process ended with, as wait gives it
          sigchld,           \* who has a SIGCHLD to handle
          pc,
          cmd,               \* the command a process executes
          side,              \* of which side of a pipeline it is
          kids,              \* the children it will wait for, in order
          todo,              \* a program's values still to write
          status,            \* the status of the last foreground command
          lines,             \* how many lines were typed
          last,              \* history: the last foreground command
          failed             \* history: a fork has failed

vars == <<u, pgid, raw, sigchld, pc, cmd, side, kids, todo, status, lines, last, failed>>
shellvars == <<status, lines, last, failed>>

NoCmd == [type |-> "none"]
ERROR == 255                 \* the byte of exit(-1)
SIGABRT == 6
SIGSEGV == 11
SIGPIPE == 13

TypeOK ==
    /\ u \in UnixType
    /\ pgid \in [Procs -> Procs]
    /\ raw \in [Procs -> {0, ERROR * 256, SIGABRT, SIGSEGV, SIGPIPE}]
    /\ sigchld \subseteq Procs
    /\ pc \in [Procs -> {"prompt", "waitany", "born", "exec", "redir", "pipe", "right", "wait", "prog", "ended"}]
    /\ cmd \in [Procs -> Commands \cup Opened \cup {NoCmd}]
    /\ side \in [Procs -> {"run", "left", "right"}]
    /\ kids \in [Procs -> Seq(Procs)]
    /\ \A p \in Procs : Len(kids[p]) <= IF p = Shell THEN 1 ELSE 2
    /\ todo \in [Procs -> 0..Writes + 1]
    /\ status \in -ERROR..ERROR * 256
    /\ lines \in 0..MaxLines
    /\ last \in Lines \cup {NoCmd} /\ failed \in BOOLEAN

Init ==
    /\ u = Boot(Shell, [n \in Fds |-> IF n \in {"0", "1", "2"} THEN Plain ELSE Closed])
    /\ pgid = [p \in Procs |-> p]
    /\ raw = [p \in Procs |-> 0]
    /\ sigchld = {}
    /\ pc = [p \in Procs |-> IF p = Shell THEN "prompt" ELSE "ended"]
    /\ cmd = [p \in Procs |-> NoCmd]
    /\ side = [p \in Procs |-> "run"]
    /\ kids = [p \in Procs |-> <<>>]
    /\ todo = [p \in Procs |-> 0]
    /\ status = 0 /\ lines = 0 /\ last = NoCmd /\ failed = FALSE

At(p, label) == Running(u, p) /\ pc[p] = label
Goto(p, label) == pc' = [pc EXCEPT ![p] = label]

\* execve puts the handler back to its default
Handles(p) == p \in Procs /\ Running(u, p) /\ pc[p] # "prog"

Zombies(p) == {c \in Children(u, p) : u.state[c] = "zombie"}

\* What wait leaves of the children in S
Collected(S) ==
    /\ u' = ReapAll(u, S)
    /\ pgid' = [c \in Procs |-> IF c \in S THEN c ELSE pgid[c]]
    /\ raw' = [c \in Procs |-> IF c \in S THEN 0 ELSE raw[c]]

\* The process ends with wait status w
Ended(p, unix, w) ==
    LET parent == unix.parent[p]
    IN  /\ u' = Exit(unix, p)
        /\ raw' = [raw EXCEPT ![p] = IF parent = InitProc THEN 0 ELSE w]
        /\ pgid' = [pgid EXCEPT ![p] = IF parent = InitProc THEN p ELSE @]
        /\ sigchld' = (sigchld \ {p}) \cup {q \in {parent} : Handles(q)}
        /\ cmd' = [cmd EXCEPT ![p] = NoCmd]
        /\ side' = [side EXCEPT ![p] = "run"]
        /\ kids' = [kids EXCEPT ![p] = <<>>]
        /\ todo' = [todo EXCEPT ![p] = 0]
        /\ Goto(p, "ended")

\* The child c that p forks has everything p has, and executes command on its
\* side of the pipeline; p goes on at label
Forked(p, unix, command, where, label, waited) ==
    LET c == FreeProc(unix)
    IN  /\ pgid' = [pgid EXCEPT ![c] = pgid[p]]
        /\ cmd' = [cmd EXCEPT ![c] = command]
        /\ side' = [side EXCEPT ![c] = where]
        /\ kids' = [kids EXCEPT ![p] = IF waited THEN Append(@, c) ELSE @]
        /\ pc' = [pc EXCEPT ![p] = label, ![c] = "born"]
        /\ UNCHANGED <<raw, sigchld, todo>>

-----------------------------------------------------------------------------
\* The shell: run_cmd

\* print_status_info decodes status where waitpid has left it, but not for a
\* pipeline; without anything waited for it decodes it twice
Decoded(c, s) ==
    LET signal == s % 128
    IN  IF c.type = "PIPE" THEN s
        ELSE IF signal = 0 THEN (s \div 256) % 256
        ELSE IF signal # 127 THEN -signal
        ELSE -((s \div 256) % 256)

RunCmd(c) ==
    LET unix == Fork(u, Shell)
    IN  /\ At(Shell, "prompt") /\ lines < MaxLines
        /\ CanFork(u)
        /\ u' = unix
        /\ Forked(Shell, u, c, "run", IF c.type = "BACK" THEN "prompt" ELSE "wait", c.type # "BACK")
        /\ lines' = lines + 1
        /\ last' = IF c.type = "BACK" THEN last ELSE c
        /\ UNCHANGED <<status, failed>>

\* The result of fork is not looked at: waitpid(-1) waits for any child
RunCmdFails(c) ==
    /\ At(Shell, "prompt") /\ lines < MaxLines
    /\ Goto(Shell, IF c.type = "BACK" THEN "prompt" ELSE "waitany")
    /\ cmd' = [cmd EXCEPT ![Shell] = IF c.type = "BACK" THEN @ ELSE c]
    /\ lines' = lines + 1
    /\ last' = IF c.type = "BACK" THEN last ELSE NoCmd
    /\ failed' = TRUE
    /\ UNCHANGED <<u, pgid, raw, sigchld, side, kids, todo, status>>

\* Faulty form: the child that was waited for is not forgotten
WaitForegroundKeeps ==
    LET c == Head(kids[Shell])
    IN  /\ At(Shell, "wait")
        /\ c \in Zombies(Shell)
        /\ status' = Decoded(last, raw[c])
        /\ Collected({c})
        /\ Goto(Shell, "prompt")
        /\ UNCHANGED <<sigchld, cmd, side, kids, todo, lines, last, failed>>

\* waitpid returns at once when the child is no longer there
WaitForeground ==
    LET c == Head(kids[Shell])
        gone == c \notin Children(u, Shell)
    IN  /\ At(Shell, "wait")
        /\ gone \/ c \in Zombies(Shell)
        /\ status' = Decoded(last, IF gone THEN status ELSE raw[c])
        /\ Collected({c} \cap Zombies(Shell))
        /\ kids' = [kids EXCEPT ![Shell] = <<>>]
        /\ Goto(Shell, "prompt")
        /\ UNCHANGED <<sigchld, cmd, side, todo, lines, last, failed>>

WaitAny ==
    /\ At(Shell, "waitany")
    /\ \/ /\ Children(u, Shell) = {}
          /\ status' = Decoded(cmd[Shell], status)
          /\ UNCHANGED <<u, pgid, raw>>
       \/ \E c \in Zombies(Shell) :
             /\ status' = Decoded(cmd[Shell], raw[c])
             /\ Collected({c})
    /\ cmd' = [cmd EXCEPT ![Shell] = NoCmd]
    /\ Goto(Shell, "prompt")
    /\ UNCHANGED <<sigchld, side, kids, todo, lines, last, failed>>

\* "exit", or the end of the input
ShellEnds == At(Shell, "prompt") /\ Ended(Shell, u, 0) /\ UNCHANGED shellvars

-----------------------------------------------------------------------------
\* sigchild_handler, which a child has too until it executes a program

\* Faulty form: one signal, one child
HandlerOne(p) ==
    LET mine == {c \in Zombies(p) : pgid[c] = pgid[p]}
    IN  /\ p \in sigchld /\ Handles(p)
        /\ \E c \in mine \cup {p} :
              /\ c = p => mine = {}
              /\ Collected({c} \ {p})
        /\ sigchld' = sigchld \ {p}
        /\ UNCHANGED <<pc, cmd, side, kids, todo, shellvars>>

\* Signals that come together are one: every child of the own group is taken
Handler(p) ==
    LET mine == {c \in Zombies(p) : pgid[c] = pgid[p]}
    IN  /\ p \in sigchld /\ Handles(p)
        /\ Collected(mine)
        /\ sigchld' = sigchld \ {p}
        /\ UNCHANGED <<pc, cmd, side, kids, todo, shellvars>>

-----------------------------------------------------------------------------
\* The child: exec_cmd

\* Both sides of a pipeline have the ends in r and w; each one keeps its own
Ends2(p) ==
    CASE side[p] = "left" -> Close(Dup2(Close(u, p, {"r"}), p, "w", "1"), p, {"w"})
      [] side[p] = "right" -> Close(Dup2(u, p, "r", "0"), p, {"r"})
      [] OTHER -> u

Labels == [EXEC |-> "exec", BACK |-> "exec", REDIR |-> "redir", PIPE |-> "pipe"]

\* Faulty form: a foreground command stays in the group of the shell
BornSameGroup(p) ==
    /\ At(p, "born")
    /\ u' = Ends2(p)
    /\ Goto(p, Labels[cmd[p].type])
    /\ UNCHANGED <<pgid, raw, sigchld, cmd, side, kids, todo, shellvars>>

\* Faulty form: the left side of a pipeline keeps the end it does not use
BornKeeps(p) ==
    /\ At(p, "born")
    /\ u' = IF side[p] = "left" THEN Close(Dup2(u, p, "w", "1"), p, {"w"}) ELSE Ends2(p)
    /\ pgid' = [pgid EXCEPT ![p] = IF side[p] = "run" /\ cmd[p].type = "BACK" THEN @ ELSE p]
    /\ Goto(p, Labels[cmd[p].type])
    /\ UNCHANGED <<raw, sigchld, cmd, side, kids, todo, shellvars>>

Born(p) ==
    /\ At(p, "born")
    /\ u' = Ends2(p)
    /\ pgid' = [pgid EXCEPT ![p] = IF side[p] = "run" /\ cmd[p].type = "BACK" THEN @ ELSE p]
    /\ Goto(p, Labels[cmd[p].type])
    /\ UNCHANGED <<raw, sigchld, cmd, side, kids, todo, shellvars>>

\* A file to read that is not there, or one that cannot be written
CannotOpen(c) == "missing" \in {c.in, c.out, c.err}

\* stdin, stdout and stderr in this order; &1 is what stdout is by then
Redirected(p) ==
    LET c == cmd[p]
        in == IF c.in = "" THEN u.fds[p]["0"] ELSE Plain
        out == IF c.out = "" THEN u.fds[p]["1"] ELSE Plain
        err == IF c.err = "" THEN u.fds[p]["2"] ELSE IF c.err = "&1" THEN out ELSE Plain
    IN  [u EXCEPT !.fds[p] = [@ EXCEPT !["0"] = in, !["1"] = out, !["2"] = err]]

RedirFails(p) ==
    /\ At(p, "redir") /\ CannotOpen(cmd[p])
    /\ Ended(p, u, ERROR * 256)
    /\ UNCHANGED shellvars

Redir(p) ==
    /\ At(p, "redir") /\ ~CannotOpen(cmd[p])
    /\ u' = Redirected(p)
    /\ cmd' = [cmd EXCEPT ![p].type = "EXEC"]
    /\ Goto(p, "exec")
    /\ UNCHANGED <<pgid, raw, sigchld, side, kids, todo, shellvars>>

ExecFails(p) ==
    /\ At(p, "exec") /\ cmd[p].prog = "missing"
    /\ Ended(p, u, ERROR * 256)
    /\ UNCHANGED shellvars

Exec(p) ==
    /\ At(p, "exec") /\ cmd[p].prog # "missing"
    /\ Goto(p, "prog")
    /\ todo' = [todo EXCEPT ![p] = IF cmd[p].prog = "source" THEN Writes ELSE 0]
    /\ sigchld' = sigchld \ {p}
    /\ UNCHANGED <<u, pgid, raw, cmd, side, kids, shellvars>>

-----------------------------------------------------------------------------
\* The child of a pipeline: ejecutar_pipe

\* Faulty form: the end to write stays open
ForkLeftOpen(p) ==
    LET unix == Pipe(u, p, "r", "w")
    IN  /\ At(p, "pipe") /\ CanPipe(u) /\ CanFork(u)
        /\ u' = Fork(unix, p)
        /\ Forked(p, unix, cmd[p].left, "left", "right", TRUE)
        /\ UNCHANGED shellvars

ForkLeft(p) ==
    LET unix == Pipe(u, p, "r", "w")
    IN  /\ At(p, "pipe") /\ CanPipe(u) /\ CanFork(u)
        /\ u' = Close(Fork(unix, p), p, {"w"})
        /\ Forked(p, unix, cmd[p].left, "left", "right", TRUE)
        /\ UNCHANGED shellvars

\* Faulty form: the left side is not waited for
ForkRightForget(p) ==
    /\ At(p, "right") /\ CanFork(u)
    /\ u' = Close(Fork(u, p), p, {"r", "w"})
    /\ LET c == FreeProc(u)
       IN  /\ pgid' = [pgid EXCEPT ![c] = pgid[p]]
           /\ cmd' = [cmd EXCEPT ![c] = cmd[p].right]
           /\ side' = [side EXCEPT ![c] = "right"]
           /\ kids' = [kids EXCEPT ![p] = <<c>>]
           /\ pc' = [pc EXCEPT ![p] = "wait", ![c] = "born"]
    /\ UNCHANGED <<raw, sigchld, todo, shellvars>>

ForkRight(p) ==
    /\ At(p, "right") /\ CanFork(u)
    /\ u' = Close(Fork(u, p), p, {"r", "w"})
    /\ Forked(p, u, cmd[p].right, "right", "wait", TRUE)
    /\ UNCHANGED shellvars

\* handle_error takes the -1 of fork for an array and dies of it: a left side
\* that was forked is an orphan
PipeForkFails(p) ==
    /\ At(p, "pipe") \/ At(p, "right")
    /\ Ended(p, u, SIGSEGV)
    /\ failed' = TRUE /\ last' = NoCmd
    /\ UNCHANGED <<status, lines>>

\* waitpid of the left side, then of the right one; what they end with is lost
WaitSide(p) ==
    LET c == Head(kids[p])
    IN  /\ p # Shell /\ At(p, "wait") /\ kids[p] # <<>>
        /\ c \in Zombies(p)
        /\ Collected({c})
        /\ kids' = [kids EXCEPT ![p] = Tail(@)]
        /\ UNCHANGED <<sigchld, pc, cmd, side, todo, shellvars>>

PipeEnds(p) ==
    /\ p # Shell /\ At(p, "wait") /\ kids[p] = <<>>
    /\ Ended(p, u, 0)
    /\ UNCHANGED shellvars

-----------------------------------------------------------------------------
\* The programs: "source" writes, "copy" writes what it reads to the end of the
\* file, "quit" ends and "crash" ends badly

ProgWrite(p) ==
    /\ At(p, "prog") /\ todo[p] > 0 /\ CanWrite(u, p, "1")
    /\ u' = Write(u, p, "1", 0)
    /\ todo' = [todo EXCEPT ![p] = @ - 1]
    /\ UNCHANGED <<pgid, raw, sigchld, pc, cmd, side, kids, shellvars>>

ProgSigpipe(p) ==
    /\ At(p, "prog") /\ todo[p] > 0 /\ Broken(u, p, "1")
    /\ Ended(p, u, SIGPIPE)
    /\ UNCHANGED shellvars

ProgRead(p) ==
    /\ At(p, "prog") /\ todo[p] = 0 /\ cmd[p].prog = "copy" /\ CanRead(u, p, "0")
    /\ u' = Read(u, p, "0")
    /\ todo' = [todo EXCEPT ![p] = 1]
    /\ UNCHANGED <<pgid, raw, sigchld, pc, cmd, side, kids, shellvars>>

ProgEnds(p) ==
    /\ At(p, "prog") /\ todo[p] = 0
    /\ cmd[p].prog = "copy" => AtEof(u, p, "0")
    /\ Ended(p, u, IF cmd[p].prog = "crash" THEN SIGABRT ELSE 0)
    /\ UNCHANGED shellvars

-----------------------------------------------------------------------------

Step(p) ==
    \/ Handler(p) \/ Born(p) \/ RedirFails(p) \/ Redir(p) \/ ExecFails(p) \/ Exec(p)
    \/ ForkLeft(p) \/ ForkRight(p) \/ PipeForkFails(p) \/ WaitSide(p) \/ PipeEnds(p)
    \/ ProgWrite(p) \/ ProgSigpipe(p) \/ ProgRead(p) \/ ProgEnds(p)

\* What goes on without the user
System == WaitForeground \/ WaitAny \/ \E p \in Procs : Step(p)

User == ShellEnds \/ \E c \in Lines : RunCmd(c) \/ RunCmdFails(c)

Next == User \/ System

Spec == Init /\ [][Next]_vars

\* The operating system does not stop while some process can go on; nobody has
\* to type.  Every program here is finite, so no more is needed
FairSpec == Spec /\ WF_vars(System)

-----------------------------------------------------------------------------

\* What a command ends with, by what it says
Outcome(c) ==
    CASE c.type = "PIPE" -> 0
      [] c.type = "REDIR" /\ CannotOpen(c) -> ERROR
      [] OTHER -> CASE c.prog = "missing" -> ERROR
                    [] c.prog = "crash" -> -SIGABRT
                    [] OTHER -> 0

\* At the prompt $? is the status of the last foreground command, whatever the
\* background ones do in the meantime and whoever reaps them.
StatusIsForegrounds ==
    At(Shell, "prompt") /\ last # NoCmd => status = Outcome(last)

\* The prompt comes back when every process of the foreground command has ended,
\* both sides of every pipeline: those that run are in the background, or lost
\* the one that waited for them when a fork failed.
PromptMeansDone ==
    At(Shell, "prompt") =>
        \A p \in Procs : Running(u, p) /\ p # Shell =>
            \/ u.parent[p] = Shell /\ pgid[p] = pgid[Shell]
            \/ failed

\* A program holds no end of a pipe but where its side of the pipeline says: it
\* reads what its left neighbour writes, writes what its right one reads, and
\* never holds both ends of one pipe.
OnlyItsEnds ==
    \A p \in Procs : At(p, "prog") =>
        /\ u.fds[p]["r"] = Closed /\ u.fds[p]["w"] = Closed
        /\ \A k \in Pipes : {End(k, "r"), End(k, "w")} \cap Held(u, p) # {End(k, "r"), End(k, "w")}
        /\ u.fds[p]["0"] \in Ends => u.fds[p]["0"][2] = "r"
        /\ u.fds[p]["1"] \in Ends => u.fds[p]["1"][2] = "w"

\* The prompt comes back after every command: no pipeline waits for itself.
PromptReturns == ~At(Shell, "prompt") ~> (At(Shell, "prompt") \/ ~Running(u, Shell))

\* No child is left a zombie, although signals that come together are one.
AllReaped == \A p \in Procs : u.state[p] = "zombie" ~> u.state[p] # "zombie"
=============================================================================
