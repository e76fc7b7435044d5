------------------------------ MODULE MCShell ------------------------------
(* Lines for TLC: every type of command, pipelines of two and three sides,  *)
(* redirections that work and that do not, and two kinds of background jobs. *)
EXTENDS Shell

Command(prog) == [type |-> "EXEC", prog |-> prog]
With(prog, in, out, err) == [type |-> "REDIR", prog |-> prog, in |-> in, out |-> out, err |-> err]
Background(prog) == [type |-> "BACK", prog |-> prog]
Piped(left, right) == [type |-> "PIPE", left |-> left, right |-> right]

MCLines ==
    {Command("crash"), Command("missing"), With("copy", "missing", "", ""),
     Background("quit"), Background("source"),
     Piped(Command("source"), Command("copy")),
     Piped(With("source", "", "", "&1"), Piped(Command("copy"), Command("quit"))),
     Piped(Background("missing"), With("copy", "", "file", ""))}

\* and the sides of their pipelines
MCCommands ==
    MCLines \cup
    {Command("source"), Command("copy"), Command("quit"), With("source", "", "", "&1"),
     Piped(Command("copy"), Command("quit")), Background("missing"), With("copy", "", "file", "")}
=============================================================================
