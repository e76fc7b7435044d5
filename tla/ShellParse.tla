----------------------------- MODULE ShellParse -----------------------------
(***************************************************************************)
(* TP1-shell: from a line of text to the command run_cmd executes          *)
(* (parsing.c, utils.c, createcmd.c) and the builtins it tries first       *)
(* (builtin.c).                                                            *)
(*                                                                         *)
(* A line is a sequence of characters.  A name ("exit", "cd", a program)   *)
(* is one character: nothing looks inside one but a comparison of its      *)
(* beginning.  Positions are C's, from 0.  The sizes of the buffers are    *)
(* left out, and so is what is printed.                                    *)
(***************************************************************************)
EXTENDS Integers, Sequences, SequencesExt, FiniteSetsExt

CONSTANTS Environ,           \* the environment: name |-> value
          STATUS             \* what "$?" stands for

NULL == [type |-> "NULL"]

\* The characters from position i on
From(buf, i) == SubSeq(buf, i + 1, Len(buf))
Before(buf, i) == SubSeq(buf, 1, i)

\* utils.c
block_contains(buf, c) ==
    LET at == {i \in 0..Len(buf) - 1 : buf[i + 1] = c}
    IN  IF at = {} THEN -1 ELSE Min(at)

\* What is left of the splitter, and what is right of it without leading spaces
Splitter(buf, c) == IF block_contains(buf, c) < 0 THEN Len(buf) ELSE block_contains(buf, c)
SplitLeft(buf, c) == Before(buf, Splitter(buf, c))
SplitRight(buf, c) ==
    LET rest == From(buf, Splitter(buf, c) + 1)
        text == {i \in 0..Len(rest) - 1 : rest[i + 1] # " "}
    IN  IF text = {} THEN <<>> ELSE From(rest, Min(text))

-----------------------------------------------------------------------------
(***************************************************************************)
(* parsing.c                                                               *)
(***************************************************************************)

\* From idx to the next space
get_token(buf, idx) == SplitLeft(From(buf, idx), " ")

Redirects(tok) == block_contains(tok, ">") >= 0 \/ block_contains(tok, "<") >= 0

\* ">" first is stdout, second is stderr; anywhere else nothing is redirected
\* and the word is lost.  "<" is looked for after ">", and wherever it is the
\* name begins at the second character
parse_redir_flow(c, tok) ==
    LET out == block_contains(tok, ">")
        redir == [c EXCEPT !.type = "REDIR"]
    IN  CASE out = 0 -> [redir EXCEPT !.out_file = Tail(tok)]
          [] out = 1 -> [redir EXCEPT !.err_file = From(tok, 2)]
          [] out > 1 -> redir
          [] OTHER -> [redir EXCEPT !.in_file = Tail(tok)]

IsEnvironVar(tok) == block_contains(tok, "=") > 0 /\ block_contains(tok, "-") < 0

expand_environ_var(tok) ==
    IF tok = <<>> \/ Head(tok) # "$" THEN tok
    ELSE IF Len(tok) > 1 /\ tok[2] = "?" THEN <<STATUS>>
    ELSE IF Tail(tok) \in DOMAIN Environ THEN Environ[Tail(tok)] ELSE <<>>

exec_cmd_create ==
    [type |-> "EXEC", argv |-> <<>>, eargv |-> <<>>,
     out_file |-> <<>>, in_file |-> <<>>, err_file |-> <<>>]

parse_token(c, tok) ==
    IF Redirects(tok) THEN parse_redir_flow(c, tok)
    ELSE IF IsEnvironVar(tok) THEN [c EXCEPT !.eargv = Append(@, tok)]
    ELSE IF expand_environ_var(tok) = <<>> THEN c
    ELSE [c EXCEPT !.argv = Append(@, expand_environ_var(tok))]

\* Token after token, each one followed by a space or by the end
RECURSIVE parse_from(_, _, _)
parse_from(c, buf, idx) ==
    LET tok == get_token(buf, idx)
    IN  IF idx >= Len(buf) THEN c ELSE parse_from(parse_token(c, tok), buf, idx + Len(tok) + 1)

parse_exec(buf) == parse_from(exec_cmd_create, buf, 0)

back_cmd_create(c) == [type |-> "BACK", c |-> c]

\* What follows the "&" is lost
parse_back(buf) == back_cmd_create(parse_exec(SplitLeft(buf, "&")))

\* Faulty form: "2>&1" is taken for a background command
parse_cmdAnyAmp(buf) ==
    IF buf = <<>> THEN NULL
    ELSE IF block_contains(buf, "&") >= 0 THEN parse_back(buf) ELSE parse_exec(buf)

\* The character before a first "&" is a space or the end of the left part
parse_cmd(buf) ==
    LET idx == block_contains(buf, "&")
    IN  IF buf = <<>> THEN NULL
        ELSE IF idx >= 0 /\ (idx = 0 \/ buf[idx] # ">") THEN parse_back(buf)
        ELSE parse_exec(buf)

pipe_cmd_create(left, right) ==
    IF right = NULL THEN left ELSE [type |-> "PIPE", leftcmd |-> left, rightcmd |-> right]

RECURSIVE parse_line(_)
parse_line(buf) ==
    LET right == SplitRight(buf, "|")
        r == IF block_contains(right, "|") >= 0 THEN parse_line(right) ELSE parse_cmd(right)
    IN  pipe_cmd_create(parse_cmd(SplitLeft(buf, "|")), r)

-----------------------------------------------------------------------------
(***************************************************************************)
(* builtin.c, in the order run_cmd tries it                                *)
(***************************************************************************)

\* "exit" is compared by its beginning, "pwd" and "cd" whole; a directory that
\* cannot be entered is no builtin, and becomes a command
Builtin(line, dirs) ==
    CASE line = <<>> -> "enter"
      [] line = <<"cd">> /\ Environ[<<"HOME">>] \in dirs -> "cd"
      [] Len(line) > 1 /\ line[1] = "cd" /\ line[2] = " " /\ From(line, 2) \in dirs -> "cd"
      [] line # <<>> /\ line[1] = "exit" -> "exit"
      [] line = <<"pwd">> -> "pwd"
      [] OTHER -> "none"

run_cmd(line, dirs) ==
    IF Builtin(line, dirs) # "none" THEN [type |-> Builtin(line, dirs)] ELSE parse_line(line)

-----------------------------------------------------------------------------
(***************************************************************************)
(* What a line says, as shell.md and the tests have it                     *)
(***************************************************************************)

\* The pieces between the separators
Pieces(s, c) ==
    LET cuts == SetToSortSeq({0, Len(s) + 1} \cup {i \in DOMAIN s : s[i] = c}, <)
    IN  [k \in 1..Len(cuts) - 1 |-> SubSeq(s, cuts[k] + 1, cuts[k + 1] - 1)]

Words(s) == SelectSeq(Pieces(s, " "), LAMBDA w : w # <<>>)

Count(w, c) == Cardinality({i \in DOMAIN w : w[i] = c})
First(w, c) == w # <<>> /\ w[1] = c

IsOut(w) == First(w, ">")
IsIn(w) == First(w, "<")
IsErr(w) == Len(w) > 1 /\ w[1] = "2" /\ w[2] = ">"
IsRedir(w) == IsOut(w) \/ IsIn(w) \/ IsErr(w)
IsVar(w) == ~IsRedir(w) /\ Count(w, "=") > 0 /\ ~First(w, "=") /\ Count(w, "-") = 0
IsArg(w) == ~IsRedir(w) /\ ~IsVar(w)

\* Redirections are words of their own; "&" ends the command, or follows ">"
WordIsPlain(w) ==
    /\ Count(w, ">") + Count(w, "<") = IF IsRedir(w) THEN 1 ELSE 0
    /\ \A i \in DOMAIN w : w[i] = "&" => i > 1 /\ w[i - 1] = ">"

Background(s) == s # <<>> /\ s[Len(s)] = "&" /\ (Len(s) = 1 \/ s[Len(s) - 1] # ">")
Body(s) == IF Background(s) THEN Front(s) ELSE s

\* A builtin alone, each word after one space
BuiltinAlone(line, dirs) ==
    \/ line \in {<<"exit">>, <<"pwd">>, <<"cd">>}
    \/ \E d \in dirs : line = <<"cd", " ">> \o d

\* Commands: words, one "&" at most, something to run, and no builtin
WellFormed(line) ==
    LET parts == Pieces(line, "|")
    IN  /\ \A k \in DOMAIN parts :
              /\ Words(Body(parts[k])) # <<>>
              /\ Count(parts[k], "&") <= 1
              /\ \A i \in DOMAIN Words(Body(parts[k])) : WordIsPlain(Words(Body(parts[k]))[i])
        /\ \A i \in DOMAIN line : line[i] \notin {"exit", "pwd", "cd"}

Meaning(w) ==
    IF w[1] # "$" THEN w
    ELSE IF Len(w) > 1 /\ w[2] = "?" THEN <<STATUS>>
    ELSE IF Tail(w) \in DOMAIN Environ THEN Environ[Tail(w)] ELSE <<>>

File(words, kind(_), drop) ==
    LET those == SelectSeq(words, kind)
    IN  IF those = <<>> THEN <<>> ELSE From(Last(those), drop)

Simple(s) ==
    LET words == Words(Body(s))
        args == SelectSeq(words, IsArg)
        c == [type |-> IF \E i \in DOMAIN words : IsRedir(words[i])
                       THEN "REDIR" ELSE "EXEC",
              argv |-> SelectSeq([i \in DOMAIN args |-> Meaning(args[i])], LAMBDA w : w # <<>>),
              eargv |-> SelectSeq(words, IsVar),
              out_file |-> File(words, IsOut, 1),
              in_file |-> File(words, IsIn, 1),
              err_file |-> File(words, IsErr, 2)]
    IN  IF Background(s) THEN [type |-> "BACK", c |-> c] ELSE c

\* A pipeline groups to the right
Meant(line, dirs) ==
    LET parts == Pieces(line, "|")
        commands == [k \in DOMAIN parts |-> Simple(parts[k])]
        Group(c, rest) == [type |-> "PIPE", leftcmd |-> c, rightcmd |-> rest]
    IN  IF BuiltinAlone(line, dirs)
        THEN [type |-> Head(line)]
        ELSE FoldRight(Group, Front(commands), Last(commands))
=============================================================================
