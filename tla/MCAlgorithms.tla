---------------------------- MODULE MCAlgorithms ----------------------------
(***************************************************************************)
(* The parts of the repository that compute and do not interact, each over *)
(* every input of a small set: the machine the kernel starts on, a line    *)
(* for the shell, what is typed at the console.                            *)
(***************************************************************************)
EXTENDS Integers, Sequences, FiniteSets, SequencesExt

VARIABLE input

Boot == INSTANCE BootMemory

Free == {1, 2, 3, 4, 5}
Check == INSTANCE CheckMemory WITH
            Envs <- {"kern"}, kern_pgdir <- "kern", Pages <- Free, NData <- 1,
            Vals <- {0}, Zero <- 0, NoPage <- 0

Home == [name \in {<<"HOME">>, <<"a">>} |-> IF name = <<"a">> THEN <<"v">> ELSE <<"d">>]
Sh == INSTANCE ShellParse WITH Environ <- Home, STATUS <- "0"

Con == INSTANCE Console WITH CONSBUFSIZE <- 3, BUFLEN <- 3

-----------------------------------------------------------------------------
\* Inputs

UpTo(S, n) == UNION {[1..k -> S] : k \in 0..n}

\* KB, KB and 64 KB; the kernel ends at 1.4 MB or at 2.7 MB, and its bss holds
\* the stacks
Machines ==
    [of : {"machine"},
     cmos : [basemem : {639, 640}, extmem : {0, 1024, 2048, 3072, 7168, 15360}, ext16mem : {0, 1, 16}]
            \cup [basemem : {640}, extmem : {65535}, ext16mem : {3840}],
     end : {356, 690}]

SelfTests == [of : {"selftest"}, inuse : {S \in SUBSET Free : Cardinality(S) <= 2}]

Characters == {"a", " ", "|", ">", "<", "&", "2", "=", "$", "?"}
SomeWords ==
    {<<"a">>, <<">", "a">>, <<"2", ">", "&", "1">>, <<"<", "a">>, <<"a", "=", "a">>,
     <<"-", "a", "=", "a">>, <<"$", "a">>, <<"$", "?">>, <<"$", "b">>, <<"&">>}
Joined(s, sep) == FoldLeft(LAMBDA x, y : x \o <<sep>> \o y, Head(s), Tail(s))
Commands == {Joined(s, " ") : s \in UpTo(SomeWords, 2) \ {<<>>}}
TextLines ==
    UpTo(Characters, 3) \cup Commands
    \cup {Joined(s, "|") : s \in [1..2 -> Commands]}
    \cup {Joined(s, "|") : s \in [1..3 -> SomeWords]}
    \cup UpTo({"exit", "pwd", "cd", "d", " "}, 3)
ShellLines == [of : {"line"}, line : TextLines]

Codes == [key : {"a", "enter", "bs", "lshift", "rshift", "ctl", "caps"}, down : {TRUE}]
         \cup [key : {"lshift", "rshift", "ctl"}, down : {FALSE}]
FewCodes == {c \in Codes : c.key \in {"a", "enter", "bs"} /\ c.down}
Typing == [of : {"typing"},
           bursts : UpTo(UpTo(Codes, 2), 2) \cup UpTo(UpTo(FewCodes, 2), 4) \cup UpTo(UpTo(Codes, 3), 1)]

Inputs == Machines \cup SelfTests \cup ShellLines \cup Typing

None == [of |-> "none"]

Init == input = None
Give == input = None /\ input' \in Inputs
Take == input # None /\ input' = None
Next == Give \/ Take
Spec == Init /\ [][Next]_input

-----------------------------------------------------------------------------
\* Properties

\* With 64 tables' worth of pages beyond its arrays the kernel gets to its own
\* page directory and no assertion on the way fails.  Until then it writes only
\* in the first 4 MB.  No two regions share an address.  No page is in the free
\* list twice, and where the IO hole begins at the end of base memory the free
\* pages and the tables are the memory that page_init's comment calls free.
\* Users read the two arrays and, at UVPT, the directory and its tables; they
\* read nothing else, write none of it, and none of it is free.  The tests the
\* kernel makes of its page functions all pass.
BootsRight ==
    /\ input.of = "machine" =>
          LET k == Boot!mem_init(input.cmos, input.end, input.end - 70)
              free == Range(k.page_free_list)
              directory == {k.kern_pgdir}
              tables == {k.pde[i].pa : i \in DOMAIN k.pde} \ directory
              arrays == (k.pages..k.pages + Boot!ROUNDUP(k.npages * Boot!PageInfoSize) - 1)
                        \cup (k.envs..k.envs + Boot!ROUNDUP(Boot!EnvsSize) - 1)
          IN  /\ k.npages >= k.nextfree + 80 => ~k.panic
              /\ ~k.panic =>
                    /\ k.written \subseteq Boot!entry_pgdir
                    /\ \A r, s \in k.regions : r # s =>
                          r.va + r.size <= s.va \/ s.va + s.size <= r.va
                    /\ Cardinality(free) = Len(k.page_free_list) /\ free \cap tables = {}
                    /\ input.cmos.basemem \div 4 = Boot!IOPHYSMEM =>
                          free \cup tables =
                              ((1..Boot!IOPHYSMEM - 1) \ {Boot!MPENTRY}) \cup (k.nextfree..k.npages - 1)
                    /\ Boot!UserReads(k) = arrays \cup directory \cup tables
                    /\ Boot!UserWrites(k) = {} /\ Boot!UserReads(k) \cap free = {}
                    /\ \A r \in k.regions : r.va >= Boot!ULIM => "U" \notin r.perm
    /\ input.of = "selftest" =>
          LET m == Check!page_init(input.inuse)
          IN  Check!check_page_alloc(m) /\ Check!check_page(m)

\* The shell executes what a well-formed line says: every word goes to the
\* command, the redirection or the variable it is for, pipelines group to the
\* right, and only a final "&" sends a command to the background.
ParsesRight ==
    /\ input.of = "line"
    /\ Sh!WellFormed(input.line) \/ Sh!BuiltinAlone(input.line, {<<"d">>})
    =>      Sh!run_cmd(input.line, {<<"d">>}) = Sh!Meant(input.line, {<<"d">>})

\* The program gets the lines as they were typed: what the keys meant when they
\* were pressed, edited, a line for every Enter; however the codes come together
\* and whatever waits in the buffer when they do, while it does not fill up.
LineAsTyped ==
    input.of = "typing" /\ Con!Fits(input.bursts) =>
        Con!Typed(input.bursts) = Con!Lines(Con!Text(Con!Concat(input.bursts)))
=============================================================================
