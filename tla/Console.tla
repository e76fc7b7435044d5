------------------------------ MODULE Console ------------------------------
(***************************************************************************)
(* What is typed at the kernel's console until a program has the lines:    *)
(* the keyboard's codes (kern/console.c, kbd_proc_data), the circular      *)
(* buffer (cons_intr, cons_getc), and the editing (lib/readline.c).        *)
(*                                                                         *)
(* No interrupt brings a character: trap_init has no gate for the keyboard *)
(* or the serial port and trap_dispatch no case (kern/trap.c:96, 227-232). *)
(* Whoever asks for a character polls the devices first, so the codes that *)
(* have arrived since the last time come together, behind the characters   *)
(* that still wait in the buffer.                                          *)
(*                                                                         *)
(* A key is one of four: a letter with its capital and its control code,   *)
(* Enter, Backspace, and one that gives nothing.  The two Shift keys, Ctl  *)
(* and CapsLock are there.  A scan code is the key and whether it goes     *)
(* down; codes after 0xE0 are left out, they only name more keys, and      *)
(* nothing comes from the serial port.                                     *)
(***************************************************************************)
EXTENDS Integers, Sequences, FiniteSets, SequencesExt

CONSTANTS CONSBUFSIZE,       \* 2 or more
          BUFLEN             \* of readline, 1 or more

NO == "NO"

\* What the keys give: as they are, with Shift, with Ctl
normalmap == [a |-> "a", enter |-> "LF", bs |-> "BS", f1 |-> NO]
shiftmap == [a |-> "A", enter |-> "LF", bs |-> "BS", f1 |-> NO]
ctlmap == [a |-> "^A", enter |-> "CR", bs |-> NO, f1 |-> NO]

shiftcode == [lshift |-> "SHIFT", rshift |-> "SHIFT", ctl |-> "CTL"]
togglecode == [caps |-> "CAPSLOCK"]
Modifiers == DOMAIN shiftcode \cup DOMAIN togglecode
Keys == DOMAIN normalmap \cup Modifiers

\* cons, and the static variable of kbd_proc_data
Empty == [buf |-> [i \in 0..CONSBUFSIZE - 1 |-> NO], rpos |-> 0, wpos |-> 0, shift |-> {}]

charcode(shift) ==
    IF "CTL" \in shift THEN ctlmap ELSE IF "SHIFT" \in shift THEN shiftmap ELSE normalmap

SwapCase(c) == IF c = "a" THEN "A" ELSE IF c = "A" THEN "a" ELSE c

\* A code from the keyboard: the state it leaves, and a character or 0
kbd_proc_data(k, code) ==
    LET flag == IF code.key \in DOMAIN shiftcode THEN {shiftcode[code.key]} ELSE {}
        toggle == IF code.key \in DOMAIN togglecode THEN {togglecode[code.key]} ELSE {}
        down == k.shift \cup flag
        shift == (down \cup toggle) \ (down \cap toggle)
        c == IF code.key \in Modifiers THEN NO ELSE charcode(shift)[code.key]
    IN  IF ~code.down
        THEN [k |-> [k EXCEPT !.shift = @ \ flag], c |-> NO]
        ELSE [k |-> [k EXCEPT !.shift = shift],
              c |-> IF "CAPSLOCK" \in shift THEN SwapCase(c) ELSE c]

\* Faulty form: the position starts again one place too early
cons_intrShort(k, code) ==
    LET r == kbd_proc_data(k, code)
    IN  IF r.c = NO THEN r.k
        ELSE [r.k EXCEPT !.buf[r.k.wpos] = r.c, !.wpos = (@ + 1) % (CONSBUFSIZE - 1)]

\* One turn of the loop; nobody looks whether the buffer is full
cons_intr(k, code) ==
    LET r == kbd_proc_data(k, code)
    IN  IF r.c = NO THEN r.k
        ELSE [r.k EXCEPT !.buf[r.k.wpos] = r.c, !.wpos = (@ + 1) % CONSBUFSIZE]

\* The next character, or 0; codes: what the keyboard has, asked first
cons_getc(k, codes) ==
    LET polled == FoldLeft(cons_intr, k, codes)
    IN  IF polled.rpos = polled.wpos
        THEN [k |-> polled, c |-> NO]
        ELSE [k |-> [polled EXCEPT !.rpos = (@ + 1) % CONSBUFSIZE], c |-> polled.buf[polled.rpos]]

\* lib/readline.c: what one character makes of the line; the monitor asks for a
\* line after another
Printable == {"a", "A"}
LineEnds == {"LF", "CR"}
readline(rl, c) ==
    IF c = "BS" /\ rl.buf # <<>> THEN [rl EXCEPT !.buf = Front(@)]
    ELSE IF c \in Printable /\ Len(rl.buf) < BUFLEN - 1 THEN [rl EXCEPT !.buf = Append(@, c)]
    ELSE IF c \in LineEnds THEN [lines |-> Append(rl.lines, rl.buf), buf |-> <<>>]
    ELSE rl

\* getchar asks once; it goes on asking while there is nothing
getchar(x, codes) ==
    LET r == cons_getc(x.k, codes) IN [k |-> r.k, rl |-> readline(x.rl, r.c), none |-> r.c = NO]

RECURSIVE Rest(_)
Rest(x) == IF x.none THEN x ELSE Rest(getchar(x, <<>>))

\* What the program has when at its n-th question the keyboard has bursts[n], and
\* then nothing more is typed
Typed(bursts) ==
    LET start == [k |-> Empty, rl |-> [lines |-> <<>>, buf |-> <<>>], none |-> FALSE]
    IN  Rest([FoldLeft(getchar, start, bursts) EXCEPT !.none = FALSE]).rl

-----------------------------------------------------------------------------
(***************************************************************************)
(* What the one who types expects                                          *)
(***************************************************************************)

Concat(bursts) == FoldLeft(LAMBDA x, y : x \o y, <<>>, bursts)

\* The last word on a flag that is held: which of its keys moved last
LastMove(codes, n, flag) ==
    LET moves == {i \in 1..n : codes[i].key \in DOMAIN shiftcode /\ shiftcode[codes[i].key] = flag}
    IN  moves # {} /\ codes[CHOOSE i \in moves : \A j \in moves : j <= i].down

Pressed(codes, n, key) == Cardinality({i \in 1..n : codes[i].key = key /\ codes[i].down})

\* Ctl wins over Shift; CapsLock and Shift undo each other
Meaning(codes, n) ==
    LET key == codes[n].key
        ctl == LastMove(codes, n, "CTL")
        capital == LastMove(codes, n, "SHIFT") # (Pressed(codes, n, "caps") % 2 = 1)
    IN  CASE ~codes[n].down -> NO
          [] key = "a" -> IF ctl THEN "^A" ELSE IF capital THEN "A" ELSE "a"
          [] key = "enter" -> IF ctl THEN "CR" ELSE "LF"
          [] key = "bs" /\ ~ctl -> "BS"
          [] OTHER -> NO

Text(codes) ==
    SelectSeq([n \in DOMAIN codes |-> Meaning(codes, n)], LAMBDA c : c # NO)

\* What survives of a line: a printable character unless a Backspace takes it
RECURSIVE Edited(_)
Edited(text) ==
    IF text = <<>> THEN <<>>
    ELSE LET before == Edited(Front(text))
         IN  IF Last(text) \in Printable THEN IF Len(before) < BUFLEN - 1 THEN Append(before, Last(text)) ELSE before
             ELSE IF Last(text) = "BS" /\ before # <<>> THEN Front(before)
             ELSE before

\* Every Enter ends a line, with Ctl or without
Lines(text) ==
    LET ends == {i \in DOMAIN text : text[i] \in LineEnds}
        first(i) == CHOOSE j \in 1..i : (j - 1 \in ends \cup {0}) /\ j..i - 1 \cap ends = {}
        line(i) == Edited(SubSeq(text, first(i), i - 1))
        nth(n) == CHOOSE i \in ends : Cardinality({j \in ends : j <= i}) = n
    IN  [lines |-> [n \in 1..Cardinality(ends) |-> line(nth(n))], buf |-> line(Len(text) + 1)]

\* How many characters wait when the n-th question has polled; one is given for
\* each question
Waiting(bursts) ==
    LET upto(n) == Len(Text(Concat(SubSeq(bursts, 1, n))))
        w[n \in 0..Len(bursts)] ==
            IF n = 0 THEN 0
            ELSE (IF w[n - 1] = 0 THEN 0 ELSE w[n - 1] - 1) + upto(n) - upto(n - 1)
    IN  w

\* They never fill the buffer: one place is always free
Fits(bursts) == \A n \in DOMAIN bursts : Waiting(bursts)[n] < CONSBUFSIZE
=============================================================================
