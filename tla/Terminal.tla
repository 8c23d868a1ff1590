------------------------------ MODULE Terminal ------------------------------
(***************************************************************************)
(* lib/tty/tty.c: the cursor, the screen memory and the cursor registers   *)
(* of the video hardware, as one record that the statements of tty_putc()  *)
(* change one after the other.                                             *)
(***************************************************************************)
EXTENDS Integers, Sequences, SequencesExt

CONSTANTS
  W, H,     \* tty_w and tty_h: 80 and 25 in the code
  Char      \* the values of char: a string each, the character or its code

Blank == " "
NL == "\n"
CR == "\r"
BS == "0x08"        \* the backspace
\* Characters below ' ', and those from 0x80 up, which are negative as char.
Ignored == {"\t", "0x80"}
Cells == 0 .. W * H - 1

ASSUME TerminalAssumption ==
  /\ W \in Nat \ {0} /\ H \in Nat \ {0}
  /\ {Blank, NL, CR, BS} \cup Ignored \subseteq Char

\* x, y: tty_x and tty_y; scr: tty_scr[]; index, lo, hi: the CRTC's index
\* register and the two cursor registers behind it; pos: the local position of
\* tty_setcursor(); outside: a store has left the W * H cells of the screen.
Cursor(T) == T.x + T.y * W
PutCell(T, a, c) ==
  IF a \in Cells THEN [T EXCEPT !.scr[a] = c] ELSE [T EXCEPT !.outside = TRUE]

\* The backspace: one cell back unless in the home position.
Back(T) == LET a == Cursor(T)
               t == IF a > 0 THEN a - 1 ELSE a
           IN  PutCell([T EXCEPT !.x = t % W, !.y = t \div W], t, Blank)

\* Faulty variant: the bottom line keeps its text.
Muttty_scrollup(T) ==
  [T EXCEPT !.scr = [a \in Cells |-> IF a < W * (H - 1) THEN T.scr[a + W] ELSE T.scr[a]]]

tty_scrollup(T) ==
  [T EXCEPT !.scr = [a \in Cells |-> IF a < W * (H - 1) THEN T.scr[a + W] ELSE Blank]]

\* Faulty variant: the row below the last one is taken for part of the screen.
MutBackOnScreen(T) == IF T.y > H THEN [tty_scrollup(T) EXCEPT !.y = @ - 1] ELSE T

\* The cursor moved off of the screen: scroll, and move it back.
BackOnScreen(T) == IF T.y = H THEN [tty_scrollup(T) EXCEPT !.y = @ - 1] ELSE T

Printable(c) == c \notin {NL, CR, BS} \cup Ignored

\* The statements of tty_setcursor(), for the cursor of the terminal.
tty_setcursor(l, T) ==
  CASE l = "position" -> [T EXCEPT !.pos = T.x * W + T.y]
    [] l = "index_lo" -> [T EXCEPT !.index = "lo"]
    [] l = "data_lo"  -> [T EXCEPT ![T.index] = T.pos % 256]
    [] l = "index_hi" -> [T EXCEPT !.index = "hi"]
    [] l = "data_hi"  -> [T EXCEPT ![T.index] = (T.pos \div 256) % 256]

\* The statements of tty_putc(c), with those of tty_setcursor() at its end.
Statements == <<"cell", "column", "row", "scroll", "position",
                "index_lo", "data_lo", "index_hi", "data_hi">>
Statement(l, c, T) ==
  CASE l = "cell"   -> IF c = BS THEN Back(T)
                       ELSE IF Printable(c) THEN PutCell(T, Cursor(T), c) ELSE T
    [] l = "column" -> IF c \in {NL, CR} THEN [T EXCEPT !.x = 0]
                       ELSE IF Printable(c) THEN [T EXCEPT !.x = @ + 1] ELSE T
    [] l = "row"    -> IF c = NL THEN [T EXCEPT !.y = @ + 1]
                       ELSE IF Printable(c) /\ T.x = W
                         THEN [T EXCEPT !.x = 0, !.y = @ + 1] ELSE T
    [] l = "scroll" -> BackOnScreen(T)
    [] OTHER        -> tty_setcursor(l, T)

\* A whole call that nothing interrupts; pos is a local of that call.
Execute(T, s) == Statement(s.label, s.c, T)
Body(c) == [i \in DOMAIN Statements |-> [label |-> Statements[i], c |-> c]]
tty_putc(T, c) == [FoldLeft(Execute, T, Body(c)) EXCEPT !.pos = T.pos]
tty_write(T, str) == FoldLeft(tty_putc, T, str)

\* tty_cls()
Cleared == [x |-> 0, y |-> 0, scr |-> [a \in Cells |-> Blank],
            index |-> "hi", lo |-> 0, hi |-> 0, pos |-> 0, outside |-> FALSE]
=============================================================================
