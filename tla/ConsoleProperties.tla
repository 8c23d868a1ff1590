-------------------------- MODULE ConsoleProperties --------------------------
(***************************************************************************)
(* What the console promises: do_printf() formats as its head comment      *)
(* says, and the screen shows what was printed.                            *)
(***************************************************************************)
EXTENDS Console

\* The field widths and argument words do_printf() is tried with, and texts with
\* their arguments, [fmt, args], after which it is tried.
CONSTANTS Widths, Words, Texts

\* "largest number handled is 2^32-1", doprintf.c:58; the width is unsigned.
ASSUME FormatsAssumption ==
  /\ LongMod \div 65536 <= 65536 /\ LongMod > 10
  /\ Widths \subseteq 0 .. LongMod - 1 /\ Words \subseteq 0 .. LongMod - 1
  /\ \A t \in Texts : t.fmt \in Seq(STRING)

\* The type of every variable.
TypeOK ==
  /\ tty.x \in Int /\ tty.y \in Int /\ tty.scr \in [Cells -> Char]
  /\ tty.index \in {"lo", "hi"} /\ tty.lo \in 0 .. 255 /\ tty.hi \in 0 .. 255
  /\ at \in 0 .. Len(Statements) /\ (at > 0 => todo # <<>>)
  /\ \A i \in DOMAIN k_devs : k_devs[i].type \in 1 .. 4 /\ k_devs[i].minor \in {0, 1}
  /\ this \in 1 .. Len(k_devs) + 1

-----------------------------------------------------------------------------
(* The screen *)

\* An endless sheet of rows of W characters: a printed character goes to place
\* p, top is the first row that a window of H rows still shows.
Sheet(p, top, cells) ==
  [p |-> p, top |-> top,
   cells |-> [q \in 0 .. (top + H) * W - 1 |-> IF q \in DOMAIN cells THEN cells[q] ELSE Blank]]
\* The window follows the place p, and the sheet grows with it.
Follow(p, top, cells) == Sheet(p, IF p \div W < top + H THEN top ELSE p \div W - H + 1, cells)
Write(s, c) ==
  CASE c = NL -> Follow((s.p \div W + 1) * W, s.top, s.cells)
    [] c = CR -> [s EXCEPT !.p = (s.p \div W) * W]
    [] c = BS -> LET q == IF s.p > s.top * W THEN s.p - 1 ELSE s.p
                 IN  [s EXCEPT !.p = q, !.cells[q] = Blank]
    [] c \in Ignored -> s
    [] OTHER -> Follow(s.p + 1, s.top, [s.cells EXCEPT ![s.p] = c])
Written(text) == FoldLeft(Write, Sheet(0, 0, <<>>), text)

\* Between two calls of tty_putc() the screen is the window of H rows on the
\* sheet that holds all characters printed so far, and the cursor stands at the
\* place the next one goes to: wrapping, scrolling and stepping back never lose
\* or repeat a character, nor does the text press() prints between two
\* characters of the core process.
ScreenShowsStream ==
  at = 0 =>
    LET s == Written([i \in DOMAIN stream |-> stream[i].c])
    IN  /\ \A a \in Cells : tty.scr[a] = s.cells[s.top * W + a]
        /\ Cursor(tty) = s.p - s.top * W

\* No store of tty_putc() leaves the screen memory, for the cursor is moved back
\* ("and move the cursor back", tty.c:87) before the next character is stored.
StoresOnScreen == ~tty.outside

\* Between two calls the hardware cursor is where the next character goes; "the
\* hw. uses linear cursor offsets", x+y*w (tty.c:17).
CursorFollowsText == at = 0 => tty.lo + 256 * tty.hi = Cursor(tty)

-----------------------------------------------------------------------------
(* do_printf() against its head comment, doprintf.c:22-46 *)

Times(p, x) == p * x
Power(b, n) == FoldLeft(Times, 1, [i \in 1 .. n |-> b])
Numeral(v, radix, table) ==
  LET k == CHOOSE n \in 1 .. 16 : Power(radix, n) > v /\ (n > 1 => Power(radix, n - 1) <= v)
  IN  [i \in 1 .. k |-> table[((v \div Power(radix, k - i)) % radix) + 1]]

Radix == [d |-> 10, i |-> 10, u |-> 10, o |-> 8, x |-> 16, X |-> 16, p |-> 16]

\* The text of word w for a conversion, left justified and padded with zeroes or
\* not, in a field of width wd.
Expected(left, zeroes, wd, conv, w) ==
  LET v    == IF conv \in {"d", "i"} /\ w >= LongMod \div 2 THEN w - LongMod ELSE w
      sign == IF v < 0 THEN <<"-">> ELSE <<>>
      num  == Numeral(IF v < 0 THEN 0 - v ELSE v, Radix[conv],
                      IF conv = "X" THEN CapDigits ELSE LowDigits)
      gap  == wd - Len(sign) - Len(num)
  IN  CASE left -> sign \o num \o Fill(" ", gap)
        [] ~left /\ zeroes -> sign \o Fill("0", gap) \o num
        [] OTHER -> Fill(" ", gap) \o sign \o num

WidthText(wd) == IF wd = 0 THEN <<>> ELSE Numeral(wd, 10, LowDigits)

\* The modifiers with which an argument is a whole word.
WordModifiers == {<<>>, <<"N">>, <<"l">>}

\* A number conversion with every combination of flags and width and no modifier,
\* N or l prints a word as the head comment promises, the sign within the width
\* and before the zeroes, the most negative word too; what follows in the format,
\* %% and %s among it, prints as it should.  It says nothing of the modifier h
\* and the conversion c, which the head comment lists as DONE too: they fetch
\* promoted types (doprintf.c:176, 178, 220), and the compiled code stops there.
\* The inputs do not depend on the state; they are tried in the states before the
\* first output.
FormatsAsDocumented ==
  stream = <<>> =>
  \A left, zeroes \in BOOLEAN, mod \in WordModifiers, wd \in Widths, conv \in DOMAIN Radix,
     w \in Words :
    LET spec == (IF left THEN <<"-">> ELSE <<>>) \o (IF zeroes THEN <<"0">> ELSE <<>>)
                  \o WidthText(wd) \o mod \o <<conv>>
        fmt  == <<"<", "%">> \o spec \o <<"%", "%", "%", "x", "%", "3", "s", ">">>
        s    == do_printf(fmt, <<w, 10, <<"s">> >>)
    IN  /\ ~s.trapped
        /\ s.out = <<"<">> \o Expected(left, zeroes, wd, conv, w)
                     \o <<"%", "a", " ", " ", "s", ">">>

\* Whatever text comes first, and on whichever way the scanner has left it (a
\* conversion, a letter that is none, a second "-", "%%" after flags and a width,
\* plain characters): once it waits for the next %, a conversion prints as it
\* does alone, for no flag, width or modifier of the text is left.
ConversionsStandAlone ==
  stream = <<>> =>
  \A text \in Texts, wd \in Widths, conv \in DOMAIN Radix :
    LET s     == do_printf(text.fmt, text.args)
        next  == <<"%">> \o WidthText(wd) \o <<conv>>
        alone == do_printf(next, <<LongMod - 1>>)
    IN  s.state = 0 /\ ~s.trapped =>
          FoldLeft(Scan, [s EXCEPT !.args = <<LongMod - 1>>], next)
            = [alone EXCEPT !.out = s.out \o @]
-----------------------------------------------------------------------------
(* The devices *)

LineOf(drive, type) ==
  <<"D", ":", "f", Digits[drive + 1], Digits[type + 1]>> \o TypeNames[type] \o <<NL>>
Of(drive, type) == IF type = 0 THEN <<>> ELSE LineOf(drive, type)

\* What the core process alone has printed.
Heard(text, call) == IF call.who = "core" THEN Append(text, call.c) ELSE text

\* When the core process has come to its loop, it has printed, whatever press()
\* printed in between, its notes, then one line for each drive the CMOS reports,
\* the drive registered last first, each with the type and the name of the type
\* of this drive (floppy.c:28), and then the two limits of map_temp().
DrivesReported ==
  Core("loop") =>
    FoldLeft(Heard, <<>>, stream)
      = Note \o Note \o Note \o Of(1, cmos % 16) \o Of(0, cmos \div 16)
           \o Numeral(BrkMax, 16, LowDigits) \o <<NL>>
           \o Numeral((BrkMax - PageSize) % LongMod, 16, LowDigits) \o <<NL>>
==============================================================================
