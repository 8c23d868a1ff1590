------------------------------- MODULE Printf -------------------------------
(***************************************************************************)
(* do_printf() of lib/stdio/doprintf.c: the scanner of the format string   *)
(* and the three conversions of a number, string or character, as a fold   *)
(* over the characters of the format.  A character is a string of one      *)
(* character; a number argument is a machine word, a %s argument a         *)
(* sequence of characters.                                                 *)
(*                                                                         *)
(* A format that ends in a bare % or %0 makes the code skip its NUL; no    *)
(* format of the kernel does, and the fold just ends there.                *)
(***************************************************************************)
EXTENDS Integers, Sequences, SequencesExt

CONSTANTS LongMod, ShortMod    \* 2^32 and 2^16 in the code

ASSUME PrintfAssumption ==
  /\ LongMod \in Nat /\ ShortMod \in Nat
  /\ ShortMod % 2 = 0 /\ LongMod % ShortMod = 0 /\ ShortMod >= 2

Digits    == <<"0", "1", "2", "3", "4", "5", "6", "7", "8", "9">>
LowDigits == Digits \o <<"a", "b", "c", "d", "e", "f">>
CapDigits == Digits \o <<"A", "B", "C", "D", "E", "F">>
DigitOf(c) == (CHOOSE i \in 1 .. 10 : Digits[i] = c) - 1
IsDigit(c) == \E i \in 1 .. 10 : Digits[i] = c

Fill(c, n) == [i \in 1 .. (IF n > 0 THEN n ELSE 0) |-> c]

\* The scanner's locals: state, the PR_ flags, given_wd, the arguments that
\* remain, what fn() was called with, and whether va_arg() was asked for a type
\* that is promoted when passed, which the compiler turns into a trap.
Start(args) == [state |-> 0, flags |-> {}, wd |-> 0, args |-> args, out |-> <<>>,
                trapped |-> FALSE]
Reset(s)    == [s EXCEPT !.state = 0, !.flags = {}, !.wd = 0]
Emit(s, cs) == [s EXCEPT !.out = @ \o cs]

\* DO_NUM: the value as an unsigned long, and PR_WS with it.
Value(flags, arg) ==
  LET wide == IF "16" \in flags /\ "32" \notin flags
                THEN IF "SG" \in flags /\ arg % ShortMod >= ShortMod \div 2
                       THEN (arg % ShortMod) + LongMod - ShortMod
                       ELSE arg % ShortMod
                ELSE arg % LongMod
      neg  == "SG" \in flags /\ wide >= LongMod \div 2
  IN  [neg |-> neg, num |-> IF neg THEN (LongMod - wide) % LongMod ELSE wide]

\* The do-while loop that writes the digits from the right end of buf[].
NumDigits(num, radix, table) ==
  LET d[n \in 0 .. LongMod - 1] ==
        IF n < radix THEN <<table[n + 1]>> ELSE Append(d[n \div radix], table[(n % radix) + 1])
  IN  d[num]

\* Faulty variant: the zeroes come before the sign.
MutField(s, where, minus) ==
  LET sign   == IF minus THEN <<"-">> ELSE <<>>
      actual == Len(where) + Len(sign)
      left   == IF "LJ" \in s.flags THEN <<>>
                ELSE Fill(IF "LZ" \in s.flags THEN "0" ELSE " ", s.wd - actual)
      right  == IF "LJ" \in s.flags THEN Fill(" ", s.wd - actual) ELSE <<>>
  IN  Emit(s, left \o sign \o where \o right)

\* EMIT: the sign and the padding round the characters of where; minus is PR_WS.
Field(s, where, minus) ==
  LET sign   == IF minus THEN <<"-">> ELSE <<>>
      actual == Len(where) + Len(sign)
      first  == IF "LZ" \in s.flags THEN sign ELSE <<>>
      left   == IF "LJ" \in s.flags THEN <<>>
                ELSE Fill(IF "LZ" \in s.flags THEN "0" ELSE " ", s.wd - actual)
      then   == IF "LZ" \in s.flags THEN <<>> ELSE sign
      right  == IF "LJ" \in s.flags THEN Fill(" ", s.wd - actual) ELSE <<>>
  IN  Emit(s, first \o left \o then \o where \o right)

Number(s, radix, table, flags) ==
  LET v == Value(flags, Head(s.args))
      f == Field(s, NumDigits(v.num, radix, table), v.neg)
  IN  [f EXCEPT !.args = Tail(@), !.trapped = @ \/ ("16" \in flags /\ "32" \notin flags)]

\* State 4; whatever the character, the scanner then awaits the next %.
Convert(s, c) ==
  Reset(CASE c = "X" -> Number(s, 16, CapDigits, s.flags)
          [] c \in {"x", "p", "n"} -> Number(s, 16, LowDigits, s.flags)
          [] c \in {"d", "i"} -> Number(s, 10, LowDigits, s.flags \cup {"SG"})
          [] c = "u" -> Number(s, 10, LowDigits, s.flags)
          [] c = "o" -> Number(s, 8, LowDigits, s.flags)
          [] c \in {"s", "c"} ->
               [Field([s EXCEPT !.flags = @ \ {"LZ"}], Head(s.args), FALSE)
                  EXCEPT !.args = Tail(@), !.trapped = @ \/ c = "c"]
          [] OTHER -> s)

\* States 3 and 2, falling through to the next.
Modifier(s, c) ==
  CASE c = "F" -> [s EXCEPT !.state = 3, !.flags = @ \cup {"FP"}]
    [] c = "N" -> [s EXCEPT !.state = 3]
    [] c = "l" -> [s EXCEPT !.state = 3, !.flags = @ \cup {"32"}]
    [] c = "h" -> [s EXCEPT !.state = 3, !.flags = @ \cup {"16"}]
    [] OTHER   -> Convert(s, c)
Width(s, c) ==
  IF IsDigit(c) THEN [s EXCEPT !.state = 2, !.wd = 10 * @ + DigitOf(c)] ELSE Modifier(s, c)

\* Faulty variant: a second "-" leaves the flag of the first.
MutFlag(s, c) ==
  CASE c = "%" -> Reset(Emit(s, <<"%">>))
    [] c = "-" -> IF "LJ" \in s.flags THEN [s EXCEPT !.state = 0]
                  ELSE [s EXCEPT !.flags = @ \cup {"LJ"}]
    [] c = "0" -> [s EXCEPT !.state = 2, !.flags = @ \cup {"LZ"}]
    [] OTHER   -> Width(s, c)

\* State 1: "%%", the flag "-", which may not come twice, and the flag "0",
\* which ends the flags.
Flag(s, c) ==
  CASE c = "%" -> Reset(Emit(s, <<"%">>))
    [] c = "-" -> IF "LJ" \in s.flags THEN Reset(s) ELSE [s EXCEPT !.flags = @ \cup {"LJ"}]
    [] c = "0" -> [s EXCEPT !.state = 2, !.flags = @ \cup {"LZ"}]
    [] OTHER   -> Width(s, c)

Scan(s, c) ==
  CASE s.state = 0 -> IF c = "%" THEN [s EXCEPT !.state = 1] ELSE Emit(s, <<c>>)
    [] s.state = 1 -> Flag(s, c)
    [] s.state = 2 -> Width(s, c)
    [] OTHER       -> Modifier(s, c)

do_printf(fmt, args) == FoldLeft(Scan, Start(args), fmt)

\* kprintf(): the characters it hands to tty_putc().
kprintf(fmt, args) == do_printf(fmt, args).out
=============================================================================
