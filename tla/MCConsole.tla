------------------------------ MODULE MCConsole ------------------------------
(***************************************************************************)
(* Instances of the console for TLC: a screen of 4 by 3 characters, words  *)
(* of 16 bits, drives of the types 0, 1 and 4 and one-character names.     *)
(***************************************************************************)
EXTENDS ConsoleProperties

MCTypeNames == [t \in 0 .. 4 |-> <<(<<"A", "B", "C", "D", "E">>)[t + 1]>>]
MCCmosBytes == {0, 4, 16, 65}      \* types 0, 0; 0, 4; 1, 0; 4, 1
MCNote      == <<NL, "n">>
\* A line; a line that starts on a new one; control characters.
MCKeyText   == {<<"-", NL>>, <<NL, "*">>, <<CR, "x", BS, BS, "\t">>}
MCChar      == {Blank, NL, CR, BS, "n", "-", "*", "D", ":"} \cup Ignored
                 \cup {LowDigits[i] : i \in DOMAIN LowDigits}
                 \cup {"A", "B", "C", "D", "E", "x"}
\* All texts of up to four characters with numbers, and with strings as arguments.
UpTo(n, S)  == UNION {[1 .. k -> S] : k \in 0 .. n}
MCTexts     ==
  [fmt : UpTo(4, {"%", "-", "0", "3", "l", "d", "y"}), args : {<<7, 8>>}]
    \cup [fmt : UpTo(4, {"%", "-", "0", "3", "N", "h", "s"}), args : {<< <<"a">>, <<"b">> >>}]
    \cup [fmt : UpTo(3, {"%", "F", "h", "c", "|"}), args : {<< <<"a">> >>}]
MCWords     == {0, 1, 9, 10, 255, 256, 32767, 32768, 65535}
==============================================================================
