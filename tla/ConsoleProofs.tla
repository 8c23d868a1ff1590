---------------------------- MODULE ConsoleProofs ----------------------------
(***************************************************************************)
(* The terminal and the console, for every size of screen, every text and  *)
(* every byte of the CMOS: the types, what the screen shows and where it   *)
(* is stored to while press() interrupts no call, and what the core        *)
(* process has printed of the drives, whatever press() does.               *)
(***************************************************************************)
EXTENDS PrintfProofs

-----------------------------------------------------------------------------
(* Rows and columns *)

\* The place of column x in row y, and where it lies on the screen.
LEMMA PlaceOf ==
  ASSUME NEW x \in 0 .. W - 1, NEW y \in Nat
  PROVE  /\ (x + y * W) \div W = y /\ (x + y * W) % W = x
         /\ x + y * W \in Nat
         /\ y < H => x + y * W \in Cells
<1>1. W \in Nat \ {0} /\ H \in Nat \ {0}
  BY TerminalAssumption
<1>2. x + y * W \in Nat
  BY <1>1
<1>3. (x + y * W) \div W = y /\ (x + y * W) % W = x
  BY <1>1, Z3
<1>4. ASSUME y < H PROVE x + y * W \in Cells
  <2>1. y * W <= (H - 1) * W
    BY <1>1, <1>4
  <2>2. (H - 1) * W = W * H - W
    BY <1>1
  <2> QED BY <1>1, <1>2, <2>1, <2>2 DEF Cells
<1> QED BY <1>2, <1>3, <1>4

\* The column and the row of a place.
LEMMA RowOf ==
  ASSUME NEW p \in Nat
  PROVE  /\ p % W \in 0 .. W - 1 /\ p \div W \in Nat
         /\ p = (p % W) + (p \div W) * W
BY TerminalAssumption, Z3

-----------------------------------------------------------------------------
(* The statements of tty_putc() *)

\* The terminal, wherever its cursor is.
TTY == [x : Int, y : Int, scr : [Cells -> Char], index : {"lo", "hi"},
        lo : 0 .. 255, hi : 0 .. 255, pos : Int, outside : BOOLEAN]
Commands == [label : {Statements[i] : i \in DOMAIN Statements}, c : Char]

Run   == INSTANCE Folding WITH Op <- Execute
Calling == INSTANCE Folding WITH Op <- tty_putc
Drawing == INSTANCE Folding WITH Op <- Write

\* A store into the screen, or past it.
LEMMA PutCellType ==
  ASSUME NEW T \in TTY, NEW a \in Int, NEW c \in Char
  PROVE  /\ PutCell(T, a, c) \in TTY
         /\ PutCell(T, a, c).x = T.x /\ PutCell(T, a, c).y = T.y
<1>1. CASE a \in Cells
  BY <1>1 DEF PutCell, TTY
<1>2. CASE a \notin Cells
  BY <1>2 DEF PutCell, TTY
<1> QED BY <1>1, <1>2

\* Scrolling fills the rows with those below them.
LEMMA ScrollType ==
  ASSUME NEW T \in TTY
  PROVE  /\ tty_scrollup(T) \in TTY /\ BackOnScreen(T) \in TTY
         /\ T.outside = BackOnScreen(T).outside
<1>1. \A a \in Cells : a < W * (H - 1) => a + W \in Cells
  <2>1. W * (H - 1) = W * H - W /\ W * H \in Nat
    BY TerminalAssumption
  <2> QED BY <2>1, TerminalAssumption DEF Cells
<1>2. [a \in Cells |-> IF a < W * (H - 1) THEN T.scr[a + W] ELSE Blank] \in [Cells -> Char]
  BY <1>1, TerminalAssumption DEF TTY
<1>3. tty_scrollup(T) \in TTY /\ tty_scrollup(T).outside = T.outside
  BY <1>2 DEF tty_scrollup, TTY
<1> QED BY <1>3 DEF BackOnScreen, TTY

\* The characters tty_putc() tells apart.
LEMMA Kinds ==
  /\ NL # CR /\ NL # BS /\ CR # BS /\ {NL, CR, BS} \cap Ignored = {}
  /\ \A c : Printable(c) <=> c \notin {NL, CR, BS} \cup Ignored
<1>1. NL # CR /\ NL # BS /\ CR # BS /\ {NL, CR, BS} \cap Ignored = {}
  BY DEF NL, CR, BS, Ignored
<1> QED BY <1>1 DEF Printable

\* All but the second and the third.
LEMMA CellScroll ==
  ASSUME NEW T, NEW c
  PROVE  /\ c = BS => Statement("cell", c, T) = Back(T)
         /\ Printable(c) => Statement("cell", c, T) = PutCell(T, Cursor(T), c)
         /\ c # BS /\ ~Printable(c) => Statement("cell", c, T) = T
         /\ Statement("scroll", c, T) = BackOnScreen(T)
         /\ \A l \in {"position", "index_lo", "data_lo", "index_hi", "data_hi"} :
              Statement(l, c, T) = tty_setcursor(l, T)
<1>1. Statement("cell", c, T) = IF c = BS THEN Back(T)
              ELSE IF Printable(c) THEN PutCell(T, Cursor(T), c) ELSE T
  BY DEF Statement
<1>2. Statement("scroll", c, T) = BackOnScreen(T)
  BY DEF Statement
<1>3. \A l \in {"position", "index_lo", "data_lo", "index_hi", "data_hi"} :
        Statement(l, c, T) = tty_setcursor(l, T)
  BY DEF Statement
<1> QED BY <1>1, <1>2, <1>3, Kinds

\* The second and the third move the cursor.
LEMMA ColumnRow ==
  ASSUME NEW T \in TTY, NEW c, NEW l \in {"column", "row"}, NEW U, U = Statement(l, c, T)
  PROVE  /\ U \in TTY /\ U.scr = T.scr /\ U.outside = T.outside
         /\ l = "column" => /\ U.y = T.y
                            /\ U.x = IF c \in {NL, CR} THEN 0
                                     ELSE IF Printable(c) THEN T.x + 1 ELSE T.x
         /\ l = "row" => /\ U.y = IF c = NL \/ (Printable(c) /\ T.x = W) THEN T.y + 1 ELSE T.y
                         /\ U.x = IF c # NL /\ Printable(c) /\ T.x = W THEN 0 ELSE T.x
<1>1. CASE l = "column"
  <2>1. U = IF c \in {NL, CR} THEN [T EXCEPT !.x = 0]
            ELSE IF Printable(c) THEN [T EXCEPT !.x = @ + 1] ELSE T
    BY <1>1 DEF Statement
  <2> QED BY <1>1, <2>1 DEF TTY
<1>2. CASE l = "row"
  <2>1. U = IF c = NL THEN [T EXCEPT !.y = @ + 1]
            ELSE IF Printable(c) /\ T.x = W THEN [T EXCEPT !.x = 0, !.y = @ + 1] ELSE T
    BY <1>2 DEF Statement
  <2>2. CASE c = NL
    <3>1. U = [T EXCEPT !.y = @ + 1]
      BY <2>1, <2>2
    <3> QED BY <1>2, <2>2, <3>1 DEF TTY
  <2>3. CASE c # NL /\ Printable(c) /\ T.x = W
    <3>1. PICK A : A = [T EXCEPT !.x = 0]
      OBVIOUS
    <3>2. U = [A EXCEPT !.y = T.y + 1]
      BY <2>1, <2>3, <3>1
    <3>3. /\ A \in TTY /\ A.x = 0 /\ A.scr = T.scr /\ A.outside = T.outside
          /\ T.y + 1 \in Int
      BY <3>1 DEF TTY
    <3>4. U \in TTY /\ U.x = A.x /\ U.scr = A.scr /\ U.outside = A.outside /\ U.y = T.y + 1
      BY <3>2, <3>3 DEF TTY
    <3> QED BY <1>2, <2>3, <3>3, <3>4
  <2>4. CASE c # NL /\ ~(Printable(c) /\ T.x = W)
    BY <1>2, <2>1, <2>4
  <2> QED BY <2>2, <2>3, <2>4
<1> QED BY <1>1, <1>2

Put(cells, q, c) == [cells EXCEPT ![q] = c]

\* What each kind of character writes on the sheet.
LEMMA Writes ==
  ASSUME NEW p, NEW top, NEW cells, NEW c,
         NEW s, s = [p |-> p, top |-> top, cells |-> cells]
  PROVE  /\ c = NL => Write(s, c) = Follow((p \div W + 1) * W, top, cells)
         /\ c = CR => Write(s, c) = [p |-> (p \div W) * W, top |-> top, cells |-> cells]
         /\ c = BS => \A q : q = (IF p > top * W THEN p - 1 ELSE p)
              => Write(s, c) = [p |-> q, top |-> top, cells |-> Put(cells, q, Blank)]
         /\ c \in Ignored => Write(s, c) = s
         /\ Printable(c) => Write(s, c) = Follow(p + 1, top, Put(cells, p, c))
<1>1. ASSUME c = NL PROVE Write(s, c) = Follow((p \div W + 1) * W, top, cells)
  BY <1>1, Kinds DEF Write
<1>2. ASSUME c = CR
      PROVE  Write(s, c) = [p |-> (p \div W) * W, top |-> top, cells |-> cells]
  <2>1. Write(s, c) = [s EXCEPT !.p = (s.p \div W) * W]
    BY <1>2, Kinds DEF Write
  <2> QED BY <2>1
<1>3. ASSUME c = BS, NEW q, q = IF p > top * W THEN p - 1 ELSE p
      PROVE  Write(s, c) = [p |-> q, top |-> top, cells |-> Put(cells, q, Blank)]
  <2>1. q = IF s.p > s.top * W THEN s.p - 1 ELSE s.p
    BY <1>3
  <2>2. Write(s, c) = [s EXCEPT !.p = q, !.cells[q] = Blank]
    BY <1>3, <2>1, Kinds DEF Write
  <2> QED BY <2>2 DEF Put
<1>4. ASSUME c \in Ignored PROVE Write(s, c) = s
  BY <1>4, Kinds DEF Write
<1>5. ASSUME Printable(c)
      PROVE  Write(s, c) = Follow(p + 1, top, Put(cells, p, c))
  BY <1>5, Kinds DEF Write, Put
<1> QED BY <1>1, <1>2, <1>3, <1>4, <1>5

\* The statements of tty_setcursor() do not touch the screen.
SameScreen(T, U) ==
  U \in TTY /\ U.x = T.x /\ U.y = T.y /\ U.scr = T.scr /\ U.outside = T.outside

LEMMA CursorStatements ==
  ASSUME NEW T \in TTY, NEW l \in {"position", "index_lo", "data_lo", "index_hi", "data_hi"}
  PROVE  SameScreen(T, tty_setcursor(l, T))
<1>1. ASSUME NEW v \in 0 .. 255 PROVE SameScreen(T, [T EXCEPT ![T.index] = v])
  <2>1. CASE T.index = "lo"
    <3>1. [T EXCEPT ![T.index] = v] = [T EXCEPT !.lo = v]
      BY <2>1
    <3> QED BY <3>1 DEF SameScreen, TTY
  <2>2. CASE T.index = "hi"
    <3>1. [T EXCEPT ![T.index] = v] = [T EXCEPT !.hi = v]
      BY <2>2
    <3> QED BY <3>1 DEF SameScreen, TTY
  <2> QED BY <2>1, <2>2 DEF TTY
<1>2. CASE l = "position"
  BY <1>2, TerminalAssumption DEF tty_setcursor, SameScreen, TTY
<1>3. CASE l = "index_lo"
  BY <1>3 DEF tty_setcursor, SameScreen, TTY
<1>4. CASE l = "index_hi"
  BY <1>4 DEF tty_setcursor, SameScreen, TTY
<1>5. CASE l = "data_lo"
  <2>1. T.pos % 256 \in 0 .. 255
    BY DEF TTY
  <2> QED BY <1>1, <1>5, <2>1 DEF tty_setcursor
<1>6. CASE l = "data_hi"
  <2>1. (T.pos \div 256) % 256 \in 0 .. 255
    BY DEF TTY
  <2> QED BY <1>1, <1>6, <2>1 DEF tty_setcursor
<1> QED BY <1>2, <1>3, <1>4, <1>5, <1>6

\* Every statement leaves a terminal.
LEMMA StatementType ==
  ASSUME NEW T \in TTY, NEW c \in Char, NEW l \in {Statements[i] : i \in DOMAIN Statements}
  PROVE  Statement(l, c, T) \in TTY
<1>1. CASE l = "cell"
  <2>1. Cursor(T) \in Int
    BY TerminalAssumption DEF Cursor, TTY
  <2>2. Back(T) \in TTY
    <3>1. ASSUME NEW t \in Int, NEW U, U = [T EXCEPT !.x = t % W, !.y = t \div W]
          PROVE  PutCell(U, t, Blank) \in TTY
      <4>1. t % W \in Int /\ t \div W \in Int
        BY TerminalAssumption
      <4>2. U \in TTY
        BY ZenonT(30), <3>1, <4>1 DEF TTY
      <4> QED BY <4>2, PutCellType, TerminalAssumption
    <3>2. PICK a \in Int : a = Cursor(T)
      BY <2>1
    <3>3. PICK t \in Int : t = IF a > 0 THEN a - 1 ELSE a
      OBVIOUS
    <3> QED BY <3>1, <3>2, <3>3 DEF Back
  <2> QED BY <1>1, <2>1, <2>2, PutCellType, CellScroll
<1>2. CASE l \in {"column", "row"}
  BY <1>2, ColumnRow
<1>3. CASE l = "scroll"
  BY <1>3, ScrollType, CellScroll
<1>4. CASE l \in {"position", "index_lo", "data_lo", "index_hi", "data_hi"}
  BY <1>4, CellScroll, CursorStatements DEF SameScreen
<1> QED BY <1>1, <1>2, <1>3, <1>4 DEF Statements

\* The commands of one call.
LEMMA BodyType ==
  ASSUME NEW c \in Char
  PROVE  /\ DOMAIN Body(c) = 1 .. 9 /\ DOMAIN Statements = 1 .. 9 /\ Len(Statements) = 9
         /\ Body(c) \in Seq(Commands)
         /\ \A i \in 1 .. 9 : Body(c)[i] = [label |-> Statements[i], c |-> c]
<1>1. DOMAIN Statements = 1 .. 9 /\ Len(Statements) = 9
  BY DEF Statements
<1>2. Body(c) \in [1 .. 9 -> Commands]
  BY <1>1 DEF Body, Commands
<1>3. Body(c) \in Seq(Commands)
  BY <1>2, SeqDef
<1> QED BY <1>1, <1>3 DEF Body

\* The window of the sheet, from row top on, is on the screen, and the cursor is
\* where the place p lies in it or below it.
Shows(T, p, top, cells) ==
  /\ T \in TTY /\ ~T.outside /\ p \in Nat /\ top \in Nat
  /\ cells \in [0 .. (top + H) * W - 1 -> Char]
  /\ p = T.x + (top + T.y) * W
  /\ \A a \in Cells : T.scr[a] = cells[top * W + a]
InWindow(T) == T.x \in 0 .. W - 1 /\ T.y \in 0 .. H - 1
Depicts(T, s) ==
  /\ InWindow(T)
  /\ \E p, top, cells : s = [p |-> p, top |-> top, cells |-> cells] /\ Shows(T, p, top, cells)

\* The places of the window.
LEMMA Window ==
  ASSUME NEW top \in Nat
  PROVE  /\ top * W \in Nat /\ (top + H) * W = top * W + W * H
         /\ (top + H) * W \in Nat /\ W * H \in Nat
         /\ (top + 1) * W = top * W + W
         /\ \A a \in Cells : top * W + a \in 0 .. (top + H) * W - 1
<1>1. W \in Nat /\ H \in Nat
  BY TerminalAssumption
<1>2. top * W \in Nat /\ W * H \in Nat /\ (top + H) * W = top * W + W * H
  BY <1>1
<1>3. (top + 1) * W = top * W + W
  BY <1>1
<1> QED BY <1>1, <1>2, <1>3 DEF Cells

\* A cursor at most one row below the screen comes back on it, and the window
\* follows.
LEMMA FollowDepicts ==
  ASSUME NEW T, NEW p, NEW top, NEW cells, Shows(T, p, top, cells),
         T.x \in 0 .. W - 1, T.y \in 0 .. H
  PROVE  Depicts(BackOnScreen(T), Follow(p, top, cells)) /\ ~BackOnScreen(T).outside
<1>1. W \in Nat \ {0} /\ H \in Nat \ {0} /\ Blank \in Char
  BY TerminalAssumption
<1>2. T \in TTY /\ top \in Nat /\ cells \in [0 .. (top + H) * W - 1 -> Char] /\ p \in Nat
  BY DEF Shows
<1>3. p \div W = top + T.y
  <2>1. top + T.y \in Nat
    BY <1>1, <1>2
  <2> QED BY <2>1, PlaceOf DEF Shows
<1>4. CASE T.y < H
  <2>1. Follow(p, top, cells) = Sheet(p, top, cells) /\ BackOnScreen(T) = T
    BY <1>1, <1>2, <1>3, <1>4 DEF Follow, BackOnScreen
  <2> DEFINE more == [q \in 0 .. (top + H) * W - 1 |->
                        IF q \in DOMAIN cells THEN cells[q] ELSE Blank]
  <2>2. more = cells
    BY <1>2
  <2>3. Sheet(p, top, cells) = [p |-> p, top |-> top, cells |-> cells]
    BY <2>2 DEF Sheet
  <2>4. InWindow(T)
    BY <1>1, <1>4 DEF InWindow
  <2>5. ~T.outside
    BY DEF Shows
  <2> QED BY <2>1, <2>3, <2>4, <2>5 DEF Depicts
<1>5. CASE T.y = H
  <2> DEFINE new == top + 1
             more == [q \in 0 .. (new + H) * W - 1 |->
                        IF q \in DOMAIN cells THEN cells[q] ELSE Blank]
             U == BackOnScreen(T)
  <2>1. Follow(p, top, cells) = Sheet(p, new, cells)
    <3>1. ~(p \div W < top + H) /\ p \div W - H + 1 = new
      BY <1>1, <1>2, <1>3, <1>5
    <3> QED BY <3>1 DEF Follow
  <2>2. /\ Sheet(p, new, cells) = [p |-> p, top |-> new, cells |-> more]
        /\ more \in [0 .. (new + H) * W - 1 -> Char]
    BY <1>1, <1>2 DEF Sheet
  <2>3. U = [tty_scrollup(T) EXCEPT !.y = @ - 1]
    BY <1>5 DEF BackOnScreen
  <2>4. U \in TTY /\ ~U.outside
    BY <1>2, ScrollType DEF Shows
  <2>5. U.x = T.x /\ U.y = H - 1
    BY <1>2, <1>5, <2>3 DEF tty_scrollup, TTY
  <2>6. \A a \in Cells : U.scr[a] = IF a < W * (H - 1) THEN T.scr[a + W] ELSE Blank
    BY <1>2, <2>3 DEF tty_scrollup, TTY
  <2>7. ASSUME NEW a \in Cells PROVE U.scr[a] = more[new * W + a]
    <3>1. new \in Nat /\ new * W + a \in 0 .. (new + H) * W - 1
      BY <1>2, Window
    <3>2. more[new * W + a] = IF new * W + a \in DOMAIN cells THEN cells[new * W + a] ELSE Blank
      BY <3>1
    <3>3. new * W = top * W + W /\ top * W \in Nat /\ (top + H) * W = top * W + W * H
      BY <1>2, Window
    <3>4. W * (H - 1) = W * H - W
      BY <1>1
    <3>5. CASE a < W * (H - 1)
      <4>1. a + W \in Cells
        BY <1>1, <3>4, <3>5 DEF Cells
      <4>2. new * W + a = top * W + (a + W)
        BY <1>1, <3>3 DEF Cells
      <4>3. top * W + (a + W) \in DOMAIN cells
        BY <1>2, <4>1, Window
      <4>4. T.scr[a + W] = cells[top * W + (a + W)]
        BY <4>1 DEF Shows
      <4> HIDE DEF more, new, U
      <4> QED BY <2>6, <3>2, <3>5, <4>2, <4>3, <4>4
    <3>6. CASE ~(a < W * (H - 1))
      <4>1. a \in Nat
        BY DEF Cells
      <4>2. PICK m \in Int : m = W * H
        BY <1>1
      <4>3. PICK t \in Int : t = top * W
        BY <3>3
      <4>4. new * W + a = t + W + a /\ (top + H) * W = t + m /\ a >= m - W
        BY <1>1, <3>3, <3>4, <3>6, <4>1, <4>2, <4>3
      <4>5. new * W + a \notin DOMAIN cells
        BY <1>1, <1>2, <4>1, <4>4
      <4> HIDE DEF more, new, U
      <4> QED BY <2>6, <3>2, <3>6, <4>5
    <3> QED BY <3>5, <3>6
  <2>8. p = U.x + (new + U.y) * W
    <3>1. new + U.y = top + T.y
      BY <1>1, <1>2, <1>5, <2>5
    <3> HIDE DEF U, new
    <3> QED BY <2>5, <3>1 DEF Shows
  <2>9. Shows(U, p, new, more) /\ InWindow(U)
    <3>1. new \in Nat
      BY <1>2
    <3>2. InWindow(U)
      <4> HIDE DEF U
      <4> QED BY <1>1, <2>5 DEF InWindow
    <3> HIDE DEF U, new, more
    <3> QED BY <1>2, <2>2, <2>4, <2>7, <2>8, <3>1, <3>2 DEF Shows
  <2> HIDE DEF U, new, more
  <2>10. Depicts(U, Follow(p, top, cells))
    BY <2>1, <2>2, <2>9 DEF Depicts
  <2> QED BY <2>4, <2>10 DEF U
<1> QED BY <1>1, <1>4, <1>5

\* The first four statements of tty_putc(c).
FourStatements(T, c) ==
  Statement("scroll", c, Statement("row", c, Statement("column", c, Statement("cell", c, T))))

\* The cursor in the window.
LEMMA Opened ==
  ASSUME NEW T, NEW p, NEW top, NEW cells, Shows(T, p, top, cells), InWindow(T)
  PROVE  /\ W \in Nat \ {0} /\ H \in Nat \ {0}
         /\ T \in TTY /\ ~T.outside /\ T.x \in 0 .. W - 1 /\ T.y \in 0 .. H - 1
         /\ top \in Nat /\ top + T.y \in Nat /\ p \in Nat
         /\ cells \in [0 .. (top + H) * W - 1 -> Char]
         /\ \A a \in Cells : T.scr[a] = cells[top * W + a]
         /\ Cursor(T) \in Cells /\ p = top * W + Cursor(T)
         /\ p \div W = top + T.y
<1>1. W \in Nat \ {0} /\ H \in Nat \ {0}
  BY TerminalAssumption
<1>2. /\ T \in TTY /\ ~T.outside /\ T.x \in 0 .. W - 1 /\ T.y \in 0 .. H - 1
      /\ top \in Nat /\ top + T.y \in Nat /\ p \in Nat
      /\ cells \in [0 .. (top + H) * W - 1 -> Char]
      /\ \A a \in Cells : T.scr[a] = cells[top * W + a]
      /\ p = T.x + (top + T.y) * W
  BY SMTT(30), <1>1 DEF Shows, InWindow
<1>3. PICK x \in 0 .. W - 1 : x = T.x
  BY <1>2
<1>4. PICK y \in Nat : y = T.y /\ y < H
  BY <1>1, <1>2
<1>5. x + y * W \in Cells /\ Cursor(T) = x + y * W
  BY <1>3, <1>4, PlaceOf DEF Cursor
<1>6. p = top * W + (x + y * W)
  <2>1. p = x + (top + y) * W
    BY <1>2, <1>3, <1>4
  <2>2. (top + y) * W = top * W + y * W /\ top * W \in Int /\ y * W \in Int
    BY <1>1, <1>2
  <2> QED BY <1>3, <2>1, <2>2
<1>7. p \div W = top + y
  <2>1. top + y \in Nat /\ p = x + (top + y) * W
    BY <1>2, <1>3, <1>4
  <2> QED BY <2>1, PlaceOf
<1> QED BY <1>1, <1>2, <1>4, <1>5, <1>6, <1>7

\* A store in the window is a store on the sheet.
Matches(T, top, cells) ==
  /\ T \in TTY /\ ~T.outside /\ top \in Nat
  /\ cells \in [0 .. (top + H) * W - 1 -> Char]
  /\ \A a \in Cells : T.scr[a] = cells[top * W + a]

LEMMA Stored ==
  ASSUME NEW T, NEW top, NEW cells, Matches(T, top, cells),
         NEW a \in Cells, NEW q, q = top * W + a, NEW c \in Char
  PROVE  /\ Matches(PutCell(T, a, c), top, Put(cells, q, c))
         /\ PutCell(T, a, c).x = T.x /\ PutCell(T, a, c).y = T.y
<1>0. /\ T \in TTY /\ ~T.outside /\ top \in Nat
      /\ cells \in [0 .. (top + H) * W - 1 -> Char]
      /\ \A b \in Cells : T.scr[b] = cells[top * W + b]
  BY DEF Matches
<1> PICK U : U = PutCell(T, a, c)
  OBVIOUS
<1> PICK new : new = Put(cells, q, c)
  OBVIOUS
<1>1. U = [T EXCEPT !.scr[a] = c]
  BY DEF PutCell
<1>2. U \in TTY /\ U.x = T.x /\ U.y = T.y
  <2>1. a \in Int
    BY DEF Cells
  <2> QED BY <1>0, <2>1, PutCellType
<1>3. ~U.outside /\ \A b \in Cells : U.scr[b] = IF b = a THEN c ELSE T.scr[b]
  <2>1. U.outside = T.outside
    BY <1>0, <1>1 DEF TTY
  <2>2. U.scr = [T.scr EXCEPT ![a] = c] /\ T.scr \in [Cells -> Char]
    BY <1>0, <1>1 DEF TTY
  <2> QED BY <1>0, <2>1, <2>2
<1>4. top * W \in Nat /\ q \in 0 .. (top + H) * W - 1
  BY <1>0, Window
<1>5. PICK m \in Nat : m = (top + H) * W
  BY <1>0, Window
<1>6. /\ new \in [0 .. m - 1 -> Char]
      /\ \A r \in 0 .. m - 1 : new[r] = IF r = q THEN c ELSE cells[r]
  BY <1>0, <1>4, <1>5 DEF Put
<1>7. ASSUME NEW b \in Cells PROVE U.scr[b] = new[top * W + b]
  <2>1. top * W + b \in 0 .. m - 1
    BY <1>0, <1>5, Window
  <2>2. top * W + b = q <=> b = a
    BY <1>4 DEF Cells
  <2> QED BY <1>0, <1>3, <1>6, <2>1, <2>2
<1>8. Matches(U, top, new)
  BY <1>0, <1>2, <1>3, <1>5, <1>6, <1>7 DEF Matches
<1> QED BY <1>2, <1>8

\* A character that is neither printed nor a backspace only moves the cursor.
LEMMA DrawControl ==
  ASSUME NEW T, NEW s, Depicts(T, s), NEW c \in {NL, CR} \cup Ignored
  PROVE  /\ Statement("cell", c, T) = T
         /\ Depicts(FourStatements(T, c), Write(s, c))
<1>1. PICK p, top, cells : s = [p |-> p, top |-> top, cells |-> cells] /\ Shows(T, p, top, cells)
  BY DEF Depicts
<1>2. W \in Nat \ {0} /\ H \in Nat \ {0}
  BY TerminalAssumption
<1>3. /\ T \in TTY /\ top \in Nat /\ T.x \in 0 .. W - 1 /\ T.y \in 0 .. H - 1
      /\ top + T.y \in Nat /\ ~T.outside
  BY <1>1, <1>2 DEF Depicts, Shows, InWindow
<1>4. p \div W = top + T.y
  BY <1>1, <1>3, PlaceOf DEF Shows
<1>5. Statement("cell", c, T) = T /\ ~Printable(c)
  BY CellScroll, Kinds
<1>6. PICK A : A = Statement("column", c, T)
  OBVIOUS
<1>7. PICK U : U = Statement("row", c, A)
  OBVIOUS
<1>8. FourStatements(T, c) = BackOnScreen(U)
  BY <1>5, <1>6, <1>7, CellScroll DEF FourStatements
<1>9. /\ A \in TTY /\ A.scr = T.scr /\ ~A.outside /\ A.y = T.y
      /\ A.x = IF c \in {NL, CR} THEN 0 ELSE T.x
  BY <1>3, <1>5, <1>6, ColumnRow
<1>10. /\ U \in TTY /\ U.scr = A.scr /\ ~U.outside /\ U.x = A.x
       /\ U.y = IF c = NL THEN A.y + 1 ELSE A.y
  BY <1>5, <1>7, <1>9, ColumnRow
<1>11. U.x \in 0 .. W - 1 /\ U.y \in 0 .. H
  BY <1>2, <1>3, <1>9, <1>10
<1>12. CASE c = NL
  <2>1. PICK q \in Nat : q = (p \div W + 1) * W
    <3>1. top + T.y + 1 \in Nat
      BY <1>3
    <3> QED BY <1>2, <1>4, <3>1
  <2>2. Write(s, c) = Follow(q, top, cells)
    BY <1>1, <1>12, <2>1, Writes
  <2>3. Shows(U, q, top, cells)
    <3>1. top + U.y = p \div W + 1 /\ U.x = 0
      BY <1>3, <1>4, <1>9, <1>10, <1>12
    <3>2. q = U.x + (top + U.y) * W
      BY <1>2, <2>1, <3>1
    <3> QED BY <1>1, <1>9, <1>10, <2>1, <3>2 DEF Shows
  <2> QED BY <1>5, <1>8, <1>11, <2>2, <2>3, FollowDepicts
<1>13. CASE c # NL
  <2>1. BackOnScreen(U) = U /\ InWindow(U)
    BY <1>2, <1>3, <1>9, <1>10, <1>11, <1>13 DEF BackOnScreen, InWindow
  <2>2. CASE c = CR
    <3>1. PICK q \in Nat : q = (p \div W) * W
      BY <1>2, <1>3, <1>4
    <3>2. Write(s, c) = [p |-> q, top |-> top, cells |-> cells]
      BY <1>1, <2>2, <3>1, Writes
    <3>3. q = U.x + (top + U.y) * W
      BY <1>2, <1>3, <1>4, <1>9, <1>10, <1>13, <2>2, <3>1
    <3>4. Shows(U, q, top, cells)
      BY <1>1, <1>9, <1>10, <3>1, <3>3 DEF Shows
    <3> QED BY <1>5, <1>8, <2>1, <3>2, <3>4 DEF Depicts
  <2>3. CASE c \in Ignored
    <3>1. Write(s, c) = s
      BY <1>1, <2>3, Writes
    <3>2. U.x = T.x /\ U.y = T.y /\ U.scr = T.scr
      BY <1>9, <1>10, <1>13, <2>3, Kinds
    <3>3. Shows(U, p, top, cells)
      BY <1>1, <1>10, <3>2 DEF Shows
    <3> QED BY <1>1, <1>5, <1>8, <2>1, <3>1, <3>3 DEF Depicts
  <2> QED BY <1>13, <2>2, <2>3
<1> QED BY <1>12, <1>13

\* A printed character goes to the place of the cursor, and the cursor moves on.
LEMMA DrawPrinted ==
  ASSUME NEW T, NEW s, Depicts(T, s), NEW c \in Char, Printable(c)
  PROVE  /\ ~Statement("cell", c, T).outside
         /\ Depicts(FourStatements(T, c), Write(s, c))
<1>1. PICK p, top, cells : s = [p |-> p, top |-> top, cells |-> cells] /\ Shows(T, p, top, cells)
  BY DEF Depicts
<1>2. W \in Nat \ {0} /\ H \in Nat \ {0}
  BY TerminalAssumption
<1>3. /\ W \in Nat \ {0} /\ H \in Nat \ {0}
      /\ T \in TTY /\ ~T.outside /\ T.x \in 0 .. W - 1 /\ T.y \in 0 .. H - 1
      /\ top \in Nat /\ top + T.y \in Nat /\ p \in Nat
      /\ cells \in [0 .. (top + H) * W - 1 -> Char]
      /\ \A a \in Cells : T.scr[a] = cells[top * W + a]
      /\ Cursor(T) \in Cells /\ p = top * W + Cursor(T)
      /\ p \div W = top + T.y
  BY <1>1, Opened DEF Depicts
<1>4. PICK a \in Cells : a = Cursor(T)
  BY <1>3
<1>5. p = top * W + a
  BY <1>3, <1>4
<1>6. c \notin {NL, CR}
  BY Kinds
<1>7. PICK A : A = Statement("cell", c, T)
  OBVIOUS
<1>8. PICK new : new = Put(cells, p, c)
  OBVIOUS
<1>9. /\ A \in TTY /\ ~A.outside /\ A.x = T.x /\ A.y = T.y
      /\ new \in [0 .. (top + H) * W - 1 -> Char]
      /\ \A b \in Cells : A.scr[b] = new[top * W + b]
  <2>1. A = PutCell(T, a, c)
    BY <1>4, <1>7, CellScroll
  <2>2. Matches(T, top, cells)
    BY <1>3 DEF Matches
  <2>3. Matches(A, top, new) /\ A.x = T.x /\ A.y = T.y
    BY <1>5, <1>8, <2>1, <2>2, Stored
  <2> QED BY <2>3 DEF Matches
<1>10. PICK B : B = Statement("column", c, A)
  OBVIOUS
<1>11. PICK U : U = Statement("row", c, B)
  OBVIOUS
<1>12. FourStatements(T, c) = BackOnScreen(U)
  BY <1>7, <1>10, <1>11, CellScroll DEF FourStatements
<1>13. B \in TTY /\ B.scr = A.scr /\ ~B.outside /\ B.y = T.y /\ B.x = T.x + 1
  BY <1>6, <1>9, <1>10, ColumnRow
<1>14. /\ U \in TTY /\ U.scr = A.scr /\ ~U.outside
       /\ U.y = IF T.x + 1 = W THEN T.y + 1 ELSE T.y
       /\ U.x = IF T.x + 1 = W THEN 0 ELSE T.x + 1
  BY <1>6, <1>11, <1>13, ColumnRow
<1>15. U.x \in 0 .. W - 1 /\ U.y \in 0 .. H
  <2>1. PICK x \in 0 .. W - 1 : x = T.x
    BY <1>3
  <2>2. PICK y \in 0 .. H - 1 : y = T.y
    BY <1>3
  <2>3. U.y = (IF x + 1 = W THEN y + 1 ELSE y) /\ U.x = (IF x + 1 = W THEN 0 ELSE x + 1)
    BY <1>14, <2>1, <2>2
  <2> QED BY <1>2, <2>3
<1>16. PICK r \in Nat : r = p + 1
  BY <1>3
<1>17. r = U.x + (top + U.y) * W
  <2>1. PICK k \in Nat : k = top + T.y
    BY <1>3
  <2>2. PICK x \in 0 .. W - 1 : x = T.x
    BY <1>3
  <2>3. r = x + 1 + k * W
    <3>1. p = T.x + (top + T.y) * W
      BY <1>1 DEF Shows
    <3>2. k * W \in Int
      BY <1>2
    <3> QED BY <1>16, <2>1, <2>2, <3>1, <3>2
  <2>4. CASE x + 1 = W
    <3>1. U.x = 0 /\ top + U.y = k + 1
      BY SMTT(30), <1>3, <1>14, <2>1, <2>2, <2>4
    <3>2. (k + 1) * W = k * W + W /\ k * W \in Int
      BY <1>2
    <3> QED BY <1>2, <2>3, <2>4, <3>1, <3>2
  <2>5. CASE x + 1 # W
    <3>1. U.x = x + 1 /\ top + U.y = k
      BY <1>14, <2>1, <2>2, <2>5
    <3> QED BY <2>3, <3>1
  <2> QED BY <2>4, <2>5
<1>18. Shows(U, r, top, new)
  BY <1>3, <1>9, <1>14, <1>17 DEF Shows
<1>19. Write(s, c) = Follow(r, top, new)
  BY <1>1, <1>8, <1>16, Writes
<1> QED BY <1>7, <1>9, <1>12, <1>15, <1>18, <1>19, FollowDepicts

\* A backspace clears the place before the cursor, or the first of the window.
LEMMA DrawBackspace ==
  ASSUME NEW T, NEW s, Depicts(T, s)
  PROVE  /\ ~Statement("cell", BS, T).outside
         /\ Depicts(FourStatements(T, BS), Write(s, BS))
<1>1. PICK p, top, cells : s = [p |-> p, top |-> top, cells |-> cells] /\ Shows(T, p, top, cells)
  BY DEF Depicts
<1>2. W \in Nat \ {0} /\ H \in Nat \ {0} /\ Blank \in Char
  BY TerminalAssumption
<1>3. /\ W \in Nat \ {0} /\ H \in Nat \ {0}
      /\ T \in TTY /\ ~T.outside /\ T.x \in 0 .. W - 1 /\ T.y \in 0 .. H - 1
      /\ top \in Nat /\ top + T.y \in Nat /\ p \in Nat
      /\ cells \in [0 .. (top + H) * W - 1 -> Char]
      /\ \A a \in Cells : T.scr[a] = cells[top * W + a]
      /\ Cursor(T) \in Cells /\ p = top * W + Cursor(T)
      /\ p \div W = top + T.y
  BY <1>1, Opened DEF Depicts
<1>4. PICK a \in Cells : a = Cursor(T)
  BY <1>3
<1>5. p = top * W + a /\ top * W \in Nat
  BY <1>3, <1>4, Window
<1>6. BS \notin {NL, CR} /\ ~Printable(BS)
  BY Kinds
<1>7. PICK t : t = IF a > 0 THEN a - 1 ELSE a
  OBVIOUS
<1>8. t \in Cells /\ t \in Nat
  <2>1. PICK m \in Int : m = W * H
    BY <1>2
  <2>2. a \in 0 .. m - 1 /\ a \in Int
    BY <2>1 DEF Cells
  <2>3. t \in 0 .. m - 1
    BY <1>7, <2>2
  <2> QED BY <2>1, <2>3 DEF Cells
<1>9. t % W \in 0 .. W - 1 /\ t \div W \in Nat /\ t = (t % W) + (t \div W) * W
  BY <1>8, RowOf
<1>10. PICK x \in 0 .. W - 1 : x = t % W
  BY <1>9
<1>11. PICK y \in Nat : y = t \div W
  BY <1>9
<1>12. t = x + y * W
  BY <1>9, <1>10, <1>11
<1>13. y <= H - 1
  <2>1. SUFFICES ASSUME y >= H PROVE FALSE
    BY <1>2
  <2>2. y * W >= H * W
    BY <1>2, <2>1
  <2> QED BY <1>2, <1>8, <1>12, <2>2 DEF Cells
<1>14. PICK V : V = [[T EXCEPT !.x = t % W] EXCEPT !.y = t \div W]
  OBVIOUS
<1>15. V \in TTY /\ V.x = x /\ V.y = y /\ V.scr = T.scr /\ ~V.outside
  <2>1. PICK A : A = [T EXCEPT !.x = x]
    OBVIOUS
  <2>2. x \in Int /\ y \in Int
    BY <1>2
  <2>3. A \in TTY /\ A.x = x /\ A.scr = T.scr /\ ~A.outside
    BY ZenonT(30), <1>3, <2>1, <2>2 DEF TTY
  <2>4. V = [A EXCEPT !.y = y]
    BY <1>10, <1>11, <1>14, <2>1
  <2> QED BY <2>2, <2>3, <2>4 DEF TTY
<1>16. PICK U : U = Statement("cell", BS, T)
  OBVIOUS
<1>17. U = PutCell(V, t, Blank)
  <2>1. U = Back(T)
    BY <1>16, CellScroll
  <2> QED BY <1>4, <1>7, <1>14, <2>1 DEF Back
<1>18. PICK q : q = top * W + t
  OBVIOUS
<1>19. q = (IF p > top * W THEN p - 1 ELSE p) /\ q \in Nat
  BY <1>5, <1>7, <1>8, <1>18 DEF Cells
<1>20. PICK new : new = Put(cells, q, Blank)
  OBVIOUS
<1>21. /\ U \in TTY /\ ~U.outside /\ U.x = x /\ U.y = y
       /\ new \in [0 .. (top + H) * W - 1 -> Char]
       /\ \A b \in Cells : U.scr[b] = new[top * W + b]
  <2>1. Matches(V, top, cells)
    BY <1>3, <1>15 DEF Matches
  <2>2. Matches(U, top, new) /\ U.x = V.x /\ U.y = V.y
    BY <1>2, <1>8, <1>17, <1>18, <1>20, <2>1, Stored
  <2> QED BY <1>15, <2>2 DEF Matches
<1>22. PICK A : A = Statement("column", BS, U)
  OBVIOUS
<1>23. PICK B : B = Statement("row", BS, A)
  OBVIOUS
<1>24. A \in TTY /\ A.scr = U.scr /\ ~A.outside /\ A.x = x /\ A.y = y
  BY <1>6, <1>21, <1>22, ColumnRow
<1>25. B \in TTY /\ B.scr = U.scr /\ ~B.outside /\ B.x = x /\ B.y = y
  BY <1>6, <1>23, <1>24, Kinds, ColumnRow
<1>26. FourStatements(T, BS) = B
  <2>1. BackOnScreen(B) = B
    BY <1>2, <1>13, <1>25 DEF BackOnScreen
  <2> QED BY <1>16, <1>22, <1>23, <2>1, CellScroll DEF FourStatements
<1>27. q = B.x + (top + B.y) * W
  <2>1. (top + y) * W = top * W + y * W /\ top * W \in Int /\ y * W \in Int
    BY <1>2, <1>3
  <2> QED BY <1>12, <1>18, <1>25, <2>1
<1>28. Shows(B, q, top, new) /\ InWindow(B)
  BY SMTT(30), <1>3, <1>2, <1>13, <1>19, <1>21, <1>25, <1>27 DEF Shows, InWindow
<1>29. Write(s, BS) = [p |-> q, top |-> top, cells |-> new]
  BY <1>1, <1>19, <1>20, Writes
<1> QED BY <1>16, <1>21, <1>26, <1>28, <1>29 DEF Depicts

\* The statements of a call, one by one.
LEMMA CallSteps ==
  ASSUME NEW T, NEW c \in Char, NEW g, Run!Chain(g, T, Body(c), 9)
  PROVE  /\ g[0] = T
         /\ \A i \in 1 .. 9 : g[i] = Statement(Statements[i], c, g[i - 1])
<1>1. g[0] = T /\ \A i \in 1 .. 9 : g[i] = Execute(g[i - 1], Body(c)[i])
  BY DEF Run!Chain
<1>2. ASSUME NEW i \in 1 .. 9 PROVE g[i] = Statement(Statements[i], c, g[i - 1])
  <2>1. Body(c)[i] = [label |-> Statements[i], c |-> c]
    BY BodyType
  <2>2. g[i] = Execute(g[i - 1], Body(c)[i])
    BY <1>1
  <2> QED BY <2>1, <2>2 DEF Execute
<1> QED BY <1>1, <1>2

\* A whole call draws its character; no store of it leaves the screen.
LEMMA CallDraws ==
  ASSUME NEW T, NEW s, Depicts(T, s), NEW c \in Char, NEW g, Run!Chain(g, T, Body(c), 9)
  PROVE  /\ \A i \in 0 .. 9 : g[i] \in TTY /\ ~g[i].outside
         /\ Depicts(g[9], Write(s, c))
<1>1. T \in TTY /\ ~T.outside /\ g[0] = T
  BY CallSteps DEF Depicts, Shows
<1>2. /\ g[1] = Statement("cell", c, g[0]) /\ g[2] = Statement("column", c, g[1])
      /\ g[3] = Statement("row", c, g[2]) /\ g[4] = Statement("scroll", c, g[3])
      /\ g[5] = Statement("position", c, g[4]) /\ g[6] = Statement("index_lo", c, g[5])
      /\ g[7] = Statement("data_lo", c, g[6]) /\ g[8] = Statement("index_hi", c, g[7])
      /\ g[9] = Statement("data_hi", c, g[8])
  BY CallSteps DEF Statements
<1>3. c \in {NL, CR} \cup Ignored \/ c = BS \/ Printable(c)
  BY Kinds
<1>4. /\ ~g[1].outside
      /\ Depicts(FourStatements(T, c), Write(s, c))
  <2>1. CASE c \in {NL, CR} \cup Ignored
    BY <1>1, <1>2, <2>1, DrawControl
  <2>2. CASE c = BS
    BY <1>1, <1>2, <2>2, DrawBackspace
  <2>3. CASE Printable(c)
    BY <1>1, <1>2, <2>3, DrawPrinted
  <2> QED BY <1>3, <2>1, <2>2, <2>3
<1>5. g[4] = FourStatements(T, c)
  BY <1>1, <1>2 DEF FourStatements
<1>6. g[1] \in TTY /\ ~g[1].outside
  <2>1. "cell" \in {Statements[i] : i \in DOMAIN Statements}
    BY DEF Statements
  <2> QED BY <1>1, <1>2, <1>4, <2>1, StatementType
<1>7. g[2] \in TTY /\ ~g[2].outside
  BY <1>2, <1>6, ColumnRow
<1>8. g[3] \in TTY /\ ~g[3].outside
  BY <1>2, <1>7, ColumnRow
<1>9. g[4] \in TTY /\ ~g[4].outside
  BY <1>4, <1>5 DEF Depicts, Shows
<1>10. SameScreen(g[4], g[5]) /\ g[5] \in TTY /\ ~g[5].outside
  BY <1>2, <1>9, CellScroll, CursorStatements DEF SameScreen
<1>11. SameScreen(g[4], g[6]) /\ g[6] \in TTY /\ ~g[6].outside
  BY <1>2, <1>10, CellScroll, CursorStatements DEF SameScreen
<1>12. SameScreen(g[4], g[7]) /\ g[7] \in TTY /\ ~g[7].outside
  BY <1>2, <1>11, CellScroll, CursorStatements DEF SameScreen
<1>13. SameScreen(g[4], g[8]) /\ g[8] \in TTY /\ ~g[8].outside
  BY <1>2, <1>12, CellScroll, CursorStatements DEF SameScreen
<1>14. SameScreen(g[4], g[9]) /\ g[9] \in TTY /\ ~g[9].outside
  BY <1>2, <1>13, CellScroll, CursorStatements DEF SameScreen
<1>15. Depicts(g[9], Write(s, c))
  <2>1. PICK p, top, cells : /\ Write(s, c) = [p |-> p, top |-> top, cells |-> cells]
                             /\ Shows(g[4], p, top, cells)
    BY <1>4, <1>5 DEF Depicts
  <2>2. Shows(g[9], p, top, cells)
    BY <1>14, <2>1 DEF Shows, SameScreen
  <2>3. InWindow(g[9])
    BY <1>4, <1>5, <1>14 DEF SameScreen, Depicts, InWindow
  <2> QED BY <2>1, <2>2, <2>3 DEF Depicts
<1>16. ASSUME NEW i \in 0 .. 9 PROVE g[i] \in TTY /\ ~g[i].outside
  <2>1. \/ i = 0 \/ i = 1 \/ i = 2 \/ i = 3 \/ i = 4
        \/ i = 5 \/ i = 6 \/ i = 7 \/ i = 8 \/ i = 9
    OBVIOUS
  <2> QED BY <1>1, <1>6, <1>7, <1>8, <1>9, <1>10, <1>11, <1>12, <1>13, <1>14, <2>1
<1> QED BY <1>15, <1>16

\* A call that nothing interrupts, and a text.
LEMMA PutcDraws ==
  ASSUME NEW T, NEW s, Depicts(T, s), NEW c \in Char
  PROVE  Depicts(tty_putc(T, c), Write(s, c))
<1>1. PICK g : Run!Chain(g, T, Body(c), 9) /\ Run!Folded(T, Body(c)) = g[9]
  <2>1. PICK b : b = Body(c)
    OBVIOUS
  <2>2. PICK n \in Nat : n = 9
    OBVIOUS
  <2>3. DOMAIN b = 1 .. n
    BY <2>1, <2>2, BodyType
  <2>4. \E h : Run!Chain(h, T, b, n) /\ Run!Folded(T, b) = h[n]
    BY <2>3, Run!FoldChain
  <2> QED BY <2>1, <2>2, <2>4
<1>2. Depicts(g[9], Write(s, c)) /\ g[9] \in TTY
  BY <1>1, CallDraws
<1>3. tty_putc(T, c) = [g[9] EXCEPT !.pos = T.pos]
  <2>1. FoldLeft(Execute, T, Body(c)) = Run!Folded(T, Body(c))
    BY DEF Run!Folded, FoldLeft, Run!FoldLeft, MapThenFoldSet, Run!MapThenFoldSet, Max, Run!Max
  <2> QED BY <1>1, <2>1 DEF tty_putc
<1>4. T.pos \in Int
  BY DEF Depicts, Shows, TTY
<1>5. PICK U : U = tty_putc(T, c)
  OBVIOUS
<1>6. /\ U \in TTY /\ U.x = g[9].x /\ U.y = g[9].y /\ U.scr = g[9].scr
      /\ U.outside = g[9].outside
  BY <1>2, <1>3, <1>4, <1>5 DEF TTY
<1>7. PICK p, top, cells : /\ Write(s, c) = [p |-> p, top |-> top, cells |-> cells]
                           /\ Shows(g[9], p, top, cells)
  BY <1>2 DEF Depicts
<1>8. Shows(U, p, top, cells) /\ InWindow(U)
  BY <1>2, <1>6, <1>7 DEF Depicts, Shows, InWindow
<1> QED BY <1>5, <1>7, <1>8 DEF Depicts

\* An interrupt's calls leave a terminal, whatever state they found.
LEMMA WriteType ==
  ASSUME NEW T \in TTY, NEW text \in Seq(Char)
  PROVE  tty_write(T, text) \in TTY
<1>1. ASSUME NEW V \in TTY, NEW e \in Commands PROVE Execute(V, e) \in TTY
  <2>1. e.label \in {Statements[i] : i \in DOMAIN Statements} /\ e.c \in Char
    BY DEF Commands
  <2> QED BY <2>1, StatementType DEF Execute
<1>2. ASSUME NEW V \in TTY, NEW c \in Char PROVE tty_putc(V, c) \in TTY
  <2>1. Run!Folded(V, Body(c)) \in TTY
    BY <1>1, BodyType, Run!FoldType
  <2>2. FoldLeft(Execute, V, Body(c)) = Run!Folded(V, Body(c))
    BY DEF Run!Folded, FoldLeft, Run!FoldLeft, MapThenFoldSet, Run!MapThenFoldSet, Max, Run!Max
  <2>3. PICK U \in TTY : U = FoldLeft(Execute, V, Body(c))
    BY <2>1, <2>2
  <2>4. tty_putc(V, c) = [U EXCEPT !.pos = V.pos]
    BY <2>3 DEF tty_putc
  <2> QED BY <2>4 DEF TTY
<1>3. Calling!Folded(T, text) \in TTY
  BY <1>2, Calling!FoldType
<1>4. tty_write(T, text) = Calling!Folded(T, text)
  BY DEF tty_write, Calling!Folded, FoldLeft, Calling!FoldLeft,
         MapThenFoldSet, Calling!MapThenFoldSet, Max, Calling!Max
<1> QED BY <1>3, <1>4

\* A text that nothing interrupts.
LEMMA WriteDraws ==
  ASSUME NEW T, NEW s, Depicts(T, s), NEW text \in Seq(Char)
  PROVE  Depicts(tty_write(T, text), Drawing!Folded(s, text))
<1>1. PICK n \in Nat : n = Len(text)
  BY LenProperties
<1>2. DOMAIN text = 1 .. n /\ \A i \in 1 .. n : text[i] \in Char
  BY <1>1, LenProperties
<1>3. PICK g : Calling!Chain(g, T, text, n) /\ Calling!Folded(T, text) = g[n]
  BY <1>2, Calling!FoldChain
<1>4. PICK h : Drawing!Chain(h, s, text, n) /\ Drawing!Folded(s, text) = h[n]
  BY <1>2, Drawing!FoldChain
<1>5. tty_write(T, text) = Calling!Folded(T, text)
  BY DEF tty_write, Calling!Folded, FoldLeft, Calling!FoldLeft,
         MapThenFoldSet, Calling!MapThenFoldSet, Max, Calling!Max
<1> DEFINE S == {i \in Nat : i <= n => Depicts(g[i], h[i])}
<1>6. 0 \in S
  BY <1>3, <1>4 DEF Calling!Chain, Drawing!Chain
<1>7. ASSUME NEW i \in Nat, i \in S PROVE i + 1 \in S
  <2>1. CASE i + 1 <= n
    <3>1. i + 1 \in 1 .. n /\ (i + 1) - 1 = i /\ Depicts(g[i], h[i])
      BY <1>7, <2>1
    <3>2. PICK k \in 1 .. n : k = i + 1
      BY <3>1
    <3>3. g[k] = tty_putc(g[i], text[k]) /\ h[k] = Write(h[i], text[k])
      BY <1>3, <1>4, <3>1, <3>2 DEF Calling!Chain, Drawing!Chain
    <3>4. Depicts(g[k], h[k])
      BY <1>2, <3>1, <3>3, PutcDraws
    <3> QED BY <3>2, <3>4
  <2> QED BY <2>1
<1>8. Nat \subseteq S
  <2> HIDE DEF S
  <2> QED BY <1>6, <1>7, SetInduction
<1> QED BY <1>3, <1>4, <1>5, <1>8

\* The sheet of a longer text.
LEMMA WrittenIs ==
  ASSUME NEW u \in Seq(Char)
  PROVE  /\ Written(u) = Drawing!Folded(Sheet(0, 0, <<>>), u)
         /\ \A t \in Seq(Char) : Written(u \o t) = Drawing!Folded(Written(u), t)
         /\ \A c \in Char : Written(u \o <<c>>) = Write(Written(u), c)
<1>1. \A v : Written(v) = Drawing!Folded(Sheet(0, 0, <<>>), v)
  BY DEF Written, Drawing!Folded, FoldLeft, Drawing!FoldLeft,
         MapThenFoldSet, Drawing!MapThenFoldSet, Max, Drawing!Max
<1>2. ASSUME NEW t \in Seq(Char) PROVE Written(u \o t) = Drawing!Folded(Written(u), t)
  BY <1>1, Drawing!FoldConcat
<1>3. ASSUME NEW c \in Char PROVE Written(u \o <<c>>) = Write(Written(u), c)
  <2>1. PICK v : v = u \o <<c>>
    OBVIOUS
  <2>2. v = Append(u, c)
    <3>1. Append(u, c) \in Seq(Char) /\ v \in Seq(Char) /\ Len(v) = Len(Append(u, c))
      BY <2>1
    <3>2. \A i \in 1 .. Len(v) : v[i] = Append(u, c)[i]
      BY <2>1
    <3> QED BY <3>1, <3>2, SeqEqual
  <2>3. Drawing!Folded(Sheet(0, 0, <<>>), v) = Write(Drawing!Folded(Sheet(0, 0, <<>>), u), c)
    BY <2>2, Drawing!FoldAppend
  <2> QED BY <1>1, <2>1, <2>3
<1> QED BY <1>1, <1>2, <1>3

\* The cleared screen is the first window of the empty sheet.
LEMMA ClearedDepicts == Depicts(Cleared, Written(<<>>))
<1>1. W \in Nat \ {0} /\ H \in Nat \ {0} /\ Blank \in Char
  BY TerminalAssumption
<1>2. Written(<<>>) = Sheet(0, 0, <<>>)
  <2>1. <<>> \in Seq(Char)
    OBVIOUS
  <2> QED BY <2>1, WrittenIs, Drawing!FoldEmpty
<1> DEFINE cells == [q \in 0 .. (0 + H) * W - 1 |-> Blank]
<1>3. Sheet(0, 0, <<>>) = [p |-> 0, top |-> 0, cells |-> cells]
  <2>1. DOMAIN <<>> = {}
    OBVIOUS
  <2> QED BY <2>1 DEF Sheet
<1>4. Cleared \in TTY /\ Cleared.x = 0 /\ Cleared.y = 0 /\ ~Cleared.outside
      /\ \A a \in Cells : Cleared.scr[a] = Blank
  BY <1>1 DEF Cleared, TTY
<1>5. \A a \in Cells : 0 * W + a \in 0 .. (0 + H) * W - 1
  BY Window
<1>6. Shows(Cleared, 0, 0, cells)
  <2>1. \A a \in Cells : Cleared.scr[a] = cells[0 * W + a]
    BY <1>4, <1>5
  <2>2. cells \in [0 .. (0 + H) * W - 1 -> Char]
    BY <1>1
  <2>3. 0 = Cleared.x + (0 + Cleared.y) * W
    BY <1>1, <1>4
  <2> HIDE DEF cells
  <2> QED BY <1>4, <2>1, <2>2, <2>3 DEF Shows
<1>7. InWindow(Cleared)
  BY <1>1, <1>4 DEF InWindow
<1> HIDE DEF cells
<1> QED BY <1>2, <1>3, <1>6, <1>7 DEF Depicts

-----------------------------------------------------------------------------
(* The calls of tty_putc() so far *)

\* z is s, of length n, and then t, of length m.
Join(z, s, t, n, m) ==
  /\ Len(z) = n + m /\ DOMAIN z = 1 .. n + m
  /\ \A i \in 1 .. n : z[i] = s[i]
  /\ \A i \in 1 .. m : z[n + i] = t[i]

\* One sequence after another.
LEMMA Joined ==
  ASSUME NEW S, NEW s \in Seq(S), NEW t \in Seq(S)
  PROVE  s \o t \in Seq(S) /\ Join(s \o t, s, t, Len(s), Len(t))
<1>1. PICK n \in Nat : n = Len(s)
  BY LenProperties
<1>2. PICK m \in Nat : m = Len(t)
  BY LenProperties
<1>3. PICK z : z = s \o t
  OBVIOUS
<1>4. z \in Seq(S) /\ Len(z) = n + m
  BY <1>1, <1>2, <1>3, ConcatProperties
<1>5. DOMAIN z = 1 .. n + m
  BY <1>4, LenProperties
<1>6. \A i \in 1 .. n + m : z[i] = IF i <= n THEN s[i] ELSE t[i - n]
  BY <1>1, <1>2, <1>3, ConcatProperties
<1>7. ASSUME NEW i \in 1 .. m PROVE z[n + i] = t[i]
  <2>1. PICK k \in 1 .. n + m : k = n + i /\ ~(k <= n) /\ k - n = i
    OBVIOUS
  <2> QED BY <1>6, <2>1
<1> QED BY <1>1, <1>2, <1>3, <1>4, <1>5, <1>6, <1>7 DEF Join

CallSet == [who : {"core", "press"}, c : Char]
Chars(calls) == [i \in DOMAIN calls |-> calls[i].c]

\* The characters of the calls.
LEMMA CharsOf ==
  ASSUME NEW calls \in Seq(CallSet), NEW who \in {"core", "press"}, NEW text \in Seq(Char)
  PROVE  /\ Calls(who, text) \in Seq(CallSet)
         /\ calls \o Calls(who, text) \in Seq(CallSet)
         /\ Chars(calls) \in Seq(Char)
         /\ Chars(calls \o Calls(who, text)) = Chars(calls) \o text
<1>1. PICK n \in Nat : n = Len(calls)
  BY LenProperties
<1>2. PICK m \in Nat : m = Len(text)
  BY LenProperties
<1>3. DOMAIN text = 1 .. m /\ \A i \in 1 .. m : text[i] \in Char
  BY <1>2, LenProperties
<1>4. DOMAIN calls = 1 .. n /\ \A i \in 1 .. n : calls[i] \in CallSet
  BY <1>1, LenProperties
<1>5. PICK t : t = Calls(who, text)
  OBVIOUS
<1>6. t \in [1 .. m -> CallSet] /\ \A i \in 1 .. m : t[i].c = text[i]
  BY <1>3, <1>5 DEF Calls, CallSet
<1>7. t \in Seq(CallSet) /\ Len(t) = m
  BY <1>6, SeqDef
<1>8. PICK a : a = Chars(calls)
  OBVIOUS
<1>9. a \in [1 .. n -> Char] /\ \A i \in 1 .. n : a[i] = calls[i].c
  BY <1>4, <1>8 DEF Chars, CallSet
<1>10. a \in Seq(Char) /\ Len(a) = n
  BY <1>9, SeqDef
<1>11. PICK z : z = calls \o t
  OBVIOUS
<1>12. /\ z \in Seq(CallSet) /\ Len(z) = n + m /\ DOMAIN z = 1 .. n + m
       /\ \A i \in 1 .. n : z[i] = calls[i]
       /\ \A i \in 1 .. m : z[n + i] = t[i]
  <2>1. z \in Seq(CallSet) /\ Join(z, calls, t, n, m)
    BY <1>1, <1>7, <1>11, Joined
  <2> QED BY <2>1 DEF Join
<1>13. PICK b : b = Chars(z)
  OBVIOUS
<1>14. b \in [1 .. n + m -> Char] /\ \A i \in 1 .. n + m : b[i] = z[i].c
  <2>1. \A i \in 1 .. n + m : z[i] \in CallSet
    BY <1>12, LenProperties
  <2> QED BY <1>12, <1>13, <2>1 DEF Chars, CallSet
<1>15. b \in Seq(Char) /\ Len(b) = n + m
  <2>1. n + m \in Nat
    OBVIOUS
  <2> QED BY <1>14, <2>1, SeqDef
<1>16. PICK d : d = a \o text
  OBVIOUS
<1>17. /\ d \in Seq(Char) /\ Len(d) = n + m
       /\ \A i \in 1 .. n : d[i] = a[i]
       /\ \A i \in 1 .. m : d[n + i] = text[i]
  <2>1. d \in Seq(Char) /\ Join(d, a, text, n, m)
    BY <1>2, <1>10, <1>16, Joined
  <2> QED BY <2>1 DEF Join
<1>18. ASSUME NEW i \in 1 .. n + m PROVE b[i] = d[i]
  <2>1. CASE i <= n
    BY <1>9, <1>12, <1>14, <1>17, <2>1
  <2>2. CASE i > n
    <3>1. PICK j \in 1 .. m : i = n + j
      <4>1. i - n \in 1 .. m /\ i = n + (i - n)
        BY <2>2
      <4> QED BY <4>1
    <3>2. b[i] = z[n + j].c /\ d[i] = text[j]
      BY <1>14, <1>17, <3>1
    <3> QED BY <1>6, <1>12, <3>2
  <2> QED BY <2>1, <2>2
<1>19. b = d
  BY <1>15, <1>17, <1>18, SeqEqual
<1> QED BY <1>5, <1>7, <1>8, <1>10, <1>11, <1>12, <1>13, <1>16, <1>19

-----------------------------------------------------------------------------
(* The types *)

Places  == {"start", "manager", "init_devices", "detect", "floppy0", "floppy1",
            "foreach", "map_temp", "loop"}
Devices == [major : {DEV_FLOPPY_MAJOR}, minor : {0, 1}, name : Seq(Char),
            type : 1 .. 4, typestr : Seq(Char)]

\* The types, and that the devices are walked only when all are registered.
Typed ==
  /\ tty \in TTY /\ todo \in Seq(Char) /\ at \in 0 .. 9 /\ (at > 0 => todo # <<>>)
  /\ core \in Places /\ cmos \in CmosBytes
  /\ k_devs \in Seq(Devices) /\ this \in 1 .. Len(k_devs) + 1
  /\ core \notin {"foreach", "map_temp", "loop"} => this = 1
  /\ stream \in Seq(CallSet)

\* The characters of a device line and of a drive's name.
LEMMA FloppyChars ==
  /\ {"f", "D", ":", NL, "0", "1", "2", "3", "4"} \subseteq Char
  /\ \A i \in 1 .. 10 : Digits[i] \in Char
<1>1. \A i \in 1 .. 10 : LowDigits[i] \in Char
  <2>1. Table(Char, LowDigits, 10)
    BY Tables
  <2> QED BY <2>1 DEF Table
<1>2. ASSUME NEW i \in 1 .. 10 PROVE Digits[i] \in Char
  <2>1. PICK v \in 0 .. 9 : i = v + 1
    <3>1. i - 1 \in 0 .. 9 /\ i = (i - 1) + 1
      OBVIOUS
    <3> QED BY <3>1
  <2>2. NumDigits(v, 10, LowDigits) = <<Digits[v + 1]>> /\ v \in 0 .. LongMod - 1
    BY DigitText
  <2>3. NumDigits(v, 10, LowDigits) \in Seq(Char)
    <3>1. Table(Char, LowDigits, 10)
      BY Tables
    <3> QED BY <2>2, <3>1, NumDigitsType
  <2>4. <<Digits[v + 1]>> \in Seq(Char)
    BY <2>2, <2>3
  <2>5. Digits[v + 1] \in Char
    BY <2>4
  <2> QED BY <2>1, <2>5
<1>3. Digits[1] = "0" /\ Digits[2] = "1" /\ Digits[3] = "2" /\ Digits[4] = "3" /\ Digits[5] = "4"
  BY DEF Digits
<1>4. {"f", "D", ":"} \subseteq Char /\ NL \in Char
  BY ConsoleAssumption, TerminalAssumption
<1> QED BY <1>2, <1>3, <1>4

\* Texts one after the other are a text.
LEMMA Parts6 ==
  ASSUME NEW a \in Seq(Char), NEW b \in Seq(Char), NEW c \in Seq(Char), NEW d \in Seq(Char),
         NEW e \in Seq(Char), NEW f \in Seq(Char)
  PROVE  /\ a \o b \in Seq(Char)
         /\ <<>> \o a \o b \in Seq(Char)
         /\ <<>> \o a \o b \o c \o d \o e \o f \in Seq(Char)
<1>1. <<>> \in Seq(Char)
  OBVIOUS
<1>2. \A s, t \in Seq(Char) : s \o t \in Seq(Char)
  BY ConcatProperties
<1> QED BY <1>1, <1>2

\* What the core process prints of a device is characters.
LEMMA FloppyLineType ==
  ASSUME NEW d \in Devices
  PROVE  FloppyLine(d) \in Seq(Char)
<1>1. d.name \in Seq(Char) /\ d.type \in 1 .. 4 /\ d.typestr \in Seq(Char)
  BY DEF Devices
<1>2. FloppyLine(d) = <<>> \o <<"D">> \o <<":">> \o d.name \o <<Digits[d.type + 1]>>
                           \o d.typestr \o <<NL>>
  BY <1>1, FloppyText DEF FloppyLine
<1>3. <<"D">> \in Seq(Char) /\ <<":">> \in Seq(Char) /\ <<NL>> \in Seq(Char)
  BY FloppyChars
<1>4. PICK t \in Seq(Char) : t = <<Digits[d.type + 1]>>
  <2>1. d.type + 1 \in 1 .. 10
    BY <1>1
  <2>2. PICK c \in Char : c = Digits[d.type + 1]
    BY <2>1, FloppyChars
  <2>3. <<c>> \in Seq(Char)
    OBVIOUS
  <2> QED BY <2>2, <2>3
<1>5. PICK x \in Seq(Char) : x = <<":">>
  BY <1>3
<1>6. PICK y \in Seq(Char) : y = <<"D">>
  BY <1>3
<1>7. PICK z \in Seq(Char) : z = <<NL>>
  BY <1>3
<1>8. PICK n \in Seq(Char) : n = d.name
  BY <1>1
<1>9. PICK s \in Seq(Char) : s = d.typestr
  BY <1>1
<1>10. <<>> \o y \o x \o n \o t \o s \o z \in Seq(Char)
  BY Parts6
<1> QED BY <1>2, <1>4, <1>5, <1>6, <1>7, <1>8, <1>9, <1>10

\* So are the two limits of map_temp().
LEMMA LimitsType ==
  /\ kprintf(TempFmt, <<BrkMax>>) \in Seq(Char)
  /\ kprintf(TempFmt, <<(BrkMax - PageSize) % LongMod>>) \in Seq(Char)
<1>1. ASSUME NEW v \in 0 .. LongMod - 1 PROVE kprintf(TempFmt, <<v>>) \in Seq(Char)
  <2>1. PICK d \in Seq(Char) : d = NumDigits(v, 16, LowDigits)
    <3>1. Table(Char, LowDigits, 16)
      BY Tables
    <3> QED BY <3>1, NumDigitsType
  <2>2. kprintf(TempFmt, <<v>>) = <<>> \o d \o <<NL>>
    BY <2>1, TempText
  <2>3. PICK z \in Seq(Char) : z = <<NL>>
    <3>1. <<NL>> \in Seq(Char)
      BY FloppyChars
    <3> QED BY <3>1
  <2>4. <<>> \o d \o z \in Seq(Char)
    BY Parts6
  <2> QED BY <2>2, <2>3, <2>4
<1>2. BrkMax \in 0 .. LongMod - 1 /\ (BrkMax - PageSize) % LongMod \in 0 .. LongMod - 1
  <2>1. LongMod \in Nat /\ LongMod > 10 /\ BrkMax \in 0 .. LongMod - 1 /\ PageSize \in Nat
    BY PrintfAssumption, ConsoleAssumption, FormatsAssumption
  <2>2. PICK i \in Int : i = BrkMax - PageSize
    BY <2>1
  <2>3. i % LongMod \in 0 .. LongMod - 1
    BY <2>1, Z3
  <2> QED BY <2>1, <2>2, <2>3
<1> QED BY <1>1, <1>2

\* A registered drive.
LEMMA RegisterType ==
  ASSUME NEW minor \in {0, 1}, NEW type \in 0 .. 4, type # 0
  PROVE  [major |-> DEV_FLOPPY_MAJOR, minor |-> minor, name |-> <<"f", Digits[minor + 1]>>,
          type |-> type, typestr |-> TypeNames[type]] \in Devices
<1>1. type \in 1 .. 4
  OBVIOUS
<1>2. TypeNames[type] \in Seq(Char)
  BY ConsoleAssumption
<1>3. <<"f", Digits[minor + 1]>> \in Seq(Char)
  <2>1. minor + 1 \in 1 .. 10
    OBVIOUS
  <2>2. Digits[minor + 1] \in Char /\ "f" \in Char
    BY <2>1, FloppyChars
  <2> QED BY <2>2
<1> QED BY <1>1, <1>2, <1>3 DEF Devices

\* Starting up.
LEMMA TypedInit == Init => Typed
<1>1. Cleared \in TTY
  BY ClearedDepicts DEF Depicts, Shows
<1>2. <<>> \in Seq(Char) /\ <<>> \in Seq(Devices) /\ <<>> \in Seq(CallSet) /\ Len(<<>>) = 0
  OBVIOUS
<1> QED BY <1>1, <1>2 DEF Init, Typed, Places

\* The core process goes on, and has something to say.
LEMMA TypedSays ==
  ASSUME Typed, NEW l, NEW m \in Places, NEW text \in Seq(Char), Says(l, m, text),
         m \in {"foreach", "map_temp", "loop"} \/ core \notin {"foreach", "map_temp", "loop"}
  PROVE  Typed'
<1>1. todo = <<>> /\ at = 0
  BY DEF Says, Core, Typed
<1>2. /\ core' = m /\ todo' = text
      /\ UNCHANGED <<tty, at, cmos, presses, stream, k_devs, this>>
  BY DEF Says, CoreGoes
<1> QED BY <1>1, <1>2 DEF Typed

\* Every step keeps the types.
LEMMA TypedStep == ASSUME Typed, [Next]_vars PROVE Typed'
<1>1. Note \in Seq(Char)
  BY ConsoleAssumption
<1>2. CASE Starting
  BY <1>1, <1>2, TypedSays DEF Starting, Says, Core, Places
<1>3. CASE Manager
  BY <1>1, <1>3, TypedSays DEF Manager, Says, Core, Places
<1>4. CASE Detecting
  BY <1>1, <1>4, TypedSays DEF Detecting, Says, Core, Places
<1>5. CASE InitDevices
  <2>1. /\ core = "init_devices" /\ core' = "detect" /\ k_devs' = <<>>
        /\ UNCHANGED <<tty, at, cmos, presses, stream, todo, this>>
    BY <1>5 DEF InitDevices, Core, CoreGoes
  <2>2. k_devs' \in Seq(Devices) /\ Len(k_devs') = 0
    BY <2>1
  <2> QED BY <2>1, <2>2 DEF Typed, Places
<1>6. ASSUME NEW minor \in {0, 1}, NEW type \in 0 .. 4, NEW l, NEW m \in {"floppy1", "foreach"},
             Detect(minor, type, l, m), l \notin {"foreach", "map_temp", "loop"}
      PROVE  Typed'
  <2>1. /\ core = l /\ core' = m
        /\ UNCHANGED <<tty, at, cmos, presses, stream, todo, this>>
    BY <1>6 DEF Detect, Core, CoreGoes
  <2>2. this' = 1
    BY <1>6, <2>1 DEF Typed
  <2>3. k_devs' \in Seq(Devices)
    <3>1. CASE type = 0
      BY <1>6, <3>1 DEF Detect, Typed
    <3>2. CASE type # 0
      <4>1. PICK d \in Devices :
              d = [major |-> DEV_FLOPPY_MAJOR, minor |-> minor, name |-> <<"f", Digits[minor + 1]>>,
                   type |-> type, typestr |-> TypeNames[type]]
        BY <3>2, RegisterType
      <4>2. k_devs' = <<d>> \o k_devs
        BY <1>6, <3>2, <4>1 DEF Detect, register_device
      <4>3. <<d>> \in Seq(Devices) /\ k_devs \in Seq(Devices)
        BY DEF Typed
      <4> QED BY <4>2, <4>3, ConcatProperties
    <3> QED BY <3>1, <3>2
  <2>4. this' \in 1 .. Len(k_devs') + 1
    <3>1. Len(k_devs') \in Nat
      BY <2>3, LenProperties
    <3> QED BY <2>2, <3>1
  <2> QED BY <2>1, <2>2, <2>3, <2>4 DEF Typed, Places
<1>7. cmos \div 16 \in 0 .. 4 /\ cmos % 16 \in 0 .. 4
  BY ConsoleAssumption DEF Typed
<1>8. CASE Floppy0
  BY <1>6, <1>7, <1>8 DEF Floppy0
<1>9. CASE Floppy1
  BY <1>6, <1>7, <1>9 DEF Floppy1
<1>10. CASE ForEach
  <2>1. /\ core = "foreach" /\ core' = "foreach" /\ this <= Len(k_devs) /\ this' = this + 1
        /\ todo = <<>>
        /\ UNCHANGED <<tty, at, cmos, presses, stream, k_devs>>
    BY <1>10 DEF ForEach, Core, CoreGoes
  <2>2. k_devs[this] \in Devices
    BY <2>1, LenProperties DEF Typed
  <2>3. todo' = FloppyLine(k_devs[this])
    BY <1>10, <2>2 DEF ForEach, Devices
  <2>4. todo' \in Seq(Char)
    BY <2>2, <2>3, FloppyLineType
  <2>5. this' \in 1 .. Len(k_devs') + 1
    <3>1. Len(k_devs) \in Nat
      BY LenProperties DEF Typed
    <3> QED BY <2>1, <3>1 DEF Typed
  <2>6. at' = 0
    BY <2>1 DEF Typed
  <2> QED BY <2>1, <2>4, <2>5, <2>6 DEF Typed
<1>11. CASE FloppyIo
  BY <1>11, LimitsType, TypedSays DEF FloppyIo, Says, Core, Places
<1>12. CASE MapTemp
  BY <1>12, LimitsType, TypedSays DEF MapTemp, Says, Core, Places
<1>13. CASE Putc
  <2>1. /\ todo # <<>> /\ at' = 1 /\ stream' = stream \o Calls("core", <<Head(todo)>>)
        /\ UNCHANGED <<tty, todo, core, cmos, k_devs, this, presses>>
    BY <1>13 DEF Putc
  <2>2. PICK c \in Char : c = Head(todo)
    BY <2>1 DEF Typed
  <2>3. <<c>> \in Seq(Char)
    OBVIOUS
  <2>4. stream' \in Seq(CallSet)
    BY <2>1, <2>2, <2>3, CharsOf DEF Typed
  <2> QED BY <2>1, <2>4 DEF Typed
<1>14. CASE PutcStatement
  <2>1. /\ at > 0 /\ tty' = Statement(Statements[at], Head(todo), tty)
        /\ UNCHANGED <<core, cmos, k_devs, this, presses, stream>>
    BY <1>14 DEF PutcStatement
  <2>2. at \in 1 .. 9 /\ todo # <<>> /\ todo \in Seq(Char)
    BY <2>1 DEF Typed
  <2>3. PICK c \in Char : c = Head(todo)
    BY <2>2
  <2>4. tty' \in TTY
    <3>1. Statements[at] \in {Statements[i] : i \in DOMAIN Statements}
      <4>1. DOMAIN Statements = 1 .. 9
        BY DEF Statements
      <4> QED BY <2>2, <4>1
    <3> QED BY <2>1, <2>3, <3>1, StatementType DEF Typed
  <2>5. /\ todo' \in Seq(Char) /\ at' \in 0 .. 9 /\ (at' > 0 => todo' # <<>>)
    <3>1. Len(Statements) = 9
      BY DEF Statements
    <3>2. CASE at < 9
      BY <1>14, <2>2, <3>1, <3>2 DEF PutcStatement
    <3>3. CASE at = 9
      <4>1. at' = 0 /\ todo' = Tail(todo)
        BY <1>14, <3>1, <3>3 DEF PutcStatement
      <4>2. Tail(todo) \in Seq(Char)
        BY <2>2
      <4> QED BY <4>1, <4>2
    <3> QED BY <2>2, <3>2, <3>3
  <2> QED BY <2>1, <2>4, <2>5 DEF Typed
<1>15. CASE KeyPress
  <2>1. UNCHANGED <<todo, at, core, cmos, k_devs, this>>
    BY <1>15 DEF KeyPress
  <2>2. PICK text \in KeyText : tty' = tty_write(tty, text) /\ stream' = stream \o Calls("press", text)
    BY <1>15 DEF KeyPress
  <2>3. text \in Seq(Char)
    BY ConsoleAssumption
  <2>4. tty' \in TTY
    BY <2>2, <2>3, WriteType DEF Typed
  <2>5. stream' \in Seq(CallSet)
    BY <2>2, <2>3, CharsOf DEF Typed
  <2> QED BY <2>1, <2>4, <2>5 DEF Typed
<1>16. CASE UNCHANGED vars
  BY <1>16 DEF Typed, vars
<1> QED BY <1>2, <1>3, <1>4, <1>5, <1>8, <1>9, <1>10, <1>11, <1>12, <1>13, <1>14, <1>15, <1>16
        DEF Next, Loop

\* The types hold in every state (TypeOK of the runs): in particular what the
\* kernel prints is characters, so that tty_putc() is only given characters.
THEOREM ConsoleTypes == Spec => []TypeOK
<1>1. Typed => TypeOK
  <2> SUFFICES ASSUME Typed PROVE TypeOK
    OBVIOUS
  <2>1. Len(Statements) = 9
    BY DEF Statements
  <2>2. \A i \in DOMAIN k_devs : k_devs[i] \in Devices
    BY LenProperties DEF Typed
  <2> QED BY <2>1, <2>2 DEF Typed, TypeOK, TTY, Devices
<1> QED BY <1>1, TypedInit, TypedStep, PTL DEF Spec

-----------------------------------------------------------------------------
(* The screen *)

\* The terminal T0 is within a call for c, before its statement k: a terminal
\* that showed what was printed before has gone through the ones up to k.
Midway(T0, k, c, chars) ==
  \E T, u, g : /\ u \in Seq(Char) /\ chars = u \o <<c>>
               /\ Depicts(T, Written(u)) /\ Run!Chain(g, T, Body(c), 9) /\ T0 = g[k - 1]

\* Between two calls the screen shows what was printed.
Drawn ==
  IF at = 0 THEN Depicts(tty, Written(Chars(stream)))
  ELSE Midway(tty, at, Head(todo), Chars(stream))

\* The steps that leave the terminal alone.
LEMMA DrawnStays ==
  ASSUME Drawn, UNCHANGED <<tty, at, stream>>, at = 0 \/ UNCHANGED todo
  PROVE  Drawn'
BY DEF Drawn

\* A call begins.
LEMMA DrawnCall == ASSUME Typed, Drawn, Putc PROVE Drawn'
<1>1. /\ todo # <<>> /\ at = 0 /\ at' = 1 /\ stream' = stream \o Calls("core", <<Head(todo)>>)
      /\ UNCHANGED <<tty, todo>>
  BY DEF Putc
<1>2. PICK c \in Char : c = Head(todo)
  BY <1>1 DEF Typed
<1>3. PICK u : u = Chars(stream)
  OBVIOUS
<1>4. u \in Seq(Char) /\ Chars(stream') = u \o <<c>>
  <2>1. <<c>> \in Seq(Char)
    OBVIOUS
  <2> QED BY <1>1, <1>2, <1>3, <2>1, CharsOf DEF Typed
<1>5. PICK g : Run!Chain(g, tty, Body(c), 9)
  <2>1. DOMAIN Body(c) = 1 .. 9
    BY BodyType
  <2>2. PICK n \in Nat : n = 9
    OBVIOUS
  <2>3. \E h : Run!Chain(h, tty, Body(c), n)
    BY <2>1, <2>2, Run!FoldChain
  <2> QED BY <2>2, <2>3
<1>6. g[0] = tty
  BY <1>5 DEF Run!Chain
<1>7. Depicts(tty, Written(u))
  BY <1>1, <1>3 DEF Drawn
<1>8. Midway(tty, 1, c, u \o <<c>>)
  <2>1. tty = g[1 - 1]
    BY <1>6
  <2> QED BY <1>4, <1>5, <1>7, <2>1 DEF Midway
<1>9. Midway(tty', at', Head(todo'), Chars(stream'))
  BY <1>1, <1>2, <1>4, <1>8
<1> QED BY <1>1, <1>9 DEF Drawn

\* A statement of a call, and its end.
LEMMA DrawnStatement == ASSUME Typed, Drawn, PutcStatement PROVE Drawn'
<1>1. /\ at \in 1 .. 9 /\ tty' = Statement(Statements[at], Head(todo), tty)
      /\ stream' = stream
  BY DEF PutcStatement, Typed
<1>2. PICK c \in Char : c = Head(todo)
  BY <1>1 DEF Typed
<1>3. PICK u : \E T, g : /\ u \in Seq(Char) /\ Chars(stream) = u \o <<c>>
                         /\ Depicts(T, Written(u)) /\ Run!Chain(g, T, Body(c), 9) /\ tty = g[at - 1]
  BY <1>1, <1>2 DEF Drawn, Midway
<1>4. PICK T : \E g : /\ u \in Seq(Char) /\ Chars(stream) = u \o <<c>>
                      /\ Depicts(T, Written(u)) /\ Run!Chain(g, T, Body(c), 9) /\ tty = g[at - 1]
  BY <1>3
<1>5. PICK g : /\ u \in Seq(Char) /\ Chars(stream) = u \o <<c>>
               /\ Depicts(T, Written(u)) /\ Run!Chain(g, T, Body(c), 9) /\ tty = g[at - 1]
  BY <1>4
<1>6. \A i \in 1 .. 9 : g[i] = Statement(Statements[i], c, g[i - 1])
  BY <1>5, CallSteps
<1>7. tty' = g[at]
  BY <1>1, <1>2, <1>5, <1>6
<1>8. CASE at < 9
  <2>1. at' = at + 1 /\ todo' = todo
    <3>1. Len(Statements) = 9
      BY DEF Statements
    <3> QED BY <1>8, <3>1 DEF PutcStatement
  <2>2. tty' = g[(at + 1) - 1]
    BY <1>1, <1>7
  <2>3. Midway(tty', at + 1, c, Chars(stream))
    BY <1>5, <2>2 DEF Midway
  <2> QED BY <1>1, <1>2, <2>1, <2>3 DEF Drawn
<1>9. CASE at = 9
  <2>1. at' = 0
    <3>1. Len(Statements) = 9
      BY DEF Statements
    <3> QED BY <1>9, <3>1 DEF PutcStatement
  <2>2. Depicts(g[9], Write(Written(u), c))
    BY <1>5, CallDraws
  <2>3. Written(u \o <<c>>) = Write(Written(u), c)
    BY <1>5, WrittenIs
  <2> QED BY <1>1, <1>5, <1>7, <1>9, <2>1, <2>2, <2>3 DEF Drawn
<1> QED BY <1>1, <1>8, <1>9

\* A whole kprintf() of press(), between two calls.
LEMMA DrawnPress == ASSUME Typed, Drawn, KeyPress, at = 0 PROVE Drawn'
<1>1. PICK text \in KeyText : tty' = tty_write(tty, text) /\ stream' = stream \o Calls("press", text)
  BY DEF KeyPress
<1>2. text \in Seq(Char)
  BY ConsoleAssumption
<1>3. PICK u : u = Chars(stream)
  OBVIOUS
<1>4. u \in Seq(Char) /\ Chars(stream') = u \o text
  BY <1>1, <1>2, <1>3, CharsOf DEF Typed
<1>5. Depicts(tty', Drawing!Folded(Written(u), text))
  BY <1>1, <1>2, <1>3, WriteDraws DEF Drawn
<1>6. Written(u \o text) = Drawing!Folded(Written(u), text)
  BY <1>2, <1>4, WrittenIs
<1>7. at' = 0
  BY DEF KeyPress
<1> QED BY <1>4, <1>5, <1>6, <1>7 DEF Drawn

\* Every step, as long as no key press falls into a call.
LEMMA DrawnStep == ASSUME ~Mixing, Typed, Drawn, [Next]_vars PROVE Drawn'
<1>1. todo = <<>> => at = 0
  BY DEF Typed
<1>2. CASE Starting \/ Manager \/ Detecting \/ FloppyIo \/ MapTemp
  BY <1>1, <1>2, DrawnStays DEF Starting, Manager, Detecting, FloppyIo, MapTemp, Says, Core, CoreGoes
<1>3. CASE InitDevices \/ Floppy0 \/ Floppy1 \/ ForEach
  BY <1>1, <1>3, DrawnStays DEF InitDevices, Floppy0, Floppy1, Detect, ForEach, Core, CoreGoes
<1>4. CASE Putc
  BY <1>4, DrawnCall
<1>5. CASE PutcStatement
  BY <1>5, DrawnStatement
<1>6. CASE KeyPress
  BY <1>6, DrawnPress DEF KeyPress
<1>7. CASE UNCHANGED vars
  BY <1>7, DrawnStays DEF vars
<1> QED BY <1>2, <1>3, <1>4, <1>5, <1>6, <1>7 DEF Next, Loop

\* The inductive invariant of the screen.
LEMMA DrawnAlways == ASSUME ~Mixing PROVE Spec => [](Typed /\ Drawn)
<1>1. Init => Typed /\ Drawn
  <2>1. ASSUME Init PROVE Drawn
    <3>1. Chars(<<>>) = <<>>
      BY DEF Chars
    <3>2. at = 0 /\ tty = Cleared /\ stream = <<>>
      BY <2>1 DEF Init
    <3> QED BY <3>1, <3>2, ClearedDepicts DEF Drawn
  <2> QED BY <2>1, TypedInit
<1>2. (Typed /\ Drawn) /\ [Next]_vars => (Typed /\ Drawn)'
  BY TypedStep, DrawnStep
<1> QED BY <1>1, <1>2, PTL DEF Spec

\* Between two calls of tty_putc() the screen is the window on everything printed,
\* and the cursor is where the next character goes (ScreenShowsStream of the
\* runs), if a key press prints only between two calls.
THEOREM ConsoleScreen == ASSUME ~Mixing PROVE Spec => []ScreenShowsStream
<1>1. Typed /\ Drawn => ScreenShowsStream
  <2> SUFFICES ASSUME Typed, Drawn, at = 0,
                      NEW s, s = Written([i \in DOMAIN stream |-> stream[i].c])
               PROVE  /\ \A a \in Cells : tty.scr[a] = s.cells[s.top * W + a]
                      /\ Cursor(tty) = s.p - s.top * W
    BY DEF ScreenShowsStream
  <2>1. Depicts(tty, s)
    BY DEF Drawn, Chars
  <2>2. PICK p, top, cells :
          s = [p |-> p, top |-> top, cells |-> cells] /\ Shows(tty, p, top, cells)
    BY <2>1 DEF Depicts
  <2>3. /\ s.p = p /\ s.top = top /\ s.cells = cells
        /\ p = tty.x + (top + tty.y) * W /\ top \in Nat /\ tty \in TTY
        /\ \A a \in Cells : tty.scr[a] = cells[top * W + a]
    BY <2>2 DEF Shows
  <2>4. PICK x \in Int : x = tty.x
    BY <2>3 DEF TTY
  <2>5. PICK y \in Int : y = tty.y
    BY <2>3 DEF TTY
  <2>6. x + y * W = (x + (top + y) * W) - top * W
    BY <2>3, TerminalAssumption
  <2> QED BY <2>3, <2>4, <2>5, <2>6 DEF Cursor
<1> QED BY <1>1, DrawnAlways, PTL

\* No store of tty_putc() leaves the screen memory (StoresOnScreen of the runs),
\* between any two of its statements, if a key press prints only between two calls.
THEOREM ConsoleStores == ASSUME ~Mixing PROVE Spec => []StoresOnScreen
<1>1. Typed /\ Drawn => StoresOnScreen
  <2> SUFFICES ASSUME Typed, Drawn PROVE ~tty.outside
    BY DEF StoresOnScreen
  <2>1. CASE at = 0
    BY <2>1 DEF Drawn, Depicts, Shows
  <2>2. CASE at # 0
    <3>1. PICK c \in Char : c = Head(todo)
      BY <2>2 DEF Typed
    <3>2. PICK T, u, g : /\ Depicts(T, Written(u)) /\ Run!Chain(g, T, Body(c), 9)
                         /\ tty = g[at - 1]
      BY <2>2, <3>1 DEF Drawn, Midway
    <3>3. at - 1 \in 0 .. 9
      BY <2>2 DEF Typed
    <3>4. \A i \in 0 .. 9 : ~g[i].outside
      BY <3>2, CallDraws
    <3> QED BY <3>2, <3>3, <3>4
  <2> QED BY <2>1, <2>2
<1> QED BY <1>1, DrawnAlways, PTL

-----------------------------------------------------------------------------
(* The devices *)

Hearing == INSTANCE Folding WITH Op <- Heard

\* Texts one after the other, however they are grouped.
LEMMA Grouped ==
  ASSUME NEW a \in Seq(Char), NEW b \in Seq(Char), NEW c \in Seq(Char)
  PROVE  (a \o b) \o c = a \o (b \o c)
BY ConcatAssociative

\* A character more is a text of one character more.
LEMMA OneMore ==
  ASSUME NEW s \in Seq(Char), NEW c \in Char
  PROVE  s \o <<c>> = Append(s, c)
<1>1. PICK u \in Seq(Char) : u = <<c>>
  <2>1. <<c>> \in Seq(Char)
    OBVIOUS
  <2> QED BY <2>1
<1>2. PICK v : v = s \o u
  OBVIOUS
<1>3. PICK w : w = Append(s, c)
  OBVIOUS
<1>4. Len(u) = 1 /\ u[1] = c
  BY <1>1
<1>5. v \in Seq(Char) /\ Join(v, s, u, Len(s), 1)
  BY <1>2, <1>4, Joined
<1>6. w \in Seq(Char) /\ Len(w) = Len(s) + 1
  BY <1>3
<1>7. ASSUME NEW i \in 1 .. Len(s) + 1 PROVE v[i] = w[i]
  <2>1. CASE i \in 1 .. Len(s)
    BY <1>3, <1>5, <2>1 DEF Join
  <2>2. CASE i = Len(s) + 1
    <3>1. v[Len(s) + 1] = u[1]
      BY <1>5 DEF Join
    <3> QED BY <1>3, <1>4, <2>2, <3>1
  <2> QED BY <2>1, <2>2
<1>8. v = w
  BY <1>5, <1>6, <1>7, SeqEqual DEF Join
<1> QED BY <1>2, <1>3, <1>8
\* The first of what is left, and the others.
LEMMA HeadAndTail ==
  ASSUME NEW s \in Seq(Char), NEW t \in Seq(Char), t # <<>>
  PROVE  Append(s, Head(t)) \o Tail(t) = s \o t
<1>1. PICK c \in Char : c = Head(t)
  OBVIOUS
<1>2. PICK r \in Seq(Char) : r = Tail(t)
  <2>1. Tail(t) \in Seq(Char)
    OBVIOUS
  <2> QED BY <2>1
<1>3. PICK u \in Seq(Char) : u = <<c>>
  <2>1. <<c>> \in Seq(Char)
    OBVIOUS
  <2> QED BY <2>1
<1>4. Append(s, c) = s \o u
  BY <1>3, OneMore
<1>5. u \o r = t
  <2>1. PICK m \in Nat : m = Len(r)
    BY LenProperties
  <2>2. Len(t) = 1 + m /\ t[1] = c /\ \A i \in 1 .. m : r[i] = t[1 + i]
    BY <1>1, <1>2, <2>1
  <2>3. Len(u) = 1 /\ u[1] = c
    BY <1>3
  <2>4. PICK v : v = u \o r
    OBVIOUS
  <2>5. v \in Seq(Char) /\ Join(v, u, r, 1, m)
    BY <2>1, <2>3, <2>4, Joined
  <2>6. ASSUME NEW i \in 1 .. 1 + m PROVE v[i] = t[i]
    <3>1. CASE i = 1
      BY <2>2, <2>3, <2>5, <3>1 DEF Join
    <3>2. CASE i # 1
      <4>1. PICK j \in 1 .. m : i = 1 + j
        <5>1. i - 1 \in 1 .. m /\ i = 1 + (i - 1)
          BY <3>2
        <5> QED BY <5>1
      <4>2. v[1 + j] = r[j]
        BY <2>5 DEF Join
      <4> QED BY <2>2, <4>1, <4>2
    <3> QED BY <3>1, <3>2
  <2>7. v = t
    BY <2>2, <2>5, <2>6, SeqEqual DEF Join
  <2> QED BY <2>4, <2>7
<1>6. (s \o u) \o r = s \o (u \o r)
  BY Grouped
<1> QED BY <1>1, <1>2, <1>4, <1>5, <1>6

\* What the core process has printed; press() adds nothing to it.
LEMMA HeardIs ==
  ASSUME NEW calls \in Seq(CallSet)
  PROVE  /\ FoldLeft(Heard, <<>>, calls) \in Seq(Char)
         /\ \A c \in Char : FoldLeft(Heard, <<>>, calls \o Calls("core", <<c>>))
                              = Append(FoldLeft(Heard, <<>>, calls), c)
         /\ \A text \in Seq(Char) : FoldLeft(Heard, <<>>, calls \o Calls("press", text))
                                      = FoldLeft(Heard, <<>>, calls)
<1>1. \A s : FoldLeft(Heard, <<>>, s) = Hearing!Folded(<<>>, s)
  BY DEF Hearing!Folded, FoldLeft, Hearing!FoldLeft,
         MapThenFoldSet, Hearing!MapThenFoldSet, Max, Hearing!Max
<1>2. ASSUME NEW a \in Seq(Char), NEW s \in Seq(CallSet) PROVE Hearing!Folded(a, s) \in Seq(Char)
  <2>1. \A v \in Seq(Char), e \in CallSet : Heard(v, e) \in Seq(Char)
    BY DEF Heard, CallSet
  <2> QED BY <2>1, Hearing!FoldType
<1>3. <<>> \in Seq(Char)
  OBVIOUS
<1>4. PICK h \in Seq(Char) : h = Hearing!Folded(<<>>, calls)
  BY <1>2, <1>3
<1>5. ASSUME NEW c \in Char
      PROVE  Hearing!Folded(<<>>, calls \o Calls("core", <<c>>)) = Append(h, c)
  <2>1. PICK e : e = [who |-> "core", c |-> c]
    OBVIOUS
  <2>2. e \in CallSet
    BY <2>1 DEF CallSet
  <2>3. Calls("core", <<c>>) = <<e>>
    <3>1. DOMAIN <<c>> = 1 .. 1 /\ <<c>>[1] = c
      OBVIOUS
    <3>2. Calls("core", <<c>>) = [i \in 1 .. 1 |-> e]
      BY <2>1, <3>1 DEF Calls
    <3>3. [i \in 1 .. 1 |-> e] = <<e>>
      OBVIOUS
    <3> QED BY <3>2, <3>3
  <2>4. PICK z \in Seq(CallSet) : z = <<>>
    <3>1. <<>> \in Seq(CallSet)
      OBVIOUS
    <3> QED BY <3>1
  <2>5. PICK t \in Seq(CallSet) : t = Append(z, e)
    <3>1. Append(z, e) \in Seq(CallSet)
      BY <2>2
    <3> QED BY <3>1
  <2>6. t = <<e>>
    BY <2>4, <2>5
  <2>7. PICK n : n = <<>>
    OBVIOUS
  <2>8. Hearing!Folded(n, calls \o t) = Hearing!Folded(Hearing!Folded(n, calls), t)
    BY Hearing!FoldConcat
  <2>9. Hearing!Folded(h, t) = Heard(Hearing!Folded(h, z), e)
    BY <2>2, <2>5, Hearing!FoldAppend
  <2>10. Hearing!Folded(h, <<>>) = h
    BY Hearing!FoldEmpty
  <2>11. Heard(h, e) = Append(h, c)
    BY <2>1 DEF Heard
  <2> QED BY <1>4, <2>3, <2>4, <2>6, <2>7, <2>8, <2>9, <2>10, <2>11
<1>6. ASSUME NEW text \in Seq(Char)
      PROVE  Hearing!Folded(<<>>, calls \o Calls("press", text)) = h
  <2>1. PICK t : t = Calls("press", text)
    OBVIOUS
  <2>2. PICK m \in Nat : m = Len(text)
    BY LenProperties
  <2>3. PICK P : P = [who : {"press"}, c : Char]
    OBVIOUS
  <2>4. t \in Seq(P) /\ t \in Seq(CallSet)
    <3>1. DOMAIN text = 1 .. m /\ \A i \in 1 .. m : text[i] \in Char
      BY <2>2, LenProperties
    <3>2. t \in [1 .. m -> P] /\ t \in [1 .. m -> CallSet]
      BY <2>1, <2>3, <3>1 DEF Calls, CallSet
    <3> QED BY <3>2, SeqDef
  <2>5. Hearing!Folded(<<>>, calls \o t) = Hearing!Folded(h, t)
    BY <1>4, <2>4, Hearing!FoldConcat
  <2>6. Hearing!Folded(h, t) \in {h}
    <3>1. \A v \in {h}, e \in P : Heard(v, e) \in {h}
      BY <2>3 DEF Heard
    <3> QED BY <2>4, <3>1, Hearing!FoldType
  <2> QED BY <2>1, <2>5, <2>6
<1> QED BY <1>1, <1>4, <1>5, <1>6

\* The device init_floppy() registers for a drive of this type, if any.
Drive(minor, type) ==
  [major |-> DEV_FLOPPY_MAJOR, minor |-> minor, name |-> <<"f", Digits[minor + 1]>>,
   type |-> type, typestr |-> TypeNames[type]]
Drives(minor, type) == IF type = 0 THEN <<>> ELSE <<Drive(minor, type)>>

\* The lines of the first n devices of a list of at most two.
Reported(devs, n) ==
  IF n = 0 THEN <<>>
  ELSE IF n = 1 THEN FloppyLine(devs[1]) ELSE FloppyLine(devs[1]) \o FloppyLine(devs[2])

\* What the core process has said when it is at a place.
Limit(v) == kprintf(TempFmt, <<v>>)
Second == (BrkMax - PageSize) % LongMod
Text(place, devs, next) ==
  CASE place = "start" -> <<>>
    [] place = "manager" -> Note
    [] place \in {"init_devices", "detect"} -> Note \o Note
    [] place \in {"floppy0", "floppy1"} -> (Note \o Note) \o Note
    [] place = "foreach" -> ((Note \o Note) \o Note) \o Reported(devs, next - 1)
    [] place = "map_temp" -> (((Note \o Note) \o Note) \o Reported(devs, next - 1)) \o Limit(BrkMax)
    [] place = "loop" -> ((((Note \o Note) \o Note) \o Reported(devs, next - 1)) \o Limit(BrkMax))
                           \o Limit(Second)

\* What of the current kprintf() is not yet on the stream.
Rest(text, statement) == IF statement = 0 THEN text ELSE Tail(text)

\* The core process has printed, or is about to print, what it has said; and the
\* device list holds the drives detected so far.
Told ==
  /\ k_devs = CASE core = "floppy1" -> Drives(0, cmos \div 16)
                [] core \in {"foreach", "map_temp", "loop"} ->
                     Drives(1, cmos % 16) \o Drives(0, cmos \div 16)
                [] OTHER -> <<>>
  /\ core \in {"map_temp", "loop"} => this = Len(k_devs) + 1
  /\ FoldLeft(Heard, <<>>, stream) \o Rest(todo, at) = Text(core, k_devs, this)

\* Two texts that differ in a last character.
LEMMA Appended ==
  ASSUME NEW s \in Seq(Char), NEW c \in Char, NEW w \in Seq(Char),
         Len(w) = Len(s) + 1, w[Len(s) + 1] = c, \A i \in 1 .. Len(s) : w[i] = s[i]
  PROVE  s \o <<c>> = w
<1>1. PICK v \in Seq(Char) : v = Append(s, c)
  <2>1. Append(s, c) \in Seq(Char)
    OBVIOUS
  <2> QED BY <2>1
<1>2. Len(v) = Len(s) + 1 /\ v[Len(s) + 1] = c /\ \A i \in 1 .. Len(s) : v[i] = s[i]
  BY <1>1
<1>3. Len(s) \in Nat
  BY LenProperties
<1>4. ASSUME NEW i \in 1 .. Len(s) + 1 PROVE v[i] = w[i]
  <2>1. CASE i \in 1 .. Len(s)
    BY <1>2, <2>1
  <2>2. CASE i = Len(s) + 1
    BY <1>2, <2>2
  <2> QED BY <1>3, <2>1, <2>2
<1>5. v = w
  BY <1>2, <1>4, SeqEqual
<1> QED BY <1>1, <1>5, OneMore

\* A text of two characters after another.
LEMMA TwoMore ==
  ASSUME NEW s \in Seq(Char), NEW c \in Char, NEW e \in Char
  PROVE  s \o <<c, e>> = (s \o <<c>>) \o <<e>>
<1>1. PICK t \in Seq(Char) : t = <<c>>
  <2>1. <<c>> \in Seq(Char)
    OBVIOUS
  <2> QED BY <2>1
<1>2. PICK u \in Seq(Char) : u = <<e>>
  <2>1. <<e>> \in Seq(Char)
    OBVIOUS
  <2> QED BY <2>1
<1>3. t \o u = <<c, e>>
  <2>1. PICK w \in Seq(Char) : w = <<c, e>>
    <3>1. <<c, e>> \in Seq(Char)
      OBVIOUS
    <3> QED BY <3>1
  <2>2. Len(t) = 1 /\ Len(w) = Len(t) + 1 /\ w[Len(t) + 1] = e /\ w[1] = t[1]
    BY <1>1, <2>1
  <2>3. \A i \in 1 .. Len(t) : w[i] = t[i]
    BY <2>2
  <2>4. t \o <<e>> = w
    BY <2>2, <2>3, Appended
  <2> QED BY <1>2, <2>1, <2>4
<1>4. s \o (t \o u) = (s \o t) \o u
  BY Grouped
<1> QED BY <1>1, <1>2, <1>3, <1>4

\* The line of a drive, as the drive and its type name it.
LEMMA DriveLine ==
  ASSUME NEW minor \in {0, 1}, NEW type \in 1 .. 4
  PROVE  FloppyLine(Drive(minor, type)) = LineOf(minor, type)
<1>1. PICK x \in Char : x = Digits[minor + 1]
  BY FloppyChars
<1>2. PICK y \in Char : y = Digits[type + 1]
  BY FloppyChars
<1>3. PICK s \in Seq(Char) : s = TypeNames[type]
  BY ConsoleAssumption
<1>4. "f" \in Char /\ "D" \in Char /\ ":" \in Char /\ NL \in Char
  BY FloppyChars
<1>5. PICK name \in Seq(Char) : name = <<"f", x>>
  <2>1. <<"f", x>> \in Seq(Char)
    BY <1>4
  <2> QED BY <2>1
<1>6. PICK d \in Seq(Char) : d = <<"D">>
  <2>1. <<"D">> \in Seq(Char)
    BY <1>4
  <2> QED BY <2>1
<1>7. PICK k \in Seq(Char) : k = <<":">>
  <2>1. <<":">> \in Seq(Char)
    BY <1>4
  <2> QED BY <2>1
<1>8. PICK t \in Seq(Char) : t = <<y>>
  <2>1. <<y>> \in Seq(Char)
    OBVIOUS
  <2> QED BY <2>1
<1>9. FloppyLine(Drive(minor, type)) = <<>> \o d \o k \o name \o t \o s \o <<NL>>
  <2>1. kprintf(FloppyFmt, <<name, type, s>>)
          = <<>> \o <<"D">> \o <<":">> \o name \o <<Digits[type + 1]>> \o s \o <<NL>>
    BY FloppyText
  <2>2. FloppyLine(Drive(minor, type)) = kprintf(FloppyFmt, <<name, type, s>>)
    BY <1>1, <1>3, <1>5 DEF FloppyLine, Drive
  <2> QED BY <1>2, <1>6, <1>7, <1>8, <2>1, <2>2
<1>10. PICK v1 \in Seq(Char) : v1 = <<"D">>
  BY <1>6
<1>11. PICK v2 \in Seq(Char) : v2 = <<"D", ":">>
  <2>1. <<"D", ":">> \in Seq(Char)
    BY <1>4
  <2> QED BY <2>1
<1>12. PICK v3 \in Seq(Char) : v3 = <<"D", ":", "f">>
  <2>1. <<"D", ":", "f">> \in Seq(Char)
    BY <1>4
  <2> QED BY <2>1
<1>13. PICK v4 \in Seq(Char) : v4 = <<"D", ":", "f", x>>
  <2>1. <<"D", ":", "f", x>> \in Seq(Char)
    BY <1>4
  <2> QED BY <2>1
<1>14. PICK v5 \in Seq(Char) : v5 = <<"D", ":", "f", x, y>>
  <2>1. <<"D", ":", "f", x, y>> \in Seq(Char)
    BY <1>4
  <2> QED BY <2>1
<1>15. v1 \o <<":">> = v2
  <2>1. Len(v2) = Len(v1) + 1 /\ v2[Len(v1) + 1] = ":" /\ \A i \in 1 .. Len(v1) : v2[i] = v1[i]
    BY <1>10, <1>11
  <2> QED BY <1>4, <2>1, Appended
<1>16. v2 \o <<"f">> = v3
  <2>1. Len(v3) = Len(v2) + 1 /\ v3[Len(v2) + 1] = "f" /\ \A i \in 1 .. Len(v2) : v3[i] = v2[i]
    BY <1>11, <1>12
  <2> QED BY ZenonT(30), <1>4, <2>1, Appended
<1>17. v3 \o <<x>> = v4
  <2>1. Len(v4) = Len(v3) + 1 /\ v4[Len(v3) + 1] = x /\ \A i \in 1 .. Len(v3) : v4[i] = v3[i]
    BY <1>12, <1>13
  <2> QED BY <2>1, Appended
<1>18. v4 \o <<y>> = v5
  <2>1. Len(v5) = Len(v4) + 1 /\ v5[Len(v4) + 1] = y /\ \A i \in 1 .. Len(v4) : v5[i] = v4[i]
    BY <1>13, <1>14
  <2> QED BY <2>1, Appended
<1>19. v2 \o name = v4
  <2>1. v2 \o <<"f", x>> = (v2 \o <<"f">>) \o <<x>>
    BY ZenonT(30), <1>4, TwoMore
  <2> QED BY <1>5, <1>16, <1>17, <2>1
<1>20. <<>> \o d \o k \o name \o t = v5
  <2>1. <<>> \o d = v1
    BY <1>6, <1>10
  <2> QED BY <1>7, <1>8, <1>15, <1>18, <1>19, <2>1
<1> QED BY <1>1, <1>2, <1>3, <1>9, <1>14, <1>20 DEF LineOf

\* A limit is printed as its hexadecimal numeral.
LEMMA LimitLine ==
  ASSUME NEW v \in 0 .. LongMod - 1
  PROVE  Numeral(v, 16, LowDigits) \in Seq(Char) /\ Limit(v) = Numeral(v, 16, LowDigits) \o <<NL>>
<1>1. PICK n \in Seq(Char) : n = NumDigits(v, 16, LowDigits)
  <2>1. Table(Char, LowDigits, 16)
    BY Tables
  <2> QED BY <2>1, NumDigitsType
<1>2. NumDigits(v, 16, LowDigits) = Numeral(v, 16, LowDigits)
  BY NumDigitsNumeral
<1>3. Limit(v) = <<>> \o n \o <<NL>>
  BY <1>1, TempText DEF Limit
<1>4. <<>> \o n = n
  OBVIOUS
<1> QED BY <1>1, <1>2, <1>3, <1>4

\* A register_device() puts the drive before the ones already there.
LEMMA Registered ==
  ASSUME NEW minor \in {0, 1}, NEW type \in 0 .. 4, NEW l, NEW m, Detect(minor, type, l, m),
         k_devs \in Seq(Devices)
  PROVE  k_devs' = Drives(minor, type) \o k_devs
<1>1. CASE type = 0
  <2>1. k_devs' = k_devs
    BY <1>1 DEF Detect
  <2>2. <<>> \o k_devs = k_devs
    OBVIOUS
  <2> QED BY <1>1, <2>1, <2>2 DEF Drives
<1>2. CASE type # 0
  BY <1>2 DEF Detect, register_device, Drives, Drive
<1> QED BY <1>1, <1>2

\* The drives of the CMOS, the second one first, and what is said of them.
LEMMA AllReported ==
  ASSUME NEW a \in 0 .. 4, NEW b \in 0 .. 4
  PROVE  LET devs == Drives(1, b) \o Drives(0, a)
         IN  /\ Len(devs) \in 0 .. 2
             /\ Reported(devs, Len(devs)) = Of(1, b) \o Of(0, a)
             /\ \A i \in 1 .. Len(devs) : Reported(devs, i) = Reported(devs, i - 1) \o FloppyLine(devs[i])
<1> DEFINE x == Drive(1, b)
           y == Drive(0, a)
<1>1. PICK devs : devs = Drives(1, b) \o Drives(0, a)
  OBVIOUS
<1>2. a # 0 => FloppyLine(y) = LineOf(0, a) /\ FloppyLine(y) \in Seq(Char)
  <2> SUFFICES ASSUME a # 0 PROVE FloppyLine(y) = LineOf(0, a) /\ FloppyLine(y) \in Seq(Char)
    OBVIOUS
  <2>1. y \in Devices
    BY RegisterType DEF Drive
  <2> QED BY <2>1, DriveLine, FloppyLineType
<1>3. b # 0 => FloppyLine(x) = LineOf(1, b) /\ FloppyLine(x) \in Seq(Char)
  <2> SUFFICES ASSUME b # 0 PROVE FloppyLine(x) = LineOf(1, b) /\ FloppyLine(x) \in Seq(Char)
    OBVIOUS
  <2>1. x \in Devices
    BY RegisterType DEF Drive
  <2> QED BY <2>1, DriveLine, FloppyLineType
<1> HIDE DEF x, y
<1> SUFFICES /\ Len(devs) \in 0 .. 2
             /\ Reported(devs, Len(devs)) = Of(1, b) \o Of(0, a)
             /\ \A i \in 1 .. Len(devs) : Reported(devs, i) = Reported(devs, i - 1) \o FloppyLine(devs[i])
  BY <1>1
<1>4. \A t \in Seq(Char) : <<>> \o t = t /\ t \o <<>> = t
  BY ConcatSimplifications
<1>5. CASE a = 0 /\ b = 0
  <2>1. Len(devs) = 0
    BY <1>1, <1>5 DEF Drives
  <2>2. Of(1, b) \o Of(0, a) = <<>>
    BY <1>5 DEF Of
  <2>3. Reported(devs, 0) = <<>>
    BY DEF Reported
  <2>4. 1 .. 0 = {}
    OBVIOUS
  <2>5. Reported(devs, Len(devs)) = Of(1, b) \o Of(0, a)
    BY <2>1, <2>2, <2>3
  <2>6. \A i \in 1 .. Len(devs) : Reported(devs, i) = Reported(devs, i - 1) \o FloppyLine(devs[i])
    BY <2>1, <2>4
  <2> QED BY <2>1, <2>5, <2>6
<1>6. CASE a # 0 /\ b = 0
  <2>1. devs = <<y>> /\ Len(devs) = 1 /\ devs[1] = y
    BY <1>1, <1>6 DEF Drives, y
  <2>2. Of(1, b) \o Of(0, a) = FloppyLine(y)
    BY <1>2, <1>4, <1>6 DEF Of
  <2>3. Reported(devs, 0) = <<>> /\ Reported(devs, 1) = FloppyLine(y)
    BY <2>1 DEF Reported
  <2>4. Reported(devs, 1) = Reported(devs, 0) \o FloppyLine(devs[1])
    BY <1>2, <1>4, <1>6, <2>1, <2>3
  <2>5. \A i \in 1 .. 1 : i = 1 /\ i - 1 = 0
    OBVIOUS
  <2> QED BY SMTT(30), <2>1, <2>2, <2>3, <2>4, <2>5
<1>7. CASE a = 0 /\ b # 0
  <2>1. devs = <<x>> /\ Len(devs) = 1 /\ devs[1] = x
    BY <1>1, <1>7 DEF Drives, x
  <2>2. Of(1, b) \o Of(0, a) = FloppyLine(x)
    BY <1>3, <1>4, <1>7 DEF Of
  <2>3. Reported(devs, 0) = <<>> /\ Reported(devs, 1) = FloppyLine(x)
    BY <2>1 DEF Reported
  <2>4. Reported(devs, 1) = Reported(devs, 0) \o FloppyLine(devs[1])
    BY <1>3, <1>4, <1>7, <2>1, <2>3
  <2>5. \A i \in 1 .. 1 : i = 1 /\ i - 1 = 0
    OBVIOUS
  <2> QED BY SMTT(30), <2>1, <2>2, <2>3, <2>4, <2>5
<1>8. CASE a # 0 /\ b # 0
  <2>1. Len(devs) = 2 /\ devs[1] = x /\ devs[2] = y
    <3>1. PICK s \in Seq({x, y}) : s = <<x>>
      <4>1. <<x>> \in Seq({x, y})
        OBVIOUS
      <4> QED BY <4>1
    <3>2. PICK t \in Seq({x, y}) : t = <<y>>
      <4>1. <<y>> \in Seq({x, y})
        OBVIOUS
      <4> QED BY <4>1
    <3>3. devs = s \o t
      BY <1>1, <1>8, <3>1, <3>2 DEF Drives, x, y
    <3>4. Len(s) = 1 /\ s[1] = x /\ Len(t) = 1 /\ t[1] = y
      BY <3>1, <3>2
    <3> QED BY <3>3, <3>4, ConcatProperties
  <2>2. Of(1, b) \o Of(0, a) = FloppyLine(x) \o FloppyLine(y)
    BY <1>2, <1>3, <1>8 DEF Of
  <2>3. /\ Reported(devs, 0) = <<>> /\ Reported(devs, 1) = FloppyLine(x)
        /\ Reported(devs, 2) = FloppyLine(x) \o FloppyLine(y)
    BY <2>1 DEF Reported
  <2>4. Reported(devs, 1) = Reported(devs, 0) \o FloppyLine(devs[1])
    BY <1>3, <1>4, <1>8, <2>1, <2>3
  <2>5. Reported(devs, 2) = Reported(devs, 1) \o FloppyLine(devs[2])
    BY <2>1, <2>3
  <2>6. ASSUME NEW i \in 1 .. 2
        PROVE  Reported(devs, i) = Reported(devs, i - 1) \o FloppyLine(devs[i])
    <3>1. CASE i = 1
      BY <2>4, <3>1
    <3>2. CASE i = 2
      BY <2>5, <3>2
    <3> QED BY <3>1, <3>2
  <2>7. Reported(devs, Len(devs)) = Of(1, b) \o Of(0, a)
    BY <2>1, <2>2, <2>3
  <2> QED BY SMTT(30), <2>1, <2>6, <2>7
<1> QED BY <1>5, <1>6, <1>7, <1>8

\* Before the first step.
LEMMA ToldInit == Init => Told
<1> SUFFICES ASSUME Init PROVE Told
  OBVIOUS
<1>1. core = "start" /\ k_devs = <<>> /\ stream = <<>> /\ todo = <<>> /\ at = 0
  BY DEF Init
<1>2. FoldLeft(Heard, <<>>, stream) = <<>>
  <2>1. FoldLeft(Heard, <<>>, <<>>) = Hearing!Folded(<<>>, <<>>)
    BY DEF Hearing!Folded, FoldLeft, Hearing!FoldLeft,
           MapThenFoldSet, Hearing!MapThenFoldSet, Max, Hearing!Max
  <2> QED BY <1>1, <2>1, Hearing!FoldEmpty
<1>3. <<>> \o <<>> = <<>>
  OBVIOUS
<1> QED BY <1>1, <1>2, <1>3 DEF Told, Text, Rest

\* The core process goes on with nothing to say, and nobody has heard anything new.
LEMMA ToldSilent ==
  ASSUME Told, UNCHANGED <<stream, todo, at>>, Text(core', k_devs', this') = Text(core, k_devs, this)
  PROVE  FoldLeft(Heard, <<>>, stream') \o Rest(todo', at') = Text(core', k_devs', this')
BY DEF Told

\* The core process says something.
LEMMA ToldSays ==
  ASSUME Typed, Told, NEW text \in Seq(Char), todo = <<>>, todo' = text, UNCHANGED <<stream, at>>,
         Text(core', k_devs', this') = Text(core, k_devs, this) \o text
  PROVE  FoldLeft(Heard, <<>>, stream') \o Rest(todo', at') = Text(core', k_devs', this')
<1>1. at = 0
  BY DEF Typed
<1>2. PICK h \in Seq(Char) : h = FoldLeft(Heard, <<>>, stream)
  BY HeardIs DEF Typed
<1>3. h \o <<>> = h
  OBVIOUS
<1>4. h = Text(core, k_devs, this)
  BY <1>1, <1>2, <1>3 DEF Told, Rest
<1> QED BY <1>1, <1>2, <1>4 DEF Rest

\* A drive is looked for.
LEMMA ToldDetect ==
  ASSUME Typed, Told, Floppy0 \/ Floppy1
  PROVE  Told'
<1>1. cmos \div 16 \in 0 .. 4 /\ cmos % 16 \in 0 .. 4 /\ k_devs \in Seq(Devices)
  BY ConsoleAssumption DEF Typed
<1>2. UNCHANGED <<stream, todo, at, this, cmos>>
  BY DEF Floppy0, Floppy1, Detect, CoreGoes
<1>3. CASE Floppy0
  <2>1. core = "floppy0" /\ core' = "floppy1"
    BY <1>3 DEF Floppy0, Detect, Core, CoreGoes
  <2>2. k_devs = <<>>
    BY <2>1 DEF Told
  <2>3. k_devs' = Drives(0, cmos \div 16) \o <<>>
    BY <1>1, <1>3, <2>2, Registered DEF Floppy0
  <2>4. Drives(0, cmos \div 16) \o <<>> = Drives(0, cmos \div 16)
    BY DEF Drives
  <2>5. Text(core', k_devs', this') = Text(core, k_devs, this)
    BY <2>1 DEF Text
  <2> QED BY <1>2, <2>1, <2>3, <2>4, <2>5, ToldSilent DEF Told
<1>4. CASE Floppy1
  <2>1. core = "floppy1" /\ core' = "foreach"
    BY <1>4 DEF Floppy1, Detect, Core, CoreGoes
  <2>2. k_devs = Drives(0, cmos \div 16)
    BY <2>1 DEF Told
  <2>3. k_devs' = Drives(1, cmos % 16) \o Drives(0, cmos \div 16)
    BY <1>1, <1>4, <2>2, Registered DEF Floppy1
  <2>4. Text(core', k_devs', this') = Text(core, k_devs, this)
    <3>1. this' - 1 = 0
      BY <1>2, <2>1 DEF Typed
    <3>2. Reported(k_devs', this' - 1) = <<>>
      BY <3>1 DEF Reported
    <3>3. PICK note \in Seq(Char) : note = Note
      BY ConsoleAssumption
    <3>4. PICK three \in Seq(Char) : three = (note \o note) \o note
      <4>1. (note \o note) \o note \in Seq(Char)
        BY ConcatProperties
      <4> QED BY <4>1
    <3>5. three \o <<>> = three
      OBVIOUS
    <3> QED BY <2>1, <3>2, <3>3, <3>4, <3>5 DEF Text
  <2> QED BY <1>2, <2>1, <2>3, <2>4, ToldSilent DEF Told
<1> QED BY <1>3, <1>4

\* The next device is reported.
LEMMA ToldForEach == ASSUME Typed, Told, ForEach PROVE Told'
<1>1. /\ core = "foreach" /\ core' = "foreach" /\ this <= Len(k_devs) /\ this' = this + 1
      /\ todo = <<>> /\ UNCHANGED <<tty, at, cmos, presses, stream, k_devs>>
  BY DEF ForEach, Core, CoreGoes
<1>2. cmos \div 16 \in 0 .. 4 /\ cmos % 16 \in 0 .. 4
  BY ConsoleAssumption DEF Typed
<1>3. k_devs = Drives(1, cmos % 16) \o Drives(0, cmos \div 16)
  BY <1>1 DEF Told
<1>4. Len(k_devs) \in 0 .. 2
  BY <1>2, <1>3, AllReported
<1>5. this \in 1 .. Len(k_devs)
  BY <1>1, <1>4 DEF Typed
<1>6. Reported(k_devs, this) = Reported(k_devs, this - 1) \o FloppyLine(k_devs[this])
  BY <1>2, <1>3, <1>5, AllReported
<1>7. ASSUME NEW i \in 1 .. Len(k_devs) PROVE FloppyLine(k_devs[i]) \in Seq(Char)
  <2>1. k_devs[i] \in Devices
    BY LenProperties DEF Typed
  <2> QED BY <2>1, FloppyLineType
<1>8. PICK line \in Seq(Char) : line = FloppyLine(k_devs[this])
  BY <1>5, <1>7
<1>9. PICK before \in Seq(Char) : before = Reported(k_devs, this - 1)
  <2>1. this = 1 \/ this = 2
    <3>1. PICK n \in 0 .. 2 : n = Len(k_devs)
      BY <1>4
    <3>2. this \in 1 .. n
      BY <1>5, <3>1
    <3> QED BY <3>2
  <2>2. CASE this = 1
    <3>1. this - 1 = 0
      BY <2>2
    <3>2. Reported(k_devs, this - 1) = <<>>
      BY <3>1 DEF Reported
    <3>3. <<>> \in Seq(Char)
      OBVIOUS
    <3> QED BY <3>2, <3>3
  <2>3. CASE this = 2
    <3>1. this - 1 = 1
      BY <2>3
    <3>2. Reported(k_devs, this - 1) = FloppyLine(k_devs[1])
      BY <3>1 DEF Reported
    <3>3. 1 \in 1 .. Len(k_devs)
      BY <1>4, <1>5
    <3> QED BY <1>7, <3>2, <3>3
  <2> QED BY <2>1, <2>2, <2>3
<1>10. PICK notes \in Seq(Char) : notes = (Note \o Note) \o Note
  <2>1. (Note \o Note) \o Note \in Seq(Char)
    BY ConsoleAssumption, ConcatProperties
  <2> QED BY <2>1
<1>11. notes \o (before \o line) = (notes \o before) \o line
  BY Grouped
<1>12. Text(core', k_devs', this') = Text(core, k_devs, this) \o line
  <2>1. Text(core, k_devs, this) = notes \o before
    BY <1>1, <1>9, <1>10 DEF Text
  <2>2. (this + 1) - 1 = this
    BY <1>4, <1>5
  <2>3. Text(core', k_devs', this') = notes \o Reported(k_devs, this)
    BY <1>1, <1>10, <2>2 DEF Text
  <2> QED BY <1>6, <1>8, <1>9, <1>11, <2>1, <2>3
<1>13. todo' = line
  <2>1. k_devs[this] \in Devices
    BY <1>5, LenProperties DEF Typed
  <2> QED BY <1>8, <2>1 DEF ForEach, Devices
<1>14. FoldLeft(Heard, <<>>, stream') \o Rest(todo', at') = Text(core', k_devs', this')
  BY <1>1, <1>12, <1>13, ToldSays
<1> QED BY <1>1, <1>3, <1>14 DEF Told

\* A call of tty_putc(), and its statements.
LEMMA ToldPutc == ASSUME Typed, Told, Putc \/ PutcStatement PROVE Told'
<1>1. UNCHANGED <<core, cmos, k_devs, this>>
  BY DEF Putc, PutcStatement
<1>2. FoldLeft(Heard, <<>>, stream') \o Rest(todo', at') = FoldLeft(Heard, <<>>, stream) \o Rest(todo, at)
  <2>1. CASE Putc
    <3>1. /\ todo # <<>> /\ at = 0 /\ at' = 1 /\ todo' = todo
          /\ stream' = stream \o Calls("core", <<Head(todo)>>)
      BY <2>1 DEF Putc
    <3>2. PICK c \in Char : c = Head(todo)
      BY <3>1 DEF Typed
    <3>3. PICK h \in Seq(Char) : h = FoldLeft(Heard, <<>>, stream)
      BY HeardIs DEF Typed
    <3>4. FoldLeft(Heard, <<>>, stream') = Append(h, c)
      BY <3>1, <3>2, <3>3, HeardIs DEF Typed
    <3>5. Append(h, c) \o Tail(todo) = h \o todo
      BY <3>1, <3>2, HeadAndTail DEF Typed
    <3>6. Rest(todo, at) = todo /\ Rest(todo', at') = Tail(todo)
      BY <3>1 DEF Rest
    <3> QED BY <3>3, <3>4, <3>5, <3>6
  <2>2. CASE PutcStatement
    <3>1. Len(Statements) = 9 /\ at \in 0 .. 9 /\ at > 0 /\ stream' = stream
      BY <2>2 DEF PutcStatement, Typed, Statements
    <3>2. Rest(todo', at') = Rest(todo, at)
      <4>1. CASE at < 9
        <5>1. at' = at + 1 /\ todo' = todo /\ at + 1 # 0 /\ at # 0
          BY <2>2, <3>1, <4>1 DEF PutcStatement
        <5> QED BY <5>1 DEF Rest
      <4>2. CASE at = 9
        <5>1. at' = 0 /\ todo' = Tail(todo) /\ at # 0
          BY <2>2, <3>1, <4>2 DEF PutcStatement
        <5> QED BY <5>1 DEF Rest
      <4> QED BY <3>1, <4>1, <4>2
    <3> QED BY <3>1, <3>2
  <2> QED BY <2>1, <2>2
<1> QED BY <1>1, <1>2 DEF Told

\* What press() prints in between is not heard.
LEMMA ToldPress == ASSUME Typed, Told, KeyPress PROVE Told'
<1>1. UNCHANGED <<todo, at, core, cmos, k_devs, this>>
  BY DEF KeyPress
<1>2. PICK text \in KeyText : stream' = stream \o Calls("press", text)
  BY DEF KeyPress
<1>3. text \in Seq(Char)
  BY ConsoleAssumption
<1>4. FoldLeft(Heard, <<>>, stream') = FoldLeft(Heard, <<>>, stream)
  BY <1>2, <1>3, HeardIs DEF Typed
<1> QED BY <1>1, <1>4 DEF Told

\* Every step keeps what has been told.
LEMMA ToldStep == ASSUME Typed, Told, [Next]_vars PROVE Told'
<1> DEFINE Next1 == FoldLeft(Heard, <<>>, stream') \o Rest(todo', at') = Text(core', k_devs', this')
<1>1. PICK note \in Seq(Char) : note = Note
  BY ConsoleAssumption
<1>2. <<>> \o note = note
  OBVIOUS
<1>3. CASE Starting
  <2>1. /\ core = "start" /\ core' = "manager" /\ todo = <<>> /\ todo' = note
        /\ UNCHANGED <<stream, at, k_devs, this>>
    BY <1>1, <1>3 DEF Starting, Says, Core, CoreGoes
  <2>2. Text(core', k_devs', this') = Text(core, k_devs, this) \o note
    BY <1>1, <1>2, <2>1 DEF Text
  <2>3. Next1
    BY <2>1, <2>2, ToldSays
  <2> QED BY <2>1, <2>3 DEF Told
<1>4. CASE Manager
  <2>1. /\ core = "manager" /\ core' = "init_devices" /\ todo = <<>> /\ todo' = note
        /\ UNCHANGED <<stream, at, k_devs, this>>
    BY <1>1, <1>4 DEF Manager, Says, Core, CoreGoes
  <2>2. Text(core', k_devs', this') = Text(core, k_devs, this) \o note
    BY <1>1, <2>1 DEF Text
  <2>3. Next1
    BY <2>1, <2>2, ToldSays
  <2> QED BY <2>1, <2>3 DEF Told
<1>5. CASE Detecting
  <2>1. /\ core = "detect" /\ core' = "floppy0" /\ todo = <<>> /\ todo' = note
        /\ UNCHANGED <<stream, at, k_devs, this>>
    BY <1>1, <1>5 DEF Detecting, Says, Core, CoreGoes
  <2>2. Text(core', k_devs', this') = Text(core, k_devs, this) \o note
    BY <1>1, <2>1 DEF Text
  <2>3. Next1
    BY <2>1, <2>2, ToldSays
  <2> QED BY <2>1, <2>3 DEF Told
<1>6. CASE InitDevices
  <2>1. /\ core = "init_devices" /\ core' = "detect" /\ k_devs' = <<>>
        /\ UNCHANGED <<stream, todo, at>>
    BY <1>6 DEF InitDevices, Core, CoreGoes
  <2>2. Text(core', k_devs', this') = Text(core, k_devs, this)
    BY <2>1 DEF Text
  <2> QED BY <2>1, <2>2, ToldSilent DEF Told
<1>7. CASE Floppy0 \/ Floppy1
  BY <1>7, ToldDetect
<1>8. CASE ForEach
  BY <1>8, ToldForEach
<1>9. CASE FloppyIo
  <2>1. PICK limit \in Seq(Char) : limit = Limit(BrkMax)
    BY LimitsType DEF Limit
  <2>2. /\ core = "foreach" /\ core' = "map_temp" /\ todo = <<>> /\ todo' = limit
        /\ this > Len(k_devs) /\ UNCHANGED <<stream, at, k_devs, this, cmos>>
    BY <1>9, <2>1 DEF FloppyIo, Says, Core, CoreGoes, Limit
  <2>3. Text(core', k_devs', this') = Text(core, k_devs, this) \o limit
    BY <2>1, <2>2 DEF Text
  <2>4. Next1
    BY <2>2, <2>3, ToldSays
  <2>5. this = Len(k_devs) + 1
    <3>1. PICK n \in Nat : n = Len(k_devs)
      BY LenProperties DEF Typed
    <3>2. this \in 1 .. n + 1 /\ this > n
      BY <2>2, <3>1 DEF Typed
    <3> QED BY <3>1, <3>2
  <2> QED BY <2>2, <2>4, <2>5 DEF Told
<1>10. CASE MapTemp
  <2>1. PICK limit \in Seq(Char) : limit = Limit(Second)
    BY LimitsType DEF Limit, Second
  <2>2. /\ core = "map_temp" /\ core' = "loop" /\ todo = <<>> /\ todo' = limit
        /\ UNCHANGED <<stream, at, k_devs, this, cmos>>
    BY <1>10, <2>1 DEF MapTemp, Says, Core, CoreGoes, Limit, Second
  <2>3. Text(core', k_devs', this') = Text(core, k_devs, this) \o limit
    BY <2>1, <2>2 DEF Text
  <2>4. Next1
    BY <2>2, <2>3, ToldSays
  <2> QED BY <2>2, <2>4 DEF Told
<1>11. CASE Putc \/ PutcStatement
  BY <1>11, ToldPutc
<1>12. CASE KeyPress
  BY <1>12, ToldPress
<1>13. CASE UNCHANGED vars
  BY <1>13 DEF Told, vars
<1> QED BY <1>3, <1>4, <1>5, <1>6, <1>7, <1>8, <1>9, <1>10, <1>11, <1>12, <1>13 DEF Next, Loop

\* The lines of two drives and of two limits, piece by piece.
LEMMA Pieces ==
  ASSUME NEW s \in Seq(Char), NEW a \in Seq(Char), NEW b \in Seq(Char), NEW n \in Seq(Char),
         NEW m \in Seq(Char), NEW z \in Seq(Char)
  PROVE  Cat(Cat(Cat(s, Cat(a, b)), Cat(n, z)), Cat(m, z))
           = Cat(Cat(Cat(Cat(Cat(Cat(s, a), b), n), z), m), z)
<1>1. PICK x \in Seq(Char) : x = Cat(Cat(s, a), b)
  <2>1. Cat(s, a) \in Seq(Char)
    BY CatType
  <2> QED BY <2>1, CatType
<1>2. PICK y \in Seq(Char) : y = Cat(Cat(x, n), z)
  <2>1. Cat(x, n) \in Seq(Char)
    BY CatType
  <2> QED BY <2>1, CatType
<1>3. Cat(s, Cat(a, b)) = x /\ Cat(x, Cat(n, z)) = y
  BY <1>1, <1>2, CatGrouped
<1>4. Cat(y, Cat(m, z)) = Cat(Cat(y, m), z)
  BY CatGrouped
<1> QED BY <1>1, <1>2, <1>3, <1>4

\* The core process prints every drive the CMOS reports, the last one first, with
\* its own type and the name of that type, whatever press() prints in between and
\* whatever the limits are (DrivesReported of the runs): register_device() puts a
\* drive before the others, and do_printf() writes each field of its record.
THEOREM ConsoleDrives == Spec => []DrivesReported
<1>1. ASSUME Typed, Told PROVE DrivesReported
  <2> SUFFICES ASSUME Core("loop")
               PROVE  FoldLeft(Heard, <<>>, stream)
                        = Note \o Note \o Note \o Of(1, cmos % 16) \o Of(0, cmos \div 16)
                            \o Numeral(BrkMax, 16, LowDigits) \o <<NL>>
                            \o Numeral(Second, 16, LowDigits) \o <<NL>>
    BY DEF DrivesReported, Second
  <2>1. core = "loop" /\ todo = <<>> /\ at = 0
    BY <1>1 DEF Core, Typed
  <2>2. PICK h \in Seq(Char) : h = FoldLeft(Heard, <<>>, stream)
    BY <1>1, HeardIs DEF Typed
  <2>3. h = Text(core, k_devs, this)
    <3>1. h \o <<>> = h
      OBVIOUS
    <3> QED BY <1>1, <2>1, <2>2, <3>1 DEF Told, Rest
  <2>4. cmos \div 16 \in 0 .. 4 /\ cmos % 16 \in 0 .. 4
    BY <1>1, ConsoleAssumption DEF Typed
  <2>5. PICK a \in Seq(Char) : a = Of(1, cmos % 16)
    <3>1. cmos % 16 # 0 => FloppyLine(Drive(1, cmos % 16)) = LineOf(1, cmos % 16)
      BY <2>4, DriveLine
    <3>2. cmos % 16 # 0 => FloppyLine(Drive(1, cmos % 16)) \in Seq(Char)
      BY <2>4, FloppyLineType, RegisterType DEF Drive
    <3>3. <<>> \in Seq(Char)
      OBVIOUS
    <3>4. Of(1, cmos % 16) \in Seq(Char)
      BY <3>1, <3>2, <3>3 DEF Of
    <3> QED BY <3>4
  <2>6. PICK b \in Seq(Char) : b = Of(0, cmos \div 16)
    <3>1. cmos \div 16 # 0 => FloppyLine(Drive(0, cmos \div 16)) = LineOf(0, cmos \div 16)
      BY <2>4, DriveLine
    <3>2. cmos \div 16 # 0 => FloppyLine(Drive(0, cmos \div 16)) \in Seq(Char)
      BY <2>4, FloppyLineType, RegisterType DEF Drive
    <3>3. <<>> \in Seq(Char)
      OBVIOUS
    <3>4. Of(0, cmos \div 16) \in Seq(Char)
      BY <3>1, <3>2, <3>3 DEF Of
    <3> QED BY <3>4
  <2>7. Reported(k_devs, this - 1) = a \o b
    <3>1. k_devs = Drives(1, cmos % 16) \o Drives(0, cmos \div 16) /\ this = Len(k_devs) + 1
      BY <1>1, <2>1 DEF Told
    <3>2. Len(k_devs) \in 0 .. 2 /\ Reported(k_devs, Len(k_devs)) = a \o b
      BY <2>4, <2>5, <2>6, <3>1, AllReported
    <3>3. this - 1 = Len(k_devs)
      BY <3>1, <3>2
    <3> QED BY <3>2, <3>3
  <2>8. PICK notes \in Seq(Char) : notes = (Note \o Note) \o Note
    <3>1. (Note \o Note) \o Note \in Seq(Char)
      BY ConsoleAssumption, ConcatProperties
    <3> QED BY <3>1
  <2>9. BrkMax \in 0 .. LongMod - 1 /\ Second \in 0 .. LongMod - 1
    <3>1. LongMod \in Nat /\ LongMod > 10 /\ BrkMax \in 0 .. LongMod - 1 /\ PageSize \in Nat
      BY PrintfAssumption, ConsoleAssumption, FormatsAssumption
    <3>2. PICK i \in Int : i = BrkMax - PageSize
      BY <3>1
    <3>3. i % LongMod \in 0 .. LongMod - 1
      BY <3>1, Z3
    <3> QED BY <3>1, <3>2, <3>3 DEF Second
  <2>10. PICK n \in Seq(Char) : n = Numeral(BrkMax, 16, LowDigits)
    BY <2>9, LimitLine
  <2>11. PICK m \in Seq(Char) : m = Numeral(Second, 16, LowDigits)
    BY <2>9, LimitLine
  <2>12. PICK z \in Seq(Char) : z = <<NL>>
    <3>1. <<NL>> \in Seq(Char)
      BY FloppyChars
    <3> QED BY <3>1
  <2>13. Limit(BrkMax) = n \o z /\ Limit(Second) = m \o z
    BY <2>9, <2>10, <2>11, <2>12, LimitLine
  <2>14. h = Cat(Cat(Cat(notes, Cat(a, b)), Cat(n, z)), Cat(m, z))
    BY <2>1, <2>3, <2>7, <2>8, <2>13 DEF Text, Cat
  <2>15. h = Cat(Cat(Cat(Cat(Cat(Cat(notes, a), b), n), z), m), z)
    BY SMTT(30), <2>14, Pieces
  <2>16. h = notes \o a \o b \o n \o z \o m \o z
    BY <2>15 DEF Cat
  <2> QED BY <2>2, <2>5, <2>6, <2>8, <2>10, <2>11, <2>12, <2>16
<1>2. ASSUME Typed, Told, [Next]_vars PROVE Typed' /\ Told'
  BY <1>2, TypedStep, ToldStep
<1> QED BY <1>1, <1>2, TypedInit, ToldInit, PTL DEF Spec
=============================================================================
