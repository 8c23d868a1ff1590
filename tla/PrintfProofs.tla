----------------------------- MODULE PrintfProofs -----------------------------
(***************************************************************************)
(* do_printf() prints what its head comment promises, for every width and  *)
(* every word of an unsigned long: the digits that NumDigits builds are    *)
(* the numeral of the number, EMIT puts them in the field asked for, and   *)
(* the scanner leaves nothing of a conversion behind.                      *)
(***************************************************************************)
EXTENDS ConsoleProperties, Induction, SequenceTheorems, TLAPS

Product == INSTANCE Folding WITH Op <- Times

-----------------------------------------------------------------------------
(* Numerals *)

\* Powers.
LEMMA PowerIs ==
  ASSUME NEW b \in Nat
  PROVE  /\ Power(b, 0) = 1
         /\ \A n \in Nat : Power(b, n + 1) = Power(b, n) * b
<1>1. \A n : Power(b, n) = Product!Folded(1, [i \in 1 .. n |-> b])
  BY DEF Power, Product!Folded, FoldLeft, Product!FoldLeft,
         MapThenFoldSet, Product!MapThenFoldSet, Max, Product!Max
<1>2. ASSUME NEW n \in Nat PROVE Power(b, n + 1) = Power(b, n) * b
  <2>1. PICK k \in Nat : k = n + 1
    OBVIOUS
  <2>2. PICK s : s = [i \in 1 .. n |-> b]
    OBVIOUS
  <2>3. PICK z : z = [i \in 1 .. k |-> b]
    OBVIOUS
  <2>4. s \in Seq(Nat) /\ Len(s) = n /\ z \in Seq(Nat) /\ Len(z) = k
    <3>1. s \in [1 .. n -> Nat] /\ z \in [1 .. k -> Nat]
      BY <2>2, <2>3
    <3> QED BY <3>1, SeqDef
  <2>5. z = Append(s, b)
    <3>1. Append(s, b) \in Seq(Nat) /\ Len(Append(s, b)) = k
      BY <2>1, <2>4
    <3>2. \A i \in 1 .. k : Append(s, b)[i] = b
      BY <2>1, <2>2, <2>4
    <3>3. \A i \in 1 .. k : z[i] = b
      BY <2>3
    <3> QED BY <2>4, <3>1, <3>2, <3>3, SeqEqual
  <2>6. Product!Folded(1, z) = Times(Product!Folded(1, s), b)
    BY <2>4, <2>5, Product!FoldAppend
  <2> QED BY <1>1, <2>1, <2>2, <2>3, <2>6 DEF Times
<1>3. Power(b, 0) = 1
  <2>1. [i \in 1 .. 0 |-> b] = <<>>
    OBVIOUS
  <2> QED BY <1>1, <2>1, Product!FoldEmpty
<1> QED BY <1>2, <1>3

\* A power of a positive number is a positive number, and grows with n.
LEMMA PowerType ==
  ASSUME NEW b \in Nat, b > 1
  PROVE  /\ \A n \in Nat : Power(b, n) \in Nat \ {0}
         /\ \A n, m \in Nat : n <= m => Power(b, n) <= Power(b, m)
<1> DEFINE S == {n \in Nat : Power(b, n) \in Nat \ {0}}
<1>1. 0 \in S
  BY PowerIs
<1>2. ASSUME NEW n \in Nat, n \in S PROVE n + 1 \in S
  <2>1. PICK p \in Nat \ {0} : p = Power(b, n)
    BY <1>2
  <2>2. p * b \in Nat \ {0}
    OBVIOUS
  <2> QED BY <2>1, <2>2, PowerIs
<1>3. Nat \subseteq S
  <2> HIDE DEF S
  <2> QED BY <1>1, <1>2, SetInduction
<1>4. ASSUME NEW n \in Nat, NEW m \in Nat, n <= m PROVE Power(b, n) <= Power(b, m)
  <2> DEFINE G == {k \in Nat : Power(b, n) <= Power(b, n + k)}
  <2>1. 0 \in G
    <3>1. Power(b, n) \in Nat /\ n + 0 = n
      BY <1>3
    <3> QED BY <3>1
  <2>2. ASSUME NEW k \in Nat, k \in G PROVE k + 1 \in G
    <3>1. PICK p \in Nat \ {0} : p = Power(b, n + k)
      BY <1>3
    <3>2. p * b >= p
      BY Z3
    <3>3. Power(b, n + (k + 1)) = p * b
      <4>1. PICK j \in Nat : j = n + k
        OBVIOUS
      <4>2. n + (k + 1) = j + 1
        BY <4>1
      <4> QED BY <3>1, <4>1, <4>2, PowerIs
    <3>4. PICK a \in Nat : a = Power(b, n)
      BY <1>3
    <3>5. PICK c \in Nat : c = p * b
      OBVIOUS
    <3>6. a <= p
      BY <2>2, <3>1, <3>4
    <3> QED BY <3>2, <3>3, <3>4, <3>5, <3>6
  <2>3. Nat \subseteq G
    <3> HIDE DEF G
    <3> QED BY <2>1, <2>2, SetInduction
  <2>4. m - n \in Nat /\ n + (m - n) = m
    BY <1>4
  <2> QED BY <2>3, <2>4
<1> QED BY <1>3, <1>4

\* Quotient and remainder.
LEMMA Quotient ==
  ASSUME NEW v \in Nat, NEW r \in Nat \ {0}
  PROVE  v \div r \in Nat /\ v % r \in 0 .. r - 1 /\ v = r * (v \div r) + (v % r)
BY Z3

\* Dividing twice.
LEMMA DivDiv ==
  ASSUME NEW v \in Nat, NEW r \in Nat \ {0}, NEW p \in Nat \ {0}
  PROVE  (v \div r) \div p = v \div (r * p)
<1>1. /\ v \div r \in Nat /\ v % r \in 0 .. r - 1
      /\ v = r * (v \div r) + (v % r)
  BY Quotient
<1>2. PICK q \in Nat : q = v \div r
  BY <1>1
<1>3. PICK m \in 0 .. r - 1 : m = v % r
  BY <1>1
<1>4. /\ q \div p \in Nat /\ q % p \in 0 .. p - 1
      /\ q = p * (q \div p) + (q % p)
  BY Z3
<1>5. PICK a \in Nat : a = q \div p
  BY <1>4
<1>6. PICK b \in 0 .. p - 1 : b = q % p
  BY <1>4
<1>7. PICK d \in Nat : d = r * b + m
  OBVIOUS
<1>8. PICK e \in Nat \ {0} : e = r * p
  BY Z3
<1>9. v = e * a + d
  <2>1. v = r * q + m /\ q = p * a + b
    BY <1>1, <1>2, <1>3, <1>4, <1>5, <1>6
  <2> QED BY <1>7, <1>8, <2>1
<1>10. d < e
  <2>1. r * b <= r * (p - 1)
    BY Z3
  <2>2. r * (p - 1) = e - r
    BY <1>8
  <2> QED BY <1>7, <2>1, <2>2
<1>11. v \div e = a
  BY <1>9, <1>10, Z3
<1> QED BY <1>1, <1>2, <1>5, <1>8, <1>11

\* The values that the recursive function of NumDigits has on 0 .. m.
Digit(g, n, radix, table) ==
  IF n < radix THEN <<table[n + 1]>> ELSE Append(g[n \div radix], table[(n % radix) + 1])
Digitised(g, m, radix, table) == g = [n \in 0 .. m |-> Digit(g, n, radix, table)]

\* Such a function exists, since the digits of n are those of a smaller number
\* and one more.
LEMMA DigitisedExists ==
  ASSUME NEW radix \in Nat \ {0, 1}, NEW table
  PROVE  \A m \in Nat : \E g : Digitised(g, m, radix, table)
<1> DEFINE S == {m \in Nat : \E g : Digitised(g, m, radix, table)}
<1>1. 0 \in S
  <2> DEFINE g == [n \in 0 .. 0 |-> <<table[n + 1]>>]
  <2>1. [n \in 0 .. 0 |-> Digit(g, n, radix, table)] = [n \in 0 .. 0 |-> <<table[n + 1]>>]
    <3>1. \A n \in 0 .. 0 : Digit(g, n, radix, table) = <<table[n + 1]>>
      BY DEF Digit
    <3> HIDE DEF g
    <3> QED BY <3>1
  <2>2. Digitised(g, 0, radix, table)
    BY <2>1 DEF Digitised
  <2> HIDE DEF g
  <2> QED BY <2>2
<1>2. ASSUME NEW m \in Nat, m \in S PROVE m + 1 \in S
  <2>1. PICK g : Digitised(g, m, radix, table)
    BY <1>2
  <2> DEFINE h == [n \in 0 .. m + 1 |-> Digit(g, n, radix, table)]
  <2>2. \A n \in 0 .. m : h[n] = g[n]
    <3>1. \A n \in 0 .. m : g[n] = Digit(g, n, radix, table)
      BY <2>1 DEF Digitised
    <3>2. \A n \in 0 .. m : n \in 0 .. m + 1
      OBVIOUS
    <3> QED BY <3>1, <3>2
  <2>3. ASSUME NEW n \in 0 .. m + 1 PROVE h[n] = Digit(h, n, radix, table)
    <3>1. CASE n < radix
      BY <3>1 DEF Digit
    <3>2. CASE ~(n < radix)
      <4>1. n \div radix \in 0 .. m
        BY <3>2, Z3
      <4>2. h[n \div radix] = g[n \div radix]
        BY <2>2, <4>1
      <4>3. h[n] = Digit(g, n, radix, table)
        OBVIOUS
      <4> HIDE DEF h
      <4> QED BY <3>2, <4>2, <4>3 DEF Digit
    <3> QED BY <3>1, <3>2
  <2>4. h = [n \in 0 .. m + 1 |-> h[n]]
    OBVIOUS
  <2> HIDE DEF h
  <2>5. Digitised(h, m + 1, radix, table)
    BY <2>3, <2>4 DEF Digitised
  <2> QED BY <2>5
<1>3. Nat \subseteq S
  <2> HIDE DEF S
  <2> QED BY <1>1, <1>2, SetInduction
<1> QED BY <1>3

\* The digits of a number: those of the quotient, and one for the remainder.
LEMMA NumDigitsIs ==
  ASSUME NEW radix \in Nat \ {0, 1}, NEW table, NEW n \in 0 .. LongMod - 1
  PROVE  NumDigits(n, radix, table)
           = IF n < radix THEN <<table[n + 1]>>
             ELSE Append(NumDigits(n \div radix, radix, table), table[(n % radix) + 1])
<1> DEFINE d == CHOOSE g : Digitised(g, LongMod - 1, radix, table)
<1>1. LongMod - 1 \in Nat
  BY PrintfAssumption, FormatsAssumption
<1>2. Digitised(d, LongMod - 1, radix, table)
  BY <1>1, DigitisedExists
<1>3. \A v : NumDigits(v, radix, table) = d[v]
  BY DEF NumDigits, Digitised, Digit
<1> HIDE DEF d
<1>4. d[n] = Digit(d, n, radix, table)
  BY <1>2 DEF Digitised
<1> QED BY <1>3, <1>4 DEF Digit

\* A table that holds an element of E for every digit of the radix.
Table(E, table, radix) == \A i \in 1 .. radix : table[i] \in E

\* Digits are taken from the table, and there is at least one.
LEMMA NumDigitsType ==
  ASSUME NEW radix \in Nat \ {0, 1}, NEW table, NEW E, Table(E, table, radix)
  PROVE  \A n \in 0 .. LongMod - 1 : /\ NumDigits(n, radix, table) \in Seq(E)
                                     /\ NumDigits(n, radix, table) # <<>>
<1> DEFINE P(n) == /\ NumDigits(n, radix, table) \in Seq(E)
                   /\ NumDigits(n, radix, table) # <<>>
           S == {m \in Nat : \A n \in 0 .. m : n < LongMod => P(n)}
<1>0. LongMod \in Nat
  BY PrintfAssumption
<1>1. ASSUME NEW n \in 0 .. LongMod - 1, n < radix PROVE P(n)
  <2>1. NumDigits(n, radix, table) = <<table[n + 1]>>
    BY <1>1, NumDigitsIs
  <2>2. PICK i \in 1 .. radix : i = n + 1
    BY <1>0, <1>1
  <2>3. table[i] \in E
    BY DEF Table
  <2> QED BY <2>1, <2>2, <2>3
<1>2. ASSUME NEW n \in 0 .. LongMod - 1, ~(n < radix), P(n \div radix) PROVE P(n)
  <2>1. NumDigits(n, radix, table)
          = Append(NumDigits(n \div radix, radix, table), table[(n % radix) + 1])
    BY <1>2, NumDigitsIs
  <2>2. PICK i \in 1 .. radix : i = (n % radix) + 1
    <3>1. PICK m \in 0 .. radix - 1 : m = n % radix
      <4>1. n \in Nat /\ radix \in Nat \ {0}
        BY <1>0
      <4> QED BY <4>1, Quotient
    <3>2. m + 1 \in 1 .. radix
      OBVIOUS
    <3> QED BY <3>1, <3>2
  <2>3. table[i] \in E
    BY DEF Table
  <2>4. PICK d \in Seq(E) : d = NumDigits(n \div radix, radix, table)
    BY <1>2
  <2>5. Append(d, table[i]) \in Seq(E) /\ Append(d, table[i]) # <<>>
    BY <2>3
  <2> QED BY <2>1, <2>2, <2>4, <2>5
<1>3. 0 \in S
  <2>1. \A n \in 0 .. 0 : n < radix
    OBVIOUS
  <2> HIDE DEF P
  <2> QED BY <1>0, <1>1, <2>1
<1>4. ASSUME NEW m \in Nat, m \in S PROVE m + 1 \in S
  <2>1. ASSUME NEW n \in 0 .. m + 1, n < LongMod PROVE P(n)
    <3>1. CASE n < radix
      <4> HIDE DEF P
      <4> QED BY <1>0, <1>1, <2>1, <3>1
    <3>2. CASE ~(n < radix)
      <4>1. n \div radix \in 0 .. m /\ n \div radix < n
        BY <3>2, Z3
      <4>2. PICK q \in 0 .. m : q = n \div radix
        BY <4>1
      <4> HIDE DEF P
      <4>3. P(q)
        BY <1>0, <1>4, <2>1, <4>1, <4>2
      <4> QED BY <1>0, <1>2, <2>1, <3>2, <4>2, <4>3
    <3> QED BY <3>1, <3>2
  <2> HIDE DEF P
  <2> QED BY <2>1
<1>5. Nat \subseteq S
  <2> HIDE DEF S
  <2> QED BY <1>3, <1>4, SetInduction
<1> HIDE DEF P
<1>6. \A n \in 0 .. LongMod - 1 : P(n)
  BY <1>0, <1>5
<1> QED BY <1>6 DEF P

\* k digits are enough for v, and fewer are not.
Takes(k, v, radix) ==
  k \in 1 .. 16 /\ Power(radix, k) > v /\ (k > 1 => Power(radix, k - 1) <= v)

\* The number of digits of a numeral is the one that the definition chooses.
LEMMA NumeralIs ==
  ASSUME NEW radix \in Nat \ {0, 1}, NEW table, NEW v \in Nat, NEW k, Takes(k, v, radix)
  PROVE  Numeral(v, radix, table)
           = [i \in 1 .. k |-> table[((v \div Power(radix, k - i)) % radix) + 1]]
<1> DEFINE c == CHOOSE n \in 1 .. 16 : Power(radix, n) > v /\ (n > 1 => Power(radix, n - 1) <= v)
<1>1. c \in 1 .. 16 /\ Power(radix, c) > v /\ (c > 1 => Power(radix, c - 1) <= v)
  BY DEF Takes
<1>2. Numeral(v, radix, table)
        = [i \in 1 .. c |-> table[((v \div Power(radix, c - i)) % radix) + 1]]
  BY DEF Numeral
<1> HIDE DEF c
<1>3. ASSUME NEW a \in 1 .. 16, NEW b \in 1 .. 16, a < b,
             Power(radix, a) > v, b > 1 => Power(radix, b - 1) <= v
      PROVE  FALSE
  <2>1. a <= b - 1 /\ b - 1 \in Nat /\ a \in Nat
    BY <1>3
  <2>2. Power(radix, a) <= Power(radix, b - 1)
    BY <2>1, PowerType
  <2>3. Power(radix, a) \in Nat /\ Power(radix, b - 1) \in Nat
    BY <2>1, PowerType
  <2> QED BY <1>3, <2>1, <2>2, <2>3
<1>4. c = k
  <2>1. ~(c < k) /\ ~(k < c)
    BY <1>1, <1>3 DEF Takes
  <2> QED BY <1>1, <2>1 DEF Takes
<1> QED BY <1>2, <1>4

\* Every number that sixteen digits hold takes some number of them.
LEMMA TakesSome ==
  ASSUME NEW radix \in Nat \ {0, 1}, NEW v \in Nat, Power(radix, 16) > v
  PROVE  \E k \in 1 .. 16 : Takes(k, v, radix)
<1> SUFFICES ASSUME \A k \in 1 .. 16 : ~Takes(k, v, radix) PROVE FALSE
  OBVIOUS
<1> DEFINE S == {n \in Nat : n \in 1 .. 16 => Power(radix, n) <= v}
<1>1. 0 \in S
  OBVIOUS
<1>2. ASSUME NEW n \in Nat, n \in S PROVE n + 1 \in S
  <2>1. CASE n + 1 \in 1 .. 16
    <3>1. ~Takes(n + 1, v, radix)
      BY <2>1
    <3>2. n + 1 > 1 => Power(radix, (n + 1) - 1) <= v
      BY <1>2, <2>1
    <3>3. Power(radix, n + 1) \in Nat
      <4>1. n + 1 \in Nat /\ radix \in Nat /\ radix > 1
        OBVIOUS
      <4> QED BY <4>1, PowerType
    <3> QED BY <2>1, <3>1, <3>2, <3>3 DEF Takes
  <2> QED BY <2>1
<1>3. Nat \subseteq S
  <2> HIDE DEF S
  <2> QED BY <1>1, <1>2, SetInduction
<1>4. Power(radix, 16) <= v /\ Power(radix, 16) \in Nat
  BY <1>3, PowerType
<1> QED BY <1>4

\* The numeral of a number that has a quotient.
LEMMA NumeralStep ==
  ASSUME NEW radix \in Nat \ {0, 1}, NEW table, NEW k \in Nat \ {0}, NEW v \in Nat,
         Takes(k + 1, v, radix)
  PROVE  /\ ~(v < radix) /\ Takes(k, v \div radix, radix)
         /\ Numeral(v, radix, table)
              = Append(Numeral(v \div radix, radix, table), table[(v % radix) + 1])
<1>1. PICK q \in Nat : q = v \div radix
  BY Quotient
<1>2. PICK m \in 0 .. radix - 1 : m = v % radix
  BY Quotient
<1>3. v = radix * q + m
  BY <1>1, <1>2, Quotient
<1>4. k \in 1 .. 16 /\ Power(radix, k + 1) > v /\ Power(radix, k) <= v
  BY DEF Takes
<1>5. PICK p \in Nat \ {0} : p = Power(radix, k)
  BY PowerType
<1>6. Power(radix, k + 1) = p * radix
  BY <1>5, PowerIs
<1>7. Power(radix, 1) = radix
  <2>1. Power(radix, 0 + 1) = Power(radix, 0) * radix
    BY PowerIs
  <2> QED BY <2>1, PowerIs
<1>8. ~(v < radix)
  <2>1. Power(radix, 1) <= Power(radix, k)
    BY PowerType
  <2> QED BY <1>4, <1>5, <1>7, <2>1
<1>9. p > q
  <2>1. p * radix > radix * q + m
    BY <1>3, <1>4, <1>6
  <2>2. ASSUME p <= q PROVE FALSE
    <3>1. p * radix <= radix * q
      BY <2>2, Z3
    <3>2. PICK a \in Nat : a = p * radix
      OBVIOUS
    <3>3. PICK b \in Nat : b = radix * q
      OBVIOUS
    <3> QED BY <2>1, <3>1, <3>2, <3>3
  <2> QED BY <2>2
<1>10. k > 1 => Power(radix, k - 1) <= q
  <2> SUFFICES ASSUME k > 1 PROVE Power(radix, k - 1) <= q
    OBVIOUS
  <2>1. PICK j \in Nat : j + 1 = k
    <3>1. k - 1 \in Nat /\ (k - 1) + 1 = k
      OBVIOUS
    <3> QED BY <3>1
  <2>2. PICK e \in Nat \ {0} : e = Power(radix, j)
    BY PowerType
  <2>3. p = e * radix
    BY <1>5, <2>1, <2>2, PowerIs
  <2>4. e * radix <= radix * q + m
    BY <1>3, <1>4, <1>5, <2>3
  <2>5. ASSUME e > q PROVE FALSE
    <3>1. e * radix >= radix * q + radix
      BY <2>5, Z3
    <3>2. PICK a \in Nat : a = e * radix
      OBVIOUS
    <3>3. PICK b \in Nat : b = radix * q
      OBVIOUS
    <3> QED BY <2>4, <3>1, <3>2, <3>3
  <2>6. k - 1 = j
    BY <2>1
  <2> QED BY <2>2, <2>5, <2>6
<1>11. Takes(k, q, radix)
  BY <1>4, <1>5, <1>9, <1>10 DEF Takes
<1>12. PICK l \in Nat : l = k + 1
  OBVIOUS
<1>13. PICK N : N = Numeral(v, radix, table)
  OBVIOUS
<1>14. PICK Q : Q = Numeral(q, radix, table)
  OBVIOUS
<1>15. N = [i \in 1 .. l |-> table[((v \div Power(radix, l - i)) % radix) + 1]]
  BY <1>12, <1>13, NumeralIs
<1>16. Q = [i \in 1 .. k |-> table[((q \div Power(radix, k - i)) % radix) + 1]]
  BY <1>11, <1>14, NumeralIs
<1>17. ASSUME NEW i \in 1 .. k PROVE N[i] = Q[i]
  <2>1. PICK j \in Nat : j = k - i
    OBVIOUS
  <2>2. PICK e \in Nat \ {0} : e = Power(radix, j)
    BY PowerType
  <2>3. l - i = j + 1 /\ i \in 1 .. l
    BY <1>12, <2>1
  <2>4. Power(radix, l - i) = radix * e
    BY <2>2, <2>3, PowerIs
  <2>5. q \div e = v \div (radix * e)
    <3>1. (v \div radix) \div e = v \div (radix * e)
      <4>1. radix \in Nat \ {0}
        OBVIOUS
      <4> QED BY <4>1, DivDiv
    <3> QED BY <1>1, <3>1
  <2>6. N[i] = table[((v \div (radix * e)) % radix) + 1]
    BY <1>15, <2>3, <2>4
  <2>7. Q[i] = table[((q \div e) % radix) + 1]
    BY <1>16, <2>1, <2>2
  <2> QED BY <2>5, <2>6, <2>7
<1>18. N[l] = table[(v % radix) + 1]
  <2>1. l - l = 0 /\ l \in 1 .. l
    BY <1>12
  <2>2. N[l] = table[((v \div Power(radix, 0)) % radix) + 1]
    BY <1>15, <2>1
  <2>3. v \div 1 = v
    OBVIOUS
  <2> QED BY <2>2, <2>3, PowerIs
<1> DEFINE E == {table[i] : i \in 1 .. radix}
<1>19. N \in Seq(E) /\ Len(N) = l /\ Q \in Seq(E) /\ Len(Q) = k
  <2>1. ASSUME NEW n \in Nat PROVE table[(n % radix) + 1] \in E
    <3>1. PICK i \in 0 .. radix - 1 : i = n % radix
      BY Quotient
    <3>2. i + 1 \in 1 .. radix
      OBVIOUS
    <3> QED BY <3>1, <3>2
  <2>2. ASSUME NEW j \in Nat, NEW w \in Nat PROVE w \div Power(radix, j) \in Nat
    <3>1. PICK e \in Nat \ {0} : e = Power(radix, j)
      BY PowerType
    <3> QED BY <3>1, Quotient
  <2> HIDE DEF E
  <2>3. N \in [1 .. l -> E]
    <3>1. \A i \in 1 .. l : l - i \in Nat
      BY <1>12
    <3>2. \A i \in 1 .. l : table[((v \div Power(radix, l - i)) % radix) + 1] \in E
      BY <2>1, <2>2, <3>1
    <3> QED BY <1>15, <3>2
  <2>4. Q \in [1 .. k -> E]
    <3>1. \A i \in 1 .. k : k - i \in Nat
      OBVIOUS
    <3>2. \A i \in 1 .. k : table[((q \div Power(radix, k - i)) % radix) + 1] \in E
      BY <2>1, <2>2, <3>1
    <3> QED BY <1>16, <3>2
  <2> QED BY <2>3, <2>4, SeqDef
<1>20. PICK z : z = Append(Q, table[(v % radix) + 1])
  OBVIOUS
<1>21. z = N
  <2>1. table[(v % radix) + 1] \in E
    BY <1>2
  <2> HIDE DEF E
  <2>2. z \in Seq(E) /\ Len(z) = l
    BY <1>12, <1>19, <1>20, <2>1
  <2>3. \A i \in 1 .. l : z[i] = N[i]
    BY <1>12, <1>17, <1>18, <1>19, <1>20
  <2> QED BY <1>19, <2>2, <2>3, SeqEqual
<1> QED BY <1>1, <1>8, <1>11, <1>13, <1>14, <1>20, <1>21

\* A number of one digit.
LEMMA OneDigit ==
  ASSUME NEW radix \in Nat \ {0, 1}, NEW table, NEW v \in Nat, NEW k \in 1 .. 1, Takes(k, v, radix)
  PROVE  v < radix /\ Numeral(v, radix, table) = <<table[v + 1]>>
<1>1. k = 1 /\ radix > 1 /\ radix \in Nat
  OBVIOUS
<1>2. Power(radix, k) = radix /\ Power(radix, 0) = 1
  <2>1. Power(radix, 0 + 1) = Power(radix, 0) * radix
    BY <1>1, PowerIs
  <2> QED BY <1>1, <2>1, PowerIs
<1>3. v < radix
  BY <1>2 DEF Takes
<1>4. PICK n : n = Numeral(v, radix, table)
  OBVIOUS
<1>5. n = [i \in 1 .. k |-> table[((v \div Power(radix, k - i)) % radix) + 1]]
  <2>1. ASSUME NEW j, Takes(j, v, radix)
        PROVE  n = [i \in 1 .. j |-> table[((v \div Power(radix, j - i)) % radix) + 1]]
    BY <1>4, <2>1, NumeralIs
  <2> QED BY <2>1
<1>6. ((v \div 1) % radix) = v
  BY <1>3, Z3
<1>7. \A i \in 1 .. k : k - i = 0
  OBVIOUS
<1>8. n = [i \in 1 .. k |-> table[v + 1]]
  <2>1. \A i \in 1 .. k : ((v \div Power(radix, k - i)) % radix) + 1 = v + 1
    BY <1>2, <1>6, <1>7
  <2> QED BY <1>5, <2>1
<1>9. [i \in 1 .. 1 |-> table[v + 1]] = <<table[v + 1]>>
  OBVIOUS
<1> QED BY <1>1, <1>3, <1>4, <1>8, <1>9

\* The loop of DO_NUM writes the numeral, whatever the number of its digits.
LEMMA NumDigitsTakes ==
  ASSUME NEW radix \in Nat \ {0, 1}, NEW table
  PROVE  \A k \in Nat : \A v \in 0 .. LongMod - 1 :
           Takes(k, v, radix) => NumDigits(v, radix, table) = Numeral(v, radix, table)
<1> DEFINE P(k) == \A v \in 0 .. LongMod - 1 :
                     Takes(k, v, radix) => NumDigits(v, radix, table) = Numeral(v, radix, table)
           S == {k \in Nat : P(k)}
<1>0. LongMod \in Nat /\ radix \in Nat \ {0} /\ radix \in Nat /\ radix > 1
  BY PrintfAssumption
<1>1. P(0)
  <2>1. \A v : ~Takes(0, v, radix)
    BY DEF Takes
  <2> QED BY <2>1
<1>2. P(1)
  <2> SUFFICES ASSUME NEW v \in 0 .. LongMod - 1, Takes(1, v, radix)
               PROVE  NumDigits(v, radix, table) = Numeral(v, radix, table)
    OBVIOUS
  <2>1. v \in Nat
    BY <1>0
  <2>2. PICK k \in 1 .. 1 : Takes(k, v, radix)
    OBVIOUS
  <2>3. v < radix /\ Numeral(v, radix, table) = <<table[v + 1]>>
    BY <2>1, <2>2, OneDigit
  <2> QED BY <2>3, NumDigitsIs
<1>3. ASSUME NEW k \in Nat \ {0}, P(k) PROVE P(k + 1)
  <2> SUFFICES ASSUME NEW v \in 0 .. LongMod - 1, Takes(k + 1, v, radix)
               PROVE  NumDigits(v, radix, table) = Numeral(v, radix, table)
    OBVIOUS
  <2>1. v \in Nat
    BY <1>0
  <2>2. /\ ~(v < radix) /\ Takes(k, v \div radix, radix)
        /\ Numeral(v, radix, table)
             = Append(Numeral(v \div radix, radix, table), table[(v % radix) + 1])
    BY <2>1, NumeralStep
  <2>3. PICK q \in Nat : q = v \div radix
    BY <1>0, <2>1, Quotient
  <2>4. q \in 0 .. LongMod - 1
    <3>1. q <= v
      BY <1>0, <2>1, <2>3, Z3
    <3> QED BY <3>1, <1>0
  <2>5. NumDigits(q, radix, table) = Numeral(q, radix, table)
    BY <1>3, <2>2, <2>3, <2>4
  <2>6. NumDigits(v, radix, table)
          = Append(NumDigits(v \div radix, radix, table), table[(v % radix) + 1])
    BY <2>2, NumDigitsIs
  <2> QED BY <2>2, <2>3, <2>5, <2>6
<1>4. \A k \in S : k + 1 \in S
  <2>1. ASSUME NEW k \in S PROVE k + 1 \in S
    <3>1. CASE k = 0
      <4>1. k + 1 = 1
        BY <3>1
      <4> HIDE DEF P
      <4> QED BY <1>2, <4>1
    <3>2. CASE k # 0
      <4> HIDE DEF P
      <4> QED BY <1>3, <3>2
    <3> QED BY <3>1, <3>2
  <2> QED BY <2>1
<1>5. Nat \subseteq S
  <2> HIDE DEF P
  <2>1. 0 \in S
    BY <1>1
  <2> HIDE DEF S
  <2> QED BY <1>4, <2>1, SetInduction
<1> QED BY <1>5

\* Sixteen octal digits hold every unsigned long, and so do larger digits.
LEMMA SixteenDigits ==
  ASSUME NEW radix \in {8, 10, 16}
  PROVE  LongMod <= Power(radix, 16)
<1>1. radix \in Nat /\ radix > 1 /\ radix >= 8
  OBVIOUS
<1>2. ASSUME NEW n \in Nat, NEW b \in Nat, Power(radix, n) >= b
      PROVE  Power(radix, n + 1) >= 8 * b
  <2>1. PICK p \in Nat \ {0} : p = Power(radix, n)
    BY <1>1, PowerType
  <2>2. p * radix >= 8 * p
    BY <1>1, <2>1
  <2>3. Power(radix, n + 1) = p * radix
    BY <1>1, <2>1, PowerIs
  <2> QED BY <1>2, <2>1, <2>2, <2>3
<1>3. Power(radix, 0) >= 1
  BY <1>1, PowerIs
<1>4. Power(radix, 1) >= 8
  BY <1>2, <1>3
<1>5. Power(radix, 2) >= 64
  BY <1>2, <1>4
<1>6. Power(radix, 3) >= 512
  BY <1>2, <1>5
<1>7. Power(radix, 4) >= 4096
  BY <1>2, <1>6
<1>8. Power(radix, 5) >= 32768
  BY <1>2, <1>7
<1>9. Power(radix, 6) >= 262144
  BY <1>2, <1>8
<1>10. Power(radix, 7) >= 2097152
  BY <1>2, <1>9
<1>11. Power(radix, 8) >= 16777216
  BY <1>2, <1>10
<1>12. Power(radix, 9) >= 134217728
  BY <1>2, <1>11
<1>13. Power(radix, 10) >= 1073741824
  BY <1>2, <1>12
<1>14. Power(radix, 11) >= 8589934592
  BY <1>2, <1>13
<1>15. Power(radix, 11) <= Power(radix, 16) /\ Power(radix, 11) \in Nat /\ Power(radix, 16) \in Nat
  BY <1>1, PowerType
<1>16. LongMod <= 4295032832
  <2>1. LongMod \in Nat /\ LongMod \div 65536 <= 65536
    BY PrintfAssumption, FormatsAssumption
  <2> QED BY <2>1, Z3
<1> QED BY <1>14, <1>15, <1>16, PrintfAssumption

\* What DO_NUM writes of an unsigned long is its numeral.
LEMMA NumDigitsNumeral ==
  ASSUME NEW radix \in {8, 10, 16}, NEW table, NEW v \in 0 .. LongMod - 1
  PROVE  NumDigits(v, radix, table) = Numeral(v, radix, table)
<1>1. radix \in Nat \ {0, 1}
  OBVIOUS
<1>2. v \in Nat /\ LongMod \in Nat
  BY PrintfAssumption
<1>3. Power(radix, 16) > v
  <2>1. PICK p \in Nat : p = Power(radix, 16)
    <3>1. radix \in Nat /\ radix > 1 /\ 16 \in Nat
      OBVIOUS
    <3> QED BY <3>1, PowerType
  <2> QED BY <1>2, <2>1, SixteenDigits
<1>4. PICK k \in 1 .. 16 : Takes(k, v, radix)
  BY <1>1, <1>2, <1>3, TakesSome
<1>5. k \in Nat
  OBVIOUS
<1> QED BY <1>1, <1>4, <1>5, NumDigitsTakes

\* The length of two sequences together.
LEMMA Concatenated ==
  ASSUME NEW E, NEW s \in Seq(E), NEW t \in Seq(E), NEW u, u = s \o t
  PROVE  u \in Seq(E) /\ Len(u) = Len(s) + Len(t)
BY ConcatProperties

\* What the first one holds comes first.
LEMMA FirstOf ==
  ASSUME NEW E, NEW s \in Seq(E), NEW t \in Seq(E), NEW u, u = s \o t
  PROVE  \A i \in 1 .. Len(s) : u[i] = s[i]
BY ConcatProperties

\* The digits the code has are characters.
LEMMA Tables ==
  ASSUME NEW radix \in {8, 10, 16}
  PROVE  Table(Char, LowDigits, radix)
<1>0. PICK E : E = {Digits[i] : i \in 1 .. 10} \cup {"a", "b", "c", "d", "e", "f"}
  OBVIOUS
<1>1. PICK s : s = <<"a", "b", "c", "d", "e", "f">>
  OBVIOUS
<1>2. DOMAIN LowDigits = 1 .. 16
  <2>1. s \in Seq(E) /\ Len(s) = 6
    BY <1>0, <1>1
  <2>2. Len(Digits) = 10 /\ \A i \in 1 .. 10 : Digits[i] \in E
    BY <1>0 DEF Digits
  <2>3. Digits \in Seq(E)
    BY <2>2 DEF Digits
  <2>4. LowDigits = Digits \o s
    BY <1>1 DEF LowDigits
  <2>5. LowDigits \in Seq(E) /\ Len(LowDigits) = 16
    <3>1. PICK D : D = Digits
      OBVIOUS
    <3>2. PICK L : L = LowDigits
      OBVIOUS
    <3>3. D \in Seq(E) /\ Len(D) = 10 /\ L = D \o s
      BY <2>2, <2>3, <2>4, <3>1, <3>2
    <3>4. L \in Seq(E) /\ Len(L) = Len(D) + Len(s)
      BY ZenonT(30), <2>1, <3>3, Concatenated
    <3> QED BY <2>1, <3>2, <3>3, <3>4
  <2> QED BY <2>5
<1>3. \A i \in 1 .. 16 : LowDigits[i] \in Char
  BY <1>2, ConsoleAssumption
<1> QED BY <1>3 DEF Table

Scanning == INSTANCE Folding WITH Op <- Scan

-----------------------------------------------------------------------------
(* The scanner, step by step *)

\* A state of the scanner that has met no argument of a promoted type.
No == FALSE
State(st, f, w, a, o) ==
  [state |-> st, flags |-> f, wd |-> w, args |-> a, out |-> o, trapped |-> No]

\* Assignments to the locals.
PutState(s, x) == [s EXCEPT !.state = x]
PutFlags(s, x) == [s EXCEPT !.flags = x]
PutWd(s, x)    == [s EXCEPT !.wd = x]
PutArgs(s, x)  == [s EXCEPT !.args = x]
PutOut(s, x)   == [s EXCEPT !.out = x]

\* The state after one of them.
LEMMA PutIs ==
  ASSUME NEW st, NEW f, NEW w, NEW a, NEW o, NEW x
  PROVE  /\ PutState(State(st, f, w, a, o), x) = State(x, f, w, a, o)
         /\ PutFlags(State(st, f, w, a, o), x) = State(st, x, w, a, o)
         /\ PutWd(State(st, f, w, a, o), x) = State(st, f, x, a, o)
         /\ PutArgs(State(st, f, w, a, o), x) = State(st, f, w, x, o)
         /\ PutOut(State(st, f, w, a, o), x) = State(st, f, w, a, x)
<1>1. PutState(State(st, f, w, a, o), x) = State(x, f, w, a, o)
  BY DEF State, PutState
<1>2. PutFlags(State(st, f, w, a, o), x) = State(st, x, w, a, o)
  BY DEF State, PutFlags
<1>3. PutWd(State(st, f, w, a, o), x) = State(st, f, x, a, o)
  BY DEF State, PutWd
<1>4. PutArgs(State(st, f, w, a, o), x) = State(st, f, w, x, o)
  BY DEF State, PutArgs
<1>5. PutOut(State(st, f, w, a, o), x) = State(st, f, w, a, x)
  BY DEF State, PutOut
<1> QED BY <1>1, <1>2, <1>3, <1>4, <1>5

\* What is printed, and the state that awaits the next conversion.
LEMMA EmitState ==
  ASSUME NEW st, NEW f, NEW w, NEW a, NEW o, NEW cs
  PROVE  /\ Emit(State(st, f, w, a, o), cs) = State(st, f, w, a, o \o cs)
         /\ Reset(State(st, f, w, a, o)) = State(0, {}, 0, a, o)
<1>1. ASSUME NEW s PROVE Emit(s, cs) = PutOut(s, s.out \o cs)
  BY DEF Emit, PutOut
<1>2. ASSUME NEW s PROVE Reset(s) = PutWd(PutFlags(PutState(s, 0), {}), 0)
  BY DEF Reset, PutWd, PutFlags, PutState
<1>3. State(st, f, w, a, o).out = o
  BY DEF State
<1> QED BY <1>1, <1>2, <1>3, PutIs

\* The percent sign.
LEMMA ScanPercent ==
  ASSUME NEW f, NEW w, NEW a, NEW o
  PROVE  Scan(State(0, f, w, a, o), "%") = State(1, f, w, a, o)
<1>1. PICK s : s = State(0, f, w, a, o)
  OBVIOUS
<1>2. s.state = 0
  BY <1>1 DEF State
<1>3. Scan(s, "%") = PutState(s, 1)
  BY <1>2 DEF Scan, PutState
<1> QED BY <1>1, <1>3, PutIs

\* Characters of the format that are printed as they are.
LEMMA ScanText ==
  ASSUME NEW f, NEW w, NEW a, NEW o, NEW c, c # "%"
  PROVE  Scan(State(0, f, w, a, o), c) = State(0, f, w, a, o \o <<c>>)
<1>1. PICK s : s = State(0, f, w, a, o)
  OBVIOUS
<1>2. s.state = 0
  BY <1>1 DEF State
<1>3. Scan(s, c) = Emit(s, <<c>>)
  BY <1>2 DEF Scan
<1> QED BY <1>1, <1>3, EmitState

\* The flag for the left margin.
LEMMA ScanLeft ==
  ASSUME NEW f, "LJ" \notin f, NEW w, NEW a, NEW o
  PROVE  Scan(State(1, f, w, a, o), "-") = State(1, f \cup {"LJ"}, w, a, o)
<1>1. PICK s : s = State(1, f, w, a, o)
  OBVIOUS
<1>2. s.state = 1 /\ s.flags = f
  BY <1>1 DEF State
<1>3. Scan(s, "-") = PutFlags(s, f \cup {"LJ"})
  BY <1>2 DEF Scan, Flag, PutFlags
<1> QED BY <1>1, <1>3, PutIs

\* The flag for zeroes ends the flags.
LEMMA ScanZero ==
  ASSUME NEW f, NEW w, NEW a, NEW o
  PROVE  Scan(State(1, f, w, a, o), "0") = State(2, f \cup {"LZ"}, w, a, o)
<1>1. PICK s : s = State(1, f, w, a, o)
  OBVIOUS
<1>2. s.state = 1 /\ s.flags = f
  BY <1>1 DEF State
<1>3. Scan(s, "0") = PutFlags(PutState(s, 2), f \cup {"LZ"})
  BY <1>2 DEF Scan, Flag, PutFlags, PutState
<1> QED BY <1>1, <1>3, PutIs

\* The percent sign that stands for itself.
LEMMA ScanBoth ==
  ASSUME NEW f, NEW w, NEW a, NEW o
  PROVE  Scan(State(1, f, w, a, o), "%") = State(0, {}, 0, a, o \o <<"%">>)
<1>1. PICK s : s = State(1, f, w, a, o)
  OBVIOUS
<1>2. s.state = 1
  BY <1>1 DEF State
<1>3. Scan(s, "%") = Reset(Emit(s, <<"%">>))
  BY <1>2 DEF Scan, Flag
<1> QED BY <1>1, <1>3, EmitState

\* The letters that end a width.
Letters == {"l"} \cup DOMAIN Radix \cup {"s"}

\* What the letters are not.
LEMMA LettersApart ==
  ASSUME NEW c \in Letters
  PROVE  c \notin {"%", "-", "0"} /\ ~IsDigit(c) /\ c \notin {"F", "N", "h"}
<1>1. c \in {"l", "d", "i", "u", "o", "x", "X", "p", "s"}
  BY DEF Letters, Radix
<1>2. \A i \in 1 .. 10 : Digits[i] \in {"0", "1", "2", "3", "4", "5", "6", "7", "8", "9"}
  BY DEF Digits
<1> QED BY <1>1, <1>2 DEF IsDigit

\* A digit of the table is a digit, and says its value.
LEMMA DigitIs ==
  ASSUME NEW i \in 1 .. 10
  PROVE  /\ IsDigit(Digits[i]) /\ DigitOf(Digits[i]) = i - 1
         /\ Digits[i] \notin {"%", "-"} /\ (Digits[i] = "0" => i = 1)
<1>1. \A j, k \in 1 .. 10 : Digits[j] = Digits[k] => j = k
  BY DEF Digits
<1>2. IsDigit(Digits[i])
  BY DEF IsDigit
<1>3. (CHOOSE j \in 1 .. 10 : Digits[j] = Digits[i]) = i
  BY <1>1
<1>4. DigitOf(Digits[i]) = i - 1
  BY <1>3 DEF DigitOf
<1>5. Digits[i] \notin {"%", "-"} /\ (Digits[i] = "0" => i = 1)
  BY DEF Digits
<1> QED BY <1>2, <1>4, <1>5

\* Digit i makes n of the width w; the first one is not a zero, which would be a flag.
Widens(st, w, i, n) ==
  st \in {1, 2} /\ i \in 1 .. 10 /\ (st = 1 => i # 1) /\ n = 10 * w + (i - 1)

\* A digit of the width.
LEMMA ScanWidth ==
  ASSUME NEW f, NEW w, NEW a, NEW o, NEW st, NEW i, NEW n, Widens(st, w, i, n)
  PROVE  Scan(State(st, f, w, a, o), Digits[i]) = State(2, f, n, a, o)
<1>1. st \in {1, 2} /\ i \in 1 .. 10 /\ (st = 1 => i # 1) /\ n = 10 * w + (i - 1)
  BY DEF Widens
<1>2. PICK c : c = Digits[i]
  OBVIOUS
<1>3. IsDigit(c) /\ DigitOf(c) = i - 1 /\ c \notin {"%", "-"} /\ (c = "0" => i = 1)
  BY <1>1, <1>2, DigitIs
<1>4. Scan(State(st, f, w, a, o), c) = Width(State(st, f, w, a, o), c)
  BY <1>1, <1>3 DEF Scan, Flag, State
<1>5. Width(State(st, f, w, a, o), c) = State(2, f, 10 * w + DigitOf(c), a, o)
  BY <1>3 DEF Width, State
<1> QED BY <1>1, <1>2, <1>3, <1>4, <1>5

\* The modifier for a long.
LEMMA ScanLong ==
  ASSUME NEW f, NEW w, NEW a, NEW o, NEW st \in {1, 2}
  PROVE  Scan(State(st, f, w, a, o), "l") = State(3, f \cup {"32"}, w, a, o)
<1>1. "l" \notin {"%", "-", "0"} /\ ~IsDigit("l")
  BY LettersApart DEF Letters
<1>2. Scan(State(st, f, w, a, o), "l") = Width(State(st, f, w, a, o), "l")
  BY DEF Scan, Flag, State
<1>3. Width(State(st, f, w, a, o), "l") = Modifier(State(st, f, w, a, o), "l")
  BY <1>1 DEF Width
<1>4. Modifier(State(st, f, w, a, o), "l") = State(3, f \cup {"32"}, w, a, o)
  BY DEF Modifier, State
<1> QED BY <1>2, <1>3, <1>4

\* The modifier for a near pointer changes no flag.
LEMMA ScanNear ==
  ASSUME NEW f, NEW w, NEW a, NEW o, NEW st \in {1, 2}
  PROVE  Scan(State(st, f, w, a, o), "N") = State(3, f, w, a, o)
<1>1. "N" \notin {"%", "-", "0"} /\ ~IsDigit("N")
  <2>1. \A i \in 1 .. 10 : Digits[i] \in {"0", "1", "2", "3", "4", "5", "6", "7", "8", "9"}
    BY DEF Digits
  <2> QED BY <2>1 DEF IsDigit
<1>2. Scan(State(st, f, w, a, o), "N") = Width(State(st, f, w, a, o), "N")
  BY DEF Scan, Flag, State
<1>3. Width(State(st, f, w, a, o), "N") = Modifier(State(st, f, w, a, o), "N")
  BY <1>1 DEF Width
<1>4. Modifier(State(st, f, w, a, o), "N") = State(3, f, w, a, o)
  BY DEF Modifier, State
<1> QED BY <1>2, <1>3, <1>4

\* The letter of a conversion, in whatever state.
LEMMA ScanConversion ==
  ASSUME NEW f, NEW w, NEW a, NEW o, NEW st \in {1, 2, 3}, NEW c \in DOMAIN Radix \cup {"s"}
  PROVE  Scan(State(st, f, w, a, o), c) = Convert(State(st, f, w, a, o), c)
<1>1. c \notin {"%", "-", "0"} /\ ~IsDigit(c) /\ c \notin {"F", "N", "h"}
  BY LettersApart DEF Letters
<1>2. c # "l"
  BY DEF Radix
<1>3. PICK s : s = State(st, f, w, a, o)
  OBVIOUS
<1>4. s.state = st
  BY <1>3 DEF State
<1>5. Modifier(s, c) = Convert(s, c)
  BY <1>1, <1>2 DEF Modifier
<1>6. Width(s, c) = Modifier(s, c)
  BY <1>1 DEF Width
<1>7. Flag(s, c) = Width(s, c)
  BY <1>1 DEF Flag
<1>8. Scan(s, c) = Convert(s, c)
  BY <1>4, <1>5, <1>6, <1>7 DEF Scan
<1> QED BY <1>3, <1>8

\* What EMIT prints: the sign and the padding round the characters of where.
FieldText(f, w, where, minus) ==
  LET sign   == IF minus THEN <<"-">> ELSE <<>>
      actual == Len(where) + Len(sign)
      first  == IF "LZ" \in f THEN sign ELSE <<>>
      left   == IF "LJ" \in f THEN <<>>
                ELSE Fill(IF "LZ" \in f THEN "0" ELSE " ", w - actual)
      then   == IF "LZ" \in f THEN <<>> ELSE sign
      right  == IF "LJ" \in f THEN Fill(" ", w - actual) ELSE <<>>
  IN  first \o left \o then \o where \o right

\* EMIT prints it, and changes nothing else.
LEMMA FieldIs ==
  ASSUME NEW st, NEW f, NEW w, NEW a, NEW o, NEW where, NEW minus
  PROVE  Field(State(st, f, w, a, o), where, minus)
           = State(st, f, w, a, o \o FieldText(f, w, where, minus))
<1>1. PICK s : s = State(st, f, w, a, o)
  OBVIOUS
<1>2. s.flags = f /\ s.wd = w
  BY <1>1 DEF State
<1>3. Field(s, where, minus) = Emit(s, FieldText(f, w, where, minus))
  BY <1>2 DEF Field, FieldText
<1> QED BY <1>1, <1>3, EmitState

PutTrapped(s, x) == [s EXCEPT !.trapped = x]

\* The conversion of a number, without the modifier for a short.
LEMMA NumberIs ==
  ASSUME NEW st, NEW f, "16" \notin f, NEW w, NEW a, NEW o, NEW radix, NEW table, NEW flags,
         "16" \notin flags
  PROVE  Number(State(st, f, w, a, o), radix, table, flags)
           = LET v == Value(flags, Head(a))
             IN  State(st, f, w, Tail(a),
                       o \o FieldText(f, w, NumDigits(v.num, radix, table), v.neg))
<1>1. PICK v : v = Value(flags, Head(a))
  OBVIOUS
<1>2. PICK d : d = NumDigits(v.num, radix, table)
  OBVIOUS
<1>3. PICK t : t = o \o FieldText(f, w, d, v.neg)
  OBVIOUS
<1>4. State(st, f, w, a, o).args = a
  BY DEF State
<1>5. Field(State(st, f, w, a, o), d, v.neg) = State(st, f, w, a, t)
  BY <1>3, FieldIs
<1>6. Number(State(st, f, w, a, o), radix, table, flags)
        = [State(st, f, w, a, t) EXCEPT !.args = Tail(@),
             !.trapped = @ \/ ("16" \in flags /\ "32" \notin flags)]
  BY <1>1, <1>2, <1>4, <1>5 DEF Number
<1>7. (No \/ ("16" \in flags /\ "32" \notin flags)) = No
  BY DEF No
<1>8. [State(st, f, w, a, t) EXCEPT !.args = Tail(@),
         !.trapped = @ \/ ("16" \in flags /\ "32" \notin flags)]
        = PutTrapped(PutArgs(State(st, f, w, a, t), Tail(a)), No)
  BY <1>7 DEF State, PutTrapped, PutArgs
<1>9. PutTrapped(State(st, f, w, Tail(a), t), No) = State(st, f, w, Tail(a), t)
  <2>1. \A x : PutTrapped(State(st, f, w, x, t), No) = State(st, f, w, x, t)
    BY DEF PutTrapped, State
  <2> QED BY <2>1
<1>10. PutArgs(State(st, f, w, a, t), Tail(a)) = State(st, f, w, Tail(a), t)
  BY PutIs
<1> QED BY <1>1, <1>2, <1>3, <1>6, <1>8, <1>9, <1>10

\* The flags and the table of a conversion.
Signed(c) == IF c \in {"d", "i"} THEN {"SG"} ELSE {}
TableOf(c) == IF c = "X" THEN CapDigits ELSE LowDigits

\* What is printed of the next argument, as a number or as a string.
NumberText(f, w, a, c) ==
  LET v == Value(f \cup Signed(c), Head(a))
  IN  FieldText(f, w, NumDigits(v.num, Radix[c], TableOf(c)), v.neg)
StringText(f, w, a) == FieldText(f \ {"LZ"}, w, Head(a), No)

\* A conversion of a number ends in the state that awaits the next percent sign.
LEMMA ConvertNumber ==
  ASSUME NEW st, NEW f, "16" \notin f, NEW w, NEW a, NEW o, NEW c \in DOMAIN Radix
  PROVE  Convert(State(st, f, w, a, o), c)
           = State(0, {}, 0, Tail(a), o \o NumberText(f, w, a, c))
<1>1. PICK s : s = State(st, f, w, a, o)
  OBVIOUS
<1>2. s.flags = f
  BY <1>1 DEF State
<1>3. c \in {"d", "i", "u", "o", "x", "X", "p"}
  BY DEF Radix
<1>4. Convert(s, c) = Reset(Number(s, Radix[c], TableOf(c), f \cup Signed(c)))
  <2>1. f \cup {} = f
    OBVIOUS
  <2>2. CASE c = "X"
    BY <1>2, <2>1, <2>2 DEF Convert, Radix, TableOf, Signed
  <2>3. CASE c \in {"x", "p"}
    BY <1>2, <2>1, <2>3 DEF Convert, Radix, TableOf, Signed
  <2>4. CASE c \in {"d", "i"}
    BY <1>2, <2>1, <2>4 DEF Convert, Radix, TableOf, Signed
  <2>5. CASE c = "u"
    BY <1>2, <2>1, <2>5 DEF Convert, Radix, TableOf, Signed
  <2>6. CASE c = "o"
    BY <1>2, <2>1, <2>6 DEF Convert, Radix, TableOf, Signed
  <2> QED BY <1>3, <2>2, <2>3, <2>4, <2>5, <2>6
<1>5. "16" \notin f \cup Signed(c)
  BY DEF Signed
<1>6. PICK v : v = Value(f \cup Signed(c), Head(a))
  OBVIOUS
<1>7. PICK t : t = o \o NumberText(f, w, a, c)
  OBVIOUS
<1>8. Number(s, Radix[c], TableOf(c), f \cup Signed(c)) = State(st, f, w, Tail(a), t)
  BY <1>1, <1>5, <1>6, <1>7, NumberIs DEF NumberText
<1>9. Reset(State(st, f, w, Tail(a), t)) = State(0, {}, 0, Tail(a), t)
  BY EmitState
<1> QED BY <1>1, <1>4, <1>7, <1>8, <1>9

\* The conversion of a string drops the flag for zeroes.
LEMMA ConvertString ==
  ASSUME NEW st, NEW f, NEW w, NEW a, NEW o
  PROVE  Convert(State(st, f, w, a, o), "s") = State(0, {}, 0, Tail(a), o \o StringText(f, w, a))
<1>1. PICK s : s = State(st, f, w, a, o)
  OBVIOUS
<1>2. s.flags = f /\ s.args = a
  BY <1>1 DEF State
<1>3. PICK t : t = o \o StringText(f, w, a)
  OBVIOUS
<1>4. PICK g : g = f \ {"LZ"}
  OBVIOUS
<1>5. Convert(s, "s") = Reset([Field([s EXCEPT !.flags = @ \ {"LZ"}], Head(s.args), No)
                                 EXCEPT !.args = Tail(@), !.trapped = @ \/ "s" = "c"])
  BY DEF Convert, No
<1>6. [s EXCEPT !.flags = @ \ {"LZ"}] = State(st, g, w, a, o)
  <2>1. [s EXCEPT !.flags = @ \ {"LZ"}] = PutFlags(s, g)
    BY <1>2, <1>4 DEF PutFlags
  <2> QED BY <1>1, <2>1, PutIs
<1>7. Field(State(st, g, w, a, o), Head(a), No) = State(st, g, w, a, t)
  BY <1>3, <1>4, FieldIs DEF StringText
<1>8. Convert(s, "s") = Reset([State(st, g, w, a, t) EXCEPT !.args = Tail(@), !.trapped = @ \/ "s" = "c"])
  BY <1>2, <1>5, <1>6, <1>7
<1>9. [State(st, g, w, a, t) EXCEPT !.args = Tail(@), !.trapped = @ \/ "s" = "c"]
        = PutTrapped(PutArgs(State(st, g, w, a, t), Tail(a)), No)
  <2>1. (No \/ "s" = "c") = No
    BY DEF No
  <2> QED BY <2>1 DEF State, PutTrapped, PutArgs
<1>10. PutTrapped(State(st, g, w, Tail(a), t), No) = State(st, g, w, Tail(a), t)
  <2>1. \A x : PutTrapped(State(st, g, w, x, t), No) = State(st, g, w, x, t)
    BY DEF PutTrapped, State
  <2> QED BY <2>1
<1>11. Reset(State(st, g, w, Tail(a), t)) = State(0, {}, 0, Tail(a), t)
  BY EmitState
<1>12. PutArgs(State(st, g, w, a, t), Tail(a)) = State(st, g, w, Tail(a), t)
  BY PutIs
<1> QED BY <1>1, <1>3, <1>8, <1>9, <1>10, <1>11, <1>12

\* An argument that fits an unsigned long, and its magnitude as a signed one.
LEMMA ValueIs ==
  ASSUME NEW f, "16" \notin f, NEW w \in 0 .. LongMod - 1
  PROVE  /\ "SG" \in f /\ w >= LongMod \div 2 =>
              /\ Value(f, w).neg = TRUE /\ Value(f, w).num = LongMod - w
              /\ LongMod - w \in 0 .. LongMod - 1
         /\ ~("SG" \in f /\ w >= LongMod \div 2) =>
              Value(f, w).neg = No /\ Value(f, w).num = w
<1>1. LongMod \in Nat /\ LongMod > 10
  BY PrintfAssumption, FormatsAssumption
<1>2. w % LongMod = w
  BY <1>1, Z3
<1>3. LongMod \div 2 > 0
  BY <1>1, Z3
<1>4. w >= LongMod \div 2 => LongMod - w \in 0 .. LongMod - 1 /\ (LongMod - w) % LongMod = LongMod - w
  <2> SUFFICES ASSUME w >= LongMod \div 2
               PROVE  LongMod - w \in 0 .. LongMod - 1 /\ (LongMod - w) % LongMod = LongMod - w
    OBVIOUS
  <2>1. w > 0
    BY <1>1, <1>3
  <2>2. PICK n \in 0 .. LongMod - 1 : n = LongMod - w
    BY <1>1, <2>1
  <2>3. n % LongMod = n
    BY <1>1, Z3
  <2> QED BY <2>2, <2>3
<1> QED BY <1>1, <1>2, <1>4 DEF Value, No

\* Nothing before, between or behind.
LEMMA EmptyAround ==
  ASSUME NEW E, NEW s \in Seq(E)
  PROVE  <<>> \o s = s /\ s \o <<>> = s
BY ConcatEmptySeq

\* Without a width and flags, a field is what it holds.
LEMMA PlainField ==
  ASSUME NEW E, NEW where \in Seq(E), NEW minus, minus = No
  PROVE  FieldText({}, 0, where, minus) = where
<1>1. PICK n \in Nat : n = Len(where)
  BY LenProperties
<1>2. Len(<<>>) = 0
  OBVIOUS
<1>3. Fill(" ", 0 - (n + 0)) = <<>>
  <2>1. PICK k \in Int : k = 0 - (n + 0)
    OBVIOUS
  <2>2. ~(k > 0)
    BY <2>1
  <2>3. \A c : [i \in 1 .. 0 |-> c] = <<>>
    OBVIOUS
  <2>4. Fill(" ", k) = [i \in 1 .. 0 |-> " "]
    BY <2>2 DEF Fill
  <2> QED BY <2>1, <2>3, <2>4
<1>4. FieldText({}, 0, where, minus) = <<>> \o Fill(" ", 0 - (n + 0)) \o <<>> \o where \o <<>>
  BY <1>1, <1>2 DEF FieldText, No
<1>5. <<>> \in Seq(E) /\ <<>> \o <<>> = <<>>
  BY EmptyAround
<1>6. <<>> \o <<>> \o <<>> \o where \o <<>> = where
  BY <1>5, EmptyAround
<1> QED BY <1>3, <1>4, <1>6

\* The scanner at its start.
LEMMA StartIs == ASSUME NEW args PROVE Start(args) = State(0, {}, 0, args, <<>>)
BY DEF Start, State, No

\* do_printf() as a fold of this module.
LEMMA PrintfIs ==
  ASSUME NEW fmt, NEW args
  PROVE  do_printf(fmt, args) = Scanning!Folded(State(0, {}, 0, args, <<>>), fmt)
BY StartIs DEF do_printf, Scanning!Folded, FoldLeft, Scanning!FoldLeft,
               MapThenFoldSet, Scanning!MapThenFoldSet, Max, Scanning!Max

\* "%s" without a width.
LEMMA ScanString ==
  ASSUME NEW E, NEW a, NEW o, NEW s \in Seq(E), Head(a) = s
  PROVE  Scan(State(1, {}, 0, a, o), "s") = State(0, {}, 0, Tail(a), o \o s)
<1>1. {} \ {"LZ"} = {}
  OBVIOUS
<1>2. FieldText({}, 0, s, No) = s
  BY PlainField
<1>3. StringText({}, 0, a) = s
  BY <1>1, <1>2 DEF StringText
<1>4. Scan(State(1, {}, 0, a, o), "s") = Convert(State(1, {}, 0, a, o), "s")
  BY ScanConversion
<1>5. Convert(State(1, {}, 0, a, o), "s") = State(0, {}, 0, Tail(a), o \o StringText({}, 0, a))
  BY ConvertString
<1> QED BY <1>3, <1>4, <1>5

\* "%x" and "%d" without a width, of a number that is not negative.
LEMMA ScanNumber ==
  ASSUME NEW a, NEW o, NEW c \in {"x", "d"}, NEW v \in 0 .. LongMod - 1, Head(a) = v,
         c = "d" => v < LongMod \div 2
  PROVE  Scan(State(1, {}, 0, a, o), c)
           = State(0, {}, 0, Tail(a), o \o NumDigits(v, Radix[c], LowDigits))
<1>1. "16" \notin {}
  OBVIOUS
<1>2. c \in DOMAIN Radix
  BY DEF Radix
<1>3. PICK f : f = {} \cup Signed(c)
  OBVIOUS
<1>4. "16" \notin f /\ (c = "x" => "SG" \notin f)
  BY <1>3 DEF Signed
<1>5. ~("SG" \in f /\ v >= LongMod \div 2)
  <2>1. LongMod \div 2 \in Int /\ v \in Int
    BY PrintfAssumption, Z3
  <2> QED BY <1>4, <2>1
<1>6. PICK u : u = Value(f, v)
  OBVIOUS
<1>7. u.num = v /\ u.neg = No
  BY <1>4, <1>5, <1>6, ValueIs
<1>8. PICK d : d = NumDigits(v, Radix[c], LowDigits)
  OBVIOUS
<1>9. Radix[c] \in {10, 16} /\ TableOf(c) = LowDigits
  BY DEF Radix, TableOf
<1>10. d \in Seq(Char)
  BY <1>8, <1>9, NumDigitsType, Tables
<1>11. FieldText({}, 0, d, u.neg) = d
  BY <1>7, <1>10, PlainField
<1>12. Scan(State(1, {}, 0, a, o), c) = Convert(State(1, {}, 0, a, o), c)
  BY <1>2, ScanConversion
<1>13. Convert(State(1, {}, 0, a, o), c) = State(0, {}, 0, Tail(a), o \o NumberText({}, 0, a, c))
  BY <1>1, <1>2, ConvertNumber
<1>14. NumberText({}, 0, a, c) = FieldText({}, 0, NumDigits(u.num, Radix[c], TableOf(c)), u.neg)
  BY <1>3, <1>6 DEF NumberText
<1> QED BY <1>7, <1>8, <1>9, <1>11, <1>12, <1>13, <1>14

\* Both tables begin with the decimal digits.
LEMMA LowIsDigit == ASSUME NEW v \in 0 .. 9 PROVE LowDigits[v + 1] = Digits[v + 1]
<1>1. Len(Digits) = 10
  BY DEF Digits
<1>2. PICK E : E = {Digits[i] : i \in 1 .. 10} \cup {"a", "b", "c", "d", "e", "f"}
  OBVIOUS
<1>3. PICK s : s = <<"a", "b", "c", "d", "e", "f">>
  OBVIOUS
<1>4. s \in Seq(E) /\ Len(s) = 6
  BY <1>2, <1>3
<1>5. Len(Digits) = 10 /\ \A i \in 1 .. 10 : Digits[i] \in E
  BY <1>2 DEF Digits
<1>6. Digits \in Seq(E)
  BY <1>5 DEF Digits
<1>7. PICK D : D = Digits
  OBVIOUS
<1>8. PICK L : L = D \o s
  OBVIOUS
<1>9. \A i \in 1 .. 10 : L[i] = D[i]
  <2>1. \A i \in 1 .. Len(D) : L[i] = D[i]
    BY <1>4, <1>6, <1>7, <1>8, FirstOf
  <2>2. Len(D) = 10
    BY <1>1, <1>7
  <2> QED BY <2>1, <2>2
<1>10. L = LowDigits
  BY <1>3, <1>7, <1>8 DEF LowDigits
<1> QED BY <1>7, <1>9, <1>10

\* A number of one digit.
LEMMA DigitText ==
  ASSUME NEW v \in 0 .. 9
  PROVE  NumDigits(v, 10, LowDigits) = <<Digits[v + 1]>> /\ v \in 0 .. LongMod - 1
<1>1. v \in 0 .. LongMod - 1
  BY PrintfAssumption, FormatsAssumption
<1>2. NumDigits(v, 10, LowDigits) = <<LowDigits[v + 1]>>
  BY <1>1, NumDigitsIs
<1>3. LowDigits[v + 1] = Digits[v + 1]
  BY LowIsDigit
<1> QED BY <1>1, <1>2, <1>3

\* The line of dump_floppies().
LEMMA FloppyText ==
  ASSUME NEW name \in Seq(Char), NEW type \in 1 .. 4, NEW typestr \in Seq(Char)
  PROVE  kprintf(FloppyFmt, <<name, type, typestr>>)
           = <<>> \o <<"D">> \o <<":">> \o name \o <<Digits[type + 1]>> \o typestr \o <<NL>>
<1>1. PICK fmt : fmt = FloppyFmt
  OBVIOUS
<1>2. /\ DOMAIN fmt = 1 .. 9
      /\ fmt[1] = "D" /\ fmt[2] = ":" /\ fmt[3] = "%" /\ fmt[4] = "s" /\ fmt[5] = "%"
      /\ fmt[6] = "d" /\ fmt[7] = "%" /\ fmt[8] = "s" /\ fmt[9] = NL
  BY <1>1 DEF FloppyFmt
<1>3. PICK a0 : a0 = <<name, type, typestr>>
  OBVIOUS
<1>4. PICK a1 : a1 = Tail(a0)
  OBVIOUS
<1>5. PICK a2 : a2 = Tail(a1)
  OBVIOUS
<1>6. Head(a0) = name /\ Head(a1) = type /\ Head(a2) = typestr
  BY <1>3, <1>4, <1>5
<1>7. PICK g : /\ Scanning!Chain(g, State(0, {}, 0, a0, <<>>), fmt, 9)
               /\ Scanning!Folded(State(0, {}, 0, a0, <<>>), fmt) = g[9]
  <2>1. PICK b : b = State(0, {}, 0, a0, <<>>)
    OBVIOUS
  <2>2. PICK n \in Nat : n = 9
    OBVIOUS
  <2>3. PICK g : Scanning!Chain(g, b, fmt, n) /\ Scanning!Folded(b, fmt) = g[n]
    <3>1. DOMAIN fmt = 1 .. n
      BY <1>2, <2>2
    <3> QED BY <3>1, Scanning!FoldChain
  <2> QED BY <2>1, <2>2, <2>3
<1>8. \A i \in 1 .. 9 : g[i] = Scan(g[i - 1], fmt[i])
  BY <1>7 DEF Scanning!Chain
<1>9. /\ g[0] = State(0, {}, 0, a0, <<>>)
      /\ g[1] = Scan(g[0], "D") /\ g[2] = Scan(g[1], ":") /\ g[3] = Scan(g[2], "%")
      /\ g[4] = Scan(g[3], "s") /\ g[5] = Scan(g[4], "%") /\ g[6] = Scan(g[5], "d")
      /\ g[7] = Scan(g[6], "%") /\ g[8] = Scan(g[7], "s") /\ g[9] = Scan(g[8], NL)
  BY <1>2, <1>7, <1>8 DEF Scanning!Chain
<1>10. NumDigits(type, 10, LowDigits) = <<Digits[type + 1]>> /\ type \in 0 .. LongMod - 1
  BY DigitText
<1>11. type < LongMod \div 2
  <2>1. LongMod \in Nat /\ LongMod > 10
    BY PrintfAssumption, FormatsAssumption
  <2> QED BY <2>1, Z3
<1>12. PICK o1 : o1 = <<>> \o <<"D">>
  OBVIOUS
<1>13. PICK o2 : o2 = o1 \o <<":">>
  OBVIOUS
<1>14. PICK o3 : o3 = o2 \o name
  OBVIOUS
<1>15. PICK o4 : o4 = o3 \o NumDigits(type, 10, LowDigits)
  OBVIOUS
<1>16. PICK o5 : o5 = o4 \o typestr
  OBVIOUS
<1>17. PICK o6 : o6 = o5 \o <<NL>>
  OBVIOUS
<1>18. g[1] = State(0, {}, 0, a0, o1)
  <2>1. PICK e : e = <<>>
    OBVIOUS
  <2>2. "D" # "%"
    OBVIOUS
  <2>3. Scan(State(0, {}, 0, a0, e), "D") = State(0, {}, 0, a0, e \o <<"D">>)
    BY <2>2, ScanText
  <2> QED BY <1>9, <1>12, <2>1, <2>3
<1>19. g[2] = State(0, {}, 0, a0, o2)
  BY <1>9, <1>13, <1>18, ScanText
<1>20. g[3] = State(1, {}, 0, a0, o2)
  BY <1>9, <1>19, ScanPercent
<1>21. g[4] = State(0, {}, 0, a1, o3)
  <2>1. Scan(State(1, {}, 0, a0, o2), "s") = State(0, {}, 0, Tail(a0), o2 \o name)
    BY <1>6, ScanString
  <2> QED BY <1>4, <1>9, <1>14, <1>20, <2>1
<1>22. g[5] = State(1, {}, 0, a1, o3)
  BY <1>9, <1>21, ScanPercent
<1>23. g[6] = State(0, {}, 0, a2, o4)
  <2>1. Radix["d"] = 10
    BY DEF Radix
  <2>2. Scan(State(1, {}, 0, a1, o3), "d")
          = State(0, {}, 0, Tail(a1), o3 \o NumDigits(type, Radix["d"], LowDigits))
    BY <1>6, <1>10, <1>11, ScanNumber
  <2> QED BY <1>5, <1>9, <1>15, <1>22, <2>1, <2>2
<1>24. g[7] = State(1, {}, 0, a2, o4)
  BY <1>9, <1>23, ScanPercent
<1>25. g[8] = State(0, {}, 0, Tail(a2), o5)
  <2>1. Scan(State(1, {}, 0, a2, o4), "s") = State(0, {}, 0, Tail(a2), o4 \o typestr)
    BY <1>6, ScanString
  <2> QED BY <1>9, <1>16, <1>24, <2>1
<1>26. g[9] = State(0, {}, 0, Tail(a2), o6)
  <2>1. NL # "%"
    BY DEF NL
  <2> QED BY <1>9, <1>17, <1>25, <2>1, ScanText
<1>27. kprintf(FloppyFmt, <<name, type, typestr>>) = o6
  <2>1. do_printf(fmt, a0) = g[9]
    BY <1>7, PrintfIs
  <2> QED BY <1>1, <1>3, <1>26, <2>1 DEF kprintf, State
<1> QED BY <1>10, <1>12, <1>13, <1>14, <1>15, <1>16, <1>17, <1>27

\* A line of map_temp().
LEMMA TempText ==
  ASSUME NEW v \in 0 .. LongMod - 1
  PROVE  kprintf(TempFmt, <<v>>) = <<>> \o NumDigits(v, 16, LowDigits) \o <<NL>>
<1>1. PICK fmt : fmt = TempFmt
  OBVIOUS
<1>2. DOMAIN fmt = 1 .. 3 /\ fmt[1] = "%" /\ fmt[2] = "x" /\ fmt[3] = NL
  BY <1>1 DEF TempFmt
<1>3. PICK a : a = <<v>>
  OBVIOUS
<1>4. Head(a) = v
  BY <1>3
<1>5. PICK g : /\ Scanning!Chain(g, State(0, {}, 0, a, <<>>), fmt, 3)
               /\ Scanning!Folded(State(0, {}, 0, a, <<>>), fmt) = g[3]
  <2>1. PICK b : b = State(0, {}, 0, a, <<>>)
    OBVIOUS
  <2>2. PICK n \in Nat : n = 3
    OBVIOUS
  <2>3. PICK g : Scanning!Chain(g, b, fmt, n) /\ Scanning!Folded(b, fmt) = g[n]
    <3>1. DOMAIN fmt = 1 .. n
      BY <1>2, <2>2
    <3> QED BY <3>1, Scanning!FoldChain
  <2> QED BY <2>1, <2>2, <2>3
<1>6. \A i \in 1 .. 3 : g[i] = Scan(g[i - 1], fmt[i])
  BY <1>5 DEF Scanning!Chain
<1>7. /\ g[0] = State(0, {}, 0, a, <<>>)
      /\ g[1] = Scan(g[0], "%") /\ g[2] = Scan(g[1], "x") /\ g[3] = Scan(g[2], NL)
  BY <1>2, <1>5, <1>6 DEF Scanning!Chain
<1>8. PICK o1 : o1 = <<>> \o NumDigits(v, 16, LowDigits)
  OBVIOUS
<1>9. PICK o2 : o2 = o1 \o <<NL>>
  OBVIOUS
<1>10. g[1] = State(1, {}, 0, a, <<>>)
  BY <1>7, ScanPercent
<1>11. g[2] = State(0, {}, 0, Tail(a), o1)
  <2>1. PICK e : e = <<>>
    OBVIOUS
  <2>2. Scan(State(1, {}, 0, a, e), "x")
          = State(0, {}, 0, Tail(a), e \o NumDigits(v, Radix["x"], LowDigits))
    BY <1>4, ScanNumber
  <2>3. Radix["x"] = 16
    BY DEF Radix
  <2> QED BY <1>7, <1>8, <1>10, <2>1, <2>2, <2>3
<1>12. g[3] = State(0, {}, 0, Tail(a), o2)
  <2>1. NL # "%"
    BY DEF NL
  <2> QED BY <1>7, <1>9, <1>11, <2>1, ScanText
<1>13. kprintf(TempFmt, <<v>>) = o2
  <2>1. do_printf(fmt, a) = g[3]
    BY <1>5, PrintfIs
  <2> QED BY <1>1, <1>3, <1>12, <2>1 DEF kprintf, State
<1> QED BY <1>8, <1>9, <1>13

-----------------------------------------------------------------------------
(* Whole formats *)

\* The characters the formats are made of.
FormatChars == {Digits[i] : i \in 1 .. 10} \cup DOMAIN Radix \cup {"<", "%", "-", "0", "l", "N", "x", "3", "s", ">"}

\* One character of a format after others.
LEMMA ScanOne ==
  ASSUME NEW E, NEW s, NEW c \in E
  PROVE  Scanning!Folded(s, <<c>>) = Scan(s, c)
<1>1. PICK n \in Seq(E) : n = <<>>
  <2>1. <<>> \in Seq(E)
    OBVIOUS
  <2> QED BY <2>1
<1>2. PICK t : t = Append(n, c)
  OBVIOUS
<1>3. t = <<c>>
  BY <1>1, <1>2
<1>4. Scanning!Folded(s, t) = Scan(Scanning!Folded(s, n), c)
  BY <1>2, Scanning!FoldAppend
<1>5. Scanning!Folded(s, n) = s
  BY <1>1, Scanning!FoldEmpty
<1> QED BY <1>3, <1>4, <1>5

\* The digits of a width, whatever their number, leave the width.
LEMMA ScanDigits ==
  ASSUME NEW f, NEW a, NEW o, NEW st \in {1, 2}
  PROVE  \A v \in 1 .. LongMod - 1 :
           /\ NumDigits(v, 10, LowDigits) \in Seq(FormatChars)
           /\ Scanning!Folded(State(st, f, 0, a, o), NumDigits(v, 10, LowDigits))
                = State(2, f, v, a, o)
<1> DEFINE P(v) == /\ NumDigits(v, 10, LowDigits) \in Seq(FormatChars)
                   /\ Scanning!Folded(State(st, f, 0, a, o), NumDigits(v, 10, LowDigits))
                        = State(2, f, v, a, o)
           S == {m \in Nat : \A v \in 1 .. m : v < LongMod => P(v)}
<1>0. LongMod \in Nat
  BY PrintfAssumption
<1>1. ASSUME NEW j \in 1 .. 10 PROVE Digits[j] \in FormatChars
  BY DEF FormatChars
<1>2. ASSUME NEW v \in 1 .. 9 PROVE P(v)
  <2>1. NumDigits(v, 10, LowDigits) = <<Digits[v + 1]>>
    BY DigitText
  <2>2. PICK j \in 1 .. 10 : j = v + 1 /\ j # 1 /\ j - 1 = v
    <3>1. v + 1 \in 1 .. 10 /\ v + 1 # 1 /\ (v + 1) - 1 = v
      OBVIOUS
    <3> QED BY <3>1
  <2>3. PICK c \in FormatChars : c = Digits[j]
    BY <1>1
  <2>4. PICK z \in Nat : z = 0
    OBVIOUS
  <2>5. v = 10 * z + (j - 1)
    BY <2>2, <2>4
  <2>6. Scan(State(st, f, z, a, o), Digits[j]) = State(2, f, v, a, o)
    <3>1. Widens(st, z, j, v)
      BY <2>2, <2>5 DEF Widens
    <3> QED BY <3>1, ScanWidth
  <2>7. Scanning!Folded(State(st, f, z, a, o), <<c>>) = Scan(State(st, f, z, a, o), c)
    BY ScanOne
  <2>8. <<c>> \in Seq(FormatChars)
    OBVIOUS
  <2> QED BY <2>1, <2>2, <2>3, <2>4, <2>5, <2>6, <2>7, <2>8
<1>3. ASSUME NEW v \in 10 .. LongMod - 1, P(v \div 10) PROVE P(v)
  <2>1. v \in 0 .. LongMod - 1 /\ ~(v < 10) /\ 10 \in Nat \ {0, 1} /\ v \in Nat
    BY <1>0
  <2>2. PICK q \in Nat : q = v \div 10
    BY <2>1, Z3
  <2>3. PICK r \in 0 .. 9 : r = v % 10 /\ v = 10 * q + r
    <3>1. v % 10 \in 0 .. 9 /\ v = 10 * (v \div 10) + (v % 10)
      BY <2>1, Z3
    <3> QED BY <2>2, <3>1
  <2>4. NumDigits(v, 10, LowDigits) = Append(NumDigits(q, 10, LowDigits), LowDigits[r + 1])
    BY <2>1, <2>2, <2>3, NumDigitsIs
  <2>5. PICK j \in 1 .. 10 : j = r + 1 /\ j - 1 = r
    <3>1. r + 1 \in 1 .. 10 /\ (r + 1) - 1 = r
      OBVIOUS
    <3> QED BY <3>1
  <2>6. PICK c \in FormatChars : c = LowDigits[j] /\ c = Digits[j]
    <3>1. LowDigits[r + 1] = Digits[r + 1]
      BY LowIsDigit
    <3> QED BY <1>1, <2>5, <3>1
  <2>7. PICK d \in Seq(FormatChars) : d = NumDigits(q, 10, LowDigits)
    BY <1>3, <2>2
  <2>8. Scanning!Folded(State(st, f, 0, a, o), d) = State(2, f, q, a, o)
    BY <1>3, <2>2, <2>7
  <2>9. PICK s : s = State(st, f, 0, a, o)
    OBVIOUS
  <2>10. PICK t \in Seq(FormatChars) : t = Append(d, c)
    <3>1. Append(d, c) \in Seq(FormatChars)
      OBVIOUS
    <3> QED BY <3>1
  <2>11. Scanning!Folded(s, t) = Scan(Scanning!Folded(s, d), c)
    BY <2>10, Scanning!FoldAppend
  <2>12. v = 10 * q + (j - 1)
    BY <2>3, <2>5
  <2>13. Scan(State(2, f, q, a, o), Digits[j]) = State(2, f, v, a, o)
    <3>1. Widens(2, q, j, v)
      BY <2>12 DEF Widens
    <3> QED BY <3>1, ScanWidth
  <2> QED BY <2>4, <2>5, <2>6, <2>7, <2>8, <2>9, <2>10, <2>11, <2>12, <2>13
<1>4. 0 \in S
  <2>1. 1 .. 0 = {}
    OBVIOUS
  <2> QED BY <2>1
<1>5. ASSUME NEW m \in Nat, m \in S PROVE m + 1 \in S
  <2>1. ASSUME NEW v \in 1 .. m + 1, v < LongMod PROVE P(v)
    <3>1. CASE v <= m
      <4>1. v \in 1 .. m
        BY <3>1
      <4> HIDE DEF P
      <4> QED BY <1>5, <2>1, <4>1
    <3>2. CASE v \in 1 .. 9
      <4> HIDE DEF P
      <4> QED BY <1>2, <3>2
    <3>3. CASE v = m + 1 /\ v >= 10
      <4>1. v \div 10 \in 1 .. m /\ v \div 10 < LongMod /\ v \in 10 .. LongMod - 1
        <5>1. v \in Nat /\ m \in Nat /\ v = m + 1 /\ v >= 10 /\ v < LongMod
          BY <2>1, <3>3
        <5> QED BY <1>0, <5>1, Z3
      <4> HIDE DEF P
      <4>2. P(v \div 10)
        BY <1>5, <4>1
      <4> QED BY <1>3, <4>1, <4>2
    <3> QED BY <3>1, <3>2, <3>3
  <2> HIDE DEF P
  <2> QED BY <2>1
<1>6. Nat \subseteq S
  <2> HIDE DEF S
  <2> QED BY <1>4, <1>5, SetInduction
<1>7. \A v \in 1 .. LongMod - 1 : P(v)
  <2> HIDE DEF P
  <2>1. ASSUME NEW v \in 1 .. LongMod - 1 PROVE P(v)
    <3>1. v \in Nat /\ v \in 1 .. v /\ v < LongMod
      BY <1>0
    <3> QED BY <1>6, <3>1
  <2> QED BY <2>1
<1> QED BY <1>7

\* The parts of a conversion specification, before its letter.
Minus(left)  == IF left THEN <<"-">> ELSE <<>>
Zero(zeroes) == IF zeroes THEN <<"0">> ELSE <<>>

\* The flags the scanner has seen say left and zeroes, and nothing of a short.
Seen(f, left, zeroes) ==
  ("LJ" \in f <=> left) /\ ("LZ" \in f <=> zeroes) /\ "16" \notin f /\ "SG" \notin f

\* A text takes the scanner, from s, to one of the states sts, with these flags.
Leads(text, s, sts, left, zeroes, wd, a, o) ==
  \E f, st : /\ Seen(f, left, zeroes) /\ st \in sts
             /\ Scanning!Folded(s, text) = State(st, f, wd, a, o)

\* Nothing, or one character.
LEMMA Parts ==
  /\ <<>> \in Seq(FormatChars)
  /\ \A c \in FormatChars : <<c>> \in Seq(FormatChars)
  /\ {"<", "%", "-", "0", "l", "N", "x", "3", "s", ">"} \subseteq FormatChars
<1>1. <<>> \in Seq(FormatChars)
  OBVIOUS
<1>2. ASSUME NEW c \in FormatChars PROVE <<c>> \in Seq(FormatChars)
  OBVIOUS
<1>3. {"<", "%", "-", "0", "l", "N", "x", "3", "s", ">"} \subseteq FormatChars
  BY DEF FormatChars
<1> QED BY <1>1, <1>2, <1>3

\* The flags are made of such characters.
LEMMA MinusIs == ASSUME NEW left PROVE Minus(left) \in Seq(FormatChars)
BY Parts DEF Minus

LEMMA ZeroIs == ASSUME NEW zeroes PROVE Zero(zeroes) \in Seq(FormatChars)
BY Parts DEF Zero

\* The flag for the left.
LEMMA MinusScan ==
  ASSUME NEW left, NEW a, NEW o
  PROVE  Leads(Minus(left), State(1, {}, 0, a, o), {1}, left, No, 0, a, o)
<1>1. CASE left
  <2>1. Minus(left) = <<"-">> /\ "-" \in FormatChars
    BY <1>1, Parts DEF Minus
  <2>2. PICK e : e = {}
    OBVIOUS
  <2>3. Scan(State(1, e, 0, a, o), "-") = State(1, e \cup {"LJ"}, 0, a, o)
    BY <2>2, ScanLeft
  <2>4. Scanning!Folded(State(1, e, 0, a, o), <<"-">>) = Scan(State(1, e, 0, a, o), "-")
    BY <2>1, ScanOne
  <2>5. PICK f : f = e \cup {"LJ"}
    OBVIOUS
  <2>6. Seen(f, left, No)
    BY <1>1, <2>2, <2>5 DEF Seen, No
  <2>7. Scanning!Folded(State(1, {}, 0, a, o), Minus(left)) = State(1, f, 0, a, o)
    BY <2>1, <2>2, <2>3, <2>4, <2>5
  <2> QED BY <2>6, <2>7 DEF Leads
<1>2. CASE ~left
  <2>1. Minus(left) = <<>>
    BY <1>2 DEF Minus
  <2>2. PICK f : f = {}
    OBVIOUS
  <2>3. Seen(f, left, No)
    BY <1>2, <2>2 DEF Seen, No
  <2>4. Scanning!Folded(State(1, f, 0, a, o), <<>>) = State(1, f, 0, a, o)
    BY Scanning!FoldEmpty
  <2>5. Scanning!Folded(State(1, {}, 0, a, o), Minus(left)) = State(1, f, 0, a, o)
    BY <2>1, <2>2, <2>4
  <2> QED BY <2>3, <2>5 DEF Leads
<1> QED BY <1>1, <1>2

\* The flag for zeroes.
LEMMA ZeroScan ==
  ASSUME NEW left, NEW zeroes, NEW a, NEW o, NEW f, Seen(f, left, No)
  PROVE  Leads(Zero(zeroes), State(1, f, 0, a, o), {1, 2}, left, zeroes, 0, a, o)
<1>1. CASE zeroes
  <2>1. Zero(zeroes) = <<"0">> /\ "0" \in FormatChars
    BY <1>1, Parts DEF Zero
  <2>2. Scan(State(1, f, 0, a, o), "0") = State(2, f \cup {"LZ"}, 0, a, o)
    BY ScanZero
  <2>3. Scanning!Folded(State(1, f, 0, a, o), <<"0">>) = Scan(State(1, f, 0, a, o), "0")
    BY <2>1, ScanOne
  <2>4. PICK g : g = f \cup {"LZ"}
    OBVIOUS
  <2>5. Seen(g, left, zeroes)
    BY <1>1, <2>4 DEF Seen, No
  <2>6. Scanning!Folded(State(1, f, 0, a, o), Zero(zeroes)) = State(2, g, 0, a, o)
    BY <2>1, <2>2, <2>3, <2>4
  <2>7. 2 \in {1, 2}
    OBVIOUS
  <2> QED BY <2>5, <2>6, <2>7 DEF Leads
<1>2. CASE ~zeroes
  <2>1. Zero(zeroes) = <<>>
    BY <1>2 DEF Zero
  <2>2. Seen(f, left, zeroes)
    BY <1>2 DEF Seen, No
  <2>3. Scanning!Folded(State(1, f, 0, a, o), <<>>) = State(1, f, 0, a, o)
    BY Scanning!FoldEmpty
  <2>4. Scanning!Folded(State(1, f, 0, a, o), Zero(zeroes)) = State(1, f, 0, a, o)
    BY <2>1, <2>3
  <2>5. 1 \in {1, 2}
    OBVIOUS
  <2> QED BY <2>2, <2>4, <2>5 DEF Leads
<1> QED BY <1>1, <1>2

\* A width takes the scanner from state st to the end of the width.
Widened(st, f, wd, a, o) ==
  \E u : /\ u \in {1, 2}
         /\ Scanning!Folded(State(st, f, 0, a, o), WidthText(wd)) = State(u, f, wd, a, o)

\* The width.
LEMMA WidthScan ==
  ASSUME NEW wd \in 0 .. LongMod - 1, NEW a, NEW o, NEW f, NEW st \in {1, 2}
  PROVE  /\ WidthText(wd) \in Seq(FormatChars)
         /\ Widened(st, f, wd, a, o)
<1>1. CASE wd = 0
  <2>1. WidthText(wd) = <<>>
    BY <1>1 DEF WidthText
  <2>2. PICK z : z = 0
    OBVIOUS
  <2>3. Scanning!Folded(State(st, f, z, a, o), <<>>) = State(st, f, z, a, o)
    BY Scanning!FoldEmpty
  <2> QED BY <1>1, <2>1, <2>2, <2>3, Parts DEF Widened
<1>2. CASE wd # 0
  <2>1. wd \in 1 .. LongMod - 1
    BY <1>2, PrintfAssumption
  <2>2. NumDigits(wd, 10, LowDigits) = Numeral(wd, 10, LowDigits)
    BY NumDigitsNumeral
  <2>3. WidthText(wd) = NumDigits(wd, 10, LowDigits)
    BY <1>2, <2>2 DEF WidthText
  <2>4. /\ NumDigits(wd, 10, LowDigits) \in Seq(FormatChars)
        /\ Scanning!Folded(State(st, f, 0, a, o), NumDigits(wd, 10, LowDigits)) = State(2, f, wd, a, o)
    BY <2>1, ScanDigits
  <2>5. 2 \in {1, 2}
    OBVIOUS
  <2> QED BY <2>3, <2>4, <2>5 DEF Widened
<1> QED BY <1>1, <1>2

\* The modifier is made of such characters.
LEMMA ModifierIs == ASSUME NEW mod \in WordModifiers PROVE mod \in Seq(FormatChars)
BY Parts DEF WordModifiers

\* A modifier leaves the flags of the padding.
LEMMA ModifierScan ==
  ASSUME NEW mod \in WordModifiers, NEW w, NEW a, NEW o, NEW f, NEW left, NEW zeroes,
         Seen(f, left, zeroes), NEW st \in {1, 2}
  PROVE  Leads(mod, State(st, f, w, a, o), {1, 2, 3}, left, zeroes, w, a, o)
<1>1. CASE mod = <<"l">>
  <2>1. "l" \in FormatChars
    BY Parts
  <2>2. Scan(State(st, f, w, a, o), "l") = State(3, f \cup {"32"}, w, a, o)
    BY ScanLong
  <2>3. Scanning!Folded(State(st, f, w, a, o), <<"l">>) = Scan(State(st, f, w, a, o), "l")
    BY <2>1, ScanOne
  <2>4. PICK g : g = f \cup {"32"}
    OBVIOUS
  <2>5. Seen(g, left, zeroes)
    BY <2>4 DEF Seen
  <2>6. Scanning!Folded(State(st, f, w, a, o), mod) = State(3, g, w, a, o)
    BY <1>1, <2>2, <2>3, <2>4
  <2>7. 3 \in {1, 2, 3}
    OBVIOUS
  <2> QED BY <2>5, <2>6, <2>7 DEF Leads
<1>2. CASE mod = <<"N">>
  <2>1. "N" \in FormatChars
    BY Parts
  <2>2. Scan(State(st, f, w, a, o), "N") = State(3, f, w, a, o)
    BY ScanNear
  <2>3. Scanning!Folded(State(st, f, w, a, o), <<"N">>) = Scan(State(st, f, w, a, o), "N")
    BY <2>1, ScanOne
  <2>4. Scanning!Folded(State(st, f, w, a, o), mod) = State(3, f, w, a, o)
    BY <1>2, <2>2, <2>3
  <2>5. 3 \in {1, 2, 3}
    OBVIOUS
  <2> QED BY <2>4, <2>5 DEF Leads
<1>3. CASE mod = <<>>
  <2>1. Scanning!Folded(State(st, f, w, a, o), <<>>) = State(st, f, w, a, o)
    BY Scanning!FoldEmpty
  <2>2. st \in {1, 2, 3}
    OBVIOUS
  <2>3. Scanning!Folded(State(st, f, w, a, o), mod) = State(st, f, w, a, o)
    BY <1>3, <2>1
  <2> QED BY <2>2, <2>3 DEF Leads
<1> QED BY <1>1, <1>2, <1>3 DEF WordModifiers

\* The characters of the texts.
TextChars == {LowDigits[i] : i \in 1 .. 16} \cup {CapDigits[i] : i \in 1 .. 16}
               \cup {"<", "-", " ", "0", "%", "a", "s", ">"}

\* The sign, and the order in which it, the padding and the digits come.
Sign(minus) == IF minus THEN <<"-">> ELSE <<>>
Shape(left, zeroes, gap, sign, num) ==
  CASE left -> sign \o num \o Fill(" ", gap)
    [] ~left /\ zeroes -> sign \o Fill("0", gap) \o num
    [] OTHER -> Fill(" ", gap) \o sign \o num

\* Padding is as long as it has to be.
LEMMA FillType ==
  ASSUME NEW E, NEW c \in E, NEW n \in Int
  PROVE  Fill(c, n) \in Seq(E)
<1>1. PICK k \in Nat : k = IF n > 0 THEN n ELSE 0
  <2>1. (IF n > 0 THEN n ELSE 0) \in Nat
    OBVIOUS
  <2> QED BY <2>1
<1>2. Fill(c, n) = [i \in 1 .. k |-> c]
  BY <1>1 DEF Fill
<1>3. [i \in 1 .. k |-> c] \in [1 .. k -> E]
  OBVIOUS
<1> QED BY <1>2, <1>3, SeqDef

\* What EMIT is given, and the gap that is left in the field.
Given(f, left, zeroes, w, num, minus, gap) ==
  /\ left \in BOOLEAN /\ zeroes \in BOOLEAN /\ Seen(f, left, zeroes)
  /\ w \in Nat /\ num \in Seq(TextChars) /\ minus \in BOOLEAN
  /\ gap = w - Len(Sign(minus)) - Len(num)

\* EMIT puts them in that order.
LEMMA FieldShape ==
  ASSUME NEW f, NEW left, NEW zeroes, NEW w, NEW num, NEW minus, NEW gap,
         Given(f, left, zeroes, w, num, minus, gap)
  PROVE  /\ FieldText(f, w, num, minus) = Shape(left, zeroes, gap, Sign(minus), num)
         /\ FieldText(f, w, num, minus) \in Seq(TextChars)
<1>0. /\ left \in BOOLEAN /\ zeroes \in BOOLEAN /\ Seen(f, left, zeroes)
      /\ w \in Nat /\ num \in Seq(TextChars) /\ minus \in BOOLEAN
  BY DEF Given
<1>1. {"-", " ", "0"} \subseteq TextChars
  BY DEF TextChars
<1>2. PICK none \in Seq(TextChars) : none = <<>>
  <2>1. <<>> \in Seq(TextChars)
    OBVIOUS
  <2> QED BY <2>1
<1>3. PICK sign \in Seq(TextChars) : sign = Sign(minus)
  <2>1. <<"-">> \in Seq(TextChars)
    <3>1. PICK c \in TextChars : c = "-"
      BY <1>1
    <3>2. <<c>> \in Seq(TextChars)
      OBVIOUS
    <3> QED BY <3>1, <3>2
  <2>2. Sign(minus) \in Seq(TextChars)
    BY <1>2, <2>1 DEF Sign
  <2> QED BY <2>2
<1>4. PICK n \in Nat : n = Len(num)
  BY <1>0, LenProperties
<1>5. PICK k \in Nat : k = Len(sign)
  BY LenProperties
<1>6. gap \in Int /\ gap = w - (n + k)
  <2>1. gap = w - k - n
    BY <1>3, <1>4, <1>5 DEF Given
  <2> QED BY <1>0, <2>1
<1>7. PICK spaces \in Seq(TextChars) : spaces = Fill(" ", gap)
  BY <1>1, <1>6, FillType
<1>8. PICK zs \in Seq(TextChars) : zs = Fill("0", gap)
  BY <1>1, <1>6, FillType
<1>9. /\ \A s \in Seq(TextChars) : none \o s = s /\ s \o none = s
      /\ \A s, t \in Seq(TextChars) : s \o t \in Seq(TextChars)
  BY <1>2, EmptyAround, ConcatProperties
<1>10. FieldText(f, w, num, minus)
         = (IF zeroes THEN sign ELSE none)
             \o (IF left THEN none ELSE IF zeroes THEN zs ELSE spaces)
             \o (IF zeroes THEN none ELSE sign)
             \o num \o (IF left THEN spaces ELSE none)
  <2>1. ("LJ" \in f <=> left) /\ ("LZ" \in f <=> zeroes)
    BY <1>0 DEF Seen
  <2>2. w - (Len(num) + Len(Sign(minus))) = gap
    BY <1>3, <1>4, <1>5, <1>6
  <2>3. FieldText(f, w, num, minus)
          = LET left1 == IF "LJ" \in f THEN <<>>
                         ELSE Fill(IF "LZ" \in f THEN "0" ELSE " ", gap)
            IN  (IF "LZ" \in f THEN Sign(minus) ELSE <<>>) \o left1
                  \o (IF "LZ" \in f THEN <<>> ELSE Sign(minus)) \o num
                  \o (IF "LJ" \in f THEN Fill(" ", gap) ELSE <<>>)
    BY <2>2 DEF FieldText, Sign
  <2>4. (IF "LZ" \in f THEN Sign(minus) ELSE <<>>) = IF zeroes THEN sign ELSE none
    BY <1>2, <1>3, <2>1
  <2>5. (IF "LJ" \in f THEN <<>> ELSE Fill(IF "LZ" \in f THEN "0" ELSE " ", gap))
          = IF left THEN none ELSE IF zeroes THEN zs ELSE spaces
    BY <1>2, <1>7, <1>8, <2>1
  <2>6. (IF "LZ" \in f THEN <<>> ELSE Sign(minus)) = IF zeroes THEN none ELSE sign
    BY <1>2, <1>3, <2>1
  <2>7. (IF "LJ" \in f THEN Fill(" ", gap) ELSE <<>>) = IF left THEN spaces ELSE none
    BY <1>2, <1>7, <2>1
  <2> QED BY <2>3, <2>4, <2>5, <2>6, <2>7
<1>11. PICK all : all = FieldText(f, w, num, minus)
  OBVIOUS
<1>12. all \in Seq(TextChars) /\ all = Shape(left, zeroes, gap, sign, num)
  <2>1. CASE left /\ zeroes
    <3>1. all = sign \o none \o none \o num \o spaces
      BY <1>10, <1>11, <2>1
    <3>2. all = sign \o num \o spaces
      BY <1>0, <1>9, <3>1
    <3>3. all \in Seq(TextChars)
      BY <1>0, <1>9, <3>2
    <3> QED BY <1>7, <2>1, <3>2, <3>3 DEF Shape
  <2>2. CASE left /\ ~zeroes
    <3>1. all = none \o none \o sign \o num \o spaces
      BY <1>10, <1>11, <2>2
    <3>2. all = sign \o num \o spaces
      BY <1>0, <1>9, <3>1
    <3>3. all \in Seq(TextChars)
      BY <1>0, <1>9, <3>2
    <3> QED BY <1>7, <2>2, <3>2, <3>3 DEF Shape
  <2>3. CASE ~left /\ zeroes
    <3>1. all = sign \o zs \o none \o num \o none
      BY <1>10, <1>11, <2>3
    <3>2. sign \o zs \in Seq(TextChars) /\ sign \o zs \o num \in Seq(TextChars)
      BY <1>0, <1>9
    <3>3. all = sign \o zs \o num
      BY <1>0, <1>9, <3>1, <3>2
    <3> QED BY <1>8, <2>3, <3>2, <3>3 DEF Shape
  <2>4. CASE ~left /\ ~zeroes
    <3>1. all = none \o spaces \o sign \o num \o none
      BY <1>10, <1>11, <2>4
    <3>2. spaces \o sign \in Seq(TextChars) /\ spaces \o sign \o num \in Seq(TextChars)
      BY <1>0, <1>9
    <3>3. all = spaces \o sign \o num
      BY <1>0, <1>9, <3>1, <3>2
    <3> QED BY <1>7, <2>4, <3>2, <3>3 DEF Shape
  <2> QED BY <1>0, <2>1, <2>2, <2>3, <2>4
<1> QED BY <1>3, <1>11, <1>12

\* The capital table holds a character of a text for every digit, and so does the other.
LEMMA TextTables ==
  ASSUME NEW c, NEW radix \in {8, 10, 16}
  PROVE  Table(TextChars, TableOf(c), radix)
<1>1. \A i \in 1 .. radix : i \in 1 .. 16
  OBVIOUS
<1>2. \A i \in 1 .. 16 : LowDigits[i] \in TextChars /\ CapDigits[i] \in TextChars
  BY DEF TextChars
<1>3. TableOf(c) = LowDigits \/ TableOf(c) = CapDigits
  BY DEF TableOf
<1> QED BY <1>1, <1>2, <1>3 DEF Table

\* The conversion of a number prints what the head comment says.
LEMMA NumberExpected ==
  ASSUME NEW f, NEW left \in BOOLEAN, NEW zeroes \in BOOLEAN, Seen(f, left, zeroes),
         NEW wd \in 0 .. LongMod - 1, NEW conv \in DOMAIN Radix, NEW w \in 0 .. LongMod - 1,
         NEW a, Head(a) = w
  PROVE  /\ NumberText(f, wd, a, conv) = Expected(left, zeroes, wd, conv, w)
         /\ NumberText(f, wd, a, conv) \in Seq(TextChars)
<1>1. LongMod \in Nat /\ LongMod > 10 /\ wd \in Nat
  BY PrintfAssumption, FormatsAssumption
<1>2. PICK radix \in {8, 10, 16} : radix = Radix[conv]
  BY DEF Radix
<1>3. PICK table : table = TableOf(conv)
  OBVIOUS
<1>4. ASSUME NEW n \in 0 .. LongMod - 1
      PROVE  /\ NumDigits(n, radix, table) = Numeral(n, radix, table)
             /\ NumDigits(n, radix, table) \in Seq(TextChars)
  <2>1. radix \in Nat \ {0, 1}
    OBVIOUS
  <2>2. Table(TextChars, table, radix)
    BY <1>3, TextTables
  <2> QED BY <2>1, <2>2, NumDigitsType, NumDigitsNumeral
<1>5. PICK g : g = f \cup Signed(conv)
  OBVIOUS
<1>6. "16" \notin g /\ ("SG" \in g <=> conv \in {"d", "i"})
  BY <1>5 DEF Seen, Signed
<1>7. PICK half \in Nat : half = LongMod \div 2
  <2>1. LongMod \div 2 \in Nat
    BY <1>1, Z3
  <2> QED BY <2>1
<1>8. half > 0
  BY <1>1, <1>7, Z3
<1>9. PICK v : v = Value(g, w)
  OBVIOUS
<1>10. NumberText(f, wd, a, conv) = FieldText(f, wd, NumDigits(v.num, radix, table), v.neg)
  BY <1>2, <1>3, <1>5, <1>9 DEF NumberText
<1>11. CASE conv \in {"d", "i"} /\ w >= half
  <2>1. v.neg = TRUE /\ v.num = LongMod - w /\ LongMod - w \in 0 .. LongMod - 1
    BY <1>6, <1>7, <1>9, <1>11, ValueIs
  <2>2. PICK m \in 0 .. LongMod - 1 : m = LongMod - w
    BY <2>1
  <2>3. PICK num \in Seq(TextChars) : num = NumDigits(m, radix, table) /\ num = Numeral(m, radix, table)
    BY <1>4
  <2>4. PICK gap : gap = wd - Len(Sign(TRUE)) - Len(num)
    OBVIOUS
  <2>5. PICK t : t = FieldText(f, wd, num, TRUE)
    OBVIOUS
  <2>6. t = Shape(left, zeroes, gap, Sign(TRUE), num) /\ t \in Seq(TextChars)
    <3>1. PICK yes \in BOOLEAN : yes = TRUE
      OBVIOUS
    <3>2. Given(f, left, zeroes, wd, num, yes, gap)
      BY <1>1, <2>4, <3>1 DEF Given
    <3>3. FieldText(f, wd, num, yes) = Shape(left, zeroes, gap, Sign(yes), num)
      BY <3>2, FieldShape
    <3>4. FieldText(f, wd, num, yes) \in Seq(TextChars)
      BY <3>2, FieldShape
    <3> QED BY <2>5, <3>1, <3>3, <3>4
  <2>7. PICK i \in Int : i = w - LongMod /\ i < 0 /\ 0 - i = m
    <3>1. w - LongMod \in Int /\ w - LongMod < 0 /\ 0 - (w - LongMod) = m
      BY <1>1, <2>2
    <3> QED BY <3>1
  <2>8. (IF conv \in {"d", "i"} /\ w >= LongMod \div 2 THEN w - LongMod ELSE w) = i
    BY <1>7, <1>11, <2>7
  <2>9. Expected(left, zeroes, wd, conv, w) = Shape(left, zeroes, gap, Sign(TRUE), num)
    <3>1. (IF i < 0 THEN <<"-">> ELSE <<>>) = Sign(TRUE)
      BY <2>7 DEF Sign
    <3>2. Numeral(IF i < 0 THEN 0 - i ELSE i, Radix[conv],
                  IF conv = "X" THEN CapDigits ELSE LowDigits) = num
      BY <1>2, <1>3, <2>3, <2>7 DEF TableOf
    <3> QED BY <2>4, <2>8, <3>1, <3>2 DEF Expected, Shape
  <2> QED BY <1>10, <2>1, <2>2, <2>3, <2>5, <2>6, <2>9
<1>12. CASE ~(conv \in {"d", "i"} /\ w >= half)
  <2>1. v.neg = No /\ v.num = w
    BY <1>6, <1>7, <1>9, <1>12, ValueIs
  <2>2. PICK num \in Seq(TextChars) : num = NumDigits(w, radix, table) /\ num = Numeral(w, radix, table)
    BY <1>4
  <2>3. PICK gap : gap = wd - Len(Sign(No)) - Len(num)
    OBVIOUS
  <2>4. PICK t : t = FieldText(f, wd, num, No)
    OBVIOUS
  <2>5. t = Shape(left, zeroes, gap, Sign(No), num) /\ t \in Seq(TextChars)
    <3>1. PICK no \in BOOLEAN : no = No
      BY DEF No
    <3>2. Given(f, left, zeroes, wd, num, no, gap)
      BY <1>1, <2>3, <3>1 DEF Given
    <3>3. FieldText(f, wd, num, no) = Shape(left, zeroes, gap, Sign(no), num)
      BY <3>2, FieldShape
    <3>4. FieldText(f, wd, num, no) \in Seq(TextChars)
      BY <3>2, FieldShape
    <3> QED BY <2>4, <3>1, <3>3, <3>4
  <2>6. ~(w < 0)
    BY <1>1
  <2>7. (IF conv \in {"d", "i"} /\ w >= LongMod \div 2 THEN w - LongMod ELSE w) = w
    BY <1>7, <1>12
  <2>8. Expected(left, zeroes, wd, conv, w) = Shape(left, zeroes, gap, Sign(No), num)
    <3>1. (IF w < 0 THEN <<"-">> ELSE <<>>) = Sign(No)
      BY <2>6 DEF Sign, No
    <3>2. Numeral(IF w < 0 THEN 0 - w ELSE w, Radix[conv],
                  IF conv = "X" THEN CapDigits ELSE LowDigits) = num
      BY <1>2, <1>3, <2>2, <2>6 DEF TableOf
    <3> QED BY <2>3, <2>7, <3>1, <3>2 DEF Expected, Shape
  <2> QED BY <1>10, <2>1, <2>2, <2>4, <2>5, <2>8
<1> QED BY <1>11, <1>12

\* What the second one holds comes after.
LEMMA LaterOf ==
  ASSUME NEW E, NEW s \in Seq(E), NEW t \in Seq(E), NEW u, u = s \o t
  PROVE  \A i \in 1 .. Len(t) : u[Len(s) + i] = t[i]
BY ConcatProperties

\* The tenth digit.
LEMMA TenIs == NumDigits(10, 16, LowDigits) = <<"a">>
<1>1. PICK E : E = {Digits[i] : i \in 1 .. 10} \cup {"a", "b", "c", "d", "e", "f"}
  OBVIOUS
<1>2. PICK s \in Seq(E) : s = <<"a", "b", "c", "d", "e", "f">>
  <2>1. <<"a", "b", "c", "d", "e", "f">> \in Seq(E)
    BY <1>1
  <2> QED BY <2>1
<1>3. PICK D \in Seq(E) : D = Digits /\ Len(D) = 10
  <2>1. Len(Digits) = 10 /\ \A i \in 1 .. 10 : Digits[i] \in E
    BY <1>1 DEF Digits
  <2>2. Digits \in Seq(E)
    BY <2>1 DEF Digits
  <2> QED BY <2>1, <2>2
<1>4. PICK L : L = D \o s
  OBVIOUS
<1>5. \A i \in 1 .. Len(s) : L[Len(D) + i] = s[i]
  BY <1>4, LaterOf
<1>6. Len(s) = 6 /\ s[1] = "a"
  BY <1>2
<1>7. L[10 + 1] = "a"
  <2>1. 1 \in 1 .. Len(s)
    BY <1>6
  <2>2. L[Len(D) + 1] = s[1]
    BY <1>5, <2>1
  <2> QED BY <1>3, <1>6, <2>2
<1>8. LowDigits = L
  BY <1>2, <1>3, <1>4 DEF LowDigits
<1>9. NumDigits(10, 16, LowDigits) = <<LowDigits[10 + 1]>>
  <2>1. PICK n \in 0 .. LongMod - 1 : n = 10
    BY PrintfAssumption, FormatsAssumption
  <2>2. 16 \in Nat \ {0, 1} /\ n < 16
    BY <2>1
  <2>3. NumDigits(n, 16, LowDigits) = <<LowDigits[n + 1]>>
    BY <2>2, NumDigitsIs
  <2> QED BY <2>1, <2>3
<1> QED BY <1>7, <1>8, <1>9

\* w begins with s and goes on with t.
Glues(s, t, w) ==
  /\ Len(w) = Len(s) + Len(t)
  /\ \A i \in 1 .. Len(s) : w[i] = s[i]
  /\ \A i \in 1 .. Len(t) : w[Len(s) + i] = t[i]

\* Then it is the two of them.
LEMMA Glued ==
  ASSUME NEW E, NEW s \in Seq(E), NEW t \in Seq(E), NEW w \in Seq(E), Glues(s, t, w)
  PROVE  s \o t = w
<1>1. PICK u : u = s \o t
  OBVIOUS
<1>2. PICK n \in Nat : n = Len(s)
  BY LenProperties
<1>3. PICK m \in Nat : m = Len(t)
  BY LenProperties
<1>4. u \in Seq(E) /\ Len(u) = n + m
  BY <1>1, <1>2, <1>3, Concatenated
<1>5. \A i \in 1 .. n : u[i] = s[i]
  BY <1>1, <1>2, FirstOf
<1>6. \A i \in 1 .. m : u[n + i] = t[i]
  BY <1>1, <1>2, <1>3, LaterOf
<1>7. Len(w) = n + m /\ (\A i \in 1 .. n : w[i] = s[i]) /\ \A i \in 1 .. m : w[n + i] = t[i]
  BY <1>2, <1>3 DEF Glues
<1>8. ASSUME NEW i \in 1 .. n + m PROVE u[i] = w[i]
  <2>1. CASE i \in 1 .. n
    BY <1>5, <1>7, <2>1
  <2>2. CASE i \in n + 1 .. n + m
    <3>1. PICK j \in 1 .. m : i = n + j
      <4>1. i - n \in 1 .. m /\ i = n + (i - n)
        BY <2>2
      <4> QED BY <4>1
    <3>2. u[n + j] = t[j] /\ w[n + j] = t[j]
      BY <1>6, <1>7
    <3> QED BY <3>1, <3>2
  <2> QED BY <2>1, <2>2
<1>9. u = w
  BY <1>4, <1>7, <1>8, SeqEqual
<1> QED BY <1>1, <1>9

\* The text of "%3s" for a string of one character.
LEMMA ThreeIs ==
  ASSUME NEW a, Head(a) = <<"s">>
  PROVE  StringText({}, 3, a) = <<" ", " ", "s">>
<1>1. PICK f : f = {} \ {"LZ"}
  OBVIOUS
<1>2. PICK no \in BOOLEAN : no = No
  BY DEF No
<1>3. Seen(f, no, no)
  BY <1>1, <1>2 DEF Seen, No
<1>4. PICK num \in Seq(TextChars) : num = <<"s">>
  <2>1. PICK c \in TextChars : c = "s"
    BY DEF TextChars
  <2>2. <<c>> \in Seq(TextChars)
    OBVIOUS
  <2> QED BY <2>1, <2>2
<1>5. Sign(no) = <<>> /\ Len(Sign(no)) = 0 /\ Len(num) = 1
  BY <1>2, <1>4 DEF Sign, No
<1>6. Given(f, no, no, 3, num, no, 2)
  BY <1>3, <1>5 DEF Given
<1>7. FieldText(f, 3, num, no) = Shape(no, no, 2, Sign(no), num)
  BY <1>6, FieldShape
<1>8. Shape(no, no, 2, Sign(no), num) = Fill(" ", 2) \o <<>> \o num
  BY <1>2, <1>5 DEF Shape, No
<1>9. PICK sp \in TextChars : sp = " "
  BY DEF TextChars
<1>10. PICK t \in Seq(TextChars) : t = <<sp, sp>>
  <2>1. <<sp, sp>> \in Seq(TextChars)
    OBVIOUS
  <2> QED BY <2>1
<1>11. Fill(" ", 2) = t
  <2>1. PICK k \in Nat : k = IF 2 > 0 THEN 2 ELSE 0
    OBVIOUS
  <2>2. Fill(" ", 2) = [i \in 1 .. k |-> sp]
    BY <1>9, <2>1 DEF Fill
  <2>3. k = 2
    BY <2>1
  <2>4. [i \in 1 .. 2 |-> sp] = <<sp, sp>>
    OBVIOUS
  <2> QED BY <1>10, <2>2, <2>3, <2>4
<1>12. t \o <<>> = t
  BY EmptyAround
<1>13. PICK c \in TextChars : c = "s"
  BY DEF TextChars
<1>14. PICK u \in Seq(TextChars) : u = <<sp, sp, c>>
  <2>1. <<sp, sp, c>> \in Seq(TextChars)
    OBVIOUS
  <2> QED BY <2>1
<1>15. t \o num = u
  <2>1. Len(t) = 2 /\ t[1] = sp /\ t[2] = sp /\ num[1] = c
    BY <1>4, <1>10, <1>13
  <2>2. Len(u) = 3 /\ u[1] = sp /\ u[2] = sp /\ u[3] = c
    BY <1>14
  <2>3. \A i \in 1 .. 2 : i = 1 \/ i = 2
    OBVIOUS
  <2>4. Glues(t, num, u)
    BY <1>5, <2>1, <2>2, <2>3 DEF Glues
  <2> QED BY <2>4, Glued
<1> QED BY <1>1, <1>2, <1>4, <1>7, <1>8, <1>9, <1>11, <1>12, <1>13, <1>14, <1>15 DEF StringText

\* One text after another, where only the grouping matters.
Cat(s, t) == s \o t

\* It is a text.
LEMMA CatType == ASSUME NEW E, NEW s \in Seq(E), NEW t \in Seq(E) PROVE Cat(s, t) \in Seq(E)
BY ConcatProperties DEF Cat

\* However they are grouped.
LEMMA CatGrouped ==
  ASSUME NEW E, NEW s \in Seq(E), NEW t \in Seq(E), NEW u \in Seq(E)
  PROVE  Cat(Cat(s, t), u) = Cat(s, Cat(t, u))
BY ConcatAssociative DEF Cat

\* What the rest of the format prints, piece by piece.
LEMMA EndText ==
  ASSUME NEW o \in Seq(TextChars)
  PROVE  o \o <<"%">> \o <<"a">> \o <<" ", " ", "s">> \o <<">">>
           = o \o <<"%", "a", " ", " ", "s", ">">>
<1>1. PICK x \in TextChars : x = "%"
  BY DEF TextChars
<1>2. PICK y \in TextChars : y = "a"
  BY DEF TextChars
<1>3. PICK b \in TextChars : b = " "
  BY DEF TextChars
<1>4. PICK c \in TextChars : c = "s"
  BY DEF TextChars
<1>5. PICK z \in TextChars : z = ">"
  BY DEF TextChars
<1>6. PICK p \in Seq(TextChars) : p = <<x>>
  <2>1. <<x>> \in Seq(TextChars)
    OBVIOUS
  <2> QED BY <2>1
<1>7. PICK q \in Seq(TextChars) : q = <<y>>
  <2>1. <<y>> \in Seq(TextChars)
    OBVIOUS
  <2> QED BY <2>1
<1>8. PICK r \in Seq(TextChars) : r = <<b, b, c>>
  <2>1. <<b, b, c>> \in Seq(TextChars)
    OBVIOUS
  <2> QED BY <2>1
<1>9. PICK t \in Seq(TextChars) : t = <<z>>
  <2>1. <<z>> \in Seq(TextChars)
    OBVIOUS
  <2> QED BY <2>1
<1>10. PICK pq \in Seq(TextChars) : pq = <<x, y>>
  <2>1. <<x, y>> \in Seq(TextChars)
    OBVIOUS
  <2> QED BY <2>1
<1>11. PICK qr \in Seq(TextChars) : qr = <<x, y, b, b, c>>
  <2>1. <<x, y, b, b, c>> \in Seq(TextChars)
    OBVIOUS
  <2> QED BY <2>1
<1>12. PICK all \in Seq(TextChars) : all = <<x, y, b, b, c, z>>
  <2>1. <<x, y, b, b, c, z>> \in Seq(TextChars)
    OBVIOUS
  <2> QED BY <2>1
<1>13. Cat(p, q) = pq
  <2>1. Len(p) = 1 /\ p[1] = x /\ Len(q) = 1 /\ q[1] = y /\ Len(pq) = 2 /\ pq[1] = x /\ pq[2] = y
    BY <1>6, <1>7, <1>10
  <2>2. Glues(p, q, pq)
    BY <2>1 DEF Glues
  <2> QED BY <2>2, Glued DEF Cat
<1>14. Cat(pq, r) = qr
  <2>1. Len(pq) = 2 /\ pq[1] = x /\ pq[2] = y
    BY <1>10
  <2>2. Len(r) = 3 /\ r[1] = b /\ r[2] = b /\ r[3] = c
    BY <1>8
  <2>3. Len(qr) = 5 /\ qr[1] = x /\ qr[2] = y /\ qr[3] = b /\ qr[4] = b /\ qr[5] = c
    BY <1>11
  <2>4. (\A i \in 1 .. 2 : i = 1 \/ i = 2) /\ (\A i \in 1 .. 3 : i = 1 \/ i = 2 \/ i = 3)
    OBVIOUS
  <2>5. Glues(pq, r, qr)
    BY <2>1, <2>2, <2>3, <2>4 DEF Glues
  <2> QED BY <2>5, Glued DEF Cat
<1>15. Cat(qr, t) = all
  <2>1. Len(qr) = 5 /\ qr[1] = x /\ qr[2] = y /\ qr[3] = b /\ qr[4] = b /\ qr[5] = c
    BY <1>11
  <2>2. Len(t) = 1 /\ t[1] = z
    BY <1>9
  <2>3. /\ Len(all) = 6 /\ all[1] = x /\ all[2] = y /\ all[3] = b /\ all[4] = b /\ all[5] = c
        /\ all[6] = z
    BY <1>12
  <2>4. \A i \in 1 .. 5 : i = 1 \/ i = 2 \/ i = 3 \/ i = 4 \/ i = 5
    OBVIOUS
  <2>5. Glues(qr, t, all)
    BY <2>1, <2>2, <2>3, <2>4 DEF Glues
  <2> QED BY <2>5, Glued DEF Cat
<1>16. Cat(Cat(o, p), q) = Cat(o, pq)
  BY <1>13, CatGrouped
<1>17. Cat(Cat(o, pq), r) = Cat(o, qr)
  BY <1>14, CatGrouped
<1>18. Cat(Cat(o, qr), t) = Cat(o, all)
  BY <1>15, CatGrouped
<1>19. Cat(Cat(Cat(Cat(o, p), q), r), t) = Cat(o, all)
  BY <1>16, <1>17, <1>18
<1>20. ((((o \o p) \o q) \o r) \o t) = o \o all
  BY <1>19 DEF Cat
<1> QED BY <1>1, <1>2, <1>3, <1>4, <1>5, <1>6, <1>7, <1>8, <1>9, <1>12, <1>20

\* The rest of the format: "%%", a number, a string in a field, and a character.
EndFmt == <<"%", "%", "%", "x", "%", "3", "s", ">">>

\* It is scanned to its end, and prints its text after what was printed.
LEMMA EndScan ==
  ASSUME NEW o \in Seq(TextChars), NEW a, Head(a) = 10, Head(Tail(a)) = <<"s">>
  PROVE  /\ EndFmt \in Seq(FormatChars)
         /\ Scanning!Folded(State(0, {}, 0, a, o), EndFmt)
              = State(0, {}, 0, Tail(Tail(a)), o \o <<"%", "a", " ", " ", "s", ">">>)
<1>1. PICK fmt : fmt = EndFmt
  OBVIOUS
<1>2. /\ DOMAIN fmt = 1 .. 8
      /\ fmt[1] = "%" /\ fmt[2] = "%" /\ fmt[3] = "%" /\ fmt[4] = "x"
      /\ fmt[5] = "%" /\ fmt[6] = "3" /\ fmt[7] = "s" /\ fmt[8] = ">"
  BY <1>1 DEF EndFmt
<1>3. PICK a1 : a1 = Tail(a)
  OBVIOUS
<1>4. PICK g : /\ Scanning!Chain(g, State(0, {}, 0, a, o), fmt, 8)
               /\ Scanning!Folded(State(0, {}, 0, a, o), fmt) = g[8]
  <2>1. PICK b : b = State(0, {}, 0, a, o)
    OBVIOUS
  <2>2. PICK n \in Nat : n = 8
    OBVIOUS
  <2>3. PICK g : Scanning!Chain(g, b, fmt, n) /\ Scanning!Folded(b, fmt) = g[n]
    <3>1. DOMAIN fmt = 1 .. n
      BY <1>2, <2>2
    <3> QED BY <3>1, Scanning!FoldChain
  <2> QED BY <2>1, <2>2, <2>3
<1>5. \A i \in 1 .. 8 : g[i] = Scan(g[i - 1], fmt[i])
  BY <1>4 DEF Scanning!Chain
<1>6. /\ g[0] = State(0, {}, 0, a, o)
      /\ g[1] = Scan(g[0], "%") /\ g[2] = Scan(g[1], "%") /\ g[3] = Scan(g[2], "%")
      /\ g[4] = Scan(g[3], "x") /\ g[5] = Scan(g[4], "%") /\ g[6] = Scan(g[5], "3")
      /\ g[7] = Scan(g[6], "s") /\ g[8] = Scan(g[7], ">")
  BY <1>2, <1>4, <1>5 DEF Scanning!Chain
<1>7. PICK o1 : o1 = o \o <<"%">>
  OBVIOUS
<1>8. PICK o2 : o2 = o1 \o <<"a">>
  OBVIOUS
<1>9. PICK o3 : o3 = o2 \o <<" ", " ", "s">>
  OBVIOUS
<1>10. PICK o4 : o4 = o3 \o <<">">>
  OBVIOUS
<1>11. g[1] = State(1, {}, 0, a, o)
  BY <1>6, ScanPercent
<1>12. g[2] = State(0, {}, 0, a, o1)
  BY <1>6, <1>7, <1>11, ScanBoth
<1>13. g[3] = State(1, {}, 0, a, o1)
  BY <1>6, <1>12, ScanPercent
<1>14. g[4] = State(0, {}, 0, a1, o2)
  <2>1. PICK n \in 0 .. LongMod - 1 : n = 10
    BY PrintfAssumption, FormatsAssumption
  <2>2. Scan(State(1, {}, 0, a, o1), "x") = State(0, {}, 0, Tail(a), o1 \o NumDigits(n, Radix["x"], LowDigits))
    BY <2>1, ScanNumber
  <2>3. Radix["x"] = 16
    BY DEF Radix
  <2> QED BY <1>3, <1>6, <1>8, <1>13, <2>1, <2>2, <2>3, TenIs
<1>15. g[5] = State(1, {}, 0, a1, o2)
  BY <1>6, <1>14, ScanPercent
<1>16. g[6] = State(2, {}, 3, a1, o2)
  <2>1. Digits[4] = "3"
    BY DEF Digits
  <2>2. Widens(1, 0, 4, 3)
    BY DEF Widens
  <2>3. Scan(State(1, {}, 0, a1, o2), Digits[4]) = State(2, {}, 3, a1, o2)
    BY <2>2, ScanWidth
  <2> QED BY <1>6, <1>15, <2>1, <2>3
<1>17. g[7] = State(0, {}, 0, Tail(a1), o3)
  <2>1. Scan(State(2, {}, 3, a1, o2), "s") = Convert(State(2, {}, 3, a1, o2), "s")
    BY ScanConversion
  <2>2. Convert(State(2, {}, 3, a1, o2), "s") = State(0, {}, 0, Tail(a1), o2 \o StringText({}, 3, a1))
    BY ConvertString
  <2>3. StringText({}, 3, a1) = <<" ", " ", "s">>
    BY <1>3, ThreeIs
  <2> QED BY <1>6, <1>9, <1>16, <2>1, <2>2, <2>3
<1>18. g[8] = State(0, {}, 0, Tail(a1), o4)
  <2>1. ">" # "%"
    OBVIOUS
  <2> QED BY <1>6, <1>10, <1>17, <2>1, ScanText
<1>19. o4 = o \o <<"%", "a", " ", " ", "s", ">">>
  BY <1>7, <1>8, <1>9, <1>10, EndText
<1>20. fmt \in Seq(FormatChars)
  <2>1. PICK m \in Nat : m = 8
    OBVIOUS
  <2>2. \A i \in 1 .. 8 : fmt[i] \in {"%", "x", "3", "s", ">"}
    <3>1. \A i \in 1 .. 8 : i = 1 \/ i = 2 \/ i = 3 \/ i = 4 \/ i = 5 \/ i = 6 \/ i = 7 \/ i = 8
      OBVIOUS
    <3> QED BY <1>2, <3>1
  <2>3. \A i \in 1 .. 8 : fmt[i] \in FormatChars
    BY <2>2, Parts
  <2>4. fmt = [i \in 1 .. 8 |-> fmt[i]]
    BY <1>1 DEF EndFmt
  <2>5. fmt \in [1 .. m -> FormatChars]
    BY <2>1, <2>3, <2>4
  <2> QED BY <2>5, SeqDef
<1> QED BY <1>1, <1>3, <1>4, <1>18, <1>19, <1>20

\* The specification of a conversion, before its letter.
Before(left, zeroes, wd, mod) == Minus(left) \o Zero(zeroes) \o WidthText(wd) \o mod

\* It leaves the flags and the width.
LEMMA BeforeScan ==
  ASSUME NEW left, NEW zeroes, NEW mod \in WordModifiers, NEW wd \in 0 .. LongMod - 1, NEW a, NEW o
  PROVE  /\ Before(left, zeroes, wd, mod) \in Seq(FormatChars)
         /\ Leads(Before(left, zeroes, wd, mod), State(1, {}, 0, a, o), {1, 2, 3},
                  left, zeroes, wd, a, o)
<1>1. PICK m \in Seq(FormatChars) : m = Minus(left)
  BY MinusIs
<1>2. PICK z \in Seq(FormatChars) : z = Zero(zeroes)
  BY ZeroIs
<1>3. PICK d \in Seq(FormatChars) : d = WidthText(wd)
  <2>1. 1 \in {1, 2}
    OBVIOUS
  <2> QED BY <2>1, WidthScan
<1>4. PICK l \in Seq(FormatChars) : l = mod
  BY ModifierIs
<1>5. PICK mz \in Seq(FormatChars) : mz = m \o z
  <2>1. m \o z \in Seq(FormatChars)
    BY ConcatProperties
  <2> QED BY <2>1
<1>6. PICK mzd \in Seq(FormatChars) : mzd = mz \o d
  <2>1. mz \o d \in Seq(FormatChars)
    BY ConcatProperties
  <2> QED BY <2>1
<1>7. PICK all \in Seq(FormatChars) : all = mzd \o l
  <2>1. mzd \o l \in Seq(FormatChars)
    BY ConcatProperties
  <2> QED BY <2>1
<1>8. Before(left, zeroes, wd, mod) = all
  BY <1>1, <1>2, <1>3, <1>4, <1>5, <1>6, <1>7 DEF Before
<1>9. PICK s : s = State(1, {}, 0, a, o)
  OBVIOUS
<1>10. PICK f1 : Seen(f1, left, No) /\ Scanning!Folded(s, m) = State(1, f1, 0, a, o)
  <2>1. Leads(Minus(left), State(1, {}, 0, a, o), {1}, left, No, 0, a, o)
    BY MinusScan
  <2>2. Leads(m, s, {1}, left, No, 0, a, o)
    BY <1>1, <1>9, <2>1
  <2> QED BY <2>2 DEF Leads
<1>11. PICK f2, u : /\ Seen(f2, left, zeroes) /\ u \in {1, 2}
                    /\ Scanning!Folded(State(1, f1, 0, a, o), z) = State(u, f2, 0, a, o)
  <2>1. Leads(Zero(zeroes), State(1, f1, 0, a, o), {1, 2}, left, zeroes, 0, a, o)
    BY <1>10, ZeroScan
  <2>2. Leads(z, State(1, f1, 0, a, o), {1, 2}, left, zeroes, 0, a, o)
    BY <1>2, <2>1
  <2> QED BY <2>2 DEF Leads
<1>12. PICK v : v \in {1, 2} /\ Scanning!Folded(State(u, f2, 0, a, o), d) = State(v, f2, wd, a, o)
  <2>1. Widened(u, f2, wd, a, o)
    BY <1>11, WidthScan
  <2> QED BY <1>3, <2>1 DEF Widened
<1>13. PICK f3, st : /\ Seen(f3, left, zeroes) /\ st \in {1, 2, 3}
                     /\ Scanning!Folded(State(v, f2, wd, a, o), l) = State(st, f3, wd, a, o)
  <2>1. Leads(mod, State(v, f2, wd, a, o), {1, 2, 3}, left, zeroes, wd, a, o)
    BY <1>11, <1>12, ModifierScan
  <2>2. Leads(l, State(v, f2, wd, a, o), {1, 2, 3}, left, zeroes, wd, a, o)
    BY <1>4, <2>1
  <2> QED BY <2>2 DEF Leads
<1>14. Scanning!Folded(s, mz) = Scanning!Folded(Scanning!Folded(s, m), z)
  BY <1>5, Scanning!FoldConcat
<1>15. Scanning!Folded(s, mzd) = Scanning!Folded(Scanning!Folded(s, mz), d)
  BY <1>6, Scanning!FoldConcat
<1>16. Scanning!Folded(s, all) = Scanning!Folded(Scanning!Folded(s, mzd), l)
  BY <1>7, Scanning!FoldConcat
<1>17. Scanning!Folded(s, all) = State(st, f3, wd, a, o)
  BY <1>10, <1>11, <1>12, <1>13, <1>14, <1>15, <1>16
<1>18. Leads(all, s, {1, 2, 3}, left, zeroes, wd, a, o)
  BY <1>13, <1>17 DEF Leads
<1> QED BY <1>8, <1>9, <1>18

\* A whole format of the runs prints what the head comment says.
Formatted(left, zeroes, mod, wd, conv, w) ==
  LET fmt == <<"<", "%">> \o (Before(left, zeroes, wd, mod) \o <<conv>>) \o EndFmt
      s   == do_printf(fmt, <<w, 10, <<"s">> >>)
  IN  /\ ~s.trapped
      /\ s.out = <<"<">> \o Expected(left, zeroes, wd, conv, w)
                   \o <<"%", "a", " ", " ", "s", ">">>

\* It does for every choice of flags, width, modifier, conversion and word.
LEMMA FormatScan ==
  ASSUME NEW left \in BOOLEAN, NEW zeroes \in BOOLEAN, NEW mod \in WordModifiers,
         NEW wd \in 0 .. LongMod - 1, NEW conv \in DOMAIN Radix, NEW w \in 0 .. LongMod - 1
  PROVE  Formatted(left, zeroes, mod, wd, conv, w)
<1>1. PICK a : a = <<w, 10, <<"s">> >>
  OBVIOUS
<1>2. Head(a) = w /\ Head(Tail(a)) = 10 /\ Head(Tail(Tail(a))) = <<"s">>
  BY <1>1
<1>3. PICK o \in Seq(TextChars) : o = <<"<">>
  <2>1. PICK c \in TextChars : c = "<"
    BY DEF TextChars
  <2>2. <<c>> \in Seq(TextChars)
    OBVIOUS
  <2> QED BY <2>1, <2>2
<1>4. PICK before \in Seq(FormatChars) : before = Before(left, zeroes, wd, mod)
  BY BeforeScan
<1>5. PICK f, st : /\ Seen(f, left, zeroes) /\ st \in {1, 2, 3}
                   /\ Scanning!Folded(State(1, {}, 0, a, o), before) = State(st, f, wd, a, o)
  <2>1. Leads(Before(left, zeroes, wd, mod), State(1, {}, 0, a, o), {1, 2, 3},
              left, zeroes, wd, a, o)
    BY BeforeScan
  <2>2. Leads(before, State(1, {}, 0, a, o), {1, 2, 3}, left, zeroes, wd, a, o)
    BY <1>4, <2>1
  <2> QED BY <2>2 DEF Leads
<1>6. PICK lt \in FormatChars : lt = "<"
  BY Parts
<1>7. PICK pc \in FormatChars : pc = "%"
  BY Parts
<1>8. PICK start \in Seq(FormatChars) : start = <<lt, pc>>
  <2>1. <<lt, pc>> \in Seq(FormatChars)
    OBVIOUS
  <2> QED BY <2>1
<1>9. PICK letter \in Seq(FormatChars) : letter = <<conv>>
  <2>1. PICK c \in FormatChars : c = conv
    BY DEF FormatChars
  <2>2. <<c>> \in Seq(FormatChars)
    OBVIOUS
  <2> QED BY <2>1, <2>2
<1>10. PICK spec \in Seq(FormatChars) : spec = before \o letter
  <2>1. before \o letter \in Seq(FormatChars)
    BY ConcatProperties
  <2> QED BY <2>1
<1>11. PICK first \in Seq(FormatChars) : first = start \o spec
  <2>1. start \o spec \in Seq(FormatChars)
    BY ConcatProperties
  <2> QED BY <2>1
<1>12. PICK end \in Seq(FormatChars) : end = EndFmt
  <2>1. Head(Tail(a)) = 10 /\ Head(Tail(Tail(a))) = <<"s">>
    BY <1>2
  <2>2. EndFmt \in Seq(FormatChars)
    BY <1>3, <2>1, EndScan
  <2> QED BY <2>2
<1>13. PICK fmt : fmt = first \o end
  OBVIOUS
<1>14. PICK e : e = <<>>
  OBVIOUS
<1>15. PICK s0 : s0 = State(0, {}, 0, a, e)
  OBVIOUS
<1>16. Scanning!Folded(s0, start) = State(1, {}, 0, a, o)
  <2>1. PICK one \in Seq(FormatChars) : one = <<lt>>
    <3>1. <<lt>> \in Seq(FormatChars)
      OBVIOUS
    <3> QED BY <3>1
  <2>2. start = Append(one, pc)
    BY <1>8, <2>1
  <2>3. Scanning!Folded(s0, start) = Scan(Scanning!Folded(s0, one), pc)
    BY <2>2, Scanning!FoldAppend
  <2>4. Scanning!Folded(s0, <<lt>>) = Scan(s0, lt)
    BY ScanOne
  <2>5. Scan(State(0, {}, 0, a, e), "<") = State(0, {}, 0, a, e \o <<"<">>)
    <3>1. "<" # "%"
      OBVIOUS
    <3> QED BY <3>1, ScanText
  <2>6. e \o <<"<">> = o
    BY <1>3, <1>14
  <2>7. Scan(State(0, {}, 0, a, o), "%") = State(1, {}, 0, a, o)
    BY ScanPercent
  <2> QED BY <1>6, <1>7, <1>15, <2>1, <2>3, <2>4, <2>5, <2>6, <2>7
<1>17. PICK text \in Seq(TextChars) : text = NumberText(f, wd, a, conv)
                                      /\ text = Expected(left, zeroes, wd, conv, w)
  <2>1. Seen(f, left, zeroes) /\ Head(a) = w
    BY <1>2, <1>5
  <2> QED BY <2>1, NumberExpected
<1>18. PICK ot \in Seq(TextChars) : ot = o \o text
  <2>1. o \o text \in Seq(TextChars)
    BY ConcatProperties
  <2> QED BY <2>1
<1>19. PICK a1 : a1 = Tail(a)
  OBVIOUS
<1>20. Scanning!Folded(State(st, f, wd, a, o), letter) = State(0, {}, 0, a1, ot)
  <2>1. Scan(State(st, f, wd, a, o), conv) = Convert(State(st, f, wd, a, o), conv)
    BY <1>5, ScanConversion
  <2>2. "16" \notin f
    BY <1>5 DEF Seen
  <2>3. Convert(State(st, f, wd, a, o), conv) = State(0, {}, 0, Tail(a), o \o NumberText(f, wd, a, conv))
    BY <2>2, ConvertNumber
  <2>4. Scanning!Folded(State(st, f, wd, a, o), <<conv>>) = Scan(State(st, f, wd, a, o), conv)
    BY ScanOne
  <2> QED BY <1>9, <1>17, <1>18, <1>19, <2>1, <2>3, <2>4
<1>21. Scanning!Folded(s0, first) = State(0, {}, 0, a1, ot)
  <2>1. Scanning!Folded(s0, first) = Scanning!Folded(Scanning!Folded(s0, start), spec)
    BY <1>11, Scanning!FoldConcat
  <2>2. PICK s1 : s1 = State(1, {}, 0, a, o)
    OBVIOUS
  <2>3. Scanning!Folded(s1, spec) = Scanning!Folded(Scanning!Folded(s1, before), letter)
    BY <1>10, Scanning!FoldConcat
  <2> QED BY <1>5, <1>16, <1>20, <2>1, <2>2, <2>3
<1>22. PICK all : all = ot \o <<"%", "a", " ", " ", "s", ">">>
  OBVIOUS
<1>23. Scanning!Folded(State(0, {}, 0, a1, ot), end) = State(0, {}, 0, Tail(Tail(a1)), all)
  <2>1. Head(a1) = 10 /\ Head(Tail(a1)) = <<"s">>
    BY <1>2, <1>19
  <2> QED BY <1>12, <1>22, <2>1, EndScan
<1>24. Scanning!Folded(s0, fmt) = Scanning!Folded(Scanning!Folded(s0, first), end)
  BY <1>13, Scanning!FoldConcat
<1>25. do_printf(fmt, a) = Scanning!Folded(s0, fmt)
  BY <1>14, <1>15, PrintfIs
<1>26. ~do_printf(fmt, a).trapped /\ do_printf(fmt, a).out = all
  BY <1>21, <1>23, <1>24, <1>25 DEF State, No
<1> QED BY <1>1, <1>3, <1>4, <1>6, <1>7, <1>8, <1>9, <1>10, <1>11, <1>12, <1>13, <1>17, <1>18, <1>22, <1>26 DEF Formatted

\* do_printf() prints every word with every combination of flags and width, no
\* modifier, N or l, and every number conversion as its head comment promises,
\* for every width and word an unsigned long holds (FormatsAsDocumented of the
\* runs).  The modifier h and the conversion c, listed as DONE too, stop the
\* compiled code and are no part of it.
THEOREM PrintfFormats == Spec => []FormatsAsDocumented
<1>1. FormatsAsDocumented
  <2> SUFFICES ASSUME NEW left \in BOOLEAN, NEW zeroes \in BOOLEAN, NEW mod \in WordModifiers,
                      NEW wd \in Widths, NEW conv \in DOMAIN Radix, NEW w \in Words
               PROVE  Formatted(left, zeroes, mod, wd, conv, w)
    BY DEF FormatsAsDocumented, Formatted, Before, Minus, Zero, EndFmt
  <2>1. wd \in 0 .. LongMod - 1 /\ w \in 0 .. LongMod - 1
    BY FormatsAssumption
  <2> QED BY <2>1, FormatScan
<1> QED BY <1>1, PTL

-----------------------------------------------------------------------------
(* What a text leaves behind *)

\* The locals of the scanner, all of them, whatever their values.
Truth(x) == x \in BOOLEAN
Sound(s) ==
  /\ Truth(s.trapped)
  /\ s = [state |-> s.state, flags |-> s.flags, wd |-> s.wd, args |-> s.args, out |-> s.out,
          trapped |-> s.trapped]

\* No flag and no width while the scanner awaits the next percent sign.
Clean(s) == Sound(s) /\ (s.state = 0 => s.flags = {} /\ s.wd = 0)

\* Assignments keep the others.
LEMMA PutSound ==
  ASSUME NEW s, Sound(s), NEW x
  PROVE  /\ Sound(PutState(s, x)) /\ Sound(PutFlags(s, x)) /\ Sound(PutWd(s, x))
         /\ Sound(PutArgs(s, x)) /\ Sound(PutOut(s, x))
         /\ Truth(x) => Sound(PutTrapped(s, x))
<1>1. Sound(PutState(s, x))
  BY DEF Sound, PutState
<1>2. Sound(PutFlags(s, x))
  BY DEF Sound, PutFlags
<1>3. Sound(PutWd(s, x))
  BY DEF Sound, PutWd
<1>4. Sound(PutArgs(s, x))
  BY DEF Sound, PutArgs
<1>5. Sound(PutOut(s, x))
  BY DEF Sound, PutOut
<1>6. ASSUME Truth(x) PROVE Sound(PutTrapped(s, x))
  BY <1>6 DEF Sound, PutTrapped
<1> QED BY <1>1, <1>2, <1>3, <1>4, <1>5, <1>6

\* Printing changes no other local, and the way back to the first state drops
\* flags and width.
LEMMA EmitClean ==
  ASSUME NEW s, Sound(s), NEW cs
  PROVE  /\ Sound(Emit(s, cs)) /\ Clean(Reset(s))
         /\ Clean(s) => Clean(Emit(s, cs))
<1>1. Emit(s, cs) = PutOut(s, s.out \o cs)
  BY DEF Emit, PutOut
<1>2. Sound(Emit(s, cs))
  BY <1>1, PutSound
<1>3. Reset(s) = PutWd(PutFlags(PutState(s, 0), {}), 0)
  BY DEF Reset, PutWd, PutFlags, PutState
<1>4. Sound(Reset(s))
  BY <1>3, PutSound
<1>5. Reset(s).flags = {} /\ Reset(s).wd = 0
  BY DEF Sound, Reset
<1>6. Emit(s, cs).state = s.state /\ Emit(s, cs).flags = s.flags /\ Emit(s, cs).wd = s.wd
  BY DEF Sound, Emit
<1> QED BY <1>2, <1>4, <1>5, <1>6 DEF Clean

\* A number and a string are printed, and their argument is used up.
LEMMA FieldSound ==
  ASSUME NEW s, Sound(s), NEW where, NEW minus
  PROVE  Sound(Field(s, where, minus))
<1>1. PICK cs : Field(s, where, minus) = Emit(s, cs)
  BY DEF Field
<1> QED BY <1>1, EmitClean

LEMMA NumberSound ==
  ASSUME NEW s, Sound(s), NEW radix, NEW table, NEW flags
  PROVE  Sound(Number(s, radix, table, flags))
<1>1. PICK v : v = Value(flags, Head(s.args))
  OBVIOUS
<1>2. PICK f : f = Field(s, NumDigits(v.num, radix, table), v.neg)
  OBVIOUS
<1>3. Sound(f)
  BY <1>2, FieldSound
<1>4. PICK g : g = PutArgs(f, Tail(f.args))
  OBVIOUS
<1>5. Sound(g)
  BY <1>3, <1>4, PutSound
<1>6. PICK x : x = (f.trapped \/ ("16" \in flags /\ "32" \notin flags))
  OBVIOUS
<1>7. Truth(x)
  BY <1>6 DEF Truth
<1>8. Number(s, radix, table, flags) = PutTrapped(g, x)
  BY <1>1, <1>2, <1>4, <1>6 DEF Number, PutTrapped, PutArgs
<1> QED BY <1>5, <1>7, <1>8, PutSound

\* Whatever letter ends a conversion, known or not, nothing of it is left.
LEMMA ConvertClean ==
  ASSUME NEW s, Sound(s), NEW c
  PROVE  Clean(Convert(s, c))
<1>1. ASSUME NEW r, NEW t, NEW f PROVE Clean(Reset(Number(s, r, t, f)))
  BY NumberSound, EmitClean
<1>2. CASE c = "X"
  <2>1. Convert(s, c) = Reset(Number(s, 16, CapDigits, s.flags))
    BY <1>2 DEF Convert
  <2> QED BY <1>1, <2>1
<1>3. CASE c \in {"x", "p", "n"}
  <2>1. Convert(s, c) = Reset(Number(s, 16, LowDigits, s.flags))
    BY <1>3 DEF Convert
  <2> QED BY <1>1, <2>1
<1>4. CASE c \in {"d", "i"}
  <2>1. Convert(s, c) = Reset(Number(s, 10, LowDigits, s.flags \cup {"SG"}))
    BY <1>4 DEF Convert
  <2> QED BY <1>1, <2>1
<1>5. CASE c = "u"
  <2>1. Convert(s, c) = Reset(Number(s, 10, LowDigits, s.flags))
    BY <1>5 DEF Convert
  <2> QED BY <1>1, <2>1
<1>6. CASE c = "o"
  <2>1. Convert(s, c) = Reset(Number(s, 8, LowDigits, s.flags))
    BY <1>6 DEF Convert
  <2> QED BY <1>1, <2>1
<1>7. CASE c \in {"s", "c"}
  <2>1. PICK p : p = PutFlags(s, s.flags \ {"LZ"})
    OBVIOUS
  <2>2. Sound(p)
    BY <2>1, PutSound
  <2>3. PICK f : f = Field(p, Head(s.args), FALSE)
    OBVIOUS
  <2>4. Sound(f)
    BY <2>2, <2>3, FieldSound
  <2>5. PICK g : g = PutArgs(f, Tail(f.args))
    OBVIOUS
  <2>6. Sound(g)
    BY <2>4, <2>5, PutSound
  <2>7. PICK x : x = (f.trapped \/ c = "c")
    OBVIOUS
  <2>8. Sound(PutTrapped(g, x))
    <3>1. Truth(x)
      BY <2>7 DEF Truth
    <3> QED BY <2>6, <3>1, PutSound
  <2>9. Convert(s, c) = Reset(PutTrapped(g, x))
    <3>1. Convert(s, c)
            = Reset([Field([s EXCEPT !.flags = @ \ {"LZ"}], Head(s.args), FALSE)
                       EXCEPT !.args = Tail(@), !.trapped = @ \/ c = "c"])
      BY <1>7 DEF Convert
    <3> QED BY <2>1, <2>3, <2>5, <2>7, <3>1 DEF PutFlags, PutArgs, PutTrapped
  <2> QED BY <2>8, <2>9, EmitClean
<1>8. CASE c \notin {"X", "x", "p", "n", "d", "i", "u", "o", "s", "c"}
  <2>1. Convert(s, c) = Reset(s)
    BY <1>8 DEF Convert
  <2> QED BY <2>1, EmitClean
<1> QED BY <1>2, <1>3, <1>4, <1>5, <1>6, <1>7, <1>8

\* A character, on whatever way through the states.
LEMMA ScanClean ==
  ASSUME NEW s, Clean(s), NEW c
  PROVE  Clean(Scan(s, c))
<1>1. Sound(s)
  BY DEF Clean
<1>2. ASSUME NEW n \in {1, 2, 3}, NEW f, NEW w PROVE Clean(PutWd(PutFlags(PutState(s, n), f), w))
  <2>1. Sound(PutWd(PutFlags(PutState(s, n), f), w))
    BY <1>1, PutSound
  <2>2. PutWd(PutFlags(PutState(s, n), f), w).state = n
    BY <1>1 DEF Sound, PutWd, PutFlags, PutState
  <2> QED BY <2>1, <2>2 DEF Clean
<1>3. Clean(Modifier(s, c))
  <2>1. ASSUME NEW f PROVE [s EXCEPT !.state = 3, !.flags = f] = PutWd(PutFlags(PutState(s, 3), f), s.wd)
    BY <1>1 DEF Sound, PutWd, PutFlags, PutState
  <2>2. [s EXCEPT !.state = 3] = PutWd(PutFlags(PutState(s, 3), s.flags), s.wd)
    BY <1>1 DEF Sound, PutWd, PutFlags, PutState
  <2>3. CASE c \in {"F", "l", "h"}
    <3>1. PICK f : f = s.flags \cup (CASE c = "F" -> {"FP"} [] c = "l" -> {"32"} [] OTHER -> {"16"})
      OBVIOUS
    <3>2. Modifier(s, c) = [s EXCEPT !.state = 3, !.flags = f]
      BY <2>3, <3>1 DEF Modifier
    <3>3. Clean(PutWd(PutFlags(PutState(s, 3), f), s.wd))
      BY <1>2
    <3>4. [s EXCEPT !.state = 3, !.flags = f] = PutWd(PutFlags(PutState(s, 3), f), s.wd)
      BY <2>1
    <3> QED BY <3>2, <3>3, <3>4
  <2>4. CASE c = "N"
    <3>1. Modifier(s, c) = [s EXCEPT !.state = 3]
      BY <2>4 DEF Modifier
    <3> QED BY <1>2, <2>2, <3>1
  <2>5. CASE c \notin {"F", "N", "l", "h"}
    <3>1. Modifier(s, c) = Convert(s, c)
      BY <2>5 DEF Modifier
    <3> QED BY <1>1, <3>1, ConvertClean
  <2> QED BY <2>3, <2>4, <2>5
<1>4. Clean(Width(s, c))
  <2>1. CASE IsDigit(c)
    <3>1. PICK w : Width(s, c) = [s EXCEPT !.state = 2, !.wd = w]
      BY <2>1 DEF Width
    <3>2. [s EXCEPT !.state = 2, !.wd = w] = PutWd(PutFlags(PutState(s, 2), s.flags), w)
      BY <1>1 DEF Sound, PutWd, PutFlags, PutState
    <3> QED BY <1>2, <3>1, <3>2
  <2>2. CASE ~IsDigit(c)
    <3>1. Width(s, c) = Modifier(s, c)
      BY <2>2 DEF Width
    <3> QED BY <1>3, <3>1
  <2> QED BY <2>1, <2>2
<1>5. Clean(Flag(s, c)) \/ s.state # 1
  <2> SUFFICES ASSUME s.state = 1 PROVE Clean(Flag(s, c))
    OBVIOUS
  <2>1. CASE c = "%"
    <3>1. Flag(s, c) = Reset(Emit(s, <<"%">>))
      BY <2>1 DEF Flag
    <3>2. Sound(Emit(s, <<"%">>))
      BY <1>1, EmitClean
    <3> QED BY <3>1, <3>2, EmitClean
  <2>2. CASE c = "-" /\ "LJ" \in s.flags
    <3>1. Flag(s, c) = Reset(s)
      BY <2>2 DEF Flag
    <3> QED BY <1>1, <3>1, EmitClean
  <2>3. CASE c = "-" /\ "LJ" \notin s.flags
    <3>1. PICK f : f = s.flags \cup {"LJ"}
      OBVIOUS
    <3>2. Flag(s, c) = [s EXCEPT !.flags = f]
      BY <2>3, <3>1 DEF Flag
    <3>3. [s EXCEPT !.flags = f] = PutWd(PutFlags(PutState(s, 1), f), s.wd)
      BY <1>1 DEF Sound, PutWd, PutFlags, PutState
    <3> QED BY <1>2, <3>2, <3>3
  <2>4. CASE c = "0"
    <3>1. PICK f : f = s.flags \cup {"LZ"}
      OBVIOUS
    <3>2. Flag(s, c) = [s EXCEPT !.state = 2, !.flags = f]
      BY <2>4, <3>1 DEF Flag
    <3>3. [s EXCEPT !.state = 2, !.flags = f] = PutWd(PutFlags(PutState(s, 2), f), s.wd)
      BY <1>1 DEF Sound, PutWd, PutFlags, PutState
    <3> QED BY <1>2, <3>2, <3>3
  <2>5. CASE c \notin {"%", "-", "0"}
    <3>1. Flag(s, c) = Width(s, c)
      BY <2>5 DEF Flag
    <3> QED BY <1>4, <3>1
  <2> QED BY <2>1, <2>2, <2>3, <2>4, <2>5
<1>6. CASE s.state = 0 /\ c = "%"
  <2>1. Scan(s, c) = [s EXCEPT !.state = 1]
    BY <1>6 DEF Scan
  <2>2. [s EXCEPT !.state = 1] = PutWd(PutFlags(PutState(s, 1), s.flags), s.wd)
    BY <1>1 DEF Sound, PutWd, PutFlags, PutState
  <2> QED BY <1>2, <2>1, <2>2
<1>7. CASE s.state = 0 /\ c # "%"
  <2>1. Scan(s, c) = Emit(s, <<c>>)
    BY <1>7 DEF Scan
  <2> QED BY <1>1, <2>1, EmitClean
<1>8. CASE s.state # 0
  <2>1. \/ s.state = 1 /\ Scan(s, c) = Flag(s, c)
        \/ Scan(s, c) = Width(s, c)
        \/ Scan(s, c) = Modifier(s, c)
    BY <1>8 DEF Scan
  <2> QED BY <1>3, <1>4, <1>5, <2>1
<1> QED BY <1>6, <1>7, <1>8

\* After any text the locals are clean.
LEMMA TextClean ==
  ASSUME NEW fmt \in Seq(STRING), NEW args
  PROVE  Clean(do_printf(fmt, args))
<1>1. PICK n \in Nat : n = Len(fmt)
  BY LenProperties
<1>2. DOMAIN fmt = 1 .. n
  BY <1>1, LenProperties
<1>3. PICK b : b = State(0, {}, 0, args, <<>>)
  OBVIOUS
<1>4. PICK g : Scanning!Chain(g, b, fmt, n) /\ Scanning!Folded(b, fmt) = g[n]
  BY <1>2, Scanning!FoldChain
<1>5. g[0] = b /\ \A i \in 1 .. n : g[i] = Scan(g[i - 1], fmt[i])
  BY <1>4 DEF Scanning!Chain
<1> DEFINE S == {i \in Nat : i <= n => Clean(g[i])}
<1>6. 0 \in S
  <2>1. Clean(b)
    BY <1>3 DEF Clean, Sound, Truth, State, No
  <2> QED BY <1>5, <2>1
<1>7. ASSUME NEW i \in Nat, i \in S PROVE i + 1 \in S
  <2>1. SUFFICES ASSUME i + 1 <= n PROVE Clean(g[i + 1])
    OBVIOUS
  <2>2. i + 1 \in 1 .. n /\ (i + 1) - 1 = i /\ i <= n
    BY <2>1
  <2>3. g[i + 1] = Scan(g[i], fmt[i + 1])
    BY <1>5, <2>2
  <2>4. Clean(g[i])
    BY <1>7, <2>2
  <2> QED BY <2>3, <2>4, ScanClean
<1>8. Nat \subseteq S
  <2> HIDE DEF S
  <2> QED BY <1>6, <1>7, SetInduction
<1>9. Clean(g[n])
  BY <1>8
<1> QED BY <1>3, <1>4, <1>9, PrintfIs

\* A conversion with a width and nothing else.
Plain(wd, conv) == <<"%">> \o WidthText(wd) \o <<conv>>

\* It prints the next argument after what was printed before.
LEMMA PlainScan ==
  ASSUME NEW wd \in 0 .. LongMod - 1, NEW conv \in DOMAIN Radix, NEW a, NEW o
  PROVE  Scanning!Folded(State(0, {}, 0, a, o), Plain(wd, conv))
           = State(0, {}, 0, Tail(a), o \o NumberText({}, wd, a, conv))
<1>1. PICK pc \in FormatChars : pc = "%"
  BY Parts
<1>2. PICK c \in FormatChars : c = conv
  BY DEF FormatChars
<1>3. PICK p \in Seq(FormatChars) : p = <<pc>>
  BY Parts
<1>4. PICK l \in Seq(FormatChars) : l = <<c>>
  BY Parts
<1>5. PICK st \in {1, 2} : st = 1
  OBVIOUS
<1>6. PICK e : e = {}
  OBVIOUS
<1>7. PICK d \in Seq(FormatChars) : d = WidthText(wd)
  BY <1>5, WidthScan
<1>8. PICK u : u \in {1, 2} /\ Scanning!Folded(State(st, e, 0, a, o), d) = State(u, e, wd, a, o)
  <2>1. Widened(st, e, wd, a, o)
    BY WidthScan
  <2> QED BY <1>7, <2>1 DEF Widened
<1>9. PICK pd \in Seq(FormatChars) : pd = p \o d
  <2>1. p \o d \in Seq(FormatChars)
    BY ConcatProperties
  <2> QED BY <2>1
<1>10. Plain(wd, conv) = pd \o l
  BY <1>1, <1>2, <1>3, <1>4, <1>7, <1>9 DEF Plain
<1>11. PICK s : s = State(0, e, 0, a, o)
  OBVIOUS
<1>12. Scanning!Folded(s, p) = State(st, e, 0, a, o)
  <2>1. Scanning!Folded(s, <<pc>>) = Scan(s, pc)
    BY ScanOne
  <2>2. Scan(State(0, e, 0, a, o), "%") = State(1, e, 0, a, o)
    BY ScanPercent
  <2> QED BY <1>1, <1>3, <1>5, <1>11, <2>1, <2>2
<1>13. Scanning!Folded(s, pd) = Scanning!Folded(Scanning!Folded(s, p), d)
  BY <1>9, Scanning!FoldConcat
<1>14. Scanning!Folded(s, pd \o l) = Scanning!Folded(Scanning!Folded(s, pd), l)
  BY Scanning!FoldConcat
<1>15. Scanning!Folded(State(u, e, wd, a, o), l) = State(0, {}, 0, Tail(a), o \o NumberText(e, wd, a, conv))
  <2>1. Scanning!Folded(State(u, e, wd, a, o), <<c>>) = Scan(State(u, e, wd, a, o), c)
    BY ScanOne
  <2>2. u \in {1, 2, 3}
    BY <1>8
  <2>3. Scan(State(u, e, wd, a, o), conv) = Convert(State(u, e, wd, a, o), conv)
    BY <2>2, ScanConversion
  <2>4. "16" \notin e
    BY <1>6
  <2>5. Convert(State(u, e, wd, a, o), conv) = State(0, {}, 0, Tail(a), o \o NumberText(e, wd, a, conv))
    BY <2>4, ConvertNumber
  <2> QED BY <1>2, <1>4, <2>1, <2>3, <2>5
<1> QED BY <1>6, <1>8, <1>10, <1>11, <1>12, <1>13, <1>14, <1>15

\* A conversion after a text prints what it prints alone.
Apart(s, wd, conv) ==
  FoldLeft(Scan, [s EXCEPT !.args = <<LongMod - 1>>], Plain(wd, conv))
    = [do_printf(Plain(wd, conv), <<LongMod - 1>>) EXCEPT !.out = s.out \o @]

\* It does after every text that leaves the scanner waiting for a percent sign.
LEMMA PlainAlone ==
  ASSUME NEW s, Clean(s), s.state = 0, ~s.trapped,
         NEW wd \in 0 .. LongMod - 1, NEW conv \in DOMAIN Radix
  PROVE  Apart(s, wd, conv)
<1>1. PICK a : a = <<LongMod - 1>>
  OBVIOUS
<1>2. PICK w \in 0 .. LongMod - 1 : w = LongMod - 1 /\ w = Head(a)
  <2>1. LongMod - 1 \in 0 .. LongMod - 1
    BY PrintfAssumption, FormatsAssumption
  <2> QED BY <1>1, <2>1
<1>3. PICK o : o = s.out
  OBVIOUS
<1>4. PICK e : e = <<>>
  OBVIOUS
<1>5. PICK fmt : fmt = Plain(wd, conv)
  OBVIOUS
<1>6. [s EXCEPT !.args = a] = State(0, {}, 0, a, o)
  <2>1. s.trapped = No
    BY DEF Clean, Sound, Truth, No
  <2>2. s.flags = {} /\ s.wd = 0
    BY DEF Clean
  <2>3. s = State(0, {}, 0, s.args, o)
    BY <1>3, <2>1, <2>2 DEF Clean, Sound, State
  <2>4. [s EXCEPT !.args = a] = PutArgs(s, a)
    BY DEF PutArgs
  <2> QED BY <2>3, <2>4, PutIs
<1>7. PICK t \in Seq(TextChars) : t = NumberText({}, wd, a, conv)
  <2>1. ASSUME NEW no \in BOOLEAN, ~no PROVE NumberText({}, wd, a, conv) \in Seq(TextChars)
    <3>1. Seen({}, no, no)
      BY <2>1 DEF Seen
    <3>2. w \in 0 .. LongMod - 1 /\ Head(a) = w
      BY <1>2
    <3> QED BY <3>1, <3>2, NumberExpected, SMTT(30)
  <2>2. NumberText({}, wd, a, conv) \in Seq(TextChars)
    <3>1. FALSE \in BOOLEAN
      OBVIOUS
    <3> QED BY <2>1, <3>1, Zenon
  <2> QED BY <2>2
<1>8. ASSUME NEW x PROVE FoldLeft(Scan, x, fmt) = Scanning!Folded(x, fmt)
  BY DEF Scanning!Folded, FoldLeft, Scanning!FoldLeft,
         MapThenFoldSet, Scanning!MapThenFoldSet, Max, Scanning!Max
<1>9. Scanning!Folded(State(0, {}, 0, a, o), fmt) = State(0, {}, 0, Tail(a), o \o t)
  BY <1>5, <1>7, PlainScan
<1>10. do_printf(fmt, a) = State(0, {}, 0, Tail(a), t)
  <2>1. Scanning!Folded(State(0, {}, 0, a, e), fmt) = State(0, {}, 0, Tail(a), e \o t)
    BY <1>5, <1>7, PlainScan
  <2>2. e \o t = t
    BY <1>4
  <2>3. do_printf(fmt, a) = Scanning!Folded(State(0, {}, 0, a, e), fmt)
    BY <1>4, PrintfIs
  <2> QED BY <2>1, <2>2, <2>3
<1>11. [State(0, {}, 0, Tail(a), t) EXCEPT !.out = o \o @] = State(0, {}, 0, Tail(a), o \o t)
  <2>1. State(0, {}, 0, Tail(a), t).out = t
    BY DEF State
  <2>2. [State(0, {}, 0, Tail(a), t) EXCEPT !.out = o \o @] = PutOut(State(0, {}, 0, Tail(a), t), o \o t)
    BY <2>1 DEF PutOut
  <2> QED BY <2>2, PutIs
<1>12. [do_printf(fmt, a) EXCEPT !.out = o \o @] = State(0, {}, 0, Tail(a), o \o t)
  BY <1>10, <1>11
<1>13. FoldLeft(Scan, [s EXCEPT !.args = a], fmt) = State(0, {}, 0, Tail(a), o \o t)
  BY <1>6, <1>8, <1>9
<1> QED BY <1>1, <1>3, <1>5, <1>12, <1>13 DEF Apart

\* Whatever text of a format comes first: once the scanner waits for the next
\* percent sign, a conversion prints as it does alone, on each of the ways out of
\* the conversions before it (ConversionsStandAlone of the runs).
THEOREM ConversionsApart == Spec => []ConversionsStandAlone
<1>1. ConversionsStandAlone
  <2> SUFFICES ASSUME NEW text \in Texts, NEW wd \in Widths, NEW conv \in DOMAIN Radix,
                      do_printf(text.fmt, text.args).state = 0,
                      ~do_printf(text.fmt, text.args).trapped
               PROVE  Apart(do_printf(text.fmt, text.args), wd, conv)
    BY DEF ConversionsStandAlone, Plain, Apart
  <2>1. wd \in 0 .. LongMod - 1 /\ text.fmt \in Seq(STRING)
    BY FormatsAssumption
  <2>2. Clean(do_printf(text.fmt, text.args))
    BY <2>1, TextClean
  <2> QED BY <2>1, <2>2, PlainAlone
<1> QED BY <1>1, PTL
=============================================================================
