------------------------------ MODULE Folding ------------------------------
(***************************************************************************)
(* What FoldLeft of SequencesExt computes, for any operator Op: the value  *)
(* after every prefix of the sequence.  A module that folds with an        *)
(* operator of its own takes these facts with INSTANCE ... WITH Op <- ...  *)
(***************************************************************************)
EXTENDS Induction, SequencesExt, SequenceTheorems

CONSTANT Op(_, _)

Folded(a, s) == FoldLeft(Op, a, s)

\* g holds the values of the fold of the first 0, 1, .. n elements of s.
Chain(g, a, s, n) == g[0] = a /\ \A i \in 1 .. n : g[i] = Op(g[i - 1], s[i])

\* What FoldLeft chooses: the values of the folds of all parts of s.
Parts(g, a, s, n) ==
  g = [u \in SUBSET (1 .. n) |-> IF u = {} THEN a ELSE Op(g[u \ {Max(u)}], s[Max(u)])]

\* The greatest index of a part, and of a prefix.
LEMMA Greatest ==
  ASSUME NEW n \in Nat, NEW u \in SUBSET (1 .. n + 1)
  PROVE  /\ n + 1 \in u => Max(u) = n + 1
         /\ u \ {n + 1} \in SUBSET (1 .. n)
<1>1. ASSUME n + 1 \in u PROVE Max(u) = n + 1
  <2>1. \A y \in u : n + 1 >= y
    OBVIOUS
  <2>2. \A x \in u : (\A y \in u : x >= y) => x = n + 1
    BY <1>1
  <2>3. Max(u) \in u /\ \A y \in u : Max(u) >= y
    BY <1>1, <2>1 DEF Max
  <2> QED BY <2>2, <2>3
<1>2. u \ {n + 1} \in SUBSET (1 .. n)
  OBVIOUS
<1> QED BY <1>1, <1>2

\* The folds of all parts exist.
LEMMA PartsExist ==
  ASSUME NEW a, NEW s, NEW n \in Nat
  PROVE  \E g : Parts(g, a, s, n)
<1> DEFINE S == {m \in Nat : \E g : Parts(g, a, s, m)}
<1>1. 0 \in S
  <2> DEFINE g == [u \in SUBSET (1 .. 0) |-> a]
  <2>1. \A u \in SUBSET (1 .. 0) : u = {}
    OBVIOUS
  <2>2. Parts(g, a, s, 0)
    BY <2>1 DEF Parts
  <2> HIDE DEF g
  <2> QED BY <2>2
<1>2. ASSUME NEW m \in Nat, m \in S PROVE m + 1 \in S
  <2>1. PICK g : Parts(g, a, s, m)
    BY <1>2
  <2> DEFINE h == [u \in SUBSET (1 .. m + 1) |->
                     IF m + 1 \in u THEN Op(g[u \ {m + 1}], s[m + 1]) ELSE g[u]]
  <2>2. ASSUME NEW u \in SUBSET (1 .. m + 1)
        PROVE  h[u] = IF u = {} THEN a ELSE Op(h[u \ {Max(u)}], s[Max(u)])
    <3>1. CASE m + 1 \in u
      <4>1. Max(u) = m + 1 /\ u \ {m + 1} \in SUBSET (1 .. m)
        BY <3>1, Greatest
      <4>2. u \ {m + 1} \in SUBSET (1 .. m + 1) /\ m + 1 \notin u \ {m + 1}
        BY <4>1
      <4>3. h[u \ {m + 1}] = g[u \ {m + 1}]
        BY <4>2
      <4>4. h[u] = Op(g[u \ {m + 1}], s[m + 1])
        BY <3>1
      <4> QED BY <3>1, <4>1, <4>3, <4>4
    <3>2. CASE m + 1 \notin u
      <4>1. u \in SUBSET (1 .. m)
        BY <3>2
      <4>2. h[u] = g[u]
        BY <3>2
      <4>3. g[u] = IF u = {} THEN a ELSE Op(g[u \ {Max(u)}], s[Max(u)])
        BY <2>1, <4>1 DEF Parts
      <4>4. h[u \ {Max(u)}] = g[u \ {Max(u)}]
        <5>1. u \ {Max(u)} \in SUBSET (1 .. m + 1) /\ m + 1 \notin u \ {Max(u)}
          BY <3>2
        <5> QED BY <5>1
      <4> QED BY <4>2, <4>3, <4>4
    <3> QED BY <3>1, <3>2
  <2>3. Parts(h, a, s, m + 1)
    <3> DEFINE k == [u \in SUBSET (1 .. m + 1) |->
                       IF u = {} THEN a ELSE Op(h[u \ {Max(u)}], s[Max(u)])]
    <3>1. DOMAIN h = DOMAIN k /\ \A u \in DOMAIN k : h[u] = k[u]
      BY <2>2
    <3>2. h = k
      <4> HIDE DEF k
      <4>1. h = [u \in SUBSET (1 .. m + 1) |-> h[u]]
        OBVIOUS
      <4>2. k = [u \in SUBSET (1 .. m + 1) |-> k[u]]
        BY DEF k
      <4> HIDE DEF h
      <4> QED BY <3>1, <4>1, <4>2
    <3> HIDE DEF h
    <3> QED BY <3>2 DEF Parts
  <2> HIDE DEF h
  <2> QED BY <2>3
<1>3. Nat \subseteq S
  <2> HIDE DEF S
  <2> QED BY <1>1, <1>2, SetInduction
<1> QED BY <1>3

\* The fold of a sequence goes through the folds of its prefixes.
LEMMA FoldChain ==
  ASSUME NEW a, NEW s, NEW n \in Nat, DOMAIN s = 1 .. n
  PROVE  \E g : Chain(g, a, s, n) /\ Folded(a, s) = g[n]
<1> DEFINE G == CHOOSE g : Parts(g, a, s, n)
           c == [i \in 0 .. n |-> G[1 .. i]]
<1>1. Folded(a, s) = G[1 .. n]
  BY DEF Folded, FoldLeft, MapThenFoldSet, Parts
<1>2. Parts(G, a, s, n)
  BY PartsExist
<1> HIDE DEF G
<1>3. c[0] = a
  <2>1. 1 .. 0 = {} /\ {} \in SUBSET (1 .. n)
    OBVIOUS
  <2>2. G[{}] = a
    BY <1>2, <2>1 DEF Parts
  <2> QED BY <2>1, <2>2
<1>4. ASSUME NEW i \in 1 .. n PROVE c[i] = Op(c[i - 1], s[i])
  <2>1. 1 .. i \in SUBSET (1 .. n) /\ 1 .. i # {}
    OBVIOUS
  <2>2. i - 1 \in Nat /\ (i - 1) + 1 = i /\ i - 1 \in 0 .. n
    OBVIOUS
  <2>3. Max(1 .. i) = i
    <3>1. PICK m \in Nat : m + 1 = i
      BY <2>2
    <3>2. 1 .. i \in SUBSET (1 .. m + 1) /\ m + 1 \in 1 .. i
      BY <3>1
    <3> QED BY <3>1, <3>2, Greatest
  <2>4. (1 .. i) \ {i} = 1 .. i - 1
    OBVIOUS
  <2>5. G[1 .. i] = Op(G[(1 .. i) \ {Max(1 .. i)}], s[Max(1 .. i)])
    BY <1>2, <2>1 DEF Parts
  <2>6. c[i] = G[1 .. i] /\ c[i - 1] = G[1 .. i - 1]
    BY <2>2
  <2> HIDE DEF c
  <2> QED BY <2>3, <2>4, <2>5, <2>6
<1>5. Folded(a, s) = c[n]
  BY <1>1
<1>6. Chain(c, a, s, n)
  <2> HIDE DEF c
  <2> QED BY <1>3, <1>4 DEF Chain
<1> HIDE DEF c
<1> QED BY <1>5, <1>6

\* Two chains with the same start are the same.
LEMMA SameChain ==
  ASSUME NEW a, NEW s, NEW n \in Nat, NEW g, NEW h, Chain(g, a, s, n), Chain(h, a, s, n)
  PROVE  \A i \in 0 .. n : g[i] = h[i]
<1> DEFINE S == {i \in Nat : i <= n => g[i] = h[i]}
<1>1. 0 \in S
  BY DEF Chain
<1>2. ASSUME NEW i \in Nat, i \in S PROVE i + 1 \in S
  <2>1. CASE i + 1 <= n
    <3>1. i + 1 \in 1 .. n /\ (i + 1) - 1 = i /\ g[i] = h[i]
      BY <1>2, <2>1
    <3>2. g[i + 1] = Op(g[i], s[i + 1]) /\ h[i + 1] = Op(h[i], s[i + 1])
      BY <3>1 DEF Chain
    <3> QED BY <3>1, <3>2
  <2> QED BY <2>1
<1>3. Nat \subseteq S
  <2> HIDE DEF S
  <2> QED BY <1>1, <1>2, SetInduction
<1> QED BY <1>3

\* Whoever knows the values of all prefixes knows the fold.
LEMMA FoldIs ==
  ASSUME NEW a, NEW s, NEW n \in Nat, DOMAIN s = 1 .. n, NEW g, Chain(g, a, s, n)
  PROVE  Folded(a, s) = g[n]
<1>1. PICK h : Chain(h, a, s, n) /\ Folded(a, s) = h[n]
  BY FoldChain
<1>2. g[n] = h[n]
  BY <1>1, SameChain
<1> QED BY <1>1, <1>2

\* Nothing to fold.
LEMMA FoldEmpty == ASSUME NEW a PROVE Folded(a, <<>>) = a
<1>1. DOMAIN <<>> = 1 .. 0
  OBVIOUS
<1>2. PICK g : Chain(g, a, <<>>, 0) /\ Folded(a, <<>>) = g[0]
  BY <1>1, FoldChain
<1> QED BY <1>2 DEF Chain

\* One element more.
LEMMA FoldAppend ==
  ASSUME NEW E, NEW a, NEW s \in Seq(E), NEW e \in E
  PROVE  Folded(a, Append(s, e)) = Op(Folded(a, s), e)
<1>1. PICK n \in Nat : n = Len(s)
  BY LenProperties
<1>2. PICK k \in Nat : k = n + 1
  OBVIOUS
<1>3. PICK z : z = Append(s, e)
  OBVIOUS
<1>4. DOMAIN s = 1 .. n /\ DOMAIN z = 1 .. k /\ z[k] = e /\ \A i \in 1 .. n : z[i] = s[i]
  BY <1>1, <1>2, <1>3
<1>5. PICK g : Chain(g, a, s, n) /\ Folded(a, s) = g[n]
  BY <1>4, FoldChain
<1>6. PICK h : Chain(h, a, z, k) /\ Folded(a, z) = h[k]
  BY <1>4, FoldChain
<1>7. h[0] = a /\ \A i \in 1 .. k : h[i] = Op(h[i - 1], z[i])
  BY <1>6 DEF Chain
<1>8. Chain(h, a, s, n)
  <2>1. \A i \in 1 .. n : i \in 1 .. k
    BY <1>2
  <2>2. \A i \in 1 .. n : h[i] = Op(h[i - 1], s[i])
    BY <1>4, <1>7, <2>1
  <2> QED BY <1>7, <2>2 DEF Chain
<1>9. g[n] = h[n]
  BY <1>5, <1>8, SameChain
<1>10. h[k] = Op(h[n], e)
  <2>1. k \in 1 .. k /\ k - 1 = n
    BY <1>2
  <2>2. h[k] = Op(h[k - 1], z[k])
    BY <1>7, <2>1
  <2> QED BY <1>4, <2>1, <2>2
<1> QED BY <1>3, <1>5, <1>6, <1>9, <1>10

\* One sequence after the other.
LEMMA FoldConcat ==
  ASSUME NEW E, NEW a, NEW s \in Seq(E), NEW t \in Seq(E)
  PROVE  Folded(a, s \o t) = Folded(Folded(a, s), t)
<1>1. PICK n \in Nat : n = Len(s)
  BY LenProperties
<1>2. PICK m \in Nat : m = Len(t)
  BY LenProperties
<1>3. PICK l \in Nat : l = n + m
  OBVIOUS
<1>4. PICK u : u = s \o t
  OBVIOUS
<1>5. DOMAIN s = 1 .. n /\ DOMAIN t = 1 .. m /\ DOMAIN u = 1 .. l
  BY <1>1, <1>2, <1>3, <1>4
<1>6. PICK h : Chain(h, a, u, l) /\ Folded(a, u) = h[l]
  BY <1>5, FoldChain
<1>7. /\ \A i \in 1 .. n : u[i] = s[i]
      /\ \A i \in 1 .. m : u[n + i] = t[i]
  BY <1>1, <1>2, <1>4
<1>8. h[0] = a /\ \A i \in 1 .. n + m : h[i] = Op(h[i - 1], u[i])
  BY <1>3, <1>6 DEF Chain
<1>9. Chain(h, a, s, n)
  <2>1. \A i \in 1 .. n : i \in 1 .. n + m
    OBVIOUS
  <2>2. \A i \in 1 .. n : h[i] = Op(h[i - 1], s[i])
    BY <1>7, <1>8, <2>1
  <2> QED BY <1>8, <2>2 DEF Chain
<1>10. Folded(a, s) = h[n]
  BY <1>5, <1>9, FoldIs
<1> DEFINE k == [i \in 0 .. m |-> h[n + i]]
<1>11. k[0] = h[n]
  OBVIOUS
<1>12. ASSUME NEW i \in 1 .. m PROVE k[i] = Op(k[i - 1], t[i])
  <2>1. n + i \in 1 .. n + m /\ (n + i) - 1 = n + (i - 1) /\ i - 1 \in 0 .. m /\ i \in 0 .. m
    OBVIOUS
  <2>2. h[n + i] = Op(h[(n + i) - 1], u[n + i])
    BY <1>8, <2>1
  <2>3. k[i] = h[n + i] /\ k[i - 1] = h[n + (i - 1)]
    BY <2>1
  <2>4. u[n + i] = t[i]
    BY <1>7
  <2> HIDE DEF k
  <2> QED BY <2>1, <2>2, <2>3, <2>4
<1>13. k[m] = h[n + m]
  OBVIOUS
<1>14. Chain(k, h[n], t, m)
  <2> HIDE DEF k
  <2> QED BY <1>11, <1>12 DEF Chain
<1>15. Folded(h[n], t) = k[m]
  <2> HIDE DEF k
  <2> QED BY <1>5, <1>14, FoldIs
<1> QED BY <1>3, <1>4, <1>6, <1>10, <1>13, <1>15

\* What every step keeps holds of the fold.
LEMMA FoldType ==
  ASSUME NEW V, NEW E, NEW a \in V, NEW s \in Seq(E), \A v \in V, e \in E : Op(v, e) \in V
  PROVE  Folded(a, s) \in V
<1>1. PICK n \in Nat : n = Len(s)
  BY LenProperties
<1>2. DOMAIN s = 1 .. n /\ \A i \in 1 .. n : s[i] \in E
  BY <1>1, LenProperties
<1>3. PICK g : Chain(g, a, s, n) /\ Folded(a, s) = g[n]
  BY <1>2, FoldChain
<1> DEFINE S == {i \in Nat : i <= n => g[i] \in V}
<1>4. 0 \in S
  BY <1>3 DEF Chain
<1>5. ASSUME NEW i \in Nat, i \in S PROVE i + 1 \in S
  <2>1. CASE i + 1 <= n
    <3>1. i + 1 \in 1 .. n /\ (i + 1) - 1 = i /\ g[i] \in V
      BY <1>5, <2>1
    <3>2. g[i + 1] = Op(g[i], s[i + 1])
      BY <1>3, <3>1 DEF Chain
    <3> QED BY <1>2, <3>1, <3>2
  <2> QED BY <2>1
<1>6. Nat \subseteq S
  <2> HIDE DEF S
  <2> QED BY <1>4, <1>5, SetInduction
<1>7. g[n] \in V
  BY <1>6
<1> QED BY <1>3, <1>7
=============================================================================
