------------------------------ MODULE HeapProofs ------------------------------
(***************************************************************************)
(* Proofs about the heap, for every size of headers, blocks and memory.    *)
(***************************************************************************)
EXTENDS HeapProperties, Induction, FiniteSetTheorems

(***************************************************************************)
(* Addresses, and arithmetic on them modulo Word.                          *)
(***************************************************************************)
LEMMA AddrFacts ==
  /\ Word \in Nat \ {0} /\ 0 \in Addr /\ Base \in Addr /\ Hdr \in Addr
  /\ \A a \in Addr : a \in Nat /\ a < Word
  /\ \A n \in Nat : n < Word => n \in Addr
  /\ Sizes \subseteq Addr
  /\ 1 < Word
BY HeapAssumption DEF HeapAssumption, Addr

\* Sums and differences that do not pass the ends of a word are exact.
LEMMA Sums ==
  ASSUME NEW a \in Addr, NEW b \in Addr
  PROVE  /\ Plus(a, b) \in Addr /\ Minus(a, b) \in Addr
         /\ a + b < Word => Plus(a, b) = a + b
         /\ b <= a => Minus(a, b) = a - b
<1>1. a \in Nat /\ b \in Nat /\ a < Word /\ b < Word
  BY AddrFacts
<1> QED BY <1>1, AddrFacts DEF Plus, Minus

(***************************************************************************)
(* Every variable keeps the type its declaration gives it, with any number *)
(* of threads, and after a panic too.                                      *)
(***************************************************************************)
THEOREM HeapTypeCorrect == Spec => []TypeOK
<1> USE DEF TypeOK, HeapPc
<1>1. Init => TypeOK
  <2> SUFFICES ASSUME Init PROVE TypeOK
    OBVIOUS
  <2>1. /\ next \in [Addr -> blocks \cup {Chain}] /\ size \in [Addr -> Addr]
        /\ state \in [Addr -> SUBSET Bits]
    BY AddrFacts DEF Init
  <2>2. /\ pc \in [Thread -> HeapPc] /\ bytes \in [Thread -> Addr]
        /\ end \in [Thread -> Addr] /\ ptr \in [Thread -> Addr]
        /\ node \in [Thread -> Addr]
    BY AddrFacts DEF Init
  <2>3. \A t \in Thread : pc[t] = "idle" /\ held[t] = {}
    BY DEF Init
  <2> QED
    BY <2>1, <2>2, <2>3, AddrFacts DEF Init
<1>2. TypeOK /\ [Next]_vars => TypeOK'
  <2> SUFFICES ASSUME TypeOK, [Next]_vars PROVE TypeOK'
    OBVIOUS
  <2> USE DEF Goto, heads, fields, counts
  <2>1. ASSUME NEW t \in Thread, NEW n \in Sizes, KmallocGrow(t, n)
        PROVE  TypeOK'
    BY <2>1, HeapAssumption DEF KmallocGrow, HeapAssumption
  <2>2. ASSUME NEW t \in Thread, NEW n \in Sizes, NEW b \in blocks,
               KmallocFit(t, n, b)
        PROVE  TypeOK'
    BY <2>2, HeapAssumption DEF KmallocFit, HeapAssumption
  <2>3. ASSUME NEW t \in Thread, CheckBrk(t) PROVE TypeOK'
    <3>1. Raised(t) \in Addr
      BY Sums, AddrFacts DEF Raised
    <3> QED BY <2>3, <3>1 DEF CheckBrk
  <2>4. ASSUME NEW t \in Thread, BrkPanic(t) PROVE TypeOK'
    BY <2>4 DEF BrkPanic
  <2>5. ASSUME NEW t \in Thread, SetBrk(t) PROVE TypeOK'
    BY <2>5 DEF SetBrk
  <2>6. ASSUME NEW t \in Thread, NewBlock(t) PROVE TypeOK'
    <3> DEFINE b == Minus(brk, Plus(Hdr, bytes[t]))
    <3>1. b \in Addr
      BY Sums, AddrFacts
    <3> HIDE DEF b
    <3>2. /\ ptr' = [ptr EXCEPT ![t] = b] /\ node' = [node EXCEPT ![t] = b]
          /\ blocks' = blocks \cup {b}
          /\ size' = [size EXCEPT ![b] = bytes[t]]
          /\ \E bits \in SUBSET Bits :
               state' = IF b \in blocks THEN state ELSE [state EXCEPT ![b] = bits]
      BY <2>6 DEF NewBlock, b
    <3> QED BY <2>6, <3>1, <3>2 DEF NewBlock
  <2>7. ASSUME NEW t \in Thread, Split(t) PROVE TypeOK'
    <3> DEFINE b == Plus(Plus(ptr[t], Hdr), bytes[t])
    <3>1. b \in Addr
      BY Sums, AddrFacts, <2>7 DEF Split
    <3>2. Leftover(t) \in Addr /\ Leftover(t) - Hdr \in Addr
      <4>1. Leftover(t) \in Addr
        BY Sums, <2>7 DEF Leftover, Split
      <4>2. MinSplit \in Nat /\ Leftover(t) >= Hdr + MinSplit
        BY <2>7, HeapAssumption DEF Split, HeapAssumption
      <4>3. Leftover(t) - Hdr \in Nat /\ Leftover(t) - Hdr < Word
        BY <4>1, <4>2, AddrFacts
      <4> QED BY <4>1, <4>3, AddrFacts
    <3> HIDE DEF b
    <3>3. /\ node' = [node EXCEPT ![t] = b]
          /\ blocks' = blocks \cup {b}
          /\ size' = [size EXCEPT ![b] = Leftover(t) - Hdr, ![ptr[t]] = bytes[t]]
          /\ state' = [state EXCEPT ![b] = {}]
      BY <2>7 DEF Split, b
    <3> QED BY <2>7, <3>1, <3>2, <3>3 DEF Split
  <2>8. ASSUME NEW t \in Thread, NoSplit(t) PROVE TypeOK'
    BY <2>8 DEF NoSplit
  <2>9. ASSUME NEW t \in Thread, LinkBlock(t) PROVE TypeOK'
    BY <2>9 DEF LinkBlock
  <2>10. ASSUME NEW t \in Thread, PushBlock(t) PROVE TypeOK'
    <3>1. Plus(total_blocks, 1) \in Addr
      BY Sums, AddrFacts
    <3> QED BY <2>10, <3>1 DEF PushBlock
  <2>11. ASSUME NEW t \in Thread, Mark(t) PROVE TypeOK'
    <3>1. Plus(used_blocks, 1) \in Addr
      BY Sums, AddrFacts
    <3> QED BY <2>11, <3>1 DEF Mark, Bits
  <2>12. ASSUME NEW t \in Thread, NEW h \in held[t], Kfree(t, h[1], h[2])
         PROVE  TypeOK'
    <3>1. Minus(used_blocks, 1) \in Addr
      BY Sums, AddrFacts
    <3> QED BY <2>12, <3>1 DEF Kfree
  <2>13. CASE UNCHANGED vars
    BY <2>13 DEF vars
  <2> QED
    BY <2>1, <2>2, <2>3, <2>4, <2>5, <2>6, <2>7, <2>8, <2>9, <2>10, <2>11, <2>12,
       <2>13
    DEF Next, Call, KmallocStep
<1> QED BY <1>1, <1>2, PTL DEF Spec
-----------------------------------------------------------------------------
(***************************************************************************)
(* One thread calls the heap, and no request makes the sum of break,       *)
(* header and bytes wrap: the boot thread's use of it.                     *)
(***************************************************************************)
OneThread == \A t, u \in Thread : t = u
NoWrap    == \A n \in Sizes : BrkMax + Hdr + n < Word

\* What the locals of a call and the fields of headers are, as numbers.
LEMMA NatFacts ==
  ASSUME TypeOK, NEW t \in Thread
  PROVE  /\ brk \in Nat /\ Base \in Nat /\ BrkMax \in Nat /\ MinSplit \in Nat
         /\ Hdr \in Nat \ {0} /\ Word \in Nat \ {0}
         /\ bytes[t] \in Nat /\ end[t] \in Nat /\ ptr[t] \in Nat
         /\ \A b \in Addr : b \in Nat /\ size[b] \in Nat
         /\ blocks \subseteq Addr
         /\ \A h \in held[t] : h[1] \in blocks /\ h[2] \in Nat
<1>1. \A h \in held[t] : h[1] \in blocks /\ h[2] \in Nat
  <2>1. held[t] \subseteq Addr \X Addr
    BY DEF TypeOK
  <2> QED BY <2>1, AddrFacts DEF TypeOK
<1>2. \A b \in Addr : b \in Nat /\ size[b] \in Nat
  BY AddrFacts DEF TypeOK
<1>3. brk \in Nat /\ bytes[t] \in Nat /\ end[t] \in Nat /\ ptr[t] \in Nat
  BY AddrFacts DEF TypeOK
<1>4. /\ Base \in Nat /\ BrkMax \in Nat /\ MinSplit \in Nat
      /\ Hdr \in Nat \ {0} /\ Word \in Nat \ {0}
  BY AddrFacts, HeapAssumption DEF HeapAssumption
<1> QED BY <1>1, <1>2, <1>3, <1>4 DEF TypeOK

(***************************************************************************)
(* A call that starts: nothing moves yet.                                  *)
(***************************************************************************)
LEMMA CallKeeps ==
  ASSUME TypeOK, HeapInv, OneThread, NEW t \in Thread, NEW n \in Sizes,
         KmallocGrow(t, n) \/ \E b \in blocks : KmallocFit(t, n, b)
  PROVE  HeapInv'
<1> USE DEF OneThread, Goto, heads, fields, counts
<1>1. UNCHANGED <<brk, fields, held>> /\ ~panicked
  BY DEF KmallocGrow, KmallocFit
<1>2. Base <= brk' /\ brk' <= BrkMax
      /\ BlocksApart' /\ BlocksInside' /\ HeldInBlock' /\ Owned'
  BY <1>1 DEF HeapInv, BlocksApart, Apart, BlocksInside, HeldInBlock, Owned
<1>3. bytes'[t] = n
  BY DEF KmallocGrow, KmallocFit, TypeOK
<1>4. pc'[t] \in {"brk_check", "split"}
  BY DEF KmallocGrow, KmallocFit, TypeOK
<1>5. Asked(t)' /\ Room(t)'
  BY <1>3, <1>4 DEF Asked, Room
<1>6. Chosen(t)'
  <2>1. CASE KmallocGrow(t, n)
    BY <2>1 DEF KmallocGrow, Chosen, TypeOK
  <2>2. CASE \E b \in blocks : KmallocFit(t, n, b)
    <3>1. PICK b \in blocks : KmallocFit(t, n, b)
      BY <2>2
    <3>2. ptr'[t] = b /\ n <= size[b] /\ USED \notin state[b]
      BY <3>1 DEF KmallocFit, FirstFit, Fits, TypeOK
    <3>3. \A h \in held[t] : h[1] # b
      BY <3>2, <1>1 DEF HeapInv, HeldInBlock
    <3> QED BY <1>1, <1>3, <3>2, <3>3 DEF Chosen
  <2> QED BY <2>1, <2>2
<1> QED BY <1>2, <1>5, <1>6 DEF HeapInv

(***************************************************************************)
(* Raising the break leaves room above all blocks for exactly one more.    *)
(***************************************************************************)
LEMMA GrowKeeps ==
  ASSUME TypeOK, HeapInv, ~panicked, OneThread, NoWrap,
         NEW t \in Thread, CheckBrk(t) \/ SetBrk(t)
  PROVE  HeapInv'
<1> USE DEF OneThread, Goto, heads, fields, counts
<1>1. UNCHANGED <<fields, held, bytes, ptr>>
  BY DEF CheckBrk, SetBrk
<1>2. CASE CheckBrk(t)
  <2>1. pc'[t] = "brk_set" /\ pc[t] = "brk_check" /\ UNCHANGED brk
    BY <1>2 DEF CheckBrk, TypeOK
  <2>2. bytes[t] \in Sizes /\ brk <= BrkMax
    BY <2>1 DEF HeapInv, Asked
  <2>3. Raised(t) = brk + Hdr + bytes[t]
    <3>1. brk + (Hdr + bytes[t]) < Word /\ Hdr + bytes[t] < Word
      BY <2>2, NatFacts DEF NoWrap
    <3>2. Plus(Hdr, bytes[t]) = Hdr + bytes[t] /\ Hdr + bytes[t] \in Addr
      BY <3>1, Sums, AddrFacts DEF TypeOK
    <3>3. Plus(brk, Hdr + bytes[t]) = brk + (Hdr + bytes[t])
      BY <3>1, <3>2, Sums DEF TypeOK
    <3> QED BY <3>2, <3>3, NatFacts DEF Raised
  <2>4. end'[t] = brk + Hdr + bytes[t] /\ end'[t] < BrkMax
    BY <1>2, <2>3 DEF CheckBrk, TypeOK
  <2>5. Asked(t)' /\ Room(t)' /\ Chosen(t)'
    BY <1>1, <2>1, <2>2, <2>4 DEF Asked, Room, Chosen
  <2> QED
    BY <1>1, <1>2, <2>1, <2>5
    DEF HeapInv, BlocksApart, Apart, BlocksInside, HeldInBlock, Owned
<1>3. CASE SetBrk(t)
  <2>1. pc'[t] = "header" /\ pc[t] = "brk_set" /\ brk' = end[t]
    BY <1>3 DEF SetBrk, TypeOK
  <2>2. brk' = brk + Hdr + bytes[t] /\ brk' < BrkMax /\ bytes[t] \in Sizes
    BY <2>1 DEF HeapInv, Asked
  <2>3. Base <= brk' /\ brk' <= BrkMax
    BY <2>2, NatFacts DEF HeapInv
  <2>4. BlocksInside'
    BY <1>1, <2>2, NatFacts DEF HeapInv, BlocksInside
  <2>5. Room(t)'
    BY <1>1, <2>2, NatFacts DEF Room, HeapInv, BlocksInside
  <2>6. Asked(t)' /\ Chosen(t)'
    BY <1>1, <2>1, <2>2 DEF Asked, Chosen
  <2>7. BlocksApart' /\ HeldInBlock' /\ Owned'
    BY <1>1 DEF HeapInv, BlocksApart, Apart, HeldInBlock, Owned
  <2> QED BY <2>3, <2>4, <2>5, <2>6, <2>7 DEF HeapInv
<1> QED BY <1>2, <1>3

(***************************************************************************)
(* The new block fills the room below the break.                           *)
(***************************************************************************)
LEMMA NewBlockKeeps ==
  ASSUME TypeOK, HeapInv, ~panicked, OneThread, NoWrap,
         NEW t \in Thread, NewBlock(t)
  PROVE  HeapInv'
<1> USE DEF OneThread, Goto, heads, fields, counts
<1> DEFINE b == Minus(brk, Plus(Hdr, bytes[t]))
<1>1. pc[t] = "header" /\ pc'[t] = "link" /\ UNCHANGED <<brk, held, bytes>>
  BY DEF NewBlock, TypeOK
<1>2. bytes[t] \in Sizes /\ brk <= BrkMax /\ Base + Hdr + bytes[t] <= brk
      /\ \A c \in blocks : c + Hdr + size[c] + Hdr + bytes[t] <= brk
  BY <1>1 DEF HeapInv, Asked, Room
<1>3. b = brk - (Hdr + bytes[t])
  <2>1. Hdr + bytes[t] < Word /\ Hdr + bytes[t] <= brk
    BY <1>2, NatFacts DEF NoWrap
  <2>2. Plus(Hdr, bytes[t]) = Hdr + bytes[t] /\ Hdr + bytes[t] \in Addr
    BY <2>1, Sums, AddrFacts DEF TypeOK
  <2> QED BY <2>1, <2>2, Sums DEF TypeOK
<1>4. b \in Addr /\ b \notin blocks
  <2>1. b \in Addr
    BY Sums, AddrFacts DEF TypeOK
  <2>2. \A c \in blocks : c < b
    BY <1>2, <1>3, NatFacts
  <2> QED BY <2>1, <2>2, NatFacts
<1>5. /\ ptr'[t] = b /\ blocks' = blocks \cup {b}
      /\ size' = [size EXCEPT ![b] = bytes[t]]
      /\ \A c \in Addr : c # b => state'[c] = state[c]
  BY <1>4 DEF NewBlock, TypeOK
<1> HIDE DEF b
<1>6. size'[b] = bytes[t] /\ \A c \in blocks : c # b /\ size'[c] = size[c]
  BY <1>4, <1>5 DEF TypeOK
<1>7. \A c \in blocks : Apart(c, size[c], b, bytes[t])
  BY <1>2, <1>3, NatFacts DEF Apart
<1>8. BlocksApart'
  BY <1>5, <1>6, <1>7 DEF HeapInv, BlocksApart, Apart
<1>9. BlocksInside'
  <2>1. Base <= b /\ b + Hdr + bytes[t] <= brk
    BY <1>2, <1>3, NatFacts
  <2> QED BY <1>1, <1>5, <1>6, <2>1 DEF HeapInv, BlocksInside
<1>10. \A h \in held[t] : h[1] \in blocks /\ h[1] \in Addr /\ h[1] # b
  BY <1>4, NatFacts
<1>11. HeldInBlock' /\ Owned'
  BY <1>1, <1>5, <1>6, <1>10 DEF HeapInv, HeldInBlock, Owned
<1>12. bytes'[t] <= size'[ptr'[t]] /\ \A h \in held'[t] : h[1] # ptr'[t]
  BY <1>1, <1>5, <1>6, <1>10, NatFacts
<1>13. Asked(t)' /\ Room(t)' /\ Chosen(t)'
  BY <1>1, <1>2, <1>12 DEF Asked, Room, Chosen
<1> QED
  BY <1>1, <1>8, <1>9, <1>11, <1>13 DEF HeapInv

(***************************************************************************)
(* A split cuts a second block out of the bytes of the first.              *)
(***************************************************************************)
LEMMA SplitKeeps ==
  ASSUME TypeOK, HeapInv, ~panicked, OneThread, NoWrap,
         NEW t \in Thread, Split(t)
  PROVE  HeapInv'
<1> USE DEF OneThread, Goto, heads, fields, counts
<1> DEFINE p == ptr[t]
           b == Plus(Plus(p, Hdr), bytes[t])
<1>1. pc[t] = "split" /\ pc'[t] = "link" /\ UNCHANGED <<brk, held, bytes, ptr>>
  BY DEF Split, TypeOK
<1>2. /\ bytes[t] \in Sizes /\ bytes[t] <= size[p] /\ p \in blocks
      /\ \A h \in held[t] : h[1] # p
  BY <1>1 DEF HeapInv, Asked, Chosen, TypeOK
<1>3. /\ Base <= p /\ p + Hdr + size[p] <= brk /\ brk <= BrkMax /\ BrkMax < Word
      /\ p \in Nat /\ p \in Addr /\ size[p] \in Nat
  BY <1>2, NatFacts, HeapAssumption DEF HeapInv, BlocksInside, HeapAssumption
<1>4. Leftover(t) = size[p] - bytes[t]
  BY <1>2, <1>3, Sums DEF Leftover, TypeOK
<1>5. size[p] - bytes[t] >= Hdr + MinSplit
  BY <1>4 DEF Split
<1>6. b = p + Hdr + bytes[t]
  <2>1. p + Hdr < Word /\ (p + Hdr) + bytes[t] < Word
    BY <1>2, <1>3, NatFacts
  <2>2. Plus(p, Hdr) = p + Hdr /\ p + Hdr \in Addr
    BY <1>3, <2>1, Sums, AddrFacts
  <2> QED BY <2>1, <2>2, Sums DEF TypeOK
<1>7. b \in Addr /\ b # p /\ b \notin blocks
  <2>1. b \in Nat /\ b < Word /\ b # p
    BY <1>2, <1>3, <1>5, <1>6, NatFacts
  <2>2. ASSUME b \in blocks PROVE FALSE
    <3>1. Apart(p, size[p], b, size[b])
      BY <1>2, <2>1, <2>2 DEF HeapInv, BlocksApart
    <3> QED BY <1>3, <1>5, <1>6, <2>2, <3>1, NatFacts DEF Apart
  <2> QED BY <2>1, <2>2, AddrFacts
<1>8. /\ blocks' = blocks \cup {b}
      /\ size' = [size EXCEPT ![b] = size[p] - bytes[t] - Hdr, ![p] = bytes[t]]
      /\ state' = [state EXCEPT ![b] = {}]
  BY <1>4 DEF Split
<1> HIDE DEF b, p
<1>9. /\ size'[b] = size[p] - bytes[t] - Hdr /\ size'[p] = bytes[t]
      /\ \A c \in blocks : c # p => c # b /\ size'[c] = size[c]
      /\ \A c \in blocks : state'[c] = state[c]
  BY <1>3, <1>7, <1>8 DEF TypeOK
<1>10. BlocksApart'
  <2>1. ASSUME NEW c \in blocks, c # p
        PROVE  /\ Apart(c, size[c], p, bytes[t]) /\ Apart(p, bytes[t], c, size[c])
               /\ Apart(c, size[c], b, size'[b]) /\ Apart(b, size'[b], c, size[c])
    <3>1. Apart(c, size[c], p, size[p])
      BY <1>2, <2>1 DEF HeapInv, BlocksApart
    <3>2. b + Hdr + size'[b] = p + Hdr + size[p] /\ p <= b /\ bytes[t] <= size[p]
      BY <1>2, <1>3, <1>5, <1>6, <1>9, NatFacts
    <3>3. c \in Nat /\ size[c] \in Nat /\ b \in Nat /\ size'[b] \in Nat
      <4>1. b \in Nat
        BY <1>7, AddrFacts
      <4>2. size'[b] \in Nat
        BY <1>3, <1>5, <1>9, NatFacts
      <4>3. c \in Addr
        BY <2>1 DEF TypeOK
      <4> QED BY <4>1, <4>2, <4>3, NatFacts
    <3>4. CASE c + Hdr + size[c] <= p
      BY <1>3, <3>2, <3>3, <3>4, NatFacts DEF Apart
    <3>5. CASE p + Hdr + size[p] <= c
      BY <1>3, <3>2, <3>3, <3>5, NatFacts DEF Apart
    <3> QED BY <3>1, <3>4, <3>5 DEF Apart
  <2>2. Apart(p, bytes[t], b, size'[b]) /\ Apart(b, size'[b], p, bytes[t])
    BY <1>6, <1>3, NatFacts DEF Apart
  <2>3. ASSUME NEW c \in blocks, NEW d \in blocks, c # p, d # p, c # d
        PROVE  Apart(c, size'[c], d, size'[d])
    BY <1>9, <2>3 DEF HeapInv, BlocksApart
  <2>4. ASSUME NEW c \in blocks \cup {b}, NEW d \in blocks \cup {b}, c # d
        PROVE  Apart(c, size'[c], d, size'[d])
    <3>1. CASE c \in {p, b} /\ d \in {p, b}
      BY <1>9, <2>2, <2>4, <3>1
    <3>2. CASE c \notin {p, b} \/ d \notin {p, b}
      BY <1>9, <2>1, <2>3, <2>4, <3>2
    <3> QED BY <3>1, <3>2
  <2> QED
    BY <1>8, <2>4 DEF BlocksApart, Apart
<1>11. BlocksInside'
  <2>1. Base <= b /\ b + Hdr + size'[b] <= brk
    BY <1>3, <1>5, <1>6, <1>9, NatFacts
  <2>2. p + Hdr + size'[p] <= brk
    BY <1>3, <1>5, <1>9, NatFacts
  <2>3. \A c \in blocks : c # p => Base <= c /\ c + Hdr + size'[c] <= brk
    BY <1>9 DEF HeapInv, BlocksInside
  <2> QED BY <1>1, <1>3, <1>8, <2>1, <2>2, <2>3 DEF BlocksInside
<1>12. HeldInBlock' /\ Owned'
  <2>1. \A h \in held[t] : size'[h[1]] = size[h[1]] /\ state'[h[1]] = state[h[1]]
    BY <1>2, <1>9, NatFacts
  <2> QED BY <1>1, <2>1 DEF HeapInv, HeldInBlock, Owned
<1>13. bytes'[t] <= size'[ptr'[t]] /\ \A h \in held'[t] : h[1] # ptr'[t]
  BY <1>1, <1>2, <1>9, NatFacts DEF p
<1>14. Asked(t)' /\ Room(t)' /\ Chosen(t)'
  BY <1>1, <1>2, <1>13 DEF Asked, Room, Chosen
<1> QED
  BY <1>1, <1>3, <1>10, <1>11, <1>12, <1>14 DEF HeapInv

(***************************************************************************)
(* The rest of a call, and kfree().                                        *)
(***************************************************************************)
LEMMA LinkKeeps ==
  ASSUME TypeOK, HeapInv, OneThread, NEW t \in Thread,
         NoSplit(t) \/ LinkBlock(t) \/ PushBlock(t)
  PROVE  HeapInv'
<1> USE DEF OneThread, Goto, heads, fields, counts
<1>1. UNCHANGED <<brk, fields, held, bytes, ptr, panicked>>
  BY DEF NoSplit, LinkBlock, PushBlock
<1>2. pc[t] \in {"split", "link", "push"} /\ pc'[t] \in {"push", "mark"}
  BY DEF NoSplit, LinkBlock, PushBlock, TypeOK
<1>3. ~panicked => Asked(t)' /\ Room(t)' /\ Chosen(t)'
  BY <1>1, <1>2 DEF HeapInv, Asked, Room, Chosen
<1> QED
  BY <1>1, <1>3 DEF HeapInv, BlocksApart, Apart, BlocksInside, HeldInBlock, Owned

\* The statement that marks the chosen block gives it to nobody else.
LEMMA MarkKeeps ==
  ASSUME TypeOK, HeapInv, ~panicked, OneThread, NEW t \in Thread, Mark(t)
  PROVE  HeapInv'
<1> USE DEF OneThread, Goto, heads, fields, counts
<1>1. UNCHANGED <<brk, blocks, size, bytes, ptr>>
  BY DEF Mark
<1>2. pc[t] = "mark" /\ pc'[t] = "idle" /\ ptr[t] \in Addr
  BY DEF Mark, TypeOK
<1>3. bytes[t] <= size[ptr[t]] /\ \A h \in held[t] : h[1] # ptr[t]
  BY <1>2 DEF HeapInv, Chosen
<1>4. /\ held'[t] = held[t] \cup {<<ptr[t], bytes[t]>>}
      /\ USED \in state'[ptr[t]]
      /\ \A c \in Addr : state[c] \subseteq state'[c]
  <2>1. held'[t] = held[t] \cup {<<ptr[t], bytes[t]>>}
    BY DEF Mark, TypeOK
  <2>2. state' = [state EXCEPT ![ptr[t]] = @ \cup {USED}]
    BY DEF Mark
  <2> QED BY <1>2, <2>1, <2>2 DEF TypeOK
<1>5. HeldInBlock'
  BY <1>1, <1>3, <1>4, NatFacts DEF HeapInv, HeldInBlock
<1>6. Owned'
  BY <1>3, <1>4 DEF HeapInv, Owned
<1>7. Asked(t)' /\ Room(t)' /\ Chosen(t)'
  BY <1>2 DEF Asked, Room, Chosen
<1> QED
  BY <1>1, <1>5, <1>6, <1>7 DEF HeapInv, BlocksApart, Apart, BlocksInside

\* kfree() of a block one holds leaves the other blocks as they were.
LEMMA KfreeKeeps ==
  ASSUME TypeOK, HeapInv, OneThread, NEW t \in Thread,
         NEW g \in held[t], Kfree(t, g[1], g[2])
  PROVE  HeapInv'
<1> USE DEF OneThread, Goto, heads, fields, counts
<1>1. UNCHANGED <<brk, blocks, size, bytes, ptr>> /\ ~panicked
  BY DEF Kfree
<1>2. pc'[t] = "idle"
  BY DEF Kfree, TypeOK
<1>3. /\ held'[t] \subseteq held[t]
      /\ \A h \in held'[t] : h[1] # g[1]
  <2>1. g = <<g[1], g[2]>>
    BY DEF TypeOK
  <2>2. held'[t] = held[t] \ {g}
    BY <2>1 DEF Kfree, TypeOK
  <2> QED BY <2>2 DEF HeapInv, Owned, Kfree
<1>4. \A c \in Addr : c # g[1] => state'[c] = state[c]
  BY DEF Kfree, TypeOK
<1>5. HeldInBlock'
  BY <1>1, <1>3, <1>4, NatFacts DEF HeapInv, HeldInBlock
<1>6. Owned'
  BY <1>1, <1>3 DEF HeapInv, Owned
<1>7. Asked(t)' /\ Room(t)' /\ Chosen(t)'
  BY <1>2 DEF Asked, Room, Chosen
<1> QED
  BY <1>1, <1>5, <1>6, <1>7 DEF HeapInv, BlocksApart, Apart, BlocksInside

\* The inductive invariant implies the one that callers rely on.
LEMMA HeapInvSound ==
  ASSUME TypeOK, HeapInv
  PROVE  HeapSound
<1>1. SUFFICES ASSUME ~panicked PROVE LiveApart
  BY DEF HeapInv, HeapSound
<1>2. SUFFICES ASSUME NEW t \in Thread, NEW u \in Thread,
                      NEW g \in held[t], NEW h \in held[u],
                      ~(t = u /\ g = h)
               PROVE  Apart(g[1], g[2], h[1], h[2])
  BY DEF LiveApart
<1>3. g[1] \in blocks /\ h[1] \in blocks /\ g[1] # h[1]
  BY <1>1, <1>2 DEF HeapInv, Owned, TypeOK
<1>4. Apart(g[1], size[g[1]], h[1], size[h[1]])
  BY <1>1, <1>3 DEF HeapInv, BlocksApart
<1>5. g[2] <= size[g[1]] /\ h[2] <= size[h[1]]
  BY <1>1, <1>2 DEF HeapInv, HeldInBlock
<1>6. /\ g[1] \in Nat /\ g[2] \in Nat /\ size[g[1]] \in Nat
      /\ h[1] \in Nat /\ h[2] \in Nat /\ size[h[1]] \in Nat /\ Hdr \in Nat
  BY <1>3, NatFacts
<1> QED BY <1>4, <1>5, <1>6 DEF Apart

(***************************************************************************)
(* The blocks of the chain, the break and the call in progress keep the    *)
(* invariant that makes the heap sound, until a panic() returns.           *)
(***************************************************************************)
THEOREM HeapInvHolds ==
  ASSUME OneThread, NoWrap
  PROVE  Spec => []HeapInv
<1>1. Init => HeapInv
  <2> SUFFICES ASSUME Init PROVE HeapInv
    OBVIOUS
  <2>1. Base <= brk /\ brk <= BrkMax
    BY HeapAssumption DEF Init, HeapAssumption
  <2>2. \A t \in Thread : pc[t] = "idle" /\ held[t] = {}
    BY DEF Init
  <2>3. \A t \in Thread : Asked(t) /\ Room(t) /\ Chosen(t)
    BY <2>2 DEF Asked, Room, Chosen
  <2> QED
    BY <2>1, <2>2, <2>3
    DEF Init, HeapInv, BlocksApart, BlocksInside, HeldInBlock, Owned
<1>2. TypeOK /\ HeapInv /\ [Next]_vars => HeapInv'
  <2> SUFFICES ASSUME TypeOK, HeapInv, [Next]_vars PROVE HeapInv'
    OBVIOUS
  <2>1. ASSUME panicked, NEW t \in Thread, Call(t) \/ KmallocStep(t)
        PROVE  panicked'
    BY <2>1 DEF Call, KmallocGrow, KmallocFit, Kfree, KmallocStep, CheckBrk, BrkPanic,
                SetBrk, NewBlock, Split, NoSplit, LinkBlock, PushBlock, Mark
  <2>2. ASSUME ~panicked, NEW t \in Thread, KmallocStep(t)
        PROVE  HeapInv'
    <3>1. CASE CheckBrk(t) \/ SetBrk(t)
      BY <2>2, <3>1, GrowKeeps
    <3>2. CASE BrkPanic(t)
      BY <3>2 DEF BrkPanic, HeapInv
    <3>3. CASE NewBlock(t)
      BY <2>2, <3>3, NewBlockKeeps
    <3>4. CASE Split(t)
      BY <2>2, <3>4, SplitKeeps
    <3>5. CASE NoSplit(t) \/ LinkBlock(t) \/ PushBlock(t)
      BY <3>5, LinkKeeps
    <3>6. CASE Mark(t)
      BY <2>2, <3>6, MarkKeeps
    <3> QED BY <2>2, <3>1, <3>2, <3>3, <3>4, <3>5, <3>6 DEF KmallocStep
  <2>3. ASSUME NEW t \in Thread, Call(t) PROVE HeapInv'
    BY <2>3, CallKeeps, KfreeKeeps DEF Call
  <2>4. CASE panicked
    BY <2>1, <2>4 DEF Next, vars, HeapInv
  <2>5. CASE UNCHANGED vars
    BY <2>5 DEF vars, heads, fields, counts, HeapInv, BlocksApart, Apart, BlocksInside,
                HeldInBlock, Owned, Asked, Room, Chosen
  <2> QED BY <2>2, <2>3, <2>4, <2>5 DEF Next
<1> QED BY <1>1, <1>2, HeapTypeCorrect, PTL DEF Spec

(***************************************************************************)
(* With one caller, kmalloc() and kfree() never give a byte out twice,     *)
(* whatever is asked for and released, until a panic() returns.            *)
(***************************************************************************)
THEOREM HeapSafe ==
  ASSUME OneThread, NoWrap
  PROVE  Spec => []HeapSound
BY HeapTypeCorrect, HeapInvHolds, HeapInvSound, PTL

(***************************************************************************)
(* The extent that Mark(t) gives out is apart from all that are given.     *)
(***************************************************************************)
LEMMA MarkGives ==
  ASSUME TypeOK, HeapInv, ~panicked, NEW t \in Thread, Mark(t)
  PROVE  Alloc!Give(t)
<1> DEFINE e == <<ptr[t], bytes[t]>>
<1>1. /\ e \in held'[t]
      /\ held' = [held EXCEPT ![t] = @ \cup {e}]
  BY DEF Mark, TypeOK
<1>2. ASSUME NEW u \in Thread, NEW h \in held[u]
      PROVE  Apart(e[1], e[2], h[1], h[2])
  <2>1. /\ ptr[t] \in blocks /\ h[1] \in blocks /\ h[1] # ptr[t]
        /\ bytes[t] <= size[ptr[t]] /\ h[2] <= size[h[1]]
    BY <1>2 DEF Mark, Goto, TypeOK, HeapInv, Chosen, HeldInBlock
  <2>2. Apart(ptr[t], size[ptr[t]], h[1], size[h[1]])
    BY <2>1 DEF HeapInv, BlocksApart
  <2>3. /\ ptr[t] \in Nat /\ bytes[t] \in Nat /\ size[ptr[t]] \in Nat
        /\ h[1] \in Nat /\ h[2] \in Nat /\ size[h[1]] \in Nat /\ Hdr \in Nat
    BY <1>2, <2>1, NatFacts
  <2> QED BY <2>1, <2>2, <2>3 DEF Apart
<1>3. \A u \in Thread : \A h \in held[u] : Alloc!Separate(e, h)
  BY <1>2 DEF Apart, Alloc!Separate
<1> QED BY <1>1, <1>3 DEF Alloc!Give

(***************************************************************************)
(* With one caller the heap implements the abstract allocator: only the    *)
(* end of kmalloc() gives, only kfree() releases, and what is given is     *)
(* apart from everything given before.                                     *)
(***************************************************************************)
THEOREM HeapImplementsAllocator ==
  ASSUME OneThread, NoWrap
  PROVE  Spec => ImplementsAllocator
<1>1. Init => Alloc!Init
  BY DEF Init, Alloc!Init
<1>2. TypeOK /\ TypeOK' /\ HeapInv /\ [Next]_vars => [Alloc!Next]_(Alloc!vars)
  <2> SUFFICES ASSUME TypeOK, TypeOK', HeapInv, [Next]_vars
               PROVE  Alloc!Next \/ UNCHANGED <<held, panicked>>
    BY DEF Alloc!vars
  <2>1. CASE panicked
    <3>1. panicked'
      BY <2>1 DEF Next, vars, Call, KmallocGrow, KmallocFit, Kfree, KmallocStep, CheckBrk,
                  BrkPanic, SetBrk, NewBlock, Split, NoSplit, LinkBlock, PushBlock, Mark
    <3> QED BY <2>1, <3>1 DEF Alloc!Next
  <2>2. ASSUME ~panicked, NEW t \in Thread, KmallocStep(t)
        PROVE  Alloc!Next \/ UNCHANGED <<held, panicked>>
    <3>1. CASE Mark(t)
      <4>1. ~panicked /\ panicked' = panicked
        BY <2>2, <3>1 DEF Mark
      <4>2. Alloc!Give(t)
        BY <2>2, <3>1, MarkGives
      <4> QED BY <4>1, <4>2 DEF Alloc!Next
    <3>2. CASE BrkPanic(t)
      BY <2>2, <3>2 DEF BrkPanic, Alloc!Next, Alloc!Fail
    <3>3. CASE CheckBrk(t) \/ SetBrk(t) \/ NewBlock(t) \/ Split(t) \/ NoSplit(t)
                 \/ LinkBlock(t) \/ PushBlock(t)
      BY <3>3 DEF CheckBrk, SetBrk, NewBlock, Split, NoSplit, LinkBlock, PushBlock
    <3> QED BY <2>2, <3>1, <3>2, <3>3 DEF KmallocStep
  <2>3. ASSUME ~panicked, NEW t \in Thread, Call(t)
        PROVE  Alloc!Next \/ UNCHANGED <<held, panicked>>
    <3>1. ASSUME NEW h \in held[t], Kfree(t, h[1], h[2])
          PROVE  Alloc!Next
      <4>1. <<h[1], h[2]>> \in held[t]
            /\ held' = [held EXCEPT ![t] = @ \ {<<h[1], h[2]>>}]
        BY <3>1 DEF Kfree
      <4>2. Alloc!Release(t)
        BY <4>1 DEF Alloc!Release
      <4>3. ~panicked /\ panicked' = panicked
        BY <3>1 DEF Kfree
      <4> QED BY <4>2, <4>3 DEF Alloc!Next
    <3> QED BY <2>3, <3>1 DEF Call, KmallocGrow, KmallocFit
  <2>4. CASE UNCHANGED vars
    BY <2>4 DEF vars
  <2> QED BY <2>1, <2>2, <2>3, <2>4 DEF Next
<1> QED BY <1>1, <1>2, HeapTypeCorrect, HeapInvHolds, PTL
        DEF Spec, ImplementsAllocator, Alloc!Spec

-----------------------------------------------------------------------------
(* Nothing is lost: what the chain and the counters hold in the middle of a *)
(* call.                                                                   *)

\* The node behind the i-th of a chain of n headers.
At(q, n, i) == IF i \in 1 .. n THEN q[i] ELSE Chain

\* The header that is filled in, but not on the chain yet.
Pending == {node[t] : t \in {u \in Thread : pc[u] \in {"link", "push"}}}

IsChain(q, n) ==
  /\ n \in Nat /\ q \in [1 .. n -> blocks]
  /\ \A i, j \in 1 .. n : q[i] = q[j] => i = j
  /\ first = At(q, n, 1)
  /\ \A i \in 1 .. n : next[q[i]] = At(q, n, i + 1)
  /\ {q[i] : i \in 1 .. n} = blocks \ Pending
  /\ total_blocks = n

\* The old chain already hangs behind a header that is pushed next.
Hung == \A t \in Thread : pc[t] = "push" => next[node[t]] = first

\* Every block ends where the next begins, or at the break, or where the block
\* begins for which the break has been raised.
Tiled ==
  \A b \in blocks :
    \/ b + Hdr + size[b] \in blocks
    \/ b + Hdr + size[b] = brk /\ \A t \in Thread : pc[t] # "header"
    \/ \E t \in Thread : pc[t] = "header" /\ b + Hdr + size[b] + Hdr + bytes[t] = brk

\* The block that a call has chosen counts as used when the call marks it.
Busy == {ptr[t] : t \in {u \in Thread : pc[u] \in {"split", "link", "push", "mark"}}}

UsedSet == {b \in blocks : USED \in state[b]}

LossInv ==
  ~panicked => /\ Tiled /\ Hung /\ \E n : \E q : IsChain(q, n)
               /\ used_blocks = Cardinality(UsedSet \ Busy)

(***************************************************************************)
(* The walk along a chain visits it in order and stays at its end.         *)
(***************************************************************************)
LEMMA WalkChain ==
  ASSUME TypeOK, NEW n, NEW q, IsChain(q, n), NEW m \in 0 .. Word
  PROVE  Walk[m] = At(q, n, m + 1)
<1> DEFINE D(f) == [i \in 0 .. Word |->
                      IF i = 0 THEN first
                      ELSE IF f[i-1] \in blocks THEN next[f[i-1]] ELSE f[i-1]]
           g == [i \in 0 .. Word |-> At(q, n, i + 1)]
<1>1. Word \in Nat /\ Chain \notin blocks
  BY HeapAssumption DEF HeapAssumption, TypeOK
<1>2. ASSUME NEW i \in 0 .. Word, i # 0
      PROVE  At(q, n, i + 1) =
               IF At(q, n, i) \in blocks THEN next[At(q, n, i)] ELSE At(q, n, i)
  <2>1. CASE i \in 1 .. n
    BY <2>1 DEF IsChain, At
  <2>2. CASE i \notin 1 .. n
    <3>1. i + 1 \notin 1 .. n
      BY <1>2, <2>2, <1>1 DEF IsChain
    <3> QED BY <1>1, <2>2, <3>1 DEF At
  <2> QED BY <2>1, <2>2
<1>3. g = D(g)
  <2>1. ASSUME NEW i \in 0 .. Word PROVE g[i] = D(g)[i]
    <3>1. CASE i = 0
      BY <3>1 DEF IsChain
    <3>2. CASE i # 0
      <4>1. i - 1 \in 0 .. Word /\ (i - 1) + 1 = i
        BY <3>2, <1>1
      <4>2. g[i - 1] = At(q, n, i)
        BY <4>1
      <4> QED BY <1>2, <3>2, <4>2
    <3> QED BY <3>1, <3>2
  <2> QED BY <2>1
<1>4. Walk = D(Walk)
  <2>1. Walk = CHOOSE f : f = D(f)
    BY DEF Walk
  <2> HIDE DEF D, g
  <2> QED BY <1>3, <2>1
<1> DEFINE S == {i \in Nat : i \in 0 .. Word => Walk[i] = At(q, n, i + 1)}
<1>5. 0 \in S
  <2>1. Walk[0] = first
    BY <1>1, <1>4
  <2> QED BY <2>1 DEF IsChain
<1>6. ASSUME NEW i \in Nat, i \in S PROVE i + 1 \in S
  <2> SUFFICES ASSUME i + 1 \in 0 .. Word PROVE Walk[i + 1] = At(q, n, (i + 1) + 1)
    OBVIOUS
  <2>1. Walk[i + 1] = IF Walk[i] \in blocks THEN next[Walk[i]] ELSE Walk[i]
    <3>1. i + 1 # 0 /\ (i + 1) - 1 = i
      OBVIOUS
    <3>2. D(Walk)[i + 1] = IF Walk[i] \in blocks THEN next[Walk[i]] ELSE Walk[i]
      BY <3>1
    <3> HIDE DEF D
    <3> QED BY <1>4, <3>2
  <2>2. Walk[i] = At(q, n, i + 1)
    BY <1>1, <1>6
  <2>3. At(q, n, (i + 1) + 1) =
          IF At(q, n, i + 1) \in blocks THEN next[At(q, n, i + 1)] ELSE At(q, n, i + 1)
    <3>1. i + 1 # 0
      OBVIOUS
    <3> QED BY <1>2, <3>1
  <2> QED BY <2>1, <2>2, <2>3
<1>7. Nat \subseteq S
  <2> HIDE DEF S
  <2> QED BY <1>5, <1>6, SetInduction
<1> QED BY <1>1, <1>7

(***************************************************************************)
(* A chain with no header pending holds all blocks, as many as it is long, *)
(* and never as many as a u32 can count.                                   *)
(***************************************************************************)
LEMMA BlocksFinite ==
  ASSUME TypeOK, HeapInv, ~panicked
  PROVE  IsFiniteSet(blocks) /\ Cardinality(blocks) \in Nat /\ Cardinality(blocks) < Word
<1>1. blocks \in SUBSET (0 .. BrkMax - 1)
  <2> SUFFICES ASSUME NEW b \in blocks PROVE b \in 0 .. BrkMax - 1
    OBVIOUS
  <2>1. b \in Nat /\ size[b] \in Nat /\ b + Hdr + size[b] <= brk /\ brk <= BrkMax
        /\ Hdr \in Nat \ {0} /\ BrkMax \in Nat /\ brk \in Nat
    BY AddrFacts, HeapAssumption DEF TypeOK, HeapInv, BlocksInside, HeapAssumption
  <2> QED BY <2>1
<1>2. BrkMax \in Nat /\ BrkMax < Word /\ Word \in Nat
  BY HeapAssumption DEF HeapAssumption
<1>3. IsFiniteSet(0 .. BrkMax - 1) /\ Cardinality(0 .. BrkMax - 1) = BrkMax
  <2>1. 0 \in Int /\ BrkMax - 1 \in Int
    BY <1>2
  <2>2. /\ IsFiniteSet(0 .. BrkMax - 1)
        /\ Cardinality(0 .. BrkMax - 1) = IF 0 > BrkMax - 1 THEN 0 ELSE (BrkMax - 1) - 0 + 1
    BY <2>1, FS_Interval, Zenon
  <2> QED BY <1>2, <2>2
<1>4. IsFiniteSet(blocks) /\ Cardinality(blocks) <= BrkMax
  BY <1>1, <1>3, FS_Subset
<1>5. Cardinality(blocks) \in Nat
  BY <1>4, FS_CardinalityType
<1> QED BY <1>2, <1>4, <1>5

\* The chain is as long as there are blocks on it.
LEMMA ChainLength ==
  ASSUME TypeOK, HeapInv, ~panicked, NEW n, NEW q, IsChain(q, n)
  PROVE  Cardinality(blocks \ Pending) = n /\ n <= Cardinality(blocks)
<1>1. IsFiniteSet(blocks) /\ Cardinality(blocks) \in Nat /\ n \in Nat
  BY BlocksFinite DEF IsChain
<1>2. PICK T : T = blocks \ Pending
  OBVIOUS
<1>3. T \in SUBSET blocks
  BY <1>2
<1>4. IsFiniteSet(T) /\ Cardinality(T) <= Cardinality(blocks)
  BY <1>1, <1>3, FS_Subset
<1>5. q \in Bijection(1 .. n, T)
  BY <1>2 DEF IsChain, Bijection, Injection, IsInjective, Surjection
<1>6. IsFiniteSet(1 .. n) /\ Cardinality(1 .. n) = n
  <2>1. 1 \in Int /\ n \in Int
    BY <1>1
  <2>2. /\ IsFiniteSet(1 .. n)
        /\ Cardinality(1 .. n) = IF 1 > n THEN 0 ELSE n - 1 + 1
    BY <2>1, FS_Interval, Zenon
  <2> QED BY <1>1, <2>2
<1>7. ExistsBijection(1 .. n, T)
  BY <1>5 DEF ExistsBijection
<1>8. Cardinality(T) = Cardinality(1 .. n)
  BY <1>6, <1>7, FS_Bijection
<1> QED BY <1>2, <1>4, <1>6, <1>8

(***************************************************************************)
(* Between calls the invariant is NothingLost and CountersAgree.           *)
(***************************************************************************)
LEMMA LossInvShows ==
  ASSUME TypeOK, HeapInv, LossInv
  PROVE  NothingLost /\ CountersAgree
<1> SUFFICES ASSUME Idle, ~panicked PROVE NothingLost /\ CountersAgree
  BY DEF NothingLost, CountersAgree
<1>1. PICK n, q : IsChain(q, n)
  BY DEF LossInv
<1>2. Pending = {} /\ Busy = {} /\ \A t \in Thread : pc[t] # "header"
  BY DEF Idle, Pending, Busy
<1>3. Cardinality(blocks) = n /\ n \in Nat /\ Cardinality(blocks) < Word /\ Word \in Nat
  BY <1>1, <1>2, ChainLength, BlocksFinite, AddrFacts DEF IsChain
<1>4. \A b \in blocks : b + Hdr + size[b] \in blocks \cup {brk}
  BY <1>2 DEF LossInv, Tiled
<1>5. \A i \in Steps : i \in 0 .. Word /\ Walk[i] = At(q, n, i + 1)
  <2>1. \A i \in Steps : i \in 0 .. Word
    BY <1>3 DEF Steps
  <2> QED BY <1>1, <2>1, WalkChain
<1>6. n \in Steps /\ Walk[n] = Chain
  BY <1>3, <1>5 DEF Steps, At
<1>7. Chain \notin blocks
  BY HeapAssumption DEF HeapAssumption, TypeOK
<1>8. \A i \in Steps : Walk[i] \in blocks \cup {Chain}
  BY <1>1, <1>5 DEF At, IsChain
<1>9. \A b \in blocks : \E i \in Steps : Walk[i] = b
  <2> SUFFICES ASSUME NEW b \in blocks PROVE \E i \in Steps : Walk[i] = b
    OBVIOUS
  <2>1. PICK j \in 1 .. n : q[j] = b
    BY <1>1, <1>2 DEF IsChain
  <2>2. j - 1 \in Steps /\ (j - 1) + 1 = j
    BY <1>3 DEF Steps
  <2>3. Walk[j - 1] = b
    BY <1>5, <2>1, <2>2 DEF At
  <2> QED BY <2>2, <2>3
<1>10. blocks = {Walk[i] : i \in Steps} \ {Chain}
  BY <1>7, <1>8, <1>9
<1>11. NothingLost
  BY <1>4, <1>6, <1>10 DEF NothingLost
<1>12. CountersAgree
  <2>1. total_blocks = Cardinality(blocks)
    BY <1>1, <1>3 DEF IsChain
  <2>2. UsedSet \ Busy = {b \in blocks : USED \in state[b]}
    BY <1>2 DEF UsedSet
  <2> QED BY <2>1, <2>2 DEF LossInv, CountersAgree
<1> QED BY <1>11, <1>12

(***************************************************************************)
(* With one caller: the header that is pending and the block that is busy. *)
(***************************************************************************)
LEMMA OneCall ==
  ASSUME OneThread, NEW t \in Thread
  PROVE  /\ Pending = IF pc[t] \in {"link", "push"} THEN {node[t]} ELSE {}
         /\ Busy = IF pc[t] \in {"split", "link", "push", "mark"} THEN {ptr[t]} ELSE {}
BY DEF OneThread, Pending, Busy

\* The same for the state after a step.
LEMMA OneCallNext ==
  ASSUME OneThread, NEW t \in Thread
  PROVE  /\ Pending' = IF pc'[t] \in {"link", "push"} THEN {node'[t]} ELSE {}
         /\ Busy' = IF pc'[t] \in {"split", "link", "push", "mark"} THEN {ptr'[t]} ELSE {}
BY DEF OneThread, Pending, Busy

(***************************************************************************)
(* The statements that leave chain and headers alone.                      *)
(***************************************************************************)
LEMMA SameChain ==
  ASSUME UNCHANGED <<blocks, first, next, total_blocks>>, Pending' = Pending,
         NEW n, NEW q, IsChain(q, n)
  PROVE  IsChain(q, n)'
BY DEF IsChain, At

\* The steps of kmalloc() that look for a block, and those that move the break,
\* touch neither chain nor counters.
LEMMA LooksLose ==
  ASSUME TypeOK, HeapInv, ~panicked, OneThread, NoWrap, LossInv, NEW t \in Thread,
         \/ \E k \in Sizes : KmallocGrow(t, k) \/ \E b \in blocks : KmallocFit(t, k, b)
         \/ CheckBrk(t) \/ SetBrk(t) \/ NoSplit(t)
  PROVE  LossInv'
<1> USE DEF Goto, heads, fields, counts
<1>1. UNCHANGED <<blocks, first, next, size, state, total_blocks, used_blocks, panicked>>
  BY DEF KmallocGrow, KmallocFit, CheckBrk, SetBrk, NoSplit
<1>2. /\ pc[t] \in {"idle", "brk_check", "brk_set", "split"}
      /\ pc'[t] \in {"brk_check", "brk_set", "header", "split", "mark"}
  BY DEF KmallocGrow, KmallocFit, CheckBrk, SetBrk, NoSplit, TypeOK
<1>3. Pending = {} /\ Pending' = {}
  BY <1>2, OneCall, OneCallNext
<1>4. \E n : \E q : IsChain(q, n)'
  <2>1. PICK n, q : IsChain(q, n)
    BY DEF LossInv
  <2> QED BY <1>1, <1>3, <2>1, SameChain
<1>5. Hung'
  BY <1>2 DEF Hung, OneThread
<1>6. UsedSet' \ Busy' = UsedSet \ Busy
  <2>1. UsedSet' = UsedSet
    BY <1>1 DEF UsedSet
  <2>2. CASE \E k \in Sizes : \E b \in blocks : KmallocFit(t, k, b)
    <3>1. PICK k \in Sizes, b \in blocks : KmallocFit(t, k, b)
      BY <2>2
    <3>2. Busy = {} /\ Busy' = {b} /\ USED \notin state[b]
      BY <3>1, OneCall, OneCallNext DEF KmallocFit, FirstFit, Fits, TypeOK
    <3> QED BY <2>1, <3>2 DEF UsedSet
  <2>3. CASE NoSplit(t)
    <3>1. Busy = {ptr[t]} /\ Busy' = {ptr[t]}
      BY <2>3, OneCall, OneCallNext DEF NoSplit, TypeOK
    <3> QED BY <2>1, <3>1
  <2>4. CASE (\E k \in Sizes : KmallocGrow(t, k)) \/ CheckBrk(t) \/ SetBrk(t)
    <3>1. Busy = {} /\ Busy' = {}
      BY <2>4, OneCall, OneCallNext DEF KmallocGrow, CheckBrk, SetBrk, TypeOK
    <3> QED BY <2>1, <3>1
  <2> QED BY <2>2, <2>3, <2>4
<1>7. Tiled'
  <2>1. Tiled /\ \A b \in blocks : b \in Nat /\ size[b] \in Nat
    BY NatFacts DEF LossInv
  <2>2. CASE SetBrk(t)
    <3>1. pc[t] = "brk_set" /\ pc'[t] = "header" /\ bytes' = bytes /\ brk' = end[t]
      BY <2>2 DEF SetBrk, TypeOK
    <3>2. brk' = brk + Hdr + bytes[t]
      BY <3>1 DEF HeapInv, Asked
    <3>3. \A b \in blocks : b + Hdr + size[b] \in blocks \/ b + Hdr + size[b] = brk
      BY <2>1, <3>1 DEF Tiled, OneThread
    <3>4. \A b \in blocks :
             b + Hdr + size[b] = brk => b + Hdr + size[b] + Hdr + bytes[t] = brk'
      BY <2>1, <3>2, NatFacts
    <3> QED BY <1>1, <3>1, <3>3, <3>4 DEF Tiled
  <2>3. CASE ~SetBrk(t)
    <3>1. brk' = brk /\ pc[t] # "header" /\ pc'[t] # "header"
      BY <2>3 DEF KmallocGrow, KmallocFit, CheckBrk, NoSplit, TypeOK
    <3> QED BY <1>1, <2>1, <3>1 DEF Tiled, OneThread
  <2> QED BY <2>2, <2>3
<1> QED BY <1>1, <1>4, <1>5, <1>6, <1>7 DEF LossInv

(***************************************************************************)
(* A new header is pending until it is pushed.                             *)
(***************************************************************************)
LEMMA PendingChain ==
  ASSUME NEW b, b \notin blocks, blocks' = blocks \cup {b}, Pending = {}, Pending' = {b},
         UNCHANGED <<first, next, total_blocks>>, NEW n, NEW q, IsChain(q, n)
  PROVE  IsChain(q, n)'
<1>1. n \in Nat /\ q \in [1 .. n -> blocks']
  BY DEF IsChain
<1>2. {q[i] : i \in 1 .. n} = blocks' \ Pending'
  BY DEF IsChain
<1> QED BY <1>1, <1>2 DEF IsChain, At

\* The header at the old break ends where the raised break is.
LEMMA NewBlockLoses ==
  ASSUME TypeOK, HeapInv, ~panicked, OneThread, NoWrap, LossInv,
         NEW t \in Thread, NewBlock(t)
  PROVE  LossInv'
<1> USE DEF Goto, heads, fields, counts
<1>1. PICK b : b = Minus(brk, Plus(Hdr, bytes[t]))
  OBVIOUS
<1>2. pc[t] = "header" /\ pc'[t] = "link"
      /\ UNCHANGED <<brk, bytes, first, next, total_blocks, used_blocks, panicked>>
  BY DEF NewBlock, TypeOK
<1>3. bytes[t] \in Sizes /\ brk <= BrkMax /\ Base + Hdr + bytes[t] <= brk
      /\ \A c \in blocks : c + Hdr + size[c] + Hdr + bytes[t] <= brk
  BY <1>2 DEF HeapInv, Asked, Room
<1>4. b = brk - (Hdr + bytes[t])
  <2>1. Hdr + bytes[t] < Word /\ Hdr + bytes[t] <= brk
    BY <1>3, NatFacts DEF NoWrap
  <2>2. Plus(Hdr, bytes[t]) = Hdr + bytes[t] /\ Hdr + bytes[t] \in Addr
    BY <2>1, Sums, AddrFacts DEF TypeOK
  <2> QED BY <1>1, <2>1, <2>2, Sums DEF TypeOK
<1>5. b \in Addr /\ b \notin blocks
  <2>1. b \in Addr
    BY <1>1, Sums, AddrFacts DEF TypeOK
  <2>2. \A c \in blocks : c < b
    BY <1>3, <1>4, NatFacts
  <2> QED BY <2>1, <2>2, NatFacts
<1>6. /\ ptr'[t] = b /\ node'[t] = b /\ blocks' = blocks \cup {b}
      /\ size' = [size EXCEPT ![b] = bytes[t]]
      /\ \A c \in Addr : c # b => state'[c] = state[c]
  BY <1>1, <1>5 DEF NewBlock, TypeOK
<1>7. Pending = {} /\ Pending' = {b} /\ Busy = {} /\ Busy' = {b}
  BY <1>2, <1>6, OneCall, OneCallNext
<1>8. \E n : \E q : IsChain(q, n)'
  <2>1. PICK n, q : IsChain(q, n)
    BY DEF LossInv
  <2> QED BY <1>2, <1>5, <1>6, <1>7, <2>1, PendingChain
<1>9. UsedSet' \ Busy' = UsedSet \ Busy
  BY <1>5, <1>6, <1>7 DEF UsedSet, TypeOK
<1>10. Tiled'
  <2>1. \A c \in blocks : c + Hdr + size[c] \in blocks \/ c + Hdr + size[c] = b
    <3>1. \A c \in blocks : \/ c + Hdr + size[c] \in blocks
                            \/ c + Hdr + size[c] + Hdr + bytes[t] = brk
      BY <1>2 DEF LossInv, Tiled, OneThread
    <3>2. \A c \in blocks : c \in Nat /\ size[c] \in Nat
      BY NatFacts
    <3> QED BY <1>4, <3>1, <3>2, NatFacts
  <2>2. b + Hdr + bytes[t] = brk
    BY <1>3, <1>4, <1>5, NatFacts
  <2>3. size'[b] = bytes[t] /\ \A c \in blocks : size'[c] = size[c]
    BY <1>5, <1>6 DEF TypeOK
  <2> QED BY <1>2, <1>6, <2>1, <2>2, <2>3 DEF Tiled, OneThread
<1>11. Hung'
  BY <1>2 DEF Hung, OneThread
<1> QED BY <1>2, <1>8, <1>9, <1>10, <1>11 DEF LossInv

(***************************************************************************)
(* So is the second header of a split block, which ends where the whole    *)
(* block did.                                                              *)
(***************************************************************************)
LEMMA SplitLoses ==
  ASSUME TypeOK, HeapInv, ~panicked, OneThread, NoWrap, LossInv,
         NEW t \in Thread, Split(t)
  PROVE  LossInv'
<1> USE DEF Goto, heads, fields, counts
<1> DEFINE p == ptr[t]
<1>1. PICK b : b = Plus(Plus(p, Hdr), bytes[t])
  OBVIOUS
<1>2. pc[t] = "split" /\ pc'[t] = "link"
      /\ UNCHANGED <<brk, bytes, ptr, first, next, total_blocks, used_blocks, panicked>>
  BY DEF Split, TypeOK
<1>3. bytes[t] <= size[p] /\ p \in blocks /\ USED \notin state[p]
  BY <1>2 DEF HeapInv, Chosen, TypeOK
<1>4. /\ p + Hdr + size[p] <= brk /\ brk <= BrkMax /\ BrkMax < Word
      /\ p \in Nat /\ p \in Addr /\ size[p] \in Nat
  BY <1>3, NatFacts, HeapAssumption DEF HeapInv, BlocksInside, HeapAssumption
<1>5. Leftover(t) = size[p] - bytes[t]
  BY <1>3, <1>4, Sums DEF Leftover, TypeOK
<1>6. size[p] - bytes[t] >= Hdr + MinSplit
  BY <1>5 DEF Split
<1>7. b = p + Hdr + bytes[t]
  <2>1. p + Hdr < Word /\ (p + Hdr) + bytes[t] < Word
    BY <1>3, <1>4, NatFacts
  <2>2. Plus(p, Hdr) = p + Hdr /\ p + Hdr \in Addr
    BY <1>4, <2>1, Sums, AddrFacts
  <2> QED BY <1>1, <2>1, <2>2, Sums DEF TypeOK
<1>8. b \in Addr /\ b # p /\ b \notin blocks
  <2>1. b \in Nat /\ b < Word /\ b # p
    BY <1>3, <1>4, <1>6, <1>7, NatFacts
  <2>2. ASSUME b \in blocks PROVE FALSE
    <3>1. Apart(p, size[p], b, size[b])
      BY <1>3, <2>1, <2>2 DEF HeapInv, BlocksApart
    <3> QED BY <1>4, <1>6, <1>7, <2>2, <3>1, NatFacts DEF Apart
  <2> QED BY <2>1, <2>2, AddrFacts
<1>9. /\ blocks' = blocks \cup {b} /\ node'[t] = b
      /\ size' = [size EXCEPT ![b] = size[p] - bytes[t] - Hdr, ![p] = bytes[t]]
      /\ state' = [state EXCEPT ![b] = {}]
  BY <1>1, <1>5 DEF Split, TypeOK
<1> HIDE DEF p
<1>10. /\ size'[b] = size[p] - bytes[t] - Hdr /\ size'[p] = bytes[t]
       /\ \A c \in blocks : c # p => size'[c] = size[c]
       /\ \A c \in blocks : state'[c] = state[c]
       /\ state'[b] = {}
  BY <1>4, <1>8, <1>9 DEF TypeOK
<1>11. Pending = {} /\ Pending' = {b} /\ Busy' = Busy
  BY <1>2, <1>9, OneCall, OneCallNext
<1>12. \E n : \E q : IsChain(q, n)'
  <2>1. PICK n, q : IsChain(q, n)
    BY DEF LossInv
  <2> QED BY <1>2, <1>8, <1>9, <1>11, <2>1, PendingChain
<1>13. UsedSet' = UsedSet
  BY <1>8, <1>9, <1>10 DEF UsedSet
<1>14. Tiled'
  <2>1. \A c \in blocks : c + Hdr + size[c] \in blocks \/ c + Hdr + size[c] = brk
    BY <1>2 DEF LossInv, Tiled, OneThread
  <2>2. p + Hdr + size'[p] = b
    BY <1>7, <1>10
  <2>3. b + Hdr + size'[b] = p + Hdr + size[p]
    BY <1>3, <1>4, <1>6, <1>7, <1>10, NatFacts
  <2>4. b + Hdr + size'[b] \in blocks \/ b + Hdr + size'[b] = brk
    BY <1>3, <2>1, <2>3
  <2>5. ASSUME NEW c \in blocks'
        PROVE  c + Hdr + size'[c] \in blocks' \/ c + Hdr + size'[c] = brk
    <3>1. c = b \/ c = p \/ (c \in blocks /\ c # p)
      BY <1>9
    <3>2. CASE c = b
      BY <1>9, <2>4, <3>2
    <3>3. CASE c = p
      <4>1. c + Hdr + size'[c] = b
        BY <2>2, <3>3
      <4> QED BY <1>9, <4>1
    <3>4. CASE c \in blocks /\ c # p
      <4>1. size'[c] = size[c]
        BY <1>10, <3>4
      <4>2. c + Hdr + size'[c] = c + Hdr + size[c]
        BY <4>1
      <4>3. c + Hdr + size[c] \in blocks \/ c + Hdr + size[c] = brk
        BY <2>1, <3>4
      <4>4. blocks \subseteq blocks'
        BY <1>9
      <4> QED BY <4>2, <4>3, <4>4, Zenon
    <3> QED BY <3>1, <3>2, <3>3, <3>4, Zenon
  <2> QED BY <1>2, <2>5 DEF Tiled, OneThread
<1>15. Hung'
  BY <1>2 DEF Hung, OneThread
<1> QED BY <1>2, <1>11, <1>12, <1>13, <1>14, <1>15 DEF LossInv

(***************************************************************************)
(* list_add(): the old chain hangs behind the pending header, then the     *)
(* head points at it.                                                      *)
(***************************************************************************)
LEMMA LinkLoses ==
  ASSUME TypeOK, HeapInv, ~panicked, OneThread, LossInv, NEW t \in Thread, LinkBlock(t)
  PROVE  LossInv'
<1> USE DEF Goto, heads, fields, counts
<1>1. /\ pc[t] = "link" /\ pc'[t] = "push" /\ next' = [next EXCEPT ![node[t]] = first]
      /\ UNCHANGED <<brk, bytes, blocks, size, state, node, ptr, first, total_blocks,
                     used_blocks, panicked>>
  BY DEF LinkBlock, TypeOK
<1>2. Pending = {node[t]} /\ Pending' = Pending /\ Busy' = Busy /\ node[t] \in Addr
  BY <1>1, OneCall, OneCallNext DEF TypeOK
<1>3. \E n : \E q : IsChain(q, n)'
  <2>1. PICK n, q : IsChain(q, n)
    BY DEF LossInv
  <2>2. \A i \in 1 .. n : q[i] # node[t] /\ q[i] \in Addr
    <3> TAKE i \in 1 .. n
    <3>1. q[i] \in {q[k] : k \in 1 .. n} /\ q[i] \in blocks
      BY <2>1 DEF IsChain
    <3>2. q[i] \notin Pending
      BY <2>1, <3>1 DEF IsChain
    <3> QED BY <1>2, <3>1, <3>2 DEF TypeOK
  <2>3. \A i \in 1 .. n : next'[q[i]] = next[q[i]]
    BY <1>1, <2>2 DEF TypeOK
  <2>4. IsChain(q, n)'
    BY <1>1, <1>2, <2>1, <2>3 DEF IsChain, At
  <2> QED BY <2>4
<1>4. Hung'
  BY <1>1, <1>2 DEF Hung, OneThread, TypeOK
<1>5. Tiled' /\ UsedSet' = UsedSet
  BY <1>1 DEF LossInv, Tiled, UsedSet, OneThread
<1> QED BY <1>1, <1>2, <1>3, <1>4, <1>5 DEF LossInv

\* The head points at the new header, which counts from now on.
LEMMA PushLoses ==
  ASSUME TypeOK, HeapInv, ~panicked, OneThread, LossInv, NEW t \in Thread, PushBlock(t)
  PROVE  LossInv'
<1> USE DEF Goto, heads, fields, counts
<1>1. /\ pc[t] = "push" /\ pc'[t] = "mark" /\ first' = node[t]
      /\ total_blocks' = Plus(total_blocks, 1)
      /\ UNCHANGED <<brk, bytes, blocks, size, state, node, ptr, next, used_blocks, panicked>>
  BY DEF PushBlock, TypeOK
<1>2. Pending = {node[t]} /\ Pending' = {} /\ Busy' = Busy /\ node[t] \in blocks
  BY <1>1, OneCall, OneCallNext DEF TypeOK
<1>3. \E n : \E q : IsChain(q, n)'
  <2>1. PICK n, q : IsChain(q, n)
    BY DEF LossInv
  <2>2. PICK r : r = [i \in 1 .. n + 1 |-> IF i = 1 THEN node[t] ELSE q[i - 1]]
    OBVIOUS
  <2>3. n \in Nat /\ n + 1 \in Nat
    BY <2>1 DEF IsChain
  <2>4. \A i \in 1 .. n + 1 : i # 1 => i - 1 \in 1 .. n /\ r[i] = q[i - 1]
    BY <2>2, <2>3
  <2>5. r[1] = node[t] /\ \A i \in 1 .. n : i + 1 \in 1 .. n + 1 /\ r[i + 1] = q[i]
    BY <2>2, <2>3
  <2>6. r \in [1 .. n + 1 -> blocks]
    BY <1>2, <2>1, <2>2, <2>4 DEF IsChain
  <2>7. \A i, j \in 1 .. n + 1 : r[i] = r[j] => i = j
    <3> SUFFICES ASSUME NEW i \in 1 .. n + 1, NEW j \in 1 .. n + 1, r[i] = r[j] PROVE i = j
      OBVIOUS
    <3>1. \A k \in 1 .. n : q[k] # node[t]
      BY <1>2, <2>1 DEF IsChain
    <3>2. CASE i = 1 \/ j = 1
      BY <2>4, <2>5, <3>1, <3>2
    <3>3. CASE i # 1 /\ j # 1
      <4>1. i - 1 = j - 1
        BY <2>1, <2>4, <3>3 DEF IsChain
      <4> QED BY <2>3, <4>1
    <3> QED BY <3>2, <3>3
  <2>8. first' = At(r, n + 1, 1)
    BY <1>1, <2>3, <2>5 DEF At
  <2>9. \A i \in 1 .. n + 1 : next[r[i]] = At(r, n + 1, i + 1)
    <3> SUFFICES ASSUME NEW i \in 1 .. n + 1 PROVE next[r[i]] = At(r, n + 1, i + 1)
      OBVIOUS
    <3>1. \A k \in 0 .. n : At(q, n, k + 1) = At(r, n + 1, (k + 1) + 1)
      <4> SUFFICES ASSUME NEW k \in 0 .. n
                   PROVE  At(q, n, k + 1) = At(r, n + 1, (k + 1) + 1)
        OBVIOUS
      <4>1. k + 1 \in 1 .. n <=> (k + 1) + 1 \in 1 .. n + 1
        BY <2>3
      <4> QED BY <2>5, <4>1 DEF At
    <3>2. CASE i = 1
      <4>1. next[node[t]] = first /\ first = At(q, n, 1)
        BY <1>1, <2>1 DEF LossInv, Hung, IsChain
      <4>2. At(q, n, 0 + 1) = At(r, n + 1, (0 + 1) + 1)
        BY <2>3, <3>1
      <4> QED BY <2>5, <3>2, <4>1, <4>2
    <3>3. CASE i # 1
      <4>1. i - 1 \in 1 .. n /\ r[i] = q[i - 1] /\ (i - 1) + 1 = i
        BY <2>3, <2>4, <3>3
      <4>2. next[q[i - 1]] = At(q, n, (i - 1) + 1)
        BY <2>1, <4>1 DEF IsChain
      <4>3. At(q, n, (i - 1) + 1) = At(r, n + 1, ((i - 1) + 1) + 1)
        BY <2>3, <3>1, <4>1
      <4> QED BY <4>1, <4>2, <4>3
    <3> QED BY <3>2, <3>3
  <2>10. {r[i] : i \in 1 .. n + 1} = blocks
    <3>1. {q[i] : i \in 1 .. n} = blocks \ {node[t]}
      BY <1>2, <2>1 DEF IsChain
    <3>2. \A i \in 1 .. n + 1 : r[i] \in blocks
      BY <2>6
    <3>3. \A b \in blocks : \E i \in 1 .. n + 1 : r[i] = b
      BY <2>3, <2>5, <3>1
    <3> QED BY <3>2, <3>3
  <2>11. total_blocks' = n + 1
    <3>1. total_blocks = n /\ total_blocks \in Addr
      BY <2>1 DEF IsChain, TypeOK
    <3>2. Cardinality(blocks \ Pending) = n
      BY <2>1, ChainLength
    <3>3. Cardinality(blocks \ Pending) = Cardinality(blocks) - 1
      <4>1. IsFiniteSet(blocks)
        BY BlocksFinite
      <4> QED BY <1>2, <4>1, FS_RemoveElement
    <3>4. n + 1 = Cardinality(blocks) /\ n + 1 < Word
      BY <2>3, <3>2, <3>3, BlocksFinite
    <3> QED BY <1>1, <3>1, <3>4, Sums, AddrFacts
  <2>12. IsChain(r, n + 1)'
    BY <1>1, <1>2, <2>3, <2>6, <2>7, <2>8, <2>9, <2>10, <2>11 DEF IsChain, At
  <2> QED BY <2>12
<1>4. Hung'
  BY <1>1 DEF Hung, OneThread
<1>5. Tiled' /\ UsedSet' = UsedSet
  BY <1>1 DEF LossInv, Tiled, UsedSet, OneThread
<1> QED BY <1>1, <1>2, <1>3, <1>4, <1>5 DEF LossInv

(***************************************************************************)
(* kmalloc() counts the block it marks, and kfree() takes it back.         *)
(***************************************************************************)
LEMMA MarkLoses ==
  ASSUME TypeOK, HeapInv, ~panicked, OneThread, LossInv, NEW t \in Thread,
         Mark(t) \/ \E h \in held[t] : Kfree(t, h[1], h[2])
  PROVE  LossInv'
<1> USE DEF Goto, heads, fields, counts
<1>1. /\ pc[t] \in {"mark", "idle"} /\ pc'[t] = "idle"
      /\ UNCHANGED <<brk, bytes, blocks, size, ptr, first, next, total_blocks, panicked>>
  BY DEF Mark, Kfree, TypeOK
<1>2. Pending = {} /\ Pending' = {} /\ Busy' = {}
  BY <1>1, OneCall, OneCallNext
<1>3. \E n : \E q : IsChain(q, n)'
  <2>1. PICK n, q : IsChain(q, n)
    BY DEF LossInv
  <2> QED BY <1>1, <1>2, <2>1, SameChain
<1>4. Hung' /\ Tiled'
  BY <1>1 DEF LossInv, Hung, Tiled, OneThread
<1>5. /\ IsFiniteSet(UsedSet) /\ IsFiniteSet(UsedSet \ Busy)
      /\ used_blocks = Cardinality(UsedSet \ Busy) /\ used_blocks \in Addr
  <2>1. IsFiniteSet(blocks) /\ UsedSet \in SUBSET blocks /\ UsedSet \ Busy \in SUBSET blocks
    BY BlocksFinite DEF UsedSet
  <2> QED BY <2>1, FS_Subset DEF LossInv, TypeOK
<1>6. used_blocks' = Cardinality(UsedSet')
  <2>1. CASE Mark(t)
    <3>1. /\ Busy = {ptr[t]} /\ ptr[t] \in blocks /\ ptr[t] \in Addr
          /\ state' = [state EXCEPT ![ptr[t]] = @ \cup {USED}]
          /\ used_blocks' = Plus(used_blocks, 1)
      BY <2>1, OneCall DEF Mark, TypeOK
    <3>2. UsedSet' = (UsedSet \ Busy) \cup {ptr[t]}
      BY <1>1, <3>1 DEF UsedSet, TypeOK
    <3>3. Cardinality(UsedSet') = Cardinality(UsedSet \ Busy) + 1
      BY <1>5, <3>1, <3>2, FS_AddElement
    <3>4. Cardinality(UsedSet') < Word
      <4>1. UsedSet' \in SUBSET blocks
        BY <3>1, <3>2 DEF UsedSet
      <4>2. IsFiniteSet(UsedSet') /\ Cardinality(UsedSet') <= Cardinality(blocks)
        BY <4>1, BlocksFinite, FS_Subset
      <4>3. Cardinality(UsedSet') \in Nat
        BY <4>2, FS_CardinalityType
      <4> QED BY <4>2, <4>3, BlocksFinite, AddrFacts
    <3> QED BY <1>5, <3>1, <3>3, <3>4, Sums, AddrFacts
  <2>2. CASE \E h \in held[t] : Kfree(t, h[1], h[2])
    <3>1. PICK h \in held[t] : Kfree(t, h[1], h[2])
      BY <2>2
    <3>2. /\ Busy = {} /\ h[1] \in UsedSet
          /\ state' = [state EXCEPT ![h[1]] = {}]
          /\ used_blocks' = Minus(used_blocks, 1)
      BY <3>1, OneCall DEF Kfree, TypeOK, HeapInv, HeldInBlock, UsedSet
    <3>3. UsedSet' = UsedSet \ {h[1]}
      BY <1>1, <3>2 DEF UsedSet, TypeOK
    <3>4. UsedSet \ Busy = UsedSet
      BY <3>2
    <3>5. Cardinality(UsedSet') = Cardinality(UsedSet) - 1 /\ Cardinality(UsedSet) # 0
      BY <1>5, <3>2, <3>3, FS_RemoveElement, FS_EmptySet
    <3>6. 1 <= used_blocks /\ 1 \in Addr
      <4>1. used_blocks \in Nat
        BY <1>5, AddrFacts
      <4>2. used_blocks # 0
        BY <1>5, <3>4, <3>5, Zenon
      <4>3. 1 \in Addr
        BY AddrFacts
      <4> QED BY <4>1, <4>2, <4>3
    <3> QED BY <1>5, <3>2, <3>4, <3>5, <3>6, Sums
  <2> QED BY <2>1, <2>2
<1>7. UsedSet' \ Busy' = UsedSet'
  BY <1>2
<1> QED BY <1>1, <1>3, <1>4, <1>6, <1>7 DEF LossInv

(***************************************************************************)
(* The heap is empty at first.                                             *)
(***************************************************************************)
LEMMA InitLoses == Init => LossInv
<1> SUFFICES ASSUME Init PROVE LossInv
  OBVIOUS
<1>1. blocks = {} /\ first = Chain /\ total_blocks = 0 /\ used_blocks = 0
      /\ \A t \in Thread : pc[t] = "idle"
  BY DEF Init
<1>2. Tiled /\ Hung /\ Pending = {}
  BY <1>1 DEF Tiled, Hung, Pending
<1>3. IsChain([i \in 1 .. 0 |-> 0], 0)
  BY <1>1, <1>2 DEF IsChain, At
<1>4. UsedSet \ Busy = {}
  BY <1>1 DEF UsedSet
<1> QED BY <1>1, <1>2, <1>3, <1>4, FS_EmptySet DEF LossInv

(***************************************************************************)
(* Every step of one caller keeps the chain, the tiling and the counters.  *)
(***************************************************************************)
LEMMA StepLoses ==
  ASSUME OneThread, NoWrap, TypeOK, HeapInv, LossInv, [Next]_vars
  PROVE  LossInv'
<1>1. CASE panicked
  <2>1. panicked'
    BY <1>1 DEF Next, vars, Call, KmallocGrow, KmallocFit, Kfree, KmallocStep, CheckBrk,
                BrkPanic, SetBrk, NewBlock, Split, NoSplit, LinkBlock, PushBlock, Mark
  <2> QED BY <2>1 DEF LossInv
<1>2. ASSUME ~panicked, NEW t \in Thread, Call(t) PROVE LossInv'
  BY <1>2, LooksLose, MarkLoses DEF Call
<1>3. ASSUME ~panicked, NEW t \in Thread, KmallocStep(t) PROVE LossInv'
  <2>1. CASE BrkPanic(t)
    BY <2>1 DEF BrkPanic, LossInv
  <2> QED
    BY <1>3, <2>1, LooksLose, NewBlockLoses, SplitLoses, LinkLoses, PushLoses, MarkLoses
    DEF KmallocStep
<1>4. CASE UNCHANGED vars
  <2>1. Pending' = Pending /\ Busy' = Busy /\ UsedSet' = UsedSet
    BY <1>4 DEF vars, heads, fields, counts, Pending, Busy, UsedSet
  <2>2. UNCHANGED <<blocks, first, next, total_blocks, used_blocks, panicked, brk, size, pc,
                    bytes, node>>
    BY <1>4 DEF vars, heads, fields, counts
  <2>3. ASSUME ~panicked PROVE LossInv'
    <3>1. PICK n, q : IsChain(q, n)
      BY <2>3 DEF LossInv
    <3>2. IsChain(q, n)'
      BY <2>1, <2>2, <3>1, SameChain
    <3>3. Tiled' /\ Hung'
      BY <2>2, <2>3 DEF LossInv, Tiled, Hung
    <3> QED BY <2>1, <2>2, <2>3, <3>2, <3>3 DEF LossInv
  <2> QED BY <2>2, <2>3 DEF LossInv
<1> QED BY <1>1, <1>2, <1>3, <1>4 DEF Next

(***************************************************************************)
(* With one caller no byte of the heap is lost: between calls every block  *)
(* is followed by another or by the break, and the chain reaches them all. *)
(***************************************************************************)
THEOREM HeapLosesNothing ==
  ASSUME OneThread, NoWrap
  PROVE  Spec => []NothingLost
<1>1. TypeOK /\ HeapInv /\ LossInv /\ [Next]_vars => LossInv'
  BY StepLoses
<1>2. TypeOK /\ HeapInv /\ LossInv => NothingLost
  BY LossInvShows
<1> QED BY InitLoses, <1>1, <1>2, HeapTypeCorrect, HeapInvHolds, PTL DEF Spec

(***************************************************************************)
(* And the counters that dump_heap_stats() prints are those of the chain.  *)
(***************************************************************************)
THEOREM HeapCountsAgree ==
  ASSUME OneThread, NoWrap
  PROVE  Spec => []CountersAgree
<1>1. TypeOK /\ HeapInv /\ LossInv /\ [Next]_vars => LossInv'
  BY StepLoses
<1>2. TypeOK /\ HeapInv /\ LossInv => CountersAgree
  BY LossInvShows
<1> QED BY InitLoses, <1>1, <1>2, HeapTypeCorrect, HeapInvHolds, PTL DEF Spec

=============================================================================
