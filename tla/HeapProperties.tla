---------------------------- MODULE HeapProperties ----------------------------
(***************************************************************************)
(* What the heap of LineOS07 promises its callers.                         *)
(***************************************************************************)
EXTENDS Heap

(***************************************************************************)
(* Every variable holds a value its C declaration allows, and the locals   *)
(* that the rest of a call of kmalloc() uses point at headers.             *)
(***************************************************************************)
TypeOK ==
  /\ brk \in Addr
  /\ first \in blocks \cup {Chain} /\ next \in [Addr -> blocks \cup {Chain}]
  /\ blocks \subseteq Addr
  /\ size \in [Addr -> Addr] /\ state \in [Addr -> SUBSET Bits]
  /\ total_blocks \in Addr /\ used_blocks \in Addr /\ panicked \in BOOLEAN
  /\ pc \in [Thread -> HeapPc]
  /\ bytes \in [Thread -> Addr] /\ end \in [Thread -> Addr]
  /\ ptr \in [Thread -> Addr] /\ node \in [Thread -> Addr]
  /\ held \in [Thread -> SUBSET (Addr \X Addr)]
  /\ \A t \in Thread : pc[t] \in {"split", "link", "push", "mark"} => ptr[t] \in blocks
  /\ \A t \in Thread : pc[t] \in {"link", "push"} => node[t] \in blocks
  /\ \A t \in Thread : \A h \in held[t] : h[1] \in blocks

Apart(a, n, b, m) == a + Hdr + n <= b \/ b + Hdr + m <= a

(***************************************************************************)
(* The bytes kmalloc() has given out and kfree() has not taken back never  *)
(* overlap, headers included, whoever holds them.                          *)
(***************************************************************************)
LiveApart ==
  \A t, u \in Thread : \A g \in held[t], h \in held[u] :
    (t = u /\ g = h) \/ Apart(g[1], g[2], h[1], h[2])

(***************************************************************************)
(* While no panic() has returned, headers and their bytes lie next to each *)
(* other from base to the break: splitting and growing (heap.c:84-126)     *)
(* lose no byte and give none out twice, in the middle of a call too.      *)
(***************************************************************************)
BlocksApart ==
  \A a, b \in blocks : a = b \/ Apart(a, size[a], b, size[b])

BlocksInside ==
  \A b \in blocks : Base <= b /\ b + Hdr + size[b] <= brk

HeldInBlock ==
  \A t \in Thread : \A h \in held[t] : h[2] <= size[h[1]] /\ USED \in state[h[1]]

HeapSound == ~panicked => BlocksApart /\ BlocksInside /\ HeldInBlock /\ LiveApart

(***************************************************************************)
(* What makes HeapSound inductive for one thread: how far the call it is   *)
(* in has come.                                                            *)
(***************************************************************************)
Owned ==
  \A t, u \in Thread : \A g \in held[t], h \in held[u] :
    g[1] = h[1] => t = u /\ g = h

\* The bytes asked for, and where the break will be.
Asked(t) ==
  /\ pc[t] # "idle" => bytes[t] \in Sizes
  /\ pc[t] = "brk_set" => end[t] = brk + Hdr + bytes[t] /\ end[t] < BrkMax

\* Below the raised break there is room for the new block.
Room(t) ==
  pc[t] = "header" =>
    /\ Base + Hdr + bytes[t] <= brk
    /\ \A b \in blocks : b + Hdr + size[b] + Hdr + bytes[t] <= brk

\* The block the call has chosen is large enough and nobody's.
Chosen(t) ==
  /\ pc[t] = "split" => USED \notin state[ptr[t]]
  /\ pc[t] \in {"split", "link", "push", "mark"} =>
       /\ bytes[t] <= size[ptr[t]]
       /\ \A u \in Thread : \A h \in held[u] : h[1] # ptr[t]

HeapInv ==
  ~panicked =>
    /\ Base <= brk /\ brk <= BrkMax
    /\ BlocksApart /\ BlocksInside /\ HeldInBlock /\ Owned
    /\ \A t \in Thread : Asked(t) /\ Room(t) /\ Chosen(t)

Idle == \A t \in Thread : pc[t] = "idle"

(***************************************************************************)
(* Between calls no byte of the heap is lost: every header but the last is *)
(* followed by another, and the walk of the chain reaches them all, so a   *)
(* block that kfree() released can be found again (heap.c:71).             *)
(***************************************************************************)
NothingLost ==
  Idle /\ ~panicked =>
    /\ \A b \in blocks : b + Hdr + size[b] \in blocks \cup {brk}
    /\ \E i \in Steps : Walk[i] = Chain
    /\ blocks = {Walk[i] : i \in Steps} \ {Chain}

(***************************************************************************)
(* The counters that dump_heap_stats() prints are those of the chain.      *)
(***************************************************************************)
CountersAgree ==
  Idle /\ ~panicked =>
    /\ total_blocks = Cardinality(blocks)
    /\ used_blocks = Cardinality({b \in blocks : USED \in state[b]})

(***************************************************************************)
(* The heap implements the allocator that knows no blocks, headers, chains *)
(* or splits: kmalloc() gives an extent out with the statement that marks  *)
(* its block (heap.c:129), kfree() releases it, and a panic() that returns *)
(* is a failure.                                                           *)
(***************************************************************************)
Alloc == INSTANCE Allocator
           WITH Owner <- Thread, Gap <- Hdr, given <- held, failed <- panicked

ImplementsAllocator == Alloc!Spec

(***************************************************************************)
(* heap.c:31 and heap.c:35 say LOCK and UNLOCK around the break: two       *)
(* growing calls leave it above both their blocks.                         *)
(***************************************************************************)
BreakIsLocked == ~panicked => BlocksInside
===============================================================================
