--------------------------------- MODULE Heap ---------------------------------
(***************************************************************************)
(* The kernel heap of LineOS07, mm/heap.c: kmalloc(), kfree(), kbrk() and  *)
(* ksbrk(), called by threads that the timer may preempt between any two   *)
(* statements.  With one thread it is the heap as the boot thread uses it. *)
(*                                                                         *)
(* An address is a number; a block is a header of Hdr bytes at its address *)
(* and size bytes behind it.  What programs write into their bytes is not  *)
(* modelled.                                                               *)
(***************************************************************************)
EXTENDS Naturals, FiniteSets

CONSTANTS
  Thread,     \* the threads that call the heap
  Base,       \* k_heap.base, the end of the kernel
  BrkMax,     \* k_sysmem.brk_max
  Hdr,        \* sizeof(malloc_head_t)
  MinSplit,   \* the bytes that make a split worth while (8 in the code)
  Word,       \* the modulus of a u32
  Sizes,      \* the sizes asked for
  Chain       \* the list head k_malloc_chain.chain, where the chain ends

Addr == 0 .. Word - 1

ASSUME HeapAssumption ==
  /\ Base \in Nat /\ BrkMax \in Nat /\ Word \in Nat /\ Hdr \in Addr \ {0}
  /\ MinSplit \in Nat
  /\ Base <= BrkMax /\ BrkMax < Word
  /\ Sizes \subseteq Addr \ {0}
  /\ Chain \notin Addr

\* Sums and differences of u32 values wrap.
Plus(a, b)  == IF a + b < Word THEN a + b ELSE a + b - Word
Minus(a, b) == IF b <= a THEN a - b ELSE a + Word - b

VARIABLES
  brk,                  \* k_heap.brk
  first, next,          \* the chain: the head's next, and each header's
  blocks,               \* addresses with a header (magic 0xBEEF)
  size, state,          \* the header fields; state is a set of bits
  total_blocks, used_blocks,
  panicked,             \* a panic() has printed its message and returned
  pc,                   \* per thread: the next statement of kmalloc()
  bytes, ptr, end, node,  \* per thread: the argument and the locals
  held                  \* per thread: the <<block, bytes>> it was given

heads  == <<first, next>>
fields == <<blocks, size, state>>
counts == <<total_blocks, used_blocks>>
vars   == <<brk, heads, fields, counts, panicked, pc, bytes, ptr, end, node, held>>

USED == "USED"
JUNK == "JUNK"                  \* the other bits of the u8
Bits == {USED, JUNK}

HeapPc == {"idle", "brk_check", "brk_set", "header", "split", "link", "push", "mark"}

-----------------------------------------------------------------------------
(* list_for_each over the chain: first fit, the youngest header first.     *)
Steps == 0 .. Cardinality(blocks)

Walk[i \in 0 .. Word] ==
  IF i = 0 THEN first
           ELSE IF Walk[i-1] \in blocks THEN next[Walk[i-1]] ELSE Walk[i-1]

Fits(b, n) == b \in blocks /\ n <= size[b] /\ USED \notin state[b]

\* Faulty variant: a used block fits as well as a free one.
MutFirstFit(b, n) ==
  \E i \in Steps : Walk[i] = b /\ b \in blocks /\ n <= size[b]
                   /\ \A j \in 0 .. i : j < i => ~Fits(Walk[j], n)

FirstFit(b, n) ==
  \E i \in Steps : Walk[i] = b /\ Fits(b, n)
                   /\ \A j \in 0 .. i : j < i => ~Fits(Walk[j], n)

NoFit(n) ==
  /\ \E i \in Steps : Walk[i] = Chain
  /\ \A i \in Steps : ~Fits(Walk[i], n)

-----------------------------------------------------------------------------
Goto(t, l, l2) == pc[t] = l /\ pc' = [pc EXCEPT ![t] = l2]

\* kmalloc(n) finds a block, or must raise the break.  After a panic the model
\* follows the call that panicked to its return, and no other.
KmallocFit(t, n, b) ==
  /\ ~panicked /\ FirstFit(b, n) /\ Goto(t, "idle", "split")
  /\ bytes' = [bytes EXCEPT ![t] = n]
  /\ ptr' = [ptr EXCEPT ![t] = b]
  /\ UNCHANGED <<brk, heads, fields, counts, panicked, end, node, held>>

KmallocGrow(t, n) ==
  /\ ~panicked /\ NoFit(n) /\ Goto(t, "idle", "brk_check")
  /\ bytes' = [bytes EXCEPT ![t] = n]
  /\ UNCHANGED <<brk, heads, fields, counts, panicked, ptr, end, node, held>>

\* ksbrk(headlen + bytes) and the test of kbrk()
Raised(t) == Plus(brk, Plus(Hdr, bytes[t]))

CheckBrk(t) ==
  /\ Raised(t) < BrkMax /\ Goto(t, "brk_check", "brk_set")
  /\ end' = [end EXCEPT ![t] = Raised(t)]
  /\ UNCHANGED <<brk, heads, fields, counts, panicked, bytes, ptr, node, held>>

\* The hlt of panic() ends with the next interrupt, and ksbrk() goes on.
BrkPanic(t) ==
  /\ Raised(t) >= BrkMax /\ Goto(t, "brk_check", "header")
  /\ panicked' = TRUE
  /\ UNCHANGED <<brk, heads, fields, counts, bytes, ptr, end, node, held>>

SetBrk(t) ==
  /\ Goto(t, "brk_set", "header")
  /\ brk' = end[t]
  /\ UNCHANGED <<heads, fields, counts, panicked, bytes, ptr, end, node, held>>

\* ksbrk() returns, and the header is filled in: size and magic, but the state
\* byte keeps what the memory holds, because "sb->state=0x0" goes through NULL.
NewBlock(t) ==
  /\ Goto(t, "header", "link")
  /\ LET b == Minus(brk, Plus(Hdr, bytes[t])) IN
       /\ ptr' = [ptr EXCEPT ![t] = b] /\ node' = [node EXCEPT ![t] = b]
       /\ blocks' = blocks \cup {b}
       /\ size' = [size EXCEPT ![b] = bytes[t]]
       /\ \E bits \in SUBSET Bits :
            state' = IF b \in blocks THEN state ELSE [state EXCEPT ![b] = bits]
  /\ UNCHANGED <<brk, heads, counts, panicked, bytes, end, held>>

\* A block that is much too large is split.
Leftover(t) == Minus(size[ptr[t]], bytes[t])

\* Faulty variant: the second header is left out of the account.
MutSplit(t) ==
  /\ Leftover(t) >= Hdr + MinSplit /\ Goto(t, "split", "link")
  /\ LET b == Plus(Plus(ptr[t], Hdr), bytes[t]) IN
       /\ node' = [node EXCEPT ![t] = b]
       /\ blocks' = blocks \cup {b}
       /\ size' = [size EXCEPT ![b] = Leftover(t), ![ptr[t]] = bytes[t]]
       /\ state' = [state EXCEPT ![b] = {}]
  /\ UNCHANGED <<brk, heads, counts, panicked, bytes, ptr, end, held>>

Split(t) ==
  /\ Leftover(t) >= Hdr + MinSplit /\ Goto(t, "split", "link")
  /\ LET b == Plus(Plus(ptr[t], Hdr), bytes[t]) IN
       /\ node' = [node EXCEPT ![t] = b]
       /\ blocks' = blocks \cup {b}
       /\ size' = [size EXCEPT ![b] = Leftover(t) - Hdr, ![ptr[t]] = bytes[t]]
       /\ state' = [state EXCEPT ![b] = {}]
  /\ UNCHANGED <<brk, heads, counts, panicked, bytes, ptr, end, held>>

NoSplit(t) ==
  /\ Leftover(t) < Hdr + MinSplit /\ Goto(t, "split", "mark")
  /\ UNCHANGED <<brk, heads, fields, counts, panicked, bytes, ptr, end, node, held>>

\* Faulty variants: the old chain is not hung behind the new header; the head
\* is made to point behind the header.
MutLinkBlock(t) ==
  /\ Goto(t, "link", "push")
  /\ UNCHANGED <<brk, heads, fields, counts, panicked, bytes, ptr, end, node, held>>

MutPushBlock(t) ==
  /\ Goto(t, "push", "mark")
  /\ first' = Plus(node[t], Hdr)
  /\ total_blocks' = Plus(total_blocks, 1)
  /\ UNCHANGED <<brk, next, fields, used_blocks, panicked, bytes, ptr, end, node, held>>

\* list_add(): the new header points at the first one it read, then the head
\* at the new one.
LinkBlock(t) ==
  /\ Goto(t, "link", "push")
  /\ next' = [next EXCEPT ![node[t]] = first]
  /\ UNCHANGED <<brk, first, fields, counts, panicked, bytes, ptr, end, node, held>>

PushBlock(t) ==
  /\ Goto(t, "push", "mark")
  /\ first' = node[t]
  /\ total_blocks' = Plus(total_blocks, 1)
  /\ UNCHANGED <<brk, next, fields, used_blocks, panicked, bytes, ptr, end, node, held>>

Mark(t) ==
  /\ Goto(t, "mark", "idle")
  /\ state' = [state EXCEPT ![ptr[t]] = @ \cup {USED}]
  /\ used_blocks' = Plus(used_blocks, 1)
  /\ held' = [held EXCEPT ![t] = @ \cup {<<ptr[t], bytes[t]>>}]
  /\ UNCHANGED <<brk, heads, blocks, size, total_blocks, panicked, bytes, ptr, end, node>>

\* kfree() of a block the thread was given: state &= 0.
Kfree(t, b, n) ==
  /\ ~panicked /\ Goto(t, "idle", "idle") /\ <<b, n>> \in held[t]
  /\ state' = [state EXCEPT ![b] = {}]
  /\ used_blocks' = Minus(used_blocks, 1)
  /\ held' = [held EXCEPT ![t] = @ \ {<<b, n>>}]
  /\ UNCHANGED <<brk, heads, blocks, size, total_blocks, panicked, bytes, ptr, end, node>>

-----------------------------------------------------------------------------
\* init_heap()
Init ==
  /\ brk = Base /\ first = Chain /\ blocks = {}
  /\ next = [b \in Addr |-> Chain]
  /\ size = [b \in Addr |-> 0] /\ state = [b \in Addr |-> {}]
  /\ total_blocks = 0 /\ used_blocks = 0 /\ panicked = FALSE
  /\ pc = [t \in Thread |-> "idle"]
  /\ bytes = [t \in Thread |-> 0] /\ ptr = [t \in Thread |-> 0]
  /\ end = [t \in Thread |-> 0] /\ node = [t \in Thread |-> 0]
  /\ held = [t \in Thread |-> {}]

KmallocStep(t) ==
  \/ CheckBrk(t) \/ BrkPanic(t) \/ SetBrk(t) \/ NewBlock(t) \/ Split(t)
  \/ NoSplit(t) \/ LinkBlock(t) \/ PushBlock(t) \/ Mark(t)

Call(t) ==
  \/ \E n \in Sizes : KmallocGrow(t, n) \/ \E b \in blocks : KmallocFit(t, n, b)
  \/ \E h \in held[t] : Kfree(t, h[1], h[2])

Next == \E t \in Thread : Call(t) \/ KmallocStep(t)

Spec == Init /\ [][Next]_vars
===============================================================================
