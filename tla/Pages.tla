-------------------------------- MODULE Pages --------------------------------
(***************************************************************************)
(* The page frames of LineOS07: the bitmap and zones of cpu/page.c, threads *)
(* in alloc_pages(), which the timer may preempt between any two pages     *)
(* they look at or mark, and page_fault() of cpu/handler.c with            *)
(* __map_page(), which runs with interrupts disabled and may come while    *)
(* another thread is in alloc_pages().                                     *)
(***************************************************************************)
EXTENDS Naturals, FiniteSets

CONSTANTS
  Thread,       \* the processes that call alloc_pages()
  Asks,         \* the <<zone, pages>> they call it with
  Total,        \* k_sysmem.total_pages, the limit of the bitmap
  NormalBase,   \* the first page of the NORMAL zone (0x1000)
  HighBase,     \* the first page of the HIGHMEM zone (0x37000)
  LowPages,     \* pages of the reserved first MB (256)
  KernelStart,  \* the first page of the kernel
  KernelPages,  \* pages of the kernel
  BitmapPages,  \* pages of the bitmap, which lie behind the kernel
  Table,        \* page directory entries of the addresses that may fault
  KernelTable,  \* the one of them that start.asm has filled in
  Entries,      \* entries of a page table (1024)
  Word,         \* the modulus of a u32
  None          \* an entry that is 0

Frame == 0 .. Total - 1
VPage == Table \X (0 .. Entries - 1)    \* pages above the end of the kernel

Zone == {"DMA", "NORMAL", "HIGHMEM"}

ASSUME PagesAssumption ==
  /\ Total \in Nat /\ NormalBase \in Nat \ {0} /\ HighBase \in Nat
  /\ NormalBase < HighBase
  /\ LowPages \in Nat \ {0} /\ KernelStart \in Nat
  /\ KernelPages \in Nat \ {0} /\ BitmapPages \in Nat
  /\ LowPages <= KernelStart /\ KernelStart + KernelPages + BitmapPages <= Total
  /\ KernelTable \in Table /\ Entries \in Nat \ {0}
  /\ Word \in Nat /\ Total < Word
  /\ Asks \subseteq Zone \X (Nat \ {0})
  /\ None \notin Nat

VARIABLES
  used,           \* the bits set in k_page_bitmap
  usedpages,      \* per zone
  free_pages,     \* k_sysmem.free_pages
  call,           \* per thread: the call of alloc_pages() it is in
  held,           \* per thread: the <<zone, first page, pages>> it was given
  pde,            \* per table: the frame it lies in
  pte,            \* per virtual page: the frame it is mapped to
  halted          \* panic() with interrupts disabled

bitmap  == <<used, usedpages, free_pages>>
mapping == <<pde, pte, halted>>
vars    == <<bitmap, call, held, mapping>>

-----------------------------------------------------------------------------
(* init_paging(): the zones.  base_page and end_page of a zone; alloc_pages() *)
(* stops before end_page, __get_zone() includes it.                        *)
Zones == IF Total < HighBase THEN {"DMA", "NORMAL"} ELSE Zone

First(z) == IF z = "DMA" THEN 0 ELSE IF z = "NORMAL" THEN NormalBase ELSE HighBase
Last(z)  == IF z = "DMA" THEN NormalBase - 1
            ELSE IF z = "NORMAL" /\ Total >= HighBase THEN HighBase - 1 ELSE Total

InZone(p, z) == z \in Zones /\ First(z) <= p /\ p <= Last(z)

\* Faulty variant: the last page of the zone is looked at, too.
MutLimit(z) == IF Last(z) >= Total THEN Total ELSE Last(z) + 1

\* What alloc_pages() looks at: First(z) <= i < Limit(z).
Limit(z)   == IF Last(z) > Total THEN Total ELSE Last(z)
Offered(z) == z \in Zones /\ First(z) <= Total

Pages(s, n) == s .. s + n - 1

\* The runs of n free pages of zone z when the pages of u are used.
Runs(u, z, n) == {s \in Frame : /\ Offered(z) /\ First(z) <= s /\ s + n <= Limit(z)
                                /\ Pages(s, n) \cap u = {}}
Lowest(s, u, z, n) == s \in Runs(u, z, n) /\ \A r \in Runs(u, z, n) : s <= r

Minus(a, b) == IF b <= a THEN a - b ELSE a + Word - b

-----------------------------------------------------------------------------
(* alloc_pages() of a thread.                                              *)
Idle == [at |-> "idle", zone |-> "DMA", pages |-> 0, i |-> 0, pir |-> 0, chosen |-> 0]

\* The zone's bounds, and the return if there is no such memory: then the call
\* changes nothing.
AllocPages(t, z, n) ==
  /\ call[t] = Idle /\ Offered(z)
  /\ call' = [call EXCEPT ![t] =
                [Idle EXCEPT !.at = "scan", !.zone = z, !.pages = n, !.i = First(z)]]
  /\ UNCHANGED <<bitmap, held, mapping>>

\* Faulty variant: the loop does not end with the last page asked for.
MutScanning(t) == call[t].at = "scan" /\ call[t].i < Limit(call[t].zone)

Scanning(t) ==
  /\ call[t].at = "scan" /\ call[t].pir < call[t].pages
  /\ call[t].i < Limit(call[t].zone)

ScanFree(t) ==
  /\ Scanning(t) /\ call[t].i \notin used
  /\ call' = [call EXCEPT ![t].pir = @ + 1, ![t].i = @ + 1,
                ![t].chosen = IF call[t].pir = 0 THEN call[t].i ELSE @]
  /\ UNCHANGED <<bitmap, held, mapping>>

\* Faulty variant: the run goes on behind a used page.
MutScanUsed(t) ==
  /\ Scanning(t) /\ call[t].i \in used
  /\ call' = [call EXCEPT ![t].i = @ + 1]
  /\ UNCHANGED <<bitmap, held, mapping>>

ScanUsed(t) ==
  /\ Scanning(t) /\ call[t].i \in used
  /\ call' = [call EXCEPT ![t].pir = 0, ![t].i = @ + 1]
  /\ UNCHANGED <<bitmap, held, mapping>>

OutOfMemory(t) ==
  /\ call[t].at = "scan" /\ ~Scanning(t) /\ call[t].pir # call[t].pages
  /\ call' = [call EXCEPT ![t] = Idle]
  /\ UNCHANGED <<bitmap, held, mapping>>

Found(t) ==
  /\ call[t].at = "scan" /\ call[t].pir = call[t].pages
  /\ call' = [call EXCEPT ![t].at = "mark", ![t].i = call[t].chosen]
  /\ UNCHANGED <<bitmap, held, mapping>>

\* __mark_pages_used(), one page of its loop at a time.
Marked(p) == [z \in Zone |-> IF InZone(p, z) THEN usedpages[z] + 1 ELSE usedpages[z]]

MarkPage(t) ==
  /\ call[t].at = "mark" /\ call[t].i < call[t].chosen + call[t].pages
  /\ used' = used \cup {call[t].i}
  /\ usedpages' = Marked(call[t].i)
  /\ call' = [call EXCEPT ![t].i = @ + 1]
  /\ UNCHANGED <<free_pages, held, mapping>>

\* Faulty variant: one page is accounted for, whatever was asked.
MutReturnPages(t) ==
  /\ call[t].at = "mark" /\ call[t].i = call[t].chosen + call[t].pages
  /\ free_pages' = Minus(free_pages, 1)
  /\ held' = [held EXCEPT ![t] =
                @ \cup {<<call[t].zone, call[t].chosen, call[t].pages>>}]
  /\ call' = [call EXCEPT ![t] = Idle]
  /\ UNCHANGED <<used, usedpages, mapping>>

ReturnPages(t) ==
  /\ call[t].at = "mark" /\ call[t].i = call[t].chosen + call[t].pages
  /\ free_pages' = Minus(free_pages, call[t].pages)
  /\ held' = [held EXCEPT ![t] =
                @ \cup {<<call[t].zone, call[t].chosen, call[t].pages>>}]
  /\ call' = [call EXCEPT ![t] = Idle]
  /\ UNCHANGED <<used, usedpages, mapping>>

-----------------------------------------------------------------------------
(* page_fault() at an address of page v: alloc_pages(1, ZONE_NORMAL), then *)
(* __map_page(), which may need a second page for the table.               *)
\* Faulty variant: the page comes from the DMA zone.
MutNormal(f, u) == Lowest(f, u, "DMA", 1)

Normal(f, u) == Lowest(f, u, "NORMAL", 1)
NoNormal(u)  == Runs(u, "NORMAL", 1) = {}
Faults(v)    == ~halted /\ pte[v] = None
TakeNormal(S) ==
  /\ used' = used \cup S
  /\ usedpages' = [usedpages EXCEPT !["NORMAL"] = @ + Cardinality(S)]
  /\ free_pages' = Minus(free_pages, Cardinality(S))

FaultMap(v) ==
  /\ Faults(v) /\ pde[v[1]] # None
  /\ \E f \in Frame : /\ Normal(f, used) /\ TakeNormal({f})
                      /\ pte' = [pte EXCEPT ![v] = f]
  /\ UNCHANGED <<call, held, pde, halted>>

\* The new table is cleared, and stays without entries but this one.
FaultNewTable(v) ==
  /\ Faults(v) /\ pde[v[1]] = None
  /\ \E f, g \in Frame :
       /\ Normal(f, used) /\ Normal(g, used \cup {f}) /\ TakeNormal({f, g})
       /\ pde' = [pde EXCEPT ![v[1]] = g]
       /\ pte' = [w \in VPage |-> IF w = v THEN f
                                  ELSE IF w[1] = v[1] THEN None ELSE pte[w]]
  /\ UNCHANGED <<call, held, halted>>

\* No frame, and nobody asks: the page is mapped to the address 0 returned.
FaultNoFrame(v) ==
  /\ Faults(v) /\ pde[v[1]] # None /\ NoNormal(used)
  /\ pte' = [pte EXCEPT ![v] = 0]
  /\ UNCHANGED <<bitmap, call, held, pde, halted>>

\* No frame for the table: panic(), whose hlt does not end with IF = 0.
FaultHalt(v) ==
  /\ Faults(v) /\ pde[v[1]] = None
  /\ \/ NoNormal(used) /\ UNCHANGED bitmap
     \/ \E f \in Frame : /\ Normal(f, used) /\ NoNormal(used \cup {f})
                         /\ TakeNormal({f})
  /\ halted' = TRUE
  /\ UNCHANGED <<call, held, pde, pte>>

-----------------------------------------------------------------------------
\* init_page_allocator(), and init_paging() when it has cleared the rest of
\* the kernel's page table.
Reserved == (0 .. LowPages - 1)
              \cup (KernelStart .. KernelStart + KernelPages + BitmapPages - 1)

Init ==
  /\ used = Reserved
  /\ usedpages = [z \in Zone |-> Cardinality({p \in Reserved : InZone(p, z)})]
  /\ free_pages = Total - (LowPages + KernelPages + BitmapPages)
  /\ call = [t \in Thread |-> Idle]
  /\ held = [t \in Thread |-> {}]
  /\ pde = [d \in Table |-> IF d = KernelTable THEN KernelStart ELSE None]
  /\ pte = [v \in VPage |-> None]
  /\ halted = FALSE

AllocStep(t) ==
  \/ ScanFree(t) \/ ScanUsed(t) \/ OutOfMemory(t) \/ Found(t)
  \/ MarkPage(t) \/ ReturnPages(t)

PageFault(v) == FaultMap(v) \/ FaultNewTable(v) \/ FaultNoFrame(v) \/ FaultHalt(v)

Next ==
  \/ ~halted /\ \E t \in Thread : AllocStep(t) \/ \E a \in Asks : AllocPages(t, a[1], a[2])
  \/ \E v \in VPage : PageFault(v)
  \/ halted /\ UNCHANGED vars

Spec == Init /\ [][Next]_vars
==============================================================================
