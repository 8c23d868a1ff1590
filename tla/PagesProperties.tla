--------------------------- MODULE PagesProperties ---------------------------
(***************************************************************************)
(* What the page allocator of LineOS07 promises.                           *)
(***************************************************************************)
EXTENDS Pages

(***************************************************************************)
(* Every variable holds a value its C declaration allows, and a call stays *)
(* within the bitmap and the number of pages it was asked for.             *)
(***************************************************************************)
TypeOK ==
  /\ used \subseteq Frame
  /\ usedpages \in [Zone -> Nat] /\ free_pages \in 0 .. Word - 1
  /\ call \in [Thread -> [at : {"idle", "scan", "mark"}, zone : Zone, pages : Nat,
                          i : 0 .. Total, pir : Nat, chosen : 0 .. Total]]
  /\ \A t \in Thread : call[t].pir <= call[t].pages
  /\ held \in [Thread -> SUBSET (Zone \X Frame \X Nat)]
  /\ pde \in [Table -> Frame \cup {None}] /\ pte \in [VPage -> Frame \cup {None}]
  /\ halted \in BOOLEAN

(***************************************************************************)
(* A page frame has one user: the kernel, one caller of alloc_pages(), one *)
(* page table or one virtual page.  The allocator looks for free pages and *)
(* marks them (page.c:282-305) with interrupts enabled, while page_fault() *)
(* may take pages in between; that the threads ask for DMA pages and       *)
(* page_fault() takes NORMAL ones, and where each zone ends, keeps them    *)
(* apart.  Page 0 is what page_fault() maps when there is no page left.    *)
(***************************************************************************)
Given(h) == Pages(h[2], h[3])
AllGiven == UNION {Given(h) : h \in UNION {held[t] : t \in Thread}}
Mapped   == {pte[v] : v \in VPage} \ {None, 0}
Tables   == {pde[d] : d \in Table \ {KernelTable}} \ {None}

GivenOnce ==
  \A t, u \in Thread : \A g \in held[t], h \in held[u] :
    (t = u /\ g = h) \/ Given(g) \cap Given(h) = {}

MappedOnce ==
  /\ \A v, w \in VPage : pte[v] = pte[w] /\ pte[v] \in Mapped => v = w
  /\ \A d, e \in Table : pde[d] = pde[e] /\ pde[d] \in Tables => d = e

FramesOnce ==
  /\ GivenOnce /\ MappedOnce
  /\ AllGiven \cap (Reserved \cup Mapped \cup Tables) = {}
  /\ Mapped \cap (Tables \cup Reserved) = {}
  /\ Tables \cap Reserved = {}

(***************************************************************************)
(* What makes TypeOK and FramesOnce inductive: how far each call has come, *)
(* and that the pages a call has chosen are no one's yet.                  *)
(***************************************************************************)
ScanInv(c) ==
  /\ c.pages > 0 /\ Offered(c.zone) /\ First(c.zone) <= c.i /\ c.i <= Limit(c.zone)
  /\ c.pir > 0 => First(c.zone) <= c.chosen /\ c.chosen + c.pir = c.i

MarkInv(c) ==
  /\ c.pages > 0 /\ Offered(c.zone) /\ First(c.zone) <= c.chosen
  /\ c.chosen <= c.i /\ c.i <= c.chosen + c.pages
  /\ c.chosen + c.pages <= Limit(c.zone)

CallInv ==
  \A t \in Thread : /\ call[t].at = "scan" => ScanInv(call[t])
                    /\ call[t].at = "mark" => MarkInv(call[t])

Taken == AllGiven \cup Reserved \cup Mapped \cup Tables

ChosenInv ==
  \A t \in Thread :
    /\ call[t].at # "idle" => call[t].zone # "NORMAL"
    /\ call[t].at = "scan" /\ call[t].pir > 0 =>
         Pages(call[t].chosen, call[t].pir) \cap used = {}
    /\ call[t].at = "mark" =>
         /\ Pages(call[t].chosen, call[t].pages) \cap Taken = {}
         /\ (call[t].i .. call[t].chosen + call[t].pages - 1) \cap used = {}
         /\ (call[t].chosen .. call[t].i - 1) \subseteq used

FramesInv ==
  /\ FramesOnce /\ CallInv /\ ChosenInv
  /\ Taken \subseteq used /\ pde[KernelTable] \in Reserved

(***************************************************************************)
(* Between calls, free_pages and the zones' usedpages that dump_stats()    *)
(* prints agree with the bitmap.                                           *)
(***************************************************************************)
CountersMatch ==
  (\A t \in Thread : call[t].at # "mark") =>
    /\ free_pages = Total - Cardinality(used)
    /\ \A z \in Zone : usedpages[z] = Cardinality({p \in used : InZone(p, z)})

(***************************************************************************)
(* A call that has gone through a zone has found its first run of free     *)
(* pages, and one that returns NULL has missed none, although page_fault() *)
(* has marked pages meanwhile (page.c:282-299).                            *)
(***************************************************************************)
AllocFindsRun ==
  [][ \A t \in Thread :
        call[t].at = "scan" =>
          /\ call'[t].at = "mark" =>
               Lowest(call[t].chosen, used, call[t].zone, call[t].pages)
          /\ call'[t].at = "idle" =>
               Runs(used, call[t].zone, call[t].pages) = {} ]_vars

(***************************************************************************)
(* What testing/test_alloc_pages.c:20 prints "counters match!" for: when   *)
(* not one page is left in a zone, as many are counted as lie between its  *)
(* base_page and its end_page, whatever was asked for before.              *)
(***************************************************************************)
EmptyZoneCounts ==
  [][ \A t \in Thread :
        call[t].at = "scan" /\ call[t].pages = 1 /\ call'[t].at = "idle" =>
          usedpages[call[t].zone] = Last(call[t].zone) - First(call[t].zone) ]_vars
==============================================================================
