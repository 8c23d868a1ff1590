------------------------------- MODULE MCPages -------------------------------
(***************************************************************************)
(* TLC instance of the page allocator.  In the DMA zone (pages 0 to 7) the *)
(* pages 1, 4, 5 and 6 are free at first, and page 7 is never looked at;   *)
(* in the NORMAL zone the pages 8 and 9 are.                               *)
(***************************************************************************)
EXTENDS PagesProperties

DmaAsks == {<<"DMA", 1>>, <<"DMA", 2>>, <<"DMA", 3>>, <<"HIGHMEM", 1>>}
==============================================================================
