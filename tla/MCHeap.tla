-------------------------------- MODULE MCHeap --------------------------------
(***************************************************************************)
(* TLC instances of the heap.                                              *)
(***************************************************************************)
EXTENDS HeapProperties
===============================================================================
