------------------------------- MODULE Allocator -------------------------------
(***************************************************************************)
(* What an allocator of memory promises, whatever its data structures: an  *)
(* extent <<address, length>> that it gives to an owner is apart from      *)
(* every extent that is given out, until its owner releases it.  Gap bytes *)
(* in front of each extent are the allocator's own.  Nothing is promised   *)
(* any more once the allocator has failed.                                 *)
(***************************************************************************)
EXTENDS Naturals

CONSTANTS Owner, Gap

VARIABLES given, failed

vars == <<given, failed>>

Separate(e, g) == e[1] + Gap + e[2] <= g[1] \/ g[1] + Gap + g[2] <= e[1]

Init == given = [o \in Owner |-> {}] /\ failed = FALSE

Give(o) ==
  \E e \in given'[o] :
    /\ \A p \in Owner : \A g \in given[p] : Separate(e, g)
    /\ given' = [given EXCEPT ![o] = @ \cup {e}]

Release(o) ==
  \E e \in given[o] : given' = [given EXCEPT ![o] = @ \ {e}]

Fail == failed' = TRUE /\ given' = given

Next ==
  \/ ~failed /\ failed' = failed /\ \E o \in Owner : Give(o) \/ Release(o)
  \/ ~failed /\ Fail
  \/ failed /\ failed'

Spec == Init /\ [][Next]_vars
================================================================================
