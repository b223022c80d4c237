----------------------------- MODULE BlockPool -----------------------------
(***************************************************************************)
(* What the lisp memory pool promises its users, without saying how the    *)
(* blocks are kept: a block is free or used; an allocation turns some free *)
(* block into a used one; a collection picks the blocks that are still     *)
(* reachable and takes every other used block back, one at a time, and no  *)
(* allocation happens in between.  BlockTable (blktbl.h and the sweep of   *)
(* mempool.c) is shown to implement this specification.                    *)
(***************************************************************************)

CONSTANT Block        \* the blocks of the pool

VARIABLES
  used,               \* the blocks that are handed out
  live,               \* the blocks the running collection keeps
  collecting          \* is a collection running?

vars == <<used, live, collecting>>

Init ==
  /\ used = {}
  /\ live = {}
  /\ collecting = FALSE

Allocate ==
  /\ ~collecting
  /\ \E b \in Block \ used : used' = used \cup {b}
  /\ UNCHANGED <<live, collecting>>

StartCollection ==
  /\ ~collecting
  /\ \E L \in SUBSET used : live' = L
  /\ collecting' = TRUE
  /\ UNCHANGED used

TakeBack ==
  /\ collecting
  /\ \E b \in used \ live : used' = used \ {b}
  /\ UNCHANGED <<live, collecting>>

\* A collection may end only when nothing but the live blocks is left.
EndCollection ==
  /\ collecting
  /\ used = live
  /\ collecting' = FALSE
  /\ live' = {}
  /\ UNCHANGED used

Next == Allocate \/ StartCollection \/ TakeBack \/ EndCollection

Spec == Init /\ [][Next]_vars

=============================================================================
