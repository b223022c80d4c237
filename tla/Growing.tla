------------------------------ MODULE Growing ------------------------------
(**************************************************************************)
(* The two structures of the core that live in a block which is doubled   *)
(* when it is full, the stack and the dynamic buffer, next to each other. *)
(**************************************************************************)
EXTENDS Stack, Buffers

GrowingAssumption == StackAssumption /\ BufferAssumption

\* A stack keeps its order and a buffer the texts printed into it while they grow,
\* and both stay inside of their blocks (stack.h:93-125, yldynb.h:94-136, ut.c:111-141).
ContentsKept == StackKeeps /\ InsideBlock /\ HoldsText
============================================================================
