----------------------------- MODULE GcSwitch -----------------------------
(***************************************************************************)
(* Reading a global symbol from the host program: ylreadv_ptr, _str, _bin  *)
(* and _dbl (src/ylisp/lisp.c) switch the collector off with               *)
(* ylmp_gc_enable (src/ylisp/mempool.c), look the symbol up, copy the      *)
(* value out and put back the switch they found.  Meanwhile evaluation     *)
(* threads may bind the symbol to another block, and collect.              *)
(***************************************************************************)
EXTENDS Naturals, FiniteSets

CONSTANTS
  Reader,             \* host threads inside ylreadv_xxx
  Block,              \* memory blocks that can be the symbol's value
  None

ASSUME BlockAssumption == None \notin Block /\ Block # {}

VARIABLES
  enabled,            \* _gc_enabled
  value,              \* the block the symbol is bound to, or None
  used,               \* blocks that are not free
  pc,                 \* of each reader
  sv,                 \* the switch a reader has found
  held                \* the block a reader has looked up

vars == <<enabled, value, used, pc, sv, held>>

Init ==
  /\ enabled = TRUE
  /\ value = None /\ used = {}
  /\ pc = [r \in Reader |-> "out"]
  /\ sv = [r \in Reader |-> FALSE]
  /\ held = [r \in Reader |-> None]

---------------------------------------------------------------------------
\* Wrong versions of the actions below.  They are no part of the model:
\* PROJECT.json names, for each, the property that tells it from the code.
SwitchNotSet(r) ==        \* the switch is read and left on
  /\ pc[r] = "out"
  /\ sv' = [sv EXCEPT ![r] = enabled]
  /\ pc' = [pc EXCEPT ![r] = "off"]
  /\ UNCHANGED <<enabled, value, used, held>>

SwitchLost(r) ==          \* an early return skips the epilogue
  /\ pc[r] = "copied"
  /\ held' = [held EXCEPT ![r] = None]
  /\ pc' = [pc EXCEPT ![r] = "out"]
  /\ UNCHANGED <<enabled, value, used, sv>>

---------------------------------------------------------------------------
\* ylmp_gc_enable(0), under _mm.
SwitchOff(r) ==
  /\ pc[r] = "out"
  /\ sv' = [sv EXCEPT ![r] = enabled]
  /\ enabled' = FALSE
  /\ pc' = [pc EXCEPT ![r] = "off"]
  /\ UNCHANGED <<value, used, held>>

\* ylgsym_get.
Lookup(r) ==
  /\ pc[r] = "off"
  /\ held' = [held EXCEPT ![r] = value]
  /\ pc' = [pc EXCEPT ![r] = "found"]
  /\ UNCHANGED <<enabled, value, used, sv>>

\* The value is copied, if there is one.
Copy(r) ==
  /\ pc[r] = "found"
  /\ pc' = [pc EXCEPT ![r] = "copied"]
  /\ UNCHANGED <<enabled, value, used, sv, held>>

\* ylmp_gc_enable(sv).
Restore(r) ==
  /\ pc[r] = "copied"
  /\ enabled' = sv[r]
  /\ held' = [held EXCEPT ![r] = None]
  /\ pc' = [pc EXCEPT ![r] = "out"]
  /\ UNCHANGED <<value, used, sv>>

\* An evaluation thread binds the symbol to a new block (set), or unbinds it
\* (unset).
Bind ==
  \/ \E b \in Block \ used : value' = b /\ used' = used \cup {b}
  \/ value' = None /\ UNCHANGED used
Evaluate == Bind /\ UNCHANGED <<enabled, pc, sv, held>>

\* All evaluation threads are safe and memory is short: blocks that no symbol
\* reaches are freed.
Collect ==
  /\ enabled
  /\ used' = used \cap {value}
  /\ UNCHANGED <<enabled, value, pc, sv, held>>

Next ==
  \/ \E r \in Reader : SwitchOff(r) \/ Lookup(r) \/ Copy(r) \/ Restore(r)
  \/ Evaluate \/ Collect

Spec == Init /\ [][Next]_vars

---------------------------------------------------------------------------
\* Switch, value and readers are what they are declared to be.
TypeOK ==
  /\ enabled \in BOOLEAN
  /\ value \in Block \cup {None} /\ used \subseteq Block
  /\ pc \in [Reader -> {"out", "off", "found", "copied"}]
  /\ sv \in [Reader -> BOOLEAN]
  /\ held \in [Reader -> Block \cup {None}]

\* The block a reader copies from has not been collected meanwhile
\* (lisp.c:615-619, "GC should be disabled temporarily. If not, returned yle_t*
\* value may be GCed before used.").
HeldIsUsed == \A r \in Reader : held[r] \in used \cup {None}

\* "Temporarily" (lisp.c:616): when no reader is inside, the collector is on.
SwitchIsPutBack == (\A r \in Reader : pc[r] = "out") => enabled

\* The inductive invariant of the proofs in GcSwitchProofs, for one reader:
\* the collector is off exactly while the reader is inside, the reader will
\* switch it on again, holds nothing outside, and the symbol's block is used.
IInv ==
  /\ TypeOK
  /\ value \in used \cup {None}
  /\ HeldIsUsed
  /\ \A r \in Reader : /\ pc[r] = "out" <=> enabled
                       /\ pc[r] # "out" => sv[r] = TRUE
                       /\ pc[r] = "out" => held[r] = None

===========================================================================
