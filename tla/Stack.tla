------------------------------- MODULE Stack -------------------------------
(**************************************************************************)
(* The stack of pointers, in a block that is doubled when it is full      *)
(* (src/ylisp/stack.h), with the removal from its middle that the base    *)
(* blocks need (src/ylisp/mempool.c).                                     *)
(**************************************************************************)
EXTENDS Naturals, Sequences, FiniteSetsExt

CONSTANTS
  Item,               \* what is pushed
  InitLimit,          \* limits that stacks are created with
  MaxLimit            \* bound: nothing grows further

StackAssumption == InitLimit \subseteq Nat \ {0} /\ MaxLimit \in Nat

VARIABLES
  stk,                \* limit, sz and item, with what lies above sz in it
  pushed              \* what is on the stack, in order

stkvars == <<stk, pushed>>

\* ylstk_create.
StackInit ==
  /\ \E n \in InitLimit : stk = [limit |-> n, sz |-> 0, item |-> [i \in 1..n |-> {}]]
  /\ pushed = <<>>

----------------------------------------------------------------------------
\* Wrong versions of the definitions below: the stack grows one push late; the
\* moved part of the stack is one too short.
FullLate(s) == s.sz > s.limit
MoveShort(s, i) == s.sz - i - 1

\* ylstk_push: a full stack gets a block of twice the size first.
Full(s) == s.sz >= s.limit
Push(e) ==
  LET grown == IF Full(stk)
               THEN [stk EXCEPT !.limit = @ * 2,
                                !.item = [i \in 1..stk.limit * 2 |->
                                            IF i <= stk.sz THEN stk.item[i] ELSE {}]]
               ELSE stk
  IN  /\ grown.limit <= MaxLimit
      /\ stk' = [grown EXCEPT !.item = [i \in DOMAIN @ \cup {stk.sz + 1} |->
                                          IF i = stk.sz + 1 THEN e ELSE @[i]], !.sz = @ + 1]
      /\ pushed' = Append(pushed, e)

\* ylstk_pop, which asserts that there is something.
Pop ==
  /\ stk.sz > 0
  /\ stk' = [stk EXCEPT !.sz = @ - 1]
  /\ pushed' = SubSeq(pushed, 1, Len(pushed) - 1)

\* ylmp_rm_bb: the topmost occurrence of e goes, what is above it moves down.
Moved(s, i) == s.sz - i
rm_bb(e) ==
  LET I == {i \in 1..stk.sz : stk.item[i] = e}
  IN  /\ I # {}
      /\ stk' = [stk EXCEPT
                   !.sz = @ - 1,
                   !.item = [j \in DOMAIN @ |-> IF j \in Max(I)..Max(I) + Moved(stk, Max(I)) - 1
                                                THEN @[j + 1] ELSE @[j]]]
      /\ LET top == Max({i \in 1..Len(pushed) : pushed[i] = e})
         IN  pushed' = SubSeq(pushed, 1, top - 1) \o SubSeq(pushed, top + 1, Len(pushed))

\* ylstk_clean.
Clean == stk' = [stk EXCEPT !.sz = 0] /\ pushed' = <<>>

StackNext == \/ \E e \in Item : Push(e) \/ rm_bb(e)
             \/ Pop \/ Clean

StackSpec == StackInit /\ [][StackNext]_stkvars

----------------------------------------------------------------------------
\* The stack keeps its order across growing and removals from its middle, and
\* stays inside its block (stack.h:93-125, mempool.c:106-125).
StackKeeps ==
  /\ stk.sz <= stk.limit /\ DOMAIN stk.item = 1..stk.limit
  /\ SubSeq(stk.item, 1, stk.sz) = pushed

\* The inductive invariant of the proofs in MemoryProofs: the block holds what has been
\* pushed, item by item.
StackInv ==
  /\ stk = [limit |-> stk.limit, sz |-> stk.sz, item |-> stk.item]
  /\ stk.limit \in Nat \ {0} /\ stk.sz \in 0..stk.limit
  /\ stk.item \in [1..stk.limit -> Item \cup {{}}]
  /\ pushed \in Seq(Item) /\ Len(pushed) = stk.sz
  /\ \A i \in 1..stk.sz : stk.item[i] = pushed[i]
============================================================================
