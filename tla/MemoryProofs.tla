---------------------------- MODULE MemoryProofs ---------------------------
(***************************************************************************)
(* Proofs about what is kept in memory: the table of blocks, for every     *)
(* size of the pool; the symbol tables, whose descriptions are owned once  *)
(* and belong to their values, for any number of symbols, strings, writers *)
(* and helpers and whatever they interleave; loaded libraries and files    *)
(* (Loading), linked lists (Links), and the stack and the dynamic buffer   *)
(* (Growing).                                                              *)
(***************************************************************************)
EXTENDS BlockTable, Symbols, Loading, Links, Growing, DataLemmas, FiniteSetTheorems

\* What _mbt_put does to a table whose arrays are inverse to each other,
\* when it is given the block at a used position k: blocks c (at fbi) and b
\* (at k) change places and nothing else moves.
LEMMA PutSwaps ==
  ASSUME TypeOK, IndexInverse, NEW k \in Pos, fbi <= k, Put(fbp[k])
  PROVE  /\ fbi \in Pos
         /\ fbi' = fbi + 1
         /\ fbp' = [fbp EXCEPT ![fbi] = fbp[k], ![k] = fbp[fbi]]
         /\ idx' = [idx EXCEPT ![fbp[k]] = fbi, ![fbp[fbi]] = k]
<1>1. fbi \in Pos /\ k \in 0 .. Size - 1
  BY SizeAssumption DEF TypeOK, Pos
<1>2. idx[fbp[fbi]] = fbi /\ idx[fbp[k]] = k
  BY <1>1 DEF IndexInverse
<1>3. QED
  BY <1>1, <1>2 DEF Put

\* Giving back the block of a used position keeps the arrays well typed.
LEMMA PutKeepsType ==
  ASSUME TypeOK, IndexInverse, NEW k \in Pos, fbi <= k, Put(fbp[k])
  PROVE  fbp' \in [Pos -> Pos] /\ idx' \in [Pos -> Pos] /\ fbi' \in 0 .. Size
<1>1. fbi \in Pos /\ fbi' = fbi + 1
  BY PutSwaps
<1>2. fbp[k] \in Pos /\ fbp[fbi] \in Pos
  BY <1>1 DEF TypeOK
<1>3. fbp' \in [Pos -> Pos] /\ idx' \in [Pos -> Pos]
  BY PutSwaps, <1>1, <1>2 DEF TypeOK
<1>4. fbi' \in 0 .. Size
  BY <1>1, SizeAssumption DEF Pos
<1>5. QED
  BY <1>3, <1>4

\* ... and keeps positions and indices inverse to each other.
LEMMA PutKeepsInverse ==
  ASSUME TypeOK, IndexInverse, NEW k \in Pos, fbi <= k, Put(fbp[k])
  PROVE  IndexInverse'
<1> DEFINE b == fbp[k]
           c == fbp[fbi]
<1>1. /\ fbi \in Pos /\ b \in Pos /\ c \in Pos
      /\ fbp' = [fbp EXCEPT ![fbi] = b, ![k] = c]
      /\ idx' = [idx EXCEPT ![b] = fbi, ![c] = k]
  BY PutSwaps DEF TypeOK
<1>2. idx[b] = k /\ idx[c] = fbi
  BY <1>1 DEF IndexInverse
<1> HIDE DEF b, c
<1>3. ASSUME NEW i \in Pos PROVE idx'[fbp'[i]] = i
  <2>1. CASE i = k
    BY <2>1, <1>1, <1>2 DEF TypeOK
  <2>2. CASE i = fbi /\ i # k
    BY <2>2, <1>1, <1>2 DEF TypeOK
  <2>3. CASE i # fbi /\ i # k
    <3>1. fbp'[i] = fbp[i] /\ fbp[i] \in Pos /\ idx[fbp[i]] = i
      BY <2>3, <1>1 DEF TypeOK, IndexInverse
    <3>2. fbp[i] # b /\ fbp[i] # c
      BY <3>1, <2>3, <1>2
    <3>3. QED
      BY <3>1, <3>2, <1>1 DEF TypeOK
  <2>4. QED
    BY <2>1, <2>2, <2>3
<1>4. ASSUME NEW x \in Pos PROVE fbp'[idx'[x]] = x
  <2>1. CASE x = c
    BY <2>1, <1>1, <1>2 DEF TypeOK
  <2>2. CASE x = b /\ x # c
    BY <2>2, <1>1, <1>2 DEF TypeOK
  <2>3. CASE x # b /\ x # c
    <3>1. idx'[x] = idx[x] /\ idx[x] \in Pos /\ fbp[idx[x]] = x
      BY <2>3, <1>1 DEF TypeOK, IndexInverse
    <3>2. idx[x] # k /\ idx[x] # fbi
      BY <3>1, <2>3, <1>1, <1>2 DEF b, c
    <3>3. QED
      BY <3>1, <3>2, <1>1 DEF TypeOK
  <2>4. QED
    BY <2>1, <2>2, <2>3
<1>5. QED
  BY <1>3, <1>4 DEF IndexInverse

\* A loop variable that has not reached the end is a position.
LEMMA InLoop ==
  ASSUME TypeOK, cur < Size
  PROVE  cur \in Pos
<1>1. cur \in 0 .. Size
  BY DEF TypeOK
<1>2. QED
  BY <1>1, SizeAssumption DEF Pos

\* One turn of the sweep loop over garbage keeps what the sweep relies on: the
\* block that moves to position k comes from fbi, which the loop has passed
\* (or is the reclaimed block itself), and no marked block crosses the border.
LEMMA ReclaimKeepsSweep ==
  ASSUME IInv, Reclaim
  PROVE  SweepInv'
<1> USE DEF Reclaim
<1>1. /\ cur \in Pos /\ pc = "sweep" /\ fbi <= cur
      /\ TypeOK /\ IndexInverse /\ SweptAreMarked /\ LiveKept
  <2>1. TypeOK /\ IndexInverse /\ SweepInv /\ pc = "sweep" /\ cur < Size
    BY DEF IInv
  <2>2. QED
    BY <2>1, InLoop DEF SweepInv, SweepAhead
<1>2. /\ fbi \in Pos /\ fbi' = fbi + 1
      /\ fbp' = [fbp EXCEPT ![fbi] = fbp[cur], ![cur] = fbp[fbi]]
      /\ mark' = mark /\ cur' = cur + 1
  BY <1>1, PutSwaps
<1>3. SweepAhead'
  BY <1>1, <1>2 DEF SweepAhead, Pos
<1>4. SweptAreMarked'
  <2> SUFFICES ASSUME NEW i \in Pos, fbi + 1 <= i, i < cur + 1
               PROVE  fbp'[i] \in mark
    BY <1>2 DEF SweptAreMarked
  <2>1. CASE i = cur
    <3>1. fbp'[i] = fbp[fbi]
      BY <2>1, <1>1, <1>2 DEF TypeOK, Pos
    <3>2. fbi <= fbi /\ fbi < cur
      BY <2>1, <1>1, <1>2 DEF Pos
    <3>3. QED
      BY <3>1, <3>2, <1>1, <1>2 DEF SweptAreMarked
  <2>2. CASE i # cur
    <3>1. fbp'[i] = fbp[i]
      BY <2>2, <1>1, <1>2 DEF TypeOK, Pos
    <3>2. fbi <= i /\ i < cur
      BY <2>2, <1>1, <1>2 DEF Pos
    <3>3. QED
      BY <3>1, <3>2, <1>1 DEF SweptAreMarked
  <2>3. QED
    BY <2>1, <2>2
<1>5. LiveKept'
  <2> SUFFICES ASSUME NEW b \in mark
               PROVE  \E j \in fbi + 1 .. Size - 1 : fbp'[j] = b
    BY <1>2 DEF LiveKept, Used
  <2>1. PICK i \in fbi .. Size - 1 : fbp[i] = b
    BY <1>1 DEF LiveKept, Used
  <2>2. i \in Pos /\ i # cur
    BY <2>1, <1>1, <1>2 DEF Pos
  <2>3. CASE i = fbi
    <3>1. cur \in fbi + 1 .. Size - 1
      BY <2>2, <2>3, <1>1, <1>2 DEF Pos
    <3>2. fbp'[cur] = b
      BY <2>1, <2>3, <1>1, <1>2 DEF TypeOK
    <3>3. QED
      BY <3>1, <3>2
  <2>4. CASE i # fbi
    <3>1. i \in fbi + 1 .. Size - 1
      BY <2>1, <2>4, <1>2 DEF Pos
    <3>2. fbp'[i] = b
      BY <2>1, <2>2, <2>4, <1>1, <1>2 DEF TypeOK
    <3>3. QED
      BY <3>1, <3>2
  <2>5. QED
    BY <2>3, <2>4
<1>6. QED
  BY <1>3, <1>4, <1>5 DEF SweepInv

\* The inductive invariant holds of a new table.
LEMMA InitIInv == Init => IInv
BY SizeAssumption DEF Init, IInv, TypeOK, IndexInverse, SweepInv, Pos

\* Every operation of the table keeps the inductive invariant.
LEMMA NextIInv == IInv /\ [Next]_vars => IInv'
<1> SUFFICES ASSUME IInv, [Next]_vars PROVE IInv'
  OBVIOUS
<1>0. TypeOK /\ IndexInverse /\ SweepInv
  BY DEF IInv
<1>1. CASE Get
  BY <1>0, <1>1, SizeAssumption DEF Get, IInv, TypeOK, IndexInverse, SweepInv
<1>2. CASE StartSweep
  <2>1. TypeOK'
    <3>1. Used \subseteq Pos
      BY <1>0, SizeAssumption DEF Used, TypeOK, Pos
    <3>2. QED
      BY <3>1, <1>0, <1>2 DEF StartSweep, TypeOK
  <2>2. IndexInverse'
    BY <1>0, <1>2 DEF StartSweep, IndexInverse
  <2>3. SweepInv'
    <3>1. SweepAhead'
      BY <1>0, <1>2 DEF StartSweep, SweepAhead, TypeOK
    <3>2. SweptAreMarked'
      BY <1>0, <1>2 DEF StartSweep, SweptAreMarked, TypeOK, Pos
    <3>3. LiveKept'
      BY <1>2 DEF StartSweep, LiveKept, Used
    <3>4. QED
      BY <3>1, <3>2, <3>3 DEF SweepInv
  <2>4. QED
    BY <2>1, <2>2, <2>3 DEF IInv
<1>3. CASE Keep
  <2>1. cur \in Pos
    BY <1>0, <1>3, InLoop DEF Keep
  <2>2. TypeOK' /\ IndexInverse'
    <3>1. cur + 1 \in 0 .. Size
      BY <2>1, SizeAssumption DEF Pos
    <3>2. QED
      BY <3>1, <1>0, <1>3 DEF Keep, TypeOK, IndexInverse
  <2>3. SweepInv'
    <3>1. SweepAhead'
      BY <1>0, <1>3 DEF Keep, SweepInv, SweepAhead, TypeOK
    <3>2. SweptAreMarked'
      BY <2>1, <1>0, <1>3 DEF Keep, SweepInv, SweptAreMarked, TypeOK, Pos
    <3>3. LiveKept'
      BY <1>0, <1>3 DEF Keep, SweepInv, LiveKept, Used
    <3>4. QED
      BY <3>1, <3>2, <3>3 DEF SweepInv
  <2>4. QED
    BY <2>2, <2>3 DEF IInv
<1>4. CASE Reclaim
  <2>1. cur \in Pos /\ fbi <= cur
    BY <1>0, <1>4, InLoop DEF Reclaim, SweepInv, SweepAhead
  <2>2. IndexInverse'
    BY <2>1, <1>0, <1>4, PutKeepsInverse DEF Reclaim
  <2>3. TypeOK'
    <3>1. fbp' \in [Pos -> Pos] /\ idx' \in [Pos -> Pos] /\ fbi' \in 0 .. Size
      BY <2>1, <1>0, <1>4, PutKeepsType DEF Reclaim
    <3>2. mark' \subseteq Pos /\ cur' \in 0 .. Size /\ pc' \in {"run", "sweep"}
      BY <2>1, <1>0, <1>4, SizeAssumption DEF Reclaim, TypeOK, Pos
    <3>3. QED
      BY <3>1, <3>2 DEF TypeOK
  <2>4. QED
    BY <2>2, <2>3, <1>4, ReclaimKeepsSweep DEF IInv
<1>5. CASE EndSweep
  BY <1>0, <1>5, SizeAssumption DEF EndSweep, IInv, TypeOK, IndexInverse, SweepInv
<1>6. CASE UNCHANGED vars
  BY <1>0, <1>6 DEF vars, IInv, TypeOK, IndexInverse, SweepInv, SweepAhead,
                    SweptAreMarked, LiveKept, Used
<1>7. QED
  BY <1>1, <1>2, <1>3, <1>4, <1>5, <1>6 DEF Next

\* The inductive invariant of the table holds for a pool of any size: types,
\* inverse arrays and the state of the sweep loop (blktbl.h, mempool.c:186-200).
THEOREM Invariance == Spec => []IInv
BY InitIInv, NextIInv, PTL DEF Spec

\* The table is well typed: the border and the loop variable stay inside the
\* arrays (blktbl.h:129-150, mempool.c:188-193).
THEOREM TypeCorrect == Spec => []TypeOK
<1>1. IInv => TypeOK
  BY DEF IInv
<1>2. QED
  BY <1>1, Invariance, PTL

\* fbp and the blocks' own indices stay inverse to each other, so that
\* _mbt_put always exchanges the two blocks it means to (blktbl.h:137-150).
THEOREM AlwaysInverse == Spec => []IndexInverse
<1>1. IInv => IndexInverse
  BY DEF IInv
<1>2. QED
  BY <1>1, Invariance, PTL

\* The sweep loop is sound although it walks the very array it rearranges.
THEOREM SweepSound == Spec => []SweepInv
<1>1. IInv => SweepInv
  BY DEF IInv
<1>2. QED
  BY <1>1, Invariance, PTL

---------------------------------------------------------------------------
\* No two positions hold the same block.
LEMMA Injective ==
  ASSUME IndexInverse, NEW i \in Pos, NEW j \in Pos, fbp[i] = fbp[j]
  PROVE  i = j
BY DEF IndexInverse

\* _mbt_get is an allocation of the abstract pool.
LEMMA GetAllocates ==
  ASSUME IInv, Get
  PROVE  Pool!Allocate
<1>1. /\ pc = "run" /\ fbi - 1 \in Pos /\ fbi' = fbi - 1 /\ fbp' = fbp
      /\ IndexInverse /\ TypeOK
  <2>1. /\ pc = "run" /\ fbi > 0 /\ fbi' = fbi - 1 /\ fbp' = fbp
        /\ IndexInverse /\ TypeOK
    BY DEF Get, IInv
  <2>2. fbi \in 0 .. Size
    BY <2>1 DEF TypeOK
  <2>3. QED
    BY <2>1, <2>2, SizeAssumption DEF Pos
<1> DEFINE b == fbp[fbi - 1]
<1>2. b \in Pos
  BY <1>1 DEF TypeOK
<1>3. b \notin Used
  <2> SUFFICES ASSUME NEW j \in fbi .. Size - 1, fbp[j] = b PROVE FALSE
    BY DEF Used
  <2>1. j \in Pos /\ j # fbi - 1
    BY <1>1 DEF TypeOK, Pos
  <2>2. QED
    BY <2>1, <1>1, Injective
<1>4. Used' = Used \cup {b}
  <2>1. fbi - 1 .. Size - 1 = (fbi .. Size - 1) \cup {fbi - 1}
    BY <1>1 DEF TypeOK, Pos
  <2>2. QED
    BY <2>1, <1>1 DEF Used
<1>5. UNCHANGED <<mark, pc>>
  BY DEF Get
<1> HIDE DEF b
<1>6. QED
  BY <1>1, <1>2, <1>3, <1>4, <1>5 DEF Pool!Allocate

\* A reclaimed block is one the abstract pool takes back.
LEMMA ReclaimTakesBack ==
  ASSUME IInv, Reclaim
  PROVE  Pool!TakeBack
<1> USE DEF Reclaim
<1>1. /\ cur \in Pos /\ pc = "sweep" /\ fbi <= cur /\ TypeOK /\ IndexInverse
  <2>1. TypeOK /\ IndexInverse /\ SweepInv /\ pc = "sweep" /\ cur < Size
    BY DEF IInv
  <2>2. QED
    BY <2>1, InLoop DEF SweepInv, SweepAhead
<1>2. /\ fbi \in Pos /\ fbi' = fbi + 1
      /\ fbp' = [fbp EXCEPT ![fbi] = fbp[cur], ![cur] = fbp[fbi]]
  BY <1>1, PutSwaps
<1>3. fbp[cur] \in Used /\ fbp[cur] \notin mark
  BY <1>1 DEF Used, Pos
<1>4. Used' \subseteq Used \ {fbp[cur]}
  <2> SUFFICES ASSUME NEW j \in fbi + 1 .. Size - 1
               PROVE  \E i \in fbi .. Size - 1 : i # cur /\ fbp'[j] = fbp[i]
    <3>1. \A i \in fbi .. Size - 1 : i # cur => fbp[i] # fbp[cur]
      BY <1>1, <1>2, Injective DEF Pos
    <3>2. Used' = {fbp'[i] : i \in fbi + 1 .. Size - 1}
      BY <1>2 DEF Used
    <3>3. QED
      BY <3>1, <3>2 DEF Used
  <2>1. j \in Pos /\ j \in fbi .. Size - 1
    BY <1>2 DEF Pos
  <2>2. CASE j = cur
    <3>1. fbi \in fbi .. Size - 1 /\ fbi # cur
      BY <2>1, <2>2, <1>1, <1>2 DEF Pos
    <3>a. fbp'[j] = fbp[fbi]
      BY <2>2, <1>1, <1>2 DEF TypeOK
    <3>2. QED
      BY <3>1, <3>a
  <2>3. CASE j # cur
    <3>1. fbp'[j] = fbp[j]
      BY <2>1, <2>3, <1>1, <1>2 DEF TypeOK, Pos
    <3>2. QED
      BY <3>1, <2>1, <2>3
  <2>4. QED
    BY <2>2, <2>3
<1>5. Used \ {fbp[cur]} \subseteq Used'
  <2> SUFFICES ASSUME NEW i \in fbi .. Size - 1, i # cur
               PROVE  \E j \in fbi + 1 .. Size - 1 : fbp'[j] = fbp[i]
    BY <1>2 DEF Used
  <2>1. i \in Pos
    BY <1>2 DEF Pos
  <2>2. CASE i = fbi
    <3>1. cur \in fbi + 1 .. Size - 1 /\ fbp'[cur] = fbp[i]
      BY <2>1, <2>2, <1>1, <1>2 DEF TypeOK, Pos
    <3>2. QED
      BY <3>1
  <2>3. CASE i # fbi
    <3>1. i \in fbi + 1 .. Size - 1 /\ fbp'[i] = fbp[i]
      BY <2>1, <2>3, <1>1, <1>2 DEF TypeOK, Pos
    <3>2. QED
      BY <3>1
  <2>4. QED
    BY <2>2, <2>3
<1>6. UNCHANGED <<mark, pc>>
  OBVIOUS
<1>7. Used' = Used \ {fbp[cur]}
  BY <1>4, <1>5
<1>8. QED
  BY <1>1, <1>3, <1>6, <1>7 DEF Pool!TakeBack

\* When the loop is over, what is left in the used part is what was marked.
LEMMA EndIsExact ==
  ASSUME IInv, EndSweep
  PROVE  Pool!EndCollection
<1>1. /\ pc = "sweep" /\ cur = Size /\ TypeOK /\ SweptAreMarked /\ LiveKept
  BY SizeAssumption DEF EndSweep, IInv, TypeOK, SweepInv
<1>2. Used \subseteq mark
  <2> SUFFICES ASSUME NEW i \in fbi .. Size - 1 PROVE fbp[i] \in mark
    BY DEF Used
  <2>1. i \in Pos /\ fbi <= i /\ i < cur
    BY <1>1 DEF TypeOK, Pos
  <2>2. QED
    BY <2>1, <1>1 DEF SweptAreMarked
<1>3. Used = mark
  BY <1>1, <1>2 DEF LiveKept
<1>4. /\ pc' = "run" /\ mark' = {} /\ Used' = Used
  BY DEF EndSweep, Used
<1>5. QED
  BY <1>1, <1>3, <1>4 DEF Pool!EndCollection

\* Every step of the table is a step of the pool, or changes nothing there.
LEMMA StepRefines == IInv /\ [Next]_vars => [Pool!Next]_(Pool!vars)
<1> SUFFICES ASSUME IInv, [Next]_vars PROVE [Pool!Next]_(Pool!vars)
  OBVIOUS
<1> USE DEF Pool!Next, Pool!vars
<1>1. CASE Get
  BY <1>1, GetAllocates
<1>2. CASE StartSweep
  <2>1. Used' = Used
    BY <1>2 DEF StartSweep, Used
  <2>2. pc = "run" /\ pc' = "sweep" /\ mark' \in SUBSET Used
    BY <1>2 DEF StartSweep
  <2>3. QED
    BY <2>1, <2>2 DEF Pool!StartCollection
<1>3. CASE Keep
  BY <1>3 DEF Keep, Used
<1>4. CASE Reclaim
  BY <1>4, ReclaimTakesBack
<1>5. CASE EndSweep
  BY <1>5, EndIsExact
<1>6. CASE UNCHANGED vars
  BY <1>6 DEF vars, Used
<1>7. QED
  BY <1>1, <1>2, <1>3, <1>4, <1>5, <1>6 DEF Next

\* A new table is an empty pool.
LEMMA InitRefines == Init => Pool!Init
<1> SUFFICES ASSUME Init PROVE Pool!Init
  OBVIOUS
<1>1. fbi .. Size - 1 = {}
  BY SizeAssumption DEF Init
<1>2. Used = {}
  BY <1>1 DEF Used
<1>3. QED
  BY <1>2 DEF Init, Pool!Init

\* The block table implements the abstract pool: allocation hands out a block
\* nobody holds, and a collection ends with exactly the marked blocks in use
\* (blktbl.h:129-150, mempool.c:188-193).
THEOREM Implementation == Spec => ImplementsPool
<1>1. Spec => []IInv
  BY Invariance
<1>2. QED
  BY <1>1, InitRefines, StepRefines, PTL DEF Spec, ImplementsPool, Pool!Spec

---------------------------------------------------------------------------
(* The symbol tables. *)

\* A description moves to the entry that replaces its own.
LEMMA InsertKeeps ==
  ASSUME SymbolsAssumption, Pointers, Owners, NEW s \in Sym, NEW e \in Expr, Insert(s, e)
  PROVE  Pointers' /\ Owners'
<1> DEFINE d == IF tab[s] = NoEntry THEN EmptyDesc ELSE tab[s].desc
<1> USE DEF Pointers
<1>1. tab' = [tab EXCEPT ![s] = [e |-> e, desc |-> d]] /\ heap' = heap
  BY DEF Insert, Map!Put
<1>2. d \in DOMAIN heap \cup {EmptyDesc} /\ EmptyDesc \notin DOMAIN heap
  BY DEF SymbolsAssumption
<1>3. [e |-> e, desc |-> d] # NoEntry
  <2>1. [e |-> e, desc |-> d] \in Entry
    BY <1>2 DEF Entry
  <2> QED
    BY <2>1 DEF SymbolsAssumption
<1>4. Pointers'
  BY <1>1, <1>2
<1>5. ASSUME NEW x \in Sym, NEW c \in DOMAIN heap
      PROVE  tab'[x] # NoEntry /\ tab'[x].desc = c <=> tab[x] # NoEntry /\ tab[x].desc = c
  <2>1. CASE x = s
    BY <1>1, <1>2, <1>3, <2>1
  <2>2. CASE x # s
    BY <1>1, <2>2
  <2> QED
    BY <2>1, <2>2
<1>6. Owners'
  BY <1>1, <1>5 DEF Owners
<1> QED
  BY <1>4, <1>6

\* A description is freed with the only entry that has it, and a new string is
\* nobody's before it is the entry's.
LEMMA DescribeKeeps ==
  ASSUME SymbolsAssumption, Pointers, Owners,
         NEW s \in Sym, NEW e \in Expr \cup {NoExpr}, Describe(s, e)
  PROVE  Pointers' /\ Owners'
<1> USE DEF Pointers
<1> EmptyDesc \notin DOMAIN heap
  BY DEF SymbolsAssumption
<1>1. CASE tab[s] = NoEntry /\ UNCHANGED <<tab, heap>>
  BY <1>1 DEF Owners
<1>2. CASE tab[s] # NoEntry /\ e = NoExpr
  <2>0. [tab[s] EXCEPT !.desc = EmptyDesc] = [e |-> tab[s].e, desc |-> EmptyDesc]
    BY <1>2
  <2>1. /\ heap' = Without({tab[s].desc})
        /\ tab' = [tab EXCEPT ![s] = [e |-> tab[s].e, desc |-> EmptyDesc]]
    BY <1>2, <2>0 DEF Describe, Map!Put
  <2>2. tab[s].e \in Expr /\ [e |-> tab[s].e, desc |-> EmptyDesc] \in Entry
    BY <1>2 DEF Entry
  <2>3. DOMAIN heap' = DOMAIN heap \ {tab[s].desc} /\ heap' \in [DOMAIN heap' -> Expr]
    BY <2>1 DEF Without
  <2>4. \A x \in Sym : x # s => tab'[x] = tab[x]
    BY <2>1
  <2>5. tab'[s] # NoEntry /\ tab'[s].desc = EmptyDesc /\ tab'[s].e = tab[s].e
    BY <1>2, <2>1, <2>2 DEF SymbolsAssumption, Entry
  <2>6. \A x \in Sym : x # s /\ tab[x] # NoEntry =>
          tab[x].desc # tab[s].desc \/ tab[x].desc = EmptyDesc
    BY <1>2 DEF Owners
  <2>7. Pointers'
    <3>1. \A x \in Sym : tab'[x] \in [e : Expr, desc : DOMAIN heap' \cup {EmptyDesc}] \cup {NoEntry}
      BY <2>1, <2>2, <2>3, <2>4, <2>6
    <3> QED
      BY <2>1, <2>3, <3>1
  <2>8. Owners'
    BY <2>3, <2>4, <2>5 DEF Owners
  <2> QED
    BY <2>7, <2>8
<1>3. CASE tab[s] # NoEntry /\ e # NoExpr
  <2>1. PICK d \in Str \ DOMAIN heap :
          /\ heap' = [x \in (DOMAIN heap \ {tab[s].desc}) \cup {d} |-> IF x = d THEN e ELSE heap[x]]
          /\ tab' = [tab EXCEPT ![s] = [e |-> tab[s].e, desc |-> d]]
    <3>1. \A d \in Str : [tab[s] EXCEPT !.desc = d] = [e |-> tab[s].e, desc |-> d]
      BY <1>3
    <3> QED
      BY <1>3, <3>1 DEF Describe, Map!Put
  <2>2. tab[s].e \in Expr /\ [e |-> tab[s].e, desc |-> d] \in Entry
    BY <1>3 DEF Entry
  <2>3. DOMAIN heap' = (DOMAIN heap \ {tab[s].desc}) \cup {d} /\ heap' \in [DOMAIN heap' -> Expr]
    BY <1>3, <2>1
  <2>4. \A x \in Sym : x # s => tab'[x] = tab[x]
    BY <2>1
  <2>5. tab'[s] # NoEntry /\ tab'[s].desc = d /\ tab'[s].e = tab[s].e
    BY <1>3, <2>1, <2>2 DEF SymbolsAssumption, Entry
  <2>6. \A x \in Sym : x # s /\ tab[x] # NoEntry =>
          tab[x].desc # d /\ (tab[x].desc # tab[s].desc \/ tab[x].desc = EmptyDesc)
    BY <1>3 DEF Owners, SymbolsAssumption
  <2>7. Pointers'
    <3>1. \A x \in Sym : tab'[x] \in [e : Expr, desc : DOMAIN heap' \cup {EmptyDesc}] \cup {NoEntry}
      BY <2>1, <2>2, <2>3, <2>4, <2>6
    <3> QED
      BY <2>1, <2>3, <3>1
  <2>8. Owners'
    <3> SUFFICES ASSUME NEW c \in DOMAIN heap'
                 PROVE  \E y \in Sym : \A x \in Sym : tab'[x] # NoEntry /\ tab'[x].desc = c <=> x = y
      BY DEF Owners
    <3>1. CASE c = d
      BY <2>4, <2>5, <2>6, <3>1
    <3>2. CASE c # d
      BY <2>3, <2>4, <2>5, <3>2 DEF Owners
    <3> QED
      BY <3>1, <3>2
  <2> QED
    BY <2>7, <2>8
<1> QED
  BY <1>1, <1>2, <1>3 DEF Describe

\* What is unset takes its description along.
LEMMA UnsetKeeps ==
  ASSUME SymbolsAssumption, Pointers, Owners, NEW s \in Sym,
         tab[s] # NoEntry, tab' = [tab EXCEPT ![s] = NoEntry], heap' = Without({tab[s].desc})
  PROVE  Pointers' /\ Owners'
<1> USE DEF Pointers
<1> EmptyDesc \notin DOMAIN heap
  BY DEF SymbolsAssumption
<1>1. DOMAIN heap' = DOMAIN heap \ {tab[s].desc} /\ heap' \in [DOMAIN heap' -> Expr]
  BY DEF Without
<1>2. \A x \in Sym : x # s => tab'[x] = tab[x]
  OBVIOUS
<1>3. \A x \in Sym : x # s /\ tab[x] # NoEntry =>
        tab[x].desc # tab[s].desc \/ tab[x].desc = EmptyDesc
  BY DEF Owners
<1>4. Pointers'
  BY <1>1, <1>2, <1>3
<1>5. Owners'
  BY <1>1, <1>2 DEF Owners
<1> QED
  BY <1>4, <1>5

---------------------------------------------------------------------------
\* What is done to one symbol leaves the others with the descriptions they have.
LEMMA OthersKeep ==
  ASSUME SymbolsAssumption, Pointers, Owners, NEW s \in Sym, NEW x \in Sym, x # s,
         \/ \E e \in Expr : Insert(s, e)
         \/ \E e \in Expr \cup {NoExpr} : Describe(s, e)
         \/ tab' = [tab EXCEPT ![s] = NoEntry] /\ heap' = Without({tab[s].desc})
  PROVE  tab'[x] = tab[x] /\ (Describes(x) => Describes(x)')
<1> USE DEF Pointers, Describes
<1>1. ASSUME NEW e \in Expr, Insert(s, e)
      PROVE  tab'[x] = tab[x] /\ (Describes(x) => Describes(x)')
  <2>1. heap' = heap /\ tab'[x] = tab[x]
    BY <1>1 DEF Insert, Map!Put
  <2> QED
    BY <2>1
<1>2. ASSUME NEW e \in Expr \cup {NoExpr}, Describe(s, e)
      PROVE  tab'[x] = tab[x] /\ (Describes(x) => Describes(x)')
  <2>1. tab'[x] = tab[x]
    <3>1. \/ tab' = tab
          \/ tab' = [tab EXCEPT ![s] = [tab[s] EXCEPT !.desc = EmptyDesc]]
          \/ \E d \in Str : tab' = [tab EXCEPT ![s] = [tab[s] EXCEPT !.desc = d]]
      BY <1>2 DEF Describe, Map!Put
    <3> HIDE DEF Describes
    <3> QED
      BY <3>1, ZenonT(30)
  <2>2. CASE UNCHANGED <<tab, heap>>
    BY <2>2
  <2>3. CASE heap' = Without({tab[s].desc})
    BY <2>1, <2>3 DEF Without
  <2>4. ASSUME NEW d \in Str \ DOMAIN heap,
               heap' = [c \in (DOMAIN heap \ {tab[s].desc}) \cup {d} |-> IF c = d THEN e ELSE heap[c]]
        PROVE  tab'[x] = tab[x] /\ (Describes(x) => Describes(x)')
    BY <2>1, <2>4 DEF SymbolsAssumption
  <2> QED
    BY <1>2, <2>2, <2>3, <2>4 DEF Describe
<1>3. CASE tab' = [tab EXCEPT ![s] = NoEntry] /\ heap' = Without({tab[s].desc})
  BY <1>3 DEF Without
<1> QED
  BY <1>1, <1>2, <1>3

\* What a described symbol gets is the description of its value, or none.
LEMMA DescribeMatches ==
  ASSUME SymbolsAssumption, Pointers, NEW s \in Sym, NEW e \in Expr \cup {NoExpr}, Describe(s, e),
         tab[s] # NoEntry => e \in {tab[s].e, NoExpr}
  PROVE  Describes(s)'
<1> USE DEF Pointers, Describes
<1>1. CASE tab[s] = NoEntry
  BY <1>1 DEF Describe
<1>2. CASE tab[s] # NoEntry /\ e = NoExpr
  <2>1. [tab[s] EXCEPT !.desc = EmptyDesc] = [e |-> tab[s].e, desc |-> EmptyDesc]
    BY <1>2
  <2>2. tab'[s].desc = EmptyDesc /\ EmptyDesc \notin DOMAIN heap'
    BY <1>2, <2>1 DEF Describe, Map!Put, Without, SymbolsAssumption
  <2> QED
    BY <2>2
<1>3. CASE tab[s] # NoEntry /\ e # NoExpr
  <2>1. \A d \in Str : [tab[s] EXCEPT !.desc = d] = [e |-> tab[s].e, desc |-> d]
    BY <1>3
  <2>2. PICK d \in Str \ DOMAIN heap :
          /\ heap' = [x \in (DOMAIN heap \ {tab[s].desc}) \cup {d} |-> IF x = d THEN e ELSE heap[x]]
          /\ tab' = [tab EXCEPT ![s] = [e |-> tab[s].e, desc |-> d]]
    BY <1>3, <2>1 DEF Describe, Map!Put
  <2> QED
    BY <1>3, <2>2
<1> QED
  BY <1>1, <1>2, <1>3

---------------------------------------------------------------------------
\* First half of a set.
LEMMA SetInsertKeeps ==
  ASSUME SymbolsAssumption, SymbolsInv, NEW t \in Writer, NEW s \in IF t = Main THEN Sym ELSE Shared,
         NEW e \in Expr, NEW withDesc \in BOOLEAN, SetInsert(t, s, e, withDesc)
  PROVE  SymbolsInv'
<1> USE DEF SymbolsInv
<1> DEFINE a == DescArg(s, e, withDesc)
<1>1. /\ at[t] = "idle" /\ at' = [at EXCEPT ![t] = "describe"]
      /\ Insert(s, e) /\ arg' = [arg EXCEPT ![t] = a]
  BY DEF SetInsert, Goto
<1>2. s \in Sym /\ a \in Setting(t) /\ a.sym = s /\ a.e \in {e, NoExpr}
  BY DEF SymbolsAssumption, DescArg, Setting
<1>3. Pointers' /\ Owners'
  BY <1>1, <1>2, InsertKeeps
<1>4. Threads'
  BY <1>1, <1>2 DEF Threads, SymbolsAssumption
<1>5. tab'[s].e = e /\ tab'[s] # NoEntry
  <2>1. tab' = [tab EXCEPT ![s] = [e |-> e, desc |-> IF tab[s] = NoEntry THEN EmptyDesc ELSE tab[s].desc]]
    BY <1>1 DEF Insert, Map!Put
  <2>2. tab'[s] \in Entry
    <3>1. (IF tab[s] = NoEntry THEN EmptyDesc ELSE tab[s].desc) \in Str \cup {EmptyDesc}
      BY <1>2 DEF Pointers
    <3> QED
      BY <1>2, <2>1, <3>1 DEF Pointers, Entry
  <2> QED
    BY <1>2, <2>1, <2>2 DEF Pointers, SymbolsAssumption
<1>6. Values'
  <2> SUFFICES ASSUME NEW x \in Sym \ Shared
               PROVE  (IF HalfSet(x) THEN tab[x] # NoEntry /\ arg[Main].e \in {tab[x].e, NoExpr}
                                     ELSE Describes(x))'
    BY DEF Values
  <2>1. x # s => tab'[x] = tab[x] /\ (Describes(x) => Describes(x)')
    BY <1>1, <1>2, OthersKeep
  <2>2. CASE t = Main
    BY <1>1, <1>2, <1>5, <2>1, <2>2 DEF Threads, Values, HalfSet, SymbolsAssumption
  <2>3. CASE t # Main
    BY <1>1, <2>1, <2>3 DEF Threads, Values, HalfSet, SymbolsAssumption
  <2> QED
    BY <2>2, <2>3
<1> QED
  BY <1>3, <1>4, <1>6

\* Second half of a set: that of Main's symbols ends with the right description.
LEMMA SetDescribeKeeps ==
  ASSUME SymbolsAssumption, SymbolsInv, NEW t \in Writer, SetDescribe(t)
  PROVE  SymbolsInv'
<1> USE DEF SymbolsInv
<1> DEFINE s == arg[t].sym
           e == arg[t].e
<1>1. /\ at[t] = "describe" /\ at' = [at EXCEPT ![t] = "idle"]
      /\ Describe(s, e) /\ arg' = [arg EXCEPT ![t] = [sym |-> NoEntry]]
  BY DEF SetDescribe, Goto
<1>2. s \in Sym /\ e \in Expr \cup {NoExpr} /\ (t # Main => s \in Shared)
  BY <1>1 DEF Threads, Setting, SymbolsAssumption
<1>3. Pointers' /\ Owners'
  BY <1>1, <1>2, DescribeKeeps
<1>4. Threads'
  BY <1>1 DEF Threads, SymbolsAssumption
<1>5. Values'
  <2> SUFFICES ASSUME NEW x \in Sym \ Shared
               PROVE  (IF HalfSet(x) THEN tab[x] # NoEntry /\ arg[Main].e \in {tab[x].e, NoExpr}
                                     ELSE Describes(x))'
    BY DEF Values
  <2>1. x # s => tab'[x] = tab[x] /\ (Describes(x) => Describes(x)')
    BY <1>1, <1>2, OthersKeep
  <2>2. CASE t = Main
    <3>1. ~HalfSet(x)'
      BY <1>1, <2>2 DEF Threads, HalfSet, SymbolsAssumption
    <3>2. CASE x = s
      <4>1. HalfSet(x)
        BY <1>1, <2>2, <3>2 DEF HalfSet
      <4>2. tab[s] # NoEntry => e \in {tab[s].e, NoExpr}
        BY <2>2, <3>2, <4>1 DEF Values
      <4> QED
        BY <1>1, <1>2, <3>1, <3>2, <4>2, DescribeMatches
    <3>3. CASE x # s
      BY <2>1, <2>2, <3>1, <3>3 DEF Values, HalfSet
    <3> QED
      BY <3>2, <3>3
  <2>3. CASE t # Main
    BY <1>1, <1>2, <2>1, <2>3 DEF Threads, Values, HalfSet, SymbolsAssumption
  <2> QED
    BY <2>2, <2>3
<1> QED
  BY <1>3, <1>4, <1>5

\* Unsetting a symbol.
LEMMA UnsetStepKeeps ==
  ASSUME SymbolsAssumption, SymbolsInv, NEW t \in Writer, NEW s \in IF t = Main THEN Sym ELSE Shared,
         Unset(t, s)
  PROVE  SymbolsInv'
<1> USE DEF SymbolsInv
<1>1. /\ at[t] = "idle" /\ UNCHANGED <<at, arg>> /\ tab[s] # NoEntry
      /\ tab' = [tab EXCEPT ![s] = NoEntry] /\ heap' = Without({tab[s].desc})
  BY DEF Unset, Map!Remove
<1>2. s \in Sym /\ (t # Main => s \in Shared)
  BY DEF SymbolsAssumption
<1>3. Pointers' /\ Owners'
  BY <1>1, <1>2, UnsetKeeps
<1>4. Threads'
  BY <1>1 DEF Threads, Setting, Asking
<1>5. Values'
  <2> SUFFICES ASSUME NEW x \in Sym \ Shared
               PROVE  (IF HalfSet(x) THEN tab[x] # NoEntry /\ arg[Main].e \in {tab[x].e, NoExpr}
                                     ELSE Describes(x))'
    BY DEF Values
  <2>1. x # s => tab'[x] = tab[x] /\ (Describes(x) => Describes(x)')
    BY <1>1, <1>2, OthersKeep
  <2>2. x = s => t = Main /\ tab'[x] = NoEntry
    BY <1>1, <1>2 DEF Pointers
  <2> QED
    BY <1>1, <2>1, <2>2 DEF Values, HalfSet, Describes
<1> QED
  BY <1>3, <1>4, <1>5

\* One step of any thread keeps the invariant; a helper changes nothing but its notes.
LEMMA SymbolsInvNext ==
  ASSUME SymbolsAssumption, SymbolsInv, [SymbolsNext]_symvars
  PROVE  SymbolsInv'
<1>1. ASSUME NEW t \in Helper, NEW s \in Sym, HelpDesc(t, s) PROVE SymbolsInv'
  <2>1. [sym |-> s, text |-> IF tab[s].desc \in Str THEN heap[tab[s].desc] ELSE NoExpr] \in Asking
    BY <1>1 DEF SymbolsInv, Pointers, HelpDesc, Asking, SymbolsAssumption
  <2>2. t \notin Writer /\ t # Main
    BY DEF SymbolsAssumption
  <2>3. Threads'
    BY <1>1, <2>1, <2>2 DEF SymbolsInv, Threads, HelpDesc, Goto
  <2>4. at'[Main] = at[Main] /\ arg'[Main] = arg[Main] /\ UNCHANGED <<tab, heap>>
    BY <1>1, <2>2 DEF SymbolsInv, HelpDesc, Goto, Threads, SymbolsAssumption
  <2>5. Pointers' /\ Owners' /\ Values'
    BY <2>4 DEF SymbolsInv, Pointers, Owners, Values, HalfSet, Describes
  <2> QED
    BY <2>3, <2>5 DEF SymbolsInv
<1>2. ASSUME NEW t \in Helper, HelpValue(t) PROVE SymbolsInv'
  <2>1. t \notin Writer /\ t # Main
    BY DEF SymbolsAssumption
  <2>2. Threads'
    BY <1>2, <2>1 DEF SymbolsInv, Threads, HelpValue, Goto
  <2> QED
    BY <1>2, <2>1, <2>2 DEF SymbolsInv, HelpValue, Goto, Threads, Pointers, Owners, Values, HalfSet, Describes
<1>3. CASE UNCHANGED symvars
  BY <1>3 DEF SymbolsInv, symvars, Threads, Pointers, Owners, Values, HalfSet, Describes
<1> QED
  BY <1>1, <1>2, <1>3, SetInsertKeeps, SetDescribeKeeps, UnsetStepKeeps DEF SymbolsNext

\* The invariant holds of an empty table.
LEMMA SymbolsInvInit ==
  ASSUME SymbolsAssumption, SymbolsInit
  PROVE  SymbolsInv
<1>1. Threads
  BY DEF SymbolsInit, Threads, Asking
<1>2. Pointers /\ Owners /\ Values
  BY DEF SymbolsInit, Map!Init, Pointers, Owners, Values, HalfSet, Describes, SymbolsAssumption
<1> QED
  BY <1>1, <1>2 DEF SymbolsInv

\* Every description belongs to exactly one entry and lives as long as it, and is that
\* of the expression the symbol was set to, for all symbols of one thread and whatever
\* others set, unset and ask for meanwhile (symlookup.c:48-156, sfunc.c:207-213).
THEOREM DescriptionsAreOwned ==
  ASSUME SymbolsAssumption
  PROVE  SymbolsSpec => []DescriptionsOwned
<1>1. SymbolsInv => DescriptionsOwned
  <2> SUFFICES ASSUME SymbolsInv PROVE DescriptionsOwned
    OBVIOUS
  <2>1. SymbolsTypeOK
    BY DEF SymbolsInv, Threads, Pointers, SymbolsTypeOK
  <2>2. OwnedOnce
    <3> SUFFICES ASSUME NEW d \in DOMAIN heap PROVE Cardinality(Described(d)) = 1
      BY DEF OwnedOnce
    <3>1. PICK s \in Sym : \A x \in Sym : tab[x] # NoEntry /\ tab[x].desc = d <=> x = s
      BY DEF SymbolsInv, Owners
    <3>2. Described(d) = {s}
      BY <3>1 DEF Described
    <3> QED
      BY <3>2, FS_Singleton
  <2>3. DescribesValue
    BY DEF SymbolsInv, Values, HalfSet, DescribesValue
  <2> QED
    BY <2>1, <2>2, <2>3 DEF DescriptionsOwned
<1>2. SymbolsInit => SymbolsInv
  BY SymbolsInvInit
<1>3. SymbolsInv /\ [SymbolsNext]_symvars => SymbolsInv'
  BY SymbolsInvNext
<1> QED
  BY <1>1, <1>2, <1>3, PTL DEF SymbolsSpec

---------------------------------------------------------------------------
(* Loaded libraries. *)

\* How often a thread may still close a library.
Share(t, l) == IF t \in MayClose(l) THEN 1 ELSE 0

\* When one thread's call changes, the others may close what they might before.
LEMMA CountClosers ==
  ASSUME IsFiniteSet(Thread), call \in [Thread -> Calls],
         NEW t \in Thread, NEW c \in Calls, call' = [call EXCEPT ![t] = c],
         NEW l \in Lib
  PROVE  \E n \in Nat :
           /\ Cardinality(MayClose(l)) = n + Share(t, l)
           /\ Cardinality(MayClose(l)') = n + Share(t, l)'
<1> DEFINE Others == MayClose(l) \ {t}
<1>1. MayClose(l)' \ {t} = Others
  BY DEF MayClose, Untouched
<1>2. IsFiniteSet(MayClose(l)) /\ IsFiniteSet(MayClose(l)')
  <2>1. MayClose(l) \subseteq Thread /\ MayClose(l)' \subseteq Thread
    BY DEF MayClose
  <2> QED
    BY <2>1, FS_Subset
<1>3. /\ IsFiniteSet(Others) /\ Cardinality(Others) \in Nat
      /\ Cardinality(MayClose(l)) \in Nat /\ Cardinality(MayClose(l)') \in Nat
  BY <1>2, FS_RemoveElement, FS_CardinalityType
<1>4. Cardinality(Others) =
        IF t \in MayClose(l) THEN Cardinality(MayClose(l)) - 1 ELSE Cardinality(MayClose(l))
  BY <1>2, FS_RemoveElement
<1>5. Cardinality(Others) =
        IF t \in MayClose(l)' THEN Cardinality(MayClose(l)') - 1 ELSE Cardinality(MayClose(l)')
  BY <1>1, <1>2, FS_RemoveElement
<1>6. Cardinality(MayClose(l)) = Cardinality(Others) + Share(t, l)
  BY <1>3, <1>4 DEF Share
<1>7. Cardinality(MayClose(l)') = Cardinality(Others) + Share(t, l)'
  BY <1>3, <1>5 DEF Share
<1> QED
  BY <1>3, <1>6, <1>7

\* When a thread takes its share along, and pays with it for a need that is new, the
\* library is still open often enough.
LEMMA RefsStep ==
  ASSUME IsFiniteSet(Thread), LoadingTypeOK, RefsCover,
         NEW t \in Thread, NEW c \in Calls, call' = [call EXCEPT ![t] = c],
         NEW l \in Lib,
         refs[l]' \in Nat,
         refs[l]' >= refs[l] + Share(t, l)' - Share(t, l),
         Needed(l)' => Needed(l) \/ refs[l]' > refs[l] + Share(t, l)' - Share(t, l)
  PROVE  /\ Cardinality(MayClose(l)') <= refs[l]'
         /\ Needed(l)' => Cardinality(MayClose(l)') < refs[l]'
<1>1. call \in [Thread -> Calls] /\ refs[l] \in Nat
  BY DEF LoadingTypeOK
<1>2. PICK n \in Nat : /\ Cardinality(MayClose(l)) = n + Share(t, l)
                      /\ Cardinality(MayClose(l)') = n + Share(t, l)'
  BY <1>1, CountClosers
<1>3. /\ Cardinality(MayClose(l)) <= refs[l]
      /\ Needed(l) => Cardinality(MayClose(l)) < refs[l]
  BY DEF RefsCover
<1>4. Share(t, l) \in {0, 1} /\ Share(t, l)' \in {0, 1}
  BY DEF Share
<1> QED
  BY <1>1, <1>2, <1>3, <1>4

\* A closer has the library open.
LEMMA CloserHasRef ==
  ASSUME IsFiniteSet(Thread), LoadingTypeOK, RefsCover,
         NEW t \in Thread, NEW l \in Lib, t \in MayClose(l)
  PROVE  refs[l] \in Nat \ {0}
<1>1. IsFiniteSet(MayClose(l)) /\ Cardinality(MayClose(l)) \in Nat
  <2>1. MayClose(l) \subseteq Thread
    BY DEF MayClose
  <2> QED
    BY <2>1, FS_Subset, FS_CardinalityType
<1>2. Cardinality(MayClose(l)) # 0
  BY <1>1, FS_EmptySet
<1>3. refs[l] \in Nat /\ Cardinality(MayClose(l)) <= refs[l]
  BY DEF RefsCover, LoadingTypeOK
<1> QED
  BY <1>1, <1>2, <1>3

\* The library of a thread's call, and what the call has still to do.
LEMMA CallInProgress ==
  ASSUME LoadingAssumption, LoadingTypeOK, NEW t \in Thread, call[t].op \in {"load", "unload"}
  PROVE  /\ call[t] = [op |-> call[t].op, lib |-> call[t].lib, todo |-> call[t].todo]
         /\ call[t].lib \in Lib /\ call[t].todo \in SUBSET Names
         /\ call[t].todo \subseteq Functions[call[t].lib]
<1>1. call[t] \in Calls /\ call[t].todo \subseteq Functions[call[t].lib]
  BY DEF LoadingTypeOK
<1> QED
  BY <1>1 DEF Calls

\* One function less to do.
LEMMA OneLess ==
  ASSUME NEW o, NEW l, NEW d, NEW s
  PROVE  [[op |-> o, lib |-> l, todo |-> d] EXCEPT !.todo = @ \ {s}] =
           [op |-> o, lib |-> l, todo |-> d \ {s}]
OBVIOUS

\* The steps of load-cnf and unload-cnf keep a library open as often as it may still
\* be closed, and once more if it is needed.
LEMMA CallsKeepRefs ==
  ASSUME LoadingAssumption, LoadingTypeOK, RefsCover, LoadingNext
  PROVE  LoadingTypeOK' /\ RefsCover'
<1>0. IsFiniteSet(Thread) /\ \A l \in Lib : refs[l] \in Nat
  BY DEF LoadingAssumption, LoadingTypeOK
<1>1. ASSUME NEW t \in Thread, NEW l \in Lib, NEW op \in {"load", "unload"}, Open(t, op, l)
      PROVE  LoadingTypeOK' /\ RefsCover'
  <2> DEFINE c == [op |-> op, lib |-> l, todo |-> Functions[l]]
  <2>1. c \in Calls /\ call' = [call EXCEPT ![t] = c]
    BY <1>1 DEF Open, Calls, Names
  <2>2. LoadingTypeOK'
    BY <1>1, <2>1 DEF Open, LoadingTypeOK
  <2>3. ASSUME NEW m \in Lib
        PROVE  /\ Cardinality(MayClose(m)') <= refs[m]'
               /\ Needed(m)' => Cardinality(MayClose(m)') < refs[m]'
    <3>1. Share(t, m) = 0 /\ Share(t, m)' = IF m = l THEN 1 ELSE 0
      BY <1>1, <2>1 DEF Open, At, Share, MayClose, Untouched, LoadingTypeOK
    <3>2. Needed(m)' => Needed(m)
      BY <1>1, <2>1 DEF Open, At, Needed, Untouched, LoadingTypeOK
    <3>3. refs[m]' = IF m = l THEN refs[m] + 1 ELSE refs[m]
      BY <1>1 DEF Open, LoadingTypeOK
    <3>4. refs[m]' \in Nat /\ refs[m]' >= refs[m] + Share(t, m)' - Share(t, m)
      BY <1>0, <3>1, <3>3
    <3> HIDE DEF c
    <3> QED
      BY <1>0, <2>1, <3>2, <3>4, RefsStep
  <2> QED
    BY <2>2, <2>3 DEF RefsCover
<1>2. ASSUME NEW t \in Thread, NotFound(t)
      PROVE  LoadingTypeOK' /\ RefsCover'
  <2> DEFINE c == [op |-> "failing"]
  <2>1. c \in Calls /\ call' = [call EXCEPT ![t] = c]
    BY <1>2 DEF NotFound, Calls
  <2>2. LoadingTypeOK' /\ refs' = refs
    BY <1>2, <2>1 DEF NotFound, LoadingTypeOK
  <2>3. ASSUME NEW m \in Lib
        PROVE  /\ Cardinality(MayClose(m)') <= refs[m]'
               /\ Needed(m)' => Cardinality(MayClose(m)') < refs[m]'
    <3>1. Share(t, m) = 0 /\ Share(t, m)' = 0
      BY <1>2, <2>1 DEF NotFound, At, Share, MayClose, LoadingTypeOK
    <3>2. Needed(m)' => Needed(m)
      BY <1>2, <2>1 DEF NotFound, At, Needed, Untouched, LoadingTypeOK
    <3>3. refs[m]' \in Nat /\ refs[m]' >= refs[m] + Share(t, m)' - Share(t, m)
      BY <1>0, <2>2, <3>1
    <3> HIDE DEF c
    <3> QED
      BY <1>0, <2>1, <3>2, <3>3, RefsStep
  <2> QED
    BY <2>2, <2>3 DEF RefsCover
\* The end of a call, which closes the library or leaves it open.
<1>3. ASSUME NEW t \in Thread, NEW c \in {[op |-> "failing"], Idle}, NEW l \in Lib,
             call[t].op \in {"load", "unload"}, call[t].lib = l,
             call' = [call EXCEPT ![t] = c],
             \/ t \in MayClose(l) /\ refs' = [refs EXCEPT ![l] = @ - 1]
             \/ refs' = refs,
             UNCHANGED <<bound, held, files, open>>
      PROVE  LoadingTypeOK' /\ RefsCover'
  <2>1. c \in Calls /\ c.op \in {"idle", "failing"}
    BY DEF Calls, Idle
  <2>2. \A m \in Lib : Needed(m)' => Needed(m)
    BY <1>3, <2>1 DEF At, Needed, Untouched, LoadingTypeOK
  <2>3. ASSUME NEW m \in Lib
        PROVE  refs[m]' \in Nat /\ refs[m]' >= refs[m] + Share(t, m)' - Share(t, m)
    <3>1. Share(t, m)' = 0 /\ Share(t, m) \in {0, 1}
      BY <1>3, <2>1 DEF Share, MayClose, LoadingTypeOK
    <3>2. CASE refs' = refs
      BY <1>0, <3>1, <3>2
    <3>3. CASE t \in MayClose(l) /\ refs' = [refs EXCEPT ![l] = @ - 1]
      <4>1. refs[l] \in Nat \ {0}
        BY <1>0, <3>3, CloserHasRef
      <4>2. refs[m]' = IF m = l THEN refs[l] - 1 ELSE refs[m]
        BY <3>3 DEF LoadingTypeOK
      <4>3. Share(t, l) = 1
        BY <3>3 DEF Share
      <4> QED
        BY <1>0, <3>1, <4>1, <4>2, <4>3
    <3> QED
      BY <1>3, <3>2, <3>3
  <2>4. refs' \in [Lib -> Nat]
    <3>1. DOMAIN refs' = Lib /\ refs' = [m \in Lib |-> refs'[m]]
      BY <1>3 DEF LoadingTypeOK
    <3> QED
      BY <2>3, <3>1
  <2>5. LoadingTypeOK'
    BY <1>3, <2>1, <2>4 DEF LoadingTypeOK
  <2>6. ASSUME NEW m \in Lib
        PROVE  /\ Cardinality(MayClose(m)') <= refs[m]'
               /\ Needed(m)' => Cardinality(MayClose(m)') < refs[m]'
    <3>1. /\ call' = [call EXCEPT ![t] = c] /\ c \in Calls
          /\ refs[m]' \in Nat /\ refs[m]' >= refs[m] + Share(t, m)' - Share(t, m)
          /\ Needed(m)' => Needed(m)
      BY <1>3, <2>1, <2>2, <2>3
    <3> QED
      BY <1>0, <3>1, RefsStep
  <2> QED
    BY <2>5, <2>6 DEF RefsCover
<1>4. ASSUME NEW t \in Thread, NoEntryPoint(t) \/ Unloaded(t)
      PROVE  LoadingTypeOK' /\ RefsCover'
  <2>1. call[t].op \in {"load", "unload"} /\ call[t].lib \in Lib
    BY <1>4, CallInProgress DEF NoEntryPoint, Unloaded, At
  <2>2. t \in MayClose(call[t].lib)
    BY <1>4, <2>1 DEF NoEntryPoint, Unloaded, At, MayClose, Untouched
  <2> QED
    BY <1>3, <1>4, <2>1, <2>2 DEF NoEntryPoint, Unloaded
<1>5. ASSUME NEW t \in Thread, Refused(t) \/ Loaded(t)
      PROVE  LoadingTypeOK' /\ RefsCover'
  <2>1. call[t].op \in {"load", "unload"} /\ call[t].lib \in Lib
    BY <1>5, CallInProgress DEF Refused, Loaded, At
  <2> QED
    BY <1>3, <1>5, <2>1 DEF Refused, Loaded, LoadLeaves
\* One function more or less to do.
<1>6. ASSUME NEW t \in Thread, NEW s \in Names, Register(t, s) \/ Unregister(t, s)
      PROVE  LoadingTypeOK' /\ RefsCover'
  <2> DEFINE l == call[t].lib
             c == [op |-> call[t].op, lib |-> l, todo |-> call[t].todo \ {s}]
  <2>1. /\ call[t].op \in {"load", "unload"} /\ l \in Lib /\ s \in call[t].todo
        /\ call[t] = [op |-> call[t].op, lib |-> l, todo |-> call[t].todo]
        /\ call[t].todo \subseteq Functions[l] /\ call[t].todo \in SUBSET Names
    BY <1>6, CallInProgress DEF Register, Unregister, At
  <2>2. call' = [call EXCEPT ![t] = c] /\ c \in Calls
    <3>1. call' = [call EXCEPT ![t].todo = @ \ {s}]
      BY <1>6 DEF Register, Unregister
    <3>2. [call[t] EXCEPT !.todo = @ \ {s}] = c
      BY <2>1, OneLess
    <3>3. c \in Calls
      BY <2>1 DEF Calls
    <3> HIDE DEF c
    <3> QED
      BY <3>1, <3>2, <3>3
  <2>3. /\ call[t]'.op = call[t].op /\ call[t]'.lib = l /\ call[t]'.todo = call[t].todo \ {s}
        /\ \A u \in Thread \ {t} : call[u]' = call[u]
    BY <2>2 DEF LoadingTypeOK
  <2>4. refs' = refs /\ bound' \in [Names -> Value]
    BY <1>6, <2>1 DEF Register, Unregister, LoadingTypeOK, Value
  <2>5. LoadingTypeOK'
    BY <1>6, <2>1, <2>2, <2>4 DEF Register, Unregister, LoadingTypeOK
  <2>6. Functions[l] # call[t].todo \ {s}
    BY <2>1
  <2>7. ASSUME NEW m \in Lib
        PROVE  /\ refs[m]' >= refs[m] + Share(t, m)' - Share(t, m)
               /\ Needed(m)' => Needed(m) \/ refs[m]' > refs[m] + Share(t, m)' - Share(t, m)
    <3>1. refs[m]' = refs[m] /\ refs[m] \in Nat /\ Share(t, m) \in {0, 1}
      BY <1>0, <2>4 DEF Share
    <3>2. CASE call[t].op = "unload"
      <4>1. Share(t, m)' = Share(t, m)
        BY <2>3, <3>2 DEF Share, MayClose
      <4>2. Unregister(t, s)
        BY <1>6, <3>2 DEF Register, At
      <4>3. Needed(m)' => Needed(m)
        BY <2>3, <3>2, <4>2 DEF Unregister, Needed, At, Untouched, LoadingTypeOK, LoadingAssumption
      <4> QED
        BY <3>1, <4>1, <4>3
    <3>3. CASE call[t].op = "load"
      <4>1. Share(t, m)' = 0
        BY <2>3, <2>6, <3>3 DEF Share, MayClose, Untouched
      <4>2. Register(t, s)
        BY <1>6, <3>3 DEF Unregister, At
      <4>3. m # l => (Needed(m)' => Needed(m))
        BY <2>3, <3>3, <4>2 DEF Register, Needed, At, Untouched, LoadingTypeOK
      <4>4. Needed(l) \/ Share(t, l) = 1
        BY <2>1, <3>3 DEF Share, MayClose, Needed, At
      <4> QED
        BY <3>1, <4>1, <4>3, <4>4
    <3> QED
      BY <2>1, <3>2, <3>3
  <2>8. ASSUME NEW m \in Lib
        PROVE  /\ Cardinality(MayClose(m)') <= refs[m]'
               /\ Needed(m)' => Cardinality(MayClose(m)') < refs[m]'
    <3>1. refs[m]' \in Nat
      BY <1>0, <2>4
    <3> HIDE DEF c
    <3> QED
      BY <1>0, <2>2, <2>7, <3>1, RefsStep
  <2> QED
    BY <2>5, <2>8 DEF RefsCover
\* Steps between the calls.
<1>7. ASSUME NEW t \in Thread, NEW s \in Names, Set(t, s) \/ Lookup(t, s)
      PROVE  LoadingTypeOK' /\ RefsCover'
  <2>1. LoadingTypeOK'
    BY <1>7 DEF Set, Lookup, LoadingTypeOK, Value
  <2>2. \A m \in Lib : MayClose(m)' = MayClose(m)
    BY <1>7 DEF Set, Lookup, MayClose, Untouched
  <2>3. \A m \in Lib : Needed(m)' => Needed(m)
    BY <1>7 DEF Set, Lookup, Needed, At, Untouched, LoadingTypeOK, LoadingAssumption
  <2>4. refs' = refs
    BY <1>7 DEF Set, Lookup
  <2> QED
    BY <2>1, <2>2, <2>3, <2>4 DEF RefsCover
<1>8. ASSUME NEW t \in Thread, OpenFile(t) \/ CloseFile(t) \/ Bail(t)
      PROVE  LoadingTypeOK' /\ RefsCover'
  <2>1. UNCHANGED <<refs, bound, held, call>> /\ files' \in [Thread -> Seq(Handles)]
    <3>1. UNCHANGED <<refs, bound, held, call>>
      BY <1>8 DEF OpenFile, CloseFile, Bail
    <3>2. ASSUME OpenFile(t) PROVE files' \in [Thread -> Seq(Handles)]
      BY <3>2 DEF OpenFile, LoadingTypeOK
    <3>3. ASSUME CloseFile(t) \/ Bail(t) PROVE files' \in [Thread -> Seq(Handles)]
      <4>1. Front(files[t]) \in Seq(Handles)
        BY <3>3, FrontLast DEF CloseFile, Bail, LoadingTypeOK
      <4> QED
        BY <3>3, <4>1 DEF CloseFile, Bail, LoadingTypeOK
    <3> QED
      BY <1>8, <3>1, <3>2, <3>3
  <2> QED
    BY <2>1 DEF LoadingTypeOK, RefsCover, MayClose, Needed, At, Untouched
<1>9. ASSUME NEW t \in Thread, Failed(t)
      PROVE  LoadingTypeOK' /\ RefsCover'
  <2>1. Idle \in Calls /\ call' = [call EXCEPT ![t] = Idle] /\ Idle.op = "idle"
    BY <1>9 DEF Failed, Calls, Idle
  <2>2. LoadingTypeOK'
    BY <1>9, <2>1 DEF Failed, LoadingTypeOK, Value
  <2>3. \A m \in Lib : MayClose(m)' = MayClose(m)
    BY <1>9, <2>1 DEF Failed, At, MayClose, Untouched, LoadingTypeOK
  <2>4. \A m \in Lib : Needed(m)' => Needed(m)
    BY <1>9, <2>1 DEF Failed, Needed, At, Untouched, LoadingTypeOK, LoadingAssumption
  <2>5. refs' = refs
    BY <1>9 DEF Failed
  <2> QED
    BY <2>2, <2>3, <2>4, <2>5 DEF RefsCover
<1> QED
  BY <1>1, <1>2, <1>4, <1>5, <1>6, <1>7, <1>8, <1>9 DEF LoadingNext

\* What is in the ranges of several sequences.
AllOf(fs) == UNION {Range(fs[t]) : t \in Thread}
IsIn(fs, f) == \E t \in Thread : \E i \in DOMAIN fs[t] : f = fs[t][i]

\* What is in a range is at some index.
LEMMA InRanges == ASSUME NEW fs PROVE \A f : f \in AllOf(fs) <=> IsIn(fs, f)
BY DEF Range, AllOf, IsIn

\* A file is opened under a handle that is not open, and a file that is closed, or
\* given up by an error, is the innermost one of its thread and of nobody else.
LEMMA FilesStep ==
  ASSUME LoadingTypeOK, OnceEach, FilesClosed, LoadingNext
  PROVE  OnceEach' /\ FilesClosed'
<1>0. open = AllOf(files)
  BY DEF FilesClosed, AllOf
<1>1. files \in [Thread -> Seq(Handles)] /\ \A f : f \in open <=> IsIn(files, f)
  BY <1>0, InRanges DEF LoadingTypeOK
<1>2. SUFFICES OnceEach' /\ \A f : f \in open' <=> IsIn(files', f)
  <2>1. \A f : f \in AllOf(files') <=> IsIn(files', f)
    BY InRanges
  <2>2. open' = AllOf(files')
    BY <2>1
  <2> QED
    BY <2>2 DEF FilesClosed, AllOf
<1>3. ASSUME NEW t \in Thread, OpenFile(t)
      PROVE  OnceEach' /\ \A f : f \in open' <=> IsIn(files', f)
  <2>1. PICK f \in Handles \ open :
             files' = [files EXCEPT ![t] = Append(@, f)] /\ open' = open \cup {f}
    BY <1>3 DEF OpenFile
  <2>2. /\ DOMAIN files'[t] = DOMAIN files[t] \cup {Len(files[t]) + 1}
        /\ \A i \in DOMAIN files[t] : files'[t][i] = files[t][i]
        /\ files'[t][Len(files[t]) + 1] = f
        /\ \A u \in Thread \ {t} : files'[u] = files[u]
    BY <1>1, <2>1
  <2>3. ~ IsIn(files, f)
    BY <1>1
  <2>4. OnceEach'
    BY <2>2, <2>3 DEF OnceEach, IsIn
  <2>5. \A g : IsIn(files', g) <=> IsIn(files, g) \/ g = f
    BY <2>2 DEF IsIn
  <2>6. \A g : g \in open' <=> g \in open \/ g = f
    BY <2>1
  <2> QED
    BY <1>1, <2>4, <2>5, <2>6
<1>4. ASSUME NEW t \in Thread, CloseFile(t) \/ Bail(t)
      PROVE  OnceEach' /\ \A f : f \in open' <=> IsIn(files', f)
  <2> DEFINE n == Len(files[t])
  <2>1. /\ files' = [files EXCEPT ![t] = Front(@)] /\ open' = open \ {Last(files[t])}
        /\ files[t] # <<>>
    BY <1>4 DEF CloseFile, Bail, Closed
  <2>2. /\ n \in Nat \ {0} /\ DOMAIN files[t] = 1..n /\ DOMAIN files'[t] = 1..(n - 1)
        /\ \A i \in 1..n - 1 : files'[t][i] = files[t][i]
        /\ Last(files[t]) = files[t][n]
        /\ \A u \in Thread \ {t} : files'[u] = files[u]
    <3>1. /\ files[t] \in Seq(Handles) /\ files'[t] = Front(files[t])
          /\ \A u \in Thread \ {t} : files'[u] = files[u]
      BY <1>1, <2>1
    <3>2. /\ Front(files[t]) \in Seq(Handles) /\ Len(Front(files[t])) = n - 1 /\ n \in Nat \ {0}
          /\ \A i \in 1..n - 1 : Front(files[t])[i] = files[t][i]
          /\ Last(files[t]) = files[t][n]
      BY <2>1, <3>1, FrontLast
    <3> QED
      BY <3>1, <3>2
  <2>3. OnceEach'
    <3>1. \A u \in Thread : \A i \in DOMAIN files'[u] :
             i \in DOMAIN files[u] /\ files'[u][i] = files[u][i]
      <4> SUFFICES ASSUME NEW u \in Thread, NEW i \in DOMAIN files'[u]
                   PROVE  i \in DOMAIN files[u] /\ files'[u][i] = files[u][i]
        OBVIOUS
      <4>1. CASE u = t
        BY <2>2, <4>1
      <4> QED
        BY <2>2, <4>1
    <3> QED
      BY <3>1 DEF OnceEach
  <2>4. \A g : IsIn(files', g) <=> IsIn(files, g) /\ g # files[t][n]
    <3>1. \A u \in Thread : \A i \in DOMAIN files[u] :
             files[u][i] = files[t][n] => u = t /\ i = n
      BY <2>2 DEF OnceEach
    <3>2. ASSUME NEW g, IsIn(files', g) PROVE IsIn(files, g) /\ g # files[t][n]
      <4>0. PICK u \in Thread : \E i \in DOMAIN files'[u] : g = files'[u][i]
        BY <3>2 DEF IsIn
      <4>1. PICK i \in DOMAIN files'[u] : g = files'[u][i]
        BY <4>0
      <4>2. i \in DOMAIN files[u] /\ files'[u][i] = files[u][i] /\ ~ (u = t /\ i = n)
        BY <2>2, <4>1
      <4> QED
        BY <3>1, <4>1, <4>2 DEF IsIn
    <3>3. ASSUME NEW g, IsIn(files, g), g # files[t][n] PROVE IsIn(files', g)
      <4>0. PICK u \in Thread : \E i \in DOMAIN files[u] : g = files[u][i]
        BY <3>3 DEF IsIn
      <4>1. PICK i \in DOMAIN files[u] : g = files[u][i]
        BY <4>0
      <4>2. i \in DOMAIN files'[u] /\ files'[u][i] = files[u][i]
        BY <2>2, <3>3, <4>1
      <4> QED
        BY <4>1, <4>2 DEF IsIn
    <3> QED
      BY <3>2, <3>3
  <2>5. \A g : g \in open' <=> g \in open /\ g # files[t][n]
    BY <2>1, <2>2
  <2> QED
    BY <1>1, <2>3, <2>4, <2>5
<1>5. ASSUME UNCHANGED <<files, open>>
      PROVE  OnceEach' /\ \A f : f \in open' <=> IsIn(files', f)
  BY <1>1, <1>5 DEF OnceEach
<1>6. OnceEach' /\ (\A f : f \in open' <=> IsIn(files', f))
  BY <1>3, <1>4, <1>5
     DEF LoadingNext, Open, NotFound, NoEntryPoint, Refused, Loaded, Unloaded, Register,
         Unregister, Set, Lookup, Failed
<1> QED
  BY <1>6

\* The invariant holds for any threads, libraries and functions.
THEOREM LoadingInvariance ==
  ASSUME LoadingAssumption
  PROVE  LoadingSpec => []LoadingInv
<1>1. LoadingInit => LoadingInv
  <2> SUFFICES ASSUME LoadingInit PROVE LoadingInv
    OBVIOUS
  <2>1. LoadingTypeOK
    BY DEF LoadingInit, LoadingTypeOK, Value, Calls, Idle
  <2>2. \A l \in Lib : MayClose(l) = {} /\ ~ Needed(l)
    BY DEF LoadingInit, LoadingAssumption, MayClose, Needed, At, Idle
  <2>3. RefsCover
    <3>1. \A l \in Lib : Cardinality(MayClose(l)) = 0 /\ refs[l] = 0
      BY <2>2, FS_EmptySet DEF LoadingInit
    <3> QED
      BY <2>2, <3>1 DEF RefsCover
  <2>4. OnceEach /\ FilesClosed
    BY DEF LoadingInit, OnceEach, FilesClosed, Range
  <2> QED
    BY <2>1, <2>3, <2>4 DEF LoadingInv
<1>2. LoadingInv /\ [LoadingNext]_ldvars => LoadingInv'
  <2>1. LoadingInv /\ LoadingNext => LoadingInv'
    BY CallsKeepRefs, FilesStep DEF LoadingInv
  <2>2. LoadingInv /\ UNCHANGED ldvars => LoadingInv'
    BY DEF LoadingInv, ldvars, LoadingTypeOK, RefsCover, MayClose, Needed, At, Untouched,
           OnceEach, FilesClosed
  <2> QED
    BY <2>1, <2>2
<1> QED
  BY <1>1, <1>2, PTL DEF LoadingSpec

\* The code of a native function is mapped as long as a symbol is bound to it or
\* somebody has looked it up, whatever is unloaded meanwhile (nfunc.c:248, 294).
THEOREM CodeStaysMapped ==
  ASSUME LoadingAssumption
  PROVE  LoadingSpec => []CodeIsMapped
<1>1. LoadingInv => CodeIsMapped
  <2> SUFFICES ASSUME LoadingInv, NEW l \in Lib, Needed(l) PROVE Mapped(l)
    BY DEF CodeIsMapped, Needed
  <2>1. refs[l] \in Nat /\ Cardinality(MayClose(l)) < refs[l]
    BY DEF LoadingInv, LoadingTypeOK, RefsCover
  <2>2. Cardinality(MayClose(l)) \in Nat
    <3>1. MayClose(l) \subseteq Thread
      BY DEF MayClose
    <3> QED
      BY <3>1, FS_Subset, FS_CardinalityType DEF LoadingAssumption
  <2> QED
    BY <2>1, <2>2 DEF Mapped
<1> QED
  BY <1>1, LoadingInvariance, PTL

\* The files that are open are those being interpreted, however an interpretation
\* ends (nfunc.c:346-379).
THEOREM EveryFileCloses ==
  ASSUME LoadingAssumption
  PROVE  LoadingSpec => []FilesClosed
<1>1. LoadingInv => FilesClosed
  BY DEF LoadingInv
<1> QED
  BY <1>1, LoadingInvariance, PTL

---------------------------------------------------------------------------
(* Linked lists. *)

\* A link that is put behind p ranks one above p, as what ranked higher moves up.
LEMMA LinkIn ==
  ASSUME Ring, NEW r \in [Node -> Nat], Ranked(r),
         NEW p \in In, NEW a \in Link \ linked, LinksAssumption,
         add(p, next[p], a), linked' = linked \cup {a}
  PROVE  Ring' /\ \E q \in [Node -> Nat] : Ranked(q)'
<1>1. /\ a \in Node /\ a # head /\ a \notin In /\ In \subseteq Node /\ In' = In \cup {a}
      /\ next[p] \in In /\ p \in Node /\ next[p] \in Node
  BY DEF Ring, In, Node, LinksAssumption
<1>2. /\ next' \in [Node -> Node] /\ next'[p] = a /\ next'[a] = next[p]
      /\ \A l \in In \ {p} : next'[l] = next[l]
  BY <1>1 DEF add, Ring
<1>3. /\ prev' \in [Node -> Node] /\ prev'[next[p]] = a /\ prev'[a] = p
      /\ \A l \in In \ {next[p]} : prev'[l] = prev[l]
  BY <1>1 DEF add, Ring
<1>4. Ring'
  <2>1. ASSUME NEW l \in In'
        PROVE  /\ next'[l] \in In' /\ prev'[l] \in In'
               /\ prev'[next'[l]] = l /\ next'[prev'[l]] = l
    <3>1. CASE l = a
      BY <1>1, <1>2, <1>3, <3>1
    <3>2. CASE l = p
      BY <1>1, <1>2, <1>3, <3>2 DEF Ring, In
    <3>3. CASE l = next[p] /\ l # p
      BY <1>1, <1>2, <1>3, <3>3 DEF Ring, In
    <3>4. CASE l \in In \ {p, next[p]}
      <4>1. next[l] # next[p] /\ prev[l] # p
        BY <1>1, <3>4 DEF Ring, In
      <4> QED
        BY <1>1, <1>2, <1>3, <3>4, <4>1 DEF Ring, In
    <3> QED
      BY <1>1, <3>1, <3>2, <3>3, <3>4
  <2>2. linked' \subseteq Link
    BY DEF Ring
  <2> QED
    BY <1>2, <1>3, <2>1, <2>2 DEF Ring, In
<1> DEFINE q == [x \in Node |-> IF x = a THEN r[p] + 1
                                ELSE IF r[x] > r[p] THEN r[x] + 1 ELSE r[x]]
<1>5. q \in [Node -> Nat] /\ q[a] = r[p] + 1
      /\ \A l \in In : q[l] = IF r[l] > r[p] THEN r[l] + 1 ELSE r[l]
  BY <1>1
<1>6. \A l \in In : r[l] \in Nat
  BY <1>1
<1>7. Ranked(q)'
  <2> HIDE DEF q
  <2>1. q[head] = 0 /\ \A l \in linked' : q[l] > 0
    BY <1>1, <1>5, <1>6 DEF Ranked, In
  <2>2. \A l, m \in In' : q[l] = q[m] => l = m
    BY <1>1, <1>5, <1>6 DEF Ranked
  <2>3. \A l \in In' : next'[l] # head => q[l] < q[next'[l]]
    BY <1>1, <1>2, <1>5, <1>6 DEF Ranked, Ring, In
  <2>4. \A l, m \in In' : q[l] < q[m] => next'[l] # head /\ q[next'[l]] <= q[m]
    <3> SUFFICES ASSUME NEW l \in In', NEW m \in In', q[l] < q[m]
                 PROVE  next'[l] # head /\ q[next'[l]] <= q[m]
      OBVIOUS
    <3>1. CASE l = a /\ m \in In
      <4>1. r[p] < r[m]
        BY <1>5, <1>6, <3>1
      <4> QED
        BY <1>1, <1>2, <1>5, <1>6, <3>1, <4>1 DEF Ranked
    <3>2. CASE l = p
      BY <1>1, <1>2, <1>5, <1>6, <3>2
    <3>3. CASE l \in In \ {p} /\ m = a
      <4>1. r[l] < r[p]
        BY <1>5, <1>6, <3>3 DEF Ranked
      <4> QED
        BY <1>1, <1>2, <1>5, <1>6, <3>3, <4>1 DEF Ranked, Ring, In
    <3>4. CASE l \in In \ {p} /\ m \in In
      <4>1. r[l] < r[m]
        BY <1>5, <1>6, <3>4
      <4>2. next[l] # head /\ r[next[l]] <= r[m] /\ next[l] \in In
        BY <3>4, <4>1 DEF Ranked, Ring, In
      <4> QED
        BY <1>2, <1>5, <1>6, <3>4, <4>2
    <3>5. CASE l = a /\ m = a
      <4>1. q[a] \in Nat
        BY <1>1, <1>5
      <4> QED
        BY <3>5, <4>1
    <3> QED
      BY <1>1, <3>1, <3>2, <3>3, <3>4, <3>5
  <2> QED
    BY <2>1, <2>2, <2>3, <2>4 DEF Ranked
<1> QED
  BY <1>4, <1>5, <1>7

\* A link that is taken out leaves the ranks of the others as they are.
LEMMA Unlink ==
  ASSUME Ring, NEW r \in [Node -> Nat], Ranked(r), NEW l \in linked, LinksAssumption,
         del(prev[l], next[l]), linked' = linked \ {l}
  PROVE  Ring' /\ Ranked(r)'
<1>1. /\ In \subseteq Node /\ In' = In \ {l} /\ l \in In /\ l # head
      /\ next[l] \in In /\ prev[l] \in In
      /\ \A x \in In : r[x] \in Nat
  BY DEF Ring, In, Node, LinksAssumption
<1>2. next[l] # l /\ prev[l] # l
  BY <1>1 DEF Ring, Ranked, In
<1>3. /\ next' \in [Node -> Node] /\ next'[prev[l]] = next[l]
      /\ \A x \in In \ {prev[l]} : next'[x] = next[x]
  BY <1>1 DEF del, Ring
<1>4. /\ prev' \in [Node -> Node] /\ prev'[next[l]] = prev[l]
      /\ \A x \in In \ {next[l]} : prev'[x] = prev[x]
  BY <1>1 DEF del, Ring
<1>5. Ring'
  <2>1. ASSUME NEW x \in In'
        PROVE  /\ next'[x] \in In' /\ prev'[x] \in In'
               /\ prev'[next'[x]] = x /\ next'[prev'[x]] = x
    <3>1. x \in In /\ x # l /\ (next[x] = l => x = prev[l]) /\ (prev[x] = l => x = next[l])
      BY <1>1 DEF Ring, In
    <3>2. (next[x] = next[l] => x = l) /\ (prev[x] = prev[l] => x = l)
      BY <1>1, <3>1 DEF Ring, In
    <3>3. next[x] \in In /\ prev[x] \in In /\ prev[next[x]] = x /\ next[prev[x]] = x
      BY <3>1 DEF Ring, In
    <3> QED
      BY <1>1, <1>2, <1>3, <1>4, <3>1, <3>2, <3>3
  <2>2. linked' \subseteq Link
    BY DEF Ring
  <2> QED
    BY <1>3, <1>4, <2>1, <2>2 DEF Ring, In
<1>6. Ranked(r)'
  <2>1. r[head] = 0 /\ (\A x \in linked' : r[x] > 0) /\ (\A x, y \in In' : r[x] = r[y] => x = y)
    BY <1>1 DEF Ranked
  <2>2. ASSUME NEW x \in In', next'[x] # head
        PROVE  r[x] < r[next'[x]]
    <3>1. CASE x = prev[l]
      <4>1. next[x] = l /\ next'[x] = next[l]
        BY <1>1, <1>3, <3>1 DEF Ring, In
      <4>2. r[x] < r[l] /\ r[l] < r[next[l]]
        BY <1>1, <2>2, <4>1 DEF Ranked
      <4> QED
        BY <1>1, <4>1, <4>2
    <3>2. CASE x # prev[l]
      BY <1>1, <1>3, <2>2, <3>2 DEF Ranked
    <3> QED
      BY <3>1, <3>2
  <2>3. ASSUME NEW x \in In', NEW y \in In', r[x] < r[y]
        PROVE  next'[x] # head /\ r[next'[x]] <= r[y]
    <3>1. next[x] # head /\ r[next[x]] <= r[y]
      BY <1>1, <2>3 DEF Ranked
    <3>2. CASE x = prev[l]
      <4>1. next[x] = l /\ next'[x] = next[l]
        BY <1>1, <1>3, <3>2 DEF Ring, In
      <4>2. r[l] < r[y]
        BY <1>1, <3>1, <4>1 DEF Ranked
      <4> QED
        BY <1>1, <4>1, <4>2 DEF Ranked
    <3>3. CASE x # prev[l]
      BY <1>1, <1>3, <3>1, <3>3
    <3> QED
      BY <3>2, <3>3
  <2> QED
    BY <2>1, <2>2, <2>3 DEF Ranked
<1> QED
  BY <1>5, <1>6

\* A link that takes the place of another takes its rank.
LEMMA TakePlace ==
  ASSUME Ring, NEW r \in [Node -> Nat], Ranked(r), LinksAssumption, NEW old, NEW a,
         Replace(old, a)
  PROVE  Ring' /\ \E q \in [Node -> Nat] : Ranked(q)'
<1>1. /\ old \in linked /\ a \in Link \ linked /\ a \in Node /\ a # head /\ old # head
      /\ In \subseteq Node /\ In' = (In \ {old}) \cup {a} /\ old \in In /\ a \notin In
      /\ next[old] \in In /\ prev[old] \in In /\ linked' \subseteq Link
      /\ linked' = (linked \ {old}) \cup {a} /\ \A x \in In : r[x] \in Nat
  BY DEF Replace, Ring, In, Node, LinksAssumption
<1>2. next[old] # old /\ prev[old] # old
  BY <1>1 DEF Ring, Ranked, In
<1>3. /\ next' \in [Node -> Node] /\ next'[prev[old]] = a /\ next'[a] = next[old]
      /\ \A x \in In \ {prev[old]} : next'[x] = next[x]
  BY <1>1 DEF Replace, Ring
<1>4. /\ prev' \in [Node -> Node] /\ prev'[next[old]] = a /\ prev'[a] = prev[old]
      /\ \A x \in In \ {next[old]} : prev'[x] = prev[x]
  BY <1>1 DEF Replace, Ring
\* Read as a map that sends a to old and the others to themselves, it is the old ring.
<1> DEFINE was(x) == IF x = a THEN old ELSE x
<1>5. \A x \in In' : was(x) \in In /\ was(x) # a
  BY <1>1
<1>6. \A x \in In' : /\ next'[x] \in In' /\ was(next'[x]) = next[was(x)]
                     /\ prev'[x] \in In' /\ was(prev'[x]) = prev[was(x)]
  <2> SUFFICES ASSUME NEW x \in In'
               PROVE  /\ next'[x] \in In' /\ was(next'[x]) = next[was(x)]
                      /\ prev'[x] \in In' /\ was(prev'[x]) = prev[was(x)]
    OBVIOUS
  <2>1. CASE x = a
    BY <1>1, <1>2, <1>3, <1>4, <2>1
  <2>2. CASE x # a
    <3>1. /\ x \in In /\ next[x] \in In /\ prev[x] \in In /\ x # old
          /\ next[x] = old => x = prev[old]
          /\ prev[x] = old => x = next[old]
          /\ next[prev[old]] = old /\ prev[next[old]] = old
      BY <1>1, <2>2 DEF Ring, In
    <3> QED
      BY <1>1, <1>2, <1>3, <1>4, <2>2, <3>1
  <2> QED
    BY <2>1, <2>2
<1>7. \A x, y \in In' : was(x) = was(y) => x = y
  BY <1>1
<1> HIDE DEF was
<1>8. Ring'
  <2>1. \A x \in In' : prev'[next'[x]] = x /\ next'[prev'[x]] = x
    BY <1>5, <1>6, <1>7 DEF Ring, In
  <2> QED
    BY <1>1, <1>3, <1>4, <1>6, <2>1 DEF Ring, In
<1> DEFINE q == [x \in Node |-> IF x = a THEN r[old] ELSE r[x]]
<1>9. q \in [Node -> Nat] /\ \A x \in In' : q[x] = r[was(x)]
  BY <1>1 DEF was
<1>10. was(head) = head /\ \A x \in In' : was(x) = head <=> x = head
  BY <1>1 DEF was
<1>11. Ranked(q)'
  <2> HIDE DEF q
  <2>1. q[head] = 0 /\ head \in In'
    BY <1>9, <1>10 DEF Ranked, In
  <2>2. \A x \in linked' : q[x] > 0
    <3>1. \A x \in linked' : x \in In' /\ was(x) \in linked
      BY <1>1 DEF In, was
    <3> QED
      BY <1>9, <3>1 DEF Ranked
  <2>3. \A x, y \in In' : q[x] = q[y] => x = y
    BY <1>5, <1>7, <1>9 DEF Ranked
  <2>4. \A x \in In' : next'[x] # head => q[x] < q[next'[x]]
    BY <1>5, <1>6, <1>9, <1>10 DEF Ranked
  <2>5. \A x, y \in In' : q[x] < q[y] => next'[x] # head /\ q[next'[x]] <= q[y]
    BY <1>5, <1>6, <1>9, <1>10 DEF Ranked
  <2> QED
    BY <2>1, <2>2, <2>3, <2>4, <2>5 DEF Ranked
<1> QED
  BY <1>8, <1>9, <1>11

\* A loop that begins has everything still to pass.
LEMMA LoopBegins ==
  ASSUME Ring, NEW r \in [Node -> Nat], Ranked(r), LinksAssumption, Loop
  PROVE  loop' \in LoopType /\ LoopRanked(r)'
<1>1. /\ next[head] \in In /\ next[head] \in Node /\ next[next[head]] \in Node
      /\ linked \subseteq Link /\ In \subseteq Node /\ head \in In
  BY DEF Ring, In, Node
<1>2. /\ loop'.pos = next[head] /\ loop'.n = next[next[head]]
      /\ loop'.seen = {} /\ loop'.todo = linked /\ loop' \in LoopType
      /\ next' = next /\ linked' = linked
  BY <1>1 DEF Loop, First, LoopType
<1>3. ASSUME NEW l \in linked PROVE next[head] # head /\ r[next[head]] <= r[l]
  BY <1>1 DEF Ranked, In
<1>4. loop'.todo = loop'.seen \cup {l \in linked' : loop'.pos # head /\ r[loop'.pos] <= r[l]}
  BY <1>2, <1>3
<1> QED
  BY <1>1, <1>2, <1>4 DEF LoopRanked, In

\* One round of a loop passes the link it is at, also when the body deletes it, and the
\* one it goes on to ranks next.
LEMMA LoopGoesOn ==
  ASSUME Ring, NEW r \in [Node -> Nat], Ranked(r), LoopRanked(r), loop \in LoopType,
         LinksAssumption, NEW d \in BOOLEAN, Body(d)
  PROVE  Ring' /\ Ranked(r)' /\ loop' \in LoopType /\ LoopRanked(r)'
<1> DEFINE p == loop.pos
           n == loop.n
<1>1. /\ loop.on /\ p # head /\ p \in linked /\ p \in In /\ n = next[p] /\ n \in In
      /\ linked \subseteq Link /\ In \subseteq Node /\ \A x \in In : r[x] \in Nat
      /\ loop.todo = loop.seen \cup {l \in linked : r[p] <= r[l]}
  BY DEF Body, LoopRanked, Ring, In, Node
<1>2. /\ Ring' /\ Ranked(r)'
      /\ linked' = IF d THEN linked \ {p} ELSE linked
  <2>1. CASE d
    BY <1>1, <2>1, Unlink DEF Body
  <2>2. CASE ~d
    BY <2>2 DEF Body, Ring, Ranked, In
  <2> QED
    BY <2>1, <2>2
<1>3. n # p
  BY <1>1 DEF Ranked
<1>4. n \in In' /\ n \in Node /\ next'[n] \in Node
  BY <1>1, <1>2, <1>3 DEF In, Ring
<1>5. /\ loop' = [loop EXCEPT !.pos = n, !.n = next'[n], !.seen = @ \cup {p}]
      /\ loop' \in LoopType /\ loop'.pos = n /\ loop'.n = next'[n]
      /\ loop'.seen = loop.seen \cup {p} /\ loop'.todo = loop.todo
  <2>1. loop' = [loop EXCEPT !.pos = n, !.n = next'[n], !.seen = @ \cup {p}]
    BY DEF Body
  <2> QED
    BY <1>1, <1>4, <2>1 DEF LoopType
<1>6. \A l \in linked : r[p] <= r[l] <=> l = p \/ (l # p /\ n # head /\ r[n] <= r[l])
  <2> SUFFICES ASSUME NEW l \in linked
               PROVE  r[p] <= r[l] <=> l = p \/ (l # p /\ n # head /\ r[n] <= r[l])
    OBVIOUS
  <2>1. l \in In /\ r[l] \in Nat /\ r[p] \in Nat /\ r[n] \in Nat
    BY <1>1 DEF In
  <2>2. r[l] = r[p] => l = p
    BY <1>1, <2>1 DEF Ranked
  <2>3. r[p] < r[l] => n # head /\ r[n] <= r[l]
    BY <1>1, <2>1 DEF Ranked
  <2>4. n # head => r[p] < r[n]
    BY <1>1 DEF Ranked
  <2> QED
    BY <2>1, <2>2, <2>3, <2>4
<1>7. loop'.todo = loop'.seen \cup {l \in linked' : loop'.pos # head /\ r[loop'.pos] <= r[l]}
  <2>1. loop'.todo = loop.seen \cup {l \in linked : r[p] <= r[l]}
    BY <1>1, <1>5
  <2>2. {l \in linked : r[p] <= r[l]} =
           {p} \cup {l \in linked' : n # head /\ r[n] <= r[l]}
    BY <1>1, <1>2, <1>6
  <2> QED
    BY <1>5, <2>1, <2>2
<1> QED
  BY <1>2, <1>4, <1>5, <1>7 DEF LoopRanked

\* The invariant holds for any number of links.
THEOREM LinksInvariance ==
  ASSUME LinksAssumption
  PROVE  LinksSpec => []LinksInv
<1>1. LinksInit => LinksInv
  <2> SUFFICES ASSUME LinksInit PROVE LinksInv
    OBVIOUS
  <2>1. Ring /\ In = {head}
    BY DEF LinksInit, Ring, Node, In
  <2>2. loop \in LoopType /\ ~ loop.on
    BY DEF LinksInit, NoLoop, LoopType, Node
  <2> DEFINE r == [x \in Node |-> 0]
  <2>3. r \in [Node -> Nat] /\ r[head] = 0
    BY DEF Node
  <2>4. Ranked(r) /\ LoopRanked(r)
    BY <2>1, <2>2, <2>3 DEF Ranked, LoopRanked, LinksInit, Node
  <2> QED
    BY <2>1, <2>2, <2>3, <2>4 DEF LinksInv
<1>2. LinksInv /\ [LinksNext]_lkvars => LinksInv'
  <2> SUFFICES ASSUME LinksInv, [LinksNext]_lkvars PROVE LinksInv'
    OBVIOUS
  <2>1. PICK r \in [Node -> Nat] : Ranked(r) /\ LoopRanked(r)
    BY DEF LinksInv
  <2>2. Ring /\ loop \in LoopType
    BY DEF LinksInv
  \* Outside of a loop there is nothing to show of it.
  <2>3. ASSUME ~ loop.on, UNCHANGED loop, Ring', \E q \in [Node -> Nat] : Ranked(q)'
        PROVE  LinksInv'
    BY <2>2, <2>3 DEF LinksInv, LoopRanked
  <2>4. ASSUME NEW l \in Node, NEW a \in Link, AddNext(l, a) PROVE LinksInv'
    <3>1. /\ l \in In /\ a \in Link \ linked /\ add(l, next[l], a) /\ linked' = linked \cup {a}
          /\ ~ loop.on /\ UNCHANGED loop
      BY <2>4 DEF AddNext, In
    <3> QED
      BY <2>1, <2>2, <2>3, <3>1, LinkIn
  <2>5. ASSUME NEW l \in Node, NEW a \in Link, AddPrev(l, a) PROVE LinksInv'
    <3>1. /\ l \in In /\ a \in Link \ linked /\ add(prev[l], l, a) /\ linked' = linked \cup {a}
          /\ ~ loop.on /\ UNCHANGED loop
      BY <2>5 DEF AddPrev, In
    <3>2. prev[l] \in In /\ l = next[prev[l]]
      BY <2>2, <3>1 DEF Ring, In
    <3>3. add(prev[l], next[prev[l]], a)
      BY <3>1, <3>2
    <3> QED
      BY <2>1, <2>2, <2>3, <3>1, <3>2, <3>3, LinkIn
  <2>6. ASSUME NEW l \in Link, Del(l) PROVE LinksInv'
    BY <2>1, <2>2, <2>3, <2>6, Unlink DEF Del
  <2>7. ASSUME NEW l \in Link, NEW a \in Link, Replace(l, a) PROVE LinksInv'
    <3>1. ~ loop.on /\ UNCHANGED loop
      BY <2>7 DEF Replace
    <3> QED
      BY <2>1, <2>2, <2>3, <2>7, <3>1, TakePlace
  <2>8. CASE Loop
    <3>1. Ring' /\ Ranked(r)'
      BY <2>1, <2>2, <2>8 DEF Loop, Ring, Ranked, In
    <3> QED
      BY <2>1, <2>2, <2>8, <3>1, LoopBegins DEF LinksInv
  <2>9. ASSUME NEW d \in BOOLEAN, Body(d) PROVE LinksInv'
    BY <2>1, <2>2, <2>9, LoopGoesOn DEF LinksInv
  <2>10. CASE Done
    <3>1. Ring' /\ Ranked(r)'
      BY <2>1, <2>2, <2>10 DEF Done, Ring, Ranked, In
    <3>2. loop' \in LoopType /\ LoopRanked(r)'
      BY <2>10 DEF Done, NoLoop, LoopType, LoopRanked, Node
    <3> QED
      BY <3>1, <3>2 DEF LinksInv
  <2>11. CASE UNCHANGED lkvars
    <3>1. Ring' /\ Ranked(r)' /\ LoopRanked(r)' /\ loop' \in LoopType
      BY <2>1, <2>2, <2>11 DEF lkvars, Ring, Ranked, LoopRanked, In
    <3> QED
      BY <3>1 DEF LinksInv
  <2> QED
    BY <2>4, <2>5, <2>6, <2>7, <2>8, <2>9, <2>10, <2>11 DEF LinksNext
<1> QED
  BY <1>1, <1>2, PTL DEF LinksSpec

\* A list stays one ring under insertions, deletions and replacements, and a loop over
\* it passes every link, whichever its body deletes (yllist.h:50-146).
THEOREM LoopsPassAll ==
  ASSUME LinksAssumption
  PROVE  LinksSpec => []LoopPassesAll
<1>1. LinksInv => LoopPassesAll
  BY DEF LinksInv, LoopPassesAll, LoopRanked, In
<1> QED
  BY <1>1, LinksInvariance, PTL

---------------------------------------------------------------------------
(* The stack. *)

\* A push, into a block that is large enough or into one of twice the size.
LEMMA PushKeeps ==
  ASSUME StackInv, NEW e \in Item, Push(e)
  PROVE  StackInv'
<1> DEFINE n == stk.sz
           wide == stk.limit * 2
           grown == IF Full(stk)
                    THEN [stk EXCEPT !.limit = wide,
                                     !.item = [i \in 1..wide |-> IF i <= n THEN stk.item[i] ELSE {}]]
                    ELSE stk
<1>0. /\ stk = [limit |-> stk.limit, sz |-> stk.sz, item |-> stk.item]
      /\ stk.limit \in Nat \ {0} /\ n \in 0..stk.limit
      /\ stk.item \in [1..stk.limit -> Item \cup {{}}]
      /\ pushed \in Seq(Item) /\ Len(pushed) = n
      /\ \A i \in 1..n : stk.item[i] = pushed[i]
  BY DEF StackInv
<1>1. /\ grown = [limit |-> grown.limit, sz |-> n, item |-> grown.item]
      /\ grown.limit \in Nat /\ n + 1 \in 1..grown.limit
      /\ grown.item \in [1..grown.limit -> Item \cup {{}}]
      /\ \A i \in 1..n : grown.item[i] = pushed[i]
  <2>1. CASE Full(stk)
    <3>1. /\ grown.limit = wide /\ grown.sz = n
          /\ grown.item = [i \in 1..wide |-> IF i <= n THEN stk.item[i] ELSE {}]
          /\ grown = [limit |-> grown.limit, sz |-> n, item |-> grown.item]
      BY <1>0, <2>1
    <3>2. wide \in Nat /\ n + 1 \in 1..wide /\ n \in Nat
      BY <1>0, <2>1 DEF Full
    <3>3. \A i \in 1..wide : i <= n => i \in 1..n
      BY <3>2
    <3>4. \A i \in 1..n : i \in 1..wide /\ i <= n
      BY <3>2
    <3>5. \A i \in 1..n : stk.item[i] \in Item \cup {{}}
      BY <1>0
    <3> HIDE DEF wide, grown
    <3>6. grown.item \in [1..wide -> Item \cup {{}}]
      BY <3>1, <3>3, <3>5
    <3>7. \A i \in 1..n : grown.item[i] = pushed[i]
      BY <1>0, <3>1, <3>4
    <3> QED
      BY <3>1, <3>2, <3>6, <3>7
  <2>2. CASE ~ Full(stk)
    BY <1>0, <2>2 DEF Full
  <2> QED
    BY <2>1, <2>2
<1>2. /\ stk' = [grown EXCEPT !.item = [i \in DOMAIN @ \cup {n + 1} |-> IF i = n + 1 THEN e ELSE @[i]],
                              !.sz = @ + 1]
      /\ pushed' = Append(pushed, e)
  BY DEF Push
<1> HIDE DEF grown
<1>3. /\ stk' = [limit |-> stk'.limit, sz |-> stk'.sz, item |-> stk'.item]
      /\ stk'.limit = grown.limit /\ stk'.sz = n + 1
      /\ stk'.item = [i \in 1..grown.limit |-> IF i = n + 1 THEN e ELSE grown.item[i]]
  <2>1. grown.sz = n /\ DOMAIN grown.item \cup {n + 1} = 1..grown.limit
    BY <1>1
  <2> QED
    BY <1>1, <1>2, <2>1
<1>4. stk'.item \in [1..stk'.limit -> Item \cup {{}}]
  BY <1>1, <1>3
<1>5. pushed' \in Seq(Item) /\ Len(pushed') = n + 1 /\ pushed'[n + 1] = e
      /\ \A i \in 1..n : pushed'[i] = pushed[i]
  BY <1>0, <1>2
<1>6. \A i \in 1..stk'.sz : stk'.item[i] = pushed'[i]
  <2> SUFFICES ASSUME NEW i \in 1..n + 1 PROVE stk'.item[i] = pushed'[i]
    BY <1>3
  <2>1. i \in 1..grown.limit /\ (i = n + 1 \/ i \in 1..n) /\ n \in Nat
    BY <1>0, <1>1
  <2> QED
    BY <1>1, <1>3, <1>5, <2>1
<1>7. stk'.limit \in Nat \ {0} /\ stk'.sz \in 0..stk'.limit /\ Len(pushed') = stk'.sz
  <2>1. n \in Nat /\ grown.limit \in Nat /\ n + 1 \in 1..grown.limit
    BY <1>0, <1>1
  <2>2. grown.limit \in Nat \ {0} /\ n + 1 \in 0..grown.limit
    BY <2>1
  <2> QED
    BY <1>3, <1>5, <2>2
<1> QED
  <2>1. stk' = [limit |-> stk'.limit, sz |-> stk'.sz, item |-> stk'.item]
    BY <1>3
  <2> HIDE DEF n
  <2> QED
    BY <1>4, <1>5, <1>6, <1>7, <2>1 DEF StackInv

\* The topmost of some cells is taken out, and what is above it moves down.
LEMMA RemovalKeeps ==
  ASSUME StackInv, NEW e \in Item, rm_bb(e)
  PROVE  StackInv'
<1> DEFINE n == stk.sz
           I == {i \in 1..n : stk.item[i] = e}
           J == {i \in 1..Len(pushed) : pushed[i] = e}
           top == Max(I)
<1>1. /\ stk = [limit |-> stk.limit, sz |-> n, item |-> stk.item]
      /\ stk.limit \in Nat \ {0} /\ n \in 0..stk.limit
      /\ stk.item \in [1..stk.limit -> Item \cup {{}}]
      /\ pushed \in Seq(Item) /\ Len(pushed) = n
      /\ \A i \in 1..n : stk.item[i] = pushed[i]
  BY DEF StackInv
<1>2. I = J
  BY <1>1
<1>3. I # {}
  BY DEF rm_bb
<1>4. n \in Nat /\ I \subseteq 1..n
  BY <1>1
<1>5. top \in I
  BY <1>3, <1>4, GreatestIndex
<1>6. top \in 1..n
  BY <1>5
<1>7. stk' = [stk EXCEPT !.sz = @ - 1,
                         !.item = [j \in DOMAIN @ |-> IF j \in top..top + (n - top) - 1
                                                      THEN @[j + 1] ELSE @[j]]]
  BY DEF rm_bb, Moved
<1>8. pushed' = SubSeq(pushed, 1, Max(J) - 1) \o SubSeq(pushed, Max(J) + 1, Len(pushed))
  BY DEF rm_bb
<1>9. pushed' = SubSeq(pushed, 1, top - 1) \o SubSeq(pushed, top + 1, n)
  BY <1>1, <1>2, <1>8
<1> HIDE DEF I, J, top, n
<1>10. /\ pushed' \in Seq(Item) /\ Len(pushed') = n - 1
       /\ \A i \in 1..n - 1 : pushed'[i] = IF i < top THEN pushed[i] ELSE pushed[i + 1]
  <2>1. top - 1 \in 0..n /\ top + 1 \in 1..n + 1 /\ n \in Nat
    BY <1>4, <1>6
  <2> DEFINE low == SubSeq(pushed, 1, top - 1)
             high == SubSeq(pushed, top + 1, n)
  <2>2. /\ low \in Seq(Item) /\ Len(low) = top - 1
        /\ \A i \in 1..top - 1 : low[i] = pushed[i]
    <3>1. top - 1 \in Nat /\ top - 1 <= Len(pushed) /\ 1 <= top - 1 + 1 /\ 1 \in Nat \ {0}
      BY <1>1, <1>6, <2>1
    <3>2. /\ low \in Seq(Item) /\ Len(low) = top - 1 - 1 + 1
          /\ \A i \in 1..top - 1 - 1 + 1 : low[i] = pushed[1 + i - 1]
      BY <1>1, <3>1, PartOf
    <3>3. top - 1 - 1 + 1 = top - 1 /\ \A i \in 1..top - 1 : 1 + i - 1 = i
      BY <1>6, <1>4
    <3> QED
      BY <3>2, <3>3
  <2>3. /\ high \in Seq(Item) /\ Len(high) = n - top
        /\ \A i \in 1..n - top : high[i] = pushed[i + top]
    <3>1. n \in Nat /\ n <= Len(pushed) /\ top + 1 <= n + 1 /\ top + 1 \in Nat \ {0}
      BY <1>1, <1>6, <2>1
    <3>2. /\ high \in Seq(Item) /\ Len(high) = n - (top + 1) + 1
          /\ \A i \in 1..n - (top + 1) + 1 : high[i] = pushed[top + 1 + i - 1]
      BY <1>1, <3>1, PartOf
    <3>3. /\ n - (top + 1) + 1 = n - top
          /\ \A i \in 1..n - top : top + 1 + i - 1 = i + top
      BY <1>6, <1>4
    <3> QED
      BY <3>2, <3>3
  <2> HIDE DEF low, high
  <2>4. pushed' = low \o high
    BY <1>9 DEF low, high
  <2>5. pushed' \in Seq(Item) /\ Len(pushed') = n - 1
    <3>1. low \o high \in Seq(Item) /\ Len(low \o high) = Len(low) + Len(high)
      BY <2>2, <2>3
    <3>2. Len(low) + Len(high) = n - 1
      BY <2>2, <2>3, <1>4, <1>6
    <3> QED
      BY <2>4, <3>1, <3>2
  <2>6. ASSUME NEW i \in 1..n - 1
        PROVE  pushed'[i] = IF i < top THEN pushed[i] ELSE pushed[i + 1]
    <3>1. CASE i < top
      <4>1. i \in 1..top - 1
        BY <3>1, <1>4, <1>6, <2>6
      <4>2. pushed'[i] = low[i]
        BY <4>1, <2>2, <2>3, <2>4
      <4> QED
        BY <3>1, <4>1, <4>2, <2>2
    <3>2. CASE ~ (i < top)
      <4>1. i - (top - 1) \in 1..n - top /\ i - (top - 1) + top = i + 1 /\ i > top - 1
        BY <3>2, <1>4, <1>6, <2>6
      <4>2. pushed'[i] = high[i - (top - 1)]
        <5>1. i \in 1..Len(low) + Len(high) /\ ~ (i \in 1..Len(low))
          BY <4>1, <2>2, <2>3, <2>6, <1>4, <1>6
        <5> QED
          BY <5>1, <2>2, <2>3, <2>4
      <4> QED
        BY <3>2, <4>1, <4>2, <2>3
    <3> QED
      BY <3>1, <3>2
  <2> QED
    BY <2>5, <2>6
<1>11. /\ stk' = [limit |-> stk'.limit, sz |-> stk'.sz, item |-> stk'.item]
       /\ stk'.limit = stk.limit /\ stk'.sz = n - 1
       /\ stk'.item = [j \in 1..stk.limit |-> IF j \in top..top + (n - top) - 1
                                              THEN stk.item[j + 1] ELSE stk.item[j]]
  <2>1. DOMAIN stk.item = 1..stk.limit
    BY <1>1
  <2> QED
    BY <1>1, <1>7, <2>1 DEF n
<1>12. stk'.item \in [1..stk'.limit -> Item \cup {{}}]
  <2>1. \A j \in 1..stk.limit : j \in top..top + (n - top) - 1 => j + 1 \in 1..stk.limit
    BY <1>1, <1>6
  <2> QED
    BY <1>1, <1>11, <2>1
<1>13. ASSUME NEW i \in 1..n - 1
       PROVE  stk'.item[i] = pushed'[i]
  <2>1. /\ i \in 1..stk.limit /\ i \in 1..n /\ i + 1 \in 1..n
        /\ (i \in top..top + (n - top) - 1) <=> ~ (i < top)
    BY <1>1, <1>6
  <2>2. stk'.item[i] = IF i < top THEN stk.item[i] ELSE stk.item[i + 1]
    BY <1>11, <2>1
  <2> QED
    BY <1>1, <1>10, <2>1, <2>2
<1>14. n - 1 \in 0..stk.limit
  BY <1>1, <1>6
<1> QED
  BY <1>1, <1>10, <1>11, <1>12, <1>13, <1>14 DEF StackInv

\* Every step of the stack keeps its invariant.
LEMMA StackInvariance ==
  ASSUME StackAssumption
  PROVE  StackSpec => []StackInv
<1>1. StackInit => StackInv
  <2> SUFFICES ASSUME StackInit PROVE StackInv
    OBVIOUS
  <2>1. PICK n \in InitLimit : stk = [limit |-> n, sz |-> 0, item |-> [i \in 1..n |-> {}]]
    BY DEF StackInit
  <2>2. n \in Nat \ {0} /\ pushed = <<>> /\ 0 \in 0..n
    BY DEF StackInit, StackAssumption
  <2>3. stk.limit = n /\ stk.sz = 0 /\ stk.item = [i \in 1..n |-> {}]
    BY <2>1
  <2>4. stk.item \in [1..n -> Item \cup {{}}] /\ 1..0 = {}
    BY <2>3
  <2> QED
    BY <2>1, <2>2, <2>3, <2>4 DEF StackInv
<1>2. StackInv /\ [StackNext]_stkvars => StackInv'
  <2> SUFFICES ASSUME StackInv, [StackNext]_stkvars PROVE StackInv'
    OBVIOUS
  <2>1. /\ stk = [limit |-> stk.limit, sz |-> stk.sz, item |-> stk.item]
        /\ stk.limit \in Nat \ {0} /\ stk.sz \in 0..stk.limit
        /\ stk.item \in [1..stk.limit -> Item \cup {{}}]
        /\ pushed \in Seq(Item) /\ Len(pushed) = stk.sz
        /\ \A i \in 1..stk.sz : stk.item[i] = pushed[i]
    BY DEF StackInv
  <2>2. CASE Pop
    <3>1. /\ stk' = [limit |-> stk'.limit, sz |-> stk'.sz, item |-> stk'.item]
          /\ stk'.limit = stk.limit /\ stk'.sz = stk.sz - 1 /\ stk'.item = stk.item
      BY <2>1, <2>2 DEF Pop
    <3>2. stk.sz \in Nat \ {0} /\ stk.sz - 1 \in 0..stk.limit /\ stk.sz - 1 \in 0..stk.sz
      BY <2>1, <2>2 DEF Pop
    <3>3. pushed' = SubSeq(pushed, 1, stk.sz - 1)
      BY <2>1, <2>2 DEF Pop
    <3>4. /\ pushed' \in Seq(Item) /\ Len(pushed') = stk.sz - 1
          /\ \A i \in 1..stk.sz - 1 : pushed'[i] = pushed[i] /\ i \in 1..stk.sz
      BY <2>1, <3>2, <3>3
    <3> QED
      BY <2>1, <3>1, <3>2, <3>4 DEF StackInv
  <2>3. CASE Clean
    <3>1. /\ stk' = [limit |-> stk'.limit, sz |-> stk'.sz, item |-> stk'.item]
          /\ stk'.limit = stk.limit /\ stk'.sz = 0 /\ stk'.item = stk.item /\ pushed' = <<>>
      BY <2>1, <2>3 DEF Clean
    <3>2. 0 \in 0..stk.limit /\ 1..0 = {}
      BY <2>1
    <3> QED
      BY <2>1, <3>1, <3>2 DEF StackInv
  <2>4. CASE UNCHANGED stkvars
    BY <2>1, <2>4 DEF stkvars, StackInv
  <2> QED
    BY <2>2, <2>3, <2>4, PushKeeps, RemovalKeeps DEF StackNext
<1> QED
  BY <1>1, <1>2, PTL DEF StackSpec

\* The stack keeps its order across growing and removals from its middle, and stays
\* inside its block (stack.h:93-125, mempool.c:106-125).
THEOREM StackOrder ==
  ASSUME StackAssumption
  PROVE  StackSpec => []StackKeeps
<1>1. StackInv => StackKeeps
  <2> SUFFICES ASSUME StackInv PROVE StackKeeps
    OBVIOUS
  <2>1. /\ stk.limit \in Nat \ {0} /\ stk.sz \in Nat /\ stk.sz <= stk.limit
        /\ stk.item \in [1..stk.limit -> Item \cup {{}}]
        /\ pushed \in Seq(Item) /\ Len(pushed) = stk.sz
        /\ \A i \in 1..stk.sz : stk.item[i] = pushed[i]
    BY DEF StackInv
  <2>2. stk.item \in Seq(Item \cup {{}}) /\ Len(stk.item) = stk.limit
    BY <2>1
  <2>3. 1 \in Nat \ {0} /\ stk.sz <= Len(stk.item) /\ 1 <= stk.sz + 1
    BY <2>1, <2>2
  <2> DEFINE s == SubSeq(stk.item, 1, stk.sz)
  <2>4. /\ s \in Seq(Item \cup {{}}) /\ Len(s) = stk.sz - 1 + 1
        /\ \A i \in 1..stk.sz - 1 + 1 : s[i] = stk.item[1 + i - 1]
    BY <2>1, <2>2, <2>3, PartOf
  <2>5. stk.sz - 1 + 1 = stk.sz /\ \A i \in 1..stk.sz : 1 + i - 1 = i
    BY <2>1
  <2>6. Len(s) = Len(pushed) /\ \A i \in 1..Len(s) : s[i] = pushed[i]
    BY <2>1, <2>4, <2>5
  <2> HIDE DEF s
  <2>7. s = pushed
    BY <2>1, <2>4, <2>6, SameItems
  <2> QED
    BY <2>1, <2>7 DEF StackKeeps, s
<1> QED
  BY <1>1, StackInvariance, PTL

---------------------------------------------------------------------------
(* The buffer. *)

\* A block with s written behind the first at of its bytes.
LEMMA Written ==
  ASSUME NEW b \in Seq(Byte), NEW o \in Nat, NEW s \in Seq(Byte), o + Len(s) <= Len(b)
  PROVE  /\ Write(b, o, s) \in Seq(Byte) /\ Len(Write(b, o, s)) = Len(b)
         /\ \A i \in 1..o : Write(b, o, s)[i] = b[i]
         /\ \A i \in 1..Len(s) : Write(b, o, s)[o + i] = s[i]
<1> DEFINE w == Write(b, o, s)
           n == Len(b)
<1>1. w = [i \in 1..n |-> IF i \in o + 1..o + Len(s) THEN s[i - o] ELSE b[i]]
  BY DEF Write
<1>2. n \in Nat /\ Len(s) \in Nat /\ \A i \in 1..n : b[i] \in Byte
  OBVIOUS
<1> HIDE DEF n, w
<1>3. \A i \in o + 1..o + Len(s) : i - o \in 1..Len(s)
  BY <1>2
<1>4. \A i \in 1..Len(s) : s[i] \in Byte
  OBVIOUS
<1>5. \A i \in 1..n : (IF i \in o + 1..o + Len(s) THEN s[i - o] ELSE b[i]) \in Byte
  BY <1>2, <1>3, <1>4
<1>6. w \in [1..n -> Byte]
  BY <1>1, <1>5
<1>7. w \in Seq(Byte) /\ Len(w) = n
  BY <1>2, <1>6
<1>8. ASSUME NEW i \in 1..o PROVE w[i] = b[i]
  <2>1. i \in 1..n /\ ~ (i \in o + 1..o + Len(s))
    BY <1>2 DEF n
  <2> QED
    BY <1>1, <2>1
<1>9. ASSUME NEW i \in 1..Len(s) PROVE w[o + i] = s[i]
  <2>1. o + i \in 1..n /\ o + i \in o + 1..o + Len(s) /\ o + i - o = i
    BY <1>2 DEF n
  <2> QED
    BY <1>1, <2>1
<1> QED
  BY <1>7, <1>8, <1>9 DEF w, n

\* What a block counts is a sequence of bytes, and is what it is filled with.
LEMMA FilledPart ==
  ASSUME NEW d, NEW u, Filled(d, u)
  PROVE  d.b \in Seq(Byte) /\ Len(d.b) = d.limit /\ SubSeq(d.b, 1, d.sz) = u
<1>1. /\ d.limit \in Nat \ {0} /\ d.sz \in Nat /\ d.sz <= d.limit
      /\ d.b \in Seq(Byte) /\ Len(d.b) = d.limit
      /\ u \in Seq(Byte) /\ Len(u) = d.sz
      /\ \A i \in 1..d.sz : d.b[i] = u[i]
  BY DEF Filled
<1>2. d.b \in Seq(Byte) /\ Len(d.b) = d.limit
  BY <1>1
<1>3. 1 \in Nat \ {0} /\ d.sz <= Len(d.b) /\ 1 <= d.sz + 1
  BY <1>1, <1>2
<1> DEFINE s == SubSeq(d.b, 1, d.sz)
<1>4. /\ s \in Seq(Byte) /\ Len(s) = d.sz - 1 + 1
      /\ \A i \in 1..d.sz - 1 + 1 : s[i] = d.b[1 + i - 1]
  BY <1>1, <1>2, <1>3, PartOf
<1>5. d.sz - 1 + 1 = d.sz /\ \A i \in 1..d.sz : 1 + i - 1 = i
  BY <1>1
<1>6. Len(s) = Len(u) /\ \A i \in 1..Len(s) : s[i] = u[i]
  BY <1>1, <1>4, <1>5
<1> HIDE DEF s
<1>7. s = u
  BY <1>1, <1>4, <1>6, SameItems
<1> QED
  BY <1>2, <1>7 DEF s

\* What is copied into a larger block still fills it.
LEMMA CopyKeeps ==
  ASSUME NEW d, NEW u, Filled(d, u), NEW n \in Nat \ {0}, d.sz <= n, zero \in Byte
  PROVE  Filled([limit |-> n, sz |-> d.sz, b |-> Write(Block(n), 0, SubSeq(d.b, 1, d.sz))], u)
<1>1. d.sz \in Nat /\ d.sz \in 0..n /\ u \in Seq(Byte) /\ Len(u) = d.sz
  BY DEF Filled
<1>2. SubSeq(d.b, 1, d.sz) = u
  BY FilledPart
<1> DEFINE w == Write(Block(n), 0, u)
           e == [limit |-> n, sz |-> d.sz, b |-> w]
<1>3. Block(n) \in Seq(Byte) /\ Len(Block(n)) = n /\ 0 \in Nat /\ 0 + Len(u) <= n
  BY <1>1 DEF Block
<1>4. w \in Seq(Byte) /\ Len(w) = n /\ \A i \in 1..Len(u) : w[0 + i] = u[i]
  BY <1>1, <1>3, Written
<1> HIDE DEF w
<1>5. e.limit = n /\ e.sz = d.sz /\ e.b = w
  OBVIOUS
<1>6. \A i \in 1..d.sz : w[i] = u[i]
  <2>1. \A i \in 1..Len(u) : 0 + i = i
    BY <1>1
  <2> QED
    BY <1>1, <1>4, <2>1
<1> HIDE DEF e
<1>7. e = [limit |-> e.limit, sz |-> e.sz, b |-> e.b]
  BY <1>5 DEF e
<1>8. Filled(e, u)
  BY <1>1, <1>4, <1>5, <1>6, <1>7 DEF Filled
<1> QED
  BY <1>2, <1>8 DEF e, w

\* Doubling a block changes neither what it counts nor that there is a block.
LEMMA ExpandKeeps ==
  ASSUME zero \in Byte, NEW d, NEW u, Filled(d, u)
  PROVE  Filled(expand(d), u) /\ expand(d).sz = d.sz
<1>1. d.limit * 2 \in Nat \ {0} /\ d.sz <= d.limit * 2
  BY DEF Filled
<1>2. Filled(expand(d), u)
  BY <1>1, CopyKeeps DEF expand
<1> QED
  BY <1>2 DEF expand

\* The recursive function of expanded exists: it is the last of its own prefixes.
LEMMA Expansions ==
  ASSUME NEW d, NEW k \in Nat
  PROVE  \E f : f = [i \in 0..k |-> IF i = 0 THEN d ELSE expand(f[i - 1])]
<1> DEFINE Step(f, i) == IF i = 0 THEN d ELSE expand(f[i - 1])
           P == {m \in Nat : \E f : f = [i \in 0..m |-> Step(f, i)]}
<1>1. 0 \in P
  <2> DEFINE f == [i \in 0..0 |-> d]
  <2>1. f = [i \in 0..0 |-> Step(f, i)]
    OBVIOUS
  <2> HIDE DEF f, Step
  <2> QED
    BY <2>1
<1>2. ASSUME NEW m \in P PROVE m + 1 \in P
  <2>1. PICK f : f = [i \in 0..m |-> Step(f, i)]
    OBVIOUS
  <2> DEFINE g == [i \in 0..m + 1 |-> IF i = m + 1 THEN expand(f[m]) ELSE f[i]]
  <2>2. /\ m \in Nat /\ m + 1 # 0 /\ m + 1 - 1 = m /\ m \in 0..m + 1 /\ m # m + 1
        /\ m + 1 \in 0..m + 1
    OBVIOUS
  <2>3. ASSUME NEW i \in 0..m + 1 PROVE g[i] = Step(g, i)
    <3>1. CASE i = m + 1
      BY <2>2, <3>1
    <3>2. CASE i # m + 1
      <4>1. i \in 0..m /\ (i # 0 => i - 1 \in 0..m + 1 /\ i - 1 # m + 1)
        BY <3>2
      <4>2. g[i] = f[i] /\ (i # 0 => g[i - 1] = f[i - 1])
        BY <3>2, <4>1
      <4>3. f[i] = Step(f, i)
        BY <2>1, <4>1
      <4> HIDE DEF g
      <4> QED
        BY <4>2, <4>3
    <3> QED
      BY <3>1, <3>2
  <2>4. g = [i \in 0..m + 1 |-> g[i]]
    OBVIOUS
  <2> HIDE DEF g, Step
  <2>5. g = [i \in 0..m + 1 |-> Step(g, i)]
    BY <2>3, <2>4
  <2> QED
    BY <2>2, <2>5
<1> HIDE DEF P
<1>3. P = Nat
  BY <1>1, <1>2, AllNaturals DEF P
<1> QED
  BY <1>3 DEF P

\* However often a block is doubled, it keeps what it counts.
LEMMA ExpandedKeeps ==
  ASSUME zero \in Byte, NEW d, NEW u, Filled(d, u), NEW k \in Nat
  PROVE  Filled(expanded(d, k), u) /\ expanded(d, k).sz = d.sz
<1> DEFINE h == CHOOSE f : f = [i \in 0..k |-> IF i = 0 THEN d ELSE expand(f[i - 1])]
<1>1. h = [i \in 0..k |-> IF i = 0 THEN d ELSE expand(h[i - 1])]
  BY Expansions
<1>2. expanded(d, k) = h[k]
  BY DEF expanded
<1> HIDE DEF h
<1> DEFINE P == {m \in Nat : m <= k => Filled(h[m], u) /\ h[m].sz = d.sz}
<1>3. 0 \in P
  BY <1>1
<1>4. ASSUME NEW m \in P PROVE m + 1 \in P
  <2> SUFFICES ASSUME m + 1 <= k PROVE Filled(h[m + 1], u) /\ h[m + 1].sz = d.sz
    OBVIOUS
  <2>1. m \in Nat /\ m <= k /\ m + 1 \in 0..k /\ m + 1 # 0 /\ m + 1 - 1 = m
    OBVIOUS
  <2>2. h[m + 1] = expand(h[m])
    BY <1>1, <2>1
  <2> QED
    BY <2>1, <2>2, ExpandKeeps
<1> HIDE DEF P
<1>5. P = Nat
  BY <1>3, <1>4, AllNaturals DEF P
<1>6. k \in P /\ k <= k
  BY <1>5
<1> QED
  BY <1>2, <1>6 DEF P

\* The number of doublings is one that is enough.
LEMMA LeastIsEnough ==
  ASSUME NEW K, K \subseteq Nat, NEW k \in Least(K)
  PROVE  k \in K
<1>1. K # {} /\ k = Min(K)
  BY DEF Least
<1>2. PICK x \in K : \A y \in K : x <= y
  BY <1>1, LeastNatural
<1> QED
  BY <1>1, <1>2 DEF Min

\* A text that is printed into a block that has room for it and its zero is behind
\* what the block has held.
LEMMA PrintKeeps ==
  ASSUME zero \in Byte, NEW d, NEW u \in Seq(Byte), Filled(d, Append(u, zero)),
         NEW t \in Seq(Byte), Fits(d, Len(t))
  PROVE  Filled([vsnprintf(d, t) EXCEPT !.sz = @ + Len(t)], Append(u \o t, zero))
<1>1. /\ d = [limit |-> d.limit, sz |-> d.sz, b |-> d.b]
      /\ d.limit \in Nat \ {0} /\ d.sz \in 0..d.limit /\ d.b \in Seq(Byte) /\ Len(d.b) = d.limit
      /\ Len(u) + 1 = d.sz
      /\ \A i \in 1..d.sz : d.b[i] = Append(u, zero)[i]
  BY DEF Filled
<1>2. Len(t) \in Nat /\ Len(u) \in Nat /\ Len(t) < d.limit - d.sz /\ d.sz - 1 = Len(u)
  BY <1>1 DEF Fits, freesz
<1> DEFINE z == Append(t, zero)
           w == Write(d.b, Len(u), z)
           e == [limit |-> d.limit, sz |-> d.sz + Len(t), b |-> w]
           v == Append(u \o t, zero)
<1>3. [vsnprintf(d, t) EXCEPT !.sz = @ + Len(t)] = e
  <2>1. freesz(d) # 0 /\ ptr(d) = Len(u)
    BY <1>1, <1>2 DEF freesz, ptr
  <2>2. Min({Len(t), freesz(d) - 1}) = Len(t)
    <3>1. Len(t) <= freesz(d) - 1 /\ freesz(d) - 1 \in Int
      BY <1>1, <1>2 DEF freesz
    <3> DEFINE K == {Len(t), freesz(d) - 1}
    <3>2. Len(t) \in K /\ \A y \in K : Len(t) <= y
      BY <1>2, <3>1
    <3>3. Min(K) \in K /\ \A y \in K : Min(K) <= y
      BY <3>2 DEF Min
    <3> QED
      BY <1>2, <3>1, <3>2, <3>3
  <2>3. SubSeq(t, 1, Len(t)) = t /\ t \o <<zero>> = z
    BY SubSeqFull
  <2>4. vsnprintf(d, t) = [d EXCEPT !.b = w]
    BY <2>1, <2>2, <2>3 DEF vsnprintf
  <2> HIDE DEF w
  <2>5. vsnprintf(d, t) = [limit |-> d.limit, sz |-> d.sz, b |-> w]
    BY <1>1, <2>4
  <2> QED
    BY <2>5
<1>4. /\ z \in Seq(Byte) /\ Len(z) = Len(t) + 1 /\ z[Len(t) + 1] = zero
      /\ \A i \in 1..Len(t) : z[i] = t[i]
  BY <1>2
<1>5. /\ w \in Seq(Byte) /\ Len(w) = d.limit
      /\ \A i \in 1..Len(u) : w[i] = d.b[i]
      /\ \A i \in 1..Len(t) + 1 : w[Len(u) + i] = z[i]
  <2>1. d.b \in Seq(Byte) /\ Len(u) \in Nat /\ z \in Seq(Byte) /\ Len(u) + Len(z) <= Len(d.b)
    BY <1>1, <1>2, <1>4
  <2> HIDE DEF z, e, v
  <2>2. /\ w \in Seq(Byte) /\ Len(w) = Len(d.b)
        /\ \A i \in 1..Len(u) : w[i] = d.b[i]
        /\ \A i \in 1..Len(z) : w[Len(u) + i] = z[i]
    BY <2>1, Written
  <2> HIDE DEF w
  <2> QED
    BY <1>1, <1>4, <2>2
<1>6. /\ v \in Seq(Byte) /\ Len(v) = Len(u) + Len(t) + 1 /\ v[Len(u) + Len(t) + 1] = zero
      /\ \A i \in 1..Len(u) : v[i] = u[i]
      /\ \A i \in 1..Len(t) : v[Len(u) + i] = t[i]
  <2>1. /\ u \o t \in Seq(Byte) /\ Len(u \o t) = Len(u) + Len(t)
        /\ \A i \in 1..Len(u) : (u \o t)[i] = u[i]
        /\ \A i \in 1..Len(t) : (u \o t)[Len(u) + i] = t[i]
    BY <1>2
  <2> DEFINE x == u \o t
  <2> HIDE DEF x
  <2>2. /\ v \in Seq(Byte) /\ Len(v) = Len(x) + 1 /\ v[Len(x) + 1] = zero
        /\ \A i \in 1..Len(x) : v[i] = x[i]
    BY <2>1 DEF x
  <2>3. /\ \A i \in 1..Len(u) : i \in 1..Len(u) + Len(t)
        /\ \A i \in 1..Len(t) : Len(u) + i \in 1..Len(u) + Len(t)
    BY <1>2
  <2> HIDE DEF v
  <2> QED
    BY <2>1, <2>2, <2>3 DEF x
<1> HIDE DEF w, z, v
<1>7. ASSUME NEW i \in 1..d.sz + Len(t) PROVE w[i] = v[i]
  <2>1. CASE i \in 1..Len(u)
    <3>1. Append(u, zero)[i] = u[i] /\ i \in 1..d.sz
      BY <1>1, <1>2, <2>1
    <3> QED
      BY <1>1, <1>5, <1>6, <2>1, <3>1
  <2>2. CASE ~ (i \in 1..Len(u))
    <3>1. PICK j \in 1..Len(t) + 1 : i = Len(u) + j
      <4>1. i \in Nat /\ i <= Len(u) + 1 + Len(t) /\ i > Len(u)
        <5>1. d.sz + Len(t) = Len(u) + 1 + Len(t) /\ d.sz \in Nat
          BY <1>1, <1>2
        <5>2. i \in 1..Len(u) + 1 + Len(t)
          BY <5>1
        <5> QED
          BY <1>2, <2>2, <5>2
      <4>2. i - Len(u) \in 1..Len(t) + 1 /\ i = Len(u) + (i - Len(u))
        BY <1>2, <4>1
      <4> QED
        BY <4>2
    <3>2. w[i] = z[j]
      BY <1>5, <3>1
    <3>3. CASE j \in 1..Len(t)
      BY <1>4, <1>6, <3>1, <3>2, <3>3
    <3>4. CASE j = Len(t) + 1
      <4>1. i = Len(u) + Len(t) + 1
        BY <1>2, <3>1, <3>4
      <4> QED
        BY <1>4, <1>6, <3>2, <3>4, <4>1
    <3> QED
      BY <1>2, <3>1, <3>3, <3>4
  <2> QED
    BY <2>1, <2>2
<1>8. d.sz + Len(t) \in 0..d.limit /\ Len(v) = d.sz + Len(t)
  <2>1. d.sz \in Nat /\ d.limit \in Nat /\ Len(t) < d.limit - d.sz /\ Len(u) + 1 = d.sz
    BY <1>1, <1>2
  <2> QED
    BY <1>2, <1>6, <2>1
<1>9. e.limit = d.limit /\ e.sz = d.sz + Len(t) /\ e.b = w
  OBVIOUS
<1>10. e = [limit |-> e.limit, sz |-> e.sz, b |-> e.b]
  BY <1>9
<1> HIDE DEF e
<1>11. Filled(e, v)
  BY <1>1, <1>5, <1>6, <1>7, <1>8, <1>9, <1>10 DEF Filled
<1> QED
  BY <1>3, <1>11 DEF v

\* A text that is printed once there is room for it: at once, or after some doublings.
LEMMA PrintedText ==
  ASSUME zero \in Byte, MaxBlock \in Nat, BuffersInv, NEW t \in Seq(Byte), NEW D, D \subseteq Doublings(dynb),
         NEW k \in Least({i \in D : Fits(expanded(dynb, i), Len(t))}),
         dynb' = [vsnprintf(expanded(dynb, k), t) EXCEPT !.sz = @ + Len(t)],
         text' = text \o t
  PROVE  BuffersInv'
<1> DEFINE K == {i \in D : Fits(expanded(dynb, i), Len(t))}
<1>1. K \subseteq Nat
  BY DEF Doublings
<1>2. k \in K /\ k \in Nat
  <2> HIDE DEF K
  <2>1. k \in K
    BY <1>1, LeastIsEnough DEF K
  <2> QED
    BY <1>1, <2>1
<1>3. Fits(expanded(dynb, k), Len(t))
  BY <1>2
<1> HIDE DEF K
<1>4. text \in Seq(Byte) /\ Filled(dynb, Append(text, zero))
  BY DEF BuffersInv
<1>5. Filled(expanded(dynb, k), Append(text, zero))
  BY <1>2, <1>4, ExpandedKeeps
<1>6. Filled([vsnprintf(expanded(dynb, k), t) EXCEPT !.sz = @ + Len(t)], Append(text \o t, zero))
  BY <1>3, <1>4, <1>5, PrintKeeps
<1>7. text' \in Seq(Byte)
  BY <1>4
<1>8. Filled(dynb', Append(text', zero))
  BY <1>6
<1> QED
  BY <1>7, <1>8 DEF BuffersInv, Filled

\* Bytes that are copied behind what a block counts, when there is room for them.
LEMMA CopiedBytes ==
  ASSUME NEW d, NEW u \in Seq(Byte), Filled(d, u), NEW s \in Seq(Byte), Secured(d, Len(s))
  PROVE  Filled([d EXCEPT !.b = Write(d.b, d.sz, s), !.sz = @ + Len(s)], u \o s)
<1>1. /\ d = [limit |-> d.limit, sz |-> d.sz, b |-> d.b]
      /\ d.limit \in Nat \ {0} /\ d.sz \in 0..d.limit /\ d.b \in Seq(Byte) /\ Len(d.b) = d.limit
      /\ Len(u) = d.sz
      /\ \A i \in 1..d.sz : d.b[i] = u[i]
  BY DEF Filled
<1>2. PICK o \in Nat : o = d.sz
  BY <1>1
<1>3. Len(s) \in Nat /\ o + Len(s) <= d.limit /\ Len(u) = o /\ d.limit \in Nat \ {0}
  BY <1>1, <1>2 DEF Secured, freesz
<1> DEFINE w == Write(d.b, o, s)
<1>4. /\ w \in Seq(Byte) /\ Len(w) = d.limit
      /\ \A i \in 1..o : w[i] = d.b[i]
      /\ \A i \in 1..Len(s) : w[o + i] = s[i]
  <2>1. d.b \in Seq(Byte) /\ o + Len(s) <= Len(d.b) /\ Len(d.b) = d.limit
    BY <1>1, <1>3
  <2> QED
    BY <2>1, Written
<1> HIDE DEF w
<1>5. /\ u \o s \in Seq(Byte) /\ Len(u \o s) = o + Len(s)
      /\ \A i \in 1..o : (u \o s)[i] = u[i]
      /\ \A i \in 1..Len(s) : (u \o s)[o + i] = s[i]
  <2>1. Len(u) = o
    BY <1>3
  <2>2. /\ u \o s \in Seq(Byte) /\ Len(u \o s) = Len(u) + Len(s)
        /\ \A i \in 1..Len(u) : (u \o s)[i] = u[i]
        /\ \A i \in 1..Len(s) : (u \o s)[Len(u) + i] = s[i]
    OBVIOUS
  <2> QED
    BY <2>1, <2>2
<1> DEFINE v == u \o s
<1> HIDE DEF v
<1>6. ASSUME NEW i \in 1..o + Len(s) PROVE w[i] = v[i]
  <2>1. CASE i \in 1..o
    BY <1>1, <1>2, <1>4, <1>5, <2>1 DEF v
  <2>2. CASE ~ (i \in 1..o)
    <3>1. PICK j \in 1..Len(s) : i = o + j
      <4>1. i - o \in 1..Len(s) /\ i = o + (i - o)
        BY <1>3, <2>2
      <4> QED
        BY <4>1
    <3> QED
      BY <1>4, <1>5, <3>1 DEF v
  <2> QED
    BY <2>1, <2>2
<1> DEFINE e == [limit |-> d.limit, sz |-> o + Len(s), b |-> w]
<1>7. [d EXCEPT !.b = Write(d.b, d.sz, s), !.sz = @ + Len(s)] = e
  <2>1. Write(d.b, d.sz, s) = w
    BY <1>2 DEF w
  <2>2. d = [limit |-> d.limit, sz |-> d.sz, b |-> d.b] /\ d.sz = o
    BY <1>1, <1>2
  <2>3. PICK x : x = [d EXCEPT !.b = w, !.sz = @ + Len(s)]
    OBVIOUS
  <2>4. x = e
    BY <2>2, <2>3
  <2> HIDE DEF e
  <2> QED
    BY <2>1, <2>3, <2>4
<1>8. o + Len(s) \in 0..d.limit
  BY <1>3
<1>9. /\ e.limit = d.limit /\ e.sz = o + Len(s) /\ e.b = w
      /\ e = [limit |-> e.limit, sz |-> e.sz, b |-> e.b]
  OBVIOUS
<1> HIDE DEF e
<1>10. Filled(e, v)
  BY <1>3, <1>4, <1>5, <1>6, <1>8, <1>9 DEF Filled, v
<1> QED
  BY <1>7, <1>10 DEF v

\* Bytes copied over the zero of a string (yldynb_append).
LEMMA CopyInKeeps ==
  ASSUME zero \in Byte, MaxBlock \in Nat, BuffersInv, NEW t \in Seq(Byte), CopyIn(t)
  PROVE  BuffersInv'
<1> DEFINE cut == [dynb EXCEPT !.sz = @ - 1]
           data == Append(t, zero)
           K == {i \in Doublings(cut) : Secured(expanded(cut, i), Len(data))}
<1>1. PICK k \in Least(K) :
        /\ dynb' = [expanded(cut, k) EXCEPT
                      !.b = Write(expanded(cut, k).b, expanded(cut, k).sz, data), !.sz = @ + Len(data)]
        /\ text' = text \o t
  BY DEF CopyIn
<1>2. K \subseteq Nat
  BY DEF Doublings
<1>3. k \in K /\ k \in Nat
  <2> HIDE DEF K
  <2>1. k \in K
    BY <1>2, LeastIsEnough
  <2> QED
    BY <1>2, <2>1
<1>4. Secured(expanded(cut, k), Len(data))
  BY <1>3
<1> HIDE DEF K
<1>5. text \in Seq(Byte) /\ Filled(dynb, Append(text, zero))
  BY DEF BuffersInv
<1>6. Filled(cut, text)
  <2>1. /\ dynb = [limit |-> dynb.limit, sz |-> dynb.sz, b |-> dynb.b]
        /\ dynb.limit \in Nat \ {0} /\ dynb.sz \in 0..dynb.limit
        /\ dynb.b \in Seq(Byte) /\ Len(dynb.b) = dynb.limit
        /\ Len(Append(text, zero)) = dynb.sz
        /\ \A i \in 1..dynb.sz : dynb.b[i] = Append(text, zero)[i]
    BY <1>5 DEF Filled
  <2>2. /\ cut.limit = dynb.limit /\ cut.sz = dynb.sz - 1 /\ cut.b = dynb.b
        /\ cut = [limit |-> cut.limit, sz |-> cut.sz, b |-> cut.b]
    BY <2>1
  <2> HIDE DEF cut
  <2>3. Len(text) + 1 = dynb.sz /\ Len(text) \in Nat /\ dynb.sz - 1 = Len(text)
    BY <1>5, <2>1
  <2>4. Len(text) \in 0..dynb.limit
    BY <2>1, <2>3
  <2>5. ASSUME NEW i \in 1..Len(text) PROVE dynb.b[i] = text[i]
    <3>1. i \in 1..dynb.sz
      BY <2>3
    <3>2. Append(text, zero)[i] = text[i]
      BY <1>5
    <3> QED
      BY <2>1, <3>1, <3>2
  <2> QED
    BY <1>5, <2>1, <2>2, <2>3, <2>4, <2>5 DEF Filled
<1> HIDE DEF cut
<1>7. Filled(expanded(cut, k), text)
  BY <1>3, <1>6, ExpandedKeeps
<1>8. data \in Seq(Byte) /\ text \o data = Append(text \o t, zero)
  BY <1>5
<1> HIDE DEF data
<1>9. Filled(dynb', text \o data)
  BY <1>1, <1>4, <1>5, <1>7, <1>8, CopiedBytes
<1>10. text' \in Seq(Byte) /\ Filled(dynb', Append(text', zero))
  BY <1>1, <1>5, <1>8, <1>9
<1> QED
  BY <1>10 DEF BuffersInv, Filled

\* Every step of a buffer keeps its invariant.
LEMMA BuffersInvariance ==
  ASSUME BufferAssumption
  PROVE  BuffersSpec => []BuffersInv
<1>0. zero \in Byte /\ MaxBlock \in Nat /\ MaxText \in Nat
  BY DEF BufferAssumption
<1>1. BuffersInit => BuffersInv
  <2> SUFFICES ASSUME BuffersInit PROVE BuffersInv
    OBVIOUS
  <2>1. PICK n \in BufLimit : dynb = [limit |-> n + 1, sz |-> 1, b |-> Block(n + 1)]
    BY DEF BuffersInit
  <2>2. n \in Nat \ {0} /\ text = <<>>
    BY DEF BuffersInit, BufferAssumption
  <2>3. dynb.limit = n + 1 /\ dynb.sz = 1 /\ dynb.b = [i \in 1..n + 1 |-> zero]
    BY <2>1 DEF Block
  <2>4. n + 1 \in Nat \ {0} /\ 1 \in 0..n + 1 /\ 1 \in 1..n + 1 /\ \A i \in 1..1 : i = 1
    BY <2>2
  <2>5. dynb.b \in Seq(Byte) /\ Len(dynb.b) = dynb.limit /\ \A i \in 1..1 : dynb.b[i] = zero
    BY <1>0, <2>3, <2>4
  <2>6. Append(text, zero) = <<zero>> /\ <<zero>> \in Seq(Byte) /\ Len(<<zero>>) = 1 /\ <<zero>>[1] = zero
    BY <1>0, <2>2
  <2>7. Filled(dynb, <<zero>>)
    BY <2>1, <2>3, <2>4, <2>5, <2>6 DEF Filled
  <2> QED
    BY <2>2, <2>6, <2>7 DEF BuffersInv
<1>2. BuffersInv /\ [BuffersNext]_bufvars => BuffersInv'
  <2> SUFFICES ASSUME BuffersInv, [BuffersNext]_bufvars PROVE BuffersInv'
    OBVIOUS
  <2>1. Texts \subseteq Seq(Byte)
    <3> SUFFICES ASSUME NEW t \in Texts PROVE t \in Seq(Byte)
      OBVIOUS
    <3>1. PICK n \in 0..MaxText : t \in [1..n -> Byte \ {zero}]
      BY DEF Texts
    <3> QED
      BY <1>0, <3>1
  <2>2. text \in Seq(Byte) /\ Filled(dynb, Append(text, zero))
    BY DEF BuffersInv
  <2>3. ASSUME NEW t \in Texts, Append_(t) PROVE BuffersInv'
    <3>1. PICK k \in Least({i \in Doublings(dynb) : Fits(expanded(dynb, i), Len(t))}) :
            /\ dynb' = [vsnprintf(expanded(dynb, k), t) EXCEPT !.sz = @ + Len(t)]
            /\ text' = text \o t
      BY <2>3 DEF Append_
    <3> DEFINE D == Doublings(dynb)
    <3>2. D \subseteq Doublings(dynb) /\ t \in Seq(Byte)
      BY <2>1, <2>3
    <3> QED
      BY <1>0, <3>1, <3>2, PrintedText
  <2>4. ASSUME NEW t \in Texts, NEW any \in Texts, AppendAgain(t, any) PROVE BuffersInv'
    <3>1. PICK k \in Least({i \in Doublings(dynb) \ {0} : Fits(expanded(dynb, i), Len(any))}) :
            /\ dynb' = [vsnprintf(expanded(dynb, k), any) EXCEPT !.sz = @ + Len(any)]
            /\ text' = text \o any
      BY <2>4 DEF AppendAgain
    <3>2. Doublings(dynb) \ {0} \subseteq Doublings(dynb) /\ any \in Seq(Byte)
      BY <2>1, <2>4
    <3> QED
      BY <1>0, <3>1, <3>2, PrintedText
  <2>5. ASSUME NEW t \in Texts, CopyIn(t) PROVE BuffersInv'
    BY <1>0, <2>1, <2>5, CopyInKeeps
  <2>6. ASSUME NEW to \in 1..MaxBlock, Shrink(to) PROVE BuffersInv'
    <3>1. to \in Nat \ {0}
      BY <1>0, <2>6
    <3>2. dynb.sz <= to
      BY <2>2, <2>6, <3>1 DEF Shrink, MayShrink, Filled
    <3>3. Filled(dynb', Append(text, zero)) /\ text' = text
      BY <1>0, <2>2, <2>6, <3>1, <3>2, CopyKeeps DEF Shrink
    <3> QED
      BY <2>2, <3>3 DEF BuffersInv, Filled
  <2>7. CASE Reset
    <3>1. /\ dynb = [limit |-> dynb.limit, sz |-> dynb.sz, b |-> dynb.b]
          /\ dynb.limit \in Nat \ {0} /\ dynb.b \in Seq(Byte) /\ Len(dynb.b) = dynb.limit
      BY <2>2 DEF Filled
    <3>2. /\ dynb' = [limit |-> dynb'.limit, sz |-> dynb'.sz, b |-> dynb'.b]
          /\ dynb'.limit = dynb.limit /\ dynb'.sz = 1 /\ dynb'.b = [dynb.b EXCEPT ![1] = zero]
          /\ text' = <<>>
      BY <2>7, <3>1 DEF Reset
    <3>3. 1 \in 1..dynb.limit /\ 1 \in 0..dynb.limit /\ \A i \in 1..1 : i = 1
      BY <3>1
    <3>4. dynb'.b \in Seq(Byte) /\ Len(dynb'.b) = dynb'.limit /\ \A i \in 1..1 : dynb'.b[i] = zero
      BY <1>0, <3>1, <3>2, <3>3
    <3>5. Append(text', zero) = <<zero>> /\ <<zero>> \in Seq(Byte) /\ Len(<<zero>>) = 1 /\ <<zero>>[1] = zero
      BY <1>0, <3>2
    <3>6. Filled(dynb', <<zero>>)
      BY <3>1, <3>2, <3>3, <3>4, <3>5 DEF Filled
    <3> QED
      BY <3>2, <3>5, <3>6 DEF BuffersInv, Filled
  <2>8. CASE UNCHANGED bufvars
    BY <2>2, <2>8 DEF bufvars, BuffersInv, Filled
  <2> QED
    BY <2>3, <2>4, <2>5, <2>6, <2>7, <2>8 DEF BuffersNext
<1> QED
  BY <1>1, <1>2, PTL DEF BuffersSpec

\* A stack and a string buffer keep what was put into them while their blocks are doubled,
\* shrunk and rewritten, and stay inside of the blocks (stack.h:93-125, ut.c:111-141).
THEOREM GrowingKeeps ==
  ASSUME GrowingAssumption
  PROVE  StackSpec /\ BuffersSpec => []ContentsKept
<1>1. BuffersInv => InsideBlock /\ HoldsText
  <2> SUFFICES ASSUME BuffersInv PROVE InsideBlock /\ HoldsText
    OBVIOUS
  <2>1. text \in Seq(Byte) /\ Filled(dynb, Append(text, zero))
    BY DEF BuffersInv
  <2>2. Len(dynb.b) = dynb.limit /\ SubSeq(dynb.b, 1, dynb.sz) = Append(text, zero)
    BY <2>1, FilledPart
  <2>3. dynb.sz = Len(text) + 1 /\ dynb.limit \in Nat /\ dynb.sz \in 0..dynb.limit /\ Len(text) \in Nat
    BY <2>1 DEF Filled
  <2> QED
    BY <2>2, <2>3 DEF InsideBlock, HoldsText
<1>2. StackAssumption /\ BufferAssumption
  BY DEF GrowingAssumption
<1>3. StackSpec => []StackKeeps
  BY <1>2, StackOrder
<1>4. BuffersSpec => []BuffersInv
  BY <1>2, BuffersInvariance
<1>5. StackKeeps /\ BuffersInv => ContentsKept
  BY <1>1 DEF ContentsKept
<1> QED
  BY <1>3, <1>4, <1>5, PTL

===========================================================================
