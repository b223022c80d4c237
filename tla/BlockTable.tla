---------------------------- MODULE BlockTable ----------------------------
(***************************************************************************)
(* The memory block table of ylisp (src/ylisp/blktbl.h) and the sweep that *)
(* the garbage collector runs over it (src/ylisp/mempool.c, _gc).          *)
(*                                                                         *)
(* The table keeps a permutation fbp of the pool's blocks.  Positions      *)
(* below fbi hold the free blocks, positions from fbi on the used ones, and *)
(* every block remembers its own position in idx, so that a block can be   *)
(* given back in constant time by swapping it with the block at fbi.  The  *)
(* sweep walks the used positions upwards WHILE _mbt_put swaps blocks       *)
(* around under it: whether it still visits each used block once is the    *)
(* question this module is about.                                          *)
(***************************************************************************)
EXTENDS Integers, FiniteSets

CONSTANT Size         \* struct _mbt.sz, the number of blocks of the pool

ASSUME SizeAssumption == Size \in Nat \ {0}

Pos == 0 .. Size - 1  \* indices of fbp, and addresses of blocks in the pool

VARIABLES
  fbp,                \* position -> block       (struct _mbt.fbp)
  idx,                \* block -> position       (struct _mbtblk.i)
  fbi,                \* first used position     (struct _mbt.fbi)
  mark,               \* blocks the marking phase reached (gc mark bits)
  cur,                \* the sweep's loop variable i
  pc                  \* "run": mutators own the table; "sweep": _gc does

vars == <<fbp, idx, fbi, mark, cur, pc>>

---------------------------------------------------------------------------
Free == {fbp[i] : i \in 0 .. fbi - 1}
Used == {fbp[i] : i \in fbi .. Size - 1}

\* _mbt_nr_used_blk
NrUsed == Size - fbi

\* _mbt_create: all blocks free, the i-th block at position i.
Init ==
  /\ fbp = [i \in Pos |-> i]
  /\ idx = [b \in Pos |-> b]
  /\ fbi = Size
  /\ mark = {}
  /\ cur = 0
  /\ pc = "run"

\* Wrong versions of the operations below.  They are no part of the model:
\* PROJECT.json names, for each, the property that tells it from the code.
GetOnEmpty ==         \* without the test of fbi
  /\ pc = "run"
  /\ fbi' = fbi - 1
  /\ UNCHANGED <<fbp, idx, mark, cur, pc>>

GetDuringSweep ==     \* without _mm
  /\ fbi > 0
  /\ fbi' = fbi - 1
  /\ UNCHANGED <<fbp, idx, mark, cur, pc>>

PutForgetsIndex(b) == \* the block that moves up keeps its old position
  /\ idx' = [idx EXCEPT ![b] = fbi]
  /\ fbp' = [fbp EXCEPT ![fbi] = b, ![idx[b]] = fbp[fbi]]
  /\ fbi' = fbi + 1

PutWithoutSwap(b) ==  \* the border moves, the blocks do not
  /\ fbi' = fbi + 1
  /\ UNCHANGED <<fbp, idx>>

---------------------------------------------------------------------------
\* _mbt_get, called by ylmp_block under _mm.  With fbi = 0 it returns NULL
\* and changes nothing.
Get ==
  /\ pc = "run"
  /\ fbi > 0
  /\ fbi' = fbi - 1
  /\ UNCHANGED <<fbp, idx, mark, cur, pc>>

\* _mbt_put: exchange the positions of b and of the first used block, then
\* move the border above b.
Put(b) ==
  LET c == fbp[fbi]
  IN  /\ idx' = [idx EXCEPT ![b] = idx[c], ![c] = idx[b]]
      /\ fbp' = [fbp EXCEPT ![idx[c]] = b, ![idx[b]] = c]
      /\ fbi' = fbi + 1

\* _gc up to the sweep: marks are cleared, the reachable blocks are marked
\* (which ones is the business of the roots, here any subset of the used
\* blocks), and the second _mbt_foreach_used starts at fbi.
StartSweep ==
  /\ pc = "run"
  /\ mark' \in SUBSET Used
  /\ cur' = fbi
  /\ pc' = "sweep"
  /\ UNCHANGED <<fbp, idx, fbi>>

\* One turn of the sweep loop over a block that is to be kept.
Keep ==
  /\ pc = "sweep"
  /\ cur < Size
  /\ fbp[cur] \in mark
  /\ cur' = cur + 1
  /\ UNCHANGED <<fbp, idx, fbi, mark, pc>>

\* One turn of the sweep loop over garbage: _clean_block gives it back.
Reclaim ==
  /\ pc = "sweep"
  /\ cur < Size
  /\ fbp[cur] \notin mark
  /\ Put(fbp[cur])
  /\ cur' = cur + 1
  /\ UNCHANGED <<mark, pc>>

\* The loop ends.  Marks and cur are not read again before they are set.
EndSweep ==
  /\ pc = "sweep"
  /\ cur >= Size
  /\ pc' = "run"
  /\ mark' = {}
  /\ cur' = 0
  /\ UNCHANGED <<fbp, idx, fbi>>

Next == Get \/ StartSweep \/ Keep \/ Reclaim \/ EndSweep

Spec == Init /\ [][Next]_vars

---------------------------------------------------------------------------
\* The arrays hold positions and blocks of the pool, the border and the loop
\* variable at most one past its end (struct _mbt, blktbl.h:79-84).
TypeOK ==
  /\ fbp \in [Pos -> Pos]
  /\ idx \in [Pos -> Pos]
  /\ fbi \in 0 .. Size
  /\ mark \subseteq Pos
  /\ cur \in 0 .. Size
  /\ pc \in {"run", "sweep"}

\* Every block knows its own position and every position holds the block
\* that claims it: the two arrays _mbt_put updates stay inverse to each other.
IndexInverse ==
  \A i \in Pos : /\ idx[fbp[i]] = i
                 /\ fbp[idx[i]] = i

\* While the sweep runs, the border never overtakes the loop variable: the
\* loop never looks at (and never frees again) a block that is already free.
SweepAhead == fbi <= cur

\* What the loop has passed and left in the used part is marked: a block that
\* _mbt_put moved behind the loop variable was not skipped.
SweptAreMarked == \A i \in Pos : fbi <= i /\ i < cur => fbp[i] \in mark

\* No reachable block is among the free ones, at any moment of the sweep.
LiveKept == mark \subseteq Used

\* The three facts that make it safe to walk the used positions of the table
\* while _mbt_put rearranges them (mempool.c:189-193 over blktbl.h:137-150).
SweepInv == pc = "sweep" => SweepAhead /\ SweptAreMarked /\ LiveKept

\* The inductive invariant of the proofs in BlockTableProofs.
IInv == TypeOK /\ IndexInverse /\ SweepInv

\* The table implements the pool: an allocation hands out a block nobody
\* holds, a sweep takes back exactly the garbage and nothing else.
Pool == INSTANCE BlockPool WITH
          Block      <- Pos,
          used       <- Used,
          live       <- mark,
          collecting <- pc = "sweep"

ImplementsPool == Pool!Spec

===========================================================================
