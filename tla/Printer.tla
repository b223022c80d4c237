------------------------------ MODULE Printer ------------------------------
(* Printing of an expression (src/ylisp/lisp.c), which may be cyclic, or    *)
(* garbage with empty pairs: map, a trie of addresses, holds the pairs that *)
(* are being printed.  The text is a sequence of words.                     *)
EXTENDS Naturals, Sequences, FiniteSets

CONSTANTS Cell, Atom, PNULL      \* pairs, atoms, the empty address

pnil == "NIL"
Report == "!CYCLE"               \* "!CYCLE DETECTED!"
Words == Atom \cup {"NULL", "space", ".", "(", ")", Report}
CarCdr == Cell \cup Atom \cup {PNULL}

\* There is something to print, and no atom prints like the report.
ASSUME PrinterAssumption ==
  /\ IsFiniteSet(Cell) /\ Cell # {}
  /\ Cell \cap Atom = {} /\ PNULL \notin Cell \cup Atom
  /\ pnil \in Atom /\ Report \notin Atom

VARIABLES heap, printed

prvars == <<heap, printed>>

Garbage == [car |-> PNULL, cdr |-> PNULL]
isAtom(x) == x \in Atom

PrinterInit == heap = [c \in Cell |-> Garbage] /\ printed = << >>

\* Wrong versions of the definitions below: a pair that was found in map is
\* deleted too; pairs are never looked for; the rest of a list is not set off.
ForgetFound(map, added, x) == map \ {x}
FoundNever(map, x) == FALSE
Unseparated == << >>

\* What yltrie_insert says of a pair, and what is put before a list's rest.
Found(map, x) == x \in map
Separator == <<"space">>

\* What a pair added to map is deleted from it; what was found there stays.
Forget(map, added, x) == IF added THEN map \ {x} ELSE map

\* One half of a pair: out is its text, map what map becomes.  below prints a
\* pair one level deeper on the host's stack.
Word(ws, map) == [out |-> ws, map |-> map, added |-> FALSE, ok |-> TRUE]
Half(below, x, map, before, after) ==
  IF Found(map, x) THEN Word(<<Report>>, map)
  ELSE LET r == below[x][map \cup {x}]
       IN  [out |-> before \o r.out \o after, map |-> r.map, added |-> TRUE, ok |-> r.ok]
First(below, x, map) ==
  IF x = PNULL THEN Word(<<"NULL", "space">>, map)
  ELSE IF isAtom(x) THEN Word(<<x>>, map)
  ELSE Half(below, x, map, <<"(">>, <<")">>)
Rest(below, y, map) ==
  IF y = PNULL THEN Word(<<"NULL">>, map)
  ELSE IF y = pnil THEN Word(<< >>, map)
  ELSE IF isAtom(y) THEN Word(<<".", y>>, map)
  ELSE Half(below, y, map, Separator, << >>)
Both(below, e, map) ==
  LET first == First(below, heap[e].car, map)
      rest  == Rest(below, heap[e].cdr, first.map)
  IN  [out |-> first.out \o rest.out, ok |-> first.ok /\ rest.ok,
       map |-> Forget(Forget(rest.map, first.added, heap[e].car), rest.added, heap[e].cdr)]

\* A pair, on a stack of the host that has room for so many calls.
Deepest == Cardinality(Cell) + 1
TooDeep == [e \in Cell |-> [map \in SUBSET Cell |-> [out |-> << >>, ok |-> FALSE, map |-> map]]]
eprint[depth \in 0 .. Deepest] ==
  IF depth = 0 THEN TooDeep
  ELSE [e \in Cell |-> [map \in SUBSET Cell |-> Both(eprint[depth - 1], e, map)]]

ylechain_print(e) == 
  IF isAtom(e) THEN [out |-> <<e>>, map |-> {}, ok |-> TRUE]
  ELSE [eprint[Deepest][e][{}] EXCEPT !.out = <<"(">> \o @ \o <<")">>]

Root == CHOOSE c \in Cell : TRUE
PrintHeap(h) == heap' = h /\ printed' = << >>
PrintRoot ==
  /\ printed = << >>
  /\ printed' = ylechain_print(Root).out
  /\ UNCHANGED heap
PrinterNext ==
  \/ PrintRoot
  \/ /\ printed = << >> /\ heap = [c \in Cell |-> Garbage]
     /\ \E h \in [Cell -> [car : CarCdr, cdr : CarCdr]] : PrintHeap(h)

PrinterSpec == PrinterInit /\ [][PrinterNext]_prvars

----------------------------------------------------------------------------
\* The pairs that can be reached: the smallest set with the pairs of its pairs.
Kids(c) == {heap[c].car, heap[c].cdr} \cap Cell
Closed(T) == \A c \in T : Kids(c) \subseteq T
Reach(S) == {c \in Cell : \A T \in SUBSET Cell : S \subseteq T /\ Closed(T) => c \in T}
Cyclic == \E c \in Reach({Root}) : c \in Reach(Kids(c))
\* No pair is reached in two ways.
IsTree ==
  /\ ~Cyclic
  /\ \A p \in Reach({Root}) : heap[p].car \in Cell => heap[p].car # heap[p].cdr
  /\ \A p, q \in Reach({Root}) : p # q => Kids(p) \cap Kids(q) = {}

Reports(words) == \E i \in DOMAIN words : words[i] = Report

\* Printing ends, however the pairs refer to each other: its recursion is
\* never deeper than the pairs there are, and map is empty again behind it,
\* so that a pair can be printed in two places (lisp.c:484-486, 548-556).
PrintEnds ==
  printed # << >> => ylechain_print(Root).ok /\ ylechain_print(Root).map = {}

\* A cycle is always reported, and in an expression without shared pairs
\* nothing else is (lisp.c:501-512, 530-540).
CycleReported ==
  printed # << >> => (Cyclic => Reports(printed)) /\ (IsTree => ~Reports(printed))

\* Printing ends, whatever the pairs refer to; cycles are reported, trees are
\* not (lisp.c:476-577).
PrintsEverything == PrintEnds /\ CycleReported

\* The inductive invariant of the proof in TextProofs.
PrinterInv ==
  /\ heap \in [Cell -> [car : CarCdr, cdr : CarCdr]]
  /\ printed # << >> => printed = ylechain_print(Root).out
============================================================================
