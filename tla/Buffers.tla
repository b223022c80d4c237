------------------------------ MODULE Buffers ------------------------------
(**************************************************************************)
(* The dynamic buffer, which doubles its block until the data fit and is  *)
(* used for bytes and for strings with their trailing zero                *)
(* (src/ylisp/yldynb.h, ut.c).                                            *)
(**************************************************************************)
EXTENDS Naturals, Sequences, FiniteSets, FiniteSetsExt

CONSTANTS
  Byte, zero,         \* the bytes, zero among them
  BufLimit,           \* limits that buffers are created with
  MaxBlock,           \* bound: nothing grows further
  MaxText             \* bound on the length of one text

BufferAssumption ==
  /\ zero \in Byte /\ BufLimit \subseteq Nat \ {0}
  /\ {MaxBlock, MaxText} \subseteq Nat

VARIABLES
  dynb,               \* limit, sz, and the bytes of the block b
  text,               \* what has been appended, in order
  garbled             \* have arguments been read twice since the last reset?

bufvars == <<dynb, text, garbled>>

\* A new block holds anything; zero stands for it.
Block(n) == [i \in 1..n |-> zero]
Write(b, at, s) == [i \in DOMAIN b |-> IF i \in at + 1..at + Len(s) THEN s[i - at] ELSE b[i]]
freesz(d) == d.limit - d.sz
Texts == UNION {[1..n -> Byte \ {zero}] : n \in 0..MaxText}

\* yldynbstr_init, then yldynbstr_reset.
BuffersInit ==
  /\ \E n \in BufLimit : dynb = [limit |-> n + 1, sz |-> 1, b |-> Block(n + 1)]
  /\ text = <<>> /\ garbled = FALSE

----------------------------------------------------------------------------
\* Wrong versions of the definitions below: the old block is not copied; the
\* text fits when its zero does not; a text is put behind the zero; a
\* buffer is shrunk without a look at what it holds.
ExpandEmpty(d) == [limit |-> d.limit * 2, sz |-> d.sz, b |-> Block(d.limit * 2)]
FitsExactly(d, cw) == cw <= freesz(d)
BehindZero(d) == d.sz
ShrinkAny(d, to) == d.limit > to

\* yldynb_expand: twice the limit, the old bytes copied.
expand(d) == [limit |-> d.limit * 2, sz |-> d.sz,
              b |-> Write(Block(d.limit * 2), 0, SubSeq(d.b, 1, d.sz))]

\* The k-th expansion of d, one after the other.
expanded(d, k) ==
  LET after[i \in 0..k] == IF i = 0 THEN d ELSE expand(after[i - 1]) IN after[k]

\* vsnprintf writes at ptr, over the trailing zero, as much as there is room for,
\* and returns the length of the whole text.  Fits says that it was enough.
Fits(d, cw) == cw < freesz(d)
ptr(d) == d.sz - 1
vsnprintf(d, t) ==
  LET n == Min({Len(t), freesz(d) - 1})
  IN  IF freesz(d) = 0 THEN d
      ELSE [d EXCEPT !.b = Write(d.b, ptr(d), SubSeq(t, 1, n) \o <<zero>>)]

\* How often a buffer can be doubled, MaxBlock being the bound; it is until
\* the data fit, the least number that is enough.
Doublings(d) == {k \in 0..MaxBlock : d.limit * 2 ^ k <= MaxBlock}
Least(K) == IF K = {} THEN {} ELSE {Min(K)}

\* yldynbstr_append and _aprint: write, and if it was cut off, expand and write again.
Append_(t) ==
  \E k \in Least({i \in Doublings(dynb) : Fits(expanded(dynb, i), Len(t))}) :
    /\ dynb' = [vsnprintf(expanded(dynb, k), t) EXCEPT !.sz = @ + Len(t)]
    /\ text' = text \o t /\ UNCHANGED garbled

\* The same with arguments of a format: the rounds after the first one go on with
\* the va_list that the first has used up, and print anything.
AppendAgain(t, any) ==
  /\ ~Fits(dynb, Len(t))
  /\ \E k \in Least({i \in Doublings(dynb) \ {0} : Fits(expanded(dynb, i), Len(any))}) :
       dynb' = [vsnprintf(expanded(dynb, k), any) EXCEPT !.sz = @ + Len(any)]
  /\ text' = text \o any /\ garbled' = (garbled \/ any # t)

\* yldynb_append behind a string's zero, which the caller has taken off
\* (_cb_map_print_walk): the buffer is secured, then the bytes are copied.
Secured(d, n) == n <= freesz(d)
CopyIn(t) ==
  LET cut == [dynb EXCEPT !.sz = @ - 1]
      data == Append(t, zero)
  IN  \E k \in Least({i \in Doublings(cut) : Secured(expanded(cut, i), Len(data))}) :
        LET d == expanded(cut, k)
        IN  /\ dynb' = [d EXCEPT !.b = Write(d.b, d.sz, data), !.sz = @ + Len(data)]
            /\ text' = text \o t /\ UNCHANGED garbled

\* yldynb_shrink.
MayShrink(d, to) == d.limit > to /\ d.sz < to
Shrink(to) ==
  /\ MayShrink(dynb, to)
  /\ dynb' = [limit |-> to, sz |-> dynb.sz, b |-> Write(Block(to), 0, SubSeq(dynb.b, 1, dynb.sz))]
  /\ UNCHANGED <<text, garbled>>

\* yldynbstr_reset.
Reset ==
  /\ dynb' = [dynb EXCEPT !.b[1] = zero, !.sz = 1] /\ text' = <<>> /\ garbled' = FALSE

BuffersNext ==
  \/ \E t \in Texts : Append_(t) \/ CopyIn(t) \/ \E any \in Texts : AppendAgain(t, any)
  \/ \E to \in 1..MaxBlock : Shrink(to)
  \/ Reset

BuffersSpec == BuffersInit /\ [][BuffersNext]_bufvars

----------------------------------------------------------------------------
\* A buffer never counts or writes more bytes than its block has (yldynb.h:129-136).
InsideBlock == dynb.sz \in 1..dynb.limit /\ Len(dynb.b) = dynb.limit

\* However often it has grown, shrunk and been rewritten, a string buffer holds
\* exactly the texts printed into it, and ends with its zero (ut.c:111-141).
HoldsText == SubSeq(dynb.b, 1, dynb.sz) = Append(text, zero)

\* What is printed into it is what was asked for.  This fails: a text that did
\* not fit at first is printed from arguments that have been used up
\* (ut.c:117-131).
NeverGarbled == ~garbled

\* The inductive invariant of the proofs in MemoryProofs.  Filled: what block d counts is
\* the bytes u.
Filled(d, u) ==
  /\ d = [limit |-> d.limit, sz |-> d.sz, b |-> d.b]
  /\ d.limit \in Nat \ {0} /\ d.sz \in 0..d.limit
  /\ d.b \in Seq(Byte) /\ Len(d.b) = d.limit
  /\ u \in Seq(Byte) /\ Len(u) = d.sz
  /\ \A i \in 1..d.sz : d.b[i] = u[i]
BuffersInv == text \in Seq(Byte) /\ Filled(dynb, Append(text, zero))
============================================================================
