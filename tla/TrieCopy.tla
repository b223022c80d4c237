----------------------------- MODULE TrieCopy -----------------------------
(**************************************************************************)
(* What is done with a trie as a whole (src/ylisp/trie.c): the walk over  *)
(* its keys, the comparison of two tries node by node, and the copy of    *)
(* one over the other.  They recurse over nodes; their users mean maps.   *)
(**************************************************************************)
EXTENDS Trie

VARIABLE other        \* a second trie, like node

tcvars == <<node, other>>

O == INSTANCE Trie WITH node <- other

Nibble == UNION {Range(k) : k \in Key}
Child(p, i) == Append(p, i)
Inner(trie, p) == {i \in Nibble : Child(p, i) \in DOMAIN trie}

----------------------------------------------------------------------------
\* Wrong versions of the definitions below: a branch that only the second trie
\* has is passed over; children come before the value of their node; the second
\* trie is not cleaned before the clones are put into it.
FirstDecides(p) == Inner(node, p) \subseteq Inner(other, p)
ValueLast(own, below) == below \o own
Uncleaned == {q \in DOMAIN other \ {<<>>} : q[1] \notin Inner(node, <<>>)}

\* _equal_internal: values, then children, those of both tries by recursion.
SameValue(p) == node[p] = other[p]
SameBranches(p) == Inner(node, p) = Inner(other, p)
RECURSIVE EqualFrom(_)
EqualFrom(p) ==
  /\ SameValue(p) /\ SameBranches(p)
  /\ \A i \in Inner(node, p) \cap Inner(other, p) : EqualFrom(Child(p, i))

\* yltrie_equal.
Equal == EqualFrom(<<>>)

\* _walk_internal: the value of a node, then its children in their order; a
\* path as long as the buffer has no children.  What the callback gets is
\* the path below the node at which the walk began.
Visits(own, below) == own \o below
BufferFull(p) == Len(p) = MaxKeyLen
RECURSIVE WalkFrom(_, _)
WalkFrom(p, rel) ==
  LET own == IF node[p] # NoValue THEN <<[key |-> rel, v |-> node[p]]>> ELSE <<>>
      inner == SetToSortSeq(Inner(node, p), LAMBDA i, j : i < j)
      below == FoldLeft(LAMBDA acc, i : acc \o WalkFrom(Child(p, i), Append(rel, i)), <<>>, inner)
  IN  IF BufferFull(rel) THEN own ELSE Visits(own, below)

\* yltrie_walk with a callback that stops it after n calls.
Walked(p, n) == LET all == WalkFrom(p, <<>>) IN SubSeq(all, 1, Min({n, Len(all)}))

\* yltrie_copy: the second trie is cleaned, then gets clones of the children of
\* the root.
RECURSIVE Clone(_)
Clone(p) ==
  LET below == [i \in Inner(node, p) |-> Clone(Child(p, i))]
      paths == {p} \cup UNION {DOMAIN below[i] : i \in DOMAIN below}
  IN  [q \in paths |-> IF q = p THEN node[p] ELSE below[q[Len(p) + 1]][q]]
Kept == {}
Copy ==
  /\ LET new == Clone(<<>>)
     IN  other' = [q \in DOMAIN new \cup Kept |->
                     IF q = <<>> THEN NoValue ELSE IF q \in Kept THEN other[q] ELSE new[q]]
  /\ UNCHANGED node

TCInit == Init /\ O!Init
TCNext == \/ Copy
          \/ Next   /\ UNCHANGED other
          \/ O!Next /\ UNCHANGED node
TCSpec == TCInit /\ [][TCNext]_tcvars

----------------------------------------------------------------------------
\* Two tries compare equal exactly when they are the same map: no insertion or
\* deletion, in whatever order, leaves a branch that only the comparison
\* would see (trie.c:248-267).
MapOf(trie) == [k \in Key |-> IF k \in DOMAIN trie THEN trie[k] ELSE NoValue]
EqualMeansSameMap == Equal <=> MapOf(node) = MapOf(other)

\* A walk that may call back n times gives the first n of the keys below its
\* start, sorted, with their values (trie.c:287-341, symlookup.c:196-275).
WalkInOrder ==
  \A p \in DOMAIN node : Even(p) => \A n \in 1..Cardinality(Key) :
    LET keys == SetToSortSeq(Walk(p), Before)
    IN  Walked(p, n) = [i \in 1..Min({n, Len(keys)}) |-> [key |-> keys[i], v |-> node[p \o keys[i]]]]

\* A copy is equal to its original, and nothing of the old contents stays
\* (trie.c:459-479).
CopyIsEqual == [][Copy => Equal' /\ MapOf(other)' = MapOf(node)]_tcvars
=============================================================================
