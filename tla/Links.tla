------------------------------- MODULE Links -------------------------------
(**************************************************************************)
(* The linked list that contexts, processes, hash chains and native       *)
(* functions are kept on (src/ylisp/yllist.h): a ring of links through    *)
(* its head, and the loop over it whose body may delete the link it is    *)
(* at.  A link that is not in the list keeps its stale pointers.          *)
(**************************************************************************)
EXTENDS Naturals

CONSTANTS Link, head

LinksAssumption == head \notin Link

VARIABLES
  next, prev,         \* the two pointers of every link and of the head
  linked,             \* the links in the list
  loop                \* a removal-safe loop: pos, n and what has been passed

lkvars == <<next, prev, linked, loop>>

Node == Link \cup {head}
NoLoop == [pos |-> head, n |-> head, on |-> FALSE, seen |-> {}, todo |-> {}]

\* yllist_init_link of the head.
LinksInit ==
  /\ next = [l \in Node |-> l] /\ prev = [l \in Node |-> l]
  /\ linked = {} /\ loop = NoLoop

----------------------------------------------------------------------------
\* Wrong versions of the definitions below: one of the four pointers of an
\* insertion is not set; a deletion mends one side only; the loop reads the
\* next link only when it needs it.
AddHalf(p, n, anew) ==
  /\ next' = [next EXCEPT ![p] = anew, ![anew] = n]
  /\ prev' = [prev EXCEPT ![anew] = p]
DelHalf(p, n) == next' = [next EXCEPT ![p] = n] /\ UNCHANGED prev
FirstOfHead == head

\* yllist_add: anew between p and n, which follow each other.
add(p, n, anew) ==
  /\ next' = [next EXCEPT ![p] = anew, ![anew] = n]
  /\ prev' = [prev EXCEPT ![n] = anew, ![anew] = p]

\* __yllist_del.
del(p, n) == next' = [next EXCEPT ![p] = n] /\ prev' = [prev EXCEPT ![n] = p]

AddNext(l, anew) ==
  /\ ~loop.on /\ anew \in Link \ linked /\ l \in linked \cup {head}
  /\ add(l, next[l], anew)
  /\ linked' = linked \cup {anew} /\ UNCHANGED loop

AddPrev(l, anew) ==
  /\ ~loop.on /\ anew \in Link \ linked /\ l \in linked \cup {head}
  /\ add(prev[l], l, anew)
  /\ linked' = linked \cup {anew} /\ UNCHANGED loop

Del(l) ==
  /\ ~loop.on /\ l \in linked
  /\ del(prev[l], next[l])
  /\ linked' = linked \ {l} /\ UNCHANGED loop

\* yllist_replace: anew takes the place of old.
Replace(old, anew) ==
  /\ ~loop.on /\ old \in linked /\ anew \in Link \ linked
  /\ next' = [next EXCEPT ![anew] = next[old], ![prev[old]] = anew]
  /\ prev' = [prev EXCEPT ![anew] = prev[old], ![next[old]] = anew]
  /\ linked' = (linked \ {old}) \cup {anew} /\ UNCHANGED loop

\* yllist_foreach_item_removal_safe starts behind the head, with n one ahead.
First == next[head]
Loop ==
  /\ ~loop.on
  /\ loop' = [pos |-> First, n |-> next[First], on |-> TRUE, seen |-> {}, todo |-> linked]
  /\ UNCHANGED <<next, prev, linked>>

\* The body, which may delete the link at pos, and the step to the next one.
Body(delete) ==
  /\ loop.on /\ loop.pos # head
  /\ IF delete THEN del(prev[loop.pos], next[loop.pos]) /\ linked' = linked \ {loop.pos}
     ELSE UNCHANGED <<next, prev, linked>>
  /\ loop' = [loop EXCEPT !.pos = loop.n, !.n = next'[loop.n], !.seen = @ \cup {loop.pos}]

Done ==
  /\ loop.on /\ loop.pos = head
  /\ loop' = NoLoop /\ UNCHANGED <<next, prev, linked>>

LinksNext ==
  \/ Loop \/ Done \/ \E d \in BOOLEAN : Body(d)
  \/ \E l \in Node, a \in Link : AddNext(l, a) \/ AddPrev(l, a)
  \/ \E l \in Link : Del(l) \/ \E a \in Link : Replace(l, a)

LinksSpec == LinksInit /\ [][LinksNext]_lkvars

----------------------------------------------------------------------------
\* The ring runs through the head and the links of the list and through nothing
\* else, and its two directions agree: no stale pointer is reached.
Ring ==
  /\ next \in [Node -> Node] /\ prev \in [Node -> Node] /\ linked \subseteq Link
  /\ \A l \in linked \cup {head} :
       /\ next[l] \in linked \cup {head} /\ prev[l] \in linked \cup {head}
       /\ prev[next[l]] = l /\ next[prev[l]] = l

\* A loop passes every link that was in the list when it began, whichever its body
\* has deleted, never stands on a deleted one, and finds the ring whole on its way
\* (yllist.h:50-146).
LoopPassesAll ==
  /\ Ring
  /\ loop.on => /\ loop.pos \in linked \cup {head}
                /\ loop.pos = head => loop.seen = loop.todo

----------------------------------------------------------------------------
\* The inductive invariant of the proofs in MemoryProofs.  The links have ranks that
\* grow from the head on along next, without a gap: the ring is one ring, and what a
\* loop has still to pass is what ranks no lower than the link it is at.
In == linked \cup {head}

Ranked(r) ==
  /\ r[head] = 0 /\ \A l \in linked : r[l] > 0
  /\ \A l, m \in In : r[l] = r[m] => l = m
  /\ \A l \in In : next[l] # head => r[l] < r[next[l]]
  /\ \A l, m \in In : r[l] < r[m] => next[l] # head /\ r[next[l]] <= r[m]

LoopRanked(r) ==
  loop.on =>
    /\ loop.pos \in In
    /\ loop.pos # head => loop.n = next[loop.pos]
    /\ loop.todo = loop.seen \cup {l \in linked : loop.pos # head /\ r[loop.pos] <= r[l]}

LoopType == [pos : Node, n : Node, on : BOOLEAN, seen : SUBSET Link, todo : SUBSET Link]
LinksInv ==
  /\ Ring /\ loop \in LoopType
  /\ \E r \in [Node -> Nat] : Ranked(r) /\ LoopRanked(r)
============================================================================
