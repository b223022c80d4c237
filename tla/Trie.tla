-------------------------------- MODULE Trie --------------------------------
(***************************************************************************)
(* The trie behind every symbol table (src/ylisp/trie.c).  A character     *)
(* takes two nodes, one per four bits: a front node and a back node.  A    *)
(* node is named by its path from the root, a sequence of nibbles; the root *)
(* is << >>, and only back nodes, at even depth, hold values.              *)
(*                                                                         *)
(* Insertion, deletion with its clean-up of empty leaves, and the search    *)
(* for completions are the operations; AutoComp builds on the last.        *)
(***************************************************************************)
EXTENDS Naturals, Sequences, FiniteSets, SequencesExt, FiniteSetsExt

CONSTANTS
  Key,                \* the keys that are used, as sequences of nibbles
  Value,
  NoValue,            \* a NULL value pointer
  MaxKeyLen           \* longest key, in nibbles (_MAX_KEY_LEN)

ASSUME KeyAssumption ==
  /\ NoValue \notin Value
  /\ \A k \in Key : k \in Seq(Nat) /\ Len(k) % 2 = 0 /\ Len(k) > 0

VARIABLE node         \* path -> value, for the nodes that are allocated

Init == node = [p \in {<< >>} |-> NoValue]

---------------------------------------------------------------------------
Children(p) == {q \in DOMAIN node : Len(q) = Len(p) + 1 /\ IsPrefix(p, q)}
Upto(p, i)  == SubSeq(p, 1, i)
Even(p)     == Len(p) % 2 = 0

\* yltrie_get.
Get(k) == IF k \in DOMAIN node THEN node[k] ELSE NoValue

\* yltrie_walk: the keys at or below p that hold a value, what the walk
\* callback gets being what follows p.
Below(p)   == {q \in DOMAIN node : IsPrefix(p, q) /\ node[q] # NoValue}
Suffix(p, q) == SubSeq(q, Len(p) + 1, Len(q))
Walk(p)    == {Suffix(p, q) : q \in Below(p)}

\* Children are visited in the order of their nibble, a node before its children.
Before(s, t) ==
  \/ IsStrictPrefix(s, t)
  \/ \E i \in 1 .. Min({Len(s), Len(t)}) :
       /\ Upto(s, i - 1) = Upto(t, i - 1)
       /\ s[i] < t[i]

---------------------------------------------------------------------------
\* Wrong versions of the operations below.  They are no part of the model:
\* PROJECT.json names, for each, the property that tells it from the code.
PrunedLeafOnly(k) ==      \* the climb ends at the node of the key
  IF Children(k) = {} THEN {k} ELSE {}

PrunedAlways(k) == {k}    \* the node of the key goes, children or not

HoldsUpByChildren(k, i) ==   \* the value of a node on the way is not looked at
  i = 0 \/ Children(Upto(k, i)) \ {Upto(k, i + 1)} # {}

StopsAtFork(p) ==         \* a node with one child is passed, value or not
  Cardinality(Children(p)) # 1

---------------------------------------------------------------------------
\* _get_node: the nodes on the way to the key.
Path(k) == {Upto(k, i) : i \in 1 .. Len(k)}

\* yltrie_insert: the missing nodes of the path are created, the value is set;
\* a NULL value, an empty key or one that is too long is refused.
Insert(k, v) ==
  /\ v # NoValue /\ Len(k) > 0 /\ Len(k) < MaxKeyLen
  /\ node' = [p \in DOMAIN node \cup Path(k) |->
                IF p = k THEN v
                ELSE IF p \in DOMAIN node THEN node[p] ELSE NoValue]

\* _delete_key takes the value away and climbs as long as _delete_empty_leaf
\* finds a node without value and without children.  The climb stops for good
\* at the first node on the path that has either, or at the root.
HoldsUp(k, i) ==
  \/ i = 0
  \/ i < Len(k) /\ node[Upto(k, i)] # NoValue
  \/ Children(Upto(k, i)) \ {Upto(k, i + 1)} # {}

Pruned(k) ==
  LET stop == Max({i \in 0 .. Len(k) :
                     IF i = Len(k) THEN Children(k) # {} ELSE HoldsUp(k, i)})
  IN  {Upto(k, i) : i \in (stop + 1) .. Len(k)}

Delete(k) ==
  /\ Get(k) # NoValue
  /\ node' = [p \in DOMAIN node \ Pruned(k) |-> IF p = k THEN NoValue ELSE node[p]]

\* yltrie_clean.
Clean == node' = [p \in {<< >>} |-> NoValue]

Next == Clean \/ \E k \in Key : Delete(k) \/ \E v \in Value : Insert(k, v)

Spec == Init /\ [][Next]_node

---------------------------------------------------------------------------
\* yltrie_auto_complete from the node p: go down while the choice is forced.
\* A back node stops the search if it has a value or several children or none;
\* a front node with several children stops it at the back node before.
Stops(p) == Cardinality(Children(p)) # 1 \/ node[p] # NoValue

\* The one child of p has one child: the next character is forced.
Forced(p) ==
  /\ ~Stops(p)
  /\ \A f \in Children(p) : Cardinality(Children(f)) = 1

\* The back node at which the search from p ends.
Target(p) ==
  CHOOSE q \in DOMAIN node :
    /\ IsPrefix(p, q) /\ Even(q)
    /\ ~Forced(q)
    /\ \A r \in DOMAIN node :
         IsPrefix(p, r) /\ IsPrefix(r, q) /\ Even(r) /\ r # q => Forced(r)

\* A wrong version of AutoComplete: the leaf is not told from a branch.
AlwaysBranch(p) ==
  IF p \notin DOMAIN node THEN [ret |-> "fail", add |-> << >>]
  ELSE [ret |-> "branch", add |-> Suffix(p, Target(p))]

\* What is returned: the characters to add, and whether they end in a leaf.
AutoComplete(p) ==
  IF p \notin DOMAIN node THEN [ret |-> "fail", add |-> << >>]
  ELSE LET q == Target(p)
       IN  [ret |-> IF Children(q) = {} THEN "leaf" ELSE "branch",
            add |-> Suffix(p, q)]

---------------------------------------------------------------------------
\* Every path leads back to the root through allocated nodes.
TypeOK ==
  /\ << >> \in DOMAIN node
  /\ \A p \in DOMAIN node :
       /\ node[p] \in Value \cup {NoValue}
       /\ \A i \in 0 .. Len(p) : Upto(p, i) \in DOMAIN node

\* Only back nodes hold values and no leaf is empty, which the search for
\* completions asserts (trie.c:513, 522, 536): deletion leaves no dead branch.
NoDeadBranch ==
  \A p \in DOMAIN node :
    /\ node[p] # NoValue => Even(p)
    /\ p # << >> /\ Children(p) = {} => node[p] # NoValue

\* A completion is the longest one that commits the user to nothing: it is
\* common to all keys below the prefix, whole characters, and cannot be made
\* longer; "leaf" says that one key is left (trie.c:482-554, cmd.c:45-93).
CommonTo(p, s) == \A q \in Below(p) : IsPrefix(p \o s, q)
CompletionIsLongest ==
  \A p \in DOMAIN node : p # << >> /\ Even(p) =>
    LET c == AutoComplete(p)
    IN  /\ CommonTo(p, c.add)
        /\ (c.ret = "leaf") = (Cardinality(Below(p)) = 1)
        /\ \A q \in Below(p) :
             LET longer == Upto(q, Len(p) + Len(c.add) + 2)
             IN  Len(q) > Len(p) + Len(c.add)
                   => ~CommonTo(p, Suffix(p, longer)) \/ p \o c.add \in Below(p)

\* The trie is the map its users think it is: deleting one key leaves the
\* others, those on the same branch and those that are its prefixes, alone.
Map == INSTANCE SymbolMap WITH map <- [k \in Key |-> Get(k)]
ImplementsMap == Map!Spec

---------------------------------------------------------------------------
\* The inductive invariant of the proofs in DaemonProofs: nodes are paths, finitely many,
\* and the root holds nothing.
TrieInv ==
  /\ DOMAIN node \subseteq Seq(Nat) /\ IsFiniteSet(DOMAIN node)
  /\ TypeOK /\ NoDeadBranch /\ node[<< >>] = NoValue
=============================================================================
