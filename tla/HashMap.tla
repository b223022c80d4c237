------------------------------ MODULE HashMap ------------------------------
(*************************************************************************)
(* The hash table (src/ylext/hash.c) behind hash maps: 1 << bits chains, *)
(* a node in the chain that the leading bits of its hash value name, and *)
(* a table that doubles and halves with the number of nodes.  The hash   *)
(* values are given; a chain is a set of nodes.                          *)
(*************************************************************************)
EXTENDS Integers, FiniteSets

CONSTANTS
  HashKey, Value, NoValue,
  HashBits,           \* width of a hash value, 32
  Hv,                 \* key -> its hash value, crc32 in the code
  MinBits, MaxBits    \* _MIN_HBITS, _MAX_HBITS

HashAssumption ==
  /\ NoValue \notin Value
  /\ Hv \in [HashKey -> 0 .. 2^HashBits - 1]
  /\ MinBits \in Nat /\ MaxBits \in Nat /\ HashBits \in Nat
  /\ MinBits <= MaxBits /\ MaxBits <= HashBits

VARIABLES
  chain,              \* map: index -> nodes
  hsz, bits           \* sz, mapbits

hvars == <<chain, hsz, bits>>

Node == [key : HashKey, v : Value]
mapsz(b) == 2^b
index(b, k) == Hv[k] \div 2^(HashBits - b)
Nodes(c) == UNION {c[i] : i \in DOMAIN c}

HashInit ==
  /\ bits = MinBits /\ hsz = 0
  /\ chain = [i \in 0 .. mapsz(MinBits) - 1 |-> {}]

-------------------------------------------------------------------------
\* Wrong versions of the definitions below.  They are no part of the model:
\* PROJECT.json names, for each, the property that tells it from the code.
RehashByOld(c, b, new) ==     \* nodes keep the place they had
  [i \in 0 .. mapsz(new) - 1 |-> IF i \in DOMAIN c THEN c[i] ELSE {}]
AlwaysClamped(new) == MinBits \* the table stays as small as it began
NeverSmaller(s, b) == b       \* a deletion does not shrink the table
FindByHash(c, b, k) ==        \* keys of one hash value are not told apart
  {n \in c[index(b, k)] : Hv[n.key] = Hv[k]}

\* _hmodify: every node moves to the chain of the new table.
Rehash(c, b, new) ==
  [i \in 0 .. mapsz(new) - 1 |-> {n \in Nodes(c) : index(new, n.key) = i}]
Clamp(new) == IF new < MinBits THEN MinBits ELSE IF new > MaxBits THEN MaxBits ELSE new
Modify(c, s, b, new) ==
  LET to == Clamp(new)
  IN  [chain |-> IF to = b THEN c ELSE Rehash(c, b, to), sz |-> s, bits |-> to]

\* _hfind looks in the chain of the key only.
hfind(c, b, k) == {n \in c[index(b, k)] : n.key = k}

\* hash_del: what is left, and the table it is left in.
Shrunk(s, b) == IF s < mapsz(b) \div 4 THEN b - 1 ELSE b
Del(k) ==
  LET f == hfind(chain, bits, k)
      c == [chain EXCEPT ![index(bits, k)] = @ \ f]
      s == hsz - 1
  IN  IF f = {} THEN [chain |-> chain, bits |-> bits, sz |-> hsz]
      ELSE Modify(c, s, bits, Shrunk(s, bits))

\* hash_add deletes the key first, then makes room, then appends the node.
HashAdd(k, v) ==
  LET d == Del(k)
      m == Modify(d.chain, d.sz, d.bits, IF d.sz > mapsz(d.bits) THEN d.bits + 1 ELSE d.bits)
  IN  /\ chain' = [m.chain EXCEPT ![index(m.bits, k)] = @ \cup {[key |-> k, v |-> v]}]
      /\ hsz' = d.sz + 1 /\ bits' = m.bits

HashDel(k) ==
  /\ hfind(chain, bits, k) # {}
  /\ LET d == Del(k) IN chain' = d.chain /\ hsz' = d.sz /\ bits' = d.bits

\* hash_get.
HashGet(k) ==
  IF hfind(chain, bits, k) = {} THEN NoValue ELSE (CHOOSE n \in hfind(chain, bits, k) : TRUE).v

HashNext == \E k \in HashKey : HashDel(k) \/ \E v \in Value : HashAdd(k, v)

HashSpec == HashInit /\ [][HashNext]_hvars

-------------------------------------------------------------------------
\* The table is as large as its bits say, its size is the number of nodes, and
\* every node is in the chain where it is looked for, once: also behind a
\* change of the table's size (hash.c:87-103).
Hashed(c, b) ==
  /\ DOMAIN c = 0 .. mapsz(b) - 1
  /\ \A i \in DOMAIN c : c[i] \subseteq Node /\ \A n \in c[i] : index(b, n.key) = i
  /\ \A m, n \in Nodes(c) : m.key = n.key => m = n
WellHashed ==
  /\ bits \in MinBits .. MaxBits /\ Hashed(chain, bits) /\ hsz = Cardinality(Nodes(chain))

\* The table is neither crowded nor mostly empty, unless it cannot grow or
\* shrink further, although an insertion deletes before it inserts, and may
\* have made the table smaller first (hash.c:190-203, 216-219).
Loaded(s, b) ==
  /\ b < MaxBits => s <= mapsz(b) + 1
  /\ b > MinBits => s >= mapsz(b) \div 4
Load == Loaded(hsz, bits)

\* To its users it is a map from keys to values, also across the changes of its size,
\* with every node on the chain of its hash value and the size that its load asks for
\* (hash.c:52-237).
Finite == INSTANCE SymbolMap WITH Key <- HashKey, map <- [k \in HashKey |-> HashGet(k)]
HashIsMap == Finite!Spec /\ [](WellHashed /\ Load)

-------------------------------------------------------------------------
\* The inductive invariant of the proof in ContainersProofs.
HashInv == WellHashed /\ Load /\ IsFiniteSet(Nodes(chain))
=========================================================================
