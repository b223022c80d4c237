-------------------------------- MODULE Maps -------------------------------
(**************************************************************************)
(* Maps (src/ylext/nfunc_map.c), which are tries or hash tables behind    *)
(* one interface (_amapif) and one read-write lock each.  A table is what *)
(* Trie and HashMap implement, a partial function.  Values are maps, too; *)
(* in the programs here no map is, through its values, inside itself.     *)
(**************************************************************************)
EXTENDS RwLocks, FiniteSets

CONSTANTS
  Map, Key,
  Val,                \* blocks of other values
  Kind,               \* Kind[m] : "trie" or "hash"
  Refused,            \* keys that a trie does not take
  Depth,              \* Depth[m] : m may hold maps of a smaller depth
  MaxPairs,           \* bound on the initial pairs of a map
  MapPrograms         \* a program : what each thread calls, binding being "make", too

MapsAssumption ==
  /\ Kind \in [Map -> {"trie", "hash"}] /\ Refused \subseteq Key /\ Map \cap Val = {}
  /\ {} \notin Val \cup Map /\ MaxPairs \in Nat /\ Depth \in [Map -> Nat]
  /\ MapPrograms \subseteq [Thread -> SUBSET {"make", "insert", "delete", "get", "print", "eq"}]

VARIABLES
  table,              \* table[m] : what a map maps
  malive,             \* blocks in use
  mroot,              \* maps bound to symbols
  bbs,                \* base blocks
  mheld,              \* locks, see RwLocks
  mcall,              \* what each thread is executing
  mdoes               \* the program

mapvars == <<table, malive, mroot, bbs, mheld, mcall, mdoes>>

Nothing == [k \in {} |-> {}]
ValuesOf(m) == {table[m][k] : k \in DOMAIN table[m]}
Held(S) == UNION {ValuesOf(m) : m \in S \cap Map}

\* S, the maps inside maps of S, and the values of all of them.
Complete(C) == Held(C) \cap Map \subseteq C
Nested(S) == {m \in Map : \A D \in SUBSET (Map \ S) : m \in S \cup D \/ ~Complete(S \cup D)}
WithValues(S) == S \cup Nested(S) \cup Held(Nested(S))

MapsInit ==
  /\ mdoes \in MapPrograms
  /\ malive = IF \E t \in Thread : "make" \in mdoes[t] THEN {} ELSE Map
  /\ mroot = malive /\ bbs = {} /\ table = [m \in Map |-> Nothing]
  /\ mheld = [t \in Thread |-> <<>>] /\ mcall = [t \in Thread |-> Idle]

----------------------------------------------------------------------------
\* Wrong versions of the definitions below: the new map is no base block; map_get and
\* printing take no lock; a failing insertion leaves its lock behind.
Unprotected(m) == {}
Unlocked == {"insert", "delete"}
FailureForgets(t) == IF mcall[t].r = "refused" THEN mheld ELSE WithoutLast(mheld, t)

\* The map as each interface has it: a trie refuses some keys and tells so, or not.
Takes(m, k) == Kind[m] = "hash" \/ k \notin Refused
Inserted(m, k, v) ==
  IF Takes(m, k) THEN [x \in DOMAIN table[m] \cup {k} |-> IF x = k THEN v ELSE table[m][x]]
  ELSE table[m]
insert(m, k) ==
  IF ~Takes(m, k) THEN "refused" ELSE IF k \in DOMAIN table[m] THEN "overwritten" ELSE "new"

\* What a program may put into m: a value of its own, or one that it can reach.
MayHold(m, v) ==
  /\ v \in Map => Depth[v] < Depth[m]
  /\ v \in malive => v \in WithValues(mroot)

\* make_trie_map and make_hash_map: the block is made first, and protected.
MakeBlock(m) == {m}
Make(t, m, keys) ==
  /\ mcall[t] = Idle /\ "make" \in mdoes[t] /\ m \notin malive
  /\ table' = [table EXCEPT ![m] = Nothing]
  /\ malive' = malive \cup {m} /\ bbs' = bbs \cup MakeBlock(m)
  /\ mcall' = [mcall EXCEPT ![t] = [op |-> "make", m |-> m, keys |-> keys]]
  /\ UNCHANGED <<mroot, mheld, mdoes>>

\* One round of _make_map: yleval returns a value, which goes into the map at once;
\* what insert returns is not looked at.
MakePair(t, v) ==
  LET c == mcall[t]
  IN  /\ c.op = "make" /\ c.keys # <<>> /\ MayHold(c.m, v)
      /\ table' = [table EXCEPT ![c.m] = Inserted(c.m, Head(c.keys), v)]
      /\ malive' = malive \cup {v}
      /\ mcall' = [mcall EXCEPT ![t].keys = Tail(@)]
      /\ UNCHANGED <<mroot, bbs, mheld, mdoes>>

\* yleval fails, and the thread with it; its base blocks are forgotten.
MakeFails(t) ==
  /\ mcall[t].op = "make" /\ mcall[t].keys # <<>>
  /\ bbs' = bbs \ {mcall[t].m} /\ mcall' = [mcall EXCEPT ![t] = Idle]
  /\ UNCHANGED <<table, malive, mroot, mheld, mdoes>>

\* ylmp_rm_bb1; the program binds the result to a symbol.
Made(t) ==
  /\ mcall[t].op = "make" /\ mcall[t].keys = <<>>
  /\ bbs' = bbs \ {mcall[t].m} /\ mroot' = mroot \cup {mcall[t].m}
  /\ mcall' = [mcall EXCEPT ![t] = Idle]
  /\ UNCHANGED <<table, malive, mheld, mdoes>>

UnbindMap(t, m) ==
  /\ mcall[t] = Idle /\ "make" \in mdoes[t] /\ m \in mroot
  /\ mroot' = mroot \ {m} /\ UNCHANGED <<table, malive, bbs, mheld, mcall, mdoes>>

----------------------------------------------------------------------------
\* map_insert, map_del, map_get and _aif_map_to_string: lock, work, unlock.
Locking == {"insert", "delete", "get", "print"}
Writing == {"insert", "delete"}
Mode(op) == IF op \in Writing THEN "wr" ELSE "rd"

Start(t, op, m, k, v) ==
  /\ mcall[t] = Idle /\ op \in mdoes[t] /\ (op = "insert" => MayHold(m, v))
  /\ malive' = IF op = "insert" THEN malive \cup {v} ELSE malive
  /\ mcall' = [mcall EXCEPT ![t] = [op |-> op, m |-> m, k |-> k, v |-> v, r |-> "none", st |-> "lock"]]
  /\ UNCHANGED <<table, mroot, bbs, mheld, mdoes>>

Works(t) == mcall[t].op \in Writing \cup {"get", "print"}

Lock(t) ==
  LET c == mcall[t]
  IN  /\ Works(t) /\ c.st = "lock"
      /\ IF c.op \in Locking
         THEN MayLock(mheld, c.m, Mode(c.op)) /\ mheld' = WithLock(mheld, t, c.m, Mode(c.op))
         ELSE UNCHANGED mheld
      /\ mcall' = [mcall EXCEPT ![t].st = "in"]
      /\ UNCHANGED <<table, malive, mroot, bbs, mdoes>>

Work(t) ==
  LET c == mcall[t]
  IN  /\ Works(t) /\ c.st = "in"
      /\ CASE c.op = "insert" ->
                /\ table' = [table EXCEPT ![c.m] = Inserted(c.m, c.k, c.v)]
                /\ mcall' = [mcall EXCEPT ![t].st = "out", ![t].r = insert(c.m, c.k)]
           [] c.op = "delete" ->
                /\ table' = [table EXCEPT ![c.m] = [k \in DOMAIN @ \ {c.k} |-> @[k]]]
                /\ mcall' = [mcall EXCEPT ![t].st = "out"]
           [] OTHER ->
                /\ mcall' = [mcall EXCEPT ![t].st = "out",
                              ![t].v = IF c.op = "get" /\ c.k \in DOMAIN table[c.m]
                                       THEN table[c.m][c.k] ELSE {}]
                /\ UNCHANGED table
      /\ UNCHANGED <<malive, mroot, bbs, mheld, mdoes>>

Released(t) == WithoutLast(mheld, t)
Unlock(t) ==
  /\ Works(t) /\ mcall[t].st = "out"
  /\ mheld' = IF mcall[t].op \in Locking THEN Released(t) ELSE mheld
  /\ mcall' = [mcall EXCEPT ![t].st = "return"]
  /\ UNCHANGED <<table, malive, mroot, bbs, mdoes>>

\* The result goes to the evaluator, which protects it; a failed insertion ends the
\* thread.
Return(t) ==
  /\ Works(t) /\ mcall[t].st = "return"
  /\ mcall' = [mcall EXCEPT ![t] = Idle] /\ UNCHANGED <<table, malive, mroot, bbs, mheld, mdoes>>

----------------------------------------------------------------------------
\* _aif_map_eq, called by yleq on two different maps: one frame per recursion.
MapFrame(e0, e1) == [e0 |-> e0, e1 |-> e1, left |-> {}, ret |-> TRUE, st |-> "lock0"]
Inmost(t) == mcall[t].frames[Len(mcall[t].frames)]
Compares(t) == mcall[t].op = "eq"
SetInmost(t, f) == mcall' = [mcall EXCEPT ![t].frames[Len(mcall[t].frames)] = f]

CompareMaps(t, e0, e1) ==
  /\ mcall[t] = Idle /\ "eq" \in mdoes[t] /\ e0 # e1
  /\ mcall' = [mcall EXCEPT ![t] = [op |-> "eq", frames |-> <<MapFrame(e0, e1)>>]]
  /\ UNCHANGED <<table, malive, mroot, bbs, mheld, mdoes>>

LockNext(t) ==
  LET f == Inmost(t)
      m == IF f.st = "lock0" THEN f.e0 ELSE f.e1
  IN  /\ Compares(t) /\ f.st \in {"lock0", "lock1"} /\ MayLock(mheld, m, "rd")
      /\ mheld' = WithLock(mheld, t, m, "rd")
      /\ SetInmost(t, IF f.st = "lock0" THEN [f EXCEPT !.st = "lock1"]
                      ELSE [f EXCEPT !.st = "walk", !.left = DOMAIN table[f.e0] \cap DOMAIN table[f.e1]])
      /\ UNCHANGED <<table, malive, mroot, bbs, mdoes>>

\* A hash table has no comparison and equals only itself; what yltrie_equal makes of a
\* hash table nobody can tell, the call is lost.  A difference ends the comparison.
TwoTries(f) == Kind[f.e0] = "trie" /\ Kind[f.e1] = "trie"
SameKeys(f) == DOMAIN table[f.e0] = DOMAIN table[f.e1]
CompareTables(t) ==
  LET f == Inmost(t)
  IN  /\ Compares(t) /\ f.st = "walk"
      /\ \/ Kind[f.e0] = "hash" /\ SetInmost(t, [f EXCEPT !.st = "compared", !.ret = FALSE])
         \/ /\ Kind[f.e0] = "trie" /\ Kind[f.e1] = "hash"
            /\ SetInmost(t, [f EXCEPT !.st = "lost"])
         \/ /\ TwoTries(f) /\ (f.left = {} \/ ~SameKeys(f))
            /\ SetInmost(t, [f EXCEPT !.st = "compared", !.ret = SameKeys(f)])
      /\ UNCHANGED <<table, malive, mroot, bbs, mheld, mdoes>>

\* yleq on the values of one key, in turn if they are maps.
CompareValues(t, k) ==
  LET f == Inmost(t)
      x == table[f.e0][k]
      y == table[f.e1][k]
      rest == [f EXCEPT !.left = @ \ {k}]
  IN  /\ Compares(t) /\ f.st = "walk" /\ TwoTries(f) /\ k \in f.left
      /\ \/ (x = y \/ {x, y} \subseteq Val) /\ SetInmost(t, rest)
         \/ x # y /\ ~({x, y} \subseteq Map) /\ SetInmost(t, [f EXCEPT !.st = "compared", !.ret = FALSE])
         \/ /\ x # y /\ {x, y} \subseteq Map
            /\ mcall' = [mcall EXCEPT ![t].frames =
                 SubSeq(@, 1, Len(@) - 1) \o <<rest, MapFrame(x, y)>>]
      /\ UNCHANGED <<table, malive, mroot, bbs, mheld, mdoes>>

\* Both are unlocked, and the result goes to the walk that asked for it.
UnlockSecondMap(t) ==
  /\ Compares(t) /\ Inmost(t).st = "compared"
  /\ mheld' = WithoutLast(mheld, t) /\ SetInmost(t, [Inmost(t) EXCEPT !.st = "unlock0"])
  /\ UNCHANGED <<table, malive, mroot, bbs, mdoes>>

WalkReturned(F) ==
  [n \in 1..Len(F) - 1 |->
     IF n = Len(F) - 1 /\ ~F[n + 1].ret THEN [F[n] EXCEPT !.st = "compared", !.ret = FALSE] ELSE F[n]]
UnlockFirstMap(t) ==
  LET F == mcall[t].frames
  IN  /\ Compares(t) /\ Inmost(t).st = "unlock0"
      /\ mheld' = WithoutLast(mheld, t)
      /\ mcall' = [mcall EXCEPT ![t] =
           IF Len(F) = 1 THEN Idle ELSE [op |-> "eq", frames |-> WalkReturned(F)]]
      /\ UNCHANGED <<table, malive, mroot, bbs, mdoes>>

\* The collector: a thread that evaluates an initial value is at a safe point, too.
MapSafe(t) == mcall[t].op = "none" \/ (mcall[t].op = "make" /\ mcall[t].keys # <<>>)
CollectMaps ==
  /\ \A t \in Thread : MapSafe(t)
  /\ malive' = WithValues(mroot \cup bbs)
  /\ \A m \in malive' \cap Map : MayLock(mheld, m, "rd")
  /\ table' = [m \in Map |-> IF m \in malive' THEN table[m] ELSE Nothing]
  /\ UNCHANGED <<mroot, bbs, mheld, mcall, mdoes>>

MapsNext ==
  \/ CollectMaps
  \/ \E t \in Thread :
       \/ \E m \in Map, n \in 0..MaxPairs : \E keys \in [1..n -> Key] : Make(t, m, keys)
       \/ \E v \in Val \cup Map : MakePair(t, v)
       \/ MakeFails(t) \/ Made(t)
       \/ \E m \in Nested(mroot), k \in Key : \/ Start(t, "get", m, k, {}) \/ Start(t, "delete", m, k, {})
                                     \/ \E v \in Val \cup Map : Start(t, "insert", m, k, v)
       \/ \E m \in Nested(mroot) : Start(t, "print", m, {}, {})
       \/ \E m \in Map : UnbindMap(t, m)
       \/ Lock(t) \/ Work(t) \/ Unlock(t) \/ Return(t)
       \/ \E m, n \in Nested(mroot) : CompareMaps(t, m, n)
       \/ LockNext(t) \/ CompareTables(t) \/ \E k \in Key : CompareValues(t, k)
       \/ UnlockSecondMap(t) \/ UnlockFirstMap(t)

MapsSpec == MapsInit /\ [][MapsNext]_mapvars

----------------------------------------------------------------------------
\* Nobody looks into a table or changes it while another changes it: rehashing or
\* removing branches is not atomic (nfunc_map.c:326-352, hash.c:72-107).
LooksInto(u, m) ==
  \/ Works(u) /\ mcall[u].m = m /\ mcall[u].st = "in"
  \/ Compares(u) /\ \E n \in DOMAIN mcall[u].frames :
       LET f == mcall[u].frames[n] IN f.st = "walk" /\ m \in {f.e0, f.e1}
Undisturbed ==
  \A t, u \in Thread :
    Works(t) /\ mcall[t].op \in Writing /\ mcall[t].st = "in" /\ u # t => ~LooksInto(u, mcall[t].m)

\* The map a call works on, also one that is being made while its values are
\* evaluated, is in use, and so is what it holds, maps inside maps included, and what
\* map_get is about to return after its lock (nfunc_map.c:268-297, 420-430).
KnowsOf(t) ==
  LET c == mcall[t]
  IN  {x \in Map \cup Val :
         \/ c.op = "make" /\ x = c.m
         \/ Works(t) /\ x \in {c.m, c.v}
         \/ Compares(t) /\ \E n \in DOMAIN c.frames : x \in {c.frames[n].e0, c.frames[n].e1}}
MapsInUse == WithValues(mroot \cup UNION {KnowsOf(t) : t \in Thread}) \subseteq malive

\* Two maps that are compared are of one kind.  This is not so: yleq tells maps only from
\* what is no map (sfunc.c:98, nfunc_map.c:185-194).
KindsAgree == \A t \in Thread : Compares(t) => Inmost(t).st # "lost"

\* The lock a thread is about to take.
MapWants(t) ==
  LET c == mcall[t]
  IN  CASE Works(t) /\ c.op \in Locking /\ c.st = "lock" -> [c |-> c.m, mode |-> Mode(c.op)]
        [] Compares(t) /\ Inmost(t).st = "lock0" -> [c |-> Inmost(t).e0, mode |-> "rd"]
        [] Compares(t) /\ Inmost(t).st = "lock1" -> [c |-> Inmost(t).e1, mode |-> "rd"]
        [] OTHER -> <<>>

\* Maps that are compared either way round while others assign keep nobody waiting in a
\* circle (nfunc_map.c:185-198, 384-464).
NoMapCircle == ~Stuck(mheld, [t \in Thread |-> MapWants(t)])

\* The collector never waits for a map, even if a call has failed (nfunc_map.c:249-251).
MapVisitsPass == \A t \in Thread : MapSafe(t) => mheld[t] = <<>>
----------------------------------------------------------------------------
\* The inductive invariant of the proofs in ContainersProofs: what a call holds locks
\* of at each of its steps, ...
MakeCall == [op : {"make"}, m : Map, keys : Seq(Key)]
WorkCall ==
  [op : Writing \cup {"get", "print"}, m : Map, k : Key \cup {{}}, v : Val \cup Map \cup {{}},
   r : {"none", "refused", "overwritten", "new"}, st : {"lock", "in", "out", "return"}]
FrameOfMaps ==
  [e0 : Map, e1 : Map, left : SUBSET Key, ret : BOOLEAN,
   st : {"lock0", "lock1", "walk", "compared", "unlock0", "lost"}]
MapEqCall == [op : {"eq"}, frames : Seq(FrameOfMaps) \ {<<>>}]
MapTypes ==
  /\ table \in [Map -> UNION {[D -> Val \cup Map] : D \in SUBSET Key}]
  /\ malive \subseteq Map \cup Val /\ mroot \subseteq malive \cap Map /\ bbs \subseteq malive \cap Map
  /\ mheld \in [Thread -> Seq([c : Map, mode : {"rd", "wr"}])]
  /\ mcall \in [Thread -> {Idle} \cup MakeCall \cup WorkCall \cup MapEqCall]

Locked(m, mo) == [c |-> m, mode |-> mo]
HeldIn(st) ==
  CASE st = "lock0" -> 0 [] st \in {"lock1", "unlock0"} -> 1 [] st \in {"walk", "compared", "lost"} -> 2
ComparingHolds(F, h) ==
  /\ Len(h) = 2 * (Len(F) - 1) + HeldIn(F[Len(F)].st)
  /\ \A n \in 1..Len(F) :
       /\ n < Len(F) => F[n].st = "walk"
       /\ F[n].st = "walk" => F[n].left \subseteq DOMAIN table[F[n].e0] \cap DOMAIN table[F[n].e1]
       /\ 2 * n - 1 <= Len(h) => h[2 * n - 1] = Locked(F[n].e0, "rd")
       /\ 2 * n <= Len(h) => h[2 * n] = Locked(F[n].e1, "rd")
HoldsMapLocks(t) ==
  LET c == mcall[t]
      h == mheld[t]
  IN  /\ c = Idle \/ c \in MakeCall => h = <<>>
      /\ c \in WorkCall =>
           /\ c.st \in {"lock", "return"} => h = <<>>
           /\ c.st \in {"in", "out"} => h = <<Locked(c.m, Mode(c.op))>>
      /\ c \in MapEqCall => ComparingHolds(c.frames, h)

\* ... what is in use, and who makes what.
TablesInUse ==
  /\ Held(malive) \subseteq malive
  /\ \A m \in Map \ malive : table[m] = Nothing
UsesInUse(t) ==
  LET c == mcall[t]
  IN  /\ KnowsOf(t) \subseteq malive
      /\ c \in MakeCall => c.m \in bbs
      /\ c \in WorkCall /\ c.op = "insert" => c.k \in Key /\ c.v \in Val \cup Map
OneMaker ==
  \A t, u \in Thread :
    mcall[t] \in MakeCall /\ mcall[u] \in MakeCall /\ mcall[t].m = mcall[u].m => t = u

MapsInv ==
  /\ MapTypes /\ TablesInUse /\ OneMaker /\ Exclusive(mheld)
  /\ \A t \in Thread : HoldsMapLocks(t) /\ UsesInUse(t)
============================================================================
