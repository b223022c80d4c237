--------------------------- MODULE MCContainers ---------------------------
(* Model-checking instances of what ylext offers to programs as data:      *)
(* arrays and maps, which threads share under locks of their own, the hash *)
(* table under a map, and strings.  part says which of them a behaviour is *)
(* of; the others stay in their initial states.                            *)
EXTENDS Containers, HashMap, Strings, TLC

CONSTANTS t1, t2, arr0, arr1, arr2, arr3, arr4, m1, m2, m3, m4

VARIABLES part

ASSUME ContainersAssumption ==
  /\ ArraysAssumption /\ MapsAssumption /\ HashAssumption
  /\ ArgumentAssumption /\ PlainPatterns

---------------------------------------------------------------------------
\* An array that may hold arrays of arrays, two of one element that may hold arrays, one
\* that holds atoms, and an empty one.
MCLayer == [a \in Arr |-> CASE a = arr0 -> 2 [] a \in {arr1, arr2} -> 1 [] a \in {arr3, arr4} -> 0]
MCSize  == [a \in Arr |-> IF a = arr4 THEN 0 ELSE 1]
MCArrayPrograms ==
  { t1 :> {"eq", "get"} @@ t2 :> {"eq", "set"},
    t1 :> {"set", "set below"} @@ t2 :> {"eq", "get"},
    t1 :> {"get"} @@ t2 :> {"bind"} }

\* Two tries that may hold a trie and a hash table.
MCKind  == [m \in Map |-> IF m = m4 THEN "hash" ELSE "trie"]
MCDepth == [m \in Map |-> IF m \in {m1, m2} THEN 1 ELSE 0]
MCMapPrograms ==
  { t1 :> {"make"} @@ t2 :> {"get"},
    t1 :> {"insert"} @@ t2 :> {"eq"},
    t1 :> {"insert", "delete"} @@ t2 :> {"print"} }

\* Hash values of 3 bits, two of them equal.
MCHv == [k \in HashKey |-> CASE k = "a" -> 0 [] k = "b" -> 1 [] k = "c" -> 2
                             [] k = "d" -> 3 [] k = "e" -> 5 [] k = "f" -> 6 [] OTHER -> 0]

\* All strings of two letters up to a length, and white space for the functions
\* that look for it.
Of(chars, n) == UNION {[1..k -> chars] : k \in 0..n}
AB   == {"a", "b"}
Text == {"a", " ", "n", "r"}
MCCalls ==
  {[f |-> f, s |-> s, u |-> u, from |-> i] :
     f \in {"index-of", "last-index-of", "start-with"}, s \in Of(AB, 4), u \in Of(AB, 2), i \in -1..4}
  \cup {[f |-> "end-with", s |-> s, u |-> u, from |-> 0] : s \in Of(AB, 4), u \in Of(AB, 2)}
  \cup {[f |-> "substring", s |-> s, from |-> i, to |-> j] :
          s \in {<<"a", "b", "c">>, << >>}, i, j \in -1..4}
  \cup {[f |-> f, s |-> s] : f \in {"trim", "split-to-line"}, s \in Of(Text, 5)}
  \cup {[f |-> "replace", s |-> s, u |-> u, new |-> v] : s \in Of(AB, 5), u \in Of(AB, 2), v \in Of(AB, 2)}
  \cup {[f |-> "re-replace", s |-> s, kind |-> "literal", u |-> u, new |-> v, global |-> g] :
          s \in Of(AB, 4), u \in Of(AB, 2) \ {<< >>}, v \in Of(AB, 2), g \in BOOLEAN}
  \cup {[f |-> "re-replace", s |-> s, kind |-> "c+", u |-> <<"a">>, new |-> v, global |-> g] :
          s \in Of(AB, 4), v \in Of(AB, 2), g \in BOOLEAN}

Symmetry == Permutations({arr1, arr2}) \cup Permutations({m1, m2})

---------------------------------------------------------------------------
MCInit ==
  /\ part \in {"arrays", "maps", "hash", "strings"}
  /\ IF part = "arrays"  THEN adoes \in ArrayPrograms ELSE adoes = CHOOSE d \in ArrayPrograms : TRUE
  /\ IF part = "maps"    THEN mdoes \in MapPrograms   ELSE mdoes = CHOOSE d \in MapPrograms : TRUE
  /\ IF part = "strings" THEN scall \in Calls         ELSE scall = CHOOSE c \in Calls : TRUE
  /\ ArraysInit /\ MapsInit /\ HashInit /\ Entry

ArrayStep  == part = "arrays"  /\ ArraysNext  /\ UNCHANGED <<part, mapvars, hvars, strvars>>
MapStep    == part = "maps"    /\ MapsNext    /\ UNCHANGED <<part, arrvars, hvars, strvars>>
HashStep   == part = "hash"    /\ HashNext    /\ UNCHANGED <<part, arrvars, mapvars, strvars>>
StringStep == part = "strings" /\ StringsNext /\ UNCHANGED <<part, arrvars, mapvars, hvars>>

MCSpec == MCInit /\ [][ArrayStep \/ MapStep \/ HashStep \/ StringStep]_<<part, arrvars, mapvars, hvars, strvars>>

===========================================================================
