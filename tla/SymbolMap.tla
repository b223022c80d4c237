----------------------------- MODULE SymbolMap -----------------------------
(***************************************************************************)
(* What a symbol table is to its users: a partial function from keys to    *)
(* values.  Trie (src/ylisp/trie.c) is shown to implement it.              *)
(***************************************************************************)
CONSTANTS Key, Value, NoValue

VARIABLE map          \* key -> value, NoValue for a key that is not there

Init == map = [k \in Key |-> NoValue]

Put(k, v) == map' = [map EXCEPT ![k] = v]
Remove(k) == map[k] # NoValue /\ map' = [map EXCEPT ![k] = NoValue]
Clear     == map' = [k \in Key |-> NoValue]

Next == Clear \/ \E k \in Key : Remove(k) \/ \E v \in Value : Put(k, v)

Spec == Init /\ [][Next]_map

=============================================================================
