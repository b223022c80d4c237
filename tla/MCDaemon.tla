----------------------------- MODULE MCDaemon -----------------------------
(* Model-checking instances of the daemon and its front ends, side by side: *)
(* completions on the symbol table, the table as a whole, the connection    *)
(* byte by byte, and the requests and answers on it.  part says which of    *)
(* them a behaviour is of; the others stay in their initial states.         *)
EXTENDS AutoComp, Framing, FrontEnd, TLC

CONSTANTS CopyKey, CopyMaxKeyLen

VARIABLES part
VARIABLES first, other

tvars == <<first, other>>

T == INSTANCE TrieCopy WITH node <- first, Key <- CopyKey, MaxKeyLen <- CopyMaxKeyLen

ASSUME DaemonFits == FramingAssumption /\ FrontEndAssumption

---------------------------------------------------------------------------
\* Keys that share characters, half characters and nothing, keys that are
\* prefixes of other keys, and prefixes with no, one and several candidates.
MCKey == { <<0, 0>>, <<0, 1>>, <<1, 0>>,
           <<0, 0, 0, 0>>, <<0, 0, 0, 1>>, <<0, 0, 1, 0>>,
           <<1, 0, 0, 0, 0, 1>> }
MCPrefix  == { << >>, <<0, 0>>, <<0, 1>>, <<1, 0>> }
MCCopyKey == { <<0, 0>>, <<1, 0>>, <<0, 0, 0, 1>>, <<0, 0, 1, 0>> }

MCChar == {"A", "C", "I", "p", "l", "m", "c", "a", "0", "x", "y", ":"}

\* A text with delimiters in it, as long as the second buffer without its zero, and a
\* packet that is no command.
MCText  == { <<"x", ":", "y", ":">> }
MCStray == { <<":">> }

---------------------------------------------------------------------------
MCInit ==
  /\ part \in {"names", "tries", "wire", "front"}
  /\ ACInit /\ T!TCInit /\ FramingInit /\ FEInit

NameStep  == part = "names" /\ ACNext   /\ UNCHANGED <<part, tvars, wirevars, fevars>>
TrieStep  == part = "tries" /\ T!TCNext /\ UNCHANGED <<part, acvars, wirevars, fevars>>
WireStep  == part = "wire"  /\ FramingNext /\ UNCHANGED <<part, acvars, tvars, fevars>>
FrontStep == part = "front" /\ FENext /\ UNCHANGED <<part, acvars, tvars, wirevars>>

MCNext == NameStep \/ TrieStep \/ WireStep \/ FrontStep

MCSpec == MCInit /\ [][MCNext]_<<part, acvars, tvars, wirevars, fevars>> /\ Fairness

---------------------------------------------------------------------------
\* Two tries compare equal exactly when they are the same map, a copy is equal to its
\* original, and a walk gives the first keys below its start, sorted (trie.c:248-341, 459-479).
TriesAreMaps == T!CopyIsEqual /\ [](T!EqualMeansSameMap /\ T!WalkInOrder)
===========================================================================
