------------------------------ MODULE AutoComp ------------------------------
(***************************************************************************)
(* The completion of a symbol name in a front end (src/yld/cmd.c, and the  *)
(* same code in src/yljfe/main.c) on the global symbol table, which is a   *)
(* Trie.  The front end calls into the library three times: for the        *)
(* completion, for the number and the length of the candidates, and for    *)
(* the candidates.  Each call holds the lock of the table; between two     *)
(* calls evaluation threads may set and unset symbols (Concurrent).        *)
(***************************************************************************)
EXTENDS Trie

CONSTANTS
  Prefix,             \* what is completed
  Concurrent          \* do evaluation threads run during a completion?

ASSUME PrefixAssumption == \A p \in Prefix : p \in Seq(Nat) /\ Even(p)

VARIABLES
  pc,                 \* the next call: "idle", "count", "list", "answer"
  pref, num, maxlen,  \* the locals of _cmd_autocomp
  out                 \* pp: the candidates, without the prefix

acvars == <<node, pc, pref, num, maxlen, out>>

ACInit ==
  /\ Init
  /\ pc = "idle" /\ pref = << >> /\ num = 0 /\ maxlen = 0 /\ out = << >>

---------------------------------------------------------------------------
\* Wrong versions of the operations below.  They are no part of the model:
\* PROJECT.json names, for each, the property that tells it from the code.
ShortestSuffix(S) ==          \* maxlen is compared the wrong way round
  IF S = {} THEN 0 ELSE Min({Len(s) : s \in S})

PrefixCounted(S) ==           \* the prefix is counted, symbol or not
  Cardinality(S \cup {<< >>})

---------------------------------------------------------------------------
\* A request for the completion of p.  Only a branch that adds nothing asks for
\* the candidates; all else is answered at once and leaves no trace.
Complete(p) ==
  /\ pc = "idle" /\ DOMAIN node # {<< >>}
  /\ AutoComplete(p) = [ret |-> "branch", add |-> << >>]
  /\ pc' = "count" /\ pref' = p
  /\ UNCHANGED <<node, num, maxlen, out>>

\* _cb_nr_candidates.
Longest(S)  == IF S = {} THEN 0 ELSE Max({Len(s) : s \in S})
Counted(S)  == Cardinality(S)

\* ylslu_nr_candidates.  If the node of the prefix is gone it returns 0 and
\* leaves maxlen alone.
Count ==
  /\ pc = "count" /\ pc' = "list"
  /\ IF pref \in DOMAIN node
     THEN num' = Counted(Walk(pref)) /\ maxlen' = Longest(Walk(pref))
     ELSE num' = 0 /\ UNCHANGED maxlen
  /\ UNCHANGED <<node, pref, out>>

\* What a walk comes to, in its order: the i-th has i - 1 others before it.
Sorted(S) ==
  [i \in 1 .. Cardinality(S) |-> CHOOSE s \in S : Cardinality({t \in S : Before(t, s)}) = i - 1]

\* ylslu_candidates: the walk stops when num candidates have been copied.  The
\* assertion on num comes first.
List ==
  /\ pc = "list" /\ num > 1 /\ pc' = "answer"
  /\ out' = LET all == Sorted(Walk(pref))
            IN  SubSeq(all, 1, Min({num, Len(all)}))
  /\ UNCHANGED <<node, pref, num, maxlen>>

\* The candidates are sent and the handler returns.  The assertion that there
\* are num of them comes first.
Answer ==
  /\ pc = "answer" /\ Len(out) = num /\ pc' = "idle"
  /\ pref' = << >> /\ num' = 0 /\ maxlen' = 0 /\ out' = << >>
  /\ UNCHANGED node

SetOrUnset ==
  /\ Concurrent \/ pc = "idle"
  /\ Next
  /\ UNCHANGED <<pc, pref, num, maxlen, out>>

ACNext == SetOrUnset \/ Count \/ List \/ Answer \/ \E p \in Prefix : Complete(p)

ACSpec == ACInit /\ [][ACNext]_acvars

---------------------------------------------------------------------------
\* A prefix that cannot be completed further, and is no leaf, has several
\* candidates (cmd.c:57, yljfe/main.c:198 assert it).
SeveralCandidates == pc = "list" => num > 1

\* The list has as many candidates as were counted (cmd.c:75,
\* yljfe/main.c:213 assert it).
ListHasNum == pc = "answer" => Len(out) = num

\* No candidate is longer than the buffers made for the longest that was
\* counted (cmd.c:64, symlookup.c:246-256, where pbsz is ignored).
CandidatesFit == pc = "answer" => \A i \in 1 .. Len(out) : Len(out[i]) <= maxlen

\* A completion is the longest that all candidates share, and no branch without a value
\* is left to mislead it (trie.c:135-180, 482-554).
CompletesTight == CompletionIsLongest /\ NoDeadBranch

\* What the front ends assert of the three calls of a completion holds while nothing
\* else runs: there are several candidates, as many as counted, and they fit (cmd.c:45-93).
CompletionAsserts == SeveralCandidates /\ ListHasNum /\ CandidatesFit

---------------------------------------------------------------------------
\* The inductive invariant of the proofs in DaemonProofs, for a front end alone: what each
\* call of a completion leaves for the next one.
CompletionInv ==
  /\ TrieInv
  /\ pc = "count" => pref \in DOMAIN node /\ \E x, y \in Below(pref) : x # y
  /\ pc = "list" =>
       /\ pref \in DOMAIN node
       /\ num = Cardinality(Walk(pref)) /\ num > 1 /\ maxlen = Longest(Walk(pref))
  /\ pc = "answer" => Len(out) = num /\ \A i \in 1 .. Len(out) : Len(out[i]) <= maxlen
=============================================================================
