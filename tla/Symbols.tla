------------------------------ MODULE Symbols ------------------------------
(***************************************************************************)
(* The symbol tables (src/ylisp/symlookup.c), the lock of the global one   *)
(* (gsym.c), and what is done with them by evaluation threads: set, unset  *)
(* and help.  The table is a SymbolMap, which Trie implements, from symbols *)
(* to an expression and a pointer to a description on the heap.            *)
(*                                                                         *)
(* Every call into gsym.c holds its mutex and is one action; set and help  *)
(* make two calls each.  With one writer and no helper the module also     *)
(* stands for the table of a thread, which has no lock (yltset, tunset).   *)
(***************************************************************************)
EXTENDS Naturals, FiniteSets

CONSTANTS
  Sym, Expr,
  Writer,             \* threads that set and unset symbols
  Main,               \* the writer that sets all symbols
  Shared,             \* the symbols that the other writers set as well
  Helper,             \* threads that ask for help
  Str,                \* addresses of description strings
  EmptyDesc,          \* _dummy_empty_desc, which is never freed
  NoEntry, NoExpr


VARIABLES
  tab,                \* the table: symbol -> NoEntry or its struct _value
  heap,               \* allocated strings -> the expression they describe
  at,                 \* what each thread does next
  arg                 \* what a thread between its two calls works on

symvars == <<tab, heap, at, arg>>

Entry == [e : Expr, desc : Str \cup {EmptyDesc}]
SymbolsAssumption ==
  /\ EmptyDesc \notin Str /\ NoExpr \notin Expr /\ NoEntry \notin Entry
  /\ Writer \cap Helper = {}
  /\ Main \in Writer /\ Shared \subseteq Sym

Map   == INSTANCE SymbolMap
           WITH Key <- Sym, Value <- Entry, NoValue <- NoEntry, map <- tab

SymbolsInit ==
  /\ Map!Init
  /\ heap = [s \in {} |-> NoExpr]
  /\ at = [t \in Writer \cup Helper |-> "idle"]
  /\ arg = [t \in Writer \cup Helper |-> [sym |-> NoEntry]]

Goto(t, l)  == at' = [at EXCEPT ![t] = l]
Without(S)  == [s \in DOMAIN heap \ S |-> heap[s]]

---------------------------------------------------------------------------
\* Wrong versions of the operations below.  They are no part of the model:
\* PROJECT.json names, for each, the property that tells it from the code.
InsertFreesDesc(s, e) ==      \* the old entry is freed with its description
  LET d == IF tab[s] = NoEntry THEN EmptyDesc ELSE tab[s].desc
  IN  Map!Put(s, [e |-> e, desc |-> d]) /\ heap' = Without({d})

DescribeOver(s, e) ==         \* the old description is not freed
  \/ tab[s] = NoEntry /\ UNCHANGED <<tab, heap>>
  \/ /\ tab[s] # NoEntry
     /\ \E d \in Str \ DOMAIN heap :
          /\ heap' = [x \in DOMAIN heap \cup {d} |-> IF x = d THEN e ELSE heap[x]]
          /\ Map!Put(s, [tab[s] EXCEPT !.desc = d])

DescribeSkipsNull(s, e) ==    \* no description leaves the old one
  \/ e = NoExpr /\ UNCHANGED <<tab, heap>>
  \/ e # NoExpr /\ DescribeOver(s, e)

---------------------------------------------------------------------------
\* ylslu_insert: a new entry takes over the description of the old one, which
\* is given the dummy before the trie frees it.
Insert(s, e) ==
  LET d == IF tab[s] = NoEntry THEN EmptyDesc ELSE tab[s].desc
  IN  Map!Put(s, [e |-> e, desc |-> d]) /\ UNCHANGED heap

\* ylslu_set_description with the text for e, or with NULL (NoExpr).
Describe(s, e) ==
  \/ tab[s] = NoEntry /\ UNCHANGED <<tab, heap>>
  \/ /\ tab[s] # NoEntry /\ e = NoExpr
     /\ heap' = Without({tab[s].desc})
     /\ Map!Put(s, [tab[s] EXCEPT !.desc = EmptyDesc])
  \/ /\ tab[s] # NoEntry /\ e # NoExpr
     /\ \E d \in Str \ DOMAIN heap :
          /\ heap' = [x \in (DOMAIN heap \ {tab[s].desc}) \cup {d} |->
                        IF x = d THEN e ELSE heap[x]]
          /\ Map!Put(s, [tab[s] EXCEPT !.desc = d])

\* What _set hands to its second call: an empty description becomes NULL.
DescArg(s, e, withDesc) == [sym |-> s, e |-> IF withDesc THEN e ELSE NoExpr, withDesc |-> withDesc]

SetInsert(t, s, e, withDesc) ==
  /\ at[t] = "idle" /\ Goto(t, "describe")
  /\ Insert(s, e)
  /\ arg' = [arg EXCEPT ![t] = DescArg(s, e, withDesc)]

SetDescribe(t) ==
  /\ at[t] = "describe" /\ Goto(t, "idle")
  /\ Describe(arg[t].sym, arg[t].e)
  /\ arg' = [arg EXCEPT ![t] = [sym |-> NoEntry]]

Unset(t, s) ==
  /\ at[t] = "idle"
  /\ Map!Remove(s)
  /\ heap' = Without({tab[s].desc})
  /\ UNCHANGED <<at, arg>>

\* nfunc help copies the description, then looks the expression up.
HelpDesc(t, s) ==
  /\ at[t] = "idle" /\ tab[s] # NoEntry /\ Goto(t, "value")
  /\ arg' = [arg EXCEPT ![t] =
               [sym |-> s, text |-> IF tab[s].desc \in Str THEN heap[tab[s].desc] ELSE NoExpr]]
  /\ UNCHANGED <<tab, heap>>

HelpValue(t) ==
  /\ at[t] = "value" /\ Goto(t, "idle")
  /\ arg' = [arg EXCEPT ![t] = [sym |-> NoEntry]]
  /\ UNCHANGED <<tab, heap>>

SymbolsNext ==
  \/ \E t \in Writer :
       \/ SetDescribe(t)
       \/ \E s \in IF t = Main THEN Sym ELSE Shared :
            \/ Unset(t, s)
            \/ \E e \in Expr, withDesc \in BOOLEAN : SetInsert(t, s, e, withDesc)
  \/ \E t \in Helper : HelpValue(t) \/ \E s \in Sym : HelpDesc(t, s)

SymbolsSpec == SymbolsInit /\ [][SymbolsNext]_symvars

---------------------------------------------------------------------------
\* No entry points to a string that has been freed: the exchange of pointers
\* in ylslu_insert keeps the trie from freeing what lives on
\* (symlookup.c:108-121).
SymbolsTypeOK ==
  /\ tab \in [Sym -> [e : Expr, desc : DOMAIN heap \cup {EmptyDesc}] \cup {NoEntry}]
  /\ DOMAIN heap \subseteq Str /\ \A s \in DOMAIN heap : heap[s] \in Expr
  /\ \A t \in Writer \cup Helper : at[t] \in {"idle", "describe", "value"}

\* No two entries share a description, and none is left allocated without an
\* entry, whatever the writers interleave (symlookup.c:48-78, 133-156).
Described(d) == {s \in Sym : tab[s] # NoEntry /\ tab[s].desc = d}
OwnedOnce == \A d \in DOMAIN heap : Cardinality(Described(d)) = 1

\* When no set is under way, a description is that of the expression it was
\* given with: setting a symbol and its description is one operation to the
\* user (sfunc.c:207-213).  It holds of the symbols that one thread sets; two
\* writers of a symbol can mix their values and descriptions.
Describes(s) ==
  tab[s] # NoEntry /\ tab[s].desc \in DOMAIN heap => heap[tab[s].desc] = tab[s].e
DescribesValue == at[Main] = "idle" => \A s \in Sym \ Shared : Describes(s)

\* The three together: every description belongs to one entry, is not freed while it
\* does, and is that of the expression it was given with, although value and
\* description are set in two locked steps (symlookup.c:48-156, sfunc.c:207-213).
DescriptionsOwned == SymbolsTypeOK /\ OwnedOnce /\ DescribesValue

\* This fails of the symbols that several writers set.
DescribesShared ==
  (\A t \in Writer : at[t] = "idle") => \A s \in Shared : Describes(s)

\* A set that is given no description does not change the one there is
\* (lisp.h:311-312).
KeepsDescription ==
  [][\A t \in Writer : at[t] = "describe" /\ arg[t].e = NoExpr /\ SetDescribe(t)
       => \A s \in Sym : tab[s] # NoEntry => tab'[s].desc = tab[s].desc]_symvars

\* Help finds the expression of a symbol whose description it has found
\* (nfunc.c:201-218).
HelpFindsValue == \A t \in Helper : at[t] = "value" => tab[arg[t].sym] # NoEntry

---------------------------------------------------------------------------
\* The inductive invariant of the proofs in SymbolsProofs.  What threads work on ...
Setting(t) == [sym : IF t = Main THEN Sym ELSE Shared, e : Expr \cup {NoExpr}, withDesc : BOOLEAN]
Asking     == [sym : Sym, text : Expr \cup {NoExpr}]

Threads ==
  /\ at \in [Writer \cup Helper -> {"idle", "describe", "value"}]
  /\ arg \in [Writer \cup Helper -> (UNION {Setting(t) : t \in Writer}) \cup Asking \cup [sym : {NoEntry}]]
  /\ \A t \in Writer : at[t] # "value" /\ (at[t] = "describe" => arg[t] \in Setting(t))
  /\ \A t \in Helper : at[t] # "describe"

\* ... which strings the entries point to, and which entry each string has ...
Pointers ==
  /\ tab \in [Sym -> [e : Expr, desc : DOMAIN heap \cup {EmptyDesc}] \cup {NoEntry}]
  /\ DOMAIN heap \subseteq Str /\ heap \in [DOMAIN heap -> Expr]

Owners ==
  \A d \in DOMAIN heap : \E s \in Sym :
    \A x \in Sym : tab[x] # NoEntry /\ tab[x].desc = d <=> x = s

\* ... and what is true of a symbol of Main's between the two calls of its set.
HalfSet(s) == at[Main] = "describe" /\ arg[Main].sym = s
Values ==
  \A s \in Sym \ Shared :
    IF HalfSet(s) THEN tab[s] # NoEntry /\ arg[Main].e \in {tab[s].e, NoExpr}
                  ELSE Describes(s)

SymbolsInv == Threads /\ Pointers /\ Owners /\ Values
=============================================================================
