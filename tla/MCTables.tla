----------------------------- MODULE MCTables -----------------------------
(* Model-checking instances of the tables the interpreter is built from,   *)
(* side by side: the blocks of the memory pool, the symbol table, loaded    *)
(* libraries, and the list, the stack and the buffer underneath.  part says  *)
(* which of them a behaviour is of; the others stay in their initial states. *)
EXTENDS BlockTable, Symbols, Loading, Links, Growing, TLC

CONSTANTS lib1, name1, name2

VARIABLES part

tvars == <<stkvars, bufvars>>
ASSUME TablesAssumption == SymbolsAssumption /\ LoadingAssumption /\ LinksAssumption /\ GrowingAssumption

MCFunctions == lib1 :> {name1, name2}

MCInit ==
  /\ part \in {"blocks", "symbols", "libraries", "list", "stack", "buffer"}
  /\ Init /\ SymbolsInit /\ LoadingInit /\ LinksInit /\ StackInit /\ BuffersInit
  /\ part # "stack" => stk.limit = 1
  /\ part # "buffer" => dynb.limit = 2

BlockStep  == part = "blocks"    /\ Next        /\ UNCHANGED <<part, symvars, ldvars, lkvars, tvars>>
SymbolStep == part = "symbols"   /\ SymbolsNext /\ UNCHANGED <<part, vars, ldvars, lkvars, tvars>>
LoadStep   == part = "libraries" /\ LoadingNext /\ UNCHANGED <<part, vars, symvars, lkvars, tvars>>
ListStep   == part = "list"      /\ LinksNext   /\ UNCHANGED <<part, vars, symvars, ldvars, tvars>>
StackStep  == part = "stack"     /\ StackNext   /\ UNCHANGED <<part, vars, symvars, ldvars, lkvars, bufvars>>
BufferStep == part = "buffer"    /\ BuffersNext /\ UNCHANGED <<part, vars, symvars, ldvars, lkvars, stkvars>>

MCNext == BlockStep \/ SymbolStep \/ LoadStep \/ ListStep \/ StackStep \/ BufferStep

MCSpec == MCInit /\ [][MCNext]_<<part, vars, symvars, ldvars, lkvars, tvars>>
===========================================================================
