----------------------------- MODULE MCRequests -----------------------------
(* Model-checking instances of what evaluating threads hold: the blocks a    *)
(* host reads from, the evaluations in progress, files and children.  part   *)
(* says which of them a behaviour is of; the others stay in their initial    *)
(* states.                                                                   *)
EXTENDS GcSwitch, EvalSteps, Files, TLC

VARIABLES part

ASSUME RequestsFit == EvalAssumption /\ FilesAssumption

Symmetry == Permutations(Fraw) \cup Permutations(Thread)

MCInit == part \in {"read", "eval", "files"} /\ Init /\ EvalInit /\ FilesInit

ReadStep == part = "read"  /\ Next        /\ UNCHANGED <<part, evalvars, filevars>>
EvalStep == part = "eval"  /\ EvalNext    /\ UNCHANGED <<part, vars, filevars>>
FileStep == part = "files" /\ FilesNext   /\ UNCHANGED <<part, vars, evalvars>>

MCSpec == MCInit /\ [][ReadStep \/ EvalStep \/ FileStep]_<<part, vars, evalvars, filevars>>
=============================================================================
