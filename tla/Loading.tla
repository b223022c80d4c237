------------------------------ MODULE Loading ------------------------------
(**************************************************************************)
(* Libraries of native functions and files of lisp code, as evaluating    *)
(* threads load them: load-cnf, unload-cnf and interpret-file             *)
(* (src/ylisp/nfunc.c), the registration of functions (lisp.c) and what   *)
(* the two libraries do when they are loaded and unloaded (libmain.c).    *)
(* The dynamic loader counts how often a library is opened and unmaps it  *)
(* when it has been closed as often.                                      *)
(**************************************************************************)
EXTENDS Naturals, Sequences, FiniteSets, SequencesExt

CONSTANTS
  Thread, Lib,
  Functions,          \* library -> the symbols of its functions
  user,               \* a value that is no native function
  MaxRefs,            \* bound: how often a library is open
  MaxNest             \* bound: files being interpreted inside of each other

LoadingAssumption ==
  /\ {user, "none"} \cap Lib = {} /\ {MaxRefs, MaxNest} \subseteq Nat
  /\ IsFiniteSet(Thread)

VARIABLES
  refs,               \* library -> how often it is open
  bound,                \* symbol -> the library of its function, user or "none"
  held,               \* a function that a thread has looked up and will call
  call,               \* the load or unload that a thread is in
  files,              \* the files a thread is interpreting, innermost last
  open                \* the files that are open

ldvars == <<refs, bound, held, call, files, open>>

Names == UNION {Functions[l] : l \in Lib}
Idle == [op |-> "idle"]
At(t, op) == call[t].op = op
Mapped(l) == refs[l] > 0

LoadingInit ==
  /\ refs = [l \in Lib |-> 0] /\ bound = [s \in Names |-> "none"]
  /\ held = [t \in Thread |-> "none"] /\ call = [t \in Thread |-> Idle]
  /\ files = [t \in Thread |-> <<>>] /\ open = {}

----------------------------------------------------------------------------
\* Wrong versions of the definitions below: a library is closed once its
\* functions have been registered; only a file that ends well is closed.
LoadCloses(l) == refs' = [refs EXCEPT ![l] = @ - 1]
BailForgets(f) == UNCHANGED open

\* dlopen; the library is found or the call fails.
Open(t, op, l) ==
  /\ At(t, "idle") /\ refs[l] < MaxRefs
  /\ refs' = [refs EXCEPT ![l] = @ + 1]
  /\ call' = [call EXCEPT ![t] = [op |-> op, lib |-> l, todo |-> Functions[l]]]
  /\ UNCHANGED <<bound, held, files, open>>

NotFound(t) ==
  /\ At(t, "idle")
  /\ call' = [call EXCEPT ![t] = [op |-> "failing"]]
  /\ UNCHANGED <<refs, bound, held, files, open>>

\* dlsym finds no entry point, and the library is closed again.
NoEntryPoint(t) ==
  /\ call[t].op \in {"load", "unload"} /\ call[t].todo = Functions[call[t].lib]
  /\ refs' = [refs EXCEPT ![call[t].lib] = @ - 1]
  /\ call' = [call EXCEPT ![t] = [op |-> "failing"]]
  /\ UNCHANGED <<bound, held, files, open>>

\* ylcnf_onload: ylregister_nfunc for each function, which replaces what the
\* symbol had.
Register(t, s) ==
  /\ At(t, "load") /\ s \in call[t].todo
  /\ bound' = [bound EXCEPT ![s] = call[t].lib]
  /\ call' = [call EXCEPT ![t].todo = @ \ {s}]
  /\ UNCHANGED <<refs, held, files, open>>

\* The library's version is too low for the first function it registers, and
\* load-cnf succeeds without any.
Refused(t) ==
  /\ At(t, "load") /\ call[t].todo = Functions[call[t].lib]
  /\ call' = [call EXCEPT ![t] = Idle]
  /\ UNCHANGED <<refs, bound, held, files, open>>

\* The end of load-cnf, which leaves the library open.
LoadLeaves(l) == UNCHANGED refs
Loaded(t) ==
  /\ At(t, "load") /\ call[t].todo = {}
  /\ LoadLeaves(call[t].lib)
  /\ call' = [call EXCEPT ![t] = Idle]
  /\ UNCHANGED <<bound, held, files, open>>

\* ylcnf_onunload: ylunregister_nfunc for each name, whatever it is bound to.
Unregister(t, s) ==
  /\ At(t, "unload") /\ s \in call[t].todo
  /\ bound' = [bound EXCEPT ![s] = "none"]
  /\ call' = [call EXCEPT ![t].todo = @ \ {s}]
  /\ UNCHANGED <<refs, held, files, open>>

Unloaded(t) ==
  /\ At(t, "unload") /\ call[t].todo = {}
  /\ refs' = [refs EXCEPT ![call[t].lib] = @ - 1]
  /\ call' = [call EXCEPT ![t] = Idle]
  /\ UNCHANGED <<bound, held, files, open>>

\* What evaluation does meanwhile: a symbol is set, a function is looked up
\* (and kept, as an operator or in a list), and called.
Set(t, s) ==
  /\ At(t, "idle") /\ bound' = [bound EXCEPT ![s] = user]
  /\ UNCHANGED <<refs, held, call, files, open>>

Lookup(t, s) ==
  /\ At(t, "idle") /\ held' = [held EXCEPT ![t] = bound[s]]
  /\ UNCHANGED <<refs, bound, call, files, open>>

\* interpret-file: fopen, which returns a handle that is not open (the lowest, as
\* which one makes no difference) ...
Handles == 1..MaxNest * Cardinality(Thread)
OpenFile(t) ==
  /\ At(t, "idle") /\ Len(files[t]) < MaxNest
  /\ \E f \in Handles \ open :
       /\ \A g \in Handles \ open : f <= g
       /\ files' = [files EXCEPT ![t] = Append(@, f)] /\ open' = open \cup {f}
  /\ UNCHANGED <<refs, bound, held, call>>

\* ... the end of the interpretation of the innermost file ...
CloseFile(t) ==
  /\ At(t, "idle") /\ files[t] # <<>>
  /\ files' = [files EXCEPT ![t] = Front(@)] /\ open' = open \ {Last(files[t])}
  /\ UNCHANGED <<refs, bound, held, call>>

\* ... and bail: a failure ends the files that are being interpreted, from the
\* innermost outwards.
Closed(f) == open' = open \ {f}
Bail(t) ==
  /\ At(t, "failing") /\ files[t] # <<>>
  /\ Closed(Last(files[t])) /\ files' = [files EXCEPT ![t] = Front(@)]
  /\ UNCHANGED <<refs, bound, held, call>>

Failed(t) ==
  /\ At(t, "failing") /\ files[t] = <<>>
  /\ call' = [call EXCEPT ![t] = Idle] /\ held' = [held EXCEPT ![t] = "none"]
  /\ UNCHANGED <<refs, bound, files, open>>

LoadingNext ==
  \E t \in Thread :
    \/ \E l \in Lib, op \in {"load", "unload"} : Open(t, op, l)
    \/ NotFound(t) \/ NoEntryPoint(t)
    \/ Refused(t) \/ Loaded(t) \/ Unloaded(t)
    \/ \E s \in Names : Register(t, s) \/ Unregister(t, s) \/ Set(t, s) \/ Lookup(t, s)
    \/ OpenFile(t) \/ CloseFile(t) \/ Bail(t) \/ Failed(t)

LoadingSpec == LoadingInit /\ [][LoadingNext]_ldvars

----------------------------------------------------------------------------
\* The code of every function that a symbol is bound to, or that somebody has
\* looked up, is mapped, whatever is unloaded meanwhile (nfunc.c:248, 294):
\* unload-cnf closes what it has opened itself, and load-cnf nothing.
CodeIsMapped ==
  /\ \A s \in Names : bound[s] \in Lib => Mapped(bound[s])
  /\ \A t \in Thread : held[t] \in Lib => Mapped(held[t])

\* The open files are those that are being interpreted: however deep an error
\* is, every file is closed on the way out (nfunc.c:346-379).
FilesClosed == open = UNION {Range(files[t]) : t \in Thread}

----------------------------------------------------------------------------
\* The inductive invariant of the proofs in MemoryProofs.  A library is open once for
\* every thread that may still close it, which a load does only before it registers
\* anything, and once more if a function of it is, was or may be about.
Value == Lib \cup {user, "none"}
Calls == [op : {"idle", "failing"}] \cup [op : {"load", "unload"}, lib : Lib, todo : SUBSET Names]

LoadingTypeOK ==
  /\ refs \in [Lib -> Nat] /\ bound \in [Names -> Value] /\ held \in [Thread -> Value]
  /\ call \in [Thread -> Calls] /\ files \in [Thread -> Seq(Handles)]
  /\ \A t \in Thread : call[t].op \in {"load", "unload"} => call[t].todo \subseteq Functions[call[t].lib]

Untouched(t) == call[t].todo = Functions[call[t].lib]
MayClose(l) ==
  {t \in Thread : /\ call[t].op \in {"load", "unload"} /\ call[t].lib = l
                  /\ call[t].op = "load" => Untouched(t)}
Needed(l) ==
  \/ \E s \in Names : bound[s] = l
  \/ \E t \in Thread : held[t] = l \/ (At(t, "load") /\ call[t].lib = l /\ ~Untouched(t))
RefsCover ==
  \A l \in Lib : /\ Cardinality(MayClose(l)) <= refs[l]
                 /\ Needed(l) => Cardinality(MayClose(l)) < refs[l]

\* Every open file is being interpreted, once.
OnceEach ==
  \A t, u \in Thread : \A i \in DOMAIN files[t], j \in DOMAIN files[u] :
    files[t][i] = files[u][j] => t = u /\ i = j

LoadingInv == LoadingTypeOK /\ RefsCover /\ OnceEach /\ FilesClosed

\* An unload takes away what the load has brought.  This fails: symbols that
\* have been set since are deleted as well (lisp.c:387-390).
UnloadTakesItsOwn ==
  [][\A s \in Names : bound[s] = user => bound'[s] # "none"]_ldvars
=============================================================================
