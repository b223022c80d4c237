----------------------------- MODULE EvalSteps -----------------------------
(***************************************************************************)
(* The book-keeping of evaluation steps: what yleval (src/ylisp/sfunc.c)   *)
(* pushes and pops, the threads ylinterpret_internal (src/ylisp/           *)
(* interpret.c) stacks up in a context, and what is left of both when an   *)
(* evaluation gives up with ylinterpret_undefined, which is pthread_exit.  *)
(* The thread that gives up leaves its yleval frames without unwinding     *)
(* them; the thread that joins it empties the context's evaluation stack.  *)
(*                                                                         *)
(* Stacks are their heights: which expression is on them matters to no     *)
(* step.  Requests follow each other; each has a context of its own, and   *)
(* all share the memory pool's stack of base blocks.                       *)
(***************************************************************************)
EXTENDS Naturals, Sequences

CONSTANTS
  MaxDepth,           \* threads of a context (nested interpretations)
  MaxFrames,          \* yleval calls open in one thread
  MaxRequests,        \* interpretation requests
  FailDepth           \* evaluations fail in threads up to this depth

EvalAssumption == MaxDepth \in Nat \ {0} /\ {MaxFrames, MaxRequests, FailDepth} \subseteq Nat

VARIABLES
  threads,            \* open yleval frames of each thread, outermost first
  at,                 \* the topmost thread: "eval", or "tail" of a yleval
  evalstk,            \* height of cxt->evalstk
  bbs,                \* height of the pool's base block stack _bbs
  requests,           \* requests begun
  aborted             \* an assertion of stack.h has failed

evalvars == <<threads, at, evalstk, bbs, requests, aborted>>

Depth == Len(threads)
Top   == threads[Depth]
Outer == SubSeq(threads, 1, Depth - 1)

EvalInit ==
  /\ threads = <<>> /\ at = "eval"
  /\ evalstk = 0 /\ bbs = 0
  /\ requests = 0
  /\ aborted = FALSE

---------------------------------------------------------------------------
\* Wrong versions of the actions below.  They are no part of the model:
\* PROJECT.json names, for each, the property that tells it from the code.
LeaveWithoutPop ==        \* the evaluation stack keeps e
  /\ ~aborted /\ Depth > 0 /\ at = "eval" /\ Top > 0
  /\ bbs' = bbs - 2 + 1
  /\ at' = "tail"
  /\ UNCHANGED <<threads, evalstk, requests, aborted>>

LeaveUnprotected ==       \* the result is not registered at the safe point
  /\ ~aborted /\ Depth > 0 /\ at = "eval" /\ Top > 0
  /\ evalstk > 0
  /\ evalstk' = evalstk - 1
  /\ bbs' = bbs - 2
  /\ at' = "tail"
  /\ UNCHANGED <<threads, requests, aborted>>

---------------------------------------------------------------------------
\* _interpret: a new context with empty stacks, and its first thread.
Request ==
  /\ ~aborted /\ threads = <<>>
  /\ requests < MaxRequests
  /\ requests' = requests + 1
  /\ threads' = <<0>>
  /\ evalstk' = 0
  /\ UNCHANGED <<at, bbs, aborted>>

\* yleval's entry: push e, protect e and a.
EvalEnter ==
  /\ ~aborted /\ Depth > 0 /\ at = "eval"
  /\ Top < MaxFrames
  /\ threads' = [threads EXCEPT ![Depth] = @ + 1]
  /\ evalstk' = evalstk + 1
  /\ bbs' = bbs + 2
  /\ UNCHANGED <<at, requests, aborted>>

\* yleval's exit up to the safe point: release e and a, pop, protect r.
EvalLeave ==
  /\ ~aborted /\ Depth > 0 /\ at = "eval" /\ Top > 0
  /\ bbs' = bbs - 2 + 1
  /\ IF evalstk = 0
     THEN aborted' = TRUE /\ UNCHANGED <<evalstk, at>>
     ELSE evalstk' = evalstk - 1 /\ at' = "tail" /\ UNCHANGED aborted
  /\ UNCHANGED <<threads, requests>>

\* ... and after it: hand r over to the caller.
EvalReturn ==
  /\ ~aborted /\ Depth > 0 /\ at = "tail"
  /\ bbs' = bbs - 1
  /\ at' = "eval"
  /\ threads' = [threads EXCEPT ![Depth] = @ - 1]
  /\ UNCHANGED <<evalstk, requests, aborted>>

\* nfunc interpret, called by some yleval: another thread on the context.
Nest ==
  /\ ~aborted /\ Depth > 0 /\ at = "eval" /\ Top > 0
  /\ Depth < MaxDepth
  /\ threads' = Append(threads, 0)
  /\ UNCHANGED <<at, evalstk, bbs, requests, aborted>>

\* The thread is through with its stream.
Complete ==
  /\ ~aborted /\ Depth > 0 /\ at = "eval" /\ Top = 0
  /\ threads' = Outer
  /\ UNCHANGED <<at, evalstk, bbs, requests, aborted>>

\* ylinterpret_undefined anywhere in an evaluation, or a kill acted on at the
\* safe point.  The joining thread pops (and prints) the evaluation stack of
\* the context, all of it.
GiveUp ==
  /\ ~aborted /\ Depth > 0
  /\ Depth <= FailDepth
  /\ threads' = Outer
  /\ at' = "eval"
  /\ evalstk' = 0
  /\ UNCHANGED <<bbs, requests, aborted>>

Over ==
  /\ aborted \/ (threads = <<>> /\ requests = MaxRequests)
  /\ UNCHANGED evalvars

EvalNext ==
  \/ Request \/ EvalEnter \/ EvalLeave \/ EvalReturn
  \/ Nest \/ Complete \/ GiveUp \/ Over

EvalSpec == EvalInit /\ [][EvalNext]_evalvars

---------------------------------------------------------------------------
\* The sum of some numbers.
SumOf(s) ==
  LET upto[i \in 0..Len(s)] == IF i = 0 THEN 0 ELSE upto[i - 1] + s[i] IN upto[Len(s)]
Frames == SumOf(threads)
InTail == IF at = "tail" THEN 1 ELSE 0

\* Heights stay within the bounds of the model.
EvalTypeOK ==
  /\ threads \in Seq(0 .. MaxFrames) /\ Depth <= MaxDepth
  /\ at \in {"eval", "tail"}
  /\ evalstk \in 0 .. MaxDepth * MaxFrames
  /\ bbs \in Nat
  /\ requests \in 0 .. MaxRequests
  /\ aborted \in BOOLEAN

\* The evaluation stack holds the evaluations in progress, those of the outer
\* threads included.
StackIsFrames == Depth > 0 => evalstk + InTail = Frames

\* Every evaluation in progress has e and a, or at the safe point its result,
\* among the base blocks.
OperandsProtected == bbs >= 2 * Frames - InTail

\* The evaluation stack holds exactly the evaluations in progress, each of which has its
\* operands, or its result, among the base blocks (sfunc.c:639-654, 674-682).
FramesProtected == EvalTypeOK /\ StackIsFrames /\ OperandsProtected

\* The inductive invariant of the proofs in RequestProofs: only an evaluation that has
\* begun gets to its tail, and nothing is on the stack but what is in progress, between
\* two requests as well.
EvalInv ==
  /\ threads \in Seq(0 .. MaxFrames) /\ Depth <= MaxDepth
  /\ at \in {"eval", "tail"} /\ (at = "tail" => Depth > 0 /\ Top > 0)
  /\ evalstk \in Nat /\ evalstk + InTail = Frames
  /\ bbs \in Nat /\ OperandsProtected
  /\ requests \in 0 .. MaxRequests
  /\ aborted = FALSE

\* yleval never pops an empty stack (stack.h:120-121, "Trying to pop on empty
\* stack is not allowed!").
NeverPopsEmpty == ~aborted

\* Between two requests no base block is registered (README:452, "exiting from
\* thread is enough!"; README:383-384, "after end of 'eval' registered base
\* blocks should be released").
NothingLeftBehind == threads = <<>> => bbs = 0

===========================================================================
