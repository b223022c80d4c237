----------------------------- MODULE SafePoint -----------------------------
(***************************************************************************)
(* Safe points, garbage collection and killing of evaluation threads:      *)
(* src/ylisp/mthread.c with the listeners mempool.c registers there, and   *)
(* the life of a thread context in interpret.c.                            *)
(*                                                                         *)
(* An interpretation request has a context, used by a stack of threads:    *)
(* the base thread (_interpret), which only joins, and one inner thread    *)
(* per nested ylinterpret_internal, of which only the topmost runs.  So    *)
(* one program counter per context is enough; depth is the height of       *)
(* cxt->thdstk.  Each action is what a thread does between two points      *)
(* where another thread can see the difference; _m and _mm are the mutexes *)
(* of mthread.c and mempool.c.  Every context serves one request.          *)
(***************************************************************************)
EXTENDS Integers, FiniteSets

CONSTANTS
  Ctx,                \* contexts, one per interpretation request
  None,               \* no context: a mutex that is free
  Killable,           \* contexts some script kills (nfunc_mt.c, kill)
  MaxDepth,           \* how deep interpretations nest in one context
  PoolSize,           \* blocks in the memory pool (ylmpsz)
  Gctp                \* collection trigger in percent (ylgctp)

ASSUME CtxAssumption   == None \notin Ctx /\ Killable \subseteq Ctx
ASSUME DepthAssumption == MaxDepth \in Nat \ {0}
ASSUME PoolAssumption  == PoolSize \in Nat \ {0} /\ Gctp \in 1 .. 99

VARIABLES
  pc,                 \* where the topmost thread of the context is
  depth,              \* height of cxt->thdstk
  reg,                \* contexts on mthread's list _cxtl
  safe,               \* contexts whose state has ETST_SAFE
  sig,                \* contexts whose sig has ETSIG_KILL
  cancel,             \* contexts whose topmost thread has a cancel pending
  m,                  \* owner of mthread's _m
  mm,                 \* owner of mempool's _mm
  waiting,            \* threads blocked on _condgc and not yet signalled
  used                \* blocks in use (_mbt_nr_used_blk)

vars == <<pc, depth, reg, safe, sig, cancel, m, mm, waiting, used>>

---------------------------------------------------------------------------
\* Program points at which a thread is inside a critical section of _m.
Collecting == {"gc", "sweep"}
AllSafePcs == {"all_safe", "bcast"} \cup Collecting
Critical   == {"add_mm", "add_list", "thd_safe", "sig", "unlock"} \cup AllSafePcs
Pcs        == {"idle", "run", "wait", "safe", "rm", "done"} \cup Critical

\* _usage_ratio() >= ylgctp()
Pressure(n) == (n * 100) \div PoolSize >= Gctp

\* _etst_is_all(ETST_SAFE)
AllSafe(r, s) == r \subseteq s

Goto(c, to) == pc' = [pc EXCEPT ![c] = to]

Init ==
  /\ pc = [c \in Ctx |-> "idle"]
  /\ depth = [c \in Ctx |-> 0]
  /\ reg = {} /\ safe = {} /\ sig = {} /\ cancel = {}
  /\ m = None /\ mm = None
  /\ waiting = {}
  /\ used = 0

---------------------------------------------------------------------------
\* Wrong versions of the actions below.  They are no part of the model:
\* PROJECT.json names, for each, the property that tells it from the code.
AllocPastEnd(c) ==        \* the bound test of the pool is off by one
  /\ pc[c] = "run"
  /\ mm = None
  /\ used <= PoolSize
  /\ used' = used + 1
  /\ UNCHANGED <<pc, depth, reg, safe, sig, cancel, m, mm, waiting>>

NotifySafeAny(c) ==       \* somebody safe is taken for everybody safe
  /\ pc[c] = "run"
  /\ m = None
  /\ m' = c
  /\ safe' = safe \cup {c}
  /\ Goto(c, IF reg \cap safe' # {} THEN "all_safe" ELSE "thd_safe")
  /\ UNCHANGED <<depth, reg, sig, cancel, mm, waiting, used>>

GcSweepKeepsMm(c) ==      \* _mm is not released before the broadcast
  /\ pc[c] = "sweep"
  /\ used' \in 0 .. used
  /\ Goto(c, "bcast")
  /\ UNCHANGED <<depth, reg, safe, sig, cancel, m, mm, waiting>>

BroadcastToNobody(c) ==   \* the broadcast is forgotten
  /\ pc[c] = "bcast"
  /\ Goto(c, IF c \in reg THEN "sig" ELSE "unlock")
  /\ UNCHANGED <<depth, reg, safe, sig, cancel, m, mm, waiting, used>>

SigNoneKeepsLock(c) ==    \* a return that does not unlock _m
  /\ pc[c] = "sig"
  /\ c \notin sig
  /\ Goto(c, "safe")
  /\ UNCHANGED <<depth, reg, safe, sig, cancel, m, mm, waiting, used>>

NotifyUnsafeNoLock(c) ==  \* the flag is cleared without _m
  /\ pc[c] = "safe"
  /\ safe' = safe \ {c}
  /\ Goto(c, "run")
  /\ UNCHANGED <<depth, reg, sig, cancel, m, mm, waiting, used>>

RemoveNoRecheck(c) ==     \* ylmt_rm only unlinks
  /\ pc[c] = "rm"
  /\ m = None
  /\ m' = c
  /\ reg' = reg \ {c}
  /\ Goto(c, "unlock")
  /\ UNCHANGED <<depth, safe, sig, cancel, mm, waiting, used>>

RemoveNoLock(c) ==        \* ylmt_rm unlinks, then takes _m
  /\ pc[c] = "rm"
  /\ reg' = reg \ {c}
  /\ m' = c
  /\ Goto(c, IF AllSafe(reg', safe) THEN "all_safe" ELSE "unlock")
  /\ UNCHANGED <<depth, safe, sig, cancel, mm, waiting, used>>

---------------------------------------------------------------------------
\* ylmt_add: take _m, let mempool's pre_add listener take _mm, link the
\* context, release both.  The state and sig words start at 0, and the inner
\* thread is created (ylinterpret_internal).
AddLock(c) ==
  /\ pc[c] = "idle"
  /\ m = None
  /\ m' = c
  /\ Goto(c, "add_mm")
  /\ UNCHANGED <<depth, reg, safe, sig, cancel, mm, waiting, used>>

AddPre(c) ==
  /\ pc[c] = "add_mm"
  /\ mm = None
  /\ mm' = c
  /\ Goto(c, "add_list")
  /\ UNCHANGED <<depth, reg, safe, sig, cancel, m, waiting, used>>

AddList(c) ==
  /\ pc[c] = "add_list"
  /\ reg' = reg \cup {c}
  /\ mm' = None
  /\ m' = None
  /\ depth' = [depth EXCEPT ![c] = 1]
  /\ Goto(c, "run")
  /\ UNCHANGED <<safe, sig, cancel, waiting, used>>

---------------------------------------------------------------------------
\* ylmp_block.  An empty pool makes the program assert: no step follows.
Alloc(c) ==
  /\ pc[c] = "run"
  /\ mm = None
  /\ used < PoolSize
  /\ used' = used + 1
  /\ UNCHANGED <<pc, depth, reg, safe, sig, cancel, m, mm, waiting>>

\* ylmt_notify_safe up to the choice of the listener.
NotifySafe(c) ==
  /\ pc[c] = "run"
  /\ m = None
  /\ m' = c
  /\ safe' = safe \cup {c}
  /\ Goto(c, IF AllSafe(reg, safe') THEN "all_safe" ELSE "thd_safe")
  /\ UNCHANGED <<depth, reg, sig, cancel, mm, waiting, used>>

\* mempool's thd_safe listener: under pressure wait for the collection,
\* which releases _m.
ThdSafe(c) ==
  /\ pc[c] = "thd_safe"
  /\ mm = None
  /\ IF Pressure(used)
     THEN /\ m' = None
          /\ waiting' = waiting \cup {c}
          /\ Goto(c, "wait")
     ELSE /\ Goto(c, "sig")
          /\ UNCHANGED <<m, waiting>>
  /\ UNCHANGED <<depth, reg, safe, sig, cancel, mm, used>>

\* pthread_cond_wait returns with _m locked again; the condition is not
\* looked at a second time.
Wake(c) ==
  /\ pc[c] = "wait"
  /\ c \notin waiting
  /\ m = None
  /\ m' = c
  /\ Goto(c, "sig")
  /\ UNCHANGED <<depth, reg, safe, sig, cancel, mm, waiting, used>>

\* POSIX lets a wait return without a broadcast.
SpuriousWakeup(c) ==
  /\ c \in waiting
  /\ waiting' = waiting \ {c}
  /\ UNCHANGED <<pc, depth, reg, safe, sig, cancel, m, mm, used>>

---------------------------------------------------------------------------
\* mempool's all_safe listener, called with _m held by the thread that made
\* the last context safe, or by ylmt_rm (then c is not registered any more).
Return(c) == IF c \in reg THEN "sig" ELSE "unlock"

AllSafeEnter(c) ==
  /\ pc[c] = "all_safe"
  /\ mm = None
  /\ IF Pressure(used)
     THEN \/ /\ mm' = c              \* _gc_enabled: collect under _mm
             /\ Goto(c, "gc")
          \/ /\ Goto(c, "bcast")     \* collection switched off: warn only
             /\ UNCHANGED mm
     ELSE /\ Goto(c, Return(c))
          /\ UNCHANGED mm
  /\ UNCHANGED <<depth, reg, safe, sig, cancel, m, waiting, used>>

\* _gc: the marking phase, and the sweep, which may find no garbage at all.
GcMark(c) ==
  /\ pc[c] = "gc"
  /\ Goto(c, "sweep")
  /\ UNCHANGED <<depth, reg, safe, sig, cancel, m, mm, waiting, used>>

GcSweep(c) ==
  /\ pc[c] = "sweep"
  /\ used' \in 0 .. used
  /\ mm' = None
  /\ Goto(c, "bcast")
  /\ UNCHANGED <<depth, reg, safe, sig, cancel, m, waiting>>

Broadcast(c) ==
  /\ pc[c] = "bcast"
  /\ waiting' = {}
  /\ Goto(c, Return(c))
  /\ UNCHANGED <<depth, reg, safe, sig, cancel, m, mm, used>>

---------------------------------------------------------------------------
\* The end of the topmost thread: its cancel request dies with it.  The base
\* thread goes on to ylmt_rm, an outer interpretation goes on evaluating.
EndThread(c) ==
  /\ depth' = [depth EXCEPT ![c] = @ - 1]
  /\ cancel' = cancel \ {c}
  /\ Goto(c, IF depth[c] = 1 THEN "rm" ELSE "run")

\* ylmt_notify_safe's tail: die of a KILL signal, or return SAFE.
SigKill(c) ==
  /\ pc[c] = "sig"
  /\ c \in sig
  /\ safe' = safe \ {c}
  /\ m' = None
  /\ EndThread(c)
  /\ UNCHANGED <<reg, sig, mm, waiting, used>>

SigNone(c) ==
  /\ pc[c] = "sig"
  /\ c \notin sig
  /\ m' = None
  /\ Goto(c, "safe")
  /\ UNCHANGED <<depth, reg, safe, sig, cancel, mm, waiting, used>>

\* ylmt_notify_unsafe, after nothing (yleval) or a long wait (sh, sleep).
NotifyUnsafe(c) ==
  /\ pc[c] = "safe"
  /\ m = None
  /\ safe' = safe \ {c}
  /\ Goto(c, "run")
  /\ UNCHANGED <<depth, reg, sig, cancel, m, mm, waiting, used>>

---------------------------------------------------------------------------
\* A nested (interpret ...): another thread on the same context.  A pending
\* cancel is acted on before.
Nest(c) ==
  /\ pc[c] = "run"
  /\ depth[c] < MaxDepth
  /\ c \notin cancel
  /\ depth' = [depth EXCEPT ![c] = @ + 1]
  /\ UNCHANGED <<pc, reg, safe, sig, cancel, m, mm, waiting, used>>

\* The stream is done, or ylinterpret_undefined after an evaluation error.
Exit(c) ==
  /\ pc[c] = "run"
  /\ EndThread(c)
  /\ UNCHANGED <<reg, safe, sig, m, mm, waiting, used>>

\* A native function fails between notify_safe and notify_unsafe (fraw-read):
\* nobody clears ETST_SAFE.
ExitSafe(c) ==
  /\ pc[c] = "safe"
  /\ EndThread(c)
  /\ UNCHANGED <<reg, safe, sig, m, mm, waiting, used>>

\* ylmt_rm: unlink; if everybody left is safe, nobody else will notice.
Remove(c) ==
  /\ pc[c] = "rm"
  /\ m = None
  /\ m' = c
  /\ reg' = reg \ {c}
  /\ Goto(c, IF AllSafe(reg', safe) THEN "all_safe" ELSE "unlock")
  /\ UNCHANGED <<depth, safe, sig, cancel, mm, waiting, used>>

Unlock(c) ==
  /\ pc[c] = "unlock"
  /\ m' = None
  /\ Goto(c, "done")
  /\ UNCHANGED <<depth, reg, safe, sig, cancel, mm, waiting, used>>

---------------------------------------------------------------------------
\* ylmt_kill: under _m, a safe target is cancelled, another one gets the
\* signal.  Killing oneself is refused.
Kill(k, t) ==
  /\ pc[k] = "run"
  /\ m = None
  /\ t \in (reg \cap Killable) \ {k}
  /\ IF t \in safe
     THEN cancel' = cancel \cup {t} /\ UNCHANGED sig
     ELSE sig' = sig \cup {t} /\ UNCHANGED cancel
  /\ UNCHANGED <<pc, depth, reg, safe, m, mm, waiting, used>>

\* The pending cancel is acted on at a cancellation point: in the blocking
\* call of a safe native function, in some system call of an evaluation, ...
Cancelled(c) ==
  /\ c \in cancel
  /\ pc[c] \in {"safe", "run"}
  /\ EndThread(c)
  /\ UNCHANGED <<reg, safe, sig, m, mm, waiting, used>>

\* ... or in pthread_cond_wait, which takes _m again before the thread dies;
\* no cleanup handler releases it.
CancelledWaiting(c) ==
  /\ c \in cancel
  /\ pc[c] = "wait"
  /\ m = None
  /\ m' = c
  /\ waiting' = waiting \ {c}
  /\ EndThread(c)
  /\ UNCHANGED <<reg, safe, sig, mm, used>>

---------------------------------------------------------------------------
\* All requests are served.
Finished ==
  /\ \A c \in Ctx : pc[c] = "done"
  /\ UNCHANGED vars

Step(c) ==
  \/ AddLock(c) \/ AddPre(c) \/ AddList(c)
  \/ Alloc(c) \/ NotifySafe(c) \/ ThdSafe(c) \/ Wake(c) \/ SpuriousWakeup(c)
  \/ AllSafeEnter(c) \/ GcMark(c) \/ GcSweep(c) \/ Broadcast(c)
  \/ SigKill(c) \/ SigNone(c) \/ NotifyUnsafe(c)
  \/ Nest(c) \/ Exit(c) \/ ExitSafe(c) \/ Remove(c) \/ Unlock(c)
  \/ Cancelled(c) \/ CancelledWaiting(c)

Next ==
  \/ \E c \in Ctx : Step(c)
  \/ \E k, t \in Ctx : Kill(k, t)
  \/ Finished

\* A thread in a critical section leaves it; an evaluation reaches its next
\* safe point or its end after finitely many nested interpretations; a
\* contended mutex is got in the end.  Nothing is assumed of a thread that
\* blocks in a safe native function.
Fairness ==
  \A c \in Ctx :
    /\ WF_vars(AddPre(c) \/ AddList(c))
    /\ WF_vars(ThdSafe(c))
    /\ WF_vars(AllSafeEnter(c) \/ GcMark(c) \/ GcSweep(c) \/ Broadcast(c))
    /\ WF_vars(SigKill(c) \/ SigNone(c))
    /\ WF_vars(Unlock(c))
    /\ SF_vars(NotifySafe(c) \/ (depth[c] = 1 /\ Exit(c)))
    /\ SF_vars(Wake(c))
    /\ SF_vars(Remove(c))

Spec == Init /\ [][Next]_vars
FairSpec == Spec /\ Fairness

---------------------------------------------------------------------------
\* Program points, owners and sets of contexts are what they are declared to
\* be, the stack of threads and the pool stay within their bounds.
TypeOK ==
  /\ pc \in [Ctx -> Pcs]
  /\ depth \in [Ctx -> 0 .. MaxDepth]
  /\ reg \subseteq Ctx /\ safe \subseteq Ctx
  /\ sig \subseteq Ctx /\ cancel \subseteq Ctx
  /\ m \in Ctx \cup {None}
  /\ mm \in Ctx \cup {None}
  /\ waiting \subseteq Ctx
  /\ used \in 0 .. PoolSize

\* A collection runs only while no other thread evaluates (README:405, and
\* the case of mthread.c:218-227: a thread leaves notify_safe while the
\* all_safe listeners are walked).
GcExclusive ==
  (\E c \in Ctx : pc[c] \in Collecting) => \A d \in Ctx : pc[d] # "run"

\* What the collector itself tests: it runs only while every registered
\* context carries the SAFE flag, whatever the threads behind it do.
GcFlagged == (\E c \in Ctx : pc[c] \in Collecting) => AllSafe(reg, safe)

\* The rule of mthread.c:84-102: _mm is kept over a step only by a thread that
\* holds _m, so the two mutexes are always taken in the same order.
LockOrder == mm # None => m = mm /\ pc[mm] \in {"add_list"} \cup Collecting

\* Nobody is left behind on _condgc: when _m is free and everyone on the list
\* is safe, no thread waits for a broadcast.  (Why ylmt_rm looks again,
\* mthread.c:119-129.)
NoStrandedWaiter == waiting # {} /\ m = None => ~AllSafe(reg, safe)

\* A thread that waits does so because memory is short, until the broadcast:
\* an all_safe without pressure, which sends none, finds no waiter.
WaitersHavePressure ==
  waiting # {} => Pressure(used) \/ \E c \in Ctx : pc[c] = "bcast"

\* _m is never held by a thread that has ended (mthread.h:56-61: exiting from
\* the thread is not allowed in a listener).
LockHeldByLive == m # None => pc[m] \in Critical

\* Whoever ylmt_kill cancels has a thread to cancel: it peeks at the target's
\* thdstk (mthread.c:267-269; stack.h asserts that a stack it peeks at is not
\* empty).
CancelHasThread == [][\A t \in cancel' \ cancel : depth[t] > 0]_vars

\* A thread that was told to die does not come out of a safe point alive
\* (mthread.h:108-113, "Set 'KILL' signal").
KilledDiesAtSafePoint ==
  [][\A c \in Ctx : c \in sig \cup cancel /\ pc[c] = "sig" => pc'[c] # "safe"]_vars

\* A thread that waits for the collection goes on, even if other threads stay
\* in blocking native functions for ever, unless waits keep returning
\* spuriously for ever (mempool.c:227-258).  Contexts are interchangeable where
\* nobody is killed, so the property is stated of one.
SpuriousForEver == []<><<\E c \in Ctx : SpuriousWakeup(c)>>_vars
WaiterResumes ==
  LET c == CHOOSE d \in Ctx : TRUE
  IN  SpuriousForEver \/ (pc[c] = "wait" ~> pc[c] # "wait")

\* The abstract promise.  A registered context is busy unless it carries the
\* SAFE flag and its thread is really not evaluating.
World == INSTANCE StopTheWorld WITH
  mode <- [c \in Ctx |-> IF c \notin reg THEN "out"
                         ELSE IF c \in safe /\ pc[c] # "run" THEN "parked"
                         ELSE "busy"],
  collecting <- \E c \in Ctx : pc[c] \in Collecting

StopsTheWorld == World!Spec

---------------------------------------------------------------------------
\* The inductive invariant of the proofs in SafePointProofs.
Outside == {"idle", "add_mm", "add_list", "unlock", "done"}
Parked  == {"thd_safe", "wait", "sig", "safe"}

\* A thread in a critical section of _m owns _m.
OwnsLock == \A c \in Ctx : pc[c] \in Critical => m = c

\* The program points tell who is registered, who carries the flag and who
\* still has an inner thread.
Position ==
  \A c \in Ctx :
    /\ pc[c] \in Outside => c \notin reg
    /\ pc[c] \in {"idle", "add_mm", "add_list"} => c \notin safe
    /\ pc[c] = "run" \/ pc[c] \in Parked => c \in reg /\ depth[c] >= 1
    /\ pc[c] \in Parked => c \in safe
    /\ pc[c] \in AllSafePcs /\ c \in reg => depth[c] >= 1
    /\ pc[c] = "rm" => c \in reg

\* Without nesting nobody evaluates under the SAFE flag.
RunUnsafe ==
  MaxDepth = 1 => \A c \in Ctx : pc[c] = "run" => c \notin safe

\* What the listeners rely on, and what holds when a waiter is at risk.
Listeners ==
  /\ \A c \in Ctx : pc[c] = "thd_safe" => ~AllSafe(reg, safe)
  /\ \A c \in Ctx : pc[c] \in AllSafePcs => AllSafe(reg, safe)
  /\ waiting # {} /\ AllSafe(reg, safe) => \E c \in Ctx : pc[c] \in AllSafePcs

IInv ==
  /\ TypeOK /\ OwnsLock /\ LockOrder /\ Position /\ RunUnsafe
  /\ Listeners /\ WaitersHavePressure

===========================================================================
