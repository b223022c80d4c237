-------------------------- MODULE SafePointProofs --------------------------
(***************************************************************************)
(* TLAPS proofs about SafePoint, for every set of contexts, every set of   *)
(* killed ones, every pool and trigger, and, where no hypothesis says      *)
(* otherwise, every depth of nested interpretations.                       *)
(***************************************************************************)
EXTENDS SafePoint, TLAPS

USE CtxAssumption, DepthAssumption, PoolAssumption

\* Pressure only grows with the number of used blocks.
LEMMA PressureGrows ==
  ASSUME NEW a \in Nat, NEW b \in Nat, a <= b, Pressure(a)
  PROVE  Pressure(b)
<1>1. \A x, y \in Nat : \A p \in Nat \ {0} : x <= y => x \div p <= y \div p
  OBVIOUS
<1>2. (a * 100) \div PoolSize <= (b * 100) \div PoolSize
  BY <1>1
<1>3. (a * 100) \div PoolSize \in Int /\ (b * 100) \div PoolSize \in Int
  OBVIOUS
<1>4. QED
  BY <1>2, <1>3 DEF Pressure

\* The inductive invariant holds before the first thread registers.
LEMMA InitIInv == Init => IInv
BY DEF Init, IInv, TypeOK, OwnsLock, LockOrder, Position, RunUnsafe, Listeners,
       WaitersHavePressure, Pcs, Critical, AllSafePcs, Collecting, Outside,
       Parked, AllSafe

---------------------------------------------------------------------------
\* Types.  Thread ends only where Position says there is a thread to end.
LEMMA TypeNext == IInv /\ [Next]_vars => TypeOK'
<1> SUFFICES ASSUME TypeOK, Position, [Next]_vars PROVE TypeOK'
  BY DEF IInv
<1> USE DEF TypeOK, Position,
            Pcs, Critical, AllSafePcs, Collecting, Outside, Parked, Goto, EndThread, Return
<1>1. ASSUME NEW c \in Ctx, AddLock(c) PROVE TypeOK'
  BY <1>1 DEF AddLock
<1>2. ASSUME NEW c \in Ctx, AddPre(c) PROVE TypeOK'
  BY <1>2 DEF AddPre
<1>3. ASSUME NEW c \in Ctx, AddList(c) PROVE TypeOK'
  BY <1>3 DEF AddList
<1>4. ASSUME NEW c \in Ctx, Alloc(c) PROVE TypeOK'
  BY <1>4 DEF Alloc
<1>5. ASSUME NEW c \in Ctx, NotifySafe(c) PROVE TypeOK'
  BY <1>5 DEF NotifySafe
<1>6. ASSUME NEW c \in Ctx, ThdSafe(c) PROVE TypeOK'
  BY <1>6 DEF ThdSafe
<1>7. ASSUME NEW c \in Ctx, Wake(c) PROVE TypeOK'
  BY <1>7 DEF Wake
<1>8. ASSUME NEW c \in Ctx, SpuriousWakeup(c) PROVE TypeOK'
  BY <1>8 DEF SpuriousWakeup
<1>9. ASSUME NEW c \in Ctx, AllSafeEnter(c) PROVE TypeOK'
  BY <1>9 DEF AllSafeEnter
<1>10. ASSUME NEW c \in Ctx, GcMark(c) PROVE TypeOK'
  BY <1>10 DEF GcMark
<1>11. ASSUME NEW c \in Ctx, GcSweep(c) PROVE TypeOK'
  BY <1>11 DEF GcSweep
<1>12. ASSUME NEW c \in Ctx, Broadcast(c) PROVE TypeOK'
  BY <1>12 DEF Broadcast
<1>13. ASSUME NEW c \in Ctx, SigKill(c) PROVE TypeOK'
  BY <1>13 DEF SigKill
<1>14. ASSUME NEW c \in Ctx, SigNone(c) PROVE TypeOK'
  BY <1>14 DEF SigNone
<1>15. ASSUME NEW c \in Ctx, NotifyUnsafe(c) PROVE TypeOK'
  BY <1>15 DEF NotifyUnsafe
<1>16. ASSUME NEW c \in Ctx, Nest(c) PROVE TypeOK'
  BY <1>16 DEF Nest
<1>17. ASSUME NEW c \in Ctx, Exit(c) PROVE TypeOK'
  BY <1>17 DEF Exit
<1>18. ASSUME NEW c \in Ctx, ExitSafe(c) PROVE TypeOK'
  BY <1>18 DEF ExitSafe
<1>19. ASSUME NEW c \in Ctx, Remove(c) PROVE TypeOK'
  BY <1>19 DEF Remove
<1>20. ASSUME NEW c \in Ctx, Unlock(c) PROVE TypeOK'
  BY <1>20 DEF Unlock
<1>21. ASSUME NEW c \in Ctx, Cancelled(c) PROVE TypeOK'
  BY <1>21 DEF Cancelled
<1>22. ASSUME NEW c \in Ctx, CancelledWaiting(c) PROVE TypeOK'
  BY <1>22 DEF CancelledWaiting
<1>23. ASSUME NEW k \in Ctx, NEW t \in Ctx, Kill(k, t) PROVE TypeOK'
  BY <1>23 DEF Kill
<1>24. CASE UNCHANGED vars
  BY <1>24 DEF vars
<1>25. QED
  BY <1>1, <1>2, <1>3, <1>4, <1>5, <1>6, <1>7, <1>8, <1>9, <1>10,
     <1>11, <1>12, <1>13, <1>14, <1>15, <1>16, <1>17, <1>18, <1>19, <1>20,
     <1>21, <1>22, <1>23, <1>24
  DEF Next, Step, Finished

\* Every way into a critical section takes _m, and only its owner gives it up.
LEMMA OwnsLockNext == IInv /\ [Next]_vars => OwnsLock'
<1> SUFFICES ASSUME TypeOK, OwnsLock, [Next]_vars PROVE OwnsLock'
  BY DEF IInv
<1> USE DEF TypeOK, OwnsLock,
            Critical, AllSafePcs, Collecting, Goto, EndThread, Return
<1>1. ASSUME NEW c \in Ctx, AddLock(c) PROVE OwnsLock'
  BY <1>1 DEF AddLock
<1>2. ASSUME NEW c \in Ctx, AddPre(c) PROVE OwnsLock'
  BY <1>2 DEF AddPre
<1>3. ASSUME NEW c \in Ctx, AddList(c) PROVE OwnsLock'
  BY <1>3 DEF AddList
<1>4. ASSUME NEW c \in Ctx, Alloc(c) PROVE OwnsLock'
  BY <1>4 DEF Alloc
<1>5. ASSUME NEW c \in Ctx, NotifySafe(c) PROVE OwnsLock'
  BY <1>5 DEF NotifySafe
<1>6. ASSUME NEW c \in Ctx, ThdSafe(c) PROVE OwnsLock'
  BY <1>6 DEF ThdSafe
<1>7. ASSUME NEW c \in Ctx, Wake(c) PROVE OwnsLock'
  BY <1>7 DEF Wake
<1>8. ASSUME NEW c \in Ctx, SpuriousWakeup(c) PROVE OwnsLock'
  BY <1>8 DEF SpuriousWakeup
<1>9. ASSUME NEW c \in Ctx, AllSafeEnter(c) PROVE OwnsLock'
  BY <1>9 DEF AllSafeEnter
<1>10. ASSUME NEW c \in Ctx, GcMark(c) PROVE OwnsLock'
  BY <1>10 DEF GcMark
<1>11. ASSUME NEW c \in Ctx, GcSweep(c) PROVE OwnsLock'
  BY <1>11 DEF GcSweep
<1>12. ASSUME NEW c \in Ctx, Broadcast(c) PROVE OwnsLock'
  BY <1>12 DEF Broadcast
<1>13. ASSUME NEW c \in Ctx, SigKill(c) PROVE OwnsLock'
  BY <1>13 DEF SigKill
<1>14. ASSUME NEW c \in Ctx, SigNone(c) PROVE OwnsLock'
  BY <1>14 DEF SigNone
<1>15. ASSUME NEW c \in Ctx, NotifyUnsafe(c) PROVE OwnsLock'
  BY <1>15 DEF NotifyUnsafe
<1>16. ASSUME NEW c \in Ctx, Nest(c) PROVE OwnsLock'
  BY <1>16 DEF Nest
<1>17. ASSUME NEW c \in Ctx, Exit(c) PROVE OwnsLock'
  BY <1>17 DEF Exit
<1>18. ASSUME NEW c \in Ctx, ExitSafe(c) PROVE OwnsLock'
  BY <1>18 DEF ExitSafe
<1>19. ASSUME NEW c \in Ctx, Remove(c) PROVE OwnsLock'
  BY <1>19 DEF Remove
<1>20. ASSUME NEW c \in Ctx, Unlock(c) PROVE OwnsLock'
  BY <1>20 DEF Unlock
<1>21. ASSUME NEW c \in Ctx, Cancelled(c) PROVE OwnsLock'
  BY <1>21 DEF Cancelled
<1>22. ASSUME NEW c \in Ctx, CancelledWaiting(c) PROVE OwnsLock'
  BY <1>22 DEF CancelledWaiting
<1>23. ASSUME NEW k \in Ctx, NEW t \in Ctx, Kill(k, t) PROVE OwnsLock'
  BY <1>23 DEF Kill
<1>24. CASE UNCHANGED vars
  BY <1>24 DEF vars
<1>25. QED
  BY <1>1, <1>2, <1>3, <1>4, <1>5, <1>6, <1>7, <1>8, <1>9, <1>10,
     <1>11, <1>12, <1>13, <1>14, <1>15, <1>16, <1>17, <1>18, <1>19, <1>20,
     <1>21, <1>22, <1>23, <1>24
  DEF Next, Step, Finished

\* _mm is taken by an owner of _m and given back before _m is.
LEMMA LockOrderNext == IInv /\ [Next]_vars => LockOrder'
<1> SUFFICES ASSUME TypeOK, OwnsLock, LockOrder, [Next]_vars PROVE LockOrder'
  BY DEF IInv
<1> USE DEF TypeOK, OwnsLock, LockOrder,
            Critical, AllSafePcs, Collecting, Goto, EndThread, Return
<1>1. ASSUME NEW c \in Ctx, AddLock(c) PROVE LockOrder'
  BY <1>1 DEF AddLock
<1>2. ASSUME NEW c \in Ctx, AddPre(c) PROVE LockOrder'
  BY <1>2 DEF AddPre
<1>3. ASSUME NEW c \in Ctx, AddList(c) PROVE LockOrder'
  BY <1>3 DEF AddList
<1>4. ASSUME NEW c \in Ctx, Alloc(c) PROVE LockOrder'
  BY <1>4 DEF Alloc
<1>5. ASSUME NEW c \in Ctx, NotifySafe(c) PROVE LockOrder'
  BY <1>5 DEF NotifySafe
<1>6. ASSUME NEW c \in Ctx, ThdSafe(c) PROVE LockOrder'
  BY <1>6 DEF ThdSafe
<1>7. ASSUME NEW c \in Ctx, Wake(c) PROVE LockOrder'
  BY <1>7 DEF Wake
<1>8. ASSUME NEW c \in Ctx, SpuriousWakeup(c) PROVE LockOrder'
  BY <1>8 DEF SpuriousWakeup
<1>9. ASSUME NEW c \in Ctx, AllSafeEnter(c) PROVE LockOrder'
  BY <1>9 DEF AllSafeEnter
<1>10. ASSUME NEW c \in Ctx, GcMark(c) PROVE LockOrder'
  BY <1>10 DEF GcMark
<1>11. ASSUME NEW c \in Ctx, GcSweep(c) PROVE LockOrder'
  BY <1>11 DEF GcSweep
<1>12. ASSUME NEW c \in Ctx, Broadcast(c) PROVE LockOrder'
  BY <1>12 DEF Broadcast
<1>13. ASSUME NEW c \in Ctx, SigKill(c) PROVE LockOrder'
  BY <1>13 DEF SigKill
<1>14. ASSUME NEW c \in Ctx, SigNone(c) PROVE LockOrder'
  BY <1>14 DEF SigNone
<1>15. ASSUME NEW c \in Ctx, NotifyUnsafe(c) PROVE LockOrder'
  BY <1>15 DEF NotifyUnsafe
<1>16. ASSUME NEW c \in Ctx, Nest(c) PROVE LockOrder'
  BY <1>16 DEF Nest
<1>17. ASSUME NEW c \in Ctx, Exit(c) PROVE LockOrder'
  BY <1>17 DEF Exit
<1>18. ASSUME NEW c \in Ctx, ExitSafe(c) PROVE LockOrder'
  BY <1>18 DEF ExitSafe
<1>19. ASSUME NEW c \in Ctx, Remove(c) PROVE LockOrder'
  BY <1>19 DEF Remove
<1>20. ASSUME NEW c \in Ctx, Unlock(c) PROVE LockOrder'
  BY <1>20 DEF Unlock
<1>21. ASSUME NEW c \in Ctx, Cancelled(c) PROVE LockOrder'
  BY <1>21 DEF Cancelled
<1>22. ASSUME NEW c \in Ctx, CancelledWaiting(c) PROVE LockOrder'
  BY <1>22 DEF CancelledWaiting
<1>23. ASSUME NEW k \in Ctx, NEW t \in Ctx, Kill(k, t) PROVE LockOrder'
  BY <1>23 DEF Kill
<1>24. CASE UNCHANGED vars
  BY <1>24 DEF vars
<1>25. QED
  BY <1>1, <1>2, <1>3, <1>4, <1>5, <1>6, <1>7, <1>8, <1>9, <1>10,
     <1>11, <1>12, <1>13, <1>14, <1>15, <1>16, <1>17, <1>18, <1>19, <1>20,
     <1>21, <1>22, <1>23, <1>24
  DEF Next, Step, Finished

\* Registration, flag and threads of a context follow its program point.
LEMMA PositionNext == IInv /\ [Next]_vars => Position'
<1> SUFFICES ASSUME TypeOK, OwnsLock, Position, Listeners, [Next]_vars PROVE Position'
  BY DEF IInv
<1> USE DEF TypeOK, OwnsLock, Position, Listeners,
            Critical, AllSafePcs, Collecting, Outside, Parked, AllSafe, Goto, EndThread, Return
<1>1. ASSUME NEW c \in Ctx, AddLock(c) PROVE Position'
  BY <1>1 DEF AddLock
<1>2. ASSUME NEW c \in Ctx, AddPre(c) PROVE Position'
  BY <1>2 DEF AddPre
<1>3. ASSUME NEW c \in Ctx, AddList(c) PROVE Position'
  BY <1>3 DEF AddList
<1>4. ASSUME NEW c \in Ctx, Alloc(c) PROVE Position'
  BY <1>4 DEF Alloc
<1>5. ASSUME NEW c \in Ctx, NotifySafe(c) PROVE Position'
  BY <1>5 DEF NotifySafe
<1>6. ASSUME NEW c \in Ctx, ThdSafe(c) PROVE Position'
  BY <1>6 DEF ThdSafe
<1>7. ASSUME NEW c \in Ctx, Wake(c) PROVE Position'
  BY <1>7 DEF Wake
<1>8. ASSUME NEW c \in Ctx, SpuriousWakeup(c) PROVE Position'
  BY <1>8 DEF SpuriousWakeup
<1>9. ASSUME NEW c \in Ctx, AllSafeEnter(c) PROVE Position'
  BY <1>9 DEF AllSafeEnter
<1>10. ASSUME NEW c \in Ctx, GcMark(c) PROVE Position'
  BY <1>10 DEF GcMark
<1>11. ASSUME NEW c \in Ctx, GcSweep(c) PROVE Position'
  BY <1>11 DEF GcSweep
<1>12. ASSUME NEW c \in Ctx, Broadcast(c) PROVE Position'
  BY <1>12 DEF Broadcast
<1>13. ASSUME NEW c \in Ctx, SigKill(c) PROVE Position'
  BY <1>13 DEF SigKill
<1>14. ASSUME NEW c \in Ctx, SigNone(c) PROVE Position'
  BY <1>14 DEF SigNone
<1>15. ASSUME NEW c \in Ctx, NotifyUnsafe(c) PROVE Position'
  BY <1>15 DEF NotifyUnsafe
<1>16. ASSUME NEW c \in Ctx, Nest(c) PROVE Position'
  BY <1>16 DEF Nest
<1>17. ASSUME NEW c \in Ctx, Exit(c) PROVE Position'
  BY <1>17 DEF Exit
<1>18. ASSUME NEW c \in Ctx, ExitSafe(c) PROVE Position'
  BY <1>18 DEF ExitSafe
<1>19. ASSUME NEW c \in Ctx, Remove(c) PROVE Position'
  BY <1>19 DEF Remove
<1>20. ASSUME NEW c \in Ctx, Unlock(c) PROVE Position'
  BY <1>20 DEF Unlock
<1>21. ASSUME NEW c \in Ctx, Cancelled(c) PROVE Position'
  BY <1>21 DEF Cancelled
<1>22. ASSUME NEW c \in Ctx, CancelledWaiting(c) PROVE Position'
  BY <1>22 DEF CancelledWaiting
<1>23. ASSUME NEW k \in Ctx, NEW t \in Ctx, Kill(k, t) PROVE Position'
  BY <1>23 DEF Kill
<1>24. CASE UNCHANGED vars
  BY <1>24 DEF vars
<1>25. QED
  BY <1>1, <1>2, <1>3, <1>4, <1>5, <1>6, <1>7, <1>8, <1>9, <1>10,
     <1>11, <1>12, <1>13, <1>14, <1>15, <1>16, <1>17, <1>18, <1>19, <1>20,
     <1>21, <1>22, <1>23, <1>24
  DEF Next, Step, Finished

\* Without nesting a thread gets (back) to evaluating only without the flag.
LEMMA RunUnsafeNext == IInv /\ [Next]_vars => RunUnsafe'
<1> SUFFICES ASSUME TypeOK, Position, RunUnsafe, [Next]_vars PROVE RunUnsafe'
  BY DEF IInv
<1> USE DEF TypeOK, Position, RunUnsafe,
            Pcs, Outside, Parked, Goto, EndThread, Return
<1>1. ASSUME NEW c \in Ctx, AddLock(c) PROVE RunUnsafe'
  BY <1>1 DEF AddLock
<1>2. ASSUME NEW c \in Ctx, AddPre(c) PROVE RunUnsafe'
  BY <1>2 DEF AddPre
<1>3. ASSUME NEW c \in Ctx, AddList(c) PROVE RunUnsafe'
  BY <1>3 DEF AddList
<1>4. ASSUME NEW c \in Ctx, Alloc(c) PROVE RunUnsafe'
  BY <1>4 DEF Alloc
<1>5. ASSUME NEW c \in Ctx, NotifySafe(c) PROVE RunUnsafe'
  BY <1>5 DEF NotifySafe
<1>6. ASSUME NEW c \in Ctx, ThdSafe(c) PROVE RunUnsafe'
  BY <1>6 DEF ThdSafe
<1>7. ASSUME NEW c \in Ctx, Wake(c) PROVE RunUnsafe'
  BY <1>7 DEF Wake
<1>8. ASSUME NEW c \in Ctx, SpuriousWakeup(c) PROVE RunUnsafe'
  BY <1>8 DEF SpuriousWakeup
<1>9. ASSUME NEW c \in Ctx, AllSafeEnter(c) PROVE RunUnsafe'
  BY <1>9 DEF AllSafeEnter
<1>10. ASSUME NEW c \in Ctx, GcMark(c) PROVE RunUnsafe'
  BY <1>10 DEF GcMark
<1>11. ASSUME NEW c \in Ctx, GcSweep(c) PROVE RunUnsafe'
  BY <1>11 DEF GcSweep
<1>12. ASSUME NEW c \in Ctx, Broadcast(c) PROVE RunUnsafe'
  BY <1>12 DEF Broadcast
<1>13. ASSUME NEW c \in Ctx, SigKill(c) PROVE RunUnsafe'
  BY <1>13 DEF SigKill
<1>14. ASSUME NEW c \in Ctx, SigNone(c) PROVE RunUnsafe'
  BY <1>14 DEF SigNone
<1>15. ASSUME NEW c \in Ctx, NotifyUnsafe(c) PROVE RunUnsafe'
  BY <1>15 DEF NotifyUnsafe
<1>16. ASSUME NEW c \in Ctx, Nest(c) PROVE RunUnsafe'
  BY <1>16 DEF Nest
<1>17. ASSUME NEW c \in Ctx, Exit(c) PROVE RunUnsafe'
  BY <1>17 DEF Exit
<1>18. ASSUME NEW c \in Ctx, ExitSafe(c) PROVE RunUnsafe'
  BY <1>18 DEF ExitSafe
<1>19. ASSUME NEW c \in Ctx, Remove(c) PROVE RunUnsafe'
  BY <1>19 DEF Remove
<1>20. ASSUME NEW c \in Ctx, Unlock(c) PROVE RunUnsafe'
  BY <1>20 DEF Unlock
<1>21. ASSUME NEW c \in Ctx, Cancelled(c) PROVE RunUnsafe'
  BY <1>21 DEF Cancelled
<1>22. ASSUME NEW c \in Ctx, CancelledWaiting(c) PROVE RunUnsafe'
  BY <1>22 DEF CancelledWaiting
<1>23. ASSUME NEW k \in Ctx, NEW t \in Ctx, Kill(k, t) PROVE RunUnsafe'
  BY <1>23 DEF Kill
<1>24. CASE UNCHANGED vars
  BY <1>24 DEF vars
<1>25. QED
  BY <1>1, <1>2, <1>3, <1>4, <1>5, <1>6, <1>7, <1>8, <1>9, <1>10,
     <1>11, <1>12, <1>13, <1>14, <1>15, <1>16, <1>17, <1>18, <1>19, <1>20,
     <1>21, <1>22, <1>23, <1>24
  DEF Next, Step, Finished

\* The flags the listeners looked at are still so when they act: whoever would
\* change the list or a flag needs _m.
LEMMA ListenersNext == IInv /\ [Next]_vars => Listeners'
<1> SUFFICES ASSUME TypeOK, OwnsLock, Position, Listeners, WaitersHavePressure, [Next]_vars PROVE Listeners'
  BY DEF IInv
<1> USE DEF TypeOK, OwnsLock, Position, Listeners, WaitersHavePressure,
            Critical, AllSafePcs, Collecting, Outside, Parked, AllSafe, Goto, EndThread, Return
<1>1. ASSUME NEW c \in Ctx, AddLock(c) PROVE Listeners'
  BY <1>1 DEF AddLock
<1>2. ASSUME NEW c \in Ctx, AddPre(c) PROVE Listeners'
  BY <1>2 DEF AddPre
<1>3. ASSUME NEW c \in Ctx, AddList(c) PROVE Listeners'
  BY <1>3 DEF AddList
<1>4. ASSUME NEW c \in Ctx, Alloc(c) PROVE Listeners'
  BY <1>4 DEF Alloc
<1>5. ASSUME NEW c \in Ctx, NotifySafe(c) PROVE Listeners'
  BY <1>5 DEF NotifySafe
<1>6. ASSUME NEW c \in Ctx, ThdSafe(c) PROVE Listeners'
  BY <1>6 DEF ThdSafe
<1>7. ASSUME NEW c \in Ctx, Wake(c) PROVE Listeners'
  BY <1>7 DEF Wake
<1>8. ASSUME NEW c \in Ctx, SpuriousWakeup(c) PROVE Listeners'
  BY <1>8 DEF SpuriousWakeup
<1>9. ASSUME NEW c \in Ctx, AllSafeEnter(c) PROVE Listeners'
  BY <1>9 DEF AllSafeEnter
<1>10. ASSUME NEW c \in Ctx, GcMark(c) PROVE Listeners'
  BY <1>10 DEF GcMark
<1>11. ASSUME NEW c \in Ctx, GcSweep(c) PROVE Listeners'
  BY <1>11 DEF GcSweep
<1>12. ASSUME NEW c \in Ctx, Broadcast(c) PROVE Listeners'
  BY <1>12 DEF Broadcast
<1>13. ASSUME NEW c \in Ctx, SigKill(c) PROVE Listeners'
  BY <1>13 DEF SigKill
<1>14. ASSUME NEW c \in Ctx, SigNone(c) PROVE Listeners'
  BY <1>14 DEF SigNone
<1>15. ASSUME NEW c \in Ctx, NotifyUnsafe(c) PROVE Listeners'
  BY <1>15 DEF NotifyUnsafe
<1>16. ASSUME NEW c \in Ctx, Nest(c) PROVE Listeners'
  BY <1>16 DEF Nest
<1>17. ASSUME NEW c \in Ctx, Exit(c) PROVE Listeners'
  BY <1>17 DEF Exit
<1>18. ASSUME NEW c \in Ctx, ExitSafe(c) PROVE Listeners'
  BY <1>18 DEF ExitSafe
<1>19. ASSUME NEW c \in Ctx, Remove(c) PROVE Listeners'
  BY <1>19 DEF Remove
<1>20. ASSUME NEW c \in Ctx, Unlock(c) PROVE Listeners'
  BY <1>20 DEF Unlock
<1>21. ASSUME NEW c \in Ctx, Cancelled(c) PROVE Listeners'
  BY <1>21 DEF Cancelled
<1>22. ASSUME NEW c \in Ctx, CancelledWaiting(c) PROVE Listeners'
  BY <1>22 DEF CancelledWaiting
<1>23. ASSUME NEW k \in Ctx, NEW t \in Ctx, Kill(k, t) PROVE Listeners'
  BY <1>23 DEF Kill
<1>24. CASE UNCHANGED vars
  BY <1>24 DEF vars
<1>25. QED
  BY <1>1, <1>2, <1>3, <1>4, <1>5, <1>6, <1>7, <1>8, <1>9, <1>10,
     <1>11, <1>12, <1>13, <1>14, <1>15, <1>16, <1>17, <1>18, <1>19, <1>20,
     <1>21, <1>22, <1>23, <1>24
  DEF Next, Step, Finished

\* Memory gets scarcer until a sweep, and a sweep is followed by a broadcast.
LEMMA PressureNext == IInv /\ [Next]_vars => WaitersHavePressure'
<1> SUFFICES ASSUME TypeOK, OwnsLock, WaitersHavePressure, [Next]_vars PROVE WaitersHavePressure'
  BY DEF IInv
<1> USE DEF TypeOK, OwnsLock, WaitersHavePressure,
            Critical, AllSafePcs, Collecting, Goto, EndThread, Return
<1>1. ASSUME NEW c \in Ctx, AddLock(c) PROVE WaitersHavePressure'
  BY <1>1 DEF AddLock
<1>2. ASSUME NEW c \in Ctx, AddPre(c) PROVE WaitersHavePressure'
  BY <1>2 DEF AddPre
<1>3. ASSUME NEW c \in Ctx, AddList(c) PROVE WaitersHavePressure'
  BY <1>3 DEF AddList
<1>4. ASSUME NEW c \in Ctx, Alloc(c) PROVE WaitersHavePressure'
  <2>1. used \in Nat /\ used' = used + 1 /\ UNCHANGED <<pc, waiting>>
    BY <1>4 DEF Alloc
  <2>2. Pressure(used) => Pressure(used')
    BY <2>1, PressureGrows
  <2>3. QED
    BY <2>1, <2>2
<1>5. ASSUME NEW c \in Ctx, NotifySafe(c) PROVE WaitersHavePressure'
  BY <1>5 DEF NotifySafe
<1>6. ASSUME NEW c \in Ctx, ThdSafe(c) PROVE WaitersHavePressure'
  BY <1>6 DEF ThdSafe
<1>7. ASSUME NEW c \in Ctx, Wake(c) PROVE WaitersHavePressure'
  BY <1>7 DEF Wake
<1>8. ASSUME NEW c \in Ctx, SpuriousWakeup(c) PROVE WaitersHavePressure'
  BY <1>8 DEF SpuriousWakeup
<1>9. ASSUME NEW c \in Ctx, AllSafeEnter(c) PROVE WaitersHavePressure'
  BY <1>9 DEF AllSafeEnter
<1>10. ASSUME NEW c \in Ctx, GcMark(c) PROVE WaitersHavePressure'
  BY <1>10 DEF GcMark
<1>11. ASSUME NEW c \in Ctx, GcSweep(c) PROVE WaitersHavePressure'
  BY <1>11 DEF GcSweep
<1>12. ASSUME NEW c \in Ctx, Broadcast(c) PROVE WaitersHavePressure'
  BY <1>12 DEF Broadcast
<1>13. ASSUME NEW c \in Ctx, SigKill(c) PROVE WaitersHavePressure'
  BY <1>13 DEF SigKill
<1>14. ASSUME NEW c \in Ctx, SigNone(c) PROVE WaitersHavePressure'
  BY <1>14 DEF SigNone
<1>15. ASSUME NEW c \in Ctx, NotifyUnsafe(c) PROVE WaitersHavePressure'
  BY <1>15 DEF NotifyUnsafe
<1>16. ASSUME NEW c \in Ctx, Nest(c) PROVE WaitersHavePressure'
  BY <1>16 DEF Nest
<1>17. ASSUME NEW c \in Ctx, Exit(c) PROVE WaitersHavePressure'
  BY <1>17 DEF Exit
<1>18. ASSUME NEW c \in Ctx, ExitSafe(c) PROVE WaitersHavePressure'
  BY <1>18 DEF ExitSafe
<1>19. ASSUME NEW c \in Ctx, Remove(c) PROVE WaitersHavePressure'
  BY <1>19 DEF Remove
<1>20. ASSUME NEW c \in Ctx, Unlock(c) PROVE WaitersHavePressure'
  BY <1>20 DEF Unlock
<1>21. ASSUME NEW c \in Ctx, Cancelled(c) PROVE WaitersHavePressure'
  BY <1>21 DEF Cancelled
<1>22. ASSUME NEW c \in Ctx, CancelledWaiting(c) PROVE WaitersHavePressure'
  BY <1>22 DEF CancelledWaiting
<1>23. ASSUME NEW k \in Ctx, NEW t \in Ctx, Kill(k, t) PROVE WaitersHavePressure'
  BY <1>23 DEF Kill
<1>24. CASE UNCHANGED vars
  BY <1>24 DEF vars
<1>25. QED
  BY <1>1, <1>2, <1>3, <1>4, <1>5, <1>6, <1>7, <1>8, <1>9, <1>10,
     <1>11, <1>12, <1>13, <1>14, <1>15, <1>16, <1>17, <1>18, <1>19, <1>20,
     <1>21, <1>22, <1>23, <1>24
  DEF Next, Step, Finished

---------------------------------------------------------------------------
\* The inductive invariant of the thread protocol holds for any contexts, any
\* kills and any nesting: locks, flags, program points and memory pressure fit
\* together (mthread.c:84-293, mempool.c:202-258).
THEOREM Invariance == Spec => []IInv
<1>1. IInv /\ [Next]_vars => IInv'
  BY TypeNext, OwnsLockNext, LockOrderNext, PositionNext, RunUnsafeNext,
     ListenersNext, PressureNext DEF IInv
<1>2. QED
  BY <1>1, InitIInv, PTL DEF Spec

\* Types, and with them: no thread is popped from an empty thdstk, the pool
\* never counts more blocks than it has (interpret.c:97-116, blktbl.h:129-150).
THEOREM TypeCorrect == Spec => []TypeOK
<1>1. IInv => TypeOK
  BY DEF IInv
<1>2. QED
  BY <1>1, Invariance, PTL

\* The two mutexes are always taken in the same order (mthread.c:84-102).
THEOREM AlwaysLockOrder == Spec => []LockOrder
<1>1. IInv => LockOrder
  BY DEF IInv
<1>2. QED
  BY <1>1, Invariance, PTL

\* The collector runs only while every registered context carries the SAFE
\* flag, with kills, nested interpretations and failing natives and all
\* (mthread.c:216-248, mempool.c:242-258).
THEOREM AlwaysFlagged == Spec => []GcFlagged
<1>1. IInv => GcFlagged
  BY DEF IInv, Listeners, GcFlagged, AllSafePcs
<1>2. QED
  BY <1>1, Invariance, PTL

\* If interpretations do not nest, the flag means what it says: nobody
\* evaluates while a collection runs (README:405, mthread.c:218-227).
THEOREM CollectionIsExclusive ==
  ASSUME MaxDepth = 1
  PROVE  Spec => []GcExclusive
<1>1. IInv => GcExclusive
  BY DEF IInv, Listeners, Position, RunUnsafe, GcExclusive, AllSafePcs, AllSafe
<1>2. QED
  BY <1>1, Invariance, PTL

\* No wake-up is lost: when _m is free and all contexts on the list are safe,
\* nobody waits for a broadcast (mthread.c:119-129).
THEOREM NobodyStranded == Spec => []NoStrandedWaiter
<1>1. IInv => NoStrandedWaiter
  <2> SUFFICES ASSUME IInv, waiting # {}, m = None, AllSafe(reg, safe)
               PROVE  FALSE
    BY DEF NoStrandedWaiter
  <2>1. PICK c \in Ctx : pc[c] \in AllSafePcs
    BY DEF IInv, Listeners
  <2>2. m = c
    BY <2>1 DEF IInv, OwnsLock, Critical
  <2>3. QED
    BY <2>2
<1>2. QED
  BY <1>1, Invariance, PTL

\* A thread waits for a collection only while memory is short or until the
\* broadcast that is on its way (mempool.c:227-258).
THEOREM WaitersPressed == Spec => []WaitersHavePressure
<1>1. IInv => WaitersHavePressure
  BY DEF IInv
<1>2. QED
  BY <1>1, Invariance, PTL

---------------------------------------------------------------------------
\* Where nobody is killed no cancellation is pending, and whoever owns _m is in a
\* critical section, however its thread may end.
NobodyKilled == cancel = {} /\ LockHeldByLive

\* Without kills nobody is killed.
LEMMA NobodyKilledNext ==
  ASSUME Killable = {}, TypeOK, NobodyKilled, [Next]_vars
  PROVE  NobodyKilled'
<1> USE DEF TypeOK, NobodyKilled, LockHeldByLive,
            Critical, AllSafePcs, Collecting, Goto, EndThread, Return
<1>1. ASSUME NEW c \in Ctx, AddLock(c) PROVE NobodyKilled'
  BY <1>1 DEF AddLock
<1>2. ASSUME NEW c \in Ctx, AddPre(c) PROVE NobodyKilled'
  BY <1>2 DEF AddPre
<1>3. ASSUME NEW c \in Ctx, AddList(c) PROVE NobodyKilled'
  BY <1>3 DEF AddList
<1>4. ASSUME NEW c \in Ctx, Alloc(c) PROVE NobodyKilled'
  BY <1>4 DEF Alloc
<1>5. ASSUME NEW c \in Ctx, NotifySafe(c) PROVE NobodyKilled'
  BY <1>5 DEF NotifySafe
<1>6. ASSUME NEW c \in Ctx, ThdSafe(c) PROVE NobodyKilled'
  BY <1>6 DEF ThdSafe
<1>7. ASSUME NEW c \in Ctx, Wake(c) PROVE NobodyKilled'
  BY <1>7 DEF Wake
<1>8. ASSUME NEW c \in Ctx, SpuriousWakeup(c) PROVE NobodyKilled'
  BY <1>8 DEF SpuriousWakeup
<1>9. ASSUME NEW c \in Ctx, AllSafeEnter(c) PROVE NobodyKilled'
  BY <1>9 DEF AllSafeEnter
<1>10. ASSUME NEW c \in Ctx, GcMark(c) PROVE NobodyKilled'
  BY <1>10 DEF GcMark
<1>11. ASSUME NEW c \in Ctx, GcSweep(c) PROVE NobodyKilled'
  BY <1>11 DEF GcSweep
<1>12. ASSUME NEW c \in Ctx, Broadcast(c) PROVE NobodyKilled'
  BY <1>12 DEF Broadcast
<1>13. ASSUME NEW c \in Ctx, SigKill(c) PROVE NobodyKilled'
  BY <1>13 DEF SigKill
<1>14. ASSUME NEW c \in Ctx, SigNone(c) PROVE NobodyKilled'
  BY <1>14 DEF SigNone
<1>15. ASSUME NEW c \in Ctx, NotifyUnsafe(c) PROVE NobodyKilled'
  BY <1>15 DEF NotifyUnsafe
<1>16. ASSUME NEW c \in Ctx, Nest(c) PROVE NobodyKilled'
  BY <1>16 DEF Nest
<1>17. ASSUME NEW c \in Ctx, Exit(c) PROVE NobodyKilled'
  BY <1>17 DEF Exit
<1>18. ASSUME NEW c \in Ctx, ExitSafe(c) PROVE NobodyKilled'
  BY <1>18 DEF ExitSafe
<1>19. ASSUME NEW c \in Ctx, Remove(c) PROVE NobodyKilled'
  BY <1>19 DEF Remove
<1>20. ASSUME NEW c \in Ctx, Unlock(c) PROVE NobodyKilled'
  BY <1>20 DEF Unlock
<1>21. ASSUME NEW c \in Ctx, Cancelled(c) PROVE NobodyKilled'
  BY <1>21 DEF Cancelled
<1>22. ASSUME NEW c \in Ctx, CancelledWaiting(c) PROVE NobodyKilled'
  BY <1>22 DEF CancelledWaiting
<1>23. ASSUME NEW k \in Ctx, NEW t \in Ctx, Kill(k, t) PROVE NobodyKilled'
  BY <1>23 DEF Kill
<1>24. CASE UNCHANGED vars
  BY <1>24 DEF vars
<1>25. QED
  BY <1>1, <1>2, <1>3, <1>4, <1>5, <1>6, <1>7, <1>8, <1>9, <1>10, <1>11,
     <1>12, <1>13, <1>14, <1>15, <1>16, <1>17, <1>18, <1>19, <1>20, <1>21, <1>22, <1>23, <1>24
  DEF Next, Step, Finished

\* As long as no script kills, no thread ends with _m locked, whether it comes to its
\* end or fails inside of a safe point (mthread.h:56-61).  The run safepoint_abandoned
\* shows that a kill is what the theorem has to exclude.
THEOREM LocksHaveLivingOwners ==
  ASSUME Killable = {}
  PROVE  Spec => []LockHeldByLive
<1>1. Init => NobodyKilled
  BY DEF Init, NobodyKilled, LockHeldByLive
<1>2. TypeOK /\ NobodyKilled /\ [Next]_vars => NobodyKilled'
  BY NobodyKilledNext
<1>3. NobodyKilled => LockHeldByLive
  BY DEF NobodyKilled
<1>4. QED
  BY <1>1, <1>2, <1>3, TypeCorrect, PTL DEF Spec

---------------------------------------------------------------------------
\* The refinement, for interpretations that do not nest.

Mode(c) == IF c \notin reg THEN "out"
           ELSE IF c \in safe /\ pc[c] # "run" THEN "parked"
           ELSE "busy"
InGc == \E c \in Ctx : pc[c] \in Collecting

\* A step that moves at most one context, outside a collection, is a step of
\* the abstract specification when the move is one it knows.
LEMMA MoveRefines ==
  ASSUME NEW c \in Ctx, ~InGc, ~InGc',
         \A d \in Ctx \ {c} : Mode(d)' = Mode(d),
         \/ Mode(c) = "out" /\ Mode(c)' = "busy"
         \/ Mode(c) = "busy" /\ Mode(c)' = "parked"
         \/ Mode(c) = "parked" /\ Mode(c)' = "busy"
         \/ Mode(c) = "busy" /\ Mode(c)' = "out"
         \/ Mode(c) = "parked" /\ Mode(c)' = "out"
  PROVE  World!Next
<1> DEFINE f == [d \in Ctx |-> Mode(d)]
<1>1. f' = [f EXCEPT ![c] = Mode(c)']
  OBVIOUS
<1>2. f[c] = Mode(c)
  OBVIOUS
<1>3. World!Enter(c) \/ World!Park(c) \/ World!Unpark(c) \/ World!Leave(c)
  BY <1>1, <1>2 DEF World!Enter, World!Park, World!Unpark, World!Leave,
                    World!Move, Mode, InGc
<1>4. QED
  BY <1>3 DEF World!Next

\* A step that moves no context and neither begins nor ends a collection.
LEMMA StutterRefines ==
  ASSUME InGc' = InGc, \A d \in Ctx : Mode(d)' = Mode(d)
  PROVE  UNCHANGED World!vars
BY DEF World!vars, Mode, InGc

\* Whoever owns _m is the only one that can be collecting.
LEMMA NoCollector ==
  ASSUME OwnsLock, m = None \/ pc[m] \notin Collecting
  PROVE  ~InGc
BY DEF OwnsLock, InGc, Critical, AllSafePcs

\* Every step of the protocol is a step of the abstract specification, or
\* changes nothing there.
LEMMA StepRefines ==
  ASSUME MaxDepth = 1, IInv, [Next]_vars
  PROVE  [World!Next]_(World!vars)
<1> USE DEF IInv, TypeOK, OwnsLock, Position, RunUnsafe, Critical, AllSafePcs,
            Collecting, Outside, Parked, Goto, EndThread, Return
<1>1. ASSUME NEW c \in Ctx, AddLock(c) PROVE UNCHANGED World!vars
  <2>1. InGc' = InGc
    BY <1>1 DEF AddLock, InGc
  <2>2. \A d \in Ctx : Mode(d)' = Mode(d)
    BY <1>1 DEF AddLock, Mode
  <2>3. QED
    BY <2>1, <2>2, StutterRefines
<1>2. ASSUME NEW c \in Ctx, AddPre(c) PROVE UNCHANGED World!vars
  <2>1. InGc' = InGc
    BY <1>2 DEF AddPre, InGc
  <2>2. \A d \in Ctx : Mode(d)' = Mode(d)
    BY <1>2 DEF AddPre, Mode
  <2>3. QED
    BY <2>1, <2>2, StutterRefines
<1>3. ASSUME NEW c \in Ctx, Alloc(c) PROVE UNCHANGED World!vars
  <2>1. InGc' = InGc
    BY <1>3 DEF Alloc, InGc
  <2>2. \A d \in Ctx : Mode(d)' = Mode(d)
    BY <1>3 DEF Alloc, Mode
  <2>3. QED
    BY <2>1, <2>2, StutterRefines
<1>4. ASSUME NEW c \in Ctx, ThdSafe(c) PROVE UNCHANGED World!vars
  <2>1. InGc' = InGc
    BY <1>4 DEF ThdSafe, InGc
  <2>2. \A d \in Ctx : Mode(d)' = Mode(d)
    BY <1>4 DEF ThdSafe, Mode
  <2>3. QED
    BY <2>1, <2>2, StutterRefines
<1>5. ASSUME NEW c \in Ctx, Wake(c) PROVE UNCHANGED World!vars
  <2>1. InGc' = InGc
    BY <1>5 DEF Wake, InGc
  <2>2. \A d \in Ctx : Mode(d)' = Mode(d)
    BY <1>5 DEF Wake, Mode
  <2>3. QED
    BY <2>1, <2>2, StutterRefines
<1>6. ASSUME NEW c \in Ctx, SpuriousWakeup(c) PROVE UNCHANGED World!vars
  <2>1. InGc' = InGc
    BY <1>6 DEF SpuriousWakeup, InGc
  <2>2. \A d \in Ctx : Mode(d)' = Mode(d)
    BY <1>6 DEF SpuriousWakeup, Mode
  <2>3. QED
    BY <2>1, <2>2, StutterRefines
<1>7. ASSUME NEW c \in Ctx, GcMark(c) PROVE UNCHANGED World!vars
  <2>1. InGc' = InGc
    BY <1>7 DEF GcMark, InGc
  <2>2. \A d \in Ctx : Mode(d)' = Mode(d)
    BY <1>7 DEF GcMark, Mode
  <2>3. QED
    BY <2>1, <2>2, StutterRefines
<1>8. ASSUME NEW c \in Ctx, Broadcast(c) PROVE UNCHANGED World!vars
  <2>1. InGc' = InGc
    BY <1>8 DEF Broadcast, InGc
  <2>2. \A d \in Ctx : Mode(d)' = Mode(d)
    BY <1>8 DEF Broadcast, Mode
  <2>3. QED
    BY <2>1, <2>2, StutterRefines
<1>9. ASSUME NEW c \in Ctx, SigNone(c) PROVE UNCHANGED World!vars
  <2>1. InGc' = InGc
    BY <1>9 DEF SigNone, InGc
  <2>2. \A d \in Ctx : Mode(d)' = Mode(d)
    BY <1>9 DEF SigNone, Mode
  <2>3. QED
    BY <2>1, <2>2, StutterRefines
<1>10. ASSUME NEW c \in Ctx, Nest(c) PROVE UNCHANGED World!vars
  <2>1. InGc' = InGc
    BY <1>10 DEF Nest, InGc
  <2>2. \A d \in Ctx : Mode(d)' = Mode(d)
    BY <1>10 DEF Nest, Mode
  <2>3. QED
    BY <2>1, <2>2, StutterRefines
<1>11. ASSUME NEW c \in Ctx, Exit(c) PROVE UNCHANGED World!vars
  <2>1. InGc' = InGc
    BY <1>11 DEF Exit, InGc
  <2>2. \A d \in Ctx : Mode(d)' = Mode(d)
    BY <1>11 DEF Exit, Mode
  <2>3. QED
    BY <2>1, <2>2, StutterRefines
<1>12. ASSUME NEW c \in Ctx, ExitSafe(c) PROVE UNCHANGED World!vars
  <2>1. InGc' = InGc
    BY <1>12 DEF ExitSafe, InGc
  <2>2. \A d \in Ctx : Mode(d)' = Mode(d)
    BY <1>12 DEF ExitSafe, Mode
  <2>3. QED
    BY <2>1, <2>2, StutterRefines
<1>13. ASSUME NEW c \in Ctx, Unlock(c) PROVE UNCHANGED World!vars
  <2>1. InGc' = InGc
    BY <1>13 DEF Unlock, InGc
  <2>2. \A d \in Ctx : Mode(d)' = Mode(d)
    BY <1>13 DEF Unlock, Mode
  <2>3. QED
    BY <2>1, <2>2, StutterRefines
<1>14. ASSUME NEW c \in Ctx, Cancelled(c) PROVE UNCHANGED World!vars
  <2>1. InGc' = InGc
    BY <1>14 DEF Cancelled, InGc
  <2>2. \A d \in Ctx : Mode(d)' = Mode(d)
    BY <1>14 DEF Cancelled, Mode
  <2>3. QED
    BY <2>1, <2>2, StutterRefines
<1>15. ASSUME NEW c \in Ctx, CancelledWaiting(c) PROVE UNCHANGED World!vars
  <2>1. InGc' = InGc
    BY <1>15 DEF CancelledWaiting, InGc
  <2>2. \A d \in Ctx : Mode(d)' = Mode(d)
    BY <1>15 DEF CancelledWaiting, Mode
  <2>3. QED
    BY <2>1, <2>2, StutterRefines
<1>16. ASSUME NEW c \in Ctx, AddList(c) PROVE World!Next
  <2>1. ~InGc /\ ~InGc'
    BY <1>16 DEF AddList, InGc
  <2>2. \A d \in Ctx \ {c} : Mode(d)' = Mode(d)
    BY <1>16 DEF AddList, Mode
  <2>3. \/ Mode(c) = "out" /\ Mode(c)' = "busy"
        \/ Mode(c) = "busy" /\ Mode(c)' = "parked"
        \/ Mode(c) = "parked" /\ Mode(c)' = "busy"
        \/ Mode(c) = "busy" /\ Mode(c)' = "out"
        \/ Mode(c) = "parked" /\ Mode(c)' = "out"
    BY <1>16 DEF AddList, Mode
  <2>4. QED
    BY <2>1, <2>2, <2>3, MoveRefines
<1>17. ASSUME NEW c \in Ctx, NotifySafe(c) PROVE World!Next
  <2>1. ~InGc /\ ~InGc'
    BY <1>17 DEF NotifySafe, InGc
  <2>2. \A d \in Ctx \ {c} : Mode(d)' = Mode(d)
    BY <1>17 DEF NotifySafe, Mode
  <2>3. \/ Mode(c) = "out" /\ Mode(c)' = "busy"
        \/ Mode(c) = "busy" /\ Mode(c)' = "parked"
        \/ Mode(c) = "parked" /\ Mode(c)' = "busy"
        \/ Mode(c) = "busy" /\ Mode(c)' = "out"
        \/ Mode(c) = "parked" /\ Mode(c)' = "out"
    BY <1>17 DEF NotifySafe, Mode
  <2>4. QED
    BY <2>1, <2>2, <2>3, MoveRefines
<1>18. ASSUME NEW c \in Ctx, SigKill(c) PROVE World!Next
  <2>1. ~InGc /\ ~InGc'
    BY <1>18 DEF SigKill, InGc
  <2>2. \A d \in Ctx \ {c} : Mode(d)' = Mode(d)
    BY <1>18 DEF SigKill, Mode
  <2>3. \/ Mode(c) = "out" /\ Mode(c)' = "busy"
        \/ Mode(c) = "busy" /\ Mode(c)' = "parked"
        \/ Mode(c) = "parked" /\ Mode(c)' = "busy"
        \/ Mode(c) = "busy" /\ Mode(c)' = "out"
        \/ Mode(c) = "parked" /\ Mode(c)' = "out"
    BY <1>18 DEF SigKill, Mode
  <2>4. QED
    BY <2>1, <2>2, <2>3, MoveRefines
<1>19. ASSUME NEW c \in Ctx, NotifyUnsafe(c) PROVE World!Next
  <2>1. ~InGc /\ ~InGc'
    BY <1>19 DEF NotifyUnsafe, InGc
  <2>2. \A d \in Ctx \ {c} : Mode(d)' = Mode(d)
    BY <1>19 DEF NotifyUnsafe, Mode
  <2>3. \/ Mode(c) = "out" /\ Mode(c)' = "busy"
        \/ Mode(c) = "busy" /\ Mode(c)' = "parked"
        \/ Mode(c) = "parked" /\ Mode(c)' = "busy"
        \/ Mode(c) = "busy" /\ Mode(c)' = "out"
        \/ Mode(c) = "parked" /\ Mode(c)' = "out"
    BY <1>19 DEF NotifyUnsafe, Mode
  <2>4. QED
    BY <2>1, <2>2, <2>3, MoveRefines
<1>20. ASSUME NEW c \in Ctx, Remove(c) PROVE World!Next
  <2>1. ~InGc /\ ~InGc'
    BY <1>20 DEF Remove, InGc
  <2>2. \A d \in Ctx \ {c} : Mode(d)' = Mode(d)
    BY <1>20 DEF Remove, Mode
  <2>3. \/ Mode(c) = "out" /\ Mode(c)' = "busy"
        \/ Mode(c) = "busy" /\ Mode(c)' = "parked"
        \/ Mode(c) = "parked" /\ Mode(c)' = "busy"
        \/ Mode(c) = "busy" /\ Mode(c)' = "out"
        \/ Mode(c) = "parked" /\ Mode(c)' = "out"
    BY <1>20 DEF Remove, Mode
  <2>4. QED
    BY <2>1, <2>2, <2>3, MoveRefines
<1>21. ASSUME NEW c \in Ctx, AllSafeEnter(c) PROVE [World!Next]_(World!vars)
  <2>1. \A d \in Ctx : Mode(d)' = Mode(d)
    BY <1>21 DEF AllSafeEnter, Mode, Listeners, AllSafe
  <2>2. ~InGc
    BY <1>21 DEF AllSafeEnter, InGc
  <2>3. CASE InGc'
    <3>1. \A d \in Ctx : Mode(d) # "busy"
      BY <1>21 DEF AllSafeEnter, Mode, Listeners, AllSafe
    <3>2. World!Begin
      BY <2>1, <2>2, <2>3, <3>1 DEF World!Begin, Mode, InGc
    <3>3. QED
      BY <3>2 DEF World!Next
  <2>4. CASE ~InGc'
    <3>1. InGc' = InGc
      BY <2>2, <2>4 DEF InGc
    <3>2. QED
      BY <2>1, <3>1, StutterRefines
  <2>5. QED
    BY <2>3, <2>4
<1>22. ASSUME NEW c \in Ctx, GcSweep(c) PROVE World!Next
  <2>1. \A d \in Ctx : Mode(d)' = Mode(d)
    BY <1>22 DEF GcSweep, Mode
  <2>2. InGc /\ ~InGc'
    BY <1>22 DEF GcSweep, InGc
  <2>3. World!End
    BY <2>1, <2>2 DEF World!End, Mode, InGc
  <2>4. QED
    BY <2>3 DEF World!Next
<1>23. ASSUME NEW k \in Ctx, NEW t \in Ctx, Kill(k, t) PROVE UNCHANGED World!vars
  BY <1>23, StutterRefines DEF Kill, InGc, Mode
<1>24. CASE UNCHANGED vars
  BY <1>24, StutterRefines DEF vars, InGc, Mode
<1>25. QED
  BY <1>1, <1>2, <1>3, <1>4, <1>5, <1>6, <1>7, <1>8, <1>9, <1>10,
     <1>11, <1>12, <1>13, <1>14, <1>15, <1>16, <1>17, <1>18, <1>19, <1>20,
     <1>21, <1>22, <1>23, <1>24
  DEF Next, Step, Finished

\* Nobody runs at the beginning.
LEMMA InitRefines == Init => World!Init
BY DEF Init, World!Init, Collecting

\* If interpretations do not nest, mthread.c and mempool.c implement a
\* collector that stops the world (README:396-407).
THEOREM Implementation ==
  ASSUME MaxDepth = 1
  PROVE  Spec => StopsTheWorld
<1>1. IInv /\ [Next]_vars => [World!Next]_(World!vars)
  BY StepRefines
<1>2. QED
  BY <1>1, InitRefines, Invariance, PTL DEF Spec, StopsTheWorld, World!Spec

===========================================================================
