----------------------------- MODULE Containers ----------------------------
(**************************************************************************)
(* Arrays and maps side by side, and what makes them usable by several    *)
(* threads: neither knows of the other, but both live among the blocks    *)
(* that one collector visits.                                             *)
(**************************************************************************)
EXTENDS Arrays, Maps

\* Threads that compare, read and assign never wait for each other in a circle, and
\* the collector never waits for the lock of an array or a map: who counts as safe
\* has unlocked what it had locked (nfunc_arr.c:68-93, 141-158;
\* nfunc_map.c:185-198, 246-274).
NobodyStuck == NoCircle /\ NoMapCircle /\ ArrayVisitsPass /\ MapVisitsPass

\* What a call works on, or is about to return, is not collected under it, and a map is
\* not changed under its reader.  In programs that do not assign through several
\* indices, moreover, what a comparison of arrays has found equal stays so until it ends,
\* and an access walks through the arrays that it has locked (nfunc_arr.c:68-93, 258-284;
\* nfunc_map.c:185-198, 299-464).
UsedSafely == ArraysInUse /\ MapsInUse /\ Undisturbed /\ ComparedStaysEqual /\ WalksLocked
============================================================================
