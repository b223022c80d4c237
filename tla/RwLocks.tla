------------------------------ MODULE RwLocks ------------------------------
(**************************************************************************)
(* The read-write locks of arrays and maps: pthread_rwlock with its       *)
(* default attributes, as src/ylext uses it.  A reader is let in as long  *)
(* as nobody writes, also when a writer is waiting.  held[t] lists what   *)
(* thread t has locked, in that order; the code unlocks in reverse.       *)
(**************************************************************************)
EXTENDS Naturals, Sequences

CONSTANT Thread       \* the threads of a program

Idle == [op |-> "none"]   \* what a thread executes between two calls

\* The threads that keep t from locking c.
Keepers(held, c, mode) ==
  {u \in DOMAIN held : \E k \in DOMAIN held[u] :
                         held[u][k].c = c /\ (mode = "wr" \/ held[u][k].mode = "wr")}

MayLock(held, c, mode) == Keepers(held, c, mode) = {}
WithLock(held, t, c, mode) == [held EXCEPT ![t] = Append(@, [c |-> c, mode |-> mode])]
WithoutLast(held, t) == [held EXCEPT ![t] = SubSeq(@, 1, Len(@) - 1)]

\* Nobody reads what another writes.
Exclusive(held) ==
  \A t, u \in DOMAIN held : t # u =>
    \A k \in DOMAIN held[t], l \in DOMAIN held[u] :
      held[t][k].c = held[u][l].c => held[t][k].mode = "rd" /\ held[u][l].mode = "rd"

\* Some threads all wait for locks that are held among themselves.  wants[t] is the
\* lock t is about to take, or <<>>.
Stuck(held, wants) ==
  \E S \in SUBSET DOMAIN held :
    /\ S # {}
    /\ \A t \in S : wants[t] # <<>> /\ Keepers(held, wants[t].c, wants[t].mode) \cap S # {}
============================================================================
