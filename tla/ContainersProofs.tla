-------------------------- MODULE ContainersProofs --------------------------
(***************************************************************************)
(* Arrays and maps under their read-write locks, for any threads, arrays,  *)
(* maps and programs: nobody waits in a circle, the collector never waits, *)
(* and what a call works on stays in use.  And the table behind hash maps, *)
(* for any hash values and sizes: it is a map, however it grows and        *)
(* shrinks.                                                                *)
(***************************************************************************)
EXTENDS Containers, HashMap, DataLemmas, FiniteSetTheorems

Modes == {"rd", "wr"}
Locks(O) == [c : O, mode : Modes]

----------------------------------------------------------------------------
(* Locks.                                                                   *)

\* A lock that may be taken leaves what is held compatible.
LEMMA LockTaken ==
  ASSUME NEW O, NEW held \in [Thread -> Seq(Locks(O))], NEW t \in Thread, NEW c \in O,
         NEW m \in Modes, MayLock(held, c, m), Exclusive(held)
  PROVE  /\ WithLock(held, t, c, m) \in [Thread -> Seq(Locks(O))]
         /\ \A u \in Thread : u # t => WithLock(held, t, c, m)[u] = held[u]
         /\ Len(WithLock(held, t, c, m)[t]) = Len(held[t]) + 1
         /\ \A i \in 1..Len(held[t]) : WithLock(held, t, c, m)[t][i] = held[t][i]
         /\ WithLock(held, t, c, m)[t][Len(held[t]) + 1] = [c |-> c, mode |-> m]
         /\ Exclusive(WithLock(held, t, c, m))
<1> DEFINE l == [c |-> c, mode |-> m]
           g == WithLock(held, t, c, m)
<1>1. l \in Locks(O) /\ l.c = c /\ l.mode = m
  BY DEF Locks
<1>2. g = [held EXCEPT ![t] = Append(held[t], l)]
  BY DEF WithLock
<1> HIDE DEF l
<1>3. /\ Append(held[t], l) \in Seq(Locks(O))
      /\ Len(Append(held[t], l)) = Len(held[t]) + 1
      /\ \A i \in 1..Len(held[t]) : Append(held[t], l)[i] = held[t][i]
      /\ Append(held[t], l)[Len(held[t]) + 1] = l
  BY <1>1, AppendProperties
<1>4. /\ g \in [Thread -> Seq(Locks(O))]
      /\ \A u \in Thread : u # t => g[u] = held[u]
      /\ g[t] = Append(held[t], l)
  BY <1>2, <1>3
<1> HIDE DEF g
<1>5. \A u \in Thread : u # t => \A k \in DOMAIN held[u] :
        held[u][k].c = c => m = "rd" /\ held[u][k].mode = "rd"
  <2> SUFFICES ASSUME NEW u \in Thread, u # t, NEW k \in DOMAIN held[u], held[u][k].c = c
               PROVE  m = "rd" /\ held[u][k].mode = "rd"
    OBVIOUS
  <2>1. DOMAIN held = Thread
    OBVIOUS
  <2>2. ~ (m = "wr" \/ held[u][k].mode = "wr")
    BY <2>1 DEF MayLock, Keepers
  <2>3. held[u][k] \in Locks(O)
    OBVIOUS
  <2> QED
    BY <2>2, <2>3 DEF Locks, Modes
<1>6. ASSUME NEW u \in Thread, NEW v \in Thread, u # v,
             NEW k \in DOMAIN g[u], NEW j \in DOMAIN g[v], g[u][k].c = g[v][j].c
      PROVE  g[u][k].mode = "rd" /\ g[v][j].mode = "rd"
  <2>1. ASSUME NEW w \in Thread, NEW i \in DOMAIN g[w]
        PROVE  \/ i \in DOMAIN held[w] /\ g[w][i] = held[w][i]
               \/ w = t /\ g[w][i] = l
    <3>1. PICK n \in Nat : n = Len(held[t])
      OBVIOUS
    <3>2. CASE w # t
      BY <3>2, <1>4
    <3>3. CASE w = t
      <4>1. i \in 1..n + 1 /\ DOMAIN held[t] = 1..n
        BY <3>1, <3>3, <1>3, <1>4, LenProperties
      <4>2. i \in 1..n \/ i = n + 1
        BY <4>1
      <4> QED
        BY <4>1, <4>2, <3>1, <3>3, <1>3, <1>4
    <3> QED
      BY <3>2, <3>3
  <2>2. DOMAIN held = Thread
    OBVIOUS
  <2>3. CASE k \in DOMAIN held[u] /\ g[u][k] = held[u][k] /\ j \in DOMAIN held[v] /\ g[v][j] = held[v][j]
    BY <1>6, <2>2, <2>3 DEF Exclusive
  <2>4. CASE u = t /\ g[u][k] = l
    <3>1. j \in DOMAIN held[v] /\ g[v][j] = held[v][j]
      BY <1>6, <2>1, <2>4
    <3> QED
      BY <1>1, <1>5, <1>6, <2>4, <3>1
  <2>5. CASE v = t /\ g[v][j] = l
    <3>1. k \in DOMAIN held[u] /\ g[u][k] = held[u][k]
      BY <1>6, <2>1, <2>5
    <3> QED
      BY <1>1, <1>5, <1>6, <2>5, <3>1
  <2> QED
    BY <1>6, <2>1, <2>3, <2>4, <2>5
<1>7. DOMAIN g = Thread
  BY <1>4
<1>8. Exclusive(g)
  BY <1>6, <1>7 DEF Exclusive
<1> QED
  BY <1>3, <1>4, <1>8 DEF g, l

\* Unlocking the last lock does so, too.
LEMMA LockGivenBack ==
  ASSUME NEW O, NEW held \in [Thread -> Seq(Locks(O))], NEW t \in Thread,
         Len(held[t]) > 0, Exclusive(held)
  PROVE  /\ WithoutLast(held, t) \in [Thread -> Seq(Locks(O))]
         /\ \A u \in Thread : u # t => WithoutLast(held, t)[u] = held[u]
         /\ Len(WithoutLast(held, t)[t]) = Len(held[t]) - 1
         /\ \A i \in 1..Len(held[t]) - 1 : WithoutLast(held, t)[t][i] = held[t][i]
         /\ Exclusive(WithoutLast(held, t))
<1> DEFINE g == WithoutLast(held, t)
<1>1. held[t] # <<>>
  OBVIOUS
<1>2. /\ Front(held[t]) \in Seq(Locks(O)) /\ Len(Front(held[t])) = Len(held[t]) - 1
      /\ Len(held[t]) \in Nat \ {0}
      /\ \A i \in 1..Len(held[t]) - 1 : Front(held[t])[i] = held[t][i]
  BY <1>1, FrontLast
<1>3. g = [held EXCEPT ![t] = Front(held[t])]
  BY DEF WithoutLast, Front
<1>4. /\ g \in [Thread -> Seq(Locks(O))]
      /\ \A u \in Thread : u # t => g[u] = held[u]
      /\ g[t] = Front(held[t])
  BY <1>2, <1>3
<1> HIDE DEF g
<1>5. ASSUME NEW w \in Thread, NEW i \in DOMAIN g[w]
      PROVE  i \in DOMAIN held[w] /\ g[w][i] = held[w][i]
  <2>1. CASE w # t
    BY <1>4, <2>1
  <2>2. CASE w = t
    <3>1. DOMAIN g[t] = 1..Len(held[t]) - 1 /\ DOMAIN held[t] = 1..Len(held[t])
      BY <1>2, <1>4, LenProperties
    <3>2. i \in 1..Len(held[t])
      BY <1>2, <2>2, <3>1
    <3> QED
      BY <1>2, <1>4, <2>2, <3>1, <3>2
  <2> QED
    BY <2>1, <2>2
<1>6. DOMAIN g = Thread /\ DOMAIN held = Thread
  BY <1>4
<1>7. Exclusive(g)
  BY <1>5, <1>6 DEF Exclusive
<1> QED
  BY <1>2, <1>4, <1>7 DEF g

\* The locks of a comparison come in pairs.
LEMMA Halves ==
  ASSUME NEW k \in Nat \ {0}
  PROVE  \E j \in Nat \ {0} : k = 2 * j \/ k = 2 * j - 1
<1>1. (k + 1) \div 2 \in Nat \ {0} /\ (k = 2 * ((k + 1) \div 2) \/ k = 2 * ((k + 1) \div 2) - 1)
  BY SMTT(30)
<1> QED
  BY <1>1

----------------------------------------------------------------------------
(* Arrays : what a set of arrays reaches, and what kind of call is running. *)

\* What a set reaches is the least set around it that no element leads out of.
LEMMA ReachedIsLeast ==
  ASSUME NEW S, S \subseteq Arr
  PROVE  /\ S \subseteq Reached(S) /\ Reached(S) \subseteq Arr
         /\ Contents(Reached(S)) \subseteq Reached(S)
         /\ \A C \in SUBSET Arr : S \subseteq C /\ Closed(C) => Reached(S) \subseteq C
<1>1. S \subseteq Reached(S) /\ Reached(S) \subseteq Arr
  BY DEF Reached
<1>2. ASSUME NEW C \in SUBSET Arr, S \subseteq C, Closed(C) PROVE Reached(S) \subseteq C
  <2>1. C \ S \in SUBSET (Arr \ S) /\ S \cup (C \ S) = C
    BY <1>2
  <2>2. ASSUME NEW a \in Reached(S) PROVE a \in C
    <3>1. \A D \in SUBSET (Arr \ S) : a \in S \cup D \/ ~Closed(S \cup D)
      BY DEF Reached
    <3>2. a \in S \cup (C \ S) \/ ~Closed(S \cup (C \ S))
      BY <2>1, <3>1
    <3> QED
      BY <1>2, <2>1, <3>2
  <2> QED
    BY <2>2
<1>3. ASSUME NEW b \in Contents(Reached(S)) PROVE b \in Reached(S)
  <2>1. b \in Arr
    BY <1>3 DEF Contents
  <2>2. ASSUME NEW D \in SUBSET (Arr \ S), Closed(S \cup D) PROVE b \in S \cup D
    <3>1. Reached(S) \subseteq S \cup D
      BY <1>2, <2>2
    <3>2. b \in Contents(S \cup D)
      BY <1>3, <3>1 DEF Contents
    <3> QED
      BY <2>2, <3>2 DEF Closed
  <2> QED
    BY <2>1, <2>2 DEF Reached
<1> QED
  BY <1>1, <1>2, <1>3

\* What arrays in use reach is in use.
LEMMA ReachedInUse ==
  ASSUME ArraysInv, NEW S, S \subseteq aalive
  PROVE  Reached(S) \subseteq aalive
<1>1. aalive \in SUBSET Arr /\ Closed(aalive)
  BY DEF ArraysInv, ArrayTypes, SlotsInUse, Closed
<1>2. S \subseteq Arr
  BY <1>1
<1> QED
  BY <1>1, <1>2, ReachedIsLeast

\* The name of a call tells its kind.
LEMMA CallKinds ==
  ASSUME ArraysInv, NEW t \in Thread
  PROVE  /\ acall[t] = Idle \/ acall[t] \in AccessCall \/ acall[t] \in EqCall
         /\ acall[t].op = "none" <=> acall[t] = Idle
         /\ acall[t].op \in {"get", "set"} <=> acall[t] \in AccessCall
         /\ acall[t].op = "eq" <=> acall[t] \in EqCall
<1>1. acall[t] \in {Idle} \cup AccessCall \cup EqCall
  BY DEF ArraysInv, ArrayTypes
<1>2. Idle.op = "none"
  BY DEF Idle
<1>3. \A c \in AccessCall : c.op \in {"get", "set"}
  BY DEF AccessCall
<1>4. \A c \in EqCall : c.op = "eq"
  BY DEF EqCall
<1> QED
  BY <1>1, <1>2, <1>3, <1>4

\* A step that changes one thread's call and locks, and no array.
BecomesCall(t, c) ==
  acall' = [acall EXCEPT ![t] = c] /\ UNCHANGED <<slot, aalive, aroot, adoes>>
LocksOnly(t) ==
  /\ aheld' \in [Thread -> Seq(Locks(Arr))] /\ Exclusive(aheld')
  /\ \A u \in Thread : u # t => aheld'[u] = aheld[u]
KnownInUse(c) ==
  /\ c.top \in aalive /\ c.at \in aalive
  /\ c.ne \in Arr => c.ne \in aalive
  /\ c.v \in Arr => c.v \in aalive
  /\ c.pv # <<>> => c.pv[1] \in aalive
ArraysHeld == aheld \in [Thread -> Seq(Locks(Arr))] /\ Exclusive(aheld)

\* A thread locks an array, ...
LEMMA ArrayLocked ==
  ASSUME ArraysHeld, NEW t \in Thread, NEW a \in Arr, NEW m \in Modes,
         MayLock(aheld, a, m), aheld' = WithLock(aheld, t, a, m)
  PROVE  /\ LocksOnly(t) /\ aheld[t] \in Seq(Locks(Arr)) /\ aheld'[t] \in Seq(Locks(Arr))
         /\ Len(aheld'[t]) = Len(aheld[t]) + 1
         /\ \A i \in 1..Len(aheld[t]) : aheld'[t][i] = aheld[t][i]
         /\ aheld'[t][Len(aheld[t]) + 1] = [c |-> a, mode |-> m]
<1> DEFINE g == WithLock(aheld, t, a, m)
           l == [c |-> a, mode |-> m]
<1>1. aheld \in [Thread -> Seq(Locks(Arr))] /\ Exclusive(aheld)
  BY DEF ArraysHeld
<1>2. /\ g \in [Thread -> Seq(Locks(Arr))]
      /\ \A u \in Thread : u # t => g[u] = aheld[u]
      /\ Len(g[t]) = Len(aheld[t]) + 1
      /\ \A i \in 1..Len(aheld[t]) : g[t][i] = aheld[t][i]
      /\ g[t][Len(aheld[t]) + 1] = l
      /\ Exclusive(g)
  BY <1>1, LockTaken
<1>3. aheld' = g
  OBVIOUS
<1> HIDE DEF g, l
<1>4. LocksOnly(t)
  BY <1>2, <1>3 DEF LocksOnly
<1> QED
  BY <1>1, <1>2, <1>3, <1>4 DEF l

\* ... or unlocks the one it has locked last.
LEMMA ArrayUnlocked ==
  ASSUME ArraysHeld, NEW t \in Thread, Len(aheld[t]) > 0, aheld' = WithoutLast(aheld, t)
  PROVE  /\ LocksOnly(t) /\ aheld[t] \in Seq(Locks(Arr)) /\ aheld'[t] \in Seq(Locks(Arr))
         /\ Len(aheld'[t]) = Len(aheld[t]) - 1
         /\ \A i \in 1..Len(aheld[t]) - 1 : aheld'[t][i] = aheld[t][i]
<1> DEFINE g == WithoutLast(aheld, t)
<1>1. aheld \in [Thread -> Seq(Locks(Arr))] /\ Exclusive(aheld)
  BY DEF ArraysHeld
<1>2. /\ g \in [Thread -> Seq(Locks(Arr))]
      /\ \A u \in Thread : u # t => g[u] = aheld[u]
      /\ Len(g[t]) = Len(aheld[t]) - 1
      /\ \A i \in 1..Len(aheld[t]) - 1 : g[t][i] = aheld[t][i]
      /\ Exclusive(g)
  BY <1>1, LockGivenBack
<1>3. aheld' = g
  OBVIOUS
<1> HIDE DEF g
<1>4. LocksOnly(t)
  BY <1>2, <1>3 DEF LocksOnly
<1> QED
  BY <1>1, <1>2, <1>3, <1>4

\* An access that does nothing still walks along its locks, if the array it is at keeps
\* its elements.
LEMMA FollowsKept ==
  ASSUME NEW u \in Thread, Follows(u), acall'[u] = acall[u], aheld'[u] = aheld[u], adoes' = adoes,
         Walks(u) /\ acall[u].st \in {"inner", "again"} => slot'[acall[u].at] = slot[acall[u].at]
  PROVE  Follows(u)'
<1>1. Walks(u)' = Walks(u)
  BY DEF Walks, Direct
<1>2. SUFFICES ASSUME Walks(u) PROVE FollowsPath(acall[u], aheld[u])'
  BY <1>1 DEF Follows
<1>3. FollowsPath(acall[u], aheld[u])
  BY <1>2 DEF Follows
<1> QED
  BY <1>2, <1>3 DEF FollowsPath, Inner

\* A step of an access that changes its call and its locks, and nothing else.
LEMMA CallStep ==
  ASSUME ArraysInv, NEW t \in Thread, NEW c \in {Idle} \cup AccessCall \cup EqCall,
         BecomesCall(t, c), LocksOnly(t),
         HoldsLocks(t)', Assigns(t)', Compared(t)', StaysEqual(t)', Follows(t)',
         Knows(t)' \subseteq aalive
  PROVE  ArraysInv'
<1> USE DEF BecomesCall, LocksOnly
<1>1. /\ acall' \in [Thread -> {Idle} \cup AccessCall \cup EqCall]
      /\ \A u \in Thread : u # t => acall'[u] = acall[u]
  BY DEF ArraysInv, ArrayTypes
<1>2. ArrayTypes'
  BY <1>1 DEF ArraysInv, ArrayTypes, Locks, Modes
<1>3. SlotsInUse'
  <2>1. ASSUME NEW u \in Thread PROVE Knows(u)' \subseteq aalive
    <3>1. CASE u = t
      BY <3>1
    <3>2. CASE u # t
      <4>1. acall'[u] = acall[u]
        BY <1>1, <3>2
      <4>2. Knows(u)' = Knows(u)
        BY <4>1, Zenon DEF Knows, InEq
      <4> QED
        BY <4>2 DEF ArraysInv, SlotsInUse
    <3> QED
      BY <3>1, <3>2
  <2>2. Contents(aalive)' = Contents(aalive)
    BY DEF Contents
  <2>3. (\A a \in Arr \ aalive : slot[a] = Nils(a))'
    BY DEF ArraysInv, SlotsInUse
  <2> QED
    BY <2>1, <2>2, <2>3 DEF ArraysInv, SlotsInUse
<1>4. ASSUME NEW u \in Thread
      PROVE  /\ HoldsLocks(u)' /\ Assigns(u)' /\ Compared(u)' /\ StaysEqual(u)'
             /\ Follows(u)'
  <2>1. CASE u = t
    BY <2>1
  <2>2. CASE u # t
    <3>1. acall'[u] = acall[u] /\ aheld'[u] = aheld[u]
      BY <1>1, <2>2
    <3>2. HoldsLocks(u) /\ Assigns(u) /\ Compared(u) /\ StaysEqual(u)
      BY DEF ArraysInv, ComparedStaysEqual
    <3>3. HoldsLocks(u)'
      BY <3>1, <3>2 DEF HoldsLocks
    <3>4. Assigns(u)'
      BY <3>1, <3>2 DEF Assigns, MayAssign
    <3>5. /\ Direct' = Direct
          /\ \A f : EqualSoFar(f)' = EqualSoFar(f) /\ InTurn(f)' = InTurn(f)
      BY DEF Direct, EqualSoFar, InTurn
    <3>6. InEq(u)' = InEq(u)
      BY <3>1 DEF InEq
    <3>7. Compared(u)'
      BY <3>1, <3>2, <3>5, <3>6 DEF Compared
    <3>8. StaysEqual(u)'
      BY <3>1, <3>2, <3>5, <3>6 DEF StaysEqual
    <3>9. Follows(u)'
      <4>1. Follows(u)
        BY DEF ArraysInv
      <4> QED
        BY <3>1, <4>1, FollowsKept
    <3> QED
      BY <3>3, <3>4, <3>7, <3>8, <3>9
  <2> QED
    BY <2>1, <2>2
<1> QED
  BY <1>2, <1>3, <1>4 DEF ArraysInv, ComparedStaysEqual

\* The same for a thread that is idle afterwards, ...
LEMMA IdleStep ==
  ASSUME ArraysInv, NEW t \in Thread, BecomesCall(t, Idle), LocksOnly(t), aheld'[t] = <<>>
  PROVE  ArraysInv'
<1>1. acall'[t] = Idle
  BY DEF ArraysInv, ArrayTypes, BecomesCall
<1>2. Idle.op = "none" /\ Idle \notin AccessCall /\ Idle \notin EqCall
  BY DEF Idle, AccessCall, EqCall
<1>3. HoldsLocks(t)'
  BY <1>1, <1>2 DEF HoldsLocks
<1>4. Assigns(t)' /\ Compared(t)' /\ StaysEqual(t)' /\ Follows(t)'
  BY <1>1, <1>2 DEF Assigns, MayAssign, Compared, StaysEqual, InEq, Follows, Walks
<1>5. Knows(t)' = {}
  BY <1>1, <1>2 DEF Knows, InEq
<1> QED
  BY <1>3, <1>4, <1>5, CallStep

\* ... for one inside arr_get or arr_set ...
LEMMA AccessStep ==
  ASSUME ArraysInv, NEW t \in Thread, NEW c \in AccessCall,
         BecomesCall(t, c), LocksOnly(t), AccessHolds(c, aheld'[t]),
         KnownInUse(c), MayAssign(t, c), Direct => FollowsPath(c, aheld'[t])
  PROVE  ArraysInv'
<1>1. acall'[t] = c /\ UNCHANGED <<slot, aalive, aroot, adoes>>
  BY DEF ArraysInv, ArrayTypes, BecomesCall
<1>2. c.op \in {"get", "set"} /\ c # Idle /\ c \notin EqCall
  <2>1. c.op \in {"get", "set"}
    BY DEF AccessCall
  <2>2. Idle.op = "none" /\ \A d \in EqCall : d.op = "eq"
    BY DEF Idle, EqCall
  <2> QED
    BY <2>1, <2>2
<1>3. HoldsLocks(t)'
  BY <1>1, <1>2 DEF HoldsLocks
<1>4. Assigns(t)'
  BY <1>1 DEF Assigns, MayAssign, Element
<1>5. Compared(t)' /\ StaysEqual(t)'
  BY <1>1, <1>2 DEF Compared, StaysEqual, InEq
<1>6. Knows(t)' \subseteq aalive
  BY <1>1, <1>2 DEF Knows, KnownInUse, InEq
<1>7. Follows(t)'
  <2>1. Walks(t)' => Direct
    BY <1>1 DEF Walks, Direct
  <2> QED
    BY <1>1, <2>1 DEF Follows, FollowsPath, Inner
<1> QED
  BY <1>3, <1>4, <1>5, <1>6, <1>7, CallStep

\* ... and for one inside a comparison.
FramesFine(F) ==
  /\ \A k \in 1..Len(F) : F[k].e0 \in aalive /\ F[k].e1 \in aalive
  /\ Direct => /\ \A k \in 1..Len(F) : EqualSoFar(F[k])
               /\ \A k \in 1..Len(F) - 1 : InTurn(F[k])

\* A step of a comparison, likewise.
LEMMA EqStep ==
  ASSUME ArraysInv, NEW t \in Thread, NEW F \in Seq(ArrayFrame) \ {<<>>},
         BecomesCall(t, [op |-> "eq", frames |-> F]), LocksOnly(t),
         EqHolds(F, aheld'[t]), FramesFine(F)
  PROVE  ArraysInv'
<1> DEFINE c == [op |-> "eq", frames |-> F]
<1>1. c \in EqCall /\ c.op = "eq" /\ c.frames = F
  BY DEF EqCall
<1> HIDE DEF c
<1>2. acall'[t] = c /\ UNCHANGED <<slot, aalive, aroot, adoes>>
  BY DEF ArraysInv, ArrayTypes, BecomesCall, c
<1>3. c # Idle /\ c \notin AccessCall
  <2>1. Idle.op = "none" /\ \A d \in AccessCall : d.op \in {"get", "set"}
    BY DEF Idle, AccessCall
  <2> QED
    BY <1>1, <2>1
<1>4. HoldsLocks(t)'
  BY <1>1, <1>2, <1>3 DEF HoldsLocks
<1>5. Assigns(t)'
  BY <1>1, <1>2 DEF Assigns, MayAssign
<1>6. /\ Direct' = Direct
      /\ \A f : EqualSoFar(f)' = EqualSoFar(f) /\ InTurn(f)' = InTurn(f)
  BY <1>2 DEF Direct, EqualSoFar, InTurn
<1>7. DOMAIN F = 1..Len(F)
  BY LenProperties
<1>8. Compared(t)' /\ StaysEqual(t)'
  BY <1>1, <1>2, <1>6, <1>7 DEF Compared, StaysEqual, FramesFine
<1>9. Knows(t)' \subseteq aalive
  <2>1. \A a \in Knows(t)' : \E k \in DOMAIN F : a \in {F[k].e0, F[k].e1}
    BY <1>1, <1>2 DEF Knows, InEq
  <2> QED
    BY <1>7, <2>1 DEF FramesFine
<1>10. Follows(t)'
  BY <1>1, <1>2 DEF Follows, Walks
<1> QED
  BY <1>1, <1>2, <1>4, <1>5, <1>8, <1>9, <1>10, CallStep DEF c

----------------------------------------------------------------------------
(* Arrays : the steps.                                                      *)

\* Before the first call no array is locked or holds another.
LEMMA ArraysStart ==
  ASSUME ArraysAssumption, ArraysInit
  PROVE  ArraysInv
<1>1. \A a \in Arr : \A i \in Index(a) : Nils(a)[i] = nil
  BY DEF Nils
<1>2. nil \in Atom /\ nil \notin Arr /\ \A a \in Arr : nil \in Element(a)
  BY DEF ArraysAssumption, Element
<1>3. \A a \in Arr : Nils(a) \in [Index(a) -> Element(a)] /\ Nils(a) \in [Index(a) -> Atom \cup Arr]
  BY <1>2 DEF Nils
<1>4. slot = [a \in Arr |-> Nils(a)] /\ aroot = aalive /\ (aalive = {} \/ aalive = Arr)
  BY DEF ArraysInit
<1>5. Contents(aalive) = {}
  <2>1. ASSUME NEW a \in aalive, NEW i \in DOMAIN slot[a] PROVE slot[a][i] \notin Arr
    <3>1. slot[a] = Nils(a) /\ DOMAIN Nils(a) = Index(a) /\ a \in Arr
      BY <1>4 DEF Nils
    <3> QED
      BY <1>1, <1>2, <3>1
  <2> QED
    BY <2>1, Zenon DEF Contents
<1>6. \A t \in Thread : aheld[t] = <<>> /\ acall[t] = Idle
  BY DEF ArraysInit
<1>7. Idle.op = "none" /\ Idle \notin AccessCall /\ Idle \notin EqCall
  BY DEF Idle, AccessCall, EqCall
<1>8. ArrayTypes
  <2>1. slot \in [Arr -> UNION {[Index(a) -> Atom \cup Arr] : a \in Arr}]
    BY <1>3, <1>4
  <2>2. /\ aheld \in [Thread -> Seq([c : Arr, mode : {"rd", "wr"}])]
        /\ acall \in [Thread -> {Idle} \cup AccessCall \cup EqCall]
    BY DEF ArraysInit
  <2> QED
    BY <1>3, <1>4, <2>1, <2>2 DEF ArrayTypes, ArraysInit
<1>9. \A t \in Thread : Knows(t) = {}
  BY <1>6, <1>7 DEF Knows, InEq
<1>10. SlotsInUse
  BY <1>4, <1>5, <1>9 DEF SlotsInUse
<1>11. Exclusive(aheld)
  BY DEF ArraysInit, Exclusive
<1>12. \A t \in Thread : HoldsLocks(t) /\ Assigns(t) /\ Compared(t) /\ StaysEqual(t) /\ Follows(t)
  BY <1>6, <1>7 DEF HoldsLocks, Assigns, MayAssign, Compared, StaysEqual, InEq, Follows, Walks
<1> QED
  BY <1>8, <1>10, <1>11, <1>12 DEF ArraysInv, ComparedStaysEqual

\* What an access that is running knows.
LEMMA InAccess ==
  ASSUME ArraysInv, NEW t \in Thread, acall[t].op \in {"get", "set"}
  PROVE  /\ acall[t] \in AccessCall /\ AccessHolds(acall[t], aheld[t])
         /\ KnownInUse(acall[t]) /\ MayAssign(t, acall[t])
         /\ ArraysHeld /\ aalive \subseteq Arr
         /\ Direct => FollowsPath(acall[t], aheld[t])
<1>1. acall[t] \in AccessCall
  BY CallKinds
<1>2. HoldsLocks(t) /\ Assigns(t) /\ Knows(t) \subseteq aalive
  BY DEF ArraysInv, SlotsInUse
<1>3. KnownInUse(acall[t])
  <2>1. /\ acall[t].top \in Arr /\ acall[t].at \in Arr
        /\ acall[t].pv # <<>> => acall[t].pv[1] \in Arr
    BY <1>1 DEF AccessCall
  <2> QED
    BY <1>2, <2>1 DEF Knows, KnownInUse
<1>4. ArraysHeld /\ aalive \subseteq Arr
  BY DEF ArraysInv, ArrayTypes, ArraysHeld, Locks, Modes
<1>5. Direct => FollowsPath(acall[t], aheld[t])
  BY DEF ArraysInv, Follows, Walks
<1> QED
  BY <1>1, <1>2, <1>3, <1>4, <1>5 DEF HoldsLocks, Assigns

\* An access starts at an array that symbols lead to.
LEMMA AccessStarts ==
  ASSUME ArraysAssumption, ArraysInv, NEW t \in Thread, NEW a \in Reached(aroot), NEW ix \in Paths,
         Get(t, a, ix) \/ \E v \in Atom \cup Reached(aroot) : Set(t, a, ix, v)
  PROVE  ArraysInv'
<1>1. aroot \subseteq aalive /\ aalive \subseteq Arr
  BY DEF ArraysInv, ArrayTypes
<1>2. Reached(aroot) \subseteq aalive
  BY <1>1, ReachedInUse
<1>3. ix \in Seq(Nat)
  <2>1. ASSUME NEW b \in Arr PROVE Index(b) \subseteq Nat
    <3>1. PICK n \in Nat : n = Size[b]
      BY DEF ArraysAssumption
    <3> QED
      BY <3>1 DEF Index
  <2>2. Places \subseteq Nat
    BY <2>1 DEF Places
  <2>3. PICK n \in 1..MaxIndices : ix \in [1..n -> Places]
    BY DEF Paths
  <2>4. n \in Nat
    <3>1. MaxIndices \in Nat
      BY DEF ArraysAssumption
    <3> QED
      BY <2>3, <3>1
  <2>5. ix \in [1..n -> Nat]
    BY <2>2, <2>3
  <2> QED
    BY <2>4, <2>5
<1>4. PICK op \in {"get", "set"}, v \in Atom \cup Arr \cup {<<>>} :
        /\ acall[t] = Idle /\ Access(t, op, a, ix, v)
        /\ v \in Arr => v \in aalive
        /\ op = "set" => /\ Len(ix) = 1 \/ "set below" \in adoes[t]
                         /\ v \in Atom \cup Arr /\ (v \in Arr => Layer[v] + Len(ix) = Layer[a])
  <2>1. CASE Get(t, a, ix)
    <3>1. <<>> \notin Arr
      BY DEF ArraysAssumption
    <3> QED
      BY <2>1, <3>1 DEF Get
  <2>2. CASE \E v \in Atom \cup Reached(aroot) : Set(t, a, ix, v)
    <3>1. PICK v \in Atom \cup Reached(aroot) : Set(t, a, ix, v)
      BY <2>2
    <3>2. acall[t] = Idle /\ Access(t, "set", a, ix, v)
      BY <3>1 DEF Set
    <3>3. v \in Atom \cup Arr /\ (v \in Arr => v \in aalive)
      BY <1>1, <1>2 DEF ArraysAssumption
    <3>4. /\ Len(ix) = 1 \/ "set below" \in adoes[t]
          /\ v \in Arr => Layer[v] + Len(ix) = Layer[a]
      BY <3>1 DEF Set
    <3> QED
      BY <3>2, <3>3, <3>4
  <2> QED
    BY <2>1, <2>2
<1> DEFINE c == [op |-> op, top |-> a, at |-> a, ne |-> <<>>, ix |-> ix, v |-> v, pv |-> <<>>, st |-> "lock"]
<1>5. /\ acall[t] = Idle /\ acall' = [acall EXCEPT ![t] = c]
      /\ UNCHANGED <<slot, aalive, aroot, aheld, adoes>>
  BY <1>4 DEF Access
<1>6. a \in Arr /\ a \in aalive
  BY <1>1, <1>2
<1>7. /\ c \in AccessCall /\ c.op = op /\ c.top = a /\ c.at = a /\ c.ix = ix /\ c.v = v
      /\ c.pv = <<>> /\ c.st = "lock" /\ c.ne = <<>>
  BY <1>3, <1>6 DEF AccessCall
<1> HIDE DEF c
<1>8. LocksOnly(t)
  BY <1>5 DEF ArraysInv, ArrayTypes, Locks, Modes, LocksOnly
<1>9. aheld[t] = <<>>
  BY <1>4 DEF ArraysInv, HoldsLocks
<1>10. AccessHolds(c, aheld'[t])
  BY <1>5, <1>7, <1>9 DEF AccessHolds
<1>11. BecomesCall(t, c)
  BY <1>5 DEF BecomesCall
<1>12. KnownInUse(c)
  BY <1>4, <1>6, <1>7 DEF KnownInUse, ArraysAssumption
<1>13. MayAssign(t, c)
  <2>1. Len(ix) = 1 => Len(ix) <= 1
    OBVIOUS
  <2> QED
    BY <1>4, <1>7, <2>1 DEF MayAssign
<1>14. FollowsPath(c, aheld'[t])
  BY <1>7 DEF FollowsPath
<1> QED
  BY <1>7, <1>8, <1>10, <1>11, <1>12, <1>13, <1>14, AccessStep

\* arr_get and arr_set lock the array they are called with.
LEMMA LockTopKeeps ==
  ASSUME ArraysAssumption, ArraysInv, NEW t \in Thread, LockTop(t)
  PROVE  ArraysInv'
<1> DEFINE c == acall[t]
           d == [c EXCEPT !.st = "find"]
<1>1. /\ c.op \in {"get", "set"} /\ c.st = "lock" /\ BecomesCall(t, d)
      /\ MayLock(aheld, c.top, mode(c)) /\ aheld' = WithLock(aheld, t, c.top, mode(c))
  BY DEF LockTop, BecomesCall
<1>2. /\ c \in AccessCall /\ KnownInUse(c) /\ MayAssign(t, c) /\ ArraysHeld
      /\ AccessHolds(c, aheld[t])
  BY <1>1, InAccess
<1>3. /\ d \in AccessCall /\ d.op = c.op /\ d.top = c.top /\ d.at = c.at /\ d.ix = c.ix
      /\ d.v = c.v /\ d.pv = c.pv /\ d.st = "find" /\ d.ne = c.ne /\ c.top \in Arr
  BY <1>2 DEF AccessCall
<1> HIDE DEF d, c
<1>4. mode(c) \in Modes /\ mode(d) = mode(c)
  BY <1>3 DEF mode, Modes
<1>5. aheld[t] = <<>> /\ c.at = c.top
  BY <1>1, <1>2 DEF AccessHolds
<1>6. Len(aheld[t]) = 0
  BY <1>5
<1>7. /\ LocksOnly(t) /\ Len(aheld'[t]) = 0 + 1
      /\ aheld'[t][0 + 1] = [c |-> c.top, mode |-> mode(c)]
  BY <1>1, <1>2, <1>3, <1>4, <1>6, ArrayLocked
<1>8. Len(aheld'[t]) = 1 /\ aheld'[t][1] = [c |-> d.top, mode |-> mode(d)]
  BY <1>3, <1>4, <1>7
<1>9. AccessHolds(d, aheld'[t])
  <2>1. Layer[d.at] \in Nat
    BY <1>3, <1>5 DEF ArraysAssumption
  <2>2. \A k \in 1..Len(aheld'[t]) : Layer[aheld'[t][k].c] >= Layer[d.at]
    BY <1>3, <1>5, <1>8, <2>1
  <2>3. Len(aheld'[t]) > 0
    BY <1>8
  <2> HIDE <2>2
  <2> QED
    BY <1>3, <1>8, <2>2, <2>3, Zenon DEF AccessHolds
<1>10. KnownInUse(d) /\ MayAssign(t, d)
  BY <1>1, <1>2, <1>3 DEF KnownInUse, MayAssign
<1>11. FollowsPath(d, aheld'[t])
  BY <1>3, <1>5, <1>8 DEF FollowsPath
<1> QED
  BY <1>1, <1>3, <1>7, <1>9, <1>10, <1>11, AccessStep

\* The last index names a place of the array that has been reached.
LEMMA FindKeeps ==
  ASSUME ArraysAssumption, ArraysInv, NEW t \in Thread, Find(t)
  PROVE  ArraysInv'
<1> DEFINE c == acall[t]
           x == IF Len(c.ix) = 1 /\ Head(c.ix) \in Index(c.at) THEN <<c.at, Head(c.ix)>> ELSE <<>>
           d == [c EXCEPT !.st = "back", !.ix = <<>>, !.pv = x]
<1>1. c.op \in {"get", "set"} /\ c.st = "find" /\ BecomesCall(t, d) /\ UNCHANGED aheld
  BY DEF Find, BecomesCall
<1>2. /\ c \in AccessCall /\ KnownInUse(c) /\ MayAssign(t, c) /\ ArraysHeld
      /\ AccessHolds(c, aheld[t])
  BY <1>1, InAccess
<1>3. c.at \in Arr
  BY <1>2 DEF AccessCall
<1>4. x = <<>> \/ (x \in Arr \X Nat /\ x[1] = c.at /\ Len(c.ix) = 1)
  <2>1. PICK n \in Nat : n = Size[c.at]
    BY <1>3 DEF ArraysAssumption
  <2>2. Head(c.ix) \in Index(c.at) => Head(c.ix) \in Nat
    BY <2>1 DEF Index
  <2> QED
    BY <1>3, <2>2
<1> HIDE DEF x
<1>5. /\ d \in AccessCall /\ d.op = c.op /\ d.top = c.top /\ d.at = c.at /\ d.ix = <<>>
      /\ d.v = c.v /\ d.pv = x /\ d.st = "back" /\ d.ne = c.ne
  <2>1. <<>> \in Seq(Nat)
    OBVIOUS
  <2> QED
    BY <1>2, <1>4, <2>1 DEF AccessCall
<1> HIDE DEF d, c
<1>6. mode(d) = mode(c)
  BY <1>5 DEF mode
<1>7. AccessHolds(d, aheld'[t])
  BY <1>1, <1>2, <1>5, <1>6 DEF AccessHolds
<1>8. LocksOnly(t)
  BY <1>1, <1>2 DEF ArraysHeld, LocksOnly
<1>9. KnownInUse(d)
  BY <1>2, <1>4, <1>5 DEF KnownInUse
<1>10. MayAssign(t, d)
  <2>1. Len(<<>>) <= 1
    OBVIOUS
  <2> QED
    BY <1>1, <1>2, <1>4, <1>5, <2>1 DEF MayAssign
<1>11. FollowsPath(d, aheld'[t])
  BY <1>5 DEF FollowsPath
<1> QED
  BY <1>1, <1>5, <1>7, <1>8, <1>9, <1>10, <1>11, AccessStep

\* An array in an array in use is in use, and of the layer below.
LEMMA ElementIs ==
  ASSUME ArraysAssumption, ArraysInv, NEW a \in aalive, NEW i \in Index(a), slot[a][i] \in Arr
  PROVE  slot[a][i] \in aalive /\ Layer[slot[a][i]] + 1 = Layer[a]
<1>1. a \in Arr /\ slot[a] \in [Index(a) -> Element(a)] /\ Contents(aalive) \subseteq aalive
  BY DEF ArraysInv, ArrayTypes, SlotsInUse
<1>2. slot[a][i] \in Element(a)
  BY <1>1
<1>3. slot[a][i] \in Contents(aalive)
  <2>1. DOMAIN slot[a] = Index(a)
    BY <1>1
  <2> QED
    BY <2>1 DEF Contents
<1> QED
  BY <1>1, <1>2, <1>3 DEF Element, ArraysAssumption

\* The element that is tested is an array of the layer below.
LEMMA TestKeeps ==
  ASSUME ArraysAssumption, ArraysInv, NEW t \in Thread, Test(t)
  PROVE  ArraysInv'
<1> DEFINE c == acall[t]
           b == Inner(c)
           d == [c EXCEPT !.st = "inner", !.ne = b]
<1>1. /\ c.op \in {"get", "set"} /\ c.st = "find" /\ Descends(c) /\ BecomesCall(t, d) /\ UNCHANGED aheld
  BY DEF Test, BecomesCall
<1>2. /\ c \in AccessCall /\ KnownInUse(c) /\ MayAssign(t, c) /\ ArraysHeld
      /\ AccessHolds(c, aheld[t]) /\ (Direct => FollowsPath(c, aheld[t]))
  BY <1>1, InAccess
<1> HIDE DEF c, d, b
<1>3. Len(c.ix) > 1 /\ Head(c.ix) \in Index(c.at) /\ b \in Arr
  BY <1>1 DEF Descends, b
<1>4. b \in aalive /\ Layer[b] + 1 = Layer[c.at]
  <2>1. c.at \in aalive
    BY <1>2 DEF KnownInUse
  <2> QED
    BY <1>3, <2>1, ElementIs DEF b, Inner
<1>5. /\ d \in AccessCall /\ d.op = c.op /\ d.top = c.top /\ d.at = c.at /\ d.ix = c.ix
      /\ d.v = c.v /\ d.pv = c.pv /\ d.st = "inner" /\ d.ne = b
  BY <1>2, <1>3 DEF AccessCall, d
<1>6. mode(d) = mode(c)
  BY <1>5 DEF mode
<1>7. AccessHolds(d, aheld'[t])
  BY <1>1, <1>2, <1>3, <1>4, <1>5, <1>6 DEF AccessHolds
<1>8. LocksOnly(t)
  BY <1>1, <1>2 DEF ArraysHeld, LocksOnly
<1>9. KnownInUse(d) /\ MayAssign(t, d)
  BY <1>1, <1>2, <1>4, <1>5 DEF KnownInUse, MayAssign
<1>10. Direct => FollowsPath(d, aheld'[t])
  BY <1>1, <1>2, <1>5 DEF FollowsPath, b, Inner
<1> QED
  BY <1>1, <1>5, <1>7, <1>8, <1>9, <1>10, AccessStep

\* The array of the layer below is locked while the outer ones are.
LEMMA LockInnerKeeps ==
  ASSUME ArraysAssumption, ArraysInv, NEW t \in Thread, LockInner(t)
  PROVE  ArraysInv'
<1> DEFINE c == acall[t]
           d == [c EXCEPT !.st = "again"]
<1>1. /\ c.op \in {"get", "set"} /\ c.st = "inner" /\ BecomesCall(t, d)
      /\ MayLock(aheld, c.ne, mode(c)) /\ aheld' = WithLock(aheld, t, c.ne, mode(c))
  BY DEF LockInner, BecomesCall
<1>2. /\ c \in AccessCall /\ KnownInUse(c) /\ MayAssign(t, c) /\ ArraysHeld
      /\ AccessHolds(c, aheld[t]) /\ (Direct => FollowsPath(c, aheld[t]))
  BY <1>1, InAccess
<1> HIDE DEF c, d
<1>3. /\ c.ne \in Arr /\ Layer[c.ne] + 1 = Layer[c.at]
      /\ Len(c.ix) > 1 /\ Head(c.ix) \in Index(c.at) /\ c.at \in Arr
  BY <1>1, <1>2 DEF AccessHolds, AccessCall
<1>4. /\ d \in AccessCall /\ d.op = c.op /\ d.top = c.top /\ d.at = c.at /\ d.ix = c.ix
      /\ d.v = c.v /\ d.pv = c.pv /\ d.st = "again" /\ d.ne = c.ne
  BY <1>2 DEF AccessCall, d
<1>5. mode(c) \in Modes /\ mode(d) = mode(c)
  BY <1>4 DEF mode, Modes
<1>6. /\ Len(aheld[t]) > 0 /\ aheld[t][1] = [c |-> c.top, mode |-> mode(c)]
      /\ \A k \in 1..Len(aheld[t]) : Layer[aheld[t][k].c] >= Layer[c.at]
  BY <1>1, <1>2 DEF AccessHolds
<1>7. /\ LocksOnly(t) /\ Len(aheld'[t]) = Len(aheld[t]) + 1 /\ aheld[t] \in Seq(Locks(Arr))
      /\ \A i \in 1..Len(aheld[t]) : aheld'[t][i] = aheld[t][i]
      /\ aheld'[t][Len(aheld[t]) + 1] = [c |-> c.ne, mode |-> mode(c)]
  BY <1>1, <1>2, <1>3, <1>5, ArrayLocked
<1>8. PICK n \in Nat : n = Len(aheld[t])
  BY <1>7
<1>9. n > 0 /\ 1 \in 1..n /\ n \in 1..n
  BY <1>6, <1>8
<1>10. AccessHolds(d, aheld'[t])
  <2>1. ASSUME NEW k \in 1..n + 1 PROVE Layer[aheld'[t][k].c] >= Layer[c.ne]
    <3>1. Layer[c.ne] \in Nat /\ Layer[c.at] \in Nat
      BY <1>3 DEF ArraysAssumption
    <3>2. CASE k \in 1..n
      <4>1. aheld[t][k] \in Locks(Arr)
        BY <1>7, <1>8, <3>2
      <4>2. Layer[aheld[t][k].c] \in Nat
        BY <4>1 DEF Locks, ArraysAssumption
      <4>3. Layer[aheld[t][k].c] >= Layer[c.at] /\ aheld'[t][k] = aheld[t][k]
        BY <1>6, <1>7, <1>8, <3>2
      <4> QED
        BY <1>3, <3>1, <4>2, <4>3
    <3>3. CASE k = n + 1
      BY <1>7, <1>8, <3>1, <3>3
    <3> QED
      BY <3>2, <3>3
  <2> QED
    BY <1>3, <1>4, <1>5, <1>6, <1>7, <1>8, <1>9, <2>1 DEF AccessHolds
<1>11. KnownInUse(d) /\ MayAssign(t, d)
  BY <1>1, <1>2, <1>4 DEF KnownInUse, MayAssign
<1>12. Direct => FollowsPath(d, aheld'[t])
  <2>1. ASSUME Direct PROVE aheld[t][n].c = c.at /\ Inner(c) = c.ne
    BY <1>1, <1>2, <1>8, <2>1 DEF FollowsPath
  <2>2. Inner(d) = Inner(c)
    BY <1>4 DEF Inner
  <2>3. Len(aheld'[t]) = n + 1 /\ n + 1 > 1 /\ (n + 1) - 1 = n /\ aheld'[t][n] = aheld[t][n]
    BY <1>7, <1>8, <1>9
  <2> QED
    BY <1>4, <1>7, <1>8, <2>1, <2>2, <2>3 DEF FollowsPath
<1> QED
  BY <1>1, <1>4, <1>7, <1>10, <1>11, <1>12, AccessStep

\* What is read for the recursion is some array of that layer, or no array any more; if
\* nobody assigns below, it is the one that has been locked.
LEMMA DescendKeeps ==
  ASSUME ArraysAssumption, ArraysInv, NEW t \in Thread, Descend(t)
  PROVE  ArraysInv'
<1> DEFINE c == acall[t]
           b == Inner(c)
           d == [c EXCEPT !.st = "find", !.at = b, !.ne = <<>>, !.ix = Tail(c.ix)]
           e == [c EXCEPT !.st = "lost"]
<1>1. /\ c.op \in {"get", "set"} /\ c.st = "again" /\ UNCHANGED aheld
      /\ b \in Arr => BecomesCall(t, d)
      /\ b \notin Arr => BecomesCall(t, e)
  BY DEF Descend, BecomesCall
<1>2. /\ c \in AccessCall /\ KnownInUse(c) /\ MayAssign(t, c) /\ ArraysHeld
      /\ AccessHolds(c, aheld[t]) /\ (Direct => FollowsPath(c, aheld[t]))
  BY <1>1, InAccess
<1> HIDE DEF c, d, e, b
<1>3. /\ c.ne \in Arr /\ Layer[c.ne] + 1 = Layer[c.at] /\ c.at \in aalive
      /\ Len(c.ix) > 1 /\ Head(c.ix) \in Index(c.at)
      /\ Len(aheld[t]) > 0 /\ aheld[t][1] = [c |-> c.top, mode |-> mode(c)]
      /\ \A k \in 1..Len(aheld[t]) : Layer[aheld[t][k].c] >= Layer[c.ne]
  BY <1>1, <1>2 DEF AccessHolds, KnownInUse
<1>4. LocksOnly(t)
  BY <1>1, <1>2 DEF ArraysHeld, LocksOnly
<1>5. Direct => b = c.ne /\ aheld[t][Len(aheld[t])].c = b
  BY <1>1, <1>2 DEF FollowsPath, b
<1>6. CASE b \in Arr
  <2>1. b \in aalive /\ Layer[b] + 1 = Layer[c.at]
    BY <1>3, <1>6, ElementIs DEF b, Inner
  <2>2. /\ c.ix \in Seq(Nat) /\ c.ix # <<>> /\ Tail(c.ix) \in Seq(Nat) /\ <<>> \notin Arr
        /\ Len(Tail(c.ix)) = Len(c.ix) - 1 /\ Len(c.ix) \in Nat
    <3>1. c.ix \in Seq(Nat) /\ c.ix # <<>>
      BY <1>2, <1>3 DEF AccessCall
    <3>2. <<>> \notin Arr
      BY DEF ArraysAssumption
    <3> QED
      BY <3>1, <3>2, HeadTailProperties
  <2>3. /\ d \in AccessCall /\ d.op = c.op /\ d.top = c.top /\ d.at = b /\ d.ix = Tail(c.ix)
        /\ d.v = c.v /\ d.pv = c.pv /\ d.st = "find" /\ d.ne = <<>>
    BY <1>2, <1>6, <2>2 DEF AccessCall, d
  <2>4. mode(d) = mode(c)
    BY <2>3 DEF mode
  <2>5. Layer[b] = Layer[c.ne] /\ Layer[b] \in Nat
    <3>1. Layer[b] \in Nat /\ Layer[c.ne] \in Nat
      BY <1>3, <1>6 DEF ArraysAssumption
    <3> QED
      BY <1>3, <2>1, <3>1
  <2>6. AccessHolds(d, aheld'[t])
    BY <1>1, <1>3, <2>3, <2>4, <2>5 DEF AccessHolds
  <2>7. KnownInUse(d)
    BY <1>2, <2>1, <2>2, <2>3 DEF KnownInUse
  <2>8. MayAssign(t, d)
    <3>1. ~ (Len(c.ix) <= 1)
      BY <1>3, <2>2
    <3>2. ASSUME c.op = "set"
          PROVE /\ "set below" \in adoes[t] /\ c.v \in Atom \cup Arr
                /\ c.v \in Arr => Layer[c.v] + Len(c.ix) = Layer[c.at]
                /\ c.v \in Arr /\ c.pv # <<>> => Layer[c.v] + 1 = Layer[c.pv[1]]
      BY <1>1, <1>2, <3>1, <3>2 DEF MayAssign
    <3>3. \A a \in Arr : Layer[a] \in Nat
      BY DEF ArraysAssumption
    <3>4. ASSUME c.op = "set", c.v \in Arr PROVE Layer[c.v] + Len(Tail(c.ix)) = Layer[b]
      <4>1. Layer[c.v] + Len(c.ix) = Layer[b] + 1
        BY <2>1, <3>2, <3>4
      <4>2. Layer[c.v] \in Nat
        BY <3>3, <3>4
      <4> DEFINE n == Len(c.ix)
                 m == Len(Tail(c.ix))
      <4>3. n \in Nat /\ m = n - 1 /\ Layer[c.v] + n = Layer[b] + 1
        BY <2>2, <4>1
      <4> HIDE DEF n, m
      <4>4. Layer[c.v] + m = Layer[b]
        BY <2>5, <4>2, <4>3
      <4> QED
        BY <4>4 DEF m
    <3> QED
      BY <2>3, <3>2, <3>4 DEF MayAssign
  <2>9. Direct => FollowsPath(d, aheld'[t])
    BY <1>1, <1>5, <2>3 DEF FollowsPath
  <2> QED
    BY <1>1, <1>4, <1>6, <2>3, <2>6, <2>7, <2>8, <2>9, AccessStep
<1>7. CASE b \notin Arr
  <2>1. /\ e \in AccessCall /\ e.op = c.op /\ e.top = c.top /\ e.at = c.at /\ e.ix = c.ix
        /\ e.v = c.v /\ e.pv = c.pv /\ e.st = "lost" /\ e.ne = c.ne
    BY <1>2 DEF AccessCall, e
  <2>2. mode(e) = mode(c)
    BY <2>1 DEF mode
  <2>3. AccessHolds(e, aheld'[t])
    BY <1>1, <1>3, <2>1, <2>2 DEF AccessHolds
  <2>4. KnownInUse(e) /\ MayAssign(t, e)
    BY <1>2, <2>1 DEF KnownInUse, MayAssign
  <2>5. ~Direct
    BY <1>3, <1>5, <1>7
  <2> QED
    BY <1>1, <1>4, <1>7, <2>1, <2>3, <2>4, <2>5, AccessStep
<1> QED
  BY <1>6, <1>7

\* The inner arrays are unlocked on the way back.
LEMMA AscendKeeps ==
  ASSUME ArraysInv, NEW t \in Thread, Ascend(t)
  PROVE  ArraysInv'
<1> DEFINE c == acall[t]
<1>1. /\ c.op \in {"get", "set"} /\ c.st = "back" /\ Len(aheld[t]) > 1
      /\ aheld' = WithoutLast(aheld, t) /\ UNCHANGED <<slot, aalive, aroot, acall, adoes>>
  BY DEF Ascend
<1>2. /\ c \in AccessCall /\ KnownInUse(c) /\ MayAssign(t, c) /\ ArraysHeld
      /\ AccessHolds(c, aheld[t])
  BY <1>1, InAccess
<1>3. BecomesCall(t, c)
  BY <1>1 DEF BecomesCall, ArraysInv, ArrayTypes
<1> HIDE DEF c
<1>4. aheld[t] \in Seq(Locks(Arr))
  BY <1>2 DEF ArraysHeld
<1>5. PICK n \in Nat : n = Len(aheld[t])
  BY <1>4
<1>6. /\ LocksOnly(t) /\ Len(aheld'[t]) = n - 1
      /\ \A i \in 1..n - 1 : aheld'[t][i] = aheld[t][i]
  <2>1. Len(aheld[t]) > 0
    BY <1>1, <1>5
  <2> QED
    BY <1>1, <1>2, <1>5, <2>1, ArrayUnlocked
<1>7. n - 1 > 0 /\ 1 \in 1..n - 1
  BY <1>1, <1>5
<1>8. AccessHolds(c, aheld'[t])
  BY <1>1, <1>2, <1>6, <1>7 DEF AccessHolds, c
<1>9. FollowsPath(c, aheld'[t])
  BY <1>1 DEF FollowsPath, c
<1> QED
  BY <1>2, <1>3, <1>6, <1>8, <1>9, AccessStep

\* The array of the call is unlocked last.
LEMMA UnlockTopKeeps ==
  ASSUME ArraysInv, NEW t \in Thread, UnlockTop(t)
  PROVE  ArraysInv'
<1> DEFINE c == acall[t]
           d == [c EXCEPT !.st = "read"]
<1>1. /\ aheld' = WithoutLast(aheld, t)
      /\ \/ c.op = "set" /\ c.st = "stored" /\ BecomesCall(t, Idle)
         \/ c.op = "get" /\ c.st = "back" /\ Len(aheld[t]) = 1 /\ BecomesCall(t, d)
  BY DEF UnlockTop, BecomesCall
<1>2. /\ c \in AccessCall /\ KnownInUse(c) /\ MayAssign(t, c) /\ ArraysHeld
      /\ AccessHolds(c, aheld[t])
  BY <1>1, InAccess
<1>3. Len(aheld[t]) = 1
  BY <1>1, <1>2 DEF AccessHolds
<1>4. LocksOnly(t) /\ aheld'[t] = <<>>
  <2>1. Len(aheld[t]) > 0
    BY <1>3
  <2>2. LocksOnly(t) /\ aheld'[t] \in Seq(Locks(Arr)) /\ Len(aheld'[t]) = 1 - 1
    BY <1>1, <1>2, <1>3, <2>1, ArrayUnlocked
  <2> QED
    BY <2>2, EmptySeq
<1>5. CASE BecomesCall(t, Idle)
  BY <1>4, <1>5, IdleStep
<1>6. CASE c.op = "get" /\ BecomesCall(t, d)
  <2>1. /\ d \in AccessCall /\ d.op = c.op /\ d.top = c.top /\ d.at = c.at
        /\ d.v = c.v /\ d.pv = c.pv /\ d.st = "read" /\ d.ne = c.ne
    BY <1>2 DEF AccessCall
  <2> HIDE DEF c, d
  <2>2. AccessHolds(d, aheld'[t])
    BY <1>4, <2>1 DEF AccessHolds
  <2>3. KnownInUse(d) /\ MayAssign(t, d) /\ FollowsPath(d, aheld'[t])
    BY <1>2, <1>6, <2>1 DEF KnownInUse, MayAssign, FollowsPath
  <2> QED
    BY <1>4, <1>6, <2>1, <2>2, <2>3, AccessStep
<1> QED
  BY <1>1, <1>5, <1>6

\* arr_get reads with nothing locked.
LEMMA ReadKeeps ==
  ASSUME ArraysInv, NEW t \in Thread, Read(t)
  PROVE  ArraysInv'
<1>1. /\ acall[t].op \in {"get", "set"} /\ acall[t].st = "read" /\ BecomesCall(t, Idle)
      /\ UNCHANGED aheld
  BY DEF Read, BecomesCall
<1>2. AccessHolds(acall[t], aheld[t]) /\ ArraysHeld
  BY <1>1, InAccess
<1>3. LocksOnly(t) /\ aheld'[t] = <<>>
  BY <1>1, <1>2 DEF AccessHolds, ArraysHeld, LocksOnly
<1> QED
  BY <1>1, <1>3, IdleStep

\* What a comparison that is running has locked, and what it knows.
LEMMA InComparison ==
  ASSUME ArraysInv, NEW t \in Thread, InEq(t)
  PROVE  /\ acall[t].frames \in Seq(ArrayFrame) \ {<<>>} /\ Len(acall[t].frames) \in Nat \ {0}
         /\ \A k \in 1..Len(acall[t].frames) : acall[t].frames[k] \in ArrayFrame
         /\ acall[t] = [op |-> "eq", frames |-> acall[t].frames]
         /\ EqHolds(acall[t].frames, aheld[t]) /\ FramesFine(acall[t].frames)
         /\ ArraysHeld /\ Top(t) = acall[t].frames[Len(acall[t].frames)] /\ Top(t) \in ArrayFrame
<1> DEFINE F == acall[t].frames
<1>1. acall[t] \in EqCall /\ acall[t].op = "eq"
  BY CallKinds DEF InEq
<1>2. F \in Seq(ArrayFrame) \ {<<>>} /\ acall[t] = [op |-> "eq", frames |-> F]
  BY <1>1 DEF EqCall
<1>3. Len(F) \in Nat \ {0} /\ DOMAIN F = 1..Len(F) /\ \A k \in 1..Len(F) : F[k] \in ArrayFrame
  BY <1>2, EmptySeq, LenProperties
<1>4. HoldsLocks(t) /\ Knows(t) \subseteq aalive /\ Compared(t) /\ StaysEqual(t)
  BY DEF ArraysInv, SlotsInUse, ComparedStaysEqual
<1>5. EqHolds(F, aheld[t])
  BY <1>1, <1>4 DEF HoldsLocks
<1>6. ArraysHeld
  BY DEF ArraysInv, ArrayTypes, ArraysHeld, Locks, Modes
<1>7. ASSUME NEW k \in 1..Len(F) PROVE F[k].e0 \in aalive /\ F[k].e1 \in aalive
  <2>1. F[k].e0 \in Arr /\ F[k].e1 \in Arr
    BY <1>3 DEF ArrayFrame
  <2>2. F[k].e0 \in Knows(t) /\ F[k].e1 \in Knows(t)
    BY <1>3, <2>1 DEF Knows
  <2> QED
    BY <1>4, <2>2
<1>8. FramesFine(F)
  BY <1>3, <1>4, <1>7 DEF FramesFine, Compared, StaysEqual
<1>9. Len(F) \in 1..Len(F)
  BY <1>3
<1>10. Top(t) = F[Len(F)] /\ Top(t) \in ArrayFrame
  BY <1>3, <1>9 DEF Top
<1> QED
  BY <1>2, <1>3, <1>5, <1>6, <1>8, <1>10

\* Whose elements are being compared is locked.
LEMMA LoopLocks ==
  ASSUME ArraysInv, NEW t \in Thread, InEq(t), NEW k \in 1..Len(acall[t].frames),
         acall[t].frames[k].st = "loop"
  PROVE  /\ \E i \in DOMAIN aheld[t] : aheld[t][i] = [c |-> acall[t].frames[k].e0, mode |-> "rd"]
         /\ \E i \in DOMAIN aheld[t] : aheld[t][i] = [c |-> acall[t].frames[k].e1, mode |-> "rd"]
<1> DEFINE F == acall[t].frames
           h == aheld[t]
<1>1. Len(F) \in Nat \ {0} /\ EqHolds(F, h) /\ h \in Seq(Locks(Arr))
  BY InComparison DEF ArraysHeld
<1>2. F[k].st = "loop" /\ k \in 1..Len(F)
  OBVIOUS
<1> HIDE DEF F, h
<1>3. PICK n \in Nat \ {0} : n = Len(F)
  BY <1>1
<1>4. PICK m \in Nat : m = Len(h)
  BY <1>1
<1>5. m = 2 * (n - 1) + HeldAt(F[n].st)
  BY <1>1, <1>3, <1>4 DEF EqHolds
<1>6. 2 * k <= m
  <2>1. HeldAt("loop") = 2 /\ \A st : HeldAt(st) \in {0, 1, 2} \/ st \notin {"lock0", "lock1", "loop", "unlock0"}
    BY DEF HeldAt
  <2>2. CASE k = n
    BY <1>2, <1>3, <1>5, <2>1, <2>2
  <2>3. CASE k # n
    <3>1. k <= n - 1
      BY <1>2, <1>3, <2>3
    <3>2. F[n].st \in {"lock0", "lock1", "loop", "unlock0"}
      <4>1. n \in 1..Len(F)
        BY <1>3
      <4>2. F[n] \in ArrayFrame
        BY <4>1, InComparison DEF F
      <4> QED
        BY <4>2 DEF ArrayFrame
    <3>3. PICK x \in {0, 1, 2} : x = HeldAt(F[n].st)
      BY <3>2 DEF HeldAt
    <3> QED
      BY <1>2, <1>5, <3>1, <3>3
  <2> QED
    BY <2>2, <2>3
<1>7. 2 * k \in 1..m /\ 2 * k - 1 \in 1..m /\ 2 * k - 1 <= m
  BY <1>2, <1>3, <1>6
<1>8. h[2 * k - 1] = [c |-> F[k].e0, mode |-> "rd"] /\ h[2 * k] = [c |-> F[k].e1, mode |-> "rd"]
  BY <1>1, <1>2, <1>4, <1>6, <1>7 DEF EqHolds
<1>9. DOMAIN h = 1..m
  BY <1>1, <1>4, LenProperties
<1> QED
  BY <1>7, <1>8, <1>9 DEF F, h

\* What a comparison has found out of two arrays stays true while they are not changed.
LEMMA FrameKept ==
  ASSUME NEW g, g.st = "loop" => slot'[g.e0] = slot[g.e0] /\ slot'[g.e1] = slot[g.e1]
  PROVE  /\ EqualSoFar(g) => EqualSoFar(g)'
         /\ g.st = "loop" /\ InTurn(g) => InTurn(g)'
<1>1. CASE g.st = "loop"
  <2>1. slot'[g.e0] = slot[g.e0] /\ slot'[g.e1] = slot[g.e1]
    BY <1>1
  <2>2. EqualSoFar(g) => EqualSoFar(g)'
    BY <2>1 DEF EqualSoFar
  <2>3. InTurn(g) => InTurn(g)'
    BY <2>1 DEF InTurn
  <2> QED
    BY <2>2, <2>3
<1>2. CASE g.st # "loop"
  BY <1>2 DEF EqualSoFar
<1> QED
  BY <1>1, <1>2

\* An assignment to an array that is locked for writing spoils no comparison.
LEMMA StoreKeeps ==
  ASSUME ArraysAssumption, ArraysInv, NEW t \in Thread, Store(t)
  PROVE  ArraysInv'
<1> DEFINE c == acall[t]
           d == [c EXCEPT !.st = "stored", !.pv = <<>>, !.v = nil]
           a == c.pv[1]
<1>1. /\ c.op = "set" /\ c.st = "back" /\ Len(aheld[t]) = 1
      /\ slot' = IF c.pv = <<>> THEN slot ELSE [slot EXCEPT ![c.pv[1]][c.pv[2]] = c.v]
      /\ acall' = [acall EXCEPT ![t] = d] /\ UNCHANGED <<aalive, aroot, aheld, adoes>>
  BY DEF Store
<1>2. /\ c \in AccessCall /\ KnownInUse(c) /\ MayAssign(t, c) /\ ArraysHeld
      /\ AccessHolds(c, aheld[t]) /\ aalive \subseteq Arr
  BY <1>1, InAccess
<1>3. /\ \A b \in Arr : slot[b] \in [Index(b) -> Element(b)]
      /\ slot \in [Arr -> UNION {[Index(b) -> Atom \cup Arr] : b \in Arr}]
      /\ Contents(aalive) \subseteq aalive /\ \A b \in Arr \ aalive : slot[b] = Nils(b)
  BY DEF ArraysInv, ArrayTypes, SlotsInUse
<1>4. nil \in Atom /\ nil \notin Arr /\ Arr \cap Atom = {}
  BY DEF ArraysAssumption
<1>5. /\ d \in AccessCall /\ d.op = c.op /\ d.top = c.top /\ d.at = c.at /\ d.ix = c.ix
      /\ d.ne = c.ne /\ d.v = nil /\ d.pv = <<>> /\ d.st = "stored" /\ c.op \in {"get", "set"}
  BY <1>2, <1>4 DEF AccessCall
<1>6. c.pv # <<>> => c.v \in Element(a) /\ a \in aalive
  BY <1>1, <1>2 DEF KnownInUse, MayAssign, Element
<1> HIDE DEF c, d, a
<1>7. /\ \A b \in Arr : slot'[b] = slot[b] \/ (c.pv # <<>> /\ b = a)
      /\ \A b \in Arr : slot'[b] \in [Index(b) -> Element(b)]
      /\ \A b \in Arr : \A j \in Index(b) :
           slot'[b][j] = slot[b][j] \/ (c.pv # <<>> /\ slot'[b][j] = c.v)
      /\ slot' = [b \in Arr |-> slot'[b]]
  <2>1. CASE c.pv = <<>>
    BY <1>1, <1>3, <2>1
  <2>2. CASE c.pv # <<>>
    <3>1. PICK i : i = c.pv[2]
      OBVIOUS
    <3>2. slot' = [slot EXCEPT ![a] = [slot[a] EXCEPT ![i] = c.v]]
      BY <1>1, <2>2, <3>1 DEF a
    <3>3. a \in Arr /\ c.v \in Element(a)
      BY <1>2, <1>6, <2>2
    <3>4. [slot[a] EXCEPT ![i] = c.v] \in [Index(a) -> Element(a)]
      BY <1>3, <3>3
    <3>5. \A j \in Index(a) : [slot[a] EXCEPT ![i] = c.v][j] \in {slot[a][j], c.v}
      BY <1>3, <3>3
    <3> QED
      BY <1>3, <2>2, <3>2, <3>3, <3>4, <3>5
  <2> QED
    BY <2>1, <2>2
<1>8. /\ acall' \in [Thread -> {Idle} \cup AccessCall \cup EqCall] /\ acall'[t] = d
      /\ \A u \in Thread : u # t => acall'[u] = acall[u]
  BY <1>1, <1>5 DEF ArraysInv, ArrayTypes
<1>9. ArrayTypes'
  <2>1. \A b \in Arr : slot'[b] \in [Index(b) -> Atom \cup Arr]
    BY <1>7 DEF Element
  <2>2. slot' \in [Arr -> UNION {[Index(b) -> Atom \cup Arr] : b \in Arr}]
    BY <1>7, <2>1
  <2> QED
    BY <1>1, <1>7, <1>8, <2>2 DEF ArraysInv, ArrayTypes
<1>10. SlotsInUse'
  <2>1. ASSUME NEW x \in Contents(aalive)' PROVE x \in aalive
    <3>1. x \in Arr
      BY <2>1 DEF Contents
    <3>2. PICK b \in aalive : \E i \in Index(b) : slot'[b][i] = x
      <4>1. PICK b \in aalive : \E i \in DOMAIN slot'[b] : slot'[b][i] = x
        BY <1>1, <2>1 DEF Contents
      <4>2. DOMAIN slot'[b] = Index(b)
        BY <1>2, <1>7
      <4> QED
        BY <4>1, <4>2
    <3>3. PICK i \in Index(b) : slot'[b][i] = x
      BY <3>2
    <3>4. CASE slot[b][i] = x
      <4>1. DOMAIN slot[b] = Index(b)
        BY <1>2, <1>3
      <4>2. x \in Contents(aalive)
        BY <3>1, <3>4, <4>1 DEF Contents
      <4> QED
        BY <1>3, <4>2
    <3>5. CASE x = c.v
      BY <1>2, <3>1, <3>5 DEF KnownInUse
    <3> QED
      BY <1>2, <1>7, <3>3, <3>4, <3>5
  <2>2. \A b \in Arr \ aalive : slot'[b] = Nils(b)
    BY <1>3, <1>6, <1>7
  <2>3. ASSUME NEW u \in Thread PROVE Knows(u)' \subseteq aalive
    <3>1. CASE u = t
      <4>1. KnownInUse(d)
        BY <1>2, <1>4, <1>5 DEF KnownInUse
      <4>2. d.op # "eq"
        BY <1>5
      <4> QED
        BY <1>8, <3>1, <4>1, <4>2 DEF Knows, KnownInUse, InEq
    <3>2. CASE u # t
      <4>1. acall'[u] = acall[u]
        BY <1>8, <3>2
      <4>2. Knows(u)' = Knows(u)
        BY <4>1 DEF Knows, InEq
      <4> QED
        BY <4>2 DEF ArraysInv, SlotsInUse
    <3> QED
      BY <3>1, <3>2
  <2> QED
    BY <1>1, <2>1, <2>2, <2>3 DEF SlotsInUse, Nils, Index
<1>11. aheld[t][1] = [c |-> c.top, mode |-> "wr"] /\ 1 \in DOMAIN aheld[t]
  <2>1. aheld[t][1] = [c |-> c.top, mode |-> mode(c)] /\ mode(c) = "wr"
    BY <1>1, <1>2 DEF AccessHolds, mode
  <2>2. aheld[t] \in Seq(Locks(Arr))
    BY <1>2 DEF ArraysHeld
  <2> QED
    BY <1>1, <2>1, <2>2, LenProperties
<1>12. ASSUME NEW u \in Thread, InEq(u), Direct, NEW k \in 1..Len(acall[u].frames),
              acall[u].frames[k].st = "loop"
       PROVE  /\ slot'[acall[u].frames[k].e0] = slot[acall[u].frames[k].e0]
              /\ slot'[acall[u].frames[k].e1] = slot[acall[u].frames[k].e1]
  <2> DEFINE f == acall[u].frames[k]
  <2>1. u # t
    BY <1>1, <1>12 DEF InEq, c
  <2>2. c.pv # <<>> => a = c.top
    BY <1>1, <1>2, <1>4, <1>12 DEF MayAssign, Direct, a
  <2>3. f.e0 \in Arr /\ f.e1 \in Arr
    BY <1>12, InComparison DEF ArrayFrame
  <2>4. /\ \E i \in DOMAIN aheld[u] : aheld[u][i] = [c |-> f.e0, mode |-> "rd"]
        /\ \E i \in DOMAIN aheld[u] : aheld[u][i] = [c |-> f.e1, mode |-> "rd"]
    BY <1>12, LoopLocks
  <2> HIDE DEF f
  <2>5. Exclusive(aheld) /\ DOMAIN aheld = Thread
    BY <1>2 DEF ArraysHeld
  <2>6. \A i \in DOMAIN aheld[u] : aheld[u][i].c # c.top
    BY <1>11, <2>1, <2>5 DEF Exclusive
  <2>7. f.e0 # c.top /\ f.e1 # c.top
    BY <2>4, <2>6
  <2>8. slot'[f.e0] = slot[f.e0] /\ slot'[f.e1] = slot[f.e1]
    BY <1>7, <2>2, <2>3, <2>7
  <2> QED
    BY <2>8 DEF f
<1>13. ASSUME NEW u \in Thread, u # t, Walks(u), acall[u].st \in {"inner", "again"}
       PROVE  slot'[acall[u].at] = slot[acall[u].at]
  <2> DEFINE at == acall[u].at
             h == aheld[u]
  <2>1. Direct /\ FollowsPath(acall[u], h) /\ acall[u] \in AccessCall /\ AccessHolds(acall[u], h)
    BY <1>13, InAccess DEF Walks
  <2>2. c.pv # <<>> => a = c.top
    BY <1>1, <1>2, <2>1 DEF MayAssign, Direct, a
  <2>3. at \in Arr
    BY <2>1 DEF AccessCall
  <2>4. \E i \in DOMAIN h : h[i].c = at
    <3>1. PICK n \in Nat : n = Len(h) /\ DOMAIN h = 1..n
      BY <1>2, LenProperties DEF ArraysHeld
    <3>2. n > 0 /\ (acall[u].st = "inner" => h[n].c = at)
          /\ (acall[u].st = "again" => n > 1 /\ h[n - 1].c = at)
      BY <1>13, <2>1, <3>1 DEF AccessHolds, FollowsPath
    <3>3. n \in 1..n /\ (n > 1 => n - 1 \in 1..n)
      BY <3>2
    <3> QED
      BY <1>13, <3>1, <3>2, <3>3
  <2>5. Exclusive(aheld) /\ DOMAIN aheld = Thread
    BY <1>2 DEF ArraysHeld
  <2>6. \A i \in DOMAIN h : h[i].c # c.top
    BY <1>11, <1>13, <2>5 DEF Exclusive
  <2>7. at # c.top
    BY <2>4, <2>6
  <2> QED
    BY <1>7, <2>2, <2>3, <2>7
<1>14. ASSUME NEW u \in Thread
       PROVE  /\ HoldsLocks(u)' /\ Assigns(u)' /\ Compared(u)' /\ StaysEqual(u)'
              /\ Follows(u)'
  <2>1. CASE u = t
    <3>1. d # Idle /\ d \notin EqCall
      BY <1>1, <1>5 DEF Idle, EqCall
    <3>2. mode(d) = mode(c)
      BY <1>5 DEF mode
    <3>3. AccessHolds(d, aheld'[t])
      BY <1>1, <1>2, <1>5, <3>2 DEF AccessHolds
    <3>4. Assigns(t)'
      BY <1>1, <1>2, <1>4, <1>5, <1>8 DEF Assigns, MayAssign, Element
    <3>5. HoldsLocks(t)'
      BY <1>8, <3>1, <3>3 DEF HoldsLocks
    <3>6. Compared(t)' /\ StaysEqual(t)'
      BY <1>1, <1>5, <1>8 DEF Compared, StaysEqual, InEq
    <3>7. Follows(t)'
      BY <1>5, <1>8 DEF Follows, FollowsPath
    <3> QED
      BY <2>1, <3>4, <3>5, <3>6, <3>7
  <2>2. CASE u # t
    <3>1. acall'[u] = acall[u] /\ aheld'[u] = aheld[u] /\ adoes' = adoes
      BY <1>1, <1>8, <2>2
    <3>2. HoldsLocks(u) /\ Assigns(u)
      BY DEF ArraysInv
    <3>3. HoldsLocks(u)'
      BY <3>1, <3>2 DEF HoldsLocks
    <3>4. Assigns(u)'
      BY <3>1, <3>2 DEF Assigns, MayAssign
    <3>5. Direct' = Direct /\ InEq(u)' = InEq(u)
      BY <3>1 DEF Direct, InEq
    <3>6. ASSUME InEq(u), Direct, NEW k \in 1..Len(acall[u].frames)
          PROVE  /\ EqualSoFar(acall[u].frames[k])'
                 /\ k < Len(acall[u].frames) => InTurn(acall[u].frames[k])'
      <4> DEFINE F == acall[u].frames
                 f == F[k]
      <4>1. FramesFine(F) /\ EqHolds(F, aheld[u]) /\ Len(F) \in Nat \ {0} /\ acall'[u].frames = F
        BY <3>1, <3>6, InComparison
      <4>2. EqualSoFar(f)
        BY <3>6, <4>1 DEF FramesFine
      <4>3. k < Len(F) => InTurn(f)
        BY <3>6, <4>1 DEF FramesFine
      <4>4. k < Len(F) => f.st = "loop"
        BY <4>1 DEF EqHolds
      <4>5. f.st = "loop" => slot'[f.e0] = slot[f.e0] /\ slot'[f.e1] = slot[f.e1]
        BY <1>12, <3>6
      <4>6. PICK g : g = f
        OBVIOUS
      <4>7. g = acall'[u].frames[k]
        BY <4>1, <4>6
      <4> HIDE DEF f
      <4>8. EqualSoFar(g)' /\ (k < Len(F) => InTurn(g)')
        BY <4>2, <4>3, <4>4, <4>5, <4>6, FrameKept
      <4> HIDE DEF F
      <4>9. EqualSoFar(acall[u].frames[k])' /\ (k < Len(F) => InTurn(acall[u].frames[k])')
        BY <4>7, <4>8
      <4> QED
        BY <4>9 DEF F
    <3>7. InEq(u) => Len(acall[u].frames) \in Nat \ {0} /\ DOMAIN acall[u].frames = 1..Len(acall[u].frames)
      BY InComparison, LenProperties
    <3>8. Compared(u)' /\ StaysEqual(u)'
      BY <3>1, <3>5, <3>6, <3>7 DEF Compared, StaysEqual
    <3>9. Follows(u)'
      <4>1. Follows(u)
        BY DEF ArraysInv
      <4> QED
        BY <1>13, <2>2, <3>1, <4>1, FollowsKept
    <3> QED
      BY <3>3, <3>4, <3>8, <3>9
  <2> QED
    BY <2>1, <2>2
<1>15. Exclusive(aheld)'
  BY <1>1, <1>2 DEF ArraysHeld
<1> QED
  BY <1>9, <1>10, <1>14, <1>15 DEF ArraysInv, ComparedStaysEqual

----------------------------------------------------------------------------
(* Arrays : the steps of a comparison.                                      *)

\* A comparison starts with two arrays of one layer.
LEMMA CompareKeeps ==
  ASSUME ArraysAssumption, ArraysInv, NEW t \in Thread, NEW e0 \in Reached(aroot),
         NEW e1 \in Reached(aroot), CompareArrays(t, e0, e1)
  PROVE  ArraysInv'
<1> DEFINE f == Frame(e0, e1)
           F == <<f>>
<1>1. /\ acall[t] = Idle /\ Layer[e0] = Layer[e1] /\ UNCHANGED aheld
      /\ BecomesCall(t, [op |-> "eq", frames |-> F])
  BY DEF CompareArrays, BecomesCall
<1>2. e0 \in aalive /\ e1 \in aalive /\ e0 \in Arr /\ e1 \in Arr
  <2>1. aroot \subseteq aalive /\ aalive \subseteq Arr
    BY DEF ArraysInv, ArrayTypes
  <2> QED
    BY <2>1, ReachedInUse
<1>3. f \in ArrayFrame /\ f.e0 = e0 /\ f.e1 = e1 /\ f.st = "lock0" /\ f.i = 0
  BY <1>2 DEF Frame, ArrayFrame
<1> HIDE DEF f
<1>4. F \in Seq(ArrayFrame) \ {<<>>} /\ Len(F) = 1 /\ F[1] = f
  BY <1>3
<1> HIDE DEF F
<1>5. aheld'[t] = <<>> /\ LocksOnly(t)
  BY <1>1 DEF ArraysInv, ArrayTypes, HoldsLocks, LocksOnly, Locks, Modes
<1>6. Len(aheld'[t]) = 0
  BY <1>5
<1>7. EqHolds(F, aheld'[t])
  <2>1. HeldAt(F[Len(F)].st) = 0 /\ 2 * (Len(F) - 1) + 0 = 0
    BY <1>3, <1>4 DEF HeldAt
  <2>2. Layer[e0] \in Nat
    BY <1>2 DEF ArraysAssumption
  <2>3. \A k \in 1..Len(F) : k = 1 /\ ~ (k < Len(F)) /\ ~ (2 * k - 1 <= 0) /\ ~ (2 * k <= 0)
    BY <1>4
  <2>4. \A k \in 1..Len(F) : \A j \in 1..k : Layer[F[k].e0] <= Layer[F[j].e0]
    BY <1>3, <1>4, <2>2
  <2> QED
    BY <1>1, <1>3, <1>4, <1>6, <2>1, <2>3, <2>4 DEF EqHolds
<1>8. FramesFine(F)
  <2>1. EqualSoFar(f)
    BY <1>3 DEF EqualSoFar
  <2> QED
    BY <1>2, <1>3, <1>4, <2>1 DEF FramesFine
<1> QED
  BY <1>1, <1>4, <1>5, <1>7, <1>8, EqStep

\* Comparing goes on with another frame on the top, and only locks of that frame change.
TopLocks(t, n) ==
  \A i \in 1..Len(aheld'[t]) :
    \/ i <= Len(aheld[t]) /\ aheld'[t][i] = aheld[t][i]
    \/ i = 2 * n - 1 /\ aheld'[t][i] = [c |-> Top(t).e0, mode |-> "rd"]
    \/ i = 2 * n /\ aheld'[t][i] = [c |-> Top(t).e1, mode |-> "rd"]
NextTop(t, n, g) ==
  /\ InEq(t) /\ n = Len(acall[t].frames) /\ g.e0 = Top(t).e0 /\ g.e1 = Top(t).e1 /\ SetTop(t, g)
  /\ UNCHANGED <<slot, aalive, aroot, adoes>>
  /\ LocksOnly(t) /\ Len(aheld'[t]) = 2 * (n - 1) + HeldAt(g.st) /\ TopLocks(t, n)
  /\ g.st \in {"lock0", "lock1"} => g.i = 0
  /\ Direct => EqualSoFar(g)

\* The frame on the top changes, and at most one lock with it.
LEMMA TopChanges ==
  ASSUME ArraysAssumption, ArraysInv, NEW t \in Thread, NEW g \in ArrayFrame,
         NEW n \in Nat \ {0}, NextTop(t, n, g)
  PROVE  ArraysInv'
<1> DEFINE F == acall[t].frames
           G == [F EXCEPT ![n] = g]
           h == aheld[t]
           i == aheld'[t]
<1>1. /\ F \in Seq(ArrayFrame) \ {<<>>} /\ Len(F) = n /\ EqHolds(F, h) /\ FramesFine(F)
      /\ acall[t] = [op |-> "eq", frames |-> F] /\ Top(t) = F[n] /\ h \in Seq(Locks(Arr))
      /\ g.e0 = F[n].e0 /\ g.e1 = F[n].e1
  BY InComparison DEF Top, ArraysHeld, NextTop
<1>2. BecomesCall(t, [op |-> "eq", frames |-> G])
  <2>1. acall' = [acall EXCEPT ![t] = [acall[t] EXCEPT !.frames = G]]
    BY DEF NextTop, SetTop
  <2> HIDE DEF F, G
  <2>2. [acall[t] EXCEPT !.frames = G] = [op |-> "eq", frames |-> G]
    BY <1>1
  <2> QED
    BY <2>1, <2>2 DEF BecomesCall, NextTop
<1>3. i \in Seq(Locks(Arr))
  BY DEF LocksOnly, NextTop
<1> HIDE DEF F, h, i
<1>4. /\ G \in Seq(ArrayFrame) \ {<<>>} /\ Len(G) = n /\ G[n] = g
      /\ \A k \in 1..n : k # n => G[k] = F[k]
  BY <1>1
<1> HIDE DEF G
<1>5. \A k \in 1..n : G[k].e0 = F[k].e0 /\ G[k].e1 = F[k].e1
  BY <1>1, <1>4
<1>6. PICK p \in Nat : p = Len(h)
  BY <1>1
<1>7. PICK q \in Nat : q = Len(i)
  BY <1>3
<1>8. ASSUME NEW k \in 1..n
      PROVE  /\ 2 * k - 1 <= q => i[2 * k - 1] = [c |-> F[k].e0, mode |-> "rd"]
             /\ 2 * k <= q => i[2 * k] = [c |-> F[k].e1, mode |-> "rd"]
  <2>1. /\ 2 * k - 1 <= p => h[2 * k - 1] = [c |-> F[k].e0, mode |-> "rd"]
        /\ 2 * k <= p => h[2 * k] = [c |-> F[k].e1, mode |-> "rd"]
    BY <1>1, <1>6, <1>8 DEF EqHolds
  <2>2. \A j \in 1..q :
           \/ j <= p /\ i[j] = h[j]
           \/ j = 2 * n - 1 /\ i[j] = [c |-> F[n].e0, mode |-> "rd"]
           \/ j = 2 * n /\ i[j] = [c |-> F[n].e1, mode |-> "rd"]
    BY <1>1, <1>6, <1>7 DEF i, h, NextTop, TopLocks
  <2>3. 2 * k - 1 # 2 * n /\ 2 * k # 2 * n - 1 /\ (2 * k - 1 = 2 * n - 1 => k = n)
        /\ (2 * k = 2 * n => k = n)
    OBVIOUS
  <2>4. ASSUME 2 * k - 1 <= q PROVE i[2 * k - 1] = [c |-> F[k].e0, mode |-> "rd"]
    <3>1. 2 * k - 1 \in 1..q
      BY <2>4
    <3> QED
      BY <2>1, <2>2, <2>3, <3>1
  <2>5. ASSUME 2 * k <= q PROVE i[2 * k] = [c |-> F[k].e1, mode |-> "rd"]
    <3>1. 2 * k \in 1..q
      BY <2>5
    <3> QED
      BY <2>1, <2>2, <2>3, <3>1
  <2> QED
    BY <2>4, <2>5
<1>9. EqHolds(G, i)
  <2>1. Len(i) = 2 * (Len(G) - 1) + HeldAt(G[Len(G)].st)
    BY <1>4 DEF i, NextTop
  <2>2. \A k \in 1..n : k < n => G[k].st = "loop"
    <3>1. \A k \in 1..n : k < n => k # n
      OBVIOUS
    <3>2. \A k \in 1..n : k < n => F[k].st = "loop"
      BY <1>1 DEF EqHolds
    <3> QED
      BY <1>4, <3>1, <3>2
  <2>6. \A k \in 1..n : G[k].st \in {"lock0", "lock1"} => G[k].i = 0
    BY <1>1, <1>4 DEF EqHolds, NextTop
  <2>3. \A k \in 1..n : Layer[F[k].e0] = Layer[F[k].e1]
                        /\ \A j \in 1..k : Layer[F[k].e0] <= Layer[F[j].e0]
    BY <1>1 DEF EqHolds
  <2>4. \A k \in 1..n : \A j \in 1..k : j \in 1..n
    OBVIOUS
  <2>5. \A k \in 1..n : Layer[G[k].e0] = Layer[G[k].e1]
                        /\ \A j \in 1..k : Layer[G[k].e0] <= Layer[G[j].e0]
    BY <1>5, <2>3, <2>4
  <2> QED
    BY <1>4, <1>5, <1>7, <1>8, <2>1, <2>2, <2>5, <2>6 DEF EqHolds
<1>10. FramesFine(G)
  <2>1. \A k \in 1..n : G[k].e0 \in aalive /\ G[k].e1 \in aalive
    BY <1>1, <1>5 DEF FramesFine
  <2>2. Direct => \A k \in 1..n : EqualSoFar(G[k])
    BY <1>1, <1>4 DEF FramesFine, NextTop
  <2>3. \A k \in 1..n - 1 : k \in 1..n /\ k # n
    OBVIOUS
  <2>4. Direct => \A k \in 1..n - 1 : InTurn(G[k])
    BY <1>1, <1>4, <2>3 DEF FramesFine
  <2> QED
    BY <1>4, <2>1, <2>2, <2>4 DEF FramesFine
<1> QED
  BY <1>2, <1>4, <1>9, <1>10, EqStep DEF i, NextTop

\* The first array of a frame is locked, ...
LEMMA LockFirstKeeps ==
  ASSUME ArraysAssumption, ArraysInv, NEW t \in Thread, LockFirst(t)
  PROVE  ArraysInv'
<1> DEFINE f == Top(t)
           g == [f EXCEPT !.st = "lock1"]
<1>1. /\ InEq(t) /\ f.st = "lock0" /\ MayLock(aheld, f.e0, "rd") /\ SetTop(t, g)
      /\ aheld' = WithLock(aheld, t, f.e0, "rd") /\ UNCHANGED <<slot, aalive, aroot, adoes>>
  BY DEF LockFirst
<1>2. PICK n \in Nat \ {0} : n = Len(acall[t].frames)
  BY <1>1, InComparison
<1>3. f \in ArrayFrame /\ EqHolds(acall[t].frames, aheld[t]) /\ ArraysHeld /\ f = acall[t].frames[n]
  BY <1>1, <1>2, InComparison
<1>4. g \in ArrayFrame /\ g.e0 = f.e0 /\ g.e1 = f.e1 /\ g.st = "lock1" /\ g.i = f.i /\ f.e0 \in Arr
  BY <1>3 DEF ArrayFrame
<1> HIDE DEF f, g
<1>5. f.i = 0 /\ Len(aheld[t]) = 2 * (n - 1) + 0
  <2>1. HeldAt(f.st) = 0
    BY <1>1 DEF HeldAt
  <2>2. n \in 1..Len(acall[t].frames)
    BY <1>2
  <2>3. f.i = 0
    BY <1>1, <1>2, <1>3, <2>2 DEF EqHolds
  <2> QED
    BY <1>2, <1>3, <2>1, <2>3 DEF EqHolds
<1>6. /\ LocksOnly(t) /\ aheld'[t] \in Seq(Locks(Arr))
      /\ Len(aheld'[t]) = Len(aheld[t]) + 1
      /\ \A i \in 1..Len(aheld[t]) : aheld'[t][i] = aheld[t][i]
      /\ aheld'[t][Len(aheld[t]) + 1] = [c |-> f.e0, mode |-> "rd"]
  <2>1. "rd" \in Modes
    BY DEF Modes
  <2> QED
    BY <1>1, <1>3, <1>4, <2>1, ArrayLocked
<1>7. PICK m \in Nat : m = Len(aheld[t]) /\ m = 2 * (n - 1)
  BY <1>5
<1>8. \A i \in 1..m + 1 :
           \/ i <= m /\ aheld'[t][i] = aheld[t][i]
           \/ i = 2 * n - 1 /\ aheld'[t][i] = [c |-> f.e0, mode |-> "rd"]
  <2>1. \A i \in 1..m + 1 : i \in 1..m \/ (i = m + 1 /\ i = 2 * n - 1)
    BY <1>7
  <2> QED
    BY <1>6, <1>7, <2>1
<1>9. Len(aheld'[t]) = 2 * (n - 1) + HeldAt(g.st) /\ Len(aheld'[t]) = m + 1
  BY <1>4, <1>6, <1>7 DEF HeldAt
<1>10. EqualSoFar(g) /\ g.i = 0
  BY <1>4, <1>5 DEF EqualSoFar
<1>11. TopLocks(t, n)
  BY <1>7, <1>8, <1>9 DEF TopLocks, f
<1>12. NextTop(t, n, g)
  BY <1>1, <1>2, <1>4, <1>6, <1>9, <1>10, <1>11 DEF NextTop, f
<1> QED
  BY <1>4, <1>12, TopChanges

\* ... then the second, ...
LEMMA LockSecondKeeps ==
  ASSUME ArraysAssumption, ArraysInv, NEW t \in Thread, LockSecond(t)
  PROVE  ArraysInv'
<1> DEFINE f == Top(t)
           g == [f EXCEPT !.st = "loop"]
<1>1. /\ InEq(t) /\ f.st = "lock1" /\ MayLock(aheld, f.e1, "rd") /\ SetTop(t, g)
      /\ aheld' = WithLock(aheld, t, f.e1, "rd") /\ UNCHANGED <<slot, aalive, aroot, adoes>>
  BY DEF LockSecond, Second, SecondMode
<1>2. PICK n \in Nat \ {0} : n = Len(acall[t].frames)
  BY <1>1, InComparison
<1>3. /\ f \in ArrayFrame /\ EqHolds(acall[t].frames, aheld[t]) /\ ArraysHeld
      /\ f = acall[t].frames[n]
  BY <1>1, <1>2, InComparison
<1>4. /\ g \in ArrayFrame /\ g.e0 = f.e0 /\ g.e1 = f.e1 /\ g.st = "loop" /\ g.i = f.i
      /\ f.e1 \in Arr
  BY <1>3 DEF ArrayFrame
<1> HIDE DEF f, g
<1>5. f.i = 0 /\ Len(aheld[t]) = 2 * (n - 1) + 1
  <2>1. HeldAt(f.st) = 1
    BY <1>1 DEF HeldAt
  <2>2. n \in 1..Len(acall[t].frames)
    BY <1>2
  <2>3. f.i = 0
    BY <1>1, <1>2, <1>3, <2>2 DEF EqHolds
  <2> QED
    BY <1>2, <1>3, <2>1, <2>3 DEF EqHolds
<1>6. /\ LocksOnly(t) /\ aheld'[t] \in Seq(Locks(Arr))
      /\ Len(aheld'[t]) = Len(aheld[t]) + 1
      /\ \A i \in 1..Len(aheld[t]) : aheld'[t][i] = aheld[t][i]
      /\ aheld'[t][Len(aheld[t]) + 1] = [c |-> f.e1, mode |-> "rd"]
  <2>1. "rd" \in Modes
    BY DEF Modes
  <2> QED
    BY <1>1, <1>3, <1>4, <2>1, ArrayLocked
<1>7. PICK m \in Nat : m = Len(aheld[t]) /\ m = 2 * (n - 1) + 1
  BY <1>5
<1>8. \A i \in 1..m + 1 :
           \/ i <= m /\ aheld'[t][i] = aheld[t][i]
           \/ i = 2 * n /\ aheld'[t][i] = [c |-> f.e1, mode |-> "rd"]
  <2>1. \A i \in 1..m + 1 : i \in 1..m \/ (i = m + 1 /\ i = 2 * n)
    BY <1>7
  <2> QED
    BY <1>6, <1>7, <2>1
<1>9. Len(aheld'[t]) = 2 * (n - 1) + HeldAt(g.st) /\ Len(aheld'[t]) = m + 1
  BY <1>4, <1>6, <1>7 DEF HeldAt
<1>10. EqualSoFar(g) /\ g.i = 0
  BY <1>4, <1>5 DEF EqualSoFar
<1>11. TopLocks(t, n)
  BY <1>7, <1>8, <1>9 DEF TopLocks, f
<1>12. NextTop(t, n, g)
  BY <1>1, <1>2, <1>4, <1>6, <1>9, <1>10, <1>11 DEF NextTop, f
<1> QED
  BY <1>4, <1>12, TopChanges

\* ... and when the loop has ended the second is unlocked.
LEMMA UnlockSecondKeeps ==
  ASSUME ArraysAssumption, ArraysInv, NEW t \in Thread, UnlockSecond(t)
  PROVE  ArraysInv'
<1> DEFINE f == Top(t)
           g == [f EXCEPT !.st = "unlock0", !.ret = f.ret /\ SameSize(f)]
<1>1. /\ InEq(t) /\ f.st = "loop" /\ SetTop(t, g)
      /\ aheld' = WithoutLast(aheld, t) /\ UNCHANGED <<slot, aalive, aroot, adoes>>
  BY DEF UnlockSecond
<1>2. PICK n \in Nat \ {0} : n = Len(acall[t].frames)
  BY <1>1, InComparison
<1>3. /\ f \in ArrayFrame /\ EqHolds(acall[t].frames, aheld[t]) /\ ArraysHeld
      /\ f = acall[t].frames[n] /\ aheld[t] \in Seq(Locks(Arr))
  BY <1>1, <1>2, InComparison DEF ArraysHeld
<1>4. g \in ArrayFrame /\ g.e0 = f.e0 /\ g.e1 = f.e1 /\ g.st = "unlock0"
  <2>1. (f.ret /\ SameSize(f)) \in BOOLEAN
    BY DEF SameSize
  <2> QED
    BY <1>3, <2>1 DEF ArrayFrame
<1> HIDE DEF f, g
<1>5. PICK m \in Nat : m = Len(aheld[t]) /\ m = 2 * (n - 1) + 2
  <2>1. HeldAt(f.st) = 2
    BY <1>1 DEF HeldAt
  <2> QED
    BY <1>2, <1>3, <2>1 DEF EqHolds
<1>6. /\ LocksOnly(t) /\ Len(aheld'[t]) = m - 1
      /\ \A i \in 1..m - 1 : aheld'[t][i] = aheld[t][i]
  <2>1. Len(aheld[t]) > 0
    BY <1>5
  <2> QED
    BY <1>1, <1>3, <1>5, <2>1, ArrayUnlocked
<1>7. Len(aheld'[t]) = 2 * (n - 1) + HeldAt(g.st)
  BY <1>4, <1>5, <1>6 DEF HeldAt
<1>8. \A i \in 1..m - 1 : i <= m /\ aheld'[t][i] = aheld[t][i]
  BY <1>5, <1>6
<1>9. EqualSoFar(g)
  BY <1>4 DEF EqualSoFar
<1>10. TopLocks(t, n)
  BY <1>5, <1>6, <1>8 DEF TopLocks
<1>11. NextTop(t, n, g)
  BY <1>1, <1>2, <1>4, <1>6, <1>7, <1>9, <1>10 DEF NextTop, f
<1> QED
  BY <1>4, <1>11, TopChanges

\* A round of the loop that has ended: the next element is due.
LEMMA NextElement ==
  ASSUME NEW f \in ArrayFrame, NEW same \in BOOLEAN, f.st = "loop", EqualSoFar(f),
         same => \/ slot[f.e0][f.i] = slot[f.e1][f.i]
                 \/ {slot[f.e0][f.i], slot[f.e1][f.i]} \subseteq Arr
  PROVE  EqualSoFar([f EXCEPT !.i = f.i + 1, !.ret = f.ret /\ same])
<1> DEFINE g == [f EXCEPT !.i = f.i + 1, !.ret = f.ret /\ same]
<1>1. PICK n \in Nat : n = f.i
  BY DEF ArrayFrame
<1>2. /\ g.e0 = f.e0 /\ g.e1 = f.e1 /\ g.st = "loop" /\ g.i = n + 1
      /\ g.ret => f.ret /\ same
  BY <1>1 DEF ArrayFrame
<1> HIDE DEF g
<1>3. ASSUME g.ret, NEW i \in 0..g.i - 1
      PROVE  slot[g.e0][i] = slot[g.e1][i] \/ {slot[g.e0][i], slot[g.e1][i]} \subseteq Arr
  <2>1. i \in 0..n - 1 \/ i = n
    BY <1>1, <1>2
  <2>2. CASE i \in 0..n - 1
    <3>1. f.ret
      BY <1>2, <1>3
    <3> QED
      BY <1>1, <1>2, <2>2, <3>1 DEF EqualSoFar
  <2>3. CASE i = n
    BY <1>1, <1>2, <1>3, <2>3
  <2> QED
    BY <2>1, <2>2, <2>3
<1>4. EqualSoFar(g)
  BY <1>3 DEF EqualSoFar
<1> QED
  BY <1>4 DEF g

\* A round of the loop goes on, or compares two inner arrays first.
LEMMA StepKeeps ==
  ASSUME ArraysAssumption, ArraysInv, NEW t \in Thread, Step(t)
  PROVE  ArraysInv'
<1> DEFINE f == Top(t)
           F == acall[t].frames
           x == slot[f.e0][f.i]
           y == slot[f.e1][f.i]
<1>1. /\ InEq(t) /\ f.st = "loop" /\ Rounds(f)
      /\ UNCHANGED <<slot, aalive, aroot, aheld, adoes>>
      /\ IF x # y /\ {x, y} \subseteq Arr
         THEN acall' = [acall EXCEPT ![t].frames = Append(F, Frame(x, y))]
         ELSE SetTop(t, [f EXCEPT !.i = f.i + 1, !.ret = f.ret /\ x = y])
  BY DEF Step
<1>2. PICK n \in Nat \ {0} : n = Len(F)
  BY <1>1, InComparison
<1>3. /\ f \in ArrayFrame /\ EqHolds(F, aheld[t]) /\ ArraysHeld /\ FramesFine(F)
      /\ f = F[n] /\ F \in Seq(ArrayFrame) /\ acall[t] = [op |-> "eq", frames |-> F]
      /\ aheld[t] \in Seq(Locks(Arr)) /\ \A k \in 1..n : F[k] \in ArrayFrame
  BY <1>1, <1>2, InComparison DEF ArraysHeld
<1>4. n \in 1..n
  OBVIOUS
<1>5. LocksOnly(t) /\ aheld'[t] = aheld[t]
  BY <1>1, <1>3 DEF LocksOnly, ArraysHeld
<1>6. PICK m \in Nat : m = Len(aheld[t]) /\ m = 2 * (n - 1) + 2
  <2>1. HeldAt(f.st) = 2
    BY <1>1 DEF HeldAt
  <2> HIDE DEF F, f
  <2> QED
    BY <1>2, <1>3, <2>1 DEF EqHolds
<1> HIDE DEF f, F, x, y
<1>7. CASE x # y /\ {x, y} \subseteq Arr
  <2> DEFINE r == Frame(x, y)
             G == Append(F, r)
  <2>1. r \in ArrayFrame /\ r.e0 = x /\ r.e1 = y /\ r.st = "lock0" /\ r.i = 0
    BY <1>7 DEF ArrayFrame, Frame
  <2>2. BecomesCall(t, [op |-> "eq", frames |-> G])
    <3>1. acall' = [acall EXCEPT ![t] = [acall[t] EXCEPT !.frames = G]]
      BY <1>1, <1>7
    <3> HIDE DEF G
    <3>2. [acall[t] EXCEPT !.frames = G] = [op |-> "eq", frames |-> G]
      BY <1>3
    <3> QED
      BY <1>1, <3>1, <3>2 DEF BecomesCall
  <2> HIDE DEF r
  <2>3. /\ G \in Seq(ArrayFrame) /\ Len(G) = n + 1 /\ G[n + 1] = r
        /\ \A k \in 1..n : G[k] = F[k]
    BY <1>2, <1>3, <2>1, AppendProperties
  <2> HIDE DEF G
  <2>4. /\ x \in aalive /\ Layer[x] + 1 = Layer[f.e0]
        /\ y \in aalive /\ Layer[y] + 1 = Layer[f.e1]
    <3>1. f.e0 \in aalive /\ f.e1 \in aalive
      BY <1>2, <1>3, <1>4 DEF FramesFine
    <3>2. f.i \in Index(f.e0) /\ f.i \in Index(f.e1)
      BY <1>1 DEF Rounds, SameSize, Index
    <3> QED
      BY <1>7, <3>1, <3>2, ElementIs DEF x, y
  <2>5. f.e0 \in Arr /\ f.e1 \in Arr /\ \A k \in 1..n : F[k].e0 \in Arr
    BY <1>2, <1>3 DEF ArrayFrame
  <2>6. /\ Layer[f.e0] = Layer[f.e1] /\ \A j \in 1..n : Layer[f.e0] <= Layer[F[j].e0]
    BY <1>2, <1>3, <1>4 DEF EqHolds
  <2>7. Layer[x] = Layer[y] /\ \A j \in 1..n : Layer[x] <= Layer[F[j].e0]
    <3>1. PICK p \in Nat, q \in Nat, s \in Nat : p = Layer[x] /\ q = Layer[y] /\ s = Layer[f.e0]
      BY <1>7, <2>5 DEF ArraysAssumption
    <3>2. p + 1 = s /\ q + 1 = s
      BY <2>4, <2>6, <3>1
    <3>3. p = q /\ p <= s
      BY <3>2
    <3>4. \A j \in 1..n : Layer[F[j].e0] \in Nat /\ s <= Layer[F[j].e0]
      BY <2>5, <2>6, <3>1 DEF ArraysAssumption
    <3> QED
      BY <3>1, <3>3, <3>4
  <2>8. EqHolds(G, aheld'[t])
    <3>1. m = 2 * (n + 1 - 1) + HeldAt(r.st)
      BY <1>6, <2>1 DEF HeldAt
    <3>2. ASSUME NEW k \in 1..n
          PROVE  /\ G[k].st = "loop" /\ Layer[G[k].e0] = Layer[G[k].e1]
                 /\ \A j \in 1..k : Layer[G[k].e0] <= Layer[G[j].e0]
                 /\ 2 * k - 1 <= m => aheld[t][2 * k - 1] = [c |-> G[k].e0, mode |-> "rd"]
                 /\ 2 * k <= m => aheld[t][2 * k] = [c |-> G[k].e1, mode |-> "rd"]
      <4>1. k < n \/ k = n
        BY <3>2
      <4>2. F[k].st = "loop"
        BY <1>1, <1>2, <1>3, <3>2, <4>1 DEF EqHolds
      <4>3. /\ Layer[F[k].e0] = Layer[F[k].e1]
            /\ \A j \in 1..k : Layer[F[k].e0] <= Layer[F[j].e0]
            /\ 2 * k - 1 <= m => aheld[t][2 * k - 1] = [c |-> F[k].e0, mode |-> "rd"]
            /\ 2 * k <= m => aheld[t][2 * k] = [c |-> F[k].e1, mode |-> "rd"]
        BY <1>2, <1>3, <1>6, <3>2 DEF EqHolds
      <4>4. \A j \in 1..k : G[j] = F[j]
        <5>1. \A j \in 1..k : j \in 1..n
          BY <3>2
        <5> QED
          BY <2>3, <5>1
      <4> QED
        BY <2>3, <3>2, <4>2, <4>3, <4>4
    <3>3. ASSUME NEW j \in 1..n + 1 PROVE Layer[r.e0] <= Layer[G[j].e0]
      <4>1. j \in 1..n \/ j = n + 1
        OBVIOUS
      <4>2. Layer[x] \in Nat
        BY <1>7 DEF ArraysAssumption
      <4> QED
        BY <2>1, <2>3, <2>7, <4>1, <4>2
    <3>4. ~ (2 * (n + 1) - 1 <= m) /\ ~ (2 * (n + 1) <= m) /\ ~ (n + 1 < n + 1)
      BY <1>6
    <3>5. ASSUME NEW k \in 1..n + 1
          PROVE  /\ k < n + 1 => G[k].st = "loop"
                 /\ G[k].st \in {"lock0", "lock1"} => G[k].i = 0
                 /\ Layer[G[k].e0] = Layer[G[k].e1]
                 /\ \A j \in 1..k : Layer[G[k].e0] <= Layer[G[j].e0]
                 /\ 2 * k - 1 <= m => aheld[t][2 * k - 1] = [c |-> G[k].e0, mode |-> "rd"]
                 /\ 2 * k <= m => aheld[t][2 * k] = [c |-> G[k].e1, mode |-> "rd"]
      <4>1. k \in 1..n \/ k = n + 1
        OBVIOUS
      <4>2. CASE k \in 1..n
        BY <3>2, <4>2
      <4>3. CASE k = n + 1
        <5>1. G[k] = r /\ r.i = 0 /\ Layer[r.e0] = Layer[r.e1] /\ ~ (k < n + 1)
          BY <2>1, <2>3, <2>7, <3>4, <4>3
        <5>2. \A j \in 1..k : Layer[r.e0] <= Layer[G[j].e0]
          BY <3>3, <4>3
        <5>3. ~ (2 * k - 1 <= m) /\ ~ (2 * k <= m)
          BY <3>4, <4>3
        <5> QED
          BY <5>1, <5>2, <5>3
      <4> QED
        BY <4>1, <4>2, <4>3
    <3> QED
      BY <1>5, <1>6, <2>3, <3>1, <3>5 DEF EqHolds
  <2>9. FramesFine(G)
    <3>1. \A k \in 1..n + 1 : k \in 1..n \/ k = n + 1
      OBVIOUS
    <3>2. \A k \in 1..n + 1 : G[k].e0 \in aalive /\ G[k].e1 \in aalive
      BY <1>2, <1>3, <2>1, <2>3, <2>4, <3>1 DEF FramesFine
    <3>3. EqualSoFar(r)
      BY <2>1 DEF EqualSoFar
    <3>4. Direct => \A k \in 1..n + 1 : EqualSoFar(G[k])
      BY <1>2, <1>3, <2>3, <3>1, <3>3 DEF FramesFine
    <3>5. InTurn(f)
      BY <1>7 DEF InTurn, x, y
    <3>6. \A k \in 1..n + 1 - 1 : k \in 1..n /\ (k \in 1..n - 1 \/ k = n)
      OBVIOUS
    <3>7. Direct => \A k \in 1..n + 1 - 1 : InTurn(G[k])
      BY <1>2, <1>3, <2>3, <3>5, <3>6 DEF FramesFine
    <3> QED
      BY <2>3, <3>2, <3>4, <3>7 DEF FramesFine
  <2>10. G # <<>>
    BY <2>3
  <2> QED
    BY <1>5, <2>2, <2>3, <2>8, <2>9, <2>10, EqStep
<1>8. CASE ~ (x # y /\ {x, y} \subseteq Arr)
  <2>0. PICK same \in BOOLEAN : same = (x = y)
    OBVIOUS
  <2> DEFINE g == [f EXCEPT !.i = f.i + 1, !.ret = f.ret /\ same]
  <2>1. g \in ArrayFrame /\ g.e0 = f.e0 /\ g.e1 = f.e1 /\ g.st = "loop"
    <3>1. PICK j \in Nat : j = f.i + 1
      BY <1>3 DEF ArrayFrame
    <3>2. PICK b \in BOOLEAN : b = (f.ret /\ same)
      OBVIOUS
    <3>3. g = [f EXCEPT !.i = j, !.ret = b]
      BY <3>1, <3>2
    <3> HIDE DEF g
    <3> QED
      BY <1>1, <1>3, <3>3 DEF ArrayFrame
  <2>2. Direct => EqualSoFar(g)
    <3>1. Direct => EqualSoFar(f)
      BY <1>2, <1>3, <1>4 DEF FramesFine
    <3>2. same => slot[f.e0][f.i] = slot[f.e1][f.i]
      BY <2>0 DEF x, y
    <3> QED
      BY <1>1, <1>3, <3>1, <3>2, NextElement
  <2>3. SetTop(t, g)
    BY <1>1, <1>8, <2>0
  <2> HIDE DEF g
  <2>4. Len(aheld'[t]) = 2 * (n - 1) + HeldAt(g.st)
    BY <1>5, <1>6, <2>1 DEF HeldAt
  <2>5. \A i \in 1..Len(aheld'[t]) : i <= Len(aheld[t]) /\ aheld'[t][i] = aheld[t][i]
    BY <1>5, <1>6
  <2>6. UNCHANGED <<slot, aalive, aroot, adoes>>
    BY <1>1
  <2>7. TopLocks(t, n)
    BY <2>5 DEF TopLocks
  <2>8. NextTop(t, n, g)
    BY <1>1, <1>2, <1>5, <2>1, <2>2, <2>3, <2>4, <2>6, <2>7 DEF NextTop, f, F
  <2> QED
    BY <2>1, <2>8, TopChanges
<1> QED
  BY <1>7, <1>8

\* The first array is unlocked, and the outer loop gets the result.
LEMMA UnlockFirstKeeps ==
  ASSUME ArraysAssumption, ArraysInv, NEW t \in Thread, UnlockFirst(t)
  PROVE  ArraysInv'
<1> DEFINE F == acall[t].frames
           f == Top(t)
<1>1. PICK n \in Nat \ {0} : n = Len(F)
  BY InComparison DEF UnlockFirst
<1>2. /\ InEq(t) /\ f.st = "unlock0" /\ aheld' = WithoutLast(aheld, t)
      /\ UNCHANGED <<slot, aalive, aroot, adoes>>
  BY DEF UnlockFirst, FirstUnlocked
<1>3. /\ EqHolds(F, aheld[t]) /\ ArraysHeld /\ FramesFine(F) /\ f = F[n] /\ F \in Seq(ArrayFrame)
      /\ acall[t] = [op |-> "eq", frames |-> F] /\ aheld[t] \in Seq(Locks(Arr))
      /\ \A k \in 1..n : F[k] \in ArrayFrame
  BY <1>1, <1>2, InComparison DEF ArraysHeld
<1>4. PICK m \in Nat : m = Len(aheld[t]) /\ m = 2 * (n - 1) + 1
  <2>1. HeldAt(f.st) = 1
    BY <1>2 DEF HeldAt
  <2> HIDE DEF F, f
  <2> QED
    BY <1>1, <1>3, <2>1 DEF EqHolds
<1>5. /\ LocksOnly(t) /\ aheld'[t] \in Seq(Locks(Arr)) /\ Len(aheld'[t]) = m - 1
      /\ \A i \in 1..m - 1 : aheld'[t][i] = aheld[t][i]
  <2>1. Len(aheld[t]) > 0
    BY <1>4
  <2> QED
    BY <1>2, <1>3, <1>4, <2>1, ArrayUnlocked
<1>6. CASE n = 1
  <2>1. BecomesCall(t, Idle)
    BY <1>1, <1>2, <1>6 DEF UnlockFirst, BecomesCall
  <2>2. Len(aheld'[t]) = 0
    BY <1>4, <1>5, <1>6
  <2>3. aheld'[t] = <<>>
    BY <1>5, <2>2, EmptySeq
  <2> QED
    BY <1>5, <2>1, <2>3, IdleStep
<1>7. CASE n # 1
  <2>1. PICK p \in Nat \ {0} : p = n - 1
    BY <1>7
  <2> DEFINE b == F[p]
             g == [b EXCEPT !.i = b.i + 1, !.ret = b.ret /\ f.ret]
             G == Returned(F)
  <2>2. p \in 1..n /\ p < n /\ n = p + 1
    BY <2>1
  <2>3. G = [k \in 1..p |-> IF k = p THEN g ELSE F[k]]
    <3>1. Len(F) - 1 = p
      BY <1>1, <2>1
    <3>2. \A k \in 1..p : k = p => F[k + 1].ret = f.ret
      BY <1>3, <2>2
    <3> QED
      BY <3>1, <3>2 DEF Returned
  <2>4. PICK ret \in BOOLEAN : ret = f.ret
    <3>1. f \in ArrayFrame
      BY <1>3
    <3> QED
      BY <3>1 DEF ArrayFrame
  <2> HIDE DEF f
  <2>5. b \in ArrayFrame /\ b.st = "loop"
    <3>1. p \in 1..Len(F) /\ p < Len(F)
      BY <1>1, <2>2
    <3>2. F[p].st = "loop"
      BY <1>3, <3>1 DEF EqHolds
    <3> QED
      BY <1>1, <1>3, <3>1, <3>2
  <2>6. BecomesCall(t, [op |-> "eq", frames |-> G])
    BY <1>1, <1>2, <1>7 DEF UnlockFirst, BecomesCall
  <2> HIDE DEF b
  <2>7. /\ g \in ArrayFrame /\ g.e0 = b.e0 /\ g.e1 = b.e1 /\ g.st = "loop"
        /\ g = [b EXCEPT !.i = b.i + 1, !.ret = b.ret /\ ret]
    <3>1. PICK j \in Nat : j = b.i + 1
      BY <2>5 DEF ArrayFrame
    <3>2. PICK w \in BOOLEAN : w = (b.ret /\ ret)
      OBVIOUS
    <3>3. g = [b EXCEPT !.i = j, !.ret = w]
      BY <2>4, <3>1, <3>2
    <3>4. g = [b EXCEPT !.i = b.i + 1, !.ret = b.ret /\ ret]
      BY <2>4
    <3> HIDE DEF g
    <3>5. [b EXCEPT !.i = j, !.ret = w] \in ArrayFrame
      BY <2>5 DEF ArrayFrame
    <3> QED
      BY <2>5, <3>3, <3>4, <3>5 DEF ArrayFrame
  <2>8. Direct => EqualSoFar(g)
    <3>1. p \in 1..n - 1
      BY <2>1
    <3>2. Direct => EqualSoFar(b) /\ InTurn(b)
      BY <1>1, <1>3, <2>2, <3>1 DEF FramesFine, b
    <3>3. Direct => {slot[b.e0][b.i], slot[b.e1][b.i]} \subseteq Arr
      BY <3>2 DEF InTurn
    <3> HIDE DEF g
    <3> QED
      BY <2>5, <2>7, <3>2, <3>3, NextElement
  <2> HIDE DEF g
  <2>9. /\ G \in Seq(ArrayFrame) \ {<<>>} /\ Len(G) = p /\ G[p] = g
        /\ \A k \in 1..p : k # p => G[k] = F[k]
    <3> HIDE DEF G, F
    <3>1. \A k \in 1..p : k \in 1..n
      BY <2>2
    <3>2. \A k \in 1..p : G[k] \in ArrayFrame
      BY <1>3, <2>3, <2>7, <3>1
    <3>3. G \in [1..p -> ArrayFrame]
      BY <2>3, <3>2
    <3>4. p \in 1..p
      OBVIOUS
    <3>5. G \in Seq(ArrayFrame) /\ Len(G) = p
      BY <3>3
    <3> QED
      BY <2>3, <3>4, <3>5
  <2> HIDE DEF G, F
  <2>10. \A k \in 1..p : G[k].e0 = F[k].e0 /\ G[k].e1 = F[k].e1
    BY <2>7, <2>9 DEF b
  <2>11. EqHolds(G, aheld'[t])
    <3>1. Len(aheld'[t]) = 2 * (Len(G) - 1) + HeldAt(G[Len(G)].st)
      <4>1. HeldAt(g.st) = 2 /\ m - 1 = 2 * (p - 1) + 2
        BY <1>4, <2>1, <2>7 DEF HeldAt
      <4> QED
        BY <1>5, <2>9, <4>1
    <3>2. \A k \in 1..p : k \in 1..n /\ k < n /\ \A j \in 1..k : j \in 1..p
      BY <2>1
    <3>3. \A k \in 1..p : G[k].st = "loop"
      <4>1. \A k \in 1..p : F[k].st = "loop"
        BY <1>1, <1>3, <3>2 DEF EqHolds
      <4> QED
        BY <2>7, <2>9, <4>1
    <3>4. \A k \in 1..p : Layer[F[k].e0] = Layer[F[k].e1]
                          /\ \A j \in 1..k : Layer[F[k].e0] <= Layer[F[j].e0]
      BY <1>1, <1>3, <3>2 DEF EqHolds
    <3>5. \A k \in 1..p : Layer[G[k].e0] = Layer[G[k].e1]
                          /\ \A j \in 1..k : Layer[G[k].e0] <= Layer[G[j].e0]
      BY <2>10, <3>2, <3>4
    <3>6. ASSUME NEW k \in 1..p
          PROVE  /\ 2 * k - 1 <= m - 1 => aheld'[t][2 * k - 1] = [c |-> G[k].e0, mode |-> "rd"]
                 /\ 2 * k <= m - 1 => aheld'[t][2 * k] = [c |-> G[k].e1, mode |-> "rd"]
      <4>1. /\ 2 * k - 1 <= m => aheld[t][2 * k - 1] = [c |-> F[k].e0, mode |-> "rd"]
            /\ 2 * k <= m => aheld[t][2 * k] = [c |-> F[k].e1, mode |-> "rd"]
        BY <1>1, <1>3, <1>4, <3>2, <3>6 DEF EqHolds
      <4>2. /\ 2 * k - 1 <= m - 1 => 2 * k - 1 \in 1..m - 1 /\ 2 * k - 1 <= m
            /\ 2 * k <= m - 1 => 2 * k \in 1..m - 1 /\ 2 * k <= m
        OBVIOUS
      <4> QED
        BY <1>5, <2>10, <4>1, <4>2
    <3> QED
      BY <1>5, <2>9, <3>1, <3>3, <3>5, <3>6 DEF EqHolds
  <2>12. FramesFine(G)
    <3>1. \A k \in 1..p : k \in 1..n
      BY <2>1
    <3>2. \A k \in 1..p : G[k].e0 \in aalive /\ G[k].e1 \in aalive
      BY <1>1, <1>3, <2>10, <3>1 DEF FramesFine
    <3>3. Direct => \A k \in 1..p : EqualSoFar(G[k])
      BY <1>1, <1>3, <2>8, <2>9, <3>1 DEF FramesFine
    <3>4. \A k \in 1..p - 1 : k \in 1..p /\ k # p /\ k \in 1..n - 1
      BY <2>1
    <3>5. Direct => \A k \in 1..p - 1 : InTurn(G[k])
      BY <1>1, <1>3, <2>9, <3>4 DEF FramesFine
    <3> QED
      BY <2>9, <3>2, <3>3, <3>5 DEF FramesFine
  <2> QED
    BY <1>5, <2>6, <2>9, <2>11, <2>12, EqStep
<1> QED
  BY <1>6, <1>7

----------------------------------------------------------------------------
(* Arrays : the steps that bind, unbind and collect.                        *)

\* The symbol of an array gets another value.
LEMMA UnbindKeeps ==
  ASSUME ArraysInv, NEW t \in Thread, NEW a \in Arr, UnbindArray(t, a)
  PROVE  ArraysInv'
<1>1. aroot' \subseteq aroot /\ slot' = slot /\ aalive' = aalive /\ aheld' = aheld
      /\ acall' = acall /\ adoes' = adoes
  BY DEF UnbindArray
<1>2. ArrayTypes'
  BY <1>1 DEF ArraysInv, ArrayTypes
<1>3. SlotsInUse'
  <2>1. Contents(aalive)' = Contents(aalive) /\ \A u \in Thread : Knows(u)' = Knows(u)
    BY <1>1 DEF Contents, Knows, InEq
  <2> QED
    BY <1>1, <2>1 DEF ArraysInv, SlotsInUse
<1>4. ASSUME NEW u \in Thread
      PROVE  /\ HoldsLocks(u)' /\ Assigns(u)' /\ Compared(u)' /\ StaysEqual(u)'
             /\ Follows(u)'
  <2>1. HoldsLocks(u) /\ Assigns(u) /\ Compared(u) /\ StaysEqual(u)
    BY DEF ArraysInv, ComparedStaysEqual
  <2>2. HoldsLocks(u)' /\ Assigns(u)'
    BY <1>1, <2>1 DEF HoldsLocks, Assigns, MayAssign
  <2>3. /\ Direct' = Direct /\ InEq(u)' = InEq(u)
        /\ \A f : EqualSoFar(f)' = EqualSoFar(f) /\ InTurn(f)' = InTurn(f)
    BY <1>1 DEF Direct, InEq, EqualSoFar, InTurn
  <2>4. Compared(u)' /\ StaysEqual(u)'
    BY <1>1, <2>1, <2>3 DEF Compared, StaysEqual
  <2>5. Follows(u)'
    <3>1. Follows(u)
      BY DEF ArraysInv
    <3> QED
      BY <1>1, <3>1, FollowsKept
  <2> QED
    BY <2>2, <2>4, <2>5
<1>5. Exclusive(aheld)'
  BY <1>1 DEF ArraysInv
<1> QED
  BY <1>2, <1>3, <1>4, <1>5 DEF ArraysInv, ComparedStaysEqual

\* An array that is made, and those it holds, were free: no call knows of them.
LEMMA MakeKeeps ==
  ASSUME ArraysAssumption, ArraysInv, NEW t \in Thread, NEW a \in Arr, NEW new \in Elements(a),
         MakeArray(t, a, new)
  PROVE  ArraysInv'
<1> DEFINE inner == {new[i] : i \in Index(a)} \ Atom
<1>1. /\ a \notin aalive /\ slot' = [slot EXCEPT ![a] = new]
      /\ aalive' = aalive \cup {a} \cup inner /\ aroot' = aroot \cup {a}
      /\ aheld' = aheld /\ acall' = acall /\ adoes' = adoes
  BY DEF MakeArray
<1>2. /\ slot \in [Arr -> UNION {[Index(b) -> Atom \cup Arr] : b \in Arr}]
      /\ \A b \in Arr : slot[b] \in [Index(b) -> Element(b)]
      /\ aalive \subseteq Arr /\ aroot \subseteq aalive
      /\ Contents(aalive) \subseteq aalive /\ \A b \in Arr \ aalive : slot[b] = Nils(b)
      /\ \A u \in Thread : Knows(u) \subseteq aalive
  BY DEF ArraysInv, ArrayTypes, SlotsInUse
<1>3. nil \in Atom /\ nil \notin Arr /\ Arr \cap Atom = {}
  BY DEF ArraysAssumption
<1>4. /\ new \in [Index(a) -> Element(a)]
      /\ \A i \in Index(a) : \/ new[i] \in Atom
                             \/ new[i] \in Arr \ aalive /\ Layer[new[i]] + 1 = Layer[a]
  <2>1. CASE new = Nils(a)
    BY <1>3, <2>1 DEF Nils, Element
  <2>2. CASE new # Nils(a)
    <3>1. new \in [Index(a) -> {b \in Arr \ aalive : Layer[b] + 1 = Layer[a]}]
      BY <2>2 DEF Elements
    <3> QED
      BY <3>1 DEF Element
  <2> QED
    BY <2>1, <2>2
<1>5. ASSUME NEW b \in inner PROVE b \in Arr \ aalive /\ b # a
  <2>1. b \in Arr \ aalive /\ Layer[b] + 1 = Layer[a]
    BY <1>4, <1>5
  <2>2. Layer[b] \in Nat
    BY <2>1 DEF ArraysAssumption
  <2> QED
    BY <2>1, <2>2
<1>6. \A i \in Index(a) : new[i] \in Arr => new[i] \in inner
  BY <1>3
<1> HIDE DEF inner
<1>7. /\ \A b \in Arr : slot'[b] = IF b = a THEN new ELSE slot[b]
      /\ slot' = [b \in Arr |-> slot'[b]]
  BY <1>1, <1>2
<1>8. ArrayTypes'
  <2>1. \A b \in Arr : slot'[b] \in [Index(b) -> Element(b)]
    BY <1>2, <1>4, <1>7
  <2>2. \A b \in Arr : slot'[b] \in [Index(b) -> Atom \cup Arr]
    BY <2>1 DEF Element
  <2>3. slot' \in [Arr -> UNION {[Index(b) -> Atom \cup Arr] : b \in Arr}]
    BY <1>7, <2>2
  <2>4. aalive' \subseteq Arr /\ aroot' \subseteq aalive'
    BY <1>1, <1>2, <1>5
  <2> QED
    BY <1>1, <2>1, <2>3, <2>4 DEF ArraysInv, ArrayTypes
<1>9. SlotsInUse'
  <2>1. ASSUME NEW x \in Contents(aalive)' PROVE x \in aalive'
    <3>1. x \in Arr
      BY <2>1 DEF Contents
    <3>2. PICK b \in aalive' : \E i \in Index(b) : slot'[b][i] = x
      <4>1. PICK b \in aalive' : \E i \in DOMAIN slot'[b] : slot'[b][i] = x
        BY <2>1 DEF Contents
      <4>2. b \in Arr /\ slot'[b] \in [Index(b) -> Element(b)]
        BY <1>1, <1>2, <1>4, <1>5, <1>7
      <4> QED
        BY <4>1, <4>2
    <3>3. PICK i \in Index(b) : slot'[b][i] = x
      BY <3>2
    <3>4. CASE b = a
      BY <1>1, <1>6, <1>7, <3>1, <3>3, <3>4
    <3>5. CASE b \in aalive
      <4>1. slot[b][i] = x
        BY <1>1, <1>2, <1>7, <3>3, <3>5
      <4>2. DOMAIN slot[b] = Index(b)
        BY <1>2, <3>5
      <4>3. x \in Contents(aalive)
        BY <3>1, <3>3, <3>5, <4>1, <4>2 DEF Contents
      <4> QED
        BY <1>1, <1>2, <4>3
    <3>6. CASE b \in inner
      <4>1. slot'[b] = Nils(b)
        BY <1>2, <1>5, <1>7, <3>6
      <4>2. x = nil
        BY <3>3, <4>1 DEF Nils
      <4> QED
        BY <1>3, <3>1, <4>2
    <3> QED
      BY <1>1, <3>2, <3>4, <3>5, <3>6
  <2>2. \A b \in Arr \ aalive' : slot'[b] = Nils(b)
    BY <1>1, <1>2, <1>7
  <2>3. \A u \in Thread : Knows(u)' \subseteq aalive'
    <3>1. \A u \in Thread : Knows(u)' = Knows(u)
      BY <1>1 DEF Knows, InEq
    <3> QED
      BY <1>1, <1>2, <3>1
  <2> QED
    BY <2>1, <2>2, <2>3 DEF SlotsInUse, Nils, Index
<1>10. ASSUME NEW u \in Thread
       PROVE  /\ HoldsLocks(u)' /\ Assigns(u)' /\ Compared(u)' /\ StaysEqual(u)'
              /\ Follows(u)'
  <2>1. HoldsLocks(u) /\ Assigns(u)
    BY DEF ArraysInv
  <2>2. HoldsLocks(u)' /\ Assigns(u)'
    BY <1>1, <2>1 DEF HoldsLocks, Assigns, MayAssign
  <2>3. Direct' = Direct /\ InEq(u)' = InEq(u)
    BY <1>1 DEF Direct, InEq
  <2>4. ASSUME InEq(u), Direct, NEW k \in 1..Len(acall[u].frames)
        PROVE  /\ EqualSoFar(acall[u].frames[k])'
               /\ k \in 1..Len(acall[u].frames) - 1 => InTurn(acall[u].frames[k])'
    <3> DEFINE F == acall[u].frames
               f == F[k]
    <3>1. FramesFine(F) /\ acall'[u].frames = F
      BY <1>1, <2>4, InComparison
    <3>2. f.e0 \in aalive /\ f.e1 \in aalive /\ EqualSoFar(f)
      BY <2>4, <3>1 DEF FramesFine
    <3>3. k \in 1..Len(F) - 1 => InTurn(f)
      BY <2>4, <3>1 DEF FramesFine
    <3>4. k \in 1..Len(F) - 1 => f.st = "loop"
      <4>1. EqHolds(F, aheld[u]) /\ Len(F) \in Nat \ {0}
        BY <2>4, InComparison
      <4>2. k \in 1..Len(F) - 1 => k < Len(F)
        BY <4>1
      <4> QED
        BY <2>4, <4>1, <4>2 DEF EqHolds
    <3>5. PICK g : g = f
      OBVIOUS
    <3>6. g = acall'[u].frames[k]
      BY <3>1, <3>5
    <3> HIDE DEF f
    <3>7. slot'[f.e0] = slot[f.e0] /\ slot'[f.e1] = slot[f.e1]
      BY <1>1, <1>2, <1>7, <3>2
    <3>8. EqualSoFar(g)' /\ (k \in 1..Len(F) - 1 => InTurn(g)')
      BY <3>2, <3>3, <3>4, <3>5, <3>7, FrameKept
    <3> HIDE DEF F
    <3>9. EqualSoFar(acall[u].frames[k])' /\ (k \in 1..Len(F) - 1 => InTurn(acall[u].frames[k])')
      BY <3>6, <3>8
    <3> QED
      BY <3>9 DEF F
  <2>5. InEq(u) => /\ DOMAIN acall[u].frames = 1..Len(acall[u].frames)
                   /\ \A k \in 1..Len(acall[u].frames) - 1 : k \in 1..Len(acall[u].frames)
    <3>1. InEq(u) => Len(acall[u].frames) \in Nat \ {0} /\ acall[u].frames \in Seq(ArrayFrame)
      BY InComparison
    <3> QED
      BY <3>1, LenProperties
  <2>6. Compared(u)' /\ StaysEqual(u)'
    BY <1>1, <2>3, <2>4, <2>5 DEF Compared, StaysEqual
  <2>7. Follows(u)'
    <3>1. Follows(u)
      BY DEF ArraysInv
    <3>2. ASSUME Walks(u) PROVE slot'[acall[u].at] = slot[acall[u].at]
      <4>1. acall[u].at \in aalive
        BY <3>2, InAccess DEF Walks, KnownInUse
      <4> QED
        BY <1>1, <1>2, <1>7, <4>1
    <3> QED
      BY <1>1, <3>1, <3>2, FollowsKept
  <2> QED
    BY <2>2, <2>6, <2>7
<1>11. Exclusive(aheld)'
  BY <1>1 DEF ArraysInv
<1> QED
  BY <1>8, <1>9, <1>10, <1>11 DEF ArraysInv, ComparedStaysEqual

\* The collector runs when nobody has a call, and keeps what symbols reach.
LEMMA CollectKeeps ==
  ASSUME ArraysAssumption, ArraysInv, CollectArrays
  PROVE  ArraysInv'
<1> DEFINE R == Reached(aroot)
<1>1. /\ aalive' = R /\ slot' = [a \in Arr |-> IF a \in aalive' THEN slot[a] ELSE Nils(a)]
      /\ aroot' = aroot /\ aheld' = aheld /\ acall' = acall /\ adoes' = adoes
  BY DEF CollectArrays
<1>2. \A t \in Thread : acall[t] = Idle
  BY CallKinds DEF CollectArrays, ArraySafe
<1>3. /\ \A b \in Arr : slot[b] \in [Index(b) -> Element(b)]
      /\ aroot \subseteq Arr /\ aheld \in [Thread -> Seq([c : Arr, mode : {"rd", "wr"}])]
  BY DEF ArraysInv, ArrayTypes
<1>4. aroot \subseteq R /\ R \subseteq Arr /\ Contents(R) \subseteq R
  BY <1>3, ReachedIsLeast
<1> HIDE DEF R
<1>5. /\ \A b \in Arr : slot'[b] \in [Index(b) -> Element(b)]
      /\ \A b \in R : slot'[b] = slot[b]
      /\ \A b \in Arr \ R : slot'[b] = Nils(b)
      /\ slot' = [b \in Arr |-> slot'[b]]
  <2>1. \A b \in Arr : Nils(b) \in [Index(b) -> Element(b)]
    BY DEF Nils, Element, ArraysAssumption
  <2> QED
    BY <1>1, <1>3, <1>4, <2>1
<1>6. ArrayTypes'
  <2>1. \A b \in Arr : slot'[b] \in [Index(b) -> Atom \cup Arr]
    BY <1>5 DEF Element
  <2>2. slot' \in [Arr -> UNION {[Index(b) -> Atom \cup Arr] : b \in Arr}]
    BY <1>5, <2>1
  <2> QED
    BY <1>1, <1>4, <1>5, <2>2 DEF ArraysInv, ArrayTypes
<1>7. Idle.op = "none" /\ Idle \notin AccessCall /\ Idle \notin EqCall
  BY DEF Idle, AccessCall, EqCall
<1>8. SlotsInUse'
  <2>1. ASSUME NEW x \in Contents(aalive)' PROVE x \in R
    <3>1. x \in Arr
      BY <2>1 DEF Contents
    <3>2. PICK b \in R : \E i \in DOMAIN slot'[b] : slot'[b][i] = x
      BY <1>1, <2>1 DEF Contents
    <3>3. \E i \in DOMAIN slot[b] : slot[b][i] = x
      BY <1>5, <3>2
    <3> QED
      BY <1>4, <3>1, <3>3 DEF Contents
  <2>2. \A u \in Thread : Knows(u)' = {}
    BY <1>1, <1>2, <1>7 DEF Knows, InEq
  <2> QED
    BY <1>1, <1>5, <2>1, <2>2 DEF SlotsInUse, Nils, Index
<1>9. ASSUME NEW u \in Thread
      PROVE  /\ HoldsLocks(u)' /\ Assigns(u)' /\ Compared(u)' /\ StaysEqual(u)'
             /\ Follows(u)'
  <2>1. HoldsLocks(u) /\ acall'[u] = Idle /\ acall[u] = Idle
    BY <1>1, <1>2 DEF ArraysInv
  <2>2. HoldsLocks(u)'
    BY <1>1, <2>1 DEF HoldsLocks
  <2> QED
    BY <1>7, <2>1, <2>2 DEF Assigns, MayAssign, Compared, StaysEqual, InEq, Follows, Walks
<1>10. Exclusive(aheld)'
  BY <1>1 DEF ArraysInv
<1> QED
  BY <1>6, <1>8, <1>9, <1>10 DEF ArraysInv, ComparedStaysEqual

\* Every step keeps the invariant.
THEOREM ArraysInvariance ==
  ASSUME ArraysAssumption
  PROVE  ArraysSpec => []ArraysInv
<1>1. ArraysInit => ArraysInv
  BY ArraysStart
<1>2. ArraysInv /\ [ArraysNext]_arrvars => ArraysInv'
  <2> SUFFICES ASSUME ArraysInv, [ArraysNext]_arrvars PROVE ArraysInv'
    OBVIOUS
  <2>1. CASE CollectArrays
    BY <2>1, CollectKeeps
  <2>2. ASSUME NEW t \in Thread, NEW a \in Reached(aroot), NEW ix \in Paths,
               Get(t, a, ix) \/ \E v \in Atom \cup Reached(aroot) : Set(t, a, ix, v)
        PROVE  ArraysInv'
    BY <2>2, AccessStarts
  <2>3. ASSUME NEW t \in Thread, NEW a \in Reached(aroot), NEW b \in Reached(aroot),
               CompareArrays(t, a, b)
        PROVE  ArraysInv'
    BY <2>3, CompareKeeps
  <2>4. ASSUME NEW t \in Thread, NEW a \in Arr, UnbindArray(t, a) PROVE ArraysInv'
    BY <2>4, UnbindKeeps
  <2>5. ASSUME NEW t \in Thread, NEW a \in Arr, NEW inner \in Elements(a), MakeArray(t, a, inner)
        PROVE  ArraysInv'
    BY <2>5, MakeKeeps
  <2>6. ASSUME NEW t \in Thread,
               \/ LockTop(t) \/ Find(t) \/ Test(t) \/ LockInner(t) \/ Descend(t) \/ Ascend(t)
               \/ Store(t) \/ UnlockTop(t) \/ Read(t)
        PROVE  ArraysInv'
    BY <2>6, LockTopKeeps, FindKeeps, TestKeeps, LockInnerKeeps, DescendKeeps, AscendKeeps,
       StoreKeeps, UnlockTopKeeps, ReadKeeps
  <2>7. ASSUME NEW t \in Thread,
               LockFirst(t) \/ LockSecond(t) \/ Step(t) \/ UnlockSecond(t) \/ UnlockFirst(t)
        PROVE  ArraysInv'
    BY <2>7, LockFirstKeeps, LockSecondKeeps, StepKeeps, UnlockSecondKeeps, UnlockFirstKeeps
  <2>8. CASE UNCHANGED arrvars
    <3>1. /\ slot' = slot /\ aalive' = aalive /\ aroot' = aroot /\ aheld' = aheld
          /\ acall' = acall /\ adoes' = adoes
      BY <2>8 DEF arrvars
    <3>2. ArrayTypes' /\ Exclusive(aheld)'
      BY <3>1 DEF ArraysInv, ArrayTypes
    <3>3. SlotsInUse'
      <4>1. Contents(aalive)' = Contents(aalive) /\ \A u \in Thread : Knows(u)' = Knows(u)
        BY <3>1 DEF Contents, Knows, InEq
      <4> QED
        BY <3>1, <4>1 DEF ArraysInv, SlotsInUse
    <3>4. ASSUME NEW u \in Thread
          PROVE  /\ HoldsLocks(u)' /\ Assigns(u)' /\ Compared(u)' /\ StaysEqual(u)'
                 /\ Follows(u)'
      <4>1. HoldsLocks(u) /\ Assigns(u) /\ Compared(u) /\ StaysEqual(u)
        BY DEF ArraysInv, ComparedStaysEqual
      <4>2. HoldsLocks(u)' /\ Assigns(u)'
        BY <3>1, <4>1 DEF HoldsLocks, Assigns, MayAssign
      <4>3. /\ Direct' = Direct /\ InEq(u)' = InEq(u)
            /\ \A f : EqualSoFar(f)' = EqualSoFar(f) /\ InTurn(f)' = InTurn(f)
        BY <3>1 DEF Direct, InEq, EqualSoFar, InTurn
      <4>4. Compared(u)' /\ StaysEqual(u)'
        BY <3>1, <4>1, <4>3 DEF Compared, StaysEqual
      <4>5. Follows(u)'
        <5>1. Follows(u)
          BY DEF ArraysInv
        <5> QED
          BY <3>1, <5>1, FollowsKept
      <4> QED
        BY <4>2, <4>4, <4>5
    <3> QED
      BY <3>2, <3>3, <3>4 DEF ArraysInv, ComparedStaysEqual
  <2> QED
    BY <2>1, <2>2, <2>3, <2>4, <2>5, <2>6, <2>7, <2>8 DEF ArraysNext
<1> QED
  BY <1>1, <1>2, PTL DEF ArraysSpec

\* What a running call knows of, and what it can reach from there, is in use.
LEMMA ArraysStayInUse ==
  ASSUME ArraysInv
  PROVE  ArraysInUse
<1>1. \A t \in Thread : Knows(t) \subseteq aalive
  BY DEF ArraysInv, SlotsInUse
<1>2. aroot \subseteq aalive
  BY DEF ArraysInv, ArrayTypes
<1>3. aroot \cup UNION {Knows(t) : t \in Thread} \subseteq aalive
  BY <1>1, <1>2
<1> QED
  BY <1>3, ReachedInUse DEF ArraysInUse

\* If nobody assigns below, an access walks through what it has locked.
LEMMA WalkIsLocked ==
  ASSUME ArraysInv
  PROVE  WalksLocked
<1> SUFFICES ASSUME NEW t \in Thread, Walks(t)
             PROVE  acall[t].st # "lost" /\ (acall[t].st = "find" => LastLocked(t) = acall[t].at)
  BY DEF WalksLocked
<1>1. FollowsPath(acall[t], aheld[t])
  BY DEF ArraysInv, Follows
<1> QED
  BY <1>1 DEF FollowsPath, LastLocked

\* Who counts as safe holds no lock of an array.
LEMMA ArrayVisits ==
  ASSUME ArraysInv
  PROVE  ArrayVisitsPass
<1> SUFFICES ASSUME NEW t \in Thread, ArraySafe(t) PROVE aheld[t] = <<>>
  BY DEF ArrayVisitsPass
<1>1. acall[t] = Idle /\ HoldsLocks(t)
  BY CallKinds DEF ArraySafe, ArraysInv
<1> QED
  BY <1>1 DEF HoldsLocks

----------------------------------------------------------------------------
(* Arrays : nobody waits in a circle.                                       *)

\* All that a comparison holds is locked for reading, and of no lower layer than the
\* arrays it compares last.
LEMMA EqHeld ==
  ASSUME ArraysAssumption, ArraysInv, NEW t \in Thread, InEq(t), NEW k \in DOMAIN aheld[t]
  PROVE  /\ aheld[t][k].mode = "rd" /\ Layer[Top(t).e0] <= Layer[aheld[t][k].c]
         /\ Layer[Top(t).e1] = Layer[Top(t).e0] /\ Top(t).e0 \in Arr /\ Top(t).e1 \in Arr
<1> DEFINE F == acall[t].frames
           h == aheld[t]
<1>1. PICK n \in Nat \ {0} : n = Len(F)
  BY InComparison
<1>2. /\ EqHolds(F, h) /\ Top(t) = F[n] /\ h \in Seq(Locks(Arr))
      /\ \A j \in 1..n : F[j] \in ArrayFrame
  BY <1>1, InComparison DEF ArraysHeld
<1> HIDE DEF F, h
<1>3. PICK m \in Nat : m = Len(h)
  BY <1>2
<1>4. k \in 1..m
  BY <1>2, <1>3, LenProperties DEF h
<1>5. m <= 2 * n
  <2>1. n \in 1..n
    OBVIOUS
  <2>2. F[n].st \in {"lock0", "lock1", "loop", "unlock0"}
    BY <1>2, <2>1 DEF ArrayFrame
  <2>3. PICK x \in {0, 1, 2} : x = HeldAt(F[n].st)
    BY <2>2 DEF HeldAt
  <2>4. m = 2 * (n - 1) + x
    BY <1>1, <1>2, <1>3, <2>3 DEF EqHolds
  <2> QED
    BY <2>4
<1>6. PICK j \in Nat \ {0} : k = 2 * j \/ k = 2 * j - 1
  <2>1. k \in Nat \ {0}
    BY <1>3, <1>4
  <2> QED
    BY <2>1, Halves
<1>7. j \in 1..n /\ n \in 1..n
  BY <1>4, <1>5, <1>6
<1>8. /\ 2 * j - 1 <= m => h[2 * j - 1] = [c |-> F[j].e0, mode |-> "rd"]
      /\ 2 * j <= m => h[2 * j] = [c |-> F[j].e1, mode |-> "rd"]
      /\ Layer[F[j].e0] = Layer[F[j].e1]
  BY <1>1, <1>2, <1>3, <1>7 DEF EqHolds
<1>9. Layer[F[n].e0] <= Layer[F[j].e0] /\ Layer[F[n].e0] = Layer[F[n].e1]
  BY <1>1, <1>2, <1>7 DEF EqHolds
<1>10. h[k].mode = "rd" /\ (h[k].c = F[j].e0 \/ h[k].c = F[j].e1)
  BY <1>4, <1>6, <1>8
<1>11. F[n].e0 \in Arr /\ F[n].e1 \in Arr
  BY <1>2, <1>7 DEF ArrayFrame
<1> QED
  BY <1>2, <1>8, <1>9, <1>10, <1>11 DEF h

\* What a waiting thread wants lies below all that it holds if it is an access; a
\* comparison only reads, and wants nothing above what it holds.
LEMMA WantsBelow ==
  ASSUME ArraysAssumption, ArraysInv, NEW t \in Thread, Wants(t) # <<>>
  PROVE  /\ Wants(t).c \in Arr
         /\ \/ \A k \in DOMAIN aheld[t] : Layer[Wants(t).c] < Layer[aheld[t][k].c]
            \/ /\ Wants(t).mode = "rd"
               /\ \A k \in DOMAIN aheld[t] :
                    aheld[t][k].mode = "rd" /\ Layer[Wants(t).c] <= Layer[aheld[t][k].c]
<1> DEFINE c == acall[t]
<1>1. CASE c.op \in {"get", "set"} /\ c.st = "lock"
  <2>1. c \in AccessCall /\ AccessHolds(c, aheld[t])
    BY <1>1, InAccess
  <2>2. Wants(t) = [c |-> c.top, mode |-> mode(c)]
    BY <1>1 DEF Wants, InEq
  <2>3. aheld[t] = <<>> /\ c.top \in Arr
    BY <1>1, <2>1 DEF AccessHolds, AccessCall
  <2> QED
    BY <2>2, <2>3
<1>2. CASE c.op \in {"get", "set"} /\ c.st = "inner"
  <2>1. c \in AccessCall /\ AccessHolds(c, aheld[t]) /\ ArraysHeld
    BY <1>2, InAccess
  <2>2. c.ne \in Arr /\ Layer[c.ne] + 1 = Layer[c.at]
    BY <1>2, <2>1 DEF AccessHolds
  <2>3. Wants(t) = [c |-> c.ne, mode |-> mode(c)]
    BY <1>2 DEF Wants, InEq
  <2>4. aheld[t] \in Seq(Locks(Arr)) /\ c.at \in Arr
    BY <2>1 DEF ArraysHeld, AccessCall
  <2>5. ASSUME NEW k \in DOMAIN aheld[t] PROVE Layer[c.ne] < Layer[aheld[t][k].c]
    <3>1. k \in 1..Len(aheld[t]) /\ aheld[t][k] \in Locks(Arr)
      BY <2>4, <2>5, LenProperties
    <3>2. Layer[aheld[t][k].c] >= Layer[c.at]
      BY <1>2, <2>1, <3>1 DEF AccessHolds
    <3>3. Layer[c.ne] \in Nat /\ Layer[c.at] \in Nat /\ Layer[aheld[t][k].c] \in Nat
      BY <2>2, <2>4, <3>1 DEF ArraysAssumption, Locks
    <3> QED
      BY <2>2, <3>2, <3>3
  <2> QED
    BY <2>2, <2>3, <2>5
<1>3. CASE InEq(t) /\ Top(t).st \in {"lock0", "lock1"}
  <2>1. PICK a \in {Top(t).e0, Top(t).e1} : Wants(t) = [c |-> a, mode |-> "rd"]
    <3>1. ~ (c.op \in {"get", "set"})
      BY <1>3 DEF InEq
    <3>2. CASE Top(t).st = "lock0"
      BY <1>3, <3>1, <3>2 DEF Wants, SecondMode
    <3>3. CASE Top(t).st = "lock1"
      BY <1>3, <3>1, <3>3 DEF Wants, SecondMode
    <3> QED
      BY <1>3, <3>2, <3>3
  <2>2. Top(t) \in ArrayFrame
    BY <1>3, InComparison
  <2>3. a \in Arr
    BY <2>1, <2>2 DEF ArrayFrame
  <2>4. \A k \in DOMAIN aheld[t] : aheld[t][k].mode = "rd" /\ Layer[a] <= Layer[aheld[t][k].c]
    BY <1>3, <2>1, EqHeld
  <2> QED
    BY <2>1, <2>3, <2>4
<1>4. \/ c.op \in {"get", "set"} /\ c.st = "lock"
      \/ c.op \in {"get", "set"} /\ c.st = "inner"
      \/ InEq(t) /\ Top(t).st \in {"lock0", "lock1"}
  BY DEF Wants
<1> QED
  BY <1>1, <1>2, <1>3, <1>4

\* Somebody in the circle would want the lowest layer: who holds that array is an
\* access, which wants a lower one, or a comparison, which waits for a writer, who
\* does.
LEMMA NobodyInCircle ==
  ASSUME ArraysAssumption, ArraysInv
  PROVE  NoCircle
<1> DEFINE wants == [t \in Thread |-> Wants(t)]
<1>1. aheld \in [Thread -> Seq(Locks(Arr))] /\ DOMAIN aheld = Thread
  BY DEF ArraysInv, ArrayTypes, Locks, Modes
<1> SUFFICES ASSUME NEW S \in SUBSET Thread, S # {},
                    \A t \in S : /\ Wants(t) # <<>>
                                 /\ Keepers(aheld, Wants(t).c, Wants(t).mode) \cap S # {}
             PROVE  FALSE
  BY <1>1 DEF NoCircle, Stuck
<1>2. \A t \in S : Layer[Wants(t).c] \in Nat
  BY WantsBelow DEF ArraysAssumption
<1>3. PICK t \in S : \A u \in S : Layer[Wants(t).c] <= Layer[Wants(u).c]
  <2> DEFINE L == {Layer[Wants(u).c] : u \in S}
  <2>1. L \subseteq Nat /\ L # {}
    BY <1>2
  <2>2. PICK x \in L : \A y \in L : x <= y
    BY <2>1, LeastNatural
  <2> QED
    BY <2>2
<1>4. ASSUME NEW u \in S
      PROVE  \E v \in S : \E k \in DOMAIN aheld[v] :
               /\ aheld[v][k].c = Wants(u).c
               /\ Wants(u).mode = "wr" \/ aheld[v][k].mode = "wr"
  <2>1. PICK v \in Keepers(aheld, Wants(u).c, Wants(u).mode) : v \in S
    OBVIOUS
  <2>2. \E k \in DOMAIN aheld[v] :
          aheld[v][k].c = Wants(u).c /\ (Wants(u).mode = "wr" \/ aheld[v][k].mode = "wr")
    BY <2>1 DEF Keepers
  <2> QED
    BY <2>1, <2>2
<1>5. PICK u \in S : \E k \in DOMAIN aheld[u] :
        /\ aheld[u][k].c = Wants(t).c
        /\ Wants(t).mode = "wr" \/ aheld[u][k].mode = "wr"
  BY <1>4
<1>6. PICK k \in DOMAIN aheld[u] : aheld[u][k].c = Wants(t).c
  BY <1>5
<1>7. /\ Wants(u).mode = "rd" /\ Layer[Wants(u).c] <= Layer[Wants(t).c]
  <2>1. ~ (Layer[Wants(u).c] < Layer[Wants(t).c])
    BY <1>2, <1>3
  <2> QED
    BY <1>6, <2>1, WantsBelow
<1>8. PICK v \in S : \E j \in DOMAIN aheld[v] :
        /\ aheld[v][j].c = Wants(u).c
        /\ Wants(u).mode = "wr" \/ aheld[v][j].mode = "wr"
  BY <1>4
<1>9. PICK j \in DOMAIN aheld[v] : aheld[v][j].c = Wants(u).c /\ aheld[v][j].mode = "wr"
  BY <1>7, <1>8
<1>10. Layer[Wants(v).c] < Layer[Wants(u).c]
  BY <1>9, WantsBelow
<1> QED
  BY <1>2, <1>3, <1>7, <1>10

----------------------------------------------------------------------------
(* Maps : what a set of maps leads to, and what a step keeps.               *)

MapVal == Val \cup Map

\* What lies inside maps of a set is the least such set around them : no value leads out
\* of it, ...
LEMMA NestedIsComplete ==
  ASSUME NEW S
  PROVE  /\ S \cap Map \subseteq Nested(S) /\ Nested(S) \subseteq Map
         /\ Held(Nested(S)) \cap Map \subseteq Nested(S)
<1>1. S \cap Map \subseteq Nested(S) /\ Nested(S) \subseteq Map
  BY DEF Nested
<1>2. ASSUME NEW x \in Held(Nested(S)), x \in Map PROVE x \in Nested(S)
  <2>1. PICK m \in Nested(S) : m \in Map /\ x \in ValuesOf(m)
    BY <1>2 DEF Held
  <2>2. ASSUME NEW D \in SUBSET (Map \ S), Complete(S \cup D) PROVE x \in S \cup D
    <3>1. m \in S \cup D
      BY <2>1, <2>2 DEF Nested
    <3>2. x \in Held(S \cup D)
      BY <2>1, <3>1 DEF Held
    <3> QED
      BY <1>2, <2>2, <3>2 DEF Complete
  <2> QED
    BY <1>2, <2>2 DEF Nested
<1> QED
  BY <1>1, <1>2

\* ... and whatever contains them and leads nowhere else contains it.
LEMMA NestedWithin ==
  ASSUME NEW S, NEW C, S \subseteq C, Complete(C)
  PROVE  Nested(S) \subseteq C
<1> DEFINE D == (C \cap Map) \ S
<1>1. D \in SUBSET (Map \ S) /\ S \cup D \subseteq C
  OBVIOUS
<1>2. \A m : m \in (S \cup D) \cap Map <=> m \in C \cap Map
  OBVIOUS
<1>3. Held(S \cup D) \subseteq Held(C)
  BY <1>1 DEF Held
<1>4. Complete(S \cup D)
  <2>1. \A x \in Held(S \cup D) : x \in Map => x \in C \cap Map
    BY <1>3 DEF Complete
  <2> QED
    BY <1>2, <2>1 DEF Complete
<1> HIDE DEF D
<1>5. ASSUME NEW m \in Nested(S) PROVE m \in C
  <2>1. m \in S \cup D
    BY <1>1, <1>4, <1>5 DEF Nested
  <2> QED
    BY <1>1, <2>1
<1> QED
  BY <1>5

\* The tables and what is in use, without the calls.
MapStore ==
  /\ table \in [Map -> UNION {[D -> MapVal] : D \in SUBSET Key}]
  /\ malive \subseteq Map \cup Val /\ mroot \subseteq malive \cap Map /\ bbs \subseteq malive \cap Map
  /\ TablesInUse
MapsHeld == mheld \in [Thread -> Seq(Locks(Map))] /\ Exclusive(mheld)
MapLocksOnly(t) ==
  /\ mheld' \in [Thread -> Seq(Locks(Map))] /\ Exclusive(mheld')
  /\ \A u \in Thread : u # t => mheld'[u] = mheld[u]
MapCall == {Idle} \cup MakeCall \cup WorkCall \cup MapEqCall

\* What maps in use lead to is in use.
LEMMA NestedInUse ==
  ASSUME MapStore, NEW S, S \subseteq malive
  PROVE  WithValues(S) \subseteq malive
<1>1. Complete(malive)
  BY DEF MapStore, TablesInUse, Complete
<1>2. Nested(S) \subseteq malive
  BY <1>1, NestedWithin
<1>3. Held(Nested(S)) \subseteq Held(malive)
  BY <1>2 DEF Held
<1> QED
  BY <1>2, <1>3 DEF WithValues, MapStore, TablesInUse

\* The blocks a call knows, and what of it has to be in use.
KnownBy(c) ==
  {x \in MapVal :
     \/ c.op = "make" /\ x = c.m
     \/ c.op \in Writing \cup {"get", "print"} /\ x \in {c.m, c.v}
     \/ c.op = "eq" /\ \E n \in DOMAIN c.frames : x \in {c.frames[n].e0, c.frames[n].e1}}
CallInUse(c, alive, base) ==
  /\ KnownBy(c) \subseteq alive
  /\ c \in MakeCall => c.m \in base
  /\ c \in WorkCall /\ c.op = "insert" => c.k \in Key /\ c.v \in MapVal

\* A call of one kind is of no other.
LEMMA MapKindsApart ==
  ASSUME NEW c
  PROVE  /\ c = Idle => c \notin MakeCall /\ c \notin WorkCall /\ c \notin MapEqCall
         /\ c \in MakeCall => c # Idle /\ c \notin WorkCall /\ c \notin MapEqCall
         /\ c \in WorkCall => c # Idle /\ c \notin MakeCall /\ c \notin MapEqCall
         /\ c \in MapEqCall => c # Idle /\ c \notin MakeCall /\ c \notin WorkCall
<1>1. c = Idle => c.op = "none"
  BY DEF Idle
<1>2. c \in MakeCall => c.op = "make"
  BY DEF MakeCall
<1>3. c \in WorkCall => c.op \in {"insert", "delete", "get", "print"}
  BY DEF WorkCall, Writing
<1>4. c \in MapEqCall => c.op = "eq"
  BY DEF MapEqCall
<1> QED
  BY <1>1, <1>2, <1>3, <1>4

\* What a call of each kind knows.
LEMMA KnownIs ==
  ASSUME NEW c
  PROVE  /\ c = Idle => KnownBy(c) = {}
         /\ c \in MakeCall => KnownBy(c) = {c.m} /\ c.m \in Map
         /\ c \in WorkCall => KnownBy(c) = {c.m, c.v} \cap MapVal /\ c.m \in Map
         /\ c \in MapEqCall => \A x : x \in KnownBy(c) <=>
              \E n \in 1..Len(c.frames) : x \in {c.frames[n].e0, c.frames[n].e1}
<1>1. c = Idle => KnownBy(c) = {}
  BY DEF Idle, KnownBy, Writing
<1>2. ASSUME c \in MakeCall PROVE KnownBy(c) = {c.m} /\ c.m \in Map
  <2>1. c.op = "make" /\ c.m \in Map
    BY <1>2 DEF MakeCall
  <2> QED
    BY <2>1 DEF KnownBy, Writing, MapVal
<1>3. ASSUME c \in WorkCall PROVE KnownBy(c) = {c.m, c.v} \cap MapVal /\ c.m \in Map
  <2>1. c.op \in {"insert", "delete", "get", "print"} /\ c.m \in Map
    BY <1>3 DEF WorkCall, Writing
  <2> QED
    BY <2>1 DEF KnownBy, Writing, MapVal
<1>4. ASSUME c \in MapEqCall
      PROVE  \A x : x \in KnownBy(c) <=>
               \E n \in 1..Len(c.frames) : x \in {c.frames[n].e0, c.frames[n].e1}
  <2>1. c.op = "eq" /\ c.frames \in Seq(FrameOfMaps)
    BY <1>4 DEF MapEqCall
  <2>2. DOMAIN c.frames = 1..Len(c.frames)
    BY <2>1, LenProperties
  <2>3. \A n \in 1..Len(c.frames) : c.frames[n].e0 \in Map /\ c.frames[n].e1 \in Map
    <3>1. \A n \in 1..Len(c.frames) : c.frames[n] \in FrameOfMaps
      BY <2>1
    <3> QED
      BY <3>1 DEF FrameOfMaps
  <2> QED
    BY <2>1, <2>2, <2>3 DEF KnownBy, Writing, MapVal
<1> QED
  BY <1>1, <1>2, <1>3, <1>4

\* The kind of a call is what its operation says.
LEMMA MapKinds ==
  ASSUME MapsInv, NEW t \in Thread
  PROVE  /\ mcall[t] \in MapCall /\ MapStore /\ MapsHeld
         /\ mcall[t].op = "none" <=> mcall[t] = Idle
         /\ mcall[t].op = "make" <=> mcall[t] \in MakeCall
         /\ Works(t) <=> mcall[t] \in WorkCall
         /\ Compares(t) <=> mcall[t] \in MapEqCall
         /\ HoldsMapLocks(t) /\ CallInUse(mcall[t], malive, bbs)
<1>1. mcall[t] \in MapCall /\ MapStore /\ MapsHeld /\ HoldsMapLocks(t) /\ UsesInUse(t)
  BY DEF MapsInv, MapTypes, MapCall, MapStore, MapVal, MapsHeld, Locks, Modes
<1>2. Idle.op = "none"
  BY DEF Idle
<1>3. \A c \in MakeCall : c.op = "make"
  BY DEF MakeCall
<1>4. \A c \in WorkCall : c.op \in {"insert", "delete", "get", "print"}
  BY DEF WorkCall, Writing
<1>5. \A c \in MapEqCall : c.op = "eq"
  BY DEF MapEqCall
<1>6. /\ Works(t) <=> mcall[t].op \in {"insert", "delete", "get", "print"}
      /\ Compares(t) <=> mcall[t].op = "eq"
  BY DEF Works, Writing, Compares
<1>7. KnownBy(mcall[t]) = KnowsOf(t)
  BY DEF KnownBy, KnowsOf, Works, Compares, MapVal
<1>8. CallInUse(mcall[t], malive, bbs)
  BY <1>1, <1>7 DEF CallInUse, UsesInUse, MapVal
<1> QED
  BY <1>1, <1>2, <1>3, <1>4, <1>5, <1>6, <1>8 DEF MapCall

\* Where a comparison walks no key goes away.
WalkedStay(u) ==
  mcall[u] \in MapEqCall =>
    \A n \in 1..Len(mcall[u].frames) :
      mcall[u].frames[n].st = "walk" =>
        /\ DOMAIN table[mcall[u].frames[n].e0] \subseteq DOMAIN table'[mcall[u].frames[n].e0]
        /\ DOMAIN table[mcall[u].frames[n].e1] \subseteq DOMAIN table'[mcall[u].frames[n].e1]
KeysStay == \A m \in Map : DOMAIN table[m] \subseteq DOMAIN table'[m]

\* It does not if no map loses one.
LEMMA AllWalkedStay ==
  ASSUME KeysStay, NEW u \in Thread
  PROVE  WalkedStay(u)
<1> SUFFICES ASSUME mcall[u] \in MapEqCall, NEW n \in 1..Len(mcall[u].frames)
             PROVE  mcall[u].frames[n].e0 \in Map /\ mcall[u].frames[n].e1 \in Map
  BY DEF KeysStay, WalkedStay
<1>1. mcall[u].frames \in Seq(FrameOfMaps)
  BY DEF MapEqCall
<1>2. mcall[u].frames[n] \in FrameOfMaps
  BY <1>1
<1> QED
  BY <1>2 DEF FrameOfMaps

\* A step of one thread that takes nothing out of use.
LEMMA MapStep ==
  ASSUME MapsInv, NEW t \in Thread, NEW c \in MapCall,
         mcall' = [mcall EXCEPT ![t] = c], MapLocksOnly(t), MapStore', malive \subseteq malive',
         \A u \in Thread : u # t => WalkedStay(u),
         HoldsMapLocks(t)', CallInUse(c, malive', bbs'),
         \A u \in Thread : u # t /\ mcall[u] \in MakeCall =>
           mcall[u].m \in bbs' /\ (c \in MakeCall => mcall[u].m # c.m)
  PROVE  MapsInv'
<1>1. /\ mcall' \in [Thread -> MapCall] /\ mcall'[t] = c
      /\ \A u \in Thread : u # t => mcall'[u] = mcall[u]
  BY DEF MapsInv, MapTypes, MapCall
<1>2. MapTypes'
  BY <1>1 DEF MapTypes, MapStore, MapVal, MapLocksOnly, MapCall, Locks, Modes
<1>3. TablesInUse' /\ Exclusive(mheld)'
  BY DEF MapStore, MapLocksOnly
<1>4. ASSUME NEW u \in Thread PROVE HoldsMapLocks(u)' /\ UsesInUse(u)'
  <2>0. KnowsOf(u)' = KnownBy(mcall'[u])
    BY DEF KnownBy, KnowsOf, Works, Compares, MapVal
  <2>1. CASE u = t
    BY <1>1, <2>0, <2>1 DEF UsesInUse, CallInUse, MapVal
  <2>2. CASE u # t
    <3>1. mcall'[u] = mcall[u] /\ mheld'[u] = mheld[u] /\ WalkedStay(u)
      BY <1>1, <2>2 DEF MapLocksOnly
    <3>2. HoldsMapLocks(u) /\ CallInUse(mcall[u], malive, bbs)
      BY MapKinds
    <3>3. HoldsMapLocks(u)'
      <4>1. CASE mcall[u] \in MapEqCall
        <5>1. ComparingHolds(mcall[u].frames, mheld[u])
          BY <3>2, <4>1 DEF HoldsMapLocks
        <5>2. ComparingHolds(mcall[u].frames, mheld[u])'
          BY <3>1, <4>1, <5>1 DEF ComparingHolds, WalkedStay
        <5> QED
          BY <3>1, <3>2, <4>1, <5>2, MapKindsApart DEF HoldsMapLocks
      <4>2. CASE mcall[u] \notin MapEqCall
        BY <3>1, <3>2, <4>2 DEF HoldsMapLocks
      <4> QED
        BY <4>1, <4>2
    <3>4. UsesInUse(u)'
      BY <2>0, <2>2, <3>1, <3>2 DEF UsesInUse, CallInUse, MapVal
    <3> QED
      BY <3>3, <3>4
  <2> QED
    BY <2>1, <2>2
<1>5. OneMaker'
  <2> SUFFICES ASSUME NEW u \in Thread, NEW v \in Thread, mcall'[u] \in MakeCall,
                      mcall'[v] \in MakeCall, mcall'[u].m = mcall'[v].m
               PROVE  u = v
    BY DEF OneMaker
  <2>1. CASE u # t /\ v # t
    BY <1>1, <2>1 DEF MapsInv, OneMaker
  <2>2. CASE u = t /\ v # t
    BY <1>1, <2>2
  <2>3. CASE u # t /\ v = t
    BY <1>1, <2>3
  <2> QED
    BY <2>1, <2>2, <2>3
<1> QED
  BY <1>2, <1>3, <1>4, <1>5 DEF MapsInv

\* The same for a step that changes no table and nothing in use.
LEMMA MapCallStep ==
  ASSUME MapsInv, NEW t \in Thread, NEW c \in {Idle} \cup WorkCall \cup MapEqCall,
         mcall' = [mcall EXCEPT ![t] = c], MapLocksOnly(t), UNCHANGED <<table, malive, mroot, bbs>>,
         HoldsMapLocks(t)', CallInUse(c, malive, bbs)
  PROVE  MapsInv'
<1>1. MapStore
  BY MapKinds
<1>2. MapStore'
  <2>1. TablesInUse' = TablesInUse
    BY DEF TablesInUse, Held, ValuesOf
  <2> QED
    BY <1>1, <2>1 DEF MapStore
<1>3. \A u \in Thread : mcall[u] \in MakeCall => mcall[u].m \in bbs
  BY MapKinds DEF CallInUse
<1>4. c \in MapCall /\ c \notin MakeCall
  BY MapKindsApart DEF MapCall
<1>5. \A u \in Thread : WalkedStay(u)
  BY AllWalkedStay DEF KeysStay
<1> QED
  BY <1>2, <1>3, <1>4, <1>5, MapStep

\* A thread locks a map, ...
LEMMA MapLocked ==
  ASSUME MapsHeld, NEW t \in Thread, NEW a \in Map, NEW m \in Modes,
         MayLock(mheld, a, m), mheld' = WithLock(mheld, t, a, m)
  PROVE  /\ MapLocksOnly(t) /\ mheld[t] \in Seq(Locks(Map)) /\ mheld'[t] \in Seq(Locks(Map))
         /\ Len(mheld'[t]) = Len(mheld[t]) + 1
         /\ \A i \in 1..Len(mheld[t]) : mheld'[t][i] = mheld[t][i]
         /\ mheld'[t][Len(mheld[t]) + 1] = Locked(a, m)
<1> DEFINE g == WithLock(mheld, t, a, m)
           l == [c |-> a, mode |-> m]
<1>1. mheld \in [Thread -> Seq(Locks(Map))] /\ Exclusive(mheld)
  BY DEF MapsHeld
<1>2. /\ g \in [Thread -> Seq(Locks(Map))]
      /\ \A u \in Thread : u # t => g[u] = mheld[u]
      /\ Len(g[t]) = Len(mheld[t]) + 1
      /\ \A i \in 1..Len(mheld[t]) : g[t][i] = mheld[t][i]
      /\ g[t][Len(mheld[t]) + 1] = l
      /\ Exclusive(g)
  BY <1>1, LockTaken
<1>3. mheld' = g /\ l = Locked(a, m)
  BY DEF Locked
<1> HIDE DEF g, l
<1>4. MapLocksOnly(t)
  BY <1>2, <1>3 DEF MapLocksOnly
<1> QED
  BY <1>1, <1>2, <1>3, <1>4

\* ... or unlocks the one it has locked last.
LEMMA MapUnlocked ==
  ASSUME MapsHeld, NEW t \in Thread, Len(mheld[t]) > 0, mheld' = WithoutLast(mheld, t)
  PROVE  /\ MapLocksOnly(t) /\ mheld[t] \in Seq(Locks(Map)) /\ mheld'[t] \in Seq(Locks(Map))
         /\ Len(mheld'[t]) = Len(mheld[t]) - 1
         /\ \A i \in 1..Len(mheld[t]) - 1 : mheld'[t][i] = mheld[t][i]
<1> DEFINE g == WithoutLast(mheld, t)
<1>1. mheld \in [Thread -> Seq(Locks(Map))] /\ Exclusive(mheld)
  BY DEF MapsHeld
<1>2. /\ g \in [Thread -> Seq(Locks(Map))]
      /\ \A u \in Thread : u # t => g[u] = mheld[u]
      /\ Len(g[t]) = Len(mheld[t]) - 1
      /\ \A i \in 1..Len(mheld[t]) - 1 : g[t][i] = mheld[t][i]
      /\ Exclusive(g)
  BY <1>1, LockGivenBack
<1>3. mheld' = g
  OBVIOUS
<1> HIDE DEF g
<1>4. MapLocksOnly(t)
  BY <1>2, <1>3 DEF MapLocksOnly
<1> QED
  BY <1>1, <1>2, <1>3, <1>4

\* What a map holds is in use when the map is, and a map that is not in use is empty.
LEMMA MapTable ==
  ASSUME MapStore, NEW m \in Map
  PROVE  \E D \in SUBSET Key :
           /\ table[m] \in [D -> MapVal] /\ DOMAIN table[m] = D
           /\ m \in malive => \A k \in D : table[m][k] \in malive
           /\ m \notin malive => D = {}
<1>1. PICK D \in SUBSET Key : table[m] \in [D -> MapVal]
  BY DEF MapStore
<1>2. m \in malive => ValuesOf(m) \subseteq malive
  BY DEF MapStore, TablesInUse, Held
<1>3. DOMAIN table[m] = D
  BY <1>1
<1>4. m \in malive => \A k \in D : table[m][k] \in malive
  BY <1>2, <1>3 DEF ValuesOf
<1>5. m \notin malive => D = {}
  BY <1>3 DEF MapStore, TablesInUse, Nothing
<1> QED
  BY <1>1, <1>3, <1>4, <1>5

\* Whatever the tables become, it is enough that they hold only what is in use.
LEMMA TablesAre ==
  ASSUME \A m \in malive' \cap Map : \A k \in DOMAIN table'[m] : table'[m][k] \in malive',
         \A m \in Map \ malive' : table'[m] = Nothing
  PROVE  TablesInUse'
BY DEF TablesInUse, Held, ValuesOf

\* More blocks come into use, and no table changes.
LEMMA MoreInUse ==
  ASSUME MapStore, NEW V \in SUBSET MapVal, table' = table, malive' = malive \cup V,
         mroot' \subseteq malive' \cap Map, bbs' \subseteq malive' \cap Map
  PROVE  MapStore' /\ KeysStay /\ malive \subseteq malive'
<1>1. \A m \in malive' \cap Map : \A k \in DOMAIN table[m] : table[m][k] \in malive'
  BY MapTable
<1>2. \A m \in Map \ malive' : table[m] = Nothing
  BY DEF MapStore, TablesInUse
<1>3. TablesInUse'
  BY <1>1, <1>2, TablesAre
<1> QED
  BY <1>3 DEF MapStore, KeysStay, MapVal

\* An insertion, where it happens, puts one value into one table.
LEMMA InsertedIs ==
  ASSUME MapStore, NEW m \in Map, m \in malive, NEW k \in Key, NEW v \in MapVal,
         table' = [table EXCEPT ![m] = Inserted(m, k, v)], malive' = malive \cup {v},
         mroot' = mroot, bbs' = bbs
  PROVE  MapStore' /\ KeysStay
<1>1. PICK D \in SUBSET Key :
        /\ table[m] \in [D -> MapVal] /\ DOMAIN table[m] = D
        /\ \A x \in D : table[m][x] \in malive
  BY MapTable
<1>2. /\ Inserted(m, k, v) \in UNION {[E -> MapVal] : E \in SUBSET Key}
      /\ D \subseteq DOMAIN Inserted(m, k, v)
      /\ \A x \in DOMAIN Inserted(m, k, v) :
           Inserted(m, k, v)[x] = v \/ (x \in D /\ Inserted(m, k, v)[x] = table[m][x])
  <2>1. CASE Takes(m, k)
    <3>1. PICK E \in SUBSET Key : E = D \cup {k}
      OBVIOUS
    <3>2. Inserted(m, k, v) = [x \in E |-> IF x = k THEN v ELSE table[m][x]]
      BY <1>1, <2>1, <3>1 DEF Inserted
    <3>3. Inserted(m, k, v) \in [E -> MapVal]
      BY <1>1, <3>1, <3>2
    <3> QED
      BY <3>1, <3>2, <3>3
  <2>2. CASE ~Takes(m, k)
    BY <1>1, <2>2 DEF Inserted
  <2> QED
    BY <2>1, <2>2
<1> DEFINE new == Inserted(m, k, v)
<1>3. table' = [table EXCEPT ![m] = new]
  OBVIOUS
<1> HIDE DEF new
<1>4. /\ table' \in [Map -> UNION {[E -> MapVal] : E \in SUBSET Key}]
      /\ table'[m] = new /\ \A n \in Map : n # m => table'[n] = table[n]
  BY <1>2, <1>3 DEF MapStore, new
<1>5. TablesInUse'
  <2>1. ASSUME NEW n \in malive' \cap Map, NEW x \in DOMAIN table'[n] PROVE table'[n][x] \in malive'
    <3>1. CASE n # m
      BY <1>4, <2>1, <3>1, MapTable
    <3>2. CASE n = m
      BY <1>1, <1>2, <1>4, <2>1, <3>2 DEF new
    <3> QED
      BY <3>1, <3>2
  <2>2. \A n \in Map \ malive' : table'[n] = Nothing
    BY <1>4 DEF MapStore, TablesInUse
  <2> QED
    BY <2>1, <2>2, TablesAre
<1>6. KeysStay
  BY <1>1, <1>2, <1>4 DEF KeysStay, new
<1> QED
  BY <1>4, <1>5, <1>6 DEF MapStore, MapVal

\* Before the first call nothing is in a map or locked.
LEMMA MapsStart ==
  ASSUME MapsAssumption, MapsInit
  PROVE  MapsInv
<1>1. \A t \in Thread : mheld[t] = <<>> /\ mcall[t] = Idle
  BY DEF MapsInit
<1>2. Idle \notin MakeCall /\ Idle \notin WorkCall /\ Idle \notin MapEqCall
  BY MapKindsApart
<1>3. Nothing \in [{} -> Val \cup Map] /\ {} \in SUBSET Key /\ DOMAIN Nothing = {}
  BY DEF Nothing
<1>4. MapTypes
  <2>1. table \in [Map -> UNION {[D -> Val \cup Map] : D \in SUBSET Key}]
    BY <1>3 DEF MapsInit
  <2>2. /\ mheld \in [Thread -> Seq([c : Map, mode : {"rd", "wr"}])]
        /\ mcall \in [Thread -> {Idle} \cup MakeCall \cup WorkCall \cup MapEqCall]
    BY DEF MapsInit
  <2>3. malive \subseteq Map /\ mroot = malive /\ bbs = {}
    BY DEF MapsInit
  <2> QED
    BY <2>1, <2>2, <2>3 DEF MapTypes
<1>5. TablesInUse
  BY <1>3 DEF MapsInit, TablesInUse, Held, ValuesOf
<1>6. ASSUME NEW t \in Thread PROVE HoldsMapLocks(t) /\ UsesInUse(t)
  <2>1. KnowsOf(t) = {}
    BY <1>1 DEF KnowsOf, Works, Compares, Idle, Writing
  <2> QED
    BY <1>1, <1>2, <2>1 DEF HoldsMapLocks, UsesInUse
<1>7. Exclusive(mheld) /\ OneMaker
  BY <1>1, <1>2 DEF MapsInit, Exclusive, OneMaker
<1> QED
  BY <1>4, <1>5, <1>6, <1>7 DEF MapsInv

\* Who makes a map makes one in use, and no other thread makes the same.
LEMMA MakersApart ==
  ASSUME MapsInv, NEW u \in Thread, mcall[u] \in MakeCall
  PROVE  /\ mcall[u].m \in bbs /\ mcall[u].m \in malive /\ mcall[u].m \in Map
         /\ \A t \in Thread : t # u /\ mcall[t] \in MakeCall => mcall[t].m # mcall[u].m
<1>1. mcall[u].m \in bbs
  BY MapKinds DEF CallInUse
<1>2. bbs \subseteq malive \cap Map
  BY DEF MapsInv, MapTypes
<1> QED
  BY <1>1, <1>2 DEF MapsInv, OneMaker

\* A new map is empty and protected, and nobody else makes it.
LEMMA MakeMapKeeps ==
  ASSUME MapsAssumption, MapsInv, NEW t \in Thread, NEW m \in Map, NEW n \in 0..MaxPairs,
         NEW keys \in [1..n -> Key], Make(t, m, keys)
  PROVE  MapsInv'
<1>1. mcall[t] = Idle /\ MapStore /\ MapsHeld /\ HoldsMapLocks(t)
  BY MapKinds DEF Make
<1> DEFINE c == [op |-> "make", m |-> m, keys |-> keys]
<1>2. n \in Nat
  BY DEF MapsAssumption
<1>3. keys \in Seq(Key)
  BY <1>2
<1>4. c \in MakeCall /\ c.m = m
  BY <1>3 DEF MakeCall
<1>5. /\ mcall' = [mcall EXCEPT ![t] = c] /\ m \notin malive
      /\ table' = [table EXCEPT ![m] = Nothing] /\ malive' = malive \cup {m}
      /\ bbs' = bbs \cup {m} /\ mroot' = mroot /\ mheld' = mheld
  BY DEF Make, MakeBlock
<1> HIDE DEF c
<1>6. mcall'[t] = c
  BY <1>5 DEF MapsInv, MapTypes
<1>7. table' = table
  BY <1>1, <1>5 DEF MapStore, TablesInUse
<1>8. MapStore' /\ KeysStay /\ malive \subseteq malive'
  <2>1. {m} \in SUBSET MapVal
    BY DEF MapVal
  <2>2. mroot' \subseteq malive' \cap Map /\ bbs' \subseteq malive' \cap Map
    BY <1>1, <1>5 DEF MapStore
  <2> QED
    BY <1>1, <1>5, <1>7, <2>1, <2>2, MoreInUse
<1>9. MapLocksOnly(t)
  BY <1>1, <1>5 DEF MapLocksOnly, MapsHeld
<1>10. HoldsMapLocks(t)'
  <2>1. mheld'[t] = <<>>
    BY <1>1, <1>5 DEF HoldsMapLocks
  <2> QED
    BY <1>4, <1>6, <2>1, MapKindsApart DEF HoldsMapLocks
<1>11. CallInUse(c, malive', bbs')
  BY <1>4, <1>5, KnownIs, MapKindsApart DEF CallInUse
<1>12. \A u \in Thread : u # t /\ mcall[u] \in MakeCall =>
         mcall[u].m \in bbs' /\ (c \in MakeCall => mcall[u].m # c.m)
  BY <1>4, <1>5, MakersApart
<1>13. c \in MapCall /\ \A u \in Thread : WalkedStay(u)
  BY <1>4, <1>8, AllWalkedStay DEF MapCall
<1> QED
  BY <1>5, <1>8, <1>9, <1>10, <1>11, <1>12, <1>13, MapStep

\* A value that has been evaluated goes into the map, which is still protected.
LEMMA MakePairKeeps ==
  ASSUME MapsAssumption, MapsInv, NEW t \in Thread, NEW v \in MapVal, MakePair(t, v)
  PROVE  MapsInv'
<1> DEFINE c == mcall[t]
           d == [c EXCEPT !.keys = Tail(@)]
<1>1. c \in MakeCall /\ MapStore /\ MapsHeld /\ HoldsMapLocks(t) /\ c.keys # <<>>
  BY MapKinds DEF MakePair
<1>2. c.m \in Map /\ c.keys \in Seq(Key) /\ c.m \in malive /\ c.m \in bbs
  BY <1>1, MakersApart DEF MakeCall
<1>3. Head(c.keys) \in Key /\ Tail(c.keys) \in Seq(Key)
  BY <1>1, <1>2, HeadTailProperties
<1>4. d \in MakeCall /\ d.m = c.m
  BY <1>1, <1>3 DEF MakeCall
<1>5. /\ mcall' = [mcall EXCEPT ![t] = d]
      /\ table' = [table EXCEPT ![c.m] = Inserted(c.m, Head(c.keys), v)]
      /\ malive' = malive \cup {v} /\ mroot' = mroot /\ bbs' = bbs /\ mheld' = mheld
  BY DEF MakePair
<1>6. \A u \in Thread : u # t /\ mcall[u] \in MakeCall => mcall[u].m # c.m
  BY <1>1, MakersApart
<1>7. PICK m \in Map : m = c.m
  BY <1>2
<1>8. PICK k \in Key : k = Head(c.keys)
  BY <1>3
<1>9. mheld[t] = <<>>
  BY <1>1 DEF HoldsMapLocks
<1> HIDE DEF c, d
<1>10. MapStore' /\ KeysStay
  BY <1>1, <1>2, <1>5, <1>7, <1>8, InsertedIs
<1>11. mcall'[t] = d
  BY <1>5 DEF MapsInv, MapTypes
<1>12. MapLocksOnly(t)
  BY <1>1, <1>5 DEF MapLocksOnly, MapsHeld
<1>13. HoldsMapLocks(t)'
  BY <1>4, <1>5, <1>9, <1>11, MapKindsApart DEF HoldsMapLocks
<1>14. CallInUse(d, malive', bbs')
  BY <1>2, <1>4, <1>5, KnownIs, MapKindsApart DEF CallInUse
<1>15. \A u \in Thread : u # t /\ mcall[u] \in MakeCall =>
         mcall[u].m \in bbs' /\ (d \in MakeCall => mcall[u].m # d.m)
  BY <1>4, <1>5, <1>6, MakersApart
<1>16. d \in MapCall /\ malive \subseteq malive' /\ \A u \in Thread : WalkedStay(u)
  BY <1>4, <1>5, <1>10, AllWalkedStay DEF MapCall
<1> QED
  BY <1>5, <1>10, <1>12, <1>13, <1>14, <1>15, <1>16, MapStep

\* The making ends, well or not: the base block of the map, and only that, is gone.
LEMMA MakeEndKeeps ==
  ASSUME MapsAssumption, MapsInv, NEW t \in Thread, MakeFails(t) \/ Made(t)
  PROVE  MapsInv'
<1> DEFINE c == mcall[t]
<1>1. c \in MakeCall /\ MapStore /\ MapsHeld /\ HoldsMapLocks(t)
  BY MapKinds DEF MakeFails, Made
<1>2. c.m \in Map /\ c.m \in malive
  BY <1>1, MakersApart
<1>3. /\ mcall' = [mcall EXCEPT ![t] = Idle] /\ bbs' = bbs \ {c.m} /\ mheld' = mheld
      /\ table' = table /\ malive' = malive /\ mroot' \subseteq mroot \cup {c.m}
  BY DEF MakeFails, Made
<1>4. \A u \in Thread : u # t /\ mcall[u] \in MakeCall => mcall[u].m # c.m
  BY <1>1, MakersApart
<1>5. mheld[t] = <<>>
  BY <1>1 DEF HoldsMapLocks
<1> HIDE DEF c
<1>6. MapStore' /\ KeysStay
  <2>1. malive' = malive \cup {} /\ {} \in SUBSET MapVal
    BY <1>3
  <2>2. mroot' \subseteq malive' \cap Map /\ bbs' \subseteq malive' \cap Map
    BY <1>1, <1>2, <1>3 DEF MapStore
  <2> QED
    BY <1>1, <1>3, <2>1, <2>2, MoreInUse
<1>7. mcall'[t] = Idle
  BY <1>3 DEF MapsInv, MapTypes
<1>8. MapLocksOnly(t) /\ HoldsMapLocks(t)'
  BY <1>1, <1>3, <1>5, <1>7, MapKindsApart DEF MapLocksOnly, MapsHeld, HoldsMapLocks
<1>9. CallInUse(Idle, malive', bbs') /\ Idle \notin MakeCall
  BY KnownIs, MapKindsApart DEF CallInUse
<1>10. \A u \in Thread : u # t /\ mcall[u] \in MakeCall =>
         mcall[u].m \in bbs' /\ (Idle \in MakeCall => mcall[u].m # Idle.m)
  BY <1>3, <1>4, <1>9, MakersApart
<1>11. Idle \in MapCall /\ malive \subseteq malive' /\ \A u \in Thread : WalkedStay(u)
  BY <1>3, <1>6, AllWalkedStay DEF MapCall
<1> QED
  BY <1>3, <1>6, <1>8, <1>9, <1>10, <1>11, MapStep

\* The symbol of a map gets another value.
LEMMA UnbindMapKeeps ==
  ASSUME MapsAssumption, MapsInv, NEW t \in Thread, NEW m \in Map, UnbindMap(t, m)
  PROVE  MapsInv'
<1>1. /\ mcall' = mcall /\ mheld' = mheld /\ table' = table /\ malive' = malive /\ bbs' = bbs
      /\ mroot' \subseteq mroot
  BY DEF UnbindMap
<1>2. MapTypes' /\ OneMaker' /\ Exclusive(mheld)'
  BY <1>1 DEF MapsInv, MapTypes, OneMaker
<1>3. TablesInUse'
  BY <1>1 DEF MapsInv, TablesInUse, Held, ValuesOf
<1>4. \A u \in Thread : HoldsMapLocks(u)' /\ UsesInUse(u)'
  BY <1>1 DEF MapsInv, HoldsMapLocks, ComparingHolds, UsesInUse, KnowsOf, Works, Compares
<1> QED
  BY <1>2, <1>3, <1>4 DEF MapsInv

\* A call starts with a map that a program can reach, and a value that it has.
LEMMA StartKeeps ==
  ASSUME MapsAssumption, MapsInv, NEW t \in Thread, NEW op \in Writing \cup {"get", "print"},
         NEW m \in Nested(mroot), NEW k \in Key \cup {{}}, NEW v \in MapVal \cup {{}},
         Start(t, op, m, k, v), op = "insert" => k \in Key /\ v \in MapVal, op # "insert" => v = {}
  PROVE  MapsInv'
<1> DEFINE c == [op |-> op, m |-> m, k |-> k, v |-> v, r |-> "none", st |-> "lock"]
<1>1. mcall[t] = Idle /\ MapStore /\ MapsHeld /\ HoldsMapLocks(t)
  BY MapKinds DEF Start
<1>2. m \in Map /\ m \in malive
  <2>1. mroot \subseteq malive
    BY <1>1 DEF MapStore
  <2>2. WithValues(mroot) \subseteq malive /\ Nested(mroot) \subseteq Map
    BY <1>1, <2>1, NestedInUse, NestedIsComplete
  <2> QED
    BY <2>2 DEF WithValues
<1>3. /\ c \in WorkCall /\ c.m = m /\ c.v = v /\ c.k = k /\ c.op = op /\ c.st = "lock"
  BY <1>2 DEF WorkCall, MapVal
<1>4. /\ mcall' = [mcall EXCEPT ![t] = c] /\ bbs' = bbs /\ mheld' = mheld /\ mroot' = mroot
      /\ table' = table
      /\ malive' = malive \cup (IF op = "insert" THEN {v} ELSE {})
  BY DEF Start
<1> HIDE DEF c
<1>5. MapStore' /\ KeysStay /\ malive \subseteq malive'
  <2>1. (IF op = "insert" THEN {v} ELSE {}) \in SUBSET MapVal
    OBVIOUS
  <2>2. mroot' \subseteq malive' \cap Map /\ bbs' \subseteq malive' \cap Map
    BY <1>1, <1>4 DEF MapStore
  <2> QED
    BY <1>1, <1>4, <2>1, <2>2, MoreInUse
<1>6. mcall'[t] = c
  BY <1>4 DEF MapsInv, MapTypes
<1>7. MapLocksOnly(t)
  BY <1>1, <1>4 DEF MapLocksOnly, MapsHeld
<1>8. HoldsMapLocks(t)'
  <2>1. mheld'[t] = <<>>
    BY <1>1, <1>4 DEF HoldsMapLocks
  <2> QED
    BY <1>3, <1>6, <2>1, MapKindsApart DEF HoldsMapLocks
<1>9. CallInUse(c, malive', bbs')
  <2>1. {} \notin MapVal
    BY DEF MapsAssumption, MapVal
  <2>2. v \in MapVal => v \in malive'
    BY <1>4, <2>1
  <2> QED
    BY <1>2, <1>3, <1>5, <2>2, KnownIs, MapKindsApart DEF CallInUse
<1>10. \A u \in Thread : u # t /\ mcall[u] \in MakeCall =>
         mcall[u].m \in bbs' /\ (c \in MakeCall => mcall[u].m # c.m)
  BY <1>3, <1>4, MakersApart, MapKindsApart
<1>11. c \in MapCall /\ \A u \in Thread : WalkedStay(u)
  BY <1>3, <1>5, AllWalkedStay DEF MapCall
<1> QED
  BY <1>4, <1>5, <1>7, <1>8, <1>9, <1>10, <1>11, MapStep

\* What a call that works on a map knows.
LEMMA InWork ==
  ASSUME MapsInv, NEW t \in Thread, Works(t)
  PROVE  /\ mcall[t] \in WorkCall /\ MapStore /\ MapsHeld
         /\ mcall[t].m \in Map /\ mcall[t].m \in malive
         /\ CallInUse(mcall[t], malive, bbs)
         /\ mcall[t].v \in MapVal => mcall[t].v \in malive
         /\ mcall[t].op = "insert" => mcall[t].k \in Key /\ mcall[t].v \in MapVal
         /\ mcall[t].st \in {"lock", "return"} => mheld[t] = <<>>
         /\ mcall[t].st \in {"in", "out"} => mheld[t] = <<Locked(mcall[t].m, Mode(mcall[t].op))>>
<1>1. /\ mcall[t] \in WorkCall /\ MapStore /\ MapsHeld /\ HoldsMapLocks(t)
      /\ CallInUse(mcall[t], malive, bbs)
  BY MapKinds
<1>2. mcall[t].m \in Map /\ KnownBy(mcall[t]) = {mcall[t].m, mcall[t].v} \cap MapVal
  BY <1>1, KnownIs
<1>3. {mcall[t].m, mcall[t].v} \cap MapVal \subseteq malive /\ mcall[t].m \in MapVal
  BY <1>1, <1>2 DEF CallInUse, MapVal
<1> QED
  BY <1>1, <1>2, <1>3 DEF CallInUse, HoldsMapLocks

\* The call goes on with another step, and knows the same.
LEMMA WorkGoesOn ==
  ASSUME MapsInv, NEW t \in Thread, Works(t), NEW d \in WorkCall,
         d.op = mcall[t].op, d.m = mcall[t].m, d.k = mcall[t].k, d.v = mcall[t].v
  PROVE  CallInUse(d, malive, bbs)
<1>1. mcall[t] \in WorkCall /\ CallInUse(mcall[t], malive, bbs)
  BY InWork
<1>2. KnownBy(d) = KnownBy(mcall[t])
  <2>1. KnownBy(d) = {d.m, d.v} \cap MapVal
    BY KnownIs
  <2>2. KnownBy(mcall[t]) = {mcall[t].m, mcall[t].v} \cap MapVal
    BY <1>1, KnownIs
  <2> QED
    BY <2>1, <2>2
<1> QED
  BY <1>1, <1>2, MapKindsApart DEF CallInUse

\* A sequence of one or two locks.
LEMMA OneLock ==
  ASSUME NEW O, NEW h \in Seq(Locks(O)), NEW l \in Locks(O), Len(h) = 1, h[1] = l
  PROVE  h = <<l>>
<1>1. <<l>> \in Seq(Locks(O)) /\ Len(<<l>>) = 1 /\ <<l>>[1] = l
  OBVIOUS
<1>2. \A i \in 1..Len(h) : h[i] = <<l>>[i]
  OBVIOUS
<1> QED
  BY <1>1, <1>2, SameItems

\* Every call that works locks.
LEMMA LockMapKeeps ==
  ASSUME MapsAssumption, MapsInv, NEW t \in Thread, Lock(t)
  PROVE  MapsInv'
<1> DEFINE c == mcall[t]
           d == [c EXCEPT !.st = "in"]
<1>1. /\ Works(t) /\ c.st = "lock" /\ mcall' = [mcall EXCEPT ![t] = d]
      /\ UNCHANGED <<table, malive, mroot, bbs>>
  BY DEF Lock
<1>2. c \in WorkCall /\ MapsHeld /\ c.m \in Map /\ mheld[t] = <<>>
  BY <1>1, InWork
<1>3. c.op \in Locking /\ Mode(c.op) \in Modes
  BY <1>2 DEF WorkCall, Locking, Writing, Mode, Modes
<1>4. MayLock(mheld, c.m, Mode(c.op)) /\ mheld' = WithLock(mheld, t, c.m, Mode(c.op))
  BY <1>3 DEF Lock
<1>5. /\ d \in WorkCall /\ d.m = c.m /\ d.k = c.k /\ d.v = c.v /\ d.op = c.op /\ d.st = "in"
  BY <1>2 DEF WorkCall
<1>6. CallInUse(d, malive, bbs)
  BY <1>1, <1>5, WorkGoesOn
<1> HIDE DEF c, d
<1>7. /\ MapLocksOnly(t) /\ mheld'[t] \in Seq(Locks(Map)) /\ Len(mheld'[t]) = Len(mheld[t]) + 1
      /\ mheld'[t][Len(mheld[t]) + 1] = Locked(c.m, Mode(c.op))
  BY <1>2, <1>3, <1>4, MapLocked
<1>8. mheld'[t] = <<Locked(c.m, Mode(c.op))>>
  <2>1. Len(mheld[t]) = 0 /\ Locked(c.m, Mode(c.op)) \in Locks(Map)
    BY <1>2, <1>3 DEF Locked, Locks
  <2> QED
    BY <1>7, <2>1, OneLock
<1>9. mcall'[t] = d
  BY <1>1 DEF MapsInv, MapTypes
<1>10. HoldsMapLocks(t)'
  BY <1>5, <1>8, <1>9, MapKindsApart DEF HoldsMapLocks
<1> QED
  BY <1>1, <1>5, <1>6, <1>7, <1>10, MapCallStep

\* What a comparison of maps knows, in all its recursions.
LEMMA InComparing ==
  ASSUME MapsInv, NEW t \in Thread, Compares(t)
  PROVE  /\ mcall[t] \in MapEqCall /\ MapStore /\ MapsHeld /\ mheld[t] \in Seq(Locks(Map))
         /\ mcall[t].frames \in Seq(FrameOfMaps) \ {<<>>} /\ Len(mcall[t].frames) \in Nat \ {0}
         /\ mcall[t] = [op |-> "eq", frames |-> mcall[t].frames]
         /\ ComparingHolds(mcall[t].frames, mheld[t])
         /\ \A n \in 1..Len(mcall[t].frames) :
              /\ mcall[t].frames[n] \in FrameOfMaps
              /\ {mcall[t].frames[n].e0, mcall[t].frames[n].e1} \subseteq malive
         /\ Inmost(t) = mcall[t].frames[Len(mcall[t].frames)] /\ Inmost(t) \in FrameOfMaps
<1> DEFINE F == mcall[t].frames
<1>1. /\ mcall[t] \in MapEqCall /\ MapStore /\ MapsHeld /\ HoldsMapLocks(t)
      /\ CallInUse(mcall[t], malive, bbs)
  BY MapKinds
<1>2. F \in Seq(FrameOfMaps) \ {<<>>} /\ mcall[t] = [op |-> "eq", frames |-> F]
  BY <1>1 DEF MapEqCall
<1>3. Len(F) \in Nat \ {0} /\ \A n \in 1..Len(F) : F[n] \in FrameOfMaps
  BY <1>2, EmptySeq, LenProperties
<1>4. ComparingHolds(F, mheld[t]) /\ mheld[t] \in Seq(Locks(Map))
  BY <1>1 DEF HoldsMapLocks, MapsHeld
<1>5. \A n \in 1..Len(F) : {F[n].e0, F[n].e1} \subseteq malive
  BY <1>1, KnownIs DEF CallInUse
<1>6. Len(F) \in 1..Len(F)
  BY <1>3
<1>7. Inmost(t) = F[Len(F)] /\ Inmost(t) \in FrameOfMaps
  BY <1>3, <1>6 DEF Inmost
<1> QED
  BY <1>1, <1>2, <1>3, <1>4, <1>5, <1>7

\* What is being walked through is locked.
LEMMA WalkLocks ==
  ASSUME MapsInv, NEW t \in Thread, Compares(t), NEW k \in 1..Len(mcall[t].frames),
         mcall[t].frames[k].st = "walk"
  PROVE  /\ \E i \in DOMAIN mheld[t] : mheld[t][i] = Locked(mcall[t].frames[k].e0, "rd")
         /\ \E i \in DOMAIN mheld[t] : mheld[t][i] = Locked(mcall[t].frames[k].e1, "rd")
<1> DEFINE F == mcall[t].frames
           h == mheld[t]
<1>1. /\ Len(F) \in Nat \ {0} /\ ComparingHolds(F, h) /\ h \in Seq(Locks(Map))
      /\ \A n \in 1..Len(F) : F[n] \in FrameOfMaps
  BY InComparing
<1>2. F[k].st = "walk" /\ k \in 1..Len(F)
  OBVIOUS
<1> HIDE DEF F, h
<1>3. PICK n \in Nat \ {0} : n = Len(F)
  BY <1>1
<1>4. PICK m \in Nat : m = Len(h)
  BY <1>1
<1>5. m = 2 * (n - 1) + HeldIn(F[n].st)
  BY <1>1, <1>3, <1>4 DEF ComparingHolds
<1>6. 2 * k <= m
  <2>1. HeldIn("walk") = 2
    BY DEF HeldIn
  <2>2. CASE k = n
    BY <1>2, <1>3, <1>5, <2>1, <2>2
  <2>3. CASE k # n
    <3>1. k <= n - 1
      BY <1>2, <1>3, <2>3
    <3>2. F[n].st \in {"lock0", "lock1", "walk", "compared", "unlock0", "lost"}
      <4>1. n \in 1..Len(F)
        BY <1>3
      <4>2. F[n] \in FrameOfMaps
        BY <1>1, <4>1
      <4> QED
        BY <4>2 DEF FrameOfMaps
    <3>3. PICK x \in {0, 1, 2} : x = HeldIn(F[n].st)
      BY <3>2 DEF HeldIn
    <3> QED
      BY <1>2, <1>5, <3>1, <3>3
  <2> QED
    BY <2>2, <2>3
<1>7. 2 * k \in 1..m /\ 2 * k - 1 \in 1..m /\ 2 * k - 1 <= m
  BY <1>2, <1>3, <1>6
<1>8. h[2 * k - 1] = Locked(F[k].e0, "rd") /\ h[2 * k] = Locked(F[k].e1, "rd")
  BY <1>1, <1>2, <1>4, <1>6, <1>7 DEF ComparingHolds
<1>9. DOMAIN h = 1..m
  BY <1>1, <1>4, LenProperties
<1> QED
  BY <1>7, <1>8, <1>9 DEF F, h

\* Who changes a map is alone with it.
LEMMA WriterAlone ==
  ASSUME MapsInv, NEW t \in Thread, Works(t), mcall[t].op \in Writing, mcall[t].st = "in",
         NEW u \in Thread, u # t
  PROVE  ~LooksInto(u, mcall[t].m)
<1>1. PICK m \in Map : m = mcall[t].m
  BY InWork
<1>2. mheld[t] = <<Locked(m, "wr")>>
  BY <1>1, InWork DEF Mode
<1>3. 1 \in DOMAIN mheld[t] /\ mheld[t][1].c = m /\ mheld[t][1].mode = "wr"
  BY <1>2 DEF Locked
<1>4. \A k \in DOMAIN mheld[u] : mheld[u][k].c # m
  <2>1. Exclusive(mheld) /\ DOMAIN mheld = Thread
    BY DEF MapsInv, MapTypes
  <2> QED
    BY <1>3, <2>1 DEF Exclusive
<1>5. ASSUME Works(u), mcall[u].m = m, mcall[u].st = "in" PROVE FALSE
  <2>1. mheld[u] = <<Locked(m, Mode(mcall[u].op))>>
    BY <1>5, InWork
  <2>2. 1 \in DOMAIN mheld[u] /\ mheld[u][1].c = m
    BY <2>1 DEF Locked
  <2> QED
    BY <1>4, <2>2
<1>6. ASSUME Compares(u), NEW n \in 1..Len(mcall[u].frames), mcall[u].frames[n].st = "walk",
             m \in {mcall[u].frames[n].e0, mcall[u].frames[n].e1}
      PROVE  FALSE
  <2>1. PICK i \in DOMAIN mheld[u] : mheld[u][i] = Locked(m, "rd")
    BY <1>6, WalkLocks
  <2>2. mheld[u][i].c = m
    BY <2>1 DEF Locked
  <2> QED
    BY <1>4, <2>2
<1>7. Compares(u) => DOMAIN mcall[u].frames = 1..Len(mcall[u].frames)
  BY InComparing, LenProperties
<1> QED
  BY <1>1, <1>5, <1>6, <1>7 DEF LooksInto

\* So nothing changes under a comparison that walks.
LEMMA WalkedStayThen ==
  ASSUME MapsInv, NEW t \in Thread, Works(t), mcall[t].op \in Writing, mcall[t].st = "in",
         NEW new, table' = [table EXCEPT ![mcall[t].m] = new]
  PROVE  \A u \in Thread : u # t => WalkedStay(u)
<1> SUFFICES ASSUME NEW u \in Thread, u # t, mcall[u] \in MapEqCall,
                    NEW n \in 1..Len(mcall[u].frames), mcall[u].frames[n].st = "walk"
             PROVE  /\ table'[mcall[u].frames[n].e0] = table[mcall[u].frames[n].e0]
                    /\ table'[mcall[u].frames[n].e1] = table[mcall[u].frames[n].e1]
  BY DEF WalkedStay
<1>1. Compares(u) /\ ~LooksInto(u, mcall[t].m)
  BY MapKinds, WriterAlone
<1>2. DOMAIN mcall[u].frames = 1..Len(mcall[u].frames)
  BY <1>1, InComparing, LenProperties
<1>3. mcall[t].m # mcall[u].frames[n].e0 /\ mcall[t].m # mcall[u].frames[n].e1
  BY <1>1, <1>2 DEF LooksInto
<1>4. mcall[u].frames[n].e0 \in Map /\ mcall[u].frames[n].e1 \in Map
  BY <1>1, InComparing DEF FrameOfMaps
<1>5. DOMAIN table = Map
  BY DEF MapsInv, MapTypes
<1> QED
  BY <1>3, <1>4, <1>5

\* A call does its work in one step, under its lock.
LEMMA WorkKeeps ==
  ASSUME MapsAssumption, MapsInv, NEW t \in Thread, Work(t)
  PROVE  MapsInv'
<1> DEFINE c == mcall[t]
<1>1. Works(t) /\ c.st = "in" /\ UNCHANGED <<malive, mroot, bbs, mheld>>
  BY DEF Work
<1>2. /\ c \in WorkCall /\ MapStore /\ MapsHeld /\ c.m \in Map /\ c.m \in malive
      /\ c.v \in MapVal => c.v \in malive
      /\ c.op = "insert" => c.k \in Key /\ c.v \in MapVal
      /\ mheld[t] = <<Locked(c.m, Mode(c.op))>>
  BY <1>1, InWork
<1>3. \E d \in WorkCall :
        /\ mcall' = [mcall EXCEPT ![t] = d] /\ d.m = c.m /\ d.op = c.op /\ d.st = "out"
        /\ CallInUse(d, malive, bbs)
        /\ MapStore' /\ \A u \in Thread : u # t => WalkedStay(u)
  <2>1. CASE c.op = "insert"
    <3>1. PICK r \in {"refused", "overwritten", "new"} : r = insert(c.m, c.k)
      BY DEF insert
    <3> DEFINE d == [c EXCEPT !.st = "out", !.r = r]
    <3>2. mcall' = [mcall EXCEPT ![t] = d] /\ table' = [table EXCEPT ![c.m] = Inserted(c.m, c.k, c.v)]
      BY <2>1, <3>1 DEF Work
    <3>3. /\ d \in WorkCall /\ d.m = c.m /\ d.op = c.op /\ d.st = "out" /\ d.k = c.k /\ d.v = c.v
      BY <1>2 DEF WorkCall
    <3>4. CallInUse(d, malive, bbs)
      BY <1>1, <3>3, WorkGoesOn
    <3> HIDE DEF c, d
    <3>5. c.k \in Key /\ c.v \in MapVal /\ malive' = malive \cup {c.v}
      BY <1>1, <1>2, <2>1
    <3>6. MapStore' /\ KeysStay
      BY <1>1, <1>2, <3>2, <3>5, InsertedIs
    <3> QED
      BY <3>2, <3>3, <3>4, <3>6, AllWalkedStay
  <2>2. CASE c.op = "delete"
    <3> DEFINE d == [c EXCEPT !.st = "out"]
               new == [k \in DOMAIN table[c.m] \ {c.k} |-> table[c.m][k]]
    <3>1. mcall' = [mcall EXCEPT ![t] = d] /\ table' = [table EXCEPT ![c.m] = new]
      BY <2>2 DEF Work
    <3>2. /\ d \in WorkCall /\ d.m = c.m /\ d.op = c.op /\ d.st = "out" /\ d.k = c.k /\ d.v = c.v
      BY <1>2 DEF WorkCall
    <3>3. CallInUse(d, malive, bbs)
      BY <1>1, <3>2, WorkGoesOn
    <3>4. \A u \in Thread : u # t => WalkedStay(u)
      BY <1>1, <2>2, <3>1, WalkedStayThen DEF Writing
    <3>5. PICK D \in SUBSET Key :
            /\ table[c.m] \in [D -> MapVal] /\ DOMAIN table[c.m] = D
            /\ \A k \in D : table[c.m][k] \in malive
      BY <1>2, MapTable
    <3>6. PICK E \in SUBSET Key : E = D \ {c.k}
      OBVIOUS
    <3>7. new \in [E -> MapVal] /\ DOMAIN new = E /\ \A k \in E : new[k] \in malive
      BY <3>5, <3>6
    <3> HIDE DEF c, d, new
    <3>8. /\ table' \in [Map -> UNION {[F -> MapVal] : F \in SUBSET Key}]
          /\ table'[c.m] = new /\ \A x \in Map : x # c.m => table'[x] = table[x]
      BY <1>2, <3>1, <3>7 DEF MapStore
    <3>9. TablesInUse'
      <4>1. ASSUME NEW x \in malive' \cap Map, NEW k \in DOMAIN table'[x]
            PROVE  table'[x][k] \in malive'
        <5>1. CASE x = c.m
          BY <1>1, <3>7, <3>8, <4>1, <5>1
        <5>2. CASE x # c.m
          BY <1>1, <1>2, <3>8, <4>1, <5>2, MapTable
        <5> QED
          BY <5>1, <5>2
      <4>2. \A x \in Map \ malive' : table'[x] = Nothing
        BY <1>1, <1>2, <3>8 DEF MapStore, TablesInUse
      <4> QED
        BY <4>1, <4>2, TablesAre
    <3>10. MapStore'
      BY <1>1, <1>2, <3>8, <3>9 DEF MapStore
    <3> QED
      BY <3>1, <3>2, <3>3, <3>4, <3>10
  <2>3. CASE c.op \notin Writing
    <3>1. PICK D \in SUBSET Key :
            /\ table[c.m] \in [D -> MapVal] /\ DOMAIN table[c.m] = D
            /\ \A k \in D : table[c.m][k] \in malive
      BY <1>2, MapTable
    <3>2. PICK w : w = IF c.op = "get" /\ c.k \in DOMAIN table[c.m] THEN table[c.m][c.k] ELSE {}
      OBVIOUS
    <3>3. mcall' = [mcall EXCEPT ![t] = [c EXCEPT !.st = "out", !.v = w]] /\ table' = table
      BY <2>3, <3>2 DEF Work, Writing
    <3>4. w \in MapVal \cup {{}} /\ (w \in MapVal => w \in malive)
      BY <1>2, <3>1, <3>2 DEF MapsAssumption, MapVal
    <3> DEFINE d == [c EXCEPT !.st = "out", !.v = w]
    <3>5. d \in WorkCall /\ d.m = c.m /\ d.op = c.op /\ d.st = "out" /\ d.v = w
      BY <1>2, <3>4 DEF WorkCall, MapVal
    <3>6. mcall' = [mcall EXCEPT ![t] = d]
      BY <3>3
    <3>7. d.op # "insert"
      BY <2>3, <3>5 DEF Writing
    <3> HIDE DEF c, d
    <3>8. CallInUse(d, malive, bbs)
      BY <1>2, <3>4, <3>5, <3>7, KnownIs, MapKindsApart DEF CallInUse
    <3>9. MapStore' /\ KeysStay
      <4>1. malive' = malive \cup {} /\ {} \in SUBSET MapVal
        BY <1>1
      <4>2. mroot' \subseteq malive' \cap Map /\ bbs' \subseteq malive' \cap Map
        BY <1>1, <1>2 DEF MapStore
      <4> QED
        BY <1>2, <3>3, <4>1, <4>2, MoreInUse
    <3> QED
      BY <3>5, <3>6, <3>8, <3>9, AllWalkedStay
  <2> QED
    BY <2>1, <2>2, <2>3 DEF Writing
<1>4. PICK d \in WorkCall :
        /\ mcall' = [mcall EXCEPT ![t] = d] /\ d.m = c.m /\ d.op = c.op /\ d.st = "out"
        /\ CallInUse(d, malive, bbs)
        /\ MapStore' /\ \A u \in Thread : u # t => WalkedStay(u)
  BY <1>3
<1> HIDE DEF c
<1>5. mcall'[t] = d
  BY <1>4 DEF MapsInv, MapTypes
<1>6. MapLocksOnly(t)
  BY <1>1, <1>2 DEF MapLocksOnly, MapsHeld
<1>7. HoldsMapLocks(t)'
  BY <1>1, <1>2, <1>4, <1>5, MapKindsApart DEF HoldsMapLocks
<1>8. \A u \in Thread : u # t /\ mcall[u] \in MakeCall =>
         mcall[u].m \in bbs' /\ (d \in MakeCall => mcall[u].m # d.m)
  BY <1>1, <1>4, MakersApart, MapKindsApart
<1>9. d \in MapCall /\ malive \subseteq malive' /\ CallInUse(d, malive', bbs')
  BY <1>1, <1>4 DEF MapCall
<1> QED
  BY <1>4, <1>6, <1>7, <1>8, <1>9, MapStep

\* A call gives its lock back.
LEMMA UnlockMapKeeps ==
  ASSUME MapsAssumption, MapsInv, NEW t \in Thread, Unlock(t)
  PROVE  MapsInv'
<1> DEFINE c == mcall[t]
           d == [c EXCEPT !.st = "return"]
<1>1. /\ Works(t) /\ c.st = "out" /\ mcall' = [mcall EXCEPT ![t] = d]
      /\ UNCHANGED <<table, malive, mroot, bbs>>
  BY DEF Unlock
<1>2. c \in WorkCall /\ MapsHeld /\ mheld[t] = <<Locked(c.m, Mode(c.op))>>
  BY <1>1, InWork
<1>3. c.op \in Locking
  BY <1>2 DEF WorkCall, Locking, Writing
<1>4. mheld' = WithoutLast(mheld, t) /\ Len(mheld[t]) = 1
  BY <1>2, <1>3 DEF Unlock, Released
<1>5. d \in WorkCall /\ d.m = c.m /\ d.k = c.k /\ d.v = c.v /\ d.op = c.op /\ d.st = "return"
  BY <1>2 DEF WorkCall
<1>6. CallInUse(d, malive, bbs)
  BY <1>1, <1>5, WorkGoesOn
<1> HIDE DEF c, d
<1>7. MapLocksOnly(t) /\ mheld'[t] \in Seq(Locks(Map)) /\ Len(mheld'[t]) = Len(mheld[t]) - 1
  <2>1. MapsHeld /\ Len(mheld[t]) > 0
    BY <1>2, <1>4
  <2> QED
    BY <1>4, <2>1, MapUnlocked
<1>8. mheld'[t] = <<>>
  BY <1>4, <1>7, EmptySeq
<1>9. mcall'[t] = d
  BY <1>1 DEF MapsInv, MapTypes
<1>10. HoldsMapLocks(t)'
  BY <1>5, <1>8, <1>9, MapKindsApart DEF HoldsMapLocks
<1> QED
  BY <1>1, <1>5, <1>6, <1>7, <1>10, MapCallStep

\* A call that returns holds nothing.
LEMMA ReturnKeeps ==
  ASSUME MapsAssumption, MapsInv, NEW t \in Thread, Return(t)
  PROVE  MapsInv'
<1>1. /\ Works(t) /\ mcall[t].st = "return" /\ mcall' = [mcall EXCEPT ![t] = Idle]
      /\ UNCHANGED <<table, malive, mroot, bbs>> /\ mheld' = mheld
  BY DEF Return
<1>2. MapsHeld /\ mheld[t] = <<>>
  BY <1>1, InWork
<1>3. mcall'[t] = Idle
  BY <1>1 DEF MapsInv, MapTypes
<1>4. MapLocksOnly(t) /\ HoldsMapLocks(t)'
  BY <1>1, <1>2, <1>3, MapKindsApart DEF MapLocksOnly, MapsHeld, HoldsMapLocks
<1>5. CallInUse(Idle, malive, bbs)
  BY KnownIs, MapKindsApart DEF CallInUse
<1> QED
  BY <1>1, <1>4, <1>5, MapCallStep

----------------------------------------------------------------------------
(* Maps : the steps of a comparison.                                        *)

\* A step of a comparison that changes no table.
LEMMA MapEqStep ==
  ASSUME MapsInv, NEW t \in Thread, NEW F \in Seq(FrameOfMaps) \ {<<>>},
         mcall' = [mcall EXCEPT ![t] = [op |-> "eq", frames |-> F]], MapLocksOnly(t),
         UNCHANGED <<table, malive, mroot, bbs>>, ComparingHolds(F, mheld'[t]),
         \A n \in 1..Len(F) : {F[n].e0, F[n].e1} \subseteq malive
  PROVE  MapsInv'
<1> DEFINE c == [op |-> "eq", frames |-> F]
<1>1. c \in MapEqCall /\ c.frames = F
  BY DEF MapEqCall
<1>2. mcall' = [mcall EXCEPT ![t] = c]
  OBVIOUS
<1> HIDE DEF c
<1>3. mcall'[t] = c
  BY <1>2 DEF MapsInv, MapTypes
<1>4. ComparingHolds(F, mheld[t])'
  BY DEF ComparingHolds
<1>5. HoldsMapLocks(t)'
  BY <1>1, <1>3, <1>4, MapKindsApart DEF HoldsMapLocks
<1>6. CallInUse(c, malive, bbs)
  BY <1>1, KnownIs, MapKindsApart DEF CallInUse
<1> QED
  BY <1>1, <1>2, <1>5, <1>6, MapCallStep

\* A comparison starts with two maps that a program can reach.
LEMMA CompareMapsKeeps ==
  ASSUME MapsAssumption, MapsInv, NEW t \in Thread, NEW e0 \in Nested(mroot),
         NEW e1 \in Nested(mroot), CompareMaps(t, e0, e1)
  PROVE  MapsInv'
<1> DEFINE f == MapFrame(e0, e1)
           F == <<f>>
<1>1. mcall[t] = Idle /\ MapStore /\ MapsHeld /\ HoldsMapLocks(t)
  BY MapKinds DEF CompareMaps
<1>2. /\ mcall' = [mcall EXCEPT ![t] = [op |-> "eq", frames |-> F]]
      /\ UNCHANGED <<table, malive, mroot, bbs>> /\ mheld' = mheld
  BY DEF CompareMaps
<1>3. e0 \in Map /\ e1 \in Map /\ {e0, e1} \subseteq malive
  <2>1. mroot \subseteq malive
    BY <1>1 DEF MapStore
  <2>2. WithValues(mroot) \subseteq malive /\ Nested(mroot) \subseteq Map
    BY <1>1, <2>1, NestedInUse, NestedIsComplete
  <2> QED
    BY <2>2 DEF WithValues
<1>4. f \in FrameOfMaps /\ f.e0 = e0 /\ f.e1 = e1 /\ f.st = "lock0"
  BY <1>3 DEF MapFrame, FrameOfMaps
<1> HIDE DEF f
<1>5. F \in Seq(FrameOfMaps) \ {<<>>} /\ Len(F) = 1 /\ F[1] = f
  BY <1>4
<1> HIDE DEF F
<1>6. MapLocksOnly(t) /\ mheld'[t] = <<>>
  BY <1>1, <1>2 DEF MapLocksOnly, MapsHeld, HoldsMapLocks
<1>7. ComparingHolds(F, mheld'[t])
  <2>1. HeldIn(F[Len(F)].st) = 0 /\ Len(mheld'[t]) = 0
    BY <1>4, <1>5, <1>6 DEF HeldIn
  <2>2. \A n \in 1..Len(F) : n = 1 /\ ~(n < Len(F)) /\ ~(2 * n - 1 <= 0) /\ ~(2 * n <= 0)
    BY <1>5
  <2> QED
    BY <1>4, <1>5, <2>1, <2>2 DEF ComparingHolds
<1>8. \A n \in 1..Len(F) : {F[n].e0, F[n].e1} \subseteq malive
  BY <1>3, <1>4, <1>5
<1> QED
  BY <1>2, <1>5, <1>6, <1>7, <1>8, MapEqStep

\* Comparing goes on in the innermost recursion, and only locks of it change.
InmostLocks(t, n) ==
  \A i \in 1..Len(mheld'[t]) :
    \/ i <= Len(mheld[t]) /\ mheld'[t][i] = mheld[t][i]
    \/ i = 2 * n - 1 /\ mheld'[t][i] = Locked(Inmost(t).e0, "rd")
    \/ i = 2 * n /\ mheld'[t][i] = Locked(Inmost(t).e1, "rd")
NextInmost(t, n, g) ==
  /\ Compares(t) /\ n = Len(mcall[t].frames) /\ g.e0 = Inmost(t).e0 /\ g.e1 = Inmost(t).e1
  /\ SetInmost(t, g) /\ UNCHANGED <<table, malive, mroot, bbs>>
  /\ MapLocksOnly(t) /\ Len(mheld'[t]) = 2 * (n - 1) + HeldIn(g.st) /\ InmostLocks(t, n)
  /\ g.st = "walk" => g.left \subseteq DOMAIN table[g.e0] \cap DOMAIN table[g.e1]

\* The innermost frame changes, and at most one lock with it.
LEMMA InmostChanges ==
  ASSUME MapsInv, NEW t \in Thread, NEW g \in FrameOfMaps, NEW n \in Nat \ {0}, NextInmost(t, n, g)
  PROVE  MapsInv'
<1> DEFINE F == mcall[t].frames
           G == [F EXCEPT ![n] = g]
           h == mheld[t]
           i == mheld'[t]
<1>1. /\ F \in Seq(FrameOfMaps) \ {<<>>} /\ Len(F) = n /\ ComparingHolds(F, h)
      /\ mcall[t] = [op |-> "eq", frames |-> F] /\ Inmost(t) = F[n] /\ h \in Seq(Locks(Map))
      /\ g.e0 = F[n].e0 /\ g.e1 = F[n].e1
      /\ \A k \in 1..n : {F[k].e0, F[k].e1} \subseteq malive
  BY InComparing DEF Inmost, NextInmost
<1>2. mcall' = [mcall EXCEPT ![t] = [op |-> "eq", frames |-> G]]
  <2>1. mcall' = [mcall EXCEPT ![t] = [mcall[t] EXCEPT !.frames = G]]
    BY DEF NextInmost, SetInmost
  <2> HIDE DEF F, G
  <2>2. [mcall[t] EXCEPT !.frames = G] = [op |-> "eq", frames |-> G]
    BY <1>1
  <2> QED
    BY <2>1, <2>2
<1>3. i \in Seq(Locks(Map))
  BY DEF MapLocksOnly, NextInmost
<1> HIDE DEF F, h, i
<1>4. /\ G \in Seq(FrameOfMaps) \ {<<>>} /\ Len(G) = n /\ G[n] = g
      /\ \A k \in 1..n : k # n => G[k] = F[k]
  BY <1>1
<1> HIDE DEF G
<1>5. \A k \in 1..n : G[k].e0 = F[k].e0 /\ G[k].e1 = F[k].e1
  BY <1>1, <1>4
<1>6. PICK p \in Nat : p = Len(h)
  BY <1>1
<1>7. PICK q \in Nat : q = Len(i)
  BY <1>3
<1>8. ASSUME NEW k \in 1..n
      PROVE  /\ 2 * k - 1 <= q => i[2 * k - 1] = Locked(F[k].e0, "rd")
             /\ 2 * k <= q => i[2 * k] = Locked(F[k].e1, "rd")
  <2>1. /\ 2 * k - 1 <= p => h[2 * k - 1] = Locked(F[k].e0, "rd")
        /\ 2 * k <= p => h[2 * k] = Locked(F[k].e1, "rd")
    BY <1>1, <1>6, <1>8 DEF ComparingHolds
  <2>2. \A j \in 1..q :
           \/ j <= p /\ i[j] = h[j]
           \/ j = 2 * n - 1 /\ i[j] = Locked(F[n].e0, "rd")
           \/ j = 2 * n /\ i[j] = Locked(F[n].e1, "rd")
    BY <1>1, <1>6, <1>7 DEF i, h, NextInmost, InmostLocks
  <2>3. 2 * k - 1 # 2 * n /\ 2 * k # 2 * n - 1 /\ (2 * k - 1 = 2 * n - 1 => k = n)
        /\ (2 * k = 2 * n => k = n)
    OBVIOUS
  <2>4. ASSUME 2 * k - 1 <= q PROVE i[2 * k - 1] = Locked(F[k].e0, "rd")
    <3>1. 2 * k - 1 \in 1..q
      BY <2>4
    <3> QED
      BY <2>1, <2>2, <2>3, <3>1
  <2>5. ASSUME 2 * k <= q PROVE i[2 * k] = Locked(F[k].e1, "rd")
    <3>1. 2 * k \in 1..q
      BY <2>5
    <3> QED
      BY <2>1, <2>2, <2>3, <3>1
  <2> QED
    BY <2>4, <2>5
<1>9. ComparingHolds(G, i)
  <2>1. Len(i) = 2 * (Len(G) - 1) + HeldIn(G[Len(G)].st)
    BY <1>4 DEF i, NextInmost
  <2>2. \A k \in 1..n : k < n => G[k].st = "walk"
    <3>1. \A k \in 1..n : k < n => k # n
      OBVIOUS
    <3>2. \A k \in 1..n : k < n => F[k].st = "walk"
      BY <1>1 DEF ComparingHolds
    <3> QED
      BY <1>4, <3>1, <3>2
  <2>3. \A k \in 1..n : F[k].st = "walk" =>
          F[k].left \subseteq DOMAIN table[F[k].e0] \cap DOMAIN table[F[k].e1]
    BY <1>1 DEF ComparingHolds
  <2>4. \A k \in 1..n : G[k].st = "walk" =>
          G[k].left \subseteq DOMAIN table[G[k].e0] \cap DOMAIN table[G[k].e1]
    <3>1. g.st = "walk" => g.left \subseteq DOMAIN table[g.e0] \cap DOMAIN table[g.e1]
      BY DEF NextInmost
    <3> QED
      BY <1>4, <2>3, <3>1
  <2> QED
    BY <1>4, <1>5, <1>7, <1>8, <2>1, <2>2, <2>4 DEF ComparingHolds
<1>10. \A k \in 1..Len(G) : {G[k].e0, G[k].e1} \subseteq malive
  BY <1>1, <1>4, <1>5
<1> QED
  BY <1>2, <1>4, <1>9, <1>10, MapEqStep DEF i, NextInmost

\* What a step that leaves the locks alone has to show.
LEMMA SameLocks ==
  ASSUME MapsInv, NEW t \in Thread, Compares(t), NEW g \in FrameOfMaps, g.e0 = Inmost(t).e0,
         g.e1 = Inmost(t).e1, SetInmost(t, g), UNCHANGED <<table, malive, mroot, bbs>>, mheld' = mheld,
         HeldIn(g.st) = HeldIn(Inmost(t).st),
         g.st = "walk" => g.left \subseteq DOMAIN table[g.e0] \cap DOMAIN table[g.e1]
  PROVE  MapsInv'
<1>1. PICK n \in Nat \ {0} : n = Len(mcall[t].frames)
  BY InComparing
<1>2. /\ ComparingHolds(mcall[t].frames, mheld[t]) /\ MapsHeld
      /\ Inmost(t) = mcall[t].frames[n] /\ mheld[t] \in Seq(Locks(Map))
  BY <1>1, InComparing
<1>3. Len(mheld'[t]) = 2 * (n - 1) + HeldIn(g.st)
  BY <1>1, <1>2 DEF ComparingHolds
<1>4. InmostLocks(t, n)
  <2>1. Len(mheld[t]) \in Nat
    BY <1>2
  <2> QED
    BY <2>1 DEF InmostLocks
<1>5. MapLocksOnly(t)
  BY <1>2 DEF MapLocksOnly, MapsHeld
<1>6. NextInmost(t, n, g)
  BY <1>1, <1>3, <1>4, <1>5 DEF NextInmost
<1> QED
  BY <1>6, InmostChanges

\* A map is locked, the first or the second, ...
LEMMA LockNextKeeps ==
  ASSUME MapsAssumption, MapsInv, NEW t \in Thread, LockNext(t)
  PROVE  MapsInv'
<1> DEFINE f == Inmost(t)
           m == IF f.st = "lock0" THEN f.e0 ELSE f.e1
           left == DOMAIN table[f.e0] \cap DOMAIN table[f.e1]
           g == IF f.st = "lock0" THEN [f EXCEPT !.st = "lock1"]
                ELSE [f EXCEPT !.st = "walk", !.left = left]
<1>1. /\ Compares(t) /\ f.st \in {"lock0", "lock1"} /\ MayLock(mheld, m, "rd") /\ SetInmost(t, g)
      /\ mheld' = WithLock(mheld, t, m, "rd") /\ UNCHANGED <<table, malive, mroot, bbs>>
  BY DEF LockNext
<1>2. PICK n \in Nat \ {0} : n = Len(mcall[t].frames)
  BY <1>1, InComparing
<1>3. /\ f \in FrameOfMaps /\ ComparingHolds(mcall[t].frames, mheld[t]) /\ MapsHeld /\ MapStore
      /\ f = mcall[t].frames[n]
  BY <1>1, <1>2, InComparing
<1>4. f.e0 \in Map /\ f.e1 \in Map
  BY <1>3 DEF FrameOfMaps
<1>5. left \in SUBSET Key
  <2>1. PICK D \in SUBSET Key : DOMAIN table[f.e0] = D
    BY <1>3, <1>4, MapTable
  <2> QED
    BY <2>1
<1>6. /\ g \in FrameOfMaps /\ g.e0 = f.e0 /\ g.e1 = f.e1 /\ m \in Map
      /\ f.st = "lock0" => g.st = "lock1" /\ m = f.e0
      /\ f.st = "lock1" => g.st = "walk" /\ g.left = left /\ m = f.e1
  <2> HIDE DEF f, left
  <2>1. CASE f.st = "lock0"
    BY <1>3, <1>4, <2>1 DEF FrameOfMaps
  <2>2. CASE f.st = "lock1"
    BY <1>3, <1>4, <1>5, <2>2 DEF FrameOfMaps
  <2> QED
    BY <1>1, <2>1, <2>2
<1> HIDE DEF f, g, m
<1>7. PICK x \in {0, 1} : x = HeldIn(f.st) /\ HeldIn(g.st) = x + 1 /\ (x = 0 <=> f.st = "lock0")
  BY <1>1, <1>6 DEF HeldIn
<1>8. PICK p \in Nat : p = Len(mheld[t]) /\ p = 2 * (n - 1) + x
  BY <1>2, <1>3, <1>7 DEF ComparingHolds
<1>9. /\ MapLocksOnly(t) /\ Len(mheld'[t]) = p + 1
      /\ \A i \in 1..p : mheld'[t][i] = mheld[t][i]
      /\ mheld'[t][p + 1] = Locked(m, "rd")
  <2>1. "rd" \in Modes
    BY DEF Modes
  <2> QED
    BY <1>1, <1>3, <1>6, <1>8, <2>1, MapLocked
<1>10. InmostLocks(t, n)
  <2>1. \A i \in 1..p + 1 : i \in 1..p \/ i = p + 1
    BY <1>8
  <2>2. x = 0 => p + 1 = 2 * n - 1 /\ m = f.e0
    BY <1>6, <1>7, <1>8
  <2>3. x = 1 => p + 1 = 2 * n /\ m = f.e1
    BY <1>1, <1>6, <1>7, <1>8
  <2> QED
    BY <1>8, <1>9, <2>1, <2>2, <2>3 DEF InmostLocks, f
<1>11. Len(mheld'[t]) = 2 * (n - 1) + HeldIn(g.st)
  BY <1>7, <1>8, <1>9
<1>12. g.st = "walk" => g.left \subseteq DOMAIN table[g.e0] \cap DOMAIN table[g.e1]
  BY <1>1, <1>6
<1>13. NextInmost(t, n, g)
  BY <1>1, <1>2, <1>6, <1>9, <1>10, <1>11, <1>12 DEF NextInmost, f
<1> QED
  BY <1>6, <1>13, InmostChanges

\* ... the comparison comes to its result, ...
LEMMA CompareTablesKeeps ==
  ASSUME MapsAssumption, MapsInv, NEW t \in Thread, CompareTables(t)
  PROVE  MapsInv'
<1> DEFINE f == Inmost(t)
<1>1. /\ Compares(t) /\ f.st = "walk" /\ UNCHANGED <<table, malive, mroot, bbs>> /\ mheld' = mheld
  BY DEF CompareTables
<1>2. f \in FrameOfMaps
  BY <1>1, InComparing
<1>3. \E g \in FrameOfMaps :
        SetInmost(t, g) /\ g.e0 = f.e0 /\ g.e1 = f.e1 /\ g.st \in {"compared", "lost"}
  <2>1. CASE SetInmost(t, [f EXCEPT !.st = "compared", !.ret = FALSE])
    <3>1. [f EXCEPT !.st = "compared", !.ret = FALSE] \in FrameOfMaps
      BY <1>2 DEF FrameOfMaps
    <3> QED
      BY <1>2, <2>1, <3>1 DEF FrameOfMaps
  <2>2. CASE SetInmost(t, [f EXCEPT !.st = "lost"])
    <3>1. [f EXCEPT !.st = "lost"] \in FrameOfMaps
      BY <1>2 DEF FrameOfMaps
    <3> QED
      BY <1>2, <2>2, <3>1 DEF FrameOfMaps
  <2>3. CASE SetInmost(t, [f EXCEPT !.st = "compared", !.ret = SameKeys(f)])
    <3>1. PICK b \in BOOLEAN : b = SameKeys(f)
      BY DEF SameKeys
    <3>2. SetInmost(t, [f EXCEPT !.st = "compared", !.ret = b])
      BY <2>3, <3>1
    <3>3. [f EXCEPT !.st = "compared", !.ret = b] \in FrameOfMaps
      BY <1>2 DEF FrameOfMaps
    <3> QED
      BY <1>2, <3>2, <3>3 DEF FrameOfMaps
  <2> QED
    BY <2>1, <2>2, <2>3 DEF CompareTables
<1>4. PICK g \in FrameOfMaps :
        SetInmost(t, g) /\ g.e0 = f.e0 /\ g.e1 = f.e1 /\ g.st \in {"compared", "lost"}
  BY <1>3
<1>5. HeldIn(g.st) = HeldIn(f.st) /\ g.st # "walk"
  BY <1>1, <1>4 DEF HeldIn
<1> QED
  BY <1>1, <1>4, <1>5, SameLocks

\* ... or goes into two inner maps, ...
LEMMA CompareValuesKeeps ==
  ASSUME MapsAssumption, MapsInv, NEW t \in Thread, NEW key \in Key, CompareValues(t, key)
  PROVE  MapsInv'
<1> DEFINE F == mcall[t].frames
           f == Inmost(t)
           x == table[f.e0][key]
           y == table[f.e1][key]
           rest == [f EXCEPT !.left = @ \ {key}]
<1>1. /\ Compares(t) /\ f.st = "walk" /\ key \in f.left
      /\ UNCHANGED <<table, malive, mroot, bbs>> /\ mheld' = mheld
  BY DEF CompareValues
<1>2. PICK n \in Nat \ {0} : n = Len(F)
  BY <1>1, InComparing
<1>3. /\ f \in FrameOfMaps /\ MapStore /\ MapsHeld /\ f = F[n] /\ F \in Seq(FrameOfMaps)
      /\ ComparingHolds(F, mheld[t]) /\ mcall[t] = [op |-> "eq", frames |-> F]
      /\ \A k \in 1..n : F[k] \in FrameOfMaps /\ {F[k].e0, F[k].e1} \subseteq malive
  BY <1>1, <1>2, InComparing
<1>4. n \in 1..n
  OBVIOUS
<1>5. f.left \subseteq DOMAIN table[f.e0] \cap DOMAIN table[f.e1]
  BY <1>1, <1>2, <1>3, <1>4 DEF ComparingHolds
<1>6. /\ rest \in FrameOfMaps /\ rest.e0 = f.e0 /\ rest.e1 = f.e1 /\ rest.st = "walk"
      /\ rest.left \subseteq f.left
  BY <1>1, <1>3 DEF FrameOfMaps
<1>7. CASE SetInmost(t, rest)
  <2> HIDE DEF rest
  <2>1. HeldIn(rest.st) = HeldIn(f.st)
    BY <1>1, <1>6
  <2>2. rest.left \subseteq DOMAIN table[rest.e0] \cap DOMAIN table[rest.e1]
    BY <1>5, <1>6
  <2> QED
    BY <1>1, <1>6, <1>7, <2>1, <2>2, SameLocks
<1>8. CASE SetInmost(t, [f EXCEPT !.st = "compared", !.ret = FALSE])
  <2> DEFINE g == [f EXCEPT !.st = "compared", !.ret = FALSE]
  <2>1. g \in FrameOfMaps /\ g.e0 = f.e0 /\ g.e1 = f.e1 /\ g.st = "compared"
    BY <1>3 DEF FrameOfMaps
  <2>2. SetInmost(t, g)
    BY <1>8
  <2> HIDE DEF g
  <2>3. HeldIn(g.st) = HeldIn(f.st)
    BY <1>1, <2>1 DEF HeldIn
  <2> QED
    BY <1>1, <2>1, <2>2, <2>3, SameLocks
<1>9. CASE /\ {x, y} \subseteq Map
           /\ mcall' = [mcall EXCEPT ![t].frames = SubSeq(@, 1, Len(@) - 1) \o <<rest, MapFrame(x, y)>>]
  <2> DEFINE b == MapFrame(x, y)
             G == SubSeq(F, 1, Len(F) - 1) \o <<rest, b>>
  <2>1. mcall' = [mcall EXCEPT ![t] = [op |-> "eq", frames |-> G]]
    <3>1. mcall' = [mcall EXCEPT ![t] = [mcall[t] EXCEPT !.frames = G]]
      BY <1>9
    <3> HIDE DEF F, G
    <3>2. [mcall[t] EXCEPT !.frames = G] = [op |-> "eq", frames |-> G]
      BY <1>3
    <3> QED
      BY <3>1, <3>2
  <2>2. x \in malive /\ y \in malive
    <3>1. f.e0 \in malive /\ f.e1 \in malive /\ f.e0 \in Map /\ f.e1 \in Map
      BY <1>3, <1>4 DEF FrameOfMaps
    <3>2. key \in DOMAIN table[f.e0] /\ key \in DOMAIN table[f.e1]
      BY <1>1, <1>5
    <3> QED
      BY <1>3, <3>1, <3>2, MapTable
  <2>3. /\ b \in FrameOfMaps /\ b.e0 = x /\ b.e1 = y /\ b.st = "lock0"
        /\ x \in malive /\ y \in malive
    BY <1>9, <2>2 DEF MapFrame, FrameOfMaps
  <2> HIDE DEF x, y
  <2> HIDE DEF b
  <2> HIDE DEF rest
  <2> HIDE DEF f
  <2> HIDE DEF F
  <2>4. /\ G \in Seq(FrameOfMaps) \ {<<>>} /\ Len(G) = n + 1 /\ G[n] = rest /\ G[n + 1] = b
        /\ \A k \in 1..n : k # n => G[k] = F[k]
    <3>1. PICK m \in Nat : m = n - 1
      OBVIOUS
    <3>2. /\ SubSeq(F, 1, m) \in Seq(FrameOfMaps) /\ Len(SubSeq(F, 1, m)) = m
          /\ \A k \in 1..m : SubSeq(F, 1, m)[k] = F[k]
      <4>1. 1..m \subseteq 1..Len(F)
        BY <1>2, <3>1
      <4>2. SubSeq(F, 1, m) = [k \in 1..m |-> F[k]]
        BY <1>2, <1>3, <3>1, <4>1
      <4>3. [k \in 1..m |-> F[k]] \in [1..m -> FrameOfMaps]
        BY <1>2, <1>3, <4>1
      <4>4. [k \in 1..m |-> F[k]] \in Seq(FrameOfMaps)
        BY <4>3
      <4> QED
        BY <4>2, <4>3, <4>4
    <3> DEFINE P == SubSeq(F, 1, m)
    <3>3. G = P \o <<rest, b>> /\ <<rest, b>> \in Seq(FrameOfMaps) /\ Len(<<rest, b>>) = 2
      BY <1>2, <1>6, <2>3, <3>1
    <3> HIDE DEF P, G
    <3>4. P \in Seq(FrameOfMaps) /\ Len(P) = m /\ \A k \in 1..m : P[k] = F[k]
      BY <3>2 DEF P
    <3>5. /\ G \in Seq(FrameOfMaps) /\ Len(G) = m + 2
          /\ G[m + 1] = rest /\ G[m + 2] = b /\ \A k \in 1..m : G[k] = P[k]
      <4> DEFINE Q == <<rest, b>>
      <4>1. Q \in Seq(FrameOfMaps) /\ Len(Q) = 2 /\ Q[1] = rest /\ Q[2] = b /\ G = P \o Q
        BY <3>3
      <4> HIDE DEF Q
      <4>2. /\ G \in Seq(FrameOfMaps) /\ Len(G) = m + 2
            /\ \A k \in 1..m + 2 : G[k] = IF k <= m THEN P[k] ELSE Q[k - m]
        <5>1. /\ P \o Q \in Seq(FrameOfMaps) /\ Len(P \o Q) = Len(P) + Len(Q)
              /\ \A k \in 1..Len(P) + Len(Q) : (P \o Q)[k] = IF k <= Len(P) THEN P[k] ELSE Q[k - Len(P)]
          BY <3>4, <4>1, ConcatProperties
        <5>2. Len(P) = m /\ Len(Q) = 2 /\ G = P \o Q
          BY <3>4, <4>1
        <5> QED
          BY <5>1, <5>2, Zenon
      <4>3. m + 1 \in 1..m + 2 /\ m + 2 \in 1..m + 2 /\ \A k \in 1..m : k \in 1..m + 2 /\ k <= m
        OBVIOUS
      <4>4. G[m + 1] = Q[m + 1 - m] /\ G[m + 2] = Q[m + 2 - m]
        BY <4>2, <4>3
      <4>5. m + 1 - m = 1 /\ m + 2 - m = 2
        OBVIOUS
      <4> QED
        BY <4>1, <4>2, <4>3, <4>4, <4>5
    <3>6. \A k \in 1..n : k # n => k \in 1..m
      BY <3>1
    <3> QED
      BY <3>1, <3>4, <3>5, <3>6
  <2> HIDE DEF G
  <2>5. \A k \in 1..n : G[k].e0 = F[k].e0 /\ G[k].e1 = F[k].e1
    BY <1>3, <1>6, <2>4
  <2>6. PICK p \in Nat : p = Len(mheld[t]) /\ p = 2 * n
    <3>1. HeldIn(f.st) = 2
      BY <1>1 DEF HeldIn
    <3> QED
      BY <1>2, <1>3, <3>1 DEF ComparingHolds
  <2>7. ComparingHolds(G, mheld'[t])
    <3>1. Len(mheld'[t]) = 2 * (Len(G) - 1) + HeldIn(G[Len(G)].st)
      <4>1. HeldIn(b.st) = 0
        BY <2>3 DEF HeldIn
      <4> QED
        BY <1>1, <2>4, <2>6, <4>1
    <3>2. \A k \in 1..n + 1 : k \in 1..n \/ k = n + 1
      OBVIOUS
    <3>3. \A k \in 1..n + 1 : k < n + 1 => G[k].st = "walk"
      <4>1. \A k \in 1..n + 1 : k < n + 1 => k \in 1..n /\ (k = n \/ k < n)
        OBVIOUS
      <4>2. \A k \in 1..n : k < n => F[k].st = "walk" /\ k # n
        BY <1>2, <1>3 DEF ComparingHolds
      <4> QED
        BY <1>6, <2>4, <4>1, <4>2
    <3>4. \A k \in 1..n + 1 : G[k].st = "walk" =>
            G[k].left \subseteq DOMAIN table[G[k].e0] \cap DOMAIN table[G[k].e1]
      <4>1. \A k \in 1..n : F[k].st = "walk" =>
              F[k].left \subseteq DOMAIN table[F[k].e0] \cap DOMAIN table[F[k].e1]
        BY <1>2, <1>3 DEF ComparingHolds
      <4>2. rest.left \subseteq DOMAIN table[rest.e0] \cap DOMAIN table[rest.e1]
        BY <1>5, <1>6
      <4> QED
        BY <2>3, <2>4, <3>2, <4>1, <4>2
    <3>5. ASSUME NEW k \in 1..n + 1
          PROVE  /\ 2 * k - 1 <= p => mheld'[t][2 * k - 1] = Locked(G[k].e0, "rd")
                 /\ 2 * k <= p => mheld'[t][2 * k] = Locked(G[k].e1, "rd")
      <4>1. CASE k \in 1..n
        <5>1. /\ 2 * k - 1 <= p => mheld[t][2 * k - 1] = Locked(F[k].e0, "rd")
              /\ 2 * k <= p => mheld[t][2 * k] = Locked(F[k].e1, "rd")
          BY <1>2, <1>3, <2>6, <4>1 DEF ComparingHolds
        <5> QED
          BY <1>1, <2>5, <4>1, <5>1
      <4>2. CASE k = n + 1
        BY <2>6, <4>2
      <4> QED
        BY <3>2, <4>1, <4>2
    <3> QED
      BY <1>1, <2>4, <2>6, <3>1, <3>3, <3>4, <3>5 DEF ComparingHolds
  <2>8. \A k \in 1..Len(G) : {G[k].e0, G[k].e1} \subseteq malive
    <3>1. \A k \in 1..n + 1 : k \in 1..n \/ k = n + 1
      OBVIOUS
    <3> QED
      BY <1>3, <2>3, <2>4, <2>5, <3>1
  <2>9. MapLocksOnly(t)
    BY <1>1, <1>3 DEF MapLocksOnly, MapsHeld
  <2> QED
    BY <1>1, <2>1, <2>4, <2>7, <2>8, <2>9, MapEqStep
<1> QED
  BY <1>7, <1>8, <1>9 DEF CompareValues

\* ... and both maps are unlocked, the second first.
LEMMA UnlockSecondMapKeeps ==
  ASSUME MapsAssumption, MapsInv, NEW t \in Thread, UnlockSecondMap(t)
  PROVE  MapsInv'
<1> DEFINE f == Inmost(t)
           g == [f EXCEPT !.st = "unlock0"]
<1>1. /\ Compares(t) /\ f.st = "compared" /\ SetInmost(t, g)
      /\ mheld' = WithoutLast(mheld, t) /\ UNCHANGED <<table, malive, mroot, bbs>>
  BY DEF UnlockSecondMap
<1>2. PICK n \in Nat \ {0} : n = Len(mcall[t].frames)
  BY <1>1, InComparing
<1>3. /\ f \in FrameOfMaps /\ ComparingHolds(mcall[t].frames, mheld[t]) /\ MapsHeld
      /\ f = mcall[t].frames[n]
  BY <1>1, <1>2, InComparing
<1>4. g \in FrameOfMaps /\ g.e0 = f.e0 /\ g.e1 = f.e1 /\ g.st = "unlock0"
  BY <1>3 DEF FrameOfMaps
<1> HIDE DEF f, g
<1>5. PICK m \in Nat : m = Len(mheld[t]) /\ m = 2 * (n - 1) + 2
  <2>1. HeldIn(f.st) = 2
    BY <1>1 DEF HeldIn
  <2> QED
    BY <1>2, <1>3, <2>1 DEF ComparingHolds
<1>6. /\ MapLocksOnly(t) /\ Len(mheld'[t]) = m - 1
      /\ \A i \in 1..m - 1 : mheld'[t][i] = mheld[t][i]
  <2>1. Len(mheld[t]) > 0
    BY <1>5
  <2> QED
    BY <1>1, <1>3, <1>5, <2>1, MapUnlocked
<1>7. Len(mheld'[t]) = 2 * (n - 1) + HeldIn(g.st)
  BY <1>4, <1>5, <1>6 DEF HeldIn
<1>8. \A i \in 1..m - 1 : i <= m /\ mheld'[t][i] = mheld[t][i]
  BY <1>5, <1>6
<1>9. InmostLocks(t, n)
  BY <1>5, <1>6, <1>8 DEF InmostLocks
<1>10. NextInmost(t, n, g)
  BY <1>1, <1>2, <1>4, <1>6, <1>7, <1>9 DEF NextInmost, f
<1> QED
  BY <1>4, <1>10, InmostChanges

\* The walk that asked goes on, or ends with the difference that was found.
LEMMA UnlockFirstMapKeeps ==
  ASSUME MapsAssumption, MapsInv, NEW t \in Thread, UnlockFirstMap(t)
  PROVE  MapsInv'
<1> DEFINE F == mcall[t].frames
           f == Inmost(t)
<1>1. PICK n \in Nat \ {0} : n = Len(F)
  BY InComparing DEF UnlockFirstMap
<1>2. /\ Compares(t) /\ f.st = "unlock0" /\ mheld' = WithoutLast(mheld, t)
      /\ UNCHANGED <<table, malive, mroot, bbs>>
  BY DEF UnlockFirstMap
<1>3. /\ ComparingHolds(F, mheld[t]) /\ MapsHeld /\ f = F[n] /\ F \in Seq(FrameOfMaps)
      /\ mheld[t] \in Seq(Locks(Map))
      /\ \A k \in 1..n : F[k] \in FrameOfMaps /\ {F[k].e0, F[k].e1} \subseteq malive
  BY <1>1, <1>2, InComparing
<1>4. PICK m \in Nat : m = Len(mheld[t]) /\ m = 2 * (n - 1) + 1
  <2>1. HeldIn(f.st) = 1
    BY <1>2 DEF HeldIn
  <2> HIDE DEF F, f
  <2> QED
    BY <1>1, <1>3, <2>1 DEF ComparingHolds
<1>5. /\ MapLocksOnly(t) /\ mheld'[t] \in Seq(Locks(Map)) /\ Len(mheld'[t]) = m - 1
      /\ \A i \in 1..m - 1 : mheld'[t][i] = mheld[t][i]
  <2>1. Len(mheld[t]) > 0
    BY <1>4
  <2> QED
    BY <1>2, <1>3, <1>4, <2>1, MapUnlocked
<1>6. CASE n = 1
  <2>1. mcall' = [mcall EXCEPT ![t] = Idle]
    BY <1>1, <1>6 DEF UnlockFirstMap
  <2>2. Len(mheld'[t]) = 0
    BY <1>4, <1>5, <1>6
  <2>3. mheld'[t] = <<>> /\ mcall'[t] = Idle
    BY <1>5, <2>1, <2>2, EmptySeq DEF MapsInv, MapTypes
  <2>4. HoldsMapLocks(t)' /\ CallInUse(Idle, malive, bbs)
    BY <2>3, KnownIs, MapKindsApart DEF HoldsMapLocks, CallInUse
  <2> QED
    BY <1>2, <1>5, <2>1, <2>4, MapCallStep
<1>7. CASE n # 1
  <2>1. PICK p \in Nat \ {0} : p = n - 1
    BY <1>7
  <2> DEFINE b == F[p]
             g == IF ~f.ret THEN [b EXCEPT !.st = "compared", !.ret = FALSE] ELSE b
             G == WalkReturned(F)
  <2>2. p \in 1..n /\ p < n /\ n = p + 1
    BY <2>1
  <2>3. G = [k \in 1..p |-> IF k = p THEN g ELSE F[k]]
    <3>1. Len(F) - 1 = p
      BY <1>1, <2>1
    <3>2. \A k \in 1..p : k = p => F[k + 1].ret = f.ret
      BY <1>3, <2>2
    <3> QED
      BY <3>1, <3>2 DEF WalkReturned
  <2>4. mcall' = [mcall EXCEPT ![t] = [op |-> "eq", frames |-> G]]
    BY <1>1, <1>7 DEF UnlockFirstMap
  <2>5. b \in FrameOfMaps /\ b.st = "walk"
        /\ b.left \subseteq DOMAIN table[b.e0] \cap DOMAIN table[b.e1]
    <3>1. p \in 1..Len(F) /\ p < Len(F)
      BY <1>1, <2>2
    <3>2. F[p].st = "walk" /\ F[p].left \subseteq DOMAIN table[F[p].e0] \cap DOMAIN table[F[p].e1]
      BY <1>3, <3>1 DEF ComparingHolds
    <3> QED
      BY <1>1, <1>3, <3>1, <3>2
  <2> HIDE DEF b, f
  <2>6. /\ g \in FrameOfMaps /\ g.e0 = b.e0 /\ g.e1 = b.e1
        /\ g.st \in {"walk", "compared"} /\ (g.st = "walk" => g = b)
    <3>1. [b EXCEPT !.st = "compared", !.ret = FALSE] \in FrameOfMaps
      BY <2>5 DEF FrameOfMaps
    <3>2. CASE f.ret
      BY <2>5, <3>2
    <3>3. CASE ~f.ret
      BY <2>5, <3>1, <3>3 DEF FrameOfMaps
    <3> QED
      BY <3>2, <3>3
  <2> HIDE DEF g
  <2>7. /\ G \in Seq(FrameOfMaps) \ {<<>>} /\ Len(G) = p /\ G[p] = g
        /\ \A k \in 1..p : k # p => G[k] = F[k]
    <3> HIDE DEF G, F
    <3>1. \A k \in 1..p : k \in 1..n
      BY <2>2
    <3>2. \A k \in 1..p : G[k] \in FrameOfMaps
      BY <1>3, <2>3, <2>6, <3>1
    <3>3. G \in [1..p -> FrameOfMaps]
      BY <2>3, <3>2
    <3>4. p \in 1..p
      OBVIOUS
    <3>5. G \in Seq(FrameOfMaps) /\ Len(G) = p
      BY <3>3
    <3> QED
      BY <2>3, <3>4, <3>5
  <2> HIDE DEF G, F
  <2>8. \A k \in 1..p : G[k].e0 = F[k].e0 /\ G[k].e1 = F[k].e1
    BY <2>6, <2>7 DEF b
  <2>9. ComparingHolds(G, mheld'[t])
    <3>1. Len(mheld'[t]) = 2 * (Len(G) - 1) + HeldIn(G[Len(G)].st)
      <4>1. HeldIn(g.st) = 2 /\ m - 1 = 2 * (p - 1) + 2
        BY <1>4, <2>1, <2>6 DEF HeldIn
      <4> QED
        BY <1>5, <2>7, <4>1
    <3>2. \A k \in 1..p : k \in 1..n /\ k < n /\ (k < p => k # p)
      BY <2>1
    <3>3. \A k \in 1..p : k < p => G[k].st = "walk"
      <4>1. \A k \in 1..p : F[k].st = "walk"
        BY <1>1, <1>3, <3>2 DEF ComparingHolds
      <4> QED
        BY <2>7, <3>2, <4>1
    <3>4. \A k \in 1..p : G[k].st = "walk" =>
            G[k].left \subseteq DOMAIN table[G[k].e0] \cap DOMAIN table[G[k].e1]
      <4>1. \A k \in 1..p : F[k].st = "walk" =>
              F[k].left \subseteq DOMAIN table[F[k].e0] \cap DOMAIN table[F[k].e1]
        BY <1>1, <1>3, <3>2 DEF ComparingHolds
      <4> QED
        BY <2>5, <2>6, <2>7, <4>1
    <3>5. ASSUME NEW k \in 1..p
          PROVE  /\ 2 * k - 1 <= m - 1 => mheld'[t][2 * k - 1] = Locked(G[k].e0, "rd")
                 /\ 2 * k <= m - 1 => mheld'[t][2 * k] = Locked(G[k].e1, "rd")
      <4>1. /\ 2 * k - 1 <= m => mheld[t][2 * k - 1] = Locked(F[k].e0, "rd")
            /\ 2 * k <= m => mheld[t][2 * k] = Locked(F[k].e1, "rd")
        BY <1>1, <1>3, <1>4, <3>2, <3>5 DEF ComparingHolds
      <4>2. /\ 2 * k - 1 <= m - 1 => 2 * k - 1 \in 1..m - 1 /\ 2 * k - 1 <= m
            /\ 2 * k <= m - 1 => 2 * k \in 1..m - 1 /\ 2 * k <= m
        OBVIOUS
      <4> QED
        BY <1>5, <2>8, <4>1, <4>2
    <3> QED
      BY <1>5, <2>7, <3>1, <3>3, <3>4, <3>5 DEF ComparingHolds
  <2>10. \A k \in 1..Len(G) : {G[k].e0, G[k].e1} \subseteq malive
    <3>1. \A k \in 1..p : k \in 1..n
      BY <2>1
    <3> QED
      BY <1>3, <2>7, <2>8, <3>1
  <2> QED
    BY <1>2, <1>5, <2>4, <2>7, <2>9, <2>10, MapEqStep
<1> QED
  BY <1>6, <1>7

----------------------------------------------------------------------------
\* The collector keeps the maps that symbols and base blocks lead to, and with them
\* those that are being made.
LEMMA CollectMapsKeeps ==
  ASSUME MapsAssumption, MapsInv, CollectMaps
  PROVE  MapsInv'
<1> DEFINE R == mroot \cup bbs
           W == WithValues(R)
<1>1. MapStore /\ MapTypes
  BY DEF MapsInv, MapTypes, MapStore, MapVal
<1>2. /\ malive' = W /\ table' = [m \in Map |-> IF m \in W THEN table[m] ELSE Nothing]
      /\ mroot' = mroot /\ bbs' = bbs /\ mheld' = mheld /\ mcall' = mcall
  BY DEF CollectMaps
<1>3. R \subseteq Map /\ R \subseteq malive
  BY <1>1 DEF MapStore
<1>4. R \subseteq W /\ W \subseteq Map \cup Val
  <2>1. W \subseteq malive
    BY <1>1, <1>3, NestedInUse
  <2> QED
    BY <1>1, <2>1 DEF WithValues, MapStore
<1>5. \A m \in W \cap Map : ValuesOf(m) \subseteq W
  <2>1. /\ R \subseteq Nested(R) /\ Nested(R) \subseteq Map
        /\ Held(Nested(R)) \cap Map \subseteq Nested(R)
    BY <1>3, NestedIsComplete
  <2>2. \A m \in W \cap Map : m \in Nested(R)
    BY <2>1 DEF WithValues
  <2>3. \A m \in W \cap Map : ValuesOf(m) \subseteq Held(Nested(R))
    BY <2>2 DEF Held
  <2> QED
    BY <2>3 DEF WithValues
<1>6. \A t \in Thread : mcall[t] = Idle \/ mcall[t] \in MakeCall
  BY MapKinds DEF CollectMaps, MapSafe
<1> HIDE DEF R, W
<1>7. Nothing \in [{} -> MapVal] /\ {} \in SUBSET Key
  BY DEF Nothing
<1>8. /\ table' \in [Map -> UNION {[E -> MapVal] : E \in SUBSET Key}]
      /\ \A m \in W \cap Map : table'[m] = table[m]
      /\ \A m \in Map \ W : table'[m] = Nothing
  <2>1. \A m \in Map : table[m] \in UNION {[E -> MapVal] : E \in SUBSET Key}
    BY <1>1 DEF MapStore
  <2>2. Nothing \in UNION {[E -> MapVal] : E \in SUBSET Key}
    BY <1>7
  <2> QED
    BY <1>2, <2>1, <2>2
<1>9. TablesInUse'
  BY <1>2, <1>5, <1>8, TablesAre DEF ValuesOf
<1>10. MapTypes'
  <2>1. mroot' \subseteq malive' \cap Map /\ bbs' \subseteq malive' \cap Map
    BY <1>2, <1>3, <1>4 DEF R
  <2> QED
    BY <1>1, <1>2, <1>4, <1>8, <2>1 DEF MapTypes, MapVal
<1>11. OneMaker' /\ Exclusive(mheld)'
  BY <1>2 DEF MapsInv, OneMaker
<1>12. ASSUME NEW u \in Thread PROVE HoldsMapLocks(u)' /\ UsesInUse(u)'
  <2>1. HoldsMapLocks(u) /\ CallInUse(mcall[u], malive, bbs) /\ mcall[u] \notin MapEqCall
        /\ mcall[u] \notin WorkCall
    BY <1>6, MapKinds, MapKindsApart
  <2>2. HoldsMapLocks(u)'
    BY <1>2, <2>1 DEF HoldsMapLocks
  <2>3. KnownBy(mcall[u]) \subseteq W
    BY <1>4, <1>6, <2>1, KnownIs DEF CallInUse, R
  <2>4. KnowsOf(u)' = KnownBy(mcall[u])
    BY <1>2 DEF KnownBy, KnowsOf, Works, Compares, MapVal
  <2> QED
    BY <1>2, <2>1, <2>2, <2>3, <2>4 DEF UsesInUse, CallInUse
<1> QED
  BY <1>9, <1>10, <1>11, <1>12 DEF MapsInv

\* Every step keeps the invariant.
THEOREM MapsInvariance ==
  ASSUME MapsAssumption
  PROVE  MapsSpec => []MapsInv
<1>1. MapsInit => MapsInv
  BY MapsStart
<1>2. MapsInv /\ [MapsNext]_mapvars => MapsInv'
  <2> SUFFICES ASSUME MapsInv, [MapsNext]_mapvars PROVE MapsInv'
    OBVIOUS
  <2> USE DEF MapVal
  <2>1. CASE CollectMaps
    BY <2>1, CollectMapsKeeps
  <2>2. ASSUME NEW t \in Thread, NEW m \in Map, NEW n \in 0..MaxPairs, NEW keys \in [1..n -> Key],
               Make(t, m, keys)
        PROVE  MapsInv'
    BY <2>2, MakeMapKeeps
  <2>3. ASSUME NEW t \in Thread, NEW v \in Val \cup Map, MakePair(t, v) PROVE MapsInv'
    BY <2>3, MakePairKeeps
  <2>4. ASSUME NEW t \in Thread, NEW m \in Nested(mroot), NEW k \in Key,
               Start(t, "get", m, k, {}) \/ Start(t, "delete", m, k, {})
        PROVE  MapsInv'
    BY <2>4, StartKeeps DEF Writing
  <2>5. ASSUME NEW t \in Thread, NEW m \in Nested(mroot), NEW k \in Key, NEW v \in Val \cup Map,
               Start(t, "insert", m, k, v)
        PROVE  MapsInv'
    BY <2>5, StartKeeps DEF Writing
  <2>6. ASSUME NEW t \in Thread, NEW m \in Nested(mroot), Start(t, "print", m, {}, {})
        PROVE  MapsInv'
    BY <2>6, StartKeeps DEF Writing
  <2>7. ASSUME NEW t \in Thread, NEW m \in Map, UnbindMap(t, m) PROVE MapsInv'
    BY <2>7, UnbindMapKeeps
  <2>8. ASSUME NEW t \in Thread,
               MakeFails(t) \/ Made(t) \/ Lock(t) \/ Work(t) \/ Unlock(t) \/ Return(t)
        PROVE  MapsInv'
    BY <2>8, MakeEndKeeps, LockMapKeeps, WorkKeeps, UnlockMapKeeps, ReturnKeeps
  <2>9. ASSUME NEW t \in Thread, NEW m \in Nested(mroot), NEW n \in Nested(mroot),
               CompareMaps(t, m, n)
        PROVE  MapsInv'
    BY <2>9, CompareMapsKeeps
  <2>10. ASSUME NEW t \in Thread, LockNext(t) \/ CompareTables(t) PROVE MapsInv'
    BY <2>10, LockNextKeeps, CompareTablesKeeps
  <2>11. ASSUME NEW t \in Thread, NEW k \in Key, CompareValues(t, k) PROVE MapsInv'
    BY <2>11, CompareValuesKeeps
  <2>12. ASSUME NEW t \in Thread, UnlockSecondMap(t) \/ UnlockFirstMap(t) PROVE MapsInv'
    BY <2>12, UnlockSecondMapKeeps, UnlockFirstMapKeeps
  <2>13. CASE UNCHANGED mapvars
    <3>1. /\ table' = table /\ malive' = malive /\ mroot' = mroot /\ bbs' = bbs
          /\ mheld' = mheld /\ mcall' = mcall
      BY <2>13 DEF mapvars
    <3>2. MapTypes' /\ OneMaker' /\ Exclusive(mheld)'
      BY <3>1 DEF MapsInv, MapTypes, OneMaker
    <3>3. TablesInUse'
      BY <3>1 DEF MapsInv, TablesInUse, Held, ValuesOf
    <3>4. \A u \in Thread : HoldsMapLocks(u)' /\ UsesInUse(u)'
      BY <3>1 DEF MapsInv, HoldsMapLocks, ComparingHolds, UsesInUse, KnowsOf, Works, Compares
    <3> QED
      BY <3>2, <3>3, <3>4 DEF MapsInv
  <2> QED
    BY <2>1, <2>2, <2>3, <2>4, <2>5, <2>6, <2>7, <2>8, <2>9, <2>10, <2>11, <2>12, <2>13 DEF MapsNext
<1> QED
  BY <1>1, <1>2, PTL DEF MapsSpec

----------------------------------------------------------------------------
(* What the invariants say of threads and of the collector.                 *)

\* The maps of all calls, what they lead to and what a call is about to return are in
\* use, and who changes a map is alone with it.
LEMMA MapsStaySound ==
  ASSUME MapsInv
  PROVE  MapsInUse /\ Undisturbed
<1>1. MapsInUse
  <2>1. MapStore
    BY DEF MapsInv, MapTypes, MapStore, MapVal
  <2>2. mroot \cup UNION {KnowsOf(t) : t \in Thread} \subseteq malive
    BY DEF MapsInv, MapTypes, UsesInUse
  <2> QED
    BY <2>1, <2>2, NestedInUse DEF MapsInUse
<1>2. Undisturbed
  BY WriterAlone DEF Undisturbed
<1> QED
  BY <1>1, <1>2

\* All that a comparison holds is locked for reading.
LEMMA MapEqHeld ==
  ASSUME MapsInv, NEW t \in Thread, Compares(t), NEW k \in DOMAIN mheld[t]
  PROVE  mheld[t][k].mode = "rd"
<1> DEFINE F == mcall[t].frames
           h == mheld[t]
<1>1. PICK n \in Nat \ {0} : n = Len(F)
  BY InComparing
<1>2. /\ ComparingHolds(F, h) /\ h \in Seq(Locks(Map))
      /\ \A j \in 1..n : F[j] \in FrameOfMaps
  BY <1>1, InComparing
<1> HIDE DEF F, h
<1>3. PICK m \in Nat : m = Len(h)
  BY <1>2
<1>4. k \in 1..m
  BY <1>2, <1>3, LenProperties DEF h
<1>5. m <= 2 * n
  <2>1. n \in 1..n
    OBVIOUS
  <2>2. F[n].st \in {"lock0", "lock1", "walk", "compared", "unlock0", "lost"}
    BY <1>2, <2>1 DEF FrameOfMaps
  <2>3. PICK x \in {0, 1, 2} : x = HeldIn(F[n].st)
    BY <2>2 DEF HeldIn
  <2>4. m = 2 * (n - 1) + x
    BY <1>1, <1>2, <1>3, <2>3 DEF ComparingHolds
  <2> QED
    BY <2>4
<1>6. PICK j \in Nat \ {0} : k = 2 * j \/ k = 2 * j - 1
  <2>1. k \in Nat \ {0}
    BY <1>3, <1>4
  <2> QED
    BY <2>1, Halves
<1>7. j \in 1..n
  BY <1>4, <1>5, <1>6
<1>8. /\ 2 * j - 1 <= m => h[2 * j - 1] = Locked(F[j].e0, "rd")
      /\ 2 * j <= m => h[2 * j] = Locked(F[j].e1, "rd")
  BY <1>1, <1>2, <1>3, <1>7 DEF ComparingHolds
<1> QED
  BY <1>4, <1>6, <1>8 DEF h, Locked

\* A thread that waits for the lock of a map while it holds one is comparing : it has
\* locked, and wants, for reading only.
LEMMA MapWantsToRead ==
  ASSUME MapsInv, NEW t \in Thread, MapWants(t) # <<>>, NEW k \in DOMAIN mheld[t]
  PROVE  mheld[t][k].mode = "rd" /\ MapWants(t).mode = "rd"
<1> DEFINE c == mcall[t]
<1>1. CASE Works(t) /\ c.op \in Locking /\ c.st = "lock"
  <2>1. mheld[t] = <<>>
    BY <1>1, InWork
  <2> QED
    BY <2>1
<1>2. CASE Compares(t) /\ Inmost(t).st \in {"lock0", "lock1"}
  <2>1. ~Works(t)
    BY <1>2 DEF Works, Compares, Writing
  <2>2. MapWants(t).mode = "rd"
    <3>1. CASE Inmost(t).st = "lock0"
      <4>1. MapWants(t) = [c |-> Inmost(t).e0, mode |-> "rd"]
        BY <1>2, <2>1, <3>1 DEF MapWants
      <4> QED
        BY <4>1
    <3>2. CASE Inmost(t).st = "lock1"
      <4>1. MapWants(t) = [c |-> Inmost(t).e1, mode |-> "rd"]
        BY <1>2, <2>1, <3>2 DEF MapWants
      <4> QED
        BY <4>1
    <3> QED
      BY <1>2, <3>1, <3>2
  <2> QED
    BY <1>2, <2>2, MapEqHeld
<1> QED
  BY <1>1, <1>2 DEF MapWants

\* Of a circle one holds what the next wants, and nobody who waits keeps a reader out.
LEMMA NobodyInMapCircle ==
  ASSUME MapsInv
  PROVE  NoMapCircle
<1>1. DOMAIN mheld = Thread
  BY DEF MapsInv, MapTypes
<1> SUFFICES ASSUME NEW S \in SUBSET Thread, S # {},
                    \A t \in S : /\ MapWants(t) # <<>>
                                 /\ Keepers(mheld, MapWants(t).c, MapWants(t).mode) \cap S # {}
             PROVE  FALSE
  BY <1>1 DEF NoMapCircle, Stuck
<1>2. ASSUME NEW u \in S
      PROVE  \E v \in S : \E k \in DOMAIN mheld[v] :
               MapWants(u).mode = "wr" \/ mheld[v][k].mode = "wr"
  <2>1. PICK v \in Keepers(mheld, MapWants(u).c, MapWants(u).mode) : v \in S
    OBVIOUS
  <2>2. \E k \in DOMAIN mheld[v] : MapWants(u).mode = "wr" \/ mheld[v][k].mode = "wr"
    BY <2>1 DEF Keepers
  <2> QED
    BY <2>1, <2>2
<1>3. PICK t \in S : TRUE
  OBVIOUS
<1>4. PICK u \in S : \E k \in DOMAIN mheld[u] : TRUE
  BY <1>2, <1>3
<1>5. MapWants(u).mode = "rd"
  BY <1>4, MapWantsToRead
<1>6. PICK v \in S : \E k \in DOMAIN mheld[v] : mheld[v][k].mode = "wr"
  BY <1>2, <1>5
<1> QED
  BY <1>6, MapWantsToRead

\* Who counts as safe holds no lock of a map.
LEMMA MapVisits ==
  ASSUME MapsInv
  PROVE  MapVisitsPass
<1> SUFFICES ASSUME NEW t \in Thread, MapSafe(t) PROVE mheld[t] = <<>>
  BY DEF MapVisitsPass
<1>1. HoldsMapLocks(t) /\ (mcall[t] = Idle \/ mcall[t] \in MakeCall)
  BY MapKinds DEF MapSafe
<1> QED
  BY <1>1 DEF HoldsMapLocks

\* Threads that use arrays and maps never wait for each other in a circle, and the
\* collector never waits for a lock of theirs (nfunc_arr.c:68-93, 141-158;
\* nfunc_map.c:185-198, 246-274).
THEOREM ContainersNeverStuck ==
  ASSUME ArraysAssumption, MapsAssumption
  PROVE  ArraysSpec /\ MapsSpec => []NobodyStuck
<1>1. ArraysInv => NoCircle /\ ArrayVisitsPass
  BY NobodyInCircle, ArrayVisits
<1>2. MapsInv => NoMapCircle /\ MapVisitsPass
  BY NobodyInMapCircle, MapVisits
<1>3. ArraysInv /\ MapsInv => NobodyStuck
  BY <1>1, <1>2 DEF NobodyStuck
<1>4. ArraysSpec => []ArraysInv
  BY ArraysInvariance
<1>5. MapsSpec => []MapsInv
  BY MapsInvariance
<1> QED
  BY <1>3, <1>4, <1>5, PTL

\* Nothing is collected under the call that uses it, and no map changes under its reader.
\* In programs that do not assign through several indices, moreover, an access walks
\* through arrays that it has locked, and a comparison of arrays ends with what it has
\* found equal still equal; in the others it may not (nfunc_arr.c:68-93, 258-284;
\* nfunc_map.c:185-198, 299-464).
THEOREM ContainersUsedSafely ==
  ASSUME ArraysAssumption, MapsAssumption
  PROVE  ArraysSpec /\ MapsSpec => []UsedSafely
<1>1. ArraysInv => ArraysInUse /\ ComparedStaysEqual /\ WalksLocked
  BY ArraysStayInUse, WalkIsLocked DEF ArraysInv
<1>2. MapsInv => MapsInUse /\ Undisturbed
  BY MapsStaySound
<1>3. ArraysInv /\ MapsInv => UsedSafely
  BY <1>1, <1>2 DEF UsedSafely
<1>4. ArraysSpec => []ArraysInv
  BY ArraysInvariance
<1>5. MapsSpec => []MapsInv
  BY MapsInvariance
<1> QED
  BY <1>3, <1>4, <1>5, PTL

----------------------------------------------------------------------------
(* The hash table.                                                          *)

\* A set of n things has 2^n subsets, which is how powers of 2 are counted here.
LEMMA PowerOf2 ==
  ASSUME NEW n \in Nat
  PROVE  2^n \in Nat /\ 2^n >= 1 /\ 2^(n + 1) = 2 * 2^n
<1> DEFINE S == SUBSET (1 .. n)
           T == SUBSET (1 .. n + 1)
           U == T \ S
           f == [s \in S |-> s \cup {n + 1}]
<1>1. IsFiniteSet(1 .. n) /\ Cardinality(1 .. n) = n
  <2>1. 1 \in Int /\ n \in Int /\ (IF 1 > n THEN 0 ELSE n - 1 + 1) = n
    OBVIOUS
  <2> QED
    BY <2>1, FS_Interval
<1>2. IsFiniteSet(1 .. n + 1) /\ Cardinality(1 .. n + 1) = n + 1
  <2>1. 1 \in Int /\ n + 1 \in Int /\ (IF 1 > n + 1 THEN 0 ELSE n + 1 - 1 + 1) = n + 1
    OBVIOUS
  <2> QED
    BY <2>1, FS_Interval
<1>3. IsFiniteSet(S) /\ Cardinality(S) = 2^n
  BY <1>1, FS_SUBSET
<1>4. IsFiniteSet(T) /\ Cardinality(T) = 2^(n + 1)
  BY <1>2, FS_SUBSET
<1>5. 1 .. n + 1 = (1 .. n) \cup {n + 1} /\ n + 1 \notin 1 .. n
  OBVIOUS
<1>6. f \in Bijection(S, U)
  <2>1. f \in [S -> U]
    BY <1>5
  <2>2. \A s, t \in S : f[s] = f[t] => s = t
    BY <1>5
  <2>3. ASSUME NEW u \in U  PROVE \E s \in S : f[s] = u
    <3>1. n + 1 \in u
      BY <1>5
    <3>2. u \ {n + 1} \in S /\ (u \ {n + 1}) \cup {n + 1} = u
      BY <1>5, <3>1
    <3> QED
      BY <3>2
  <2> HIDE DEF f, S, U
  <2>4. f \in Injection(S, U)
    BY <2>1, <2>2 DEF Injection, IsInjective
  <2>5. f \in Surjection(S, U)
    BY <2>1, <2>3 DEF Surjection
  <2> QED
    BY <2>4, <2>5 DEF Bijection
<1>7. IsFiniteSet(U) /\ Cardinality(U) = Cardinality(S)
  <2> HIDE DEF f, S, U
  <2> QED
    BY <1>3, <1>6, FS_Bijection DEF ExistsBijection
<1>8. T = S \cup U /\ S \cap U = {}
  BY <1>5
<1>9. Cardinality(S \cup U) = Cardinality(S) + Cardinality(U) - Cardinality(S \cap U)
  <2> HIDE DEF S, U
  <2> QED
    BY <1>3, <1>7, FS_Union
<1>10. Cardinality({}) = 0
  BY FS_EmptySet
<1>11. Cardinality(S) \in Nat /\ Cardinality(S) # 0
  <2>1. {} \in S
    OBVIOUS
  <2> HIDE DEF S
  <2> QED
    BY <1>3, <2>1, FS_CardinalityType, FS_EmptySet
<1> HIDE DEF S, T, U, f
<1>12. Cardinality(T) = Cardinality(S) + Cardinality(S)
  <2>1. Cardinality(T) = Cardinality(S) + Cardinality(S) - 0
    BY <1>7, <1>8, <1>9, <1>10, Zenon
  <2>2. \A x \in Nat : x + x - 0 = x + x
    OBVIOUS
  <2> QED
    BY <1>11, <2>1, <2>2, Zenon
<1>13. \A x \in Nat : x # 0 => x >= 1 /\ x + x = 2 * x
  OBVIOUS
<1>14. 2^n \in Nat /\ 2^n # 0 /\ 2^(n + 1) = 2^n + 2^n
  BY <1>3, <1>4, <1>11, <1>12, Zenon
<1> QED
  BY <1>13, <1>14, Zenon

LEMMA TwiceProduct ==
  ASSUME NEW a \in Nat, NEW b \in Nat
  PROVE  a * b \in Nat /\ a * (2 * b) = 2 * (a * b)
  OBVIOUS

LEMMA PowerOfSum ==
  ASSUME NEW a \in Nat
  PROVE  \A b \in Nat : 2^(a + b) = 2^a * 2^b
<1> DEFINE S == {b \in Nat : 2^(a + b) = 2^a * 2^b}
<1>1. 0 \in S
  <2>1. 2^a \in Nat /\ 2^0 = 1 /\ a + 0 = a
    BY PowerOf2
  <2>2. \A x \in Nat : x * 1 = x
    OBVIOUS
  <2> QED
    BY <2>1, <2>2
<1>2. ASSUME NEW b \in Nat, b \in S  PROVE b + 1 \in S
  <2>1. 2^a \in Nat /\ 2^b \in Nat /\ 2^(b + 1) = 2 * 2^b
    BY PowerOf2
  <2>2. a + b \in Nat /\ a + (b + 1) = a + b + 1
    OBVIOUS
  <2>3. 2^(a + (b + 1)) = 2 * 2^(a + b)
    BY <2>2, PowerOf2
  <2>4. 2^(a + b) = 2^a * 2^b
    BY <1>2
  <2>5. 2^a * (2 * 2^b) = 2 * (2^a * 2^b)
    BY <2>1, TwiceProduct
  <2>6. 2^(a + (b + 1)) = 2^a * 2^(b + 1)
    BY <2>1, <2>3, <2>4, <2>5, Zenon
  <2> QED
    BY <2>6
<1> HIDE DEF S
<1>3. \A b \in Nat : b \in S
  BY <1>1, <1>2, AllNaturals
<1> QED
  BY <1>3 DEF S

\* A quotient stays below the quotient of a product.
LEMMA QuotientBelow ==
  ASSUME NEW a \in Nat, NEW b \in Nat, a >= 1, NEW h \in Nat, h < a * b
  PROVE  h \div a \in Nat /\ h \div a < b
<1>1. PICK d \in Int : d = h \div a
  OBVIOUS
<1>2. a * d <= h /\ h < a * d + a /\ d >= 0
  BY <1>1
<1>3. ~ (d >= b)
  <2> SUFFICES ASSUME d >= b PROVE FALSE
    OBVIOUS
  <2>1. a * d >= a * b
    BY <1>2
  <2> QED
    BY <1>2, <2>1
<1> QED
  BY <1>1, <1>2, <1>3

LEMMA SizesAre ==
  ASSUME NEW b \in Nat
  PROVE  mapsz(b) \in Nat /\ mapsz(b) >= 1 /\ mapsz(b + 1) = 2 * mapsz(b)
  BY PowerOf2 DEF mapsz

\* A hash value's leading bits are an index into the table.
LEMMA IndexInTable ==
  ASSUME HashAssumption, NEW b \in MinBits .. MaxBits, NEW k \in HashKey
  PROVE  index(b, k) \in 0 .. mapsz(b) - 1
<1>1. b \in Nat /\ HashBits - b \in Nat /\ (HashBits - b) + b = HashBits
  BY DEF HashAssumption
<1>2. PICK c \in Nat : c = HashBits - b
  BY <1>1
<1>3. 2^HashBits = 2^c * 2^b
  <2>1. 2^(c + b) = 2^c * 2^b
    BY <1>1, <1>2, PowerOfSum
  <2> QED
    BY <1>1, <1>2, <2>1
<1>4. 2^c \in Nat /\ 2^c >= 1 /\ 2^b \in Nat /\ 2^HashBits \in Nat
  <2>1. HashBits \in Nat
    BY DEF HashAssumption
  <2> QED
    BY <1>1, <1>2, <2>1, PowerOf2
<1>5. Hv[k] \in Nat /\ Hv[k] < 2^HashBits
  <2>1. Hv[k] \in 0 .. 2^HashBits - 1
    BY DEF HashAssumption
  <2> QED
    BY <1>4, <2>1
<1>6. Hv[k] \div 2^c \in Nat /\ Hv[k] \div 2^c < 2^b
  BY <1>3, <1>4, <1>5, QuotientBelow
<1>7. index(b, k) = Hv[k] \div 2^c
  BY <1>2 DEF index
<1>8. \A x, y \in Nat : x < y => x \in 0 .. y - 1
  OBVIOUS
<1> QED
  BY <1>4, <1>6, <1>7, <1>8 DEF mapsz

\* The nodes of a table are those of its chains, and a key's are on its chain.
LEMMA NodesAre ==
  ASSUME HashAssumption, NEW b \in MinBits .. MaxBits, NEW c, Hashed(c, b)
  PROVE  /\ Nodes(c) \subseteq Node
         /\ \A n : n \in Nodes(c) <=> n \in Node /\ n \in c[index(b, n.key)]
         /\ \A k \in HashKey : hfind(c, b, k) = {n \in Nodes(c) : n.key = k}
         /\ \A k \in HashKey : index(b, k) \in DOMAIN c
<1>1. /\ \A i \in DOMAIN c : c[i] \subseteq Node /\ \A n \in c[i] : index(b, n.key) = i
      /\ \A k \in HashKey : index(b, k) \in DOMAIN c
  BY IndexInTable DEF Hashed
<1>2. \A n \in Node : n.key \in HashKey
  BY DEF Node
<1>3. \A n : n \in Nodes(c) <=> \E i \in DOMAIN c : n \in c[i]
  BY DEF Nodes
<1>4. \A n : n \in Nodes(c) <=> n \in Node /\ n \in c[index(b, n.key)]
  BY <1>1, <1>2, <1>3
<1>5. ASSUME NEW k \in HashKey
      PROVE  hfind(c, b, k) = {n \in Nodes(c) : n.key = k}
  <2>1. hfind(c, b, k) = {n \in c[index(b, k)] : n.key = k}
    BY DEF hfind
  <2>2. \A n \in c[index(b, k)] : n \in Nodes(c)
    BY <1>1, <1>3
  <2>3. \A n \in Nodes(c) : n.key = k => n \in c[index(b, k)]
    BY <1>4
  <2> QED
    BY <2>1, <2>2, <2>3
<1> QED
  BY <1>1, <1>4, <1>5

\* Every node moves to a chain of the new table.
LEMMA RehashKeeps ==
  ASSUME HashAssumption, NEW b \in MinBits .. MaxBits, NEW c, Hashed(c, b),
         NEW new \in MinBits .. MaxBits
  PROVE  Hashed(Rehash(c, b, new), new) /\ Nodes(Rehash(c, b, new)) = Nodes(c)
<1>1. PICK r : r = Rehash(c, b, new)
  OBVIOUS
<1>2. /\ DOMAIN r = 0 .. mapsz(new) - 1
      /\ \A i \in 0 .. mapsz(new) - 1 : r[i] = {n \in Nodes(c) : index(new, n.key) = i}
  BY <1>1 DEF Rehash
<1>3. Nodes(c) \subseteq Node
  BY NodesAre
<1>4. \A n \in Node : index(new, n.key) \in 0 .. mapsz(new) - 1
  BY IndexInTable DEF Node
<1>5. Nodes(r) = Nodes(c)
  <2>1. \A n : n \in Nodes(r) <=> \E i \in DOMAIN r : n \in r[i]
    BY DEF Nodes
  <2>2. \A n \in Nodes(r) : n \in Nodes(c)
    BY <1>2, <2>1
  <2>3. \A n \in Nodes(c) : n \in Nodes(r)
    BY <1>2, <1>3, <1>4, <2>1
  <2> QED
    BY <2>2, <2>3
<1>6. \A m, n \in Nodes(r) : m.key = n.key => m = n
  BY <1>5 DEF Hashed
<1>7. \A i \in DOMAIN r : r[i] \subseteq Node /\ \A n \in r[i] : index(new, n.key) = i
  BY <1>2, <1>3
<1> QED
  BY <1>1, <1>2, <1>5, <1>6, <1>7 DEF Hashed

LEMMA ModifyKeeps ==
  ASSUME HashAssumption, NEW b \in MinBits .. MaxBits, NEW c, Hashed(c, b),
         NEW s, NEW new \in Int
  PROVE  LET m == Modify(c, s, b, new)
         IN  /\ m.bits = Clamp(new) /\ m.bits \in MinBits .. MaxBits /\ m.sz = s
             /\ Hashed(m.chain, m.bits) /\ Nodes(m.chain) = Nodes(c)
<1>1. Clamp(new) \in MinBits .. MaxBits
  BY DEF Clamp, HashAssumption
<1>2. PICK to \in MinBits .. MaxBits : to = Clamp(new)
  BY <1>1
<1>3. Modify(c, s, b, new)
        = [chain |-> IF to = b THEN c ELSE Rehash(c, b, to), sz |-> s, bits |-> to]
  BY <1>2 DEF Modify
<1>4. Hashed(Rehash(c, b, to), to) /\ Nodes(Rehash(c, b, to)) = Nodes(c)
  BY RehashKeeps
<1>5. PICK m : m = Modify(c, s, b, new)
  OBVIOUS
<1>6. m.bits = to /\ m.sz = s /\ m.chain = IF to = b THEN c ELSE Rehash(c, b, to)
  BY <1>3, <1>5
<1>7. Hashed(m.chain, to) /\ Nodes(m.chain) = Nodes(c)
  BY <1>4, <1>6
<1> QED
  BY <1>2, <1>5, <1>6, <1>7

\* A chain from which the nodes of a key are taken.
LEMMA ChainLess ==
  ASSUME HashAssumption, bits \in MinBits .. MaxBits, Hashed(chain, bits), NEW k \in HashKey,
         NEW f, f = hfind(chain, bits, k), NEW d, d = [chain EXCEPT ![index(bits, k)] = @ \ f]
  PROVE  Hashed(d, bits) /\ Nodes(d) = Nodes(chain) \ f
<1>1. /\ index(bits, k) \in DOMAIN chain
      /\ hfind(chain, bits, k) = {n \in Nodes(chain) : n.key = k}
      /\ \A n : n \in Nodes(chain) <=> n \in Node /\ n \in chain[index(bits, n.key)]
      /\ \A j \in HashKey : index(bits, j) \in DOMAIN chain
  BY NodesAre
<1>2. /\ DOMAIN chain = 0 .. mapsz(bits) - 1
      /\ \A i \in DOMAIN chain :
           chain[i] \subseteq Node /\ \A n \in chain[i] : index(bits, n.key) = i
      /\ \A m, n \in Nodes(chain) : m.key = n.key => m = n
  BY DEF Hashed
<1>3. \A n \in Node : n.key \in HashKey
  BY DEF Node
<1>5. /\ DOMAIN d = DOMAIN chain
      /\ \A i \in DOMAIN chain :
           d[i] = IF i = index(bits, k) THEN chain[i] \ hfind(chain, bits, k) ELSE chain[i]
  OBVIOUS
<1>6. Nodes(d) = {n \in Nodes(chain) : n.key # k}
  <2>1. \A n : n \in Nodes(d) <=> \E i \in DOMAIN d : n \in d[i]
    BY DEF Nodes
  <2>2. \A n : n \in Nodes(chain) <=> \E i \in DOMAIN chain : n \in chain[i]
    BY DEF Nodes
  <2>3. ASSUME NEW n \in Nodes(d)  PROVE n \in Nodes(chain) /\ n.key # k
    <3>1. PICK i \in DOMAIN chain : n \in d[i]
      BY <1>5, <2>1
    <3>2. n \in chain[i] /\ n \in Nodes(chain)
      BY <1>5, <2>2, <3>1
    <3>3. index(bits, n.key) = i
      BY <1>2, <3>2
    <3>4. n.key = k => i = index(bits, k)
      BY <3>3
    <3> QED
      BY <1>1, <1>5, <3>1, <3>2, <3>4
  <2>4. ASSUME NEW n \in Nodes(chain), n.key # k  PROVE n \in Nodes(d)
    <3>1. n \in chain[index(bits, n.key)] /\ index(bits, n.key) \in DOMAIN chain
      BY <1>1, <1>3
    <3>2. n \notin hfind(chain, bits, k)
      BY <1>1, <2>4
    <3>3. n \in d[index(bits, n.key)]
      BY <1>5, <3>1, <3>2
    <3> QED
      BY <1>5, <2>1, <3>1, <3>3
  <2> QED
    BY <2>3, <2>4
<1>7. Hashed(d, bits)
  <2>1. \A i \in DOMAIN d : d[i] \subseteq chain[i]
    BY <1>5
  <2>2. \A i \in DOMAIN d : d[i] \subseteq Node /\ \A n \in d[i] : index(bits, n.key) = i
    BY <1>2, <1>5, <2>1
  <2> QED
    BY <1>2, <1>5, <1>6, <2>2 DEF Hashed
<1> QED
  BY <1>1, <1>6, <1>7

\* A chain to which a node of a new key is added.
LEMMA ChainMore ==
  ASSUME HashAssumption, NEW b \in MinBits .. MaxBits, NEW c, Hashed(c, b), NEW k \in HashKey,
         NEW x \in Node, x.key = k, \A n \in Nodes(c) : n.key # k,
         NEW e, e = [c EXCEPT ![index(b, k)] = @ \cup {x}]
  PROVE  Hashed(e, b) /\ Nodes(e) = Nodes(c) \cup {x}
<1>1. /\ index(b, k) \in DOMAIN c
      /\ hfind(c, b, k) = {n \in Nodes(c) : n.key = k}
      /\ \A n : n \in Nodes(c) <=> n \in Node /\ n \in c[index(b, n.key)]
      /\ \A j \in HashKey : index(b, j) \in DOMAIN c
  BY NodesAre
<1>2. /\ DOMAIN c = 0 .. mapsz(b) - 1
      /\ \A i \in DOMAIN c : c[i] \subseteq Node /\ \A n \in c[i] : index(b, n.key) = i
      /\ \A m, n \in Nodes(c) : m.key = n.key => m = n
  BY DEF Hashed
<1>5. /\ DOMAIN e = DOMAIN c
      /\ \A i \in DOMAIN c : e[i] = IF i = index(b, k) THEN c[i] \cup {x} ELSE c[i]
  OBVIOUS
<1>6. \A i \in DOMAIN e : e[i] \subseteq Node /\ \A n \in e[i] : index(b, n.key) = i
  <2>1. ASSUME NEW i \in DOMAIN c, i = index(b, k)
        PROVE  e[i] \subseteq Node /\ \A n \in e[i] : index(b, n.key) = i
    <3>1. e[i] = c[i] \cup {x}
      BY <1>5, <2>1
    <3>2. index(b, x.key) = i
      BY <2>1
    <3> QED
      BY <1>2, <3>1, <3>2
  <2>2. ASSUME NEW i \in DOMAIN c, i # index(b, k)
        PROVE  e[i] \subseteq Node /\ \A n \in e[i] : index(b, n.key) = i
    <3>1. e[i] = c[i]
      BY <1>5, <2>2
    <3> QED
      BY <1>2, <3>1
  <2> QED
    BY <1>5, <2>1, <2>2
<1>7. Nodes(e) = Nodes(c) \cup {x}
  <2>1. \A n : n \in Nodes(e) <=> \E i \in DOMAIN c : n \in e[i]
    BY <1>5 DEF Nodes
  <2>2. \A n : n \in Nodes(c) <=> \E i \in DOMAIN c : n \in c[i]
    BY DEF Nodes
  <2>3. \A n \in Nodes(e) : n \in Nodes(c) \/ n = x
    BY <1>5, <2>1, <2>2
  <2>4. \A n \in Nodes(c) : n \in Nodes(e)
    BY <1>5, <2>1, <2>2
  <2>5. x \in Nodes(e)
    BY <1>1, <1>5, <2>1
  <2> QED
    BY <2>3, <2>4, <2>5
<1>8. \A m, n \in Nodes(e) : m.key = n.key => m = n
  BY <1>2, <1>7
<1> QED
  BY <1>2, <1>5, <1>6, <1>7, <1>8 DEF Hashed

\* A node less, or one more, leaves the load in its bounds.
LEMMA LoadedLess ==
  ASSUME HashAssumption, NEW b \in MinBits .. MaxBits, NEW s \in Nat, Loaded(s + 1, b)
  PROVE  Loaded(s, Clamp(Shrunk(s, b)))
<1>1. b \in Nat /\ MinBits \in Nat /\ MaxBits \in Nat /\ MinBits <= b /\ b <= MaxBits
  BY DEF HashAssumption
<1>2. PICK q \in Nat : q = mapsz(b) /\ q >= 1
  BY <1>1, SizesAre
<1>3. (b < MaxBits => s + 1 <= q + 1) /\ (b > MinBits => s + 1 >= q \div 4)
  BY <1>2 DEF Loaded
<1>4. CASE s < q \div 4 /\ b > MinBits
  <2>1. Clamp(Shrunk(s, b)) = b - 1
    <3>1. Shrunk(s, b) = b - 1
      BY <1>2, <1>4 DEF Shrunk
    <3>2. ~ (b - 1 < MinBits) /\ ~ (b - 1 > MaxBits)
      BY <1>1, <1>4
    <3> QED
      BY <3>1, <3>2 DEF Clamp
  <2>2. PICK h \in Nat : h = mapsz(b - 1) /\ h >= 1 /\ q = 2 * h
    <3>1. b - 1 \in Nat /\ b - 1 + 1 = b
      BY <1>1, <1>4
    <3>2. mapsz(b - 1) \in Nat /\ mapsz(b - 1) >= 1 /\ mapsz(b - 1 + 1) = 2 * mapsz(b - 1)
      BY <3>1, SizesAre
    <3> QED
      BY <1>2, <3>1, <3>2
  <2>3. s <= h + 1 /\ s >= h \div 4
    <3>1. s < (2 * h) \div 4 /\ s + 1 >= (2 * h) \div 4
      BY <1>3, <1>4, <2>2
    <3> QED
      BY <2>2, <3>1
  <2> QED
    BY <2>1, <2>2, <2>3 DEF Loaded
<1>5. CASE s < q \div 4 /\ ~ (b > MinBits)
  <2>1. b = MinBits /\ Clamp(Shrunk(s, b)) = b
    <3>1. b = MinBits /\ b - 1 < MinBits
      BY <1>1, <1>5
    <3> QED
      BY <1>2, <1>5, <3>1 DEF Clamp, Shrunk
  <2>2. s <= q + 1
    BY <1>2, <1>5
  <2>3. ~ (b > MinBits)
    BY <1>5
  <2> QED
    BY <1>2, <2>1, <2>2, <2>3 DEF Loaded
<1>6. CASE ~ (s < q \div 4)
  <2>1. Clamp(Shrunk(s, b)) = b
    <3>1. Shrunk(s, b) = b /\ ~ (b < MinBits) /\ ~ (b > MaxBits)
      BY <1>1, <1>2, <1>6 DEF Shrunk
    <3> QED
      BY <3>1 DEF Clamp
  <2>2. (b < MaxBits => s <= q + 1) /\ s >= q \div 4
    BY <1>2, <1>3, <1>6
  <2> QED
    BY <1>2, <2>1, <2>2 DEF Loaded
<1> QED
  BY <1>4, <1>5, <1>6

LEMMA LoadedMore ==
  ASSUME HashAssumption, NEW b \in MinBits .. MaxBits, NEW s \in Nat, Loaded(s, b)
  PROVE  Loaded(s + 1, Clamp(IF s > mapsz(b) THEN b + 1 ELSE b))
<1>1. b \in Nat /\ MinBits \in Nat /\ MaxBits \in Nat /\ MinBits <= b /\ b <= MaxBits
  BY DEF HashAssumption
<1>2. PICK q \in Nat : q = mapsz(b) /\ q >= 1 /\ mapsz(b + 1) = 2 * q
  BY <1>1, SizesAre
<1>3. (b < MaxBits => s <= q + 1) /\ (b > MinBits => s >= q \div 4)
  BY <1>2 DEF Loaded
<1>4. CASE s > q /\ b < MaxBits
  <2>1. Clamp(IF s > mapsz(b) THEN b + 1 ELSE b) = b + 1
    <3>1. ~ (b + 1 < MinBits) /\ ~ (b + 1 > MaxBits)
      BY <1>1, <1>4
    <3> QED
      BY <1>2, <1>4, <3>1 DEF Clamp
  <2>2. s + 1 <= 2 * q + 1 /\ s + 1 >= (2 * q) \div 4
    BY <1>2, <1>3, <1>4
  <2> QED
    BY <1>2, <2>1, <2>2 DEF Loaded
<1>5. CASE s > q /\ ~ (b < MaxBits)
  <2>1. b = MaxBits /\ Clamp(IF s > mapsz(b) THEN b + 1 ELSE b) = b
    <3>1. b = MaxBits /\ ~ (b + 1 < MinBits) /\ b + 1 > MaxBits
      BY <1>1, <1>5
    <3> QED
      BY <1>2, <1>5, <3>1 DEF Clamp
  <2>2. s + 1 >= q \div 4
    BY <1>2, <1>5
  <2> QED
    BY <1>2, <1>5, <2>1, <2>2 DEF Loaded
<1>6. CASE ~ (s > q)
  <2>1. Clamp(IF s > mapsz(b) THEN b + 1 ELSE b) = b
    <3>1. ~ (b < MinBits) /\ ~ (b > MaxBits)
      BY <1>1
    <3> QED
      BY <1>2, <1>6, <3>1 DEF Clamp
  <2>2. s + 1 <= q + 1 /\ (b > MinBits => s + 1 >= q \div 4)
    BY <1>2, <1>3, <1>6
  <2> QED
    BY <1>2, <2>1, <2>2 DEF Loaded
<1> QED
  BY <1>4, <1>5, <1>6

\* Deletion takes the node of the key and keeps the rest.
LEMMA DelIs ==
  ASSUME HashAssumption, HashInv, NEW k \in HashKey
  PROVE  LET d == Del(k)
         IN  /\ d.bits \in MinBits .. MaxBits /\ Hashed(d.chain, d.bits)
             /\ Nodes(d.chain) = {n \in Nodes(chain) : n.key # k}
             /\ IsFiniteSet(Nodes(d.chain)) /\ d.sz = Cardinality(Nodes(d.chain))
             /\ Loaded(d.sz, d.bits)
<1>1. /\ bits \in MinBits .. MaxBits /\ Hashed(chain, bits) /\ hsz = Cardinality(Nodes(chain))
      /\ Loaded(hsz, bits) /\ IsFiniteSet(Nodes(chain))
  BY DEF HashInv, WellHashed, Load
<1>2. PICK f : f = hfind(chain, bits, k)
  OBVIOUS
<1>3. f = {n \in Nodes(chain) : n.key = k}
  BY <1>1, <1>2, NodesAre
<1>4. PICK d : d = Del(k)
  OBVIOUS
<1>5. CASE f = {}
  <2>1. d = [chain |-> chain, bits |-> bits, sz |-> hsz]
    BY <1>2, <1>4, <1>5 DEF Del
  <2>2. d.chain = chain /\ d.bits = bits /\ d.sz = hsz
    BY <2>1
  <2>3. Nodes(chain) = {n \in Nodes(chain) : n.key # k}
    BY <1>3, <1>5
  <2> QED
    BY <1>1, <1>4, <2>2, <2>3
<1>6. CASE f # {}
  <2>1. PICK c : c = [chain EXCEPT ![index(bits, k)] = @ \ f]
    OBVIOUS
  <2>2. Hashed(c, bits) /\ Nodes(c) = {n \in Nodes(chain) : n.key # k}
    <3>1. bits \in MinBits .. MaxBits /\ Hashed(chain, bits)
      BY <1>1
    <3>2. Hashed(c, bits) /\ Nodes(c) = Nodes(chain) \ f
      BY <1>2, <2>1, <3>1, ChainLess
    <3> QED
      BY <1>3, <3>2
  <2>3. PICK x \in Nodes(chain) : x.key = k
    BY <1>3, <1>6
  <2>4. Nodes(c) = Nodes(chain) \ {x}
    BY <1>1, <2>2, <2>3 DEF Hashed
  <2>5. IsFiniteSet(Nodes(c)) /\ Cardinality(Nodes(c)) = hsz - 1
    BY <1>1, <2>3, <2>4, FS_RemoveElement
  <2>6. Cardinality(Nodes(c)) \in Nat /\ hsz \in Nat
    BY <1>1, <2>5, FS_CardinalityType
  <2>7. PICK s \in Nat : s = hsz - 1 /\ hsz = s + 1
    BY <2>5, <2>6
  <2>8. d = Modify(c, s, bits, Shrunk(s, bits))
    BY <1>2, <1>4, <1>6, <2>1, <2>7 DEF Del
  <2>9. Shrunk(s, bits) \in Int
    <3>1. bits \in Int /\ bits - 1 \in Int
      BY <1>1 DEF HashAssumption
    <3> QED
      BY <3>1 DEF Shrunk
  <2>10. /\ d.bits = Clamp(Shrunk(s, bits)) /\ d.bits \in MinBits .. MaxBits /\ d.sz = s
         /\ Hashed(d.chain, d.bits) /\ Nodes(d.chain) = Nodes(c)
    BY <1>1, <2>2, <2>8, <2>9, ModifyKeeps
  <2>11. Loaded(s, d.bits)
    BY <1>1, <2>7, <2>10, LoadedLess
  <2> QED
    BY <1>4, <2>2, <2>5, <2>7, <2>10, <2>11
<1> QED
  BY <1>5, <1>6

\* What is looked up is the value of the key's node.
LEMMA LookupIs ==
  ASSUME HashAssumption, NEW b \in MinBits .. MaxBits, NEW c, Hashed(c, b), NEW k \in HashKey,
         NEW g, g = IF hfind(c, b, k) = {} THEN NoValue ELSE (CHOOSE n \in hfind(c, b, k) : TRUE).v
  PROVE  /\ \A n \in Nodes(c) : n.key = k => g = n.v
         /\ (\A n \in Nodes(c) : n.key # k) => g = NoValue
<1>1. hfind(c, b, k) = {n \in Nodes(c) : n.key = k}
  BY NodesAre
<1>2. \A m, n \in Nodes(c) : m.key = n.key => m = n
  BY DEF Hashed
<1>3. ASSUME NEW n \in Nodes(c), n.key = k  PROVE g = n.v
  <2>1. hfind(c, b, k) = {n}
    BY <1>1, <1>2, <1>3
  <2>2. (CHOOSE m \in {n} : TRUE) = n
    OBVIOUS
  <2> QED
    BY <2>1, <2>2
<1>4. (\A n \in Nodes(c) : n.key # k) => g = NoValue
  BY <1>1
<1> QED
  BY <1>3, <1>4

LEMMA GetIs ==
  ASSUME HashAssumption, WellHashed, NEW k \in HashKey
  PROVE  /\ \A n \in Nodes(chain) : n.key = k => HashGet(k) = n.v
         /\ (\A n \in Nodes(chain) : n.key # k) => HashGet(k) = NoValue
<1>1. bits \in MinBits .. MaxBits /\ Hashed(chain, bits)
  BY DEF WellHashed
<1>2. HashGet(k) = IF hfind(chain, bits, k) = {} THEN NoValue
                   ELSE (CHOOSE n \in hfind(chain, bits, k) : TRUE).v
  BY DEF HashGet
<1>3. \A n \in Nodes(chain) : n.key = k => HashGet(k) = n.v
  BY <1>1, <1>2, LookupIs
<1>4. (\A n \in Nodes(chain) : n.key # k) => HashGet(k) = NoValue
  BY <1>1, <1>2, LookupIs
<1> QED
  BY <1>3, <1>4

LEMMA GetWillBe ==
  ASSUME HashAssumption, WellHashed', NEW k \in HashKey
  PROVE  /\ \A n \in Nodes(chain)' : n.key = k => HashGet(k)' = n.v
         /\ (\A n \in Nodes(chain)' : n.key # k) => HashGet(k)' = NoValue
<1>1. bits' \in MinBits .. MaxBits /\ Hashed(chain', bits')
  BY DEF WellHashed
<1>2. HashGet(k)' = IF hfind(chain', bits', k) = {} THEN NoValue
                    ELSE (CHOOSE n \in hfind(chain', bits', k) : TRUE).v
  BY DEF HashGet
<1>3. /\ \A n \in Nodes(chain') : n.key = k => HashGet(k)' = n.v
      /\ (\A n \in Nodes(chain') : n.key # k) => HashGet(k)' = NoValue
  BY <1>1, <1>2, LookupIs
<1> QED
  BY <1>3

\* Both operations change one key of the map and keep the invariant.
LEMMA HashDelKeeps ==
  ASSUME HashAssumption, HashInv, NEW k \in HashKey, HashDel(k)
  PROVE  HashInv' /\ Finite!Remove(k)
<1>1. PICK d : d = Del(k)
  OBVIOUS
<1>2. /\ d.bits \in MinBits .. MaxBits /\ Hashed(d.chain, d.bits)
      /\ Nodes(d.chain) = {n \in Nodes(chain) : n.key # k}
      /\ IsFiniteSet(Nodes(d.chain)) /\ d.sz = Cardinality(Nodes(d.chain))
      /\ Loaded(d.sz, d.bits)
  BY <1>1, DelIs
<1>3. chain' = d.chain /\ hsz' = d.sz /\ bits' = d.bits
  BY <1>1 DEF HashDel
<1>4. WellHashed'
  BY <1>2, <1>3 DEF WellHashed
<1>5. HashInv'
  BY <1>2, <1>3, <1>4 DEF HashInv, Load
<1>6. WellHashed
  BY DEF HashInv
<1>7. PICK x \in Nodes(chain) : x.key = k
  <2>1. hfind(chain, bits, k) = {n \in Nodes(chain) : n.key = k}
    BY <1>6, NodesAre DEF WellHashed
  <2> QED
    BY <2>1 DEF HashDel
<1>8. HashGet(k) # NoValue
  <2>1. x \in Node /\ x.v \in Value
    BY <1>6, <1>7, NodesAre DEF WellHashed, Node
  <2> QED
    BY <1>6, <1>7, <2>1, GetIs DEF HashAssumption
<1>9. \A j \in HashKey : HashGet(j)' = IF j = k THEN NoValue ELSE HashGet(j)
  <2>1. ASSUME NEW j \in HashKey
        PROVE  /\ \A n \in Nodes(chain)' : n.key = j => HashGet(j)' = n.v
               /\ (\A n \in Nodes(chain)' : n.key # j) => HashGet(j)' = NoValue
    BY <1>4, GetWillBe
  <2>2. Nodes(chain)' = {n \in Nodes(chain) : n.key # k}
    BY <1>2, <1>3
  <2>3. ASSUME NEW j \in HashKey, j # k  PROVE HashGet(j)' = HashGet(j)
    BY <1>6, <2>1, <2>2, <2>3, GetIs
  <2>4. HashGet(k)' = NoValue
    BY <2>1, <2>2
  <2> QED
    BY <2>3, <2>4
<1> QED
  BY <1>5, <1>8, <1>9 DEF Finite!Remove

LEMMA HashAddKeeps ==
  ASSUME HashAssumption, HashInv, NEW k \in HashKey, NEW v \in Value, HashAdd(k, v)
  PROVE  HashInv' /\ Finite!Put(k, v)
<1>1. PICK d : d = Del(k)
  OBVIOUS
<1>2. /\ d.bits \in MinBits .. MaxBits /\ Hashed(d.chain, d.bits)
      /\ Nodes(d.chain) = {n \in Nodes(chain) : n.key # k}
      /\ IsFiniteSet(Nodes(d.chain)) /\ d.sz = Cardinality(Nodes(d.chain)) /\ d.sz \in Nat
      /\ Loaded(d.sz, d.bits)
  BY <1>1, DelIs, FS_CardinalityType
<1>3. PICK new : new = IF d.sz > mapsz(d.bits) THEN d.bits + 1 ELSE d.bits
  OBVIOUS
<1>4. new \in Int
  <2>1. d.bits \in Int /\ d.bits + 1 \in Int
    BY <1>2 DEF HashAssumption
  <2> QED
    BY <1>3, <2>1
<1>5. PICK m : m = Modify(d.chain, d.sz, d.bits, new)
  OBVIOUS
<1>6. /\ m.bits = Clamp(new) /\ m.bits \in MinBits .. MaxBits
      /\ Hashed(m.chain, m.bits) /\ Nodes(m.chain) = Nodes(d.chain)
  BY <1>2, <1>4, <1>5, ModifyKeeps
<1>7. PICK x : x = [key |-> k, v |-> v]
  OBVIOUS
<1>8. x.key = k /\ x.v = v
  BY <1>7
<1>9. /\ chain' = [m.chain EXCEPT ![index(m.bits, k)] = @ \cup {x}]
      /\ hsz' = d.sz + 1 /\ bits' = m.bits
  BY <1>1, <1>3, <1>5, <1>7 DEF HashAdd
<1>10. Hashed(chain', bits') /\ Nodes(chain') = Nodes(d.chain) \cup {x}
  <2>1. \A n \in Nodes(m.chain) : n.key # k
    BY <1>2, <1>6
  <2> QED
    <3>1. x \in Node
      BY <1>7 DEF Node
    <3> QED
      BY <1>6, <1>8, <1>9, <2>1, <3>1, ChainMore
<1>11. x \notin Nodes(d.chain)
  BY <1>2, <1>8
<1>12. IsFiniteSet(Nodes(chain')) /\ Cardinality(Nodes(chain')) = d.sz + 1
  <2>1. IsFiniteSet(Nodes(d.chain)) /\ Cardinality(Nodes(d.chain)) = d.sz
    BY <1>2
  <2>2. /\ IsFiniteSet(Nodes(d.chain) \cup {x})
        /\ Cardinality(Nodes(d.chain) \cup {x}) = Cardinality(Nodes(d.chain)) + 1
    BY <1>11, <2>1, FS_AddElement
  <2> QED
    BY <1>10, <2>1, <2>2
<1>13. Loaded(hsz', bits')
  BY <1>2, <1>3, <1>6, <1>9, LoadedMore
<1>14. WellHashed'
  BY <1>6, <1>9, <1>10, <1>12 DEF WellHashed
<1>15. HashInv'
  BY <1>12, <1>13, <1>14 DEF HashInv, Load
<1>16. WellHashed
  BY DEF HashInv
<1>17. Nodes(chain)' = {n \in Nodes(chain) : n.key # k} \cup {x}
  BY <1>2, <1>10
<1>18. \A j \in HashKey : HashGet(j)' = IF j = k THEN v ELSE HashGet(j)
  <2>1. ASSUME NEW j \in HashKey
        PROVE  /\ \A n \in Nodes(chain)' : n.key = j => HashGet(j)' = n.v
               /\ (\A n \in Nodes(chain)' : n.key # j) => HashGet(j)' = NoValue
    BY <1>14, GetWillBe
  <2>2. ASSUME NEW j \in HashKey, j # k  PROVE HashGet(j)' = HashGet(j)
    BY <1>8, <1>16, <1>17, <2>1, <2>2, GetIs
  <2>3. HashGet(k)' = v
    BY <1>8, <1>17, <2>1
  <2> QED
    BY <2>2, <2>3
<1> QED
  BY <1>15, <1>18 DEF Finite!Put

LEMMA HashInvInit == HashAssumption /\ HashInit => HashInv /\ Finite!Init
<1> SUFFICES ASSUME HashAssumption, HashInit PROVE HashInv /\ Finite!Init
  OBVIOUS
<1>1. /\ bits = MinBits /\ hsz = 0 /\ chain = [i \in 0 .. mapsz(MinBits) - 1 |-> {}]
      /\ MinBits \in Nat /\ MinBits \in MinBits .. MaxBits
  BY DEF HashInit, HashAssumption
<1>2. Nodes(chain) = {}
  BY <1>1 DEF Nodes
<1>3. WellHashed
  BY <1>1, <1>2, FS_EmptySet DEF WellHashed, Hashed
<1>4. Load
  <2>1. PICK q \in Nat : q = mapsz(bits)
    BY <1>1, SizesAre
  <2>2. 0 <= q + 1 /\ ~ (bits > MinBits)
    BY <1>1, <2>1
  <2> QED
    BY <1>1, <2>1, <2>2 DEF Load, Loaded
<1>5. \A k \in HashKey : HashGet(k) = NoValue
  BY <1>2, <1>3, GetIs
<1>6. IsFiniteSet(Nodes(chain))
  BY <1>2, FS_EmptySet
<1> QED
  BY <1>3, <1>4, <1>5, <1>6 DEF HashInv, Finite!Init

LEMMA HashStep ==
  ASSUME HashAssumption, HashInv, [HashNext]_hvars
  PROVE  HashInv' /\ [Finite!Next]_[k \in HashKey |-> HashGet(k)]
<1>1. ASSUME NEW k \in HashKey, HashDel(k)  PROVE HashInv' /\ Finite!Next
  BY <1>1, HashDelKeeps DEF Finite!Next
<1>2. ASSUME NEW k \in HashKey, NEW v \in Value, HashAdd(k, v)  PROVE HashInv' /\ Finite!Next
  BY <1>2, HashAddKeeps DEF Finite!Next
<1>3. ASSUME UNCHANGED hvars  PROVE HashInv' /\ UNCHANGED [k \in HashKey |-> HashGet(k)]
  BY <1>3 DEF hvars, HashInv, WellHashed, Load, HashGet
<1> QED
  BY <1>1, <1>2, <1>3 DEF HashNext

\* Whatever hash values keys have, and however the table grows and shrinks, it is a map
\* whose nodes are where they are looked for, and it is neither crowded nor mostly empty
\* (hash.c:52-237).
THEOREM TableIsMap ==
  ASSUME HashAssumption
  PROVE  HashSpec => HashIsMap
<1>1. HashInit => HashInv /\ Finite!Init
  BY HashInvInit
<1>2. HashInv /\ [HashNext]_hvars => HashInv' /\ [Finite!Next]_[k \in HashKey |-> HashGet(k)]
  BY HashStep
<1>3. HashInv => WellHashed /\ Load
  BY DEF HashInv
<1> QED
  BY <1>1, <1>2, <1>3, PTL DEF HashSpec, HashIsMap, Finite!Spec
============================================================================
