------------------------------- MODULE Arrays ------------------------------
(**************************************************************************)
(* Arrays (src/ylext/nfunc_arr.c): every array has a read-write lock, an  *)
(* access through several indices locks the arrays it passes one after    *)
(* the other, a comparison locks two, and the collector locks each array  *)
(* it visits.  The programs here are layered: an array holds atoms and    *)
(* arrays of the layer below, and arrays of one layer are compared.       *)
(**************************************************************************)
EXTENDS RwLocks, FiniteSets

CONSTANTS
  Arr,
  Atom, nil,          \* the other values, nil among them
  Layer,              \* Layer[a] : which arrays an array may hold
  Size,               \* Size[a] : its number of elements
  ArrayPrograms,      \* a program : what each thread calls, make_array and unbinding being
                      \* "bind", and "set below" assigning through several indices
  MaxIndices          \* bound on the indices of an access

ArraysAssumption ==
  /\ Layer \in [Arr -> Nat] /\ Size \in [Arr -> Nat]
  /\ Arr \cap Atom = {} /\ nil \in Atom /\ <<>> \notin Arr
  /\ ArrayPrograms \subseteq [Thread -> SUBSET {"get", "set", "set below", "eq", "bind"}]
  /\ MaxIndices \in Nat

VARIABLES
  slot,               \* slot[a][i] : the elements, counted from 0 as in the code
  aalive,             \* arrays in use, the others are free blocks
  aroot,              \* arrays bound to symbols
  aheld,              \* locks, see RwLocks
  acall,              \* what each thread is executing
  adoes               \* the program

arrvars == <<slot, aalive, aroot, aheld, acall, adoes>>

Index(a) == 0..Size[a] - 1
Nils(a) == [i \in Index(a) |-> nil]
Element(a) == Atom \cup {b \in Arr : Layer[b] + 1 = Layer[a]}

ArraysInit ==
  /\ slot = [a \in Arr |-> Nils(a)]
  /\ adoes \in ArrayPrograms
  /\ aalive = IF \E t \in Thread : "bind" \in adoes[t] THEN {} ELSE Arr
  /\ aroot = aalive
  /\ aheld = [t \in Thread |-> <<>>] /\ acall = [t \in Thread |-> Idle]

----------------------------------------------------------------------------
\* Wrong versions of the definitions below: the collector does not look into arrays;
\* a thread that is about to read an element counts as safe; arrays of different
\* sizes are not unlocked; the second array of a comparison is not locked, or locked for
\* writing; an assignment locks for reading.
ContentsNone(S) == {}
SafeBeforeRead(t) == acall[t].op = "none" \/ (acall[t].op = "get" /\ acall[t].st = "read")
ForgetsUnequal(t) ==
  IF Size[acall[t].frames[1].e0] # Size[acall[t].frames[1].e1] THEN aheld ELSE WithoutLast(aheld, t)
SecondUnlocked(t, f) == WithLock(aheld, t, f.e0, "rd")
SecondForWriting == "wr"
ReadMode(c) == "rd"

Contents(S) == {b \in Arr : \E a \in S : \E i \in DOMAIN slot[a] : slot[a][i] = b}
Closed(C) == Contents(C) \subseteq C
Reached(S) == {a \in Arr : \A D \in SUBSET (Arr \ S) : a \in S \cup D \/ ~Closed(S \cup D)}

\* make_array with one or two dimensions: no lock is taken and nothing is evaluated.
MakeArray(t, a, elements) ==
  /\ acall[t] = Idle /\ "bind" \in adoes[t] /\ a \notin aalive
  /\ slot' = [slot EXCEPT ![a] = elements]
  /\ aalive' = aalive \cup {a} \cup ({elements[i] : i \in Index(a)} \ Atom)
  /\ aroot' = aroot \cup {a}
  /\ UNCHANGED <<aheld, acall, adoes>>

Elements(a) ==
  {Nils(a)} \cup {f \in [Index(a) -> {b \in Arr \ aalive : Layer[b] + 1 = Layer[a]}] :
                   \A i, j \in Index(a) : i # j => f[i] # f[j]}

\* The symbol of an array gets another value.
UnbindArray(t, a) ==
  /\ acall[t] = Idle /\ "bind" \in adoes[t] /\ a \in aroot /\ aroot' = aroot \ {a}
  /\ UNCHANGED <<slot, aalive, aheld, acall, adoes>>

----------------------------------------------------------------------------
\* arr_get and arr_set are called; they differ in how they lock (mode).
Access(t, op, a, ix, v) ==
  /\ acall' = [acall EXCEPT ![t] =
       [op |-> op, top |-> a, at |-> a, ne |-> <<>>, ix |-> ix, v |-> v, pv |-> <<>>, st |-> "lock"]]
  /\ UNCHANGED <<slot, aalive, aroot, aheld, adoes>>

Get(t, a, ix) == acall[t] = Idle /\ "get" \in adoes[t] /\ Access(t, "get", a, ix, <<>>)
Set(t, a, ix, v) ==
  /\ acall[t] = Idle /\ (IF Len(ix) = 1 THEN "set" ELSE "set below") \in adoes[t]
  /\ v \in Arr => Layer[v] + Len(ix) = Layer[a]
  /\ Access(t, "set", a, ix, v)

mode(c) == IF c.op = "set" THEN "wr" ELSE "rd"

LockTop(t) ==
  LET c == acall[t]
  IN  /\ c.op \in {"get", "set"} /\ c.st = "lock" /\ MayLock(aheld, c.top, mode(c))
      /\ aheld' = WithLock(aheld, t, c.top, mode(c))
      /\ acall' = [acall EXCEPT ![t].st = "find"]
      /\ UNCHANGED <<slot, aalive, aroot, adoes>>

Inner(c) == slot[c.at][Head(c.ix)]
Descends(c) == Len(c.ix) > 1 /\ Head(c.ix) \in Index(c.at) /\ Inner(c) \in Arr

\* _arr_get at one array: the last index gives the place of an element.
Find(t) ==
  LET c == acall[t]
  IN  /\ c.op \in {"get", "set"} /\ c.st = "find"
      /\ ~Descends(c)
      /\ acall' = [acall EXCEPT ![t].st = "back", ![t].ix = <<>>,
                              ![t].pv = IF Len(c.ix) = 1 /\ Head(c.ix) \in Index(c.at)
                                        THEN <<c.at, Head(c.ix)>> ELSE <<>>]
      /\ UNCHANGED <<slot, aalive, aroot, aheld, adoes>>

\* _arr_get on the way down: the element is read and tested, locked while the outer
\* array is, and read once more for the recursion.  If it is no array by then, there is
\* no telling what is read: the call is lost.
Test(t) ==
  LET c == acall[t]
  IN  /\ c.op \in {"get", "set"} /\ c.st = "find" /\ Descends(c)
      /\ acall' = [acall EXCEPT ![t].st = "inner", ![t].ne = Inner(c)]
      /\ UNCHANGED <<slot, aalive, aroot, aheld, adoes>>

LockInner(t) ==
  LET c == acall[t]
  IN  /\ c.op \in {"get", "set"} /\ c.st = "inner" /\ MayLock(aheld, c.ne, mode(c))
      /\ aheld' = WithLock(aheld, t, c.ne, mode(c))
      /\ acall' = [acall EXCEPT ![t].st = "again"]
      /\ UNCHANGED <<slot, aalive, aroot, adoes>>

Descend(t) ==
  LET c == acall[t]
  IN  /\ c.op \in {"get", "set"} /\ c.st = "again"
      /\ acall' = [acall EXCEPT ![t] =
           IF Inner(c) \in Arr
           THEN [c EXCEPT !.st = "find", !.at = Inner(c), !.ne = <<>>, !.ix = Tail(@)]
           ELSE [c EXCEPT !.st = "lost"]]
      /\ UNCHANGED <<slot, aalive, aroot, aheld, adoes>>

\* _arr_get on the way back.
Ascend(t) ==
  /\ acall[t].op \in {"get", "set"} /\ acall[t].st = "back" /\ Len(aheld[t]) > 1
  /\ aheld' = WithoutLast(aheld, t) /\ UNCHANGED <<slot, aalive, aroot, acall, adoes>>

\* arr_set stores with the top locked, arr_get reads after it has unlocked the top.
Store(t) ==
  LET c == acall[t]
  IN  /\ c.op = "set" /\ c.st = "back" /\ Len(aheld[t]) = 1
      /\ slot' = IF c.pv = <<>> THEN slot ELSE [slot EXCEPT ![c.pv[1]][c.pv[2]] = c.v]
      /\ acall' = [acall EXCEPT ![t].st = "stored", ![t].pv = <<>>, ![t].v = nil]
      /\ UNCHANGED <<aalive, aroot, aheld, adoes>>

UnlockTop(t) ==
  LET c == acall[t]
  IN  /\ \/ c.op = "set" /\ c.st = "stored" /\ acall' = [acall EXCEPT ![t] = Idle]
         \/ c.op = "get" /\ c.st = "back" /\ Len(aheld[t]) = 1
            /\ acall' = [acall EXCEPT ![t].st = "read"]
      /\ aheld' = WithoutLast(aheld, t) /\ UNCHANGED <<slot, aalive, aroot, adoes>>

Read(t) ==
  /\ acall[t].op = "get" /\ acall[t].st = "read"
  /\ acall' = [acall EXCEPT ![t] = Idle] /\ UNCHANGED <<slot, aalive, aroot, aheld, adoes>>

----------------------------------------------------------------------------
\* _aif_arr_eq, called by yleq on two different arrays: one frame per recursion.
Frame(e0, e1) == [e0 |-> e0, e1 |-> e1, i |-> 0, ret |-> TRUE, st |-> "lock0"]
Top(t) == acall[t].frames[Len(acall[t].frames)]
InEq(t) == acall[t].op = "eq"
SetTop(t, f) == acall' = [acall EXCEPT ![t].frames[Len(acall[t].frames)] = f]

CompareArrays(t, e0, e1) ==
  /\ acall[t] = Idle /\ "eq" \in adoes[t]
  /\ e0 # e1 /\ Layer[e0] = Layer[e1]
  /\ acall' = [acall EXCEPT ![t] = [op |-> "eq", frames |-> <<Frame(e0, e1)>>]]
  /\ UNCHANGED <<slot, aalive, aroot, aheld, adoes>>

LockFirst(t) ==
  /\ InEq(t) /\ Top(t).st = "lock0" /\ MayLock(aheld, Top(t).e0, "rd")
  /\ aheld' = WithLock(aheld, t, Top(t).e0, "rd")
  /\ SetTop(t, [Top(t) EXCEPT !.st = "lock1"]) /\ UNCHANGED <<slot, aalive, aroot, adoes>>

SecondMode == "rd"
Second(t, f) == WithLock(aheld, t, f.e1, SecondMode)
LockSecond(t) ==
  /\ InEq(t) /\ Top(t).st = "lock1" /\ MayLock(aheld, Top(t).e1, SecondMode)
  /\ aheld' = Second(t, Top(t))
  /\ SetTop(t, [Top(t) EXCEPT !.st = "loop"]) /\ UNCHANGED <<slot, aalive, aroot, adoes>>

\* One round of the loop, which goes on when two elements differ; two different
\* arrays are compared in turn.
SameSize(f) == Size[f.e0] = Size[f.e1]
Rounds(f) == SameSize(f) /\ f.i \in Index(f.e0)
Step(t) ==
  LET f == Top(t)
      x == slot[f.e0][f.i]
      y == slot[f.e1][f.i]
  IN  /\ InEq(t) /\ f.st = "loop" /\ Rounds(f)
      /\ IF x # y /\ {x, y} \subseteq Arr
         THEN acall' = [acall EXCEPT ![t].frames = Append(@, Frame(x, y))]
         ELSE SetTop(t, [f EXCEPT !.i = @ + 1, !.ret = @ /\ x = y])
      /\ UNCHANGED <<slot, aalive, aroot, aheld, adoes>>

UnlockSecond(t) ==
  /\ InEq(t) /\ Top(t).st = "loop" /\ ~Rounds(Top(t))
  /\ aheld' = WithoutLast(aheld, t)
  /\ SetTop(t, [Top(t) EXCEPT !.st = "unlock0", !.ret = @ /\ SameSize(Top(t))])
  /\ UNCHANGED <<slot, aalive, aroot, adoes>>

\* at0 is unlocked, and the result goes to the loop that asked for it.
FirstUnlocked(t) == WithoutLast(aheld, t)
Returned(F) ==
  [k \in 1..Len(F) - 1 |->
     IF k = Len(F) - 1 THEN [F[k] EXCEPT !.i = @ + 1, !.ret = @ /\ F[k + 1].ret] ELSE F[k]]
UnlockFirst(t) ==
  LET F == acall[t].frames
  IN  /\ InEq(t) /\ Top(t).st = "unlock0"
      /\ aheld' = FirstUnlocked(t)
      /\ acall' = [acall EXCEPT ![t] = IF Len(F) = 1 THEN Idle ELSE [op |-> "eq", frames |-> Returned(F)]]
      /\ UNCHANGED <<slot, aalive, aroot, adoes>>

\* The collector, when every thread is between two calls; _aif_arr_visit locks each
\* array that it reaches.
ArraySafe(t) == acall[t].op = "none"
CollectArrays ==
  /\ \A t \in Thread : ArraySafe(t)
  /\ aalive' = Reached(aroot)
  /\ \A a \in aalive' : MayLock(aheld, a, "rd")
  /\ slot' = [a \in Arr |-> IF a \in aalive' THEN slot[a] ELSE Nils(a)]
  /\ UNCHANGED <<aroot, aheld, acall, adoes>>

Places == UNION {Index(a) : a \in Arr}
Paths == UNION {[1..n -> Places] : n \in 1..MaxIndices}

ArraysNext ==
  \/ CollectArrays
  \/ \E t \in Thread :
       \/ \E a \in Reached(aroot), ix \in Paths :
            Get(t, a, ix) \/ \E v \in Atom \cup Reached(aroot) : Set(t, a, ix, v)
       \/ \E a, b \in Reached(aroot) : CompareArrays(t, a, b)
       \/ \E a \in Arr : UnbindArray(t, a) \/ \E inner \in Elements(a) : MakeArray(t, a, inner)
       \/ LockTop(t) \/ Find(t) \/ Test(t) \/ LockInner(t) \/ Descend(t) \/ Ascend(t)
       \/ Store(t) \/ UnlockTop(t) \/ Read(t)
       \/ LockFirst(t) \/ LockSecond(t) \/ Step(t) \/ UnlockSecond(t) \/ UnlockFirst(t)

ArraysSpec == ArraysInit /\ [][ArraysNext]_arrvars

----------------------------------------------------------------------------
\* The lock a thread is about to take.
Wants(t) ==
  LET c == acall[t]
  IN  CASE c.op \in {"get", "set"} /\ c.st = "lock" -> [c |-> c.top, mode |-> mode(c)]
        [] c.op \in {"get", "set"} /\ c.st = "inner" -> [c |-> c.ne, mode |-> mode(c)]
        [] InEq(t) /\ Top(t).st = "lock0" -> [c |-> Top(t).e0, mode |-> "rd"]
        [] InEq(t) /\ Top(t).st = "lock1" -> [c |-> Top(t).e1, mode |-> SecondMode]
        [] OTHER -> <<>>

\* Programs that compare arrays of one layer never end up waiting for each other,
\* however accesses through several indices and comparisons meet (nfunc_arr.c:74-90,
\* 253-280).
NoCircle == ~Stuck(aheld, [t \in Thread |-> Wants(t)])

\* An array that a running call knows of, and every array that it can reach from
\* there, is in use: arr_get reads the element after it has unlocked everything
\* (nfunc_arr.c:297-302).
Knows(t) ==
  LET c == acall[t]
  IN  {a \in Arr :
         \/ c.op \in {"get", "set"} /\ (a \in {c.top, c.at, c.ne, c.v} \/ (c.pv # <<>> /\ a = c.pv[1]))
         \/ InEq(t) /\ \E k \in DOMAIN c.frames : a \in {c.frames[k].e0, c.frames[k].e1}}
ArraysInUse == Reached(aroot \cup UNION {Knows(t) : t \in Thread}) \subseteq aalive

\* The collector never waits for the lock of an array: a thread that counts as safe
\* has unlocked what it had locked (nfunc_arr.c:141-148).
ArrayVisitsPass == \A t \in Thread : ArraySafe(t) => aheld[t] = <<>>

\* In programs that do not assign through several indices, elements that a comparison
\* has found equal stay equal until it has ended (nfunc_arr.c:74-88).
EqualSoFar(f) ==
  f.st = "loop" /\ f.ret =>
    \A i \in 0..f.i - 1 :
      slot[f.e0][i] = slot[f.e1][i] \/ {slot[f.e0][i], slot[f.e1][i]} \subseteq Arr
Direct == \A u \in Thread : "set below" \notin adoes[u]
StaysEqual(t) == InEq(t) /\ Direct => \A k \in DOMAIN acall[t].frames : EqualSoFar(acall[t].frames[k])
ComparedStaysEqual == \A t \in Thread : StaysEqual(t)

\* In the same programs an access walks through arrays that it has locked: the element
\* it has tested and locked is the one it goes on with (nfunc_arr.c:258-284).
Walks(t) == acall[t].op \in {"get", "set"} /\ Direct
LastLocked(t) == aheld[t][Len(aheld[t])].c
WalksLocked ==
  \A t \in Thread : Walks(t) =>
    acall[t].st # "lost" /\ (acall[t].st = "find" => LastLocked(t) = acall[t].at)

\* Neither holds of every program: what is assigned below is stored with only the
\* outermost array locked (nfunc_arr.c:274-284, 318-324).
AlwaysStaysEqual ==
  \A t \in Thread : InEq(t) => \A k \in DOMAIN acall[t].frames : EqualSoFar(acall[t].frames[k])
NeverLost == \A t \in Thread : acall[t].op \in {"get", "set"} => acall[t].st # "lost"
----------------------------------------------------------------------------
\* The inductive invariant of the proofs in ContainersProofs: what a call holds locks
\* of at each of its steps, ...
ArrayFrame == [e0 : Arr, e1 : Arr, i : Nat, ret : BOOLEAN, st : {"lock0", "lock1", "loop", "unlock0"}]
AccessCall ==
  [op : {"get", "set"}, top : Arr, at : Arr, ne : Arr \cup {<<>>}, ix : Seq(Nat),
   v : Atom \cup Arr \cup {<<>>}, pv : {<<>>} \cup (Arr \X Nat),
   st : {"lock", "find", "inner", "again", "lost", "back", "stored", "read"}]
EqCall == [op : {"eq"}, frames : Seq(ArrayFrame) \ {<<>>}]
ArrayTypes ==
  /\ slot \in [Arr -> UNION {[Index(a) -> Atom \cup Arr] : a \in Arr}]
  /\ \A a \in Arr : slot[a] \in [Index(a) -> Element(a)]
  /\ aalive \subseteq Arr /\ aroot \subseteq aalive /\ adoes \in ArrayPrograms
  /\ aheld \in [Thread -> Seq([c : Arr, mode : {"rd", "wr"}])]
  /\ acall \in [Thread -> {Idle} \cup AccessCall \cup EqCall]

AccessHolds(c, h) ==
  /\ c.st \in {"lock", "read"} => h = <<>>
  /\ c.st \in {"find", "inner", "again", "lost", "back", "stored"} =>
       Len(h) > 0 /\ h[1] = [c |-> c.top, mode |-> mode(c)]
  /\ c.st = "lock" => c.at = c.top
  /\ c.st = "stored" => Len(h) = 1
  /\ c.st \in {"find", "inner"} => \A k \in 1..Len(h) : Layer[h[k].c] >= Layer[c.at]
  /\ c.st \in {"inner", "again"} =>
       /\ c.ne \in Arr /\ Layer[c.ne] + 1 = Layer[c.at]
       /\ Len(c.ix) > 1 /\ Head(c.ix) \in Index(c.at)
  /\ c.st = "again" => \A k \in 1..Len(h) : Layer[h[k].c] >= Layer[c.ne]
HeldAt(st) == CASE st = "lock0" -> 0 [] st \in {"lock1", "unlock0"} -> 1 [] st = "loop" -> 2
EqHolds(F, h) ==
  /\ Len(h) = 2 * (Len(F) - 1) + HeldAt(F[Len(F)].st)
  /\ \A k \in 1..Len(F) :
       /\ k < Len(F) => F[k].st = "loop"
       /\ F[k].st \in {"lock0", "lock1"} => F[k].i = 0
       /\ Layer[F[k].e0] = Layer[F[k].e1]
       /\ \A j \in 1..k : Layer[F[k].e0] <= Layer[F[j].e0]
       /\ 2 * k - 1 <= Len(h) => h[2 * k - 1] = [c |-> F[k].e0, mode |-> "rd"]
       /\ 2 * k <= Len(h) => h[2 * k] = [c |-> F[k].e1, mode |-> "rd"]
HoldsLocks(t) ==
  LET c == acall[t]
  IN  /\ c = Idle => aheld[t] = <<>>
      /\ c \in AccessCall => AccessHolds(c, aheld[t])
      /\ c \in EqCall => EqHolds(c.frames, aheld[t])

\* ... what is in use, and what is assigned.
SlotsInUse ==
  /\ Contents(aalive) \subseteq aalive
  /\ \A a \in Arr \ aalive : slot[a] = Nils(a)
  /\ \A t \in Thread : Knows(t) \subseteq aalive
MayAssign(t, c) ==
  c.op = "set" =>
    /\ \/ "set below" \in adoes[t]
       \/ c.at = c.top /\ Len(c.ix) <= 1 /\ (c.pv # <<>> => c.pv[1] = c.top)
    /\ c.v \in Atom \cup Arr
    /\ c.v \in Arr =>
         /\ c.st \in {"lock", "find", "inner", "again"} => Layer[c.v] + Len(c.ix) = Layer[c.at]
         /\ c.pv # <<>> => Layer[c.v] + 1 = Layer[c.pv[1]]
Assigns(t) == MayAssign(t, acall[t])
InTurn(f) == {slot[f.e0][f.i], slot[f.e1][f.i]} \subseteq Arr
Compared(t) == InEq(t) /\ Direct => \A k \in 1..Len(acall[t].frames) - 1 : InTurn(acall[t].frames[k])

\* ... which locks are those of the arrays that an access walks through.
FollowsPath(c, h) ==
  LET n == Len(h)
  IN  /\ c.st # "lost"
      /\ c.st \in {"find", "inner"} => h[n].c = c.at
      /\ c.st = "again" => n > 1 /\ h[n - 1].c = c.at /\ h[n].c = c.ne
      /\ c.st \in {"inner", "again"} => Inner(c) = c.ne
Follows(t) == Walks(t) => FollowsPath(acall[t], aheld[t])

ArraysInv ==
  /\ ArrayTypes /\ SlotsInUse /\ Exclusive(aheld)
  /\ \A t \in Thread : HoldsLocks(t) /\ Assigns(t) /\ Compared(t) /\ Follows(t)
  /\ ComparedStaysEqual
============================================================================
