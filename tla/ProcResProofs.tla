--------------------------- MODULE ProcResProofs ---------------------------
(***************************************************************************)
(* Proofs about ProcRes, for any number of sh calls and of kills: as long   *)
(* as the list of resources is intact, nothing leaks.                      *)
(***************************************************************************)
EXTENDS ProcRes, SequenceTheorems, TLAPS

\* What a sequence of different nodes is after one of them has been taken out.
LEMMA UnlinkedList ==
  ASSUME pres \in Seq(Node), IsInjective(pres), NEW x \in Range(pres)
  PROVE  /\ Unlinked(x) \in Seq(Node) /\ IsInjective(Unlinked(x))
         /\ Len(pres) \in Nat \ {0} /\ Len(Unlinked(x)) = Len(pres) - 1
         /\ Range(Unlinked(x)) = Range(pres) \ {x}
         /\ pres[1] = x => \A i \in 1 .. Len(pres) - 1 : Unlinked(x)[i] = pres[i + 1]
         /\ pres[1] # x => Len(pres) > 1 /\ Unlinked(x)[1] = pres[1]
         /\ pres[1] # x /\ pres[2] # x => Len(pres) > 2 /\ Unlinked(x)[2] = pres[2]
<1>0. Len(pres) \in Nat /\ DOMAIN pres = 1 .. Len(pres)
  BY LenProperties
<1>1. PICK p \in 1 .. Len(pres) : pres[p] = x
  BY <1>0 DEF Range
<1>2. Place(x) = p
  BY <1>0, <1>1 DEF Place, IsInjective
<1> DEFINE L == Len(pres) - 1
           s == [i \in 1 .. L |-> pres[IF i < p THEN i ELSE i + 1]]
<1>3. Unlinked(x) = s
  BY <1>2 DEF Unlinked
<1>4. L \in Nat /\ Len(pres) \in Nat \ {0} /\ Len(pres) = L + 1
  BY <1>0, <1>1
<1>5. \A i \in 1 .. L : pres[IF i < p THEN i ELSE i + 1] \in Node
  BY <1>0, <1>1, ElementOfSeq
<1>6. s \in Seq(Node) /\ Len(s) = L /\ DOMAIN s = 1 .. L
  BY <1>4, <1>5
<1>7. \A i \in 1 .. L : s[i] = IF i < p THEN pres[i] ELSE pres[i + 1]
  OBVIOUS
<1> HIDE DEF s
<1>8. IsInjective(s)
  <2> SUFFICES ASSUME NEW a \in 1 .. L, NEW b \in 1 .. L, s[a] = s[b]  PROVE a = b
    BY <1>6 DEF IsInjective
  <2> DEFINE f(i) == IF i < p THEN i ELSE i + 1
  <2>1. s[a] = pres[f(a)] /\ s[b] = pres[f(b)]
    BY <1>7
  <2>2. f(a) \in 1 .. Len(pres) /\ f(b) \in 1 .. Len(pres)
    BY <1>1, <1>4
  <2>3. f(a) = f(b)
    BY <1>0, <2>1, <2>2 DEF IsInjective
  <2> QED
    BY <1>1, <1>4, <2>3
<1>9. Range(s) = Range(pres) \ {x}
  <2>1. ASSUME NEW i \in 1 .. L  PROVE s[i] \in Range(pres) /\ s[i] # x
    <3>1. CASE i < p
      <4>1. i \in 1 .. Len(pres) /\ i # p /\ s[i] = pres[i]
        BY <1>1, <1>4, <1>7, <3>1
      <4> QED
        BY <1>0, <1>1, <4>1 DEF Range, IsInjective
    <3>2. CASE ~(i < p)
      <4>1. i + 1 \in 1 .. Len(pres) /\ i + 1 # p /\ s[i] = pres[i + 1]
        BY <1>1, <1>4, <1>7, <3>2
      <4> QED
        BY <1>0, <1>1, <4>1 DEF Range, IsInjective
    <3> QED
      BY <3>1, <3>2
  <2>2. ASSUME NEW y \in Range(pres), y # x  PROVE \E i \in 1 .. L : s[i] = y
    <3>1. PICK j \in 1 .. Len(pres) : pres[j] = y
      BY <1>0 DEF Range
    <3>2. j # p
      BY <1>1, <2>2, <3>1
    <3>3. CASE j < p
      <4>1. j \in 1 .. L /\ s[j] = pres[j]
        BY <1>1, <1>4, <1>7, <3>3
      <4> QED
        BY <3>1, <4>1
    <3>4. CASE j > p
      <4>1. j - 1 \in 1 .. L /\ ~(j - 1 < p) /\ (j - 1) + 1 = j
        BY <1>1, <1>4, <3>4
      <4>2. s[j - 1] = pres[j]
        BY <1>7, <4>1
      <4> QED
        BY <3>1, <4>1, <4>2
    <3> QED
      BY <1>1, <3>1, <3>2, <3>3, <3>4
  <2> QED
    BY <1>6, <2>1, <2>2 DEF Range
<1>10. pres[1] = x => \A i \in 1 .. L : s[i] = pres[i + 1]
  <2>1. pres[1] = x => p = 1
    BY <1>0, <1>1, <1>4 DEF IsInjective
  <2> QED
    BY <1>4, <1>7, <2>1
<1>11. pres[1] # x => Len(pres) > 1 /\ s[1] = pres[1]
  <2>1. pres[1] # x => p > 1
    BY <1>1
  <2> QED
    BY <1>1, <1>4, <1>7, <2>1
<1>12. pres[1] # x /\ pres[2] # x => Len(pres) > 2 /\ s[2] = pres[2]
  <2>1. pres[1] # x /\ pres[2] # x => p > 2
    BY <1>1
  <2> QED
    BY <1>1, <1>4, <1>7, <2>1
<1> QED
  BY <1>3, <1>4, <1>6, <1>8, <1>9, <1>10, <1>11, <1>12

\* ... and after a new one has been put first.
LEMMA LinkedList ==
  ASSUME pres \in Seq(Node), IsInjective(pres), NEW x \in Node, x \notin Range(pres)
  PROVE  /\ <<x>> \o pres \in Seq(Node) /\ IsInjective(<<x>> \o pres)
         /\ Len(<<x>> \o pres) = Len(pres) + 1 /\ Len(pres) \in Nat
         /\ Range(<<x>> \o pres) = Range(pres) \cup {x}
<1>0. Len(pres) \in Nat /\ DOMAIN pres = 1 .. Len(pres)
  BY LenProperties
<1> DEFINE s == <<x>> \o pres
           L == Len(pres) + 1
<1>1. <<x>> \in Seq(Node) /\ Len(<<x>>) = 1 /\ <<x>>[1] = x
  OBVIOUS
<1>2. /\ s \in Seq(Node) /\ Len(s) = 1 + Len(pres)
      /\ \A i \in 1 .. 1 + Len(pres) : s[i] = IF i <= 1 THEN <<x>>[i] ELSE pres[i - 1]
  BY <1>1, ConcatProperties
<1>3. Len(s) = L /\ DOMAIN s = 1 .. L /\ L \in Nat
  BY <1>0, <1>2, LenProperties
<1>4. s[1] = x /\ \A i \in 2 .. L : s[i] = pres[i - 1] /\ i - 1 \in 1 .. Len(pres)
  BY <1>0, <1>1, <1>2
<1> HIDE DEF s
<1>5. IsInjective(s)
  <2> SUFFICES ASSUME NEW a \in 1 .. L, NEW b \in 1 .. L, s[a] = s[b]  PROVE a = b
    BY <1>3 DEF IsInjective
  <2>1. \A i \in 2 .. L : s[i] # x
    BY <1>0, <1>4 DEF Range
  <2>2. CASE a = 1 \/ b = 1
    BY <1>3, <1>4, <2>1, <2>2
  <2>3. CASE a # 1 /\ b # 1
    <3>1. a \in 2 .. L /\ b \in 2 .. L
      BY <1>3, <2>3
    <3>2. a - 1 = b - 1
      BY <1>0, <1>4, <3>1 DEF IsInjective
    <3> QED
      BY <3>1, <3>2
  <2> QED
    BY <2>2, <2>3
<1>6. Range(s) = Range(pres) \cup {x}
  <2>1. ASSUME NEW i \in 1 .. L  PROVE s[i] \in Range(pres) \cup {x}
    <3>1. i = 1 \/ i \in 2 .. L
      BY <1>3
    <3> QED
      BY <1>0, <1>4, <3>1 DEF Range
  <2>2. ASSUME NEW y \in Range(pres) \cup {x}  PROVE \E i \in 1 .. L : s[i] = y
    <3>1. CASE y = x
      BY <1>3, <1>4, <1>0, <3>1
    <3>2. CASE y \in Range(pres)
      <4>1. PICK j \in 1 .. Len(pres) : pres[j] = y
        BY <1>0, <3>2 DEF Range
      <4>2. j + 1 \in 2 .. L /\ (j + 1) - 1 = j /\ j + 1 \in 1 .. L
        BY <1>0
      <4> QED
        BY <1>4, <4>1, <4>2
    <3> QED
      BY <2>2, <3>1, <3>2
  <2> QED
    BY <1>3, <2>1, <2>2 DEF Range
<1> QED
  BY <1>0, <1>2, <1>3, <1>5, <1>6 DEF s

\* A list is empty or has a first node.
LEMMA EmptyList ==
  ASSUME pres \in Seq(Node)
  PROVE  /\ Len(pres) \in Nat /\ (Len(pres) = 0 <=> pres = << >>)
         /\ pres = << >> => Range(pres) = {}
         /\ pres # << >> => Len(pres) > 0 /\ pres[1] \in Range(pres) /\ Head(pres) = pres[1]
<1>1. Len(pres) \in Nat /\ DOMAIN pres = 1 .. Len(pres)
  BY LenProperties
<1>2. Len(pres) = 0 <=> pres = << >>
  BY <1>1, EmptySeq
<1> QED
  BY <1>1, <1>2 DEF Range

---------------------------------------------------------------------------
\* At the start nothing is listed.
LEMMA InitHolds == BoundAssumption /\ Init => IInv
<1> SUFFICES ASSUME BoundAssumption, Init  PROVE IInv
  OBVIOUS
<1>0. pres \in Seq(Node) /\ Len(pres) = 0 /\ Range(pres) = {} /\ IsInjective(pres)
  <2>1. pres = << >> /\ pres \in Seq(Node) /\ DOMAIN pres = {}
    BY DEF Init
  <2> QED
    BY <2>1, EmptyList DEF IsInjective
<1>1. /\ pc = "run" /\ n = 0 /\ first = End /\ alloc = {} /\ open = {} /\ running = {}
      /\ safe = FALSE /\ sig = FALSE /\ cancel = FALSE /\ kills = 0
      /\ base = "join" /\ err = "none" /\ MaxSh \in Nat /\ MaxKills \in Nat
  BY DEF Init, BoundAssumption
<1>2. \A k \in Closer : walk[k] = Idle /\ walk[k].at = "off" /\ walk[k].pos = End /\ walk[k].next = End
  BY DEF Init, Idle
<1>3. walk \in [Closer -> [at : {"off", "item", "ccb", "free"},
                           pos : Node \cup {End}, next : Node \cup {End}]]
  BY DEF Init, Idle
<1>4. TypeOK
  <2>1. n \in 0 .. MaxSh /\ kills \in 0 .. MaxKills /\ first \in Node \cup {End}
    BY <1>1
  <2>2. Range(pres) \subseteq alloc /\ alloc \subseteq Node /\ open \subseteq Node /\ running \subseteq Node
    BY <1>0, <1>1
  <2>3. pc = "run" /\ safe \in BOOLEAN /\ sig \in BOOLEAN /\ cancel \in BOOLEAN /\ base = "join" /\ err = "none"
    BY <1>1
  <2> QED
    BY <1>0, <1>3, <2>1, <2>2, <2>3 DEF TypeOK
<1>5. End \notin OfCall(0) /\ \A m \in 1 .. MaxSh : End \notin OfCall(m)
  BY DEF End, OfCall
<1>6. ShortList /\ SeenLater
  BY <1>0, <1>1, <1>2, <1>5 DEF ShortList, SeenLater, Limit, Seen
<1>7. Holders
  BY <1>0, <1>1, <1>2 DEF Holders, Busy, Closer
<1>8. Owners /\ ListedFileIsOpen
  BY <1>0, <1>1 DEF Owners, ListedFileIsOpen
<1>9. BaseWalk
  BY <1>1, <1>2 DEF BaseWalk, Closer
<1> QED
  BY <1>4, <1>6, <1>7, <1>8, <1>9 DEF IInv

\* Steps of the thread that leave the list, the walks and what is open alone.
LEMMA FlagSteps ==
  ASSUME BoundAssumption, IInv, NotifySafe \/ Cancelled \/ NotifyUnsafe \/ EvalTail \/ EndEval \/ ChildEnds
  PROVE  IInv'
<1> USE DEF IInv
<1>1. UNCHANGED <<n, first, pres, alloc, open, kills, base, walk, err>>
  BY DEF NotifySafe, Cancelled, NotifyUnsafe, EvalTail, EndEval, ChildEnds, thread, res
<1>2. \/ pc = "listed2" /\ pc' \in {"wait", "dead"}
      \/ pc = "wait" /\ pc' = "dead"
      \/ pc = "reaped" /\ pc' = "unsafe"
      \/ pc = "tail" /\ pc' \in {"dead", "run"}
      \/ pc = "run" /\ pc' = "dead"
      \/ pc' = pc
  BY DEF NotifySafe, Cancelled, NotifyUnsafe, EvalTail, EndEval, ChildEnds, Goto, thread
<1>3. running' \subseteq running /\ safe' \in BOOLEAN /\ sig' = sig /\ cancel' = cancel
  BY DEF NotifySafe, Cancelled, NotifyUnsafe, EvalTail, EndEval, ChildEnds, flags, res, TypeOK
<1>4. TypeOK'
  BY <1>1, <1>2, <1>3 DEF TypeOK
<1>5. Limit <= Limit'
  BY <1>2 DEF Limit
<1>6. ShortList'
  <2>1. Len(pres) \in Nat /\ Limit \in Nat /\ Limit' \in Nat
    BY EmptyList DEF TypeOK, Limit
  <2>2. Len(pres') <= Limit'
    BY <1>1, <1>5, <2>1 DEF ShortList
  <2> QED
    BY <1>1, <1>2, <2>2 DEF ShortList, OfCall
<1>7. SeenLater'
  BY <1>1, <1>2 DEF SeenLater, Seen
<1>8. Holders' /\ ListedFileIsOpen'
  BY <1>1 DEF Holders, Busy, Ok, ListedFileIsOpen
<1>9. Owners'
  <2>1. Own \subseteq Own'
    BY <1>1, <1>2 DEF Own
  <2> QED
    BY <1>1, <1>2, <2>1 DEF Owners
<1>10. BaseWalk'
  BY <1>1, <1>2 DEF BaseWalk, Ended, Ok
<1> QED
  BY <1>4, <1>6, <1>7, <1>8, <1>9, <1>10

\* sh begins, with a child or without: nothing is listed then.
LEMMA ForkKeeps == ASSUME BoundAssumption, IInv, Fork \/ ForkFails  PROVE IInv'
<1> USE DEF IInv
<1>0. /\ pc = "run" /\ n' = n + 1 /\ n < MaxSh /\ n \in Nat /\ pres = << >> /\ Range(pres) = {}
      /\ MaxSh \in Nat /\ n' \in 1 .. MaxSh /\ Len(pres) = 0
  BY EmptyList DEF Fork, ForkFails, TypeOK, ShortList, Limit, BoundAssumption
<1>1. UNCHANGED <<first, pres, alloc, safe, sig, cancel, kills, base, walk, err>>
  BY DEF Fork, ForkFails, flags
<1>2. \/ pc' = "forked" /\ open' = open \cup OfCall(n')
      \/ pc' = "failed" /\ open' = open \cup {<<"file", n'>>}
  BY <1>0 DEF Fork, ForkFails, Goto, OfCall
<1>3. OfCall(n') \subseteq Node /\ <<"file", n'>> \in OfCall(n')
  BY <1>0 DEF OfCall, Node
<1>4. running' \subseteq running \cup OfCall(n')
  BY <1>0 DEF Fork, ForkFails, OfCall
<1>5. TypeOK'
  <2>1. open' \subseteq Node /\ running' \subseteq Node /\ n' \in 0 .. MaxSh
    BY <1>0, <1>2, <1>3, <1>4 DEF TypeOK
  <2> QED
    BY <1>1, <1>2, <2>1 DEF TypeOK
<1>6. ShortList'
  BY <1>0, <1>1, <1>2 DEF ShortList, Limit
<1>7. SeenLater'
  <2>1. \A k \in Closer : Seen(k)' = Seen(k)
    BY <1>1 DEF Seen
  <2>2. \A k \in Closer : Seen(k) \cap OfCall(n') = {}
    BY <1>0 DEF SeenLater
  <2>3. \A m \in n' + 1 .. MaxSh : m \in n + 1 .. MaxSh
    BY <1>0
  <2> QED
    BY <1>2, <2>1, <2>2, <2>3 DEF SeenLater
<1>8. Holders' /\ ListedFileIsOpen'
  BY <1>0, <1>1 DEF Holders, Busy, Ok, ListedFileIsOpen
<1>9. Owners'
  <2>1. open' \subseteq open \cup Own' /\ Own = {}
    BY <1>0, <1>2 DEF Own
  <2> QED
    BY <1>1, <1>2, <1>3, <2>1 DEF Owners
<1>10. BaseWalk'
  BY <1>0, <1>1 DEF BaseWalk, Ended
<1> QED
  BY <1>5, <1>6, <1>7, <1>8, <1>9, <1>10

\* A child or a file is listed when it is there.
LEMMA AddKeeps == ASSUME BoundAssumption, IInv, AddChild \/ AddFile  PROVE IInv'
<1> USE DEF IInv
<1> DEFINE x == IF pc = "forked" THEN <<"child", n>> ELSE <<"file", n>>
<1>1. /\ \/ pc = "forked" /\ pc' = "listed"
         \/ pc = "listed" /\ pc' = "listed2"
      /\ pres' = <<x>> \o pres /\ alloc' = alloc \cup {x}
      /\ UNCHANGED <<n, first, open, running, kills, base, walk, err, safe, sig, cancel>>
  BY DEF AddChild, AddFile, AddPres, Goto, flags
<1>2. n \in 1 .. MaxSh
  BY <1>1 DEF TypeOK, ShortList, BoundAssumption
<1>3. x \in Node /\ x \in OfCall(n) /\ <<"file", n>> # <<"child", n>>
  BY <1>2 DEF OfCall, Node
<1>4. pc = "forked" => Range(pres) = {} /\ x = <<"child", n>> /\ Len(pres) = 0
  BY EmptyList DEF TypeOK, ShortList, Limit
<1>5. pc # "forked" => pc = "listed" /\ x = <<"file", n>> /\ Range(pres) \subseteq {<<"child", n>>} /\ Len(pres) <= 1
  BY <1>1 DEF ShortList, Limit
<1> HIDE DEF x
<1>6. x \notin Range(pres)
  BY <1>3, <1>4, <1>5
<1>7. /\ pres' \in Seq(Node) /\ IsInjective(pres')
      /\ Len(pres') = Len(pres) + 1 /\ Len(pres) \in Nat
      /\ Range(pres') = Range(pres) \cup {x}
  BY <1>1, <1>3, <1>6, LinkedList DEF TypeOK
<1>8. \A k \in Closer : x \notin Seen(k)
  BY <1>1, <1>3, <1>4, <1>5 DEF SeenLater
<1>9. TypeOK'
  BY <1>1, <1>3, <1>7 DEF TypeOK
<1>10. ShortList'
  BY <1>1, <1>2, <1>3, <1>4, <1>5, <1>7 DEF ShortList, Limit, OfCall
<1>11. SeenLater'
  BY <1>1, <1>3 DEF SeenLater, Seen, OfCall
<1>12. Holders'
  BY <1>1, <1>7, <1>8 DEF Holders, Busy, Ok, Seen
<1>13. Owners'
  <2>1. Own \subseteq Own' \cup {x}
    BY <1>1, <1>4, <1>5 DEF Own, OfCall
  <2> QED
    BY <1>1, <1>7, <2>1 DEF Owners
<1>14. ListedFileIsOpen'
  <2>1. x[1] = "file" => x \in open
    <3>1. x = <<"child", n>> => x[1] # "file"
      OBVIOUS
    <3> QED
      BY <1>1, <1>4, <1>5, <3>1 DEF Owners
  <2> QED
    BY <1>1, <1>7, <2>1 DEF ListedFileIsOpen
<1>15. BaseWalk'
  BY <1>1 DEF BaseWalk, Ended
<1> QED
  BY <1>9, <1>10, <1>11, <1>12, <1>13, <1>14, <1>15

\* sh has waited for its child, or closes its file.
LEMMA ReapKeeps == ASSUME BoundAssumption, IInv, Reap \/ Fclose  PROVE IInv'
<1> USE DEF IInv
<1>1. /\ \/ pc = "wait" /\ pc' = "reaped" /\ open' = open \ {<<"child", n>>}
         \/ pc = "close" /\ pc' = "tail" /\ open' = open \ {<<"file", n>>}
      /\ UNCHANGED <<n, first, pres, alloc, running, kills, base, walk, err, safe, sig, cancel>>
  BY DEF Reap, Fclose, Goto, flags
<1>2. TypeOK'
  BY <1>1 DEF TypeOK
<1>3. ShortList'
  BY <1>1 DEF ShortList, Limit
<1>4. SeenLater'
  BY <1>1 DEF SeenLater, Seen
<1>5. Holders'
  BY <1>1 DEF Holders, Busy, Ok
<1>6. Owners'
  BY <1>1 DEF Owners, Own
<1>7. ListedFileIsOpen'
  <2>1. CASE pc = "wait"
    <3>1. ASSUME NEW f \in Range(pres), f[1] = "file"  PROVE f \in open'
      <4>1. f # <<"child", n>>
        BY <3>1
      <4> QED
        BY <1>1, <2>1, <3>1, <4>1 DEF ListedFileIsOpen
    <3> QED
      BY <1>1, <3>1 DEF ListedFileIsOpen
  <2>2. CASE pc = "close"
    <3>1. Range(pres) = {}
      BY <2>2, EmptyList DEF TypeOK, ShortList, Limit
    <3> QED
      BY <1>1, <3>1 DEF ListedFileIsOpen
  <2> QED
    BY <1>1, <2>1, <2>2
<1>8. BaseWalk'
  BY <1>1 DEF BaseWalk, Ended
<1> QED
  BY <1>2, <1>3, <1>4, <1>5, <1>6, <1>7, <1>8

\* Looking for a resource changes no list.
LEMMA FindKeeps == ASSUME BoundAssumption, IInv, RmFind  PROVE IInv'
<1> USE DEF IInv
<1>1. UNCHANGED <<n, pres, alloc, open, running, kills, base, walk, safe, sig, cancel>>
  BY DEF RmFind, flags, res, thread
<1>2. CASE pres = << >>
  <2>1. err' = "empty" /\ UNCHANGED <<pc, first>> /\ Ok
    BY <1>2 DEF RmFind, thread
  <2>2. pc \notin {"dead", "failed"}
    BY DEF RmFind
  <2>3. ~Ok'
    BY <2>1 DEF Ok
  <2>4. TypeOK'
    BY <1>1, <2>1 DEF TypeOK
  <2>5. ShortList' /\ SeenLater' /\ Owners' /\ ListedFileIsOpen'
    BY <1>1, <2>1 DEF ShortList, Limit, SeenLater, Seen, Owners, Own, ListedFileIsOpen
  <2>6. Holders'
    BY <1>1, <2>3 DEF Holders, Busy
  <2>7. BaseWalk'
    BY <1>1, <2>1, <2>2 DEF BaseWalk, Ended
  <2> QED
    BY <2>4, <2>5, <2>6, <2>7
<1>3. CASE pres # << >>
  <2>1. /\ first' = pres[1] /\ pres[1] \in Range(pres) /\ err' = err
        /\ \/ pc = "unsafe" /\ pc' = "unlist"
           \/ pc = "unlisted" /\ pc' = "unlist2"
    BY <1>3, EmptyList DEF RmFind, TypeOK, Goto
  <2>2. pres[1] \in OfCall(n) /\ pres[1] \in Node
    BY <2>1 DEF ShortList, TypeOK
  <2>3. TypeOK'
    BY <1>1, <2>1, <2>2 DEF TypeOK
  <2>4. ShortList'
    BY <1>1, <2>1, <2>2 DEF ShortList, Limit, OfCall
  <2>5. SeenLater' /\ ListedFileIsOpen'
    BY <1>1, <2>1 DEF SeenLater, Seen, ListedFileIsOpen
  <2>6. Owners'
    BY <1>1, <2>1 DEF Owners, Own
  <2>7. Holders'
    BY <1>1, <2>1 DEF Holders, Busy, Ok
  <2>8. BaseWalk'
    BY <1>1, <2>1 DEF BaseWalk, Ended
  <2> QED
    BY <2>3, <2>4, <2>5, <2>6, <2>7, <2>8
<1> QED
  BY <1>2, <1>3

\* A node is unlinked once.
LEMMA FreeKeeps == ASSUME BoundAssumption, IInv, RmFree  PROVE IInv'
<1> USE DEF IInv
<1>1. UNCHANGED <<n, open, running, kills, base, walk, safe, sig, cancel>>
  BY DEF RmFree, flags
<1>2. CASE first \notin Range(pres)
  <2>1. err' = "stale" /\ UNCHANGED <<pres, alloc, first, pc>>
    BY <1>2 DEF RmFree
  <2>2. pc \notin {"dead", "failed"}
    BY DEF RmFree
  <2>3. ~Ok'
    BY <2>1 DEF Ok
  <2>4. TypeOK'
    BY <1>1, <2>1 DEF TypeOK
  <2>5. ShortList' /\ SeenLater' /\ Owners' /\ ListedFileIsOpen'
    BY <1>1, <2>1 DEF ShortList, Limit, SeenLater, Seen, Owners, Own, ListedFileIsOpen
  <2>6. Holders'
    BY <1>1, <2>1, <2>3 DEF Holders, Busy
  <2>7. BaseWalk'
    BY <1>1, <2>1, <2>2 DEF BaseWalk, Ended
  <2> QED
    BY <2>4, <2>5, <2>6, <2>7
<1>3. CASE first \in Range(pres)
  <2>1. /\ pres' = Unlinked(first) /\ alloc' = alloc \ {first} /\ first' = End /\ err' = err
        /\ \/ pc = "unlist" /\ pc' = "unlisted"
           \/ pc = "unlist2" /\ pc' = "close"
    BY <1>3 DEF RmFree, Goto
  <2>2. /\ pres' \in Seq(Node) /\ IsInjective(pres') /\ Len(pres) \in Nat
        /\ Len(pres') = Len(pres) - 1 /\ Range(pres') = Range(pres) \ {first}
    BY <1>3, <2>1, UnlinkedList DEF TypeOK
  <2>3. TypeOK'
    BY <1>1, <2>1, <2>2 DEF TypeOK
  <2>4. ShortList'
    BY <1>1, <2>1, <2>2 DEF ShortList, Limit, OfCall
  <2>5. SeenLater'
    BY <1>1, <2>1 DEF SeenLater, Seen
  <2>6. Holders'
    <3>1. \A k \in Closer : Busy(k) => walk[k].pos # first
      BY <1>3 DEF Holders
    <3> QED
      BY <1>1, <2>1, <2>2, <3>1 DEF Holders, Busy, Ok
  <2>7. Owners'
    <3>1. first \in open => first = <<"file", n>>
      BY <2>1 DEF Owners, ShortList, OfCall
    <3>2. <<"file", n>> \in Own'
      BY <1>1, <2>1 DEF Own
    <3>3. Own \subseteq Own'
      BY <1>1, <2>1 DEF Own
    <3> QED
      BY <1>1, <2>1, <2>2, <3>1, <3>2, <3>3 DEF Owners
  <2>8. ListedFileIsOpen'
    BY <1>1, <2>2 DEF ListedFileIsOpen
  <2>9. BaseWalk'
    BY <1>1, <2>1 DEF BaseWalk, Ended
  <2> QED
    BY <2>3, <2>4, <2>5, <2>6, <2>7, <2>8, <2>9
<1> QED
  BY <1>2, <1>3

---------------------------------------------------------------------------
\* The end of a list is no node.
LEMMA EndIsNoNode == End \notin Node /\ \A m : End \notin OfCall(m)
BY DEF End, Node, OfCall

\* The successor of a node.
LEMMA NextNode ==
  ASSUME pres \in Seq(Node), IsInjective(pres), NEW x \in Range(pres)
  PROVE  /\ NextOf(x) \in Range(pres) \cup {End}
         /\ pres[1] = x => IF Len(pres) = 1 THEN NextOf(x) = End
                           ELSE Len(pres) > 1 /\ NextOf(x) = pres[2]
<1>0. Len(pres) \in Nat /\ DOMAIN pres = 1 .. Len(pres)
  BY LenProperties
<1>1. PICK p \in 1 .. Len(pres) : pres[p] = x
  BY <1>0 DEF Range
<1>2. Place(x) = p
  BY <1>0, <1>1 DEF Place, IsInjective
<1>3. NextOf(x) = IF p = Len(pres) THEN End ELSE pres[p + 1]
  BY <1>2 DEF NextOf
<1> DEFINE L == Len(pres)
<1>a. L \in Nat /\ p \in 1 .. L
  BY <1>0
<1>4. p # L => p + 1 \in 1 .. L
  <2> HIDE DEF L
  <2> QED
    BY <1>a
<1>5. NextOf(x) \in Range(pres) \cup {End}
  BY <1>0, <1>3, <1>4 DEF Range
<1>6. pres[1] = x => p = 1
  BY <1>0, <1>1 DEF IsInjective
<1>7. p = 1 => IF L = 1 THEN NextOf(x) = End ELSE L > 1 /\ NextOf(x) = pres[2]
  <2>1. NextOf(x) = IF p = L THEN End ELSE pres[p + 1]
    BY <1>3
  <2> HIDE DEF L
  <2> QED
    BY <1>a, <2>1
<1> QED
  BY <1>5, <1>6, <1>7

\* A walk starts at the first node.
LEMMA WalkStarts ==
  ASSUME pres \in Seq(Node), IsInjective(pres)
  PROVE  \E x, y \in Range(pres) \cup {End} :
           /\ StartWalk = [at |-> "item", pos |-> x, next |-> y]
           /\ x = End => pres = << >>
           /\ x \in Range(pres) =>
                /\ pres[1] = x
                /\ y = End => Len(pres) = 1
                /\ y \in Range(pres) => Len(pres) > 1 /\ pres[2] = y
<1>0. End \notin Range(pres)
  <2>1. Range(pres) \subseteq Node
    BY LenProperties, ElementOfSeq DEF Range
  <2> QED
    BY <2>1, EndIsNoNode
<1>1. CASE pres = << >>
  BY <1>0, <1>1 DEF StartWalk
<1>2. CASE pres # << >>
  <2>1. Head(pres) = pres[1] /\ pres[1] \in Range(pres)
    BY <1>2, EmptyList
  <2>2. StartWalk = [at |-> "item", pos |-> pres[1], next |-> NextOf(pres[1])]
    BY <1>2, <2>1 DEF StartWalk
  <2>3. /\ NextOf(pres[1]) \in Range(pres) \cup {End}
        /\ IF Len(pres) = 1 THEN NextOf(pres[1]) = End
           ELSE Len(pres) > 1 /\ NextOf(pres[1]) = pres[2]
    BY <2>1, NextNode
  <2>4. Len(pres) > 1 => pres[2] # End
    <3>1. Len(pres) > 1 => 2 \in DOMAIN pres
      BY LenProperties
    <3> QED
      BY <1>0, <3>1 DEF Range
  <2> QED
    BY <1>0, <2>1, <2>2, <2>3, <2>4
<1> QED
  BY <1>1, <1>2

\* A walk unlinks the node it is at.
LEMMA UnlinkKeeps ==
  ASSUME BoundAssumption, IInv, NEW k \in Closer, WalkUnlink(k)
  PROVE  IInv'
<1> USE DEF IInv
<1> DEFINE x == walk[k].pos
<1>1. UNCHANGED <<pc, n, first, alloc, open, running, kills, base, safe, sig, cancel>>
      /\ walk[k].at = "item" /\ x # End
  BY DEF WalkUnlink, thread, flags
<1>2. base # "done" /\ (k = "base" => base = "closing")
  BY <1>1 DEF BaseWalk, TypeOK
<1>3. CASE x \notin Range(pres)
  <2>1. err' = "stale" /\ UNCHANGED <<pres, walk>>
    BY <1>3 DEF WalkUnlink
  <2>2. ~Ok'
    BY <2>1 DEF Ok
  <2>3. TypeOK' /\ ShortList' /\ SeenLater' /\ Owners' /\ ListedFileIsOpen'
    BY <1>1, <2>1 DEF TypeOK, ShortList, Limit, SeenLater, Seen, Owners, Own, ListedFileIsOpen
  <2>4. Holders'
    BY <1>1, <2>1, <2>2 DEF Holders, Busy
  <2>5. BaseWalk'
    BY <1>1, <1>2, <2>1 DEF BaseWalk, Ended
  <2> QED
    BY <2>3, <2>4, <2>5
<1>4. CASE x \in Range(pres)
  <2>1. pres' = Unlinked(x) /\ err' = err /\ walk' = [walk EXCEPT ![k].at = "ccb"]
    BY <1>4 DEF WalkUnlink
  <2>2. /\ pres' \in Seq(Node) /\ IsInjective(pres') /\ Len(pres) \in Nat \ {0}
        /\ Len(pres') = Len(pres) - 1 /\ Range(pres') = Range(pres) \ {x}
        /\ pres[1] = x => \A i \in 1 .. Len(pres) - 1 : pres'[i] = pres[i + 1]
        /\ pres[1] # x => Len(pres) > 1 /\ pres'[1] = pres[1]
        /\ pres[1] # x /\ pres[2] # x => Len(pres) > 2 /\ pres'[2] = pres[2]
    BY <1>4, <2>1, UnlinkedList DEF TypeOK
  <2>3. walk' \in [Closer -> [at : {"off", "item", "ccb", "free"},
                              pos : Node \cup {End}, next : Node \cup {End}]]
    BY <2>1 DEF TypeOK
  <2>4. /\ walk'[k].at = "ccb" /\ walk'[k].pos = x /\ walk'[k].next = walk[k].next
        /\ \A c \in Closer : c # k => walk'[c] = walk[c]
        /\ \A c \in Closer : walk'[c].pos = walk[c].pos /\ walk'[c].next = walk[c].next
    BY <2>1 DEF TypeOK
  <2>5. TypeOK'
    BY <1>1, <2>1, <2>2, <2>3 DEF TypeOK
  <2>6. x \in Node
    BY <1>4 DEF TypeOK
  <2> HIDE DEF x
  <2>7. ShortList'
    BY <1>1, <2>2 DEF ShortList, Limit, OfCall
  <2>8. SeenLater'
    BY <1>1, <2>4 DEF SeenLater, Seen
  <2>9. Holders'
    <3>1. \A c \in Closer : c # k => (Busy(c)' <=> Busy(c)) /\ (Busy(c) => walk[c].pos # x)
      BY <1>4, <2>4 DEF Busy, Holders
    <3>2. Busy(k)' /\ ~Busy(k)
      BY <1>1, <2>4 DEF Busy
    <3>3. \A c \in Closer : Busy(c)' => walk'[c].pos \in Node \ Range(pres')
      BY <2>2, <2>4, <2>6, <3>1, <3>2 DEF Holders
    <3>4. Busy("killer")' /\ Busy("base")' => walk'["killer"].pos # walk'["base"].pos
      BY <2>4, <3>1 DEF Closer
    <3>5. Range(pres') \cup {walk'[c].pos : c \in {d \in Closer : Busy(d)'}}
            = Range(pres) \cup {walk[c].pos : c \in {d \in Closer : Busy(d)}}
      BY <1>4, <2>2, <2>4, <3>1, <3>2
    <3> QED
      BY <1>1, <2>1, <3>3, <3>4, <3>5 DEF Holders, Ok
  <2>10. Owners'
    <3>1. Own' = Own
      BY <1>1 DEF Own, OfCall
    <3>2. \A c \in Closer : walk[c].at = "ccb" => walk'[c].at = "ccb"
      BY <2>4
    <3>3. open' \subseteq Range(pres') \cup
             {walk'[c].pos : c \in {d \in Closer : walk'[d].at = "ccb"}} \cup Own'
      BY <1>1, <2>2, <2>4, <3>1, <3>2 DEF Owners
    <3> QED
      BY <1>1, <3>3 DEF Owners
  <2>11. ListedFileIsOpen'
    BY <1>1, <2>2 DEF ListedFileIsOpen
  <2>12. BaseWalk'
    <3>0. "base" \in Closer /\ End \notin Range(pres) /\ (Len(pres') = 0 => pres' = << >>)
      BY <2>2, EndIsNoNode, EmptySeq DEF Closer, TypeOK
    <3>1. CASE k = "base"
      <4>1. /\ base = "closing" /\ pres[1] = x
            /\ walk["base"].next = End => Len(pres) = 1
            /\ walk["base"].next \in Range(pres) => Len(pres) > 1 /\ pres[2] = walk["base"].next
        BY <1>1, <1>2, <1>4, <3>1 DEF BaseWalk, x
      <4>2. walk["base"].next = End => pres' = << >>
        BY <2>2, <3>0, <4>1
      <4>3. walk["base"].next \in Range(pres') => pres'[1] = walk["base"].next
        BY <2>2, <4>1
      <4> QED
        BY <1>1, <2>4, <3>0, <3>1, <4>1, <4>2, <4>3 DEF BaseWalk, Ended
    <3>2. CASE k # "base"
      <4> DEFINE w == walk["base"]
      <4>1. walk'["base"] = w
        BY <2>4, <3>0, <3>2
      <4>2. pres # << >>
        BY <1>4, EmptyList DEF TypeOK
      <4>3. ASSUME base = "closing", w.at = "item", w.pos \in Range(pres')
            PROVE  /\ pres'[1] = w.pos
                   /\ w.next = End => Len(pres') = 1
                   /\ w.next \in Range(pres') => Len(pres') > 1 /\ pres'[2] = w.next
        <5>1. pres[1] = w.pos /\ w.pos # x /\ (w.next = End => Len(pres) = 1)
              /\ (w.next \in Range(pres) => Len(pres) > 1 /\ pres[2] = w.next)
          BY <2>2, <4>3 DEF BaseWalk
        <5>2. Len(pres) > 1 /\ pres'[1] = w.pos /\ w.next # End
          BY <2>2, <5>1
        <5>3. w.next \in Range(pres') => pres[2] = w.next /\ w.next # x
          BY <2>2, <5>1
        <5> QED
          BY <2>2, <5>1, <5>2, <5>3
      <4>4. ASSUME base = "closing", w.at \in {"ccb", "free"}
            PROVE  /\ w.next # End
                   /\ w.next \in Range(pres') => pres'[1] = w.next
        BY <2>2, <4>2, <4>4 DEF BaseWalk
      <4>5. base = "closing" => Ended /\ w.at # "off" /\ ~(w.at = "item" /\ w.pos = End)
        BY <4>2 DEF BaseWalk
      <4> HIDE DEF w
      <4>6. base = "join" => w.at = "off"
        BY DEF BaseWalk, w
      <4> QED
        BY <1>1, <1>2, <4>1, <4>3, <4>4, <4>5, <4>6 DEF BaseWalk, Ended
    <3> QED
      BY <3>1, <3>2
  <2> QED
    BY <2>5, <2>7, <2>8, <2>9, <2>10, <2>11, <2>12
<1> QED
  BY <1>3, <1>4

\* A walk closes what it has unlinked.
LEMMA CloseKeeps ==
  ASSUME BoundAssumption, IInv, NEW k \in Closer, WalkClose(k)
  PROVE  IInv'
<1> USE DEF IInv
<1> DEFINE x == walk[k].pos
<1>1. /\ UNCHANGED <<pc, n, first, pres, alloc, kills, base, err, safe, sig, cancel>>
      /\ walk[k].at = "ccb" /\ open' = open \ {x} /\ running' = running \ {x}
      /\ walk' = [walk EXCEPT ![k].at = "free"]
  BY DEF WalkClose, thread, flags
<1>2. base # "done" /\ (k = "base" => base = "closing")
  BY <1>1 DEF BaseWalk, TypeOK
<1>3. /\ walk' \in [Closer -> [at : {"off", "item", "ccb", "free"},
                               pos : Node \cup {End}, next : Node \cup {End}]]
      /\ walk'[k].at = "free"
      /\ \A c \in Closer : c # k => walk'[c] = walk[c]
      /\ \A c \in Closer : walk'[c].pos = walk[c].pos /\ walk'[c].next = walk[c].next
  BY <1>1 DEF TypeOK
<1>4. x \in Node \ Range(pres)
  BY <1>1 DEF Holders, Busy
<1> HIDE DEF x
<1>5. TypeOK'
  BY <1>1, <1>3 DEF TypeOK
<1>6. ShortList'
  BY <1>1 DEF ShortList, Limit, OfCall
<1>7. SeenLater'
  BY <1>1, <1>3 DEF SeenLater, Seen
<1>8. \A c \in Closer : Busy(c)' <=> Busy(c)
  BY <1>1, <1>3 DEF Busy
<1>9. Holders'
  <2>1. {walk'[c].pos : c \in {d \in Closer : Busy(d)'}} = {walk[c].pos : c \in {d \in Closer : Busy(d)}}
    BY <1>3, <1>8
  <2>2. \A c \in Closer : Busy(c)' => walk'[c].pos \in Node \ Range(pres')
    BY <1>1, <1>3, <1>8 DEF Holders
  <2>3. Busy("killer")' /\ Busy("base")' => walk'["killer"].pos # walk'["base"].pos
    BY <1>3, <1>8 DEF Holders, Closer
  <2> QED
    BY <1>1, <2>1, <2>2, <2>3 DEF Holders, Ok
<1>10. Owners'
  <2>1. \A c \in Closer : walk[c].at = "ccb" => walk'[c].at = "ccb" \/ walk'[c].pos = x
    BY <1>3 DEF x
  <2>2. Own' = Own
    BY <1>1 DEF Own, OfCall
  <2>3. open' \subseteq Range(pres') \cup
           {walk'[c].pos : c \in {d \in Closer : walk'[d].at = "ccb"}} \cup Own'
    BY <1>1, <1>3, <2>1, <2>2 DEF Owners
  <2>4. pc \in {"forked", "listed", "failed"} => x # <<"file", n>>
    BY DEF SeenLater, Seen, OfCall, x
  <2> QED
    BY <1>1, <2>3, <2>4 DEF Owners
<1>11. ListedFileIsOpen'
  BY <1>1, <1>4 DEF ListedFileIsOpen
<1>12. BaseWalk'
  <2>0. "base" \in Closer
    BY DEF Closer
  <2>1. CASE k = "base"
    BY <1>1, <1>2, <1>3, <2>0, <2>1 DEF BaseWalk, Ended
  <2>2. CASE k # "base"
    <3>1. walk'["base"] = walk["base"]
      BY <1>3, <2>0, <2>2
    <3> QED
      BY <1>1, <1>2, <3>1 DEF BaseWalk, Ended
  <2> QED
    BY <2>1, <2>2
<1> QED
  BY <1>5, <1>6, <1>7, <1>9, <1>10, <1>11, <1>12

\* A walk goes on with the successor that it has saved.
LEMMA StepKeeps ==
  ASSUME BoundAssumption, IInv, NEW k \in Closer, WalkStep(k)
  PROVE  IInv'
<1> USE DEF IInv
<1> DEFINE x == walk[k].pos
           y == walk[k].next
           z == IF y = End THEN End ELSE NextOf(y)
<1>1. /\ UNCHANGED <<pc, n, first, pres, open, running, kills, base, safe, sig, cancel>>
      /\ walk[k].at = "free" /\ alloc' = alloc \ {x} /\ Ok
  BY DEF WalkStep, thread, flags
<1>2. base # "done" /\ (k = "base" => base = "closing") /\ k \in {"killer", "base"}
  BY <1>1 DEF BaseWalk, TypeOK, Closer
<1>3. x \in Node \ Range(pres) /\ Range(pres) \subseteq alloc'
  BY <1>1 DEF Holders, Busy, TypeOK
<1>4. CASE y # End /\ y \notin Range(pres)
  <2>1. err' = "stale" /\ UNCHANGED walk
    BY <1>4 DEF WalkStep
  <2>2. ~Ok'
    BY <2>1 DEF Ok
  <2> HIDE DEF x, y, z
  <2>3. TypeOK' /\ ShortList' /\ SeenLater' /\ Owners' /\ ListedFileIsOpen'
    BY <1>1, <1>3, <2>1 DEF TypeOK, ShortList, Limit, SeenLater, Seen, Owners, Own, ListedFileIsOpen
  <2>4. Holders'
    BY <1>1, <2>1, <2>2 DEF Holders, Busy
  <2>5. BaseWalk'
    BY <1>1, <1>2, <2>1 DEF BaseWalk, Ended
  <2> QED
    BY <2>3, <2>4, <2>5
<1>5. CASE y = End \/ y \in Range(pres)
  <2>1. err' = err /\ walk' = [walk EXCEPT ![k] = [at |-> "item", pos |-> y, next |-> z]]
    BY <1>5 DEF WalkStep
  <2>2. y \in Range(pres) => NextOf(y) \in Range(pres) \cup {End}
    BY NextNode DEF TypeOK
  <2>3. y \in Range(pres) \cup {End} /\ z \in Range(pres) \cup {End} /\ (y = End => z = End)
    BY <1>5, <2>2
  <2>4. Range(pres) \subseteq Node /\ End \notin Range(pres)
    BY EndIsNoNode DEF TypeOK
  <2>5. /\ walk'[k] = [at |-> "item", pos |-> y, next |-> z]
        /\ \A c \in Closer : c # k => walk'[c] = walk[c]
    BY <2>1 DEF TypeOK
  <2>6. k = "base" /\ y \in Range(pres) =>
           /\ pres[1] = y
           /\ IF Len(pres) = 1 THEN z = End ELSE Len(pres) > 1 /\ z = pres[2]
    BY <1>1, <1>2, <2>4, NextNode DEF BaseWalk, TypeOK
  <2>6a. k = "base" /\ y = End => pres = << >>
    BY <1>1, <1>2 DEF BaseWalk
  <2>6b. y = walk[k].next /\ x = walk[k].pos
    OBVIOUS
  <2> HIDE DEF x, y, z
  <2>7. walk' \in [Closer -> [at : {"off", "item", "ccb", "free"},
                              pos : Node \cup {End}, next : Node \cup {End}]]
    <3>1. y \in Node \cup {End} /\ z \in Node \cup {End}
      BY <2>3, <2>4
    <3> QED
      BY <2>1, <3>1 DEF TypeOK
  <2>8. TypeOK'
    BY <1>1, <1>3, <2>1, <2>7 DEF TypeOK
  <2>9. ShortList' /\ ListedFileIsOpen'
    BY <1>1 DEF ShortList, Limit, OfCall, ListedFileIsOpen
  <2>10. SeenLater'
    <3>1. \A c \in Closer : c # k => Seen(c)' = Seen(c)
      BY <2>5 DEF Seen
    <3>2. Seen(k)' = {y, z}
      BY <2>5 DEF Seen
    <3>3. {y, z} \subseteq Range(pres) \cup {End}
      BY <2>3
    <3>4. n \in Nat /\ \A m \in n + 1 .. MaxSh : m # n /\ OfCall(m) \cap OfCall(n) = {}
      BY DEF TypeOK, OfCall
    <3>5. \A m : End \notin OfCall(m)
      BY EndIsNoNode
    <3>6. Range(pres) \subseteq OfCall(n)
      BY DEF ShortList, OfCall
    <3>7. \A m \in n + 1 .. MaxSh : Seen(k)' \cap OfCall(m) = {}
      BY <3>2, <3>3, <3>4, <3>5, <3>6
    <3>8. pc \in {"forked", "failed"} => Seen(k)' \cap OfCall(n) = {}
      <4>1. pc \in {"forked", "failed"} => Range(pres) = {}
        BY EmptyList DEF TypeOK, ShortList, Limit
      <4> QED
        BY <3>2, <3>3, <3>5, <4>1
    <3>9. pc = "listed" => <<"file", n>> \notin Seen(k)'
      <4>1. pc = "listed" => Range(pres) \subseteq {<<"child", n>>}
        BY DEF ShortList
      <4>2. <<"file", n>> # <<"child", n>> /\ <<"file", n>> # End
        BY DEF End
      <4> QED
        BY <3>2, <3>3, <4>1, <4>2
    <3>10. \A c \in Closer :
             /\ \A m \in n + 1 .. MaxSh : Seen(c)' \cap OfCall(m) = {}
             /\ pc \in {"forked", "failed"} => Seen(c)' \cap OfCall(n) = {}
             /\ pc = "listed" => <<"file", n>> \notin Seen(c)'
      BY <3>1, <3>7, <3>8, <3>9 DEF SeenLater
    <3> QED
      BY <1>1, <3>10 DEF SeenLater, OfCall
  <2>11. \A c \in Closer : Busy(c)' <=> Busy(c) /\ c # k
    BY <2>5 DEF Busy
  <2>12. \A c \in Closer : c # k /\ Busy(c) => walk[c].pos # x
    BY <1>1, <1>2, <2>6b DEF Holders, Busy, Closer
  <2>13. Holders'
    <3>1. {walk'[c].pos : c \in {d \in Closer : Busy(d)'}}
            = {walk[c].pos : c \in {d \in Closer : Busy(d)}} \ {x}
      BY <2>5, <2>6b, <2>11, <2>12
    <3>2. \A c \in Closer : Busy(c)' => walk'[c].pos \in Node \ Range(pres')
      BY <1>1, <2>5, <2>11 DEF Holders
    <3>3. ~(Busy("killer")' /\ Busy("base")')
      BY <1>2, <2>11 DEF Closer
    <3> QED
      BY <1>1, <1>3, <2>1, <3>1, <3>2, <3>3 DEF Holders, Ok
  <2>14. Owners'
    <3>1. \A c \in Closer : walk[c].at = "ccb" => c # k /\ walk'[c] = walk[c]
      BY <1>1, <2>5
    <3>2. Own' = Own
      BY <1>1 DEF Own, OfCall
    <3>3. open' \subseteq Range(pres') \cup
             {walk'[c].pos : c \in {d \in Closer : walk'[d].at = "ccb"}} \cup Own'
      BY <1>1, <3>1, <3>2 DEF Owners
    <3> QED
      BY <1>1, <3>3 DEF Owners
  <2>15. BaseWalk'
    <3>0. "base" \in Closer
      BY DEF Closer
    <3>1. CASE k = "base"
      <4>1. /\ walk'["base"].at = "item" /\ walk'["base"].pos = y /\ walk'["base"].next = z
        BY <2>5, <3>1
      <4>2. base = "closing" /\ Ended
        BY <1>2, <3>1 DEF BaseWalk
      <4>3. y \in Range(pres) =>
               /\ pres[1] = y
               /\ z = End => Len(pres) = 1
               /\ z \in Range(pres) => Len(pres) > 1 /\ pres[2] = z
        <5>1. ASSUME y \in Range(pres), z = End  PROVE Len(pres) = 1
          <6>1. Len(pres) > 1 => 2 \in DOMAIN pres
            BY LenProperties DEF TypeOK
          <6> QED
            BY <2>4, <2>6, <3>1, <5>1, <6>1 DEF Range
        <5> QED
          BY <2>4, <2>6, <3>1, <5>1
      <4>4. y = End => pres = << >>
        BY <2>6a, <3>1
      <4> QED
        BY <1>1, <4>1, <4>2, <4>3, <4>4 DEF BaseWalk, Ended
    <3>2. CASE k # "base"
      <4>1. walk'["base"] = walk["base"]
        BY <2>5, <3>0, <3>2
      <4> QED
        BY <1>1, <1>2, <4>1 DEF BaseWalk, Ended
    <3> QED
      BY <3>1, <3>2
  <2> QED
    BY <2>8, <2>9, <2>10, <2>13, <2>14, <2>15
<1> QED
  BY <1>4, <1>5

---------------------------------------------------------------------------
\* A kill may come at any time.
LEMMA KillKeeps == ASSUME BoundAssumption, IInv, Kill  PROVE IInv'
<1> USE DEF IInv
<1>1. /\ UNCHANGED <<pc, n, first, safe, pres, alloc, open, running, base, err>>
      /\ kills < MaxKills /\ kills' = kills + 1 /\ base # "done"
      /\ walk["killer"].at = "off" /\ walk' = [walk EXCEPT !["killer"] = StartWalk]
  BY DEF Kill, thread, res
<1>2. sig' \in BOOLEAN /\ cancel' \in BOOLEAN
  BY DEF Kill, TypeOK
<1>3. PICK x, y \in Range(pres) \cup {End} : StartWalk = [at |-> "item", pos |-> x, next |-> y]
  BY WalkStarts DEF TypeOK
<1>4. /\ walk'["killer"] = [at |-> "item", pos |-> x, next |-> y]
      /\ walk'["base"] = walk["base"]
      /\ Range(pres) \subseteq Node /\ Closer = {"killer", "base"}
  BY <1>1, <1>3 DEF TypeOK, Closer
<1>5. TypeOK'
  <2>1. walk' \in [Closer -> [at : {"off", "item", "ccb", "free"},
                              pos : Node \cup {End}, next : Node \cup {End}]]
    BY <1>1, <1>3, <1>4 DEF TypeOK
  <2>2. kills' \in 0 .. MaxKills
    BY <1>1 DEF TypeOK, BoundAssumption
  <2> QED
    BY <1>1, <1>2, <2>1, <2>2 DEF TypeOK
<1>6. ShortList' /\ ListedFileIsOpen'
  BY <1>1 DEF ShortList, Limit, OfCall, ListedFileIsOpen
<1>7. SeenLater'
  <2>1. Seen("base")' = Seen("base") /\ Seen("killer")' = {x, y}
    BY <1>4 DEF Seen
  <2>2. n \in Nat /\ \A m \in n + 1 .. MaxSh : m # n /\ OfCall(m) \cap OfCall(n) = {}
    BY DEF TypeOK, OfCall
  <2>3. \A m : End \notin OfCall(m)
    BY EndIsNoNode
  <2>4. Range(pres) \subseteq OfCall(n)
    BY DEF ShortList, OfCall
  <2>5. \A m \in n + 1 .. MaxSh : {x, y} \cap OfCall(m) = {}
    BY <2>2, <2>3, <2>4
  <2>6. pc \in {"forked", "failed"} => {x, y} \cap OfCall(n) = {}
    <3>1. pc \in {"forked", "failed"} => Range(pres) = {}
      BY EmptyList DEF TypeOK, ShortList, Limit
    <3> QED
      BY <2>3, <3>1
  <2>7. pc = "listed" => <<"file", n>> \notin {x, y}
    <3>1. pc = "listed" => Range(pres) \subseteq {<<"child", n>>}
      BY DEF ShortList
    <3>2. <<"file", n>> # <<"child", n>> /\ <<"file", n>> # End
      BY DEF End
    <3> QED
      BY <3>1, <3>2
  <2> QED
    BY <1>1, <1>4, <2>1, <2>5, <2>6, <2>7 DEF SeenLater, OfCall
<1>8. /\ \A c \in Closer : Busy(c)' <=> Busy(c)
      /\ \A c \in Closer : Busy(c) => walk'[c] = walk[c]
      /\ \A c \in Closer : walk'[c].at = "ccb" <=> walk[c].at = "ccb"
      /\ ~Busy("killer")
  BY <1>1, <1>4 DEF Busy
<1>9. Holders'
  <2>1. {walk'[c].pos : c \in {d \in Closer : Busy(d)'}} = {walk[c].pos : c \in {d \in Closer : Busy(d)}}
    BY <1>8
  <2>2. \A c \in Closer : Busy(c)' => walk'[c].pos \in Node \ Range(pres')
    BY <1>1, <1>8 DEF Holders
  <2> QED
    BY <1>1, <1>4, <1>8, <2>1, <2>2 DEF Holders, Ok
<1>10. Owners'
  <2>1. \A c \in Closer : walk[c].at = "ccb" => walk'[c] = walk[c]
    BY <1>8 DEF Busy
  <2>2. {walk'[c].pos : c \in {d \in Closer : walk'[d].at = "ccb"}}
          = {walk[c].pos : c \in {d \in Closer : walk[d].at = "ccb"}}
    BY <1>8, <2>1
  <2>3. Own' = Own
    BY <1>1 DEF Own, OfCall
  <2> QED
    BY <1>1, <2>2, <2>3 DEF Owners
<1>11. BaseWalk'
  BY <1>1, <1>4 DEF BaseWalk, Ended
<1> QED
  BY <1>5, <1>6, <1>7, <1>9, <1>10, <1>11

\* A walk that is not on a node in hand is put away, or the base thread's begins.
LEMMA BaseKeeps == ASSUME BoundAssumption, IInv, KillDone \/ BaseClose \/ BaseDone  PROVE IInv'
<1> USE DEF IInv
<1>1. UNCHANGED <<pc, n, first, safe, sig, cancel, pres, alloc, open, running, kills, err>> /\ Ok
  BY DEF KillDone, BaseClose, BaseDone, thread, flags, res
<1>2. PICK x, y \in Range(pres) \cup {End} :
        /\ StartWalk = [at |-> "item", pos |-> x, next |-> y]
        /\ x = End => pres = << >>
        /\ x \in Range(pres) =>
             /\ pres[1] = x
             /\ y = End => Len(pres) = 1
             /\ y \in Range(pres) => Len(pres) > 1 /\ pres[2] = y
  BY WalkStarts DEF TypeOK
<1>3. \/ /\ walk' = [walk EXCEPT !["killer"] = Idle] /\ base' = base
         /\ walk["killer"].at = "item"
      \/ /\ walk' = [walk EXCEPT !["base"] = StartWalk] /\ base = "join" /\ base' = "closing" /\ Ended
      \/ /\ walk' = [walk EXCEPT !["base"] = Idle] /\ base = "closing" /\ base' = "done"
         /\ walk["base"].at = "item" /\ walk["base"].pos = End /\ walk["killer"].at = "off"
  BY DEF KillDone, BaseClose, BaseDone
<1>4. Closer = {"killer", "base"} /\ Range(pres) \subseteq Node
  BY DEF Closer, TypeOK
<1>5. PICK k \in Closer, v \in {Idle, StartWalk} :
        /\ walk' = [walk EXCEPT ![k] = v]
        /\ walk[k].at \in {"off", "item"}
  BY <1>3, <1>4 DEF BaseWalk
<1>6. /\ v.at \in {"off", "item"} /\ v.pos \in Range(pres) \cup {End} /\ v.next \in Range(pres) \cup {End}
      /\ v \in [at : {"off", "item", "ccb", "free"}, pos : Node \cup {End}, next : Node \cup {End}]
  BY <1>2, <1>4 DEF Idle
<1>7. walk'[k] = v /\ \A c \in Closer : c # k => walk'[c] = walk[c]
  BY <1>5 DEF TypeOK
<1>8. TypeOK'
  <2>1. walk' \in [Closer -> [at : {"off", "item", "ccb", "free"},
                              pos : Node \cup {End}, next : Node \cup {End}]]
    BY <1>5, <1>6 DEF TypeOK
  <2> QED
    BY <1>1, <1>3, <2>1 DEF TypeOK
<1>9. ShortList' /\ ListedFileIsOpen'
  BY <1>1 DEF ShortList, Limit, OfCall, ListedFileIsOpen
<1>10. SeenLater'
  <2>1. Seen(k)' \subseteq Range(pres) \cup {End}
    BY <1>6, <1>7 DEF Seen
  <2>2. \A c \in Closer : c # k => Seen(c)' = Seen(c)
    BY <1>7 DEF Seen
  <2>3. n \in Nat /\ \A m \in n + 1 .. MaxSh : m # n /\ OfCall(m) \cap OfCall(n) = {}
    BY DEF TypeOK, OfCall
  <2>4. \A m : End \notin OfCall(m)
    BY EndIsNoNode
  <2>5. Range(pres) \subseteq OfCall(n)
    BY DEF ShortList, OfCall
  <2>6. \A m \in n + 1 .. MaxSh : Seen(k)' \cap OfCall(m) = {}
    BY <2>1, <2>3, <2>4, <2>5
  <2>7. pc \in {"forked", "failed"} => Seen(k)' \cap OfCall(n) = {}
    <3>1. pc \in {"forked", "failed"} => Range(pres) = {}
      BY EmptyList DEF TypeOK, ShortList, Limit
    <3> QED
      BY <2>1, <2>4, <3>1
  <2>8. pc = "listed" => <<"file", n>> \notin Seen(k)'
    <3>1. pc = "listed" => Range(pres) \subseteq {<<"child", n>>}
      BY DEF ShortList
    <3>2. <<"file", n>> # <<"child", n>> /\ <<"file", n>> # End
      BY DEF End
    <3> QED
      BY <2>1, <3>1, <3>2
  <2>9. \A c \in Closer :
          /\ \A m \in n + 1 .. MaxSh : Seen(c)' \cap OfCall(m) = {}
          /\ pc \in {"forked", "failed"} => Seen(c)' \cap OfCall(n) = {}
          /\ pc = "listed" => <<"file", n>> \notin Seen(c)'
    BY <2>2, <2>6, <2>7, <2>8 DEF SeenLater
  <2> QED
    BY <1>1, <2>9 DEF SeenLater, OfCall
<1>11. /\ \A c \in Closer : Busy(c)' <=> Busy(c)
       /\ \A c \in Closer : Busy(c) => walk'[c] = walk[c]
       /\ \A c \in Closer : walk'[c].at = "ccb" <=> walk[c].at = "ccb"
  BY <1>5, <1>6, <1>7 DEF Busy
<1>12. Holders'
  <2>1. {walk'[c].pos : c \in {d \in Closer : Busy(d)'}} = {walk[c].pos : c \in {d \in Closer : Busy(d)}}
    BY <1>11
  <2>2. \A c \in Closer : Busy(c)' => walk'[c].pos \in Node \ Range(pres')
    BY <1>1, <1>11 DEF Holders
  <2>3. Busy("killer")' /\ Busy("base")' => walk'["killer"].pos # walk'["base"].pos
    BY <1>4, <1>11 DEF Holders
  <2> QED
    BY <1>1, <2>1, <2>2, <2>3 DEF Holders, Ok
<1>13. Owners'
  <2>1. \A c \in Closer : walk[c].at = "ccb" => walk'[c] = walk[c]
    BY <1>11 DEF Busy
  <2>2. {walk'[c].pos : c \in {d \in Closer : walk'[d].at = "ccb"}}
          = {walk[c].pos : c \in {d \in Closer : walk[d].at = "ccb"}}
    BY <1>11, <2>1
  <2>3. Own' = Own
    BY <1>1 DEF Own, OfCall
  <2> QED
    BY <1>1, <2>2, <2>3 DEF Owners
<1>14. BaseWalk'
  <2>1. CASE walk' = [walk EXCEPT !["killer"] = Idle] /\ base' = base /\ walk["killer"].at = "item"
    <3>1. walk'["base"] = walk["base"] /\ base # "done"
      BY <1>4, <2>1 DEF TypeOK, BaseWalk
    <3> QED
      BY <1>1, <2>1, <3>1 DEF BaseWalk, Ended
  <2>2. CASE walk' = [walk EXCEPT !["base"] = StartWalk] /\ base = "join" /\ base' = "closing" /\ Ended
    <3>1. walk'["base"] = [at |-> "item", pos |-> x, next |-> y]
      BY <1>2, <1>4, <2>2 DEF TypeOK
    <3>2. x = End => x \notin Range(pres)
      BY <1>4, EndIsNoNode
    <3> QED
      BY <1>1, <1>2, <2>2, <3>1, <3>2 DEF BaseWalk, Ended
  <2>3. CASE /\ walk' = [walk EXCEPT !["base"] = Idle] /\ base = "closing" /\ base' = "done"
             /\ walk["base"].at = "item" /\ walk["base"].pos = End /\ walk["killer"].at = "off"
    <3>1. walk'["base"].at = "off" /\ walk'["killer"].at = "off"
      BY <1>4, <2>3 DEF TypeOK, Idle
    <3>2. pres = << >> /\ Ended
      BY <2>3 DEF BaseWalk
    <3>3. Ok' /\ Ended'
      BY <1>1, <3>2 DEF Ok, Ended
    <3> QED
      BY <1>1, <1>4, <2>3, <3>1, <3>2, <3>3 DEF BaseWalk
  <2> QED
    BY <1>3, <2>1, <2>2, <2>3
<1> QED
  BY <1>8, <1>9, <1>10, <1>12, <1>13, <1>14

\* Every step keeps the invariant, ...
LEMMA NextKeeps == BoundAssumption /\ IInv /\ [Next]_vars => IInv'
<1> SUFFICES ASSUME BoundAssumption, IInv, [Next]_vars  PROVE IInv'
  OBVIOUS
<1>1. CASE Sh
  BY <1>1, ForkKeeps, AddKeeps, FlagSteps, ReapKeeps, FindKeeps, FreeKeeps DEF Sh
<1>2. CASE ChildEnds
  BY <1>2, FlagSteps
<1>3. ASSUME NEW k \in Closer, Walk(k)  PROVE IInv'
  BY <1>3, UnlinkKeeps, CloseKeeps, StepKeeps DEF Walk
<1>4. CASE Kill
  BY <1>4, KillKeeps
<1>5. CASE KillDone \/ BaseClose \/ BaseDone
  BY <1>5, BaseKeeps
<1>6. CASE Over \/ UNCHANGED vars
  <2>1. UNCHANGED <<pc, n, first, safe, sig, cancel, pres, alloc, open, running, kills, base, walk, err>>
    BY <1>6 DEF Over, vars, thread, flags, res
  <2> QED
    BY <2>1 DEF IInv, TypeOK, ShortList, Limit, OfCall, SeenLater, Seen, Holders, Busy, Ok,
                Owners, Own, BaseWalk, Ended, ListedFileIsOpen
<1> QED
  BY <1>1, <1>2, <1>3, <1>4, <1>5, <1>6 DEF Next

\* ... which therefore always holds ...
LEMMA Invariant == ASSUME BoundAssumption  PROVE Spec => []IInv
<1>1. Init => IInv
  BY InitHolds
<1>2. IInv /\ [Next]_vars => IInv'
  BY NextKeeps
<1> QED
  BY <1>1, <1>2, PTL DEF Spec

\* ... and leaves no resource behind.
LEMMA NoLeakHolds == IInv => NoLeak
<1> SUFFICES ASSUME IInv, base = "done"
             PROVE  alloc = {} /\ open = IF pc = "failed" THEN {<<"file", n>>} ELSE {}
  BY DEF NoLeak
<1>1. Ended /\ Ok /\ pres = << >> /\ \A k \in Closer : walk[k].at = "off"
  BY DEF IInv, BaseWalk
<1>2. Range(pres) = {}
  BY <1>1, EmptyList DEF IInv, TypeOK
<1>3. alloc = {}
  BY <1>1, <1>2 DEF IInv, Holders, Busy
<1>4. open \subseteq Own
  BY <1>1, <1>2 DEF IInv, Owners
<1>5. pc = "failed" => <<"file", n>> \in open
  BY DEF IInv, Owners
<1> QED
  BY <1>1, <1>3, <1>4, <1>5 DEF Own, Ended

\* However a request ends, by itself, by a failed fork or by a kill at any
\* moment, once the base thread is through with it every node is freed, every
\* child waited for and every registered file closed: for any number of sh
\* calls and of kills, as long as the list did not break before (mthread.c:148-186,
\* nfunc_sys.c:283-347, interpret.c:118-159).
THEOREM NothingLeaks == ASSUME BoundAssumption  PROVE Spec => []NoLeak
BY Invariant, NoLeakHolds, PTL

\* Whoever finds a file on the list, the killer or the base thread, finds it
\* open: ylmt_close_all_pres never closes a file twice (mthread.c:148-160).
THEOREM ListedFilesAreOpen == ASSUME BoundAssumption  PROVE Spec => []ListedFileIsOpen
<1>1. IInv => ListedFileIsOpen
  BY DEF IInv
<1> QED
  BY <1>1, Invariant, PTL
=============================================================================
