---------------------------- MODULE DataLemmas ----------------------------
(***************************************************************************)
(* What the proofs of several modules need to know about numbers and       *)
(* sequences.  Induction over the natural numbers is stated with sets:     *)
(* the theorems of the library that take an operator cannot be used.       *)
(***************************************************************************)
EXTENDS Integers, SequencesExt, SequenceTheorems, WellFoundedInduction, TLAPS

\* A sequence without its last element.
LEMMA FrontLast ==
  ASSUME NEW S, NEW q \in Seq(S), q # <<>>
  PROVE  /\ Front(q) \in Seq(S) /\ Len(Front(q)) = Len(q) - 1 /\ Len(q) \in Nat \ {0}
         /\ \A i \in 1..Len(q) - 1 : Front(q)[i] = q[i]
         /\ Last(q) = q[Len(q)] /\ Last(q) \in S
<1>1. Len(q) \in Nat \ {0}
  BY EmptySeq
<1>2. \A i \in 1..Len(q) : q[i] \in S
  BY LenProperties
<1>3. /\ SubSeq(q, 1, Len(q) - 1) \in Seq(S)
      /\ Len(SubSeq(q, 1, Len(q) - 1)) = Len(q) - 1
      /\ \A i \in 1..Len(q) - 1 : SubSeq(q, 1, Len(q) - 1)[i] = q[i]
  <2>1. PICK n \in Nat : n = Len(q) - 1
    BY <1>1
  <2>2. \A i \in 1..n : q[i] \in S
    BY <1>1, <1>2, <2>1
  <2>3. /\ SubSeq(q, 1, n) \in Seq(S)
        /\ Len(SubSeq(q, 1, n)) = IF 1 <= n THEN n - 1 + 1 ELSE 0
        /\ \A i \in 1..n - 1 + 1 : SubSeq(q, 1, n)[i] = q[1 + i - 1]
    BY <2>2, SubSeqProperties
  <2>4. Len(SubSeq(q, 1, n)) = n
    BY <2>3
  <2>5. \A i \in 1..n : SubSeq(q, 1, n)[i] = q[i]
    BY <2>3
  <2> QED
    BY <2>1, <2>3, <2>4, <2>5
<1>4. Len(q) \in 1..Len(q)
  BY <1>1
<1> QED
  BY <1>1, <1>2, <1>3, <1>4 DEF Front, Last

\* A set of natural numbers has a least one.
LEMMA LeastNatural ==
  ASSUME NEW S, S \subseteq Nat, S # {}
  PROVE  \E x \in S : \A y \in S : x <= y
<1> DEFINE Less == {ss \in Nat \X Nat : ss[1] < ss[2]}
<1>1. IsWellFoundedOn(Less, Nat)
  BY NatLessThanWellFounded, Zenon DEF OpToRel
<1> HIDE DEF Less
<1>2. PICK x \in S : \A y \in S : ~(<<y, x>> \in Less)
  BY <1>1, WFMin
<1>3. ASSUME NEW y \in S  PROVE x <= y
  <2>1. <<y, x>> \in Nat \X Nat /\ <<y, x>>[1] = y /\ <<y, x>>[2] = x
    OBVIOUS
  <2>2. y < x => <<y, x>> \in Less
    BY <2>1 DEF Less
  <2> QED
    BY <1>2, <2>1, <2>2
<1> QED
  BY <1>3

\* The least of some numbers is one of them.
LEMMA LeastIndex ==
  ASSUME NEW S, S \subseteq Nat, S # {}
  PROVE  Min(S) \in S /\ \A y \in S : Min(S) <= y
  BY LeastNatural DEF Min

\* Induction: a set with 0 and with the successors of its elements has all numbers.
LEMMA AllNaturals ==
  ASSUME NEW S, 0 \in S, \A n \in Nat : n \in S => n + 1 \in S
  PROVE  \A n \in Nat : n \in S
<1> SUFFICES ASSUME Nat \ S # {} PROVE FALSE
  OBVIOUS
<1>1. PICK x \in Nat \ S : \A y \in Nat \ S : x <= y
  BY LeastNatural
<1>2. x # 0 /\ x - 1 \in Nat /\ x - 1 + 1 = x /\ ~ (x <= x - 1)
  BY <1>1
<1> QED
  BY <1>1, <1>2

\* A part of a sequence, item by item.
LEMMA PartOf ==
  ASSUME NEW S, NEW s \in Seq(S), NEW m \in Nat \ {0}, NEW n \in Nat, n <= Len(s), m <= n + 1
  PROVE  /\ SubSeq(s, m, n) \in Seq(S)
         /\ Len(SubSeq(s, m, n)) = n - m + 1
         /\ \A i \in 1..n - m + 1 : SubSeq(s, m, n)[i] = s[m + i - 1]
<1>1. \A i \in m..n : i \in 1..Len(s)
  OBVIOUS
<1>2. \A i \in m..n : s[i] \in S
  BY <1>1
<1>3. m \in Int /\ n \in Int
  OBVIOUS
<1>4. (IF m <= n THEN n - m + 1 ELSE 0) = n - m + 1
  OBVIOUS
<1> QED
  BY <1>2, <1>3, <1>4, SubSeqProperties

\* A sequence is its items.
LEMMA SameItems ==
  ASSUME NEW S, NEW T, NEW s \in Seq(S), NEW t \in Seq(T), Len(s) = Len(t),
         \A i \in 1..Len(s) : s[i] = t[i]
  PROVE  s = t
<1>1. s = [i \in 1..Len(s) |-> s[i]] /\ t = [i \in 1..Len(t) |-> t[i]]
  OBVIOUS
<1> QED
  BY <1>1

\* The greatest of some numbers up to n is one of them.
LEMMA GreatestIndex ==
  ASSUME NEW n \in Nat, NEW S, S \subseteq 1..n, S # {}
  PROVE  Max(S) \in S /\ \A y \in S : y <= Max(S)
<1> DEFINE D == {n - y : y \in S}
<1>1. D \subseteq Nat /\ D # {}
  <2>1. \A y \in S : y \in 1..n
    OBVIOUS
  <2>2. \A y \in 1..n : n - y \in Nat
    OBVIOUS
  <2> QED
    BY <2>1, <2>2
<1>2. PICK d \in D : \A e \in D : d <= e
  BY <1>1, LeastNatural
<1>3. PICK x \in S : d = n - x
  BY <1>2
<1>4. \A y \in S : x >= y
  <2> SUFFICES ASSUME NEW y \in S PROVE x >= y
    OBVIOUS
  <2>1. n - y \in D /\ x \in 1..n /\ y \in 1..n
    OBVIOUS
  <2>2. n - x <= n - y
    BY <1>2, <1>3, <2>1
  <2> QED
    BY <2>1, <2>2
<1>5. /\ Max(S) \in S /\ \A y \in S : Max(S) >= y
  BY <1>3, <1>4 DEF Max
<1> QED
  BY <1>5

\* Two sequences with an item between them, item by item.
LEMMA Joined ==
  ASSUME NEW S, NEW s \in Seq(S), NEW x \in S, NEW t \in Seq(S)
  PROVE  /\ s \o <<x>> \o t \in Seq(S)
         /\ Len(s \o <<x>> \o t) = Len(s) + 1 + Len(t)
         /\ \A i \in 1..Len(s) : (s \o <<x>> \o t)[i] = s[i]
         /\ (s \o <<x>> \o t)[Len(s) + 1] = x
         /\ \A i \in 1..Len(t) : (s \o <<x>> \o t)[Len(s) + 1 + i] = t[i]
<1> DEFINE one == <<x>>
           b == s \o one
           p == b \o t
<1>1. one \in Seq(S) /\ Len(one) = 1 /\ one[1] = x
  OBVIOUS
<1> HIDE DEF one
<1>2. PICK n \in Nat : n = Len(s)
  BY LenProperties
<1>3. PICK k \in Nat : k = Len(t)
  BY LenProperties
<1>4. /\ b \in Seq(S) /\ Len(b) = n + 1
      /\ \A i \in 1..n + 1 : b[i] = IF i <= n THEN s[i] ELSE one[i - n]
  <2>1. /\ b \in Seq(S) /\ Len(b) = Len(s) + Len(one)
        /\ \A i \in 1..Len(s) + Len(one) : b[i] = IF i <= Len(s) THEN s[i] ELSE one[i - Len(s)]
    BY <1>1, ConcatProperties
  <2> HIDE DEF b
  <2> QED
    BY <1>1, <1>2, <2>1
<1>5. b[n + 1] = x /\ \A i \in 1..n : b[i] = s[i]
  <2>1. n + 1 \in 1..n + 1 /\ ~ (n + 1 <= n) /\ n + 1 - n = 1
    OBVIOUS
  <2> HIDE DEF b
  <2>2. \A i \in 1..n : i \in 1..n + 1 /\ i <= n
    OBVIOUS
  <2> QED
    BY <1>1, <1>4, <2>1, <2>2
<1> HIDE DEF b
<1>6. /\ p \in Seq(S) /\ Len(p) = n + 1 + k
      /\ \A i \in 1..n + 1 + k : p[i] = IF i <= n + 1 THEN b[i] ELSE t[i - (n + 1)]
  <2>1. /\ p \in Seq(S) /\ Len(p) = Len(b) + Len(t)
        /\ \A i \in 1..Len(b) + Len(t) : p[i] = IF i <= Len(b) THEN b[i] ELSE t[i - Len(b)]
    BY <1>4, ConcatProperties
  <2> HIDE DEF p
  <2> QED
    BY <1>3, <1>4, <2>1
<1> HIDE DEF p
<1>7. \A i \in 1..n + 1 : p[i] = b[i]
  <2>1. \A i \in 1..n + 1 : i \in 1..n + 1 + k /\ i <= n + 1
    OBVIOUS
  <2> QED
    BY <1>6, <2>1
<1>8. \A i \in 1..k : p[n + 1 + i] = t[i]
  <2>1. \A i \in 1..k : /\ n + 1 + i \in 1..n + 1 + k /\ ~ (n + 1 + i <= n + 1)
                        /\ n + 1 + i - (n + 1) = i
    OBVIOUS
  <2> QED
    BY <1>6, <2>1
<1>9. \A i \in 1..n : p[i] = s[i]
  <2>1. \A i \in 1..n : i \in 1..n + 1
    OBVIOUS
  <2> QED
    BY <1>5, <1>7, <2>1
<1>10. n + 1 \in 1..n + 1
  OBVIOUS
<1>11. p = s \o <<x>> \o t
  BY DEF p, b, one
<1>12. /\ p \in Seq(S) /\ Len(p) = Len(s) + 1 + Len(t)
       /\ \A i \in 1..Len(s) : p[i] = s[i]
       /\ p[Len(s) + 1] = x
       /\ \A i \in 1..Len(t) : p[Len(s) + 1 + i] = t[i]
  BY <1>2, <1>3, <1>5, <1>6, <1>7, <1>8, <1>9, <1>10
<1> QED
  BY <1>11, <1>12
===========================================================================
