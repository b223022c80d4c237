---------------------------- MODULE TextProofs ----------------------------
(***************************************************************************)
(* Proofs about texts.  The string functions, for texts and patterns of    *)
(* any length: they find, cut, split and replace what they should.  The    *)
(* printer, for any graph of pairs: it ends, and reports cycles only.  The *)
(* reader, for any input: it evaluates what the grammar says.              *)
(* The operators that abbreviate an equation, Grouped and the like, keep a *)
(* lemma's conclusion in one piece for the provers.                        *)
(***************************************************************************)
EXTENDS Strings, Grammar, Printer, FiniteSetTheorems, DataLemmas

---------------------------------------------------------------------------
(* Parts of texts, and searches.                                           *)

LEMMA MinIs ==
  ASSUME NEW S, S \subseteq Int, NEW x \in S, \A y \in S : x <= y
  PROVE  Min(S) = x
<1>1. /\ Min(S) \in S /\ \A y \in S : Min(S) <= y
  BY DEF Min
<1>2. Min(S) <= x /\ x <= Min(S) /\ Min(S) \in Int /\ x \in Int
  BY <1>1
<1> QED
  BY <1>2

LEMMA MaxIs ==
  ASSUME NEW S, S \subseteq Int, NEW x \in S, \A y \in S : y <= x
  PROVE  Max(S) = x
<1>1. /\ Max(S) \in S /\ \A y \in S : Max(S) >= y
  <2>1. \A y \in S : x >= y
    OBVIOUS
  <2> QED
    BY <2>1 DEF Max
<1>2. Max(S) <= x /\ Max(S) >= x
  BY <1>1
<1>3. Max(S) \in Int /\ x \in Int
  BY <1>1
<1> QED
  BY <1>2, <1>3

\* A part of a text, and a pattern at a place of it, character by character.
LEMMA SubIs ==
  ASSUME NEW S, NEW x \in Seq(S), NEW i \in Nat, NEW j \in Nat, i <= j, j <= Len(x)
  PROVE  /\ Sub(x, i, j) \in Seq(S) /\ Len(Sub(x, i, j)) = j - i
         /\ \A k \in 1..j - i : Sub(x, i, j)[k] = x[i + k]
<1>1. PICK m \in Nat \ {0} : m = i + 1
  OBVIOUS
<1>2. /\ SubSeq(x, m, j) \in Seq(S)
      /\ Len(SubSeq(x, m, j)) = j - m + 1
      /\ \A k \in 1..j - m + 1 : SubSeq(x, m, j)[k] = x[m + k - 1]
  BY <1>1, PartOf
<1>3. j - m + 1 = j - i
  BY <1>1
<1>4. \A k \in 1..j - i : m + k - 1 = i + k
  BY <1>1
<1>5. Sub(x, i, j) = SubSeq(x, m, j)
  BY <1>1 DEF Sub
<1> QED
  BY <1>2, <1>3, <1>4, <1>5

LEMMA PartLength ==
  ASSUME NEW S, NEW x \in Seq(S), NEW i \in Nat, NEW j \in Nat, i <= j, j <= Len(x)
  PROVE  Len(Sub(x, i, j)) = j - i
BY SubIs

LEMMA PartItems ==
  ASSUME NEW S, NEW x \in Seq(S), NEW i \in Nat, NEW j \in Nat, i <= j, j <= Len(x)
  PROVE  \A k \in 1..j - i : Sub(x, i, j)[k] = x[i + k]
BY SubIs

LEMMA FrontLength ==
  ASSUME NEW S, NEW x \in Seq(S), NEW n \in 0..Len(x)
  PROVE  Len(Sub(x, 0, n)) = n
<1>1. PICK o \in Nat : o = 0 /\ n - o = n
  OBVIOUS
<1>2. o <= n /\ n <= Len(x)
  BY <1>1
<1>3. Len(Sub(x, o, n)) = n - o
  BY <1>2, SubIs
<1> QED
  BY <1>1, <1>3

Agrees(x, u, i) == i + Len(u) <= Len(x) /\ \A k \in 1..Len(u) : x[i + k] = u[k]

LEMMA AtIs ==
  ASSUME NEW S, NEW x \in Seq(S), NEW u \in Seq(S), NEW i \in Nat
  PROVE  At(x, u, i) <=> Agrees(x, u, i)
<1>1. PICK n \in Nat : n = Len(u)
  BY LenProperties
<1>2. PICK m \in Nat : m = Len(x)
  BY LenProperties
<1>3. ASSUME i + n <= m
      PROVE  Sub(x, i, i + n) = u <=> \A k \in 1..n : x[i + k] = u[k]
  <2>1. PICK j \in Nat : j = i + n /\ i <= j /\ j <= Len(x)
    BY <1>2, <1>3
  <2>2. /\ Sub(x, i, j) \in Seq(S) /\ Len(Sub(x, i, j)) = j - i
        /\ \A k \in 1..j - i : Sub(x, i, j)[k] = x[i + k]
    <3>1. i <= j /\ j <= Len(x)
      BY <2>1
    <3>2. Sub(x, i, j) \in Seq(S) /\ Len(Sub(x, i, j)) = j - i
      BY <3>1, SubIs
    <3>3. \A k \in 1..j - i : Sub(x, i, j)[k] = x[i + k]
      BY <3>1, SubIs
    <3> QED
      BY <3>2, <3>3
  <2>3. j - i = n
    BY <2>1
  <2>4. ASSUME \A k \in 1..n : x[i + k] = u[k]  PROVE Sub(x, i, j) = u
    <3>1. Len(Sub(x, i, j)) = Len(u) /\ \A k \in 1..Len(Sub(x, i, j)) : Sub(x, i, j)[k] = u[k]
      BY <1>1, <2>2, <2>3, <2>4
    <3>2. PICK y \in Seq(S) : y = Sub(x, i, j)
      BY <2>2
    <3>3. Len(y) = Len(u) /\ \A k \in 1..Len(y) : y[k] = u[k]
      BY <3>1, <3>2
    <3> QED
      BY <3>2, <3>3, SameItems
  <2> QED
    BY <1>1, <2>1, <2>2, <2>3, <2>4
<1> QED
  BY <1>1, <1>2, <1>3 DEF At, Agrees

\* What the arguments are.
LEMMA Arguments ==
  ASSUME ArgumentAssumption, scall \in Calls
  PROVE  /\ str \in Seq(Char) /\ Len(str) \in Nat
         /\ scall.f \in {"index-of", "last-index-of", "start-with", "end-with"} =>
              scall.u \in Seq(Char) /\ Len(scall.u) \in Nat /\ scall.from \in Int
         /\ scall.f = "substring" => scall.from \in Int /\ scall.to \in Int
         /\ scall.f = "replace" => scall.u \in Seq(Char) /\ scall.new \in Seq(Char)
         /\ scall.f = "re-replace" =>
              /\ scall.u \in Seq(Char) /\ scall.u # <<>> /\ scall.new \in Seq(Char)
              /\ scall.global \in BOOLEAN
         /\ scall.f \in {"index-of", "last-index-of", "start-with", "end-with", "substring",
                         "trim", "split-to-line", "replace", "re-replace"}
<1> USE DEF str
<1>1. \/ scall \in [f : {"index-of", "last-index-of", "start-with", "end-with"},
                    s : Seq(Char), u : Seq(Char), from : Int]
      \/ scall \in [f : {"substring"}, s : Seq(Char), from : Int, to : Int]
      \/ scall \in [f : {"trim", "split-to-line"}, s : Seq(Char)]
      \/ scall \in [f : {"replace"}, s : Seq(Char), u : Seq(Char), new : Seq(Char)]
      \/ scall \in [f : {"re-replace"}, s : Seq(Char), u : Seq(Char) \ {<<>>}, new : Seq(Char),
                    kind : {"literal", "c+", "^c", "c*"}, global : BOOLEAN]
  BY DEF ArgumentAssumption
<1>2. CASE scall \in [f : {"index-of", "last-index-of", "start-with", "end-with"},
                      s : Seq(Char), u : Seq(Char), from : Int]
  BY <1>2
<1>3. CASE scall \in [f : {"substring"}, s : Seq(Char), from : Int, to : Int]
  BY <1>3
<1>4. CASE scall \in [f : {"trim", "split-to-line"}, s : Seq(Char)]
  BY <1>4
<1>5. CASE scall \in [f : {"replace"}, s : Seq(Char), u : Seq(Char), new : Seq(Char)]
  BY <1>5
<1>6. CASE scall \in [f : {"re-replace"}, s : Seq(Char), u : Seq(Char) \ {<<>>}, new : Seq(Char),
                      kind : {"literal", "c+", "^c", "c*"}, global : BOOLEAN]
  BY <1>6
<1> QED
  BY <1>1, <1>2, <1>3, <1>4, <1>5, <1>6

\* A pattern that is longer than what remains is not there.
LEMMA Occurs ==
  ASSUME NEW x \in Seq(Char), NEW u \in Seq(Char), NEW i \in Nat, At(x, u, i)
  PROVE  i + Len(u) <= Len(x) /\ i \in 0..Len(x) /\ (u # <<>> => i + 1 <= Len(x) /\ Len(u) >= 1)
<1>1. i + Len(u) <= Len(x) /\ Len(u) \in Nat /\ Len(x) \in Nat
  <2>1. Agrees(x, u, i)
    BY AtIs
  <2> QED
    BY <2>1 DEF Agrees
<1>2. u # <<>> => Len(u) # 0
  BY EmptySeq
<1> QED
  BY <1>1, <1>2

\* What the searches should find.
After == {i \in {j \in 0..Len(str) : scall.u # <<>> /\ At(str, scall.u, j)} :
            0 <= scall.from /\ scall.from <= i}
Before == {i \in {j \in 0..Len(str) : scall.u # <<>> /\ At(str, scall.u, j)} :
             scall.from < 0 \/ i + Len(scall.u) - 1 <= scall.from}

LEMMA FirstIs ==
  ASSUME ArgumentAssumption, scall \in Calls, scall.f = "index-of", NEW i \in Nat,
         ~Hopeless, scall.from >= 0, scall.from <= i, At(str, scall.u, i),
         \A j \in Nat : scall.from <= j /\ j < i => ~At(str, scall.u, j)
  PROVE  (IF After = {} THEN NotFound ELSE Min(After)) = i
<1>1. /\ str \in Seq(Char) /\ scall.u \in Seq(Char) /\ scall.from \in Int /\ scall.u # <<>>
      /\ Len(str) \in Nat
  BY Arguments DEF Hopeless
<1>2. i \in After
  BY <1>1, Occurs DEF After
<1>3. \A j \in After : i <= j
  <2>1. \A j \in After : j \in Nat /\ scall.from <= j /\ At(str, scall.u, j)
    BY <1>1 DEF After
  <2> QED
    BY <2>1
<1>4. After \subseteq Int
  BY <1>1 DEF After
<1> QED
  BY <1>2, <1>3, <1>4, MinIs

LEMMA NoneAfter ==
  ASSUME ArgumentAssumption, scall \in Calls, scall.f = "index-of",
         \/ Hopeless \/ scall.from < 0
         \/ \A j \in Nat : scall.from <= j => ~At(str, scall.u, j)
  PROVE  After = {}
<1>1. /\ str \in Seq(Char) /\ scall.u \in Seq(Char) /\ scall.from \in Int
      /\ Len(str) \in Nat /\ Len(scall.u) \in Nat
  BY Arguments
<1> SUFFICES ASSUME NEW i \in After PROVE FALSE
  OBVIOUS
<1>2. /\ i \in Nat /\ scall.u # <<>> /\ At(str, scall.u, i)
      /\ 0 <= scall.from /\ scall.from <= i
  BY <1>1 DEF After
<1>3. i + Len(scall.u) <= Len(str) /\ i + 1 <= Len(str)
  BY <1>1, <1>2, Occurs
<1>4. ~Hopeless
  <2>1. str # <<>>
    BY <1>2, <1>3
  <2>2. ~(Len(scall.u) > Len(str))
    BY <1>1, <1>2, <1>3
  <2> QED
    BY <1>2, <2>1, <2>2 DEF Hopeless
<1> QED
  BY <1>1, <1>2, <1>4

LEMMA IndexOfKeeps ==
  ASSUME ArgumentAssumption, StringsInv, IndexOf
  PROVE  StringsInv'
<1>1. /\ scall \in Calls /\ scall.f = "index-of" /\ result = Running /\ Passed /\ StringsRight
      /\ scall' = scall
  BY DEF StringsInv, IndexOf, Calling, Answers
<1>2. /\ str \in Seq(Char) /\ scall.u \in Seq(Char) /\ scall.from \in Int
      /\ Len(str) \in Nat /\ Len(scall.u) \in Nat
  BY <1>1, Arguments
<1>3. /\ front \in Nat
      /\ \A j \in 0..front - 1 : scall.from + j >= 0 => ~At(str, scall.u, scall.from + j)
  BY <1>1 DEF Passed, SearchedAhead
<1>4. ASSUME scall.from >= 0
      PROVE  \A j \in Nat : scall.from <= j /\ j < scall.from + front => ~At(str, scall.u, j)
  <2> SUFFICES ASSUME NEW j \in Nat, scall.from <= j, j < scall.from + front
               PROVE  ~At(str, scall.u, j)
    OBVIOUS
  <2>1. j - scall.from \in 0..front - 1 /\ scall.from + (j - scall.from) = j
    BY <1>2, <1>3
  <2> QED
    BY <1>3, <2>1
<1>5. CASE Hopeless \/ scall.from < 0 \/ ~Remains(scall.from + front)
  <2>1. result' = <<NotFound>>
    BY <1>1, <1>5 DEF IndexOf, Answers
  <2>2. After = {}
    <3>1. ASSUME scall.from >= 0, ~Remains(scall.from + front), NEW j \in Nat, scall.from <= j
          PROVE  ~At(str, scall.u, j)
      <4>1. CASE j < scall.from + front
        BY <1>4, <3>1, <4>1
      <4>2. CASE ~(j < scall.from + front)
        <5>1. ~(j + Len(scall.u) <= Len(str))
          BY <1>2, <1>3, <3>1, <4>2 DEF Remains
        <5> QED
          BY <1>2, <5>1, Occurs
      <4> QED
        BY <4>1, <4>2
    <3> QED
      BY <1>1, <1>2, <1>5, <3>1, NoneAfter
  <2>3. answer' = IF After = {} THEN NotFound ELSE Min(After)
    BY <2>1, <2>2 DEF answer
  <2> QED
    BY <1>1, <2>1, <2>3 DEF StringsInv, StringsRight, FindsNearest, CutsRight, LinesOfText,
       ReplacesAll, Answered, Running, Crashed, After, str
<1>6. CASE ~(Hopeless \/ scall.from < 0 \/ ~Remains(scall.from + front))
  <2>1. CASE At(str, scall.u, scall.from + front)
    <3>1. result' = <<scall.from + front>>
      BY <1>1, <1>6, <2>1 DEF IndexOf, Answers
    <3>2. PICK i \in Nat : i = scall.from + front
      BY <1>2, <1>3, <1>6
    <3>3. answer' = IF After = {} THEN NotFound ELSE Min(After)
      <4>1. (IF After = {} THEN NotFound ELSE Min(After)) = i
        BY <1>1, <1>2, <1>3, <1>4, <1>6, <2>1, <3>2, FirstIs
      <4> QED
        BY <3>1, <3>2, <4>1 DEF answer
    <3> QED
      BY <1>1, <3>1, <3>3 DEF StringsInv, StringsRight, FindsNearest, CutsRight, LinesOfText,
         ReplacesAll, Answered, Running, Crashed, After, str
  <2>2. CASE ~At(str, scall.u, scall.from + front)
    <3>1. front' = front + 1 /\ result' = result
      BY <1>1, <1>6, <2>2 DEF IndexOf
    <3>2. \A j \in 0..front' - 1 : scall.from + j >= 0 => ~At(str, scall.u, scall.from + j)
      <4>1. \A j \in 0..front' - 1 : j \in 0..front - 1 \/ j = front
        BY <1>3, <3>1
      <4> QED
        BY <1>3, <2>2, <4>1
    <3>3. Passed'
      <4>1. SearchedAhead'
        BY <1>1, <1>3, <3>1, <3>2 DEF SearchedAhead, str
      <4> QED
        BY <1>1, <4>1 DEF Passed
    <3> QED
      BY <1>1, <3>1, <3>3 DEF StringsInv, StringsRight, FindsNearest, CutsRight, LinesOfText,
         ReplacesAll, Answered, Running, Crashed
  <2> QED
    BY <2>1, <2>2
<1> QED
  BY <1>5, <1>6

LEMMA LastIs ==
  ASSUME ArgumentAssumption, scall \in Calls, scall.f = "last-index-of", NEW i \in Nat,
         ~Hopeless, i <= Furthest, At(str, scall.u, i),
         \A j \in Nat : i < j /\ j <= Furthest => ~At(str, scall.u, j)
  PROVE  (IF Before = {} THEN NotFound ELSE Max(Before)) = i
<1>1. /\ str \in Seq(Char) /\ scall.u \in Seq(Char) /\ scall.from \in Int /\ scall.u # <<>>
      /\ Len(str) \in Nat /\ Len(scall.u) \in Nat
  BY Arguments DEF Hopeless
<1>2. i + Len(scall.u) <= Len(str) /\ i \in 0..Len(str) /\ Len(scall.u) >= 1
  BY <1>1, Occurs
<1>3. scall.from < 0 \/ i + Len(scall.u) - 1 <= scall.from
  BY <1>1, <1>2 DEF Furthest, From
<1>4. i \in Before
  BY <1>1, <1>2, <1>3 DEF Before
<1>5. \A j \in Before : j <= i
  <2> SUFFICES ASSUME NEW j \in Before PROVE j <= i
    OBVIOUS
  <2>1. /\ j \in Nat /\ At(str, scall.u, j)
        /\ scall.from < 0 \/ j + Len(scall.u) - 1 <= scall.from
    BY <1>1 DEF Before
  <2>2. j + Len(scall.u) <= Len(str)
    BY <1>1, <2>1, Occurs
  <2>3. j <= Furthest
    BY <1>1, <2>1, <2>2 DEF Furthest, From
  <2> QED
    BY <2>1, <2>3
<1>6. Before \subseteq Int
  BY <1>1 DEF Before
<1> QED
  BY <1>4, <1>5, <1>6, MaxIs

LEMMA NoneBefore ==
  ASSUME ArgumentAssumption, scall \in Calls, scall.f = "last-index-of",
         \/ Hopeless \/ scall.from \in 0..Len(scall.u) - 2
         \/ \A j \in Nat : j <= Furthest => ~At(str, scall.u, j)
  PROVE  Before = {}
<1>1. /\ str \in Seq(Char) /\ scall.u \in Seq(Char) /\ scall.from \in Int
      /\ Len(str) \in Nat /\ Len(scall.u) \in Nat
  BY Arguments
<1> SUFFICES ASSUME NEW i \in Before PROVE FALSE
  OBVIOUS
<1>2. /\ i \in Nat /\ scall.u # <<>> /\ At(str, scall.u, i)
      /\ scall.from < 0 \/ i + Len(scall.u) - 1 <= scall.from
  BY <1>1 DEF Before
<1>3. i + Len(scall.u) <= Len(str) /\ i + 1 <= Len(str) /\ Len(scall.u) >= 1
  BY <1>1, <1>2, Occurs
<1>4. ~Hopeless
  <2>1. str # <<>>
    BY <1>2, <1>3
  <2>2. ~(Len(scall.u) > Len(str))
    BY <1>1, <1>2, <1>3
  <2> QED
    BY <1>2, <2>1, <2>2 DEF Hopeless
<1>5. i <= Furthest
  BY <1>1, <1>2, <1>3 DEF Furthest, From
<1>6. ~(scall.from \in 0..Len(scall.u) - 2)
  BY <1>1, <1>2, <1>3
<1> QED
  BY <1>2, <1>4, <1>5, <1>6

LEMMA LastIndexOfKeeps ==
  ASSUME ArgumentAssumption, StringsInv, LastIndexOf
  PROVE  StringsInv'
<1>1. /\ scall \in Calls /\ scall.f = "last-index-of" /\ result = Running /\ Passed /\ StringsRight
      /\ scall' = scall
  BY DEF StringsInv, LastIndexOf, Calling, Answers
<1>2. /\ str \in Seq(Char) /\ scall.u \in Seq(Char) /\ scall.from \in Int
      /\ Len(str) \in Nat /\ Len(scall.u) \in Nat
  BY <1>1, Arguments
<1>3. SearchedBack
  BY <1>1 DEF Passed
<1>4. Furthest \in Int /\ Furthest = From - Len(scall.u) + 1
  BY <1>2 DEF Furthest, From
<1>5. PICK k \in Int : k = Furthest
  BY <1>4
<1>6. front \in Nat /\ \A j \in 0..front - 1 : k - j >= 0 => ~At(str, scall.u, k - j)
  BY <1>3, <1>5 DEF SearchedBack
<1>7. IF Hopeless \/ scall.from \in 0..Len(scall.u) - 2 \/ k - front < 0
       THEN Answers(NotFound)
       ELSE IF At(str, scall.u, k - front) THEN Answers(k - front)
       ELSE front' = front + 1 /\ UNCHANGED <<scall, back, written, room, result>>
  BY <1>5 DEF LastIndexOf
<1>8. \A j \in Nat : k - front < j /\ j <= k => ~At(str, scall.u, j)
  <2> SUFFICES ASSUME NEW j \in Nat, k - front < j, j <= k PROVE ~At(str, scall.u, j)
    OBVIOUS
  <2>1. PICK d \in 0..front - 1 : k - d = j
    <3>1. k - j \in 0..front - 1 /\ k - (k - j) = j
      BY <1>6
    <3> QED
      BY <3>1
  <2> QED
    BY <1>6, <2>1
<1>9. CASE Hopeless \/ scall.from \in 0..Len(scall.u) - 2 \/ k - front < 0
  <2>1. result' = <<NotFound>>
    BY <1>9, <1>7 DEF Answers
  <2>2. Before = {}
    <3>1. ASSUME k - front < 0, NEW j \in Nat, j <= k  PROVE ~At(str, scall.u, j)
      BY <1>6, <1>8, <3>1
    <3> QED
      BY <1>1, <1>5, <1>9, <3>1, NoneBefore
  <2>3. answer' = IF Before = {} THEN NotFound ELSE Max(Before)
    BY <2>1, <2>2 DEF answer
  <2> QED
    BY <1>1, <2>1, <2>3 DEF StringsInv, StringsRight, FindsNearest, CutsRight, LinesOfText,
       ReplacesAll, Answered, Running, Crashed, Before, str
<1>10. CASE ~(Hopeless \/ scall.from \in 0..Len(scall.u) - 2 \/ k - front < 0)
  <2>1. CASE At(str, scall.u, k - front)
    <3>1. result' = <<k - front>>
      BY <1>10, <1>7, <2>1 DEF Answers
    <3>2. PICK i \in Nat : i = k - front
      BY <1>6, <1>10
    <3>3. answer' = IF Before = {} THEN NotFound ELSE Max(Before)
      <4>1. i <= k /\ \A j \in Nat : i < j /\ j <= k => ~At(str, scall.u, j)
        BY <1>6, <1>8, <3>2
      <4>2. (IF Before = {} THEN NotFound ELSE Max(Before)) = i
        BY <1>1, <1>5, <1>10, <2>1, <3>2, <4>1, LastIs
      <4> QED
        BY <3>1, <3>2, <4>2 DEF answer
    <3> QED
      BY <1>1, <3>1, <3>3 DEF StringsInv, StringsRight, FindsNearest, CutsRight, LinesOfText,
         ReplacesAll, Answered, Running, Crashed, Before, str
  <2>2. CASE ~At(str, scall.u, k - front)
    <3>1. front' = front + 1 /\ result' = result
      BY <1>10, <1>7, <2>2
    <3>2. \A j \in 0..front' - 1 : k - j >= 0 => ~At(str, scall.u, k - j)
      <4>1. \A j \in 0..front' - 1 : j \in 0..front - 1 \/ j = front
        BY <1>6, <3>1
      <4> QED
        BY <1>6, <2>2, <4>1
    <3>3. Passed'
      <4>1. SearchedBack'
        <5>1. Furthest' = k /\ str' = str /\ scall.u' = scall.u /\ front' \in Nat
          BY <1>1, <1>5, <1>6, <3>1 DEF Furthest, From, str
        <5> QED
          BY <3>2, <5>1 DEF SearchedBack
      <4> QED
        BY <1>1, <4>1 DEF Passed
    <3> QED
      BY <1>1, <3>1, <3>3 DEF StringsInv, StringsRight, FindsNearest, CutsRight, LinesOfText,
         ReplacesAll, Answered, Running, Crashed
  <2> QED
    BY <2>1, <2>2
<1> QED
  BY <1>9, <1>10

LEMMA StartWithKeeps ==
  ASSUME ArgumentAssumption, StringsInv, StartWith
  PROVE  StringsInv'
<1>1. /\ scall \in Calls /\ scall.f = "start-with" /\ result = Running /\ scall' = scall
      /\ result' = << ~Hopeless /\ scall.from \in 0..Len(str) - 1 /\ At(str, scall.u, scall.from) >>
  BY DEF StringsInv, StartWith, Calling, Answers
<1>2. /\ str \in Seq(Char) /\ scall.u \in Seq(Char) /\ scall.from \in Int
      /\ Len(str) \in Nat /\ Len(scall.u) \in Nat
  BY <1>1, Arguments
<1>3. ASSUME scall.from \in After
      PROVE  ~Hopeless /\ scall.from \in 0..Len(str) - 1 /\ At(str, scall.u, scall.from)
  <2>1. scall.from \in Nat /\ scall.u # <<>> /\ At(str, scall.u, scall.from)
    BY <1>2, <1>3 DEF After
  <2>2. scall.from + Len(scall.u) <= Len(str) /\ scall.from + 1 <= Len(str)
    BY <1>2, <2>1, Occurs
  <2>3. str # <<>> /\ ~(Len(scall.u) > Len(str))
    BY <1>2, <2>1, <2>2
  <2> QED
    BY <1>2, <2>1, <2>2, <2>3 DEF Hopeless
<1>4. ASSUME ~Hopeless, scall.from \in 0..Len(str) - 1, At(str, scall.u, scall.from)
      PROVE  scall.from \in After
  BY <1>2, <1>4 DEF After, Hopeless
<1>5. answer' = (scall.from \in After)
  <2>1. (~Hopeless /\ scall.from \in 0..Len(str) - 1 /\ At(str, scall.u, scall.from))
          = (scall.from \in After)
    BY <1>3, <1>4
  <2> QED
    BY <1>1, <2>1 DEF answer
<1> QED
  BY <1>1, <1>5 DEF StringsInv, StringsRight, FindsNearest, CutsRight, LinesOfText,
     ReplacesAll, Answered, Running, Crashed, After, str

LEMMA Beginning ==
  ASSUME NEW S, NEW x \in Seq(S), NEW n \in Nat, n <= Len(x)
  PROVE  /\ SubSeq(x, 1, n) \in Seq(S) /\ Len(SubSeq(x, 1, n)) = n
         /\ \A i \in 1..n : SubSeq(x, 1, n)[i] = x[i]
<1>1. PICK o \in Nat : o = 0 /\ o + 1 = 1 /\ o <= n
  OBVIOUS
<1>2. Sub(x, o, n) = SubSeq(x, 1, n)
  BY <1>1 DEF Sub
<1>3. Sub(x, o, n) \in Seq(S) /\ Len(Sub(x, o, n)) = n - o
  BY <1>1, SubIs
<1>4. \A k \in 1..n - o : Sub(x, o, n)[k] = x[o + k]
  BY <1>1, SubIs
<1>5. n - o = n /\ \A k \in 1..n : o + k = k
  BY <1>1
<1> QED
  BY <1>2, <1>3, <1>4, <1>5

LEMMA SuffixIs ==
  ASSUME NEW S, NEW u \in Seq(S), NEW x \in Seq(S)
  PROVE  IsSuffix(u, x) <=>
           Len(u) <= Len(x) /\ \A k \in 1..Len(u) : x[Len(x) - Len(u) + k] = u[k]
<1>1. PICK n \in Nat : n = Len(u)
  BY LenProperties
<1>2. PICK m \in Nat : m = Len(x)
  BY LenProperties
<1>3. PICK ru : ru = Reverse(u)
  OBVIOUS
<1>4. PICK rx : rx = Reverse(x)
  OBVIOUS
<1>5. ru \in Seq(S) /\ Len(ru) = n /\ \A i \in 1..n : ru[i] = u[n - i + 1]
  <2>1. ru = [i \in 1..n |-> u[n - i + 1]]
    BY <1>1, <1>3 DEF Reverse
  <2>2. \A i \in 1..n : n - i + 1 \in 1..n
    OBVIOUS
  <2>3. \A i \in 1..n : u[n - i + 1] \in S
    BY <1>1, <2>2
  <2> QED
    BY <1>1, <2>1, <2>3
<1>6. rx \in Seq(S) /\ Len(rx) = m /\ \A i \in 1..m : rx[i] = x[m - i + 1]
  <2>1. rx = [i \in 1..m |-> x[m - i + 1]]
    BY <1>2, <1>4 DEF Reverse
  <2>2. \A i \in 1..m : m - i + 1 \in 1..m
    OBVIOUS
  <2>3. \A i \in 1..m : x[m - i + 1] \in S
    BY <1>2, <2>2
  <2> QED
    BY <1>2, <2>1, <2>3
<1>7. IsSuffix(u, x) <=> n <= m /\ SubSeq(ru, 1, n) = SubSeq(rx, 1, n)
  BY <1>3, <1>4, <1>5, <1>6 DEF IsSuffix, IsPrefix
<1>8. ASSUME n <= m
      PROVE  SubSeq(ru, 1, n) = SubSeq(rx, 1, n) <=> \A i \in 1..n : ru[i] = rx[i]
  <2>1. n <= Len(ru) /\ n <= Len(rx)
    BY <1>5, <1>6, <1>8
  <2>2. /\ SubSeq(ru, 1, n) \in Seq(S) /\ Len(SubSeq(ru, 1, n)) = n
        /\ \A i \in 1..n : SubSeq(ru, 1, n)[i] = ru[i]
    BY <1>5, <2>1, Beginning
  <2>3. /\ SubSeq(rx, 1, n) \in Seq(S) /\ Len(SubSeq(rx, 1, n)) = n
        /\ \A i \in 1..n : SubSeq(rx, 1, n)[i] = rx[i]
    BY <1>6, <2>1, Beginning
  <2>4. PICK y \in Seq(S) : y = SubSeq(ru, 1, n) /\ Len(y) = n /\ \A i \in 1..n : y[i] = ru[i]
    BY <2>2
  <2>5. PICK z \in Seq(S) : z = SubSeq(rx, 1, n) /\ Len(z) = n /\ \A i \in 1..n : z[i] = rx[i]
    BY <2>3
  <2>6. ASSUME \A i \in 1..n : ru[i] = rx[i]  PROVE y = z
    BY <2>4, <2>5, <2>6, SameItems
  <2> QED
    BY <2>4, <2>5, <2>6
<1>9. ASSUME n <= m
      PROVE  (\A i \in 1..n : ru[i] = rx[i]) <=> \A k \in 1..n : x[m - n + k] = u[k]
  <2>1. ASSUME NEW i \in 1..n  PROVE n - i + 1 \in 1..n /\ i \in 1..m
    BY <1>9
  <2>2. ASSUME \A i \in 1..n : ru[i] = rx[i], NEW k \in 1..n  PROVE x[m - n + k] = u[k]
    <3>1. PICK i \in 1..n : i = n - k + 1
      OBVIOUS
    <3>2. n - i + 1 = k /\ m - i + 1 = m - n + k /\ i \in 1..m
      BY <1>9, <3>1
    <3>3. ru[i] = u[n - i + 1] /\ rx[i] = x[m - i + 1]
      BY <1>5, <1>6, <3>2
    <3> QED
      BY <2>2, <3>2, <3>3
  <2>3. ASSUME \A k \in 1..n : x[m - n + k] = u[k], NEW i \in 1..n  PROVE ru[i] = rx[i]
    <3>1. PICK k \in 1..n : k = n - i + 1
      OBVIOUS
    <3>2. m - i + 1 = m - n + k /\ i \in 1..m
      BY <1>9, <3>1
    <3>3. ru[i] = u[k] /\ rx[i] = x[m - n + k]
      BY <1>5, <1>6, <3>1, <3>2
    <3> QED
      BY <2>3, <3>3
  <2> QED
    BY <2>2, <2>3
<1> QED
  BY <1>1, <1>2, <1>7, <1>8, <1>9

LEMMA EndWithKeeps ==
  ASSUME ArgumentAssumption, StringsInv, EndWith
  PROVE  StringsInv'
<1>1. /\ scall \in Calls /\ scall.f = "end-with" /\ result = Running /\ scall' = scall
      /\ result' = << ~Hopeless /\ At(str, scall.u, Len(str) - Len(scall.u)) >>
  BY DEF StringsInv, EndWith, Calling, Answers
<1>2. PICK x \in Seq(Char), u \in Seq(Char) : x = str /\ u = scall.u
  BY <1>1, Arguments
<1>3. PICK m \in Nat : m = Len(x)
  BY LenProperties
<1>4. PICK n \in Nat : n = Len(u)
  BY LenProperties
<1>5. n > 0 <=> u # <<>>
  BY <1>4, EmptySeq
<1>6. m > 0 <=> x # <<>>
  BY <1>3, EmptySeq
<1>7. (~Hopeless /\ At(x, u, m - n)) = (u # <<>> /\ IsSuffix(u, x))
  <2>1. CASE n <= m /\ n > 0
    <3>1. ~Hopeless /\ u # <<>>
      BY <1>2, <1>3, <1>4, <1>5, <1>6, <2>1 DEF Hopeless
    <3>2. PICK i \in Nat : i = m - n /\ i + n <= m
      BY <2>1
    <3>3. At(x, u, i) <=> \A k \in 1..n : x[i + k] = u[k]
      <4>1. i + Len(u) <= Len(x)
        BY <1>3, <1>4, <3>2
      <4>3. At(x, u, i) <=> Agrees(x, u, i)
        BY AtIs
      <4>2. At(x, u, i) <=> \A k \in 1..Len(u) : x[i + k] = u[k]
        BY <4>1, <4>3 DEF Agrees
      <4> QED
        BY <1>4, <4>2
    <3>4. IsSuffix(u, x) <=> \A k \in 1..n : x[m - n + k] = u[k]
      BY <1>3, <1>4, <2>1, SuffixIs
    <3> QED
      BY <3>1, <3>2, <3>3, <3>4
  <2>2. CASE ~(n <= m /\ n > 0)
    <3>1. Hopeless
      BY <1>2, <1>3, <1>4, <1>5, <2>2 DEF Hopeless
    <3>2. ~(u # <<>> /\ IsSuffix(u, x))
      BY <1>3, <1>4, <1>5, <2>2, SuffixIs
    <3> QED
      BY <3>1, <3>2
  <2> QED
    BY <2>1, <2>2
<1>8. answer' = (scall.u # <<>> /\ IsSuffix(scall.u, str))
  BY <1>1, <1>2, <1>3, <1>4, <1>7 DEF answer
<1> QED
  BY <1>1, <1>8 DEF StringsInv, StringsRight, FindsNearest, CutsRight, LinesOfText,
     ReplacesAll, Answered, Running, Crashed, str

\* The lesser and the greater of two numbers.
LEMMA OfTwo ==
  ASSUME NEW a \in Int, NEW b \in Int
  PROVE  /\ Min({a, b}) = IF a <= b THEN a ELSE b
         /\ Max({a, b}) = IF a <= b THEN b ELSE a
<1>1. {a, b} \subseteq Int
  OBVIOUS
<1>2. CASE a <= b
  <2>1. a \in {a, b} /\ b \in {a, b} /\ \A y \in {a, b} : a <= y /\ y <= b
    BY <1>2
  <2>2. Min({a, b}) = a
    BY <1>1, <2>1, MinIs
  <2>3. Max({a, b}) = b
    BY <1>1, <2>1, MaxIs
  <2> QED
    BY <1>2, <2>2, <2>3
<1>3. CASE ~(a <= b)
  <2>1. a \in {a, b} /\ b \in {a, b} /\ \A y \in {a, b} : b <= y /\ y <= a
    BY <1>3
  <2>2. Min({a, b}) = b
    BY <1>1, <2>1, MinIs
  <2>3. Max({a, b}) = a
    BY <1>1, <2>1, MaxIs
  <2> QED
    BY <1>3, <2>2, <2>3
<1> QED
  BY <1>2, <1>3

LEMMA SubstringKeeps ==
  ASSUME ArgumentAssumption, StringsInv, Substring
  PROVE  StringsInv'
<1> DEFINE K == {i \in 0..Len(str) - 1 : scall.from <= i /\ i < scall.to}
<1>1. scall \in Calls /\ scall.f = "substring" /\ result = Running /\ scall' = scall
  BY DEF StringsInv, Substring, Calling, Answers
<1>2. /\ str \in Seq(Char) /\ scall.from \in Int /\ scall.to \in Int /\ Len(str) \in Nat
  BY <1>1, Arguments
<1>3. PICK m \in Nat, f \in Int, t \in Int : m = Len(str) /\ f = scall.from /\ t = scall.to
  BY <1>2
<1>4. PICK e \in Int : e = UpTo /\ e = IF t <= m THEN t ELSE m
  <2>1. Min({t, m}) = IF t <= m THEN t ELSE m
    BY OfTwo
  <2> QED
    BY <1>3, <2>1 DEF UpTo
<1>5. PICK a \in Nat : a = Max({scall.from, 0}) /\ a = IF f <= 0 THEN 0 ELSE f
  <2>1. PICK o \in Int : o = 0
    OBVIOUS
  <2>2. Max({f, o}) = IF f <= o THEN o ELSE f
    BY OfTwo
  <2>3. (IF f <= 0 THEN 0 ELSE f) \in Nat
    OBVIOUS
  <2> QED
    BY <1>3, <2>1, <2>2, <2>3
<1>6. PICK z \in Int : z = Min({a, e}) /\ z = IF a <= e THEN a ELSE e
  BY OfTwo
<1>7. result' = <<IF e > z THEN Sub(str, z, e) ELSE <<>> >>
  BY <1>4, <1>5, <1>6 DEF Substring, Answers
<1>8. /\ \A k \in K : k \in Nat /\ k < m /\ f <= k /\ k < t
      /\ \A k \in Nat : k < m /\ f <= k /\ k < t => k \in K
  BY <1>3
<1> HIDE DEF K
<1>9. answer' = IF K = {} THEN <<>> ELSE Sub(str, Min(K), Max(K) + 1)
  <2>1. CASE e > z
    <3>1. z = a /\ a < e /\ e <= m /\ e <= t /\ f <= a /\ a < m /\ a < t
      BY <1>4, <1>5, <1>6, <2>1
    <3>2. PICK l \in Nat : l = e - 1 /\ l + 1 = e /\ l < m /\ l < t /\ f <= l
      BY <3>1
    <3>3. a \in K /\ l \in K
      BY <1>8, <3>1, <3>2
    <3>4. K \subseteq Int /\ (\A k \in K : a <= k) /\ (\A k \in K : k <= l)
      BY <1>4, <1>5, <1>8, <3>2
    <3>5. Min(K) = a
      BY <3>3, <3>4, MinIs
    <3>6. Max(K) = l
      BY <3>3, <3>4, MaxIs
    <3> QED
      BY <1>7, <2>1, <3>1, <3>2, <3>3, <3>5, <3>6 DEF answer
  <2>2. CASE ~(e > z)
    <3>1. K = {}
      <4> SUFFICES ASSUME NEW k \in K PROVE FALSE
        OBVIOUS
      <4>1. k \in Nat /\ k < m /\ f <= k /\ k < t
        BY <1>8
      <4> QED
        BY <1>4, <1>5, <1>6, <2>2, <4>1
    <3> QED
      BY <1>7, <2>2, <3>1 DEF answer
  <2> QED
    BY <2>1, <2>2
<1> QED
  BY <1>1, <1>7, <1>9 DEF StringsInv, StringsRight, FindsNearest, CutsRight, LinesOfText,
     ReplacesAll, Answered, Running, Crashed, str, K

LEMMA TrimKeeps ==
  ASSUME ArgumentAssumption, StringsInv, Trim
  PROVE  StringsInv'
<1>1. /\ scall \in Calls /\ scall.f = "trim" /\ result = Running /\ Passed /\ scall' = scall
  BY DEF StringsInv, Trim, Calling, Answers
<1>2. /\ str \in Seq(Char) /\ Len(str) \in Nat /\ str' = str
  BY <1>1, Arguments DEF str
<1>3. PICK m \in Nat : m = Len(str)
  BY <1>2
<1>4. /\ front \in 0..m /\ back \in 0..m
      /\ \A k \in 1..m : k <= front \/ k > back => str[k] \in White
  BY <1>1, <1>2, <1>3 DEF Passed, WhiteAround
<1>5. CASE front < m /\ IsWhite(str[front + 1]) /\ front' = front + 1
           /\ UNCHANGED <<scall, back, written, room, result>>
  <2>1. front' \in 0..m /\ \A k \in 1..m : k <= front' \/ k > back' => str[k] \in White
    <3>1. \A k \in 1..m : k <= front' => k <= front \/ k = front + 1
      BY <1>4, <1>5
    <3> QED
      BY <1>4, <1>5, <3>1 DEF IsWhite
  <2>2. WhiteAround'
    BY <1>2, <1>3, <1>4, <1>5, <2>1 DEF WhiteAround
  <2>3. Passed'
    BY <1>1, <2>2 DEF Passed
  <2> QED
    BY <1>1, <1>5, <2>3 DEF StringsInv, StringsRight, FindsNearest, CutsRight, LinesOfText,
       ReplacesAll, Answered, Running, Crashed
<1>6. CASE back > 0 /\ IsWhite(str[back]) /\ back' = back - 1
           /\ UNCHANGED <<scall, front, written, room, result>>
  <2>1. back' \in 0..m /\ \A k \in 1..m : k <= front' \/ k > back' => str[k] \in White
    <3>1. \A k \in 1..m : k > back' => k > back \/ k = back
      BY <1>4, <1>6
    <3> QED
      BY <1>4, <1>6, <3>1 DEF IsWhite
  <2>2. WhiteAround'
    BY <1>2, <1>3, <1>4, <1>6, <2>1 DEF WhiteAround
  <2>3. Passed'
    BY <1>1, <2>2 DEF Passed
  <2> QED
    BY <1>1, <1>6, <2>3 DEF StringsInv, StringsRight, FindsNearest, CutsRight, LinesOfText,
       ReplacesAll, Answered, Running, Crashed
<1>7. CASE Trimmed /\ Answers(Sub(str, front, IF front > back THEN front ELSE back))
  <2>1. PICK j \in 0..m : j = IF front > back THEN front ELSE back
    BY <1>4
  <2>2. result' = <<Sub(str, front, j)>> /\ answer' = Sub(str, front, j)
    BY <1>7, <2>1 DEF Answers, answer
  <2>3. \A k \in 1..m : k <= front \/ k > j => str[k] \in White
    BY <1>4, <2>1
  <2>4. Sub(str, front, j) # <<>> =>
          {Head(Sub(str, front, j)), Last(Sub(str, front, j))} \cap White = {}
    <3>1. /\ Sub(str, front, j) \in Seq(Char) /\ Len(Sub(str, front, j)) = j - front
          /\ \A k \in 1..j - front : Sub(str, front, j)[k] = str[front + k]
      <4>1. front \in Nat /\ j \in Nat /\ front <= j /\ j <= Len(str)
        BY <1>3, <1>4, <2>1
      <4>4. PICK x \in Seq(Char), i \in Nat : x = str /\ i = front
        BY <1>2, <4>1
      <4>5. i <= j /\ j <= Len(x) /\ j \in Nat
        BY <4>1, <4>4
      <4>6. Sub(x, i, j) \in Seq(Char) /\ Len(Sub(x, i, j)) = j - i
        BY <4>5, SubIs
      <4>7. \A k \in 1..j - i : Sub(x, i, j)[k] = x[i + k]
        BY <4>5, SubIs
      <4>2. Sub(str, front, j) \in Seq(Char) /\ Len(Sub(str, front, j)) = j - front
        BY <4>4, <4>6
      <4>3. \A k \in 1..j - front : Sub(str, front, j)[k] = str[front + k]
        BY <4>4, <4>7
      <4> QED
        BY <4>2, <4>3
    <3>2. PICK y \in Seq(Char) : y = Sub(str, front, j)
      BY <3>1
    <3>3. ASSUME y # <<>>  PROVE Head(y) \notin White /\ Last(y) \notin White
      <4>1. Len(y) \in Nat \ {0}
        BY <3>3, EmptySeq
      <4>2. j - front > 0 /\ j = back /\ front < back /\ front < m
        BY <1>4, <2>1, <3>1, <3>2, <4>1
      <4>3. Head(y) = y[1] /\ Last(y) = y[Len(y)]
        BY <3>3 DEF Last
      <4>4. 1 \in 1..j - front /\ j - front \in 1..j - front /\ front + (j - front) = back
        BY <1>4, <4>2
      <4>5. y[1] = str[front + 1] /\ y[Len(y)] = str[back]
        BY <3>1, <3>2, <4>4
      <4>6. str[front + 1] \notin White /\ str[back] \notin White
        BY <1>3, <1>4, <1>7, <4>2 DEF Trimmed, IsWhite
      <4> QED
        BY <4>3, <4>5, <4>6
    <3> QED
      BY <3>2, <3>3
  <2>5. \E i, k \in 0..Len(str) :
          /\ answer' = Sub(str, i, k)
          /\ answer' # <<>> => {Head(answer'), Last(answer')} \cap White = {}
          /\ \A l \in DOMAIN str : (l <= i \/ l > k) => str[l] \in White
    <3>1. front \in 0..Len(str) /\ j \in 0..Len(str) /\ DOMAIN str = 1..m
      BY <1>2, <1>3, <1>4
    <3> QED
      BY <2>2, <2>3, <2>4, <3>1
  <2> QED
    BY <1>1, <1>2, <2>2, <2>5 DEF StringsInv, StringsRight, FindsNearest, CutsRight, LinesOfText,
       ReplacesAll, Answered, Running, Crashed
<1> QED
  BY <1>3, <1>5, <1>6, <1>7 DEF Trim

---------------------------------------------------------------------------
\* Parts of a text next to each other, and parts of parts.
LEMMA SubAll ==
  ASSUME NEW S, NEW x \in Seq(S)
  PROVE  Sub(x, 0, Len(x)) = x
<1>1. PICK o \in Nat : o = 0 /\ o + 1 = 1
  OBVIOUS
<1>2. SubSeq(x, 1, Len(x)) = x
  BY SubSeqFull
<1> QED
  BY <1>1, <1>2 DEF Sub

LEMMA SubNone ==
  ASSUME NEW S, NEW x \in Seq(S), NEW i \in 0..Len(x)
  PROVE  Sub(x, i, i) = <<>>
<1>1. i \in Nat /\ i <= i /\ i <= Len(x) /\ i - i = 0
  OBVIOUS
<1>2. Sub(x, i, i) \in Seq(S) /\ Len(Sub(x, i, i)) = i - i
  BY <1>1, SubIs
<1> QED
  BY <1>1, <1>2, EmptySeq

LEMMA SubOne ==
  ASSUME NEW S, NEW x \in Seq(S), NEW i \in Nat, i < Len(x)
  PROVE  Sub(x, i, i + 1) = <<x[i + 1]>> /\ x[i + 1] \in S
<1>1. PICK j \in Nat : j = i + 1
  OBVIOUS
<1>2. j - i = 1 /\ j \in 1..Len(x) /\ x[j] \in S /\ 1 \in 1..j - i
  BY <1>1
<1>10. i <= j /\ j <= Len(x)
  BY <1>1
<1>3. Sub(x, i, j) \in Seq(S) /\ Len(Sub(x, i, j)) = j - i
  BY <1>10, SubIs
<1>4. \A k \in 1..j - i : Sub(x, i, j)[k] = x[i + k]
  BY <1>10, SubIs
<1>5. PICK y \in Seq(S) : y = Sub(x, i, j)
  BY <1>3
<1>11. PICK e \in S : e = x[j]
  BY <1>2
<1>12. <<e>> \in Seq(S) /\ Len(<<e>>) = 1 /\ <<e>>[1] = e
  OBVIOUS
<1>6. PICK z \in Seq(S) : z = <<e>> /\ Len(z) = 1 /\ z[1] = e
  BY <1>12, Zenon
<1>7. Len(y) = 1 /\ y[1] = x[j]
  BY <1>1, <1>2, <1>3, <1>4, <1>5
<1>8. Len(y) = Len(z) /\ \A k \in 1..Len(y) : y[k] = z[k]
  <2>1. \A k \in 1..Len(y) : k = 1
    BY <1>7
  <2> QED
    BY <1>6, <1>7, <1>11, <2>1
<1>9. y = z
  BY <1>8, SameItems
<1> QED
  BY <1>1, <1>2, <1>5, <1>6, <1>9, <1>11

Grouped(a, b, c) == (a \o b) \o c = a \o (b \o c)

LEMMA Regroup ==
  ASSUME NEW S, NEW a \in Seq(S), NEW b \in Seq(S), NEW c \in Seq(S)
  PROVE  Grouped(a, b, c)
  BY ConcatAssociative DEF Grouped

Adjacent(x, i, j, k) == Sub(x, i, j) \o Sub(x, j, k) = Sub(x, i, k)

LEMMA SubJoin ==
  ASSUME NEW S, NEW x \in Seq(S), NEW i \in Nat, NEW j \in Nat, NEW k \in Nat,
         i <= j, j <= k, k <= Len(x)
  PROVE  Adjacent(x, i, j, k)
<1>1. PICK m \in 1..Len(x) + 1 : m = i + 1
  OBVIOUS
<1>2. j \in m - 1..Len(x) /\ k \in j..Len(x)
  BY <1>1
<1>3. SubSeq(x, m, j) \o SubSeq(x, j + 1, k) = SubSeq(x, m, k)
  BY <1>2, ConcatAdjacentSubSeq
<1> QED
  BY <1>1, <1>3 DEF Sub, Adjacent

Within(x, i, j, a, b) == Sub(Sub(x, i, j), a, b) = Sub(x, i + a, i + b)

LEMMA SubSub ==
  ASSUME NEW S, NEW x \in Seq(S), NEW i \in Nat, NEW j \in Nat, i <= j, j <= Len(x),
         NEW a \in Nat, NEW b \in Nat, a <= b, b <= j - i
  PROVE  Within(x, i, j, a, b)
<1>1. Sub(x, i, j) \in Seq(S) /\ Len(Sub(x, i, j)) = j - i
  BY SubIs
<1>2. \A k \in 1..j - i : Sub(x, i, j)[k] = x[i + k]
  BY SubIs
<1>3. PICK w \in Seq(S) : w = Sub(x, i, j) /\ Len(w) = j - i /\ \A k \in 1..j - i : w[k] = x[i + k]
  BY <1>1, <1>2
<1>4. b <= Len(w)
  BY <1>3
<1>5. Sub(w, a, b) \in Seq(S) /\ Len(Sub(w, a, b)) = b - a
  BY <1>4, SubIs
<1>6. \A k \in 1..b - a : Sub(w, a, b)[k] = w[a + k]
  BY <1>4, PartItems
<1>7. PICK c \in Nat, d \in Nat : c = i + a /\ d = i + b
  OBVIOUS
<1>8. c <= d /\ d <= Len(x) /\ d - c = b - a
  BY <1>7
<1>16. c <= d /\ d <= Len(x)
  BY <1>8
<1>9. Sub(x, c, d) \in Seq(S) /\ Len(Sub(x, c, d)) = d - c
  BY <1>16, SubIs
<1>10. \A k \in 1..d - c : Sub(x, c, d)[k] = x[c + k]
  BY <1>16, SubIs
<1>11. \A k \in 1..b - a : Sub(w, a, b)[k] = Sub(x, c, d)[k]
  <2> SUFFICES ASSUME NEW k \in 1..b - a PROVE Sub(w, a, b)[k] = Sub(x, c, d)[k]
    OBVIOUS
  <2>1. PICK l \in 1..j - i : l = a + k /\ i + l = c + k
    BY <1>7
  <2>2. Sub(w, a, b)[k] = x[i + l]
    BY <1>3, <1>6, <2>1
  <2>3. Sub(x, c, d)[k] = x[c + k]
    BY <1>8, <1>10
  <2> QED
    BY <2>1, <2>2, <2>3
<1>12. PICK y \in Seq(S) : y = Sub(w, a, b)
  BY <1>5
<1>13. PICK z \in Seq(S) : z = Sub(x, c, d)
  BY <1>9
<1>14. Len(y) = Len(z) /\ \A k \in 1..Len(y) : y[k] = z[k]
  BY <1>5, <1>8, <1>9, <1>11, <1>12, <1>13
<1>15. y = z
  BY <1>14, SameItems
<1> QED
  BY <1>3, <1>7, <1>12, <1>13, <1>15 DEF Within

LEMMA SubOfJoin ==
  ASSUME NEW S, NEW x \in Seq(S), NEW y \in Seq(S)
  PROVE  /\ x \o y \in Seq(S) /\ Len(x \o y) = Len(x) + Len(y)
         /\ Sub(x \o y, 0, Len(x)) = x
         /\ Sub(x \o y, Len(x), Len(x \o y)) = y
<1>1. /\ x \o y \in Seq(S) /\ Len(x \o y) = Len(x) + Len(y)
      /\ \A i \in 1 .. Len(x) + Len(y) : (x \o y)[i] = IF i <= Len(x) THEN x[i] ELSE y[i - Len(x)]
  BY ConcatProperties
<1>2. PICK n \in Nat : n = Len(x)
  BY LenProperties
<1>3. PICK m \in Nat : m = Len(y)
  BY LenProperties
<1>4. PICK z \in Seq(S) : z = x \o y
  BY <1>1
<1>5. Len(z) = n + m /\ \A i \in 1..n + m : z[i] = IF i <= n THEN x[i] ELSE y[i - n]
  BY <1>1, <1>2, <1>3, <1>4
<1>6. PICK o \in Nat : o = 0 /\ o <= n /\ n <= Len(z) /\ n <= n + m /\ n + m <= Len(z)
  BY <1>5
<1>9. \A i \in 1..n : z[i] = x[i]
  <2>1. \A i \in 1..n : i \in 1..n + m /\ i <= n
    OBVIOUS
  <2> QED
    BY <1>5, <2>1
<1>10. \A i \in 1..m : z[n + i] = y[i]
  <2> SUFFICES ASSUME NEW i \in 1..m PROVE z[n + i] = y[i]
    OBVIOUS
  <2>1. PICK j \in 1..n + m : j = n + i /\ ~(j <= n) /\ j - n = i
    OBVIOUS
  <2> QED
    BY <1>5, <2>1
<1>7. Sub(z, 0, n) = x
  <2>7. o <= n /\ n <= Len(z)
    BY <1>6
  <2>1. Sub(z, o, n) \in Seq(S) /\ Len(Sub(z, o, n)) = n - o
    BY <2>7, SubIs
  <2>2. \A k \in 1..n - o : Sub(z, o, n)[k] = z[o + k]
    BY <2>7, SubIs
  <2>3. PICK a \in Seq(S) : a = Sub(z, o, n)
    BY <2>1
  <2>4. \A k \in 1..n : k \in 1..n - o /\ o + k = k
    BY <1>6
  <2>5. \A k \in 1..n : a[k] = x[k]
    <3>1. \A k \in 1..n : a[k] = z[k]
      BY <2>2, <2>3, <2>4
    <3> QED
      BY <1>9, <3>1
  <2>6. a = x
    <3>1. Len(a) = n
      BY <1>6, <2>1, <2>3
    <3> QED
      BY <1>2, <2>5, <3>1, SameItems
  <2> QED
    BY <1>6, <2>3, <2>6
<1>8. Sub(z, n, n + m) = y
  <2>1. PICK e \in Nat : e = n + m /\ n <= e /\ e <= Len(z) /\ e - n = m
    BY <1>6
  <2>8. n <= e /\ e <= Len(z)
    BY <2>1
  <2>2. Sub(z, n, e) \in Seq(S) /\ Len(Sub(z, n, e)) = e - n
    BY <2>8, SubIs
  <2>3. \A k \in 1..e - n : Sub(z, n, e)[k] = z[n + k]
    BY <2>8, SubIs
  <2>4. PICK a \in Seq(S) : a = Sub(z, n, e)
    BY <2>2
  <2>5. \A k \in 1..m : k \in 1..e - n
    BY <2>1
  <2>6. \A k \in 1..m : a[k] = y[k]
    BY <1>10, <2>3, <2>4, <2>5
  <2>7. a = y
    <3>1. Len(a) = m
      BY <2>1, <2>2, <2>4
    <3> QED
      BY <1>3, <2>6, <3>1, SameItems
  <2> QED
    BY <2>1, <2>4, <2>7
<1> QED
  BY <1>1, <1>2, <1>4, <1>5, <1>7, <1>8

---------------------------------------------------------------------------
\* A function that is defined by recursion from the front, or from the back by steps of
\* any length, is there.
RisesFrom(g, N, a, F) == g[0] = a /\ \A i \in 1..N : g[i] = F[i][g[i - 1]]
FallsFrom(g, N, a, F, next) == g[N] = a /\ \A i \in 0..N - 1 : g[i] = F[i][g[next[i]]]

LEMMA RecursionUp ==
  ASSUME NEW N \in Nat, NEW S, NEW a \in S, NEW F \in [1..N -> [S -> S]]
  PROVE  \E g \in [0..N -> S] : RisesFrom(g, N, a, F)
<1> DEFINE R(g, m) == g[0] = a /\ \A i \in 1..m : g[i] = F[i][g[i - 1]]
           G == {m \in Nat : m <= N => \E g \in [0..N -> S] : R(g, m)}
<1>1. 0 \in G
  <2>1. PICK g \in [0..N -> S] : g = [i \in 0..N |-> a]
    OBVIOUS
  <2>2. R(g, 0)
    BY <2>1
  <2> QED
    BY <2>2
<1>2. ASSUME NEW m \in Nat, m \in G  PROVE m + 1 \in G
  <2> SUFFICES ASSUME m + 1 <= N PROVE \E g \in [0..N -> S] : R(g, m + 1)
    OBVIOUS
  <2>1. PICK g \in [0..N -> S] : R(g, m)
    BY <1>2
  <2>2. PICK n \in 1..N : n = m + 1 /\ n - 1 = m /\ m \in 0..N
    OBVIOUS
  <2>3. PICK e \in S : e = F[n][g[m]]
    BY <2>1, <2>2
  <2>4. PICK h \in [0..N -> S] : h = [g EXCEPT ![n] = e]
    BY <2>2, <2>3
  <2>5. h[n] = e /\ \A i \in 0..m : h[i] = g[i]
    BY <2>2, <2>4
  <2>6. \A i \in 1..n : h[i] = F[i][h[i - 1]]
    <3>1. ASSUME NEW i \in 1..m  PROVE h[i] = F[i][h[i - 1]]
      <4>1. i \in 0..m /\ i - 1 \in 0..m
        OBVIOUS
      <4> QED
        BY <2>1, <2>5, <4>1
    <3>2. h[n] = F[n][h[n - 1]]
      BY <2>2, <2>3, <2>5
    <3>3. \A i \in 1..n : i \in 1..m \/ i = n
      BY <2>2
    <3> QED
      BY <3>1, <3>2, <3>3
  <2>7. h[0] = a
    BY <2>1, <2>5
  <2>8. R(h, m + 1)
    BY <2>2, <2>6, <2>7
  <2> QED
    BY <2>8
<1> HIDE DEF G
<1>3. N \in G
  BY <1>1, <1>2, AllNaturals
<1> QED
  BY <1>3 DEF G, RisesFrom

LEMMA RecursionDown ==
  ASSUME NEW N \in Nat, NEW S, NEW a \in S, NEW F \in [0..N - 1 -> [S -> S]],
         NEW next \in [0..N - 1 -> 0..N], \A i \in 0..N - 1 : i < next[i]
  PROVE  \E g \in [0..N -> S] : FallsFrom(g, N, a, F, next)
<1> DEFINE R(g, m) == g[N] = a /\ \A i \in 0..N - 1 : N - m <= i => g[i] = F[i][g[next[i]]]
           G == {m \in Nat : m <= N => \E g \in [0..N -> S] : R(g, m)}
<1>1. 0 \in G
  <2>1. PICK g \in [0..N -> S] : g = [i \in 0..N |-> a]
    OBVIOUS
  <2>2. R(g, 0)
    BY <2>1
  <2> QED
    BY <2>2
<1>2. ASSUME NEW m \in Nat, m \in G  PROVE m + 1 \in G
  <2> SUFFICES ASSUME m + 1 <= N PROVE \E g \in [0..N -> S] : R(g, m + 1)
    OBVIOUS
  <2>1. PICK g \in [0..N -> S] : R(g, m)
    BY <1>2
  <2>2. PICK n \in 0..N - 1 : n = N - (m + 1)
    OBVIOUS
  <2>3. PICK e \in S : e = F[n][g[next[n]]]
    BY <2>1, <2>2
  <2>4. PICK h \in [0..N -> S] : h = [g EXCEPT ![n] = e]
    BY <2>2, <2>3
  <2>5. h[n] = e /\ \A i \in 0..N : n < i => h[i] = g[i]
    BY <2>2, <2>4
  <2>6. ASSUME NEW i \in 0..N - 1, N - (m + 1) <= i  PROVE h[i] = F[i][h[next[i]]]
    <3>1. next[i] \in 0..N /\ n < next[i]
      BY <2>2, <2>6
    <3>2. h[next[i]] = g[next[i]]
      BY <2>5, <3>1
    <3>3. CASE i = n
      BY <2>3, <2>5, <3>2, <3>3
    <3>4. CASE i # n
      <4>1. N - m <= i /\ n < i /\ i \in 0..N
        BY <2>2, <2>6, <3>4
      <4> QED
        BY <2>1, <2>5, <3>2, <4>1
    <3> QED
      BY <3>3, <3>4
  <2>7. h[N] = a
    BY <2>1, <2>2, <2>5
  <2>8. R(h, m + 1)
    BY <2>6, <2>7
  <2> QED
    BY <2>8
<1> HIDE DEF G
<1>3. N \in G
  BY <1>1, <1>2, AllNaturals
<1>4. N - N = 0 /\ \A i \in 0..N - 1 : 0 <= i
  OBVIOUS
<1> QED
  BY <1>3, <1>4 DEF G, FallsFrom

\* The text without the carriage returns at the ends of lines, character by character.
LEMMA CleanIs ==
  ASSUME ArgumentAssumption, str \in Seq(Char)
  PROVE  /\ Clean[0] = <<>>
         /\ \A i \in 0..Len(str) : Clean[i] \in Seq(Char)
         /\ \A i \in 1..Len(str) :
              Clean[i] = IF str[i] = return /\ EndsLine(i) THEN Clean[i - 1]
                         ELSE Append(Clean[i - 1], str[i])
<1>1. PICK N \in Nat : N = Len(str)
  BY LenProperties
<1>2. PICK a \in Seq(Char) : a = <<>>
  BY EmptySeq
<1>3. PICK D : D = {i \in 1..N : str[i] = return /\ EndsLine(i)}
  OBVIOUS
<1>4. PICK F : F = [i \in 1..N |-> [x \in Seq(Char) |->
                       IF i \in D THEN x ELSE Append(x, str[i])]]
  OBVIOUS
<1>5. F \in [1..N -> [Seq(Char) -> Seq(Char)]]
  <2>1. \A i \in 1..N : str[i] \in Char
    BY <1>1
  <2>2. \A x \in Seq(Char), c \in Char : Append(x, c) \in Seq(Char)
    OBVIOUS
  <2>3. \A i \in 1..N, x \in Seq(Char) : (IF i \in D THEN x ELSE Append(x, str[i])) \in Seq(Char)
    BY <2>1, <2>2
  <2> QED
    BY <1>4, <2>3
<1>6. PICK g \in [0..N -> Seq(Char)] : g[0] = a /\ \A i \in 1..N : g[i] = F[i][g[i - 1]]
  <2>1. PICK T : T = Seq(Char)
    OBVIOUS
  <2>2. a \in T /\ F \in [1..N -> [T -> T]]
    BY <1>5, <2>1
  <2>3. \E g \in [0..N -> T] : RisesFrom(g, N, a, F)
    BY <2>2, RecursionUp
  <2> QED
    BY <2>1, <2>3 DEF RisesFrom
<1>7. \A i \in 1..N : i # 0 /\ i - 1 \in 0..N /\ i \in 0..N
  OBVIOUS
<1>8. \A i \in 0..N : g[i] = IF i = 0 THEN <<>>
                             ELSE IF str[i] = return /\ EndsLine(i) THEN g[i - 1]
                             ELSE Append(g[i - 1], str[i])
  <2>1. g[0] = <<>>
    BY <1>2, <1>6
  <2>2. ASSUME NEW i \in 1..N
        PROVE  g[i] = IF str[i] = return /\ EndsLine(i) THEN g[i - 1] ELSE Append(g[i - 1], str[i])
    <3>1. PICK x \in Seq(Char) : x = g[i - 1]
      BY <1>7
    <3>2. g[i] = IF i \in D THEN x ELSE Append(x, str[i])
      BY <1>4, <1>6, <3>1
    <3> QED
      BY <1>3, <3>1, <3>2
  <2>3. \A i \in 0..N : i = 0 \/ i \in 1..N
    OBVIOUS
  <2> QED
    BY <1>7, <2>1, <2>2, <2>3
<1>9. g = [i \in 0..Len(str) |->
             IF i = 0 THEN <<>>
             ELSE IF str[i] = return /\ EndsLine(i) THEN g[i - 1] ELSE Append(g[i - 1], str[i])]
  BY <1>1, <1>8
<1>10. Clean = [i \in 0..Len(str) |->
                 IF i = 0 THEN <<>>
                 ELSE IF str[i] = return /\ EndsLine(i) THEN Clean[i - 1]
                 ELSE Append(Clean[i - 1], str[i])]
  BY <1>9 DEF Clean
<1>11. Clean[0] = <<>>
  <2>1. 0 \in 0..Len(str)
    BY <1>1
  <2> QED
    BY <1>10, <2>1
<1>12. \A i \in 1..N : Clean[i] = IF str[i] = return /\ EndsLine(i) THEN Clean[i - 1]
                                  ELSE Append(Clean[i - 1], str[i])
  BY <1>1, <1>7, <1>10
<1>13. \A i \in Nat : i \in {k \in Nat : k <= N => Clean[k] \in Seq(Char)}
  <2> DEFINE G == {k \in Nat : k <= N => Clean[k] \in Seq(Char)}
  <2>1. 0 \in G
    BY <1>2, <1>11
  <2>2. ASSUME NEW k \in Nat, k \in G  PROVE k + 1 \in G
    <3> SUFFICES ASSUME k + 1 <= N PROVE Clean[k + 1] \in Seq(Char)
      OBVIOUS
    <3>1. PICK x \in Seq(Char) : x = Clean[k]
      BY <2>2
    <3>2. PICK j \in 1..N : j = k + 1 /\ j - 1 = k
      OBVIOUS
    <3>3. str[j] \in Char /\ Append(x, str[j]) \in Seq(Char)
      BY <1>1, <3>2
    <3> QED
      BY <1>12, <3>1, <3>2, <3>3
  <2> HIDE DEF G
  <2>3. \A i \in Nat : i \in G
    BY <2>1, <2>2, AllNaturals
  <2> QED
    BY <2>3 DEF G
<1> QED
  BY <1>1, <1>11, <1>12, <1>13

\* The text of some lines, and of one more line.
LEMMA WholeIs ==
  ASSUME ArgumentAssumption, NEW ls \in Seq(Seq(Char)), NEW g \in [0..Len(ls) -> Seq(Char)],
         g[0] = <<>>, \A i \in 1..Len(ls) : g[i] = g[i - 1] \o ls[i] \o <<newline>>
  PROVE  Whole(ls) = g[Len(ls)]
<1> DEFINE u == CHOOSE f : f = [i \in 0..Len(ls) |->
                                  IF i = 0 THEN <<>> ELSE f[i - 1] \o ls[i] \o <<newline>>]
<1>1. PICK N \in Nat : N = Len(ls)
  BY LenProperties
<1>2. g = [i \in 0..N |-> IF i = 0 THEN <<>> ELSE g[i - 1] \o ls[i] \o <<newline>>]
  <2>1. \A i \in 0..N : i = 0 \/ i \in 1..N
    OBVIOUS
  <2>2. \A i \in 0..N : g[i] = IF i = 0 THEN <<>> ELSE g[i - 1] \o ls[i] \o <<newline>>
    BY <1>1, <2>1
  <2> QED
    BY <1>1, <2>2
<1>3. u = [i \in 0..N |-> IF i = 0 THEN <<>> ELSE u[i - 1] \o ls[i] \o <<newline>>]
  BY <1>1, <1>2
<1>4. Whole(ls) = u[N]
  BY <1>1 DEF Whole
<1> HIDE DEF u
<1> DEFINE G == {k \in Nat : k <= N => u[k] = g[k]}
<1>5. 0 \in G
  BY <1>3
<1>6. ASSUME NEW k \in Nat, k \in G  PROVE k + 1 \in G
  <2> SUFFICES ASSUME k + 1 <= N PROVE u[k + 1] = g[k + 1]
    OBVIOUS
  <2>1. PICK j \in 1..N : j = k + 1 /\ j - 1 = k /\ j # 0 /\ j \in 0..N
    OBVIOUS
  <2>2. u[j] = u[j - 1] \o ls[j] \o <<newline>>
    BY <1>3, <2>1
  <2>3. g[j] = g[j - 1] \o ls[j] \o <<newline>>
    BY <1>1, <2>1
  <2>4. u[k] = g[k]
    BY <1>6
  <2> QED
    BY <2>1, <2>2, <2>3, <2>4
<1> HIDE DEF G
<1>7. N \in G
  BY <1>5, <1>6, AllNaturals
<1> QED
  BY <1>1, <1>4, <1>7 DEF G

LEMMA WholeMore ==
  ASSUME ArgumentAssumption, NEW ls \in Seq(Seq(Char)), NEW l \in Seq(Char)
  PROVE  /\ Whole(ls) \in Seq(Char)
         /\ Whole(Append(ls, l)) = Whole(ls) \o l \o <<newline>>
<1>1. PICK N \in Nat : N = Len(ls)
  BY LenProperties
<1>2. PICK a \in Seq(Char) : a = <<>>
  BY EmptySeq
<1>3. \A x, y \in Seq(Char) : x \o y \o <<newline>> \in Seq(Char)
  BY DEF ArgumentAssumption
<1>4. PICK F : F = [i \in 1..N |-> [x \in Seq(Char) |-> x \o ls[i] \o <<newline>>]]
  OBVIOUS
<1>5. F \in [1..N -> [Seq(Char) -> Seq(Char)]]
  <2>1. \A i \in 1..N : ls[i] \in Seq(Char)
    BY <1>1
  <2> QED
    BY <1>3, <1>4, <2>1
<1>6. PICK g \in [0..N -> Seq(Char)] : g[0] = a /\ \A i \in 1..N : g[i] = F[i][g[i - 1]]
  <2>1. PICK T : T = Seq(Char)
    OBVIOUS
  <2>2. a \in T /\ F \in [1..N -> [T -> T]]
    BY <1>5, <2>1
  <2>3. \E g \in [0..N -> T] : RisesFrom(g, N, a, F)
    BY <2>2, RecursionUp
  <2> QED
    BY <2>1, <2>3 DEF RisesFrom
<1>7. \A i \in 1..N : i - 1 \in 0..N
  OBVIOUS
<1>8. \A i \in 1..N : g[i] = g[i - 1] \o ls[i] \o <<newline>>
  <2> SUFFICES ASSUME NEW i \in 1..N PROVE g[i] = g[i - 1] \o ls[i] \o <<newline>>
    OBVIOUS
  <2>1. PICK x \in Seq(Char) : x = g[i - 1]
    BY <1>7
  <2>2. g[i] = x \o ls[i] \o <<newline>>
    BY <1>4, <1>6, <2>1
  <2> QED
    BY <2>1, <2>2
<1>9. Whole(ls) = g[N]
  <2>1. g \in [0..Len(ls) -> Seq(Char)] /\ g[0] = <<>>
    BY <1>1, <1>2, <1>6
  <2>2. \A i \in 1..Len(ls) : g[i] = g[i - 1] \o ls[i] \o <<newline>>
    BY <1>1, <1>8
  <2>3. Whole(ls) = g[Len(ls)]
    BY <2>1, <2>2, WholeIs
  <2> QED
    BY <1>1, <2>3
<1>10. PICK n \in Nat : n = N + 1
  OBVIOUS
<1>11. PICK r \in Seq(Seq(Char)) :
          r = Append(ls, l) /\ Len(r) = n /\ r[n] = l /\ \A i \in 1..N : r[i] = ls[i]
  <2>1. Append(ls, l) \in Seq(Seq(Char))
    OBVIOUS
  <2>2. /\ Len(Append(ls, l)) = Len(ls) + 1 /\ Append(ls, l)[Len(ls) + 1] = l
        /\ \A i \in 1..Len(ls) : Append(ls, l)[i] = ls[i]
    BY AppendProperties
  <2> QED
    BY <1>1, <1>10, <2>1, <2>2
<1>12. PICK e \in Seq(Char) : e = g[N] \o l \o <<newline>>
  <2>1. PICK x \in Seq(Char) : x = g[N]
    OBVIOUS
  <2> QED
    BY <1>3, <2>1
<1>13. PICK h \in [0..n -> Seq(Char)] : h[n] = e /\ \A i \in 0..N : h[i] = g[i]
  <2> DEFINE h == [i \in 0..n |-> IF i = n THEN e ELSE g[i]]
  <2>1. \A i \in 0..n : i = n \/ i \in 0..N
    BY <1>10
  <2>2. h \in [0..n -> Seq(Char)]
    BY <2>1
  <2>3. n \in 0..n /\ \A i \in 0..N : i \in 0..n /\ i # n
    BY <1>10
  <2>4. h[n] = e /\ \A i \in 0..N : h[i] = g[i]
    BY <2>3
  <2> HIDE DEF h
  <2> QED
    BY <2>2, <2>4
<1>14. \A i \in 1..n : h[i] = h[i - 1] \o r[i] \o <<newline>>
  <2>1. ASSUME NEW i \in 1..N  PROVE h[i] = h[i - 1] \o r[i] \o <<newline>>
    <3>1. i \in 0..N /\ i - 1 \in 0..N
      OBVIOUS
    <3>2. h[i] = g[i] /\ h[i - 1] = g[i - 1] /\ r[i] = ls[i]
      BY <1>11, <1>13, <3>1
    <3> QED
      BY <1>8, <3>2
  <2>2. h[n] = h[n - 1] \o r[n] \o <<newline>>
    <3>1. n - 1 = N /\ N \in 0..N
      BY <1>10
    <3> QED
      BY <1>11, <1>12, <1>13, <3>1
  <2>3. \A i \in 1..n : i \in 1..N \/ i = n
    BY <1>10
  <2> QED
    BY <2>1, <2>2, <2>3
<1>15. Whole(r) = h[n]
  <2>1. h \in [0..Len(r) -> Seq(Char)]
    BY <1>11
  <2>2. h[0] = <<>>
    BY <1>2, <1>6, <1>13
  <2>3. \A i \in 1..Len(r) : h[i] = h[i - 1] \o r[i] \o <<newline>>
    BY <1>11, <1>14
  <2>4. Whole(r) = h[Len(r)]
    BY <2>1, <2>2, <2>3, WholeIs
  <2> QED
    BY <1>11, <2>4
<1>16. g[N] \in Seq(Char)
  OBVIOUS
<1> QED
  BY <1>9, <1>11, <1>12, <1>13, <1>15, <1>16

LEMMA WholeOfNone ==
  ASSUME ArgumentAssumption
  PROVE  <<>> \in Seq(Seq(Char)) /\ Whole(<<>>) = <<>>
<1>1. PICK e \in Seq(Seq(Char)) : e = <<>> /\ Len(e) = 0
  BY EmptySeq
<1>2. PICK a \in Seq(Char) : a = <<>>
  BY EmptySeq
<1>3. PICK g \in [0..Len(e) -> Seq(Char)] : g[0] = a
  <2>1. [i \in 0..Len(e) |-> a] \in [0..Len(e) -> Seq(Char)] /\ [i \in 0..Len(e) |-> a][0] = a
    BY <1>1
  <2> QED
    BY <2>1
<1>4. \A i \in 1..Len(e) : g[i] = g[i - 1] \o e[i] \o <<newline>>
  <2>1. 1..Len(e) = {}
    BY <1>1
  <2> QED
    BY <2>1
<1>5. Whole(e) = g[Len(e)]
  BY <1>2, <1>3, <1>4, WholeIs
<1> QED
  BY <1>1, <1>2, <1>3, <1>5

---------------------------------------------------------------------------
\* One more character of a text.
Longer(y, x, i, j, k) == y \o Sub(x, i, k) = Append(y \o Sub(x, i, j), x[k])

LEMMA SubMore ==
  ASSUME NEW S, NEW x \in Seq(S), NEW i \in Nat, NEW j \in Nat, NEW k \in Nat,
         i <= j, k = j + 1, k <= Len(x), NEW y \in Seq(S)
  PROVE  Longer(y, x, i, j, k)
<1>1. i <= j /\ j <= k /\ k <= Len(x) /\ j <= Len(x) /\ j < Len(x)
  OBVIOUS
<1>2. Adjacent(x, i, j, k)
  <2>1. i <= j /\ j <= k /\ k <= Len(x)
    BY <1>1
  <2> QED
    BY <2>1, SubJoin
<1>3. Sub(x, j, k) = <<x[k]>> /\ x[k] \in S
  BY <1>1, SubOne
<1>4. Sub(x, i, j) \in Seq(S)
  BY <1>1, SubIs
<1>5. PICK a \in Seq(S) : a = Sub(x, i, j)
  BY <1>4
<1>6. PICK c \in S : c = x[k]
  BY <1>3
<1>11. <<c>> \in Seq(S)
  OBVIOUS
<1>7. PICK b \in Seq(S) : b = <<c>>
  BY <1>11
<1>8. Grouped(y, a, b)
  BY Regroup
<1>9. y \o a \in Seq(S)
  BY ConcatProperties
<1>10. Append(y \o a, c) = (y \o a) \o <<c>>
  BY <1>9, AppendIsConcat
<1> QED
  BY <1>2, <1>3, <1>5, <1>6, <1>7, <1>8, <1>10 DEF Adjacent, Grouped, Longer

LEMMA LineEndIs ==
  ASSUME str \in Seq(Char), front \in 0..Len(str)
  PROVE  /\ LineEnd \in front..Len(str) /\ EndsLine(LineEnd)
         /\ \A i \in front..LineEnd - 1 : ~EndsLine(i)
<1>1. PICK N \in Nat : N = Len(str)
  BY LenProperties
<1>2. PICK S : S = {i \in front..N : EndsLine(i)}
  OBVIOUS
<1>3. LineEnd = Min(S)
  BY <1>1, <1>2 DEF LineEnd, EndsLine
<1>4. S \subseteq Nat /\ N \in S
  BY <1>1, <1>2 DEF EndsLine
<1>5. Min(S) \in S /\ \A y \in S : Min(S) <= y
  BY <1>4, LeastIndex
<1>6. PICK e \in front..N : e = LineEnd /\ EndsLine(e) /\ \A y \in S : e <= y
  BY <1>2, <1>3, <1>5
<1>7. \A i \in front..e - 1 : ~EndsLine(i)
  <2> SUFFICES ASSUME NEW i \in front..e - 1, EndsLine(i) PROVE FALSE
    OBVIOUS
  <2>1. i \in front..N /\ ~(e <= i)
    BY <1>1, <1>6
  <2> QED
    BY <1>2, <1>6, <2>1
<1> QED
  BY <1>1, <1>6, <1>7

\* What is left of a line of the text.
LEMMA CleanLine ==
  ASSUME ArgumentAssumption, str \in Seq(Char), NEW p \in Nat, NEW e \in Nat,
         p <= e, e <= Len(str), EndsLine(e), \A i \in p..e - 1 : ~EndsLine(i),
         NEW z, z = IF e > p /\ str[e] = return THEN e - 1 ELSE e
  PROVE  Clean[e] = Clean[p] \o Sub(str, p, z)
<1>1. PICK N \in Nat : N = Len(str)
  BY LenProperties
<1>2. /\ \A i \in 0..N : Clean[i] \in Seq(Char)
      /\ \A i \in 1..N : Clean[i] = IF str[i] = return /\ EndsLine(i) THEN Clean[i - 1]
                                    ELSE Append(Clean[i - 1], str[i])
  BY <1>1, CleanIs
<1>3. PICK y \in Seq(Char) : y = Clean[p]
  BY <1>1, <1>2
<1>4. y = y \o Sub(str, p, p)
  <2>1. p \in 0..Len(str)
    BY <1>1
  <2>2. Sub(str, p, p) = <<>>
    BY <2>1, SubNone
  <2> QED
    BY <2>2, ConcatEmptySeq
<1> DEFINE G == {d \in Nat : p + d < e => Clean[p + d] = y \o Sub(str, p, p + d)}
<1>5. 0 \in G
  BY <1>3, <1>4
<1>6. ASSUME NEW d \in Nat, d \in G  PROVE d + 1 \in G
  <2> SUFFICES ASSUME p + (d + 1) < e PROVE Clean[p + (d + 1)] = y \o Sub(str, p, p + (d + 1))
    OBVIOUS
  <2>1. PICK j \in Nat, k \in Nat : j = p + d /\ k = p + (d + 1)
    OBVIOUS
  <2>2. p <= j /\ k = j + 1 /\ k <= Len(str)
    BY <2>1
  <2>3. k - 1 = j /\ k \in 1..N /\ k \in p..e - 1 /\ j < e
    BY <1>1, <2>1
  <2>4. Clean[j] = y \o Sub(str, p, j)
    BY <1>6, <2>1, <2>3
  <2>5. Clean[k] = Append(Clean[j], str[k])
    BY <1>2, <2>3
  <2>6. Longer(y, str, p, j, k)
    BY <2>2, SubMore
  <2> QED
    BY <2>1, <2>4, <2>5, <2>6 DEF Longer
<1> HIDE DEF G
<1>7. \A d \in Nat : d \in G
  BY <1>5, <1>6, AllNaturals
<1>8. CASE e = p
  <2>1. z = p
    BY <1>8
  <2> QED
    BY <1>3, <1>4, <1>8, <2>1
<1>9. CASE e # p
  <2>1. PICK q \in Nat : q = e - 1 /\ p <= q /\ e = q + 1 /\ e <= Len(str) /\ e \in 1..N
    BY <1>1, <1>9
  <2>2. PICK d \in Nat : d = q - p /\ p + d = q /\ q < e
    BY <2>1
  <2>3. Clean[q] = y \o Sub(str, p, q)
    <3>1. d \in G
      BY <1>7
    <3> QED
      BY <2>2, <3>1 DEF G
  <2>4. CASE str[e] = return
    <3>1. z = q
      BY <2>1, <2>4
    <3>2. Clean[e] = Clean[q]
      BY <1>2, <2>1, <2>4
    <3> QED
      BY <1>3, <2>3, <3>1, <3>2
  <2>5. CASE str[e] # return
    <3>4. z = e
      BY <2>5
    <3>1. Clean[e] = Append(Clean[q], str[e])
      BY <1>2, <2>1, <2>5
    <3>2. p <= q /\ e = q + 1 /\ e <= Len(str)
      BY <2>1
    <3>3. Longer(y, str, p, q, e)
      BY <3>2, SubMore
    <3> QED
      BY <1>3, <2>3, <3>1, <3>3, <3>4 DEF Longer
  <2> QED
    BY <2>4, <2>5
<1> QED
  BY <1>8, <1>9

\* A call that has crashed answers nothing.
LEMMA SplitCrashesKeeps ==
  ASSUME StringsInv, SplitCrashes
  PROVE  StringsInv'
<1>1. scall \in Calls /\ scall' = scall /\ result' = Crashed
  BY DEF StringsInv, SplitCrashes
<1>2. result' # Running
  BY <1>1 DEF Crashed, Running
<1>3. \A f : ~Answered(f)'
  BY <1>1 DEF Answered
<1>4. StringsRight'
  BY <1>3 DEF StringsRight, FindsNearest, CutsRight, LinesOfText, ReplacesAll
<1> QED
  BY <1>1, <1>2, <1>4 DEF StringsInv

LEMMA SplitToLineKeeps ==
  ASSUME ArgumentAssumption, StringsInv, SplitToLine
  PROVE  StringsInv'
<1>1. scall \in Calls /\ scall.f = "split-to-line" /\ result = Running /\ Passed /\ scall' = scall
  BY DEF StringsInv, SplitToLine, Calling, Answers
<1>2. str \in Seq(Char) /\ str' = str
  BY <1>1, Arguments DEF str
<1>3. PICK N \in Nat : N = Len(str)
  BY <1>2, LenProperties
<1>4. /\ front \in 0..N /\ (front = 0 \/ (front < N /\ str[front] = newline))
      /\ written \in Seq(Seq(Char)) /\ Whole(written) = Clean[front]
  BY <1>1, <1>3 DEF Passed, LinesSoFar
<1>5. PICK e \in front..N : e = LineEnd /\ EndsLine(e) /\ \A i \in front..e - 1 : ~EndsLine(i)
  BY <1>2, <1>3, <1>4, LineEndIs
<1>6. PICK z \in Nat : z = (IF e > front /\ str[e] = return THEN e - 1 ELSE e) /\ front <= z /\ z <= N
  BY <1>4, <1>5
<1>7. PICK l \in Seq(Char) : l = Sub(str, front, z)
  <2>1. front \in Nat /\ front <= z /\ z <= Len(str)
    BY <1>3, <1>4, <1>6
  <2>2. Sub(str, front, z) \in Seq(Char)
    BY <1>2, <2>1, SubIs
  <2> QED
    BY <2>2
<1>8. Line(e) = l
  <2>1. newline # return
    BY DEF ArgumentAssumption
  <2>2. (e > 0 /\ str[e] = return) <=> (e > front /\ str[e] = return)
    BY <1>4, <1>5, <2>1
  <2> QED
    BY <1>6, <1>7, <2>2 DEF Line
<1>9. Clean[e] = Clean[front] \o l
  <2>1. PICK p \in Nat : p = front /\ p <= e /\ e <= Len(str)
    BY <1>3, <1>4, <1>5
  <2>2. e \in Nat /\ EndsLine(e) /\ \A i \in p..e - 1 : ~EndsLine(i)
    BY <1>4, <1>5, <2>1
  <2>3. p <= e /\ e <= Len(str) /\ z = IF e > p /\ str[e] = return THEN e - 1 ELSE e
    BY <1>6, <2>1
  <2>4. Clean[e] = Clean[p] \o Sub(str, p, z)
    BY <1>2, <2>2, <2>3, CleanLine
  <2> QED
    BY <1>7, <2>1, <2>4
<1>10. PICK lines \in Seq(Seq(Char)) : lines = Append(written, l)
  <2>1. PICK w \in Seq(Seq(Char)) : w = written
    BY <1>4
  <2>2. Append(w, l) \in Seq(Seq(Char))
    BY AppendProperties
  <2> QED
    BY <2>1, <2>2
<1>11. Clean[e] \in Seq(Char)
  BY <1>2, <1>3, <1>4, <1>5, CleanIs
<1>12. Whole(lines) = Append(Clean[e], newline)
  <2>1. Whole(lines) = Whole(written) \o l \o <<newline>>
    BY <1>4, <1>10, WholeMore
  <2>2. Whole(lines) = Clean[e] \o <<newline>>
    BY <1>4, <1>9, <2>1
  <2>3. newline \in Char
    BY DEF ArgumentAssumption
  <2> QED
    BY <1>11, <2>2, <2>3, AppendIsConcat
<1>13. ASSUME e + 1 <= N
       PROVE  str[e + 1] = newline /\ Clean[e + 1] = Append(Clean[e], newline)
  <2>1. str[e + 1] = newline
    BY <1>3, <1>5, <1>13 DEF EndsLine
  <2>2. PICK k \in 1..N : k = e + 1 /\ k - 1 = e
    BY <1>4, <1>5, <1>13
  <2>3. str[k] # return
    BY <2>1, <2>2 DEF ArgumentAssumption
  <2>4. Clean[k] = IF str[k] = return /\ EndsLine(k) THEN Clean[k - 1] ELSE Append(Clean[k - 1], str[k])
    BY <1>2, <1>3, CleanIs
  <2> QED
    BY <2>1, <2>2, <2>3, <2>4
<1>14. IF AtEnd(e) THEN Answers(lines)
       ELSE written' = lines /\ front' = e + 1 /\ UNCHANGED <<scall, back, room, result>>
  BY <1>5, <1>8, <1>10 DEF SplitToLine
<1>15. CASE AtEnd(e)
  <2>1. result' = <<lines>> /\ answer' = lines
    BY <1>14, <1>15 DEF Answers, answer
  <2>2. Whole(lines) = IF str # <<>> /\ Last(str) = newline THEN Clean[N] ELSE Append(Clean[N], newline)
    <3>1. CASE e = N
      <4>1. ASSUME str # <<>>  PROVE Last(str) # newline
        <5>1. N # 0
          BY <1>2, <1>3, <4>1, EmptySeq
        <5>2. PICK i \in front..e - 1 : i = N - 1 /\ i + 1 = N /\ i # N
          BY <1>4, <1>5, <3>1, <5>1
        <5>3. str[N] # newline
          BY <1>5, <5>2 DEF EndsLine
        <5> QED
          BY <1>3, <5>3 DEF Last
      <4> QED
        BY <1>12, <3>1, <4>1
    <3>2. CASE e + 1 = N
      <4>3. e + 1 <= N
        BY <3>2
      <4>1. Last(str) = newline /\ Clean[N] = Append(Clean[e], newline)
        BY <1>3, <1>13, <3>2, <4>3 DEF Last
      <4>2. str # <<>>
        BY <1>2, <1>3, <1>4, <1>5, <3>2, EmptySeq
      <4> QED
        BY <1>12, <4>1, <4>2
    <3> QED
      BY <1>3, <1>15, <3>1, <3>2 DEF AtEnd
  <2>3. LinesOfText'
    <3>1. Clean' = Clean
      BY <1>2 DEF Clean, EndsLine
    <3> QED
      BY <1>2, <1>3, <2>1, <2>2, <3>1 DEF LinesOfText
  <2> QED
    BY <1>1, <2>1, <2>3 DEF StringsInv, StringsRight, FindsNearest, CutsRight,
       ReplacesAll, Answered, Running, Crashed
<1>16. CASE ~AtEnd(e)
  <2>1. e + 1 <= N /\ e + 1 < N
    BY <1>3, <1>4, <1>5, <1>16 DEF AtEnd
  <2>2. LinesSoFar'
    <3>1. Clean' = Clean
      BY <1>2 DEF Clean, EndsLine
    <3>2. front' = e + 1 /\ written' = lines
      BY <1>14, <1>16
    <3>3. e + 1 \in 0..Len(str) /\ e + 1 < Len(str)
      BY <1>3, <1>4, <1>5, <2>1
    <3>4. Whole(lines) = Clean[e + 1]
      BY <1>12, <1>13, <2>1
    <3>5. str'[front'] = newline
      BY <1>2, <1>13, <2>1, <3>2
    <3> QED
      BY <1>2, <3>1, <3>2, <3>3, <3>4, <3>5 DEF LinesSoFar
  <2>3. result' = result
    BY <1>14, <1>16
  <2>4. Passed'
    BY <1>1, <2>2 DEF Passed
  <2> QED
    BY <1>1, <2>3, <2>4 DEF StringsInv, StringsRight, FindsNearest, CutsRight, LinesOfText,
       ReplacesAll, Answered, Running, Crashed
<1> QED
  BY <1>15, <1>16

---------------------------------------------------------------------------
\* The greatest of some numbers up to n, which may be 0.
LEMMA GreatestOf ==
  ASSUME NEW n \in Nat, NEW S, S \subseteq 0..n, S # {}
  PROVE  Max(S) \in S /\ \A y \in S : y <= Max(S)
<1> DEFINE T == S \ {0}
<1>1. CASE T = {}
  <2>4. \A y \in S : y = 0
    BY <1>1
  <2>1. S \subseteq Int
    OBVIOUS
  <2>5. PICK x \in S : TRUE
    OBVIOUS
  <2>2. x = 0 /\ \A y \in S : y <= x
    BY <2>1, <2>4
  <2>3. Max(S) = x
    BY <2>1, <2>2, MaxIs
  <2> QED
    BY <2>2, <2>3, <2>5
<1>2. CASE T # {}
  <2>1. T \subseteq 1..n
    OBVIOUS
  <2>2. Max(T) \in T /\ \A y \in T : y <= Max(T)
    BY <1>2, <2>1, GreatestIndex
  <2>3. PICK x \in T : \A y \in T : y <= x
    BY <2>2
  <2>4. x \in 1..n /\ x \in S
    BY <2>1
  <2>5. \A y \in S : y <= x
    <3>1. \A y \in S : y \in T \/ y = 0
      OBVIOUS
    <3> QED
      BY <2>3, <2>4, <3>1
  <2>6. S \subseteq Int
    OBVIOUS
  <2>7. Max(S) = x
    BY <2>4, <2>5, <2>6, MaxIs
  <2> QED
    BY <2>4, <2>5, <2>7
<1> QED
  BY <1>1, <1>2

\* The end of a match is behind its start.
Replacing == scall \in Calls /\ scall.f \in {"replace", "re-replace"} /\ scall.u # <<>>

LEMMA MatchEndIs ==
  ASSUME ArgumentAssumption, Replacing, NEW i \in Nat, At(str, scall.u, i)
  PROVE  MatchEnd(i) \in Nat /\ i < MatchEnd(i) /\ MatchEnd(i) <= Len(str)
<1>1. PICK x \in Seq(Char), u \in Seq(Char) : x = str /\ u = scall.u /\ u # <<>> /\ At(x, u, i)
  BY Arguments DEF Replacing
<1>2. i + Len(u) <= Len(x) /\ i + 1 <= Len(x) /\ Len(u) >= 1
  BY <1>1, Occurs
<1>3. PICK N \in Nat : N = Len(x)
  BY LenProperties
<1>4. PICK m \in Nat : m = Len(u)
  BY LenProperties
<1>5. CASE scall.f = "re-replace" /\ scall.kind = "c+"
  <2>1. PICK S : S = {j \in i..N : \A k \in i + 1..j : x[k] = u[1]}
    OBVIOUS
  <2>2. MatchEnd(i) = Max(S)
    BY <1>1, <1>3, <1>5, <2>1 DEF MatchEnd
  <2>3. x[i + 1] = u[1]
    <3>3. Agrees(x, u, i)
      BY <1>1, AtIs
    <3>1. \A k \in 1..Len(u) : x[i + k] = u[k]
      BY <3>3 DEF Agrees
    <3>2. 1 \in 1..Len(u)
      BY <1>2, <1>4
    <3> QED
      BY <3>1, <3>2
  <2>4. PICK n \in S : n = i + 1
    <3>1. \A k \in i + 1..i + 1 : k = i + 1
      OBVIOUS
    <3>2. i + 1 \in i..N
      BY <1>2, <1>3
    <3> QED
      BY <2>1, <2>3, <3>1, <3>2
  <2>5. S \subseteq 0..N /\ S # {}
    <3>1. \A j \in i..N : j \in 0..N
      OBVIOUS
    <3>2. S \subseteq i..N
      BY <2>1
    <3> QED
      BY <2>4, <3>1, <3>2
  <2>6. Max(S) \in S /\ \A y \in S : y <= Max(S)
    BY <2>5, GreatestOf
  <2>7. PICK z \in S : z = MatchEnd(i) /\ n <= z
    BY <2>2, <2>6
  <2> QED
    BY <1>1, <1>3, <2>4, <2>5, <2>7
<1>6. CASE ~(scall.f = "re-replace" /\ scall.kind = "c+")
  <2>1. MatchEnd(i) = i + m
    BY <1>1, <1>4, <1>6 DEF MatchEnd
  <2> QED
    BY <1>1, <1>2, <1>3, <1>4, <2>1
<1> QED
  BY <1>5, <1>6

\* The text with its matches replaced, from each place of it on.
LEMMA RenewedIs ==
  ASSUME ArgumentAssumption, Replacing
  PROVE  /\ Renewed[Len(str)] = <<>>
         /\ \A i \in 0..Len(str) : Renewed[i] \in Seq(Char)
         /\ \A i \in 0..Len(str) - 1 :
              Renewed[i] = IF At(str, scall.u, i)
                           THEN scall.new \o IF Once THEN Sub(str, MatchEnd(i), Len(str))
                                             ELSE Renewed[MatchEnd(i)]
                           ELSE <<str[i + 1]>> \o Renewed[i + 1]
<1>1. PICK N \in Nat : N = Len(str)
  BY Arguments, LenProperties DEF Replacing
<1>2. PICK new \in Seq(Char) : new = scall.new
  BY Arguments DEF Replacing
<1>3. str \in Seq(Char)
  BY Arguments DEF Replacing
<1>4. PICK D : D = {i \in 0..N - 1 : At(str, scall.u, i)}
  OBVIOUS
<1>5. \A i \in D : i \in Nat /\ MatchEnd(i) \in 0..N /\ i < MatchEnd(i)
  <2> SUFFICES ASSUME NEW i \in D PROVE i \in Nat /\ MatchEnd(i) \in 0..N /\ i < MatchEnd(i)
    OBVIOUS
  <2>1. i \in Nat /\ At(str, scall.u, i)
    BY <1>4
  <2>2. MatchEnd(i) \in Nat /\ i < MatchEnd(i) /\ MatchEnd(i) <= Len(str)
    BY <2>1, MatchEndIs
  <2> QED
    BY <1>1, <2>1, <2>2
<1>6. PICK next : next = [i \in 0..N - 1 |-> IF i \in D THEN MatchEnd(i) ELSE i + 1]
  OBVIOUS
<1>7. next \in [0..N - 1 -> 0..N] /\ \A i \in 0..N - 1 : i < next[i]
  <2>1. \A i \in 0..N - 1 : (IF i \in D THEN MatchEnd(i) ELSE i + 1) \in 0..N
    BY <1>5
  <2>2. \A i \in 0..N - 1 : i < IF i \in D THEN MatchEnd(i) ELSE i + 1
    BY <1>5
  <2> QED
    BY <1>6, <2>1, <2>2
<1>8. PICK F : F = [i \in 0..N - 1 |-> [x \in Seq(Char) |->
                      IF i \in D THEN new \o IF Once THEN Sub(str, MatchEnd(i), N) ELSE x
                      ELSE <<str[i + 1]>> \o x]]
  OBVIOUS
<1>9. \A i \in D : Sub(str, MatchEnd(i), N) \in Seq(Char)
  <2> SUFFICES ASSUME NEW i \in D PROVE Sub(str, MatchEnd(i), N) \in Seq(Char)
    OBVIOUS
  <2>1. PICK e \in Nat : e = MatchEnd(i) /\ e <= N /\ N <= Len(str)
    BY <1>1, <1>5
  <2>2. e <= N /\ N <= Len(str)
    BY <2>1
  <2>3. Sub(str, e, N) \in Seq(Char)
    BY <1>3, <2>2, SubIs
  <2> QED
    BY <2>1, <2>3
<1>10. ASSUME NEW i \in 0..N - 1, NEW x \in Seq(Char)
       PROVE  (IF i \in D THEN new \o IF Once THEN Sub(str, MatchEnd(i), N) ELSE x
               ELSE <<str[i + 1]>> \o x) \in Seq(Char)
  <2>1. CASE i \in D
    <3>1. PICK y \in Seq(Char) : y = IF Once THEN Sub(str, MatchEnd(i), N) ELSE x
      BY <1>9, <2>1
    <3>2. new \o y \in Seq(Char)
      OBVIOUS
    <3> QED
      BY <2>1, <3>1, <3>2
  <2>2. CASE i \notin D
    <3>1. str[i + 1] \in Char
      BY <1>1, <1>3
    <3>2. <<str[i + 1]>> \o x \in Seq(Char)
      BY <3>1
    <3> QED
      BY <2>2, <3>2
  <2> QED
    BY <2>1, <2>2
<1>11. F \in [0..N - 1 -> [Seq(Char) -> Seq(Char)]]
  BY <1>8, <1>10
<1>12. PICK a \in Seq(Char) : a = <<>>
  BY EmptySeq
<1>13. PICK g \in [0..N -> Seq(Char)] : g[N] = a /\ \A i \in 0..N - 1 : g[i] = F[i][g[next[i]]]
  <2>1. PICK T : T = Seq(Char)
    OBVIOUS
  <2>2. a \in T /\ F \in [0..N - 1 -> [T -> T]]
    BY <1>11, <2>1
  <2>3. \E g \in [0..N -> T] : FallsFrom(g, N, a, F, next)
    BY <1>7, <2>2, RecursionDown
  <2> QED
    BY <2>1, <2>3 DEF FallsFrom
<1>14. \A i \in 0..N : i # N => i \in 0..N - 1
  OBVIOUS
<1>15. ASSUME NEW i \in 0..N, i # N
       PROVE  g[i] = IF At(str, scall.u, i)
                     THEN new \o IF Once THEN Sub(str, MatchEnd(i), N) ELSE g[MatchEnd(i)]
                     ELSE <<str[i + 1]>> \o g[i + 1]
  <2>1. i \in 0..N - 1 /\ next[i] \in 0..N
    BY <1>7, <1>14, <1>15
  <2>2. PICK x \in Seq(Char) : x = g[next[i]]
    BY <2>1
  <2>3. g[i] = IF i \in D THEN new \o IF Once THEN Sub(str, MatchEnd(i), N) ELSE x
               ELSE <<str[i + 1]>> \o x
    BY <1>8, <1>13, <2>1, <2>2
  <2>4. i \in D <=> At(str, scall.u, i)
    BY <1>4, <2>1
  <2>5. next[i] = IF i \in D THEN MatchEnd(i) ELSE i + 1
    BY <1>6, <2>1
  <2>6. CASE i \in D
    BY <2>2, <2>3, <2>4, <2>5, <2>6
  <2>7. CASE i \notin D
    BY <2>2, <2>3, <2>4, <2>5, <2>7
  <2> QED
    BY <2>6, <2>7
<1>16. g = [i \in 0..Len(str) |->
              IF i = Len(str) THEN <<>>
              ELSE IF At(str, scall.u, i)
                   THEN scall.new \o IF Once THEN Sub(str, MatchEnd(i), Len(str)) ELSE g[MatchEnd(i)]
                   ELSE <<str[i + 1]>> \o g[i + 1]]
  BY <1>1, <1>2, <1>12, <1>13, <1>15
<1>17. Renewed =
         [i \in 0..Len(str) |->
              IF i = Len(str) THEN <<>>
              ELSE IF At(str, scall.u, i)
                   THEN scall.new \o IF Once THEN Sub(str, MatchEnd(i), Len(str))
                                     ELSE Renewed[MatchEnd(i)]
                   ELSE <<str[i + 1]>> \o Renewed[i + 1]]
  BY <1>16 DEF Renewed
<1>18. Renewed[N] = <<>>
  <2>1. N \in 0..Len(str)
    BY <1>1
  <2> QED
    BY <1>1, <1>17, <2>1
<1>19. \A i \in 0..N - 1 :
         Renewed[i] = IF At(str, scall.u, i)
                      THEN new \o IF Once THEN Sub(str, MatchEnd(i), N) ELSE Renewed[MatchEnd(i)]
                      ELSE <<str[i + 1]>> \o Renewed[i + 1]
  <2>1. \A i \in 0..N - 1 : i \in 0..Len(str) /\ i # Len(str)
    BY <1>1
  <2> QED
    BY <1>1, <1>2, <1>17, <2>1
<1>20. \A d \in Nat : d \in {k \in Nat : \A i \in 0..N : N - k <= i => Renewed[i] \in Seq(Char)}
  <2> DEFINE G == {k \in Nat : \A i \in 0..N : N - k <= i => Renewed[i] \in Seq(Char)}
  <2>1. 0 \in G
    <3>1. \A i \in 0..N : N - 0 <= i => i = N
      OBVIOUS
    <3> QED
      BY <1>12, <1>18, <3>1
  <2>2. ASSUME NEW d \in Nat, d \in G  PROVE d + 1 \in G
    <3> SUFFICES ASSUME NEW i \in 0..N, N - (d + 1) <= i PROVE Renewed[i] \in Seq(Char)
      OBVIOUS
    <3>1. CASE i = N
      BY <1>12, <1>18, <3>1
    <3>2. CASE i # N
      <4>1. i \in 0..N - 1 /\ next[i] \in 0..N /\ i < next[i] /\ N - d <= next[i]
        BY <1>7, <1>14, <3>2
      <4>2. PICK x \in Seq(Char) : x = Renewed[next[i]]
        BY <2>2, <4>1
      <4>3. next[i] = IF i \in D THEN MatchEnd(i) ELSE i + 1
        BY <1>6, <4>1
      <4>4. i \in D <=> At(str, scall.u, i)
        BY <1>4, <4>1
      <4>5. Renewed[i] = IF i \in D THEN new \o IF Once THEN Sub(str, MatchEnd(i), N) ELSE x
                         ELSE <<str[i + 1]>> \o x
        <5>1. CASE i \in D
          BY <1>19, <4>1, <4>2, <4>3, <4>4, <5>1
        <5>2. CASE i \notin D
          BY <1>19, <4>1, <4>2, <4>3, <4>4, <5>2
        <5> QED
          BY <5>1, <5>2
      <4> QED
        BY <1>10, <4>1, <4>5
    <3> QED
      BY <3>1, <3>2
  <2> HIDE DEF G
  <2>3. \A d \in Nat : d \in G
    BY <2>1, <2>2, AllNaturals
  <2> QED
    BY <2>3 DEF G
<1>21. \A i \in 0..N : Renewed[i] \in Seq(Char)
  <2>1. \A i \in 0..N : N - N <= i
    OBVIOUS
  <2> QED
    BY <1>20, <2>1
<1> QED
  BY <1>1, <1>2, <1>18, <1>19, <1>21

\* Where nothing matches, the text stays.
LEMMA RenewedPlain ==
  ASSUME ArgumentAssumption, Replacing, NEW k \in 0..Len(str), NEW i \in 0..k,
         \A j \in i..k - 1 : ~At(str, scall.u, j)
  PROVE  Renewed[i] = Sub(str, i, k) \o Renewed[k]
<1>1. PICK x \in Seq(Char) : x = str
  BY Arguments DEF Replacing
<1>2. PICK N \in Nat : N = Len(x)
  BY LenProperties
<1>3. PICK r \in Seq(Char) : r = Renewed[k]
  BY RenewedIs
<1>4. \A j \in 0..N - 1 : ~At(str, scall.u, j) => Renewed[j] = <<x[j + 1]>> \o Renewed[j + 1]
  BY <1>1, <1>2, RenewedIs
<1> DEFINE G == {d \in Nat : i <= k - d => Renewed[k - d] = Sub(x, k - d, k) \o r}
<1>5. 0 \in G
  <2>1. k \in 0..Len(x)
    BY <1>1
  <2>2. Sub(x, k, k) = <<>>
    BY <2>1, SubNone
  <2>3. r = Sub(x, k, k) \o r /\ k - 0 = k
    BY <2>2, ConcatEmptySeq
  <2> QED
    BY <1>3, <2>3
<1>6. ASSUME NEW d \in Nat, d \in G  PROVE d + 1 \in G
  <2> SUFFICES ASSUME i <= k - (d + 1)
               PROVE  Renewed[k - (d + 1)] = Sub(x, k - (d + 1), k) \o r
    OBVIOUS
  <2>1. PICK j \in Nat, n \in Nat : j = k - (d + 1) /\ n = k - d
    OBVIOUS
  <2>2. n = j + 1 /\ j \in i..k - 1 /\ j \in 0..N - 1 /\ j <= n /\ n <= k /\ k <= N /\ k \in Nat
    BY <1>1, <1>2, <2>1
  <2>3. Renewed[n] = Sub(x, n, k) \o r
    BY <1>6, <2>1, <2>2
  <2>4. Renewed[j] = <<x[n]>> \o Renewed[n]
    BY <1>4, <2>2
  <2>5. k <= Len(x) /\ j < Len(x)
    BY <1>2, <2>2
  <2>6. Sub(x, j, n) = <<x[n]>> /\ x[n] \in Char
    BY <2>2, <2>5, SubOne
  <2>7. Adjacent(x, j, n, k)
    <3>1. j <= n /\ n <= k /\ k <= Len(x)
      BY <2>2, <2>5
    <3> QED
      BY <2>2, <3>1, SubJoin
  <2>8. PICK c \in Char : c = x[n]
    BY <2>6
  <2>9. <<c>> \in Seq(Char)
    OBVIOUS
  <2>10. PICK b \in Seq(Char) : b = <<c>>
    BY <2>9
  <2>11. Sub(x, n, k) \in Seq(Char)
    BY <2>2, <2>5, SubIs
  <2>12. PICK a \in Seq(Char) : a = Sub(x, n, k)
    BY <2>11
  <2>13. Grouped(b, a, r)
    BY Regroup
  <2> QED
    BY <2>1, <2>3, <2>4, <2>6, <2>7, <2>8, <2>10, <2>12, <2>13 DEF Adjacent, Grouped
<1> HIDE DEF G
<1>7. PICK d \in Nat : d = k - i /\ k - d = i
  OBVIOUS
<1>8. d \in G
  BY <1>5, <1>6, AllNaturals
<1> QED
  BY <1>1, <1>3, <1>7, <1>8 DEF G

LEMMA RenewedRest ==
  ASSUME ArgumentAssumption, Replacing, NEW i \in 0..Len(str),
         \A j \in Nat : i <= j => ~At(str, scall.u, j)
  PROVE  Renewed[i] = Sub(str, i, Len(str))
<1>1. PICK x \in Seq(Char) : x = str
  BY Arguments DEF Replacing
<1>2. PICK N \in Nat : N = Len(x)
  BY LenProperties
<1>3. N \in 0..Len(str) /\ i \in 0..N /\ \A j \in i..N - 1 : ~At(str, scall.u, j)
  BY <1>1, <1>2
<1>4. Renewed[i] = Sub(str, i, N) \o Renewed[N]
  BY <1>3, RenewedPlain
<1>5. Renewed[N] = <<>>
  BY <1>1, <1>2, RenewedIs
<1>6. Sub(x, i, N) \in Seq(Char)
  <2>1. i \in Nat /\ i <= N /\ N <= Len(x)
    BY <1>2, <1>3
  <2> QED
    BY <2>1, SubIs
<1> QED
  BY <1>1, <1>2, <1>4, <1>5, <1>6, ConcatEmptySeq

LEMMA ReplaceKeeps ==
  ASSUME ArgumentAssumption, StringsInv, Replace
  PROVE  StringsInv'
<1>1. scall \in Calls /\ scall.f = "replace" /\ result = Running /\ Passed /\ scall' = scall
  BY DEF StringsInv, Replace, Calling, Answers
<1>2. PICK x \in Seq(Char), u \in Seq(Char), new \in Seq(Char) :
         x = str /\ u = scall.u /\ new = scall.new
  BY <1>1, Arguments
<1>3. str' = str
  BY <1>1 DEF str
<1>4. PICK N \in Nat : N = Len(x)
  BY LenProperties
<1>5. PICK m \in Nat : m = Len(u)
  BY LenProperties
<1>6. /\ front \in 0..N /\ written \in Seq(Char)
      /\ u # <<>> => written \o Renewed[front] = Renewed[0]
  BY <1>1, <1>2, <1>4 DEF Passed, ReplacedSoFar
<1>7. u # <<>> => m > 0
  BY <1>5, EmptySeq
<1>8. Once' = Once /\ Once = FALSE
  BY <1>1 DEF Once
<1>9. Renewed' = Renewed
  <2>1. scall' = scall
    BY <1>1
  <2> QED
    BY <2>1 DEF Renewed, MatchEnd, Once, str
<1>10. ASSUME NEW v, result' = <<v>>, v = IF u = <<>> THEN x ELSE Renewed[0]
       PROVE  StringsInv'
  <2>1. answer' = v
    BY <1>10 DEF answer
  <2>2. ReplacesAll'
    BY <1>1, <1>2, <1>3, <1>9, <1>10, <2>1 DEF ReplacesAll
  <2> QED
    BY <1>1, <1>10, <2>2 DEF StringsInv, StringsRight, FindsNearest, CutsRight, LinesOfText,
       Answered, Running, Crashed
<1>11. u # <<>> => Replacing
  BY <1>1, <1>2 DEF Replacing
<1>12. ASSUME u # <<>>, NEW j \in Nat, j > N - m  PROVE ~At(str, scall.u, j)
  <2>1. ~(j + Len(u) <= Len(x))
    BY <1>4, <1>5, <1>12
  <2> QED
    BY <1>2, <2>1, Occurs
<1>13. CASE u = <<>> \/ N < m
  <2>1. result' = <<x>>
    BY <1>2, <1>4, <1>5, <1>13 DEF Replace, Answers
  <2>2. ASSUME u # <<>>  PROVE x = Renewed[0]
    <3>1. \A j \in Nat : 0 <= j => j > N - m
      BY <1>13, <2>2
    <3>2. 0 \in 0..Len(str)
      BY <1>2, <1>4
    <3>3. Renewed[0] = Sub(str, 0, Len(str))
      BY <1>11, <1>12, <2>2, <3>1, <3>2, RenewedRest
    <3> QED
      BY <1>2, <3>3, SubAll
  <2> QED
    BY <1>10, <2>1, <2>2
<1>14. CASE ~(u = <<>> \/ N < m) /\ front > N - m
  <2>1. result' = <<written \o Sub(str, front, Len(str))>>
    BY <1>2, <1>4, <1>5, <1>14 DEF Replace
  <2>2. front \in 0..Len(str) /\ \A j \in Nat : front <= j => j > N - m
    BY <1>2, <1>4, <1>6, <1>14
  <2>3. Renewed[front] = Sub(str, front, Len(str))
    BY <1>11, <1>12, <1>14, <2>2, RenewedRest
  <2> QED
    BY <1>6, <1>10, <1>14, <2>1, <2>3
<1>15. CASE ~(u = <<>> \/ N < m) /\ front <= N - m
  <2>1. PICK i \in 0..N - 1 : i = front
    BY <1>6, <1>7, <1>15
  <2>2. Renewed[i] = IF At(str, scall.u, i) THEN new \o Renewed[MatchEnd(i)]
                     ELSE <<x[i + 1]>> \o Renewed[i + 1]
    BY <1>2, <1>4, <1>8, <1>11, <1>15, RenewedIs
  <2>3. IF At(str, scall.u, i)
        THEN written' = written \o new /\ front' = i + m /\ result' = result
        ELSE written' = Append(written, x[i + 1]) /\ front' = i + 1 /\ result' = result
    <3>1. scall.u # <<>> /\ ~(Len(str) < Len(scall.u)) /\ ~(front > Len(str) - Len(scall.u))
      BY <1>2, <1>4, <1>5, <1>6, <1>15
    <3>2. IF At(str, scall.u, front)
          THEN written' = written \o scall.new /\ front' = front + Len(scall.u) /\ result' = result
          ELSE written' = Append(written, str[front + 1]) /\ front' = front + 1 /\ result' = result
      BY <3>1 DEF Replace
    <3> QED
      BY <1>2, <1>5, <2>1, <3>2
  <2>4. ReplacedSoFar'
    <3>1. PICK w \in Seq(Char) : w = written
      BY <1>6
    <3>2. CASE At(str, scall.u, i)
      <4>1. i + Len(u) <= Len(x)
        BY <1>2, <3>2, Occurs
      <4>2. MatchEnd(i) = i + m
        BY <1>1, <1>2, <1>5 DEF MatchEnd
      <4>3. PICK j \in 0..N : j = i + m
        BY <1>4, <1>5, <4>1
      <4>4. PICK r \in Seq(Char) : r = Renewed[j]
        BY <1>2, <1>4, <1>11, <1>15, RenewedIs
      <4>5. Grouped(w, new, r)
        BY Regroup
      <4>6. (w \o new) \o r = Renewed[0]
        BY <1>6, <1>15, <2>1, <2>2, <3>1, <3>2, <4>2, <4>3, <4>4, <4>5 DEF Grouped
      <4>7. w \o new \in Seq(Char)
        OBVIOUS
      <4>8. front' = j /\ written' = w \o new
        BY <2>3, <3>1, <3>2, <4>3
      <4> QED
        BY <1>2, <1>3, <1>4, <1>9, <4>4, <4>6, <4>7, <4>8 DEF ReplacedSoFar
    <3>3. CASE ~At(str, scall.u, i)
      <4>1. PICK c \in Char : c = x[i + 1]
        BY <1>4
      <4>2. PICK j \in 0..N : j = i + 1
        OBVIOUS
      <4>3. PICK r \in Seq(Char) : r = Renewed[j]
        BY <1>2, <1>4, <1>11, <1>15, RenewedIs
      <4>4. <<c>> \in Seq(Char)
        OBVIOUS
      <4>5. PICK b \in Seq(Char) : b = <<c>>
        BY <4>4
      <4>6. Grouped(w, b, r)
        BY Regroup
      <4>7. Append(w, c) = w \o b /\ Append(w, c) \in Seq(Char)
        BY <4>5, AppendIsConcat, AppendProperties
      <4>8. Append(w, c) \o r = Renewed[0]
        BY <1>6, <1>15, <2>1, <2>2, <3>1, <3>3, <4>1, <4>2, <4>3, <4>5, <4>6, <4>7
           DEF Grouped
      <4>9. front' = j /\ written' = Append(w, c)
        BY <2>3, <3>1, <3>3, <4>1, <4>2
      <4> QED
        BY <1>2, <1>3, <1>4, <1>9, <4>3, <4>7, <4>8, <4>9 DEF ReplacedSoFar
    <3> QED
      BY <3>2, <3>3
  <2>5. Passed' /\ result' = result
    BY <1>1, <2>3, <2>4 DEF Passed
  <2> QED
    BY <1>1, <2>5 DEF StringsInv, StringsRight, FindsNearest, CutsRight, LinesOfText,
       ReplacesAll, Answered, Running, Crashed
<1> QED
  BY <1>6, <1>13, <1>14, <1>15

---------------------------------------------------------------------------
\* What matches in the rest of a text matches in the text.
LEMMA AtShift ==
  ASSUME NEW S, NEW x \in Seq(S), NEW u \in Seq(S), NEW k \in 0..Len(x), NEW i \in Nat
  PROVE  At(Sub(x, k, Len(x)), u, i) <=> At(x, u, k + i)
<1>1. PICK N \in Nat : N = Len(x)
  BY LenProperties
<1>2. PICK m \in Nat : m = Len(u)
  BY LenProperties
<1>3. k \in Nat /\ k <= N /\ N <= Len(x)
  BY <1>1
<1>4. Sub(x, k, N) \in Seq(S) /\ Len(Sub(x, k, N)) = N - k
  BY <1>3, SubIs
<1>5. \A l \in 1..N - k : Sub(x, k, N)[l] = x[k + l]
  BY <1>3, SubIs
<1>6. PICK y \in Seq(S) : y = Sub(x, k, N) /\ Len(y) = N - k /\ \A l \in 1..N - k : y[l] = x[k + l]
  BY <1>4, <1>5
<1>7. PICK j \in Nat : j = k + i
  BY <1>3
<1>8. At(y, u, i) <=> i + m <= N - k /\ \A l \in 1..m : y[i + l] = u[l]
  <2>2. At(y, u, i) <=> Agrees(y, u, i)
    BY AtIs
  <2>1. At(y, u, i) <=> i + Len(u) <= Len(y) /\ \A l \in 1..Len(u) : y[i + l] = u[l]
    BY <2>2 DEF Agrees
  <2> QED
    BY <1>2, <1>6, <2>1
<1>9. At(x, u, j) <=> j + m <= N /\ \A l \in 1..m : x[j + l] = u[l]
  <2>2. At(x, u, j) <=> Agrees(x, u, j)
    BY AtIs
  <2>1. At(x, u, j) <=> j + Len(u) <= Len(x) /\ \A l \in 1..Len(u) : x[j + l] = u[l]
    BY <2>2 DEF Agrees
  <2> QED
    BY <1>1, <1>2, <2>1
<1>10. i + m <= N - k <=> j + m <= N
  BY <1>3, <1>7
<1>11. ASSUME i + m <= N - k, NEW l \in 1..m  PROVE y[i + l] = x[j + l]
  <2>1. PICK n \in 1..N - k : n = i + l /\ k + n = j + l
    BY <1>7, <1>11
  <2> QED
    BY <1>6, <2>1
<1> QED
  BY <1>1, <1>6, <1>7, <1>8, <1>9, <1>10, <1>11

\* The longest run of a character in the rest of a text, and in the text.
RunsAlike(x, y, c, k, i) ==
  k + Max({j \in i..Len(y) : \A l \in i + 1..j : y[l] = c})
    = Max({j \in k + i..Len(x) : \A l \in k + i + 1..j : x[l] = c})

LEMMA RunShift ==
  ASSUME NEW S, NEW x \in Seq(S), NEW c, NEW k \in Nat, k <= Len(x), NEW i \in Nat,
         k + i <= Len(x), NEW y \in Seq(S), y = Sub(x, k, Len(x))
  PROVE  RunsAlike(x, y, c, k, i)
<1>1. PICK N \in Nat : N = Len(x)
  BY LenProperties
<1>2. k <= N /\ N <= Len(x)
  BY <1>1
<1>3. Len(y) = N - k
  <2>1. Len(Sub(x, k, N)) = N - k
    BY <1>2, SubIs
  <2> QED
    BY <1>1, <2>1
<1>4. \A l \in 1..N - k : y[l] = x[k + l]
  <2>1. \A l \in 1..N - k : Sub(x, k, N)[l] = x[k + l]
    BY <1>2, SubIs
  <2> QED
    BY <1>1, <2>1
<1>5. PICK A : A = {j \in i..N - k : \A l \in i + 1..j : y[l] = c}
  OBVIOUS
<1>6. PICK p \in Nat : p = k + i /\ p <= N
  BY <1>1
<1>7. PICK B : B = {j \in p..N : \A l \in p + 1..j : x[l] = c}
  OBVIOUS
<1>8. p \in B
  <2>1. \A l \in p + 1..p : FALSE
    OBVIOUS
  <2> QED
    BY <1>6, <1>7, <2>1
<1>9. B \subseteq 0..N
  <2>1. \A j \in p..N : j \in 0..N
    OBVIOUS
  <2> QED
    BY <1>7, <2>1
<1>10. Max(B) \in B /\ \A j \in B : j <= Max(B)
  BY <1>8, <1>9, GreatestOf
<1>11. PICK z \in B : z = Max(B) /\ \A j \in B : j <= z
  BY <1>10
<1>12. ASSUME NEW j \in i..N - k  PROVE j \in A <=> k + j \in B
  <2>1. PICK n \in p..N : n = k + j
    BY <1>2, <1>6
  <2>2. ASSUME NEW l \in i + 1..j  PROVE k + l \in p + 1..n /\ y[l] = x[k + l]
    BY <1>4, <1>6, <2>1
  <2>3. ASSUME NEW l \in p + 1..n  PROVE l - k \in i + 1..j /\ k + (l - k) = l
    BY <1>6, <2>1
  <2>4. ASSUME j \in A  PROVE n \in B
    <3> SUFFICES ASSUME NEW l \in p + 1..n PROVE x[l] = c
      BY <1>7
    <3>1. PICK q \in i + 1..j : q = l - k /\ k + q = l
      BY <2>3
    <3> QED
      BY <1>5, <2>2, <2>4, <3>1
  <2>5. ASSUME n \in B  PROVE j \in A
    <3> SUFFICES ASSUME NEW l \in i + 1..j PROVE y[l] = c
      BY <1>5
    <3> QED
      BY <1>7, <2>2, <2>5
  <2> QED
    BY <2>1, <2>4, <2>5
<1>13. PICK w \in i..N - k : w = z - k /\ k + w = z
  <2>1. z \in p..N
    BY <1>7
  <2> QED
    BY <1>6, <2>1
<1>14. w \in A
  BY <1>12, <1>13
<1>15. \A j \in A : j <= w
  <2> SUFFICES ASSUME NEW j \in A PROVE j <= w
    OBVIOUS
  <2>1. j \in i..N - k
    BY <1>5
  <2>2. k + j \in B
    BY <1>12, <2>1
  <2>3. k + j <= z
    BY <1>11, <2>2
  <2> QED
    BY <1>13, <2>1, <2>3
<1>16. A \subseteq Int
  <2>1. \A j \in i..N - k : j \in Int
    OBVIOUS
  <2> QED
    BY <1>5, <2>1
<1>17. Max(A) = w
  BY <1>14, <1>15, <1>16, MaxIs
<1> QED
  BY <1>1, <1>3, <1>5, <1>6, <1>7, <1>11, <1>13, <1>17 DEF RunsAlike

\* The match in the rest of the text is the leftmost one behind k, and as long as there.
LEMMA MatchIs ==
  ASSUME ArgumentAssumption, PlainPatterns, Replacing, scall.f = "re-replace",
         NEW k \in 0..Len(str), NEW rest \in Seq(Char), rest = Sub(str, k, Len(str))
  PROVE  \/ Match(scall, rest) = {} /\ \A j \in Nat : k <= j => ~At(str, scall.u, j)
         \/ \E s, e \in Nat :
              /\ Match(scall, rest) = {[so |-> s, eo |-> e]}
              /\ At(str, scall.u, k + s) /\ \A j \in k..k + s - 1 : ~At(str, scall.u, j)
              /\ k + e = MatchEnd(k + s)
<1>1. PICK x \in Seq(Char), u \in Seq(Char) : x = str /\ u = scall.u /\ u # <<>>
  BY Arguments DEF Replacing
<1>2. PICK N \in Nat : N = Len(x)
  BY LenProperties
<1>3. PICK m \in Nat : m = Len(u)
  BY LenProperties
<1>4. scall.kind = "literal" \/ (scall.kind = "c+" /\ Len(scall.u) = 1)
  BY DEF PlainPatterns, Replacing
<1>5. k \in Nat /\ k <= N /\ k \in 0..Len(x)
  BY <1>1, <1>2
<1>6. Len(rest) = N - k
  <2>1. k <= N /\ N <= Len(x)
    BY <1>2, <1>5
  <2>2. Len(Sub(x, k, N)) = N - k
    BY <1>5, <2>1, SubIs
  <2> QED
    BY <1>1, <1>2, <2>2
<1>7. \A i \in Nat : At(rest, u, i) <=> At(x, u, k + i)
  BY <1>1, <1>5, AtShift
<1>8. PICK L : L = {i \in 0..Len(rest) : At(rest, u, i)}
  OBVIOUS
<1>9. \A i \in Nat : At(rest, u, i) => i \in L
  <2> SUFFICES ASSUME NEW i \in Nat, At(rest, u, i) PROVE i \in L
    OBVIOUS
  <2>1. i \in 0..Len(rest)
    BY Occurs
  <2> QED
    BY <1>8, <2>1
<1>11. CASE L = {}
  <2>1. Match(scall, rest) = {}
    BY <1>1, <1>4, <1>8, <1>11 DEF Match
  <2>2. ASSUME NEW j \in Nat, k <= j  PROVE ~At(x, u, j)
    <3>1. PICK i \in Nat : i = j - k /\ k + i = j
      BY <1>5, <2>2
    <3> QED
      BY <1>7, <1>9, <1>11, <3>1
  <2> QED
    BY <1>1, <2>1, <2>2
<1>12. CASE L # {}
  <2>1. L \subseteq Nat
    BY <1>8
  <2>2. Min(L) \in L /\ \A y \in L : Min(L) <= y
    BY <1>12, <2>1, LeastIndex
  <2>3. PICK s \in Nat : s = Min(L) /\ At(rest, u, s) /\ \A y \in L : s <= y
    BY <1>8, <2>1, <2>2
  <2>4. PICK i \in Nat : i = k + s /\ At(x, u, i)
    <3>1. At(x, u, k + s)
      BY <1>7, <2>3
    <3>2. k + s \in Nat
      BY <1>5
    <3> QED
      BY <3>1, <3>2
  <2>5. i + Len(u) <= Len(x) /\ i + 1 <= Len(x)
    BY <1>1, <2>4, Occurs
  <2>6. ASSUME NEW j \in k..k + s - 1  PROVE ~At(x, u, j)
    <3>1. PICK d \in Nat : d = j - k /\ k + d = j /\ d < s
      BY <1>5
    <3>2. At(rest, u, d) => s <= d
      BY <1>9, <2>3
    <3>3. ~At(rest, u, d)
      BY <3>1, <3>2
    <3>4. At(x, u, k + d) <=> At(rest, u, d)
      BY <1>7
    <3> QED
      BY <3>1, <3>3, <3>4
  <2>7. CASE scall.kind = "literal"
    <3>1. Match(scall, rest) = {[so |-> Min(L), eo |-> Min(L) + Len(scall.u)]}
      BY <1>1, <1>8, <1>12, <2>7 DEF Match
    <3>2. PICK e \in Nat : e = s + m
      OBVIOUS
    <3>3. MatchEnd(k + s) = k + s + m
      BY <1>1, <1>3, <2>7 DEF MatchEnd
    <3>4. Match(scall, rest) = {[so |-> s, eo |-> e]} /\ k + e = MatchEnd(k + s)
      BY <1>1, <1>3, <1>5, <2>3, <3>1, <3>2, <3>3
    <3> QED
      BY <1>1, <2>4, <2>6, <3>4
  <2>8. CASE scall.kind = "c+"
    <3>1. Match(scall, rest) =
            {[so |-> Min(L),
              eo |-> Max({j \in Min(L)..Len(rest) : \A l \in Min(L) + 1..j : rest[l] = scall.u[1]})]}
      BY <1>1, <1>8, <1>12, <2>8 DEF Match
    <3>2. k + s <= Len(x) /\ k <= Len(x)
      BY <1>2, <1>5, <2>4, <2>5
    <3>3. PICK S : S = {j \in s..Len(rest) : \A l \in s + 1..j : rest[l] = u[1]}
      OBVIOUS
    <3>4. k + Max(S) = Max({j \in k + s..Len(x) : \A l \in k + s + 1..j : x[l] = u[1]})
      <4>1. rest = Sub(x, k, Len(x))
        BY <1>1
      <4>2. RunsAlike(x, rest, u[1], k, s)
        BY <1>5, <3>2, <4>1, RunShift
      <4> QED
        BY <3>3, <4>2 DEF RunsAlike
    <3>5. k + Max(S) = MatchEnd(k + s)
      BY <1>1, <2>8, <3>4 DEF MatchEnd
    <3>6. PICK e \in Nat : e = Max(S)
      <4>1. PICK n \in Nat : n = Len(rest)
        BY LenProperties
      <4>2. s \in S
        <5>1. s <= n
          BY <1>2, <1>5, <1>6, <2>4, <2>5, <4>1
        <5>2. \A l \in s + 1..s : FALSE
          OBVIOUS
        <5> QED
          BY <3>3, <4>1, <5>1, <5>2
      <4>3. S \subseteq 0..n
        <5>1. \A j \in s..n : j \in 0..n
          OBVIOUS
        <5> QED
          BY <3>3, <4>1, <5>1
      <4>4. Max(S) \in S
        BY <4>2, <4>3, GreatestOf
      <4>5. Max(S) \in 0..n
        BY <4>3, <4>4
      <4> QED
        BY <4>5
    <3>7. Match(scall, rest) = {[so |-> s, eo |-> e]}
      BY <1>1, <2>3, <3>1, <3>3, <3>6
    <3> QED
      BY <1>1, <2>4, <2>6, <3>5, <3>6, <3>7
  <2> QED
    BY <1>4, <2>7, <2>8
<1> QED
  BY <1>11, <1>12

Spliced(w, x, p, k, s) == Sub(w, 0, p + s) = Sub(w, 0, p) \o Sub(x, k, k + s)

LEMMA SplicedStart ==
  ASSUME NEW S, NEW w \in Seq(S), NEW x \in Seq(S), NEW p \in Nat, NEW M \in Nat, NEW k \in Nat,
         NEW N \in Nat, NEW s \in Nat, p <= M, M <= Len(w), k <= N, N <= Len(x), k + s <= N,
         NEW y, y = Sub(w, p, M), y = Sub(x, k, N)
  PROVE  Spliced(w, x, p, k, s)
<1>1. Len(Sub(w, p, M)) = M - p
  BY SubIs
<1>2. Len(Sub(x, k, N)) = N - k
  BY SubIs
<1>3. M - p = N - k
  BY <1>1, <1>2
<1>4. PICK o \in Nat, q \in Nat : o = 0 /\ q = p + s
  OBVIOUS
<1>5. o <= p /\ p <= q /\ q <= Len(w) /\ o <= s /\ s <= M - p /\ s <= N - k
  BY <1>3, <1>4
<1>6. Adjacent(w, o, p, q)
  <2>1. o <= p /\ p <= q /\ q <= Len(w)
    BY <1>5
  <2> QED
    BY <2>1, SubJoin
<1>7. Within(w, p, M, o, s)
  <2>1. o <= s /\ s <= M - p
    BY <1>5
  <2> QED
    BY <2>1, SubSub
<1>8. Within(x, k, N, o, s)
  <2>1. o <= s /\ s <= N - k
    BY <1>5
  <2> QED
    BY <2>1, SubSub
<1>9. p + o = p /\ k + o = k
  BY <1>4
<1> QED
  BY <1>4, <1>6, <1>7, <1>8, <1>9 DEF Adjacent, Spliced, Within

LEMMA ReReplaceKeeps ==
  ASSUME ArgumentAssumption, PlainPatterns, StringsInv, ReReplace
  PROVE  StringsInv'
<1>1. scall \in Calls /\ scall.f = "re-replace" /\ result = Running /\ Passed /\ scall' = scall
  BY DEF StringsInv, ReReplace, Calling, Answers
<1>2. PICK x \in Seq(Char), u \in Seq(Char), new \in Seq(Char) :
         x = str /\ u = scall.u /\ new = scall.new /\ u # <<>>
  BY <1>1, Arguments
<1>3. str' = str
  BY <1>1 DEF str
<1>4. PICK N \in Nat : N = Len(x)
  BY LenProperties
<1>5. PICK w \in Seq(Char) : w = written /\ front \in 0..Len(w)
  BY <1>1 DEF Passed, RewrittenSoFar
<1>6. PICK M \in Nat, p \in Nat : M = Len(w) /\ p = front /\ p <= M
  BY <1>5
<1>7. PICK k \in 0..N : Sub(w, p, M) = Sub(x, k, N) /\ Sub(w, 0, p) \o Renewed[k] = Renewed[0]
  BY <1>1, <1>2, <1>4, <1>5, <1>6 DEF Passed, RewrittenSoFar
<1>8. Replacing
  BY <1>1, <1>2 DEF Replacing
<1>9. Renewed' = Renewed
  <2>1. scall' = scall
    BY <1>1
  <2> QED
    BY <2>1 DEF Renewed, MatchEnd, Once, str
<1>10. ASSUME NEW v, result' = <<v>>, v = Renewed[0]
       PROVE  StringsInv'
  <2>1. answer' = v
    BY <1>10 DEF answer
  <2>2. ReplacesAll'
    BY <1>1, <1>2, <1>3, <1>9, <1>10, <2>1 DEF ReplacesAll
  <2> QED
    BY <1>1, <1>10, <2>2 DEF StringsInv, StringsRight, FindsNearest, CutsRight, LinesOfText,
       Answered, Running, Crashed
<1>11. k \in Nat /\ k <= N /\ N <= Len(x) /\ k \in 0..Len(str)
  BY <1>2, <1>4
<1>12. Sub(x, k, N) \in Seq(Char) /\ Len(Sub(x, k, N)) = N - k
  BY <1>11, SubIs
<1>13. PICK rest \in Seq(Char) : rest = Sub(x, k, N) /\ Len(rest) = N - k
  BY <1>12
<1>14. PICK h \in Seq(Char) : h = Sub(w, 0, p)
  <2>1. PICK o \in Nat : o = 0 /\ o <= p /\ p <= Len(w)
    BY <1>6
  <2>2. o <= p /\ p <= Len(w)
    BY <2>1
  <2>3. Sub(w, o, p) \in Seq(Char)
    BY <2>2, SubIs
  <2> QED
    BY <2>1, <2>3
<1>15. h \o rest = w
  <2>1. PICK o \in Nat : o = 0 /\ o <= p /\ p <= M /\ M <= Len(w)
    BY <1>6
  <2>2. o <= p /\ p <= M /\ M <= Len(w)
    BY <2>1
  <2>3. Adjacent(w, o, p, M)
    BY <2>2, SubJoin
  <2>4. Sub(w, 0, Len(w)) = w
    BY SubAll
  <2> QED
    BY <1>6, <1>7, <1>13, <1>14, <2>1, <2>3, <2>4 DEF Adjacent
<1>16. LET Ms == Match(scall, rest)
           y  == CHOOSE z \in Ms : TRUE
           replaced == Sub(w, 0, p + y.so) \o new \o Sub(rest, y.eo, Len(rest))
       IN  IF Ms = {} THEN Answers(w)
           ELSE IF ~scall.global THEN Answers(replaced)
           ELSE written' = replaced /\ front' = p + (y.so + Len(new))
                /\ UNCHANGED <<scall, back, room, result>>
  BY <1>2, <1>5, <1>6, <1>7, <1>13 DEF ReReplace, Behind
<1>17. CASE Match(scall, rest) = {} /\ \A j \in Nat : k <= j => ~At(str, scall.u, j)
  <2>1. result' = <<w>>
    BY <1>16, <1>17 DEF Answers
  <2>2. Renewed[k] = Sub(str, k, Len(str))
    BY <1>8, <1>11, <1>17, RenewedRest
  <2>3. w = Renewed[0]
    BY <1>2, <1>4, <1>7, <1>13, <1>14, <1>15, <2>2
  <2> QED
    BY <1>10, <2>1, <2>3
<1>18. ASSUME NEW s \in Nat, NEW e \in Nat, Match(scall, rest) = {[so |-> s, eo |-> e]},
              At(str, scall.u, k + s), \A j \in k..k + s - 1 : ~At(str, scall.u, j),
              k + e = MatchEnd(k + s)
       PROVE  StringsInv'
  <2>1. PICK i \in Nat : i = k + s
    BY <1>11
  <2>2. i + 1 <= Len(x) /\ i \in 0..Len(str) /\ i \in 0..N - 1
    <3>1. i + 1 <= Len(x)
      BY <1>2, <1>18, <2>1, Occurs
    <3> QED
      BY <1>2, <1>4, <3>1
  <2>3. PICK j \in Nat : j = k + e /\ j = MatchEnd(i) /\ i < j /\ j <= N
    <3>1. MatchEnd(i) \in Nat /\ i < MatchEnd(i) /\ MatchEnd(i) <= Len(str)
      BY <1>8, <1>18, <2>1, MatchEndIs
    <3> QED
      BY <1>2, <1>4, <1>18, <2>1, <3>1
  <2>4. PICK t \in Seq(Char) : t = Sub(x, k, i)
    <3>1. k <= i /\ i <= Len(x)
      BY <1>4, <1>11, <2>1, <2>2
    <3>2. Sub(x, k, i) \in Seq(Char)
      BY <1>11, <3>1, SubIs
    <3> QED
      BY <3>2
  <2>5. PICK z \in Seq(Char) : z = Sub(x, j, N)
    <3>1. j <= N
      BY <2>3
    <3>2. Sub(x, j, N) \in Seq(Char)
      BY <1>11, <3>1, SubIs
    <3> QED
      BY <3>2
  <2>6. Renewed[k] = t \o Renewed[i]
    <3>1. k \in 0..i /\ \A l \in k..i - 1 : ~At(str, scall.u, l)
      BY <1>11, <1>18, <2>1
    <3> QED
      BY <1>2, <1>8, <2>2, <2>4, <3>1, RenewedPlain
  <2>7. PICK r \in Seq(Char) : r = (IF Once THEN z ELSE Renewed[j]) /\ Renewed[i] = new \o r
    <3>1. Renewed[i] = new \o IF Once THEN Sub(str, MatchEnd(i), Len(str)) ELSE Renewed[MatchEnd(i)]
      <4>1. i \in 0..Len(str) - 1 /\ At(str, scall.u, i)
        BY <1>2, <1>4, <1>18, <2>1, <2>2
      <4> QED
        BY <1>2, <1>8, <4>1, RenewedIs
    <3>2. j \in 0..Len(str)
      BY <1>2, <1>4, <2>3
    <3>3. Renewed[j] \in Seq(Char)
      BY <1>8, <3>2, RenewedIs
    <3> QED
      BY <1>2, <1>4, <2>3, <2>5, <3>1, <3>3
  <2>8. PICK a \in Seq(Char) : a = h \o t
    BY ConcatProperties
  <2>9. PICK b \in Seq(Char) : b = a \o new
    BY ConcatProperties
  <2>10. b \o r = Renewed[0]
    <3>1. new \o r \in Seq(Char)
      BY ConcatProperties
    <3>2. PICK c \in Seq(Char) : c = new \o r
      BY <3>1
    <3>3. Grouped(a, new, r) /\ Grouped(h, t, c)
      BY Regroup
    <3> QED
      BY <1>7, <1>14, <2>6, <2>7, <2>8, <2>9, <3>2, <3>3 DEF Grouped
  <2>11. Sub(w, 0, p + s) = a
    <3>1. p <= M /\ M <= Len(w) /\ k <= N /\ N <= Len(x) /\ k + s <= N
      BY <1>4, <1>6, <1>11, <2>1, <2>2
    <3>2. rest = Sub(w, p, M) /\ rest = Sub(x, k, N)
      BY <1>7, <1>13
    <3>3. Spliced(w, x, p, k, s)
      BY <1>11, <3>1, <3>2, SplicedStart
    <3> QED
      BY <1>14, <2>1, <2>4, <2>8, <3>3 DEF Spliced
  <2>12. Sub(rest, e, Len(rest)) = z
    <3>1. PICK d \in Nat : d = N - k /\ e <= d /\ k + d = N
      BY <1>11, <2>3
    <3>2. k <= N /\ N <= Len(x) /\ e <= d /\ d <= N - k
      BY <1>11, <3>1
    <3>3. Within(x, k, N, e, d)
      BY <1>11, <3>2, SubSub
    <3> QED
      BY <1>13, <2>3, <2>5, <3>1, <3>3 DEF Within
  <2>13. IF ~scall.global THEN Answers(b \o z)
         ELSE written' = b \o z /\ front' = p + (s + Len(new)) /\ UNCHANGED <<scall, back, room, result>>
    <3>1. PICK y : y = [so |-> s, eo |-> e]
      OBVIOUS
    <3>2. y.so = s /\ y.eo = e /\ Match(scall, rest) = {y}
      BY <1>18, <3>1
    <3>3. (CHOOSE n \in Match(scall, rest) : TRUE) = y /\ Match(scall, rest) # {}
      BY <3>2
    <3> QED
      BY <1>16, <2>9, <2>11, <2>12, <3>2, <3>3
  <2>14. CASE ~scall.global
    <3>1. Once
      BY <1>1, <2>14 DEF Once
    <3>2. result' = <<b \o z>> /\ b \o z = Renewed[0]
      BY <2>7, <2>10, <2>13, <2>14, <3>1 DEF Answers
    <3> QED
      BY <1>10, <3>2
  <2>15. CASE scall.global
    <3>1. ~Once
      BY <2>15 DEF Once
    <3>2. PICK v \in Seq(Char) : v = b \o z
      BY ConcatProperties
    <3>3. written' = v /\ front' = p + (s + Len(new)) /\ result' = result
      BY <2>13, <2>15, <3>2
    <3>4. Sub(v, 0, Len(b)) = b /\ Sub(v, Len(b), Len(v)) = z /\ Len(v) = Len(b) + Len(z)
      BY <3>2, SubOfJoin
    <3>5. front' = Len(b)
      <4>1. Len(b) = Len(a) + Len(new)
        BY <2>9, ConcatProperties
      <4>2. Len(a) = Len(h) + Len(t)
        BY <2>8, ConcatProperties
      <4>3. Len(t) = s
        <5>1. k <= i /\ i <= Len(x)
          BY <1>4, <1>11, <2>1, <2>2
        <5>2. Len(Sub(x, k, i)) = i - k
          BY <1>11, <5>1, PartLength
        <5> QED
          BY <1>11, <2>1, <2>4, <5>2
      <4>4. Len(h) = p
        BY <1>6, <1>14, FrontLength
      <4>5. Len(new) \in Nat
        BY LenProperties
      <4> QED
        BY <3>3, <4>1, <4>2, <4>3, <4>4, <4>5
    <3>6. RewrittenSoFar'
      <4>1. front' \in 0..Len(v)
        <5>1. PICK lb \in Nat, lz \in Nat : lb = Len(b) /\ lz = Len(z)
          BY LenProperties
        <5> QED
          BY <3>4, <3>5, <5>1
      <4>2. j \in 0..Len(str)
        BY <1>2, <1>4, <2>3
      <4>3. Sub(v, front', Len(v)) = Sub(str, j, Len(str))
        BY <1>2, <1>4, <2>5, <3>4, <3>5
      <4>4. Sub(v, 0, front') \o Renewed[j] = Renewed[0]
        BY <2>7, <2>10, <3>1, <3>4, <3>5
      <4> QED
        BY <1>3, <1>9, <3>3, <4>1, <4>2, <4>3, <4>4 DEF RewrittenSoFar
    <3>7. Passed'
      BY <1>1, <3>6 DEF Passed
    <3> QED
      BY <1>1, <3>3, <3>7 DEF StringsInv, StringsRight, FindsNearest, CutsRight, LinesOfText,
         ReplacesAll, Answered, Running, Crashed
  <2> QED
    BY <2>14, <2>15
<1>19. \/ Match(scall, rest) = {} /\ \A j \in Nat : k <= j => ~At(str, scall.u, j)
       \/ \E s, e \in Nat :
            /\ Match(scall, rest) = {[so |-> s, eo |-> e]}
            /\ At(str, scall.u, k + s) /\ \A j \in k..k + s - 1 : ~At(str, scall.u, j)
            /\ k + e = MatchEnd(k + s)
  <2>1. rest = Sub(str, k, Len(str))
    BY <1>2, <1>4, <1>13
  <2> QED
    BY <1>1, <1>8, <1>11, <2>1, MatchIs
<1> QED
  BY <1>17, <1>18, <1>19

---------------------------------------------------------------------------
LEMMA StringsStart ==
  ASSUME ArgumentAssumption, StringsInit
  PROVE  StringsInv
<1>1. scall \in Calls /\ front = 0 /\ back = Len(str) /\ result = Running
      /\ written = IF scall.f = "re-replace" THEN str ELSE <<>>
  BY DEF StringsInit, Entry, str
<1>2. PICK x \in Seq(Char) : x = str
  BY <1>1, Arguments
<1>3. PICK N \in Nat : N = Len(x)
  BY LenProperties
<1>4. ASSUME scall.f = "index-of"  PROVE SearchedAhead
  BY <1>1 DEF SearchedAhead
<1>5. ASSUME scall.f = "last-index-of"  PROVE SearchedBack
  BY <1>1 DEF SearchedBack
<1>6. ASSUME scall.f = "trim"  PROVE WhiteAround
  <2>1. DOMAIN str = 1..N
    BY <1>2, <1>3
  <2>2. \A k \in 1..N : ~(k <= front \/ k > back)
    BY <1>1, <1>2, <1>3
  <2> QED
    BY <1>1, <1>2, <1>3, <2>1, <2>2 DEF WhiteAround
<1>7. ASSUME scall.f = "split-to-line"  PROVE LinesSoFar
  <2>1. Whole(<<>>) = <<>> /\ <<>> \in Seq(Seq(Char))
    BY WholeOfNone
  <2>2. Clean[0] = <<>>
    BY <1>2, CleanIs
  <2> QED
    BY <1>1, <1>2, <1>3, <1>7, <2>1, <2>2 DEF LinesSoFar
<1>8. ASSUME scall.f = "replace"  PROVE ReplacedSoFar
  <2>1. ASSUME scall.u # <<>>  PROVE <<>> \o Renewed[0] = Renewed[0]
    <3>1. Replacing
      BY <1>1, <1>8, <2>1 DEF Replacing
    <3>2. 0 \in 0..Len(str)
      BY <1>2, <1>3
    <3>3. Renewed[0] \in Seq(Char)
      BY <3>1, <3>2, RenewedIs
    <3> QED
      BY <3>3, ConcatEmptySeq
  <2>2. <<>> \in Seq(Char)
    BY EmptySeq
  <2> QED
    BY <1>1, <1>2, <1>3, <1>8, <2>1, <2>2 DEF ReplacedSoFar
<1>9. ASSUME scall.f = "re-replace"  PROVE RewrittenSoFar
  <2>1. Replacing
    BY <1>1, <1>9, Arguments DEF Replacing
  <2>2. PICK k \in 0..Len(str) : k = 0
    BY <1>2, <1>3
  <2>3. Renewed[k] \in Seq(Char)
    BY <2>1, RenewedIs
  <2>4. Sub(x, k, k) = <<>>
    BY <1>2, SubNone
  <2>5. Sub(x, 0, 0) \o Renewed[k] = Renewed[0]
    BY <2>2, <2>3, <2>4, ConcatEmptySeq
  <2>6. written = x /\ front = 0 /\ 0 \in 0..Len(x)
    BY <1>1, <1>2, <1>3, <1>9
  <2> QED
    BY <1>2, <2>2, <2>5, <2>6 DEF RewrittenSoFar
<1>10. Passed
  BY <1>4, <1>5, <1>6, <1>7, <1>8, <1>9 DEF Passed
<1> QED
  BY <1>1, <1>10 DEF StringsInv, StringsRight, FindsNearest, CutsRight, LinesOfText, ReplacesAll, Answered

LEMMA StringsStep ==
  ASSUME ArgumentAssumption, PlainPatterns, StringsInv, [StringsNext]_strvars
  PROVE  StringsInv'
<1>1. CASE UNCHANGED strvars
  <2>1. scall' = scall /\ front' = front /\ back' = back /\ written' = written /\ result' = result
    BY <1>1 DEF strvars
  <2>2. str' = str /\ answer' = answer /\ Furthest' = Furthest
    BY <2>1 DEF str, answer, Furthest, From
  <2>3. Clean' = Clean
    BY <2>2 DEF Clean, EndsLine
  <2>4. Renewed' = Renewed
    BY <2>1 DEF Renewed, MatchEnd, Once, str
  <2>5. (FindsNearest /\ CutsRight)' = (FindsNearest /\ CutsRight)
    BY <2>1 DEF FindsNearest, CutsRight, Answered, answer, str
  <2>6. (LinesOfText /\ ReplacesAll)' = (LinesOfText /\ ReplacesAll)
    BY <2>1, <2>2, <2>3, <2>4 DEF LinesOfText, ReplacesAll, Answered
  <2> QED
    BY <2>1, <2>2, <2>3, <2>4, <2>5, <2>6 DEF StringsInv, StringsRight, Passed, SearchedAhead,
       SearchedBack, WhiteAround, LinesSoFar, ReplacedSoFar, RewrittenSoFar
<1>2. CASE StringsNext
  BY <1>2, IndexOfKeeps, LastIndexOfKeeps, StartWithKeeps, EndWithKeeps, SubstringKeeps, TrimKeeps,
     SplitToLineKeeps, SplitCrashesKeeps, ReplaceKeeps, ReReplaceKeeps DEF StringsNext
<1> QED
  BY <1>1, <1>2

\* A search finds the nearest occurrence, a cut or trimmed string is what it should be, lines
\* are those of the text, and all that matches is replaced, once (nfunc_str.c, nfunc_re.c).
THEOREM StringFunctionsRight ==
  ASSUME ArgumentAssumption, PlainPatterns
  PROVE  StringsSpec => []StringsRight
<1>1. StringsInit => StringsInv
  BY StringsStart
<1>2. StringsInv /\ [StringsNext]_strvars => StringsInv'
  BY StringsStep
<1>3. StringsInv => StringsRight
  BY DEF StringsInv
<1> QED
  BY <1>1, <1>2, <1>3, PTL DEF StringsSpec

---------------------------------------------------------------------------
(* The printer.                                                            *)

Heaps  == [Cell -> [car : CarCdr, cdr : CarCdr]]
Texts  == [out : Seq(Words), map : SUBSET Cell, ok : BOOLEAN]
Prints == [Cell -> [SUBSET Cell -> Texts]]
Halves == [out : Seq(Words), map : SUBSET Cell, ok : BOOLEAN, added : BOOLEAN]

LEMMA JoinReports ==
  ASSUME NEW u \in Seq(Words), NEW v \in Seq(Words)
  PROVE  u \o v \in Seq(Words) /\ (Reports(u \o v) <=> Reports(u) \/ Reports(v))
<1>1. PICK m \in Nat, n \in Nat : m = Len(u) /\ n = Len(v)
  BY LenProperties
<1>2. PICK w \in Seq(Words) : w = u \o v
  BY ConcatProperties
<1>3. /\ Len(w) = m + n
      /\ \A i \in 1..m + n : w[i] = IF i <= m THEN u[i] ELSE v[i - m]
  BY <1>1, <1>2, ConcatProperties
<1>4. DOMAIN u = 1..m /\ DOMAIN v = 1..n /\ DOMAIN w = 1..m + n
  BY <1>1, <1>3, LenProperties
<1>5. ASSUME NEW i \in 1..m, u[i] = Report  PROVE Reports(w)
  <2>1. i \in 1..m + n /\ i <= m
    OBVIOUS
  <2> QED
    BY <1>3, <1>4, <1>5, <2>1 DEF Reports
<1>6. ASSUME NEW i \in 1..n, v[i] = Report  PROVE Reports(w)
  <2>1. PICK k \in 1..m + n : k = m + i /\ ~(k <= m) /\ k - m = i
    OBVIOUS
  <2>2. w[k] = v[i]
    BY <1>3, <2>1
  <2> QED
    BY <1>4, <1>6, <2>2 DEF Reports
<1>7. ASSUME NEW i \in 1..m + n, w[i] = Report  PROVE Reports(u) \/ Reports(v)
  <2>1. CASE i <= m
    <3>1. i \in 1..m
      BY <2>1
    <3> QED
      BY <1>3, <1>4, <1>7, <2>1, <3>1 DEF Reports
  <2>2. CASE ~(i <= m)
    <3>1. PICK k \in 1..n : k = i - m
      BY <2>2
    <3> QED
      BY <1>3, <1>4, <1>7, <2>2, <3>1 DEF Reports
  <2> QED
    BY <2>1, <2>2
<1> QED
  BY <1>2, <1>4, <1>5, <1>6, <1>7 DEF Reports

\* What a half of a pair is printed as, given the printing b of pairs one level deeper
\* that leaves map as it was.
Adds(x, M) == x \in Cell /\ x \notin M
With(x, M) == IF Adds(x, M) THEN M \cup {x} ELSE M
HalfEnds(b, x, M) == Adds(x, M) => b[x][M \cup {x}].ok
HalfReports(b, x, M) == x \in Cell /\ (x \in M \/ Reports(b[x][M \cup {x}].out))
IsHalf(h, b, x, M) ==
  /\ h \in Halves
  /\ (h.added <=> Adds(x, M)) /\ h.map = With(x, M)
  /\ h.ok <=> HalfEnds(b, x, M)
  /\ Reports(h.out) <=> HalfReports(b, x, M)
KeepsMap(b) == \A e \in Cell, M \in SUBSET Cell : b[e][M].map = M

LEMMA WordIs ==
  ASSUME PrinterAssumption, NEW b \in Prints, NEW M \in SUBSET Cell, NEW x, x \notin Cell,
         NEW ws \in Seq(Words), ~Reports(ws)
  PROVE  IsHalf(Word(ws, M), b, x, M)
<1>1. Word(ws, M) \in Halves
  BY DEF Word, Halves
<1>2. ~Adds(x, M) /\ With(x, M) = M /\ HalfEnds(b, x, M) /\ ~HalfReports(b, x, M)
  BY DEF Adds, With, HalfEnds, HalfReports
<1> QED
  BY <1>1, <1>2 DEF IsHalf, Word

LEMMA HalfIs ==
  ASSUME PrinterAssumption, NEW b \in Prints, KeepsMap(b), NEW M \in SUBSET Cell, NEW x \in Cell,
         NEW before \in Seq(Words), NEW after \in Seq(Words), ~Reports(before), ~Reports(after)
  PROVE  IsHalf(Half(b, x, M, before, after), b, x, M)
<1>1. CASE x \in M
  <2>1. <<Report>> \in Seq(Words) /\ Reports(<<Report>>)
    BY DEF Words, Reports
  <2>2. ~Adds(x, M) /\ With(x, M) = M /\ HalfEnds(b, x, M) /\ HalfReports(b, x, M)
    BY <1>1 DEF Adds, With, HalfEnds, HalfReports
  <2>3. Half(b, x, M, before, after) = Word(<<Report>>, M)
    BY <1>1 DEF Half, Found
  <2>4. Word(<<Report>>, M) \in Halves
    BY <2>1 DEF Word, Halves
  <2> QED
    BY <2>1, <2>2, <2>3, <2>4 DEF IsHalf, Word
<1>2. CASE x \notin M
  <2>1. PICK N \in SUBSET Cell : N = M \cup {x}
    OBVIOUS
  <2>2. PICK r \in Texts : r = b[x][N]
    BY DEF Prints
  <2>3. r.out \in Seq(Words) /\ r.map = N /\ r.ok \in BOOLEAN
    BY <2>2 DEF KeepsMap, Texts
  <2>4. PICK w \in Seq(Words) : w = before \o r.out /\ (Reports(w) <=> Reports(r.out))
    <3>1. PICK o \in Seq(Words) : o = r.out
      BY <2>3
    <3>2. before \o o \in Seq(Words) /\ (Reports(before \o o) <=> Reports(before) \/ Reports(o))
      BY JoinReports
    <3> QED
      BY <3>1, <3>2
  <2>5. PICK v \in Seq(Words) : v = w \o after /\ (Reports(v) <=> Reports(r.out))
    BY <2>4, JoinReports
  <2>6. Half(b, x, M, before, after) = [out |-> v, map |-> N, added |-> TRUE, ok |-> r.ok]
    BY <1>2, <2>1, <2>2, <2>3, <2>4, <2>5 DEF Half, Found
  <2>7. Adds(x, M) /\ With(x, M) = N /\ (HalfEnds(b, x, M) <=> r.ok)
    BY <1>2, <2>1, <2>2, <2>3 DEF Adds, With, HalfEnds
  <2>8. HalfReports(b, x, M) <=> Reports(r.out)
    BY <1>2, <2>1, <2>2 DEF HalfReports
  <2> QED
    BY <2>3, <2>5, <2>6, <2>7, <2>8 DEF IsHalf, Halves
<1> QED
  BY <1>1, <1>2

LEMMA HalvesAre ==
  ASSUME PrinterAssumption, NEW b \in Prints, KeepsMap(b), NEW M \in SUBSET Cell, NEW x \in CarCdr
  PROVE  IsHalf(First(b, x, M), b, x, M) /\ IsHalf(Rest(b, x, M), b, x, M)
<1>1. /\ \A w \in Words : <<w>> \in Seq(Words) /\ (w # Report => ~Reports(<<w>>))
      /\ \A w, v \in Words : <<w, v>> \in Seq(Words) /\ (w # Report /\ v # Report => ~Reports(<<w, v>>))
      /\ <<>> \in Seq(Words) /\ ~Reports(<<>>)
  BY DEF Reports
<1>2. /\ {"NULL", "space", ".", "(", ")"} \subseteq Words /\ Atom \subseteq Words
      /\ Report \notin {"NULL", "space", ".", "(", ")"} \cup Atom
  BY DEF Words, Report, PrinterAssumption
<1>3. x \in Cell \/ x = PNULL \/ x \in Atom
  BY DEF CarCdr
<1>4. CASE x \in Cell
  <2>1. x # PNULL /\ ~isAtom(x) /\ x # pnil
    BY <1>4 DEF PrinterAssumption, isAtom
  <2>2. First(b, x, M) = Half(b, x, M, <<"(">>, <<")">>) /\ Rest(b, x, M) = Half(b, x, M, Separator, <<>>)
    BY <2>1 DEF First, Rest
  <2>3. /\ <<"(">> \in Seq(Words) /\ ~Reports(<<"(">>) /\ <<")">> \in Seq(Words) /\ ~Reports(<<")">>)
        /\ Separator \in Seq(Words) /\ ~Reports(Separator)
    BY <1>1, <1>2 DEF Separator
  <2>4. IsHalf(Half(b, x, M, <<"(">>, <<")">>), b, x, M)
    BY <1>4, <2>3, HalfIs
  <2>5. PICK s \in Seq(Words), n \in Seq(Words) : s = Separator /\ n = <<>> /\ ~Reports(s) /\ ~Reports(n)
    BY <1>1, <2>3
  <2>6. IsHalf(Half(b, x, M, s, n), b, x, M)
    BY <1>4, <2>5, HalfIs
  <2> QED
    BY <2>2, <2>4, <2>5, <2>6
<1>5. CASE x = PNULL
  <2>1. First(b, x, M) = Word(<<"NULL", "space">>, M) /\ Rest(b, x, M) = Word(<<"NULL">>, M)
    BY <1>5 DEF First, Rest
  <2>2. x \notin Cell
    BY <1>5 DEF PrinterAssumption
  <2>3. /\ <<"NULL">> \in Seq(Words) /\ ~Reports(<<"NULL">>)
        /\ <<"NULL", "space">> \in Seq(Words) /\ ~Reports(<<"NULL", "space">>)
    BY <1>1, <1>2
  <2>4. IsHalf(Word(<<"NULL", "space">>, M), b, x, M) /\ IsHalf(Word(<<"NULL">>, M), b, x, M)
    BY <2>2, <2>3, WordIs
  <2> QED
    BY <2>1, <2>4
<1>6. CASE x \in Atom
  <2>1. x # PNULL /\ isAtom(x) /\ x \notin Cell
    BY <1>6 DEF PrinterAssumption, isAtom
  <2>2. /\ First(b, x, M) = Word(<<x>>, M)
        /\ Rest(b, x, M) = IF x = pnil THEN Word(<<>>, M) ELSE Word(<<".", x>>, M)
    BY <2>1 DEF First, Rest
  <2>3. /\ <<x>> \in Seq(Words) /\ ~Reports(<<x>>)
        /\ <<".", x>> \in Seq(Words) /\ ~Reports(<<".", x>>)
    BY <1>1, <1>2, <1>6
  <2>4. IsHalf(Word(<<x>>, M), b, x, M) /\ IsHalf(Word(<<>>, M), b, x, M) /\ IsHalf(Word(<<".", x>>, M), b, x, M)
    BY <1>1, <2>1, <2>3, WordIs
  <2> QED
    BY <2>2, <2>4
<1> QED
  BY <1>3, <1>4, <1>5, <1>6

\* What a pair is printed as.
LEMMA BothAre ==
  ASSUME PrinterAssumption, heap \in Heaps, NEW b \in Prints, KeepsMap(b),
         NEW M \in SUBSET Cell, NEW e \in Cell,
         NEW x, x = heap[e].car, NEW y, y = heap[e].cdr, NEW N, N = With(x, M)
  PROVE  /\ x \in CarCdr /\ y \in CarCdr /\ N \in SUBSET Cell
         /\ Both(b, e, M) \in Texts
         /\ Both(b, e, M).map = M
         /\ Both(b, e, M).ok <=> HalfEnds(b, x, M) /\ HalfEnds(b, y, N)
         /\ Reports(Both(b, e, M).out) <=> HalfReports(b, x, M) \/ HalfReports(b, y, N)
<1>1. x \in CarCdr /\ y \in CarCdr /\ N \in SUBSET Cell
  BY DEF Heaps, With, Adds
<1>2. PICK f : f = First(b, x, M) /\ IsHalf(f, b, x, M)
  BY <1>1, HalvesAre
<1>3. PICK r : r = Rest(b, y, N) /\ IsHalf(r, b, y, N)
  BY <1>1, HalvesAre
<1>4. f.map = N /\ (f.added <=> Adds(x, M)) /\ r.map = With(y, N) /\ (r.added <=> Adds(y, N))
  BY <1>2, <1>3 DEF IsHalf
<1>5. /\ f.out \in Seq(Words) /\ r.out \in Seq(Words) /\ f.ok \in BOOLEAN /\ r.ok \in BOOLEAN
      /\ f.added \in BOOLEAN /\ r.added \in BOOLEAN
  BY <1>2, <1>3 DEF IsHalf, Halves
<1>6. PICK w \in Seq(Words) : w = f.out \o r.out /\ (Reports(w) <=> Reports(f.out) \/ Reports(r.out))
  BY <1>5, JoinReports
<1>7. Forget(Forget(r.map, f.added, x), r.added, y) = M
  BY <1>1, <1>4 DEF Forget, With, Adds
<1>8. Both(b, e, M) = [out |-> w, ok |-> f.ok /\ r.ok, map |-> M]
  BY <1>2, <1>3, <1>4, <1>6, <1>7 DEF Both
<1>9. /\ (f.ok <=> HalfEnds(b, x, M)) /\ (r.ok <=> HalfEnds(b, y, N))
      /\ Reports(f.out) <=> HalfReports(b, x, M)
      /\ Reports(r.out) <=> HalfReports(b, y, N)
  BY <1>2, <1>3 DEF IsHalf
<1> QED
  BY <1>1, <1>5, <1>6, <1>8, <1>9 DEF Texts

Kept == {b \in Prints : KeepsMap(b)}
Deeper(b) == [e \in Cell |-> [map \in SUBSET Cell |-> Both(b, e, map)]]

LEMMA DeeperKept ==
  ASSUME PrinterAssumption, heap \in Heaps, NEW b \in Kept
  PROVE  Deeper(b) \in Kept
<1>1. b \in Prints /\ KeepsMap(b)
  BY DEF Kept
<1>2. ASSUME NEW e \in Cell, NEW M \in SUBSET Cell
      PROVE  Both(b, e, M) \in Texts /\ Both(b, e, M).map = M
  BY <1>1, BothAre
<1>3. Deeper(b) \in Prints
  BY <1>2 DEF Deeper, Prints
<1>4. KeepsMap(Deeper(b))
  BY <1>2 DEF Deeper, KeepsMap
<1> QED
  BY <1>3, <1>4 DEF Kept

LEMMA DeepestIs ==
  ASSUME PrinterAssumption
  PROVE  Deepest \in Nat /\ Deepest = Cardinality(Cell) + 1 /\ Cardinality(Cell) \in Nat
BY FS_CardinalityType DEF PrinterAssumption, Deepest

\* The printing of pairs exists, and leaves map as it was.
LEMMA EprintIs ==
  ASSUME PrinterAssumption, heap \in Heaps
  PROVE  /\ \A d \in 0..Deepest : eprint[d] \in Kept
         /\ eprint[0] = TooDeep
         /\ \A d \in 1..Deepest : eprint[d] = Deeper(eprint[d - 1])
<1>1. PICK N \in Nat : N = Deepest
  BY DeepestIs
<1>2. PICK a \in Kept : a = TooDeep
  <2>1. <<>> \in Seq(Words)
    OBVIOUS
  <2>2. TooDeep \in Prints /\ KeepsMap(TooDeep)
    BY <2>1 DEF TooDeep, Prints, KeepsMap, Texts
  <2> QED
    BY <2>2 DEF Kept
<1>3. PICK F \in [1..N -> [Kept -> Kept]] : \A i \in 1..N, b \in Kept : F[i][b] = Deeper(b)
  <2>1. PICK f \in [Kept -> Kept] : \A b \in Kept : f[b] = Deeper(b)
    <3>1. [b \in Kept |-> Deeper(b)] \in [Kept -> Kept]
      BY DeeperKept
    <3> QED
      BY <3>1
  <2>2. [i \in 1..N |-> f] \in [1..N -> [Kept -> Kept]]
    OBVIOUS
  <2> QED
    BY <2>1, <2>2
<1>4. PICK g \in [0..N -> Kept] : g[0] = a /\ \A i \in 1..N : g[i] = F[i][g[i - 1]]
  <2>1. \E g \in [0..N -> Kept] : RisesFrom(g, N, a, F)
    BY <1>2, <1>3, RecursionUp
  <2> QED
    BY <2>1 DEF RisesFrom
<1>5. \A i \in 1..N : i # 0 /\ i - 1 \in 0..N /\ i \in 0..N
  OBVIOUS
<1>6. \A i \in 0..N : i = 0 \/ i \in 1..N
  OBVIOUS
<1>7. \A i \in 0..N : g[i] = IF i = 0 THEN TooDeep ELSE Deeper(g[i - 1])
  BY <1>2, <1>3, <1>4, <1>5, <1>6
<1>8. g = [i \in 0..Deepest |-> IF i = 0 THEN TooDeep ELSE Deeper(g[i - 1])]
  BY <1>1, <1>7
<1>9. eprint = [i \in 0..Deepest |-> IF i = 0 THEN TooDeep ELSE Deeper(eprint[i - 1])]
  BY <1>8 DEF eprint, Deeper
<1>10. /\ eprint[0] = TooDeep
       /\ \A i \in 1..N : eprint[i] = Deeper(eprint[i - 1])
  <2>1. 0 \in 0..Deepest
    BY <1>1
  <2> QED
    BY <1>1, <1>5, <1>9, <2>1
<1>11. \A i \in Nat : i \in {k \in Nat : k <= N => eprint[k] \in Kept}
  <2> DEFINE G == {k \in Nat : k <= N => eprint[k] \in Kept}
  <2>1. 0 \in G
    BY <1>2, <1>10
  <2>2. ASSUME NEW k \in Nat, k \in G  PROVE k + 1 \in G
    <3> SUFFICES ASSUME k + 1 <= N PROVE eprint[k + 1] \in Kept
      OBVIOUS
    <3>1. PICK j \in 1..N : j = k + 1 /\ j - 1 = k /\ k <= N
      OBVIOUS
    <3>2. eprint[j] = Deeper(eprint[k]) /\ eprint[k] \in Kept
      BY <1>10, <2>2, <3>1
    <3> QED
      BY <3>1, <3>2, DeeperKept
  <2> HIDE DEF G
  <2>3. \A i \in Nat : i \in G
    BY <2>1, <2>2, AllNaturals
  <2> QED
    BY <2>3 DEF G
<1> QED
  BY <1>1, <1>10, <1>11

\* One level of printing, in terms of the level below.
Level(d, e, M, x, y, N) ==
  /\ eprint[d + 1][e][M].ok <=> HalfEnds(eprint[d], x, M) /\ HalfEnds(eprint[d], y, N)
  /\ Reports(eprint[d + 1][e][M].out) <=> HalfReports(eprint[d], x, M) \/ HalfReports(eprint[d], y, N)
LEMMA LevelIs ==
  ASSUME PrinterAssumption, heap \in Heaps, NEW d \in Nat, d + 1 <= Deepest,
         NEW M \in SUBSET Cell, NEW e \in Cell
  PROVE  Level(d, e, M, heap[e].car, heap[e].cdr, With(heap[e].car, M))
<1>1. PICK k \in 1..Deepest : k = d + 1 /\ k - 1 = d /\ d \in 0..Deepest
  BY DeepestIs
<1>2. PICK b \in Kept : b = eprint[d]
  BY <1>1, EprintIs
<1>3. eprint[k][e][M] = Both(b, e, M)
  <2>1. eprint[k] = Deeper(b)
    BY <1>1, <1>2, EprintIs
  <2> QED
    BY <2>1 DEF Deeper
<1>4. b \in Prints /\ KeepsMap(b)
  BY <1>2 DEF Kept
<1>5. PICK x, y, N : x = heap[e].car /\ y = heap[e].cdr /\ N = With(x, M)
  OBVIOUS
<1>6. /\ Both(b, e, M).ok <=> HalfEnds(b, x, M) /\ HalfEnds(b, y, N)
      /\ Reports(Both(b, e, M).out) <=> HalfReports(b, x, M) \/ HalfReports(b, y, N)
  BY <1>4, <1>5, BothAre
<1>7. Level(d, e, M, x, y, N)
  BY <1>1, <1>2, <1>3, <1>6 DEF Level
<1> QED
  BY <1>5, <1>7

LEMMA BottomIs ==
  ASSUME PrinterAssumption, heap \in Heaps, NEW M \in SUBSET Cell, NEW e \in Cell
  PROVE  ~eprint[0][e][M].ok /\ ~Reports(eprint[0][e][M].out)
<1>1. eprint[0] = TooDeep
  BY EprintIs
<1>2. TooDeep[e][M] = [out |-> <<>>, ok |-> FALSE, map |-> M]
  BY DEF TooDeep
<1> QED
  BY <1>1, <1>2 DEF Reports

\* Printing ends above the bottom of the stack: every level has one pair more in map.
EndsAt(d) ==
  \A e \in Cell, M \in SUBSET Cell : Cardinality(Cell \ M) < d => eprint[d][e][M].ok
LEMMA PrintingEnds ==
  ASSUME PrinterAssumption, heap \in Heaps
  PROVE  \A d \in Nat : d <= Deepest => EndsAt(d)
<1> DEFINE G == {d \in Nat : d <= Deepest => EndsAt(d)}
<1>1. \A M : IsFiniteSet(Cell \ M) /\ Cardinality(Cell \ M) \in Nat
  <2> SUFFICES ASSUME NEW M PROVE IsFiniteSet(Cell \ M) /\ Cardinality(Cell \ M) \in Nat
    OBVIOUS
  <2>1. (Cell \ M) \in SUBSET Cell /\ IsFiniteSet(Cell)
    BY DEF PrinterAssumption
  <2>2. IsFiniteSet(Cell \ M)
    BY <2>1, FS_Subset
  <2> QED
    BY <2>2, FS_CardinalityType
<1>2. 0 \in G
  <2>1. \A M : ~(Cardinality(Cell \ M) < 0)
    BY <1>1
  <2> QED
    BY <2>1 DEF EndsAt
<1>3. ASSUME NEW d \in Nat, d \in G  PROVE d + 1 \in G
  <2> SUFFICES ASSUME d + 1 <= Deepest PROVE EndsAt(d + 1)
    OBVIOUS
  <2> SUFFICES ASSUME NEW e \in Cell, NEW M \in SUBSET Cell, Cardinality(Cell \ M) < d + 1
               PROVE  eprint[d + 1][e][M].ok
    BY DEF EndsAt
  <2>1. ASSUME NEW x, NEW N \in SUBSET Cell, M \subseteq N
        PROVE  HalfEnds(eprint[d], x, N)
    <3> SUFFICES ASSUME x \in Cell, x \notin N PROVE eprint[d][x][N \cup {x}].ok
      BY DEF HalfEnds, Adds
    <3>1. PICK K \in SUBSET Cell : K = N \cup {x}
      OBVIOUS
    <3>2. Cardinality(Cell \ K) = Cardinality(Cell \ N) - 1
      <4>1. PICK C : C = Cell \ N /\ IsFiniteSet(C)
        BY <1>1
      <4>2. C \ {x} = Cell \ K /\ x \in C
        BY <3>1, <4>1
      <4>3. Cardinality(C \ {x}) = Cardinality(C) - 1
        BY <4>1, <4>2, FS_RemoveElement
      <4> QED
        BY <4>1, <4>2, <4>3
    <3>3. Cardinality(Cell \ N) <= Cardinality(Cell \ M)
      <4>1. (Cell \ N) \in SUBSET (Cell \ M)
        BY <2>1
      <4> QED
        BY <1>1, <4>1, FS_Subset
    <3>4. Cardinality(Cell \ K) < d
      <4>1. PICK k \in Nat, n \in Nat, m \in Nat :
              k = Cardinality(Cell \ K) /\ n = Cardinality(Cell \ N) /\ m = Cardinality(Cell \ M)
        BY <1>1
      <4> QED
        BY <3>2, <3>3, <4>1
    <3>5. d <= Deepest
      BY DeepestIs
    <3> QED
      BY <1>3, <3>1, <3>4, <3>5 DEF EndsAt
  <2>2. PICK x, y, N : x = heap[e].car /\ y = heap[e].cdr /\ N = With(x, M)
    OBVIOUS
  <2>3. N \in SUBSET Cell /\ M \subseteq N
    BY <2>2 DEF With, Adds
  <2>4. HalfEnds(eprint[d], x, M) /\ HalfEnds(eprint[d], y, N)
    BY <2>1, <2>3
  <2>5. Level(d, e, M, x, y, N)
    BY <2>2, LevelIs
  <2> QED
    BY <2>4, <2>5 DEF Level
<1> HIDE DEF G
<1>4. \A d \in Nat : d \in G
  BY <1>2, <1>3, AllNaturals
<1> QED
  BY <1>4 DEF G

---------------------------------------------------------------------------
\* What can be reached.
LEMMA ReachIs ==
  ASSUME NEW S \in SUBSET Cell
  PROVE  /\ Reach(S) \in SUBSET Cell /\ S \subseteq Reach(S) /\ Closed(Reach(S))
         /\ \A T \in SUBSET Cell : S \subseteq T /\ Closed(T) => Reach(S) \subseteq T
<1>1. \A c : Kids(c) \subseteq Cell
  BY DEF Kids
<1>2. Closed(Reach(S))
  <2> SUFFICES ASSUME NEW c \in Reach(S), NEW k \in Kids(c),
                      NEW T \in SUBSET Cell, S \subseteq T, Closed(T)
               PROVE  k \in T
    BY <1>1 DEF Closed, Reach
  <2>1. c \in T
    BY DEF Reach
  <2> QED
    BY <2>1 DEF Closed
<1> QED
  BY <1>2 DEF Reach

LEMMA ReachMore ==
  ASSUME NEW S \in SUBSET Cell, NEW T \in SUBSET Cell, S \subseteq Reach(T)
  PROVE  Reach(S) \subseteq Reach(T)
BY ReachIs

LEMMA ReachFromKids ==
  ASSUME NEW e, NEW c \in Reach(Kids(e))
  PROVE  \E z \in Kids(e) : c = z \/ c \in Reach(Kids(z))
<1>1. \A z : Kids(z) \in SUBSET Cell
  BY DEF Kids
<1>2. PICK T : T = {a \in Cell : \E z \in Kids(e) : a = z \/ a \in Reach(Kids(z))}
  OBVIOUS
<1>3. T \in SUBSET Cell /\ Kids(e) \subseteq T
  BY <1>1, <1>2
<1>4. Closed(T)
  <2> SUFFICES ASSUME NEW a \in T, NEW k \in Kids(a) PROVE k \in T
    BY DEF Closed
  <2>1. PICK z \in Kids(e) : a = z \/ a \in Reach(Kids(z))
    BY <1>2
  <2>2. k \in Reach(Kids(z))
    BY <1>1, <2>1, ReachIs DEF Closed
  <2> QED
    BY <1>1, <1>2, <2>2
<1> QED
  BY <1>1, <1>2, <1>3, <1>4, ReachIs

LEMMA ReachFromParent ==
  ASSUME NEW S \in SUBSET Cell, NEW c \in Reach(S)
  PROVE  c \in S \/ \E p \in Reach(S) : c \in Kids(p)
<1>1. \A z : Kids(z) \in SUBSET Cell
  BY DEF Kids
<1>2. PICK T : T = {a \in Reach(S) : a \in S \/ \E p \in Reach(S) : a \in Kids(p)}
  OBVIOUS
<1>3. T \in SUBSET Cell /\ S \subseteq T
  BY <1>2, ReachIs
<1>4. Closed(T)
  <2> SUFFICES ASSUME NEW a \in T, NEW k \in Kids(a) PROVE k \in T
    BY DEF Closed
  <2>1. k \in Reach(S)
    BY <1>2, ReachIs DEF Closed
  <2> QED
    BY <1>2, <2>1
<1> QED
  BY <1>2, <1>3, <1>4, ReachIs

\* If nothing is reported, nothing below is in map, and nothing below is on a cycle.
Unwound(e, M) == \A c \in Reach(Kids(e)) : c \notin M /\ c \notin Reach(Kids(c))
SeesAt(d) ==
  \A e \in Cell, M \in SUBSET Cell :
    eprint[d][e][M].ok /\ ~Reports(eprint[d][e][M].out) => Unwound(e, M)
LEMMA PrintingSees ==
  ASSUME PrinterAssumption, heap \in Heaps
  PROVE  \A d \in Nat : d <= Deepest => SeesAt(d)
<1> DEFINE G == {d \in Nat : d <= Deepest => SeesAt(d)}
<1>1. 0 \in G
  BY BottomIs DEF SeesAt
<1>2. ASSUME NEW d \in Nat, d \in G  PROVE d + 1 \in G
  <2> SUFFICES ASSUME d + 1 <= Deepest PROVE SeesAt(d + 1)
    OBVIOUS
  <2>1. SeesAt(d)
    BY <1>2, DeepestIs
  <2> SUFFICES ASSUME NEW e \in Cell, NEW M \in SUBSET Cell,
                      eprint[d + 1][e][M].ok, ~Reports(eprint[d + 1][e][M].out)
               PROVE  Unwound(e, M)
    BY DEF SeesAt
  <2>2. PICK x, y, N : x = heap[e].car /\ y = heap[e].cdr /\ N = With(x, M)
    OBVIOUS
  <2>3. N \in SUBSET Cell /\ M \subseteq N
    BY <2>2 DEF With, Adds
  <2>4. Level(d, e, M, x, y, N)
    BY <2>2, LevelIs
  <2>5. /\ HalfEnds(eprint[d], x, M) /\ HalfEnds(eprint[d], y, N)
        /\ ~HalfReports(eprint[d], x, M) /\ ~HalfReports(eprint[d], y, N)
    BY <2>4 DEF Level
  <2>6. ASSUME NEW z \in Cell, NEW K \in SUBSET Cell, M \subseteq K,
               HalfEnds(eprint[d], z, K), ~HalfReports(eprint[d], z, K)
        PROVE  z \notin M /\ Unwound(z, M \cup {z})
    <3>1. PICK H \in SUBSET Cell : H = K \cup {z}
      OBVIOUS
    <3>2. z \notin K /\ eprint[d][z][H].ok /\ ~Reports(eprint[d][z][H].out)
      BY <2>6, <3>1 DEF HalfEnds, HalfReports, Adds
    <3>3. Unwound(z, H)
      BY <2>1, <3>2 DEF SeesAt
    <3> QED
      BY <2>6, <3>1, <3>2, <3>3 DEF Unwound
  <2>7. ASSUME NEW z \in Kids(e)  PROVE z \notin M /\ Unwound(z, M \cup {z})
    <3>1. z \in Cell /\ (z = x \/ z = y)
      BY <2>2 DEF Kids
    <3> QED
      BY <2>3, <2>5, <2>6, <3>1
  <2>8. ASSUME NEW c \in Reach(Kids(e))  PROVE c \notin M /\ c \notin Reach(Kids(c))
    <3>1. PICK z \in Kids(e) : c = z \/ c \in Reach(Kids(z))
      BY ReachFromKids
    <3> QED
      BY <2>7, <3>1 DEF Unwound
  <2> QED
    BY <2>8 DEF Unwound
<1> HIDE DEF G
<1>3. \A d \in Nat : d \in G
  BY <1>1, <1>2, AllNaturals
<1> QED
  BY <1>3 DEF G

LEMMA RootIs ==
  ASSUME PrinterAssumption
  PROVE  Root \in Cell /\ {Root} \in SUBSET Cell /\ Root \in Reach({Root})
<1>1. Root \in Cell
  BY DEF Root, PrinterAssumption
<1> QED
  BY <1>1, ReachIs

\* In a tree nothing below a pair is in map, and nothing is reported.
QuietAt(d) ==
  \A e \in Reach({Root}), M \in SUBSET Cell :
    Reach(Kids(e)) \cap M = {} => ~Reports(eprint[d][e][M].out)
LEMMA PrintingQuiet ==
  ASSUME PrinterAssumption, heap \in Heaps, IsTree
  PROVE  \A d \in Nat : d <= Deepest => QuietAt(d)
<1> DEFINE G == {d \in Nat : d <= Deepest => QuietAt(d)}
<1>1. /\ {Root} \in SUBSET Cell /\ Reach({Root}) \in SUBSET Cell /\ Closed(Reach({Root}))
      /\ \A z : Kids(z) \in SUBSET Cell
  BY RootIs, ReachIs DEF Kids
<1>2. 0 \in G
  BY <1>1, BottomIs DEF QuietAt
<1>3. ASSUME NEW d \in Nat, d \in G  PROVE d + 1 \in G
  <2> SUFFICES ASSUME d + 1 <= Deepest PROVE QuietAt(d + 1)
    OBVIOUS
  <2>1. QuietAt(d)
    BY <1>3, DeepestIs
  <2> SUFFICES ASSUME NEW e \in Reach({Root}), NEW M \in SUBSET Cell, Reach(Kids(e)) \cap M = {}
               PROVE  ~Reports(eprint[d + 1][e][M].out)
    BY DEF QuietAt
  <2>2. PICK x, y, N : x = heap[e].car /\ y = heap[e].cdr /\ N = With(x, M)
    OBVIOUS
  <2>3. N \in SUBSET Cell /\ e \in Cell
    BY <1>1, <2>2 DEF With, Adds
  <2>4. /\ Kids(e) \subseteq Reach(Kids(e)) /\ Closed(Reach(Kids(e)))
        /\ Kids(e) \subseteq Reach({Root}) /\ Reach(Kids(e)) \subseteq Reach({Root})
    BY <1>1, ReachIs, ReachMore DEF Closed
  <2>5. ASSUME NEW z \in Kids(e)
        PROVE  /\ z \in Cell /\ z \in Reach({Root}) /\ z \notin M /\ z \notin Reach(Kids(z))
               /\ Reach(Kids(z)) \subseteq Reach(Kids(e))
    <3>1. z \in Cell /\ z \in Reach({Root}) /\ z \notin M
      BY <1>1, <2>4
    <3>2. z \notin Reach(Kids(z))
      BY <3>1 DEF IsTree, Cyclic
    <3>3. Kids(z) \subseteq Reach(Kids(e))
      BY <2>4 DEF Closed
    <3> QED
      BY <1>1, <3>1, <3>2, <3>3, ReachMore
  <2>6. ASSUME NEW z \in Kids(e), NEW K \in SUBSET Cell, z \notin K, Reach(Kids(z)) \cap K = {}
        PROVE  ~HalfReports(eprint[d], z, K)
    <3>1. PICK H \in SUBSET Cell : H = K \cup {z}
      BY <2>5
    <3>2. Reach(Kids(z)) \cap H = {}
      BY <2>5, <2>6, <3>1
    <3>3. ~Reports(eprint[d][z][H].out)
      BY <2>1, <2>5, <3>2 DEF QuietAt
    <3> QED
      BY <2>6, <3>1, <3>3 DEF HalfReports
  <2>7. ~HalfReports(eprint[d], x, M)
    <3>1. x \in Cell => x \in Kids(e)
      BY <2>2 DEF Kids
    <3>2. x \in Cell => x \notin M /\ Reach(Kids(x)) \cap M = {}
      BY <2>5, <3>1
    <3> QED
      BY <2>6, <3>1, <3>2 DEF HalfReports
  <2>8. ~HalfReports(eprint[d], y, N)
    <3> SUFFICES ASSUME y \in Cell PROVE ~HalfReports(eprint[d], y, N)
      BY DEF HalfReports
    <3>1. y \in Kids(e)
      BY <2>2 DEF Kids
    <3>2. y \notin M /\ Reach(Kids(y)) \cap M = {}
      BY <2>5, <3>1
    <3>3. ASSUME x \in Cell  PROVE x # y /\ x \notin Reach(Kids(y))
      <4>1. x \in Kids(e) /\ x # y
        BY <2>2, <3>3 DEF Kids, IsTree
      <4>2. ASSUME x \in Reach(Kids(y))  PROVE FALSE
        <5>1. PICK p \in {y} \cup Reach(Kids(y)) : x \in Kids(p)
          BY <1>1, <4>2, ReachFromParent
        <5>2. p \in Reach(Kids(e)) /\ p \in Reach({Root})
          BY <2>4, <2>5, <3>1, <5>1
        <5>3. p = e
          BY <4>1, <5>1, <5>2 DEF IsTree
        <5>4. e \notin Reach(Kids(e))
          BY DEF IsTree, Cyclic
        <5> QED
          BY <5>2, <5>3, <5>4
      <4> QED
        BY <4>1, <4>2
    <3>4. y \notin N /\ Reach(Kids(y)) \cap N = {}
      BY <2>2, <3>2, <3>3 DEF With, Adds
    <3> QED
      BY <2>3, <2>6, <3>1, <3>4
  <2>9. Level(d, e, M, x, y, N)
    BY <2>2, <2>3, LevelIs
  <2> QED
    BY <2>7, <2>8, <2>9 DEF Level
<1> HIDE DEF G
<1>4. \A d \in Nat : d \in G
  BY <1>2, <1>3, AllNaturals
<1> QED
  BY <1>4 DEF G

\* Whatever the pairs refer to, printing ends with map empty; cycles are reported, and
\* in a tree nothing is.
LEMMA TextIs ==
  ASSUME PrinterAssumption, heap \in Heaps
  PROVE  LET r == ylechain_print(Root)
         IN  /\ r.ok /\ r.map = {}
             /\ Cyclic => Reports(r.out)
             /\ IsTree => ~Reports(r.out)
<1>1. PICK t : t = eprint[Deepest][Root][{}]
  OBVIOUS
<1>2. /\ Root \in Cell /\ {Root} \in SUBSET Cell /\ {} \in SUBSET Cell
      /\ Deepest \in Nat /\ Deepest \in 0..Deepest /\ Deepest <= Deepest
  BY RootIs, DeepestIs
<1>3. eprint[Deepest] \in Prints /\ KeepsMap(eprint[Deepest])
  BY <1>2, EprintIs DEF Kept
<1>4. t \in Texts /\ t.map = {}
  BY <1>1, <1>2, <1>3 DEF Prints, KeepsMap
<1>5. t.ok
  <2>1. EndsAt(Deepest)
    BY <1>2, PrintingEnds
  <2>2. Cell \ {} = Cell /\ Cardinality(Cell) < Deepest
    BY DeepestIs
  <2> QED
    BY <1>1, <1>2, <2>1, <2>2 DEF EndsAt
<1>6. PICK w \in Seq(Words) : w = t.out
  BY <1>4 DEF Texts
<1>7. /\ <<"(">> \in Seq(Words) /\ ~Reports(<<"(">>) /\ <<")">> \in Seq(Words) /\ ~Reports(<<")">>)
  BY DEF Words, Reports, Report
<1>8. PICK v \in Seq(Words) : v = <<"(">> \o w /\ (Reports(v) <=> Reports(w))
  BY <1>7, JoinReports
<1>9. PICK u \in Seq(Words) : u = v \o <<")">> /\ (Reports(u) <=> Reports(w))
  BY <1>7, <1>8, JoinReports
<1>10. ylechain_print(Root) = [t EXCEPT !.out = u]
  BY <1>1, <1>2, <1>6, <1>8, <1>9 DEF ylechain_print, isAtom, PrinterAssumption
<1>11. /\ ylechain_print(Root).ok = t.ok /\ ylechain_print(Root).map = {}
       /\ ylechain_print(Root).out = u
  BY <1>4, <1>10 DEF Texts
<1>12. ASSUME Cyclic, ~Reports(w)  PROVE FALSE
  <2>1. SeesAt(Deepest)
    BY <1>2, PrintingSees
  <2>2. Unwound(Root, {})
    BY <1>1, <1>2, <1>5, <1>6, <1>12, <2>1 DEF SeesAt
  <2>3. PICK c \in Reach({Root}) : c \in Reach(Kids(c))
    BY <1>12 DEF Cyclic
  <2>4. PICK T : T = {Root} \cup Reach(Kids(Root))
    OBVIOUS
  <2>5. Kids(Root) \in SUBSET Cell
    BY DEF Kids
  <2>6. T \in SUBSET Cell /\ Closed(T)
    BY <1>2, <2>4, <2>5, ReachIs DEF Closed
  <2>7. c \in T
    BY <1>2, <2>4, <2>6, ReachIs
  <2> QED
    BY <2>2, <2>3, <2>4, <2>7 DEF Unwound
<1>13. ASSUME IsTree  PROVE ~Reports(w)
  <2>1. QuietAt(Deepest)
    BY <1>2, <1>13, PrintingQuiet
  <2> QED
    BY <1>1, <1>2, <1>6, <2>1, RootIs DEF QuietAt
<1> QED
  BY <1>5, <1>9, <1>11, <1>12, <1>13

\* Of any graph of finitely many pairs, garbage among them, the printing ends and leaves
\* map empty; a cycle is reported, and in a tree nothing is (lisp.c:476-577).
THEOREM EverythingPrints == ASSUME PrinterAssumption PROVE PrinterSpec => []PrintsEverything
<1>1. PrinterInit => PrinterInv
  <2>1. Garbage \in [car : CarCdr, cdr : CarCdr]
    BY DEF Garbage, CarCdr
  <2> QED
    BY <2>1 DEF PrinterInit, PrinterInv
<1>2. PrinterInv /\ [PrinterNext]_prvars => PrinterInv'
  <2> SUFFICES ASSUME PrinterInv, [PrinterNext]_prvars PROVE PrinterInv'
    OBVIOUS
  <2>1. CASE PrintRoot
    <3>1. heap' = heap /\ printed' = ylechain_print(Root).out
      BY <2>1 DEF PrintRoot
    <3>2. eprint' = eprint
      BY <3>1 DEF eprint, Both
    <3>3. ylechain_print(Root)' = ylechain_print(Root)
      BY <3>2 DEF ylechain_print
    <3> QED
      BY <3>1, <3>3 DEF PrinterInv
  <2>2. ASSUME NEW h \in [Cell -> [car : CarCdr, cdr : CarCdr]], PrintHeap(h)  PROVE PrinterInv'
    BY <2>2 DEF PrintHeap, PrinterInv
  <2>3. CASE UNCHANGED prvars
    <3>1. heap' = heap /\ printed' = printed
      BY <2>3 DEF prvars
    <3>2. eprint' = eprint
      BY <3>1 DEF eprint, Both
    <3>3. ylechain_print(Root)' = ylechain_print(Root)
      BY <3>2 DEF ylechain_print
    <3> QED
      BY <3>1, <3>3 DEF PrinterInv
  <2> QED
    BY <2>1, <2>2, <2>3 DEF PrinterNext
<1>3. PrinterInv => PrintsEverything
  <2> SUFFICES ASSUME PrinterInv, printed # <<>> PROVE PrintsEverything
    BY DEF PrintsEverything, PrintEnds, CycleReported
  <2>1. heap \in Heaps /\ printed = ylechain_print(Root).out
    BY DEF PrinterInv, Heaps
  <2> QED
    BY <2>1, TextIs DEF PrintsEverything, PrintEnds, CycleReported
<1> QED
  BY <1>1, <1>2, <1>3, PTL DEF PrinterSpec

---------------------------------------------------------------------------
(* The reader.                                                             *)

\* A sequence over whatever it holds, and its changes.
LEMMA SeqOfItems ==
  ASSUME NEW S, NEW s \in Seq(S)
  PROVE  IsSequence(s)
BY DEF IsSequence

LEMMA AppendAny ==
  ASSUME NEW S, NEW s \in Seq(S), NEW e
  PROVE  IsSequence(Append(s, e)) /\ Len(Append(s, e)) = Len(s) + 1
<1>1. PICK T : T = S \cup {e}
  OBVIOUS
<1>2. s \in Seq(T) /\ e \in T
  BY <1>1
<1>3. Append(s, e) \in Seq(T) /\ Len(Append(s, e)) = Len(s) + 1
  BY <1>2, AppendProperties
<1> QED
  BY <1>3, SeqOfItems

LEMMA BelowIs ==
  ASSUME NEW S, NEW s \in Seq(S), s # <<>>
  PROVE  /\ Below(s) \in Seq(S)
         /\ Len(Below(s)) = Len(s) - 1 /\ Len(s) \in Nat \ {0}
         /\ \A i \in 1..Len(s) - 1 : Below(s)[i] = s[i]
<1>1. PICK n \in Nat : n = Len(s) - 1
  BY EmptySeq
<1>2. PICK m \in Nat \ {0} : m = 1
  OBVIOUS
<1>3. n <= Len(s) /\ m <= n + 1
  BY <1>1, <1>2
<1>4. /\ SubSeq(s, m, n) \in Seq(S) /\ Len(SubSeq(s, m, n)) = n - m + 1
      /\ \A i \in 1..n - m + 1 : SubSeq(s, m, n)[i] = s[m + i - 1]
  BY <1>3, PartOf
<1>5. Below(s) = SubSeq(s, m, n)
  BY <1>1, <1>2 DEF Below
<1>6. n - m + 1 = n /\ \A i \in 1..n : m + i - 1 = i
  BY <1>2
<1>7. Below(s) \in Seq(S) /\ Len(Below(s)) = n /\ \A i \in 1..n : Below(s)[i] = s[i]
  BY <1>4, <1>5, <1>6
<1> QED
  BY <1>1, <1>7

\* In a stack that fits, the automata with a list are the lowest.
LEMMA NestingCounts ==
  ASSUME NEW s \in Seq(Automata), s # <<>>, Fits(s)
  PROVE  /\ Nesting(s) \in Nat \ {0}
         /\ Cardinality({i \in 1 .. Len(s) : Nests(s[i])}) = Nesting(s)
<1>1. PICK n \in Nat \ {0} : n = Len(s) /\ n \in 1..n
  BY EmptySeq
<1>2. PICK t \in Automata : t = s[Len(s)] /\ t = s[n]
  BY <1>1
<1>3. CASE Nests(t)
  <2>1. Nesting(s) = n
    BY <1>1, <1>2, <1>3 DEF Nesting
  <2>2. ASSUME NEW i \in 1..n  PROVE Nests(s[i])
    <3>1. s[i] \in {"symbol", "dquote"} => i # n
      BY <1>2, <1>3 DEF Nests
    <3>2. i + 1 = n => s[i + 1] # "escape"
      BY <1>2, <1>3 DEF Nests
    <3>3. i + 1 < n => s[i + 1] # "escape"
      BY <1>1 DEF Fits
    <3> QED
      BY <1>1, <1>2, <1>3, <3>1, <3>2, <3>3 DEF Fits
  <2>3. {i \in 1 .. n : Nests(s[i])} = 1..n
    BY <2>2
  <2>4. Cardinality(1..n) = n
    BY FS_Interval
  <2> QED
    BY <1>1, <2>1, <2>3, <2>4
<1>4. CASE ~Nests(t) /\ t # "escape"
  <2>1. PICK m \in Nat : m = n - 1 /\ Nesting(s) = m
    BY <1>1, <1>2, <1>4 DEF Nesting
  <2>2. ASSUME NEW i \in 1..m  PROVE Nests(s[i])
    <3>1. i \in 1..n /\ i < n /\ i + 1 \in 1..n
      BY <2>1
    <3>2. s[i + 1] = "escape" => i + 1 = n
      BY <1>1, <3>1 DEF Fits
    <3> QED
      BY <1>1, <1>2, <1>4, <3>1, <3>2 DEF Fits
  <2>3. {i \in 1 .. n : Nests(s[i])} = 1..m
    BY <1>2, <1>4, <2>1, <2>2
  <2>4. Cardinality(1..m) = m
    BY FS_Interval
  <2>5. m # 0
    <3>1. n = 1 => s[n] = "init"
      BY <1>1 DEF Fits
    <3> QED
      BY <1>2, <1>4, <2>1, <3>1 DEF Nests
  <2> QED
    BY <1>1, <2>1, <2>3, <2>4, <2>5
<1>5. CASE t = "escape"
  <2>1. n # 1
    BY <1>1, <1>2, <1>5 DEF Fits
  <2>2. PICK m \in Nat : m = n - 2 /\ Nesting(s) = m /\ n - 1 = m + 1
    BY <1>1, <1>2, <1>5, <2>1 DEF Nesting, Nests
  <2>3. s[m + 1] \in {"symbol", "dquote"}
    <3>1. s[n - 1] \in {"symbol", "dquote"}
      BY <1>1, <1>2, <1>5 DEF Fits
    <3> QED
      BY <2>2, <3>1
  <2>4. ASSUME NEW i \in 1..m  PROVE Nests(s[i])
    <3>1. i \in 1..n /\ i < n /\ i + 1 \in 1..n /\ i + 1 # n
      BY <2>2
    <3>2. s[i + 1] # "escape"
      BY <1>1, <3>1 DEF Fits
    <3> QED
      BY <1>1, <3>1, <3>2 DEF Fits
  <2>5. \A i \in 1..n : i \in 1..m \/ i = m + 1 \/ i = n
    BY <2>2
  <2>6. ~Nests(s[m + 1]) /\ ~Nests(s[n]) /\ \A i \in 1..m : i \in 1..n
    BY <1>2, <1>5, <2>2, <2>3 DEF Nests
  <2>7. {i \in 1 .. n : Nests(s[i])} = 1..m
    BY <2>4, <2>5, <2>6
  <2>8. Cardinality(1..m) = m
    BY FS_Interval
  <2>9. m # 0
    <3>1. n = 2 => s[n - 1] = "init"
      BY <1>1 DEF Fits
    <3> QED
      BY <2>2, <2>3, <3>1
  <2> QED
    BY <1>1, <2>2, <2>7, <2>8, <2>9
<1> QED
  BY <1>3, <1>4, <1>5

LEMMA NextChars ==
  ASSUME NEW c
  PROVE  /\ \A s \in {"init", "list", "squote"} :
              next_char(s, c) \in {"fail", "comment", "nochg", "exit", "dquote", "squote", "escape", "list", "symbol"}
         /\ next_char("init", c) # "exit"
         /\ \A s \in {"symbol", "dquote"} : next_char(s, c) \in {"escape", "exit", "nochg"}
         /\ next_char("comment", c) \in {"exit", "nochg"}
         /\ next_char("escape", c) \in {"exit", "fail"}
<1>1. Opens(c) \in {"dquote", "squote", "escape", "list", "symbol"}
  BY DEF Opens
<1>2. \A s \in {"init", "list", "squote"} :
        next_char(s, c) \in {"fail", "comment", "nochg", "exit", "dquote", "squote", "escape", "list", "symbol"}
  BY <1>1 DEF next_char, init_next, list_next, squote_next
<1>3. next_char("init", c) # "exit"
  BY <1>1 DEF next_char, init_next
<1>4. \A s \in {"symbol", "dquote"} : next_char(s, c) \in {"escape", "exit", "nochg"}
  BY DEF next_char, symbol_next, dquote_next
<1>5. next_char("comment", c) \in {"exit", "nochg"} /\ next_char("escape", c) \in {"exit", "fail"}
  BY DEF next_char, comment_next, escape_next
<1> QED
  BY <1>2, <1>3, <1>4, <1>5

\* Pushing on a stack that fits, and popping from it.
LEMMA PushFits ==
  ASSUME NEW s \in Seq(Automata), s # <<>>, Fits(s), Nests(s[Len(s)]),
         NEW a \in {"list", "squote", "symbol", "dquote", "comment"}, NEW w, w = Append(s, a)
  PROVE  /\ w \in Seq(Automata) /\ w # <<>> /\ Fits(w) /\ w[Len(w)] = a
         /\ Nesting(w) = Nesting(s) + (IF a \in {"list", "squote"} THEN 1 ELSE 0)
<1>1. PICK n \in Nat \ {0} : n = Len(s)
  BY EmptySeq
<1>2. /\ w \in Seq(Automata) /\ Len(w) = n + 1 /\ w[n + 1] = a
      /\ \A i \in 1..n : w[i] = s[i] /\ i \in 1..n + 1
  BY <1>1, AppendProperties DEF Automata
<1>3. Nests(s[n]) /\ a # "init" /\ a # "escape" /\ (Nests(a) <=> a \in {"list", "squote"})
  BY <1>1 DEF Nests
<1>4. ASSUME NEW i \in 1..n
      PROVE  /\ w[i] = "init" <=> i = 1
             /\ w[i] # "escape" /\ Nests(w[i])
  <2>1. Nests(s[i])
    <3>1. CASE i = n
      BY <1>3, <3>1
    <3>2. CASE i # n
      <4>1. i < n /\ i + 1 \in 1..n
        BY <3>2
      <4>2. s[i + 1] # "escape"
        <5>1. i + 1 = n => s[i + 1] # "escape"
          BY <1>3 DEF Nests
        <5> QED
          BY <1>1, <4>1, <5>1 DEF Fits
      <4> QED
        BY <1>1, <4>1, <4>2 DEF Fits
    <3> QED
      BY <3>1, <3>2
  <2>2. s[i] = "init" <=> i = 1
    BY <1>1 DEF Fits
  <2> QED
    BY <1>2, <2>1, <2>2 DEF Nests
<1>5. \A i \in 1..n + 1 : i \in 1..n \/ (i = n + 1 /\ i # 1)
  OBVIOUS
<1>6. Fits(w)
  <2>1. ASSUME NEW i \in 1..n + 1
        PROVE  /\ w[i] = "init" <=> i = 1
               /\ w[i] # "escape"
               /\ i < n + 1 => Nests(w[i])
    <3>1. CASE i = n + 1
      BY <1>2, <1>3, <1>5, <3>1
    <3>2. CASE i \in 1..n
      BY <1>4, <3>2
    <3> QED
      BY <1>5, <3>1, <3>2
  <2>2. PICK k \in Nat : k = n + 1 /\ Len(w) = k
    BY <1>2
  <2>3. ASSUME NEW i \in 1..k
        PROVE  /\ w[i] = "init" <=> i = 1
               /\ w[i] = "escape" => i = k /\ w[i - 1] \in {"symbol", "dquote"}
               /\ i < k => Nests(w[i]) \/ (w[i] \in {"symbol", "dquote"} /\ w[i + 1] = "escape")
    <3>1. i \in 1..n + 1
      BY <2>2
    <3>2. (w[i] = "init" <=> i = 1) /\ w[i] # "escape" /\ (i < k => Nests(w[i]))
      BY <2>1, <2>2, <3>1
    <3> QED
      BY <3>2
  <2> QED
    BY <2>2, <2>3 DEF Fits
<1>7. Nesting(s) = n /\ Nesting(w) = n + 1 - (IF Nests(a) THEN 0 ELSE 1)
  BY <1>1, <1>2, <1>3 DEF Nesting
<1>8. w # <<>>
  BY <1>2, EmptySeq
<1> QED
  BY <1>2, <1>3, <1>6, <1>7, <1>8

LEMMA EscapeFits ==
  ASSUME NEW s \in Seq(Automata), s # <<>>, Fits(s), s[Len(s)] \in {"symbol", "dquote"},
         NEW w, w = Append(s, "escape")
  PROVE  w \in Seq(Automata) /\ w # <<>> /\ Fits(w) /\ Nesting(w) = Nesting(s)
<1>1. PICK n \in Nat \ {0} : n = Len(s)
  BY EmptySeq
<1>2. /\ w \in Seq(Automata) /\ Len(w) = n + 1 /\ w[n + 1] = "escape"
      /\ \A i \in 1..n : w[i] = s[i]
  BY <1>1, AppendProperties DEF Automata
<1>3. s[n] \in {"symbol", "dquote"} /\ n # 1
  BY <1>1 DEF Fits
<1>4. ASSUME NEW i \in 1..n
      PROVE  /\ w[i] = "init" <=> i = 1
             /\ w[i] # "escape"
             /\ Nests(w[i]) \/ (w[i] \in {"symbol", "dquote"} /\ w[i + 1] = "escape")
  <2>1. s[i] = "init" <=> i = 1
    BY <1>1 DEF Fits
  <2>2. CASE i = n
    BY <1>2, <1>3, <2>1, <2>2
  <2>3. CASE i # n
    <3>1. i < n /\ i + 1 \in 1..n
      BY <2>3
    <3>2. s[i] # "escape" /\ s[i + 1] = w[i + 1] /\ w[i] = s[i]
      BY <1>1, <1>2, <2>3, <3>1 DEF Fits
    <3>3. Nests(s[i]) \/ (s[i] \in {"symbol", "dquote"} /\ s[i + 1] = "escape")
      BY <1>1, <3>1 DEF Fits
    <3> QED
      BY <2>1, <3>2, <3>3
  <2> QED
    BY <2>2, <2>3
<1>5. \A i \in 1..n + 1 : i \in 1..n \/ (i = n + 1 /\ i # 1)
  OBVIOUS
<1>6. w[n + 1 - 1] \in {"symbol", "dquote"}
  <2>1. n + 1 - 1 = n /\ n \in 1..n
    OBVIOUS
  <2> QED
    BY <1>2, <1>3, <2>1
<1>7. Fits(w)
  BY <1>2, <1>4, <1>5, <1>6 DEF Fits
<1>8. Nesting(s) = n - 1 /\ Nesting(w) = n + 1 - 2
  BY <1>1, <1>2, <1>3 DEF Nesting, Nests
<1>9. w # <<>>
  BY <1>2, EmptySeq
<1> QED
  BY <1>2, <1>7, <1>8, <1>9

LEMMA PopFits ==
  ASSUME NEW s \in Seq(Automata), s # <<>>, Fits(s), s[Len(s)] # "init", NEW w, w = Below(s)
  PROVE  /\ w \in Seq(Automata) /\ w # <<>> /\ Fits(w)
         /\ Len(w) = Len(s) - 1 /\ w[Len(w)] = s[Len(s) - 1]
         /\ Nesting(w) = Nesting(s) - (IF s[Len(s)] \in {"list", "squote"} THEN 1 ELSE 0)
         /\ s[Len(s) - 1] = "init" => Len(w) = 1 /\ Nesting(w) = 1 /\ s[Len(s)] # "escape"
<1>1. PICK n \in Nat \ {0} : n = Len(s) /\ n \in 1..n
  BY EmptySeq
<1>2. n # 1
  BY <1>1 DEF Fits
<1>3. PICK m \in Nat \ {0} : m = n - 1 /\ m + 1 = n /\ m < n /\ m \in 1..m /\ m \in 1..n
  BY <1>2
<1>4. w \in Seq(Automata) /\ Len(w) = m /\ \A i \in 1..m : w[i] = s[i]
  <2>1. w \in Seq(Automata) /\ Len(w) = Len(s) - 1 /\ \A i \in 1..Len(s) - 1 : w[i] = s[i]
    BY BelowIs
  <2> QED
    BY <1>1, <1>3, <2>1
<1>5. ASSUME NEW i \in 1..m
      PROVE  /\ i \in 1..n /\ i < n /\ (s[i] = "init" <=> i = 1) /\ s[i] # "escape"
             /\ Nests(s[i]) \/ (s[i] \in {"symbol", "dquote"} /\ s[i + 1] = "escape")
  <2>1. i \in 1..n /\ i < n
    BY <1>3
  <2> QED
    BY <1>1, <2>1 DEF Fits
<1>6. \A i \in 1..m : i < m => i + 1 \in 1..m
  OBVIOUS
<1>7. Fits(w)
  <2>1. SUFFICES ASSUME NEW i \in 1..m
                 PROVE  /\ w[i] = "init" <=> i = 1
                        /\ w[i] = "escape" => i = m /\ w[i - 1] \in {"symbol", "dquote"}
                        /\ i < m => \/ Nests(w[i])
                                    \/ w[i] \in {"symbol", "dquote"} /\ w[i + 1] = "escape"
    BY <1>4 DEF Fits
  <2>2. w[i] = s[i] /\ (i < m => w[i + 1] = s[i + 1])
    BY <1>4, <1>6
  <2> QED
    BY <1>5, <2>2
<1>8. w # <<>>
  BY <1>4, EmptySeq
<1>9. PICK t \in Automata, b \in Automata : t = s[n] /\ b = s[m] /\ w[m] = b
  BY <1>1, <1>3, <1>4
<1>10. b # "escape" /\ (Nests(b) \/ (b \in {"symbol", "dquote"} /\ t = "escape"))
  BY <1>3, <1>5, <1>9
<1>11. t = "escape" => b \in {"symbol", "dquote"}
  BY <1>1, <1>3, <1>9 DEF Fits
<1>12. Nesting(s) = n - (IF Nests(t) THEN 0 ELSE IF t = "escape" THEN 2 ELSE 1)
  BY <1>1, <1>9 DEF Nesting
<1>13. Nesting(w) = m - (IF Nests(b) THEN 0 ELSE IF b = "escape" THEN 2 ELSE 1)
  BY <1>4, <1>9 DEF Nesting
<1>14. Nests(t) <=> t \in {"list", "squote"}
  BY <1>1, <1>9 DEF Nests
<1>15. Nesting(w) = Nesting(s) - (IF t \in {"list", "squote"} THEN 1 ELSE 0)
  BY <1>3, <1>10, <1>11, <1>12, <1>13, <1>14 DEF Nests
<1>16. b = "init" => m = 1 /\ Nesting(w) = 1 /\ t # "escape"
  <2>1. b = "init" => m = 1
    BY <1>3, <1>5, <1>9
  <2>2. b = "init" => t # "escape"
    BY <1>11
  <2>3. b = "init" => Nests(b)
    BY DEF Nests
  <2> QED
    BY <1>13, <2>1, <2>2, <2>3
<1> QED
  BY <1>1, <1>3, <1>4, <1>7, <1>8, <1>9, <1>15, <1>16

---------------------------------------------------------------------------
\* How the lists under construction change.
LEMMA ListsAppend ==
  ASSUME NEW s, IsSequence(s), NEW e, NEW w, w = Append(s, e)
  PROVE  /\ IsSequence(w) /\ Len(w) = Len(s) + 1 /\ Len(s) \in Nat
         /\ w[Len(s) + 1] = e /\ \A k \in 1..Len(s) : w[k] = s[k]
<1>1. PICK S : S = {s[i] : i \in DOMAIN s} \cup {e}
  OBVIOUS
<1>2. s \in Seq(S) /\ e \in S
  BY <1>1 DEF IsSequence
<1>3. w \in Seq(S) /\ Len(w) = Len(s) + 1 /\ Len(s) \in Nat
  BY <1>2
<1>4. w[Len(s) + 1] = e /\ \A k \in 1..Len(s) : w[k] = s[k]
  BY <1>2
<1> QED
  BY <1>3, <1>4, SeqOfItems

LEMMA ListsAdd ==
  ASSUME NEW s, IsSequence(s), s # <<>>, NEW e, NEW w, w = [s EXCEPT ![Len(s)] = e]
  PROVE  /\ IsSequence(w) /\ Len(w) = Len(s) /\ Len(s) \in Nat
         /\ w[Len(s)] = e /\ \A k \in 1..Len(s) - 1 : w[k] = s[k]
<1>1. PICK S : S = {s[i] : i \in DOMAIN s}
  OBVIOUS
<1>2. s \in Seq(S)
  BY <1>1 DEF IsSequence
<1>3. PICK n \in Nat \ {0} : n = Len(s) /\ n \in 1..n /\ s \in Seq(S)
  BY <1>2, EmptySeq
<1>4. s \in [1..n -> S \cup {e}]
  BY <1>3
<1>5. w \in [1..n -> S \cup {e}]
  BY <1>3, <1>4
<1>6. w \in Seq(S \cup {e}) /\ Len(w) = n
  BY <1>3, <1>5
<1>7. w[n] = e /\ \A k \in 1..n - 1 : w[k] = s[k]
  BY <1>3, <1>4
<1> QED
  BY <1>3, <1>6, <1>7, SeqOfItems

LEMMA ListsClose ==
  ASSUME NEW s, IsSequence(s), Len(s) > 1, NEW e, NEW w, w = Append(Below(Below(s)), e)
  PROVE  /\ IsSequence(w) /\ Len(w) = Len(s) - 1 /\ Len(s) \in Nat
         /\ w[Len(s) - 1] = e /\ \A k \in 1..Len(s) - 2 : w[k] = s[k]
         /\ Below(s)[Len(s) - 1] = s[Len(s) - 1]
<1>1. PICK S : S = {s[i] : i \in DOMAIN s}
  OBVIOUS
<1>2. s \in Seq(S) /\ Len(s) \in Nat /\ s # <<>>
  BY <1>1, EmptySeq DEF IsSequence
<1>3. PICK b \in Seq(S) : b = Below(s) /\ Len(b) = Len(s) - 1 /\ \A k \in 1..Len(s) - 1 : b[k] = s[k]
  BY <1>2, BelowIs
<1>4. b # <<>>
  BY <1>2, <1>3, EmptySeq
<1>5. PICK c \in Seq(S) : c = Below(b) /\ Len(c) = Len(b) - 1 /\ \A k \in 1..Len(b) - 1 : c[k] = b[k]
  BY <1>4, BelowIs
<1>6. w = Append(c, e)
  BY <1>3, <1>5
<1>7. IsSequence(w) /\ Len(w) = Len(c) + 1 /\ w[Len(c) + 1] = e /\ \A k \in 1..Len(c) : w[k] = c[k]
  <2>1. IsSequence(c)
    BY <1>5, SeqOfItems
  <2>2. PICK d : d = c /\ IsSequence(d) /\ w = Append(d, e)
    BY <1>6, <2>1
  <2>3. IsSequence(w) /\ Len(w) = Len(d) + 1 /\ w[Len(d) + 1] = e
    BY <2>2, ListsAppend
  <2>4. ASSUME NEW k \in 1..Len(d)  PROVE w[k] = d[k]
    BY <2>2, ListsAppend
  <2> QED
    BY <2>2, <2>3, <2>4
<1>8. PICK n \in Nat : n = Len(s) - 2 /\ n = Len(c) /\ n + 1 = Len(s) - 1 /\ n + 1 = Len(b)
  <2>1. Len(s) - 2 \in Nat
    BY <1>2
  <2> QED
    BY <1>2, <1>3, <1>5, <2>1
<1>9. \A k \in 1..n : w[k] = s[k]
  <2>1. \A k \in 1..n : k \in 1..Len(s) - 1 /\ k \in 1..Len(b) - 1
    BY <1>8
  <2> QED
    BY <1>3, <1>5, <1>7, <1>8, <2>1
<1>10. Below(s)[n + 1] = s[n + 1]
  <2>1. n + 1 \in 1..Len(s) - 1
    BY <1>8
  <2> QED
    BY <1>3, <2>1
<1> QED
  BY <1>2, <1>7, <1>8, <1>9, <1>10

\* What each action does to the stacks and the buffer.
LEMMA ParserShape ==
  ASSUME ParserInv
  PROVE  /\ Len(ststk) \in Nat \ {0} /\ st = ststk[Len(ststk)] /\ st \in Automata
         /\ Len(lists) \in Nat \ {0} /\ lists # <<>> /\ Len(buf) \in Nat
<1>1. ststk \in Seq(Automata) /\ ststk # <<>> /\ Fits(ststk) /\ Len(lists) = Nesting(ststk)
  BY DEF ParserInv
<1>2. PICK n \in Nat \ {0} : n = Len(ststk) /\ n \in 1..n
  BY <1>1, EmptySeq
<1>3. ststk[n] \in Automata
  BY <1>1, <1>2
<1>4. Len(lists) \in Nat \ {0}
  BY <1>1, NestingCounts
<1>5. lists # <<>>
  BY <1>4
<1>6. Len(buf) \in Nat
  BY DEF ParserInv, IsSequence
<1> QED
  BY <1>2, <1>3, <1>4, <1>5, <1>6 DEF st

\* One more character, of the text or of an escape, if it has room.
LEMMA BufferChange ==
  ASSUME ParserAssumption, ParserInv, NEW s, NEW c, NEW nst, ~Full(SymChar(s, c, nst)),
         NEW w, w = buf \o SymChar(s, c, nst)
  PROVE  IsSequence(w) /\ Len(w) < BufSize
<1>1. PICK S : S = {buf[i] : i \in DOMAIN buf}
  OBVIOUS
<1>2. buf \in Seq(S) /\ Len(buf) \in Nat /\ Len(buf) < BufSize /\ BufSize \in Nat
  BY <1>1 DEF ParserInv, ParserAssumption, IsSequence
<1>3. PICK d : SymChar(s, c, nst) = <<d>> \/ SymChar(s, c, nst) = <<>>
  BY DEF SymChar
<1>4. CASE SymChar(s, c, nst) = <<>>
  <2>1. w = buf
    BY <1>2, <1>4, ConcatEmptySeq
  <2> QED
    BY <1>2, <2>1, SeqOfItems
<1>5. CASE SymChar(s, c, nst) = <<d>>
  <2>1. Len(buf) < BufSize - 1
    BY <1>2, <1>5 DEF Full
  <2>2. PICK T : T = S \cup {d}
    OBVIOUS
  <2>3. PICK b \in Seq(T), e \in Seq(T) : b = buf /\ e = <<d>> /\ Len(e) = 1
    <3>1. buf \in Seq(T)
      BY <1>2, <2>2
    <3>2. d \in T
      BY <2>2
    <3>3. <<d>> \in Seq(T) /\ Len(<<d>>) = 1
      BY <3>2
    <3> QED
      BY <3>1, <3>3
  <2>4. b \o e \in Seq(T) /\ Len(b \o e) = Len(b) + Len(e)
    BY ConcatProperties
  <2>5. w \in Seq(T) /\ Len(w) = Len(buf) + 1
    BY <1>5, <2>3, <2>4
  <2>6. Len(w) < BufSize
    BY <1>2, <2>1, <2>5
  <2> QED
    BY <2>5, <2>6, SeqOfItems
<1> QED
  BY <1>3, <1>4, <1>5

LEMMA EmptyBuffer ==
  ASSUME ParserAssumption, NEW w, w = <<>>
  PROVE  IsSequence(w) /\ Len(w) < BufSize
<1>1. w \in Seq({}) /\ Len(w) = 0
  OBVIOUS
<1>2. IsSequence(w)
  BY <1>1, SeqOfItems
<1>3. 0 < BufSize
  BY DEF ParserAssumption
<1> QED
  BY <1>1, <1>2, <1>3

LEMMA ExitKeeps ==
  ASSUME ParserAssumption, ParserInv, Exit
  PROVE  ParserInv'
<1>1. PICK s : s = ststk /\ s \in Seq(Automata) /\ s # <<>> /\ Fits(s) /\ Len(lists) = Nesting(s)
  BY DEF ParserInv
<1>2. PICK nst : nst = next_char(st, look) /\ nst = "exit" /\ ~Full(SymChar(st, look, nst))
  BY DEF Exit
<1>3. st \in Automata /\ st # "init" /\ s[Len(s)] = st
  BY <1>1, <1>2, ParserShape, NextChars
<1>4. PICK w : w = Below(s) /\ ststk' = w
  BY <1>1 DEF Exit
<1>5. /\ w \in Seq(Automata) /\ w # <<>> /\ Fits(w)
      /\ Nesting(w) = Nesting(s) - (IF st \in {"list", "squote"} THEN 1 ELSE 0)
  BY <1>1, <1>3, <1>4, PopFits
<1>6. Nesting(w) \in Nat \ {0}
  BY <1>5, NestingCounts
<1>7. IsSequence(lists') /\ Len(lists') = Nesting(w)
  <2>1. ExitLists(st) /\ IsSequence(lists)
    BY DEF Exit, ParserInv
  <2>2. CASE st \in {"list", "squote"}
    <3>1. PICK e : lists' = Append(Below(Below(lists)), e)
      BY <2>1, <2>2 DEF ExitLists
    <3>2. Len(lists) > 1 /\ Len(lists) \in Nat
      BY <1>1, <1>5, <1>6, <2>2, ParserShape
    <3>3. IsSequence(lists') /\ Len(lists') = Len(lists) - 1
      BY <2>1, <3>1, <3>2, ListsClose
    <3> QED
      BY <1>1, <1>5, <1>6, <2>2, <3>3
  <2>3. CASE st \in {"symbol", "dquote"}
    <3>1. PICK e : lists' = [lists EXCEPT ![Len(lists)] = e]
      BY <2>1, <2>3 DEF ExitLists, Add
    <3>2. lists # <<>> /\ Len(lists) = Nesting(w)
      BY <1>1, <1>5, <1>6, <2>3, ParserShape
    <3> QED
      BY <2>1, <3>1, <3>2, ListsAdd
  <2>4. CASE st \in {"comment", "escape"}
    <3>1. lists' = lists /\ Len(lists) = Nesting(w)
      BY <1>1, <1>5, <1>6, <2>1, <2>4 DEF ExitLists
    <3> QED
      BY <2>1, <3>1
  <2> QED
    BY <1>3, <2>2, <2>3, <2>4 DEF Automata
<1>8. IsSequence(buf') /\ Len(buf') < BufSize
  <2>1. buf' = <<>> \/ buf' = buf \o SymChar(st, look, nst)
    BY <1>2 DEF Exit
  <2> QED
    BY <1>2, <2>1, EmptyBuffer, BufferChange
<1> QED
  BY <1>4, <1>5, <1>7, <1>8 DEF ParserInv

LEMMA ExitToInitKeeps ==
  ASSUME ParserAssumption, ParserInv, ExitToInit
  PROVE  ParserInv'
<1>1. PICK s : s = ststk /\ s \in Seq(Automata) /\ s # <<>> /\ Fits(s)
  BY DEF ParserInv
<1>2. st \in Automata /\ st # "init" /\ s[Len(s)] = st
  <2>1. next_char(st, look) = "exit"
    BY DEF ExitToInit
  <2> QED
    BY <1>1, <2>1, ParserShape, NextChars
<1>3. PICK w : w = Below(s) /\ ststk' = w /\ s[Len(s) - 1] = "init"
  BY <1>1 DEF ExitToInit
<1>4. w \in Seq(Automata) /\ w # <<>> /\ Fits(w) /\ Nesting(w) = 1
  BY <1>1, <1>2, <1>3, PopFits
<1>5. IsSequence(lists') /\ Len(lists') = 1
  <2>1. lists' = <<<<>>>> /\ lists' \in Seq({<<>>}) /\ Len(lists') = 1
    BY DEF ExitToInit
  <2> QED
    BY <2>1, SeqOfItems
<1>6. IsSequence(buf') /\ Len(buf') < BufSize
  <2>1. buf' = <<>> \/ buf' = buf
    BY DEF ExitToInit
  <2>2. IsSequence(buf) /\ Len(buf) < BufSize
    BY DEF ParserInv
  <2> QED
    BY <2>1, <2>2, EmptyBuffer
<1> QED
  BY <1>3, <1>4, <1>5, <1>6 DEF ParserInv

LEMMA EnterKeeps ==
  ASSUME ParserAssumption, ParserInv, Enter
  PROVE  ParserInv'
<1>1. PICK s : s = ststk /\ s \in Seq(Automata) /\ s # <<>> /\ Fits(s) /\ Len(lists) = Nesting(s)
  BY DEF ParserInv
<1>2. PICK nst : /\ nst = next_char(st, look)
                 /\ nst \in {"list", "squote", "symbol", "dquote", "comment"}
  BY DEF Enter
<1>3. Nests(s[Len(s)]) /\ Len(lists) \in Nat
  <2>1. st \in Automata /\ s[Len(s)] = st /\ Len(lists) \in Nat
    BY <1>1, ParserShape
  <2> QED
    BY <1>2, <2>1, NextChars DEF Automata, Nests
<1>4. PICK w : w = Append(s, nst) /\ ststk' = w
  BY <1>1, <1>2 DEF Enter
<1>5. /\ w \in Seq(Automata) /\ w # <<>> /\ Fits(w)
      /\ Nesting(w) = Nesting(s) + (IF nst \in {"list", "squote"} THEN 1 ELSE 0)
  <2>1. s \in Seq(Automata) /\ s # <<>> /\ Fits(s) /\ Nests(s[Len(s)]) /\ w = Append(s, nst)
    BY <1>1, <1>3, <1>4
  <2> HIDE DEF Fits, Nests
  <2> QED
    BY <1>2, <2>1, PushFits
<1>6. IsSequence(lists)
  BY DEF ParserInv
<1>7. IsSequence(lists') /\ Len(lists') = Nesting(w)
  <2>1. CASE nst \in {"list", "squote"}
    <3>1. PICK e : lists' = Append(lists, e)
      BY <1>2, <2>1 DEF Enter
    <3>2. IsSequence(lists') /\ Len(lists') = Len(lists) + 1
      BY <1>6, <3>1, ListsAppend
    <3> QED
      BY <1>1, <1>3, <1>5, <2>1, <3>2
  <2>2. CASE nst \notin {"list", "squote"}
    <3>1. lists' = lists
      BY <1>2, <2>2 DEF Enter
    <3> QED
      BY <1>1, <1>3, <1>5, <1>6, <2>2, <3>1
  <2> QED
    BY <2>1, <2>2
<1>8. IsSequence(buf') /\ Len(buf') < BufSize
  <2>1. buf' = <<>> \/ buf' = buf
    BY DEF Enter
  <2> QED
    BY <2>1, EmptyBuffer DEF ParserInv
<1> QED
  BY <1>4, <1>5, <1>7, <1>8 DEF ParserInv

LEMMA EscapeKeeps ==
  ASSUME ParserAssumption, ParserInv, Escape
  PROVE  ParserInv'
<1>1. PICK s : s = ststk /\ s \in Seq(Automata) /\ s # <<>> /\ Fits(s) /\ Len(lists) = Nesting(s)
  BY DEF ParserInv
<1>2. next_char(st, look) = "escape" /\ lists' = lists
  BY DEF Escape
<1>3. st \in Automata /\ s[Len(s)] = st
  BY <1>1, ParserShape
<1>4. ststk' \in Seq(Automata) /\ ststk' # <<>> /\ Fits(ststk') /\ Nesting(ststk') = Nesting(s)
  <2>1. CASE st \in {"symbol", "dquote"}
    <3>1. ststk' = Append(s, "escape")
      BY <1>1, <2>1 DEF Escape
    <3> QED
      BY <1>1, <1>3, <2>1, <3>1, EscapeFits
  <2>2. CASE st \notin {"symbol", "dquote"}
    <3>1. ststk' = s \o <<"symbol", "escape">>
      BY <1>1, <2>2 DEF Escape
    <3>2. Nests(s[Len(s)])
      BY <1>2, <1>3, <2>2, NextChars DEF Automata, Nests
    <3>3. PICK v : v = Append(s, "symbol")
      OBVIOUS
    <3>4. /\ v \in Seq(Automata) /\ v # <<>> /\ Fits(v) /\ v[Len(v)] = "symbol"
          /\ Nesting(v) = Nesting(s) + (IF "symbol" \in {"list", "squote"} THEN 1 ELSE 0)
      BY <1>1, <3>2, <3>3, PushFits
    <3>5. Append(v, "escape") = s \o <<"symbol", "escape">>
      <4>1. "symbol" \in Automata /\ "escape" \in Automata
        BY DEF Automata
      <4> QED
        BY <1>1, <3>3, <4>1
    <3>6. Nesting(v) = Nesting(s)
      <4>1. Nesting(s) \in Nat
        BY <1>1, NestingCounts
      <4> QED
        BY <3>4, <4>1
    <3> QED
      BY <3>1, <3>4, <3>5, <3>6, EscapeFits
  <2> QED
    BY <2>1, <2>2
<1>5. IsSequence(buf') /\ Len(buf') < BufSize
  <2>1. buf' = <<>> \/ buf' = buf
    BY DEF Escape
  <2> QED
    BY <2>1, EmptyBuffer DEF ParserInv
<1> QED
  BY <1>1, <1>2, <1>4, <1>5 DEF ParserInv

LEMMA ParserStarts ==
  ASSUME ParserAssumption, ParserInit
  PROVE  ParserInv
<1>1. PICK w : w = <<"init">> /\ ststk = w
  BY DEF ParserInit
<1>2. w \in Seq(Automata) /\ Len(w) = 1 /\ w[1] = "init" /\ w # <<>>
  BY <1>1 DEF Automata
<1>3. Fits(w) /\ Nesting(w) = 1
  BY <1>2 DEF Fits, Nesting, Nests
<1>4. IsSequence(lists) /\ Len(lists) = 1
  <2>1. lists \in Seq({<<>>}) /\ Len(lists) = 1
    BY DEF ParserInit
  <2> QED
    BY <2>1, SeqOfItems
<1>5. IsSequence(buf) /\ Len(buf) < BufSize
  BY EmptyBuffer DEF ParserInit
<1> QED
  BY <1>1, <1>2, <1>3, <1>4, <1>5 DEF ParserInv

LEMMA ParserKeeps ==
  ASSUME ParserAssumption, ParserInv, [ParserNext]_pvars
  PROVE  ParserInv'
<1>1. CASE ststk' = ststk /\ lists' = lists /\ buf' = buf
  BY <1>1 DEF ParserInv
<1>2. CASE \E c \in Alphabet : Fetch(c)
  BY <1>1, <1>2 DEF Fetch
<1>3. CASE FetchLast \/ Fail \/ Finish
  BY <1>1, <1>3 DEF FetchLast, Fail, Finish
<1>4. CASE Stay
  <2>1. PICK nst : ~Full(SymChar(st, look, nst)) /\ buf' = buf \o SymChar(st, look, nst)
    BY <1>4 DEF Stay
  <2>2. ststk' = ststk /\ lists' = lists
    BY <1>4 DEF Stay
  <2>3. IsSequence(buf') /\ Len(buf') < BufSize
    BY <2>1, BufferChange
  <2> QED
    BY <2>2, <2>3 DEF ParserInv
<1>5. CASE UNCHANGED pvars
  BY <1>1, <1>5 DEF pvars
<1> QED
  BY <1>2, <1>3, <1>4, <1>5, ExitKeeps, ExitToInitKeeps, EnterKeeps, EscapeKeeps DEF ParserNext

---------------------------------------------------------------------------
(* The grammar: readings exist, and what is read at each character.        *)

\* What is read from a place of a text.
IsResult(r) == r = [ok |-> r.ok, items |-> r.items, at |-> r.at] /\ r.ok \in BOOLEAN /\ IsSequence(r.items)
Automatic == {"init", "list", "squote", "symbol", "dquote"}
ReadAt(t, i, q) ==
  \A w \in Automatic :
    /\ IsResult(q[w])
    /\ q[w].ok => q[w].at \in i .. Len(t) + 1 /\ (w = "dquote" => q[w].at # Len(t) + 1)

LEMMA EmptyIs == IsSequence(<<>>)
<1>1. <<>> \in Seq({})
  OBVIOUS
<1> QED
  BY <1>1, SeqOfItems

LEMMA JoinAny ==
  ASSUME NEW a, IsSequence(a), NEW b, IsSequence(b)
  PROVE  IsSequence(a \o b) /\ Len(a \o b) = Len(a) + Len(b)
<1>1. PICK S : S = {a[i] : i \in DOMAIN a} \cup {b[i] : i \in DOMAIN b}
  OBVIOUS
<1>2. a \in Seq(S) /\ b \in Seq(S)
  BY <1>1 DEF IsSequence
<1>3. a \o b \in Seq(S) /\ Len(a \o b) = Len(a) + Len(b)
  BY <1>2, ConcatProperties
<1> QED
  BY <1>3, SeqOfItems

LEMMA JoinNone ==
  ASSUME NEW a, IsSequence(a)
  PROVE  a \o <<>> = a /\ <<>> \o a = a
<1>1. PICK S : a \in Seq(S)
  BY DEF IsSequence
<1> QED
  BY <1>1, ConcatEmptySeq

LEMMA AppendJoins ==
  ASSUME NEW a, IsSequence(a), NEW e
  PROVE  Append(a, e) = a \o <<e>> /\ IsSequence(Append(a, e)) /\ IsSequence(<<e>>) /\ IsSequence(<<>>)
<1>1. PICK S : S = {a[i] : i \in DOMAIN a} \cup {e}
  OBVIOUS
<1>2. a \in Seq(S) /\ e \in S
  BY <1>1 DEF IsSequence
<1>3. Append(a, e) = a \o <<e>> /\ Append(a, e) \in Seq(S) /\ <<e>> \in Seq(S) /\ <<>> \in Seq(S)
  BY <1>2
<1> QED
  BY <1>3, SeqOfItems

LEMMA MistakeIs ==
  IsResult(Mistake) /\ ~Mistake.ok /\ Mistake.items = <<>>
BY EmptyIs DEF Mistake, IsResult

LEMMA DoneIs ==
  ASSUME NEW i
  PROVE  IsResult(Done(i)) /\ Done(i).ok /\ Done(i).items = <<>> /\ Done(i).at = i
BY EmptyIs DEF Done, IsResult

LEMMA OntoIs ==
  ASSUME NEW a, IsSequence(a), NEW r, IsResult(r)
  PROVE  /\ IsResult(Onto(a, r))
         /\ Onto(a, r).ok = r.ok /\ Onto(a, r).items = a \o r.items /\ Onto(a, r).at = r.at
<1>1. IsSequence(a \o r.items) /\ r.ok \in BOOLEAN
  BY JoinAny DEF IsResult
<1> QED
  BY <1>1 DEF Onto, IsResult

LEMMA GroupIs ==
  ASSUME NEW r
  PROVE  Group(r).ok = r.ok /\ Group(r).val = List(r.items) /\ Group(r).at = r.at
BY DEF Group

LEMMA NamedIs ==
  ASSUME NEW w, NEW cs, NEW r
  PROVE  /\ Named(w, cs, r).ok <=> r.ok /\ Len(cs \o r.items) < BufSize
         /\ Named(w, cs, r).ok \in BOOLEAN
         /\ Named(w, cs, r).val = Symbol(cs \o r.items)
         /\ Named(w, cs, r).at = IF w = "dquote" THEN r.at + 1 ELSE r.at
BY DEF Named

LEMMA Characteristic ==
  /\ Comment \notin Blank /\ Closing \notin Blank /\ Opening \notin Breaks /\ Comment # Closing
  /\ Comment # "newline" /\ Comment \in Breaks /\ Closing \in Breaks /\ Blank \subseteq Breaks
  /\ "escape" \notin Breaks /\ "dquote" \notin Breaks /\ "squote" \notin Breaks
  /\ Special = Breaks \cup {"dquote", "squote", "escape", Opening}
  /\ Breaks = Blank \cup {Closing, Comment}
  /\ Opening \notin {"dquote", "squote", "escape", "n", "newline"}
BY Zenon DEF Comment, Closing, Opening, Breaks, Blank, Special

LEMMA CommentEndIs ==
  ASSUME NEW S, NEW t \in Seq(S), NEW i \in 1..Len(t) + 1
  PROVE  LET j == CommentEnd(t, i)
         IN  /\ j \in i..Len(t) + 1
             /\ j = Len(t) + 1 \/ t[j] = "newline"
             /\ \A k \in i..j - 1 : t[k] # "newline"
<1> DEFINE Ends(j) == j = Len(t) + 1 \/ t[j] = "newline"
           E == {j \in i..Len(t) + 1 : Ends(j)}
           Good(j) == /\ j = Len(t) + 1 \/ t[j] = "newline"
                      /\ \A k \in i..j - 1 : t[k] # "newline"
<1>1. PICK n \in Nat \ {0} : n = Len(t) + 1 /\ i \in 1..n
  OBVIOUS
<1>2. E \subseteq Nat /\ E # {} /\ \A j \in E : j \in i..n
  BY <1>1
<1>3. PICK j \in E : \A y \in E : j <= y
  BY <1>2, LeastNatural
<1>4. \A k \in i..j - 1 : t[k] # "newline"
  <2>1. SUFFICES ASSUME NEW k \in i..j - 1, t[k] = "newline"  PROVE FALSE
    OBVIOUS
  <2>2. k \in i..n /\ ~ (j <= k)
    BY <1>1, <1>2, <2>1
  <2>3. k \in E
    BY <1>1, <2>1, <2>2
  <2> QED
    BY <1>3, <2>2, <2>3
<1>5. j \in i..Len(t) + 1 /\ Good(j)
  BY <1>4
<1>6. CommentEnd(t, i) = CHOOSE x \in i..Len(t) + 1 : Good(x)
  BY DEF CommentEnd
<1> HIDE DEF Good
<1>7. CommentEnd(t, i) \in i..Len(t) + 1 /\ Good(CommentEnd(t, i))
  BY <1>5, <1>6
<1> QED
  BY <1>7 DEF Good

\* What is read from a place depends on what is read from later ones only.
LEMMA ReadsAhead ==
  ASSUME NEW S, NEW t \in Seq(S), NEW i \in 1..Len(t) + 1, NEW g, NEW h,
         \A j \in i + 1..Len(t) + 1 : g[j] = h[j] /\ ReadAt(t, j, g[j])
  PROVE  ReadFrom(t, g, i) = ReadFrom(t, h, i) /\ ReadAt(t, i, ReadFrom(t, g, i))
<1>1. PICK n \in Nat : n = Len(t) /\ i \in 1..n + 1 /\ i \in Nat \ {0}
  OBVIOUS
<1>2. ASSUME NEW w \in Automatic, NEW j \in i + 1..n + 1
      PROVE  /\ g[j] = h[j] /\ IsResult(g[j][w])
             /\ g[j][w].ok => g[j][w].at \in i + 1..n + 1 /\ (w = "dquote" => g[j][w].at # n + 1)
  <2>1. g[j] = h[j] /\ ReadAt(t, j, g[j])
    BY <1>1
  <2>2. g[j][w].ok => g[j][w].at \in j..n + 1 /\ (w = "dquote" => g[j][w].at # n + 1)
    BY <1>1, <2>1 DEF ReadAt
  <2> QED
    BY <1>1, <2>1, <2>2 DEF ReadAt
<1>3. ASSUME NEW e  PROVE IsSequence(<<e>>)
  BY AppendJoins, SeqOfItems
<1>4. ASSUME NEW w \in Automatic, NEW k \in i..n + 1
      PROVE  LET r == Escaped(t, g, k, w)
             IN  /\ r = Escaped(t, h, k, w) /\ IsResult(r)
                 /\ r.ok => r.at \in i + 1..n + 1 /\ (w = "dquote" => r.at # n + 1)
  <2>1. CASE k > n \/ t[k] \notin {"dquote", "escape", "n"}
    BY <1>1, <2>1, MistakeIs DEF Escaped
  <2>2. CASE ~ (k > n \/ t[k] \notin {"dquote", "escape", "n"})
    <3>1. PICK e : e = IF t[k] = "n" THEN "newline" ELSE t[k]
      OBVIOUS
    <3>2. Escaped(t, g, k, w) = Onto(<<e>>, g[k + 1][w]) /\ Escaped(t, h, k, w) = Onto(<<e>>, h[k + 1][w])
      BY <1>1, <2>2, <3>1 DEF Escaped
    <3>3. k + 1 \in i + 1..n + 1
      BY <1>1, <2>2
    <3> QED
      BY <1>2, <1>3, <3>2, <3>3, OntoIs
  <2> QED
    BY <2>1, <2>2
<1>5. ASSUME NEW w \in Automatic
      PROVE  LET r == Characters(t, g, i, w)
             IN  /\ r = Characters(t, h, i, w) /\ IsResult(r)
                 /\ r.ok => /\ r.at \in i..n + 1 /\ (w = "dquote" => r.at # n + 1)
                            /\ (i <= n /\ t[i] \notin Stop(w) => r.at \in i + 1..n + 1)
  <2>1. CASE i > n
    BY <1>1, <2>1, MistakeIs DEF Characters
  <2>2. CASE i <= n /\ t[i] \in Stop(w)
    <3>1. IsSequence(<<>>)
      BY EmptyIs
    <3>2. Characters(t, g, i, w) = Done(i) /\ Characters(t, h, i, w) = Done(i)
      BY <1>1, <2>2 DEF Characters
    <3> QED
      BY <1>1, <2>2, <3>1, <3>2, DoneIs
  <2>3. CASE i <= n /\ t[i] \notin Stop(w) /\ t[i] = "escape"
    <3>1. Characters(t, g, i, w) = Escaped(t, g, i + 1, w) /\ Characters(t, h, i, w) = Escaped(t, h, i + 1, w)
      BY <1>1, <2>3 DEF Characters
    <3>2. i + 1 \in i..n + 1 /\ \A x \in i + 1..n + 1 : x \in i..n + 1
      BY <1>1, <2>3
    <3> QED
      BY <1>4, <3>1, <3>2
  <2>4. CASE i <= n /\ t[i] \notin Stop(w) /\ t[i] # "escape"
    <3>1. /\ Characters(t, g, i, w) = Onto(<<t[i]>>, g[i + 1][w])
          /\ Characters(t, h, i, w) = Onto(<<t[i]>>, h[i + 1][w])
      BY <1>1, <2>4 DEF Characters
    <3>2. i + 1 \in i + 1..n + 1 /\ \A x \in i + 1..n + 1 : x \in i..n + 1
      BY <1>1, <2>4
    <3> QED
      BY <1>2, <1>3, <3>1, <3>2, OntoIs
  <2> QED
    BY <1>1, <2>1, <2>2, <2>3, <2>4
<1>6. ASSUME i <= n, t[i] \notin Breaks
      PROVE  LET e == Element(t, g, i)
             IN  e = Element(t, h, i) /\ e.ok \in BOOLEAN /\ (e.ok => e.at \in i + 1..n + 1)
  <2>1. i + 1 \in i + 1..n + 1
    BY <1>1, <1>6
  <2>2. CASE t[i] = "dquote"
    <3>1. PICK r : r = g[i + 1]["dquote"] /\ r = h[i + 1]["dquote"]
      BY <1>2, <2>1 DEF Automatic
    <3>2. IsResult(r) /\ (r.ok => r.at \in i + 1..n + 1 /\ r.at # n + 1)
      BY <1>2, <2>1, <3>1 DEF Automatic
    <3>3. Element(t, g, i) = Named("dquote", <<>>, r) /\ Element(t, h, i) = Named("dquote", <<>>, r)
      BY <2>2, <3>1, Characteristic DEF Element
    <3>4. Named("dquote", <<>>, r).ok => r.ok
      BY <3>2, NamedIs DEF IsResult
    <3>5. Named("dquote", <<>>, r).ok \in BOOLEAN /\ Named("dquote", <<>>, r).at = r.at + 1
      BY <3>2, NamedIs DEF IsResult
    <3>6. r.ok => r.at + 1 \in i + 1..n + 1
      BY <3>2
    <3> QED
      BY <3>3, <3>4, <3>5, <3>6
  <2>3. CASE t[i] = Opening
    <3>1. PICK r : r = g[i + 1]["list"] /\ r = h[i + 1]["list"]
      BY <1>2, <2>1 DEF Automatic
    <3>2. IsResult(r) /\ (r.ok => r.at \in i + 1..n + 1)
      BY <1>2, <2>1, <3>1 DEF Automatic
    <3>3. Element(t, g, i) = Group(r) /\ Element(t, h, i) = Group(r)
      BY <2>3, <3>1, Characteristic DEF Element
    <3> QED
      BY <3>2, <3>3, GroupIs DEF IsResult
  <2>4. CASE t[i] = "squote"
    <3>1. PICK x : x = g[i + 1]["squote"] /\ x = h[i + 1]["squote"]
      BY <1>2, <2>1 DEF Automatic
    <3>2. IsResult(x) /\ (x.ok => x.at \in i + 1..n + 1)
      BY <1>2, <2>1, <3>1 DEF Automatic
    <3>3. PICK r : r = Onto(<<quote>>, x)
      OBVIOUS
    <3>4. IsResult(r) /\ r.ok = x.ok /\ r.at = x.at
      BY <1>3, <3>2, <3>3, OntoIs
    <3>5. Element(t, g, i) = Group(r) /\ Element(t, h, i) = Group(r)
      BY <2>4, <3>1, <3>3 DEF Element
    <3> QED
      BY <3>2, <3>4, <3>5, GroupIs DEF IsResult
  <2>5. CASE t[i] \notin {"dquote", Opening, "squote"}
    <3>1. PICK r : r = Characters(t, g, i, "symbol") /\ r = Characters(t, h, i, "symbol")
      BY <1>5 DEF Automatic
    <3>2. t[i] \notin Stop("symbol")
      BY <1>6, <2>5, Characteristic DEF Stop
    <3>3. IsResult(r) /\ (r.ok => r.at \in i + 1..n + 1)
      BY <1>5, <1>6, <3>1, <3>2 DEF Automatic
    <3>4. Element(t, g, i) = Named("symbol", <<>>, r) /\ Element(t, h, i) = Named("symbol", <<>>, r)
      BY <2>5, <3>1 DEF Element
    <3>5. Named("symbol", <<>>, r).ok \in BOOLEAN /\ (Named("symbol", <<>>, r).ok => r.ok) /\ Named("symbol", <<>>, r).at = r.at
      BY NamedIs
    <3> QED
      BY <3>3, <3>4, <3>5 DEF IsResult
  <2> QED
    BY <2>2, <2>3, <2>4, <2>5
<1>7. ASSUME NEW w \in {"init", "list", "squote"}
      PROVE  LET r == Elements(t, g, i, w)
             IN  /\ r = Elements(t, h, i, w) /\ IsResult(r) /\ (r.ok => r.at \in i..n + 1)
  <2>0. w \in Automatic
    BY DEF Automatic
  <2>1. IsSequence(<<>>)
    BY EmptyIs
  <2>2. CASE i > n
    <3>1. \A f : Elements(t, f, i, w) = IF w = "init" THEN Done(i) ELSE Mistake
      BY <1>1, <2>2 DEF Elements
    <3>2. i \in i..n + 1
      BY <1>1
    <3> QED
      BY <3>1, <3>2, DoneIs, MistakeIs
  <2>3. CASE i <= n /\ w = "squote" /\ t[i] \in Breaks
    <3>1. Elements(t, g, i, w) = Done(i) /\ Elements(t, h, i, w) = Done(i)
      BY <1>1, <2>3 DEF Elements
    <3>2. i \in i..n + 1
      BY <1>1
    <3> QED
      BY <2>1, <3>1, <3>2, DoneIs
  <2>4. CASE i <= n /\ w # "squote" /\ t[i] = Closing
    <3>1. \A f : Elements(t, f, i, w) = IF w = "list" THEN Done(i + 1) ELSE Mistake
      BY <1>1, <2>4, Characteristic DEF Elements
    <3>2. i + 1 \in i..n + 1
      BY <1>1, <2>4
    <3> QED
      BY <2>1, <3>1, <3>2, DoneIs, MistakeIs
  <2>5. CASE /\ i <= n /\ ~ (w = "squote" /\ t[i] \in Breaks)
             /\ t[i] \in Breaks /\ t[i] # Closing
    <3>1. PICK j : j = IF t[i] = Comment THEN CommentEnd(t, i) ELSE i + 1
      OBVIOUS
    <3>2. j \in i + 1..n + 1
      <4>1. CASE t[i] = Comment
        <5>1. j \in i..n + 1 /\ (j = n + 1 \/ t[j] = "newline")
          BY <1>1, <3>1, <4>1, CommentEndIs
        <5>2. j # i
          BY <1>1, <2>5, <4>1, <5>1, Characteristic
        <5> QED
          BY <1>1, <5>1, <5>2
      <4>2. CASE t[i] # Comment
        BY <1>1, <2>5, <3>1, <4>2
      <4> QED
        BY <4>1, <4>2
    <3>3. Elements(t, g, i, w) = g[j][w] /\ Elements(t, h, i, w) = h[j][w]
      BY <1>1, <2>5, <3>1, Characteristic DEF Elements
    <3>4. \A x \in i + 1..n + 1 : x \in i..n + 1
      BY <1>1
    <3> QED
      BY <1>2, <2>0, <3>2, <3>3, <3>4
  <2>6. CASE i <= n /\ t[i] \notin Breaks
    <3>1. PICK e : e = Element(t, g, i) /\ e = Element(t, h, i)
      BY <1>6, <2>6
    <3>2. e.ok \in BOOLEAN /\ (e.ok => e.at \in i + 1..n + 1)
      BY <1>6, <2>6, <3>1
    <3>3. Elements(t, g, i, w) = Then(e, g, w) /\ Elements(t, h, i, w) = Then(e, h, w)
      BY <1>1, <2>6, <3>1, Characteristic DEF Elements
    <3>4. CASE e.ok
      <4>1. PICK x : x = g[e.at][w] /\ x = h[e.at][w]
        BY <1>2, <2>0, <3>2, <3>4
      <4>2. IsResult(x) /\ (x.ok => x.at \in i + 1..n + 1)
        BY <1>2, <2>0, <3>2, <3>4, <4>1
      <4>3. Then(e, g, w) = Onto(<<e.val>>, x) /\ Then(e, h, w) = Onto(<<e.val>>, x)
        BY <3>4, <4>1 DEF Then
      <4>4. IsSequence(<<e.val>>) /\ \A y \in i + 1..n + 1 : y \in i..n + 1
        BY <1>1, <1>3
      <4> QED
        BY <3>3, <4>2, <4>3, <4>4, OntoIs
    <3>5. CASE ~e.ok
      BY <3>3, <3>5, MistakeIs DEF Then
    <3> QED
      BY <3>4, <3>5
  <2> QED
    BY <1>1, <2>2, <2>3, <2>4, <2>5, <2>6
<1>8. ReadFrom(t, g, i) = ReadFrom(t, h, i)
  <2>1. \A w \in {"init", "list", "squote", "symbol", "dquote"} :
          /\ w \in {"symbol", "dquote"} => Characters(t, g, i, w) = Characters(t, h, i, w)
          /\ w \notin {"symbol", "dquote"} => Elements(t, g, i, w) = Elements(t, h, i, w)
    BY <1>5, <1>7 DEF Automatic
  <2> QED
    BY <2>1 DEF ReadFrom
<1>9. ASSUME NEW w \in Automatic
      PROVE  /\ IsResult(ReadFrom(t, g, i)[w])
             /\ ReadFrom(t, g, i)[w].ok =>
                  /\ ReadFrom(t, g, i)[w].at \in i..n + 1
                  /\ w = "dquote" => ReadFrom(t, g, i)[w].at # n + 1
  <2>1. CASE w \in {"symbol", "dquote"}
    <3>1. ReadFrom(t, g, i)[w] = Characters(t, g, i, w)
      BY <2>1 DEF ReadFrom, Automatic
    <3> QED
      BY <1>5, <3>1
  <2>2. CASE w \in {"init", "list", "squote"}
    <3>1. ReadFrom(t, g, i)[w] = Elements(t, g, i, w) /\ w # "dquote"
      BY <2>2 DEF ReadFrom, Automatic
    <3> QED
      BY <1>7, <2>2, <3>1
  <2> QED
    BY <2>1, <2>2 DEF Automatic
<1> QED
  BY <1>1, <1>8, <1>9 DEF ReadAt

\* There is a function that says what is read from each place of a text, as
\* what is read is known from the end of the text on.
LEMMA ReadingsExist ==
  ASSUME NEW S, NEW t \in Seq(S)
  PROVE  \E f : f = [i \in 1..Len(t) + 1 |-> ReadFrom(t, f, i)]
<1>1. PICK n \in Nat : n = Len(t) + 1
  OBVIOUS
<1> DEFINE R(g, m) == \A i \in 1..n : n - m < i => g[i] = ReadFrom(t, g, i) /\ ReadAt(t, i, g[i])
           G == {m \in Nat : m <= n => \E g : R(g, m)}
<1>2. 0 \in G
  <2>1. \A g : R(g, 0)
    OBVIOUS
  <2> QED
    BY <2>1
<1>3. ASSUME NEW m \in Nat, m \in G  PROVE m + 1 \in G
  <2> SUFFICES ASSUME m + 1 <= n PROVE \E g : R(g, m + 1)
    OBVIOUS
  <2>1. PICK g : R(g, m)
    BY <1>3
  <2>2. PICK k \in 1..n : k = n - m /\ n - (m + 1) = k - 1
    OBVIOUS
  <2>3. PICK h : h = [i \in 1..n |-> IF i = k THEN ReadFrom(t, g, k) ELSE g[i]]
    OBVIOUS
  <2>4. \A i \in k + 1..n : i \in 1..n /\ n - m < i /\ h[i] = g[i]
    BY <2>2, <2>3
  <2>5. \A i \in k + 1..n : g[i] = h[i] /\ ReadAt(t, i, g[i])
    BY <2>1, <2>4
  <2>6. ASSUME NEW i \in 1..n, n - (m + 1) < i  PROVE h[i] = ReadFrom(t, h, i) /\ ReadAt(t, i, h[i])
    <3>1. i = k \/ i \in k + 1..n
      BY <2>2, <2>6
    <3>2. \A j \in i + 1..n : j \in k + 1..n
      BY <2>2, <2>6
    <3>3. \A j \in i + 1..Len(t) + 1 : g[j] = h[j] /\ ReadAt(t, j, g[j])
      BY <1>1, <2>5, <3>2
    <3>4. ReadFrom(t, g, i) = ReadFrom(t, h, i) /\ ReadAt(t, i, ReadFrom(t, g, i))
      BY <1>1, <3>3, ReadsAhead
    <3>5. h[i] = ReadFrom(t, g, i)
      <4>1. CASE i = k
        BY <2>3, <4>1
      <4>2. CASE i \in k + 1..n
        BY <2>1, <2>4, <4>2
      <4> QED
        BY <3>1, <4>1, <4>2
    <3> QED
      BY <3>4, <3>5
  <2>7. R(h, m + 1)
    BY <2>6
  <2> QED
    BY <2>7
<1> HIDE DEF G
<1>4. n \in G
  BY <1>2, <1>3, AllNaturals
<1>5. PICK g : R(g, n)
  BY <1>4 DEF G
<1>6. \A i \in 1..n : g[i] = ReadFrom(t, g, i) /\ ReadAt(t, i, g[i])
  <2>1. \A i \in 1..n : n - n < i
    OBVIOUS
  <2> QED
    BY <1>5, <2>1
<1>7. PICK f : f = [i \in 1..n |-> g[i]]
  OBVIOUS
<1>8. ASSUME NEW i \in 1..n  PROVE g[i] = ReadFrom(t, f, i)
  <2>1. \A j \in i + 1..n : j \in 1..n
    OBVIOUS
  <2>2. \A j \in i + 1..Len(t) + 1 : g[j] = f[j] /\ ReadAt(t, j, g[j])
    BY <1>1, <1>6, <1>7, <2>1
  <2>3. ReadFrom(t, g, i) = ReadFrom(t, f, i)
    BY <1>1, <2>2, ReadsAhead
  <2> QED
    BY <1>6, <2>3
<1>9. f = [i \in 1..n |-> ReadFrom(t, f, i)]
  BY <1>7, <1>8
<1> QED
  BY <1>1, <1>9

LEMMA ReadingsAre ==
  ASSUME NEW S, NEW t \in Seq(S), NEW i \in 1..Len(t) + 1
  PROVE  Readings(t)[i] = ReadFrom(t, Readings(t), i) /\ ReadAt(t, i, Readings(t)[i])
<1>1. PICK n \in Nat : n = Len(t) + 1
  OBVIOUS
<1> DEFINE P(f) == f = [j \in 1..Len(t) + 1 |-> ReadFrom(t, f, j)]
<1>2. Readings(t) = CHOOSE f : P(f)
  BY DEF Readings
<1>3. \E f : P(f)
  BY ReadingsExist
<1>4. PICK f : f = Readings(t)
  OBVIOUS
<1>5. P(f)
  <2> HIDE DEF P
  <2> QED
    BY <1>2, <1>3, <1>4
<1>6. \A j \in 1..n : f[j] = ReadFrom(t, f, j)
  BY <1>1, <1>5
<1> DEFINE G == {m \in Nat : \A j \in 1..n : n - m < j => ReadAt(t, j, f[j])}
<1>7. 0 \in G
  OBVIOUS
<1>8. ASSUME NEW m \in Nat, m \in G  PROVE m + 1 \in G
  <2> SUFFICES ASSUME NEW j \in 1..n, n - (m + 1) < j  PROVE ReadAt(t, j, f[j])
    OBVIOUS
  <2>1. \A k \in j + 1..n : k \in 1..n /\ n - m < k
    OBVIOUS
  <2>2. \A k \in j + 1..Len(t) + 1 : f[k] = f[k] /\ ReadAt(t, k, f[k])
    BY <1>1, <1>8, <2>1
  <2>3. ReadAt(t, j, ReadFrom(t, f, j))
    BY <1>1, <2>2, ReadsAhead
  <2> QED
    BY <1>6, <2>3
<1> HIDE DEF G
<1>9. n \in G
  BY <1>7, <1>8, AllNaturals
<1>10. \A j \in 1..n : n - n < j
  OBVIOUS
<1>11. \A j \in 1..n : ReadAt(t, j, f[j])
  BY <1>9, <1>10 DEF G
<1> QED
  BY <1>1, <1>4, <1>6, <1>11

\* What the automata and what the grammar do at a character.
LEMMA NextInList ==
  ASSUME NEW c, NEW w \in {"init", "list", "squote"}
  PROVE  LET nst == next_char(w, c)
         IN  /\ nst = "fail" <=> w = "init" /\ c = Closing
             /\ nst = "exit" <=> (w = "list" /\ c = Closing) \/ (w = "squote" /\ c \in Breaks)
             /\ nst = "comment" <=> w # "squote" /\ c = Comment
             /\ nst = "nochg" <=> w # "squote" /\ c \in Blank
             /\ nst = "dquote" <=> c = "dquote"
             /\ nst = "squote" <=> c = "squote"
             /\ nst = "escape" <=> c = "escape"
             /\ nst = "list" <=> c = Opening
             /\ nst = "symbol" <=> c \notin Special
<1>1. CASE c = Closing
  BY <1>1, Zenon DEF next_char, init_next, list_next, squote_next, Closing, Opening, Comment, Breaks, Blank, Special
<1>2. CASE c = Comment
  BY <1>2, Zenon DEF next_char, init_next, list_next, squote_next, Closing, Opening, Comment, Breaks, Blank, Special
<1>3. CASE c \in Blank
  BY <1>3, Zenon DEF next_char, init_next, list_next, squote_next, Closing, Opening, Comment, Breaks, Blank, Special
<1>4. CASE c = "dquote"
  BY <1>4, Zenon DEF next_char, init_next, list_next, squote_next, Opens, Closing, Opening, Comment, Breaks, Blank, Special
<1>5. CASE c = "squote"
  BY <1>5, Zenon DEF next_char, init_next, list_next, squote_next, Opens, Closing, Opening, Comment, Breaks, Blank, Special
<1>6. CASE c = "escape"
  BY <1>6, Zenon DEF next_char, init_next, list_next, squote_next, Opens, Closing, Opening, Comment, Breaks, Blank, Special
<1>7. CASE c = Opening
  BY <1>7, Zenon DEF next_char, init_next, list_next, squote_next, Opens, Closing, Opening, Comment, Breaks, Blank, Special
<1>8. CASE c \notin Special
  BY <1>8, Zenon DEF next_char, init_next, list_next, squote_next, Opens, Closing, Opening, Comment, Breaks, Blank, Special
<1> QED
  BY <1>1, <1>2, <1>3, <1>4, <1>5, <1>6, <1>7, <1>8, Zenon DEF Special, Closing, Opening, Comment, Blank

LEMMA NextInWord ==
  ASSUME NEW c
  PROVE  /\ \A w \in {"symbol", "dquote"} :
              /\ next_char(w, c) = "escape" <=> c = "escape"
              /\ next_char(w, c) = "exit" <=> c \in Stop(w)
              /\ next_char(w, c) = "nochg" <=> c # "escape" /\ c \notin Stop(w)
         /\ next_char("comment", c) = "exit" <=> c = "newline"
         /\ next_char("comment", c) = "nochg" <=> c # "newline"
         /\ next_char("escape", c) = "exit" <=> c \in {"dquote", "escape", "n"}
         /\ next_char("escape", c) = "fail" <=> c \notin {"dquote", "escape", "n"}
<1>1. /\ next_char("symbol", c) = "escape" <=> c = "escape"
      /\ next_char("symbol", c) = "exit" <=> c \in Stop("symbol")
      /\ next_char("symbol", c) = "nochg" <=> c # "escape" /\ c \notin Stop("symbol")
  BY Characteristic, Zenon DEF next_char, symbol_next, Stop
<1>2. /\ next_char("dquote", c) = "escape" <=> c = "escape"
      /\ next_char("dquote", c) = "exit" <=> c \in Stop("dquote")
      /\ next_char("dquote", c) = "nochg" <=> c # "escape" /\ c \notin Stop("dquote")
  BY Zenon DEF next_char, dquote_next, Stop
<1>3. /\ next_char("comment", c) = "exit" <=> c = "newline"
      /\ next_char("comment", c) = "nochg" <=> c # "newline"
      /\ next_char("escape", c) = "exit" <=> c \in {"dquote", "escape", "n"}
      /\ next_char("escape", c) = "fail" <=> c \notin {"dquote", "escape", "n"}
  BY Zenon DEF next_char, comment_next, escape_next
<1> QED
  BY <1>1, <1>2, <1>3

LEMMA OntoNone ==
  ASSUME NEW r, IsResult(r)
  PROVE  Onto(<<>>, r) = r
BY JoinNone DEF Onto, IsResult

LEMMA OntoOnto ==
  ASSUME NEW a, IsSequence(a), NEW b, IsSequence(b), NEW r, IsResult(r)
  PROVE  Onto(a, Onto(b, r)) = Onto(a \o b, r)
<1>1. ASSUME NEW c, IsSequence(c)
      PROVE  (a \o b) \o c = a \o (b \o c)
  <2>1. PICK S : S = {a[i] : i \in DOMAIN a} \cup {b[i] : i \in DOMAIN b} \cup {c[i] : i \in DOMAIN c}
    OBVIOUS
  <2>2. a \in Seq(S) /\ b \in Seq(S) /\ c \in Seq(S)
    BY <1>1, <2>1 DEF IsSequence
  <2> QED
    BY <2>2, ConcatAssociative
<1>2. IsSequence(r.items)
  BY DEF IsResult
<1>3. (a \o b) \o r.items = a \o (b \o r.items)
  BY <1>1, <1>2
<1> QED
  BY <1>3 DEF Onto

LEMMA CommentReads ==
  ASSUME NEW S, NEW t \in Seq(S), NEW p \in 1..Len(t)
  PROVE  /\ t[p] = "newline" => CommentEnd(t, p) = p
         /\ t[p] # "newline" => CommentEnd(t, p) = CommentEnd(t, p + 1)
<1>1. PICK n \in Nat \ {0} : n = Len(t) /\ p \in 1..n /\ p \in 1..n + 1
  OBVIOUS
<1>2. PICK i : i = CommentEnd(t, p)
  OBVIOUS
<1>3. i \in p..n + 1 /\ (i = n + 1 \/ t[i] = "newline") /\ \A k \in p..i - 1 : t[k] # "newline"
  BY <1>1, <1>2, CommentEndIs
<1>4. PICK j : j = CommentEnd(t, p + 1)
  OBVIOUS
<1>5. j \in p + 1..n + 1 /\ (j = n + 1 \/ t[j] = "newline") /\ \A k \in p + 1..j - 1 : t[k] # "newline"
  <2>1. p + 1 \in 1..Len(t) + 1
    BY <1>1
  <2> QED
    BY <1>1, <1>4, <2>1, CommentEndIs
<1>6. CASE t[p] = "newline"
  <2>1. i # p => p \in p..i - 1
    BY <1>1, <1>3
  <2> QED
    BY <1>2, <1>3, <1>6, <2>1
<1>7. CASE t[p] # "newline"
  <2>1. i # p
    BY <1>1, <1>3, <1>7
  <2>2. i < j => i \in p + 1..j - 1 /\ i # n + 1
    BY <1>1, <1>3, <1>5, <2>1
  <2>3. j < i => j \in p..i - 1 /\ j # n + 1
    BY <1>1, <1>3, <1>5
  <2>4. i \in Nat /\ j \in Nat
    BY <1>1, <1>3, <1>5
  <2> QED
    BY <1>2, <1>3, <1>4, <1>5, <1>7, <2>2, <2>3, <2>4
<1> QED
  BY <1>6, <1>7

LEMMA ReadingOf ==
  ASSUME NEW S, NEW t \in Seq(S), NEW i \in 1..Len(t) + 1, NEW f, f = Readings(t)
  PROVE  /\ \A w \in {"init", "list", "squote"} : f[i][w] = Elements(t, f, i, w)
         /\ \A w \in {"symbol", "dquote"} : f[i][w] = Characters(t, f, i, w)
         /\ \A w \in Automatic : IsResult(f[i][w]) /\ (f[i][w].ok => f[i][w].at \in i..Len(t) + 1)
         /\ f[i]["dquote"].ok => f[i]["dquote"].at + 1 \in i..Len(t) + 1
<1>1. f[i] = ReadFrom(t, f, i) /\ ReadAt(t, i, f[i])
  BY ReadingsAre
<1>2. \A w \in {"init", "list", "squote"} : ReadFrom(t, f, i)[w] = Elements(t, f, i, w)
  BY DEF ReadFrom
<1>3. \A w \in {"symbol", "dquote"} : ReadFrom(t, f, i)[w] = Characters(t, f, i, w)
  BY DEF ReadFrom
<1>4. \A w \in Automatic : IsResult(f[i][w]) /\ (f[i][w].ok => f[i][w].at \in i..Len(t) + 1)
  BY <1>1 DEF ReadAt
<1>5. f[i]["dquote"].ok => f[i]["dquote"].at \in i..Len(t) + 1 /\ f[i]["dquote"].at # Len(t) + 1
  BY <1>1 DEF ReadAt, Automatic
<1>6. f[i]["dquote"].ok => f[i]["dquote"].at + 1 \in i..Len(t) + 1
  BY <1>5
<1> QED
  BY <1>1, <1>2, <1>3, <1>4, <1>6

LEMMA ListReads ==
  ASSUME NEW S, NEW t \in Seq(S), NEW p \in 1..Len(t), NEW f, f = Readings(t),
         NEW w \in {"init", "list", "squote"}, NEW c, c = t[p]
  PROVE  /\ w = "squote" /\ c \in Breaks => f[p][w] = Done(p)
         /\ w # "squote" /\ c \in Blank => f[p][w] = f[p + 1][w]
         /\ w # "squote" /\ c = Comment => f[p][w] = f[CommentEnd(t, p + 1)][w]
         /\ w = "list" /\ c = Closing => f[p][w] = Done(p + 1)
         /\ w = "init" /\ c = Closing => f[p][w] = Mistake
         /\ c = "dquote" => f[p][w] = Then(Named("dquote", <<>>, f[p + 1]["dquote"]), f, w)
         /\ c = Opening => f[p][w] = Then(Group(Onto(<<>>, f[p + 1]["list"])), f, w)
         /\ c = "squote" => f[p][w] = Then(Group(Onto(<<quote>>, f[p + 1]["squote"])), f, w)
         /\ c = "escape" => f[p][w] = Then(Named("symbol", <<>>, Escaped(t, f, p + 1, "symbol")), f, w)
         /\ c \notin Special => f[p][w] = Then(Named("symbol", <<>>, f[p]["symbol"]), f, w)
<1>1. PICK n \in Nat : n = Len(t) /\ p \in 1..n /\ p + 1 \in 1..n + 1 /\ p \in 1..n + 1 /\ ~ (p > n)
  OBVIOUS
<1>2. f[p][w] = Elements(t, f, p, w) /\ f[p]["symbol"] = Characters(t, f, p, "symbol")
  BY <1>1, ReadingOf
<1>3. w = "squote" /\ c \in Breaks => f[p][w] = Done(p)
  BY <1>1, <1>2 DEF Elements
<1>4. w # "squote" /\ c \in Blank => f[p][w] = f[p + 1][w]
  BY <1>1, <1>2 DEF Elements
<1>5. w # "squote" /\ c = Comment => f[p][w] = f[CommentEnd(t, p + 1)][w]
  <2>1. w # "squote" /\ c = Comment => f[p][w] = f[CommentEnd(t, p)][w]
    BY <1>1, <1>2, Characteristic DEF Elements
  <2> QED
    BY <2>1, Characteristic, CommentReads
<1>6. /\ w = "list" /\ c = Closing => f[p][w] = Done(p + 1)
      /\ w = "init" /\ c = Closing => f[p][w] = Mistake
  BY <1>1, <1>2, Characteristic DEF Elements
<1>7. c \notin Breaks => f[p][w] = Then(Element(t, f, p), f, w)
  BY <1>1, <1>2, Characteristic DEF Elements
<1>8. /\ c = "dquote" => Element(t, f, p) = Named("dquote", <<>>, f[p + 1]["dquote"])
      /\ c = Opening => Element(t, f, p) = Group(f[p + 1]["list"])
      /\ c = "squote" => Element(t, f, p) = Group(Onto(<<quote>>, f[p + 1]["squote"]))
      /\ c \notin {"dquote", Opening, "squote"} => Element(t, f, p) = Named("symbol", <<>>, f[p]["symbol"])
  BY <1>2, Characteristic DEF Element
<1>9. c = "escape" => f[p]["symbol"] = Escaped(t, f, p + 1, "symbol")
  BY <1>1, <1>2 DEF Characters, Stop
<1>10. Onto(<<>>, f[p + 1]["list"]) = f[p + 1]["list"]
  <2>1. IsResult(f[p + 1]["list"])
    BY <1>1, ReadingOf DEF Automatic
  <2> QED
    BY <2>1, OntoNone
<1> QED
  BY <1>3, <1>4, <1>5, <1>6, <1>7, <1>8, <1>9, <1>10, Characteristic

LEMMA WordReads ==
  ASSUME NEW S, NEW t \in Seq(S), NEW p \in 1..Len(t), NEW f, f = Readings(t),
         NEW w \in {"symbol", "dquote"}, NEW c, c = t[p]
  PROVE  /\ c \in Stop(w) => f[p][w] = Done(p)
         /\ c = "escape" => f[p][w] = Escaped(t, f, p + 1, w)
         /\ c # "escape" /\ c \notin Stop(w) => f[p][w] = Onto(<<c>>, f[p + 1][w])
<1>1. ~ (p > Len(t)) /\ p \in 1..Len(t) + 1
  OBVIOUS
<1>2. f[p][w] = Characters(t, f, p, w) /\ "escape" \notin Stop(w)
  BY <1>1, ReadingOf DEF Stop
<1> QED
  BY <1>1, <1>2 DEF Characters

\* Items that move between the lists under construction.
LEMMA OntoNothing ==
  ASSUME NEW a, IsSequence(a), NEW x, IsResult(x), x.items = <<>>
  PROVE  Onto(a, x).ok = x.ok /\ Onto(a, x).items = a /\ Onto(a, x).at = x.at
<1>1. a \o x.items = a
  BY JoinNone
<1> QED
  BY <1>1 DEF Onto

LEMMA ChainAdds ==
  ASSUME NEW f, NEW s, NEW its, NEW n \in Nat \ {0}, NEW v, NEW x, IsResult(x), IsSequence(its[n]),
         Chain(f, s, its, n, Onto(<<v>>, x)),
         NEW s2, \A k \in 1..n - 1 : s2[k] = s[k],
         NEW its2, its2[n] = Append(its[n], v), \A k \in 1..n - 1 : its2[k] = its[k]
  PROVE  Chain(f, s2, its2, n, x)
<1>1. Onto(its[n], Onto(<<v>>, x)) = Onto(Append(its[n], v), x)
  <2>1. PICK a : a = its[n] /\ IsSequence(a)
    OBVIOUS
  <2>2. PICK b : b = <<v>> /\ IsSequence(b)
    BY AppendJoins, EmptyIs
  <2>3. Onto(a, Onto(b, x)) = Onto(a \o b, x)
    BY <2>1, <2>2, OntoOnto
  <2>4. Append(a, v) = a \o b
    BY <2>1, <2>2, AppendJoins
  <2> QED
    BY <2>1, <2>2, <2>3, <2>4
<1> QED
  BY <1>1 DEF Chain

LEMMA ChainOpens ==
  ASSUME NEW f, NEW s, NEW its, NEW n \in Nat \ {0}, NEW new, NEW x,
         Chain(f, s, its, n, Then(Group(Onto(new, x)), f, s[n])),
         NEW s2, \A k \in 1..n : s2[k] = s[k],
         NEW its2, its2[n + 1] = new, \A k \in 1..n : its2[k] = its[k]
  PROVE  Chain(f, s2, its2, n + 1, x)
<1>1. PICK r : /\ r[1] = f[1]["init"]
               /\ r[n] = Onto(its[n], Then(Group(Onto(new, x)), f, s[n]))
               /\ \A k \in 1..n - 1 : r[k] = Onto(its[k], Then(Group(r[k + 1]), f, s[k]))
  BY DEF Chain
<1>2. PICK q : q = [k \in 1..n + 1 |-> IF k = n + 1 THEN Onto(new, x) ELSE r[k]]
  OBVIOUS
<1>3. q[n + 1] = Onto(new, x) /\ \A k \in 1..n : q[k] = r[k]
  BY <1>2
<1>4. q[1] = f[1]["init"] /\ q[n + 1] = Onto(its2[n + 1], x)
  BY <1>1, <1>3
<1>5. ASSUME NEW k \in 1..n  PROVE q[k] = Onto(its2[k], Then(Group(q[k + 1]), f, s2[k]))
  <2>1. CASE k = n
    BY <1>1, <1>3, <2>1
  <2>2. CASE k # n
    <3>1. k \in 1..n - 1 /\ k + 1 \in 1..n
      BY <2>2
    <3> QED
      BY <1>1, <1>3, <3>1
  <2> QED
    BY <2>1, <2>2
<1>6. \A k \in 1..(n + 1) - 1 : k \in 1..n
  OBVIOUS
<1> QED
  BY <1>4, <1>5, <1>6 DEF Chain

LEMMA ChainCloses ==
  ASSUME NEW f, NEW s, NEW its, NEW m \in Nat \ {0}, NEW n, n = m + 1, NEW p, Chain(f, s, its, n, Done(p)),
         IsSequence(its[n])
  PROVE  Chain(f, s, its, m, Onto(<<List(its[n])>>, f[p][s[m]]))
<1>1. PICK r : /\ r[1] = f[1]["init"]
               /\ r[m + 1] = Onto(its[m + 1], Done(p))
               /\ \A k \in 1..(m + 1) - 1 : r[k] = Onto(its[k], Then(Group(r[k + 1]), f, s[k]))
  BY Zenon DEF Chain
<1>2. PICK e : e = Group(r[m + 1]) /\ e.ok /\ e.val = List(its[m + 1]) /\ e.at = p
  <2>1. IsResult(Done(p)) /\ Done(p).ok /\ Done(p).items = <<>> /\ Done(p).at = p
    BY DoneIs
  <2>2. r[m + 1].ok /\ r[m + 1].items = its[m + 1] /\ r[m + 1].at = p
    BY <1>1, <2>1, OntoNothing
  <2> QED
    BY <2>2, GroupIs
<1>3. r[m] = Onto(its[m], Onto(<<List(its[m + 1])>>, f[p][s[m]]))
  <2>1. r[m] = Onto(its[m], Then(e, f, s[m]))
    BY <1>1, <1>2
  <2>2. Then(e, f, s[m]) = Onto(<<List(its[m + 1])>>, f[p][s[m]])
    BY <1>2 DEF Then
  <2> QED
    BY <2>1, <2>2
<1>4. \A k \in 1..m - 1 : k \in 1..(m + 1) - 1
  OBVIOUS
<1> QED
  BY <1>1, <1>3, <1>4 DEF Chain

LEMMA ChainFails ==
  ASSUME NEW f, NEW s, NEW its, NEW n \in Nat \ {0}, NEW x, IsResult(x), ~x.ok, x.items = <<>>,
         \A k \in 1..n : IsSequence(its[k]), Chain(f, s, its, n, x)
  PROVE  ~f[1]["init"].ok /\ f[1]["init"].items = its[1]
<1>1. PICK r : /\ r[1] = f[1]["init"] /\ r[n] = Onto(its[n], x)
               /\ \A k \in 1..n - 1 : r[k] = Onto(its[k], Then(Group(r[k + 1]), f, s[k]))
  BY DEF Chain
<1> DEFINE E == {k \in 1..n : ~r[k].ok /\ r[k].items = its[k]}
<1>2. ASSUME NEW k \in 1..n, NEW y, IsResult(y), ~y.ok, y.items = <<>>, r[k] = Onto(its[k], y)
      PROVE  k \in E
  <2>1. Onto(its[k], y).ok = y.ok /\ Onto(its[k], y).items = its[k]
    BY <1>2, OntoNothing
  <2> QED
    BY <1>2, <2>1
<1>3. n \in E
  BY <1>1, <1>2
<1>4. PICK k \in E : \A j \in E : k <= j
  <2>1. E \subseteq Nat /\ E # {}
    BY <1>3
  <2> HIDE DEF E
  <2> QED
    BY <2>1, LeastNatural
<1>5. k = 1
  <2>1. SUFFICES ASSUME k # 1  PROVE FALSE
    OBVIOUS
  <2>0. k \in 1..n
    BY <1>4
  <2>2. PICK j \in 1..n - 1 : j + 1 = k /\ ~ (k <= j) /\ j \in 1..n
    <3>1. k - 1 \in 1..n - 1 /\ (k - 1) + 1 = k /\ ~ (k <= k - 1) /\ k - 1 \in 1..n
      BY <2>0, <2>1
    <3> QED
      BY <3>1
  <2>3. ~Group(r[k]).ok
    BY <1>4, GroupIs
  <2>4. r[j] = Onto(its[j], Mistake)
    BY <1>1, <2>2, <2>3 DEF Then
  <2>5. j \in E
    BY <1>2, <2>2, <2>4, MistakeIs
  <2> QED
    BY <1>4, <2>2, <2>5
<1> QED
  BY <1>1, <1>4, <1>5

LEMMA ChainEnds ==
  ASSUME NEW f, NEW s, NEW its, NEW p, IsSequence(its[1]), Chain(f, s, its, 1, Done(p))
  PROVE  f[1]["init"].ok /\ f[1]["init"].items = its[1]
<1>1. f[1]["init"] = Onto(its[1], Done(p))
  BY DEF Chain
<1> QED
  <2>1. IsResult(Done(p)) /\ Done(p).ok /\ Done(p).items = <<>>
    BY DoneIs
  <2> QED
    BY <1>1, <2>1, OntoNothing

---------------------------------------------------------------------------
(* What is read of a text does not change while it is read.                *)

\* Above the automata with a list there is nothing, one automaton without one,
\* or an escape on a symbol or a string.
LEMMA TopIs ==
  ASSUME ParserInv, NEW n, n = Len(lists)
  PROVE  /\ n \in Nat \ {0} /\ ststk \in Seq(Automata)
         /\ \A k \in 1..n : ststk[k] \in {"init", "list", "squote"} /\ (ststk[k] = "init" <=> k = 1)
         /\ st \in Automata
         /\ st \in {"init", "list", "squote"} => Len(ststk) = n /\ ststk[n] = st
         /\ st \in {"symbol", "dquote", "comment"} => Len(ststk) = n + 1 /\ ststk[n + 1] = st
         /\ st = "escape" => Len(ststk) = n + 2 /\ ststk[n + 1] \in {"symbol", "dquote"}
<1>1. PICK s : s = ststk /\ s \in Seq(Automata) /\ s # <<>> /\ Fits(s) /\ n = Nesting(s)
  BY DEF ParserInv
<1>2. PICK m \in Nat \ {0} : m = Len(s) /\ m \in 1..m
  BY <1>1, EmptySeq
<1>3. PICK a \in Automata : a = st /\ a = s[m]
  BY <1>1, <1>2 DEF st
<1>4. n \in Nat \ {0} /\ n = m - (IF Nests(a) THEN 0 ELSE IF a = "escape" THEN 2 ELSE 1)
  BY <1>1, <1>2, <1>3, NestingCounts DEF Nesting
<1>5. \A i \in 1..m : i < m => Nests(s[i]) \/ (s[i] \in {"symbol", "dquote"} /\ s[i + 1] = "escape")
  BY <1>1, <1>2 DEF Fits
<1>6. \A i \in 1..m : s[i] = "escape" => i = m /\ s[i - 1] \in {"symbol", "dquote"}
  BY <1>1, <1>2 DEF Fits
<1>7. ASSUME NEW k \in 1..n  PROVE s[k] \in {"init", "list", "squote"} /\ (s[k] = "init" <=> k = 1)
  <2>1. k \in 1..m
    BY <1>4
  <2>2. s[k] = "init" <=> k = 1
    BY <1>1, <1>2, <2>1 DEF Fits
  <2>3. Nests(s[k])
    <3>1. CASE k = m
      <4>1. Nests(a)
        BY <1>4, <3>1
      <4> QED
        BY <1>3, <3>1, <4>1
    <3>2. CASE k # m
      <4>1. k < m /\ k + 1 \in 1..m
        BY <2>1, <3>2
      <4>2. s[k + 1] = "escape" => k + 1 = m /\ a = "escape"
        BY <1>3, <1>6, <4>1
      <4>3. a = "escape" => k + 1 # m
        BY <1>4 DEF Nests
      <4> QED
        BY <1>5, <2>1, <4>1, <4>2, <4>3
    <3> QED
      BY <3>1, <3>2
  <2> QED
    BY <2>2, <2>3 DEF Nests
<1>8. a = "escape" => m = n + 2 /\ s[n + 1] \in {"symbol", "dquote"}
  <2>1. SUFFICES ASSUME a = "escape"  PROVE m = n + 2 /\ s[n + 1] \in {"symbol", "dquote"}
    OBVIOUS
  <2>2. m = n + 2 /\ m - 1 = n + 1
    BY <1>4, <2>1 DEF Nests
  <2> QED
    BY <1>2, <1>3, <1>6, <2>1, <2>2
<1> QED
  BY <1>1, <1>2, <1>3, <1>4, <1>7, <1>8 DEF Nests

LEMMA InnerIs ==
  ASSUME NEW t, NEW f, NEW s, NEW n \in Nat, NEW b, NEW p
  PROVE  /\ Len(s) = n => Inner(t, f, s, n, b, p) = f[p][s[n]]
         /\ Len(s) = n + 1 /\ s[n + 1] = "comment" => Inner(t, f, s, n, b, p) = f[CommentEnd(t, p)][s[n]]
         /\ Len(s) = n + 1 /\ s[n + 1] \in {"symbol", "dquote"} =>
              Inner(t, f, s, n, b, p) = Then(Named(s[n + 1], b, f[p][s[n + 1]]), f, s[n])
         /\ Len(s) = n + 2 => Inner(t, f, s, n, b, p) = Then(Named(s[n + 1], b, Escaped(t, f, p, s[n + 1])), f, s[n])
<1>1. n + 1 # n /\ n + 2 # n /\ n + 1 # n + 2
  OBVIOUS
<1> QED
  BY <1>1 DEF Inner

LEMMA AtPlace ==
  ASSUME ParserAssumption, GrammarTypes, look # NoChar,
         NEW t \in Seq(Alphabet \cup {"newline"}), Continues(t)
  PROVE  Place \in 1..Len(t) /\ Place + 1 \in 1..Len(t) + 1 /\ t[Place] = look
<1>1. PICK n \in Nat : n = Len(text) /\ n <= Len(t) /\ text \in Seq(Alphabet) /\ ended \in BOOLEAN
  BY DEF Continues, GrammarTypes
<1>2. CASE ended
  <2>1. Place = n + 1 /\ Len(t) = n + 1 /\ look = "newline" /\ t[Len(t)] = "newline"
    BY <1>1, <1>2 DEF Place, Continues, GrammarTypes
  <2> QED
    BY <2>1
<1>3. CASE ~ended
  <2>1. Place = n /\ text # <<>> /\ look = text[n] /\ \A i \in 1..n : t[i] = text[i]
    BY <1>1, <1>3 DEF Place, Continues, GrammarTypes
  <2>2. n # 0
    BY <1>1, <2>1, EmptySeq
  <2> QED
    BY <1>1, <2>1, <2>2
<1> QED
  BY <1>2, <1>3

LEMMA Moved ==
  ASSUME ParserAssumption, GrammarTypes, look # NoChar, NEW nst, Consumed(nst), UNCHANGED <<text, ended>>
  PROVE  Place' = IF Handled(st, look, nst) THEN Place + 1 ELSE Place
<1>1. PICK m \in Nat : m = Len(text) + (IF ended THEN 1 ELSE 0)
  BY DEF GrammarTypes
<1>2. Place = m + 0 /\ (look' = NoChar => Place' = m + 1) /\ (look' = look => Place' = m + 0)
  BY <1>1 DEF Place
<1>3. look' = IF Handled(st, look, nst) THEN NoChar ELSE look
  BY DEF Consumed
<1> QED
  BY <1>2, <1>3

\* Names: those of the characters so far with what follows.
LEMMA NamedOnto ==
  ASSUME NEW w, NEW a, IsSequence(a), NEW c, NEW r, IsResult(r)
  PROVE  Named(w, a, Onto(<<c>>, r)) = Named(w, a \o <<c>>, r)
<1>1. PICK b : b = <<c>> /\ IsSequence(b)
  BY AppendJoins, EmptyIs
<1>2. Onto(a, Onto(b, r)) = Onto(a \o b, r)
  BY <1>1, OntoOnto
<1>3. a \o (b \o r.items) = (a \o b) \o r.items
  BY <1>2 DEF Onto
<1> QED
  BY <1>1, <1>3 DEF Named, Onto

\* What is read does not change while characters go into a name or are skipped.
LEMMA StayReads ==
  ASSUME ParserAssumption, ParserInv, GrammarTypes, Stay,
         NEW t \in Seq(Alphabet \cup {"newline"}), Continues(t), SoFar(t)
  PROVE  SoFar(t)'
<1>1. PICK f, n, p : f = Readings(t) /\ n = Len(lists) /\ p = Place
  OBVIOUS
<1>2. look # NoChar /\ p \in 1..Len(t) /\ p + 1 \in 1..Len(t) + 1 /\ t[p] = look
  BY <1>1, AtPlace DEF Stay
<1>3. /\ next_char(st, look) = "nochg" /\ ~Full(SymChar(st, look, "nochg"))
      /\ buf' = buf \o SymChar(st, look, "nochg") /\ Consumed("nochg")
      /\ UNCHANGED <<text, ended, ststk, lists, evaluated>>
  BY DEF Stay
<1>4. Place' = p + 1
  <2>1. Handled(st, look, "nochg")
    BY DEF Handled
  <2> QED
    BY <1>1, <1>2, <1>3, <2>1, Moved
<1>5. SoFar(t)' = Chain(f, ststk, Own, n, Inner(t, f, ststk, n, buf', p + 1))
  BY <1>1, <1>3, <1>4 DEF SoFar, Own
<1>6. SoFar(t) = Chain(f, ststk, Own, n, Inner(t, f, ststk, n, buf, p))
  BY <1>1 DEF SoFar
<1>7. Inner(t, f, ststk, n, buf', p + 1) = Inner(t, f, ststk, n, buf, p)
  <2>1. n \in Nat /\ ststk[n] \in {"init", "list", "squote"} /\ st \in Automata
    BY <1>1, TopIs
  <2>2. CASE st \in {"init", "list", "squote"}
    <3>1. Len(ststk) = n /\ ststk[n] = st
      BY <1>1, <2>2, TopIs
    <3>2. st # "squote" /\ look \in Blank
      BY <1>3, <2>2, NextInList
    <3>3. f[p][st] = f[p + 1][st]
      BY <1>1, <1>2, <2>2, <3>2, ListReads
    <3> QED
      BY <2>1, <3>1, <3>3, InnerIs
  <2>3. CASE st = "comment"
    <3>1. Len(ststk) = n + 1 /\ ststk[n + 1] = "comment"
      BY <1>1, <2>3, TopIs
    <3>2. look # "newline"
      BY <1>3, <2>3, NextInWord
    <3>3. CommentEnd(t, p) = CommentEnd(t, p + 1)
      BY <1>2, <3>2, CommentReads
    <3> QED
      BY <2>1, <3>1, <3>3, InnerIs
  <2>4. CASE st \in {"symbol", "dquote"}
    <3>1. Len(ststk) = n + 1 /\ ststk[n + 1] = st
      BY <1>1, <2>4, TopIs
    <3>2. look # "escape" /\ look \notin Stop(st)
      BY <1>3, <2>4, NextInWord
    <3>3. f[p][st] = Onto(<<look>>, f[p + 1][st]) /\ IsResult(f[p + 1][st])
      BY <1>1, <1>2, <2>4, <3>2, WordReads, ReadingOf DEF Automatic
    <3>4. buf' = buf \o <<look>> /\ IsSequence(buf)
      BY <1>3, <2>4 DEF SymChar, ParserInv
    <3>5. Named(st, buf, f[p][st]) = Named(st, buf', f[p + 1][st])
      BY <3>3, <3>4, NamedOnto
    <3> QED
      BY <2>1, <2>4, <3>1, <3>5, InnerIs
  <2>5. CASE st = "escape"
    BY <1>3, <2>5, NextInWord
  <2> QED
    BY <2>1, <2>2, <2>3, <2>4, <2>5 DEF Automata
<1> QED
  BY <1>5, <1>6, <1>7
\* An automaton that is left: its list, or its name, becomes an item.
ExitItems ==
  /\ ststk' = Below(ststk) /\ UNCHANGED <<text, ended>>
  /\ st # "init" /\ next_char(st, look) = "exit" /\ ~(st = "escape" /\ Full(SymChar(st, look, "exit")))
  /\ Consumed("exit")
  /\ buf' = IF st \in {"symbol", "dquote"} THEN << >>
            ELSE IF st = "escape" THEN buf \o SymChar(st, look, "exit") ELSE buf
  /\ Len(lists') = Len(lists) - (IF st \in {"list", "squote"} THEN 1 ELSE 0)
  /\ \A k \in 1..Len(lists') :
       Own'[k] = IF k < Len(lists') \/ st \in {"comment", "escape"} THEN Own[k]
                 ELSE Append(Own[k], IF st \in {"list", "squote"} THEN List(Own[k + 1]) ELSE Symbol(buf))

LEMMA ExitReads ==
  ASSUME ParserAssumption, ParserInv, GrammarTypes, look # NoChar, ExitItems,
         NEW t \in Seq(Alphabet \cup {"newline"}), Continues(t), SoFar(t)
  PROVE  SoFar(t)'
<1>1. PICK f, n, p : f = Readings(t) /\ n = Len(lists) /\ p = Place
  OBVIOUS
<1>2. p \in 1..Len(t) /\ p + 1 \in 1..Len(t) + 1 /\ t[p] = look /\ p \in 1..Len(t) + 1
  BY <1>1, AtPlace
<1>3. next_char(st, look) = "exit" /\ st # "init"
  BY DEF ExitItems
<1>4. Place' = IF st \in {"symbol", "squote"} THEN p ELSE p + 1
  BY <1>1, Moved DEF ExitItems, Handled
<1>5. PICK own, own2, s2, n2, b2, p2 :
        own = Own /\ own2 = Own' /\ s2 = ststk' /\ n2 = Len(lists') /\ b2 = buf' /\ p2 = Place'
  OBVIOUS
<1>6. SoFar(t)' = Chain(f, s2, own2, n2, Inner(t, f, s2, n2, b2, p2))
  BY <1>1, <1>5 DEF SoFar
<1>7. Chain(f, ststk, own, n, Inner(t, f, ststk, n, buf, p))
  BY <1>1, <1>5 DEF SoFar
<1>8. /\ n \in Nat \ {0} /\ ststk \in Seq(Automata) /\ st \in Automata
      /\ \A k \in 1..n : ststk[k] \in {"init", "list", "squote"} /\ (ststk[k] = "init" <=> k = 1)
  BY <1>1, TopIs
<1>9. \A k \in 1..n : IsSequence(own[k])
  BY <1>1, <1>5 DEF GrammarTypes
<1>10. \A w \in {"init", "list", "squote"} : IsResult(f[p2][w])
  <2>1. p2 \in 1..Len(t) + 1
    BY <1>2, <1>4, <1>5
  <2> QED
    BY <1>1, <2>1, ReadingOf DEF Automatic
<1>11. PICK m \in Nat : /\ m = Len(ststk) - 1 /\ Len(s2) = m
                        /\ \A k \in 1..m : s2[k] = ststk[k]
  <2>1. Len(ststk) \in Nat \ {0} /\ ststk # <<>>
    BY ParserShape DEF ParserInv
  <2>2. Len(s2) = Len(ststk) - 1 /\ \A k \in 1..Len(ststk) - 1 : s2[k] = ststk[k]
    BY <1>5, <1>8, <2>1, BelowIs DEF ExitItems
  <2> QED
    BY <2>1, <2>2
<1>15. /\ n2 = n - (IF st \in {"list", "squote"} THEN 1 ELSE 0)
       /\ \A k \in 1..n2 :
            own2[k] = IF k < n2 \/ st \in {"comment", "escape"} THEN own[k]
                      ELSE Append(own[k], IF st \in {"list", "squote"} THEN List(own[k + 1]) ELSE Symbol(buf))
  BY <1>1, <1>5 DEF ExitItems
<1>16. /\ st \in {"list", "squote"} => Len(ststk) = n /\ ststk[n] = st
       /\ st \in {"symbol", "dquote", "comment"} => Len(ststk) = n + 1 /\ ststk[n + 1] = st
       /\ st = "escape" => Len(ststk) = n + 2 /\ ststk[n + 1] \in {"symbol", "dquote"}
  BY <1>1, TopIs
<1>12. CASE st \in {"list", "squote"}
  <2>1. Len(ststk) = n /\ ststk[n] = st /\ m = n - 1 /\ n2 = m /\ n = m + 1
    BY <1>8, <1>11, <1>12, <1>15, <1>16
  <2>2. n # 1
    BY <1>8, <1>12, <2>1
  <2>3. m \in Nat \ {0} /\ m \in 1..n /\ m + 1 \in 1..n /\ m \in 1..m
    BY <1>8, <2>1, <2>2
  <2>4. f[p][st] = Done(p2)
    BY <1>1, <1>2, <1>3, <1>4, <1>5, <1>12, NextInList, ListReads
  <2>5. Chain(f, ststk, own, m + 1, Done(p2))
    BY <1>7, <1>8, <2>1, <2>4, InnerIs
  <2>6. own2[m] = Append(own[m], List(own[m + 1])) /\ \A k \in 1..m - 1 : own2[k] = own[k]
    <3>1. \A k \in 1..m - 1 : k \in 1..m /\ k < m
      BY <2>3
    <3>2. ~ (m < m) /\ st \notin {"comment", "escape"}
      BY <1>12
    <3> QED
      BY <1>12, <1>15, <2>1, <2>3, <3>1, <3>2
  <2>7. Chain(f, s2, own2, m, f[p2][ststk[m]])
    <3>1. IsSequence(own[m]) /\ IsSequence(own[m + 1]) /\ IsResult(f[p2][ststk[m]])
      BY <1>8, <1>9, <1>10, <2>3
    <3>2. \A k \in 1..m - 1 : s2[k] = ststk[k]
      BY <1>11
    <3>3. Chain(f, ststk, own, m, Onto(<<List(own[n])>>, f[p2][ststk[m]]))
      BY <2>1, <2>3, <2>5, <3>1, ChainCloses
    <3>4. own2[m] = Append(own[m], List(own[n])) /\ \A k \in 1..m - 1 : own2[k] = own[k]
      BY <2>1, <2>6
    <3> QED
      BY <2>3, <3>1, <3>2, <3>3, <3>4, ChainAdds
  <2>8. Inner(t, f, s2, n2, b2, p2) = f[p2][ststk[m]]
    BY <1>11, <2>1, <2>3, InnerIs
  <2> QED
    BY <1>6, <2>1, <2>7, <2>8
<1>13. CASE st \in {"symbol", "dquote"}
  <2>1. Len(ststk) = n + 1 /\ ststk[n + 1] = st /\ m = n /\ n2 = n /\ n \in 1..n
    BY <1>8, <1>11, <1>13, <1>15, <1>16
  <2>2. f[p][st] = Done(p)
    <3>1. look \in Stop(st)
      BY <1>3, <1>13, NextInWord
    <3>2. f[p][st] = Characters(t, f, p, st)
      BY <1>1, <1>2, <1>13, ReadingOf
    <3>3. ~ (p > Len(t))
      BY <1>2
    <3> QED
      BY <1>2, <3>1, <3>2, <3>3 DEF Characters
  <2>3. PICK e : e = Named(st, buf, Done(p)) /\ e.ok /\ e.val = Symbol(buf) /\ e.at = p2
    <3>1. Done(p).ok /\ Done(p).items = <<>> /\ Done(p).at = p
      BY DoneIs
    <3>2. buf \o Done(p).items = buf /\ Len(buf) < BufSize
      <4>1. buf \o <<>> = buf /\ Len(buf) < BufSize
        BY JoinNone DEF ParserInv
      <4> QED
        BY <3>1, <4>1
    <3> QED
      <4>1. PICK e : e = Named(st, buf, Done(p))
        OBVIOUS
      <4>2. e.ok /\ e.val = Symbol(buf) /\ e.at = IF st = "dquote" THEN p + 1 ELSE p
        <5>1. PICK r : r = Done(p) /\ r.ok /\ r.at = p /\ buf \o r.items = buf
          BY <3>1, <3>2
        <5>2. e = Named(st, buf, r)
          BY <4>1, <5>1
        <5>3. e.ok <=> r.ok /\ Len(buf \o r.items) < BufSize
          BY <5>2, NamedIs
        <5>4. e.val = Symbol(buf \o r.items) /\ e.at = IF st = "dquote" THEN r.at + 1 ELSE r.at
          BY <5>2, NamedIs
        <5> QED
          BY <3>2, <5>1, <5>3, <5>4
      <4>3. p2 = IF st = "dquote" THEN p + 1 ELSE p
        BY <1>4, <1>5, <1>13
      <4> QED
        BY <4>1, <4>2, <4>3
  <2>4. Then(e, f, ststk[n]) = Onto(<<Symbol(buf)>>, f[p2][ststk[n]])
    BY <2>3 DEF Then
  <2>5. Chain(f, ststk, own, n, Onto(<<Symbol(buf)>>, f[p2][ststk[n]]))
    BY <1>7, <1>8, <1>13, <2>1, <2>2, <2>3, <2>4, InnerIs
  <2>6. own2[n] = Append(own[n], Symbol(buf)) /\ \A k \in 1..n - 1 : own2[k] = own[k]
    <3>1. \A k \in 1..n - 1 : k \in 1..n /\ k < n
      BY <1>8
    <3>2. ~ (n < n) /\ st \notin {"comment", "escape", "list", "squote"}
      BY <1>8, <1>13
    <3> QED
      BY <1>15, <2>1, <3>1, <3>2
  <2>7. Chain(f, s2, own2, n, f[p2][ststk[n]])
    <3>1. IsSequence(own[n]) /\ IsResult(f[p2][ststk[n]])
      BY <1>8, <1>9, <1>10, <2>1
    <3>2. \A k \in 1..n - 1 : s2[k] = ststk[k]
      BY <1>8, <1>11, <2>1
    <3> QED
      BY <1>8, <2>5, <2>6, <3>1, <3>2, ChainAdds
  <2>8. Inner(t, f, s2, n2, b2, p2) = f[p2][ststk[n]]
    BY <1>8, <1>11, <2>1, InnerIs
  <2> QED
    BY <1>6, <2>1, <2>7, <2>8
<1>14. CASE st \in {"comment", "escape"}
  <2>1. n2 = n /\ \A k \in 1..n : own2[k] = own[k]
    BY <1>1, <1>5, <1>8, <1>14 DEF ExitItems
  <2>2. m \in {n, n + 1} /\ \A k \in 1..n : s2[k] = ststk[k]
    BY <1>8, <1>11, <1>14, <1>16
  <2>3. Inner(t, f, s2, n, b2, p2) = Inner(t, f, ststk, n, buf, p)
    <3>1. CASE st = "comment"
      <4>1. Len(ststk) = n + 1 /\ ststk[n + 1] = "comment" /\ m = n /\ n \in 1..n
        BY <1>8, <1>11, <1>16, <3>1
      <4>2. p2 = p + 1 /\ look = "newline"
        BY <1>3, <1>4, <1>5, <3>1, NextInWord
      <4>3. CommentEnd(t, p) = p
        BY <1>2, <4>2, CommentReads
      <4>4. ststk[n] # "squote" /\ ststk[n] \in {"init", "list", "squote"}
        <5>1. ststk[Len(ststk) - 1] # "squote"
          BY <3>1 DEF GrammarTypes
        <5> QED
          BY <1>8, <1>11, <4>1, <5>1
      <4>5. f[p][ststk[n]] = f[p + 1][ststk[n]]
        BY <1>1, <1>2, <4>2, <4>4, ListReads DEF Blank
      <4> QED
        BY <1>8, <1>11, <4>1, <4>2, <4>3, <4>5, <2>2, InnerIs
    <3>2. CASE st = "escape"
      <4>1. PICK w \in {"symbol", "dquote"} : Len(ststk) = n + 2 /\ ststk[n + 1] = w /\ m = n + 1 /\ s2[n + 1] = w
        <5>1. Len(ststk) = n + 2 /\ ststk[n + 1] \in {"symbol", "dquote"} /\ m = n + 1 /\ n + 1 \in 1..m
          BY <1>8, <1>11, <1>16, <3>2
        <5> QED
          BY <1>11, <5>1
      <4>2. p2 = p + 1 /\ look \in {"dquote", "escape", "n"}
        BY <1>3, <1>4, <1>5, <3>2, NextInWord
      <4>3. PICK d : d = IF look = "n" THEN "newline" ELSE look
        OBVIOUS
      <4>4. Escaped(t, f, p, w) = Onto(<<d>>, f[p2][w])
        BY <1>2, <4>2, <4>3 DEF Escaped
      <4>5. b2 = buf \o <<d>>
        BY <1>5, <3>2, <4>3 DEF ExitItems, SymChar
      <4>6. Named(w, buf, Onto(<<d>>, f[p2][w])) = Named(w, b2, f[p2][w])
        <5>1. IsSequence(buf)
          BY DEF ParserInv
        <5>2. IsResult(f[p2][w])
          BY <1>1, <1>2, <4>2, ReadingOf DEF Automatic
        <5> QED
          BY <4>5, <5>1, <5>2, NamedOnto
      <4>7. Inner(t, f, ststk, n, buf, p) = Then(Named(w, buf, Escaped(t, f, p, w)), f, ststk[n])
        BY <1>8, <4>1, InnerIs
      <4>8. Inner(t, f, s2, n, b2, p2) = Then(Named(w, b2, f[p2][w]), f, s2[n])
        BY <1>8, <1>11, <4>1, InnerIs
      <4>9. s2[n] = ststk[n]
        BY <1>8, <2>2
      <4> QED
        BY <4>4, <4>6, <4>7, <4>8, <4>9
    <3> QED
      BY <1>14, <3>1, <3>2
  <2>4. Chain(f, s2, own2, n, Inner(t, f, ststk, n, buf, p))
    <3>1. \A k \in 1..n - 1 : k \in 1..n /\ own2[k] = own[k] /\ s2[k] = ststk[k]
      BY <1>8, <2>1, <2>2
    <3>2. own2[n] = own[n]
      BY <1>8, <2>1
    <3> QED
      BY <1>7, <3>1, <3>2 DEF Chain
  <2> QED
    BY <1>6, <2>1, <2>3, <2>4
<1> QED
  BY <1>3, <1>8, <1>12, <1>13, <1>14 DEF Automata

LEMMA ChainSame ==
  ASSUME NEW f, NEW s, NEW its, NEW n \in Nat \ {0}, NEW x, Chain(f, s, its, n, x),
         NEW s2, \A k \in 1..n - 1 : s2[k] = s[k], NEW its2, \A k \in 1..n : its2[k] = its[k]
  PROVE  Chain(f, s2, its2, n, x)
<1>1. its2[n] = its[n] /\ \A k \in 1..n - 1 : its2[k] = its[k]
  OBVIOUS
<1> QED
  BY <1>1 DEF Chain

LEMMA OwnIs ==
  ASSUME ParserInv
  PROVE  Own[1] = evaluated /\ \A k \in 1..Len(lists) : k # 1 => Own[k] = lists[k]
<1>1. 1 \in 1..Len(lists)
  BY ParserShape
<1> QED
  BY <1>1 DEF Own

LEMMA OwnOpens ==
  ASSUME ParserInv, NEW new, lists' = Append(lists, new), UNCHANGED evaluated
  PROVE  /\ Len(lists') = Len(lists) + 1 /\ Own'[Len(lists) + 1] = new
         /\ \A k \in 1..Len(lists) : Own'[k] = Own[k]
<1>1. PICK n : n = Len(lists) /\ n \in Nat \ {0} /\ IsSequence(lists)
  BY ParserShape DEF ParserInv
<1>2. Len(lists') = n + 1 /\ lists'[n + 1] = new
  BY <1>1, ListsAppend
<1>3. \A k \in 1..n : lists'[k] = lists[k]
  BY <1>1, ListsAppend
<1>4. n + 1 \in 1..n + 1 /\ n + 1 # 1 /\ \A k \in 1..n : k \in 1..n + 1
  BY <1>1
<1>5. Own' = [k \in 1..n + 1 |-> IF k = 1 THEN evaluated ELSE lists'[k]]
  BY <1>2 DEF Own
<1>6. Own = [k \in 1..n |-> IF k = 1 THEN evaluated ELSE lists[k]]
  BY <1>1 DEF Own
<1> QED
  BY <1>1, <1>2, <1>3, <1>4, <1>5, <1>6

\* An automaton above init, or above another one, is left.
LEMMA ExitIs ==
  ASSUME ParserAssumption, ParserInv, GrammarTypes, Exit
  PROVE  ExitItems
<1>1. PICK n : n = Len(lists) /\ n \in Nat \ {0}
  BY TopIs
<1>2. /\ next_char(st, look) = "exit" /\ ~Full(SymChar(st, look, "exit"))
      /\ ststk[Len(ststk) - 1] # "init" /\ Consumed("exit") /\ ExitLists(st) /\ ststk' = Below(ststk)
      /\ buf' = IF st \in {"symbol", "dquote"} THEN <<>> ELSE buf \o SymChar(st, look, "exit")
      /\ UNCHANGED <<text, ended, evaluated>>
  BY DEF Exit
<1>3. st \in Automata /\ st # "init"
  BY <1>2, ParserShape, NextChars
<1>4. /\ \A k \in 1..n : ststk[k] \in {"init", "list", "squote"} /\ (ststk[k] = "init" <=> k = 1)
      /\ st \in {"list", "squote"} => Len(ststk) = n /\ ststk[n] = st
      /\ st \in {"symbol", "dquote", "comment"} => Len(ststk) = n + 1 /\ ststk[n + 1] = st
  BY <1>1, TopIs
<1>5. /\ IsSequence(lists) /\ lists # <<>>
      /\ Own[1] = evaluated /\ \A k \in 1..n : k # 1 => Own[k] = lists[k]
  BY <1>1, ParserShape, OwnIs DEF ParserInv
<1>6. ParserInv'
  BY ExitKeeps
<1>7. Own'[1] = evaluated /\ \A k \in 1..Len(lists') : k # 1 => Own'[k] = lists'[k]
  <2>1. 1 \in 1..Len(lists')
    <3>1. PICK s : s = ststk' /\ s \in Seq(Automata) /\ s # <<>> /\ Fits(s) /\ Len(lists') = Nesting(s)
      BY <1>6 DEF ParserInv
    <3>2. Nesting(s) \in Nat \ {0}
      BY <3>1, NestingCounts
    <3> QED
      BY <3>1, <3>2
  <2> QED
    BY <1>2, <2>1 DEF Own
<1>8. /\ Len(lists') = n - (IF st \in {"list", "squote"} THEN 1 ELSE 0)
      /\ \A k \in 1..Len(lists') :
           Own'[k] = IF k < Len(lists') \/ st \in {"comment", "escape"} THEN Own[k]
                     ELSE Append(Own[k], IF st \in {"list", "squote"} THEN List(Own[k + 1]) ELSE Symbol(buf))
  <2>1. CASE st \in {"list", "squote"}
    <3>1. n - 1 \in Nat /\ n - 1 # 0 /\ n - 1 # 1
      <4>1. n # 1 /\ ststk[n - 1] # "init"
        BY <1>1, <1>2, <1>3, <1>4, <2>1
      <4>2. n - 1 \in 1..n
        BY <1>1, <4>1
      <4> QED
        BY <1>1, <1>4, <4>1, <4>2
    <3>2. PICK e : e = Append(Below(lists)[n - 1], List(open)) /\ lists' = Append(Below(Below(lists)), e)
      BY <1>1, <1>2, <2>1 DEF ExitLists
    <3>3. /\ Len(lists') = n - 1 /\ lists'[n - 1] = e /\ Below(lists)[n - 1] = lists[n - 1]
          /\ \A k \in 1..n - 2 : lists'[k] = lists[k]
      <4>1. Len(lists) > 1 /\ Len(lists) - 1 = n - 1 /\ Len(lists) - 2 = n - 2
        BY <1>1, <3>1
      <4>2. /\ Len(lists') = Len(lists) - 1 /\ lists'[Len(lists) - 1] = e
            /\ Below(lists)[Len(lists) - 1] = lists[Len(lists) - 1]
        <5>1. PICK w : w = lists' /\ w = Append(Below(Below(lists)), e)
          BY <3>2
        <5>2. Len(w) = Len(lists) - 1 /\ w[Len(lists) - 1] = e /\ Below(lists)[Len(lists) - 1] = lists[Len(lists) - 1]
          BY <1>5, <4>1, <5>1, ListsClose
        <5> QED
          BY <5>1, <5>2
      <4>3. \A k \in 1..Len(lists) - 2 : lists'[k] = lists[k]
        <5>1. PICK w : w = lists' /\ w = Append(Below(Below(lists)), e)
          BY <3>2
        <5>2. \A k \in 1..Len(lists) - 2 : w[k] = lists[k]
          BY <1>5, <4>1, <5>1, ListsClose
        <5> QED
          BY <5>1, <5>2
      <4> QED
        BY <4>1, <4>2, <4>3
    <3>4. lists'[n - 1] = Append(Own[n - 1], List(Own[n]))
      <4>1. Own[n - 1] = lists[n - 1] /\ Own[n] = lists[n] /\ open = lists[n]
        <5>1. n - 1 \in 1..n /\ n \in 1..n /\ n # 1
          BY <1>1, <3>1
        <5> QED
          BY <1>1, <1>5, <3>1, <5>1 DEF open
      <4> QED
        BY <3>2, <3>3, <4>1
    <3>5. ASSUME NEW k \in 1..n - 1
          PROVE  Own'[k] = IF k < n - 1 THEN Own[k] ELSE Append(Own[k], List(Own[k + 1]))
      <4>1. CASE k = n - 1
        <5>1. Own'[k] = lists'[n - 1] /\ k + 1 = n
          BY <1>1, <1>7, <3>1, <3>3, <4>1
        <5> QED
          BY <1>1, <3>4, <4>1, <5>1
      <4>2. CASE k # n - 1 /\ k = 1
        BY <1>1, <1>5, <1>7, <4>2, <3>1
      <4>3. CASE k # n - 1 /\ k # 1
        <5>1. k \in 1..n - 2 /\ k \in 1..n /\ k < n - 1
          BY <1>1, <3>1, <4>3
        <5> QED
          BY <1>5, <1>7, <3>3, <4>3, <5>1
      <4> QED
        BY <4>1, <4>2, <4>3
    <3> QED
      BY <2>1, <3>3, <3>5
  <2>2. CASE st \in {"symbol", "dquote"}
    <3>1. n # 1 /\ n \in 1..n
      <4>1. (n + 1) - 1 = n /\ 1 \in 1..n
        BY <1>1
      <4> QED
        BY <1>1, <1>2, <1>4, <2>2, <4>1
    <3>2. PICK e : e = Append(lists[n], Symbol(buf)) /\ lists' = [lists EXCEPT ![Len(lists)] = e]
      BY <1>1, <1>2, <2>2 DEF ExitLists, Add
    <3>3. Len(lists') = n /\ lists'[n] = e /\ \A k \in 1..n - 1 : lists'[k] = lists[k]
      <4>1. Len(lists') = Len(lists) /\ lists'[Len(lists)] = e
        BY <1>5, <3>2, ListsAdd
      <4>2. \A k \in 1..Len(lists) - 1 : lists'[k] = lists[k]
        BY <1>5, <3>2, ListsAdd
      <4> QED
        BY <1>1, <4>1, <4>2
    <3>4. ASSUME NEW k \in 1..n
          PROVE  Own'[k] = IF k < n THEN Own[k] ELSE Append(Own[k], Symbol(buf))
      <4>1. CASE k = n
        BY <1>1, <1>5, <1>7, <3>1, <3>2, <3>3, <4>1
      <4>2. CASE k # n /\ k = 1
        BY <1>5, <1>7, <4>2, <3>1, <1>1
      <4>3. CASE k # n /\ k # 1
        <5>1. k \in 1..n - 1 /\ k < n
          BY <1>1, <4>3
        <5> QED
          BY <1>5, <1>7, <3>3, <4>3, <5>1
      <4> QED
        BY <4>1, <4>2, <4>3
    <3> QED
      BY <1>1, <2>2, <3>3, <3>4
  <2>3. CASE st \in {"comment", "escape"}
    <3>1. lists' = lists
      BY <1>2, <2>3 DEF ExitLists
    <3>2. Own' = Own
      BY <1>2, <3>1 DEF Own
    <3> QED
      BY <1>1, <2>3, <3>1, <3>2
  <2> QED
    BY <1>3, <2>1, <2>2, <2>3 DEF Automata
<1>9. buf' = IF st \in {"symbol", "dquote"} THEN << >>
             ELSE IF st = "escape" THEN buf \o SymChar(st, look, "exit") ELSE buf
  <2>1. CASE st \in {"list", "squote", "comment"}
    <3>1. SymChar(st, look, "exit") = <<>>
      BY <2>1 DEF SymChar
    <3>2. buf \o <<>> = buf
      BY JoinNone DEF ParserInv
    <3> QED
      BY <1>2, <2>1, <3>1, <3>2
  <2> QED
    BY <1>2, <1>3, <2>1 DEF Automata
<1> QED
  BY <1>1, <1>2, <1>3, <1>8, <1>9 DEF ExitItems

LEMMA ExitToInitIs ==
  ASSUME ParserAssumption, ParserInv, GrammarTypes, ExitToInit
  PROVE  ExitItems
<1>1. PICK n : n = Len(lists) /\ n \in Nat \ {0}
  BY TopIs
<1>2. /\ next_char(st, look) = "exit" /\ ststk[Len(ststk) - 1] = "init"
      /\ Consumed("exit") /\ ststk' = Below(ststk) /\ lists' = <<<<>>>>
      /\ buf' = IF st \in {"symbol", "dquote"} THEN <<>> ELSE buf
      /\ UNCHANGED <<text, ended>>
  BY DEF ExitToInit
<1>3. st \in Automata /\ st # "init"
  BY <1>2, ParserShape, NextChars
<1>4. /\ \A k \in 1..n : ststk[k] \in {"init", "list", "squote"} /\ (ststk[k] = "init" <=> k = 1)
      /\ st \in {"list", "squote"} => Len(ststk) = n /\ ststk[n] = st
      /\ st \in {"symbol", "dquote", "comment"} => Len(ststk) = n + 1 /\ ststk[n + 1] = st
      /\ st = "escape" => Len(ststk) = n + 2 /\ ststk[n + 1] \in {"symbol", "dquote"}
  BY <1>1, TopIs
<1>5. Own[1] = evaluated /\ \A k \in 1..n : k # 1 => Own[k] = lists[k]
  BY <1>1, OwnIs
<1>6. st # "escape"
  <2>1. (n + 2) - 1 = n + 1
    BY <1>1
  <2> QED
    BY <1>2, <1>4, <2>1
<1>7. n = IF st \in {"list", "squote"} THEN 2 ELSE 1
  <2>1. CASE st \in {"list", "squote"}
    <3>1. n # 1 /\ ststk[n - 1] = "init"
      BY <1>1, <1>2, <1>3, <1>4, <2>1
    <3>2. n - 1 \in 1..n
      BY <1>1, <3>1
    <3>3. n - 1 = 1
      BY <1>4, <3>1, <3>2
    <3>4. n = 2
      <4>1. n \in Nat
        BY <1>1
      <4> QED
        BY <3>3, <4>1
    <3> QED
      BY <2>1, <3>4
  <2>2. CASE st \in {"symbol", "dquote", "comment"}
    <3>1. (n + 1) - 1 = n /\ n \in 1..n
      BY <1>1
    <3> QED
      BY <1>2, <1>4, <2>2, <3>1
  <2> QED
    BY <1>3, <1>6, <2>1, <2>2 DEF Automata
<1>8. Len(lists') = 1 /\ Own'[1] = evaluated'
  <2>1. Len(lists') = 1 /\ 1 \in 1..Len(lists')
    BY <1>2
  <2> QED
    BY <2>1 DEF Own
<1>9. evaluated' = IF st = "comment" THEN Own[1]
                   ELSE Append(Own[1], IF st \in {"list", "squote"} THEN List(Own[2]) ELSE Symbol(buf))
  <2>1. IsSequence(evaluated)
    BY <1>1, <1>5 DEF GrammarTypes
  <2>2. \A e : Append(evaluated, e) = evaluated \o <<e>>
    BY <2>1, AppendJoins
  <2>3. evaluated \o <<>> = evaluated
    BY <2>1, JoinNone
  <2>4. CASE st \in {"list", "squote"}
    <3>1. evaluated' = evaluated \o <<List(open)>>
      BY <2>4 DEF ExitToInit
    <3>2. open = Own[2]
      <4>1. n = 2 /\ 2 \in 1..n /\ 2 # 1
        BY <1>7, <2>4
      <4> QED
        BY <1>1, <1>5, <4>1 DEF open
    <3> QED
      BY <1>5, <2>2, <2>4, <3>1, <3>2
  <2>5. CASE st \in {"symbol", "dquote"}
    <3>1. evaluated' = evaluated \o <<Symbol(buf)>>
      BY <2>5 DEF ExitToInit
    <3> QED
      BY <1>5, <2>2, <2>5, <3>1
  <2>6. CASE st = "comment"
    <3>1. evaluated' = evaluated \o <<>>
      BY <2>6 DEF ExitToInit
    <3> QED
      BY <1>5, <2>3, <2>6, <3>1
  <2> QED
    BY <1>3, <1>6, <2>4, <2>5, <2>6 DEF Automata
<1>10. \A k \in 1..Len(lists') : k = 1 /\ k + 1 = 2 /\ ~ (k < Len(lists'))
  BY <1>8
<1>11. \A k \in 1..Len(lists') :
         Own'[k] = IF k < Len(lists') \/ st \in {"comment", "escape"} THEN Own[k]
                   ELSE Append(Own[k], IF st \in {"list", "squote"} THEN List(Own[k + 1]) ELSE Symbol(buf))
  <2>1. SUFFICES ASSUME NEW k \in 1..Len(lists')
                 PROVE  Own'[k] = IF k < Len(lists') \/ st \in {"comment", "escape"} THEN Own[k]
                        ELSE Append(Own[k], IF st \in {"list", "squote"} THEN List(Own[k + 1]) ELSE Symbol(buf))
    OBVIOUS
  <2>2. k = 1 /\ k + 1 = 2 /\ ~ (k < Len(lists'))
    BY <1>10
  <2> QED
    BY <1>6, <1>8, <1>9, <2>2
<1>12. Len(lists') = Len(lists) - (IF st \in {"list", "squote"} THEN 1 ELSE 0)
  BY <1>1, <1>7, <1>8
<1> QED
  BY <1>2, <1>3, <1>6, <1>11, <1>12 DEF ExitItems

\* An automaton is entered above one with a list.
LEMMA EnterReads ==
  ASSUME ParserAssumption, ParserInv, GrammarTypes, Enter,
         NEW t \in Seq(Alphabet \cup {"newline"}), Continues(t), SoFar(t)
  PROVE  SoFar(t)'
<1>1. PICK f, n, p : f = Readings(t) /\ n = Len(lists) /\ p = Place
  OBVIOUS
<1>2. look # NoChar /\ p \in 1..Len(t) /\ p + 1 \in 1..Len(t) + 1 /\ t[p] = look
  BY <1>1, AtPlace DEF Enter
<1>3. PICK nst : /\ nst = next_char(st, look) /\ nst \in {"list", "squote", "symbol", "dquote", "comment"}
                 /\ ststk' = Append(ststk, nst) /\ Consumed(nst)
                 /\ lists' = CASE nst = "list"   -> Append(lists, << >>)
                               [] nst = "squote" -> Append(lists, <<quote>>)
                               [] OTHER -> lists
                 /\ buf' = IF nst \in {"symbol", "dquote"} THEN << >> ELSE buf
                 /\ UNCHANGED <<text, ended, evaluated>>
  BY DEF Enter
<1>4. Place' = IF nst = "symbol" THEN p ELSE p + 1
  <2>1. Handled(st, look, nst) <=> nst # "symbol"
    BY <1>3 DEF Handled
  <2> QED
    BY <1>1, <1>2, <1>3, <2>1, Moved
<1>5. PICK w \in {"init", "list", "squote"} : w = st
  <2>1. st \in Automata
    BY ParserShape
  <2> QED
    BY <1>3, <2>1, NextChars DEF Automata
<1>6. n \in Nat \ {0} /\ ststk \in Seq(Automata) /\ Len(ststk) = n /\ ststk[n] = w
  BY <1>1, <1>5, TopIs
<1>7. PICK own, own2, s2, n2, b2, p2 :
        own = Own /\ own2 = Own' /\ s2 = ststk' /\ n2 = Len(lists') /\ b2 = buf' /\ p2 = Place'
  OBVIOUS
<1>8. SoFar(t)' = Chain(f, s2, own2, n2, Inner(t, f, s2, n2, b2, p2))
  BY <1>1, <1>7 DEF SoFar
<1>9. Chain(f, ststk, own, n, f[p][w])
  <2>1. Chain(f, ststk, own, n, Inner(t, f, ststk, n, buf, p))
    BY <1>1, <1>7 DEF SoFar
  <2> QED
    BY <1>6, <2>1, InnerIs
<1>10. Len(s2) = n + 1 /\ s2[n + 1] = nst /\ \A k \in 1..n : s2[k] = ststk[k]
  <2>1. nst \in Automata
    BY <1>3 DEF Automata
  <2> QED
    BY <1>3, <1>6, <1>7, <2>1
<1>13. /\ w # "squote" /\ look = Comment => f[p][w] = f[CommentEnd(t, p + 1)][w]
       /\ look = "dquote" => f[p][w] = Then(Named("dquote", <<>>, f[p + 1]["dquote"]), f, w)
       /\ look = Opening => f[p][w] = Then(Group(Onto(<<>>, f[p + 1]["list"])), f, w)
       /\ look = "squote" => f[p][w] = Then(Group(Onto(<<quote>>, f[p + 1]["squote"])), f, w)
       /\ look \notin Special => f[p][w] = Then(Named("symbol", <<>>, f[p]["symbol"]), f, w)
  <2>1. PICK c : c = look /\ c = t[p]
    BY <1>2
  <2>2. /\ w # "squote" /\ c = Comment => f[p][w] = f[CommentEnd(t, p + 1)][w]
        /\ c = "dquote" => f[p][w] = Then(Named("dquote", <<>>, f[p + 1]["dquote"]), f, w)
        /\ c = Opening => f[p][w] = Then(Group(Onto(<<>>, f[p + 1]["list"])), f, w)
        /\ c = "squote" => f[p][w] = Then(Group(Onto(<<quote>>, f[p + 1]["squote"])), f, w)
        /\ c \notin Special => f[p][w] = Then(Named("symbol", <<>>, f[p]["symbol"]), f, w)
    BY <1>1, <1>2, <2>1, ListReads
  <2> QED
    BY <2>1, <2>2
<1>14. /\ nst = "comment" => w # "squote" /\ look = Comment
       /\ nst = "dquote" => look = "dquote"
       /\ nst = "squote" => look = "squote"
       /\ nst = "list" => look = Opening
       /\ nst = "symbol" => look \notin Special
  <2>1. next_char(w, look) = nst
    BY <1>3, <1>5
  <2> QED
    BY <2>1, NextInList
<1>11. CASE nst \in {"list", "squote"}
  <2>1. PICK new : new = IF nst = "list" THEN <<>> ELSE <<quote>>
    OBVIOUS
  <2>2. lists' = Append(lists, new)
    BY <1>3, <1>11, <2>1
  <2>3. n2 = n + 1 /\ own2[n + 1] = new /\ \A k \in 1..n : own2[k] = own[k]
    BY <1>1, <1>3, <1>7, <2>2, OwnOpens
  <2>4. p2 = p + 1 /\ f[p][w] = Then(Group(Onto(new, f[p + 1][nst])), f, w)
    <3>1. CASE nst = "list"
      <4>1. look = Opening
        BY <1>14, <3>1
      <4> QED
        BY <1>4, <1>7, <1>13, <2>1, <3>1, <4>1
    <3>2. CASE nst = "squote"
      <4>1. look = "squote"
        BY <1>14, <3>2
      <4> QED
        BY <1>4, <1>7, <1>13, <2>1, <3>2, <4>1
    <3> QED
      BY <1>11, <3>1, <3>2
  <2>5. Chain(f, ststk, own, n, Then(Group(Onto(new, f[p + 1][nst])), f, ststk[n]))
    BY <1>6, <1>9, <2>4
  <2>6. Chain(f, s2, own2, n + 1, f[p + 1][nst])
    <3>1. \A k \in 1..n : s2[k] = ststk[k] /\ own2[k] = own[k]
      BY <1>10, <2>3
    <3>2. own2[n + 1] = new
      BY <2>3
    <3>3. PICK x : x = f[p + 1][nst]
      OBVIOUS
    <3>4. Chain(f, ststk, own, n, Then(Group(Onto(new, x)), f, ststk[n]))
      BY <2>5, <3>3
    <3>5. Chain(f, s2, own2, n + 1, x)
      BY <1>6, <3>1, <3>2, <3>4, ChainOpens
    <3> QED
      BY <3>3, <3>5
  <2>7. Inner(t, f, s2, n + 1, b2, p + 1) = f[p + 1][nst]
    BY <1>6, <1>10, InnerIs
  <2> QED
    BY <1>8, <2>3, <2>4, <2>6, <2>7
<1>12. CASE nst \in {"symbol", "dquote", "comment"}
  <2>1. n2 = n /\ own2 = own
    BY <1>1, <1>3, <1>7, <1>12 DEF Own
  <2>2. Inner(t, f, s2, n, b2, p2) = f[p][w]
    <3>1. n \in 1..n /\ s2[n] = w
      BY <1>6, <1>10
    <3>2. CASE nst = "symbol"
      <4>1. look \notin Special /\ p2 = p /\ b2 = <<>>
        BY <1>3, <1>4, <1>7, <1>14, <3>2
      <4>2. f[p][w] = Then(Named("symbol", <<>>, f[p]["symbol"]), f, w)
        BY <1>13, <4>1
      <4>3. Inner(t, f, s2, n, b2, p2) = Then(Named("symbol", b2, f[p2]["symbol"]), f, s2[n])
        BY <1>6, <1>10, <3>2, InnerIs
      <4> QED
        BY <3>1, <4>1, <4>2, <4>3
    <3>3. CASE nst = "dquote"
      <4>1. look = "dquote" /\ p2 = p + 1 /\ b2 = <<>>
        BY <1>3, <1>4, <1>7, <1>14, <3>3
      <4>2. f[p][w] = Then(Named("dquote", <<>>, f[p + 1]["dquote"]), f, w)
        BY <1>13, <4>1
      <4>3. Inner(t, f, s2, n, b2, p2) = Then(Named("dquote", b2, f[p2]["dquote"]), f, s2[n])
        BY <1>6, <1>10, <3>3, InnerIs
      <4> QED
        BY <3>1, <4>1, <4>2, <4>3
    <3>4. CASE nst = "comment"
      <4>1. w # "squote" /\ look = Comment /\ p2 = p + 1
        BY <1>3, <1>4, <1>7, <1>14, <3>4
      <4>2. f[p][w] = f[CommentEnd(t, p + 1)][w]
        BY <1>13, <4>1
      <4>3. Inner(t, f, s2, n, b2, p2) = f[CommentEnd(t, p2)][s2[n]]
        BY <1>6, <1>10, <3>4, InnerIs
      <4> QED
        BY <3>1, <4>1, <4>2, <4>3
    <3> QED
      BY <1>12, <3>2, <3>3, <3>4
  <2>3. Chain(f, s2, own, n, f[p][w])
    <3>1. \A k \in 1..n - 1 : s2[k] = ststk[k]
      BY <1>6, <1>10
    <3> QED
      BY <1>6, <1>9, <3>1, ChainSame
  <2> QED
    BY <1>8, <2>1, <2>2, <2>3
<1> QED
  BY <1>3, <1>11, <1>12

\* An escape, in a symbol or a string or at the start of a symbol.
LEMMA EscapeReads ==
  ASSUME ParserAssumption, ParserInv, GrammarTypes, Escape,
         NEW t \in Seq(Alphabet \cup {"newline"}), Continues(t), SoFar(t)
  PROVE  SoFar(t)'
<1>1. PICK f, n, p : f = Readings(t) /\ n = Len(lists) /\ p = Place
  OBVIOUS
<1>2. look # NoChar /\ p \in 1..Len(t) /\ p + 1 \in 1..Len(t) + 1 /\ t[p] = look
  BY <1>1, AtPlace DEF Escape
<1>3. /\ next_char(st, look) = "escape" /\ Consumed("escape")
      /\ IF st \in {"symbol", "dquote"}
         THEN ststk' = Append(ststk, "escape") /\ buf' = buf
         ELSE ststk' = ststk \o <<"symbol", "escape">> /\ buf' = << >>
      /\ UNCHANGED <<text, ended, lists, evaluated>>
  BY DEF Escape
<1>4. Place' = p + 1
  <2>1. Handled(st, look, "escape")
    BY DEF Handled
  <2> QED
    BY <1>1, <1>2, <1>3, <2>1, Moved
<1>5. st \in {"init", "list", "squote", "symbol", "dquote"}
  <2>1. st \in Automata
    BY ParserShape
  <2> QED
    BY <1>3, <2>1, NextChars DEF Automata
<1>6. /\ n \in Nat \ {0} /\ ststk \in Seq(Automata) /\ ststk[n] \in {"init", "list", "squote"}
      /\ st \in {"init", "list", "squote"} => Len(ststk) = n /\ ststk[n] = st
      /\ st \in {"symbol", "dquote"} => Len(ststk) = n + 1 /\ ststk[n + 1] = st
  BY <1>1, TopIs
<1>7. PICK own, s2, b2 : own = Own /\ s2 = ststk' /\ b2 = buf'
  OBVIOUS
<1>8. SoFar(t)' = Chain(f, s2, own, n, Inner(t, f, s2, n, b2, p + 1))
  BY <1>1, <1>3, <1>4, <1>7 DEF SoFar, Own
<1>9. Chain(f, ststk, own, n, Inner(t, f, ststk, n, buf, p))
  BY <1>1, <1>7 DEF SoFar
<1>10. SUFFICES /\ \A k \in 1..n - 1 : s2[k] = ststk[k]
                /\ Inner(t, f, s2, n, b2, p + 1) = Inner(t, f, ststk, n, buf, p)
  BY <1>6, <1>8, <1>9, ChainSame
<1>11. "symbol" \in Automata /\ "escape" \in Automata
  BY DEF Automata
<1>12. CASE st \in {"symbol", "dquote"}
  <2>1. look = "escape"
    BY <1>3, <1>12, NextInWord
  <2>2. f[p][st] = Escaped(t, f, p + 1, st)
    <3>1. PICK w \in {"symbol", "dquote"} : w = st
      BY <1>12
    <3>2. PICK S, c : S = Alphabet \cup {"newline"} /\ t \in Seq(S) /\ c = t[p] /\ c = "escape"
      BY <1>2, <2>1
    <3>3. p \in 1..Len(t) /\ f = Readings(t)
      BY <1>1, <1>2
    <3>4. c = "escape" => f[p][w] = Escaped(t, f, p + 1, w)
      <4>1. f[p][w] = Characters(t, f, p, w) /\ ~ (p > Len(t)) /\ "escape" \notin Stop(w)
        BY <3>1, <3>2, <3>3, ReadingOf DEF Stop
      <4> QED
        BY <3>1, <3>2, <3>3, <4>1 DEF Characters
    <3> QED
      BY <3>1, <3>2, <3>4
  <2>3. s2 = Append(ststk, "escape") /\ b2 = buf
    BY <1>3, <1>7, <1>12
  <2>4. Len(s2) = n + 2 /\ s2[n + 1] = st /\ \A k \in 1..n : s2[k] = ststk[k]
    BY <1>6, <1>11, <1>12, <2>3
  <2>5. Inner(t, f, ststk, n, buf, p) = Then(Named(st, buf, f[p][st]), f, ststk[n])
    BY <1>6, <1>12, InnerIs
  <2>6. Inner(t, f, s2, n, b2, p + 1) = Then(Named(st, b2, Escaped(t, f, p + 1, st)), f, s2[n])
    BY <1>6, <2>4, InnerIs
  <2>7. s2[n] = ststk[n] /\ \A k \in 1..n - 1 : s2[k] = ststk[k]
    BY <1>6, <2>4
  <2> QED
    BY <2>2, <2>3, <2>5, <2>6, <2>7
<1>13. CASE st \in {"init", "list", "squote"}
  <2>1. look = "escape"
    BY <1>3, <1>13, NextInList
  <2>2. f[p][st] = Then(Named("symbol", <<>>, Escaped(t, f, p + 1, "symbol")), f, st)
    BY <1>1, <1>2, <1>13, <2>1, ListReads
  <2>3. s2 = ststk \o <<"symbol", "escape">> /\ b2 = <<>>
    BY <1>3, <1>7, <1>13
  <2>4. Len(s2) = n + 2 /\ s2[n + 1] = "symbol" /\ \A k \in 1..n : s2[k] = ststk[k]
    <3>1. s2 = Append(Append(ststk, "symbol"), "escape")
      BY <1>6, <1>11, <2>3
    <3> QED
      BY <1>6, <1>11, <1>13, <3>1
  <2>5. Inner(t, f, ststk, n, buf, p) = f[p][st]
    BY <1>6, <1>13, InnerIs
  <2>6. Inner(t, f, s2, n, b2, p + 1) = Then(Named("symbol", b2, Escaped(t, f, p + 1, "symbol")), f, s2[n])
    BY <1>6, <2>4, InnerIs
  <2>7. s2[n] = st /\ \A k \in 1..n - 1 : s2[k] = ststk[k]
    BY <1>6, <1>13, <2>4
  <2> QED
    BY <2>2, <2>3, <2>5, <2>6, <2>7
<1> QED
  BY <1>5, <1>12, <1>13

\* A new character changes nothing that has been read.
LEMMA FetchReads ==
  ASSUME ParserAssumption, ParserInv, GrammarTypes, (\E c \in Alphabet : Fetch(c)) \/ FetchLast,
         NEW t \in Seq(Alphabet \cup {"newline"}), Continues(t)', Continues(t) => SoFar(t)
  PROVE  SoFar(t)'
<1>1. PICK n \in Nat : n = Len(text) /\ text \in Seq(Alphabet)
  BY DEF GrammarTypes
<1>2. look = NoChar /\ ~ended /\ UNCHANGED <<ststk, lists, buf, evaluated>>
  BY DEF Fetch, FetchLast
<1>3. Continues(t) /\ Place' = n + 1
  <2>1. CASE FetchLast
    <3>1. text' = text /\ look' = "newline" /\ ended' = TRUE
      BY <2>1 DEF FetchLast
    <3>2. Len(t) = n + 1 /\ \A i \in 1..n : t[i] = text[i]
      BY <1>1, <3>1 DEF Continues
    <3>3. Continues(t)
      BY <1>1, <1>2, <3>2 DEF Continues
    <3>4. Place' = n + 1
      BY <1>1, <3>1 DEF Place, NoChar
    <3> QED
      BY <3>3, <3>4
  <2>2. CASE \E c \in Alphabet : Fetch(c)
    <3>1. PICK c \in Alphabet : text' = Append(text, c) /\ look' = c /\ ended' = ended
      BY <2>2 DEF Fetch
    <3>2. Len(text') = n + 1 /\ \A i \in 1..n : text'[i] = text[i] /\ i \in 1..n + 1
      BY <1>1, <3>1
    <3>3. Len(text') <= Len(t) /\ \A i \in 1..Len(text') : t[i] = text'[i]
      BY DEF Continues
    <3>4. n <= Len(t) /\ \A i \in 1..n : t[i] = text[i]
      BY <3>2, <3>3
    <3>5. Continues(t)
      BY <1>1, <1>2, <3>4 DEF Continues
    <3>6. look' # NoChar
      BY <3>1 DEF ParserAssumption
    <3>7. Place' = n + 1
      BY <1>2, <3>1, <3>2, <3>6 DEF Place
    <3> QED
      BY <3>5, <3>7
  <2> QED
    BY <2>1, <2>2
<1>4. Place = n + 1
  BY <1>1, <1>2 DEF Place
<1> QED
  BY <1>2, <1>3, <1>4 DEF SoFar, Own

---------------------------------------------------------------------------
(* The end of reading, and the invariant.                                  *)

\* The text so far with the line feed behind it is one that may come.
LEMMA WholeText ==
  ASSUME GrammarTypes, NEW t, t = Append(text, "newline")
  PROVE  t \in Seq(Alphabet \cup {"newline"}) /\ Continues(t) /\ Len(t) = Len(text) + 1
<1>1. PICK S : S = Alphabet \cup {"newline"} /\ text \in Seq(S) /\ "newline" \in S
  <2>1. PICK S : S = Alphabet \cup {"newline"}
    OBVIOUS
  <2>2. text \in Seq(S) /\ "newline" \in S
    BY <2>1 DEF GrammarTypes
  <2> QED
    BY <2>1, <2>2
<1>2. /\ t \in Seq(S) /\ Len(t) = Len(text) + 1 /\ Len(text) \in Nat
      /\ t[Len(text) + 1] = "newline" /\ \A i \in 1..Len(text) : t[i] = text[i]
  BY <1>1
<1> QED
  BY <1>1, <1>2 DEF Continues

LEMMA NoName ==
  ASSUME ParserAssumption, NEW w, NEW b, IsSequence(b), NEW f, NEW u
  PROVE  /\ Then(Named(w, b, Mistake), f, u) = Mistake
         /\ \A c, r : IsResult(r) /\ Len(b) >= BufSize - 1 =>
              Then(Named(w, b, Onto(<<c>>, r)), f, u) = Mistake
<1>1. Then(Named(w, b, Mistake), f, u) = Mistake
  <2>1. ~Named(w, b, Mistake).ok
    BY NamedIs, MistakeIs
  <2> QED
    BY <2>1 DEF Then
<1>2. ASSUME NEW c, NEW r, IsResult(r), Len(b) >= BufSize - 1
      PROVE  Then(Named(w, b, Onto(<<c>>, r)), f, u) = Mistake
  <2>1. PICK d : d = <<c>> /\ IsSequence(d) /\ Len(d) = 1
    <3>1. Len(<<c>>) = 1
      OBVIOUS
    <3>2. IsSequence(<<c>>)
      BY AppendJoins, EmptyIs
    <3> QED
      BY <3>1, <3>2
  <2>2. PICK a : a = b \o d /\ IsSequence(a) /\ Len(a) = Len(b) + Len(d)
    BY <2>1, JoinAny
  <2>3. IsSequence(r.items) /\ Len(a \o r.items) = Len(a) + Len(r.items)
    BY <1>2, <2>2, JoinAny DEF IsResult
  <2>4. Len(r.items) \in Nat /\ Len(b) \in Nat /\ BufSize \in Nat
    BY <2>3 DEF IsSequence, ParserAssumption
  <2>5. ~ (Len(a \o r.items) < BufSize)
    <3>1. PICK i \in Nat, j \in Nat : i = Len(r.items) /\ j = Len(b)
      BY <2>4
    <3>2. Len(a \o r.items) = j + 1 + i
      BY <2>1, <2>2, <2>3, <3>1
    <3>3. j >= BufSize - 1
      BY <1>2, <3>1
    <3> QED
      BY <2>4, <3>2, <3>3
  <2>6. ~Named(w, a, r).ok
    BY <2>5, NamedIs
  <2>7. Named(w, b, Onto(<<c>>, r)) = Named(w, a, r)
    BY <1>2, <2>1, <2>2, NamedOnto
  <2> QED
    BY <2>6, <2>7 DEF Then
<1> QED
  BY <1>1, <1>2

\* A reader that stops at a mistake has evaluated what precedes it.
LEMMA MistakeEvaluates ==
  ASSUME ParserAssumption, ParserInv, GrammarTypes,
         NEW t, t = Append(text, "newline"), SoFar(t), status' = "error", UNCHANGED <<text, evaluated>>,
         Inner(t, Readings(t), ststk, Len(lists), buf, Place) = Mistake
  PROVE  EvaluatesText'
<1>1. PICK n, f : n = Len(lists) /\ f = Readings(t)
  OBVIOUS
<1>2. n \in Nat \ {0} /\ Own[1] = evaluated /\ \A k \in 1..n : IsSequence(Own[k])
  BY <1>1, OwnIs, TopIs DEF GrammarTypes
<1>3. Chain(f, ststk, Own, n, Mistake)
  BY <1>1 DEF SoFar
<1>4. ~f[1]["init"].ok /\ f[1]["init"].items = evaluated
  <2>1. PICK its : its = Own /\ its[1] = evaluated /\ \A k \in 1..n : IsSequence(its[k])
    BY <1>2
  <2>2. ~f[1]["init"].ok /\ f[1]["init"].items = its[1]
    BY <1>2, <1>3, <2>1, MistakeIs, ChainFails
  <2> QED
    BY <2>1, <2>2
<1>5. f[1]["init"].ok \in BOOLEAN
  <2>1. t \in Seq(Alphabet \cup {"newline"}) /\ Len(t) = Len(text) + 1 /\ Len(text) \in Nat
    BY WholeText DEF GrammarTypes
  <2>2. IsResult(f[1]["init"])
    <3>1. 1 \in 1..Len(t) + 1
      BY <2>1
    <3> QED
      BY <1>1, <2>1, <3>1, ReadingOf DEF Automatic
  <2> QED
    BY <2>2 DEF IsResult
<1>6. Reading(text)' = f[1]["init"]
  BY <1>1 DEF Reading
<1>7. status' # "done"
  OBVIOUS
<1> QED
  BY <1>4, <1>5, <1>6, <1>7 DEF EvaluatesText

LEMMA FailEvaluates ==
  ASSUME ParserAssumption, ParserInv, GrammarTypes, Fail,
         \A t \in Seq(Alphabet \cup {"newline"}) : Continues(t) => SoFar(t)
  PROVE  EvaluatesText'
<1>1. PICK t : t = Append(text, "newline") /\ t \in Seq(Alphabet \cup {"newline"}) /\ Continues(t)
  BY WholeText
<1>2. PICK f, n, p : f = Readings(t) /\ n = Len(lists) /\ p = Place
  OBVIOUS
<1>3. look # NoChar /\ p \in 1..Len(t) + 1 /\ p + 1 \in 1..Len(t) + 1 /\ t[p] = look /\ ~ (p > Len(t))
  <2>1. look # NoChar
    BY DEF Fail
  <2>2. p \in 1..Len(t) /\ p + 1 \in 1..Len(t) + 1 /\ t[p] = look
    BY <1>1, <1>2, <2>1, AtPlace
  <2> QED
    BY <2>1, <2>2
<1>4. PICK nst : nst = next_char(st, look) /\ (nst = "fail" \/ Full(SymChar(st, look, nst)))
  BY DEF Fail
<1>5. /\ n \in Nat \ {0} /\ st \in Automata
      /\ st \in {"init", "list", "squote"} => Len(ststk) = n /\ ststk[n] = st
      /\ st \in {"symbol", "dquote", "comment"} => Len(ststk) = n + 1 /\ ststk[n + 1] = st
      /\ st = "escape" => Len(ststk) = n + 2 /\ ststk[n + 1] \in {"symbol", "dquote"}
  BY <1>2, TopIs
<1>6. IsSequence(buf)
  BY DEF ParserInv
<1>7. Inner(t, f, ststk, n, buf, p) = Mistake
  <2>1. CASE st \in {"init", "list", "squote"}
    <3>1. nst = "fail"
      BY <1>4, <2>1 DEF Full, SymChar
    <3>2. st = "init" /\ look = Closing
      <4>1. PICK w \in {"init", "list", "squote"} : w = st /\ next_char(w, look) = "fail"
        BY <1>4, <2>1, <3>1
      <4> QED
        BY <4>1, NextInList
    <3>3. f[p]["init"] = Mistake
      <4>1. f[p]["init"] = Elements(t, f, p, "init")
        BY <1>1, <1>2, <1>3, ReadingOf
      <4> QED
        BY <1>3, <3>2, <4>1, Characteristic DEF Elements
    <3> QED
      BY <1>5, <3>2, <3>3, InnerIs
  <2>2. CASE st = "comment"
    BY <1>4, <2>2, NextInWord DEF Full, SymChar
  <2>3. CASE st \in {"symbol", "dquote"}
    <3>1. nst = "nochg" /\ Len(buf) >= BufSize - 1
      <4>1. nst # "fail"
        BY <1>4, <2>3, NextChars
      <4> QED
        BY <1>4, <2>3, <4>1 DEF Full, SymChar
    <3>2. look # "escape" /\ look \notin Stop(st)
      <4>1. PICK w \in {"symbol", "dquote"} : w = st /\ next_char(w, look) = "nochg"
        BY <1>4, <2>3, <3>1
      <4> QED
        BY <4>1, NextInWord
    <3>3. f[p][st] = Onto(<<look>>, f[p + 1][st]) /\ IsResult(f[p + 1][st])
      <4>1. f[p][st] = Characters(t, f, p, st)
        BY <1>1, <1>2, <1>3, <2>3, ReadingOf
      <4>2. IsResult(f[p + 1][st])
        BY <1>1, <1>2, <1>3, <2>3, ReadingOf DEF Automatic
      <4> QED
        BY <1>3, <3>2, <4>1, <4>2 DEF Characters
    <3>4. Inner(t, f, ststk, n, buf, p) = Then(Named(st, buf, f[p][st]), f, ststk[n])
      BY <1>5, <2>3, InnerIs
    <3> QED
      BY <1>6, <3>1, <3>3, <3>4, NoName
  <2>4. CASE st = "escape"
    <3>1. PICK w \in {"symbol", "dquote"} : w = ststk[n + 1] /\ Len(ststk) = n + 2
      BY <1>5, <2>4
    <3>2. Inner(t, f, ststk, n, buf, p) = Then(Named(w, buf, Escaped(t, f, p, w)), f, ststk[n])
      BY <1>5, <3>1, InnerIs
    <3>3. CASE look \notin {"dquote", "escape", "n"}
      <4>1. Escaped(t, f, p, w) = Mistake
        BY <1>3, <3>3 DEF Escaped
      <4> QED
        BY <1>6, <3>2, <4>1, NoName
    <3>4. CASE look \in {"dquote", "escape", "n"}
      <4>1. nst = "exit"
        BY <1>4, <2>4, <3>4, NextInWord
      <4>2. Len(buf) >= BufSize - 1
        BY <1>4, <4>1 DEF Full
      <4>3. PICK d : d = IF look = "n" THEN "newline" ELSE look
        OBVIOUS
      <4>4. Escaped(t, f, p, w) = Onto(<<d>>, f[p + 1][w])
        BY <1>3, <3>4, <4>3 DEF Escaped
      <4>5. IsResult(f[p + 1][w])
        BY <1>1, <1>2, <1>3, ReadingOf DEF Automatic
      <4>6. Then(Named(w, buf, Onto(<<d>>, f[p + 1][w])), f, ststk[n]) = Mistake
        <5>1. PICK r : r = f[p + 1][w] /\ IsResult(r)
          BY <4>5
        <5>2. Then(Named(w, buf, Onto(<<d>>, r)), f, ststk[n]) = Mistake
          BY <1>6, <4>2, <5>1, NoName
        <5> QED
          BY <5>1, <5>2
      <4> QED
        BY <3>2, <4>4, <4>6
    <3> QED
      BY <3>3, <3>4
  <2> QED
    BY <1>5, <2>1, <2>2, <2>3, <2>4 DEF Automata
<1>8. status' = "error" /\ UNCHANGED <<text, evaluated>>
  BY DEF Fail
<1> QED
  BY <1>1, <1>2, <1>7, <1>8, MistakeEvaluates

LEMMA FinishEvaluates ==
  ASSUME ParserAssumption, ParserInv, GrammarTypes, Finish,
         \A t \in Seq(Alphabet \cup {"newline"}) : Continues(t) => SoFar(t)
  PROVE  EvaluatesText'
<1>1. PICK t : t = Append(text, "newline") /\ t \in Seq(Alphabet \cup {"newline"}) /\ Continues(t)
              /\ Len(t) = Len(text) + 1
  BY WholeText
<1>2. PICK f, n, p : f = Readings(t) /\ n = Len(lists) /\ p = Place
  OBVIOUS
<1>3. ended /\ look = NoChar /\ UNCHANGED <<text, evaluated>>
      /\ status' = IF st = "init" /\ n = 1 THEN "done" ELSE "error"
  BY <1>2 DEF Finish
<1>4. p > Len(t) /\ p \in 1..Len(t) + 1
  <2>1. Len(text) \in Nat /\ p = Len(text) + 1 + 1
    BY <1>2, <1>3 DEF Place, GrammarTypes
  <2> QED
    BY <1>1, <2>1
<1>5. /\ n \in Nat \ {0} /\ st \in Automata
      /\ \A k \in 1..n : ststk[k] = "init" <=> k = 1
      /\ st \in {"init", "list", "squote"} => Len(ststk) = n /\ ststk[n] = st
      /\ st \in {"symbol", "dquote"} => Len(ststk) = n + 1 /\ ststk[n + 1] = st
      /\ st = "escape" => Len(ststk) = n + 2 /\ ststk[n + 1] \in {"symbol", "dquote"}
  BY <1>2, TopIs
<1>6. IsSequence(buf) /\ st # "comment"
  BY <1>3 DEF ParserInv, GrammarTypes
<1>7. /\ f[p]["init"] = Done(p) /\ f[p]["list"] = Mistake /\ f[p]["squote"] = Mistake
      /\ f[p]["symbol"] = Mistake /\ f[p]["dquote"] = Mistake
  <2>1. /\ \A w \in {"init", "list", "squote"} : f[p][w] = Elements(t, f, p, w)
        /\ \A w \in {"symbol", "dquote"} : f[p][w] = Characters(t, f, p, w)
    BY <1>1, <1>2, <1>4, ReadingOf
  <2> QED
    BY <1>4, <2>1 DEF Elements, Characters
<1>8. CASE st = "init"
  <2>1. n = 1 /\ status' = "done"
    <3>1. n \in 1..n /\ ststk[n] = "init"
      BY <1>5, <1>8
    <3>2. n = 1
      BY <1>5, <3>1
    <3> QED
      BY <1>3, <1>8, <3>2
  <2>2. Inner(t, f, ststk, n, buf, p) = Done(p)
    BY <1>5, <1>7, <1>8, InnerIs
  <2>3. Chain(f, ststk, Own, 1, Done(p))
    BY <1>1, <1>2, <2>1, <2>2 DEF SoFar
  <2>4. Own[1] = evaluated /\ IsSequence(evaluated)
    <3>1. 1 \in 1..n
      BY <2>1
    <3> QED
      BY <1>2, <3>1, OwnIs DEF GrammarTypes
  <2>5. f[1]["init"].ok /\ f[1]["init"].items = evaluated
    <3>1. PICK its : its = Own
      OBVIOUS
    <3>2. f[1]["init"].ok /\ f[1]["init"].items = its[1]
      BY <2>3, <2>4, <3>1, ChainEnds
    <3> QED
      BY <2>4, <3>1, <3>2
  <2>6. f[1]["init"].ok \in BOOLEAN
    <3>1. 1 \in 1..Len(t) + 1
      BY <1>1
    <3>2. IsResult(f[1]["init"])
      BY <1>1, <1>2, <3>1, ReadingOf DEF Automatic
    <3> QED
      BY <3>2 DEF IsResult
  <2>7. Reading(text)' = f[1]["init"]
    BY <1>1, <1>2, <1>3 DEF Reading
  <2> QED
    BY <1>3, <2>1, <2>5, <2>6, <2>7 DEF EvaluatesText
<1>9. CASE st # "init"
  <2>1. status' = "error"
    BY <1>3, <1>9
  <2>2. Inner(t, f, ststk, n, buf, p) = Mistake
    <3>1. CASE st \in {"list", "squote"}
      BY <1>5, <1>7, <3>1, InnerIs
    <3>2. CASE st \in {"symbol", "dquote"}
      <4>1. Inner(t, f, ststk, n, buf, p) = Then(Named(st, buf, f[p][st]), f, ststk[n])
        BY <1>5, <3>2, InnerIs
      <4>2. f[p][st] = Mistake
        BY <1>7, <3>2
      <4> QED
        BY <1>6, <4>1, <4>2, NoName
    <3>3. CASE st = "escape"
      <4>1. PICK w \in {"symbol", "dquote"} : w = ststk[n + 1] /\ Len(ststk) = n + 2
        BY <1>5, <3>3
      <4>2. Inner(t, f, ststk, n, buf, p) = Then(Named(w, buf, Escaped(t, f, p, w)), f, ststk[n])
        BY <1>5, <4>1, InnerIs
      <4>3. Escaped(t, f, p, w) = Mistake
        BY <1>4 DEF Escaped
      <4> QED
        BY <1>6, <4>2, <4>3, NoName
    <3> QED
      BY <1>5, <1>6, <1>9, <3>1, <3>2, <3>3 DEF Automata
  <2> QED
    BY <1>1, <1>2, <1>3, <2>1, <2>2, MistakeEvaluates
<1> QED
  BY <1>8, <1>9

LEMMA TypesKeptByExit ==
  ASSUME ParserAssumption, ParserInv, GrammarTypes, look # NoChar, ExitItems, UNCHANGED status
  PROVE  GrammarTypes'
<1>1. PICK n : n = Len(lists) /\ n \in Nat \ {0}
  BY TopIs
<1>2. ASSUME NEW k \in 1..Len(lists')  PROVE IsSequence(Own'[k])
  <2>1. k \in 1..n
    BY <1>1 DEF ExitItems
  <2>2. IsSequence(Own[k])
    BY <1>1, <2>1 DEF GrammarTypes
  <2>3. PICK e : Own'[k] = Own[k] \/ Own'[k] = Append(Own[k], e)
    BY DEF ExitItems
  <2> QED
    BY <2>2, <2>3, AppendJoins
<1>3. st' # "comment"
  <2>1. PICK s, w : s = ststk /\ s \in Seq(Automata) /\ s # <<>> /\ Fits(s) /\ w = Below(s) /\ ststk' = w
    BY DEF ParserInv, ExitItems
  <2>2. s[Len(s)] # "init"
    BY <2>1 DEF ExitItems, st
  <2>3. w # <<>> /\ w \in Seq(Automata) /\ Len(w) = Len(s) - 1 /\ w[Len(w)] = s[Len(s) - 1]
    BY <2>1, <2>2, PopFits
  <2>4. PICK i \in 1..Len(s) : i = Len(s) - 1 /\ i < Len(s)
    <3>1. Len(w) \in Nat \ {0} /\ Len(s) \in Nat
      BY <2>1, <2>3, EmptySeq
    <3> QED
      BY <2>3, <3>1
  <2>5. s[i] # "comment"
    BY <2>1, <2>4 DEF Fits, Nests
  <2>6. st' = w[Len(w)]
    BY <2>1 DEF st
  <2> QED
    BY <2>3, <2>4, <2>5, <2>6
<1>4. UNCHANGED <<text, ended, status>> /\ look' \in {look, NoChar}
  BY DEF ExitItems, Consumed
<1> QED
  BY <1>2, <1>3, <1>4 DEF GrammarTypes

LEMMA TypesKept ==
  ASSUME ParserAssumption, ParserInv, GrammarTypes, [ParserNext]_pvars
  PROVE  GrammarTypes'
<1>1. CASE \E c \in Alphabet : Fetch(c)
  <2>1. PICK c \in Alphabet : text' = Append(text, c) /\ look' = c
    BY <1>1 DEF Fetch
  <2>2. text \in Seq(Alphabet) /\ ~ended /\ UNCHANGED <<ended, ststk, lists, evaluated, status>>
    BY <1>1 DEF GrammarTypes, Fetch
  <2>3. text' \in Seq(Alphabet) /\ text' # <<>> /\ look' = text'[Len(text')]
    BY <2>1, <2>2
  <2>4. Own' = Own /\ st' = st
    BY <2>2 DEF Own, st
  <2> QED
    BY <2>2, <2>3, <2>4 DEF GrammarTypes
<1>2. CASE FetchLast
  <2>1. look' = "newline" /\ ended' = TRUE /\ UNCHANGED <<text, ststk, lists, evaluated, status>>
    BY <1>2 DEF FetchLast
  <2>2. Own' = Own /\ st' = st /\ look' # NoChar
    BY <2>1 DEF Own, st, NoChar
  <2> QED
    BY <2>1, <2>2 DEF GrammarTypes
<1>3. CASE Fail \/ Finish
  <2>1. UNCHANGED <<text, look, ended, ststk, lists, evaluated>> /\ status' \in {"reading", "done", "error"}
    BY <1>3 DEF Fail, Finish
  <2>2. Own' = Own /\ st' = st
    BY <2>1 DEF Own, st
  <2> QED
    BY <2>1, <2>2 DEF GrammarTypes
<1>4. CASE Stay
  <2>1. /\ look # NoChar /\ next_char(st, look) = "nochg" /\ look' \in {look, NoChar}
        /\ UNCHANGED <<text, ended, ststk, lists, evaluated, status>>
    BY <1>4 DEF Stay, Consumed
  <2>2. Own' = Own /\ st' = st
    BY <2>1 DEF Own, st
  <2>3. st = "comment" => ~ended
    BY <2>1, NextInWord DEF GrammarTypes
  <2> QED
    BY <2>1, <2>2, <2>3 DEF GrammarTypes
<1>5. CASE Exit
  <2>1. look # NoChar /\ UNCHANGED status
    BY <1>5 DEF Exit
  <2> QED
    BY <1>5, <2>1, ExitIs, TypesKeptByExit
<1>6. CASE ExitToInit
  <2>1. look # NoChar /\ UNCHANGED status
    BY <1>6 DEF ExitToInit
  <2> QED
    BY <1>6, <2>1, ExitToInitIs, TypesKeptByExit
<1>7. CASE Escape
  <2>1. /\ look' \in {look, NoChar} /\ UNCHANGED <<text, ended, lists, evaluated, status>>
        /\ ststk' = Append(ststk, "escape") \/ ststk' = ststk \o <<"symbol", "escape">>
    BY <1>7 DEF Escape, Consumed
  <2>2. st' = "escape"
    <3>1. "symbol" \in Automata /\ "escape" \in Automata /\ ststk \in Seq(Automata)
      BY DEF Automata, ParserInv
    <3>2. Append(Append(ststk, "symbol"), "escape") = ststk \o <<"symbol", "escape">>
      BY <3>1
    <3>3. Append(ststk, "symbol") \in Seq(Automata)
      BY <3>1
    <3>4. PICK s : s \in Seq(Automata) /\ ststk' = Append(s, "escape")
      <4>1. CASE ststk' = Append(ststk, "escape")
        BY <3>1, <4>1
      <4>2. CASE ststk' = ststk \o <<"symbol", "escape">>
        BY <3>2, <3>3, <4>2
      <4> QED
        BY <2>1, <4>1, <4>2
    <3> QED
      BY <3>1, <3>4 DEF st
  <2>3. Own' = Own
    BY <2>1 DEF Own
  <2> QED
    BY <2>1, <2>2, <2>3 DEF GrammarTypes
<1>8. CASE Enter
  <2>1. PICK nst : /\ nst = next_char(st, look) /\ nst \in {"list", "squote", "symbol", "dquote", "comment"}
                   /\ look # NoChar /\ look' \in {look, NoChar}
                   /\ ststk' = Append(ststk, nst) /\ UNCHANGED <<text, ended, evaluated, status>>
                   /\ lists' = CASE nst = "list"   -> Append(lists, << >>)
                                 [] nst = "squote" -> Append(lists, <<quote>>)
                                 [] OTHER -> lists
    BY <1>8 DEF Enter, Consumed
  <2>2. \A k \in 1..Len(lists') : IsSequence(Own'[k])
    <3>1. CASE nst \in {"list", "squote"}
      <4>1. PICK new : IsSequence(new) /\ lists' = Append(lists, new)
        BY <2>1, <3>1, EmptyIs, AppendJoins
      <4>2. PICK n \in Nat : n = Len(lists)
        BY TopIs
      <4>3. /\ Len(lists') = n + 1 /\ Own'[n + 1] = new /\ \A k \in 1..n : Own'[k] = Own[k]
        BY <2>1, <4>1, <4>2, OwnOpens
      <4>4. \A k \in 1..n + 1 : k = n + 1 \/ k \in 1..n
        BY <4>2
      <4> QED
        BY <4>1, <4>2, <4>3, <4>4 DEF GrammarTypes
    <3>2. CASE nst \notin {"list", "squote"}
      <4>1. lists' = lists /\ Own' = Own
        BY <2>1, <3>2 DEF Own
      <4> QED
        BY <4>1 DEF GrammarTypes
    <3> QED
      BY <3>1, <3>2
  <2>3. st' = "comment" => ststk'[Len(ststk') - 1] # "squote" /\ ~ended
    <3>1. PICK m \in Nat \ {0} : m = Len(ststk) /\ ststk \in Seq(Automata) /\ st = ststk[m] /\ st \in Automata
      BY ParserShape DEF ParserInv
    <3>2. Len(ststk') = m + 1 /\ ststk'[m + 1] = nst /\ ststk'[m] = st
      <4>1. nst \in Automata
        BY <2>1 DEF Automata
      <4> QED
        BY <2>1, <3>1, <4>1
    <3>3. st' = nst /\ Len(ststk') - 1 = m
      BY <3>1, <3>2 DEF st
    <3>4. nst = "comment" => st # "squote" /\ look = Comment
      <4>1. PICK w \in {"init", "list", "squote"} : w = st /\ next_char(w, look) = nst
        BY <2>1, <3>1, NextChars DEF Automata
      <4> QED
        BY <4>1, NextInList
    <3>5. look = Comment => ~ended
      BY <2>1, Characteristic DEF GrammarTypes
    <3> QED
      BY <3>2, <3>3, <3>4, <3>5
  <2> QED
    BY <2>1, <2>2, <2>3 DEF GrammarTypes
<1>9. CASE UNCHANGED pvars
  <2>1. UNCHANGED <<text, look, ended, ststk, lists, evaluated, status>>
    BY <1>9 DEF pvars
  <2>2. Own' = Own /\ st' = st
    BY <2>1 DEF Own, st
  <2> QED
    BY <2>1, <2>2 DEF GrammarTypes
<1> QED
  BY <1>1, <1>2, <1>3, <1>4, <1>5, <1>6, <1>7, <1>8, <1>9 DEF ParserNext

LEMMA GrammarStarts ==
  ASSUME ParserAssumption, ParserInit
  PROVE  GrammarInv
<1>1. ParserInv
  BY ParserStarts
<1>2. /\ text = <<>> /\ look = NoChar /\ ended = FALSE /\ ststk = <<"init">> /\ Len(lists) = 1
      /\ buf = <<>> /\ evaluated = <<>> /\ status = "reading"
  BY DEF ParserInit
<1>3. Own[1] = <<>>
  BY <1>2 DEF Own
<1>4. GrammarTypes
  <2>1. st # "comment"
    BY <1>2 DEF st
  <2>2. \A k \in 1..Len(lists) : k = 1
    BY <1>2
  <2>3. \A k \in 1..Len(lists) : IsSequence(Own[k])
    BY <1>3, <2>2, EmptyIs
  <2>4. text \in Seq(Alphabet)
    BY <1>2
  <2> QED
    BY <1>2, <2>1, <2>3, <2>4 DEF GrammarTypes
<1>5. ASSUME NEW t \in Seq(Alphabet \cup {"newline"})  PROVE SoFar(t)
  <2>1. PICK f, n, own, p, s : f = Readings(t) /\ n = 1 /\ n \in Nat /\ own = Own /\ p = Place /\ s = ststk
    OBVIOUS
  <2>2. p = 1 /\ p \in 1..Len(t) + 1
    BY <1>2, <2>1 DEF Place
  <2>3. Len(s) = n /\ s[n] = "init"
    BY <1>2, <2>1
  <2>4. Inner(t, f, s, n, buf, p) = f[1]["init"]
    <3>1. Inner(t, f, s, n, buf, p) = f[p][s[n]]
      BY <2>3 DEF Inner
    <3> QED
      BY <2>2, <2>3, <3>1
  <2>5. IsResult(f[1]["init"])
    BY <2>1, <2>2, ReadingOf DEF Automatic
  <2>6. Onto(<<>>, f[1]["init"]) = f[1]["init"]
    BY <2>5, OntoNone
  <2>7. PICK r : r = [k \in {1} |-> f[1]["init"]]
    OBVIOUS
  <2>8. r[1] = f[1]["init"] /\ r[n] = Onto(own[n], f[1]["init"]) /\ \A k \in 1..n - 1 : FALSE
    BY <1>3, <2>1, <2>6, <2>7
  <2>9. Chain(f, s, own, n, f[1]["init"])
    BY <2>8 DEF Chain
  <2> QED
    BY <1>2, <2>1, <2>4, <2>9 DEF SoFar
<1> QED
  BY <1>1, <1>2, <1>4, <1>5 DEF GrammarInv, EvaluatesText

LEMMA GrammarKeeps ==
  ASSUME ParserAssumption, GrammarInv, [ParserNext]_pvars
  PROVE  GrammarInv'
<1>1. ParserInv /\ GrammarTypes /\ EvaluatesText
  BY DEF GrammarInv
<1>2. ParserInv' /\ GrammarTypes'
  BY <1>1, ParserKeeps, TypesKept
<1>3. CASE UNCHANGED pvars
  <2>1. UNCHANGED <<text, look, ended, ststk, lists, buf, evaluated, status>>
    BY <1>3 DEF pvars
  <2> QED
    BY <1>2, <2>1 DEF GrammarInv, EvaluatesText, Continues, SoFar, Own, Place
<1>4. CASE ParserNext
  <2>1. status = "reading" /\ \A t \in Seq(Alphabet \cup {"newline"}) : Continues(t) => SoFar(t)
    <3>1. status = "reading"
      BY <1>4 DEF ParserNext, Fetch, FetchLast, Fail, Stay, Exit, ExitToInit, Escape, Enter, Finish
    <3> QED
      BY <3>1 DEF GrammarInv
  <2>2. CASE Fail \/ Finish
    <3>1. EvaluatesText' /\ status' # "reading"
      <4>1. status' # "reading"
        BY <2>2 DEF Fail, Finish
      <4> QED
        BY <1>1, <2>1, <2>2, <4>1, FailEvaluates, FinishEvaluates
    <3> QED
      BY <1>2, <3>1 DEF GrammarInv
  <2>3. CASE ~ (Fail \/ Finish)
    <3>1. status' = "reading"
      BY <1>4, <2>1, <2>3 DEF ParserNext, Fetch, FetchLast, Stay, Exit, ExitToInit, Escape, Enter
    <3>2. ASSUME NEW t \in Seq(Alphabet \cup {"newline"}), Continues(t)'  PROVE SoFar(t)'
      <4>1. CASE (\E c \in Alphabet : Fetch(c)) \/ FetchLast
        BY <1>1, <2>1, <3>2, <4>1, FetchReads
      <4>2. CASE Stay \/ Exit \/ ExitToInit \/ Escape \/ Enter
        <5>1. look # NoChar /\ UNCHANGED <<text, ended>>
          BY <4>2 DEF Stay, Exit, ExitToInit, Escape, Enter
        <5>2. Continues(t)
          BY <3>2, <5>1 DEF Continues
        <5>3. SoFar(t)
          BY <2>1, <5>2
        <5>4. CASE Stay
          BY <1>1, <5>2, <5>3, <5>4, StayReads
        <5>5. CASE Exit \/ ExitToInit
          BY <1>1, <5>1, <5>2, <5>3, <5>5, ExitIs, ExitToInitIs, ExitReads
        <5>6. CASE Escape
          BY <1>1, <5>2, <5>3, <5>6, EscapeReads
        <5>7. CASE Enter
          BY <1>1, <5>2, <5>3, <5>7, EnterReads
        <5> QED
          BY <4>2, <5>4, <5>5, <5>6, <5>7
      <4> QED
        BY <1>4, <2>3, <4>1, <4>2 DEF ParserNext
    <3>3. EvaluatesText'
      BY <3>1 DEF EvaluatesText
    <3>4. (\A t \in Seq(Alphabet \cup {"newline"}) : Continues(t) => SoFar(t))'
      BY <3>2
    <3> QED
      BY <1>2, <3>3, <3>4 DEF GrammarInv
  <2> QED
    BY <2>2, <2>3
<1> QED
  BY <1>3, <1>4

\* What the reader has evaluated when it stops is what the text says, up to the
\* first mistake, and its two stacks agree after every character, for any text
\* and any size of the buffer (parser.c:232-240, 301-582, 640-692).
THEOREM TextIsRead == ASSUME ParserAssumption PROVE ParserSpec => []ReadsText
<1>1. ParserInit => GrammarInv
  BY GrammarStarts
<1>2. GrammarInv /\ [ParserNext]_pvars => GrammarInv'
  BY GrammarKeeps
<1>3. GrammarInv => ReadsText
  BY NestingCounts DEF GrammarInv, ParserInv, ReadsText, StacksAgree
<1> QED
  BY <1>1, <1>2, <1>3, PTL DEF ParserSpec
===========================================================================
