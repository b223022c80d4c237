--------------------------- MODULE DaemonProofs ---------------------------
(***************************************************************************)
(* Proofs about the daemon: its connection, packets byte by byte           *)
(* (Framing), for any number of packets, any length of a packet and of the *)
(* wire and any width of the count; what is asked and answered on it       *)
(* (FrontEnd), for any texts, number of requests and threads; and the      *)
(* symbol table that it completes names from (Trie, AutoComp), for any     *)
(* keys, values and prefixes.                                              *)
(***************************************************************************)
EXTENDS Framing, FrontEnd, AutoComp, DataLemmas, FiniteSetTheorems

---------------------------------------------------------------------------
(* The bytes.  Whoever sends and whatever fails, nothing outside of a         *)
(* packet's data is sent; and when one thread sends and its sends do not      *)
(* fail, what is received are its packets.                                    *)


\* An unsigned count that one is taken from stays in its width.
LEMMA Wraps ==
  ASSUME NEW u \in Nat, u > 0, NEW b \in 0 .. u - 1
  PROVE  (b + u - 1) % u \in 0 .. u - 1
<1>1. b + u - 1 \in Nat
  OBVIOUS
<1> QED
  BY <1>1

\* The smaller of two numbers.
LEMMA MinOfTwo ==
  ASSUME NEW a \in Int, NEW b \in Int, NEW k \in 1 .. Min({a, b})
  PROVE  k <= a /\ k <= b
<1>1. \E x \in {a, b} : \A y \in {a, b} : x <= y
  <2>1. a <= b \/ b <= a
    OBVIOUS
  <2> QED
    BY <2>1
<1>2. Min({a, b}) \in {a, b} /\ \A y \in {a, b} : Min({a, b}) <= y
  BY <1>1 DEF Min
<1> QED
  BY <1>2

---------------------------------------------------------------------------
\* What the operations do to the wire, unit by unit.
LEMMA AppendsSize ==
  ASSUME FramingAssumption, Counters, NEW s \in Sender, SendSize(s)
  PROVE  \E n \in 1 .. MaxLen :
           /\ len' = [len EXCEPT ![s] = n]
           /\ wire' \in Seq(Unit) /\ Len(wire') = Len(wire) + 1
           /\ \A j \in 1 .. Len(wire) : wire'[j] = wire[j]
           /\ wire'[Len(wire) + 1] = Size(n)
<1>1. PICK n \in 1 .. MaxLen : wire' = Append(wire, Size(n)) /\ len' = [len EXCEPT ![s] = n]
  BY DEF SendSize
<1>2. Size(n) \in Unit
  BY DEF Size, Unit
<1>3. wire \in Seq(Unit)
  BY DEF Counters
<1>4. /\ Append(wire, Size(n)) \in Seq(Unit) /\ Len(Append(wire, Size(n))) = Len(wire) + 1
      /\ \A j \in 1 .. Len(wire) : Append(wire, Size(n))[j] = wire[j]
      /\ Append(wire, Size(n))[Len(wire) + 1] = Size(n)
  BY <1>2, <1>3, AppendProperties
<1> QED
  BY <1>1, <1>4

\* What is sent is appended to the stream.
LEMMA AppendsData ==
  ASSUME FramingAssumption, Counters, NEW s \in Sender, SendData(s)
  PROVE  \E k \in 1 .. len[s] - bs[s] :
           /\ bs' = [bs EXCEPT ![s] = @ + k]
           /\ wire' \in Seq(Unit) /\ Len(wire') = Len(wire) + k
           /\ \A j \in 1 .. Len(wire) : wire'[j] = wire[j]
           /\ \A i \in 1 .. k : wire'[Len(wire) + i] = Byte(s, bs[s] + i)
<1> USE DEF Counters
<1>0. Len(wire) \in Nat /\ len[s] \in 0 .. MaxLen /\ bs[s] \in Nat /\ bs[s] < len[s] /\ MaxLen \in Nat
  BY DEF SendData, FramingAssumption
<1>1. PICK k \in 1 .. Min({len[s] - bs[s], MaxWire - Len(wire)}) :
        /\ wire' = wire \o [i \in 1 .. k |-> Byte(s, bs[s] + i)]
        /\ bs' = [bs EXCEPT ![s] = @ + k]
  BY DEF SendData
<1>2. k \in 1 .. len[s] - bs[s]
  <2>1. len[s] - bs[s] \in Int /\ MaxWire - Len(wire) \in Int
    BY <1>0 DEF FramingAssumption
  <2>2. k <= len[s] - bs[s] /\ k <= MaxWire - Len(wire)
    BY <2>1, MinOfTwo
  <2> QED
    BY <1>0, <2>2
<1> DEFINE more == [i \in 1 .. k |-> Byte(s, bs[s] + i)]
<1>3. more \in Seq(Unit) /\ Len(more) = k
  <2>1. \A i \in 1 .. k : Byte(s, bs[s] + i) \in Unit
    BY <1>0 DEF Byte, Unit
  <2> QED
    BY <1>2, <2>1
<1>4. \A i \in 1 .. k : more[i] = Byte(s, bs[s] + i)
  OBVIOUS
<1> HIDE DEF more
<1>5. /\ wire \o more \in Seq(Unit) /\ Len(wire \o more) = Len(wire) + k
      /\ \A i \in 1 .. Len(wire) + k : (wire \o more)[i] =
           IF i <= Len(wire) THEN wire[i] ELSE more[i - Len(wire)]
  BY <1>3, ConcatProperties
<1>6. wire' = wire \o more
  BY <1>1 DEF more
<1>7. \A j \in 1 .. Len(wire) : wire'[j] = wire[j]
  BY <1>0, <1>2, <1>5, <1>6
<1>8. ASSUME NEW i \in 1 .. k  PROVE  wire'[Len(wire) + i] = Byte(s, bs[s] + i)
  <2>1. Len(wire) + i \in 1 .. Len(wire) + k /\ ~(Len(wire) + i <= Len(wire))
        /\ Len(wire) + i - Len(wire) = i
    BY <1>0, <1>2
  <2>2. (wire \o more)[Len(wire) + i] = more[Len(wire) + i - Len(wire)]
    BY <2>1, <1>5
  <2>3. more[i] = Byte(s, bs[s] + i)
    BY <1>4
  <2> QED
    BY <2>1, <2>2, <2>3, <1>6, Zenon
<1> QED
  BY <1>1, <1>2, <1>5, <1>6, <1>7, <1>8

\* Reading a size takes the first unit of the stream, ...
LEMMA TakesSize ==
  ASSUME Counters, RecvSize
  PROVE  /\ Head(wire) = wire[1] /\ wire[1] \in Unit /\ Len(wire) \in Nat \ {0}
         /\ wire' \in Seq(Unit) /\ Len(wire') = Len(wire) - 1
         /\ \A j \in 1 .. Len(wire') : wire'[j] = wire[j + 1]
<1>1. wire \in Seq(Unit) /\ wire # << >> /\ wire' = Tail(wire)
  BY DEF Counters, RecvSize
<1>2. Len(wire) \in Nat \ {0}
  BY <1>1, EmptySeq
<1>3. Head(wire) = wire[1] /\ wire[1] \in Unit
  BY <1>1, <1>2, ElementOfSeq
<1> QED
  BY <1>1, <1>2, <1>3, HeadTailProperties

\* ... and reading data takes some units more.
LEMMA TakesData ==
  ASSUME Counters, FramingAssumption, RecvData
  PROVE  \E k \in 1 .. sz :
           /\ k <= Len(wire) /\ Len(wire) \in Nat
           /\ wire' \in Seq(Unit) /\ Len(wire') = Len(wire) - k
           /\ \A j \in 1 .. Len(wire') : wire'[j] = wire[j + k]
           /\ \/ /\ k = sz /\ reader' = "size"
                 /\ got' \in Seq(Unit) /\ Len(got') = k
                 /\ \A j \in 1 .. k : got'[j] = wire[j]
              \/ k # sz /\ reader' = "stopped" /\ got' = got
<1>1. wire \in Seq(Unit) /\ wire # << >> /\ sz \in Nat /\ Len(wire) \in Nat
  BY DEF Counters, RecvData, FramingAssumption
<1>2. PICK k \in 1 .. Min({sz, Len(wire)}) :
        /\ wire' = SubSeq(wire, k + 1, Len(wire))
        /\ IF Whole(k) THEN reader' = "size" /\ got' = SubSeq(wire, 1, k)
                       ELSE reader' = "stopped" /\ UNCHANGED got
  BY DEF RecvData
<1>3. k \in 1 .. sz /\ k <= Len(wire)
  BY <1>1, MinOfTwo
<1>4. \A i \in 1 .. Len(wire) : wire[i] \in Unit
  BY <1>1, ElementOfSeq
<1>5. /\ wire' \in Seq(Unit) /\ Len(wire') = Len(wire) - k
      /\ \A j \in 1 .. Len(wire') : wire'[j] = wire[j + k]
  <2>1. \A i \in k + 1 .. Len(wire) : wire[i] \in Unit
    BY <1>1, <1>3, <1>4
  <2>2. /\ SubSeq(wire, k + 1, Len(wire)) \in Seq(Unit)
        /\ Len(SubSeq(wire, k + 1, Len(wire))) =
             IF k + 1 <= Len(wire) THEN Len(wire) - (k + 1) + 1 ELSE 0
        /\ \A i \in 1 .. Len(wire) - (k + 1) + 1 :
             SubSeq(wire, k + 1, Len(wire))[i] = wire[k + 1 + i - 1]
    <3>1. k + 1 \in Int /\ Len(wire) \in Int
      BY <1>1, <1>3
    <3> QED
      BY <3>1, <2>1, SubSeqProperties
  <2>3. Len(wire') = Len(wire) - k
    BY <1>1, <1>2, <1>3, <2>2
  <2>4. ASSUME NEW j \in 1 .. Len(wire')  PROVE  wire'[j] = wire[j + k]
    <3>1. j \in 1 .. Len(wire) - (k + 1) + 1 /\ k + 1 + j - 1 = j + k
      BY <1>1, <1>3, <2>3
    <3> QED
      BY <3>1, <2>2, <1>2
  <2> QED
    BY <1>2, <2>2, <2>3, <2>4
<1>6. ASSUME k = sz
      PROVE  /\ reader' = "size" /\ got' \in Seq(Unit) /\ Len(got') = k
             /\ \A j \in 1 .. k : got'[j] = wire[j]
  <2>1. \A i \in 1 .. k : wire[i] \in Unit
    BY <1>1, <1>3, <1>4
  <2>2. /\ SubSeq(wire, 1, k) \in Seq(Unit)
        /\ Len(SubSeq(wire, 1, k)) = IF 1 <= k THEN k - 1 + 1 ELSE 0
        /\ \A i \in 1 .. k - 1 + 1 : SubSeq(wire, 1, k)[i] = wire[1 + i - 1]
    <3>1. 1 \in Int /\ k \in Int
      BY <1>3
    <3> QED
      BY <3>1, <2>1, SubSeqProperties
  <2>3. reader' = "size" /\ got' = SubSeq(wire, 1, k)
    BY <1>2, <1>6 DEF Whole
  <2>4. ASSUME NEW j \in 1 .. k  PROVE  got'[j] = wire[j]
    <3>1. j \in 1 .. k - 1 + 1 /\ 1 + j - 1 = j
      BY <1>3
    <3> QED
      BY <3>1, <2>2, <2>3
  <2> QED
    BY <1>3, <2>2, <2>3, <2>4
<1>7. ASSUME k # sz  PROVE  reader' = "stopped" /\ got' = got
  BY <1>2, <1>7 DEF Whole
<1> QED
  BY <1>1, <1>3, <1>5, <1>6, <1>7

---------------------------------------------------------------------------
\* Places on the stream, as numbers.
LEMMA Apart ==
  \A a, b, c, l, x, y \in Int : a + (l - x) = b /\ y - l <= c - b => y - x # c - a + 1
OBVIOUS
\* Arithmetic that the steps below need, apart from everything else.
LEMMA AlsoApart == \A b, l, x, y \in Int : y <= l - b => y - x # l - (b + x) + 1
OBVIOUS
\* The same, for a position that has moved.
LEMMA Shifted == \A b, x, y, d \in Int : y = x + d => b + y = (b + x) + d
OBVIOUS
\* The same, for the end of a packet.
LEMMA Moved == \A a, b, l, x, y \in Int : a + (l - x) = b => b + (y - l) = a + (y - x)
OBVIOUS
\* More of the same: what comes after the packet that is read, ...
LEMMA Later ==
  \A i, n, l, j, x \in Int :
    (l - j <= n - i => x = n /\ x = i + (l - j)) => l + 1 - j > n - i
OBVIOUS
\* ... and what comes later still.
LEMMA Beyond == \A l, a, x, y \in Int : x >= l + 1 /\ l - y > a => x - y > a + 1
OBVIOUS

---------------------------------------------------------------------------
\* Whoever sends and whatever fails, the counters stay in their width.
LEMMA CountersInit == FramingAssumption /\ FramingInit => Counters
BY DEF FramingAssumption, FramingInit, Counters

\* Every step keeps them there.
LEMMA CountersNext ==
  ASSUME FramingAssumption, Counters, [FramingNext]_wirevars
  PROVE  Counters'
<1> USE DEF Counters
<1>0. MaxLen \in Nat /\ MaxLen > 0 /\ 2^Width \in Nat /\ MaxLen < 2^Width - 1
  BY DEF FramingAssumption
<1>1. CASE RecvSize
  <2>1. wire' \in Seq(Unit) /\ Head(wire) = wire[1] /\ wire[1] \in Unit
    BY <1>1, TakesSize
  <2>2. wire[1].kind = "size" => wire[1].n \in 1 .. MaxLen
    BY <2>1 DEF Unit
  <2>3. got' \in Seq(Unit)
    <3>1. << wire[1] >> \in Seq(Unit) /\ << >> \in Seq(Unit)
      BY <2>1
    <3>2. got' = got \/ got' = << wire[1] >> \/ got' = << >>
      BY <1>1, <2>1 DEF RecvSize
    <3> QED
      BY <3>1, <3>2
  <2>4. reader' \in {"size", "data", "stopped"} /\ sz' \in 0 .. MaxLen
    <3>1. sz' = sz \/ (wire[1].kind = "size" /\ sz' = wire[1].n)
      <4>1. IF Head(wire).kind = "size" THEN sz' = Head(wire).n ELSE sz' = sz
        BY <1>1, Zenon DEF RecvSize
      <4> QED
        BY <2>1, <4>1
    <3>2. reader' \in {"data", "stopped"}
      BY <1>1 DEF RecvSize
    <3>3. wire[1].kind = "size" => wire[1].n \in 0 .. MaxLen
      BY <1>0, <2>2
    <3> QED
      BY <3>1, <3>2, <3>3
  <2>5. sent' = sent /\ len' = len /\ bs' = bs
    BY <1>1 DEF RecvSize
  <2> QED
    BY <2>1, <2>3, <2>4, <2>5
<1>2. CASE RecvData
  <2>1. wire' \in Seq(Unit) /\ got' \in Seq(Unit) /\ reader' \in {"size", "stopped"}
    BY <1>2, TakesData
  <2> QED
    BY <1>2, <2>1 DEF RecvData
<1>3. ASSUME NEW s \in Sender, SendSize(s)  PROVE Counters'
  <2>1. PICK n \in 1 .. MaxLen : len' = [len EXCEPT ![s] = n] /\ wire' \in Seq(Unit)
    BY <1>3, AppendsSize
  <2> QED
    BY <1>0, <1>3, <2>1 DEF SendSize
<1>4. ASSUME NEW s \in Sender, SendData(s)  PROVE Counters'
  <2>1. PICK k \in 1 .. len[s] - bs[s] : bs' = [bs EXCEPT ![s] = @ + k] /\ wire' \in Seq(Unit)
    BY <1>4, AppendsData
  <2>2. bs[s] + k \in 0 .. 2^Width - 1
    <3>1. bs[s] \in Nat /\ len[s] \in 0 .. MaxLen
      BY <1>0
    <3> QED
      BY <1>0, <3>1
  <2> QED
    BY <1>0, <1>4, <2>1, <2>2 DEF SendData
<1>5. ASSUME NEW s \in Sender, SendFails(s)  PROVE Counters'
  <2>1. (bs[s] + 2^Width - 1) % 2^Width \in 0 .. 2^Width - 1
    BY <1>0, Wraps
  <2> QED
    BY <1>5, <2>1 DEF SendFails
<1>6. CASE UNCHANGED wirevars
  BY <1>6 DEF wirevars
<1> QED
  BY <1>1, <1>2, <1>3, <1>4, <1>5, <1>6 DEF FramingNext

\* A reader stays inside its packet.
LEMMA InsideNext ==
  ASSUME FramingAssumption, Counters, InsideBuffer, [FramingNext]_wirevars
  PROVE  InsideBuffer'
<1> USE DEF InsideBuffer
<1>0. Len(wire) \in Nat /\ MaxLen \in Nat
  BY DEF FramingAssumption, Counters
<1>1. CASE RecvSize
  BY <1>0, <1>1, TakesSize
<1>2. CASE RecvData
  <2>1. PICK k \in 1 .. sz : /\ k <= Len(wire) /\ Len(wire') = Len(wire) - k
                            /\ \A j \in 1 .. Len(wire') : wire'[j] = wire[j + k]
    BY <1>2, TakesData
  <2>2. sz \in Nat
    BY <1>0 DEF Counters
  <2>3. ASSUME NEW j \in 1 .. Len(wire'), wire'[j].kind = "byte"
        PROVE  wire'[j].i \in 1 .. wire'[j].of
    <3>1. j + k \in 1 .. Len(wire) /\ wire'[j] = wire[j + k]
      BY <1>0, <2>1, <2>2
    <3> QED
      BY <2>3, <3>1
  <2> QED
    BY <2>3
<1>3. ASSUME NEW s \in Sender, SendSize(s)  PROVE InsideBuffer'
  <2>1. PICK n \in 1 .. MaxLen :
          /\ Len(wire') = Len(wire) + 1
          /\ \A j \in 1 .. Len(wire) : wire'[j] = wire[j]
          /\ wire'[Len(wire) + 1] = Size(n)
    BY <1>3, AppendsSize
  <2>2. wire'[Len(wire) + 1].kind = "size"
    BY <2>1 DEF Size
  <2> QED
    BY <1>0, <2>1, <2>2
<1>4. ASSUME NEW s \in Sender, SendData(s)  PROVE InsideBuffer'
  <2>1. PICK k \in 1 .. len[s] - bs[s] :
          /\ Len(wire') = Len(wire) + k
          /\ \A j \in 1 .. Len(wire) : wire'[j] = wire[j]
          /\ \A i \in 1 .. k : wire'[Len(wire) + i] = Byte(s, bs[s] + i)
    BY <1>4, AppendsData
  <2>2. len[s] \in 0 .. MaxLen /\ bs[s] \in Nat
    BY DEF Counters
  <2>3. ASSUME NEW j \in 1 .. Len(wire'), wire'[j].kind = "byte"
        PROVE  wire'[j].i \in 1 .. wire'[j].of
    <3>1. CASE j \in 1 .. Len(wire)
      BY <2>1, <2>3, <3>1
    <3>2. CASE j \notin 1 .. Len(wire)
      <4> DEFINE i == j - Len(wire)
      <4>1. i \in 1 .. k /\ j = Len(wire) + i
        <5>1. PICK l \in Nat : l = Len(wire)
          BY <1>0
        <5>2. k \in Int /\ j \in 1 .. l + k /\ j \notin 1 .. l
          BY <2>1, <2>2, <3>2, <5>1
        <5>3. j - l \in 1 .. k /\ j = l + (j - l)
          BY <5>2
        <5> QED
          BY <5>1, <5>3
      <4> HIDE DEF i
      <4>2. wire'[j] = Byte(s, bs[s] + i)
        BY <2>1, <4>1
      <4>3. wire'[j].i = bs[s] + i /\ wire'[j].of = len[s]
        BY <4>2 DEF Byte
      <4> QED
        <5>1. bs[s] \in Nat /\ len[s] \in Nat /\ i \in 1 .. len[s] - bs[s]
          BY <2>2, <4>1
        <5>2. bs[s] + i \in 1 .. len[s]
          BY <5>1
        <5> QED
          BY <4>3, <5>2
    <3> QED
      BY <3>1, <3>2
  <2> QED
    BY <2>3
<1>5. ASSUME NEW s \in Sender, SendFails(s)  PROVE InsideBuffer'
  BY <1>5 DEF SendFails
<1>6. CASE UNCHANGED wirevars
  BY <1>6 DEF wirevars
<1> QED
  BY <1>1, <1>2, <1>3, <1>4, <1>5, <1>6 DEF FramingNext

\* When sends fail the count of the sent bytes runs backwards and wraps around, yet
\* no byte outside of the packet is sent, however many threads send
\* (socket.c:204-207).
THEOREM NothingElseIsSent ==
  ASSUME FramingAssumption
  PROVE  FramingSpec => []InsideBuffer
<1>1. FramingInit => Counters /\ InsideBuffer
  <2>1. FramingInit => InsideBuffer
    BY DEF FramingInit, InsideBuffer
  <2> QED
    BY <2>1, CountersInit
<1>2. Counters /\ InsideBuffer /\ [FramingNext]_wirevars => Counters' /\ InsideBuffer'
  BY CountersNext, InsideNext
<1> QED
  BY <1>1, <1>2, PTL DEF FramingSpec

---------------------------------------------------------------------------
\* One thread sends and its sends do not fail: what is on the wire is a stream of
\* packets that ends where the thread is and begins where the reader is.
Ground(s) == FramingAssumption /\ Sender = {s} /\ Counters

\* What a unit on the wire is.
LEMMA Units ==
  ASSUME Counters, NEW j \in 1 .. Len(wire)
  PROVE  \/ wire[j].kind = "size" /\ wire[j].n \in 1 .. MaxLen
         \/ /\ wire[j].kind = "byte" /\ wire[j].by \in Sender /\ wire[j].packet \in Nat
            /\ wire[j].of \in 1 .. MaxLen /\ wire[j].i \in Int
<1>1. wire[j] \in Unit
  BY ElementOfSeq DEF Counters
<1> QED
  BY <1>1 DEF Unit

\* Sending a size keeps the stream made of packets, ...
LEMMA StreamSize ==
  ASSUME NEW s, Ground(s), OneStream(s), ~failed, SendSize(s)
  PROVE  OneStream(s)'
<1> USE DEF Ground
<1>0. /\ Len(wire) \in Nat /\ MaxLen \in Nat /\ s \in Sender
      /\ len[s] \in 0 .. MaxLen /\ bs[s] \in Nat /\ (wire = << >> <=> Len(wire) = 0)
  BY EmptySeq DEF FramingAssumption, Counters
<1>1. PICK n \in 1 .. MaxLen :
        /\ len' = [len EXCEPT ![s] = n]
        /\ Len(wire') = Len(wire) + 1 /\ wire' \in Seq(Unit)
        /\ \A j \in 1 .. Len(wire) : wire'[j] = wire[j]
        /\ wire'[Len(wire) + 1] = Size(n)
  BY <1>0, AppendsSize
<1>2. bs[s] = len[s] /\ bs'[s] = 0 /\ len'[s] = n
      /\ reader' = reader /\ failed' = failed /\ sz' = sz /\ got' = got
  BY <1>0, <1>1 DEF SendSize, OneStream, Counters
<1>3. wire'[Len(wire) + 1].kind = "size" /\ wire'[Len(wire) + 1].n = n
  BY <1>1 DEF Size
<1>4. WholePackets'
  BY <1>2 DEF OneStream, WholePackets
<1>5. ASSUME reader # "stopped"  PROVE IsStream' /\ EndsWithSender(s)'
  <2>0. IsStream /\ EndsWithSender(s)
    BY <1>5 DEF OneStream
  <2>1. EndsWithSender(s)'
    BY <1>0, <1>1, <1>2, <1>3 DEF EndsWithSender
  <2>2. ASSUME NEW j \in 1 .. Len(wire), j = Len(wire)
        PROVE  wire[j].kind = "byte" /\ wire[j].of = len[s] /\ wire[j].i = len[s]
    BY <1>0, <1>2, <2>0, <2>2, Units DEF EndsWithSender
  <2>3. ASSUME NEW j \in 1 .. Len(wire'), wire'[j].kind = "size", j < Len(wire')
        PROVE  wire'[j + 1].kind = "byte" /\ wire'[j + 1].i = 1 /\ wire'[j + 1].of = wire'[j].n
    <3>1. j \in 1 .. Len(wire) /\ wire'[j] = wire[j]
      BY <1>0, <1>1, <2>3
    <3>2. j # Len(wire)
      BY <2>2, <2>3, <3>1
    <3>3. j + 1 \in 1 .. Len(wire) /\ wire'[j + 1] = wire[j + 1]
      BY <1>0, <1>1, <3>1, <3>2
    <3> QED
      BY <1>0, <2>0, <2>3, <3>1, <3>2, <3>3 DEF IsStream
  <2>4. ASSUME NEW j \in 1 .. Len(wire'), wire'[j].kind = "byte", NEW k \in j + 1 .. Len(wire')
        PROVE  /\ k - j <= wire'[j].of - wire'[j].i => Follows(wire'[j], wire'[k], k - j)
               /\ k - j = wire'[j].of - wire'[j].i + 1 => wire'[k].kind = "size"
    <3>1. j \in 1 .. Len(wire) /\ wire'[j] = wire[j]
      BY <1>0, <1>1, <2>4
    <3>2. wire[j].of \in 1 .. MaxLen /\ wire[j].i \in Int
      BY <2>4, <3>1, Units
    <3>3. CASE k \in 1 .. Len(wire)
      <4>1. wire'[k] = wire[k] /\ k \in j + 1 .. Len(wire)
        BY <1>0, <1>1, <3>1, <3>3
      <4> QED
        BY <2>0, <2>4, <3>1, <4>1 DEF IsStream
    <3>4. CASE k = Len(wire) + 1
      <4>1. k - j > wire[j].of - wire[j].i
        <5>1. CASE j = Len(wire)
          BY <1>0, <2>2, <3>1, <3>4, <5>1
        <5>2. CASE j < Len(wire)
          <6>1. Len(wire) \in j + 1 .. Len(wire)
            BY <1>0, <5>2
          <6>2. Len(wire) - j <= wire[j].of - wire[j].i =>
                  wire[Len(wire)].of = wire[j].of /\ wire[Len(wire)].i = wire[j].i + (Len(wire) - j)
            BY <2>0, <2>4, <3>1, <6>1 DEF IsStream, Follows
          <6>3. wire[Len(wire)].of = len[s] /\ wire[Len(wire)].i = len[s]
            BY <1>0, <2>2, <3>1
          <6> QED
            <7>1. /\ wire[j].i \in Int /\ wire[j].of \in Int /\ len[s] \in Int
                  /\ Len(wire) \in Int /\ j \in Int
              BY <1>0, <3>1, <3>2
            <7>2. Len(wire) - j <= wire[j].of - wire[j].i =>
                    len[s] = wire[j].of /\ len[s] = wire[j].i + (Len(wire) - j)
              BY <6>2, <6>3
            <7>3. Len(wire) + 1 - j > wire[j].of - wire[j].i
              BY <7>1, <7>2, Later
            <7> QED
              BY <3>4, <7>3
        <5> QED
          BY <1>0, <3>1, <5>1, <5>2
      <4> QED
        BY <1>0, <1>3, <3>1, <3>2, <3>4, <4>1
    <3>5. k \in 1 .. Len(wire) \/ k = Len(wire) + 1
      BY <1>0, <1>1, <3>1
    <3> QED
      BY <3>3, <3>4, <3>5
  <2> QED
    BY <2>1, <2>3, <2>4 DEF IsStream
<1>6. BeginsWithReader(s)'
  <2>1. CASE wire = << >>
    <3>1. wire'[1].kind = "size" /\ Len(wire') = 1
      BY <1>0, <1>1, <1>3, <2>1
    <3>2. wire' # << >>
      BY <1>1, <3>1, EmptySeq
    <3> QED
      BY <1>0, <1>2, <2>1, <3>1, <3>2 DEF OneStream, BeginsWithReader
  <2>2. CASE wire # << >>
    <3>1. wire'[1] = wire[1] /\ wire' # << >>
      BY <1>0, <1>1, <2>2, EmptySeq
    <3> QED
      BY <1>2, <2>2, <3>1 DEF OneStream, BeginsWithReader
  <2> QED
    BY <2>1, <2>2
<1>7. bs'[s] <= len'[s]
  BY <1>2
<1> QED
  BY <1>2, <1>4, <1>5, <1>6, <1>7 DEF OneStream

\* ... and so does sending data, ...
LEMMA StreamData ==
  ASSUME NEW s, Ground(s), OneStream(s), ~failed, SendData(s)
  PROVE  OneStream(s)'
<1> USE DEF Ground
<1>0. /\ Len(wire) \in Nat /\ MaxLen \in Nat /\ s \in Sender
      /\ len[s] \in 0 .. MaxLen /\ bs[s] \in Nat /\ (wire = << >> <=> Len(wire) = 0)
  BY EmptySeq DEF FramingAssumption, Counters
<1>1. PICK k \in 1 .. len[s] - bs[s] :
        /\ bs' = [bs EXCEPT ![s] = @ + k]
        /\ Len(wire') = Len(wire) + k /\ wire' \in Seq(Unit)
        /\ \A j \in 1 .. Len(wire) : wire'[j] = wire[j]
        /\ \A i \in 1 .. k : wire'[Len(wire) + i] = Byte(s, bs[s] + i)
  BY <1>0, AppendsData
<1>2. bs'[s] = bs[s] + k /\ len' = len /\ bs[s] < len[s] /\ sent' = sent
      /\ reader' = reader /\ failed' = failed /\ sz' = sz /\ got' = got
  BY <1>0, <1>1 DEF SendData, Counters
<1>3. ASSUME NEW m \in Len(wire) + 1 .. Len(wire')
      PROVE  /\ wire'[m].kind = "byte" /\ wire'[m].by = s /\ wire'[m].packet = sent[s]
             /\ wire'[m].of = len[s] /\ wire'[m].i = bs[s] + (m - Len(wire))
  <2>1. m - Len(wire) \in 1 .. k /\ Len(wire) + (m - Len(wire)) = m
    BY <1>0, <1>1
  <2>2. wire'[m] = Byte(s, bs[s] + (m - Len(wire)))
    BY <1>1, <2>1
  <2> QED
    BY <2>2 DEF Byte
<1>4. WholePackets'
  BY <1>2 DEF OneStream, WholePackets
<1>5. ASSUME reader # "stopped"  PROVE IsStream' /\ EndsWithSender(s)'
  <2>0. IsStream /\ EndsWithSender(s)
    BY <1>5 DEF OneStream
  <2>1. EndsWithSender(s)'
    <3>1. Len(wire') \in Len(wire) + 1 .. Len(wire') /\ Len(wire') - Len(wire) = k
      BY <1>0, <1>1
    <3> QED
      BY <1>2, <1>3, <3>1 DEF EndsWithSender
  <2>2. ASSUME NEW j \in 1 .. Len(wire), j = Len(wire)
        PROVE  \/ wire[j].kind = "size" /\ wire[j].n = len[s] /\ bs[s] = 0
               \/ /\ wire[j].kind = "byte" /\ wire[j].of = len[s] /\ wire[j].i = bs[s]
                  /\ wire[j].packet = sent[s] /\ wire[j].by = s
    BY <1>0, <2>0, <2>2, Units DEF EndsWithSender
  <2>3. ASSUME NEW j \in 1 .. Len(wire'), wire'[j].kind = "size", j < Len(wire')
        PROVE  wire'[j + 1].kind = "byte" /\ wire'[j + 1].i = 1 /\ wire'[j + 1].of = wire'[j].n
    <3>1. j \in 1 .. Len(wire) /\ wire'[j] = wire[j]
      <4>1. j \notin Len(wire) + 1 .. Len(wire')
        BY <1>3, <2>3
      <4>2. Len(wire) \in Int /\ Len(wire') \in Int
        BY <1>0, <1>1
      <4>3. j \in 1 .. Len(wire)
        BY <4>1, <4>2
      <4> QED
        BY <1>1, <4>3
    <3>2. CASE j = Len(wire)
      <4>1. j + 1 \in Len(wire) + 1 .. Len(wire') /\ j + 1 - Len(wire) = 1
        BY <1>0, <1>1, <3>2
      <4>2. /\ wire'[j + 1].kind = "byte" /\ wire'[j + 1].of = len[s]
            /\ wire'[j + 1].i = bs[s] + (j + 1 - Len(wire))
        BY <1>3, <4>1
      <4>3. wire[j].n = len[s] /\ bs[s] = 0
        BY <2>2, <2>3, <3>1, <3>2
      <4> QED
        BY <3>1, <4>1, <4>2, <4>3
    <3>3. CASE j < Len(wire)
      <4>1. j + 1 \in 1 .. Len(wire) /\ wire'[j + 1] = wire[j + 1]
        BY <1>0, <1>1, <3>1, <3>3
      <4> QED
        BY <1>0, <2>0, <2>3, <3>1, <3>3, <4>1 DEF IsStream
    <3> QED
      BY <1>0, <3>1, <3>2, <3>3
  <2>4. ASSUME NEW j \in 1 .. Len(wire'), wire'[j].kind = "byte", NEW m \in j + 1 .. Len(wire')
        PROVE  /\ m - j <= wire'[j].of - wire'[j].i => Follows(wire'[j], wire'[m], m - j)
               /\ m - j = wire'[j].of - wire'[j].i + 1 => wire'[m].kind = "size"
    <3>0. /\ bs[s] \in Int /\ len[s] \in Int /\ Len(wire) \in Int /\ Len(wire) >= 0
          /\ k \in Int /\ 1 <= k /\ k <= len[s] - bs[s] /\ Len(wire') = Len(wire) + k
      <4>1. bs[s] \in Int /\ len[s] \in Int /\ Len(wire) \in Int /\ Len(wire) >= 0
        BY <1>0
      <4> QED
        BY <1>1, <4>1
    <3>a. j \in Int /\ m \in Int /\ 1 <= j /\ j < m /\ m <= Len(wire) + k
      BY <3>0
    <3>1. CASE j \notin 1 .. Len(wire)
      <4>1. j \in Len(wire) + 1 .. Len(wire') /\ m \in Len(wire) + 1 .. Len(wire')
            /\ j - Len(wire) \in Nat /\ m - Len(wire) \in 1 .. k
            /\ m - Len(wire) = (j - Len(wire)) + (m - j)
        BY <3>0, <3>a, <3>1
      <4>2. wire'[j].of = len[s] /\ wire'[j].i = bs[s] + (j - Len(wire))
            /\ wire'[m].i = bs[s] + (m - Len(wire))
        BY <1>3, <4>1
      <4>3. m - j # wire'[j].of - wire'[j].i + 1
        <5>1. /\ bs[s] \in Int /\ len[s] \in Int /\ j - Len(wire) \in Int /\ m - Len(wire) \in Int
              /\ m - Len(wire) <= len[s] - bs[s] /\ m - j = (m - Len(wire)) - (j - Len(wire))
          <6>1. PICK l \in Int : l = Len(wire)
            BY <3>0
          <6>2. m \in Int /\ j \in Int /\ k \in Int /\ m <= l + k
            BY <3>a, <3>0, <6>1
          <6>3. m - l <= k /\ m - j = (m - l) - (j - l) /\ j - l \in Int /\ m - l \in Int
            BY <6>2
          <6>4. \A x, y, z \in Int : x <= y /\ y <= z => x <= z
            OBVIOUS
          <6>5. len[s] - bs[s] \in Int /\ k <= len[s] - bs[s] /\ bs[s] \in Int /\ len[s] \in Int
            BY <3>0
          <6>6. m - l <= len[s] - bs[s]
            BY <6>2, <6>3, <6>4, <6>5
          <6> QED
            BY <6>1, <6>3, <6>5, <6>6
        <5> QED
          BY <4>2, <5>1, AlsoApart
      <4>4. Follows(wire'[j], wire'[m], m - j)
        <5>1. wire'[m].i = wire'[j].i + (m - j)
          <6>1. bs[s] \in Int /\ j - Len(wire) \in Int /\ m - Len(wire) \in Int /\ m - j \in Int
            BY <3>0, <3>a
          <6>2. \A b, x, y, d \in Int : y = x + d => b + y = (b + x) + d
            BY Shifted
          <6>3. bs[s] + (m - Len(wire)) = (bs[s] + (j - Len(wire))) + (m - j)
            BY <4>1, <6>1, <6>2
          <6> QED
            BY <4>2, <6>3
        <5>2. wire'[j].by = s /\ wire'[j].packet = sent[s] /\ wire'[j].of = len[s]
          BY <1>3, <4>1
        <5>3. /\ wire'[m].kind = "byte" /\ wire'[m].by = s /\ wire'[m].packet = sent[s]
              /\ wire'[m].of = len[s]
          BY <1>3, <4>1
        <5> QED
          BY <5>1, <5>2, <5>3 DEF Follows
      <4> QED
        BY <4>3, <4>4
    <3>2. CASE j \in 1 .. Len(wire)
      <4>1. wire'[j] = wire[j]
        BY <1>1, <3>2
      <4>2. wire[j].of \in 1 .. MaxLen /\ wire[j].i \in Int /\ wire[j].by = s
        BY <2>4, <3>2, <4>1, Units
      <4>a. wire[j].of \in Int
        <5>1. MaxLen \in Int
          BY <1>0
        <5> QED
          BY <4>2, <5>1
      <4>3. CASE m \in 1 .. Len(wire)
        <5>1. wire'[m] = wire[m] /\ m \in j + 1 .. Len(wire)
          BY <1>1, <3>0, <3>a, <4>3
        <5> QED
          BY <2>0, <2>4, <3>2, <4>1, <5>1 DEF IsStream
      <4>4. CASE m \notin 1 .. Len(wire)
        <5>0. m \in Len(wire) + 1 .. Len(wire') /\ m - Len(wire) \in 1 .. k
          BY <3>0, <3>a, <4>4
        <5>1. wire'[m].kind = "byte" /\ wire'[m].by = s /\ wire'[m].packet = sent[s]
              /\ wire'[m].of = len[s] /\ wire'[m].i = bs[s] + (m - Len(wire))
          BY <1>3, <5>0
        <5>2. CASE Len(wire) - j <= wire[j].of - wire[j].i
          <6>1. wire[j].of = len[s] /\ wire[j].i + (Len(wire) - j) = bs[s]
                /\ wire[j].packet = sent[s]
            <7>1. CASE j = Len(wire)
              <8>1. wire[j].kind = "byte"
                BY <2>4, <4>1
              <8>2. wire[j].of = len[s] /\ wire[j].i = bs[s] /\ wire[j].packet = sent[s]
                BY <2>2, <3>2, <7>1, <8>1
              <8>3. Len(wire) - j = 0
                BY <3>0, <7>1
              <8> QED
                BY <3>0, <8>2, <8>3
            <7>2. CASE j < Len(wire)
              <8>1. Len(wire) \in j + 1 .. Len(wire) /\ Len(wire) \in 1 .. Len(wire)
                BY <3>0, <3>2, <7>2
              <8>2. Follows(wire[j], wire[Len(wire)], Len(wire) - j)
                BY <2>0, <2>4, <3>2, <4>1, <5>2, <8>1 DEF IsStream
              <8> QED
                BY <2>2, <8>1, <8>2 DEF Follows
            <7> QED
              BY <3>0, <3>2, <7>1, <7>2
          <6>a. /\ wire[j].i \in Int /\ bs[s] \in Int /\ len[s] \in Int /\ Len(wire) \in Int
                /\ j \in Int /\ m \in Int /\ m - Len(wire) <= len[s] - bs[s]
            BY <3>0, <3>a, <4>2
          <6>2. wire'[m].i = wire[j].i + (m - j)
            <7>1. \A a, b, l, x, y \in Int : a + (l - x) = b => b + (y - l) = a + (y - x)
              BY Moved
            <7> QED
              BY <5>1, <6>1, <6>a, <7>1
          <6>3. m - j # wire[j].of - wire[j].i + 1
            <7>1. \A a, b, c, l, x, y \in Int :
                    a + (l - x) = b /\ y - l <= c - b => y - x # c - a + 1
              BY Apart
            <7> QED
              BY <6>1, <6>a, <7>1
          <6> QED
            BY <4>1, <4>2, <5>1, <6>1, <6>2, <6>3 DEF Follows
        <5>3. CASE Len(wire) - j > wire[j].of - wire[j].i
          <6>1. m - j > wire[j].of - wire[j].i + 1
            <7>1. m \in Int /\ m >= Len(wire) + 1 /\ Len(wire) \in Int /\ j \in Int
              BY <3>0, <5>0
            <7>2. wire[j].of - wire[j].i \in Int
              BY <4>2, <4>a
            <7>3. \A l \in Int, a \in Int, x \in Int, y \in Int :
                    x >= l + 1 /\ l - y > a => x - y > a + 1
              BY Beyond
            <7> QED
              BY <5>3, <7>1, <7>2, <7>3
          <6>2. m - j \in Int /\ wire[j].of - wire[j].i \in Int
            BY <3>a, <4>2, <4>a
          <6> QED
            BY <4>1, <6>1, <6>2
        <5>4. Len(wire) - j <= wire[j].of - wire[j].i \/ Len(wire) - j > wire[j].of - wire[j].i
          <6>1. Len(wire) - j \in Int /\ wire[j].of - wire[j].i \in Int
            BY <3>0, <3>a, <4>2, <4>a
          <6>2. \A x, y \in Int : x <= y \/ x > y
            OBVIOUS
          <6> QED
            BY <6>1, <6>2
        <5> QED
          BY <5>2, <5>3, <5>4
      <4> QED
        BY <4>3, <4>4
    <3> QED
      BY <3>1, <3>2
  <2> QED
    BY <2>1, <2>3, <2>4 DEF IsStream
<1>6. BeginsWithReader(s)'
  <2>1. CASE wire = << >>
    <3>1. 1 \in Len(wire) + 1 .. Len(wire') /\ Len(wire) = 0
      BY <1>0, <1>1, <2>1
    <3>2. wire'[1].kind = "byte" /\ wire'[1].of = len[s] /\ wire'[1].i = bs[s] + 1
      BY <1>0, <1>3, <3>1
    <3>3. wire' # << >>
      BY <1>1, <3>1, EmptySeq
    <3> QED
      BY <1>0, <1>2, <2>1, <3>2, <3>3 DEF OneStream, BeginsWithReader
  <2>2. CASE wire # << >>
    <3>1. wire'[1] = wire[1] /\ wire' # << >>
      BY <1>0, <1>1, <2>2, EmptySeq
    <3> QED
      BY <1>2, <2>2, <3>1 DEF OneStream, BeginsWithReader
  <2> QED
    BY <2>1, <2>2
<1>7. bs'[s] <= len'[s]
  BY <1>0, <1>1, <1>2
<1> QED
  BY <1>2, <1>4, <1>5, <1>6, <1>7 DEF OneStream

\* What is left of a stream behind its first k units.
LEMMA StreamRest ==
  ASSUME Counters, IsStream, NEW k \in Nat, k <= Len(wire), Len(wire) \in Nat,
         Len(wire') = Len(wire) - k,
         \A j \in 1 .. Len(wire') : wire'[j] = wire[j + k]
  PROVE  IsStream'
<1>1. ASSUME NEW j \in 1 .. Len(wire'), wire'[j].kind = "size", j < Len(wire')
      PROVE  wire'[j + 1].kind = "byte" /\ wire'[j + 1].i = 1 /\ wire'[j + 1].of = wire'[j].n
  <2>1. j + k \in 1 .. Len(wire) /\ j + k < Len(wire) /\ j + 1 \in 1 .. Len(wire')
        /\ (j + 1) + k = (j + k) + 1
    BY <1>1
  <2>2. wire'[j] = wire[j + k] /\ wire'[j + 1] = wire[(j + k) + 1]
    <3>1. wire'[j + 1] = wire[(j + 1) + k]
      BY <2>1
    <3> QED
      BY <2>1, <3>1
  <2> QED
    BY <1>1, <2>1, <2>2 DEF IsStream
<1>2. ASSUME NEW j \in 1 .. Len(wire'), wire'[j].kind = "byte", NEW m \in j + 1 .. Len(wire')
      PROVE  /\ m - j <= wire'[j].of - wire'[j].i => Follows(wire'[j], wire'[m], m - j)
             /\ m - j = wire'[j].of - wire'[j].i + 1 => wire'[m].kind = "size"
  <2>1. j + k \in 1 .. Len(wire) /\ m + k \in (j + k) + 1 .. Len(wire)
        /\ (m + k) - (j + k) = m - j /\ m \in 1 .. Len(wire')
    BY <1>2
  <2>2. wire'[j] = wire[j + k] /\ wire'[m] = wire[m + k]
    BY <2>1
  <2>3. /\ (m + k) - (j + k) <= wire[j + k].of - wire[j + k].i =>
             Follows(wire[j + k], wire[m + k], (m + k) - (j + k))
        /\ (m + k) - (j + k) = wire[j + k].of - wire[j + k].i + 1 => wire[m + k].kind = "size"
    BY <1>2, <2>1, <2>2 DEF IsStream
  <2> QED
    BY <2>1, <2>2, <2>3
<1> QED
  BY <1>1, <1>2 DEF IsStream

\* ... receiving a size ...
LEMMA StreamRecvSize ==
  ASSUME NEW s, Ground(s), OneStream(s), ~failed, RecvSize
  PROVE  OneStream(s)'
<1> USE DEF Ground
<1>0. /\ wire[1] \in Unit /\ Len(wire) \in Nat \ {0} /\ Head(wire) = wire[1] /\ wire # << >>
      /\ wire' \in Seq(Unit) /\ Len(wire') = Len(wire) - 1
      /\ \A j \in 1 .. Len(wire') : wire'[j] = wire[j + 1]
      /\ (wire' = << >> <=> Len(wire') = 0)
  BY TakesSize, EmptySeq DEF RecvSize
<1>1. IsStream /\ EndsWithSender(s) /\ wire[1].kind = "size" /\ reader = "size"
  BY <1>0 DEF OneStream, BeginsWithReader, RecvSize
<1>2. wire[1].n \in 1 .. MaxLen
  BY <1>0, <1>1, Units
<1>3. /\ reader' = "data" /\ sz' = wire[1].n /\ got' = << >>
      /\ sent' = sent /\ len' = len /\ bs' = bs /\ failed' = failed
  BY <1>0, <1>1 DEF RecvSize
<1>4. WholePackets'
  BY <1>3 DEF WholePackets
<1>5. IsStream'
  BY <1>0, <1>1, StreamRest
<1>6. EndsWithSender(s)'
  <2>1. ASSUME wire' # << >>  PROVE wire'[Len(wire')] = wire[Len(wire)]
    BY <1>0, <2>1
  <2> QED
    BY <1>0, <1>1, <1>3, <2>1 DEF EndsWithSender
<1>7. BeginsWithReader(s)'
  <2>1. CASE wire' = << >>
    <3>1. Len(wire) = 1
      BY <1>0, <2>1
    <3>2. bs[s] = 0 /\ len[s] = wire[1].n
      BY <1>0, <1>1, <3>1 DEF EndsWithSender
    <3>3. wire[1].n > 0
      BY <1>2 
    <3> QED
      BY <1>3, <2>1, <3>2, <3>3 DEF BeginsWithReader
  <2>2. CASE wire' # << >>
    <3>1. 1 \in 1 .. Len(wire') /\ 1 < Len(wire) /\ 1 \in 1 .. Len(wire)
      BY <1>0, <2>2
    <3>2. wire'[1] = wire[1 + 1]
      BY <1>0, <3>1
    <3>3. wire[1 + 1].kind = "byte" /\ wire[1 + 1].i = 1 /\ wire[1 + 1].of = wire[1].n
      BY <1>1, <3>1 DEF IsStream
    <3> QED
      BY <1>3, <2>2, <3>2, <3>3 DEF BeginsWithReader
  <2> QED
    BY <2>1, <2>2
<1>8. bs'[s] <= len'[s]
  BY <1>3 DEF OneStream
<1> QED
  BY <1>4, <1>5, <1>6, <1>7, <1>8 DEF OneStream

\* ... and receiving data.
LEMMA StreamRecvData ==
  ASSUME NEW s, Ground(s), OneStream(s), ~failed, RecvData
  PROVE  OneStream(s)'
<1> USE DEF Ground
<1>0. /\ Len(wire) \in Nat /\ MaxLen \in Nat /\ wire # << >> /\ sz \in Nat
      /\ sent' = sent /\ len' = len /\ bs' = bs /\ failed' = failed /\ sz' = sz
  BY EmptySeq DEF FramingAssumption, Counters, RecvData
<1>1. PICK k \in 1 .. sz :
        /\ k <= Len(wire)
        /\ wire' \in Seq(Unit) /\ Len(wire') = Len(wire) - k
        /\ \A j \in 1 .. Len(wire') : wire'[j] = wire[j + k]
        /\ \/ /\ k = sz /\ reader' = "size"
              /\ got' \in Seq(Unit) /\ Len(got') = k
              /\ \A j \in 1 .. k : got'[j] = wire[j]
           \/ k # sz /\ reader' = "stopped" /\ got' = got
  BY TakesData
<1>2. /\ IsStream /\ EndsWithSender(s) /\ wire[1].kind = "byte" /\ wire[1].i = 1 /\ wire[1].of = sz
      /\ reader = "data"
  BY <1>0 DEF OneStream, BeginsWithReader, RecvData
<1>3. bs'[s] <= len'[s]
  BY <1>0 DEF OneStream
<1>4. CASE reader' = "stopped"
  <2>1. got' = got
    BY <1>1, <1>4
  <2>2. WholePackets'
    BY <1>0, <2>1 DEF OneStream, WholePackets
  <2> QED
    BY <1>3, <1>4, <2>2 DEF OneStream, BeginsWithReader
<1>5. CASE reader' # "stopped"
  <2>1. k = sz /\ reader' = "size" /\ Len(got') = k /\ \A j \in 1 .. k : got'[j] = wire[j]
    BY <1>1, <1>5
  <2>2. ASSUME NEW j \in 1 .. k
        PROVE  /\ wire[j].kind = "byte" /\ wire[j].i = j /\ wire[j].of = sz
               /\ wire[j].by = wire[1].by /\ wire[j].packet = wire[1].packet
    <3>1. CASE j = 1
      BY <1>2, <3>1
    <3>2. CASE j > 1
      <4>1. j \in 1 + 1 .. Len(wire) /\ 1 \in 1 .. Len(wire) /\ j - 1 <= sz - 1 /\ 1 + (j - 1) = j
        BY <1>0, <1>1, <2>1, <3>2
      <4>2. Follows(wire[1], wire[j], j - 1)
        BY <1>2, <4>1 DEF IsStream
      <4> QED
        BY <1>2, <4>1, <4>2 DEF Follows
    <3> QED
      BY <1>1, <3>1, <3>2
  <2>3. WholePackets'
    <3>1. 1 \in 1 .. k
      BY <1>1
    <3>2. got'[1] = wire[1]
      BY <2>1, <3>1
    <3>3. \A i \in 1 .. Len(got') :
            /\ got'[i].kind = "byte" /\ got'[i].i = i
            /\ got'[i].by = got'[1].by /\ got'[i].packet = got'[1].packet
      BY <2>1, <2>2, <3>2
    <3> QED
      BY <1>0, <2>1, <3>3 DEF WholePackets
  <2>4. IsStream'
    <3>1. k \in Nat
      BY <1>0
    <3> QED
      BY <1>0, <1>1, <1>2, <3>1, StreamRest
  <2>5. (wire' = << >> <=> Len(wire') = 0) /\ Len(wire') \in Nat
    BY <1>0, <1>1, EmptySeq
  <2>6. EndsWithSender(s)'
    <3>1. ASSUME wire' # << >>  PROVE wire'[Len(wire')] = wire[Len(wire)]
      <4>1. Len(wire') \in 1 .. Len(wire') /\ Len(wire') + k = Len(wire)
        BY <1>0, <1>1, <2>5, <3>1
      <4> QED
        BY <1>1, <4>1
    <3> QED
      BY <1>0, <1>2, <3>1 DEF EndsWithSender
  <2>7. BeginsWithReader(s)'
    <3>1. CASE wire' = << >>
      <4>1. Len(wire) = k /\ k \in 1 .. k
        BY <1>0, <1>1, <2>5, <3>1
      <4>2. wire[k].kind = "byte" /\ wire[k].i = k /\ wire[k].of = sz
        BY <2>2, <4>1
      <4>3. bs[s] = len[s]
        BY <1>0, <1>2, <2>1, <4>1, <4>2 DEF EndsWithSender
      <4> QED
        BY <1>0, <2>1, <3>1, <4>3 DEF BeginsWithReader
    <3>2. CASE wire' # << >>
      <4>1. 1 \in 1 .. Len(wire') /\ 1 \in 1 .. Len(wire) /\ 1 + k \in 1 + 1 .. Len(wire)
            /\ (1 + k) - 1 = sz - 1 + 1
        BY <1>0, <1>1, <2>1, <2>5, <3>2
      <4>2. wire'[1] = wire[1 + k]
        BY <1>1, <4>1
      <4>3. wire[1 + k].kind = "size"
        BY <1>2, <4>1 DEF IsStream
      <4> QED
        BY <2>1, <3>2, <4>2, <4>3 DEF BeginsWithReader
    <3> QED
      BY <3>1, <3>2
  <2> QED
    BY <1>3, <2>3, <2>4, <2>6, <2>7 DEF OneStream
<1> QED
  BY <1>4, <1>5

\* Every step keeps it so.
LEMMA OneStreamNext ==
  ASSUME NEW s, Ground(s), OneStream(s), [FramingNext]_wirevars
  PROVE  OneStream(s)'
<1>1. CASE failed
  <2>1. failed'
    BY <1>1 DEF FramingNext, SendSize, SendData, SendFails, RecvSize, RecvData, wirevars
  <2> QED
    BY <2>1 DEF OneStream
<1>2. CASE ~failed
  <2>1. CASE RecvSize
    BY <1>2, <2>1, StreamRecvSize
  <2>2. CASE RecvData
    BY <1>2, <2>2, StreamRecvData
  <2>3. ASSUME NEW x \in Sender, SendSize(x) \/ SendData(x) \/ SendFails(x)
        PROVE  OneStream(s)'
    <3>1. x = s
      BY DEF Ground
    <3>2. CASE SendSize(x)
      BY <1>2, <3>1, <3>2, StreamSize
    <3>3. CASE SendData(x)
      BY <1>2, <3>1, <3>3, StreamData
    <3>4. CASE SendFails(x)
      BY <3>4 DEF SendFails, OneStream
    <3> QED
      BY <2>3, <3>2, <3>3, <3>4
  <2>4. CASE UNCHANGED wirevars
    BY <2>4 DEF wirevars, OneStream, IsStream, EndsWithSender, BeginsWithReader, WholePackets
  <2> QED
    BY <2>1, <2>2, <2>3, <2>4 DEF FramingNext
<1> QED
  BY <1>1, <1>2

\* When one thread sends, however its data are cut on the way, what is handed to the
\* callback is one packet, whole, unless a send has failed; and nothing outside of a
\* packet is sent (socket.c:141-174, 204-207).
THEOREM OneSenderPacketsWhole ==
  ASSUME FramingAssumption, NEW s, Sender = {s}
  PROVE  FramingSpec => []PacketsWhole
<1>1. FramingInit => Counters /\ InsideBuffer /\ OneStream(s)
  <2>1. ASSUME FramingInit  PROVE InsideBuffer
    BY <2>1 DEF FramingInit, InsideBuffer
  <2>2. ASSUME FramingInit  PROVE OneStream(s)
    BY <2>2 DEF FramingInit, OneStream, IsStream, EndsWithSender, BeginsWithReader, WholePackets
  <2> QED
    BY <2>1, <2>2, CountersInit
<1>2. Counters /\ InsideBuffer /\ OneStream(s) /\ [FramingNext]_wirevars =>
        Counters' /\ InsideBuffer' /\ OneStream(s)'
  BY CountersNext, InsideNext, OneStreamNext DEF Ground
<1>3. InsideBuffer /\ OneStream(s) => PacketsWhole
  BY DEF OneStream, PacketsWhole, WholePackets
<1> QED
  BY <1>1, <1>2, <1>3, PTL DEF FramingSpec
---------------------------------------------------------------------------
(* The messages. *)

\* The first delimiter of a packet.
LEMMA FirstDelimiter ==
  ASSUME NEW pdu \in Seq(Char), Positions(pdu) # {}
  PROVE  /\ Delimiter(Positions(pdu)) \in 1..Len(pdu)
         /\ pdu[Delimiter(Positions(pdu))] = DELIMITER
         /\ \A i \in 1..Len(pdu) : pdu[i] = DELIMITER => Delimiter(Positions(pdu)) <= i
<1>1. Positions(pdu) = {i \in 1..Len(pdu) : pdu[i] = DELIMITER}
  BY DEF Positions
<1>2. Positions(pdu) \subseteq Nat
  BY <1>1
<1>3. Min(Positions(pdu)) \in Positions(pdu) /\ \A i \in Positions(pdu) : Min(Positions(pdu)) <= i
  BY <1>2, LeastIndex
<1> QED
  BY <1>1, <1>3 DEF Delimiter

\* A packet with a delimiter is what it is taken apart into.
LEMMA TakenApart ==
  ASSUME DELIMITER \in Char, NEW pdu \in Seq(Char), Positions(pdu) # {}
  PROVE  /\ pdu_cmd(pdu) \in Seq(Char) /\ pdu_data(pdu) \in Seq(Char)
         /\ pdu = pdu_build(pdu_cmd(pdu), pdu_data(pdu))
         /\ \A i \in 1..Len(pdu_cmd(pdu)) : pdu_cmd(pdu)[i] # DELIMITER
<1>1. PICK d \in Nat \ {0} : d = Delimiter(Positions(pdu))
  BY FirstDelimiter
<1>2. d <= Len(pdu) /\ pdu[d] = DELIMITER /\ \A i \in 1..Len(pdu) : pdu[i] = DELIMITER => d <= i
  BY <1>1, FirstDelimiter
<1> DEFINE c == SubSeq(pdu, 1, d - 1)
           e == SubSeq(pdu, d + 1, Len(pdu))
<1>3. /\ c \in Seq(Char) /\ Len(c) = d - 1
      /\ \A i \in 1..d - 1 : c[i] = pdu[i]
  <2>1. d - 1 \in Nat /\ d - 1 <= Len(pdu) /\ 1 <= d - 1 + 1 /\ 1 \in Nat \ {0}
    BY <1>2
  <2>2. /\ c \in Seq(Char) /\ Len(c) = d - 1 - 1 + 1
        /\ \A i \in 1..d - 1 - 1 + 1 : c[i] = pdu[1 + i - 1]
    BY <2>1, PartOf
  <2>3. d - 1 - 1 + 1 = d - 1 /\ \A i \in 1..d - 1 : 1 + i - 1 = i
    OBVIOUS
  <2> QED
    BY <2>2, <2>3
<1>4. /\ e \in Seq(Char) /\ Len(e) = Len(pdu) - d
      /\ \A i \in 1..Len(pdu) - d : e[i] = pdu[d + i]
  <2>1. Len(pdu) \in Nat /\ Len(pdu) <= Len(pdu) /\ d + 1 <= Len(pdu) + 1 /\ d + 1 \in Nat \ {0}
    BY <1>2
  <2>2. /\ e \in Seq(Char) /\ Len(e) = Len(pdu) - (d + 1) + 1
        /\ \A i \in 1..Len(pdu) - (d + 1) + 1 : e[i] = pdu[d + 1 + i - 1]
    BY <2>1, PartOf
  <2>3. /\ Len(pdu) - (d + 1) + 1 = Len(pdu) - d
        /\ \A i \in 1..Len(pdu) - d : d + 1 + i - 1 = d + i
    BY <2>1
  <2> QED
    BY <2>2, <2>3
<1>5. pdu_cmd(pdu) = c /\ pdu_data(pdu) = e
  BY <1>1 DEF pdu_cmd, pdu_data
<1> HIDE DEF c, e
<1>6. ASSUME NEW i \in 1..Len(c) PROVE c[i] # DELIMITER
  <2>1. i \in 1..d - 1 /\ i \in 1..Len(pdu) /\ ~ (d <= i)
    BY <1>2, <1>3
  <2> QED
    BY <1>2, <1>3, <2>1
<1> DEFINE p == c \o <<DELIMITER>> \o e
<1>9. /\ p \in Seq(Char) /\ Len(p) = Len(pdu)
      /\ \A i \in 1..d - 1 : p[i] = pdu[i]
      /\ p[d] = DELIMITER
      /\ \A i \in 1..Len(pdu) - d : p[d + i] = pdu[d + i]
  <2>1. /\ p \in Seq(Char) /\ Len(p) = Len(c) + 1 + Len(e)
        /\ \A i \in 1..Len(c) : p[i] = c[i]
        /\ p[Len(c) + 1] = DELIMITER
        /\ \A i \in 1..Len(e) : p[Len(c) + 1 + i] = e[i]
    <3>1. c \in Seq(Char) /\ e \in Seq(Char)
      BY <1>3, <1>4
    <3> QED
      BY <3>1, Joined
  <2>2. Len(c) + 1 = d /\ Len(c) + 1 + Len(e) = Len(pdu)
    BY <1>2, <1>3, <1>4
  <2> HIDE DEF p
  <2> QED
    BY <1>3, <1>4, <2>1, <2>2
<1> HIDE DEF p
<1>10. ASSUME NEW i \in 1..Len(p) PROVE p[i] = pdu[i]
  <2>1. CASE i < d
    <3>1. i \in 1..d - 1
      BY <2>1
    <3> QED
      BY <1>9, <3>1
  <2>2. CASE i = d
    BY <1>2, <1>9, <2>2
  <2>3. CASE i > d
    <3>1. PICK j \in 1..Len(pdu) - d : i = d + j
      <4>1. i - d \in 1..Len(pdu) - d /\ i = d + (i - d)
        BY <1>9, <2>3
      <4> QED
        BY <4>1
    <3> QED
      BY <1>9, <3>1
  <2> QED
    BY <2>1, <2>2, <2>3
<1>11. p = pdu
  BY <1>9, <1>10, SameItems
<1>12. pdu_build(c, e) = p
  BY DEF pdu_build, p
<1> QED
  BY <1>3, <1>4, <1>5, <1>6, <1>11, <1>12

\* What a packet is built of is what it is taken apart into, when the command has no
\* delimiter; the data may have any number of them.
LEMMA BuiltAndTaken ==
  ASSUME DELIMITER \in Char, NEW cmd \in Seq(Char), NEW data \in Seq(Char),
         \A i \in 1..Len(cmd) : cmd[i] # DELIMITER
  PROVE  /\ pdu_build(cmd, data) \in Seq(Char) /\ Positions(pdu_build(cmd, data)) # {}
         /\ pdu_cmd(pdu_build(cmd, data)) = cmd /\ pdu_data(pdu_build(cmd, data)) = data
<1> DEFINE p == cmd \o <<DELIMITER>> \o data
<1>2. PICK n \in Nat : n = Len(cmd)
  BY LenProperties
<1>4. /\ p \in Seq(Char) /\ Len(p) = n + 1 + Len(data)
      /\ \A i \in 1..n : p[i] = cmd[i]
      /\ p[n + 1] = DELIMITER
      /\ \A i \in 1..Len(data) : p[n + 1 + i] = data[i]
  <2>1. /\ p \in Seq(Char) /\ Len(p) = Len(cmd) + 1 + Len(data)
        /\ \A i \in 1..Len(cmd) : p[i] = cmd[i]
        /\ p[Len(cmd) + 1] = DELIMITER
        /\ \A i \in 1..Len(data) : p[Len(cmd) + 1 + i] = data[i]
    BY Joined
  <2> HIDE DEF p
  <2> QED
    BY <1>2, <2>1
<1>5. pdu_build(cmd, data) = p
  BY DEF pdu_build, p
<1> HIDE DEF p
<1>6. n + 1 \in 1..Len(p) /\ Len(data) \in Nat
  BY <1>4, LenProperties
<1>8. Positions(p) # {}
  BY <1>4, <1>6 DEF Positions
<1>9. PICK d \in Nat \ {0} : d = Delimiter(Positions(p))
  BY <1>4, <1>8, FirstDelimiter
<1>10. d = n + 1
  <2>1. d <= n + 1 /\ d \in 1..Len(p) /\ p[d] = DELIMITER
    BY <1>4, <1>6, <1>8, <1>9, FirstDelimiter
  <2>2. ASSUME d <= n PROVE FALSE
    <3>1. d \in 1..n
      BY <2>2
    <3>2. p[d] = cmd[d]
      BY <1>4, <3>1
    <3> QED
      BY <1>2, <2>1, <3>1, <3>2
  <2> QED
    BY <2>1, <2>2
<1>11. pdu_cmd(p) = SubSeq(p, 1, n) /\ pdu_data(p) = SubSeq(p, n + 2, Len(p))
  <2>1. n + 1 - 1 = n /\ n + 1 + 1 = n + 2
    OBVIOUS
  <2> QED
    BY <1>9, <1>10, <2>1 DEF pdu_cmd, pdu_data
<1>12. SubSeq(p, 1, n) = cmd
  <2> DEFINE c == SubSeq(p, 1, n)
  <2>1. n <= Len(p) /\ 1 <= n + 1 /\ 1 \in Nat \ {0}
    BY <1>4, <1>6
  <2>2. /\ c \in Seq(Char) /\ Len(c) = n - 1 + 1
        /\ \A i \in 1..n - 1 + 1 : c[i] = p[1 + i - 1]
    BY <1>4, <2>1, PartOf
  <2>3. n - 1 + 1 = n /\ \A i \in 1..n : 1 + i - 1 = i /\ i \in 1..n + 1
    OBVIOUS
  <2> HIDE DEF c
  <2>4. Len(c) = Len(cmd) /\ \A i \in 1..Len(c) : c[i] = cmd[i]
    BY <1>2, <1>4, <2>2, <2>3
  <2> QED
    BY <2>2, <2>4, SameItems DEF c
<1>13. SubSeq(p, n + 2, Len(p)) = data
  <2> DEFINE c == SubSeq(p, n + 2, Len(p))
             m == Len(p)
  <2>1. m \in Nat /\ m <= Len(p) /\ n + 2 <= m + 1 /\ n + 2 \in Nat \ {0}
    BY <1>4, <1>6
  <2>2. /\ c \in Seq(Char) /\ Len(c) = m - (n + 2) + 1
        /\ \A i \in 1..m - (n + 2) + 1 : c[i] = p[n + 2 + i - 1]
    BY <1>4, <2>1, PartOf
  <2>3. m - (n + 2) + 1 = Len(data)
    <3>1. PICK k \in Nat : k = Len(data)
      BY <1>6
    <3>2. m = n + 1 + k
      BY <1>4, <3>1
    <3> HIDE DEF m
    <3> QED
      BY <3>1, <3>2
  <2>5. \A i \in 1..Len(data) : n + 2 + i - 1 = n + 1 + i
    BY <1>6
  <2> HIDE DEF c, m
  <2>4. Len(c) = Len(data) /\ \A i \in 1..Len(c) : c[i] = data[i]
    BY <1>4, <2>2, <2>3, <2>5
  <2> QED
    BY <2>2, <2>4, SameItems DEF c
<1> QED
  BY <1>4, <1>5, <1>8, <1>11, <1>12, <1>13


\* The commands are character sequences without a delimiter.
LEMMA Commands ==
  ASSUME DispatchAssumption,
         NEW cmd \in {AUTOCOMP, INTERP, PRINT, LOG, AUTOCOMP_MORE, AUTOCOMP_COMP, AUTOCOMP_PRINT}
  PROVE  cmd \in Seq(Char) /\ cmd # <<>> /\ \A i \in 1..Len(cmd) : cmd[i] # DELIMITER
<1>1. PICK c \in {"A", "I", "p", "l", "m", "c", "a"} : cmd = <<c>>
  BY DEF AUTOCOMP, INTERP, PRINT, LOG, AUTOCOMP_MORE, AUTOCOMP_COMP, AUTOCOMP_PRINT
<1>2. c \in Char /\ c # DELIMITER
  BY DEF DispatchAssumption, DELIMITER
<1> QED
  BY <1>1, <1>2

\* What is printed and logged is no answer, what is interpreted no question.
LEMMA CommandsDiffer ==
  /\ PRINT \notin Answers /\ LOG \notin Answers /\ INTERP # AUTOCOMP
<1>1. \A c, d : <<c>> = <<d>> => c = d
  OBVIOUS
<1> QED
  BY <1>1 DEF PRINT, LOG, INTERP, AUTOCOMP, Answers, AUTOCOMP_MORE, AUTOCOMP_COMP, AUTOCOMP_PRINT

\* Only a packet built of the completion command asks for a completion.
LEMMA WhatAsks ==
  ASSUME DispatchAssumption, NEW text \in Seq(Char)
  PROVE  /\ pdu_build(INTERP, text) \in Seq(Char) /\ ~IsAsk(pdu_build(INTERP, text))
         /\ pdu_build(AUTOCOMP, text) \in Seq(Char) /\ IsAsk(pdu_build(AUTOCOMP, text))
<1>1. DELIMITER \in Char
  BY DEF DispatchAssumption
<1>2. /\ INTERP \in Seq(Char) /\ \A i \in 1..Len(INTERP) : INTERP[i] # DELIMITER
      /\ AUTOCOMP \in Seq(Char) /\ \A i \in 1..Len(AUTOCOMP) : AUTOCOMP[i] # DELIMITER
  BY Commands
<1>3. pdu_build(INTERP, text) \in Seq(Char) /\ pdu_cmd(pdu_build(INTERP, text)) = INTERP
  BY <1>1, <1>2, BuiltAndTaken
<1>4. /\ pdu_build(AUTOCOMP, text) \in Seq(Char) /\ pdu_cmd(pdu_build(AUTOCOMP, text)) = AUTOCOMP
      /\ Positions(pdu_build(AUTOCOMP, text)) # {}
  BY <1>1, <1>2, BuiltAndTaken
<1> QED
  BY <1>3, <1>4, CommandsDiffer DEF IsAsk

\* However often its buffer has to grow, a text is printed as it is.
LEMMA PrintedWhole ==
  ASSUME DispatchAssumption, NEW text \in Text
  PROVE  Printed(text) = text /\ text \in Seq(Char)
<1>1. text \in Seq(Char) /\ PrintLimit \in Nat /\ Len(text) < PrintLimit * 16
  BY DEF DispatchAssumption
<1>2. PICK n \in Nat : n = Len(text)
  BY <1>1, LenProperties
<1> DEFINE G == {l \in Limits : Fits(n, l)}
           limit == Min(G)
<1>3. Limits \subseteq Nat /\ PrintLimit * 16 \in Limits
  BY <1>1 DEF Limits
<1>4. G \subseteq Nat /\ PrintLimit * 16 \in G
  BY <1>1, <1>2, <1>3 DEF Fits
<1>5. limit \in G
  <2> HIDE DEF G
  <2> QED
    BY <1>4, LeastIndex
<1>6. limit \in Nat /\ n < limit
  BY <1>4, <1>5 DEF Fits
<1> HIDE DEF limit
<1>7. Min({n, limit - 1}) = n
  <2>1. {n, limit - 1} \subseteq Nat
    BY <1>6
  <2>2. Min({n, limit - 1}) \in {n, limit - 1} /\ \A y \in {n, limit - 1} : Min({n, limit - 1}) <= y
    BY <2>1, LeastIndex
  <2> QED
    BY <1>6, <2>2
<1>8. SubSeq(text, 1, n) = text
  <2> DEFINE c == SubSeq(text, 1, n)
  <2>1. n <= Len(text) /\ 1 <= n + 1 /\ 1 \in Nat \ {0}
    BY <1>2
  <2>2. /\ c \in Seq(Char) /\ Len(c) = n - 1 + 1
        /\ \A i \in 1..n - 1 + 1 : c[i] = text[1 + i - 1]
    BY <1>1, <2>1, PartOf
  <2>3. n - 1 + 1 = n /\ \A i \in 1..n : 1 + i - 1 = i
    OBVIOUS
  <2> HIDE DEF c
  <2>4. c = text
    BY <1>1, <1>2, <2>2, <2>3, SameItems
  <2> QED
    BY <2>4 DEF c
<1>9. n # limit
  BY <1>6
<1>10. Printed(text) = text \o <<>>
  BY <1>2, <1>7, <1>8, <1>9 DEF Printed, limit
<1> QED
  BY <1>1, <1>10, ConcatEmptySeq

\* A packet that gets a thread, and a thread whose buffers are freed.
LEMMA Threads ==
  /\ \A pdu \in Seq(Char) : /\ Started(pdu) \in Handler /\ Started(pdu).pdu = pdu
                            /\ Started(pdu).st = "new" /\ Started(pdu).cmd = <<>>
  /\ Done \in Handler /\ Done.st = "done" /\ Done.cmd = <<>> /\ ~Pending(Done)
  /\ Unsent \in Handler /\ Unsent.cmd = <<>> /\ ~Pending(Unsent)
<1>1. <<>> \in Seq(Char)
  OBVIOUS
<1>2. ASSUME NEW pdu \in Seq(Char)
      PROVE  /\ Started(pdu) \in Handler /\ Started(pdu).pdu = pdu
             /\ Started(pdu).st = "new" /\ Started(pdu).cmd = <<>>
  BY <1>1 DEF Started, Handler
<1>3. Done \in Handler /\ Done.st = "done" /\ Done.cmd = <<>>
  BY <1>1 DEF Done, Started, Handler
<1>4. Unsent \in Handler /\ Unsent.st = "unsent" /\ Unsent.cmd = <<>>
  BY <1>1 DEF Unsent, Done, Started, Handler
<1> QED
  BY <1>2, <1>3, <1>4 DEF Pending

\* One thread goes on, the others are as they were.
LEMMA OneGoesOn ==
  ASSUME ConnectionType, NEW n \in 1..Len(handler), NEW h \in Handler,
         handler' = [handler EXCEPT ![n] = h]
  PROVE  /\ handler' \in Seq(Handler) /\ Len(handler') = Len(handler) /\ handler'[n] = h
         /\ \A m \in 1..Len(handler) : m # n => handler'[m] = handler[m]
<1>1. handler \in Seq(Handler)
  BY DEF ConnectionType
<1> QED
  BY <1>1

\* A reply goes behind the others.
LEMMA ReplyIsLast ==
  ASSUME ConnectionType, NEW r \in Message, replies' = Append(replies, r)
  PROVE  /\ replies' \in Seq(Message) /\ Len(replies') = Len(replies) + 1
         /\ \A i \in 1..Len(replies) : replies'[i] = replies[i]
         /\ replies'[Len(replies) + 1] = r
<1>1. replies \in Seq(Message)
  BY DEF ConnectionType
<1> QED
  BY <1>1, AppendProperties

\* What a thread understands is what its packet was built of.
ThreadUnderstood(h) ==
  h.cmd # <<>> => h.pdu = pdu_build(h.cmd, h.data) /\ \A i \in DOMAIN h.cmd : h.cmd[i] # DELIMITER
ReplyUnderstood(r) == pdu_cmd(r.pdu) = r.cmd /\ pdu_data(r.pdu) = r.data

\* Both are said of each thread and of each answer.
LEMMA WhatIsUnderstood ==
  /\ Understood <=> \A n \in DOMAIN handler : ThreadUnderstood(handler[n])
  /\ RepliesUnderstood <=> \A i \in DOMAIN replies : ReplyUnderstood(replies[i])
BY DEF Understood, RepliesUnderstood, ThreadUnderstood, ReplyUnderstood

\* A thread goes on with the packet that it has: no question is asked by it.
LEMMA ThreadGoesOn ==
  ASSUME FEInv, NEW n \in 1..Len(handler), NEW h \in Handler,
         handler' = [handler EXCEPT ![n] = h], Pending(h) => Pending(handler[n]),
         ThreadUnderstood(h), UNCHANGED <<arriving, replies, exited, ui, asked, packets, resp, late>>
  PROVE  FEInv'
<1>1. /\ handler' \in Seq(Handler) /\ Len(handler') = Len(handler) /\ handler'[n] = h
      /\ \A m \in 1..Len(handler) : m # n => handler'[m] = handler[m]
  BY OneGoesOn DEF FEInv
<1>2. handler \in Seq(Handler) /\ DOMAIN handler = 1..Len(handler) /\ DOMAIN handler' = 1..Len(handler)
  BY <1>1 DEF FEInv, ConnectionType
<1>3. ConnectionType'
  BY <1>1 DEF FEInv, ConnectionType
<1>4. \A m \in 1..Len(handler) : Pending(handler'[m]) => Pending(handler[m])
  BY <1>1
<1>5. ASSUME ~late PROVE OneQuestion'
  <2>1. \A i \in 1..Len(arriving') : IsAsk(arriving'[i]) =>
          Len(handler') + i = asked' /\ ui' \in {"sent", "waiting"}
    BY <1>1, <1>5 DEF FEInv, OneQuestion, Awaited
  <2>2. \A m \in 1..Len(handler') : Pending(handler'[m]) => Awaited(m)'
    BY <1>1, <1>4, <1>5 DEF FEInv, OneQuestion, Awaited
  <2>3. \A i \in 1..Len(replies') : replies'[i].cmd \in Answers =>
          /\ replies'[i].by = asked' /\ ui' \in {"sent", "waiting"} /\ replies'[i].by \in 1..Len(handler')
          /\ ~Pending(handler'[replies'[i].by])
    <3>1. \A i \in 1..Len(replies) : replies[i].cmd \in Answers =>
            /\ Awaited(replies[i].by) /\ replies[i].by \in 1..Len(handler)
            /\ ~Pending(handler[replies[i].by])
      BY <1>5 DEF FEInv, OneQuestion
    <3> QED
      BY <1>1, <1>4, <3>1 DEF Awaited
  <2>4. \A i, j \in 1..Len(replies') :
          {replies'[i].cmd, replies'[j].cmd} \subseteq Answers => i = j
    BY <1>5 DEF FEInv, OneQuestion
  <2> QED
    BY <2>1, <2>2, <2>3, <2>4 DEF OneQuestion, Awaited
<1>6. Understood'
  <2>1. \A m \in DOMAIN handler : ThreadUnderstood(handler[m])
    BY WhatIsUnderstood DEF FEInv, MessagesUnderstood
  <2>2. \A m \in DOMAIN handler' : ThreadUnderstood(handler'[m])
    BY <1>1, <1>2, <2>1
  <2> QED
    BY <2>2 DEF Understood, ThreadUnderstood
<1>7. RepliesUnderstood' /\ AnswerIsOurs'
  BY DEF FEInv, MessagesUnderstood, RepliesUnderstood, AnswerIsOurs
<1> QED
  BY <1>3, <1>5, <1>6, <1>7 DEF FEInv, MessagesUnderstood

\* A thread replies; an answer is the only one, to the question that is waited with.
LEMMA ThreadReplies ==
  ASSUME FEInv, NEW n \in 1..Len(handler), NEW h \in Handler, NEW r \in Message,
         handler' = [handler EXCEPT ![n] = h], replies' = Append(replies, r), r.by = n,
         Pending(h) => Pending(handler[n]), ThreadUnderstood(h), ReplyUnderstood(r),
         r.cmd \in Answers => Pending(handler[n]) /\ ~Pending(h),
         UNCHANGED <<arriving, exited, ui, asked, packets, resp, late>>
  PROVE  FEInv'
<1>1. /\ handler' \in Seq(Handler) /\ Len(handler') = Len(handler) /\ handler'[n] = h
      /\ \A m \in 1..Len(handler) : m # n => handler'[m] = handler[m]
  BY OneGoesOn DEF FEInv
<1>2. /\ replies' \in Seq(Message) /\ Len(replies') = Len(replies) + 1
      /\ \A i \in 1..Len(replies) : replies'[i] = replies[i]
      /\ replies'[Len(replies) + 1] = r
  BY ReplyIsLast DEF FEInv
<1>3. ConnectionType'
  BY <1>1, <1>2 DEF FEInv, ConnectionType
<1>4. \A m \in 1..Len(handler) : Pending(handler'[m]) => Pending(handler[m])
  BY <1>1
<1>5. Len(replies) \in Nat /\ \A i \in 1..Len(replies') : i \in 1..Len(replies) \/ i = Len(replies) + 1
  BY <1>2, LenProperties DEF FEInv, ConnectionType
<1>6. ASSUME ~late
      PROVE  /\ \A i \in 1..Len(arriving) : IsAsk(arriving[i]) => Awaited(Len(handler) + i)
             /\ \A m \in 1..Len(handler) : Pending(handler[m]) => Awaited(m)
             /\ \A i \in 1..Len(replies) : replies[i].cmd \in Answers =>
                  /\ Awaited(replies[i].by) /\ replies[i].by \in 1..Len(handler)
                  /\ ~Pending(handler[replies[i].by])
             /\ \A i, j \in 1..Len(replies) : {replies[i].cmd, replies[j].cmd} \subseteq Answers => i = j
  BY <1>6 DEF FEInv, OneQuestion
<1>7. ASSUME ~late, r.cmd \in Answers, NEW i \in 1..Len(replies)  PROVE replies[i].cmd \notin Answers
  <2>1. Awaited(n) /\ Pending(handler[n])
    BY <1>6, <1>7
  <2>2. replies[i].cmd \in Answers => replies[i].by = n
    <3>1. replies[i].cmd \in Answers => Awaited(replies[i].by)
      BY <1>6, <1>7
    <3> QED
      BY <2>1, <3>1 DEF Awaited
  <2> QED
    BY <1>6, <1>7, <2>1, <2>2
<1>8. ASSUME ~late PROVE OneQuestion'
  <2>1. \A i \in 1..Len(arriving') : IsAsk(arriving'[i]) =>
          Len(handler') + i = asked' /\ ui' \in {"sent", "waiting"}
    BY <1>1, <1>6, <1>8 DEF Awaited
  <2>2. \A m \in 1..Len(handler') : Pending(handler'[m]) => Awaited(m)'
    BY <1>1, <1>4, <1>6, <1>8 DEF Awaited
  <2>3. ASSUME NEW i \in 1..Len(replies'), replies'[i].cmd \in Answers
        PROVE  /\ replies'[i].by = asked' /\ ui' \in {"sent", "waiting"} /\ replies'[i].by \in 1..Len(handler')
               /\ ~Pending(handler'[replies'[i].by])
    <3>1. CASE i \in 1..Len(replies)
      <4>1. replies[i].cmd \in Answers /\ replies'[i].by = replies[i].by
        BY <1>2, <2>3, <3>1
      <4>2. /\ Awaited(replies[i].by) /\ replies[i].by \in 1..Len(handler)
            /\ ~Pending(handler[replies[i].by])
        BY <1>6, <1>8, <3>1, <4>1
      <4> QED
        BY <1>1, <1>4, <4>1, <4>2 DEF Awaited
    <3>2. CASE i = Len(replies) + 1
      <4>1. replies'[i] = r
        BY <1>2, <3>2
      <4> QED
        BY <1>1, <1>6, <1>8, <2>3, <4>1 DEF Awaited
    <3> QED
      BY <1>5, <3>1, <3>2
  <2>4. ASSUME NEW i \in 1..Len(replies'), NEW j \in 1..Len(replies'),
               replies'[i].cmd \in Answers, replies'[j].cmd \in Answers
        PROVE  i = j
    <3>1. CASE r.cmd \in Answers
      BY <1>2, <1>5, <1>7, <1>8, <2>4, <3>1
    <3>2. CASE r.cmd \notin Answers
      <4>1. i \in 1..Len(replies) /\ j \in 1..Len(replies)
        BY <1>2, <1>5, <2>4, <3>2
      <4> QED
        BY <1>2, <1>6, <1>8, <2>4, <4>1
    <3> QED
      BY <3>1, <3>2
  <2>5. \A i, j \in 1..Len(replies') : {replies'[i].cmd, replies'[j].cmd} \subseteq Answers => i = j
    BY <2>4
  <2> QED
    BY <2>1, <2>2, <2>3, <2>5 DEF OneQuestion, Awaited
<1>9. Understood'
  <2>1. \A m \in 1..Len(handler) : ThreadUnderstood(handler[m])
    BY WhatIsUnderstood DEF FEInv, MessagesUnderstood, ConnectionType
  <2>2. \A m \in DOMAIN handler' : ThreadUnderstood(handler'[m])
    BY <1>1, <2>1
  <2> QED
    BY <2>2 DEF Understood, ThreadUnderstood
<1>10. RepliesUnderstood'
  <2>1. \A i \in 1..Len(replies) : ReplyUnderstood(replies[i])
    BY WhatIsUnderstood DEF FEInv, MessagesUnderstood, ConnectionType
  <2>2. \A i \in DOMAIN replies' : ReplyUnderstood(replies'[i])
    BY <1>2, <1>5, <2>1
  <2> QED
    BY <2>2 DEF RepliesUnderstood, ReplyUnderstood
<1>11. AnswerIsOurs'
  BY DEF FEInv, MessagesUnderstood, AnswerIsOurs
<1> QED
  BY <1>3, <1>8, <1>9, <1>10, <1>11 DEF FEInv, MessagesUnderstood

\* The steps of a thread of the daemon.
LEMMA ParseKeeps ==
  ASSUME FrontEndAssumption, FEInv, NEW n \in 1..MaxPackets, Parse(n),
         UNCHANGED uivars
  PROVE  FEInv'
<1>1. n \in 1..Len(handler) /\ handler[n].st = "new" /\ handler[n] \in Handler
  BY DEF Parse, Runs, FEInv, ConnectionType
<1>2. UNCHANGED <<arriving, replies, exited, ui, asked, packets, resp, late>>
  BY DEF Parse, uivars
<1> DEFINE pdu == handler[n].pdu
           h == [handler[n] EXCEPT !.st = "do", !.cmd = pdu_cmd(pdu), !.data = pdu_data(pdu)]
<1>3. CASE Positions(pdu) = {}
  <2>1. handler' = [handler EXCEPT ![n] = Done]
    BY <1>3 DEF Parse
  <2>2. ThreadUnderstood(Done) /\ Done \in Handler /\ ~Pending(Done)
    BY Threads DEF ThreadUnderstood
  <2> QED
    BY <1>1, <1>2, <2>1, <2>2, ThreadGoesOn
<1>4. CASE Positions(pdu) # {}
  <2>1. handler' = [handler EXCEPT ![n] = h]
    BY <1>4 DEF Parse
  <2>2. pdu \in Seq(Char) /\ DELIMITER \in Char
    BY <1>1 DEF Handler, FrontEndAssumption, DispatchAssumption
  <2>3. /\ pdu_cmd(pdu) \in Seq(Char) /\ pdu_data(pdu) \in Seq(Char)
        /\ pdu = pdu_build(pdu_cmd(pdu), pdu_data(pdu))
        /\ \A i \in 1..Len(pdu_cmd(pdu)) : pdu_cmd(pdu)[i] # DELIMITER
    BY <1>4, <2>2, TakenApart
  <2> HIDE DEF pdu
  <2>4. h \in Handler /\ h.st = "do" /\ h.cmd = pdu_cmd(pdu) /\ h.data = pdu_data(pdu)
        /\ h.pdu = handler[n].pdu
    BY <1>1, <2>3 DEF Handler
  <2> HIDE DEF h
  <2>5. h.pdu = pdu /\ DOMAIN h.cmd = 1..Len(h.cmd)
    BY <2>3, <2>4 DEF pdu
  <2>6. ThreadUnderstood(h)
    BY <2>3, <2>4, <2>5 DEF ThreadUnderstood
  <2>7. Pending(h) => Pending(handler[n])
    BY <1>1, <1>4, <2>4, <2>5 DEF Pending, IsAsk, pdu
  <2> QED
    BY <1>1, <1>2, <2>1, <2>4, <2>6, <2>7, ThreadGoesOn
<1> QED
  BY <1>3, <1>4

\* A thread that only notes that it goes on, or how far it is.
LEMMA InterpretKeeps ==
  ASSUME FEInv, NEW n \in 1..MaxPackets, Interpret(n), UNCHANGED uivars
  PROVE  FEInv'
<1>1. n \in 1..Len(handler) /\ handler[n].cmd = INTERP /\ handler[n] \in Handler
  BY DEF Interpret, Runs, FEInv, ConnectionType
<1> DEFINE h == [handler[n] EXCEPT !.st = "interpreting"]
<1>2. handler' = [handler EXCEPT ![n] = h]
  BY DEF Interpret
<1>3. UNCHANGED <<arriving, replies, exited, ui, asked, packets, resp, late>>
  BY DEF Interpret, uivars
<1>4. /\ h \in Handler /\ h.st = "interpreting" /\ h.cmd = handler[n].cmd
      /\ h.pdu = handler[n].pdu /\ h.data = handler[n].data
  BY <1>1 DEF Handler
<1> HIDE DEF h
<1>5. ThreadUnderstood(handler[n])
  BY <1>1, WhatIsUnderstood DEF FEInv, MessagesUnderstood, ConnectionType
<1>6. ThreadUnderstood(h) /\ ~Pending(h)
  BY <1>4, <1>5 DEF ThreadUnderstood, Pending
<1> QED
  BY <1>1, <1>2, <1>3, <1>4, <1>6, ThreadGoesOn

\* Printing keeps what is on the way, ...
LEMMA PrintOutKeeps ==
  ASSUME FrontEndAssumption, FEInv, NEW n \in 1..MaxPackets, NEW text \in Text,
         NEW cmd \in {PRINT, LOG}, NEW arguments \in BOOLEAN, PrintOut(n, cmd, text, arguments),
         UNCHANGED uivars
  PROVE  FEInv'
<1>1. n \in 1..Len(handler) /\ handler[n].st = "interpreting" /\ handler[n] \in Handler
  BY DEF PrintOut, Runs, FEInv, ConnectionType
<1> DEFINE h == [handler[n] EXCEPT !.prints = @ + 1]
<1>2. handler' = [handler EXCEPT ![n] = h]
  BY DEF PrintOut
<1>3. UNCHANGED <<arriving, exited, ui, asked, packets, resp, late>>
  BY DEF PrintOut, uivars
<1>4. /\ h \in Handler /\ h.st = "interpreting" /\ h.cmd = handler[n].cmd
      /\ h.pdu = handler[n].pdu /\ h.data = handler[n].data
  <2>1. PICK g \in Handler : g = handler[n] /\ g.st = "interpreting"
    BY <1>1
  <2>2. PICK k \in Nat : k = g.prints + 1
    BY DEF Handler
  <2>3. h = [g EXCEPT !.prints = k]
    BY <2>1, <2>2
  <2> HIDE DEF h
  <2>4. h \in Handler /\ h.st = g.st /\ h.cmd = g.cmd /\ h.pdu = g.pdu /\ h.data = g.data
    BY <2>3 DEF Handler
  <2> QED
    BY <2>1, <2>4
<1> HIDE DEF h
<1>5. ThreadUnderstood(handler[n])
  BY <1>1, WhatIsUnderstood DEF FEInv, MessagesUnderstood, ConnectionType
<1>6. ThreadUnderstood(h) /\ ~Pending(h)
  BY <1>1, <1>4, <1>5 DEF ThreadUnderstood, Pending
<1>7. CASE replies' = replies
  BY <1>1, <1>2, <1>3, <1>4, <1>6, <1>7, ThreadGoesOn
<1>8. ASSUME NEW data \in Written(text, arguments),
             Reply(n, cmd, data, IF arguments /\ ~Fits(Len(text), PrintLimit) THEN data ELSE text)
      PROVE  FEInv'
  <2>1. data \in Text /\ (IF arguments /\ ~Fits(Len(text), PrintLimit) THEN data ELSE text) = data
    <3>1. Printed(text) = text
      BY PrintedWhole DEF FrontEndAssumption
    <3> QED
      BY <3>1 DEF Written
  <2> DEFINE r == [by |-> n, pdu |-> pdu_build(cmd, data), cmd |-> cmd, data |-> data]
  <2>2. replies' = Append(replies, r)
    BY <1>8, <2>1 DEF Reply
  <2>3. /\ cmd \in Seq(Char) /\ (\A i \in 1..Len(cmd) : cmd[i] # DELIMITER)
        /\ data \in Seq(Char) /\ DELIMITER \in Char
    BY <2>1, Commands DEF FrontEndAssumption, DispatchAssumption
  <2>4. /\ pdu_build(cmd, data) \in Seq(Char)
        /\ pdu_cmd(pdu_build(cmd, data)) = cmd /\ pdu_data(pdu_build(cmd, data)) = data
    BY <2>3, BuiltAndTaken
  <2>5. r \in Message /\ r.by = n /\ r.cmd = cmd /\ ReplyUnderstood(r)
    BY <1>1, <2>3, <2>4 DEF Message, ReplyUnderstood
  <2>6. r.cmd \notin Answers
    BY <2>5, CommandsDiffer
  <2> HIDE DEF r
  <2> QED
    BY <1>1, <1>2, <1>3, <1>4, <1>6, <2>2, <2>5, <2>6, ThreadReplies
<1>9. \/ \E data \in Written(text, arguments) :
           Reply(n, cmd, data, IF arguments /\ ~Fits(Len(text), PrintLimit) THEN data ELSE text)
      \/ replies' = replies
  BY Zenon DEF PrintOut
<1> QED
  BY <1>7, <1>8, <1>9, Zenon

\* ... so does an answer ...
LEMMA AnswerKeeps ==
  ASSUME FrontEndAssumption, FEInv, NEW n \in 1..MaxPackets, cmd_autocomp(n),
         UNCHANGED uivars
  PROVE  FEInv'
<1>1. n \in 1..Len(handler) /\ handler[n].st = "do" /\ handler[n].cmd = AUTOCOMP
  BY DEF cmd_autocomp, Runs, FEInv, ConnectionType
<1>2. UNCHANGED <<arriving, exited, ui, asked, packets, resp, late>>
  BY DEF cmd_autocomp, uivars
<1>3. Pending(handler[n])
  BY <1>1 DEF Pending
<1>4. PICK cmd \in {AUTOCOMP_MORE, AUTOCOMP_COMP, AUTOCOMP_PRINT}, text \in Text \union {<<>>} :
        \/ Reply(n, cmd, text, text) /\ handler' = [handler EXCEPT ![n] = Done]
        \/ UNCHANGED replies /\ handler' = [handler EXCEPT ![n] = Unsent]
  BY Zenon DEF cmd_autocomp
<1>5. CASE Reply(n, cmd, text, text) /\ handler' = [handler EXCEPT ![n] = Done]
  <2> DEFINE r == [by |-> n, pdu |-> pdu_build(cmd, text), cmd |-> cmd, data |-> text]
  <2>1. replies' = Append(replies, r)
    BY <1>5 DEF Reply
  <2>2. /\ cmd \in Seq(Char) /\ (\A i \in 1..Len(cmd) : cmd[i] # DELIMITER)
        /\ text \in Seq(Char) /\ DELIMITER \in Char
    <3>1. cmd \in {AUTOCOMP, INTERP, PRINT, LOG, AUTOCOMP_MORE, AUTOCOMP_COMP, AUTOCOMP_PRINT}
      OBVIOUS
    <3>2. <<>> \in Seq(Char) /\ Text \subseteq Seq(Char)
      BY DEF FrontEndAssumption, DispatchAssumption
    <3> QED
      BY <3>1, <3>2, Commands DEF FrontEndAssumption, DispatchAssumption
  <2>3. /\ pdu_build(cmd, text) \in Seq(Char)
        /\ pdu_cmd(pdu_build(cmd, text)) = cmd /\ pdu_data(pdu_build(cmd, text)) = text
    BY <2>2, BuiltAndTaken
  <2>4. r \in Message /\ r.by = n /\ ReplyUnderstood(r)
    BY <1>1, <2>2, <2>3 DEF Message, ReplyUnderstood
  <2>5. ThreadUnderstood(Done) /\ Done \in Handler /\ ~Pending(Done)
    BY Threads DEF ThreadUnderstood
  <2> HIDE DEF r
  <2> QED
    BY <1>1, <1>2, <1>3, <1>5, <2>1, <2>4, <2>5, ThreadReplies
<1>6. CASE UNCHANGED replies /\ handler' = [handler EXCEPT ![n] = Unsent]
  <2>1. ThreadUnderstood(Unsent) /\ Unsent \in Handler /\ ~Pending(Unsent)
    BY Threads DEF ThreadUnderstood
  <2> QED
    BY <1>1, <1>2, <1>6, <2>1, ThreadGoesOn
<1> QED
  BY <1>4, <1>5, <1>6, Zenon

\* A thread that is done, with or without anything to do.
LEMMA EndKeeps ==
  ASSUME FEInv, NEW n \in 1..MaxPackets, Interpreted(n) \/ Ignore(n),
         UNCHANGED uivars
  PROVE  FEInv'
<1>1. n \in 1..Len(handler)
  BY DEF Interpreted, Ignore, Runs, FEInv, ConnectionType
<1>2. /\ handler' = [handler EXCEPT ![n] = Done]
      /\ UNCHANGED <<arriving, replies, exited, ui, asked, packets, resp, late>>
  BY DEF Interpreted, Ignore, uivars
<1>3. ThreadUnderstood(Done) /\ Done \in Handler /\ ~Pending(Done)
  BY Threads DEF ThreadUnderstood
<1> QED
  BY <1>1, <1>2, <1>3, ThreadGoesOn

\* A packet gets a thread: its question keeps its number.
LEMMA ReceiveKeeps ==
  ASSUME FEInv, Receive, UNCHANGED uivars
  PROVE  FEInv'
<1>1. /\ arriving \in Seq(Seq(Char)) /\ handler \in Seq(Handler) /\ arriving # <<>>
      /\ handler' = Append(handler, Started(arriving[1])) /\ arriving' = Tail(arriving)
      /\ UNCHANGED <<replies, exited, ui, asked, packets, resp, late>>
  BY DEF Receive, FEInv, ConnectionType, uivars
<1>2. /\ Len(arriving) \in Nat \ {0} /\ arriving[1] \in Seq(Char)
      /\ arriving' \in Seq(Seq(Char)) /\ Len(arriving') = Len(arriving) - 1
      /\ \A i \in 1..Len(arriving) - 1 : arriving'[i] = arriving[i + 1]
  BY <1>1, HeadTailProperties
<1> DEFINE h == Started(arriving[1])
<1>3. h \in Handler /\ h.pdu = arriving[1] /\ h.st = "new" /\ h.cmd = <<>>
  BY <1>2, Threads
<1>4. ThreadUnderstood(h) /\ (Pending(h) => IsAsk(arriving[1]))
  BY <1>3 DEF ThreadUnderstood, Pending
<1> HIDE DEF h
<1>5. /\ handler' \in Seq(Handler) /\ Len(handler') = Len(handler) + 1
      /\ \A m \in 1..Len(handler) : handler'[m] = handler[m]
      /\ handler'[Len(handler) + 1] = h
  <2>1. handler' = Append(handler, h)
    BY <1>1 DEF h
  <2> QED
    BY <1>1, <1>3, <2>1, AppendProperties
<1>6. /\ Len(handler) \in Nat
      /\ \A m \in 1..Len(handler') : m \in 1..Len(handler) \/ m = Len(handler) + 1
  BY <1>1, <1>5, LenProperties
<1>7. ConnectionType'
  <2>1. packets' = Len(handler') + Len(arriving')
    BY <1>1, <1>2, <1>5, <1>6 DEF FEInv, ConnectionType
  <2> QED
    BY <1>1, <1>2, <1>5, <2>1 DEF FEInv, ConnectionType
<1>8. ASSUME ~late
      PROVE  /\ \A i \in 1..Len(arriving) : IsAsk(arriving[i]) => Awaited(Len(handler) + i)
             /\ \A m \in 1..Len(handler) : Pending(handler[m]) => Awaited(m)
             /\ \A i \in 1..Len(replies) : replies[i].cmd \in Answers =>
                  /\ Awaited(replies[i].by) /\ replies[i].by \in 1..Len(handler)
                  /\ ~Pending(handler[replies[i].by])
             /\ \A i, j \in 1..Len(replies) : {replies[i].cmd, replies[j].cmd} \subseteq Answers => i = j
  BY <1>8 DEF FEInv, OneQuestion
<1>9. ASSUME ~late PROVE OneQuestion'
  <2>1. ASSUME NEW i \in 1..Len(arriving'), IsAsk(arriving'[i])
        PROVE  Len(handler') + i = asked' /\ ui' \in {"sent", "waiting"}
    <3>1. /\ i \in 1..Len(arriving) - 1 /\ i + 1 \in 1..Len(arriving)
          /\ Len(handler) + (i + 1) = Len(handler) + 1 + i
      <4>1. PICK k \in Nat \ {0} : k = Len(arriving)
        BY <1>2
      <4>2. PICK m \in Nat : m = Len(handler)
        BY <1>6
      <4>3. i \in 1..k - 1
        BY <1>2, <4>1
      <4>4. i + 1 \in 1..k /\ m + (i + 1) = m + 1 + i
        BY <4>2, <4>3
      <4> QED
        BY <4>1, <4>2, <4>3, <4>4
    <3>2. Awaited(Len(handler) + (i + 1))
      BY <1>2, <1>8, <1>9, <2>1, <3>1
    <3> QED
      BY <1>1, <1>5, <3>1, <3>2 DEF Awaited
  <2>2. ASSUME NEW m \in 1..Len(handler'), Pending(handler'[m])
        PROVE  m = asked' /\ ui' \in {"sent", "waiting"}
    <3>1. CASE m \in 1..Len(handler)
      BY <1>1, <1>5, <1>8, <1>9, <2>2, <3>1 DEF Awaited
    <3>2. CASE m = Len(handler) + 1
      <4>1. IsAsk(arriving[1]) /\ 1 \in 1..Len(arriving)
        BY <1>2, <1>4, <1>5, <2>2, <3>2
      <4> QED
        BY <1>1, <1>8, <1>9, <3>2, <4>1 DEF Awaited
    <3> QED
      BY <1>6, <3>1, <3>2
  <2>3. ASSUME NEW i \in 1..Len(replies), replies[i].cmd \in Answers
        PROVE  /\ Awaited(replies[i].by) /\ replies[i].by \in 1..Len(handler')
               /\ ~Pending(handler'[replies[i].by])
    <3>1. /\ Awaited(replies[i].by) /\ replies[i].by \in 1..Len(handler)
          /\ ~Pending(handler[replies[i].by])
      BY <1>8, <1>9, <2>3
    <3> QED
      BY <1>5, <1>6, <3>1
  <2> QED
    BY <1>1, <1>8, <1>9, <2>1, <2>2, <2>3 DEF OneQuestion, Awaited
<1>10. Understood'
  <2>1. \A m \in 1..Len(handler) : ThreadUnderstood(handler[m])
    BY WhatIsUnderstood DEF FEInv, MessagesUnderstood, ConnectionType
  <2>2. \A m \in DOMAIN handler' : ThreadUnderstood(handler'[m])
    BY <1>4, <1>5, <1>6, <2>1
  <2> QED
    BY <2>2 DEF Understood, ThreadUnderstood
<1>11. RepliesUnderstood' /\ AnswerIsOurs'
  BY <1>1 DEF FEInv, MessagesUnderstood, RepliesUnderstood, AnswerIsOurs
<1> QED
  BY <1>1, <1>7, <1>9, <1>10, <1>11 DEF FEInv, MessagesUnderstood

\* ... and the daemon that ends, for want of a thread or by an assertion.
LEMMA ExitKeeps ==
  ASSUME FEInv, NoThread \/ \E n \in 1..MaxPackets : CandidatesChanged(n), UNCHANGED uivars
  PROVE  FEInv'
<1>1. UNCHANGED <<arriving, handler, replies, ui, asked, packets, resp, late>>
  BY DEF NoThread, CandidatesChanged, uivars
<1>2. ConnectionType' /\ Understood' /\ RepliesUnderstood' /\ AnswerIsOurs'
  BY <1>1 DEF FEInv, ConnectionType, MessagesUnderstood, Understood, RepliesUnderstood, AnswerIsOurs
<1>3. ASSUME ~late PROVE OneQuestion'
  BY <1>1, <1>3 DEF FEInv, OneQuestion, Awaited
<1> QED
  BY <1>1, <1>2, <1>3 DEF FEInv, MessagesUnderstood

\* What the daemon does, whichever thread it is.
LEMMA DaemonKeeps ==
  ASSUME FrontEndAssumption, FEInv, DispatchNext, UNCHANGED uivars
  PROVE  FEInv'
<1>1. CASE Receive
  BY <1>1, ReceiveKeeps
<1>2. CASE NoThread
  BY <1>2, ExitKeeps
<1>3. ASSUME NEW n \in 1..MaxPackets, Handle(n)  PROVE FEInv'
  BY <1>3, ParseKeeps, InterpretKeeps, AnswerKeeps, EndKeeps DEF Handle
<1>4. ASSUME NEW n \in 1..MaxPackets, Interpreted(n)  PROVE FEInv'
  BY <1>4, EndKeeps
<1>5. ASSUME NEW n \in 1..MaxPackets, NEW text \in Text, NEW cmd \in {PRINT, LOG},
             NEW arguments \in BOOLEAN, PrintOut(n, cmd, text, arguments)
      PROVE  FEInv'
  BY <1>5, PrintOutKeeps
<1>6. ASSUME NEW n \in 1..MaxPackets, CandidatesChanged(n)  PROVE FEInv'
  BY <1>6, ExitKeeps
<1> QED
  BY <1>1, <1>2, <1>3, <1>4, <1>5, <1>6, Zenon DEF DispatchNext

\* A packet is sent, which asks for a completion only when it is waited for.
LEMMA SendKeeps ==
  ASSUME FEInv, NEW pdu \in Seq(Char), Send(pdu), resp' = resp,
         \/ UNCHANGED <<ui, asked, late>> /\ ~IsAsk(pdu)
         \/ ui = "idle" /\ ui' = "sent" /\ asked' = packets + 1 /\ late' = UnderWay
  PROVE  FEInv'
<1>1. /\ arriving \in Seq(Seq(Char)) /\ handler \in Seq(Handler)
      /\ packets = Len(handler) + Len(arriving) /\ packets' = packets + 1
      /\ arriving' = Append(arriving, pdu) /\ UNCHANGED <<handler, replies, exited, resp>>
  BY DEF Send, FEInv, ConnectionType
<1>2. /\ Len(arriving) \in Nat /\ Len(handler) \in Nat
      /\ arriving' \in Seq(Seq(Char)) /\ Len(arriving') = Len(arriving) + 1
      /\ \A i \in 1..Len(arriving) : arriving'[i] = arriving[i]
      /\ arriving'[Len(arriving) + 1] = pdu
  BY <1>1, AppendProperties, LenProperties
<1>3. ConnectionType'
  <2>1. packets' = Len(handler') + Len(arriving') /\ packets + 1 \in Nat
    BY <1>1, <1>2
  <2>2. late' \in BOOLEAN
    <3>1. UnderWay \in BOOLEAN
      BY Zenon DEF UnderWay
    <3> QED
      BY <3>1, Zenon DEF FEInv, ConnectionType
  <2>3. ui' \in {"idle", "sent", "waiting", "woken", "taken"} /\ asked' \in Nat
    BY <1>1, <2>1 DEF FEInv, ConnectionType
  <2> QED
    BY <1>1, <1>2, <2>1, <2>2, <2>3 DEF FEInv, ConnectionType
<1>4. ASSUME ~late'
      PROVE  /\ \A i \in 1..Len(arriving) : IsAsk(arriving[i]) =>
                  Len(handler) + i = asked' /\ ui' \in {"sent", "waiting"}
             /\ \A m \in 1..Len(handler) : Pending(handler[m]) =>
                  m = asked' /\ ui' \in {"sent", "waiting"}
             /\ \A i \in 1..Len(replies) : replies[i].cmd \in Answers =>
                  /\ replies[i].by = asked' /\ ui' \in {"sent", "waiting"}
                  /\ replies[i].by \in 1..Len(handler) /\ ~Pending(handler[replies[i].by])
             /\ \A i, j \in 1..Len(replies) :
                  {replies[i].cmd, replies[j].cmd} \subseteq Answers => i = j
  <2>1. CASE UNCHANGED <<ui, asked, late>>
    BY <1>4, <2>1 DEF FEInv, OneQuestion, Awaited
  <2>2. CASE late' = UnderWay
    BY <1>4, <2>2 DEF UnderWay
  <2> QED
    BY <2>1, <2>2
<1>5. ASSUME ~late' PROVE OneQuestion'
  <2>1. ASSUME NEW i \in 1..Len(arriving'), IsAsk(arriving'[i])
        PROVE  Len(handler) + i = asked' /\ ui' \in {"sent", "waiting"}
    <3>1. CASE i \in 1..Len(arriving)
      BY <1>2, <1>4, <1>5, <2>1, <3>1
    <3>2. CASE i = Len(arriving) + 1
      <4>1. IsAsk(pdu)
        BY <1>2, <2>1, <3>2
      <4>2. ui' = "sent" /\ asked' = Len(handler) + Len(arriving) + 1
        BY <1>1, <4>1
      <4> QED
        BY <1>2, <3>2, <4>2
    <3> QED
      BY <1>2, <3>1, <3>2
  <2> QED
    BY <1>1, <1>4, <1>5, <2>1 DEF OneQuestion, Awaited
<1>6. Understood' /\ RepliesUnderstood'
  BY <1>1 DEF FEInv, MessagesUnderstood, Understood, RepliesUnderstood
<1>7. AnswerIsOurs'
  BY <1>1 DEF FEInv, MessagesUnderstood, AnswerIsOurs
<1> QED
  BY <1>3, <1>5, <1>6, <1>7 DEF FEInv, MessagesUnderstood

\* The user interface goes on; while it is idle, woken or done with a question nothing
\* asks and nothing answers, unless a question was given up.
LEMMA WaitAndResumeKeep ==
  ASSUME FEInv, Wait \/ WakeUp \/ Interrupted \/ Take \/ Resume
  PROVE  FEInv'
<1>1. UNCHANGED <<arriving, handler, replies, exited, packets, resp>>
  BY DEF Wait, WakeUp, Interrupted, Take, Resume
<1>2. ConnectionType'
  <2>1. ui' \in {"idle", "sent", "waiting", "woken", "taken"} /\ asked' \in Nat
    BY DEF FEInv, ConnectionType, Wait, WakeUp, Interrupted, Take, Resume
  <2>2. late' \in BOOLEAN
    BY Zenon DEF FEInv, ConnectionType, Wait, WakeUp, Interrupted, Take, Resume
  <2> QED
    BY <1>1, <2>1, <2>2 DEF FEInv, ConnectionType
<1>3. ASSUME ~late'
      PROVE  late' = late /\ \A m : Awaited(m) => m = asked' /\ ui' \in {"sent", "waiting"}
  BY <1>3 DEF Awaited, Wait, WakeUp, Interrupted, Take, Resume
<1>4. ASSUME ~late' PROVE OneQuestion'
  BY <1>1, <1>3, <1>4 DEF FEInv, OneQuestion, Awaited
<1>5. Understood' /\ RepliesUnderstood'
  BY <1>1 DEF FEInv, MessagesUnderstood, Understood, RepliesUnderstood
<1>6. AnswerIsOurs'
  BY DEF FEInv, MessagesUnderstood, AnswerIsOurs, Wait, WakeUp, Interrupted, Take, Resume
<1> QED
  BY <1>2, <1>4, <1>5, <1>6 DEF FEInv, MessagesUnderstood

\* The reader takes a reply: an answer is that of the question, and no other is left.
LEMMA ReadKeeps ==
  ASSUME FEInv, onSocketRead
  PROVE  FEInv'
<1> DEFINE r == replies[1]
<1>1. /\ replies \in Seq(Message) /\ replies # <<>> /\ replies' = Tail(replies) /\ Head(replies) = r
      /\ UNCHANGED <<arriving, handler, exited, asked, packets, late>>
  BY DEF onSocketRead, FEInv, ConnectionType
<1>2. /\ Len(replies) \in Nat \ {0} /\ r \in Message
      /\ replies' \in Seq(Message) /\ Len(replies') = Len(replies) - 1
      /\ \A i \in 1..Len(replies) - 1 : replies'[i] = replies[i + 1]
  BY <1>1, HeadTailProperties
<1>3. 1 \in 1..Len(replies) /\ \A i \in 1..Len(replies') : i + 1 \in 1..Len(replies) /\ i + 1 # 1
  BY <1>2
<1>4. \A i \in 1..Len(replies') : replies'[i] = replies[i + 1]
  BY <1>2
<1>5. pdu_cmd(r.pdu) = r.cmd
  <2>1. \A i \in DOMAIN replies : ReplyUnderstood(replies[i])
    BY WhatIsUnderstood DEF FEInv, MessagesUnderstood
  <2>2. 1 \in DOMAIN replies
    BY <1>1, <1>3
  <2> QED
    BY <2>1, <2>2 DEF ReplyUnderstood
<1> HIDE DEF r
<1>6. IF r.cmd \in Answers
      THEN ui' = (IF ui = "waiting" THEN "woken" ELSE ui) /\ resp'.by = r.by
      ELSE ui' = ui /\ resp' = resp
  BY <1>1, <1>5 DEF onSocketRead
<1>7. ASSUME ~late
      PROVE  /\ \A i \in 1..Len(arriving) : IsAsk(arriving[i]) => Awaited(Len(handler) + i)
             /\ \A m \in 1..Len(handler) : Pending(handler[m]) => Awaited(m)
             /\ \A i \in 1..Len(replies) : replies[i].cmd \in Answers =>
                  /\ Awaited(replies[i].by) /\ replies[i].by \in 1..Len(handler)
                  /\ ~Pending(handler[replies[i].by])
             /\ \A i, j \in 1..Len(replies) : {replies[i].cmd, replies[j].cmd} \subseteq Answers => i = j
  BY <1>7 DEF FEInv, OneQuestion
<1>8. ConnectionType'
  <2>1. ui' \in {"idle", "sent", "waiting", "woken", "taken"}
    BY <1>6 DEF FEInv, ConnectionType
  <2> QED
    BY <1>1, <1>2, <2>1 DEF FEInv, ConnectionType
<1>9. ASSUME ~late, r.cmd \in Answers
      PROVE  /\ r.by = asked /\ r.by \in 1..Len(handler) /\ ui \in {"sent", "waiting"}
             /\ \A i \in 1..Len(replies') : replies'[i].cmd \notin Answers
             /\ \A m \in 1..Len(handler) : ~Pending(handler[m])
             /\ \A i \in 1..Len(arriving) : ~IsAsk(arriving[i])
  <2>1. Awaited(r.by) /\ r.by \in 1..Len(handler) /\ ~Pending(handler[r.by])
    BY <1>3, <1>7, <1>9 DEF r
  <2>2. ASSUME NEW i \in 1..Len(replies') PROVE replies'[i].cmd \notin Answers
    <3>1. i + 1 \in 1..Len(replies) /\ i + 1 # 1 /\ replies'[i] = replies[i + 1]
      BY <1>3, <1>4
    <3>2. replies[i + 1].cmd \in Answers => i + 1 = 1
      BY <1>3, <1>7, <1>9, <3>1 DEF r
    <3> QED
      BY <3>1, <3>2
  <2>3. ASSUME NEW m \in 1..Len(handler) PROVE ~Pending(handler[m])
    <3>1. Pending(handler[m]) => Awaited(m)
      BY <1>7, <1>9
    <3>2. Awaited(m) => m = r.by
      BY <2>1 DEF Awaited
    <3> QED
      BY <2>1, <3>1, <3>2
  <2>4. ASSUME NEW i \in 1..Len(arriving) PROVE ~IsAsk(arriving[i])
    <3>1. IsAsk(arriving[i]) => Len(handler) + i = r.by
      BY <1>7, <1>9, <2>1 DEF Awaited
    <3>2. Len(handler) + i # r.by
      <4>1. Len(handler) \in Nat
        BY LenProperties DEF FEInv, ConnectionType
      <4> QED
        BY <2>1, <4>1
    <3> QED
      BY <3>1, <3>2
  <2> QED
    BY <2>1, <2>2, <2>3, <2>4 DEF Awaited
<1>10. ASSUME ~late PROVE OneQuestion'
  <2>1. CASE r.cmd \in Answers
    <3>1. /\ \A i \in 1..Len(replies') : replies'[i].cmd \notin Answers
          /\ \A m \in 1..Len(handler) : ~Pending(handler[m])
          /\ \A i \in 1..Len(arriving) : ~IsAsk(arriving[i])
      BY <1>9, <1>10, <2>1
    <3> QED
      BY <1>1, <3>1 DEF OneQuestion
  <2>2. CASE r.cmd \notin Answers
    <3>1. ui' = ui /\ asked' = asked
      BY <1>1, <1>6, <2>2
    <3>2. ASSUME NEW i \in 1..Len(replies'), replies'[i].cmd \in Answers
          PROVE  /\ Awaited(replies[i + 1].by) /\ replies[i + 1].by \in 1..Len(handler)
                 /\ ~Pending(handler[replies[i + 1].by])
      BY <1>3, <1>4, <1>7, <1>10, <3>2
    <3>3. ASSUME NEW i \in 1..Len(replies'), NEW j \in 1..Len(replies'),
                 replies'[i].cmd \in Answers, replies'[j].cmd \in Answers
          PROVE  i = j
      <4>1. /\ i + 1 \in 1..Len(replies) /\ j + 1 \in 1..Len(replies)
            /\ {replies[i + 1].cmd, replies[j + 1].cmd} \subseteq Answers
        BY <1>3, <1>4, <3>3
      <4>2. i + 1 = j + 1
        BY <1>7, <1>10, <4>1
      <4> QED
        BY <1>2, <4>2
    <3>4. \A i \in 1..Len(replies') : replies'[i].cmd \in Answers =>
            /\ replies'[i].by = asked' /\ ui' \in {"sent", "waiting"}
            /\ replies'[i].by \in 1..Len(handler) /\ ~Pending(handler[replies'[i].by])
      BY <1>4, <3>1, <3>2 DEF Awaited
    <3>5. \A i, j \in 1..Len(replies') :
            {replies'[i].cmd, replies'[j].cmd} \subseteq Answers => i = j
      BY <3>3
    <3> QED
      BY <1>1, <1>7, <1>10, <3>1, <3>4, <3>5 DEF OneQuestion, Awaited
  <2> QED
    BY <2>1, <2>2
<1>11. Understood'
  BY <1>1 DEF FEInv, MessagesUnderstood, Understood
<1>12. RepliesUnderstood'
  <2>1. \A i \in 1..Len(replies) : ReplyUnderstood(replies[i])
    BY <1>1, WhatIsUnderstood DEF FEInv, MessagesUnderstood
  <2>2. \A i \in 1..Len(replies') : ReplyUnderstood(replies'[i])
    BY <1>3, <1>4, <2>1
  <2>3. DOMAIN replies' = 1..Len(replies')
    BY <1>2
  <2> QED
    BY <2>2, <2>3 DEF RepliesUnderstood, ReplyUnderstood
<1>13. AnswerIsOurs'
  <2>1. CASE r.cmd \in Answers /\ ~late
    <3>1. resp'.by = asked'
      BY <1>1, <1>6, <1>9, <2>1
    <3> QED
      BY <3>1 DEF AnswerIsOurs
  <2>2. CASE r.cmd \notin Answers
    BY <1>1, <1>6, <2>2 DEF FEInv, MessagesUnderstood, AnswerIsOurs
  <2>3. CASE late
    BY <1>1, <2>3 DEF AnswerIsOurs
  <2> QED
    BY <2>1, <2>2, <2>3
<1> QED
  BY <1>1, <1>8, <1>10, <1>11, <1>12, <1>13 DEF FEInv, MessagesUnderstood

\* At the start nothing is on the way.
LEMMA FEInvInit ==
  ASSUME FrontEndAssumption, FEInit
  PROVE  FEInv
<1>1. arriving = <<>> /\ handler = <<>> /\ replies = <<>> /\ ui = "idle" /\ asked = 0 /\ packets = 0
      /\ late = FALSE
  BY DEF FEInit, DispatchInit
<1>2. ConnectionType
  <2>1. late \in BOOLEAN
    BY <1>1, Zenon
  <2> QED
    BY <1>1, <2>1 DEF ConnectionType
<1>3. OneQuestion
  BY <1>1 DEF OneQuestion
<1>4. MessagesUnderstood
  BY <1>1 DEF MessagesUnderstood, Understood, RepliesUnderstood, AnswerIsOurs
<1> QED
  BY <1>2, <1>3, <1>4 DEF FEInv

\* Every step of daemon and front end keeps the invariant.
LEMMA FEInvNext ==
  ASSUME FrontEndAssumption, FEInv, [FENext]_fevars
  PROVE  FEInv'
<1>1. ASSUME NEW text \in Text, SendInterp(text)  PROVE FEInv'
  <2>1. text \in Seq(Char)
    BY DEF FrontEndAssumption, DispatchAssumption
  <2>2. pdu_build(INTERP, text) \in Seq(Char) /\ ~IsAsk(pdu_build(INTERP, text))
    BY <2>1, WhatAsks DEF FrontEndAssumption
  <2>3. Send(pdu_build(INTERP, text)) /\ UNCHANGED <<ui, asked, late>> /\ resp' = resp
    BY <1>1 DEF SendInterp
  <2> QED
    BY <2>2, <2>3, SendKeeps
<1>2. ASSUME NEW text \in Text, Ask(text)  PROVE FEInv'
  <2>1. text \in Seq(Char)
    BY DEF FrontEndAssumption, DispatchAssumption
  <2>2. pdu_build(AUTOCOMP, text) \in Seq(Char)
    BY <2>1, WhatAsks DEF FrontEndAssumption
  <2>3. /\ Send(pdu_build(AUTOCOMP, text)) /\ resp' = resp
        /\ ui = "idle" /\ ui' = "sent" /\ asked' = packets + 1 /\ late' = UnderWay
    BY <1>2 DEF Ask
  <2> QED
    BY <2>2, <2>3, SendKeeps
<1>3. ASSUME NEW pdu \in Stray, SendStray(pdu)  PROVE FEInv'
  <2>1. pdu \in Seq(Char) /\ ~IsAsk(pdu)
    BY DEF FrontEndAssumption
  <2>2. Send(pdu) /\ UNCHANGED <<ui, asked, late>> /\ resp' = resp
    BY <1>3 DEF SendStray
  <2> QED
    BY <2>1, <2>2, SendKeeps
<1>4. CASE Wait \/ WakeUp \/ Interrupted \/ Take \/ Resume
  BY <1>4, WaitAndResumeKeep
<1>5. CASE onSocketRead
  BY <1>5, ReadKeeps
<1>6. CASE DispatchNext /\ UNCHANGED uivars
  BY <1>6, DaemonKeeps
<1>7. CASE UNCHANGED fevars
  <2>1. UNCHANGED <<arriving, handler, replies, exited, ui, asked, packets, resp, late>>
    BY <1>7 DEF fevars
  <2>2. ASSUME ~late PROVE OneQuestion'
    BY <2>1, <2>2 DEF FEInv, OneQuestion, Awaited
  <2> QED
    BY <2>1, <2>2 DEF FEInv, ConnectionType, MessagesUnderstood, Understood, RepliesUnderstood,
                      AnswerIsOurs
<1> QED
  BY <1>1, <1>2, <1>3, <1>4, <1>5, <1>6, <1>7, Zenon DEF FENext

\* Whatever is printed, interpreted and completed at the same time, delimiters in the
\* data included, commands and replies are understood as they were meant, and a
\* completion goes on with the answer to its own request unless a wait has ended without
\* an answer and the answer given up was still on its way (pdu.c:32-78, main.c:83-145,
\* Main.java:83-160).
THEOREM MessagesAreUnderstood ==
  ASSUME FrontEndAssumption
  PROVE  FESpec => []MessagesUnderstood
<1>1. FEInit => FEInv
  BY FEInvInit
<1>2. FEInv /\ [FENext]_fevars => FEInv'
  BY FEInvNext
<1>3. FEInv => MessagesUnderstood
  BY DEF FEInv
<1> QED
  BY <1>1, <1>2, <1>3, PTL DEF FESpec

---------------------------------------------------------------------------
(* The symbol table.  Paths are compared by what they have in common, Upto.   *)

\* The beginning of a path.
LEMMA Uptos ==
  ASSUME NEW p \in Seq(Nat), NEW i \in 0 .. Len(p)
  PROVE  /\ Upto(p, i) \in Seq(Nat) /\ Len(Upto(p, i)) = i
         /\ \A j \in 1 .. i : Upto(p, i)[j] = p[j]
<1>1. i \in Nat /\ i <= Len(p) /\ 1 \in Nat \ {0} /\ 1 <= i + 1 /\ i - 1 + 1 = i
  OBVIOUS
<1>2. /\ SubSeq(p, 1, i) \in Seq(Nat)
      /\ Len(SubSeq(p, 1, i)) = i - 1 + 1
      /\ \A j \in 1..i - 1 + 1 : SubSeq(p, 1, i)[j] = p[1 + j - 1]
  BY <1>1, PartOf
<1> QED
  BY <1>1, <1>2 DEF Upto

\* All of a path, and the beginning of a beginning.
LEMMA UptoAll ==
  ASSUME NEW p \in Seq(Nat)
  PROVE  Upto(p, Len(p)) = p /\ Upto(p, 0) = << >> /\ Len(p) \in Nat
<1>1. Len(p) \in 0 .. Len(p) /\ 0 \in 0 .. Len(p)
  OBVIOUS
<1>2. Upto(p, Len(p)) = p
  BY <1>1, Uptos, SameItems
<1>3. Upto(p, 0) \in Seq(Nat) /\ Len(Upto(p, 0)) = 0
  BY <1>1, Uptos
<1> QED
  BY <1>1, <1>2, <1>3, EmptySeq

LEMMA UptoUpto ==
  ASSUME NEW p \in Seq(Nat), NEW i \in 0 .. Len(p), NEW j \in 0 .. i
  PROVE  Upto(Upto(p, i), j) = Upto(p, j)
<1>1. j \in 0 .. Len(p)
  OBVIOUS
<1>2. Upto(p, i) \in Seq(Nat) /\ Len(Upto(p, i)) = i /\ \A k \in 1 .. i : Upto(p, i)[k] = p[k]
  BY Uptos
<1>3. /\ Upto(Upto(p, i), j) \in Seq(Nat) /\ Len(Upto(Upto(p, i), j)) = j
      /\ \A k \in 1 .. j : Upto(Upto(p, i), j)[k] = Upto(p, i)[k]
  BY <1>2, Uptos
<1>4. Upto(p, j) \in Seq(Nat) /\ Len(Upto(p, j)) = j /\ \A k \in 1 .. j : Upto(p, j)[k] = p[k]
  BY <1>1, Uptos
<1>5. \A k \in 1 .. j : k \in 1 .. i
  OBVIOUS
<1> QED
  BY <1>2, <1>3, <1>4, <1>5, SameItems

\* A prefix is a beginning.
LEMMA PrefixIsUpto ==
  ASSUME NEW p \in Seq(Nat), NEW q \in Seq(Nat)
  PROVE  IsPrefix(p, q) <=> Len(p) \in 0 .. Len(q) /\ Upto(q, Len(p)) = p
<1>1. Upto(p, Len(p)) = p /\ Len(p) \in Nat /\ Len(q) \in Nat
  BY UptoAll
<1> QED
  BY <1>1 DEF IsPrefix, Upto

\* The beginnings of a path that extends another one.
LEMMA PrefixUptos ==
  ASSUME NEW p \in Seq(Nat), NEW q \in Seq(Nat), IsPrefix(p, q), NEW i \in 0 .. Len(p)
  PROVE  i \in 0 .. Len(q) /\ Upto(q, i) = Upto(p, i)
<1>1. Len(p) \in 0 .. Len(q) /\ Upto(q, Len(p)) = p
  BY PrefixIsUpto
<1>2. Upto(Upto(q, Len(p)), i) = Upto(q, i)
  BY <1>1, UptoUpto
<1> QED
  BY <1>1, <1>2

LEMMA UptoIsPrefix ==
  ASSUME NEW p \in Seq(Nat), NEW i \in 0 .. Len(p), NEW j \in i .. Len(p)
  PROVE  IsPrefix(Upto(p, i), Upto(p, j)) /\ IsPrefix(Upto(p, i), p)
<1>1. j \in 0 .. Len(p) /\ i \in 0 .. j
  OBVIOUS
<1>2. /\ Upto(p, i) \in Seq(Nat) /\ Len(Upto(p, i)) = i
      /\ Upto(p, j) \in Seq(Nat) /\ Len(Upto(p, j)) = j
  BY <1>1, Uptos
<1>3. Upto(Upto(p, j), i) = Upto(p, i)
  BY <1>1, UptoUpto
<1> QED
  BY <1>1, <1>2, <1>3, PrefixIsUpto

LEMMA PrefixesChain ==
  ASSUME NEW p \in Seq(Nat), NEW q \in Seq(Nat), NEW r \in Seq(Nat), IsPrefix(p, q), IsPrefix(q, r)
  PROVE  IsPrefix(p, r)
<1>1. /\ Len(p) \in 0 .. Len(q) /\ Upto(q, Len(p)) = p
      /\ Len(q) \in 0 .. Len(r) /\ Upto(r, Len(q)) = q
  BY PrefixIsUpto
<1>2. Upto(r, Len(p)) = Upto(q, Len(p))
  BY <1>1, PrefixUptos
<1> QED
  BY <1>1, <1>2, PrefixIsUpto

\* The children of a node are what is one longer.
LEMMA ChildIs ==
  ASSUME DOMAIN node \subseteq Seq(Nat), NEW p \in Seq(Nat)
  PROVE  \A q : q \in Children(p) <=>
                  q \in DOMAIN node /\ Len(q) = Len(p) + 1 /\ Upto(q, Len(p)) = p
<1>1. ASSUME NEW q \in DOMAIN node, Len(q) = Len(p) + 1
      PROVE  IsPrefix(p, q) <=> Upto(q, Len(p)) = p
  <2>1. q \in Seq(Nat) /\ Len(p) \in Nat /\ Len(p) \in 0 .. Len(q)
    BY <1>1, UptoAll
  <2> QED
    BY <2>1, PrefixIsUpto
<1> QED
  BY <1>1 DEF Children

---------------------------------------------------------------------------
\* The keys above a deleted one, and where the climb stops.
StopsAt(k) ==
  {i \in 0 .. Len(k) : IF i = Len(k) THEN Children(k) # {} ELSE HoldsUp(k, i)}

LEMMA ClimbStops ==
  ASSUME NEW k \in Seq(Nat), Len(k) > 0
  PROVE  \E s \in StopsAt(k) :
           /\ \A i \in StopsAt(k) : i <= s
           /\ Pruned(k) = {Upto(k, i) : i \in s + 1 .. Len(k)}
<1>1. 0 \in StopsAt(k)
  BY DEF StopsAt, HoldsUp
<1> DEFINE D == {Len(k) - i : i \in StopsAt(k)}
<1>2. D \subseteq Nat /\ D # {}
  BY <1>1 DEF StopsAt
<1>3. PICK d \in D : \A e \in D : d <= e
  BY <1>2, LeastNatural
<1>4. PICK s \in StopsAt(k) : d = Len(k) - s
  BY <1>3
<1>5. \A i \in StopsAt(k) : s >= i
  <2> SUFFICES ASSUME NEW i \in StopsAt(k) PROVE s >= i
    OBVIOUS
  <2>1. Len(k) - s <= Len(k) - i
    BY <1>3, <1>4
  <2>2. s \in Nat /\ i \in Nat /\ Len(k) \in Nat
    BY DEF StopsAt
  <2> QED
    BY <2>1, <2>2
<1>6. StopsAt(k) \subseteq Nat
  BY DEF StopsAt
<1>7. Max(StopsAt(k)) \in StopsAt(k) /\ \A i \in StopsAt(k) : Max(StopsAt(k)) >= i
  BY <1>5 DEF Max
<1>8. Max(StopsAt(k)) = s
  BY <1>5, <1>6, <1>7
<1>9. Pruned(k) = {Upto(k, i) : i \in Max(StopsAt(k)) + 1 .. Len(k)}
  BY DEF Pruned, StopsAt
<1> QED
  BY <1>5, <1>6, <1>8, <1>9

\* What is pruned on the way to a key has no value, and all nodes below are pruned as well.
LEMMA PrunedAreEmpty ==
  ASSUME NEW k \in Seq(Nat), Len(k) > 0, NEW p \in Pruned(k), p # k
  PROVE  node[p] = NoValue
<1>1. PICK s \in StopsAt(k) : /\ \A i \in StopsAt(k) : i <= s
                              /\ Pruned(k) = {Upto(k, i) : i \in s + 1 .. Len(k)}
  BY ClimbStops
<1>2. PICK i \in s + 1 .. Len(k) : p = Upto(k, i)
  BY <1>1
<1>3. s \in Nat /\ Len(k) \in Nat
  BY DEF StopsAt
<1>4. i # Len(k)
  BY <1>2, UptoAll
<1>5. i \in 0 .. Len(k) /\ i < Len(k) /\ ~ (i <= s)
  BY <1>2, <1>3, <1>4
<1>6. ~HoldsUp(k, i)
  BY <1>1, <1>5 DEF StopsAt
<1> QED
  BY <1>2, <1>5, <1>6 DEF HoldsUp

---------------------------------------------------------------------------
(* The symbol table is a map.                                                 *)

LEMMA InitIsMap == Init => Map!Init
<1> SUFFICES ASSUME Init PROVE \A k \in Key : Get(k) = NoValue
  BY DEF Map!Init
<1> QED
  BY DEF Init, Get

LEMMA CleanIsClear == Clean => Map!Clear
<1> SUFFICES ASSUME Clean PROVE \A k \in Key : Get(k)' = NoValue
  BY DEF Map!Clear
<1> QED
  BY DEF Clean, Get

LEMMA InsertIsPut ==
  ASSUME NEW k \in Key, NEW v \in Value, Insert(k, v)
  PROVE  Map!Put(k, v)
<1> USE KeyAssumption
<1>1. k \in Seq(Nat) /\ Upto(k, Len(k)) = k /\ Len(k) \in 1 .. Len(k)
  BY UptoAll
<1>2. k \in Path(k)
  BY <1>1 DEF Path
<1>3. /\ DOMAIN node' = DOMAIN node \cup Path(k)
      /\ \A p \in DOMAIN node' : node'[p] = IF p = k THEN v
                                            ELSE IF p \in DOMAIN node THEN node[p] ELSE NoValue
  BY DEF Insert
<1>4. Get(k)' = v
  BY <1>2, <1>3 DEF Get
<1>5. ASSUME NEW j \in Key, j # k  PROVE Get(j)' = Get(j)
  BY <1>3, <1>5 DEF Get
<1> QED
  BY <1>4, <1>5 DEF Map!Put

\* A deletion leaves the other keys alone: none of them is on a branch that is pruned.
LEMMA DeleteIsRemove ==
  ASSUME NEW k \in Key, Delete(k)
  PROVE  Map!Remove(k)
<1> USE KeyAssumption
<1>1. k \in Seq(Nat) /\ Len(k) > 0
  OBVIOUS
<1>2. /\ Get(k) # NoValue
      /\ DOMAIN node' = DOMAIN node \ Pruned(k)
      /\ \A p \in DOMAIN node' : node'[p] = IF p = k THEN NoValue ELSE node[p]
  BY DEF Delete
<1>3. Get(k)' = NoValue
  BY <1>2 DEF Get
<1>4. ASSUME NEW j \in Key, j # k  PROVE Get(j)' = Get(j)
  <2>1. CASE j \in Pruned(k)
    <3>1. node[j] = NoValue
      BY <1>1, <1>4, <2>1, PrunedAreEmpty
    <3> QED
      BY <1>2, <2>1, <3>1 DEF Get
  <2>2. CASE j \notin Pruned(k)
    BY <1>2, <1>4, <2>2 DEF Get
  <2> QED
    BY <2>1, <2>2
<1> QED
  BY <1>2, <1>3, <1>4 DEF Map!Remove

LEMMA StepsOfMap == [Next]_node => [Map!Next]_[k \in Key |-> Get(k)]
<1>1. ASSUME Clean  PROVE Map!Next
  BY <1>1, CleanIsClear DEF Map!Next
<1>2. ASSUME NEW k \in Key, Delete(k)  PROVE Map!Next
  BY <1>2, DeleteIsRemove DEF Map!Next
<1>3. ASSUME NEW k \in Key, NEW v \in Value, Insert(k, v)  PROVE Map!Next
  BY <1>3, InsertIsPut DEF Map!Next
<1>4. ASSUME UNCHANGED node  PROVE UNCHANGED [k \in Key |-> Get(k)]
  BY <1>4 DEF Get
<1> QED
  BY <1>1, <1>2, <1>3, <1>4 DEF Next

\* The trie, with its nodes, its climb after a deletion and the keys that are prefixes of
\* others, is the map that its users take it for, for all keys and values (trie.c:135-246,
\* 387-435).
THEOREM TrieIsMap == Spec => ImplementsMap
<1>1. Init => Map!Init
  BY InitIsMap
<1>2. [Next]_node => [Map!Next]_[k \in Key |-> Get(k)]
  BY StepsOfMap
<1> QED
  BY <1>1, <1>2, PTL DEF Spec, ImplementsMap, Map!Spec

\* So it is when completions look at it.
THEOREM CompletedTrieIsMap == ACSpec => ImplementsMap
<1>1. ACInit => Map!Init
  BY InitIsMap DEF ACInit
<1>2. [ACNext]_acvars => [Next]_node
  BY DEF ACNext, acvars, SetOrUnset, Count, List, Answer, Complete
<1>3. [Next]_node => [Map!Next]_[k \in Key |-> Get(k)]
  BY StepsOfMap
<1> QED
  BY <1>1, <1>2, <1>3, PTL DEF ACSpec, ImplementsMap, Map!Spec

---------------------------------------------------------------------------
(* The invariant of the trie.                                                 *)

\* A path's first n + 1 nibbles follow its first n.
LEMMA NextUpto ==
  ASSUME NEW p \in Seq(Nat), NEW n \in Nat, n < Len(p)
  PROVE  /\ n \in 0 .. Len(p) /\ n + 1 \in 0 .. Len(p)
         /\ Len(Upto(p, n)) = n /\ Len(Upto(p, n + 1)) = n + 1
         /\ IsPrefix(Upto(p, n), Upto(p, n + 1))
<1>1. n \in 0 .. Len(p) /\ n + 1 \in n .. Len(p) /\ n + 1 \in 0 .. Len(p)
  BY UptoAll
<1> QED
  BY <1>1, Uptos, UptoIsPrefix

\* A child's path without its last nibble is its parent.
LEMMA ParentIs ==
  ASSUME NEW p \in Seq(Nat), NEW q \in Seq(Nat), IsPrefix(p, q), Len(q) = Len(p) + 1
  PROVE  Len(q) \in Nat /\ Len(p) = Len(q) - 1 /\ p = Upto(q, Len(q) - 1)
<1>1. Upto(q, Len(p)) = p
  BY PrefixIsUpto
<1>2. Len(p) \in Nat /\ Len(q) \in Nat
  BY UptoAll
<1>3. Len(p) = Len(q) - 1
  BY <1>2
<1> QED
  BY <1>1, <1>2, <1>3

LEMMA PathIs ==
  ASSUME NEW k \in Seq(Nat)
  PROVE  /\ Path(k) \subseteq Seq(Nat) /\ IsFiniteSet(Path(k))
         /\ \A p \in Path(k) : \A i \in 0 .. Len(p) :
              Upto(p, i) = << >> \/ Upto(p, i) \in Path(k)
         /\ \A p \in Path(k) :
              p = k \/ \E q \in Path(k) : Len(q) = Len(p) + 1 /\ IsPrefix(p, q)
<1>1. Len(k) \in Nat /\ Upto(k, Len(k)) = k /\ Upto(k, 0) = << >>
  BY UptoAll
<1>2. \A i \in 1 .. Len(k) : i \in 0 .. Len(k)
  OBVIOUS
<1>3. Path(k) \subseteq Seq(Nat)
  BY <1>2, Uptos DEF Path
<1>4. IsFiniteSet(Path(k))
  <2> DEFINE f == [i \in 1 .. Len(k) |-> Upto(k, i)]
  <2>1. f \in Surjection(1 .. Len(k), Path(k))
    BY DEF Surjection, Path
  <2>2. IsFiniteSet(1 .. Len(k))
    BY <1>1, FS_Interval
  <2> QED
    BY <2>1, <2>2, FS_Surjection
<1>5. ASSUME NEW n \in 1 .. Len(k), NEW i \in 0 .. n
      PROVE  Upto(Upto(k, n), i) = << >> \/ Upto(Upto(k, n), i) \in Path(k)
  <2>1. Upto(Upto(k, n), i) = Upto(k, i)
    BY <1>2, UptoUpto
  <2>2. i = 0 \/ i \in 1 .. Len(k)
    BY <1>1
  <2> QED
    BY <1>1, <2>1, <2>2 DEF Path
<1>6. ASSUME NEW n \in 1 .. Len(k), Upto(k, n) # k
      PROVE  \E q \in Path(k) : Len(q) = Len(Upto(k, n)) + 1 /\ IsPrefix(Upto(k, n), q)
  <2>1. n \in Nat /\ n < Len(k) /\ n + 1 \in 1 .. Len(k)
    BY <1>1, <1>6
  <2>2. /\ Len(Upto(k, n)) = n /\ Len(Upto(k, n + 1)) = n + 1
        /\ IsPrefix(Upto(k, n), Upto(k, n + 1))
    BY <2>1, NextUpto
  <2> QED
    BY <2>1, <2>2 DEF Path
<1>7. \A n \in 1 .. Len(k) : Len(Upto(k, n)) = n
  BY <1>2, Uptos
<1> QED
  BY <1>3, <1>4, <1>5, <1>6, <1>7 DEF Path

LEMMA InsertKeepsTrie ==
  ASSUME TrieInv, NEW k \in Key, NEW v \in Value, Insert(k, v)
  PROVE  TrieInv'
<1> USE KeyAssumption
<1>1. k \in Seq(Nat) /\ Len(k) \in Nat /\ Len(k) > 0 /\ Len(k) % 2 = 0 /\ v # NoValue
  OBVIOUS
<1>2. /\ DOMAIN node' = DOMAIN node \cup Path(k)
      /\ \A p \in DOMAIN node' : node'[p] = IF p = k THEN v
                                            ELSE IF p \in DOMAIN node THEN node[p] ELSE NoValue
  BY DEF Insert
<1>3. DOMAIN node' \subseteq Seq(Nat)
  BY <1>1, <1>2, PathIs DEF TrieInv
<1>4. IsFiniteSet(DOMAIN node')
  <2>1. IsFiniteSet(DOMAIN node) /\ IsFiniteSet(Path(k))
    BY <1>1, PathIs DEF TrieInv
  <2> QED
    BY <1>2, <2>1, FS_Union
<1>5. << >> \in DOMAIN node' /\ node'[<< >>] = NoValue
  <2>1. << >> \in DOMAIN node /\ node[<< >>] = NoValue /\ << >> # k
    BY <1>1 DEF TrieInv, TypeOK
  <2> QED
    BY <1>2, <2>1
<1>6. TypeOK'
  <2>1. ASSUME NEW p \in DOMAIN node'  PROVE node'[p] \in Value \cup {NoValue}
    BY <1>2 DEF TrieInv, TypeOK
  <2>2. ASSUME NEW p \in DOMAIN node', NEW i \in 0 .. Len(p)  PROVE Upto(p, i) \in DOMAIN node'
    <3>1. CASE p \in DOMAIN node
      BY <1>2, <3>1 DEF TrieInv, TypeOK
    <3>2. CASE p \in Path(k)
      BY <1>1, <1>2, <1>5, <3>2, PathIs
    <3> QED
      BY <1>2, <3>1, <3>2
  <2> QED
    BY <1>5, <2>1, <2>2 DEF TypeOK
<1>7. NoDeadBranch'
  <2>1. ASSUME NEW p \in DOMAIN node', node'[p] # NoValue  PROVE Even(p)
    BY <1>1, <1>2, <2>1 DEF TrieInv, NoDeadBranch, Even
  <2>2. ASSUME NEW p \in DOMAIN node', p # << >>, node'[p] = NoValue
        PROVE  \E q \in DOMAIN node' : Len(q) = Len(p) + 1 /\ IsPrefix(p, q)
    <3>1. p # k
      BY <1>1, <1>2, <2>2
    <3>2. CASE p \in Path(k)
      BY <1>1, <1>2, <3>1, <3>2, PathIs
    <3>3. CASE p \in DOMAIN node
      <4>1. Children(p) # {}
        BY <1>2, <2>2, <3>1, <3>3 DEF TrieInv, NoDeadBranch
      <4> QED
        BY <1>2, <4>1 DEF Children
    <3> QED
      BY <1>2, <3>2, <3>3
  <2>3. \A p \in DOMAIN node' : p # << >> /\ Children(p)' = {} => node'[p] # NoValue
    BY <2>2 DEF Children
  <2> QED
    BY <2>1, <2>3 DEF NoDeadBranch
<1> QED
  BY <1>3, <1>4, <1>5, <1>6, <1>7 DEF TrieInv

\* Below a pruned node all is pruned.
LEMMA PrunedBelow ==
  ASSUME TrieInv, NEW k \in Seq(Nat), NEW s \in StopsAt(k), \A i \in StopsAt(k) : i <= s,
         NEW p \in DOMAIN node, NEW j \in s + 1 .. Len(k), j <= Len(p),
         Upto(p, j) = Upto(k, j)
  PROVE  Len(p) \in s + 1 .. Len(k) /\ p = Upto(k, Len(p))
<1>1. /\ p \in Seq(Nat) /\ Len(p) \in Nat /\ Upto(p, Len(p)) = p
      /\ Len(k) \in Nat /\ Upto(k, Len(k)) = k /\ s \in Nat /\ j \in Nat /\ s < j
  BY UptoAll DEF TrieInv, StopsAt
<1> DEFINE N == {n \in Nat : j <= n /\ n <= Len(p) => n <= Len(k) /\ Upto(p, n) = Upto(k, n)}
<1>2. 0 \in N
  BY <1>1
<1>3. ASSUME NEW n \in Nat, n \in N  PROVE n + 1 \in N
  <2> SUFFICES ASSUME j <= n + 1, n + 1 <= Len(p)
               PROVE  n + 1 <= Len(k) /\ Upto(p, n + 1) = Upto(k, n + 1)
    OBVIOUS
  <2>1. CASE n + 1 = j
    BY <2>1
  <2>2. CASE n + 1 # j
    <3>1. j <= n /\ n < Len(p) /\ ~ (n <= s)
      BY <1>1, <2>2
    <3>2. n <= Len(k) /\ Upto(p, n) = Upto(k, n)
      BY <1>1, <1>3, <3>1
    <3>3. Upto(p, n + 1) \in Children(Upto(k, n))
      <4>1. /\ Len(Upto(p, n)) = n /\ Len(Upto(p, n + 1)) = n + 1
            /\ IsPrefix(Upto(p, n), Upto(p, n + 1)) /\ n + 1 \in 0 .. Len(p)
        BY <1>1, <3>1, NextUpto
      <4>2. Upto(p, n + 1) \in DOMAIN node
        BY <4>1 DEF TrieInv, TypeOK
      <4> QED
        BY <3>2, <4>1, <4>2 DEF Children
    <3>4. n \in 0 .. Len(k) /\ n \notin StopsAt(k)
      BY <1>1, <3>1, <3>2
    <3>5. n # Len(k)
      BY <1>1, <3>3, <3>4 DEF StopsAt
    <3>6. ~HoldsUp(k, n)
      BY <3>4, <3>5 DEF StopsAt
    <3>7. Upto(p, n + 1) = Upto(k, n + 1)
      BY <3>3, <3>6 DEF HoldsUp
    <3> QED
      BY <1>1, <3>2, <3>5, <3>7
  <2> QED
    BY <2>1, <2>2
<1>4. \A n \in Nat : n \in N
  <2> HIDE DEF N
  <2> QED
    BY <1>2, <1>3, AllNaturals
<1>5. Len(p) \in N
  <2> HIDE DEF N
  <2> QED
    BY <1>1, <1>4
<1>6. j <= Len(p) /\ Len(p) <= Len(p)
  BY <1>1
<1>7. Len(p) <= Len(k) /\ Upto(p, Len(p)) = Upto(k, Len(p))
  BY <1>5, <1>6
<1>8. \A l \in Nat : j <= l /\ l <= Len(k) => l \in s + 1 .. Len(k)
  BY <1>1
<1> QED
  BY <1>1, <1>6, <1>7, <1>8

LEMMA DeleteKeepsTrie ==
  ASSUME TrieInv, NEW k \in Key, Delete(k)
  PROVE  TrieInv'
<1> USE KeyAssumption
<1>1. k \in Seq(Nat) /\ Len(k) \in Nat /\ Len(k) > 0 /\ Upto(k, Len(k)) = k
  BY UptoAll
<1>2. /\ DOMAIN node' = DOMAIN node \ Pruned(k)
      /\ \A p \in DOMAIN node' : node'[p] = IF p = k THEN NoValue ELSE node[p]
  BY DEF Delete
<1>3. PICK s \in StopsAt(k) : /\ \A i \in StopsAt(k) : i <= s
                              /\ Pruned(k) = {Upto(k, i) : i \in s + 1 .. Len(k)}
  BY <1>1, ClimbStops
<1>4. s \in Nat /\ s <= Len(k)
  BY <1>1 DEF StopsAt
<1>5. DOMAIN node \subseteq Seq(Nat) /\ DOMAIN node' \subseteq Seq(Nat)
  BY <1>2 DEF TrieInv
<1>6. IsFiniteSet(DOMAIN node')
  <2>1. IsFiniteSet(DOMAIN node) /\ DOMAIN node' \in SUBSET (DOMAIN node)
    BY <1>2 DEF TrieInv
  <2> QED
    BY <2>1, FS_Subset
<1>7. \A i \in s + 1 .. Len(k) : i \in 0 .. Len(k) /\ Len(Upto(k, i)) = i
  BY <1>1, <1>4, Uptos
<1>8. << >> \in DOMAIN node' /\ node'[<< >>] = NoValue
  <2>1. \A i \in s + 1 .. Len(k) : Upto(k, i) # << >>
    BY <1>4, <1>7
  <2>2. << >> \in DOMAIN node /\ node[<< >>] = NoValue
    BY DEF TrieInv, TypeOK
  <2> QED
    BY <1>2, <1>3, <2>1, <2>2
<1>9. TypeOK'
  <2>1. ASSUME NEW p \in DOMAIN node'  PROVE node'[p] \in Value \cup {NoValue}
    BY <1>2 DEF TrieInv, TypeOK
  <2>2. ASSUME NEW p \in DOMAIN node', NEW i \in 0 .. Len(p), Upto(p, i) \in Pruned(k)
        PROVE  FALSE
    <3>1. p \in Seq(Nat) /\ p \in DOMAIN node /\ Len(Upto(p, i)) = i
      BY <1>2, <1>5, Uptos
    <3>2. PICK j \in s + 1 .. Len(k) : Upto(p, i) = Upto(k, j)
      BY <1>3, <2>2
    <3>3. j = i /\ j <= Len(p)
      BY <1>7, <3>1, <3>2
    <3>4. Len(p) \in s + 1 .. Len(k) /\ p = Upto(k, Len(p))
      BY <1>1, <1>3, <3>1, <3>2, <3>3, PrunedBelow
    <3> QED
      BY <1>2, <1>3, <3>4
  <2>3. \A p \in DOMAIN node' : \A i \in 0 .. Len(p) : Upto(p, i) \in DOMAIN node'
    BY <1>2, <2>2 DEF TrieInv, TypeOK
  <2> QED
    BY <1>8, <2>1, <2>3 DEF TypeOK
<1>10. NoDeadBranch'
  <2>1. ASSUME NEW p \in DOMAIN node', node'[p] # NoValue  PROVE Even(p)
    BY <1>2, <2>1 DEF TrieInv, NoDeadBranch
  <2>2. ASSUME NEW p \in DOMAIN node', p # << >>, Children(p)' = {}, node'[p] = NoValue
        PROVE  FALSE
    <3>1. p \in DOMAIN node /\ p \notin Pruned(k) /\ p \in Seq(Nat)
      BY <1>2, <1>5
    <3>2. \A q \in Children(p) : q \in Pruned(k)
      BY <1>2, <2>2 DEF Children
    <3>3. Children(p) # {}
      <4>1. CASE p = k
        <5>1. s = Len(k)
          <6>1. ~ (s + 1 <= Len(k))
            <7> SUFFICES ASSUME s + 1 <= Len(k) PROVE FALSE
              OBVIOUS
            <7>1. Len(k) \in s + 1 .. Len(k)
              BY <1>1, <1>4
            <7> QED
              BY <1>1, <1>3, <3>1, <4>1, <7>1
          <6> QED
            BY <1>1, <1>4, <6>1
        <5> QED
          BY <4>1, <5>1 DEF StopsAt
      <4>2. CASE p # k
        <5>1. node[p] = NoValue
          BY <1>2, <2>2, <4>2
        <5> QED
          BY <2>2, <3>1, <5>1 DEF TrieInv, NoDeadBranch
      <4> QED
        BY <4>1, <4>2
    <3>4. ASSUME NEW q \in Children(p)
          PROVE  q = Upto(k, s + 1) /\ p = Upto(k, s) /\ s < Len(k)
      <4>1. q \in Seq(Nat) /\ Len(q) = Len(p) + 1 /\ IsPrefix(p, q)
        BY <1>5 DEF Children
      <4>2. PICK i \in s + 1 .. Len(k) : q = Upto(k, i)
        BY <1>3, <3>2
      <4>3. Len(q) = i /\ Len(p) = i - 1 /\ p = Upto(q, i - 1)
        <5>1. Len(p) = Len(q) - 1 /\ p = Upto(q, Len(q) - 1)
          BY <3>1, <4>1, ParentIs
        <5>2. Len(q) = i
          BY <1>7, <4>2
        <5> QED
          BY <5>1, <5>2
      <4>4. i \in 0 .. Len(k) /\ i - 1 \in 0 .. i
        BY <1>4, <4>2
      <4>5. p = Upto(k, i - 1)
        BY <1>1, <4>2, <4>3, <4>4, UptoUpto
      <4>6. ~ (i - 1 \in s + 1 .. Len(k))
        BY <1>3, <3>1, <4>5
      <4>7. i = s + 1
        BY <1>1, <1>4, <4>2, <4>6
      <4> QED
        BY <1>1, <1>4, <4>2, <4>5, <4>7
    <3>5. PICK q \in Children(p) : TRUE
      BY <3>3
    <3>6. q = Upto(k, s + 1) /\ p = Upto(k, s) /\ s < Len(k)
      BY <3>4
    <3>7. HoldsUp(k, s)
      BY <1>1, <1>4, <3>6 DEF StopsAt
    <3>8. s # 0
      BY <1>1, <2>2, <3>6, UptoAll
    <3>9. node[Upto(k, s)] = NoValue
      <4>1. p # k
        <5>1. Len(p) = s
          BY <1>1, <1>4, <3>6, Uptos
        <5> QED
          BY <3>6, <5>1
      <4> QED
        BY <1>2, <2>2, <3>6, <4>1
    <3>10. Children(Upto(k, s)) \ {Upto(k, s + 1)} # {}
      BY <3>7, <3>8, <3>9 DEF HoldsUp
    <3> QED
      BY <3>4, <3>6, <3>10
  <2> QED
    BY <2>1, <2>2 DEF NoDeadBranch
<1> QED
  BY <1>5, <1>6, <1>8, <1>9, <1>10 DEF TrieInv

LEMMA RootIsTrie ==
  ASSUME NEW f, f = [p \in {<< >>} |-> NoValue]
  PROVE  /\ DOMAIN f = {<< >>} /\ f[<< >>] = NoValue
         /\ DOMAIN f \subseteq Seq(Nat) /\ IsFiniteSet(DOMAIN f)
         /\ \A p \in DOMAIN f : \A i \in 0 .. Len(p) : Upto(p, i) = << >>
<1>1. << >> \in Seq(Nat) /\ Len(<< >>) = 0
  OBVIOUS
<1>2. \A i \in 0 .. Len(<< >>) : Upto(<< >>, i) = << >>
  <2>1. \A i \in 0 .. Len(<< >>) : i = 0
    BY <1>1
  <2> QED
    BY <1>1, <2>1, UptoAll
<1>3. IsFiniteSet({<< >>})
  BY FS_Singleton, Zenon
<1>4. DOMAIN f = {<< >>} /\ f[<< >>] = NoValue
  OBVIOUS
<1>5. \A p \in DOMAIN f : p = << >>
  BY <1>4
<1>6. DOMAIN f \subseteq Seq(Nat)
  BY <1>1, <1>5
<1> QED
  BY <1>2, <1>3, <1>4, <1>5, <1>6, Zenon

LEMMA TrieInvInit == Init => TrieInv
<1> SUFFICES ASSUME Init PROVE TrieInv
  OBVIOUS
<1>1. /\ DOMAIN node = {<< >>} /\ node[<< >>] = NoValue
      /\ DOMAIN node \subseteq Seq(Nat) /\ IsFiniteSet(DOMAIN node)
      /\ \A p \in DOMAIN node : \A i \in 0 .. Len(p) : Upto(p, i) = << >>
  BY RootIsTrie DEF Init
<1>2. TypeOK /\ NoDeadBranch
  BY <1>1 DEF TypeOK, NoDeadBranch
<1> QED
  BY <1>1, <1>2 DEF TrieInv

LEMMA TrieInvNext == TrieInv /\ [Next]_node => TrieInv'
<1> SUFFICES ASSUME TrieInv, [Next]_node PROVE TrieInv'
  OBVIOUS
<1>1. ASSUME Clean  PROVE TrieInv'
  <2>1. /\ DOMAIN node' = {<< >>} /\ node'[<< >>] = NoValue
        /\ DOMAIN node' \subseteq Seq(Nat) /\ IsFiniteSet(DOMAIN node')
        /\ \A p \in DOMAIN node' : \A i \in 0 .. Len(p) : Upto(p, i) = << >>
    BY <1>1, RootIsTrie DEF Clean
  <2>2. TypeOK' /\ NoDeadBranch'
    BY <2>1 DEF TypeOK, NoDeadBranch
  <2> QED
    BY <2>1, <2>2 DEF TrieInv
<1>2. ASSUME NEW k \in Key, Delete(k)  PROVE TrieInv'
  BY <1>2, DeleteKeepsTrie
<1>3. ASSUME NEW k \in Key, NEW v \in Value, Insert(k, v)  PROVE TrieInv'
  BY <1>3, InsertKeepsTrie
<1>4. ASSUME UNCHANGED node  PROVE TrieInv'
  BY <1>4 DEF TrieInv, TypeOK, NoDeadBranch, Children
<1> QED
  BY <1>1, <1>2, <1>3, <1>4 DEF Next

---------------------------------------------------------------------------
(* The completion of a prefix.                                                *)

\* What follows a prefix.
LEMMA SuffixIs ==
  ASSUME NEW p \in Seq(Nat), NEW q \in Seq(Nat), IsPrefix(p, q)
  PROVE  /\ Suffix(p, q) \in Seq(Nat) /\ Len(Suffix(p, q)) = Len(q) - Len(p)
         /\ p \o Suffix(p, q) = q
<1>1. /\ Len(p) \in Nat /\ Len(q) \in Nat /\ Len(p) \in 0 .. Len(q) /\ Upto(q, Len(p)) = p
      /\ Len(p) + 1 \in Nat \ {0} /\ Len(p) + 1 <= Len(q) + 1
  BY UptoAll, PrefixIsUpto
<1>2. PICK s : s = Suffix(p, q)
  OBVIOUS
<1>3. /\ s \in Seq(Nat) /\ Len(s) = Len(q) - (Len(p) + 1) + 1
      /\ \A i \in 1 .. Len(q) - (Len(p) + 1) + 1 : s[i] = q[Len(p) + 1 + i - 1]
  <2>1. PICK m \in Nat \ {0} : m = Len(p) + 1
    BY <1>1
  <2>2. PICK n \in Nat : n = Len(q)
    BY <1>1
  <2>3. n <= Len(q) /\ m <= n + 1
    BY <1>1, <2>1, <2>2
  <2>4. /\ SubSeq(q, m, n) \in Seq(Nat) /\ Len(SubSeq(q, m, n)) = n - m + 1
        /\ \A i \in 1 .. n - m + 1 : SubSeq(q, m, n)[i] = q[m + i - 1]
    BY <2>3, PartOf
  <2>5. s = SubSeq(q, m, n)
    BY <1>2, <2>1, <2>2 DEF Suffix
  <2> QED
    BY <2>1, <2>2, <2>4, <2>5, Zenon
<1>4. Len(s) = Len(q) - Len(p) /\ \A i \in 1 .. Len(q) - Len(p) : s[i] = q[Len(p) + i]
  <2>1. \A m \in Nat : m + 1 \in Nat /\ Len(q) - (m + 1) + 1 = Len(q) - m
    BY <1>1
  <2>2. Len(q) - (Len(p) + 1) + 1 = Len(q) - Len(p)
    BY <1>1, <2>1
  <2>3. \A m \in Nat : \A i \in 1 .. Len(q) - m : m + 1 + i - 1 = m + i
    BY <1>1
  <2>4. \A i \in 1 .. Len(q) - Len(p) : Len(p) + 1 + i - 1 = Len(p) + i
    BY <1>1, <2>3
  <2> QED
    BY <1>3, <2>2, <2>4
<1>5. \A i \in 1 .. Len(p) : q[i] = p[i]
  BY <1>1, Uptos
<1>6. PICK t : t = p \o s
  OBVIOUS
<1>7. /\ t \in Seq(Nat) /\ Len(t) = Len(p) + Len(s)
      /\ \A i \in 1 .. Len(p) + Len(s) : t[i] = IF i <= Len(p) THEN p[i] ELSE s[i - Len(p)]
  BY <1>3, <1>6, ConcatProperties
<1>8. Len(t) = Len(q)
  BY <1>1, <1>4, <1>7
<1>9. ASSUME NEW i \in 1 .. Len(t)  PROVE t[i] = q[i]
  <2>0. i \in Nat /\ 1 <= i /\ i \in 1 .. Len(p) + Len(s)
    BY <1>1, <1>7
  <2>1. CASE i <= Len(p)
    <3>1. i \in 1 .. Len(p)
      BY <1>1, <2>0, <2>1
    <3> QED
      BY <1>5, <1>7, <2>0, <2>1, <3>1
  <2>2. CASE ~ (i <= Len(p))
    <3>1. i - Len(p) \in 1 .. Len(q) - Len(p) /\ Len(p) + (i - Len(p)) = i
      BY <1>1, <1>8, <2>2
    <3>2. t[i] = s[i - Len(p)]
      BY <1>7, <2>2
    <3> QED
      BY <1>4, <3>1, <3>2
  <2> QED
    BY <2>1, <2>2
<1>10. t = q
  BY <1>7, <1>8, <1>9, SameItems
<1> QED
  BY <1>2, <1>3, <1>4, <1>6, <1>10

\* The nodes are shorter than their number: a path has a node of each length.
LEMMA NodesAreShort ==
  ASSUME TrieInv, NEW p \in DOMAIN node
  PROVE  Cardinality(DOMAIN node) \in Nat /\ Len(p) < Cardinality(DOMAIN node)
<1>1. p \in Seq(Nat) /\ Len(p) \in Nat
  BY UptoAll DEF TrieInv
<1> DEFINE f == [i \in 0 .. Len(p) |-> Upto(p, i)]
<1>2. f \in Injection(0 .. Len(p), DOMAIN node)
  <2>1. f \in [0 .. Len(p) -> DOMAIN node]
    BY DEF TrieInv, TypeOK
  <2>2. \A i \in 0 .. Len(p) : Len(f[i]) = i
    BY <1>1, Uptos
  <2> QED
    BY <2>1, <2>2 DEF Injection, IsInjective
<1>3. IsFiniteSet(DOMAIN node)
  BY DEF TrieInv
<1>4. Cardinality(0 .. Len(p)) <= Cardinality(DOMAIN node)
  <2> HIDE DEF f
  <2> QED
    BY <1>2, <1>3, FS_Injection
<1>5. 0 \in Int /\ Len(p) \in Int /\ ~ (0 > Len(p)) /\ Len(p) - 0 + 1 = Len(p) + 1
  BY <1>1
<1>6. Cardinality(0 .. Len(p)) = Len(p) + 1
  BY <1>5, FS_Interval
<1>7. Cardinality(DOMAIN node) \in Nat
  BY <1>3, FS_CardinalityType
<1> QED
  BY <1>1, <1>4, <1>6, <1>7

\* So some nodes have a longest one.
LEMMA LongestNode ==
  ASSUME TrieInv, NEW S, S \subseteq DOMAIN node, S # {}
  PROVE  \E p \in S : \A q \in S : Len(q) <= Len(p)
<1>1. PICK n \in Nat : \A p \in S : Len(p) \in Nat /\ Len(p) < n
  <2>1. \A p \in S : /\ Cardinality(DOMAIN node) \in Nat
                     /\ Len(p) < Cardinality(DOMAIN node) /\ Len(p) \in Nat
    BY NodesAreShort, UptoAll DEF TrieInv
  <2> QED
    BY <2>1
<1> DEFINE D == {n - Len(p) : p \in S}
<1>2. \A p \in S : n - Len(p) \in Nat
  BY <1>1
<1>3. D \subseteq Nat /\ D # {}
  BY <1>2
<1>4. PICK d \in D : \A e \in D : d <= e
  BY <1>3, LeastNatural
<1>5. PICK p \in S : d = n - Len(p)
  BY <1>4
<1>6. ASSUME NEW q \in S  PROVE Len(q) <= Len(p)
  <2>1. n - Len(p) <= n - Len(q)
    BY <1>4, <1>5
  <2> QED
    BY <1>1, <2>1
<1> QED
  BY <1>6

\* The way down from a node to a longer one below it goes through a child.
LEMMA WayDown ==
  ASSUME TrieInv, NEW p \in DOMAIN node, NEW q \in DOMAIN node, IsPrefix(p, q), p # q
  PROVE  /\ Len(p) \in Nat /\ Len(q) \in Nat /\ Len(p) < Len(q)
         /\ Upto(q, Len(p) + 1) \in Children(p)
         /\ Len(Upto(q, Len(p) + 1)) = Len(p) + 1
         /\ IsPrefix(Upto(q, Len(p) + 1), q)
<1>1. p \in Seq(Nat) /\ q \in Seq(Nat)
  BY DEF TrieInv
<1>2. Len(p) \in 0 .. Len(q) /\ Upto(q, Len(p)) = p /\ Len(p) \in Nat /\ Len(q) \in Nat
  BY <1>1, PrefixIsUpto, UptoAll
<1>3. Len(p) # Len(q)
  BY <1>1, <1>2, UptoAll
<1>4. Len(p) < Len(q) /\ Len(p) + 1 \in 0 .. Len(q)
  BY <1>2, <1>3
<1>5. /\ Len(Upto(q, Len(p) + 1)) = Len(p) + 1
      /\ IsPrefix(Upto(q, Len(p)), Upto(q, Len(p) + 1))
  BY <1>1, <1>2, <1>4, NextUpto
<1>6. Upto(q, Len(p) + 1) \in DOMAIN node
  BY <1>4 DEF TrieInv, TypeOK
<1>7. IsPrefix(Upto(q, Len(p) + 1), q)
  BY <1>1, <1>4, UptoIsPrefix
<1> QED
  BY <1>2, <1>4, <1>5, <1>6, <1>7 DEF Children

\* Below every node but the root there is a value.
LEMMA SomethingBelow ==
  ASSUME TrieInv, NEW p \in DOMAIN node, p # << >>
  PROVE  Below(p) # {}
<1>1. p \in Seq(Nat) /\ IsPrefix(p, p)
  <2>1. p \in Seq(Nat)
    BY DEF TrieInv
  <2> QED
    BY <2>1, UptoAll, PrefixIsUpto
<1> DEFINE S == {q \in DOMAIN node : IsPrefix(p, q)}
<1>2. PICK q \in S : \A r \in S : Len(r) <= Len(q)
  <2>1. S \subseteq DOMAIN node /\ S # {}
    BY <1>1
  <2> HIDE DEF S
  <2> QED
    BY <2>1, LongestNode
<1>3. q \in Seq(Nat) /\ Len(q) \in Nat
  BY UptoAll DEF TrieInv
<1>4. Children(q) = {}
  <2> SUFFICES ASSUME NEW r \in Children(q) PROVE FALSE
    OBVIOUS
  <2>1. r \in DOMAIN node /\ r \in Seq(Nat) /\ Len(r) = Len(q) + 1 /\ IsPrefix(q, r)
    BY DEF Children, TrieInv
  <2>2. IsPrefix(p, r)
    BY <1>1, <1>3, <2>1, PrefixesChain
  <2>3. Len(r) <= Len(q)
    BY <1>2, <2>1, <2>2
  <2> QED
    BY <1>3, <2>1, <2>3
<1>5. q # << >>
  <2> SUFFICES ASSUME q = << >> PROVE FALSE
    OBVIOUS
  <2>1. Len(p) \in 0 .. Len(q) /\ Len(q) = 0 /\ Len(p) \in Nat
    BY <1>1, <1>3, UptoAll, PrefixIsUpto
  <2>2. Len(p) = 0
    BY <2>1
  <2> QED
    BY <1>1, <2>2, EmptySeq
<1>6. node[q] # NoValue
  BY <1>4, <1>5 DEF TrieInv, NoDeadBranch
<1> QED
  BY <1>6 DEF Below

\* Between two even numbers there is room for two.
LEMMA EvenGap ==
  ASSUME NEW a \in Nat, NEW b \in Nat, a % 2 = 0, b % 2 = 0, a < b + 2
  PROVE  a <= b
  OBVIOUS

LEMMA OddBetween ==
  ASSUME NEW a \in Nat, NEW b \in Nat, a % 2 = 0, a + 2 <= b
  PROVE  (a + 1) % 2 # 0 /\ a + 1 < b /\ a + 1 # 0 /\ a < a + 1
  OBVIOUS

\* The children of a node are finitely many; one child is the only one, and children that
\* are neither none nor one are two.
LEMMA ChildrenCounted ==
  ASSUME TrieInv, NEW p
  PROVE  /\ Cardinality(Children(p)) = 1 => \E c : Children(p) = {c}
         /\ Cardinality(Children(p)) # 1 /\ Children(p) # {} =>
              \E c, d \in Children(p) : c # d
<1>1. IsFiniteSet(Children(p))
  <2>1. IsFiniteSet(DOMAIN node) /\ Children(p) \in SUBSET (DOMAIN node)
    BY DEF TrieInv, Children
  <2> QED
    BY <2>1, FS_Subset
<1>2. Cardinality(Children(p)) = 1 <=> \E c : Children(p) = {c}
  BY <1>1, FS_Singleton
<1> QED
  BY <1>2

\* From a node where the next character is forced there is one node two nibbles down,
\* which all longer nodes, and so all values, are below.
LEMMA ForcedStep ==
  ASSUME TrieInv, NEW r \in DOMAIN node, Even(r), Forced(r)
  PROVE  \E e \in DOMAIN node :
           /\ Len(e) = Len(r) + 2 /\ IsPrefix(r, e) /\ Even(e)
           /\ \A q \in DOMAIN node : IsPrefix(r, q) /\ r # q /\ Even(q) => IsPrefix(e, q)
           /\ Below(r) \subseteq Below(e)
<1>1. r \in Seq(Nat) /\ Len(r) \in Nat /\ Len(r) % 2 = 0
  BY UptoAll DEF TrieInv, Even
<1>2. PICK f : Children(r) = {f}
  BY ChildrenCounted DEF Forced, Stops
<1>3. f \in Children(r) /\ f \in DOMAIN node /\ Len(f) = Len(r) + 1 /\ IsPrefix(r, f) /\ f \in Seq(Nat)
  BY <1>2 DEF Children, TrieInv
<1>4. PICK e : Children(f) = {e}
  BY <1>3, ChildrenCounted DEF Forced
<1>5. e \in Children(f) /\ e \in DOMAIN node /\ Len(e) = Len(f) + 1 /\ IsPrefix(f, e) /\ e \in Seq(Nat)
  BY <1>4 DEF Children, TrieInv
<1>6. Len(e) = Len(r) + 2 /\ IsPrefix(r, e) /\ (Len(r) + 2) % 2 = 0
  BY <1>1, <1>3, <1>5, PrefixesChain
<1>7. ASSUME NEW q \in DOMAIN node, IsPrefix(r, q), r # q, Even(q)
      PROVE  IsPrefix(e, q)
  <2>1. /\ Len(r) < Len(q) /\ Upto(q, Len(r) + 1) \in Children(r) /\ IsPrefix(Upto(q, Len(r) + 1), q)
        /\ Len(q) \in Nat /\ Len(q) % 2 = 0
    BY <1>7, WayDown DEF Even
  <2>2. Upto(q, Len(r) + 1) = f /\ IsPrefix(f, q)
    BY <1>2, <2>1
  <2>3. (Len(r) + 1) % 2 # 0
    BY <1>1
  <2>4. f # q
    BY <1>3, <2>1, <2>3
  <2>5. Upto(q, Len(f) + 1) \in Children(f) /\ IsPrefix(Upto(q, Len(f) + 1), q)
    BY <1>3, <2>2, <2>4, WayDown
  <2> QED
    BY <1>4, <2>5
<1>8. ASSUME NEW q \in Below(r)  PROVE q \in Below(e)
  <2>1. q \in DOMAIN node /\ IsPrefix(r, q) /\ node[q] # NoValue /\ r # q /\ Even(q)
    BY DEF Below, Forced, Stops, TrieInv, NoDeadBranch
  <2> QED
    BY <1>7, <2>1 DEF Below
<1> QED
  BY <1>5, <1>6, <1>7, <1>8 DEF Even

\* Where the search from p may have come to: all before it was forced.
Reached(p) ==
  {q \in DOMAIN node :
     /\ IsPrefix(p, q) /\ Even(q)
     /\ \A r \in DOMAIN node :
          IsPrefix(p, r) /\ IsPrefix(r, q) /\ Even(r) /\ r # q => Forced(r)}

\* Two prefixes of a path, the shorter one a prefix of the longer one.
LEMMA PrefixesOfOne ==
  ASSUME NEW p \in Seq(Nat), NEW q \in Seq(Nat), NEW r \in Seq(Nat),
         IsPrefix(p, r), IsPrefix(q, r), Len(p) <= Len(q)
  PROVE  IsPrefix(p, q)
<1>1. /\ Len(p) \in 0 .. Len(r) /\ Upto(r, Len(p)) = p
      /\ Len(q) \in 0 .. Len(r) /\ Upto(r, Len(q)) = q
  BY PrefixIsUpto
<1>2. Len(q) \in Len(p) .. Len(r)
  BY <1>1
<1> QED
  BY <1>1, <1>2, UptoIsPrefix

\* The search ends: at its last node nothing is forced.
LEMMA TargetIs ==
  ASSUME TrieInv, NEW p \in DOMAIN node, Even(p)
  PROVE  Target(p) \in Reached(p) /\ ~Forced(Target(p))
<1>1. p \in Seq(Nat) /\ Len(p) \in Nat /\ IsPrefix(p, p)
  <2>1. p \in Seq(Nat)
    BY DEF TrieInv
  <2> QED
    BY <2>1, UptoAll, PrefixIsUpto
<1>2. p \in Reached(p)
  <2>1. ASSUME NEW r \in DOMAIN node, IsPrefix(p, r), IsPrefix(r, p)  PROVE r = p
    <3>1. r \in Seq(Nat)
      BY DEF TrieInv
    <3>2. Len(p) \in 0 .. Len(r) /\ Len(r) \in 0 .. Len(p) /\ Upto(p, Len(r)) = r
      BY <1>1, <2>1, <3>1, PrefixIsUpto
    <3>3. Len(r) \in Nat /\ Upto(p, Len(p)) = p
      BY <1>1, <3>1, UptoAll
    <3>4. Len(r) = Len(p)
      BY <1>1, <3>2, <3>3
    <3> QED
      BY <3>2, <3>3, <3>4
  <2> QED
    BY <1>1, <2>1 DEF Reached
<1>3. PICK q \in Reached(p) : \A r \in Reached(p) : Len(r) <= Len(q)
  <2>1. Reached(p) \subseteq DOMAIN node /\ Reached(p) # {}
    BY <1>2 DEF Reached
  <2> QED
    BY <2>1, LongestNode
<1>4. /\ q \in DOMAIN node /\ q \in Seq(Nat) /\ IsPrefix(p, q) /\ Even(q) /\ Len(q) \in Nat
      /\ Len(q) % 2 = 0
      /\ \A r \in DOMAIN node :
           IsPrefix(p, r) /\ IsPrefix(r, q) /\ Even(r) /\ r # q => Forced(r)
  BY UptoAll DEF Reached, TrieInv, Even
<1>5. ~Forced(q)
  <2> SUFFICES ASSUME Forced(q) PROVE FALSE
    OBVIOUS
  <2>1. PICK e \in DOMAIN node : Len(e) = Len(q) + 2 /\ IsPrefix(q, e) /\ Even(e)
    BY <1>4, ForcedStep
  <2>2. e \in Seq(Nat) /\ IsPrefix(p, e)
    BY <1>1, <1>4, <2>1, PrefixesChain DEF TrieInv
  <2>3. ASSUME NEW r \in DOMAIN node, IsPrefix(p, r), IsPrefix(r, e), Even(r), r # e
        PROVE  Forced(r)
    <3>1. r \in Seq(Nat)
      BY DEF TrieInv
    <3>2. Len(r) \in Nat /\ Len(r) % 2 = 0 /\ Len(r) \in 0 .. Len(e) /\ Upto(e, Len(r)) = r
      BY <2>2, <2>3, <3>1, PrefixIsUpto, UptoAll DEF Even
    <3>3. Len(r) # Len(e)
      BY <2>2, <2>3, <3>2, UptoAll
    <3>4. Len(r) <= Len(q)
      <4>1. Len(r) < Len(q) + 2
        BY <1>4, <2>1, <3>2, <3>3
      <4> QED
        BY <1>4, <3>2, <4>1, EvenGap
    <3>5. IsPrefix(r, q)
      BY <1>4, <2>1, <2>2, <2>3, <3>1, <3>4, PrefixesOfOne
    <3> QED
      BY <1>4, <2>3, <3>5
  <2>4. e \in Reached(p)
    BY <2>1, <2>2, <2>3 DEF Reached
  <2>5. Len(e) <= Len(q)
    BY <1>3, <2>4
  <2> QED
    BY <1>4, <2>1, <2>5
<1>6. \E t \in DOMAIN node :
        /\ IsPrefix(p, t) /\ Even(t) /\ ~Forced(t)
        /\ \A r \in DOMAIN node : IsPrefix(p, r) /\ IsPrefix(r, t) /\ Even(r) /\ r # t => Forced(r)
  BY <1>4, <1>5
<1>7. /\ Target(p) \in DOMAIN node
      /\ IsPrefix(p, Target(p)) /\ Even(Target(p)) /\ ~Forced(Target(p))
      /\ \A r \in DOMAIN node :
           IsPrefix(p, r) /\ IsPrefix(r, Target(p)) /\ Even(r) /\ r # Target(p) => Forced(r)
  BY <1>6, Zenon DEF Target
<1> QED
  BY <1>7 DEF Reached

\* What is below the beginning of a forced way is below its end.
LEMMA CommonWay ==
  ASSUME TrieInv, NEW p \in DOMAIN node, Even(p), NEW q \in Reached(p)
  PROVE  Below(p) = Below(q)
<1>1. /\ q \in DOMAIN node /\ q \in Seq(Nat) /\ IsPrefix(p, q) /\ Even(q)
      /\ p \in Seq(Nat) /\ Len(p) \in Nat /\ Len(q) \in Nat
      /\ \A r \in DOMAIN node :
           IsPrefix(p, r) /\ IsPrefix(r, q) /\ Even(r) /\ r # q => Forced(r)
  BY UptoAll DEF Reached, TrieInv
<1> DEFINE S == {r \in DOMAIN node : /\ IsPrefix(p, r) /\ IsPrefix(r, q) /\ Even(r)
                                     /\ Below(p) \subseteq Below(r)}
<1>2. PICK r \in S : \A t \in S : Len(t) <= Len(r)
  <2>1. IsPrefix(p, p)
    BY <1>1, UptoAll, PrefixIsUpto
  <2>2. S \subseteq DOMAIN node /\ S # {}
    BY <1>1, <2>1
  <2> HIDE DEF S
  <2> QED
    BY <2>2, LongestNode
<1>3. r = q
  <2> SUFFICES ASSUME r # q PROVE FALSE
    OBVIOUS
  <2>1. Forced(r) /\ r \in Seq(Nat) /\ Len(r) \in Nat
    BY <1>1, UptoAll DEF TrieInv
  <2>2. PICK e \in DOMAIN node :
          /\ Len(e) = Len(r) + 2 /\ IsPrefix(r, e) /\ Even(e)
          /\ \A t \in DOMAIN node : IsPrefix(r, t) /\ r # t /\ Even(t) => IsPrefix(e, t)
          /\ Below(r) \subseteq Below(e)
    BY <2>1, ForcedStep
  <2>3. IsPrefix(e, q) /\ IsPrefix(p, e)
    <3>1. e \in Seq(Nat)
      BY DEF TrieInv
    <3>2. IsPrefix(p, e)
      BY <1>1, <2>1, <2>2, <3>1, PrefixesChain
    <3> QED
      BY <1>1, <2>2, <3>2
  <2>4. e \in S
    BY <2>2, <2>3
  <2>5. Len(e) <= Len(r)
    BY <1>2, <2>4
  <2> QED
    BY <2>1, <2>2, <2>5
<1>4. Below(q) \subseteq Below(p)
  <2> SUFFICES ASSUME NEW x \in Below(q) PROVE IsPrefix(p, x)
    BY DEF Below
  <2>1. x \in Seq(Nat) /\ IsPrefix(q, x)
    BY DEF Below, TrieInv
  <2> QED
    BY <1>1, <2>1, PrefixesChain
<1> QED
  BY <1>3, <1>4

\* Below a node with two children nothing longer is common.
LEMMA ForkParts ==
  ASSUME TrieInv, NEW f \in DOMAIN node, NEW c \in Children(f), NEW d \in Children(f), c # d,
         NEW s \in Seq(Nat), Len(f) < Len(s)
  PROVE  \E x \in Below(f) : Len(f) < Len(x) /\ ~IsPrefix(s, x)
<1>1. f \in Seq(Nat) /\ Len(f) \in Nat /\ Len(s) \in Nat /\ Len(f) + 1 \in 0 .. Len(s)
  <2>1. f \in Seq(Nat) /\ Len(f) \in Nat /\ Len(s) \in Nat
    BY UptoAll DEF TrieInv
  <2> QED
    BY <2>1
<1>2. ASSUME NEW e \in Children(f)
      PROVE  \E x \in Below(f) : Len(f) < Len(x) /\ IsPrefix(e, x)
  <2>1. e \in DOMAIN node /\ e \in Seq(Nat) /\ Len(e) = Len(f) + 1 /\ IsPrefix(f, e) /\ e # << >>
    BY <1>1 DEF Children, TrieInv
  <2>2. PICK x \in Below(e) : TRUE
    BY <2>1, SomethingBelow
  <2>3. x \in DOMAIN node /\ x \in Seq(Nat) /\ IsPrefix(e, x) /\ node[x] # NoValue
    BY DEF Below, TrieInv
  <2>4. IsPrefix(f, x)
    BY <1>1, <2>1, <2>3, PrefixesChain
  <2>5. Len(e) \in 0 .. Len(x) /\ Len(x) \in Nat
    BY <2>1, <2>3, PrefixIsUpto, UptoAll
  <2>6. Len(f) < Len(x)
    BY <1>1, <2>1, <2>5
  <2> QED
    BY <2>3, <2>4, <2>6 DEF Below
<1>3. ASSUME NEW e \in Children(f), NEW x \in Below(f), IsPrefix(e, x), IsPrefix(s, x)
      PROVE  e = Upto(s, Len(f) + 1)
  <2>1. e \in Seq(Nat) /\ x \in Seq(Nat) /\ Len(e) = Len(f) + 1
    BY DEF Children, Below, TrieInv
  <2>2. Upto(x, Len(f) + 1) = Upto(s, Len(f) + 1)
    BY <1>1, <1>3, <2>1, PrefixUptos
  <2>3. Upto(x, Len(e)) = e
    BY <1>3, <2>1, PrefixIsUpto
  <2> QED
    BY <2>1, <2>2, <2>3
<1>4. PICK x \in Below(f) : Len(f) < Len(x) /\ IsPrefix(c, x)
  BY <1>2
<1>5. PICK y \in Below(f) : Len(f) < Len(y) /\ IsPrefix(d, y)
  BY <1>2
<1> QED
  BY <1>3, <1>4, <1>5

\* Where the search ends and is not at a leaf, there is a value or the ways part within
\* a character.
LEMMA WaysPart ==
  ASSUME TrieInv, NEW q \in DOMAIN node, Even(q), ~Forced(q), Children(q) # {},
         node[q] = NoValue,
         NEW s \in Seq(Nat), Len(q) + 2 <= Len(s)
  PROVE  \E x \in Below(q) : Len(q) < Len(x) /\ ~IsPrefix(s, x)
<1>1. q \in Seq(Nat) /\ Len(q) \in Nat /\ Len(s) \in Nat /\ Len(q) % 2 = 0 /\ Len(q) < Len(s)
  <2>1. q \in Seq(Nat) /\ Len(q) \in Nat /\ Len(s) \in Nat
    BY UptoAll DEF TrieInv
  <2> QED
    BY <2>1 DEF Even
<1>2. CASE Cardinality(Children(q)) # 1
  <2>1. PICK c, d \in Children(q) : c # d
    BY <1>2, ChildrenCounted
  <2> QED
    BY <1>1, <2>1, ForkParts
<1>3. CASE Cardinality(Children(q)) = 1
  <2>1. PICK f \in Children(q) : Cardinality(Children(f)) # 1
    BY <1>3 DEF Forced, Stops
  <2>2. f \in DOMAIN node /\ f \in Seq(Nat) /\ Len(f) = Len(q) + 1 /\ IsPrefix(q, f)
    BY DEF Children, TrieInv
  <2>3. f # << >> /\ ~Even(f) /\ Len(f) < Len(s) /\ Len(q) < Len(f)
    <3>1. (Len(q) + 1) % 2 # 0 /\ Len(q) + 1 < Len(s) /\ Len(q) + 1 # 0 /\ Len(q) < Len(q) + 1
      BY <1>1, OddBetween
    <3> QED
      BY <1>1, <2>2, <3>1 DEF Even
  <2>4. Children(f) # {}
    BY <2>2, <2>3 DEF TrieInv, NoDeadBranch
  <2>5. PICK c, d \in Children(f) : c # d
    BY <2>1, <2>4, ChildrenCounted
  <2>6. PICK x \in Below(f) : Len(f) < Len(x) /\ ~IsPrefix(s, x)
    BY <2>2, <2>3, <2>5, ForkParts
  <2>7. x \in DOMAIN node /\ x \in Seq(Nat) /\ IsPrefix(f, x) /\ node[x] # NoValue
    BY DEF Below, TrieInv
  <2>8. IsPrefix(q, x)
    BY <1>1, <2>2, <2>7, PrefixesChain
  <2>9. Len(q) < Len(x)
    <3>1. Len(x) \in Nat /\ Len(f) \in Nat
      BY <2>2, <2>7, UptoAll
    <3>2. \A i, j, k \in Nat : i < j /\ j < k => i < k
      OBVIOUS
    <3> QED
      BY <1>1, <2>3, <2>6, <3>1, <3>2, Zenon
  <2> QED
    BY <2>6, <2>7, <2>8, <2>9 DEF Below
<1> QED
  BY <1>2, <1>3

\* So two values are below.
LEMMA TwoBelow ==
  ASSUME TrieInv, NEW q \in DOMAIN node, Even(q), ~Forced(q), Children(q) # {}
  PROVE  \E x, y \in Below(q) : x # y
<1>1. q \in Seq(Nat) /\ Len(q) \in Nat
  BY UptoAll DEF TrieInv
<1>2. PICK c \in Children(q) : TRUE
  OBVIOUS
<1>3. c \in DOMAIN node /\ c \in Seq(Nat) /\ Len(c) = Len(q) + 1 /\ IsPrefix(q, c) /\ c # << >>
  BY <1>1 DEF Children, TrieInv
<1>4. PICK x \in Below(c) : TRUE
  BY <1>3, SomethingBelow
<1>5. x \in DOMAIN node /\ x \in Seq(Nat) /\ IsPrefix(c, x) /\ node[x] # NoValue
  BY DEF Below, TrieInv
<1>6. x \in Below(q)
  <2>1. IsPrefix(q, x)
    BY <1>1, <1>3, <1>5, PrefixesChain
  <2> QED
    BY <1>5, <2>1 DEF Below
<1>7. Len(c) \in 0 .. Len(x) /\ Len(x) \in Nat /\ IsPrefix(x, x)
  BY <1>3, <1>5, PrefixIsUpto, UptoAll
<1>8. CASE node[q] # NoValue
  <2>1. q \in Below(q) /\ q # x
    <3>1. IsPrefix(q, q)
      BY <1>1, PrefixIsUpto, UptoAll
    <3>2. Len(q) # Len(x)
      BY <1>1, <1>3, <1>7
    <3> QED
      BY <1>8, <3>1, <3>2 DEF Below
  <2> QED
    BY <1>6, <2>1
<1>9. CASE node[q] = NoValue
  <2>1. Len(q) + 2 <= Len(x)
    <3>1. Len(x) % 2 = 0 /\ Len(q) % 2 = 0
      BY <1>5 DEF TrieInv, NoDeadBranch, Even
    <3>2. Len(q) < Len(x)
      BY <1>1, <1>3, <1>7
    <3>3. ~ (Len(x) < Len(q) + 2)
      BY <1>1, <1>7, <3>1, <3>2, EvenGap
    <3> QED
      BY <1>1, <1>7, <3>3
  <2>2. PICK y \in Below(q) : Len(q) < Len(y) /\ ~IsPrefix(x, y)
    BY <1>5, <1>9, <2>1, WaysPart
  <2> QED
    BY <1>6, <1>7, <2>2
<1> QED
  BY <1>8, <1>9

\* A leaf is where one value is left.
LEMMA LeafIs ==
  ASSUME TrieInv, NEW q \in DOMAIN node, q # << >>, Even(q), ~Forced(q)
  PROVE  (Children(q) = {}) <=> (Cardinality(Below(q)) = 1)
<1>1. IsFiniteSet(Below(q))
  <2>1. IsFiniteSet(DOMAIN node) /\ Below(q) \in SUBSET (DOMAIN node)
    BY DEF TrieInv, Below
  <2> QED
    BY <2>1, FS_Subset
<1>2. Cardinality(Below(q)) = 1 <=> \E x : Below(q) = {x}
  BY <1>1, FS_Singleton
<1>3. ASSUME Children(q) = {}  PROVE Below(q) = {q}
  <2>1. ASSUME NEW x \in Below(q)  PROVE x = q
    BY <1>3, WayDown DEF Below
  <2>2. Below(q) # {}
    BY SomethingBelow
  <2> QED
    BY <2>1, <2>2
<1>4. ASSUME Children(q) # {}  PROVE \E x, y \in Below(q) : x # y
  BY <1>4, TwoBelow
<1> QED
  BY <1>2, <1>3, <1>4

LEMMA CompletionsAreLongest == TrieInv => CompletionIsLongest
<1> SUFFICES ASSUME TrieInv, NEW p \in DOMAIN node, p # << >>, Even(p)
             PROVE  LET c == AutoComplete(p)
                    IN  /\ CommonTo(p, c.add)
                        /\ (c.ret = "leaf") = (Cardinality(Below(p)) = 1)
                        /\ \A q \in Below(p) :
                             LET longer == Upto(q, Len(p) + Len(c.add) + 2)
                             IN  Len(q) > Len(p) + Len(c.add)
                                   => ~CommonTo(p, Suffix(p, longer)) \/ p \o c.add \in Below(p)
  BY DEF CompletionIsLongest
<1>1. PICK q : q = Target(p)
  OBVIOUS
<1>2. q \in Reached(p) /\ ~Forced(q)
  BY <1>1, TargetIs
<1>3. Below(p) = Below(q)
  BY <1>2, CommonWay
<1>4. /\ p \in Seq(Nat) /\ Len(p) \in Nat
      /\ q \in DOMAIN node /\ q \in Seq(Nat) /\ Len(q) \in Nat /\ IsPrefix(p, q) /\ Even(q)
  BY <1>2, UptoAll DEF TrieInv, Reached
<1>5. q # << >>
  <2> SUFFICES ASSUME q = << >> PROVE FALSE
    OBVIOUS
  <2>1. Len(p) \in 0 .. Len(q) /\ Len(q) = 0
    BY <1>4, PrefixIsUpto
  <2>2. Len(p) = 0
    BY <1>4, <2>1
  <2> QED
    BY <1>4, <2>2, EmptySeq
<1>6. PICK s : s = Suffix(p, q)
  OBVIOUS
<1>7. /\ AutoComplete(p) = [ret |-> IF Children(q) = {} THEN "leaf" ELSE "branch", add |-> s]
  BY <1>1, <1>6 DEF AutoComplete
<1>8. s \in Seq(Nat) /\ Len(s) = Len(q) - Len(p) /\ p \o s = q
  BY <1>4, <1>6, SuffixIs
<1>9. Len(p) + Len(s) = Len(q)
  BY <1>4, <1>8
<1>10. CommonTo(p, s)
  BY <1>3, <1>8 DEF CommonTo, Below
<1>11. (Children(q) = {}) <=> (Cardinality(Below(p)) = 1)
  BY <1>2, <1>3, <1>4, <1>5, LeafIs
<1>12. ASSUME NEW x \in Below(p), Len(x) > Len(q), q \notin Below(p)
       PROVE  ~CommonTo(p, Suffix(p, Upto(x, Len(q) + 2)))
  <2>1. x \in DOMAIN node /\ x \in Seq(Nat) /\ Len(x) \in Nat /\ IsPrefix(q, x) /\ Even(x)
        /\ IsPrefix(p, x)
    BY <1>3, UptoAll DEF Below, TrieInv, NoDeadBranch
  <2>2. node[q] = NoValue
    <3>1. IsPrefix(q, q)
      BY <1>4, PrefixIsUpto, UptoAll
    <3> QED
      BY <1>3, <1>4, <1>12, <3>1 DEF Below
  <2>3. Children(q) # {}
    BY <1>4, <1>12, <2>1, WayDown
  <2>4. Len(q) + 2 <= Len(x)
    <3>1. Len(x) % 2 = 0 /\ Len(q) % 2 = 0
      BY <1>4, <2>1 DEF Even
    <3>2. ~ (Len(x) <= Len(q))
      BY <1>4, <1>12, <2>1
    <3>3. ~ (Len(x) < Len(q) + 2)
      BY <1>4, <2>1, <3>1, <3>2, EvenGap
    <3> QED
      BY <1>4, <2>1, <3>3
  <2>5. Len(q) + 2 \in 0 .. Len(x) /\ Len(p) \in 0 .. Len(q)
    BY <1>4, <2>1, <2>4, PrefixIsUpto
  <2>6. PICK l : l = Upto(x, Len(q) + 2)
    OBVIOUS
  <2>7. l \in Seq(Nat) /\ Len(l) = Len(q) + 2 /\ IsPrefix(l, x)
    BY <2>1, <2>5, <2>6, Uptos, UptoIsPrefix
  <2>8. IsPrefix(p, l)
    <3>1. Len(p) <= Len(l)
      BY <1>4, <2>5, <2>7
    <3> QED
      BY <1>4, <2>1, <2>7, <3>1, PrefixesOfOne
  <2>9. p \o Suffix(p, l) = l
    BY <1>4, <2>7, <2>8, SuffixIs
  <2>10. PICK y \in Below(q) : ~IsPrefix(l, y)
    <3>1. Len(q) + 2 <= Len(l)
      BY <1>4, <2>7
    <3> QED
      BY <1>2, <1>4, <2>2, <2>3, <2>7, <3>1, WaysPart
  <2> QED
    BY <1>3, <2>6, <2>9, <2>10 DEF CommonTo
<1>13. \A x \in Below(p) :
         Len(x) > Len(q) =>
           ~CommonTo(p, Suffix(p, Upto(x, Len(q) + 2))) \/ q \in Below(p)
  BY <1>12
<1>14. PICK c : c = AutoComplete(p)
  OBVIOUS
<1>15. c.add = s /\ (c.ret = "leaf" <=> Children(q) = {})
  BY <1>7, <1>14
<1>16. (c.ret = "leaf") = (Cardinality(Below(p)) = 1)
  BY <1>11, <1>15
<1> HIDE DEF AutoComplete
<1> QED
  BY <1>8, <1>9, <1>10, <1>13, <1>14, <1>15, <1>16

---------------------------------------------------------------------------
(* The order of the candidates, and what the three calls of a completion leave *)
(* for each other.                                                             *)

LEMMA MinBounds ==
  ASSUME NEW a \in Nat, NEW b \in Nat
  PROVE  \A k \in Nat : k <= Min({a, b}) <=> k <= a /\ k <= b
<1>1. \E x \in {a, b} : \A y \in {a, b} : x <= y
  <2>1. a <= b \/ b <= a
    OBVIOUS
  <2> QED
    BY <2>1
<1>2. Min({a, b}) \in {a, b} /\ \A y \in {a, b} : Min({a, b}) <= y
  BY <1>1 DEF Min
<1> QED
  BY <1>2

\* A nibble of a path, 0 after its end: with it, paths are compared nibble by nibble.
Nibble(s, i) == IF i <= Len(s) THEN s[i] + 1 ELSE 0
Differ(s, t, i) == Nibble(s, i) < Nibble(t, i) /\ \A j \in 1 .. i - 1 : Nibble(s, j) = Nibble(t, j)

LEMMA NibbleIs ==
  ASSUME NEW s \in Seq(Nat), NEW i \in Nat \ {0}
  PROVE  /\ Nibble(s, i) \in Nat /\ Len(s) \in Nat
         /\ i <= Len(s) => s[i] \in Nat /\ Nibble(s, i) = s[i] + 1 /\ Nibble(s, i) # 0
         /\ ~ (i <= Len(s)) => Nibble(s, i) = 0
<1>1. Len(s) \in Nat /\ \A j \in 1 .. Len(s) : s[j] \in Nat
  BY LenProperties
<1>2. i <= Len(s) => i \in 1 .. Len(s)
  BY <1>1
<1> QED
  BY <1>1, <1>2 DEF Nibble

\* Two paths that agree up to a place.
LEMMA SameUpto ==
  ASSUME NEW s \in Seq(Nat), NEW t \in Seq(Nat), NEW i \in Nat, i <= Len(s), i <= Len(t)
  PROVE  Upto(s, i) = Upto(t, i) <=> \A j \in 1 .. i : Nibble(s, j) = Nibble(t, j)
<1>1. i \in 0 .. Len(s) /\ i \in 0 .. Len(t) /\ Len(s) \in Nat /\ Len(t) \in Nat
  BY UptoAll
<1>2. /\ Upto(s, i) \in Seq(Nat) /\ Len(Upto(s, i)) = i /\ \A j \in 1 .. i : Upto(s, i)[j] = s[j]
      /\ Upto(t, i) \in Seq(Nat) /\ Len(Upto(t, i)) = i /\ \A j \in 1 .. i : Upto(t, i)[j] = t[j]
  BY <1>1, Uptos
<1>3. ASSUME NEW j \in 1 .. i
      PROVE  Nibble(s, j) = Nibble(t, j) <=> s[j] = t[j]
  <2>1. j \in Nat \ {0} /\ j <= Len(s) /\ j <= Len(t)
    BY <1>1
  <2>2. s[j] \in Nat /\ Nibble(s, j) = s[j] + 1 /\ t[j] \in Nat /\ Nibble(t, j) = t[j] + 1
    BY <2>1, NibbleIs
  <2>3. \A a, b \in Nat : a + 1 = b + 1 <=> a = b
    OBVIOUS
  <2> QED
    BY <2>2, <2>3, Zenon
<1>4. Upto(s, i) = Upto(t, i) <=> \A j \in 1 .. i : s[j] = t[j]
  <2>1. (\A j \in 1 .. i : s[j] = t[j]) => Upto(s, i) = Upto(t, i)
    BY <1>2, SameItems
  <2> QED
    BY <1>2, <2>1
<1> QED
  BY <1>3, <1>4

LEMMA BeforeIs ==
  ASSUME NEW s \in Seq(Nat), NEW t \in Seq(Nat)
  PROVE  Before(s, t) <=> \E i \in Nat \ {0} : Differ(s, t, i)
<1>1. Len(s) \in Nat /\ Len(t) \in Nat /\ Upto(s, Len(s)) = s
  BY UptoAll
<1>2. ASSUME IsStrictPrefix(s, t)  PROVE \E i \in Nat \ {0} : Differ(s, t, i)
  <2>1. IsPrefix(s, t) /\ s # t
    BY <1>2 DEF IsStrictPrefix
  <2>2. Len(s) \in 0 .. Len(t) /\ Upto(t, Len(s)) = s
    BY <2>1, PrefixIsUpto
  <2>3. Len(s) # Len(t)
    BY <2>1, <2>2, UptoAll
  <2>4. /\ Len(s) + 1 \in Nat \ {0} /\ Len(s) + 1 <= Len(t) /\ Len(s) <= Len(t)
        /\ ~ (Len(s) + 1 <= Len(s)) /\ Len(s) + 1 - 1 = Len(s) /\ Len(s) <= Len(s)
    <3>1. Len(s) < Len(t)
      BY <1>1, <2>2, <2>3
    <3> QED
      BY <1>1, <3>1
  <2>5. \A j \in 1 .. Len(s) : Nibble(s, j) = Nibble(t, j)
    BY <1>1, <2>2, <2>4, SameUpto
  <2>6. /\ Nibble(s, Len(s) + 1) = 0
        /\ Nibble(t, Len(s) + 1) \in Nat /\ Nibble(t, Len(s) + 1) # 0
    BY <2>4, NibbleIs
  <2>7. Nibble(s, Len(s) + 1) < Nibble(t, Len(s) + 1)
    BY <2>6
  <2>8. Differ(s, t, Len(s) + 1)
    BY <2>4, <2>5, <2>7 DEF Differ
  <2> QED
    BY <2>4, <2>8
<1>3. ASSUME NEW i \in Nat \ {0}, i <= Len(s), i <= Len(t)
      PROVE  Differ(s, t, i) <=> Upto(s, i - 1) = Upto(t, i - 1) /\ s[i] < t[i]
  <2>1. i - 1 \in Nat /\ i - 1 <= Len(s) /\ i - 1 <= Len(t)
    BY <1>1, <1>3
  <2>2. Upto(s, i - 1) = Upto(t, i - 1) <=> \A j \in 1 .. i - 1 : Nibble(s, j) = Nibble(t, j)
    BY <2>1, SameUpto
  <2>3. s[i] \in Nat /\ Nibble(s, i) = s[i] + 1 /\ t[i] \in Nat /\ Nibble(t, i) = t[i] + 1
    BY <1>3, NibbleIs
  <2>4. Nibble(s, i) < Nibble(t, i) <=> s[i] < t[i]
    BY <2>3
  <2> QED
    BY <2>2, <2>4 DEF Differ
<1>4. ASSUME NEW i \in Nat \ {0}, Differ(s, t, i), ~ (i <= Len(s))
      PROVE  IsStrictPrefix(s, t)
  <2>1. i <= Len(t)
    <3>1. Nibble(s, i) \in Nat /\ Nibble(t, i) \in Nat /\ Nibble(s, i) < Nibble(t, i)
      BY <1>4, NibbleIs DEF Differ
    <3>2. Nibble(t, i) # 0
      BY <3>1
    <3> QED
      BY <3>2, NibbleIs
  <2>2. i = Len(s) + 1
    <3> SUFFICES ASSUME i # Len(s) + 1 PROVE FALSE
      OBVIOUS
    <3>1. /\ Len(s) + 1 \in 1 .. i - 1 /\ Len(s) + 1 \in Nat \ {0} /\ Len(s) + 1 <= Len(t)
          /\ ~ (Len(s) + 1 <= Len(s))
      BY <1>1, <1>4, <2>1
    <3>2. Nibble(s, Len(s) + 1) = Nibble(t, Len(s) + 1)
      BY <1>4, <3>1 DEF Differ
    <3>3. Nibble(s, Len(s) + 1) = 0 /\ Nibble(t, Len(s) + 1) # 0
      BY <3>1, NibbleIs
    <3> QED
      BY <3>2, <3>3
  <2>3. Len(s) <= Len(s) /\ Len(s) <= Len(t) /\ Len(s) \in 0 .. Len(t) /\ i - 1 = Len(s)
    BY <1>1, <2>1, <2>2
  <2>4. Upto(s, Len(s)) = Upto(t, Len(s))
    BY <1>1, <1>4, <2>3, SameUpto DEF Differ
  <2>5. Len(s) # Len(t)
    BY <1>1, <2>1, <2>2
  <2>6. IsPrefix(s, t)
    BY <1>1, <2>3, <2>4, PrefixIsUpto
  <2> QED
    BY <2>5, <2>6 DEF IsStrictPrefix
<1>5. \A i : i \in 1 .. Min({Len(s), Len(t)}) <=> i \in Nat \ {0} /\ i <= Len(s) /\ i <= Len(t)
  <2>1. \E x \in {Len(s), Len(t)} : \A y \in {Len(s), Len(t)} : x <= y
    <3>1. Len(s) <= Len(t) \/ Len(t) <= Len(s)
      BY <1>1
    <3> QED
      BY <1>1, <3>1
  <2>2. Min({Len(s), Len(t)}) \in Nat
    BY <1>1, <2>1 DEF Min
  <2>3. \A k \in Nat : k <= Min({Len(s), Len(t)}) <=> k <= Len(s) /\ k <= Len(t)
    BY <1>1, MinBounds
  <2>4. \A m \in Nat : \A i : i \in 1 .. m <=> i \in Nat \ {0} /\ i <= m
    OBVIOUS
  <2> QED
    BY <2>2, <2>3, <2>4
<1>6. ASSUME NEW i \in Nat \ {0}, Differ(s, t, i), i <= Len(s)
      PROVE  i <= Len(t)
  <2>1. Nibble(s, i) \in Nat /\ Nibble(t, i) \in Nat /\ Nibble(s, i) < Nibble(t, i)
    BY <1>6, NibbleIs DEF Differ
  <2>2. Nibble(t, i) # 0
    BY <2>1
  <2> QED
    BY <2>2, NibbleIs
<1> QED
  BY <1>2, <1>3, <1>4, <1>5, <1>6 DEF Before

\* Candidates are in a total order.
LEMMA BeforeIsOrder ==
  ASSUME NEW s \in Seq(Nat), NEW t \in Seq(Nat)
  PROVE  /\ ~Before(s, s)
         /\ s # t => Before(s, t) \/ Before(t, s)
         /\ \A u \in Seq(Nat) : Before(s, t) /\ Before(t, u) => Before(s, u)
<1>1. \A i \in Nat \ {0} : /\ Nibble(s, i) \in Nat /\ Nibble(t, i) \in Nat
                           /\ \A u \in Seq(Nat) : Nibble(u, i) \in Nat
  BY NibbleIs
<1>2. ~Before(s, s)
  <2>1. \A i \in Nat \ {0} : ~ (Nibble(s, i) < Nibble(s, i))
    BY <1>1
  <2> QED
    BY <2>1, BeforeIs DEF Differ
<1>3. ASSUME s # t  PROVE Before(s, t) \/ Before(t, s)
  <2> DEFINE D == {i \in Nat \ {0} : Nibble(s, i) # Nibble(t, i)}
  <2>1. D # {}
    <3> SUFFICES ASSUME \A i \in Nat \ {0} : Nibble(s, i) = Nibble(t, i) PROVE FALSE
      OBVIOUS
    <3>1. \A i \in Nat \ {0} : i <= Len(s) <=> i <= Len(t)
      BY NibbleIs
    <3>2. Len(s) \in Nat /\ Len(t) \in Nat
      BY UptoAll
    <3>3. Len(s) <= Len(t)
      BY <3>1, <3>2
    <3>4. Len(t) <= Len(s)
      BY <3>1, <3>2
    <3>5. Len(s) = Len(t)
      BY <3>2, <3>3, <3>4
    <3>6. \A j \in 1 .. Len(s) : j \in Nat \ {0}
      OBVIOUS
    <3>7. Upto(s, Len(s)) = Upto(t, Len(s))
      BY <3>2, <3>3, <3>6, SameUpto
    <3> QED
      BY <1>3, <3>5, <3>7, UptoAll
  <2>2. D \subseteq Nat
    OBVIOUS
  <2>3. PICK i \in D : \A j \in D : i <= j
    BY <2>1, <2>2, LeastNatural
  <2>4. ASSUME NEW j \in 1 .. i - 1  PROVE Nibble(s, j) = Nibble(t, j)
    <3>1. j \in Nat \ {0} /\ ~ (i <= j)
      OBVIOUS
    <3> QED
      BY <2>3, <3>1
  <2>5. Nibble(s, i) < Nibble(t, i) \/ Nibble(t, i) < Nibble(s, i)
    BY <1>1
  <2>6. Differ(s, t, i) \/ Differ(t, s, i)
    BY <2>4, <2>5 DEF Differ
  <2> QED
    BY <2>6, BeforeIs
<1>4. ASSUME NEW u \in Seq(Nat), Before(s, t), Before(t, u)  PROVE Before(s, u)
  <2>1. PICK i \in Nat \ {0} : Differ(s, t, i)
    BY <1>4, BeforeIs
  <2>2. PICK j \in Nat \ {0} : Differ(t, u, j)
    BY <1>4, BeforeIs
  <2>3. /\ Nibble(s, i) < Nibble(t, i) /\ \A k \in 1 .. i - 1 : Nibble(s, k) = Nibble(t, k)
        /\ Nibble(t, j) < Nibble(u, j) /\ \A k \in 1 .. j - 1 : Nibble(t, k) = Nibble(u, k)
    BY <2>1, <2>2 DEF Differ
  <2>4. CASE i < j
    <3>1. i \in 1 .. j - 1 /\ \A k \in 1 .. i - 1 : k \in 1 .. j - 1
      BY <2>4
    <3>2. Differ(s, u, i)
      BY <2>3, <3>1 DEF Differ
    <3> QED
      BY <3>2, BeforeIs
  <2>5. CASE j < i
    <3>1. j \in 1 .. i - 1 /\ \A k \in 1 .. j - 1 : k \in 1 .. i - 1
      BY <2>5
    <3>2. Differ(s, u, j)
      BY <2>3, <3>1 DEF Differ
    <3> QED
      BY <3>2, BeforeIs
  <2>6. CASE i = j
    <3>1. Nibble(s, i) < Nibble(u, i)
      BY <1>1, <2>3, <2>6
    <3>2. Differ(s, u, i)
      BY <2>3, <2>6, <3>1 DEF Differ
    <3> QED
      BY <3>2, BeforeIs
  <2> QED
    BY <2>4, <2>5, <2>6
<1> QED
  BY <1>2, <1>3, <1>4

\* All of a finite set of names comes to the list, one at each place.
LEMMA SortedIs ==
  ASSUME NEW S, S \subseteq Seq(Nat), IsFiniteSet(S)
  PROVE  /\ Cardinality(S) \in Nat
         /\ Sorted(S) \in Seq(S) /\ Len(Sorted(S)) = Cardinality(S)
<1>1. PICK n \in Nat : n = Cardinality(S)
  BY FS_CardinalityType
<1> DEFINE Less(s) == {t \in S : Before(t, s)}
           f == [s \in S |-> Cardinality(Less(s)) + 1]
<1>2. ASSUME NEW s \in S
      PROVE  /\ IsFiniteSet(Less(s)) /\ Cardinality(Less(s)) \in Nat
             /\ s \notin Less(s) /\ Cardinality(Less(s)) < n
  <2>1. Less(s) \in SUBSET S
    OBVIOUS
  <2>2. s \notin Less(s)
    BY BeforeIsOrder
  <2> HIDE DEF Less
  <2>3. /\ IsFiniteSet(Less(s)) /\ Cardinality(Less(s)) <= Cardinality(S)
        /\ Cardinality(S) = Cardinality(Less(s)) => S = Less(s)
    BY <2>1, FS_Subset
  <2>4. Cardinality(Less(s)) \in Nat
    BY <2>3, FS_CardinalityType
  <2> QED
    BY <1>1, <2>2, <2>3, <2>4
<1>3. ASSUME NEW s \in S, NEW t \in S, Before(s, t)
      PROVE  Cardinality(Less(s)) # Cardinality(Less(t))
  <2>1. Less(s) \in SUBSET Less(t)
    <3> SUFFICES ASSUME NEW u \in S, Before(u, s) PROVE Before(u, t)
      OBVIOUS
    <3>1. u \in Seq(Nat) /\ s \in Seq(Nat) /\ t \in Seq(Nat)
      OBVIOUS
    <3> QED
      BY <1>3, <3>1, BeforeIsOrder
  <2>2. s \in Less(t)
    BY <1>3
  <2> HIDE DEF Less
  <2>3. IsFiniteSet(Less(t)) /\ s \notin Less(s)
    BY <1>2
  <2> QED
    BY <2>1, <2>2, <2>3, FS_Subset
<1>4. f \in Injection(S, 1 .. n)
  <2>1. f \in [S -> 1 .. n]
    <3>1. \A m \in Nat : m < n => m + 1 \in 1 .. n
      OBVIOUS
    <3> HIDE DEF Less
    <3> QED
      BY <1>2, <3>1
  <2>2. ASSUME NEW s \in S, NEW t \in S, f[s] = f[t]  PROVE s = t
    <3>1. Cardinality(Less(s)) = Cardinality(Less(t))
      <4>1. Cardinality(Less(s)) \in Nat /\ Cardinality(Less(t)) \in Nat
        BY <1>2
      <4> HIDE DEF Less
      <4> QED
        BY <2>2, <4>1
    <3>2. ~Before(s, t) /\ ~Before(t, s)
      BY <1>3, <3>1
    <3>3. s \in Seq(Nat) /\ t \in Seq(Nat)
      OBVIOUS
    <3> QED
      BY <3>2, <3>3, BeforeIsOrder
  <2> HIDE DEF f
  <2> QED
    BY <2>1, <2>2 DEF Injection, IsInjective
<1>5. IsFiniteSet(1 .. n) /\ Cardinality(1 .. n) = n
  <2>1. 1 \in Int /\ n \in Int /\ (IF 1 > n THEN 0 ELSE n - 1 + 1) = n
    OBVIOUS
  <2> QED
    BY <2>1, FS_Interval
<1>6. f \in Surjection(S, 1 .. n)
  <2> HIDE DEF f
  <2> QED
    BY <1>1, <1>4, <1>5, FS_Injection
<1>7. ASSUME NEW i \in 1 .. n
      PROVE  \E s \in S : Cardinality(Less(s)) = i - 1
  <2>1. PICK s \in S : f[s] = i
    BY <1>6 DEF Surjection
  <2>2. Cardinality(Less(s)) \in Nat
    BY <1>2
  <2>3. f[s] = Cardinality(Less(s)) + 1
    OBVIOUS
  <2> HIDE DEF f, Less
  <2> QED
    BY <2>1, <2>2, <2>3
<1>8. \A i \in 1 .. n : (CHOOSE s \in S : Cardinality(Less(s)) = i - 1) \in S
  <2> HIDE DEF Less
  <2> QED
    BY <1>7
<1>9. PICK g : g = Sorted(S)
  OBVIOUS
<1>10. g = [i \in 1 .. n |-> CHOOSE s \in S : Cardinality(Less(s)) = i - 1]
  BY <1>1, <1>9 DEF Sorted
<1>11. g \in [1 .. n -> S]
  <2> HIDE DEF Less
  <2> QED
    BY <1>8, <1>10
<1>12. g \in Seq(S) /\ Len(g) = n
  BY <1>11
<1> QED
  BY <1>1, <1>9, <1>12

\* The candidates of a prefix are finitely many.
LEMMA CandidatesFinite ==
  ASSUME TrieInv, NEW p \in DOMAIN node
  PROVE  IsFiniteSet(Walk(p)) /\ Walk(p) \subseteq Seq(Nat)
<1> DEFINE f == [q \in Below(p) |-> Suffix(p, q)]
<1>1. f \in Surjection(Below(p), Walk(p))
  BY DEF Surjection, Walk
<1>2. IsFiniteSet(DOMAIN node) /\ Below(p) \in SUBSET (DOMAIN node)
  BY DEF TrieInv, Below
<1>3. IsFiniteSet(Below(p))
  BY <1>2, FS_Subset
<1>4. IsFiniteSet(Walk(p))
  <2> HIDE DEF f
  <2> QED
    BY <1>1, <1>3, FS_Surjection
<1>5. p \in Seq(Nat) /\ \A q \in Below(p) : q \in Seq(Nat) /\ IsPrefix(p, q)
  BY DEF Below, TrieInv
<1>6. Walk(p) \subseteq Seq(Nat)
  BY <1>5, SuffixIs DEF Walk
<1> QED
  BY <1>4, <1>6

\* One candidate is the longest, and below two symbols there are two.
LEMMA WalkIs ==
  ASSUME TrieInv, NEW p \in DOMAIN node, NEW x \in Below(p), NEW y \in Below(p), x # y
  PROVE  /\ Walk(p) \subseteq Seq(Nat) /\ IsFiniteSet(Walk(p))
         /\ Cardinality(Walk(p)) \in Nat /\ Cardinality(Walk(p)) > 1
         /\ \A s \in Walk(p) : Len(s) <= Longest(Walk(p))
<1>1. p \in Seq(Nat) /\ Len(p) \in Nat
  BY UptoAll DEF TrieInv
<1>2. \A q \in Below(p) : q \in DOMAIN node /\ q \in Seq(Nat) /\ IsPrefix(p, q)
  BY DEF Below, TrieInv
<1>3. \A q \in Below(p) : /\ Suffix(p, q) \in Seq(Nat) /\ Len(Suffix(p, q)) = Len(q) - Len(p)
                          /\ p \o Suffix(p, q) = q /\ Len(q) \in Nat
  BY <1>1, <1>2, SuffixIs, UptoAll
<1>4. Walk(p) \subseteq Seq(Nat)
  BY CandidatesFinite
<1>5. IsFiniteSet(Walk(p))
  BY CandidatesFinite
<1>6. Suffix(p, x) \in Walk(p) /\ Suffix(p, y) \in Walk(p) /\ Suffix(p, x) # Suffix(p, y)
  BY <1>3 DEF Walk
<1>7. Cardinality(Walk(p)) \in Nat /\ Cardinality(Walk(p)) # 0 /\ Cardinality(Walk(p)) # 1
  <2>1. Cardinality(Walk(p)) \in Nat
    BY <1>5, FS_CardinalityType
  <2>2. Cardinality(Walk(p)) = 0 <=> Walk(p) = {}
    BY <1>5, FS_EmptySet
  <2>3. Cardinality(Walk(p)) = 1 <=> \E s : Walk(p) = {s}
    BY <1>5, FS_Singleton
  <2> QED
    BY <1>6, <2>1, <2>2, <2>3
<1>8. \E m \in {Len(s) : s \in Walk(p)} : \A l \in {Len(s) : s \in Walk(p)} : m >= l
  <2>1. Below(p) \subseteq DOMAIN node /\ Below(p) # {}
    BY <1>2
  <2>2. PICK q \in Below(p) : \A r \in Below(p) : Len(r) <= Len(q)
    BY <2>1, LongestNode
  <2>3. ASSUME NEW r \in Below(p)  PROVE Len(Suffix(p, q)) >= Len(Suffix(p, r))
    <3>1. Len(r) <= Len(q) /\ Len(r) \in Nat /\ Len(q) \in Nat
      BY <1>3, <2>2
    <3>2. \A a, b, c \in Nat : a <= b => b - c >= a - c
      OBVIOUS
    <3>3. Len(q) - Len(p) >= Len(r) - Len(p)
      BY <1>1, <3>1, <3>2
    <3> QED
      BY <1>3, <3>3
  <2>4. \A s \in Walk(p) : Len(Suffix(p, q)) >= Len(s)
    BY <2>3 DEF Walk
  <2>5. Suffix(p, q) \in Walk(p)
    BY DEF Walk
  <2> QED
    BY <2>4, <2>5
<1>9. ASSUME NEW s \in Walk(p)  PROVE Len(s) <= Longest(Walk(p))
  <2>1. Longest(Walk(p)) = Max({Len(t) : t \in Walk(p)})
    BY DEF Longest
  <2>2. Max({Len(t) : t \in Walk(p)}) >= Len(s) /\ Max({Len(t) : t \in Walk(p)}) \in {Len(t) : t \in Walk(p)}
    BY <1>8 DEF Max
  <2>3. \A t \in Walk(p) : Len(t) \in Nat
    BY <1>4, UptoAll
  <2> QED
    BY <2>1, <2>2, <2>3
<1>10. Cardinality(Walk(p)) > 1
  BY <1>7
<1> QED
  BY <1>4, <1>5, <1>7, <1>9, <1>10

\* A completion that adds nothing and is no leaf has two symbols to choose from.
LEMMA CompleteKeeps ==
  ASSUME CompletionInv, NEW p \in Prefix, Complete(p)
  PROVE  CompletionInv'
<1>1. /\ pc' = "count" /\ pref' = p /\ node' = node
      /\ AutoComplete(p) = [ret |-> "branch", add |-> << >>]
  BY DEF Complete
<1>2. p \in Seq(Nat) /\ Even(p) /\ TrieInv
  BY PrefixAssumption DEF CompletionInv
<1>3. PICK c : c = AutoComplete(p)
  OBVIOUS
<1>4. c.ret = "branch" /\ c.add = << >>
  BY <1>1, <1>3
<1>5. p \in DOMAIN node
  BY <1>3, <1>4 DEF AutoComplete
<1>6. PICK q : q = Target(p)
  OBVIOUS
<1>7. c = [ret |-> IF Children(q) = {} THEN "leaf" ELSE "branch", add |-> Suffix(p, q)]
  BY <1>3, <1>5, <1>6 DEF AutoComplete
<1>8. Children(q) # {} /\ Suffix(p, q) = << >>
  BY <1>4, <1>7
<1>9. q \in Reached(p) /\ ~Forced(q)
  BY <1>2, <1>5, <1>6, TargetIs
<1>10. q \in DOMAIN node /\ q \in Seq(Nat) /\ IsPrefix(p, q)
  BY <1>2, <1>9 DEF Reached, TrieInv
<1>11. q = p
  <2>1. Len(Suffix(p, q)) = Len(q) - Len(p) /\ Len(<< >>) = 0
    BY <1>2, <1>10, SuffixIs
  <2>2. Len(p) \in Nat /\ Len(q) \in Nat
    BY <1>2, <1>10, UptoAll
  <2>3. Len(p) = Len(q)
    BY <1>8, <2>1, <2>2
  <2> QED
    BY <1>2, <1>10, <2>3, UptoAll, PrefixIsUpto
<1>12. \E x, y \in Below(p) : x # y
  BY <1>2, <1>5, <1>8, <1>9, <1>11, TwoBelow
<1>13. TrieInv' /\ Below(p)' = Below(p)
  BY <1>1, <1>2 DEF TrieInv, TypeOK, NoDeadBranch, Children, Below
<1>14. \E x, y \in Below(p)' : x # y
  BY <1>12, <1>13
<1>15. \E x, y \in Below(pref)' : x # y
  BY <1>1, <1>14 DEF Below
<1> QED
  BY <1>1, <1>5, <1>13, <1>15 DEF CompletionInv

\* The second call counts what the third will find.
LEMMA CountKeeps ==
  ASSUME CompletionInv, Count
  PROVE  CompletionInv'
<1>1. /\ pc = "count" /\ pc' = "list" /\ node' = node /\ pref' = pref
      /\ pref \in DOMAIN node /\ TrieInv
  BY DEF CompletionInv, Count
<1>2. num' = Cardinality(Walk(pref)) /\ maxlen' = Longest(Walk(pref))
  BY <1>1 DEF Count, Counted
<1>3. PICK x, y \in Below(pref) : x # y
  BY <1>1 DEF CompletionInv
<1>4. Cardinality(Walk(pref)) > 1
  BY <1>1, <1>3, WalkIs
<1>5. TrieInv' /\ Walk(pref)' = Walk(pref) /\ Longest(Walk(pref))' = Longest(Walk(pref))
  BY <1>1 DEF TrieInv, TypeOK, NoDeadBranch, Children, Walk, Below, Suffix, Longest
<1> QED
  BY <1>1, <1>2, <1>4, <1>5 DEF CompletionInv

\* The third call finds them all, and each is as short as was said.
LEMMA ListKeeps ==
  ASSUME CompletionInv, List
  PROVE  CompletionInv'
<1>1. /\ pc = "list" /\ pc' = "answer" /\ node' = node /\ pref' = pref
      /\ num' = num /\ maxlen' = maxlen /\ TrieInv
      /\ pref \in DOMAIN node
      /\ num = Cardinality(Walk(pref)) /\ num > 1 /\ maxlen = Longest(Walk(pref))
  BY DEF CompletionInv, List
<1>2. IsFiniteSet(Walk(pref)) /\ Walk(pref) \subseteq Seq(Nat)
  BY <1>1, CandidatesFinite
<1>3. PICK all : all = Sorted(Walk(pref))
  OBVIOUS
<1>4. num \in Nat /\ all \in Seq(Walk(pref)) /\ Len(all) = num
  BY <1>1, <1>2, <1>3, SortedIs
<1>5. out' = SubSeq(all, 1, num)
  <2>1. Min({num, Len(all)}) = num
    BY <1>4 DEF Min
  <2> QED
    BY <1>3, <2>1 DEF List
<1>6. /\ Len(out') = num
      /\ \A i \in 1 .. num : out'[i] = all[i]
  <2>1. 1 \in Nat \ {0} /\ num <= num /\ 1 <= num + 1 /\ num - 1 + 1 = num
        /\ \A i \in 1 .. num : 1 + i - 1 = i
    BY <1>4
  <2>2. /\ Len(SubSeq(all, 1, num)) = num - 1 + 1
        /\ \A i \in 1 .. num - 1 + 1 : SubSeq(all, 1, num)[i] = all[1 + i - 1]
    BY <1>4, <2>1, PartOf
  <2> QED
    BY <1>5, <2>1, <2>2
<1>7. \A i \in 1 .. num : all[i] \in Walk(pref)
  BY <1>4
<1>8. \A s \in Walk(pref) : Len(s) <= Longest(Walk(pref))
  <2>1. \E s, t \in Walk(pref) : s # t
    <3>1. Walk(pref) # {} /\ ~ \E s : Walk(pref) = {s}
      <4>1. Cardinality(Walk(pref)) # 0 /\ Cardinality(Walk(pref)) # 1
        BY <1>1, <1>4
      <4> QED
        BY <1>2, <4>1, FS_EmptySet, FS_Singleton
    <3> QED
      BY <3>1
  <2>2. PICK x, y \in Below(pref) : x # y
    BY <2>1 DEF Walk
  <2> QED
    BY <1>1, <2>2, WalkIs
<1>9. TrieInv'
  BY <1>1 DEF TrieInv, TypeOK, NoDeadBranch, Children
<1>10. \A i \in 1 .. Len(out') : Len(out'[i]) <= maxlen'
  BY <1>1, <1>6, <1>7, <1>8
<1> QED
  BY <1>1, <1>6, <1>9, <1>10 DEF CompletionInv

LEMMA CompletionInvNext ==
  ASSUME Concurrent = FALSE, CompletionInv, [ACNext]_acvars
  PROVE  CompletionInv'
<1>1. ASSUME SetOrUnset  PROVE CompletionInv'
  <2>1. pc = "idle" /\ pc' = "idle" /\ Next /\ TrieInv
    BY <1>1 DEF SetOrUnset, CompletionInv
  <2>2. TrieInv'
    BY <2>1, TrieInvNext
  <2> QED
    BY <2>1, <2>2 DEF CompletionInv
<1>2. ASSUME Answer  PROVE CompletionInv'
  <2>1. pc' = "idle" /\ node' = node /\ TrieInv
    BY <1>2 DEF Answer, CompletionInv
  <2>2. TrieInv'
    BY <2>1, TrieInvNext
  <2> QED
    BY <2>1, <2>2 DEF CompletionInv
<1>3. ASSUME UNCHANGED acvars  PROVE CompletionInv'
  BY <1>3 DEF CompletionInv, acvars, TrieInv, TypeOK, NoDeadBranch, Children, Below, Walk,
              Suffix, Longest
<1> QED
  BY <1>1, <1>2, <1>3, CompleteKeeps, CountKeeps, ListKeeps DEF ACNext

\* No completion is too short or too long: it is what all symbols below the prefix share,
\* and no deletion leaves a branch that leads nowhere (trie.c:135-180, 482-554).
THEOREM CompletionsTight == ACSpec => []CompletesTight
<1>1. ACInit => TrieInv
  BY TrieInvInit DEF ACInit
<1>2. TrieInv /\ [ACNext]_acvars => TrieInv'
  <2>1. [ACNext]_acvars => [Next]_node
    BY DEF ACNext, acvars, SetOrUnset, Count, List, Answer, Complete
  <2> QED
    BY <2>1, TrieInvNext
<1>3. TrieInv => CompletesTight
  BY CompletionsAreLongest DEF CompletesTight, TrieInv
<1> QED
  BY <1>1, <1>2, <1>3, PTL DEF ACSpec

\* While nothing is set or unset between the calls of a completion, what the front end
\* asserts of them holds: the second call counts at least two candidates, the third finds
\* as many, none longer than was said (cmd.c:45-93, symlookup.c:191-268).
THEOREM CompletionCallsAgree ==
  ASSUME Concurrent = FALSE
  PROVE  ACSpec => []CompletionAsserts
<1>1. ACInit => CompletionInv
  BY TrieInvInit DEF ACInit, CompletionInv
<1>2. CompletionInv /\ [ACNext]_acvars => CompletionInv'
  BY CompletionInvNext
<1>3. CompletionInv => CompletionAsserts
  BY DEF CompletionInv, CompletionAsserts, SeveralCandidates, ListHasNum, CandidatesFit
<1> QED
  BY <1>1, <1>2, <1>3, PTL DEF ACSpec
=============================================================================
