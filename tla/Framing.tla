------------------------------ MODULE Framing ------------------------------
(***************************************************************************)
(* The connection between the daemon and its front end (src/yld/socket.c).  *)
(* A packet travels as its size followed by its data; sock_send writes the *)
(* two with separate calls and no lock, and every thread that prints, logs *)
(* or answers a request calls it.  sock_recv reads the size, then the data *)
(* with one recv, which returns what has arrived.                          *)
(*                                                                         *)
(* A size is one unit on the wire, data are a unit per byte.  The model     *)
(* joins the two ends of the C code.  At the other end of the connection   *)
(* is Sock.java, which writes and reads in the same two steps but goes on  *)
(* after a short read.                                                     *)
(***************************************************************************)
EXTENDS Integers, Sequences, FiniteSetsExt

CONSTANTS
  Sender,             \* the threads that send
  MaxLen,             \* longest packet, in bytes
  MaxSent,            \* bound: packets each sender sends
  MaxWire,            \* bound: what fits on the wire
  Width               \* bits of an unsigned int

FramingAssumption ==
  /\ 2^Width \in Nat /\ MaxWire \in Nat
  /\ MaxLen \in Nat /\ MaxLen > 0 /\ MaxLen < 2^Width - 1

VARIABLES
  wire,               \* what has been sent and not yet received
  sent,               \* number of packets a sender has started
  len, bs,            \* size of the packet under way, bytes written of it
  failed,             \* has a send returned -1 (a signal, for instance)?
  reader,             \* sock_recv: "size", "data", "stopped"
  sz,                 \* the size that was read
  got                 \* the packet that was handed to the callback last

wirevars == <<wire, sent, len, bs, failed, reader, sz, got>>

Size(n)    == [kind |-> "size", n |-> n]
Byte(s, i) == [kind |-> "byte", by |-> s, packet |-> sent[s], of |-> len[s], i |-> i]

FramingInit ==
  /\ wire = << >>
  /\ sent = [s \in Sender |-> 0]
  /\ len = [s \in Sender |-> 0] /\ bs = [s \in Sender |-> 0]
  /\ failed = FALSE
  /\ reader = "size" /\ sz = 0 /\ got = << >>

---------------------------------------------------------------------------
\* Wrong versions of the operations below.  They are no part of the model:
\* PROJECT.json names, for each, the property that tells it from the code.
RecvAny(k) == TRUE            \* the number of received bytes is not looked at

SendFailsSigned(s) ==         \* the count of the sent bytes is signed
  /\ bs[s] < len[s] /\ bs[s] >= 0 /\ failed' = TRUE
  /\ bs' = [bs EXCEPT ![s] = @ - 1]
  /\ UNCHANGED <<wire, sent, len, reader, sz, got>>

---------------------------------------------------------------------------
\* sock_send: the size ...
SendSize(s) ==
  /\ bs[s] >= len[s] /\ sent[s] < MaxSent /\ Len(wire) < MaxWire
  /\ \E n \in 1 .. MaxLen :
       /\ wire' = Append(wire, Size(n))
       /\ len' = [len EXCEPT ![s] = n]
  /\ sent' = [sent EXCEPT ![s] = @ + 1]
  /\ bs' = [bs EXCEPT ![s] = 0]
  /\ UNCHANGED <<failed, reader, sz, got>>

\* ... then the data, as much as send takes each time.
SendData(s) ==
  /\ bs[s] < len[s]
  /\ \E k \in 1 .. Min({len[s] - bs[s], MaxWire - Len(wire)}) :
       /\ wire' = wire \o [i \in 1 .. k |-> Byte(s, bs[s] + i)]
       /\ bs' = [bs EXCEPT ![s] = @ + k]
  /\ UNCHANGED <<sent, len, failed, reader, sz, got>>

\* A failing send adds -1 to the unsigned count.
SendFails(s) ==
  /\ bs[s] < len[s] /\ failed' = TRUE
  /\ bs' = [bs EXCEPT ![s] = (@ + 2^Width - 1) % 2^Width]
  /\ UNCHANGED <<wire, sent, len, reader, sz, got>>

RecvSize ==
  /\ reader = "size" /\ wire # << >>
  /\ wire' = Tail(wire)
  /\ IF Head(wire).kind = "size"
     THEN reader' = "data" /\ sz' = Head(wire).n /\ got' = << >>
     ELSE reader' = "stopped" /\ got' = << Head(wire) >> /\ UNCHANGED sz
  /\ UNCHANGED <<sent, len, bs, failed>>

\* recv returned k bytes of the sz that were asked for.
Whole(k) == k = sz

RecvData ==
  /\ reader = "data" /\ wire # << >>
  /\ \E k \in 1 .. Min({sz, Len(wire)}) :
       /\ wire' = SubSeq(wire, k + 1, Len(wire))
       /\ IF Whole(k) THEN reader' = "size" /\ got' = SubSeq(wire, 1, k)
                      ELSE reader' = "stopped" /\ UNCHANGED got
  /\ UNCHANGED <<sent, len, bs, failed, sz>>

FramingNext == \/ RecvSize \/ RecvData
        \/ \E s \in Sender : SendSize(s) \/ SendData(s) \/ SendFails(s)

FramingSpec == FramingInit /\ [][FramingNext]_wirevars

---------------------------------------------------------------------------
\* Unless a send has failed, what is handed to the callback is one packet, from
\* its first byte to its last, and what is read as a size is one
\* (socket.c:141-145, 165-174).
WholePackets ==
  ~failed /\ got # << >> =>
    /\ Len(got) = sz
    /\ \A i \in 1 .. Len(got) :
         /\ got[i].kind = "byte" /\ got[i].i = i
         /\ got[i].by = got[1].by /\ got[i].packet = got[1].packet

\* When sends fail the count runs backwards and wraps around, yet nothing
\* outside of the packet is sent (socket.c:204-207).
InsideBuffer ==
  \A i \in 1 .. Len(wire) : wire[i].kind = "byte" => wire[i].i \in 1 .. wire[i].of

\* What is handed to the callback is one packet, and nothing outside of a packet is
\* sent (socket.c:141-145, 165-174, 204-207).
PacketsWhole == WholePackets /\ InsideBuffer

\* The receive loop goes on as long as the peer keeps to the protocol
\* (yld.h:168).
NeverReturns == reader # "stopped"

---------------------------------------------------------------------------
\* The inductive invariants of the proofs in FramingProofs.  What is on the wire and
\* in the counters, whoever sends and whatever fails ...
Unit ==
  [kind : {"size"}, n : 1 .. MaxLen] \cup
  [kind : {"byte"}, by : Sender, packet : Nat, of : 1 .. MaxLen, i : Int]

Counters ==
  /\ wire \in Seq(Unit) /\ got \in Seq(Unit)
  /\ sent \in [Sender -> Nat] /\ len \in [Sender -> 0 .. MaxLen]
  /\ bs \in [Sender -> 0 .. 2^Width - 1]
  /\ reader \in {"size", "data", "stopped"} /\ sz \in 0 .. MaxLen

\* ... and, of one sender s whose sends do not fail: behind a size comes the first byte,
\* behind a byte come the others of its packet, and behind the last of them a size;
Follows(x, y, d) ==
  y.kind = "byte" /\ y.by = x.by /\ y.packet = x.packet /\ y.of = x.of /\ y.i = x.i + d
IsStream ==
  \A j \in 1 .. Len(wire) :
    /\ wire[j].kind = "size" /\ j < Len(wire) =>
         wire[j + 1].kind = "byte" /\ wire[j + 1].i = 1 /\ wire[j + 1].of = wire[j].n
    /\ wire[j].kind = "byte" =>
         \A k \in j + 1 .. Len(wire) :
           /\ k - j <= wire[j].of - wire[j].i => Follows(wire[j], wire[k], k - j)
           /\ k - j = wire[j].of - wire[j].i + 1 => wire[k].kind = "size"

\* what is on the wire ends where the sender is, and begins where the reader is.
EndsWithSender(s) ==
  LET x == wire[Len(wire)]
  IN  wire # << >> =>
        \/ x.kind = "size" /\ x.n = len[s] /\ bs[s] = 0
        \/ x.kind = "byte" /\ x.of = len[s] /\ x.i = bs[s] /\ x.packet = sent[s]
BeginsWithReader(s) ==
  \/ reader = "stopped"
  \/ reader = "size" /\ wire = << >> /\ bs[s] = len[s]
  \/ reader = "size" /\ wire # << >> /\ wire[1].kind = "size"
  \/ reader = "data" /\ wire = << >> /\ bs[s] = 0 /\ len[s] = sz /\ sz > 0
  \/ reader = "data" /\ wire # << >> /\ wire[1].kind = "byte" /\ wire[1].i = 1 /\ wire[1].of = sz

OneStream(s) ==
  ~failed =>
    /\ bs[s] <= len[s]
    /\ reader # "stopped" => IsStream /\ EndsWithSender(s)
    /\ BeginsWithReader(s)
    /\ WholePackets
=============================================================================
