------------------------------ MODULE Dispatch -----------------------------
(**************************************************************************)
(* The daemon between its socket and the library (src/yld/main.c, pdu.c,   *)
(* cmd.c): every packet gets a thread, which parses it, executes its       *)
(* command and sends what that prints or answers.  Packets arrive and      *)
(* leave whole (Framing); a reply knows, for the properties, by which      *)
(* thread it was sent and what it was made of.                             *)
(**************************************************************************)
EXTENDS Integers, Sequences, FiniteSetsExt

CONSTANTS
  Char,               \* characters
  Text,               \* what is printed, completed or interpreted: character sequences
  PrintLimit,         \* size of the buffer a text is printed into first
  MaxPackets, MaxPrints   \* bounds

\* Commands are character sequences too, of one character.
AUTOCOMP == <<"A">>   CHGLOGLV == <<"C">>   INTERP == <<"I">>
PRINT == <<"p">>      LOG == <<"l">>
AUTOCOMP_MORE == <<"m">>   AUTOCOMP_COMP == <<"c">>   AUTOCOMP_PRINT == <<"a">>
DELIMITER == ":"

DispatchAssumption ==
  /\ {"A", "C", "I", "p", "l", "m", "c", "a", "0", DELIMITER} \subseteq Char
  /\ Text \subseteq Seq(Char) /\ \A t \in Text : Len(t) < PrintLimit * 16
  /\ {PrintLimit, MaxPackets, MaxPrints} \subseteq Nat

VARIABLES
  arriving,           \* packets between the front end and the daemon
  handler,            \* the threads, in the order of their packets
  replies,            \* packets between the daemon and the front end
  exited              \* the daemon has called exit, or failed an assertion

daemonvars == <<arriving, handler, replies, exited>>

DispatchInit == arriving = <<>> /\ handler = <<>> /\ replies = <<>> /\ exited = FALSE

----------------------------------------------------------------------------
\* Wrong versions of the definitions below: the last delimiter is looked for; a text
\* fits when its zero does not; a packet waits for those before it.
LastDelimiter(P) == Max(P)
FitsWithoutZero(n, limit) == n <= limit
InTurn(n) == \A m \in 1..n - 1 : handler[m].st = "done"

\* pdu_build and pdu_parser.
pdu_build(cmd, data) == cmd \o <<DELIMITER>> \o data
Delimiter(P) == Min(P)
Positions(pdu) == {i \in DOMAIN pdu : pdu[i] = DELIMITER}
pdu_cmd(pdu) == SubSeq(pdu, 1, Delimiter(Positions(pdu)) - 1)
pdu_data(pdu) == SubSeq(pdu, Delimiter(Positions(pdu)) + 1, Len(pdu))

\* struct _packet and the buffers of its thread.
Started(pdu) == [st |-> "new", pdu |-> pdu, cmd |-> <<>>, data |-> <<>>, prints |-> 0]
Done == [Started(<<>>) EXCEPT !.st = "done"]   \* the packet and its buffers are freed
Unsent == [Done EXCEPT !.st = "unsent"]   \* done too: kept apart for the properties only

\* _on_recv: a thread for the packet.  If there is none to be had the daemon exits.
Receive ==
  /\ ~exited /\ arriving # <<>>
  /\ handler' = Append(handler, Started(Head(arriving)))
  /\ arriving' = Tail(arriving) /\ UNCHANGED <<replies, exited>>

NoThread ==
  /\ ~exited /\ arriving # <<>>
  /\ exited' = TRUE /\ UNCHANGED <<arriving, handler, replies>>

\* The threads do not wait for one another.
MayRun(n) == TRUE
Runs(n, st) == ~exited /\ n \in DOMAIN handler /\ handler[n].st = st /\ MayRun(n)

\* _packet_handler: what has no delimiter is dropped.
Parse(n) ==
  /\ Runs(n, "new")
  /\ LET pdu == handler[n].pdu
     IN  handler' = [handler EXCEPT ![n] =
           IF Positions(pdu) = {} THEN Done
           ELSE [@ EXCEPT !.st = "do", !.cmd = pdu_cmd(pdu), !.data = pdu_data(pdu)]]
  /\ UNCHANGED <<arriving, replies, exited>>

\* __print: the buffer is doubled until the text fits.  Each round reads the arguments
\* of the format again, which C leaves undefined: from the second one on a text
\* with arguments is anything.
Fits(n, limit) == n < limit
Limits == {PrintLimit * m : m \in {1, 2, 4, 8, 16}}
Printed(text) ==
  LET limit == Min({l \in Limits : Fits(Len(text), l)})
  IN  SubSeq(text, 1, Min({Len(text), limit - 1})) \o
      IF Len(text) = limit THEN <<"0">> ELSE <<>>
Written(text, arguments) ==
  IF arguments /\ ~Fits(Len(text), PrintLimit) THEN Text ELSE {Printed(text)}

Reply(n, cmd, data, meant) ==
  replies' = Append(replies, [by |-> n, pdu |-> pdu_build(cmd, data), cmd |-> cmd, data |-> meant])

\* cmd_do, by the command.  An interpretation prints and logs while it runs; a send
\* that fails is only reported on the console.
Interpret(n) ==
  /\ Runs(n, "do") /\ handler[n].cmd = INTERP
  /\ handler' = [handler EXCEPT ![n].st = "interpreting"]
  /\ UNCHANGED <<arriving, replies, exited>>

PrintOut(n, cmd, text, arguments) ==
  /\ Runs(n, "interpreting") /\ handler[n].prints < MaxPrints
  /\ handler' = [handler EXCEPT ![n].prints = @ + 1]
  /\ \/ \E data \in Written(text, arguments) :
          Reply(n, cmd, data, IF arguments /\ ~Fits(Len(text), PrintLimit) THEN data ELSE text)
     \/ UNCHANGED replies
  /\ UNCHANGED <<arriving, exited>>

Interpreted(n) ==
  /\ Runs(n, "interpreting")
  /\ handler' = [handler EXCEPT ![n] = Done]
  /\ UNCHANGED <<arriving, replies, exited>>

\* _cmd_autocomp: one candidate, more characters, or a list to print, which is empty
\* when there is no candidate (what is found is AutoComp).  When building or sending
\* the answer fails the thread ends without a word to the front end.
cmd_autocomp(n) ==
  /\ Runs(n, "do") /\ handler[n].cmd = AUTOCOMP
  /\ \E cmd \in {AUTOCOMP_MORE, AUTOCOMP_COMP, AUTOCOMP_PRINT}, text \in Text \union {<<>>} :
       /\ cmd = AUTOCOMP_MORE => text # <<>>
       /\ \/ Reply(n, cmd, text, text) /\ handler' = [handler EXCEPT ![n] = Done]
          \/ UNCHANGED replies /\ handler' = [handler EXCEPT ![n] = Unsent]
  /\ UNCHANGED <<arriving, exited>>

\* The candidates are counted and fetched one call after the other: an assertion ends
\* the daemon when an interpretation changes the table in between (AutoComp).
CandidatesChanged(n) ==
  /\ Runs(n, "do") /\ handler[n].cmd = AUTOCOMP
  /\ \E m \in DOMAIN handler : handler[m].st = "interpreting"
  /\ exited' = TRUE /\ UNCHANGED <<arriving, handler, replies>>

Ignore(n) ==
  /\ Runs(n, "do") /\ handler[n].cmd \notin {INTERP, AUTOCOMP}
  /\ handler' = [handler EXCEPT ![n] = Done]
  /\ UNCHANGED <<arriving, replies, exited>>

Handle(n) == Parse(n) \/ Interpret(n) \/ cmd_autocomp(n) \/ Ignore(n)

DispatchNext ==
  \/ Receive \/ NoThread
  \/ \E n \in 1..MaxPackets :
       \/ Handle(n) \/ Interpreted(n) \/ CandidatesChanged(n)
       \/ \E text \in Text, cmd \in {PRINT, LOG}, arguments \in BOOLEAN : PrintOut(n, cmd, text, arguments)

----------------------------------------------------------------------------
\* Whatever a front end sends, delimiters in its data included, is executed as the
\* command and the data it was built of (pdu.c:32-78, cmd.c:139-159).
Understood ==
  \A n \in DOMAIN handler : LET h == handler[n] IN
    h.cmd # <<>> => /\ h.pdu = pdu_build(h.cmd, h.data)
                    /\ \A i \in DOMAIN h.cmd : h.cmd[i] # DELIMITER

\* Everything the daemon sends is understood as what was printed or answered, however
\* often the buffer had to grow (main.c:107-145).
RepliesUnderstood ==
  \A i \in DOMAIN replies : LET r == replies[i] IN
    pdu_cmd(r.pdu) = r.cmd /\ pdu_data(r.pdu) = r.data
============================================================================
