------------------------------ MODULE FrontEnd -----------------------------
(**************************************************************************)
(* The Java front end in remote mode (src/yljfe/jsrc/Main.java, Sock.java)  *)
(* at the other end of the daemon's connection: the thread of the user      *)
(* interface waits for the answer to a completion, threads of their own     *)
(* send what is to be interpreted, and one thread reads.                    *)
(**************************************************************************)
EXTENDS Dispatch

CONSTANT Stray        \* packets of any other program on the connection

\* Nothing else on the connection asks for a completion.
IsAsk(pdu) == Positions(pdu) # {} /\ pdu_cmd(pdu) = AUTOCOMP
FrontEndAssumption ==
  DispatchAssumption /\ \A pdu \in Stray : pdu \in Seq(Char) /\ ~IsAsk(pdu)

VARIABLES
  ui,                 \* "idle", "sent", "waiting", "woken", "taken"
  asked,              \* number of the packet the user interface asked with, or 0
  packets,            \* number of packets sent
  resp,               \* _resp_result and _resp_msg, and whose answer they are
  late                \* for the properties: a question has been given up, and its answer
                      \* may come, or may have come, for the question that is asked

uivars == <<ui, asked, packets, resp, late>>
fevars == <<arriving, handler, replies, exited, ui, asked, packets, resp, late>>

NoResp == [by |-> 0, cmd |-> AUTOCOMP_PRINT, data |-> <<>>]

FEInit ==
  DispatchInit /\ ui = "idle" /\ asked = 0 /\ packets = 0 /\ resp = NoResp /\ late = FALSE

----------------------------------------------------------------------------
\* Wrong versions of the definitions below: every message is taken for the answer.
AnyMessage == {PRINT, LOG, AUTOCOMP_PRINT, AUTOCOMP_MORE, AUTOCOMP_COMP}

Send(pdu) ==
  /\ packets < MaxPackets /\ packets' = packets + 1
  /\ arriving' = Append(arriving, pdu) /\ UNCHANGED <<handler, replies, exited>>

\* _interpret.
SendInterp(text) == Send(pdu_build(INTERP, text)) /\ UNCHANGED <<ui, asked, resp, late>>
SendStray(pdu) == Send(pdu) /\ UNCHANGED <<ui, asked, resp, late>>

\* A question, or the answer to one, is on its way.
Answers == {AUTOCOMP_PRINT, AUTOCOMP_MORE, AUTOCOMP_COMP}
Pending(h) == \/ h.st = "new" /\ IsAsk(h.pdu)
              \/ h.st = "do" /\ h.cmd = AUTOCOMP
UnderWay ==
  \/ \E i \in 1..Len(arriving) : IsAsk(arriving[i])
  \/ \E n \in 1..Len(handler) : Pending(handler[n])
  \/ \E i \in 1..Len(replies) : replies[i].cmd \in Answers

\* _autoComplete sends before it takes the lock ...
Ask(prefix) ==
  /\ ui = "idle" /\ Send(pdu_build(AUTOCOMP, prefix))
  /\ ui' = "sent" /\ asked' = packets + 1 /\ late' = UnderWay /\ UNCHANGED resp

\* ... and waits without looking whether the answer has come already.
Wait ==
  /\ ui = "sent" /\ ui' = "waiting"
  /\ UNCHANGED <<arriving, handler, replies, exited, asked, packets, resp, late>>

\* The wait is in no loop: it may end without an answer, and what was answered last
\* is taken.  An interrupt gives the question up.
WakeUp ==
  /\ ui = "waiting" /\ ui' = "woken" /\ late' = TRUE
  /\ UNCHANGED <<arriving, handler, replies, exited, asked, packets, resp>>
Interrupted ==
  /\ ui = "waiting" /\ ui' = "idle" /\ asked' = 0 /\ late' = TRUE
  /\ UNCHANGED <<arriving, handler, replies, exited, packets, resp>>

\* _resp_result is read with the lock, _resp_msg without.
Take ==
  /\ ui = "woken" /\ ui' = "taken"
  /\ UNCHANGED <<arriving, handler, replies, exited, asked, packets, resp, late>>
Resume ==
  /\ ui = "taken" /\ ui' = "idle" /\ asked' = 0
  /\ UNCHANGED <<arriving, handler, replies, exited, packets, resp, late>>

\* onSocketRead: answers are kept and wake the user interface, the rest is printed.
onSocketRead ==
  /\ replies # <<>> /\ replies' = Tail(replies)
  /\ LET pdu == Head(replies).pdu
     IN  IF pdu_cmd(pdu) \in Answers
         THEN /\ ui' = IF ui = "waiting" THEN "woken" ELSE ui
              /\ resp' = [by |-> Head(replies).by, cmd |-> pdu_cmd(pdu),
                          data |-> IF pdu_cmd(pdu) = AUTOCOMP_PRINT THEN <<>> ELSE pdu_data(pdu)]
         ELSE UNCHANGED <<ui, resp>>
  /\ UNCHANGED <<arriving, handler, exited, asked, packets, late>>

FENext ==
  \/ \E text \in Text : SendInterp(text) \/ Ask(text)
  \/ \E pdu \in Stray : SendStray(pdu)
  \/ Wait \/ WakeUp \/ Interrupted \/ Take \/ Resume \/ onSocketRead
  \/ DispatchNext /\ UNCHANGED uivars

\* Threads run; nothing is assumed of what is interpreted, nor of the user.
Fairness ==
  /\ WF_fevars(Receive /\ UNCHANGED uivars)
  /\ \A n \in 1..MaxPackets : WF_fevars(Handle(n) /\ UNCHANGED uivars)
  /\ WF_fevars(onSocketRead) /\ WF_fevars(Wait) /\ WF_fevars(Take) /\ WF_fevars(Resume)

FESpec == FEInit /\ [][FENext]_fevars /\ Fairness

----------------------------------------------------------------------------
\* The answer that a completion goes on with is the answer to its own request,
\* though answers of earlier ones are still kept, other requests print in between and
\* half of it is read without the lock - unless a wait has ended without an answer and
\* the answer it gave up was still on its way (Main.java:83-112, 143-160).
AnswerIsOurs == ui \in {"woken", "taken"} /\ ~late => resp.by = asked

\* Without that exception it fails, for the wait is in no loop (Main.java:147).
UsesItsAnswer == ui \in {"woken", "taken"} => resp.by = asked

\* Requests and answers are understood as they were meant, whatever their data hold,
\* and a completion that no wait without an answer came before goes on with the answer
\* to its own request (pdu.c:32-78, main.c:107-145, Main.java:83-160).
MessagesUnderstood == Understood /\ RepliesUnderstood /\ AnswerIsOurs

\* A completion is answered while other requests are still interpreted, however
\* long they are, unless its answer cannot be sent or the daemon has ended
\* (main.c:83-105, cmd.c:105-125).
CompletionAnswered ==
  \A n \in 1..MaxPackets :
    (asked = n /\ n > Len(handler)) ~>
      \/ resp.by = n \/ exited
      \/ n \in DOMAIN handler /\ handler[n].st = "unsent"

\* A completion comes back to the user; it does not when its answer is read before
\* the user interface waits (Main.java:143-151).
CompletionReturns == \A n \in 1..MaxPackets : (asked = n) ~> (asked # n \/ exited)
----------------------------------------------------------------------------
\* The inductive invariant of the proofs in DaemonProofs.  A question that has not been
\* answered is a packet, a thread or a reply, and only one of them, unless one was given up:
Handler ==
  [st : {"new", "do", "interpreting", "done", "unsent"}, pdu : Seq(Char), cmd : Seq(Char),
   data : Seq(Char), prints : Nat]
Message == [by : Nat, pdu : Seq(Char), cmd : Seq(Char), data : Seq(Char)]
ConnectionType ==
  /\ arriving \in Seq(Seq(Char)) /\ handler \in Seq(Handler) /\ replies \in Seq(Message)
  /\ packets = Len(handler) + Len(arriving) /\ asked \in Nat
  /\ ui \in {"idle", "sent", "waiting", "woken", "taken"} /\ late \in BOOLEAN

Awaited(n) == n = asked /\ ui \in {"sent", "waiting"}
OneQuestion ==
  /\ \A i \in 1..Len(arriving) : IsAsk(arriving[i]) => Awaited(Len(handler) + i)
  /\ \A n \in 1..Len(handler) : Pending(handler[n]) => Awaited(n)
  /\ \A i \in 1..Len(replies) : replies[i].cmd \in Answers =>
       /\ Awaited(replies[i].by) /\ replies[i].by \in 1..Len(handler)
       /\ ~Pending(handler[replies[i].by])
  /\ \A i, j \in 1..Len(replies) : {replies[i].cmd, replies[j].cmd} \subseteq Answers => i = j

FEInv == ConnectionType /\ (~late => OneQuestion) /\ MessagesUnderstood
============================================================================
