------------------------------ MODULE ProcRes ------------------------------
(***************************************************************************)
(* Process resources of an evaluation thread and the killer that closes    *)
(* them: the pres list of a context (src/ylisp/mthread.c), the sh function *)
(* that uses it (src/ylext/nfunc_sys.c), ylmt_kill, and the base thread    *)
(* that cleans up after a failed request (src/ylisp/interpret.c).          *)
(*                                                                         *)
(* ylmt_kill walks the list under _m, but sh links and unlinks without a   *)
(* lock, and so does the clean-up of the base thread.  The steps are those *)
(* between which the threads can interleave.  _m is held by the killer from *)
(* its first to its last step; notify_safe and notify_unsafe need it.      *)
(***************************************************************************)
EXTENDS Naturals, Sequences, Functions

CONSTANTS
  MaxSh,              \* sh calls of the request
  MaxKills            \* kill calls aimed at the request

ASSUME BoundAssumption == MaxSh \in Nat \ {0} /\ MaxKills \in Nat

\* A list node and the resource it stands for: the k-th sh call's temporary
\* file and child process.  End is the list head, where every walk ends.
Node == {"file", "child"} \X (1 .. MaxSh)
End  == <<"end", 0>>

VARIABLES
  pc,                 \* the evaluating thread
  n,                  \* number of sh calls so far
  first,              \* the node ylmt_rm_pres has found
  pres,               \* the list, first item first
  alloc,              \* nodes that are allocated
  open,               \* files not closed, children not waited for
  running,            \* children that have not ended
  safe, sig, cancel,  \* flags of the thread: ETST_SAFE, ETSIG_KILL, cancelled
  kills,              \* kill calls so far
  base,               \* the base thread: "join", "closing", "done"
  walk,               \* the two walks of ylmt_close_all_pres
  err                 \* "none", or what went wrong in the list

thread == <<pc, n, first>>
flags  == <<safe, sig, cancel>>
res    == <<pres, alloc, open, running>>
vars   == <<thread, flags, res, kills, base, walk, err>>

Closer == {"killer", "base"}
Idle   == [at |-> "off", pos |-> End, next |-> End]

Goto(to) == pc' = to
Ok       == err = "none"
Ended    == pc \in {"dead", "failed"}

Init ==
  /\ pc = "run" /\ n = 0 /\ first = End
  /\ pres = <<>> /\ alloc = {} /\ open = {} /\ running = {}
  /\ safe = FALSE /\ sig = FALSE /\ cancel = FALSE
  /\ kills = 0
  /\ base = "join"
  /\ walk = [k \in Closer |-> Idle]
  /\ err = "none"

---------------------------------------------------------------------------
\* Wrong versions of the actions below.  They are no part of the model:
\* PROJECT.json names, for each, the property that tells it from the code.
AddFileForgotten ==       \* the file is not registered
  /\ Ok /\ pc = "listed"
  /\ Goto("listed2")
  /\ UNCHANGED <<n, first, flags, res, kills, base, walk, err>>

CloseBeforeUnlist ==      \* the file is closed while it is on the list
  /\ Ok /\ pc = "unsafe"
  /\ pres # <<>>
  /\ first' = Head(pres)
  /\ open' = open \ {<<"file", n>>}
  /\ Goto("unlist")
  /\ UNCHANGED <<n, flags, pres, alloc, running, kills, base, walk, err>>

RmFreeNotUnlinked ==      \* the node is freed and stays on the list
  /\ Ok /\ pc \in {"unlist", "unlist2"}
  /\ alloc' = alloc \ {first}
  /\ first' = End
  /\ Goto(IF pc = "unlist" THEN "unlisted" ELSE "close")
  /\ UNCHANGED <<n, flags, pres, open, running, kills, base, walk, err>>

NotifySafeIgnoresKill ==  \* the signal is not looked at
  /\ Ok /\ pc = "listed2"
  /\ walk["killer"].at = "off"
  /\ safe' = TRUE /\ Goto("wait")
  /\ UNCHANGED <<n, first, sig, cancel, res, kills, base, walk, err>>

---------------------------------------------------------------------------
\* sh: tmpfile and fork.
Fork ==
  /\ Ok /\ pc = "run"
  /\ n < MaxSh
  /\ n' = n + 1
  /\ open' = open \cup {<<"file", n + 1>>, <<"child", n + 1>>}
  /\ running' = running \cup {<<"child", n + 1>>}
  /\ Goto("forked")
  /\ UNCHANGED <<first, flags, pres, alloc, kills, base, walk, err>>

\* fork() fails: the thread gives up at once.
ForkFails ==
  /\ Ok /\ pc = "run"
  /\ n < MaxSh
  /\ n' = n + 1
  /\ open' = open \cup {<<"file", n + 1>>}
  /\ Goto("failed")
  /\ UNCHANGED <<first, flags, pres, alloc, running, kills, base, walk, err>>

\* yllist_del.
Place(node) == CHOOSE i \in 1 .. Len(pres) : pres[i] = node
Unlinked(node) ==
  [i \in 1 .. Len(pres) - 1 |-> pres[IF i < Place(node) THEN i ELSE i + 1]]

\* ylmt_add_pres, which puts the new node first.
AddPres(node) ==
  /\ pres' = <<node>> \o pres
  /\ alloc' = alloc \cup {node}

AddChild ==
  /\ Ok /\ pc = "forked"
  /\ AddPres(<<"child", n>>)
  /\ Goto("listed")
  /\ UNCHANGED <<n, first, flags, open, running, kills, base, walk, err>>

AddFile ==
  /\ Ok /\ pc = "listed"
  /\ AddPres(<<"file", n>>)
  /\ Goto("listed2")
  /\ UNCHANGED <<n, first, flags, open, running, kills, base, walk, err>>

\* ylmt_notify_safe under _m: die of a kill signal or go on to waitpid.
NotifySafe ==
  /\ Ok /\ pc = "listed2"
  /\ walk["killer"].at = "off"
  /\ IF sig THEN safe' = FALSE /\ Goto("dead")
            ELSE safe' = TRUE  /\ Goto("wait")
  /\ UNCHANGED <<n, first, sig, cancel, res, kills, base, walk, err>>

\* The child ends by itself: it may, and it may not.
ChildEnds ==
  /\ Ok
  /\ \E c \in running : running' = running \ {c}
  /\ UNCHANGED <<thread, flags, pres, alloc, open, kills, base, walk, err>>

\* waitpid returns, with the child's status or with ECHILD if the killer has
\* already waited for it.  No cancellation is acted on after this point.
Reap ==
  /\ Ok /\ pc = "wait"
  /\ <<"child", n>> \notin running
  /\ open' = open \ {<<"child", n>>}
  /\ Goto("reaped")
  /\ UNCHANGED <<n, first, flags, pres, alloc, running, kills, base, walk, err>>

\* waitpid is a cancellation point.
Cancelled ==
  /\ Ok /\ pc = "wait" /\ cancel
  /\ Goto("dead")
  /\ UNCHANGED <<n, first, flags, res, kills, base, walk, err>>

NotifyUnsafe ==
  /\ Ok /\ pc = "reaped"
  /\ walk["killer"].at = "off"
  /\ safe' = FALSE
  /\ Goto("unsafe")
  /\ UNCHANGED <<n, first, sig, cancel, res, kills, base, walk, err>>

\* ylmt_rm_pres takes the first item for its own.  On an empty list the
\* "first item" is the list head itself, which is unlinked and freed.
RmFind ==
  /\ Ok /\ pc \in {"unsafe", "unlisted"}
  /\ IF pres = <<>>
     THEN err' = "empty" /\ UNCHANGED <<thread>>
     ELSE /\ first' = Head(pres)
          /\ Goto(IF pc = "unsafe" THEN "unlist" ELSE "unlist2")
          /\ UNCHANGED <<n, err>>
  /\ UNCHANGED <<flags, res, kills, base, walk>>

\* ... and unlinks and frees it.
RmFree ==
  /\ Ok /\ pc \in {"unlist", "unlist2"}
  /\ IF first \in Range(pres)
     THEN /\ pres' = Unlinked(first)
          /\ alloc' = alloc \ {first}
          /\ first' = End
          /\ Goto(IF pc = "unlist" THEN "unlisted" ELSE "close")
          /\ UNCHANGED err
     ELSE err' = "stale" /\ UNCHANGED <<pres, alloc, first, pc>>
  /\ UNCHANGED <<n, flags, open, running, kills, base, walk>>

\* The output is read and the file is closed.
Fclose ==
  /\ Ok /\ pc = "close"
  /\ open' = open \ {<<"file", n>>}
  /\ Goto("tail")
  /\ UNCHANGED <<n, first, flags, pres, alloc, running, kills, base, walk, err>>

\* The safe point at the end of yleval: notify_safe and notify_unsafe.
EvalTail ==
  /\ Ok /\ pc = "tail"
  /\ walk["killer"].at = "off"
  /\ Goto(IF sig THEN "dead" ELSE "run")
  /\ UNCHANGED <<n, first, flags, res, kills, base, walk, err>>

\* The request ends, or its evaluation fails, outside of sh.  After a success
\* the base thread closes nothing; then its walk below finds an empty list.
EndEval ==
  /\ Ok /\ pc = "run"
  /\ Goto("dead")
  /\ UNCHANGED <<n, first, flags, res, kills, base, walk, err>>

---------------------------------------------------------------------------
\* ylmt_close_all_pres, one walk: pos is the item in hand, next the one read
\* before it is unlinked.
NextOf(node) ==
  IF Place(node) = Len(pres) THEN End ELSE pres[Place(node) + 1]

StartWalk ==
  IF pres = <<>> THEN [at |-> "item", pos |-> End, next |-> End]
  ELSE [at |-> "item", pos |-> Head(pres), next |-> NextOf(Head(pres))]

WalkUnlink(k) ==
  /\ Ok /\ walk[k].at = "item" /\ walk[k].pos # End
  /\ IF walk[k].pos \in Range(pres)
     THEN /\ pres' = Unlinked(walk[k].pos)
          /\ walk' = [walk EXCEPT ![k].at = "ccb"]
          /\ UNCHANGED err
     ELSE err' = "stale" /\ UNCHANGED <<pres, walk>>
  /\ UNCHANGED <<thread, flags, alloc, open, running, kills, base>>

\* The close callback: fclose, or kill the child and wait for it.
WalkClose(k) ==
  /\ Ok /\ walk[k].at = "ccb"
  /\ open' = open \ {walk[k].pos}
  /\ running' = running \ {walk[k].pos}
  /\ walk' = [walk EXCEPT ![k].at = "free"]
  /\ UNCHANGED <<thread, flags, pres, alloc, kills, base, err>>

\* free, step to the next item and read the one after it.
WalkStep(k) ==
  /\ Ok /\ walk[k].at = "free"
  /\ LET w == walk[k]
     IN  /\ alloc' = alloc \ {w.pos}
         /\ IF w.next # End /\ w.next \notin Range(pres)
            THEN err' = "stale" /\ UNCHANGED walk
            ELSE /\ walk' = [walk EXCEPT ![k] =
                       [at |-> "item", pos |-> w.next,
                        next |-> IF w.next = End THEN End ELSE NextOf(w.next)]]
                 /\ UNCHANGED err
  /\ UNCHANGED <<thread, flags, pres, open, running, kills, base>>

---------------------------------------------------------------------------
\* ylmt_kill: under _m, cancel a safe thread or signal the other, then close
\* its resources.  The context is on mthread's list until the base thread has
\* taken it off.  (A safe context whose thread is gone is SafePoint's matter.)
Kill ==
  /\ Ok /\ kills < MaxKills
  /\ walk["killer"].at = "off"
  /\ base # "done"
  /\ safe => ~Ended
  /\ kills' = kills + 1
  /\ IF safe THEN cancel' = TRUE /\ UNCHANGED sig
             ELSE sig' = TRUE /\ UNCHANGED cancel
  /\ walk' = [walk EXCEPT !["killer"] = StartWalk]
  /\ UNCHANGED <<thread, safe, res, base, err>>

KillDone ==
  /\ Ok /\ walk["killer"].at = "item" /\ walk["killer"].pos = End
  /\ walk' = [walk EXCEPT !["killer"] = Idle]
  /\ UNCHANGED <<thread, flags, res, kills, base, err>>

\* ylinterpret_internal after the join of a thread that failed.
BaseClose ==
  /\ Ok /\ Ended /\ base = "join"
  /\ base' = "closing"
  /\ walk' = [walk EXCEPT !["base"] = StartWalk]
  /\ UNCHANGED <<thread, flags, res, kills, err>>

\* ... and ylmt_rm, under _m.
BaseDone ==
  /\ Ok /\ base = "closing"
  /\ walk["base"].at = "item" /\ walk["base"].pos = End
  /\ walk["killer"].at = "off"
  /\ base' = "done"
  /\ walk' = [walk EXCEPT !["base"] = Idle]
  /\ UNCHANGED <<thread, flags, res, kills, err>>

\* Nothing more happens: the request is over, or the list is broken and what
\* follows is not defined.
Over ==
  /\ ~Ok \/ base = "done"
  /\ UNCHANGED vars

Sh ==
  \/ Fork \/ ForkFails \/ AddChild \/ AddFile \/ NotifySafe \/ Reap
  \/ Cancelled \/ NotifyUnsafe \/ RmFind \/ RmFree \/ Fclose \/ EvalTail \/ EndEval

Walk(k) == WalkUnlink(k) \/ WalkClose(k) \/ WalkStep(k)

Next ==
  \/ Sh
  \/ ChildEnds
  \/ \E k \in Closer : Walk(k)
  \/ Kill \/ KillDone
  \/ BaseClose \/ BaseDone
  \/ Over

Spec == Init /\ [][Next]_vars

\* The threads run; a child that nobody kills may run for ever.
Fairness ==
  /\ WF_vars(Sh)
  /\ \A k \in Closer : WF_vars(Walk(k))
  /\ WF_vars(KillDone)
  /\ WF_vars(BaseClose)
  /\ WF_vars(BaseDone)

FairSpec == Spec /\ Fairness

---------------------------------------------------------------------------
\* Program points and list contents are what they are declared to be; while
\* the list is intact, every node on it is allocated and occurs once.
TypeOK ==
  /\ pc \in {"run", "forked", "listed", "listed2", "wait", "reaped", "unsafe",
             "unlist", "unlisted", "unlist2", "close", "tail", "dead",
             "failed"}
  /\ n \in 0 .. MaxSh
  /\ first \in Node \cup {End}
  /\ pres \in Seq(Node) /\ IsInjective(pres) /\ Range(pres) \subseteq alloc
  /\ alloc \subseteq Node /\ open \subseteq Node /\ running \subseteq Node
  /\ safe \in BOOLEAN /\ sig \in BOOLEAN /\ cancel \in BOOLEAN
  /\ kills \in 0 .. MaxKills
  /\ base \in {"join", "closing", "done"}
  /\ walk \in [Closer -> [at : {"off", "item", "ccb", "free"},
                          pos : Node \cup {End}, next : Node \cup {End}]]
  /\ err \in {"none", "empty", "stale"}

\* When the request is over, every file is closed, every child waited for and
\* every node freed, however it ended (README:428-430, "So, we can avoid
\* resource leak"), but for the file of an sh whose fork failed, which is not
\* registered yet (nfunc_sys.c:283-295).
NoLeak ==
  base = "done" =>
    /\ alloc = {}
    /\ open = IF pc = "failed" THEN {<<"file", n>>} ELSE {}

\* A file that is on the list is open, so that whoever walks the list may close
\* it: sh unlists it before it closes it (nfunc_sys.c:327-332).
ListedFileIsOpen ==
  \A f \in Range(pres) : f[1] = "file" => f \in open

\* ylmt_rm_pres finds an item on the list (mthread.c:180-182, "to delete first
\* item of list").
RmFindsItem == err # "empty"

\* Nobody unlinks or follows an item that somebody else has taken off the list
\* (yldev.h:660, "This SHOULD be used to be safe from kill thread!").
NobodyElsesItem == err # "stale"

\* A killed request comes to its end, even if the child it waits for would run
\* for ever, unless the list breaks first.
KillEnds == (kills > 0) ~> (base = "done" \/ ~Ok)


---------------------------------------------------------------------------
\* The inductive invariant of the proofs in ProcResProofs.  The list has at most the two
\* nodes of the sh in progress ...
Busy(k) == walk[k].at \in {"ccb", "free"}
Seen(k) == {walk[k].pos, walk[k].next}
OfCall(m) == {<<"file", m>>, <<"child", m>>}

Limit ==
  IF pc \in {"run", "forked", "failed", "close", "tail"} THEN 0
  ELSE IF pc \in {"listed", "unlisted", "unlist2"} THEN 1 ELSE 2

ShortList ==
  /\ Len(pres) <= Limit
  /\ Range(pres) \subseteq (IF pc = "listed" THEN {<<"child", n>>} ELSE OfCall(n))
  /\ pc \in {"unlist", "unlist2"} => first \in OfCall(n)
  /\ pc \notin {"run", "dead"} => n > 0

\* ... and nobody walks over a node before it is on the list.
SeenLater ==
  \A k \in Closer :
    /\ \A m \in n + 1 .. MaxSh : Seen(k) \cap OfCall(m) = {}
    /\ pc \in {"forked", "failed"} => Seen(k) \cap OfCall(n) = {}
    /\ pc = "listed" => <<"file", n>> \notin Seen(k)

\* A node is on the list or in the hand of one walk that has unlinked it.
Holders ==
  /\ \A k \in Closer : Busy(k) => walk[k].pos \in Node \ Range(pres)
  /\ Busy("killer") /\ Busy("base") => walk["killer"].pos # walk["base"].pos
  /\ Ok => alloc = Range(pres) \cup {walk[k].pos : k \in {c \in Closer : Busy(c)}}

\* What is open is on the list, about to be closed by a walk, or still sh's own.
Own ==
  IF pc = "forked" THEN OfCall(n)
  ELSE IF pc \in {"listed", "failed", "unlisted", "unlist2", "close"} THEN {<<"file", n>>} ELSE {}
Owners ==
  /\ open \subseteq Range(pres) \cup {walk[k].pos : k \in {c \in Closer : walk[c].at = "ccb"}} \cup Own
  /\ pc \in {"reaped", "unsafe", "unlist", "unlisted", "unlist2", "close", "tail"} =>
       <<"child", n>> \notin open
  /\ pc \in {"forked", "listed", "failed"} => <<"file", n>> \in open

\* The base thread walks from the head of the list to its end.
BaseWalk ==
  LET w == walk["base"]
  IN  /\ base = "join" => w.at = "off"
      /\ base = "closing" =>
           /\ Ended /\ w.at # "off"
           /\ w.at = "item" /\ w.pos = End => pres = << >>
           /\ w.at = "item" /\ w.pos \in Range(pres) =>
                /\ pres[1] = w.pos
                /\ w.next = End => Len(pres) = 1
                /\ w.next \in Range(pres) => Len(pres) > 1 /\ pres[2] = w.next
           /\ w.at \in {"ccb", "free"} =>
                /\ w.next = End => pres = << >>
                /\ w.next \in Range(pres) => pres[1] = w.next
      /\ base = "done" => Ended /\ Ok /\ pres = << >> /\ \A k \in Closer : walk[k].at = "off"

IInv ==
  TypeOK /\ ShortList /\ SeenLater /\ Holders /\ Owners /\ BaseWalk /\ ListedFileIsOpen
===========================================================================
