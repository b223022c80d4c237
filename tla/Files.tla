-------------------------------- MODULE Files ------------------------------
(**************************************************************************)
(* Raw files and interactive processes (fraw-xxx and procia-xxx of        *)
(* src/ylext/nfunc_sys.c): blocks that own file descriptors and children, *)
(* the calls that block on them, and the collector, which runs the        *)
(* finalizers of what it sweeps.  A handle is used by one thread at a     *)
(* time.  DestroyFirst says that programs let go of a process only after  *)
(* procia-destroy.                                                        *)
(**************************************************************************)
EXTENDS Integers, FiniteSets, FiniteSetsExt

CONSTANTS
  Thread,
  Fraw, Procia,       \* blocks that become handles of files and of processes
  Pid,
  MaxFd,              \* bound on open files
  Chunk, MaxTaken,    \* size of a read buffer, and a bound on what one call reads
  DestroyFirst

INVALID == -1
Fd == 0..MaxFd
Nobody == "nobody"
NoProcess == [gone |-> TRUE]   \* ylacd(e) of a procia that has been destroyed

FilesAssumption ==
  /\ Fraw \cap Procia = {} /\ MaxFd \in Nat /\ Chunk \in Nat \ {0} /\ MaxTaken \in Nat
  /\ DestroyFirst \in BOOLEAN
  /\ Fraw \cap Thread = {} /\ {"stdin", Nobody} \cap (Fraw \cup Thread) = {}
  /\ NoProcess \notin [cpid : Pid, wp : Fraw, rp : Fraw]

VARIABLES
  inuse,              \* blocks in use
  cd,                 \* cd[h] : what ylacd(h) holds, a descriptor or INVALID; 0 is NULL
  nonblock,           \* handles of files opened with 'n'
  proc,               \* proc[p] : child and pipe handles of a procia
  open,               \* open[n] : whose descriptor n is; 0 is standard input
  child,              \* state of each pid
  root,               \* blocks bound to symbols
  call,               \* what each thread is executing
  sweeping,           \* unmarked blocks the collector has still to free
  stray               \* a handle has closed a descriptor that was not its own

filevars == <<inuse, cd, nonblock, proc, open, child, root, call, sweeping, stray>>

Idle == [op |-> "none"]

FilesInit ==
  /\ inuse = {} /\ root = {} /\ sweeping = {} /\ nonblock = {} /\ stray = FALSE
  /\ cd = [h \in Fraw |-> 0] /\ proc = [p \in Procia |-> NoProcess]
  /\ open = [n \in Fd |-> IF n = 0 THEN "stdin" ELSE Nobody]
  /\ child = [i \in Pid |-> "none"] /\ call = [t \in Thread |-> Idle]

----------------------------------------------------------------------------
\* Wrong versions of the definitions below: a closed handle keeps its descriptor; the
\* collector does not visit the pipes of a process; a process is forgotten without
\* being killed; a failing creation leaves a pipe open; the blocks in a running call
\* are not marked; a full buffer is taken for the end of the data.
CloseKeeps(h) == cd[h]
VisitNothing(p) == {}
CleanForgets(p) == child
FailedPipes(n) == [open EXCEPT ![n] = "pipe"]
ArgumentsOf(t) == {}
FullIsEnd(br, free) == TRUE

Free == {n \in Fd : open[n] = Nobody}
Busy(x) == \E t \in Thread : call[t].op # "none" /\ x \in call[t].H
Quiet == sweeping = {}
Running(t) == call[t] = Idle /\ Quiet

\* close(cd[h]) of a descriptor that is open or not.
Closed(o, h) ==
  IF cd[h] \in Fd THEN [o EXCEPT ![cd[h]] = Nobody] ELSE o
Strays(h) == cd[h] \in Fd /\ open[cd[h]] # h

\* fraw_open: the thread is safe while it opens; the lowest free number is taken.
OpenCall(t) ==
  /\ Running(t)
  /\ call' = [call EXCEPT ![t] = [op |-> "open", H |-> {}, fd |-> INVALID]]
  /\ UNCHANGED <<inuse, cd, nonblock, proc, open, child, root, sweeping, stray>>

OpenSys(t) ==
  /\ call[t].op = "open" /\ call[t].fd = INVALID /\ Free # {}
  /\ open' = [open EXCEPT ![Min(Free)] = t]
  /\ call' = [call EXCEPT ![t].fd = Min(Free)]
  /\ UNCHANGED <<inuse, cd, nonblock, proc, child, root, sweeping, stray>>

OpenReturn(t, h, nb) ==
  /\ call[t].op = "open" /\ Quiet /\ h \in Fraw \ inuse
  /\ IF call[t].fd = INVALID THEN UNCHANGED <<inuse, cd, nonblock, open, root>>
     ELSE /\ inuse' = inuse \cup {h} /\ root' = root \cup {h}
          /\ cd' = [cd EXCEPT ![h] = call[t].fd]
          /\ nonblock' = IF nb THEN nonblock \cup {h} ELSE nonblock
          /\ open' = [open EXCEPT ![call[t].fd] = h]
  /\ call' = [call EXCEPT ![t] = Idle]
  /\ UNCHANGED <<proc, child, sweeping, stray>>

\* fraw_close.
ClosedCd(h) == INVALID
CloseFraw(t, h) ==
  /\ Running(t) /\ h \in root \cap Fraw /\ ~Busy(h) /\ cd[h] # INVALID
  /\ open' = Closed(open, h) /\ stray' = (stray \/ Strays(h))
  /\ cd' = [cd EXCEPT ![h] = ClosedCd(h)] /\ nonblock' = nonblock \ {h}
  /\ UNCHANGED <<inuse, proc, child, root, call, sweeping>>

\* The read buffer of a call: its size, what is in it, what the call has read in all.
WithBuffer(c, limit, sz, taken, done) ==
  [op |-> c.op, H |-> c.H, fd |-> c.fd, limit |-> limit, sz |-> sz, taken |-> taken, done |-> done]

\* fraw_read, fraw_write and fraw_select take the descriptors, and are safe while they
\* block on them.
Blocked(t, op, H) ==
  /\ Running(t) /\ H # {} /\ H \subseteq root \cap Fraw
  /\ \A h \in H : ~Busy(h) /\ cd[h] # INVALID /\ open[cd[h]] # Nobody
  /\ call' = [call EXCEPT ![t] = WithBuffer([op |-> op, H |-> H, fd |-> [h \in H |-> cd[h]]],
                                            Chunk, 0, 0, FALSE)]
  /\ UNCHANGED <<inuse, cd, nonblock, proc, open, child, root, sweeping, stray>>

\* One read of fraw_read: br bytes come, a full buffer grows and is read into again.
EndsAt(br, free) == br < free
ReadSys(t, br) ==
  LET c == call[t]
      free == c.limit - c.sz
  IN  /\ c.op = "read" /\ ~c.done /\ br <= free /\ c.taken + br <= MaxTaken
      /\ call' = [call EXCEPT ![t] =
           WithBuffer(c, IF EndsAt(br, free) THEN c.limit ELSE c.limit * 2,
                      c.sz + br, c.taken + br, EndsAt(br, free))]
      /\ UNCHANGED <<inuse, cd, nonblock, proc, open, child, root, sweeping, stray>>

\* EAGAIN: the buffer is reset, with all that earlier reads have put there.
ReadAgain(t) ==
  /\ call[t].op = "read" /\ ~call[t].done /\ call[t].H \subseteq nonblock
  /\ call' = [call EXCEPT ![t] = WithBuffer(@, @.limit, 0, @.taken, TRUE)]
  /\ UNCHANGED <<inuse, cd, nonblock, proc, open, child, root, sweeping, stray>>

\* The call ends, well or not, or its thread is killed while it blocks.
BlockReturn(t) ==
  /\ call[t].op \in {"read", "write", "select"} /\ Quiet
  /\ call' = [call EXCEPT ![t] = Idle]
  /\ UNCHANGED <<inuse, cd, nonblock, proc, open, child, root, sweeping, stray>>

----------------------------------------------------------------------------
\* procia_create: two pipes, a child, and the parent keeps one end of each.  Fewer
\* than four free descriptors, or no process, and everything is closed again.
AfterFailure(n) == open
ProciaCreate(t, p, w, r, i) ==
  LET a == Min(Free)   b == Min(Free \ {a})   c == Min(Free \ {a, b})
  IN  /\ Running(t) /\ p \in Procia \ inuse /\ {w, r} \subseteq Fraw \ inuse /\ w # r
      /\ child[i] = "none" /\ Cardinality(Free) >= 4
      /\ inuse' = inuse \cup {p, w, r} /\ root' = root \cup {p}
      /\ cd' = [cd EXCEPT ![w] = b, ![r] = c] /\ open' = [open EXCEPT ![b] = w, ![c] = r]
      /\ proc' = [proc EXCEPT ![p] = [cpid |-> i, wp |-> w, rp |-> r]]
      /\ child' = [child EXCEPT ![i] = "running"]
      /\ UNCHANGED <<nonblock, call, sweeping, stray>>

ProciaFails(t) ==
  /\ Running(t) /\ Free # {} /\ Cardinality(Free) < 4
  /\ open' = AfterFailure(Min(Free))
  /\ UNCHANGED <<inuse, cd, nonblock, proc, child, root, call, sweeping, stray>>

\* procia_wfd and procia_rfd hand out the pipe's own handle.
PipeHandle(t, p) ==
  /\ Running(t) /\ p \in root \cap Procia /\ proc[p] # NoProcess
  /\ \E h \in {proc[p].wp, proc[p].rp} : root' = root \cup {h}
  /\ UNCHANGED <<inuse, cd, nonblock, proc, open, child, call, sweeping, stray>>

ChildExits(i) ==
  /\ child[i] = "running" /\ child' = [child EXCEPT ![i] = "zombie"]
  /\ UNCHANGED <<inuse, cd, nonblock, proc, open, root, call, sweeping, stray>>

\* _aif_procia_clean: both pipes are closed, the child is killed and waited for.
Killed(p) == [child EXCEPT ![proc[p].cpid] = "none"]
CleanProcia(p) ==
  LET w == proc[p].wp   r == proc[p].rp
  IN  /\ open' = Closed(Closed(open, w), r)
      /\ stray' = (stray \/ Strays(w) \/ Strays(r))
      /\ cd' = [cd EXCEPT ![w] = INVALID, ![r] = INVALID]
      /\ child' = Killed(p)

ProciaDestroy(t, p) ==
  /\ Running(t) /\ p \in root \cap Procia /\ proc[p] # NoProcess
  /\ ~Busy(proc[p].wp) /\ ~Busy(proc[p].rp)
  /\ CleanProcia(p) /\ proc' = [proc EXCEPT ![p] = NoProcess]
  /\ UNCHANGED <<inuse, nonblock, root, call, sweeping>>

----------------------------------------------------------------------------
Unbind(t, x) ==
  /\ Running(t) /\ x \in root
  /\ (DestroyFirst /\ x \in Procia) => proc[x] = NoProcess
  /\ root' = root \ {x}
  /\ UNCHANGED <<inuse, cd, nonblock, proc, open, child, call, sweeping, stray>>

\* The mark phase: symbols, arguments of running calls, and the pipes of a process.
Visit(p) == IF proc[p] = NoProcess THEN {} ELSE {proc[p].wp, proc[p].rp}
Arguments(t) == IF call[t].op = "none" THEN {} ELSE call[t].H
Marked ==
  LET S == root \cup UNION {Arguments(t) : t \in Thread}
  IN  S \cup UNION {Visit(p) : p \in S \cap Procia}

\* Every call the model has between two actions is at a safe point.
CollectFiles ==
  /\ Quiet /\ sweeping' = inuse \ Marked
  /\ UNCHANGED <<inuse, cd, nonblock, proc, open, child, root, call, stray>>

\* _clean_block of one block, in whatever order the table has them: the finalizer, then
\* car and cdr become NULL.
SweepFraw(h) ==
  /\ h \in sweeping \cap Fraw
  /\ open' = Closed(open, h) /\ stray' = (stray \/ Strays(h))
  /\ cd' = [cd EXCEPT ![h] = 0] /\ nonblock' = nonblock \ {h}
  /\ inuse' = inuse \ {h} /\ sweeping' = sweeping \ {h}
  /\ UNCHANGED <<proc, child, root, call>>

SweepProcia(p) ==
  /\ p \in sweeping \cap Procia
  /\ IF proc[p] = NoProcess THEN UNCHANGED <<open, stray, cd, child>> ELSE CleanProcia(p)
  /\ proc' = [proc EXCEPT ![p] = NoProcess]
  /\ inuse' = inuse \ {p} /\ sweeping' = sweeping \ {p}
  /\ UNCHANGED <<nonblock, root, call>>

FilesNext ==
  \/ CollectFiles
  \/ \E h \in Fraw : SweepFraw(h)
  \/ \E p \in Procia : SweepProcia(p)
  \/ \E i \in Pid : ChildExits(i)
  \/ \E t \in Thread :
       \/ OpenCall(t) \/ OpenSys(t)
       \/ \E h \in Fraw : CloseFraw(t, h) \/ \E nb \in BOOLEAN : OpenReturn(t, h, nb)
       \/ \E h \in Fraw : \E op \in {"read", "write"} : Blocked(t, op, {h})
       \/ \E H \in SUBSET Fraw : Blocked(t, "select", H)
       \/ \E br \in 0..MaxTaken : ReadSys(t, br)
       \/ ReadAgain(t) \/ BlockReturn(t) \/ ProciaFails(t)
       \/ \E p \in Procia : PipeHandle(t, p) \/ ProciaDestroy(t, p)
       \/ \E p \in Procia, w, r \in Fraw, i \in Pid : ProciaCreate(t, p, w, r, i)
       \/ \E x \in Fraw \cup Procia : Unbind(t, x)

FilesSpec == FilesInit /\ [][FilesNext]_filevars

----------------------------------------------------------------------------
\* No handle, whether closed by its program, through its process or by the collector,
\* closes a descriptor that has become somebody else's (nfunc_sys.c:92-98, 132-142).
OnlyItsOwn == ~stray

\* Every open descriptor has one owner that will close it, a handle in use or an open
\* that is about to return, and a handle's descriptor is its own.
EveryFileOwned ==
  /\ \A n \in Fd \ {0} : open[n] # Nobody =>
       \/ open[n] \in inuse /\ cd[open[n]] = n
       \/ open[n] \in Thread /\ call[open[n]].op = "open" /\ call[open[n]].fd = n
  /\ \A h \in inuse \cap Fraw : cd[h] # INVALID => open[cd[h]] = h

\* A call that blocks on a descriptor while others close, open and collect reads and
\* writes the file it was called for (nfunc_sys.c:940-975, 1042-1046).
KeepsFiles ==
  \A t \in Thread : call[t].op \in {"read", "write", "select"} =>
    \A h \in call[t].H : cd[h] = call[t].fd[h] /\ open[cd[h]] = h

\* Every child that has not been waited for has one process handle, which has no
\* other child's number (nfunc_sys.c:65-72, 137).
ChildrenOwned ==
  \A i \in Pid : Cardinality({p \in inuse \cap Procia : proc[p] # NoProcess /\ proc[p].cpid = i})
                   = IF child[i] = "none" THEN 0 ELSE 1

\* fraw-read gives its program every byte that it took out of a blocking file
\* (nfunc_sys.c:953-972).
ReturnsWhatItTook ==
  \A t \in Thread : call[t].op = "read" /\ ~(call[t].H \subseteq nonblock) =>
    /\ call[t].sz = call[t].taken
    /\ call[t].done => call[t].sz < call[t].limit

\* The three together: every open descriptor belongs to one handle or to a call that
\* still runs, every child to one handle, and a finalizer or a close touches only the
\* descriptor of its own handle, whichever step of an opening fails
\* (nfunc_sys.c:65-146, 605-672, 768-887).
FilesOwned == OnlyItsOwn /\ EveryFileOwned /\ ChildrenOwned

\* What a blocking call works on is not closed by the collector or another call, and a
\* read returns all that it has taken (nfunc_sys.c:902-1084).
CallsKeepFiles == KeepsFiles /\ ReturnsWhatItTook

\* "memory block that is not in use, should be in clean-state!" (mempool.h:58-59)
FreeBlocksAreClean == \A h \in Fraw \ inuse : cd[h] = 0

----------------------------------------------------------------------------
\* The inductive invariant of the proofs in FilesProofs, for programs that let go of a
\* process only after procia-destroy.
Blocking == {"read", "write", "select"}
Call ==
  {Idle} \cup [op : {"open"}, H : {{}}, fd : Fd \cup {INVALID}] \cup
  [op : Blocking, H : SUBSET Fraw, fd : UNION {[H -> Fd] : H \in SUBSET Fraw},
   limit : Nat, sz : Nat, taken : Nat, done : BOOLEAN]

Typed ==
  /\ inuse \subseteq Fraw \cup Procia /\ nonblock \subseteq inuse \cap Fraw
  /\ cd \in [Fraw -> Fd \cup {INVALID}]
  /\ proc \in [Procia -> [cpid : Pid, wp : Fraw, rp : Fraw] \cup {NoProcess}]
  /\ open \in [Fd -> Fraw \cup Thread \cup {"stdin", Nobody}]
  /\ child \in [Pid -> {"none", "running", "zombie"}]
  /\ call \in [Thread -> Call]

\* What the collector is about to free is in use, and nothing that is reached.
Swept ==
  /\ root \subseteq inuse /\ sweeping \subseteq inuse \ root
  /\ \A t \in Thread : call[t].op \in Blocking =>
       call[t].H \subseteq inuse /\ call[t].H \cap sweeping = {}
  /\ \A p \in Procia : proc[p] # NoProcess =>
       p \in root /\ {proc[p].wp, proc[p].rp} \subseteq inuse \ sweeping

\* Descriptors and their owners point to each other.
Descriptors ==
  /\ open[0] = "stdin"
  /\ \A h \in inuse \cap Fraw : cd[h] # INVALID => cd[h] # 0 /\ open[cd[h]] = h
  /\ \A t \in Thread : call[t].op = "open" /\ call[t].fd # INVALID =>
       call[t].fd # 0 /\ open[call[t].fd] = t
  /\ \A n \in Fd \ {0} :
       /\ open[n] # "stdin"
       /\ open[n] \in Fraw => open[n] \in inuse /\ cd[open[n]] = n
       /\ open[n] \in Thread => call[open[n]].op = "open" /\ call[open[n]].fd = n

Children ==
  /\ \A p \in Procia : proc[p] # NoProcess => child[proc[p].cpid] # "none"
  /\ \A p, q \in Procia :
       proc[p] # NoProcess /\ proc[q] # NoProcess /\ proc[p].cpid = proc[q].cpid => p = q
  /\ \A i \in Pid : child[i] # "none" => \E p \in Procia : proc[p] # NoProcess /\ proc[p].cpid = i

\* A running call has the descriptors its handles have.
CallsCurrent ==
  \A t \in Thread : call[t].op \in Blocking =>
    \A h \in call[t].H : cd[h] = call[t].fd[h] /\ cd[h] # INVALID

FilesInv ==
  Typed /\ Swept /\ Descriptors /\ Children /\ CallsCurrent /\ ReturnsWhatItTook /\ OnlyItsOwn
============================================================================
