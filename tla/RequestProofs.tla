-------------------------- MODULE RequestProofs --------------------------
(***************************************************************************)
(* Proofs about what evaluating threads hold: the block a host reads from  *)
(* while the collector is switched off (GcSwitch), the evaluations in      *)
(* progress (EvalSteps), and files and children (Files), for any number of *)
(* threads, blocks, handles and descriptors.                               *)
(***************************************************************************)
EXTENDS GcSwitch, EvalSteps, Files, DataLemmas, FiniteSetTheorems

---------------------------------------------------------------------------
(* A host that reads.  As long as at most one host thread does, saving and  *)
(* restoring the collector's switch protects what it reads; the run         *)
(* gcswitch_freed shows that two readers break it.                          *)

\* There is at most one reader.
OneReader == \A r, s \in Reader : r = s

\* One step of a reader, of an evaluation thread or of the collector keeps the
\* invariant.
LEMMA ReadingInvariance ==
  ASSUME OneReader, IInv, [Next]_vars
  PROVE  IInv'
<1> USE BlockAssumption DEF OneReader, IInv, TypeOK, HeldIsUsed
<1>1. ASSUME NEW r \in Reader, SwitchOff(r) PROVE IInv'
  BY <1>1 DEF SwitchOff
<1>2. ASSUME NEW r \in Reader, Lookup(r) PROVE IInv'
  BY <1>2 DEF Lookup
<1>3. ASSUME NEW r \in Reader, Copy(r) PROVE IInv'
  BY <1>3 DEF Copy
<1>4. ASSUME NEW r \in Reader, Restore(r) PROVE IInv'
  BY <1>4 DEF Restore
<1>5. CASE Evaluate
  BY <1>5 DEF Evaluate, Bind
<1>6. CASE Collect
  \* The collector is on, so the reader is outside and holds nothing.
  <2>1. \A r \in Reader : held[r] = None
    BY <1>6 DEF Collect
  <2> QED
    BY <1>6, <2>1 DEF Collect
<1>7. CASE UNCHANGED vars
  BY <1>7 DEF vars
<1> QED
  BY <1>1, <1>2, <1>3, <1>4, <1>5, <1>6, <1>7 DEF Next

\* The invariant holds before the first reader comes.
LEMMA ReadingInit == ASSUME Init PROVE IInv
  BY DEF Init, IInv, TypeOK, HeldIsUsed

\* The invariant holds for any number of blocks and any evaluation threads.
THEOREM OneReaderInvariance ==
  ASSUME OneReader
  PROVE  Spec => []IInv
<1>1. Init => IInv
  BY ReadingInit
<1>2. IInv /\ [Next]_vars => IInv'
  BY ReadingInvariance
<1> QED
  BY <1>1, <1>2, PTL DEF Spec

\* What the only reader copies from has not been collected (lisp.c:615-619).
THEOREM ReaderIsSafe ==
  ASSUME OneReader
  PROVE  Spec => []HeldIsUsed
<1>1. IInv => HeldIsUsed
  BY DEF IInv
<1> QED
  BY <1>1, OneReaderInvariance, PTL

\* The only reader leaves the collector switched on (lisp.c:620-628).
THEOREM CollectorComesBack ==
  ASSUME OneReader, Reader # {}
  PROVE  Spec => []SwitchIsPutBack
<1>1. IInv => SwitchIsPutBack
  BY DEF IInv, SwitchIsPutBack
<1> QED
  BY <1>1, OneReaderInvariance, PTL

---------------------------------------------------------------------------
(* Files and children: who owns a descriptor or a child, and that nobody     *)
(* closes what is not his, for programs that destroy a process before they   *)
(* let go of it.                                                             *)

\* What a call is, by its operation.
LEMMA CallKinds ==
  ASSUME Typed, NEW t \in Thread
  PROVE  \/ call[t] = Idle /\ call[t].op = "none"
         \/ call[t].op = "open" /\ call[t].H = {} /\ call[t].fd \in Fd \cup {INVALID}
         \/ /\ call[t].op \in Blocking /\ call[t].H \in SUBSET Fraw
            /\ call[t].limit \in Nat /\ call[t].sz \in Nat /\ call[t].taken \in Nat
            /\ call[t].done \in BOOLEAN
<1>1. call[t] \in Call
  BY DEF Typed
<1>2. CASE call[t] = Idle
  BY <1>2 DEF Idle
<1>3. CASE call[t] \in [op : {"open"}, H : {{}}, fd : Fd \cup {INVALID}]
  BY <1>3
<1>4. CASE call[t] \in [op : Blocking, H : SUBSET Fraw,
                        fd : UNION {[H -> Fd] : H \in SUBSET Fraw},
                        limit : Nat, sz : Nat, taken : Nat, done : BOOLEAN]
  BY <1>4
<1> QED
  BY <1>1, <1>2, <1>3, <1>4 DEF Call

\* At the start only descriptors of the system are open.
LEMMA InitHolds == FilesAssumption /\ FilesInit => FilesInv
<1> SUFFICES ASSUME FilesAssumption, FilesInit  PROVE FilesInv
  OBVIOUS
<1> USE DEF FilesInit, FilesAssumption
<1>1. \A t \in Thread : call[t] = Idle /\ call[t].op = "none"
  BY DEF Idle
<1>2. 0 \in Fd /\ INVALID # 0
  BY DEF Fd, INVALID
<1>3. Typed
  BY <1>2 DEF Typed, Call
<1>4. Swept /\ CallsCurrent /\ ReturnsWhatItTook /\ OnlyItsOwn /\ Children
  BY <1>1 DEF Swept, CallsCurrent, ReturnsWhatItTook, OnlyItsOwn, Children, Blocking
<1>5. Descriptors
  BY <1>1, <1>2 DEF Descriptors, Nobody
<1> QED
  BY <1>3, <1>4, <1>5 DEF FilesInv

---------------------------------------------------------------------------
\* A collection takes up what no symbol and no call leads to.
LEMMA CollectKeeps == ASSUME FilesInv, CollectFiles  PROVE FilesInv'
<1> USE DEF FilesInv, CollectFiles
<1>1. Typed' /\ Descriptors' /\ Children' /\ CallsCurrent' /\ ReturnsWhatItTook' /\ OnlyItsOwn'
  BY DEF Typed, Descriptors, Children, CallsCurrent, ReturnsWhatItTook, OnlyItsOwn
<1>2. root \subseteq Marked
  BY DEF Marked
<1>3. ASSUME NEW t \in Thread, call[t].op \in Blocking  PROVE call[t].H \subseteq Marked
  <2>1. Arguments(t) = call[t].H
    BY <1>3 DEF Arguments, Blocking
  <2> QED
    BY <2>1 DEF Marked
<1>4. ASSUME NEW p \in Procia, proc[p] # NoProcess
      PROVE  p \in root /\ {proc[p].wp, proc[p].rp} \subseteq Marked
  <2>1. p \in root
    BY <1>4 DEF Swept
  <2>2. Visit(p) = {proc[p].wp, proc[p].rp}
    BY <1>4 DEF Visit
  <2> QED
    BY <2>1, <2>2 DEF Marked
<1>5. Swept'
  BY <1>2, <1>3, <1>4 DEF Swept
<1> QED
  BY <1>1, <1>5

\* A child exits by itself.
LEMMA ExitKeeps == ASSUME FilesInv, NEW i \in Pid, ChildExits(i)  PROVE FilesInv'
<1> USE DEF FilesInv, ChildExits
<1>1. Typed'
  BY DEF Typed
<1>2. Swept' /\ Descriptors' /\ CallsCurrent' /\ ReturnsWhatItTook' /\ OnlyItsOwn'
  BY DEF Swept, Descriptors, CallsCurrent, ReturnsWhatItTook, OnlyItsOwn
<1>3. \A j \in Pid : child'[j] = "none" <=> child[j] = "none"
  BY DEF Typed
<1>4. Children'
  <2>1. \A p \in Procia : proc[p] # NoProcess => proc[p].cpid \in Pid
    BY DEF Typed
  <2> QED
    BY <1>3, <2>1 DEF Children
<1> QED
  BY <1>1, <1>2, <1>4

\* A thread that only enters or leaves a call, and takes nothing new with it.
LEMMA CallChanges ==
  ASSUME FilesInv, NEW t \in Thread, NEW c \in Call,
         call' = [call EXCEPT ![t] = c],
         UNCHANGED <<inuse, cd, nonblock, proc, open, child, root, sweeping, stray>>,
         call[t].op = "open" => call[t].fd = INVALID,
         c.op = "open" => c.fd = INVALID,
         c.op \in Blocking =>
           /\ c.H \subseteq inuse /\ c.H \cap sweeping = {}
           /\ \A h \in c.H : cd[h] = c.fd[h] /\ cd[h] # INVALID,
         c.op = "read" /\ ~(c.H \subseteq nonblock) =>
           c.sz = c.taken /\ (c.done => c.sz < c.limit)
  PROVE  FilesInv'
<1> USE DEF FilesInv
<1>1. call'[t] = c /\ \A u \in Thread : u # t => call'[u] = call[u]
  BY DEF Typed
<1>2. Typed'
  BY DEF Typed
<1>3. Swept'
  BY <1>1 DEF Swept
<1>4. Children' /\ OnlyItsOwn'
  BY DEF Children, OnlyItsOwn
<1>5. CallsCurrent'
  BY <1>1 DEF CallsCurrent
<1>6. ReturnsWhatItTook'
  BY <1>1 DEF ReturnsWhatItTook
<1>7. Descriptors'
  <2>1. \A n \in Fd \ {0} : open[n] = t => FALSE
    BY DEF Descriptors, Fd, INVALID
  <2> QED
    BY <1>1, <2>1 DEF Descriptors
<1> QED
  BY <1>2, <1>3, <1>4, <1>5, <1>6, <1>7

\* A call that opens a file starts, ...
LEMMA OpenCallKeeps == ASSUME FilesInv, NEW t \in Thread, OpenCall(t)  PROVE FilesInv'
<1> DEFINE c == [op |-> "open", H |-> {}, fd |-> INVALID]
<1>1. c \in Call /\ c.op = "open" /\ c.fd = INVALID /\ c.op \notin Blocking /\ c.op # "read"
  BY DEF Call, Blocking
<1>2. call[t].op # "open"
  BY DEF OpenCall, Running, Idle
<1>3. call' = [call EXCEPT ![t] = c]
  BY DEF OpenCall
<1> HIDE DEF c
<1> QED
  BY <1>1, <1>2, <1>3, CallChanges DEF OpenCall

\* ... one that may block, ...
LEMMA BlockedKeeps ==
  ASSUME FilesAssumption, FilesInv, NEW t \in Thread,
         NEW op \in Blocking, NEW H \in SUBSET Fraw, Blocked(t, op, H)
  PROVE  FilesInv'
<1> DEFINE d == [h \in H |-> cd[h]]
           c == [op |-> op, H |-> H, fd |-> d,
                 limit |-> Chunk, sz |-> 0, taken |-> 0, done |-> FALSE]
<1>1. \A h \in H : h \in inuse /\ cd[h] \in Fd /\ cd[h] # INVALID
  BY DEF Blocked, FilesInv, Swept, Typed
<1>2. d \in [H -> Fd]
  BY <1>1
<1>3. c \in Call
  BY <1>2 DEF Call, FilesAssumption
<1>4. c.op = op /\ c.H = H /\ c.fd = d /\ c.sz = c.taken /\ c.done = FALSE /\ c.op # "open"
  BY DEF Blocking
<1>5. \A h \in H : d[h] = cd[h]
  OBVIOUS
<1>6. call' = [call EXCEPT ![t] = c]
  BY DEF Blocked, WithBuffer
<1>7. call[t].op # "open"
  BY DEF Blocked, Running, Idle
<1>8. H \cap sweeping = {}
  BY DEF Blocked, Running, Quiet
<1> HIDE DEF c, d
<1>9. UNCHANGED <<inuse, cd, nonblock, proc, open, child, root, sweeping, stray>>
  BY DEF Blocked
<1>10. /\ c.H \subseteq inuse /\ c.H \cap sweeping = {}
       /\ \A h \in c.H : cd[h] = c.fd[h] /\ cd[h] # INVALID
  BY <1>1, <1>4, <1>5, <1>8
<1> QED
  BY <1>3, <1>4, <1>6, <1>7, <1>9, <1>10, CallChanges

\* The call goes on with its handles.
LEMMA ReadGoesOn ==
  ASSUME FilesInv, NEW t \in Thread, call[t].op \in Blocking,
         NEW limit \in Nat, NEW sz \in Nat, NEW taken \in Nat, NEW done \in BOOLEAN,
         call' = [call EXCEPT ![t] = [op |-> call[t].op, H |-> call[t].H, fd |-> call[t].fd,
                                      limit |-> limit, sz |-> sz, taken |-> taken, done |-> done]],
         ~(call[t].H \subseteq nonblock) => sz = taken /\ (done => sz < limit),
         UNCHANGED <<inuse, cd, nonblock, proc, open, child, root, sweeping, stray>>
  PROVE  FilesInv'
<1> DEFINE c == [op |-> call[t].op, H |-> call[t].H, fd |-> call[t].fd,
                 limit |-> limit, sz |-> sz, taken |-> taken, done |-> done]
<1>1. call[t] \in [op : Blocking, H : SUBSET Fraw, fd : UNION {[H -> Fd] : H \in SUBSET Fraw},
                   limit : Nat, sz : Nat, taken : Nat, done : BOOLEAN]
  BY DEF FilesInv, Typed, Call, Idle, Blocking
<1>2. c \in Call
  BY <1>1 DEF Call
<1>3. /\ c.op = call[t].op /\ c.H = call[t].H /\ c.fd = call[t].fd /\ c.sz = sz
      /\ c.taken = taken /\ c.done = done /\ c.limit = limit
  OBVIOUS
<1>4. call' = [call EXCEPT ![t] = c] /\ call[t].op # "open"
  BY DEF Blocking
<1> HIDE DEF c
<1>5. /\ call[t].H \subseteq inuse /\ call[t].H \cap sweeping = {}
      /\ \A h \in call[t].H : cd[h] = call[t].fd[h] /\ cd[h] # INVALID
  BY DEF FilesInv, Swept, CallsCurrent
<1>6. c.op # "open"
  BY <1>3, <1>4
<1>7. /\ c.H \subseteq inuse /\ c.H \cap sweeping = {}
      /\ \A h \in c.H : cd[h] = c.fd[h] /\ cd[h] # INVALID
  BY <1>3, <1>5
<1>8. ~(c.H \subseteq nonblock) => c.sz = c.taken /\ (c.done => c.sz < c.limit)
  BY <1>3
<1> HIDE DEF c
<1> QED
  BY <1>2, <1>4, <1>6, <1>7, <1>8, CallChanges

\* ... one that reads ...
LEMMA ReadKeeps ==
  ASSUME FilesAssumption, FilesInv, NEW t \in Thread, NEW br \in 0 .. MaxTaken, ReadSys(t, br)
  PROVE  FilesInv'
<1>1. /\ call[t] \in [op : Blocking, H : SUBSET Fraw, fd : UNION {[H -> Fd] : H \in SUBSET Fraw},
                      limit : Nat, sz : Nat, taken : Nat, done : BOOLEAN]
      /\ call[t].op \in Blocking /\ t \in DOMAIN call
  BY DEF FilesInv, Typed, Call, Idle, Blocking, ReadSys
<1> DEFINE free == call[t].limit - call[t].sz
           limit == IF EndsAt(br, free) THEN call[t].limit ELSE call[t].limit * 2
<1>2. /\ call[t].limit \in Nat /\ call[t].sz \in Nat /\ call[t].taken \in Nat /\ br \in Nat
      /\ call[t].done = FALSE
  BY <1>1 DEF FilesAssumption, ReadSys
<1>3. call' = [call EXCEPT ![t] = [op |-> call[t].op, H |-> call[t].H, fd |-> call[t].fd,
                 limit |-> limit, sz |-> call[t].sz + br, taken |-> call[t].taken + br,
                 done |-> EndsAt(br, free)]]
  BY <1>1 DEF ReadSys, WithBuffer
<1>4. EndsAt(br, free) \in BOOLEAN /\ limit \in Nat
  BY <1>2 DEF EndsAt
<1>5. ~(call[t].H \subseteq nonblock) =>
        /\ call[t].sz + br = call[t].taken + br
        /\ EndsAt(br, free) => call[t].sz + br < limit
  <2>1. ~(call[t].H \subseteq nonblock) => call[t].sz = call[t].taken
    BY DEF FilesInv, ReturnsWhatItTook, ReadSys
  <2> QED
    BY <1>2, <2>1 DEF EndsAt
<1>6. UNCHANGED <<inuse, cd, nonblock, proc, open, child, root, sweeping, stray>>
  BY DEF ReadSys
<1> HIDE DEF free, limit
<1>7. call[t].sz + br \in Nat /\ call[t].taken + br \in Nat
  BY <1>2
<1> QED
  BY <1>1, <1>3, <1>4, <1>5, <1>6, <1>7, ReadGoesOn

\* ... and one that has to read again.
LEMMA AgainKeeps ==
  ASSUME FilesInv, NEW t \in Thread, ReadAgain(t)
  PROVE  FilesInv'
<1>1. /\ call[t] \in [op : Blocking, H : SUBSET Fraw, fd : UNION {[H -> Fd] : H \in SUBSET Fraw},
                      limit : Nat, sz : Nat, taken : Nat, done : BOOLEAN]
      /\ call[t].op \in Blocking /\ t \in DOMAIN call
  BY DEF FilesInv, Typed, Call, Idle, Blocking, ReadAgain
<1>2. call' = [call EXCEPT ![t] = [op |-> call[t].op, H |-> call[t].H, fd |-> call[t].fd,
                 limit |-> call[t].limit, sz |-> 0, taken |-> call[t].taken, done |-> TRUE]]
  BY <1>1 DEF ReadAgain, WithBuffer
<1>3. call[t].limit \in Nat /\ call[t].taken \in Nat /\ call[t].H \subseteq nonblock
  BY <1>1 DEF ReadAgain
<1>4. UNCHANGED <<inuse, cd, nonblock, proc, open, child, root, sweeping, stray>>
  BY DEF ReadAgain
<1> QED
  BY <1>1, <1>2, <1>3, <1>4, ReadGoesOn

\* A blocked call returns.
LEMMA ReturnKeeps == ASSUME FilesInv, NEW t \in Thread, BlockReturn(t)  PROVE FilesInv'
<1>1. Idle \in Call /\ Idle.op = "none" /\ Idle.op \notin Blocking /\ call[t].op # "open"
  BY DEF Call, Idle, Blocking, BlockReturn
<1> QED
  BY <1>1, CallChanges DEF BlockReturn, Blocking

---------------------------------------------------------------------------
\* The system hands out a number that is free.
LEMMA FreeDescriptor ==
  ASSUME FilesAssumption, FilesInv, NEW S \in SUBSET Free, S # {}
  PROVE  Min(S) \in Fd \ {0} /\ Min(S) \in S /\ open[Min(S)] = Nobody
<1>1. S \subseteq Nat
  BY DEF Free, Fd, FilesAssumption
<1>2. Min(S) \in S
  BY <1>1, LeastIndex
<1>3. open[0] # Nobody
  BY DEF FilesInv, Descriptors, Nobody
<1> QED
  BY <1>2, <1>3 DEF Free

\* The system call opens what nobody owns, ...
LEMMA OpenSysKeeps ==
  ASSUME FilesAssumption, FilesInv, NEW t \in Thread, OpenSys(t)
  PROVE  FilesInv'
<1> USE DEF FilesInv
<1> DEFINE n == Min(Free)
           c == [op |-> "open", H |-> {}, fd |-> n]
<1>1. n \in Fd \ {0} /\ open[n] = Nobody
  BY FreeDescriptor DEF OpenSys
<1>2. open' = [open EXCEPT ![n] = t]
  BY DEF OpenSys
<1> HIDE DEF n
<1>3. call' = [call EXCEPT ![t] = c]
  <2>1. call[t] \in [op : {"open"}, H : {{}}, fd : Fd \cup {INVALID}]
    BY DEF Typed, Call, Idle, Blocking, OpenSys
  <2>2. [call[t] EXCEPT !.fd = n] = c
    BY <2>1
  <2>3. call' = [call EXCEPT ![t] = [call[t] EXCEPT !.fd = n]]
    BY DEF OpenSys, n
  <2> QED
    BY <2>2, <2>3
<1>4. c \in Call /\ c.op = "open" /\ c.fd = n /\ c.op \notin Blocking
  BY <1>1 DEF Call, Blocking
<1> HIDE DEF c
<1>5. /\ call'[t] = c /\ \A u \in Thread : u # t => call'[u] = call[u]
      /\ open'[n] = t /\ \A m \in Fd : m # n => open'[m] = open[m]
  BY <1>1, <1>2, <1>3 DEF Typed
<1>6. UNCHANGED <<inuse, cd, nonblock, proc, child, root, sweeping, stray>>
  BY DEF OpenSys
<1>7. Typed'
  BY <1>1, <1>2, <1>3, <1>4, <1>6 DEF Typed
<1>8. Swept' /\ CallsCurrent' /\ Children' /\ OnlyItsOwn'
  BY <1>4, <1>5, <1>6 DEF Swept, CallsCurrent, Children, OnlyItsOwn
<1>9. ReturnsWhatItTook'
  BY <1>4, <1>5, <1>6 DEF ReturnsWhatItTook
<1>10. Descriptors'
  <2>1. 0 \in Fd /\ Nobody \notin Fraw /\ t \notin Fraw /\ t # "stdin" /\ Nobody \notin Thread
    BY DEF Fd, FilesAssumption
  <2>2. open'[0] = "stdin"
    BY <1>1, <1>5, <2>1 DEF Descriptors
  <2>3. \A h \in inuse \cap Fraw : cd[h] # INVALID => cd[h] # 0 /\ open'[cd[h]] = h
    BY <1>1, <1>5, <2>1 DEF Descriptors, Typed
  <2>4. ASSUME NEW u \in Thread, call'[u].op = "open", call'[u].fd # INVALID
        PROVE  call'[u].fd # 0 /\ open'[call'[u].fd] = u
    <3>1. CASE u = t
      BY <1>1, <1>4, <1>5, <3>1
    <3>2. CASE u # t
      <4>1. call[u].fd # 0 /\ open[call[u].fd] = u /\ call[u].fd \in Fd
        BY <1>5, <2>4, <3>2, CallKinds DEF Descriptors, Blocking
      <4> QED
        BY <1>1, <1>5, <2>1, <3>2, <4>1
    <3> QED
      BY <3>1, <3>2
  <2>5. ASSUME NEW m \in Fd \ {0}
        PROVE  /\ open'[m] # "stdin"
               /\ open'[m] \in Fraw => open'[m] \in inuse /\ cd[open'[m]] = m
               /\ open'[m] \in Thread =>
                    call'[open'[m]].op = "open" /\ call'[open'[m]].fd = m
    <3>1. CASE m = n
      BY <1>4, <1>5, <2>1, <3>1
    <3>2. CASE m # n
      <4>1. open'[m] = open[m] /\ open[m] # t
        BY <1>5, <3>2 DEF Descriptors, OpenSys, Fd, INVALID
      <4> QED
        BY <1>5, <4>1 DEF Descriptors
    <3> QED
      BY <3>1, <3>2
  <2> QED
    BY <1>6, <2>2, <2>3, <2>4, <2>5 DEF Descriptors
<1> QED
  BY <1>7, <1>8, <1>9, <1>10

\* ... and the block that is returned owns it.
LEMMA OpenReturnKeeps ==
  ASSUME FilesAssumption, FilesInv, NEW t \in Thread, NEW h \in Fraw, NEW nb \in BOOLEAN,
         OpenReturn(t, h, nb)
  PROVE  FilesInv'
<1>0. /\ Idle \in Call /\ Idle.op = "none" /\ Idle.op \notin Blocking
      /\ call[t].op = "open" /\ sweeping = {} /\ h \notin inuse
      /\ call' = [call EXCEPT ![t] = Idle]
  BY DEF Call, Idle, Blocking, OpenReturn, Quiet
<1>1. CASE call[t].fd = INVALID
  BY <1>0, <1>1, CallChanges DEF OpenReturn, Blocking
<1>2. CASE call[t].fd # INVALID
  <2> USE DEF FilesInv
  <2> DEFINE n == call[t].fd
  <2>1. n \in Fd \ {0} /\ open[n] = t
    BY <1>0, <1>2, CallKinds DEF Descriptors, Blocking
  <2>2. /\ inuse' = inuse \cup {h} /\ root' = root \cup {h}
        /\ cd' = [cd EXCEPT ![h] = n] /\ open' = [open EXCEPT ![n] = h]
        /\ nonblock' = IF nb THEN nonblock \cup {h} ELSE nonblock
        /\ UNCHANGED <<proc, child, sweeping, stray>>
    BY <1>2 DEF OpenReturn
  <2> HIDE DEF n
  <2>3. /\ call'[t] = Idle /\ \A u \in Thread : u # t => call'[u] = call[u]
        /\ open'[n] = h /\ \A m \in Fd : m # n => open'[m] = open[m]
        /\ cd'[h] = n /\ \A g \in Fraw : g # h => cd'[g] = cd[g]
    BY <1>0, <2>1, <2>2 DEF Typed
  <2>4. Typed'
    BY <1>0, <2>1, <2>2 DEF Typed
  <2>5. Swept'
    BY <1>0, <2>2, <2>3 DEF Swept
  <2>6. ASSUME NEW u \in Thread, call[u].op \in Blocking  PROVE h \notin call[u].H
    BY <1>0, <2>6 DEF Swept
  <2>7. CallsCurrent'
    BY <1>0, <2>3, <2>6, CallKinds DEF CallsCurrent, Blocking
  <2>8. ReturnsWhatItTook'
    BY <1>0, <2>2, <2>3, <2>6 DEF ReturnsWhatItTook, Blocking
  <2>9. Children' /\ OnlyItsOwn'
    BY <2>2 DEF Children, OnlyItsOwn
  <2>10. Descriptors'
    <3>1. 0 \in Fd /\ h # "stdin" /\ h \notin Thread /\ n # INVALID /\ t \notin Fraw /\ t # "stdin"
      BY <2>1 DEF Fd, INVALID, FilesAssumption
    <3>2. open'[0] = "stdin"
      BY <2>1, <2>3, <3>1 DEF Descriptors
    <3>3. ASSUME NEW g \in inuse' \cap Fraw, cd'[g] # INVALID
          PROVE  cd'[g] # 0 /\ open'[cd'[g]] = g
      <4>1. CASE g = h
        BY <2>1, <2>3, <4>1
      <4>2. CASE g # h
        <5>1. cd'[g] = cd[g] /\ cd[g] # 0 /\ open[cd[g]] = g /\ cd[g] \in Fd
          BY <2>2, <2>3, <3>3, <4>2 DEF Descriptors, Typed
        <5> QED
          BY <2>1, <2>3, <3>1, <5>1
      <4> QED
        BY <4>1, <4>2
    <3>4. ASSUME NEW u \in Thread, call'[u].op = "open", call'[u].fd # INVALID
          PROVE  call'[u].fd # 0 /\ open'[call'[u].fd] = u
      <4>1. u # t /\ call'[u] = call[u]
        BY <1>0, <2>3, <3>4
      <4>2. call[u].fd # 0 /\ open[call[u].fd] = u /\ call[u].fd \in Fd
        BY <3>4, <4>1, CallKinds DEF Descriptors, Blocking
      <4> QED
        BY <2>1, <2>3, <4>1, <4>2
    <3>5. ASSUME NEW m \in Fd \ {0}
          PROVE  /\ open'[m] # "stdin"
                 /\ open'[m] \in Fraw => open'[m] \in inuse' /\ cd'[open'[m]] = m
                 /\ open'[m] \in Thread =>
                      call'[open'[m]].op = "open" /\ call'[open'[m]].fd = m
      <4>1. CASE m = n
        BY <2>2, <2>3, <3>1, <4>1
      <4>2. CASE m # n
        <5>1. open'[m] = open[m] /\ open[m] # h /\ open[m] # t
          <6>1. open[m] = t => call[t].fd = m
            BY DEF Descriptors
          <6> QED
            BY <1>0, <2>3, <4>2, <6>1 DEF Descriptors, n
        <5> QED
          BY <2>2, <2>3, <5>1 DEF Descriptors
      <4> QED
        BY <4>1, <4>2
    <3> QED
      BY <3>2, <3>3, <3>4, <3>5 DEF Descriptors
  <2> QED
    BY <2>4, <2>5, <2>7, <2>8, <2>9, <2>10
<1> QED
  BY <1>1, <1>2

\* A program binds a pipe of a process to a symbol, or lets go of a handle.
LEMMA RootsKeep ==
  ASSUME FilesAssumption, DestroyFirst = TRUE, FilesInv, NEW t \in Thread,
         \/ \E p \in Procia : PipeHandle(t, p)
         \/ \E x \in Fraw \cup Procia : Unbind(t, x)
  PROVE  FilesInv'
<1> USE DEF FilesInv
<1>1. UNCHANGED <<inuse, cd, nonblock, proc, open, child, call, sweeping, stray>> /\ sweeping = {}
  BY DEF PipeHandle, Unbind, Running, Quiet
<1>2. /\ Typed' /\ Descriptors' /\ Children' /\ CallsCurrent' /\ ReturnsWhatItTook' /\ OnlyItsOwn'
  BY <1>1 DEF Typed, Descriptors, Children, CallsCurrent, ReturnsWhatItTook, OnlyItsOwn
<1>3. root' \subseteq inuse
  BY DEF PipeHandle, Unbind, Swept
<1>4. ASSUME NEW p \in Procia, proc[p] # NoProcess  PROVE p \in root'
  <2>1. p \in root
    BY <1>4 DEF Swept
  <2> QED
    BY <1>4, <2>1 DEF PipeHandle, Unbind
<1>5. Swept'
  BY <1>1, <1>3, <1>4 DEF Swept
<1> QED
  BY <1>2, <1>5

\* A child that cannot be started leaves nothing open.
LEMMA FailsKeeps == ASSUME FilesInv, NEW t \in Thread, ProciaFails(t)  PROVE FilesInv'
<1>1. UNCHANGED filevars
  BY DEF ProciaFails, AfterFailure, filevars
<1> QED
  BY <1>1 DEF filevars, FilesInv, Typed, Swept, Descriptors, Children, CallsCurrent,
              ReturnsWhatItTook, OnlyItsOwn

---------------------------------------------------------------------------
\* A handle in use closes its own descriptor.
LEMMA NoStray ==
  ASSUME FilesInv, NEW h \in inuse \cap Fraw
  PROVE  ~Strays(h)
BY DEF FilesInv, Descriptors, Strays, Fd, INVALID

\* Handles K are closed: their descriptors become free.
LEMMA Closes ==
  ASSUME FilesAssumption, FilesInv, NEW K \in SUBSET (inuse \cap Fraw),
         \A m \in Fd : open'[m] = IF \E h \in K : cd[h] = m THEN Nobody ELSE open[m],
         \A g \in Fraw \ K : cd'[g] = cd[g],
         \A h \in K : cd'[h] = INVALID \/ h \notin inuse',
         inuse' \subseteq inuse, (inuse \cap Fraw) \ K \subseteq inuse',
         call' = call
  PROVE  Descriptors'
<1> USE DEF FilesInv
<1>0. /\ 0 \in Fd /\ INVALID \notin Fd /\ Nobody \notin Fraw /\ Nobody \notin Thread
      /\ Nobody # "stdin" /\ Fraw \cap Thread = {}
  BY DEF Fd, INVALID, FilesAssumption, Nobody
<1>1. \A h \in K : cd[h] \in Fd => cd[h] # 0 /\ open[cd[h]] = h
  BY <1>0 DEF Descriptors
<1>2. open'[0] = "stdin"
  BY <1>0, <1>1 DEF Descriptors
<1>3. ASSUME NEW g \in inuse' \cap Fraw, cd'[g] # INVALID
      PROVE  cd'[g] # 0 /\ open'[cd'[g]] = g
  <2>1. g \notin K /\ cd'[g] = cd[g] /\ g \in inuse
    BY <1>3
  <2>2. cd[g] # 0 /\ open[cd[g]] = g /\ cd[g] \in Fd
    BY <1>3, <2>1 DEF Descriptors, Typed
  <2>3. ~ \E h \in K : cd[h] = cd[g]
    BY <1>1, <2>1, <2>2
  <2> QED
    BY <2>1, <2>2, <2>3
<1>4. ASSUME NEW u \in Thread, call'[u].op = "open", call'[u].fd # INVALID
      PROVE  call'[u].fd # 0 /\ open'[call'[u].fd] = u
  <2>1. call[u].fd # 0 /\ open[call[u].fd] = u /\ call[u].fd \in Fd
    BY <1>4, CallKinds DEF Descriptors, Blocking
  <2>2. ~ \E h \in K : cd[h] = call[u].fd
    BY <1>0, <1>1, <2>1
  <2> QED
    BY <2>1, <2>2
<1>5. ASSUME NEW m \in Fd \ {0}
      PROVE  /\ open'[m] # "stdin"
             /\ open'[m] \in Fraw => open'[m] \in inuse' /\ cd'[open'[m]] = m
             /\ open'[m] \in Thread =>
                  call'[open'[m]].op = "open" /\ call'[open'[m]].fd = m
  <2>1. CASE \E h \in K : cd[h] = m
    BY <1>0, <2>1
  <2>2. CASE ~ \E h \in K : cd[h] = m
    <3>1. open'[m] = open[m]
      BY <2>2
    <3>2. open[m] \in Fraw => open[m] \in inuse /\ cd[open[m]] = m /\ open[m] \notin K
      BY <2>2 DEF Descriptors
    <3> QED
      BY <3>1, <3>2 DEF Descriptors
  <2> QED
    BY <2>1, <2>2
<1> QED
  BY <1>2, <1>3, <1>4, <1>5 DEF Descriptors

\* Closing a file frees its own descriptor.
LEMMA CloseKeepsAll ==
  ASSUME FilesAssumption, FilesInv, NEW t \in Thread, NEW h \in Fraw, CloseFraw(t, h)
  PROVE  FilesInv'
<1> USE DEF FilesInv
<1>1. h \in inuse /\ cd[h] \in Fd /\ cd' = [cd EXCEPT ![h] = INVALID] /\ nonblock' = nonblock \ {h}
      /\ open' = [open EXCEPT ![cd[h]] = Nobody] /\ sweeping = {}
      /\ UNCHANGED <<inuse, proc, child, root, call, sweeping>>
  BY DEF CloseFraw, ClosedCd, Closed, Swept, Typed, Running, Quiet
<1>2. \A u \in Thread : call[u].op \in Blocking => h \notin call[u].H
  BY DEF CloseFraw, Busy, Blocking
<1>3. Typed'
  BY <1>1 DEF Typed
<1>4. Swept' /\ Children'
  BY <1>1 DEF Swept, Children
<1>5. Descriptors'
  <2> DEFINE K == {h}
  <2>1. \A m \in Fd : open'[m] = IF \E g \in K : cd[g] = m THEN Nobody ELSE open[m]
    BY <1>1 DEF Typed
  <2>2. (\A g \in Fraw \ K : cd'[g] = cd[g]) /\ (\A g \in K : cd'[g] = INVALID)
    BY <1>1 DEF Typed
  <2>3. K \in SUBSET (inuse \cap Fraw)
    BY <1>1
  <2> HIDE DEF K
  <2> QED
    BY <1>1, <2>1, <2>2, <2>3, Closes
<1>6. CallsCurrent'
  BY <1>1, <1>2, CallKinds DEF CallsCurrent, Typed, Blocking
<1>7. ReturnsWhatItTook'
  BY <1>1, <1>2 DEF ReturnsWhatItTook, Blocking
<1>8. OnlyItsOwn'
  BY <1>1, NoStray DEF CloseFraw, OnlyItsOwn
<1> QED
  BY <1>3, <1>4, <1>5, <1>6, <1>7, <1>8

\* The sweep closes the descriptor of the block that it reclaims.
LEMMA SweepKeeps ==
  ASSUME FilesAssumption, FilesInv, NEW h \in Fraw, SweepFraw(h)
  PROVE  FilesInv'
<1> USE DEF FilesInv
<1>1. /\ h \in inuse /\ h \in sweeping /\ cd[h] \in Fd \cup {INVALID} /\ INVALID \notin Fd
      /\ cd' = [cd EXCEPT ![h] = 0] /\ nonblock' = nonblock \ {h}
      /\ inuse' = inuse \ {h} /\ sweeping' = sweeping \ {h}
      /\ UNCHANGED <<proc, child, root, call>> /\ 0 \in Fd
  BY DEF SweepFraw, Swept, Typed, Fd, INVALID, FilesAssumption
<1>2. \A u \in Thread : call[u].op \in Blocking => h \notin call[u].H
  BY <1>1 DEF Swept
<1>3. \A m \in Fd : open'[m] = IF cd[h] = m THEN Nobody ELSE open[m]
  BY <1>1 DEF SweepFraw, Closed, Typed
<1>4. Typed'
  <2>1. open' \in [Fd -> Fraw \cup Thread \cup {"stdin", Nobody}]
    BY <1>1 DEF SweepFraw, Closed, Typed
  <2> QED
    BY <1>1, <2>1 DEF Typed
<1>5. Swept'
  BY <1>1, <1>2 DEF Swept
<1>6. Children'
  BY <1>1 DEF Children
<1>7. Descriptors'
  <2> DEFINE K == {h}
  <2>1. \A m \in Fd : open'[m] = IF \E g \in K : cd[g] = m THEN Nobody ELSE open[m]
    BY <1>3
  <2>2. (\A g \in Fraw \ K : cd'[g] = cd[g]) /\ (\A g \in K : g \notin inuse')
    BY <1>1 DEF Typed
  <2>3. K \in SUBSET (inuse \cap Fraw) /\ (inuse \cap Fraw) \ K \subseteq inuse'
    BY <1>1
  <2> HIDE DEF K
  <2> QED
    BY <1>1, <2>1, <2>2, <2>3, Closes
<1>8. CallsCurrent'
  BY <1>1, <1>2, CallKinds DEF CallsCurrent, Typed, Blocking
<1>9. ReturnsWhatItTook'
  BY <1>1, <1>2 DEF ReturnsWhatItTook, Blocking
<1>10. OnlyItsOwn'
  BY <1>1, NoStray DEF SweepFraw, OnlyItsOwn
<1> QED
  BY <1>4, <1>5, <1>6, <1>7, <1>8, <1>9, <1>10

\* A process that is swept has been destroyed.
LEMMA SweepProciaKeeps ==
  ASSUME FilesAssumption, FilesInv, NEW p \in Procia, SweepProcia(p)
  PROVE  FilesInv'
<1> USE DEF FilesInv
<1>1. proc[p] = NoProcess
  BY DEF SweepProcia, Swept
<1>2. /\ UNCHANGED <<open, stray, cd, child, nonblock, root, call, proc>>
      /\ inuse' = inuse \ {p} /\ sweeping' = sweeping \ {p} /\ p \in sweeping
  <2>1. proc' = proc
    BY <1>1 DEF SweepProcia, Typed
  <2> QED
    BY <1>1, <2>1 DEF SweepProcia
<1>3. p \notin Fraw
  BY DEF FilesAssumption
<1>4. Typed' /\ Children' /\ CallsCurrent' /\ ReturnsWhatItTook' /\ OnlyItsOwn'
  BY <1>2, <1>3 DEF Typed, Children, CallsCurrent, ReturnsWhatItTook, OnlyItsOwn
<1>5. Swept'
  <2>1. \A u \in Thread : call[u].op \in Blocking => p \notin call[u].H
    BY <1>2 DEF Swept
  <2>2. p \notin root
    BY <1>2 DEF Swept
  <2>3. \A q \in Procia : proc[q] # NoProcess => {proc[q].wp, proc[q].rp} \subseteq Fraw
    BY DEF Typed
  <2> QED
    BY <1>2, <1>3, <2>1, <2>2, <2>3 DEF Swept
<1>6. Descriptors'
  BY <1>2, <1>3 DEF Descriptors
<1> QED
  BY <1>4, <1>5, <1>6

\* Destroying a process closes its two descriptors.
LEMMA DestroyKeeps ==
  ASSUME FilesAssumption, FilesInv, NEW t \in Thread, NEW p \in Procia, ProciaDestroy(t, p)
  PROVE  FilesInv'
<1> USE DEF FilesInv
<1> DEFINE w == proc[p].wp
           r == proc[p].rp
           K == {w, r}
<1>1. proc[p] # NoProcess /\ sweeping = {} /\ UNCHANGED <<inuse, nonblock, root, call, sweeping>>
      /\ proc' = [proc EXCEPT ![p] = NoProcess]
  BY DEF ProciaDestroy, Running, Quiet
<1>2. proc[p].cpid \in Pid /\ w \in Fraw \cap inuse /\ r \in Fraw \cap inuse
  BY <1>1 DEF Typed, Swept
<1>3. /\ open' = Closed(Closed(open, w), r)
      /\ stray' = (stray \/ Strays(w) \/ Strays(r))
      /\ cd' = [cd EXCEPT ![w] = INVALID, ![r] = INVALID]
      /\ child' = [child EXCEPT ![proc[p].cpid] = "none"]
  BY DEF ProciaDestroy, CleanProcia, Killed
<1>4. \A u \in Thread : call[u].op \in Blocking => w \notin call[u].H /\ r \notin call[u].H
  BY DEF ProciaDestroy, Busy, Blocking
<1> HIDE DEF w, r, K
<1>5. /\ cd[w] \in Fd \cup {INVALID} /\ cd[r] \in Fd \cup {INVALID} /\ INVALID \notin Fd
  BY <1>2 DEF Typed, Fd, INVALID
<1>6. \A m \in Fd : open'[m] = IF cd[w] = m \/ cd[r] = m THEN Nobody ELSE open[m]
  BY <1>3, <1>5 DEF Closed, Typed
<1>7. Typed'
  <2>1. open' \in [Fd -> Fraw \cup Thread \cup {"stdin", Nobody}]
    BY <1>3, <1>5 DEF Closed, Typed
  <2> QED
    BY <1>1, <1>2, <1>3, <2>1 DEF Typed
<1>8. \A q \in Procia : q # p => proc'[q] = proc[q]
  BY <1>1 DEF Typed
<1>9. proc'[p] = NoProcess
  BY <1>1 DEF Typed
<1>10. Swept'
  BY <1>1, <1>8, <1>9 DEF Swept
<1>11. Children'
  <2>1. child'[proc[p].cpid] = "none" /\ \A i \in Pid : i # proc[p].cpid => child'[i] = child[i]
    BY <1>2, <1>3 DEF Typed
  <2>2. \A q \in Procia : proc'[q] # NoProcess =>
          q # p /\ proc[q] # NoProcess /\ proc'[q] = proc[q] /\ proc[q].cpid \in Pid
    BY <1>8, <1>9 DEF Typed
  <2>3. \A q \in Procia : proc'[q] # NoProcess => child'[proc'[q].cpid] # "none"
    BY <1>1, <2>1, <2>2 DEF Children
  <2>4. ASSUME NEW i \in Pid, child'[i] # "none"
        PROVE  \E q \in Procia : proc'[q] # NoProcess /\ proc'[q].cpid = i
    <3>1. i # proc[p].cpid /\ child[i] # "none"
      BY <2>1, <2>4
    <3>2. PICK q \in Procia : proc[q] # NoProcess /\ proc[q].cpid = i
      BY <3>1 DEF Children
    <3> QED
      BY <1>8, <3>1, <3>2
  <2> QED
    BY <2>2, <2>3, <2>4 DEF Children
<1>12. Descriptors'
  <2>1. \A m \in Fd : open'[m] = IF \E g \in K : cd[g] = m THEN Nobody ELSE open[m]
    BY <1>6 DEF K
  <2>2. (\A g \in Fraw \ K : cd'[g] = cd[g]) /\ (\A g \in K : cd'[g] = INVALID)
    BY <1>2, <1>3 DEF Typed, K
  <2>3. K \in SUBSET (inuse \cap Fraw)
    BY <1>2 DEF K
  <2> QED
    BY <1>1, <2>1, <2>2, <2>3, Closes
<1>13. CallsCurrent'
  <2>1. \A g \in Fraw : g # w /\ g # r => cd'[g] = cd[g]
    BY <1>2, <1>3 DEF Typed
  <2> QED
    BY <1>1, <1>4, <2>1, CallKinds DEF CallsCurrent, Blocking
<1>14. ReturnsWhatItTook'
  BY <1>1 DEF ReturnsWhatItTook
<1>15. OnlyItsOwn'
  BY <1>2, <1>3, NoStray DEF OnlyItsOwn
<1> QED
  BY <1>7, <1>10, <1>11, <1>12, <1>13, <1>14, <1>15

\* Two of the four descriptors of the pipes stay open, for the two handles.
LEMMA CreateKeeps ==
  ASSUME FilesAssumption, FilesInv, NEW t \in Thread, NEW p \in Procia,
         NEW w \in Fraw, NEW r \in Fraw, NEW i \in Pid, ProciaCreate(t, p, w, r, i)
  PROVE  FilesInv'
<1> USE DEF FilesInv
<1> DEFINE a == Min(Free)
           b == Min(Free \ {a})
           c == Min(Free \ {a, b})
<1>1. /\ p \notin inuse /\ w \notin inuse /\ r \notin inuse /\ w # r /\ child[i] = "none"
      /\ Cardinality(Free) >= 4 /\ sweeping = {}
      /\ inuse' = inuse \cup {p, w, r} /\ root' = root \cup {p}
      /\ cd' = [cd EXCEPT ![w] = b, ![r] = c] /\ open' = [open EXCEPT ![b] = w, ![c] = r]
      /\ proc' = [proc EXCEPT ![p] = [cpid |-> i, wp |-> w, rp |-> r]]
      /\ child' = [child EXCEPT ![i] = "running"]
      /\ UNCHANGED <<nonblock, call, sweeping, stray>>
  BY DEF ProciaCreate, Running, Quiet
<1> HIDE DEF a, b, c
<1>2. IsFiniteSet(Free)
  <2>1. IsFiniteSet(Fd) /\ Free \in SUBSET Fd
    BY FS_Interval DEF Fd, Free, FilesAssumption
  <2> QED
    BY <2>1, FS_Subset
<1>3. Free \ {a} # {} /\ Free \ {a, b} # {}
  <2>1. /\ IsFiniteSet(Free \ {a})
        /\ Cardinality(Free \ {a}) = IF a \in Free THEN Cardinality(Free) - 1 ELSE Cardinality(Free)
    BY <1>2, FS_RemoveElement
  <2>2. /\ IsFiniteSet((Free \ {a}) \ {b})
        /\ Cardinality((Free \ {a}) \ {b}) =
             IF b \in Free \ {a} THEN Cardinality(Free \ {a}) - 1 ELSE Cardinality(Free \ {a})
    BY <2>1, FS_RemoveElement
  <2>3. Cardinality(Free) \in Nat
    BY <1>2, FS_CardinalityType
  <2>4. Cardinality(Free \ {a}) >= 3 /\ Cardinality((Free \ {a}) \ {b}) >= 2
    BY <1>1, <2>1, <2>2, <2>3
  <2>5. Cardinality({}) = 0
    BY FS_EmptySet
  <2>6. (Free \ {a}) \ {b} = Free \ {a, b}
    OBVIOUS
  <2> QED
    BY <2>4, <2>5, <2>6
<1>4. /\ b \in Fd \ {0} /\ open[b] = Nobody /\ c \in Fd \ {0} /\ open[c] = Nobody /\ c # b
  BY <1>3, FreeDescriptor DEF b, c
<1>5. /\ open'[b] = w /\ open'[c] = r /\ \A m \in Fd : m # b /\ m # c => open'[m] = open[m]
      /\ cd'[w] = b /\ cd'[r] = c /\ \A g \in Fraw : g # w /\ g # r => cd'[g] = cd[g]
      /\ proc'[p] = [cpid |-> i, wp |-> w, rp |-> r] /\ \A q \in Procia : q # p => proc'[q] = proc[q]
  BY <1>1, <1>4 DEF Typed
<1>6. proc'[p] \in [cpid : Pid, wp : Fraw, rp : Fraw]
      /\ proc'[p].cpid = i /\ proc'[p].wp = w /\ proc'[p].rp = r
  BY <1>5
<1>7. proc'[p] # NoProcess /\ p \notin Fraw
  BY <1>6 DEF FilesAssumption
<1>8. Typed'
  BY <1>1, <1>4, <1>5, <1>6 DEF Typed
<1>9. Swept'
  <2>1. ASSUME NEW q \in Procia, proc'[q] # NoProcess
        PROVE  q \in root' /\ {proc'[q].wp, proc'[q].rp} \subseteq inuse' \ sweeping'
    <3>1. CASE q = p
      BY <1>1, <1>6, <3>1
    <3>2. CASE q # p
      BY <1>1, <1>5, <2>1, <3>2 DEF Swept
    <3> QED
      BY <3>1, <3>2
  <2> QED
    BY <1>1, <2>1 DEF Swept
<1>10. Children'
  <2>1. child'[i] = "running" /\ \A j \in Pid : j # i => child'[j] = child[j]
    BY <1>1 DEF Typed
  <2>2. \A q \in Procia : q # p /\ proc'[q] # NoProcess =>
          proc'[q] = proc[q] /\ proc[q] # NoProcess /\ proc[q].cpid \in Pid /\ proc[q].cpid # i
    BY <1>1, <1>5 DEF Typed, Children
  <2>3. \A q \in Procia : proc'[q] # NoProcess => child'[proc'[q].cpid] # "none"
    BY <1>6, <2>1, <2>2 DEF Children
  <2>4. \A q, s \in Procia :
          proc'[q] # NoProcess /\ proc'[s] # NoProcess /\ proc'[q].cpid = proc'[s].cpid => q = s
    BY <1>6, <2>2 DEF Children
  <2>5. ASSUME NEW j \in Pid, child'[j] # "none"
        PROVE  \E q \in Procia : proc'[q] # NoProcess /\ proc'[q].cpid = j
    <3>1. CASE j = i
      BY <1>6, <1>7, <3>1
    <3>2. CASE j # i
      <4>1. PICK q \in Procia : proc[q] # NoProcess /\ proc[q].cpid = j
        BY <2>1, <2>5, <3>2 DEF Children
      <4>2. q # p
        BY <1>1, <4>1 DEF Swept
      <4> QED
        BY <1>5, <4>1, <4>2
    <3> QED
      BY <3>1, <3>2
  <2> QED
    BY <2>3, <2>4, <2>5 DEF Children
<1>11. Descriptors'
  <2>1. /\ 0 \in Fd /\ INVALID \notin Fd /\ w # "stdin" /\ r # "stdin" /\ Nobody \notin Fraw
        /\ w \notin Thread /\ r \notin Thread /\ Nobody \notin Thread
    BY DEF Fd, INVALID, FilesAssumption
  <2>2. open'[0] = "stdin"
    BY <1>4, <1>5, <2>1 DEF Descriptors
  <2>3. ASSUME NEW g \in inuse' \cap Fraw, cd'[g] # INVALID
        PROVE  cd'[g] # 0 /\ open'[cd'[g]] = g
    <3>1. CASE g = w \/ g = r
      BY <1>4, <1>5, <3>1
    <3>2. CASE g # w /\ g # r
      <4>1. g \in inuse /\ cd'[g] = cd[g]
        BY <1>1, <1>5, <1>7, <3>2
      <4>2. cd[g] # 0 /\ open[cd[g]] = g /\ cd[g] \in Fd
        BY <2>3, <4>1 DEF Descriptors, Typed
      <4>3. cd[g] # b /\ cd[g] # c
        BY <1>4, <2>1, <4>2
      <4> QED
        BY <1>5, <4>1, <4>2, <4>3
    <3> QED
      BY <3>1, <3>2
  <2>4. ASSUME NEW u \in Thread, call'[u].op = "open", call'[u].fd # INVALID
        PROVE  call'[u].fd # 0 /\ open'[call'[u].fd] = u
    <3>1. call[u].fd # 0 /\ open[call[u].fd] = u /\ call[u].fd \in Fd /\ call'[u] = call[u]
      BY <1>1, <2>4, CallKinds DEF Descriptors, Blocking
    <3>2. call[u].fd # b /\ call[u].fd # c
      BY <1>4, <2>1, <3>1
    <3> QED
      BY <1>5, <3>1, <3>2
  <2>5. ASSUME NEW m \in Fd \ {0}
        PROVE  /\ open'[m] # "stdin"
               /\ open'[m] \in Fraw => open'[m] \in inuse' /\ cd'[open'[m]] = m
               /\ open'[m] \in Thread =>
                    call'[open'[m]].op = "open" /\ call'[open'[m]].fd = m
    <3>1. CASE m = b \/ m = c
      <4>1. w \in inuse' /\ r \in inuse'
        BY <1>1
      <4>2. CASE m = b
        BY <1>5, <2>1, <4>1, <4>2
      <4>3. CASE m = c
        BY <1>5, <2>1, <4>1, <4>3
      <4> QED
        BY <3>1, <4>2, <4>3
    <3>2. CASE m # b /\ m # c
      <4>1. open'[m] = open[m] /\ call' = call
        BY <1>1, <1>5, <3>2
      <4>2. open[m] \in Fraw => open[m] \in inuse /\ cd[open[m]] = m /\ open[m] # w /\ open[m] # r
        BY <1>1 DEF Descriptors
      <4>3. open[m] \in Fraw => cd'[open[m]] = m
        BY <1>5, <4>2
      <4> QED
        BY <1>1, <4>1, <4>2, <4>3 DEF Descriptors
    <3> QED
      BY <3>1, <3>2
  <2> QED
    BY <2>2, <2>3, <2>4, <2>5 DEF Descriptors
<1>12. CallsCurrent'
  <2>1. \A u \in Thread : call[u].op \in Blocking => w \notin call[u].H /\ r \notin call[u].H
    BY <1>1 DEF Swept
  <2>2. ASSUME NEW u \in Thread, call[u].op \in Blocking, NEW h \in call[u].H
        PROVE  cd'[h] = call[u].fd[h] /\ cd'[h] # INVALID
    <3>1. h \in Fraw
      BY <2>2, CallKinds DEF Blocking
    <3>2. h # w /\ h # r
      BY <2>1, <2>2
    <3> QED
      BY <1>5, <2>2, <3>1, <3>2 DEF CallsCurrent
  <2>3. call' = call
    BY <1>1
  <2> QED
    BY <2>2, <2>3 DEF CallsCurrent
<1>13. ReturnsWhatItTook' /\ OnlyItsOwn'
  BY <1>1 DEF ReturnsWhatItTook, OnlyItsOwn
<1> QED
  BY <1>8, <1>9, <1>10, <1>11, <1>12, <1>13

---------------------------------------------------------------------------
\* Every step keeps the invariant.
LEMMA NextKeeps ==
  ASSUME FilesAssumption, DestroyFirst = TRUE, FilesInv, [FilesNext]_filevars
  PROVE  FilesInv'
<1>1. CASE CollectFiles
  BY <1>1, CollectKeeps
<1>2. ASSUME NEW h \in Fraw, SweepFraw(h)  PROVE FilesInv'
  BY <1>2, SweepKeeps
<1>3. ASSUME NEW p \in Procia, SweepProcia(p)  PROVE FilesInv'
  BY <1>3, SweepProciaKeeps
<1>4. ASSUME NEW i \in Pid, ChildExits(i)  PROVE FilesInv'
  BY <1>4, ExitKeeps
<1>5. ASSUME NEW t \in Thread, OpenCall(t) \/ OpenSys(t)  PROVE FilesInv'
  BY <1>5, OpenCallKeeps, OpenSysKeeps
<1>6. ASSUME NEW t \in Thread, NEW h \in Fraw, CloseFraw(t, h)  PROVE FilesInv'
  BY <1>6, CloseKeepsAll
<1>7. ASSUME NEW t \in Thread, NEW h \in Fraw, NEW nb \in BOOLEAN, OpenReturn(t, h, nb)
      PROVE  FilesInv'
  BY <1>7, OpenReturnKeeps
<1>8. ASSUME NEW t \in Thread, NEW op \in Blocking, NEW H \in SUBSET Fraw, Blocked(t, op, H)
      PROVE  FilesInv'
  BY <1>8, BlockedKeeps
<1>9. ASSUME NEW t \in Thread, NEW br \in 0 .. MaxTaken, ReadSys(t, br)  PROVE FilesInv'
  BY <1>9, ReadKeeps
<1>10. ASSUME NEW t \in Thread, ReadAgain(t) \/ BlockReturn(t) \/ ProciaFails(t)  PROVE FilesInv'
  BY <1>10, AgainKeeps, ReturnKeeps, FailsKeeps
<1>11. ASSUME NEW t \in Thread, NEW p \in Procia, PipeHandle(t, p) \/ ProciaDestroy(t, p)
       PROVE  FilesInv'
  BY <1>11, RootsKeep, DestroyKeeps
<1>12. ASSUME NEW t \in Thread, NEW p \in Procia, NEW w \in Fraw, NEW r \in Fraw, NEW i \in Pid,
              ProciaCreate(t, p, w, r, i)
       PROVE  FilesInv'
  BY <1>12, CreateKeeps
<1>13. ASSUME NEW t \in Thread, NEW x \in Fraw \cup Procia, Unbind(t, x)  PROVE FilesInv'
  BY <1>13, RootsKeep
<1>14. CASE UNCHANGED filevars
  BY <1>14 DEF filevars, FilesInv, Typed, Swept, Descriptors, Children, CallsCurrent,
               ReturnsWhatItTook, OnlyItsOwn
<1>15. "read" \in Blocking /\ "write" \in Blocking /\ "select" \in Blocking
       /\ \A h \in Fraw : {h} \in SUBSET Fraw
  BY DEF Blocking
<1> QED
  BY <1>1, <1>2, <1>3, <1>4, <1>5, <1>6, <1>7, <1>8, <1>9, <1>10, <1>11, <1>12, <1>13, <1>14,
     <1>15 DEF FilesNext

\* Every open descriptor belongs to a block, or to the call that opens it.
LEMMA OwnersAreKnown ==
  ASSUME FilesAssumption, FilesInv
  PROVE  EveryFileOwned
<1> USE DEF FilesInv
<1>1. ASSUME NEW n \in Fd \ {0}, open[n] # Nobody
      PROVE  \/ open[n] \in inuse /\ cd[open[n]] = n
             \/ open[n] \in Thread /\ call[open[n]].op = "open" /\ call[open[n]].fd = n
  BY <1>1 DEF Typed, Descriptors
<1> QED
  BY <1>1 DEF EveryFileOwned, Descriptors

\* A child that runs has one handle.
LEMMA OneHandlePerChild ==
  ASSUME FilesInv
  PROVE  ChildrenOwned
<1> USE DEF FilesInv
<1> SUFFICES ASSUME NEW i \in Pid
             PROVE  Cardinality({p \in inuse \cap Procia : proc[p] # NoProcess /\ proc[p].cpid = i})
                      = IF child[i] = "none" THEN 0 ELSE 1
  BY DEF ChildrenOwned
<1> DEFINE S == {p \in inuse \cap Procia : proc[p] # NoProcess /\ proc[p].cpid = i}
<1>1. CASE child[i] = "none"
  <2>1. S = {}
    BY <1>1 DEF Children
  <2> QED
    BY <1>1, <2>1, FS_EmptySet
<1>2. CASE child[i] # "none"
  <2>1. PICK p \in Procia : proc[p] # NoProcess /\ proc[p].cpid = i
    BY <1>2 DEF Children
  <2>2. p \in inuse
    BY <2>1 DEF Swept
  <2>3. S = {p}
    BY <2>1, <2>2 DEF Children
  <2> QED
    BY <1>2, <2>3, FS_Singleton
<1> QED
  BY <1>1, <1>2

\* Programs that let go of a process only after procia-destroy: every descriptor and
\* every child has one owner, and closing or freeing a handle touches nothing but its
\* own (nfunc_sys.c:65-146, 605-672, 768-887).
THEOREM EveryFileIsOwned ==
  ASSUME FilesAssumption, DestroyFirst = TRUE
  PROVE  FilesSpec => []FilesOwned
<1>1. FilesInit => FilesInv
  BY InitHolds
<1>2. FilesInv /\ [FilesNext]_filevars => FilesInv'
  BY NextKeeps
<1>3. FilesInv => FilesOwned
  BY OwnersAreKnown, OneHandlePerChild DEF FilesOwned, FilesInv
<1> QED
  BY <1>1, <1>2, <1>3, PTL DEF FilesSpec

\* A call that blocks keeps the files it was called for, and fraw-read loses no byte of
\* a blocking file (nfunc_sys.c:902-1084).
THEOREM BlockedCallsKeepFiles ==
  ASSUME FilesAssumption, DestroyFirst = TRUE
  PROVE  FilesSpec => []CallsKeepFiles
<1>1. FilesInit => FilesInv
  BY InitHolds
<1>2. FilesInv /\ [FilesNext]_filevars => FilesInv'
  BY NextKeeps
<1>3. FilesInv => CallsKeepFiles
  <2> SUFFICES ASSUME FilesInv, NEW t \in Thread, call[t].op \in {"read", "write", "select"},
                      NEW h \in call[t].H
               PROVE  cd[h] = call[t].fd[h] /\ open[cd[h]] = h
    BY DEF CallsKeepFiles, KeepsFiles, FilesInv
  <2>1. h \in inuse /\ h \in Fraw
    BY CallKinds DEF FilesInv, Swept, Blocking
  <2> QED
    BY <2>1 DEF FilesInv, CallsCurrent, Descriptors, Blocking
<1> QED
  BY <1>1, <1>2, <1>3, PTL DEF FilesSpec
---------------------------------------------------------------------------
(* The evaluations in progress.  Their number is a sum over the threads of  *)
(* the context; what a thread does changes the last term.                   *)

\* The sums of the first items of a sequence.
Sums(s, f) == f = [i \in 0..Len(s) |-> IF i = 0 THEN 0 ELSE f[i - 1] + s[i]]

\* The recursive function of SumOf exists: it is the last of its own prefixes.
LEMMA SumsExist ==
  ASSUME NEW s
  PROVE  Len(s) \in Nat => \E f : Sums(s, f)
<1> DEFINE Step(f, i) == IF i = 0 THEN 0 ELSE f[i - 1] + s[i]
           P == {m \in Nat : \E f : f = [i \in 0..m |-> Step(f, i)]}
<1>1. 0 \in P
  <2> DEFINE f == [i \in 0..0 |-> 0]
  <2>1. f = [i \in 0..0 |-> Step(f, i)]
    OBVIOUS
  <2> HIDE DEF f, Step
  <2> QED
    BY <2>1
<1>2. ASSUME NEW m \in P PROVE m + 1 \in P
  <2>1. PICK f : f = [i \in 0..m |-> Step(f, i)]
    OBVIOUS
  <2> DEFINE g == [i \in 0..m + 1 |-> IF i = m + 1 THEN f[m] + s[m + 1] ELSE f[i]]
  <2>2. /\ m \in Nat /\ m + 1 # 0 /\ m + 1 - 1 = m /\ m \in 0..m + 1 /\ m # m + 1
        /\ m + 1 \in 0..m + 1
    OBVIOUS
  <2>3. ASSUME NEW i \in 0..m + 1 PROVE g[i] = Step(g, i)
    <3>1. CASE i = m + 1
      BY <2>2, <3>1
    <3>2. CASE i # m + 1
      <4>1. i \in 0..m /\ (i # 0 => i - 1 \in 0..m + 1 /\ i - 1 # m + 1)
        BY <3>2
      <4>2. g[i] = f[i] /\ (i # 0 => g[i - 1] = f[i - 1])
        BY <3>2, <4>1
      <4>3. f[i] = Step(f, i)
        BY <2>1, <4>1
      <4> HIDE DEF g
      <4> QED
        BY <4>2, <4>3
    <3> QED
      BY <3>1, <3>2
  <2>4. g = [i \in 0..m + 1 |-> g[i]]
    OBVIOUS
  <2> HIDE DEF g, Step
  <2>5. g = [i \in 0..m + 1 |-> Step(g, i)]
    BY <2>3, <2>4
  <2> QED
    BY <2>2, <2>5
<1> HIDE DEF P
<1>3. Len(s) \in Nat => Len(s) \in P
  BY <1>1, <1>2, AllNaturals
<1> QED
  BY <1>3 DEF P, Sums

\* The sum is the last of the sums.
LEMMA SumIsLast ==
  ASSUME NEW s, Len(s) \in Nat
  PROVE  \E f : Sums(s, f) /\ SumOf(s) = f[Len(s)]
<1> DEFINE h == CHOOSE f : f = [i \in 0..Len(s) |-> IF i = 0 THEN 0 ELSE f[i - 1] + s[i]]
<1>1. Sums(s, h)
  BY SumsExist DEF Sums
<1>2. SumOf(s) = h[Len(s)]
  BY DEF SumOf
<1> QED
  BY <1>1, <1>2

\* Two sequences that agree up to n have the same sums up to n.
LEMMA SameSums ==
  ASSUME NEW s, NEW t, NEW f, NEW g, NEW n \in Nat, Sums(s, f), Sums(t, g),
         Len(s) \in Nat, Len(t) \in Nat, n <= Len(s), n <= Len(t), \A i \in 1..n : s[i] = t[i]
  PROVE  f[n] = g[n]
<1> DEFINE P == {m \in Nat : m <= n => f[m] = g[m]}
<1>1. 0 \in P
  BY DEF Sums
<1>2. ASSUME NEW m \in P PROVE m + 1 \in P
  <2> SUFFICES ASSUME m + 1 <= n PROVE f[m + 1] = g[m + 1]
    OBVIOUS
  <2>1. /\ m \in Nat /\ m <= n /\ m + 1 \in 0..Len(s) /\ m + 1 \in 0..Len(t) /\ m + 1 \in 1..n
        /\ m + 1 # 0 /\ m + 1 - 1 = m
    OBVIOUS
  <2>2. f[m + 1] = f[m] + s[m + 1] /\ g[m + 1] = g[m] + t[m + 1]
    BY <2>1 DEF Sums
  <2> QED
    BY <2>1, <2>2
<1> HIDE DEF P
<1>3. \A m \in Nat : m \in P
  BY <1>1, <1>2, AllNaturals
<1> QED
  BY <1>3 DEF P

\* The sum of nothing, ...
LEMMA SumOfNone == SumOf(<<>>) = 0
<1>1. Len(<<>>) = 0
  OBVIOUS
<1>2. PICK f : Sums(<<>>, f) /\ SumOf(<<>>) = f[0]
  BY <1>1, SumIsLast
<1> QED
  BY <1>1, <1>2 DEF Sums

\* ... and of one more.
LEMMA SumOfOneMore ==
  ASSUME NEW S, NEW s \in Seq(S), NEW x
  PROVE  SumOf(Append(s, x)) = SumOf(s) + x
<1> DEFINE t == Append(s, x)
           n == Len(s)
<1>1. n \in Nat /\ Len(t) = n + 1 /\ t[n + 1] = x /\ \A i \in 1..n : s[i] = t[i]
  OBVIOUS
<1> HIDE DEF t
<1>2. PICK f : Sums(s, f) /\ SumOf(s) = f[n]
  BY SumIsLast
<1>3. PICK g : Sums(t, g) /\ SumOf(t) = g[n + 1]
  BY <1>1, SumIsLast
<1>4. f[n] = g[n]
  BY <1>1, <1>2, <1>3, SameSums
<1>5. n + 1 \in 0..Len(t) /\ n + 1 # 0 /\ n + 1 - 1 = n
  BY <1>1
<1>6. g[n + 1] = g[n] + x
  BY <1>1, <1>3, <1>5 DEF Sums
<1> QED
  BY <1>2, <1>3, <1>4, <1>6 DEF t

\* A sum of numbers is a number, and as many times the greatest of them at most.
LEMMA SumOfNaturals ==
  ASSUME NEW M \in Nat, NEW s \in Seq(0..M)
  PROVE  SumOf(s) \in 0..Len(s) * M
<1> DEFINE n == Len(s)
<1>1. n \in Nat /\ \A i \in 1..n : s[i] \in 0..M
  OBVIOUS
<1>2. PICK f : Sums(s, f) /\ SumOf(s) = f[n]
  BY SumIsLast
<1> DEFINE P == {m \in Nat : m <= n => f[m] \in 0..m * M}
<1>3. 0 \in P
  BY <1>1, <1>2 DEF Sums
<1>4. ASSUME NEW m \in P PROVE m + 1 \in P
  <2> SUFFICES ASSUME m + 1 <= n PROVE f[m + 1] \in 0..(m + 1) * M
    OBVIOUS
  <2>1. /\ m \in Nat /\ m <= n /\ m + 1 \in 0..n /\ m + 1 \in 1..n
        /\ m + 1 # 0 /\ m + 1 - 1 = m
    BY <1>1
  <2>2. f[m + 1] = f[m] + s[m + 1]
    BY <1>2, <2>1 DEF Sums
  <2>3. (m + 1) * M = m * M + M
    BY <2>1
  <2> DEFINE k == m * M
  <2>4. k \in Nat /\ f[m] \in 0..k
    BY <2>1
  <2> HIDE DEF k
  <2>5. f[m] + s[m + 1] \in 0..k + M
    BY <1>1, <2>1, <2>4
  <2> QED
    BY <2>2, <2>3, <2>5 DEF k
<1> HIDE DEF P
<1>5. \A m \in Nat : m \in P
  BY <1>3, <1>4, AllNaturals
<1> QED
  BY <1>1, <1>2, <1>5 DEF P

\* Interpretations that an evaluation starts do not fail; the run's counterpart is
\* FailDepth = 1.  With more, the failing thread empties the stack of the outer ones.
OnlyOutermostFails == FailDepth <= 1

\* The topmost thread and the others.
LEMMA TopAndOuter ==
  ASSUME threads \in Seq(0..MaxFrames), Depth > 0, EvalAssumption
  PROVE  /\ Depth \in Nat \ {0} /\ Len(Outer) = Depth - 1
         /\ Outer \in Seq(0..MaxFrames) /\ Top \in 0..MaxFrames
         /\ SumOf(Outer) \in Nat /\ Frames = SumOf(Outer) + Top
         /\ \A y \in 0..MaxFrames :
              /\ [threads EXCEPT ![Depth] = y] \in Seq(0..MaxFrames)
              /\ Len([threads EXCEPT ![Depth] = y]) = Depth
              /\ [threads EXCEPT ![Depth] = y][Depth] = y
              /\ SumOf([threads EXCEPT ![Depth] = y]) = SumOf(Outer) + y
<1> DEFINE S == 0..MaxFrames
<1>0. threads \in Seq(S)
  OBVIOUS
<1> HIDE DEF S
<1>1. PICK n \in Nat : n = Depth - 1 /\ Depth = n + 1
  BY DEF Depth
<1>2. 1 \in Nat \ {0} /\ n <= Len(threads) /\ 1 <= n + 1
  BY <1>1 DEF Depth
<1> DEFINE o == SubSeq(threads, 1, n)
<1>3. /\ o \in Seq(S) /\ Len(o) = n - 1 + 1
      /\ \A i \in 1..n - 1 + 1 : o[i] = threads[1 + i - 1]
  BY <1>0, <1>2, PartOf
<1>4. n - 1 + 1 = n /\ \A i \in 1..n : 1 + i - 1 = i
  OBVIOUS
<1>5. Len(o) = n /\ \A i \in 1..n : o[i] = threads[i]
  BY <1>3, <1>4
<1>6. o = Outer
  BY <1>1 DEF Outer
<1> HIDE DEF o
<1>7. threads[n + 1] \in S /\ Top = threads[n + 1]
  <2>1. n + 1 \in 1..Len(threads)
    BY <1>1 DEF Depth
  <2>2. \A i \in 1..Len(threads) : threads[i] \in S
    BY <1>0, LenProperties
  <2>3. Top = threads[n + 1]
    BY <1>1 DEF Top
  <2> QED
    BY <2>1, <2>2, <2>3
<1>8. MaxFrames \in Nat
  BY DEF EvalAssumption
<1>9. SumOf(o) \in Nat
  <2>1. SumOf(o) \in 0..Len(o) * MaxFrames
    BY <1>3, <1>8, SumOfNaturals DEF S
  <2> DEFINE k == Len(o) * MaxFrames
  <2> HIDE DEF k
  <2>2. SumOf(o) \in 0..k
    BY <2>1 DEF k
  <2> QED
    BY <2>2
<1>10. ASSUME NEW t \in Seq(S), Len(t) = n + 1, \A i \in 1..n : t[i] = threads[i]
       PROVE  SumOf(t) = SumOf(o) + t[n + 1]
  <2> DEFINE a == Append(o, t[n + 1])
  <2>1. t[n + 1] \in S
    <3>1. n + 1 \in 1..Len(t)
      BY <1>10
    <3> QED
      BY <1>10, <3>1, LenProperties
  <2>2. a \in Seq(S) /\ Len(a) = n + 1 /\ a[n + 1] = t[n + 1] /\ \A i \in 1..n : a[i] = o[i]
    BY <1>3, <1>5, <2>1
  <2> HIDE DEF a
  <2>3. \A i \in 1..n + 1 : i \in 1..n \/ i = n + 1
    OBVIOUS
  <2>4. \A i \in 1..n + 1 : t[i] = a[i]
    BY <1>5, <1>10, <2>2, <2>3
  <2>5. t = a
    BY <1>10, <2>2, <2>4, SameItems
  <2> QED
    BY <1>3, <2>5, SumOfOneMore DEF a
<1>11. Frames = SumOf(o) + Top
  <2>1. Len(threads) = n + 1
    BY <1>1 DEF Depth
  <2>2. \A i \in 1..n : threads[i] = threads[i]
    OBVIOUS
  <2>3. SumOf(threads) = SumOf(o) + threads[n + 1]
    BY <1>0, <1>10, <2>1, <2>2
  <2> QED
    BY <1>7, <2>3 DEF Frames
<1>12. ASSUME NEW y \in S
       PROVE  /\ [threads EXCEPT ![Depth] = y] \in Seq(S)
              /\ Len([threads EXCEPT ![Depth] = y]) = Depth
              /\ [threads EXCEPT ![Depth] = y][Depth] = y
              /\ SumOf([threads EXCEPT ![Depth] = y]) = SumOf(o) + y
  <2> DEFINE t == [threads EXCEPT ![n + 1] = y]
  <2>1. Len(threads) = n + 1 /\ n + 1 \in 1..Len(threads)
    BY <1>1 DEF Depth
  <2>2. t \in Seq(S) /\ Len(t) = n + 1
    BY <1>0, <2>1
  <2>3. t[n + 1] = y
    BY <2>1
  <2>4. \A i \in 1..n : t[i] = threads[i]
    BY <2>1
  <2> HIDE DEF t
  <2>5. SumOf(t) = SumOf(o) + y
    BY <1>10, <2>2, <2>3, <2>4
  <2> QED
    BY <1>1, <2>2, <2>3, <2>5 DEF t
<1> QED
  BY <1>1, <1>3, <1>5, <1>6, <1>7, <1>9, <1>11, <1>12 DEF S

\* Every step of an evaluation keeps its invariant.
LEMMA EvalInvariance ==
  ASSUME EvalAssumption, OnlyOutermostFails
  PROVE  EvalSpec => []EvalInv
<1>0. /\ MaxDepth \in Nat \ {0} /\ MaxFrames \in Nat /\ MaxRequests \in Nat
      /\ FailDepth \in Nat /\ FailDepth <= 1
  BY DEF EvalAssumption, OnlyOutermostFails
<1>1. EvalInit => EvalInv
  <2> SUFFICES ASSUME EvalInit PROVE EvalInv
    OBVIOUS
  <2>1. threads = <<>> /\ Len(<<>>) = 0 /\ <<>> \in Seq(0..MaxFrames) /\ Depth = 0
    BY DEF EvalInit, Depth
  <2>2. Frames = 0
    BY <2>1, SumOfNone DEF Frames
  <2>3. at = "eval" /\ evalstk = 0 /\ bbs = 0 /\ InTail = 0 /\ aborted = FALSE /\ requests = 0
    BY DEF EvalInit, InTail
  <2> QED
    BY <1>0, <2>1, <2>2, <2>3 DEF EvalInv, OperandsProtected
<1>2. EvalInv /\ [EvalNext]_evalvars => EvalInv'
  <2> SUFFICES ASSUME EvalInv, [EvalNext]_evalvars PROVE EvalInv'
    OBVIOUS
  <2> DEFINE others == SumOf(Outer)
  <2>1. /\ threads \in Seq(0..MaxFrames) /\ Depth \in Nat /\ Depth <= MaxDepth
        /\ at \in {"eval", "tail"} /\ (at = "tail" => Depth > 0 /\ Top > 0)
        /\ evalstk \in Nat /\ evalstk + InTail = Frames
        /\ bbs \in Nat /\ bbs >= 2 * Frames - InTail
        /\ requests \in 0..MaxRequests /\ aborted = FALSE
    BY DEF EvalInv, OperandsProtected, Depth
  <2>2. Depth > 0 =>
          /\ Len(Outer) = Depth - 1 /\ Outer \in Seq(0..MaxFrames) /\ Top \in 0..MaxFrames
          /\ others \in Nat /\ Frames = others + Top
          /\ \A y \in 0..MaxFrames :
               /\ [threads EXCEPT ![Depth] = y] \in Seq(0..MaxFrames)
               /\ Len([threads EXCEPT ![Depth] = y]) = Depth
               /\ [threads EXCEPT ![Depth] = y][Depth] = y
               /\ SumOf([threads EXCEPT ![Depth] = y]) = others + y
    BY <2>1, TopAndOuter
  <2>3. InTail = (IF at = "tail" THEN 1 ELSE 0) /\ InTail' = (IF at' = "tail" THEN 1 ELSE 0)
    BY DEF InTail
  <2>4. Depth' = Len(threads') /\ Frames' = SumOf(threads')
    BY DEF Depth, Frames
  <2> HIDE DEF others
  <2>5. CASE Request
    <3>1. threads' = <<0>> /\ evalstk' = 0 /\ at' = at /\ bbs' = bbs /\ aborted' = aborted
          /\ requests < MaxRequests /\ requests' = requests + 1 /\ threads = <<>> /\ Depth = 0
      BY <2>5 DEF Request, Depth
    <3>2. at = "eval" /\ Frames = 0
      BY <2>1, <3>1, SumOfNone DEF Frames
    <3>3. <<0>> = Append(<<>>, 0) /\ <<>> \in Seq(0..MaxFrames) /\ <<0>> \in Seq(0..MaxFrames)
          /\ Len(<<0>>) = 1
      BY <1>0
    <3>4. SumOf(<<0>>) = 0
      <4>1. SumOf(Append(<<>>, 0)) = SumOf(<<>>) + 0
        BY <3>3, SumOfOneMore
      <4> QED
        BY <3>3, <4>1, SumOfNone
    <3> QED
      BY <1>0, <2>1, <2>3, <2>4, <3>1, <3>2, <3>3, <3>4 DEF EvalInv, OperandsProtected
  \* The other actions are the topmost thread's.
  <2>6. ASSUME Depth > 0, NEW y \in 0..MaxFrames, threads' = [threads EXCEPT ![Depth] = y]
        PROVE  /\ threads' \in Seq(0..MaxFrames) /\ Depth' = Depth /\ Top' = y
               /\ Frames' = others + y
    BY <2>2, <2>4, <2>6 DEF Top
  <2>7. CASE EvalEnter
    <3>1. /\ Depth > 0 /\ at = "eval" /\ at' = at /\ Top < MaxFrames
          /\ threads' = [threads EXCEPT ![Depth] = Top + 1]
          /\ evalstk' = evalstk + 1 /\ bbs' = bbs + 2
          /\ requests' = requests /\ aborted' = aborted
      BY <2>7 DEF EvalEnter, Top
    <3>2. Top + 1 \in 0..MaxFrames
      BY <1>0, <2>2, <3>1
    <3>3. /\ threads' \in Seq(0..MaxFrames) /\ Depth' = Depth /\ Top' = Top + 1
          /\ Frames' = others + (Top + 1)
      BY <2>6, <3>1, <3>2
    <3>4. InTail = 0 /\ InTail' = 0
      BY <2>3, <3>1
    <3>5. /\ evalstk' \in Nat /\ evalstk' + InTail' = Frames'
          /\ bbs' \in Nat /\ bbs' >= 2 * Frames' - InTail'
      <4>1. others \in Nat /\ Top \in Nat /\ evalstk = others + Top /\ bbs >= 2 * (others + Top)
        BY <2>1, <2>2, <3>1, <3>4
      <4>2. evalstk + 1 = others + (Top + 1) /\ bbs + 2 >= 2 * (others + (Top + 1))
        BY <2>1, <4>1
      <4> QED
        BY <2>1, <3>1, <3>3, <3>4, <4>2
    <3> QED
      BY <2>1, <3>1, <3>3, <3>5 DEF EvalInv, OperandsProtected
  <2>8. CASE EvalLeave
    <3>1. Depth > 0 /\ at = "eval" /\ Top > 0 /\ threads' = threads /\ requests' = requests
          /\ bbs' = bbs - 2 + 1
      BY <2>8 DEF EvalLeave
    <3>2. InTail = 0 /\ evalstk = others + Top /\ evalstk > 0 /\ Frames \in Nat
      BY <2>1, <2>2, <2>3, <3>1
    <3>3. evalstk' = evalstk - 1 /\ at' = "tail" /\ aborted' = aborted
      BY <2>8, <3>2 DEF EvalLeave
    <3>4. InTail' = 1 /\ Depth' = Depth /\ Top' = Top /\ Frames' = Frames
      BY <2>3, <3>1, <3>3 DEF Depth, Top, Frames
    <3>5. /\ evalstk' \in Nat /\ evalstk' + InTail' = Frames'
          /\ bbs' \in Nat /\ bbs' >= 2 * Frames' - InTail'
      <4>1. others \in Nat /\ Top \in Nat /\ Top > 0 /\ Frames = others + Top
        BY <2>2, <3>1
      <4>2. Frames >= 1 /\ bbs >= 2 * Frames /\ bbs \in Nat
        BY <2>1, <3>2, <4>1
      <4>3. bbs - 2 + 1 \in Nat /\ bbs - 2 + 1 >= 2 * Frames - 1
        BY <3>2, <4>2
      <4>4. evalstk - 1 \in Nat /\ evalstk - 1 + 1 = Frames
        BY <3>2, <4>1
      <4> QED
        BY <3>1, <3>3, <3>4, <4>3, <4>4
    <3> QED
      BY <2>1, <3>1, <3>3, <3>4, <3>5 DEF EvalInv, OperandsProtected
  <2>9. CASE EvalReturn
    <3>1. /\ Depth > 0 /\ at = "tail" /\ at' = "eval" /\ bbs' = bbs - 1
          /\ threads' = [threads EXCEPT ![Depth] = Top - 1]
          /\ evalstk' = evalstk /\ requests' = requests /\ aborted' = aborted
      BY <2>9 DEF EvalReturn, Top
    <3>2. Top > 0 /\ Top - 1 \in 0..MaxFrames
      <4>1. Top > 0 /\ Top \in 0..MaxFrames
        BY <2>1, <2>2, <3>1
      <4> QED
        BY <1>0, <4>1
    <3>3. /\ threads' \in Seq(0..MaxFrames) /\ Depth' = Depth /\ Top' = Top - 1
          /\ Frames' = others + (Top - 1)
      BY <2>6, <3>1, <3>2
    <3>4. InTail = 1 /\ InTail' = 0
      BY <2>3, <3>1
    <3>5. /\ evalstk' \in Nat /\ evalstk' + InTail' = Frames'
          /\ bbs' \in Nat /\ bbs' >= 2 * Frames' - InTail'
      <4>1. /\ others \in Nat /\ Top \in Nat \ {0} /\ evalstk + 1 = others + Top
            /\ bbs >= 2 * (others + Top) - 1
        BY <2>1, <2>2, <3>1, <3>2, <3>4
      <4>2. evalstk \in Nat /\ bbs \in Nat
        BY <2>1
      <4>3. /\ evalstk = others + (Top - 1)
            /\ bbs - 1 \in Nat /\ bbs - 1 >= 2 * (others + (Top - 1))
        BY <4>1, <4>2
      <4> QED
        BY <3>1, <3>3, <3>4, <4>2, <4>3
    <3> QED
      BY <2>1, <3>1, <3>3, <3>5 DEF EvalInv, OperandsProtected
  <2>10. CASE Nest
    <3>1. /\ Depth > 0 /\ Depth < MaxDepth /\ at = "eval" /\ at' = at
          /\ threads' = Append(threads, 0) /\ evalstk' = evalstk /\ bbs' = bbs
          /\ requests' = requests /\ aborted' = aborted
      BY <2>10 DEF Nest
    <3>2. threads' \in Seq(0..MaxFrames) /\ Depth' = Depth + 1
      BY <1>0, <2>1, <2>4, <3>1 DEF Depth
    <3>3. Frames' = Frames + 0 /\ Frames \in Nat
      BY <2>1, <2>2, <2>4, <3>1, SumOfOneMore DEF Frames
    <3>4. InTail = 0 /\ InTail' = 0 /\ Frames' = Frames
      BY <2>3, <3>1, <3>3
    <3> QED
      BY <1>0, <2>1, <3>1, <3>2, <3>4 DEF EvalInv, OperandsProtected
  <2>11. CASE Complete
    <3>1. /\ Depth > 0 /\ Top = 0 /\ at = "eval" /\ at' = at
          /\ threads' = Outer /\ evalstk' = evalstk /\ bbs' = bbs
          /\ requests' = requests /\ aborted' = aborted
      BY <2>11 DEF Complete
    <3>2. threads' \in Seq(0..MaxFrames) /\ Depth' = Depth - 1 /\ Frames' = Frames
      BY <2>2, <2>4, <3>1 DEF others
    <3>3. InTail = 0 /\ InTail' = 0
      BY <2>3, <3>1
    <3> QED
      BY <1>0, <2>1, <3>1, <3>2, <3>3 DEF EvalInv, OperandsProtected
  <2>12. CASE GiveUp
    <3>1. /\ Depth > 0 /\ Depth <= FailDepth /\ at' = "eval"
          /\ threads' = Outer /\ evalstk' = 0 /\ bbs' = bbs
          /\ requests' = requests /\ aborted' = aborted
      BY <2>12 DEF GiveUp
    <3>2. threads' \in Seq(0..MaxFrames) /\ Depth' = 0
      BY <1>0, <2>1, <2>2, <2>4, <3>1
    <3>3. threads' = <<>>
      BY <2>4, <3>2, EmptySeq DEF Depth
    <3>4. Frames' = 0 /\ InTail' = 0
      BY <2>3, <2>4, <3>1, <3>3, SumOfNone
    <3> QED
      BY <1>0, <2>1, <3>1, <3>2, <3>4 DEF EvalInv, OperandsProtected
  <2>13. CASE UNCHANGED evalvars
    <3>1. threads' = threads /\ UNCHANGED <<at, evalstk, bbs, requests, aborted>>
      BY <2>13 DEF evalvars
    <3>2. Depth' = Depth /\ Top' = Top /\ Frames' = Frames /\ InTail' = InTail
      BY <3>1 DEF Depth, Top, Frames, InTail
    <3> QED
      BY <2>1, <3>1, <3>2 DEF EvalInv, OperandsProtected
  <2> QED
    BY <2>5, <2>7, <2>8, <2>9, <2>10, <2>11, <2>12, <2>13 DEF EvalNext, Over
<1> QED
  BY <1>1, <1>2, PTL DEF EvalSpec

\* The evaluation stack holds exactly the evaluations in progress, whose operands or result
\* are among the base blocks, however deep evaluations and interpretations nest
\* (sfunc.c:639-654, 674-682).
THEOREM EvaluationsAreProtected ==
  ASSUME EvalAssumption, OnlyOutermostFails
  PROVE  EvalSpec => []FramesProtected
<1>1. EvalInv => FramesProtected
  <2> SUFFICES ASSUME EvalInv PROVE FramesProtected
    OBVIOUS
  <2>1. MaxDepth \in Nat /\ MaxFrames \in Nat
    BY DEF EvalAssumption
  <2>2. /\ threads \in Seq(0..MaxFrames) /\ Depth \in Nat /\ Depth <= MaxDepth
        /\ evalstk \in Nat /\ evalstk + InTail = Frames /\ InTail \in {0, 1}
    BY DEF EvalInv, Depth, InTail
  <2>3. Frames \in 0..Depth * MaxFrames
    <3>1. SumOf(threads) \in 0..Len(threads) * MaxFrames
      BY <2>1, <2>2, SumOfNaturals
    <3> QED
      BY <3>1 DEF Frames, Depth
  <2>4. PICK d \in Nat : MaxDepth = Depth + d
    <3>1. MaxDepth - Depth \in Nat /\ MaxDepth = Depth + (MaxDepth - Depth)
      BY <2>1, <2>2
    <3> QED
      BY <3>1
  <2>5. MaxDepth * MaxFrames = Depth * MaxFrames + d * MaxFrames
    BY <2>1, <2>2, <2>4
  <2> DEFINE low == Depth * MaxFrames
             rest == d * MaxFrames
             all == MaxDepth * MaxFrames
  <2>6. low \in Nat /\ rest \in Nat
    BY <2>1, <2>2
  <2>7. Frames \in 0..low /\ all = low + rest
    BY <2>3, <2>5
  <2> HIDE DEF low, rest, all
  <2>8. evalstk \in 0..all
    BY <2>2, <2>6, <2>7
  <2> QED
    <3>1. EvalTypeOK
      BY <2>8 DEF all, EvalInv, EvalTypeOK
    <3> QED
      BY <3>1 DEF EvalInv, FramesProtected, StackIsFrames
<1> QED
  BY <1>1, EvalInvariance, PTL

=============================================================================
