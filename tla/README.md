# TLA+ models of ylisp

ylisp is a lisp interpreter written in C: a library (`src/ylisp`), two sets of
native functions (`src/ylbase`, `src/ylext`), a daemon (`src/yld`), a Java front
end (`src/yljfe`), a small command-line program (`src/ylr`) and libraries in
the language itself (`src/yls`).  Several requests are evaluated at the same
time, each in threads of its own, over one pool of memory blocks with a
mark-and-sweep collector, one global symbol table, and blocking native functions
that own processes and files.  That is where the code is hard to test, and what
the modules here are about first.

Contents: [Inventory](#inventory), [Modules](#modules), [Runs](#runs),
[Properties that fail](#properties-that-fail), [Proofs](#proofs),
[What is only model-checked](#what-is-only-model-checked),
[What is left out](#what-is-left-out), [Plan](#plan).

## Inventory

| Component | State | Operations | Hard behaviour | What makes it correct |
|---|---|---|---|---|
| Block table (`blktbl.h`) | array of pointers, border between used and free, an index in each block | get, put, walk of the used part | the sweep puts blocks back while it walks | each unmarked block is freed once, no other; pointers and indices stay inverse |
| Pool and collector (`mempool.c`) | the table, usage, `gc_enable`, base blocks | allocate, collect, switch on and off | decides on a usage that others change; must run alone | nobody evaluates during a collection; what is in use survives it |
| Evaluation threads (`mthread.c`) | list of contexts, their state and signal, `_m`, the condition variable | add, remove, safe, unsafe, kill | the last safe thread collects; waits, kills and removals race | no lost wake-up, no deadlock, no abandoned lock, kills take effect |
| Process resources (`mthread.c`, `nfunc_sys.c`) | list of (resource, close function) per context | register, unlist, close all | list shared by its thread, the killer and the base thread | each resource is closed once, by the end of the request |
| Requests (`interpret.c`) | context, stacks of evaluations and of threads | interpret, nest, complete, fail | a failing thread just exits | the stacks describe what is still running |
| Evaluator (`sfunc.c`) | association lists, base blocks | `yleval`, `set` and others | blocks held across an evaluation | held blocks are registered, and only while they are held |
| Symbol tables (`symlookup.c`, `gsym.c`) | trie of (expression, description) | set, unset, describe, get | set and help are two locked steps | a description is owned once and belongs to its value |
| Trie (`trie.c`) | nodes of half characters | insert, delete, walk, complete | deletion of empty branches | it is a map, without dead branches |
| Daemon (`src/yld`) | one connection | receive packets, dispatch each to a thread, parse, execute, send | a thread per packet, one socket, three calls to the symbol table for a completion | packets stay whole and mean what was sent; a completion is answered whatever else runs |
| Java front end (`src/yljfe`) | the answer that was kept, the lock of the user interface | send a request, wait, read | the answer may come before the wait, the wait end without one | the answer that is used is that of the question |
| Host interface (`lisp.c`) | saved collector switch | `ylreadv_*`, registration of native functions | several readers | what is read is not collected, the switch comes back |
| Libraries (`nfunc.c`, `libmain.c`) | reference counts of the loader, symbols bound to functions | load, unload, interpret a file | unloading while functions are held; errors in nested files | code that can be called is mapped; files are closed |
| Parser (`parser.c`) | stack of automata, lists under construction | feed characters | hand-over of characters between automata, escapes, end of stream | accepts the grammar and evaluates what was written |
| Printing (`lisp.c`, `ut.c`) | the pairs being printed | print | expressions that refer to themselves | it ends; cycles are reported; what is a tree can be read again |
| List, stack, buffer (`yllist.h`, `stack.h`, `yldynb.h`) | pointers, arrays that double | add, delete, loop; push, pop, remove; append, print, rewrite | deletion inside a loop, growth | nothing is lost, nothing outside is touched |
| Arrays (`nfunc_arr.c`) | elements, a lock each | get, set, compare, visit | two locks at once, elements read twice and used after unlocking | no deadlock; the collector never waits; an access uses what it has locked |
| Maps (`nfunc_map.c`, `hash.c`) | a trie or a hash table, a lock each | make, insert, delete, get, print, compare | rehashing, values evaluated meanwhile | a map is a map, also at the change of its size |
| Files and processes (`nfunc_sys.c`) | descriptors and children in blocks | open, read, write, close, fork, kill | finalizers run in the sweep, in any order; blocked calls | each descriptor is closed once, by its owner |
| Strings (`nfunc_str.c`, `nfunc_re.c`, `nfunc_bin.c`) | positions in a text | search, cut, split, replace | ends of the text, growth of the result | the result is what its definition says |

How they interact.  Every `yleval`, nested ones included, ends with a safe point (`sfunc.c:663-683`):
`ylmt_notify_safe` sets a flag under `_m` and calls the listeners of `mempool.c`,
which wait on the condition variable, or, if every context on the list is safe,
collect and broadcast.  `sh`, `fread` and nested `interpret` calls open a safe
point of their own around what blocks.  The collector marks from the symbol
tables and the base blocks and sweeps the block table.  The thread that is
killed, the thread that kills and the *base thread* that joins the
interpreting thread all touch the context.  The daemon calls the library from
a thread per packet, and the library calls back into the daemon to print.

## Modules

Each definition that models code is listed with its lines under "map" in
`PROJECT.json`.  The constants of a module come with named assumptions.  The
definitions under the comment *Wrong versions* are no part of a model: they are
mistakes a programmer could have made, and `PROJECT.json` ("mutants") says by
which property each is found.

* `BlockPool` – what the pool promises: allocate, start a collection with any set
  of live blocks, take the others back one by one.
* `BlockTable` – `blktbl.h` and the sweep of `mempool.c`: the pointer array `fbp`,
  the border `fbi`, the index in each block.  One action per call, and one per round
  of the sweep loop (`Keep`, `Reclaim`); marking is any choice of a set.
  Refines `BlockPool`.
* `StopTheWorld` – what the threads promise: threads run or do not, a collection runs
  only when none does.
* `SafePoint` – `mthread.c` with the listeners of `mempool.c`: a context's flag, signal
  and threads, `_m` (`owner`), `_mm`, the condition variable, program counters, used blocks.
  A critical section that other threads can see half-way (between listeners, around
  the collection, before the broadcast) is several actions; one that they cannot is one.
  `Kill` may hit any context at any time; a cancelled thread dies at its
  cancellation point (`Cancelled`, `CancelledWaiting`), which in a wait means with
  `_m` locked.  `Nest`, `Exit`, `ExitSafe` are nested interpretations and the ways a
  thread fails.  The condition variable may wake up spuriously.  Refines `StopTheWorld` when
  nothing nests.
* `ProcRes` – the list of process resources of one context: `sh` step by step, the
  killer's walk, the base thread's walk, and the removal-safe iteration with its saved
  successor.  A list operation on something that is no longer listed has no defined outcome; the
  model stops there and `err` says so.  The sequential accesses to the list are atomic, their order is free.
* `EvalSteps` – the evaluation stack, the nested threads and the base blocks of one
  request.
* `EvalForms` – the evaluator itself: `yleval` with all its forms, the list functions and the native functions that
  call back into it (`apply`, `progn`, `f-case`, `f-while`, `f-let` ...), as functions from a world to a world.
  A world has the blocks, shared and changed in place as in the code, the symbols and the base blocks, and a
  collection runs at the end of *every* `yleval`, so that whatever the code forgets to protect is gone.
* `LispMeaning` – the same language over trees, without blocks, collections or clones; programs are evaluated by both.
* `GcSwitch` – `ylreadv_*` against evaluation threads that rebind the symbol and
  collect.
* `SymbolMap`, `Trie` – a partial function, and the trie that refines it.  A node is
  named by its path of half characters; a whole insertion or deletion is one action, since
  each holds the table's lock (or the table has one user).
* `Symbols` – entries and descriptions over `SymbolMap`: `set` and `help` are two actions
  each, as in the code, with anything in between.  Addresses of strings are
  explicit, so that a leak or a dangling pointer is a state.
* `TrieCopy` – comparison, walk and copy of a whole trie.
* `AutoComp` – a completion request over `Trie`, in its three calls.
* `Framing` – packets on the connection between daemon and front end, `sock_send` at one end and
  `sock_recv` at the other.  The front end's `Sock.java` does the same in two steps, but goes on after a
  short read and takes what is left for the next size.
* `Dispatch`, `FrontEnd` – the daemon above its socket: a thread per packet, `pdu_parse`, the commands, printing with
  the buffer that is enlarged; and the Java front end, whose user interface sends a question, then waits for the answer
  that another thread reads.  `FrontEnd` extends `Dispatch` by that other end.  The wait is in no loop, so it may end with no
  answer (`WakeUp`), and an interrupt gives the question up (`Interrupted`).  `late` is for the properties only: it is true
  once a wait has ended so, until a question is asked when no other question or answer is under way.  A send may fail,
  a completion's too (`Unsent`), and an assertion of `_cmd_autocomp` may end the daemon (`CandidatesChanged`).
* `Files` – raw files and interactive processes as blocks with finalizers: descriptors are the small numbers the system
  hands out again, calls that block are two actions with a collection or another call in between, every
  system call may fail.  `DestroyFirst` says that programs destroy a process before they drop its handle.
* `Loading` – `load-cnf`, `unload-cnf` and `interpret-file` with the loader's counts.
* `Parser`, `Grammar` – the automata of `parser.c` on a stack, a character per step; and the language as a recursive
  descent over the whole text, a function of its places.
* `Printer` – printing with the table of pairs being printed, on every graph of a few pairs.
* `Links`, `Stack`, `Buffers`, `Growing` – `yllist.h`, `stack.h` with the base-block operations of `mempool.c`, and
  `yldynb.h` with the printing of `ut.c`.  A link taken off a list keeps its stale pointers.
  `Growing` puts the two that live in a block that is doubled next to each other.
* `RwLocks`, `Arrays`, `Maps`, `Containers` – read-write locks of threads, and the two kinds of containers that use them.  A call is
  the sequence of its locks, accesses and unlocks; the collector is one more party, which runs when nobody evaluates.
  Which calls a thread may make is its *program*, listed in `MCContainers`; there `"set below"` is an assignment through several indices.
  An access through several indices tests an element (`Test`), locks it (`LockInner`) and reads it again to go on (`Descend`), a step each;
  any element that fits the layers may be stored at any depth.  Comparisons of arrays, and of maps whose values are maps, are a stack of frames, one for each
  recursion of `yleq`.  Maps of both kinds meet in a comparison: what the trie's comparison makes of a hash table has no defined
  outcome, and the call stays where it is (`"lost"`), as does an access that goes on into what is no array.
  What the collector marks from an array is the smallest set closed under `Contents` (`Reached`).
* `HashMap` – chains, hash values and the change of the table's size.  Refines a map.
* `Strings` – searching, trimming, splitting and replacing, a round of a loop per step.
* `MemoryProofs` (block table, symbol tables, libraries and files, lists, stacks and buffers), `SafePointProofs`,
  `ProcResProofs`, `RequestProofs` (collector switch, files and processes, evaluation steps),
  `DaemonProofs` (framing, dispatch and front end, trie and completion), `ContainersProofs` (arrays and maps, hash table)
  and `TextProofs` (strings, printer, reader) hold the theorems, and `DataLemmas`
  what several of them need to know of sequences, finite sets and minima.

`MC...` modules extend or instantiate these and define the values a `.cfg` cannot (`GcSwitch` and `ProcRes` need
none: their `.cfg` runs them as they are).  Modules that share no state are
checked side by side in one run: `MCTables` (what the core is made of), `MCRequests` (what evaluating threads hold),
`MCLanguage` (read, evaluate, print), `MCDaemon` (everything at the connection) and `MCContainers`.  A variable `part`,
chosen at the start, says which of them takes its steps; the states add up and do not multiply.  A property of such a run is the conjunction of
the properties of the modules that belong together; each conjunct has its own wrong version.

Simplifications a reader should know of:

* `SafePoint` leaves out the closing of resources in a kill (that is `ProcRes`) and treats a
  kill without target, or a second request to a thread with a pending cancel, as
  no step.  Whether the collector is switched on is a free choice (the switch is
  `GcSwitch`).  Creating an inner thread and pushing it on the stack is one step: the outer one
  is not safe at that time, so a kill only sets the signal.  A context is used
  for one request.  An allocation on a full pool asserts in the code and is no
  step; the bound on blocks is chosen so that this does not hide collections.
* A thread under a flag another nesting left behind evaluates until the tail safe
  point of its outer `yleval`; that is the window in which `GcExclusive` fails when interpretations nest.
* `ProcRes` does not model a cancellation at `yleval`'s own safe point, nor a kill
  of a context whose thread has ended (both are in `SafePoint`).
* In the passing run of `EvalSteps` only the outermost thread fails; the runs
  that fail show what happens otherwise.
* In `Trie` the key length limit is a constant above the keys used; completion in an empty table
  with an empty prefix, which asserts (`trie.c:513`), is not asked for.  The output
  buffer is long enough.
* `Symbols` leaves out keys the trie refuses.  In `Framing` the four bytes of a size
  travel together; closing the connection is not modelled.
* `Dispatch` and `FrontEnd` have packets whole (that is `Framing`).  What `__print` sends when its buffer was too
  small at first is any text, because the arguments are used twice (`main.c:107-145`); the model doubles the buffer at
  most four times, so texts are shorter than 16 buffers (`DispatchAssumption`).  The assertions on memory (`cmd.c:61, 68`) are left
  out, as everywhere.
* `EvalForms` has no numbers but their names, and one thread; threads share only the global symbols, whose steps are in
  `Symbols`.  A program that nests deeper than `Depth` fails as on an exhausted host stack.
* In `Files` a handle is used by one thread at a time.  Contents of a file are counted, not spelled.
* `Arrays` are layered (an array holds atoms and arrays of the layer below); an array inside itself makes
  the comparison recurse for ever in the code, and arrays of several layers inside one let it deadlock
  (see [below](#properties-that-fail)).
* No map of `Maps` is, through its values, inside itself (`Depth`), which would make a comparison recurse for ever; maps hold no
  arrays and arrays no maps, so that `Containers` puts the two side by side.  Both can be written in the language.
* Matching of a regular expression is libc's or pcre's, modelled by what it returns for literals, `c+` and `c*`.
* The mutexes are of the error-checking kind (`lisp.c:846`); no model locks one
  twice.  `_mbt_foreach_used` and `stack_foreach` compute, but do not use, an element behind the
  end of their arrays; the models do not.

## Runs

| Run | Instance | What it shows |
|---|---|---|
| `tables` | 5 blocks; 2 writers of 2 symbols and a helper; 1 library with 2 functions, files 2 deep; 4 links; stack of 1 or 2 items at first, up to 8; texts of 2 bytes | sweep and refinement of `BlockPool`; ownership of descriptions; functions stay mapped, files are closed; the list stays a ring and loops survive deletions; stack and buffer keep their contents when they grow |
| `safepoint_kill` | 3 contexts, 2 of which may be killed, no nesting, pool of 3 | exclusion, lock order, no stranded waiter, refinement of `StopTheWorld` |
| `safepoint_nest` | 3 contexts, nesting, natives that fail, pool of 2, fair | flags hold during a collection, locks have living owners, no deadlock, a waiting thread goes on |
| `procres_close` | 2 `sh` calls, 2 kills, forks that fail, a child that need not end, fair | resources are released by the end, unlisted ones are not closed, a killed request ends |
| `requests` | 1 host reader and 5 blocks; 2 requests of depth 3; 2 threads with 3 file handles, a process, 5 descriptors | what is read is in use; the evaluation stack is the list of open evaluations, all protected; no descriptor is closed for another, none is lost, blocked calls keep theirs |
| `language` | all texts of 5 characters of 10 kinds; all programs of up to 3 requests of the listed definitions and uses; all graphs of 3 pairs | the reader evaluates what the grammar says; the evaluator gives what `LispMeaning` says; macros stay as they are; printing ends and reads back |
| `daemon` | 7 keys, 2 values, 4 prefixes; pairs of tries of 4 keys; 1 sender, pieces of any size, 3-bit counter; 3 packets of one text, each handler printing at most once, sends that fail, waits that end early, fair | the trie is a map, also when it is walked, compared and copied; packets are whole and understood, and completions answered if that can be sent; the front end uses the answer to its question unless a wait has ended without one |
| `containers` | 2 threads and 5 arrays in 3 layers, up to 3 indices; 2 threads, 3 tries and a hash table of which two hold the others; 7 keys in a hash table of 2 to 8 chains; all strings of up to 5 characters of 2 or 4 kinds | no deadlock among comparisons and assignments, nothing collected is used, no map changes under its reader, the collector waits for nobody; without assignments through several indices, comparisons see one state and accesses walk through locked arrays; the hash table is a map; string functions do what they say |
| `safepoint_abandoned`, `procres_stale`, `gcswitch_freed`, `files_sweep` | | see [below](#properties-that-fail) |

Why the bounds are enough: three contexts are the least with a collector, a waiter and a
third that runs, joins or leaves meanwhile; the pool is small enough to be under pressure
often, and pressure is the same quotient as in the code.  Five blocks let the sweep
swap blocks from before, at and after its position.  The seven keys have prefixes,
shared first halves, and one of three characters whose removal climbs several
levels.  Three addresses serve two symbols and the string that is being made.  The
3-bit counter of `Framing` is larger than the longest packet, which is what
matters in the code's 32 bits; `MaxWire` and `MaxSent` only bound the instance.  Five
descriptors are the least with which a pipe pair and two files are open when a number is handed out again.  Five characters
hold a quoted list, a string with an escape, and every hand-over between two automata from each state.
Programs of three requests define two things that use each other and use them.  Graphs of three pairs have
every shape of cycle through a head or a tail, and sharing with and without.  The hash table passes each of
its three sizes in both directions, with two keys of one hash value.  Two threads suffice for the locks of arrays
and maps: a deadlock of read-write locks needs a circle of two, and a third party, the collector, is there as well.  Three layers are
the least in which an access passes an array that is neither the first nor the last on its way, with an index for each (`MaxIndices`); an
empty array differs in size from the others.  Two maps that may hold a trie and a hash table let a comparison recurse and meet both kinds.

Fairness.  In `safepoint_nest` every thread's steps out of a critical section are weakly
fair (the operating system runs it), getting `_m` is strongly fair (a mutex that is free
again and again is got), and an evaluation comes to its safe point or its end after
finitely many nested interpretations: the README of the repository calls one evaluation the atomic operation of
the system, and `yleval` ends it with a safe point.  A program that loops over
`interpret` inside one form never gets there and holds all others up; that is excluded.  Nothing is assumed of blocking native
functions, of requests that arrive, or of spurious wake-ups.  In `procres_close` the threads and the killer run,
`waitpid` returns once the child is dead, and the child itself need not end.  In the front end's part of `daemon` the
reader threads, the handler threads and the user interface run (each is a thread of the operating system that waits
only for the next packet); nothing is assumed of evaluations, which may go on for ever, and of what the user does.

`CHECK_DEADLOCK FALSE` is set in `tables`, `language`, `daemon` and `containers`, whose parts end (packets have been
sent, a text has been read, a program is through), and in `safepoint_kill`, because a thread cancelled while it waits keeps `_m` for
ever (see below).  Deadlock of the locks of arrays is therefore an invariant of its own, `NobodyStuck`.

## Properties that fail

Each of these states what a comment, an assertion or a document of the repository says,
and the code does otherwise.  Four are runs, with both sides quoted under "findings" in `PROJECT.json`:

| Run | What happens |
|---|---|
| `safepoint_abandoned` | a thread is cancelled while it waits for a collection, and dies with `_m` locked |
| `procres_stale` | the killer and the base thread close the same list of resources at once |
| `gcswitch_freed` | of two overlapping readers the first to leave switches the collector on while the second still copies |
| `files_sweep` | a process handle that was dropped is swept after the handles of its pipes, and its finalizer writes into the freed blocks |

The others are found by TLC in the same way when the property is checked with the constants given here, those not named
being as in the passing run of the module (for `SafePoint`, `safepoint_nest` where nesting is named and else `safepoint_kill`):

| Module | Property | Constants | What happens |
|---|---|---|---|
| `SafePoint` | `KilledDiesAtSafePoint` (`mthread.h:109-112`) | no `SYMMETRY` | a thread killed while safe gets no signal, comes out of its safe point and evaluates on |
| `SafePoint` | `CancelHasThread` (`stack.h:132-134`) | no `SYMMETRY` | a second kill peeks at the empty stack of threads of a finished context |
| `SafePoint` | `GcExclusive` (`README:405`) | `MaxDepth = 2` | `fread` fails inside its safe point in a nested interpretation, leaves the flag set, and the outer evaluation runs during a collection |
| `ProcRes` | `RmFindsItem` (`mthread.c:180-182`) | | after a kill closed everything, `sh` unlists the first item of an empty list |
| `EvalSteps` | `NeverPopsEmpty` (`stack.h:120-121`) | `FailDepth = 3` | a nested failure empties the evaluation stack it shares with the outer evaluation |
| `EvalSteps` | `NothingLeftBehind` (`README:452`) | | a failed evaluation leaves its base blocks registered |
| `GcSwitch` | `SwitchIsPutBack` (`lisp.c:616`) | two readers | the last of two overlapping readers restores "off" |
| `Symbols` | `DescribesShared` (`README:433-434`) | | two writers of a symbol mix value and description |
| `Symbols` | `KeepsDescription` (`lisp.h:311-312`) | no `SYMMETRY` | a set without description erases the one there was |
| `Symbols` | `HelpFindsValue` (`gsym.h:59-62`) | | a symbol is unset between the two look-ups of `help`, which uses the value unchecked |
| `AutoComp` | `SeveralCandidates` (`cmd.c:57`) | `Concurrent = TRUE` | the table changes between two calls of a completion and the assertion fails |
| `AutoComp` | `CandidatesFit` (`lisp.c:718`) | `Concurrent = TRUE` | a longer symbol is set after the buffers have been measured; the size that is passed is ignored |
| `Framing` | `WholePackets` (`socket.c:142-144`) | two senders | two threads send without a lock and mix their packets |
| `Framing` | `NeverReturns` (`yld.h:168`) | | a packet that arrives in two pieces ends the receive loop |
| `FrontEnd` | `UsesItsAnswer` (`Main.java:147-155`) | | the wait ends without an answer, in no loop, and the front end goes on with the answer to an earlier question |
| `FrontEnd` | `CompletionReturns` (`Main.java:143-151`) | | the answer is read before the user interface waits, which then waits for ever |
| `Files` | `OnlyItsOwn` | `DestroyFirst = FALSE` | the finalizer of a dropped process closes descriptor 0 for a pipe that has been swept |
| `Loading` | `UnloadTakesItsOwn` | | unloading deletes a symbol that has been set to something else since (`lisp.c:387-394`) |
| `Buffers` | `NeverGarbled` | | a text that did not fit is printed again from a used `va_list` (`ut.c:117-131`) |
| `Parser` | `EscapesOther` (`parser.c:127`) | | the table in the comment escapes any character, the code `n` and the special ones (`parser.c:569-579`) |
| `Arrays` | `NeverLost` | | while an access waits for the lock of an inner array, an assignment through several indices replaces that element, and the access goes on into what is no array (or, if it is one, into one that it has not locked) (`nfunc_arr.c:274-277`, `318-324`) |
| `Arrays` | `AlwaysStaysEqual` | | such an assignment writes an element of an array that a comparison has locked and found equal (`nfunc_arr.c:276-284`, `323-324`) |
| `Maps` | `KindsAgree` | | a trie map is compared with a hash map: `yleq` knows only that both are maps (`sfunc.c:98`), and `yltrie_equal` is called on the hash table (`nfunc_map.c:190-192`) |
| `Strings` | `NeverCrashes` | | `split-to-line` looks at the byte before a text whose first line is empty; if that is a carriage return, the length wraps (`nfunc_str.c:64-65`) |
| `Strings` | `InsideBlock` | | `replace` writes the end of a text behind its block when a longer replacement filled it (`nfunc_str.c:309-319`) |
| `Strings` | `CallsEnd` | calls with kind `"c*"`, as property of `StringsSpec` | a pattern that matches nothing is replaced for ever (`nfunc_re.c:373-462`) |

Some are conditions inside properties that hold, or inside the instance:

* `NoLeak` makes an exception for the temporary file of an `sh` whose `fork` fails, which stays open
  (`nfunc_sys.c:283-295`); `WholePackets` for sends that fail, after which the loop repeats the last byte, or
  sends nothing (`socket.c:204-207`).
* `ReturnsWhatItTook` is about files that block: on one that does not, a read that fills its buffer is asked again, fails with `EAGAIN`
  and drops what it has (`nfunc_sys.c:953-960`).
* Programs compare no arrays of different layers, and an array holds none that is two layers below it (`Element`): next to an assignment
  through two indices a comparison then locks inner arrays with the outer held in either order, and they deadlock (`nfunc_arr.c:68-93, 253-280`).
* `ComparedStaysEqual` and `WalksLocked`, two parts of `UsedSafely`, speak of programs that do not assign through several indices (`Direct`).
  An assignment that does unlocks the inner array before its element is written, with only the outermost array locked
  (`nfunc_arr.c:276-284, 320-325`); in programs with one, `AlwaysStaysEqual` and `NeverLost` fail (above).  That nothing is collected
  under its user holds in these programs, too.  `arr-get` reads its element after unlocking (`nfunc_arr.c:302`).
* `AnswerIsOurs` makes an exception for answers that a wait has given up and that were still under way when the next question was asked (`late`);
  `CompletionAnswered` for answers that cannot be sent, after which `_cmd_autocomp` returns without another word (`cmd.c:108-115`),
  and for a daemon that has ended.
* `StringsRight` is about calls that answer; `split-to-line` of a text that begins with a line feed may crash instead (`SplitCrashes`).
* `CycleReported` says nothing of pairs that are reached twice without a cycle: `(cons x x)` is reported as one when
  both are in progress (`lisp.c:499-512`).  `ReadsBack` excludes `NIL` and escaped characters, which are printed
  without their escapes.
* `LoopPassesAll` is about the loop over items (`yllist.h:152`) whose body deletes at most the link it is at; if it deletes the next one, too, the
  loop goes on from a link that is on no list.  The body of the other removal-safe
  loop (`yllist.h:120-123`) never runs, since it starts at the head; `lisp.c:813` uses it.
* `LispMeaning` states what the code does where comments say otherwise: a recursive `label` fails, as the symbol is bound to the
  lambda only in the outermost evaluation (`sfunc.c:538-547`), and `let` of `base.yl:88-101`, described as `let*`, binds from the last variable to the first
  in the outer bindings.
* `EqualMeansSameMap` compares tries; hash maps are equal only if they are one block (`nfunc_map.c:190-194`).

## Proofs

The theorems hold for every value of the constants that satisfies the assumptions.

* `MemoryProofs`.  Of the block table the invariant is `TypeOK /\ IndexInverse /\ SweepInv`.  `IndexInverse` (positions
  and indices) is needed because `_mbt_put` finds the block to exchange through them;
  `SweepInv` says which part of the array the loop has dealt with.  From it:
  types, `IndexInverse`, soundness of the sweep, and the refinement of `BlockPool`.
  `DescriptionsOwned` holds for any symbols and writers.  Its invariant says that entries point to
  strings that exist (`Pointers`), that each string has exactly one entry (`Owners`), and what is true of a symbol between the two
  calls of a set (`Values`).
* `SafePointProofs`.  The invariant joins types, who owns `_m` at which program point
  (`OwnsLock`), the lock order, what the program point says of registration, flag
  and threads (`Position`), that a listener's view of the flags stays true while `_m` is
  held (`Listeners`), and memory pressure.  From it: types, lock order, `GcFlagged` with kills and
  nesting; without nesting (an assumption of the theorem) also that nobody
  evaluates during a collection and that `StopTheWorld` is implemented; no stranded waiter.
  Without kills (an assumption of the theorem, which `safepoint_abandoned` shows to be needed) no
  thread ends with a mutex locked.
* `ProcResProofs`.  `NoLeak` and `ListedFileIsOpen`, for any number of `sh` calls and kills, as long as the list is intact.  The
  invariant says that a node is on the list or in the hand of one walk (`Holders`), that what is open is on the list,
  about to be closed, or still the thread's own (`Owners`), and that the base thread's walk has nothing before it on the list
  (`BaseWalk`).  Three lemmas say what unlinking and linking do to a list of different nodes.
  `CodeIsMapped` and `FilesClosed` from `LoadingInv`: a library is open once for every thread that may still close it, and
  once more if a function of it is bound, held or may be bound by a load that has begun to register (`RefsCover`).  That counts
  threads, so the proof needs finitely many of them.  A load counts among the first only until it registers its first
  function: from then on it can end in one way, which leaves the library open.
  `LoopPassesAll` from `LinksInv`: a ring has a numbering of its links that grows along `next` (`Ranked`), so that nothing
  is said by induction; a loop has passed what has a smaller number than the link it saved.
  `ContentsKept` from `StackInv` (item by item, what was pushed) and `BuffersInv` (`Filled`, the text behind the first byte
  and the zero that ends it).
* `RequestProofs`.  With at most one reader (an assumption of the theorem), its block
  is in use and the switch comes back; the runs with two readers show that the assumption is needed.
  `FilesOwned` and `CallsKeepFiles` hold for any threads, handles and descriptors, when processes are
  destroyed before they are dropped (`DestroyFirst`; `files_sweep` shows the need).  In the invariant descriptors and owners
  point at each other (`Descriptors`, `Children`), and blocks that a sweep is about to free cannot be reached by
  a call that runs (`Swept`, `CallsCurrent`).
  `FramesProtected` from `EvalInv`, for any depths, when only evaluations of the outermost thread fail (`OnlyOutermostFails`;
  `NeverPopsEmpty` with `FailDepth = 3` shows the need).  The property counts nothing between two requests; the invariant has to: the
  evaluation stack is empty there, since a failure of the outermost thread empties it, and only a thread inside a `yleval` is
  in its tail.
* `DaemonProofs`.  `InsideBuffer` holds with any number of senders and failures: a count of sent
  bytes that runs backwards below zero becomes so large that the loop ends.
  `PacketsWhole` needs that one thread sends (an assumption of the theorem; `WholePackets` with two senders is among the
  properties that fail).  Its invariant says that the stream on the wire begins where the reader is and ends where the sender is,
  and that each element follows from the one before.
  `MessagesUnderstood` from `FEInv`, for any texts, handlers and packets that others send: of all packets under way only the newest
  question of the user interface can still be answered (`OneQuestion`), which is what makes the first answer the right one.  It holds
  unless a question was given up (`late`), and again from the first question on that is asked with nothing under way.  The
  assumption is that what else is sent on the connection are no completions (`FrontEndAssumption`): `Main.java` has one place that
  sends them.
  `ImplementsMap` needs no invariant: what a deletion prunes besides the key's own node holds no value (`PrunedAreEmpty`).
  `CompletesTight` from `TrieInv`: nodes are finitely many paths with all their beginnings, and no leaf but the root is empty.  That
  an insertion or deletion leaves no dead branch is the harder half; a node that loses its last child is the one at which the climb
  stopped, and it stopped there for a value or for another child.  Arguments over the depth of the trie go to the longest node
  of some set (`LongestNode`) and so need no induction: below a node there is a value, the search ends (`TargetIs`),
  and where it ends the ways part within one character (`WaysPart`).
  `CompletionAsserts` from `CompletionInv`, when no symbol is set or unset between the calls of a completion
  (`Concurrent = FALSE`, an assumption of the theorem): two symbols are below the prefix, so that there are two candidates, and
  as the order of the walk is total (`BeforeIsOrder`) each of them comes to a place of its own in the list (`SortedIs`).
* `ContainersProofs`.  `NobodyStuck` and `UsedSafely` from `ArraysInv` and `MapsInv`, which say lock by lock what a call holds at each of
  its steps (`HoldsLocks`, `HoldsMapLocks`), that blocks in use point to blocks in use, and that nobody reads what another writes.
  That arrays never wait in a circle is an argument about layers: in a circle take the thread that wants the lock of the lowest
  layer.  Who holds that lock wants one of the same layer, so it is comparing, and wants to read; who keeps it from reading
  writes, and a writer wants only what is strictly below what it holds.  For maps it is simpler: who waits and
  holds something is comparing, and keeps no reader out.  The frames of a comparison hold two read locks each but the last
  (`ComparingHolds`), and a key that is left to compare is in both tables, which nobody can change meanwhile (`AllWalkedStay`).  The maps
  inside maps are again a smallest closed set (`Nested`): that it is closed (`NestedIsComplete`) and within every closed set
  (`NestedWithin`) is all that the proofs use, so that no induction over depth is needed.  For `WalksLocked` the invariant says which
  locks are those of the way of an access (`Follows`): without assignments through several indices a store writes only the array it has
  locked for writing, and so no element on that way.
  `HashIsMap` from `HashInv`: every node is on the chain that the leading bits of its hash value name (`Hashed`), the size is the
  number of nodes, and the load is in its bounds.  The bits of a hash value are a chain of every table (`IndexInTable`), for which powers of
  2 are counted as subsets (`PowerOf2`); a rehash keeps the nodes (`RehashKeeps`); and an insertion, which deletes and may shrink the
  table before it grows it, leaves the load in its bounds because both changes look at the size before the new node
  (`LoadedLess`, `LoadedMore`).
* `TextProofs`.  `StringsRight` from `StringsInv`, for texts, patterns and replacements of any length.  The invariant says what a loop
  has passed (`Passed`): places without an occurrence, white space, and, for the functions that write, that what is written and the right
  answer for what is left make the right answer for the whole (`LinesSoFar`, `ReplacedSoFar`, `RewrittenSoFar`).  `re-replace` works in the text that
  the last replacement left, so there the invariant has to say that what lies behind `front` in it is the end of the original.
  The right answers are functions that recur over positions (`Clean`, `Renewed`, `Whole`).  TLAPS does not know that a recursive
  function exists: `RecursionUp` and `RecursionDown` show it for a recurrence that goes up by one and for one that jumps down
  a sequence, and what is concluded from the recurrence needs no induction, because the loop is one.
  Expressions are literals or one character repeated (`PlainPatterns`, an assumption of the theorem): a pattern that matches
  nothing is replaced for ever, and one bound to the start of a text matches again at the start of the rest.
  `PrintsEverything` for any finite number of pairs, garbage among them, wherever they point.  Every level of `eprint` puts one more pair into
  `map`, so that no stack deeper than the number of pairs is needed and `map` is behind a level what it was before it.  The rest
  relates a text to the graph: if nothing is reported below a pair, no pair of `map` can be reached from it and none of those that can lies
  on a cycle; in a tree the pairs of `map` are never below the one that is printed.  What can be reached is the smallest closed
  set (`Reach`), so that both are arguments about closed sets.  Atoms must not print like the report (`PrinterAssumption`).
  `ReadsText`, that the reader evaluates what the grammar says and its stacks agree, from `GrammarInv`, for any characters, texts and
  sizes of the buffer.  The automata that have no list under construction are only ever on top, one of them or an escape on another, so
  that counting them needs no more than the two on top (`Nesting`).  What ties them to the grammar speaks of every text that may still come
  (`Continues`): what is read of the whole of it is said by the open lists and by what is read from the next place on, each list
  becoming an element of the one below it (`Chain`).  A character then only moves from what is to be read into a name or a list
  (`StayReads`, `ExitReads`, `EnterReads`, `EscapeReads`); a mistake passes down the lists to the bottom, where what was evaluated before it
  remains (`ChainFails`).  A reading is a function over the places of the text, which exists from the end of the text on, because what is
  read from a place ends behind it (`ReadsAhead`).

Assumptions: those named `...Assumption` in the modules, and the ones just mentioned
(no nesting, no kills, one reader, one sender, `Concurrent = FALSE`, `DestroyFirst`, `OnlyOutermostFails`, `PlainPatterns`).  `Direct` and `late` are no assumptions but conditions inside
what is proved.  The others only say what kind of value a
constant is: `LoadingAssumption` that threads are finitely many, `StackAssumption` and `BufferAssumption` that blocks have room for an item,
`ArraysAssumption` and `MapsAssumption` that atoms, arrays and the empty result are different things,
`HashAssumption` that hash values have their width and the table's bits a range within it,
`ArgumentAssumption` that calls have texts for arguments and an expression is not empty, `KeyAssumption` and
`PrefixAssumption` that keys and prefixes are whole characters, `PrinterAssumption` that there is a pair and atoms are no pairs,
`ParserAssumption` that the buffer has room for a character.  Every proof has the same shape: the initial
states satisfy the invariant, each action keeps it (one lemma per conjunct in `SafePointProofs`, one step or lemma per
action in the others), it implies the property; temporal logic only joins the three.

Each invariant was checked by TLC on the instance of its run before it was proved (`GrammarInv`, which speaks of texts of
any length, for those of up to four characters).  The attempts changed what is said in these places:

* Arrays of any lower layer inside an array, as the model had it first, let two comparisons and an assignment wait in a circle:
  a thread that compares two arrays holds both while it compares what is inside, and an array two layers down may
  be of the layer that another comparison holds.  No instance had three layers.  The code has no order of its own, so this is a
  condition on programs, and is among the [conditions](#properties-that-fail) below.
* `EqHolds` has to say that a comparison that is still locking has looked at nothing, and `UsesInUse` that an insertion has a key and a value.
* The numbers of file handles in `Loading` are those that `fopen` may return, not the length of a list.

## What is only model-checked

* Liveness (`WaiterResumes`, `KillEnds`, `CompletionAnswered`): under fairness, and with `ENABLED`, it is out of the prover's reach.
* `MeansTheSame` (with `ReadsBack`) and `TriesAreMaps`: what a recursive definition computes for every tree (`LispMeaning`, `EvalForms`,
  `TrieCopy`, and what `MCLanguage` shows of a printed text) would be proved by induction over trees, which is out of the prover's reach; these
  modules declare `RECURSIVE` operators and are for TLC only.  Where a definition recurs over numbers it is a recursive function, and proved.
* All failing runs.

## What is left out

* Mathematics, arithmetic and number formats: functions of C doubles.
* Directory, environment, time and whole-file functions: one system call each.
* Case conversion, concatenation and `printf`: one loop over the arguments without state.
* The matching of regular expressions (libc, pcre) and crc.
* Windows, history and keys of the Java front end; option handling of the programs.
* Initialisation (`ylinit`), statistics, tests, build files, and the lisp libraries other than as programs for
  `MCLanguage`.
* Keys of 1024 characters and more, which the trie refuses and `_set` loses (`symlookup.c:121`).
* Running out of memory: the code asserts (`ylmalloc`) nearly everywhere.

## Plan

What was planned first is there: pool, threads, resources, evaluation brackets, collector switch, symbol tables, completion and
framing; then the evaluator's forms with the roots of the collector, files and processes, the parser, the hash table and the maps,
arrays, list, stack and buffers, libraries, the daemon's dispatch and its front end, strings, and the printer.

What is left, in the order of what it would show:

1. `EvalForms` with two threads over one set of global symbols, in place of the step models of `Symbols`.
2. `Arrays` whose layers are not fixed, with the deadlock of comparisons and assignments as a violated run, should a document
   of the repository ever promise its absence.
