# CSE598 matrix service in TLA+

The repository holds a client/server system that multiplies matrices: client
processes put two matrices in POSIX shared memory, ask a real-time server for
their product through named FIFOs, and print what they find afterwards. It was
written several times: `fifo_threaded` is the version its traces were recorded
with, `static_alloc` the one before, `cgroup_implementation` the one after, and
`other` holds earlier servers and the workloads. This directory models them,
with `fifo_threaded` in the centre, checks the models with TLC and proves facts
about them with TLAPS.

## Inventory

| part | state | operations | interacts through |
|---|---|---|---|
| client (`fifo_threaded/client_fifo.c`) | its call, its FIFO, its segment | make FIFO and segment, open and write the request FIFO, open and read its reply FIFO, print A, close, unlink | request FIFO, reply FIFO, segment |
| server main thread (`server_fifo.c`) | `mc`, `server_to_client`, `pthread_args`, `list`, `server_on` | make and open the FIFO, read a request, open the reply FIFO, fill `pthread_args`, create a worker, shut down | FIFOs, `pthread_args`, `pthread_create`, `pthread_cancel` |
| SIGINT handler | `server_on` | clear it; the sleeping call fails with EINTR | main thread |
| hold thread (`hold_fifo_open`) | - | open the request FIFO for writing, spin | keeps end-of-file from main |
| worker (`dense_mm.c`) | loaded arguments, C | load the arguments one by one, pin, set priority, map the segment, multiply, write back, answer | `pthread_args`, segment, reply FIFO |
| thread list (`list.c`) | linked cells | create, add at the end, destroy | main thread |
| `cgroup_implementation` | the same, plus one cgroup per client | client makes and joins it, worker writes the server's pid to it | cgroup files |
| `static_alloc` | the same, segments of one fixed size | as `fifo_threaded` | as `fifo_threaded` |
| `other/fifo_single_thread` | two FIFOs shared by all | read, multiply, answer in turn; (0,0) shuts down | both FIFOs |
| `other/single_thread`, `other/client_to_server` | epoll set, one `cfd` | accept, send a priority or read text, close | sockets |
| matrix programs (`cache_performance_test`, `other/*/test_programs`, the `dense_mm.c` of each server) | matrices A, B, C, loop counters | allocate, three loop orders of the product, one with OpenMP | the segment, in the services |
| `test_programs/sort.c` | one array | recursive quicksort in place | - |

Hard behaviours: five clients are started at once (`test_script.sh`), threads
share one argument slot and no lock, both sides of a FIFO sleep in `open` for
each other, end-of-file and answers look alike to the client, writing to a dead
client kills the server, SIGINT races with the blocking calls, shutdown closes a
reply FIFO somebody may wait at, negative sizes pass every test. The `hazards` of
PROJECT.json list them with their lines. A component is correct when: a client
that reports completion finds its product; every request is read whole, gets
one worker and one answer; the failure of one client does not take the others
with it; an interrupted server ends and cleans up. Much of this does not hold
for concurrent clients; the project says what holds, when, and what does not.

## Modules

| module | models |
|---|---|
| `Fifo` | kernel objects, as the programs use them (external): living processes, FIFO files and ends, sleeping opens |
| `Ipc` | those of `fifo_threaded`: what its FIFOs buffer, its segments (external) |
| `ClientFifo` | `client_fifo.c`, one action per call |
| `DenseMm` | `dense_mm.c`, one action per load of the shared slot and per call |
| `ServerFifo` | `server_fifo.c`: main, handler, hold thread; `list.c` as a sequence |
| `MatrixService` | their composition, fairness, all properties |
| `JobService` | abstract specification: each job asked, done, told, in this order |
| `CgroupService` | `cgroup_implementation`: what it changes in client, main and worker, over the actions of `MatrixService` |
| `ThreadList` | `list.c` (the same in the three directories) node by node |
| `StaticService` | `static_alloc`: fixed segments, unchecked allocations, over the actions of `MatrixService` and with `ThreadList` in the place of the sequence |
| `SingleFifoServer` | `other/fifo_single_thread`: server and clients that share one reply FIFO, over `Fifo` |
| `EpollServer` | `other/single_thread` and `other/client_to_server`: both epoll loops and their clients |
| `MatrixPrograms` | the products: stand-alone programs, the OpenMP one, and the sizes a client and a worker of the service agree on |
| `QuickSort` | `sort.c` call by call |
| `TestPrograms` | one run of a program of the two modules before |
| `MCMatrixService`, `MCCgroupService`, `MCStaticService`, `MCSingleFifoServer`, `MCEpollServer` | constants for TLC |
| `SlotProofs`, `RequestProofs`, `AnswerProofs` | theorems of `MatrixService`, each module over the one before |
| `CgroupProofs`, `StaticProofs` | theorems of `CgroupService` (over `RequestProofs`) and `StaticService` (over `AnswerProofs`) |
| `SingleFifoProofs`, `EpollProofs`, `ProgramProofs` | theorems of `SingleFifoServer`, `EpollServer`, `TestPrograms` |

`CgroupService` and `StaticService` extend `MatrixService`: where a program does
what `fifo_threaded` does they take its action, guarded by the calls that are
the same, and they state their own actions for the rest.

How state corresponds to the code:

* `cpc`, `spc`, `wpc` say which call a client, the main thread or a worker is
  about to make. A client's or the server's last value is its exit code (the
  names of `return_values.h`); a process killed by a signal leaves `alive`.
* The main thread sleeps in three calls, and each is two steps: `openRequest` and
  `inOpenRequest`, `openReply` and `inOpenReply`, `read` and `inRead`. SIGINT makes
  the second fail with EINTR and goes unnoticed in the first, also where the
  FIFO is empty and a writer keeps end-of-file away (`SleepInRead`).
* Shutdown is one step per call: `cancel`, `close` (of the request FIFO),
  `closeReply` (of `server_to_client`, the reply FIFO opened last), `unlink`,
  `return`. Only the last makes the server leave `alive`; clients, workers that are
  not cancelled yet at a cancellation point and the hold thread go on between
  them. A worker whose descriptor was closed finds its `write` failing and
  returns (`CanWrite`).
* `paths` are the FIFO files in /tmp. `readers` and `writers` hold an end from
  the moment `open` is called, as the kernel counts it; `asleep` are the opens
  that wait for the other side.
* `pipe` is the content of the request FIFO in words of 8 bytes, each with its
  client and position. One `read` of the server takes up to `ReadWords`.
* A value copied from a request (size, descriptor, priority, name) is
  represented by the client it came from. `mc` is whose request the buffer
  holds, `pthread_args` the slot, `arg[c]` what the worker of c's request has
  loaded from it. The slot is stored field by field, and the name in two steps,
  because workers read while main stores: that is the data race of the code.
* `shm[c]` is what matrix A of c's segment holds: the client's coefficients, the
  product, or something else.
* `CgroupService`: `groups` are the cgroup directories, `member[p]` the cgroup of
  process p, `cgroup_procs_path` the new field of `pthread_args`, `joined[c]` the
  path the worker of c opened. Every thread writes `getpid()`, which is the pid
  of the server, so `member[Server]` moves. The notes have "server thread joins
  that cgroup" and a budget per client (`meeting_notes.txt:230`, `:315`); what
  moves is the whole process, and `BudgetLostToAnotherWorker` says the worst of
  it: a worker computes outside of its cgroup only if another one joined later.
* A size is an `int`; a negative one passes the tests of the clients and is a huge
  one to the worker's unsigned loops, which leave every array (`LeavesSegment`).
  `StaticService` has the sizes from 2 to `SHARED_MEM_SIZE` and the negative ones.
* `StaticService`: `head` and `node` are the list as `malloc` left it; `list` of
  `ServerFifo` stays as a history of the threads created, which `ListHoldsThreads`
  compares it with, and `dropped` has the threads no node could be allocated for.
* `SingleFifoServer` keeps the same conventions; a request and a result bear the
  name of the client they belong to. A client that failed to open the request
  FIFO is told by its missing end, since both opens are made before either is
  looked at. The `continue` on end-of-file changes nothing and is no action.
  A client may read the result of another, since the reply FIFO is one for all;
  `WaitersAreOwed` and `SurplusMeansKilled` say what holds nevertheless.
* In `EpollServer`, `ready` is the kernel's ready list, `events` what the `for`
  loop has not looked at, `conn[d]` the client behind an accepted descriptor
  (which stays open until the server closes it, whatever the client did), and
  `program` says which of the two servers runs; it never changes. The server exits
  (`HandleError`) when `accept` finds no descriptor, `MaxOpen` being the limit,
  which the descriptors it never closes bring nearer. The exits of the other
  calls are left out.
* `MatrixPrograms`: a cell of C is the sequence of pairs of indices into A and B
  whose products were added to it, so that two cells are equal only if they are
  equal in floating point, rounding included. Sizes and indices wrap at the square
  of `SQRT_UINT32_MAX` (`dense_mm.h`; 65536 in the code, hence 32 bits).
  `step[t]` counts the iterations of a thread, `term[t]` is a `+=` loaded and not
  stored. `int temp` of the cache-optimal worker is exact for the coefficients the
  clients generate, whole numbers below 2^31, and keeps the index it was loaded
  from.
* `QuickSort`: values are counted in halves, to see what the `unsigned` in `swap`
  does to a fraction; the cell behind the array is part of the state because the
  recursion is started with the length as an inclusive bound.

Definitions whose comment begins with "Mutant" are faulty variants of the
definition after them. They show that the properties can fail and are in no
specification.

Choices the code leaves open are nondeterministic: the value of
`server_to_client` before its first assignment (its close may fail or not), what
a worker reads while main stores, whether a torn matrix multiplies to the
product. SIGINT before the handler is installed is left out (it kills the
process, nothing was created yet). Names torn in `strncpy` are taken to name no
segment and no cgroup. Left out as well: what the loops of a negative size
overwrite before they fault; a worker that goes on after the closes of shutdown
and is given one of the closed descriptor numbers for its segment; a close of
the indeterminate `server_to_client` that hits an open descriptor (no worker
runs then); `sigaction`, `pthread_cancel` and `printf` failing; a worker's `write`
failing for another reason than a missing reader or a closed descriptor, which a
pipe with a reader does not do for 8 bytes. Segments that an earlier client of the same pid left are
left out; its FIFO and its cgroup are in (`Stale`, `StaleGroups`).

## Runs

The runs of `fifo_threaded` use `MCMatrixService` with requests of two words. The real request has
26 words and the server's structure 27, in `cgroup_implementation` they are
equal; two and three words keep what matters, namely that one read of a full
queue takes a request and the first word of the next, and that three requests
are back in frame after two reads. Sizes 3 and 4 fit in one page, 17 needs two,
so that a wrong size may or may not fault. Deadlock is not checked: the system
rests when all clients are gone and the server waits.

| run | instance | shows |
|---|---|---|
| `one_at_a_time` | 3 clients, one at a time, fair | `ImplementsJobService`, `EveryRequestAnswered`, `CompletedMeansComputed`: used as in the notes, the service keeps its promise, also while the hold thread is late |
| `three_clients` | 3 clients, two at a time, one negative size, SIGINT | `ForwardOnly`, `StrandedMeansRaced`, `EofMeansShutdown`, `TypeOK`: what the races cannot do, shutdown included |
| `faults` | 2 clients, the failing calls of `AllFaults` in client, main and worker, 4 descriptors, stale FIFOs, kill, SIGINT, `-c`, a refused priority | `SlotInv`, `NoDuplicateWorkers`, `RequestNamesLiveObjects` |
| `departures` | 2 clients, one of a negative size, kill and SIGINT anywhere, fair | `CrashNeedsRaceOrDeath`, `MainWaitsForTheDeadOnly`, `HoldEndsEof`, `InterruptTakesEffectAtNextRequest`: an interrupt that main slept through is late, not lost |
| `cgroup` | 2 clients, structures of one size, `-c`, failing calls, a cgroup left behind, SIGINT, fair | `CgroupTypeOK`, `RequestsStayFramed`, `EveryRequestGetsAWorker`, `JoinGoesForward`, `BudgetLostToAnotherWorker`, `OneAnswerPerWorker` |
| `static` | 2 clients, one may be killed, the other has a smaller or a negative size; three allocations that fail, SIGINT | `ListHoldsThreads`, `CrashNeedsTwoAnswersOrDeath`, `WrongReportHasCause`: fixed segments remove the crash by a raced size, but for a negative one, and a larger size does no harm |
| `programs` | every program, every size an `int` of 6 bits holds, 2 OpenMP threads; arrays of up to 4 | `SameTermsInSameOrder`, `OnlyNegativeSizeKillsServer`, `OnlyTheLimitOverruns`, `SortsOneCellTooMany` |
| `single_fifo` | 3 clients: one asks for shutdown, one may be killed, one may crash the server; failing calls, a stale FIFO; fair | `TypeOK`, `WaitersAreOwed`, `SurplusMeansKilled`, `ShutdownWasAsked`, `SendersLeave` |
| `epoll` | both servers, 4 clients, 3 descriptors, batches of 2, one input on stdin, one kill, fair | `TypeOK`, `AcceptNeverSleeps`, `NoLiveClientCut`, `LastHangUpIsSeen`, `AcceptedUnlessBroken` |
| `misframing` | 2 clients | violates `RequestsStayFramed`: two requests queued before the server reads |
| `wrong_report` | 2 clients, sizes 3 and 4 | violates `CompletedMeansComputed`: c1's worker takes c2's size, answers c1, and c1 prints a wrong A |
| `unclean_shutdown` | SIGINT, a client that dies or is slow | violates `ShutdownRemovesFifo` through close(-1) |

Two more consequences of SIGINT are in the models without a run of their own.
Between the test of `server_on` and the sleep in `read` (`server_fifo.c:93`-`:97`) it
is lost, and main sleeps for ever if no client comes, although the comment at
`:29` has "to cleanly exit"; `InterruptTakesEffectAtNextRequest` says how late it
may be. And the close at `:164` cuts off the client whose reply FIFO was opened
last, which reads end-of-file and prints its own A as completed;
`EofMeansShutdown` and `WrongReportHasCause` name this case.

Two clients are enough for a pair of racing workers, and three requests for a
slot that is refilled twice and a FIFO that gets out of frame and back. Two at
a time (`MaxLive`) bounds the state space of `three_clients`; a third worker
still overlaps with the earlier ones, since workers outlive misled clients.
`FdLimit = 4` lets one request through and makes the second meet the limit at
each of its opens. Each client runs once, so replies and the list are bounded by
the number of clients; signals and kills are not counted.

`cgroup` and `static` run two clients (`static` chooses the second of two, by a
constraint on the states, to have both its sizes): the worker of one meets the request
of the other in the slot, which is what their properties are about, and a list
of three threads (the hold thread and two workers) has a node in the middle. In
`cgroup` a stale cgroup may be there or not from the start.

`programs` scales the limit 65536 and 16 bytes per pair of cells down to
`SQRT_UINT32_MAX = 8`, so that numbers wrap at 64, and `Bytes = 2`. The order of the limits is the code's: the client's byte count wraps
before the size reaches the limit, the square wraps at it, and the worker's test
against it comes after. So the worker's test is never reached by a request that
was not raced: the client has failed before. Two threads split the outer loop in
blocks of different lengths when the size is odd. The length of a segment is taken as
asked for, without the rest of its last page.

In `single_fifo` each client has one part to play, so that three cover the
meetings of a waiting client with a killed one, a shutdown and a dying server.
`epoll` has batches of two (`MaxEvent`; the code has three) and four clients:
two that hang up unseen already fill a batch, and a third and a fourth connect
behind them. `Keys` counts inputs on stdin and `Backlog` waiting connections.

The epoll loops lose connections: two that arrive before one `epoll_wait` give
one edge, and an event that ends the batch drops the edge behind it, so that the
client waits in `recv` until another connects. `AcceptedUnlessBroken` says when
this does not happen. A hang-up of a client that is not the last accepted is
reported by every `epoll_wait` from then on and never handled; the ready list
is rotated, so that it hides nothing else.

Fairness: weak fairness for every running client, every worker, the main and
the hold thread. Threads are created by `pthread_create` and scheduled
preemptively by the kernel; the assumption needs a core that the spinning hold
thread does not use, as on the four-core machine of the traces. With `-c` and
SCHED_FIFO it would not be justified for the workers, which pin themselves to core
0 (`dense_mm.c:63`). One fair run has `-c`, `cgroup`, to reach the failing calls
behind it; its one liveness property, `EveryRequestGetsAWorker`, ends with the
creation of the worker and does not rest on the fairness of workers.
Starting a client, killing it and pressing Ctrl-C are never forced.

## Proofs

### fifo_threaded

For any finite or infinite set of clients, any request length, any sizes,
faults and limits, from the named assumptions of `Ipc`, `ServerFifo` and
`MatrixService` (distinct process names, non-empty request, a read at least as
long as a request, stale files are FIFOs of the system):

* `SlotProofs!TypeCorrect`: `TypeOK` is invariant. It is not inductive alone,
  because the slot is filled from `server_to_client`, which may be an error or
  indeterminate; `RequestInHand` says that while main fills the slot it has a
  client's request and that client's descriptor.
* `SlotProofs!SlotCorrect`: `SlotInv` is invariant. It adds that the hold thread
  is the first in the list and cancellation the last change to it, that all
  fields are stored when a worker is created, that the slot only holds the
  newest accepted request or the one in hand, and that a worker exists only for
  an accepted request.
* `SlotProofs!RaceGoesForward`: hence `ForwardOnly`: a worker may act on a later
  request's values, never on an earlier one's.
* `RequestProofs!OneWorkerPerRequest`: `NoDuplicateWorkers`. `OnceInv` says that
  the words in the FIFO are distinct, that a request whose first word is in the
  FIFO is neither in `mc` nor accepted, that the request in `mc` is not accepted,
  and that a client that has not written is nowhere. The last part is what lets a
  new request enter; the `memset` after `pthread_create` is what keeps the third.
  It holds for any surplus of the server's read: words lost by reading out of
  frame lose requests and duplicate none.
* `RequestProofs!RequestsAreLive` and `EofOnlyAtShutdown`: `MeetInv` follows a
  client through its reply FIFO. `Opened(c)` holds once main has opened the FIFO
  of c, or never will. Until then the server is no writer there, the client does
  not get past its own open, and so it has not cleaned up; after that the server
  stays a writer until it is dead or, out of its loop, has closed this client's
  FIFO (`ClosedAtShutdown`), and a client in `read` sees end-of-file only then
  (`EofMeansShutdown`). In short: no worker that gives up, no request that is
  skipped and no reply FIFO opened before the last lets a client read
  end-of-file.
* `AnswerProofs!StrandedByTheRace`: `StrandedMeansRaced`, if `mmap` does not fail
  in a worker. An answer stays in the FIFO until its client takes it, and the
  segment's name is loaded last, so that a worker without it gave up early.
  `ServeInv` has the ends of the reply FIFOs, and `WorkersStopFirst` that main closes
  none before it has cancelled every worker.
* `AnswerProofs!CrashesHaveACause`: `CrashNeedsRaceOrDeath`, if `PinningWorks`.
  `CrashInv` says that a worker's values are its own while nobody raced and
  nobody was killed (`Calm`), that each end of a reply FIFO belongs to its client
  or the server, that a client whose worker has not ended is neither answered nor
  gone, so that its FIFO has a reader when the worker writes; and a size
  of its own that is not negative fits the segment it opened. A client is gone
  early (`GaveUp`) when it was killed or its `read` failed. `PinningWorks` excludes, with `-c` only,
  the failures of `malloc` and `sched_setaffinity` in `SetAffinity`: the first
  stores through NULL, the second is answered and the worker carries on to
  answer again, so that without it the statement is false, not unproved.
  The run has no `-c` and satisfies it.
* `AnswerProofs!PrintsTheProduct` and `ImplementsTheService`, if
  `UsedAsIntended`: one client at a time, nobody killed or interrupted, valid
  priorities, no negative size, and failures only in `shm_open`, `ftruncate`,
  `close` and `unlink` and in `sched_setscheduler`. This is the use of the meeting notes and the instance of
  `one_at_a_time`, whose constants satisfy the hypothesis. `OneInv` says that at most one client
  runs, that nothing is under way for the others, that the slot is the worker's
  own while it runs, and what the segment holds at each stage. The second theorem
  is the refinement: the write of a request, the copy of the product and the
  exit with success are the three steps of a job; every other step stutters.
  The fairness of `JobService!FairSpec` is left to TLC.

### cgroup_implementation

`CgroupInv` was checked by TLC with the constants of `cgroup.cfg` before it was
proved (`CgroupCorrect`). Where a program makes a call of `fifo_threaded`, the
lemmas of that call are cited: they assume only the types of the data (`Shape`)
and what main has in hand (`HandInv`), neither of which names the program
counters that `CgroupService` adds to.

* `SameStructureFrames`: `RequestsStayFramed`, if both structures have the same
  size, whatever it is (`ReadWords = MsgWords`, as in the source of both
  programs). `FramedInv` is about whole requests one behind the other, without
  arithmetic on positions beyond adding the length of a request.
* `CgroupTypes`: `CgroupTypeOK`.
* `PathGoesForward`: `JoinGoesForward`. `JoinInv` is `SlotInv` for the
  path: it is the newest request's or the one in hand, and a worker that has none is
  unborn or has not opened it.
* `OnlyWorkersMoveTheServer`: `BudgetLostToAnotherWorker`. `BudgetInv` says that
  a worker behind its `fclose` is in the server's cgroup, or another one joined
  the cgroup the server is in.
* `WorkersAnswerOnce`: `OneAnswerPerWorker`. `CountInv` counts the workers that
  ended with a client's descriptor against the answers; it needs `EndsInv`, since
  otherwise end-of-file could be taken for an answer while the server lives, and
  that no segment that was never made is named by anyone, since otherwise a
  worker's copy could make a failed client look answered.
* `CgroupOneWorkerPerRequest`, `CgroupEofOnlyAtShutdown`: `OnceInv` and
  `EndsInv` carry over, so `NoDuplicateWorkers` and `EofMeansShutdown` do.
* `CgroupRequestsAreLive`: `RequestNamesLiveObjects`. Only a client that finishes
  unlinks its FIFO, and it left the open of the FIFO before, so that main is past
  it. `FilesInv` says so. It is needed because exit codes are less telling here:
  a client returns `BAD_CLOSE` without an answer when the `fclose` of its cgroup
  fails, which happens before it has a segment.

### static_alloc

For any clients, any sizes, negative or from 2 to `SHARED_MEM_SIZE`, and any call or allocation
that fails, from the assumptions of `fifo_threaded` and of `StaticService` and
`ThreadList` (addresses differ from NULL and from the mark of a missing list).
The lemmas about the actions shared with `fifo_threaded` are cited.

* `ListNamesThreads`: `ListHoldsThreads`. `ListInv` says that the nodes are a
  chain from the head on (`Chain`) and that it holds the threads of the history,
  in order, but for the dropped ones. `ListedNodes` gives what the recursive
  function `Nodes` returns on such a chain; it takes a least counterexample
  (`WFMin`) where the induction theorems cannot be used.
* `StaticCrashesHaveACause` (`CrashNeedsTwoAnswersOrDeath`) and
  `WrongReportsHaveACause` (`WrongReportHasCause`), both if `PinningWorks`, for the
  reason given above. The invariants of `fifo_threaded` (`ServingInv`) hold until
  shutdown. From then on the threads without a node are not cancelled and their
  workers go on, and `Started` no longer tells who was accepted; `LastingInv` says
  what those workers and their clients still need: a client in `read`
  has the server as a writer or was left by it (`Joined`), a worker's descriptor
  is of a client that asked (`Held`), and an answer is traced to its worker as
  long as main has not closed that client's FIFO (`Served`). A NULL from the `malloc` of C
  kills the server in the same step (`NullIsDeath`), and no invariant is needed
  after it. `CauseInv` traces every answer to a worker that ended, and
  follows a segment nobody else acts on from the input to the product.
* `StaticEofOnlyAtShutdown` (`EofMeansShutdown`), without `PinningWorks`. As a
  thread without a node is not cancelled, a worker may still be at the product of
  the client that is cut off so.

`CrashNeedsTwoAnswersOrDeath` names the one place where a missing list is
dereferenced, the `list_add` behind the open of the request FIFO, and a negative size
only together with a worker that loaded it.

### The workloads

`ProgramProofs`, for every even `SQRT_UINT32_MAX` above 2 (`LimitIsEven`), every
number of bytes of a cell, every non-empty team of threads, and for `sort.c`
every length, every number `rand` may return (`RandIsWhole`) and every cell
behind the array that an `unsigned` can hold (`BehindConverts`):

* `ServerSafeFromSizes` (`OnlyNegativeSizeKillsServer`) and
  `StandAloneSafeBelowLimit` (`OnlyTheLimitOverruns`), from `SizeInv`. A size is
  either `Regular`, and then no index wraps and all are in bounds; or zero, and no
  loop begins; or it is one of those the properties name.
* `ProgramsAgree` (`SameTermsInSameOrder`), from `ProgramInv`: a cell holds the
  terms of the iterations that the thread that owns its column has done, in
  the order of `index`. `Serial` numbers the iterations of each loop nest, and the
  lemmas about it say that its order within one cell is the order of `index`,
  which makes the cache-optimal order and the blocks of OpenMP harmless.
* `QuicksortSorts` (`SortsOneCellTooMany`), from `SortInv`. `CutInv` says that two
  cells that no pending call covers together are in order; `OneFraction`, that
  at most one cell holds a fraction, so that cutting it off in `swap` cannot undo
  the order. `Partitions` is what one call does; its loop `Walk` is a recursive
  function, reasoned about by a least counterexample.

### The other servers

* `SingleFifoProofs`, for any finite set of clients, each with any part to play:
  `SingleFifoTypes` (`TypeOK`) and `ShutdownIsAsked` (`ShutdownWasAsked`) from
  `HandInv`, which has whose request the server is at and that its opens are
  awake; `NobodyWaitsInVain` (`WaitersAreOwed`) and `SurplusIsTheKilled`
  (`SurplusMeansKilled`) from `EndsInv`, that nobody asks before both FIFOs are
  open and the server stays a writer of results, and `BalanceInv`, which counts
  clients in calls against requests and results.
* `EpollProofs`, for any finite set of clients, any length of a batch and of the
  backlog, both programs: `EpollTypes` (`TypeOK`), `AcceptFindsAConnection`
  (`AcceptNeverSleeps`), `OnlyHangUpsAreClosed` (`NoLiveClientCut`). `EpollInv`
  says that nothing is twice in the kernel's lists, that an edge of the listening
  socket not yet handled has a connection behind it (and the one that was taken
  together with a newer one has two), that a client is in one place, and
  that a client's descriptor is only reported after a hang-up. Which descriptor
  `accept` returns, and that there is one below the limit, is a pigeon-hole argument
  (`FreeDescriptor`), which is why the set of clients is finite.

In all of them a step that leaves the variables of an invariant alone is
dismissed by one lemma (`QuietStep`, `OnceQuiet`, `EndsQuiet`, `JoinQuiet`, ...),
and the steps that move a request, an end, an answer or a field have a lemma each.

### Model-checked only

Every invariant and every action property of the passing runs is stated by a
theorem. TLC alone checks the liveness properties, which are beyond the prover:
`EveryRequestAnswered` and the fairness of `JobService!FairSpec` in
`ImplementsJobService`, `MainWaitsForTheDeadOnly`, `HoldEndsEof`,
`InterruptTakesEffectAtNextRequest`, `EveryRequestGetsAWorker`, `SendersLeave`,
`LastHangUpIsSeen`, `AcceptedUnlessBroken`.

## Not modelled, and plan

Next:

* `RtScheduler`: round-robin or FIFO scheduling on one core with a hold thread
  that spins. The hazard is listed; the kernel's scheduler is not in the
  repository and the runs assume a core the hold thread does not use.

Left out for good: argument parsing, printing, the trace marker and the recorded
traces, `other/priorities`, `arr_search.c` and `sing.c` (one loop each, no state
that anything else sees).
