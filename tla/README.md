# A verification project for Snippets

Snippets is a collection of small systems: concurrent data structures
(`Concurrency/`), an event-driven network library (`net/fluent/`), programs over
epoll and io_uring (`net/`, `event/`, `io_uring/`, `liburing/`, `stdexec/`),
executors (`c++20/`), interpreters and coroutine pipelines (`perf/`), vector
kernels (`simd/`), algorithms, a static linker, and scripts that download, archive
and search. This directory models the parts that have state, model-checks them on
small instances with TLC and proves the central results for all parameters with
TLAPS. Paths are relative to `src/`.

Contents: 1 parts, 2 modules, 3 runs, 4 assumptions about the environment,
5 proofs, 6 findings, 7 limits, 8 not modelled.

## 1. Parts and what is hard about them

| Part | What is hard about it |
|---|---|
| Bounded MPMC queue, `Concurrency/Bounded_mpmc.cpp` | any mix of blocking and trying threads at one slot; spurious failure of the exchange; tickets held by stalled threads; `int` parameter of `seq()` |
| SPSC ring, `Concurrency/Fifo.cpp` | both ends decide on an index the other is changing; full against empty |
| Mutex queues, `Concurrency/Queue.cpp` | notification after the mutex is released; the tail compared after its mutex is released; two mutexes at once |
| Tagged pointers, freelist, lock-free stack and queue, `Concurrency/` | a link read from a node that is no longer owned; nodes recycled under a slow pop; a lagging tail |
| Shared mutex and spin locks, `Concurrency/` | exchanges of outdated counts; unlocking spins too |
| Thread pool, `Concurrency/ThreadPool.cpp` | slow jobs and their messages queued apart; detached workers; lifetime of the pool object; `stop` without the mutex |
| fluent pool, context, handlers, server, `net/fluent/` | a window that slides by swaps while connections close; partial writes; callbacks that call back, throw or close; events for connections destroyed since they were polled |
| fluent futures and looper, connector, `net/fluent/include/future`, `network/Connector.h` | continuations attached before, after or inside the event that sets the value; cancellation; a connect that is retried while its socket changes |
| fluent logger, `net/fluent/include/logger/Log.hpp` | two buffers swapped under clients that wait without the mutex; a swap by timeout; files that roll over; tables, tags and settings computed by the compiler; a cached date |
| Coroutine context and callback echo server, `liburing/` | completions in any order, coroutines resumed while reaping, a full ring; one buffer per descriptor that is reused |
| Run loops, `c++20/execution_simple.cpp`, `stdexec/io_uring.cpp` | intrusive list shared by two threads; operation states on a stack that unwinds; emptiness tested without the mutex |
| Raw rings, `io_uring/` | private counters that run ahead of the shared ones; wrap-around; uninitialised counters |
| epoll programs, `event/`, `net/thundering_herd/` | who is woken by one arrival under exclusive, one-shot and edge-triggered registrations |
| Web servers, `net/in_kernel_web_server/` | requests cut into arbitrary reads, responses left for a later event, descriptors reused |
| Scripts, `scripts/` | interrupts, kills and restarts between writing a file and recording it; worker threads that share keys and progress |
| Interpreters and tokenizers, `perf/threaded_code/` | one machine written six times, one tokenizer five times |
| Coroutine pipeline, `perf/coroutine_pipeline/` | a throttle, a ring of suspended frames and a frame allocator |
| Vector kernels, `simd/`, `Algorithm/parallel_sort.cpp` | the seams between unrolled, lane and element phases; what is carried across a lane |
| Cuckoo filter, alias table, `Algorithm/` | relocations that go round; rounding |
| Exception safety, `c++/exception safety/` | a copy or an allocation that throws in the middle of an operation |
| ELF linker, `llm4fun/linker/` | weak and strong symbols, alignment, 32-bit limits |
| I/O programs, `IO/iotrace/` | which of page cache, device cache and medium holds the data when a call returns |

`PROJECT.json` lists all parts with their files, their status, and the hazards by
line.

## 2. Modules

One module per component. Actions are named after the functions they translate; an
action is one access of shared memory where threads share memory without a lock, one
critical section where they use a mutex, and one callback, completion, system call or
pass where a single thread does the work.

| Module | Models | Notes |
|---|---|---|
| `BoundedMpmc` | `Bounded_mpmc` | `seq` and `idx` with the width of `int`; `pushed`, `popped`, `refused` are history |
| `TicketCells` | abstract | numbered one-shot cells; `BoundedMpmc` implements it (`CellsSpec`) |
| `Fifo` | the ring and its `main()` | |
| `Queues` | `Queue`, and the bench for it, `Fifo`, `TwoLockQueue` and `Logger` | notification is a step of its own |
| `TwoLockQueue` | `Queue_v2` | one action per locked or shared access |
| `Containers` | abstract | a FIFO queue, which `Fifo` and `TwoLockQueue` implement (`QueueSpec`), and a stack, which `LockfreeStack` implements |
| `TaggedPtr` | `Tagged_ptr` | |
| `NodePool` | abstract | LIFO pool; the freelist implements it, stack and queue are written over it |
| `Freelist` | `Freelist` | a read of a node that somebody else owns yields any value; `fChain` is history |
| `LockfreeStack` | `Stack` | over `NodePool`; `chain` is history |
| `LockfreeQueue` | `Queue` | |
| `Locks` | shared mutex and spin locks with their test programs | |
| `ThreadPool` | `ThreadPool` | both builds of the destructor (`LockedStop`); the program is external (`Caution`); with proofs |
| `FluentPool` | `Pool`, `WeakReference` | |
| `FluentContext` | `Context`, handlers, policies | operators on the record of one connection; socket and epoll are external |
| `FluentServer` | `BaseServer::batch` | composes `FluentPool` and `FluentContext` with peers |
| `Logger` | `Scheduler`, `Wthread`, `File` | a byte is its position in the stream; `early` and `stray` are about the data race, section 4 |
| `LogFormat` | `Chrono`, `conf`, `Stream`, `Resolver`, tags, macros, `meta` | how a record is put together; a text is a sequence of character codes |
| `Futures` | `Promise`, `Future`, `ControlBlock`, `Looper` | values are symbolic, `Moved` is a moved-from object |
| `Connector` | `Connector`, `Client::connect` | one socket in the kernel |
| `UringContext` | `Io_context`, `Task` of `liburing/coroutine.h` | the kernel is external; with proofs |
| `UringEcho` | `liburing/echo.cpp` | |
| `UringRings` | the four programs of `io_uring/` | counters modulo `W` |
| `RunLoops` | `run_loop`, `sync_wait`; `io_uring_exec` | three programs over `run_loop`: `main()`, one that waits twice, the inline one |
| `EpollPrograms` | `event/`, `net/thundering_herd/` | a program is a record: who waits where, with which flags |
| `WebServer` | the kernel module and its user-space twin | `module` says which; they differ when no descriptor is left, and in how they stop |
| `Downloader`, `IssueFetcher`, `Translator`, `LkmlArchive`, `Zxgrep` | the scripts | files are what is on disk, kills are actions |
| `ThreadedCode` | `basic.cpp`, `json.cpp`, `json_musttail.cpp` | all versions run side by side, each with its own table and handlers; what `json_musttail.cpp` repeats from `json.cpp` is modelled once |
| `SimdKernels` | vector kernels, bitonic sorts | lanes with their real widths |
| `Algorithms` | cuckoo filter, alias table, `nanotest.cpp` and the coroutine pipelines | |
| `ExceptionSafety` | seven designs of a stack | an operation is the set of its outcomes |
| `ElfLinker` | the passes of the linker | addresses scaled down with their limits |
| `IoTrace` | the modes of `iotrace.c` | page cache, device cache and medium are external |

`BoundedMpmc`, `Queues`, `LockfreeMemory`, `FluentServer`, `Runtime` and `Programs`
are what TLC runs. `Queues`, `LockfreeMemory`, `Runtime` and `Programs` are benches:
a variable chosen in the initial state says which component a behaviour uses, the
others do not move. In `Runtime` and `Programs` the components take their variables
from one memory `m1, m2, ...`, and what a component does not need stays 0.
Components that interact are composed in modules of their own: the server
with its pool, contexts and peers, the lock-free structures with the pool of nodes,
the rings with the kernel, the scripts with the disk.

The `*Proofs` modules hold theorems; in `UringContext` and `ThreadPool` they stand behind the
model. Operators commented "mutant" are plausible bugs, used to
see that each property can fail; they are not part of any specification.

Memory orders are not modelled: steps interleave as under sequential consistency.

## 3. Runs

| Run | Instance | Shows |
|---|---|---|
| `mpmc` | 3 threads, 2 slots, 6 tickets a side, an `int` of span 4 | `TypeOK`; no race on a slot (`ExclusiveSlot`); refusals have a reason (`RefusalJustified`); refinement of `TicketCells` (`CellsSpec`); no ticket past the `int` limit is served, and no slot is corrupted there (`ServedWithinInt`) |
| `queues` | 2 producers, 3 consumers, 3 pushes; 3 threads, 2 pushes; ring of 4, 7 numbers; logger: 2 clients, records of 2 and 3 bytes, log buffers of 4 bytes, files of 3, 5 bytes applied, `sflag` stored first or last | `NoLostWakeup`, `InOrder`, `NoRace`, `QueueSpec` (refinement of `Containers`), `CallsReturn` |
| `lockfree` | queue: 3 threads, 3 nodes, 4 pushes, 2 pops; stack: 2 threads, 3 pushes; freelist: 2 threads, 2 nodes, 3 allocations | the queue returns once what was pushed and loses nothing (`QueueExact`); the stack links each node once and reuses none that is linked (`NodesSafe`); the stack refines the one of `Containers` (`LifoSpec`), the freelist refines `NodePool` (`PoolSpec`) |
| `fluent` | pool: 4 connections; server: 2, one of which talks | `WindowClosed`, `KeepsLive`, `LiveBundles`, `Completions`, `FinLast`, `PeersServed` |
| `runtime` | below | `Exclusion`, `LockWord`, `EveryIncrementCounts`, `AtMostOnce`, `SlowPath`, `CoroutineBooks`, `CompletionsExact`, `ResponsesExact`, `HerdAsSaid`, `WorkEnds` |
| `programs` | below | `FuturesKept`, `RecordsTrue`, `InterpretersExact`, `HeapOwned`, `ThrowsLeaveStacks`, `LinkExact`, `LookupsExact`, `KernelsExact`, `TraceOk`, `ProgramsEnd` |
| `lfqueue_append`, `threadpool_x86`, `threadpool_lifetime`, `fluent_shutdown`, `uring_drain`, `elf_weak` | smallest that shows it (`elf_weak`: that of `programs`) | violations, section 6 |

Why the bounds of the first four are enough to be interesting. `mpmc`: six tickets on
two slots reuse each slot and go past the `int` limit by two, and three threads put a
stalled one between two others. SIZE is a power of two in the code and so divides the
span of `int`; instances must keep that. `queues`: more consumers than elements, so that some sleep; the ring goes
round; records fit or ask for a swap, the file rolls over, and a
record that is copied in the middle of a swap ends in the other buffer or behind both. `lockfree`: nodes are recycled and the tags of the queue wrap (`FIRST_TAG` 6 of
8); the stack and the freelist stay below one round of tags.
A stale pop of the stack finds its old head on top again only if two other threads hold
the nodes between, since the freelist hands out the last one first; that takes three
threads, which are too many for TLC here and are covered by the proof. `fluent`: a send of two
bytes into a socket buffer of one is partial; four connections let the window move
past slots that are in use.

`runtime`, one component per behaviour:

| Component | Bounds | Why |
|---|---|---|
| shared mutex | 2 writers, 2 readers, 2 rounds | both kinds contend with their own and the other |
| spin locks | 3 threads, 2 rounds, spinning on reads or on exchanges | |
| thread pool | 3 workers, 3 jobs of both kinds, stop under the mutex, `Caution` "quiet" | more slow jobs than the threshold |
| coroutine context | 4 coroutines, 2 entries, 2 operations each | more coroutines than entries: the ring fills |
| connector | 3 faults, failures for good | every answer of `connect` and of the probe, in sequence |
| run loops | 1 operation waited for, or 2 in turn, 3 inline; 4 senders, 2 of which read, 1 entry | a second wait on one loop; the ring is full when a sender starts |
| raw rings | depth 4, 3 writes, counters modulo 16, initial garbage 0, 1, 3, 9 | both counters go round the ring |
| echo server | 2 clients, 2 descriptors, reads of any length, failures | a descriptor is reused while completions are queued |
| web servers | both; 2 clients, 1 descriptor, 2 requests in pieces, one response per send | reuse of the descriptor, a client for which none is left, responses that wait for the next event |
| epoll programs | 3 processes, 3 arrivals | an arrival while one process is busy and another about to wait |

`programs`, one component and one input per behaviour; the inputs are defined at
the top of `Programs`:

| Component | Bounds |
|---|---|
| futures | 5 control blocks, whenN of 0 to 2 |
| downloader | 2 documents, 2 threads, 2 attempts, 2 runs with interrupts and kills |
| issue fetcher | 4 repositories of 3 to 5 pages, 3 runs, failing requests |
| translator | 2 files, 2 keys that fail, 2 attempts |
| archiver | 3 mails that refer to 4 ids, 2 runs |
| search | directory, file and archive; up to two options after two words |
| threaded code | registers of 8 bits, 4 registers; the generated programs, opcodes 28 to 59 in every interpreter |
| tokenizers | documents of 14 tokens with any two values, all texts of up to 3 of 9 characters, every single character |
| stacks | 2 stacks, sizes up to 3, all seven designs, 2 copies that throw in a copy constructor or an assignment |
| linker | up to 3 objects, all relocation types, limits scaled to 128 |
| pipelines | up to 6 keys in tables of 0 to 4 elements, 1, 2, 3, 4 or 6 streams, a ring of 3 slots |
| cuckoo filter | 5 items, 2 or 8 buckets, 2 relocations |
| alias table | all weightings of up to 4 indices in sixths, one product off by up to an epsilon |
| kernels | ranges around 0, one lane, one unrolled round and both; interesting elements at the seams |
| I/O | seven modes, any call fails, the machine stops at any time |
| log records | configurations of up to 3 entries, nested once; integers, doubles and texts around every limit of the conversions; two days, a clock that is set back; all dates around the ends of months, years and centuries; tables with their real rows, orders of up to 3 tags |

Deadlock is checked in `fluent` and `uring_drain`. It is not in the others: their
programs end, or their callers may stop calling; the liveness properties say what must
still happen.

## 4. Assumptions about the environment

Results of the passing runs hold under these, and say nothing without them.

- **Thread pool: the program destroys the pool only when no slow job is queued or in
  progress** (`Caution = "quiet"`). The pool offers no call that tells. Anything
  weaker lets a worker use a destroyed member, which is undefined behaviour
  (`threadpool_lifetime`: even waiting until all jobs have run is too little). So
  `WorkEnds` covers plain jobs that are queued when the pool stops, and not slow ones.
  A worker that starts after the destructor is excluded in every run.
- **Thread pool: `stop` is set under the mutex**, the `#else` branch. The x86-64
  branch fails (`threadpool_x86`).
- **Freelist and stack: fewer exchanges than tags during one stalled call** (65536 in
  the code, `Tagged_ptr.hpp:15`). Beyond that the scheme gives no guarantee. The
  instances and the proofs have fewer pops than tags altogether.
- **fluent: at most `MAX_CALLS` sends, shutdowns and exceptions by the program.** A
  callback that throws in every round keeps `handleWrite` from running, and then output
  is never written. The program's own futures act only on connections that are not
  closed or reset, and do not throw, since that would end `run()`. `PeersServed` is
  about connections that are not reset; the server uses its own multiplexer.
- **Futures: continuations take references, one continuation per future.**
- **Logger: a record is not longer than a buffer** (it would not fit after the swap
  either), **and `write()` makes progress**: its error is not handled (`Log.hpp:1230`).
- **Coroutine context: submission succeeds and takes everything, each operation completes
  once, the completion ring does not overflow.** A resumed coroutine spawns at most one
  other before it awaits or ends.
- **Raw rings**: `sqe_head` and `sqe_tail` are not initialised in the code; they start with
  any of the values above. `CompletionsExact` says that an assert fails only for
  garbage that is not zero.
- **Web servers: a connection is not reset after it was half-closed, and sends are not
  interrupted** (`LateReset`, `Interrupts`). A late reset is reported with `EPOLLIN`,
  `recvmsg` returns 0, and the connection is never closed; after `EINTR` the response
  that was already taken off the count is lost.
- **Echo server: writes are complete.** A failed operation ends the process.
- **Cuckoo filter: an item whose fingerprint is the magic code, and items after a failed
  `add`, are excused**: a failed `add` throws away a fingerprint that may be another
  item's.
- **Alias table: numbers are exact, but for one product that is off by up to an epsilon.**

Some properties hold with exceptions: the code misbehaves in cases that the instances
contain. The formula names each case, and says what happens in it or that nothing is
claimed after it.

| Property | Exception |
|---|---|
| `NoRace`, `InOrder`, `CallsReturn` | `apply()` tests `sflag` without `smtx` (`Log.hpp:1305`), a data race with the plain stores of `swap()`, and gcc -O2 stores `sflag` first (`early`). A client that gets in between copies its record behind the old cursor, past the end of the buffer (`stray`); behind the second buffer it overwrites `ridx` and `rcur`, and nothing is claimed after that (`Alive`). `stray` happens only under `early`; once it has, order and separation are no longer claimed. The model stores and loads the two cursors together |
| `CompletionsExact`, `WorkEnds` | `pop_front` leaves `tail` at the task it took (`execution_simple.cpp:227`): the operation of a second `sync_wait` on one loop is linked behind a task that is gone, and that call never returns (`SecondWait`). `main()` waits once |
| `ResponsesExact` | without a free descriptor the kernel module drops the connection it has accepted (`server_kernel.c:82`); in user space it stays in the backlog |
| `RecordsTrue` | "Done" after a request that gave up (`fetch_issues.py:143`) is false: pages are missing. A move that fails or is killed leaves a torn archive (`lkml_archive.py:304`), of which no run says that all is done. `-N` ignores `--or` (`zxgrep.py:581`, against the usage at 166-169) |
| `InterpretersExact` | `NUM_BASIC_OPS` is 32 (`basic.cpp:48`) and there are 29 basic opcodes: the indirect version reads past its table of labels for 29 to 31, the token version counts extended opcodes from 32. Misspelt keywords hold up the `switch` and the table tokenizer (`json.cpp:404-411`), and an unterminated string ends the tail-calling one without a token |
| `HeapOwned` | case 5 "uses the swap idiom to support exception safety" (`case5.cpp:1`), and still every copy construction or assignment whose `std::copy` throws leaks one array (58-65), no more |
| `ThrowsLeaveStacks` | the `pop` of case 3, which is what that case is about |
| `LookupsExact` | from as many streams on as the ring has slots (256 in the code), a full ring looks empty and `push_back` overwrites: the searches in each full round are lost, exactly these (`coro_infra.h:18`), although `nanotest.cpp:87` says "<streams>: 1 - whatever" |
| `KernelsExact` | the assert of the alias table fails exactly when the rounding error is an epsilon or more. A clock set back to an earlier day leaves the later date in the record (`Log.hpp:588`). Logging the double 0 never returns (`Log.hpp:977`, `1035`) |

Fairness. Threads, processes, event loops and connected clients are scheduled again and
again, and the kernel completes what was submitted (weak fairness of each). A mutex is
not withheld from one thread for ever, an exchange retried for ever with the current
value succeeds at some time, and a connection is not left in the backlog while others
are accepted (strong fairness); the standards promise none of these, usual
implementations behave so. `queues`: calls in progress go on, nobody must call.
`fluent`: `run()` keeps calling `batch()`, and peers that talk read what they are sent.
`programs`: a script that was started goes on; its user starts, interrupts or kills it
at will, and need not do anything.

## 5. Proofs

Checked by TLAPS for all values of the constants that satisfy the named assumptions.

- **`BoundedMpmcProofs`**: `TypeCorrect`, `RaceFree` (`ExclusiveSlot`),
  `DeliveryCorrect`, `RefusalCorrect`, `ServedOnlyWithinInt` (`ServedWithinInt`),
  `ImplementsCells`. Assumed: `InRange`, i.e. more than one slot, a number of slots
  that divides the span of `int`, and fewer tickets than twice that span, after which
  the conversion of a ticket to `int` would come round. `ExclusiveSlot` is not
  inductive: the invariant adds which tickets are handed out and who holds them
  (`Handed`, `Held`, `Distinct`), whose turn a slot's sequence number says it is
  (`Turn`), and what slots and locals contain (`SlotContent`, `LocalContent`). Two
  threads at one slot would both have the turn, hence the same ticket on the same side,
  which no two threads hold. A ticket past the limit waits for a sequence number
  that no slot reaches with the tickets below it.
- **`QueueProofs`**, for any number of threads and elements, any ring of two or more
  slots and any sizes of buffers and files. `QueuesInv` is the conjunction of one
  invariant per class; a step of one leaves the others alone (`OneMoves`).
  - `Queue`: `WakeupsKept` (`NoLostWakeup`) and the first part of `OrderCorrect`.
    `TypeOK /\ NoLostWakeup` is inductive; the work is in the cardinalities.
  - `Fifo`: `RaceFree`, `CheckpointsHold` (the asserts of `main()`) and
    `ImplementQueues`. The number of elements held is `in - out` modulo SIZE (`Held`); a
    producer past its test keeps a free slot because the consumer can only make more
    room, and the other way round (`Producing`, `Consuming`). The refinement maps the
    ring to the slots from `out` on.
  - `Queue_v2`: `RaceFree` and `ImplementQueues`. The history variable `chain` holds the
    nodes from `_head` to `_tail`; `ChainLinked` says that the links agree with it. The
    invariant adds who holds which mutex, that the nodes of calls in progress are apart
    from the chain and from each other (`OwnNodes`), how far a push has got with the
    tail (`PushDone`), and that a pop which compares unequal has a successor
    (`PopKnows`): the tail it copied can only have moved on.
  - Logger: `OrderCorrect` (`InOrder`) and `RaceFree`, with the exception of section 4:
    `LogCase` says that a record is copied in the middle of a swap only where `sflag` is
    stored first, and that `LogInv` holds until then. `LogInv` adds who holds
    `rmtx` and where, that a client past its test or past the spin has room in the buffer
    and that a copied record stands behind the cursor (`LogCalls`), that the writer has
    the other buffer (`LogTypes`), and that the batch fits into the file or is its first
    (`LogWrites`). Buffers are swapped under a client only when it has asked for that.
- **`LockfreeProofs`**: `LifoCorrect` (`LifoSpec`) and `NodesStaySafe` (`NodesSafe`), and
  **`AtomicProofs`**, first part: `PoolCorrect` (`PoolSpec`), for any number of threads and
  nodes and for fewer pops (allocations) than tags. A node that is taken out bumps the tag
  and one that is put back keeps it. While the tag is the one a pop has loaded, nothing was
  taken out since: the old head is still linked, and the link that was read from it is
  still right (`SCurrent`, `FCurrent`); so the exchange, which also compares the pointer,
  succeeds only with the current successor. The invariants further say which tags the head
  and the copies may have (`STags`, `FTags`), that linked nodes, free nodes and the nodes of
  calls in progress are disjoint (`SSeparate`, `FSeparate`), and what a prepared node
  contains (`SPrepared`, `FPrepared`).
- **`AtomicProofs`**, second part: `TypeCorrect`, `MutualExclusion`, `LockWordCorrect` and
  `EveryIncrementCounted`, for finite disjoint sets of writers and readers and any finite
  set of spinning threads. The invariant ties the lock word to the cardinality of the
  readers inside, and adds that a reader about to exchange has loaded a value it may use.
  For the sum, the increments that were made are pairs of a thread and a round
  (`Made`, `Added`), and the counter is the cardinality of that set.
- **`ThreadPool`**: `RunsAtMostOnce` (`AtMostOnce`), `SlowJobsCounted` (`SlowLimit`),
  `SlowJobsAnnounced` (`PendingHasMessage`), for any number of workers and jobs and both
  builds. The invariant says of each job that it is in at most one of the two queues or
  with one worker and has not run (`Once`), and that pending slow jobs have a message
  queued or in the hands of a worker that has not looked yet (`Announced`).
- **`UringContext`**: `InflightCorrect` (`InflightExact`) and `HandlesHeldOnce`
  (`HeldOnce`), for any finite set of coroutines and any ring sizes. The invariant
  says that `_inflight` is exact all the time and not only between two rounds
  (`Counts`), and that the four places a coroutine can be in have no repetition and
  are disjoint (`Separate`, `Places`), from which the cardinalities of `HeldOnce`
  follow.
- **`RuntimeProofs`**: `RuntimeOnce` (`AtMostOnce`), `RuntimeSlowPath` (`SlowPath`) and
  `RuntimeCoroutines` (`CoroutineBooks`) carry the two above over to the composition
  that TLC runs: a behaviour that runs a program takes steps of that program only.
- **`FluentProofs`**: `PoolKeepsItsShape` (`WindowClosed`), `LiveObjectsStay`
  (`KeepsLive`), `BundlesStayLive` (`LiveBundles`) and `FinComesLast` (`FinLast`), for the
  pool alone and for the whole server, for any connections, `PREFETCH`, `GC_THRESHOLD`,
  any socket buffer and sends of any length. Three layers:
  - pool: `WindowClosed` is inductive together with the types; a loop of `emplace` is
    handled step by step by `StepKeeps` and `SearchKeeps`;
  - one connection: `Sound` says what holds of the record of a `Context` between two
    handlers (without EVENT_WRITE nothing waits, after FIN nothing waits or is
    written, a closed connection is out of epoll, the poll of `shutdown()` belongs to a
    connection that is no longer CONNECTED), `Follows` what a handler may do to it
    (DISCONNECTED is final). One lemma per handler, whatever its callback does or throws;
  - server: `ServerInv` ties both together. The slots in use are the connections that are
    not CONNECTING, the reusable ones are those that are DISCONNECTED, and when `accept()`
    may reuse a slot no event and no poll refers to a DISCONNECTED connection: epoll
    reports registered ones only, and the looper has ended the polls of the round before.

Only model-checked, and why:

- all liveness, as fairness and ENABLED are beyond the prover;
- the lock-free queue (`QueueExact`), which is not proved here; its append is not atomic
  (`lfqueue_append`), so it does not follow from a refinement like that of the stack;
- `Completions`, whose sums over the sends of a connection need induction over
  sequences;
- `CompletionsExact`, `ResponsesExact`, `HerdAsSaid`, which are about several programs
  each;
- everything under `Programs`: what a recursive definition computes for every input
  cannot be proved, as induction over data is out of reach. Kernels, interpreters,
  algorithms and log records are compared with their references on bounded inputs.

## 6. Findings

| Run | Source | What the code does |
|---|---|---|
| `lfqueue_append` | `Concurrency/Queue_lockfree.cpp:98` | a recycled node's link starts at tag 0 again, so a stalled push can link behind a node that is not in the queue; the comment promises an atomic append. Once no call is in progress nothing is lost (`QueueExact`) |
| `threadpool_x86` | `Concurrency/ThreadPool.cpp:90` | `stop` is stored without the mutex; a worker between check and wait misses the notification and never leaves |
| `threadpool_lifetime` | `Concurrency/ThreadPool.cpp:42` | slow messages refer to a member of the pool object and outlive it, although `runSlowMessage` was made static for that reason |
| `fluent_shutdown` | `net/fluent/include/network/Context.h:153` | a shutdown that finds bytes in output never sends FIN |
| `uring_drain` | `liburing/coroutine.h:182` | `drained()` misses operations prepared while reaping, so the documented loop leaves coroutines suspended |
| `elf_weak` | `llm4fun/linker/mini_elf_linker.cpp:445` | a reference inside the object that holds a weak definition keeps its address, while other objects get the strong one |

## 7. Limits

What the models of the modelled parts leave out, and what was seen on the way without
a run of its own.

Concurrency. Memory orders. The destructor of a thread pool that was never used
dereferences a null `_data` (`ThreadPool.cpp:90`). A lock-free `pop` can report empty
because its consistency check compares nothing (`Queue_lockfree.cpp:142`).

fluent. The memory of `Buffer`, socket options, and the outer multiplexer, whose thread
polls concurrently (`Multiplexer.h:50`). A direct send may overtake output that waits
(`Context.h:181`): the order of bytes between the two is not modelled. The pool tries
only the slot at `_reusableIndex` (`Pool.h:43`); at most 16 events are fetched per round
(`Multiplexer.h:53`); an `INVALID` completion polls true although its comment says never
(`SendPolicy.h:18`); after a reset the error event throws in every round
(`HandlerBase.h:18`). Futures: `whenAny`, `whenNIf` and functors that take the value by
copy; for those `Future.h:59-60` says "will copy" while the value is moved.

Logger. The text of file names, the sizes of the scratch arrays (`bufcnt`, `strcnt`,
`iovcnt`), days before 1970 and years from 2050 on, `INT_MIN`, and the rounding of
doubles, which are exact decimals here. `copy()` leaves `_msg_align` out (line 755).

io_uring. `io_uring_submit` may return `-errno`, which is added to an unsigned counter
(`coroutine.h:152`). Raw rings: `get_sqe.cpp` does not notice `sqe_tail` = 1, and the
program that peeks counts completions twice when its first batch is short.
Echo server: short writes; one client's reset or a failed accept ends the server.

Web servers. `kthread_stop` racing the thread's own exit, the test `!server_fd`, a failed
accept in the kernel module (an uninitialised value is used), descriptors from 1024 on,
blocking sends, and the user-space thread that is cancelled without cleaning up. epoll
programs: the 100 ms timeouts of `interest.cpp`.

Scripts. Fetcher: a torn checkpoint makes every later start raise. Translator: limits
on the number of workers. Archiver: two threads of one name (`lkml_archive.py:242-247`).
Search: `-o` with an ancestor of the input (line 218), `--install` and `--clean`.

Interpreters. Signed overflow is taken as wrapping. A scan that stays at a misspelt keyword
is cut off, as the tests do (`json.cpp:1106-1107`).

Linker. A weak undefined symbol that comes first hides a strong undefined one (line 455);
`SHN_COMMON` symbols get address 0; read-only `NOBITS`; reading files and the section
accessors (lines 30-118).

Algorithms and kernels. Cuckoo filter: with N up to 2^16 the alternate bucket of every
item is bucket 0 (FIXME at line 167). Alias table: in doubles {0.01, 0.02, 0.97} leaves
1.0000000000000002 and the assert at `alias_method.cpp:83` fails although the
precondition holds. Kernels: `ascii128` without its overflow flag is only for ASCII
text, the sorts are only for powers of two, the halves of `parallel()` are taken as
independent. Pipelines: `tcalloc` compares `root->size <= sz` (`coro_infra.h:80`), met
with one frame size only.

I/O programs. Mode 4 writes a buffer it has not initialised; mode 6 compares 7 bytes.

## 8. Not modelled

| Part | Why |
|---|---|
| fluent: `utils/ThreadPool.h` | a simpler form of the pool that is modelled, not used by the library |
| fluent: utilities and exceptions | traits, value holders, string functions without state of their own |
| shared pointers | drafts whose point is the memory order of two operations |
| singleton, swap and reordering tests | the outcome is the hardware memory model |
| allocators and type erasure | an array with a fill counter, one `mmap`, a virtual call |
| `Algorithm/lisp.cpp` | a function of its text, by recursive descent |
| `sender_receiver.cpp`, `stdexec/simple.cpp`; `cat`, `cancel_all`, `signalfd` of `liburing/` | inline calls, or a fixed sequence of requests |
| micro-benchmarks, language demonstrations | nothing to be right about, or only what the compiler says |
| kernel demonstrations | the state is in the kernel: signals, TCP options, linger, page cache |
| I/O and memory tools, TCP state scripts, document scripts | pure input and output |
