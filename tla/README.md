# Async-Server in TLA+

Models, model checks and proofs for Async-Server, an epoll server in C++11. The
source is the reference: every definition is translated from the code, and
`PROJECT.json` ("map") names the lines each one stands for.

## The system

| part | source | state | operations |
|---|---|---|---|
| event loop | `async_event_processor.h` 123-228 | `event_num`, `epoll_events`, `dispatch_token` | test the token, `epoll_wait`, open the token |
| dispatch threads (4) | 324-397 | locals, `dispatch_token` | poll the token, cut `event_num` into segments, call the handlers, close the own bit |
| handlers | 504-680 | `connection_info`, `write_cache`, epoll's registrations, `active_connect_num` | `accept_handler`, `read_handler`, `write_handler` |
| application interface | 236-320 | `data_package_queue`, `write_cache` under a mutex | `asyn_read`, `asyn_write`, `acquire_package`, `release_package` |
| collector | 457-502 | `garbage_can`, `write_cache`, the pools | `connection_resource_gc` |
| pools | `transfer_info_manager.h` 60-130 | a queue of free structs, a counter | `get`, `put`, `remain` |
| `lockFreeQueue` | `queue_lock_free.h` 18-477 | ring of blocks with indices and local copies of indices | `enqueue`, `try_enqueue`, `try_dequeue`, `pop`, `peek`, `size_approx` |
| `BlockinglockFreeQueue` | 480-599 | a queue and a semaphore | the same, and `wait_dequeue`, `wait_dequeue_timed` |
| `LightweightSemaphore` | `atomic_ops.h` 425-500 | `m_count`, `m_sema` | `tryWait`, `wait`, `wait(usecs)`, `signal`, `availableApprox` |
| examples | `echo_http.cpp`, `test_http.cpp` | states by connection id | read, answer, close |

How they interact. The main thread collects a batch of events and opens the
token; four dispatch threads handle a contiguous segment each and set their bit
of the token; the main thread waits for all bits. The handlers pass received
packages to the application threads through one blocking queue per dispatch
thread, and the application passes answers back through lists in `write_cache`
and by arming EPOLLOUT. A closed connection goes through `garbage_can` to the
collector, which cancels pending packages and recycles the `connection_info`.
Packages and `connection_info` live in pools, which are blocking queues too. All
blocking queues are one algorithm: a single-producer single-consumer ring behind
a semaphore.

What is hard in it: the token is closed by several threads without a lock; the
ring and the semaphore are lock-free; the handlers, the application and the
collector act on one connection in any order, and the lock covers the map and
not what is done with epoll; events are handled after the state they were
reported for has changed; connections come and go while the application works on
their requests, and descriptors, structs and ids are used again; the queues have
more users than they are made for; the pools, and with them the dispatch threads,
can come to a stop. The hazards are
listed one by one, each at its line, in `PROJECT.json` ("hazards").

## The modules

| module | models | checked by | proved in |
|---|---|---|---|
| `WorkSegment` | the cutting of a batch into segments, with the widths of `int` and `size_t` | with `Dispatch` | `DispatchProofs` |
| `Dispatch` (EXTENDS `WorkSegment`) | `event_loop` and `dispatch_worker` | `MCDispatch` | `DispatchProofs` |
| `CountingSemaphore` | what a semaphore promises (abstract) | | |
| `LightweightSemaphore` | the semaphore; refines `CountingSemaphore` | with `BlockingQueue`, `PackagePool` | `BlockingQueueProofs` |
| `FifoQueue` | what a queue promises to one consumer (abstract) | | |
| `SpscQueue` | `lockFreeQueue`; refines `FifoQueue` | `MCSpscQueue` | `SpscQueueProofs` |
| `BlockingQueue` (EXTENDS `LightweightSemaphore`) | `BlockinglockFreeQueue` | `MCBlockingQueue` | `BlockingQueueProofs` |
| `PackagePool` (EXTENDS `LightweightSemaphore`) | a pool used by several threads | `MCPackagePool` | `PackagePoolProofs` |
| `Connection` | one connection: handlers, application, collector, peer | `MCConnection` | `ConnectionProofs` |
| `Connections` | several connections and what they share | `MCConnections` | `ConnectionsProofs` |
| `Server` (EXTENDS `WorkSegment`) | dispatch threads, pools and application together | `MCServer` | `ServerProofs` |
| `EchoWorker` | the worker of `echo_http.cpp` | `MCEchoWorker` | `EchoWorkerProofs` |

The processor is seen at four distances. `Dispatch` has the token, with the
handlers as one step. `Connection` has every step of the handlers and of
`asyn_write` for one connection. `Connections` has fewer steps for each and more
of them: the questions are about what one connection can do to another. `Server`
has the barrier, the pools and what stops a thread, with connections that stay
open. Each module's introduction names the others that hold what it leaves out.

Definitions marked "Mutant" are altered copies of the operator below them. No
specification uses them; put in the operator's place they violate the property
that `PROJECT.json` ("mutants") names, which shows that the property bites.

### Dispatch

`dispatch_token` is the set of threads whose bit is 1. It is `volatile`, so every
occurrence in the source is an access of its own: `BuildToken` reads it for the
new word, `ReadExpected` reads it again for the value the compare-and-swap
expects, and `SwapToken` or `RetrySwap` is the compare-and-swap. If another
thread closes between the two reads, `SwapToken` succeeds and drops its bit; the
history variable `overwritten` records that. The other history variables count
the handler runs of each event (`handled`) and the failed swaps (`retries`).
`ComputeSegment` reads `event_num` in one step. The handlers are one step
(`HandleEvent`): what they do to a connection is the subject of `Connection`.

The code promises a barrier (comment at lines 212-214). What holds:

* as long as no bit was dropped, `event_loop` replaces a batch only when every
  thread waits (`BarrierUnlessOverwritten`), each reported event is handled exactly
  once (`BatchHandledOnce`), and a thread loses its swap at most THREAD_NUM - 1
  times, as the comment at line 391 has it (`RetryBoundUnlessOverwritten`). All
  three are proved for any number of threads;
* dropped bits make the barrier fail from three threads on (`dispatch_barrier`). On
  the way a thread whose bit was dropped handles its segment a second time. When
  the token is closed under a working thread, its events may not be handled in
  this batch at all (epoll, being level-triggered, reports them again), and a
  thread can lose its swap more often;
* in any case each batch comes to its end (`BatchFinishes`): a dropped bit makes
  its thread go round once more, never wait for ever.

`epoll_wait` may also return -1 (a signal; nothing handles it). Then the
comparison of the `int` with a `size_t` and the truncated quotient send the last
thread to negative indices. The arithmetic of `WorkSegment` has that, with both
widths; `OnlyReportedUnlessOverwritten` excludes it by a condition, and the runs
let `epoll_wait` succeed.

### LightweightSemaphore, SpscQueue, BlockingQueue

Each atomic operation of the semaphore is a step; a timed wait may time out at
any moment, also when a post is there. `avail` counts the permits signalled and
not yet acquired, and is the `permits` of `CountingSemaphore`.

`SpscQueue` steps through `inner_enqueue` and `try_dequeue` one shared word at a
time, with the producer's and the consumer's local copies of the other's index.
`pop` and `peek` run through the same steps as `try_dequeue`; `op` says which one
it is. The refinement of `FifoQueue` maps the elements along the ring, from
`frontBlock` to `tailBlock`, to the abstract sequence; it says at which step an
element enters and leaves, and that "empty" is an honest answer.

`BlockingQueue` puts the semaphore's steps around a FIFO queue: `SpscQueue` shows
that the inner queue is one for one producer and one consumer, and an enqueue is
in the queue before the semaphore is signalled.

### PackagePool

The same container where every user puts and gets. Its queue is the FIFO queue that
`SpscQueue` implements, with as many blocks as it needs: the real pools keep 10000
packages, or 2501 `connection_info`, in blocks of at most 512 slots, and change blocks
all the time. The refinement (`QueueIsFifo`) holds for one call at a time at each end, and
that a different thread makes each of them changes no step. `put` is `BeginPut`, then
`EnqueuePackage` or `EnqueueFails` (no memory; `put` does not look at the result), then
the semaphore's `SignalPackage` and `PostPackage`; `get` is the semaphore's wait and then
`BeginDequeue`, and `DequeuePackage` or `FindNothing`. Whoever holds a package may put it
back: dispatch threads, the collector and the application all do.

What one producer and one consumer may rely on, several may not. The history
variable `raced` records the three ways in which that shows: two users inside
`inner_enqueue`, two inside `try_dequeue`, and more users that have seen a permit than
there are permits. Before the first of them every package is in the pool exactly once, outside, or
lost to a put without memory (`PackagesAccounted`), each `get` behind the semaphore has a
package to take (`GetFindsPackage`), and nobody sleeps beside one (`AsleepMeansEmpty`). After
it only the calls under way end, with nothing said about them: everything can go
wrong then, and nothing in the code promises otherwise. So the properties do not catch these
races; they say that there are no others, although signals, posts and sleeps of several
users, and puts during gets, interleave freely.

### Connection

One connection from `accept_handler` to the collector. `hpc` and `hpkg` are the
handler that a dispatch thread runs for it (never two at a time: epoll reports a
descriptor once per batch), `apc` and `apkg` an application thread in
`asyn_write`. What is done under `locker_connection_write_map` is one step; epoll
calls, `send`, `recv`, and the pools' operations outside the mutex are steps of
their own, so that the windows between them are there:

| code | actions |
|---|---|
| `accept_handler` | `Accept` (epoll takes the descriptor or does not) |
| `read_handler` | `GetPackage`, then `RecvData`, `RecvError` or `RecvNothing` |
| `write_handler` | `FrontPackage`; `ContinueListen`, or `SendAll`/`SendLess`, `PopFront`, `TestStatus` |
| `asyn_write` | `AsynWrite`, `FindEntry`, `ListenForWrite` |
| `asyn_read`, `acquire_package`, `release_package` | `AsynRead`, `AcquirePackage`, `ReleasePackage` |
| `connection_resource_gc` | `Collect` |

The peer sends, closes or resets at any moment; `Report` is epoll. The status of
a package is read after it was put back (line 658):
`CloseHonouredUnlessTaken` says that a package which asks for closing closes its
connection, unless the pool has given it out again in between.

### Connections

Descriptors (`sock`), `connection_info` structs (`fd`, `connection_id`, in `i_pool`
or `garbage_can`) and the lists of `write_cache` by id, all used again and again;
`registered` is epoll with the mode and `data.ptr` of each descriptor. A package is
reduced to the request or answer in it. After a write the application may acquire another
package for the same request, as both example programs do (`AfterWrite`). A batch is
handled to its end before `EpollWait` reports the next one, and an event is handled once:
that is what `Dispatch` shows while no bit is dropped. The collector and the application
run at any time.

| code | actions |
|---|---|
| `accept_handler` | `TurnAway`, or `AcceptClient`, `TakeInfo`, then `AddToEpoll` or `AddFails` |
| `read_handler` | `RecvData`, `RecvNothing` |
| `write_handler` | `FrontPackage`, `SendPackage`, or `ListenFill`, `ListenControl` |
| `asyn_read`, `acquire_package`, `release_package` | `AsynRead`, `AcquirePackage`, `ReleasePackage` |
| `asyn_write` | `FindEntry`, `Connect`, `ArmFill`, `ArmControl` |
| `mod_fd_in_epoll` | the `Fill` steps write the static `event`, the `Control` steps give it to epoll |
| `connection_resource_gc` | `BeginRound`, `Collect` |

`disturbed` collects what the code does not guard against: two open connections
with one id (line 533 joins a 32-bit address shifted by 4 and a port with OR, so
that different clients can get the same one), an answer that comes when its connection is gone (`late`), and two callers
of `mod_fd_in_epoll` between filling the event and using it (`mixed`). The
properties of `connections` are about states without: then descriptors, structs
and ids that come again do no harm. `connections_misdelivered` shows the shortest
consequence of a late answer: another client gets it. `Followed` bounds how far a
run goes on after a disturbance.

### Server

The barrier in one step per batch (`EpollWait` gives each thread its segment, by
`WorkSegment`), a pool per dispatch thread, and an application in the manner of
`test_http.cpp`: it releases the package of an incomplete request, and answers a
complete one with its package, or with that and a second one that it acquires from
any thread's pool. `ReadHandler` waits for
a package of its own pool in the middle of the batch; the packages it waits for
may lie in write lists that only a later batch can send.

`BatchEnds` says that no batch stops so, with the 2 * (W - 1) + 1 packages that the run
gives each pool, where W is the number of requests that can be under way. Smaller pools
are not looked at.

### EchoWorker

One `connection_id` and the connections that have it one after the other. Data is
counted in units of one length, so that a request can be cut into packages anywhere
between them: an empty line, a header line with a Content-Length, or anything else. What is
left out by this: an empty line or a header cut in the middle (`strstr` looks at the whole
buffer, and finds it when the rest has come), a NUL among the data, and the size of the
buffer (1000 bytes, of which `strcat` knows nothing). `strtod` is `Parsed`.

`MoreHeader`, `HeaderFinished`, `EchoClientHeader`, `EchoText` and `EchoBody` are
the branches of `echo_worker`, `Erase` is its `states.erase`; `SendFirst` and
`CollectGarbage` are what the processor does with a list, deleters included. Buffers are
numbered, `freed` counts how often each was freed. What can disturb a reply is part of
the model:

* `strcat` takes what a reused package had behind the received data (`Remains`), and
  with it an empty line or a whole request of somebody else's;
* a `recv` that fails counts as data (`FailingRecv`): nothing new is delivered, with a
  `data_length` of -1. It is explored as the first disturbance of a reply;
* an earlier connection with the id leaves packages, answers or a state behind
  (`Connect`);
* `Erase` reads `connection_id` again, from a struct that may serve another
  connection by then: this id's state stays, or is erased for another one (`Connect`, `Erase`).

Lifetimes of buffers (`NoUseAfterFree`, `BufferFreedOnce`) hold with all of these. What is
said of replies (`ReplyCloses`, `ClosesAfterReply`) is about replies without
(`reply.followed`), and leaves room for what the code does then, too:

* a request whose text comes in the package that ends its headers is answered, but
  never closed: `len` is looked at in the later packages only (line 89; the response
  header says "Connection: close"). `ReplyCloses` excludes it by `whole`;
* a request whose headers came without text gets no deleter for its buffer (line
  98), which is not freed. `BufferFreedOnce` counts these in `leaked`;
* the number of Content-Length is read one character late (line 68) and loses its
  first digit (`Parsed`). The reply announces the smaller length, and is told to close there;
* the text behind that early end is collected as if it were the headers of
  another request. The buffer is searched for an empty line (line 61), and if the text has one, a
  second response header and the text before it are written after the package that closes the
  connection. `ClosesAfterReply` says that this takes an empty line in what was
  received after the end; without one nothing more is written.

## Runs

| run | instance | states | what it shows |
|---|---|---|---|
| `dispatch` | 3 threads, batches of 2 and 4 events | 1,160,000 | barrier, handled once, in bounds, bound on retries, unless a bit was dropped; batches end |
| `spsc_order` | blocks of 2 growing to 3 blocks, 2 values | 760,000 | FIFO, slots, calls return |
| `spsc_room` | maxSize 4 in blocks of 2 | 926,000 | room for maxSize |
| `blocking_queue` | 1 producer, 1 consumer, count up to 3 | 1,600 | refines a counting semaphore; a permit means an element; no sleep beside an element |
| `pool` | 4 users (symmetric), 3 packages | 21,000 | packages accounted for, a get finds one, no sleep beside one |
| `connection` | 3 packages, 2 requests, 3 writes | 344,000 | closed once, packages accounted for, order, a departed peer is noticed, CLOSE honoured |
| `connections` | 3 connections on 3 descriptors, 2 structs, 2 ids, a limit of 2 | 813,000 | answers reach the asker, structs and entries accounted for, accept goes on |
| `server` | 2 threads, windows 2 and 1, 5 packages each | 425,000 | packages return to their owner, batches end |
| `echo` | 2 connections with one id, 4 requests, 3 remains | 2,763,000 | no use after free, freed once, replies close when complete and are not continued |

Three runs with "violation" each check one statement of a comment that the code
does not keep; their counterexamples are the findings of `PROJECT.json`:
`dispatch_barrier`, `connection_stuck` (an armed EPOLLOUT is overwritten and the
answer stays unsent) and `connections_misdelivered`.

Why the bounds are enough.

* `dispatch`: three threads are the fewest with which one can lose another's bit
  while a third is at work; two and four events give them fewer events than threads
  and more, with a remainder (`dispatch_barrier` has one to three). `IntHalf` and
  `SizeMod` keep the relation of the two widths at a small size. `MaxHandled` and
  `MaxRetry` stop history counters only, and lie above what the properties allow;
  in `dispatch_barrier`, where no property looks at the retries, `MaxRetry` is 0.
* Queues: a ring that grows from one block to three has a block being filled, one
  being emptied and one in between, and every index wraps. A count of three is more
  than one consumer can use between two of its steps.
* `pool`: with four users one can be asleep while one puts, one gets and one is between
  semaphore and queue; three packages leave one in the queue while two are outside.
* `connection`: three packages let one be sent, one pending and one written at once.
* `connections`: the third connection is the first for which a descriptor, a struct
  and an id have all been used before, while the other two are open or not yet
  collected. It meets the limit of two connections with a descriptor free, and a pool of
  two structs that is empty while one of them is in the garbage, which one piece
  (`GARBAGE_LIMIT`) is enough to begin. Two packages received or acquired are two requests of
  two clients, or two answers to one.
* `server`: one connection that sends ahead and one that does not, so that both
  pools, and one pool twice, can be asked within a batch; threads that have no event
  and threads that have two.
* `echo`: with `Radix` 2 the requests have no text, a length of which nothing is left, and
  a length that loses a digit, with and without an empty line in the text behind the
  early end. The remains are nothing, an empty line, and headers with text.
  `MaxInbox` bounds only how many pieces wait at once.

Deadlock is checked in the runs of `Dispatch`, `SpscQueue` and `BlockingQueue`.
In `Connection`, `Connections` and `EchoWorker` all clients may have come and gone. In
`PackagePool` every user may be asleep while the application keeps the packages.
In `Server` an overwritten EPOLLOUT (the finding of `connection_stuck`) can leave
a peer waiting that has sent all it may.

## Fairness

`Dispatch`: the main thread and every dispatch thread keep running (they are
threads that spin with `yield`). Semaphore and queues: a call that has begun
takes its next step when it can; nobody has to call. In `spsc_order` each
side returns on its own. `Connection`: the dispatch threads keep running, the
application completes the calls it has begun and reads its queue, and `send` does
not come back short for ever (`SF` on `SendAll`: the peer keeps reading). The
peer and the collector are not obliged to do anything. `Connections`: the thread
in `accept_handler` and the collector keep running. `Server`: the dispatch threads
keep running and the peers read what is sent to them (descriptors are blocking);
the application need not do anything. `PackagePool` and `EchoWorker` have safety
properties only.

## Proofs

All proofs are checked by TLAPS for every value of the constants that the named
assumptions allow (`SegmentAssumption`, `DispatchAssumption`,
`SemaphoreAssumption`, `QueueAssumption`, `BlockingQueueAssumption`, `PoolAssumption`,
`ConnectionAssumption`, `ConnectionsAssumption`, `ServerAssumption`, `EchoAssumption`; TLC evaluates
each of them in a run). They say of what kind the constants are (`PoolAssumption`: finitely many users, and a
count that can number the packages), and what the code's own
bounds are: at least one thread, not more connections than `epoll_events` has entries, an
infinite sequence of calls cut at any bound. `EchoAssumption` says that the clients' requests
are such: headers with the length of the text that follows them.

**Dispatch.**

* `SegmentsPartition`: for `0 <= event_num < 2^31` the segments are disjoint, in
  bounds and cover the batch. The only arithmetic is Euclidean division.
* `TokenIsBarrier`: the inductive invariant `TokenInv` says, as long as no bit was
  dropped, that a thread away from `poll` has its bit at 0, and so has one whose
  new word is out of date. That is what keeps the token from filling up early.
* `EventsHandledOnce`: `ProgressInv` relates each thread's place to the number of
  handler runs of the events of its segment; it needs the barrier (segments
  are computed from one `event_num`) and `SegmentsPartition`.
* `RetriesBounded`: `RetryInv` says that a thread has lost its swap at most as often as
  there are bits in the value it expects: each failure means that another bit was set since
  it was read, and no bit is taken back before the batch ends, because of the barrier.

**Semaphore and blocking queue.**

* `SemInvHolds`: with a single waiter, the count, the permits, the posts under way
  and the waiter's claim add up. `PermitsKeptForSingleWaiter` and
  `SemaphoreRefinement` follow from it.
* `AccountsHold`: elements = permits + elements whose signal is still to come (+ 1
  for a consumer between semaphore and queue). `DequeueFindsElement` and
  `SizeApproxElements` (the collector counts on the elements that `size_approx`
  reported) follow. The proof reuses the semaphore's invariant.

**PackagePool**, for any finite number of users and any number of packages. `PoolInv` has, besides
the types, the accounts until the first race. `Claims` is the semaphore's: the count is the
permits less the sleepers, and each sleeper that the count does not show was posted or is
about to be. `Permits`: the packages stored are as many as the permits, the users between
queue and semaphore, and those between semaphore and queue together. `Apart` and
`Complete`: each package is stored once, outside, on its way back, or lost, and so all are
counted. `PoolAccountsForPackages`, `GetFindsItsPackage` and `NobodySleepsOverPackages` follow.

**Connection.**

* `ConnectionClosedOnce`: `LifeInv` gives the stages of a connection (before
  accept, open, closed, collected) and says that a handler runs only while it is
  open; `LocalsInv` that the package a handler works on stays in the list.
  `ConnectionTypes` needs it for `active_connect_num`, a `size_t`.
* `ConnectionPackagesAccounted`: `ListInv` says that there is an entry from
  `accept_handler` to the collector, and that `write_handler` works on its first package.
* `ConnectionSendsInOrder`: `OrderInv` says that the list holds consecutive writes, the
  first of them the one after the last that was sent, with the one that `write_handler` has sent and not
  popped, and the one that `asyn_write` has not appended yet, at the ends.
* `ConnectionCloseHonoured`: `AskedInv` says that the package that asked for
  closing keeps its status while it is in the pool, held or queued, until it is written again.

**Connections.** `UndisturbedInv` holds until the first disturbance. Its parts, which
need each other:

* `PlacesInv`: a struct is in one of the pool, the garbage, a handler's hands or an
  epoll registration, and each registration has a struct, a descriptor and an id of
  its own. `CountInv` counts them for `active_connect_num`;
* `BatchInv`: what a batch of events refers to is still registered, with the struct it was
  reported with. The collector may run during the batch, but takes structs from the garbage
  only, and those have left epoll;
* `IdsInv` and `EntriesInv`: an id in use belongs to one connection, and the list in
  `write_cache` is there as long as the connection is;
* `RequestsInv` and `AnswersInv`: a request or answer names a connection, and if a
  descriptor serves that connection it is registered with the struct that the request names. Numbers of
  connections are not used again, which makes this hold although descriptors, structs and ids are;
* `FrontInv`: the front of the list that `write_handler` has read without the mutex.

`UndisturbedAnswersReachAsker`, `InfosAccounted`, `EntriesAndConnections` and
`FrontIsSent` follow. `ConnectionsTypes` does not need it: types hold after any
disturbance, which needs `SharedTypes` (what the locals of a handler and the events of
a batch may hold). The ids range over `AllIds`, with the 0 of a struct that was never used.

**Server.** `ServerInv` counts. `Places` is the set of places in lists, or in the queues,
where something of a kind lies, and the lemmas on it (`PlacesAppend`, `PlacesTail`) say that
appending adds one place, and taking the first removes one, by moving the others up.

* `PackagesInv`: the packages of an owner in its pool, in queues, in lists and in hands make
  `PoolSize`. `LocalsInv` says when an application thread has a package in hand, so that
  none is overwritten.
* `RequestsInv`: a request that is not answered completely is in the socket, in a queue, with
  an application thread, or its last package is in the list. From this `ServerTypes` has
  that no count goes below zero.
* `EventsInv`: a batch has one event of a connection. Therefore what `epoll_wait` has seen of it
  is still so when its thread gets there, however long the threads before it wait: a request to
  receive, and for `write_handler` the list that it has looked at. It needs `SegmentsOrdered`,
  that the segments do not overlap.

**EchoWorker.**

* `BuffersOutliveReferences` and `BuffersFreedOnce`: `BufferInv` says that each buffer
  is in one of four places (in use, pending with its deleter, left without one,
  freed), `RefInv` that a package with a deleter is the last in the list that refers
  to its buffer. The first alone does not tell that earlier packages are gone when the
  deleter runs.
* `EchoedThenClosed` and `ClosedAfterReply`: `ReplyInv` gives the stages of a reply that is
  followed. In `InHeaders` the buffer has the first part of the request, without an empty
  line, and nothing was written; in `Answered` what was announced is what was written plus
  `len`, and `len` is what `Parsed` made of the length less the text that has come; in
  `ReplyDone` the connection was told to close, and as long as nothing was written since, the
  buffer has what came behind the end, without an empty line. `PiecesInv` says that the packages in
  the inbox are consecutive parts of the request, in order. `BufferHasHeaders` finds the end of the
  headers and the length in a buffer that has them and any part of the text. That the reply
  ends before the request needs `Parsed(n) <= n` (`ParsedBounds`), which holds whatever the
  powers of the radix are, if there is a largest one below n: `LeastNatural` gives it, by
  the library's theorem on well-founded relations. `EchoTypes` is the type invariant.

**SpscQueue**, for any number and sizes of blocks. `QueueInv` is inductive without the
history variables. Its parts:

* `LocalsOK`: `localFront` and `localTail` are old values of the index they copy, so that
  the producer sees more elements in a block than there are and the consumer fewer. Distances in a
  block are `Gap`, which has no modulo; `ModNext` and `ModDifference` lead to the code's `&`
  with `sizeMask`, and `NewSize` shows that doubling a power of 2 does not pass `MAX_BLOCK_SIZE`;
* `ActiveInv`: from `frontBlock` to `tailBlock` all blocks but the first have elements, and
  from there on none has. This is why the consumer that leaves an empty `frontBlock` finds an
  element in the next block, and why the producer may fill the block after `tailBlock`;
* `ProducerInv` and `ConsumerInv`: what a call under way has found out stays true until it
  uses it, whatever the other side does;
* `SlotInv`: the slots with an element are those between the indices, the one being
  written or taken excepted. `SlotsMatchTheIndices` is this, and `QueueTypes` comes from the types.

`QueueIsFifo` is the safety part of the refinement (`FifoQueue` has no fairness). The items are defined by
recursion along the ring, which ends only because the ring is one cycle through all its
blocks. `OneCycle` says this without counting: a set of blocks closed under `next` is empty
or everything. `ItemsOfRing` builds the recursive function backwards from `tailBlock`, a
block at a time, and the least number of blocks that are left ends the construction. Then each
step is looked at: `ItemsPublish` and `ItemsAdvance` append an element, `ItemsTake` removes
the first, and no other step changes the items. `AnswerInv` adds that "empty" is honest.

`RoomForMaxSize`: `RoomInv` says that a block which the producer has left stays full
until the consumer gets there. When the next block is `frontBlock`, all blocks but
that one are full, which is `blocks - 1` times their room (`RunFromFront` counts them, again along the ring);
`ConstructorRoom` shows that this is at least `maxSize`, by the constructor's division.

Only model-checked: liveness (`BatchFinishes`, `CallsReturn`, `ElementEndsWait`,
`DepartureNoticed`, `AcceptGoesOn`, `BatchEnds`) and the fair part of the semaphore's
refinement, which the prover does not reach. Every invariant and action property of a
passing run is proved. Part of what is proved has a condition, the one the code needs as well:

* no bit dropped (`Dispatch`), one waiter (the semaphore), no race yet
  (`PackagePool`), no disturbance yet (`Connections`), nothing that disturbs the reply (`EchoWorker`);
* `Connection`, `Connections` and `Server` take the barrier for granted, with one event of a
  connection in a batch, handled once: what `Dispatch` shows while no bit is
  dropped (`BarrierUnlessOverwritten`, `BatchHandledOnce`). After a dropped bit two threads may
  handle one connection at once, which none of them models;
* `Server` and `Connections` have pools and queues whose operations are one step, and
  `PackagePool` shows when they are.

## What is not modelled

* Memory is sequentially consistent: the relaxed accesses and fences of
  `weak_atomic` are taken to give that order. The Windows and Mach semaphores are
  other implementations of the unix one.
* `write_cache.emplace` without the mutex (line 536) races with the map's other
  users. What `unordered_map` does then has no useful model; it is atomic here.
* `remain_package_num` is a plain counter that several threads change and that is
  only printed.
* What the container of a pool does once two users were in one end at once (`raced`).
* In `EchoWorker`: NUL bytes in the data, and data that exceeds the buffer of 1000 bytes.
* Start-up and destruction, the queue's move operations and
  `lockFreeQueue::size_approx`, which nothing calls; message texts
  (`str_content.h`), `event_handler.h`, which is one comment, and the Makefile.
* `main` of the examples. `test_http.cpp` starts eight workers for the queues 0 to 7
  of a processor that has four (line 49): an index out of bounds on the first call,
  with nothing to explore.

## Plan

1. Done: all modules above, and the proofs listed.
2. The barrier without condition for two threads.
