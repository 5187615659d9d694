# TLA+ models of High_Performance_Server

The server is a single process: one main thread runs an epoll loop, a pool of
worker threads handles requests, and a priority queue of timers closes idle
connections.  The repository keeps the versions that led to it under
`history_version`: echo servers with a process, a thread or an event per client,
and a first request handler.  This directory holds specifications of both, TLC
configurations that check them on small instances, and theorems about them
checked by TLAPS.

## The system

| part | code | state | operations |
|---|---|---|---|
| event loop | `main.cpp` | epoll set, listening socket, the pointer `events` | `acceptConnection`, `handle_events`, `handle_expired_event` |
| connection | `requestData` | socket, `timer`, parser state, `content` | constructor, `separateTimer`, `handleRequest`, destructor |
| timers | `timer_stamp`, `myTimerQueue`, `qlock` | `deleted`, `expired_time`, `request_data`; the queue | push, pop, `clearReq`, `isvalid` |
| thread pool | `class ThreadPool` | ring of tasks, `status`, counters, `lock`, two conditions | `create`, `add`, `do_thread`, destructor |
| lock | `MutexLock`, `MutexLockGuard`, `Condition` | pthread mutex, `holder_` | `lock`, `unlock`, `wait`, `notify`, destructor |
| C pool | `threadpool_t` | the same, with a `shutdown` mode | `threadpool_create`, `_add`, `_destroy`, `_free`, `_thread` |
| request handling | `handleRequest`, `readn`, `writen` | `state`, `readTimes`, `keep_alive`, `content` | read, parse, analyse, reset |
| parsers | `parse_request_line`, `parse_request_head` | `h_state`, `headers` | one call per chunk of input |
| writing | `analysisRequest`, `handleError`, `writen` | what is left to write, the socket's buffer | header, body, error page |
| start-up | `main`, `socket_bind_listen`, `epoll_init` | listening socket, epoll, threads | one call after the other, each of which may fail |
| line reading | `get_line`; `Readline`, `Readn`, `my_read` of `wrap.cc` | a static buffer | one line, one block |
| early echo servers | `multi_progress_server`, `multi_thread_server`, `epoll`, `epoll_loop`, `epoll_unblock` | sockets; children, threads, or a table of connections | accept, read, answer in capitals, close |
| early request handler | `failed/`: `request_data`, `server_simple` | `state`, `is_error`, the timers | as request handling, in one loop that does not leave the worker |

How they interact:

* main and the workers share the epoll set, the timers (under `qlock`, except in
  `clearReq()`) and the requests (under no lock: `EPOLLONESHOT` decides who may
  touch one);
* main hands requests to the workers through `ThreadPool::add`, which may block;
* a request and its timer point at each other; deleting either clears the link;
* a worker gives a request back to main by pushing a new timer and calling
  `epoll_mod`, in that order and not atomically;
* the early servers meet their clients at a socket only: `EchoNet` is that
  meeting, and each server a module that extends it.

What is hard: ownership of a request as it moves between epoll, main, the pool,
a worker and a timer; time-outs that race with workers; condition variables;
shutdown; failing system calls; edge triggering; a slot of a table that is given
up and taken again; children that end while nobody looks; writes that a slow or
vanished client leaves half done.

What makes a part correct: a pool runs each accepted task once, in order, and its
threads neither miss a wake-up nor a shutdown; a request has one holder, is deleted
once, and never sits without holder or timer; an answer is that to its own
request, whole, in order; a server that echoes loses and repeats nothing, ends
no connection early and every connection in the end.

## Modules

| module | models | proofs |
|---|---|---|
| `TaskQueue` | abstract: a bounded FIFO queue served by workers | |
| `ThreadPool` | `class ThreadPool`, one step per region in which a thread cannot be disturbed | `ThreadPool_proof` |
| `MutexLock` | `holder_` and the mutex | `MutexLock_proof` |
| `Reactor` | event loop, connections and timers; its pool is an instance of `TaskQueue` | `Reactor_proof` |
| `LegacyPool` | the C pool `threadpool_t` | `LegacyPool_proof` |
| `RequestParser` | `parse_request_line`, `parse_request_head` as functions | |
| `RequestHandler` | `handleRequest` on one connection, call by call | `Answer_proof` |
| `Response` | `analysisRequest`, `handleError`, `writen`, and their early versions | `Answer_proof` |
| `Startup` | `main()` up to its loop | `Answer_proof` |
| `LineReader` | `get_line`, `Readline`, `Readn` | `Answer_proof` |
| `EarlyRequest` | the early request handler; extends `RequestHandler` | `Answer_proof` |
| `EchoService` | abstract: what an echo server promises its clients | |
| `EchoNet` | the early servers' clients and sockets | |
| `ForkServer`, `ThreadServer`, `EpollServer`, `EpollLoop`, `EdgeReader` | the early servers; each extends `EchoNet` | `Echo_proof`, `EpollLoop_proof` |
| `SequenceLemmas` | lemmas: a ring buffer read as a sequence, for both pools; texts that are put together and cut, and sequences without repetition, for the servers | itself |
| `MCThreadPool`, `MCReactor`, `MCLegacyPool`, `MCRequestHandler`, `MCAnswer`, `MCEcho` | constants for TLC; the last two also put several models side by side (`MCEcho` extends `EpollServer` and takes the other four as instances, `EpollLoop` twice, for tables of two sizes) | |

`ThreadPool` implements `TaskQueue` (properties `FifoQueue` and
`FifoQueueLive`, with the ring read from `queue_front` on as the queue), so does
`LegacyPool` (`FifoQueue`, `EveryTaskRuns`), and `Reactor` uses `TaskQueue` in
place of the pool.  `ForkServer` and `EpollServer` implement `EchoService`
(`ImplementsEcho`).  In every module, an operator `X_y` next to `X` is `X` with the
mistake `y`; it belongs to no specification and documents what the properties
detect.

### ThreadPool

Variables carry the names of the fields.  `pc` says where each thread is between
two points where others can interfere: `AddLock` takes the mutex and makes the
test of line 251, `AddWait` is the wait of line 252, `AddWoken` its return,
`AddPut` or `AddRefused` the rest of `add()`; the worker's actions split
`do_thread` in the same way.  `CreateThread` and `CountThread` split
`active_thread_count++`, which `create()` does without a lock.
`DestroyBegin`, `DestroyNotify` and `DestroyJoin` are the destructor, whose write
of `status` and broadcast are made without the mutex.  A notification wakes any
one sleeper.  Threads in `Spurious` may also wake by themselves.

### MutexLock

`lock()` and `unlock()` in two steps each, `Condition::wait()` in two (sleep and
return), with or without a notification, and the destructor's assertion.

### Reactor

`Requests` and `Timers` are the memory cells of the two classes; a freed cell can
be used again.  `heap` records whether a request is free, live, or has been
freed twice.  `EpollWait` returns any set of at most `MAXEVENTS` pending events,
`Accept`, `HandleError` and `HandleRead` each handle one of them, `HandleExpired`
ends the round.  A worker takes a request (`Take`), then either deletes it
(`HandleAndClose`) or sets a new timer (`HandleAndKeep`) and, in a step of its
own, registers it again (`Rearm`) or fails to (`RearmFails`).  What the handler
reads and answers is left to this outcome.

Two points need a word:

* `main()` passes an uninitialized local pointer `events` to `epoll_wait`, not the
  array that `epoll_init()` allocates.  `Init` lets it be writable or not; if it
  is not, `epoll_wait` fails whenever something is pending, and the loop goes
  round without handling it.  What else may live at a writable address is not
  modelled.  The liveness properties are stated for a writable pointer.
* `Prompt` says that a worker needs less than `TIMER_TIME_OUT` from pushing a timer
  to `epoll_mod`.  Nothing in the code ensures it.  The safety theorems assume
  it, and the run `ReactorSlow` shows that `NoDoubleFree` fails without it.

### LegacyPool

The server still builds the C pool.  All that its threads share is accessed under
one mutex, so a critical section is one step that needs the mutex to be free;
`lock` has an owner between steps only after a call that returned without
unlocking, which is what the second `threadpool_destroy()` does (`DestroyAgain`).
`threadpool_create()` starts threads one by one and may fail in between.  After
`threadpool_free()` the pool's memory is gone; what a thread would do that still
waits for its mutex is undefined and not modelled.

### RequestParser and RequestHandler

`RequestParser` gives the two parsers as functions of the fields they work on.
Input is a sequence of the characters they tell apart, anything else being one
element per word.  `Advance` is the switch of `parse_request_head()`: `h_state`
and `headers` live on between calls, the positions do not, and what is kept of the
content is read again, as in the code.  A position of 0 is the code's -1; a
key built from there starts with whatever precedes the string (`Slice`).

`RequestHandler` runs them on one connection.  A call of `handleRequest()` is one
step of some worker: `HandlePart` (more is needed), `HandleError`, `HandleAnswer`,
`AnalysisFails`, `ReadFails` or `HandleNothing`.  `errno` is kept per worker, since
`readn()` leaves it alone at the end of the stream and `handleRequest()` then goes
by it; `OtherWork` is what a worker's other connections do to it.  The client
sends well-formed requests one at a time, each with a header and with a number as
Content-length; the network cuts them where `MayCut` says, or anywhere (`AnyCut`).
`MayCut` leaves out two kinds of cut: among the headers, because the positions of
`parse_request_head()` do not live on, and exactly between head and body, because
what ends the head is then taken for the beginning of the body.  The code stands
neither; `whole` is TRUE until the network has made one, and `AnsweredAsSent` and
`RefusesOnlyBad` claim something only up to there.
`Decimal` is how a length is written, a body is the beginning of `Payload`, and
`Char` is what all of this consists of.
`writen()` is one step here and `Response` looks into it.
A request with no header at all is never answered (`h_start` skips the empty line
and waits), so the model's client does not send one.  What `stoi()` makes of a value
that is no number, to which a cut among the headers can lead, is left open.

A request line is one element of the input; `Lines` gives its method, its URL (by
kind, number of characters, and the file that it names) and its version, and
`Accepts` and `NameOf` are the checks of `parse_request_line()` and the name that it
keeps.  Two of them deserve a look.  The `/` of the version is searched from `pos`
on, where the URL ended before it was cut off: behind a URL of more than four
characters it is not found, and the request is refused, `/index.html` as well
(`HttpLength`).  And only a URL with a query, or `/` itself, sets `file_name`: for
`/a` it stays empty, and the answer is an error (`NoFile`, `AnalysisFails`).  Lines in
whose version fewer than three characters follow `HTTP/` do not occur, nor, in the
early version, URLs that contain GET or POST.

### Response, Startup and LineReader

`Response` writes one answer after another on a socket with room for `Room`
characters.  `Write` is one round of the loop in `writen()` or one `send()`: it puts
what fits, and fails once the client has reset the connection.  (EINTR and EAGAIN
send the loop round again and change nothing.)  `version` says whether the code of `src/src` or of `failed` is at work; they
differ in what a write that is cut short leads to.
The second write to a connection that has been reset raises SIGPIPE and ends the
server, since nobody calls `handle_for_sigpipe()`.

`Startup` runs the calls of `main()` in their order, each with the failures that the
code tests for, while clients connect as soon as the socket listens; the edge of
the listening socket is what a client that came before `epoll_add` depends on.
`acceptConnection` calls `accept()` once for an edge.  If that fails, the client stays
in the listen queue without an edge of its own; if `setSocketNonBlocking()` fails,
its descriptor is forgotten: `missed` counts both.  As in `Reactor`, `events`
may be unusable, and then the loop accepts nobody.

A response is remembered with its length and the place in the stream where it began,
so that what the client has been sent can be compared with what should be there.

`LineReader` has one caller who reads from several descriptors, by one of the three
functions.  `my_read()` keeps what it has read too much in one static buffer for
all descriptors; `Drains` restricts the caller to changing the descriptor
when that buffer is empty.  `pieces` remembers of each call what it consumed and from
which place on.

### EchoNet and the early servers

`EchoNet` describes a client by what the server can see of it (`peer`): it connects,
sends the characters of `Text`, stops sending, closes, or resets.  `sent`, `read`,
`got`, `taken`, `out` say how far each character has come; `fds` who keeps a
descriptor of the connection.  The servers are written against it:

* `ForkServer`: the calls of the parent's loop one by one (`accept`, `fork`, `close`,
  `signal`), a child per client with its read and its write, and SIGCHLD, which the
  kernel merges.  `wait_child()` is installed after the first `fork()`, and loops
  until `waitpid` returns 0, which it does while a child is running.
* `ThreadServer`: the array `ts` of fixed size, whose index only grows; threads that
  begin with an uninitialized `buf` and write all of it, whatever they have read; a
  `pthread_create` whose result nobody looks at.
* `EpollServer`: blocking reads and writes of a single thread, a round over the events
  that `epoll_wait` returned in any order.
* `EpollLoop`: the table `g_events`; `receive_data` and `send_data` put the slot back with
  the other event each time (`event_remove`, `event_set`, `event_add`); time-outs are
  checked a few slots at a time.  `event_add` marks the slot before it calls
  `epoll_ctl`, whose failure is only printed: `deaf` are the slots, and the listening
  socket (0), to which that has happened last.  Nobody serves them until a time-out.
  A failing `accept()` is printed and leaves the client waiting (`AcceptFails`); a
  failing `fcntl()` leaves the socket blocking (`blocking`), so that a `send()`
  without room keeps the only thread (`SendBlocks`, `SendGoesOn`, `SendReturns`).
* `EdgeReader`: edge-triggered, a read loop until EAGAIN.

`process` (`parent` in `ForkServer`) becomes "dead" when a wrapper of `wrap.cc` calls
`exit`, and "undefined" when `ThreadServer` writes past the end of `ts`.

### EarlyRequest

`handle_request()` of `failed` is a loop within one call: a step is one round of it.
The client, the network and the fields are those of `RequestHandler`; `phase` says
who has the request (backlog, epoll with a timer, pool, worker, nobody).
`PoolRefuses` is the ignored result of `thread_pool_add_task()`.

## Runs

| run | bounds | shows |
|---|---|---|
| `PoolSafety` | 1 producer, 3 workers, ring of 3 (the defaults of `create`), 2 tasks; spurious wake-ups of workers, `create()` may fail, destructor at any time | the ring never overflows, wake-ups suffice, the pool is a bounded FIFO queue |
| `PoolLive` | 1 producer, 2 workers, ring of 2; destructor; fair | while nobody destroys the pool accepted tasks run and `add()` returns |
| `PoolDestructor` | as `PoolLive` | violation: a missed broadcast, and the destructor hangs |
| `Lock` (`MutexLock.cfg`) | 3 threads | the assertion of `~MutexLock` |
| `ReactorSafety` | 2 requests, 3 timers, 2 workers, pool of 1, time-out of 2 ticks, all faults, prompt workers | nothing points at a deleted request, a request has one holder, is deleted once, and has a timer while nobody works on it |
| `ReactorLive` | 2 requests, 3 timers, 1 worker, one event per `epoll_wait`; fair | input reaches a worker, timers are reclaimed under traffic |
| `ReactorSlow` | as `ReactorSafety`, no faults, workers not prompt | violation: double free |
| `Legacy` | 3 workers, ring of 2, 2 clients who may both destroy, both modes, `create()` may fail; fair | bounded FIFO queue, graceful shutdown runs everything, `threadpool_free()` never refuses; tasks run and `threadpool_destroy()` returns while no call has kept the mutex |
| `Request` | 3 requests of 9 kinds, 2 workers, all faults, cuts where `MayCut` allows them; fair | answers fit their requests; refused are only unknown methods and versions, URLs without `/` and those of more than four characters; none is left waiting, a client that has gone is dropped once every worker's `errno` is set |
| `RequestGone` | 2 requests, workers whose `errno` is 0; fair | violation: the end of file is served for ever |
| `Answer` | a behaviour is one of `EarlyRequest` (2 requests of 6 kinds, 2 workers, all faults), `Response` (header of 2, bodies of up to 2, room for 3, 3 answers, both versions), `LineReader` (2 descriptors, 4 characters, buffer of 2, lines of up to 3), `Startup` (5 ports at the borders of the check, 4 threads, 2 clients, `events` usable or not); fair | early answers fit their requests and none is left waiting while its connection is held; what a kept connection has been sent is whole responses; a writer comes to an end; lines arrive as they were sent; a client that connects before the loop runs is accepted, or its `accept()` or `setSocketNonBlocking()` fails, unless the server gives up, `epoll_add` has failed or `events` is unusable |
| `Echo` | a behaviour is one of the five early servers; 2 clients, 2 characters each, room for 1, buffer of 2 (1 for `EdgeReader`), `ts` of 1, tables of 1 and of 2 slots, 2 checked per round, time-out of 1 tick, `accept`, `fork` and `pthread_create` failing at will, and one `epoll_ctl()` or `fcntl()` of `EpollLoop`; fair | the answers of `ForkServer` and `EpollServer` are exact, and they implement `EchoService`; `g_events` and epoll agree wherever the last `epoll_ctl()` succeeded; all five catch up with the clients they serve; `ForkServer`, `ThreadServer` and `EpollServer` end the connections of those that have left; zombies are reaped |

The bounds: a ring of 2 or 3 wraps and fills with 2 tasks in hand; two or three
workers make a notification choose; `MaxWaiting` ends the growth of
`waiting_task_num` once a ring is overfull (no run without spurious wake-ups of
a producer or a second producer reaches it).  Two requests let one time out
while the other is handled; a third timer lets a deleted one linger in the
queue; a time-out of two ticks separates "just set", "running" and "expired";
`MaxBacklog` of 2 lets two connections share an edge.  Clients start something
new only while there is a spare timer (`Spare`), which bounds the deleted timers
that linger and keeps the finite memory from blocking the server.  `MAX_BUFF` of
18 is one more than the longest head, so that a body is read in two calls;
`MAX_READ_TIMES` of 2 stands for 200; three requests on one connection let what a
request leaves behind reach a later one.  In `Answer`, `Room` is smaller than a
response and larger than a header, so that a write is cut inside either and a
following response meets a full buffer; a buffer of 2 for 4 characters is refilled
in mid-line.  In `Echo`, `Room` of 1 blocks a writer on every character; an array of
one for two clients overflows; a table of one slot is full when the second client
comes, or its slot is used again; in a table of two, call-backs and time-outs of one
connection meet those of the other.  `OneFault` lets `epoll_loop` meet one failing
`epoll_ctl()` or `fcntl()` at a time, so that the other client shows whether it is
still served; the theorems are about any number.  `FirstIsC1` leaves out
behaviours that differ only in the clients' names; symmetry proper is used only
in runs without liveness properties.

Deadlock is not checked: in every run the system may rest, since clients need not
do anything and the destructors end the pools.  That nobody waits who should not
is what the liveness properties say.

Things that the models show without a run of their own:

* a second `threadpool_destroy()` (`DestroyAgain`) returns with the mutex held, and
  the first never ends: without the condition `lock = NoThread`, `DestroyReturns`
  and `EveryTaskRuns` fail in `Legacy`;
* a request cut by the network among its headers is refused or loses a header, and
  one cut exactly between head and body is answered with part of its body: with
  `AnyCut = TRUE`, `RefusesOnlyBad` and `AnsweredAsSent` without `whole` fail in
  `Request`;
* a URL of more than four characters is refused (`HttpLength`): `RefusesOnlyBad` fails
  without the last disjunct of `Refusable`; and `/a` is answered with an error
  (`NoFile`);
* in `epoll_loop` a failing `epoll_ctl()` leaves a client with a slot and without
  service, and a failing one for the listening socket leaves all of them in the
  backlog (`NotServed` says so, for `CatchesUp`);
* `acceptConnection` leaks the descriptor when `setSocketNonBlocking` fails
  (`AcceptLeaks`);
* a spurious wake-up of `add()`, or a second producer, overfills the ring and
  overwrites a task, since lines 251-257 of `threadpool.cpp` test once (`SlotFree`
  with the producer in `Spurious`, or with two producers), while `EnoughAwake`
  survives, as the theorem says;
* without traffic timers are never reclaimed: `epoll_wait` has no time-out
  (`main.cpp`, lines 135 and 186);
* connections that arrive together stay in the backlog until the next one comes,
  since `acceptConnection` accepts one per edge;
* a time-out of `epoll_loop` closes the descriptor and then asks epoll to
  remove it; the wrapper exits, so the first idle client ends the server, where the
  comment at line 51 of its `server.cpp` means to close one connection;
* `wait_child()` of the forking server does not return once there is no child left
  (`parent = "stuck"`), and a child that ends before `signal()` stays a zombie;
* an early request that the pool refuses is held by nobody (`phase = "lost"`), and
  a client that leaves in mid-body keeps an early worker for ever;
* `Readline()` on one descriptor returns what was read from another: with
  `Drains = FALSE`, `LinesAsSent` fails in `Answer`;
* SIGPIPE ends the server (`step = "killed"` in `Response`).

Fairness: weak fairness of each thread, that is, the scheduler runs every thread
that can run and handlers return; the callers of `add()`, the clients and the
destroyers are under no obligation to start, nobody has to connect or to leave,
and no fault has to happen.  In `ThreadPool` weak fairness does
not promise a contended mutex to anyone; the liveness properties hold because
the contenders drain the ring and sleep.  In `LegacyPool`, where a critical
section is one step, it says that a waiting thread gets a mutex that nobody
keeps.  Two steps of `Reactor` are strongly fair.  `Tick`: time passes, although
`Prompt` may hold it up while a worker finishes.  `Report(s)`: a socket that stays
ready is reported, although an `epoll_wait` may be full without it; the kernel
leaves the rest at the head of its ready list.  In `RequestHandler` what the
client has sent arrives, unless it hangs up, and a socket with something to
report gets a worker, which is `EventReachesWorker` of `Reactor`.  In `Answer` and
`Echo` the main thread, each child, thread and worker and the handler
`wait_child()` are weakly fair, and so is a client's reading of what it has been
sent while it listens; `Startup` assumes that `main()` runs, `LineReader` nothing.
`CatchesUp` excepts behaviours in which `accept()` of `epoll_loop` fails again and
again.  It, `EndsAfterClient` and `ZombiesReaped` say that the system is in order
again and again (`[]<>`); as a client that is behind, a connection that has not ended
and a zombie stay as they are until the server acts, this is that each of them is seen
to in the end.

## Theorems

All are for every value of the constants allowed by the modules' assumptions.

* `ThreadPool_proof`: type correctness (`TypeCorrect`), exact counters
  (`ActiveCountCorrect`), and that a worker never sleeps while tasks lack workers
  (`WakeUpsSuffice`), for any number of producers and with spurious wake-ups.  For
  a single producer that is not woken spuriously, as in this server: no overflow
  (`RoomForTask`), no missed wake-up of `add()` (`NoMissedSpare`), and that the pool
  implements `TaskQueue` (`ImplementsQueue`).  The invariants relate the program
  counters to the mutex (who is between taking and releasing it) and to what was
  tested under it (`ControlInv`, `RoomInv`, `FullInv`); `AwakeInv` counts the
  workers that are awake, or hold the mutex between their test and their sleep,
  against the tasks in the ring; `RingInv` says that the slots from `queue_front` on
  hold tasks, that `queue_rear` follows them, and whose local `task` is one.
* `MutexLock_proof`: type correctness, the destructor's assertion
  (`AssertionHolds`) and `ClaimHolds`, from an invariant on who may be named by
  `holder_` at each point.
* `Reactor_proof`: `TypeCorrect` without further assumptions; under `Prompt`,
  `DeletedOnce`, `PointersValid`, `HeldOnce`, `LinksCorrect`,
  `PoolRequestsDetached` and `IdleTimed`, for any number of requests, timers and
  workers and any faults.
* `LegacyPool_proof`: `TypeCorrect`, `FreeAccepted` (`threadpool_free()` never refuses
  once the threads have been joined) and `Drained` (a graceful destroy frees an
  empty, idle pool), for any ring, any number of threads and of callers.  Its
  invariant counts the live threads (`Count`), and says that during `create()`
  nobody else acts (`Creation`), that a thread ends only when it must (`Ends`) and
  that only a caller who has joined all of them frees the pool (`Joined`).
  `ImplementsQueue` adds what the ring holds (`RingInv`) and shows that the C pool
  implements `TaskQueue`, with any number of callers: `threadpool_add()` refuses
  where `ThreadPool::add()` would sleep.
* `SequenceLemmas`: in a ring of any size, storing behind the last task appends to the
  sequence of what it holds, and moving the front drops its head; what cutting and
  putting together again does to a text.
* `Echo_proof`, about the early servers, for any clients, text, buffer, table and socket
  sizes and any faults (`EchoAssumption`, `EarlyConstants`):
  * of the composition `MCEcho`, that is, of whichever server runs: `EchoTyped` (types),
    `EchoAnswers` (`EpollServer` and `ForkServer` answer exactly what they have
    read), `EchoTables` (`SlotsConsistent`) and `EchoImplements` (`EpollServer` and
    `ForkServer` implement `EchoService`, step by step); of `EpollServer` alone
    `TypeCorrect`, `EchoCorrect` and `ImplementsService`.
  * What all share is in `Sockets` (types; who waits in the backlog waits once and has
    connected) and, for the two that answer right, `Exchange`: a client has been read
    no further than it has sent (`ReadWhatWasSent`), nothing happens to it before
    it connects (`NothingBefore`), and what it has been answered, with what is
    still to be written, is what has been read (`Echoed`).  Each system call and
    each step of a client is shown once to keep them, for all servers.
  * `EpollServer` adds that it has the descriptors of those it has registered,
    reports or still answers (`Owned`).
  * `ForkServer` adds who holds the descriptors of a connection (`Forked`): while
    the parent is not stuck in its signal handler, their number is that of its child,
    if it runs, and of the parent between `accept()` and `close()`, whichever of
    the two closes first.  So the last `close()`, which is what ends the connection,
    is by the parent or by the child, and the end is right because a child ends only
    when its client has left or has been answered in full (`Finished`).  The same
    count is why `fds` never falls below 0.
  * `ThreadServer`: while the process runs, a thread has its connection's one
    descriptor (`Threaded`); `EdgeReader`: an edge, or a loop of reads, has a
    client (`EdgeInv`).
  * `EpollLoop`: the lemmas of `EpollLoop_proof`, instantiated for `OPEN_MAX` slots
    and for one (`LoopInv`).  The servers that do not run keep the table of
    `EpollLoop` empty, which is part of `EchoInv`, the conjunction of all these.

* `EpollLoop_proof`: type correctness and `TableConsistent`: `g_events` and epoll agree
  wherever the last `epoll_ctl()` succeeded, for any clients, text, table, number of
  slots checked per round, time-out, buffer and faults (`EchoAssumption`,
  `LoopConstants`), so that any number of `epoll_ctl()`, `accept()` and `fcntl()` may fail.
  That the two agree does not follow from itself: a call-back changes the slot that it was called for, so the
  invariant also says that the call-backs left in a round are of slots in the tree
  (`Round`: one that was given up, or taken again, has none left), that whoever has
  a slot has been accepted and does not wait to be (`Registered`), and that a client
  waits once (`WaitsOnce`); otherwise `accept` could give a slot to a descriptor
  that has one.
* `Answer_proof`, about the composition `MCAnswer`, for any sizes of headers, bodies and
  socket buffers, static buffers and lines (`AnswerAssumption`):
  * `ResponsesWhole`: while the connection is kept and its client reads, the
    stream is whole responses.  The invariant `AsLengthsSay` says where in the stream
    each answer begins, that all but the last are whole, and that of the last exactly
    what is still to be written is missing (`Partly`); only so does a write that is
    cut short leave something that the next one can complete.
  * `LinesInOrder`: each call of `Readline()`, `Readn()` or `get_line()` consumes the
    next piece of its own descriptor.  Under `Drains`, as in the run: what the code
    does without it is said under the runs.  The invariant follows each character:
    a descriptor's stream is what its calls have consumed, then what the call under
    way has (`Pos`), then the static buffer, whoever it belongs to (`FlowFor`),
    then what has not been read (`Arrived`); each piece before ends where it should,
    as far as the reader could see (`TakenAt`), and in the current one there is no
    end yet (`InPiece`).
  * `Answered` and `Refused`, of `RequestHandler`, and `EarlyAnswered`, of
    `EarlyRequest`: every request is answered with what it asked for, in its turn,
    and what is refused is refused for its own line (`Refusable`: method, version, URL
    without `/` or of more than four characters), for any request lines and bodies,
    any number of requests on a connection, workers, faults, `MAX_BUFF` and
    `MAX_READ_TIMES`.  The network may cut anywhere (`AnyCut` is any BOOLEAN): the
    properties themselves say that they hold until a request has been cut among
    its headers or exactly between its head and its body (`whole`), cuts that TCP
    may well make.  The hypothesis `Orderly` is about the requests: a head fits into
    one `read()`, and `POST`, and no other
    request, has a body (without a body the handler would take the rest of the empty
    line for one and wait for it to grow; see also the hazards).  The
    invariant `Conversation`, which holds while `whole` does, and which only a
    delivery can end, says that while a connection is open either
    the client waits for nothing and the request is new (`Idle`), or the text of
    the request that is not answered yet is laid out, in this order, over what the
    handler holds, the socket and the wire, and the fields of the request are
    those of one of three places in it (`Busy`: `AtLine`, `AtHead`, `AtBody`).  It
    rests on what the parsers compute: `LineRead` (the request line) and
    `HeadReadIs` (the head, by following `parse_request_head()` through each
    header, `OneHeader`, to the empty line, `EmptyLine`, where `Trace` is the
    sequence of its states), and on what `readn()` hands them (`ReceivedIs`).
    `EarlyConversation` adds where the early version keeps the request (`Placed`).
  * `Typed` and `AnswerTyped`: the types of `RequestHandler` and of all four models,
    under `Orderly`, `~AnyCut` and `Drains`; a parser that has lost its place may
    leave the states that the types allow.

`ActiveCountExact`, `NoFalseClaim`, `TimersLinked`, `DetachedInPool` and
`SleepsOnlyIfFull` are stated by theorems and by no run.  Model-checked only are the
liveness properties.  `EchoExact` says nothing of `ThreadServer`, which writes its
whole buffer however little it has read, of `EpollLoop`, which drops answers that
do not go out at once, and of `EdgeReader`, which answers nothing.

The inductive invariant `IInv` of `Reactor_proof`: nobody holds a request twice
(`TasksOnce`, `WorkersOnce`, `BatchOnce`), two parties never hold the same and a
request is disarmed exactly while somebody holds it (`Apart`), a round's events
are all handled before the next (`RoundOver`), links go both ways
(`TimersLinked`), a live request has a timer except between `separateTimer()` and
the next one (`HasTimer`), and the timer that a worker has just set is not
expired (`InTime`).  None of the invariants checked by TLC is inductive: that
`delete` meets a live request needs to know who else could have deleted it,
which is what `Apart` and `HasTimer` say, and that a worker's request has not
timed out under it is `InTime`, the only place where `Prompt` is used.

Out of reach of the provers and left to TLC: liveness under fairness and `ENABLED`.
The theorems of the library about induction have an operator as a parameter and
cannot be cited; `SetInduction` (a set of naturals with 0 that is closed under
successor has all of them) takes their place where a recursive function is
shown to exist (`ReadingExists`, for the scan of `parse_request_head()`).

## Not modelled

`RequestParser` leaves out values of more than 255 characters and the request lines
named above; what a file contains and under which MIME type it is sent are not
modelled anywhere, nor is the wording of answers.
`timer_stamp::update` and `epoll_del` have no caller.  `Buffer`, `EventLoop`,
`SocketOpts` under `src/base` and `src/net` and the programs under `test` are stubs.
Of the early versions: `bsModel` is empty, `epoll_nonblock_io` has the server of
`epoll` again, `failed/src/server_epool.cpp` that of `epoll_loop`; of
`failed/src/epoll_tool.cpp` and `socket_tool.cpp` only what the request handler calls;
the `CMakeFiles` directories are generated.  The header
parser of the early request handler is that of the current one, up to names, and is
taken from `RequestParser`; its request lines are read by `parse_uri`.  Weak memory: unlocked accesses are single steps in
program order.

The models stand for about a third of the lines of the repository that are neither
documentation nor data; most of the rest are the generated compiler tests, the
copies of `wrap.cc` that differ in nothing modelled, and what is named above.

## Plan

1. done: `TaskQueue`, `ThreadPool`, `MutexLock`, `Reactor`, with their runs and
   safety theorems.
2. done: `LegacyPool`; both pools implement `TaskQueue`, for every size.
3. done: `RequestParser` and `RequestHandler`; `Response`, `Startup`, `LineReader`.
4. done: the early versions; `EpollServer` and `ForkServer` implement `EchoService`, and
   all five servers are well typed, for every size.
5. left: `RequestParser` against a reference parser over all short inputs and cuts;
   numbers in Content-length; a header parser that is cut anywhere.
6. left: `RequestHandler` as the handler of `Reactor`, with the timers of a
   connection that is served in pieces; the worker's unlocked `clearReq()` (line
   81 of `requestData.cpp`) in two steps.
7. done: `Response`, `LineReader`, `EpollLoop`, `RequestHandler`, `EarlyRequest` and
   `Startup` for every size.
