-------------------------------- MODULE Reactor --------------------------------
(***************************************************************************)
(* The life of a connection (src/main.cpp, requestData and timer_stamp in  *)
(* src/src/requestData.cpp, src/src/this_epoll.cpp).  The main thread      *)
(* waits on epoll, accepts connections, hands readable ones to the thread  *)
(* pool and deletes the expired ones; the workers of the pool handle a     *)
(* request, give it a new timer and register it with epoll again.  Every   *)
(* connection is one requestData, every timer one timer_stamp; the two     *)
(* point at each other without a lock, and the queue of timers is shared   *)
(* under the mutex qlock.                                                  *)
(*                                                                         *)
(* The pool is TaskQueue, which ThreadPool implements.  What a request's   *)
(* handler reads, parses and writes is left to its outcome.                *)
(***************************************************************************)
EXTENDS Integers, Sequences, FiniteSets

CONSTANTS
    Requests,           \* requestData objects, each with its socket
    Timers,             \* timer_stamp objects
    Workers,            \* worker threads
    NoRequest, NoTimer, \* nullptr
    Listener,           \* data.ptr of the listening socket
    TIMER_TIME_OUT,     \* lifetime of a timer, in ticks
    QUEUE_SIZE,         \* capacity of the pool
    MAXEVENTS,          \* most events one epoll_wait returns
    MaxBacklog,         \* bound: connections waiting in the listen queue
    Faults,             \* system calls that may fail
    Prompt              \* see Tick

FaultKinds == {"accept", "nonblock", "epoll_add", "epoll_mod", "epoll_wait"}

ASSUME ReactorAssumption ==
    /\ IsFiniteSet(Requests) /\ IsFiniteSet(Timers)
    /\ NoRequest \notin Requests /\ NoTimer \notin Timers
    /\ Listener \notin Requests
    /\ {TIMER_TIME_OUT, QUEUE_SIZE, MAXEVENTS, MaxBacklog} \subseteq Nat \ {0}
    /\ Faults \subseteq FaultKinds
    /\ Prompt \in BOOLEAN

VARIABLES
    backlog,        \* connections not accepted yet
    listenReady,    \* an edge on the listening socket has not been reported
    ready,          \* conditions pending on each socket: "in", "err"
    epoll,          \* registration of each socket: "none", "armed", "disarmed"
    sock,           \* each socket: "closed", "open"
    heap,           \* each requestData: "free", "live", "corrupt" (freed twice)
    timer,          \* requestData::timer
    myTimerQueue,   \* set of timers in the priority queue
    deleted,        \* timer_stamp::deleted
    request_data,   \* timer_stamp::request_data
    remaining,      \* expired_time minus the time of day, at least 0
    main,           \* main thread: "wait" in epoll_wait, or "events"
    batch,          \* events of this round not handled yet
    events,         \* main's uninitialized local `events`: "usable", "invalid"
    tasks,          \* tasks pending in the pool
    task,           \* the request each worker handles
    stage           \* of each worker: "handle", or "rearm" once the timer is set

kernel  == <<backlog, listenReady, ready, epoll, sock>>
objects == <<heap, timer>>
stamps  == <<myTimerQueue, deleted, request_data, remaining>>
loop    == <<main, batch, events>>
pool    == <<tasks, task, stage>>
vars    == <<kernel, objects, stamps, loop, pool>>

Pool == INSTANCE TaskQueue WITH
    Tasks <- Requests, Capacity <- QUEUE_SIZE, NoTask <- NoRequest,
    pending <- tasks, running <- task

Events == (Requests \X {"in", "err"}) \cup {<<Listener, "in">>}

TypeOK ==
    /\ backlog \in 0 .. MaxBacklog
    /\ listenReady \in BOOLEAN
    /\ ready \in [Requests -> SUBSET {"in", "err"}]
    /\ epoll \in [Requests -> {"none", "armed", "disarmed"}]
    /\ sock \in [Requests -> {"closed", "open"}]
    /\ heap \in [Requests -> {"free", "live", "corrupt"}]
    /\ timer \in [Requests -> Timers \cup {NoTimer}]
    /\ myTimerQueue \in SUBSET Timers
    /\ deleted \in [Timers -> BOOLEAN]
    /\ request_data \in [Timers -> Requests \cup {NoRequest}]
    /\ remaining \in [Timers -> 0 .. TIMER_TIME_OUT]
    /\ main \in {"wait", "events"}
    /\ batch \in SUBSET Events
    /\ events \in {"usable", "invalid"}
    /\ Pool!TypeOK
    /\ stage \in [Workers -> {"handle", "rearm"}]

Init ==
    /\ backlog = 0
    /\ listenReady = FALSE
    /\ ready = [r \in Requests |-> {}]
    /\ epoll = [r \in Requests |-> "none"]
    /\ sock = [r \in Requests |-> "closed"]
    /\ heap = [r \in Requests |-> "free"]
    /\ timer = [r \in Requests |-> NoTimer]
    /\ myTimerQueue = {}
    /\ deleted = [t \in Timers |-> FALSE]
    /\ request_data = [t \in Timers |-> NoRequest]
    /\ remaining = [t \in Timers |-> 0]
    /\ main = "wait"
    /\ batch = {}
    /\ events \in {"usable", "invalid"}
    /\ Pool!Init
    /\ stage = [w \in Workers |-> "handle"]

------------------------------------------------------------------------------
(* Constructors and destructors *)

(* Requests that accept() and new can yield: the memory is not in use and  *)
(* no descriptor of it has been leaked.                                    *)
FreeRequests == {r \in Requests : heap[r] = "free" /\ sock[r] = "closed"}
FreeTimers   == Timers \ myTimerQueue

NewTimer_late(r, t) ==
    /\ t \in FreeTimers
    /\ timer' = [timer EXCEPT ![r] = t]
    /\ myTimerQueue' = myTimerQueue \cup {t}
    /\ deleted' = [deleted EXCEPT ![t] = FALSE]
    /\ request_data' = [request_data EXCEPT ![t] = r]
    /\ remaining' = [remaining EXCEPT ![t] = TIMER_TIME_OUT + 1]

(* new timer_stamp(r, TIMER_TIME_OUT), linked from r and pushed. *)
NewTimer(r, t) ==
    /\ t \in FreeTimers
    /\ timer' = [timer EXCEPT ![r] = t]
    /\ myTimerQueue' = myTimerQueue \cup {t}
    /\ deleted' = [deleted EXCEPT ![t] = FALSE]
    /\ request_data' = [request_data EXCEPT ![t] = r]
    /\ remaining' = [remaining EXCEPT ![t] = TIMER_TIME_OUT]

(* The timers that the requests of R point at, whose clearReq() is called. *)
TimersOf(R) == {timer[r] : r \in R} \ {NoTimer}

ClearReq_marksOnly(R) ==
    /\ deleted' = [t \in Timers |-> deleted[t] \/ t \in TimersOf(R)]
    /\ timer' = [r \in Requests |-> IF r \in R THEN NoTimer ELSE timer[r]]
    /\ UNCHANGED request_data

ClearReq(R) ==
    /\ request_data' = [t \in Timers |-> IF t \in TimersOf(R) THEN NoRequest ELSE request_data[t]]
    /\ deleted' = [t \in Timers |-> deleted[t] \/ t \in TimersOf(R)]
    /\ timer' = [r \in Requests |-> IF r \in R THEN NoTimer ELSE timer[r]]

(* ~requestData() and the release of its memory, for each request of R:    *)
(* EPOLL_CTL_DEL, clearReq() on its timer, close().                        *)
Delete(R) ==
    /\ epoll' = [r \in Requests |-> IF r \in R THEN "none" ELSE epoll[r]]
    /\ ready' = [r \in Requests |-> IF r \in R THEN {} ELSE ready[r]]
    /\ sock'  = [r \in Requests |-> IF r \in R THEN "closed" ELSE sock[r]]
    /\ heap'  = [r \in Requests |-> IF r \notin R THEN heap[r]
                                    ELSE IF heap[r] = "live" THEN "free" ELSE "corrupt"]
    /\ ClearReq(R)

------------------------------------------------------------------------------
(* Clients and the clock *)

(* Objects come from finite sets.  NeedTimer is the set of requests that   *)
(* may be given a timer before a client sends anything more; clients start *)
(* something new only while a timer is left for it (Spare).                *)
NeedTimer == {r \in Requests : heap[r] = "live" /\
                  (timer[r] = NoTimer \/ ready[r] = {"in"} \/ <<r, "in">> \in batch)}
Spare == Cardinality(FreeTimers) > Cardinality(NeedTimer) + backlog

Connect ==
    /\ backlog < MaxBacklog
    /\ backlog < Cardinality(FreeRequests) /\ Spare
    /\ backlog' = backlog + 1
    /\ listenReady' = TRUE
    /\ UNCHANGED <<ready, epoll, sock, objects, stamps, loop, pool>>

(* Data or an orderly shutdown ("in"), or a reset ("err"), reaches r. *)
Arrive(r) ==
    /\ heap[r] = "live" /\ sock[r] = "open"
    /\ r \in NeedTimer \/ Spare
    /\ \E c \in {"in", "err"} \ ready[r] : ready' = [ready EXCEPT ![r] = @ \cup {c}]
    /\ UNCHANGED <<backlog, listenReady, epoll, sock, objects, stamps, loop, pool>>

(* A millisecond, or TIMER_TIME_OUT-th part of the timeout, passes.  If    *)
(* Prompt holds a worker registers a request with epoll again less than    *)
(* TIMER_TIME_OUT after it has pushed the request's timer; nothing in the  *)
(* code enforces that.                                                     *)
Rearming == {task[w] : w \in {v \in Workers : task[v] # NoRequest /\ stage[v] = "rearm"}}
Tick ==
    /\ \E t \in myTimerQueue : remaining[t] > 0
    /\ Prompt => \A t \in myTimerQueue : request_data[t] \in Rearming => remaining[t] > 1
    /\ remaining' = [t \in Timers |-> IF t \in myTimerQueue /\ remaining[t] > 0
                                      THEN remaining[t] - 1 ELSE remaining[t]]
    /\ UNCHANGED <<kernel, objects, myTimerQueue, deleted, request_data, loop, pool>>

------------------------------------------------------------------------------
(* The main thread: epoll_wait, handle_events, handle_expired_event *)

EventOf(r) == <<r, IF "err" \in ready[r] THEN "err" ELSE "in">>
Pending == {EventOf(r) : r \in {q \in Requests : epoll[q] = "armed" /\ ready[q] # {}}}
           \cup (IF listenReady THEN {<<Listener, "in">>} ELSE {})

EpollWait_noOneshot ==
    /\ main = "wait" /\ events = "usable"
    /\ Pending # {} /\ batch' = Pending
    /\ listenReady' = FALSE
    /\ main' = "events"
    /\ UNCHANGED <<backlog, ready, epoll, sock, objects, stamps, events, pool>>

EpollWait_dropsRest ==
    /\ main = "wait" /\ events = "usable"
    /\ \E B \in SUBSET Pending :
          /\ B # {} /\ Cardinality(B) <= MAXEVENTS
          /\ B = Pending \/ Cardinality(B) = MAXEVENTS
          /\ batch' = B
    /\ epoll' = [r \in Requests |-> IF EventOf(r) \in Pending THEN "disarmed" ELSE epoll[r]]
    /\ listenReady' = FALSE
    /\ main' = "events"
    /\ UNCHANGED <<backlog, ready, sock, objects, stamps, events, pool>>

(* EPOLLONESHOT disarms a reported socket; the listening socket is edge    *)
(* triggered.  The rest is reported next time.                             *)
EpollWait ==
    /\ main = "wait" /\ events = "usable"
    /\ \E B \in SUBSET Pending :
          /\ B # {}
          /\ B = Pending \/ Cardinality(B) = MAXEVENTS
          /\ Cardinality(B) <= MAXEVENTS
          /\ batch' = B
          /\ epoll' = [r \in Requests |-> IF EventOf(r) \in B THEN "disarmed" ELSE epoll[r]]
          /\ listenReady' = (listenReady /\ <<Listener, "in">> \notin B)
    /\ main' = "events"
    /\ UNCHANGED <<backlog, ready, sock, objects, stamps, events, pool>>

(* epoll_wait returns -1, which main() takes for a round without events:   *)
(* EINTR, or EFAULT because main() passes a local pointer `events` that it *)
(* never sets (the array of epoll_init() is the global of that name).      *)
(* Whatever it points at is either writable or not; what else may be kept  *)
(* at a writable address is not modelled.                                  *)
EpollWaitFails ==
    /\ main = "wait"
    /\ "epoll_wait" \in Faults \/ (events = "invalid" /\ Pending # {})
    /\ main' = "events"
    /\ UNCHANGED <<kernel, objects, stamps, batch, events, pool>>

NextEvent(e) == main = "events" /\ e \in batch /\ batch' = batch \ {e}

Accept_returnsEarly ==
    /\ NextEvent(<<Listener, "in">>)
    /\ backlog > 0
    /\ backlog' = backlog - 1
    /\ \E r \in FreeRequests :
          /\ sock' = [sock EXCEPT ![r] = "open"]
          /\ heap' = [heap EXCEPT ![r] = "live"]
          /\ \/ epoll' = [epoll EXCEPT ![r] = "armed"] /\ \E t \in FreeTimers : NewTimer(r, t)
             \/ "epoll_add" \in Faults /\ UNCHANGED <<epoll, timer, stamps>>
    /\ UNCHANGED <<listenReady, ready, main, events, pool>>

(* acceptConnection: one accept() per event.  The request is registered    *)
(* with epoll before it has its timer, but only this thread waits on epoll.*)
Accept ==
    /\ NextEvent(<<Listener, "in">>)
    /\ backlog > 0
    /\ backlog' = backlog - 1
    /\ \E r \in FreeRequests, t \in FreeTimers :
          /\ sock' = [sock EXCEPT ![r] = "open"]
          /\ heap' = [heap EXCEPT ![r] = "live"]
          /\ \/ epoll' = [epoll EXCEPT ![r] = "armed"]
             \/ "epoll_add" \in Faults /\ UNCHANGED epoll
          /\ NewTimer(r, t)
    /\ UNCHANGED <<listenReady, ready, main, events, pool>>

(* setSocketNonBlocking() fails: acceptConnection returns and nothing      *)
(* refers to the descriptor any more.                                      *)
AcceptLeaks ==
    /\ "nonblock" \in Faults
    /\ NextEvent(<<Listener, "in">>)
    /\ backlog > 0
    /\ backlog' = backlog - 1
    /\ \E r \in FreeRequests : sock' = [sock EXCEPT ![r] = "open"]
    /\ UNCHANGED <<listenReady, ready, epoll, objects, stamps, main, events, pool>>

(* accept() fails. *)
AcceptFails ==
    /\ "accept" \in Faults
    /\ NextEvent(<<Listener, "in">>)
    /\ UNCHANGED <<kernel, objects, stamps, main, events, pool>>

(* EPOLLERR or EPOLLHUP: `delete request`. *)
HandleError(r) ==
    /\ NextEvent(<<r, "err">>)
    /\ Delete({r})
    /\ UNCHANGED <<backlog, listenReady, myTimerQueue, remaining, main, events, pool>>

HandleRead_attached(r) ==
    /\ NextEvent(<<r, "in">>)
    /\ Pool!Submit(r)
    /\ UNCHANGED <<kernel, objects, stamps, main, events, stage>>

(* EPOLLIN: separateTimer(), then pool.add(), which waits for room. *)
HandleRead(r) ==
    /\ NextEvent(<<r, "in">>)
    /\ ClearReq({r})
    /\ Pool!Submit(r)
    /\ UNCHANGED <<kernel, heap, myTimerQueue, remaining, main, events, stage>>

(* handle_expired_event: pops the top of the queue while it is deleted or  *)
(* expired.  A timer is popped if all before it are; of timers with equal  *)
(* times either may be the top.  The requests of popped timers go with     *)
(* them.                                                                   *)
Blocking_unlessDeleted == {t \in myTimerQueue : ~deleted[t]}

Blocking == {t \in myTimerQueue : ~deleted[t] /\ remaining[t] > 0}
HandleExpired ==
    /\ main = "events"
    /\ batch = {}
    /\ \E P \in SUBSET (myTimerQueue \ Blocking) :
          /\ \A t \in myTimerQueue \ Blocking :
                (\A b \in Blocking : remaining[t] < remaining[b]) => t \in P
          /\ \A t \in P, b \in Blocking : remaining[t] <= remaining[b]
          /\ myTimerQueue' = myTimerQueue \ P
          /\ Delete({request_data[t] : t \in P} \ {NoRequest})
    /\ main' = "wait"
    /\ UNCHANGED <<backlog, listenReady, remaining, batch, events, pool>>

------------------------------------------------------------------------------
(* The workers: requestData::handleRequest *)

Take(w) ==
    /\ Pool!Take(w)
    /\ stage' = [stage EXCEPT ![w] = "handle"]
    /\ UNCHANGED <<kernel, objects, stamps, loop>>

Handling(w, s) == task[w] # NoRequest /\ stage[w] = s

(* An error, or a response sent without keep-alive: `delete this`. *)
HandleAndClose(w) ==
    /\ Handling(w, "handle")
    /\ Delete({task[w]})
    /\ Pool!Finish(w)
    /\ UNCHANGED <<backlog, listenReady, myTimerQueue, remaining, loop, stage>>

(* More input is needed, or the connection is kept alive: the worker has   *)
(* read what was there, or as much as its buffer holds, and gives the      *)
(* request a new timer under qlock.                                        *)
HandleAndKeep(w) ==
    /\ Handling(w, "handle")
    /\ \/ ready' = [ready EXCEPT ![task[w]] = @ \ {"in"}]
       \/ Spare /\ UNCHANGED ready
    /\ \E t \in FreeTimers : NewTimer(task[w], t)
    /\ stage' = [stage EXCEPT ![w] = "rearm"]
    /\ UNCHANGED <<backlog, listenReady, epoll, sock, heap, loop, tasks, task>>

(* epoll_mod, outside qlock. *)
Rearm(w) ==
    /\ Handling(w, "rearm")
    /\ epoll[task[w]] # "none"
    /\ epoll' = [epoll EXCEPT ![task[w]] = "armed"]
    /\ Pool!Finish(w)
    /\ UNCHANGED <<backlog, listenReady, ready, sock, objects, stamps, loop, stage>>

(* epoll_mod fails, as it does on a closed socket: `delete this`. *)
RearmFails(w) ==
    /\ Handling(w, "rearm")
    /\ epoll[task[w]] = "none" \/ "epoll_mod" \in Faults
    /\ Delete({task[w]})
    /\ Pool!Finish(w)
    /\ UNCHANGED <<backlog, listenReady, myTimerQueue, remaining, loop, stage>>

------------------------------------------------------------------------------
ClientStep == Connect \/ \E r \in Requests : Arrive(r)

MainStep ==
    \/ EpollWait \/ EpollWaitFails
    \/ Accept \/ AcceptLeaks \/ AcceptFails
    \/ \E r \in Requests : HandleError(r) \/ HandleRead(r)
    \/ HandleExpired

WorkerStep(w) == Take(w) \/ HandleAndClose(w) \/ HandleAndKeep(w) \/ Rearm(w) \/ RearmFails(w)

Next == ClientStep \/ Tick \/ MainStep \/ \E w \in Workers : WorkerStep(w)

Spec == Init /\ [][Next]_vars

(* The operating system runs every thread that can run, and handlers       *)
(* return.  Time does not stop: Tick is strongly fair because Prompt may   *)
(* disable it now and then.  What one epoll_wait leaves for want of room   *)
(* stays at the head of the kernel's list, so nothing that is pending is   *)
(* passed over for ever.  Clients need not do anything.                    *)
Report(s) == EpollWait /\ \E e \in batch' : e[1] = s
Fairness ==
    /\ WF_vars(MainStep)
    /\ \A w \in Workers : WF_vars(WorkerStep(w))
    /\ SF_vars(Tick)
    /\ \A s \in Requests \cup {Listener} : SF_vars(Report(s))

FairSpec == Spec /\ Fairness

------------------------------------------------------------------------------
(* Properties.  An operator X_y above is X with the mistake y; it is no    *)
(* part of the specification and shows what the properties can detect.     *)

InBatch(r) == \E e \in batch : e[1] = r
Queued(r)  == \E i \in DOMAIN tasks : tasks[i] = r
Handled(r) == \E w \in Workers : task[w] = r

(* requestData and timer_stamp point at each other or not at all: a timer  *)
(* that is not deleted names a request that names it, a deleted one names  *)
(* none, and a request never names a timer that has been freed.            *)
TimersLinked ==
    /\ \A t \in myTimerQueue :
          IF deleted[t] THEN request_data[t] = NoRequest
          ELSE request_data[t] # NoRequest /\ timer[request_data[t]] = t
    /\ \A r \in Requests :
          timer[r] # NoTimer => timer[r] \in myTimerQueue /\ request_data[timer[r]] = r

(* Whoever can still reach a request (epoll, the events of this round, the *)
(* pool, a worker, a timer) reaches one that has not been freed.           *)
NoDanglingPointer ==
    \A r \in Requests :
        \/ epoll[r] # "none"
        \/ InBatch(r) \/ Queued(r) \/ Handled(r)
        \/ \E t \in myTimerQueue : request_data[t] = r
        => heap[r] = "live"

(* EPOLLONESHOT makes a request the business of one party at a time: of    *)
(* epoll, or of the main thread, or of the pool, or of one worker; and of  *)
(* none only if it was never registered.                                   *)
OneHolder ==
    /\ \A i, j \in DOMAIN tasks : tasks[i] = tasks[j] => i = j
    /\ \A v, w \in Workers : task[v] = task[w] => v = w \/ task[v] = NoRequest
    /\ \A r \in Requests :
          /\ epoll[r] = "disarmed" <=> InBatch(r) \/ Queued(r) \/ Handled(r)
          /\ ~(InBatch(r) /\ Queued(r)) /\ ~(InBatch(r) /\ Handled(r)) /\ ~(Queued(r) /\ Handled(r))

(* "Separate timer and request before adding to the pool" (main.cpp:123):  *)
(* until its handler sets a new timer, a request in the pool cannot be     *)
(* deleted by the expiry of an old one.                                    *)
DetachedInPool ==
    \A r \in Requests :
        Queued(r) \/ (\E w \in Workers : task[w] = r /\ stage[w] = "handle")
        => \A t \in myTimerQueue : request_data[t] # r

(* A connection that nobody is working on is on the way to its timeout:    *)
(* one is never left open without a timer, whatever call has failed.       *)
IdleHasTimer ==
    \A r \in Requests :
        heap[r] = "live" /\ ~Queued(r) /\ ~Handled(r) => \E t \in myTimerQueue : request_data[t] = r

(* The order of requestData.cpp:199 (timer first, then epoll) is there to  *)
(* avoid a double free: no request is deleted twice.                       *)
NoDoubleFree == \A r \in Requests : heap[r] # "corrupt"

(* What arrives on a registered socket reaches a worker, unless the        *)
(* connection is deleted first.                                            *)
EventReachesWorker ==
    \A r \in Requests :
        events = "usable" /\ epoll[r] = "armed" /\ ready[r] # {} ~> heap[r] = "free" \/ Handled(r)

(* main.cpp:135 says that a timer marked deleted is removed at the latest  *)
(* TIMER_TIME_OUT later.  It is removed in the end if events keep coming,  *)
(* so that handle_expired_event keeps being called; and so are expired     *)
(* timers, with their connections.                                         *)
ReclaimedUnderTraffic ==
    []<>(main = "events") =>
        \A t \in Timers : t \in myTimerQueue /\ (deleted[t] \/ remaining[t] = 0) ~> t \notin myTimerQueue
==============================================================================
