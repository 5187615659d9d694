------------------------------ MODULE ThreadPool ------------------------------
(***************************************************************************)
(* class ThreadPool (src/src/threadpool.h, src/src/threadpool.cpp): a ring *)
(* of tasks guarded by the mutex `lock`, with two condition variables.     *)
(* `queue_has_task` wakes workers, `queue_has_spare` wakes a caller of add *)
(* that found the ring full.                                               *)
(*                                                                         *)
(* A step is what a thread does between two points where another thread    *)
(* can interfere: taking the mutex, going to sleep on a condition, and     *)
(* each read of `status`, which the destructor writes without the mutex.   *)
(* A MutexLockGuard is the mutex itself: holder_ is modelled in MutexLock. *)
(***************************************************************************)
EXTENDS Integers, Sequences, FiniteSets

CONSTANTS
    thread_num,         \* first argument of create()
    queue_capacity,     \* second argument of create()
    MAX_THREADS,        \* limit on the first
    MAX_QUEUE,          \* limit on the second
    Producers,          \* threads that call add()
    Workers,            \* threads create() starts
    Tasks,              \* values of threadpool_task_t
    NoTask,             \* content of a slot or a local that holds no task
    NoThread,           \* owner of a free mutex
    Spurious,           \* threads whose pthread_cond_wait may return unnotified
    CreateMayFail,      \* may pthread_create fail in create()?
    MayDestroy,         \* does the owner ever run the destructor?
    ConcurrentDestroy,  \* may it do so while a caller is inside add()?
    MaxWaiting          \* bound: add() is not called with more tasks waiting

Threads == Producers \cup Workers

(* create() replaces both arguments by 3 if one is 0, and caps each.  The  *)
(* casts to int assume that both fit one.                                  *)
UseDefaults   == thread_num = 0 \/ queue_capacity = 0
AtMost(n, m)  == IF n < m THEN n ELSE m
threads_limit == AtMost(IF UseDefaults THEN 3 ELSE thread_num, MAX_THREADS)
queue_size    == AtMost(IF UseDefaults THEN 3 ELSE queue_capacity, MAX_QUEUE)

ASSUME PoolAssumption ==
    /\ {thread_num, queue_capacity} \subseteq Nat
    /\ {MAX_THREADS, MAX_QUEUE} \subseteq Nat \ {0}
    /\ IsFiniteSet(Workers) /\ Cardinality(Workers) = threads_limit
    /\ Producers \cap Workers = {}
    /\ Spurious \subseteq Threads
    /\ NoThread \notin Threads
    /\ NoTask \notin Tasks
    /\ MaxWaiting \in Nat
    /\ {CreateMayFail, MayDestroy, ConcurrentDestroy} \subseteq BOOLEAN

RUNNING  == 1
SHUTDOWN == 0

VARIABLES
    mutex,                  \* owner of `lock`
    queue,                  \* the ring, indexed from 0
    queue_front,            \* next slot to take from
    queue_rear,             \* next slot to fill
    waiting_task_num,       \* tasks in the ring
    status,                 \* RUNNING or SHUTDOWN
    thread_count,           \* threads created
    active_thread_count,    \* threads created, plus tasks being run
    creator,                \* create()'s copy of active_thread_count in its ++
    pc,                     \* where each producer and each worker is
    task,                   \* argument of add(), or the worker's local `task`
    owner                   \* where the thread that owns the pool is

ring   == <<queue, queue_front, queue_rear, waiting_task_num>>
counts == <<thread_count, active_thread_count, creator>>
vars   == <<mutex, ring, status, counts, pc, task, owner>>

ProducerPCs == {"idle", "lock", "wait", "waitSpare", "woken", "put"}
WorkerPCs   == {"none", "lock", "sleep", "waitTask", "grab", "enter", "run", "exited"}
OwnerPCs    == {"creating", "counting", "running", "notify", "join", "destroyed"}

TypeOK ==
    /\ mutex \in Threads \cup {NoThread}
    /\ queue \in [0 .. queue_size - 1 -> Tasks \cup {NoTask}]
    /\ queue_front \in 0 .. queue_size - 1
    /\ queue_rear \in 0 .. queue_size - 1
    /\ waiting_task_num \in Nat
    /\ status \in {RUNNING, SHUTDOWN}
    /\ thread_count \in Nat
    /\ active_thread_count \in Nat
    /\ creator \in Nat
    /\ pc \in [Threads -> ProducerPCs \cup WorkerPCs]
    /\ \A p \in Producers : pc[p] \in ProducerPCs
    /\ \A w \in Workers : pc[w] \in WorkerPCs
    /\ task \in [Threads -> Tasks \cup {NoTask}]
    /\ owner \in OwnerPCs

(* ThreadPool() and create() up to its loop over the threads. *)
Init ==
    /\ mutex = NoThread
    /\ queue = [i \in 0 .. queue_size - 1 |-> NoTask]
    /\ queue_front = 0
    /\ queue_rear = 0
    /\ waiting_task_num = 0
    /\ status = RUNNING
    /\ thread_count = 0
    /\ active_thread_count = 0
    /\ creator = 0
    /\ pc = [x \in Threads |-> IF x \in Producers THEN "idle" ELSE "none"]
    /\ task = [x \in Threads |-> NoTask]
    /\ owner = "creating"

------------------------------------------------------------------------------
(* The mutex and the condition variables. *)

Acquire(x) == mutex = NoThread /\ mutex' = x
Release(x) == mutex = x /\ mutex' = NoThread

(* What pthread_cond_signal can make of the program counters pcs: one      *)
(* thread that sleeps at `from` moves to `to`; nothing if none sleeps.     *)
Signal(pcs, from, to) ==
    LET sleepers == {x \in Threads : pcs[x] = from}
    IN  IF sleepers = {} THEN {pcs}
        ELSE {[pcs EXCEPT ![x] = to] : x \in sleepers}

NotifyTask(pcs)  == Signal(pcs, "waitTask", "lock")
NotifySpare(pcs) == Signal(pcs, "waitSpare", "woken")

(* pthread_cond_wait may return although nobody signalled.  A caller of    *)
(* add() then stores its task in a full ring.  While more tasks wait than  *)
(* there are slots, the test for a full ring, an equality, is FALSE, and   *)
(* only MaxWaiting bounds waiting_task_num.                                *)
SpuriousWake(x) ==
    /\ x \in Spurious
    /\ \/ pc[x] = "waitTask" /\ pc' = [pc EXCEPT ![x] = "lock"]
       \/ pc[x] = "waitSpare" /\ pc' = [pc EXCEPT ![x] = "woken"]
    /\ UNCHANGED <<mutex, ring, status, counts, task, owner>>

------------------------------------------------------------------------------
(* create() *)

Created == {w \in Workers : pc[w] # "none"}

(* pthread_create succeeds; thread_count++; active_thread_count is read. *)
CreateThread ==
    /\ owner = "creating"
    /\ \E w \in Workers \ Created : pc' = [pc EXCEPT ![w] = "lock"]
    /\ thread_count' = thread_count + 1
    /\ creator' = active_thread_count
    /\ owner' = "counting"
    /\ UNCHANGED <<mutex, ring, status, active_thread_count, task>>

(* The write of active_thread_count++, which holds no lock.  The loop goes *)
(* on until every thread has been created.                                 *)
CountThread ==
    /\ owner = "counting"
    /\ active_thread_count' = creator + 1
    /\ owner' = IF Created = Workers THEN "running" ELSE "creating"
    /\ UNCHANGED <<mutex, ring, status, thread_count, creator, pc, task>>

(* pthread_create fails: create() returns -1, which main() ignores. *)
CreateFails ==
    /\ CreateMayFail
    /\ owner = "creating"
    /\ owner' = "running"
    /\ UNCHANGED <<mutex, ring, status, counts, pc, task>>

------------------------------------------------------------------------------
(* add(), called by producer p *)

(* The object must be constructed, and its destructor not over; unless the *)
(* client is allowed to race with it, the destructor has not begun either. *)
Usable == owner \in IF ConcurrentDestroy THEN {"running", "notify", "join"} ELSE {"running"}

AddCall(p, t) ==
    /\ Usable
    /\ waiting_task_num <= MaxWaiting
    /\ pc[p] = "idle"
    /\ pc' = [pc EXCEPT ![p] = "lock"]
    /\ task' = [task EXCEPT ![p] = t]
    /\ UNCHANGED <<mutex, ring, status, counts, owner>>

AddLock_offByOne(p) ==
    /\ pc[p] = "lock"
    /\ Acquire(p)
    /\ pc' = [pc EXCEPT ![p] = IF status = RUNNING /\ waiting_task_num > queue_size
                               THEN "wait" ELSE "put"]
    /\ UNCHANGED <<ring, status, counts, task, owner>>

(* Takes the mutex and tests whether the ring is full. *)
AddLock(p) ==
    /\ pc[p] = "lock"
    /\ Acquire(p)
    /\ pc' = [pc EXCEPT ![p] = IF status = RUNNING /\ waiting_task_num = queue_size
                               THEN "wait" ELSE "put"]
    /\ UNCHANGED <<ring, status, counts, task, owner>>

(* queue_has_spare.wait() releases the mutex and sleeps, in one step. *)
AddWait(p) ==
    /\ pc[p] = "wait"
    /\ Release(p)
    /\ pc' = [pc EXCEPT ![p] = "waitSpare"]
    /\ UNCHANGED <<ring, status, counts, task, owner>>

(* wait() returns with the mutex.  The test for a full ring is an `if`, so *)
(* it is not made again.                                                   *)
AddWoken(p) ==
    /\ pc[p] = "woken"
    /\ Acquire(p)
    /\ pc' = [pc EXCEPT ![p] = "put"]
    /\ UNCHANGED <<ring, status, counts, task, owner>>

AddPut_as(p, rear, pcs) ==
    /\ pc[p] = "put"
    /\ status # SHUTDOWN
    /\ queue' = [queue EXCEPT ![queue_rear] = task[p]]
    /\ queue_rear' = rear
    /\ waiting_task_num' = waiting_task_num + 1
    /\ pc' \in pcs
    /\ task' = [task EXCEPT ![p] = NoTask]
    /\ Release(p)
    /\ UNCHANGED <<queue_front, status, counts, owner>>
AddPut_noWrap(p) == AddPut_as(p, queue_rear + 1, NotifyTask([pc EXCEPT ![p] = "idle"]))
AddPut_noNotify(p) == AddPut_as(p, (queue_rear + 1) % queue_size, {[pc EXCEPT ![p] = "idle"]})
AddPut_notifyIfEmpty(p) ==
    AddPut_as(p, (queue_rear + 1) % queue_size,
              IF waiting_task_num = 0 THEN NotifyTask([pc EXCEPT ![p] = "idle"])
                                      ELSE {[pc EXCEPT ![p] = "idle"]})

(* Stores the task at queue_rear and wakes a worker. *)
AddPut(p) ==
    /\ pc[p] = "put"
    /\ status # SHUTDOWN
    /\ queue' = [queue EXCEPT ![queue_rear] = task[p]]
    /\ queue_rear' = (queue_rear + 1) % queue_size
    /\ waiting_task_num' = waiting_task_num + 1
    /\ pc' \in NotifyTask([pc EXCEPT ![p] = "idle"])
    /\ task' = [task EXCEPT ![p] = NoTask]
    /\ Release(p)
    /\ UNCHANGED <<queue_front, status, counts, owner>>

(* The pool is being destroyed: the task is dropped, and add() returns 0. *)
AddRefused(p) ==
    /\ pc[p] = "put"
    /\ status = SHUTDOWN
    /\ pc' = [pc EXCEPT ![p] = "idle"]
    /\ task' = [task EXCEPT ![p] = NoTask]
    /\ Release(p)
    /\ UNCHANGED <<ring, status, counts, owner>>

------------------------------------------------------------------------------
(* do_thread(), run by worker w *)

(* Takes the mutex, at the top of the loop or on the return of wait(), and *)
(* tests whether it must sleep.                                            *)
WorkerLock(w) ==
    /\ pc[w] = "lock"
    /\ Acquire(w)
    /\ pc' = [pc EXCEPT ![w] = IF status = RUNNING /\ waiting_task_num = 0
                               THEN "sleep" ELSE "grab"]
    /\ UNCHANGED <<ring, status, counts, task, owner>>

(* queue_has_task.wait() *)
WorkerSleep(w) ==
    /\ pc[w] = "sleep"
    /\ Release(w)
    /\ pc' = [pc EXCEPT ![w] = "waitTask"]
    /\ UNCHANGED <<ring, status, counts, task, owner>>

(* pthread_exit() unwinds the stack, so the guard releases the mutex. *)
WorkerExit(w) ==
    /\ pc[w] = "grab"
    /\ status = SHUTDOWN
    /\ Release(w)
    /\ pc' = [pc EXCEPT ![w] = "exited"]
    /\ UNCHANGED <<ring, status, counts, task, owner>>

WorkerTake_as(w, slot, pcs) ==
    /\ pc[w] = "grab"
    /\ status # SHUTDOWN
    /\ task' = [task EXCEPT ![w] = queue[slot]]
    /\ queue_front' = (queue_front + 1) % queue_size
    /\ waiting_task_num' = waiting_task_num - 1
    /\ pc' \in pcs
    /\ Release(w)
    /\ UNCHANGED <<queue, queue_rear, status, counts, owner>>
WorkerTake_noNotify(w) == WorkerTake_as(w, queue_front, {[pc EXCEPT ![w] = "enter"]})
WorkerTake_late(w) ==
    WorkerTake_as(w, (queue_front + 1) % queue_size, NotifySpare([pc EXCEPT ![w] = "enter"]))

(* Copies the task at queue_front and wakes a caller of add(). *)
WorkerTake(w) ==
    /\ pc[w] = "grab"
    /\ status # SHUTDOWN
    /\ task' = [task EXCEPT ![w] = queue[queue_front]]
    /\ queue_front' = (queue_front + 1) % queue_size
    /\ waiting_task_num' = waiting_task_num - 1
    /\ pc' \in NotifySpare([pc EXCEPT ![w] = "enter"])
    /\ Release(w)
    /\ UNCHANGED <<queue, queue_rear, status, counts, owner>>

(* active_thread_count++ under active_thread_count_lock. *)
WorkerEnter(w) ==
    /\ pc[w] = "enter"
    /\ active_thread_count' = active_thread_count + 1
    /\ pc' = [pc EXCEPT ![w] = "run"]
    /\ UNCHANGED <<mutex, ring, status, thread_count, creator, task, owner>>

(* The task's function returns; active_thread_count-- under its lock. *)
WorkerLeave(w) ==
    /\ pc[w] = "run"
    /\ active_thread_count' = active_thread_count - 1
    /\ pc' = [pc EXCEPT ![w] = "lock"]
    /\ task' = [task EXCEPT ![w] = NoTask]
    /\ UNCHANGED <<mutex, ring, status, thread_count, creator, owner>>

------------------------------------------------------------------------------
(* ~ThreadPool() *)

(* status = SHUTDOWN, without the mutex. *)
DestroyBegin ==
    /\ MayDestroy
    /\ owner = "running"
    /\ ConcurrentDestroy \/ \A p \in Producers : pc[p] = "idle"
    /\ status' = SHUTDOWN
    /\ owner' = "notify"
    /\ UNCHANGED <<mutex, ring, counts, pc, task>>

(* queue_has_task.notifyAll(), without the mutex. *)
DestroyNotify ==
    /\ owner = "notify"
    /\ pc' = [x \in Threads |-> IF pc[x] = "waitTask" THEN "lock" ELSE pc[x]]
    /\ owner' = "join"
    /\ UNCHANGED <<mutex, ring, status, counts, task>>

(* Every thread created has been joined; the arrays are freed. *)
DestroyJoin ==
    /\ owner = "join"
    /\ \A w \in Created : pc[w] = "exited"
    /\ owner' = "destroyed"
    /\ UNCHANGED <<mutex, ring, status, counts, pc, task>>

------------------------------------------------------------------------------
(* Once the destructor is over the object is gone: what a caller that is   *)
(* still inside add() does then is undefined, and not modelled.            *)
ProducerStep(p) ==
    /\ owner # "destroyed"
    /\ AddLock(p) \/ AddWait(p) \/ AddWoken(p) \/ AddPut(p) \/ AddRefused(p)

WorkerStep(w) ==
    \/ WorkerLock(w) \/ WorkerSleep(w) \/ WorkerExit(w)
    \/ WorkerTake(w) \/ WorkerEnter(w) \/ WorkerLeave(w)

OwnerStep == CreateThread \/ CountThread \/ CreateFails \/ DestroyNotify \/ DestroyJoin

Next ==
    \/ \E p \in Producers, t \in Tasks : AddCall(p, t)
    \/ \E p \in Producers : ProducerStep(p)
    \/ \E w \in Workers : WorkerStep(w)
    \/ OwnerStep
    \/ DestroyBegin
    \/ \E x \in Threads : SpuriousWake(x)

Spec == Init /\ [][Next]_vars

(* The scheduler runs every thread that can run, and a task's function     *)
(* returns.  Nobody has to call add() or to destroy the pool.              *)
Fairness ==
    /\ \A p \in Producers : WF_vars(ProducerStep(p))
    /\ \A w \in Workers : WF_vars(WorkerStep(w))
    /\ WF_vars(OwnerStep)

FairSpec == Spec /\ Fairness

------------------------------------------------------------------------------
(* Properties.  An operator X_y above is X with the mistake y; it is no    *)
(* part of the specification and shows what the properties can detect.     *)

(* The comment at threadpool.cpp:257 says that queue_rear names a slot     *)
(* with no task in it: whenever add() is about to store a task, the ring   *)
(* has room, so no accepted task is overwritten.                           *)
SlotFree == \A p \in Producers : pc[p] = "put" /\ status = RUNNING => waiting_task_num < queue_size

(* One notify() per add() is enough: while workers sleep on queue_has_task *)
(* at least as many are awake as there are tasks in the ring, so no task   *)
(* waits behind a busy worker while another one sleeps.                    *)
EnoughAwake ==
    LET asleep == {w \in Workers : pc[w] = "waitTask"}
    IN  status = RUNNING /\ asleep # {} => waiting_task_num <= Cardinality(Created \ asleep)

(* A caller of add() sleeps on queue_has_spare only while the ring is      *)
(* full: the notify() of a worker that made room is never missed.          *)
SleepsOnlyIfFull == \A p \in Producers : pc[p] = "waitSpare" => waiting_task_num = queue_size

(* active_thread_count is incremented by create() without its lock and by  *)
(* the workers with it; no increment is lost all the same: it is the       *)
(* number of threads created plus the number of tasks being run.           *)
ActiveCountExact ==
    owner # "counting" =>
        active_thread_count = thread_count + Cardinality({w \in Workers : pc[w] = "run"})

(* The ring, read from queue_front on, is the queue of TaskQueue.          *)
Contents == [i \in 1 .. waiting_task_num |-> queue[(queue_front + i - 1) % queue_size]]

Abs == INSTANCE TaskQueue WITH
    Capacity <- queue_size,
    pending  <- Contents,
    running  <- [w \in Workers |-> task[w]]

(* add() and do_thread() implement a bounded FIFO queue: every accepted    *)
(* task goes to one worker, in the order of acceptance, none is lost or    *)
(* run twice.                                                              *)
FifoQueue == Abs!Spec

(* ... and, while nobody destroys the pool, no accepted task is left       *)
(* waiting for ever while the functions of the other tasks return.         *)
FifoQueueLive == [](status = RUNNING) => Abs!Fairness

(* A call of add() returns, even if it had to wait for room, while nobody  *)
(* destroys the pool.                                                      *)
AddReturns == \A p \in Producers : pc[p] # "idle" ~> pc[p] = "idle" \/ status # RUNNING

(* The README's RAII claim (README.md:4), for ~ThreadPool(): once begun,   *)
(* the destructor joins the workers and releases the arrays.               *)
DestructorReturns == owner = "notify" ~> owner = "destroyed"
==============================================================================
