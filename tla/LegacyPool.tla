------------------------------ MODULE LegacyPool ------------------------------
(***************************************************************************)
(* The C thread pool threadpool_t (src/src/threadpool.h and .cpp), which   *)
(* the server still builds next to class ThreadPool: add never blocks, and *)
(* the pool is destroyed gracefully (the tasks that wait are run first) or *)
(* immediately.                                                            *)
(*                                                                         *)
(* Everything that threads share is accessed under the mutex `lock`, so a  *)
(* critical section is one step, which needs the mutex to be free.  `lock` *)
(* has an owner between two steps only if a call returned without          *)
(* unlocking.  Library calls other than pthread_create do not fail.        *)
(***************************************************************************)
EXTENDS Integers, Sequences, FiniteSets

CONSTANTS
    queue_size,     \* argument of threadpool_create
    Workers,        \* threads it starts
    Clients,        \* threads that call the pool's functions ...
    Creator,        \* ... one of which creates the pool, ...
    Destroyers,     \* ... and some of which may destroy it
    Modes,          \* shutdown modes that they may ask for
    Tasks,
    NoTask,         \* content of a slot or a local that holds no task
    NoThread        \* owner of a free mutex

running == 0
immediate_shutdown == 1
graceful_shutdown == 2

ASSUME LegacyAssumption ==
    /\ queue_size \in Nat \ {0}
    /\ IsFiniteSet(Workers) /\ Workers # {} /\ Workers \cap Clients = {}
    /\ Creator \in Clients /\ Destroyers \subseteq Clients
    /\ Modes \subseteq {immediate_shutdown, graceful_shutdown}
    /\ NoTask \notin Tasks /\ NoThread \notin Clients

VARIABLES
    lock,                   \* owner of the mutex
    queue,                  \* the ring, indexed from 0
    head,                   \* next slot to take from
    tail,                   \* next slot to fill
    pending_task_count,     \* tasks in the ring
    shutdown,
    active_thread_num,      \* threads created and not at their end
    pc,                     \* where each thread is
    task,                   \* local variable `task` of each worker
    freed                   \* the memory of the pool has been released

ring == <<queue, head, tail, pending_task_count>>
vars == <<lock, ring, shutdown, active_thread_num, pc, task, freed>>

ClientPCs == {"idle", "create", "destroy", "join", "free"}
WorkerPCs == {"none", "lock", "wait", "run", "exited"}

TypeOK ==
    /\ lock \in Clients \cup {NoThread}
    /\ queue \in [0 .. queue_size - 1 -> Tasks \cup {NoTask}]
    /\ head \in 0 .. queue_size - 1
    /\ tail \in 0 .. queue_size - 1
    /\ pending_task_count \in 0 .. queue_size
    /\ shutdown \in {running, immediate_shutdown, graceful_shutdown}
    /\ active_thread_num \in Nat
    /\ pc \in [Clients \cup Workers -> ClientPCs \cup WorkerPCs]
    /\ \A c \in Clients : pc[c] \in ClientPCs
    /\ \A w \in Workers : pc[w] \in WorkerPCs
    /\ task \in [Workers -> Tasks \cup {NoTask}]
    /\ freed \in BOOLEAN

(* threadpool_create() up to its loop over the threads. *)
Init ==
    /\ lock = NoThread
    /\ queue = [i \in 0 .. queue_size - 1 |-> NoTask]
    /\ head = 0
    /\ tail = 0
    /\ pending_task_count = 0
    /\ shutdown = running
    /\ active_thread_num = 0
    /\ pc = [x \in Clients \cup Workers |->
                IF x \in Workers THEN "none" ELSE IF x = Creator THEN "create" ELSE "idle"]
    /\ task = [w \in Workers |-> NoTask]
    /\ freed = FALSE

(* A thread at `place` can take the mutex. *)
Locking(x, place) == pc[x] = place /\ lock = NoThread

------------------------------------------------------------------------------
(* threadpool_create() *)

Created == {w \in Workers : pc[w] # "none"}

(* One round of the loop.  Both counters are incremented without the lock; *)
(* no thread can end before the pool is handed out or destroyed.           *)
CreateThread ==
    /\ pc[Creator] = "create"
    /\ \E w \in Workers \ Created :
          pc' = [pc EXCEPT ![w] = "lock",
                           ![Creator] = IF Created \cup {w} = Workers THEN "idle" ELSE "create"]
    /\ active_thread_num' = active_thread_num + 1
    /\ UNCHANGED <<lock, ring, shutdown, task, freed>>

(* pthread_create fails: threadpool_destroy(pool, 0). *)
CreateFails ==
    /\ pc[Creator] = "create"
    /\ pc' = [pc EXCEPT ![Creator] = "destroy"]
    /\ UNCHANGED <<lock, ring, shutdown, active_thread_num, task, freed>>

(* Clients have a pool while it has been created and not freed. *)
Usable == Created = Workers /\ ~freed

------------------------------------------------------------------------------
(* threadpool_add() *)

(* What pthread_cond_signal can make of the program counters pcs. *)
Signal(pcs) ==
    LET sleepers == {w \in Workers : pcs[w] = "wait"}
    IN  IF sleepers = {} THEN {pcs} ELSE {[pcs EXCEPT ![w] = "lock"] : w \in sleepers}

Broadcast(pcs) == [x \in DOMAIN pcs |-> IF pcs[x] = "wait" THEN "lock" ELSE pcs[x]]

Add_noWrap(c, t) ==
    /\ Usable /\ Locking(c, "idle")
    /\ pending_task_count # queue_size /\ shutdown = running
    /\ queue' = [queue EXCEPT ![tail] = t]
    /\ tail' = tail + 1
    /\ pending_task_count' = pending_task_count + 1
    /\ pc' \in Signal(pc)
    /\ UNCHANGED <<lock, head, shutdown, active_thread_num, task, freed>>

Add_noSignal(c, t) ==
    /\ Usable /\ Locking(c, "idle")
    /\ pending_task_count # queue_size /\ shutdown = running
    /\ queue' = [queue EXCEPT ![tail] = t]
    /\ tail' = (tail + 1) % queue_size
    /\ pending_task_count' = pending_task_count + 1
    /\ UNCHANGED <<lock, head, shutdown, active_thread_num, pc, task, freed>>

(* A full ring, or a pool that is shutting down, refuses the task, and     *)
(* nothing changes.                                                        *)
Add(c, t) ==
    /\ Usable /\ Locking(c, "idle")
    /\ pending_task_count # queue_size /\ shutdown = running
    /\ queue' = [queue EXCEPT ![tail] = t]
    /\ tail' = (tail + 1) % queue_size
    /\ pending_task_count' = pending_task_count + 1
    /\ pc' \in Signal(pc)
    /\ UNCHANGED <<lock, head, shutdown, active_thread_num, task, freed>>

------------------------------------------------------------------------------
(* threadpool_destroy() and threadpool_free() *)

DestroyCall(c) ==
    /\ c \in Destroyers
    /\ Usable /\ pc[c] = "idle"
    /\ pc' = [pc EXCEPT ![c] = "destroy"]
    /\ UNCHANGED <<lock, ring, shutdown, active_thread_num, task, freed>>

(* The mode is the caller's, and immediate when create() has failed. *)
AskedModes == IF Created = Workers THEN Modes ELSE {immediate_shutdown}

DestroyFirst_signal(c) ==
    /\ Locking(c, "destroy") /\ ~freed
    /\ shutdown = running
    /\ shutdown' \in AskedModes
    /\ pc' \in Signal([pc EXCEPT ![c] = "join"])
    /\ UNCHANGED <<lock, ring, active_thread_num, task, freed>>

DestroyFirst(c) ==
    /\ Locking(c, "destroy") /\ ~freed
    /\ shutdown = running
    /\ shutdown' \in AskedModes
    /\ pc' = Broadcast([pc EXCEPT ![c] = "join"])
    /\ UNCHANGED <<lock, ring, active_thread_num, task, freed>>

(* The pool is shutting down already: the call returns THREADPOOL_SHUTDOWN *)
(* and keeps the mutex.  (A caller that waits for the mutex of a pool that *)
(* has been freed is in undefined behaviour and goes no further: ~freed.)  *)
DestroyAgain(c) ==
    /\ Locking(c, "destroy") /\ ~freed
    /\ shutdown # running
    /\ lock' = c
    /\ pc' = [pc EXCEPT ![c] = "idle"]
    /\ UNCHANGED <<ring, shutdown, active_thread_num, task, freed>>

(* All threads joined; threadpool_free() does nothing if one is active. *)
Join(c) ==
    /\ pc[c] = "join"
    /\ \A w \in Created : pc[w] = "exited"
    /\ pc' = [pc EXCEPT ![c] = IF active_thread_num > 0 THEN "idle" ELSE "free"]
    /\ UNCHANGED <<lock, ring, shutdown, active_thread_num, task, freed>>

(* threadpool_free() takes the mutex before it destroys it. *)
Free(c) ==
    /\ Locking(c, "free")
    /\ freed' = TRUE
    /\ pc' = [pc EXCEPT ![c] = "idle"]
    /\ UNCHANGED <<lock, ring, shutdown, active_thread_num, task>>

------------------------------------------------------------------------------
(* threadpool_thread(), run by worker w *)

MustExit_ignoresPending == shutdown # running

MustExit ==
    \/ shutdown = immediate_shutdown
    \/ shutdown = graceful_shutdown /\ pending_task_count = 0

Sleep(w) ==
    /\ Locking(w, "lock")
    /\ pending_task_count = 0 /\ shutdown = running
    /\ pc' = [pc EXCEPT ![w] = "wait"]
    /\ UNCHANGED <<lock, ring, shutdown, active_thread_num, task, freed>>

(* pthread_cond_wait may return without a signal. *)
SpuriousWake(w) ==
    /\ pc[w] = "wait"
    /\ pc' = [pc EXCEPT ![w] = "lock"]
    /\ UNCHANGED <<lock, ring, shutdown, active_thread_num, task, freed>>

Exit_uncounted(w) ==
    /\ Locking(w, "lock") /\ MustExit
    /\ pc' = [pc EXCEPT ![w] = "exited"]
    /\ UNCHANGED <<lock, ring, shutdown, active_thread_num, task, freed>>

Exit(w) ==
    /\ Locking(w, "lock") /\ MustExit
    /\ active_thread_num' = active_thread_num - 1
    /\ pc' = [pc EXCEPT ![w] = "exited"]
    /\ UNCHANGED <<lock, ring, shutdown, task, freed>>

Take_noUpdate(w) ==
    /\ Locking(w, "lock") /\ ~MustExit
    /\ pending_task_count > 0
    /\ task' = [task EXCEPT ![w] = queue[head]]
    /\ pending_task_count' = pending_task_count - 1
    /\ pc' = [pc EXCEPT ![w] = "run"]
    /\ UNCHANGED <<lock, queue, head, tail, shutdown, active_thread_num, freed>>

Take(w) ==
    /\ Locking(w, "lock") /\ ~MustExit
    /\ pending_task_count > 0
    /\ task' = [task EXCEPT ![w] = queue[head]]
    /\ head' = (head + 1) % queue_size
    /\ pending_task_count' = pending_task_count - 1
    /\ pc' = [pc EXCEPT ![w] = "run"]
    /\ UNCHANGED <<lock, queue, tail, shutdown, active_thread_num, freed>>

(* The task's function returns. *)
Done(w) ==
    /\ pc[w] = "run"
    /\ pc' = [pc EXCEPT ![w] = "lock"]
    /\ task' = [task EXCEPT ![w] = NoTask]
    /\ UNCHANGED <<lock, ring, shutdown, active_thread_num, freed>>

------------------------------------------------------------------------------
CreatorStep == CreateThread \/ CreateFails
DestroyStep(c) == DestroyFirst(c) \/ DestroyAgain(c) \/ Join(c) \/ Free(c)
WorkerStep(w) == Sleep(w) \/ Exit(w) \/ Take(w) \/ Done(w)

Next ==
    \/ CreatorStep
    \/ \E c \in Clients, t \in Tasks : Add(c, t)
    \/ \E c \in Clients : DestroyCall(c) \/ DestroyStep(c)
    \/ \E w \in Workers : WorkerStep(w) \/ SpuriousWake(w)

Spec == Init /\ [][Next]_vars

(* The scheduler runs every thread that can run, tasks return, and a       *)
(* thread that waits for the mutex gets it unless another one keeps it.    *)
Fairness ==
    /\ WF_vars(CreatorStep)
    /\ \A c \in Clients : WF_vars(DestroyStep(c))
    /\ \A w \in Workers : WF_vars(WorkerStep(w))

FairSpec == Spec /\ Fairness

------------------------------------------------------------------------------
(* Properties.  An operator X_y above is X with the mistake y; it is no    *)
(* part of the specification and shows what the properties can detect.     *)

Contents == [i \in 1 .. pending_task_count |-> queue[(head + i - 1) % queue_size]]

Abs == INSTANCE TaskQueue WITH
    Capacity <- queue_size,
    pending  <- Contents,
    running  <- task

(* Also the C pool is a bounded FIFO queue: no accepted task is            *)
(* overwritten, lost or run twice.                                         *)
FifoQueue == Abs!Spec

(* Unless somebody asks for an immediate shutdown, or calls                *)
(* threadpool_destroy() a second time and so keeps the mutex, every        *)
(* accepted task is run, whether or not the pool is destroyed.             *)
EveryTaskRuns == [](shutdown # immediate_shutdown /\ lock = NoThread) => Abs!Fairness

(* A graceful threadpool_destroy() releases the pool only when every task  *)
(* accepted before it has been taken and has returned.                     *)
GracefulDrains ==
    freed /\ shutdown = graceful_shutdown =>
        pending_task_count = 0 /\ \A w \in Workers : task[w] = NoTask

(* threadpool_free() refuses while active_thread_num > 0, and its caller   *)
(* ignores the refusal: it never comes to that, even after a create() that *)
(* failed half-way.                                                        *)
FreeNeverRefuses == (\A w \in Created : pc[w] = "exited") => active_thread_num = 0

(* threadpool.cpp:127, "Join all worker thread": once it has asked the     *)
(* workers to stop, threadpool_destroy() joins them and frees the pool.    *)
(* This fails when a second call keeps the mutex (DestroyAgain).           *)
DestroyReturns == [](lock = NoThread) => \A c \in Clients : pc[c] = "join" ~> freed
==============================================================================
