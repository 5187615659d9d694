------------------------------ MODULE TaskQueue ------------------------------
(***************************************************************************)
(* What a thread pool promises its clients: tasks are accepted into a      *)
(* bounded queue, each accepted task is handed to exactly one worker, in   *)
(* the order of acceptance, and a worker runs one task at a time.  It is   *)
(* the abstract specification that ThreadPool implements, and the pool     *)
(* that Reactor is built on.                                               *)
(***************************************************************************)
EXTENDS Naturals, Sequences

CONSTANTS
    Tasks,      \* what a threadpool_task_t may carry
    Workers,    \* threads that run tasks
    Capacity,   \* number of tasks the queue may hold, at least 1
    NoTask      \* what a worker holds between two tasks, no task

VARIABLES
    pending,    \* accepted tasks that no worker has taken, oldest first
    running     \* the task each worker is running, or NoTask

vars == <<pending, running>>

TypeOK ==
    /\ pending \in Seq(Tasks)
    /\ running \in [Workers -> Tasks \cup {NoTask}]

Init ==
    /\ pending = <<>>
    /\ running = [w \in Workers |-> NoTask]

(* The queue accepts task t. *)
Submit(t) ==
    /\ Len(pending) < Capacity
    /\ pending' = Append(pending, t)
    /\ UNCHANGED running

(* Worker w takes the oldest task. *)
Take(w) ==
    /\ running[w] = NoTask
    /\ pending # <<>>
    /\ running' = [running EXCEPT ![w] = Head(pending)]
    /\ pending' = Tail(pending)

(* The function of the task that worker w runs returns. *)
Finish(w) ==
    /\ running[w] # NoTask
    /\ running' = [running EXCEPT ![w] = NoTask]
    /\ UNCHANGED pending

Next ==
    \/ \E t \in Tasks : Submit(t)
    \/ \E w \in Workers : Take(w) \/ Finish(w)

Spec == Init /\ [][Next]_vars

(* While tasks are pending and a worker is free, some worker takes one.   *)
Fairness ==
    /\ WF_vars(\E w \in Workers : Take(w))
    /\ \A w \in Workers : WF_vars(Finish(w))

LiveSpec == Spec /\ Fairness
==============================================================================
