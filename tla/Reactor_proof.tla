------------------------------ MODULE Reactor_proof ------------------------------
(* Theorems about Reactor for any number of connections, timers, workers   *)
(* and pool slots, any timeout and any of the faults.                      *)
EXTENDS Reactor, TLAPS

LEMMA Constants ==
    /\ NoRequest \notin Requests /\ NoTimer \notin Timers /\ Listener \notin Requests
    /\ TIMER_TIME_OUT \in Nat \ {0} /\ QUEUE_SIZE \in Nat \ {0}
    /\ MAXEVENTS \in Nat \ {0} /\ MaxBacklog \in Nat \ {0}
  BY ReactorAssumption

------------------------------------------------------------------------------
(* Type correctness *)

LEMMA TypeNewTimer ==
  ASSUME TypeOK, NEW r \in Requests, NEW t \in Timers, NewTimer(r, t)
  PROVE  /\ timer' \in [Requests -> Timers \cup {NoTimer}]
         /\ myTimerQueue' \in SUBSET Timers
         /\ deleted' \in [Timers -> BOOLEAN]
         /\ request_data' \in [Timers -> Requests \cup {NoRequest}]
         /\ remaining' \in [Timers -> 0 .. TIMER_TIME_OUT]
  BY Constants DEF TypeOK, NewTimer

LEMMA TypeClearReq ==
  ASSUME TypeOK, NEW R, ClearReq(R)
  PROVE  /\ timer' \in [Requests -> Timers \cup {NoTimer}]
         /\ deleted' \in [Timers -> BOOLEAN]
         /\ request_data' \in [Timers -> Requests \cup {NoRequest}]
  BY DEF TypeOK, ClearReq

LEMMA TypeDelete ==
  ASSUME TypeOK, NEW R, Delete(R)
  PROVE  /\ epoll' \in [Requests -> {"none", "armed", "disarmed"}]
         /\ ready' \in [Requests -> SUBSET {"in", "err"}]
         /\ sock' \in [Requests -> {"closed", "open"}]
         /\ heap' \in [Requests -> {"free", "live", "corrupt"}]
         /\ timer' \in [Requests -> Timers \cup {NoTimer}]
         /\ deleted' \in [Timers -> BOOLEAN]
         /\ request_data' \in [Timers -> Requests \cup {NoRequest}]
  BY TypeClearReq DEF TypeOK, Delete

LEMMA TypePool ==
  ASSUME Pool!TypeOK,
         \/ \E r \in Requests : Pool!Submit(r)
         \/ \E w \in Workers : Pool!Take(w) \/ Pool!Finish(w)
  PROVE  Pool!TypeOK'
  BY DEF Pool!TypeOK, Pool!Submit, Pool!Take, Pool!Finish

LEMMA TypeMain == ASSUME TypeOK, MainStep PROVE TypeOK'
  <1> USE Constants DEF kernel, objects, stamps, pool
  <1>1. CASE EpollWait
    <2>1. epoll' \in [Requests -> {"none", "armed", "disarmed"}] /\ listenReady' \in BOOLEAN
      BY <1>1 DEF EpollWait, TypeOK
    <2>2. Pending \subseteq Events
      BY DEF Pending, EventOf, Events
    <2>3. QED
      BY <1>1, <2>1, <2>2 DEF EpollWait, TypeOK, Pool!TypeOK
  <1>2. CASE EpollWaitFails
    BY <1>2 DEF EpollWaitFails, TypeOK, Pool!TypeOK
  <1>3. CASE Accept
    <2>1. PICK r \in FreeRequests, t \in FreeTimers :
            /\ sock' = [sock EXCEPT ![r] = "open"]
            /\ heap' = [heap EXCEPT ![r] = "live"]
            /\ \/ epoll' = [epoll EXCEPT ![r] = "armed"]
               \/ "epoll_add" \in Faults /\ UNCHANGED epoll
            /\ NewTimer(r, t)
      BY <1>3 DEF Accept
    <2>2. r \in Requests /\ t \in Timers
      BY DEF FreeRequests, FreeTimers
    <2>3. /\ sock' \in [Requests -> {"closed", "open"}]
          /\ heap' \in [Requests -> {"free", "live", "corrupt"}]
          /\ epoll' \in [Requests -> {"none", "armed", "disarmed"}]
      BY <2>1, <2>2 DEF TypeOK
    <2>4. backlog' \in 0 .. MaxBacklog
      BY <1>3 DEF Accept, TypeOK
    <2>5. QED
      BY <1>3, <2>1, <2>2, <2>3, <2>4, TypeNewTimer DEF Accept, NextEvent, TypeOK, Pool!TypeOK
  <1>4. CASE AcceptLeaks
    BY <1>4 DEF AcceptLeaks, NextEvent, FreeRequests, TypeOK, Pool!TypeOK
  <1>5. CASE AcceptFails
    BY <1>5 DEF AcceptFails, NextEvent, TypeOK, Pool!TypeOK
  <1>6. ASSUME NEW r \in Requests, HandleError(r) PROVE TypeOK'
    BY <1>6, TypeDelete DEF HandleError, NextEvent, TypeOK, Pool!TypeOK
  <1>7. ASSUME NEW r \in Requests, HandleRead(r) PROVE TypeOK'
    <2>1. Pool!TypeOK'
      BY <1>7, TypePool DEF HandleRead, TypeOK
    <2>2. QED
      BY <1>7, <2>1, TypeClearReq DEF HandleRead, NextEvent, TypeOK
  <1>8. CASE HandleExpired
    <2>1. PICK P \in SUBSET (myTimerQueue \ Blocking) :
            /\ myTimerQueue' = myTimerQueue \ P
            /\ Delete({request_data[t] : t \in P} \ {NoRequest})
      BY <1>8 DEF HandleExpired
    <2>2. QED
      BY <1>8, <2>1, TypeDelete DEF HandleExpired, TypeOK, Pool!TypeOK
  <1>9. QED
    BY <1>1, <1>2, <1>3, <1>4, <1>5, <1>6, <1>7, <1>8 DEF MainStep

LEMMA TypeWorker == ASSUME TypeOK, NEW w \in Workers, WorkerStep(w) PROVE TypeOK'
  <1> USE Constants DEF kernel, objects, stamps, loop, Handling
  <1>1. CASE Take(w)
    <2>1. Pool!TypeOK'
      BY <1>1, TypePool DEF Take, TypeOK
    <2>2. QED
      BY <1>1, <2>1 DEF Take, TypeOK
  <1>2. CASE HandleAndClose(w)
    <2>1. Pool!TypeOK'
      BY <1>2, TypePool DEF HandleAndClose, TypeOK
    <2>2. QED
      BY <1>2, <2>1, TypeDelete DEF HandleAndClose, TypeOK
  <1>3. CASE HandleAndKeep(w)
    <2>1. PICK t \in FreeTimers : NewTimer(task[w], t)
      BY <1>3 DEF HandleAndKeep
    <2>2. task[w] \in Requests /\ t \in Timers
      BY <1>3 DEF HandleAndKeep, TypeOK, Pool!TypeOK, FreeTimers
    <2>3. ready' \in [Requests -> SUBSET {"in", "err"}]
      BY <1>3, <2>2 DEF HandleAndKeep, TypeOK
    <2>4. QED
      BY <1>3, <2>1, <2>2, <2>3, TypeNewTimer DEF HandleAndKeep, TypeOK, Pool!TypeOK
  <1>4. CASE Rearm(w)
    <2>1. Pool!TypeOK'
      BY <1>4, TypePool DEF Rearm, TypeOK
    <2>2. QED
      BY <1>4, <2>1 DEF Rearm, TypeOK
  <1>5. CASE RearmFails(w)
    <2>1. Pool!TypeOK'
      BY <1>5, TypePool DEF RearmFails, TypeOK
    <2>2. QED
      BY <1>5, <2>1, TypeDelete DEF RearmFails, TypeOK
  <1>6. QED
    BY <1>1, <1>2, <1>3, <1>4, <1>5 DEF WorkerStep

LEMMA TypeOutside == ASSUME TypeOK, ClientStep \/ Tick PROVE TypeOK'
  <1> USE Constants DEF kernel, objects, stamps, loop, pool
  <1>1. CASE Connect
    BY <1>1 DEF Connect, TypeOK, Pool!TypeOK
  <1>2. ASSUME NEW r \in Requests, Arrive(r) PROVE TypeOK'
    BY <1>2 DEF Arrive, TypeOK, Pool!TypeOK
  <1>3. CASE Tick
    <2>1. remaining' \in [Timers -> 0 .. TIMER_TIME_OUT]
      BY <1>3 DEF Tick, TypeOK
    <2>2. QED
      BY <1>3, <2>1 DEF Tick, TypeOK, Pool!TypeOK
  <1>4. QED
    BY <1>1, <1>2, <1>3 DEF ClientStep

LEMMA TypeInit == Init => TypeOK
  <1>1. Pool!Init => Pool!TypeOK
    BY DEF Pool!Init, Pool!TypeOK
  <1>2. Init => /\ ready \in [Requests -> SUBSET {"in", "err"}]
                /\ batch \in SUBSET Events /\ myTimerQueue \in SUBSET Timers
    BY DEF Init
  <1>3. Init => /\ backlog \in 0 .. MaxBacklog
                /\ remaining \in [Timers -> 0 .. TIMER_TIME_OUT]
    BY Constants DEF Init
  <1>4. Init => /\ epoll \in [Requests -> {"none", "armed", "disarmed"}]
                /\ sock \in [Requests -> {"closed", "open"}]
                /\ heap \in [Requests -> {"free", "live", "corrupt"}]
                /\ timer \in [Requests -> Timers \cup {NoTimer}]
                /\ request_data \in [Timers -> Requests \cup {NoRequest}]
                /\ main \in {"wait", "events"} /\ events \in {"usable", "invalid"}
                /\ stage \in [Workers -> {"handle", "rearm"}]
    BY DEF Init
  <1>5. Init => listenReady \in BOOLEAN
    BY DEF Init
  <1>6. Init => deleted \in [Timers -> BOOLEAN]
    BY DEF Init
  <1>7. QED
    BY <1>1, <1>2, <1>3, <1>4, <1>5, <1>6 DEF Init, TypeOK

LEMMA TypeStep == TypeOK /\ [Next]_vars => TypeOK'
  <1> SUFFICES ASSUME TypeOK, [Next]_vars PROVE TypeOK'
    OBVIOUS
  <1>1. CASE UNCHANGED vars
    BY <1>1 DEF vars, kernel, objects, stamps, loop, pool, TypeOK, Pool!TypeOK
  <1>2. QED
    BY <1>1, TypeMain, TypeWorker, TypeOutside DEF Next

(* Type correctness, with or without the assumption on the workers' speed. *)
THEOREM TypeCorrect == Spec => []TypeOK
  BY TypeInit, TypeStep, PTL DEF Spec

------------------------------------------------------------------------------
(* The inductive invariant of a server whose workers are prompt *)

(* Who holds which requests: the events of this round, the pool's queue,   *)
(* the workers; Detached are those between separateTimer() and the worker's*)
(* new timer, Rearmers the workers that have set one.                      *)
Batched  == {r \in Requests : InBatch(r)}
Waiting  == {r \in Requests : Queued(r)}
Running  == {r \in Requests : Handled(r)}
Detached == Waiting \cup {r \in Requests : \E w \in Workers : task[w] = r /\ stage[w] = "handle"}
Rearmers == {w \in Workers : Handling(w, "rearm")}

(* Nobody holds a request twice, ... *)
TasksOnce   == \A i, j \in DOMAIN tasks : tasks[i] = tasks[j] => i = j
WorkersOnce == \A v, w \in Workers : task[v] = task[w] => v = w \/ task[v] = NoRequest
BatchOnce   == \A r \in Requests : ~(<<r, "in">> \in batch /\ <<r, "err">> \in batch)

(* ... two never hold the same, and somebody does iff it is disarmed.      *)
Apart ==
    /\ \A r \in Requests : epoll[r] = "disarmed" <=> r \in Batched \cup Waiting \cup Running
    /\ Batched \cap Waiting = {} /\ Batched \cap Running = {} /\ Waiting \cap Running = {}

(* The events of a round are handled before the next round.                *)
RoundOver == main = "wait" => batch = {}

(* A request has a timer, except from separateTimer() to the next one; and *)
(* what is not live has none and is not registered.                        *)
HasTimer ==
    \A r \in Requests :
        /\ heap[r] # "corrupt"
        /\ heap[r] # "live" => epoll[r] = "none" /\ timer[r] = NoTimer
        /\ r \in Detached => timer[r] = NoTimer
        /\ heap[r] = "live" /\ r \notin Detached => timer[r] # NoTimer

(* The timer that a worker has just set has not expired.                   *)
InTime == \A w \in Rearmers : remaining[timer[task[w]]] > 0

IInv ==
    /\ TypeOK
    /\ TasksOnce /\ WorkersOnce /\ BatchOnce /\ Apart /\ RoundOver
    /\ TimersLinked /\ HasTimer /\ InTime

------------------------------------------------------------------------------
(* How the steps move requests between their holders *)

LEMMA QueueAppend ==
  ASSUME tasks \in Seq(Requests), NEW r \in Requests, tasks' = Append(tasks, r), TasksOnce, r \notin Waiting
  PROVE  TasksOnce' /\ Waiting' = Waiting \cup {r}
  <1>1. /\ DOMAIN tasks' = 1 .. Len(tasks) + 1 /\ DOMAIN tasks = 1 .. Len(tasks) /\ Len(tasks) \in Nat
        /\ \A i \in 1 .. Len(tasks) : tasks'[i] = tasks[i]
        /\ tasks'[Len(tasks) + 1] = r
    OBVIOUS
  <1>2. QED
    BY <1>1 DEF TasksOnce, Waiting, Queued

LEMMA QueueTake ==
  ASSUME tasks \in Seq(Requests), tasks # <<>>, tasks' = Tail(tasks), TasksOnce
  PROVE  /\ TasksOnce' /\ Head(tasks) \in Waiting
         /\ Waiting' = Waiting \ {Head(tasks)}
  <1>1. /\ DOMAIN tasks = 1 .. Len(tasks) /\ DOMAIN tasks' = 1 .. Len(tasks) - 1 /\ Len(tasks) \in Nat \ {0}
        /\ \A i \in 1 .. Len(tasks) - 1 : tasks'[i] = tasks[i + 1]
        /\ Head(tasks) = tasks[1]
        /\ \A i \in 1 .. Len(tasks) : tasks[i] \in Requests
    OBVIOUS
  <1>2. TasksOnce'
    BY <1>1 DEF TasksOnce
  <1>3. Waiting' \subseteq Waiting \ {Head(tasks)}
    BY <1>1 DEF TasksOnce, Waiting, Queued
  <1>4. ASSUME NEW q \in Waiting, q # Head(tasks) PROVE q \in Waiting'
    <2>1. PICK i \in 1 .. Len(tasks) : tasks[i] = q
      BY <1>1, <1>4 DEF Waiting, Queued
    <2>2. i - 1 \in 1 .. Len(tasks) - 1 /\ tasks'[i - 1] = q
      BY <1>1, <1>4, <2>1
    <2>3. QED
      BY <1>1, <2>2 DEF Waiting, Queued
  <1>5. Head(tasks) \in Waiting
    BY <1>1 DEF Waiting, Queued
  <1>6. QED
    BY <1>2, <1>3, <1>4, <1>5

LEMMA PoolUnmoved ==
  ASSUME UNCHANGED <<tasks, task, stage>>
  PROVE  /\ UNCHANGED <<Waiting, Running, Detached, Rearmers>>
         /\ TasksOnce' = TasksOnce /\ WorkersOnce' = WorkersOnce
  BY DEF Waiting, Running, Queued, Handled, Detached, TasksOnce, WorkersOnce, Rearmers, Handling

LEMMA NotInHand ==
  ASSUME IInv, NEW r \in Requests, epoll[r] # "disarmed"
  PROVE  r \notin Batched \cup Waiting \cup Running \cup Detached
  BY DEF IInv, Apart, Detached, Running, Handled

(* A worker that is about to register its request finds it as it left it. *)
LEMMA RearmerFacts ==
  ASSUME IInv, NEW w \in Rearmers
  PROVE  /\ w \in Workers /\ task[w] \in Running /\ task[w] \in Requests
         /\ heap[task[w]] = "live" /\ epoll[task[w]] = "disarmed" /\ task[w] \notin Detached
         /\ timer[task[w]] \in Timers /\ remaining[timer[task[w]]] > 0
  <1>1. w \in Workers /\ task[w] # NoRequest /\ stage[w] = "rearm" /\ task[w] \in Requests
    BY DEF Rearmers, Handling, IInv, TypeOK, Pool!TypeOK
  <1>2. task[w] \in Running
    BY <1>1 DEF Running, Handled
  <1>3. epoll[task[w]] = "disarmed" /\ task[w] \notin Waiting
    BY <1>1, <1>2 DEF IInv, Apart
  <1>4. task[w] \notin Detached
    BY <1>1, <1>3 DEF Detached, IInv, WorkersOnce
  <1>5. heap[task[w]] = "live" /\ timer[task[w]] # NoTimer
    BY <1>1, <1>3, <1>4 DEF IInv, HasTimer
  <1>6. QED
    BY <1>1, <1>2, <1>3, <1>4, <1>5 DEF IInv, TypeOK, InTime

------------------------------------------------------------------------------
(* How the steps keep requests and timers linked *)

LEMMA ClearKeepsLinks ==
  ASSUME TypeOK, TimersLinked, NEW R \in SUBSET Requests, ClearReq(R)
  PROVE  /\ \A t \in myTimerQueue :
               IF deleted'[t] THEN request_data'[t] = NoRequest
               ELSE request_data'[t] # NoRequest /\ timer'[request_data'[t]] = t
         /\ \A r \in Requests :
               /\ timer'[r] = IF r \in R THEN NoTimer ELSE timer[r]
               /\ timer'[r] # NoTimer => timer'[r] \in myTimerQueue /\ request_data'[timer'[r]] = r
  <1>1. \A r \in Requests : timer'[r] = IF r \in R THEN NoTimer ELSE timer[r]
    BY DEF ClearReq
  <1>2. \A t \in Timers : t \in TimersOf(R) <=> \E r \in R : timer[r] = t
    BY Constants DEF TimersOf
  <1>3. \A t \in Timers : /\ deleted'[t] = (deleted[t] \/ t \in TimersOf(R))
                           /\ request_data'[t] = IF t \in TimersOf(R) THEN NoRequest ELSE request_data[t]
    BY DEF ClearReq
  <1>4. ASSUME NEW t \in myTimerQueue
        PROVE  IF deleted'[t] THEN request_data'[t] = NoRequest
               ELSE request_data'[t] # NoRequest /\ timer'[request_data'[t]] = t
    <2>1. CASE t \in TimersOf(R)
      BY <1>3, <2>1 DEF TypeOK
    <2>2. CASE t \notin TimersOf(R)
      <3>1. t \in Timers /\ deleted'[t] = deleted[t] /\ request_data'[t] = request_data[t]
        BY <1>3, <2>2 DEF TypeOK
      <3>2. CASE deleted[t]
        BY <3>1, <3>2 DEF TimersLinked
      <3>3. CASE ~deleted[t]
        <4>1. request_data[t] \in Requests /\ timer[request_data[t]] = t
          BY <3>1, <3>3 DEF TimersLinked, TypeOK
        <4>2. request_data[t] \notin R
          BY <1>2, <2>2, <3>1, <4>1
        <4>3. QED
          BY <1>1, <3>1, <3>3, <4>1, <4>2, Constants
      <3>4. QED
        BY <3>2, <3>3
    <2>3. QED
      BY <2>1, <2>2
  <1>5. ASSUME NEW r \in Requests, timer'[r] # NoTimer
        PROVE  timer'[r] \in myTimerQueue /\ request_data'[timer'[r]] = r
    <2>1. r \notin R /\ timer'[r] = timer[r] /\ timer[r] \in myTimerQueue /\ request_data[timer[r]] = r
      BY <1>1, <1>5 DEF TimersLinked
    <2>2. timer[r] \in Timers /\ timer[r] \notin TimersOf(R)
      <3>1. ASSUME NEW q \in R, timer[q] = timer[r] PROVE FALSE
        <4>1. q \in Requests /\ timer[q] # NoTimer
          BY <1>5, <2>1, <3>1
        <4>2. request_data[timer[q]] = q
          BY <4>1 DEF TimersLinked
        <4>3. QED
          BY <2>1, <3>1, <4>2
      <3>2. timer[r] \in Timers
        BY <2>1 DEF TypeOK
      <3>3. QED
        BY <1>2, <3>1, <3>2
    <2>3. QED
      BY <1>3, <2>1, <2>2
  <1>6. QED
    BY <1>1, <1>4, <1>5

LEMMA NewTimerKeepsLinks ==
  ASSUME TypeOK, TimersLinked, NEW r \in Requests, NEW t \in FreeTimers, NewTimer(r, t), timer[r] = NoTimer
  PROVE  /\ TimersLinked'
         /\ timer'[r] = t /\ t # NoTimer /\ t \in Timers /\ remaining'[t] = TIMER_TIME_OUT
         /\ \A q \in Requests : q # r => timer'[q] = timer[q] /\ timer[q] # t
         /\ \A x \in Timers : x # t => remaining'[x] = remaining[x]
  <1>1. t \in Timers /\ t \notin myTimerQueue /\ t # NoTimer
    BY Constants DEF FreeTimers
  <1>2. timer'[r] = t /\ \A q \in Requests : q # r => timer'[q] = timer[q]
    BY <1>1 DEF NewTimer, TypeOK
  <1>3. request_data'[t] = r /\ \A x \in Timers : x # t => request_data'[x] = request_data[x]
    BY <1>1 DEF NewTimer, TypeOK
  <1>4. ~deleted'[t] /\ \A x \in Timers : x # t => deleted'[x] = deleted[x]
    BY <1>1 DEF NewTimer, TypeOK
  <1>5. remaining'[t] = TIMER_TIME_OUT /\ \A x \in Timers : x # t => remaining'[x] = remaining[x]
    BY <1>1 DEF NewTimer, TypeOK
  <1>6. myTimerQueue' = myTimerQueue \cup {t} /\ myTimerQueue \subseteq Timers
    BY DEF NewTimer, TypeOK
  <1>7. \A q \in Requests : timer[q] # t
    BY <1>1 DEF TimersLinked
  <1>8. ASSUME NEW x \in myTimerQueue'
        PROVE  IF deleted'[x] THEN request_data'[x] = NoRequest
               ELSE request_data'[x] # NoRequest /\ timer'[request_data'[x]] = x
    <2>1. CASE x = t
      BY <1>2, <1>3, <1>4, <2>1, Constants
    <2>2. CASE x # t
      <3>1. x \in myTimerQueue /\ x \in Timers
        BY <1>6, <2>2
      <3>2. request_data'[x] = request_data[x] /\ deleted'[x] = deleted[x]
        BY <1>3, <1>4, <2>2, <3>1
      <3>3. CASE deleted[x]
        BY <3>1, <3>2, <3>3 DEF TimersLinked
      <3>4. CASE ~deleted[x]
        <4>1. request_data[x] # NoRequest /\ timer[request_data[x]] = x
          BY <3>1, <3>4 DEF TimersLinked
        <4>2. request_data[x] \in Requests /\ request_data[x] # r
          BY <1>6, <3>1, <4>1, Constants DEF TypeOK
        <4>3. QED
          BY <1>2, <3>2, <3>4, <4>1, <4>2
      <3>5. QED
        BY <3>3, <3>4
    <2>3. QED
      BY <2>1, <2>2
  <1>9. ASSUME NEW q \in Requests, timer'[q] # NoTimer
        PROVE  timer'[q] \in myTimerQueue' /\ request_data'[timer'[q]] = q
    <2>1. CASE q = r
      BY <1>2, <1>3, <1>6, <2>1
    <2>2. CASE q # r
      <3>1. timer'[q] = timer[q] /\ timer[q] \in myTimerQueue /\ request_data[timer[q]] = q
        BY <1>2, <1>9, <2>2 DEF TimersLinked
      <3>2. timer[q] \in Timers /\ timer[q] # t
        BY <1>6, <1>7, <3>1
      <3>3. QED
        BY <1>3, <1>6, <3>1, <3>2
    <2>3. QED
      BY <2>1, <2>2
  <1>10. TimersLinked'
    BY <1>8, <1>9 DEF TimersLinked
  <1>11. QED
    BY <1>1, <1>2, <1>5, <1>7, <1>10

LEMMA DeleteFacts ==
  ASSUME TypeOK, NEW R \in SUBSET Requests, Delete(R)
  PROVE  /\ ClearReq(R)
         /\ \A r \in Requests :
               /\ epoll'[r] = IF r \in R THEN "none" ELSE epoll[r]
               /\ heap'[r] = IF r \notin R THEN heap[r] ELSE IF heap[r] = "live" THEN "free" ELSE "corrupt"
  BY DEF Delete

------------------------------------------------------------------------------
(* What the steps share that delete requests, or that release a worker *)

LEMMA DeleteKeeps ==
  ASSUME IInv, NEW R \in SUBSET Requests, Delete(R), \A r \in R : heap[r] = "live",
         Batched' = Batched \ R, Waiting' = Waiting \ R, Running' = Running \ R,
         Detached' = Detached \ R
  PROVE  Apart' /\ HasTimer'
  <1>1. \A r \in Requests :
          /\ epoll'[r] = IF r \in R THEN "none" ELSE epoll[r]
          /\ heap'[r] = IF r \in R THEN "free" ELSE heap[r]
          /\ timer'[r] = IF r \in R THEN NoTimer ELSE timer[r]
    BY DeleteFacts, ClearKeepsLinks DEF IInv
  <1>2. Apart'
    BY <1>1 DEF IInv, Apart
  <1>3. HasTimer'
    BY <1>1 DEF IInv, HasTimer
  <1>4. QED
    BY <1>2, <1>3

LEMMA DeleteKeepsInTime ==
  ASSUME IInv, NEW R \in SUBSET Requests, Delete(R), UNCHANGED remaining,
         \A v \in Rearmers' : v \in Rearmers /\ task'[v] = task[v] /\ task[v] \notin R
  PROVE  InTime'
  <1> SUFFICES ASSUME NEW v \in Rearmers' PROVE remaining'[timer'[task'[v]]] > 0
    BY DEF InTime
  <1>1. v \in Rearmers /\ task'[v] = task[v] /\ task[v] \notin R
    OBVIOUS
  <1>2. task[v] \in Requests /\ remaining[timer[task[v]]] > 0
    BY <1>1, RearmerFacts
  <1>3. timer'[task[v]] = timer[task[v]]
    BY <1>1, <1>2, DeleteFacts, ClearKeepsLinks DEF IInv
  <1>4. QED
    BY <1>1, <1>2, <1>3

LEMMA FinishFacts ==
  ASSUME IInv, NEW w \in Workers, task[w] # NoRequest, Pool!Finish(w), UNCHANGED stage
  PROVE  /\ TasksOnce' /\ WorkersOnce' /\ task[w] \in Running
         /\ Waiting' = Waiting \ {task[w]} /\ Running' = Running \ {task[w]}
         /\ Detached' = Detached \ {task[w]}
         /\ \A v \in Rearmers' : v \in Rearmers /\ task'[v] = task[v] /\ task[v] # task[w]
  <1>1. task[w] \in Requests /\ task[w] \in Running
    BY DEF IInv, TypeOK, Pool!TypeOK, Running, Handled
  <1>2. task[w] \notin Waiting
    BY <1>1 DEF IInv, Apart
  <1>3. tasks' = tasks /\ task'[w] = NoRequest /\ \A v \in Workers : v # w => task'[v] = task[v]
    BY DEF Pool!Finish, IInv, TypeOK, Pool!TypeOK
  <1>4. Waiting' = Waiting /\ TasksOnce'
    BY <1>3 DEF Waiting, Queued, TasksOnce, IInv
  <1>5. \A v \in Workers : v # w => task[v] # task[w]
    BY DEF IInv, WorkersOnce
  <1>6. WorkersOnce'
    BY <1>3 DEF IInv, WorkersOnce
  <1>7. Running' = Running \ {task[w]}
    BY <1>3, <1>5, Constants DEF Running, Handled
  <1>8. Detached' = Detached \ {task[w]}
    BY <1>2, <1>3, <1>4, <1>5, Constants DEF Detached
  <1>9. \A v \in Rearmers' : v \in Rearmers /\ task'[v] = task[v] /\ task[v] # task[w]
    BY <1>3, <1>5 DEF Rearmers, Handling
  <1>10. QED
    BY <1>1, <1>2, <1>4, <1>6, <1>7, <1>8, <1>9

------------------------------------------------------------------------------
(* The steps of the main thread *)

LEMMA MainIInv == ASSUME Prompt, IInv, MainStep PROVE IInv'
  <1> USE DEF kernel, objects, stamps, pool
  <1>0. TypeOK'
    BY TypeMain DEF IInv
  <1> SUFFICES /\ TasksOnce' /\ WorkersOnce' /\ BatchOnce' /\ Apart' /\ RoundOver'
               /\ TimersLinked' /\ HasTimer' /\ InTime'
    BY <1>0 DEF IInv
  <1>1. CASE EpollWait
    <2> USE <1>1 DEF EpollWait
    <2>1. PICK B \in SUBSET Pending :
            batch' = B /\ epoll' = [r \in Requests |-> IF EventOf(r) \in B THEN "disarmed" ELSE epoll[r]]
      OBVIOUS
    <2>2. Batched' = {r \in Requests : EventOf(r) \in B}
      BY <2>1, Constants DEF Batched, InBatch, Pending, EventOf
    <2>3. \A r \in Requests : EventOf(r) \in B => epoll[r] = "armed"
      BY <2>1, Constants DEF Pending, EventOf
    <2>4. TasksOnce' /\ WorkersOnce' /\ TimersLinked' /\ InTime' /\ RoundOver'
      BY PoolUnmoved DEF IInv, TimersLinked, InTime, RoundOver
    <2>5. BatchOnce'
      BY <2>1, Constants DEF BatchOnce, Pending, EventOf
    <2>6. Batched = {}
      BY DEF IInv, RoundOver, Batched, InBatch
    <2>7. Apart'
      BY <2>1, <2>2, <2>3, <2>6, PoolUnmoved DEF IInv, Apart
    <2>8. HasTimer'
      BY <2>1, <2>3, PoolUnmoved DEF IInv, HasTimer
    <2>9. QED
      BY <2>4, <2>5, <2>7, <2>8
  <1>2. CASE EpollWaitFails
    <2>1. Batched' = Batched
      BY <1>2 DEF EpollWaitFails, Batched, InBatch
    <2>2. QED
      BY <1>2, <2>1, PoolUnmoved DEF EpollWaitFails, IInv, BatchOnce, Apart, RoundOver, TimersLinked, HasTimer, InTime
  <1>3. CASE AcceptLeaks \/ AcceptFails
    <2>1. Batched' = Batched
      BY <1>3, Constants DEF AcceptLeaks, AcceptFails, NextEvent, Batched, InBatch
    <2>2. BatchOnce'
      BY <1>3 DEF AcceptLeaks, AcceptFails, NextEvent, BatchOnce, IInv
    <2>3. UNCHANGED <<epoll, objects, stamps, main, pool>> /\ main = "events"
      BY <1>3 DEF AcceptLeaks, AcceptFails, NextEvent
    <2>4. QED
      BY <2>1, <2>2, <2>3, PoolUnmoved DEF IInv, Apart, RoundOver, TimersLinked, HasTimer, InTime
  <1>4. CASE Accept
    <2>1. PICK r \in FreeRequests, t \in FreeTimers :
            /\ heap' = [heap EXCEPT ![r] = "live"]
            /\ epoll' = [epoll EXCEPT ![r] = "armed"] \/ UNCHANGED epoll
            /\ NewTimer(r, t)
      BY <1>4 DEF Accept
    <2>2. r \in Requests /\ heap[r] = "free" /\ epoll[r] = "none" /\ timer[r] = NoTimer
      BY DEF FreeRequests, IInv, HasTimer
    <2>3. Batched' = Batched
      BY <1>4, Constants DEF Accept, NextEvent, Batched, InBatch
    <2>4. UNCHANGED <<main, pool>> /\ main = "events"
      BY <1>4 DEF Accept, NextEvent
    <2>5. /\ TimersLinked' /\ timer'[r] = t /\ t # NoTimer
          /\ \A q \in Requests : q # r => timer'[q] = timer[q] /\ timer[q] # t
          /\ \A x \in Timers : x # t => remaining'[x] = remaining[x]
      BY <2>1, <2>2, NewTimerKeepsLinks DEF IInv
    <2>6. /\ \A q \in Requests : q # r => heap'[q] = heap[q] /\ epoll'[q] = epoll[q]
          /\ heap'[r] = "live" /\ epoll'[r] \in {"none", "armed"}
      BY <2>1, <2>2 DEF IInv, TypeOK
    <2>7. r \notin Batched \cup Waiting \cup Running \cup Detached
      BY <2>2, NotInHand
    <2>8. TasksOnce' /\ WorkersOnce' /\ RoundOver'
      BY <2>4, PoolUnmoved DEF IInv, RoundOver
    <2>9. BatchOnce'
      BY <1>4 DEF Accept, NextEvent, BatchOnce, IInv
    <2>10. Apart'
      BY <2>2, <2>3, <2>4, <2>6, <2>7, PoolUnmoved DEF IInv, Apart
    <2>11. HasTimer'
      BY <2>2, <2>4, <2>5, <2>6, <2>7, PoolUnmoved DEF IInv, HasTimer
    <2>12. InTime'
      <3> SUFFICES ASSUME NEW w \in Rearmers' PROVE remaining'[timer'[task'[w]]] > 0
        BY DEF InTime
      <3>1. w \in Rearmers /\ task'[w] = task[w]
        BY <2>4, PoolUnmoved
      <3>2. timer'[task[w]] = timer[task[w]] /\ timer[task[w]] # t
        BY <2>5, <2>7, <3>1, RearmerFacts
      <3>3. QED
        BY <2>5, <3>1, <3>2, RearmerFacts
    <2>13. QED
      BY <2>5, <2>8, <2>9, <2>10, <2>11, <2>12
  <1>5. ASSUME NEW r \in Requests, HandleError(r)
        PROVE  /\ TasksOnce' /\ WorkersOnce' /\ BatchOnce' /\ Apart' /\ RoundOver'
               /\ TimersLinked' /\ HasTimer' /\ InTime'
    <2>1. /\ <<r, "err">> \in batch /\ batch' = batch \ {<<r, "err">>} /\ Delete({r})
          /\ UNCHANGED <<myTimerQueue, remaining, main, tasks, task, stage>> /\ main = "events"
      BY <1>5 DEF HandleError, NextEvent
    <2>2. Batched' = Batched \ {r} /\ r \in Batched
      <3>1. \A e \in batch : e[1] = r => e = <<r, "err">>
        BY <2>1, Constants DEF IInv, TypeOK, Events, BatchOnce
      <3>2. QED
        BY <2>1, <3>1 DEF Batched, InBatch
    <2>3. r \notin Waiting \cup Running /\ r \notin Detached /\ epoll[r] = "disarmed"
      BY <2>2 DEF IInv, Apart, Detached, Running, Handled
    <2>4. heap[r] = "live"
      BY <2>3 DEF IInv, HasTimer
    <2>5. Apart' /\ HasTimer'
      BY <2>1, <2>2, <2>3, <2>4, DeleteKeeps, PoolUnmoved
    <2>6. InTime'
      <3>1. \A v \in Rearmers' : v \in Rearmers /\ task'[v] = task[v] /\ task[v] \notin {r}
        BY <2>1, <2>3, PoolUnmoved, RearmerFacts
      <3>2. QED
        BY <2>1, <3>1, DeleteKeepsInTime
    <2>7. TimersLinked'
      BY <2>1, DeleteFacts, ClearKeepsLinks DEF IInv, TimersLinked
    <2>8. TasksOnce' /\ WorkersOnce' /\ BatchOnce' /\ RoundOver'
      BY <2>1, PoolUnmoved DEF IInv, BatchOnce, RoundOver
    <2>9. QED
      BY <2>5, <2>6, <2>7, <2>8
  <1>6. ASSUME NEW r \in Requests, HandleRead(r)
        PROVE  /\ TasksOnce' /\ WorkersOnce' /\ BatchOnce' /\ Apart' /\ RoundOver'
               /\ TimersLinked' /\ HasTimer' /\ InTime'
    <2>1. /\ <<r, "in">> \in batch /\ batch' = batch \ {<<r, "in">>} /\ ClearReq({r})
          /\ tasks' = Append(tasks, r)
          /\ UNCHANGED <<epoll, heap, myTimerQueue, remaining, main, task, stage>> /\ main = "events"
      BY <1>6 DEF HandleRead, NextEvent, Pool!Submit
    <2>2. Batched' = Batched \ {r} /\ r \in Batched
      <3>1. \A e \in batch : e[1] = r => e = <<r, "in">>
        BY <2>1, Constants DEF IInv, TypeOK, Events, BatchOnce
      <3>2. QED
        BY <2>1, <3>1 DEF Batched, InBatch
    <2>3. r \notin Waiting \cup Running /\ epoll[r] = "disarmed"
      BY <2>2 DEF IInv, Apart
    <2>4. heap[r] = "live"
      BY <2>3 DEF IInv, HasTimer
    <2>5. TasksOnce' /\ Waiting' = Waiting \cup {r}
      BY <2>1, <2>3, QueueAppend DEF IInv, TypeOK, Pool!TypeOK
    <2>6. Running' = Running /\ Rearmers' = Rearmers /\ WorkersOnce' /\ Detached' = Detached \cup {r}
      BY <2>1, <2>5 DEF Running, Handled, Rearmers, Handling, Detached, WorkersOnce, IInv
    <2>7. \A q \in Requests : timer'[q] = IF q = r THEN NoTimer ELSE timer[q]
      BY <2>1, ClearKeepsLinks DEF IInv
    <2>8. TimersLinked'
      BY <2>1, ClearKeepsLinks DEF IInv, TimersLinked
    <2>9. Apart'
      BY <2>1, <2>2, <2>3, <2>5, <2>6 DEF IInv, Apart
    <2>10. HasTimer'
      BY <2>1, <2>4, <2>6, <2>7 DEF IInv, HasTimer
    <2>11. InTime'
      <3> SUFFICES ASSUME NEW v \in Rearmers' PROVE remaining'[timer'[task'[v]]] > 0
        BY DEF InTime
      <3>1. v \in Rearmers /\ task'[v] = task[v] /\ remaining' = remaining
        BY <2>1, <2>6
      <3>2. task[v] \in Requests /\ task[v] # r /\ remaining[timer[task[v]]] > 0
        BY <2>3, <3>1, RearmerFacts
      <3>3. QED
        BY <2>7, <3>1, <3>2
    <2>12. BatchOnce' /\ RoundOver'
      BY <2>1 DEF IInv, BatchOnce, RoundOver
    <2>13. QED
      BY <2>5, <2>6, <2>8, <2>9, <2>10, <2>11, <2>12
  <1>7. CASE HandleExpired
    <2>1. PICK P \in SUBSET (myTimerQueue \ Blocking) :
            /\ myTimerQueue' = myTimerQueue \ P
            /\ Delete({request_data[t] : t \in P} \ {NoRequest})
      BY <1>7 DEF HandleExpired
    <2> DEFINE R == {request_data[t] : t \in P} \ {NoRequest}
    <2>2. batch = {} /\ UNCHANGED <<remaining, batch, tasks, task, stage>>
      BY <1>7 DEF HandleExpired
    <2>3. R \in SUBSET Requests /\ P \in SUBSET Timers
      BY DEF IInv, TypeOK
    <2>4. ASSUME NEW r \in R
          PROVE  timer[r] \in P /\ remaining[timer[r]] = 0 /\ timer[r] # NoTimer
      <3>1. PICK t \in P : request_data[t] = r /\ r # NoRequest
        OBVIOUS
      <3>2. t \in myTimerQueue /\ t \notin Blocking /\ t \in Timers
        BY <2>3
      <3>3. ~deleted[t] /\ timer[r] = t
        BY <3>1, <3>2 DEF IInv, TimersLinked
      <3>4. remaining[t] = 0
        <4>1. remaining[t] \in 0 .. TIMER_TIME_OUT
          BY <3>2 DEF IInv, TypeOK
        <4>2. ~(remaining[t] > 0)
          BY <3>2, <3>3 DEF Blocking
        <4>3. QED
          BY <4>1, <4>2, Constants
      <3>5. QED
        BY <3>2, <3>3, <3>4, Constants
    <2>5. ASSUME NEW r \in R
          PROVE  heap[r] = "live" /\ r \notin Waiting \cup Running \cup Detached
      <3>1. r \in Requests /\ timer[r] # NoTimer /\ remaining[timer[r]] = 0
        BY <2>3, <2>4
      <3>2. heap[r] = "live" /\ r \notin Detached
        BY <3>1 DEF IInv, HasTimer
      <3>3. r \notin Running
        <4>1. SUFFICES ASSUME NEW w \in Workers, task[w] = r PROVE FALSE
          BY DEF Running, Handled
        <4>2. w \in Rearmers
          <5>1. r # NoRequest /\ stage[w] \in {"handle", "rearm"}
            BY <3>1, Constants DEF IInv, TypeOK
          <5>2. stage[w] # "handle"
            BY <3>1, <3>2, <4>1 DEF Detached
          <5>3. QED
            BY <4>1, <5>1, <5>2 DEF Rearmers, Handling
        <4>3. remaining[timer[r]] > 0
          BY <4>1, <4>2, RearmerFacts
        <4>4. QED
          BY <3>1, <4>3
      <3>4. QED
        BY <3>2, <3>3 DEF Detached
    <2>6. Batched = {} /\ Batched' = {}
      BY <2>2 DEF Batched, InBatch
    <2>7. Apart' /\ HasTimer'
      <3> HIDE DEF R
      <3>1. Delete(R) /\ \A r \in R : heap[r] = "live"
        BY <2>1, <2>5 DEF R
      <3>2. /\ Batched' = Batched \ R /\ Waiting' = Waiting \ R
            /\ Running' = Running \ R /\ Detached' = Detached \ R
        BY <2>2, <2>5, <2>6, PoolUnmoved
      <3>3. QED
        BY <2>3, <3>1, <3>2, DeleteKeeps
    <2>8. InTime'
      <3> HIDE DEF R
      <3>1. \A v \in Rearmers' : v \in Rearmers /\ task'[v] = task[v] /\ task[v] \notin R
        BY <2>2, <2>5, PoolUnmoved, RearmerFacts
      <3>2. Delete(R) /\ UNCHANGED remaining
        BY <2>1, <2>2 DEF R
      <3>3. QED
        BY <2>3, <3>1, <3>2, DeleteKeepsInTime
    <2>9. TimersLinked'
      <3>1. ClearReq(R)
        BY <2>1, <2>3, DeleteFacts DEF IInv
      <3>2. ASSUME NEW r \in Requests, r \notin R, timer[r] # NoTimer PROVE timer[r] \notin P
        <4>1. request_data[timer[r]] = r /\ r # NoRequest
          BY <3>2, Constants DEF IInv, TimersLinked
        <4>2. QED
          BY <3>2, <4>1
      <3> HIDE DEF R
      <3>3. /\ \A t \in myTimerQueue :
                  IF deleted'[t] THEN request_data'[t] = NoRequest
                  ELSE request_data'[t] # NoRequest /\ timer'[request_data'[t]] = t
            /\ \A r \in Requests :
                  /\ timer'[r] = IF r \in R THEN NoTimer ELSE timer[r]
                  /\ timer'[r] # NoTimer => timer'[r] \in myTimerQueue /\ request_data'[timer'[r]] = r
        BY <2>3, <3>1, ClearKeepsLinks DEF IInv
      <3>4. QED
        BY <2>1, <3>2, <3>3 DEF TimersLinked
    <2>10. TasksOnce' /\ WorkersOnce' /\ BatchOnce' /\ RoundOver'
      BY <2>2, PoolUnmoved DEF IInv, BatchOnce, RoundOver
    <2>11. QED
      BY <2>7, <2>8, <2>9, <2>10
  <1>8. QED
    BY <1>1, <1>2, <1>3, <1>4, <1>5, <1>6, <1>7 DEF MainStep

------------------------------------------------------------------------------
(* The steps of the workers *)

LEMMA DeleteTaskIInv ==
  ASSUME IInv, NEW w \in Workers, task[w] # NoRequest, heap[task[w]] = "live",
         Delete({task[w]}), Pool!Finish(w), UNCHANGED <<myTimerQueue, remaining, loop, stage>>
  PROVE  /\ TasksOnce' /\ WorkersOnce' /\ BatchOnce' /\ Apart' /\ RoundOver'
         /\ TimersLinked' /\ HasTimer' /\ InTime'
  <1> USE DEF loop
  <1>1. task[w] \in Requests
    BY DEF IInv, TypeOK, Pool!TypeOK
  <1>2. task[w] \notin Batched
    BY FinishFacts DEF IInv, Apart
  <1>3. Batched' = Batched \ {task[w]}
    BY <1>2 DEF Batched, InBatch
  <1>4. Apart' /\ HasTimer'
    BY <1>1, <1>3, FinishFacts, DeleteKeeps
  <1>5. InTime'
    BY <1>1, FinishFacts, DeleteKeepsInTime
  <1>6. TimersLinked'
    BY <1>1, DeleteFacts, ClearKeepsLinks DEF IInv, TimersLinked
  <1>7. TasksOnce' /\ WorkersOnce' /\ BatchOnce' /\ RoundOver'
    BY FinishFacts DEF IInv, BatchOnce, RoundOver
  <1>8. QED
    BY <1>4, <1>5, <1>6, <1>7

LEMMA WorkerIInv == ASSUME IInv, NEW w \in Workers, WorkerStep(w) PROVE IInv'
  <1> USE DEF kernel, objects, stamps, loop
  <1>0. TypeOK'
    BY TypeWorker DEF IInv
  <1> SUFFICES /\ TasksOnce' /\ WorkersOnce' /\ BatchOnce' /\ Apart' /\ RoundOver'
               /\ TimersLinked' /\ HasTimer' /\ InTime'
    BY <1>0 DEF IInv
  <1>1. CASE Take(w)
    <2> DEFINE r == Head(tasks)
    <2>1. /\ task[w] = NoRequest /\ tasks # <<>> /\ tasks' = Tail(tasks)
          /\ UNCHANGED <<epoll, heap, timer, stamps, main, batch>>
      BY <1>1 DEF Take, Pool!Take
    <2>2. /\ task'[w] = r /\ \A v \in Workers : v # w => task'[v] = task[v]
          /\ stage'[w] = "handle" /\ \A v \in Workers : v # w => stage'[v] = stage[v]
      BY <1>1 DEF Take, Pool!Take, IInv, TypeOK, Pool!TypeOK
    <2>3. TasksOnce' /\ r \in Waiting /\ Waiting' = Waiting \ {r}
      BY <2>1, QueueTake DEF IInv, TypeOK, Pool!TypeOK
    <2>4. r \in Requests /\ r # NoRequest /\ r \notin Running
      BY <2>3, Constants DEF IInv, Apart, Waiting
    <2> HIDE DEF r
    <2>5. \A v \in Workers : task[v] # r
      BY <2>4 DEF Running, Handled
    <2>6. WorkersOnce'
      BY <2>2, <2>5 DEF IInv, WorkersOnce
    <2>7. Running' = Running \cup {r}
      BY <2>1, <2>2, <2>4, Constants DEF Running, Handled
    <2>8. Detached' = Detached
      <3>1. Detached' \subseteq Detached
        BY <2>2, <2>3, <2>4 DEF Detached
      <3>2. Detached \subseteq Detached'
        BY <2>1, <2>2, <2>3, <2>4, Constants DEF Detached
      <3>3. QED
        BY <3>1, <3>2
    <2>9. \A v \in Rearmers' : v \in Rearmers /\ task'[v] = task[v]
      BY <2>2 DEF Rearmers, Handling
    <2>10. Batched' = Batched /\ BatchOnce' /\ RoundOver' /\ TimersLinked'
      BY <2>1 DEF Batched, InBatch, BatchOnce, RoundOver, TimersLinked, IInv
    <2>11. Apart'
      BY <2>1, <2>3, <2>4, <2>7, <2>10 DEF IInv, Apart
    <2>12. HasTimer'
      BY <2>1, <2>8 DEF IInv, HasTimer
    <2>13. InTime'
      BY <2>1, <2>9 DEF IInv, InTime
    <2>14. QED
      BY <2>3, <2>6, <2>10, <2>11, <2>12, <2>13
  <1>2. CASE HandleAndClose(w)
    <2>1. task[w] \in Requests /\ task[w] # NoRequest /\ epoll[task[w]] = "disarmed"
      BY <1>2 DEF HandleAndClose, Handling, IInv, TypeOK, Pool!TypeOK, Apart, Running, Handled
    <2>2. heap[task[w]] = "live"
      BY <2>1 DEF IInv, HasTimer
    <2>3. QED
      BY <1>2, <2>1, <2>2, DeleteTaskIInv DEF HandleAndClose
  <1>3. CASE HandleAndKeep(w)
    <2> DEFINE r == task[w]
    <2>1. PICK t \in FreeTimers : NewTimer(r, t)
      BY <1>3 DEF HandleAndKeep
    <2>2. /\ r # NoRequest /\ stage[w] = "handle" /\ stage' = [stage EXCEPT ![w] = "rearm"]
          /\ UNCHANGED <<epoll, heap, main, batch, tasks, task>>
      BY <1>3 DEF HandleAndKeep, Handling
    <2>3. r \in Requests /\ r \in Running /\ r \in Detached
      BY <2>2 DEF IInv, TypeOK, Pool!TypeOK, Running, Handled, Detached
    <2>4. r \notin Waiting /\ epoll[r] = "disarmed" /\ timer[r] = NoTimer
      BY <2>3 DEF IInv, Apart, HasTimer
    <2>5. \A v \in Workers : v # w => task[v] # r
      BY <2>2 DEF IInv, WorkersOnce
    <2>6. stage'[w] = "rearm" /\ \A v \in Workers : v # w => stage'[v] = stage[v]
      BY <2>2 DEF IInv, TypeOK
    <2>7. Waiting' = Waiting /\ Running' = Running /\ TasksOnce' /\ WorkersOnce'
      BY <2>2 DEF Waiting, Queued, Running, Handled, TasksOnce, WorkersOnce, IInv
    <2>8. Detached' = Detached \ {r}
      BY <2>2, <2>4, <2>5, <2>6, <2>7 DEF Detached
    <2>9. Batched' = Batched /\ BatchOnce' /\ RoundOver'
      BY <2>2 DEF Batched, InBatch, BatchOnce, RoundOver, IInv
    <2>10. Apart'
      BY <2>2, <2>7, <2>9 DEF IInv, Apart
    <2>11. /\ TimersLinked' /\ timer'[r] = t /\ t # NoTimer /\ t \in Timers
           /\ remaining'[t] = TIMER_TIME_OUT
           /\ \A q \in Requests : q # r => timer'[q] = timer[q] /\ timer[q] # t
           /\ \A x \in Timers : x # t => remaining'[x] = remaining[x]
      BY <2>1, <2>3, <2>4, NewTimerKeepsLinks DEF IInv
    <2>12. HasTimer'
      <3>1. heap[r] = "live"
        BY <2>3, <2>4 DEF IInv, HasTimer
      <3>2. QED
        BY <2>2, <2>3, <2>8, <2>11, <3>1 DEF IInv, HasTimer
    <2>13. InTime'
      <3> SUFFICES ASSUME NEW v \in Rearmers' PROVE remaining'[timer'[task'[v]]] > 0
        BY DEF InTime
      <3>1. CASE v = w
        BY <2>2, <2>11, <3>1, Constants
      <3>2. CASE v # w
        <4>1. v \in Rearmers /\ task'[v] = task[v] /\ v \in Workers
          BY <2>2, <2>6, <3>2 DEF Rearmers, Handling
        <4>2. task[v] \in Requests /\ task[v] # r
          BY <2>5, <3>2, <4>1, RearmerFacts
        <4>3. timer[task[v]] \in Timers /\ remaining[timer[task[v]]] > 0
          BY <4>1, RearmerFacts
        <4>4. QED
          BY <2>11, <4>1, <4>2, <4>3
      <3>3. QED
        BY <3>1, <3>2
    <2>14. QED
      BY <2>7, <2>9, <2>10, <2>11, <2>12, <2>13
  <1>4. CASE Rearm(w)
    <2>1. w \in Rearmers /\ Pool!Finish(w) /\ task[w] # NoRequest
      BY <1>4 DEF Rearm, Rearmers, Handling
    <2>2. UNCHANGED <<heap, timer, stamps, main, batch, stage>>
      BY <1>4 DEF Rearm
    <2>3. task[w] \in Requests /\ task[w] \in Running /\ heap[task[w]] = "live" /\ task[w] \notin Detached
      BY <2>1, RearmerFacts
    <2>4. epoll'[task[w]] = "armed" /\ \A q \in Requests : q # task[w] => epoll'[q] = epoll[q]
      BY <1>4, <2>3 DEF Rearm, IInv, TypeOK
    <2>5. Batched' = Batched /\ BatchOnce' /\ RoundOver' /\ TimersLinked'
      BY <2>2 DEF Batched, InBatch, BatchOnce, RoundOver, TimersLinked, IInv
    <2>6. /\ TasksOnce' /\ WorkersOnce'
          /\ Waiting' = Waiting \ {task[w]} /\ Running' = Running \ {task[w]}
          /\ Detached' = Detached \ {task[w]}
          /\ \A v \in Rearmers' : v \in Rearmers /\ task'[v] = task[v]
      BY <2>1, <2>2, FinishFacts DEF Rearmers
    <2>7. Apart'
      BY <2>3, <2>4, <2>5, <2>6 DEF IInv, Apart
    <2>8. HasTimer'
      BY <2>2, <2>3, <2>4, <2>6 DEF IInv, HasTimer
    <2>9. InTime'
      BY <2>2, <2>6 DEF IInv, InTime
    <2>10. QED
      BY <2>5, <2>6, <2>7, <2>8, <2>9
  <1>5. CASE RearmFails(w)
    <2>1. w \in Rearmers
      BY <1>5 DEF RearmFails, Rearmers, Handling
    <2>2. task[w] # NoRequest /\ heap[task[w]] = "live"
      BY <1>5, <2>1, RearmerFacts DEF RearmFails, Handling
    <2>3. QED
      BY <1>5, <2>2, DeleteTaskIInv DEF RearmFails
  <1>6. QED
    BY <1>1, <1>2, <1>3, <1>4, <1>5 DEF WorkerStep

------------------------------------------------------------------------------
(* Clients, the clock and the initial states *)

(* Time is the one place where the workers' speed matters. *)
LEMMA TickIInv == ASSUME Prompt, IInv, Tick PROVE InTime'
  <1> SUFFICES ASSUME NEW v \in Rearmers' PROVE remaining'[timer'[task'[v]]] > 0
    BY DEF InTime
  <1>1. UNCHANGED <<timer, request_data, myTimerQueue, tasks, task, stage>>
    BY DEF Tick, objects, pool
  <1>2. v \in Rearmers /\ task'[v] = task[v]
    BY <1>1, PoolUnmoved
  <1> DEFINE t == timer[task[v]]
  <1>3. t \in Timers /\ task[v] \in Requests /\ remaining[t] > 0
    BY <1>2, RearmerFacts
  <1>4. t \in myTimerQueue /\ request_data[t] = task[v]
    BY <1>3, Constants DEF IInv, TimersLinked
  <1>5. task[v] \in Rearming
    BY <1>2 DEF Rearming, Rearmers, Handling
  <1>6. remaining[t] > 1
    BY <1>4, <1>5 DEF Tick
  <1>7. remaining'[t] = remaining[t] - 1
    BY <1>3, <1>4 DEF Tick
  <1>8. remaining[t] \in Int
    BY <1>3 DEF IInv, TypeOK
  <1> HIDE DEF t
  <1>9. remaining'[t] > 0
    BY <1>6, <1>7, <1>8
  <1>10. QED
    BY <1>1, <1>2, <1>9 DEF t

LEMMA OutsideIInv == ASSUME Prompt, IInv, ClientStep \/ Tick PROVE IInv'
  <1>1. TypeOK'
    BY TypeOutside DEF IInv
  <1>2. UNCHANGED <<epoll, heap, timer, myTimerQueue, deleted, request_data, main, batch, tasks, task, stage>>
    BY DEF ClientStep, Connect, Arrive, Tick, kernel, objects, stamps, loop, pool
  <1>3. TasksOnce' /\ WorkersOnce' /\ BatchOnce' /\ RoundOver' /\ TimersLinked'
    BY <1>2 DEF IInv, TasksOnce, WorkersOnce, BatchOnce, RoundOver, TimersLinked
  <1>4. Batched' = Batched
    BY <1>2 DEF Batched, InBatch
  <1>5. Apart' /\ HasTimer'
    BY <1>2, <1>4, PoolUnmoved DEF IInv, Apart, HasTimer
  <1>6. InTime'
    <2>1. CASE Tick
      BY <2>1, TickIInv
    <2>2. CASE ClientStep
      <3>1. UNCHANGED remaining
        BY <2>2 DEF ClientStep, Connect, Arrive, stamps
      <3>2. QED
        BY <1>2, <3>1, PoolUnmoved DEF IInv, InTime
    <2>3. QED
      BY <2>1, <2>2
  <1>7. QED
    BY <1>1, <1>3, <1>5, <1>6 DEF IInv

LEMMA InitIInv == Init => IInv
  <1> SUFFICES ASSUME Init PROVE IInv
    OBVIOUS
  <1>1. /\ tasks = <<>> /\ task = [w \in Workers |-> NoRequest]
        /\ batch = {} /\ myTimerQueue = {}
    BY DEF Init, Pool!Init
  <1>2. \A r \in Requests : epoll[r] = "none" /\ timer[r] = NoTimer /\ heap[r] = "free"
    BY DEF Init
  <1>3. Batched = {} /\ Waiting = {}
    BY <1>1 DEF Batched, InBatch, Waiting, Queued
  <1>4. Running = {} /\ Rearmers = {} /\ Detached = {}
    BY <1>1, <1>3, Constants DEF Running, Handled, Rearmers, Handling, Detached
  <1>5. TasksOnce /\ WorkersOnce /\ BatchOnce /\ RoundOver /\ TimersLinked /\ InTime
    BY <1>1, <1>2, <1>4 DEF TasksOnce, WorkersOnce, BatchOnce, RoundOver, TimersLinked, InTime
  <1>6. Apart /\ HasTimer
    BY <1>2, <1>3, <1>4 DEF Apart, HasTimer
  <1>7. QED
    BY <1>5, <1>6, TypeInit DEF IInv

LEMMA StepIInv == ASSUME Prompt, IInv, [Next]_vars PROVE IInv'
  <1>1. CASE UNCHANGED vars
    <2>1. TypeOK'
      BY <1>1, TypeStep DEF IInv
    <2>2. UNCHANGED <<epoll, heap, timer, stamps, main, batch, tasks, task, stage>>
      BY <1>1 DEF vars, kernel, objects, loop, pool
    <2>3. TasksOnce' /\ WorkersOnce' /\ BatchOnce' /\ RoundOver' /\ TimersLinked'
      BY <2>2 DEF IInv, TasksOnce, WorkersOnce, BatchOnce, RoundOver, TimersLinked, stamps
    <2>4. Batched' = Batched
      BY <2>2 DEF Batched, InBatch
    <2>5. Apart' /\ HasTimer' /\ InTime'
      BY <2>2, <2>4, PoolUnmoved DEF IInv, Apart, HasTimer, InTime, stamps
    <2>6. QED
      BY <2>1, <2>3, <2>5 DEF IInv
  <1>2. QED
    BY <1>1, MainIInv, WorkerIInv, OutsideIInv DEF Next

------------------------------------------------------------------------------
(* What the inductive invariant says *)

LEMMA IInvMeans ==
  ASSUME IInv
  PROVE  NoDoubleFree /\ NoDanglingPointer /\ OneHolder /\ DetachedInPool /\ IdleHasTimer
  <1>1. NoDoubleFree
    BY DEF IInv, HasTimer, NoDoubleFree
  <1>2. NoDanglingPointer
    <2> SUFFICES ASSUME NEW r \in Requests,
                        \/ epoll[r] # "none"
                        \/ r \in Batched \cup Waiting \cup Running
                        \/ \E t \in myTimerQueue : request_data[t] = r
                 PROVE  heap[r] = "live"
      BY DEF NoDanglingPointer, Batched, Waiting, Running
    <2>1. CASE \E t \in myTimerQueue : request_data[t] = r
      <3>1. PICK t \in myTimerQueue : request_data[t] = r
        BY <2>1
      <3>2. timer[r] = t /\ t # NoTimer
        BY <3>1, Constants DEF IInv, TimersLinked, TypeOK
      <3>3. QED
        BY <3>2 DEF IInv, HasTimer
    <2>2. CASE r \in Batched \cup Waiting \cup Running
      BY <2>2 DEF IInv, Apart, HasTimer
    <2>3. CASE epoll[r] # "none"
      BY <2>3 DEF IInv, HasTimer
    <2>4. QED
      BY <2>1, <2>2, <2>3
  <1>3. OneHolder
    <2>1. \A r \in Requests :
            /\ epoll[r] = "disarmed" <=> InBatch(r) \/ Queued(r) \/ Handled(r)
            /\ ~(InBatch(r) /\ Queued(r)) /\ ~(InBatch(r) /\ Handled(r)) /\ ~(Queued(r) /\ Handled(r))
      BY DEF IInv, Apart, Batched, Waiting, Running
    <2>2. QED
      BY <2>1 DEF IInv, TasksOnce, WorkersOnce, OneHolder
  <1>4. DetachedInPool
    <2> SUFFICES ASSUME NEW r \in Detached, NEW t \in myTimerQueue, request_data[t] = r PROVE FALSE
      BY DEF DetachedInPool, Detached, Waiting
    <2>1. r \in Requests /\ timer[r] = NoTimer
      BY DEF IInv, HasTimer, Detached, Waiting
    <2>2. QED
      BY <2>1, Constants DEF IInv, TimersLinked, TypeOK
  <1>5. IdleHasTimer
    <2> SUFFICES ASSUME NEW r \in Requests, heap[r] = "live", ~Queued(r), ~Handled(r)
                 PROVE  \E t \in myTimerQueue : request_data[t] = r
      BY DEF IdleHasTimer
    <2>1. r \notin Detached
      BY DEF Detached, Waiting, Handled
    <2>2. timer[r] # NoTimer
      BY <2>1 DEF IInv, HasTimer
    <2>3. QED
      BY <2>2 DEF IInv, TimersLinked
  <1>6. QED
    BY <1>1, <1>2, <1>3, <1>4, <1>5

LEMMA Invariance == ASSUME Prompt PROVE Spec => []IInv
  <1>1. Prompt => (IInv /\ [Next]_vars => IInv')
    BY StepIInv
  <1>2. QED
    BY <1>1, InitIInv, PTL DEF Spec

(* If workers are prompt, ~requestData() runs once for every request: the  *)
(* order of requestData.cpp:199 keeps its promise.                         *)
THEOREM DeletedOnce == ASSUME Prompt PROVE Spec => []NoDoubleFree
  BY Invariance, IInvMeans, PTL

(* Then nothing that epoll, the pool, a worker or a timer points at has    *)
(* been freed.                                                             *)
THEOREM PointersValid == ASSUME Prompt PROVE Spec => []NoDanglingPointer
  BY Invariance, IInvMeans, PTL

(* Then a request is in one pair of hands at a time.                       *)
THEOREM HeldOnce == ASSUME Prompt PROVE Spec => []OneHolder
  BY Invariance, IInvMeans, PTL

(* Then requests and timers point at each other, or not at all.            *)
THEOREM LinksCorrect == ASSUME Prompt PROVE Spec => []TimersLinked
  <1>1. IInv => TimersLinked
    BY DEF IInv
  <1>2. QED
    BY <1>1, Invariance, PTL

(* Then no timer can expire while its request is in the pool.              *)
THEOREM PoolRequestsDetached == ASSUME Prompt PROVE Spec => []DetachedInPool
  BY Invariance, IInvMeans, PTL

(* Then every connection that nobody works on has a timer.                 *)
THEOREM IdleTimed == ASSUME Prompt PROVE Spec => []IdleHasTimer
  BY Invariance, IInvMeans, PTL
==============================================================================
