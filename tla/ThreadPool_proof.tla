---------------------------- MODULE ThreadPool_proof ----------------------------
(* Theorems about ThreadPool for any number of producers, workers, tasks   *)
(* and slots.                                                              *)
EXTENDS ThreadPool, SequenceLemmas, FiniteSetTheorems, TLAPS

------------------------------------------------------------------------------
(* The inductive invariant *)

(* `lock` belongs to the one thread inside a critical section. *)
MutexInv == \A x \in Threads : pc[x] \in {"wait", "put", "sleep", "grab"} <=> mutex = x

(* The destructor alone ends the pool's normal state. *)
StatusInv == status = SHUTDOWN <=> owner \in {"notify", "join", "destroyed"}

(* While create() runs nobody adds tasks, so no worker gets past its wait. *)
CreationInv ==
    owner \in {"creating", "counting"} =>
        /\ waiting_task_num = 0
        /\ \A p \in Producers : pc[p] = "idle"
        /\ \A w \in Workers : pc[w] \in {"none", "lock", "sleep", "waitTask"}

(* A worker that is about to take a task finds one. *)
GrabInv == \A w \in Workers : pc[w] = "grab" /\ status = RUNNING => waiting_task_num > 0

ControlInv == TypeOK /\ MutexInv /\ StatusInv /\ CreationInv /\ GrabInv

(* What is counted, split at the two halves of create()'s unlocked ++.     *)
RunningWorkers == {w \in Workers : pc[w] = "run"}
CountInv ==
    IF owner = "counting"
    THEN creator = active_thread_count /\ thread_count = active_thread_count + 1
    ELSE active_thread_count = thread_count + Cardinality(RunningWorkers)

------------------------------------------------------------------------------
(* Lemmas about the constants and the operators *)

LEMMA QueueSize == queue_size \in Nat \ {0}
  BY PoolAssumption DEF queue_size, AtMost, UseDefaults

LEMMA Wraps == ASSUME NEW n \in Nat PROVE (n + 1) % queue_size \in 0 .. queue_size - 1
  BY QueueSize

LEMMA Disjoint == Producers \cap Workers = {} /\ NoThread \notin Threads
  BY PoolAssumption

(* A signal moves one sleeper, if there is one, from one counter to the other. *)
LEMMA SignalMoves ==
  ASSUME NEW pcs, NEW from, NEW to, NEW new \in Signal(pcs, from, to)
  PROVE  \/ new = pcs /\ \A x \in Threads : pcs[x] # from
         \/ \E x \in Threads : pcs[x] = from /\ new = [pcs EXCEPT ![x] = to]
  BY DEF Signal

LEMMA RunningFinite == IsFiniteSet(RunningWorkers) /\ Cardinality(RunningWorkers) \in Nat
  BY PoolAssumption, FS_Subset, FS_CardinalityType DEF RunningWorkers

------------------------------------------------------------------------------
(* Type correctness *)

LEMMA InitControl == Init => ControlInv
  BY QueueSize, Disjoint DEF Init, ControlInv, TypeOK, MutexInv, StatusInv, CreationInv,
     GrabInv, RUNNING, SHUTDOWN, Threads, ProducerPCs, WorkerPCs, OwnerPCs

LEMMA ProducerControl ==
  ASSUME ControlInv, NEW p \in Producers, ProducerStep(p) PROVE ControlInv'
  <1> USE QueueSize, Disjoint DEF ControlInv, TypeOK, MutexInv, StatusInv, CreationInv,
      GrabInv, RUNNING, SHUTDOWN, Threads, ProducerPCs, WorkerPCs, OwnerPCs,
      Acquire, Release, ring, counts
  <1>1. CASE AddLock(p)
    BY <1>1 DEF AddLock
  <1>2. CASE AddWait(p)
    BY <1>2 DEF AddWait
  <1>3. CASE AddWoken(p)
    BY <1>3 DEF AddWoken
  <1>4. CASE AddPut(p)
    <2> DEFINE pcs == [pc EXCEPT ![p] = "idle"]
    <2>1. pc' \in Signal(pcs, "waitTask", "lock")
      BY <1>4 DEF AddPut, NotifyTask
    <2>2. \/ pc' = pcs
          \/ \E x \in Threads : pcs[x] = "waitTask" /\ pc' = [pcs EXCEPT ![x] = "lock"]
      <3> HIDE DEF pcs
      <3> QED
        BY ONLY <2>1, SignalMoves
    <2>3. queue_rear' \in 0 .. queue_size - 1
      BY <1>4, Wraps DEF AddPut
    <2>4. /\ queue' \in [0 .. queue_size - 1 -> Tasks \cup {NoTask}]
          /\ task' \in [Threads -> Tasks \cup {NoTask}]
          /\ waiting_task_num' \in Nat
      BY <1>4 DEF AddPut
    <2>5. /\ pc' \in [Threads -> ProducerPCs \cup WorkerPCs]
          /\ \A q \in Producers : pc'[q] \in ProducerPCs
          /\ \A w \in Workers : pc'[w] \in WorkerPCs
      BY <2>2
    <2>6. TypeOK'
      BY <1>4, <2>3, <2>4, <2>5 DEF AddPut
    <2>7. MutexInv'
      BY <1>4, <2>2 DEF AddPut
    <2>8. StatusInv' /\ CreationInv' /\ GrabInv'
      BY <1>4, <2>2 DEF AddPut
    <2>9. QED
      BY <2>6, <2>7, <2>8
  <1>5. CASE AddRefused(p)
    BY <1>5 DEF AddRefused
  <1>6. QED
    BY <1>1, <1>2, <1>3, <1>4, <1>5 DEF ProducerStep

LEMMA CallControl ==
  ASSUME ControlInv, NEW p \in Producers, NEW t \in Tasks, AddCall(p, t) PROVE ControlInv'
  BY QueueSize, Disjoint DEF AddCall, Usable, ControlInv, TypeOK, MutexInv, StatusInv, CreationInv,
     GrabInv, RUNNING, SHUTDOWN, Threads, ProducerPCs, WorkerPCs, OwnerPCs, ring, counts

LEMMA WorkerControl ==
  ASSUME ControlInv, CountInv, NEW w \in Workers, WorkerStep(w) PROVE ControlInv'
  <1> USE QueueSize, Disjoint DEF ControlInv, TypeOK, MutexInv, StatusInv, CreationInv,
      GrabInv, RUNNING, SHUTDOWN, Threads, ProducerPCs, WorkerPCs, OwnerPCs,
      Acquire, Release, ring, counts
  <1>1. CASE WorkerLock(w)
    BY <1>1 DEF WorkerLock
  <1>2. CASE WorkerSleep(w)
    BY <1>2 DEF WorkerSleep
  <1>3. CASE WorkerExit(w)
    BY <1>3 DEF WorkerExit
  <1>4. CASE WorkerTake(w)
    <2> DEFINE pcs == [pc EXCEPT ![w] = "enter"]
    <2>1. pc' \in Signal(pcs, "waitSpare", "woken")
      BY <1>4 DEF WorkerTake, NotifySpare
    <2>2. \/ pc' = pcs
          \/ \E x \in Threads : pcs[x] = "waitSpare" /\ pc' = [pcs EXCEPT ![x] = "woken"]
      <3> HIDE DEF pcs
      <3> QED
        BY ONLY <2>1, SignalMoves
    <2>3. queue_front' \in 0 .. queue_size - 1
      BY <1>4, Wraps DEF WorkerTake
    <2>4. /\ task' \in [Threads -> Tasks \cup {NoTask}]
          /\ waiting_task_num' \in Nat
      BY <1>4 DEF WorkerTake
    <2>5. /\ pc' \in [Threads -> ProducerPCs \cup WorkerPCs]
          /\ \A p \in Producers : pc'[p] \in ProducerPCs
          /\ \A v \in Workers : pc'[v] \in WorkerPCs
      BY <2>2
    <2>6. TypeOK'
      BY <1>4, <2>3, <2>4, <2>5 DEF WorkerTake
    <2>7. MutexInv'
      BY <1>4, <2>2 DEF WorkerTake
    <2>8. StatusInv' /\ CreationInv' /\ GrabInv'
      BY <1>4, <2>2 DEF WorkerTake
    <2>9. QED
      BY <2>6, <2>7, <2>8
  <1>5. CASE WorkerEnter(w)
    BY <1>5 DEF WorkerEnter
  <1>6. CASE WorkerLeave(w)
    <2>1. owner # "counting" /\ w \in RunningWorkers
      BY <1>6 DEF WorkerLeave, RunningWorkers
    <2>2. active_thread_count > 0
      BY <2>1, RunningFinite, FS_EmptySet DEF CountInv
    <2>3. QED
      BY <1>6, <2>2 DEF WorkerLeave
  <1>7. QED
    BY <1>1, <1>2, <1>3, <1>4, <1>5, <1>6 DEF WorkerStep

LEMMA OwnerControl == ASSUME ControlInv, OwnerStep \/ DestroyBegin PROVE ControlInv'
  <1> USE QueueSize, Disjoint DEF ControlInv, TypeOK, MutexInv, StatusInv, CreationInv,
      GrabInv, RUNNING, SHUTDOWN, Threads, ProducerPCs, WorkerPCs, OwnerPCs, ring, counts
  <1>1. CASE CreateThread
    BY <1>1 DEF CreateThread, Created
  <1>2. CASE CountThread
    BY <1>2 DEF CountThread
  <1>3. CASE CreateFails
    BY <1>3 DEF CreateFails
  <1>4. CASE DestroyNotify
    BY <1>4 DEF DestroyNotify
  <1>5. CASE DestroyJoin
    BY <1>5 DEF DestroyJoin
  <1>6. CASE DestroyBegin
    BY <1>6 DEF DestroyBegin
  <1>7. QED
    BY <1>1, <1>2, <1>3, <1>4, <1>5, <1>6 DEF OwnerStep

LEMMA SpuriousControl == ASSUME ControlInv, NEW x \in Threads, SpuriousWake(x) PROVE ControlInv'
  BY QueueSize, Disjoint DEF SpuriousWake, ControlInv, TypeOK, MutexInv, StatusInv, CreationInv,
     GrabInv, RUNNING, SHUTDOWN, Threads, ProducerPCs, WorkerPCs, OwnerPCs, ring, counts

------------------------------------------------------------------------------
(* The count of active threads *)

LEMMA InitCount == Init => CountInv
  <1> SUFFICES ASSUME Init PROVE CountInv
    OBVIOUS
  <1>1. RunningWorkers = {}
    BY Disjoint DEF Init, RunningWorkers, Threads
  <1>2. QED
    BY <1>1, FS_EmptySet DEF Init, CountInv

(* Steps that leave the counters alone do not start or end a task. *)
LEMMA CountUnmoved ==
  ASSUME CountInv, UNCHANGED counts, RunningWorkers' = RunningWorkers,
         owner' = "counting" <=> owner = "counting"
  PROVE  CountInv'
  BY DEF CountInv, counts

LEMMA StepCount == ASSUME ControlInv, CountInv, [Next]_vars PROVE CountInv'
  <1> USE Disjoint DEF ControlInv, TypeOK, Threads, counts
  <1>1. ASSUME NEW p \in Producers, ProducerStep(p) PROVE CountInv'
    <2>1. UNCHANGED <<counts, owner>>
      BY <1>1 DEF ProducerStep, AddLock, AddWait, AddWoken, AddPut, AddRefused
    <2>2. RunningWorkers' = RunningWorkers
      <3>1. CASE AddPut(p)
        <4> DEFINE pcs == [pc EXCEPT ![p] = "idle"]
        <4>1. pc' \in Signal(pcs, "waitTask", "lock")
          BY <3>1 DEF AddPut, NotifyTask
        <4>2. \/ pc' = pcs
              \/ \E x \in Threads : pcs[x] = "waitTask" /\ pc' = [pcs EXCEPT ![x] = "lock"]
          <5> HIDE DEF pcs
          <5> QED
            BY ONLY <4>1, SignalMoves
        <4>3. QED
          BY <4>2 DEF RunningWorkers
      <3>2. CASE AddLock(p) \/ AddWait(p) \/ AddWoken(p) \/ AddRefused(p)
        BY <3>2 DEF AddLock, AddWait, AddWoken, AddRefused, RunningWorkers
      <3>3. QED
        BY <1>1, <3>1, <3>2 DEF ProducerStep
    <2>3. QED
      BY <2>1, <2>2, CountUnmoved
  <1>2. ASSUME NEW w \in Workers, WorkerStep(w) PROVE CountInv'
    <2>1. CASE WorkerLock(w) \/ WorkerSleep(w) \/ WorkerExit(w)
      <3>1. UNCHANGED <<counts, owner>> /\ RunningWorkers' = RunningWorkers
        BY <2>1 DEF WorkerLock, WorkerSleep, WorkerExit, RunningWorkers
      <3>2. QED
        BY <3>1, CountUnmoved
    <2>2. CASE WorkerTake(w)
      <3> DEFINE pcs == [pc EXCEPT ![w] = "enter"]
      <3>1. pc' \in Signal(pcs, "waitSpare", "woken")
        BY <2>2 DEF WorkerTake, NotifySpare
      <3>2. \/ pc' = pcs
            \/ \E x \in Threads : pcs[x] = "waitSpare" /\ pc' = [pcs EXCEPT ![x] = "woken"]
        <4> HIDE DEF pcs
        <4> QED
          BY ONLY <3>1, SignalMoves
      <3>3. RunningWorkers' = RunningWorkers
        BY <2>2, <3>2 DEF WorkerTake, RunningWorkers
      <3>4. UNCHANGED <<counts, owner>>
        BY <2>2 DEF WorkerTake
      <3>5. QED
        BY <3>3, <3>4, CountUnmoved
    <2>3. CASE WorkerEnter(w)
      <3>1. owner # "counting" /\ w \notin RunningWorkers
        BY <2>3 DEF WorkerEnter, CreationInv, RunningWorkers
      <3>2. RunningWorkers' = RunningWorkers \cup {w}
        BY <2>3 DEF WorkerEnter, RunningWorkers
      <3>3. Cardinality(RunningWorkers') = Cardinality(RunningWorkers) + 1
        BY <3>1, <3>2, RunningFinite, FS_AddElement
      <3>4. QED
        BY <2>3, <3>1, <3>3, RunningFinite DEF WorkerEnter, CountInv
    <2>4. CASE WorkerLeave(w)
      <3>1. owner # "counting" /\ w \in RunningWorkers
        BY <2>4 DEF WorkerLeave, CreationInv, RunningWorkers
      <3>2. RunningWorkers' = RunningWorkers \ {w}
        BY <2>4 DEF WorkerLeave, RunningWorkers
      <3>3. Cardinality(RunningWorkers') = Cardinality(RunningWorkers) - 1
        BY <3>1, <3>2, RunningFinite, FS_RemoveElement
      <3>4. QED
        BY <2>4, <3>1, <3>3, RunningFinite DEF WorkerLeave, CountInv
    <2>5. QED
      BY <1>2, <2>1, <2>2, <2>3, <2>4 DEF WorkerStep
  <1>3. CASE CreateThread
    <2>1. RunningWorkers = {} /\ RunningWorkers' = {}
      BY <1>3 DEF CreateThread, Created, CreationInv, RunningWorkers
    <2>2. QED
      BY <1>3, <2>1, FS_EmptySet DEF CreateThread, CountInv
  <1>4. CASE CountThread
    <2>1. RunningWorkers' = {}
      BY <1>4 DEF CountThread, CreationInv, RunningWorkers
    <2>2. QED
      BY <1>4, <2>1, FS_EmptySet DEF CountThread, CountInv
  <1>5. CASE CreateFails \/ DestroyJoin \/ DestroyBegin \/ UNCHANGED vars
    <2>1. \/ UNCHANGED counts /\ RunningWorkers' = RunningWorkers /\ owner' # "counting"
          \/ UNCHANGED vars
      BY <1>5 DEF CreateFails, DestroyJoin, DestroyBegin, RunningWorkers
    <2>2. UNCHANGED vars => UNCHANGED counts /\ RunningWorkers' = RunningWorkers /\ owner' = owner
      BY DEF vars, RunningWorkers
    <2>3. UNCHANGED vars \/ owner # "counting"
      BY <1>5 DEF CreateFails, DestroyJoin, DestroyBegin
    <2>4. QED
      BY <2>1, <2>2, <2>3, CountUnmoved
  <1>6. CASE DestroyNotify
    <2>1. UNCHANGED counts /\ owner # "counting" /\ owner' # "counting"
      BY <1>6 DEF DestroyNotify
    <2>2. RunningWorkers' = RunningWorkers
      BY <1>6 DEF DestroyNotify, RunningWorkers
    <2>3. QED
      BY <2>1, <2>2, CountUnmoved
  <1>7. ASSUME NEW x \in Threads, SpuriousWake(x) PROVE CountInv'
    <2>1. UNCHANGED <<counts, owner>> /\ RunningWorkers' = RunningWorkers
      BY <1>7 DEF SpuriousWake, RunningWorkers
    <2>2. QED
      BY <2>1, CountUnmoved
  <1>8. ASSUME NEW p \in Producers, NEW t \in Tasks, AddCall(p, t) PROVE CountInv'
    <2>1. UNCHANGED <<counts, owner>> /\ RunningWorkers' = RunningWorkers
      BY <1>8 DEF AddCall, RunningWorkers
    <2>2. QED
      BY <2>1, CountUnmoved
  <1>9. QED
    BY <1>1, <1>2, <1>3, <1>4, <1>5, <1>6, <1>7, <1>8 DEF Next, OwnerStep

------------------------------------------------------------------------------
(* The theorems *)

IInv == ControlInv /\ CountInv

LEMMA NextIInv == IInv /\ [Next]_vars => IInv'
  <1> SUFFICES ASSUME ControlInv, CountInv, [Next]_vars PROVE ControlInv' /\ CountInv'
    BY DEF IInv
  <1>1. CASE UNCHANGED vars
    BY <1>1 DEF vars, ring, counts, ControlInv, TypeOK, MutexInv, StatusInv, CreationInv, GrabInv, CountInv, RunningWorkers
  <1>2. CASE Next
    BY <1>2, StepCount, CallControl, ProducerControl, WorkerControl, OwnerControl, SpuriousControl DEF Next
  <1>3. QED
    BY <1>1, <1>2

LEMMA Inductive == Spec => []IInv
  <1>1. Init => IInv
    BY InitControl, InitCount DEF IInv
  <1>2. QED
    BY <1>1, NextIInv, PTL DEF Spec

(* Type correctness: among others, waiting_task_num and                    *)
(* active_thread_count, which are unsigned in the code, never go below 0.  *)
THEOREM TypeCorrect == Spec => []TypeOK
  <1>1. IInv => TypeOK
    BY DEF IInv, ControlInv
  <1>2. QED
    BY <1>1, Inductive, PTL

(* No increment of active_thread_count is lost to create()'s unlocked one. *)
THEOREM ActiveCountCorrect == Spec => []ActiveCountExact
  <1>1. IInv => ActiveCountExact
    BY DEF IInv, CountInv, ActiveCountExact, RunningWorkers
  <1>2. QED
    BY <1>1, Inductive, PTL

------------------------------------------------------------------------------
(* Wake-ups *)

Asleep == {w \in Workers : pc[w] = "waitTask"}
Awake  == {w \in Workers : pc[w] \notin {"none", "waitTask"}}

(* A worker that is about to sleep has found the ring empty, and while it  *)
(* keeps the mutex nobody fills it.                                        *)
AwakeInv ==
    status = RUNNING =>
        /\ \A w \in Workers : pc[w] = "sleep" => waiting_task_num = 0
        /\ Asleep # {} => waiting_task_num <= Cardinality(Awake)

LEMMA AwakeFinite ==
  /\ IsFiniteSet(Awake) /\ Cardinality(Awake) \in Nat
  /\ IsFiniteSet(Awake') /\ Cardinality(Awake') \in Nat
  <1>1. Awake \subseteq Workers /\ Awake' \subseteq Workers
    BY DEF Awake
  <1>2. IsFiniteSet(Awake) /\ IsFiniteSet(Awake')
    BY <1>1, PoolAssumption, FS_Subset
  <1>3. QED
    BY <1>2, FS_CardinalityType

(* Steps that put no worker to sleep and add no task. *)
LEMMA AwakeKept ==
  ASSUME AwakeInv, status' = RUNNING => status = RUNNING,
         waiting_task_num \in Nat, waiting_task_num' \in Nat, waiting_task_num' <= waiting_task_num,
         Awake \subseteq Awake', Asleep' \subseteq Asleep,
         \A w \in Workers : status' = RUNNING /\ pc'[w] = "sleep" => waiting_task_num' = 0
  PROVE  AwakeInv'
  <1>1. Cardinality(Awake) <= Cardinality(Awake')
    BY AwakeFinite, FS_Subset
  <1>2. status' = RUNNING /\ Asleep' # {} => waiting_task_num <= Cardinality(Awake)
    BY DEF AwakeInv
  <1>3. status' = RUNNING /\ Asleep' # {} => waiting_task_num' <= Cardinality(Awake')
    BY <1>1, <1>2, AwakeFinite
  <1>4. QED
    BY <1>3 DEF AwakeInv

LEMMA PutWakes ==
  ASSUME ControlInv, AwakeInv, NEW p \in Producers, AddPut(p) PROVE AwakeInv'
  <1> USE Disjoint DEF ControlInv, TypeOK, Threads
  <1> DEFINE pcs == [pc EXCEPT ![p] = "idle"]
  <1>1. pc' \in Signal(pcs, "waitTask", "lock")
    BY DEF AddPut, NotifyTask
  <1>2. \/ pc' = pcs /\ \A x \in Threads : pcs[x] # "waitTask"
        \/ \E x \in Threads : pcs[x] = "waitTask" /\ pc' = [pcs EXCEPT ![x] = "lock"]
    <2> HIDE DEF pcs
    <2> QED
      BY ONLY <1>1, SignalMoves
  <1>3. /\ status = RUNNING /\ status' = status
        /\ waiting_task_num' = waiting_task_num + 1
        /\ \A w \in Workers : pc[w] # "sleep"
    BY DEF AddPut, MutexInv, RUNNING, SHUTDOWN, Release
  <1>4. \A w \in Workers : pc'[w] # "sleep"
    BY <1>2, <1>3
  <1>5. CASE pc' = pcs /\ \A x \in Threads : pcs[x] # "waitTask"
    <2>1. Asleep' = {}
      BY <1>5 DEF Asleep
    <2>2. QED
      BY <2>1, <1>4 DEF AwakeInv
  <1>6. ASSUME NEW x \in Threads, pcs[x] = "waitTask", pc' = [pcs EXCEPT ![x] = "lock"]
        PROVE  AwakeInv'
    <2>1. x \in Workers /\ x \in Asleep /\ x \notin Awake
      BY <1>6 DEF ProducerPCs, Asleep, Awake
    <2>2. Awake' = Awake \cup {x}
      BY <1>6, <2>1 DEF Awake, ProducerPCs
    <2>3. Cardinality(Awake') = Cardinality(Awake) + 1
      BY <2>1, <2>2, AwakeFinite, FS_AddElement
    <2>4. waiting_task_num <= Cardinality(Awake)
      BY <2>1, <1>3 DEF AwakeInv
    <2>5. waiting_task_num' <= Cardinality(Awake')
      BY <2>3, <2>4, <1>3, AwakeFinite
    <2>6. QED
      BY <2>5, <1>4 DEF AwakeInv
  <1>7. QED
    BY <1>2, <1>5, <1>6

LEMMA StepAwake ==
  ASSUME ControlInv, ControlInv', AwakeInv, [Next]_vars PROVE AwakeInv'
  <1> USE Disjoint DEF ControlInv, TypeOK, Threads
  <1>1. waiting_task_num \in Nat /\ waiting_task_num' \in Nat
    OBVIOUS
  <1>2. ASSUME NEW p \in Producers, ProducerStep(p) PROVE AwakeInv'
    <2>1. CASE AddLock(p) \/ AddWait(p) \/ AddWoken(p) \/ AddRefused(p)
      <3>1. /\ UNCHANGED <<status, waiting_task_num>>
            /\ \A w \in Workers : pc'[w] = pc[w]
        BY <2>1 DEF AddLock, AddWait, AddWoken, AddRefused, ring
      <3>2. Awake' = Awake /\ Asleep' = Asleep
        BY <3>1 DEF Awake, Asleep
      <3>3. QED
        BY <3>1, <3>2 DEF AwakeInv
    <2>2. QED
      BY <1>2, <2>1, PutWakes DEF ProducerStep
  <1>3. ASSUME NEW w \in Workers, WorkerStep(w) PROVE AwakeInv'
    <2>1. CASE WorkerLock(w)
      <3>1. UNCHANGED <<status, waiting_task_num>> /\ Asleep' = Asleep /\ Awake' = Awake
        BY <2>1 DEF WorkerLock, ring, Asleep, Awake
      <3>2. \A v \in Workers : status' = RUNNING /\ pc'[v] = "sleep" => waiting_task_num' = 0
        BY <2>1, <3>1 DEF WorkerLock, AwakeInv
      <3>3. QED
        BY <3>1, <3>2 DEF AwakeInv
    <2>2. CASE WorkerSleep(w)
      <3>1. status' = RUNNING => waiting_task_num' = 0
        BY <2>2 DEF WorkerSleep, ring, AwakeInv
      <3>2. QED
        BY <3>1, AwakeFinite DEF AwakeInv
    <2>3. CASE WorkerExit(w)
      BY <2>3 DEF WorkerExit, AwakeInv, RUNNING, SHUTDOWN
    <2>4. CASE WorkerTake(w)
      <3> DEFINE pcs == [pc EXCEPT ![w] = "enter"]
      <3>1. pc' \in Signal(pcs, "waitSpare", "woken")
        BY <2>4 DEF WorkerTake, NotifySpare
      <3>2. \/ pc' = pcs
            \/ \E x \in Threads : pcs[x] = "waitSpare" /\ pc' = [pcs EXCEPT ![x] = "woken"]
        <4> HIDE DEF pcs
        <4> QED
          BY ONLY <3>1, SignalMoves
      <3>3. \A v \in Workers : pc'[v] = pcs[v]
        BY <3>2 DEF WorkerPCs
      <3>4. Awake' = Awake /\ Asleep' = Asleep
        BY <2>4, <3>3 DEF WorkerTake, Awake, Asleep
      <3>5. waiting_task_num' <= waiting_task_num /\ UNCHANGED status
        BY <2>4 DEF WorkerTake
      <3>6. \A v \in Workers : pc'[v] # "sleep"
        BY <2>4, <3>3 DEF WorkerTake, MutexInv, Release
      <3>7. QED
        BY <3>4, <3>5, <3>6, <1>1, AwakeKept
    <2>5. CASE WorkerEnter(w) \/ WorkerLeave(w)
      <3>1. /\ UNCHANGED <<status, waiting_task_num>> /\ Asleep' = Asleep /\ Awake' = Awake
            /\ \A v \in Workers : pc'[v] = "sleep" => pc[v] = "sleep"
        BY <2>5 DEF WorkerEnter, WorkerLeave, ring, Asleep, Awake
      <3>2. QED
        BY <3>1 DEF AwakeInv
    <2>6. QED
      BY <1>3, <2>1, <2>2, <2>3, <2>4, <2>5 DEF WorkerStep
  <1>4. CASE CreateThread
    <2>1. /\ UNCHANGED <<status, waiting_task_num>> /\ Asleep' = Asleep /\ Awake \subseteq Awake'
          /\ \A v \in Workers : pc'[v] = "sleep" => pc[v] = "sleep"
      BY <1>4 DEF CreateThread, Created, ring, Asleep, Awake
    <2>2. \A v \in Workers : status' = RUNNING /\ pc'[v] = "sleep" => waiting_task_num' = 0
      BY <2>1 DEF AwakeInv
    <2>3. QED
      BY <2>1, <2>2, <1>1, AwakeKept
  <1>5. CASE CountThread \/ CreateFails \/ DestroyJoin \/ UNCHANGED vars
    <2>1. UNCHANGED <<status, waiting_task_num, pc>>
      BY <1>5 DEF CountThread, CreateFails, DestroyJoin, vars, ring
    <2>2. QED
      BY <2>1 DEF AwakeInv, Asleep, Awake
  <1>6. CASE DestroyNotify \/ DestroyBegin
    <2>1. status' # RUNNING
      BY <1>6 DEF DestroyNotify, DestroyBegin, StatusInv, RUNNING, SHUTDOWN
    <2>2. QED
      BY <2>1 DEF AwakeInv
  <1>7. ASSUME NEW x \in Threads, SpuriousWake(x) PROVE AwakeInv'
    <2>1. /\ UNCHANGED <<status, waiting_task_num>>
          /\ Asleep' \subseteq Asleep /\ Awake \subseteq Awake'
          /\ \A v \in Workers : pc'[v] = "sleep" => pc[v] = "sleep"
      BY <1>7 DEF SpuriousWake, ring, Asleep, Awake, ProducerPCs, WorkerPCs
    <2>2. \A v \in Workers : status' = RUNNING /\ pc'[v] = "sleep" => waiting_task_num' = 0
      BY <2>1 DEF AwakeInv
    <2>3. QED
      BY <2>1, <2>2, <1>1, AwakeKept
  <1>8. ASSUME NEW p \in Producers, NEW t \in Tasks, AddCall(p, t) PROVE AwakeInv'
    <2>1. UNCHANGED <<status, waiting_task_num>> /\ \A w \in Workers : pc'[w] = pc[w]
      BY <1>8 DEF AddCall, ring
    <2>2. QED
      BY <2>1 DEF AwakeInv, Asleep, Awake
  <1>9. QED
    BY <1>2, <1>3, <1>4, <1>5, <1>6, <1>7, <1>8 DEF Next, OwnerStep

(* One notify() per add() is enough, for any number of producers, workers  *)
(* and slots and whatever wakes spuriously: no task waits behind a busy    *)
(* worker while another one sleeps (threadpool.cpp:262).                   *)
THEOREM WakeUpsSuffice == Spec => []EnoughAwake
  <1>1. Init => AwakeInv
    <2>1. Init => Asleep = {} /\ \A w \in Workers : pc[w] # "sleep"
      BY Disjoint DEF Init, Asleep, Threads
    <2>2. QED
      BY <2>1 DEF AwakeInv
  <1>2. IInv /\ AwakeInv /\ [Next]_vars => AwakeInv'
    BY NextIInv, StepAwake DEF IInv
  <1>3. AwakeInv => EnoughAwake
    <2>1. Created \ Asleep = Awake
      BY DEF Created, Asleep, Awake
    <2>2. QED
      BY <2>1 DEF AwakeInv, EnoughAwake, Asleep
  <1>4. QED
    BY <1>1, <1>2, <1>3, Inductive, PTL DEF Spec

------------------------------------------------------------------------------
(* Room in the ring *)

(* What main() guarantees, and the system usually: one thread calls add(), *)
(* and its wait() does not return spuriously.                              *)
SingleProducer == (\A p, q \in Producers : p = q) /\ Producers \cap Spurious = {}

(* The caller of add() has been through the test for a full ring, or has   *)
(* been woken by a worker that made room; nobody else can have used it.    *)
RoomInv ==
    /\ waiting_task_num <= queue_size
    /\ \A p \in Producers :
          pc[p] = "woken" \/ (pc[p] = "put" /\ status = RUNNING) => waiting_task_num < queue_size

LEMMA StepRoom ==
  ASSUME SingleProducer, ControlInv, RoomInv, [Next]_vars PROVE RoomInv'
  <1> USE QueueSize, Disjoint DEF ControlInv, TypeOK, Threads, RoomInv, RUNNING, SHUTDOWN, ring
  <1>1. ASSUME NEW p \in Producers, ProducerStep(p) PROVE RoomInv'
    <2>1. CASE AddLock(p)
      BY <2>1 DEF AddLock
    <2>2. CASE AddWait(p)
      BY <2>2 DEF AddWait
    <2>3. CASE AddWoken(p)
      BY <2>3 DEF AddWoken
    <2>4. CASE AddPut(p)
      <3> DEFINE pcs == [pc EXCEPT ![p] = "idle"]
      <3>1. pc' \in Signal(pcs, "waitTask", "lock")
        BY <2>4 DEF AddPut, NotifyTask
      <3>2. \/ pc' = pcs
            \/ \E x \in Threads : pcs[x] = "waitTask" /\ pc' = [pcs EXCEPT ![x] = "lock"]
        <4> HIDE DEF pcs
        <4> QED
          BY ONLY <3>1, SignalMoves
      <3>3. pc'[p] = "idle"
        BY <3>2
      <3>4. \A q \in Producers : pc'[q] = "idle"
        BY <3>3 DEF SingleProducer
      <3>5. waiting_task_num' = waiting_task_num + 1 /\ waiting_task_num < queue_size
        BY <2>4 DEF AddPut
      <3>6. QED
        BY <3>4, <3>5
    <2>5. CASE AddRefused(p)
      BY <2>5 DEF AddRefused
    <2>6. QED
      BY <1>1, <2>1, <2>2, <2>3, <2>4, <2>5 DEF ProducerStep
  <1>2. ASSUME NEW w \in Workers, WorkerStep(w) PROVE RoomInv'
    <2>1. CASE WorkerLock(w) \/ WorkerSleep(w) \/ WorkerExit(w) \/ WorkerEnter(w) \/ WorkerLeave(w)
      BY <2>1 DEF WorkerLock, WorkerSleep, WorkerExit, WorkerEnter, WorkerLeave
    <2>2. CASE WorkerTake(w)
      <3>1. waiting_task_num' \in Int /\ waiting_task_num' < queue_size
        BY <2>2 DEF WorkerTake
      <3>2. QED
        BY <3>1
    <2>3. QED
      BY <1>2, <2>1, <2>2 DEF WorkerStep
  <1>3. CASE OwnerStep \/ DestroyBegin
    BY <1>3 DEF OwnerStep, CreateThread, CountThread, CreateFails, DestroyNotify, DestroyJoin, DestroyBegin
  <1>4. ASSUME NEW x \in Threads, SpuriousWake(x) PROVE RoomInv'
    <2>1. x \notin Producers
      BY <1>4 DEF SpuriousWake, SingleProducer
    <2>2. QED
      BY <1>4, <2>1 DEF SpuriousWake
  <1>5. ASSUME NEW p \in Producers, NEW t \in Tasks, AddCall(p, t) PROVE RoomInv'
    BY <1>5 DEF AddCall
  <1>6. CASE UNCHANGED vars
    BY <1>6 DEF vars
  <1>7. QED
    BY <1>1, <1>2, <1>3, <1>4, <1>5, <1>6 DEF Next

(* With a single producer no accepted task is overwritten: a slot is free  *)
(* whenever add() is about to store a task (threadpool.cpp:257).           *)
THEOREM RoomForTask == ASSUME SingleProducer PROVE Spec => []SlotFree
  <1>1. Init => RoomInv
    BY QueueSize, Disjoint DEF Init, RoomInv, Threads
  <1>2. ControlInv /\ RoomInv /\ [Next]_vars => RoomInv'
    BY StepRoom
  <1>3. IInv => ControlInv
    BY DEF IInv
  <1>4. RoomInv => SlotFree
    BY DEF RoomInv, SlotFree
  <1>5. QED
    BY <1>1, <1>2, <1>3, <1>4, Inductive, PTL DEF Spec

------------------------------------------------------------------------------
(* The caller of add() that sleeps *)

FullInv == \A p \in Producers : pc[p] \in {"wait", "waitSpare"} => waiting_task_num = queue_size

LEMMA StepFull ==
  ASSUME SingleProducer, ControlInv, FullInv, [Next]_vars PROVE FullInv'
  <1> USE Disjoint DEF ControlInv, TypeOK, Threads, ring
  <1>1. ASSUME NEW p \in Producers, ProducerStep(p) PROVE FullInv'
    <2>1. CASE AddLock(p) \/ AddWait(p) \/ AddWoken(p) \/ AddRefused(p)
      BY <2>1 DEF AddLock, AddWait, AddWoken, AddRefused, FullInv
    <2>2. CASE AddPut(p)
      <3> DEFINE pcs == [pc EXCEPT ![p] = "idle"]
      <3>1. pc' \in Signal(pcs, "waitTask", "lock")
        BY <2>2 DEF AddPut, NotifyTask
      <3>2. \/ pc' = pcs
            \/ \E x \in Threads : pcs[x] = "waitTask" /\ pc' = [pcs EXCEPT ![x] = "lock"]
        <4> HIDE DEF pcs
        <4> QED
          BY ONLY <3>1, SignalMoves
      <3>3. \A q \in Producers : pc'[q] = "idle"
        BY <3>2 DEF SingleProducer
      <3>4. QED
        BY <3>3 DEF FullInv
    <2>3. QED
      BY <1>1, <2>1, <2>2 DEF ProducerStep
  <1>2. ASSUME NEW w \in Workers, WorkerStep(w) PROVE FullInv'
    <2>1. CASE WorkerLock(w) \/ WorkerSleep(w) \/ WorkerExit(w) \/ WorkerEnter(w) \/ WorkerLeave(w)
      BY <2>1 DEF WorkerLock, WorkerSleep, WorkerExit, WorkerEnter, WorkerLeave, FullInv
    <2>2. CASE WorkerTake(w)
      <3> DEFINE pcs == [pc EXCEPT ![w] = "enter"]
      <3>1. pc' \in Signal(pcs, "waitSpare", "woken")
        BY <2>2 DEF WorkerTake, NotifySpare
      <3>2. \/ pc' = pcs /\ \A x \in Threads : pcs[x] # "waitSpare"
            \/ \E x \in Threads : pcs[x] = "waitSpare" /\ pc' = [pcs EXCEPT ![x] = "woken"]
        <4> HIDE DEF pcs
        <4> QED
          BY ONLY <3>1, SignalMoves
      <3>3. \A p \in Producers : pc[p] # "wait"
        BY <2>2 DEF WorkerTake, MutexInv, Release
      <3>4. \A p \in Producers : pc'[p] \notin {"wait", "waitSpare"}
        BY <3>2, <3>3 DEF SingleProducer, WorkerPCs
      <3>5. QED
        BY <3>4 DEF FullInv
    <2>3. QED
      BY <1>2, <2>1, <2>2 DEF WorkerStep
  <1>3. CASE OwnerStep \/ DestroyBegin
    BY <1>3 DEF OwnerStep, CreateThread, CountThread, CreateFails, DestroyNotify, DestroyJoin,
       DestroyBegin, Created, FullInv
  <1>4. ASSUME NEW x \in Threads, SpuriousWake(x) PROVE FullInv'
    BY <1>4 DEF SpuriousWake, FullInv
  <1>5. ASSUME NEW p \in Producers, NEW t \in Tasks, AddCall(p, t) PROVE FullInv'
    BY <1>5 DEF AddCall, FullInv
  <1>6. CASE UNCHANGED vars
    BY <1>6 DEF vars, FullInv
  <1>7. QED
    BY <1>1, <1>2, <1>3, <1>4, <1>5, <1>6 DEF Next

(* A single caller of add() never sleeps on a ring with room: the notify() *)
(* of the worker that made room (threadpool.cpp:284) is not missed.        *)
THEOREM NoMissedSpare == ASSUME SingleProducer PROVE Spec => []SleepsOnlyIfFull
  <1>1. Init => FullInv
    BY Disjoint DEF Init, FullInv, Threads
  <1>2. ControlInv /\ FullInv /\ [Next]_vars => FullInv'
    BY StepFull
  <1>3. IInv => ControlInv
    BY DEF IInv
  <1>4. FullInv => SleepsOnlyIfFull
    BY DEF FullInv, SleepsOnlyIfFull
  <1>5. QED
    BY <1>1, <1>2, <1>3, <1>4, Inductive, PTL DEF Spec

------------------------------------------------------------------------------
(* The ring as a queue *)

(* The slots from queue_front on hold the tasks that wait, and queue_rear  *)
(* is the slot after them; who is inside add() or runs a task has one.     *)
RingInv ==
    /\ queue_rear = Slot(queue_size, queue_front, waiting_task_num)
    /\ \A i \in 0 .. waiting_task_num - 1 : queue[Slot(queue_size, queue_front, i)] \in Tasks
    /\ \A p \in Producers : pc[p] # "idle" => task[p] \in Tasks
    /\ \A w \in Workers : IF pc[w] \in {"enter", "run"} THEN task[w] \in Tasks ELSE task[w] = NoTask

QueueInv == ControlInv /\ RoomInv /\ RingInv

LEMMA ContentsIs ==
  ASSUME QueueInv
  PROVE  /\ Contents = Read(queue_size, queue, queue_front, waiting_task_num)
         /\ Contents \in Seq(Tasks) /\ Len(Contents) = waiting_task_num
  <1>1. waiting_task_num \in 0 .. queue_size /\ queue_front \in 0 .. queue_size - 1
    BY QueueSize DEF QueueInv, ControlInv, TypeOK, RoomInv
  <1>2. \A i \in 0 .. waiting_task_num - 1 : queue[Slot(queue_size, queue_front, i)] \in Tasks
    BY DEF QueueInv, RingInv
  <1>3. Contents = Read(queue_size, queue, queue_front, waiting_task_num)
    BY DEF Contents, Read
  <1>4. QED
    BY ONLY <1>1, <1>2, <1>3, QueueSize, ReadSeq

(* add() appends the task: the slot at queue_rear is none of those that    *)
(* are in use.                                                             *)
LEMMA PutSubmits ==
  ASSUME QueueInv, SingleProducer, NEW p \in Producers, AddPut(p)
  PROVE  RingInv' /\ Abs!Submit(task[p])
  <1> USE QueueSize, Disjoint DEF QueueInv, ControlInv, TypeOK, Threads
  <1> DEFINE pcs == [pc EXCEPT ![p] = "idle"]
  <1>1. pc' \in Signal(pcs, "waitTask", "lock")
    BY DEF AddPut, NotifyTask
  <1>2. \/ pc' = pcs
        \/ \E x \in Threads : pcs[x] = "waitTask" /\ pc' = [pcs EXCEPT ![x] = "lock"]
    <2> HIDE DEF pcs
    <2> QED
      BY ONLY <1>1, SignalMoves
  <1>3. /\ \A q \in Producers : pc'[q] = "idle"
        /\ \A w \in Workers : pc'[w] \in {"enter", "run"} <=> pc[w] \in {"enter", "run"}
        /\ \A w \in Workers : task'[w] = task[w]
    BY <1>2 DEF SingleProducer, AddPut
  <1>4. /\ waiting_task_num \in 0 .. queue_size - 1 /\ waiting_task_num' = waiting_task_num + 1
        /\ queue_front' = queue_front /\ task[p] \in Tasks
        /\ queue' = [queue EXCEPT ![queue_rear] = task[p]]
    BY DEF AddPut, RoomInv, RingInv, RUNNING, SHUTDOWN
  <1> DEFINE n == queue_size
  <1> DEFINE f == queue_front
  <1> DEFINE k == waiting_task_num
  <1>5. /\ n \in Nat \ {0} /\ f \in 0 .. n - 1 /\ k \in 0 .. n - 1 /\ k' = k + 1
        /\ queue \in [0 .. n - 1 -> Tasks \cup {NoTask}]
        /\ queue' = [queue EXCEPT ![Slot(n, f, k)] = task[p]]
        /\ \A i \in 0 .. k - 1 : queue[Slot(n, f, i)] \in Tasks
        /\ queue_rear' = (Slot(n, f, k) + 1) % n
    BY <1>4 DEF AddPut, RingInv
  <1> HIDE DEF n, f, k
  <1>6. /\ \A i \in 0 .. k - 1 : queue'[Slot(n, f, i)] = queue[Slot(n, f, i)]
        /\ queue'[Slot(n, f, k)] = task[p]
    <2>1. n \in Nat \ {0} /\ f \in 0 .. n - 1 /\ k \in 0 .. n - 1
      BY <1>5
    <2>2. \A i \in 0 .. k : Slot(n, f, i) \in 0 .. n - 1
      BY ONLY <2>1, SlotsMove
    <2>3. \A i \in 0 .. k - 1 : Slot(n, f, i) # Slot(n, f, k)
      BY ONLY <2>1, SlotsDiffer
    <2>4. QED
      BY ONLY <1>5, <2>2, <2>3
  <1>7. RingInv'
    <2>1. \A i \in 0 .. k' - 1 : queue'[Slot(n, f, i)] \in Tasks
      BY <1>4, <1>5, <1>6
    <2>2. queue_rear' = Slot(n, f, k')
      BY <1>5, SlotsMove
    <2>3. QED
      BY <1>3, <1>4, <2>1, <2>2 DEF RingInv, n, f, k
  <1>8. Contents' = Append(Contents, task[p])
    <2>1. n \in Nat \ {0} /\ f \in 0 .. n - 1 /\ k \in 0 .. n - 1 /\ k' = k + 1
      BY <1>5
    <2> DEFINE t == task[p]
    <2>2. Read(n, queue', f, k') = Longer(Read(n, queue, f, k), t)
      <3>1. /\ \A i \in 0 .. k - 1 : queue'[Slot(n, f, i)] = queue[Slot(n, f, i)]
            /\ queue'[Slot(n, f, k)] = t
        BY <1>6
      <3> HIDE DEF t
      <3>2. QED
        BY ONLY <2>1, <3>1, PutAppends
    <2>3. QED
      BY <1>4, <2>2, ContentsIs DEF Contents, Read, Longer, n, f, k
  <1>9. Len(Contents) < queue_size
    BY <1>5, ContentsIs DEF n, k
  <1>10. [w \in Workers |-> task[w]]' = [w \in Workers |-> task[w]]
    BY <1>3
  <1>11. QED
    BY <1>7, <1>8, <1>9, <1>10 DEF Abs!Submit

(* A worker takes the oldest task. *)
LEMMA TakeTakes ==
  ASSUME QueueInv, NEW w \in Workers, WorkerTake(w)
  PROVE  RingInv' /\ Abs!Take(w)
  <1> USE QueueSize, Disjoint DEF QueueInv, ControlInv, TypeOK, Threads
  <1> DEFINE pcs == [pc EXCEPT ![w] = "enter"]
  <1>1. pc' \in Signal(pcs, "waitSpare", "woken")
    BY DEF WorkerTake, NotifySpare
  <1>2. \/ pc' = pcs
        \/ \E x \in Threads : pcs[x] = "waitSpare" /\ pc' = [pcs EXCEPT ![x] = "woken"]
    <2> HIDE DEF pcs
    <2> QED
      BY ONLY <1>1, SignalMoves
  <1>3. /\ \A p \in Producers : pc'[p] # "idle" => pc[p] # "idle"
        /\ \A v \in Workers : pc'[v] = pcs[v]
        /\ \A x \in Threads \ {w} : task'[x] = task[x]
        /\ task'[w] = queue[queue_front]
    BY <1>2 DEF WorkerTake, WorkerPCs
  <1>4. /\ waiting_task_num \in 1 .. queue_size /\ waiting_task_num' = waiting_task_num - 1
        /\ queue_front' = Slot(queue_size, queue_front, 1) /\ queue' = queue
        /\ queue_rear' = queue_rear
    <2>1. waiting_task_num \in 1 .. queue_size
      BY DEF WorkerTake, GrabInv, RoomInv, RUNNING, SHUTDOWN
    <2>2. queue_front' = Slot(queue_size, queue_front, 1)
      <3>1. queue_front' = (queue_front + 1) % queue_size /\ queue_front \in 0 .. queue_size - 1
        BY DEF WorkerTake
      <3>2. QED
        BY ONLY <3>1, QueueSize, FrontSlots
    <2>3. QED
      BY <2>1, <2>2 DEF WorkerTake
  <1>5. task[w] = NoTask /\ queue[queue_front] \in Tasks
    <2>1. task[w] = NoTask
      BY DEF RingInv, WorkerTake
    <2>2. 0 \in 0 .. waiting_task_num - 1 /\ Slot(queue_size, queue_front, 0) = queue_front
      BY <1>4, FrontSlots
    <2>3. queue[Slot(queue_size, queue_front, 0)] \in Tasks
      BY <2>2 DEF RingInv
    <2>4. QED
      BY <2>1, <2>2, <2>3
  <1> DEFINE n == queue_size
  <1> DEFINE f == queue_front
  <1> DEFINE k == waiting_task_num
  <1>6. /\ n \in Nat \ {0} /\ f \in 0 .. n - 1 /\ k \in 1 .. n
        /\ k' = k - 1 /\ f' = Slot(n, f, 1)
        /\ queue_rear = Slot(n, f, k)
        /\ \A i \in 0 .. k - 1 : queue[Slot(n, f, i)] \in Tasks
    BY <1>4 DEF RingInv
  <1>7. RingInv'
    <2>1. /\ queue_rear = Slot(n, Slot(n, f, 1), k - 1)
          /\ \A i \in 0 .. (k - 1) - 1 : queue[Slot(n, Slot(n, f, 1), i)] \in Tasks
      <3> HIDE DEF n, f, k
      <3>1. \A i \in 0 .. n - 1 : Slot(n, Slot(n, f, 1), i) = Slot(n, f, i + 1)
        BY <1>6, SlotsMove
      <3>2. k - 1 \in 0 .. n - 1 /\ (k - 1) + 1 = k
        BY <1>6
      <3>3. \A i \in 0 .. (k - 1) - 1 : i \in 0 .. n - 1 /\ i + 1 \in 0 .. k - 1
        BY <1>6
      <3>4. queue_rear = Slot(n, Slot(n, f, 1), k - 1)
        BY <1>6, <3>1, <3>2
      <3>5. \A i \in 0 .. (k - 1) - 1 : queue[Slot(n, Slot(n, f, 1), i)] \in Tasks
        BY <1>6, <3>1, <3>3
      <3>6. QED
        BY <3>4, <3>5
    <2>2. \A p \in Producers : pc'[p] # "idle" => task'[p] \in Tasks
      BY <1>3 DEF RingInv
    <2>3. \A v \in Workers :
             IF pc'[v] \in {"enter", "run"} THEN task'[v] \in Tasks ELSE task'[v] = NoTask
      BY <1>3, <1>5 DEF RingInv
    <2> HIDE DEF n, f, k
    <2>4. /\ queue_rear' = Slot(n, f', k')
          /\ \A i \in 0 .. k' - 1 : queue'[Slot(n, f', i)] \in Tasks
      BY <1>4, <1>6, <2>1
    <2>5. QED
      BY <2>2, <2>3, <2>4 DEF RingInv, n, f, k
  <1>8. Contents # <<>> /\ Head(Contents) = queue[queue_front] /\ Contents' = Tail(Contents)
    <2> HIDE DEF n, f, k
    <2>1. /\ Read(n, queue, f, k) # <<>> /\ Head(Read(n, queue, f, k)) = queue[f]
          /\ Read(n, queue, Slot(n, f, 1), k - 1) = Tail(Read(n, queue, f, k))
      BY ONLY <1>6, TakeDrops
    <2>2. Contents' = Read(n, queue, f', k')
      BY <1>4 DEF Contents, Read, n, f, k
    <2>3. Contents = Read(n, queue, f, k)
      BY ContentsIs DEF n, f, k
    <2>4. QED
      BY <1>6, <2>1, <2>2, <2>3 DEF f
  <1>9. [v \in Workers |-> task[v]]' = [[v \in Workers |-> task[v]] EXCEPT ![w] = queue[queue_front]]
    BY <1>3
  <1>10. QED
    BY <1>5, <1>7, <1>8, <1>9 DEF Abs!Take

(* Steps that leave the ring alone keep RingInv if every task is where it  *)
(* belongs ...                                                             *)
LEMMA RingKept ==
  ASSUME RingInv, UNCHANGED ring,
         \A p \in Producers : pc'[p] # "idle" => task'[p] \in Tasks,
         \A w \in Workers :
            IF pc'[w] \in {"enter", "run"} THEN task'[w] \in Tasks ELSE task'[w] = NoTask
  PROVE  RingInv'
  BY DEF RingInv, ring, Slot

(* ... and mean nothing to the queue if no worker's task changes.          *)
LEMMA QueueKept ==
  ASSUME UNCHANGED ring, \A w \in Workers : task'[w] = task[w] PROVE UNCHANGED Abs!vars
  BY DEF ring, Abs!vars, Contents

LEMMA StepQueue ==
  ASSUME SingleProducer, QueueInv, [Next]_vars PROVE RingInv' /\ [Abs!Next]_Abs!vars
  <1> USE Disjoint DEF QueueInv, ControlInv, TypeOK, Threads
  <1>1. /\ \A p \in Producers : pc[p] # "idle" => task[p] \in Tasks
        /\ \A w \in Workers :
              IF pc[w] \in {"enter", "run"} THEN task[w] \in Tasks ELSE task[w] = NoTask
    BY DEF RingInv
  <1>2. ASSUME NEW p \in Producers, ProducerStep(p) PROVE RingInv' /\ [Abs!Next]_Abs!vars
    <2>1. CASE AddPut(p)
      <3>1. task[p] \in Tasks
        BY <2>1, <1>1 DEF AddPut
      <3>2. QED
        BY <2>1, <3>1, PutSubmits DEF Abs!Next
    <2>2. CASE AddLock(p) \/ AddWait(p) \/ AddWoken(p) \/ AddRefused(p)
      <3>1. /\ UNCHANGED ring
            /\ \A w \in Workers : pc'[w] = pc[w] /\ task'[w] = task[w]
            /\ \A q \in Producers : pc'[q] # "idle" => pc[q] # "idle" /\ task'[q] = task[q]
        BY <2>2 DEF AddLock, AddWait, AddWoken, AddRefused
      <3>2. QED
        BY <1>1, <3>1, RingKept, QueueKept
    <2>3. QED
      BY <1>2, <2>1, <2>2 DEF ProducerStep
  <1>3. ASSUME NEW w \in Workers, WorkerStep(w) PROVE RingInv' /\ [Abs!Next]_Abs!vars
    <2>1. CASE WorkerTake(w)
      BY <2>1, TakeTakes DEF Abs!Next
    <2>2. CASE WorkerLeave(w)
      <3>1. /\ UNCHANGED ring /\ task[w] \in Tasks /\ task[w] # NoTask
            /\ task' = [task EXCEPT ![w] = NoTask] /\ pc' = [pc EXCEPT ![w] = "lock"]
        BY <2>2, <1>1, PoolAssumption DEF WorkerLeave
      <3>2. RingInv'
        BY <1>1, <3>1, RingKept
      <3>3. Contents' = Contents
        BY <3>1 DEF ring, Contents
      <3>4. [v \in Workers |-> task[v]]' = [[v \in Workers |-> task[v]] EXCEPT ![w] = NoTask]
        BY <3>1
      <3>5. Abs!Finish(w)
        BY <3>1, <3>3, <3>4 DEF Abs!Finish
      <3>6. QED
        BY <3>2, <3>5 DEF Abs!Next
    <2>3. CASE WorkerLock(w) \/ WorkerSleep(w) \/ WorkerExit(w) \/ WorkerEnter(w)
      <3>1. /\ UNCHANGED ring /\ UNCHANGED task
            /\ \A p \in Producers : pc'[p] = pc[p]
            /\ \A v \in Workers : pc'[v] \in {"enter", "run"} <=> pc[v] \in {"enter", "run"}
        BY <2>3 DEF WorkerLock, WorkerSleep, WorkerExit, WorkerEnter
      <3>2. QED
        BY <1>1, <3>1, RingKept, QueueKept
    <2>4. QED
      BY <1>3, <2>1, <2>2, <2>3 DEF WorkerStep
  <1>4. CASE OwnerStep \/ DestroyBegin \/ UNCHANGED vars
    <2>1. /\ UNCHANGED ring /\ UNCHANGED task
          /\ \A p \in Producers : pc'[p] = pc[p]
          /\ \A v \in Workers : pc'[v] \in {"enter", "run"} <=> pc[v] \in {"enter", "run"}
      BY <1>4 DEF OwnerStep, CreateThread, CountThread, CreateFails, DestroyNotify, DestroyJoin,
         DestroyBegin, Created, ProducerPCs, vars
    <2>2. QED
      BY <1>1, <2>1, RingKept, QueueKept
  <1>5. ASSUME NEW x \in Threads, SpuriousWake(x) PROVE RingInv' /\ [Abs!Next]_Abs!vars
    <2>1. /\ UNCHANGED ring /\ UNCHANGED task
          /\ \A p \in Producers : pc'[p] # "idle" => pc[p] # "idle"
          /\ \A v \in Workers : pc'[v] \in {"enter", "run"} <=> pc[v] \in {"enter", "run"}
      BY <1>5 DEF SpuriousWake
    <2>2. QED
      BY <1>1, <2>1, RingKept, QueueKept
  <1>6. ASSUME NEW p \in Producers, NEW t \in Tasks, AddCall(p, t)
        PROVE  RingInv' /\ [Abs!Next]_Abs!vars
    <2>1. /\ UNCHANGED ring
          /\ \A w \in Workers : pc'[w] = pc[w] /\ task'[w] = task[w]
          /\ \A q \in Producers : pc'[q] # "idle" => task'[q] \in Tasks
      BY <1>1, <1>6 DEF AddCall
    <2>2. QED
      BY <1>1, <2>1, RingKept, QueueKept
  <1>7. QED
    BY <1>2, <1>3, <1>4, <1>5, <1>6 DEF Next

LEMMA InitQueue == Init => RoomInv /\ RingInv /\ Abs!Init
  <1> SUFFICES ASSUME Init PROVE RoomInv /\ RingInv /\ Abs!Init
    OBVIOUS
  <1>1. RoomInv
    BY QueueSize, Disjoint DEF Init, RoomInv, Threads
  <1>2. RingInv
    <2>1. 0 \in 0 .. queue_size - 1
      BY QueueSize
    <2>2. Slot(queue_size, 0, 0) = 0
      BY <2>1, QueueSize, FrontSlots
    <2>3. QED
      BY <2>2, Disjoint DEF Init, RingInv, Threads
  <1>3. Contents = <<>>
    BY DEF Init, Contents
  <1>4. [w \in Workers |-> task[w]] = [w \in Workers |-> NoTask]
    BY DEF Init, Threads
  <1>5. QED
    BY <1>1, <1>2, <1>3, <1>4 DEF Abs!Init

(* With a single producer the pool implements the bounded FIFO queue of    *)
(* TaskQueue: every accepted task goes to one worker, in the order of      *)
(* acceptance, and none is lost or run twice, for any ring and any number  *)
(* of workers (add() and do_thread(), threadpool.cpp:244-297).             *)
THEOREM ImplementsQueue == ASSUME SingleProducer PROVE Spec => FifoQueue
  <1>1. Init => QueueInv /\ Abs!Init
    BY InitControl, InitQueue DEF QueueInv
  <1>2. IInv /\ QueueInv /\ [Next]_vars => QueueInv' /\ [Abs!Next]_Abs!vars
    BY NextIInv, StepRoom, StepQueue DEF QueueInv, IInv
  <1>3. Spec => []QueueInv
    BY <1>1, <1>2, Inductive, PTL DEF Spec
  <1>4. QED
    BY <1>1, <1>2, <1>3, Inductive, PTL DEF Spec, FifoQueue, Abs!Spec
==============================================================================
