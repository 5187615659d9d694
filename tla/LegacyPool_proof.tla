--------------------------- MODULE LegacyPool_proof ---------------------------
(* Theorems about LegacyPool for any number of threads and any ring.       *)
EXTENDS LegacyPool, SequenceLemmas, FiniteSetTheorems, TLAPS

LEMMA Constants ==
    /\ queue_size \in Nat \ {0}
    /\ IsFiniteSet(Workers) /\ Workers # {} /\ Workers \cap Clients = {}
    /\ Creator \in Clients /\ Destroyers \subseteq Clients
    /\ Modes \subseteq {1, 2} /\ NoTask \notin Tasks /\ NoThread \notin Clients
  BY LegacyAssumption DEF immediate_shutdown, graceful_shutdown

(* Threads that have been created and have not ended. *)
Alive == {w \in Workers : pc[w] \notin {"none", "exited"}}

(* Until create() is over only its own thread does anything, and nobody    *)
(* shuts the pool down.                                                    *)
Creation ==
    /\ pc[Creator] = "create" => shutdown = running /\ ~freed /\ \A c \in Clients \ {Creator} : pc[c] = "idle"
    /\ \A c \in Clients \ {Creator} : pc[c] # "create"
    /\ shutdown = graceful_shutdown => Created = Workers
    /\ pc[Creator] = "create" => Created # Workers

(* Workers end only when they must, and leave nothing behind. *)
Ends ==
    /\ \A w \in Workers : pc[w] = "exited" => MustExit
    /\ \A w \in Workers : task[w] # NoTask => pc[w] = "run"

(* Whoever frees the pool has joined every thread. *)
Joined ==
    /\ \A c \in Clients : pc[c] = "free" => \A w \in Created : pc[w] = "exited"
    /\ \A c \in Clients : pc[c] \in {"join", "free"} => shutdown # running
    /\ freed => shutdown # running /\ \A w \in Created : pc[w] = "exited"

Count == active_thread_num = Cardinality(Alive)

IInv == TypeOK /\ Creation /\ Ends /\ Joined /\ Count

------------------------------------------------------------------------------
LEMMA AliveFinite == IsFiniteSet(Alive) /\ Cardinality(Alive) \in Nat
  BY Constants, FS_Subset, FS_CardinalityType DEF Alive

(* A wake-up moves waiting workers to "lock", and nothing else. *)
LEMMA SignalMoves ==
  ASSUME NEW pcs, NEW next, next \in Signal(pcs) \/ next = Broadcast(pcs),
         pcs \in [Clients \cup Workers -> ClientPCs \cup WorkerPCs],
         \A c \in Clients : pcs[c] \in ClientPCs, \A w \in Workers : pcs[w] \in WorkerPCs
  PROVE  /\ next \in [Clients \cup Workers -> ClientPCs \cup WorkerPCs]
         /\ \A c \in Clients : next[c] = pcs[c]
         /\ \A w \in Workers : next[w] = pcs[w] \/ (pcs[w] = "wait" /\ next[w] = "lock")
  <1>1. CASE next \in Signal(pcs)
    <2>1. CASE next = pcs
      BY <2>1
    <2>2. CASE \E w \in Workers : pcs[w] = "wait" /\ next = [pcs EXCEPT ![w] = "lock"]
      BY <2>2, Constants DEF ClientPCs, WorkerPCs
    <2>3. next = pcs \/ \E w \in Workers : pcs[w] = "wait" /\ next = [pcs EXCEPT ![w] = "lock"]
      <3>1. CASE {w \in Workers : pcs[w] = "wait"} = {}
        BY <1>1, <3>1 DEF Signal
      <3>2. CASE {w \in Workers : pcs[w] = "wait"} # {}
        BY <1>1, <3>2 DEF Signal
      <3>3. QED
        BY <3>1, <3>2
    <2>4. QED
      BY <2>1, <2>2, <2>3
  <1>2. CASE next = Broadcast(pcs)
    BY <1>2, Constants DEF Broadcast, ClientPCs, WorkerPCs
  <1>3. QED
    BY <1>1, <1>2

(* What depends on the program counters only through these three sets does *)
(* not notice a wake-up.                                                   *)
LEMMA AliveUnmoved ==
  ASSUME \A w \in Workers : pc'[w] = pc[w] \/ (pc[w] = "wait" /\ pc'[w] = "lock")
  PROVE  /\ Alive' = Alive /\ Created' = Created
         /\ \A w \in Workers : pc'[w] = "exited" <=> pc[w] = "exited"
         /\ \A w \in Workers : pc[w] = "run" => pc'[w] = "run"
  BY DEF Alive, Created

------------------------------------------------------------------------------
LEMMA InitIInv == Init => IInv
  <1> SUFFICES ASSUME Init PROVE IInv
    OBVIOUS
  <1> USE Constants DEF Init, running, immediate_shutdown, graceful_shutdown
  <1>1. /\ \A w \in Workers : pc[w] = "none" /\ task[w] = NoTask
        /\ \A c \in Clients : pc[c] \in {"idle", "create"}
        /\ pc[Creator] = "create" /\ \A c \in Clients \ {Creator} : pc[c] = "idle"
    OBVIOUS
  <1>2. TypeOK
    <2>1. pc \in [Clients \cup Workers -> ClientPCs \cup WorkerPCs]
      BY DEF ClientPCs, WorkerPCs
    <2>2. (\A c \in Clients : pc[c] \in ClientPCs) /\ \A w \in Workers : pc[w] \in WorkerPCs
      BY <1>1 DEF ClientPCs, WorkerPCs
    <2>3. queue \in [0 .. queue_size - 1 -> Tasks \cup {NoTask}] /\ task \in [Workers -> Tasks \cup {NoTask}]
      OBVIOUS
    <2>4. /\ head \in 0 .. queue_size - 1 /\ tail \in 0 .. queue_size - 1
          /\ pending_task_count \in 0 .. queue_size /\ active_thread_num \in Nat
      OBVIOUS
    <2>5. lock \in Clients \cup {NoThread} /\ shutdown \in {0, 1, 2} /\ freed \in BOOLEAN
      OBVIOUS
    <2>6. QED
      BY ONLY <2>1, <2>2, <2>3, <2>4, <2>5 DEF TypeOK, running, immediate_shutdown, graceful_shutdown
  <1>3. Alive = {}
    BY <1>1 DEF Alive
  <1>4. Count
    BY <1>3, FS_EmptySet DEF Count
  <1>5. Creation /\ Ends /\ Joined
    <2>1. Created = {} /\ Created # Workers
      BY <1>1 DEF Created
    <2>2. QED
      BY <1>1, <2>1 DEF Creation, Ends, Joined
  <1>6. QED
    BY <1>2, <1>4, <1>5 DEF IInv

LEMMA CreatorIInv == ASSUME IInv, CreatorStep PROVE IInv'
  <1> USE Constants DEF running, immediate_shutdown, graceful_shutdown
  <1>1. CASE CreateThread
    <2>1. PICK w \in Workers \ Created :
            pc' = [pc EXCEPT ![w] = "lock",
                             ![Creator] = IF Created \cup {w} = Workers THEN "idle" ELSE "create"]
      BY <1>1 DEF CreateThread
    <2>2. /\ pc[Creator] = "create" /\ active_thread_num' = active_thread_num + 1
          /\ UNCHANGED <<lock, ring, shutdown, task, freed>> /\ pc[w] = "none" /\ w # Creator
      BY <1>1 DEF CreateThread, Created
    <2>3. /\ pc'[w] = "lock" /\ \A v \in Workers \ {w} : pc'[v] = pc[v]
          /\ \A c \in Clients \ {Creator} : pc'[c] = pc[c]
          /\ Created \cup {w} = Workers => pc'[Creator] = "idle"
          /\ Created \cup {w} # Workers => pc'[Creator] = "create"
      BY <2>1, <2>2 DEF IInv, TypeOK
    <2>4. pc' \in [Clients \cup Workers -> ClientPCs \cup WorkerPCs]
      BY <2>1 DEF IInv, TypeOK, ClientPCs, WorkerPCs
    <2>5. TypeOK'
      <3>1. /\ \A c \in Clients : pc'[c] \in ClientPCs
            /\ \A v \in Workers : pc'[v] \in WorkerPCs
        BY <2>3 DEF IInv, TypeOK, ClientPCs, WorkerPCs
      <3>2. active_thread_num' \in Nat
        BY <2>2 DEF IInv, TypeOK
      <3>3. QED
        BY <2>2, <2>4, <3>1, <3>2 DEF IInv, TypeOK, ring
    <2>6. Alive' = Alive \cup {w} /\ w \notin Alive
      BY <2>2, <2>3 DEF Alive
    <2>7. Count'
      BY <2>2, <2>6, AliveFinite, FS_AddElement DEF IInv, Count
    <2>8. Created' = Created \cup {w}
      BY <2>2, <2>3 DEF Created
    <2>9. shutdown = 0 /\ ~freed /\ \A c \in Clients \ {Creator} : pc[c] = "idle"
      BY <2>2 DEF IInv, Creation
    <2>10. Creation'
      BY <2>2, <2>3, <2>8, <2>9 DEF Creation
    <2>11. Ends'
      BY <2>2, <2>3, <2>9 DEF IInv, Ends, MustExit, ring
    <2>12. Joined'
      BY <2>2, <2>3, <2>9 DEF Joined
    <2>13. QED
      BY <2>5, <2>7, <2>10, <2>11, <2>12 DEF IInv
  <1>2. CASE CreateFails
    <2>1. /\ pc[Creator] = "create" /\ pc' = [pc EXCEPT ![Creator] = "destroy"]
          /\ UNCHANGED <<lock, ring, shutdown, active_thread_num, task, freed>>
      BY <1>2 DEF CreateFails
    <2>2. pc'[Creator] = "destroy" /\ \A x \in (Clients \cup Workers) \ {Creator} : pc'[x] = pc[x]
      BY <2>1 DEF IInv, TypeOK
    <2>3. Alive' = Alive /\ Created' = Created /\ \A w \in Workers : pc'[w] = pc[w]
      BY <2>2 DEF Alive, Created
    <2>4. TypeOK'
      BY <2>1, <2>2 DEF IInv, TypeOK, ClientPCs, ring
    <2>5. Creation' /\ Joined'
      BY <2>1, <2>2, <2>3 DEF IInv, Creation, Joined
    <2>6. Ends' /\ Count'
      BY <2>1, <2>3 DEF IInv, Ends, Count, MustExit, ring
    <2>7. QED
      BY <2>4, <2>5, <2>6 DEF IInv
  <1>3. QED
    BY <1>1, <1>2 DEF CreatorStep

LEMMA ClientIInv ==
  ASSUME IInv, NEW c \in Clients, (\E t \in Tasks : Add(c, t)) \/ DestroyCall(c) \/ DestroyStep(c)
  PROVE  IInv'
  <1> USE Constants DEF running, immediate_shutdown, graceful_shutdown
  <1>1. ASSUME NEW t \in Tasks, Add(c, t) PROVE IInv'
    <2>1. /\ pc' \in Signal(pc) /\ shutdown = 0 /\ pending_task_count # queue_size
          /\ tail' = (tail + 1) % queue_size /\ queue' = [queue EXCEPT ![tail] = t]
          /\ pending_task_count' = pending_task_count + 1
          /\ UNCHANGED <<lock, head, shutdown, active_thread_num, task, freed>>
      BY <1>1 DEF Add
    <2>2. /\ pc' \in [Clients \cup Workers -> ClientPCs \cup WorkerPCs]
          /\ \A x \in Clients : pc'[x] = pc[x]
          /\ \A w \in Workers : pc'[w] = pc[w] \/ (pc[w] = "wait" /\ pc'[w] = "lock")
      BY <2>1, SignalMoves DEF IInv, TypeOK
    <2>3. TypeOK'
      <3>1. /\ \A x \in Clients : pc'[x] \in ClientPCs
            /\ \A v \in Workers : pc'[v] \in WorkerPCs
        BY <2>2 DEF IInv, TypeOK, WorkerPCs
      <3>2. tail' \in 0 .. queue_size - 1 /\ pending_task_count' \in 0 .. queue_size
        BY <2>1 DEF IInv, TypeOK
      <3>3. QED
        BY <2>1, <2>2, <3>1, <3>2 DEF IInv, TypeOK
    <2>4. Creation' /\ Joined'
      BY <2>1, <2>2, AliveUnmoved DEF IInv, Creation, Joined
    <2>5. Ends'
      BY <2>1, <2>2, AliveUnmoved DEF IInv, Ends, MustExit
    <2>6. Count'
      BY <2>1, <2>2, AliveUnmoved DEF IInv, Count
    <2>7. QED
      BY <2>3, <2>4, <2>5, <2>6 DEF IInv
  <1>2. CASE DestroyCall(c)
    <2>1. /\ pc[c] = "idle" /\ pc' = [pc EXCEPT ![c] = "destroy"] /\ Created = Workers
          /\ UNCHANGED <<lock, ring, shutdown, active_thread_num, task, freed>>
      BY <1>2 DEF DestroyCall, Usable
    <2>2. pc'[c] = "destroy" /\ \A x \in (Clients \cup Workers) \ {c} : pc'[x] = pc[x]
      BY <2>1 DEF IInv, TypeOK
    <2>3. Alive' = Alive /\ Created' = Created /\ \A w \in Workers : pc'[w] = pc[w]
      BY <2>2 DEF Alive, Created
    <2>4. TypeOK'
      BY <2>1, <2>2 DEF IInv, TypeOK, ClientPCs, ring
    <2>5. Creation'
      <3>1. pc[Creator] # "create"
        BY <2>1 DEF IInv, Creation
      <3>2. QED
        BY <2>1, <2>2, <2>3, <3>1 DEF IInv, Creation
    <2>6. Joined' /\ Ends' /\ Count'
      BY <2>1, <2>2, <2>3 DEF IInv, Ends, Count, Joined, MustExit, ring
    <2>7. QED
      BY <2>4, <2>5, <2>6 DEF IInv
  <1>3. CASE DestroyFirst(c)
    <2> DEFINE moved == [pc EXCEPT ![c] = "join"]
    <2>1. /\ pc[c] = "destroy" /\ shutdown = 0 /\ ~freed /\ shutdown' \in AskedModes /\ pc' = Broadcast(moved)
          /\ UNCHANGED <<lock, ring, active_thread_num, task, freed>>
      BY <1>3 DEF DestroyFirst, Locking
    <2>2. /\ moved \in [Clients \cup Workers -> ClientPCs \cup WorkerPCs]
          /\ moved[c] = "join" /\ \A x \in (Clients \cup Workers) \ {c} : moved[x] = pc[x]
          /\ \A x \in Clients : moved[x] \in ClientPCs
          /\ \A w \in Workers : moved[w] \in WorkerPCs /\ moved[w] = pc[w]
      BY DEF IInv, TypeOK, ClientPCs
    <2> HIDE DEF moved
    <2>3. /\ pc' \in [Clients \cup Workers -> ClientPCs \cup WorkerPCs]
          /\ \A x \in Clients : pc'[x] = moved[x]
          /\ \A w \in Workers : pc'[w] = moved[w] \/ (moved[w] = "wait" /\ pc'[w] = "lock")
      BY ONLY <2>1, <2>2, SignalMoves
    <2>4. pc'[c] = "join" /\ \A x \in Clients \ {c} : pc'[x] = pc[x]
      BY <2>2, <2>3
    <2>5. \A w \in Workers : pc'[w] = pc[w] \/ (pc[w] = "wait" /\ pc'[w] = "lock")
      BY <2>2, <2>3
    <2>6. shutdown' \in {1, 2} /\ (shutdown' = 2 => Created = Workers)
      BY <2>1 DEF AskedModes
    <2>7. TypeOK'
      <3>1. /\ \A x \in Clients : pc'[x] \in ClientPCs
            /\ \A v \in Workers : pc'[v] \in WorkerPCs
        BY <2>4, <2>5 DEF IInv, TypeOK, WorkerPCs, ClientPCs
      <3>2. QED
        BY <2>1, <2>3, <2>6, <3>1 DEF IInv, TypeOK, ring
    <2>8. pc[Creator] # "create"
      BY <2>1 DEF IInv, Creation
    <2>9. Creation'
      BY <2>1, <2>4, <2>5, <2>6, <2>8, AliveUnmoved DEF IInv, Creation
    <2>10. \A w \in Workers : pc[w] # "exited"
      BY <2>1 DEF IInv, Ends, MustExit
    <2>11. \A x \in Clients : pc[x] # "free"
      BY <2>1 DEF IInv, Joined
    <2>12. Joined'
      BY <2>1, <2>4, <2>6, <2>11 DEF Joined
    <2>13. Ends'
      BY <2>1, <2>5, <2>10 DEF IInv, Ends
    <2>14. Count'
      BY <2>1, <2>5, AliveUnmoved DEF IInv, Count
    <2>15. QED
      BY <2>7, <2>9, <2>12, <2>13, <2>14 DEF IInv
  <1>4. CASE DestroyAgain(c) \/ Join(c) \/ Free(c)
    <2>1. PICK place \in {"idle", "free"} : pc' = [pc EXCEPT ![c] = place]
      BY <1>4 DEF DestroyAgain, Join, Free
    <2>2. pc'[c] = place /\ \A x \in (Clients \cup Workers) \ {c} : pc'[x] = pc[x]
      BY <2>1 DEF IInv, TypeOK
    <2>3. Alive' = Alive /\ Created' = Created /\ \A w \in Workers : pc'[w] = pc[w]
      BY <2>2 DEF Alive, Created
    <2>4. /\ UNCHANGED <<ring, shutdown, active_thread_num, task>> /\ lock' \in {lock, c}
          /\ pc[c] \in {"destroy", "join", "free"}
          /\ freed' \in BOOLEAN
      BY <1>4 DEF DestroyAgain, Join, Free, Locking, IInv, TypeOK
    <2>5. TypeOK'
      BY <2>1, <2>2, <2>4 DEF IInv, TypeOK, ClientPCs, ring
    <2>6. shutdown # 0
      BY <1>4 DEF DestroyAgain, Join, Free, Locking, IInv, Joined
    <2>7. Creation'
      BY <2>2, <2>3, <2>4, <2>6 DEF IInv, Creation
    <2>8. Ends' /\ Count'
      BY <2>3, <2>4 DEF IInv, Ends, Count, MustExit, ring
    <2>9. Joined'
      <3>1. place = "free" => \A w \in Created : pc[w] = "exited"
        BY <1>4, <2>2 DEF DestroyAgain, Join, Free, IInv, TypeOK
      <3>2. freed' => freed \/ \A w \in Created : pc[w] = "exited"
        BY <1>4 DEF DestroyAgain, Join, Free, Locking, IInv, Joined
      <3>3. QED
        BY <2>2, <2>3, <2>4, <2>6, <3>1, <3>2 DEF IInv, Joined, Created
    <2>10. QED
      BY <2>5, <2>7, <2>8, <2>9 DEF IInv
  <1>5. QED
    BY <1>1, <1>2, <1>3, <1>4 DEF DestroyStep

LEMMA WorkerIInv == ASSUME IInv, NEW w \in Workers, WorkerStep(w) \/ SpuriousWake(w) PROVE IInv'
  <1> USE Constants DEF running, immediate_shutdown, graceful_shutdown
  <1>1. PICK place \in {"lock", "wait", "run", "exited"} : pc' = [pc EXCEPT ![w] = place]
    BY DEF WorkerStep, Sleep, Exit, Take, Done, SpuriousWake
  <1>2. pc'[w] = place /\ \A x \in (Clients \cup Workers) \ {w} : pc'[x] = pc[x]
    BY <1>1 DEF IInv, TypeOK
  <1>3. UNCHANGED <<lock, queue, tail, shutdown, freed>> /\ pc[w] \in {"lock", "wait", "run"}
    BY DEF WorkerStep, Sleep, Exit, Take, Done, SpuriousWake, ring, Locking
  <1>4. Created' = Created /\ \A c \in Clients : pc'[c] = pc[c]
    BY <1>2, <1>3 DEF Created
  <1>5. w \in Created /\ \A v \in Workers : pc[v] = "exited" => pc'[v] = "exited"
    BY <1>2, <1>3 DEF Created
  <1>6. Creation' /\ Joined'
    BY <1>2, <1>3, <1>4, <1>5 DEF IInv, Creation, Joined
  <1>7. CASE Exit(w)
    <2>1. /\ MustExit /\ place = "exited" /\ active_thread_num' = active_thread_num - 1
          /\ UNCHANGED <<ring, task>>
      BY <1>2, <1>7 DEF Exit, IInv, TypeOK
    <2>2. Alive' = Alive \ {w} /\ w \in Alive
      BY <1>2, <1>3, <2>1 DEF Alive
    <2>3. Cardinality(Alive') = Cardinality(Alive) - 1
      BY <2>2, AliveFinite, FS_RemoveElement
    <2>4. Count' /\ active_thread_num' \in Nat
      <3>1. Cardinality(Alive) # 0
        BY <2>2, AliveFinite, FS_EmptySet
      <3>2. QED
        BY <2>1, <2>3, <3>1, AliveFinite DEF IInv, Count
    <2>5. TypeOK'
      BY <1>1, <1>2, <1>3, <1>4, <2>1, <2>4 DEF IInv, TypeOK, ring, WorkerPCs
    <2>6. Ends'
      BY <1>2, <1>3, <1>7, <2>1 DEF IInv, Ends, MustExit, ring, Exit, Locking
    <2>7. QED
      BY <1>6, <2>4, <2>5, <2>6 DEF IInv
  <1>8. CASE Sleep(w) \/ SpuriousWake(w) \/ Done(w) \/ Take(w)
    <2>1. place # "exited" /\ UNCHANGED active_thread_num
      BY <1>2, <1>8 DEF Sleep, SpuriousWake, Done, Take, IInv, TypeOK
    <2>2. Alive' = Alive
      BY <1>2, <1>3, <2>1 DEF Alive
    <2>3. Count'
      BY <2>1, <2>2 DEF IInv, Count
    <2>4. /\ head' \in 0 .. queue_size - 1 /\ pending_task_count' \in 0 .. queue_size
          /\ task' \in [Workers -> Tasks \cup {NoTask}]
      <3>1. CASE Sleep(w) \/ SpuriousWake(w) \/ Done(w)
        BY <3>1 DEF Sleep, SpuriousWake, Done, IInv, TypeOK, ring
      <3>2. CASE Take(w)
        BY <3>2 DEF Take, IInv, TypeOK
      <3>3. QED
        BY <1>8, <3>1, <3>2
    <2>5. TypeOK'
      BY <1>1, <1>2, <1>3, <1>4, <2>1, <2>4 DEF IInv, TypeOK, WorkerPCs
    <2>6. Ends'
      <3>1. MustExit => MustExit'
        BY <1>3, <1>8 DEF MustExit, Sleep, SpuriousWake, Done, Take, ring
      <3>2. \A v \in Workers : task'[v] # NoTask => pc'[v] = "run"
        <4>1. CASE Take(w)
          BY <1>2, <4>1 DEF Take, IInv, TypeOK, Ends
        <4>2. CASE Done(w)
          BY <1>2, <4>2 DEF Done, IInv, TypeOK, Ends
        <4>3. CASE Sleep(w) \/ SpuriousWake(w)
          BY <1>2, <4>3 DEF Sleep, SpuriousWake, IInv, TypeOK, Ends, Locking
        <4>4. QED
          BY <1>8, <4>1, <4>2, <4>3
      <3>3. QED
        BY <1>2, <2>1, <3>1, <3>2 DEF IInv, Ends
    <2>7. QED
      BY <1>6, <2>3, <2>5, <2>6 DEF IInv
  <1>9. QED
    BY <1>7, <1>8 DEF WorkerStep

LEMMA StepIInv == IInv /\ [Next]_vars => IInv'
  <1> SUFFICES ASSUME IInv, [Next]_vars PROVE IInv'
    OBVIOUS
  <1>1. CASE UNCHANGED vars
    BY <1>1 DEF vars, ring, IInv, TypeOK, Creation, Ends, Joined, Count, Alive, Created, MustExit
  <1>2. CASE Next
    BY <1>2, CreatorIInv, ClientIInv, WorkerIInv DEF Next
  <1>3. QED
    BY <1>1, <1>2

LEMMA Invariance == Spec => []IInv
  BY InitIInv, StepIInv, PTL DEF Spec

------------------------------------------------------------------------------
(* The ring's indices stay inside it, and it never holds more tasks than   *)
(* it has slots, with any number of callers.                               *)
THEOREM TypeCorrect == Spec => []TypeOK
  <1>1. IInv => TypeOK
    BY DEF IInv
  <1>2. QED
    BY <1>1, Invariance, PTL

(* threadpool_free() is never refused once the threads have been joined.   *)
THEOREM FreeAccepted == Spec => []FreeNeverRefuses
  <1>1. IInv => FreeNeverRefuses
    <2> SUFFICES ASSUME IInv, \A w \in Created : pc[w] = "exited" PROVE active_thread_num = 0
      BY DEF FreeNeverRefuses
    <2>1. Alive = {}
      BY DEF Alive, Created
    <2>2. QED
      BY <2>1, FS_EmptySet DEF IInv, Count
  <1>2. QED
    BY <1>1, Invariance, PTL

(* A graceful shutdown releases the pool only when all tasks have run.     *)
THEOREM Drained == Spec => []GracefulDrains
  <1>1. IInv => GracefulDrains
    <2> SUFFICES ASSUME IInv, freed, shutdown = graceful_shutdown
                 PROVE  pending_task_count = 0 /\ \A w \in Workers : task[w] = NoTask
      BY DEF GracefulDrains
    <2>1. \A w \in Workers : pc[w] = "exited"
      BY DEF IInv, Creation, Joined
    <2>2. PICK w \in Workers : TRUE
      BY Constants
    <2>3. pending_task_count = 0
      BY <2>1, <2>2 DEF IInv, Ends, MustExit, immediate_shutdown, graceful_shutdown
    <2>4. \A v \in Workers : task[v] = NoTask
      BY <2>1 DEF IInv, Ends
    <2>5. QED
      BY <2>3, <2>4
  <1>2. QED
    BY <1>1, Invariance, PTL

------------------------------------------------------------------------------
(* The ring as a queue.                                                    *)

(* The slots from head on hold the tasks that wait, tail is the slot after *)
(* them, and a worker that runs something runs a task.                     *)
RingInv ==
    /\ tail = Slot(queue_size, head, pending_task_count)
    /\ \A i \in 0 .. pending_task_count - 1 : queue[Slot(queue_size, head, i)] \in Tasks
    /\ \A w \in Workers : pc[w] = "run" => task[w] # NoTask

LEMMA ContentsIs == Contents = Read(queue_size, queue, head, pending_task_count)
  BY DEF Contents, Read

LEMMA ContentsLength ==
  ASSUME IInv, RingInv PROVE Contents \in Seq(Tasks) /\ Len(Contents) = pending_task_count
  <1>1. /\ queue_size \in Nat \ {0} /\ head \in 0 .. queue_size - 1
        /\ pending_task_count \in 0 .. queue_size
    BY Constants DEF IInv, TypeOK
  <1>2. \A i \in 0 .. pending_task_count - 1 : queue[Slot(queue_size, head, i)] \in Tasks
    BY DEF RingInv
  <1>3. QED
    BY <1>1, <1>2, ContentsIs, ReadSeq

(* threadpool_add() appends the task. *)
LEMMA AddSubmits ==
  ASSUME IInv, RingInv, NEW c \in Clients, NEW t \in Tasks, Add(c, t)
  PROVE  RingInv' /\ Abs!Submit(t)
  <1> DEFINE n == queue_size
  <1> DEFINE k == pending_task_count
  <1>1. /\ n \in Nat \ {0} /\ head \in 0 .. n - 1 /\ k \in 0 .. n - 1
        /\ queue \in [0 .. n - 1 -> Tasks \cup {NoTask}]
    BY Constants DEF IInv, TypeOK, Add
  <1>2. /\ tail = Slot(n, head, k) /\ k' = k + 1 /\ head' = head /\ task' = task
        /\ \A i \in 0 .. k - 1 : queue[Slot(n, head, i)] \in Tasks
        /\ queue' = [queue EXCEPT ![Slot(n, head, k)] = t]
        /\ tail' = (tail + 1) % n
    BY DEF RingInv, Add
  <1> HIDE DEF n, k
  <1>3. tail' = Slot(n, head', k')
    BY <1>1, <1>2, SlotsMove
  <1>4. /\ \A i \in 0 .. k - 1 : queue'[Slot(n, head, i)] = queue[Slot(n, head, i)]
        /\ queue'[Slot(n, head, k)] = t
    <2>1. \A i \in 0 .. k : Slot(n, head, i) \in 0 .. n - 1
      BY <1>1, SlotsMove
    <2>2. \A i \in 0 .. k - 1 : Slot(n, head, i) # Slot(n, head, k)
      BY <1>1, SlotsDiffer
    <2>3. QED
      BY <1>1, <1>2, <2>1, <2>2
  <1>5. Read(n, queue', head, k') = Longer(Read(n, queue, head, k), t)
    <2>1. k' = k + 1
      BY <1>2
    <2>2. QED
      BY ONLY <1>1, <1>4, <2>1, PutAppends
  <1>6. \A i \in 0 .. (k + 1) - 1 : queue'[Slot(n, head, i)] \in Tasks
    BY <1>1, <1>2, <1>4
  <1>7. \A w \in Workers : pc'[w] = pc[w] \/ pc'[w] = "lock"
    BY SignalMoves DEF Add, IInv, TypeOK
  <1>8. RingInv'
    <2>1. \A w \in Workers : pc'[w] = "run" => task'[w] # NoTask
      BY <1>2, <1>7 DEF RingInv
    <2>2. \A i \in 0 .. k' - 1 : queue'[Slot(n, head', i)] \in Tasks
      BY <1>2, <1>6
    <2>3. QED
      BY <1>3, <2>1, <2>2 DEF RingInv, n, k
  <1>9. Contents' = Append(Contents, t)
    BY <1>2, <1>5, ContentsIs DEF Contents, Read, Longer, n, k
  <1>10. Len(Contents) < queue_size
    BY <1>1, ContentsLength DEF n, k
  <1>11. QED
    BY <1>2, <1>8, <1>9, <1>10 DEF Abs!Submit

(* A worker takes the oldest task. *)
LEMMA TakeTakes ==
  ASSUME IInv, RingInv, NEW w \in Workers, Take(w) PROVE RingInv' /\ Abs!Take(w)
  <1> DEFINE n == queue_size
  <1> DEFINE k == pending_task_count
  <1>1. /\ n \in Nat \ {0} /\ head \in 0 .. n - 1 /\ k \in 1 .. n
        /\ \A i \in 0 .. k - 1 : queue[Slot(n, head, i)] \in Tasks
    BY Constants DEF IInv, TypeOK, Take, RingInv
  <1>2. /\ tail = Slot(n, head, k) /\ k' = k - 1 /\ head' = (head + 1) % n
        /\ queue' = queue /\ tail' = tail /\ task' = [task EXCEPT ![w] = queue[head]]
        /\ pc' = [pc EXCEPT ![w] = "run"] /\ pc[w] = "lock"
    BY DEF RingInv, Take, Locking
  <1> HIDE DEF n, k
  <1>3. head' = Slot(n, head, 1)
    BY <1>1, <1>2, FrontSlots
  <1>4. /\ Read(n, queue, head, k) # <<>> /\ Head(Read(n, queue, head, k)) = queue[head]
        /\ Read(n, queue, Slot(n, head, 1), k - 1) = Tail(Read(n, queue, head, k))
    BY <1>1, TakeDrops
  <1>5. task[w] = NoTask /\ task \in [Workers -> Tasks \cup {NoTask}]
    BY <1>2 DEF IInv, TypeOK, Ends
  <1>6. RingInv'
    <2>1. \A v \in Workers : pc'[v] = "run" => task'[v] # NoTask
      <3>1. queue[head] # NoTask
        <4>1. Slot(n, head, 0) = head /\ 0 \in 0 .. k - 1
          BY <1>1, FrontSlots
        <4>2. queue[head] \in Tasks
          BY <1>1, <4>1
        <4>3. QED
          BY <4>2, Constants
      <3>2. ASSUME NEW v \in Workers, pc'[v] = "run" PROVE task'[v] # NoTask
        <4>1. CASE v = w
          BY <1>2, <1>5, <3>1, <4>1
        <4>2. CASE v # w
          <5>1. pc[v] = "run" /\ task'[v] = task[v]
            BY <1>2, <1>5, <3>2, <4>2, Constants DEF IInv, TypeOK
          <5>2. QED
            BY <5>1 DEF RingInv
        <4>3. QED
          BY <4>1, <4>2
      <3>3. QED
        BY <3>2
    <2>2. /\ tail' = Slot(n, head', k')
          /\ \A i \in 0 .. k' - 1 : queue'[Slot(n, head', i)] \in Tasks
      <3>1. \A i \in 0 .. n - 1 : Slot(n, Slot(n, head, 1), i) = Slot(n, head, i + 1)
        BY <1>1, SlotsMove
      <3>2. k - 1 \in 0 .. n - 1 /\ (k - 1) + 1 = k
        BY <1>1
      <3>3. \A i \in 0 .. (k - 1) - 1 : i \in 0 .. n - 1 /\ i + 1 \in 0 .. k - 1
        BY <1>1
      <3>4. tail = Slot(n, Slot(n, head, 1), k - 1)
        BY <1>2, <3>1, <3>2
      <3>5. \A i \in 0 .. (k - 1) - 1 : queue[Slot(n, Slot(n, head, 1), i)] \in Tasks
        BY <1>1, <3>1, <3>3
      <3>6. QED
        BY <1>2, <1>3, <3>4, <3>5
    <2>3. QED
      BY <2>1, <2>2 DEF RingInv, n, k
  <1>7. Contents # <<>> /\ Head(Contents) = queue[head]
    BY <1>4, ContentsIs DEF n, k
  <1>8. Contents' = Tail(Contents)
    <2>1. Contents' = Read(n, queue', head', k')
      BY DEF Contents, Read, n, k
    <2>2. QED
      BY <1>2, <1>3, <1>4, <2>1, ContentsIs DEF n, k
  <1>9. QED
    BY <1>2, <1>5, <1>6, <1>7, <1>8 DEF Abs!Take

(* Steps that leave the ring alone. *)
LEMMA RingKept ==
  ASSUME RingInv, UNCHANGED ring,
         \A w \in Workers : pc'[w] = "run" => task'[w] # NoTask
  PROVE  RingInv' /\ Contents' = Contents
  BY DEF RingInv, ring, Slot, Contents

LEMMA StepQueue == ASSUME IInv, RingInv, [Next]_vars PROVE RingInv' /\ [Abs!Next]_Abs!vars
  <1>1. \A w \in Workers : pc[w] = "run" => task[w] # NoTask
    BY DEF RingInv
  <1>2. ASSUME UNCHANGED <<ring, task>>, \A w \in Workers : pc'[w] = "run" => pc[w] = "run"
        PROVE  RingInv' /\ [Abs!Next]_Abs!vars
    BY <1>1, <1>2, RingKept DEF Abs!vars
  <1>3. CASE UNCHANGED vars
    BY <1>2, <1>3 DEF vars
  <1>4. CASE CreatorStep
    <2>1. UNCHANGED <<ring, task>>
      BY <1>4 DEF CreatorStep, CreateThread, CreateFails
    <2>2. \A w \in Workers : pc'[w] = "run" => pc[w] = "run"
      BY <1>4, Constants DEF CreatorStep, CreateThread, CreateFails, IInv, TypeOK
    <2>3. QED
      BY <1>2, <2>1, <2>2
  <1>5. ASSUME NEW c \in Clients, NEW t \in Tasks, Add(c, t) PROVE RingInv' /\ [Abs!Next]_Abs!vars
    BY <1>5, AddSubmits DEF Abs!Next
  <1>6. ASSUME NEW c \in Clients, DestroyCall(c) \/ DestroyStep(c)
        PROVE  RingInv' /\ [Abs!Next]_Abs!vars
    <2>1. UNCHANGED <<ring, task>>
      BY <1>6 DEF DestroyCall, DestroyStep, DestroyFirst, DestroyAgain, Join, Free
    <2>2. \A w \in Workers : pc'[w] = "run" => pc[w] = "run"
      <3>1. CASE DestroyFirst(c)
        BY <3>1, Constants DEF DestroyFirst, Broadcast, IInv, TypeOK
      <3>2. CASE DestroyCall(c) \/ DestroyAgain(c) \/ Join(c) \/ Free(c)
        BY <3>2, Constants DEF DestroyCall, DestroyAgain, Join, Free, IInv, TypeOK
      <3>3. QED
        BY <1>6, <3>1, <3>2 DEF DestroyStep
    <2>3. QED
      BY <1>2, <2>1, <2>2
  <1>7. ASSUME NEW w \in Workers, WorkerStep(w) \/ SpuriousWake(w)
        PROVE  RingInv' /\ [Abs!Next]_Abs!vars
    <2>1. CASE Take(w)
      BY <2>1, TakeTakes DEF Abs!Next
    <2>2. CASE Done(w)
      <3>1. /\ UNCHANGED ring /\ task' = [task EXCEPT ![w] = NoTask] /\ pc[w] = "run"
            /\ pc' = [pc EXCEPT ![w] = "lock"]
        BY <2>2 DEF Done
      <3>2. \A v \in Workers : pc'[v] = "run" => task'[v] # NoTask
        BY <1>1, <3>1 DEF IInv, TypeOK
      <3>3. RingInv' /\ Contents' = Contents
        BY <3>1, <3>2, RingKept
      <3>4. Abs!Finish(w)
        BY <1>1, <3>1, <3>3 DEF Abs!Finish
      <3>5. QED
        BY <3>3, <3>4 DEF Abs!Next
    <2>3. CASE Sleep(w) \/ Exit(w) \/ SpuriousWake(w)
      <3>1. UNCHANGED <<ring, task>> /\ \A v \in Workers : pc'[v] = "run" => pc[v] = "run"
        BY <2>3 DEF Sleep, Exit, SpuriousWake, IInv, TypeOK
      <3>2. QED
        BY <1>2, <3>1
    <2>4. QED
      BY <1>7, <2>1, <2>2, <2>3 DEF WorkerStep
  <1>8. QED
    BY <1>3, <1>4, <1>5, <1>6, <1>7 DEF Next

LEMMA InitQueue == Init => RingInv /\ Abs!Init
  <1> SUFFICES ASSUME Init PROVE RingInv /\ Abs!Init
    OBVIOUS
  <1>1. tail = Slot(queue_size, head, pending_task_count)
    BY Constants, FrontSlots DEF Init
  <1>2. Contents = <<>>
    BY DEF Init, Contents
  <1>3. QED
    BY <1>1, <1>2, Constants DEF Init, RingInv, Abs!Init

(* The pool is a bounded FIFO queue, whoever calls and however it is shut  *)
(* down: each step of it is one of TaskQueue or means nothing to it.       *)
THEOREM ImplementsQueue == Spec => FifoQueue
  <1>1. Init => IInv /\ RingInv /\ Abs!Init
    BY InitIInv, InitQueue
  <1>2. IInv /\ RingInv /\ [Next]_vars => RingInv' /\ [Abs!Next]_Abs!vars
    BY StepQueue
  <1>3. Spec => []RingInv
    BY <1>1, <1>2, Invariance, PTL DEF Spec
  <1>4. QED
    BY <1>1, <1>2, <1>3, Invariance, PTL DEF Spec, FifoQueue, Abs!Spec
==============================================================================
