---------------------------- MODULE MutexLock_proof ----------------------------
(* The properties of MutexLock, for any set of threads. *)
EXTENDS MutexLock, TLAPS

(* The mutex is owned by the thread between its end of lock() and of       *)
(* unlock() that needs it, and by no other.                                *)
OwnerIsInside == \A t \in Threads : pc[t] \in {"locked", "in"} <=> mutex_ = t

(* A thread that holder_ names has still to clear it.                      *)
HolderIsBusy == \A t \in Threads : holder_ = t => pc[t] \in {"in", "unlocked", "asleep"}

IInv == TypeOK /\ OwnerIsInside /\ HolderIsBusy

LEMMA InitIInv == Init => IInv
  BY LockAssumption DEF Init, IInv, TypeOK, OwnerIsInside, HolderIsBusy, PCs

LEMMA StepIInv == ASSUME IInv, NEW t \in Threads, Step(t) PROVE IInv'
  <1> USE LockAssumption DEF IInv, TypeOK, OwnerIsInside, HolderIsBusy, PCs, At
  <1>1. CASE Lock(t)
    BY <1>1 DEF Lock
  <1>2. CASE SetHolder(t)
    BY <1>2 DEF SetHolder
  <1>3. CASE Unlock(t)
    BY <1>3 DEF Unlock
  <1>4. CASE ClearHolder(t)
    BY <1>4 DEF ClearHolder
  <1>5. CASE Wait(t)
    BY <1>5 DEF Wait
  <1>6. CASE Wake(t)
    BY <1>6 DEF Wake
  <1>7. QED
    BY <1>1, <1>2, <1>3, <1>4, <1>5, <1>6 DEF Step

LEMMA NextIInv == IInv /\ [Next]_vars => IInv'
  <1> SUFFICES ASSUME IInv, [Next]_vars PROVE IInv'
    OBVIOUS
  <1>1. CASE \E t \in Threads : Step(t)
    BY <1>1, StepIInv
  <1>2. CASE Destroy
    BY <1>2, LockAssumption DEF Destroy, IInv, TypeOK, OwnerIsInside, HolderIsBusy, PCs
  <1>3. CASE UNCHANGED vars
    BY <1>3 DEF vars, IInv, TypeOK, OwnerIsInside, HolderIsBusy
  <1>4. QED
    BY <1>1, <1>2, <1>3 DEF Next

LEMMA Inductive == Spec => []IInv
  BY InitIInv, NextIInv, PTL DEF Spec

(* Type correctness of MutexLock. *)
THEOREM TypeCorrect == Spec => []TypeOK
  <1>1. IInv => TypeOK
    BY DEF IInv
  <1>2. QED
    BY <1>1, Inductive, PTL

(* The assertion of ~MutexLock() never fails (threadpool.cpp:304). *)
THEOREM AssertionHolds == Spec => []HolderClearAtEnd
  <1>1. IInv => HolderClearAtEnd
    BY DEF IInv, TypeOK, HolderIsBusy, HolderClearAtEnd
  <1>2. QED
    BY <1>1, Inductive, PTL

(* isLockedByThisThread() is TRUE only for a thread that has the mutex. *)
THEOREM ClaimHolds == Spec => []NoFalseClaim
  <1>1. IInv => NoFalseClaim
    BY DEF IInv, OwnerIsInside, HolderIsBusy, NoFalseClaim, isLockedByThisThread
  <1>2. QED
    BY <1>1, Inductive, PTL
==============================================================================
