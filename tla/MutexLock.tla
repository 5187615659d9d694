------------------------------- MODULE MutexLock -------------------------------
(***************************************************************************)
(* classes MutexLock and Condition (src/src/threadpool.h and .cpp): a      *)
(* pthread mutex with a field holder_ that records who has locked it.      *)
(* lock() and unlock() write the field on either side of the pthread call, *)
(* unlock() when it no longer holds the mutex; Condition::wait() hands the *)
(* bare mutex to pthread_cond_wait and leaves the field alone.             *)
(***************************************************************************)
EXTENDS Naturals, FiniteSets

CONSTANTS
    Threads,    \* threads that use the lock
    NoThread    \* 0 in holder_, and the owner of a free mutex

ASSUME LockAssumption == NoThread \notin Threads

VARIABLES
    mutex_,     \* owner of the pthread mutex
    holder_,    \* MutexLock::holder_
    pc          \* where each thread is

vars == <<mutex_, holder_, pc>>

(* "out": not in a critical section.  "locked": lock() has the mutex and   *)
(* has not written holder_.  "in": in the critical section.  "unlocked":   *)
(* unlock() has released the mutex and has not written holder_.  "asleep": *)
(* in Condition::wait().  "destroyed": every thread, after ~MutexLock.     *)
PCs == {"out", "locked", "in", "unlocked", "asleep", "destroyed"}

TypeOK ==
    /\ mutex_ \in Threads \cup {NoThread}
    /\ holder_ \in Threads \cup {NoThread}
    /\ pc \in [Threads -> PCs]

(* The member initialisers clear holder_. *)
Init ==
    /\ mutex_ = NoThread
    /\ holder_ = NoThread
    /\ pc = [t \in Threads |-> "out"]

At(t, here, there) == pc[t] = here /\ pc' = [pc EXCEPT ![t] = there]

(* lock(): pthread_mutex_lock, then holder_ = pthread_self(). *)
Lock(t) ==
    /\ At(t, "out", "locked")
    /\ mutex_ = NoThread /\ mutex_' = t
    /\ UNCHANGED holder_

SetHolder(t) ==
    /\ At(t, "locked", "in")
    /\ holder_' = t
    /\ UNCHANGED mutex_

(* unlock(): pthread_mutex_unlock, then holder_ = 0. *)
Unlock(t) ==
    /\ At(t, "in", "unlocked")
    /\ mutex_' = NoThread
    /\ UNCHANGED holder_

ClearHolder_forgotten(t) == At(t, "unlocked", "out") /\ UNCHANGED <<mutex_, holder_>>

ClearHolder(t) ==
    /\ At(t, "unlocked", "out")
    /\ holder_' = NoThread
    /\ UNCHANGED mutex_

(* Condition::wait(): pthread_cond_wait releases the mutex, and returns,   *)
(* notified or not, once it has the mutex again.                           *)
Wait(t) ==
    /\ At(t, "in", "asleep")
    /\ mutex_' = NoThread
    /\ UNCHANGED holder_

Wake(t) ==
    /\ At(t, "asleep", "in")
    /\ mutex_ = NoThread /\ mutex_' = t
    /\ UNCHANGED holder_

(* ~MutexLock(), which the owner of the lock runs when no thread uses it. *)
Destroy ==
    /\ Threads # {}
    /\ \A t \in Threads : pc[t] = "out"
    /\ pc' = [t \in Threads |-> "destroyed"]
    /\ UNCHANGED <<mutex_, holder_>>

Step(t) ==
    \/ Lock(t) \/ SetHolder(t) \/ Unlock(t) \/ ClearHolder(t)
    \/ Wait(t) \/ Wake(t)

Next == (\E t \in Threads : Step(t)) \/ Destroy

Spec == Init /\ [][Next]_vars

------------------------------------------------------------------------------
(* Properties.  An operator X_y above is X with the mistake y; it is no    *)
(* part of the specification and shows what the properties can detect.     *)

isLockedByThisThread(t) == holder_ = t

(* The assertion of ~MutexLock() (threadpool.cpp:304): although unlock()   *)
(* clears holder_ when others may already hold the mutex, and wait() does  *)
(* not maintain it, it is 0 again when every thread has left.              *)
HolderClearAtEnd == (\A t \in Threads : pc[t] \in {"out", "destroyed"}) => holder_ = NoThread

(* isLockedByThisThread() has no false positives: a thread outside its     *)
(* critical section never finds itself in holder_, and one inside it does  *)
(* hold the mutex.                                                         *)
NoFalseClaim ==
    \A t \in Threads :
        /\ pc[t] = "out" => ~isLockedByThisThread(t)
        /\ pc[t] = "in" /\ isLockedByThisThread(t) => mutex_ = t

==============================================================================
