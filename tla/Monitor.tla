------------------------------- MODULE Monitor -------------------------------
(* MutexLock (common/base/mutex.h) together with one Condition               *)
(* (common/base/condition.h) that is tied to it: the monitor under which      *)
(* BlockingQueue keeps its deque.                                             *)
(*                                                                            *)
(* The code keeps the lock twice: once in the pthread mutex and once in       *)
(* holder_, the thread id IsLockedByThisThread compares with.  The two are    *)
(* written by different instructions, so every lock, unlock and wait is split *)
(* here at the point where another thread can run between them.               *)
EXTENDS FiniteSets

CONSTANTS Threads,    \* the threads that share the monitor
          NoThread    \* holder_ == 0, and the owner of a free pthread mutex

ASSUME NoThreadAssumption == NoThread \notin Threads
ASSUME ThreadsAssumption == IsFiniteSet(Threads)

VARIABLES owner,      \* who owns the pthread mutex
          holder,     \* holder_
          pc          \* where each thread is

monitorVars == <<owner, holder, pc>>

Goto(t, label) == pc' = [pc EXCEPT ![t] = label]

(* Threads blocked in pthread_cond_wait. *)
Sleepers == {t \in Threads : pc[t] = "asleep"}

MonitorInit ==
    /\ owner = NoThread
    /\ holder = NoThread
    /\ pc = [t \in Threads |-> "idle"]

(* lock(): pthread_mutex_lock, and then assign_holder. *)
Acquire(t) ==
    /\ pc[t] = "lock"
    /\ owner = NoThread
    /\ owner' = t
    /\ Goto(t, "assign")
    /\ UNCHANGED holder

Assign(t, body) ==
    /\ pc[t] = "assign"
    /\ holder' = t
    /\ Goto(t, body)
    /\ UNCHANGED owner

(* unlock(): unassign_holder, and then pthread_mutex_unlock. *)
UnassignForgotten(t) ==
    /\ pc[t] = "unassign"
    /\ Goto(t, "unlock")
    /\ UNCHANGED <<owner, holder>>

Unassign(t) ==
    /\ pc[t] = "unassign"
    /\ holder' = NoThread
    /\ Goto(t, "unlock")
    /\ UNCHANGED owner

Release(t) ==
    /\ pc[t] = "unlock"
    /\ owner' = NoThread
    /\ Goto(t, "idle")
    /\ UNCHANGED holder

(* Condition::Wait(): the UnassignGuard's constructor, pthread_cond_wait      *)
(* (which gives the mutex up and sleeps in one step, and has the mutex again  *)
(* when it returns), the guard's destructor.                                  *)
GiveUpHolder(t) ==
    /\ pc[t] = "yield"
    /\ holder' = NoThread
    /\ Goto(t, "wait")
    /\ UNCHANGED owner

CondWait(t) ==
    /\ pc[t] = "wait"
    /\ owner' = NoThread
    /\ Goto(t, "asleep")
    /\ UNCHANGED holder

SpuriousWakeup(t) ==
    /\ pc[t] = "asleep"
    /\ Goto(t, "wake")
    /\ UNCHANGED <<owner, holder>>

Reacquire(t) ==
    /\ pc[t] = "wake"
    /\ owner = NoThread
    /\ owner' = t
    /\ Goto(t, "reassign")
    /\ UNCHANGED holder

ReassignUntested(t) ==
    /\ pc[t] = "reassign"
    /\ holder' = t
    /\ Goto(t, "front")
    /\ UNCHANGED owner

Reassign(t) ==
    /\ pc[t] = "reassign"
    /\ holder' = t
    /\ Goto(t, "test")
    /\ UNCHANGED owner

(* Condition::Notify(): pthread_cond_signal wakes one sleeper, if any.        *)
NotifyNobody(t) ==
    /\ pc[t] = "notify"
    /\ Goto(t, "unassign")
    /\ UNCHANGED <<owner, holder>>

Notify(t) ==
    /\ pc[t] = "notify"
    /\ \/ /\ Sleepers = {}
          /\ Goto(t, "unassign")
       \/ \E s \in Sleepers :
             pc' = [pc EXCEPT ![t] = "unassign", ![s] = "wake"]
    /\ UNCHANGED <<owner, holder>>

-----------------------------------------------------------------------------
(* Labels between a successful pthread lock and the next release of it, and   *)
(* those among them where holder_ has been assigned and not yet unassigned.   *)
Body == {"push", "notify", "test", "front", "pop", "swap", "clear", "read"}
Holding == Body \cup {"yield", "unassign"}
Inside == Holding \cup {"assign", "wait", "reassign", "unlock"}
Outside == {"idle", "lock", "asleep", "wake"}
Labels == Inside \cup Outside

MonitorTypeOK ==
    /\ owner \in Threads \cup {NoThread}
    /\ holder \in Threads \cup {NoThread}
    /\ pc \in [Threads -> Labels]

(* What IsLockedByThisThread answers is right: a thread between assign_holder *)
(* and unassign_holder is the one holder_ names and owns the pthread mutex,   *)
(* and nobody else finds itself in holder_.  So AssertLocked can be called    *)
(* anywhere in a critical section, also after a Wait that let others in.      *)
HolderIsOwner ==
    /\ holder # NoThread => owner = holder
    /\ \A t \in Threads : pc[t] \in Holding <=> holder = t

=============================================================================
