----------------------------- MODULE TimedGuards -----------------------------
(* MutexLock::timed_lock and the guards built on it (common/base/mutex.h):    *)
(* MutexLockTimedGuard takes one mutex, MutexLockTimedDoubleGuard two, in the *)
(* order of their addresses whatever the order of its arguments.              *)
(*                                                                            *)
(* A lock that is not obtained within kMutexLockTimeOutSecond makes           *)
(* pthread_mutex_timedlock fail, which MCHECK turns into an abort of the      *)
(* process (the default build type is Debug).  Time is not counted: whoever   *)
(* waits for a mutex that another thread owns may find its time over.         *)
EXTENDS Naturals, FiniteSets

CONSTANTS Threads,     \* the threads that take guards, one at a time each
          NoThread,    \* holder_ == 0, and the owner of a free pthread mutex
          TopAddress,  \* no mutex lies above this address
          Mutexes      \* the addresses of the mutexes

ASSUME NoThreadAssumption == NoThread \notin Threads
ASSUME AddressAssumption == TopAddress \in Nat /\ Mutexes \subseteq 0..TopAddress

VARIABLES owner,       \* owner[m]: who owns the pthread mutex
          holder,      \* holder[m]: holder_
          pc,          \* where each thread is
          lhs, rhs,    \* arguments of the guard, the same one for a single guard
          double,      \* double[t]: the guard is a MutexLockTimedDoubleGuard
          aborted      \* an assertion has failed

vars == <<owner, holder, pc, lhs, rhs, double, aborted>>

Goto(t, label) == pc' = [pc EXCEPT ![t] = label]

(* &lhs_mutex_ < &rhs_mutex_ decides which mutex is locked first; the         *)
(* destructor unlocks in the opposite order.                                  *)
OrderAsGiven(t) == <<lhs[t], rhs[t]>>

Order(t) == IF lhs[t] < rhs[t] THEN <<lhs[t], rhs[t]>> ELSE <<rhs[t], lhs[t]>>

First(t) == Order(t)[1]
Second(t) == Order(t)[2]

Init ==
    /\ owner = [m \in Mutexes |-> NoThread]
    /\ holder = [m \in Mutexes |-> NoThread]
    /\ pc = [t \in Threads |-> "idle"]
    /\ lhs \in {[t \in Threads |-> m] : m \in Mutexes}
    /\ rhs = lhs
    /\ double = [t \in Threads |-> FALSE]
    /\ aborted = FALSE

(* A thread declares a guard.                                                 *)
TakeOne(t, m) ==
    /\ pc[t] = "idle"
    /\ lhs' = [lhs EXCEPT ![t] = m]
    /\ rhs' = [rhs EXCEPT ![t] = m]
    /\ double' = [double EXCEPT ![t] = FALSE]
    /\ Goto(t, "lock1")
    /\ UNCHANGED <<owner, holder, aborted>>

TakeTwoUnchecked(t, l, r) ==
    /\ pc[t] = "idle"
    /\ lhs' = [lhs EXCEPT ![t] = l]
    /\ rhs' = [rhs EXCEPT ![t] = r]
    /\ double' = [double EXCEPT ![t] = TRUE]
    /\ Goto(t, "lock1")
    /\ UNCHANGED <<owner, holder, aborted>>

TakeTwo(t, l, r) ==
    /\ pc[t] = "idle"
    /\ l # r
    /\ lhs' = [lhs EXCEPT ![t] = l]
    /\ rhs' = [rhs EXCEPT ![t] = r]
    /\ double' = [double EXCEPT ![t] = TRUE]
    /\ Goto(t, "lock1")
    /\ UNCHANGED <<owner, holder, aborted>>

(* assert(&lhs_mutex_ != &rhs_mutex_)                                         *)
TakeTwice(t) ==
    /\ pc[t] = "idle"
    /\ aborted' = TRUE
    /\ UNCHANGED <<owner, holder, pc, lhs, rhs, double>>

(* timed_lock: pthread_mutex_timedlock, and then assign_holder.               *)
Lock1(t) ==
    /\ pc[t] = "lock1"
    /\ owner[First(t)] = NoThread
    /\ owner' = [owner EXCEPT ![First(t)] = t]
    /\ Goto(t, "assign1")
    /\ UNCHANGED <<holder, lhs, rhs, double, aborted>>

Assign1(t) ==
    /\ pc[t] = "assign1"
    /\ holder' = [holder EXCEPT ![First(t)] = t]
    /\ Goto(t, IF double[t] THEN "lock2" ELSE "inside")
    /\ UNCHANGED <<owner, lhs, rhs, double, aborted>>

Lock2(t) ==
    /\ pc[t] = "lock2"
    /\ owner[Second(t)] = NoThread
    /\ owner' = [owner EXCEPT ![Second(t)] = t]
    /\ Goto(t, "assign2")
    /\ UNCHANGED <<holder, lhs, rhs, double, aborted>>

Assign2(t) ==
    /\ pc[t] = "assign2"
    /\ holder' = [holder EXCEPT ![Second(t)] = t]
    /\ Goto(t, "inside")
    /\ UNCHANGED <<owner, lhs, rhs, double, aborted>>

Waits(t) == pc[t] \in {"lock1", "lock2"}

Wanted(t) == IF pc[t] = "lock1" THEN First(t) ELSE Second(t)

TimesOut(t) ==
    /\ Waits(t)
    /\ owner[Wanted(t)] # NoThread
    /\ aborted' = TRUE
    /\ UNCHANGED <<owner, holder, pc, lhs, rhs, double>>

(* The end of the guard's scope, and unlock: unassign_holder, and then        *)
(* pthread_mutex_unlock.                                                      *)
Leave(t) ==
    /\ pc[t] = "inside"
    /\ Goto(t, IF double[t] THEN "unassign2" ELSE "unassign1")
    /\ UNCHANGED <<owner, holder, lhs, rhs, double, aborted>>

Unassign2(t) ==
    /\ pc[t] = "unassign2"
    /\ holder' = [holder EXCEPT ![Second(t)] = NoThread]
    /\ Goto(t, "unlock2")
    /\ UNCHANGED <<owner, lhs, rhs, double, aborted>>

Unlock2(t) ==
    /\ pc[t] = "unlock2"
    /\ owner' = [owner EXCEPT ![Second(t)] = NoThread]
    /\ Goto(t, "unassign1")
    /\ UNCHANGED <<holder, lhs, rhs, double, aborted>>

Unassign1(t) ==
    /\ pc[t] = "unassign1"
    /\ holder' = [holder EXCEPT ![First(t)] = NoThread]
    /\ Goto(t, "unlock1")
    /\ UNCHANGED <<owner, lhs, rhs, double, aborted>>

Unlock1(t) ==
    /\ pc[t] = "unlock1"
    /\ owner' = [owner EXCEPT ![First(t)] = NoThread]
    /\ Goto(t, "idle")
    /\ UNCHANGED <<holder, lhs, rhs, double, aborted>>

-----------------------------------------------------------------------------
UnlockThenUnassign(t) ==
    /\ \/ /\ pc[t] = "unassign1"
          /\ owner' = [owner EXCEPT ![First(t)] = NoThread]
          /\ Goto(t, "unlock1")
          /\ UNCHANGED holder
       \/ /\ pc[t] = "unlock1"
          /\ holder' = [holder EXCEPT ![First(t)] = NoThread]
          /\ Goto(t, "idle")
          /\ UNCHANGED owner
    /\ UNCHANGED <<lhs, rhs, double, aborted>>

GuardStepUnlockFirst(t) ==
    \/ Lock1(t) \/ Assign1(t) \/ Lock2(t) \/ Assign2(t)
    \/ Leave(t)
    \/ Unassign2(t) \/ Unlock2(t) \/ UnlockThenUnassign(t)

GuardStep(t) ==
    \/ Lock1(t) \/ Assign1(t) \/ Lock2(t) \/ Assign2(t)
    \/ Leave(t)
    \/ Unassign2(t) \/ Unlock2(t) \/ Unassign1(t) \/ Unlock1(t)

Next ==
    /\ ~aborted
    /\ \E t \in Threads :
          \/ \E m \in Mutexes : TakeOne(t, m)
          \/ \E l, r \in Mutexes : TakeTwo(t, l, r)
          \/ TakeTwice(t)
          \/ TimesOut(t)
          \/ GuardStep(t)

Spec == Init /\ [][Next]_vars

(* A thread that can run does, and no critical section goes on for ever.      *)
(* Nobody has to declare a guard, and nobody relies on a time-out.            *)
FairSpec == Spec /\ \A t \in Threads : WF_vars(~aborted /\ GuardStep(t))

-----------------------------------------------------------------------------
HasFirst == {"assign1", "lock2", "assign2", "inside", "unassign2", "unlock2",
             "unassign1", "unlock1"}
HasSecond == {"assign2", "inside", "unassign2", "unlock2"}
NamedFirst == {"lock2", "assign2", "inside", "unassign2", "unlock2", "unassign1"}
NamedSecond == {"inside", "unassign2"}
Labels == HasFirst \cup {"idle", "lock1"}

(* Every variable keeps its type, and a double guard names two mutexes, which *)
(* is what the assertion of its constructor is for.                           *)
TypeOK ==
    /\ owner \in [Mutexes -> Threads \cup {NoThread}]
    /\ holder \in [Mutexes -> Threads \cup {NoThread}]
    /\ pc \in [Threads -> Labels]
    /\ lhs \in [Threads -> Mutexes]
    /\ rhs \in [Threads -> Mutexes]
    /\ double \in [Threads -> BOOLEAN]
    /\ \A t \in Threads : double[t] <=> lhs[t] # rhs[t]
    /\ aborted \in BOOLEAN

(* A guard protects its scope: inside it the thread owns every mutex of the   *)
(* guard and is the one holder_ names, so that AssertLocked holds for both;   *)
(* after it the thread has neither, and holder_ never names a thread without  *)
(* the mutex (the destructor of MutexLock asserts holder_ == 0).              *)
GuardProtects ==
    /\ \A t \in Threads : pc[t] = "inside" =>
          \A m \in {lhs[t], rhs[t]} : owner[m] = t /\ holder[m] = t
    /\ \A t \in Threads, m \in Mutexes : pc[t] = "idle" => owner[m] # t
    /\ \A m \in Mutexes : holder[m] # NoThread => holder[m] = owner[m]

(* No time-out is ever the result of a cycle: there is no set of threads each *)
(* of which waits, in the constructor of a guard, for a mutex that another    *)
(* of them owns, however many threads there are and in whatever order they    *)
(* name their mutexes.                                                        *)
NoCircularWait ==
    \A S \in (SUBSET Threads) \ {{}} :
        ~ \A t \in S : Waits(t) /\ owner[Wanted(t)] \in S

(* While threads wait for mutexes, one of them gets into its guard's scope    *)
(* (or the process aborts), without the help of time-outs.                    *)
SomeoneGetsIn ==
    (\E t \in Threads : Waits(t)) ~> (aborted \/ \E t \in Threads : pc[t] = "inside")

=============================================================================
