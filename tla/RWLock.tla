------------------------------- MODULE RWLock --------------------------------
(* RWLock (common/base/rwlock.h): a pthread read-write lock and one slot,     *)
(* holder_, for the thread that holds it.  Locking and assigning holder_, and *)
(* clearing holder_ and unlocking, are separate steps.                        *)
(*                                                                            *)
(* The timed variants give up after 30 seconds and then fail an assertion;    *)
(* critical sections here are short and the time-out is not taken.            *)
CONSTANTS Threads,
          NoThread    \* holder_ == 0, and no writer

ASSUME NoThreadAssumption == NoThread \notin Threads

VARIABLES readers,    \* who holds the pthread lock for reading
          writer,     \* who holds it for writing
          holder,     \* holder_
          pc

lockVars == <<readers, writer, holder, pc>>

Goto(t, label) == pc' = [pc EXCEPT ![t] = label]

LockInit ==
    /\ readers = {}
    /\ writer = NoThread
    /\ holder = NoThread
    /\ pc = [t \in Threads |-> "idle"]

(* timed_rdlock and timed_wrlock up to the return of the pthread call.        *)
ReadLock(t) ==
    /\ pc[t] = "rdlock"
    /\ writer = NoThread
    /\ readers' = readers \cup {t}
    /\ Goto(t, "assign")
    /\ UNCHANGED <<writer, holder>>

WriteLock(t) ==
    /\ pc[t] = "wrlock"
    /\ writer = NoThread
    /\ readers = {}
    /\ writer' = t
    /\ Goto(t, "assign")
    /\ UNCHANGED <<readers, holder>>

(* holder_ = CurrentThread::tid().                                            *)
Assign(t, body) ==
    /\ pc[t] = "assign"
    /\ holder' = t
    /\ Goto(t, body)
    /\ UNCHANGED <<readers, writer>>

(* unlock(): holder_ = 0, whoever it names, and then the pthread unlock.      *)
UnassignForgotten(t) ==
    /\ pc[t] = "unassign"
    /\ Goto(t, "unlock")
    /\ UNCHANGED <<readers, writer, holder>>

Unassign(t) ==
    /\ pc[t] = "unassign"
    /\ holder' = NoThread
    /\ Goto(t, "unlock")
    /\ UNCHANGED <<readers, writer>>

Unlock(t) ==
    /\ pc[t] = "unlock"
    /\ readers' = readers \ {t}
    /\ writer' = IF writer = t THEN NoThread ELSE writer
    /\ Goto(t, "idle")
    /\ UNCHANGED holder

-----------------------------------------------------------------------------
ReadBody == {"front", "pop", "swap", "read"}
WriteBody == {"push", "clear"}
Holding == ReadBody \cup WriteBody \cup {"unassign"}
Locked == Holding \cup {"assign", "unlock"}
Labels == Locked \cup {"idle", "rdlock", "wrlock"}

LockTypeOK ==
    /\ readers \subseteq Threads
    /\ writer \in Threads \cup {NoThread}
    /\ holder \in Threads \cup {NoThread}
    /\ pc \in [Threads -> Labels]

(* IsLockedByThisThread has no false positive: holder_ only ever names a      *)
(* thread that has the lock and has not begun to unlock it.  In particular    *)
(* holder_ is 0 once every guard is gone, which the destructor asserts, even  *)
(* though readers overwrite the slot in any order.                            *)
HolderNotStale == holder # NoThread => pc[holder] \in Holding

(* A thread that changes the queue under the write lock is alone: nobody else *)
(* is inside a critical section, for reading or for writing.                  *)
WriterAlone ==
    \A t, u \in Threads :
        t # u /\ pc[t] \in WriteBody => pc[u] \notin Locked

=============================================================================
