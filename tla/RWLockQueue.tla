----------------------------- MODULE RWLockQueue -----------------------------
(* RWLockQueue<T> (common/base/rwlock_queue.h): a deque behind an RWLock.     *)
(* put, putAll and clearAll hold the write lock; take, takeAll and size hold  *)
(* the read lock although take and takeAll change the deque; empty() takes    *)
(* no lock.  take does not wait: it asserts that there is an item, so its     *)
(* callers ask empty() first, as the callers modelled here do.                *)
EXTENDS RWLock, Naturals, Sequences

CONSTANTS MayCall,    \* MayCall[t]: the operations thread t calls
          MaxItems,   \* bound: how many items are ever put
          MaxBatch    \* bound: the longest vector handed to putAll

Operations == {"put", "putAll", "take", "takeAll", "size", "clearAll"}

ASSUME MayCallAssumption == MayCall \in [Threads -> SUBSET Operations]
ASSUME BoundAssumption == MaxItems \in Nat /\ MaxBatch \in Nat \ {0}

VARIABLES queue,      \* queue_
          op,         \* the operation each thread is in
          sees,       \* sees[t]: the thread's last empty() answered false
          arg,        \* what its put or putAll is to append
          front,      \* the local variable of take()
          overtaken,  \* history: who takes, and has not asked empty() since
                      \* another thread removed the last item
          made,       \* items handed to some put so far: item n is the n-th
          delivered   \* history: what take and takeAll returned, in order

queueVars == <<queue, op, sees, overtaken, arg, front, made, delivered>>
vars == <<lockVars, queueVars>>

Items == 1..MaxItems
Batches == UNION {[1..n -> Items] : n \in 0..MaxBatch}

Init ==
    /\ LockInit
    /\ queue = <<>>
    /\ op = [t \in Threads |-> "size"]
    /\ sees = [t \in Threads |-> FALSE]
    /\ overtaken = {}
    /\ arg = [t \in Threads |-> <<>>]
    /\ front = [t \in Threads |-> 0]
    /\ made = 0
    /\ delivered = <<>>

-----------------------------------------------------------------------------
(* empty(): an unlocked read.  It compares two pointers of the deque, and a   *)
(* racing push_back publishes the new end with one store, so the answer is    *)
(* the one before or the one after the push.                                  *)
PeekInverted(t) ==
    /\ pc[t] = "idle"
    /\ "take" \in MayCall[t]
    /\ sees' = [sees EXCEPT ![t] = (queue = <<>>)]
    /\ overtaken' = overtaken \ {t}
    /\ UNCHANGED <<lockVars, queue, op, arg, front, made, delivered>>

Peek(t) ==
    /\ pc[t] = "idle"
    /\ "take" \in MayCall[t]
    /\ sees' = [sees EXCEPT ![t] = (queue # <<>>)]
    /\ overtaken' = overtaken \ {t}
    /\ UNCHANGED <<lockVars, queue, op, arg, front, made, delivered>>

(* Which guard each operation constructs.                                     *)
PutUnderReadLock == [put |-> "rdlock", putAll |-> "rdlock", clearAll |-> "wrlock",
                     take |-> "rdlock", takeAll |-> "rdlock", size |-> "rdlock"]

Guard == [put |-> "wrlock", putAll |-> "wrlock", clearAll |-> "wrlock",
          take |-> "rdlock", takeAll |-> "rdlock", size |-> "rdlock"]

BodyOf == [put |-> "push", putAll |-> "push", clearAll |-> "clear",
           take |-> "front", takeAll |-> "swap", size |-> "read"]

Enter(t, name) ==
    /\ pc[t] = "idle"
    /\ name \in MayCall[t]
    /\ op' = [op EXCEPT ![t] = name]
    /\ sees' = [sees EXCEPT ![t] = FALSE]
    /\ Goto(t, Guard[name])
    /\ UNCHANGED <<readers, writer, holder, queue, overtaken, front, delivered>>

Bring(t, n) ==
    /\ made + n <= MaxItems
    /\ arg' = [arg EXCEPT ![t] = [i \in 1..n |-> made + i]]
    /\ made' = made + n

CallPut(t) == Enter(t, "put") /\ Bring(t, 1)

CallPutAll(t) == \E n \in 0..MaxBatch : Enter(t, "putAll") /\ Bring(t, n)

CallTake(t) == sees[t] /\ Enter(t, "take") /\ UNCHANGED <<arg, made>>

Call(t) ==
    \E name \in {"takeAll", "size", "clearAll"} :
        Enter(t, name) /\ UNCHANGED <<arg, made>>

StartBody(t) == Assign(t, BodyOf[op[t]]) /\ UNCHANGED queueVars

(* put: push_back; putAll: insert at end.                                     *)
PushFront(t) ==
    /\ pc[t] = "push"
    /\ queue' = arg[t] \o queue
    /\ Goto(t, "unassign")
    /\ UNCHANGED <<readers, writer, holder, op, sees, overtaken, arg, front, made, delivered>>

Push(t) ==
    /\ pc[t] = "push"
    /\ queue' = queue \o arg[t]
    /\ Goto(t, "unassign")
    /\ UNCHANGED <<readers, writer, holder, op, sees, overtaken, arg, front, made, delivered>>

(* Another thread empties the deque behind the back of every thread that may  *)
(* have asked empty().                                                        *)
Remove(t, rest) ==
    /\ queue' = rest
    /\ overtaken' = IF rest # <<>> THEN overtaken
                    ELSE overtaken \cup {u \in Threads \ {t} : "take" \in MayCall[u]}

(* take: assert(!queue_.empty()), copy front(), pop_front().  Where the       *)
(* assertion fails the process aborts: the thread goes no further.            *)
CopyNothing(t) ==
    /\ pc[t] = "front"
    /\ queue # <<>>
    /\ Goto(t, "pop")
    /\ UNCHANGED <<readers, writer, holder, queueVars>>

CopyFront(t) ==
    /\ pc[t] = "front"
    /\ queue # <<>>
    /\ front' = [front EXCEPT ![t] = Head(queue)]
    /\ Goto(t, "pop")
    /\ UNCHANGED <<readers, writer, holder, queue, op, sees, overtaken, arg, made, delivered>>

AssertFails(t) ==
    /\ pc[t] = "front"
    /\ queue = <<>>
    /\ UNCHANGED vars

PopFront(t) ==
    /\ pc[t] = "pop"
    /\ queue # <<>>
    /\ Remove(t, Tail(queue))
    /\ delivered' = Append(delivered, front[t])
    /\ Goto(t, "unassign")
    /\ UNCHANGED <<readers, writer, holder, op, sees, arg, front, made>>

(* takeAll: swap with the caller's empty deque; it does not wait for items.   *)
Swap(t) ==
    /\ pc[t] = "swap"
    /\ Remove(t, <<>>)
    /\ delivered' = delivered \o queue
    /\ Goto(t, "unassign")
    /\ UNCHANGED <<readers, writer, holder, op, sees, arg, front, made>>

Clear(t) ==
    /\ pc[t] = "clear"
    /\ Remove(t, <<>>)
    /\ Goto(t, "unassign")
    /\ UNCHANGED <<readers, writer, holder, op, sees, arg, front, made, delivered>>

ReadSize(t) ==
    /\ pc[t] = "read"
    /\ Goto(t, "unassign")
    /\ UNCHANGED <<readers, writer, holder, queueVars>>

-----------------------------------------------------------------------------
LockStep(t) ==
    /\ \/ ReadLock(t)
       \/ WriteLock(t)
       \/ Unassign(t)
       \/ Unlock(t)
    /\ UNCHANGED queueVars

Step(t) ==
    \/ Peek(t)
    \/ CallPut(t)
    \/ CallPutAll(t)
    \/ CallTake(t)
    \/ Call(t)
    \/ LockStep(t)
    \/ StartBody(t)
    \/ Push(t)
    \/ CopyFront(t)
    \/ PopFront(t)
    \/ Swap(t)
    \/ Clear(t)
    \/ ReadSize(t)

Next == \E t \in Threads : Step(t) \/ AssertFails(t)

Spec == Init /\ [][Next]_vars

-----------------------------------------------------------------------------
(* Every variable of the queue and of its callers keeps its type.             *)
TypeOK ==
    /\ LockTypeOK
    /\ queue \in Seq(Items)
    /\ op \in [Threads -> Operations]
    /\ sees \in [Threads -> BOOLEAN]
    /\ overtaken \subseteq Threads
    /\ arg \in [Threads -> Batches]
    /\ front \in [Threads -> Items \cup {0}]
    /\ made \in 0..MaxItems
    /\ delivered \in Seq(Items)

(* What empty() (line 59) answered without a lock is still true when take     *)
(* asserts it (line 38) under one, however many puts come in between: the     *)
(* assertion fails only for a caller whose last item another thread removed   *)
(* after the question.                                                        *)
TakeAssertHolds ==
    \A t \in Threads : pc[t] = "front" /\ t \notin overtaken => queue # <<>>

(* The assertion of take (line 38) still holds where it matters, at           *)
(* pop_front: the queue a take has found non-empty is not emptied by someone  *)
(* else while it holds the lock.                                              *)
PopFindsItem == \A t \in Threads : pc[t] = "pop" => queue # <<>>

(* The operations behave like single steps on an abstract FIFO queue.         *)
Fifo == INSTANCE FifoQueue
ImplementsFifo == Fifo!Spec

=============================================================================
