---------------------------- MODULE BlockingQueue ----------------------------
(* BlockingQueue<T> (common/base/blocking_queue.h): an unbounded deque behind *)
(* a MutexLock and the condition notEmpty_.  Any number of threads call any   *)
(* of its operations; each call is cut at every point where another thread    *)
(* may run or where it depends on what an earlier step saw (the test of the   *)
(* while loop, the copy of front(), the pop_front()).                         *)
EXTENDS Monitor, Naturals, Sequences

CONSTANTS MayCall,    \* MayCall[t]: the operations thread t calls
          MaxItems,   \* bound: how many items are ever put
          MaxBatch    \* bound: the longest vector handed to putAll

Operations == {"put", "putAll", "take", "takeAll", "size", "clearAll"}

ASSUME MayCallAssumption == MayCall \in [Threads -> SUBSET Operations]
ASSUME BoundAssumption == MaxItems \in Nat /\ MaxBatch \in Nat \ {0}

VARIABLES queue,      \* queue_
          op,         \* the operation each thread is in
          arg,        \* what its put or putAll is to append
          front,      \* the local variable of take()
          made,       \* items handed to some put so far: item n is the n-th
          delivered   \* history: what take and takeAll returned, in order

queueVars == <<queue, op, arg, front, made, delivered>>
vars == <<monitorVars, queueVars>>

(* Items are told apart by the order in which their puts were called; 0 is    *)
(* no item.                                                                   *)
Items == 1..MaxItems
Batches == UNION {[1..n -> Items] : n \in 0..MaxBatch}

Init ==
    /\ MonitorInit
    /\ queue = <<>>
    /\ op = [t \in Threads |-> "size"]
    /\ arg = [t \in Threads |-> <<>>]
    /\ front = [t \in Threads |-> 0]
    /\ made = 0
    /\ delivered = <<>>

-----------------------------------------------------------------------------
(* The calls.  Each starts by constructing a MutexLockGuard.                  *)
Enter(t, name) ==
    /\ pc[t] = "idle"
    /\ name \in MayCall[t]
    /\ op' = [op EXCEPT ![t] = name]
    /\ Goto(t, "lock")
    /\ UNCHANGED <<owner, holder, queue, front, delivered>>

(* The caller of put brings one item, the caller of putAll a vector of any    *)
(* length, an empty one included.                                             *)
Bring(t, n) ==
    /\ made + n <= MaxItems
    /\ arg' = [arg EXCEPT ![t] = [i \in 1..n |-> made + i]]
    /\ made' = made + n

CallPut(t) == Enter(t, "put") /\ Bring(t, 1)

CallPutAll(t) == \E n \in 0..MaxBatch : Enter(t, "putAll") /\ Bring(t, n)

Call(t) ==
    \E name \in {"take", "takeAll", "size", "clearAll"} :
        Enter(t, name) /\ UNCHANGED <<arg, made>>

(* Where the body of each operation starts once the guard is constructed.     *)
BodyOf == [put |-> "push", putAll |-> "push", take |-> "test",
           takeAll |-> "test", clearAll |-> "clear", size |-> "read"]

StartBody(t) == Assign(t, BodyOf[op[t]]) /\ UNCHANGED queueVars

(* put: push_back; putAll: insert at end.  Both then Notify once.             *)
PushFront(t) ==
    /\ pc[t] = "push"
    /\ queue' = arg[t] \o queue
    /\ Goto(t, "notify")
    /\ UNCHANGED <<owner, holder, op, arg, front, made, delivered>>

PushNotifyFirst(t) ==
    /\ pc[t] = "push"
    /\ queue' = queue \o arg[t]
    /\ Goto(t, IF queue = <<>> THEN "notify" ELSE "unassign")
    /\ UNCHANGED <<owner, holder, op, arg, front, made, delivered>>

Push(t) ==
    /\ pc[t] = "push"
    /\ queue' = queue \o arg[t]
    /\ Goto(t, "notify")
    /\ UNCHANGED <<owner, holder, op, arg, front, made, delivered>>

(* take and takeAll: while (queue_.empty()) notEmpty_.Wait();                 *)
TestEmpty(t) ==
    /\ pc[t] = "test"
    /\ queue = <<>>
    /\ Goto(t, "yield")
    /\ UNCHANGED <<owner, holder, queueVars>>

TestNotEmpty(t) ==
    /\ pc[t] = "test"
    /\ queue # <<>>
    /\ Goto(t, IF op[t] = "take" THEN "front" ELSE "swap")
    /\ UNCHANGED <<owner, holder, queueVars>>

(* take: T front(queue_.front()); then queue_.pop_front(); return front.      *)
CopyNothing(t) ==
    /\ pc[t] = "front"
    /\ queue # <<>>
    /\ Goto(t, "pop")
    /\ UNCHANGED <<owner, holder, queueVars>>

CopyFront(t) ==
    /\ pc[t] = "front"
    /\ queue # <<>>
    /\ front' = [front EXCEPT ![t] = Head(queue)]
    /\ Goto(t, "pop")
    /\ UNCHANGED <<owner, holder, queue, op, arg, made, delivered>>

PopFront(t) ==
    /\ pc[t] = "pop"
    /\ queue # <<>>
    /\ queue' = Tail(queue)
    /\ delivered' = Append(delivered, front[t])
    /\ Goto(t, "unassign")
    /\ UNCHANGED <<owner, holder, op, arg, front, made>>

(* takeAll: swap with the caller's empty deque.                               *)
SwapKeepsItems(t) ==
    /\ pc[t] = "swap"
    /\ delivered' = delivered \o queue
    /\ Goto(t, "unassign")
    /\ UNCHANGED <<owner, holder, queue, op, arg, front, made>>

Swap(t) ==
    /\ pc[t] = "swap"
    /\ queue' = <<>>
    /\ delivered' = delivered \o queue
    /\ Goto(t, "unassign")
    /\ UNCHANGED <<owner, holder, op, arg, front, made>>

(* clearAll: swap with a local deque, whose items are destroyed.              *)
Clear(t) ==
    /\ pc[t] = "clear"
    /\ queue' = <<>>
    /\ Goto(t, "unassign")
    /\ UNCHANGED <<owner, holder, op, arg, front, made, delivered>>

(* size: reads under the lock.                                                *)
ReadSize(t) ==
    /\ pc[t] = "read"
    /\ Goto(t, "unassign")
    /\ UNCHANGED <<owner, holder, queueVars>>

-----------------------------------------------------------------------------
(* A thread that is inside an operation runs on; when it calls the next one   *)
(* is its own business, and so is a spurious wakeup the kernel's.             *)
MonitorStep(t) ==
    /\ \/ Acquire(t)
       \/ Unassign(t)
       \/ Release(t)
       \/ GiveUpHolder(t)
       \/ CondWait(t)
       \/ Reacquire(t)
       \/ Reassign(t)
       \/ Notify(t)
    /\ UNCHANGED queueVars

Run(t) ==
    \/ MonitorStep(t)
    \/ StartBody(t)
    \/ Push(t)
    \/ TestEmpty(t)
    \/ TestNotEmpty(t)
    \/ CopyFront(t)
    \/ PopFront(t)
    \/ Swap(t)
    \/ Clear(t)
    \/ ReadSize(t)

Wakeup(t) == SpuriousWakeup(t) /\ UNCHANGED queueVars

Step(t) ==
    \/ CallPut(t)
    \/ CallPutAll(t)
    \/ Call(t)
    \/ Run(t)
    \/ Wakeup(t)

Next == \E t \in Threads : Step(t)

Spec == Init /\ [][Next]_vars

(* A thread inside an operation is scheduled again and again.                 *)
FairSpec == Spec /\ \A t \in Threads : WF_vars(Run(t))

-----------------------------------------------------------------------------
(* Every variable of the queue and of its callers keeps its type; queue_ and  *)
(* what the takes returned are sequences of items.                            *)
TypeOK ==
    /\ MonitorTypeOK
    /\ queue \in Seq(Items)
    /\ op \in [Threads -> Operations]
    /\ arg \in [Threads -> Batches]
    /\ front \in [Threads -> Items \cup {0}]
    /\ made \in 0..MaxItems
    /\ delivered \in Seq(Items)

(* The asserts of take (line 47) and takeAll (line 61), and what take relies  *)
(* on after its assert: from the test of the while loop to pop_front or swap  *)
(* the queue stays non-empty, and the item take has copied is still the one   *)
(* pop_front removes.                                                         *)
TakeFindsItem ==
    \A t \in Threads :
        /\ pc[t] \in {"front", "pop", "swap"} => queue # <<>>
        /\ pc[t] = "pop" => front[t] = Head(queue)

(* Takers that have been woken or are past the wait: each of them will look   *)
(* at the queue before it can sleep again.                                    *)
Coming == {t \in Threads : /\ op[t] \in {"take", "takeAll"}
                           /\ pc[t] \in {"wake", "reassign", "test",
                                         "front", "pop", "swap"}}

(* No lost wakeup: nobody sleeps in take or takeAll over a non-empty queue    *)
(* unless someone who will empty it is on its way or a Notify is about to be  *)
(* sent.  "while (queue_.empty()) notEmpty_.Wait()" is meant to wait for an   *)
(* empty queue only.                                                          *)
NoSleepOverItems ==
    (Sleepers # {} /\ queue # <<>>) =>
        \/ Coming # {}
        \/ \E t \in Threads : pc[t] = "notify"

(* Where each item that was brought to a put can be.                          *)
Pending(t) == pc[t] \in {"lock", "assign", "push"} /\ op[t] \in {"put", "putAll"}

Occurrences(s, i) == Cardinality({k \in 1..Len(s) : s[k] = i})

(* No item is delivered twice, queued twice, or both queued and delivered,    *)
(* and none of those has yet to be pushed by the put that brings it.          *)
NoDuplicate ==
    \A i \in 1..made :
        Occurrences(queue \o delivered, i)
        + Cardinality({t \in Threads : Pending(t) /\ Occurrences(arg[t], i) > 0}) <= 1

(* The operations behave like single steps on an abstract FIFO queue.         *)
Fifo == INSTANCE FifoQueue
ImplementsFifo == Fifo!Spec

(* Something queued while a taker sleeps does not stay there with the taker   *)
(* asleep for ever.                                                           *)
SleeperServed == (Sleepers # {} /\ queue # <<>>) ~> (Sleepers = {} \/ queue = <<>>)

=============================================================================
