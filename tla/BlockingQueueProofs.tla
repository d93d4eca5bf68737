------------------------- MODULE BlockingQueueProofs -------------------------
(* Proofs about BlockingQueue for any number of threads, any assignment of    *)
(* operations to them and any bound on items and batches.                     *)
EXTENDS BlockingQueue, FiniteSetTheorems, TLAPS

(* A thread is between a successful pthread lock and the release of it        *)
(* exactly when it owns the mutex, and between assign_holder and              *)
(* unassign_holder exactly when holder_ names it.                             *)
OwnerInv == \A t \in Threads : pc[t] \in Inside <=> owner = t
HolderInv == \A t \in Threads : pc[t] \in Holding <=> holder = t

(* A thread is only in the code of the operation it called.                   *)
OpInv ==
    \A t \in Threads :
        /\ pc[t] # "idle" => op[t] \in MayCall[t]
        /\ pc[t] \in {"push", "notify"} => op[t] \in {"put", "putAll"}
        /\ pc[t] \in {"front", "pop"} => op[t] = "take"
        /\ pc[t] = "swap" => op[t] = "takeAll"
        /\ pc[t] \in {"test", "yield", "wait", "asleep", "wake", "reassign"}
              => op[t] \in {"take", "takeAll"}
        /\ pc[t] \in {"lock", "assign", "push"} /\ op[t] = "put" => Len(arg[t]) = 1

(* A thread that has decided to wait and has not yet released the mutex is    *)
(* right about the queue.                                                     *)
EmptyInv == \A t \in Threads : pc[t] \in {"yield", "wait"} => queue = <<>>

IInv == TypeOK /\ OwnerInv /\ HolderInv /\ OpInv /\ EmptyInv /\ TakeFindsItem

USE NoThreadAssumption, MayCallAssumption, BoundAssumption
-----------------------------------------------------------------------------
(* What a caller brings is a batch of items.                                  *)
LEMMA BringBatch ==
    ASSUME NEW m \in 0..MaxItems, NEW n \in 0..MaxBatch, m + n <= MaxItems
    PROVE  /\ [i \in 1..n |-> m + i] \in Batches
           /\ Len([i \in 1..n |-> m + i]) = n
<1>1. [i \in 1..n |-> m + i] \in [1..n -> Items]
  BY DEF Items
<1>2. QED
  BY <1>1 DEF Batches

(* A batch is a sequence of items.                                            *)
LEMMA BatchesAreSequences ==
    Batches \subseteq Seq(Items)
BY DEF Batches

(* Sequence facts the deque operations need.                                  *)
LEMMA TailType ==
    ASSUME NEW S, NEW s \in Seq(S), s # <<>>
    PROVE  Tail(s) \in Seq(S) /\ Head(s) \in S /\ Len(Tail(s)) = Len(s) - 1
OBVIOUS

(* Appending a batch to the deque keeps its type and adds up the lengths.     *)
LEMMA ConcatType ==
    ASSUME NEW S, NEW s \in Seq(S), NEW u \in Seq(S)
    PROVE  s \o u \in Seq(S) /\ Len(s \o u) = Len(s) + Len(u)
OBVIOUS

(* The queue starts with every variable in its type.                          *)
LEMMA TypeInit == Init => TypeOK
<1> SUFFICES ASSUME Init PROVE TypeOK
  OBVIOUS
<1>1. <<>> \in Batches
  <2>1. <<>> \in [1..0 -> Items]
    OBVIOUS
  <2>2. QED
    BY <2>1 DEF Batches
<1>2. QED
  BY <1>1 DEF Init, MonitorInit, TypeOK, MonitorTypeOK, Operations, Labels, Outside

(* No step of any thread breaks the types. pop_front needs TakeFindsItem:     *)
(* what take has copied is an item because it is the head of the deque.       *)
LEMMA TypeStep ==
    ASSUME TypeOK, TakeFindsItem, NEW t \in Threads, Step(t)
    PROVE  TypeOK'
<1> USE DEF TypeOK, MonitorTypeOK, Labels, Inside, Outside, Holding, Body, Goto
<1>1. CASE CallPut(t)
  <2>1. arg' \in [Threads -> Batches]
    <3>1. 1 \in 0..MaxBatch /\ made + 1 <= MaxItems
      BY <1>1 DEF CallPut, Bring
    <3>2. [i \in 1..1 |-> made + i] \in Batches
      BY <3>1, BringBatch
    <3>3. QED
      BY <1>1, <3>2 DEF CallPut, Bring
  <2>2. QED
    BY <1>1, <2>1 DEF CallPut, Bring, Enter, Operations
<1>2. CASE CallPutAll(t)
  <2>1. PICK n \in 0..MaxBatch : Enter(t, "putAll") /\ Bring(t, n)
    BY <1>2 DEF CallPutAll
  <2>2. arg' \in [Threads -> Batches]
    BY <2>1, BringBatch DEF Bring
  <2>3. QED
    BY <2>1, <2>2 DEF Bring, Enter, Operations
<1>3. CASE Call(t)
  BY <1>3 DEF Call, Enter, Operations
<1>4. CASE MonitorStep(t)
  BY <1>4 DEF MonitorStep, queueVars, Acquire, Unassign, Release, GiveUpHolder,
              CondWait, Reacquire, Reassign, Notify, Sleepers
<1>5. CASE StartBody(t)
  <2>1. BodyOf[op[t]] \in Body
    BY DEF BodyOf, Operations
  <2>2. QED
    BY <1>5, <2>1 DEF StartBody, queueVars, Assign
<1>6. CASE Push(t)
  BY <1>6, BatchesAreSequences DEF Push
<1>7. CASE TestEmpty(t) \/ TestNotEmpty(t) \/ ReadSize(t)
  BY <1>7 DEF TestEmpty, TestNotEmpty, ReadSize, queueVars
<1>8. CASE CopyFront(t)
  BY <1>8, TailType DEF CopyFront
<1>9. CASE PopFront(t)
  <2>1. front[t] \in Items /\ Tail(queue) \in Seq(Items)
    BY <1>9, TailType DEF TakeFindsItem, PopFront
  <2>2. QED
    BY <1>9, <2>1 DEF PopFront
<1>10. CASE Swap(t)
  <2>1. delivered' \in Seq(Items) /\ queue' \in Seq(Items)
    BY <1>10 DEF Swap
  <2>2. QED
    BY <1>10, <2>1 DEF Swap
<1>11. CASE Clear(t)
  BY <1>11 DEF Clear
<1>12. CASE Wakeup(t)
  BY <1>12 DEF Wakeup, SpuriousWakeup, queueVars
<1>13. QED
  BY <1>1, <1>2, <1>3, <1>4, <1>5, <1>6, <1>7, <1>8, <1>9, <1>10, <1>11,
     <1>12 DEF Step, Run

-----------------------------------------------------------------------------
(* Steps of the body of an operation, and calls, keep owner and holder_ as    *)
(* they are and do not leave or enter the critical section.                   *)
BodyStep(t) ==
    /\ UNCHANGED <<owner, holder>>
    /\ \E l \in Holding : pc[t] \in Holding /\ pc' = [pc EXCEPT ![t] = l]

(* Every step inside an operation's critical section is a BodyStep.           *)
LEMMA BodySteps ==
    ASSUME TypeOK, NEW t \in Threads,
           \/ Push(t) \/ TestEmpty(t) \/ TestNotEmpty(t) \/ CopyFront(t)
           \/ PopFront(t) \/ Swap(t) \/ Clear(t) \/ ReadSize(t)
    PROVE  BodyStep(t)
BY DEF BodyStep, Push, TestEmpty, TestNotEmpty, CopyFront, PopFront, Swap, Clear,
       ReadSize, Goto, Holding, Body, TypeOK, MonitorTypeOK

(* A call and a spurious wakeup happen outside the critical section and leave *)
(* the lock alone.                                                            *)
LEMMA OutsideSteps ==
    ASSUME TypeOK, NEW t \in Threads,
           \/ CallPut(t) \/ CallPutAll(t) \/ Call(t) \/ Wakeup(t)
    PROVE  /\ UNCHANGED <<owner, holder>>
           /\ \E l \in Outside : pc[t] \in Outside /\ pc' = [pc EXCEPT ![t] = l]
BY DEF CallPut, CallPutAll, Call, Enter, Wakeup, SpuriousWakeup, Goto, Outside

(* No step lets two threads own the mutex, or lets holder_ disagree with      *)
(* where the threads are.                                                     *)
LEMMA MutexStep ==
    ASSUME TypeOK, OwnerInv, HolderInv, NEW t \in Threads, Step(t)
    PROVE  OwnerInv' /\ HolderInv'
<1> USE DEF OwnerInv, HolderInv, Inside, Holding, Body
<1>0. pc \in [Threads -> Labels]
  BY DEF TypeOK, MonitorTypeOK
<1>1. CASE CallPut(t) \/ CallPutAll(t) \/ Call(t) \/ Wakeup(t)
  BY <1>0, <1>1, OutsideSteps DEF Outside
<1>2. CASE \/ Push(t) \/ TestEmpty(t) \/ TestNotEmpty(t) \/ CopyFront(t)
           \/ PopFront(t) \/ Swap(t) \/ Clear(t) \/ ReadSize(t)
  BY <1>0, <1>2, BodySteps DEF BodyStep
<1>3. CASE StartBody(t)
  <2>1. BodyOf[op[t]] \in Body
    BY DEF BodyOf, Operations, TypeOK
  <2>2. QED
    BY <1>0, <1>3, <2>1 DEF StartBody, Assign, Goto
<1>4. CASE MonitorStep(t)
  <2>1. CASE Acquire(t) \/ Reacquire(t)
    BY <1>0, <2>1 DEF Acquire, Reacquire, Goto
  <2>2. CASE Unassign(t) \/ GiveUpHolder(t)
    BY <1>0, <2>2 DEF Unassign, GiveUpHolder, Goto
  <2>3. CASE Release(t) \/ CondWait(t)
    BY <1>0, <2>3 DEF Release, CondWait, Goto
  <2>4. CASE Reassign(t)
    BY <1>0, <2>4 DEF Reassign, Goto
  <2>5. CASE Notify(t)
    BY <1>0, <2>5 DEF Notify, Sleepers, Goto
  <2>6. QED
    BY <1>4, <2>1, <2>2, <2>3, <2>4, <2>5 DEF MonitorStep
<1>5. QED
  BY <1>1, <1>2, <1>3, <1>4 DEF Step, Run

(* No step takes a thread into the code of an operation it did not call.      *)
LEMMA OpStep ==
    ASSUME TypeOK, OpInv, NEW t \in Threads, Step(t)
    PROVE  OpInv'
<1> USE DEF OpInv, TypeOK, MonitorTypeOK, Goto
<1>1. CASE CallPut(t)
  <2>1. Len(arg'[t]) = 1
    <3>1. 1 \in 0..MaxBatch /\ made + 1 <= MaxItems
      BY <1>1 DEF CallPut, Bring
    <3>2. Len([i \in 1..1 |-> made + i]) = 1
      BY <3>1, BringBatch
    <3>3. QED
      BY <1>1, <3>2 DEF CallPut, Bring
  <2>2. QED
    BY <1>1, <2>1 DEF CallPut, Bring, Enter
<1>2. CASE CallPutAll(t)
  BY <1>2 DEF CallPutAll, Bring, Enter
<1>3. CASE Call(t)
  BY <1>3 DEF Call, Enter
<1>4. CASE StartBody(t)
  BY <1>4 DEF StartBody, Assign, BodyOf, Operations, queueVars
<1>5. CASE \/ Push(t) \/ TestEmpty(t) \/ TestNotEmpty(t) \/ CopyFront(t)
           \/ PopFront(t) \/ Swap(t) \/ Clear(t) \/ ReadSize(t)
  BY <1>5 DEF Push, TestEmpty, TestNotEmpty, CopyFront, PopFront, Swap, Clear,
              ReadSize, queueVars, Operations
<1>6. CASE MonitorStep(t)
  BY <1>6 DEF MonitorStep, queueVars, Acquire, Unassign, Release, GiveUpHolder,
              CondWait, Reacquire, Reassign, Notify, Sleepers
<1>7. CASE Wakeup(t)
  BY <1>7 DEF Wakeup, SpuriousWakeup, queueVars
<1>8. QED
  BY <1>1, <1>2, <1>3, <1>4, <1>5, <1>6, <1>7 DEF Step, Run

(* Only the owner of the mutex touches queue_, and only one thread is the     *)
(* owner: what a thread has seen of the queue stays true until it releases.   *)
LEMMA QueueStep ==
    ASSUME TypeOK, OwnerInv, EmptyInv, TakeFindsItem, NEW t \in Threads, Step(t)
    PROVE  EmptyInv' /\ TakeFindsItem'
<1> USE DEF EmptyInv, TakeFindsItem, Goto
<1>0. /\ pc \in [Threads -> Labels]
      /\ front \in [Threads -> Items \cup {0}]
  BY DEF TypeOK, MonitorTypeOK
<1>1. CASE CallPut(t) \/ CallPutAll(t) \/ Call(t) \/ Wakeup(t)
  BY <1>0, <1>1 DEF CallPut, CallPutAll, Call, Enter, Wakeup, SpuriousWakeup, queueVars
<1>2. CASE StartBody(t)
  BY <1>0, <1>2 DEF StartBody, Assign, BodyOf, Operations, queueVars, TypeOK
<1>3. CASE MonitorStep(t)
  BY <1>0, <1>3 DEF MonitorStep, queueVars, Acquire, Unassign, Release, GiveUpHolder,
              CondWait, Reacquire, Reassign, Notify, Sleepers
<1>4. CASE TestEmpty(t) \/ TestNotEmpty(t) \/ ReadSize(t)
  BY <1>0, <1>4 DEF TestEmpty, TestNotEmpty, ReadSize, queueVars
<1>5. CASE CopyFront(t)
  BY <1>0, <1>5 DEF CopyFront
<1>6. CASE Push(t) \/ PopFront(t) \/ Swap(t) \/ Clear(t)
  <2>1. \A u \in Threads : u # t => pc[u] \notin Inside /\ pc'[u] = pc[u]
    BY <1>0, <1>6 DEF OwnerInv, Push, PopFront, Swap, Clear, Inside, Holding, Body
  <2>2. pc'[t] \in {"notify", "unassign"}
    BY <1>0, <1>6 DEF Push, PopFront, Swap, Clear
  <2>3. QED
    BY <2>1, <2>2 DEF Inside, Holding, Body
<1>7. QED
  BY <1>1, <1>2, <1>3, <1>4, <1>5, <1>6 DEF Step, Run

(* IInv holds in every reachable state of the queue.                          *)
LEMMA InductiveInvariant == Spec => []IInv
<1>1. Init => IInv
  <2> SUFFICES ASSUME Init PROVE IInv
    OBVIOUS
  <2>1. TypeOK
    BY TypeInit
  <2>2. QED
    BY <2>1 DEF Init, MonitorInit, IInv, OwnerInv, HolderInv, OpInv, EmptyInv,
                TakeFindsItem, Inside, Holding, Body
<1>2. IInv /\ [Next]_vars => IInv'
  <2> SUFFICES ASSUME IInv, [Next]_vars PROVE IInv'
    OBVIOUS
  <2>1. CASE Next
    <3>1. PICK t \in Threads : Step(t)
      BY <2>1 DEF Next
    <3>2. QED
      BY <3>1, TypeStep, MutexStep, OpStep, QueueStep DEF IInv
  <2>2. CASE UNCHANGED vars
    BY <2>2 DEF vars, monitorVars, queueVars, IInv, TypeOK, MonitorTypeOK, OwnerInv,
                HolderInv, OpInv, EmptyInv, TakeFindsItem
  <2>3. QED
    BY <2>1, <2>2
<1>3. QED
  BY <1>1, <1>2, PTL DEF Spec

-----------------------------------------------------------------------------
(* The types hold in every reachable state.                                   *)
THEOREM TypeCorrect == Spec => []TypeOK
<1>1. IInv => TypeOK
  BY DEF IInv
<1>2. QED
  BY <1>1, InductiveInvariant, PTL

(* holder_ and the pthread mutex never disagree, so IsLockedByThisThread and  *)
(* AssertLocked are right throughout every critical section.                  *)
THEOREM HolderCorrect == Spec => []HolderIsOwner
<1>1. IInv => HolderIsOwner
  BY DEF IInv, HolderIsOwner, OwnerInv, HolderInv, TypeOK, MonitorTypeOK, Inside
<1>2. QED
  BY <1>1, InductiveInvariant, PTL

(* take and takeAll find the item they waited for, however many spurious      *)
(* wakeups and competing takers there are.                                    *)
THEOREM TakeCorrect == Spec => []TakeFindsItem
<1>1. IInv => TakeFindsItem
  BY DEF IInv
<1>2. QED
  BY <1>1, InductiveInvariant, PTL

(* Every step is a step of the abstract FIFO queue or leaves it alone.        *)
THEOREM Refinement == Spec => ImplementsFifo
<1>1. Init => Fifo!Init
  BY DEF Init, Fifo!Init
<1>2. IInv /\ [Next]_vars => [Fifo!Next]_<<queue, delivered>>
  <2> SUFFICES ASSUME IInv, [Next]_vars,
                      ~ UNCHANGED <<queue, delivered>>
               PROVE  Fifo!Next
    OBVIOUS
  <2>1. PICK t \in Threads : Step(t)
    BY DEF Next, vars, queueVars
  <2>2. Push(t) \/ PopFront(t) \/ Swap(t) \/ Clear(t)
    BY <2>1 DEF Step, Run, CallPut, CallPutAll, Call, Enter, MonitorStep, StartBody,
                TestEmpty, TestNotEmpty, CopyFront, ReadSize, Wakeup, queueVars
  <2>3. CASE Push(t)
    <3>1. arg[t] \in Batches
      BY DEF IInv, TypeOK
    <3>2. QED
      BY <2>3, <3>1 DEF Push, Fifo!Next, Fifo!Put
  <2>4. CASE PopFront(t)
    BY <2>4 DEF PopFront, IInv, TakeFindsItem, Fifo!Next, Fifo!Take
  <2>5. CASE Swap(t) \/ Clear(t)
    BY <2>5 DEF Swap, Clear, Fifo!Next, Fifo!TakeAll, Fifo!Clear
  <2>6. QED
    BY <2>2, <2>3, <2>4, <2>5
<1>3. QED
  BY <1>1, <1>2, InductiveInvariant, PTL DEF Spec, ImplementsFifo, Fifo!Spec

-----------------------------------------------------------------------------
(* No lost wakeup.  Helpers are the threads that stand between a sleeper and  *)
(* a forgotten item: takers on their way to the queue, and a putter that is   *)
(* about to signal.  With put alone each queued item has a helper of its own; *)
(* with takeAll alone one helper is enough for all of them.                   *)
Helpers == Coming \cup {t \in Threads : pc[t] = "notify"}

CountInv == Sleepers # {} => Len(queue) <= Cardinality(Helpers)

OnlyPut == \A t \in Threads : "putAll" \notin MayCall[t]
OnlyTakeAll == \A t \in Threads : "take" \notin MayCall[t]

(* Helpers can be counted.                                                    *)
LEMMA HelpersFinite == IsFiniteSet(Helpers) /\ Cardinality(Helpers) \in Nat
<1>1. Helpers \subseteq Threads
  BY DEF Helpers, Coming
<1>2. QED
  BY <1>1, ThreadsAssumption, FS_Subset, FS_CardinalityType

(* A step that is not a push, pop, wait or signal neither loses a helper nor  *)
(* puts a thread to sleep.                                                    *)
QuietStep(t) ==
    /\ queue' = queue
    /\ Helpers \subseteq Helpers'
    /\ Sleepers' \subseteq Sleepers

(* All steps except push, pop, swap, clear, wait, the failed test and the     *)
(* signal are quiet.                                                          *)
LEMMA QuietSteps ==
    ASSUME TypeOK, OpInv, NEW t \in Threads,
           \/ CallPut(t) \/ CallPutAll(t) \/ Call(t) \/ Wakeup(t) \/ StartBody(t)
           \/ TestNotEmpty(t) \/ CopyFront(t) \/ ReadSize(t)
           \/ (Acquire(t) \/ Unassign(t) \/ Release(t) \/ GiveUpHolder(t)
               \/ Reacquire(t) \/ Reassign(t)) /\ UNCHANGED queueVars
    PROVE  QuietStep(t)
<1> USE DEF QuietStep, Helpers, Coming, Sleepers, Goto, TypeOK, MonitorTypeOK, OpInv
<1>1. CASE CallPut(t) \/ CallPutAll(t) \/ Call(t)
  BY <1>1 DEF CallPut, CallPutAll, Call, Enter
<1>2. CASE Wakeup(t)
  BY <1>2 DEF Wakeup, SpuriousWakeup, queueVars
<1>3. CASE StartBody(t)
  BY <1>3 DEF StartBody, Assign, BodyOf, Operations, queueVars
<1>4. CASE TestNotEmpty(t) \/ CopyFront(t) \/ ReadSize(t)
  BY <1>4 DEF TestNotEmpty, CopyFront, ReadSize, queueVars
<1>5. CASE /\ Acquire(t) \/ Unassign(t) \/ Release(t) \/ GiveUpHolder(t)
              \/ Reacquire(t) \/ Reassign(t)
           /\ UNCHANGED queueVars
  BY <1>5 DEF Acquire, Unassign, Release, GiveUpHolder, Reacquire, Reassign, queueVars
<1>6. QED
  BY <1>1, <1>2, <1>3, <1>4, <1>5

(* A signal hands the putter's role as helper to the sleeper it wakes, or     *)
(* leaves nobody asleep.                                                      *)
LEMMA NotifyStep ==
    ASSUME TypeOK, OpInv, NEW t \in Threads, Notify(t), UNCHANGED queueVars
    PROVE  \/ Sleepers' = {}
           \/ \E s \in Threads : /\ s \notin Helpers /\ t \in Helpers
                                 /\ Helpers' = (Helpers \ {t}) \cup {s}
<1>1. CASE Sleepers = {}
  BY <1>1 DEF Notify, Sleepers, Goto, TypeOK, MonitorTypeOK
<1>2. CASE Sleepers # {}
  <2>1. PICK s \in Sleepers : pc' = [pc EXCEPT ![t] = "unassign", ![s] = "wake"]
    BY <1>2 DEF Notify
  <2>2. s \in Threads /\ s # t /\ pc[s] = "asleep" /\ pc[t] = "notify"
    BY <2>1 DEF Sleepers, Notify
  <2>3. op[s] \in {"take", "takeAll"} /\ op' = op
    BY <2>2 DEF OpInv, queueVars
  <2>4. QED
    BY <2>1, <2>2, <2>3 DEF Helpers, Coming, TypeOK, MonitorTypeOK
<1>3. QED
  BY <1>1, <1>2

(* Where only put adds items, no step leaves more items queued than there are *)
(* helpers while somebody sleeps.                                             *)
LEMMA CountStep ==
    ASSUME OnlyPut, IInv, CountInv, NEW t \in Threads, Step(t)
    PROVE  CountInv'
<1> USE DEF CountInv, Goto
<1>0. /\ pc \in [Threads -> Labels] /\ queue \in Seq(Items)
      /\ IsFiniteSet(Helpers) /\ Cardinality(Helpers) \in Nat
      /\ IsFiniteSet(Helpers') /\ Cardinality(Helpers') \in Nat
      /\ TypeOK /\ OpInv /\ EmptyInv /\ TakeFindsItem
  <2>1. IsFiniteSet(Helpers') /\ Cardinality(Helpers') \in Nat
    <3>1. Helpers' \subseteq Threads
      BY DEF Helpers, Coming
    <3>2. QED
      BY <3>1, ThreadsAssumption, FS_Subset, FS_CardinalityType
  <2>2. QED
    BY <2>1, HelpersFinite DEF IInv, TypeOK, MonitorTypeOK
<1>1. CASE QuietStep(t)
  <2>1. Cardinality(Helpers) <= Cardinality(Helpers')
    BY <1>0, <1>1, FS_Subset DEF QuietStep
  <2>2. QED
    BY <1>0, <1>1, <2>1 DEF QuietStep
<1>2. CASE Push(t)
  <2>1. Len(arg[t]) = 1
    BY <1>0, <1>2 DEF Push, OpInv, OnlyPut
  <2>2. Len(queue') = Len(queue) + 1
    <3>1. arg[t] \in Seq(Items)
      BY <1>0, BatchesAreSequences DEF TypeOK
    <3>2. queue \in Seq(Items) /\ queue' = queue \o arg[t]
      BY <1>0, <1>2 DEF Push
    <3>3. Len(queue \o arg[t]) = Len(queue) + Len(arg[t])
      BY <3>1, <3>2, ConcatType
    <3>4. QED
      BY <2>1, <3>2, <3>3
  <2>3. t \notin Helpers /\ Helpers' = Helpers \cup {t} /\ Sleepers' = Sleepers
    BY <1>0, <1>2 DEF Push, Helpers, Coming, Sleepers
  <2>4. Cardinality(Helpers') = Cardinality(Helpers) + 1
    BY <1>0, <2>3, FS_AddElement
  <2>5. QED
    BY <1>0, <2>2, <2>3, <2>4
<1>3. CASE PopFront(t)
  <2>1. Len(queue') = Len(queue) - 1
    BY <1>0, <1>3, TailType DEF PopFront
  <2>2. t \in Helpers /\ Helpers' = Helpers \ {t} /\ Sleepers' = Sleepers
    BY <1>0, <1>3 DEF PopFront, Helpers, Coming, Sleepers, OpInv
  <2>3. Cardinality(Helpers') = Cardinality(Helpers) - 1
    BY <1>0, <2>2, FS_RemoveElement
  <2>4. QED
    BY <1>0, <2>1, <2>2, <2>3
<1>4. CASE Notify(t) /\ UNCHANGED queueVars
  <2>1. CASE Sleepers' = {}
    BY <2>1
  <2>2. ASSUME NEW s \in Threads, s \notin Helpers, t \in Helpers,
               Helpers' = (Helpers \ {t}) \cup {s}
        PROVE  CountInv'
    <3>1. /\ IsFiniteSet(Helpers \ {t})
          /\ Cardinality(Helpers \ {t}) = Cardinality(Helpers) - 1
      BY <1>0, <2>2, FS_RemoveElement
    <3>2. Cardinality((Helpers \ {t}) \cup {s}) = Cardinality(Helpers \ {t}) + 1
      BY <2>2, <3>1, FS_AddElement
    <3>3. Cardinality(Helpers') = Cardinality(Helpers)
      BY <1>0, <2>2, <3>1, <3>2
    <3>4. QED
      BY <1>0, <1>4, <3>3 DEF queueVars, Notify, Sleepers
  <2>3. QED
    BY <1>0, <1>4, <2>1, <2>2, NotifyStep
<1>5. CASE \/ Swap(t) \/ Clear(t) \/ TestEmpty(t)
           \/ CondWait(t) /\ UNCHANGED queueVars
  <2>1. queue' = <<>>
    BY <1>0, <1>5 DEF Swap, Clear, TestEmpty, CondWait, queueVars, EmptyInv
  <2>2. QED
    BY <1>0, <2>1
<1>6. QED
  BY <1>0, <1>1, <1>2, <1>3, <1>4, <1>5, QuietSteps DEF Step, Run, MonitorStep

(* Where takers take everything, no step leaves a sleeper and an item without *)
(* a helper.                                                                  *)
LEMMA SleepStep ==
    ASSUME OnlyTakeAll, IInv, NoSleepOverItems, NEW t \in Threads, Step(t)
    PROVE  NoSleepOverItems'
<1>0. /\ pc \in [Threads -> Labels]
      /\ TypeOK /\ OpInv /\ EmptyInv
      /\ NoSleepOverItems <=> (Sleepers # {} /\ queue # <<>> => Helpers # {})
  BY DEF IInv, TypeOK, MonitorTypeOK, NoSleepOverItems, Helpers
<1>1. SUFFICES ASSUME Sleepers' # {}, queue' # <<>>
               PROVE  Helpers' # {}
  BY DEF NoSleepOverItems, Helpers
<1>2. CASE QuietStep(t)
  BY <1>0, <1>1, <1>2 DEF QuietStep
<1>3. CASE Push(t)
  BY <1>0, <1>3 DEF Push, Goto, Helpers
<1>4. CASE PopFront(t)
  BY <1>0, <1>4 DEF PopFront, OpInv, OnlyTakeAll
<1>5. CASE Notify(t) /\ UNCHANGED queueVars
  BY <1>0, <1>1, <1>5, NotifyStep
<1>6. CASE \/ Swap(t) \/ Clear(t) \/ TestEmpty(t)
           \/ CondWait(t) /\ UNCHANGED queueVars
  BY <1>0, <1>1, <1>6 DEF Swap, Clear, TestEmpty, CondWait, queueVars, EmptyInv
<1>7. QED
  BY <1>0, <1>2, <1>3, <1>4, <1>5, <1>6, QuietSteps DEF Step, Run, MonitorStep

(* Nobody sleeps over a queued item if items are put one at a time, or if     *)
(* takers always take everything.  (With putAll and take together it is not   *)
(* so: the single Notify of putAll wakes one of two takers.)                  *)
THEOREM NoLostWakeup == (OnlyPut \/ OnlyTakeAll) /\ Spec => []NoSleepOverItems
<1>1. Init => CountInv /\ NoSleepOverItems
  BY DEF Init, MonitorInit, CountInv, NoSleepOverItems, Sleepers
<1>2. ASSUME OnlyPut PROVE IInv /\ CountInv /\ [Next]_vars => CountInv'
  <2>1. ASSUME IInv, CountInv, NEW t \in Threads, Step(t) PROVE CountInv'
    BY <1>2, <2>1, CountStep
  <2>2. CountInv /\ UNCHANGED vars => CountInv'
    BY DEF vars, monitorVars, queueVars, CountInv, Helpers, Coming, Sleepers
  <2>3. QED
    BY <2>1, <2>2 DEF Next
<1>3. ASSUME OnlyTakeAll
      PROVE  IInv /\ NoSleepOverItems /\ [Next]_vars => NoSleepOverItems'
  <2>1. ASSUME IInv, NoSleepOverItems, NEW t \in Threads, Step(t)
        PROVE  NoSleepOverItems'
    BY <1>3, <2>1, SleepStep
  <2>2. NoSleepOverItems /\ UNCHANGED vars => NoSleepOverItems'
    BY DEF vars, monitorVars, queueVars, NoSleepOverItems, Coming, Sleepers
  <2>3. QED
    BY <2>1, <2>2 DEF Next
<1>4. IInv /\ CountInv => NoSleepOverItems
  <2> SUFFICES ASSUME IInv, CountInv, Sleepers # {}, queue # <<>>
               PROVE  Helpers # {}
    BY DEF NoSleepOverItems, Helpers
  <2>1. Len(queue) \in Nat /\ Len(queue) > 0
    BY DEF IInv, TypeOK
  <2>2. Cardinality(Helpers) # 0
    BY <2>1 DEF CountInv
  <2>3. QED
    BY <2>2, FS_EmptySet
<1>5. CASE OnlyPut
  BY <1>1, <1>2, <1>4, <1>5, InductiveInvariant, PTL DEF Spec
<1>6. CASE OnlyTakeAll
  BY <1>1, <1>3, <1>6, InductiveInvariant, PTL DEF Spec
<1>7. QED
  BY <1>5, <1>6

-----------------------------------------------------------------------------
(* No duplicates.  The items in the deque, those delivered and those that     *)
(* each pending put brings are apart from one another, none occurs twice, and *)
(* all of them are among the items made so far, so that the next ones are new.*)
Members(s) == {s[i] : i \in 1..Len(s)}
Distinct(s) == \A i, j \in 1..Len(s) : s[i] = s[j] => i = j

PlaceInv ==
    /\ Distinct(queue) /\ Distinct(delivered)
    /\ Members(queue) \cap Members(delivered) = {}
    /\ \A i \in Members(queue) \cup Members(delivered) : i <= made

ArgInv ==
    \A t \in Threads : Pending(t) =>
        /\ Distinct(arg[t])
        /\ Members(arg[t]) \cap (Members(queue) \cup Members(delivered)) = {}
        /\ \A i \in Members(arg[t]) : i <= made
        /\ \A u \in Threads : Pending(u) /\ u # t => Members(arg[t]) \cap Members(arg[u]) = {}

LEMMA ConcatMembers ==
    ASSUME NEW S, NEW s \in Seq(S), NEW u \in Seq(S), Distinct(s), Distinct(u),
           Members(s) \cap Members(u) = {}
    PROVE  Distinct(s \o u) /\ Members(s \o u) = Members(s) \cup Members(u)
<1> DEFINE w == s \o u
<1>1. /\ Len(s) \in Nat /\ Len(u) \in Nat /\ Len(w) = Len(s) + Len(u)
      /\ \A i \in 1..Len(s) : w[i] = s[i]
      /\ \A i \in 1..Len(w) : i > Len(s) => w[i] = u[i - Len(s)]
  OBVIOUS
<1> HIDE DEF w
<1>2. \A i \in 1..Len(w) :
         \/ i \in 1..Len(s) /\ w[i] = s[i] /\ w[i] \in Members(s)
         \/ i > Len(s) /\ i - Len(s) \in 1..Len(u) /\ w[i] = u[i - Len(s)] /\ w[i] \in Members(u)
  BY <1>1 DEF Members
<1>3. Distinct(w)
  <2> SUFFICES ASSUME NEW i \in 1..Len(w), NEW j \in 1..Len(w), w[i] = w[j] PROVE i = j
    BY DEF Distinct
  <2>1. CASE i \in 1..Len(s) /\ j \in 1..Len(s)
    BY <1>1, <2>1 DEF Distinct
  <2>2. CASE i > Len(s) /\ j > Len(s)
    <3>1. i - Len(s) = j - Len(s)
      BY <1>1, <1>2, <2>2 DEF Distinct
    <3>2. QED  BY <1>1, <3>1
  <2>3. QED  BY <1>1, <1>2, <2>1, <2>2
<1>4. Members(w) = Members(s) \cup Members(u)
  <2>1. \A x \in Members(s) : x \in Members(w)
    BY <1>1 DEF Members
  <2>2. ASSUME NEW j \in 1..Len(u) PROVE u[j] \in Members(w)
    <3>1. Len(s) + j \in 1..Len(w) /\ w[Len(s) + j] = u[j]
      BY <1>1
    <3>2. QED  BY <3>1 DEF Members
  <2>3. \A x \in Members(w) : x \in Members(s) \cup Members(u)
    BY <1>2 DEF Members
  <2>4. QED  BY <2>1, <2>2, <2>3 DEF Members
<1>5. QED  BY <1>3, <1>4 DEF w

LEMMA TailMembers ==
    ASSUME NEW S, NEW s \in Seq(S), s # <<>>, Distinct(s)
    PROVE  /\ Distinct(Tail(s)) /\ Members(Tail(s)) = Members(s) \ {Head(s)}
           /\ Head(s) \in Members(s)
<1> DEFINE w == Tail(s)
<1>1. /\ Len(s) \in Nat /\ Len(s) >= 1 /\ Len(w) = Len(s) - 1 /\ Head(s) = s[1]
      /\ \A i \in 1..Len(w) : w[i] = s[i + 1]
  OBVIOUS
<1> HIDE DEF w
<1>2. Distinct(w)
  <2> SUFFICES ASSUME NEW i \in 1..Len(w), NEW j \in 1..Len(w), w[i] = w[j] PROVE i = j
    BY DEF Distinct
  <2>1. i + 1 \in 1..Len(s) /\ j + 1 \in 1..Len(s) /\ s[i + 1] = s[j + 1]
    BY <1>1
  <2>2. i + 1 = j + 1
    BY <2>1 DEF Distinct
  <2>3. QED  BY <1>1, <2>2
<1>3. Members(w) \subseteq Members(s) \ {Head(s)}
  <2> SUFFICES ASSUME NEW i \in 1..Len(w) PROVE w[i] \in Members(s) /\ w[i] # Head(s)
    BY DEF Members
  <2>1. i + 1 \in 1..Len(s) /\ 1 \in 1..Len(s) /\ i + 1 # 1 /\ w[i] = s[i + 1]
    BY <1>1
  <2>2. QED  BY <1>1, <2>1 DEF Members, Distinct
<1>4. Members(s) \ {Head(s)} \subseteq Members(w)
  <2> SUFFICES ASSUME NEW i \in 1..Len(s), s[i] # Head(s) PROVE s[i] \in Members(w)
    BY DEF Members
  <2>1. i - 1 \in 1..Len(w) /\ w[i - 1] = s[i]
    BY <1>1
  <2>2. QED  BY <2>1 DEF Members
<1>5. Head(s) \in Members(s)
  BY <1>1 DEF Members
<1>6. QED  BY <1>2, <1>3, <1>4, <1>5 DEF w

LEMMA AppendMembers ==
    ASSUME NEW S, NEW s \in Seq(S), NEW x \in S, Distinct(s), x \notin Members(s)
    PROVE  Distinct(Append(s, x)) /\ Members(Append(s, x)) = Members(s) \cup {x}
<1> DEFINE w == Append(s, x)
<1>1. /\ Len(s) \in Nat /\ Len(w) = Len(s) + 1 /\ w[Len(s) + 1] = x
      /\ \A i \in 1..Len(s) : w[i] = s[i]
  OBVIOUS
<1> HIDE DEF w
<1>2. \A i \in 1..Len(w) : (i \in 1..Len(s) /\ w[i] \in Members(s)) \/ i = Len(s) + 1
  BY <1>1 DEF Members
<1>3. Distinct(w)
  BY <1>1, <1>2 DEF Distinct
<1>4. Members(w) = Members(s) \cup {x}
  <2>1. \A i \in 1..Len(s) : s[i] \in Members(w)
    BY <1>1 DEF Members
  <2>2. x \in Members(w)
    BY <1>1 DEF Members
  <2>3. \A y \in Members(w) : y \in Members(s) \cup {x}
    BY <1>1, <1>2 DEF Members
  <2>4. QED  BY <2>1, <2>2, <2>3 DEF Members
<1>5. QED  BY <1>3, <1>4 DEF w

LEMMA NothingMembers == Distinct(<<>>) /\ Members(<<>>) = {}
<1>1. 1..Len(<<>>) = {}
  OBVIOUS
<1>2. QED  BY <1>1 DEF Distinct, Members

(* Items brought are new.                                                     *)
LEMMA BringNew ==
    ASSUME NEW m \in Nat, NEW n \in Nat
    PROVE  LET a == [i \in 1..n |-> m + i] IN
           Distinct(a) /\ \A x \in Members(a) : x > m /\ x <= m + n
<1> DEFINE a == [i \in 1..n |-> m + i]
<1>1. Len(a) = n /\ \A i \in 1..n : a[i] = m + i
  OBVIOUS
<1> HIDE DEF a
<1>2. Distinct(a)
  BY <1>1 DEF Distinct
<1>3. \A x \in Members(a) : x > m /\ x <= m + n
  BY <1>1 DEF Members
<1>4. QED  BY <1>2, <1>3 DEF a

(* No thread starts to bring items but by a call of put or putAll.            *)
LEMMA PendingStays ==
    ASSUME TypeOK, NEW t \in Threads, Call(t) \/ Run(t) \/ Wakeup(t),
           NEW u \in Threads, Pending(u)'
    PROVE  Pending(u) /\ UNCHANGED <<arg, made>> /\ (u = t => ~Push(t))
<1> USE DEF TypeOK, MonitorTypeOK, Pending, Goto
<1>1. CASE Call(t)
  BY <1>1 DEF Call, Enter
<1>2. CASE MonitorStep(t)
  BY <1>2 DEF MonitorStep, Acquire, Unassign, Release, GiveUpHolder, CondWait, Reacquire,
              Reassign, Notify, Sleepers, queueVars, Push
<1>3. CASE StartBody(t)
  BY <1>3 DEF StartBody, Assign, BodyOf, Operations, queueVars, Push
<1>4. CASE Push(t) \/ TestEmpty(t) \/ TestNotEmpty(t) \/ CopyFront(t)
  BY <1>4 DEF Push, TestEmpty, TestNotEmpty, CopyFront, queueVars
<1>5. CASE PopFront(t) \/ Swap(t) \/ Clear(t) \/ ReadSize(t)
  BY <1>5 DEF PopFront, Swap, Clear, ReadSize, queueVars, Push
<1>6. CASE Wakeup(t)
  BY <1>6 DEF Wakeup, SpuriousWakeup, queueVars, Push
<1>7. QED  BY <1>1, <1>2, <1>3, <1>4, <1>5, <1>6 DEF Run

LEMMA BringStep ==
    ASSUME TypeOK, PlaceInv, ArgInv, NEW t \in Threads, NEW n \in Nat, NEW name,
           Enter(t, name), Bring(t, n)
    PROVE  PlaceInv' /\ ArgInv'
<1>1. made \in Nat /\ made' = made + n /\ UNCHANGED <<queue, delivered>>
  BY DEF TypeOK, Bring, Enter
<1>2. \A s : Members(s) \subseteq Items => \A i \in Members(s) : i \in Nat
  BY DEF Items
<1>3. Members(queue) \subseteq Items /\ Members(delivered) \subseteq Items
  BY DEF TypeOK, Members
<1>4. PlaceInv'
  BY <1>1, <1>2, <1>3 DEF PlaceInv
<1>5. PICK a : a = [i \in 1..n |-> made + i]
  OBVIOUS
<1>6. Distinct(a) /\ \A x \in Members(a) : x > made /\ x <= made'
  BY <1>1, <1>5, BringNew
<1>7. /\ arg' = [arg EXCEPT ![t] = a] /\ arg'[t] = a
      /\ \A u \in Threads : u # t => arg'[u] = arg[u] /\ (Pending(u)' <=> Pending(u))
  BY <1>5 DEF TypeOK, MonitorTypeOK, Bring, Enter, Goto, Pending
<1>8. \A u \in Threads : Members(arg[u]) \subseteq Items
  BY BatchesAreSequences DEF TypeOK, Members
<1>9. ASSUME NEW s, Members(s) \subseteq Items, \A i \in Members(s) : i <= made
      PROVE  Members(a) \cap Members(s) = {}
  BY <1>1, <1>2, <1>6, <1>9 DEF Items
<1>10. Members(a) \cap (Members(queue) \cup Members(delivered)) = {}
  BY <1>3, <1>9 DEF PlaceInv
<1>11. \A u \in Threads : u # t /\ Pending(u) => Members(a) \cap Members(arg[u]) = {}
  BY <1>8, <1>9 DEF ArgInv
<1>12. ASSUME NEW u \in Threads, Pending(u)', u # t
       PROVE  /\ Distinct(arg'[u])
              /\ Members(arg'[u]) \cap (Members(queue') \cup Members(delivered')) = {}
              /\ \A i \in Members(arg'[u]) : i <= made'
              /\ \A v \in Threads : Pending(v)' /\ v # u => Members(arg'[u]) \cap Members(arg'[v]) = {}
  <2>1. Pending(u) /\ arg'[u] = arg[u]
    BY <1>7, <1>12
  <2>2. \A i \in Members(arg[u]) : i <= made'
    BY <1>1, <1>2, <1>8, <2>1 DEF ArgInv
  <2>3. ASSUME NEW v \in Threads, Pending(v)', v # u
        PROVE  Members(arg'[u]) \cap Members(arg'[v]) = {}
    BY <1>7, <1>11, <1>12, <2>1, <2>3 DEF ArgInv
  <2>4. QED  BY <1>1, <2>1, <2>2, <2>3 DEF ArgInv
<1>13. ASSUME NEW v \in Threads, Pending(v)', v # t
       PROVE  Members(arg'[t]) \cap Members(arg'[v]) = {}
  BY <1>7, <1>11, <1>13
<1>14. ArgInv'
  BY <1>1, <1>6, <1>7, <1>10, <1>12, <1>13 DEF ArgInv
<1>15. QED  BY <1>4, <1>14

LEMMA PlaceStep ==
    ASSUME IInv, PlaceInv, ArgInv, NEW t \in Threads, Step(t)
    PROVE  PlaceInv' /\ ArgInv'
<1>0. TypeOK /\ queue \in Seq(Items) /\ delivered \in Seq(Items) /\ arg[t] \in Seq(Items)
  BY BatchesAreSequences DEF IInv, TypeOK
<1>1. CASE CallPut(t) \/ CallPutAll(t)
  <2>1. PICK n \in Nat, name \in Operations : Enter(t, name) /\ Bring(t, n)
    BY <1>1 DEF CallPut, CallPutAll, Operations
  <2>2. QED  BY <1>0, <2>1, BringStep
<1>2. CASE Call(t) \/ Run(t) \/ Wakeup(t)
  <2>1. UNCHANGED <<arg, made>>
    BY <1>2 DEF Call, Run, MonitorStep, StartBody, Push, TestEmpty, TestNotEmpty, CopyFront,
                PopFront, Swap, Clear, ReadSize, Wakeup, queueVars
  <2>2. \A u \in Threads : Pending(u)' => Pending(u) /\ (u = t => ~Push(t))
    BY <1>0, <1>2, PendingStays
  <2>3. ASSUME ~Push(t),
               Members(queue') \cup Members(delivered') \subseteq Members(queue) \cup Members(delivered)
        PROVE  ArgInv'
    BY <2>1, <2>2, <2>3 DEF ArgInv
  <2>4. CASE UNCHANGED <<queue, delivered>> /\ ~Push(t)
    BY <2>1, <2>3, <2>4 DEF PlaceInv
  <2>5. CASE Push(t)
    <3>1. queue' = queue \o arg[t] /\ UNCHANGED delivered
      BY <2>5 DEF Push
    <3>2. Pending(t)
      BY <2>5 DEF Push, Pending, IInv, OpInv
    <3>3. Distinct(queue') /\ Members(queue') = Members(queue) \cup Members(arg[t])
      BY <1>0, <3>1, <3>2, ConcatMembers DEF PlaceInv, ArgInv
    <3>4. PlaceInv'
      BY <2>1, <3>1, <3>2, <3>3 DEF PlaceInv, ArgInv
    <3>5. ~Pending(t)'
      BY <2>2, <2>5
    <3>6. ArgInv'
      BY <2>1, <2>2, <3>1, <3>2, <3>3, <3>5 DEF ArgInv
    <3>7. QED  BY <3>4, <3>6
  <2>6. CASE PopFront(t)
    <3>1. queue # <<>> /\ queue' = Tail(queue) /\ delivered' = Append(delivered, Head(queue))
      BY <2>6 DEF PopFront, IInv, TakeFindsItem
    <3>2. /\ Distinct(queue') /\ Members(queue') = Members(queue) \ {Head(queue)}
          /\ Head(queue) \in Members(queue) /\ Head(queue) \in Items
      BY <1>0, <3>1, TailMembers, TailType DEF PlaceInv
    <3>3. Distinct(delivered') /\ Members(delivered') = Members(delivered) \cup {Head(queue)}
      <4>1. Head(queue) \notin Members(delivered)
        BY <3>2 DEF PlaceInv
      <4>2. QED  BY <1>0, <3>1, <3>2, <4>1, AppendMembers DEF PlaceInv
    <3>4. PlaceInv'
      BY <2>1, <3>2, <3>3 DEF PlaceInv
    <3>5. ~Push(t)
      BY <2>6 DEF PopFront, Push
    <3>6. QED  BY <2>3, <3>2, <3>3, <3>4, <3>5
  <2>7. CASE Swap(t)
    <3>1. queue' = <<>> /\ delivered' = delivered \o queue /\ ~Push(t)
      BY <2>7 DEF Swap, Push
    <3>2. Distinct(delivered') /\ Members(delivered') = Members(delivered) \cup Members(queue)
      BY <1>0, <3>1, ConcatMembers DEF PlaceInv
    <3>3. Distinct(queue') /\ Members(queue') = {}
      BY <3>1, NothingMembers
    <3>4. PlaceInv'
      BY <2>1, <3>2, <3>3 DEF PlaceInv
    <3>5. QED  BY <2>3, <3>1, <3>2, <3>3, <3>4
  <2>8. CASE Clear(t)
    <3>1. queue' = <<>> /\ UNCHANGED delivered /\ ~Push(t)
      BY <2>8 DEF Clear, Push
    <3>2. Distinct(queue') /\ Members(queue') = {}
      BY <3>1, NothingMembers
    <3>3. PlaceInv'
      BY <2>1, <3>1, <3>2 DEF PlaceInv
    <3>4. QED  BY <2>3, <3>1, <3>2, <3>3
  <2>9. QED
    BY <1>2, <2>4, <2>5, <2>6, <2>7, <2>8
       DEF Call, Enter, Run, MonitorStep, StartBody, TestEmpty, TestNotEmpty, CopyFront,
           ReadSize, Wakeup, queueVars
<1>3. QED  BY <1>1, <1>2 DEF Step

(* At most one of what is alike.                                              *)
LEMMA AtMostOne ==
    ASSUME NEW S, \A x, y \in S : x = y
    PROVE  /\ Cardinality(S) \in {0, 1}
           /\ Cardinality(S) = 0 <=> S = {}
<1>1. CASE S = {}
  BY <1>1, FS_EmptySet
<1>2. CASE S # {}
  <2>1. PICK x : S = {x}
    BY <1>2
  <2>2. Cardinality(S) = 1
    BY <2>1, FS_Singleton
  <2>3. QED  BY <1>2, <2>2
<1>3. QED  BY <1>1, <1>2

LEMMA DistinctOccurs ==
    ASSUME NEW s, NEW i, Distinct(s)
    PROVE  /\ Occurrences(s, i) \in {0, 1}
           /\ Occurrences(s, i) > 0 <=> i \in Members(s)
<1> DEFINE K == {k \in 1..Len(s) : s[k] = i}
<1>1. \A x, y \in K : x = y
  BY DEF Distinct
<1>2. K # {} <=> i \in Members(s)
  BY DEF Members
<1> HIDE DEF K
<1>3. Cardinality(K) \in {0, 1} /\ (Cardinality(K) > 0 <=> K # {})
  BY <1>1, AtMostOne
<1>4. QED  BY <1>2, <1>3 DEF K, Occurrences

(* No item brought to put or putAll is ever in two places: queued twice,      *)
(* returned twice, or queued or returned while the put that brings it has     *)
(* still to push it, whatever the threads, spurious wakeups and competing     *)
(* takers.                                                                    *)
THEOREM NothingTwice == Spec => []NoDuplicate
<1>1. Init => PlaceInv /\ ArgInv
  BY NothingMembers DEF Init, MonitorInit, PlaceInv, ArgInv, Pending
<1>2. IInv /\ PlaceInv /\ ArgInv /\ [Next]_vars => (PlaceInv /\ ArgInv)'
  <2> SUFFICES ASSUME IInv, PlaceInv, ArgInv, [Next]_vars PROVE (PlaceInv /\ ArgInv)'
    OBVIOUS
  <2>1. CASE UNCHANGED vars
    BY <2>1 DEF vars, monitorVars, queueVars, PlaceInv, ArgInv, Pending
  <2>2. QED  BY <2>1, PlaceStep DEF Next
<1>3. IInv /\ PlaceInv /\ ArgInv => NoDuplicate
  <2> SUFFICES ASSUME IInv, PlaceInv, ArgInv, NEW i \in 1..made
               PROVE  Occurrences(queue \o delivered, i)
                      + Cardinality({t \in Threads : Pending(t) /\ Occurrences(arg[t], i) > 0}) <= 1
    BY DEF NoDuplicate
  <2> DEFINE T == {t \in Threads : Pending(t) /\ Occurrences(arg[t], i) > 0}
  <2>1. /\ Distinct(queue \o delivered)
        /\ Members(queue \o delivered) = Members(queue) \cup Members(delivered)
    BY ConcatMembers DEF IInv, TypeOK, PlaceInv
  <2>2. /\ Occurrences(queue \o delivered, i) \in {0, 1}
        /\ Occurrences(queue \o delivered, i) > 0 <=> i \in Members(queue) \cup Members(delivered)
    BY <2>1, DistinctOccurs
  <2>3. \A t \in T : t \in Threads /\ Pending(t) /\ i \in Members(arg[t])
    BY DistinctOccurs DEF ArgInv
  <2>4. \A t, u \in T : t = u
    BY <2>3 DEF ArgInv
  <2>5. T # {} => i \notin Members(queue) \cup Members(delivered)
    BY <2>3 DEF ArgInv
  <2> HIDE DEF T
  <2>6. Cardinality(T) \in {0, 1} /\ (Cardinality(T) = 0 <=> T = {})
    BY <2>4, AtMostOne
  <2>7. Occurrences(queue \o delivered, i) + Cardinality(T) <= 1
    BY <2>2, <2>5, <2>6
  <2>8. QED  BY <2>7 DEF T
<1>4. QED  BY <1>1, <1>2, <1>3, InductiveInvariant, PTL DEF Spec

=============================================================================
