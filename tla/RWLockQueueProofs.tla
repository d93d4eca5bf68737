-------------------------- MODULE RWLockQueueProofs --------------------------
(* Proofs about RWLock and RWLockQueue for any number of threads, any         *)
(* assignment of operations to them and any bound on items and batches.       *)
EXTENDS RWLockQueue, TLAPS

(* The operations whose guard is a write lock.                                *)
Writes == {"put", "putAll", "clearAll"}

(* A thread is only in the code of the operation it called, behind the kind   *)
(* of lock that operation takes.                                              *)
OpInv ==
    \A t \in Threads :
        /\ pc[t] # "idle" => op[t] \in MayCall[t]
        /\ pc[t] = "rdlock" => op[t] \notin Writes
        /\ pc[t] = "wrlock" => op[t] \in Writes
        /\ pc[t] = "push" => op[t] \in {"put", "putAll"}
        /\ pc[t] = "clear" => op[t] = "clearAll"
        /\ pc[t] \in {"front", "pop"} => op[t] = "take"
        /\ pc[t] = "swap" => op[t] = "takeAll"
        /\ pc[t] = "read" => op[t] = "size"

(* The pthread lock knows exactly the threads that are between lock and       *)
(* unlock, and a writer excludes readers.                                     *)
LockInv ==
    /\ \A t \in Threads :
          /\ writer = t <=> pc[t] \in Locked /\ op[t] \in Writes
          /\ t \in readers <=> pc[t] \in Locked /\ op[t] \notin Writes
    /\ writer # NoThread => readers = {}

(* What take returns has been copied from the deque.                          *)
FrontInv == \A t \in Threads : pc[t] = "pop" => front[t] \in Items

IInv == TypeOK /\ OpInv /\ LockInv /\ HolderNotStale /\ FrontInv

USE NoThreadAssumption, MayCallAssumption, BoundAssumption
-----------------------------------------------------------------------------
(* What a caller brings is a batch of items, and a batch is a sequence.       *)
LEMMA BringBatch ==
    ASSUME NEW m \in 0..MaxItems, NEW n \in 0..MaxBatch, m + n <= MaxItems
    PROVE  [i \in 1..n |-> m + i] \in Batches
<1>1. [i \in 1..n |-> m + i] \in [1..n -> Items]
  BY DEF Items
<1>2. QED  BY <1>1 DEF Batches

LEMMA BatchesAreSequences == Batches \subseteq Seq(Items)
BY DEF Batches

LEMMA TailType ==
    ASSUME NEW S, NEW s \in Seq(S), s # <<>>
    PROVE  Tail(s) \in Seq(S) /\ Head(s) \in S
OBVIOUS

(* Appending keeps the oldest item where it is.                               *)
LEMMA HeadStays ==
    ASSUME NEW S, NEW s \in Seq(S), NEW u \in Seq(S), s # <<>>
    PROVE  s \o u # <<>> /\ Head(s \o u) = Head(s)
<1>1. Len(s) \in Nat /\ Len(s) > 0 /\ Len(s \o u) = Len(s) + Len(u) /\ Len(u) \in Nat
  OBVIOUS
<1>2. (s \o u)[1] = s[1] /\ s \o u \in Seq(S)
  BY <1>1
<1>3. QED  BY <1>1, <1>2

(* What the steps of a thread have in common: it moves, the others stay.      *)
(* An operation's body is entered by the assignment of holder_ and left for   *)
(* the clearing of it.                                                        *)
CallStep(t) == CallPut(t) \/ CallPutAll(t) \/ CallTake(t) \/ Call(t)
BodyStep(t) == Push(t) \/ CopyFront(t) \/ PopFront(t) \/ Swap(t) \/ Clear(t) \/ ReadSize(t)

LEMMA CallFacts ==
    ASSUME TypeOK, NEW t \in Threads, CallStep(t)
    PROVE  \E name \in MayCall[t] :
              /\ pc[t] = "idle"
              /\ op' = [op EXCEPT ![t] = name]
              /\ pc' = [pc EXCEPT ![t] = IF name \in Writes THEN "wrlock" ELSE "rdlock"]
              /\ sees' = [sees EXCEPT ![t] = FALSE]
              /\ name = "take" => sees[t]
              /\ UNCHANGED <<readers, writer, holder, queue, overtaken, front, delivered>>
<1>1. PICK name \in Operations : /\ Enter(t, name)
                                 /\ name = "take" => sees[t]
  BY DEF CallStep, CallPut, CallPutAll, CallTake, Call, Operations
<1>2. Guard[name] = IF name \in Writes THEN "wrlock" ELSE "rdlock"
  BY DEF Guard, Writes, Operations
<1>3. QED  BY <1>1, <1>2 DEF Enter, Goto

LEMMA BodyFacts ==
    ASSUME TypeOK, NEW t \in Threads, BodyStep(t)
    PROVE  /\ pc[t] \in ReadBody \cup WriteBody
           /\ pc' = [pc EXCEPT ![t] = IF CopyFront(t) THEN "pop" ELSE "unassign"]
           /\ UNCHANGED <<readers, writer, holder, op, sees, arg, made>>
           /\ overtaken' \subseteq overtaken \cup Threads
BY DEF BodyStep, Push, CopyFront, PopFront, Swap, Clear, ReadSize, Remove, Goto, queueVars,
       ReadBody, WriteBody

LEMMA StartFacts ==
    ASSUME TypeOK, OpInv, NEW t \in Threads, StartBody(t)
    PROVE  \E body \in {"push", "clear", "front", "swap", "read"} :
              /\ pc[t] = "assign"
              /\ pc' = [pc EXCEPT ![t] = body]
              /\ holder' = t
              /\ body = "push" <=> op[t] \in {"put", "putAll"}
              /\ body = "clear" <=> op[t] = "clearAll"
              /\ body = "front" <=> op[t] = "take"
              /\ body = "swap" <=> op[t] = "takeAll"
              /\ body = "read" <=> op[t] = "size"
              /\ UNCHANGED <<readers, writer, queueVars>>
<1> DEFINE body == BodyOf[op[t]]
<1>1. op[t] \in Operations
  BY DEF TypeOK
<1>2. /\ body \in {"push", "clear", "front", "swap", "read"}
      /\ body = "push" <=> op[t] \in {"put", "putAll"}
      /\ body = "clear" <=> op[t] = "clearAll"
      /\ body = "front" <=> op[t] = "take"
      /\ body = "swap" <=> op[t] = "takeAll"
      /\ body = "read" <=> op[t] = "size"
  BY <1>1 DEF BodyOf, Operations
<1>3. /\ pc[t] = "assign" /\ pc' = [pc EXCEPT ![t] = body] /\ holder' = t
      /\ UNCHANGED <<readers, writer, queueVars>>
  BY DEF StartBody, Assign, Goto
<1> HIDE DEF body
<1>4. QED  BY <1>2, <1>3

-----------------------------------------------------------------------------
(* Every variable starts in its type and no step takes it out.                *)
LEMMA InitInv == Init => IInv
<1> SUFFICES ASSUME Init PROVE IInv
  OBVIOUS
<1>1. <<>> \in Batches
  <2>1. <<>> \in [1..0 -> Items]
    OBVIOUS
  <2>2. QED  BY <2>1 DEF Batches
<1>2. TypeOK
  BY <1>1 DEF Init, LockInit, TypeOK, LockTypeOK, Operations, Labels
<1>3. \A t \in Threads : pc[t] = "idle"
  BY DEF Init, LockInit
<1>4. OpInv /\ LockInv /\ HolderNotStale /\ FrontInv
  BY <1>3 DEF Init, LockInit, OpInv, LockInv, HolderNotStale, FrontInv, Locked, Holding,
              ReadBody, WriteBody
<1>5. QED  BY <1>2, <1>4 DEF IInv

LEMMA TypeStep ==
    ASSUME IInv, NEW t \in Threads, Step(t)
    PROVE  TypeOK'
<1>0. TypeOK /\ OpInv /\ FrontInv
  BY DEF IInv
<1> USE DEF Labels, Locked, Holding, ReadBody, WriteBody
<1>1. CASE CallStep(t)
  <2>1. arg' \in [Threads -> Batches] /\ made' \in 0..MaxItems
    <3>1. ASSUME NEW n \in 0..MaxBatch, Bring(t, n)
          PROVE  arg' \in [Threads -> Batches] /\ made' \in 0..MaxItems
      <4>1. made + n <= MaxItems /\ made \in 0..MaxItems
        BY <1>0, <3>1 DEF Bring, TypeOK
      <4>2. [i \in 1..n |-> made + i] \in Batches
        BY <4>1, BringBatch
      <4>3. QED  BY <1>0, <3>1, <4>1, <4>2 DEF Bring, TypeOK
    <3>2. 1 \in 0..MaxBatch
      OBVIOUS
    <3>3. QED
      BY <1>0, <1>1, <3>1, <3>2 DEF CallStep, CallPut, CallPutAll, CallTake, Call, TypeOK
  <2>2. PICK name \in MayCall[t] :
              /\ op' = [op EXCEPT ![t] = name]
              /\ pc' = [pc EXCEPT ![t] = IF name \in Writes THEN "wrlock" ELSE "rdlock"]
              /\ sees' = [sees EXCEPT ![t] = FALSE]
              /\ UNCHANGED <<readers, writer, holder, queue, overtaken, front, delivered>>
    BY <1>0, <1>1, CallFacts
  <2>3. name \in Operations
    OBVIOUS
  <2>4. QED
    BY <1>0, <2>1, <2>2, <2>3 DEF TypeOK, LockTypeOK
<1>2. CASE Peek(t)
  BY <1>0, <1>2 DEF Peek, TypeOK, LockTypeOK, lockVars
<1>3. CASE LockStep(t)
  BY <1>0, <1>3 DEF LockStep, ReadLock, WriteLock, Unassign, Unlock, Goto, queueVars,
                    TypeOK, LockTypeOK
<1>4. CASE StartBody(t)
  BY <1>0, <1>4, StartFacts DEF queueVars, TypeOK, LockTypeOK
<1>5. CASE BodyStep(t)
  <2>1. LockTypeOK'
    BY <1>0, <1>5, BodyFacts DEF TypeOK, LockTypeOK
  <2>2. CASE Push(t) \/ Clear(t) \/ ReadSize(t)
    <3>1. arg[t] \in Seq(Items) /\ queue \in Seq(Items)
      BY <1>0, BatchesAreSequences DEF TypeOK
    <3>2. queue \o arg[t] \in Seq(Items) /\ <<>> \in Seq(Items)
      BY <3>1
    <3>3. queue' \in {queue \o arg[t], <<>>, queue} /\ UNCHANGED <<front, delivered>>
      BY <2>2 DEF Push, Clear, ReadSize, Remove, queueVars
    <3>4. QED  BY <1>0, <1>5, <2>1, <3>1, <3>2, <3>3, BodyFacts DEF TypeOK
  <2>3. CASE CopyFront(t) \/ PopFront(t)
    <3>1. queue \in Seq(Items) /\ queue # <<>> /\ delivered \in Seq(Items)
      BY <1>0, <2>3 DEF CopyFront, PopFront, TypeOK
    <3>2. Tail(queue) \in Seq(Items) /\ Head(queue) \in Items
      BY <3>1, TailType
    <3>3. queue' \in Seq(Items) /\ front' \in [Threads -> Items \cup {0}]
      BY <1>0, <2>3, <3>1, <3>2 DEF CopyFront, PopFront, Remove, TypeOK
    <3>4. delivered' \in Seq(Items)
      <4>1. PopFront(t) => front[t] \in Items
        BY <1>0 DEF PopFront, FrontInv
      <4>2. front[t] \in Items => Append(delivered, front[t]) \in Seq(Items)
        BY <3>1
      <4>3. QED  BY <2>3, <3>1, <4>1, <4>2 DEF CopyFront, PopFront
    <3>5. QED  BY <1>0, <1>5, <2>1, <3>3, <3>4, BodyFacts DEF TypeOK
  <2>4. CASE Swap(t)
    <3>1. queue' = <<>> /\ delivered' = delivered \o queue /\ UNCHANGED front
      BY <2>4 DEF Swap, Remove
    <3>2. delivered' \in Seq(Items) /\ queue' \in Seq(Items)
      BY <1>0, <3>1 DEF TypeOK
    <3>3. QED  BY <1>0, <1>5, <2>1, <3>1, <3>2, BodyFacts DEF TypeOK
  <2>5. QED  BY <1>5, <2>2, <2>3, <2>4 DEF BodyStep
<1>6. QED
  BY <1>1, <1>2, <1>3, <1>4, <1>5 DEF Step, CallStep, BodyStep

(* The lock admits a writer alone or any number of readers, and holder_ names *)
(* nobody who has begun to unlock.                                            *)
LEMMA LockSteps ==
    ASSUME IInv, NEW t \in Threads, Step(t)
    PROVE  OpInv' /\ LockInv' /\ HolderNotStale'
<1>0. /\ TypeOK /\ OpInv /\ LockInv /\ HolderNotStale
      /\ pc \in [Threads -> Labels] /\ op \in [Threads -> Operations]
      /\ writer \in Threads \cup {NoThread} /\ holder \in Threads \cup {NoThread}
  BY DEF IInv, TypeOK, LockTypeOK
<1> USE DEF Labels, Locked, Holding, ReadBody, WriteBody
<1>1. CASE CallStep(t)
  <2>1. PICK name \in MayCall[t] :
              /\ pc[t] = "idle"
              /\ op' = [op EXCEPT ![t] = name]
              /\ pc' = [pc EXCEPT ![t] = IF name \in Writes THEN "wrlock" ELSE "rdlock"]
              /\ UNCHANGED <<readers, writer, holder, queue, overtaken, front, delivered>>
    BY <1>0, <1>1, CallFacts
  <2>2. OpInv'
    BY <1>0, <2>1 DEF OpInv, Writes
  <2>3. LockInv'
    BY <1>0, <2>1 DEF LockInv, Writes
  <2>4. HolderNotStale'
    BY <1>0, <2>1 DEF HolderNotStale
  <2>5. QED  BY <2>2, <2>3, <2>4
<1>2. CASE Peek(t)
  BY <1>0, <1>2 DEF Peek, lockVars, OpInv, LockInv, HolderNotStale
<1>3. CASE LockStep(t)
  <2>1. OpInv'
    BY <1>0, <1>3 DEF LockStep, ReadLock, WriteLock, Unassign, Unlock, Goto, queueVars, OpInv
  <2>2. LockInv'
    BY <1>0, <1>3 DEF LockStep, ReadLock, WriteLock, Unassign, Unlock, Goto, queueVars,
                      OpInv, LockInv
  <2>3. HolderNotStale'
    BY <1>0, <1>3 DEF LockStep, ReadLock, WriteLock, Unassign, Unlock, Goto, HolderNotStale
  <2>4. QED  BY <2>1, <2>2, <2>3
<1>4. CASE StartBody(t)
  <2>1. OpInv'
    BY <1>0, <1>4, StartFacts DEF OpInv, queueVars
  <2>2. LockInv' /\ HolderNotStale'
    BY <1>0, <1>4, StartFacts DEF LockInv, HolderNotStale, queueVars
  <2>3. QED  BY <2>1, <2>2
<1>5. CASE BodyStep(t)
  <2>1. OpInv'
    BY <1>0, <1>5, BodyFacts DEF OpInv, CopyFront
  <2>2. LockInv' /\ HolderNotStale'
    BY <1>0, <1>5, BodyFacts DEF LockInv, HolderNotStale
  <2>3. QED  BY <2>1, <2>2
<1>6. QED
  BY <1>1, <1>2, <1>3, <1>4, <1>5 DEF Step, CallStep, BodyStep

LEMMA FrontStep ==
    ASSUME IInv, NEW t \in Threads, Step(t)
    PROVE  FrontInv'
<1>0. /\ TypeOK /\ OpInv /\ FrontInv /\ pc \in [Threads -> Labels]
      /\ front \in [Threads -> Items \cup {0}] /\ queue \in Seq(Items)
  BY DEF IInv, TypeOK, LockTypeOK
<1>1. CASE CallStep(t)
  BY <1>0, <1>1, CallFacts DEF FrontInv
<1>2. CASE Peek(t) \/ LockStep(t)
  BY <1>0, <1>2 DEF Peek, lockVars, LockStep, ReadLock, WriteLock, Unassign, Unlock, Goto,
                    queueVars, FrontInv
<1>3. CASE StartBody(t)
  BY <1>0, <1>3, StartFacts DEF FrontInv, queueVars
<1>4. CASE BodyStep(t)
  BY <1>0, <1>4, TailType DEF FrontInv, BodyStep, Push, CopyFront, PopFront, Swap, Clear,
                    ReadSize, Remove, queueVars, Goto
<1>5. QED
  BY <1>1, <1>2, <1>3, <1>4 DEF Step, CallStep, BodyStep

LEMMA InductiveInvariant == Spec => []IInv
<1>1. IInv /\ [Next]_vars => IInv'
  <2> SUFFICES ASSUME IInv, [Next]_vars PROVE IInv'
    OBVIOUS
  <2>1. CASE \E t \in Threads : Step(t)
    BY <2>1, TypeStep, LockSteps, FrontStep DEF IInv
  <2>2. CASE UNCHANGED vars
    BY <2>2 DEF vars, lockVars, queueVars, IInv, TypeOK, LockTypeOK, OpInv, LockInv,
                HolderNotStale, FrontInv
  <2>3. QED  BY <2>1, <2>2 DEF Next, AssertFails
<1>2. QED  BY <1>1, InitInv, PTL DEF Spec

-----------------------------------------------------------------------------
(* The types hold in every reachable state.                                   *)
THEOREM RWTypes == Spec => []TypeOK
<1>1. IInv => TypeOK
  BY DEF IInv
<1>2. QED  BY <1>1, InductiveInvariant, PTL

(* Whoever changes the deque under the write lock is alone in the lock.       *)
THEOREM WriterExcludes == Spec => []WriterAlone
<1>1. IInv => WriterAlone
  BY DEF IInv, WriterAlone, LockInv, OpInv, TypeOK, LockTypeOK, Locked, Holding, Writes,
         ReadBody, WriteBody
<1>2. QED  BY <1>1, InductiveInvariant, PTL

(* holder_ never names a thread that has no lock or has begun to give it up,  *)
(* however many readers overwrite each other in it.                           *)
THEOREM HolderFresh == Spec => []HolderNotStale
<1>1. IInv => HolderNotStale
  BY DEF IInv
<1>2. QED  BY <1>1, InductiveInvariant, PTL

-----------------------------------------------------------------------------
(* What the read lock of take does not give is exclusion between threads that *)
(* remove.  TakesAlone: whoever takes is the only one who takes; RemovesAlone *)
(* forbids the others clearAll too.                                           *)
TakesAlone ==
    \A t, u \in Threads :
        t # u /\ "take" \in MayCall[t] => MayCall[u] \cap {"take", "takeAll"} = {}

RemovesAlone ==
    \A t, u \in Threads :
        t # u /\ "take" \in MayCall[t]
            => MayCall[u] \cap {"take", "takeAll", "clearAll"} = {}

(* The item take has copied is still the one pop_front removes.               *)
HeadInv ==
    \A t \in Threads : pc[t] = "pop" => queue # <<>> /\ front[t] = Head(queue)

LEMMA HeadStep ==
    ASSUME TakesAlone, IInv, HeadInv, NEW t \in Threads, Step(t)
    PROVE  HeadInv'
<1>0. /\ TypeOK /\ OpInv /\ LockInv /\ pc \in [Threads -> Labels]
      /\ front \in [Threads -> Items \cup {0}] /\ queue \in Seq(Items)
      /\ arg[t] \in Seq(Items)
  BY BatchesAreSequences DEF IInv, TypeOK, LockTypeOK
<1>1. CASE CallStep(t)
  BY <1>0, <1>1, CallFacts DEF HeadInv
<1>2. CASE Peek(t) \/ LockStep(t)
  BY <1>0, <1>2 DEF Peek, lockVars, LockStep, ReadLock, WriteLock, Unassign, Unlock, Goto,
                    queueVars, HeadInv
<1>3. CASE StartBody(t)
  BY <1>0, <1>3, StartFacts DEF HeadInv, queueVars
<1>4. CASE CopyFront(t) \/ ReadSize(t)
  BY <1>0, <1>4 DEF CopyFront, ReadSize, queueVars, Goto, HeadInv
<1>5. CASE Push(t)
  <2>1. queue # <<>> => queue' # <<>> /\ Head(queue') = Head(queue)
    BY <1>0, <1>5, HeadStays DEF Push
  <2>2. QED  BY <1>0, <1>5, <2>1 DEF Push, Goto, HeadInv
<1>6. CASE Clear(t)
  <2>1. writer = t /\ readers = {}
    BY <1>0, <1>6 DEF Clear, OpInv, LockInv, Writes, Locked, Holding, WriteBody
  <2>2. \A u \in Threads : pc[u] # "pop"
    BY <1>0, <2>1 DEF OpInv, LockInv, Writes, Locked, Holding, ReadBody
  <2>3. QED  BY <1>0, <1>6, <2>2 DEF Clear, Remove, Goto, HeadInv
<1>7. CASE PopFront(t) \/ Swap(t)
  <2>1. op[t] \in {"take", "takeAll"} /\ op[t] \in MayCall[t]
    BY <1>0, <1>7 DEF PopFront, Swap, OpInv
  <2>2. \A u \in Threads : pc[u] = "pop" => u = t
    BY <1>0, <2>1 DEF OpInv, TakesAlone
  <2>3. QED  BY <1>0, <1>7, <2>2 DEF PopFront, Swap, Remove, Goto, HeadInv
<1>8. QED
  BY <1>1, <1>2, <1>3, <1>4, <1>5, <1>6, <1>7 DEF Step, CallStep

LEMMA HeadInvariant == TakesAlone /\ Spec => []HeadInv
<1> SUFFICES ASSUME TakesAlone PROVE Spec => []HeadInv
  OBVIOUS
<1>1. Init => HeadInv
  BY DEF Init, LockInit, HeadInv
<1>2. IInv /\ HeadInv /\ [Next]_vars => HeadInv'
  <2>1. ASSUME IInv, HeadInv, NEW t \in Threads, Step(t) PROVE HeadInv'
    BY <2>1, HeadStep
  <2>2. HeadInv /\ UNCHANGED vars => HeadInv'
    BY DEF vars, lockVars, queueVars, HeadInv
  <2>3. QED  BY <2>1, <2>2 DEF Next, AssertFails
<1>3. QED  BY <1>1, <1>2, InductiveInvariant, PTL DEF Spec

(* With a single taker the item take has asserted is there when pop_front     *)
(* removes it, although take holds the lock for reading only.                 *)
THEOREM PopIsSafe == TakesAlone /\ Spec => []PopFindsItem
<1>1. HeadInv => PopFindsItem
  BY DEF HeadInv, PopFindsItem
<1>2. QED  BY <1>1, HeadInvariant, PTL

(* With a single taker the queue behaves like the abstract FIFO queue, each   *)
(* call one step of it.                                                       *)
THEOREM RWRefinement == TakesAlone /\ Spec => ImplementsFifo
<1>1. Init => Fifo!Init
  BY DEF Init, Fifo!Init
<1>2. IInv /\ HeadInv /\ [Next]_vars => [Fifo!Next]_<<queue, delivered>>
  <2> SUFFICES ASSUME IInv, HeadInv, [Next]_vars, ~ UNCHANGED <<queue, delivered>>
               PROVE  Fifo!Next
    OBVIOUS
  <2>1. PICK t \in Threads : Step(t)
    BY DEF Next, AssertFails, vars, queueVars
  <2>2. Push(t) \/ PopFront(t) \/ Swap(t) \/ Clear(t)
    BY <2>1 DEF Step, Peek, CallPut, CallPutAll, CallTake, Call, Enter, LockStep, StartBody,
                CopyFront, ReadSize, queueVars
  <2>3. CASE Push(t)
    <3>1. arg[t] \in Batches
      BY DEF IInv, TypeOK
    <3>2. QED  BY <2>3, <3>1 DEF Push, Fifo!Next, Fifo!Put
  <2>4. CASE PopFront(t)
    BY <2>4 DEF PopFront, Remove, HeadInv, Fifo!Next, Fifo!Take
  <2>5. CASE Swap(t) \/ Clear(t)
    BY <2>5 DEF Swap, Clear, Remove, Fifo!Next, Fifo!TakeAll, Fifo!Clear
  <2>6. QED  BY <2>2, <2>3, <2>4, <2>5
<1>3. QED
  BY <1>1, <1>2, InductiveInvariant, HeadInvariant, PTL DEF Spec, ImplementsFifo, Fifo!Spec

-----------------------------------------------------------------------------
(* What a caller has seen of the queue without a lock is still true when its  *)
(* take arrives there, unless another thread has emptied the queue since.     *)
SeenInv ==
    \A t \in Threads :
        /\ sees[t] => pc[t] = "idle" /\ "take" \in MayCall[t]
        /\ sees[t] \/ (op[t] = "take" /\ pc[t] \in {"rdlock", "assign", "front"})
              => t \in overtaken \/ queue # <<>>

LEMMA SeenStep ==
    ASSUME IInv, SeenInv, NEW t \in Threads, Step(t)
    PROVE  SeenInv'
<1>0. /\ TypeOK /\ OpInv /\ pc \in [Threads -> Labels] /\ sees \in [Threads -> BOOLEAN]
      /\ op \in [Threads -> Operations] /\ queue \in Seq(Items) /\ arg[t] \in Seq(Items)
  BY BatchesAreSequences DEF IInv, TypeOK, LockTypeOK
<1>1. CASE CallStep(t)
  <2>1. PICK name \in MayCall[t] :
              /\ pc[t] = "idle"
              /\ op' = [op EXCEPT ![t] = name]
              /\ pc' = [pc EXCEPT ![t] = IF name \in Writes THEN "wrlock" ELSE "rdlock"]
              /\ sees' = [sees EXCEPT ![t] = FALSE]
              /\ name = "take" => sees[t]
              /\ UNCHANGED <<queue, overtaken>>
    BY <1>0, <1>1, CallFacts
  <2>2. QED  BY <1>0, <2>1 DEF SeenInv
<1>2. CASE Peek(t)
  BY <1>0, <1>2 DEF Peek, lockVars, SeenInv
<1>3. CASE LockStep(t)
  <2>1. /\ pc[t] # "idle" /\ UNCHANGED <<op, sees, queue, overtaken>>
        /\ \/ pc' = [pc EXCEPT ![t] = "assign"] /\ (pc[t] = "rdlock" \/ op[t] \in Writes)
           \/ \E l \in {"unlock", "idle"} : pc' = [pc EXCEPT ![t] = l]
    BY <1>0, <1>3 DEF LockStep, ReadLock, WriteLock, Unassign, Unlock, Goto, queueVars, OpInv
  <2>2. QED  BY <1>0, <2>1 DEF SeenInv, Writes
<1>4. CASE StartBody(t)
  BY <1>0, <1>4, StartFacts DEF SeenInv, queueVars
<1>5. CASE CopyFront(t) \/ ReadSize(t)
  <2>1. /\ pc[t] # "idle" /\ UNCHANGED <<op, sees, queue, overtaken>>
        /\ \E l \in {"pop", "unassign"} : pc' = [pc EXCEPT ![t] = l]
    BY <1>5 DEF CopyFront, ReadSize, queueVars, Goto
  <2>2. QED  BY <1>0, <2>1 DEF SeenInv
<1>6. CASE Push(t)
  <2>1. queue # <<>> => queue' # <<>>
    BY <1>0, <1>6, HeadStays DEF Push
  <2>2. QED  BY <1>0, <1>6, <2>1 DEF Push, Goto, SeenInv
<1>7. CASE PopFront(t) \/ Swap(t) \/ Clear(t)
  <2>1. /\ pc[t] # "idle" /\ pc' = [pc EXCEPT ![t] = "unassign"] /\ UNCHANGED <<op, sees>>
        /\ \E rest : Remove(t, rest)
    BY <1>0, <1>7 DEF PopFront, Swap, Clear, Goto
  <2>2. ASSUME NEW u \in Threads, u # t, "take" \in MayCall[u],
               u \in overtaken \/ queue # <<>>
        PROVE  (u \in overtaken \/ queue # <<>>)'
    BY <2>1, <2>2 DEF Remove
  <2>3. QED  BY <1>0, <2>1, <2>2 DEF OpInv, SeenInv
<1>8. QED
  BY <1>1, <1>2, <1>3, <1>4, <1>5, <1>6, <1>7 DEF Step, CallStep

LEMMA SeenInvariant == Spec => []SeenInv
<1>1. Init => SeenInv
  BY DEF Init, LockInit, SeenInv
<1>2. IInv /\ SeenInv /\ [Next]_vars => SeenInv'
  <2>1. ASSUME IInv, SeenInv, NEW t \in Threads, Step(t) PROVE SeenInv'
    BY <2>1, SeenStep
  <2>2. SeenInv /\ UNCHANGED vars => SeenInv'
    BY DEF vars, lockVars, queueVars, SeenInv
  <2>3. QED  BY <2>1, <2>2 DEF Next, AssertFails
<1>3. QED  BY <1>1, <1>2, InductiveInvariant, PTL DEF Spec

(* A take whose caller has seen a non-empty queue, without a lock, fails its  *)
(* assertion only if another thread removed the last item in between.         *)
THEOREM TakeIsSafe == Spec => []TakeAssertHolds
<1>1. IInv /\ SeenInv => TakeAssertHolds
  BY DEF IInv, OpInv, SeenInv, TakeAssertHolds
<1>2. QED  BY <1>1, InductiveInvariant, SeenInvariant, PTL

(* If no other thread takes or clears beside a thread that takes, no caller   *)
(* is ever overtaken and the assertion of take never fails.                   *)
THEOREM TakeNeverAborts ==
    RemovesAlone /\ Spec => [](\A t \in Threads : pc[t] = "front" => queue # <<>>)
<1> SUFFICES ASSUME RemovesAlone
             PROVE  Spec => [](\A t \in Threads : pc[t] = "front" => queue # <<>>)
  OBVIOUS
<1> DEFINE NobodyOvertaken == overtaken = {}
<1>1. Init => NobodyOvertaken
  BY DEF Init
<1>2. IInv /\ NobodyOvertaken /\ [Next]_vars => NobodyOvertaken'
  <2> SUFFICES ASSUME IInv, NobodyOvertaken, NEW t \in Threads, Step(t)
               PROVE  NobodyOvertaken'
    BY DEF Next, AssertFails, vars, queueVars
  <2>1. CASE PopFront(t) \/ Swap(t) \/ Clear(t)
    <3>1. op[t] \in MayCall[t] \cap {"take", "takeAll", "clearAll"}
      BY <2>1 DEF PopFront, Swap, Clear, IInv, OpInv
    <3>2. \A u \in Threads \ {t} : "take" \notin MayCall[u]
      BY <3>1 DEF RemovesAlone
    <3>3. QED  BY <2>1, <3>2 DEF PopFront, Swap, Clear, Remove
  <2>2. CASE ~ (PopFront(t) \/ Swap(t) \/ Clear(t))
    BY <2>2 DEF Step, Peek, CallPut, CallPutAll, CallTake, Call, Enter, LockStep, StartBody,
                Push, CopyFront, ReadSize, queueVars
  <2>3. QED  BY <2>1, <2>2
<1>3. NobodyOvertaken /\ TakeAssertHolds
        => \A t \in Threads : pc[t] = "front" => queue # <<>>
  BY DEF TakeAssertHolds
<1> HIDE DEF NobodyOvertaken
<1>4. QED  BY <1>1, <1>2, <1>3, InductiveInvariant, TakeIsSafe, PTL DEF Spec

=============================================================================
