--------------------------- MODULE TcpServerProofs ---------------------------
(* Proofs about TcpServer for any pool of loops and any set of connections.   *)
EXTENDS TcpServer, SequenceTheorems, TLAPS

USE LoopsAssumption DEF Shutdown, ForceClose

(* A loop has active channels only while it handles them, and a batch only    *)
(* while it runs it.                                                          *)
PhaseInv ==
    \A l \in Loops :
        /\ lpc[l] # "events" => active[l] = {}
        /\ lpc[l] # "functors" => ran[l] = 0 /\ batch[l] = <<>>

FunctorNames == {"connectEstablished", "removeConnectionInLoop",
                 "connectDestroyed", "forceCloseInLoop"}

LEMMA FunctorType ==
    ASSUME NEW c \in Conns, NEW name \in FunctorNames
    PROVE  Functor(name, c) \in Functors
BY DEF Functor, Functors, FunctorNames

(* queueInLoop keeps the types and sets the wakeup of no loop but its own.    *)
LEMMA QueueType ==
    ASSUME TypeOK, NEW l \in Loops, NEW by \in Loops, NEW f \in Functors,
           QueueInLoop(l, f, by)
    PROVE  /\ pending' \in [Loops -> Seq(Functors)]
           /\ woken' \in [Loops -> BOOLEAN]
<1>1. Append(pending[l], f) \in Seq(Functors)
  BY DEF TypeOK, LoopTypeOK
<1>2. pending' \in [Loops -> Seq(Functors)]
  BY <1>1 DEF TypeOK, LoopTypeOK, QueueInLoop
<1>3. (woken[l] \/ by # l \/ lpc[l] = "functors") \in BOOLEAN
  OBVIOUS
<1>4. woken' \in [Loops -> BOOLEAN]
  BY <1>3 DEF TypeOK, LoopTypeOK, QueueInLoop
<1>5. QED  BY <1>2, <1>4

LEMMA QuitType ==
    ASSUME TypeOK, NEW l \in Loops, NEW own \in BOOLEAN, Quit(l, own)
    PROVE  quit' \in [Loops -> BOOLEAN] /\ woken' \in [Loops -> BOOLEAN]
BY DEF TypeOK, LoopTypeOK, Quit

LEMMA TellType ==
    ASSUME TypeOK, NEW c \in Conns, NEW what \in {"up", "down"}, Tell(c, what)
    PROVE  told' \in [Conns -> Seq({"up", "down"})]
<1>1. Append(told[c], what) \in Seq({"up", "down"})
  BY DEF TypeOK
<1>2. QED  BY <1>1 DEF TypeOK, Tell

LEMMA BecomeType ==
    ASSUME TypeOK, NEW c \in Conns, NEW s \in States, Become(c, s)
    PROVE  state' \in [Conns -> States]
BY DEF TypeOK, Become

LEMMA InitType == Init => TypeOK /\ PhaseInv
<1> SUFFICES ASSUME Init PROVE TypeOK /\ PhaseInv
  OBVIOUS
<1>1. PICK n \in 0..Len(IoLoops) : pool = SubSeq(IoLoops, 1, n)
  BY DEF Init
<1>2. pool \in Seq(Loops \ {Base}) /\ Len(pool) \in Nat
  BY <1>1
<1>3. LoopTypeOK(Conns \cup {"accept"}, Functors)
  BY DEF Init, LoopsInit, LoopTypeOK, Phases
<1>4. PhaseInv
  BY DEF Init, LoopsInit, PhaseInv
<1>5. QED  BY <1>2, <1>3, <1>4 DEF Init, TypeOK, States

Channels == Conns \cup {"accept"}

(* The steps in which only a loop moves.                                      *)
LEMMA LoopOnlyType ==
    ASSUME TypeOK, PhaseInv, NEW l \in Loops,
           LoopOnly(l) \/ LoopIdles(l)
    PROVE  TypeOK' /\ PhaseInv'
<1> USE DEF TypeOK, LoopTypeOK, Phases, PhaseInv
<1>1. SUFFICES ASSUME LoopOnly(l) \/ LoopIdles(l)
               PROVE  LoopTypeOK(Channels, Functors)' /\ PhaseInv'
  <2>1. UNCHANGED <<poolVars, connections, connVars, peerClosed, failed>>
    BY DEF LoopOnly, LoopIdles
  <2>2. QED  BY <1>1, <2>1 DEF poolVars, connVars, Channels
<1>2. CASE Enter(l)
  BY <1>2 DEF Enter, GotoPhase, Channels
<1>3. CASE Test(l)
  BY <1>3 DEF Test, GotoPhase, Channels
<1>4. CASE Poll(l, Ready(l))
  <2>1. Ready(l) \subseteq Channels
    BY DEF Ready, Channels
  <2>2. PICK some \in SUBSET Ready(l) :
            active' = [active EXCEPT ![l] = some \cup (IF woken[l] THEN {"wakeup"} ELSE {})]
    BY <1>4 DEF Poll
  <2>3. active' \in [Loops -> SUBSET (Channels \cup {"wakeup"})]
    BY <2>1, <2>2 DEF Channels
  <2>4. lpc' \in [Loops -> Phases] /\ UNCHANGED <<quit, woken, pending, batch, ran>>
    BY <1>4 DEF Poll, GotoPhase
  <2>5. PhaseInv'
    BY <1>4, <2>2, <2>4 DEF Poll, GotoPhase
  <2>6. QED  BY <2>3, <2>4, <2>5
<1>5. CASE HandleWakeup(l)
  BY <1>5 DEF HandleWakeup, Channels
<1>6. CASE Swap(l)
  <2>1. pending[l] \in Seq(Functors) /\ Len(pending[l]) \in Nat /\ ran[l] = 0
    BY <1>6 DEF Swap
  <2>2. batch' \in [Loops -> Seq(Functors)] /\ pending' \in [Loops -> Seq(Functors)]
    BY <1>6, <2>1 DEF Swap
  <2>3. ran' \in [Loops -> Nat] /\ \A k \in Loops : ran'[k] <= Len(batch'[k])
    BY <1>6, <2>1 DEF Swap
  <2>4. lpc' \in [Loops -> Phases] /\ UNCHANGED <<quit, woken, active, ran>>
    BY <1>6 DEF Swap, GotoPhase
  <2>5. PhaseInv'
    BY <1>6 DEF Swap, GotoPhase
  <2>6. QED  BY <2>2, <2>3, <2>4, <2>5 DEF Channels
<1>7. CASE EndFunctors(l)
  BY <1>7 DEF EndFunctors, GotoPhase, Channels
<1>8. CASE PollTimesOut(l)
  BY <1>8 DEF PollTimesOut, GotoPhase, Channels
<1>9. QED  BY <1>1, <1>2, <1>3, <1>4, <1>5, <1>6, <1>7, <1>8 DEF LoopOnly, LoopIdles

QueuesTyped ==
    /\ pending' \in [Loops -> Seq(Functors)]
    /\ woken' \in [Loops -> BOOLEAN]

(* The frames of handleEvent and of a functor, whatever is queued meanwhile.  *)
LEMMA FramesType ==
    ASSUME TypeOK, PhaseInv, NEW l \in Loops, QueuesTyped,
           \/ \E ch : Handling(l, ch)
           \/ \E f : Running(l, f)
           \/ UNCHANGED <<lpc, active, batch, ran>> /\ quit' \in [Loops -> BOOLEAN]
    PROVE  LoopTypeOK(Channels, Functors)' /\ PhaseInv'
<1> USE DEF TypeOK, LoopTypeOK, PhaseInv, QueuesTyped, Channels
<1>1. CASE \E ch : Handling(l, ch)
  BY <1>1 DEF Handling
<1>2. CASE \E f : Running(l, f)
  <2>1. ran[l] \in Nat /\ Len(batch[l]) \in Nat
    OBVIOUS
  <2>2. ran' = [ran EXCEPT ![l] = ran[l] + 1] /\ ran[l] < Len(batch[l])
        /\ lpc[l] = "functors" /\ UNCHANGED <<lpc, quit, active, batch>>
    BY <1>2 DEF Running
  <2>3. QED  BY <2>1, <2>2
<1>3. CASE UNCHANGED <<lpc, active, batch, ran>> /\ quit' \in [Loops -> BOOLEAN]
  BY <1>3
<1>4. QED  BY <1>1, <1>2, <1>3

LEMMA RemoveType ==
    ASSUME TypeOK, NEW l \in Loops, NEW c \in Conns,
           RemoveConnection(c, l) \/ RemoveConnectionInLoop(c, l)
    PROVE  QueuesTyped /\ connections' \subseteq Conns
<1>1. loopOf[c] \in Loops
  BY DEF TypeOK
<1>2. CASE RemoveConnectionInLoop(c, l)
  BY <1>1, <1>2, FunctorType, QueueType
     DEF RemoveConnectionInLoop, QueuesTyped, FunctorNames, TypeOK
<1>3. CASE QueueInLoop(Base, Functor("removeConnectionInLoop", c), l) /\ UNCHANGED connections
  BY <1>3, FunctorType, QueueType DEF QueuesTyped, FunctorNames, TypeOK
<1>4. QED  BY <1>2, <1>3 DEF RemoveConnection

LEMMA CloseType ==
    ASSUME TypeOK, NEW l \in Loops, NEW c \in Conns, HandleClose(c, l)
    PROVE  /\ QueuesTyped /\ connections' \subseteq Conns
           /\ state' \in [Conns -> States]
           /\ told' \in [Conns -> Seq({"up", "down"})]
           /\ index' \in [Conns -> {"kNew", "kAdded", "kDeleted"}]
<1>1. QueuesTyped /\ connections' \subseteq Conns
  BY RemoveType DEF HandleClose
<1>2. state' \in [Conns -> States] /\ told' \in [Conns -> Seq({"up", "down"})]
  BY BecomeType, TellType DEF HandleClose, States
<1>3. QED  BY <1>1, <1>2 DEF HandleClose, TypeOK

LEMMA EstablishedType ==
    ASSUME TypeOK, NEW l \in Loops, NEW c \in Conns, ConnectEstablished(c, l)
    PROVE  /\ QueuesTyped
           /\ state' \in [Conns -> States]
           /\ told' \in [Conns -> Seq({"up", "down"})]
           /\ index' \in [Conns -> {"kNew", "kAdded", "kDeleted"}]
<1>1. QueuesTyped
  BY FunctorType, QueueType
     DEF ConnectEstablished, QueuesTyped, FunctorNames, TypeOK, LoopTypeOK
<1>2. state' \in [Conns -> States] /\ told' \in [Conns -> Seq({"up", "down"})]
  BY BecomeType, TellType DEF ConnectEstablished, States
<1>3. QED  BY <1>1, <1>2 DEF ConnectEstablished, TypeOK

LEMMA DestroyedType ==
    ASSUME TypeOK, NEW c \in Conns, ConnectDestroyed(c)
    PROVE  /\ state' \in [Conns -> States]
           /\ told' \in [Conns -> Seq({"up", "down"})]
           /\ index' \in [Conns -> {"kNew", "kAdded", "kDeleted"}]
<1>1. state' \in [Conns -> States] /\ told' \in [Conns -> Seq({"up", "down"})]
  <2>1. CASE state[c] = "kConnected"
    BY <2>1, BecomeType, TellType DEF ConnectDestroyed, States
  <2>2. CASE state[c] # "kConnected"
    BY <2>2 DEF ConnectDestroyed, TypeOK
  <2>3. QED  BY <2>1, <2>2
<1>2. QED  BY <1>1 DEF ConnectDestroyed, TypeOK

(* The actions of the loops, other than those of LoopOnlyType.                *)
LEMMA EventType ==
    ASSUME TypeOK, PhaseInv, NEW l \in Loops, NEW c \in Conns,
           (l = Base /\ NewConnection(c)) \/ ReadData(l, c) \/ ReadEnd(l, c)
    PROVE  TypeOK' /\ PhaseInv'
<1>1. SUFFICES ASSUME (l = Base /\ NewConnection(c)) \/ ReadData(l, c) \/ ReadEnd(l, c)
               PROVE  /\ QueuesTyped /\ connections' \subseteq Conns
                      /\ state' \in [Conns -> States]
                      /\ told' \in [Conns -> Seq({"up", "down"})]
                      /\ index' \in [Conns -> {"kNew", "kAdded", "kDeleted"}]
                      /\ loopOf' \in [Conns -> Loops]
                      /\ next' = 1 \/ next' \in 1..Len(pool)
                      /\ UNCHANGED <<pool, stage, joined, peerClosed>>
  <2>1. \E ch : Handling(l, ch)
    BY <1>1 DEF NewConnection, ReadData, ReadEnd
  <2>2. LoopTypeOK(Channels, Functors)' /\ PhaseInv'
    BY <1>1, <2>1, FramesType
  <2>3. QED  BY <1>1, <2>2 DEF TypeOK, Channels
<1>2. CASE l = Base /\ NewConnection(c)
  <2>1. connections' \subseteq Conns /\ UNCHANGED <<pool, stage, joined, peerClosed>>
    BY <1>2 DEF NewConnection, TypeOK
  <2>2. CASE pool = <<>>
    <3>1. ConnectEstablished(c, l) /\ UNCHANGED <<next, loopOf>>
      BY <1>2, <2>2 DEF NewConnection
    <3>2. QED  BY <2>1, <3>1, EstablishedType DEF TypeOK
  <2>3. CASE pool # <<>>
    <3>1. /\ loopOf' = [loopOf EXCEPT ![c] = NextLoop]
          /\ next' = After(next) /\ Become(c, "kConnecting")
          /\ QueueInLoop(NextLoop, Functor("connectEstablished", c), Base)
          /\ UNCHANGED <<index, told>>
      BY <1>2, <2>3 DEF NewConnection
    <3>2. pool \in Seq(Loops \ {Base}) /\ Len(pool) \in Nat \ {0} /\ next \in 1..Len(pool)
      BY <2>3 DEF TypeOK
    <3>3. NextLoop \in Loops
      BY <2>3, <3>2 DEF NextLoop
    <3>4. next' = 1 \/ next' \in 1..Len(pool)
      BY <3>1, <3>2 DEF After
    <3>5. QueuesTyped
      BY <3>1, <3>3, FunctorType, QueueType DEF QueuesTyped, FunctorNames
    <3>6. state' \in [Conns -> States]
      BY <3>1, BecomeType DEF States
    <3>7. QED  BY <2>1, <3>1, <3>3, <3>4, <3>5, <3>6 DEF TypeOK
  <2>4. QED  BY <2>2, <2>3
<1>3. CASE ReadData(l, c)
  <2>1. QueuesTyped
    BY <1>3, FunctorType, QueueType
       DEF ReadData, QueuesTyped, FunctorNames, TypeOK, LoopTypeOK
  <2>2. state' \in [Conns -> States]
    BY <1>3, BecomeType DEF ReadData, States, TypeOK
  <2>3. QED  BY <1>3, <2>1, <2>2 DEF ReadData, TypeOK, poolVars
<1>4. CASE ReadEnd(l, c)
  BY <1>4, CloseType DEF ReadEnd, TypeOK, poolVars
<1>5. QED  BY <1>1, <1>2, <1>3, <1>4

LEMMA FunctorStepType ==
    ASSUME TypeOK, PhaseInv, NEW l \in Loops, NEW c \in Conns,
           \/ RunConnectEstablished(l, c) \/ RunForceClose(l, c)
           \/ RunRemove(l, c) \/ RunConnectDestroyed(l, c)
    PROVE  TypeOK' /\ PhaseInv'
<1>1. SUFFICES ASSUME \/ RunConnectEstablished(l, c) \/ RunForceClose(l, c)
                      \/ RunRemove(l, c) \/ RunConnectDestroyed(l, c)
               PROVE  /\ QueuesTyped /\ connections' \subseteq Conns
                      /\ state' \in [Conns -> States]
                      /\ told' \in [Conns -> Seq({"up", "down"})]
                      /\ index' \in [Conns -> {"kNew", "kAdded", "kDeleted"}]
  <2>1. \E f : Running(l, f)
    BY <1>1 DEF RunConnectEstablished, RunForceClose, RunRemove, RunConnectDestroyed
  <2>2. LoopTypeOK(Channels, Functors)' /\ PhaseInv'
    BY <1>1, <2>1, FramesType
  <2>3. UNCHANGED <<poolVars, loopOf, peerClosed>>
    BY DEF RunConnectEstablished, RunForceClose, RunRemove, RunConnectDestroyed, connVars
  <2>4. QED  BY <1>1, <2>2, <2>3 DEF TypeOK, poolVars, Channels
<1>2. CASE RunConnectEstablished(l, c)
  BY <1>2, EstablishedType DEF RunConnectEstablished, TypeOK
<1>3. CASE RunForceClose(l, c)
  BY <1>3, CloseType DEF RunForceClose, TypeOK, LoopTypeOK, QueuesTyped
<1>4. CASE RunRemove(l, c)
  BY <1>4, RemoveType DEF RunRemove, TypeOK, connVars
<1>5. CASE RunConnectDestroyed(l, c)
  BY <1>5, DestroyedType DEF RunConnectDestroyed, TypeOK, LoopTypeOK, QueuesTyped
<1>6. QED  BY <1>1, <1>2, <1>3, <1>4, <1>5

(* The peers and the end of the server.                                       *)
LEMMA EndType ==
    ASSUME TypeOK, PhaseInv,
           (\E c \in Conns : PeerCloses(c)) \/ StopServing \/ Destruction
    PROVE  TypeOK' /\ PhaseInv'
<1>1. CASE \E c \in Conns : PeerCloses(c)
  BY <1>1 DEF PeerCloses, TypeOK, LoopTypeOK, PhaseInv, loopVars, poolVars, connVars
<1>2. CASE StopServing
  <2>1. QueuesTyped /\ quit' \in [Loops -> BOOLEAN]
    BY <1>2, QuitType DEF StopServing, QueuesTyped, TypeOK, LoopTypeOK
  <2>2. LoopTypeOK(Channels, Functors)' /\ PhaseInv'
    BY <1>2, <2>1, FramesType DEF StopServing
  <2>3. QED  BY <1>2, <2>2 DEF StopServing, TypeOK, poolVars, connVars, Channels
<1>3. CASE BeginDestruction \/ EndDestruction
  BY <1>3 DEF BeginDestruction, EndDestruction, TypeOK, LoopTypeOK, PhaseInv, loopVars, connVars
<1>4. ASSUME NEW c \in Conns, DestroyConnection(c)
      PROVE  TypeOK' /\ PhaseInv'
  <2>1. /\ QueuesTyped
        /\ state' \in [Conns -> States]
        /\ told' \in [Conns -> Seq({"up", "down"})]
        /\ index' \in [Conns -> {"kNew", "kAdded", "kDeleted"}]
    <3>1. CASE ConnectDestroyed(c) /\ UNCHANGED <<pending, woken>>
      BY <3>1, DestroyedType DEF TypeOK, LoopTypeOK, QueuesTyped
    <3>2. CASE /\ QueueInLoop(loopOf[c], Functor("connectDestroyed", c), Base)
               /\ UNCHANGED <<state, index, told, failed>>
      <4>1. loopOf[c] \in Loops
        BY DEF TypeOK
      <4>2. QED  BY <3>2, <4>1, FunctorType, QueueType DEF TypeOK, QueuesTyped, FunctorNames
    <3>3. QED  BY <1>4, <3>1, <3>2 DEF DestroyConnection
  <2>2. LoopTypeOK(Channels, Functors)' /\ PhaseInv'
    BY <1>4, <2>1, FramesType DEF DestroyConnection, TypeOK, LoopTypeOK
  <2>3. QED  BY <1>4, <2>1, <2>2 DEF DestroyConnection, TypeOK, poolVars, Channels
<1>5. CASE QuitThread
  <2>1. pool[joined + 1] \in Loops
    BY <1>5 DEF QuitThread, TypeOK
  <2>2. QueuesTyped /\ quit' \in [Loops -> BOOLEAN]
    BY <1>5, <2>1, QuitType DEF QuitThread, QueuesTyped, TypeOK, LoopTypeOK
  <2>3. LoopTypeOK(Channels, Functors)' /\ PhaseInv'
    BY <1>5, <2>2, FramesType DEF QuitThread
  <2>4. QED  BY <1>5, <2>3 DEF QuitThread, TypeOK, connVars, Channels
<1>6. CASE JoinThread
  <2>1. joined' \in 0..Len(pool) /\ stage' = "destroying"
    BY <1>6 DEF JoinThread, TypeOK
  <2>2. LoopTypeOK(Channels, Functors)' /\ PhaseInv'
    BY <1>6 DEF JoinThread, TypeOK, LoopTypeOK, PhaseInv, loopVars, Channels
  <2>3. QED  BY <1>6, <2>1, <2>2 DEF JoinThread, TypeOK, connVars, Channels
<1>7. QED  BY <1>1, <1>2, <1>3, <1>4, <1>5, <1>6 DEF Destruction

LEMMA NextType == TypeOK /\ PhaseInv /\ [Next]_vars => TypeOK' /\ PhaseInv'
<1> SUFFICES ASSUME TypeOK, PhaseInv, [Next]_vars PROVE TypeOK' /\ PhaseInv'
  OBVIOUS
<1>1. CASE UNCHANGED vars
  BY <1>1 DEF vars, loopVars, poolVars, connVars, TypeOK, LoopTypeOK, PhaseInv
<1>2. CASE \E l \in Loops : LoopStep(l) \/ LoopIdles(l)
  BY <1>2, LoopOnlyType, EventType, FunctorStepType DEF LoopStep
<1>3. CASE (\E c \in Conns : PeerCloses(c)) \/ StopServing \/ Destruction
  BY <1>3, EndType
<1>4. QED  BY <1>1, <1>2, <1>3 DEF Next

(* Type correctness of the loops, the pool, the server and its connections.   *)
THEOREM ServerTypes == Spec => []TypeOK
<1>1. Init => TypeOK /\ PhaseInv
  BY InitType
<1>2. TypeOK /\ PhaseInv /\ [Next]_vars => (TypeOK /\ PhaseInv)'
  BY NextType
<1>3. QED  BY <1>1, <1>2, PTL DEF Spec

-----------------------------------------------------------------------------
(* No wakeup is lost.  Every queueInLoop is called in the thread of a loop    *)
(* that is handling events or running functors, or in another thread.         *)
Busy(l) == lpc[l] \in {"events", "functors"}

LEMMA QueueWakes ==
    ASSUME TypeOK, WakeupNotLost, UNCHANGED lpc,
           NEW l \in Loops, NEW by \in Loops, NEW f \in Functors,
           QueueInLoop(l, f, by), by = l => Busy(l)
    PROVE  WakeupNotLost'
BY DEF TypeOK, LoopTypeOK, WakeupNotLost, QueueInLoop, Busy

LEMMA NothingQueuedWakes ==
    ASSUME WakeupNotLost, UNCHANGED <<lpc, pending, woken>>
    PROVE  WakeupNotLost'
BY DEF WakeupNotLost

LEMMA QuitWakes ==
    ASSUME TypeOK, WakeupNotLost, UNCHANGED <<lpc, pending>>, NEW l \in Loops, NEW own \in BOOLEAN, Quit(l, own)
    PROVE  WakeupNotLost'
BY DEF TypeOK, LoopTypeOK, WakeupNotLost, Quit

LEMMA LoopOnlyWakes ==
    ASSUME TypeOK, WakeupNotLost, NEW l \in Loops, LoopOnly(l) \/ LoopIdles(l)
    PROVE  WakeupNotLost'
<1> USE DEF TypeOK, LoopTypeOK, WakeupNotLost
<1>1. CASE Enter(l) \/ Test(l) \/ Poll(l, Ready(l)) \/ PollTimesOut(l)
  BY <1>1 DEF Enter, Test, Poll, PollTimesOut, GotoPhase
<1>2. CASE HandleWakeup(l)
  BY <1>2 DEF HandleWakeup
<1>3. CASE Swap(l)
  BY <1>3 DEF Swap, GotoPhase
<1>4. CASE EndFunctors(l)
  BY <1>4 DEF EndFunctors, GotoPhase
<1>5. QED  BY <1>1, <1>2, <1>3, <1>4 DEF LoopOnly, LoopIdles

LEMMA RemoveWakes ==
    ASSUME TypeOK, WakeupNotLost, UNCHANGED lpc, NEW l \in Loops, Busy(l), NEW c \in Conns,
           RemoveConnection(c, l) \/ RemoveConnectionInLoop(c, l)
    PROVE  WakeupNotLost'
<1>1. loopOf[c] \in Loops
  BY DEF TypeOK
<1>2. CASE RemoveConnectionInLoop(c, l)
  BY <1>1, <1>2, FunctorType, QueueWakes DEF RemoveConnectionInLoop, FunctorNames
<1>3. CASE l # Base /\ QueueInLoop(Base, Functor("removeConnectionInLoop", c), l)
  BY <1>3, FunctorType, QueueWakes DEF FunctorNames
<1>4. QED  BY <1>2, <1>3 DEF RemoveConnection

LEMMA EstablishedWakes ==
    ASSUME TypeOK, WakeupNotLost, UNCHANGED lpc, NEW l \in Loops, Busy(l), NEW c \in Conns,
           ConnectEstablished(c, l)
    PROVE  WakeupNotLost'
BY FunctorType, QueueWakes, NothingQueuedWakes DEF ConnectEstablished, FunctorNames

LEMMA EventWakes ==
    ASSUME TypeOK, WakeupNotLost, NEW l \in Loops, NEW c \in Conns,
           (l = Base /\ NewConnection(c)) \/ ReadData(l, c) \/ ReadEnd(l, c)
    PROVE  WakeupNotLost'
<1>1. UNCHANGED lpc /\ Busy(l)
  BY DEF NewConnection, ReadData, ReadEnd, Handling, Busy
<1>2. CASE l = Base /\ NewConnection(c)
  <2>1. CASE pool = <<>>
    BY <1>1, <1>2, <2>1, EstablishedWakes DEF NewConnection
  <2>2. CASE pool # <<>>
    <3>1. NextLoop \in Loops \ {Base}
      BY <2>2 DEF NextLoop, TypeOK
    <3>2. QueueInLoop(NextLoop, Functor("connectEstablished", c), Base)
      BY <1>2, <2>2 DEF NewConnection
    <3>3. QED  BY <1>1, <3>1, <3>2, FunctorType, QueueWakes DEF FunctorNames
  <2>3. QED  BY <2>1, <2>2
<1>3. CASE ReadData(l, c)
  BY <1>1, <1>3, FunctorType, QueueWakes, NothingQueuedWakes DEF ReadData, FunctorNames
<1>4. CASE ReadEnd(l, c)
  BY <1>1, <1>4, RemoveWakes DEF ReadEnd, HandleClose
<1>5. QED  BY <1>2, <1>3, <1>4

LEMMA FunctorStepWakes ==
    ASSUME TypeOK, WakeupNotLost, NEW l \in Loops, NEW c \in Conns,
           \/ RunConnectEstablished(l, c) \/ RunForceClose(l, c)
           \/ RunRemove(l, c) \/ RunConnectDestroyed(l, c)
    PROVE  WakeupNotLost'
<1>1. UNCHANGED lpc /\ Busy(l)
  BY DEF RunConnectEstablished, RunForceClose, RunRemove, RunConnectDestroyed, Running, Busy
<1>2. CASE RunConnectEstablished(l, c)
  BY <1>1, <1>2, EstablishedWakes DEF RunConnectEstablished
<1>3. CASE RunForceClose(l, c)
  BY <1>1, <1>3, RemoveWakes, NothingQueuedWakes DEF RunForceClose, HandleClose
<1>4. CASE RunRemove(l, c)
  BY <1>1, <1>4, RemoveWakes DEF RunRemove
<1>5. CASE RunConnectDestroyed(l, c)
  BY <1>1, <1>5, NothingQueuedWakes DEF RunConnectDestroyed
<1>6. QED  BY <1>2, <1>3, <1>4, <1>5

LEMMA EndWakes ==
    ASSUME TypeOK, WakeupNotLost,
           (\E c \in Conns : PeerCloses(c)) \/ StopServing \/ Destruction
    PROVE  WakeupNotLost'
<1>1. CASE (\E c \in Conns : PeerCloses(c)) \/ BeginDestruction \/ JoinThread \/ EndDestruction
  BY <1>1, NothingQueuedWakes
     DEF PeerCloses, BeginDestruction, JoinThread, EndDestruction, loopVars
<1>2. CASE StopServing
  BY <1>2, QuitWakes DEF StopServing
<1>3. ASSUME NEW c \in Conns, DestroyConnection(c)
      PROVE  WakeupNotLost'
  <2>1. UNCHANGED lpc /\ loopOf[c] \in Loops
    BY <1>3 DEF DestroyConnection, TypeOK
  <2>2. CASE UNCHANGED <<pending, woken>>
    BY <2>1, <2>2, NothingQueuedWakes
  <2>3. CASE loopOf[c] # Base /\ QueueInLoop(loopOf[c], Functor("connectDestroyed", c), Base)
    BY <2>1, <2>3, FunctorType, QueueWakes DEF FunctorNames
  <2>4. QED  BY <1>3, <2>2, <2>3 DEF DestroyConnection
<1>4. CASE QuitThread
  <2>1. pool[joined + 1] \in Loops
    BY <1>4 DEF QuitThread, TypeOK
  <2>2. QED  BY <1>4, <2>1, QuitWakes DEF QuitThread
<1>5. QED  BY <1>1, <1>2, <1>3, <1>4 DEF Destruction

(* No functor is forgotten: the combination of "push_back, then wakeup unless *)
(* in the loop's thread and not calling functors" in queueInLoop and "read    *)
(* the eventfd, then swap" in the loop never leaves a loop about to poll with *)
(* a functor queued and its eventfd not readable.                             *)
THEOREM NoLostWakeup == Spec => []WakeupNotLost
<1>1. Init => WakeupNotLost
  BY DEF Init, LoopsInit, WakeupNotLost
<1>2. TypeOK /\ WakeupNotLost /\ [Next]_vars => WakeupNotLost'
  <2> SUFFICES ASSUME TypeOK, WakeupNotLost, [Next]_vars PROVE WakeupNotLost'
    OBVIOUS
  <2>1. CASE UNCHANGED vars
    BY <2>1, NothingQueuedWakes DEF vars, loopVars
  <2>2. CASE \E l \in Loops : LoopStep(l) \/ LoopIdles(l)
    BY <2>2, LoopOnlyWakes, EventWakes, FunctorStepWakes DEF LoopStep
  <2>3. CASE (\E c \in Conns : PeerCloses(c)) \/ StopServing \/ Destruction
    BY <2>3, EndWakes
  <2>4. QED  BY <2>1, <2>2, <2>3 DEF Next
<1>3. QED  BY <1>1, <1>2, ServerTypes, PTL DEF Spec

-----------------------------------------------------------------------------
(* Up, then down.  A connection's state says what its callback was called     *)
(* with; a channel that poll may report, or has reported, belongs to an open  *)
(* connection of that loop; functors are queued in the home of a connection   *)
(* that exists, its removal in the base loop; and connectEstablished waits at *)
(* most once, for a connection that is connecting.  The server is destroyed   *)
(* after its loop, and keeps no connection that does not exist.               *)
ToldInv ==
    \A c \in Conns :
        /\ state[c] \in {"none", "kConnecting"} => told[c] = <<>>
        /\ IsOpen(c) => told[c] = <<"up">>
        /\ state[c] = "kDisconnected" => told[c] = <<"up", "down">>

ChannelInv ==
    \A c \in Conns :
        /\ index[c] = "kAdded" => IsOpen(c)
        /\ \A l \in Loops : c \in active[l] => IsOpen(c) /\ loopOf[c] = l

AtHome(f, l) ==
    /\ state[f.conn] # "none"
    /\ f.run # "removeConnectionInLoop" => loopOf[f.conn] = l
    /\ f.run = "removeConnectionInLoop" => l = Base

HomeInv ==
    \A l \in Loops :
        /\ \A i \in 1..Len(pending[l]) : AtHome(pending[l][i], l)
        /\ \A i \in 1..Len(batch[l]) : AtHome(batch[l][i], l)

Establishes(f, c) == f.run = "connectEstablished" /\ f.conn = c

FreshIn(queue, running, done, s, c) ==
    /\ \A i \in 1..Len(queue) :
          Establishes(queue[i], c) =>
             /\ s = "kConnecting"
             /\ \A j \in 1..Len(queue) : Establishes(queue[j], c) => i = j
             /\ \A j \in 1..Len(running) : j > done => ~Establishes(running[j], c)
    /\ \A i \in 1..Len(running) :
          Establishes(running[i], c) /\ i > done =>
             /\ s = "kConnecting"
             /\ \A j \in 1..Len(running) : Establishes(running[j], c) /\ j > done => i = j

FreshInv ==
    \A l \in Loops, c \in Conns : FreshIn(pending[l], batch[l], ran[l], state[c], c)

ServerInv ==
    /\ stage # "serving" => lpc[Base] = "left"
    /\ \A c \in Conns : state[c] = "none" => c \notin connections /\ loopOf[c] = Base

ConnInv == ToldInv /\ ChannelInv /\ HomeInv /\ FreshInv
LifeInv == ConnInv /\ ServerInv

LEMMA FunctorFields ==
    ASSUME NEW name, NEW c
    PROVE  Functor(name, c).run = name /\ Functor(name, c).conn = c
BY DEF Functor

LEMMA QueueAdds ==
    ASSUME TypeOK, NEW k \in Loops, NEW by, NEW f \in Functors, QueueInLoop(k, f, by)
    PROVE  /\ \A l \in Loops : l # k => pending'[l] = pending[l]
           /\ Len(pending[k]) \in Nat /\ Len(pending'[k]) = Len(pending[k]) + 1
           /\ \A i \in 1..Len(pending[k]) : pending'[k][i] = pending[k][i]
           /\ pending'[k][Len(pending[k]) + 1] = f
<1>1. pending[k] \in Seq(Functors) /\ pending'[k] = Append(pending[k], f)
  BY DEF TypeOK, LoopTypeOK, QueueInLoop
<1>2. \A l \in Loops : l # k => pending'[l] = pending[l]
  BY DEF TypeOK, LoopTypeOK, QueueInLoop
<1>3. QED  BY <1>1, <1>2

(* What is queued is queued at home.                                          *)
Queues(names) ==
    \/ UNCHANGED pending
    \/ \E k \in Loops, by \in Loops, d \in Conns, name \in names :
          /\ QueueInLoop(k, Functor(name, d), by)
          /\ AtHome(Functor(name, d), k)'

LaterNames == FunctorNames \ {"connectEstablished"}

(* Connections are not unmade and do not move.                                *)
ConnsStay ==
    \A c \in Conns : state[c] # "none" => state'[c] # "none" /\ loopOf'[c] = loopOf[c]

(* No connectEstablished of c is left to run after the step.                  *)
Spent(c) ==
    \A l \in Loops :
        /\ \A i \in 1..Len(pending[l]) : ~Establishes(pending[l][i], c)
        /\ \A i \in 1..Len(batch[l]) : i > ran'[l] => ~Establishes(batch[l][i], c)

LEMMA HomeStays ==
    ASSUME TypeOK, HomeInv, Queues(FunctorNames), UNCHANGED batch, ConnsStay
    PROVE  HomeInv'
<1>1. \A f \in Functors, l \in Loops : AtHome(f, l) => AtHome(f, l)'
  <2>1. \A f \in Functors : f.conn \in Conns
    BY DEF Functors
  <2>2. QED  BY <2>1 DEF AtHome, ConnsStay
<1>2. \A l \in Loops : \A i \in 1..Len(batch[l]) :
         batch[l][i] \in Functors /\ \A f \in Functors : f = batch[l][i] => AtHome(f, l)'
  BY <1>1 DEF HomeInv, TypeOK, LoopTypeOK
<1>3. \A l \in Loops : \A i \in 1..Len(pending[l]) :
         pending[l][i] \in Functors /\ \A f \in Functors : f = pending[l][i] => AtHome(f, l)'
  BY <1>1 DEF HomeInv, TypeOK, LoopTypeOK
<1>4. CASE UNCHANGED pending
  <2>1. ASSUME NEW l \in Loops, NEW i \in 1..Len(pending[l])
        PROVE  AtHome(pending[l][i], l)'
    BY <1>3, <1>4 DEF AtHome
  <2>2. ASSUME NEW l \in Loops, NEW i \in 1..Len(batch[l])
        PROVE  AtHome(batch[l][i], l)'
    BY <1>2 DEF AtHome
  <2>3. QED  BY <1>4, <2>1, <2>2 DEF HomeInv
<1>5. CASE ~UNCHANGED pending
  <2>1. PICK k \in Loops, by \in Loops, d \in Conns, name \in FunctorNames :
           QueueInLoop(k, Functor(name, d), by) /\ AtHome(Functor(name, d), k)'
    BY <1>5 DEF Queues
  <2>2. Functor(name, d) \in Functors
    BY FunctorType
  <2>3. ASSUME NEW l \in Loops, NEW i \in 1..Len(pending'[l])
        PROVE  \E f \in Functors : f = pending'[l][i] /\ AtHome(f, l)'
    <3>1. CASE l = k /\ i = Len(pending[k]) + 1
      BY <2>1, <2>2, <3>1, QueueAdds
    <3>2. CASE ~(l = k /\ i = Len(pending[k]) + 1)
      <4>1. i \in 1..Len(pending[l]) /\ pending'[l][i] = pending[l][i]
        BY <2>1, <2>2, <2>3, <3>2, QueueAdds
      <4>2. QED  BY <1>3, <4>1
    <3>3. QED  BY <3>1, <3>2
  <2>4. ASSUME NEW l \in Loops, NEW i \in 1..Len(pending'[l])
        PROVE  AtHome(pending[l][i], l)'
    BY <2>3 DEF AtHome
  <2>5. ASSUME NEW l \in Loops, NEW i \in 1..Len(batch'[l])
        PROVE  AtHome(batch[l][i], l)'
    BY <1>2 DEF AtHome
  <2>6. QED  BY <2>4, <2>5 DEF HomeInv
<1>6. QED  BY <1>4, <1>5

LEMMA FreshStays ==
    ASSUME TypeOK, FreshInv, Queues(LaterNames), UNCHANGED batch,
           \A c \in Conns : state[c] = "kConnecting" => state'[c] = "kConnecting" \/ Spent(c),
           \A l \in Loops : ran'[l] \in Nat /\ ran'[l] >= ran[l]
    PROVE  FreshInv'
<1> SUFFICES ASSUME NEW l \in Loops, NEW c \in Conns
             PROVE  FreshIn(pending'[l], batch[l], ran'[l], state'[c], c)
  BY DEF FreshInv
<1>1. ran[l] \in Nat /\ ran'[l] \in Nat /\ ran'[l] >= ran[l] /\ Len(batch[l]) \in Nat
  BY DEF TypeOK, LoopTypeOK
<1>2. \A i \in 1..Len(batch[l]) : i > ran'[l] => i > ran[l]
  BY <1>1
<1>3. \A i \in 1..Len(pending'[l]) :
         Establishes(pending'[l][i], c) => i \in 1..Len(pending[l]) /\ pending'[l][i] = pending[l][i]
  <2>1. CASE UNCHANGED pending
    BY <2>1
  <2>2. CASE ~UNCHANGED pending
    <3>1. PICK k \in Loops, by \in Loops, d \in Conns, name \in FunctorNames :
             name # "connectEstablished" /\ QueueInLoop(k, Functor(name, d), by)
      BY <2>2 DEF Queues, LaterNames
    <3>2. ~Establishes(Functor(name, d), c)
      BY <3>1, FunctorFields DEF Establishes
    <3>3. Functor(name, d) \in Functors
      BY FunctorType
    <3>4. QED  BY <3>1, <3>2, <3>3, QueueAdds
  <2>3. QED  BY <2>1, <2>2
<1>4. FreshIn(pending[l], batch[l], ran[l], state[c], c)
  BY DEF FreshInv
<1>5. QED  BY <1>2, <1>3, <1>4 DEF FreshIn, Spent

(* The frame of handling an event, of running a functor and of a step outside *)
(* the loops.                                                                 *)
Frame == /\ UNCHANGED <<lpc, batch>>
         /\ \A l \in Loops : ran'[l] \in Nat /\ ran'[l] >= ran[l]
         /\ \A l \in Loops : active'[l] \subseteq active[l]

LEMMA FrameFacts ==
    ASSUME TypeOK, NEW l \in Loops,
           \/ \E ch : Handling(l, ch)
           \/ \E f : Running(l, f)
           \/ UNCHANGED <<lpc, active, batch, ran>>
    PROVE  Frame
<1> USE DEF TypeOK, LoopTypeOK, Frame
<1>1. CASE \E ch : Handling(l, ch)
  BY <1>1 DEF Handling
<1>2. CASE \E f : Running(l, f)
  BY <1>2 DEF Running
<1>3. CASE UNCHANGED <<lpc, active, batch, ran>>
  BY <1>3
<1>4. QED  BY <1>1, <1>2, <1>3

LEMMA ConnStays ==
    ASSUME TypeOK, HomeInv, FreshInv, Queues(LaterNames), Frame, ConnsStay,
           \A c \in Conns : state[c] = "kConnecting" => state'[c] = "kConnecting" \/ Spent(c)
    PROVE  HomeInv' /\ FreshInv'
<1>1. Queues(FunctorNames)
  BY DEF Queues, LaterNames
<1>2. QED  BY <1>1, HomeStays, FreshStays DEF Frame

LEMMA UpAndDown == Append(<<"up">>, "down") = <<"up", "down">> /\ Append(<<>>, "up") = <<"up">>
<1>1. Append(<<"up">>, "down") = <<"up", "down">>
  <2> DEFINE S == {"up", "down"}
             a == Append(<<"up">>, "down")
             b == <<"up", "down">>
  <2>1. <<"up">> \in Seq(S) /\ Len(<<"up">>) = 1 /\ <<"up">>[1] = "up"
    OBVIOUS
  <2>2. a \in Seq(S) /\ Len(a) = 2 /\ a[1] = "up" /\ a[2] = "down"
    BY <2>1, AppendProperties
  <2>3. b \in Seq(S) /\ Len(b) = 2 /\ b[1] = "up" /\ b[2] = "down"
    OBVIOUS
  <2> HIDE DEF a, b, S
  <2>4. \A i \in 1..Len(a) : a[i] = b[i]
    BY <2>2, <2>3
  <2>5. a = b
    BY <2>2, <2>3, <2>4, SeqEqual
  <2>6. QED  BY <2>5 DEF a, b
<1>2. Append(<<>>, "up") = <<"up">>
  <2> DEFINE S == {"up", "down"}
             a == Append(<<>>, "up")
             b == <<"up">>
  <2>1. <<>> \in Seq(S) /\ Len(<<>>) = 0
    OBVIOUS
  <2>2. a \in Seq(S) /\ Len(a) = 1 /\ a[1] = "up"
    BY <2>1, AppendProperties
  <2>3. b \in Seq(S) /\ Len(b) = 1 /\ b[1] = "up"
    OBVIOUS
  <2> HIDE DEF a, b, S
  <2>4. \A i \in 1..Len(a) : a[i] = b[i]
    BY <2>2, <2>3
  <2>5. a = b
    BY <2>2, <2>3, <2>4, SeqEqual
  <2>6. QED  BY <2>5 DEF a, b
<1>3. QED  BY <1>1, <1>2

(* handleClose of an open connection whose event is not waiting any more.     *)
LEMMA CloseLife ==
    ASSUME TypeOK, LifeInv, NEW l \in Loops, NEW c \in Conns, IsOpen(c),
           HandleClose(c, l), Frame, UNCHANGED loopOf,
           \A k \in Loops : c \notin active'[k]
    PROVE  ConnInv'
<1>1. state' = [state EXCEPT ![c] = "kDisconnected"]
  BY DEF HandleClose, Become
<1>2. ConnsStay /\ \A d \in Conns : state[d] = "kConnecting" => state'[d] = "kConnecting"
  BY <1>1 DEF ConnsStay, IsOpen, TypeOK
<1>3. ToldInv'
  <2>1. told' = [told EXCEPT ![c] = Append(@, "down")] /\ told[c] = <<"up">>
    BY DEF HandleClose, Tell, LifeInv, ConnInv, ToldInv
  <2>2. told' = [told EXCEPT ![c] = <<"up", "down">>]
    BY <2>1, UpAndDown
  <2>3. QED  BY <1>1, <2>2 DEF TypeOK, LifeInv, ConnInv, ToldInv, IsOpen
<1>4. ChannelInv'
  BY <1>1 DEF HandleClose, TypeOK, LifeInv, ConnInv, ChannelInv, IsOpen, Frame
<1>5. Queues(LaterNames)
  <2>1. loopOf[c] \in Loops /\ state'[c] # "none"
    BY <1>1 DEF TypeOK
  <2>2. AtHome(Functor("connectDestroyed", c), loopOf[c])'
        /\ AtHome(Functor("removeConnectionInLoop", c), Base)'
    BY <2>1, FunctorFields DEF AtHome
  <2>3. CASE QueueInLoop(Base, Functor("removeConnectionInLoop", c), l)
    BY <2>2, <2>3 DEF Queues, LaterNames, FunctorNames
  <2>4. CASE QueueInLoop(loopOf[c], Functor("connectDestroyed", c), l)
    <3>1. AtHome(Functor("connectDestroyed", c), loopOf[c])'
      BY <2>2
    <3>2. PICK k \in Loops : k = loopOf[c]
      BY <2>1
    <3>3. AtHome(Functor("connectDestroyed", c), k)'
      BY <2>1, <3>2, FunctorFields DEF AtHome
    <3>4. QED  BY <2>4, <3>2, <3>3 DEF Queues, LaterNames, FunctorNames
  <2>5. QED  BY <2>3, <2>4 DEF HandleClose, RemoveConnection, RemoveConnectionInLoop
<1>6. QED  BY <1>2, <1>3, <1>4, <1>5, ConnStays DEF LifeInv, ConnInv

(* connectDestroyed of a connection whose event is not waiting any more.      *)
LEMMA DestroyedLife ==
    ASSUME TypeOK, LifeInv, NEW c \in Conns, ConnectDestroyed(c), Frame,
           UNCHANGED <<loopOf, pending>>,
           \A k \in Loops : c \notin active[k]
    PROVE  ConnInv'
<1>1. \/ /\ state[c] = "kConnected" /\ state' = [state EXCEPT ![c] = "kDisconnected"]
         /\ told' = [told EXCEPT ![c] = Append(@, "down")]
      \/ UNCHANGED <<state, told>>
  BY DEF ConnectDestroyed, Become, Tell
<1>2. ConnsStay /\ \A d \in Conns : state[d] = "kConnecting" => state'[d] = "kConnecting"
  BY <1>1 DEF ConnsStay, TypeOK
<1>3. ToldInv'
  <2>1. CASE UNCHANGED <<state, told>>
    BY <2>1 DEF LifeInv, ConnInv, ToldInv, IsOpen
  <2>2. CASE ~UNCHANGED <<state, told>>
    <3>1. told[c] = <<"up">>
      BY <1>1, <2>2 DEF LifeInv, ConnInv, ToldInv, IsOpen
    <3>2. told' = [told EXCEPT ![c] = <<"up", "down">>]
      BY <1>1, <2>2, <3>1, UpAndDown
    <3>3. QED  BY <1>1, <2>2, <3>2 DEF TypeOK, LifeInv, ConnInv, ToldInv, IsOpen
  <2>3. QED  BY <2>1, <2>2
<1>4. ChannelInv'
  <2>1. index' = [index EXCEPT ![c] = "kNew"]
    BY DEF ConnectDestroyed
  <2>2. \A d \in Conns : d # c => (IsOpen(d)' <=> IsOpen(d))
    BY <1>1 DEF TypeOK, IsOpen
  <2>3. QED  BY <2>1, <2>2 DEF TypeOK, LifeInv, ConnInv, ChannelInv, Frame
<1>5. Queues(LaterNames)
  BY DEF Queues
<1>6. QED  BY <1>2, <1>3, <1>4, <1>5, ConnStays DEF LifeInv, ConnInv

(* connectEstablished at home, when no other is left to run.                  *)
LEMMA EstablishedLife ==
    ASSUME TypeOK, LifeInv, NEW l \in Loops, NEW c \in Conns, ConnectEstablished(c, l), Frame,
           UNCHANGED loopOf, loopOf[c] = l, state[c] \in {"none", "kConnecting"}, Spent(c)
    PROVE  ConnInv'
<1>1. PICK s \in {"kConnected", "kDisconnecting"} : state' = [state EXCEPT ![c] = s]
  BY DEF ConnectEstablished, Become
<1>2. ConnsStay
      /\ \A d \in Conns : state[d] = "kConnecting" => state'[d] = "kConnecting" \/ Spent(d)
  BY <1>1 DEF ConnsStay, TypeOK
<1>3. ToldInv'
  <2>1. told' = [told EXCEPT ![c] = Append(@, "up")] /\ told[c] = <<>>
    BY DEF ConnectEstablished, Tell, LifeInv, ConnInv, ToldInv
  <2>2. told' = [told EXCEPT ![c] = <<"up">>]
    BY <2>1, UpAndDown
  <2>3. QED  BY <1>1, <2>2 DEF TypeOK, LifeInv, ConnInv, ToldInv, IsOpen
<1>4. ChannelInv'
  BY <1>1 DEF ConnectEstablished, TypeOK, LifeInv, ConnInv, ChannelInv, IsOpen, Frame
<1>5. Queues(LaterNames)
  <2>1. AtHome(Functor("forceCloseInLoop", c), l)'
    BY <1>1, FunctorFields DEF AtHome, TypeOK
  <2>2. QED  BY <2>1 DEF ConnectEstablished, Queues, LaterNames, FunctorNames
<1>6. QED  BY <1>2, <1>3, <1>4, <1>5, ConnStays DEF LifeInv, ConnInv

(* Nothing waits for a connection that does not exist.                        *)
LEMMA NothingWaits ==
    ASSUME TypeOK, HomeInv, NEW c \in Conns, state[c] = "none"
    PROVE  \A l \in Loops :
               /\ \A i \in 1..Len(pending[l]) : ~Establishes(pending[l][i], c)
               /\ \A i \in 1..Len(batch[l]) : ~Establishes(batch[l][i], c)
BY DEF HomeInv, AtHome, Establishes

LEMMA AcceptLife ==
    ASSUME TypeOK, PhaseInv, LifeInv, NEW c \in Conns, NewConnection(c)
    PROVE  ConnInv'
<1>1. Frame /\ state[c] = "none"
  BY FrameFacts DEF NewConnection
<1>2. CASE pool = <<>>
  <2>1. loopOf[c] = Base /\ Spent(c)
    BY <1>1, NothingWaits DEF LifeInv, ConnInv, ServerInv, Spent
  <2>2. ConnectEstablished(c, Base) /\ UNCHANGED loopOf
    BY <1>2 DEF NewConnection
  <2>3. QED  BY <1>1, <2>1, <2>2, EstablishedLife
<1>3. CASE pool # <<>>
  <2>1. PICK k \in Loops : k = NextLoop
    BY <1>3 DEF NextLoop, TypeOK
  <2>2. /\ loopOf' = [loopOf EXCEPT ![c] = k]
        /\ state' = [state EXCEPT ![c] = "kConnecting"]
        /\ QueueInLoop(k, Functor("connectEstablished", c), Base)
        /\ UNCHANGED <<index, told>>
    BY <1>3, <2>1 DEF NewConnection, Become
  <2>3. ToldInv' /\ ChannelInv'
    BY <1>1, <2>2 DEF TypeOK, LifeInv, ConnInv, ToldInv, ChannelInv, IsOpen, Frame
  <2>4. HomeInv'
    <3>1. ConnsStay
      BY <1>1, <2>2 DEF ConnsStay, TypeOK
    <3>2. AtHome(Functor("connectEstablished", c), k)'
      BY <2>2, FunctorFields DEF AtHome, TypeOK
    <3>3. Queues(FunctorNames)
      BY <2>2, <3>2 DEF Queues, FunctorNames
    <3>4. QED  BY <1>1, <3>1, <3>3, HomeStays DEF LifeInv, ConnInv, Frame
  <2>5. FreshInv'
    <3> DEFINE f == Functor("connectEstablished", c)
    <3> SUFFICES ASSUME NEW l \in Loops, NEW d \in Conns
                 PROVE  FreshIn(pending'[l], batch[l], ran'[l], state'[d], d)
      BY <1>1 DEF FreshInv, Frame
    <3>1. f \in Functors
      BY FunctorType DEF FunctorNames
    <3>2. ran[l] \in Nat /\ ran'[l] \in Nat /\ ran'[l] >= ran[l]
      BY <1>1 DEF Frame, TypeOK, LoopTypeOK
    <3>3. \A i \in 1..Len(batch[l]) : i > ran'[l] => i > ran[l]
      BY <3>2
    <3>4. FreshIn(pending[l], batch[l], ran[l], state[d], d)
      BY DEF LifeInv, ConnInv, FreshInv
    <3>5. CASE d = c
      <4>1. \A i \in 1..Len(batch[l]) : ~Establishes(batch[l][i], d)
        BY <1>1, <3>5, NothingWaits DEF LifeInv, ConnInv
      <4>2. \A i \in 1..Len(pending'[l]) :
               Establishes(pending'[l][i], d) => l = k /\ i = Len(pending[k]) + 1
        BY <1>1, <2>2, <3>1, <3>5, NothingWaits, QueueAdds DEF LifeInv, ConnInv
      <4>3. state'[d] = "kConnecting"
        BY <2>2, <3>5 DEF TypeOK
      <4>4. QED  BY <4>1, <4>2, <4>3 DEF FreshIn
    <3>6. CASE d # c
      <4>1. ~Establishes(f, d)
        BY <3>6, FunctorFields DEF Establishes
      <4>2. \A i \in 1..Len(pending'[l]) :
               Establishes(pending'[l][i], d) =>
                  i \in 1..Len(pending[l]) /\ pending'[l][i] = pending[l][i]
        BY <2>2, <3>1, <4>1, QueueAdds
      <4>3. state'[d] = state[d]
        BY <2>2, <3>6 DEF TypeOK
      <4>4. QED  BY <3>3, <3>4, <4>2, <4>3 DEF FreshIn
    <3>7. QED  BY <3>5, <3>6
  <2>6. QED  BY <2>3, <2>4, <2>5 DEF ConnInv
<1>4. QED  BY <1>2, <1>3

LEMMA ReadLife ==
    ASSUME TypeOK, LifeInv, NEW l \in Loops, NEW c \in Conns, ReadData(l, c) \/ ReadEnd(l, c)
    PROVE  ConnInv'
<1>1. Frame /\ UNCHANGED loopOf
  BY FrameFacts DEF ReadData, ReadEnd
<1>2. IsOpen(c) /\ loopOf[c] = l
  BY DEF ReadData, ReadEnd, Handling, LifeInv, ConnInv, ChannelInv
<1>3. CASE ReadData(l, c)
  <2>1. UNCHANGED state \/ state' = [state EXCEPT ![c] = "kDisconnecting"]
    BY <1>3 DEF ReadData, Become
  <2>2. ConnsStay /\ \A d \in Conns : state[d] = "kConnecting" => state'[d] = "kConnecting"
    BY <1>1, <1>2, <2>1 DEF ConnsStay, IsOpen, TypeOK
  <2>3. \A d \in Conns : \/ IsOpen(d) /\ IsOpen(d)'
                         \/ state'[d] = state[d]
    BY <1>2, <2>1 DEF TypeOK, IsOpen
  <2>4. ToldInv' /\ ChannelInv'
    <3>1. UNCHANGED <<told, index>>
      BY <1>3 DEF ReadData
    <3>2. ToldInv'
      BY <2>3, <3>1 DEF LifeInv, ConnInv, ToldInv, IsOpen
    <3>3. ChannelInv'
      BY <1>1, <2>3, <3>1 DEF LifeInv, ConnInv, ChannelInv, IsOpen, Frame
    <3>4. QED  BY <3>2, <3>3
  <2>5. Queues(LaterNames)
    <3>1. state'[c] # "none" /\ loopOf'[c] = l
      BY <1>1, <1>2, <2>2 DEF ConnsStay, IsOpen
    <3>2. AtHome(Functor("forceCloseInLoop", c), l)'
      BY <3>1, FunctorFields DEF AtHome
    <3>3. QED  BY <1>3, <3>2 DEF ReadData, Queues, LaterNames, FunctorNames
  <2>6. QED  BY <1>1, <2>2, <2>4, <2>5, ConnStays DEF LifeInv, ConnInv
<1>4. CASE ReadEnd(l, c)
  <2>1. \A k \in Loops : c \notin active'[k]
    BY <1>2, <1>4 DEF ReadEnd, Handling, TypeOK, LoopTypeOK, LifeInv, ConnInv, ChannelInv
  <2>2. QED  BY <1>1, <1>2, <1>4, <2>1, CloseLife DEF ReadEnd
<1>5. QED  BY <1>3, <1>4

LEMMA FunctorLife ==
    ASSUME TypeOK, PhaseInv, LifeInv, NEW l \in Loops, NEW c \in Conns,
           \/ RunConnectEstablished(l, c) \/ RunForceClose(l, c)
           \/ RunRemove(l, c) \/ RunConnectDestroyed(l, c)
    PROVE  ConnInv'
<1> DEFINE n == ran[l] + 1
<1>1. Frame /\ UNCHANGED loopOf
  BY FrameFacts
     DEF RunConnectEstablished, RunForceClose, RunRemove, RunConnectDestroyed, connVars
<1>2. PICK name \in FunctorNames : Running(l, Functor(name, c))
  BY DEF RunConnectEstablished, RunForceClose, RunRemove, RunConnectDestroyed, FunctorNames
<1>3. /\ n \in 1..Len(batch[l]) /\ n > ran[l] /\ batch[l][n] = Functor(name, c)
      /\ ran'[l] = n /\ active[l] = {} /\ UNCHANGED active
  <2>1. ran[l] \in Nat /\ Len(batch[l]) \in Nat /\ ran \in [Loops -> Nat]
    BY DEF TypeOK, LoopTypeOK
  <2>2. ran[l] < Len(batch[l]) /\ lpc[l] = "functors"
        /\ batch[l][n] = Functor(name, c) /\ ran' = [ran EXCEPT ![l] = n] /\ UNCHANGED active
    BY <1>2 DEF Running
  <2>3. active[l] = {}
    BY <2>2 DEF PhaseInv
  <2>4. QED  BY <2>1, <2>2, <2>3
<1>4. AtHome(Functor(name, c), l)
  BY <1>3 DEF LifeInv, ConnInv, HomeInv
<1>5. state[c] # "none" /\ (name # "removeConnectionInLoop" => loopOf[c] = l)
  BY <1>4, FunctorFields DEF AtHome
<1>6. name # "removeConnectionInLoop" => \A k \in Loops : c \notin active[k] /\ c \notin active'[k]
  BY <1>3, <1>5 DEF LifeInv, ConnInv, ChannelInv
<1>7. \A other : Running(l, Functor(other, c)) => other = name
  BY <1>2, FunctorFields DEF Running
<1>8. ASSUME UNCHANGED <<state, told, index>>, Queues(LaterNames)
      PROVE  ConnInv'
  <2>1. ToldInv' /\ ChannelInv'
    BY <1>1, <1>8 DEF LifeInv, ConnInv, ToldInv, ChannelInv, IsOpen, Frame
  <2>2. ConnsStay
    BY <1>1, <1>8 DEF ConnsStay
  <2>3. QED  BY <1>1, <1>8, <2>1, <2>2, ConnStays DEF LifeInv, ConnInv
<1>9. CASE RunConnectEstablished(l, c)
  <2>1. name = "connectEstablished"
    BY <1>7, <1>9 DEF RunConnectEstablished
  <2>2. Establishes(batch[l][n], c)
    BY <1>3, <2>1, FunctorFields DEF Establishes
  <2>3. FreshIn(pending[l], batch[l], ran[l], state[c], c)
    BY DEF LifeInv, ConnInv, FreshInv
  <2>4. state[c] = "kConnecting"
    BY <1>3, <2>2, <2>3 DEF FreshIn
  <2>5. \A i \in 1..Len(pending[l]) : ~Establishes(pending[l][i], c)
    BY <1>3, <2>2, <2>3 DEF FreshIn
  <2>6. \A i \in 1..Len(batch[l]) : i > ran'[l] => ~Establishes(batch[l][i], c)
    <3>1. ran[l] \in Nat
      BY DEF TypeOK, LoopTypeOK
    <3>2. \A i \in 1..Len(batch[l]) : i > ran'[l] => i > ran[l] /\ i # n
      BY <1>3, <3>1
    <3>3. QED  BY <1>3, <2>2, <2>3, <3>2 DEF FreshIn
  <2>7. ASSUME NEW k \in Loops, k # l
        PROVE  /\ \A i \in 1..Len(pending[k]) : ~Establishes(pending[k][i], c)
               /\ \A i \in 1..Len(batch[k]) : ~Establishes(batch[k][i], c)
    BY <1>5, <2>1, <2>7 DEF LifeInv, ConnInv, HomeInv, AtHome, Establishes
  <2>8. Spent(c)
    BY <2>5, <2>6, <2>7 DEF Spent
  <2>9. QED  BY <1>1, <1>5, <1>9, <2>1, <2>4, <2>8, EstablishedLife DEF RunConnectEstablished
<1>10. CASE RunForceClose(l, c)
  <2>1. name = "forceCloseInLoop"
    BY <1>7, <1>10 DEF RunForceClose
  <2>2. CASE IsOpen(c)
    BY <1>1, <1>6, <1>10, <2>1, <2>2, CloseLife DEF RunForceClose
  <2>3. CASE ~IsOpen(c)
    BY <1>8, <1>10, <2>3 DEF RunForceClose, Queues
  <2>4. QED  BY <2>2, <2>3
<1>11. CASE RunRemove(l, c)
  <2>1. UNCHANGED <<state, told, index>>
    BY <1>11 DEF RunRemove, connVars
  <2>2. PICK k \in Loops : k = loopOf[c]
    BY DEF TypeOK
  <2>3. AtHome(Functor("connectDestroyed", c), k)'
    BY <1>1, <1>5, <2>1, <2>2, FunctorFields DEF AtHome
  <2>4. Queues(LaterNames)
    BY <1>11, <2>2, <2>3
       DEF RunRemove, RemoveConnectionInLoop, Queues, LaterNames, FunctorNames
  <2>5. QED  BY <1>8, <2>1, <2>4
<1>12. CASE RunConnectDestroyed(l, c)
  <2>1. name = "connectDestroyed"
    BY <1>7, <1>12 DEF RunConnectDestroyed
  <2>2. QED  BY <1>1, <1>6, <1>12, <2>1, DestroyedLife DEF RunConnectDestroyed
<1>13. QED  BY <1>9, <1>10, <1>11, <1>12

LEMMA LoopOnlyLife ==
    ASSUME TypeOK, PhaseInv, LifeInv, NEW l \in Loops, LoopOnly(l) \/ LoopIdles(l)
    PROVE  ConnInv'
<1>1. UNCHANGED <<loopOf, state, index, told>>
  BY DEF LoopOnly, LoopIdles, connVars
<1>2. ToldInv'
  BY <1>1 DEF LifeInv, ConnInv, ToldInv, IsOpen
<1>3. ASSUME \A k \in Loops : active'[k] \subseteq active[k]
      PROVE  ChannelInv'
  BY <1>1, <1>3 DEF LifeInv, ConnInv, ChannelInv, IsOpen
<1>4. ASSUME UNCHANGED <<pending, batch, ran>>
      PROVE  HomeInv' /\ FreshInv'
  BY <1>1, <1>4 DEF LifeInv, ConnInv, HomeInv, AtHome, FreshInv
<1>5. CASE Enter(l) \/ Test(l) \/ PollTimesOut(l) \/ HandleWakeup(l)
  <2>1. UNCHANGED <<pending, batch, ran>> /\ \A k \in Loops : active'[k] \subseteq active[k]
    BY <1>5 DEF Enter, Test, PollTimesOut, HandleWakeup, TypeOK, LoopTypeOK
  <2>2. QED  BY <1>2, <1>3, <1>4, <2>1 DEF ConnInv
<1>6. CASE Poll(l, Ready(l))
  <2>1. UNCHANGED <<pending, batch, ran>>
    BY <1>6 DEF Poll
  <2>2. PICK some \in SUBSET Ready(l) :
            active' = [active EXCEPT ![l] = some \cup (IF woken[l] THEN {"wakeup"} ELSE {})]
    BY <1>6 DEF Poll
  <2>3. \A c \in Conns : c \in active'[l] => index[c] = "kAdded" /\ loopOf[c] = l
    BY <2>2, ChannelsAssumption DEF Ready, TypeOK, LoopTypeOK
  <2>4. \A k \in Loops : k # l => active'[k] = active[k]
    BY <2>2 DEF TypeOK, LoopTypeOK
  <2>5. ChannelInv'
    BY <1>1, <2>3, <2>4 DEF LifeInv, ConnInv, ChannelInv, IsOpen
  <2>6. QED  BY <1>2, <1>4, <2>1, <2>5 DEF ConnInv
<1>7. CASE Swap(l) \/ EndFunctors(l)
  <2>1. UNCHANGED active
    BY <1>7 DEF Swap, EndFunctors
  <2>2. \A k \in Loops :
           \/ k # l /\ pending'[k] = pending[k] /\ batch'[k] = batch[k] /\ ran'[k] = ran[k]
           \/ k = l /\ pending'[k] = <<>> /\ batch'[k] = pending[k] /\ ran'[k] = 0
           \/ k = l /\ pending'[k] = pending[k] /\ batch'[k] = <<>> /\ ran'[k] = 0
    <3>1. CASE Swap(l)
      <4>1. ran[l] = 0
        BY <3>1 DEF Swap, PhaseInv
      <4>2. QED  BY <3>1, <4>1 DEF Swap, TypeOK, LoopTypeOK
    <3>2. CASE EndFunctors(l)
      BY <3>2 DEF EndFunctors, TypeOK, LoopTypeOK
    <3>3. QED  BY <1>7, <3>1, <3>2
  <2>3. Len(<<>>) = 0
    OBVIOUS
  <2>4. HomeInv'
    BY <1>1, <2>2, <2>3 DEF LifeInv, ConnInv, HomeInv, AtHome
  <2>5. FreshInv'
    <3> SUFFICES ASSUME NEW k \in Loops, NEW c \in Conns
                 PROVE  FreshIn(pending'[k], batch'[k], ran'[k], state[c], c)
      BY <1>1 DEF FreshInv
    <3>1. FreshIn(pending[k], batch[k], ran[k], state[c], c)
      BY DEF LifeInv, ConnInv, FreshInv
    <3>2. QED  BY <2>2, <2>3, <3>1 DEF FreshIn
  <2>6. QED  BY <1>2, <1>3, <2>1, <2>4, <2>5 DEF ConnInv
<1>8. QED  BY <1>5, <1>6, <1>7 DEF LoopOnly, LoopIdles

LEMMA EndLife ==
    ASSUME TypeOK, PhaseInv, LifeInv,
           (\E c \in Conns : PeerCloses(c)) \/ StopServing \/ Destruction \/ UNCHANGED vars
    PROVE  ConnInv'
<1>1. ASSUME UNCHANGED <<active, pending, batch, ran, connVars>>
      PROVE  ConnInv'
  BY <1>1 DEF LifeInv, ConnInv, ToldInv, ChannelInv, HomeInv, FreshInv, AtHome, IsOpen, connVars
<1>2. CASE \/ \E c \in Conns : PeerCloses(c)
           \/ StopServing \/ BeginDestruction \/ QuitThread \/ JoinThread \/ EndDestruction
           \/ UNCHANGED vars
  BY <1>1, <1>2 DEF PeerCloses, StopServing, BeginDestruction, QuitThread, JoinThread,
                    EndDestruction, vars, loopVars
<1>3. ASSUME NEW c \in Conns, DestroyConnection(c)
      PROVE  ConnInv'
  <2>1. Frame /\ UNCHANGED <<active, loopOf>>
    BY <1>3, FrameFacts DEF DestroyConnection
  <2>2. CASE loopOf[c] = Base
    <3>1. active[Base] = {}
      BY <1>3 DEF DestroyConnection, LifeInv, ServerInv, PhaseInv
    <3>2. \A k \in Loops : c \notin active[k]
      BY <2>2, <3>1 DEF LifeInv, ConnInv, ChannelInv
    <3>3. QED  BY <1>3, <2>1, <2>2, <3>2, DestroyedLife DEF DestroyConnection
  <2>3. CASE loopOf[c] # Base
    <3>1. PICK k \in Loops : k = loopOf[c]
      BY DEF TypeOK
    <3>2. UNCHANGED <<state, told, index>> /\ QueueInLoop(k, Functor("connectDestroyed", c), Base)
      BY <1>3, <2>3, <3>1 DEF DestroyConnection
    <3>3. state[c] # "none"
      BY <1>3 DEF DestroyConnection, LifeInv, ServerInv
    <3>4. AtHome(Functor("connectDestroyed", c), k)'
      BY <2>1, <3>1, <3>2, <3>3, FunctorFields DEF AtHome
    <3>5. Queues(LaterNames) /\ ConnsStay
      BY <2>1, <3>2, <3>4 DEF Queues, LaterNames, FunctorNames, ConnsStay
    <3>6. ToldInv' /\ ChannelInv'
      BY <2>1, <3>2 DEF LifeInv, ConnInv, ToldInv, ChannelInv, IsOpen, Frame
    <3>7. QED  BY <2>1, <3>2, <3>5, <3>6, ConnStays DEF LifeInv, ConnInv
  <2>4. QED  BY <2>2, <2>3
<1>4. QED  BY <1>2, <1>3 DEF Destruction

(* The server's side of the invariant.  What does not exist after a step did  *)
(* not exist before, and was not touched.                                     *)
NoneBefore ==
    \A c \in Conns : state'[c] = "none" =>
        state[c] = "none" /\ loopOf'[c] = loopOf[c] /\ (c \in connections' => c \in connections)

LEMMA ServerStays ==
    ASSUME UNCHANGED stage \/ lpc'[Base] = "left",
           lpc[Base] = "left" => lpc'[Base] = "left",
           ServerInv, NoneBefore
    PROVE  ServerInv'
BY DEF ServerInv, NoneBefore

LEMMA ServerLife ==
    ASSUME TypeOK, LifeInv, [Next]_vars
    PROVE  ServerInv'
<1>1. UNCHANGED stage \/ lpc'[Base] = "left"
  <2>1. CASE BeginDestruction \/ QuitThread \/ JoinThread \/ EndDestruction
    BY <2>1 DEF BeginDestruction, QuitThread, JoinThread, EndDestruction, loopVars,
                LifeInv, ServerInv
  <2>2. CASE ~(BeginDestruction \/ QuitThread \/ JoinThread \/ EndDestruction)
    BY <2>2 DEF Next, LoopStep, LoopOnly, LoopIdles, NewConnection, ReadData, ReadEnd,
                RunConnectEstablished, RunForceClose, RunRemove, RunConnectDestroyed,
                PeerCloses, StopServing, Destruction, DestroyConnection, poolVars, vars
  <2>3. QED  BY <2>1, <2>2
<1>2. lpc[Base] = "left" => lpc'[Base] = "left"
  <2>1. CASE UNCHANGED lpc
    BY <2>1
  <2>2. ASSUME NEW l \in Loops, LoopOnly(l) \/ LoopIdles(l)
        PROVE  lpc[Base] = "left" => lpc'[Base] = "left"
    BY <2>2 DEF LoopOnly, LoopIdles, Enter, Test, Poll, PollTimesOut, HandleWakeup, Swap,
                EndFunctors, GotoPhase, TypeOK, LoopTypeOK
  <2>3. CASE ~UNCHANGED lpc
    BY <2>2, <2>3 DEF Next, LoopStep, NewConnection, ReadData, ReadEnd, Handling, Running,
                RunConnectEstablished, RunForceClose, RunRemove, RunConnectDestroyed,
                PeerCloses, StopServing, Destruction, BeginDestruction, QuitThread, JoinThread,
                EndDestruction, DestroyConnection, loopVars, vars
  <2>4. QED  BY <2>1, <2>3
<1>3. NoneBefore
  <2>1. CASE UNCHANGED <<state, loopOf>> /\ connections' \subseteq connections
    BY <2>1 DEF NoneBefore
  <2>2. ASSUME NEW d \in Conns, NEW s \in States \ {"none"}, Become(d, s),
               \A c \in Conns : c # d => loopOf'[c] = loopOf[c],
               connections' \subseteq connections \cup {d}
        PROVE  NoneBefore
    BY <2>2 DEF Become, TypeOK, NoneBefore
  <2>3. ASSUME NEW d \in Conns, NewConnection(d)
        PROVE  /\ \E s \in States \ {"none"} : Become(d, s)
               /\ \A c \in Conns : c # d => loopOf'[c] = loopOf[c]
               /\ connections' \subseteq connections \cup {d}
    BY <2>3 DEF NewConnection, ConnectEstablished, States, TypeOK
  <2>4. ASSUME NEW d \in Conns, NEW l \in Loops,
               HandleClose(d, l) \/ ConnectEstablished(d, l) \/ ConnectDestroyed(d)
        PROVE  (\E s \in States \ {"none"} : Become(d, s)) \/ UNCHANGED state
    BY <2>4 DEF HandleClose, ConnectEstablished, ConnectDestroyed, States
  <2>5. ASSUME NEW d \in Conns, NEW l \in Loops, HandleClose(d, l)
        PROVE  connections' \subseteq connections
    BY <2>5 DEF HandleClose, RemoveConnection, RemoveConnectionInLoop
  <2>6. ASSUME NEW d \in Conns, NEW l \in Loops,
               \/ ReadData(l, d) \/ ReadEnd(l, d) \/ RunConnectEstablished(l, d)
               \/ RunForceClose(l, d) \/ RunRemove(l, d) \/ RunConnectDestroyed(l, d)
               \/ DestroyConnection(d)
        PROVE  /\ (\E s \in States \ {"none"} : Become(d, s)) \/ UNCHANGED state
               /\ UNCHANGED loopOf
               /\ connections' \subseteq connections
    <3>1. (\E s \in States \ {"none"} : Become(d, s)) \/ UNCHANGED state
      BY <2>4, <2>6 DEF ReadData, ReadEnd, RunConnectEstablished, RunForceClose, RunRemove,
                        RunConnectDestroyed, DestroyConnection, connVars, States
    <3>2. UNCHANGED loopOf /\ connections' \subseteq connections
      BY <2>5, <2>6 DEF ReadData, ReadEnd, RunConnectEstablished, RunForceClose, RunRemove,
                        RunConnectDestroyed, DestroyConnection, RemoveConnectionInLoop, connVars
    <3>3. QED  BY <3>1, <3>2
  <2>7. CASE \/ \E c \in Conns : PeerCloses(c)
             \/ \E l \in Loops : LoopOnly(l) \/ LoopIdles(l)
             \/ StopServing \/ BeginDestruction \/ QuitThread \/ JoinThread \/ EndDestruction
             \/ UNCHANGED vars
    BY <2>1, <2>7 DEF PeerCloses, LoopOnly, LoopIdles, StopServing, BeginDestruction, QuitThread,
                      JoinThread, EndDestruction, connVars, vars
  <2>8. ASSUME NEW d \in Conns, NEW l \in Loops,
               \/ ReadData(l, d) \/ ReadEnd(l, d) \/ RunConnectEstablished(l, d)
               \/ RunForceClose(l, d) \/ RunRemove(l, d) \/ RunConnectDestroyed(l, d)
               \/ DestroyConnection(d) \/ NewConnection(d)
        PROVE  NoneBefore
    BY <2>1, <2>2, <2>3, <2>6, <2>8
  <2>9. QED  BY <2>7, <2>8 DEF Next, LoopStep, Destruction
<1>4. QED  BY <1>1, <1>2, <1>3, ServerStays DEF LifeInv

LEMMA InitLife == Init => LifeInv
<1> SUFFICES ASSUME Init PROVE LifeInv
  OBVIOUS
<1>1. Len(<<>>) = 0
  OBVIOUS
<1>2. ConnInv
  BY <1>1 DEF Init, LoopsInit, ConnInv, ToldInv, ChannelInv, HomeInv, FreshInv, FreshIn, IsOpen
<1>3. ServerInv
  BY DEF Init, ServerInv
<1>4. QED  BY <1>2, <1>3 DEF LifeInv

LEMMA NextLife == TypeOK /\ PhaseInv /\ LifeInv /\ [Next]_vars => LifeInv'
<1> SUFFICES ASSUME TypeOK, PhaseInv, LifeInv, [Next]_vars PROVE LifeInv'
  OBVIOUS
<1>1. ServerInv'
  BY ServerLife
<1>2. ConnInv'
  <2>1. CASE \E l \in Loops : LoopStep(l) \/ LoopIdles(l)
    BY <2>1, LoopOnlyLife, AcceptLife, ReadLife, FunctorLife DEF LoopStep
  <2>2. CASE (\E c \in Conns : PeerCloses(c)) \/ StopServing \/ Destruction \/ UNCHANGED vars
    BY <2>2, EndLife
  <2>3. QED  BY <2>1, <2>2 DEF Next
<1>3. QED  BY <1>1, <1>2 DEF LifeInv

(* The inductive invariant.                                                   *)
LEMMA LifeHolds == Spec => [](TypeOK /\ PhaseInv /\ LifeInv)
<1>1. Init => TypeOK /\ PhaseInv /\ LifeInv
  BY InitType, InitLife
<1>2. TypeOK /\ PhaseInv /\ LifeInv /\ [Next]_vars => (TypeOK /\ PhaseInv /\ LifeInv)'
  BY NextType, NextLife
<1>3. QED  BY <1>1, <1>2, PTL DEF Spec

(* The connection callback hears of every connection once when it is up and   *)
(* once, later, when it is down: handleClose, forceCloseInLoop,               *)
(* connectDestroyed and ~TcpServer never report an end twice, nor an end      *)
(* before the beginning.                                                      *)
THEOREM ToldInOrder == Spec => []UpThenDown
<1>1. TypeOK /\ PhaseInv /\ LifeInv => UpThenDown
  BY DEF LifeInv, ConnInv, ToldInv, UpThenDown, TypeOK, States, IsOpen
<1>2. QED  BY <1>1, LifeHolds, PTL

-----------------------------------------------------------------------------
(* While the server serves, no assertion on the way of a connection fails,    *)
(* for any pool of loops and any set of connections.  A connection that ends  *)
(* passes through two functors, removeConnectionInLoop in the base loop and   *)
(* connectDestroyed at home; each waits at most once, and where the           *)
(* connection is between the two is told by its state, its channel and the    *)
(* server's map.                                                              *)

Remove(c) == Functor("removeConnectionInLoop", c)
Destroy(c) == Functor("connectDestroyed", c)

(* Functor f waits in a queue or in the rest of a batch of which done have    *)
(* been run; it waits there at most once.                                     *)
WaitsIn(queue, running, done, f) ==
    \/ \E i \in 1..Len(queue) : queue[i] = f
    \/ \E i \in 1..Len(running) : i > done /\ running[i] = f

OnceIn(queue, running, done, f) ==
    /\ \A i, j \in 1..Len(queue) : queue[i] = f /\ queue[j] = f => i = j
    /\ \A i, j \in 1..Len(running) :
          i > done /\ j > done /\ running[i] = f /\ running[j] = f => i = j
    /\ \A i \in 1..Len(queue), j \in 1..Len(running) :
          ~(queue[i] = f /\ j > done /\ running[j] = f)

Waits(f, l) == WaitsIn(pending[l], batch[l], ran[l], f)
Once(f, l) == OnceIn(pending[l], batch[l], ran[l], f)

(* Where connection c is in its life, when it is at home in loop home.        *)
LifeOf(c, home) ==
    /\ Once(Remove(c), Base) /\ Once(Destroy(c), home)
    /\ c \in connections <=>
          state[c] \in {"kConnecting", "kConnected", "kDisconnecting"} \/ Waits(Remove(c), Base)
    /\ Waits(Remove(c), Base) =>
          state[c] = "kDisconnected" /\ index[c] = "kDeleted" /\ ~Waits(Destroy(c), home)
    /\ Waits(Destroy(c), home) => state[c] = "kDisconnected" /\ index[c] = "kDeleted"
    /\ state[c] = "kDisconnected" =>
          index[c] = "kNew" \/ Waits(Remove(c), Base) \/ Waits(Destroy(c), home)

LivesInv == \A c \in Conns : LifeOf(c, loopOf[c])

(* No loop of the pool has been told to quit, and every connection is at home *)
(* in a loop that runs (the base loop may have been stopped).                 *)
PoolRuns ==
    /\ \A l \in Loops \ {Base} : ~quit[l]
    /\ \A i \in 1..Len(pool) : lpc[pool[i]] # "left"
    /\ \A c \in Conns : loopOf[c] = Base \/ lpc[loopOf[c]] # "left"

ServingInv == stage = "serving" => failed = "none" /\ LivesInv /\ PoolRuns

-----------------------------------------------------------------------------
(* What queueing, running, swapping and ending do to the functors that wait.  *)
LEMMA WaitsAppend ==
    ASSUME NEW S, NEW queue \in Seq(S), NEW running \in Seq(S), NEW done \in Nat,
           NEW g \in S, NEW f
    PROVE  /\ WaitsIn(Append(queue, g), running, done, f) <=>
                 WaitsIn(queue, running, done, f) \/ f = g
           /\ OnceIn(queue, running, done, f) /\ (f = g => ~WaitsIn(queue, running, done, f)) =>
                 OnceIn(Append(queue, g), running, done, f)
<1> DEFINE q == Append(queue, g)
<1>1. /\ Len(queue) \in Nat /\ Len(q) = Len(queue) + 1 /\ q[Len(queue) + 1] = g
      /\ \A i \in 1..Len(queue) : q[i] = queue[i]
  OBVIOUS
<1> HIDE DEF q
<1>2. \A i \in 1..Len(q) : i \in 1..Len(queue) \/ i = Len(queue) + 1
  BY <1>1
<1>3. WaitsIn(q, running, done, f) <=> WaitsIn(queue, running, done, f) \/ f = g
  <2>1. (\E i \in 1..Len(q) : q[i] = f) <=> (\E i \in 1..Len(queue) : queue[i] = f) \/ f = g
    BY <1>1, <1>2
  <2>2. QED  BY <2>1 DEF WaitsIn
<1>4. ASSUME OnceIn(queue, running, done, f), f = g => ~WaitsIn(queue, running, done, f)
      PROVE  OnceIn(q, running, done, f)
  <2>1. \A i \in 1..Len(q) : q[i] = f =>
           \/ i \in 1..Len(queue) /\ queue[i] = f
           \/ i = Len(queue) + 1 /\ ~WaitsIn(queue, running, done, f)
    BY <1>1, <1>2, <1>4
  <2>2. \A i, j \in 1..Len(q) : q[i] = f /\ q[j] = f => i = j
    BY <1>4, <2>1 DEF OnceIn, WaitsIn
  <2>3. \A i \in 1..Len(q), j \in 1..Len(running) : ~(q[i] = f /\ j > done /\ running[j] = f)
    BY <1>4, <2>1 DEF OnceIn, WaitsIn
  <2>4. QED  BY <1>4, <2>2, <2>3 DEF OnceIn
<1>5. QED  BY <1>3, <1>4 DEF q

LEMMA WaitsRun ==
    ASSUME NEW S, NEW queue \in Seq(S), NEW running \in Seq(S), NEW done \in Nat, NEW f,
           done < Len(running)
    PROVE  /\ running[done + 1] # f =>
                 (WaitsIn(queue, running, done + 1, f) <=> WaitsIn(queue, running, done, f))
           /\ OnceIn(queue, running, done, f) => OnceIn(queue, running, done + 1, f)
           /\ running[done + 1] = f =>
                 /\ WaitsIn(queue, running, done, f)
                 /\ OnceIn(queue, running, done, f) => ~WaitsIn(queue, running, done + 1, f)
<1>1. Len(running) \in Nat /\ done + 1 \in 1..Len(running) /\ done + 1 > done
  OBVIOUS
<1>2. \A i \in 1..Len(running) : i > done <=> i > done + 1 \/ i = done + 1
  OBVIOUS
<1>3. ~(done + 1 > done + 1)
  OBVIOUS
<1>4. QED  BY <1>1, <1>2, <1>3 DEF WaitsIn, OnceIn

LEMMA WaitsSwap ==
    ASSUME NEW S, NEW queue \in Seq(S), NEW running \in Seq(S), NEW f
    PROVE  /\ WaitsIn(<<>>, queue, 0, f) <=> WaitsIn(queue, <<>>, 0, f)
           /\ OnceIn(<<>>, queue, 0, f) <=> OnceIn(queue, <<>>, 0, f)
           /\ WaitsIn(queue, <<>>, 0, f) <=> WaitsIn(queue, running, Len(running), f)
           /\ OnceIn(queue, <<>>, 0, f) <=> OnceIn(queue, running, Len(running), f)
<1>1. Len(<<>>) = 0 /\ Len(queue) \in Nat /\ Len(running) \in Nat
  OBVIOUS
<1>2. /\ 1..Len(<<>>) = {} /\ \A i \in 1..Len(queue) : i > 0
      /\ \A i \in 1..Len(running) : ~(i > Len(running))
  BY <1>1
<1>3. QED  BY <1>2 DEF WaitsIn, OnceIn

-----------------------------------------------------------------------------
(* Whether a step queues f in loop l, and whether it runs it there.           *)
DoesQueue(f, l) == \E by \in Loops : QueueInLoop(l, f, by)
DoesNotQueue(f, l) ==
    \/ UNCHANGED pending
    \/ \E k \in Loops, by \in Loops, g \in Functors : QueueInLoop(k, g, by) /\ (g # f \/ k # l)
Runs(f, l) ==
    ran[l] < Len(batch[l]) /\ batch[l][ran[l] + 1] = f /\ ran'[l] = ran[l] + 1
DoesNotRun(f, l) ==
    \/ ran'[l] = ran[l]
    \/ ran[l] < Len(batch[l]) /\ batch[l][ran[l] + 1] # f /\ ran'[l] = ran[l] + 1

LEMMA QueueTypes ==
    ASSUME TypeOK, NEW l \in Loops
    PROVE  /\ pending[l] \in Seq(Functors) /\ batch[l] \in Seq(Functors)
           /\ ran[l] \in Nat /\ Len(batch[l]) \in Nat
BY DEF TypeOK, LoopTypeOK

LEMMA DoesNotAppend ==
    ASSUME TypeOK, NEW l \in Loops, NEW f, DoesNotQueue(f, l)
    PROVE  \/ pending'[l] = pending[l]
           \/ \E g \in Functors : g # f /\ pending'[l] = Append(pending[l], g)
<1>1. CASE UNCHANGED pending
  BY <1>1
<1>2. CASE ~UNCHANGED pending
  <2>1. PICK k \in Loops, by \in Loops, g \in Functors : QueueInLoop(k, g, by) /\ (g # f \/ k # l)
    BY <1>2 DEF DoesNotQueue
  <2>2. pending' = [pending EXCEPT ![k] = Append(pending[k], g)]
    BY <2>1 DEF QueueInLoop
  <2>3. QED  BY <2>1, <2>2 DEF TypeOK, LoopTypeOK
<1>3. QED  BY <1>1, <1>2

LEMMA KeepsWaiting ==
    ASSUME TypeOK, NEW l \in Loops, NEW f, UNCHANGED batch,
           DoesNotQueue(f, l), DoesNotRun(f, l)
    PROVE  /\ Waits(f, l)' <=> Waits(f, l)
           /\ Once(f, l) => Once(f, l)'
<1> DEFINE done == ran'[l]
<1>1. /\ pending[l] \in Seq(Functors) /\ batch[l] \in Seq(Functors)
      /\ ran[l] \in Nat /\ done \in Nat
  BY QueueTypes DEF DoesNotRun
<1>2. /\ WaitsIn(pending[l], batch[l], done, f) <=> Waits(f, l)
      /\ Once(f, l) => OnceIn(pending[l], batch[l], done, f)
  BY <1>1, WaitsRun DEF DoesNotRun, Waits, Once
<1>3. CASE pending'[l] = pending[l]
  BY <1>2, <1>3 DEF Waits, Once
<1>4. CASE \E g \in Functors : g # f /\ pending'[l] = Append(pending[l], g)
  <2>1. PICK g \in Functors : g # f /\ pending'[l] = Append(pending[l], g)
    BY <1>4
  <2>2. /\ WaitsIn(pending'[l], batch[l], done, f) <=> WaitsIn(pending[l], batch[l], done, f)
        /\ OnceIn(pending[l], batch[l], done, f) => OnceIn(pending'[l], batch[l], done, f)
    BY <1>1, <2>1, WaitsAppend
  <2>3. QED  BY <1>2, <2>2 DEF Waits, Once
<1>5. pending'[l] = pending[l] \/ \E g \in Functors : g # f /\ pending'[l] = Append(pending[l], g)
  BY DoesNotAppend
<1>6. QED  BY <1>3, <1>4, <1>5

LEMMA StartsWaiting ==
    ASSUME TypeOK, NEW l \in Loops, NEW f \in Functors, UNCHANGED batch,
           DoesQueue(f, l), DoesNotRun(f, l), Once(f, l), ~Waits(f, l)
    PROVE  Waits(f, l)' /\ Once(f, l)'
<1> DEFINE done == ran'[l]
<1>1. /\ pending[l] \in Seq(Functors) /\ batch[l] \in Seq(Functors)
      /\ ran[l] \in Nat /\ done \in Nat
  BY QueueTypes DEF DoesNotRun
<1>2. ~WaitsIn(pending[l], batch[l], done, f) /\ OnceIn(pending[l], batch[l], done, f)
  BY <1>1, WaitsRun DEF DoesNotRun, Waits, Once
<1>3. pending'[l] = Append(pending[l], f)
  BY DEF DoesQueue, QueueInLoop, TypeOK, LoopTypeOK
<1>4. WaitsIn(pending'[l], batch[l], done, f) /\ OnceIn(pending'[l], batch[l], done, f)
  BY <1>1, <1>2, <1>3, WaitsAppend
<1>5. QED  BY <1>4 DEF Waits, Once

LEMMA StopsWaiting ==
    ASSUME TypeOK, NEW l \in Loops, NEW f, UNCHANGED batch,
           DoesNotQueue(f, l), Runs(f, l), Once(f, l)
    PROVE  Waits(f, l) /\ ~Waits(f, l)' /\ Once(f, l)'
<1> DEFINE done == ran'[l]
<1>1. /\ pending[l] \in Seq(Functors) /\ batch[l] \in Seq(Functors)
      /\ ran[l] \in Nat /\ done \in Nat
  BY QueueTypes DEF Runs
<1>2. /\ Waits(f, l)
      /\ ~WaitsIn(pending[l], batch[l], done, f) /\ OnceIn(pending[l], batch[l], done, f)
  BY <1>1, WaitsRun DEF Runs, Waits, Once
<1>3. CASE pending'[l] = pending[l]
  BY <1>2, <1>3 DEF Waits, Once
<1>4. CASE \E g \in Functors : g # f /\ pending'[l] = Append(pending[l], g)
  <2>1. PICK g \in Functors : g # f /\ pending'[l] = Append(pending[l], g)
    BY <1>4
  <2>2. /\ WaitsIn(pending'[l], batch[l], done, f) <=> WaitsIn(pending[l], batch[l], done, f)
        /\ OnceIn(pending[l], batch[l], done, f) => OnceIn(pending'[l], batch[l], done, f)
    BY <1>1, <2>1, WaitsAppend
  <2>3. QED  BY <1>2, <2>2 DEF Waits, Once
<1>5. pending'[l] = pending[l] \/ \E g \in Functors : g # f /\ pending'[l] = Append(pending[l], g)
  BY DoesNotAppend
<1>6. QED  BY <1>3, <1>4, <1>5

(* A functor of a connection that does not exist does not wait.               *)
LEMMA NoneWaits ==
    ASSUME TypeOK, HomeInv, NEW c \in Conns, NEW name, NEW l \in Loops, state[c] = "none"
    PROVE  ~Waits(Functor(name, c), l) /\ Once(Functor(name, c), l)
<1>1. /\ \A i \in 1..Len(pending[l]) : pending[l][i] # Functor(name, c)
      /\ \A i \in 1..Len(batch[l]) : batch[l][i] # Functor(name, c)
  BY FunctorFields DEF HomeInv, AtHome
<1>2. QED  BY <1>1 DEF Waits, Once, WaitsIn, OnceIn

LEMMA FunctorsDiffer ==
    ASSUME NEW c \in Conns
    PROVE  /\ Remove(c) # Destroy(c) /\ Remove(c) \in Functors /\ Destroy(c) \in Functors
           /\ \A name, d : Functor(name, d) = Remove(c) => name = "removeConnectionInLoop" /\ d = c
           /\ \A name, d : Functor(name, d) = Destroy(c) => name = "connectDestroyed" /\ d = c
<1>1. Remove(c) \in Functors /\ Destroy(c) \in Functors
  BY FunctorType DEF Remove, Destroy, FunctorNames
<1>2. QED  BY <1>1, FunctorFields DEF Remove, Destroy

(* A step of loop l that concerns connection c alone.                         *)
About(c, l) ==
    /\ \/ UNCHANGED ran
       \/ \E name : Running(l, Functor(name, c))
    /\ \/ UNCHANGED pending
       \/ \E k \in Loops, by \in Loops, name \in FunctorNames : QueueInLoop(k, Functor(name, c), by)
    /\ UNCHANGED batch
    /\ \A d \in Conns \ {c} :
          /\ state'[d] = state[d] /\ index'[d] = index[d] /\ loopOf'[d] = loopOf[d]
          /\ d \in connections' <=> d \in connections

(* The other connections stay where they are.                                 *)
LEMMA OthersStay ==
    ASSUME TypeOK, LivesInv, NEW l \in Loops, NEW c \in Conns, About(c, l),
           NEW d \in Conns, d # c
    PROVE  LifeOf(d, loopOf[d])'
<1>1. PICK home \in Loops : home = loopOf[d] /\ home = loopOf'[d]
  BY DEF TypeOK, About
<1>2. ASSUME NEW k \in Loops
      PROVE  /\ DoesNotQueue(Remove(d), k) /\ DoesNotRun(Remove(d), k)
             /\ DoesNotQueue(Destroy(d), k) /\ DoesNotRun(Destroy(d), k)
  <2>1. \A name : Functor(name, c) # Remove(d) /\ Functor(name, c) # Destroy(d)
    BY FunctorsDiffer
  <2>2. \A name \in FunctorNames : Functor(name, c) \in Functors
    BY FunctorType
  <2>3. DoesNotQueue(Remove(d), k) /\ DoesNotQueue(Destroy(d), k)
    BY <2>1, <2>2 DEF About, DoesNotQueue
  <2>4. DoesNotRun(Remove(d), k) /\ DoesNotRun(Destroy(d), k)
    BY <2>1 DEF About, DoesNotRun, Running, TypeOK, LoopTypeOK
  <2>5. QED  BY <2>3, <2>4
<1>3. LifeOf(d, home)
  BY <1>1 DEF LivesInv
<1>4. /\ Waits(Remove(d), Base)' <=> Waits(Remove(d), Base)
      /\ Once(Remove(d), Base)'
      /\ Waits(Destroy(d), home)' <=> Waits(Destroy(d), home)
      /\ Once(Destroy(d), home)'
  <2>1. UNCHANGED batch
    BY DEF About
  <2>2. QED  BY <1>2, <1>3, <2>1, KeepsWaiting DEF LifeOf
<1>5. LifeOf(d, home)'
  BY <1>3, <1>4 DEF LifeOf, About
<1>6. QED  BY <1>1, <1>5 DEF LifeOf

LEMMA LivesStep ==
    ASSUME TypeOK, LivesInv, NEW l \in Loops, NEW c \in Conns, About(c, l), LifeOf(c, loopOf[c])'
    PROVE  LivesInv'
<1>1. \A d \in Conns : LifeOf(d, loopOf[d])'
  BY OthersStay
<1>2. QED  BY <1>1 DEF LivesInv

(* The functors of c but one are neither the removal nor the destruction.     *)
LEMMA NamesDiffer ==
    ASSUME NEW c \in Conns, NEW name
    PROVE  /\ name # "removeConnectionInLoop" => Functor(name, c) # Remove(c)
           /\ name # "connectDestroyed" => Functor(name, c) # Destroy(c)
BY FunctorsDiffer

LEMMA RunningRuns ==
    ASSUME TypeOK, NEW l \in Loops, NEW f, Running(l, f)
    PROVE  /\ Runs(f, l)
           /\ \A g : \A k \in Loops : g # f \/ k # l => DoesNotRun(g, k)
           /\ UNCHANGED batch
BY DEF Running, Runs, DoesNotRun, TypeOK, LoopTypeOK

LEMMA QueueQueues ==
    ASSUME NEW k \in Loops, NEW by \in Loops, NEW f \in Functors, QueueInLoop(k, f, by)
    PROVE  DoesQueue(f, k) /\ \A g : \A l \in Loops : g # f \/ l # k => DoesNotQueue(g, l)
BY DEF DoesQueue, DoesNotQueue

(* handleClose of an open connection: in the base loop it leaves the map and  *)
(* its destruction is queued; elsewhere its removal is.                       *)
LEMMA CloseLives ==
    ASSUME TypeOK, LivesInv, NEW l \in Loops, NEW c \in Conns, failed = "none", IsOpen(c),
           HandleClose(c, l), UNCHANGED <<batch, loopOf>>,
           UNCHANGED ran \/ Running(l, Functor("forceCloseInLoop", c))
    PROVE  failed' = "none" /\ LivesInv'
<1>1. PICK home \in Loops : home = loopOf[c] /\ home = loopOf'[c]
  BY DEF TypeOK
<1>2. /\ c \in connections /\ ~Waits(Remove(c), Base) /\ ~Waits(Destroy(c), home)
      /\ Once(Remove(c), Base) /\ Once(Destroy(c), home)
  BY <1>1 DEF LivesInv, LifeOf, IsOpen
<1>3. failed' = "none"
  BY <1>2 DEF HandleClose, Check
<1>4. /\ state' = [state EXCEPT ![c] = "kDisconnected"] /\ index' = [index EXCEPT ![c] = "kDeleted"]
      /\ state'[c] = "kDisconnected" /\ index'[c] = "kDeleted"
  BY DEF HandleClose, Become, TypeOK
<1>5. \A k \in Loops : DoesNotRun(Remove(c), k) /\ DoesNotRun(Destroy(c), k)
  <2>1. CASE UNCHANGED ran
    BY <2>1 DEF DoesNotRun
  <2>2. CASE Running(l, Functor("forceCloseInLoop", c))
    BY <2>2, RunningRuns, NamesDiffer
  <2>3. QED  BY <2>1, <2>2
<1>6. CASE /\ connections' = connections \ {c}
           /\ QueueInLoop(home, Destroy(c), l)
  <2>1. DoesQueue(Destroy(c), home) /\ DoesNotQueue(Remove(c), Base)
    BY <1>6, FunctorsDiffer, QueueQueues
  <2>2. Waits(Destroy(c), home)' /\ Once(Destroy(c), home)'
    BY <1>2, <1>5, <2>1, FunctorsDiffer, StartsWaiting
  <2>3. ~Waits(Remove(c), Base)' /\ Once(Remove(c), Base)'
    BY <1>2, <1>5, <2>1, KeepsWaiting
  <2>4. LifeOf(c, loopOf[c])'
    BY <1>1, <1>4, <1>6, <2>2, <2>3 DEF LifeOf
  <2>5. About(c, l)
    BY <1>4, <1>6 DEF About, TypeOK, Destroy, FunctorNames
  <2>6. QED  BY <1>3, <2>4, <2>5, LivesStep
<1>7. CASE UNCHANGED connections /\ QueueInLoop(Base, Remove(c), l)
  <2>1. DoesQueue(Remove(c), Base) /\ DoesNotQueue(Destroy(c), home)
    BY <1>7, FunctorsDiffer, QueueQueues
  <2>2. Waits(Remove(c), Base)' /\ Once(Remove(c), Base)'
    BY <1>2, <1>5, <2>1, FunctorsDiffer, StartsWaiting
  <2>3. ~Waits(Destroy(c), home)' /\ Once(Destroy(c), home)'
    BY <1>2, <1>5, <2>1, KeepsWaiting
  <2>4. LifeOf(c, loopOf[c])'
    BY <1>1, <1>2, <1>4, <1>7, <2>2, <2>3 DEF LifeOf
  <2>5. About(c, l)
    BY <1>4, <1>7 DEF About, TypeOK, Remove, FunctorNames
  <2>6. QED  BY <1>3, <2>4, <2>5, LivesStep
<1>8. QED
  BY <1>1, <1>6, <1>7
     DEF HandleClose, RemoveConnection, RemoveConnectionInLoop, Remove, Destroy

(* A step that opens a connection, or leaves an open one open, and queues     *)
(* nothing but a forceCloseInLoop.                                            *)
LEMMA OpenLives ==
    ASSUME TypeOK, LivesInv, NEW l \in Loops, NEW c \in Conns,
           state[c] # "kDisconnected", IsOpen(c)',
           NEW s, state' = [state EXCEPT ![c] = s],
           \A d \in Conns \ {c} : index'[d] = index[d],
           connections' = connections \cup {c},
           UNCHANGED <<batch, loopOf>>,
           UNCHANGED pending \/ QueueInLoop(l, Functor("forceCloseInLoop", c), l),
           UNCHANGED ran \/ Running(l, Functor("connectEstablished", c))
    PROVE  LivesInv'
<1>1. PICK home \in Loops : home = loopOf[c] /\ home = loopOf'[c]
  BY DEF TypeOK
<1>2. /\ ~Waits(Remove(c), Base) /\ ~Waits(Destroy(c), home)
      /\ Once(Remove(c), Base) /\ Once(Destroy(c), home)
  BY <1>1 DEF LivesInv, LifeOf
<1>3. \A k \in Loops : DoesNotRun(Remove(c), k) /\ DoesNotRun(Destroy(c), k)
  <2>1. CASE UNCHANGED ran
    BY <2>1 DEF DoesNotRun
  <2>2. CASE Running(l, Functor("connectEstablished", c))
    BY <2>2, RunningRuns, NamesDiffer
  <2>3. QED  BY <2>1, <2>2
<1>4. \A k \in Loops : DoesNotQueue(Remove(c), k) /\ DoesNotQueue(Destroy(c), k)
  <2>1. CASE UNCHANGED pending
    BY <2>1 DEF DoesNotQueue
  <2>2. CASE QueueInLoop(l, Functor("forceCloseInLoop", c), l)
    BY <2>2, FunctorType, NamesDiffer, QueueQueues DEF FunctorNames
  <2>3. QED  BY <2>1, <2>2
<1>5. /\ ~Waits(Remove(c), Base)' /\ ~Waits(Destroy(c), home)'
      /\ Once(Remove(c), Base)' /\ Once(Destroy(c), home)'
  BY <1>2, <1>3, <1>4, KeepsWaiting
<1>6. LifeOf(c, loopOf[c])'
  BY <1>1, <1>5 DEF LifeOf, IsOpen
<1>7. About(c, l)
  BY DEF About, TypeOK, FunctorNames
<1>8. QED  BY <1>6, <1>7, LivesStep

(* removeConnectionInLoop: the connection leaves the map on its way to its    *)
(* destruction.                                                               *)
LEMMA RemoveLives ==
    ASSUME TypeOK, LifeInv, LivesInv, NEW l \in Loops, NEW c \in Conns, failed = "none",
           RunRemove(l, c)
    PROVE  failed' = "none" /\ LivesInv'
<1>1. PICK home \in Loops : home = loopOf[c] /\ home = loopOf'[c]
  BY DEF TypeOK, RunRemove, connVars
<1>2. Running(l, Remove(c)) /\ UNCHANGED <<state, index, loopOf, batch>>
  BY DEF RunRemove, Remove, connVars, Running
<1>3. l = Base
  <2>1. ran[l] + 1 \in 1..Len(batch[l]) /\ batch[l][ran[l] + 1] = Remove(c)
    BY <1>2, QueueTypes DEF Running
  <2>2. AtHome(Remove(c), l)
    BY <2>1 DEF LifeInv, ConnInv, HomeInv
  <2>3. QED  BY <2>2, FunctorFields DEF AtHome, Remove
<1>4. QueueInLoop(home, Destroy(c), l) /\ connections' = connections \ {c}
  BY <1>1 DEF RunRemove, RemoveConnectionInLoop, Destroy
<1>5. LifeOf(c, home)
  BY <1>1 DEF LivesInv
<1>6. Waits(Remove(c), Base) /\ ~Waits(Remove(c), Base)' /\ Once(Remove(c), Base)'
  <2>1. Runs(Remove(c), Base)
    BY <1>2, <1>3, RunningRuns
  <2>2. DoesNotQueue(Remove(c), Base)
    BY <1>4, FunctorsDiffer, QueueQueues
  <2>3. QED  BY <1>2, <1>5, <2>1, <2>2, StopsWaiting DEF LifeOf
<1>7. Waits(Destroy(c), home)' /\ Once(Destroy(c), home)'
  <2>1. DoesQueue(Destroy(c), home)
    BY <1>4, FunctorsDiffer, QueueQueues
  <2>2. DoesNotRun(Destroy(c), home)
    BY <1>2, FunctorsDiffer, RunningRuns
  <2>3. Once(Destroy(c), home) /\ ~Waits(Destroy(c), home)
    BY <1>5, <1>6 DEF LifeOf
  <2>4. QED  BY <1>2, <2>1, <2>2, <2>3, FunctorsDiffer, StartsWaiting
<1>8. failed' = "none"
  BY <1>5, <1>6 DEF RunRemove, Check, LifeOf
<1>9. LifeOf(c, loopOf[c])'
  BY <1>1, <1>2, <1>4, <1>5, <1>6, <1>7 DEF LifeOf
<1>10. About(c, l)
  BY <1>2, <1>4 DEF About, Remove, Destroy, FunctorNames
<1>11. QED  BY <1>8, <1>9, <1>10, LivesStep

(* connectDestroyed: the end.                                                 *)
LEMMA DestroyLives ==
    ASSUME TypeOK, LifeInv, LivesInv, NEW l \in Loops, NEW c \in Conns, failed = "none",
           RunConnectDestroyed(l, c)
    PROVE  failed' = "none" /\ LivesInv'
<1>1. PICK home \in Loops : home = loopOf[c] /\ home = loopOf'[c]
  BY DEF TypeOK, RunConnectDestroyed
<1>2. Running(l, Destroy(c)) /\ UNCHANGED <<pending, connections, loopOf, batch>>
  BY DEF RunConnectDestroyed, Destroy, Running
<1>3. l = home
  <2>1. ran[l] + 1 \in 1..Len(batch[l]) /\ batch[l][ran[l] + 1] = Destroy(c)
    BY <1>2, QueueTypes DEF Running
  <2>2. AtHome(Destroy(c), l)
    BY <2>1 DEF LifeInv, ConnInv, HomeInv
  <2>3. Destroy(c).run = "connectDestroyed" /\ Destroy(c).conn = c
    BY FunctorFields DEF Destroy
  <2>4. QED  BY <1>1, <2>2, <2>3 DEF AtHome
<1>4. LifeOf(c, home)
  BY <1>1 DEF LivesInv
<1>5. Waits(Destroy(c), home) /\ ~Waits(Destroy(c), home)' /\ Once(Destroy(c), home)'
  <2>1. Runs(Destroy(c), home)
    BY <1>2, <1>3, RunningRuns
  <2>2. DoesNotQueue(Destroy(c), home)
    BY <1>2 DEF DoesNotQueue
  <2>3. QED  BY <1>2, <1>4, <2>1, <2>2, StopsWaiting DEF LifeOf
<1>6. state[c] = "kDisconnected" /\ index[c] = "kDeleted" /\ ~Waits(Remove(c), Base)
  BY <1>4, <1>5 DEF LifeOf
<1>7. ~Waits(Remove(c), Base)' /\ Once(Remove(c), Base)'
  <2>1. DoesNotRun(Remove(c), Base) /\ DoesNotQueue(Remove(c), Base)
    BY <1>2, FunctorsDiffer, RunningRuns DEF DoesNotQueue
  <2>2. QED  BY <1>2, <1>4, <1>6, <2>1, KeepsWaiting DEF LifeOf
<1>8. failed' = "none" /\ UNCHANGED state /\ index' = [index EXCEPT ![c] = "kNew"]
  BY <1>6 DEF RunConnectDestroyed, ConnectDestroyed, Check
<1>9. index'[c] = "kNew"
  BY <1>8 DEF TypeOK
<1>10. LifeOf(c, loopOf[c])'
  BY <1>1, <1>2, <1>4, <1>5, <1>6, <1>7, <1>8, <1>9 DEF LifeOf
<1>11. About(c, l)
  BY <1>2, <1>8 DEF About, Destroy, TypeOK
<1>12. QED  BY <1>8, <1>10, <1>11, LivesStep

LEMMA EstablishLives ==
    ASSUME TypeOK, LivesInv, NEW l \in Loops, NEW c \in Conns,
           ConnectEstablished(c, l), state[c] \in {"none", "kConnecting"},
           connections' = connections \cup {c}, UNCHANGED <<batch, loopOf>>,
           UNCHANGED ran \/ Running(l, Functor("connectEstablished", c))
    PROVE  LivesInv'
<1>1. PICK s \in {"kConnected", "kDisconnecting"} : state' = [state EXCEPT ![c] = s]
  BY DEF ConnectEstablished, Become, Shutdown, ForceClose
<1>2. UNCHANGED pending \/ QueueInLoop(l, Functor("forceCloseInLoop", c), l)
  BY DEF ConnectEstablished, Shutdown, ForceClose
<1>3. IsOpen(c)' /\ state[c] # "kDisconnected"
  BY <1>1 DEF IsOpen, TypeOK
<1>4. \A d \in Conns \ {c} : index'[d] = index[d]
  BY DEF ConnectEstablished, TypeOK
<1>5. QED  BY <1>1, <1>2, <1>3, <1>4, OpenLives

(* The other steps of the loops with a connection.                            *)
LEMMA EventLives ==
    ASSUME TypeOK, LifeInv, LivesInv, NEW l \in Loops, NEW c \in Conns, failed = "none",
           \/ ReadData(l, c) \/ ReadEnd(l, c)
           \/ RunConnectEstablished(l, c) \/ RunForceClose(l, c)
    PROVE  failed' = "none" /\ LivesInv'
<1>1. CASE ReadData(l, c)
  <2>1. IsOpen(c)
    BY <1>1 DEF ReadData, Handling, LifeInv, ConnInv, ChannelInv
  <2>2. c \in connections
    BY <2>1 DEF LivesInv, LifeOf, IsOpen
  <2>3. /\ connections' = connections \cup {c} /\ UNCHANGED <<batch, ran, loopOf, index, failed>>
        /\ UNCHANGED pending \/ QueueInLoop(l, Functor("forceCloseInLoop", c), l)
    BY <1>1, <2>2 DEF ReadData, Handling, Shutdown, ForceClose
  <2>4. PICK s \in {state[c], "kDisconnecting"} : state' = [state EXCEPT ![c] = s]
    BY <1>1 DEF ReadData, Shutdown, ForceClose, Become, TypeOK
  <2>5. state[c] # "kDisconnected" /\ IsOpen(c)'
    BY <2>1, <2>4 DEF IsOpen, TypeOK
  <2>6. QED  BY <2>3, <2>4, <2>5, OpenLives
<1>2. CASE ReadEnd(l, c)
  <2>1. IsOpen(c)
    BY <1>2 DEF ReadEnd, Handling, LifeInv, ConnInv, ChannelInv
  <2>2. QED  BY <1>2, <2>1, CloseLives DEF ReadEnd, Handling
<1>3. CASE RunConnectEstablished(l, c)
  <2>1. Running(l, Functor("connectEstablished", c)) /\ UNCHANGED <<batch, loopOf, connections>>
    BY <1>3 DEF RunConnectEstablished, Running
  <2>2. state[c] = "kConnecting"
    <3>1. /\ ran[l] + 1 \in 1..Len(batch[l]) /\ ran[l] + 1 > ran[l]
          /\ batch[l][ran[l] + 1] = Functor("connectEstablished", c)
      BY <2>1, QueueTypes DEF Running
    <3>2. Establishes(batch[l][ran[l] + 1], c)
      BY <3>1, FunctorFields DEF Establishes
    <3>3. QED  BY <3>1, <3>2 DEF LifeInv, ConnInv, FreshInv, FreshIn
  <2>3. connections' = connections \cup {c}
    BY <2>1, <2>2 DEF LivesInv, LifeOf
  <2>4. failed' = "none"
    BY <1>3, <2>2 DEF RunConnectEstablished, Check
  <2>5. QED  BY <1>3, <2>1, <2>2, <2>3, <2>4, EstablishLives DEF RunConnectEstablished
<1>4. CASE RunForceClose(l, c)
  <2>1. Running(l, Functor("forceCloseInLoop", c)) /\ UNCHANGED <<batch, loopOf>>
    BY <1>4 DEF RunForceClose, Running
  <2>2. CASE IsOpen(c)
    BY <1>4, <2>1, <2>2, CloseLives DEF RunForceClose
  <2>3. CASE ~IsOpen(c)
    <3>1. UNCHANGED <<pending, connections, state, index, failed>>
      BY <1>4, <2>3 DEF RunForceClose
    <3>2. PICK home \in Loops : home = loopOf[c] /\ home = loopOf'[c]
      BY <2>1 DEF TypeOK
    <3>3. \A k \in Loops : /\ DoesNotRun(Remove(c), k) /\ DoesNotRun(Destroy(c), k)
                           /\ DoesNotQueue(Remove(c), k) /\ DoesNotQueue(Destroy(c), k)
      BY <2>1, <3>1, NamesDiffer, RunningRuns DEF DoesNotQueue
    <3>4. LifeOf(c, home)
      BY <3>2 DEF LivesInv
    <3>5. /\ Waits(Remove(c), Base)' <=> Waits(Remove(c), Base)
          /\ Waits(Destroy(c), home)' <=> Waits(Destroy(c), home)
          /\ Once(Remove(c), Base)' /\ Once(Destroy(c), home)'
      BY <2>1, <3>3, <3>4, KeepsWaiting DEF LifeOf
    <3>6. LifeOf(c, loopOf[c])'
      BY <3>1, <3>2, <3>4, <3>5 DEF LifeOf
    <3>7. About(c, l)
      BY <2>1, <3>1 DEF About
    <3>8. QED  BY <3>1, <3>6, <3>7, LivesStep
  <2>4. QED  BY <2>2, <2>3
<1>5. QED  BY <1>1, <1>2, <1>3, <1>4

(* A connection begins: it enters the map.                                    *)
LEMMA AcceptLives ==
    ASSUME TypeOK, LifeInv, LivesInv, NEW c \in Conns, NewConnection(c)
    PROVE  LivesInv'
<1>1. /\ state[c] = "none" /\ connections' = connections \cup {c} /\ UNCHANGED <<batch, ran>>
  BY DEF NewConnection, Handling
<1>2. CASE pool = <<>>
  BY <1>1, <1>2, EstablishLives DEF NewConnection
<1>3. CASE pool # <<>>
  <2>1. PICK home \in Loops : home = NextLoop
    BY <1>3 DEF NextLoop, TypeOK
  <2>2. /\ loopOf' = [loopOf EXCEPT ![c] = home] /\ state' = [state EXCEPT ![c] = "kConnecting"]
        /\ QueueInLoop(home, Functor("connectEstablished", c), Base)
        /\ UNCHANGED index
    BY <1>3, <2>1 DEF NewConnection, Become
  <2>3. loopOf'[c] = home /\ state'[c] = "kConnecting"
    BY <2>2 DEF TypeOK
  <2>4. \A k \in Loops : /\ DoesNotRun(Remove(c), k) /\ DoesNotRun(Destroy(c), k)
                         /\ DoesNotQueue(Remove(c), k) /\ DoesNotQueue(Destroy(c), k)
    BY <1>1, <2>2, FunctorType, NamesDiffer, QueueQueues DEF DoesNotRun, FunctorNames
  <2>5. /\ ~Waits(Remove(c), Base) /\ ~Waits(Destroy(c), home)
        /\ Once(Remove(c), Base) /\ Once(Destroy(c), home)
    BY <1>1, NoneWaits DEF LifeInv, ConnInv, Remove, Destroy
  <2>6. /\ ~Waits(Remove(c), Base)' /\ ~Waits(Destroy(c), home)'
        /\ Once(Remove(c), Base)' /\ Once(Destroy(c), home)'
    BY <1>1, <2>4, <2>5, KeepsWaiting
  <2>7. LifeOf(c, loopOf[c])'
    BY <1>1, <2>3, <2>6 DEF LifeOf
  <2>8. About(c, Base)
    BY <1>1, <2>2 DEF About, TypeOK, FunctorNames
  <2>9. QED  BY <2>7, <2>8, LivesStep
<1>4. QED  BY <1>2, <1>3

(* Steps without a connection: a swap and the end of a batch move functors    *)
(* and lose none that waits.                                                  *)
LEMMA SameWaits ==
    ASSUME LivesInv, UNCHANGED <<connections, state, index, loopOf>>, loopOf \in [Conns -> Loops],
           \A l \in Loops : \A f : /\ Waits(f, l)' <=> Waits(f, l)
                                   /\ Once(f, l) => Once(f, l)'
    PROVE  LivesInv'
<1> SUFFICES ASSUME NEW c \in Conns PROVE LifeOf(c, loopOf[c])'
  BY DEF LivesInv
<1>1. PICK home \in Loops : home = loopOf[c] /\ home = loopOf'[c]
  OBVIOUS
<1>2. LifeOf(c, home)
  BY <1>1 DEF LivesInv
<1>3. /\ Waits(Remove(c), Base)' <=> Waits(Remove(c), Base)
      /\ Waits(Destroy(c), home)' <=> Waits(Destroy(c), home)
      /\ Once(Remove(c), Base)' /\ Once(Destroy(c), home)'
  BY <1>2 DEF LifeOf
<1>4. QED  BY <1>1, <1>2, <1>3 DEF LifeOf

LEMMA LoopOnlyLives ==
    ASSUME TypeOK, PhaseInv, LivesInv, NEW l \in Loops, LoopOnly(l) \/ LoopIdles(l)
    PROVE  LivesInv'
<1>1. UNCHANGED <<connections, state, index, loopOf>> /\ loopOf \in [Conns -> Loops]
  BY DEF LoopOnly, LoopIdles, connVars, TypeOK
<1>2. SUFFICES ASSUME NEW k \in Loops, NEW f
               PROVE  /\ Waits(f, k)' <=> Waits(f, k)
                      /\ Once(f, k) => Once(f, k)'
  BY <1>1, <1>2, SameWaits
<1>3. CASE UNCHANGED <<pending, batch, ran>>
  BY <1>3 DEF Waits, Once
<1>4. CASE Swap(l)
  <2>1. CASE k # l
    <3>1. pending'[k] = pending[k] /\ batch'[k] = batch[k] /\ ran'[k] = ran[k]
      BY <1>4, <2>1 DEF Swap, TypeOK, LoopTypeOK
    <3>2. QED  BY <3>1 DEF Waits, Once
  <2>2. CASE k = l
    <3>1. /\ pending'[k] = <<>> /\ batch'[k] = pending[k] /\ ran'[k] = 0
          /\ batch[k] = <<>> /\ ran[k] = 0
      BY <1>4, <2>2 DEF Swap, TypeOK, LoopTypeOK, PhaseInv
    <3>2. QED  BY <3>1, QueueTypes, WaitsSwap DEF Waits, Once
  <2>3. QED  BY <2>1, <2>2
<1>5. CASE EndFunctors(l)
  <2>1. CASE k # l
    <3>1. pending'[k] = pending[k] /\ batch'[k] = batch[k] /\ ran'[k] = ran[k]
      BY <1>5, <2>1 DEF EndFunctors, TypeOK, LoopTypeOK
    <3>2. QED  BY <3>1 DEF Waits, Once
  <2>2. CASE k = l
    <3>1. /\ pending'[k] = pending[k] /\ batch'[k] = <<>> /\ ran'[k] = 0
          /\ ran[k] = Len(batch[k])
      BY <1>5, <2>2 DEF EndFunctors, TypeOK, LoopTypeOK
    <3>2. QED  BY <3>1, QueueTypes, WaitsSwap DEF Waits, Once
  <2>3. QED  BY <2>1, <2>2
<1>6. QED
  BY <1>3, <1>4, <1>5 DEF LoopOnly, LoopIdles, Enter, Test, Poll, PollTimesOut, HandleWakeup

-----------------------------------------------------------------------------
(* The loops of the pool run for as long as the server serves: only the       *)
(* destructor tells them to quit.                                             *)
LEMMA RunsOn ==
    ASSUME TypeOK, PoolRuns, NEW l \in Loops, LoopOnly(l) \/ LoopIdles(l)
    PROVE  PoolRuns'
<1>1. UNCHANGED <<pool, loopOf>>
  BY DEF LoopOnly, LoopIdles, poolVars, connVars
<1>2. \A k \in Loops \ {Base} : ~quit'[k]
  BY DEF LoopOnly, LoopIdles, Enter, Test, Poll, PollTimesOut, HandleWakeup, Swap, EndFunctors,
         PoolRuns, TypeOK, LoopTypeOK
<1>3. \A k \in Loops \ {Base} : lpc[k] # "left" => lpc'[k] # "left"
  <2>1. CASE Enter(l) \/ Poll(l, Ready(l)) \/ PollTimesOut(l) \/ Swap(l) \/ EndFunctors(l)
    BY <2>1 DEF Enter, Poll, PollTimesOut, Swap, EndFunctors, GotoPhase, TypeOK, LoopTypeOK
  <2>2. CASE HandleWakeup(l)
    BY <2>2 DEF HandleWakeup
  <2>3. CASE Test(l)
    BY <2>3 DEF Test, GotoPhase, TypeOK, LoopTypeOK, PoolRuns
  <2>4. QED  BY <2>1, <2>2, <2>3 DEF LoopOnly, LoopIdles
<1>4. \A i \in 1..Len(pool) : pool[i] \in Loops \ {Base}
  BY DEF TypeOK
<1>5. \A c \in Conns : loopOf[c] \in Loops
  BY DEF TypeOK
<1>6. QED  BY <1>1, <1>2, <1>3, <1>4, <1>5 DEF PoolRuns

LEMMA PoolStays ==
    ASSUME PoolRuns, UNCHANGED <<lpc, quit, pool, loopOf>>
    PROVE  PoolRuns'
BY DEF PoolRuns

LEMMA AcceptRuns ==
    ASSUME TypeOK, PoolRuns, NEW c \in Conns, NewConnection(c)
    PROVE  PoolRuns'
<1>1. UNCHANGED <<lpc, quit, pool>>
  BY DEF NewConnection, Handling
<1>2. CASE pool = <<>>
  BY <1>1, <1>2, PoolStays DEF NewConnection
<1>3. CASE pool # <<>>
  <2>1. next \in 1..Len(pool) /\ NextLoop = pool[next]
    BY <1>3 DEF TypeOK, NextLoop
  <2>2. lpc[NextLoop] # "left"
    BY <2>1 DEF PoolRuns
  <2>3. loopOf' = [loopOf EXCEPT ![c] = NextLoop]
    BY <1>3 DEF NewConnection
  <2>4. \A d \in Conns : loopOf'[d] = Base \/ lpc[loopOf'[d]] # "left"
    BY <2>2, <2>3 DEF PoolRuns, TypeOK
  <2>5. QED  BY <1>1, <2>4 DEF PoolRuns
<1>4. QED  BY <1>2, <1>3

LEMMA NextServing ==
    ASSUME TypeOK, PhaseInv, LifeInv, ServingInv, [Next]_vars
    PROVE  ServingInv'
<1> SUFFICES ASSUME stage' = "serving"
             PROVE  failed' = "none" /\ LivesInv' /\ PoolRuns'
  BY DEF ServingInv
<1>1. CASE BeginDestruction \/ QuitThread \/ JoinThread \/ EndDestruction
  BY <1>1 DEF BeginDestruction, QuitThread, JoinThread, EndDestruction
<1>2. ASSUME NEW c \in Conns, DestroyConnection(c)
      PROVE  FALSE
  BY <1>2 DEF DestroyConnection, poolVars
<1>3. CASE ~Destruction
  <2>1. UNCHANGED stage
    BY <1>3 DEF Next, LoopStep, LoopOnly, LoopIdles, NewConnection, ReadData, ReadEnd,
                RunConnectEstablished, RunForceClose, RunRemove, RunConnectDestroyed,
                PeerCloses, StopServing, poolVars, vars
  <2>2. failed = "none" /\ LivesInv /\ PoolRuns
    BY <2>1 DEF ServingInv
  <2>3. ASSUME NEW l \in Loops, NEW c \in Conns,
               \/ ReadData(l, c) \/ ReadEnd(l, c)
               \/ RunConnectEstablished(l, c) \/ RunForceClose(l, c)
               \/ RunRemove(l, c) \/ RunConnectDestroyed(l, c)
        PROVE  failed' = "none" /\ LivesInv' /\ PoolRuns'
    <3>1. UNCHANGED <<lpc, quit, pool, loopOf>>
      BY <2>3 DEF ReadData, ReadEnd, RunConnectEstablished, RunForceClose, RunRemove,
                  RunConnectDestroyed, Handling, Running, poolVars, connVars
    <3>2. QED  BY <2>2, <2>3, <3>1, PoolStays, EventLives, RemoveLives, DestroyLives
  <2>4. ASSUME NEW c \in Conns, NewConnection(c)
        PROVE  failed' = "none" /\ LivesInv' /\ PoolRuns'
    <3>1. UNCHANGED failed
      BY <2>4 DEF NewConnection
    <3>2. QED  BY <2>2, <2>4, <3>1, AcceptLives, AcceptRuns
  <2>5. ASSUME NEW l \in Loops, LoopOnly(l) \/ LoopIdles(l)
        PROVE  failed' = "none" /\ LivesInv' /\ PoolRuns'
    <3>1. UNCHANGED failed
      BY <2>5 DEF LoopOnly, LoopIdles
    <3>2. QED  BY <2>2, <2>5, <3>1, LoopOnlyLives, RunsOn
  <2>6. CASE (\E c \in Conns : PeerCloses(c)) \/ StopServing \/ UNCHANGED vars
    <3>1. UNCHANGED <<lpc, pending, batch, ran, pool, connections, state, index, loopOf, failed>>
      BY <2>6 DEF PeerCloses, StopServing, vars, loopVars, poolVars, connVars
    <3>2. \A k \in Loops \ {Base} : quit'[k] = quit[k]
      BY <2>6 DEF PeerCloses, StopServing, Quit, vars, loopVars, TypeOK, LoopTypeOK
    <3>3. LivesInv'
      <4>1. \A l \in Loops : \A f : /\ Waits(f, l)' <=> Waits(f, l)
                                    /\ Once(f, l) => Once(f, l)'
        BY <3>1 DEF Waits, Once
      <4>2. QED  BY <2>2, <3>1, <4>1, SameWaits DEF TypeOK
    <3>4. PoolRuns'
      BY <2>2, <3>1, <3>2 DEF PoolRuns
    <3>5. QED  BY <2>2, <3>1, <3>3, <3>4
  <2>7. QED  BY <1>3, <2>3, <2>4, <2>5, <2>6 DEF Next, LoopStep
<1>4. QED  BY <1>1, <1>2, <1>3 DEF Destruction

LEMMA InitServing == Init => ServingInv
<1> SUFFICES ASSUME Init PROVE ServingInv
  OBVIOUS
<1>1. failed = "none"
  BY DEF Init
<1>2. PoolRuns
  <2>1. PICK n \in 0..Len(IoLoops) : pool = SubSeq(IoLoops, 1, n)
    BY DEF Init
  <2>2. pool \in Seq(Loops \ {Base})
    BY <2>1
  <2>3. \A i \in 1..Len(pool) : pool[i] \in Loops \ {Base} /\ pool[i] \in {pool[j] : j \in 1..Len(pool)}
    BY <2>2
  <2>4. QED  BY <2>3 DEF Init, LoopsInit, PoolRuns
<1>3. LivesInv
  <2>1. 1..Len(<<>>) = {}
    OBVIOUS
  <2>2. \A l \in Loops : pending[l] = <<>> /\ batch[l] = <<>>
    BY DEF Init, LoopsInit
  <2>3. \A l \in Loops : \A f : ~Waits(f, l) /\ Once(f, l)
    BY <2>1, <2>2 DEF Waits, Once, WaitsIn, OnceIn
  <2>4. \A c \in Conns : state[c] = "none" /\ c \notin connections /\ loopOf[c] = Base
    BY DEF Init
  <2>5. QED  BY <2>3, <2>4 DEF LivesInv, LifeOf
<1>4. QED  BY <1>1, <1>2, <1>3 DEF ServingInv

(* While the server serves, no interleaving of loops, peers and callbacks     *)
(* fails an assertion: connectEstablished finds its connection connecting,    *)
(* handleClose finds it open, the erase finds it in the map, Channel::remove  *)
(* and the poller find its channel, and ~TcpConnection runs only for one that *)
(* is disconnected and whose channel has been removed.                        *)
THEOREM NoAssertFails == Spec => []AssertsHoldWhileServing
<1>1. Init => ServingInv
  BY InitServing
<1>2. TypeOK /\ PhaseInv /\ LifeInv /\ ServingInv /\ [Next]_vars => ServingInv'
  BY NextServing
<1>3. TypeOK /\ PhaseInv /\ ServingInv => AssertsHoldWhileServing
  <2> SUFFICES ASSUME TypeOK, PhaseInv, failed = "none", LivesInv, PoolRuns,
                      NEW c \in Conns, Destroyed(c)
               PROVE  state[c] = "kDisconnected" /\ index[c] = "kNew"
    BY DEF AssertsHoldWhileServing, AssertsHold, ServingInv
  <2>1. state[c] # "none" /\ c \notin connections /\ \A l \in Loops : ~InFunctors(c, l)
    BY DEF Destroyed, Referenced
  <2>2. PICK home \in Loops : home = loopOf[c]
    BY DEF TypeOK
  <2>3. LifeOf(c, home)
    BY <2>2 DEF LivesInv
  <2>4. ~Waits(Destroy(c), home)
    <3>1. lpc[home] # "left" \/ home = Base
      BY <2>2 DEF PoolRuns
    <3>2. ASSUME Waits(Destroy(c), home) PROVE InFunctors(c, home)
      BY <3>1, <3>2, FunctorFields DEF Waits, WaitsIn, InFunctors, Destroy
    <3>3. QED  BY <2>1, <3>2
  <2>5. state[c] = "kDisconnected" /\ ~Waits(Remove(c), Base)
    BY <2>1, <2>3 DEF LifeOf, TypeOK, States
  <2>6. QED  BY <2>3, <2>4, <2>5 DEF LifeOf
<1>4. QED  BY <1>1, <1>2, <1>3, LifeHolds, PTL DEF Spec

=============================================================================
