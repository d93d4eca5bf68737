------------------------------ MODULE TcpServer ------------------------------
(* The life of connections in a server: muduo's TcpServer, Acceptor,          *)
(* EventLoopThreadPool and TcpConnection on several EventLoops.  The server   *)
(* accepts in the base loop; a connection lives in an io loop (the base loop  *)
(* if there is no pool).  Its end is seen in the one and recorded in the      *)
(* other, so a connection is established, closed, removed and destroyed by    *)
(* functors that cross.                                                       *)
(*                                                                            *)
(* What is read and written is left to Session.tla.  The server is used as    *)
(* muduo's examples use it: callbacks run in the loops, and it is destroyed   *)
(* by the base loop's thread after the base loop has been told to quit.       *)
EXTENDS EventLoop, FiniteSets

CONSTANTS Base,          \* the loop of the acceptor
          IoLoops,       \* the loops of the pool, a sequence
          Conns          \* the connections that clients may make

ASSUME LoopsAssumption ==
    /\ Base \in Loops
    /\ IoLoops \in Seq(Loops \ {Base})
ASSUME ChannelsAssumption == {"wakeup", "accept"} \cap Conns = {}

VARIABLES pool,          \* EventLoopThreadPool::loops_
          next,          \* EventLoopThreadPool::next_, counted from 1
          connections,   \* TcpServer::connections_
          stage,         \* of the server: serving, destroying, joining, stopped
          joined,        \* threads of the pool joined so far
          loopOf,        \* TcpConnection::loop_
          state,         \* TcpConnection::state_, "none" before construction
          index,         \* Channel::index_: kAdded while it has events
          told,          \* what connectionCallback_ was called with
          peerClosed,    \* the peer has closed: reads return 0
          failed         \* the assertion that aborted the process

poolVars == <<pool, next, stage, joined>>
connVars == <<loopOf, state, index, told>>
vars == <<loopVars, poolVars, connections, connVars, peerClosed, failed>>

Functor(name, c) == [run |-> name, conn |-> c]
Functors == [run : {"connectEstablished", "removeConnectionInLoop",
                    "connectDestroyed", "forceCloseInLoop"}, conn : Conns]

(* After TcpServer::start: the threads of the pool have published their loops *)
(* and may not yet have entered loop().                                       *)
Init ==
    /\ \E n \in 0..Len(IoLoops) : pool = SubSeq(IoLoops, 1, n)
    /\ LoopsInit({Base}, {pool[i] : i \in 1..Len(pool)})
    /\ next = 1
    /\ connections = {}
    /\ stage = "serving"
    /\ joined = 0
    /\ loopOf = [c \in Conns |-> Base]
    /\ state = [c \in Conns |-> "none"]
    /\ index = [c \in Conns |-> "kNew"]
    /\ told = [c \in Conns |-> <<>>]
    /\ peerClosed = [c \in Conns |-> FALSE]
    /\ failed = "none"

Check(assertion, holds) == failed' = IF holds THEN failed ELSE assertion

Become(c, s) == state' = [state EXCEPT ![c] = s]
Tell(c, what) == told' = [told EXCEPT ![c] = Append(@, what)]

-----------------------------------------------------------------------------
(* TcpConnection, in the thread of its loop.                                  *)

(* shutdown and forceClose, called by a callback of an open connection; the   *)
(* peer learns of the FIN and may close, forceClose queues.  Both are called  *)
(* in the loop's thread only, as everything in common/ does.                  *)
Shutdown(c) ==
    /\ Become(c, "kDisconnecting")
    /\ UNCHANGED <<pending, woken>>

ForceClose(c, l) ==
    /\ Become(c, "kDisconnecting")
    /\ QueueInLoop(l, Functor("forceCloseInLoop", c), l)

(* connectEstablished, with what the connection callback does: nothing,       *)
(* shutdown or forceClose.                                                    *)
ConnectEstablished(c, l) ==
    /\ index' = [index EXCEPT ![c] = "kAdded"]
    /\ Tell(c, "up")
    /\ \/ Become(c, "kConnected") /\ UNCHANGED <<pending, woken>>
       \/ Shutdown(c)
       \/ ForceClose(c, l)

(* connectDestroyed, and Channel::remove, which asserts that the channel has  *)
(* no events, and the poller's, which asserts that it knows the channel.      *)
ConnectDestroyed(c) ==
    /\ IF state[c] = "kConnected"
       THEN Become(c, "kDisconnected") /\ Tell(c, "down")
       ELSE UNCHANGED <<state, told>>
    /\ Check("remove", \/ index[c] = "kDeleted"
                       \/ index[c] = "kAdded" /\ state[c] = "kConnected")
    /\ index' = [index EXCEPT ![c] = "kNew"]

(* TcpServer::removeConnectionInLoop in the thread of loop l, the base loop;  *)
(* removeConnection runs it at once there, and queues it from any other loop. *)
RemoveWithoutErase(c, l) ==
    /\ UNCHANGED connections
    /\ QueueInLoop(loopOf[c], Functor("connectDestroyed", c), l)

RemoveConnectionInLoop(c, l) ==
    /\ connections' = connections \ {c}
    /\ QueueInLoop(loopOf[c], Functor("connectDestroyed", c), l)

RemoveConnection(c, l) ==
    \/ /\ l = Base
       /\ RemoveConnectionInLoop(c, l)
    \/ /\ l # Base
       /\ QueueInLoop(Base, Functor("removeConnectionInLoop", c), l)
       /\ UNCHANGED connections

IsOpen(c) == state[c] \in {"kConnected", "kDisconnecting"}

(* handleClose, with its assertion and that of the erase it may lead to; the  *)
(* close callback is the server's removeConnection.                           *)
HandleCloseStillPolling(c, l) ==
    /\ IF ~IsOpen(c) THEN failed' = "handleClose"
       ELSE Check("erase", l # Base \/ c \in connections)
    /\ Become(c, "kDisconnected")
    /\ UNCHANGED index
    /\ Tell(c, "down")
    /\ RemoveConnection(c, l)

HandleClose(c, l) ==
    /\ IF ~IsOpen(c) THEN failed' = "handleClose"
       ELSE Check("erase", l # Base \/ c \in connections)
    /\ Become(c, "kDisconnected")
    /\ index' = [index EXCEPT ![c] = "kDeleted"]
    /\ Tell(c, "down")
    /\ RemoveConnection(c, l)

-----------------------------------------------------------------------------
(* Events.                                                                    *)

(* getNextLoop: round robin over the pool; the base loop if that is empty.    *)
NextLoop == IF pool = <<>> THEN Base ELSE pool[next]

AfterOffByOne(i) == IF i > Len(pool) THEN 1 ELSE i + 1
After(i) == IF i + 1 > Len(pool) THEN 1 ELSE i + 1

(* Acceptor::handleRead and TcpServer::newConnection: connectEstablished is   *)
(* queued in the loop chosen, or run at once if that is the base loop.        *)
NewConnection(c) ==
    /\ Handling(Base, "accept")
    /\ state[c] = "none"
    /\ connections' = connections \cup {c}
    /\ \/ /\ pool # <<>>
          /\ loopOf' = [loopOf EXCEPT ![c] = NextLoop]
          /\ next' = After(next)
          /\ Become(c, "kConnecting")
          /\ QueueInLoop(NextLoop, Functor("connectEstablished", c), Base)
          /\ UNCHANGED <<index, told>>
       \/ /\ pool = <<>>
          /\ ConnectEstablished(c, Base)
          /\ UNCHANGED <<next, loopOf>>
    /\ UNCHANGED <<pool, stage, joined, peerClosed, failed>>

(* handleRead with data: the message callback does nothing, calls shutdown()  *)
(* or forceClose().                                                           *)
ReadData(l, c) ==
    /\ Handling(l, c)
    /\ ~peerClosed[c]
    /\ \/ UNCHANGED <<state, pending, woken>>
       \/ state[c] = "kConnected" /\ Shutdown(c)
       \/ IsOpen(c) /\ ForceClose(c, l)
    /\ UNCHANGED <<poolVars, connections, loopOf, index, told, peerClosed, failed>>

(* handleRead with 0.                                                         *)
ReadEnd(l, c) ==
    /\ Handling(l, c)
    /\ peerClosed[c]
    /\ HandleClose(c, l)
    /\ UNCHANGED <<poolVars, loopOf, peerClosed>>

PeerCloses(c) ==
    /\ state[c] # "none"
    /\ ~peerClosed[c]
    /\ peerClosed' = [peerClosed EXCEPT ![c] = TRUE]
    /\ UNCHANGED <<loopVars, poolVars, connections, connVars, failed>>

-----------------------------------------------------------------------------
(* Functors.                                                                  *)
RunConnectEstablished(l, c) ==
    /\ Running(l, Functor("connectEstablished", c))
    /\ Check("connectEstablished", state[c] = "kConnecting")
    /\ ConnectEstablished(c, l)
    /\ UNCHANGED <<poolVars, connections, loopOf, peerClosed>>

(* forceCloseInLoop: handleClose, unless the connection was closed meanwhile. *)
ForceCloseAnyway(l, c) ==
    /\ Running(l, Functor("forceCloseInLoop", c))
    /\ HandleClose(c, l)
    /\ UNCHANGED <<poolVars, loopOf, peerClosed>>

RunForceClose(l, c) ==
    /\ Running(l, Functor("forceCloseInLoop", c))
    /\ \/ /\ IsOpen(c)
          /\ HandleClose(c, l)
       \/ /\ ~IsOpen(c)
          /\ UNCHANGED <<pending, woken, connections, state, index, told, failed>>
    /\ UNCHANGED <<poolVars, loopOf, peerClosed>>

RunRemove(l, c) ==
    /\ Running(l, Functor("removeConnectionInLoop", c))
    /\ Check("erase", c \in connections)
    /\ RemoveConnectionInLoop(c, l)
    /\ UNCHANGED <<poolVars, connVars, peerClosed>>

RunConnectDestroyed(l, c) ==
    /\ Running(l, Functor("connectDestroyed", c))
    /\ ConnectDestroyed(c)
    /\ UNCHANGED <<pending, woken, poolVars, connections, loopOf, peerClosed>>

-----------------------------------------------------------------------------
(* The end.  Another thread, or a callback or functor that the base loop is   *)
(* running, tells the base loop to quit; when it has, its thread runs         *)
(* ~TcpServer: connectDestroyed for every connection, then, in the pool's     *)
(* destructor, quit and join for every thread.                                *)
StopServing ==
    /\ stage = "serving" /\ ~quit[Base]
    /\ \E inLoopThread \in BOOLEAN :
          /\ inLoopThread => lpc[Base] \in {"events", "functors"}
          /\ Quit(Base, inLoopThread)
    /\ UNCHANGED <<lpc, active, pending, batch, ran, poolVars, connections, connVars,
                   peerClosed, failed>>

BeginDestruction ==
    /\ stage = "serving" /\ lpc[Base] = "left"
    /\ stage' = "destroying"
    /\ UNCHANGED <<loopVars, pool, next, joined, connections, connVars, peerClosed, failed>>

DestroyConnection(c) ==
    /\ stage = "destroying" /\ c \in connections
    /\ connections' = connections \ {c}
    /\ \/ /\ loopOf[c] = Base
          /\ ConnectDestroyed(c)
          /\ UNCHANGED <<pending, woken>>
       \/ /\ loopOf[c] # Base
          /\ QueueInLoop(loopOf[c], Functor("connectDestroyed", c), Base)
          /\ UNCHANGED <<state, index, told, failed>>
    /\ UNCHANGED <<lpc, quit, active, batch, ran, poolVars, loopOf, peerClosed>>

QuitThread ==
    /\ stage = "destroying" /\ connections = {} /\ joined < Len(pool)
    /\ Quit(pool[joined + 1], FALSE)
    /\ stage' = "joining"
    /\ UNCHANGED <<lpc, active, pending, batch, ran, pool, next, joined, connections,
                   connVars, peerClosed, failed>>

JoinThread ==
    /\ stage = "joining" /\ lpc[pool[joined + 1]] = "left"
    /\ joined' = joined + 1
    /\ stage' = "destroying"
    /\ UNCHANGED <<loopVars, pool, next, connections, connVars, peerClosed, failed>>

EndDestruction ==
    /\ stage = "destroying" /\ connections = {} /\ joined = Len(pool)
    /\ stage' = "stopped"
    /\ UNCHANGED <<loopVars, pool, next, joined, connections, connVars, peerClosed, failed>>

-----------------------------------------------------------------------------
(* The channels poll may report in loop l: connections registered there, and  *)
(* the acceptor in the base loop as long as clients come.                     *)
Ready(l) ==
    {c \in Conns : loopOf[c] = l /\ index[c] = "kAdded"}
        \cup (IF l = Base /\ \E c \in Conns : state[c] = "none" THEN {"accept"} ELSE {})

(* Closed peers are reported by every poll.                                   *)
MustReport(l) == {c \in Ready(l) \cap Conns : peerClosed[c]}

LoopOnly(l) ==
    /\ \/ Enter(l)
       \/ Test(l)
       \/ Poll(l, Ready(l)) /\ MustReport(l) \subseteq active'[l]
       \/ HandleWakeup(l)
       \/ Swap(l)
       \/ EndFunctors(l)
    /\ UNCHANGED <<poolVars, connections, connVars, peerClosed, failed>>

LoopStep(l) ==
    \/ LoopOnly(l)
    \/ l = Base /\ \E c \in Conns : NewConnection(c)
    \/ \E c \in Conns :
          \/ ReadData(l, c) \/ ReadEnd(l, c)
          \/ RunConnectEstablished(l, c) \/ RunForceClose(l, c)
          \/ RunRemove(l, c) \/ RunConnectDestroyed(l, c)

LoopIdles(l) ==
    /\ PollTimesOut(l)
    /\ MustReport(l) = {}
    /\ UNCHANGED <<poolVars, connections, connVars, peerClosed, failed>>

Destruction ==
    \/ BeginDestruction
    \/ \E c \in Conns : DestroyConnection(c)
    \/ QuitThread
    \/ JoinThread
    \/ EndDestruction

Next ==
    /\ failed = "none"
    /\ \/ \E l \in Loops : LoopStep(l) \/ LoopIdles(l)
       \/ \E c \in Conns : PeerCloses(c)
       \/ StopServing
       \/ Destruction

Spec == Init /\ [][Next]_vars

(* The threads run.  Nothing relies on the time-out of poll.                  *)
FairSpec ==
    /\ Spec
    /\ \A l \in Loops : WF_vars(failed = "none" /\ LoopStep(l))
    /\ WF_vars(failed = "none" /\ Destruction)

-----------------------------------------------------------------------------
States == {"none", "kConnecting", "kConnected", "kDisconnecting", "kDisconnected"}

(* Every variable keeps its type.                                             *)
TypeOK ==
    /\ LoopTypeOK(Conns \cup {"accept"}, Functors)
    /\ pool \in Seq(Loops \ {Base})
    /\ next = 1 \/ next \in 1..Len(pool)
    /\ connections \subseteq Conns
    /\ stage \in {"serving", "destroying", "joining", "stopped"}
    /\ joined \in 0..Len(pool) /\ (stage = "joining" => joined < Len(pool))
    /\ loopOf \in [Conns -> Loops]
    /\ state \in [Conns -> States]
    /\ index \in [Conns -> {"kNew", "kAdded", "kDeleted"}]
    /\ told \in [Conns -> Seq({"up", "down"})]
    /\ peerClosed \in [Conns -> BOOLEAN]

(* Who holds a TcpConnectionPtr: the map, and a functor that is queued or in  *)
(* a batch (an io loop is destroyed with both when its thread ends).          *)
InFunctors(c, l) ==
    /\ lpc[l] # "left" \/ l = Base
    /\ \/ \E i \in 1..Len(pending[l]) : pending[l][i].conn = c
       \/ \E i \in 1..Len(batch[l]) : batch[l][i].conn = c

Referenced(c) ==
    \/ c \in connections
    \/ \E l \in Loops : InFunctors(c, l)

(* ~TcpConnection has run, and with it ~Socket, which closes the descriptor.  *)
Destroyed(c) == state[c] # "none" /\ ~Referenced(c)

(* Callers hear of a connection once when it is up and once when it is down,  *)
(* in this order, whoever closes it: the peer, forceClose, several of them at *)
(* once, or the destructor of the server.                                     *)
UpThenDown == \A c \in Conns : told[c] \in {<<>>, <<"up">>, <<"up", "down">>}

(* Every assertion on the way of a connection: connectEstablished finds it    *)
(* connecting (326), handleClose open (412), the erase finds it in the map    *)
(* (TcpServer 116), Channel::remove finds no events and the poller knows it,  *)
(* ~TcpConnection finds it disconnected (73) and its channel removed.         *)
AssertsHold ==
    /\ failed = "none"
    /\ \A c \in Conns :
          Destroyed(c) => state[c] = "kDisconnected" /\ index[c] = "kNew"

(* The same until the server's destructor starts: while it serves, no         *)
(* interleaving of loops, peers and callbacks breaks an assertion.            *)
AssertsHoldWhileServing == stage = "serving" => AssertsHold

(* A connection that has been closed is released, descriptor and all, while   *)
(* the server serves.                                                         *)
ClosedIsReleased ==
    \A c \in Conns : told[c] = <<"up", "down">> ~> (Destroyed(c) \/ quit[Base])

(* A loop that is told to quit leaves its loop, wherever it was; only a quit  *)
(* before loop() has begun can be lost.                                       *)
QuitIsHeard ==
    \A l \in Loops :
        (quit[l] /\ lpc[l] # "enter") ~> (lpc[l] = "left" \/ failed # "none")

=============================================================================
