------------------------------ MODULE EventLoop ------------------------------
(* muduo's EventLoop (3rd_party/muduo/muduo/net/EventLoop.cc): a thread that  *)
(* polls, handles the events, and runs the functors queued in it by itself    *)
(* and by other threads.  A loop that waits in poll is woken through an       *)
(* eventfd.  The loop's thread and the loop have the same name here.          *)
EXTENDS Naturals, Sequences

CONSTANT Loops

VARIABLES lpc,         \* where each loop is
          quit,        \* quit_
          woken,       \* wakeupFd_ is readable
          active,      \* activeChannels_ whose events are yet to be handled
          pending,     \* pendingFunctors_
          batch,       \* the vector doPendingFunctors swapped it into
          ran          \* how many functors of the batch have been run

loopVars == <<lpc, quit, woken, active, pending, batch, ran>>

GotoPhase(l, phase) == lpc' = [lpc EXCEPT ![l] = phase]

(* running loops are in loop(), starting ones have been constructed and have  *)
(* not called it, the others do not exist.                                    *)
LoopsInit(running, starting) ==
    /\ lpc = [l \in Loops |-> IF l \in running THEN "test"
                              ELSE IF l \in starting THEN "enter" ELSE "left"]
    /\ quit = [l \in Loops |-> FALSE]
    /\ woken = [l \in Loops |-> FALSE]
    /\ active = [l \in Loops |-> {}]
    /\ pending = [l \in Loops |-> <<>>]
    /\ batch = [l \in Loops |-> <<>>]
    /\ ran = [l \in Loops |-> 0]

-----------------------------------------------------------------------------
(* queueInLoop, called in the thread of loop by: push_back under the mutex,   *)
(* and wakeup unless the loop is sure to look at its functors again before it *)
(* polls.  (The push comes first, so writing the eventfd in the same step     *)
(* only brings the wakeup forward.)                                           *)
QueueWakingOthersOnly(l, f, by) ==
    /\ pending' = [pending EXCEPT ![l] = Append(@, f)]
    /\ woken' = [woken EXCEPT ![l] = @ \/ by # l]

QueueInLoop(l, f, by) ==
    /\ pending' = [pending EXCEPT ![l] = Append(@, f)]
    /\ woken' = [woken EXCEPT ![l] = @ \/ by # l \/ lpc[l] = "functors"]

(* quit; only a caller in another thread has to wake the loop.                *)
QuitSilently(l, inLoopThread) ==
    /\ quit' = [quit EXCEPT ![l] = TRUE]
    /\ UNCHANGED woken

Quit(l, inLoopThread) ==
    /\ quit' = [quit EXCEPT ![l] = TRUE]
    /\ woken' = [woken EXCEPT ![l] = @ \/ ~inLoopThread]

-----------------------------------------------------------------------------
(* loop: the start, which forgets a quit that came before it, and the test.   *)
Enter(l) ==
    /\ lpc[l] = "enter"
    /\ quit' = [quit EXCEPT ![l] = FALSE]
    /\ GotoPhase(l, "test")
    /\ UNCHANGED <<woken, active, pending, batch, ran>>

Test(l) ==
    /\ lpc[l] = "test"
    /\ GotoPhase(l, IF quit[l] THEN "left" ELSE "poll")
    /\ UNCHANGED <<quit, woken, active, pending, batch, ran>>

(* poll returns with some of the ready channels, with the wakeup channel if   *)
(* it is readable, and with nothing after kPollTimeMs.                        *)
Poll(l, ready) ==
    /\ lpc[l] = "poll"
    /\ \E some \in SUBSET ready :
          active' = [active EXCEPT ![l] = some \cup (IF woken[l] THEN {"wakeup"} ELSE {})]
    /\ active'[l] # {}
    /\ GotoPhase(l, "events")
    /\ UNCHANGED <<quit, woken, pending, batch, ran>>

PollTimesOut(l) ==
    /\ lpc[l] = "poll"
    /\ ~woken[l]
    /\ GotoPhase(l, "events")
    /\ UNCHANGED <<quit, woken, active, pending, batch, ran>>

(* handleRead of the wakeup channel.                                          *)
HandleWakeup(l) ==
    /\ lpc[l] = "events" /\ "wakeup" \in active[l]
    /\ active' = [active EXCEPT ![l] = @ \ {"wakeup"}]
    /\ woken' = [woken EXCEPT ![l] = FALSE]
    /\ UNCHANGED <<lpc, quit, pending, batch, ran>>

(* The frame of handleEvent for another channel of loop l.                    *)
Handling(l, channel) ==
    /\ lpc[l] = "events" /\ channel \in active[l]
    /\ active' = [active EXCEPT ![l] = @ \ {channel}]
    /\ UNCHANGED <<lpc, quit, batch, ran>>

(* doPendingFunctors: swap, run the batch in order, drop it at the end.       *)
Swap(l) ==
    /\ lpc[l] = "events" /\ active[l] = {}
    /\ batch' = [batch EXCEPT ![l] = pending[l]]
    /\ pending' = [pending EXCEPT ![l] = <<>>]
    /\ GotoPhase(l, "functors")
    /\ UNCHANGED <<quit, woken, active, ran>>

(* The frame of running functor f.                                            *)
Running(l, f) ==
    /\ lpc[l] = "functors" /\ ran[l] < Len(batch[l])
    /\ f = batch[l][ran[l] + 1]
    /\ ran' = [ran EXCEPT ![l] = @ + 1]
    /\ UNCHANGED <<lpc, quit, active, batch>>

EndFunctors(l) ==
    /\ lpc[l] = "functors" /\ ran[l] = Len(batch[l])
    /\ batch' = [batch EXCEPT ![l] = <<>>]
    /\ ran' = [ran EXCEPT ![l] = 0]
    /\ GotoPhase(l, "test")
    /\ UNCHANGED <<quit, woken, active, pending>>

-----------------------------------------------------------------------------
Phases == {"enter", "test", "poll", "events", "functors", "left"}

LoopTypeOK(Channels, Functors) ==
    /\ lpc \in [Loops -> Phases]
    /\ quit \in [Loops -> BOOLEAN]
    /\ woken \in [Loops -> BOOLEAN]
    /\ active \in [Loops -> SUBSET (Channels \cup {"wakeup"})]
    /\ pending \in [Loops -> Seq(Functors)]
    /\ batch \in [Loops -> Seq(Functors)]
    /\ ran \in [Loops -> Nat] /\ \A l \in Loops : ran[l] <= Len(batch[l])

(* No functor is forgotten: a loop that is going to poll, or is still running *)
(* the batch before, has its wakeup channel readable if anything was queued   *)
(* that it will not reach without polling first.                              *)
WakeupNotLost ==
    \A l \in Loops :
        (lpc[l] \in {"enter", "test", "poll", "functors"} /\ pending[l] # <<>>) => woken[l]

=============================================================================
