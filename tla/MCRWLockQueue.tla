---------------------------- MODULE MCRWLockQueue ----------------------------
(* Instances of RWLockQueue for TLC: which thread calls what.                 *)
EXTENDS RWLockQueue, TLC

CONSTANTS w1, w2, r1, r2

(* Two writers, one thread that takes, one that asks for the size and may     *)
(* clear the queue between the taker's empty() and its take().                *)
OneTaker == (w1 :> {"put", "putAll"}) @@ (w2 :> {"put"})
            @@ (r1 :> {"take", "takeAll", "clearAll"}) @@ (r2 :> {"size", "clearAll"})

(* One writer and two threads that take.                                      *)
TwoTakers == (w1 :> {"put"}) @@ (r1 :> {"take"}) @@ (r2 :> {"take"})

=============================================================================
