--------------------------- MODULE MCBlockingQueue ---------------------------
(* Instances of BlockingQueue for TLC: which thread calls what.               *)
EXTENDS BlockingQueue, TLC

CONSTANTS p1, p2, c1, c2

(* Two producers that call put, a worker that calls take and one that calls   *)
(* take, takeAll, size and clearAll.                                          *)
MixedCalls == (p1 :> {"put"}) @@ (p2 :> {"put"})
              @@ (c1 :> {"take"})
              @@ (c2 :> {"take", "takeAll", "size", "clearAll"})

(* Batches and single items put, two takers that take everything at once.     *)
DrainCalls == (p1 :> {"put", "putAll"}) @@ (p2 :> {"putAll"})
              @@ (c1 :> {"takeAll"}) @@ (c2 :> {"takeAll"})

(* Batches put, items taken one by one by two takers.                         *)
BatchCalls == (p1 :> {"putAll"}) @@ (c1 :> {"take"}) @@ (c2 :> {"take"})

=============================================================================
