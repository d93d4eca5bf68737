------------------------------ MODULE FifoQueue ------------------------------
(* What the queues of common/base promise their callers, whatever lock they   *)
(* use: one queue of items, to which a call appends a batch, and from which a *)
(* call removes the oldest item, all of them, or throws them away.  Each call *)
(* is one step.                                                               *)
EXTENDS Naturals, Sequences

CONSTANT Batches       \* what one put or putAll may append: sequences of items

VARIABLES queue,       \* what is queued, oldest first
          delivered    \* every item a take or takeAll has returned, in order

Init ==
    /\ queue = <<>>
    /\ delivered = <<>>

Put(batch) ==
    /\ queue' = queue \o batch
    /\ UNCHANGED delivered

Take ==
    /\ queue # <<>>
    /\ queue' = Tail(queue)
    /\ delivered' = Append(delivered, Head(queue))

TakeAll ==
    /\ queue' = <<>>
    /\ delivered' = delivered \o queue

Clear ==
    /\ queue' = <<>>
    /\ UNCHANGED delivered

Next ==
    \/ \E batch \in Batches : Put(batch)
    \/ Take
    \/ TakeAll
    \/ Clear

Spec == Init /\ [][Next]_<<queue, delivered>>

=============================================================================
