------------------------------ MODULE ByteFifo -------------------------------
(* What Buffer promises: a sequence of bytes that grows at its end (Append),  *)
(* shrinks at its front (Retrieve) and can be given a header (Prepend),       *)
(* whatever happens to the storage underneath.                                *)
EXTENDS Naturals, Sequences

CONSTANTS Strings     \* what one call may append or prepend

VARIABLE content      \* the readable bytes

Init == content = <<>>

Extend(s) == content' = content \o s

Prepend(s) == content' = s \o content

Retrieve(n) == content' = SubSeq(content, n + 1, Len(content))

Next ==
    \/ \E s \in Strings : Extend(s) \/ Prepend(s)
    \/ \E n \in 0..Len(content) : Retrieve(n)

Spec == Init /\ [][Next]_content

=============================================================================
