----------------------------- MODULE ByteQueue -----------------------------
(***************************************************************************)
(* What Buffer promises, without its indices: a queue of bytes.  Bytes are *)
(* added at its end and taken from its front, and nothing else happens to  *)
(* them.                                                                   *)
(***************************************************************************)
EXTENDS Integers, Sequences

VARIABLE q

Init == q = <<>>

Add == Len(q') >= Len(q) /\ SubSeq(q', 1, Len(q)) = q

Take == \E n \in 0 .. Len(q) : q' = SubSeq(q, n + 1, Len(q))

Next == Add \/ Take

Spec == Init /\ [][Next]_q

=============================================================================
