----------------------------- MODULE MCEventLoop -----------------------------
(***************************************************************************)
(* Bounds for EventLoop.                                                   *)
(***************************************************************************)
EXTENDS EventLoop

\* A wheel with n entries in the bucket that is next and one in the current bucket.
wheelWith(n) ==
  LET there == next(emptyWheel)
  IN  [cur |-> 0,
       slots |-> [emptyWheel.slots EXCEPT ![there] = [j \in 1 .. n |-> j], ![0] = <<n + 1>>],
       where |-> [j \in 1 .. n + 1 |-> IF j <= n THEN there ELSE 0],
       entries |-> n + 1]

\* tick and fired say what the walk over the bucket does, entry by entry, for buckets of
\* up to five entries and every choice of the connections that are still there.
ASSUME TickIsItsWalk ==
  \A n \in 0 .. 5 : \A live \in SUBSET (1 .. n + 1) :
    LET w == wheelWith(n)
        v == walk(w, live)
    IN  v.wheel = tick(w) /\ v.fired = fired(w.slots[next(w)], live)

=============================================================================
