--------------------------- MODULE ConnectionPool ---------------------------
(***************************************************************************)
(* ConnectionPool<T> (src/storage/connection_pool.h): a queue of idle      *)
(* connections, a mutex and a condition variable.  A pool is a record, and *)
(* every critical section is an operator on it:                            *)
(*   idle    pool_, the connections that nobody holds, oldest first        *)
(*   made    how many connections the constructor has made                 *)
(*   asleep  the threads blocked in cv_.wait                               *)
(*   woken   the threads that notify_one has chosen and that have not run  *)
(*           since                                                         *)
(* A connection is the number create_ made it with.                        *)
(***************************************************************************)
EXTENDS Naturals, Sequences, FiniteSets

emptyPool == [idle |-> <<>>, made |-> 0, asleep |-> {}, woken |-> {}]

\* One round of the constructor's loop.
made(p) == [p EXCEPT !.idle = Append(@, p.made + 1), !.made = @ + 1]

\* create_ returned nullptr: what has been made is destroyed.
creationFailed(p) == emptyPool

\* A thread that is not asleep evaluates the predicate of cv_.wait: at the first
\* call, when it was notified, and when it wakes up spuriously.
canBorrow(p, t) == t \notin p.asleep /\ p.idle # <<>>

mustWait(p, t) == t \notin p.asleep /\ p.idle = <<>>

borrow(p, t) == [p EXCEPT !.idle = Tail(@), !.woken = @ \ {t}]

wait(p, t) == [p EXCEPT !.asleep = @ \union {t}, !.woken = @ \ {t}]

wakeSpuriously(p, t) == [p EXCEPT !.asleep = @ \ {t}]

notify(p, t) == [p EXCEPT !.asleep = @ \ {t}, !.woken = @ \union {t}]

\* Mutant: nobody is notified.
returnConnQuietly(p, c) == {[p EXCEPT !.idle = Append(@, c)]}

\* Mutant: only the first connection of an empty pool is announced.
returnConnFirst(p, c) ==
  LET q == [p EXCEPT !.idle = Append(@, c)]
  IN  IF p.asleep = {} \/ p.idle # <<>> THEN {q} ELSE {notify(q, t) : t \in p.asleep}

\* returnConn: notify_one picks one of the threads that are asleep, if there is one.
returnConn(p, c) ==
  LET q == [p EXCEPT !.idle = Append(@, c)]
  IN  IF p.asleep = {} THEN {q} ELSE {notify(q, t) : t \in p.asleep}

=============================================================================
