----------------------------- MODULE TimerWheel -----------------------------
(***************************************************************************)
(* TimerWheel (src/network/timer_wheel.{h,cpp}): the heartbeat timers of   *)
(* one EventLoop.  A wheel is a record: current_slot_, slots_ (the ids of  *)
(* the entries, in the order they were added), id_to_slot_ and entries_.   *)
(* Every entry has the same callback, EventLoop's, so it is left out.      *)
(***************************************************************************)
EXTENDS Integers, Sequences, FiniteSets, Maps

CONSTANTS
  MaxConns,    \* bound on the connections, which are numbered from 1
  kSlots,      \* 6000
  kTickMs,     \* 10
  HeartbeatMs  \* heartbeat_ms_, 5000

ASSUME WheelAssumption ==
  /\ MaxConns \in Nat
  /\ kSlots \in Nat \ {0}
  /\ kTickMs \in Nat \ {0}
  /\ HeartbeatMs \in Nat
  /\ HeartbeatMs <= kSlots * kTickMs

Conns == 1 .. MaxConns

Slots == 0 .. kSlots - 1

emptyWheel == [cur |-> 0, slots |-> [i \in Slots |-> <<>>], where |-> EmptyMap, entries |-> 0]

slotOf(w, delay) ==
  LET ticks == (delay + kTickMs - 1) \div kTickMs
  IN  (w.cur + IF ticks = 0 THEN 1 ELSE ticks) % kSlots

\* Where the loop of remove stops: the first entry of id, or the end.
find(bucket, id) ==
  CHOOSE i \in 1 .. Len(bucket) + 1 :
    /\ i <= Len(bucket) => bucket[i] = id
    /\ \A j \in 1 .. i - 1 : bucket[j] # id

\* bucket.erase(entry) for that entry.
without(bucket, id) ==
  LET i == find(bucket, id)
  IN  SubSeq(bucket, 1, i - 1) \o SubSeq(bucket, i + 1, Len(bucket))

\* Mutant: the entry goes, its place stays recorded.
removeKeepsPlace(w, id) ==
  IF id \notin DOMAIN w.where THEN w
  ELSE [cur |-> w.cur,
        slots |-> [w.slots EXCEPT ![w.where[id]] = without(@, id)],
        where |-> w.where,
        entries |-> w.entries - 1]

remove(w, id) ==
  IF id \notin DOMAIN w.where THEN w
  ELSE [cur |-> w.cur,
        slots |-> [w.slots EXCEPT ![w.where[id]] = without(@, id)],
        where |-> Erase(w.where, {id}),
        entries |-> w.entries - 1]

\* The second half of add and of refresh.
place(w, id, delay) ==
  [cur |-> w.cur,
   slots |-> [w.slots EXCEPT ![slotOf(w, delay)] = Append(@, id)],
   where |-> Put(w.where, id, slotOf(w, delay)),
   entries |-> w.entries + 1]

add(w, id, delay) == place(remove(w, id), id, delay)

refresh(w, id, delay) == IF id \in DOMAIN w.where THEN place(remove(w, id), id, delay) ELSE w

next(w) == (w.cur + 1) % kSlots

\* The entries of a bucket whose callback closes a connection, given the ids
\* whose connection is still there.  The callback calls remove, which erases the
\* entry from the vector that tick is walking: the next entry moves into its
\* place and the walk steps over it, without running its callback.
fired(bucket, live) ==
  LET from[i \in 1 .. Len(bucket) + 2] ==
        IF i > Len(bucket) THEN {}
        ELSE IF bucket[i] \in live THEN {bucket[i]} \cup from[i + 2]
        ELSE from[i + 1]
  IN  from[1]

(***************************************************************************)
(* The walk of tick over the bucket, entry by entry, after current_slot_   *)
(* has moved.  The range-for keeps the end it began with, so it visits as  *)
(* many places as the bucket had entries: mem holds the id at each place   *)
(* and the first size of them are the vector.  The callback of a live id   *)
(* has closeConnection call remove, which moves the entries behind it down *)
(* by one; entry then names what has moved into its place.  A place behind *)
(* the vector keeps the id of the entry moved out of it, whose callback is *)
(* empty.                                                                  *)
(***************************************************************************)
walk(w, live) ==
  LET bucket == w.slots[next(w)]
      n == Len(bucket)
      visit(v, i) ==
        LET id     == v.mem[i]
            fires  == i <= v.size /\ id \in live
            erased == fires /\ id \in DOMAIN v.where
            mem    == IF erased
                      THEN [j \in 1 .. n |-> v.mem[IF i <= j /\ j < v.size THEN j + 1 ELSE j]]
                      ELSE v.mem
            less   == IF erased THEN 1 ELSE 0
        IN  [mem |-> mem, size |-> v.size - less,
             where |-> Erase(v.where, {mem[i]} \cup IF erased THEN {id} ELSE {}),
             entries |-> v.entries - less,
             fired |-> v.fired \cup IF fires THEN {id} ELSE {}]
      after[i \in 0 .. n] ==
        IF i = 0 THEN [mem |-> bucket, size |-> n, where |-> w.where, entries |-> w.entries, fired |-> {}]
        ELSE visit(after[i - 1], i)
      end == after[n]
  IN  [fired |-> end.fired,
       wheel |-> [cur |-> next(w), slots |-> [w.slots EXCEPT ![next(w)] = <<>>],
                  where |-> end.where, entries |-> end.entries - end.size]]

\* What the walk amounts to when every entry of the bucket is recorded in id_to_slot_:
\* no entry is left anywhere, whether or not its callback ran.
tick(w) ==
  LET bucket == w.slots[next(w)]
  IN  [cur |-> next(w),
       slots |-> [w.slots EXCEPT ![next(w)] = <<>>],
       where |-> Erase(w.where, {bucket[i] : i \in 1 .. Len(bucket)}),
       entries |-> w.entries - Len(bucket)]

=============================================================================
