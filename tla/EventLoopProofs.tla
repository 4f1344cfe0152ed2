-------------------------- MODULE EventLoopProofs --------------------------
(***************************************************************************)
(* Proofs about the event loop, for any number of connections, inputs and  *)
(* responses, any size of the wheel and of the send queue.                 *)
(*                                                                         *)
(* WheelConsistent counts entries; WheelInv says the same of each entry,   *)
(* and every operation of the wheel preserves it by itself.  NoLostWakeup  *)
(* speaks of the moment of epoll_wait; Output follows a connection with    *)
(* queued output through the loop.  That the disconnect callback runs once *)
(* rests on Ids: an id passes from pending_conns_ to conns_ and out of it, *)
(* and never comes back.                                                   *)
(***************************************************************************)
EXTENDS EventLoop, FiniteSetTheorems, SequenceTheorems, TLAPS

Distinct(s) == \A i, j \in 1 .. Len(s) : s[i] = s[j] => i = j

-----------------------------------------------------------------------------
(***************************************************************************)
(* The timer wheel.                                                        *)
(***************************************************************************)

WheelShape(w) ==
  /\ w.cur \in Slots
  /\ w.slots \in [Slots -> Seq(Conns)]
  /\ IsMap(w.where, Conns, Slots)

\* WheelConsistent entry by entry, without counting: an entry stands in the slot
\* that id_to_slot_ names, once, and every id of id_to_slot_ has its entry.
Placed(w) ==
  \A i \in Slots : \A j \in 1 .. Len(w.slots[i]) :
    w.slots[i][j] \in DOMAIN w.where /\ w.where[w.slots[i][j]] = i

Once(w) == \A i \in Slots : Distinct(w.slots[i])

Found(w) ==
  \A c \in DOMAIN w.where :
    \E j \in 1 .. Len(w.slots[w.where[c]]) : w.slots[w.where[c]][j] = c

Counted(w) == w.entries = Cardinality(DOMAIN w.where)

WheelInv(w) == WheelShape(w) /\ Placed(w) /\ Once(w) /\ Found(w) /\ Counted(w)

-----------------------------------------------------------------------------

\* A remainder by kSlots is a slot.
LEMMA SlotsFacts ==
  ASSUME NEW n \in Nat
  PROVE  n % kSlots \in Slots
  BY WheelAssumption DEF Slots

\* The slot of a timer is one of the wheel's.
LEMMA SlotOfType ==
  ASSUME NEW w, w.cur \in Slots, NEW delay \in Nat
  PROVE  slotOf(w, delay) \in Slots
<1> DEFINE ticks == (delay + kTickMs - 1) \div kTickMs
           steps == IF ticks = 0 THEN 1 ELSE ticks
<1>1. ticks \in Nat
  BY WheelAssumption
<1>2. w.cur + steps \in Nat
  BY <1>1, WheelAssumption DEF Slots
<1>3. (w.cur + steps) % kSlots \in Slots
  BY <1>2, SlotsFacts
<1> QED
  BY <1>3 DEF slotOf

\* The ids that may have a timer are finitely many.
LEMMA ConnsFinite ==
  ASSUME NEW S \in SUBSET Conns
  PROVE  IsFiniteSet(S) /\ Cardinality(S) \in Nat
<1>1. IsFiniteSet(Conns)
  BY FS_Interval, WheelAssumption DEF Conns
<1>2. IsFiniteSet(S)
  BY <1>1, FS_Subset
<1> QED
  BY <1>2, FS_CardinalityType

\* The loop of remove stops at the only entry of id.
LEMMA FindOnly ==
  ASSUME NEW b \in Seq(Conns), Distinct(b), NEW p \in 1 .. Len(b)
  PROVE  find(b, b[p]) = p
<1> DEFINE P(i) == /\ i <= Len(b) => b[i] = b[p]
                   /\ \A j \in 1 .. i - 1 : b[j] # b[p]
<1>1. p \in 1 .. Len(b) + 1 /\ P(p)
  BY DEF Distinct
<1>2. PICK q \in 1 .. Len(b) + 1 : q = find(b, b[p]) /\ P(q)
  BY <1>1 DEF find
<1>3. CASE q <= Len(b)
  BY <1>2, <1>3 DEF Distinct
<1>4. CASE ~ (q <= Len(b))
  BY <1>2, <1>4
<1> QED
  BY <1>2, <1>3, <1>4

\* erase takes one entry out and closes the gap.
LEMMA WithoutOnly ==
  ASSUME NEW b \in Seq(Conns), Distinct(b), NEW p \in 1 .. Len(b)
  PROVE  /\ without(b, b[p]) \in Seq(Conns)
         /\ Len(without(b, b[p])) = Len(b) - 1
         /\ \A j \in 1 .. Len(b) - 1 :
              without(b, b[p])[j] = IF j < p THEN b[j] ELSE b[j + 1]
<1> DEFINE s == SubSeq(b, 1, p - 1)
           t == SubSeq(b, p + 1, Len(b))
<1>1. without(b, b[p]) = s \o t
  BY FindOnly DEF without
<1>2. Len(b) \in Nat /\ \A i \in 1 .. Len(b) : b[i] \in Conns
  OBVIOUS
<1>3. /\ s \in Seq(Conns) /\ Len(s) = p - 1
      /\ \A i \in 1 .. p - 1 : s[i] = b[i]
  <2>1. \A i \in 1 .. p - 1 : b[i] \in Conns
    BY <1>2
  <2>2. 1 \in Int /\ p - 1 \in Int
    OBVIOUS
  <2> QED
    BY <2>1, <2>2, SubSeqProperties
<1>4. /\ t \in Seq(Conns) /\ Len(t) = Len(b) - p
      /\ \A i \in 1 .. Len(b) - p : t[i] = b[p + i]
  <2>1. \A i \in p + 1 .. Len(b) : b[i] \in Conns
    BY <1>2
  <2>2. p + 1 \in Int /\ Len(b) \in Int
    OBVIOUS
  <2>3. /\ t \in Seq(Conns)
        /\ Len(t) = IF p + 1 <= Len(b) THEN Len(b) - (p + 1) + 1 ELSE 0
        /\ \A i \in 1 .. Len(b) - (p + 1) + 1 : t[i] = b[(p + 1) + i - 1]
    BY <2>1, <2>2, SubSeqProperties
  <2> HIDE DEF t
  <2>4. ASSUME NEW i \in 1 .. Len(b) - p
        PROVE  t[i] = b[p + i]
    <3>1. i \in 1 .. Len(b) - (p + 1) + 1 /\ (p + 1) + i - 1 = p + i
      BY <1>2
    <3> QED
      BY <3>1, <2>3
  <2>5. Len(t) = Len(b) - p
    BY <2>3, <1>2
  <2> QED
    BY <2>3, <2>4, <2>5
<1> HIDE DEF s, t
<1>5. /\ s \o t \in Seq(Conns) /\ Len(s \o t) = Len(b) - 1
      /\ \A i \in 1 .. Len(b) - 1 : (s \o t)[i] = IF i <= p - 1 THEN s[i] ELSE t[i - (p - 1)]
  <2>1. Len(s) + Len(t) = Len(b) - 1
    BY <1>2, <1>3, <1>4
  <2>2. /\ s \o t \in Seq(Conns)
        /\ Len(s \o t) = Len(s) + Len(t)
        /\ \A i \in 1 .. Len(s) + Len(t) : (s \o t)[i] = IF i <= Len(s) THEN s[i] ELSE t[i - Len(s)]
    BY <1>3, <1>4, ConcatProperties
  <2> QED
    BY <2>1, <2>2, <1>3
<1>6. ASSUME NEW j \in 1 .. Len(b) - 1
      PROVE  (s \o t)[j] = IF j < p THEN b[j] ELSE b[j + 1]
  <2>1. CASE j < p
    BY <2>1, <1>3, <1>5
  <2>2. CASE ~ (j < p)
    <3>1. j - (p - 1) \in 1 .. Len(b) - p /\ p + (j - (p - 1)) = j + 1
      BY <2>2
    <3>2. t[j - (p - 1)] = b[j + 1]
      BY <3>1, <1>4
    <3> QED
      BY <3>2, <2>2, <1>5
  <2> QED
    BY <2>1, <2>2
<1> QED
  BY <1>1, <1>5, <1>6

\* What remove does to a wheel without fault: id's entry and nothing else goes.
LEMMA RemoveWheel ==
  ASSUME NEW w, WheelInv(w), NEW id \in Conns
  PROVE  WheelInv(remove(w, id)) /\ id \notin DOMAIN remove(w, id).where
<1>1. CASE id \notin DOMAIN w.where
  BY <1>1 DEF remove
<1>2. CASE id \in DOMAIN w.where
  <2> DEFINE r == remove(w, id)
             s == w.where[id]
             b == w.slots[s]
             n == without(b, id)
  <2>1. /\ s \in Slots /\ b \in Seq(Conns) /\ Distinct(b)
        /\ \E p \in 1 .. Len(b) : b[p] = id
    BY <1>2 DEF WheelInv, WheelShape, IsMap, Once, Found
  <2>2. PICK p \in 1 .. Len(b) : b[p] = id
    BY <2>1
  <2>3. /\ n \in Seq(Conns) /\ Len(n) = Len(b) - 1
        /\ \A j \in 1 .. Len(b) - 1 : n[j] = IF j < p THEN b[j] ELSE b[j + 1]
        /\ Len(b) \in Nat
    <3>1. b \in Seq(Conns) /\ Distinct(b) /\ p \in 1 .. Len(b) /\ Len(b) \in Nat
      BY <2>1
    <3> HIDE DEF b
    <3> QED
      BY <3>1, <2>2, WithoutOnly
  <2>4. /\ r.cur = w.cur
        /\ r.slots = [w.slots EXCEPT ![s] = n]
        /\ r.where = Erase(w.where, {id})
        /\ r.entries = w.entries - 1
        /\ w.where[id] = s
    BY <1>2 DEF remove
  <2>5. WheelShape(w) /\ Placed(w) /\ Once(w) /\ Found(w) /\ Counted(w)
    BY DEF WheelInv
  <2> HIDE DEF r, s, n
  <2>6. /\ DOMAIN r.where = DOMAIN w.where \ {id}
        /\ \A c \in DOMAIN r.where : r.where[c] = w.where[c]
    BY <2>4 DEF Erase
  <2>7. /\ r.slots \in [Slots -> Seq(Conns)]
        /\ r.slots[s] = n
        /\ \A i \in Slots : i # s => r.slots[i] = w.slots[i]
    BY <2>1, <2>3, <2>4, <2>5 DEF WheelShape
  <2>8. WheelShape(r)
    <3>1. IsMap(r.where, Conns, Slots)
      BY <2>4, <2>5 DEF WheelShape, IsMap, Erase
    <3> QED
      BY <3>1, <2>4, <2>5, <2>7 DEF WheelShape
  <2>9. \A j \in 1 .. Len(n) : n[j] # id /\ \E i \in 1 .. Len(b) : n[j] = b[i]
    <3> SUFFICES ASSUME NEW j \in 1 .. Len(n)
                 PROVE  n[j] # id /\ \E i \in 1 .. Len(b) : n[j] = b[i]
      OBVIOUS
    <3> HIDE DEF b
    <3>1. Len(b) \in Nat /\ j \in 1 .. Len(b) /\ j + 1 \in 1 .. Len(b)
      BY <2>3
    <3>2. CASE j < p
      BY <3>1, <3>2, <2>1, <2>2, <2>3 DEF Distinct
    <3>3. CASE ~ (j < p)
      <4>1. n[j] = b[j + 1] /\ j + 1 # p
        BY <3>1, <3>3, <2>3
      <4> QED
        BY <4>1, <3>1, <2>1, <2>2 DEF Distinct
    <3> QED
      BY <3>2, <3>3
  <2>10. Placed(r)
    <3> SUFFICES ASSUME NEW i \in Slots, NEW j \in 1 .. Len(r.slots[i])
                 PROVE  r.slots[i][j] \in DOMAIN r.where /\ r.where[r.slots[i][j]] = i
      BY DEF Placed
    <3>1. CASE i = s
      <4>1. j \in 1 .. Len(n) /\ r.slots[i][j] = n[j]
        BY <3>1, <2>7
      <4>2. PICK k \in 1 .. Len(b) : n[j] = b[k]
        BY <4>1, <2>9
      <4>3. b[k] \in DOMAIN w.where /\ w.where[b[k]] = s
        BY <2>1, <2>5 DEF Placed
      <4> QED
        BY <3>1, <4>1, <4>2, <4>3, <2>6, <2>9
    <3>2. CASE i # s
      <4>1. j \in 1 .. Len(w.slots[i]) /\ r.slots[i][j] = w.slots[i][j]
        BY <3>2, <2>7
      <4>2. w.slots[i][j] \in DOMAIN w.where /\ w.where[w.slots[i][j]] = i
        BY <4>1, <2>5 DEF Placed
      <4>3. w.slots[i][j] # id
        BY <4>2, <3>2, <2>4
      <4> QED
        BY <4>1, <4>2, <4>3, <2>6
    <3> QED
      BY <3>1, <3>2
  <2>11. Once(r)
    <3>1. Distinct(n)
      <4> SUFFICES ASSUME NEW i \in 1 .. Len(n), NEW j \in 1 .. Len(n), n[i] = n[j]
                   PROVE  i = j
        BY DEF Distinct
      <4> HIDE DEF b
      <4>1. /\ Len(b) \in Nat
            /\ i \in 1 .. Len(b) /\ i + 1 \in 1 .. Len(b)
            /\ j \in 1 .. Len(b) /\ j + 1 \in 1 .. Len(b)
        BY <2>3
      <4>2. CASE i < p /\ j < p
        BY <4>1, <4>2, <2>1, <2>3 DEF Distinct
      <4>3. CASE i < p /\ ~ (j < p)
        BY <4>1, <4>3, <2>1, <2>3 DEF Distinct
      <4>4. CASE ~ (i < p) /\ j < p
        BY <4>1, <4>4, <2>1, <2>3 DEF Distinct
      <4>5. CASE ~ (i < p) /\ ~ (j < p)
        <5>1. i + 1 = j + 1
          BY <4>1, <4>5, <2>1, <2>3 DEF Distinct
        <5> QED
          BY <5>1
      <4> QED
        BY <4>2, <4>3, <4>4, <4>5
    <3> QED
      BY <3>1, <2>5, <2>7 DEF Once
  <2>12. Found(r)
    <3> SUFFICES ASSUME NEW c \in DOMAIN r.where
                 PROVE  \E j \in 1 .. Len(r.slots[r.where[c]]) : r.slots[r.where[c]][j] = c
      BY DEF Found
    <3>1. c \in DOMAIN w.where /\ c # id /\ r.where[c] = w.where[c] /\ w.where[c] \in Slots
      BY <2>5, <2>6 DEF WheelShape, IsMap
    <3>2. PICK k \in 1 .. Len(w.slots[w.where[c]]) : w.slots[w.where[c]][k] = c
      BY <3>1, <2>5 DEF Found
    <3>3. CASE w.where[c] # s
      BY <3>1, <3>2, <3>3, <2>7
    <3>4. CASE w.where[c] = s
      <4>1. Len(b) \in Nat /\ k \in 1 .. Len(b) /\ b[k] = c /\ k # p
        BY <3>1, <3>2, <3>4, <2>1, <2>2
      <4>2. CASE k < p
        <5>1. k \in 1 .. Len(n) /\ n[k] = c
          BY <4>1, <4>2, <2>3
        <5> QED
          BY <5>1, <3>1, <3>4, <2>7
      <4>3. CASE ~ (k < p)
        <5>1. k - 1 \in 1 .. Len(b) - 1 /\ ~ (k - 1 < p) /\ (k - 1) + 1 = k
          BY <4>1, <4>3
        <5>2. k - 1 \in 1 .. Len(n) /\ n[k - 1] = c
          BY <5>1, <4>1, <2>3
        <5> QED
          BY <5>2, <3>1, <3>4, <2>7
      <4> QED
        BY <4>2, <4>3
    <3> QED
      BY <3>3, <3>4
  <2>13. Counted(r)
    <3>1. DOMAIN w.where \in SUBSET Conns
      BY <2>5 DEF WheelShape, IsMap
    <3>2. IsFiniteSet(DOMAIN w.where)
      BY <3>1, ConnsFinite
    <3>3. Cardinality(DOMAIN w.where \ {id}) = Cardinality(DOMAIN w.where) - 1
      BY <3>2, <1>2, FS_RemoveElement
    <3> QED
      BY <3>3, <2>4, <2>5, <2>6 DEF Counted
  <2> QED
    BY <2>6, <2>8, <2>10, <2>11, <2>12, <2>13 DEF WheelInv, r
<1> QED
  BY <1>1, <1>2

\* place puts one entry of an id that has none.
LEMMA PlaceWheel ==
  ASSUME NEW w, WheelInv(w), NEW id \in Conns, id \notin DOMAIN w.where, NEW delay \in Nat
  PROVE  WheelInv(place(w, id, delay))
<1> DEFINE r == place(w, id, delay)
           s == slotOf(w, delay)
           b == w.slots[s]
           n == Append(b, id)
<1>1. WheelShape(w) /\ Placed(w) /\ Once(w) /\ Found(w) /\ Counted(w)
  BY DEF WheelInv
<1>2. s \in Slots
  BY <1>1, SlotOfType DEF WheelShape
<1>3. /\ r.cur = w.cur
      /\ r.slots = [w.slots EXCEPT ![s] = n]
      /\ r.where = Put(w.where, id, s)
      /\ r.entries = w.entries + 1
  BY DEF place
<1> HIDE DEF r, s
<1>4. b \in Seq(Conns)
  BY <1>1, <1>2 DEF WheelShape
<1>5. /\ n \in Seq(Conns) /\ Len(n) = Len(b) + 1
      /\ \A j \in 1 .. Len(b) : n[j] = b[j]
      /\ n[Len(b) + 1] = id
  BY <1>4, AppendProperties
<1> HIDE DEF n
<1>6. /\ DOMAIN r.where = DOMAIN w.where \cup {id}
      /\ r.where[id] = s
      /\ \A c \in DOMAIN w.where : r.where[c] = w.where[c]
  BY <1>3 DEF Put
<1>7. /\ r.slots \in [Slots -> Seq(Conns)]
      /\ r.slots[s] = n
      /\ \A i \in Slots : i # s => r.slots[i] = w.slots[i]
  BY <1>1, <1>2, <1>3, <1>5 DEF WheelShape
<1>8. WheelShape(r)
  <2>1. IsMap(r.where, Conns, Slots)
    BY <1>1, <1>2, <1>3 DEF WheelShape, IsMap, Put
  <2> QED
    BY <2>1, <1>1, <1>3, <1>7 DEF WheelShape
<1>9. \A j \in 1 .. Len(n) : j = Len(b) + 1 \/ j \in 1 .. Len(b)
  BY <1>4, <1>5
<1>10. \A j \in 1 .. Len(b) : b[j] # id
  BY <1>1, <1>2 DEF Placed
<1>11. Placed(r)
  <2> SUFFICES ASSUME NEW i \in Slots, NEW j \in 1 .. Len(r.slots[i])
               PROVE  r.slots[i][j] \in DOMAIN r.where /\ r.where[r.slots[i][j]] = i
    BY DEF Placed
  <2>1. CASE i = s
    BY <2>1, <1>1, <1>2, <1>5, <1>6, <1>7, <1>9 DEF Placed
  <2>2. CASE i # s
    BY <2>2, <1>1, <1>6, <1>7 DEF Placed
  <2> QED
    BY <2>1, <2>2
<1>12. Once(r)
  <2>1. Distinct(n)
    BY <1>1, <1>2, <1>5, <1>9, <1>10 DEF Distinct, Once
  <2> QED
    BY <2>1, <1>1, <1>7 DEF Once
<1>13. Found(r)
  <2> SUFFICES ASSUME NEW c \in DOMAIN r.where
               PROVE  \E j \in 1 .. Len(r.slots[r.where[c]]) : r.slots[r.where[c]][j] = c
    BY DEF Found
  <2>1. CASE c = id
    <3>1. Len(b) + 1 \in 1 .. Len(n)
      BY <1>4, <1>5
    <3> QED
      BY <3>1, <2>1, <1>5, <1>6, <1>7
  <2>2. CASE c # id
    <3>1. c \in DOMAIN w.where /\ r.where[c] = w.where[c] /\ w.where[c] \in Slots
      BY <2>2, <1>1, <1>6 DEF WheelShape, IsMap
    <3>2. PICK k \in 1 .. Len(w.slots[w.where[c]]) : w.slots[w.where[c]][k] = c
      BY <3>1, <1>1 DEF Found
    <3>3. CASE w.where[c] = s
      <4>1. k \in 1 .. Len(n) /\ n[k] = c
        BY <3>2, <3>3, <1>4, <1>5
      <4> QED
        BY <4>1, <3>1, <3>3, <1>7
    <3>4. CASE w.where[c] # s
      BY <3>1, <3>2, <3>4, <1>7
    <3> QED
      BY <3>3, <3>4
  <2> QED
    BY <2>1, <2>2
<1>14. Counted(r)
  <2>1. DOMAIN w.where \in SUBSET Conns
    BY <1>1 DEF WheelShape, IsMap
  <2>2. IsFiniteSet(DOMAIN w.where)
    BY <2>1, ConnsFinite
  <2>3. Cardinality(DOMAIN w.where \cup {id}) = Cardinality(DOMAIN w.where) + 1
    BY <2>2, FS_AddElement
  <2> QED
    BY <2>3, <1>1, <1>3, <1>6 DEF Counted
<1> QED
  BY <1>8, <1>11, <1>12, <1>13, <1>14 DEF WheelInv, r

\* add gives id one entry, whatever entry it had.
LEMMA AddWheel ==
  ASSUME NEW w, WheelInv(w), NEW id \in Conns, NEW delay \in Nat
  PROVE  WheelInv(add(w, id, delay))
<1>1. WheelInv(remove(w, id)) /\ id \notin DOMAIN remove(w, id).where
  BY RemoveWheel
<1> QED
  BY <1>1, PlaceWheel DEF add

\* So does refresh, for an id that has one.
LEMMA RefreshWheel ==
  ASSUME NEW w, WheelInv(w), NEW id \in Conns, NEW delay \in Nat
  PROVE  WheelInv(refresh(w, id, delay))
<1>1. WheelInv(remove(w, id)) /\ id \notin DOMAIN remove(w, id).where
  BY RemoveWheel
<1>2. WheelInv(place(remove(w, id), id, delay))
  BY <1>1, PlaceWheel
<1> QED
  BY <1>2 DEF refresh

\* An entry of each of its ids: a bucket without repetition has as many entries as ids.
LEMMA DistinctCount ==
  ASSUME NEW b \in Seq(Conns), Distinct(b)
  PROVE  Cardinality({b[i] : i \in 1 .. Len(b)}) = Len(b)
<1> DEFINE T == {b[i] : i \in 1 .. Len(b)}
<1>1. Len(b) \in Nat
  OBVIOUS
<1>2. [i \in 1 .. Len(b) |-> b[i]] \in Bijection(1 .. Len(b), T)
  BY DEF Bijection, Injection, IsInjective, Surjection, Distinct
<1>3. ExistsBijection(1 .. Len(b), T)
  BY <1>2 DEF ExistsBijection
<1> QED
  BY <1>1, <1>3, FS_CountingElements

\* tick empties one slot: the ids of its bucket lose their place and no other does.
LEMMA TickWheel ==
  ASSUME NEW w, WheelInv(w)
  PROVE  WheelInv(tick(w))
<1> DEFINE r == tick(w)
           s == next(w)
           b == w.slots[s]
           T == {b[i] : i \in 1 .. Len(b)}
<1>1. WheelShape(w) /\ Placed(w) /\ Once(w) /\ Found(w) /\ Counted(w)
  BY DEF WheelInv
<1>2. s \in Slots
  <2>1. w.cur + 1 \in Nat
    BY <1>1 DEF WheelShape, Slots
  <2> QED
    BY <2>1, SlotsFacts DEF next
<1>3. /\ r.cur = s
      /\ r.slots = [w.slots EXCEPT ![s] = <<>>]
      /\ r.where = Erase(w.where, T)
      /\ r.entries = w.entries - Len(b)
  BY DEF tick
<1> HIDE DEF r, s
<1>4. b \in Seq(Conns) /\ Distinct(b)
  BY <1>1, <1>2 DEF WheelShape, Once
<1>5. /\ DOMAIN r.where = DOMAIN w.where \ T
      /\ \A c \in DOMAIN r.where : r.where[c] = w.where[c]
  BY <1>3 DEF Erase
<1>6. /\ r.slots \in [Slots -> Seq(Conns)]
      /\ Len(r.slots[s]) = 0
      /\ \A i \in Slots : i # s => r.slots[i] = w.slots[i]
  BY <1>1, <1>2, <1>3 DEF WheelShape
<1>7. WheelShape(r)
  <2>1. IsMap(r.where, Conns, Slots)
    BY <1>1, <1>3 DEF WheelShape, IsMap, Erase
  <2> QED
    BY <2>1, <1>2, <1>3, <1>6 DEF WheelShape
<1>8. T \in SUBSET (DOMAIN w.where) /\ \A c \in T : w.where[c] = s
  BY <1>1, <1>2 DEF Placed
<1>9. Placed(r)
  <2> SUFFICES ASSUME NEW i \in Slots, NEW j \in 1 .. Len(r.slots[i])
               PROVE  r.slots[i][j] \in DOMAIN r.where /\ r.where[r.slots[i][j]] = i
    BY DEF Placed
  <2>1. i # s
    BY <1>6
  <2>2. r.slots[i][j] \in DOMAIN w.where /\ w.where[r.slots[i][j]] = i
    BY <2>1, <1>1, <1>6 DEF Placed
  <2> QED
    BY <2>1, <2>2, <1>5, <1>8
<1>10. Once(r)
  BY <1>1, <1>6 DEF Once, Distinct
<1>11. Found(r)
  <2> SUFFICES ASSUME NEW c \in DOMAIN r.where
               PROVE  \E j \in 1 .. Len(r.slots[r.where[c]]) : r.slots[r.where[c]][j] = c
    BY DEF Found
  <2>1. c \in DOMAIN w.where /\ c \notin T /\ r.where[c] = w.where[c] /\ w.where[c] \in Slots
    BY <1>1, <1>5 DEF WheelShape, IsMap
  <2>2. PICK k \in 1 .. Len(w.slots[w.where[c]]) : w.slots[w.where[c]][k] = c
    BY <2>1, <1>1 DEF Found
  <2>3. w.where[c] # s
    BY <2>1, <2>2
  <2> QED
    BY <2>1, <2>2, <2>3, <1>6
<1>12. Counted(r)
  <2>1. DOMAIN w.where \in SUBSET Conns
    BY <1>1 DEF WheelShape, IsMap
  <2>2. IsFiniteSet(DOMAIN w.where)
    BY <2>1, ConnsFinite
  <2>3. Cardinality(T) = Len(b)
    BY <1>4, DistinctCount
  <2> HIDE DEF T, b
  <2>4. Cardinality(DOMAIN w.where \ T) = Cardinality(DOMAIN w.where) - Cardinality(T)
    <3>1. DOMAIN w.where \cap T = T
      BY <1>8
    <3> QED
      BY <3>1, <2>2, FS_Difference
  <2> QED
    BY <2>3, <2>4, <1>1, <1>3, <1>5 DEF Counted
<1> QED
  BY <1>7, <1>9, <1>10, <1>11, <1>12 DEF WheelInv, r

\* The new wheel has no timer.
LEMMA EmptyWheel ==
  WheelInv(emptyWheel)
<1> DEFINE w == emptyWheel
<1>1. /\ w.cur = 0 /\ w.slots = [i \in Slots |-> <<>>]
      /\ w.where = EmptyMap /\ w.entries = 0
  BY DEF emptyWheel
<1> HIDE DEF w
<1>2. DOMAIN w.where = {}
  BY <1>1 DEF EmptyMap
<1>3. \A i \in Slots : Len(w.slots[i]) = 0
  BY <1>1
<1>4. WheelShape(w)
  BY <1>1, <1>2, WheelAssumption DEF WheelShape, IsMap, Slots, EmptyMap
<1>5. Placed(w) /\ Once(w) /\ Found(w)
  BY <1>2, <1>3 DEF Placed, Once, Distinct, Found
<1>6. Counted(w)
  BY <1>1, <1>2, FS_EmptySet DEF Counted
<1> QED
  BY <1>4, <1>5, <1>6 DEF WheelInv, w

\* The entry-by-entry statement gives the numbers of WheelConsistent.
LEMMA WheelCounts ==
  ASSUME WheelInv(wheel)
  PROVE  WheelConsistent
<1>1. ASSUME NEW i \in Slots, NEW c \in Conns
      PROVE  Cardinality({j \in 1 .. Len(wheel.slots[i]) : wheel.slots[i][j] = c})
               = IF c \in DOMAIN wheel.where /\ wheel.where[c] = i THEN 1 ELSE 0
  <2> DEFINE b == wheel.slots[i]
             E == {j \in 1 .. Len(b) : b[j] = c}
  <2>1. Distinct(b)
    BY DEF WheelInv, Once
  <2>2. CASE c \in DOMAIN wheel.where /\ wheel.where[c] = i
    <3>1. PICK p \in 1 .. Len(b) : b[p] = c
      BY <2>2 DEF WheelInv, Found
    <3>2. E = {p}
      BY <3>1, <2>1 DEF Distinct
    <3>3. Cardinality(E) = 1
      BY <3>2, FS_Singleton
    <3> QED
      BY <3>3, <2>2
  <2>3. CASE ~ (c \in DOMAIN wheel.where /\ wheel.where[c] = i)
    <3>1. E = {}
      BY <2>3 DEF WheelInv, Placed
    <3>2. Cardinality(E) = 0
      BY <3>1, FS_EmptySet
    <3> QED
      BY <3>2, <2>3
  <2> QED
    BY <2>2, <2>3
<1> QED
  BY <1>1 DEF WheelConsistent, WheelInv, Counted

-----------------------------------------------------------------------------
(***************************************************************************)
(* The invariant of the loop.                                              *)
(***************************************************************************)

Types ==
  /\ born \in 0 .. MaxConns
  /\ accepted \in Seq(1 .. born)
  /\ writes \in Seq(1 .. born)
  /\ IsMap(conns, 1 .. born, Connection)
  /\ kernel \in [Conns -> Socket]
  /\ loop.pc \in LoopStates
  /\ IsMap(loop.events, DOMAIN conns, SUBSET {"in", "out"})
  /\ calls \in [Conns -> 0 .. 1]

\* A connection is on its way to the loop, in the loop or gone, in this order: its id
\* is never used again, so the disconnect callback runs for it once.
Ids ==
  /\ Distinct(accepted)
  /\ \A i \in 1 .. Len(accepted) : accepted[i] \notin DOMAIN conns /\ calls[accepted[i]] = 0
  /\ \A c \in DOMAIN conns : calls[c] = 0
  /\ \A c \in Conns : c > born => calls[c] = 0

Routed == routes \subseteq DOMAIN conns

\* The loop has been told of c and has not come to write to it.
Told(c) ==
  /\ loop.pc \in {"writes", "conns", "events"}
  /\ c \in DOMAIN loop.events
  /\ "out" \in loop.events[c]

\* Queued output has EPOLLOUT asked for and, if the socket would take it, epoll_wait will
\* report it or has done so: this is NoLostWakeup at every step of the loop.
Output ==
  \A c \in DOMAIN conns :
    conns[c].out > 0 =>
      /\ kernel[c].out = TRUE
      /\ \/ kernel[c].full = TRUE
         \/ kernel[c].end = "reset"
         \/ kernel[c].et = FALSE
         \/ kernel[c].woken = TRUE
         \/ Told(c)

LoopInv == Types /\ Ids /\ Routed /\ Output /\ WheelInv(wheel)

-----------------------------------------------------------------------------
(***************************************************************************)
(* What the operations of Connection and of the kernel return.             *)
(***************************************************************************)

\* close changes the state alone.
LEMMA CloseConn ==
  ASSUME NEW conn \in Connection
  PROVE  close(conn) \in Connection /\ close(conn).out = conn.out
  BY DEF Connection, close

\* sendRaw keeps the queue within its limit.
LEMMA SendRawConn ==
  ASSUME NEW conn \in Connection
  PROVE  sendRaw(conn) \in Connection
<1>1. CASE ~ isOpen(conn)
  BY <1>1 DEF sendRaw
<1>2. CASE isOpen(conn) /\ conn.out + ResponseSize > SendQueueMax
  BY <1>2, CloseConn DEF sendRaw
<1>3. CASE isOpen(conn) /\ ~ (conn.out + ResponseSize > SendQueueMax)
  <2>1. conn.out + ResponseSize \in 0 .. SendQueueMax
    BY <1>3, LoopAssumption DEF Connection
  <2> QED
    BY <1>3, <2>1 DEF sendRaw, Connection
<1> QED
  BY <1>1, <1>2, <1>3

\* The clock changes the idle time alone.
LEMMA LaterConn ==
  ASSUME NEW conn \in Connection
  PROVE  later(conn) \in Connection /\ later(conn).out = conn.out
<1> DEFINE t == IF conn.idle > TimeoutLimit THEN conn.idle ELSE conn.idle + 1
<1>1. t \in 0 .. TimeoutLimit + 1
  BY LoopAssumption DEF Connection
<1>2. later(conn) = [conn EXCEPT !.idle = t]
  BY DEF later
<1> HIDE DEF t
<1> QED
  BY <1>1, <1>2 DEF Connection

\* Reading leaves the send queue alone.
LEMMA AfterReadConn ==
  ASSUME NEW conn \in Connection, NEW k, NEW n
  PROVE  afterRead(conn, k, n) \in Connection /\ afterRead(conn, k, n).out = conn.out
<1>1. ASSUME NEW data
      PROVE  received(conn, data) \in Connection /\ received(conn, data).out = conn.out
  <2> DEFINE bad == conn.banned \/ \E i \in 1 .. Len(data) : data[i] = "bad"
  <2>1. received(conn, data) = [state |-> IF bad THEN "CLOSING" ELSE "ACTIVE", out |-> conn.out,
                                idle |-> 0, banned |-> bad]
    BY DEF received
  <2>2. bad = TRUE \/ bad = FALSE
    OBVIOUS
  <2> HIDE DEF bad
  <2>3. 0 \in 0 .. TimeoutLimit + 1 /\ conn.out \in 0 .. SendQueueMax
    BY LoopAssumption DEF Connection
  <2>4. CASE bad = TRUE
    BY <2>1, <2>3, <2>4 DEF Connection
  <2>5. CASE bad = FALSE
    <3>1. received(conn, data) = [state |-> "ACTIVE", out |-> conn.out, idle |-> 0, banned |-> FALSE]
      BY <2>1, <2>5
    <3> QED
      BY <3>1, <2>3 DEF Connection
  <2> QED
    BY <2>2, <2>4, <2>5
<1>2. CASE n > 0
  BY <1>1, <1>2 DEF afterRead
<1>3. CASE ~ (n > 0)
  BY <1>3, CloseConn DEF afterRead
<1> QED
  BY <1>2, <1>3

\* epoll_ctl MOD is news.
LEMMA ModifySock ==
  ASSUME NEW k \in Socket, NEW out \in BOOLEAN
  PROVE  /\ modify(k, out) \in Socket
         /\ modify(k, out).out = out
         /\ modify(k, out).woken = TRUE
         /\ modify(k, out).full = k.full
         /\ modify(k, out).end = k.end
  BY DEF modify, Socket

\* The new socket.
LEMMA NewSock ==
  newSocket \in Socket
<1>1. <<>> \in Seq({"good", "bad"})
  OBVIOUS
<1> QED
  BY <1>1 DEF newSocket, Socket

\* Put keeps the type of a map.
LEMMA PutType ==
  ASSUME NEW f, NEW S, NEW T, IsMap(f, S, T), NEW k \in S, NEW v \in T
  PROVE  IsMap(Put(f, k, v), S, T)
  BY DEF Put, IsMap

\* Put for a key that the map has.
LEMMA PutBack ==
  ASSUME NEW f, NEW S, NEW T, IsMap(f, S, T), NEW k \in DOMAIN f, NEW v \in T
  PROVE  /\ DOMAIN Put(f, k, v) = DOMAIN f
         /\ Put(f, k, v)[k] = v
         /\ \A x \in DOMAIN f : x # k => Put(f, k, v)[x] = f[x]
         /\ IsMap(Put(f, k, v), S, T)
<1>1. k \in S /\ DOMAIN f \cup {k} = DOMAIN f
  BY DEF IsMap
<1>2. IsMap(Put(f, k, v), S, T)
  BY <1>1, PutType
<1> QED
  BY <1>1, <1>2 DEF Put

-----------------------------------------------------------------------------
(***************************************************************************)
(* The steps of the other threads, the peers and the clock.                *)
(***************************************************************************)

LEMMA LoopInit ==
  Init => LoopInv
<1> SUFFICES ASSUME Init
             PROVE  LoopInv
  OBVIOUS
<1> USE DEF Init
<1>1. Types
  <2>1. /\ DOMAIN conns = {} /\ conns = EmptyMap
        /\ loop.pc = "wait" /\ loop.events = EmptyMap /\ DOMAIN loop.events = {}
    BY DEF At, EmptyMap
  <2>2. IsMap(conns, 1 .. born, Connection) /\ IsMap(loop.events, DOMAIN conns, SUBSET {"in", "out"})
    BY <2>1 DEF IsMap, EmptyMap
  <2>3. kernel \in [Conns -> Socket]
    BY NewSock
  <2>4. born \in 0 .. MaxConns /\ calls \in [Conns -> 0 .. 1]
    BY WheelAssumption
  <2>5. accepted \in Seq(1 .. born) /\ writes \in Seq(1 .. born)
    OBVIOUS
  <2> QED
    BY <2>1, <2>2, <2>3, <2>4, <2>5 DEF Types, LoopStates
<1>2. DOMAIN conns = {}
  BY DEF EmptyMap
<1>3. Ids
  BY <1>2 DEF Ids, Distinct
<1>4. Routed /\ Output
  BY <1>2 DEF Routed, Output
<1>5. WheelInv(wheel)
  BY EmptyWheel
<1> QED
  BY <1>1, <1>3, <1>4, <1>5 DEF LoopInv

\* A new id is larger than every id in use.
LEMMA AcceptStep ==
  ASSUME LoopInv, Accept
  PROVE  LoopInv'
<1> USE DEF LoopInv, Accept
<1>1. /\ born \in Nat /\ born + 1 \in Conns /\ born' \in 0 .. MaxConns
      /\ 1 .. born \subseteq 1 .. born' /\ born + 1 \in 1 .. born'
  BY WheelAssumption DEF Types, Conns
<1>2. /\ accepted \in Seq(1 .. born') /\ writes \in Seq(1 .. born')
  BY <1>1, SeqMonotonic DEF Types
<1>3. /\ accepted' \in Seq(1 .. born') /\ Len(accepted') = Len(accepted) + 1
      /\ \A i \in 1 .. Len(accepted) : accepted'[i] = accepted[i]
      /\ accepted'[Len(accepted) + 1] = born + 1
  BY <1>1, <1>2, AppendProperties
<1>4. /\ Len(accepted) \in Nat
      /\ \A i \in 1 .. Len(accepted') : i \in 1 .. Len(accepted) \/ i = Len(accepted) + 1
  BY <1>3 DEF Types
<1>5. \A i \in 1 .. Len(accepted) : accepted[i] \in 1 .. born
  BY DEF Types
<1>6. DOMAIN conns \subseteq 1 .. born
  BY DEF Types, IsMap
<1>7. Types'
  <2>1. IsMap(conns, 1 .. born', Connection)
    BY <1>1 DEF Types, IsMap
  <2> QED
    BY <2>1, <1>1, <1>2, <1>3 DEF Types
<1>8. Ids'
  <2>1. Distinct(accepted')
    BY <1>1, <1>3, <1>4, <1>5 DEF Ids, Distinct
  <2>2. \A i \in 1 .. Len(accepted') : accepted'[i] \notin DOMAIN conns /\ calls[accepted'[i]] = 0
    BY <1>1, <1>3, <1>4, <1>5, <1>6 DEF Ids
  <2>3. \A c \in Conns : c > born' => calls[c] = 0
    BY <1>1 DEF Ids, Conns
  <2> QED
    BY <2>1, <2>2, <2>3 DEF Ids
<1>9. Routed' /\ Output'
  BY DEF Routed, Output, Told
<1> QED
  BY <1>7, <1>8, <1>9

\* A response is queued for a connection that has a route, so for one of the loop's.
LEMMA ResponseStep ==
  ASSUME LoopInv, NEW c \in Conns, SendResponse(c)
  PROVE  LoopInv'
<1> USE DEF LoopInv, SendResponse
<1>1. c \in 1 .. born
  BY DEF Types, IsMap, Routed
<1>2. writes' \in Seq(1 .. born)
  BY <1>1, AppendProperties DEF Types
<1>3. Types'
  BY <1>2 DEF Types
<1>4. Ids' /\ Routed' /\ Output'
  BY DEF Ids, Routed, Output, Told
<1> QED
  BY <1>3, <1>4

\* What a peer does is news of its socket.
LEMMA PeerStep ==
  ASSUME LoopInv, NEW c \in Conns, NEW k \in Socket,
         k.out = kernel[c].out, k.woken = TRUE, kernel' = [kernel EXCEPT ![c] = k],
         UNCHANGED <<born, accepted, writes, conns, wheel, routes, loop, calls>>
  PROVE  LoopInv'
<1> USE DEF LoopInv
<1>1. Types'
  BY DEF Types
<1>2. Ids' /\ Routed'
  BY DEF Ids, Routed
<1>3. Output'
  <2> SUFFICES ASSUME NEW d \in DOMAIN conns, conns[d].out > 0
               PROVE  /\ kernel'[d].out = TRUE
                      /\ \/ kernel'[d].full = TRUE
                         \/ kernel'[d].end = "reset"
                         \/ kernel'[d].et = FALSE
                         \/ kernel'[d].woken = TRUE
                         \/ Told(d)
    BY DEF Output, Told
  <2>1. kernel[d].out = TRUE
    BY DEF Output
  <2>2. CASE d = c
    <3>1. kernel'[c] = k
      BY DEF Types
    <3> QED
      BY <2>1, <2>2, <3>1
  <2>3. CASE d # c
    <3>1. kernel'[d] = kernel[d]
      BY <2>3 DEF Types
    <3> QED
      BY <3>1 DEF Output
  <2> QED
    BY <2>2, <2>3
<1> QED
  BY <1>1, <1>2, <1>3

LEMMA PeerSendsStep ==
  ASSUME LoopInv, NEW c \in Conns, NEW input \in {"good", "bad"}, PeerSends(c, input)
  PROVE  LoopInv'
<1> DEFINE k == [kernel[c] EXCEPT !.inbox = Append(@, input), !.woken = TRUE]
<1>1. kernel[c] \in Socket /\ kernel \in [Conns -> Socket]
  BY DEF LoopInv, Types
<1>2. k \in Socket /\ k.out = kernel[c].out /\ k.woken = TRUE
  <2>1. kernel[c].inbox \in Seq({"good", "bad"})
    BY <1>1 DEF Socket
  <2>2. PICK i \in Seq({"good", "bad"}) : i = Append(kernel[c].inbox, input)
    BY <2>1, AppendProperties
  <2>3. k = [kernel[c] EXCEPT !.inbox = i, !.woken = TRUE]
    BY <2>2
  <2> HIDE DEF k
  <2> QED
    BY <2>3, <1>1 DEF Socket
<1>3. kernel' = [kernel EXCEPT ![c] = k]
  BY <1>1 DEF PeerSends
<1> HIDE DEF k
<1> QED
  BY <1>2, <1>3, PeerStep DEF PeerSends

LEMMA PeerEndsStep ==
  ASSUME LoopInv, NEW c \in Conns, NEW how \in {"fin", "reset"}, PeerEnds(c, how)
  PROVE  LoopInv'
<1> DEFINE k == [kernel[c] EXCEPT !.end = how, !.woken = TRUE]
<1>1. kernel[c] \in Socket /\ kernel \in [Conns -> Socket]
  BY DEF LoopInv, Types
<1>2. k \in Socket /\ k.out = kernel[c].out /\ k.woken = TRUE
  BY <1>1 DEF Socket
<1>3. kernel' = [kernel EXCEPT ![c] = k]
  BY <1>1 DEF PeerEnds
<1> HIDE DEF k
<1> QED
  BY <1>2, <1>3, PeerStep DEF PeerEnds

LEMMA PeerReadsStep ==
  ASSUME LoopInv, NEW c \in Conns, PeerReads(c)
  PROVE  LoopInv'
<1> DEFINE k == [kernel[c] EXCEPT !.full = FALSE, !.woken = TRUE]
<1>1. kernel[c] \in Socket /\ kernel \in [Conns -> Socket]
  BY DEF LoopInv, Types
<1>2. k \in Socket /\ k.out = kernel[c].out /\ k.woken = TRUE
  BY <1>1 DEF Socket
<1>3. kernel' = [kernel EXCEPT ![c] = k]
  BY <1>1 DEF PeerReads
<1> HIDE DEF k
<1> QED
  BY <1>2, <1>3, PeerStep DEF PeerReads

LEMMA TimeStep ==
  ASSUME LoopInv, TimePasses
  PROVE  LoopInv'
<1> USE DEF LoopInv, TimePasses
<1>1. DOMAIN conns' = DOMAIN conns
  OBVIOUS
<1>2. \A c \in DOMAIN conns : conns[c] \in Connection
  BY DEF Types, IsMap
<1>3. \A c \in DOMAIN conns : conns'[c] \in Connection /\ conns'[c].out = conns[c].out
  BY <1>2, LaterConn
<1>4. IsMap(conns', 1 .. born, Connection)
  BY <1>1, <1>3 DEF Types, IsMap
<1>5. Types'
  BY <1>1, <1>4 DEF Types
<1>6. Ids' /\ Routed'
  BY <1>1 DEF Ids, Routed
<1>7. Output'
  BY <1>1, <1>3 DEF Output, Told
<1> QED
  BY <1>5, <1>6, <1>7

-----------------------------------------------------------------------------
(***************************************************************************)
(* The steps of the loop.                                                  *)
(***************************************************************************)

\* The report of a socket that has room, with EPOLLOUT asked for and news or level
\* triggering, has "out".
LEMMA ReportOut ==
  ASSUME NEW k \in Socket, k.out = TRUE, k.full = FALSE, k.et = FALSE \/ k.woken = TRUE
  PROVE  "out" \in report(k)
  BY DEF report, writable, Socket

\* A report is a set of events.
LEMMA ReportType ==
  ASSUME NEW k
  PROVE  report(k) \in SUBSET {"in", "out"}
  BY DEF report

LEMMA WaitStep ==
  ASSUME LoopInv, Wait
  PROVE  LoopInv'
<1> USE DEF LoopInv
<1> DEFINE ready == {c \in DOMAIN conns : report(kernel[c]) # {}}
           ev == [c \in ready |-> report(kernel[c])]
<1>1. /\ loop' = At("writes", ev)
      /\ kernel' = [c \in Conns |-> IF c \in ready THEN [kernel[c] EXCEPT !.woken = FALSE]
                                                    ELSE kernel[c]]
      /\ UNCHANGED <<born, accepted, writes, conns, wheel, routes, calls>>
  BY DEF Wait
<1>2. loop'.pc = "writes" /\ loop'.events = ev
  BY <1>1 DEF At
<1>3. DOMAIN conns \subseteq Conns
  BY WheelAssumption DEF Types, IsMap, Conns
<1>4. \A c \in Conns : /\ kernel'[c] \in Socket
                       /\ kernel'[c].out = kernel[c].out
                       /\ kernel'[c].full = kernel[c].full
                       /\ kernel'[c].end = kernel[c].end
                       /\ kernel'[c].et = kernel[c].et
                       /\ c \notin ready => kernel'[c].woken = kernel[c].woken
  <2> SUFFICES ASSUME NEW c \in Conns
               PROVE  /\ kernel'[c] \in Socket
                      /\ kernel'[c].out = kernel[c].out
                      /\ kernel'[c].full = kernel[c].full
                      /\ kernel'[c].end = kernel[c].end
                      /\ kernel'[c].et = kernel[c].et
                      /\ c \notin ready => kernel'[c].woken = kernel[c].woken
    OBVIOUS
  <2>1. kernel[c] \in Socket
    BY DEF Types
  <2> HIDE DEF ready
  <2>2. CASE c \in ready
    <3>1. kernel'[c] = [kernel[c] EXCEPT !.woken = FALSE]
      BY <1>1, <2>2
    <3> QED
      BY <3>1, <2>1, <2>2 DEF Socket
  <2>3. CASE c \notin ready
    <3>1. kernel'[c] = kernel[c]
      BY <1>1, <2>3
    <3> QED
      BY <3>1, <2>1
  <2> QED
    BY <2>2, <2>3
<1>5. Types'
  <2>1. IsMap(ev, DOMAIN conns, SUBSET {"in", "out"})
    BY ReportType DEF IsMap
  <2>2. kernel' \in [Conns -> Socket]
    BY <1>1, <1>4
  <2> QED
    BY <2>1, <2>2, <1>1, <1>2 DEF Types, LoopStates
<1>6. Ids' /\ Routed'
  BY <1>1 DEF Ids, Routed
<1>7. Output'
  <2> SUFFICES ASSUME NEW d \in DOMAIN conns, conns[d].out > 0
               PROVE  /\ kernel'[d].out = TRUE
                      /\ \/ kernel'[d].full = TRUE
                         \/ kernel'[d].end = "reset"
                         \/ kernel'[d].et = FALSE
                         \/ kernel'[d].woken = TRUE
                         \/ Told(d)'
    BY <1>1 DEF Output
  <2>1. /\ kernel[d].out = TRUE
        /\ \/ kernel[d].full = TRUE
           \/ kernel[d].end = "reset"
           \/ kernel[d].et = FALSE
           \/ kernel[d].woken = TRUE
    <3>1. loop.pc = "wait"
      BY DEF Wait
    <3> QED
      BY <3>1 DEF Output, Told
  <2>2. d \in Conns /\ kernel[d] \in Socket
    BY <1>3 DEF Types
  <2>3. CASE kernel[d].full = TRUE \/ kernel[d].end = "reset" \/ d \notin ready
    BY <2>1, <2>2, <2>3, <1>4
  <2>4. CASE kernel[d].full = FALSE /\ d \in ready /\ kernel[d].end # "reset"
    <3>1. "out" \in report(kernel[d])
      BY <2>1, <2>2, <2>4, ReportOut
    <3>2. d \in DOMAIN loop'.events /\ "out" \in loop'.events[d]
      BY <3>1, <1>2
    <3> QED
      BY <3>2, <2>1, <2>2, <1>2, <1>4 DEF Told
  <2>5. kernel[d].full \in BOOLEAN
    BY <2>2 DEF Socket
  <2> QED
    BY <2>3, <2>4, <2>5
<1> QED
  BY <1>1, <1>5, <1>6, <1>7

\* The loop goes on with the next of its parts and keeps what it has been told.
LEMMA NextPart ==
  ASSUME LoopInv, NEW pc \in {"conns", "events"}, loop' = At(pc, loop.events),
         UNCHANGED <<born, accepted, writes, conns, wheel, routes, kernel, calls>>
  PROVE  LoopInv'
<1> USE DEF LoopInv
<1>1. loop'.pc = pc /\ loop'.events = loop.events
  BY DEF At
<1>2. Types'
  BY <1>1 DEF Types, LoopStates
<1>3. Ids' /\ Routed'
  BY DEF Ids, Routed
<1>4. \A c : Told(c) => Told(c)'
  BY <1>1 DEF Told
<1>5. Output'
  BY <1>4 DEF Output
<1> QED
  BY <1>2, <1>3, <1>5

\* enableWrite follows every sendRaw, also one that drops the response.
LEMMA DrainWriteStep ==
  ASSUME LoopInv, DrainWrite
  PROVE  LoopInv'
<1> USE DEF LoopInv
<1>1. CASE writes = <<>>
  BY <1>1, NextPart DEF DrainWrite
<1>2. CASE writes # <<>>
  <2> DEFINE c == Head(writes)
  <2>1. writes' \in Seq(1 .. born)
    <3>1. writes \in Seq(1 .. born) /\ writes' = Tail(writes)
      BY <1>2 DEF DrainWrite, Types
    <3> QED
      BY <3>1, <1>2, HeadTailProperties
  <2>2. CASE c \notin DOMAIN conns
    <3>1. UNCHANGED <<born, accepted, conns, wheel, routes, kernel, loop, calls>>
      BY <1>2, <2>2 DEF DrainWrite
    <3>2. Types'
      BY <3>1, <2>1 DEF Types
    <3>3. Ids' /\ Routed' /\ Output'
      BY <3>1 DEF Ids, Routed, Output, Told
    <3> QED
      BY <3>1, <3>2, <3>3
  <2>3. CASE c \in DOMAIN conns
    <3>1. /\ conns' = Put(conns, c, sendRaw(conns[c]))
          /\ kernel' = [kernel EXCEPT ![c] = modify(kernel[c], TRUE)]
          /\ UNCHANGED <<born, accepted, wheel, routes, loop, calls>>
      BY <1>2, <2>3 DEF DrainWrite
    <3> HIDE DEF c
    <3>2. c \in 1 .. born /\ c \in Conns /\ conns[c] \in Connection /\ kernel[c] \in Socket
      BY <2>3, WheelAssumption DEF Types, IsMap, Conns
    <3>3. sendRaw(conns[c]) \in Connection
      BY <3>2, SendRawConn
    <3>4. /\ DOMAIN conns' = DOMAIN conns
          /\ \A d \in DOMAIN conns : d # c => conns'[d] = conns[d]
          /\ IsMap(conns', 1 .. born, Connection)
      <4>1. IsMap(conns, 1 .. born, Connection)
        BY DEF Types
      <4> QED
        BY <4>1, <2>3, <3>1, <3>3, PutBack
    <3>5. /\ modify(kernel[c], TRUE) \in Socket
          /\ modify(kernel[c], TRUE).out = TRUE /\ modify(kernel[c], TRUE).woken = TRUE
      BY <3>2, ModifySock
    <3>6. /\ kernel' \in [Conns -> Socket]
          /\ kernel'[c].out = TRUE /\ kernel'[c].woken = TRUE
          /\ \A d \in Conns : d # c => kernel'[d] = kernel[d]
      BY <3>1, <3>2, <3>5 DEF Types
    <3>7. Types'
      BY <3>1, <3>4, <3>6, <2>1 DEF Types
    <3>8. Ids' /\ Routed'
      BY <3>1, <3>4 DEF Ids, Routed
    <3>9. Output'
      <4> SUFFICES ASSUME NEW d \in DOMAIN conns, conns'[d].out > 0
                   PROVE  /\ kernel'[d].out = TRUE
                          /\ \/ kernel'[d].full = TRUE
                             \/ kernel'[d].end = "reset"
                             \/ kernel'[d].et = FALSE
                             \/ kernel'[d].woken = TRUE
                             \/ Told(d)
        BY <3>1, <3>4 DEF Output, Told
      <4>1. CASE d = c
        BY <4>1, <3>6
      <4>2. CASE d # c
        <5>1. d \in Conns
          BY WheelAssumption DEF Types, IsMap, Conns
        <5>2. kernel'[d] = kernel[d] /\ conns'[d] = conns[d]
          BY <4>2, <5>1, <3>4, <3>6
        <5> QED
          BY <5>2 DEF Output
      <4> QED
        BY <4>1, <4>2
    <3> QED
      BY <3>1, <3>7, <3>8, <3>9
  <2> QED
    BY <2>2, <2>3
<1> QED
  BY <1>1, <1>2

\* The next connection is new to the loop.
LEMMA NextAccepted ==
  ASSUME LoopInv, accepted # <<>>, accepted' = Tail(accepted)
  PROVE  /\ Head(accepted) \in 1 .. born /\ Head(accepted) \in Conns
         /\ Head(accepted) \notin DOMAIN conns /\ calls[Head(accepted)] = 0
         /\ accepted' \in Seq(1 .. born) /\ Distinct(accepted')
         /\ \A i \in 1 .. Len(accepted') : /\ accepted'[i] # Head(accepted)
                                           /\ accepted'[i] \notin DOMAIN conns
                                           /\ calls[accepted'[i]] = 0
<1>1. accepted \in Seq(1 .. born) /\ Ids
  BY DEF LoopInv, Types
<1>2. /\ Head(accepted) \in 1 .. born /\ accepted' \in Seq(1 .. born)
      /\ Len(accepted') = Len(accepted) - 1
      /\ \A i \in 1 .. Len(accepted') : accepted'[i] = accepted[i + 1]
  BY <1>1, HeadTailProperties
<1>3. Head(accepted) = accepted[1] /\ Len(accepted) \in Nat /\ 1 \in 1 .. Len(accepted)
  BY <1>1
<1>4. \A i \in 1 .. Len(accepted') : i + 1 \in 1 .. Len(accepted) /\ i + 1 # 1
  BY <1>2, <1>3
<1>5. Head(accepted) \in Conns
  BY <1>2, WheelAssumption DEF LoopInv, Types, Conns
<1>6. Head(accepted) \notin DOMAIN conns /\ calls[Head(accepted)] = 0
  BY <1>1, <1>3 DEF Ids
<1>7. \A i \in 1 .. Len(accepted') : /\ accepted'[i] # Head(accepted)
                                     /\ accepted'[i] \notin DOMAIN conns
                                     /\ calls[accepted'[i]] = 0
  BY <1>1, <1>2, <1>3, <1>4 DEF Ids, Distinct
<1>8. Distinct(accepted')
  <2> SUFFICES ASSUME NEW i \in 1 .. Len(accepted'), NEW j \in 1 .. Len(accepted'),
                      accepted'[i] = accepted'[j]
               PROVE  i = j
    BY DEF Distinct
  <2>1. i + 1 = j + 1
    BY <1>1, <1>2, <1>4 DEF Ids, Distinct
  <2>2. i \in Int /\ j \in Int
    OBVIOUS
  <2> QED
    BY <2>1, <2>2
<1> QED
  BY <1>2, <1>5, <1>6, <1>7, <1>8

LEMMA DrainConnStep ==
  ASSUME LoopInv, DrainConn
  PROVE  LoopInv'
<1> USE DEF LoopInv
<1>1. CASE accepted = <<>>
  BY <1>1, NextPart DEF DrainConn
<1>2. CASE accepted # <<>>
  <2> DEFINE c == Head(accepted)
  <2>1. /\ accepted' = Tail(accepted)
        /\ conns' = Put(conns, c, newConnection)
        /\ wheel' = add(wheel, c, HeartbeatMs)
        /\ UNCHANGED <<born, writes, routes, kernel, loop, calls>>
    BY <1>2 DEF DrainConn
  <2>2. /\ c \in 1 .. born /\ c \in Conns
        /\ c \notin DOMAIN conns /\ calls[c] = 0
        /\ accepted' \in Seq(1 .. born) /\ Distinct(accepted')
        /\ \A i \in 1 .. Len(accepted') : /\ accepted'[i] # c
                                          /\ accepted'[i] \notin DOMAIN conns
                                          /\ calls[accepted'[i]] = 0
    BY <1>2, <2>1, NextAccepted
  <2> HIDE DEF c
  <2>3. newConnection \in Connection /\ newConnection.out = 0
    BY LoopAssumption DEF newConnection, Connection
  <2>4. /\ DOMAIN conns' = DOMAIN conns \cup {c}
        /\ conns'[c] = newConnection
        /\ \A d \in DOMAIN conns : conns'[d] = conns[d]
    BY <2>1, <2>2 DEF Put
  <2>5. Types'
    <3>1. IsMap(conns', 1 .. born, Connection)
      BY <2>1, <2>2, <2>3, PutType DEF Types
    <3>2. IsMap(loop.events, DOMAIN conns', SUBSET {"in", "out"})
      BY <2>4 DEF Types, IsMap
    <3> QED
      BY <3>1, <3>2, <2>1, <2>2 DEF Types
  <2>6. Ids'
    BY <2>1, <2>2, <2>4 DEF Ids
  <2>7. Routed'
    BY <2>1, <2>4 DEF Routed
  <2>8. Output'
    <3> SUFFICES ASSUME NEW d \in DOMAIN conns', conns'[d].out > 0
                 PROVE  d \in DOMAIN conns /\ conns[d].out > 0
      BY <2>1 DEF Output, Told
    <3> QED
      BY <2>3, <2>4
  <2>9. WheelInv(wheel')
    BY <2>1, <2>2, AddWheel, WheelAssumption
  <2> QED
    BY <2>5, <2>6, <2>7, <2>8, <2>9
<1> QED
  BY <1>1, <1>2

LEMMA DrainFailsStep ==
  ASSUME LoopInv, DrainFails
  PROVE  LoopInv'
<1> USE DEF LoopInv
<1> DEFINE c == Head(accepted)
<1>1. /\ accepted # <<>> /\ accepted' = Tail(accepted)
      /\ kernel' = [kernel EXCEPT ![c] = newSocket]
      /\ UNCHANGED <<born, writes, conns, wheel, routes, loop, calls>>
  BY DEF DrainFails
<1>2. /\ c \in Conns /\ c \notin DOMAIN conns
      /\ accepted' \in Seq(1 .. born) /\ Distinct(accepted')
      /\ \A i \in 1 .. Len(accepted') : accepted'[i] \notin DOMAIN conns /\ calls[accepted'[i]] = 0
  BY <1>1, NextAccepted
<1> HIDE DEF c
<1>3. Types'
  BY <1>1, <1>2, NewSock DEF Types
<1>4. Ids' /\ Routed'
  BY <1>1, <1>2 DEF Ids, Routed
<1>5. \A d \in DOMAIN conns : kernel'[d] = kernel[d]
  <2>1. DOMAIN conns \subseteq Conns
    BY WheelAssumption DEF Types, IsMap, Conns
  <2> QED
    BY <2>1, <1>1, <1>2 DEF Types
<1>6. Output'
  BY <1>1, <1>5 DEF Output, Told
<1> QED
  BY <1>1, <1>3, <1>4, <1>6

\* onReadable and what handleEvents does after it leave the output alone, and what the
\* loop has been told of it.
LEMMA HandleReadStep ==
  ASSUME LoopInv, NEW c \in DOMAIN loop.events, NEW n \in 0 .. MaxInputs,
         NEW frames \in BOOLEAN, HandleRead(c, n, frames)
  PROVE  LoopInv'
<1> USE DEF LoopInv
<1> DEFINE k == kernel[c]
           conn == afterRead(conns[c], k, n)
           ev == IF "out" \in loop.events[c] THEN Put(loop.events, c, {"out"})
                                            ELSE Erase(loop.events, {c})
<1>1. /\ n \in (IF k.inbox = <<>> THEN {0} ELSE 1 .. Len(k.inbox))
      /\ conns' = Put(conns, c, conn)
      /\ wheel' = wheelAfterRead(wheel, c, conn)
      /\ routes' = IF frames /\ conn.state # "CLOSING" THEN routes \cup {c} ELSE routes
      /\ kernel' = [kernel EXCEPT ![c].inbox = SubSeq(@, n + 1, Len(@))]
      /\ loop.pc = "events" /\ loop' = At("events", ev)
      /\ UNCHANGED <<born, accepted, writes, calls>>
  BY DEF HandleRead
<1>2. /\ c \in DOMAIN conns /\ c \in Conns
      /\ conns[c] \in Connection /\ k \in Socket
  BY WheelAssumption DEF Types, IsMap, Conns
<1>3. conn \in Connection /\ conn.out = conns[c].out
  BY <1>2, AfterReadConn
<1> HIDE DEF conn
<1>4. /\ DOMAIN conns' = DOMAIN conns
      /\ conns'[c] = conn
      /\ \A d \in DOMAIN conns : d # c => conns'[d] = conns[d]
      /\ IsMap(conns', 1 .. born, Connection)
  <2>1. IsMap(conns, 1 .. born, Connection)
    BY DEF Types
  <2> QED
    BY <2>1, <1>1, <1>2, <1>3, PutBack
<1>5. \A d \in DOMAIN conns : conns'[d].out = conns[d].out
  BY <1>3, <1>4
<1>6. /\ kernel' \in [Conns -> Socket]
      /\ \A d \in Conns : /\ kernel'[d].out = kernel[d].out
                          /\ kernel'[d].full = kernel[d].full
                          /\ kernel'[d].end = kernel[d].end
                          /\ kernel'[d].et = kernel[d].et
                          /\ kernel'[d].woken = kernel[d].woken
  <2>1. PICK i : i = SubSeq(k.inbox, n + 1, Len(k.inbox))
    OBVIOUS
  <2>2. i \in Seq({"good", "bad"})
    <3>1. k.inbox \in Seq({"good", "bad"})
      BY <1>2 DEF Socket
    <3>2. n + 1 \in 1 .. Len(k.inbox) + 1 /\ Len(k.inbox) \in Nat
      BY <3>1, <1>1
    <3>3. \A j \in n + 1 .. Len(k.inbox) : k.inbox[j] \in {"good", "bad"}
      <4> SUFFICES ASSUME NEW j \in n + 1 .. Len(k.inbox)
                   PROVE  k.inbox[j] \in {"good", "bad"}
        OBVIOUS
      <4>1. j \in 1 .. Len(k.inbox)
        BY <3>2
      <4> QED
        BY <4>1, <3>1, ElementOfSeq
    <3>4. n + 1 \in Int /\ Len(k.inbox) \in Int
      BY <3>2
    <3> QED
      BY <2>1, <3>3, <3>4, SubSeqProperties
  <2>3. PICK m : m = [k EXCEPT !.inbox = i]
    OBVIOUS
  <2>4. kernel' = [kernel EXCEPT ![c] = m]
    BY <1>1, <2>1, <2>3
  <2>5. /\ m \in Socket /\ m.out = k.out /\ m.full = k.full
        /\ m.end = k.end /\ m.et = k.et /\ m.woken = k.woken
    BY <2>2, <2>3, <1>2 DEF Socket
  <2> QED
    BY <2>4, <2>5, <1>2 DEF Types
<1>7. loop'.pc = "events" /\ loop'.events = ev
  BY <1>1 DEF At
<1>8. /\ IsMap(ev, DOMAIN conns, SUBSET {"in", "out"})
      /\ \A d \in DOMAIN loop.events :
           "out" \in loop.events[d] => d \in DOMAIN ev /\ "out" \in ev[d]
  <2>1. IsMap(loop.events, DOMAIN conns, SUBSET {"in", "out"})
    BY DEF Types
  <2>2. CASE "out" \in loop.events[c]
    <3>1. ev = Put(loop.events, c, {"out"})
      BY <2>2
    <3>2. IsMap(Put(loop.events, c, {"out"}), DOMAIN conns, SUBSET {"in", "out"})
      BY <2>1, <1>2, PutType
    <3> QED
      BY <3>1, <3>2 DEF Put
  <2>3. CASE "out" \notin loop.events[c]
    <3>1. ev = Erase(loop.events, {c})
      BY <2>3
    <3>2. IsMap(Erase(loop.events, {c}), DOMAIN conns, SUBSET {"in", "out"})
      BY <2>1 DEF IsMap, Erase
    <3> QED
      BY <3>1, <3>2, <2>3 DEF Erase
  <2> QED
    BY <2>2, <2>3
<1> HIDE DEF ev
<1>9. Types'
  BY <1>1, <1>4, <1>6, <1>7, <1>8 DEF Types, LoopStates
<1>10. Ids'
  BY <1>1, <1>4 DEF Ids
<1>11. Routed'
  BY <1>1, <1>2, <1>4 DEF Routed
<1>12. Output'
  <2>1. \A d \in DOMAIN conns : Told(d) => Told(d)'
    BY <1>7, <1>8 DEF Told
  <2>2. DOMAIN conns \subseteq Conns
    BY WheelAssumption DEF Types, IsMap, Conns
  <2> QED
    BY <2>1, <2>2, <1>4, <1>5, <1>6 DEF Output
<1>13. WheelInv(wheel')
  <2>1. WheelInv(IF conn.state = "CLOSING" THEN remove(wheel, c) ELSE wheel)
    BY <1>2, RemoveWheel
  <2> QED
    BY <2>1, <1>1, <1>2, RefreshWheel, WheelAssumption DEF wheelAfterRead
<1> QED
  BY <1>9, <1>10, <1>11, <1>12, <1>13

\* A write that leaves output behind leaves the send buffer full, or the peer has reset.
LEMMA HandleWriteStep ==
  ASSUME LoopInv, NEW c \in DOMAIN loop.events, NEW n \in 0 .. SendQueueMax,
         NEW full \in BOOLEAN, HandleWrite(c, n, full)
  PROVE  LoopInv'
<1> USE DEF LoopInv
<1> DEFINE k == kernel[c]
           can == conns[c].out > 0 /\ k.end # "reset" /\ ~k.full
           conn == IF conns[c].out > 0 /\ k.end = "reset" THEN close(conns[c])
                   ELSE [conns[c] EXCEPT !.out = @ - n]
           sock == [k EXCEPT !.full = IF can THEN full ELSE @]
           ev == Erase(loop.events, {c})
<1>1. /\ n \in (IF can THEN 1 .. conns[c].out ELSE {0})
      /\ can /\ n < conns[c].out => full
      /\ conns' = Put(conns, c, conn)
      /\ kernel' = [kernel EXCEPT ![c] = afterWrite(sock, conn)]
      /\ loop.pc = "events" /\ loop' = At("events", ev)
      /\ UNCHANGED <<born, accepted, writes, wheel, routes, calls>>
  BY DEF HandleWrite
<1>2. /\ c \in DOMAIN conns /\ c \in Conns
      /\ conns[c] \in Connection /\ k \in Socket
  BY WheelAssumption DEF Types, IsMap, Conns
<1>3. /\ conns[c].out \in 0 .. SendQueueMax /\ k.full \in BOOLEAN
      /\ conns[c].out > 0 => k.out = TRUE
  BY <1>2 DEF Connection, Socket, Output
<1>4. /\ conn \in Connection
      /\ conn.out > 0 => conns[c].out > 0
      /\ conn.out > 0 /\ can => full = TRUE
  <2>1. CASE conns[c].out > 0 /\ k.end = "reset"
    <3>1. conn = close(conns[c]) /\ ~ can
      BY <2>1
    <3> QED
      BY <3>1, <2>1, <1>2, CloseConn
  <2>2. CASE ~ (conns[c].out > 0 /\ k.end = "reset")
    <3>1. PICK m : m = conns[c].out - n
      OBVIOUS
    <3>2. conn = [conns[c] EXCEPT !.out = m]
      BY <2>2, <3>1
    <3> HIDE DEF conn
    <3>3. m \in 0 .. SendQueueMax /\ (m > 0 => conns[c].out > 0) /\ (m > 0 /\ can => full = TRUE)
      BY <3>1, <1>1, <1>3, LoopAssumption
    <3>4. conn \in Connection /\ conn.out = m
      BY <3>2, <3>3, <1>2 DEF Connection
    <3> QED
      BY <3>3, <3>4
  <2> QED
    BY <2>1, <2>2
<1>5. /\ sock \in Socket /\ sock.out = k.out /\ sock.end = k.end
      /\ can => sock.full = full
      /\ ~ can => sock.full = k.full
  <2>1. PICK f \in BOOLEAN : f = IF can THEN full ELSE k.full
    BY <1>3
  <2>2. sock = [k EXCEPT !.full = f]
    BY <2>1
  <2> HIDE DEF sock
  <2> QED
    BY <2>1, <2>2, <1>2 DEF Socket
<1>6. conn.out > 0 => sock.out = TRUE /\ (sock.full = TRUE \/ sock.end = "reset")
  BY <1>3, <1>4, <1>5
<1> HIDE DEF conn, sock
<1>7. afterWrite(sock, conn) \in Socket /\ (conn.out > 0 => afterWrite(sock, conn) = sock)
  <2>1. modify(sock, FALSE) \in Socket
    BY <1>5, ModifySock
  <2>2. CASE conn.out = 0
    <3>1. afterWrite(sock, conn) = modify(sock, FALSE)
      BY <2>2 DEF afterWrite
    <3>2. ~ (conn.out > 0)
      BY <2>2
    <3> QED
      BY <3>1, <3>2, <2>1
  <2>3. CASE conn.out # 0
    <3>1. afterWrite(sock, conn) = sock
      BY <2>3 DEF afterWrite
    <3> QED
      BY <3>1, <1>5
  <2> QED
    BY <2>2, <2>3
<1>8. /\ DOMAIN conns' = DOMAIN conns
      /\ conns'[c] = conn
      /\ \A d \in DOMAIN conns : d # c => conns'[d] = conns[d]
      /\ IsMap(conns', 1 .. born, Connection)
  <2>1. IsMap(conns, 1 .. born, Connection)
    BY DEF Types
  <2> QED
    BY <2>1, <1>1, <1>2, <1>4, PutBack
<1>9. /\ kernel' \in [Conns -> Socket]
      /\ kernel'[c] = afterWrite(sock, conn)
      /\ \A d \in Conns : d # c => kernel'[d] = kernel[d]
  BY <1>1, <1>2, <1>7 DEF Types
<1>10. loop'.pc = "events" /\ loop'.events = ev
  BY <1>1 DEF At
<1>11. Types'
  <2>1. IsMap(ev, DOMAIN conns, SUBSET {"in", "out"})
    BY DEF Types, IsMap, Erase
  <2> QED
    BY <2>1, <1>1, <1>8, <1>9, <1>10 DEF Types, LoopStates
<1>12. Ids' /\ Routed'
  BY <1>1, <1>8 DEF Ids, Routed
<1>13. Output'
  <2> SUFFICES ASSUME NEW d \in DOMAIN conns, conns'[d].out > 0
               PROVE  /\ kernel'[d].out = TRUE
                      /\ \/ kernel'[d].full = TRUE
                         \/ kernel'[d].end = "reset"
                         \/ kernel'[d].et = FALSE
                         \/ kernel'[d].woken = TRUE
                         \/ Told(d)'
    BY <1>8 DEF Output
  <2>1. CASE d = c
    BY <2>1, <1>6, <1>7, <1>8, <1>9
  <2>2. CASE d # c
    <3>1. d \in Conns
      BY WheelAssumption DEF Types, IsMap, Conns
    <3>2. kernel'[d] = kernel[d] /\ conns'[d] = conns[d]
      BY <2>2, <3>1, <1>8, <1>9
    <3>3. Told(d) => Told(d)'
      BY <2>2, <1>10 DEF Told, Erase
    <3> QED
      BY <3>2, <3>3 DEF Output
  <2> QED
    BY <2>1, <2>2
<1> QED
  BY <1>1, <1>11, <1>12, <1>13

\* Where checkTimeouts goes on.
LEMMA TimeoutsLoop ==
  ASSUME NEW late, late \subseteq DOMAIN conns
  PROVE  /\ timeouts(late).pc \in {"timeouts", "cleanup"}
         /\ IsMap(timeouts(late).events, DOMAIN conns, SUBSET {"in", "out"})
<1>1. CASE late = {}
  <2>1. timeouts(late).pc = "cleanup" /\ timeouts(late).events = EmptyMap
    BY <1>1 DEF timeouts, At
  <2> QED
    BY <2>1 DEF IsMap, EmptyMap
<1>2. CASE late # {}
  <2>1. timeouts(late).pc = "timeouts" /\ timeouts(late).events = [c \in late |-> {}]
    BY <1>2 DEF timeouts, At
  <2>2. IsMap([c \in late |-> {}], DOMAIN conns, SUBSET {"in", "out"})
    BY DEF IsMap
  <2> QED
    BY <2>1, <2>2
<1> QED
  BY <1>1, <1>2

\* Everything that was reported has been handled.
LEMMA CheckTimeoutsStep ==
  ASSUME LoopInv, CheckTimeouts
  PROVE  LoopInv'
<1> USE DEF LoopInv
<1> DEFINE late == {c \in DOMAIN conns : timesOut(conns[c])}
<1>1. /\ loop.events = EmptyMap
      /\ loop' = timeouts(late)
      /\ UNCHANGED <<born, accepted, writes, conns, wheel, routes, kernel, calls>>
  BY DEF CheckTimeouts
<1>2. late \subseteq DOMAIN conns
  OBVIOUS
<1> HIDE DEF late
<1>3. loop'.pc \in LoopStates /\ IsMap(loop'.events, DOMAIN conns, SUBSET {"in", "out"})
  BY <1>1, <1>2, TimeoutsLoop DEF LoopStates
<1>4. Types'
  BY <1>1, <1>3 DEF Types
<1>5. Ids' /\ Routed'
  BY <1>1 DEF Ids, Routed
<1>6. \A c : ~ Told(c)
  BY <1>1 DEF Told, EmptyMap
<1>7. Output'
  BY <1>1, <1>6 DEF Output
<1> QED
  BY <1>1, <1>4, <1>5, <1>7

LEMMA CloseLateStep ==
  ASSUME LoopInv, NEW c \in DOMAIN loop.events, CloseLate(c)
  PROVE  LoopInv'
<1> USE DEF LoopInv
<1>1. /\ loop.pc = "timeouts"
      /\ conns' = Put(conns, c, close(conns[c]))
      /\ wheel' = remove(wheel, c)
      /\ loop' = timeouts(DOMAIN loop.events \ {c})
      /\ UNCHANGED <<born, accepted, writes, routes, kernel, calls>>
  BY DEF CloseLate
<1>2. c \in DOMAIN conns /\ c \in Conns /\ conns[c] \in Connection
  BY WheelAssumption DEF Types, IsMap, Conns
<1>3. close(conns[c]) \in Connection /\ close(conns[c]).out = conns[c].out
  BY <1>2, CloseConn
<1>4. /\ DOMAIN conns' = DOMAIN conns
      /\ conns'[c] = close(conns[c])
      /\ \A d \in DOMAIN conns : d # c => conns'[d] = conns[d]
      /\ IsMap(conns', 1 .. born, Connection)
  <2>1. IsMap(conns, 1 .. born, Connection)
    BY DEF Types
  <2> QED
    BY <2>1, <1>1, <1>2, <1>3, PutBack
<1>5. loop'.pc \in LoopStates /\ IsMap(loop'.events, DOMAIN conns, SUBSET {"in", "out"})
  <2>1. DOMAIN loop.events \ {c} \subseteq DOMAIN conns
    BY DEF Types, IsMap
  <2> QED
    BY <2>1, <1>1, TimeoutsLoop DEF LoopStates
<1>6. Types'
  BY <1>1, <1>4, <1>5 DEF Types
<1>7. Ids' /\ Routed'
  BY <1>1, <1>4 DEF Ids, Routed
<1>8. \A d \in DOMAIN conns : conns'[d].out = conns[d].out
  BY <1>3, <1>4
<1>9. Output'
  BY <1>1, <1>4, <1>8 DEF Output, Told
<1>10. WheelInv(wheel')
  BY <1>1, <1>2, RemoveWheel
<1> QED
  BY <1>6, <1>7, <1>9, <1>10

\* A connection is removed after its callback has run, and its route with it.
LEMMA CleanupStep ==
  ASSUME LoopInv, Cleanup
  PROVE  LoopInv'
<1> USE DEF LoopInv
<1> DEFINE silent == fired(wheel.slots[next(wheel)], DOMAIN conns)
           closed == [c \in DOMAIN conns |-> IF c \in silent THEN close(conns[c]) ELSE conns[c]]
           gone == {c \in DOMAIN conns : shouldCleanup(closed[c])}
<1>1. /\ loop.pc = "cleanup"
      /\ conns' = Erase(closed, gone)
      /\ routes' = routes \ gone
      /\ calls' = [c \in Conns |-> calls[c] + IF c \in gone THEN 1 ELSE 0]
      /\ kernel' = [c \in Conns |-> IF c \in gone THEN newSocket ELSE kernel[c]]
      /\ wheel' = tick(wheel)
      /\ loop' = At("wait", EmptyMap)
      /\ UNCHANGED <<born, accepted, writes>>
  BY DEF Cleanup, forget
<1>2. DOMAIN conns \subseteq 1 .. born /\ DOMAIN conns \subseteq Conns
  BY WheelAssumption DEF Types, IsMap, Conns
<1>3. \A c \in DOMAIN conns : closed[c] \in Connection /\ closed[c].out = conns[c].out
  <2>1. \A c \in DOMAIN conns : conns[c] \in Connection
    BY DEF Types, IsMap
  <2> QED
    BY <2>1, CloseConn
<1>4. DOMAIN closed = DOMAIN conns /\ gone \subseteq DOMAIN conns
  OBVIOUS
<1> HIDE DEF silent, closed, gone
<1>5. /\ DOMAIN conns' = DOMAIN conns \ gone
      /\ \A c \in DOMAIN conns' : conns'[c] \in Connection /\ conns'[c].out = conns[c].out
      /\ IsMap(conns', 1 .. born, Connection)
  BY <1>1, <1>2, <1>3, <1>4 DEF Erase, IsMap
<1>6. \A c \in Conns : c \notin gone => calls'[c] = calls[c] /\ kernel'[c] = kernel[c]
  <2>1. \A c \in Conns : calls[c] \in Int /\ calls[c] + 0 = calls[c]
    BY DEF Types
  <2> QED
    BY <2>1, <1>1
<1>7. loop'.pc = "wait" /\ loop'.events = EmptyMap
  BY <1>1 DEF At
<1>8. Types'
  <2>1. calls' \in [Conns -> 0 .. 1]
    <3>1. \A c \in gone : calls[c] = 0
      BY <1>4 DEF Ids
    <3> QED
      BY <3>1, <1>1 DEF Types
  <2>2. kernel' \in [Conns -> Socket]
    BY <1>1, NewSock DEF Types
  <2>3. IsMap(EmptyMap, DOMAIN conns', SUBSET {"in", "out"})
    BY DEF IsMap, EmptyMap
  <2> QED
    BY <2>1, <2>2, <2>3, <1>1, <1>5, <1>7 DEF Types, LoopStates
<1>9. Ids'
  <2>1. \A i \in 1 .. Len(accepted) : accepted[i] \in Conns /\ accepted[i] \notin gone
    <3>1. \A i \in 1 .. Len(accepted) : accepted[i] \in 1 .. born
      BY DEF Types
    <3> QED
      BY <3>1, <1>4, WheelAssumption DEF Types, Ids, Conns
  <2>2. \A c \in Conns : c > born => c \notin gone
    BY <1>2, <1>4 DEF Types, Conns
  <2> QED
    BY <2>1, <2>2, <1>1, <1>2, <1>5, <1>6 DEF Ids
<1>10. Routed'
  BY <1>1, <1>5 DEF Routed
<1>11. Output'
  <2>1. \A c : ~ Told(c)
    BY <1>1 DEF Told
  <2> QED
    BY <2>1, <1>2, <1>5, <1>6 DEF Output
<1>12. WheelInv(wheel')
  BY <1>1, TickWheel
<1> QED
  BY <1>8, <1>9, <1>10, <1>11, <1>12

-----------------------------------------------------------------------------
(***************************************************************************)
(* The theorems.                                                           *)
(***************************************************************************)

\* The invariant holds in every state of the loop.
THEOREM LoopInvariance ==
  Spec => []LoopInv
<1>1. Init => LoopInv
  BY LoopInit
<1>2. LoopInv /\ [Next]_vars => LoopInv'
  <2> SUFFICES ASSUME LoopInv, [Next]_vars
               PROVE  LoopInv'
    OBVIOUS
  <2>1. CASE Accept
    BY <2>1, AcceptStep
  <2>2. ASSUME NEW c \in Conns, SendResponse(c)
        PROVE  LoopInv'
    BY <2>2, ResponseStep
  <2>3. ASSUME NEW c \in Conns, NEW input \in {"good", "bad"}, PeerSends(c, input)
        PROVE  LoopInv'
    BY <2>3, PeerSendsStep
  <2>4. ASSUME NEW c \in Conns, NEW how \in {"fin", "reset"}, PeerEnds(c, how)
        PROVE  LoopInv'
    BY <2>4, PeerEndsStep
  <2>5. ASSUME NEW c \in Conns, PeerReads(c)
        PROVE  LoopInv'
    BY <2>5, PeerReadsStep
  <2>6. CASE TimePasses
    BY <2>6, TimeStep
  <2>7. CASE Wait
    BY <2>7, WaitStep
  <2>8. CASE DrainWrite
    BY <2>8, DrainWriteStep
  <2>9. CASE DrainConn
    BY <2>9, DrainConnStep
  <2>10. CASE DrainFails
    BY <2>10, DrainFailsStep
  <2>11. ASSUME NEW c \in DOMAIN loop.events, NEW n \in 0 .. MaxInputs,
                NEW frames \in BOOLEAN, HandleRead(c, n, frames)
         PROVE  LoopInv'
    BY <2>11, HandleReadStep
  <2>12. ASSUME NEW c \in DOMAIN loop.events, NEW n \in 0 .. SendQueueMax,
                NEW full \in BOOLEAN, HandleWrite(c, n, full)
         PROVE  LoopInv'
    BY <2>12, HandleWriteStep
  <2>13. ASSUME NEW c \in DOMAIN loop.events, CloseLate(c)
         PROVE  LoopInv'
    BY <2>13, CloseLateStep
  <2>14. CASE CheckTimeouts
    BY <2>14, CheckTimeoutsStep
  <2>15. CASE Cleanup
    BY <2>15, CleanupStep
  <2>16. CASE UNCHANGED vars
    BY <2>16 DEF vars, LoopInv, Types, Ids, Routed, Output, Told
  <2> QED
    BY <2>1, <2>2, <2>3, <2>4, <2>5, <2>6, <2>7, <2>8, <2>9, <2>10, <2>11, <2>12, <2>13,
       <2>14, <2>15, <2>16
    DEF Next, LoopStep
<1> QED
  BY <1>1, <1>2, PTL DEF Spec

\* The state of the loop has its type: sendRaw never lets a send queue grow past its
\* limit, and the disconnect callback runs at most once for a connection.
THEOREM LoopTypeCorrect ==
  Spec => []TypeOK
<1>1. LoopInv => TypeOK
  <2> SUFFICES ASSUME LoopInv
               PROVE  TypeOK
    OBVIOUS
  <2>1. Types /\ wheel.cur \in Slots /\ routes \subseteq 1 .. born
    BY DEF LoopInv, WheelInv, WheelShape, Routed, Types, IsMap
  <2> QED
    BY <2>1 DEF Types, TypeOK
<1> QED
  BY <1>1, LoopInvariance, PTL

\* slots_, id_to_slot_ and entries_ of the wheel agree in every state, for every size of
\* the wheel and every delay, although a tick drops the entries it steps over.
THEOREM WheelIsConsistent ==
  Spec => []WheelConsistent
<1>1. LoopInv => WheelConsistent
  BY WheelCounts DEF LoopInv
<1> QED
  BY <1>1, LoopInvariance, PTL

\* A route leads to a connection of the loop, whose disconnect callback has not run.
THEOREM RoutesAreLive ==
  Spec => []RoutesLive
<1>1. LoopInv => RoutesLive
  BY DEF LoopInv, Ids, Routed, RoutesLive
<1> QED
  BY <1>1, LoopInvariance, PTL

\* The loop never waits for a socket that would take its output and that epoll_wait would
\* not report, although it switches to edge triggering with the first response.
THEOREM NoWakeupLost ==
  Spec => []NoLostWakeup
<1>1. LoopInv => NoLostWakeup
  <2> SUFFICES ASSUME LoopInv, loop.pc = "wait", NEW c \in DOMAIN conns, conns[c].out > 0,
                      ~ kernel[c].full, kernel[c].end # "reset"
               PROVE  "out" \in report(kernel[c])
    BY DEF NoLostWakeup
  <2>1. kernel[c] \in Socket
    BY WheelAssumption DEF LoopInv, Types, IsMap, Conns
  <2>2. kernel[c].full = FALSE
    BY <2>1 DEF Socket
  <2>3. kernel[c].out = TRUE /\ (kernel[c].et = FALSE \/ kernel[c].woken = TRUE)
    BY <2>2 DEF LoopInv, Output, Told
  <2> QED
    BY <2>1, <2>2, <2>3, ReportOut
<1> QED
  BY <1>1, LoopInvariance, PTL

=============================================================================
