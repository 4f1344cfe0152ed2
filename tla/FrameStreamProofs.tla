------------------------- MODULE FrameStreamProofs -------------------------
(***************************************************************************)
(* Proofs about one connection's byte streams, for every base, every width *)
(* of the header's fields, every capacity and every cutting of the stream. *)
(***************************************************************************)
EXTENDS FrameStream, SequenceTheorems, WellFoundedInduction, TLAPS

-----------------------------------------------------------------------------
(***************************************************************************)
(* Induction and recursion over the naturals.  The library's induction     *)
(* theorems take an operator; a set of counterexamples with its least      *)
(* element does the same for the provers.                                  *)
(***************************************************************************)

\* A set of naturals that is not empty has a least element.
LEMMA LeastNat ==
  ASSUME NEW T \in SUBSET Nat, T # {}
  PROVE  \E m \in T : \A k \in T : m <= k
<1> DEFINE R == OpToRel(<, Nat)
<1>1. IsWellFoundedOn(R, Nat)
  BY NatLessThanWellFounded, Zenon
<1>2. \A x, y \in Nat : <<y, x>> \in R <=> y < x
  BY DEF OpToRel
<1> HIDE DEF R
<1>3. PICK x \in T : \A y \in T : ~ (<<y, x>> \in R)
  BY <1>1, WFMin
<1>4. \A y \in T : x <= y
  <2> SUFFICES ASSUME NEW y \in T
               PROVE  x <= y
    OBVIOUS
  <2>1. x \in Nat /\ y \in Nat /\ ~ (y < x)
    BY <1>2, <1>3
  <2> QED
    BY <2>1
<1> QED
  BY <1>4

\* Induction, for a set in place of the operator.
LEMMA SetInduction ==
  ASSUME NEW m \in Nat, NEW T \in SUBSET Nat, 0 \in T,
         \A i \in 1 .. m : i - 1 \in T => i \in T
  PROVE  0 .. m \subseteq T
<1> DEFINE U == {i \in 0 .. m : i \notin T}
<1> SUFFICES ASSUME U # {}
             PROVE  FALSE
  OBVIOUS
<1>1. PICK i \in U : \A j \in U : i <= j
  <2>1. U \in SUBSET Nat
    OBVIOUS
  <2> HIDE DEF U
  <2> QED
    BY <2>1, LeastNat
<1>2. i # 0
  OBVIOUS
<1>3. i \in 1 .. m /\ i - 1 \in 0 .. m /\ i - 1 \notin U
  BY <1>1, <1>2
<1>4. i - 1 \in T
  BY <1>3
<1>5. i \in T
  BY <1>3, <1>4
<1> QED
  BY <1>5

\* f is defined on 0 .. n by primitive recursion from a and h.
Follows(f, n, a, h) ==
  /\ f = [i \in 0 .. n |-> f[i]]
  /\ f[0] = a
  /\ \A i \in 1 .. n : f[i] = h[<<i, f[i - 1]>>]

\* Primitive recursion defines a function.
LEMMA Recursion ==
  ASSUME NEW S, NEW a \in S, NEW n \in Nat, NEW h \in [(1 .. n) \X S -> S]
  PROVE  \E f \in [0 .. n -> S] : Follows(f, n, a, h)
<1> DEFINE P(m) == \E f \in [0 .. m -> S] : Follows(f, m, a, h)
           T == {m \in 0 .. n : ~ P(m)}
<1> SUFFICES ASSUME T # {}
             PROVE  FALSE
  OBVIOUS
<1>1. PICK m \in T : \A k \in T : m <= k
  <2>1. T \in SUBSET Nat
    OBVIOUS
  <2> HIDE DEF T
  <2> QED
    BY <2>1, LeastNat
<1>2. m \in 0 .. n /\ ~ P(m)
  OBVIOUS
<1>3. CASE m = 0
  <2> DEFINE f == [i \in 0 .. 0 |-> a]
  <2>1. f \in [0 .. 0 -> S] /\ Follows(f, 0, a, h)
    BY DEF Follows
  <2> QED
    BY <2>1, <1>2, <1>3
<1>4. CASE m # 0
  <2>1. m - 1 \in 0 .. n /\ m \in 1 .. n /\ m - 1 \notin T
    BY <1>1, <1>2, <1>4
  <2>2. PICK g \in [0 .. m - 1 -> S] : Follows(g, m - 1, a, h)
    BY <2>1
  <2> DEFINE f == [i \in 0 .. m |-> IF i = m THEN h[<<m, g[m - 1]>>] ELSE g[i]]
  <2>3. h[<<m, g[m - 1]>>] \in S
    BY <2>1
  <2>4. f \in [0 .. m -> S]
    <3> SUFFICES ASSUME NEW i \in 0 .. m
                 PROVE  f[i] \in S
      OBVIOUS
    <3>1. i = m \/ i \in 0 .. m - 1
      BY <2>1
    <3> QED
      BY <3>1, <2>3
  <2>5. f[m] = h[<<m, g[m - 1]>>] /\ \A i \in 0 .. m - 1 : f[i] = g[i]
    BY <2>1
  <2>6. f = [i \in 0 .. m |-> f[i]]
    OBVIOUS
  <2> HIDE DEF f
  <2>7. f[0] = a
    BY <2>1, <2>2, <2>5 DEF Follows
  <2>8. ASSUME NEW i \in 1 .. m
        PROVE  f[i] = h[<<i, f[i - 1]>>]
    <3>1. CASE i = m
      <4>1. f[m - 1] = g[m - 1]
        BY <2>1, <2>5
      <4> QED
        BY <4>1, <3>1, <2>5
    <3>2. CASE i # m
      <4>1. i \in 1 .. m - 1 /\ i \in 0 .. m - 1 /\ i - 1 \in 0 .. m - 1
        BY <3>2, <2>1
      <4>2. f[i] = g[i] /\ f[i - 1] = g[i - 1]
        BY <4>1, <2>5
      <4> QED
        BY <4>1, <4>2, <2>2 DEF Follows
    <3> QED
      BY <3>1, <3>2
  <2>9. Follows(f, m, a, h)
    BY <2>6, <2>7, <2>8 DEF Follows
  <2> QED
    BY <2>4, <2>9, <1>2
<1> QED
  BY <1>3, <1>4


-----------------------------------------------------------------------------
(***************************************************************************)
(* Buffer.                                                                 *)
(***************************************************************************)

\* The loop of grow ends for every start: the recursion in doubled defines a function.
LEMMA DoublingEnds ==
  ASSUME NEW least \in Nat \ {0}
  PROVE  \E f : f = [c \in Nat |-> IF c >= least THEN c ELSE f[2 * c]]
<1> DEFINE Ok(f, m) == \A c \in Nat : c >= m => f[c] = IF c >= least THEN c ELSE f[2 * c]
           T == {m \in Nat \ {0} : \E f \in [Nat -> Nat] : Ok(f, m)}
<1>1. least \in T
  <2>1. [c \in Nat |-> c] \in [Nat -> Nat] /\ Ok([c \in Nat |-> c], least)
    OBVIOUS
  <2> QED
    BY <2>1
<1>2. PICK m \in T : \A k \in T : m <= k
  <2>1. T \in SUBSET Nat
    OBVIOUS
  <2> HIDE DEF T
  <2> QED
    BY <2>1, <1>1, LeastNat
<1>3. PICK g \in [Nat -> Nat] : Ok(g, m)
  BY <1>2
<1>4. m \in Nat \ {0} /\ m <= least
  BY <1>1, <1>2
<1>5. m = 1
  <2> SUFFICES ASSUME m # 1
               PROVE  FALSE
    OBVIOUS
  <2>1. m - 1 \in Nat \ {0} /\ m - 1 < least /\ 2 * (m - 1) \in Nat /\ 2 * (m - 1) >= m
    BY <1>4
  <2> DEFINE f == [g EXCEPT ![m - 1] = g[2 * (m - 1)]]
  <2>2. /\ f \in [Nat -> Nat]
        /\ f[m - 1] = g[2 * (m - 1)]
        /\ \A c \in Nat : c # m - 1 => f[c] = g[c]
    BY <2>1
  <2> HIDE DEF f
  <2>3. Ok(f, m - 1)
    <3> SUFFICES ASSUME NEW c \in Nat, c >= m - 1
                 PROVE  f[c] = IF c >= least THEN c ELSE f[2 * c]
      OBVIOUS
    <3>1. CASE c = m - 1
      <4>1. f[2 * c] = g[2 * c]
        BY <3>1, <2>1, <2>2
      <4> QED
        BY <4>1, <3>1, <2>1, <2>2
    <3>2. CASE c # m - 1
      <4>1. c >= m /\ 2 * c \in Nat /\ 2 * c # m - 1
        BY <3>2, <1>4
      <4>2. f[c] = g[c] /\ f[2 * c] = g[2 * c]
        BY <4>1, <3>2, <2>2
      <4> QED
        BY <4>1, <4>2, <1>3
    <3> QED
      BY <3>1, <3>2
  <2>4. m - 1 \in T
    BY <2>1, <2>2, <2>3
  <2> HIDE DEF T
  <2> QED
    BY <2>1, <2>4, <1>2, <1>4
<1>6. \A c \in Nat : g[c] = IF c >= least THEN c ELSE g[2 * c]
  <2> SUFFICES ASSUME NEW c \in Nat
               PROVE  g[c] = IF c >= least THEN c ELSE g[2 * c]
    OBVIOUS
  <2>1. CASE c = 0
    BY <2>1
  <2>2. CASE c # 0
    BY <2>2, <1>3, <1>5
  <2> QED
    BY <2>1, <2>2
<1>7. g = [c \in Nat |-> IF c >= least THEN c ELSE g[2 * c]]
  BY <1>3, <1>6
<1> QED
  BY <1>7

\* Doubling a capacity that is too small gives one that suffices, and less than twice what
\* is needed.
LEMMA DoubledFacts ==
  ASSUME NEW cap \in Nat \ {0}, NEW least \in Nat, cap < least
  PROVE  doubled(cap, least) \in Nat /\ doubled(cap, least) >= least /\ doubled(cap, least) < 2 * least
<1> DEFINE F == CHOOSE f : f = [c \in Nat |-> IF c >= least THEN c ELSE f[2 * c]]
<1>1. doubled(cap, least) = F[2 * cap]
  BY DEF doubled
<1>2. F = [c \in Nat |-> IF c >= least THEN c ELSE F[2 * c]]
  <2>1. least \in Nat \ {0}
    OBVIOUS
  <2> QED
    BY <2>1, DoublingEnds
<1> HIDE DEF F
<1>3. \A c \in Nat : F[c] = IF c >= least THEN c ELSE F[2 * c]
  BY <1>2
<1> DEFINE Good(c) == F[c] \in Nat /\ F[c] >= least /\ (F[c] = c \/ F[c] < 2 * least)
<1>4. \A c \in Nat : c >= least => Good(c)
  BY <1>3
<1>5. \A c \in Nat \ {0} : Good(c)
  <2> SUFFICES ASSUME NEW c \in Nat \ {0}, ~ Good(c)
               PROVE  FALSE
    OBVIOUS
  <2>1. c < least
    BY <1>4
  <2> DEFINE U == {m \in 1 .. least - 1 : ~ Good(least - m)}
  <2>2. least - c \in U
    <3>1. least - c \in 1 .. least - 1 /\ least - (least - c) = c
      BY <2>1
    <3> QED
      BY <3>1
  <2>3. PICK m \in U : \A k \in U : m <= k
    <3>1. U \in SUBSET Nat
      OBVIOUS
    <3> HIDE DEF U
    <3> QED
      BY <3>1, <2>2, LeastNat
  <2>4. PICK d : d = least - m
    OBVIOUS
  <2>5. d \in Nat \ {0} /\ d < least /\ ~ Good(d) /\ m \in 1 .. least - 1
    BY <2>3, <2>4
  <2>6. Good(2 * d)
    <3>1. CASE 2 * d >= least
      BY <3>1, <2>5, <1>4
    <3>2. CASE ~ (2 * d >= least)
      <4>1. least - 2 * d \in 1 .. least - 1 /\ least - (least - 2 * d) = 2 * d
            /\ ~ (m <= least - 2 * d)
        BY <3>2, <2>4, <2>5
      <4>2. least - 2 * d \notin U
        BY <4>1, <2>3
      <4> QED
        BY <4>1, <4>2
    <3> QED
      BY <3>1, <3>2
  <2>7. F[d] = F[2 * d]
    BY <2>5, <1>3
  <2>8. Good(d)
    BY <2>5, <2>6, <2>7
  <2> QED
    BY <2>5, <2>8
<1>6. 2 * cap \in Nat \ {0} /\ 2 * cap < 2 * least
  OBVIOUS
<1> QED
  BY <1>1, <1>5, <1>6

IsBuffer(b) ==
  /\ b.cap \in Nat \ {0}
  /\ b.cell \in [0 .. b.cap - 1 -> Byte]
  /\ b.rd \in Nat /\ b.wr \in Nat
  /\ b.rd <= b.wr /\ b.wr <= b.cap

\* The unread bytes.
LEMMA ContentsFacts ==
  ASSUME NEW b, IsBuffer(b)
  PROVE  /\ readable(b) \in Nat
         /\ contents(b) \in Seq(Byte)
         /\ Len(contents(b)) = readable(b)
         /\ \A i \in 1 .. readable(b) : contents(b)[i] = b.cell[b.rd + i - 1]
<1>1. readable(b) \in Nat
  BY DEF IsBuffer, readable
<1>2. contents(b) \in [1 .. readable(b) -> Byte]
  <2> SUFFICES ASSUME NEW i \in 1 .. readable(b)
               PROVE  b.cell[b.rd + i - 1] \in Byte
    BY DEF contents
  <2>1. b.rd + i - 1 \in 0 .. b.cap - 1
    BY DEF IsBuffer, readable
  <2> QED
    BY <2>1 DEF IsBuffer
<1>3. contents(b) \in Seq(Byte)
  BY <1>1, <1>2, SeqDef
<1>4. Len(contents(b)) = readable(b)
  BY <1>1, <1>2, <1>3
<1> QED
  BY <1>1, <1>3, <1>4 DEF contents

\* Two buffers with the same number of unread bytes, byte for byte the same.
LEMMA SameContents ==
  ASSUME NEW b, NEW d, IsBuffer(b), IsBuffer(d), readable(d) = readable(b),
         \A i \in 1 .. readable(b) : d.cell[d.rd + i - 1] = b.cell[b.rd + i - 1]
  PROVE  contents(d) = contents(b)
  BY DEF contents

\* The new buffer is empty.
LEMMA NewBuffer ==
  IsBuffer(newBuffer) /\ contents(newBuffer) = <<>> /\ newBuffer.cap = newCapacity
<1>1. newCapacity \in Nat \ {0}
  BY BufferAssumption DEF newCapacity
<1>2. 0 \in Byte
  BY BufferAssumption DEF Byte
<1>3. IsBuffer(newBuffer) /\ newBuffer.cap = newCapacity /\ readable(newBuffer) = 0
  BY <1>1, <1>2 DEF IsBuffer, newBuffer, readable
<1>4. Len(contents(newBuffer)) = 0 /\ contents(newBuffer) \in Seq(Byte)
  BY <1>3, ContentsFacts
<1> QED
  BY <1>3, <1>4, EmptySeq

\* compact moves the unread bytes to the front.
LEMMA CompactFacts ==
  ASSUME NEW b, IsBuffer(b)
  PROVE  /\ IsBuffer(compact(b)) /\ contents(compact(b)) = contents(b)
         /\ compact(b).cap = b.cap /\ compact(b).wr = readable(b)
         /\ readable(compact(b)) = readable(b)
<1>0. readable(b) \in Nat /\ readable(b) = b.wr - b.rd
  BY ContentsFacts DEF readable
<1>1. CASE b.rd > 0 /\ readable(b) > 0
  <2> DEFINE d == compact(b)
  <2>1. /\ d.cap = b.cap /\ d.rd = 0 /\ d.wr = readable(b)
        /\ d.cell = [i \in DOMAIN b.cell |-> IF i < readable(b) THEN b.cell[b.rd + i] ELSE b.cell[i]]
    BY <1>1 DEF compact
  <2>2. DOMAIN b.cell = 0 .. b.cap - 1
    BY DEF IsBuffer
  <2> HIDE DEF d
  <2>3. d.cell \in [0 .. d.cap - 1 -> Byte]
    <3> SUFFICES ASSUME NEW i \in 0 .. b.cap - 1
                 PROVE  (IF i < readable(b) THEN b.cell[b.rd + i] ELSE b.cell[i]) \in Byte
      BY <2>1, <2>2
    <3>1. CASE i < readable(b)
      <4>1. b.rd + i \in 0 .. b.cap - 1
        BY <3>1, <1>0 DEF IsBuffer
      <4> QED
        BY <4>1, <3>1 DEF IsBuffer
    <3>2. CASE ~ (i < readable(b))
      BY <3>2 DEF IsBuffer
    <3> QED
      BY <3>1, <3>2
  <2>4. IsBuffer(d)
    BY <2>1, <2>3, <1>0 DEF IsBuffer
  <2>5. readable(d) = readable(b)
    BY <2>1, <1>0 DEF readable
  <2>6. \A i \in 1 .. readable(b) : d.cell[d.rd + i - 1] = b.cell[b.rd + i - 1]
    <3> SUFFICES ASSUME NEW i \in 1 .. readable(b)
                 PROVE  d.cell[d.rd + i - 1] = b.cell[b.rd + i - 1]
      OBVIOUS
    <3>1. /\ i - 1 \in 0 .. b.cap - 1 /\ i - 1 < readable(b)
          /\ d.rd + i - 1 = i - 1 /\ b.rd + (i - 1) = b.rd + i - 1
      BY <1>0, <2>1 DEF IsBuffer
    <3>2. d.cell[i - 1] = b.cell[b.rd + (i - 1)]
      BY <3>1, <2>1, <2>2
    <3> QED
      BY <3>1, <3>2
  <2>7. contents(d) = contents(b)
    BY <2>4, <2>5, <2>6, SameContents
  <2> QED
    BY <2>1, <2>4, <2>5, <2>7 DEF d
<1>2. CASE b.rd > 0 /\ ~ (readable(b) > 0)
  <2> DEFINE d == compact(b)
  <2>1. d.cap = b.cap /\ d.cell = b.cell /\ d.rd = 0 /\ d.wr = 0
    BY <1>2 DEF compact, reset
  <2> HIDE DEF d
  <2>2. IsBuffer(d) /\ readable(d) = 0 /\ readable(b) = 0
    BY <2>1, <1>0, <1>2 DEF IsBuffer, readable
  <2>3. contents(d) = contents(b)
    BY <2>2, SameContents
  <2> QED
    BY <2>1, <2>2, <2>3 DEF d
<1>3. CASE ~ (b.rd > 0)
  <2>1. compact(b) = b /\ b.rd = 0
    BY <1>3 DEF compact, IsBuffer
  <2> QED
    BY <2>1, <1>0 DEF IsBuffer
<1> QED
  BY <1>1, <1>2, <1>3

\* The cell of an unread byte is one of the buffer's, before those that are free.
LEMMA UnreadCell ==
  ASSUME NEW rd \in Nat, NEW wr \in Nat, NEW cap \in Nat, NEW i \in Nat, NEW n \in Nat,
         rd <= wr, wr <= cap, n = wr - rd, 1 <= i, i <= n
  PROVE  rd + i - 1 \in 0 .. cap - 1 /\ rd + i - 1 < wr
  OBVIOUS

\* Concatenation is associative.
LEMMA Concats ==
  ASSUME NEW s \in Seq(Byte), NEW t \in Seq(Byte), NEW u \in Seq(Byte)
  PROVE  (s \o t) \o u = s \o (t \o u) /\ t \o u \in Seq(Byte)
  BY ConcatAssociative

\* The elements of a sequence after the first m, up to the n-th.
LEMMA SubSeqFacts ==
  ASSUME NEW s \in Seq(Byte), NEW m \in Nat, NEW n \in Nat, m <= n, n <= Len(s)
  PROVE  /\ SubSeq(s, m + 1, n) \in Seq(Byte) /\ Len(SubSeq(s, m + 1, n)) = n - m
         /\ \A i \in 1 .. n - m : SubSeq(s, m + 1, n)[i] = s[m + i]
  OBVIOUS

\* grow keeps the unread bytes.
LEMMA GrowFacts ==
  ASSUME NEW b, IsBuffer(b), NEW least \in Nat, b.cap < least
  PROVE  /\ IsBuffer(grow(b, least)) /\ contents(grow(b, least)) = contents(b)
         /\ grow(b, least).cap >= least /\ grow(b, least).cap < 2 * least
         /\ grow(b, least).wr = b.wr /\ readable(grow(b, least)) = readable(b)
<1> DEFINE d == grow(b, least)
           cap == doubled(b.cap, least)
<1>1. cap \in Nat /\ cap >= least /\ cap < 2 * least /\ cap > b.cap /\ b.cap \in Nat
  BY DoubledFacts DEF IsBuffer
<1>2. /\ d.cap = cap /\ d.rd = b.rd /\ d.wr = b.wr
      /\ d.cell = [i \in 0 .. cap - 1 |-> IF i < b.cap THEN b.cell[i] ELSE 0]
  BY DEF grow
<1> HIDE DEF d, cap
<1>3. d.cell \in [0 .. cap - 1 -> Byte]
  <2> SUFFICES ASSUME NEW i \in 0 .. cap - 1
               PROVE  (IF i < b.cap THEN b.cell[i] ELSE 0) \in Byte
    BY <1>2
  <2>1. CASE i < b.cap
    <3>1. i \in 0 .. b.cap - 1
      BY <2>1, <1>1
    <3> QED
      BY <3>1, <2>1 DEF IsBuffer
  <2>2. CASE ~ (i < b.cap)
    BY <2>2, BufferAssumption DEF Byte
  <2> QED
    BY <2>1, <2>2
<1>4. IsBuffer(d) /\ readable(d) = readable(b)
  BY <1>1, <1>2, <1>3 DEF IsBuffer, readable
<1>5. \A i \in 1 .. readable(b) : d.cell[d.rd + i - 1] = b.cell[b.rd + i - 1]
  <2> SUFFICES ASSUME NEW i \in 1 .. readable(b)
               PROVE  d.cell[b.rd + i - 1] = b.cell[b.rd + i - 1]
    BY <1>2
  <2>1. b.rd + i - 1 \in 0 .. cap - 1 /\ b.rd + i - 1 < b.cap
    <3>1. /\ b.rd \in Nat /\ b.wr \in Nat /\ b.rd <= b.wr /\ b.wr <= b.cap
          /\ readable(b) \in Nat /\ readable(b) = b.wr - b.rd
          /\ i \in Nat /\ 1 <= i /\ i <= readable(b)
      BY DEF IsBuffer, readable
    <3>2. b.rd + i - 1 \in 0 .. b.cap - 1
      BY <3>1, <1>1, UnreadCell, ZenonT(20)
    <3> QED
      BY <3>2, <1>1
  <2> QED
    BY <2>1, <1>2
<1>6. contents(d) = contents(b)
  BY <1>4, <1>5, SameContents
<1> QED
  BY <1>1, <1>2, <1>4, <1>6 DEF d

\* ensureWrite makes room, keeps the unread bytes, and does not grow past twice what they
\* and the room take.
LEMMA EnsureWriteFacts ==
  ASSUME NEW b, IsBuffer(b), NEW n \in Nat
  PROVE  /\ IsBuffer(ensureWrite(b, n)) /\ contents(ensureWrite(b, n)) = contents(b)
         /\ readable(ensureWrite(b, n)) = readable(b)
         /\ writable(ensureWrite(b, n)) >= n
         /\ ensureWrite(b, n).cap = b.cap \/ ensureWrite(b, n).cap < 2 * (readable(b) + n)
<1> DEFINE e == ensureWrite(b, n)
           c == compact(b)
<1>1. CASE writable(b) >= n
  <2>1. e = b
    BY <1>1 DEF ensureWrite
  <2> QED
    BY <2>1, <1>1
<1>2. /\ IsBuffer(c) /\ contents(c) = contents(b) /\ c.cap = b.cap
      /\ c.wr = readable(b) /\ readable(c) = readable(b)
  BY CompactFacts
<1>3. CASE ~ (writable(b) >= n) /\ writable(c) >= n
  <2>1. e = c
    BY <1>3 DEF ensureWrite
  <2> QED
    BY <2>1, <1>2, <1>3
<1>4. CASE ~ (writable(b) >= n) /\ ~ (writable(c) >= n)
  <2>1. e = grow(c, c.wr + n)
    BY <1>4 DEF ensureWrite
  <2> HIDE DEF c
  <2>2. c.wr + n \in Nat /\ c.cap < c.wr + n /\ c.cap \in Nat /\ c.wr \in Nat
    BY <1>2, <1>4 DEF IsBuffer, writable
  <2>3. /\ IsBuffer(e) /\ contents(e) = contents(c) /\ e.cap >= c.wr + n
        /\ e.cap < 2 * (c.wr + n) /\ e.wr = c.wr /\ readable(e) = readable(c)
    BY <2>1, <2>2, <1>2, GrowFacts
  <2> HIDE DEF e
  <2>4. writable(e) >= n
    BY <2>2, <2>3 DEF writable, IsBuffer
  <2> QED
    BY <2>3, <2>4, <1>2 DEF e
<1> QED
  BY <1>1, <1>3, <1>4

\* append adds the bytes behind the unread ones.
LEMMA AppendFacts ==
  ASSUME NEW b, IsBuffer(b), NEW data \in Seq(Byte), writable(b) >= Len(data)
  PROVE  /\ IsBuffer(append(b, data)) /\ contents(append(b, data)) = contents(b) \o data
         /\ append(b, data).cap = b.cap /\ readable(append(b, data)) = readable(b) + Len(data)
<1> DEFINE d == append(b, data)
<1>0. PICK l : l = Len(data)
  OBVIOUS
<1>1. l \in Nat /\ b.wr + l <= b.cap /\ \A j \in 1 .. l : data[j] \in Byte
  BY <1>0 DEF IsBuffer, writable
<1>2. DOMAIN b.cell = 0 .. b.cap - 1
  BY DEF IsBuffer
<1>3. /\ d.cap = b.cap /\ d.rd = b.rd /\ d.wr = b.wr + l
      /\ d.cell = [i \in 0 .. b.cap - 1 |->
                     IF i \in b.wr .. b.wr + l - 1 THEN data[i - b.wr + 1] ELSE b.cell[i]]
  BY <1>0, <1>2 DEF append
<1> HIDE DEF d
<1>4. d.cell \in [0 .. b.cap - 1 -> Byte]
  <2> SUFFICES ASSUME NEW i \in 0 .. b.cap - 1
               PROVE  (IF i \in b.wr .. b.wr + l - 1 THEN data[i - b.wr + 1] ELSE b.cell[i]) \in Byte
    BY <1>3
  <2>1. CASE i \in b.wr .. b.wr + l - 1
    <3>1. i - b.wr + 1 \in 1 .. l
      <4>1. b.wr \in Nat /\ i \in Nat /\ b.wr <= i /\ i <= b.wr + l - 1
        BY <2>1, <1>1 DEF IsBuffer
      <4> QED
        BY <4>1, <1>1
    <3> QED
      BY <3>1, <2>1, <1>1
  <2>2. CASE i \notin b.wr .. b.wr + l - 1
    BY <2>2 DEF IsBuffer
  <2> QED
    BY <2>1, <2>2
<1>5. IsBuffer(d)
  BY <1>1, <1>3, <1>4 DEF IsBuffer
<1>6. readable(d) = readable(b) + l
  BY <1>1, <1>3 DEF readable, IsBuffer
<1>7. /\ readable(b) \in Nat /\ contents(b) \in Seq(Byte) /\ Len(contents(b)) = readable(b)
      /\ \A i \in 1 .. readable(b) : contents(b)[i] = b.cell[b.rd + i - 1]
  BY ContentsFacts
<1>8. /\ contents(d) \in Seq(Byte) /\ Len(contents(d)) = readable(b) + l
      /\ \A i \in 1 .. readable(b) + l : contents(d)[i] = d.cell[d.rd + i - 1]
  BY <1>5, <1>6, ContentsFacts
<1>9. ASSUME NEW i \in 1 .. readable(b) + l
      PROVE  contents(d)[i] = (contents(b) \o data)[i]
  <2>0. /\ i \in Nat /\ 1 <= i /\ i <= readable(b) + l /\ readable(b) = b.wr - b.rd
        /\ b.wr \in Nat /\ b.rd \in Nat /\ b.cap \in Nat /\ b.wr + l <= b.cap /\ b.rd <= b.wr
    BY <1>1, <1>7 DEF IsBuffer, readable
  <2>1. CASE i <= readable(b)
    <3>1. b.rd + i - 1 \in 0 .. b.cap - 1 /\ b.rd + i - 1 \notin b.wr .. b.wr + l - 1
      <4>1. b.wr <= b.cap /\ readable(b) \in Nat
        BY <2>0, <1>1, <1>7
      <4>2. b.rd + i - 1 \in 0 .. b.cap - 1 /\ b.rd + i - 1 < b.wr
        BY <4>1, <2>0, <2>1, UnreadCell, ZenonT(20)
      <4> QED
        BY <4>2, <2>0
    <3>2. contents(d)[i] = b.cell[b.rd + i - 1]
      BY <3>1, <1>3, <1>8
    <3>3. (contents(b) \o data)[i] = contents(b)[i]
      BY <2>1, <1>7
    <3> QED
      BY <2>1, <3>2, <3>3, <1>7
  <2>2. CASE i > readable(b)
    <3>1. /\ b.rd + i - 1 \in 0 .. b.cap - 1 /\ b.rd + i - 1 \in b.wr .. b.wr + l - 1
          /\ (b.rd + i - 1) - b.wr + 1 = i - readable(b)
      <4>1. readable(b) < i /\ readable(b) \in Nat
        BY <2>0, <2>2, <1>7
      <4> QED
        <5>1. PICK rd \in Nat, wr \in Nat, cap \in Nat, n \in Nat, j \in Nat, m \in Nat :
                /\ rd = b.rd /\ wr = b.wr /\ cap = b.cap
                /\ n = readable(b) /\ j = i /\ m = l
          BY <4>1, <2>0, <1>1
        <5>2. rd <= wr /\ wr + m <= cap /\ n = wr - rd /\ n < j /\ j <= n + m
          BY <5>1, <4>1, <2>0
        <5>3. /\ rd + j - 1 \in 0 .. cap - 1 /\ rd + j - 1 \in wr .. wr + m - 1
              /\ (rd + j - 1) - wr + 1 = j - n
          BY <5>2
        <5> QED
          BY <5>1, <5>3, Zenon
    <3>2. contents(d)[i] = data[i - readable(b)]
      BY <3>1, <1>3, <1>8
    <3>3. (contents(b) \o data)[i] = data[i - readable(b)]
      BY <2>2, <1>7, <1>0, <1>1
    <3> QED
      BY <3>2, <3>3
  <2>3. i <= readable(b) \/ i > readable(b)
    BY <2>0
  <2> QED
    BY <2>1, <2>2, <2>3
<1>10. contents(b) \o data \in Seq(Byte) /\ Len(contents(b) \o data) = readable(b) + l
  BY <1>7, <1>0
<1>11. contents(d) = contents(b) \o data
  BY <1>8, <1>9, <1>10, SeqEqual
<1> QED
  BY <1>0, <1>3, <1>5, <1>6, <1>11 DEF d

\* write adds bytes; it grows the buffer to less than twice what is in it then.
LEMMA WriteFacts ==
  ASSUME NEW b, IsBuffer(b), NEW data \in Seq(Byte)
  PROVE  /\ IsBuffer(write(b, data)) /\ contents(write(b, data)) = contents(b) \o data
         /\ readable(write(b, data)) = readable(b) + Len(data)
         /\ write(b, data).cap = b.cap \/ write(b, data).cap < 2 * (readable(b) + Len(data))
<1> DEFINE e == ensureWrite(b, Len(data))
<1>0. Len(data) \in Nat
  OBVIOUS
<1>1. CASE data = <<>>
  <2>1. write(b, data) = b /\ Len(data) = 0
    BY <1>1 DEF write
  <2>2. readable(b) \in Nat /\ contents(b) \in Seq(Byte)
    BY ContentsFacts
  <2>3. contents(b) \o data = contents(b)
    BY <2>2, <1>1
  <2> QED
    BY <2>1, <2>2, <2>3
<1>2. CASE data # <<>>
  <2>1. write(b, data) = append(e, data)
    BY <1>2 DEF write
  <2>2. /\ IsBuffer(e) /\ contents(e) = contents(b) /\ readable(e) = readable(b)
        /\ writable(e) >= Len(data)
        /\ e.cap = b.cap \/ e.cap < 2 * (readable(b) + Len(data))
    BY <1>0, EnsureWriteFacts
  <2> HIDE DEF e
  <2>3. /\ IsBuffer(append(e, data)) /\ contents(append(e, data)) = contents(e) \o data
        /\ append(e, data).cap = e.cap /\ readable(append(e, data)) = readable(e) + Len(data)
    BY <2>2, AppendFacts
  <2> QED
    BY <2>1, <2>2, <2>3
<1> QED
  BY <1>1, <1>2

\* readFromFd takes what there is room for, at least one byte, and grows the buffer to
\* less than twice what was in it and a chunk.
LEMMA ReadFacts ==
  ASSUME NEW b, IsBuffer(b), NEW inp \in Seq(Byte), NEW n, n = readCount(b, Len(inp))
  PROVE  /\ n \in 0 .. Len(inp)
         /\ IsBuffer(readFromFd(b, SubSeq(inp, 1, n)))
         /\ contents(readFromFd(b, SubSeq(inp, 1, n))) = contents(b) \o SubSeq(inp, 1, n)
         /\ \/ readFromFd(b, SubSeq(inp, 1, n)).cap = b.cap
            \/ readFromFd(b, SubSeq(inp, 1, n)).cap < 2 * (readable(b) + Chunk)
<1> DEFINE e == ensureWrite(b, Chunk)
           data == SubSeq(inp, 1, n)
<1>0. Chunk \in Nat /\ Len(inp) \in Nat
  BY BufferAssumption
<1>1. /\ IsBuffer(e) /\ contents(e) = contents(b) /\ readable(e) = readable(b)
      /\ writable(e) >= Chunk
      /\ e.cap = b.cap \/ e.cap < 2 * (readable(b) + Chunk)
  BY <1>0, EnsureWriteFacts
<1>2. n = atMost(Len(inp), writable(e))
  BY DEF readCount
<1>3. readFromFd(b, data) = append(e, data)
  BY DEF readFromFd
<1> HIDE DEF e
<1>4. writable(e) \in Nat
  BY <1>1 DEF IsBuffer, writable
<1>5. n \in 0 .. Len(inp) /\ n <= writable(e)
  BY <1>0, <1>2, <1>4 DEF atMost
<1>6. data \in Seq(Byte) /\ Len(data) = n
  BY <1>5
<1> HIDE DEF data
<1>7. /\ IsBuffer(append(e, data)) /\ contents(append(e, data)) = contents(e) \o data
      /\ append(e, data).cap = e.cap
  BY <1>1, <1>5, <1>6, AppendFacts
<1> QED
  BY <1>1, <1>3, <1>5, <1>7 DEF data

\* skip takes bytes from the front.
LEMMA SkipFacts ==
  ASSUME NEW b, IsBuffer(b), NEW n \in Nat, n <= readable(b)
  PROVE  /\ IsBuffer(skip(b, n)) /\ readable(skip(b, n)) = readable(b) - n
         /\ contents(skip(b, n)) = SubSeq(contents(b), n + 1, Len(contents(b)))
         /\ skip(b, n).cap = b.cap
<1> DEFINE d == [cap |-> b.cap, cell |-> b.cell, rd |-> b.rd + n, wr |-> b.wr]
           e == skip(b, n)
<1>0. /\ readable(b) \in Nat /\ contents(b) \in Seq(Byte) /\ Len(contents(b)) = readable(b)
      /\ \A i \in 1 .. readable(b) : contents(b)[i] = b.cell[b.rd + i - 1]
  BY ContentsFacts
<1>1. e = resetIfEmpty(d)
  <2>1. atMost(n, readable(b)) = n
    BY DEF atMost
  <2> QED
    BY <2>1 DEF skip
<1>2. IsBuffer(d) /\ readable(d) = readable(b) - n /\ d.cap = b.cap
  BY DEF IsBuffer, readable
<1>3. contents(d) = SubSeq(contents(b), n + 1, Len(contents(b)))
  <2>1. d.rd = b.rd + n /\ d.cell = b.cell
    OBVIOUS
  <2> HIDE DEF d
  <2>2. /\ contents(d) \in Seq(Byte) /\ Len(contents(d)) = readable(b) - n
        /\ \A i \in 1 .. readable(b) - n : contents(d)[i] = d.cell[d.rd + i - 1]
    BY <1>2, ContentsFacts
  <2> DEFINE t == SubSeq(contents(b), n + 1, Len(contents(b)))
  <2>3. /\ t \in Seq(Byte) /\ Len(t) = readable(b) - n
        /\ \A i \in 1 .. readable(b) - n : t[i] = contents(b)[n + i]
    <3>1. PICK s \in Seq(Byte), m \in Nat : s = contents(b) /\ m = Len(s) /\ m = readable(b)
      BY <1>0
    <3>2. n <= m /\ m <= Len(s)
      BY <3>1
    <3>3. /\ SubSeq(s, n + 1, m) \in Seq(Byte) /\ Len(SubSeq(s, n + 1, m)) = m - n
          /\ \A i \in 1 .. m - n : SubSeq(s, n + 1, m)[i] = s[n + i]
      BY <3>2, SubSeqFacts, Zenon
    <3> QED
      BY <3>1, <3>3, Zenon
  <2> HIDE DEF t
  <2>4. ASSUME NEW i \in 1 .. readable(b) - n
        PROVE  contents(d)[i] = t[i]
    <3>1. n + i \in 1 .. readable(b) /\ b.rd + (n + i) - 1 = (b.rd + n) + i - 1
      BY <1>0 DEF IsBuffer
    <3>2. contents(b)[n + i] = b.cell[b.rd + (n + i) - 1]
      BY <3>1, <1>0
    <3>3. contents(d)[i] = b.cell[(b.rd + n) + i - 1]
      BY <2>1, <2>2
    <3> QED
      BY <3>1, <3>2, <3>3, <2>3
  <2>5. contents(d) = t
    BY <2>2, <2>3, <2>4, SeqEqual
  <2> QED
    BY <2>5 DEF t
<1>4. CASE d.rd = d.wr
  <2>1. e = reset(d)
    BY <1>1, <1>4 DEF resetIfEmpty
  <2>2. e.cap = d.cap /\ e.cell = d.cell /\ e.rd = 0 /\ e.wr = 0
    BY <2>1 DEF reset
  <2> HIDE DEF d, e
  <2>3. IsBuffer(e) /\ readable(e) = 0 /\ readable(d) = 0
    BY <2>2, <1>2, <1>4 DEF IsBuffer, readable
  <2>4. contents(e) = contents(d)
    BY <2>3, <1>2, SameContents
  <2> QED
    BY <2>2, <2>3, <2>4, <1>2, <1>3 DEF e
<1>5. CASE d.rd # d.wr
  <2>1. e = d
    BY <1>1, <1>5 DEF resetIfEmpty
  <2> QED
    BY <2>1, <1>2, <1>3
<1> QED
  BY <1>4, <1>5

-----------------------------------------------------------------------------
(***************************************************************************)
(* FrameCodec: the numbers of the header.                                  *)
(***************************************************************************)

powerStep(k) == [x \in (1 .. k) \X Nat |-> x[2] * Base]

\* The recursion of power defines a function.
LEMMA PowerFollows ==
  ASSUME NEW k \in Nat
  PROVE  \E g \in [0 .. k -> Nat] : power(k) = g[k] /\ Follows(g, k, 1, powerStep(k))
<1> DEFINE F == CHOOSE f : f = [i \in 0 .. k |-> IF i = 0 THEN 1 ELSE f[i - 1] * Base]
<1>1. power(k) = F[k]
  BY DEF power
<1>2. powerStep(k) \in [(1 .. k) \X Nat -> Nat]
  BY BufferAssumption DEF powerStep
<1>3. PICK g \in [0 .. k -> Nat] : Follows(g, k, 1, powerStep(k))
  BY <1>2, Recursion
<1>4. \A i \in 1 .. k : g[i] = g[i - 1] * Base
  <2> SUFFICES ASSUME NEW i \in 1 .. k
               PROVE  g[i] = g[i - 1] * Base
    OBVIOUS
  <2>1. g[i - 1] \in Nat /\ g[i] = powerStep(k)[<<i, g[i - 1]>>]
    <3>1. i - 1 \in 0 .. k
      OBVIOUS
    <3>2. g[i] = powerStep(k)[<<i, g[i - 1]>>]
      BY <1>3 DEF Follows
    <3> QED
      BY <3>1, <3>2, Zenon
  <2> QED
    BY <2>1 DEF powerStep
<1>5. g = [i \in 0 .. k |-> IF i = 0 THEN 1 ELSE g[i - 1] * Base]
  <2>1. \A i \in 0 .. k : g[i] = IF i = 0 THEN 1 ELSE g[i - 1] * Base
    <3>1. g[0] = 1
      BY <1>3 DEF Follows
    <3>2. \A i \in 0 .. k : i = 0 \/ i \in 1 .. k
      OBVIOUS
    <3> QED
      BY <3>1, <3>2, <1>4
  <2> QED
    BY <2>1
<1>6. F = [i \in 0 .. k |-> IF i = 0 THEN 1 ELSE F[i - 1] * Base]
  BY <1>5
<1> HIDE DEF F
<1>7. Follows(F, k, 1, powerStep(k)) /\ F \in [0 .. k -> Nat]
  <2> DEFINE T == {i \in 0 .. k : F[i] \in Nat}
  <2>1. \A i \in 0 .. k : F[i] \in Nat
    <3>1. 0 \in T
      BY <1>6
    <3>2. ASSUME NEW i \in 1 .. k, i - 1 \in T
          PROVE  i \in T
      <4>1. F[i - 1] \in Nat /\ i \in 0 .. k /\ i # 0
        BY <3>2
      <4>2. F[i] = F[i - 1] * Base
        BY <1>6, <4>1
      <4>3. F[i] \in Nat
        BY <4>1, <4>2, BufferAssumption
      <4> QED
        BY <4>1, <4>3
    <3>3. T \in SUBSET Nat
      OBVIOUS
    <3> HIDE DEF T
    <3>4. 0 .. k \subseteq T
      BY <3>1, <3>2, <3>3, SetInduction
    <3> QED
      BY <3>4 DEF T
  <2>2. F \in [0 .. k -> Nat]
    BY <1>6, <2>1
  <2>3. \A i \in 1 .. k : F[i] = powerStep(k)[<<i, F[i - 1]>>]
    <3> SUFFICES ASSUME NEW i \in 1 .. k
                 PROVE  F[i] = powerStep(k)[<<i, F[i - 1]>>]
      OBVIOUS
    <3>1. i \in 0 .. k /\ i # 0 /\ i - 1 \in 0 .. k
      OBVIOUS
    <3>2. F[i] = F[i - 1] * Base /\ F[i - 1] \in Nat
      BY <3>1, <2>2, <1>6
    <3> QED
      BY <3>2 DEF powerStep
  <2>4. F[0] = 1 /\ F = [i \in 0 .. k |-> F[i]]
    BY <1>6
  <2> QED
    BY <2>2, <2>3, <2>4 DEF Follows
<1> QED
  BY <1>1, <1>7

\* The powers of Base.
LEMMA PowerFacts ==
  ASSUME NEW k \in Nat
  PROVE  power(0) = 1 /\ power(k) \in Nat /\ power(k + 1) = power(k) * Base
<1>1. PICK g \in [0 .. k -> Nat] : power(k) = g[k] /\ Follows(g, k, 1, powerStep(k))
  BY PowerFollows
<1>2. PICK z \in [0 .. 0 -> Nat] : power(0) = z[0] /\ Follows(z, 0, 1, powerStep(0))
  BY PowerFollows
<1>3. PICK f \in [0 .. k + 1 -> Nat] :
        power(k + 1) = f[k + 1] /\ Follows(f, k + 1, 1, powerStep(k + 1))
  <2>1. k + 1 \in Nat
    OBVIOUS
  <2> QED
    BY <2>1, PowerFollows
<1>4. f[k + 1] = f[k] * Base
  <2>1. f[k] \in Nat /\ k + 1 \in 1 .. k + 1 /\ (k + 1) - 1 = k
    OBVIOUS
  <2>2. f[k + 1] = powerStep(k + 1)[<<k + 1, f[k]>>]
    BY <1>3, <2>1 DEF Follows
  <2> QED
    BY <2>1, <2>2 DEF powerStep
<1>5. ASSUME NEW i \in 1 .. k, g[i - 1] = f[i - 1]
      PROVE  g[i] = f[i]
  <2>1. g[i - 1] \in Nat /\ i \in 1 .. k + 1
    OBVIOUS
  <2>2. g[i] = powerStep(k)[<<i, g[i - 1]>>] /\ f[i] = powerStep(k + 1)[<<i, f[i - 1]>>]
    BY <2>1, <1>1, <1>3 DEF Follows
  <2>3. powerStep(k)[<<i, g[i - 1]>>] = powerStep(k + 1)[<<i, g[i - 1]>>]
    BY <2>1 DEF powerStep
  <2> QED
    BY <2>2, <2>3, <1>5
<1>6. g[k] = f[k]
  <2> DEFINE T == {i \in 0 .. k : g[i] = f[i]}
  <2>1. 0 \in T
    BY <1>1, <1>3 DEF Follows
  <2>2. ASSUME NEW i \in 1 .. k, i - 1 \in T
        PROVE  i \in T
    BY <2>2, <1>5
  <2>3. T \in SUBSET Nat
    OBVIOUS
  <2> HIDE DEF T
  <2>4. 0 .. k \subseteq T
    BY <2>1, <2>2, <2>3, SetInduction
  <2>5. k \in T
    BY <2>4
  <2> QED
    BY <2>5 DEF T
<1>7. power(0) = 1
  BY <1>2 DEF Follows
<1>8. power(k) \in Nat
  BY <1>1
<1> QED
  BY <1>1, <1>3, <1>4, <1>6, <1>7, <1>8

LEMMA DivFacts ==
  ASSUME NEW n \in Nat, NEW p \in Nat \ {0}
  PROVE  /\ n \div p \in Nat /\ n % p \in 0 .. p - 1
         /\ n = (n \div p) * p + (n % p)
  OBVIOUS

\* A product of naturals is at least as large as a factor of it that the other exceeds.
LEMMA ProductGrows ==
  ASSUME NEW a \in Nat, NEW b \in Nat, NEW p \in Nat, a < b
  PROVE  a * p + p <= b * p
<1>1. PICK c \in Nat : b = a + 1 + c
  <2>1. b - a - 1 \in Nat /\ b = a + 1 + (b - a - 1)
    OBVIOUS
  <2> QED
    BY <2>1
<1>2. b * p = a * p + p + c * p
  BY <1>1
<1>3. c * p >= 0 /\ c * p \in Nat /\ a * p \in Nat
  BY <1>1
<1> QED
  BY <1>2, <1>3

\* Quotient and remainder are determined by their equation.
LEMMA DivUnique ==
  ASSUME NEW n \in Nat, NEW p \in Nat \ {0}, NEW q \in Nat, NEW r \in 0 .. p - 1, n = q * p + r
  PROVE  n \div p = q
<1>1. PICK d \in Nat : d = n \div p
  OBVIOUS
<1>2. PICK m \in 0 .. p - 1 : n = d * p + m
  BY <1>1, DivFacts
<1>0. d * p \in Nat /\ q * p \in Nat /\ p \in Nat
  BY <1>1
<1>3. ~ (d < q)
  <2> SUFFICES ASSUME d < q
               PROVE  FALSE
    OBVIOUS
  <2>1. d * p + p <= q * p
    BY <1>1, ProductGrows
  <2> QED
    BY <2>1, <1>0, <1>2
<1>4. ~ (q < d)
  <2> SUFFICES ASSUME q < d
               PROVE  FALSE
    OBVIOUS
  <2>1. q * p + p <= d * p
    BY <1>1, ProductGrows
  <2> QED
    BY <2>1, <1>0, <1>2
<1> QED
  BY <1>1, <1>3, <1>4

\* Dividing by a product is dividing twice.
LEMMA DivTwice ==
  ASSUME NEW n \in Nat, NEW p \in Nat \ {0}, NEW c \in Nat \ {0}
  PROVE  (n \div (p * c)) * c + ((n \div p) % c) = n \div p
<1>1. PICK q \in Nat : q = n \div p
  OBVIOUS
<1>2. PICK r \in 0 .. p - 1 : n = q * p + r
  BY <1>1, DivFacts, ZenonT(40)
<1>3. PICK s \in Nat : s = q \div c
  OBVIOUS
<1>4. PICK t \in 0 .. c - 1 : q = s * c + t /\ t = q % c
  BY <1>3, DivFacts
<1>5. n = s * (p * c) + (t * p + r)
  <2>1. q * p = s * c * p + t * p
    BY <1>4
  <2>2. s * c * p = s * (p * c)
    OBVIOUS
  <2>3. s * (p * c) \in Nat /\ t * p \in Nat /\ q * p \in Nat /\ r \in Nat
    OBVIOUS
  <2> QED
    BY <2>1, <2>2, <2>3, <1>2
<1>6. t * p + r \in 0 .. p * c - 1
  <2>1. t * p + p <= c * p
    <3>1. t \in Nat /\ t < c
      OBVIOUS
    <3> QED
      BY <3>1, ProductGrows
  <2>2. c * p = p * c /\ p * c \in Nat /\ t * p \in Nat
    OBVIOUS
  <2> QED
    BY <2>1, <2>2, <1>2
<1>7. p * c \in Nat \ {0}
  OBVIOUS
<1>8. PICK u : u = t * p + r
  OBVIOUS
<1>9. PICK w : w = p * c
  OBVIOUS
<1>10. n \div (p * c) = s
  <2>1. n \div w = s
    BY <1>5, <1>6, <1>7, <1>8, <1>9, DivUnique
  <2> QED
    BY <2>1, <1>9
<1> QED
  BY <1>1, <1>4, <1>10

\* No power is zero.
LEMMA PowerPositive ==
  ASSUME NEW k \in Nat
  PROVE  power(k) \in Nat \ {0}
<1> DEFINE T == {i \in Nat : power(i) \in Nat \ {0}}
<1>1. 0 \in T
  BY PowerFacts
<1>2. ASSUME NEW i \in 1 .. k, i - 1 \in T
      PROVE  i \in T
  <2>1. i - 1 \in Nat /\ (i - 1) + 1 = i
    OBVIOUS
  <2>2. power(i) = power(i - 1) * Base
    BY <2>1, PowerFacts
  <2>3. power(i - 1) \in Nat \ {0}
    BY <1>2
  <2>4. PICK p \in Nat \ {0} : p = power(i - 1)
    BY <2>3
  <2>5. p * Base \in Nat \ {0}
    BY BufferAssumption
  <2> QED
    BY <2>2, <2>4, <2>5
<1>3. T \in SUBSET Nat
  OBVIOUS
<1> HIDE DEF T
<1>4. 0 .. k \subseteq T
  BY <1>1, <1>2, <1>3, SetInduction
<1>5. k \in T
  BY <1>4
<1> QED
  BY <1>5 DEF T

\* The recursion of toHost defines a function.
LEMMA HostFollows ==
  ASSUME NEW bytes \in Seq(Byte)
  PROVE  \E v \in [0 .. Len(bytes) -> Nat] :
           /\ toHost(bytes) = v[Len(bytes)]
           /\ v[0] = 0
           /\ \A i \in 1 .. Len(bytes) : v[i] = v[i - 1] * Base + bytes[i]
<1> DEFINE n == Len(bytes)
           h == [x \in (1 .. n) \X Nat |-> x[2] * Base + bytes[x[1]]]
           F == CHOOSE f : f = [i \in 0 .. n |-> IF i = 0 THEN 0 ELSE f[i - 1] * Base + bytes[i]]
<1>1. toHost(bytes) = F[n]
  BY DEF toHost
<1>2. n \in Nat /\ \A i \in 1 .. n : bytes[i] \in Nat
  BY BufferAssumption DEF Byte
<1> HIDE DEF n
<1>3. h \in [(1 .. n) \X Nat -> Nat]
  <2> SUFFICES ASSUME NEW x \in (1 .. n) \X Nat
               PROVE  x[2] * Base + bytes[x[1]] \in Nat
    OBVIOUS
  <2>1. PICK a \in Nat, c \in Nat, d \in Nat : a = x[2] /\ c = Base /\ d = bytes[x[1]]
    <3>1. x[1] \in 1 .. n /\ x[2] \in Nat /\ Base \in Nat
      BY BufferAssumption
    <3>2. bytes[x[1]] \in Nat
      BY <3>1, <1>2
    <3> QED
      BY <3>1, <3>2
  <2>2. a * c + d \in Nat
    OBVIOUS
  <2> QED
    BY <2>1, <2>2
<1>4. \A i \in 1 .. n : \A x \in Nat : h[<<i, x>>] = x * Base + bytes[i]
  OBVIOUS
<1> HIDE DEF h
<1>5. PICK g \in [0 .. n -> Nat] : Follows(g, n, 0, h)
  BY <1>2, <1>3, Recursion
<1>6. \A i \in 0 .. n : g[i] = IF i = 0 THEN 0 ELSE g[i - 1] * Base + bytes[i]
  <2>1. g[0] = 0
    BY <1>5 DEF Follows
  <2>2. ASSUME NEW i \in 1 .. n
        PROVE  g[i] = g[i - 1] * Base + bytes[i]
    <3>1. g[i - 1] \in Nat
      BY <1>2
    <3>2. g[i] = h[<<i, g[i - 1]>>]
      BY <1>5 DEF Follows
    <3> QED
      BY <3>1, <3>2, <1>4
  <2>3. \A i \in 0 .. n : i = 0 \/ i \in 1 .. n
    BY <1>2
  <2> QED
    BY <2>1, <2>2, <2>3
<1>7. g = [i \in 0 .. n |-> IF i = 0 THEN 0 ELSE g[i - 1] * Base + bytes[i]]
  BY <1>6
<1>8. F = [i \in 0 .. n |-> IF i = 0 THEN 0 ELSE F[i - 1] * Base + bytes[i]]
  BY <1>7
<1> HIDE DEF F
<1>9. F[0] = 0 /\ \A i \in 1 .. n : F[i] = F[i - 1] * Base + bytes[i]
  <2>1. 0 \in 0 .. n /\ \A i \in 1 .. n : i \in 0 .. n /\ i # 0
    BY <1>2
  <2>2. \A i \in 0 .. n : F[i] = IF i = 0 THEN 0 ELSE F[i - 1] * Base + bytes[i]
    BY <1>8, Zenon
  <2>3. F[0] = 0
    BY <2>1, <2>2
  <2>4. ASSUME NEW i \in 1 .. n
        PROVE  F[i] = F[i - 1] * Base + bytes[i]
    <3>1. i \in 0 .. n /\ i # 0
      BY <2>1
    <3> QED
      BY <3>1, <2>2
  <2> QED
    BY <2>3, <2>4
<1> DEFINE T == {i \in 0 .. n : F[i] \in Nat}
<1>10. 0 \in T
  BY <1>2, <1>9
<1>11. ASSUME NEW i \in 1 .. n, i - 1 \in T
       PROVE  i \in T
  <2>1. F[i - 1] \in Nat /\ bytes[i] \in Nat /\ i \in 0 .. n
    BY <1>2, <1>11
  <2>2. F[i] \in Nat
    <3>1. F[i] = F[i - 1] * Base + bytes[i]
      BY <1>9
    <3>2. PICK a \in Nat, c \in Nat, d \in Nat : a = F[i - 1] /\ c = Base /\ d = bytes[i]
      BY <2>1, BufferAssumption
    <3>3. a * c + d \in Nat
      OBVIOUS
    <3> QED
      BY <3>1, <3>2, <3>3
  <2> QED
    BY <2>1, <2>2
<1>12. T \in SUBSET Nat
  BY <1>2
<1> HIDE DEF T
<1>13. 0 .. n \subseteq T
  BY <1>2, <1>10, <1>11, <1>12, SetInduction
<1>14. F \in [0 .. n -> Nat]
  BY <1>8, <1>13 DEF T
<1> QED
  BY <1>1, <1>9, <1>14 DEF n

\* A number written in k bytes.
LEMMA NetworkFacts ==
  ASSUME NEW n \in Nat, NEW k \in Nat
  PROVE  /\ toNetwork(n, k) \in Seq(Byte) /\ Len(toNetwork(n, k)) = k
         /\ \A i \in 1 .. k : toNetwork(n, k)[i] = (n \div power(k - i)) % Base
<1>1. toNetwork(n, k) \in [1 .. k -> Byte]
  <2> SUFFICES ASSUME NEW i \in 1 .. k
               PROVE  (n \div power(k - i)) % Base \in Byte
    BY DEF toNetwork
  <2>1. k - i \in Nat
    OBVIOUS
  <2>2. PICK p \in Nat \ {0} : p = power(k - i)
    BY <2>1, PowerPositive
  <2>3. n \div p \in Nat
    BY DivFacts
  <2> QED
    BY <2>2, <2>3, BufferAssumption DEF Byte
<1>2. toNetwork(n, k) \in Seq(Byte)
  BY <1>1, SeqDef
<1>3. Len(toNetwork(n, k)) = k
  BY <1>1, <1>2
<1> QED
  BY <1>2, <1>3 DEF toNetwork

\* ntohl reads what htonl wrote.
LEMMA RoundTrip ==
  ASSUME NEW k \in Nat, NEW n \in 0 .. power(k) - 1
  PROVE  toHost(toNetwork(n, k)) = n
<1> DEFINE bytes == toNetwork(n, k)
<1>1. /\ n \in Nat /\ bytes \in Seq(Byte) /\ Len(bytes) = k
      /\ \A i \in 1 .. k : bytes[i] = (n \div power(k - i)) % Base
  <2>1. n \in Nat
    OBVIOUS
  <2> QED
    BY <2>1, NetworkFacts
<1> HIDE DEF bytes
<1>2. PICK v \in [0 .. k -> Nat] : /\ toHost(bytes) = v[k] /\ v[0] = 0
                                   /\ \A i \in 1 .. k : v[i] = v[i - 1] * Base + bytes[i]
  BY <1>1, HostFollows
<1> DEFINE T == {i \in 0 .. k : v[i] = n \div power(k - i)}
<1>3. 0 \in T
  <2>1. PICK p \in Nat \ {0} : p = power(k)
    BY PowerPositive
  <2>2. n = 0 * p + n /\ n \in 0 .. p - 1
    BY <2>1
  <2>3. n \div p = 0
    BY <2>2, <1>1, DivUnique
  <2>4. k - 0 = k
    OBVIOUS
  <2> QED
    BY <2>1, <2>3, <2>4, <1>2
<1>4. ASSUME NEW i \in 1 .. k, i - 1 \in T
      PROVE  i \in T
  <2>1. k - i \in Nat /\ k - (i - 1) = (k - i) + 1 /\ i \in 0 .. k
    OBVIOUS
  <2>2. PICK p \in Nat \ {0} : p = power(k - i)
    BY <2>1, PowerPositive
  <2>3. power(k - (i - 1)) = p * Base
    BY <2>1, <2>2, PowerFacts
  <2>4. v[i - 1] = n \div (p * Base)
    BY <2>3, <1>4
  <2>5. v[i] = v[i - 1] * Base + bytes[i] /\ bytes[i] = (n \div p) % Base
    BY <1>1, <1>2, <2>2
  <2>6. (n \div (p * Base)) * Base + ((n \div p) % Base) = n \div p
    <3>1. PICK c \in Nat \ {0} : c = Base
      BY BufferAssumption
    <3>2. (n \div (p * c)) * c + ((n \div p) % c) = n \div p
      BY <1>1, DivTwice, ZenonT(40)
    <3> QED
      BY <3>1, <3>2, Zenon
  <2>7. v[i] = n \div p
    BY <2>4, <2>5, <2>6
  <2> QED
    BY <2>1, <2>2, <2>7
<1>5. T \in SUBSET Nat
  OBVIOUS
<1> HIDE DEF T
<1>6. 0 .. k \subseteq T
  BY <1>3, <1>4, <1>5, SetInduction
<1>7. k \in T
  BY <1>6
<1>8. v[k] = n \div power(0)
  <2>1. k - k = 0
    OBVIOUS
  <2> QED
    BY <2>1, <1>7 DEF T
<1>9. power(0) = 1 /\ n \div 1 = n
  BY <1>1, PowerFacts
<1> QED
  BY <1>2, <1>8, <1>9 DEF bytes

\* The powers of a sum, and so the number of values of the two halves.
LEMMA PowerSum ==
  ASSUME NEW a \in Nat, NEW k \in Nat
  PROVE  power(a + k) = power(a) * power(k)
<1> DEFINE T == {i \in Nat : power(a + i) = power(a) * power(i)}
<1>0. power(0) = 1 /\ power(a) \in Nat
  BY PowerFacts
<1>1. 0 \in T
  <2>1. a + 0 = a /\ power(a) * 1 = power(a)
    BY <1>0
  <2> QED
    BY <1>0, <2>1
<1>2. ASSUME NEW i \in 1 .. k, i - 1 \in T
      PROVE  i \in T
  <2>1. i - 1 \in Nat /\ (i - 1) + 1 = i /\ a + (i - 1) \in Nat /\ (a + (i - 1)) + 1 = a + i /\ i \in Nat
    OBVIOUS
  <2>2. power(i) = power(i - 1) * Base /\ power(i - 1) \in Nat
    BY <2>1, PowerFacts
  <2>3. power(a + i) = power(a + (i - 1)) * Base
    BY <2>1, PowerFacts
  <2>4. power(a + (i - 1)) = power(a) * power(i - 1)
    BY <1>2
  <2>5. PICK p \in Nat, q \in Nat : p = power(a) /\ q = power(i - 1)
    BY <1>0, <2>2
  <2>6. (p * q) * Base = p * (q * Base)
    BY BufferAssumption
  <2> QED
    BY <2>1, <2>2, <2>3, <2>4, <2>5, <2>6
<1>3. T \in SUBSET Nat
  OBVIOUS
<1> HIDE DEF T
<1>4. 0 .. k \subseteq T
  BY <1>1, <1>2, <1>3, SetInduction
<1>5. k \in T
  BY <1>4
<1> QED
  BY <1>5 DEF T

\* Each half of a sequence number fits its bytes.
LEMMA HalfFits ==
  ASSUME NEW n \in 0 .. power(2 * HalfBytes) - 1
  PROVE  /\ n \div power(HalfBytes) \in 0 .. power(HalfBytes) - 1
         /\ n % power(HalfBytes) \in 0 .. power(HalfBytes) - 1
         /\ (n \div power(HalfBytes)) * power(HalfBytes) + (n % power(HalfBytes)) = n
<1>1. HalfBytes \in Nat /\ 2 * HalfBytes = HalfBytes + HalfBytes
  BY CodecAssumption
<1>2. PICK p \in Nat \ {0} : p = power(HalfBytes)
  BY <1>1, PowerPositive
<1>3. power(2 * HalfBytes) = p * p
  BY <1>1, <1>2, PowerSum
<1>4. n \in Nat /\ n < p * p
  BY <1>3
<1>5. PICK q \in Nat : q = n \div p
  BY <1>4, DivFacts
<1>6. PICK r \in 0 .. p - 1 : r = n % p /\ n = q * p + r
  BY <1>4, <1>5, DivFacts, ZenonT(40)
<1>7. q < p
  <2> SUFFICES ASSUME ~ (q < p)
               PROVE  FALSE
    OBVIOUS
  <2>1. q = p \/ p < q
    OBVIOUS
  <2>2. p * p <= q * p
    <3>1. CASE q = p
      BY <3>1
    <3>2. CASE p < q
      <4>1. p * p + p <= q * p
        BY <3>2, ProductGrows
      <4>2. p * p \in Nat /\ q * p \in Nat
        OBVIOUS
      <4> QED
        BY <4>1, <4>2
    <3> QED
      BY <3>1, <3>2, <2>1
  <2>3. p * p \in Nat /\ q * p \in Nat
    OBVIOUS
  <2> QED
    BY <2>2, <2>3, <1>4, <1>6
<1> QED
  BY <1>2, <1>5, <1>6, <1>7

-----------------------------------------------------------------------------
(***************************************************************************)
(* FrameCodec: the parts of a header.                                      *)
(***************************************************************************)

\* The k elements that follow the first from.
piece(s, from, k) == SubSeq(s, from + 1, from + k)

\* A piece of the first part of a concatenation.
LEMMA FrontPiece ==
  ASSUME NEW s \in Seq(Byte), NEW t \in Seq(Byte), NEW from \in Nat, NEW k \in Nat,
         from + k <= Len(s)
  PROVE  piece(s \o t, from, k) = piece(s, from, k)
<1> DEFINE x == piece(s \o t, from, k)
           y == piece(s, from, k)
<1>1. y \in Seq(Byte) /\ Len(y) = k /\ \A i \in 1 .. k : y[i] = s[from + i]
  <2>1. PICK m \in Nat : m = from + k
    OBVIOUS
  <2> QED
    BY <2>1, SubSeqFacts DEF piece
<1>2. /\ s \o t \in Seq(Byte) /\ Len(s \o t) = Len(s) + Len(t)
      /\ \A i \in 1 .. Len(s) : (s \o t)[i] = s[i]
  OBVIOUS
<1>3. from + k <= Len(s \o t)
  BY <1>2
<1>4. x \in Seq(Byte) /\ Len(x) = k /\ \A i \in 1 .. k : x[i] = (s \o t)[from + i]
  BY <1>2, <1>3 DEF piece
<1>5. \A i \in 1 .. k : from + i \in 1 .. Len(s)
  OBVIOUS
<1>6. \A i \in 1 .. k : x[i] = y[i]
  BY <1>1, <1>2, <1>4, <1>5
<1> HIDE DEF x, y
<1>7. x = y
  BY <1>1, <1>4, <1>6, SeqEqual
<1> QED
  BY <1>7 DEF x, y

\* The second part of a concatenation.
LEMMA LastPiece ==
  ASSUME NEW s \in Seq(Byte), NEW t \in Seq(Byte)
  PROVE  piece(s \o t, Len(s), Len(t)) = t
<1> DEFINE x == piece(s \o t, Len(s), Len(t))
<1>1. /\ s \o t \in Seq(Byte) /\ Len(s \o t) = Len(s) + Len(t)
      /\ \A i \in 1 .. Len(t) : (s \o t)[Len(s) + i] = t[i]
  OBVIOUS
<1>2. x \in Seq(Byte) /\ Len(x) = Len(t) /\ \A i \in 1 .. Len(t) : x[i] = (s \o t)[Len(s) + i]
  BY <1>1 DEF piece
<1>3. \A i \in 1 .. Len(t) : x[i] = t[i]
  BY <1>1, <1>2
<1> HIDE DEF x
<1>4. x = t
  BY <1>2, <1>3, SeqEqual
<1> QED
  BY <1>4 DEF x

\* The fields of a header are where parseHeader looks for them.
LEMMA HeaderFacts ==
  ASSUME NEW n \in Nat, NEW f, IsFrame(f)
  PROVE  /\ writeHeader(n, f) \in Seq(Byte) /\ Len(writeHeader(n, f)) = kHeaderSize
         /\ piece(writeHeader(n, f), 0, LenBytes) = toNetwork(n, LenBytes)
         /\ piece(writeHeader(n, f), LenBytes, IdBytes) = toNetwork(f.id, IdBytes)
         /\ piece(writeHeader(n, f), LenBytes + IdBytes, FlagBytes) = toNetwork(f.flags, FlagBytes)
         /\ piece(writeHeader(n, f), LenBytes + IdBytes + FlagBytes, HalfBytes)
              = toNetwork(f.seq \div power(HalfBytes), HalfBytes)
         /\ piece(writeHeader(n, f), LenBytes + IdBytes + FlagBytes + HalfBytes, HalfBytes)
              = toNetwork(f.seq % power(HalfBytes), HalfBytes)
<1> DEFINE A == toNetwork(n, LenBytes)
           B == toNetwork(f.id, IdBytes)
           C == toNetwork(f.flags, FlagBytes)
           D == toNetwork(f.seq \div power(HalfBytes), HalfBytes)
           E == toNetwork(f.seq % power(HalfBytes), HalfBytes)
<1>1. LenBytes \in Nat /\ IdBytes \in Nat /\ FlagBytes \in Nat /\ HalfBytes \in Nat
  BY CodecAssumption
<1>2. f.id \in Nat /\ f.flags \in Nat
  BY DEF IsFrame
<1>3. f.seq \div power(HalfBytes) \in Nat /\ f.seq % power(HalfBytes) \in Nat
  <2>1. /\ f.seq \div power(HalfBytes) \in 0 .. power(HalfBytes) - 1
        /\ f.seq % power(HalfBytes) \in 0 .. power(HalfBytes) - 1
    BY HalfFits DEF IsFrame
  <2> QED
    BY <2>1
<1>4. A \in Seq(Byte) /\ Len(A) = LenBytes
  BY <1>1, NetworkFacts
<1>5. B \in Seq(Byte) /\ Len(B) = IdBytes
  BY <1>1, <1>2, NetworkFacts
<1>6. C \in Seq(Byte) /\ Len(C) = FlagBytes
  BY <1>1, <1>2, NetworkFacts
<1>7. D \in Seq(Byte) /\ Len(D) = HalfBytes
  BY <1>1, <1>3, NetworkFacts
<1>8. E \in Seq(Byte) /\ Len(E) = HalfBytes
  BY <1>1, <1>3, NetworkFacts
<1>9. writeHeader(n, f) = A \o B \o C \o D \o E
  BY DEF writeHeader
<1> HIDE DEF A, B, C, D, E
<1> DEFINE s2 == A \o B
           s3 == s2 \o C
           s4 == s3 \o D
           s5 == s4 \o E
<1>10. s2 \in Seq(Byte) /\ Len(s2) = LenBytes + IdBytes
  BY <1>4, <1>5
<1>11. piece(s2, LenBytes, IdBytes) = B /\ piece(s2, 0, LenBytes) = A
  <2>1. piece(s2, LenBytes, IdBytes) = B
    BY <1>4, <1>5, LastPiece
  <2>2. piece(s2, 0, LenBytes) = piece(A, 0, LenBytes)
    <3>1. 0 + LenBytes <= Len(A) /\ 0 \in Nat
      BY <1>1, <1>4
    <3> QED
      BY <3>1, <1>1, <1>4, <1>5, FrontPiece
  <2>3. piece(A, 0, LenBytes) = A
    <3>1. 0 + 1 = 1 /\ 0 + LenBytes = Len(A)
      BY <1>1, <1>4
    <3>2. SubSeq(A, 1, Len(A)) = A
      BY <1>4, SubSeqFull
    <3> QED
      BY <3>1, <3>2 DEF piece
  <2> QED
    BY <2>1, <2>2, <2>3
<1> HIDE DEF s2
<1>12. s3 \in Seq(Byte) /\ Len(s3) = LenBytes + IdBytes + FlagBytes
  BY <1>6, <1>10
<1>13. piece(s3, LenBytes + IdBytes, FlagBytes) = C
  BY <1>6, <1>10, LastPiece
<1>14. \A from, k \in Nat : from + k <= LenBytes + IdBytes => piece(s3, from, k) = piece(s2, from, k)
  BY <1>6, <1>10, FrontPiece
<1> HIDE DEF s3
<1>15. s4 \in Seq(Byte) /\ Len(s4) = LenBytes + IdBytes + FlagBytes + HalfBytes
  BY <1>7, <1>12
<1>16. piece(s4, LenBytes + IdBytes + FlagBytes, HalfBytes) = D
  BY <1>7, <1>12, LastPiece
<1>17. \A from, k \in Nat : from + k <= LenBytes + IdBytes + FlagBytes
                             => piece(s4, from, k) = piece(s3, from, k)
  BY <1>7, <1>12, FrontPiece
<1> HIDE DEF s4
<1>18. s5 \in Seq(Byte) /\ Len(s5) = kHeaderSize
  BY <1>1, <1>8, <1>15 DEF kHeaderSize
<1>19. piece(s5, LenBytes + IdBytes + FlagBytes + HalfBytes, HalfBytes) = E
  BY <1>8, <1>15, LastPiece
<1>20. \A from, k \in Nat : from + k <= LenBytes + IdBytes + FlagBytes + HalfBytes
                             => piece(s5, from, k) = piece(s4, from, k)
  BY <1>8, <1>15, FrontPiece
<1>21. writeHeader(n, f) = s5
  BY <1>9 DEF s2, s3, s4
<1> HIDE DEF s5
<1>22. piece(s5, 0, LenBytes) = A
  <2>1. /\ 0 \in Nat /\ 0 + LenBytes <= LenBytes + IdBytes
        /\ 0 + LenBytes <= LenBytes + IdBytes + FlagBytes
        /\ 0 + LenBytes <= LenBytes + IdBytes + FlagBytes + HalfBytes
    BY <1>1
  <2> QED
    BY <2>1, <1>1, <1>11, <1>14, <1>17, <1>20
<1>23. piece(s5, LenBytes, IdBytes) = B
  <2>1. /\ LenBytes + IdBytes <= LenBytes + IdBytes
        /\ LenBytes + IdBytes <= LenBytes + IdBytes + FlagBytes
        /\ LenBytes + IdBytes <= LenBytes + IdBytes + FlagBytes + HalfBytes
    BY <1>1
  <2> QED
    BY <2>1, <1>1, <1>11, <1>14, <1>17, <1>20
<1>24. piece(s5, LenBytes + IdBytes, FlagBytes) = C
  <2>1. /\ LenBytes + IdBytes \in Nat
        /\ (LenBytes + IdBytes) + FlagBytes <= LenBytes + IdBytes + FlagBytes
        /\ (LenBytes + IdBytes) + FlagBytes <= LenBytes + IdBytes + FlagBytes + HalfBytes
    BY <1>1
  <2> QED
    BY <2>1, <1>1, <1>13, <1>17, <1>20
<1>25. piece(s5, LenBytes + IdBytes + FlagBytes, HalfBytes) = D
  <2>1. /\ LenBytes + IdBytes + FlagBytes \in Nat
        /\ (LenBytes + IdBytes + FlagBytes) + HalfBytes
             <= LenBytes + IdBytes + FlagBytes + HalfBytes
    BY <1>1
  <2> QED
    BY <2>1, <1>1, <1>16, <1>20
<1> QED
  BY <1>18, <1>19, <1>21, <1>22, <1>23, <1>24, <1>25 DEF A, B, C, D, E

LEMMA HeaderSize == kHeaderSize \in Nat \ {0} /\ LenBytes \in 1 .. kHeaderSize /\ kMaxPayload \in Nat
  BY CodecAssumption DEF kHeaderSize

\* The fields of the header at the front of a buffer are numbers.
LEMMA FieldFacts ==
  ASSUME NEW b, IsBuffer(b), readable(b) >= kHeaderSize
  PROVE  totalLength(b) \in Nat
<1>1. contents(b) \in Seq(Byte) /\ Len(contents(b)) >= kHeaderSize
  BY ContentsFacts
<1>2. field(b, 0, LenBytes) \in Seq(Byte)
  <2>1. LenBytes \in Nat /\ kHeaderSize \in Nat /\ LenBytes <= kHeaderSize
    BY HeaderSize
  <2>2. 0 + LenBytes = LenBytes /\ 0 + 1 = 1
    BY <2>1
  <2>3. SubSeq(contents(b), 1, LenBytes) \in Seq(Byte)
    BY <2>1, <1>1
  <2> QED
    BY <2>2, <2>3 DEF field
<1>3. PICK x \in Seq(Byte) : x = field(b, 0, LenBytes)
  BY <1>2
<1>4. PICK v \in [0 .. Len(x) -> Nat] : toHost(x) = v[Len(x)]
  BY HostFollows
<1>5. Len(x) \in 0 .. Len(x)
  OBVIOUS
<1> QED
  BY <1>3, <1>4, <1>5 DEF totalLength

\* A frame is never taken beyond what is in the buffer.
LEMMA AfterDecodeFacts ==
  ASSUME NEW b, IsBuffer(b), decodeReturns(b)
  PROVE  /\ totalLength(b) \in Nat /\ kHeaderSize <= totalLength(b) /\ totalLength(b) <= readable(b)
         /\ IsBuffer(afterDecode(b)) /\ afterDecode(b).cap = b.cap
         /\ contents(afterDecode(b)) = SubSeq(contents(b), totalLength(b) + 1, Len(contents(b)))
<1>0. PICK l \in Nat : l = totalLength(b)
  BY FieldFacts DEF decodeReturns
<1>1. /\ kHeaderSize \in Nat /\ kHeaderSize <= l /\ l <= readable(b) /\ kHeaderSize <= readable(b)
  BY <1>0, HeaderSize, ContentsFacts DEF decodeReturns, decodeThrows
<1>2. /\ readable(b) \in Nat /\ contents(b) \in Seq(Byte) /\ Len(contents(b)) = readable(b)
  BY ContentsFacts
<1> DEFINE c == skip(b, kHeaderSize)
           k == l - kHeaderSize
           d == skip(c, k)
<1>3. /\ IsBuffer(c) /\ readable(c) = readable(b) - kHeaderSize /\ c.cap = b.cap
      /\ contents(c) = SubSeq(contents(b), kHeaderSize + 1, Len(contents(b)))
  BY <1>1, SkipFacts
<1> HIDE DEF c
<1>4. k \in Nat /\ k <= readable(c)
  BY <1>1, <1>2, <1>3
<1>5. /\ IsBuffer(d) /\ d.cap = c.cap
      /\ contents(d) = SubSeq(contents(c), k + 1, Len(contents(c)))
  BY <1>3, <1>4, SkipFacts
<1>6. /\ contents(c) \in Seq(Byte) /\ Len(contents(c)) = readable(b) - kHeaderSize
      /\ \A i \in 1 .. readable(b) - kHeaderSize : contents(c)[i] = contents(b)[kHeaderSize + i]
  BY <1>1, <1>2, <1>3
<1> DEFINE x == SubSeq(contents(c), k + 1, Len(contents(c)))
           y == SubSeq(contents(b), l + 1, Len(contents(b)))
<1>7. /\ y \in Seq(Byte) /\ Len(y) = readable(b) - l
      /\ \A i \in 1 .. readable(b) - l : y[i] = contents(b)[l + i]
  BY <1>1, <1>2
<1>8. /\ x \in Seq(Byte) /\ Len(x) = readable(b) - l
      /\ \A i \in 1 .. readable(b) - l : x[i] = contents(c)[k + i]
  BY <1>1, <1>2, <1>6
<1>9. ASSUME NEW i \in 1 .. readable(b) - l
      PROVE  x[i] = y[i]
  <2>1. k + i \in 1 .. readable(b) - kHeaderSize /\ kHeaderSize + (k + i) = l + i
    BY <1>1, <1>2
  <2> HIDE DEF x, y, k
  <2> QED
    BY <2>1, <1>6, <1>7, <1>8
<1> HIDE DEF x, y
<1>10. x = y
  BY <1>7, <1>8, <1>9, SeqEqual
<1>11. afterDecode(b) = d
  BY <1>0 DEF afterDecode, c
<1> QED
  BY <1>0, <1>1, <1>3, <1>5, <1>10, <1>11 DEF x, y

\* Two ways to cut the same bytes.
SameBytes(s, t, x, y) == s \o t = x \o y

\* decode reads the header that writeHeader wrote, whatever follows it.
LEMMA ParsesHeader ==
  ASSUME NEW b, IsBuffer(b), NEW n \in 0 .. power(LenBytes) - 1, NEW f, IsFrame(f),
         NEW t \in Seq(Byte), NEW y \in Seq(Byte),
         SameBytes(contents(b), t, writeHeader(n, f), y), readable(b) >= kHeaderSize
  PROVE  /\ totalLength(b) = n
         /\ \A d : parsed(b, d) = [id |-> f.id, flags |-> f.flags, seq |-> f.seq, payload |-> d]
<1> DEFINE hd == writeHeader(n, f)
           D == f.seq \div power(HalfBytes)
           E == f.seq % power(HalfBytes)
<1>1. LenBytes \in Nat /\ IdBytes \in Nat /\ FlagBytes \in Nat /\ HalfBytes \in Nat
  BY CodecAssumption
<1>2. /\ hd \in Seq(Byte) /\ Len(hd) = kHeaderSize
      /\ piece(hd, 0, LenBytes) = toNetwork(n, LenBytes)
      /\ piece(hd, LenBytes, IdBytes) = toNetwork(f.id, IdBytes)
      /\ piece(hd, LenBytes + IdBytes, FlagBytes) = toNetwork(f.flags, FlagBytes)
      /\ piece(hd, LenBytes + IdBytes + FlagBytes, HalfBytes) = toNetwork(D, HalfBytes)
      /\ piece(hd, LenBytes + IdBytes + FlagBytes + HalfBytes, HalfBytes) = toNetwork(E, HalfBytes)
  <2>1. n \in Nat
    OBVIOUS
  <2> QED
    BY <2>1, HeaderFacts
<1>3. contents(b) \in Seq(Byte) /\ Len(contents(b)) >= kHeaderSize
  BY ContentsFacts
<1> HIDE DEF hd
<1>4. ASSUME NEW from \in Nat, NEW k \in Nat, from + k <= kHeaderSize
      PROVE  field(b, from, k) = piece(hd, from, k)
  <2>1. from + k <= Len(contents(b)) /\ from + k <= Len(hd)
    BY <1>2, <1>3, <1>4, HeaderSize
  <2>2. contents(b) \o t = hd \o y
    BY DEF hd, SameBytes
  <2>3. piece(contents(b), from, k) = piece(hd, from, k)
    <3>1. piece(contents(b) \o t, from, k) = piece(contents(b), from, k)
      BY <2>1, <1>3, FrontPiece
    <3>2. piece(hd \o y, from, k) = piece(hd, from, k)
      BY <2>1, <1>2, FrontPiece
    <3> QED
      BY <3>1, <3>2, <2>2
  <2> QED
    BY <2>3 DEF field, piece
<1>5. /\ D \in 0 .. power(HalfBytes) - 1 /\ E \in 0 .. power(HalfBytes) - 1
      /\ D * power(HalfBytes) + E = f.seq
  BY HalfFits DEF IsFrame
<1> HIDE DEF D, E
<1>6. toHost(field(b, 0, LenBytes)) = n
  <2>1. 0 \in Nat /\ 0 + LenBytes <= kHeaderSize
    BY <1>1 DEF kHeaderSize
  <2>2. field(b, 0, LenBytes) = toNetwork(n, LenBytes)
    BY <2>1, <1>1, <1>2, <1>4
  <2> QED
    BY <2>2, <1>1, RoundTrip
<1>7. toHost(field(b, LenBytes, IdBytes)) = f.id
  <2>1. LenBytes + IdBytes <= kHeaderSize
    BY <1>1 DEF kHeaderSize
  <2>2. field(b, LenBytes, IdBytes) = toNetwork(f.id, IdBytes)
    BY <2>1, <1>1, <1>2, <1>4
  <2>3. f.id \in 0 .. power(IdBytes) - 1
    BY DEF IsFrame
  <2> QED
    BY <2>2, <2>3, <1>1, RoundTrip
<1>8. toHost(field(b, LenBytes + IdBytes, FlagBytes)) = f.flags
  <2>1. LenBytes + IdBytes \in Nat /\ (LenBytes + IdBytes) + FlagBytes <= kHeaderSize
    BY <1>1 DEF kHeaderSize
  <2>2. field(b, LenBytes + IdBytes, FlagBytes) = toNetwork(f.flags, FlagBytes)
    BY <2>1, <1>1, <1>2, <1>4
  <2>3. f.flags \in 0 .. power(FlagBytes) - 1
    BY DEF IsFrame
  <2> QED
    BY <2>2, <2>3, <1>1, RoundTrip
<1>9. toHost(field(b, LenBytes + IdBytes + FlagBytes, HalfBytes)) = D
  <2>1. /\ LenBytes + IdBytes + FlagBytes \in Nat
        /\ (LenBytes + IdBytes + FlagBytes) + HalfBytes <= kHeaderSize
    BY <1>1 DEF kHeaderSize
  <2>2. field(b, LenBytes + IdBytes + FlagBytes, HalfBytes) = toNetwork(D, HalfBytes)
    BY <2>1, <1>1, <1>2, <1>4
  <2> QED
    BY <2>2, <1>1, <1>5, RoundTrip
<1>10. toHost(field(b, LenBytes + IdBytes + FlagBytes + HalfBytes, HalfBytes)) = E
  <2>1. /\ LenBytes + IdBytes + FlagBytes + HalfBytes \in Nat
        /\ (LenBytes + IdBytes + FlagBytes + HalfBytes) + HalfBytes <= kHeaderSize
    BY <1>1 DEF kHeaderSize
  <2>2. field(b, LenBytes + IdBytes + FlagBytes + HalfBytes, HalfBytes) = toNetwork(E, HalfBytes)
    BY <2>1, <1>1, <1>2, <1>4
  <2> QED
    BY <2>2, <1>1, <1>5, RoundTrip
<1>11. totalLength(b) = n
  BY <1>6 DEF totalLength
<1>12. \A d : parsed(b, d) = [id |-> f.id, flags |-> f.flags, seq |-> f.seq, payload |-> d]
  BY <1>5, <1>7, <1>8, <1>9, <1>10 DEF parsed
<1> QED
  BY <1>11, <1>12

\* The bytes of a frame.
LEMMA EncodeFacts ==
  ASSUME NEW f, IsFrame(f)
  PROVE  /\ encode(f) \in Seq(Byte) /\ Len(encode(f)) = kHeaderSize + Len(f.payload)
         /\ encode(f) = writeHeader(kHeaderSize + Len(f.payload), f) \o f.payload
         /\ f.payload \in Seq(Byte) /\ kHeaderSize + Len(f.payload) \in Nat
<1>1. f.payload \in Seq(Byte) /\ Len(f.payload) \in Nat
  BY DEF IsFrame
<1>2. PICK n \in Nat : n = kHeaderSize + Len(f.payload)
  BY <1>1, HeaderSize
<1>3. writeHeader(n, f) \in Seq(Byte) /\ Len(writeHeader(n, f)) = kHeaderSize
  BY HeaderFacts
<1>4. encode(f) = writeHeader(n, f) \o f.payload
  BY <1>2 DEF encode
<1>5. encode(f) \in Seq(Byte) /\ Len(encode(f)) = kHeaderSize + Len(f.payload)
  <2>1. PICK h \in Seq(Byte), p \in Seq(Byte) : h = writeHeader(n, f) /\ p = f.payload
    BY <1>1, <1>3
  <2>2. h \o p \in Seq(Byte) /\ Len(h \o p) = Len(h) + Len(p)
    OBVIOUS
  <2> QED
    BY <2>1, <2>2, <1>3, <1>4
<1> QED
  BY <1>1, <1>2, <1>4, <1>5

\* Decoding a buffer that begins with a frame gives the frame and leaves what follows it.
LEMMA DecodesFrame ==
  ASSUME NEW b, IsBuffer(b), decodeReturns(b), NEW f, IsFrame(f), encodes(f),
         NEW t \in Seq(Byte), NEW y \in Seq(Byte), SameBytes(contents(b), t, encode(f), y)
  PROVE  decoded(b) = f /\ contents(b) = encode(f) \o contents(afterDecode(b))
<1> DEFINE n == kHeaderSize + Len(f.payload)
           hd == writeHeader(n, f)
<1>0. encode(f) = hd \o f.payload
  BY EncodeFacts
<1>1. /\ encode(f) \in Seq(Byte) /\ Len(encode(f)) = n
      /\ f.payload \in Seq(Byte) /\ n \in Nat
  BY EncodeFacts
<1>2. n \in 0 .. power(LenBytes) - 1
  <2>1. Len(f.payload) \in Nat /\ Len(f.payload) <= kMaxPayload
    BY <1>1 DEF encodes
  <2>2. power(LenBytes) \in Nat
    BY CodecAssumption, PowerPositive
  <2> QED
    BY <2>1, <2>2, <1>1, LengthFits, HeaderSize
<1>3. hd \in Seq(Byte) /\ Len(hd) = kHeaderSize
  BY <1>1, HeaderFacts
<1> HIDE DEF n, hd
<1>4. readable(b) >= kHeaderSize
  BY DEF decodeReturns
<1>5. PICK p \in Seq(Byte), e \in Seq(Byte) : p = f.payload /\ e = hd
  BY <1>1, <1>3
<1>6. PICK z \in Seq(Byte) : z = p \o y /\ SameBytes(contents(b), t, hd, z)
  <2>1. (e \o p) \o y = e \o (p \o y) /\ p \o y \in Seq(Byte)
    BY Concats, Zenon
  <2> QED
    BY <2>1, <1>0, <1>5 DEF SameBytes
<1>7. /\ totalLength(b) = n
      /\ \A d : parsed(b, d) = [id |-> f.id, flags |-> f.flags, seq |-> f.seq, payload |-> d]
  <2>1. SameBytes(contents(b), t, writeHeader(n, f), z)
    BY <1>6 DEF hd
  <2> QED
    BY <2>1, <1>2, <1>4, ParsesHeader
<1>8. /\ n <= readable(b)
      /\ contents(afterDecode(b)) = SubSeq(contents(b), n + 1, Len(contents(b)))
  BY <1>7, AfterDecodeFacts
<1>9. contents(b) \in Seq(Byte) /\ Len(contents(b)) = readable(b) /\ readable(b) \in Nat
  BY ContentsFacts
<1>10. field(b, kHeaderSize, n - kHeaderSize) = f.payload
  <2>1. /\ n - kHeaderSize = Len(f.payload) /\ n - kHeaderSize \in Nat /\ kHeaderSize \in Nat
        /\ kHeaderSize + (n - kHeaderSize) = n
    BY <1>1, HeaderSize DEF n
  <2>2. piece(contents(b), kHeaderSize, n - kHeaderSize) = piece(encode(f), kHeaderSize, n - kHeaderSize)
    <3>1. kHeaderSize + (n - kHeaderSize) <= Len(contents(b)) /\ kHeaderSize + (n - kHeaderSize) <= Len(encode(f))
      BY <2>1, <1>1, <1>8, <1>9
    <3>2. piece(contents(b) \o t, kHeaderSize, n - kHeaderSize)
            = piece(contents(b), kHeaderSize, n - kHeaderSize)
      BY <3>1, <2>1, <1>9, FrontPiece
    <3>3. piece(encode(f) \o y, kHeaderSize, n - kHeaderSize)
            = piece(encode(f), kHeaderSize, n - kHeaderSize)
      BY <3>1, <2>1, <1>1, FrontPiece
    <3> QED
      BY <3>2, <3>3 DEF SameBytes
  <2>3. piece(encode(f), kHeaderSize, n - kHeaderSize) = f.payload
    <3>1. piece(e \o p, Len(e), Len(p)) = p
      BY LastPiece, Zenon
    <3> QED
      BY <3>1, <2>1, <1>0, <1>3, <1>5, Zenon
  <2> QED
    BY <2>2, <2>3 DEF piece, field
<1>11. decoded(b) = f
  <2>1. decoded(b) = parsed(b, f.payload)
    BY <1>7, <1>10 DEF decoded
  <2> QED
    BY <2>1, <1>7 DEF IsFrame
<1>12. SubSeq(contents(b), 1, n) = encode(f)
  <2>1. 0 + 1 = 1 /\ 0 + n = n /\ 0 + n <= Len(contents(b)) /\ 0 + n <= Len(encode(f)) /\ 0 \in Nat
    BY <1>1, <1>8, <1>9
  <2>2. piece(contents(b), 0, n) = piece(encode(f), 0, n)
    <3>1. piece(contents(b) \o t, 0, n) = piece(contents(b), 0, n)
      BY <2>1, <1>1, <1>9, FrontPiece
    <3>2. piece(encode(f) \o y, 0, n) = piece(encode(f), 0, n)
      BY <2>1, <1>1, FrontPiece
    <3> QED
      BY <3>1, <3>2 DEF SameBytes
  <2>3. SubSeq(encode(f), 1, Len(encode(f))) = encode(f)
    BY <1>1, SubSeqFull
  <2> QED
    BY <2>1, <2>2, <2>3, <1>1 DEF piece
<1>13. SubSeq(contents(b), 1, n) \o SubSeq(contents(b), n + 1, Len(contents(b)))
         = SubSeq(contents(b), 1, Len(contents(b)))
  <2>1. 1 \in 1 .. Len(contents(b)) + 1 /\ n \in 1 - 1 .. Len(contents(b))
        /\ Len(contents(b)) \in n .. Len(contents(b))
    BY <1>1, <1>8, <1>9
  <2> QED
    BY <2>1, <1>9, ConcatAdjacentSubSeq
<1>14. SubSeq(contents(b), 1, Len(contents(b))) = contents(b)
  BY <1>9, SubSeqFull
<1> QED
  BY <1>8, <1>11, <1>12, <1>13, <1>14

\* Every frame that the peer may send is one.
LEMMA FrameFacts ==
  ASSUME NEW f \in Frames
  PROVE  IsFrame(f) /\ encodes(f) /\ encode(f) \in Seq(Byte)
<1>1. IsFrame(f) /\ encodes(f)
  BY StreamAssumption
<1> QED
  BY <1>1, EncodeFacts

\* The recursion of encodeAll defines a function.
LEMMA EncodeAllFollows ==
  ASSUME NEW fs \in Seq(Frames)
  PROVE  \E v \in [0 .. Len(fs) -> Seq(Byte)] :
           /\ encodeAll(fs) = v[Len(fs)]
           /\ v[0] = <<>>
           /\ \A i \in 1 .. Len(fs) : v[i] = v[i - 1] \o encode(fs[i])
<1> DEFINE n == Len(fs)
           h == [x \in (1 .. n) \X Seq(Byte) |-> x[2] \o encode(fs[x[1]])]
           F == CHOOSE f : f = [i \in 0 .. n |-> IF i = 0 THEN <<>> ELSE f[i - 1] \o encode(fs[i])]
<1>1. encodeAll(fs) = F[n]
  BY DEF encodeAll
<1>2. n \in Nat /\ \A i \in 1 .. n : fs[i] \in Frames
  OBVIOUS
<1> HIDE DEF n
<1>3. \A i \in 1 .. n : encode(fs[i]) \in Seq(Byte)
  BY <1>2, FrameFacts
<1>4. <<>> \in Seq(Byte) /\ \A s, t \in Seq(Byte) : s \o t \in Seq(Byte)
  OBVIOUS
<1>5. h \in [(1 .. n) \X Seq(Byte) -> Seq(Byte)]
  <2> SUFFICES ASSUME NEW x \in (1 .. n) \X Seq(Byte)
               PROVE  x[2] \o encode(fs[x[1]]) \in Seq(Byte)
    OBVIOUS
  <2>1. x[2] \in Seq(Byte) /\ encode(fs[x[1]]) \in Seq(Byte)
    BY <1>3
  <2> QED
    BY <2>1, <1>4
<1>6. \A i \in 1 .. n : \A s \in Seq(Byte) : h[<<i, s>>] = s \o encode(fs[i])
  OBVIOUS
<1> HIDE DEF h
<1>7. PICK g \in [0 .. n -> Seq(Byte)] : Follows(g, n, <<>>, h)
  BY <1>2, <1>4, <1>5, Recursion
<1>8. \A i \in 0 .. n : g[i] = IF i = 0 THEN <<>> ELSE g[i - 1] \o encode(fs[i])
  <2>1. g[0] = <<>>
    BY <1>7 DEF Follows
  <2>2. ASSUME NEW i \in 1 .. n
        PROVE  g[i] = g[i - 1] \o encode(fs[i])
    <3>1. g[i - 1] \in Seq(Byte)
      BY <1>2
    <3>2. g[i] = h[<<i, g[i - 1]>>]
      BY <1>7 DEF Follows
    <3> QED
      BY <3>1, <3>2, <1>6
  <2>3. \A i \in 0 .. n : i = 0 \/ i \in 1 .. n
    BY <1>2
  <2> QED
    BY <2>1, <2>2, <2>3
<1>9. g = [i \in 0 .. n |-> IF i = 0 THEN <<>> ELSE g[i - 1] \o encode(fs[i])]
  BY <1>8, Zenon
<1>10. F = [i \in 0 .. n |-> IF i = 0 THEN <<>> ELSE F[i - 1] \o encode(fs[i])]
  BY <1>9, Zenon
<1> HIDE DEF F
<1>11. F[0] = <<>> /\ \A i \in 1 .. n : F[i] = F[i - 1] \o encode(fs[i])
  <2>1. 0 \in 0 .. n /\ \A i \in 1 .. n : i \in 0 .. n /\ i # 0
    BY <1>2
  <2>2. \A i \in 0 .. n : F[i] = IF i = 0 THEN <<>> ELSE F[i - 1] \o encode(fs[i])
    BY <1>10, Zenon
  <2>3. F[0] = <<>>
    BY <2>1, <2>2
  <2>4. ASSUME NEW i \in 1 .. n
        PROVE  F[i] = F[i - 1] \o encode(fs[i])
    <3>1. i \in 0 .. n /\ i # 0
      BY <2>1
    <3> QED
      BY <3>1, <2>2
  <2> QED
    BY <2>3, <2>4
<1> DEFINE T == {i \in 0 .. n : F[i] \in Seq(Byte)}
<1>12. 0 \in T
  <2>1. 0 \in 0 .. n
    BY <1>2
  <2>2. F[0] \in Seq(Byte)
    BY <1>4, <1>11
  <2> QED
    BY <2>1, <2>2
<1>13. ASSUME NEW i \in 1 .. n, i - 1 \in T
       PROVE  i \in T
  <2>1. F[i - 1] \in Seq(Byte) /\ encode(fs[i]) \in Seq(Byte) /\ i \in 0 .. n
    BY <1>2, <1>3, <1>13
  <2>2. F[i] \in Seq(Byte)
    BY <2>1, <1>4, <1>11
  <2> QED
    BY <2>1, <2>2
<1>14. T \in SUBSET Nat
  BY <1>2
<1> HIDE DEF T
<1>15. 0 .. n \subseteq T
  BY <1>2, <1>12, <1>13, <1>14, SetInduction
<1>16. F \in [0 .. n -> Seq(Byte)]
  BY <1>10, <1>15 DEF T
<1> QED
  BY <1>1, <1>11, <1>16 DEF n

\* The bytes of no frames.
LEMMA EncodeNone == encodeAll(<<>>) = <<>>
<1>1. <<>> \in Seq(Frames) /\ Len(<<>>) = 0
  OBVIOUS
<1>2. PICK v \in [0 .. Len(<<>>) -> Seq(Byte)] : encodeAll(<<>>) = v[Len(<<>>)] /\ v[0] = <<>>
  BY <1>1, EncodeAllFollows
<1> QED
  BY <1>1, <1>2

\* The bytes of frames are bytes.
LEMMA EncodeAllType ==
  ASSUME NEW fs \in Seq(Frames)
  PROVE  encodeAll(fs) \in Seq(Byte)
<1>1. PICK v \in [0 .. Len(fs) -> Seq(Byte)] : encodeAll(fs) = v[Len(fs)]
  BY EncodeAllFollows
<1>2. Len(fs) \in 0 .. Len(fs)
  OBVIOUS
<1> QED
  BY <1>1, <1>2

\* The bytes of one frame more.
LEMMA EncodeAppend ==
  ASSUME NEW fs \in Seq(Frames), NEW f \in Frames
  PROVE  encodeAll(Append(fs, f)) = encodeAll(fs) \o encode(f)
<1> DEFINE gs == Append(fs, f)
<1>1. PICK n \in Nat : n = Len(fs)
  OBVIOUS
<1>2. gs \in Seq(Frames) /\ Len(gs) = n + 1 /\ gs[n + 1] = f /\ \A i \in 1 .. n : gs[i] = fs[i]
  BY <1>1
<1> HIDE DEF gs
<1>3. PICK v \in [0 .. n -> Seq(Byte)] :
        /\ encodeAll(fs) = v[n] /\ v[0] = <<>>
        /\ \A i \in 1 .. n : v[i] = v[i - 1] \o encode(fs[i])
  BY <1>1, EncodeAllFollows
<1>4. PICK w \in [0 .. n + 1 -> Seq(Byte)] :
        /\ encodeAll(gs) = w[n + 1] /\ w[0] = <<>>
        /\ \A i \in 1 .. n + 1 : w[i] = w[i - 1] \o encode(gs[i])
  <2>1. PICK w \in [0 .. Len(gs) -> Seq(Byte)] :
          /\ encodeAll(gs) = w[Len(gs)] /\ w[0] = <<>>
          /\ \A i \in 1 .. Len(gs) : w[i] = w[i - 1] \o encode(gs[i])
    BY <1>2, EncodeAllFollows
  <2> QED
    BY <2>1, <1>2, Zenon
<1> DEFINE T == {i \in 0 .. n : v[i] = w[i]}
<1>5. 0 \in T
  BY <1>3, <1>4
<1>6. ASSUME NEW i \in 1 .. n, i - 1 \in T
      PROVE  i \in T
  <2>1. v[i - 1] = w[i - 1] /\ i \in 0 .. n /\ i \in 1 .. n + 1 /\ gs[i] = fs[i]
    <3>1. i \in 0 .. n /\ i \in 1 .. n + 1
      OBVIOUS
    <3> QED
      BY <3>1, <1>2, <1>6
  <2>2. v[i] = v[i - 1] \o encode(fs[i]) /\ w[i] = w[i - 1] \o encode(gs[i])
    BY <2>1, <1>3, <1>4
  <2>3. v[i] = w[i]
    BY <2>1, <2>2
  <2> QED
    BY <2>1, <2>3
<1>7. T \in SUBSET Nat
  OBVIOUS
<1> HIDE DEF T
<1>8. 0 .. n \subseteq T
  BY <1>5, <1>6, <1>7, SetInduction
<1>9. n \in T
  BY <1>8
<1>10. v[n] = w[n]
  BY <1>9 DEF T
<1>11. w[n + 1] = w[n] \o encode(f)
  <2>1. n + 1 \in 1 .. n + 1 /\ (n + 1) - 1 = n
    OBVIOUS
  <2> QED
    BY <2>1, <1>2, <1>4
<1> QED
  BY <1>3, <1>4, <1>10, <1>11 DEF gs

-----------------------------------------------------------------------------
(***************************************************************************)
(* The invariant.  The input: what was decoded, what is buffered and what  *)
(* is under way are the bytes sent, the frames decoded are the first of    *)
(* the peer's, and the bytes sent are the peer's frames and then, after a  *)
(* broken header, anything.                                                *)
(***************************************************************************)

InputTypes ==
  /\ wire \in Seq(Byte) /\ inbox \in Seq(Byte)
  /\ IsBuffer(recv)
  /\ peer.bytes \in Seq(Byte) /\ peer.frames \in Seq(Frames) /\ peer.bad \in BOOLEAN
  /\ got \in Seq(Frames)

InputKept == encodeAll(got) \o (contents(recv) \o (inbox \o wire)) = peer.bytes

InOrder == Len(got) <= Len(peer.frames) /\ got = SubSeq(peer.frames, 1, Len(got))

\* Every beginning of the frames is a beginning of the bytes.
FramesFirst ==
  \A k \in 0 .. Len(peer.frames) :
    \E r \in Seq(Byte) : encodeAll(SubSeq(peer.frames, 1, k)) \o r = peer.bytes

AllGood == peer.bad = FALSE => encodeAll(peer.frames) = peer.bytes

FirstBroken ==
  peer.bad = TRUE => \E n \in BadLengths, f \in Frames, r \in Seq(Byte) :
                       encodeAll(peer.frames) \o (writeHeader(n, f) \o r) = peer.bytes

InputInv == InputTypes /\ InputKept /\ InOrder /\ FramesFirst /\ AllGood /\ FirstBroken

\* The output: what was written and what is buffered is what was queued, within the limit.
OutputInv ==
  /\ IsBuffer(send)
  /\ out \in [queued : Seq(Byte), written : Seq(Byte), responses : Nat]
  /\ out.written \o contents(send) = out.queued
  /\ readable(send) <= kSendQueueMax
  /\ bounded(send, kSendQueueMax)

ConnTypes ==
  conn \in [state : {"CONNECTED", "ACTIVE", "CLOSING", "gone"}, illegal : Nat, decoding : BOOLEAN]

\* Between two events, what a connection without an error keeps is less than the longest frame.
Incomplete ==
  conn.decoding = FALSE /\ conn.illegal = 0 => readable(recv) <= kHeaderSize + kMaxPayload - 1

RecvBounded == conn.illegal = 0 => bounded(recv, kHeaderSize + kMaxPayload - 1 + Chunk)

ConnInv == ConnTypes /\ BannedAtOnce /\ Incomplete /\ RecvBounded

StreamInv == InputInv /\ OutputInv /\ ConnInv

-----------------------------------------------------------------------------
(***************************************************************************)
(* The input.                                                              *)
(***************************************************************************)

\* A sequence and its two parts.
LEMMA Split ==
  ASSUME NEW s \in Seq(Byte), NEW n \in 0 .. Len(s)
  PROVE  /\ SubSeq(s, 1, n) \in Seq(Byte) /\ SubSeq(s, n + 1, Len(s)) \in Seq(Byte)
         /\ SubSeq(s, 1, n) \o SubSeq(s, n + 1, Len(s)) = s
         /\ Len(SubSeq(s, 1, n)) = n
<1>1. SubSeq(s, 1, n) \in Seq(Byte) /\ SubSeq(s, n + 1, Len(s)) \in Seq(Byte) /\ Len(SubSeq(s, 1, n)) = n
  OBVIOUS
<1>2. 1 \in 1 .. Len(s) + 1 /\ n \in 1 - 1 .. Len(s) /\ Len(s) \in n .. Len(s)
  OBVIOUS
<1>3. SubSeq(s, 1, n) \o SubSeq(s, n + 1, Len(s)) = SubSeq(s, 1, Len(s))
  BY <1>2, ConcatAdjacentSubSeq
<1> QED
  BY <1>1, <1>3, SubSeqFull

\* The frame at the front of the buffer is the peer's next one.
LEMMA NextFrame ==
  ASSUME InputInv, decodeReturns(recv)
  PROVE  /\ Len(got) + 1 <= Len(peer.frames)
         /\ decoded(recv) = peer.frames[Len(got) + 1]
         /\ contents(recv) = encode(peer.frames[Len(got) + 1]) \o contents(afterDecode(recv))
<1> DEFINE t == inbox \o wire
           E == encodeAll(got)
           c == contents(recv)
           fs == peer.frames
           k == Len(got)
<1>1. /\ t \in Seq(Byte) /\ got \in Seq(Frames) /\ fs \in Seq(Frames) /\ IsBuffer(recv)
      /\ peer.bytes \in Seq(Byte)
  BY DEF InputInv, InputTypes
<1>2. E \in Seq(Byte) /\ c \in Seq(Byte) /\ Len(c) = readable(recv) /\ readable(recv) \in Nat
  BY <1>1, EncodeAllType, ContentsFacts
<1>3. E \o (c \o t) = peer.bytes
  BY DEF InputInv, InputKept
<1>4. readable(recv) >= kHeaderSize /\ kHeaderSize \in Nat \ {0}
  BY HeaderSize DEF decodeReturns
<1>5. k \in Nat /\ Len(fs) \in Nat /\ k <= Len(fs) /\ got = SubSeq(fs, 1, k)
  BY <1>1 DEF InputInv, InOrder
<1> HIDE DEF t, E, c, k, fs
<1>6. c \o t \in Seq(Byte)
  BY <1>1, <1>2
<1>7. k # Len(fs)
  <2> SUFFICES ASSUME k = Len(fs)
               PROVE  FALSE
    OBVIOUS
  <2>1. E = encodeAll(fs)
    <3>1. SubSeq(fs, 1, Len(fs)) = fs
      BY <1>1, SubSeqFull
    <3> QED
      BY <3>1, <1>5 DEF E
  <2>2. CASE peer.bad = FALSE
    <3>1. E \o (c \o t) = E
      BY <2>1, <2>2, <1>3 DEF InputInv, AllGood, fs
    <3>2. c \o t = <<>>
      BY <3>1, <1>2, <1>6, ConcatEqualIffEmpty
    <3>3. c = <<>>
      BY <3>2, <1>1, <1>2, ConcatEqualIffEmpty
    <3>4. Len(c) = 0
      BY <3>3
    <3> QED
      BY <3>4, <1>2, <1>4
  <2>3. CASE peer.bad = TRUE
    <3>1. PICK n \in BadLengths, f \in Frames, r \in Seq(Byte) :
            encodeAll(peer.frames) \o (writeHeader(n, f) \o r) = peer.bytes
      BY <2>3 DEF InputInv, FirstBroken
    <3>2. /\ n \in 0 .. power(LenBytes) - 1 /\ n \in Nat
          /\ n < kHeaderSize \/ n > kHeaderSize + kMaxPayload
      BY StreamAssumption
    <3>3. IsFrame(f)
      BY FrameFacts
    <3>4. writeHeader(n, f) \in Seq(Byte)
      BY <3>2, <3>3, HeaderFacts
    <3>5. PICK x \in Seq(Byte) : x = writeHeader(n, f) \o r
      <4>1. PICK h \in Seq(Byte) : h = writeHeader(n, f)
        BY <3>4
      <4>2. h \o r \in Seq(Byte)
        OBVIOUS
      <4> QED
        BY <4>1, <4>2
    <3>6. E \o (c \o t) = E \o x
      BY <3>1, <3>5, <2>1, <1>3 DEF fs
    <3>7. c \o t = x
      BY <3>6, <1>2, <1>6, ConcatSimplifications
    <3>8. SameBytes(contents(recv), t, writeHeader(n, f), r)
      BY <3>5, <3>7 DEF SameBytes, c
    <3>9. totalLength(recv) = n
      BY <3>2, <3>3, <3>8, <1>1, <1>4, ParsesHeader
    <3>10. decodeThrows(recv)
      BY <3>2, <3>9, <1>4 DEF decodeThrows
    <3> QED
      BY <3>10 DEF decodeReturns
  <2> QED
    BY <2>2, <2>3 DEF InputInv, InputTypes
<1>8. k + 1 \in 1 .. Len(fs) /\ k + 1 \in 0 .. Len(fs)
  BY <1>5, <1>7
<1>9. PICK f \in Frames : f = fs[k + 1]
  BY <1>1, <1>8
<1>10. IsFrame(f) /\ encodes(f) /\ encode(f) \in Seq(Byte)
  BY FrameFacts
<1>11. encodeAll(SubSeq(fs, 1, k + 1)) = E \o encode(f)
  <2>1. SubSeq(fs, 1, k + 1) = Append(got, f)
    <3>1. /\ SubSeq(fs, 1, k + 1) \in Seq(Frames) /\ Len(SubSeq(fs, 1, k + 1)) = k + 1
          /\ \A i \in 1 .. k + 1 : SubSeq(fs, 1, k + 1)[i] = fs[i]
      BY <1>1, <1>8
    <3>2. Len(got) = k /\ \A i \in 1 .. k : got[i] = fs[i]
      BY <1>1, <1>5 DEF k
    <3>3. /\ Append(got, f) \in Seq(Frames) /\ Len(Append(got, f)) = k + 1
          /\ Append(got, f)[k + 1] = f /\ \A i \in 1 .. k : Append(got, f)[i] = got[i]
      BY <3>2, <1>1
    <3>4. \A i \in 1 .. k + 1 : i \in 1 .. k \/ i = k + 1
      BY <1>5
    <3>5. \A i \in 1 .. k + 1 : SubSeq(fs, 1, k + 1)[i] = Append(got, f)[i]
      BY <3>1, <3>2, <3>3, <3>4, <1>9
    <3> QED
      BY <3>1, <3>3, <3>5, SeqEqual
  <2> QED
    BY <2>1, <1>1, EncodeAppend DEF E
<1>12. PICK r \in Seq(Byte) : encodeAll(SubSeq(fs, 1, k + 1)) \o r = peer.bytes
  BY <1>8 DEF InputInv, FramesFirst, fs
<1>13. c \o t = encode(f) \o r
  <2>1. PICK e \in Seq(Byte) : e = encode(f)
    BY <1>10
  <2>2. (E \o e) \o r = E \o (e \o r) /\ e \o r \in Seq(Byte)
    <3>1. PICK g \in Seq(Byte) : g = E
      BY <1>2
    <3>2. (g \o e) \o r = g \o (e \o r) /\ e \o r \in Seq(Byte)
      BY Concats, Zenon
    <3> QED
      BY <3>1, <3>2, Zenon
  <2>3. E \o (c \o t) = E \o (e \o r)
    BY <2>1, <2>2, <1>3, <1>11, <1>12
  <2>4. c \o t = e \o r
    BY <2>2, <2>3, <1>2, <1>6, ConcatSimplifications
  <2> QED
    BY <2>1, <2>4
<1>14. SameBytes(contents(recv), t, encode(f), r)
  BY <1>13 DEF SameBytes, c
<1>15. decoded(recv) = f /\ contents(recv) = encode(f) \o contents(afterDecode(recv))
  BY <1>1, <1>10, <1>14, DecodesFrame
<1>16. k + 1 <= Len(fs)
  BY <1>5, <1>8
<1> QED
  BY <1>9, <1>15, <1>16 DEF k, fs

\* Concatenation of bytes, with names that keep the provers to the laws they need.
Bytes == Seq(Byte)

cat(s, t) == s \o t

LEMMA Closed == \A s, t \in Seq(Byte) : s \o t \in Seq(Byte)
  OBVIOUS

LEMMA CatFacts ==
  /\ \A s, t \in Bytes : cat(s, t) \in Bytes
  /\ \A s, t, u \in Bytes : cat(cat(s, t), u) = cat(s, cat(t, u))
<1>1. \A s, t \in Bytes : cat(s, t) \in Bytes
  BY DEF Bytes, cat
<1>2. \A s, t, u \in Bytes : cat(cat(s, t), u) = cat(s, cat(t, u))
  BY ConcatAssociative DEF Bytes, cat
<1> QED
  BY <1>1, <1>2

\* The laws that the steps use: bytes sent go behind all others, ...
LEMMA SentLast ==
  ASSUME NEW a \in Bytes, NEW b \in Bytes, NEW c \in Bytes, NEW d \in Bytes, NEW e \in Bytes
  PROVE  cat(a, cat(b, cat(c, cat(d, e)))) = cat(cat(a, cat(b, cat(c, d))), e)
  BY CatFacts

\* ... bytes that arrive move from the front of the wire to the end of the inbox, ...
LEMMA MovedOn ==
  ASSUME NEW a \in Bytes, NEW b \in Bytes, NEW c \in Bytes, NEW x \in Bytes, NEW y \in Bytes
  PROVE  /\ cat(a, cat(b, cat(cat(c, x), y))) = cat(a, cat(b, cat(c, cat(x, y))))
         /\ cat(a, cat(cat(b, x), cat(y, c))) = cat(a, cat(b, cat(cat(x, y), c)))
         /\ cat(cat(a, x), cat(y, c)) = cat(a, cat(cat(x, y), c))
  BY CatFacts

\* A prefix of a prefix, with an element added behind.
LEMMA SubSeqAppend ==
  ASSUME NEW S, NEW s \in Seq(S), NEW e \in S, NEW k \in 0 .. Len(s)
  PROVE  SubSeq(Append(s, e), 1, k) = SubSeq(s, 1, k)
<1>1. SubSeq(s, 1, k) \in Seq(S) /\ Len(SubSeq(s, 1, k)) = k /\ \A i \in 1 .. k : SubSeq(s, 1, k)[i] = s[i]
  OBVIOUS
<1> DEFINE t == Append(s, e)
<1>2. t \in Seq(S) /\ Len(t) = Len(s) + 1 /\ \A i \in 1 .. k : t[i] = s[i]
  OBVIOUS
<1> HIDE DEF t
<1>3. SubSeq(t, 1, k) \in Seq(S) /\ Len(SubSeq(t, 1, k)) = k /\ \A i \in 1 .. k : SubSeq(t, 1, k)[i] = t[i]
  BY <1>2
<1>4. \A i \in 1 .. k : SubSeq(t, 1, k)[i] = SubSeq(s, 1, k)[i]
  BY <1>1, <1>2, <1>3
<1>5. SubSeq(t, 1, k) = SubSeq(s, 1, k)
  BY <1>1, <1>3, <1>4, SeqEqual
<1> QED
  BY <1>5 DEF t

\* What every transmission does.
LEMMA TransmitKeeps ==
  ASSUME InputInv, NEW data \in Seq(Byte), transmit(data), peer'.bytes = peer.bytes \o data
  PROVE  /\ InputKept' /\ wire' \in Seq(Byte) /\ peer'.bytes \in Seq(Byte)
         /\ \A k \in 0 .. Len(peer.frames) :
              \E r \in Seq(Byte) : encodeAll(SubSeq(peer.frames, 1, k)) \o r = peer'.bytes
         /\ peer.bad = TRUE => \E n \in BadLengths, g \in Frames, r \in Seq(Byte) :
                                 encodeAll(peer.frames) \o (writeHeader(n, g) \o r) = peer'.bytes
<1>1. /\ wire \in Seq(Byte) /\ inbox \in Seq(Byte) /\ contents(recv) \in Seq(Byte)
      /\ encodeAll(got) \in Seq(Byte) /\ peer.bytes \in Seq(Byte) /\ peer.frames \in Seq(Frames)
  BY ContentsFacts, EncodeAllType DEF InputInv, InputTypes
<1>2. wire' = wire \o data /\ inbox' = inbox /\ recv' = recv /\ got' = got
  BY DEF transmit
<1>3. wire' \in Seq(Byte) /\ peer'.bytes \in Seq(Byte)
  BY <1>1, <1>2
<1>4. InputKept'
  <2>1. encodeAll(got) \o (contents(recv) \o (inbox \o wire)) = peer.bytes
    BY DEF InputInv, InputKept
  <2>2. encodeAll(got) \o (contents(recv) \o (inbox \o (wire \o data)))
          = (encodeAll(got) \o (contents(recv) \o (inbox \o wire))) \o data
    <3>1. /\ encodeAll(got) \in Bytes /\ contents(recv) \in Bytes /\ inbox \in Bytes
          /\ wire \in Bytes /\ data \in Bytes
      BY <1>1 DEF Bytes
    <3>2. cat(encodeAll(got), cat(contents(recv), cat(inbox, cat(wire, data))))
            = cat(cat(encodeAll(got), cat(contents(recv), cat(inbox, wire))), data)
      BY <3>1, SentLast
    <3> QED
      BY <3>2 DEF cat
  <2> QED
    BY <2>1, <2>2, <1>2 DEF InputKept
<1>5. ASSUME NEW s \in Seq(Byte), NEW r \in Seq(Byte), s \o r = peer.bytes
      PROVE  r \o data \in Seq(Byte) /\ s \o (r \o data) = peer'.bytes
  <2>1. (s \o r) \o data = s \o (r \o data)
    BY Concats, Zenon
  <2>2. r \o data \in Seq(Byte)
    OBVIOUS
  <2> QED
    BY <2>1, <2>2, <1>5
<1>6. ASSUME NEW k \in 0 .. Len(peer.frames)
      PROVE  \E r \in Seq(Byte) : encodeAll(SubSeq(peer.frames, 1, k)) \o r = peer'.bytes
  <2>1. PICK r \in Seq(Byte) : encodeAll(SubSeq(peer.frames, 1, k)) \o r = peer.bytes
    BY DEF InputInv, FramesFirst
  <2>2. SubSeq(peer.frames, 1, k) \in Seq(Frames)
    BY <1>1
  <2>3. PICK s \in Seq(Byte) : s = encodeAll(SubSeq(peer.frames, 1, k))
    BY <2>2, EncodeAllType
  <2>4. r \o data \in Seq(Byte) /\ s \o (r \o data) = peer'.bytes
    BY <2>1, <2>3, <1>5
  <2> QED
    BY <2>3, <2>4
<1>7. ASSUME peer.bad = TRUE
      PROVE  \E n \in BadLengths, g \in Frames, r \in Seq(Byte) :
               encodeAll(peer.frames) \o (writeHeader(n, g) \o r) = peer'.bytes
  <2>1. PICK n \in BadLengths, g \in Frames, r \in Seq(Byte) :
          encodeAll(peer.frames) \o (writeHeader(n, g) \o r) = peer.bytes
    BY <1>7 DEF InputInv, FirstBroken
  <2>2. PICK h \in Seq(Byte) : h = writeHeader(n, g)
    <3>1. n \in Nat /\ IsFrame(g)
      BY StreamAssumption, FrameFacts
    <3> QED
      BY <3>1, HeaderFacts
  <2>3. PICK s \in Seq(Byte) : s = encodeAll(peer.frames)
    BY <1>1, EncodeAllType
  <2>4. PICK x \in Seq(Byte) : x = h \o r
    BY Closed, Zenon
  <2>5. s \o (x \o data) = peer'.bytes
    <3>1. s \o x = peer.bytes
      BY <2>1, <2>2, <2>3, <2>4
    <3> QED
      BY <3>1, <1>5
  <2>6. (h \o r) \o data = h \o (r \o data) /\ r \o data \in Seq(Byte)
    <3>1. h \in Bytes /\ r \in Bytes /\ data \in Bytes
      BY DEF Bytes
    <3>2. cat(cat(h, r), data) = cat(h, cat(r, data)) /\ cat(r, data) \in Bytes
      BY <3>1, CatFacts
    <3> QED
      BY <3>2 DEF cat, Bytes
  <2>7. s \o (h \o (r \o data)) = peer'.bytes
    BY <2>4, <2>5, <2>6
  <2> QED
    BY <2>2, <2>3, <2>6, <2>7
<1> QED
  BY <1>3, <1>4, <1>6, <1>7

LEMMA PeerSendsInput ==
  ASSUME InputInv, NEW f \in Frames, PeerSends(f)
  PROVE  InputInv'
<1> DEFINE fs == peer.frames
<1>1. encode(f) \in Seq(Byte)
  BY FrameFacts
<1>2. /\ peer'.bytes = peer.bytes \o encode(f) /\ peer'.bad = peer.bad
      /\ peer'.frames = IF peer.bad THEN fs ELSE Append(fs, f)
      /\ transmit(encode(f))
  BY DEF PeerSends
<1>3. wire' \in Seq(Byte) /\ peer'.bytes \in Seq(Byte) /\ InputKept'
  BY <1>1, <1>2, TransmitKeeps
<1>4. /\ \A k \in 0 .. Len(fs) : \E r \in Seq(Byte) : encodeAll(SubSeq(fs, 1, k)) \o r = peer'.bytes
      /\ peer.bad = TRUE => \E n \in BadLengths, g \in Frames, r \in Seq(Byte) :
                              encodeAll(fs) \o (writeHeader(n, g) \o r) = peer'.bytes
  BY <1>1, <1>2, TransmitKeeps
<1>5. inbox' = inbox /\ recv' = recv /\ got' = got
  BY <1>2 DEF transmit
<1>6. /\ inbox \in Seq(Byte) /\ IsBuffer(recv) /\ fs \in Seq(Frames) /\ got \in Seq(Frames)
      /\ peer.bad \in BOOLEAN /\ peer.bytes \in Seq(Byte) /\ Len(fs) \in Nat
  BY DEF InputInv, InputTypes
<1>7. /\ peer'.frames \in Seq(Frames)
      /\ peer.bad = TRUE => peer'.frames = fs
      /\ peer.bad = FALSE => peer'.frames = Append(fs, f)
  <2>1. CASE peer.bad = TRUE
    BY <2>1, <1>2, <1>6
  <2>2. CASE peer.bad = FALSE
    BY <2>2, <1>2, <1>6
  <2> QED
    BY <2>1, <2>2, <1>6
<1>8. InputTypes'
  BY <1>2, <1>3, <1>5, <1>6, <1>7 DEF InputTypes
<1>9. Len(fs) <= Len(peer'.frames) /\ \A k \in 0 .. Len(fs) : SubSeq(peer'.frames, 1, k) = SubSeq(fs, 1, k)
  <2>1. CASE peer.bad = TRUE
    BY <2>1, <1>6, <1>7
  <2>2. CASE peer.bad = FALSE
    <3>1. peer'.frames = Append(fs, f)
      BY <2>2, <1>7
    <3>2. Len(Append(fs, f)) = Len(fs) + 1
      BY <1>6
    <3>3. \A k \in 0 .. Len(fs) : SubSeq(Append(fs, f), 1, k) = SubSeq(fs, 1, k)
      BY <1>6, SubSeqAppend
    <3> QED
      BY <3>1, <3>2, <3>3, <1>6
  <2> QED
    BY <2>1, <2>2, <1>6
<1> HIDE DEF fs
<1>10. InOrder'
  <2>1. Len(got) \in Nat /\ Len(got) <= Len(fs) /\ got = SubSeq(fs, 1, Len(got))
    BY <1>6 DEF InputInv, InOrder, fs
  <2>2. Len(got) <= Len(peer'.frames) /\ got = SubSeq(peer'.frames, 1, Len(got))
    <3>1. Len(peer'.frames) \in Nat
      BY <1>7
    <3>2. Len(got) \in 0 .. Len(fs)
      BY <2>1, <1>6
    <3> QED
      BY <3>1, <3>2, <2>1, <1>6, <1>9
  <2> QED
    BY <2>2, <1>5 DEF InOrder
<1>11. AllGood'
  <2> SUFFICES ASSUME peer.bad = FALSE
               PROVE  encodeAll(peer'.frames) = peer'.bytes
    BY <1>2 DEF AllGood
  <2>1. encodeAll(fs) = peer.bytes
    BY DEF InputInv, AllGood, fs
  <2>2. encodeAll(Append(fs, f)) = encodeAll(fs) \o encode(f)
    BY <1>6, EncodeAppend
  <2> QED
    BY <2>1, <2>2, <1>2, <1>7
<1>12. FramesFirst'
  <2> SUFFICES ASSUME NEW k \in 0 .. Len(peer'.frames)
               PROVE  \E r \in Seq(Byte) : encodeAll(SubSeq(peer'.frames, 1, k)) \o r = peer'.bytes
    BY DEF FramesFirst
  <2>1. CASE k \in 0 .. Len(fs)
    BY <2>1, <1>4, <1>9
  <2>2. CASE ~ (k \in 0 .. Len(fs))
    <3>1. peer.bad = FALSE
      <4>1. Len(peer'.frames) # Len(fs)
        BY <2>2
      <4> QED
        BY <4>1, <1>6, <1>7
    <3>2. Len(peer'.frames) = Len(fs) + 1
      BY <3>1, <1>6, <1>7
    <3>3. k = Len(peer'.frames)
      BY <2>2, <3>2, <1>6
    <3>4. SubSeq(peer'.frames, 1, k) = peer'.frames
      BY <3>3, <1>7, SubSeqFull
    <3>5. encodeAll(peer'.frames) = peer'.bytes
      BY <3>1, <1>2, <1>11 DEF AllGood
    <3>6. peer'.bytes \o <<>> = peer'.bytes /\ <<>> \in Seq(Byte)
      BY <1>3, ConcatEmptySeq
    <3> QED
      BY <3>4, <3>5, <3>6
  <2> QED
    BY <2>1, <2>2
<1>13. FirstBroken'
  BY <1>2, <1>4, <1>7 DEF FirstBroken
<1> QED
  BY <1>3, <1>8, <1>10, <1>11, <1>12, <1>13 DEF InputInv

LEMMA PeerSendsBrokenInput ==
  ASSUME InputInv, NEW f \in Frames, NEW n \in BadLengths, PeerSendsBroken(n, f)
  PROVE  InputInv'
<1> DEFINE fs == peer.frames
<1>1. writeHeader(n, f) \in Seq(Byte)
  <2>1. n \in Nat /\ IsFrame(f)
    BY StreamAssumption, FrameFacts
  <2> QED
    BY <2>1, HeaderFacts
<1>2. /\ peer'.bytes = peer.bytes \o writeHeader(n, f) /\ peer'.bad = TRUE /\ peer'.frames = fs
      /\ transmit(writeHeader(n, f))
  BY DEF PeerSendsBroken
<1>3. wire' \in Seq(Byte) /\ peer'.bytes \in Seq(Byte) /\ InputKept'
  BY <1>1, <1>2, TransmitKeeps
<1>4. /\ \A k \in 0 .. Len(fs) : \E r \in Seq(Byte) : encodeAll(SubSeq(fs, 1, k)) \o r = peer'.bytes
      /\ peer.bad = TRUE => \E m \in BadLengths, g \in Frames, r \in Seq(Byte) :
                              encodeAll(fs) \o (writeHeader(m, g) \o r) = peer'.bytes
  BY <1>1, <1>2, TransmitKeeps
<1>5. inbox' = inbox /\ recv' = recv /\ got' = got
  BY <1>2 DEF transmit
<1>6. InputTypes' /\ InOrder' /\ AllGood' /\ FramesFirst'
  BY <1>2, <1>3, <1>4, <1>5 DEF InputInv, InputTypes, InOrder, AllGood, FramesFirst
<1>7. FirstBroken'
  <2>1. CASE peer.bad = TRUE
    BY <2>1, <1>2, <1>4 DEF FirstBroken
  <2>2. CASE peer.bad = FALSE
    <3>1. encodeAll(fs) = peer.bytes
      BY <2>2 DEF InputInv, AllGood
    <3>2. PICK h \in Seq(Byte) : h = writeHeader(n, f)
      BY <1>1
    <3>3. h \o <<>> = h /\ <<>> \in Seq(Byte)
      BY ConcatEmptySeq
    <3>4. encodeAll(fs) \o (writeHeader(n, f) \o <<>>) = peer'.bytes
      BY <3>1, <3>2, <3>3, <1>2
    <3> QED
      BY <3>3, <3>4, <1>2 DEF FirstBroken
  <2> QED
    BY <2>1, <2>2 DEF InputInv, InputTypes
<1> QED
  BY <1>3, <1>6, <1>7 DEF InputInv

LEMMA ArriveInput ==
  ASSUME InputInv, NEW n \in 1 .. Len(wire), Arrive(n)
  PROVE  InputInv'
<1> DEFINE x == SubSeq(wire, 1, n)
           y == SubSeq(wire, n + 1, Len(wire))
<1>1. /\ wire' = y /\ inbox' = inbox \o x
      /\ recv' = recv /\ peer' = peer /\ got' = got
  BY DEF Arrive
<1>2. /\ wire \in Seq(Byte) /\ inbox \in Seq(Byte) /\ contents(recv) \in Seq(Byte)
      /\ encodeAll(got) \in Seq(Byte)
  BY ContentsFacts, EncodeAllType DEF InputInv, InputTypes
<1>3. x \in Seq(Byte) /\ y \in Seq(Byte) /\ x \o y = wire
  <2>1. n \in 0 .. Len(wire)
    BY <1>2
  <2> QED
    BY <2>1, <1>2, Split
<1> HIDE DEF x, y
<1>4. wire' \in Seq(Byte) /\ inbox' \in Seq(Byte)
  BY <1>1, <1>2, <1>3
<1>5. InputKept'
  <2>1. /\ encodeAll(got) \in Bytes /\ contents(recv) \in Bytes /\ inbox \in Bytes
        /\ x \in Bytes /\ y \in Bytes
    BY <1>2, <1>3 DEF Bytes
  <2>2. cat(encodeAll(got), cat(contents(recv), cat(cat(inbox, x), y)))
          = cat(encodeAll(got), cat(contents(recv), cat(inbox, cat(x, y))))
    BY <2>1, MovedOn
  <2>3. cat(encodeAll(got), cat(contents(recv), cat(inbox, wire))) = peer.bytes
    BY DEF InputInv, InputKept, cat
  <2>4. cat(x, y) = wire
    BY <1>3 DEF cat
  <2>5. cat(encodeAll(got), cat(contents(recv), cat(cat(inbox, x), y))) = peer.bytes
    BY <2>2, <2>3, <2>4
  <2> QED
    BY <2>5, <1>1 DEF InputKept, cat
<1> QED
  BY <1>1, <1>4, <1>5 DEF InputInv, InputTypes, InOrder, FramesFirst, AllGood, FirstBroken

LEMMA OnReadableInput ==
  ASSUME InputInv, OnReadable
  PROVE  /\ InputInv'
         /\ \E x \in Seq(Byte) : contents(recv)' = contents(recv) \o x
         /\ recv'.cap = recv.cap \/ recv'.cap < 2 * (readable(recv) + Chunk)
<1> DEFINE n == readCount(recv, Len(inbox))
           x == SubSeq(inbox, 1, n)
           y == SubSeq(inbox, n + 1, Len(inbox))
<1>1. /\ recv' = readFromFd(recv, x) /\ inbox' = y
      /\ wire' = wire /\ peer' = peer /\ got' = got
  BY DEF OnReadable
<1>2. /\ wire \in Seq(Byte) /\ inbox \in Seq(Byte) /\ contents(recv) \in Seq(Byte)
      /\ encodeAll(got) \in Seq(Byte) /\ IsBuffer(recv)
  BY ContentsFacts, EncodeAllType DEF InputInv, InputTypes
<1>3. /\ n \in 0 .. Len(inbox) /\ IsBuffer(readFromFd(recv, x))
      /\ contents(readFromFd(recv, x)) = contents(recv) \o x
      /\ \/ readFromFd(recv, x).cap = recv.cap
         \/ readFromFd(recv, x).cap < 2 * (readable(recv) + Chunk)
  BY <1>2, ReadFacts
<1>4. x \in Seq(Byte) /\ y \in Seq(Byte) /\ x \o y = inbox
  BY <1>2, <1>3, Split
<1> HIDE DEF n, x, y
<1>5. contents(recv)' = contents(recv) \o x
  BY <1>1, <1>3
<1>6. InputKept'
  <2>1. /\ encodeAll(got) \in Bytes /\ contents(recv) \in Bytes /\ wire \in Bytes
        /\ x \in Bytes /\ y \in Bytes
    BY <1>2, <1>4 DEF Bytes
  <2>2. cat(encodeAll(got), cat(cat(contents(recv), x), cat(y, wire)))
          = cat(encodeAll(got), cat(contents(recv), cat(cat(x, y), wire)))
    BY <2>1, MovedOn
  <2>3. cat(encodeAll(got), cat(contents(recv), cat(inbox, wire))) = peer.bytes
    BY DEF InputInv, InputKept, cat
  <2>4. cat(x, y) = inbox
    BY <1>4 DEF cat
  <2>5. cat(encodeAll(got), cat(cat(contents(recv), x), cat(y, wire))) = peer.bytes
    BY <2>2, <2>3, <2>4
  <2> QED
    BY <2>5, <1>1, <1>5 DEF InputKept, cat
<1>7. InputInv'
  BY <1>1, <1>3, <1>4, <1>6 DEF InputInv, InputTypes, InOrder, FramesFirst, AllGood, FirstBroken
<1> QED
  BY <1>1, <1>3, <1>4, <1>5, <1>7

LEMMA DecodeInput ==
  ASSUME InputInv, Decode
  PROVE  /\ InputInv' /\ recv'.cap = recv.cap
         /\ \E n \in 0 .. Len(contents(recv)) :
              contents(recv)' = SubSeq(contents(recv), n + 1, Len(contents(recv)))
<1> DEFINE k == Len(got)
           f == peer.frames[k + 1]
           c == contents(afterDecode(recv))
<1>1. /\ decodeReturns(recv) /\ got' = Append(got, decoded(recv)) /\ recv' = afterDecode(recv)
      /\ wire' = wire /\ inbox' = inbox /\ peer' = peer
  BY DEF Decode
<1>2. /\ wire \in Seq(Byte) /\ inbox \in Seq(Byte) /\ contents(recv) \in Seq(Byte)
      /\ encodeAll(got) \in Seq(Byte) /\ IsBuffer(recv) /\ got \in Seq(Frames)
      /\ Len(contents(recv)) = readable(recv) /\ readable(recv) \in Nat /\ peer.frames \in Seq(Frames)
  BY ContentsFacts, EncodeAllType DEF InputInv, InputTypes
<1>3. k + 1 <= Len(peer.frames) /\ decoded(recv) = f /\ contents(recv) = encode(f) \o c
  BY <1>1, NextFrame
<1>4. /\ totalLength(recv) \in Nat /\ totalLength(recv) <= readable(recv)
      /\ IsBuffer(afterDecode(recv)) /\ afterDecode(recv).cap = recv.cap
      /\ c = SubSeq(contents(recv), totalLength(recv) + 1, Len(contents(recv)))
  BY <1>1, <1>2, AfterDecodeFacts
<1>5. k \in Nat /\ k + 1 \in 1 .. Len(peer.frames) /\ f \in Frames /\ got = SubSeq(peer.frames, 1, k)
  <2>1. k \in Nat /\ Len(peer.frames) \in Nat
    BY <1>2
  <2>2. k + 1 \in 1 .. Len(peer.frames)
    BY <2>1, <1>3
  <2> QED
    BY <2>1, <2>2, <1>2 DEF InputInv, InOrder
<1>6. c \in Seq(Byte) /\ encode(f) \in Seq(Byte)
  BY <1>4, <1>5, ContentsFacts, FrameFacts
<1> HIDE DEF f, c
<1>7. got' = Append(got, f) /\ got' \in Seq(Frames)
  BY <1>1, <1>2, <1>3, <1>5
<1>8. encodeAll(got)' = encodeAll(got) \o encode(f)
  BY <1>2, <1>5, <1>7, EncodeAppend
<1>9. contents(recv)' = c
  BY <1>1 DEF c
<1>10. InputKept'
  <2> DEFINE t == inbox \o wire
  <2>0. t \in Seq(Byte)
    BY <1>2
  <2> HIDE DEF t
  <2>1. encodeAll(got) \in Bytes /\ c \in Bytes /\ t \in Bytes /\ encode(f) \in Bytes
    BY <2>0, <1>2, <1>6 DEF Bytes
  <2>2. cat(cat(encodeAll(got), encode(f)), cat(c, t)) = cat(encodeAll(got), cat(cat(encode(f), c), t))
    BY <2>1, MovedOn
  <2>3. cat(encodeAll(got), cat(contents(recv), t)) = peer.bytes
    BY DEF InputInv, InputKept, cat, t
  <2>4. cat(encode(f), c) = contents(recv)
    BY <1>3 DEF cat
  <2>5. cat(cat(encodeAll(got), encode(f)), cat(c, t)) = peer.bytes
    BY <2>2, <2>3, <2>4
  <2> QED
    BY <2>5, <1>1, <1>8, <1>9 DEF InputKept, cat, t
<1>11. InOrder'
  <2>1. Len(got') = k + 1
    BY <1>2, <1>7
  <2>2. SubSeq(peer.frames, 1, k + 1) = SubSeq(peer.frames, 1, (k + 1) - 1) \o <<peer.frames[k + 1]>>
    <3>1. 1 \in 1 .. Len(peer.frames) /\ k + 1 \in 1 .. Len(peer.frames)
      BY <1>5, <1>2
    <3> QED
      BY <3>1, <1>2, SubSeqRecursiveSecond
  <2>3. (k + 1) - 1 = k
    BY <1>5
  <2>4. Append(got, f) = got \o <<f>>
    BY <1>2, <1>5, AppendIsConcat
  <2>5. got' = SubSeq(peer.frames, 1, k + 1)
    BY <2>2, <2>3, <2>4, <1>5, <1>7 DEF f
  <2> QED
    BY <2>1, <2>5, <1>1, <1>3 DEF InOrder
<1>12. InputInv'
  BY <1>1, <1>4, <1>7, <1>10, <1>11 DEF InputInv, InputTypes, FramesFirst, AllGood, FirstBroken
<1>13. totalLength(recv) \in 0 .. Len(contents(recv))
  BY <1>2, <1>4
<1> QED
  BY <1>1, <1>4, <1>9, <1>12, <1>13

-----------------------------------------------------------------------------
(***************************************************************************)
(* The output, and the connection.                                         *)
(***************************************************************************)

LEMMA SendRawOutput ==
  ASSUME OutputInv, NEW data \in Responses, SendRaw(data)
  PROVE  OutputInv' /\ \E x \in Seq(Byte) : contents(send)' = contents(send) \o x
<1> DEFINE fits == readable(send) + Len(data) <= kSendQueueMax
<1>0. data \in Seq(Byte) /\ Len(data) \in Nat
  BY StreamAssumption
<1>1. /\ send' = IF isOpen(conn) /\ fits THEN write(send, data) ELSE send
      /\ out' = [queued |-> IF isOpen(conn) /\ fits THEN out.queued \o data ELSE out.queued,
                 written |-> out.written, responses |-> out.responses + 1]
  BY DEF SendRaw
<1>2. /\ IsBuffer(send) /\ out.queued \in Seq(Byte) /\ out.written \in Seq(Byte)
      /\ out.responses \in Nat /\ out.written \o contents(send) = out.queued
      /\ readable(send) <= kSendQueueMax /\ bounded(send, kSendQueueMax)
      /\ contents(send) \in Seq(Byte) /\ readable(send) \in Nat /\ kSendQueueMax \in Nat
  BY StreamAssumption, ContentsFacts DEF OutputInv
<1>3. CASE isOpen(conn) /\ fits
  <2>1. /\ send' = write(send, data)
        /\ out' = [queued |-> out.queued \o data, written |-> out.written, responses |-> out.responses + 1]
    BY <1>1, <1>3
  <2>2. /\ IsBuffer(send') /\ contents(send') = contents(send) \o data
        /\ readable(send') = readable(send) + Len(data)
        /\ send'.cap = send.cap \/ send'.cap < 2 * (readable(send) + Len(data))
    BY <2>1, <1>0, <1>2, WriteFacts
  <2>3. /\ out' \in [queued : Seq(Byte), written : Seq(Byte), responses : Nat]
        /\ out'.written = out.written /\ out'.queued = out.queued \o data
    <3>1. out.queued \o data \in Seq(Byte)
      BY <1>0, <1>2
    <3>2. PICK q \in Seq(Byte), w \in Seq(Byte), m \in Nat :
            q = out.queued \o data /\ w = out.written /\ m = out.responses + 1
      <4>1. out.responses + 1 \in Nat
        BY <1>2
      <4> QED
        BY <4>1, <3>1, <1>2, Zenon
    <3>3. out' = [queued |-> q, written |-> w, responses |-> m]
      BY <3>2, <2>1, Zenon
    <3>4. [queued |-> q, written |-> w, responses |-> m]
            \in [queued : Seq(Byte), written : Seq(Byte), responses : Nat]
      OBVIOUS
    <3>5. out'.written = w /\ out'.queued = q
      BY <3>3, Zenon
    <3> QED
      BY <3>2, <3>3, <3>4, <3>5, Zenon
  <2>4. out.written \o (contents(send) \o data) = out.queued \o data
    <3>1. out.written \in Bytes /\ contents(send) \in Bytes /\ data \in Bytes
      BY <1>0, <1>2 DEF Bytes
    <3>2. cat(cat(out.written, contents(send)), data) = cat(out.written, cat(contents(send), data))
      BY <3>1, CatFacts
    <3>3. cat(out.written, contents(send)) = out.queued
      BY <1>2 DEF cat
    <3>4. cat(out.queued, data) = cat(out.written, cat(contents(send), data))
      BY <3>2, <3>3
    <3> QED
      BY <3>4 DEF cat
  <2>5. bounded(send', kSendQueueMax)
    <3>1. CASE send'.cap = send.cap
      BY <3>1, <1>2 DEF bounded
    <3>2. CASE send'.cap < 2 * (readable(send) + Len(data))
      <4>1. send'.cap \in Nat
        BY <2>2 DEF IsBuffer
      <4>2. send'.cap < 2 * kSendQueueMax
        BY <4>1, <3>2, <1>0, <1>2, <1>3
      <4> QED
        BY <4>2 DEF bounded
    <3> QED
      BY <3>1, <3>2, <2>2
  <2>6. readable(send') <= kSendQueueMax
    BY <2>2, <1>3
  <2>7. out'.written \o contents(send') = out'.queued
    BY <2>2, <2>3, <2>4
  <2> QED
    BY <1>0, <2>2, <2>3, <2>5, <2>6, <2>7 DEF OutputInv
<1>4. CASE ~ (isOpen(conn) /\ fits)
  <2>1. /\ send' = send
        /\ out' = [queued |-> out.queued, written |-> out.written, responses |-> out.responses + 1]
    BY <1>1, <1>4
  <2>2. /\ out' \in [queued : Seq(Byte), written : Seq(Byte), responses : Nat]
        /\ out'.written = out.written /\ out'.queued = out.queued
    BY <2>1, <1>2
  <2>3. contents(send) \o <<>> = contents(send) /\ <<>> \in Seq(Byte)
    BY <1>2, ConcatEmptySeq
  <2> QED
    BY <2>1, <2>2, <2>3, <1>2 DEF OutputInv
<1> QED
  BY <1>3, <1>4

LEMMA OnWritableOutput ==
  ASSUME OutputInv, NEW n \in 1 .. readable(send), OnWritable(n)
  PROVE  /\ OutputInv'
         /\ \E k \in 0 .. Len(contents(send)) :
              contents(send)' = SubSeq(contents(send), k + 1, Len(contents(send)))
<1>1. /\ IsBuffer(send) /\ out \in [queued : Seq(Byte), written : Seq(Byte), responses : Nat]
      /\ out.written \o contents(send) = out.queued
      /\ readable(send) <= kSendQueueMax /\ bounded(send, kSendQueueMax)
      /\ contents(send) \in Seq(Byte) /\ readable(send) \in Nat /\ kSendQueueMax \in Nat
      /\ Len(contents(send)) = readable(send)
  BY StreamAssumption, ContentsFacts DEF OutputInv
<1> DEFINE x == SubSeq(contents(send), 1, n)
           y == SubSeq(contents(send), n + 1, Len(contents(send)))
<1>2. /\ send' = skip(send, n) /\ out' = [out EXCEPT !.written = @ \o x]
  BY DEF OnWritable
<1>3. n \in Nat /\ n <= readable(send) /\ n \in 0 .. Len(contents(send))
  BY <1>1
<1>4. x \in Seq(Byte) /\ y \in Seq(Byte) /\ x \o y = contents(send)
  BY <1>1, <1>3, Split
<1>5. /\ IsBuffer(send') /\ readable(send') = readable(send) - n /\ contents(send') = y
      /\ send'.cap = send.cap
  BY <1>1, <1>2, <1>3, SkipFacts
<1> HIDE DEF x, y
<1>6. out.written \in Seq(Byte) /\ out.written \o x \in Seq(Byte)
  BY <1>1, <1>4
<1>7. /\ out' \in [queued : Seq(Byte), written : Seq(Byte), responses : Nat]
      /\ out'.written = out.written \o x /\ out'.queued = out.queued
  BY <1>1, <1>2, <1>6
<1>8. (out.written \o x) \o y = out.queued
  <2>1. out.written \in Bytes /\ x \in Bytes /\ y \in Bytes
    BY <1>4, <1>6 DEF Bytes
  <2>2. cat(cat(out.written, x), y) = cat(out.written, cat(x, y))
    BY <2>1, CatFacts
  <2>3. cat(x, y) = contents(send)
    BY <1>4 DEF cat
  <2>4. cat(out.written, contents(send)) = out.queued
    BY <1>1 DEF cat
  <2>5. cat(cat(out.written, x), y) = out.queued
    BY <2>2, <2>3, <2>4
  <2> QED
    BY <2>5 DEF cat
<1>9. out'.written \o contents(send') = out'.queued
  BY <1>5, <1>7, <1>8
<1>10. readable(send') <= kSendQueueMax /\ bounded(send', kSendQueueMax)
  BY <1>1, <1>3, <1>5 DEF bounded
<1> QED
  BY <1>3, <1>5, <1>7, <1>9, <1>10 DEF OutputInv, y

\* Closing changes the state only.
LEMMA CloseFacts ==
  ASSUME NEW c \in [state : {"CONNECTED", "ACTIVE", "CLOSING", "gone"}, illegal : Nat, decoding : BOOLEAN]
  PROVE  /\ close(c) \in [state : {"CONNECTED", "ACTIVE", "CLOSING", "gone"}, illegal : Nat, decoding : BOOLEAN]
         /\ close(c).illegal = c.illegal /\ close(c).decoding = c.decoding
  BY DEF close, isOpen

LEMMA OnReadableConn ==
  ASSUME InputTypes, ConnInv, OnReadable,
         recv'.cap = recv.cap \/ recv'.cap < 2 * (readable(recv) + Chunk), recv'.cap \in Nat
  PROVE  ConnInv'
<1>1. /\ conn' = [conn EXCEPT !.state = "ACTIVE", !.decoding = TRUE] /\ ready
  BY DEF OnReadable
<1>2. ConnTypes' /\ conn'.decoding = TRUE /\ conn'.illegal = conn.illegal
  BY <1>1 DEF ConnInv, ConnTypes
<1>3. BannedAtOnce' /\ Incomplete'
  BY <1>2 DEF BannedAtOnce, Incomplete
<1>4. RecvBounded'
  <2> SUFFICES ASSUME conn.illegal = 0
               PROVE  bounded(recv', kHeaderSize + kMaxPayload - 1 + Chunk)
    BY <1>2 DEF RecvBounded
  <2>1. CASE recv'.cap = recv.cap
    BY <2>1 DEF ConnInv, RecvBounded, bounded
  <2>2. CASE recv'.cap < 2 * (readable(recv) + Chunk)
    <3>1. conn.decoding = FALSE
      BY <1>1 DEF ready, ConnInv, ConnTypes
    <3>2. readable(recv) <= kHeaderSize + kMaxPayload - 1
      BY <3>1 DEF ConnInv, Incomplete
    <3>3. recv'.cap < 2 * (kHeaderSize + kMaxPayload - 1 + Chunk)
      <4>1. /\ readable(recv) \in Nat /\ kHeaderSize \in Nat \ {0} /\ kMaxPayload \in Nat /\ Chunk \in Nat
        BY HeaderSize, BufferAssumption, ContentsFacts DEF InputTypes
      <4> QED
        BY <4>1, <3>2, <2>2
    <3> QED
      BY <3>3 DEF bounded
  <2> QED
    BY <2>1, <2>2
<1> QED
  BY <1>2, <1>3, <1>4 DEF ConnInv

LEMMA DecodeConn ==
  ASSUME ConnInv, Decode, recv'.cap = recv.cap
  PROVE  ConnInv'
<1>1. conn' = conn /\ conn.decoding
  BY DEF Decode
<1>2. conn.decoding = TRUE
  BY <1>1 DEF ConnInv, ConnTypes
<1> QED
  BY <1>1, <1>2 DEF ConnInv, ConnTypes, BannedAtOnce, Incomplete, RecvBounded, bounded

LEMMA DecodeEndsConn ==
  ASSUME InputTypes, ConnInv, DecodeEnds
  PROVE  ConnInv'
<1>1. /\ conn' = [conn EXCEPT !.decoding = FALSE] /\ recv' = recv
      /\ ~ decodeReturns(recv) /\ ~ decodeThrows(recv)
  BY DEF DecodeEnds
<1>2. ConnTypes' /\ conn'.decoding = FALSE /\ conn'.illegal = conn.illegal
  BY <1>1 DEF ConnInv, ConnTypes
<1>3. BannedAtOnce'
  BY <1>1 DEF BannedAtOnce
<1>4. readable(recv) <= kHeaderSize + kMaxPayload - 1
  <2>1. readable(recv) \in Nat /\ IsBuffer(recv) /\ kHeaderSize \in Nat \ {0} /\ kMaxPayload \in Nat
    BY HeaderSize, ContentsFacts DEF InputTypes
  <2>2. CASE readable(recv) < kHeaderSize
    BY <2>1, <2>2
  <2>3. CASE readable(recv) >= kHeaderSize
    <3>1. totalLength(recv) \in Nat
      BY <2>1, <2>3, FieldFacts
    <3>2. ~ (readable(recv) >= totalLength(recv)) /\ ~ (totalLength(recv) > kHeaderSize + kMaxPayload)
      BY <1>1, <2>3 DEF decodeReturns, decodeThrows
    <3> QED
      BY <2>1, <3>1, <3>2
  <2> QED
    BY <2>1, <2>2, <2>3
<1>5. Incomplete' /\ RecvBounded'
  BY <1>1, <1>2, <1>4 DEF ConnInv, Incomplete, RecvBounded
<1> QED
  BY <1>2, <1>3, <1>5 DEF ConnInv

LEMMA DecodeFailsConn ==
  ASSUME ConnInv, DecodeFails
  PROVE  ConnInv'
<1> DEFINE C == [state : {"CONNECTED", "ACTIVE", "CLOSING", "gone"}, illegal : Nat, decoding : BOOLEAN]
<1>0. conn \in C /\ conn.decoding = TRUE
  BY DEF ConnInv, ConnTypes, DecodeFails
<1>1. PICK c : c = [conn EXCEPT !.illegal = @ + 1]
  OBVIOUS
<1>2. c \in C /\ c.illegal = conn.illegal + 1 /\ c.decoding = TRUE /\ conn.illegal \in Nat
  BY <1>0, <1>1
<1>3. /\ recv' = recv
      /\ conn' = IF c.illegal >= kMaxIllegalCount THEN [close(c) EXCEPT !.decoding = FALSE] ELSE c
  BY <1>1 DEF DecodeFails
<1>4. PICK d : d = close(c)
  OBVIOUS
<1>5. d \in C /\ d.illegal = c.illegal
  BY <1>2, <1>4, CloseFacts
<1>6. conn' \in C /\ conn'.illegal = conn.illegal + 1
      /\ (conn'.decoding = FALSE => conn'.illegal >= kMaxIllegalCount)
  <2>1. CASE c.illegal >= kMaxIllegalCount
    <3>1. conn' = [d EXCEPT !.decoding = FALSE]
      BY <2>1, <1>3, <1>4
    <3>2. conn' \in C /\ conn'.illegal = d.illegal
      BY <3>1, <1>5
    <3> QED
      BY <3>2, <2>1, <1>2, <1>5
  <2>2. CASE ~ (c.illegal >= kMaxIllegalCount)
    BY <2>2, <1>2, <1>3
  <2> QED
    BY <2>1, <2>2
<1>7. ConnTypes'
  BY <1>6 DEF ConnTypes
<1>8. conn'.illegal # 0
  BY <1>2, <1>6
<1>9. Incomplete' /\ RecvBounded'
  BY <1>8 DEF Incomplete, RecvBounded
<1>10. BannedAtOnce'
  BY <1>6 DEF BannedAtOnce
<1> QED
  BY <1>7, <1>9, <1>10 DEF ConnInv

\* Steps that leave a half of the invariant's state alone.
LEMMA InputUnchanged ==
  ASSUME InputInv, wire' = wire, inbox' = inbox, recv' = recv, peer' = peer, got' = got
  PROVE  InputInv'
  BY DEF InputInv, InputTypes, InputKept, InOrder, FramesFirst, AllGood, FirstBroken

LEMMA OutputUnchanged ==
  ASSUME OutputInv, send' = send, out' = out
  PROVE  OutputInv'
  BY DEF OutputInv

LEMMA ConnUnchanged ==
  ASSUME ConnInv, recv' = recv, ConnTypes', conn'.illegal = conn.illegal,
         conn'.decoding = conn.decoding
  PROVE  ConnInv'
  BY DEF ConnInv, BannedAtOnce, Incomplete, RecvBounded

-----------------------------------------------------------------------------
(***************************************************************************)
(* The theorems.                                                           *)
(***************************************************************************)

LEMMA StreamInit == Init => StreamInv
<1> SUFFICES ASSUME Init
             PROVE  StreamInv
  OBVIOUS
<1> USE DEF Init
<1>1. IsBuffer(newBuffer) /\ contents(newBuffer) = <<>> /\ newBuffer.cap = newCapacity
  BY NewBuffer
<1>2. readable(newBuffer) = 0
  BY DEF readable, newBuffer
<1>3. <<>> \in Seq(Byte) /\ <<>> \in Seq(Frames) /\ <<>> \o <<>> = <<>> /\ Len(<<>>) = 0
  OBVIOUS
<1>4. encodeAll(<<>>) = <<>>
  BY EncodeNone
<1>5. peer.bytes = <<>> /\ peer.frames = <<>> /\ peer.bad = FALSE
  OBVIOUS
<1>6. InputTypes
  BY <1>1, <1>3, <1>5 DEF InputTypes
<1>7. InputKept
  BY <1>1, <1>3, <1>4, <1>5 DEF InputKept
<1>8. SubSeq(<<>>, 1, 0) = <<>>
  BY SubSeqEmpty
<1>9. InOrder
  BY <1>3, <1>5, <1>8 DEF InOrder
<1>10. FramesFirst
  <2> SUFFICES ASSUME NEW k \in 0 .. Len(peer.frames)
               PROVE  \E r \in Seq(Byte) : encodeAll(SubSeq(peer.frames, 1, k)) \o r = peer.bytes
    BY DEF FramesFirst
  <2>1. k = 0
    BY <1>3, <1>5
  <2>2. encodeAll(SubSeq(peer.frames, 1, k)) \o <<>> = peer.bytes
    BY <2>1, <1>3, <1>4, <1>5, <1>8
  <2> QED
    BY <2>2, <1>3
<1>11. AllGood /\ FirstBroken
  BY <1>4, <1>5 DEF AllGood, FirstBroken
<1>12. OutputInv
  <2>1. kSendQueueMax \in Nat
    BY StreamAssumption
  <2>2. out \in [queued : Seq(Byte), written : Seq(Byte), responses : Nat]
    BY <1>3
  <2>3. out.written \o contents(send) = out.queued
    BY <1>1, <1>3
  <2> QED
    BY <2>1, <2>2, <2>3, <1>1, <1>2 DEF OutputInv, bounded
<1>13. ConnInv
  <2>1. conn.illegal = 0 /\ conn.decoding = FALSE /\ ConnTypes
    BY DEF ConnTypes
  <2>2. kHeaderSize \in Nat \ {0} /\ kMaxPayload \in Nat
    BY HeaderSize
  <2>3. ~ decodeThrows(recv)
    BY <2>2, <1>2 DEF decodeThrows
  <2>4. Incomplete
    BY <2>2, <1>2 DEF Incomplete
  <2>5. RecvBounded
    BY <1>1 DEF RecvBounded, bounded
  <2> QED
    BY <2>1, <2>3, <2>4, <2>5 DEF ConnInv, BannedAtOnce
<1> QED
  BY <1>6, <1>7, <1>9, <1>10, <1>11, <1>12, <1>13 DEF StreamInv, InputInv

LEMMA StreamNext == StreamInv /\ [Next]_vars => StreamInv'
<1> SUFFICES ASSUME StreamInv, [Next]_vars
             PROVE  StreamInv'
  OBVIOUS
<1>0. InputInv /\ OutputInv /\ ConnInv /\ InputTypes /\ ConnTypes
  BY DEF StreamInv, InputInv, ConnInv
<1>1. ASSUME NEW f \in Frames, PeerSends(f)
      PROVE  StreamInv'
  <2>1. InputInv'
    BY <1>0, <1>1, PeerSendsInput
  <2>2. recv' = recv /\ send' = send /\ out' = out /\ conn' = conn
    BY <1>1 DEF PeerSends, transmit
  <2>3. ConnInv' /\ OutputInv'
    BY <2>2, <1>0, ConnUnchanged, OutputUnchanged DEF ConnTypes
  <2> QED
    BY <2>1, <2>3 DEF StreamInv
<1>2. ASSUME NEW f \in Frames, NEW n \in BadLengths, PeerSendsBroken(n, f)
      PROVE  StreamInv'
  <2>1. InputInv'
    BY <1>0, <1>2, PeerSendsBrokenInput
  <2>2. recv' = recv /\ send' = send /\ out' = out /\ conn' = conn
    BY <1>2 DEF PeerSendsBroken, transmit
  <2>3. ConnInv' /\ OutputInv'
    BY <2>2, <1>0, ConnUnchanged, OutputUnchanged DEF ConnTypes
  <2> QED
    BY <2>1, <2>3 DEF StreamInv
<1>3. ASSUME NEW data \in Responses, SendRaw(data)
      PROVE  StreamInv'
  <2>1. OutputInv'
    BY <1>0, <1>3, SendRawOutput
  <2>2. /\ wire' = wire /\ inbox' = inbox /\ recv' = recv /\ peer' = peer /\ got' = got
        /\ conn' = conn \/ conn' = close(conn)
    BY <1>3 DEF SendRaw
  <2>3. InputInv'
    BY <2>2, <1>0, InputUnchanged
  <2>4. ConnTypes' /\ conn'.illegal = conn.illegal /\ conn'.decoding = conn.decoding
    <3>1. CASE conn' = conn
      BY <3>1, <1>0 DEF ConnTypes
    <3>2. CASE conn' = close(conn)
      BY <3>2, <1>0, CloseFacts DEF ConnTypes
    <3> QED
      BY <3>1, <3>2, <2>2
  <2>5. ConnInv'
    BY <2>2, <2>4, <1>0, ConnUnchanged
  <2> QED
    BY <2>1, <2>3, <2>5 DEF StreamInv
<1>4. ASSUME NEW n \in 1 .. Len(wire), Arrive(n)
      PROVE  StreamInv'
  <2>1. InputInv'
    BY <1>0, <1>4, ArriveInput
  <2>2. recv' = recv /\ send' = send /\ out' = out /\ conn' = conn
    BY <1>4 DEF Arrive
  <2>3. ConnInv' /\ OutputInv'
    BY <2>2, <1>0, ConnUnchanged, OutputUnchanged DEF ConnTypes
  <2> QED
    BY <2>1, <2>3 DEF StreamInv
<1>5. ASSUME NEW n \in 1 .. readable(send), OnWritable(n)
      PROVE  StreamInv'
  <2>1. OutputInv'
    BY <1>0, <1>5, OnWritableOutput
  <2>2. wire' = wire /\ inbox' = inbox /\ recv' = recv /\ peer' = peer /\ got' = got /\ conn' = conn
    BY <1>5 DEF OnWritable
  <2>3. InputInv' /\ ConnInv'
    BY <2>2, <1>0, InputUnchanged, ConnUnchanged DEF ConnTypes
  <2> QED
    BY <2>1, <2>3 DEF StreamInv
<1>6. CASE OnReadable
  <2>1. InputInv' /\ (recv'.cap = recv.cap \/ recv'.cap < 2 * (readable(recv) + Chunk))
    BY <1>0, <1>6, OnReadableInput
  <2>2. recv'.cap \in Nat
    BY <2>1 DEF InputInv, InputTypes, IsBuffer
  <2>3. ConnInv'
    BY <2>1, <2>2, <1>0, <1>6, OnReadableConn
  <2>4. send' = send /\ out' = out
    BY <1>6 DEF OnReadable
  <2> QED
    BY <2>1, <2>3, <2>4, <1>0, OutputUnchanged DEF StreamInv
<1>7. CASE Decode
  <2>1. InputInv' /\ recv'.cap = recv.cap
    BY <1>0, <1>7, DecodeInput
  <2>2. ConnInv'
    BY <2>1, <1>0, <1>7, DecodeConn
  <2>3. send' = send /\ out' = out
    BY <1>7 DEF Decode
  <2> QED
    BY <2>1, <2>2, <2>3, <1>0, OutputUnchanged DEF StreamInv
<1>8. CASE DecodeEnds
  <2>1. /\ wire' = wire /\ inbox' = inbox /\ recv' = recv /\ peer' = peer /\ got' = got
        /\ send' = send /\ out' = out
    BY <1>8 DEF DecodeEnds
  <2>2. ConnInv'
    BY <1>0, <1>8, DecodeEndsConn
  <2> QED
    BY <2>1, <2>2, <1>0, InputUnchanged, OutputUnchanged DEF StreamInv
<1>9. CASE DecodeFails
  <2>1. /\ wire' = wire /\ inbox' = inbox /\ recv' = recv /\ peer' = peer /\ got' = got
        /\ send' = send /\ out' = out
    BY <1>9 DEF DecodeFails
  <2>2. ConnInv'
    BY <1>0, <1>9, DecodeFailsConn
  <2> QED
    BY <2>1, <2>2, <1>0, InputUnchanged, OutputUnchanged DEF StreamInv
<1>10. CASE Cleanup
  <2>1. /\ wire' = wire /\ inbox' = inbox /\ recv' = recv /\ peer' = peer /\ got' = got
        /\ send' = send /\ out' = out /\ conn' = [conn EXCEPT !.state = "gone"]
    BY <1>10 DEF Cleanup
  <2>2. ConnTypes' /\ conn'.illegal = conn.illegal /\ conn'.decoding = conn.decoding
    BY <2>1, <1>0 DEF ConnTypes
  <2>3. ConnInv'
    BY <2>1, <2>2, <1>0, ConnUnchanged
  <2> QED
    BY <2>1, <2>3, <1>0, InputUnchanged, OutputUnchanged DEF StreamInv
<1>11. CASE UNCHANGED vars
  <2>1. /\ wire' = wire /\ inbox' = inbox /\ recv' = recv /\ peer' = peer /\ got' = got
        /\ send' = send /\ out' = out /\ conn' = conn
    BY <1>11 DEF vars
  <2>2. ConnInv'
    BY <2>1, <1>0, ConnUnchanged DEF ConnTypes
  <2> QED
    BY <2>1, <2>2, <1>0, InputUnchanged, OutputUnchanged DEF StreamInv
<1> QED
  BY <1>1, <1>2, <1>3, <1>4, <1>5, <1>6, <1>7, <1>8, <1>9, <1>10, <1>11
  DEF Next, Writing, Arriving

\* The invariant holds whatever the peer sends and however its bytes are cut.
THEOREM StreamInvariance == Spec => []StreamInv
  BY StreamInit, StreamNext, PTL DEF Spec

\* No byte is lost, repeated or moved by Buffer's compaction and growth, and decode returns
\* exactly the peer's frames, in order, up to the first broken one.
THEOREM BytesAreConserved == Spec => []StreamConserved
<1>1. StreamInv => StreamConserved
  <2> SUFFICES ASSUME StreamInv
               PROVE  StreamConserved
    OBVIOUS
  <2>1. /\ wire \in Bytes /\ inbox \in Bytes /\ contents(recv) \in Bytes /\ encodeAll(got) \in Bytes
    BY ContentsFacts, EncodeAllType DEF StreamInv, InputInv, InputTypes, Bytes
  <2>2. cat(cat(cat(encodeAll(got), contents(recv)), inbox), wire)
          = cat(encodeAll(got), cat(contents(recv), cat(inbox, wire)))
    BY <2>1, CatFacts
  <2>3. encodeAll(got) \o contents(recv) \o inbox \o wire = peer.bytes
    BY <2>2 DEF cat, StreamInv, InputInv, InputKept
  <2>4. out.written \o contents(send) = out.queued
    BY DEF StreamInv, OutputInv
  <2>5. IsPrefix(got, peer.frames)
    <3>1. SubSeq(got, 1, Len(got)) = got
      BY SubSeqFull DEF StreamInv, InputInv, InputTypes
    <3> QED
      BY <3>1 DEF IsPrefix, StreamInv, InputInv, InOrder
  <2> QED
    BY <2>3, <2>4, <2>5 DEF StreamConserved
<1> QED
  BY <1>1, StreamInvariance, PTL

\* onReadable bans a connection in the read that completes a broken header.
THEOREM BrokenIsBanned == Spec => []BannedAtOnce
<1>1. StreamInv => BannedAtOnce
  BY DEF StreamInv, ConnInv
<1> QED
  BY <1>1, StreamInvariance, PTL

\* Buffer's doubling and sendRaw's limit bound a connection's memory.
THEOREM MemoryIsBounded == Spec => []CapacityBounded
<1>1. StreamInv => CapacityBounded
  BY DEF StreamInv, ConnInv, RecvBounded, OutputInv, CapacityBounded
<1> QED
  BY <1>1, StreamInvariance, PTL

\* Adding bytes and taking them are the steps of a queue.
LEMMA QueueSteps ==
  ASSUME NEW q \in Seq(Byte), NEW r,
         \/ \E x \in Seq(Byte) : r = q \o x
         \/ \E n \in 0 .. Len(q) : r = SubSeq(q, n + 1, Len(q))
         \/ r = q
  PROVE  \/ Len(r) >= Len(q) /\ SubSeq(r, 1, Len(q)) = q
         \/ \E n \in 0 .. Len(q) : r = SubSeq(q, n + 1, Len(q))
<1>1. SubSeq(q, 1, Len(q)) = q /\ Len(q) \in Nat
  BY SubSeqFull
<1>2. ASSUME NEW x \in Seq(Byte), r = q \o x
      PROVE  Len(r) >= Len(q) /\ SubSeq(r, 1, Len(q)) = q
  <2>1. Len(q \o x) = Len(q) + Len(x) /\ Len(x) \in Nat
    OBVIOUS
  <2>2. piece(q \o x, 0, Len(q)) = piece(q, 0, Len(q))
    BY <1>1, FrontPiece
  <2>3. 0 + 1 = 1 /\ 0 + Len(q) = Len(q)
    BY <1>1
  <2>4. SubSeq(q \o x, 1, Len(q)) = SubSeq(q, 1, Len(q))
    BY <2>2, <2>3 DEF piece
  <2>5. Len(q \o x) >= Len(q) /\ SubSeq(q \o x, 1, Len(q)) = q
    BY <2>1, <2>4, <1>1
  <2> QED
    BY <2>5, <1>2, Zenon
<1>3. CASE r = q
  BY <1>1, <1>3
<1> QED
  BY <1>2, <1>3

\* Every step adds bytes to the receive buffer, takes bytes from it or leaves it alone.
LEMMA RecvSteps ==
  ASSUME StreamInv, [Next]_vars
  PROVE  \/ \E x \in Seq(Byte) : contents(recv)' = contents(recv) \o x
         \/ \E n \in 0 .. Len(contents(recv)) :
              contents(recv)' = SubSeq(contents(recv), n + 1, Len(contents(recv)))
         \/ contents(recv)' = contents(recv)
<1>1. CASE OnReadable
  BY <1>1, OnReadableInput DEF StreamInv
<1>2. CASE Decode
  BY <1>2, DecodeInput DEF StreamInv
<1>3. CASE ~ OnReadable /\ ~ Decode
  <2>1. recv' = recv
    BY <1>3 DEF Next, Writing, Arriving, PeerSends, PeerSendsBroken, transmit, SendRaw, Arrive,
                OnWritable, DecodeEnds, DecodeFails, Cleanup, vars
  <2> QED
    BY <2>1
<1> QED
  BY <1>1, <1>2, <1>3

\* The same of the send buffer.
LEMMA SendSteps ==
  ASSUME StreamInv, [Next]_vars
  PROVE  \/ \E x \in Seq(Byte) : contents(send)' = contents(send) \o x
         \/ \E n \in 0 .. Len(contents(send)) :
              contents(send)' = SubSeq(contents(send), n + 1, Len(contents(send)))
         \/ contents(send)' = contents(send)
<1>1. ASSUME NEW data \in Responses, SendRaw(data)
      PROVE  \E x \in Seq(Byte) : contents(send)' = contents(send) \o x
  BY <1>1, SendRawOutput DEF StreamInv
<1>2. ASSUME NEW n \in 1 .. readable(send), OnWritable(n)
      PROVE  \E k \in 0 .. Len(contents(send)) :
               contents(send)' = SubSeq(contents(send), k + 1, Len(contents(send)))
  BY <1>2, OnWritableOutput DEF StreamInv
<1>3. CASE ~ (\E data \in Responses : SendRaw(data)) /\ ~ (\E n \in 1 .. readable(send) : OnWritable(n))
  <2>1. send' = send
    BY <1>3 DEF Next, Writing, Arriving, PeerSends, PeerSendsBroken, transmit, Arrive,
                OnReadable, Decode, DecodeEnds, DecodeFails, Cleanup, vars
  <2> QED
    BY <2>1
<1> QED
  BY <1>1, <1>2, <1>3

\* Buffer, with its indices, its compaction and its growth, implements the queue of bytes:
\* both of a connection's buffers refine ByteQueue.
THEOREM BuffersImplementQueues == Spec => BuffersAreQueues
<1>1. Init => RecvQueue!Init /\ SendQueue!Init
  BY NewBuffer DEF Init, RecvQueue!Init, SendQueue!Init
<1>2. StreamInv /\ [Next]_vars => [RecvQueue!Next]_(contents(recv))
  <2> SUFFICES ASSUME StreamInv, [Next]_vars
               PROVE  RecvQueue!Next
    OBVIOUS
  <2>1. contents(recv) \in Seq(Byte)
    BY ContentsFacts DEF StreamInv, InputInv, InputTypes
  <2>2. \/ Len(contents(recv)') >= Len(contents(recv))
             /\ SubSeq(contents(recv)', 1, Len(contents(recv))) = contents(recv)
        \/ \E n \in 0 .. Len(contents(recv)) :
             contents(recv)' = SubSeq(contents(recv), n + 1, Len(contents(recv)))
    BY <2>1, RecvSteps, QueueSteps
  <2> QED
    BY <2>2 DEF RecvQueue!Next, RecvQueue!Add, RecvQueue!Take
<1>3. StreamInv /\ [Next]_vars => [SendQueue!Next]_(contents(send))
  <2> SUFFICES ASSUME StreamInv, [Next]_vars
               PROVE  SendQueue!Next
    OBVIOUS
  <2>1. contents(send) \in Seq(Byte)
    BY ContentsFacts DEF StreamInv, OutputInv
  <2>2. \/ Len(contents(send)') >= Len(contents(send))
             /\ SubSeq(contents(send)', 1, Len(contents(send))) = contents(send)
        \/ \E n \in 0 .. Len(contents(send)) :
             contents(send)' = SubSeq(contents(send), n + 1, Len(contents(send)))
    BY <2>1, SendSteps, QueueSteps
  <2> QED
    BY <2>2 DEF SendQueue!Next, SendQueue!Add, SendQueue!Take
<1> QED
  BY <1>1, <1>2, <1>3, StreamInvariance, PTL
  DEF Spec, BuffersAreQueues, RecvQueue!Spec, SendQueue!Spec

=============================================================================
