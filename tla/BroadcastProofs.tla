-------------------------- MODULE BroadcastProofs --------------------------
(***************************************************************************)
(* Proofs about the grid and the broadcasts of a worker, for any players,  *)
(* any rooms, any cell size and any movement.                              *)
(*                                                                         *)
(* InterestRange needs that grid_ and player_cells_ are inverse to each    *)
(* other, cell by cell, and that a player's cell is that of the point its  *)
(* place is from; then it is arithmetic.  TickReported needs what is       *)
(* queued in the middle of a tick: the states of the players that the tick *)
(* has visited, and nothing left from an earlier one.                      *)
(***************************************************************************)
EXTENDS Broadcast, TLAPS

Point == Int \X Int

\* grid_ has every player in the cell that player_cells_ names, and in no other.
Matched(g) ==
  /\ \A cell \in DOMAIN g.grid : \A p \in g.grid[cell] :
       p \in DOMAIN g.cells /\ g.cells[p] = cell
  /\ \A p \in DOMAIN g.cells :
       g.cells[p] \in DOMAIN g.grid /\ p \in g.grid[g.cells[p]]

\* A player's cell is that of its last point.
Located ==
  /\ DOMAIN aoi.cells = DOMAIN last
  /\ \A p \in DOMAIN last : last[p] \in Point /\ aoi.cells[p] = cellOf(last[p])

\* What a tick has queued when it has some players still to visit.
Queued ==
  /\ pc.at = "tick" =>
       /\ pc.todo \subseteq DOMAIN rooms[pc.room]
       /\ \A p \in DOMAIN rooms[pc.room] : rooms[pc.room][p] \in Point
       /\ DOMAIN overrides = DOMAIN rooms[pc.room] \ pc.todo
       /\ \A p \in DOMAIN overrides : overrides[p] = pc.room /\ p \in DOMAIN last
  /\ pc.at # "tick" => DOMAIN overrides = {}

BInv == Matched(aoi) /\ Located /\ Queued /\ TickReported

-----------------------------------------------------------------------------
(***************************************************************************)
(* Arithmetic.                                                             *)
(***************************************************************************)

\* Two numbers at most K apart are in the same or in adjacent intervals of length K.
LEMMA NearCells ==
  ASSUME NEW K \in Nat \ {0}, NEW a \in Int, NEW b \in Int, b - a <= K
  PROVE  (b \div K) - (a \div K) <= 1
<1> DEFINE q == a \div K
           r == b \div K
<1>1. q \in Int /\ r \in Int /\ a < K * q + K /\ K * r <= b
  OBVIOUS
<1> HIDE DEF q, r
<1>2. K * r < K * (q + 2)
  BY <1>1
<1>3. r < q + 2
  BY <1>1, <1>2
<1> QED
  BY <1>1, <1>3 DEF q, r

\* Two numbers in the same or in adjacent intervals are less than two lengths apart.
LEMMA NearPoints ==
  ASSUME NEW K \in Nat \ {0}, NEW a \in Int, NEW b \in Int, (b \div K) - (a \div K) <= 1
  PROVE  b - a < 2 * K
<1> DEFINE q == a \div K
           r == b \div K
<1>1. q \in Int /\ r \in Int /\ K * q <= a /\ b < K * r + K /\ r <= q + 1
  OBVIOUS
<1> HIDE DEF q, r
<1>2. K * r <= K * (q + 1)
  BY <1>1
<1> QED
  BY <1>1, <1>2

-----------------------------------------------------------------------------
(***************************************************************************)
(* The grid.                                                               *)
(***************************************************************************)

\* The cell of a point is a pair of integers.
LEMMA CellType ==
  ASSUME NEW point \in Point
  PROVE  cellOf(point) \in Int \X Int
<1>1. point[1] \in Int /\ point[2] \in Int
  BY DEF Point
<1>2. point[1] \div kCellSize \in Int /\ point[2] \div kCellSize \in Int
  BY <1>1, CellAssumption
<1> QED
  BY <1>2 DEF cellOf

\* A cell around another is at most one away from it along each axis.
LEMMA AroundCell ==
  ASSUME NEW a \in Int \X Int, NEW b \in Int \X Int
  PROVE  b \in around(a) <=> /\ b[1] - a[1] \in -1 .. 1
                            /\ b[2] - a[2] \in -1 .. 1
<1>1. a[1] \in Int /\ a[2] \in Int /\ b[1] \in Int /\ b[2] \in Int /\ b = <<b[1], b[2]>>
  OBVIOUS
<1>2. ASSUME b \in around(a)
      PROVE  b[1] - a[1] \in -1 .. 1 /\ b[2] - a[2] \in -1 .. 1
  <2>1. PICK dx \in -1 .. 1, dy \in -1 .. 1 : b = <<a[1] + dx, a[2] + dy>>
    BY <1>2 DEF around
  <2>2. b[1] = a[1] + dx /\ b[2] = a[2] + dy
    BY <2>1
  <2> QED
    BY <2>2, <1>1
<1>3. ASSUME b[1] - a[1] \in -1 .. 1, b[2] - a[2] \in -1 .. 1
      PROVE  b \in around(a)
  <2>1. b[1] = a[1] + (b[1] - a[1]) /\ b[2] = a[2] + (b[2] - a[2])
    BY <1>1
  <2>2. b = <<a[1] + (b[1] - a[1]), a[2] + (b[2] - a[2])>>
    BY <2>1, <1>1
  <2> QED
    BY <2>2, <1>3 DEF around
<1> QED
  BY <1>2, <1>3

\* update moves one player, from the cell that grid_ has it in to that of the point.
LEMMA UpdateGrid ==
  ASSUME NEW g, Matched(g), NEW p, NEW point
  PROVE  /\ Matched(update(g, p, point))
         /\ DOMAIN update(g, p, point).cells = DOMAIN g.cells \cup {p}
         /\ update(g, p, point).cells[p] = cellOf(point)
         /\ \A q \in DOMAIN g.cells : q # p => update(g, p, point).cells[q] = g.cells[q]
<1> DEFINE u == update(g, p, point)
           cell == cellOf(point)
<1>1. CASE p \in DOMAIN g.cells /\ g.cells[p] = cell
  <2>1. u = g
    BY <1>1 DEF update
  <2> QED
    BY <2>1, <1>1
<1>2. CASE ~ (p \in DOMAIN g.cells /\ g.cells[p] = cell)
  <2> DEFINE old == IF p \in DOMAIN g.cells THEN leave(g, p) ELSE g.grid
  <2>1. u.grid = enter(old, cell, p) /\ u.cells = Put(g.cells, p, cell)
    <3>1. CASE p \in DOMAIN g.cells
      BY <3>1, <1>2 DEF update
    <3>2. CASE p \notin DOMAIN g.cells
      BY <3>2 DEF update
    <3> QED
      BY <3>1, <3>2
  <2>2. /\ \A c \in DOMAIN old : c \in DOMAIN g.grid /\ old[c] = g.grid[c] \ {p}
        /\ \A c \in DOMAIN g.grid : c \notin DOMAIN old => g.grid[c] = {p}
    <3>1. CASE p \notin DOMAIN g.cells
      BY <3>1 DEF Matched
    <3>2. CASE p \in DOMAIN g.cells
      <4> DEFINE d == g.cells[p]
      <4>1. d \in DOMAIN g.grid /\ \A c \in DOMAIN g.grid : c # d => p \notin g.grid[c]
        BY <3>2 DEF Matched
      <4>2. CASE g.grid[d] = {p}
        <5>1. old = Erase(g.grid, {d})
          BY <3>2, <4>2 DEF leave
        <5> QED
          BY <5>1, <4>1, <4>2 DEF Erase
      <4>3. CASE g.grid[d] # {p}
        <5>1. old = Put(g.grid, d, g.grid[d] \ {p})
          BY <3>2, <4>3 DEF leave
        <5> HIDE DEF old
        <5> QED
          BY <5>1, <4>1 DEF Put
      <4> QED
        BY <4>2, <4>3
    <3> QED
      BY <3>1, <3>2
  <2> HIDE DEF u, old, cell
  <2>3. /\ DOMAIN u.cells = DOMAIN g.cells \cup {p} /\ u.cells[p] = cell
        /\ \A q \in DOMAIN g.cells : q # p => u.cells[q] = g.cells[q]
    BY <2>1 DEF Put
  <2>4. /\ DOMAIN u.grid = DOMAIN old \cup {cell}
        /\ \A c \in DOMAIN old : c # cell => u.grid[c] = old[c]
        /\ u.grid[cell] = {p} \cup (IF cell \in DOMAIN old THEN old[cell] ELSE {})
    BY <2>1 DEF enter, Put
  <2>5. ASSUME NEW c \in DOMAIN u.grid, NEW q \in u.grid[c]
        PROVE  q \in DOMAIN u.cells /\ u.cells[q] = c
    <3>1. CASE q = p
      <4>1. c = cell
        BY <3>1, <2>2, <2>4
      <4> QED
        BY <4>1, <3>1, <2>3
    <3>2. CASE q # p
      <4>1. c \in DOMAIN old /\ q \in old[c]
        BY <3>2, <2>4
      <4>2. c \in DOMAIN g.grid /\ q \in g.grid[c]
        BY <4>1, <2>2
      <4>3. q \in DOMAIN g.cells /\ g.cells[q] = c
        BY <4>2 DEF Matched
      <4> QED
        BY <4>3, <3>2, <2>3
    <3> QED
      BY <3>1, <3>2
  <2>6. ASSUME NEW q \in DOMAIN u.cells
        PROVE  u.cells[q] \in DOMAIN u.grid /\ q \in u.grid[u.cells[q]]
    <3>1. CASE q = p
      BY <3>1, <2>3, <2>4
    <3>2. CASE q # p
      <4> DEFINE c == g.cells[q]
      <4>1. q \in DOMAIN g.cells /\ u.cells[q] = c /\ c \in DOMAIN g.grid /\ q \in g.grid[c]
        BY <3>2, <2>3 DEF Matched
      <4>2. c \in DOMAIN old /\ q \in old[c]
        BY <4>1, <3>2, <2>2
      <4> HIDE DEF c
      <4> QED
        BY <4>1, <4>2, <2>4
    <3> QED
      BY <3>1, <3>2
  <2> QED
    BY <2>3, <2>5, <2>6 DEF Matched, u, cell
<1> QED
  BY <1>1, <1>2

\* In a grid without fault, getNearby finds exactly the players in the cells around.
LEMMA NearbyCells ==
  ASSUME NEW g, Matched(g), NEW p \in DOMAIN g.cells, NEW q \in DOMAIN g.cells
  PROVE  q \in getNearby(g, p) <=> g.cells[q] \in around(g.cells[p])
<1>1. q \in getNearby(g, p) <=> \E c \in around(g.cells[p]) \cap DOMAIN g.grid : q \in g.grid[c]
  BY DEF getNearby
<1> QED
  BY <1>1 DEF Matched

\* A player is near itself.
LEMMA NearItself ==
  ASSUME NEW g, Matched(g), NEW p \in DOMAIN g.cells, g.cells[p] \in Int \X Int
  PROVE  p \in getNearby(g, p)
<1>1. g.cells[p] \in around(g.cells[p])
  <2>1. g.cells[p][1] \in Int /\ g.cells[p][2] \in Int
    OBVIOUS
  <2>2. g.cells[p][1] - g.cells[p][1] \in -1 .. 1 /\ g.cells[p][2] - g.cells[p][2] \in -1 .. 1
    BY <2>1
  <2> QED
    BY <2>2, AroundCell
<1> QED
  BY <1>1, NearbyCells

-----------------------------------------------------------------------------
(***************************************************************************)
(* The steps.                                                              *)
(***************************************************************************)

LEMMA BroadcastInit ==
  Init => BInv
<1> SUFFICES ASSUME Init
             PROVE  BInv
  OBVIOUS
<1>1. /\ aoi.grid = EmptyMap /\ aoi.cells = EmptyMap /\ last = EmptyMap
      /\ overrides = EmptyMap /\ pc.at = "idle"
  BY DEF Init, emptyGrid
<1>2. DOMAIN EmptyMap = {}
  BY DEF EmptyMap
<1> QED
  BY <1>1, <1>2 DEF BInv, Matched, Located, Queued, TickReported

LEMMA StartStep ==
  ASSUME BInv, NEW r, NEW P, StartBattle(r, P)
  PROVE  BInv'
<1>1. pc.at # "tick" /\ pc'.at = "idle" /\ UNCHANGED <<aoi, overrides, last>>
  BY DEF StartBattle
<1> QED
  BY <1>1 DEF BInv, Matched, Located, Queued, TickReported

LEMMA TickStep ==
  ASSUME BInv, NEW r, Tick(r)
  PROVE  BInv'
<1>1. /\ pc.at # "tick" /\ r \in DOMAIN rooms
      /\ pc'.at = "tick" /\ pc'.room = r /\ pc'.todo = DOMAIN rooms[r]
      /\ UNCHANGED <<aoi, overrides, last>>
  BY DEF Tick
<1>2. PICK points \in [DOMAIN rooms[r] -> World] : rooms' = Put(rooms, r, points)
  BY DEF Tick
<1>3. rooms'[r] = points
  BY <1>2 DEF Put
<1>4. DOMAIN points = DOMAIN rooms[r] /\ \A p \in DOMAIN points : points[p] \in Point
  BY <1>2, BroadcastAssumption DEF Point
<1>5. DOMAIN overrides = {}
  BY <1>1 DEF BInv, Queued
<1>6. Queued'
  BY <1>1, <1>3, <1>4, <1>5 DEF Queued
<1>7. Matched(aoi)' /\ Located' /\ TickReported'
  BY <1>1 DEF BInv, Matched, Located, TickReported
<1> QED
  BY <1>6, <1>7 DEF BInv

LEMMA VisitStep ==
  ASSUME BInv, NEW p, Visit(p)
  PROVE  BInv'
<1> DEFINE r == pc.room
           point == rooms[r][p]
<1>1. /\ pc.at = "tick" /\ p \in pc.todo
      /\ overrides' = Put(overrides, p, r)
      /\ aoi' = update(aoi, p, point)
      /\ last' = Put(last, p, point)
      /\ pc'.at = "tick" /\ pc'.room = r /\ pc'.todo = pc.todo \ {p}
      /\ UNCHANGED rooms
  BY DEF Visit
<1>2. /\ pc.todo \subseteq DOMAIN rooms[r]
      /\ \A q \in DOMAIN rooms[r] : rooms[r][q] \in Point
      /\ DOMAIN overrides = DOMAIN rooms[r] \ pc.todo
      /\ \A q \in DOMAIN overrides : overrides[q] = r /\ q \in DOMAIN last
  BY <1>1 DEF BInv, Queued
<1>3. point \in Point
  BY <1>1, <1>2
<1>4. /\ Matched(aoi')
      /\ DOMAIN aoi'.cells = DOMAIN aoi.cells \cup {p}
      /\ aoi'.cells[p] = cellOf(point)
      /\ \A q \in DOMAIN aoi.cells : q # p => aoi'.cells[q] = aoi.cells[q]
  BY <1>1, UpdateGrid DEF BInv
<1> HIDE DEF point, r
<1>5. /\ DOMAIN last' = DOMAIN last \cup {p} /\ last'[p] = point
      /\ \A q \in DOMAIN last : q # p => last'[q] = last[q]
  BY <1>1 DEF Put
<1>6. /\ DOMAIN overrides' = DOMAIN overrides \cup {p} /\ overrides'[p] = r
      /\ \A q \in DOMAIN overrides : q # p => overrides'[q] = overrides[q]
  BY <1>1 DEF Put
<1>7. Located'
  BY <1>3, <1>4, <1>5 DEF BInv, Located
<1>8. Queued'
  BY <1>1, <1>2, <1>5, <1>6 DEF Queued
<1>9. TickReported'
  BY <1>1 DEF TickReported
<1> QED
  BY <1>4, <1>7, <1>8, <1>9 DEF BInv

LEMMA ReportStep ==
  ASSUME BInv, Report
  PROVE  BInv'
<1> DEFINE r == pc.room
<1>1. /\ pc.at = "tick" /\ pc.todo = {}
      /\ sent' = stateSent(r) \cup overridesSent
      /\ overrides' = EmptyMap
      /\ pc'.at = "sent" /\ pc'.room = r
      /\ UNCHANGED <<rooms, aoi, last>>
  BY DEF Report
<1>2. /\ DOMAIN overrides = DOMAIN rooms[r]
      /\ \A p \in DOMAIN overrides : overrides[p] = r /\ p \in DOMAIN last
  BY <1>1 DEF BInv, Queued
<1> HIDE DEF r
<1>3. \A p \in DOMAIN rooms[r] : p \in getNearby(aoi, p)
  <2> SUFFICES ASSUME NEW p \in DOMAIN rooms[r]
               PROVE  p \in getNearby(aoi, p)
    OBVIOUS
  <2>1. p \in DOMAIN aoi.cells /\ last[p] \in Point /\ aoi.cells[p] = cellOf(last[p])
    BY <1>2 DEF BInv, Located
  <2>2. aoi.cells[p] \in Int \X Int
    BY <2>1, CellType
  <2> QED
    BY <2>1, <2>2, NearItself DEF BInv
<1>4. ASSUME NEW p \in DOMAIN rooms[r]
      PROVE  <<p, "state", r>> \in sent' /\ <<p, "own", r>> \in sent'
  <2>1. <<p, "state", r>> \in stateSent(r)
    BY <1>3 DEF stateSent
  <2>2. <<p, "own", r>> \in overridesSent
    BY <1>2 DEF overridesSent
  <2> QED
    BY <2>1, <2>2, <1>1
<1>5. ASSUME NEW m \in sent'
      PROVE  m[3] = r /\ (m[2] = "own" => m[1] \in DOMAIN rooms[r])
  <2>1. CASE m \in stateSent(r)
    <3>1. PICK q : m = <<q, "state", r>>
      BY <2>1 DEF stateSent
    <3> QED
      BY <3>1
  <2>2. CASE m \in overridesSent
    <3>1. PICK p \in DOMAIN overrides : m = <<p, "own", overrides[p]>>
      BY <2>2 DEF overridesSent
    <3> QED
      BY <3>1, <1>2
  <2> QED
    BY <2>1, <2>2, <1>1
<1>6. TickReported'
  BY <1>1, <1>4, <1>5 DEF TickReported
<1>7. Queued'
  BY <1>1 DEF Queued, EmptyMap
<1>8. Matched(aoi)' /\ Located'
  BY <1>1 DEF BInv, Matched, Located
<1> QED
  BY <1>6, <1>7, <1>8 DEF BInv

-----------------------------------------------------------------------------
(***************************************************************************)
(* The theorems.                                                           *)
(***************************************************************************)

\* The invariant holds in every state of the worker.
THEOREM BroadcastInvariance ==
  Spec => []BInv
<1>1. Init => BInv
  BY BroadcastInit
<1>2. BInv /\ [Next]_vars => BInv'
  <2> SUFFICES ASSUME BInv, [Next]_vars
               PROVE  BInv'
    OBVIOUS
  <2>1. ASSUME NEW r \in Rooms, NEW P \in SUBSET Players \ {{}}, StartBattle(r, P)
        PROVE  BInv'
    BY <2>1, StartStep
  <2>2. ASSUME NEW r \in Rooms, Tick(r)
        PROVE  BInv'
    BY <2>2, TickStep
  <2>3. ASSUME NEW p \in Players, Visit(p)
        PROVE  BInv'
    BY <2>3, VisitStep
  <2>4. CASE Report
    BY <2>4, ReportStep
  <2>5. CASE UNCHANGED vars
    BY <2>5 DEF vars, BInv, Matched, Located, Queued, TickReported
  <2> QED
    BY <2>1, <2>2, <2>3, <2>4, <2>5 DEF Next
<1> QED
  BY <1>1, <1>2, PTL DEF Spec

\* Whoever is within a cell's size of a player is near it and nobody two cells away is,
\* for every cell size, on both sides of the origin and after any sequence of moves.
THEOREM InterestIsRight ==
  Spec => []InterestRange
<1>1. BInv => InterestRange
  <2> SUFFICES ASSUME BInv, NEW p \in DOMAIN last, NEW q \in DOMAIN last
               PROVE  /\ Distance(last[p], last[q]) <= kCellSize => q \in getNearby(aoi, p)
                      /\ q \in getNearby(aoi, p) => Distance(last[p], last[q]) < 2 * kCellSize
    BY DEF InterestRange
  <2> DEFINE a == last[p]
             b == last[q]
             K == kCellSize
             along(i) == IF a[i] < b[i] THEN b[i] - a[i] ELSE a[i] - b[i]
  <2>1. /\ a \in Point /\ b \in Point /\ p \in DOMAIN aoi.cells /\ q \in DOMAIN aoi.cells
        /\ aoi.cells[p] = cellOf(a) /\ aoi.cells[q] = cellOf(b) /\ Matched(aoi)
    BY DEF BInv, Located
  <2>2. /\ K \in Nat \ {0} /\ K \in Int
        /\ a[1] \in Int /\ a[2] \in Int /\ b[1] \in Int /\ b[2] \in Int
    BY <2>1, CellAssumption DEF Point
  <2>3. Distance(a, b) = IF along(1) < along(2) THEN along(2) ELSE along(1)
    BY DEF Distance
  <2> HIDE DEF a, b, K
  <2>4. /\ cellOf(a) \in Int \X Int /\ cellOf(b) \in Int \X Int
        /\ cellOf(a)[1] = a[1] \div K /\ cellOf(a)[2] = a[2] \div K
        /\ cellOf(b)[1] = b[1] \div K /\ cellOf(b)[2] = b[2] \div K
    BY <2>1, CellType DEF cellOf, K
  <2>5. ASSUME NEW i \in 1 .. 2
        PROVE  /\ a[i] \in Int /\ b[i] \in Int /\ a[i] \div K \in Int /\ b[i] \div K \in Int
               /\ along(i) <= K => (b[i] \div K) - (a[i] \div K) \in -1 .. 1
               /\ (b[i] \div K) - (a[i] \div K) \in -1 .. 1 => along(i) < 2 * K
    <3>1. a[i] \in Int /\ b[i] \in Int
      BY <2>2
    <3>2. a[i] \div K \in Int /\ b[i] \div K \in Int
      BY <3>1, <2>2
    <3>3. ASSUME along(i) <= K
          PROVE  (b[i] \div K) - (a[i] \div K) \in -1 .. 1
      <4>1. b[i] - a[i] <= K /\ a[i] - b[i] <= K
        BY <3>1, <3>3, <2>2
      <4>2. (b[i] \div K) - (a[i] \div K) <= 1 /\ (a[i] \div K) - (b[i] \div K) <= 1
        BY <4>1, <3>1, <2>2, NearCells
      <4> QED
        BY <4>2, <3>2
    <3>4. ASSUME (b[i] \div K) - (a[i] \div K) \in -1 .. 1
          PROVE  along(i) < 2 * K
      <4>1. (b[i] \div K) - (a[i] \div K) <= 1 /\ (a[i] \div K) - (b[i] \div K) <= 1
        BY <3>4, <3>2
      <4>2. b[i] - a[i] < 2 * K /\ a[i] - b[i] < 2 * K
        BY <4>1, <3>1, <2>2, NearPoints
      <4> QED
        BY <4>2, <3>1
    <3> QED
      BY <3>1, <3>2, <3>3, <3>4
  <2> DEFINE d1 == along(1)
             d2 == along(2)
  <2>6. /\ d1 \in Int /\ d2 \in Int
        /\ Distance(a, b) = IF d1 < d2 THEN d2 ELSE d1
    BY <2>2, <2>3
  <2>7. /\ d1 <= K => (b[1] \div K) - (a[1] \div K) \in -1 .. 1
        /\ d2 <= K => (b[2] \div K) - (a[2] \div K) \in -1 .. 1
        /\ (b[1] \div K) - (a[1] \div K) \in -1 .. 1 => d1 < 2 * K
        /\ (b[2] \div K) - (a[2] \div K) \in -1 .. 1 => d2 < 2 * K
    <3>1. 1 \in 1 .. 2 /\ 2 \in 1 .. 2
      OBVIOUS
    <3> QED
      BY <3>1, <2>5
  <2> HIDE DEF d1, d2
  <2>8. q \in getNearby(aoi, p) <=> /\ (b[1] \div K) - (a[1] \div K) \in -1 .. 1
                                   /\ (b[2] \div K) - (a[2] \div K) \in -1 .. 1
    <3>1. q \in getNearby(aoi, p) <=> cellOf(b) \in around(cellOf(a))
      BY <2>1, NearbyCells
    <3>2. cellOf(b) \in around(cellOf(a)) <=> /\ cellOf(b)[1] - cellOf(a)[1] \in -1 .. 1
                                             /\ cellOf(b)[2] - cellOf(a)[2] \in -1 .. 1
      BY <2>4, AroundCell
    <3> QED
      BY <3>1, <3>2, <2>4
  <2>9. Distance(a, b) <= K => d1 <= K /\ d2 <= K
    BY <2>2, <2>6
  <2>10. d1 < 2 * K /\ d2 < 2 * K => Distance(a, b) < 2 * K
    BY <2>2, <2>6
  <2> QED
    BY <2>7, <2>8, <2>9, <2>10 DEF a, b, K
<1> QED
  BY <1>1, BroadcastInvariance, PTL

\* A tick that has been sent has reached every member with the room's state and its own,
\* and nothing of another room went out with it, for any number of rooms and of players
\* that are in several.
THEOREM TicksAreReported ==
  Spec => []TickReported
<1>1. BInv => TickReported
  BY DEF BInv
<1> QED
  BY <1>1, BroadcastInvariance, PTL

=============================================================================
