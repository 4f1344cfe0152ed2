------------------------------ MODULE Broadcast ------------------------------
(***************************************************************************)
(* What a LogicWorker's tick sends (src/game/logic_worker.cpp,             *)
(* tick_engine.cpp, broadcaster.cpp): for one room after the other, the    *)
(* players move, each one's own state is queued as an override and its     *)
(* place in the worker's AoiGrid is updated; then the state of the room is *)
(* sent to everyone near a member, and the overrides are flushed.          *)
(*                                                                         *)
(* The grid and the broadcaster belong to the worker and serve all of its  *)
(* rooms; nobody is ever removed from the grid.  A player may be in two    *)
(* rooms.  The critical messages of a hit are left out: they go to player  *)
(* 0, whom the send callback does not find.                                *)
(***************************************************************************)
EXTENDS AoiGrid, Functions, FiniteSets

CONSTANTS
  Players, Rooms,
  Spread,   \* 50, the distance at which players are spawned
  Steps,    \* the displacements a move may make in a tick
  World,    \* bound on the points that players move to
  MaxStarts \* bound on the battles started

ASSUME BroadcastAssumption ==
  /\ \A point \in Steps \cup World : point \in Int \X Int
  /\ Spread \in Nat
  /\ MaxStarts \in Nat

VARIABLES
  rooms,      \* rooms_: where each player of a room is
  aoi,        \* aoi_
  overrides,  \* bc_.overrides_: the room whose tick queued a player's state
  pc,         \* the room whose tick is under way, with the players still to visit,
              \* or whose tick has been sent
  sent,       \* history: what that room's tick has sent, and to whom
  last,       \* history: the point each player's place in the grid is from
  starts      \* the battles started

vars == <<rooms, aoi, overrides, pc, sent, last, starts>>

Init ==
  /\ rooms = EmptyMap
  /\ aoi = emptyGrid
  /\ overrides = EmptyMap
  /\ pc = [at |-> "idle"]
  /\ sent = {}
  /\ last = EmptyMap
  /\ starts = 0

-----------------------------------------------------------------------------

\* startBattle spreads the players along a line, in the order of its map, and addRoom
\* hands them over between two ticks.
StartBattle(r, P) ==
  /\ pc.at # "tick"
  /\ starts < MaxStarts
  /\ starts' = starts + 1
  /\ \E order \in Bijection(P, 0 .. Cardinality(P) - 1) :
       rooms' = Put(rooms, r, [p \in P |-> <<order[p] * Spread, 0>>])
  /\ pc' = [at |-> "idle"]
  /\ sent' = {}
  /\ UNCHANGED <<aoi, overrides, last>>

\* processTick for one room: its commands move the players.
Tick(r) ==
  /\ pc.at # "tick"
  /\ r \in DOMAIN rooms
  /\ \E points \in [DOMAIN rooms[r] -> World] :
       /\ \A p \in DOMAIN points : \E step \in Steps :
            points[p] = <<rooms[r][p][1] + step[1], rooms[r][p][2] + step[2]>>
       /\ rooms' = Put(rooms, r, points)
  /\ pc' = [at |-> "tick", room |-> r, todo |-> DOMAIN rooms[r]]
  /\ sent' = {}
  /\ UNCHANGED <<aoi, overrides, last, starts>>

\* One turn of its last loop, in the order of the map: the player's state is queued,
\* replacing what is queued for it, and its place in the grid is updated.
Visit(p) ==
  /\ pc.at = "tick"
  /\ p \in pc.todo
  /\ LET point == rooms[pc.room][p]
     IN  /\ overrides' = Put(overrides, p, pc.room)
         /\ aoi' = update(aoi, p, point)
         /\ last' = Put(last, p, point)
  /\ pc' = [at |-> "tick", room |-> pc.room, todo |-> pc.todo \ {p}]
  /\ UNCHANGED <<rooms, sent, starts>>

\* broadcastToAoi for each member of the room.
stateSent(r) == {<<q, "state", r>> : q \in UNION {getNearby(aoi, p) : p \in DOMAIN rooms[r]}}

\* flushOverrides
overridesSent == {<<p, "own", overrides[p]>> : p \in DOMAIN overrides}

\* The rest of the room's tick: the room's state to everyone near a member, and then
\* what is queued for single players.
Report ==
  /\ pc.at = "tick"
  /\ pc.todo = {}
  /\ sent' = stateSent(pc.room) \cup overridesSent
  /\ overrides' = EmptyMap
  /\ pc' = [at |-> "sent", room |-> pc.room]
  /\ UNCHANGED <<rooms, aoi, last, starts>>

Next ==
  \/ \E r \in Rooms, P \in SUBSET Players \ {{}} : StartBattle(r, P)
  \/ \E r \in Rooms : Tick(r)
  \/ \E p \in Players : Visit(p)
  \/ Report

Spec == Init /\ [][Next]_vars

-----------------------------------------------------------------------------
(* Properties *)

\* The distance of two points along the axis on which it is larger.
Distance(a, b) ==
  LET along(i) == IF a[i] < b[i] THEN b[i] - a[i] ELSE a[i] - b[i]
  IN  IF along(1) < along(2) THEN along(2) ELSE along(1)

\* Whoever is within a cell's size of a player is near it, on both sides of the origin
\* and after any sequence of moves between cells and rooms, and nobody two cells away or
\* further is: cellOf, update and getNearby together (aoi_grid.cpp).
InterestRange ==
  \A p, q \in DOMAIN last :
    /\ Distance(last[p], last[q]) <= kCellSize => q \in getNearby(aoi, p)
    /\ q \in getNearby(aoi, p) => Distance(last[p], last[q]) < 2 * kCellSize

\* When a room's tick has been sent, each of its members has got the state of the room
\* and its own, which is this room's and not one left from another room of the worker;
\* others have got at most the state of the room (LogicWorker::tick, Broadcaster).
TickReported ==
  pc.at = "sent" =>
    /\ \A p \in DOMAIN rooms[pc.room] :
         {<<p, "state", pc.room>>, <<p, "own", pc.room>>} \subseteq sent
    /\ \A m \in sent : m[3] = pc.room /\ (m[2] = "own" => m[1] \in DOMAIN rooms[pc.room])

=============================================================================
