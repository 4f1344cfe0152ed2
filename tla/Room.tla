-------------------------------- MODULE Room --------------------------------
(***************************************************************************)
(* Room (src/game/room.{h,cpp}): the members of a room, their ready flags, *)
(* the running count of them, and the room's state.  A room is a record;   *)
(* each method that the server calls is an operator on it.                 *)
(***************************************************************************)
EXTENDS Naturals, FiniteSets

CONSTANT RoomSize   \* max_players_: match_room_size, 10 in GameConfig

ASSUME RoomSizeAssumption == RoomSize \in Nat \ {0}

RoomStates == {"CREATED", "WAITING_PLAYERS", "LOADING", "RUNNING", "SETTLING", "DESTROYED"}

\* ready maps every member to its ready flag; readyCount is ready_count_.
newRoom == [state |-> "CREATED", ready |-> [p \in {} |-> FALSE], readyCount |-> 0]

members(room) == DOMAIN room.ready

isFull(room) == Cardinality(members(room)) >= RoomSize

\* The codes addPlayer returns: 40003 in a wrong state, 40002 when full.
addPlayerError(room) ==
  IF room.state \notin {"CREATED", "WAITING_PLAYERS"} THEN 40003
  ELSE IF isFull(room) THEN 40002 ELSE 0

\* Mutant: a new member resets the count but not the others' flags.
addPlayerResetsCount(room, p) ==
  IF addPlayerError(room) # 0 THEN room
  ELSE [state |-> "WAITING_PLAYERS",
        ready |-> [q \in members(room) \cup {p} |-> IF q = p THEN FALSE ELSE room.ready[q]],
        readyCount |-> 0]

\* players_[player_id] = {.., false}: a member that is added again loses its
\* ready flag, and ready_count_ is left as it is.
addPlayer(room, p) ==
  IF addPlayerError(room) # 0 THEN room
  ELSE [state |-> "WAITING_PLAYERS",
        ready |-> [q \in members(room) \cup {p} |-> IF q = p THEN FALSE ELSE room.ready[q]],
        readyCount |-> room.readyCount]

playerReady(room, p) ==
  IF p \notin members(room) THEN room
  ELSE IF room.ready[p] THEN room
  ELSE [state |-> room.state,
        ready |-> [room.ready EXCEPT ![p] = TRUE],
        readyCount |-> room.readyCount + 1]

allReady(room) == room.readyCount = Cardinality(members(room)) /\ members(room) # {}

\* Only from LOADING, which startLoading would set and nobody calls.
startBattle(room) ==
  IF room.state = "LOADING" /\ allReady(room)
  THEN [state |-> "RUNNING", ready |-> room.ready, readyCount |-> room.readyCount]
  ELSE room

=============================================================================
