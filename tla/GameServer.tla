----------------------------- MODULE GameServer -----------------------------
(***************************************************************************)
(* GameServer (src/game/game_server.cpp) with the managers it composes:    *)
(* SessionManager, MatchManager (match_manager.cpp), RoomManager           *)
(* (room_manager.cpp), Room and the part of BattleManager that the IO      *)
(* threads run (battle_manager.cpp).                                       *)
(*                                                                         *)
(* Threads.  A frame handler and the disconnect callback run on an IO      *)
(* thread; the timer thread runs tryMatch and cleanupExpired.  A step ends *)
(* at each command to the match queue: LLEN before a room is created,      *)
(* BRPOP for every player tryMatch takes, LPUSH in joinQueue, which only   *)
(* then looks the player up and marks its session.  The other handlers are *)
(* one step each: SessionManager has no mutex, so two of its calls that    *)
(* overlap are a data race, and what may happen between the kick and the   *)
(* insertion of a login is not modelled.  Every connection may have a      *)
(* thread of its own; the steps of different threads interleave freely.    *)
(*                                                                         *)
(* The match queue is a Redis list: joinQueue pushes on the left and       *)
(* tryMatch pops on the right, a FIFO.  Only mode 0 is ever matched.       *)
(*                                                                         *)
(* A connection is its id; ids are never used again.  A connection that is *)
(* not gone may send any frame.  Responses and notifications change no     *)
(* state of the server and are left out.                                   *)
(***************************************************************************)
EXTENDS SessionManager, Room, Sequences

CONSTANTS
  MaxJoins,  \* bound on the number of MatchStart frames
  MaxReady   \* bound on ready_count_ of a room that is still entered: a player
             \* may enter and get ready again and again, and each round adds one

ASSUME RoomsAssumption ==
  /\ Rooms \subseteq Nat \ {0}
  /\ MaxJoins \in Nat
  /\ MaxReady \in Nat

VARIABLES
  gone,      \* the connections whose disconnect callback has run
  queue,     \* Redis match_queue:<mode>, oldest entry first
  joins,     \* number of MatchStart frames so far
  rooms,     \* RoomManager::rooms_
  nextRoom,  \* RoomManager::next_room_id_
  timer,     \* where the timer thread stands
  battles,   \* BattleManager::room_to_worker_ and the battle each room runs
  joining,   \* the player and the mode of each connection whose joinQueue has pushed
             \* and not yet marked the session
  up         \* the process runs: no null pointer has been dereferenced

gameVars == <<gone, queue, joins, rooms, nextRoom, timer, battles, joining, up>>

vars == <<sm, accounts, gone, queue, joins, rooms, nextRoom, timer, battles, joining, up>>

\* The timer thread is about to call LLEN, to pop the next player for a room, or
\* to clean up and sleep.
AtCheck == [pc |-> "check", room |-> NoRoom, left |-> 0]

AtCleanup == [pc |-> "cleanup", room |-> NoRoom, left |-> 0]

\* Mutant: the fill loop does not stop at zero.
AtFillForever(r, n) == [pc |-> "fill", room |-> r, left |-> n]

\* left players are still to be popped for the room.
AtFill(r, n) == IF n = 0 THEN AtCheck ELSE [pc |-> "fill", room |-> r, left |-> n]

Init ==
  /\ SMInit
  /\ gone = {}
  /\ queue = [mode \in Modes \cup {NoMode} |-> <<>>]
  /\ joins = 0
  /\ rooms = EmptyMap
  /\ nextRoom = 1
  /\ timer = AtCheck
  /\ battles = EmptyMap
  /\ joining = EmptyMap
  /\ up = TRUE

\* The loop of c takes the next frame: it is not inside joinQueue.
Free(c) == up /\ c \notin gone /\ c \notin DOMAIN joining

-----------------------------------------------------------------------------
(***************************************************************************)
(* Sessions: 1001, 1101, 5001 and the disconnect callback.                 *)
(***************************************************************************)

\* 1001.  The response is sent between the two calls.
LoginRequest(c, p, pw, sid) ==
  /\ Free(c)
  /\ sid \notin sm.issued
  /\ authenticates(accounts, p, pw)
  /\ accounts' = register(accounts, p, pw)
  /\ sm' = setState(login(sm, c, p, sid), sid, "IN_LOBBY")
  /\ UNCHANGED gameVars

\* 1101
HeartbeatRequest(c) ==
  /\ Free(c)
  /\ hasConn(sm, c)
  /\ sm' = heartbeat(sm, getByConn(sm, c))
  /\ UNCHANGED <<accounts, gameVars>>

\* 5001.  The snapshot that follows a success changes nothing here.
ReconnectRequest(c, sid) ==
  /\ Free(c)
  /\ sm' = tryReconnect(sm, sid, c)
  /\ UNCHANGED <<accounts, gameVars>>

\* BattleManager::onPlayerDisconnect
onPlayerDisconnect(bs, p, r) ==
  IF r \in DOMAIN bs
  THEN [bs EXCEPT ![r] = [players |-> bs[r].players, lost |-> bs[r].lost \cup {p}]]
  ELSE bs

\* The session is marked first, and its state is tested after that.
Disconnect(c) ==
  /\ Free(c)
  /\ gone' = gone \cup {c}
  /\ sm' = markDisconnected(sm, c)
  /\ battles' =
       IF hasConn(sm, c)
       THEN LET s == sm'.sessions[getByConn(sm, c)]
            IN  IF s.state = "IN_BATTLE" /\ s.room # NoRoom
                THEN onPlayerDisconnect(battles, s.player, s.room)
                ELSE battles
       ELSE battles
  /\ UNCHANGED <<accounts, queue, joins, rooms, nextRoom, timer, joining, up>>

-----------------------------------------------------------------------------
(***************************************************************************)
(* Matching: 2001, 2003 and the timer thread.                              *)
(***************************************************************************)

\* 2001.  joinQueue pushes first; it looks neither at the session's state nor
\* for an earlier entry of the player.
MatchStartRequest(c, mode) ==
  /\ Free(c)
  /\ hasConn(sm, c)
  /\ joins < MaxJoins
  /\ joins' = joins + 1
  /\ LET p == sm.sessions[getByConn(sm, c)].player
     IN  /\ queue' = [queue EXCEPT ![mode] = Append(@, p)]
         /\ joining' = Put(joining, c, [player |-> p, mode |-> mode])
  /\ UNCHANGED <<sm, accounts, gone, rooms, nextRoom, timer, battles, up>>

\* The push has returned.  The session is looked up through the player, and marked
\* whatever has become of it meanwhile, be it another one than that of the push.  The
\* second lookup, for the mode, is taken together with the first.
JoinMark(c) ==
  /\ up
  /\ c \in DOMAIN joining
  /\ hasPlayer(sm, joining[c].player)
  /\ LET sid == getByPlayer(sm, joining[c].player)
     IN  sm' = setMatchMode(setState(sm, sid, "MATCHING"), sid, joining[c].mode)
  /\ joining' = Erase(joining, {c})
  /\ UNCHANGED <<accounts, gone, queue, joins, rooms, nextRoom, timer, battles, up>>

\* getByPlayer returns a null pointer, which is dereferenced: the process ends.
JoinCrash(c) ==
  /\ up
  /\ c \in DOMAIN joining
  /\ ~hasPlayer(sm, joining[c].player)
  /\ up' = FALSE
  /\ UNCHANGED <<sm, accounts, gone, queue, joins, rooms, nextRoom, timer, battles, joining>>

\* 2003.  leaveQueue reverts the session; the entry stays in the queue.
MatchCancelRequest(c) ==
  /\ Free(c)
  /\ hasConn(sm, c)
  /\ LET p == sm.sessions[getByConn(sm, c)].player
     IN  sm' = IF hasPlayer(sm, p)
               THEN setMatchMode(setState(sm, getByPlayer(sm, p), "IN_LOBBY"),
                                 getByPlayer(sm, p), NoMode)
               ELSE sm
  /\ UNCHANGED <<accounts, gameVars>>

\* Mutant: a room is opened with one player too few.
MatchCheckTooFew ==
  /\ up
  /\ timer.pc = "check"
  /\ IF Len(queue[NoMode]) < RoomSize - 1
     THEN timer' = AtCleanup /\ UNCHANGED <<rooms, nextRoom>>
     ELSE /\ nextRoom \in Rooms
          /\ timer' = AtFill(nextRoom, RoomSize)
          /\ rooms' = Put(rooms, nextRoom, newRoom)
          /\ nextRoom' = nextRoom + 1
  /\ UNCHANGED <<sm, accounts, gone, queue, joins, battles, joining, up>>

\* Mutant: a full room's worth of players is not enough.
MatchCheckTooMany ==
  /\ up
  /\ timer.pc = "check"
  /\ IF Len(queue[NoMode]) <= RoomSize
     THEN timer' = AtCleanup /\ UNCHANGED <<rooms, nextRoom>>
     ELSE /\ nextRoom \in Rooms
          /\ timer' = AtFill(nextRoom, RoomSize)
          /\ rooms' = Put(rooms, nextRoom, newRoom)
          /\ nextRoom' = nextRoom + 1
  /\ UNCHANGED <<sm, accounts, gone, queue, joins, battles, joining, up>>

\* One round of tryMatch's loop condition: leave the loop, or create a room.
MatchCheck ==
  /\ up
  /\ timer.pc = "check"
  /\ IF Len(queue[NoMode]) < RoomSize
     THEN timer' = AtCleanup /\ UNCHANGED <<rooms, nextRoom>>
     ELSE /\ nextRoom \in Rooms
          /\ timer' = AtFill(nextRoom, RoomSize)
          /\ rooms' = Put(rooms, nextRoom, newRoom)
          /\ nextRoom' = nextRoom + 1
  /\ UNCHANGED <<sm, accounts, gone, queue, joins, battles, joining, up>>

\* Mutant: the player is told of the room, its session is not.
MatchPopForgetsRoom ==
  /\ up
  /\ timer.pc = "fill"
  /\ queue[NoMode] # <<>>
  /\ queue' = [queue EXCEPT ![NoMode] = Tail(@)]
  /\ LET p == Head(queue[NoMode])
         r == timer.room
     IN  IF hasPlayer(sm, p)
         THEN /\ rooms' = Put(rooms, r, addPlayer(rooms[r], p))
              /\ sm' = setState(sm, getByPlayer(sm, p), "IN_ROOM")
         ELSE UNCHANGED <<rooms, sm>>
  /\ timer' = AtFill(timer.room, timer.left - 1)
  /\ UNCHANGED <<accounts, gone, joins, nextRoom, battles, joining, up>>

\* Mutant: a player without a session is not skipped.
MatchPopUnchecked ==
  /\ up
  /\ timer.pc = "fill"
  /\ queue[NoMode] # <<>>
  /\ queue' = [queue EXCEPT ![NoMode] = Tail(@)]
  /\ LET p == Head(queue[NoMode])
         r == timer.room
     IN  /\ rooms' = Put(rooms, r, addPlayer(rooms[r], p))
         /\ sm' = IF hasPlayer(sm, p)
                  THEN setCurrentRoom(setState(sm, getByPlayer(sm, p), "IN_ROOM"),
                                      getByPlayer(sm, p), r)
                  ELSE sm
  /\ timer' = AtFill(timer.room, timer.left - 1)
  /\ UNCHANGED <<accounts, gone, joins, nextRoom, battles, joining, up>>

\* One round of its inner loop.  BRPOP blocks while the list is empty.  A player
\* without a session is skipped; what addPlayer returns is not looked at.
MatchPop ==
  /\ up
  /\ timer.pc = "fill"
  /\ queue[NoMode] # <<>>
  /\ queue' = [queue EXCEPT ![NoMode] = Tail(@)]
  /\ LET p == Head(queue[NoMode])
         r == timer.room
     IN  IF hasPlayer(sm, p)
         THEN /\ rooms' = Put(rooms, r, addPlayer(rooms[r], p))
              /\ sm' = setCurrentRoom(setState(sm, getByPlayer(sm, p), "IN_ROOM"),
                                      getByPlayer(sm, p), r)
         ELSE UNCHANGED <<rooms, sm>>
  /\ timer' = AtFill(timer.room, timer.left - 1)
  /\ UNCHANGED <<accounts, gone, joins, nextRoom, battles, joining, up>>

TimerCleanup ==
  /\ up
  /\ timer.pc = "cleanup"
  /\ sm' = cleanupExpired(sm)
  /\ timer' = AtCheck
  /\ UNCHANGED <<accounts, gone, queue, joins, rooms, nextRoom, battles, joining, up>>

-----------------------------------------------------------------------------
(***************************************************************************)
(* Rooms and battles: 3001, 3003.                                          *)
(***************************************************************************)

\* 3001.  Any logged-in player may name any room.
EnterRoomRequest(c, r) ==
  /\ Free(c)
  /\ hasConn(sm, c)
  /\ r \in DOMAIN rooms
  /\ addPlayerError(rooms[r]) = 0
  /\ rooms[r].readyCount <= MaxReady
  /\ LET sid == getByConn(sm, c)
     IN  /\ rooms' = Put(rooms, r, addPlayer(rooms[r], sm.sessions[sid].player))
         /\ sm' = setCurrentRoom(sm, sid, r)
  /\ UNCHANGED <<accounts, gone, queue, joins, nextRoom, timer, battles, joining, up>>

\* Mutant: only the members that are ready are handed over.
startedBattleReadyOnly(room) ==
  [players |-> {p \in members(room) : room.ready[p]}, lost |-> {}]

\* BattleManager::startBattle hands the room's players to a worker, replacing
\* the battle the worker may hold for the room ...
startedBattle(room) == [players |-> members(room), lost |-> {}]

\* ... and sets the session of every one of them, connected or not, to IN_BATTLE.
enterBattle(m, P) ==
  LET here == {p \in P : hasPlayer(m, p)}
      X == {m.playerMap[p] : p \in here}
      session(sid) == IF sid \in X THEN withState(m.sessions[sid], "IN_BATTLE")
                                   ELSE m.sessions[sid]
  IN  [sessions |-> [sid \in DOMAIN m.sessions |-> session(sid)],
       connMap |-> m.connMap, playerMap |-> m.playerMap,
       online |-> [p \in DOMAIN m.online \cup here |->
                     IF p \in here THEN m.playerMap[p] ELSE m.online[p]],
       stored |-> [sid \in DOMAIN m.stored \cup X |->
                     IF sid \in X THEN row(session(sid)) ELSE m.stored[sid]],
       issued |-> m.issued]

\* 3003
PlayerReadyRequest(c) ==
  /\ Free(c)
  /\ hasConn(sm, c)
  /\ LET s == sm.sessions[getByConn(sm, c)]
         r == s.room
     IN  /\ r # NoRoom
         /\ r \in DOMAIN rooms
         /\ LET room == playerReady(rooms[r], s.player)
            IN  IF allReady(room)
                THEN /\ rooms' = Put(rooms, r, startBattle(room))
                     /\ battles' = Put(battles, r, startedBattle(room))
                     /\ sm' = enterBattle(sm, members(room))
                ELSE /\ rooms' = Put(rooms, r, room)
                     /\ UNCHANGED <<battles, sm>>
  /\ UNCHANGED <<accounts, gone, queue, joins, nextRoom, timer, joining, up>>

-----------------------------------------------------------------------------

TimePasses == up /\ sm' = elapse(sm) /\ UNCHANGED <<accounts, gameVars>>

\* The steps that a command to the match queue is part of ...
QueueCommand ==
  \/ \E c \in Conns, mode \in Modes \cup {NoMode} : MatchStartRequest(c, mode)
  \/ MatchCheck
  \/ MatchPop

\* ... and the others.
OtherStep ==
  \/ \E c \in Conns, p \in Players, pw \in Passwords, sid \in Sids : LoginRequest(c, p, pw, sid)
  \/ \E c \in Conns : HeartbeatRequest(c)
  \/ \E c \in Conns, sid \in Sids : ReconnectRequest(c, sid)
  \/ \E c \in Conns : Disconnect(c)
  \/ \E c \in Conns : JoinMark(c)
  \/ \E c \in Conns : JoinCrash(c)
  \/ \E c \in Conns : MatchCancelRequest(c)
  \/ \E c \in Conns, r \in Rooms : EnterRoomRequest(c, r)
  \/ \E c \in Conns : PlayerReadyRequest(c)
  \/ TimerCleanup
  \/ TimePasses

Next == QueueCommand \/ OtherStep

Spec == Init /\ [][Next]_vars

-----------------------------------------------------------------------------
(***************************************************************************)
(* Properties that hold.                                                   *)
(***************************************************************************)

IsRoom(room) ==
  /\ room = [state |-> room.state, ready |-> room.ready, readyCount |-> room.readyCount]
  /\ room.state \in RoomStates
  /\ IsMap(room.ready, Players, BOOLEAN)
  /\ room.readyCount \in Nat

\* Types of every variable.
TypeOK ==
  /\ SMTypeOK
  /\ gone \subseteq Conns
  /\ queue \in [Modes \cup {NoMode} -> Seq(Players)]
  /\ joins \in 0 .. MaxJoins
  /\ DOMAIN rooms \subseteq Rooms
  /\ \A r \in DOMAIN rooms : IsRoom(rooms[r])
  /\ nextRoom \in Nat
  /\ timer \in [pc : {"check", "fill", "cleanup"}, room : Rooms \cup {NoRoom},
                left : 0 .. RoomSize]
  /\ IsMap(battles, Rooms, [players : SUBSET Players, lost : SUBSET Players])
  /\ IsMap(joining, Conns, [player : Players, mode : Modes \cup {NoMode}])
  /\ up \in BOOLEAN

\* joinQueue dereferences getByPlayer(player_id) without a test after its push
\* (JoinCrash).  A login that kicks gives the player another session, so that pointer is
\* null only when the player has been silent for longer than the reconnect window:
\* nothing else takes a player's last session away.
SilentBeforeSessionless ==
  [][\A p \in Players :
       hasPlayer(sm, p) /\ ~hasPlayer(sm', p)
         => sm.sessions[getByPlayer(sm, p)].idle > ReconnectWindow]_vars

\* tryMatch pops with no timeout, in the only thread that expires sessions: the
\* queue always holds the players it is still going to pop, so it never blocks.
PopNeverBlocks ==
  timer.pc = "fill" =>
    /\ timer.room \in DOMAIN rooms
    /\ Len(queue[NoMode]) >= timer.left

\* A session whose state is IN_BATTLE belongs to a player of some battle, however
\* often the player has changed rooms, connections or sessions.
InBattleHasBattle ==
  \A sid \in DOMAIN sm.sessions :
    sm.sessions[sid].state = "IN_BATTLE" =>
      \E r \in DOMAIN battles : sm.sessions[sid].player \in battles[r].players

\* A session that awaits a reconnect has lost its connection: nobody is asked to
\* reconnect while connected.
DisconnectedIsGone ==
  \A sid \in DOMAIN sm.sessions :
    sm.sessions[sid].state = "DISCONNECTED" => sm.sessions[sid].conn \in gone

readyMembers(room) == {p \in members(room) : room.ready[p]}

\* ready_count_ never falls below the number of members that are ready, a room
\* never holds more than it may, and only its members fight in its battle.
RoomsConsistent ==
  /\ \A r \in DOMAIN rooms :
       /\ Cardinality(members(rooms[r])) <= RoomSize
       /\ rooms[r].readyCount >= Cardinality(readyMembers(rooms[r]))
  /\ \A r \in DOMAIN battles :
       r \in DOMAIN rooms /\ battles[r].players \subseteq members(rooms[r])

\* Every room a session refers to exists, and a session IN_ROOM refers to one.
RoomReferences ==
  \A sid \in DOMAIN sm.sessions :
    /\ sm.sessions[sid].room \in DOMAIN rooms \cup {NoRoom}
    /\ sm.sessions[sid].state = "IN_ROOM" => sm.sessions[sid].room # NoRoom

-----------------------------------------------------------------------------
(***************************************************************************)
(* What comments and documents say and the code does not do.               *)
(***************************************************************************)

\* "Player disconnect from battle": when the connection of a player in battle
\* goes, its battle is told.
BattleLearnsOfDisconnect ==
  [][\A c \in gone' \ gone :
       hasConn(sm, c) =>
         LET s == sm.sessions[getByConn(sm, c)]
         IN  (s.state = "IN_BATTLE" /\ s.room \in DOMAIN battles)
               => s.player \in battles'[s.room].lost]_vars

queuedPlayers(mode) == {queue[mode][i] : i \in 1 .. Len(queue[mode])}

\* "MATCHING, // Waiting for match": the player of a session in that state is in the
\* queue of its mode.
MatchingIsQueued ==
  \A sid \in DOMAIN sm.sessions :
    LET s == sm.sessions[sid]
    IN  s.state = "MATCHING" => s.player \in queuedPlayers(s.mode)

=============================================================================
