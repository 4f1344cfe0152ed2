------------------------- MODULE ServerFaultsProofs -------------------------
(***************************************************************************)
(* Proofs about the server whose connections to Redis break for good and   *)
(* that may be restarted over what it has left in Redis.                   *)
(*                                                                         *)
(* The invariant of GameServer survives all of it, but for its part on the *)
(* session keys in Redis, of which a restart leaves nothing: FInv.         *)
(* NoGhosts needs besides that every session is one of a player seen since *)
(* the restart, and that no step passes a session to another player; so    *)
(* whoever tryMatch finds through player_map_ has logged in to this        *)
(* process.                                                                *)
(***************************************************************************)
EXTENDS ServerFaults, GameServerProofs

\* Every session is one of a player that has logged in to this process.
SessionsSeen == \A sid \in DOMAIN sm.sessions : sm.sessions[sid].player \in seen

\* The first half of NoGhosts; the second follows, since only members of a room are in
\* its battle.
MembersSeen == \A r \in DOMAIN rooms : members(rooms[r]) \subseteq seen

\* The inductive invariant.
FInv ==
  /\ restarts \in Nat
  /\ GInv(1)
  /\ JoinTypes
  /\ SessionsSeen
  /\ MembersSeen

-----------------------------------------------------------------------------
(***************************************************************************)
(* What the steps of GameServer do to the owners of the sessions and to    *)
(* the members of the rooms.                                               *)
(***************************************************************************)

\* The sessions that stay belong to the player they belonged to.
OwnersStay(m, n) ==
  \A sid \in DOMAIN m.sessions \cap DOMAIN n.sessions : n.sessions[sid].player = m.sessions[sid].player

\* A step of the directory passes no session to another player.
LEMMA OwnersStayFrom ==
  ASSUME NEW m, MapsInv(m), NEW n, DirectoryStep(m, n)
  PROVE  OwnersStay(m, n)
<1>1. CASE SameOwners(m, n)
  BY <1>1 DEF SameOwners, ownerOf, OwnersStay
<1>2. CASE EndsSessions(m, n)
  <2>1. PICK S \in SUBSET DOMAIN m.sessions : ownerOf(n) = [x \in DOMAIN m.sessions \ S |-> ownerOf(m)[x]]
    BY <1>2 DEF EndsSessions
  <2> QED BY <2>1 DEF ownerOf, OwnersStay
<1>3. ASSUME NEW p \in Players, NEW sid \in Sids, LogsIn(m, n, p, sid) PROVE OwnersStay(m, n)
  <2>1. sid \notin DOMAIN m.sessions
    BY <1>3 DEF LogsIn, MapsInv
  <2>2. \A x \in DOMAIN m.sessions \cap DOMAIN n.sessions : ownerOf(n)[x] = ownerOf(m)[x]
    BY <1>3, <2>1 DEF LogsIn, ownerOf
  <2> QED BY <2>2 DEF ownerOf, OwnersStay
<1> QED BY <1>1, <1>2, <1>3 DEF DirectoryStep

\* addPlayer adds the player it is given and nobody else.
LEMMA AddPlayerMembers ==
  ASSUME NEW room, NEW p
  PROVE  members(addPlayer(room, p)) \subseteq members(room) \cup {p}
BY DEF addPlayer, members

\* Assigning a room whose members have been seen.
LEMMA PutSeen ==
  ASSUME MembersSeen, NEW r, NEW room, members(room) \subseteq seen, rooms' = Put(rooms, r, room)
  PROVE  \A x \in DOMAIN rooms' : members(rooms'[x]) \subseteq seen
<1>1. \A x \in DOMAIN rooms' : rooms'[x] = room \/ (x \in DOMAIN rooms /\ rooms'[x] = rooms[x])
  BY DEF Put
<1> QED BY <1>1 DEF MembersSeen

\* Whoever a step puts into a room has been seen: it has a session.
LEMMA NextMembersSeen ==
  ASSUME GInv(1), SessionsSeen, MembersSeen, Next
  PROVE  \A x \in DOMAIN rooms' : members(rooms'[x]) \subseteq seen
<1>1. MapsInv(sm) /\ GameTypes /\ RoomsOK
  BY DEF GInv, SMIInv, SMInv
<1>2. CASE rooms' = rooms
  BY <1>2 DEF MembersSeen
<1>3. ASSUME NEW c \in Conns, NEW r \in Rooms, EnterRoomRequest(c, r)
      PROVE  \A x \in DOMAIN rooms' : members(rooms'[x]) \subseteq seen
  <2> DEFINE p == sm.sessions[getByConn(sm, c)].player
  <2>1. /\ r \in DOMAIN rooms /\ hasConn(sm, c)
        /\ rooms' = Put(rooms, r, addPlayer(rooms[r], p))
    BY <1>3 DEF EnterRoomRequest
  <2>2. p \in seen
    BY <1>1, <2>1, FoundByPlayer DEF SessionsSeen
  <2> HIDE DEF p
  <2>3. members(addPlayer(rooms[r], p)) \subseteq seen
    BY <2>1, <2>2, AddPlayerMembers DEF MembersSeen
  <2> QED BY <2>1, <2>3, PutSeen
<1>4. ASSUME NEW c \in Conns, PlayerReadyRequest(c)
      PROVE  \A x \in DOMAIN rooms' : members(rooms'[x]) \subseteq seen
  <2> DEFINE s    == sm.sessions[getByConn(sm, c)]
             room == playerReady(rooms[s.room], s.player)
  <2>1. /\ s.room \in DOMAIN rooms /\ hasConn(sm, c)
        /\ rooms' = Put(rooms, s.room, room) \/ rooms' = Put(rooms, s.room, startBattle(room))
    BY <1>4 DEF PlayerReadyRequest
  <2>2. s.player \in Players
    BY <1>1, <2>1, FoundByPlayer
  <2> HIDE DEF s
  <2>3. RoomInv(room) /\ members(room) = members(rooms[s.room])
    BY <1>1, <2>1, <2>2, PlayerReadyInv DEF RoomsOK
  <2> HIDE DEF room
  <2>4. members(startBattle(room)) = members(room) /\ members(room) \subseteq seen
    BY <2>1, <2>3, StartBattleInv DEF MembersSeen
  <2> QED BY <2>1, <2>4, PutSeen
<1>5. CASE MatchCheck /\ rooms' # rooms
  <2>1. rooms' = Put(rooms, nextRoom, newRoom)
    BY <1>5 DEF MatchCheck
  <2>2. members(newRoom) \subseteq seen
    BY DEF members, newRoom
  <2> QED BY <2>1, <2>2, PutSeen
<1>6. CASE MatchPop /\ rooms' # rooms
  <2> DEFINE p == Head(queue[NoMode])
             r == timer.room
  <2>1. hasPlayer(sm, p) /\ rooms' = Put(rooms, r, addPlayer(rooms[r], p))
    BY <1>6 DEF MatchPop
  <2>2. r \in DOMAIN rooms
    BY <1>6 DEF MatchPop, GInv, FillInv
  <2>3. p \in seen
    BY <1>1, <2>1 DEF hasPlayer, MapsInv, PlayerMapExactIn, SessionsSeen
  <2> HIDE DEF p, r
  <2>4. members(addPlayer(rooms[r], p)) \subseteq seen
    BY <2>2, <2>3, AddPlayerMembers DEF MembersSeen
  <2> QED BY <2>1, <2>4, PutSeen
<1>7. \/ rooms' = rooms
      \/ \E c \in Conns, r \in Rooms : EnterRoomRequest(c, r)
      \/ \E c \in Conns : PlayerReadyRequest(c)
      \/ MatchCheck \/ MatchPop
  BY DEF Next, QueueCommand, OtherStep, LoginRequest, HeartbeatRequest, ReconnectRequest, Disconnect,
     MatchStartRequest, JoinMark, JoinCrash, MatchCancelRequest, TimerCleanup, TimePasses, gameVars
<1> QED BY <1>2, <1>3, <1>4, <1>5, <1>6, <1>7

-----------------------------------------------------------------------------
(***************************************************************************)
(* The steps of FaultNext preserve the invariant.                          *)
(***************************************************************************)

\* A step of GameServer.
LEMMA HandledInv ==
  ASSUME FInv, Handled
  PROVE  FInv'
<1>1. /\ GInv(1) /\ JoinTypes /\ SessionsSeen /\ MembersSeen
      /\ Next /\ seen' = seen \cup loggedIn /\ restarts' = restarts /\ restarts \in Nat
  BY DEF FInv, Handled, Next
<1>2. GInv(1)' /\ JoinTypes'
  BY <1>1, NextInv
<1>3. SessionsSeen'
  <2>1. DirectoryStep(sm, sm') /\ MapsInv(sm)
    BY <1>1, NextDirectoryStep DEF GInv, SMIInv, SMInv
  <2>2. OwnersStay(sm, sm')
    BY <2>1, OwnersStayFrom
  <2> QED BY <1>1, <2>2 DEF OwnersStay, SessionsSeen, loggedIn
<1>4. MembersSeen'
  <2>1. \A x \in DOMAIN rooms' : members(rooms'[x]) \subseteq seen
    BY <1>1, NextMembersSeen
  <2> QED BY <1>1, <2>1 DEF MembersSeen
<1> QED BY <1>1, <1>2, <1>3, <1>4 DEF FInv

\* What the invariant says of the server does not depend on joining and up.
LEMMA ServerUnchanged ==
  ASSUME NEW boots, GInv(boots),
         UNCHANGED <<sm, accounts, gone, queue, joins, rooms, nextRoom, timer, battles>>
  PROVE  GInv(boots)'
<1>1. SMIInv(boots)' /\ SessionsOK(sm', gone, rooms, battles)
  BY DEF GInv, SMIInv
<1> QED BY <1>1, MarkStep

\* A join whose LPUSH fails: it is the lookup's turn all the same.
LEMMA JoinFailsInv ==
  ASSUME FInv, NEW c \in Conns, NEW mode \in Modes \cup {NoMode}, JoinFails(c, mode)
  PROVE  FInv'
<1> DEFINE p == sm.sessions[getByConn(sm, c)].player
           j == [player |-> p, mode |-> mode]
<1>1. /\ GInv(1) /\ JoinTypes /\ SessionsSeen /\ MembersSeen /\ restarts \in Nat
      /\ MapsInv(sm) /\ hasConn(sm, c)
      /\ UNCHANGED <<sm, accounts, gone, queue, joins, rooms, nextRoom, timer, battles, up, restarts, seen>>
      /\ joining' = Put(joining, c, j)
  BY DEF FInv, GInv, SMIInv, SMInv, JoinFails, faultVars
<1>2. p \in Players
  BY <1>1, FoundByPlayer
<1>3. j \in [player : Players, mode : Modes \cup {NoMode}]
  BY <1>2
<1> HIDE DEF j
<1>4. IsMap(joining', Conns, [player : Players, mode : Modes \cup {NoMode}])
  BY <1>1, <1>3, PutMap DEF JoinTypes
<1>5. JoinTypes'
  BY <1>1, <1>4, Zenon DEF JoinTypes
<1>6. GInv(1)'
  BY <1>1, ServerUnchanged
<1>7. SessionsSeen' /\ MembersSeen'
  BY <1>1 DEF SessionsSeen, MembersSeen
<1> QED BY <1>1, <1>5, <1>6, <1>7 DEF FInv

\* The timer thread goes somewhere else than into the fill loop.
LEMMA TimerStep ==
  ASSUME NEW boots, GInv(boots), timer' \in {AtCheck, AtCleanup},
         queue' \in [Modes \cup {NoMode} -> Seq(Players)],
         UNCHANGED <<sm, accounts, gone, joins, rooms, nextRoom, battles>>
  PROVE  GInv(boots)'
<1>1. GameTypes'
  BY RoomSizeAssumption DEF GInv, GameTypes, AtCheck, AtCleanup, NoRoom
<1>2. FillInv'
  BY DEF FillInv, AtCheck, AtCleanup
<1>3. RoomsOK' /\ BattlesOK' /\ RoomIdsFresh'
  BY DEF GInv, RoomsOK, BattlesOK, RoomIdsFresh
<1>4. SMIInv(boots)' /\ SessionsOK(sm', gone', rooms', battles')
  BY DEF GInv, SMIInv
<1> QED BY <1>1, <1>2, <1>3, <1>4 DEF GInv

\* An LLEN or a BRPOP that fails, the latter perhaps after it has taken its player.
LEMMA TimerFailsInv ==
  ASSUME FInv, CheckFails \/ PopFails \/ \E x \in Contexts : PopLost(x)
  PROVE  FInv'
<1>1. /\ GInv(1) /\ JoinTypes /\ SessionsSeen /\ MembersSeen /\ restarts \in Nat
      /\ UNCHANGED <<sm, accounts, gone, joins, rooms, nextRoom, battles, joining, up, restarts, seen>>
      /\ timer' \in {AtCheck, AtCleanup}
  BY DEF FInv, CheckFails, PopFails, PopLost, faultVars
<1>2. queue \in [Modes \cup {NoMode} -> Seq(Players)]
  BY <1>1 DEF GInv, GameTypes
<1>3. queue[NoMode] # <<>> => Tail(queue[NoMode]) \in Seq(Players)
  BY <1>2
<1>4. queue' \in [Modes \cup {NoMode} -> Seq(Players)]
  BY <1>2, <1>3 DEF CheckFails, PopFails, PopLost
<1>5. GInv(1)'
  BY <1>1, <1>4, TimerStep
<1>6. SessionsSeen' /\ MembersSeen'
  BY <1>1 DEF SessionsSeen, MembersSeen
<1>7. JoinTypes'
  BY <1>1, Zenon DEF JoinTypes
<1> QED BY <1>1, <1>5, <1>6, <1>7 DEF FInv

\* A context that breaks, and a step that changes nothing.
LEMMA NothingMovesInv ==
  ASSUME FInv, UNCHANGED <<vars, restarts, seen>>
  PROVE  FInv'
<1>1. UNCHANGED <<sm, accounts, gone, queue, joins, rooms, nextRoom, timer, battles, joining, up,
                  restarts, seen>>
  BY DEF vars
<1>2. GInv(1)'
  BY <1>1, ServerUnchanged DEF FInv
<1>3. JoinTypes'
  BY <1>1, Zenon DEF FInv, JoinTypes
<1>4. SessionsSeen' /\ MembersSeen'
  BY <1>1 DEF FInv, SessionsSeen, MembersSeen
<1> QED BY <1>1, <1>2, <1>3, <1>4 DEF FInv

\* A restart: nothing is known of Redis any more, and the memory is that of a server
\* that has just started.
LEMMA RestartInv ==
  ASSUME FInv, Restart
  PROVE  FInv'
<1>1. /\ GInv(1) /\ restarts \in Nat /\ restarts' = restarts + 1 /\ seen' = {}
      /\ sm' = [sessions |-> EmptyMap, connMap |-> EmptyMap, playerMap |-> EmptyMap,
                online |-> sm.online, stored |-> sm.stored, issued |-> sm.issued]
      /\ gone' = {} /\ rooms' = EmptyMap /\ nextRoom' = 1 /\ timer' = AtCheck
      /\ battles' = EmptyMap /\ joining' = EmptyMap /\ up' = TRUE
      /\ UNCHANGED <<accounts, queue, joins>>
  BY DEF FInv, Restart
<1>2. DOMAIN rooms' = {} /\ DOMAIN battles' = {}
  BY <1>1 DEF EmptyMap
<1>3. /\ sm'.sessions = EmptyMap /\ sm'.connMap = EmptyMap /\ sm'.playerMap = EmptyMap
      /\ sm'.online = sm.online /\ sm'.stored = sm.stored /\ sm'.issued = sm.issued
      /\ sm' = [sessions |-> sm'.sessions, connMap |-> sm'.connMap, playerMap |-> sm'.playerMap,
                online |-> sm'.online, stored |-> sm'.stored, issued |-> sm'.issued]
  BY <1>1
<1>4. \A S, T : IsMap(EmptyMap, S, T)
  BY DEF IsMap, EmptyMap
<1>5. MapsInv(sm')
  <2>1. IsManager(sm) /\ sm.issued \subseteq Sids
    BY <1>1 DEF GInv, SMIInv, SMInv, MapsInv, IsManager
  <2>2. IsManager(sm')
    BY <1>3, <1>4, <2>1 DEF IsManager
  <2>3. DOMAIN EmptyMap = {}
    BY DEF EmptyMap
  <2> QED BY <1>3, <2>2, <2>3 DEF MapsInv, ConnMapSoundIn, PlayerMapExactIn
<1>6. SMIInv(1)'
  BY <1>1, <1>5 DEF GInv, SMIInv, SMInv
<1>7. DOMAIN sm'.sessions = {}
  BY <1>3 DEF EmptyMap
<1>8. GameTypes'
  BY <1>1, <1>2, <1>4, RoomSizeAssumption DEF GInv, GameTypes, AtCheck, NoRoom
<1>9. RoomsOK' /\ BattlesOK' /\ RoomIdsFresh' /\ SessionsOK(sm', gone', rooms', battles')
  BY <1>2, <1>7 DEF RoomsOK, BattlesOK, RoomIdsFresh, SessionsOK
<1>10. FillInv'
  BY <1>1 DEF FillInv, AtCheck
<1>11. GInv(1)'
  BY <1>6, <1>8, <1>9, <1>10 DEF GInv
<1>12. SessionsSeen' /\ MembersSeen'
  BY <1>2, <1>7 DEF SessionsSeen, MembersSeen
<1>13. restarts' \in Nat
  BY <1>1
<1>14. JoinTypes'
  BY <1>1, <1>4, Zenon DEF JoinTypes
<1> QED BY <1>11, <1>12, <1>13, <1>14 DEF FInv

\* Every step preserves the invariant.
LEMMA FaultNextInv == FInv /\ [FaultNext]_allVars => FInv'
<1> SUFFICES ASSUME FInv, [FaultNext]_allVars PROVE FInv'
  OBVIOUS
<1>1. CASE UNCHANGED allVars
  <2>1. UNCHANGED <<vars, restarts, seen>>
    BY <1>1 DEF allVars, faultVars
  <2> QED BY <2>1, NothingMovesInv
<1>2. CASE FaultNext
  BY <1>2, HandledInv, JoinFailsInv, TimerFailsInv, NothingMovesInv, RestartInv DEF FaultNext, Breaks
<1> QED BY <1>1, <1>2

\* The inductive invariant of the server holds whichever contexts break and however
\* often the server is restarted.
THEOREM FaultInvariance == FaultSpec => []FInv
<1>1. FaultInit => FInv
  <2> SUFFICES ASSUME FaultInit PROVE FInv
    OBVIOUS
  <2>1. Init /\ restarts = 0
    BY DEF FaultInit
  <2>2. GInv(1) /\ JoinTypes
    <3>1. JoinTypes
      BY <2>1 DEF Init, JoinTypes, IsMap, EmptyMap
    <3> QED BY <2>1, <3>1, InitInv
  <2>3. DOMAIN sm.sessions = {} /\ DOMAIN rooms = {}
    BY <2>1 DEF Init, SMInit, EmptyManager, EmptyMap
  <2> QED BY <2>1, <2>2, <2>3 DEF FInv, SessionsSeen, MembersSeen
<1> QED BY <1>1, FaultNextInv, PTL DEF FaultSpec

\* What a process has left in the match queue puts nobody into a room or a battle of
\* the next one who has not logged in to it: tryMatch looks every player up.
THEOREM NoGhostsInRooms == FaultSpec => []NoGhosts
<1>1. FInv => NoGhosts
  BY DEF FInv, GInv, BattlesOK, MembersSeen, NoGhosts
<1> QED BY <1>1, FaultInvariance, PTL

\* tryMatch's BRPOP without a timeout never waits, whatever commands fail: a pop that
\* fails gives up the room, so a player it has lost is not waited for.
THEOREM MatchingNeverBlocksFaulty == FaultSpec => []PopNeverBlocks
<1>1. FInv => PopNeverBlocks
  BY DEF FInv, GInv, FillInv, PopNeverBlocks
<1> QED BY <1>1, FaultInvariance, PTL

\* Sessions, rooms and battles fit together and the maps are exact, whatever commands
\* fail and however often the server crashes or is restarted.
THEOREM SafeUnderFaults ==
  FaultSpec => []/\ ConnMapSound /\ PlayerMapExact
                 /\ InBattleHasBattle /\ DisconnectedIsGone /\ RoomReferences /\ RoomsConsistent
<1>1. FInv => ConnMapSound /\ PlayerMapExact
  BY DEF FInv, GInv, SMIInv, SMInv, MapsInv, ConnMapSound, PlayerMapExact
<1>2. FInv => InBattleHasBattle /\ DisconnectedIsGone /\ RoomReferences
  BY DEF FInv, GInv, SessionsOK, SessionOK, InBattleHasBattle, DisconnectedIsGone, RoomReferences
<1>3. FInv => RoomsConsistent
  BY DEF FInv, GInv, RoomsOK, RoomInv, BattlesOK, RoomsConsistent
<1> QED BY <1>1, <1>2, <1>3, FaultInvariance, PTL

\* Every failing command and a restart are steps of the directory too.
LEMMA FaultDirectoryStep ==
  ASSUME FInv, [FaultNext]_allVars
  PROVE  DirectoryStep(sm, sm')
<1>1. GInv(1) /\ JoinTypes /\ SMInv(sm, 1)
  BY DEF FInv, GInv, SMIInv
<1>2. CASE sm' = sm
  BY <1>2 DEF SameOwners, DirectoryStep
<1>3. CASE Handled
  BY <1>1, <1>3, NextDirectoryStep DEF Handled, Next
<1>4. CASE Restart
  <2>1. sm'.sessions = EmptyMap /\ sm'.issued = sm.issued
    BY <1>4 DEF Restart
  <2>2. ownerOf(sm') = [x \in DOMAIN sm.sessions \ DOMAIN sm.sessions |-> ownerOf(sm)[x]]
    BY <2>1 DEF ownerOf, EmptyMap
  <2> QED BY <2>1, <2>2 DEF EndsSessions, DirectoryStep
<1>5. Handled \/ Restart \/ sm' = sm
  BY DEF FaultNext, allVars, vars, Breaks, JoinFails, CheckFails, PopFails, PopLost
<1> QED BY <1>2, <1>3, <1>4, <1>5

\* The server still implements SessionDirectory: a restart ends all sessions at once, and
\* no session id of an earlier process names a session of a later one.
THEOREM FaultyServerImplementsDirectory == FaultSpec => ImplementsDirectory
<1>1. FaultInit => Directory!Init
  BY DirectoryInit DEF FaultInit, Init
<1>2. FInv /\ [FaultNext]_allVars => [Directory!Next]_(Directory!vars)
  BY FaultDirectoryStep, StepOfDirectory
<1> QED BY <1>1, <1>2, FaultInvariance, PTL DEF FaultSpec, ImplementsDirectory, Directory!Spec

=============================================================================
