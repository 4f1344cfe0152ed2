-------------------------- MODULE GameServerProofs --------------------------
(***************************************************************************)
(* Proofs about GameServer.                                                *)
(*                                                                         *)
(* GInv adds to the session manager's invariant what the sessions, the     *)
(* rooms, the battles, the room ids and the timer thread have to do with   *)
(* each other.  The first lemmas say what each method of SessionManager    *)
(* does to the player, connection, state and room of the sessions; then    *)
(* come the methods of Room, and one lemma for every handler and every     *)
(* step of the timer thread.                                               *)
(***************************************************************************)
EXTENDS GameServer, SessionManagerProofs, FiniteSetTheorems

\* The sessions of r outside X are those of m, but for their times and modes.
Keeps(m, r, X) ==
  \A x \in DOMAIN r.sessions \ X :
    /\ x \in DOMAIN m.sessions
    /\ r.sessions[x].player = m.sessions[x].player
    /\ r.sessions[x].conn = m.sessions[x].conn
    /\ r.sessions[x].state = m.sessions[x].state
    /\ r.sessions[x].room = m.sessions[x].room

\* heartbeat changes a session's time only.
LEMMA HeartbeatKeeps ==
  ASSUME NEW m, MapsInv(m), NEW sid
  PROVE  Keeps(m, heartbeat(m, sid), {})
<1>1. CASE ~hasSession(m, sid)
  BY <1>1 DEF heartbeat, Keeps
<1>2. CASE hasSession(m, sid)
  <2> DEFINE s == m.sessions[sid]
             t == touch(s)
  <2>1. s \in Session
    BY <1>2, SessionType DEF SMInv, MapsInv, hasSession
  <2>2. t.player = s.player /\ t.conn = s.conn /\ t.state = s.state /\ t.room = s.room
    BY <2>1, FieldTypes
  <2>3. heartbeat(m, sid).sessions = Put(m.sessions, sid, t)
    BY <1>2 DEF heartbeat, setSession
  <2> HIDE DEF t
  <2> QED BY <1>2, <2>2, <2>3 DEF Keeps, Put, hasSession
<1> QED BY <1>1, <1>2

\* setState changes the state of the session it names and no other session.
LEMMA SetStateEffect ==
  ASSUME NEW m, MapsInv(m), NEW sid \in DOMAIN m.sessions, NEW st \in SessionStates
  PROVE  LET r == setState(m, sid, st)
             s == m.sessions[sid]
         IN  /\ Keeps(m, r, {sid})
             /\ DOMAIN r.sessions = DOMAIN m.sessions
             /\ r.sessions[sid].player = s.player
             /\ r.sessions[sid].conn = s.conn
             /\ r.sessions[sid].state = st
             /\ r.sessions[sid].room = s.room
<1> DEFINE s == m.sessions[sid]
           t == withState(s, st)
<1>1. s \in Session
  BY SessionType DEF SMInv, MapsInv
<1>2. t.player = s.player /\ t.conn = s.conn /\ t.state = st /\ t.room = s.room
  BY <1>1, FieldTypes DEF withState, Session
<1>3. setState(m, sid, st).sessions = Put(m.sessions, sid, t)
  BY DEF setState, setSession, saveToRedis, hasSession
<1> HIDE DEF t
<1> QED BY <1>2, <1>3 DEF Keeps, Put

\* setMatchMode changes a session's match mode only.
LEMMA SetMatchModeKeeps ==
  ASSUME NEW m, MapsInv(m), NEW sid \in DOMAIN m.sessions, NEW mode
  PROVE  /\ Keeps(m, setMatchMode(m, sid, mode), {})
         /\ DOMAIN setMatchMode(m, sid, mode).sessions = DOMAIN m.sessions
<1> DEFINE s == m.sessions[sid]
           t == [s EXCEPT !.mode = mode]
<1>1. s \in Session
  BY SessionType DEF SMInv, MapsInv
<1>2. t.player = s.player /\ t.conn = s.conn /\ t.state = s.state /\ t.room = s.room
  BY <1>1 DEF Session
<1>3. setMatchMode(m, sid, mode).sessions = Put(m.sessions, sid, t)
  BY DEF setMatchMode, setSession, hasSession
<1> HIDE DEF t
<1> QED BY <1>2, <1>3 DEF Keeps, Put

\* setCurrentRoom changes the room of the session it names and no other session.
LEMMA SetCurrentRoomEffect ==
  ASSUME NEW m, MapsInv(m), NEW sid \in DOMAIN m.sessions, NEW room
  PROVE  LET r == setCurrentRoom(m, sid, room)
             s == m.sessions[sid]
         IN  /\ Keeps(m, r, {sid})
             /\ DOMAIN r.sessions = DOMAIN m.sessions
             /\ r.sessions[sid].player = s.player
             /\ r.sessions[sid].conn = s.conn
             /\ r.sessions[sid].state = s.state
             /\ r.sessions[sid].room = room
<1> DEFINE s == m.sessions[sid]
           t == [s EXCEPT !.room = room]
<1>1. s \in Session
  BY SessionType DEF SMInv, MapsInv
<1>2. t.player = s.player /\ t.conn = s.conn /\ t.state = s.state /\ t.room = room
  BY <1>1 DEF Session
<1>3. setCurrentRoom(m, sid, room).sessions = Put(m.sessions, sid, t)
  BY DEF setCurrentRoom, setSession, saveToRedis, hasSession
<1> HIDE DEF t
<1> QED BY <1>2, <1>3 DEF Keeps, Put

\* login adds a session on c, in no room, and changes none of those that stay.
LEMMA LoginKeeps ==
  ASSUME NEW m, MapsInv(m), NEW c \in Conns, NEW p \in Players, NEW sid \in Sids,
         sid \notin m.issued
  PROVE  LET r == login(m, c, p, sid)
         IN  /\ Keeps(m, r, {sid})
             /\ sid \in DOMAIN r.sessions
             /\ r.sessions[sid].conn = c
             /\ r.sessions[sid].room = NoRoom
<1> DEFINE r == login(m, c, p, sid)
           k == kickDuplicate(m, p)
<1>1. \E X : k.sessions = Erase(m.sessions, X)
  BY KickEffect
<1>2. r.sessions = Put(k.sessions, sid, newSession(c, p))
  <2>1. SMInv(m, 1)
    BY DEF SMInv
  <2> QED BY <2>1, LoginInv
<1> HIDE DEF r, k
<1>3. /\ Keeps(m, r, {sid})
      /\ sid \in DOMAIN r.sessions
      /\ r.sessions[sid].conn = c
      /\ r.sessions[sid].room = NoRoom
  BY <1>1, <1>2 DEF Keeps, Put, Erase, newSession
<1> QED BY <1>3 DEF r

\* logout changes none of the sessions that stay.
LEMMA LogoutKeeps ==
  ASSUME NEW m, NEW sid
  PROVE  Keeps(m, logout(m, sid), {})
<1>1. CASE sid \notin DOMAIN m.sessions
  BY <1>1 DEF logout, hasSession, Keeps
<1>2. CASE sid \in DOMAIN m.sessions
  <2> DEFINE r == logout(m, sid)
  <2>1. r.sessions = Erase(m.sessions, {sid})
    BY <1>2, Zenon DEF logout, hasSession, eraseSession, removeFromRedis, erasePlayer, eraseConn
  <2> HIDE DEF r
  <2>2. Keeps(m, r, {})
    BY <2>1 DEF Keeps, Erase
  <2> QED BY <2>2, Zenon DEF r
<1> QED BY <1>1, <1>2

\* cleanupExpired changes none of the sessions that stay.
LEMMA CleanupKeeps ==
  ASSUME NEW m
  PROVE  Keeps(m, cleanupExpired(m), {})
<1>1. cleanupExpired(m).sessions = Erase(m.sessions, expiredSids(m))
  BY DEF cleanupExpired
<1> QED BY <1>1 DEF Keeps, Erase

\* Time changes the sessions' times only.
LEMMA ElapseKeeps ==
  ASSUME NEW m, MapsInv(m)
  PROVE  Keeps(m, elapse(m), {})
<1> DEFINE r == elapse(m)
<1>1. DOMAIN r.sessions = DOMAIN m.sessions
  BY DEF elapse
<1>2. ASSUME NEW x \in DOMAIN m.sessions
      PROVE  /\ r.sessions[x].player = m.sessions[x].player
             /\ r.sessions[x].conn = m.sessions[x].conn
             /\ r.sessions[x].state = m.sessions[x].state
             /\ r.sessions[x].room = m.sessions[x].room
  <2>1. m.sessions[x] \in Session
    BY SessionType DEF SMInv, MapsInv
  <2> QED BY <2>1 DEF elapse, Session
<1> HIDE DEF r
<1>3. Keeps(m, r, {})
  BY <1>1, <1>2 DEF Keeps
<1> QED BY <1>3 DEF r

\* markDisconnected changes the state of the session bound to c and no other.
LEMMA MarkDisconnectedEffect ==
  ASSUME NEW m, MapsInv(m), NEW c, hasConn(m, c)
  PROVE  LET r == markDisconnected(m, c)
             sid == getByConn(m, c)
             s == m.sessions[sid]
         IN  /\ Keeps(m, r, {sid})
             /\ DOMAIN r.sessions = DOMAIN m.sessions
             /\ r.sessions[sid].player = s.player
             /\ r.sessions[sid].conn = c
             /\ r.sessions[sid].state = "DISCONNECTED"
             /\ r.sessions[sid].room = s.room
<1> DEFINE sid == m.connMap[c]
           s == m.sessions[sid]
           u == withState(s, "DISCONNECTED")
           t == touch(u)
<1>1. sid \in DOMAIN m.sessions /\ s \in Session /\ s.conn = c
  BY SessionType DEF SMInv, MapsInv, hasConn, hasSession, ConnMapSoundIn
<1>2. /\ u \in Session
      /\ u.player = s.player /\ u.conn = s.conn
      /\ u.state = "DISCONNECTED" /\ u.room = s.room
  BY <1>1, FieldTypes DEF SessionStates, withState, Session
<1>3. t.player = s.player /\ t.conn = c /\ t.state = "DISCONNECTED" /\ t.room = s.room
  BY <1>1, <1>2, FieldTypes
<1>4. markDisconnected(m, c).sessions = Put(m.sessions, sid, t)
  BY DEF markDisconnected, setSession, saveToRedis, getByConn
<1> HIDE DEF t
<1> QED BY <1>1, <1>3, <1>4 DEF Keeps, Put, getByConn

\* tryReconnect either changes none of the sessions that stay, or puts the one it
\* names in the lobby.
LEMMA TryReconnectEffect ==
  ASSUME NEW m, MapsInv(m), NEW sid, NEW c \in Conns
  PROVE  LET r == tryReconnect(m, sid, c)
         IN  \/ Keeps(m, r, {})
             \/ /\ Keeps(m, r, {sid})
                /\ sid \in DOMAIN m.sessions
                /\ sid \in DOMAIN r.sessions
                /\ r.sessions[sid].state = "IN_LOBBY"
                /\ r.sessions[sid].room = m.sessions[sid].room
<1>1. CASE sid \notin DOMAIN m.sessions
  BY <1>1 DEF tryReconnect, hasSession, Keeps
<1>2. CASE sid \in DOMAIN m.sessions
  <2> DEFINE s == m.sessions[sid]
             v == withConn(s, c)
             u == withState(v, "IN_LOBBY")
             t == touch(u)
  <2>1. s \in Session
    BY <1>2, SessionType DEF SMInv, MapsInv
  <2>2. v \in Session /\ v.room = s.room
    BY <2>1, FieldTypes DEF withConn, Session
  <2>3. u \in Session /\ u.state = "IN_LOBBY" /\ u.room = s.room
    BY <2>2, FieldTypes DEF SessionStates, withState, Session
  <2>4. t.state = "IN_LOBBY" /\ t.room = s.room
    <3> HIDE DEF u
    <3> QED BY <2>3, FieldTypes
  <2>5. rebind(m, sid, c).sessions = Put(m.sessions, sid, t)
    BY Zenon DEF rebind, setSession, saveToRedis, setConn, eraseConn
  <2> HIDE DEF t
  <2>6. /\ Keeps(m, rebind(m, sid, c), {sid})
        /\ sid \in DOMAIN rebind(m, sid, c).sessions
        /\ rebind(m, sid, c).sessions[sid].state = "IN_LOBBY"
        /\ rebind(m, sid, c).sessions[sid].room = s.room
    BY <2>4, <2>5 DEF Keeps, Put
  <2>7. Keeps(m, m, {})
    BY DEF Keeps
  <2> QED BY <1>2, <2>6, <2>7, LogoutKeeps DEF tryReconnect, hasSession
<1> QED BY <1>1, <1>2

\* startBattle's loop over the players: a player's session is the one whose
\* player it is, so the sessions that change are those of the players in P.
LEMMA EnterBattleInv ==
  ASSUME NEW boots, NEW m, SMInv(m, boots), NEW P
  PROVE  LET r == enterBattle(m, P)
             X == {x \in DOMAIN m.sessions : m.sessions[x].player \in P}
         IN  /\ SMInv(r, boots)
             /\ Keeps(m, r, X)
             /\ DOMAIN r.sessions = DOMAIN m.sessions
             /\ \A x \in X : /\ r.sessions[x].player = m.sessions[x].player
                            /\ r.sessions[x].conn = m.sessions[x].conn
                            /\ r.sessions[x].state = "IN_BATTLE"
                            /\ r.sessions[x].room = m.sessions[x].room
<1> DEFINE r == enterBattle(m, P)
           X == {x \in DOMAIN m.sessions : m.sessions[x].player \in P}
           here == {p \in P : hasPlayer(m, p)}
           Y == {m.playerMap[p] : p \in here}
           session(sid) == IF sid \in Y THEN withState(m.sessions[sid], "IN_BATTLE")
                                         ELSE m.sessions[sid]
           on == [p \in DOMAIN m.online \cup here |->
                    IF p \in here THEN m.playerMap[p] ELSE m.online[p]]
           st == [sid \in DOMAIN m.stored \cup Y |->
                    IF sid \in Y THEN row(session(sid)) ELSE m.stored[sid]]
           ss == [sid \in DOMAIN m.sessions |-> session(sid)]
<1>1. r = [sessions |-> ss, connMap |-> m.connMap, playerMap |-> m.playerMap,
           online |-> on, stored |-> st, issued |-> m.issued]
  BY DEF enterBattle
<1>2. Y = X
  BY DEF SMInv, MapsInv, PlayerMapExactIn, hasPlayer, hasSession
<1>3. ASSUME NEW x \in DOMAIN m.sessions
      PROVE  /\ session(x) \in Session
             /\ session(x).player = m.sessions[x].player
             /\ session(x).conn = m.sessions[x].conn
             /\ session(x).state = IF x \in X THEN "IN_BATTLE" ELSE m.sessions[x].state
             /\ session(x).room = m.sessions[x].room
  <2>1. m.sessions[x] \in Session
    BY SessionType DEF SMInv, MapsInv
  <2>2. withState(m.sessions[x], "IN_BATTLE").room = m.sessions[x].room
    BY <2>1 DEF withState, Session
  <2> QED BY <1>2, <2>1, <2>2, FieldTypes DEF SessionStates
<1>4. IsMap(on, Players, Sids) /\ (boots = 0 => on = m.online)
  <2>1. here \subseteq DOMAIN m.playerMap
    BY DEF hasPlayer
  <2>2. /\ m.playerMap = [p \in DOMAIN m.playerMap |-> m.playerMap[p]]
        /\ boots = 0 => m.online = m.playerMap
        /\ IsMap(m.online, Players, Sids) /\ IsMap(m.playerMap, Players, Sids)
    BY DEF SMInv, RedisInv, MapsInv, IsManager, IsMap
  <2> HIDE DEF here
  <2> QED BY <2>1, <2>2 DEF IsMap
<1>5. IsMap(ss, Sids, Session) /\ DOMAIN ss = DOMAIN m.sessions
  <2> HIDE DEF session
  <2> QED BY <1>3 DEF IsMap, SMInv, MapsInv, IsManager
<1>6. \A x \in DOMAIN m.sessions : ss[x] = session(x)
  OBVIOUS
<1>7. IsMap(st, Sids, Row)
  <2>1. \A x \in Y : row(session(x)) \in Row
    <3> HIDE DEF session
    <3> QED BY <1>2, <1>3, RowType
  <2>2. Y \subseteq Sids /\ IsMap(m.stored, Sids, Row)
    BY <1>2, SessionType DEF SMInv, MapsInv, IsManager
  <2> HIDE DEF Y, session
  <2> QED BY <2>1, <2>2 DEF IsMap
<1>8. \A x \in DOMAIN st : IF x \in X THEN st[x] = row(ss[x]) ELSE x \in DOMAIN m.stored /\ st[x] = m.stored[x]
  <2> HIDE DEF session
  <2> QED BY <1>2, <1>6
<1>9. /\ \A x \in DOMAIN m.sessions :
            /\ ss[x].player = m.sessions[x].player
            /\ ss[x].conn = m.sessions[x].conn
            /\ ss[x].room = m.sessions[x].room
            /\ ss[x].state = IF x \in X THEN "IN_BATTLE" ELSE m.sessions[x].state
  <2> HIDE DEF session
  <2> QED BY <1>3, <1>6
<1>10. X \subseteq DOMAIN m.sessions
  OBVIOUS
<1>11. SMInv(r, boots)
  <2> HIDE DEF r, ss, st, on, X
  <2>1. MapsInv(r)
    BY <1>1, <1>4, <1>5, <1>7, <1>9 DEF SMInv, MapsInv, IsManager, ConnMapSoundIn, PlayerMapExactIn
  <2>2. boots = 0 => StoredAgreesIn(r)
    BY <1>1, <1>5, <1>8, <1>9, <1>10 DEF SMInv, RedisInv, StoredAgreesIn, row
  <2> QED BY <1>1, <1>4, <2>1, <2>2 DEF SMInv, RedisInv
<1>12. /\ Keeps(m, r, X)
       /\ DOMAIN r.sessions = DOMAIN m.sessions
       /\ \A x \in X : /\ r.sessions[x].player = m.sessions[x].player
                      /\ r.sessions[x].conn = m.sessions[x].conn
                      /\ r.sessions[x].state = "IN_BATTLE"
                      /\ r.sessions[x].room = m.sessions[x].room
  <2> HIDE DEF r, ss, X
  <2> QED BY <1>1, <1>5, <1>9, <1>10 DEF Keeps
<1> QED BY <1>11, <1>12

-----------------------------------------------------------------------------

\* What the inductive invariant asks of a room.
RoomInv(room) ==
  /\ IsRoom(room)
  /\ IsFiniteSet(members(room))
  /\ Cardinality(members(room)) <= RoomSize
  /\ room.readyCount >= Cardinality(readyMembers(room))

\* A room that createRoom makes satisfies the room invariant.
LEMMA NewRoomInv == RoomInv(newRoom)
<1>1. members(newRoom) = {} /\ readyMembers(newRoom) = {}
  BY DEF members, readyMembers, newRoom
<1>2. IsRoom(newRoom)
  BY DEF IsRoom, newRoom, RoomStates, IsMap
<1>3. newRoom.readyCount = 0
  BY DEF newRoom
<1>4. Cardinality({}) = 0 /\ IsFiniteSet({})
  BY FS_EmptySet
<1>5. 0 <= RoomSize
  BY RoomSizeAssumption
<1> QED BY <1>1, <1>2, <1>3, <1>4, <1>5 DEF RoomInv

\* addPlayer keeps the room invariant and no member leaves: isFull is tested before
\* the member is added, and the ready flag it clears only widens the gap between
\* ready_count_ and the members that are ready.
LEMMA AddPlayerInv ==
  ASSUME NEW room, RoomInv(room), NEW p \in Players
  PROVE  RoomInv(addPlayer(room, p)) /\ members(room) \subseteq members(addPlayer(room, p))
<1>1. CASE addPlayerError(room) # 0
  BY <1>1 DEF addPlayer
<1>2. CASE addPlayerError(room) = 0
  <2> DEFINE r == addPlayer(room, p)
             f == [q \in members(room) \cup {p} |-> IF q = p THEN FALSE ELSE room.ready[q]]
  <2>1. r = [state |-> "WAITING_PLAYERS", ready |-> f, readyCount |-> room.readyCount]
    BY <1>2 DEF addPlayer
  <2> HIDE DEF r
  <2>2. members(r) = members(room) \cup {p}
    BY <2>1 DEF members
  <2>3. IsFiniteSet(members(room)) /\ Cardinality(members(room)) \in Nat
    BY FS_CardinalityType DEF RoomInv
  <2>4. Cardinality(members(room)) < RoomSize
    BY <1>2, <2>3, RoomSizeAssumption DEF addPlayerError, isFull
  <2>5. IsFiniteSet(members(r)) /\ Cardinality(members(r)) <= RoomSize
    BY <2>2, <2>3, <2>4, FS_AddElement, RoomSizeAssumption
  <2>6. readyMembers(r) \subseteq readyMembers(room)
    BY <2>1 DEF readyMembers, members
  <2>7. IsFiniteSet(readyMembers(room)) /\ readyMembers(room) \subseteq members(room)
    BY <2>3, FS_Subset DEF readyMembers
  <2>8. /\ Cardinality(readyMembers(r)) <= Cardinality(readyMembers(room))
        /\ Cardinality(readyMembers(r)) \in Nat
        /\ Cardinality(readyMembers(room)) \in Nat
    BY <2>6, <2>7, FS_Subset, FS_CardinalityType
  <2>9. IsRoom(r)
    <3>1. IsMap(f, Players, BOOLEAN)
      BY DEF RoomInv, IsRoom, IsMap, members
    <3> HIDE DEF f
    <3> QED BY <2>1, <3>1 DEF RoomInv, IsRoom, RoomStates
  <2>10. r.readyCount >= Cardinality(readyMembers(r))
    BY <2>1, <2>8 DEF RoomInv, IsRoom
  <2>11. RoomInv(r) /\ members(room) \subseteq members(r)
    BY <2>2, <2>5, <2>9, <2>10 DEF RoomInv
  <2> QED BY <2>11 DEF r
<1> QED BY <1>1, <1>2

\* playerReady keeps the room invariant: the count moves with the flag.
LEMMA PlayerReadyInv ==
  ASSUME NEW room, RoomInv(room), NEW p \in Players
  PROVE  RoomInv(playerReady(room, p)) /\ members(playerReady(room, p)) = members(room)
<1>1. CASE p \notin members(room) \/ room.ready[p]
  BY <1>1 DEF playerReady
<1>2. CASE p \in members(room) /\ ~room.ready[p]
  <2> DEFINE r == playerReady(room, p)
             f == [room.ready EXCEPT ![p] = TRUE]
  <2>1. r = [state |-> room.state, ready |-> f, readyCount |-> room.readyCount + 1]
    BY <1>2 DEF playerReady
  <2>2. DOMAIN f = members(room) /\ f[p] = TRUE /\ \A q \in members(room) \ {p} : f[q] = room.ready[q]
    BY <1>2 DEF members, RoomInv, IsRoom, IsMap
  <2>3. IsMap(f, Players, BOOLEAN)
    BY DEF RoomInv, IsRoom, IsMap
  <2> HIDE DEF r, f
  <2>4. members(r) = members(room)
    BY <2>1, <2>2 DEF members
  <2>5. readyMembers(r) = readyMembers(room) \cup {p}
    BY <1>2, <2>1, <2>2, <2>4 DEF readyMembers
  <2>6. IsFiniteSet(readyMembers(room)) /\ Cardinality(readyMembers(room)) \in Nat
    BY FS_Subset, FS_CardinalityType DEF RoomInv, readyMembers
  <2>7. Cardinality(readyMembers(r)) <= Cardinality(readyMembers(room)) + 1
    BY <2>5, <2>6, FS_AddElement
  <2>8. Cardinality(readyMembers(r)) \in Nat
    BY <2>5, <2>6, FS_AddElement, FS_CardinalityType
  <2>9. r.readyCount >= Cardinality(readyMembers(r))
    BY <2>1, <2>6, <2>7, <2>8 DEF RoomInv, IsRoom
  <2>10. IsRoom(r)
    BY <2>1, <2>3 DEF RoomInv, IsRoom
  <2>11. RoomInv(r) /\ members(r) = members(room)
    BY <2>4, <2>9, <2>10 DEF RoomInv
  <2> QED BY <2>11 DEF r
<1> QED BY <1>1, <1>2

\* Room::startBattle keeps the room invariant and the members.
LEMMA StartBattleInv ==
  ASSUME NEW room, RoomInv(room)
  PROVE  RoomInv(startBattle(room)) /\ members(startBattle(room)) = members(room)
<1>1. CASE startBattle(room) = room
  BY <1>1
<1>2. CASE startBattle(room) # room
  <2> DEFINE r == startBattle(room)
  <2>1. r = [state |-> "RUNNING", ready |-> room.ready, readyCount |-> room.readyCount]
    BY <1>2 DEF startBattle
  <2> HIDE DEF r
  <2>2. members(r) = members(room) /\ readyMembers(r) = readyMembers(room)
    BY <2>1 DEF members, readyMembers
  <2>3. RoomInv(r)
    BY <2>1, <2>2 DEF RoomInv, IsRoom, RoomStates
  <2> QED BY <2>2, <2>3 DEF r
<1> QED BY <1>1, <1>2

-----------------------------------------------------------------------------

\* What the inductive invariant asks of a session s, given the connections g
\* that are gone, the rooms R and the battles B.
SessionOK(s, g, R, B) ==
  /\ s.state = "IN_BATTLE" => \E r \in DOMAIN B : s.player \in B[r].players
  /\ s.state = "DISCONNECTED" => s.conn \in g
  /\ s.room \in DOMAIN R \cup {NoRoom}
  /\ s.state = "IN_ROOM" => s.room # NoRoom

SessionsOK(m, g, R, B) ==
  \A sid \in DOMAIN m.sessions : SessionOK(m.sessions[sid], g, R, B)

\* Nobody drops out of the connections that are gone, of the rooms or of the battles.
Grows(g, R, B, g2, R2, B2) ==
  /\ g \subseteq g2
  /\ DOMAIN R \subseteq DOMAIN R2
  /\ \A r \in DOMAIN B : r \in DOMAIN B2 /\ B[r].players \subseteq B2[r].players

\* If a step keeps the sessions outside X, connections, rooms and battles only
\* grow, and the sessions in X are right after it, all of them are.
LEMMA KeepsOK ==
  ASSUME NEW m, NEW n, NEW X, NEW g, NEW R, NEW B, NEW g2, NEW R2, NEW B2,
         SessionsOK(m, g, R, B), Keeps(m, n, X), Grows(g, R, B, g2, R2, B2),
         \A x \in X \cap DOMAIN n.sessions : SessionOK(n.sessions[x], g2, R2, B2)
  PROVE  SessionsOK(n, g2, R2, B2)
<1> SUFFICES ASSUME NEW x \in DOMAIN n.sessions \ X
             PROVE  SessionOK(n.sessions[x], g2, R2, B2)
  BY DEF SessionsOK
<1>1. /\ x \in DOMAIN m.sessions
      /\ n.sessions[x].player = m.sessions[x].player
      /\ n.sessions[x].conn = m.sessions[x].conn
      /\ n.sessions[x].state = m.sessions[x].state
      /\ n.sessions[x].room = m.sessions[x].room
  BY DEF Keeps
<1>2. SessionOK(m.sessions[x], g, R, B)
  BY <1>1 DEF SessionsOK
<1> QED BY <1>1, <1>2 DEF SessionOK, Grows

\* A step that changes no connection, room or battle lets them grow.
LEMMA GrowsReflexive ==
  ASSUME NEW g, NEW R, NEW B
  PROVE  Grows(g, R, B, g, R, B)
BY DEF Grows

\* A step that leaves the rooms, battles and connections alone and changes no
\* session's player, connection, state or room.
LEMMA KeepsAll ==
  ASSUME NEW m, NEW n, NEW g, NEW R, NEW B, SessionsOK(m, g, R, B), Keeps(m, n, {})
  PROVE  SessionsOK(n, g, R, B)
<1>1. \A x \in {} \cap DOMAIN n.sessions : SessionOK(n.sessions[x], g, R, B)
  OBVIOUS
<1> QED BY <1>1, KeepsOK, GrowsReflexive

Battle == [players : SUBSET Players, lost : SUBSET Players]

\* Types of the variables of GameServer.
GameTypes ==
  /\ gone \subseteq Conns
  /\ queue \in [Modes \cup {NoMode} -> Seq(Players)]
  /\ joins \in 0 .. MaxJoins
  /\ DOMAIN rooms \subseteq Rooms
  /\ nextRoom \in Nat
  /\ timer \in [pc : {"check", "fill", "cleanup"}, room : Rooms \cup {NoRoom},
                left : 0 .. RoomSize]
  /\ IsMap(battles, Rooms, Battle)

RoomsOK == \A r \in DOMAIN rooms : RoomInv(rooms[r])

BattlesOK ==
  \A r \in DOMAIN battles :
    r \in DOMAIN rooms /\ battles[r].players \subseteq members(rooms[r])

\* createRoom's counter is ahead of every room there is: a new room never takes
\* the place of another.
RoomIdsFresh == \A r \in DOMAIN rooms : r < nextRoom

\* Types of what joinQueue has in hand and of whether the process runs.
JoinTypes ==
  /\ IsMap(joining, Conns, [player : Players, mode : Modes \cup {NoMode}])
  /\ up \in BOOLEAN

\* While tryMatch fills a room it has players left to pop, and they are queued.
FillInv ==
  timer.pc = "fill" =>
    /\ timer.left > 0
    /\ timer.room \in DOMAIN rooms
    /\ Len(queue[NoMode]) >= timer.left

\* The inductive invariant of a server that has been restarted boots times: a restart
\* weakens only what the session manager knows of Redis.
GInv(boots) ==
  /\ SMIInv(boots)
  /\ GameTypes
  /\ SessionsOK(sm, gone, rooms, battles)
  /\ RoomsOK
  /\ BattlesOK
  /\ RoomIdsFresh
  /\ FillInv

\* The server starts in a state that satisfies the inductive invariant.
LEMMA InitInv ==
  ASSUME NEW boots
  PROVE  Init => GInv(boots)
<1> SUFFICES ASSUME Init PROVE GInv(boots)
  OBVIOUS
<1> USE DEF Init
<1>1. SMIInv(boots)
  BY SMInitInv
<1>2. rooms = EmptyMap /\ battles = EmptyMap /\ DOMAIN rooms = {} /\ DOMAIN battles = {}
  BY DEF EmptyMap
<1>3. sm.sessions = EmptyMap /\ DOMAIN sm.sessions = {}
  BY DEF SMInit, EmptyManager, EmptyMap
<1>4. IsMap(battles, Rooms, Battle)
  BY DEF IsMap, EmptyMap
<1>5. GameTypes
  BY <1>2, <1>4, RoomsAssumption, RoomSizeAssumption DEF GameTypes, AtCheck, NoRoom
<1>6. FillInv
  BY DEF FillInv, AtCheck
<1> QED BY <1>1, <1>2, <1>3, <1>5, <1>6 DEF GInv, SessionsOK, RoomsOK, BattlesOK, RoomIdsFresh

\* A step that changes nothing but sessions and what joinQueue is about to do.
LEMMA MarkStep ==
  ASSUME NEW boots, GInv(boots), SMIInv(boots)', UNCHANGED <<gone, queue, joins, rooms, nextRoom, timer, battles>>,
         SessionsOK(sm', gone, rooms, battles)
  PROVE  GInv(boots)'
<1>1. GameTypes' /\ SessionsOK(sm, gone, rooms, battles)'
  BY DEF GInv, GameTypes
<1>2. RoomsOK' /\ BattlesOK' /\ RoomIdsFresh'
  BY DEF GInv, RoomsOK, BattlesOK, RoomIdsFresh
<1>3. FillInv'
  BY DEF GInv, FillInv
<1> QED BY <1>1, <1>2, <1>3 DEF GInv

\* A handler that changes nothing but sessions.
LEMMA SessionStep ==
  ASSUME NEW boots, GInv(boots), SMIInv(boots)', UNCHANGED gameVars, SessionsOK(sm', gone, rooms, battles)
  PROVE  GInv(boots)'
BY MarkStep DEF gameVars

\* The handler of 1001 preserves the invariant.
LEMMA LoginRequestInv ==
  ASSUME NEW boots, GInv(boots), NEW c \in Conns, NEW p \in Players, NEW pw \in Passwords, NEW sid \in Sids,
         LoginRequest(c, p, pw, sid)
  PROVE  GInv(boots)'
<1> DEFINE m == login(sm, c, p, sid)
           n == setState(m, sid, "IN_LOBBY")
<1>1. SMInv(sm, boots) /\ MapsInv(sm) /\ SessionsOK(sm, gone, rooms, battles)
  BY DEF GInv, SMIInv, SMInv
<1>2. sid \notin sm.issued /\ sm' = n /\ UNCHANGED gameVars
  BY DEF LoginRequest
<1>3. SMInv(m, boots) /\ MapsInv(m)
  BY <1>1, <1>2, LoginInv DEF SMInv
<1>4. Keeps(sm, m, {sid}) /\ sid \in DOMAIN m.sessions /\ m.sessions[sid].room = NoRoom
  BY <1>1, <1>2, LoginKeeps
<1> HIDE DEF m
<1>a. "IN_LOBBY" \in SessionStates
  BY DEF SessionStates
<1>5. /\ SMInv(n, boots)
      /\ Keeps(m, n, {sid})
      /\ n.sessions[sid].state = "IN_LOBBY"
      /\ n.sessions[sid].room = NoRoom
  <2>1. SMInv(n, boots)
    BY <1>3, <1>a, SettersInv
  <2> QED BY <1>3, <1>4, <1>a, <2>1, SetStateEffect
<1> HIDE DEF n
<1>6. Keeps(sm, n, {sid})
  BY <1>4, <1>5 DEF Keeps
<1>7. SessionOK(n.sessions[sid], gone, rooms, battles)
  BY <1>5 DEF SessionOK
<1>8. SessionsOK(n, gone, rooms, battles)
  BY <1>1, <1>6, <1>7, KeepsOK, GrowsReflexive
<1>9. IsMap(accounts', Players, Passwords)
  BY PutMap DEF LoginRequest, register, GInv, SMIInv
<1> QED BY <1>2, <1>5, <1>8, <1>9, SessionStep DEF SMIInv

\* The handler of 1101 preserves the invariant.
LEMMA HeartbeatRequestInv ==
  ASSUME NEW boots, GInv(boots), NEW c \in Conns, HeartbeatRequest(c)
  PROVE  GInv(boots)'
<1>1. SMInv(sm, boots) /\ MapsInv(sm) /\ SessionsOK(sm, gone, rooms, battles)
  BY DEF GInv, SMIInv, SMInv
<1>2. SMInv(sm', boots) /\ Keeps(sm, sm', {})
  BY <1>1, SettersInv, HeartbeatKeeps DEF HeartbeatRequest
<1>3. UNCHANGED <<accounts, gameVars>>
  BY DEF HeartbeatRequest
<1>4. SessionsOK(sm', gone, rooms, battles)
  BY <1>1, <1>2, KeepsAll
<1> QED BY <1>2, <1>3, <1>4, SessionStep DEF SMIInv, GInv

\* The passing of time preserves the invariant.
LEMMA TimePassesInv ==
  ASSUME NEW boots, GInv(boots), TimePasses
  PROVE  GInv(boots)'
<1>1. SMInv(sm, boots) /\ MapsInv(sm) /\ SessionsOK(sm, gone, rooms, battles)
  BY DEF GInv, SMIInv, SMInv
<1>2. SMInv(sm', boots) /\ Keeps(sm, sm', {})
  BY <1>1, ElapseInv, ElapseKeeps DEF TimePasses
<1>3. UNCHANGED <<accounts, gameVars>>
  BY DEF TimePasses
<1>4. SessionsOK(sm', gone, rooms, battles)
  BY <1>1, <1>2, KeepsAll
<1> QED BY <1>2, <1>3, <1>4, SessionStep DEF SMIInv, GInv

\* The handler of 5001 preserves the invariant.
LEMMA ReconnectRequestInv ==
  ASSUME NEW boots, GInv(boots), NEW c \in Conns, NEW sid \in Sids, ReconnectRequest(c, sid)
  PROVE  GInv(boots)'
<1>1. SMInv(sm, boots) /\ MapsInv(sm) /\ SessionsOK(sm, gone, rooms, battles)
  BY DEF GInv, SMIInv, SMInv
<1>2. sm' = tryReconnect(sm, sid, c) /\ UNCHANGED <<accounts, gameVars>>
  BY DEF ReconnectRequest
<1>3. SMInv(sm', boots)
  BY <1>1, <1>2, TryReconnectInv
<1>4. \/ Keeps(sm, sm', {})
      \/ /\ Keeps(sm, sm', {sid})
         /\ sid \in DOMAIN sm.sessions
         /\ sid \in DOMAIN sm'.sessions
         /\ sm'.sessions[sid].state = "IN_LOBBY"
         /\ sm'.sessions[sid].room = sm.sessions[sid].room
  BY <1>1, <1>2, TryReconnectEffect
<1>5. CASE Keeps(sm, sm', {})
  <2>1. SessionsOK(sm', gone, rooms, battles)
    BY <1>1, <1>5, KeepsAll
  <2> QED BY <1>2, <1>3, <2>1, SessionStep DEF SMIInv, GInv
<1>6. CASE ~Keeps(sm, sm', {})
  <2>1. SessionOK(sm'.sessions[sid], gone, rooms, battles)
    BY <1>1, <1>4, <1>6 DEF SessionsOK, SessionOK
  <2>2. SessionsOK(sm', gone, rooms, battles)
    BY <1>1, <1>4, <1>6, <2>1, KeepsOK, GrowsReflexive
  <2> QED BY <1>2, <1>3, <2>2, SessionStep DEF SMIInv, GInv
<1> QED BY <1>5, <1>6

\* The disconnect callback preserves the invariant: the connection of the session
\* it marks is gone from that step on.
LEMMA DisconnectInv ==
  ASSUME NEW boots, GInv(boots), NEW c \in Conns, Disconnect(c)
  PROVE  GInv(boots)'
<1> DEFINE sid == getByConn(sm, c)
<1>1. SMInv(sm, boots) /\ MapsInv(sm) /\ SessionsOK(sm, gone, rooms, battles)
  BY DEF GInv, SMIInv, SMInv
<1>2. /\ sm' = markDisconnected(sm, c)
      /\ gone' = gone \cup {c}
      /\ UNCHANGED <<accounts, queue, joins, rooms, nextRoom, timer>>
  BY DEF Disconnect
<1>3. SMIInv(boots)'
  BY <1>1, <1>2, MarkDisconnectedInv DEF SMIInv, GInv
<1>4. battles' = battles
  <2>1. CASE ~hasConn(sm, c)
    BY <2>1 DEF Disconnect
  <2>2. CASE hasConn(sm, c)
    <3>1. sm'.sessions[sid].state = "DISCONNECTED"
      <4>1. markDisconnected(sm, c).sessions[sid].state = "DISCONNECTED"
        BY <1>1, <2>2, MarkDisconnectedEffect
      <4> QED BY <1>2, <4>1
    <3> QED BY <2>2, <3>1 DEF Disconnect
  <2> QED BY <2>1, <2>2
<1>5. Grows(gone, rooms, battles, gone', rooms, battles)
  BY <1>2 DEF Grows
<1>6. SessionsOK(sm', gone', rooms, battles)
  <2>1. CASE ~hasConn(sm, c)
    <3>1. sm' = sm
      BY <1>2, <2>1 DEF markDisconnected
    <3>2. Keeps(sm, sm', {})
      BY <3>1 DEF Keeps
    <3>3. \A x \in {} \cap DOMAIN sm'.sessions : SessionOK(sm'.sessions[x], gone', rooms, battles)
      OBVIOUS
    <3> QED BY <1>1, <1>5, <3>2, <3>3, KeepsOK
  <2>2. CASE hasConn(sm, c)
    <3>1. /\ Keeps(sm, sm', {sid})
          /\ sm'.sessions[sid].conn = c
          /\ sm'.sessions[sid].state = "DISCONNECTED"
          /\ sm'.sessions[sid].room = sm.sessions[sid].room
      BY <1>1, <1>2, <2>2, MarkDisconnectedEffect
    <3>2. sid \in DOMAIN sm.sessions
      BY <2>2 DEF hasConn, hasSession, getByConn
    <3>3. SessionOK(sm'.sessions[sid], gone', rooms, battles)
      BY <1>1, <1>2, <3>1, <3>2 DEF SessionsOK, SessionOK
    <3> QED BY <1>1, <1>5, <3>1, <3>3, KeepsOK
  <2> QED BY <2>1, <2>2
<1>7. GameTypes'
  BY <1>2, <1>4 DEF GInv, GameTypes
<1>8. RoomsOK' /\ BattlesOK' /\ RoomIdsFresh' /\ FillInv'
  BY <1>2, <1>4 DEF GInv, RoomsOK, BattlesOK, RoomIdsFresh, FillInv
<1> QED BY <1>2, <1>3, <1>4, <1>6, <1>7, <1>8 DEF GInv

\* The session a connection leads to is found through its player.
LEMMA FoundByPlayer ==
  ASSUME NEW m, MapsInv(m), NEW c, hasConn(m, c)
  PROVE  LET sid == getByConn(m, c)
             p   == m.sessions[sid].player
         IN  /\ sid \in DOMAIN m.sessions /\ p \in Players
             /\ hasPlayer(m, p) /\ getByPlayer(m, p) = sid
BY SessionType DEF SMInv, MapsInv, PlayerMapExactIn, hasConn, hasPlayer, hasSession, getByConn, getByPlayer

\* Setting a session's state and match mode: what joinQueue and leaveQueue do.
LEMMA StateAndModeOK ==
  ASSUME NEW boots, NEW m, SMInv(m, boots), NEW sid \in DOMAIN m.sessions, NEW mode \in Modes \cup {NoMode},
         NEW st \in {"MATCHING", "IN_LOBBY"}, NEW g, NEW R, NEW B, SessionsOK(m, g, R, B)
  PROVE  LET n == setMatchMode(setState(m, sid, st), sid, mode)
         IN  SMInv(n, boots) /\ SessionsOK(n, g, R, B)
<1> DEFINE k == setState(m, sid, st)
           n == setMatchMode(k, sid, mode)
<1>1. st \in SessionStates
  BY DEF SessionStates
<1>2. SMInv(k, boots) /\ MapsInv(m) /\ MapsInv(k)
  BY <1>1, SettersInv DEF SMInv
<1>3. /\ Keeps(m, k, {sid}) /\ DOMAIN k.sessions = DOMAIN m.sessions
      /\ k.sessions[sid].state = st /\ k.sessions[sid].room = m.sessions[sid].room
  BY <1>1, <1>2, SetStateEffect
<1> HIDE DEF k
<1>4. SessionOK(k.sessions[sid], g, R, B)
  BY <1>3 DEF SessionsOK, SessionOK
<1>5. SessionsOK(k, g, R, B)
  BY <1>3, <1>4, KeepsOK, GrowsReflexive
<1>6. SMInv(n, boots) /\ Keeps(k, n, {})
  BY <1>2, <1>3, SettersInv, SetMatchModeKeeps
<1> HIDE DEF n
<1>7. SessionsOK(n, g, R, B)
  BY <1>5, <1>6, KeepsAll
<1> QED BY <1>6, <1>7 DEF k, n

\* The handler of 2003 preserves the invariant.
LEMMA MatchCancelRequestInv ==
  ASSUME NEW boots, GInv(boots), NEW c \in Conns, MatchCancelRequest(c)
  PROVE  GInv(boots)'
<1> DEFINE sid == getByConn(sm, c)
           p   == sm.sessions[sid].player
<1>1. SMInv(sm, boots) /\ MapsInv(sm) /\ SessionsOK(sm, gone, rooms, battles)
  BY DEF GInv, SMIInv, SMInv
<1>2. hasConn(sm, c) /\ UNCHANGED <<accounts, gameVars>>
  BY DEF MatchCancelRequest
<1>3. sid \in DOMAIN sm.sessions /\ hasPlayer(sm, p) /\ getByPlayer(sm, p) = sid
  BY <1>1, <1>2, FoundByPlayer
<1>4. sm' = setMatchMode(setState(sm, sid, "IN_LOBBY"), sid, NoMode)
  BY <1>3 DEF MatchCancelRequest
<1>5. SMInv(sm', boots) /\ SessionsOK(sm', gone, rooms, battles)
  <2> HIDE DEF sid
  <2> QED BY <1>1, <1>3, <1>4, StateAndModeOK
<1> QED BY <1>2, <1>5, SessionStep DEF SMIInv, GInv

\* The push of joinQueue preserves the invariant: the queue only grows, so the timer
\* thread still finds the players it has counted on.
LEMMA MatchStartRequestInv ==
  ASSUME NEW boots, GInv(boots), NEW c \in Conns, NEW mode \in Modes \cup {NoMode}, MatchStartRequest(c, mode)
  PROVE  GInv(boots)'
<1> DEFINE sid == getByConn(sm, c)
           p   == sm.sessions[sid].player
<1>1. SMInv(sm, boots) /\ MapsInv(sm) /\ SessionsOK(sm, gone, rooms, battles) /\ GameTypes
  BY DEF GInv, SMIInv, SMInv
<1>2. /\ hasConn(sm, c)
      /\ joins < MaxJoins /\ joins' = joins + 1
      /\ queue' = [queue EXCEPT ![mode] = Append(@, p)]
      /\ UNCHANGED <<sm, accounts, gone, rooms, nextRoom, timer, battles>>
  BY DEF MatchStartRequest
<1>3. p \in Players
  BY <1>1, <1>2, FoundByPlayer
<1> HIDE DEF p
<1>6. /\ queue' \in [Modes \cup {NoMode} -> Seq(Players)]
      /\ queue \in [Modes \cup {NoMode} -> Seq(Players)]
      /\ Len(queue'[NoMode]) >= Len(queue[NoMode])
  <2>1. queue \in [Modes \cup {NoMode} -> Seq(Players)]
    BY <1>1 DEF GameTypes
  <2>2. queue[mode] \in Seq(Players) /\ queue[NoMode] \in Seq(Players)
    BY <2>1
  <2>3. /\ Append(queue[mode], p) \in Seq(Players)
        /\ Len(Append(queue[mode], p)) = Len(queue[mode]) + 1
        /\ Len(queue[mode]) \in Nat /\ Len(queue[NoMode]) \in Nat
    BY <1>3, <2>2
  <2>4. queue' \in [Modes \cup {NoMode} -> Seq(Players)]
    BY <1>2, <2>1, <2>3
  <2>5. queue'[NoMode] = IF mode = NoMode THEN Append(queue[mode], p) ELSE queue[NoMode]
    BY <1>2, <2>1
  <2> QED BY <2>1, <2>3, <2>4, <2>5
<1>7. joins' \in 0 .. MaxJoins
  BY <1>1, <1>2, RoomsAssumption DEF GameTypes
<1>8. GameTypes'
  BY <1>1, <1>2, <1>6, <1>7 DEF GameTypes
<1>9. FillInv'
  <2>1. Len(queue'[NoMode]) \in Nat /\ Len(queue[NoMode]) \in Nat /\ timer.left \in Nat
    BY <1>1, <1>6, RoomSizeAssumption DEF GameTypes
  <2> QED BY <1>2, <1>6, <2>1 DEF GInv, FillInv
<1>10. RoomsOK' /\ BattlesOK' /\ RoomIdsFresh' /\ SessionsOK(sm', gone', rooms', battles') /\ SMIInv(boots)'
  BY <1>1, <1>2 DEF GInv, SMIInv, RoomsOK, BattlesOK, RoomIdsFresh
<1> QED BY <1>8, <1>9, <1>10 DEF GInv

\* The mark preserves the invariant, whichever session the player has by then.
LEMMA JoinMarkInv ==
  ASSUME NEW boots, GInv(boots), JoinTypes, NEW c \in Conns, JoinMark(c)
  PROVE  GInv(boots)'
<1> DEFINE sid  == getByPlayer(sm, joining[c].player)
           mode == joining[c].mode
<1>1. SMInv(sm, boots) /\ SessionsOK(sm, gone, rooms, battles)
  BY DEF GInv, SMIInv
<1>2. /\ c \in DOMAIN joining /\ hasPlayer(sm, joining[c].player)
      /\ sm' = setMatchMode(setState(sm, sid, "MATCHING"), sid, mode)
      /\ UNCHANGED <<accounts, gone, queue, joins, rooms, nextRoom, timer, battles>>
  BY DEF JoinMark
<1>3. sid \in DOMAIN sm.sessions /\ mode \in Modes \cup {NoMode}
  BY <1>2 DEF hasPlayer, hasSession, getByPlayer, JoinTypes, IsMap
<1> HIDE DEF sid, mode
<1>4. SMInv(sm', boots) /\ SessionsOK(sm', gone, rooms, battles)
  BY <1>1, <1>2, <1>3, StateAndModeOK
<1> QED BY <1>2, <1>4, MarkStep DEF SMIInv, GInv

\* A crash changes nothing that the invariant is about.
LEMMA JoinCrashInv ==
  ASSUME NEW boots, GInv(boots), NEW c \in Conns, JoinCrash(c)
  PROVE  GInv(boots)'
<1>1. UNCHANGED <<sm, accounts, gone, queue, joins, rooms, nextRoom, timer, battles>>
  BY DEF JoinCrash
<1>2. SMIInv(boots)' /\ SessionsOK(sm', gone, rooms, battles)
  BY <1>1 DEF GInv, SMIInv
<1> QED BY <1>1, <1>2, MarkStep

\* What joinQueue has in hand is a player and a mode.
LEMMA JoinTypesNext ==
  ASSUME MapsInv(sm), JoinTypes, [Next]_vars
  PROVE  JoinTypes'
<1>1. CASE UNCHANGED joining /\ UNCHANGED up
  BY <1>1, Zenon DEF JoinTypes
<1>2. ASSUME NEW c \in Conns, NEW mode \in Modes \cup {NoMode}, MatchStartRequest(c, mode)
      PROVE  JoinTypes'
  <2> DEFINE p == sm.sessions[getByConn(sm, c)].player
             j == [player |-> p, mode |-> mode]
  <2>1. hasConn(sm, c) /\ joining' = Put(joining, c, j) /\ up' = up
    BY <1>2 DEF MatchStartRequest
  <2>2. p \in Players
    BY <2>1, FoundByPlayer
  <2>3. j \in [player : Players, mode : Modes \cup {NoMode}]
    BY <2>2
  <2> HIDE DEF j
  <2>4. IsMap(joining', Conns, [player : Players, mode : Modes \cup {NoMode}])
    BY <2>1, <2>3, PutMap DEF JoinTypes
  <2> QED BY <2>1, <2>4, Zenon DEF JoinTypes
<1>3. ASSUME NEW c \in Conns, JoinMark(c) PROVE JoinTypes'
  <2>1. joining' = Erase(joining, {c}) /\ up' = up
    BY <1>3 DEF JoinMark
  <2>2. IsMap(joining', Conns, [player : Players, mode : Modes \cup {NoMode}])
    BY <2>1, EraseMap DEF JoinTypes
  <2> QED BY <2>1, <2>2, Zenon DEF JoinTypes
<1>4. ASSUME NEW c \in Conns, JoinCrash(c) PROVE JoinTypes'
  <2>1. joining' = joining /\ up' = FALSE
    BY <1>4 DEF JoinCrash
  <2> QED BY <2>1, Zenon DEF JoinTypes
<1>5. \/ UNCHANGED joining /\ UNCHANGED up
      \/ \E c \in Conns, mode \in Modes \cup {NoMode} : MatchStartRequest(c, mode)
      \/ \E c \in Conns : JoinMark(c) \/ JoinCrash(c)
  BY DEF vars, gameVars, Next, QueueCommand, OtherStep, LoginRequest, HeartbeatRequest, ReconnectRequest,
     Disconnect, MatchCancelRequest, EnterRoomRequest, PlayerReadyRequest, MatchCheck, MatchPop,
     TimerCleanup, TimePasses
<1> QED BY <1>1, <1>2, <1>3, <1>4, <1>5

\* cleanupExpired, run by the timer thread, preserves the invariant.
LEMMA TimerCleanupInv ==
  ASSUME NEW boots, GInv(boots), TimerCleanup
  PROVE  GInv(boots)'
<1>1. SMInv(sm, boots) /\ MapsInv(sm) /\ SessionsOK(sm, gone, rooms, battles)
  BY DEF GInv, SMIInv, SMInv
<1>2. /\ sm' = cleanupExpired(sm)
      /\ timer' = AtCheck
      /\ UNCHANGED <<accounts, gone, queue, joins, rooms, nextRoom, battles>>
  BY DEF TimerCleanup
<1>3. SMInv(sm', boots) /\ Keeps(sm, sm', {})
  BY <1>1, <1>2, CleanupInv, CleanupKeeps
<1>4. SessionsOK(sm', gone, rooms, battles)
  BY <1>1, <1>3, KeepsAll
<1>5. GameTypes'
  BY <1>2, RoomSizeAssumption DEF GInv, GameTypes, AtCheck, NoRoom
<1>6. RoomsOK' /\ BattlesOK' /\ RoomIdsFresh' /\ FillInv'
  BY <1>2 DEF GInv, RoomsOK, BattlesOK, RoomIdsFresh, FillInv, AtCheck
<1> QED BY <1>2, <1>3, <1>4, <1>5, <1>6 DEF GInv, SMIInv

\* AtFill stands for a place in tryMatch's inner loop, or for its end.
LEMMA AtFillType ==
  ASSUME NEW r \in Rooms, NEW n \in 0 .. RoomSize
  PROVE  /\ AtFill(r, n) \in [pc : {"check", "fill", "cleanup"}, room : Rooms \cup {NoRoom},
                              left : 0 .. RoomSize]
         /\ AtFill(r, n).pc = "fill" => AtFill(r, n).room = r /\ AtFill(r, n).left = n
BY RoomSizeAssumption DEF AtFill, AtCheck, NoRoom

\* Replacing a room by one with at least its members, or adding one.
LEMMA PutRoom ==
  ASSUME RoomsOK, BattlesOK, DOMAIN rooms \subseteq Rooms, NEW r \in Rooms, NEW room, RoomInv(room),
         r \in DOMAIN rooms => members(rooms[r]) \subseteq members(room),
         rooms' = Put(rooms, r, room), battles' = battles
  PROVE  /\ RoomsOK' /\ BattlesOK' /\ DOMAIN rooms' \subseteq Rooms
         /\ DOMAIN rooms \subseteq DOMAIN rooms' /\ r \in DOMAIN rooms'
<1>1. DOMAIN rooms' = DOMAIN rooms \cup {r}
  BY DEF Put
<1>2. \A x \in DOMAIN rooms' : rooms'[x] = IF x = r THEN room ELSE rooms[x]
  BY DEF Put
<1>3. RoomsOK'
  BY <1>1, <1>2 DEF RoomsOK
<1>4. BattlesOK'
  BY <1>1, <1>2 DEF BattlesOK
<1> QED BY <1>1, <1>3, <1>4

\* The loop condition of tryMatch preserves the invariant: a room is opened only
\* when the queue holds the players the inner loop is going to pop.
LEMMA MatchCheckInv ==
  ASSUME NEW boots, GInv(boots), MatchCheck
  PROVE  GInv(boots)'
<1>1. /\ SMIInv(boots) /\ GameTypes /\ RoomsOK /\ BattlesOK /\ RoomIdsFresh
      /\ SessionsOK(sm, gone, rooms, battles)
  BY DEF GInv
<1>2. UNCHANGED <<sm, accounts, gone, queue, joins, battles>>
  BY DEF MatchCheck
<1>3. SMIInv(boots)'
  BY <1>1, <1>2 DEF SMIInv
<1>4. CASE Len(queue[NoMode]) < RoomSize
  <2>1. timer' = AtCleanup /\ UNCHANGED <<rooms, nextRoom>>
    BY <1>4 DEF MatchCheck
  <2>2. GameTypes'
    BY <1>1, <1>2, <2>1, RoomSizeAssumption DEF GameTypes, AtCleanup, NoRoom
  <2>3. RoomsOK' /\ BattlesOK' /\ RoomIdsFresh' /\ FillInv'
    BY <1>1, <1>2, <2>1 DEF RoomsOK, BattlesOK, RoomIdsFresh, FillInv, AtCleanup
  <2> QED BY <1>1, <1>2, <1>3, <2>1, <2>2, <2>3 DEF GInv
<1>5. CASE ~(Len(queue[NoMode]) < RoomSize)
  <2>1. /\ nextRoom \in Rooms
        /\ timer' = AtFill(nextRoom, RoomSize)
        /\ rooms' = Put(rooms, nextRoom, newRoom)
        /\ nextRoom' = nextRoom + 1
    BY <1>5 DEF MatchCheck
  <2>2. RoomSize \in 0 .. RoomSize
    BY RoomSizeAssumption
  <2>3. /\ timer' \in [pc : {"check", "fill", "cleanup"}, room : Rooms \cup {NoRoom},
                       left : 0 .. RoomSize]
        /\ timer'.pc = "fill" => timer'.room = nextRoom /\ timer'.left = RoomSize
    BY <2>1, <2>2, AtFillType
  <2>4. nextRoom \notin DOMAIN rooms
    BY <1>1 DEF RoomIdsFresh, GameTypes
  <2>5. /\ RoomsOK' /\ BattlesOK' /\ DOMAIN rooms' \subseteq Rooms
        /\ DOMAIN rooms \subseteq DOMAIN rooms' /\ nextRoom \in DOMAIN rooms'
    BY <1>1, <1>2, <2>1, <2>4, PutRoom, NewRoomInv DEF GameTypes
  <2>6. GameTypes'
    BY <1>1, <1>2, <2>1, <2>3, <2>5 DEF GameTypes
  <2>7. RoomIdsFresh'
    <3>1. DOMAIN rooms' = DOMAIN rooms \cup {nextRoom}
      BY <2>1 DEF Put
    <3>2. nextRoom \in Nat /\ nextRoom' = nextRoom + 1 /\ DOMAIN rooms \subseteq Nat
      BY <1>1, <2>1, RoomsAssumption DEF GameTypes
    <3> QED BY <1>1, <3>1, <3>2 DEF RoomIdsFresh
  <2>8. FillInv'
    <3>1. Len(queue[NoMode]) \in Nat
      BY <1>1 DEF GameTypes
    <3>2. Len(queue[NoMode]) >= RoomSize
      BY <1>5, <3>1, RoomSizeAssumption
    <3>3. queue' = queue
      BY <1>2
    <3> QED BY <2>3, <2>5, <3>2, <3>3, RoomSizeAssumption DEF FillInv
  <2>9. SessionsOK(sm', gone', rooms', battles')
    <3>1. Grows(gone, rooms, battles, gone, rooms', battles)
      BY <2>5 DEF Grows
    <3>2. Keeps(sm, sm, {})
      BY DEF Keeps
    <3>3. \A x \in {} \cap DOMAIN sm.sessions : SessionOK(sm.sessions[x], gone, rooms', battles)
      OBVIOUS
    <3>4. SessionsOK(sm, gone, rooms', battles)
      BY <1>1, <3>1, <3>2, <3>3, KeepsOK
    <3> QED BY <1>2, <3>4
  <2> QED BY <1>3, <2>5, <2>6, <2>7, <2>8, <2>9 DEF GInv
<1> QED BY <1>4, <1>5

\* One round of tryMatch's inner loop preserves the invariant: the queue and the
\* number of players still to be popped go down together.
LEMMA MatchPopInv ==
  ASSUME NEW boots, GInv(boots), MatchPop
  PROVE  GInv(boots)'
<1> DEFINE p   == Head(queue[NoMode])
           r   == timer.room
           sid == getByPlayer(sm, p)
           k   == setState(sm, sid, "IN_ROOM")
           n   == setCurrentRoom(k, sid, r)
<1>1. /\ SMIInv(boots) /\ SMInv(sm, boots) /\ MapsInv(sm) /\ GameTypes /\ RoomsOK /\ BattlesOK /\ RoomIdsFresh
      /\ SessionsOK(sm, gone, rooms, battles)
  BY DEF GInv, SMIInv, SMInv
<1>2. /\ timer.pc = "fill" /\ queue[NoMode] # <<>>
      /\ queue' = [queue EXCEPT ![NoMode] = Tail(@)]
      /\ timer' = AtFill(r, timer.left - 1)
      /\ UNCHANGED <<accounts, gone, joins, nextRoom, battles>>
  BY DEF MatchPop
<1>3. /\ r \in DOMAIN rooms /\ r \in Rooms
      /\ timer.left \in 0 .. RoomSize /\ timer.left > 0
      /\ Len(queue[NoMode]) >= timer.left
  BY <1>2 DEF GInv, FillInv, GameTypes
<1>4. /\ queue' \in [Modes \cup {NoMode} -> Seq(Players)]
      /\ p \in Players
      /\ queue'[NoMode] = Tail(queue[NoMode])
      /\ Len(queue'[NoMode]) = Len(queue[NoMode]) - 1
      /\ Len(queue[NoMode]) \in Nat \ {0}
  <2>1. queue \in [Modes \cup {NoMode} -> Seq(Players)] /\ queue[NoMode] \in Seq(Players)
    BY <1>1 DEF GameTypes
  <2>2. /\ p \in Players
        /\ Tail(queue[NoMode]) \in Seq(Players)
        /\ Len(Tail(queue[NoMode])) = Len(queue[NoMode]) - 1
        /\ Len(queue[NoMode]) \in Nat \ {0}
    BY <1>2, <2>1
  <2> QED BY <1>2, <2>1, <2>2
<1>5. /\ timer.left - 1 \in 0 .. RoomSize
      /\ Len(queue'[NoMode]) >= timer.left - 1
  BY <1>3, <1>4, RoomSizeAssumption
<1>6. /\ timer' \in [pc : {"check", "fill", "cleanup"}, room : Rooms \cup {NoRoom},
                     left : 0 .. RoomSize]
      /\ timer'.pc = "fill" => timer'.room = r /\ timer'.left = timer.left - 1 /\ timer'.left > 0
  <2>1. timer.left - 1 > 0 \/ AtFill(r, timer.left - 1) = AtCheck
    <3>1. CASE timer.left - 1 = 0
      BY <3>1 DEF AtFill
    <3>2. CASE timer.left - 1 # 0
      BY <1>3, <3>2, RoomSizeAssumption
    <3> QED BY <3>1, <3>2
  <2>2. AtCheck.pc # "fill"
    BY DEF AtCheck
  <2>3. /\ AtFill(r, timer.left - 1) \in [pc : {"check", "fill", "cleanup"},
                                           room : Rooms \cup {NoRoom}, left : 0 .. RoomSize]
        /\ AtFill(r, timer.left - 1).pc = "fill" =>
             AtFill(r, timer.left - 1).room = r /\ AtFill(r, timer.left - 1).left = timer.left - 1
    BY <1>3, <1>5, AtFillType
  <2> QED BY <1>2, <2>1, <2>2, <2>3
<1> HIDE DEF p, r
<1>7. CASE ~hasPlayer(sm, p)
  <2>1. UNCHANGED <<rooms, sm>>
    BY <1>7 DEF MatchPop, p
  <2>2. GameTypes'
    BY <1>1, <1>2, <1>4, <1>6, <2>1 DEF GameTypes
  <2>3. RoomsOK' /\ BattlesOK' /\ RoomIdsFresh'
    BY <1>1, <1>2, <2>1 DEF RoomsOK, BattlesOK, RoomIdsFresh
  <2>4. FillInv'
    BY <1>3, <1>5, <1>6, <2>1 DEF FillInv
  <2>5. SMIInv(boots)' /\ SessionsOK(sm', gone', rooms', battles')
    BY <1>1, <1>2, <2>1 DEF SMIInv
  <2> QED BY <2>2, <2>3, <2>4, <2>5 DEF GInv
<1>8. CASE hasPlayer(sm, p)
  <2>1. rooms' = Put(rooms, r, addPlayer(rooms[r], p)) /\ sm' = n
    BY <1>8 DEF MatchPop, p, r
  <2>2. sid \in DOMAIN sm.sessions
    BY <1>8 DEF hasPlayer, hasSession, getByPlayer
  <2> HIDE DEF sid
  <2>3. RoomInv(addPlayer(rooms[r], p)) /\ members(rooms[r]) \subseteq members(addPlayer(rooms[r], p))
    BY <1>1, <1>3, <1>4, AddPlayerInv DEF RoomsOK
  <2>4. /\ RoomsOK' /\ BattlesOK' /\ DOMAIN rooms' \subseteq Rooms
        /\ DOMAIN rooms \subseteq DOMAIN rooms' /\ r \in DOMAIN rooms'
    BY <1>1, <1>2, <1>3, <2>1, <2>3, PutRoom DEF GameTypes
  <2>5. DOMAIN rooms' = DOMAIN rooms
    BY <1>3, <2>1 DEF Put
  <2>6. GameTypes'
    BY <1>1, <1>2, <1>4, <1>6, <2>4 DEF GameTypes
  <2>7. RoomIdsFresh'
    BY <1>1, <1>2, <2>5 DEF RoomIdsFresh
  <2>8. FillInv'
    BY <1>3, <1>5, <1>6, <2>5 DEF FillInv
  <2>9. "IN_ROOM" \in SessionStates
    BY DEF SessionStates
  <2>10. SMInv(k, boots) /\ MapsInv(k)
    BY <1>1, <2>9, SettersInv DEF SMInv
  <2>11. /\ Keeps(sm, k, {sid}) /\ DOMAIN k.sessions = DOMAIN sm.sessions
         /\ k.sessions[sid].state = "IN_ROOM"
    BY <1>1, <2>2, <2>9, SetStateEffect
  <2> HIDE DEF k
  <2>12. SMInv(n, boots)
    BY <1>3, <2>10, SettersInv
  <2>13. /\ Keeps(k, n, {sid}) /\ n.sessions[sid].state = "IN_ROOM" /\ n.sessions[sid].room = r
    BY <2>2, <2>10, <2>11, SetCurrentRoomEffect
  <2> HIDE DEF n
  <2>14. Keeps(sm, n, {sid})
    BY <2>11, <2>13 DEF Keeps
  <2>15. SessionOK(n.sessions[sid], gone, rooms', battles)
    BY <1>3, <2>4, <2>13, RoomsAssumption DEF SessionOK, NoRoom
  <2>16. Grows(gone, rooms, battles, gone, rooms', battles)
    BY <2>4 DEF Grows
  <2>17. SessionsOK(n, gone, rooms', battles)
    BY <1>1, <2>14, <2>15, <2>16, KeepsOK
  <2>18. SMIInv(boots)'
    BY <1>1, <1>2, <2>1, <2>12 DEF SMIInv
  <2> QED BY <1>2, <2>1, <2>4, <2>6, <2>7, <2>8, <2>17, <2>18 DEF GInv
<1> QED BY <1>7, <1>8

\* The handler of 3001 preserves the invariant.
LEMMA EnterRoomRequestInv ==
  ASSUME NEW boots, GInv(boots), NEW c \in Conns, NEW r \in Rooms, EnterRoomRequest(c, r)
  PROVE  GInv(boots)'
<1> DEFINE sid == getByConn(sm, c)
           p   == sm.sessions[sid].player
<1>1. /\ SMIInv(boots) /\ SMInv(sm, boots) /\ MapsInv(sm) /\ GameTypes /\ RoomsOK /\ BattlesOK /\ RoomIdsFresh /\ FillInv
      /\ SessionsOK(sm, gone, rooms, battles)
  BY DEF GInv, SMIInv, SMInv
<1>2. /\ hasConn(sm, c) /\ r \in DOMAIN rooms
      /\ rooms' = Put(rooms, r, addPlayer(rooms[r], p))
      /\ sm' = setCurrentRoom(sm, sid, r)
      /\ UNCHANGED <<accounts, gone, queue, joins, nextRoom, timer, battles>>
  BY DEF EnterRoomRequest
<1>3. sid \in DOMAIN sm.sessions /\ p \in Players
  BY <1>1, <1>2, FoundByPlayer
<1> HIDE DEF sid, p
<1>4. RoomInv(addPlayer(rooms[r], p)) /\ members(rooms[r]) \subseteq members(addPlayer(rooms[r], p))
  BY <1>1, <1>2, <1>3, AddPlayerInv DEF RoomsOK
<1>5. /\ RoomsOK' /\ BattlesOK' /\ DOMAIN rooms' \subseteq Rooms
      /\ DOMAIN rooms \subseteq DOMAIN rooms' /\ r \in DOMAIN rooms'
  BY <1>1, <1>2, <1>4, PutRoom DEF GameTypes
<1>6. DOMAIN rooms' = DOMAIN rooms
  BY <1>2 DEF Put
<1>7. GameTypes'
  BY <1>1, <1>2, <1>5 DEF GameTypes
<1>8. RoomIdsFresh' /\ FillInv'
  BY <1>1, <1>2, <1>6 DEF RoomIdsFresh, FillInv
<1>9. SMInv(sm', boots)
  BY <1>1, <1>2, SettersInv
<1>10. /\ Keeps(sm, sm', {sid})
       /\ sm'.sessions[sid].player = sm.sessions[sid].player
       /\ sm'.sessions[sid].conn = sm.sessions[sid].conn
       /\ sm'.sessions[sid].state = sm.sessions[sid].state
       /\ sm'.sessions[sid].room = r
  BY <1>1, <1>2, <1>3, SetCurrentRoomEffect
<1>11. SessionOK(sm'.sessions[sid], gone, rooms', battles)
  BY <1>1, <1>3, <1>5, <1>10, RoomsAssumption DEF SessionsOK, SessionOK, NoRoom
<1>12. Grows(gone, rooms, battles, gone, rooms', battles)
  BY <1>5 DEF Grows
<1>13. SessionsOK(sm', gone, rooms', battles)
  BY <1>1, <1>10, <1>11, <1>12, KeepsOK
<1> QED BY <1>1, <1>2, <1>5, <1>7, <1>8, <1>9, <1>13 DEF GInv, SMIInv

\* The handler of 3003 preserves the invariant: every session startBattle sets to
\* IN_BATTLE is that of a member of the room, who is a player of the battle.
LEMMA PlayerReadyRequestInv ==
  ASSUME NEW boots, GInv(boots), NEW c \in Conns, PlayerReadyRequest(c)
  PROVE  GInv(boots)'
<1> DEFINE sid  == getByConn(sm, c)
           p    == sm.sessions[sid].player
           r    == sm.sessions[sid].room
           room == playerReady(rooms[r], p)
<1>1. /\ SMIInv(boots) /\ SMInv(sm, boots) /\ MapsInv(sm) /\ GameTypes /\ RoomsOK /\ BattlesOK /\ RoomIdsFresh /\ FillInv
      /\ SessionsOK(sm, gone, rooms, battles)
  BY DEF GInv, SMIInv, SMInv
<1>2. /\ hasConn(sm, c) /\ r \in DOMAIN rooms
      /\ IF allReady(room)
         THEN /\ rooms' = Put(rooms, r, startBattle(room))
              /\ battles' = Put(battles, r, startedBattle(room))
              /\ sm' = enterBattle(sm, members(room))
         ELSE /\ rooms' = Put(rooms, r, room)
              /\ UNCHANGED <<battles, sm>>
      /\ UNCHANGED <<accounts, gone, queue, joins, nextRoom, timer>>
  BY DEF PlayerReadyRequest
<1>3. p \in Players /\ r \in Rooms
  BY <1>1, <1>2, FoundByPlayer DEF GameTypes
<1> HIDE DEF p, r
<1>4. RoomInv(room) /\ members(room) = members(rooms[r])
  BY <1>1, <1>2, <1>3, PlayerReadyInv DEF RoomsOK
<1> HIDE DEF room
<1>5. CASE ~allReady(room)
  <2>1. rooms' = Put(rooms, r, room) /\ UNCHANGED <<battles, sm>>
    BY <1>2, <1>5
  <2>2. RoomsOK' /\ BattlesOK' /\ DOMAIN rooms' \subseteq Rooms
    BY <1>1, <1>3, <1>4, <2>1, PutRoom DEF GameTypes
  <2>3. DOMAIN rooms' = DOMAIN rooms
    BY <1>2, <2>1 DEF Put
  <2>4. GameTypes'
    BY <1>1, <1>2, <2>1, <2>2 DEF GameTypes
  <2>5. RoomIdsFresh' /\ FillInv'
    BY <1>1, <1>2, <2>3 DEF RoomIdsFresh, FillInv
  <2>6. SessionsOK(sm', gone', rooms', battles')
    BY <1>1, <1>2, <2>1, <2>3 DEF SessionsOK, SessionOK
  <2> QED BY <1>1, <1>2, <2>1, <2>2, <2>4, <2>5, <2>6 DEF GInv, SMIInv
<1>6. CASE allReady(room)
  <2> DEFINE b == startedBattle(room)
             X == {x \in DOMAIN sm.sessions : sm.sessions[x].player \in members(room)}
  <2>1. /\ rooms' = Put(rooms, r, startBattle(room))
        /\ battles' = Put(battles, r, b)
        /\ sm' = enterBattle(sm, members(room))
    BY <1>2, <1>6
  <2>2. RoomInv(startBattle(room)) /\ members(startBattle(room)) = members(room)
    BY <1>4, StartBattleInv
  <2>3. b.players = members(room) /\ b \in Battle
    BY <1>4 DEF startedBattle, Battle, RoomInv, IsRoom, IsMap, members
  <2> HIDE DEF b
  <2>4. /\ DOMAIN rooms' = DOMAIN rooms /\ DOMAIN battles' = DOMAIN battles \cup {r}
        /\ \A x \in DOMAIN rooms' : rooms'[x] = IF x = r THEN startBattle(room) ELSE rooms[x]
        /\ \A x \in DOMAIN battles' : battles'[x] = IF x = r THEN b ELSE battles[x]
    BY <1>2, <2>1 DEF Put
  <2>5. RoomsOK'
    BY <1>1, <2>2, <2>4 DEF RoomsOK
  <2>6. BattlesOK'
    BY <1>1, <1>2, <1>4, <2>2, <2>3, <2>4 DEF BattlesOK
  <2>7. IsMap(battles', Rooms, Battle)
    BY <1>1, <1>3, <2>1, <2>3, PutMap DEF GameTypes
  <2>8. GameTypes'
    BY <1>1, <1>2, <2>4, <2>7 DEF GameTypes
  <2>9. RoomIdsFresh' /\ FillInv'
    BY <1>1, <1>2, <2>4 DEF RoomIdsFresh, FillInv
  <2>10. Grows(gone, rooms, battles, gone, rooms', battles')
    BY <1>1, <1>4, <2>3, <2>4 DEF Grows, BattlesOK
  <2>11. /\ SMInv(sm', boots)
         /\ Keeps(sm, sm', X)
         /\ DOMAIN sm'.sessions = DOMAIN sm.sessions
         /\ \A x \in X : /\ sm'.sessions[x].player = sm.sessions[x].player
                        /\ sm'.sessions[x].state = "IN_BATTLE"
                        /\ sm'.sessions[x].room = sm.sessions[x].room
    BY <1>1, <2>1, EnterBattleInv
  <2>12. ASSUME NEW x \in X
         PROVE  SessionOK(sm'.sessions[x], gone, rooms', battles')
    <3>1. sm'.sessions[x].player \in battles'[r].players /\ r \in DOMAIN battles'
      BY <2>3, <2>4, <2>11
    <3>2. sm'.sessions[x].state = "IN_BATTLE" /\ sm'.sessions[x].room \in DOMAIN rooms' \cup {NoRoom}
      BY <1>1, <2>4, <2>11 DEF SessionsOK, SessionOK
    <3> QED BY <3>1, <3>2 DEF SessionOK
  <2> HIDE DEF X
  <2>13. SessionsOK(sm', gone, rooms', battles')
    BY <1>1, <2>10, <2>11, <2>12, KeepsOK
  <2> QED BY <1>1, <1>2, <2>5, <2>6, <2>8, <2>9, <2>11, <2>13 DEF GInv, SMIInv
<1> QED BY <1>5, <1>6

\* Every handler and every step of the timer thread preserves the invariant.
LEMMA NextInv ==
  ASSUME NEW boots
  PROVE  GInv(boots) /\ JoinTypes /\ [Next]_vars => GInv(boots)' /\ JoinTypes'
<1> SUFFICES ASSUME GInv(boots), JoinTypes, [Next]_vars PROVE GInv(boots)' /\ JoinTypes'
  OBVIOUS
<1>1. GInv(boots)'
  <2>1. CASE UNCHANGED vars
    <3>1. UNCHANGED gameVars /\ sm' = sm /\ accounts' = accounts
      BY <2>1 DEF vars, gameVars
    <3>2. SMIInv(boots)' /\ SessionsOK(sm', gone, rooms, battles)
      BY <3>1 DEF GInv, SMIInv
    <3> QED BY <3>1, <3>2, SessionStep
  <2>2. CASE QueueCommand
    BY <2>2, MatchStartRequestInv, MatchCheckInv, MatchPopInv DEF QueueCommand
  <2>3. CASE OtherStep
    BY <2>3, LoginRequestInv, HeartbeatRequestInv, ReconnectRequestInv, DisconnectInv,
       JoinMarkInv, JoinCrashInv, MatchCancelRequestInv, EnterRoomRequestInv, PlayerReadyRequestInv,
       TimerCleanupInv, TimePassesInv DEF OtherStep
  <2> QED BY <2>1, <2>2, <2>3 DEF Next
<1>2. JoinTypes'
  BY JoinTypesNext DEF GInv, SMIInv, SMInv
<1> QED BY <1>1, <1>2

\* The inductive invariant holds in every reachable state of the server.
THEOREM Invariance == Spec => [](GInv(0) /\ JoinTypes)
<1>1. Init => GInv(0) /\ JoinTypes
  <2>1. Init => JoinTypes
    BY DEF Init, JoinTypes, IsMap, EmptyMap
  <2> QED BY <2>1, InitInv
<1>2. GInv(0) /\ JoinTypes /\ [Next]_vars => (GInv(0) /\ JoinTypes)'
  BY NextInv
<1> QED BY <1>1, <1>2, PTL DEF Spec

\* Sessions, queue, rooms, timer thread and battles keep their types.
THEOREM TypeCorrect == Spec => []TypeOK
<1>1. GInv(0) /\ JoinTypes => TypeOK
  <2> SUFFICES ASSUME GInv(0), JoinTypes PROVE TypeOK
    OBVIOUS
  <2>1. SMTypeOK
    BY DEF GInv, SMIInv, SMInv, MapsInv, SMTypeOK
  <2>2. \A r \in DOMAIN rooms : IsRoom(rooms[r])
    BY DEF GInv, RoomsOK, RoomInv
  <2>3. GameTypes
    BY DEF GInv
  <2> QED BY <2>1, <2>2, <2>3, Zenon DEF GameTypes, JoinTypes, TypeOK, Battle
<1> QED BY <1>1, Invariance, PTL

\* tryMatch's BRPOP without a timeout never finds the queue empty, for every room
\* size and every interleaving with the handlers.
THEOREM MatchingNeverBlocks == Spec => []PopNeverBlocks
<1>1. GInv(0) => PopNeverBlocks
  BY DEF GInv, FillInv, PopNeverBlocks
<1> QED BY <1>1, Invariance, PTL

\* A session whose state is IN_BATTLE belongs to a player of some battle.
THEOREM BattleOfSession == Spec => []InBattleHasBattle
<1>1. GInv(0) => InBattleHasBattle
  BY DEF GInv, SessionsOK, SessionOK, InBattleHasBattle
<1> QED BY <1>1, Invariance, PTL

\* A session that awaits a reconnect has lost its connection.
THEOREM ConnectionOfSession == Spec => []DisconnectedIsGone
<1>1. GInv(0) => DisconnectedIsGone
  BY DEF GInv, SessionsOK, SessionOK, DisconnectedIsGone
<1> QED BY <1>1, Invariance, PTL

\* Every room a session refers to exists, and a session IN_ROOM refers to one.
THEOREM RoomOfSession == Spec => []RoomReferences
<1>1. GInv(0) => RoomReferences
  BY DEF GInv, SessionsOK, SessionOK, RoomReferences
<1> QED BY <1>1, Invariance, PTL

\* Rooms never overflow, ready_count_ never falls behind the flags, and only a
\* room's members fight in its battle.
THEOREM RoomsAreConsistent == Spec => []RoomsConsistent
<1>1. GInv(0) => RoomsConsistent
  BY DEF GInv, RoomsOK, RoomInv, BattlesOK, RoomsConsistent
<1> QED BY <1>1, Invariance, PTL

-----------------------------------------------------------------------------
(***************************************************************************)
(* The server as a directory of sessions: what the calls that a handler    *)
(* chains do to the owners of the sessions.                                *)
(***************************************************************************)

\* Two setters in a row, as most handlers call them.
LEMMA TwoSettersOwners ==
  ASSUME NEW m, NEW k, NEW n, SameOwners(m, k), SameOwners(k, n)
  PROVE  SameOwners(m, n)
BY DEF SameOwners

\* joinQueue and leaveQueue: setState, then setMatchMode.
LEMMA StateAndModeOwners ==
  ASSUME NEW boots, NEW m, SMInv(m, boots), NEW sid, NEW st \in SessionStates,
         NEW mode \in Modes \cup {NoMode}
  PROVE  SameOwners(m, setMatchMode(setState(m, sid, st), sid, mode))
<1> DEFINE k == setState(m, sid, st)
<1>1. SMInv(k, boots)
  BY SettersInv
<1>2. MapsInv(m) /\ MapsInv(k)
  BY <1>1 DEF SMInv
<1>3. SameOwners(m, k)
  BY <1>2, SettersOwners
<1> HIDE DEF k
<1>4. SameOwners(k, setMatchMode(k, sid, mode))
  BY <1>2, SettersOwners
<1> QED BY <1>3, <1>4, TwoSettersOwners DEF k

\* tryMatch: setState, then setCurrentRoom.
LEMMA StateAndRoomOwners ==
  ASSUME NEW boots, NEW m, SMInv(m, boots), NEW sid, NEW st \in SessionStates,
         NEW r \in Rooms \cup {NoRoom}
  PROVE  SameOwners(m, setCurrentRoom(setState(m, sid, st), sid, r))
<1> DEFINE k == setState(m, sid, st)
<1>1. SMInv(k, boots)
  BY SettersInv
<1>2. MapsInv(m) /\ MapsInv(k)
  BY <1>1 DEF SMInv
<1>3. SameOwners(m, k)
  BY <1>2, SettersOwners
<1> HIDE DEF k
<1>4. SameOwners(k, setCurrentRoom(k, sid, r))
  BY <1>2, SettersOwners
<1> QED BY <1>3, <1>4, TwoSettersOwners DEF k

\* 1001: login, then setState.
LEMMA LoginRequestOwners ==
  ASSUME NEW boots, NEW m, SMInv(m, boots), NEW c \in Conns, NEW p \in Players, NEW sid \in Sids,
         sid \notin m.issued
  PROVE  LogsIn(m, setState(login(m, c, p, sid), sid, "IN_LOBBY"), p, sid)
<1> DEFINE k == login(m, c, p, sid)
<1>1. SMInv(k, boots) /\ LogsIn(m, k, p, sid)
  BY LoginInv, LoginOwners DEF SMInv
<1> HIDE DEF k
<1>2. SameOwners(k, setState(k, sid, "IN_LOBBY"))
  BY <1>1, SettersOwners DEF SMInv, SessionStates
<1>3. LogsIn(m, setState(k, sid, "IN_LOBBY"), p, sid)
  BY <1>1, <1>2 DEF SameOwners, LogsIn
<1> QED BY <1>3 DEF k

\* startBattle's loop changes no owner.
LEMMA EnterBattleOwners ==
  ASSUME NEW boots, NEW m, SMInv(m, boots), NEW P
  PROVE  SameOwners(m, enterBattle(m, P))
<1> DEFINE r == enterBattle(m, P)
           X == {x \in DOMAIN m.sessions : m.sessions[x].player \in P}
<1>1. /\ Keeps(m, r, X) /\ DOMAIN r.sessions = DOMAIN m.sessions
      /\ \A x \in X : r.sessions[x].player = m.sessions[x].player
  BY EnterBattleInv
<1>2. r.issued = m.issued
  BY DEF enterBattle
<1> HIDE DEF r
<1>3. \A x \in DOMAIN m.sessions : r.sessions[x].player = m.sessions[x].player
  BY <1>1 DEF Keeps
<1>4. SameOwners(m, r)
  BY <1>1, <1>2, <1>3 DEF SameOwners, ownerOf
<1> QED BY <1>4 DEF r

\* Only a login, a reconnect and cleanupExpired change the owners of the sessions.
LEMMA NextOwners ==
  ASSUME NEW boots, GInv(boots), JoinTypes, Next
  PROVE  \/ SameOwners(sm, sm')
         \/ \E c \in Conns, p \in Players, pw \in Passwords, sid \in Sids : LoginRequest(c, p, pw, sid)
         \/ \E c \in Conns, sid \in Sids : ReconnectRequest(c, sid)
         \/ TimerCleanup
<1>1. SMInv(sm, boots) /\ MapsInv(sm) /\ GameTypes
  BY DEF GInv, SMIInv, SMInv
<1>3. ASSUME NEW c \in Conns, HeartbeatRequest(c) PROVE SameOwners(sm, sm')
  BY <1>1, <1>3, SettersOwners DEF HeartbeatRequest
<1>5. ASSUME NEW c \in Conns, Disconnect(c) PROVE SameOwners(sm, sm')
  BY <1>1, <1>5, MarkDisconnectedOwners DEF Disconnect
<1>6. ASSUME NEW c \in Conns, JoinMark(c) PROVE SameOwners(sm, sm')
  <2> DEFINE sid == getByPlayer(sm, joining[c].player)
  <2>1. /\ sm' = setMatchMode(setState(sm, sid, "MATCHING"), sid, joining[c].mode)
        /\ joining[c].mode \in Modes \cup {NoMode}
    BY <1>6 DEF JoinMark, JoinTypes, IsMap
  <2> HIDE DEF sid
  <2> QED BY <1>1, <2>1, StateAndModeOwners DEF SessionStates
<1>7. ASSUME NEW c \in Conns, MatchCancelRequest(c) PROVE SameOwners(sm, sm')
  <2>1. CASE sm' = sm
    BY <2>1 DEF SameOwners
  <2>2. CASE sm' # sm
    BY <1>1, <1>7, <2>2, StateAndModeOwners DEF MatchCancelRequest, SessionStates
  <2> QED BY <2>1, <2>2
<1>8. ASSUME NEW c \in Conns, NEW r \in Rooms, EnterRoomRequest(c, r) PROVE SameOwners(sm, sm')
  BY <1>1, <1>8, SettersOwners DEF EnterRoomRequest
<1>9. ASSUME NEW c \in Conns, PlayerReadyRequest(c) PROVE SameOwners(sm, sm')
  <2>1. sm' = sm \/ \E P : sm' = enterBattle(sm, P)
    BY <1>9 DEF PlayerReadyRequest
  <2> QED BY <1>1, <2>1, EnterBattleOwners DEF SameOwners
<1>10. CASE MatchCheck
  BY <1>10 DEF MatchCheck, SameOwners
<1>11. CASE MatchPop
  <2>1. CASE sm' = sm
    BY <2>1 DEF SameOwners
  <2>2. CASE sm' # sm
    <3> DEFINE sid == getByPlayer(sm, Head(queue[NoMode]))
    <3>1. /\ sm' = setCurrentRoom(setState(sm, sid, "IN_ROOM"), sid, timer.room)
          /\ timer.room \in Rooms \cup {NoRoom} /\ "IN_ROOM" \in SessionStates
      BY <1>1, <1>11, <2>2 DEF MatchPop, GameTypes, SessionStates
    <3> HIDE DEF sid
    <3> QED BY <1>1, <3>1, StateAndRoomOwners
  <2> QED BY <2>1, <2>2
<1>12. CASE TimePasses
  BY <1>1, <1>12, ElapseOwners DEF TimePasses
<1>13. CASE \/ \E c \in Conns, mode \in Modes \cup {NoMode} : MatchStartRequest(c, mode)
            \/ \E c \in Conns : JoinCrash(c)
  BY <1>13 DEF MatchStartRequest, JoinCrash, SameOwners
<1> QED BY <1>3, <1>5, <1>6, <1>7, <1>8, <1>9, <1>10, <1>11, <1>12, <1>13 DEF Next, QueueCommand, OtherStep

\* Every handler and every step of the timer thread is a step of the directory.
LEMMA NextDirectoryStep ==
  ASSUME NEW boots, GInv(boots), JoinTypes, Next
  PROVE  DirectoryStep(sm, sm')
<1>1. SMInv(sm, boots) /\ MapsInv(sm)
  BY DEF GInv, SMIInv, SMInv
<1>2. ASSUME NEW c \in Conns, NEW p \in Players, NEW pw \in Passwords, NEW sid \in Sids,
             LoginRequest(c, p, pw, sid)
      PROVE  DirectoryStep(sm, sm')
  BY <1>1, <1>2, LoginRequestOwners DEF LoginRequest, DirectoryStep
<1>3. ASSUME NEW c \in Conns, NEW sid \in Sids, ReconnectRequest(c, sid) PROVE DirectoryStep(sm, sm')
  BY <1>1, <1>3, TryReconnectOwners DEF ReconnectRequest, DirectoryStep
<1>4. CASE TimerCleanup
  BY <1>4, CleanupOwners DEF TimerCleanup, DirectoryStep
<1> QED BY <1>2, <1>3, <1>4, NextOwners DEF DirectoryStep

-----------------------------------------------------------------------------
(***************************************************************************)
(* Who may lose a session: SilentBeforeSessionless.                        *)
(***************************************************************************)

\* If the sessions of m outside X are in n too, with their players, then a player that
\* has lost its session had one of X.
LEMMA LostSession ==
  ASSUME NEW m, MapsInv(m), NEW n, MapsInv(n), NEW X, NEW p, hasPlayer(m, p), ~hasPlayer(n, p),
         \A x \in DOMAIN m.sessions \ X :
           x \in DOMAIN n.sessions /\ n.sessions[x].player = m.sessions[x].player
  PROVE  getByPlayer(m, p) \in X
<1> DEFINE x == m.playerMap[p]
<1>1. x \in DOMAIN m.sessions /\ m.sessions[x].player = p
  BY DEF hasPlayer, MapsInv, PlayerMapExactIn
<1>2. ASSUME x \in DOMAIN n.sessions, n.sessions[x].player = p PROVE FALSE
  BY <1>2 DEF hasPlayer, hasSession, MapsInv, PlayerMapExactIn
<1> QED BY <1>1, <1>2 DEF getByPlayer

\* A player loses its session without getting another one only to cleanupExpired or to
\* its own late reconnect: the session has been silent for longer than the window.
LEMMA SilentStep ==
  ASSUME GInv(0), JoinTypes, Next, NEW p \in Players, hasPlayer(sm, p), ~hasPlayer(sm', p)
  PROVE  sm.sessions[getByPlayer(sm, p)].idle > ReconnectWindow
<1> DEFINE own == getByPlayer(sm, p)
<1>1. MapsInv(sm) /\ MapsInv(sm') /\ SMInv(sm, 0)
  BY NextInv DEF GInv, SMIInv, SMInv
<1>2. CASE SameOwners(sm, sm')
  <2>1. \A x \in DOMAIN sm.sessions \ {} :
          x \in DOMAIN sm'.sessions /\ sm'.sessions[x].player = sm.sessions[x].player
    BY <1>2 DEF SameOwners, ownerOf
  <2> QED BY <1>1, <2>1, LostSession
<1>3. ASSUME NEW c \in Conns, NEW q \in Players, NEW pw \in Passwords, NEW sid \in Sids,
             LoginRequest(c, q, pw, sid)
      PROVE  FALSE
  <2>1. LogsIn(sm, sm', q, sid)
    BY <1>1, <1>3, LoginRequestOwners DEF LoginRequest
  <2>2. sid \in DOMAIN sm'.sessions /\ sm'.sessions[sid].player = q
    BY <2>1 DEF LogsIn, ownerOf
  <2>3. hasPlayer(sm', q)
    BY <1>1, <2>2 DEF hasPlayer, hasSession, MapsInv, PlayerMapExactIn
  <2>4. p # q
    BY <2>3
  <2> DEFINE X == {y \in DOMAIN sm.sessions : sm.sessions[y].player = q}
  <2>5. sid \notin DOMAIN sm.sessions
    BY <1>1, <2>1 DEF LogsIn, MapsInv
  <2>6. {y \in DOMAIN sm.sessions : ownerOf(sm)[y] = q} = X
    BY DEF ownerOf
  <2>7. \A x \in DOMAIN sm.sessions \ X : x \in DOMAIN ownerOf(sm') /\ ownerOf(sm')[x] = ownerOf(sm)[x]
    <3> HIDE DEF X
    <3> QED BY <2>1, <2>5, <2>6 DEF LogsIn
  <2>8. \A x \in DOMAIN sm.sessions \ X :
          x \in DOMAIN sm'.sessions /\ sm'.sessions[x].player = sm.sessions[x].player
    <3> HIDE DEF X
    <3> QED BY <2>7 DEF ownerOf
  <2>9. getByPlayer(sm, p) \in X
    <3> HIDE DEF X
    <3> QED BY <1>1, <2>8, LostSession
  <2> QED BY <1>1, <2>4, <2>9 DEF getByPlayer, hasPlayer, MapsInv, PlayerMapExactIn
<1>4. ASSUME NEW c \in Conns, NEW sid \in Sids, ReconnectRequest(c, sid), ~SameOwners(sm, sm')
      PROVE  sm.sessions[own].idle > ReconnectWindow
  <2>1. sm' = logout(sm, sid) /\ sid \in DOMAIN sm.sessions /\ sm.sessions[sid].idle > ReconnectWindow
    BY <1>1, <1>4, TryReconnectOwners DEF ReconnectRequest
  <2>2. sm'.sessions = Erase(sm.sessions, {sid})
    BY <2>1, Zenon DEF logout, hasSession, eraseSession, removeFromRedis, erasePlayer, eraseConn
  <2>3. \A x \in DOMAIN sm.sessions \ {sid} :
          x \in DOMAIN sm'.sessions /\ sm'.sessions[x].player = sm.sessions[x].player
    BY <2>2 DEF Erase
  <2>4. own \in {sid}
    BY <1>1, <2>3, LostSession
  <2> QED BY <2>1, <2>4
<1>5. CASE TimerCleanup
  <2>1. sm'.sessions = Erase(sm.sessions, expiredSids(sm))
    BY <1>5 DEF TimerCleanup, cleanupExpired
  <2>2. \A x \in DOMAIN sm.sessions \ expiredSids(sm) :
          x \in DOMAIN sm'.sessions /\ sm'.sessions[x].player = sm.sessions[x].player
    BY <2>1 DEF Erase
  <2>3. own \in expiredSids(sm)
    BY <1>1, <2>2, LostSession
  <2>4. own \in DOMAIN sm.sessions /\ sm.sessions[own].idle > SessionTTL
    BY <2>3 DEF expiredSids, isExpired
  <2>5. sm.sessions[own].idle \in Nat
    BY <1>1, <2>4, SessionType, WindowAssumption DEF MapsInv, Session
  <2> QED BY <2>4, <2>5, WindowAssumption
<1> QED BY <1>2, <1>3, <1>4, <1>5, NextOwners

\* joinQueue's unchecked pointer is null only for a player that has been silent for longer
\* than the reconnect window: no kick, disconnect, match or battle leaves a player without
\* a session, whatever the numbers of players, connections and sessions.
THEOREM OnlyTheSilentLoseSessions == Spec => SilentBeforeSessionless
<1>1. GInv(0) /\ JoinTypes /\ [Next]_vars
        => [\A p \in Players :
              hasPlayer(sm, p) /\ ~hasPlayer(sm', p)
                => sm.sessions[getByPlayer(sm, p)].idle > ReconnectWindow]_vars
  BY SilentStep
<1> QED BY <1>1, Invariance, PTL DEF Spec, SilentBeforeSessionless

\* The whole server implements SessionDirectory: whatever the handlers chain and the timer
\* thread interleaves, a session keeps its owner, a player never has two, and an id that is
\* gone does not come back.
THEOREM ServerImplementsDirectory == Spec => ImplementsDirectory
<1>1. Init => Directory!Init
  BY DirectoryInit DEF Init
<1>2. GInv(0) /\ JoinTypes /\ [Next]_vars => [Directory!Next]_(Directory!vars)
  <2> SUFFICES ASSUME GInv(0), JoinTypes, [Next]_vars PROVE DirectoryStep(sm, sm')
    BY StepOfDirectory
  <2>1. CASE UNCHANGED vars
    BY <2>1 DEF vars, SameOwners, DirectoryStep
  <2> QED BY <2>1, NextDirectoryStep
<1> QED BY <1>1, <1>2, Invariance, PTL DEF Spec, ImplementsDirectory, Directory!Spec

=============================================================================
