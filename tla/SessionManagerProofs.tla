------------------------ MODULE SessionManagerProofs ------------------------
(***************************************************************************)
(* Proofs about SessionManager.                                            *)
(*                                                                         *)
(* SMInv says of a manager m that its maps have their types and are exact, *)
(* and, in a server that was never restarted, that the online keys are     *)
(* player_map_ and the stored rows agree.  Each method, an operator on m,  *)
(* preserves it (one lemma per method), so SMIInv is inductive.  The       *)
(* refinement follows from what each method does to the owners of the      *)
(* sessions.                                                               *)
(***************************************************************************)
EXTENDS SessionManager, TLAPS

\* An assignment m[k] = v leaves a map of the same type.
LEMMA PutMap ==
  ASSUME NEW f, NEW S, NEW T, IsMap(f, S, T), NEW k \in S, NEW v \in T
  PROVE  IsMap(Put(f, k, v), S, T)
BY DEF IsMap, Put

\* erase(k) leaves a map of the same type.
LEMMA EraseMap ==
  ASSUME NEW f, NEW S, NEW T, IsMap(f, S, T), NEW X
  PROVE  IsMap(Erase(f, X), S, T)
BY DEF IsMap, Erase

\* What saveToRedis composes from a session is a row of Redis.
LEMMA RowType ==
  ASSUME NEW s \in Session
  PROVE  row(s) \in Row
BY WindowAssumption DEF row, Row, Session

\* The three maps are exact, and every live session has drawn its id.
MapsInv(m) ==
  /\ IsManager(m)
  /\ ConnMapSoundIn(m)
  /\ PlayerMapExactIn(m)
  /\ DOMAIN m.sessions \subseteq m.issued

\* What is in Redis is what the manager has written.
RedisInv(m) == StoredAgreesIn(m) /\ m.online = m.playerMap

\* The invariant of a manager between two calls, when the server has been restarted
\* boots times over the same Redis: a new process finds keys that are not its own.
SMInv(m, boots) == MapsInv(m) /\ (boots = 0 => RedisInv(m))

\* In the middle of a call: Redis is up to date but for the session being saved.
StoredAgreesExcept(m, sid) ==
  \A x \in DOMAIN m.stored \ {sid} :
    /\ x \in DOMAIN m.sessions
    /\ m.stored[x].player = m.sessions[x].player
    /\ m.stored[x].conn   = m.sessions[x].conn
    /\ m.stored[x].state  = m.sessions[x].state
    /\ m.stored[x].room   = m.sessions[x].room

OnlineMirrorsExcept(m, p) ==
  /\ DOMAIN m.online \cup {p} = DOMAIN m.playerMap
  /\ \A x \in DOMAIN m.online \ {p} : m.online[x] = m.playerMap[x]

\* The sessions in a well-typed sessions_ are sessions.
LEMMA SessionType ==
  ASSUME NEW m, IsManager(m), NEW sid \in DOMAIN m.sessions
  PROVE  /\ sid \in Sids
         /\ m.sessions[sid] \in Session
         /\ m.sessions[sid].player \in Players
         /\ m.sessions[sid].conn \in Conns
BY DEF IsManager, IsMap, Session

\* Assigning a field of a session, as the setters do, leaves a session and the
\* other fields alone.
LEMMA FieldTypes ==
  ASSUME NEW s \in Session
  PROVE  /\ /\ touch(s) \in Session
            /\ touch(s).player = s.player
            /\ touch(s).conn = s.conn
            /\ touch(s).state = s.state
            /\ touch(s).room = s.room
         /\ \A st \in SessionStates :
              /\ withState(s, st) \in Session
              /\ withState(s, st).player = s.player
              /\ withState(s, st).conn = s.conn
              /\ withState(s, st).state = st
         /\ \A c \in Conns :
              /\ withConn(s, c) \in Session
              /\ withConn(s, c).player = s.player
              /\ withConn(s, c).conn = c
BY WindowAssumption DEF Session, touch, withState, withConn

\* saveToRedis keeps the invariant when the maps are right and the session it
\* saves is the one its player is bound to; the row may have been stale before.
LEMMA SaveInv ==
  ASSUME NEW boots, NEW m, NEW sid \in DOMAIN m.sessions, MapsInv(m),
         boots = 0 => StoredAgreesExcept(m, sid) /\ OnlineMirrorsExcept(m, m.sessions[sid].player)
  PROVE  SMInv(saveToRedis(m, sid), boots)
<1> DEFINE p == m.sessions[sid].player
           t == row(m.sessions[sid])
<1>1. sid \in Sids /\ p \in Players /\ t \in Row
  BY SessionType, RowType DEF MapsInv
<1>2. /\ IsMap(Put(m.online, p, sid), Players, Sids)
      /\ IsMap(Put(m.stored, sid, t), Sids, Row)
  BY <1>1, PutMap DEF MapsInv, IsManager
<1>3. MapsInv(saveToRedis(m, sid))
  BY <1>2 DEF MapsInv, IsManager, ConnMapSoundIn, PlayerMapExactIn, saveToRedis
<1>4. boots = 0 => Put(m.online, p, sid) = m.playerMap
  <2>1. m.playerMap[p] = sid
    BY DEF MapsInv, PlayerMapExactIn
  <2>2. m.playerMap = [x \in DOMAIN m.playerMap |-> m.playerMap[x]]
    BY DEF MapsInv, IsManager, IsMap
  <2> QED BY <1>1, <2>1, <2>2 DEF Put, OnlineMirrorsExcept
<1>5. boots = 0 => StoredAgreesIn(saveToRedis(m, sid))
  BY DEF StoredAgreesIn, StoredAgreesExcept, saveToRedis, row, Put
<1> QED BY <1>3, <1>4, <1>5 DEF SMInv, RedisInv, saveToRedis

\* Replacing a session by one of the same player and connection keeps the maps
\* exact.
LEMMA SetSessionMaps ==
  ASSUME NEW m, MapsInv(m), NEW sid \in DOMAIN m.sessions, NEW s \in Session,
         s.player = m.sessions[sid].player, s.conn = m.sessions[sid].conn
  PROVE  MapsInv(setSession(m, sid, s))
<1>1. IsMap(Put(m.sessions, sid, s), Sids, Session) /\ sid \in Sids
  BY SessionType, PutMap DEF MapsInv, IsManager
<1>2. /\ DOMAIN Put(m.sessions, sid, s) = DOMAIN m.sessions
      /\ \A x \in DOMAIN m.sessions :
           /\ Put(m.sessions, sid, s)[x].player = m.sessions[x].player
           /\ Put(m.sessions, sid, s)[x].conn = m.sessions[x].conn
  BY DEF Put
<1>3. IsManager(setSession(m, sid, s))
  BY <1>1 DEF MapsInv, IsManager, setSession
<1>4. ConnMapSoundIn(setSession(m, sid, s))
  BY <1>2 DEF MapsInv, ConnMapSoundIn, setSession
<1>5. PlayerMapExactIn(setSession(m, sid, s))
  BY <1>2 DEF MapsInv, PlayerMapExactIn, setSession
<1> QED BY <1>2, <1>3, <1>4, <1>5 DEF MapsInv, setSession

\* A setter that saves.
LEMMA SetAndSaveInv ==
  ASSUME NEW boots, NEW m, SMInv(m, boots), NEW sid \in DOMAIN m.sessions, NEW s \in Session,
         s.player = m.sessions[sid].player, s.conn = m.sessions[sid].conn
  PROVE  SMInv(saveToRedis(setSession(m, sid, s), sid), boots)
<1> DEFINE r == setSession(m, sid, s)
<1>1. MapsInv(r)
  BY SetSessionMaps DEF SMInv
<1>2. sid \in DOMAIN r.sessions /\ r.sessions[sid] = s
  BY DEF setSession, Put
<1>3. boots = 0 => StoredAgreesExcept(r, sid)
  BY DEF SMInv, RedisInv, StoredAgreesIn, StoredAgreesExcept, setSession, Put
<1>4. boots = 0 => OnlineMirrorsExcept(r, s.player)
  BY DEF SMInv, RedisInv, MapsInv, PlayerMapExactIn, OnlineMirrorsExcept, setSession
<1>5. SMInv(saveToRedis(r, sid), boots)
  <2> HIDE DEF r
  <2> QED BY <1>1, <1>2, <1>3, <1>4, SaveInv
<1> QED BY <1>5

\* A setter that does not save, of a field that is not compared.
LEMMA SetOnlyInv ==
  ASSUME NEW boots, NEW m, SMInv(m, boots), NEW sid \in DOMAIN m.sessions, NEW s \in Session,
         s.player = m.sessions[sid].player, s.conn = m.sessions[sid].conn,
         s.state = m.sessions[sid].state, s.room = m.sessions[sid].room
  PROVE  SMInv(setSession(m, sid, s), boots)
<1>1. MapsInv(setSession(m, sid, s))
  BY SetSessionMaps DEF SMInv
<1>2. boots = 0 => StoredAgreesIn(setSession(m, sid, s))
  BY SMTT(30) DEF SMInv, RedisInv, StoredAgreesIn, setSession, Put
<1> QED BY <1>1, <1>2 DEF SMInv, RedisInv, setSession

\* logout, field by field: the two map entries, the two Redis keys and the
\* session go.
LEMMA LogoutFields ==
  ASSUME NEW m, NEW sid \in DOMAIN m.sessions
  PROVE  logout(m, sid) =
           [sessions |-> Erase(m.sessions, {sid}),
            connMap |-> Erase(m.connMap, {m.sessions[sid].conn}),
            playerMap |-> Erase(m.playerMap, {m.sessions[sid].player}),
            online |-> Erase(m.online, {m.sessions[sid].player}),
            stored |-> Erase(m.stored, {sid}), issued |-> m.issued]
<1>1. {m.sessions[x].player : x \in {sid} \cap DOMAIN m.sessions} = {m.sessions[sid].player}
  OBVIOUS
<1> QED BY <1>1, Zenon DEF logout, hasSession, eraseSession, removeFromRedis, erasePlayer, eraseConn

\* logout keeps the invariant.  Its online key and its player_map_ entry go
\* together because removeFromRedis still finds the session.
LEMMA LogoutInv ==
  ASSUME NEW boots, NEW m, SMInv(m, boots), NEW sid
  PROVE  SMInv(logout(m, sid), boots)
<1>1. CASE ~hasSession(m, sid)
  BY <1>1 DEF logout
<1>2. CASE hasSession(m, sid)
  <2> DEFINE c == m.sessions[sid].conn
             p == m.sessions[sid].player
             r == [sessions |-> Erase(m.sessions, {sid}),
                   connMap |-> Erase(m.connMap, {c}),
                   playerMap |-> Erase(m.playerMap, {p}),
                   online |-> Erase(m.online, {p}),
                   stored |-> Erase(m.stored, {sid}), issued |-> m.issued]
  <2>1. sid \in DOMAIN m.sessions /\ logout(m, sid) = r
    BY <1>2, LogoutFields DEF hasSession
  <2>2. IsManager(r)
    BY EraseMap DEF SMInv, MapsInv, IsManager
  <2>3. ConnMapSoundIn(r)
    BY <2>1 DEF SMInv, MapsInv, ConnMapSoundIn, Erase
  <2>4. PlayerMapExactIn(r)
    BY <2>1 DEF SMInv, MapsInv, PlayerMapExactIn, Erase
  <2>5. boots = 0 => StoredAgreesIn(r)
    BY DEF SMInv, RedisInv, StoredAgreesIn, Erase
  <2> QED BY <2>1, <2>2, <2>3, <2>4, <2>5 DEF SMInv, RedisInv, MapsInv, Erase
<1> QED BY <1>1, <1>2

\* The session kickDuplicate drops is dropped as by a logout.
LEMMA KickIsLogout ==
  ASSUME NEW m, MapsInv(m), NEW p \in DOMAIN m.playerMap
  PROVE  kickDuplicate(m, p) = logout(m, m.playerMap[p])
<1> DEFINE old == m.playerMap[p]
<1>1. old \in DOMAIN m.sessions /\ m.sessions[old].player = p
  BY DEF SMInv, MapsInv, PlayerMapExactIn
<1>2. {m.sessions[x].player : x \in {old} \cap DOMAIN m.sessions} = {p}
  BY <1>1
<1>3. kickDuplicate(m, p) =
        [sessions |-> Erase(m.sessions, {old}),
         connMap |-> Erase(m.connMap, {m.sessions[old].conn}),
         playerMap |-> Erase(m.playerMap, {p}),
         online |-> Erase(m.online, {p}),
         stored |-> Erase(m.stored, {old}), issued |-> m.issued]
  BY <1>1, <1>2, Zenon DEF kickDuplicate, dropKicked, hasSession, eraseSession,
                    removeFromRedis, erasePlayer, eraseConn
<1> QED BY <1>1, <1>3, LogoutFields, Zenon

\* kickDuplicate leaves the player without a session, so that the login that follows
\* cannot give it a second one, and touches no other session.
LEMMA KickEffect ==
  ASSUME NEW m, MapsInv(m), NEW p
  PROVE  /\ p \notin DOMAIN kickDuplicate(m, p).playerMap
         /\ kickDuplicate(m, p).issued = m.issued
         /\ kickDuplicate(m, p).sessions =
              Erase(m.sessions, {sid \in DOMAIN m.sessions : m.sessions[sid].player = p})
<1>1. CASE p \notin DOMAIN m.playerMap
  <2>1. {sid \in DOMAIN m.sessions : m.sessions[sid].player = p} = {}
    BY <1>1 DEF MapsInv, PlayerMapExactIn
  <2>2. m.sessions = [x \in DOMAIN m.sessions |-> m.sessions[x]]
    BY DEF MapsInv, IsManager, IsMap
  <2> QED BY <1>1, <2>1, <2>2 DEF kickDuplicate, Erase
<1>2. CASE p \in DOMAIN m.playerMap
  <2> DEFINE old == m.playerMap[p]
             r == logout(m, old)
  <2>1. old \in DOMAIN m.sessions /\ m.sessions[old].player = p
    BY <1>2 DEF MapsInv, PlayerMapExactIn
  <2>2. {sid \in DOMAIN m.sessions : m.sessions[sid].player = p} = {old}
    BY <2>1 DEF MapsInv, PlayerMapExactIn
  <2>3. kickDuplicate(m, p) = r
    BY <1>2, KickIsLogout
  <2>4. /\ r.playerMap = Erase(m.playerMap, {p})
        /\ r.issued = m.issued
        /\ r.sessions = Erase(m.sessions, {old})
    <3>1. r = [sessions |-> Erase(m.sessions, {old}),
               connMap |-> Erase(m.connMap, {m.sessions[old].conn}),
               playerMap |-> Erase(m.playerMap, {p}),
               online |-> Erase(m.online, {p}),
               stored |-> Erase(m.stored, {old}), issued |-> m.issued]
      BY <2>1, LogoutFields
    <3> HIDE DEF r
    <3> QED BY <3>1
  <2> QED BY <2>2, <2>3, <2>4 DEF Erase
<1> QED BY <1>1, <1>2

\* kickDuplicate keeps the invariant.
LEMMA KickInv ==
  ASSUME NEW boots, NEW m, SMInv(m, boots), NEW p
  PROVE  SMInv(kickDuplicate(m, p), boots)
<1>1. CASE p \notin DOMAIN m.playerMap
  BY <1>1 DEF kickDuplicate
<1>2. CASE p \in DOMAIN m.playerMap
  <2>1. kickDuplicate(m, p) = logout(m, m.playerMap[p])
    BY <1>2, KickIsLogout DEF SMInv
  <2>2. SMInv(logout(m, m.playerMap[p]), boots)
    BY LogoutInv
  <2> QED BY <2>1, <2>2
<1> QED BY <1>1, <1>2

\* login, with an id never drawn before, keeps the invariant.
LEMMA LoginInv ==
  ASSUME NEW boots, NEW m, SMInv(m, boots), NEW c \in Conns, NEW p \in Players, NEW sid \in Sids,
         sid \notin m.issued
  PROVE  /\ SMInv(login(m, c, p, sid), boots)
         /\ login(m, c, p, sid).sessions = Put(kickDuplicate(m, p).sessions, sid, newSession(c, p))
         /\ login(m, c, p, sid).issued = m.issued \cup {sid}
<1> DEFINE k == kickDuplicate(m, p)
           s == newSession(c, p)
           r == setPlayer(setConn(setSession(k, sid, s), c, sid), p, sid)
<1>1. SMInv(k, boots) /\ p \notin DOMAIN k.playerMap /\ k.issued = m.issued
  <2>1. SMInv(k, boots)
    BY KickInv
  <2> QED BY <2>1, KickEffect DEF SMInv
<1>2. sid \notin DOMAIN k.sessions
  BY <1>1 DEF SMInv, MapsInv
<1>3. s \in Session /\ s.player = p /\ s.conn = c
  BY WindowAssumption DEF newSession, Session, SessionStates
<1> HIDE DEF k, s
<1>4. r = [sessions |-> Put(k.sessions, sid, s), connMap |-> Put(k.connMap, c, sid),
           playerMap |-> Put(k.playerMap, p, sid), online |-> k.online,
           stored |-> k.stored, issued |-> k.issued \cup {sid}]
  BY DEF setPlayer, setConn, setSession
<1>5. IsManager(r)
  <2>1. /\ IsMap(r.sessions, Sids, Session)
        /\ IsMap(r.connMap, Conns, Sids)
        /\ IsMap(r.playerMap, Players, Sids)
    BY <1>1, <1>3, <1>4, PutMap DEF SMInv, MapsInv, IsManager
  <2> QED BY <1>1, <1>4, <2>1 DEF SMInv, MapsInv, IsManager
<1>6. ConnMapSoundIn(r)
  BY <1>1, <1>2, <1>3, <1>4 DEF SMInv, MapsInv, ConnMapSoundIn, Put
<1>7. PlayerMapExactIn(r)
  BY <1>1, <1>2, <1>3, <1>4 DEF SMInv, MapsInv, PlayerMapExactIn, Put
<1>8. /\ sid \in DOMAIN r.sessions
      /\ r.sessions[sid] = s
      /\ DOMAIN r.sessions \subseteq r.issued
  BY <1>1, <1>4 DEF SMInv, MapsInv, Put
<1>9. boots = 0 => StoredAgreesExcept(r, sid)
  BY <1>1, <1>2, <1>4 DEF SMInv, RedisInv, StoredAgreesIn, StoredAgreesExcept, Put
<1>10. boots = 0 => OnlineMirrorsExcept(r, p)
  BY <1>1, <1>4 DEF SMInv, RedisInv, OnlineMirrorsExcept, Put
<1>11. SMInv(saveToRedis(r, sid), boots)
  <2> HIDE DEF r
  <2> QED BY <1>3, <1>5, <1>6, <1>7, <1>8, <1>9, <1>10, SaveInv DEF MapsInv
<1> QED BY <1>1, <1>4, <1>11 DEF login, k, s, saveToRedis

\* heartbeat, setState, setMatchMode and setCurrentRoom keep the invariant.
LEMMA SettersInv ==
  ASSUME NEW boots, NEW m, SMInv(m, boots), NEW sid
  PROVE  /\ SMInv(heartbeat(m, sid), boots)
         /\ \A st \in SessionStates : SMInv(setState(m, sid, st), boots)
         /\ \A mode \in Modes \cup {NoMode} : SMInv(setMatchMode(m, sid, mode), boots)
         /\ \A r \in Rooms \cup {NoRoom} : SMInv(setCurrentRoom(m, sid, r), boots)
<1>1. CASE ~hasSession(m, sid)
  BY <1>1 DEF heartbeat, setState, setMatchMode, setCurrentRoom
<1>2. CASE hasSession(m, sid)
  <2> DEFINE s == m.sessions[sid]
  <2>1. sid \in DOMAIN m.sessions /\ s \in Session
    BY <1>2, SessionType DEF hasSession, SMInv, MapsInv
  <2> HIDE DEF s
  <2>2. SMInv(heartbeat(m, sid), boots)
    <3> DEFINE t == touch(s)
    <3>1. /\ t \in Session /\ t.player = s.player /\ t.conn = s.conn
          /\ t.state = s.state /\ t.room = s.room
      BY <2>1, FieldTypes
    <3> HIDE DEF t
    <3>2. SMInv(setSession(m, sid, t), boots)
      BY <2>1, <3>1, SetOnlyInv DEF s
    <3> QED BY <1>2, <3>2 DEF heartbeat, s, t
  <2>3. ASSUME NEW st \in SessionStates PROVE SMInv(setState(m, sid, st), boots)
    <3> DEFINE t == withState(s, st)
    <3>1. t \in Session /\ t.player = s.player /\ t.conn = s.conn
      BY <2>1, FieldTypes
    <3> HIDE DEF t
    <3>2. SMInv(saveToRedis(setSession(m, sid, t), sid), boots)
      BY <2>1, <3>1, SetAndSaveInv DEF s
    <3> QED BY <1>2, <3>2 DEF setState, s, t
  <2>4. ASSUME NEW mode \in Modes \cup {NoMode} PROVE SMInv(setMatchMode(m, sid, mode), boots)
    <3> DEFINE t == [s EXCEPT !.mode = mode]
    <3>1. /\ t \in Session /\ t.player = s.player /\ t.conn = s.conn
          /\ t.state = s.state /\ t.room = s.room
      BY <2>1 DEF Session
    <3> HIDE DEF t
    <3>2. SMInv(setSession(m, sid, t), boots)
      BY <2>1, <3>1, SetOnlyInv DEF s
    <3> QED BY <1>2, <3>2 DEF setMatchMode, s, t
  <2>5. ASSUME NEW r \in Rooms \cup {NoRoom} PROVE SMInv(setCurrentRoom(m, sid, r), boots)
    <3> DEFINE t == [s EXCEPT !.room = r]
    <3>1. t \in Session /\ t.player = s.player /\ t.conn = s.conn
      BY <2>1 DEF Session
    <3> HIDE DEF t
    <3>2. SMInv(saveToRedis(setSession(m, sid, t), sid), boots)
      BY <2>1, <3>1, SetAndSaveInv DEF s
    <3> QED BY <1>2, <3>2 DEF setCurrentRoom, s, t
  <2> QED BY <2>2, <2>3, <2>4, <2>5
<1> QED BY <1>1, <1>2

\* markDisconnected keeps the invariant.
LEMMA MarkDisconnectedInv ==
  ASSUME NEW boots, NEW m, SMInv(m, boots), NEW c
  PROVE  SMInv(markDisconnected(m, c), boots)
<1>1. CASE ~hasConn(m, c)
  BY <1>1 DEF markDisconnected
<1>2. CASE hasConn(m, c)
  <2> DEFINE sid == m.connMap[c]
             s == m.sessions[sid]
             t == touch(withState(s, "DISCONNECTED"))
  <2>1. sid \in DOMAIN m.sessions /\ s \in Session
    BY <1>2, SessionType DEF hasConn, hasSession, SMInv, MapsInv
  <2> HIDE DEF s
  <2>2. t \in Session /\ t.player = s.player /\ t.conn = s.conn
    BY <2>1, FieldTypes DEF SessionStates
  <2> HIDE DEF t
  <2>3. SMInv(saveToRedis(setSession(m, sid, t), sid), boots)
    BY <2>1, <2>2, SetAndSaveInv DEF s
  <2> QED BY <1>2, <2>3 DEF markDisconnected, getByConn, s, t
<1> QED BY <1>1, <1>2

\* The success path of tryReconnect keeps the invariant: the entry of the old
\* connection goes before the new one is made, also when they are the same.
LEMMA RebindInv ==
  ASSUME NEW boots, NEW m, SMInv(m, boots), NEW sid \in DOMAIN m.sessions, NEW c \in Conns
  PROVE  SMInv(rebind(m, sid, c), boots)
<1> DEFINE s == m.sessions[sid]
           t == touch(withState(withConn(s, c), "IN_LOBBY"))
           r == setSession(setConn(eraseConn(m, s.conn), c, sid), sid, t)
<1>1. sid \in Sids /\ s \in Session
  BY SessionType DEF SMInv, MapsInv
<1>2. t \in Session /\ t.player = s.player /\ t.conn = c
  BY <1>1, FieldTypes DEF SessionStates
<1>3. r = [sessions |-> Put(m.sessions, sid, t),
           connMap |-> Put(Erase(m.connMap, {s.conn}), c, sid),
           playerMap |-> m.playerMap, online |-> m.online,
           stored |-> m.stored, issued |-> m.issued \cup {sid}]
  BY DEF setSession, setConn, eraseConn
<1> HIDE DEF t
<1>4. IsManager(r)
  <2>1. IsMap(r.sessions, Sids, Session)
    BY <1>1, <1>2, <1>3, PutMap DEF SMInv, MapsInv, IsManager
  <2>2. IsMap(Erase(m.connMap, {s.conn}), Conns, Sids)
    BY EraseMap DEF SMInv, MapsInv, IsManager
  <2>3. IsMap(r.connMap, Conns, Sids)
    BY <1>1, <1>3, <2>2, PutMap, SMTT(30)
  <2> QED BY <1>1, <1>3, <2>1, <2>3 DEF SMInv, MapsInv, IsManager
<1>5. ConnMapSoundIn(r)
  BY <1>2, <1>3 DEF SMInv, MapsInv, ConnMapSoundIn, Put, Erase
<1>6. PlayerMapExactIn(r)
  BY <1>2, <1>3 DEF SMInv, MapsInv, PlayerMapExactIn, Put
<1>7. /\ sid \in DOMAIN r.sessions
      /\ r.sessions[sid] = t
      /\ DOMAIN r.sessions \subseteq r.issued
  BY <1>3 DEF SMInv, MapsInv, Put
<1>8. boots = 0 => StoredAgreesExcept(r, sid)
  BY <1>3 DEF SMInv, RedisInv, StoredAgreesIn, StoredAgreesExcept, Put
<1>9. boots = 0 => OnlineMirrorsExcept(r, t.player)
  BY <1>2, <1>3 DEF SMInv, RedisInv, MapsInv, PlayerMapExactIn, OnlineMirrorsExcept
<1>10. SMInv(saveToRedis(r, sid), boots)
  <2> HIDE DEF r
  <2> QED BY <1>4, <1>5, <1>6, <1>7, <1>8, <1>9, SaveInv DEF MapsInv
<1> QED BY <1>10 DEF rebind, t

\* tryReconnect keeps the invariant on every path it returns by.
LEMMA TryReconnectInv ==
  ASSUME NEW boots, NEW m, SMInv(m, boots), NEW sid, NEW c \in Conns
  PROVE  SMInv(tryReconnect(m, sid, c), boots)
BY LogoutInv, RebindInv DEF tryReconnect, hasSession

\* cleanupExpired keeps the invariant, whatever set of sessions has expired.
LEMMA CleanupInv ==
  ASSUME NEW boots, NEW m, SMInv(m, boots)
  PROVE  SMInv(cleanupExpired(m), boots)
<1> DEFINE X  == expiredSids(m)
           cs == {m.sessions[sid].conn : sid \in X}
           ps == {m.sessions[sid].player : sid \in X}
           r  == [sessions |-> Erase(m.sessions, X), connMap |-> Erase(m.connMap, cs),
                  playerMap |-> Erase(m.playerMap, ps), online |-> Erase(m.online, ps),
                  stored |-> Erase(m.stored, X), issued |-> m.issued]
<1>1. cleanupExpired(m) = r
  BY DEF cleanupExpired
<1>2. X \subseteq DOMAIN m.sessions
  BY DEF expiredSids
<1> HIDE DEF X
<1>3. IsManager(r)
  BY EraseMap DEF SMInv, MapsInv, IsManager
<1>4. ConnMapSoundIn(r)
  BY <1>2 DEF SMInv, MapsInv, ConnMapSoundIn, Erase
<1>5. PlayerMapExactIn(r)
  BY <1>2 DEF SMInv, MapsInv, PlayerMapExactIn, Erase
<1>6. boots = 0 => StoredAgreesIn(r)
  BY DEF SMInv, RedisInv, StoredAgreesIn, Erase
<1> QED BY <1>1, <1>3, <1>4, <1>5, <1>6 DEF SMInv, RedisInv, MapsInv, Erase

\* The passing of time, and the rows Redis drops with it, keep the invariant.
LEMMA ElapseInv ==
  ASSUME NEW boots, NEW m, SMInv(m, boots)
  PROVE  SMInv(elapse(m), boots)
<1> DEFINE r == elapse(m)
           older(sid) == [m.sessions[sid] EXCEPT !.idle = IF @ > SessionTTL THEN @ ELSE @ + 1]
           aged(sid) == [m.stored[sid] EXCEPT !.age = @ + 1]
<1>1. ASSUME NEW sid \in DOMAIN m.sessions
      PROVE  /\ older(sid) \in Session
             /\ older(sid).player = m.sessions[sid].player
             /\ older(sid).conn = m.sessions[sid].conn
             /\ older(sid).state = m.sessions[sid].state
             /\ older(sid).room = m.sessions[sid].room
  <2>1. m.sessions[sid] \in Session
    BY SessionType DEF SMInv, MapsInv
  <2> QED BY <2>1, WindowAssumption DEF Session
<1>2. ASSUME NEW sid \in DOMAIN m.stored, m.stored[sid].age + 1 < SessionTTL
      PROVE  /\ aged(sid) \in Row
             /\ aged(sid).player = m.stored[sid].player
             /\ aged(sid).conn = m.stored[sid].conn
             /\ aged(sid).state = m.stored[sid].state
             /\ aged(sid).room = m.stored[sid].room
  <2>1. m.stored[sid] \in Row
    BY DEF SMInv, MapsInv, IsManager, IsMap
  <2> QED BY <1>2, <2>1, WindowAssumption DEF Row
<1> DEFINE left == {sid \in DOMAIN m.stored : m.stored[sid].age + 1 < SessionTTL}
<1>3. r = [sessions |-> [sid \in DOMAIN m.sessions |-> older(sid)],
           connMap |-> m.connMap, playerMap |-> m.playerMap, online |-> m.online,
           stored |-> [sid \in left |-> aged(sid)], issued |-> m.issued]
  BY DEF elapse
<1>4. left \subseteq DOMAIN m.stored /\ \A sid \in left : m.stored[sid].age + 1 < SessionTTL
  OBVIOUS
<1> HIDE DEF r, older, aged, left
<1>5. IsManager(r)
  BY <1>1, <1>2, <1>3, <1>4 DEF SMInv, MapsInv, IsManager, IsMap
<1>6. ConnMapSoundIn(r)
  BY <1>1, <1>3 DEF SMInv, MapsInv, ConnMapSoundIn
<1>7. PlayerMapExactIn(r)
  BY <1>1, <1>3 DEF SMInv, MapsInv, PlayerMapExactIn
<1>8. boots = 0 => StoredAgreesIn(r)
  BY <1>1, <1>2, <1>3, <1>4 DEF SMInv, RedisInv, StoredAgreesIn
<1> QED BY <1>3, <1>5, <1>6, <1>7, <1>8 DEF SMInv, RedisInv, MapsInv, r

-----------------------------------------------------------------------------

\* The inductive invariant.
SMIInv(boots) == SMInv(sm, boots) /\ IsMap(accounts, Players, Passwords)

\* The empty manager satisfies the inductive invariant.
LEMMA SMInitInv ==
  ASSUME NEW boots
  PROVE  SMInit => SMIInv(boots)
BY DEF SMInit, SMIInv, SMInv, RedisInv, MapsInv, IsManager, IsMap, EmptyManager, EmptyMap,
       ConnMapSoundIn, PlayerMapExactIn, StoredAgreesIn

\* Every public method preserves the inductive invariant.
LEMMA SMNextInv ==
  ASSUME NEW boots
  PROVE  SMIInv(boots) /\ [SMNext]_smVars => SMIInv(boots)'
<1> SUFFICES ASSUME SMIInv(boots), [SMNext]_smVars PROVE SMIInv(boots)'
  OBVIOUS
<1> USE DEF SMIInv
<1>1. CASE UNCHANGED smVars
  BY <1>1 DEF smVars, SMInv, RedisInv, MapsInv, IsManager, IsMap, ConnMapSoundIn, PlayerMapExactIn, StoredAgreesIn
<1>2. ASSUME NEW c \in Conns, NEW p \in Players, NEW pw \in Passwords, NEW sid \in Sids,
             Login(c, p, pw, sid)
      PROVE  SMIInv(boots)'
  <2>1. SMInv(login(sm, c, p, sid), boots)
    BY <1>2, LoginInv DEF Login
  <2>2. IsMap(register(accounts, p, pw), Players, Passwords)
    BY PutMap DEF register
  <2> QED BY <1>2, <2>1, <2>2 DEF Login
<1>3. ASSUME NEW sid \in Sids, Logout(sid) \/ Heartbeat(sid) PROVE SMIInv(boots)'
  BY <1>3, LogoutInv, SettersInv DEF Logout, Heartbeat
<1>4. ASSUME NEW sid \in Sids, NEW st \in SettableStates, SetState(sid, st) PROVE SMIInv(boots)'
  BY <1>4, SettersInv, SettableAssumption DEF SetState
<1>5. ASSUME NEW sid \in Sids, NEW mode \in Modes \cup {NoMode}, SetMatchMode(sid, mode)
      PROVE  SMIInv(boots)'
  BY <1>5, SettersInv DEF SetMatchMode
<1>6. ASSUME NEW sid \in Sids, NEW r \in Rooms \cup {NoRoom}, SetCurrentRoom(sid, r)
      PROVE  SMIInv(boots)'
  BY <1>6, SettersInv DEF SetCurrentRoom
<1>7. CASE CleanupExpired
  BY <1>7, CleanupInv DEF CleanupExpired
<1>8. ASSUME NEW c \in Conns, MarkDisconnected(c) PROVE SMIInv(boots)'
  BY <1>8, MarkDisconnectedInv DEF MarkDisconnected
<1>9. ASSUME NEW sid \in Sids, NEW c \in Conns, TryReconnect(sid, c) PROVE SMIInv(boots)'
  BY <1>9, TryReconnectInv DEF TryReconnect
<1>10. CASE Elapse
  BY <1>10, ElapseInv DEF Elapse
<1> QED BY <1>1, <1>2, <1>3, <1>4, <1>5, <1>6, <1>7, <1>8, <1>9, <1>10 DEF SMNext

\* The inductive invariant holds of every sequence of calls: the maps are exact,
\* the online keys mirror player_map_ and the stored rows agree.
THEOREM SMInvariance == SMSpec => []SMIInv(0)
<1>1. SMInit => SMIInv(0)
  BY SMInitInv
<1>2. SMIInv(0) /\ [SMNext]_smVars => SMIInv(0)'
  BY SMNextInv
<1> QED BY <1>1, <1>2, PTL DEF SMSpec

\* sessions_, conn_map_, player_map_, the Redis keys and the player table keep
\* their types.
THEOREM SMTypeCorrect == SMSpec => []SMTypeOK
<1>1. SMIInv(0) => SMTypeOK
  BY DEF SMIInv, SMInv, MapsInv, SMTypeOK
<1> QED BY <1>1, SMInvariance, PTL

\* conn_map_ never leads to a session of another connection, through login, kick,
\* logout, expiry and reconnect.
THEOREM SMConnMapCorrect == SMSpec => []ConnMapSound
<1>1. SMIInv(0) => ConnMapSound
  BY DEF SMIInv, SMInv, MapsInv, ConnMapSound
<1> QED BY <1>1, SMInvariance, PTL

\* player_map_ and sessions_ stay inverse to each other, through login, kick, logout,
\* expiry and reconnect.
THEOREM SMPlayerMapCorrect == SMSpec => []PlayerMapExact
<1>1. SMIInv(0) => PlayerMapExact
  BY DEF SMIInv, SMInv, MapsInv, PlayerMapExact
<1> QED BY <1>1, SMInvariance, PTL

\* The online keys in Redis exist exactly for the players in player_map_.
THEOREM SMOnlineCorrect == SMSpec => []OnlineMirrors
<1>1. SMIInv(0) => OnlineMirrors
  BY DEF SMIInv, SMInv, RedisInv, OnlineMirrors
<1> QED BY <1>1, SMInvariance, PTL

\* The write-through to Redis is right: a stored row agrees with its session.
THEOREM SMStoredCorrect == SMSpec => []StoredAgrees
<1>1. SMIInv(0) => StoredAgrees
  BY DEF SMIInv, SMInv, RedisInv, StoredAgrees
<1> QED BY <1>1, SMInvariance, PTL

-----------------------------------------------------------------------------

(***************************************************************************)
(* The refinement: what each method does to the owners of the sessions.    *)
(***************************************************************************)

ownerOf(m) == [sid \in DOMAIN m.sessions |-> m.sessions[sid].player]

SameOwners(m, r) == ownerOf(r) = ownerOf(m) /\ r.issued = m.issued

EndsSessions(m, r) ==
  /\ \E S \in SUBSET DOMAIN m.sessions :
       ownerOf(r) = [x \in DOMAIN m.sessions \ S |-> ownerOf(m)[x]]
  /\ r.issued = m.issued

LogsIn(m, r, p, sid) ==
  /\ sid \notin m.issued
  /\ r.issued = m.issued \cup {sid}
  /\ ownerOf(r) = [x \in (DOMAIN m.sessions \ {y \in DOMAIN m.sessions : ownerOf(m)[y] = p}) \cup {sid} |->
                     IF x = sid THEN p ELSE ownerOf(m)[x]]

\* What a call may do to the directory, seen from the manager's record.
DirectoryStep(m, r) ==
  \/ SameOwners(m, r)
  \/ EndsSessions(m, r)
  \/ \E p \in Players, sid \in Sids : LogsIn(m, r, p, sid)

\* Replacing a session by one of the same player changes no owner.
LEMMA SetSessionOwners ==
  ASSUME NEW m, MapsInv(m), NEW sid \in DOMAIN m.sessions, NEW s,
         s.player = m.sessions[sid].player
  PROVE  SameOwners(m, setSession(m, sid, s))
BY DEF SameOwners, ownerOf, setSession, Put, SMInv, MapsInv

\* saveToRedis changes no owner.
LEMMA SaveOwners ==
  ASSUME NEW m, NEW sid
  PROVE  SameOwners(m, saveToRedis(m, sid))
BY DEF SameOwners, ownerOf, saveToRedis

\* A setter that saves changes no owner.
LEMMA SetAndSaveOwners ==
  ASSUME NEW m, MapsInv(m), NEW sid \in DOMAIN m.sessions, NEW s,
         s.player = m.sessions[sid].player
  PROVE  SameOwners(m, saveToRedis(setSession(m, sid, s), sid))
BY SetSessionOwners, SaveOwners DEF SameOwners

\* heartbeat, setState, setMatchMode and setCurrentRoom change no owner.
LEMMA SettersOwners ==
  ASSUME NEW m, MapsInv(m), NEW sid
  PROVE  /\ SameOwners(m, heartbeat(m, sid))
         /\ \A st \in SessionStates : SameOwners(m, setState(m, sid, st))
         /\ \A mode \in Modes \cup {NoMode} : SameOwners(m, setMatchMode(m, sid, mode))
         /\ \A r \in Rooms \cup {NoRoom} : SameOwners(m, setCurrentRoom(m, sid, r))
<1>1. CASE ~hasSession(m, sid)
  BY <1>1 DEF heartbeat, setState, setMatchMode, setCurrentRoom, SameOwners
<1>2. CASE hasSession(m, sid)
  <2> DEFINE s == m.sessions[sid]
  <2>1. sid \in DOMAIN m.sessions /\ s \in Session
    BY <1>2, SessionType DEF hasSession, SMInv, MapsInv
  <2>2. touch(s).player = s.player
    BY <2>1, FieldTypes
  <2>3. \A st \in SessionStates : withState(s, st).player = s.player
    BY <2>1, FieldTypes
  <2>4. \A mode : [s EXCEPT !.mode = mode].player = s.player
    BY <2>1 DEF Session
  <2>5. \A r : [s EXCEPT !.room = r].player = s.player
    BY <2>1 DEF Session
  <2>6. SameOwners(m, heartbeat(m, sid))
    BY <1>2, <2>1, <2>2, SetSessionOwners DEF heartbeat
  <2>7. ASSUME NEW st \in SessionStates PROVE SameOwners(m, setState(m, sid, st))
    BY <1>2, <2>1, <2>3, SetAndSaveOwners DEF setState
  <2>8. ASSUME NEW mode PROVE SameOwners(m, setMatchMode(m, sid, mode))
    BY <1>2, <2>1, <2>4, SetSessionOwners DEF setMatchMode
  <2>9. ASSUME NEW r PROVE SameOwners(m, setCurrentRoom(m, sid, r))
    BY <1>2, <2>1, <2>5, SetAndSaveOwners DEF setCurrentRoom
  <2> QED BY <2>6, <2>7, <2>8, <2>9
<1> QED BY <1>1, <1>2

\* markDisconnected changes no owner.
LEMMA MarkDisconnectedOwners ==
  ASSUME NEW m, MapsInv(m), NEW c
  PROVE  SameOwners(m, markDisconnected(m, c))
<1>1. CASE ~hasConn(m, c)
  BY <1>1 DEF markDisconnected, SameOwners
<1>2. CASE hasConn(m, c)
  <2> DEFINE sid == m.connMap[c]
             s == m.sessions[sid]
             t == touch(withState(s, "DISCONNECTED"))
  <2>1. sid \in DOMAIN m.sessions /\ s \in Session
    BY <1>2, SessionType DEF hasConn, hasSession, SMInv, MapsInv
  <2>2. t.player = s.player
    BY <2>1, FieldTypes DEF SessionStates
  <2>3. SameOwners(m, saveToRedis(setSession(m, sid, t), sid))
    BY <2>1, <2>2, SetAndSaveOwners
  <2> QED BY <1>2, <2>3 DEF markDisconnected, getByConn
<1> QED BY <1>1, <1>2

\* logout ends one session, or none.
LEMMA LogoutOwners ==
  ASSUME NEW m, NEW sid \in DOMAIN m.sessions
  PROVE  EndsSessions(m, logout(m, sid))
<1> DEFINE r == logout(m, sid)
<1>1. r.sessions = Erase(m.sessions, {sid}) /\ r.issued = m.issued
  <2>1. r = [sessions |-> Erase(m.sessions, {sid}),
             connMap |-> Erase(m.connMap, {m.sessions[sid].conn}),
             playerMap |-> Erase(m.playerMap, {m.sessions[sid].player}),
             online |-> Erase(m.online, {m.sessions[sid].player}),
             stored |-> Erase(m.stored, {sid}), issued |-> m.issued]
    BY LogoutFields
  <2> HIDE DEF r
  <2> QED BY <2>1
<1> HIDE DEF r
<1>2. ownerOf(r) = [x \in DOMAIN m.sessions \ {sid} |-> ownerOf(m)[x]]
  BY <1>1 DEF ownerOf, Erase
<1>3. EndsSessions(m, r)
  BY <1>1, <1>2 DEF EndsSessions
<1> QED BY <1>3 DEF r

\* cleanupExpired ends the expired sessions and no other.
LEMMA CleanupOwners ==
  ASSUME NEW m
  PROVE  EndsSessions(m, cleanupExpired(m))
<1> DEFINE r == cleanupExpired(m)
           X == expiredSids(m)
<1>1. r.sessions = Erase(m.sessions, X) /\ r.issued = m.issued
  BY DEF cleanupExpired
<1>2. X \in SUBSET DOMAIN m.sessions
  BY DEF expiredSids
<1> HIDE DEF r, X
<1>3. ownerOf(r) = [x \in DOMAIN m.sessions \ X |-> ownerOf(m)[x]]
  BY <1>1, <1>2 DEF ownerOf, Erase
<1>4. EndsSessions(m, r)
  BY <1>1, <1>2, <1>3 DEF EndsSessions
<1> QED BY <1>4 DEF r

\* tryReconnect ends the session it came too late for, or changes no owner.
LEMMA TryReconnectOwners ==
  ASSUME NEW m, MapsInv(m), NEW sid, NEW c \in Conns
  PROVE  LET r == tryReconnect(m, sid, c)
         IN  \/ SameOwners(m, r)
             \/ /\ EndsSessions(m, r)
                /\ r = logout(m, sid)
                /\ sid \in DOMAIN m.sessions /\ m.sessions[sid].idle > ReconnectWindow
<1>1. CASE sid \notin DOMAIN m.sessions
  BY <1>1 DEF tryReconnect, hasSession, SameOwners
<1>2. CASE sid \in DOMAIN m.sessions
  <2> DEFINE s == m.sessions[sid]
             k == setConn(eraseConn(m, s.conn), c, sid)
             t == touch(withState(withConn(s, c), "IN_LOBBY"))
  <2>1. s \in Session
    BY <1>2, SessionType DEF SMInv, MapsInv
  <2>2. t.player = s.player
    BY <2>1, FieldTypes DEF SessionStates
  <2>3. SameOwners(m, setSession(k, sid, t))
    BY <1>2, <2>2 DEF SameOwners, ownerOf, setSession, setConn, eraseConn, Put, SMInv, MapsInv
  <2>4. SameOwners(m, rebind(m, sid, c))
    BY <2>3, SaveOwners DEF SameOwners, rebind
  <2> QED BY <1>2, <2>4, LogoutOwners DEF tryReconnect, hasSession, SameOwners
<1> QED BY <1>1, <1>2

\* The passing of time changes no owner.
LEMMA ElapseOwners ==
  ASSUME NEW m, MapsInv(m)
  PROVE  SameOwners(m, elapse(m))
<1>1. \A sid \in DOMAIN m.sessions : elapse(m).sessions[sid].player = m.sessions[sid].player
  <2> TAKE sid \in DOMAIN m.sessions
  <2>1. m.sessions[sid] \in Session
    BY SessionType DEF SMInv, MapsInv
  <2> QED BY <2>1 DEF elapse, Session
<1>2. DOMAIN elapse(m).sessions = DOMAIN m.sessions /\ elapse(m).issued = m.issued
  BY DEF elapse
<1> QED BY <1>1, <1>2 DEF SameOwners, ownerOf

\* login ends exactly the player's earlier session and takes the drawn id.
LEMMA LoginOwners ==
  ASSUME NEW m, MapsInv(m), NEW c \in Conns, NEW p \in Players, NEW sid \in Sids,
         sid \notin m.issued
  PROVE  LogsIn(m, login(m, c, p, sid), p, sid)
<1> DEFINE r == login(m, c, p, sid)
           X == {x \in DOMAIN m.sessions : m.sessions[x].player = p}
<1>a. SMInv(m, 1)
  BY DEF SMInv
<1>1. r.issued = m.issued \cup {sid}
  BY <1>a, LoginInv
<1>2. r.sessions = Put(Erase(m.sessions, X), sid, newSession(c, p))
  <2>1. kickDuplicate(m, p).sessions = Erase(m.sessions, X)
    BY KickEffect
  <2>2. r.sessions = Put(kickDuplicate(m, p).sessions, sid, newSession(c, p))
    BY <1>a, LoginInv
  <2> QED BY <2>1, <2>2
<1>3. X = {x \in DOMAIN m.sessions : ownerOf(m)[x] = p}
  BY DEF ownerOf
<1> HIDE DEF r
<1>4. ownerOf(r) = [x \in (DOMAIN m.sessions \ X) \cup {sid} |->
                      IF x = sid THEN p ELSE ownerOf(m)[x]]
  BY <1>2 DEF ownerOf, Put, Erase, newSession
<1>5. LogsIn(m, r, p, sid)
  BY <1>1, <1>3, <1>4 DEF LogsIn
<1> QED BY <1>5 DEF r

\* A step of the record is a step of the directory, or one that it does not see.
LEMMA StepOfDirectory ==
  ASSUME DirectoryStep(sm, sm')
  PROVE  [Directory!Next]_(Directory!vars)
<1> DEFINE owner == [sid \in DOMAIN sm.sessions |-> sm.sessions[sid].player]
<1>1. owner = ownerOf(sm) /\ owner' = ownerOf(sm') /\ DOMAIN owner = DOMAIN sm.sessions
  BY DEF ownerOf
<1>2. CASE SameOwners(sm, sm')
  BY <1>1, <1>2 DEF SameOwners, Directory!vars
<1>3. CASE EndsSessions(sm, sm')
  <2>1. PICK S \in SUBSET DOMAIN sm.sessions :
          ownerOf(sm') = [x \in DOMAIN sm.sessions \ S |-> ownerOf(sm)[x]]
    BY <1>3 DEF EndsSessions
  <2>2. sm'.issued = sm.issued
    BY <1>3 DEF EndsSessions
  <2>3. Directory!End(S)
    BY <1>1, <2>1, <2>2 DEF Directory!End
  <2> QED BY <1>1, <2>1, <2>3 DEF Directory!Next
<1>4. ASSUME NEW p \in Players, NEW sid \in Sids, LogsIn(sm, sm', p, sid) PROVE Directory!Next
  <2> DEFINE Of == {x \in DOMAIN sm.sessions : ownerOf(sm)[x] = p}
  <2>1. /\ sid \notin sm.issued
        /\ sm'.issued = sm.issued \cup {sid}
        /\ ownerOf(sm') = [x \in (DOMAIN sm.sessions \ Of) \cup {sid} |->
                             IF x = sid THEN p ELSE ownerOf(sm)[x]]
    BY <1>4 DEF LogsIn
  <2>2. Of = Directory!Of(p)
    BY <1>1 DEF Directory!Of
  <2>3. Directory!LogIn(p, sid)
    BY <1>1, <2>1, <2>2 DEF Directory!LogIn
  <2> QED BY <2>3 DEF Directory!Next
<1> QED BY <1>2, <1>3, <1>4 DEF DirectoryStep

\* Every method is a step of the directory.
LEMMA MethodsAreSteps ==
  ASSUME MapsInv(sm), [SMNext]_smVars
  PROVE  DirectoryStep(sm, sm')
<1>1. CASE UNCHANGED smVars
  BY <1>1 DEF smVars, SameOwners, DirectoryStep
<1>2. ASSUME NEW c \in Conns, NEW p \in Players, NEW pw \in Passwords, NEW sid \in Sids,
             Login(c, p, pw, sid)
      PROVE  DirectoryStep(sm, sm')
  BY <1>2, LoginOwners DEF Login, DirectoryStep
<1>3. ASSUME NEW sid \in Sids, Logout(sid) PROVE DirectoryStep(sm, sm')
  BY <1>3, LogoutOwners DEF Logout, logout, hasSession, SameOwners, DirectoryStep
<1>4. ASSUME NEW sid \in Sids, Heartbeat(sid) PROVE SameOwners(sm, sm')
  BY <1>4, SettersOwners DEF Heartbeat
<1>5. ASSUME NEW sid \in Sids, NEW st \in SettableStates, SetState(sid, st) PROVE SameOwners(sm, sm')
  BY <1>5, SettersOwners, SettableAssumption DEF SetState
<1>6. ASSUME NEW sid \in Sids, NEW mode \in Modes \cup {NoMode}, SetMatchMode(sid, mode)
      PROVE  SameOwners(sm, sm')
  BY <1>6, SettersOwners DEF SetMatchMode
<1>7. ASSUME NEW sid \in Sids, NEW r \in Rooms \cup {NoRoom}, SetCurrentRoom(sid, r)
      PROVE  SameOwners(sm, sm')
  BY <1>7, SettersOwners DEF SetCurrentRoom
<1>8. CASE CleanupExpired
  BY <1>8, CleanupOwners DEF CleanupExpired, DirectoryStep
<1>9. ASSUME NEW c \in Conns, MarkDisconnected(c) PROVE SameOwners(sm, sm')
  BY <1>9, MarkDisconnectedOwners DEF MarkDisconnected
<1>10. ASSUME NEW sid \in Sids, NEW c \in Conns, TryReconnect(sid, c) PROVE DirectoryStep(sm, sm')
  BY <1>10, TryReconnectOwners DEF TryReconnect, DirectoryStep
<1>11. CASE Elapse
  BY <1>11, ElapseOwners DEF Elapse, DirectoryStep
<1> QED BY <1>1, <1>2, <1>3, <1>4, <1>5, <1>6, <1>7, <1>8, <1>9, <1>10, <1>11 DEF SMNext, DirectoryStep

\* The manager starts as an empty directory.
LEMMA DirectoryInit == SMInit => Directory!Init
BY DEF SMInit, EmptyManager, EmptyMap, Directory!Init

\* SessionManager implements SessionDirectory: every method is a login of a new
\* session that replaces the player's old one, the end of some sessions, or
\* changes nothing a caller of the directory can see.
THEOREM SMImplementsDirectory == SMSpec => ImplementsDirectory
<1>1. SMIInv(0) /\ [SMNext]_smVars => [Directory!Next]_(Directory!vars)
  BY MethodsAreSteps, StepOfDirectory DEF SMIInv, SMInv
<1> QED BY <1>1, DirectoryInit, SMInvariance, PTL DEF SMSpec, ImplementsDirectory, Directory!Spec

=============================================================================
