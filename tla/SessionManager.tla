--------------------------- MODULE SessionManager ---------------------------
(***************************************************************************)
(* SessionManager (src/game/session_manager.{h,cpp}, session.h): the three *)
(* maps that bind connections, players and sessions, and the copy of them  *)
(* it writes through to Redis.                                             *)
(*                                                                         *)
(* Every method is an operator from the manager's state, a record m, to    *)
(* its state after the call, so that a caller's handler can chain several  *)
(* calls in one step (GameServer does).  The specification of this module  *)
(* drives the same operators with every argument the public interface      *)
(* accepts.                                                                *)
(*                                                                         *)
(* Abstractions.  A username stands for its player id: MySQL keeps them    *)
(* one to one (UNIQUE username).  last_active is kept as idle, the seconds *)
(* since it was set, which saturates once it exceeds the longest limit it  *)
(* is compared with.  generateSessionId draws 64 random bits: a draw never *)
(* repeats, so issued remembers the ids that are spent.  username and      *)
(* login_time take no part in any decision.                                *)
(***************************************************************************)
EXTENDS Naturals, FiniteSets, Maps

CONSTANTS
  Players,          \* player ids, each with its username
  Conns,            \* connection ids
  Sids,             \* session ids the generator may draw
  Passwords,        \* passwords a client may send
  Rooms,            \* room ids other than 0
  Modes,            \* match modes other than 0
  SettableStates,   \* the states the callers of setState pass
  ReconnectWindow,  \* 30 s in tryReconnect
  SessionTTL        \* 3600 s in cleanupExpired and in setSession

\* "0 = no room"
NoRoom == 0

\* "0 = not matching"
NoMode == 0

SessionStates == {"CONNECTED", "AUTHENTICATED", "IN_LOBBY", "MATCHING",
                  "IN_ROOM", "IN_BATTLE", "SETTLEMENT", "DISCONNECTED"}

ASSUME WindowAssumption ==
  /\ ReconnectWindow \in Nat
  /\ SessionTTL \in Nat
  /\ ReconnectWindow < SessionTTL

ASSUME SettableAssumption == SettableStates \subseteq SessionStates \ {"DISCONNECTED"}

VARIABLES
  sm,        \* the manager's maps and what it has written to Redis
  accounts   \* MySQL's player table: the password of every registered player

smVars == <<sm, accounts>>

-----------------------------------------------------------------------------
(***************************************************************************)
(* State.                                                                  *)
(***************************************************************************)

Session == [player : Players, conn : Conns, state : SessionStates,
            room : Rooms \cup {NoRoom}, mode : Modes \cup {NoMode},
            idle : 0 .. SessionTTL + 1]

\* The row session:<sid> in Redis, with the age that its TTL is measured by.
Row == [player : Players, conn : Conns, state : SessionStates,
        room : Rooms \cup {NoRoom}, mode : Modes \cup {NoMode},
        age : 0 .. SessionTTL]

IsManager(m) ==
  /\ m = [sessions |-> m.sessions, connMap |-> m.connMap, playerMap |-> m.playerMap,
          online |-> m.online, stored |-> m.stored, issued |-> m.issued]
  /\ IsMap(m.sessions, Sids, Session)     \* sessions_
  /\ IsMap(m.connMap, Conns, Sids)        \* conn_map_
  /\ IsMap(m.playerMap, Players, Sids)    \* player_map_
  /\ IsMap(m.online, Players, Sids)       \* Redis online:<player>
  /\ IsMap(m.stored, Sids, Row)           \* Redis session:<sid>
  /\ m.issued \subseteq Sids              \* ids drawn so far

EmptyManager ==
  [sessions |-> EmptyMap, connMap |-> EmptyMap, playerMap |-> EmptyMap,
   online |-> EmptyMap, stored |-> EmptyMap, issued |-> {}]

\* getBySession, getByConn and getByPlayer return a pointer that is null when
\* the session is not there: whether it is null, and the id it points to.
hasSession(m, sid) == sid \in DOMAIN m.sessions

hasConn(m, c) == c \in DOMAIN m.connMap /\ hasSession(m, m.connMap[c])

hasPlayer(m, p) == p \in DOMAIN m.playerMap /\ hasSession(m, m.playerMap[p])

getByConn(m, c) == m.connMap[c]

getByPlayer(m, p) == m.playerMap[p]

-----------------------------------------------------------------------------
(***************************************************************************)
(* Redis write-through.                                                    *)
(***************************************************************************)

\* The string saveToRedis composes from a session: every field but its times.
row(s) == [player |-> s.player, conn |-> s.conn, state |-> s.state,
           room |-> s.room, mode |-> s.mode, age |-> 0]

saveToRedis(m, sid) ==
  [sessions |-> m.sessions, connMap |-> m.connMap, playerMap |-> m.playerMap,
   online |-> Put(m.online, m.sessions[sid].player, sid),
   stored |-> Put(m.stored, sid, row(m.sessions[sid])),
   issued |-> m.issued]

\* The player is looked up in sessions_, so a call after the session has been
\* erased would leave its online key behind.
removeFromRedis(m, sid) ==
  [sessions |-> m.sessions, connMap |-> m.connMap, playerMap |-> m.playerMap,
   online |-> Erase(m.online, {m.sessions[x].player : x \in {sid} \cap DOMAIN m.sessions}),
   stored |-> Erase(m.stored, {sid}),
   issued |-> m.issued]

-----------------------------------------------------------------------------
(***************************************************************************)
(* Assignments to a session's fields and to the three maps.                *)
(***************************************************************************)

\* s->last_active = Clock::now(), s->state = st, s->conn_id = c
touch(s) == [s EXCEPT !.idle = 0]

withState(s, st) == [s EXCEPT !.state = st]

withConn(s, c) == [s EXCEPT !.conn = c]

\* sessions_[sid] = s, for a session that is there or a new one.
setSession(m, sid, s) ==
  [sessions |-> Put(m.sessions, sid, s), connMap |-> m.connMap,
   playerMap |-> m.playerMap, online |-> m.online, stored |-> m.stored,
   issued |-> m.issued \cup {sid}]

eraseSession(m, sid) ==
  [sessions |-> Erase(m.sessions, {sid}), connMap |-> m.connMap,
   playerMap |-> m.playerMap, online |-> m.online, stored |-> m.stored,
   issued |-> m.issued]

setConn(m, c, sid) ==
  [sessions |-> m.sessions, connMap |-> Put(m.connMap, c, sid),
   playerMap |-> m.playerMap, online |-> m.online, stored |-> m.stored,
   issued |-> m.issued]

eraseConn(m, c) ==
  [sessions |-> m.sessions, connMap |-> Erase(m.connMap, {c}),
   playerMap |-> m.playerMap, online |-> m.online, stored |-> m.stored,
   issued |-> m.issued]

setPlayer(m, p, sid) ==
  [sessions |-> m.sessions, connMap |-> m.connMap,
   playerMap |-> Put(m.playerMap, p, sid), online |-> m.online,
   stored |-> m.stored, issued |-> m.issued]

erasePlayer(m, p) ==
  [sessions |-> m.sessions, connMap |-> m.connMap,
   playerMap |-> Erase(m.playerMap, {p}), online |-> m.online,
   stored |-> m.stored, issued |-> m.issued]

-----------------------------------------------------------------------------
(***************************************************************************)
(* Methods.                                                                *)
(***************************************************************************)

\* The old connection is told (a message) and unbound, but not closed.
dropKicked(m, sid) ==
  eraseSession(removeFromRedis(eraseConn(m, m.sessions[sid].conn), sid), sid)

\* Mutant: a login that does not look for the player's old session.
kickNobody(m, p) == m

kickDuplicate(m, p) ==
  IF p \notin DOMAIN m.playerMap THEN m
  ELSE LET old == m.playerMap[p]
       IN  erasePlayer(IF hasSession(m, old) THEN dropKicked(m, old) ELSE m, p)

\* Steps 1 and 2 of login: the password of a registered player must match; an
\* unknown name is registered with the password it came with.
authenticates(acc, p, pw) == p \in DOMAIN acc => acc[p] = pw

register(acc, p, pw) == IF p \in DOMAIN acc THEN acc ELSE Put(acc, p, pw)

\* Mutant: the two ids swapped.
newSessionSwapped(c, p) ==
  [player |-> c, conn |-> p, state |-> "AUTHENTICATED",
   room |-> NoRoom, mode |-> NoMode, idle |-> 0]

newSession(c, p) ==
  [player |-> p, conn |-> c, state |-> "AUTHENTICATED",
   room |-> NoRoom, mode |-> NoMode, idle |-> 0]

\* Mutant: the duplicate is kicked once the new session is in the maps.
loginKicksLast(m, c, p, sid) ==
  kickDuplicate(
    setPlayer(setConn(setSession(m, sid, newSession(c, p)), c, sid), p, sid), p)

\* Steps 3 and 4: replace the player's session by a new one on c.
login(m, c, p, sid) ==
  saveToRedis(
    setPlayer(
      setConn(
        setSession(kickDuplicate(m, p), sid, newSession(c, p)), c, sid), p, sid), sid)

\* Mutant: removeFromRedis after the session has been erased.
logoutErasesFirst(m, sid) ==
  IF hasSession(m, sid)
  THEN LET s == m.sessions[sid]
       IN  removeFromRedis(
             eraseSession(erasePlayer(eraseConn(m, s.conn), s.player), sid), sid)
  ELSE m

logout(m, sid) ==
  IF hasSession(m, sid)
  THEN LET s == m.sessions[sid]
       IN  eraseSession(
             removeFromRedis(erasePlayer(eraseConn(m, s.conn), s.player), sid), sid)
  ELSE m

\* last_active moves, but neither Redis key is refreshed.
heartbeat(m, sid) ==
  IF hasSession(m, sid)
  THEN setSession(m, sid, touch(m.sessions[sid]))
  ELSE m

setState(m, sid, st) ==
  IF hasSession(m, sid)
  THEN saveToRedis(setSession(m, sid, withState(m.sessions[sid], st)), sid)
  ELSE m

\* The only setter that does not save.
setMatchMode(m, sid, mode) ==
  IF hasSession(m, sid)
  THEN setSession(m, sid, [m.sessions[sid] EXCEPT !.mode = mode])
  ELSE m

\* Mutant: the room is set and not saved.
setCurrentRoomUnsaved(m, sid, r) ==
  IF hasSession(m, sid)
  THEN setSession(m, sid, [m.sessions[sid] EXCEPT !.room = r])
  ELSE m

setCurrentRoom(m, sid, r) ==
  IF hasSession(m, sid)
  THEN saveToRedis(setSession(m, sid, [m.sessions[sid] EXCEPT !.room = r]), sid)
  ELSE m

isExpired(m, sid) == m.sessions[sid].idle > SessionTTL

\* The loop of cleanupExpired drops the expired sessions one after the other in
\* the map's order; what is left does not depend on the order, so its effect is
\* written for the set of them.
expiredSids(m) == {sid \in DOMAIN m.sessions : isExpired(m, sid)}

cleanupExpired(m) ==
  LET X  == expiredSids(m)
      cs == {m.sessions[sid].conn : sid \in X}
      ps == {m.sessions[sid].player : sid \in X}
  IN  [sessions |-> Erase(m.sessions, X), connMap |-> Erase(m.connMap, cs),
       playerMap |-> Erase(m.playerMap, ps), online |-> Erase(m.online, ps),
       stored |-> Erase(m.stored, X), issued |-> m.issued]

markDisconnected(m, c) ==
  IF hasConn(m, c)
  THEN LET sid == getByConn(m, c)
       IN  saveToRedis(
             setSession(m, sid, touch(withState(m.sessions[sid], "DISCONNECTED"))), sid)
  ELSE m

\* Mutant: the old connection stays bound.
rebindKeepsOld(m, sid, c) ==
  saveToRedis(
    setSession(
      setConn(m, c, sid), sid,
      touch(withState(withConn(m.sessions[sid], c), "IN_LOBBY"))), sid)

\* Mutant: the state is not reset.
rebindKeepsState(m, sid, c) ==
  LET s == m.sessions[sid]
  IN  saveToRedis(
        setSession(
          setConn(eraseConn(m, s.conn), c, sid), sid, touch(withConn(s, c))), sid)

\* Rebind the session to the connection the request came on.
rebind(m, sid, c) ==
  LET s == m.sessions[sid]
  IN  saveToRedis(
        setSession(
          setConn(eraseConn(m, s.conn), c, sid), sid,
          touch(withState(withConn(s, c), "IN_LOBBY"))), sid)

\* Mutant: the window is over one unit early.
tryReconnectEarly(m, sid, c) ==
  IF ~hasSession(m, sid) THEN m
  ELSE IF m.sessions[sid].state # "DISCONNECTED" THEN m
  ELSE IF m.sessions[sid].idle >= ReconnectWindow THEN logout(m, sid)
  ELSE rebind(m, sid, c)

tryReconnect(m, sid, c) ==
  IF ~hasSession(m, sid) THEN m                                   \* 20002
  ELSE IF m.sessions[sid].state # "DISCONNECTED" THEN m            \* 20003
  ELSE IF m.sessions[sid].idle > ReconnectWindow THEN logout(m, sid) \* 20002
  ELSE rebind(m, sid, c)                                          \* 0

\* One second passes: last_active recedes and Redis drops the rows whose TTL
\* has run out.
elapse(m) ==
  LET left == {sid \in DOMAIN m.stored : m.stored[sid].age + 1 < SessionTTL}
  IN  [sessions |-> [sid \in DOMAIN m.sessions |->
         [m.sessions[sid] EXCEPT !.idle = IF @ > SessionTTL THEN @ ELSE @ + 1]],
       connMap |-> m.connMap, playerMap |-> m.playerMap, online |-> m.online,
       stored |-> [sid \in left |-> [m.stored[sid] EXCEPT !.age = @ + 1]],
       issued |-> m.issued]

-----------------------------------------------------------------------------
(***************************************************************************)
(* Specification: every public method, with every argument.                *)
(***************************************************************************)

SMInit == sm = EmptyManager /\ accounts = EmptyMap

\* A login that fails to authenticate, or that MySQL fails, changes nothing.
Login(c, p, pw, sid) ==
  /\ sid \notin sm.issued
  /\ authenticates(accounts, p, pw)
  /\ accounts' = register(accounts, p, pw)
  /\ sm' = login(sm, c, p, sid)

Logout(sid) == sm' = logout(sm, sid) /\ UNCHANGED accounts

Heartbeat(sid) == sm' = heartbeat(sm, sid) /\ UNCHANGED accounts

SetState(sid, st) == sm' = setState(sm, sid, st) /\ UNCHANGED accounts

SetMatchMode(sid, mode) == sm' = setMatchMode(sm, sid, mode) /\ UNCHANGED accounts

SetCurrentRoom(sid, r) == sm' = setCurrentRoom(sm, sid, r) /\ UNCHANGED accounts

CleanupExpired == sm' = cleanupExpired(sm) /\ UNCHANGED accounts

MarkDisconnected(c) == sm' = markDisconnected(sm, c) /\ UNCHANGED accounts

TryReconnect(sid, c) == sm' = tryReconnect(sm, sid, c) /\ UNCHANGED accounts

Elapse == sm' = elapse(sm) /\ UNCHANGED accounts

SMNext ==
  \/ \E c \in Conns, p \in Players, pw \in Passwords, sid \in Sids : Login(c, p, pw, sid)
  \/ \E sid \in Sids : Logout(sid) \/ Heartbeat(sid)
  \/ \E sid \in Sids, st \in SettableStates : SetState(sid, st)
  \/ \E sid \in Sids, mode \in Modes \cup {NoMode} : SetMatchMode(sid, mode)
  \/ \E sid \in Sids, r \in Rooms \cup {NoRoom} : SetCurrentRoom(sid, r)
  \/ CleanupExpired
  \/ \E c \in Conns : MarkDisconnected(c)
  \/ \E sid \in Sids, c \in Conns : TryReconnect(sid, c)
  \/ Elapse

SMSpec == SMInit /\ [][SMNext]_smVars

-----------------------------------------------------------------------------
(***************************************************************************)
(* Properties.  The predicates take the manager's state, so that the       *)
(* specifications built on this module state them of their own sm.         *)
(***************************************************************************)

\* Types of sm and accounts.
SMTypeOK ==
  /\ IsManager(sm)
  /\ IsMap(accounts, Players, Passwords)

ConnMapSoundIn(m) ==
  \A c \in DOMAIN m.connMap :
    /\ m.connMap[c] \in DOMAIN m.sessions
    /\ m.sessions[m.connMap[c]].conn = c

\* conn_map_ never points at a session that is gone, nor at a session that has
\* moved to another connection: a frame is never handled for the wrong player.
ConnMapSound == ConnMapSoundIn(sm)

PlayerMapExactIn(m) ==
  /\ \A p \in DOMAIN m.playerMap :
       /\ m.playerMap[p] \in DOMAIN m.sessions
       /\ m.sessions[m.playerMap[p]].player = p
  /\ \A sid \in DOMAIN m.sessions :
       /\ m.sessions[sid].player \in DOMAIN m.playerMap
       /\ m.playerMap[m.sessions[sid].player] = sid

\* player_map_ and sessions_ are inverse to each other: a player has at most one
\* session ("duplicate kick") and every session is found through its player.
PlayerMapExact == PlayerMapExactIn(sm)

\* The online keys in Redis are exactly player_map_: nobody is shown online
\* without a session, or with a session that has been replaced.  This is why
\* removeFromRedis has to run before the session is erased.
OnlineMirrors == sm.online = sm.playerMap

StoredAgreesIn(m) ==
  \A sid \in DOMAIN m.stored :
    /\ sid \in DOMAIN m.sessions
    /\ m.stored[sid].player = m.sessions[sid].player
    /\ m.stored[sid].conn   = m.sessions[sid].conn
    /\ m.stored[sid].state  = m.sessions[sid].state
    /\ m.stored[sid].room   = m.sessions[sid].room

\* A row session:<sid> that Redis still holds belongs to a live session and
\* shows its connection, state and room as they are (not its match mode, which
\* setMatchMode does not save).
StoredAgrees == StoredAgreesIn(sm)

-----------------------------------------------------------------------------
\* The directory the manager implements: who owns which session.
Directory == INSTANCE SessionDirectory WITH
  owner <- [sid \in DOMAIN sm.sessions |-> sm.sessions[sid].player],
  spent <- sm.issued

\* SessionManager implements SessionDirectory.
ImplementsDirectory == Directory!Spec

=============================================================================
