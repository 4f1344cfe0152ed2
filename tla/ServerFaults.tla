---------------------------- MODULE ServerFaults ----------------------------
(***************************************************************************)
(* GameServer when connections to Redis break and when the server ends and *)
(* is started again.                                                       *)
(*                                                                         *)
(* A context of RedisClient's pool that has failed once goes back to the   *)
(* pool and fails every later command; no context is ever replaced.  The   *)
(* pool is a FIFO that all threads take from, so any context may serve the *)
(* next command: while some are broken and some are not, a command may     *)
(* fail or succeed.                                                        *)
(*                                                                         *)
(* No caller looks at a failure: lpush returns 0, which joinQueue ignores; *)
(* llen returns 0, an empty queue; a brpop without a value ends the room.  *)
(* A brpop that fails may have been carried out.  The commands that write  *)
(* session rows and online keys are taken to succeed: nothing reads those  *)
(* keys, and no property here is about them.                               *)
(*                                                                         *)
(* A restart, also after a crash, loses everything that is in memory.      *)
(* What is in MySQL and Redis stays, and start() clears none of it: the    *)
(* match queue still holds the players of the process before.              *)
(***************************************************************************)
EXTENDS GameServer

CONSTANTS
  Contexts,    \* the connections of RedisClient's pool
  MaxRestarts  \* bound on the restarts

ASSUME FaultsAssumption == Contexts # {} /\ MaxRestarts \in Nat

VARIABLES
  broken,    \* the contexts that have failed: they never work again
  restarts,  \* the restarts so far
  seen       \* history: the players that have logged in since the last start

faultVars == <<broken, restarts, seen>>

allVars == <<vars, faultVars>>

FaultInit == Init /\ broken = {} /\ restarts = 0 /\ seen = {}

-----------------------------------------------------------------------------

\* The next command may be sent on a context that works, or on one that does not.
Works == broken # Contexts

Fails == broken # {}

\* A context loses its connection to Redis.
Breaks(x) ==
  /\ broken' = broken \cup {x}
  /\ UNCHANGED <<vars, restarts, seen>>

\* 2001 with an LPUSH that fails: joinQueue goes on all the same.
JoinFails(c, mode) ==
  /\ Fails
  /\ Free(c)
  /\ hasConn(sm, c)
  /\ joining' = Put(joining, c, [player |-> sm.sessions[getByConn(sm, c)].player, mode |-> mode])
  /\ UNCHANGED <<sm, accounts, gone, queue, joins, rooms, nextRoom, timer, battles, up>>
  /\ UNCHANGED faultVars

\* LLEN fails and counts as an empty queue.
CheckFails ==
  /\ Fails
  /\ up
  /\ timer.pc = "check"
  /\ timer' = AtCleanup
  /\ UNCHANGED <<sm, accounts, gone, queue, joins, rooms, nextRoom, battles, joining, up>>
  /\ UNCHANGED faultVars

\* Mutant: the fill loop tries again.
PopFailsRetries ==
  /\ Fails
  /\ up
  /\ timer.pc = "fill"
  /\ UNCHANGED <<vars, faultVars>>

\* BRPOP fails: the room stays as it is and the loop begins another one.
PopFails ==
  /\ Fails
  /\ up
  /\ timer.pc = "fill"
  /\ timer' = AtCheck
  /\ UNCHANGED <<sm, accounts, gone, queue, joins, rooms, nextRoom, battles, joining, up>>
  /\ UNCHANGED faultVars

\* The context breaks when Redis has taken the player off the list and the reply is
\* under way: the player is lost.
PopLost(x) ==
  /\ x \notin broken
  /\ broken' = broken \cup {x}
  /\ up
  /\ timer.pc = "fill"
  /\ queue[NoMode] # <<>>
  /\ queue' = [queue EXCEPT ![NoMode] = Tail(@)]
  /\ timer' = AtCheck
  /\ UNCHANGED <<sm, accounts, gone, joins, rooms, nextRoom, battles, joining, up, restarts, seen>>

\* The process ends at any point, or has crashed, and start() builds everything anew;
\* connection and room ids start again from 1.
Restart ==
  /\ restarts < MaxRestarts
  /\ restarts' = restarts + 1
  /\ broken' = {}
  /\ seen' = {}
  /\ sm' = [sessions |-> EmptyMap, connMap |-> EmptyMap, playerMap |-> EmptyMap,
            online |-> sm.online, stored |-> sm.stored, issued |-> sm.issued]
  /\ gone' = {}
  /\ rooms' = EmptyMap
  /\ nextRoom' = 1
  /\ timer' = AtCheck
  /\ battles' = EmptyMap
  /\ joining' = EmptyMap
  /\ up' = TRUE
  /\ UNCHANGED <<accounts, queue, joins>>

-----------------------------------------------------------------------------

\* The players whose session a step has made.
loggedIn == {sm'.sessions[sid].player : sid \in DOMAIN sm'.sessions \ DOMAIN sm.sessions}

\* A step of GameServer; the commands it sends succeed.
Handled ==
  /\ (Works /\ QueueCommand) \/ OtherStep
  /\ seen' = seen \cup loggedIn
  /\ UNCHANGED <<broken, restarts>>

FaultNext ==
  \/ Handled
  \/ \E x \in Contexts : Breaks(x) \/ PopLost(x)
  \/ \E c \in Conns, mode \in Modes \cup {NoMode} : JoinFails(c, mode)
  \/ CheckFails \/ PopFails
  \/ Restart

FaultSpec == FaultInit /\ [][FaultNext]_allVars

\* What MatchCheck, MatchPop and TimerCleanup do to timer, which nothing else moves but
\* a failing command and a restart: the first two need a context that works, and BRPOP
\* an entry in the queue.
TimerMoves ==
  /\ up
  /\ \/ Works /\ timer.pc = "check" /\ Len(queue[NoMode]) < RoomSize /\ timer' = AtCleanup
     \/ /\ Works /\ timer.pc = "check" /\ Len(queue[NoMode]) >= RoomSize /\ nextRoom \in Rooms
        /\ timer' = AtFill(nextRoom, RoomSize)
     \/ /\ Works /\ timer.pc = "fill" /\ queue[NoMode] # <<>>
        /\ timer' = AtFill(timer.room, timer.left - 1)
     \/ timer.pc = "cleanup" /\ timer' = AtCheck

\* The timer thread runs whenever the server does.  Contexts need not break, and nobody
\* need send a frame or start the server again.
FairFaultSpec == FaultSpec /\ WF_timer(TimerMoves \/ CheckFails \/ PopFails)

-----------------------------------------------------------------------------
(***************************************************************************)
(* Properties.                                                             *)
(***************************************************************************)

\* Whenever enough players are queued, whoever queued them and in whichever process, the
\* timer thread brings the queue below the size of a room, unless a context has broken
\* or the server has crashed.
QueueServed ==
  Len(queue[NoMode]) >= RoomSize ~> (Len(queue[NoMode]) < RoomSize \/ broken # {} \/ ~up)

\* The timer thread keeps coming back to cleanupExpired: neither a long queue nor the
\* loss of Redis as a whole keeps it in tryMatch.  Only while some contexts are broken
\* and others not may LLEN succeed and BRPOP fail, again and again.
CleanupRecurs ==
  []<>(timer.pc = "cleanup" \/ ~up \/ (broken # {} /\ broken # Contexts))

\* What the process before has left in the queue puts nobody into a room or a battle
\* who has not logged in to this one.
NoGhosts ==
  /\ \A r \in DOMAIN rooms : members(rooms[r]) \subseteq seen
  /\ \A r \in DOMAIN battles : battles[r].players \subseteq seen

=============================================================================
