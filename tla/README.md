# miniarena: TLA+ models, checks and proofs

miniarena is a battle server in C++20: clients log in over TCP, queue for a match, are put
in a room, declare themselves ready and fight in a battle that a logic thread advances tick
by tick. This directory models the parts of it that decide something, checks them with TLC
on small instances and proves their safety properties with TLAPS for every value of the constants. File names below
are relative to the repository's `src/` directory.

## 1. Inventory

### Threads

| thread | code | touches |
|---|---|---|
| acceptor (1) | `network/acceptor.cpp` | hands connections to the loops through `pending_conns_` |
| IO (4) | `network/event_loop.cpp` | its own connections and timer wheel; runs every message handler, so also sessions, rooms, battles |
| timer (1) | `GameServer::timerLoop` | `tryMatch`, `cleanupExpired` |
| logic workers | `game/logic_worker.cpp` | their rooms, their command queue |

### Components

| component | state | operations | what makes it correct |
|---|---|---|---|
| SessionManager | `sessions_`, `conn_map_`, `player_map_`; Redis rows and online keys | login (kicks an older session), logout, heartbeat, setters, expiry, disconnect mark, reconnect | the maps agree with each other and with Redis; a player has one session |
| MatchManager | the Redis list; progress of `tryMatch` | join, cancel, match | never blocks on an empty list; a long enough queue is served; expiry is not starved; the session it looks up is there |
| Room, RoomManager | members with ready flags, `ready_count_`, state | add, ready, all ready, start | the count never falls below the number of flags; no more members than seats |
| BattleManager | `room_to_worker_`, started workers | start, dispatch command, disconnect | a player in battle has a battle that lists it |
| LogicWorker, CommandQueue | `rooms_`, `pending_ops_`, commands, disconnect list | run loop, drain, tick, timeouts | no operation is lost; battles begin; lost players are dropped; in the end only the worker's thread changes rooms |
| TickEngine | hit points, totals, cooldowns, `last_seq_` | attack, skill, cooldowns, deduplication | damage accounts for every hit point; a command runs once |
| EventLoop, Connection | `conns_`, two queues, epoll interest, routes; buffers, count of illegal frames | hand-over, read, decode, write, ban, timeout, clean-up | output is never forgotten; routes name live connections; no connection outlives a silent peer; a broken header bans at once |
| TimerWheel | slots, `id_to_slot_`, `entries_` | add, remove, refresh, tick | the three agree; a timer fires |
| Buffer, FrameCodec | cells, two indices, capacity | write, read, skip, compact, grow, encode, decode | a buffer is a queue of bytes; frames survive being cut anywhere; capacity is bounded |
| Broadcaster, AoiGrid | `overrides_`; `grid_`, `player_cells_` | queue, broadcast, flush; update, nearby | whoever is near is found, on both sides of the origin; every member gets its room's state and its own |
| ConnectionPool | idle connections, mutex, condition variable | borrow, return | no connection is lost or shared; nobody sleeps beside a free one |
| RedisClient, MysqlClient | a pool each, contexts that may break | connect, one command per method | every call returns; failures reach the callers as empty results |

Interaction: the event loop decodes frames and calls the router, which calls a handler in
`GameServer`; handlers call the managers directly, on the IO thread. A response goes through
`conn_to_loop_` into the `pending_writes_` queue of the loop that owns the connection. The disconnect
callback runs on the loop's thread. Commands and room operations reach a worker through queues.

Hard behaviours: handlers and the timer thread interleave between two Redis calls, also inside `joinQueue`, which goes on with an unchecked lookup; sessions
change owner by kick, expiry and reconnect while room and battle state still names the
player; `startBattle` drains the worker's queue on the IO thread; `tick` gives up its lock
while it broadcasts; epoll is edge-triggered after the first response; the timer wheel's
callback edits the slot that is being walked; frames arrive cut anywhere; a connection to Redis that has failed goes back to its pool, fails for good, and no caller looks;
the match queue outlives the process. `PROJECT.json` lists these as hazards, each at
its line, with the properties that cover it.

## 2. Modules

| module | models | builds on |
|---|---|---|
| `Maps` | `std::unordered_map` as a partial function | |
| `SessionDirectory` | abstract: who is logged in under which session id | |
| `SessionManager` | `session_manager.cpp` with the Redis keys and the player table | `Maps`, instance of `SessionDirectory` |
| `Room` | `room.cpp` | |
| `GameServer` | handlers, disconnect callback, timer thread, matching, rooms, battles, the crash on a null session | `SessionManager`, `Room` |
| `TickEngine` | one room's combat rules | `Maps` |
| `LogicWorker` | worker thread, queues, the worker half of `startBattle` | `TickEngine` |
| `TimerWheel` | `timer_wheel.cpp` | `Maps` |
| `EventLoop` | the loop's thread, connections, peers, epoll, routes | `TimerWheel` |
| `Buffer` | `buffer.cpp`, every method as an operator | |
| `ByteQueue` | abstract: bytes are added at the end and taken from the front | |
| `FrameCodec` | `frame_codec.cpp` on bytes, field widths as constants | `Buffer` |
| `FrameStream` | one connection: read, decode loop, ban, send queue, epoll | `FrameCodec`, two instances of `ByteQueue` |
| `ConnectionPool` | `connection_pool.h`, each critical section as an operator | |
| `StorageClients` | `initStorage`, every call of both clients, connections that break | `ConnectionPool` |
| `ServerFaults` | `GameServer` with connections to Redis that break for good, and restarts | `GameServer` |
| `AoiGrid` | `aoi_grid.cpp` | `Maps` |
| `Broadcast` | what the ticks of a worker send | `AoiGrid` |
| `MC*` | symmetry and constant values for TLC | the module after MC |
| `SessionManagerProofs`, `GameServerProofs`, `ServerFaultsProofs`, `StorageClientsProofs`, `LogicWorkerProofs`, `EventLoopProofs`, `BroadcastProofs`, `FrameStreamProofs` | theorems | the module before Proofs, TLAPS; `ServerFaultsProofs` also `GameServerProofs`, and that `SessionManagerProofs` |

**SessionManager.** A manager is a record `sm` of the three maps and the Redis keys. Every
method is an operator from a record to a record (`login`, `tryReconnect`, ...), with the name it has in
the code, and an action that applies it to the variable. `GameServer` uses the operators, so
both modules run the same translation. A session's idle time, its time disconnected and the TTL of its row
are small ages that `elapse` advances together. `setMatchMode` does not save, as in the code, which
is why `StoredAgrees` does not compare modes.

**GameServer.** One action per handler (1001, 1101, 2001, 2003, 3001, 3003, 5001), one for the
disconnect callback and three for the timer thread: `MatchCheck` (LLEN), `MatchPop` (one BRPOP and what
is done with the player) and `TimerCleanup`. A step ends at each command to the match queue, because the list is what the
threads share and the pool's mutex orders them there. So the handler of 2001 is two steps: `MatchStartRequest` pushes, and while the connection is in
`joining` any other thread may run; then `JoinMark` looks the player up and marks whatever session it has by now, or
`JoinCrash` dereferences the null pointer and the process ends (`up`). The other handlers are one step each. A message carries any player, room or session id.

**LogicWorker.** A step ends where a mutex is released. `worker` and `io` say where the worker thread and each
IO thread in `startBattle` stand: an operation popped and not yet applied is held in them. `TickEngine` gives the
effect of one command; positions are reduced to whether the target is in range, a free choice. `StartBattleElsewhere`
is `startBattle` of a room of another worker, whose loop visits this worker too. Any number of IO threads may be inside `startBattle`, and drain, at a time. `OnPlayerDisconnect` is
`BattleManager`'s interface; the server of this commit never calls it (finding `disconnect_in_battle`).

**EventLoop.** `loop.pc` is the place of the thread: `wait` (epoll_wait), `writes`, `conns`, `events`,
`timeouts` (one step per connection that is late), `cleanup`. Sockets and epoll are external and modelled from what the code relies on: a socket that is
edge-triggered is reported after news only, and EPOLL_CTL_MOD counts as news. A read delivers any non-empty
part of what has arrived, a write takes any part. `TimerWheel!fired` models what libstdc++ makes of erasing
from the vector under a range-for: after an entry whose callback erases it, the next one is stepped over. `tick` and `fired` are closed forms;
`walk` is the loop itself, place by place, with the entries that `remove` moves down and the places behind the vector that the range-for still visits. `MCEventLoop`
has TLC evaluate that both agree (`TickIsItsWalk`), for buckets of up to five entries and every choice of connections that are still there.

**FrameStream.** A buffer is a record of cells and two indices, as in the code, so that compaction and growth move real
bytes. One read of at most the free space, then one step per round of the decode loop. `decode` throws without
taking anything from the buffer, so that the loop throws again until the count of illegal frames bans the
connection. Frames decoded by the read that bans are counted as decoded; `handleEvents` does not hand them to the handler,
as the connection is CLOSING by then. `epoll.woken` says that the socket is on epoll's ready list: news and every EPOLL_CTL_MOD put it there.

**StorageClients.** A call is borrow (perhaps sleeping), one command, return. `RedisBreaks` leaves open whether the server
carried the command out; afterwards the context answers null at once, as hiredis does, and stays in the pool. An error
reply is freed by `checkReply` and again by its caller: `RedisRefuses` lets the process abort or go on. The timer
thread's `brpop` has no timeout and waits in Redis, holding a connection, while the list is empty.

**ServerFaults.** Extends `GameServer` and reuses its actions. `broken` is the set of contexts of RedisClient's pool that have failed: they go back to the pool,
fail every later command and are never replaced (`redis_client.cpp:56-60`). All threads take from the FIFO pool, so the next command may meet any context:
while `broken` is neither empty nor everything, LPUSH, LLEN and BRPOP may each fail or succeed (`Works`, `Fails`). This contains every order in which a real pool would hand its contexts
out. `PopLost` is a context that breaks when Redis has taken the entry off and the reply is under way. `Restart` keeps MySQL and Redis only; it may
come at any point and after a crash.

**Broadcast.** A tick moves a room's players (`Tick`); one step per player queues its state and updates its place in the grid (`Visit`);
then the room's state goes to everyone near a member and the queue is flushed (`Report`). Points are integers, for the floats of the code.

## 3. Runs

Passing runs. States are distinct states.

| run | shows | bounds and why they are enough |
|---|---|---|
| `session_manager` | the three maps, Redis and the abstract directory agree after any sequence of calls | 2 players, 2 connections, 3 session ids: a kick needs an old and a new id of one player while the other has one too; two passwords so that a login may fail; windows of 0 and 1 so that every age is on both sides of its limit |
| `game_server` | what sessions, rooms, battles, queue and the timer thread say of each other is consistent | 2 players, a spare connection to reconnect on, rooms of 2, 3 queue entries, so that a stale entry and a full match coexist, and two players may be inside `joinQueue` while the timer thread matches or expires them; a window of 0, so that it expires one who still has to be marked |
| `server_faults` | a queue that is long enough is served while Redis works, expiry recurs unless only a part of the contexts is broken, and entries of an earlier process bring nobody into a room | 1 player, 2 joins, 2 rooms of 2, 2 contexts, so that none, one or both may be broken, for good and at any point, and one restart: between two pops, after a crash, after a pop was lost |
| `logic_worker` | hit points, totals and sequence numbers are accounted for | 2 players, 2 rooms, 2 commands: one player in two battles, self-hits, a duplicate, a kill by exactly the hit points that are left (75, against an attack of 75) and by more or less than them (skills of 112 and 60) |
| `worker_progress` | no operation lost, IO threads leave the rooms to a running worker for good, battles begin, lost players fall | 2 IO threads, so that two of them and the worker drain at once and one finds the queue empty before the other has applied what it took; 2 rooms, 2 starts, 2 disconnects, no commands |
| `event_loop` | wheel and routes consistent, no output forgotten, no connection outlives its silent peer unless its output cannot be flushed | 2 connections whose timers may share a slot, a response of 2 pieces so that a write can stop inside one, a queue for one response so that the second overflows, 2 inputs so that a closed connection can be revived |
| `frame_stream` | no byte lost or moved, broken headers ban at once, buffers bounded, both buffers are queues, every frame is decoded | bytes of 4 values, a header of 5 bytes (no flags, as a field of no new kind), 2 frames of 0 to 2 bytes of payload, lengths one below and one above the limits; buffers that start with 2 cells and reads of 4, so that frames are cut, buffers compacted and grown; a send queue for one response, so that the second may overflow it |
| `storage_pool` | connections conserved, no lost wake-up, every call returns | 3 IO threads and the timer thread on 2 connections, so that two threads sleep at once; 3 calls, one broken context, rooms of 2. The IO threads call one Redis and one MySQL method; the others differ in their data only |
| `broadcast` | the grid's range, and every tick reaches the members | 2 players, 2 rooms that may share them, cells of 2 units on a strip of 6 by 2 points over the origin: both signs, all neighbours along a row, two cells apart |

Runs that find what the code does and a line of the repository says it does not (each is a finding in `PROJECT.json`):

| run | shows |
|---|---|
| `disconnect_in_battle` | the battle is never told of a disconnect |
| `two_starts` | two IO threads that start battles: one writes rooms that the started worker owns |
| `join_race` | a player is matched in the middle of `joinQueue` and left MATCHING without a queue entry |

Six more disagreements were met while modelling. The models contain the behaviour; no run singles it out:

* `leaveQueue` leaves the entry in the Redis list ("the player will just be filtered out when matched", `match_manager.cpp:26`), and
  `tryMatch` asks only for a session, so a player that cancelled is matched all the same.
* `addPlayer` of a member clears its ready flag and not its share of `ready_count_` (`room.cpp:16`), so a battle can start with a
  member that is not ready ("If all ready, start battle", `game_server.cpp:255`).
* `tryReconnect` sets IN_LOBBY before the handler tests for IN_BATTLE, so no snapshot is ever sent (`game_server.cpp:342`).
* Of two timers in one slot of the wheel only one fires ("Fires after timeout_ms.", `timer_wheel.h:25`): the callback erases from the vector
  that `tick` walks.
* A full send queue closes a connection whose peer has stopped reading; its output is never flushed, so that neither the removal nor the disconnect
  callback follows ("send queue full" → closeConnection → cleanupClosed → disconnect callback, `docs/p7-p9-throughput-stability.md:57`), and `checkTimeouts` passes over it.
* With some contexts of Redis broken and some not, `tryMatch` may see a long queue and fail to pop in every round. It then creates rooms without end
  ("Batch-create rooms until queue is below room_size", `match_manager.cpp:37`) and `cleanupExpired` never runs: the exception in `QueueServed` and `CleanupRecurs`.

Every property of a passing run has a mutant in the modules (an operator whose comment begins "Mutant:") that
stands for a plausible mistake in the code and makes the property fail.

Deadlock is not checked where everything may come to rest: in `frame_stream` (a peer that has sent all it will and a connection that is gone), `storage_pool`
(a server whose start failed, or was aborted), and in the runs of `GameServer` and `ServerFaults` (a process that has crashed).

### Fairness

* `ServerFaults!FairFaultSpec`: weak fairness of the timer thread, stated on its variable. `timerLoop` is a thread that only sleeps and works;
  a BRPOP on an empty list is not enabled, so that it does not block is shown, not assumed. Of a command that may fail or succeed, neither outcome is fair.
  Contexts need not break, and nobody need restart the server.
* `LogicWorker!FairSpec`: weak fairness of the worker's thread, of each IO thread that is inside `startBattle` and of the clock; strong fairness of an IO thread that
  waits for `rooms_mtx_`. The worker takes that mutex in every tick, so weak fairness would let it shut the IO thread out; but it sleeps without it between ticks, for most of the 50 ms. Nobody is forced to start a battle or send a command.
* `EventLoop!FairSpec`: weak fairness of the loop (epoll_wait has a timeout of one tick) and of the clock. Nothing is assumed of the peers: the connections
  that the heartbeat has to end are those of peers that do nothing.
* `FrameStream!FairSpec`: weak fairness of everything but new frames and responses: TCP delivers, the loop runs, the peer reads.
* `StorageClients!FairSpec`: weak fairness of each thread that is inside a call. Redis answers a command or the connection
  breaks. A BRPOP on an empty list is not enabled. Spurious wake-ups are possible and not fair.

## 4. Proofs

Each proof module holds for all values of the constants of its component that satisfy the assumptions below: all sets of players,
connections, sessions, rooms and threads, all window lengths, room, pool and wheel sizes, all statistics and skills, every base and width of a header field,
and every bound on the number of steps. Of the properties that the passing runs check, every invariant and every
action property has a theorem, and so have both refinements; the one of `SessionDirectory` is proved of the session manager alone, of the whole server, and of the server with faults and restarts. `PROJECT.json` lists them with the property each one states.

### Assumptions on constants

| assumption | says | why the code justifies it |
|---|---|---|
| `WindowAssumption` | the reconnect window is shorter than the session's time to live | the constants of `session_manager.h` |
| `SettableAssumption` | no caller sets DISCONNECTED through `setState` | no call does |
| `RoomSizeAssumption`, `RoomsAssumption` | rooms have seats; room ids are positive | `match_room_size` is 10; ids count from 1 |
| `StorageAssumption` | pools have a connection or more; only the timer thread calls LLEN and BRPOP | 4 connections in both clients; `tryMatch` is called by `timerLoop` only |
| `PlayersAssumption` | there are finitely many players, so that the figures of a battle have a sum | a player id is a `uint64_t` |
| `StatsAssumption`, `SkillsAssumption` | statistics are natural, a player starts with hit points | `battle_player.h` |
| `WheelAssumption`, `LoopAssumption`, `CellAssumption`, `BroadcastAssumption`, `BufferAssumption`, `WorkerAssumption`, `FaultsAssumption` | sizes are positive, bounds natural | |
| `CodecAssumption`, `LengthFits` | the length field is wide enough for the longest frame | 4 bytes against 64 KB |
| `StreamAssumption` | frames fit their fields and the payload limit; broken lengths are outside of the limits | what `encode` accepts and `decode` throws at |

### Inductive invariants

*SessionManager.* `SMIInv` is the conjunction of the types, the soundness of `conn_map_`, the exact inverse
between `player_map_` and `sessions_`, and the agreement of Redis with them. The safety
properties are not inductive alone: that a kick removes the right online key needs `player_map_` to be exact, and that
needs `sessions_` to hold one session per player. Each method has a lemma that it preserves the
invariant of a manager record; these lemmas are about operators, not about the state, so that `GameServerProofs` cites
them again. `DirectoryStep` says of two manager records what a step of `SessionDirectory` says of owners and ids: the owners stay, some sessions end, or a fresh id
logs in a player that has no other session. Every method is such a step, and every such step, under the mapping from
sessions to owners, is one of `SessionDirectory` or a stutter (`StepOfDirectory`), which gives `SMImplementsDirectory`. The invariants carry a parameter `boots`, the restarts so far: their part on Redis is claimed for
0 only, because a restart forgets the sessions and keeps the keys.

*GameServer.* `GInv` adds to `SMIInv`: the types (`GameTypes`); what a session's state says of rooms, battles and connections
(`SessionsOK`); the invariant of each room, members against seats and ready flags against the count (`RoomsOK`); battle rosters
against rooms (`BattlesOK`); room ids below the next one (`RoomIdsFresh`), without which a
new room could overwrite an old one; and `FillInv`, which says that while `tryMatch` fills a room the list still
holds as many entries as it has players to pop. The types of `joining` and `up` are apart (`JoinTypes`). `FillInv` is the reason that BRPOP never blocks: handlers only append. The proof has one lemma
per action. `ServerImplementsDirectory` goes through the calls a handler chains (`login` and `setState`; `setState` and `setMatchMode` or `setCurrentRoom`; the loop of `startBattle`):
all of them together are one `DirectoryStep` (`NextDirectoryStep`). `OnlyTheSilentLoseSessions` looks at the steps that end sessions: a player's session is the one `player_map_` names, so a player is
left without one only by a step that ends this session and starts none of the player's: `cleanupExpired`, or a reconnect that comes too late. Both ask how long the session has been silent.

*ServerFaults.* `FInv` is `GInv` without its part on Redis, `JoinTypes`, and two facts on the players seen
since the restart: every session is one of theirs (`SessionsSeen`), and so is every member of a room (`MembersSeen`). A `DirectoryStep`
passes no session to another player (`OwnersStay`), so whoever `tryMatch` finds through `player_map_` has logged in to
this process. That gives `NoGhosts`, and with `GInv` all the safety of `GameServer` under faults (`SafeUnderFaults`, `MatchingNeverBlocksFaulty`). A failing command changes no owner and a restart ends all sessions, so that
`FaultyServerImplementsDirectory` holds as well.

*StorageClients.* `PoolConserved` counts holders and places, which a step cannot be argued from. `SInv` says the same of single connections
(`PoolOwned`): the idle ones are distinct and are the ones made that nobody holds, and a held one has one holder. `NoLostWakeup` needs that the
threads asleep and those woken are disjoint, so that each `notify_one` picks a new thread. `PopsQueued` (the timer thread has counted what it
is going to pop, and nobody else pops) gives `PopsFindPlayers`: BRPOP without a timeout never waits.

*LogicWorker.* `WInv` has the types, the account of each player's hit points, the balance of each battle (`Balanced`, the statement of `TotalsAgree`), the place of the AddRoom of every room that the worker does not have yet, and
`StartedHasRooms` (the thread is started when it has a room, and rooms stay) and `SeqsInv`: a sequence number above the one in `last_seq_` was never executed, the others at most once. The lemmas about
`TickEngine` say that a hit, a skill and an area skill keep a battle right, whoever hits whom.
For the balance, the fold of `total` is shown to be a recursive function on the subsets of the players (`TotalIs`), by induction over the subsets of a finite set (`SubsetInduction`);
that function does not depend on which element it takes first (`SumsAnyOrder`), so a change of one player's entry changes the total by as much (`TotalChange`). A hit adds
the damage to one entry on each side, of two players or of one, and a kill a one (`HitBalanced`). `FallenAreFinal` is an action theorem from the same invariant: a player that has fallen stays down and its figures stand, whatever
comes late. It needs that the fallen have no hit points, or the timeout of a lost connection would change them. `OwnershipOfRooms`, for any number of IO threads, rests on `StartedHasRooms`: `startBattle` enters `drainPendingOps` only
when it reads that there is no room, which it never does of a started worker, so the set of IO threads that drain can only shrink from then on. That it becomes empty is `DrainersLeave`, which TLC checks; that it may not be empty at first is the finding `two_starts`.

*EventLoop.* `WheelInv` restates `WheelConsistent` entry by entry and is preserved by every operation of the wheel alone, `fired`
included. It is about `tick` and `fired`, the closed forms of the walk. `LoopInv` adds `Ids` (an id passes from `pending_conns_` to `conns_` and out of it and never comes back, so the disconnect callback runs once),
`Routed` and `Output`, which follows a connection with queued output through the loop: EPOLLOUT is asked for, and the socket
is full, on epoll's ready list or among the events at hand. `NoLostWakeup` is `Output` at the moment of epoll_wait.

*Broadcast.* `BInv` says that `grid_` and `player_cells_` are inverse (`Matched`), that a player's cell is that of its last point (`Located`), and what is queued
in the middle of a tick (`Queued`). `InterestRange` follows with arithmetic on floor division, for both signs.

*FrameStream.* `StreamInv` has three parts. `InputInv`: the frames decoded, what is buffered and what is under way are the bytes the peer sent, and these begin with its good
frames and go on, if one was broken, with a broken header. `OutputInv`: the same for responses, and the queue limit. `ConnInv`: a connection that waits for input has no broken header in front and less than one frame. Its lemmas go from the buffer's operations
(compaction and growth keep the contents) over fields (`ntohl` after `htonl` is the identity, for any base and width) and headers to
`NextFrame`: when `decode` returns a frame, it is the next one the peer sent, and what stays in the buffer is what followed it. `BuffersImplementQueues` shows that every step
adds bytes at the end of each buffer, takes some from its front, or leaves it.

The numbers and the encodings of frame sequences, and the sums over players, are recursive functions. The library's induction theorems take an operator, which the provers
cannot instantiate; `FrameStreamProofs` and `LogicWorkerProofs` derive from the well-foundedness of the naturals that a non-empty set of them has a least element
(`LeastNat`), from that induction for a set in place of an operator (`SetInduction`) and that primitive recursion defines a function (`Recursion`; `SumsExist` for subsets).

### Only model-checked

* Liveness (`QueueServed`, `CleanupRecurs`, `BattleBegins`, `DrainersLeave`, `LostIsDropped`, `ConnectionsEnd`, `StreamServed`, `AllServed`), which the prover does not handle: no theorem here says that something happens in the end.
* That the walk of `TimerWheel::tick` comes to its closed form (`TickIsItsWalk`), for buckets of up to five entries.

## 5. What is not modelled

* Handlers that overlap. `SessionManager`, `RoomManager` and `room_to_worker_` have no mutex although four IO threads and the timer thread
  call them; two calls at the same moment are a data race. The models take each call as one step. What they show is what
  the code does when calls do not overlap: a login's kick and insertion are one step, for one. The commands to the match queue are the exception, where the pool's mutex orders the threads; there handlers and the timer thread interleave.
* Failures of the commands that write session rows and online keys: nothing reads those keys back. An error reply (as opposed to a broken context) is in `StorageClients` only; for the match queue it is a failure like any other.
* A failing MySQL query beyond start-up: the login that made it fails, with nothing changed in the session manager.
* The end of the pools: `stop` does not wait for the detached IO threads, which may still call a client that is being destroyed.
* Stop of threads (the start of the workers is in `LogicWorker`, a restart in `ServerFaults`), a failing `epoll_wait`, SIGPIPE (a write to a reset connection is taken to return an error).
* Code that nothing calls: `endBattle`, `computeSettlement`, `removeRoom`, `Room::removePlayer`, `startLoading`, STOP_MOVE and LEAVE,
  `rateLimitExceeded`, `sendFrame`, `enableRead`, `AoiGrid::remove`; and `broadcastToRoom`, whose messages go to player 0 and are dropped by the send callback.
* The bytes of messages and responses, logging, the robot, the gateway stub.

## 6. Plan

Done, in this order: SessionManager with its directory and proofs; GameServer with matching, rooms and battles and its proofs;
LogicWorker with TickEngine; EventLoop with TimerWheel; Buffer, FrameCodec and FrameStream; ConnectionPool and the storage clients;
failing Redis and restart; AoiGrid and Broadcast.

The proofs, in the order of section 4: the session manager's and the server's, the faults, the pools, the worker, the loop, the grid and the streams.

No safety property of a passing run is left without a theorem. What is left is liveness, which TLC checks on the instances of section 3.
