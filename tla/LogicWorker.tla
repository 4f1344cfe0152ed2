----------------------------- MODULE LogicWorker -----------------------------
(***************************************************************************)
(* LogicWorker (src/game/logic_worker.{h,cpp}) with the part of            *)
(* BattleManager that the IO threads run on it (battle_manager.cpp) and    *)
(* CommandQueue (command.{h,cpp}).                                         *)
(*                                                                         *)
(* One worker thread owns a map of rooms.  IO threads reach it through two *)
(* queues: room operations (pending_ops_) and commands (cmd_queue_).  A    *)
(* step ends where a mutex is released.  rooms_mtx_ is held by the worker  *)
(* while its pc is "command" and free otherwise: every other section under *)
(* it is one step, and tick gives it up while it broadcasts.               *)
(*                                                                         *)
(* startBattle also drains the operations itself, on the IO thread, while  *)
(* the worker has no room; that is how the first room gets in before the   *)
(* worker's thread is started.  endBattle, the only caller of removeRoom,  *)
(* is never called.  The rooms of other workers and what is broadcast are  *)
(* left out.                                                               *)
(***************************************************************************)
EXTENDS TickEngine, Sequences, FiniteSets, Functions

CONSTANTS
  Rooms,        \* ids of the rooms assigned to this worker
  IOThreads,    \* the IO threads that may start battles
  LostLimit,    \* 30 s in tick
  MaxSeq,       \* bound on sequence numbers
  MaxStarts,    \* bounds on the number of battles started, of commands
  MaxCommands,  \* and of disconnects
  MaxLosses

\* A player id is a uint64_t.
ASSUME PlayersAssumption == IsFiniteSet(Players)

ASSUME WorkerAssumption ==
  /\ LostLimit \in Nat
  /\ MaxSeq \in Nat /\ MaxStarts \in Nat /\ MaxCommands \in Nat /\ MaxLosses \in Nat

VARIABLES
  pending,   \* pending_ops_
  commands,  \* cmd_queue_
  rooms,     \* rooms_: room id -> [players, lost], lost being disconnected
  seqs,      \* TickEngine::last_seq_
  assigned,  \* BattleManager::room_to_worker_, with the players of the room
  started,   \* call_once has started the thread
  worker,    \* where the worker thread stands
  io,        \* where each IO thread stands in startBattle
  used,      \* the number of starts, commands and losses so far
  applied    \* history: how often each sequence number of a player was executed

vars == <<pending, commands, rooms, seqs, assigned, started, worker, io, used, applied>>

-----------------------------------------------------------------------------

\* Seconds since a player was marked, up to the first that is over the limit.
Ages == 0 .. LostLimit + 1

\* The handlers of 4001, 4002 and 4003 fill in what the type needs.
wellFormed(cmd) ==
  /\ cmd.type # "SKILL" => cmd.skill = 0
  /\ cmd.type = "MOVE" => cmd.target = cmd.player

\* Skill 0 is the one no skill has.
Command ==
  {cmd \in [type : {"MOVE", "ATTACK", "SKILL"}, player : Players, seq : 1 .. MaxSeq,
            target : Players, skill : DOMAIN kSkills \cup {0}] : wellFormed(cmd)}

AddRoom(r, P) == [type |-> "AddRoom", room |-> r, players |-> P]

MarkDisconnected(r, p) == [type |-> "MarkDisconnected", room |-> r, players |-> {p}]

Op == [type : {"AddRoom", "MarkDisconnected"}, room : Rooms, players : SUBSET Players]

NoOp == [type |-> "None"]

\* The two cases of drainPendingOps that occur.  AddRoom replaces the battle the
\* room may already have.
applyOp(rs, op) ==
  CASE op.type = "AddRoom" ->
         Put(rs, op.room, [players |-> [p \in op.players |-> newBattlePlayer], lost |-> EmptyMap])
    [] op.type = "MarkDisconnected" ->
         IF op.room \in DOMAIN rs
         THEN Put(rs, op.room,
                  [players |-> rs[op.room].players,
                   lost |-> [p \in DOMAIN rs[op.room].lost \cup op.players |->
                               IF p \in op.players THEN 0 ELSE rs[op.room].lost[p]]])
         ELSE rs

\* The worker thread: its local op of drainPendingOps, its local cmds of tick,
\* the room its loop stands at, the rooms it has still to visit after that one,
\* and the number of commands executed in the room.
At(pc, op, cmds, room, todo, done) ==
  [pc |-> pc, op |-> op, cmds |-> cmds, room |-> room, todo |-> todo, done |-> done]

NoRoom == 0

Draining == At("drain", NoOp, <<>>, NoRoom, {}, 0)

Init ==
  /\ pending = <<>>
  /\ commands = <<>>
  /\ rooms = EmptyMap
  /\ seqs = EmptyMap
  /\ assigned = EmptyMap
  /\ started = FALSE
  /\ worker = Draining
  /\ io = [t \in IOThreads |-> [pc |-> "idle", op |-> NoOp]]
  /\ used = [starts |-> 0, commands |-> 0, losses |-> 0]
  /\ applied = [p \in Players |-> [s \in 1 .. MaxSeq |-> 0]]

roomsLocked == worker.pc = "command"

-----------------------------------------------------------------------------
(***************************************************************************)
(* IO threads: BattleManager.                                              *)
(***************************************************************************)

\* startBattle: addRoom and room_to_worker_[rid] = worker.  A room that is
\* started again has lost no player (GameServer, RoomsConsistent).
StartBattle(t, r, P) ==
  /\ io[t].pc = "idle"
  /\ r \in DOMAIN assigned => assigned[r] \subseteq P
  /\ used.starts < MaxStarts
  /\ used' = [used EXCEPT !.starts = @ + 1]
  /\ pending' = Append(pending, AddRoom(r, P))
  /\ assigned' = Put(assigned, r, P)
  /\ io' = [io EXCEPT ![t] = [pc |-> "count", op |-> NoOp]]
  /\ UNCHANGED <<commands, rooms, seqs, started, worker, applied>>

\* startBattle for a room of another worker: its loop visits every worker, this
\* one too.
StartBattleElsewhere(t) ==
  /\ io[t].pc = "idle"
  /\ io' = [io EXCEPT ![t] = [pc |-> "count", op |-> NoOp]]
  /\ UNCHANGED <<pending, commands, rooms, seqs, assigned, started, worker, used, applied>>

\* Mutant: drain whether or not the worker has rooms.
CountRoomsAndDrain(t) ==
  /\ io[t].pc = "count"
  /\ io' = [io EXCEPT ![t].pc = "drain"]
  /\ UNCHANGED <<pending, commands, rooms, seqs, assigned, started, worker, used, applied>>

\* The first roomCount(), which takes no lock.
CountRooms(t) ==
  /\ io[t].pc = "count"
  /\ io' = [io EXCEPT ![t].pc = IF DOMAIN rooms = {} THEN "drain" ELSE "start"]
  /\ UNCHANGED <<pending, commands, rooms, seqs, assigned, started, worker, used, applied>>

\* Mutant: an IO thread waits in its loop for more operations, as the worker does.
DrainPopWaits(t) ==
  /\ io[t].pc = "drain"
  /\ pending # <<>>
  /\ io' = [io EXCEPT ![t] = [pc |-> "apply", op |-> Head(pending)]]
  /\ pending' = Tail(pending)
  /\ UNCHANGED <<commands, rooms, seqs, assigned, started, worker, used, applied>>

\* drainPendingOps on the IO thread: take the next operation, or leave the loop.
DrainPop(t) ==
  /\ io[t].pc = "drain"
  /\ IF pending = <<>>
     THEN io' = [io EXCEPT ![t].pc = "start"] /\ UNCHANGED pending
     ELSE /\ io' = [io EXCEPT ![t] = [pc |-> "apply", op |-> Head(pending)]]
          /\ pending' = Tail(pending)
  /\ UNCHANGED <<commands, rooms, seqs, assigned, started, worker, used, applied>>

DrainApply(t) ==
  /\ io[t].pc = "apply"
  /\ ~roomsLocked
  /\ rooms' = applyOp(rooms, io[t].op)
  /\ io' = [io EXCEPT ![t] = [pc |-> "drain", op |-> NoOp]]
  /\ UNCHANGED <<pending, commands, seqs, assigned, started, worker, used, applied>>

\* Mutant: roomCount() > 1 where the code has >= 1.
StartThreadLate(t) ==
  /\ io[t].pc = "start"
  /\ started' = (started \/ Cardinality(DOMAIN rooms) > 1)
  /\ io' = [io EXCEPT ![t].pc = "idle"]
  /\ UNCHANGED <<pending, commands, rooms, seqs, assigned, worker, used, applied>>

\* The second roomCount() and call_once.
StartThread(t) ==
  /\ io[t].pc = "start"
  /\ started' = (started \/ DOMAIN rooms # {})
  /\ io' = [io EXCEPT ![t].pc = "idle"]
  /\ UNCHANGED <<pending, commands, rooms, seqs, assigned, worker, used, applied>>

\* The handlers, and the disconnect callback, ask for a session IN_BATTLE, whose
\* player is in some battle (GameServer, InBattleHasBattle), not always that of
\* its current room r.
inBattle(p) == \E r \in DOMAIN assigned : p \in assigned[r]

\* dispatchCommand: the command does not say which room it is for.
DispatchCommand(t, r, cmd) ==
  /\ io[t].pc = "idle"
  /\ inBattle(cmd.player)
  /\ r \in DOMAIN assigned
  /\ used.commands < MaxCommands
  /\ used' = [used EXCEPT !.commands = @ + 1]
  /\ commands' = Append(commands, cmd)
  /\ UNCHANGED <<pending, rooms, seqs, assigned, started, worker, io, applied>>

OnPlayerDisconnect(t, r, p) ==
  /\ io[t].pc = "idle"
  /\ inBattle(p)
  /\ r \in DOMAIN assigned
  /\ used.losses < MaxLosses
  /\ used' = [used EXCEPT !.losses = @ + 1]
  /\ pending' = Append(pending, MarkDisconnected(r, p))
  /\ UNCHANGED <<commands, rooms, seqs, assigned, started, worker, io, applied>>

-----------------------------------------------------------------------------
(***************************************************************************)
(* The worker thread: run.                                                 *)
(***************************************************************************)

\* Mutant: the queue is emptied after its first operation is taken.
WorkerPopClears ==
  /\ started
  /\ worker.pc \in {"drain", "wait"}
  /\ pending # <<>>
  /\ worker' = At("apply", Head(pending), <<>>, NoRoom, {}, 0)
  /\ pending' = <<>>
  /\ UNCHANGED <<commands, rooms, seqs, assigned, started, io, used, applied>>

\* drainPendingOps takes the next operation: of this round, or of a new one that
\* begins before a tick is due.
WorkerPop ==
  /\ started
  /\ worker.pc \in {"drain", "wait"}
  /\ pending # <<>>
  /\ worker' = At("apply", Head(pending), <<>>, NoRoom, {}, 0)
  /\ pending' = Tail(pending)
  /\ UNCHANGED <<commands, rooms, seqs, assigned, started, io, used, applied>>

WorkerApply ==
  /\ worker.pc = "apply"
  /\ rooms' = applyOp(rooms, worker.op)
  /\ worker' = Draining
  /\ UNCHANGED <<pending, commands, seqs, assigned, started, io, used, applied>>

\* drainPendingOps finds the queue empty and returns.
WorkerDrained ==
  /\ started
  /\ worker.pc = "drain"
  /\ pending = <<>>
  /\ worker' = At("wait", NoOp, <<>>, NoRoom, {}, 0)
  /\ UNCHANGED <<pending, commands, rooms, seqs, assigned, started, io, used, applied>>

\* 50 ms have passed: tick drains the commands.  Operations queued since the
\* last drain have to wait for the next one.
TickStart ==
  /\ worker.pc = "wait"
  /\ worker' = At("lock", NoOp, commands, NoRoom, {}, 0)
  /\ commands' = <<>>
  /\ UNCHANGED <<pending, rooms, seqs, assigned, started, io, used, applied>>

\* The loop goes on to one of the rooms in R, in the map's order, or ends.
visits(R) ==
  IF R = {} THEN {Draining}
  ELSE {At("command", NoOp, worker.cmds, r, R \ {r}, 0) : r \in R}

TickLock ==
  /\ worker.pc = "lock"
  /\ worker' \in visits(DOMAIN rooms)
  /\ UNCHANGED <<pending, commands, rooms, seqs, assigned, started, io, used, applied>>

\* processTick, one command: executed if it is accepted in this room.
TickCommand(near) ==
  LET r   == worker.room
      cmd == worker.cmds[worker.done + 1]
      ps  == rooms[r].players
  IN  /\ worker.pc = "command"
      /\ worker.done < Len(worker.cmds)
      /\ cmd.target = cmd.player => near
      /\ worker' = At("command", NoOp, worker.cmds, r, worker.todo, worker.done + 1)
      /\ IF accepts(ps, seqs, cmd)
         THEN /\ rooms' = Put(rooms, r, [players |-> execute(ps, cmd, near), lost |-> rooms[r].lost])
              /\ seqs' = Put(seqs, cmd.player, cmd.seq)
              /\ applied' = [applied EXCEPT ![cmd.player][cmd.seq] = @ + 1]
         ELSE UNCHANGED <<rooms, seqs, applied>>
      /\ UNCHANGED <<pending, commands, assigned, started, io, used>>

\* The end of processTick; tick builds the notification and unlocks.
TickCooldowns ==
  LET r == worker.room
  IN  /\ worker.pc = "command"
      /\ worker.done = Len(worker.cmds)
      /\ worker' = At("broadcast", NoOp, worker.cmds, r, worker.todo, 0)
      /\ rooms' = Put(rooms, r, [players |-> updateCooldowns(rooms[r].players), lost |-> rooms[r].lost])
      /\ UNCHANGED <<pending, commands, seqs, assigned, started, io, used, applied>>

overdue(room) == {p \in DOMAIN room.lost : room.lost[p] > LostLimit}

\* alive = false, hp = 0: nobody is credited, and deaths does not move.
forfeit(b) ==
  [hp |-> 0, alive |-> FALSE, cooldowns |-> b.cooldowns, kills |-> b.kills,
   deaths |-> b.deaths, dealt |-> b.dealt, taken |-> b.taken]

\* Mutant: the entry is erased, the player stays in the battle.
dropOverdueEntry(room) ==
  [players |-> room.players, lost |-> Erase(room.lost, overdue(room))]

dropOverdue(room) ==
  [players |-> [p \in DOMAIN room.players |->
                  IF p \in overdue(room) THEN forfeit(room.players[p]) ELSE room.players[p]],
   lost |-> Erase(room.lost, overdue(room))]

\* After the broadcast: lock again, drop who has been away too long, go on.
TickTimeouts ==
  /\ worker.pc = "broadcast"
  /\ rooms' = Put(rooms, worker.room, dropOverdue(rooms[worker.room]))
  /\ worker' \in visits(worker.todo)
  /\ UNCHANGED <<pending, commands, seqs, assigned, started, io, used, applied>>

-----------------------------------------------------------------------------

older(age) == IF age > LostLimit THEN age ELSE age + 1

\* A second passes.
TimePasses ==
  /\ rooms' = [r \in DOMAIN rooms |->
                 [players |-> rooms[r].players,
                  lost |-> [p \in DOMAIN rooms[r].lost |-> older(rooms[r].lost[p])]]]
  /\ UNCHANGED <<pending, commands, seqs, assigned, started, worker, io, used, applied>>

WorkerStep ==
  \/ WorkerPop \/ WorkerApply \/ WorkerDrained \/ TickStart \/ TickLock
  \/ \E near \in BOOLEAN : TickCommand(near)
  \/ TickCooldowns \/ TickTimeouts

IOStep(t) == CountRooms(t) \/ DrainPop(t) \/ DrainApply(t) \/ StartThread(t)

Next ==
  \/ \E t \in IOThreads, r \in Rooms, P \in SUBSET Players \ {{}} : StartBattle(t, r, P)
  \/ \E t \in IOThreads : StartBattleElsewhere(t) \/ IOStep(t)
  \/ \E t \in IOThreads, r \in Rooms, cmd \in Command : DispatchCommand(t, r, cmd)
  \/ \E t \in IOThreads, r \in Rooms, p \in Players : OnPlayerDisconnect(t, r, p)
  \/ WorkerStep
  \/ TimePasses

Spec == Init /\ [][Next]_vars

\* The worker runs until the process ends, an IO thread finishes startBattle, and
\* the clock moves.  A thread that waits for rooms_mtx_ gets it in the end: the worker
\* gives it up between ticks, for most of the 50 ms.
FairSpec == /\ Spec
            /\ WF_vars(WorkerStep)
            /\ \A t \in IOThreads : WF_vars(IOStep(t)) /\ SF_vars(DrainApply(t))
            /\ WF_vars(TimePasses)

-----------------------------------------------------------------------------
(***************************************************************************)
(* Properties.                                                             *)
(***************************************************************************)

IsRoomState(room) ==
  /\ room = [players |-> room.players, lost |-> room.lost]
  /\ IsMap(room.players, Players, BattlePlayer)
  /\ IsMap(room.lost, Players, Ages)

IsWorker(w) ==
  /\ w = [pc |-> w.pc, op |-> w.op, cmds |-> w.cmds, room |-> w.room, todo |-> w.todo, done |-> w.done]
  /\ w.pc \in {"drain", "apply", "wait", "lock", "command", "broadcast"}
  /\ w.pc = "apply" => w.op \in Op
  /\ w.cmds \in Seq(Command)
  /\ w.pc \in {"command", "broadcast"} => w.room \in DOMAIN rooms /\ w.todo \subseteq DOMAIN rooms
  /\ w.done \in 0 .. Len(w.cmds)

\* Types of every variable; the rooms the worker has still to visit are there.
TypeOK ==
  /\ pending \in Seq(Op)
  /\ commands \in Seq(Command)
  /\ DOMAIN rooms \subseteq Rooms
  /\ \A r \in DOMAIN rooms : IsRoomState(rooms[r])
  /\ IsMap(seqs, Players, 1 .. MaxSeq)
  /\ IsMap(assigned, Rooms, SUBSET Players)
  /\ started \in BOOLEAN
  /\ IsWorker(worker)
  /\ \A t \in IOThreads : /\ io[t].pc \in {"idle", "count", "drain", "apply", "start"}
                          /\ io[t].pc = "apply" => io[t].op \in Op
  /\ applied \in [Players -> [1 .. MaxSeq -> Nat]]

\* Every player's hit points account for the damage it has taken: it is alive
\* with what is left, and dead with none, whatever hit it and whoever left.
HpAccounts ==
  \A r \in DOMAIN rooms : \A p \in DOMAIN rooms[r].players :
    LET b == rooms[r].players[p]
    IN  IF b.alive THEN b.hp > 0 /\ b.hp + b.taken = MaxHp ELSE b.hp = 0

total(f) == FoldFunction(+, 0, f)

\* In a battle every damage dealt is a damage taken and every kill is a death,
\* also when a player hits itself.
TotalsAgree ==
  \A r \in DOMAIN rooms :
    LET ps == rooms[r].players
    IN  /\ total([p \in DOMAIN ps |-> ps[p].dealt]) = total([p \in DOMAIN ps |-> ps[p].taken])
        /\ total([p \in DOMAIN ps |-> ps[p].kills]) = total([p \in DOMAIN ps |-> ps[p].deaths])

\* "Process commands (with sequence dedup)": a command that is sent again, or that
\* meets its player in several rooms of the worker, is executed at most once.
AppliedOnce == \A p \in Players, s \in 1 .. MaxSeq : applied[p][s] <= 1

carries(op, r) == op.type = "AddRoom" /\ op.room = r

\* An AddRoom of the room is queued or in somebody's hands.
underway(r) ==
  \/ \E i \in 1 .. Len(pending) : carries(pending[i], r)
  \/ worker.pc = "apply" /\ carries(worker.op, r)
  \/ \E t \in IOThreads : io[t].pc = "apply" /\ carries(io[t].op, r)

\* No operation is lost between the threads, however many of them drain at a time: a
\* room that has been given to the worker is in its map, or on its way there.
NoRoomLost == \A r \in DOMAIN assigned : r \in DOMAIN rooms \/ underway(r)

\* "the LogicWorker thread has the room data to itself": once it runs, no IO
\* thread changes the rooms.  Not so while an IO thread still drains.
WorkerOwnsRooms == [][started /\ rooms' # rooms => io' = io]_vars

\* No IO thread is inside drainPendingOps.
nobodyDrains == \A t \in IOThreads : io[t].pc \notin {"drain", "apply"}

\* What is true of it: from the moment the worker runs and the last IO thread has left
\* drainPendingOps, none enters it again, and the worker alone changes the rooms.
OwnershipIsFinal ==
  [][started /\ nobodyDrains => nobodyDrains' /\ (rooms' # rooms => io' = io)]_vars

\* That moment comes: the threads that were draining when the worker was started leave.
DrainersLeave == started ~> nobodyDrains

\* A battle that has been started gets to the worker's map.
BattleBegins == \A r \in Rooms : r \in DOMAIN assigned ~> r \in DOMAIN rooms

isLost(r, p) == r \in DOMAIN rooms /\ p \in DOMAIN rooms[r].players \cap DOMAIN rooms[r].lost

hasFallen(r, p) ==
  r \in DOMAIN rooms /\ p \in DOMAIN rooms[r].players \ DOMAIN rooms[r].lost /\ ~rooms[r].players[p].alive

\* A player that was marked as disconnected falls in the end and its entry goes, unless
\* the battle is about to be started anew.
LostIsDropped ==
  \A r \in Rooms, p \in Players : isLost(r, p) ~> hasFallen(r, p) \/ underway(r)

=============================================================================
