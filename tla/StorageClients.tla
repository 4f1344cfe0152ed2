--------------------------- MODULE StorageClients ---------------------------
(***************************************************************************)
(* RedisClient and MysqlClient (src/storage/{redis,mysql}_client.cpp) on   *)
(* their connection pools, as GameServer uses them: the storage is         *)
(* connected at the start (GameServer::initStorage), then the IO threads   *)
(* call any method, and the timer thread measures the match queue and      *)
(* takes a room's players from it (MatchManager::tryMatch).                *)
(*                                                                         *)
(* Every method borrows a connection, gives it one command, frees the      *)
(* reply and returns the connection when its Guard goes out of scope.  The *)
(* match queue is modelled by its length, and other data by the kinds of   *)
(* reply it can cause.  A Redis connection may break with a command under  *)
(* way, which the server may have carried out; hiredis then answers every  *)
(* command on that context with a null reply.  MySQL connections reconnect.*)
(***************************************************************************)
EXTENDS ConnectionPool

CONSTANTS
  IoThreads, Timer,  \* the threads
  PoolSize,          \* 4 in both clients
  IoOps,             \* the methods the IO threads call
  RoomSize,          \* room_size_
  MaxCalls,          \* bounds on the IO threads' calls
  MaxBreaks          \* and on the Redis connections that break

redisOps == {"set", "setEx", "get", "del", "expire", "exists", "lpush", "brpop", "llen"}

mysqlOps == {"execute", "escape", "getPlayer", "createPlayer", "recordLogin", "saveBattleResult"}

ASSUME StorageAssumption ==
  /\ Timer \notin IoThreads
  /\ PoolSize \in Nat \ {0}
  /\ IoOps \subseteq (redisOps \union mysqlOps) \ {"brpop", "llen"}
  /\ RoomSize \in Nat \ {0}
  /\ MaxCalls \in Nat /\ MaxBreaks \in Nat

Threads == IoThreads \union {Timer}

VARIABLES
  phase,   \* where initStorage is: mysql, schema, redis; then serving, failed
           \* (an exception left start) or aborted (by the allocator)
  pool,    \* pool_ of each client
  broken,  \* the Redis contexts whose err is set
  breaks,  \* how many of them there are
  queued,  \* the length of the match queue's list
  thread,  \* each thread's call: its stage, the method and its connection
  todo,    \* the pops that tryMatch has still to make for its room
  calls    \* calls of the IO threads

vars == <<phase, pool, broken, breaks, queued, thread, todo, calls>>

none == [at |-> "idle", op |-> "none", conn |-> 0]

client(op) == IF op \in redisOps THEN "redis" ELSE "mysql"

Init ==
  /\ phase = "mysql"
  /\ pool = [k \in {"redis", "mysql"} |-> emptyPool]
  /\ broken = {}
  /\ breaks = 0
  /\ queued = 0
  /\ thread = [t \in Threads |-> none]
  /\ todo = 0
  /\ calls = 0

-----------------------------------------------------------------------------
(***************************************************************************)
(* GameServer::initStorage: the MySQL pool, the schema, the Redis pool.    *)
(***************************************************************************)

\* One round of the pool's constructor; after the last one initStorage goes on.
connect(k, next) ==
  /\ phase = k
  /\ pool' = [pool EXCEPT ![k] = made(@)]
  /\ phase' = IF pool[k].made + 1 < PoolSize THEN phase ELSE next
  /\ UNCHANGED <<broken, breaks, queued, thread, todo, calls>>

ConnectMysql == connect("mysql", "schema")

ConnectRedis == connect("redis", "serving")

\* createConnection fails, connect returns false and start throws.
ConnectFails(k) ==
  /\ phase = k
  /\ pool' = [pool EXCEPT ![k] = creationFailed(@)]
  /\ phase' = "failed"
  /\ UNCHANGED <<broken, breaks, queued, thread, todo, calls>>

\* Borrows, creates the tables and returns, while nobody else uses the pool.
EnsureSchema ==
  /\ phase = "schema"
  /\ LET idle == pool["mysql"].idle
     IN  pool' = [pool EXCEPT !["mysql"].idle = Append(Tail(idle), Head(idle))]
  /\ phase' = "redis"
  /\ UNCHANGED <<broken, breaks, queued, thread, todo, calls>>

-----------------------------------------------------------------------------
(***************************************************************************)
(* A call.                                                                 *)
(***************************************************************************)

begin(t, op) ==
  /\ phase = "serving"
  /\ thread[t].at = "idle"
  /\ thread' = [thread EXCEPT ![t] = [at |-> "borrow", op |-> op, conn |-> 0]]
  /\ UNCHANGED <<phase, pool, broken, breaks, queued, todo>>

IoCalls(t, op) ==
  /\ calls < MaxCalls
  /\ begin(t, op)
  /\ calls' = calls + 1

\* tryMatch, with a session saved after each pop, and what cleanupExpired deletes.
TimerCalls(op) ==
  /\ op \in {"setEx", "set"} \union (IF todo = 0 THEN {"llen", "del"} ELSE {"brpop"})
  /\ begin(Timer, op)
  /\ UNCHANGED calls

borrowing(t) == phase = "serving" /\ thread[t].at = "borrow"

\* Mutant: the Guard is a temporary, whose destructor runs at once.
BorrowTemporary(t) ==
  LET k == client(thread[t].op)
  IN  /\ borrowing(t)
      /\ canBorrow(pool[k], t)
      /\ \E p \in returnConn(borrow(pool[k], t), Head(pool[k].idle)) : pool' = [pool EXCEPT ![k] = p]
      /\ thread' = [thread EXCEPT ![t].at = "command", ![t].conn = Head(pool[k].idle)]
      /\ UNCHANGED <<phase, broken, breaks, queued, todo, calls>>

Borrow(t) ==
  LET k == client(thread[t].op)
  IN  /\ borrowing(t)
      /\ canBorrow(pool[k], t)
      /\ pool' = [pool EXCEPT ![k] = borrow(@, t)]
      /\ thread' = [thread EXCEPT ![t].at = "command", ![t].conn = Head(pool[k].idle)]
      /\ UNCHANGED <<phase, broken, breaks, queued, todo, calls>>

Wait(t) ==
  LET k == client(thread[t].op)
  IN  /\ borrowing(t)
      /\ mustWait(pool[k], t)
      /\ pool' = [pool EXCEPT ![k] = wait(@, t)]
      /\ UNCHANGED <<phase, broken, breaks, queued, thread, todo, calls>>

SpuriousWakeup(t) ==
  LET k == client(thread[t].op)
  IN  /\ borrowing(t)
      /\ t \in pool[k].asleep
      /\ pool' = [pool EXCEPT ![k] = wakeSpuriously(@, t)]
      /\ UNCHANGED <<phase, broken, breaks, queued, thread, todo, calls>>

\* The Guard's destructor; the call returns.
Return(t) ==
  LET k == client(thread[t].op)
  IN  /\ phase = "serving"
      /\ thread[t].at = "return"
      /\ \E p \in returnConn(pool[k], thread[t].conn) : pool' = [pool EXCEPT ![k] = p]
      /\ thread' = [thread EXCEPT ![t] = none]
      /\ UNCHANGED <<phase, broken, breaks, queued, todo, calls>>

-----------------------------------------------------------------------------
(***************************************************************************)
(* Commands.                                                               *)
(***************************************************************************)

commanding(t, k) == phase = "serving" /\ thread[t].at = "command" /\ client(thread[t].op) = k

replied(t) == thread' = [thread EXCEPT ![t].at = "return"]

\* What Redis does to the match queue, and the only command that waits for it.
\* It is never called with a timeout.
carriesOut(op) == op = "brpop" => queued > 0

lengthAfter(op) ==
  CASE op = "lpush" -> queued + 1
    [] op = "brpop" -> queued - 1
    [] OTHER -> queued

\* tryMatch goes on from the results: a failed llen counts as an empty queue, and a
\* failed brpop ends the room.
popsAfter(op, ok) ==
  CASE op = "llen" -> IF ok /\ queued >= RoomSize THEN RoomSize ELSE 0
    [] op = "brpop" -> IF ok THEN todo - 1 ELSE 0
    [] OTHER -> todo

\* The reply has the type that checkReply expects, or the method does not check it.
RedisReplies(t) ==
  LET op == thread[t].op
  IN  /\ commanding(t, "redis")
      /\ thread[t].conn \notin broken
      /\ carriesOut(op)
      /\ queued' = lengthAfter(op)
      /\ todo' = popsAfter(op, TRUE)
      /\ replied(t)
      /\ UNCHANGED <<phase, pool, broken, breaks, calls>>

\* An error reply, of a command that has no effect.  checkReply frees it, and so does
\* its caller: the allocator aborts the process or its heap survives.
RedisRefuses(t) ==
  LET op == thread[t].op
  IN  /\ commanding(t, "redis")
      /\ thread[t].conn \notin broken
      /\ op # "del"
      /\ phase' \in {"serving", "aborted"}
      /\ todo' = popsAfter(op, FALSE)
      /\ replied(t)
      /\ UNCHANGED <<pool, broken, breaks, queued, calls>>

\* The connection breaks before or after the command was carried out.
RedisBreaks(t) ==
  LET op == thread[t].op
  IN  /\ commanding(t, "redis")
      /\ thread[t].conn \notin broken
      /\ breaks < MaxBreaks
      /\ broken' = broken \union {thread[t].conn}
      /\ breaks' = breaks + 1
      /\ queued' = queued \/ (carriesOut(op) /\ queued' = lengthAfter(op))
      /\ todo' = popsAfter(op, FALSE)
      /\ replied(t)
      /\ UNCHANGED <<phase, pool, calls>>

\* A context that is broken answers null at once.
RedisIsBroken(t) ==
  /\ commanding(t, "redis")
  /\ thread[t].conn \in broken
  /\ todo' = popsAfter(thread[t].op, FALSE)
  /\ replied(t)
  /\ UNCHANGED <<phase, pool, broken, breaks, queued, calls>>

\* A query, whatever its result, which every path frees.
MysqlQuery(t) ==
  /\ commanding(t, "mysql")
  /\ replied(t)
  /\ UNCHANGED <<phase, pool, broken, breaks, queued, todo, calls>>

-----------------------------------------------------------------------------

\* What a thread in a call does next.
Step(t) ==
  \/ Borrow(t) \/ Wait(t) \/ Return(t)
  \/ RedisReplies(t) \/ RedisRefuses(t) \/ RedisBreaks(t) \/ RedisIsBroken(t)
  \/ MysqlQuery(t)

Next ==
  \/ ConnectMysql \/ EnsureSchema \/ ConnectRedis
  \/ \E k \in {"mysql", "redis"} : ConnectFails(k)
  \/ \E t \in Threads : Step(t) \/ SpuriousWakeup(t)
  \/ \E t \in IoThreads, op \in IoOps : IoCalls(t, op)
  \/ \E op \in redisOps : TimerCalls(op)

Spec == Init /\ [][Next]_vars

\* Every thread runs.
FairSpec == Spec /\ \A t \in Threads : WF_vars(Step(t))

-----------------------------------------------------------------------------
(***************************************************************************)
(* Properties.                                                             *)
(***************************************************************************)

holders(k, c) == {t \in Threads : thread[t].conn = c /\ client(thread[t].op) = k}

idleAt(k, c) == {i \in 1 .. Len(pool[k].idle) : pool[k].idle[i] = c}

\* Whatever fails in between, every connection that was made is in its pool once or
\* is held by one thread, never both and never neither: the Guard loses none, and no
\* two threads write to one context.
PoolConserved ==
  \A k \in {"redis", "mysql"}, c \in 1 .. PoolSize :
    Cardinality(holders(k, c)) + Cardinality(idleAt(k, c)) = IF c <= pool[k].made THEN 1 ELSE 0

\* A thread does not sleep beside a connection that is free: there are as many threads
\* on their way from notify_one as there are connections for them, even when threads
\* that never slept come first.
NoLostWakeup ==
  \A k \in {"redis", "mysql"} :
    pool[k].asleep # {} => Len(pool[k].idle) <= Cardinality(pool[k].woken)

\* Every call returns, whichever connections are broken, unless the allocator ends
\* the process.  That takes in the timer thread, which pops without a timeout what it
\* has only counted, on another connection and while players go on joining: it never
\* waits in Redis for good, where stop could not reach it.
AllServed == \A t \in Threads : []<>(thread[t].at = "idle" \/ phase = "aborted")

=============================================================================
