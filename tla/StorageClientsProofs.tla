------------------------ MODULE StorageClientsProofs ------------------------
(***************************************************************************)
(* Proofs about the storage clients and their connection pools, for any    *)
(* set of threads, any size of the pools and any number of calls and of    *)
(* connections that break.                                                 *)
(*                                                                         *)
(* PoolConserved counts, which induction over steps cannot use: PoolOwned  *)
(* says the same of single connections (the idle ones are distinct and are *)
(* just the ones made that no thread holds), and that a thread holds a     *)
(* connection only between its Borrow and its Return.  NoLostWakeup needs  *)
(* that a thread which notify_one picks was not woken already, that is,    *)
(* that asleep and woken are disjoint.                                     *)
(***************************************************************************)
EXTENDS StorageClients, FiniteSetTheorems, SequenceTheorems, TLAPS

Clients == {"redis", "mysql"}

Ops == redisOps \union mysqlOps

Phases == {"mysql", "schema", "redis", "serving", "failed", "aborted"}

Elems(s) == {s[i] : i \in 1 .. Len(s)}

Distinct(s) == \A i, j \in 1 .. Len(s) : s[i] = s[j] => i = j

-----------------------------------------------------------------------------
(***************************************************************************)
(* The invariant.                                                          *)
(***************************************************************************)

\* One client's pool_: its connections, each once, and the threads in cv_.wait.
IsPool(p) ==
  /\ p \in [idle : Seq(1 .. PoolSize), made : 0 .. PoolSize,
            asleep : SUBSET Threads, woken : SUBSET Threads]
  /\ Distinct(p.idle)
  /\ IsFiniteSet(p.woken)
  /\ p.asleep \cap p.woken = {}
  /\ p.asleep # {} => Len(p.idle) <= Cardinality(p.woken)

Types ==
  /\ phase \in Phases
  /\ pool = [k \in Clients |-> pool[k]]
  /\ thread \in [Threads -> [at : {"idle", "borrow", "command", "return"},
                             op : Ops \union {"none"}, conn : 0 .. PoolSize]]
  /\ queued \in Nat
  /\ todo \in Nat

Pools == \A k \in Clients : IsPool(pool[k])

\* A thread has a connection between its Borrow and its Return.
Guarded == \A t \in Threads : thread[t].conn # 0 <=> thread[t].at \in {"command", "return"}

holds(t, k, c) == thread[t].conn = c /\ client(thread[t].op) = k

\* A connection that was made is idle or held, and a held one has one holder.
PoolOwned ==
  \A k \in Clients, c \in 1 .. PoolSize :
    /\ c <= pool[k].made <=> c \in Elems(pool[k].idle) \/ \E t \in Threads : holds(t, k, c)
    /\ c \in Elems(pool[k].idle) => \A t \in Threads : ~ holds(t, k, c)
    /\ \A t, u \in Threads : holds(t, k, c) /\ holds(u, k, c) => t = u

\* While initStorage runs, or when it has failed, there is no call.
Starting ==
  /\ phase \notin {"serving", "aborted"} =>
       /\ \A t \in Threads : thread[t] = none
       /\ \A k \in Clients : pool[k].asleep = {}
  /\ phase \in Clients => pool[phase].made < PoolSize
  /\ phase = "schema" => pool["mysql"].made = PoolSize
  /\ phase \in {"mysql", "schema"} => pool["redis"].made = 0

\* tryMatch has counted the players that it is going to pop, and nobody else pops.
PopsQueued ==
  /\ todo <= queued
  /\ \A t \in Threads : thread[t].op \in {"llen", "brpop"} => t = Timer
  /\ thread[Timer].op = "llen" /\ thread[Timer].at \in {"borrow", "command"} => todo = 0
  /\ thread[Timer].op = "brpop" /\ thread[Timer].at \in {"borrow", "command"} => todo > 0

SInv == Types /\ Pools /\ Guarded /\ PoolOwned /\ Starting /\ PopsQueued

-----------------------------------------------------------------------------
(***************************************************************************)
(* pool_ as a sequence: taking the oldest connection and adding one.       *)
(***************************************************************************)

\* Taking the oldest of distinct connections takes it out.
LEMMA TailElems ==
  ASSUME NEW S, NEW s \in Seq(S), s # <<>>, Distinct(s)
  PROVE  /\ Elems(Tail(s)) = Elems(s) \ {Head(s)}
         /\ Distinct(Tail(s))
         /\ Head(s) \in Elems(s)
<1>1. /\ Len(s) \in Nat \ {0}
      /\ Tail(s) \in Seq(S)
      /\ Len(Tail(s)) = Len(s) - 1
      /\ \A i \in 1 .. Len(Tail(s)) : Tail(s)[i] = s[i + 1]
      /\ Head(s) = s[1]
  BY EmptySeq, HeadTailProperties
<1>2. Distinct(Tail(s))
  BY <1>1 DEF Distinct
<1>3. Head(s) \in Elems(s)
  BY <1>1 DEF Elems
<1>4. ASSUME NEW x \in Elems(Tail(s)) PROVE x \in Elems(s) \ {Head(s)}
  BY <1>1 DEF Elems, Distinct
<1>5. ASSUME NEW x \in Elems(s) \ {Head(s)} PROVE x \in Elems(Tail(s))
  <2>1. PICK i \in 1 .. Len(s) : x = s[i] /\ i # 1
    BY <1>1 DEF Elems
  <2>2. i - 1 \in 1 .. Len(Tail(s)) /\ Tail(s)[i - 1] = s[i]
    BY <1>1, <2>1
  <2> QED BY <2>1, <2>2 DEF Elems
<1> QED BY <1>2, <1>3, <1>4, <1>5

\* Adding a connection that is not there keeps them distinct.
LEMMA AppendElems ==
  ASSUME NEW S, NEW s \in Seq(S), Distinct(s), NEW c \in S, c \notin Elems(s)
  PROVE  /\ Elems(Append(s, c)) = Elems(s) \union {c}
         /\ Distinct(Append(s, c))
<1>1. /\ Len(s) \in Nat
      /\ Len(Append(s, c)) = Len(s) + 1
      /\ \A i \in 1 .. Len(s) : Append(s, c)[i] = s[i]
      /\ Append(s, c)[Len(s) + 1] = c
  BY AppendProperties, LenProperties
<1>2. \A i \in 1 .. Len(s) : s[i] # c
  BY DEF Elems
<1>3. Distinct(Append(s, c))
  BY <1>1, <1>2 DEF Distinct
<1>4. ASSUME NEW x \in Elems(s) \union {c} PROVE x \in Elems(Append(s, c))
  <2>1. CASE x = c
    BY <1>1, <2>1 DEF Elems
  <2>2. CASE x \in Elems(s)
    BY <1>1, <2>2 DEF Elems
  <2> QED BY <2>1, <2>2
<1>5. ASSUME NEW x \in Elems(Append(s, c)) PROVE x \in Elems(s) \union {c}
  BY <1>1 DEF Elems
<1> QED BY <1>3, <1>4, <1>5

-----------------------------------------------------------------------------
(***************************************************************************)
(* The pool's critical sections.                                           *)
(***************************************************************************)

\* A pool is the record of its fields.
LEMMA PoolFields ==
  ASSUME NEW p, IsPool(p)
  PROVE  p = [idle |-> p.idle, made |-> p.made, asleep |-> p.asleep, woken |-> p.woken]
<1>1. p \in [idle : Seq(1 .. PoolSize), made : 0 .. PoolSize,
             asleep : SUBSET Threads, woken : SUBSET Threads]
  BY DEF IsPool
<1> QED BY <1>1

\* An empty pool, as the constructor finds or leaves it.
LEMMA EmptyPool == IsPool(emptyPool) /\ Elems(emptyPool.idle) = {}
<1>1. <<>> \in Seq(1 .. PoolSize) /\ Len(<<>>) = 0
  BY EmptySeq
<1>2. Distinct(<<>>) /\ Elems(<<>>) = {}
  BY <1>1 DEF Distinct, Elems
<1> QED BY <1>1, <1>2, FS_EmptySet, StorageAssumption DEF IsPool, emptyPool

\* A round of the constructor's loop adds the next connection.
LEMMA MadePool ==
  ASSUME NEW p, IsPool(p), p.asleep = {}, p.made < PoolSize, p.made + 1 \notin Elems(p.idle)
  PROVE  /\ IsPool(made(p))
         /\ made(p).made = p.made + 1
         /\ made(p).asleep = {}
         /\ Elems(made(p).idle) = Elems(p.idle) \union {p.made + 1}
<1> DEFINE c == p.made + 1
<1>1. /\ c \in 1 .. PoolSize /\ c \notin Elems(p.idle)
      /\ p.idle \in Seq(1 .. PoolSize) /\ Distinct(p.idle)
  BY StorageAssumption DEF IsPool
<1>2. made(p) = [idle |-> Append(p.idle, c), made |-> c, asleep |-> p.asleep, woken |-> p.woken]
  <2> DEFINE i == Append(p.idle, c)
  <2>1. made(p) = [p EXCEPT !.idle = i, !.made = c]
    BY DEF made
  <2> HIDE DEF i, c
  <2>2. made(p) = [idle |-> i, made |-> c, asleep |-> p.asleep, woken |-> p.woken]
    BY <2>1, PoolFields
  <2> QED BY <2>2 DEF i
<1> HIDE DEF c
<1>3. /\ Elems(Append(p.idle, c)) = Elems(p.idle) \union {c}
      /\ Distinct(Append(p.idle, c))
      /\ Append(p.idle, c) \in Seq(1 .. PoolSize)
  <2>1. Elems(Append(p.idle, c)) = Elems(p.idle) \union {c} /\ Distinct(Append(p.idle, c))
    BY <1>1, AppendElems
  <2>2. Append(p.idle, c) \in Seq(1 .. PoolSize)
    BY <1>1, AppendProperties
  <2> QED BY <2>1, <2>2
<1>4. IsPool(made(p)) /\ made(p).made = c /\ made(p).asleep = {}
        /\ Elems(made(p).idle) = Elems(p.idle) \union {c}
  BY <1>1, <1>2, <1>3 DEF IsPool
<1> QED BY <1>4 DEF c

\* Whoever takes a connection is no longer on its way from notify_one.
LEMMA BorrowPool ==
  ASSUME NEW p, IsPool(p), NEW t \in Threads, p.idle # <<>>
  PROVE  /\ IsPool(borrow(p, t))
         /\ borrow(p, t).made = p.made
         /\ borrow(p, t).asleep = p.asleep
         /\ Elems(borrow(p, t).idle) = Elems(p.idle) \ {Head(p.idle)}
         /\ Head(p.idle) \in Elems(p.idle)
         /\ Head(p.idle) \in 1 .. PoolSize
<1>1. p.idle \in Seq(1 .. PoolSize) /\ Distinct(p.idle)
  BY DEF IsPool
<1>2. /\ Elems(Tail(p.idle)) = Elems(p.idle) \ {Head(p.idle)}
      /\ Distinct(Tail(p.idle))
      /\ Head(p.idle) \in Elems(p.idle)
  BY <1>1, TailElems
<1>3. /\ Tail(p.idle) \in Seq(1 .. PoolSize)
      /\ Len(Tail(p.idle)) = Len(p.idle) - 1
      /\ Head(p.idle) \in 1 .. PoolSize
      /\ Len(p.idle) \in Nat
  BY <1>1, HeadTailProperties, LenProperties
<1>4. /\ IsFiniteSet(p.woken \ {t})
      /\ Cardinality(p.woken \ {t}) >= Cardinality(p.woken) - 1
      /\ Cardinality(p.woken) \in Nat
      /\ Cardinality(p.woken \ {t}) \in Nat
  <2>1. IsFiniteSet(p.woken)
    BY DEF IsPool
  <2>2. /\ IsFiniteSet(p.woken \ {t})
        /\ Cardinality(p.woken \ {t}) =
             IF t \in p.woken THEN Cardinality(p.woken) - 1 ELSE Cardinality(p.woken)
    BY <2>1, FS_RemoveElement
  <2>3. Cardinality(p.woken) \in Nat /\ Cardinality(p.woken \ {t}) \in Nat
    BY <2>1, <2>2, FS_CardinalityType
  <2> QED BY <2>2, <2>3
<1>5. borrow(p, t) = [idle |-> Tail(p.idle), made |-> p.made, asleep |-> p.asleep, woken |-> p.woken \ {t}]
  <2> DEFINE i == Tail(p.idle)  w == p.woken \ {t}
  <2>1. borrow(p, t) = [p EXCEPT !.idle = i, !.woken = w]
    BY DEF borrow
  <2> HIDE DEF i, w
  <2>2. borrow(p, t) = [idle |-> i, made |-> p.made, asleep |-> p.asleep, woken |-> w]
    BY <2>1, PoolFields
  <2> QED BY <2>2 DEF i, w
<1>6. p.asleep # {} => Len(Tail(p.idle)) <= Cardinality(p.woken \ {t})
  <2> SUFFICES ASSUME p.asleep # {} PROVE Len(p.idle) - 1 <= Cardinality(p.woken \ {t})
    BY <1>3
  <2>1. Len(p.idle) <= Cardinality(p.woken)
    BY DEF IsPool
  <2> QED BY <2>1, <1>3, <1>4
<1> QED BY <1>2, <1>3, <1>4, <1>5, <1>6 DEF IsPool

\* Whoever goes to sleep leaves an empty queue behind.
LEMMA WaitPool ==
  ASSUME NEW p, IsPool(p), NEW t \in Threads, p.idle = <<>>
  PROVE  IsPool(wait(p, t)) /\ wait(p, t).idle = p.idle /\ wait(p, t).made = p.made
<1>1. wait(p, t) = [idle |-> p.idle, made |-> p.made, asleep |-> p.asleep \union {t}, woken |-> p.woken \ {t}]
  <2> DEFINE a == p.asleep \union {t}  w == p.woken \ {t}
  <2>1. wait(p, t) = [p EXCEPT !.asleep = a, !.woken = w]
    BY DEF wait
  <2> HIDE DEF a, w
  <2>2. wait(p, t) = [idle |-> p.idle, made |-> p.made, asleep |-> a, woken |-> w]
    BY <2>1, PoolFields
  <2> QED BY <2>2 DEF a, w
<1>2. IsFiniteSet(p.woken \ {t}) /\ Cardinality(p.woken \ {t}) \in Nat /\ Len(p.idle) = 0
  BY FS_RemoveElement, FS_CardinalityType, EmptySeq DEF IsPool
<1>3. Len(p.idle) <= Cardinality(p.woken \ {t})
  BY <1>2
<1> QED BY <1>1, <1>2, <1>3 DEF IsPool

\* A spurious wakeup leaves fewer asleep.
LEMMA SpuriousPool ==
  ASSUME NEW p, IsPool(p), NEW t \in Threads
  PROVE  IsPool(wakeSpuriously(p, t)) /\ wakeSpuriously(p, t).idle = p.idle
           /\ wakeSpuriously(p, t).made = p.made
<1>1. wakeSpuriously(p, t) =
        [idle |-> p.idle, made |-> p.made, asleep |-> p.asleep \ {t}, woken |-> p.woken]
  BY PoolFields DEF wakeSpuriously
<1> QED BY <1>1 DEF IsPool

\* The connection that comes back is matched by the thread that is notified.
LEMMA ReturnPool ==
  ASSUME NEW p, IsPool(p), NEW c \in 1 .. PoolSize, c \notin Elems(p.idle), NEW q \in returnConn(p, c)
  PROVE  IsPool(q) /\ q.made = p.made /\ Elems(q.idle) = Elems(p.idle) \union {c}
<1>1. p.idle \in Seq(1 .. PoolSize) /\ Distinct(p.idle)
  BY DEF IsPool
<1>2. /\ Elems(Append(p.idle, c)) = Elems(p.idle) \union {c}
      /\ Distinct(Append(p.idle, c))
      /\ Append(p.idle, c) \in Seq(1 .. PoolSize)
      /\ Len(Append(p.idle, c)) = Len(p.idle) + 1
      /\ Len(p.idle) \in Nat
  <2>1. Elems(Append(p.idle, c)) = Elems(p.idle) \union {c} /\ Distinct(Append(p.idle, c))
    BY <1>1, AppendElems
  <2>2. Append(p.idle, c) \in Seq(1 .. PoolSize) /\ Len(Append(p.idle, c)) = Len(p.idle) + 1
    BY <1>1, AppendProperties
  <2>3. Len(p.idle) \in Nat
    BY <1>1, LenProperties
  <2> QED BY <2>1, <2>2, <2>3
<1>3. CASE p.asleep = {}
  <2>1. q = [idle |-> Append(p.idle, c), made |-> p.made, asleep |-> p.asleep, woken |-> p.woken]
    BY <1>3, PoolFields DEF returnConn
  <2> QED BY <2>1, <1>2, <1>3 DEF IsPool
<1>4. CASE p.asleep # {}
  <2>1. PICK t \in p.asleep :
          q = [idle |-> Append(p.idle, c), made |-> p.made, asleep |-> p.asleep \ {t}, woken |-> p.woken \union {t}]
    BY <1>4, PoolFields DEF returnConn, notify
  <2>2. t \notin p.woken /\ t \in Threads
    BY DEF IsPool
  <2>3. /\ IsFiniteSet(p.woken \union {t})
        /\ Cardinality(p.woken \union {t}) = Cardinality(p.woken) + 1
        /\ Cardinality(p.woken) \in Nat
    BY <2>2, FS_AddElement, FS_CardinalityType DEF IsPool
  <2>4. Len(p.idle) <= Cardinality(p.woken)
    BY <1>4 DEF IsPool
  <2>5. Len(Append(p.idle, c)) <= Cardinality(p.woken \union {t})
    BY <2>3, <2>4, <1>2
  <2> QED BY <2>1, <2>2, <2>3, <2>5, <1>2 DEF IsPool
<1> QED BY <1>3, <1>4

-----------------------------------------------------------------------------
(***************************************************************************)
(* initStorage.                                                            *)
(***************************************************************************)

\* Before the first connection is made.
LEMMA InitSInv == Init => SInv
<1> SUFFICES ASSUME Init PROVE SInv
  OBVIOUS
<1>1. \A k \in Clients : pool[k] = emptyPool
  BY DEF Init, Clients
<1>2. \A t \in Threads : thread[t] = none
  BY DEF Init
<1>3. Types
  BY StorageAssumption DEF Init, Types, Phases, Clients, none
<1>4. Pools
  BY <1>1, EmptyPool DEF Pools
<1>5. Guarded /\ PopsQueued
  BY <1>2, StorageAssumption DEF Init, Guarded, PopsQueued, none, Threads
<1>6. PoolOwned
  BY <1>1, <1>2, EmptyPool DEF PoolOwned, holds, none, emptyPool
<1>7. Starting
  BY <1>1, <1>2, StorageAssumption DEF Init, Starting, emptyPool, Clients
<1> QED BY <1>3, <1>4, <1>5, <1>6, <1>7 DEF SInv

\* A round of a pool's constructor.
LEMMA ConnectSInv ==
  ASSUME SInv, NEW k \in Clients, NEW next, connect(k, next),
         next = IF k = "mysql" THEN "schema" ELSE "serving"
  PROVE  SInv'
<1>1. /\ IsPool(pool[k])
      /\ pool[k].asleep = {}
      /\ pool[k].made \in Nat
      /\ pool[k].made < PoolSize
      /\ \A t \in Threads : thread[t] = none
  BY DEF SInv, Pools, Starting, connect, Clients, IsPool
<1>2. pool[k].made + 1 \notin Elems(pool[k].idle)
  <2> SUFFICES ASSUME pool[k].made + 1 \in Elems(pool[k].idle) PROVE FALSE
    OBVIOUS
  <2>1. pool[k].made + 1 \in 1 .. PoolSize
    BY <1>1, StorageAssumption
  <2>2. \A c \in 1 .. PoolSize : c \in Elems(pool[k].idle) => c <= pool[k].made
    BY DEF SInv, PoolOwned
  <2>3. pool[k].made + 1 <= pool[k].made
    BY <2>1, <2>2
  <2> QED BY <2>3, <1>1
<1>3. /\ IsPool(made(pool[k]))
      /\ made(pool[k]).made = pool[k].made + 1
      /\ made(pool[k]).asleep = {}
      /\ Elems(made(pool[k]).idle) = Elems(pool[k].idle) \union {pool[k].made + 1}
  BY <1>1, <1>2, MadePool
<1>4. pool' = [pool EXCEPT ![k] = made(pool[k])] /\ UNCHANGED <<thread, queued, todo>> /\ phase = k
  BY DEF connect
<1>5. pool'[k] = made(pool[k]) /\ \A j \in Clients \ {k} : pool'[j] = pool[j]
  BY <1>4 DEF SInv, Types
<1>6. Types'
  BY <1>4 DEF SInv, Types, connect, Clients, Phases
<1>7. Pools'
  BY <1>3, <1>5 DEF SInv, Pools
<1>8. Guarded' /\ PopsQueued'
  BY <1>4 DEF SInv, Guarded, PopsQueued
<1>9. PoolOwned'
  <2> SUFFICES ASSUME NEW j \in Clients, NEW c \in 1 .. PoolSize
               PROVE  /\ c <= pool'[j].made <=> c \in Elems(pool'[j].idle) \/ \E t \in Threads : holds(t, j, c)'
                      /\ c \in Elems(pool'[j].idle) => \A t \in Threads : ~ holds(t, j, c)'
                      /\ \A t, u \in Threads : holds(t, j, c)' /\ holds(u, j, c)' => t = u
    BY DEF PoolOwned
  <2>1. \A t \in Threads : ~ holds(t, j, c) /\ ~ holds(t, j, c)'
    BY <1>1, <1>4 DEF holds, none
  <2>2. c <= pool[j].made <=> c \in Elems(pool[j].idle)
    BY <2>1 DEF SInv, PoolOwned
  <2>3. c <= pool'[j].made <=> c \in Elems(pool'[j].idle)
    <3>1. CASE j = k
      BY <3>1, <2>2, <1>1, <1>3, <1>5
    <3>2. CASE j # k
      BY <3>2, <2>2, <1>5
    <3> QED BY <3>1, <3>2
  <2> QED BY <2>1, <2>3
<1>10. Starting'
  <2>1. \A t \in Threads : thread'[t] = none
    BY <1>1, <1>4
  <2>2. \A j \in Clients : pool'[j].asleep = {}
    BY <1>3, <1>4, <1>5 DEF SInv, Starting, Clients
  <2>3. phase' = IF pool[k].made + 1 < PoolSize THEN phase ELSE next
    BY DEF connect
  <2>4. CASE k = "mysql"
    BY <1>1, <1>3, <1>4, <1>5, <2>1, <2>2, <2>3, <2>4, StorageAssumption DEF SInv, Starting, Clients
  <2>5. CASE k = "redis"
    BY <1>1, <1>3, <1>4, <1>5, <2>1, <2>2, <2>3, <2>5 DEF SInv, Starting, Clients
  <2> QED BY <2>4, <2>5 DEF Clients
<1> QED BY <1>6, <1>7, <1>8, <1>9, <1>10 DEF SInv

\* A pool whose constructor fails has nothing left.
LEMMA ConnectFailsSInv ==
  ASSUME SInv, NEW k \in Clients, ConnectFails(k)
  PROVE  SInv'
<1>1. \A t \in Threads : thread[t] = none
  BY DEF SInv, Starting, ConnectFails, Clients
<1>2. /\ pool' = [pool EXCEPT ![k] = emptyPool]
      /\ phase' = "failed"
      /\ phase = k
      /\ UNCHANGED <<thread, queued, todo>>
  BY DEF ConnectFails, creationFailed
<1>3. pool'[k] = emptyPool /\ \A j \in Clients \ {k} : pool'[j] = pool[j]
  BY <1>2 DEF SInv, Types
<1>4. Types'
  BY <1>2 DEF SInv, Types, Phases
<1>5. Pools'
  BY <1>3, EmptyPool DEF SInv, Pools
<1>6. Guarded' /\ PopsQueued'
  BY <1>2 DEF SInv, Guarded, PopsQueued
<1>7. PoolOwned'
  <2> SUFFICES ASSUME NEW j \in Clients, NEW c \in 1 .. PoolSize
               PROVE  /\ c <= pool'[j].made <=> c \in Elems(pool'[j].idle) \/ \E t \in Threads : holds(t, j, c)'
                      /\ c \in Elems(pool'[j].idle) => \A t \in Threads : ~ holds(t, j, c)'
                      /\ \A t, u \in Threads : holds(t, j, c)' /\ holds(u, j, c)' => t = u
    BY DEF PoolOwned
  <2>1. \A t \in Threads : ~ holds(t, j, c) /\ ~ holds(t, j, c)'
    BY <1>1, <1>2 DEF holds, none
  <2>2. c <= pool[j].made <=> c \in Elems(pool[j].idle)
    BY <2>1 DEF SInv, PoolOwned
  <2>3. CASE j = k
    BY <2>1, <2>3, <1>3, EmptyPool DEF emptyPool
  <2>4. CASE j # k
    BY <2>1, <2>2, <2>4, <1>3
  <2> QED BY <2>3, <2>4
<1>8. Starting'
  BY <1>1, <1>2, <1>3 DEF SInv, Starting, emptyPool, Clients
<1> QED BY <1>4, <1>5, <1>6, <1>7, <1>8 DEF SInv

\* A step that moves no connection between the pools and the threads.
LEMMA OwnedUnchanged ==
  ASSUME PoolOwned,
         \A k \in Clients : pool'[k].made = pool[k].made /\ Elems(pool'[k].idle) = Elems(pool[k].idle),
         \A t \in Threads, k \in Clients, c \in 1 .. PoolSize : holds(t, k, c)' <=> holds(t, k, c)
  PROVE  PoolOwned'
BY DEF PoolOwned

\* The schema is created on the oldest connection, which becomes the youngest.
LEMMA SchemaSInv ==
  ASSUME SInv, EnsureSchema
  PROVE  SInv'
<1> DEFINE p == pool["mysql"]
           i == Append(Tail(p.idle), Head(p.idle))
<1>1. /\ IsPool(p) /\ p.asleep = {} /\ p.made = PoolSize /\ phase = "schema"
      /\ \A t \in Threads : thread[t] = none
      /\ \A k \in Clients : pool[k].asleep = {}
      /\ pool["redis"].made = 0
  BY DEF SInv, Pools, Starting, EnsureSchema, Clients
<1>2. p.idle # <<>> /\ p.idle \in Seq(1 .. PoolSize) /\ Distinct(p.idle)
  <2>1. \A t \in Threads : ~ holds(t, "mysql", 1)
    BY <1>1 DEF holds, none
  <2>2. 1 \in 1 .. PoolSize /\ 1 <= p.made
    BY <1>1, StorageAssumption
  <2>3. 1 \in Elems(p.idle)
    BY <2>1, <2>2 DEF SInv, PoolOwned, Clients
  <2>4. p.idle # <<>>
    BY <2>3, EmptySeq DEF Elems
  <2> QED BY <2>4, <1>1 DEF IsPool
<1>3. /\ Elems(Tail(p.idle)) = Elems(p.idle) \ {Head(p.idle)}
      /\ Distinct(Tail(p.idle))
      /\ Head(p.idle) \in Elems(p.idle)
      /\ Head(p.idle) \in 1 .. PoolSize
      /\ Tail(p.idle) \in Seq(1 .. PoolSize)
  BY <1>2, TailElems, HeadTailProperties
<1>4. Elems(i) = Elems(p.idle) /\ Distinct(i)
  <2>1. Elems(i) = Elems(Tail(p.idle)) \union {Head(p.idle)} /\ Distinct(i)
    BY <1>3, AppendElems
  <2> QED BY <2>1, <1>3
<1>5. i \in Seq(1 .. PoolSize)
  BY <1>3, AppendProperties
<1>6. /\ pool' = [pool EXCEPT !["mysql"].idle = i]
      /\ phase' = "redis"
      /\ UNCHANGED <<thread, queued, todo>>
  BY DEF EnsureSchema
<1> HIDE DEF i
<1>7. /\ pool'["mysql"] = [idle |-> i, made |-> p.made, asleep |-> p.asleep, woken |-> p.woken]
      /\ pool'["redis"] = pool["redis"]
      /\ pool' = [k \in Clients |-> pool'[k]]
  <2>1. p = [idle |-> p.idle, made |-> p.made, asleep |-> p.asleep, woken |-> p.woken]
    BY <1>1, PoolFields
  <2>2. pool' = [pool EXCEPT !["mysql"] = [p EXCEPT !.idle = i]]
    BY <1>6
  <2>3. [p EXCEPT !.idle = i] = [idle |-> i, made |-> p.made, asleep |-> p.asleep, woken |-> p.woken]
    BY <2>1
  <2> HIDE DEF p
  <2> QED BY <2>2, <2>3 DEF SInv, Types, Clients
<1>8. Types'
  BY <1>6, <1>7 DEF SInv, Types, Phases
<1>9. Pools'
  <2>1. IsPool(pool'["mysql"])
    BY <1>1, <1>4, <1>5, <1>7 DEF IsPool
  <2> QED BY <2>1, <1>7 DEF SInv, Pools, Clients
<1>10. PoolOwned'
  <2>1. \A k \in Clients : pool'[k].made = pool[k].made /\ Elems(pool'[k].idle) = Elems(pool[k].idle)
    BY <1>4, <1>7 DEF Clients
  <2>2. \A t \in Threads, k \in Clients, c \in 1 .. PoolSize : holds(t, k, c)' <=> holds(t, k, c)
    BY <1>6 DEF holds
  <2> QED BY <2>1, <2>2, OwnedUnchanged DEF SInv
<1>11. Starting'
  BY <1>1, <1>6, <1>7, StorageAssumption DEF Starting, Clients
<1> QED BY <1>6, <1>8, <1>9, <1>10, <1>11 DEF SInv, Guarded, PopsQueued

-----------------------------------------------------------------------------
(***************************************************************************)
(* Calls.                                                                  *)
(***************************************************************************)

\* A thread that calls a method has no connection yet.
LEMMA BeginSInv ==
  ASSUME SInv, NEW t \in Threads, NEW op \in Ops, begin(t, op),
         op \in {"llen", "brpop"} => t = Timer,
         op = "llen" => todo = 0,
         op = "brpop" => todo > 0
  PROVE  SInv'
<1> DEFINE c == [at |-> "borrow", op |-> op, conn |-> 0]
<1>1. /\ thread' = [thread EXCEPT ![t] = c]
      /\ UNCHANGED <<phase, pool, queued, todo>>
      /\ phase = "serving"
      /\ thread[t].at = "idle"
  BY DEF begin
<1>2. thread'[t] = c /\ \A u \in Threads \ {t} : thread'[u] = thread[u]
  BY <1>1 DEF SInv, Types
<1>3. Types'
  <2>1. c \in [at : {"idle", "borrow", "command", "return"}, op : Ops \union {"none"}, conn : 0 .. PoolSize]
    BY StorageAssumption
  <2> HIDE DEF c
  <2> QED BY <1>1, <2>1 DEF SInv, Types
<1>4. Pools' /\ Starting'
  BY <1>1 DEF SInv, Pools, Starting, IsPool, Clients
<1>5. Guarded'
  BY <1>2 DEF SInv, Guarded
<1>6. PoolOwned'
  <2>1. \A k \in Clients : pool'[k].made = pool[k].made /\ Elems(pool'[k].idle) = Elems(pool[k].idle)
    BY <1>1
  <2>2. \A u \in Threads, k \in Clients, d \in 1 .. PoolSize : holds(u, k, d)' <=> holds(u, k, d)
    BY <1>1, <1>2 DEF holds, SInv, Guarded
  <2> QED BY <2>1, <2>2, OwnedUnchanged DEF SInv
<1>7. PopsQueued'
  BY <1>1, <1>2 DEF SInv, PopsQueued, Threads
<1> QED BY <1>3, <1>4, <1>5, <1>6, <1>7 DEF SInv

\* The fields of a thread's call that a step at t may use.
LEMMA ThreadFields ==
  ASSUME SInv, NEW t \in Threads
  PROVE  /\ client(thread[t].op) \in Clients
         /\ thread[t].conn \in 0 .. PoolSize
         /\ IsPool(pool[client(thread[t].op)])
BY DEF SInv, Types, Pools, client, Clients

\* A step of t that changes one client's pool and none of the rest but t's call.
LEMMA PoolStepTypes ==
  ASSUME SInv, NEW k \in Clients, NEW p, IsPool(p), pool' = [pool EXCEPT ![k] = p],
         phase = "serving", UNCHANGED <<phase, queued, todo>>
  PROVE  /\ pool'[k] = p
         /\ \A j \in Clients \ {k} : pool'[j] = pool[j]
         /\ pool' = [j \in Clients |-> pool'[j]]
         /\ Pools'
         /\ Starting'
<1>1. /\ pool'[k] = p
      /\ \A j \in Clients \ {k} : pool'[j] = pool[j]
      /\ pool' = [j \in Clients |-> pool'[j]]
  BY DEF SInv, Types
<1>2. Pools'
  BY <1>1 DEF SInv, Pools
<1>3. Starting'
  BY DEF Starting, Clients
<1> QED BY <1>1, <1>2, <1>3

\* The connection goes from the pool to the thread.
LEMMA BorrowSInv ==
  ASSUME SInv, NEW t \in Threads, Borrow(t)
  PROVE  SInv'
<1> DEFINE k == client(thread[t].op)
           h == Head(pool[k].idle)
<1>1. /\ phase = "serving" /\ thread[t].at = "borrow"
      /\ pool[k].idle # <<>>
      /\ pool' = [pool EXCEPT ![k] = borrow(pool[k], t)]
      /\ thread' = [thread EXCEPT ![t].at = "command", ![t].conn = h]
      /\ UNCHANGED <<phase, queued, todo>>
  BY DEF Borrow, borrowing, canBorrow
<1>2. k \in Clients /\ IsPool(pool[k])
  BY ThreadFields
<1> HIDE DEF k
<1>3. /\ IsPool(borrow(pool[k], t))
      /\ borrow(pool[k], t).made = pool[k].made
      /\ Elems(borrow(pool[k], t).idle) = Elems(pool[k].idle) \ {h}
      /\ h \in Elems(pool[k].idle)
      /\ h \in 1 .. PoolSize
  BY <1>1, <1>2, BorrowPool
<1> HIDE DEF h
<1>4. /\ pool'[k] = borrow(pool[k], t)
      /\ \A j \in Clients \ {k} : pool'[j] = pool[j]
      /\ pool' = [j \in Clients |-> pool'[j]]
      /\ Pools'
      /\ Starting'
  BY <1>1, <1>2, <1>3, PoolStepTypes
<1>5. /\ thread'[t].at = "command" /\ thread'[t].op = thread[t].op /\ thread'[t].conn = h
      /\ \A u \in Threads \ {t} : thread'[u] = thread[u]
      /\ thread' \in [Threads -> [at : {"idle", "borrow", "command", "return"},
                                  op : Ops \union {"none"}, conn : 0 .. PoolSize]]
  <2> DEFINE Call == [at : {"idle", "borrow", "command", "return"}, op : Ops \union {"none"}, conn : 0 .. PoolSize]
             r == [at |-> "command", op |-> thread[t].op, conn |-> h]
  <2>1. thread[t] \in Call
    BY DEF SInv, Types
  <2>2. thread' = [thread EXCEPT ![t] = [thread[t] EXCEPT !.at = "command", !.conn = h]]
    BY <1>1 DEF SInv, Types
  <2>3. [thread[t] EXCEPT !.at = "command", !.conn = h] = r
    <3> DEFINE c == thread[t]  a == "command"
    <3>1. c = [at |-> c.at, op |-> c.op, conn |-> c.conn]
      BY <2>1
    <3> HIDE DEF c, a
    <3>2. PICK d : d = [c EXCEPT !.at = a, !.conn = h]
      OBVIOUS
    <3>3. d = [at |-> a, op |-> c.op, conn |-> h]
      BY <3>1, <3>2
    <3> QED BY <3>2, <3>3 DEF c, a
  <2>4. r \in Call
    BY <2>1, <1>3, StorageAssumption
  <2>5. thread' = [thread EXCEPT ![t] = r] /\ thread \in [Threads -> Call]
    BY <2>2, <2>3 DEF SInv, Types
  <2>6. r.at = "command" /\ r.op = thread[t].op /\ r.conn = h
    OBVIOUS
  <2> HIDE DEF r, Call
  <2>7. thread' \in [Threads -> Call] /\ thread'[t] = r /\ \A u \in Threads \ {t} : thread'[u] = thread[u]
    BY <2>4, <2>5
  <2> QED BY <2>6, <2>7 DEF Call
<1>6. Types'
  BY <1>1, <1>4, <1>5 DEF SInv, Types
<1>7. Guarded'
  BY <1>3, <1>5 DEF SInv, Guarded
<1>8. PoolOwned'
  <2> SUFFICES ASSUME NEW j \in Clients, NEW c \in 1 .. PoolSize
               PROVE  /\ c <= pool'[j].made <=> c \in Elems(pool'[j].idle) \/ \E u \in Threads : holds(u, j, c)'
                      /\ c \in Elems(pool'[j].idle) => \A u \in Threads : ~ holds(u, j, c)'
                      /\ \A u, v \in Threads : holds(u, j, c)' /\ holds(v, j, c)' => u = v
    BY DEF PoolOwned
  <2>1. /\ c <= pool[j].made <=> c \in Elems(pool[j].idle) \/ \E u \in Threads : holds(u, j, c)
        /\ c \in Elems(pool[j].idle) => \A u \in Threads : ~ holds(u, j, c)
        /\ \A u, v \in Threads : holds(u, j, c) /\ holds(v, j, c) => u = v
    BY DEF SInv, PoolOwned
  <2>2. /\ \A u \in Threads \ {t} : holds(u, j, c)' <=> holds(u, j, c)
        /\ ~ holds(t, j, c)
        /\ holds(t, j, c)' <=> j = k /\ c = h
    BY <1>1, <1>5 DEF holds, SInv, Guarded, k
  <2>3. pool'[j].made = pool[j].made
    BY <1>3, <1>4
  <2>4. c \in Elems(pool'[j].idle) <=> c \in Elems(pool[j].idle) /\ ~ (j = k /\ c = h)
    BY <1>3, <1>4
  <2> QED BY <2>1, <2>2, <2>3, <2>4, <1>3
<1>9. PopsQueued'
  BY <1>1, <1>5 DEF SInv, PopsQueued, Threads
<1> QED BY <1>4, <1>6, <1>7, <1>8, <1>9 DEF SInv

\* A thread that sleeps or wakes up takes no connection with it.
LEMMA SleepSInv ==
  ASSUME SInv, NEW t \in Threads, Wait(t) \/ SpuriousWakeup(t)
  PROVE  SInv'
<1> DEFINE k == client(thread[t].op)
<1>1. k \in Clients /\ IsPool(pool[k])
  BY ThreadFields
<1>2. PICK p : /\ pool' = [pool EXCEPT ![k] = p]
               /\ \/ pool[k].idle = <<>> /\ p = wait(pool[k], t)
                  \/ p = wakeSpuriously(pool[k], t)
  <2>1. CASE Wait(t)
    <3>1. pool[k].idle = <<>> /\ pool' = [pool EXCEPT ![k] = wait(pool[k], t)]
      BY <2>1 DEF Wait, mustWait
    <3> QED BY <3>1
  <2>2. CASE SpuriousWakeup(t)
    <3>1. pool' = [pool EXCEPT ![k] = wakeSpuriously(pool[k], t)]
      BY <2>2 DEF SpuriousWakeup
    <3> QED BY <3>1
  <2> QED BY <2>1, <2>2
<1>3. UNCHANGED <<phase, queued, thread, todo>> /\ phase = "serving"
  BY DEF Wait, SpuriousWakeup, borrowing
<1> HIDE DEF k
<1>4. IsPool(p) /\ p.idle = pool[k].idle /\ p.made = pool[k].made
  BY <1>1, <1>2, WaitPool, SpuriousPool
<1>5. /\ pool'[k] = p
      /\ \A j \in Clients \ {k} : pool'[j] = pool[j]
      /\ pool' = [j \in Clients |-> pool'[j]]
      /\ Pools'
      /\ Starting'
  BY <1>1, <1>2, <1>3, <1>4, PoolStepTypes
<1>6. PoolOwned'
  <2>1. \A j \in Clients : pool'[j].made = pool[j].made /\ Elems(pool'[j].idle) = Elems(pool[j].idle)
    BY <1>4, <1>5
  <2>2. \A u \in Threads, j \in Clients, c \in 1 .. PoolSize : holds(u, j, c)' <=> holds(u, j, c)
    BY <1>3 DEF holds
  <2> QED BY <2>1, <2>2, OwnedUnchanged DEF SInv
<1> QED BY <1>3, <1>5, <1>6 DEF SInv, Types, Guarded, PopsQueued

\* The connection goes back to the pool.
LEMMA ReturnSInv ==
  ASSUME SInv, NEW t \in Threads, Return(t)
  PROVE  SInv'
<1> DEFINE k == client(thread[t].op)
           h == thread[t].conn
<1>1. /\ phase = "serving" /\ thread[t].at = "return"
      /\ thread' = [thread EXCEPT ![t] = none]
      /\ UNCHANGED <<phase, queued, todo>>
  BY DEF Return
<1>2. PICK p \in returnConn(pool[k], h) : pool' = [pool EXCEPT ![k] = p]
  BY DEF Return
<1>3. k \in Clients /\ IsPool(pool[k]) /\ h \in 1 .. PoolSize
  BY <1>1, ThreadFields, StorageAssumption DEF SInv, Guarded
<1>4. \A j \in Clients, c \in 1 .. PoolSize : holds(t, j, c) <=> j = k /\ c = h
  BY DEF holds
<1> HIDE DEF k, h
<1>5. h \notin Elems(pool[k].idle)
  BY <1>3, <1>4 DEF SInv, PoolOwned
<1>6. IsPool(p) /\ p.made = pool[k].made /\ Elems(p.idle) = Elems(pool[k].idle) \union {h}
  BY <1>2, <1>3, <1>5, ReturnPool
<1>7. /\ pool'[k] = p
      /\ \A j \in Clients \ {k} : pool'[j] = pool[j]
      /\ pool' = [j \in Clients |-> pool'[j]]
      /\ Pools'
      /\ Starting'
  BY <1>1, <1>2, <1>3, <1>6, PoolStepTypes
<1>8. thread'[t] = none /\ \A u \in Threads \ {t} : thread'[u] = thread[u]
  BY <1>1 DEF SInv, Types
<1>9. Types'
  BY <1>1, <1>7, StorageAssumption DEF SInv, Types, none
<1>10. Guarded'
  BY <1>8 DEF SInv, Guarded, none
<1>11. PoolOwned'
  <2> SUFFICES ASSUME NEW j \in Clients, NEW c \in 1 .. PoolSize
               PROVE  /\ c <= pool'[j].made <=> c \in Elems(pool'[j].idle) \/ \E u \in Threads : holds(u, j, c)'
                      /\ c \in Elems(pool'[j].idle) => \A u \in Threads : ~ holds(u, j, c)'
                      /\ \A u, v \in Threads : holds(u, j, c)' /\ holds(v, j, c)' => u = v
    BY DEF PoolOwned
  <2>1. /\ c <= pool[j].made <=> c \in Elems(pool[j].idle) \/ \E u \in Threads : holds(u, j, c)
        /\ c \in Elems(pool[j].idle) => \A u \in Threads : ~ holds(u, j, c)
        /\ \A u, v \in Threads : holds(u, j, c) /\ holds(v, j, c) => u = v
    BY DEF SInv, PoolOwned
  <2>2. /\ \A u \in Threads \ {t} : holds(u, j, c)' <=> holds(u, j, c)
        /\ ~ holds(t, j, c)'
    BY <1>8 DEF holds, none
  <2>3. pool'[j].made = pool[j].made
    BY <1>6, <1>7
  <2>4. c \in Elems(pool'[j].idle) <=> c \in Elems(pool[j].idle) \/ (j = k /\ c = h)
    BY <1>3, <1>6, <1>7
  <2> QED BY <2>1, <2>2, <2>3, <2>4, <1>4
<1>12. PopsQueued'
  BY <1>1, <1>8 DEF SInv, PopsQueued, none, Threads
<1> QED BY <1>7, <1>9, <1>10, <1>11, <1>12 DEF SInv

\* A command moves no connection, whatever comes of it, and leaves tryMatch no more
\* pops than there are players.
LEMMA CommandSInv ==
  ASSUME SInv, NEW t \in Threads, thread[t].at = "command", replied(t), UNCHANGED pool,
         phase = "serving", phase' \in {"serving", "aborted"},
         queued' \in Nat, todo' \in Nat, todo' <= queued',
         t # Timer => todo' = todo
  PROVE  SInv'
<1>1. thread' = [thread EXCEPT ![t].at = "return"]
  BY DEF replied
<1>2. /\ thread'[t].at = "return" /\ thread'[t].op = thread[t].op /\ thread'[t].conn = thread[t].conn
      /\ \A u \in Threads \ {t} : thread'[u] = thread[u]
  BY <1>1 DEF SInv, Types
<1>3. Types'
  BY <1>1 DEF SInv, Types, Phases
<1>4. Pools' /\ Starting'
  BY DEF SInv, Pools, Starting, IsPool, Clients
<1>5. Guarded'
  BY <1>2 DEF SInv, Guarded
<1>6. PoolOwned'
  <2>1. \A k \in Clients : pool'[k].made = pool[k].made /\ Elems(pool'[k].idle) = Elems(pool[k].idle)
    OBVIOUS
  <2>2. \A u \in Threads, k \in Clients, d \in 1 .. PoolSize : holds(u, k, d)' <=> holds(u, k, d)
    BY <1>2 DEF holds
  <2> QED BY <2>1, <2>2, OwnedUnchanged DEF SInv
<1>7. PopsQueued'
  BY <1>2 DEF SInv, PopsQueued, Threads
<1> QED BY <1>3, <1>4, <1>5, <1>6, <1>7 DEF SInv

\* What a Redis command does to the queue, and tryMatch to its pops.
LEMMA CommandPops ==
  ASSUME SInv, NEW t \in Threads, thread[t].at = "command", NEW op, op = thread[t].op
  PROVE  /\ carriesOut(op) => lengthAfter(op) \in Nat /\ popsAfter(op, TRUE) <= lengthAfter(op)
         /\ popsAfter(op, TRUE) \in Nat
         /\ popsAfter(op, FALSE) \in Nat
         /\ popsAfter(op, FALSE) <= queued
         /\ carriesOut(op) => popsAfter(op, FALSE) <= lengthAfter(op)
         /\ t # Timer => popsAfter(op, TRUE) = todo /\ popsAfter(op, FALSE) = todo
<1>1. /\ queued \in Nat /\ todo \in Nat /\ todo <= queued
      /\ op \in {"llen", "brpop"} => t = Timer
      /\ op = "brpop" => todo > 0
      /\ RoomSize \in Nat
  BY StorageAssumption DEF SInv, Types, PopsQueued
<1>2. CASE op = "llen"
  BY <1>1, <1>2 DEF carriesOut, lengthAfter, popsAfter
<1>3. CASE op = "brpop"
  BY <1>1, <1>3 DEF carriesOut, lengthAfter, popsAfter
<1>4. CASE op = "lpush"
  BY <1>1, <1>4 DEF carriesOut, lengthAfter, popsAfter
<1>5. CASE op \notin {"llen", "brpop", "lpush"}
  BY <1>1, <1>5 DEF carriesOut, lengthAfter, popsAfter
<1> QED BY <1>2, <1>3, <1>4, <1>5

\* Every outcome of a command.
LEMMA CommandsSInv ==
  ASSUME SInv, NEW t \in Threads,
         RedisReplies(t) \/ RedisRefuses(t) \/ RedisBreaks(t) \/ RedisIsBroken(t) \/ MysqlQuery(t)
  PROVE  SInv'
<1>1. /\ thread[t].at = "command" /\ replied(t) /\ UNCHANGED pool
      /\ phase = "serving" /\ phase' \in {"serving", "aborted"}
  BY DEF RedisReplies, RedisRefuses, RedisBreaks, RedisIsBroken, MysqlQuery, commanding
<1>2. queued \in Nat /\ todo \in Nat /\ todo <= queued
  BY DEF SInv, Types, PopsQueued
<1>3. /\ queued' \in Nat /\ todo' \in Nat /\ todo' <= queued'
      /\ t # Timer => todo' = todo
  <2>1. CASE RedisReplies(t)
    BY <1>1, <2>1, CommandPops DEF RedisReplies
  <2>2. CASE RedisRefuses(t)
    BY <1>1, <1>2, <2>2, CommandPops DEF RedisRefuses
  <2>3. CASE RedisBreaks(t)
    BY <1>1, <1>2, <2>3, CommandPops DEF RedisBreaks
  <2>4. CASE RedisIsBroken(t)
    BY <1>1, <1>2, <2>4, CommandPops DEF RedisIsBroken
  <2>5. CASE MysqlQuery(t)
    BY <1>2, <2>5 DEF MysqlQuery
  <2> QED BY <2>1, <2>2, <2>3, <2>4, <2>5
<1> QED BY <1>1, <1>3, CommandSInv

\* The invariant is inductive: one case per action.
LEMMA NextSInv == SInv /\ [Next]_vars => SInv'
<1> SUFFICES ASSUME SInv, [Next]_vars PROVE SInv'
  OBVIOUS
<1>1. CASE ConnectMysql
  BY <1>1, ConnectSInv DEF ConnectMysql, Clients
<1>2. CASE ConnectRedis
  BY <1>2, ConnectSInv DEF ConnectRedis, Clients
<1>3. CASE EnsureSchema
  BY <1>3, SchemaSInv
<1>4. CASE \E k \in {"mysql", "redis"} : ConnectFails(k)
  BY <1>4, ConnectFailsSInv DEF Clients
<1>5. ASSUME NEW t \in Threads, Step(t) \/ SpuriousWakeup(t) PROVE SInv'
  BY <1>5, BorrowSInv, SleepSInv, ReturnSInv, CommandsSInv DEF Step
<1>6. ASSUME NEW t \in IoThreads, NEW op \in IoOps, IoCalls(t, op) PROVE SInv'
  <2>1. t \in Threads /\ op \in Ops /\ op \notin {"llen", "brpop"}
    BY StorageAssumption DEF Threads, Ops
  <2> QED BY <1>6, <2>1, BeginSInv DEF IoCalls
<1>7. ASSUME NEW op \in redisOps, TimerCalls(op) PROVE SInv'
  <2>1. Timer \in Threads /\ op \in Ops
    BY DEF Threads, Ops
  <2>2. op = "llen" => todo = 0
    BY <1>7 DEF TimerCalls
  <2>3. op = "brpop" => todo > 0
    BY <1>7 DEF TimerCalls, SInv, Types
  <2> QED BY <1>7, <2>1, <2>2, <2>3, BeginSInv DEF TimerCalls
<1>8. CASE UNCHANGED vars
  <2>1. /\ UNCHANGED <<phase, pool, queued, thread, todo>>
    BY <1>8 DEF vars
  <2>2. PoolOwned'
    BY <2>1 DEF SInv, PoolOwned, holds
  <2> QED BY <2>1, <2>2 DEF SInv, Types, Pools, Guarded, Starting, PopsQueued
<1> QED BY <1>1, <1>2, <1>3, <1>4, <1>5, <1>6, <1>7, <1>8 DEF Next

-----------------------------------------------------------------------------
(***************************************************************************)
(* The theorems.                                                           *)
(***************************************************************************)

\* SInv holds throughout, for any threads and any pool of two connections or more.
THEOREM StorageInvariance == Spec => []SInv
BY InitSInv, NextSInv, PTL DEF Spec

\* What holds of single connections holds of the numbers PoolConserved counts.
LEMMA CountOne ==
  ASSUME NEW S
  PROVE  /\ S = {} => Cardinality(S) = 0
         /\ (\E x : S = {x}) => Cardinality(S) = 1
BY FS_EmptySet, FS_Singleton

\* ConnectionPool::Guard loses no connection and lends none twice, whichever
\* commands fail and whichever connections break: each one is idle once or held by
\* one thread.
THEOREM ConnectionsConserved == Spec => []PoolConserved
<1>1. SInv => PoolConserved
  <2> SUFFICES ASSUME SInv, NEW k \in Clients, NEW c \in 1 .. PoolSize
               PROVE  Cardinality(holders(k, c)) + Cardinality(idleAt(k, c)) =
                        IF c <= pool[k].made THEN 1 ELSE 0
    BY DEF PoolConserved, Clients
  <2> DEFINE H == holders(k, c)  I == idleAt(k, c)
  <2>1. /\ c <= pool[k].made <=> c \in Elems(pool[k].idle) \/ \E t \in Threads : holds(t, k, c)
        /\ c \in Elems(pool[k].idle) => \A t \in Threads : ~ holds(t, k, c)
        /\ \A t, u \in Threads : holds(t, k, c) /\ holds(u, k, c) => t = u
    BY DEF SInv, PoolOwned
  <2>2. H = {t \in Threads : holds(t, k, c)}
    BY DEF holders, holds
  <2>3. /\ c \notin Elems(pool[k].idle) => I = {}
        /\ c \in Elems(pool[k].idle) => \E i : I = {i}
    <3>1. Distinct(pool[k].idle)
      BY DEF SInv, Pools, IsPool
    <3> QED BY <3>1 DEF Distinct, Elems, idleAt
  <2>4. CASE c > pool[k].made
    <3>1. H = {} /\ I = {} /\ ~ (c <= pool[k].made)
      BY <2>1, <2>2, <2>3, <2>4 DEF SInv, Pools, IsPool
    <3> QED BY <3>1, CountOne
  <2>5. CASE c \in Elems(pool[k].idle)
    <3>1. H = {} /\ (\E i : I = {i}) /\ c <= pool[k].made
      BY <2>1, <2>2, <2>3, <2>5
    <3>2. Cardinality(H) = 0 /\ Cardinality(I) = 1
      BY <3>1, CountOne
    <3> QED BY <3>1, <3>2
  <2>6. CASE c <= pool[k].made /\ c \notin Elems(pool[k].idle)
    <3>1. (\E t : H = {t}) /\ I = {}
      BY <2>1, <2>2, <2>3, <2>6
    <3>2. Cardinality(H) = 1 /\ Cardinality(I) = 0
      BY <3>1, CountOne
    <3> QED BY <3>2, <2>6
  <2>7. c > pool[k].made \/ c <= pool[k].made
    BY DEF SInv, Pools, IsPool
  <2> QED BY <2>4, <2>5, <2>6, <2>7
<1> QED BY <1>1, StorageInvariance, PTL

\* A thread never sleeps in cv_.wait beside a free connection that nobody who was
\* notified is on its way to.
THEOREM WakeupsArrive == Spec => []NoLostWakeup
<1>1. SInv => NoLostWakeup
  BY DEF SInv, Pools, IsPool, NoLostWakeup, Clients
<1> QED BY <1>1, StorageInvariance, PTL

\* tryMatch's BRPOP, which has no timeout and which stop could not interrupt, always
\* finds an element: the timer thread pops no more than it has counted, and nobody
\* else pops.
BrpopNeverWaits ==
  \A t \in Threads :
    thread[t].op = "brpop" /\ thread[t].at = "command" => t = Timer /\ carriesOut("brpop")

\* The timer thread never waits in Redis for an element.
THEOREM PopsFindPlayers == Spec => []BrpopNeverWaits
<1>1. SInv => BrpopNeverWaits
  BY DEF SInv, Types, PopsQueued, BrpopNeverWaits, carriesOut
<1> QED BY <1>1, StorageInvariance, PTL

=============================================================================
