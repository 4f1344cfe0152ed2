----------------------------- MODULE EventLoop -----------------------------
(***************************************************************************)
(* EventLoop with the Connections it owns (src/network/event_loop.cpp,     *)
(* connection.cpp), its TimerWheel, and the routes GameServer keeps to it  *)
(* (conn_to_loop_ in src/game/game_server.cpp).                            *)
(*                                                                         *)
(* One thread runs the loop: epoll_wait, drainPendingWrites, drainPending, *)
(* handleEvents, checkTimeouts, cleanupClosed.  A step is one turn of one  *)
(* of their loops.  The acceptor and the threads that send a response      *)
(* reach it through two queues; peers and the clock act at any time.       *)
(*                                                                         *)
(* A connection's output is counted in pieces, ResponseSize for a          *)
(* response, so that a write may stop inside one; its input in what one    *)
(* read may deliver.  A decode error is not skipped, so the loop over the  *)
(* buffer meets it again until the connection is banned: bad input bans at *)
(* once and for good.  A descriptor is its connection's id, closed when    *)
(* the connection is erased.  A write to a connection that the peer has    *)
(* reset returns an error.  Idle time counts from the moment the loop      *)
(* takes a connection over.  rateLimitExceeded is never called.            *)
(***************************************************************************)
EXTENDS TimerWheel

CONSTANTS
  ResponseSize,  \* in pieces
  SendQueueMax,  \* 256 KiB, in pieces
  TimeoutLimit,  \* timeout_ms_, 15000, in units of time
  MaxInputs,     \* bounds on what the peers send
  MaxResponses   \* and on the responses

ASSUME LoopAssumption ==
  /\ ResponseSize \in Nat \ {0}
  /\ SendQueueMax \in Nat
  /\ TimeoutLimit \in Nat
  /\ MaxInputs \in Nat
  /\ MaxResponses \in Nat

VARIABLES
  born,      \* the number of connections accepted so far
  accepted,  \* pending_conns_
  writes,    \* pending_writes_, by connection
  conns,     \* conns_
  wheel,     \* timer_wheel_
  routes,    \* conn_to_loop_
  kernel,    \* the sockets and the epoll set
  loop,      \* where the thread stands, and what its loop has still to visit
  calls,     \* history: how often the disconnect callback ran for a connection
  used       \* number of inputs and of responses so far

vars == <<born, accepted, writes, conns, wheel, routes, kernel, loop, calls, used>>

-----------------------------------------------------------------------------
(***************************************************************************)
(* The kernel: sockets and epoll.                                          *)
(***************************************************************************)

Socket == [inbox : Seq({"good", "bad"}),       \* received and not read
           end : {"open", "fin", "reset"},     \* what the peer has done last
           full : BOOLEAN,                     \* the send buffer is full
           out : BOOLEAN,                      \* EPOLLOUT is asked for
           et : BOOLEAN,                       \* EPOLLET
           woken : BOOLEAN]                    \* news since the last report

newSocket == [inbox |-> <<>>, end |-> "open", full |-> FALSE,
              out |-> FALSE, et |-> FALSE, woken |-> FALSE]

readable(k) == k.inbox # <<>> \/ k.end # "open"

writable(k) == ~k.full \/ k.end = "reset"

\* What epoll_wait reports of a socket.  With EPOLLET it reports only after news.
report(k) ==
  IF k.et /\ ~k.woken THEN {}
  ELSE {e \in {"in", "out"} : \/ e = "in" /\ readable(k)
                              \/ e = "out" /\ k.out /\ writable(k)}

\* epoll_ctl MOD as enableWrite (out) and disableWrite (not out) call it: it
\* counts as news, so what is ready is reported again.
modify(k, out) == [k EXCEPT !.out = out, !.et = TRUE, !.woken = TRUE]

-----------------------------------------------------------------------------
(***************************************************************************)
(* Connection.                                                             *)
(***************************************************************************)

Connection == [state : {"CONNECTED", "ACTIVE", "CLOSING"},
               out : 0 .. SendQueueMax,       \* send_buf_
               idle : 0 .. TimeoutLimit + 1,  \* since last_active_ms_
               banned : BOOLEAN]

newConnection == [state |-> "CONNECTED", out |-> 0, idle |-> 0, banned |-> FALSE]

isOpen(conn) == conn.state \in {"CONNECTED", "ACTIVE"}

close(conn) == [conn EXCEPT !.state = "CLOSING"]

shouldCleanup(conn) == conn.state = "CLOSING" /\ conn.out = 0

\* Mutant: the limit is tested before the response is counted.
sendRawPastLimit(conn) ==
  IF ~isOpen(conn) THEN conn
  ELSE IF conn.out > SendQueueMax THEN close(conn)
  ELSE [conn EXCEPT !.out = @ + ResponseSize]

\* One response.  A full queue closes the connection and keeps what is queued.
sendRaw(conn) ==
  IF ~isOpen(conn) THEN conn
  ELSE IF conn.out + ResponseSize > SendQueueMax THEN close(conn)
  ELSE [conn EXCEPT !.out = @ + ResponseSize]

\* onReadable, having read data: updateActive makes the connection ACTIVE, also
\* one that was CLOSING.
received(conn, data) ==
  LET bad == conn.banned \/ \E i \in 1 .. Len(data) : data[i] = "bad"
  IN  [state |-> IF bad THEN "CLOSING" ELSE "ACTIVE", out |-> conn.out,
       idle |-> 0, banned |-> bad]

-----------------------------------------------------------------------------

At(pc, events) == [pc |-> pc, events |-> events]

Init ==
  /\ born = 0
  /\ accepted = <<>>
  /\ writes = <<>>
  /\ conns = EmptyMap
  /\ wheel = emptyWheel
  /\ routes = {}
  /\ kernel = [c \in Conns |-> newSocket]
  /\ loop = At("wait", EmptyMap)
  /\ calls = [c \in Conns |-> 0]
  /\ used = [inputs |-> 0, responses |-> 0]

(***************************************************************************)
(* Other threads, the peers and the clock.                                 *)
(***************************************************************************)

\* Acceptor::run and addConnection: ids are given out in order.
Accept ==
  /\ born < MaxConns
  /\ born' = born + 1
  /\ accepted' = Append(accepted, born + 1)
  /\ UNCHANGED <<writes, conns, wheel, routes, kernel, loop, calls, used>>

\* GameServer::sendResponse and sendToConnection, on any thread.
SendResponse(c) ==
  /\ c \in routes
  /\ used.responses < MaxResponses
  /\ used' = [used EXCEPT !.responses = @ + 1]
  /\ writes' = Append(writes, c)
  /\ UNCHANGED <<born, accepted, conns, wheel, routes, kernel, loop, calls>>

\* c has a descriptor: it is in the loop or on its way there.
connected(c) == c \in DOMAIN conns \/ \E i \in 1 .. Len(accepted) : accepted[i] = c

PeerSends(c, input) ==
  /\ connected(c)
  /\ kernel[c].end = "open"
  /\ used.inputs < MaxInputs
  /\ used' = [used EXCEPT !.inputs = @ + 1]
  /\ kernel' = [kernel EXCEPT ![c].inbox = Append(@, input), ![c].woken = TRUE]
  /\ UNCHANGED <<born, accepted, writes, conns, wheel, routes, loop, calls>>

PeerEnds(c, how) ==
  /\ connected(c)
  /\ kernel[c].end = "open"
  /\ kernel' = [kernel EXCEPT ![c].end = how, ![c].woken = TRUE]
  /\ UNCHANGED <<born, accepted, writes, conns, wheel, routes, loop, calls, used>>

\* The peer reads: there is room in the send buffer again.
PeerReads(c) ==
  /\ kernel[c].full
  /\ kernel' = [kernel EXCEPT ![c].full = FALSE, ![c].woken = TRUE]
  /\ UNCHANGED <<born, accepted, writes, conns, wheel, routes, loop, calls, used>>

later(conn) == [conn EXCEPT !.idle = IF @ > TimeoutLimit THEN @ ELSE @ + 1]

TimePasses ==
  /\ conns' = [c \in DOMAIN conns |-> later(conns[c])]
  /\ UNCHANGED <<born, accepted, writes, wheel, routes, kernel, loop, calls, used>>

-----------------------------------------------------------------------------
(***************************************************************************)
(* run.                                                                    *)
(***************************************************************************)

\* epoll_wait, which returns after kTickMs at the latest.
Wait ==
  /\ loop.pc = "wait"
  /\ LET ready == {c \in DOMAIN conns : report(kernel[c]) # {}}
     IN  /\ loop' = At("writes", [c \in ready |-> report(kernel[c])])
         /\ kernel' = [c \in Conns |-> IF c \in ready THEN [kernel[c] EXCEPT !.woken = FALSE]
                                                      ELSE kernel[c]]
  /\ UNCHANGED <<born, accepted, writes, conns, wheel, routes, calls, used>>

\* drainPendingWrites: one response, or the end of the loop.  The connection may
\* be gone by now.
DrainWrite ==
  /\ loop.pc = "writes"
  /\ IF writes = <<>>
     THEN loop' = At("conns", loop.events) /\ UNCHANGED <<writes, conns, kernel>>
     ELSE LET c == Head(writes)
          IN  /\ writes' = Tail(writes)
              /\ IF c \in DOMAIN conns
                 THEN /\ conns' = Put(conns, c, sendRaw(conns[c]))
                      /\ kernel' = [kernel EXCEPT ![c] = modify(@, TRUE)]
                 ELSE UNCHANGED <<conns, kernel>>
              /\ UNCHANGED loop
  /\ UNCHANGED <<born, accepted, wheel, routes, calls, used>>

\* drainPending: one connection, or the end of the loop.
DrainConn ==
  /\ loop.pc = "conns"
  /\ IF accepted = <<>>
     THEN loop' = At("events", loop.events) /\ UNCHANGED <<accepted, conns, wheel>>
     ELSE /\ accepted' = Tail(accepted)
          /\ conns' = Put(conns, Head(accepted), newConnection)
          /\ wheel' = add(wheel, Head(accepted), HeartbeatMs)
          /\ UNCHANGED loop
  /\ UNCHANGED <<born, writes, routes, kernel, calls, used>>

\* addConnectionImpl when epoll_ctl fails: the connection is destroyed.
DrainFails ==
  /\ loop.pc = "conns"
  /\ accepted # <<>>
  /\ accepted' = Tail(accepted)
  /\ kernel' = [kernel EXCEPT ![Head(accepted)] = newSocket]
  /\ UNCHANGED <<born, writes, conns, wheel, routes, loop, calls, used>>

\* onReadable: a read delivers the first n inputs, the end of the stream, an
\* error, or nothing.
afterRead(conn, k, n) ==
  IF n > 0 THEN received(conn, SubSeq(k.inbox, 1, n))
  ELSE IF k.inbox = <<>> /\ k.end # "open" THEN close(conn) ELSE conn

\* The readable half of handleEvents: conn is the connection after onReadable.
wheelAfterRead(w, c, conn) ==
  refresh(IF conn.state = "CLOSING" THEN remove(w, c) ELSE w, c, HeartbeatMs)

HandleRead(c, n, frames) ==
  /\ loop.pc = "events"
  /\ "in" \in loop.events[c]
  /\ LET k    == kernel[c]
         conn == afterRead(conns[c], k, n)
     IN  /\ n \in (IF k.inbox = <<>> THEN {0} ELSE 1 .. Len(k.inbox))
         /\ frames => n > 0
         /\ conns' = Put(conns, c, conn)
         /\ wheel' = wheelAfterRead(wheel, c, conn)
         /\ routes' = IF frames /\ conn.state # "CLOSING" THEN routes \cup {c} ELSE routes
         /\ kernel' = [kernel EXCEPT ![c].inbox = SubSeq(@, n + 1, Len(@))]
  /\ loop' = At("events", IF "out" \in loop.events[c] THEN Put(loop.events, c, {"out"})
                                                    ELSE Erase(loop.events, {c}))
  /\ UNCHANGED <<born, accepted, writes, calls, used>>

\* Mutant: EPOLLOUT is disabled after every write.
afterWriteAlways(k, conn) == modify(k, FALSE)

\* EPOLLOUT is disabled when nothing is left to write.
afterWrite(k, conn) == IF conn.out = 0 THEN modify(k, FALSE) ELSE k

\* The writable half.  A write takes the first n pieces; it takes nothing when
\* the buffer is full or the peer has reset, and fills the buffer unless it takes
\* them all.
HandleWrite(c, n, full) ==
  /\ loop.pc = "events"
  /\ loop.events[c] = {"out"}
  /\ LET k    == kernel[c]
         can  == conns[c].out > 0 /\ k.end # "reset" /\ ~k.full
         conn == IF conns[c].out > 0 /\ k.end = "reset" THEN close(conns[c])
                 ELSE [conns[c] EXCEPT !.out = @ - n]
         sock == [k EXCEPT !.full = IF can THEN full ELSE @]
     IN  /\ n \in (IF can THEN 1 .. conns[c].out ELSE {0})
         /\ full => can
         /\ can /\ n < conns[c].out => full
         /\ conns' = Put(conns, c, conn)
         /\ kernel' = [kernel EXCEPT ![c] = afterWrite(sock, conn)]
  /\ loop' = At("events", Erase(loop.events, {c}))
  /\ UNCHANGED <<born, accepted, writes, wheel, routes, calls, used>>

isTimeout(conn) == conn.idle > TimeoutLimit

\* Mutant: a connection that never sent anything is not looked at.
timesOutActive(conn) == conn.state = "ACTIVE" /\ isTimeout(conn)

timesOut(conn) == isOpen(conn) /\ isTimeout(conn)

\* checkTimeouts closes the connections of late one after the other, in the map's order.
timeouts(late) == IF late = {} THEN At("cleanup", EmptyMap) ELSE At("timeouts", [c \in late |-> {}])

\* checkTimeouts begins when handleEvents has handled everything.  The time was taken
\* before, so its loop finds the connections that are late now.
CheckTimeouts ==
  /\ loop.pc = "events"
  /\ loop.events = EmptyMap
  /\ loop' = timeouts({c \in DOMAIN conns : timesOut(conns[c])})
  /\ UNCHANGED <<born, accepted, writes, conns, wheel, routes, kernel, calls, used>>

\* closeConnection for one of them.
CloseLate(c) ==
  /\ loop.pc = "timeouts"
  /\ conns' = Put(conns, c, close(conns[c]))
  /\ wheel' = remove(wheel, c)
  /\ loop' = timeouts(DOMAIN loop.events \ {c})
  /\ UNCHANGED <<born, accepted, writes, routes, kernel, calls, used>>

\* Mutant: the callback leaves the route in place.
forgetNobody(gone) == routes' = routes

\* The disconnect callback's first half.
forget(gone) == routes' = routes \ gone

(***************************************************************************)
(* cleanupClosed: one tick of the wheel, whose callbacks close the silent  *)
(* connections, and the removal of what is closed and flushed, with the    *)
(* disconnect callback, which forgets the route.  The timer of a           *)
(* connection that sendRaw or onWritable closed stays in the wheel.        *)
(***************************************************************************)
Cleanup ==
  /\ loop.pc = "cleanup"
  /\ LET silent == fired(wheel.slots[next(wheel)], DOMAIN conns)
         closed == [c \in DOMAIN conns |-> IF c \in silent THEN close(conns[c]) ELSE conns[c]]
         gone   == {c \in DOMAIN conns : shouldCleanup(closed[c])}
     IN  /\ conns' = Erase(closed, gone)
         /\ forget(gone)
         /\ calls' = [c \in Conns |-> calls[c] + IF c \in gone THEN 1 ELSE 0]
         /\ kernel' = [c \in Conns |-> IF c \in gone THEN newSocket ELSE kernel[c]]
  /\ wheel' = tick(wheel)
  /\ loop' = At("wait", EmptyMap)
  /\ UNCHANGED <<born, accepted, writes, used>>

LoopStep ==
  \/ Wait \/ DrainWrite \/ DrainConn \/ DrainFails
  \/ \E c \in DOMAIN loop.events :
       \/ \E n \in 0 .. MaxInputs, frames \in BOOLEAN : HandleRead(c, n, frames)
       \/ \E n \in 0 .. SendQueueMax, full \in BOOLEAN : HandleWrite(c, n, full)
       \/ CloseLate(c)
  \/ CheckTimeouts \/ Cleanup

Next ==
  \/ Accept
  \/ \E c \in Conns :
       \/ SendResponse(c)
       \/ \E input \in {"good", "bad"} : PeerSends(c, input)
       \/ \E how \in {"fin", "reset"} : PeerEnds(c, how)
       \/ PeerReads(c)
  \/ TimePasses
  \/ LoopStep

Spec == Init /\ [][Next]_vars

\* The loop's thread runs, because epoll_wait has a timeout, and the clock advances.
\* A peer need do nothing: neither send, nor read what it is sent, nor end.
FairSpec == Spec /\ WF_vars(LoopStep) /\ WF_vars(TimePasses)

-----------------------------------------------------------------------------
(***************************************************************************)
(* Properties.                                                             *)
(***************************************************************************)

LoopStates == {"wait", "writes", "conns", "events", "timeouts", "cleanup"}

\* All state has its type; a send queue never exceeds SendQueueMax.
TypeOK ==
  /\ born \in 0 .. MaxConns
  /\ accepted \in Seq(1 .. born)
  /\ writes \in Seq(1 .. born)
  /\ IsMap(conns, 1 .. born, Connection)
  /\ wheel.cur \in Slots
  /\ routes \subseteq 1 .. born
  /\ kernel \in [Conns -> Socket]
  /\ loop.pc \in LoopStates
  /\ IsMap(loop.events, DOMAIN conns, SUBSET {"in", "out"})
  /\ calls \in [Conns -> 0 .. 1]

\* The wheel's three fields agree, although add, remove, refresh and tick change
\* them separately and tick runs callbacks that call remove: a connection has an
\* entry in one slot, once, exactly if id_to_slot_ names that slot, and entries_
\* counts them.
WheelConsistent ==
  /\ \A i \in Slots, c \in Conns :
       Cardinality({j \in 1 .. Len(wheel.slots[i]) : wheel.slots[i][j] = c})
         = IF c \in DOMAIN wheel.where /\ wheel.where[c] = i THEN 1 ELSE 0
  /\ wheel.entries = Cardinality(DOMAIN wheel.where)

\* A response is only queued for a connection the loop still has at that moment:
\* the frame callback adds a route and the disconnect callback takes it away
\* before the connection is erased, however a close and a late read interleave.
\* The callback has not run for a connection that is still there.
RoutesLive ==
  /\ routes \subseteq DOMAIN conns
  /\ \A c \in DOMAIN conns : calls[c] = 0

\* Edge-triggered output is never forgotten: when the thread goes back to
\* epoll_wait with output that the socket would take, epoll_wait will report it.
NoLostWakeup ==
  loop.pc = "wait" =>
    \A c \in DOMAIN conns :
      conns[c].out > 0 /\ ~kernel[c].full /\ kernel[c].end # "reset"
        => "out" \in report(kernel[c])

\* No connection outlives its silent peer.  The peers send finitely often, so in
\* the end each connection is closed by a timer or the timeout, flushed and removed
\* for good: also when its timer is stepped over, or when late data makes it ACTIVE
\* again after it was closed and its timer removed.  The exceptions are connections
\* whose output is never flushed: the peer has reset and every write fails, or it has
\* stopped reading and the send buffer stays full.  Such a connection is CLOSING and
\* stays, for checkTimeouts looks only at open ones.
ConnectionsEnd ==
  <>[](\A c \in DOMAIN conns :
         /\ kernel[c].end = "reset" \/ kernel[c].full
         /\ conns[c].state = "CLOSING" /\ conns[c].out > 0)

=============================================================================
