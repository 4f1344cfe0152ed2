---------------------------- MODULE FrameStream ----------------------------
(***************************************************************************)
(* One connection's two byte streams: Connection (src/network/             *)
(* connection.cpp) with its receive and send buffers, the frame decoder,   *)
(* and what EventLoop does around them (event_loop.cpp).                   *)
(*                                                                         *)
(* The peer's bytes arrive in pieces of any length.  onReadable makes one  *)
(* read and then decodes in a loop; each round of the loop is a step.  The *)
(* socket is level-triggered until the first response; from then on every  *)
(* epoll_ctl sets EPOLLET, and each one makes epoll_wait look again.       *)
(*                                                                         *)
(* The end of the stream, failing system calls and timeouts are in the     *)
(* module EventLoop.  A response is a sequence of bytes.                   *)
(***************************************************************************)
EXTENDS FrameCodec, SequencesExt

CONSTANTS
  Frames,            \* the frames the peer may send
  BadLengths,        \* the total_lengths that it may put in a broken header
  Responses,         \* the responses the server may send
  kMaxIllegalCount,  \* 10
  kSendQueueMax,     \* 256 KB
  MaxFrames,         \* bounds on the number of frames, broken ones included,
  MaxResponses       \* and of responses

ASSUME StreamAssumption ==
  /\ \A f \in Frames : IsFrame(f) /\ encodes(f)
  /\ \A n \in BadLengths : n \in 0 .. power(LenBytes) - 1
  /\ \A n \in BadLengths : n < kHeaderSize \/ n > kHeaderSize + kMaxPayload
  /\ Responses \subseteq Seq(Byte) \ {<<>>}
  /\ kMaxIllegalCount \in Nat \ {0}
  /\ kSendQueueMax \in Nat
  /\ MaxFrames \in Nat /\ MaxResponses \in Nat

VARIABLES
  wire,      \* bytes the peer has sent and that have not arrived
  inbox,     \* bytes in the socket
  recv,      \* recv_buf_
  send,      \* send_buf_
  conn,      \* state_, illegal_count_ and whether onReadable is in its loop
  epoll,     \* EPOLLET is set; the socket is on epoll's ready list
  peer,      \* history: the bytes sent, the good frames among them up to the
             \* first broken one, and the number of frames and broken frames
  got,       \* history: the frames decoded
  out        \* history: the responses' bytes queued, and those written

vars == <<wire, inbox, recv, send, conn, epoll, peer, got, out>>

Init ==
  /\ wire = <<>>
  /\ inbox = <<>>
  /\ recv = newBuffer
  /\ send = newBuffer
  /\ conn = [state |-> "CONNECTED", illegal |-> 0, decoding |-> FALSE]
  /\ epoll = [et |-> FALSE, woken |-> FALSE]
  /\ peer = [bytes |-> <<>>, frames |-> <<>>, sent |-> 0, bad |-> FALSE]
  /\ got = <<>>
  /\ out = [queued |-> <<>>, written |-> <<>>, responses |-> 0]

-----------------------------------------------------------------------------
(***************************************************************************)
(* The peer and the network.                                               *)
(***************************************************************************)

transmit(data) == wire' = wire \o data /\ UNCHANGED <<inbox, recv, send, conn, epoll, got, out>>

PeerSends(f) ==
  /\ peer.sent < MaxFrames
  /\ transmit(encode(f))
  /\ peer' = [bytes |-> peer.bytes \o encode(f), sent |-> peer.sent + 1, bad |-> peer.bad,
              frames |-> IF peer.bad THEN peer.frames ELSE Append(peer.frames, f)]

\* A header with a total_length that is too small or too large.
PeerSendsBroken(n, f) ==
  /\ peer.sent < MaxFrames
  /\ transmit(writeHeader(n, f))
  /\ peer' = [bytes |-> peer.bytes \o writeHeader(n, f), sent |-> peer.sent + 1, bad |-> TRUE,
              frames |-> peer.frames]

Arrive(n) ==
  /\ n \in 1 .. Len(wire)
  /\ wire' = SubSeq(wire, n + 1, Len(wire))
  /\ inbox' = inbox \o SubSeq(wire, 1, n)
  /\ epoll' = [epoll EXCEPT !.woken = TRUE]
  /\ UNCHANGED <<recv, send, conn, peer, got, out>>

-----------------------------------------------------------------------------
(***************************************************************************)
(* The receiving half.                                                     *)
(***************************************************************************)

isOpen(c) == c.state \in {"CONNECTED", "ACTIVE"}

close(c) == IF isOpen(c) THEN [c EXCEPT !.state = "CLOSING"] ELSE c

\* cleanupClosed removes the connection before the loop waits again.
shouldCleanup == conn.state = "CLOSING" /\ readable(send) = 0

\* The connection is there and the loop's thread is between two events.
ready == conn.state # "gone" /\ ~conn.decoding /\ ~shouldCleanup

\* onReadable: one read, of what there is room for, and updateActive.
OnReadable ==
  /\ ready
  /\ inbox # <<>>
  /\ epoll.et => epoll.woken
  /\ LET n == readCount(recv, Len(inbox))
     IN  /\ recv' = readFromFd(recv, SubSeq(inbox, 1, n))
         /\ inbox' = SubSeq(inbox, n + 1, Len(inbox))
  /\ epoll' = [epoll EXCEPT !.woken = FALSE]
  /\ conn' = [conn EXCEPT !.state = "ACTIVE", !.decoding = TRUE]
  /\ UNCHANGED <<wire, send, peer, got, out>>

\* Mutant: one frame for each read.
DecodeFirst ==
  /\ conn.decoding
  /\ decodeReturns(recv)
  /\ got' = Append(got, decoded(recv))
  /\ recv' = afterDecode(recv)
  /\ conn' = [conn EXCEPT !.decoding = FALSE]
  /\ UNCHANGED <<wire, inbox, send, epoll, peer, out>>

\* A round of the loop that decodes a frame.
Decode ==
  /\ conn.decoding
  /\ decodeReturns(recv)
  /\ got' = Append(got, decoded(recv))
  /\ recv' = afterDecode(recv)
  /\ UNCHANGED <<wire, inbox, send, conn, epoll, peer, out>>

\* The loop ends: no header, or a frame that is not complete.
DecodeEnds ==
  /\ conn.decoding
  /\ ~decodeReturns(recv)
  /\ ~decodeThrows(recv)
  /\ conn' = [conn EXCEPT !.decoding = FALSE]
  /\ UNCHANGED <<wire, inbox, recv, send, epoll, peer, got, out>>

\* Mutant: the loop ends at an error.
DecodeFailsOnce ==
  /\ conn.decoding
  /\ decodeThrows(recv)
  /\ LET c == [conn EXCEPT !.illegal = @ + 1, !.decoding = FALSE]
     IN  conn' = IF c.illegal >= kMaxIllegalCount THEN close(c) ELSE c
  /\ UNCHANGED <<wire, inbox, recv, send, epoll, peer, got, out>>

\* A round in which decode throws: nothing is taken from the buffer, so that the
\* next round throws again, until the connection is banned.
DecodeFails ==
  /\ conn.decoding
  /\ decodeThrows(recv)
  /\ LET c == [conn EXCEPT !.illegal = @ + 1]
     IN  conn' = IF c.illegal >= kMaxIllegalCount THEN [close(c) EXCEPT !.decoding = FALSE] ELSE c
  /\ UNCHANGED <<wire, inbox, recv, send, epoll, peer, got, out>>

-----------------------------------------------------------------------------
(***************************************************************************)
(* The sending half, and the end.                                          *)
(***************************************************************************)

\* epoll_ctl with EPOLLET; a socket that is readable is reported again.
rearmed == [et |-> TRUE, woken |-> TRUE]

\* drainPendingWrites: sendRaw and enableWrite.
SendRaw(data) ==
  /\ ready
  /\ out.responses < MaxResponses
  /\ LET fits == readable(send) + Len(data) <= kSendQueueMax
     IN  /\ conn' = IF isOpen(conn) /\ ~fits THEN close(conn) ELSE conn
         /\ send' = IF isOpen(conn) /\ fits THEN write(send, data) ELSE send
         /\ out' = [queued |-> IF isOpen(conn) /\ fits THEN out.queued \o data ELSE out.queued,
                    written |-> out.written, responses |-> out.responses + 1]
  /\ epoll' = rearmed
  /\ UNCHANGED <<wire, inbox, recv, peer, got>>

\* onWritable: the socket takes the first n bytes; disableWrite once all is sent.
OnWritable(n) ==
  /\ ready
  /\ n \in 1 .. readable(send)
  /\ send' = skip(send, n)
  /\ out' = [out EXCEPT !.written = @ \o SubSeq(contents(send), 1, n)]
  /\ epoll' = IF n = readable(send) THEN rearmed ELSE epoll
  /\ UNCHANGED <<wire, inbox, recv, conn, peer, got>>

Cleanup ==
  /\ shouldCleanup
  /\ conn' = [conn EXCEPT !.state = "gone"]
  /\ UNCHANGED <<wire, inbox, recv, send, epoll, peer, got, out>>

-----------------------------------------------------------------------------

Writing == \E n \in 1 .. readable(send) : OnWritable(n)

Arriving == \E n \in 1 .. Len(wire) : Arrive(n)

Next ==
  \/ \E f \in Frames : PeerSends(f) \/ \E n \in BadLengths : PeerSendsBroken(n, f)
  \/ \E data \in Responses : SendRaw(data)
  \/ Arriving \/ Writing
  \/ OnReadable \/ Decode \/ DecodeEnds \/ DecodeFails \/ Cleanup

Spec == Init /\ [][Next]_vars

\* What is sent arrives, the loop's thread runs, and the peer reads.
Progress == Arriving \/ Writing \/ OnReadable \/ Decode \/ DecodeEnds \/ DecodeFails \/ Cleanup

FairSpec == Spec /\ WF_vars(Progress)

-----------------------------------------------------------------------------
(***************************************************************************)
(* Properties.                                                             *)
(***************************************************************************)

\* The bytes of a sequence of frames.
encodeAll(fs) ==
  LET first[i \in 0 .. Len(fs)] == IF i = 0 THEN <<>> ELSE first[i - 1] \o encode(fs[i])
  IN  first[Len(fs)]

\* However the stream is cut and however the buffers are compacted and grown, no
\* byte is lost, repeated or moved: what was decoded, what is buffered and what is
\* under way is what the peer sent; what was written and what is buffered is what
\* was queued; and the frames decoded are the peer's, up to the first broken one.
StreamConserved ==
  /\ encodeAll(got) \o contents(recv) \o inbox \o wire = peer.bytes
  /\ out.written \o contents(send) = out.queued
  /\ IsPrefix(got, peer.frames)

\* A broken header at the front of the buffer can never be got past, so the
\* connection must be banned by the read that completes it: no connection waits
\* for input with one.
BannedAtOnce == ~conn.decoding /\ decodeThrows(recv) => conn.illegal >= kMaxIllegalCount

bounded(b, n) == b.cap = newCapacity \/ b.cap < 2 * n

\* Memory for a connection that is not banned is bounded: by twice the largest
\* frame that may be incomplete and a read, and by twice the send queue.
CapacityBounded ==
  /\ conn.illegal = 0 => bounded(recv, kHeaderSize + kMaxPayload - 1 + Chunk)
  /\ bounded(send, kSendQueueMax)

RecvQueue == INSTANCE ByteQueue WITH q <- contents(recv)

SendQueue == INSTANCE ByteQueue WITH q <- contents(send)

\* Both buffers implement a queue of bytes.
BuffersAreQueues == RecvQueue!Spec /\ SendQueue!Spec

\* Every frame is decoded and a broken one ends the connection, unless an edge-triggered
\* read has left bytes in the socket that no news has followed: those wait for an event
\* that may never come.
StreamServed ==
  <>[](\/ conn.state = "gone"
       \/ epoll.et /\ ~epoll.woken /\ inbox # <<>>
       \/ ~peer.bad /\ got = peer.frames)

=============================================================================
