----------------------------- MODULE FrameCodec -----------------------------
(***************************************************************************)
(* FrameCodec (src/network/frame_codec.{h,cpp}): a frame on the wire is a  *)
(* header of four big-endian numbers, total_length (which counts the       *)
(* header), message_id, flags and sequence, and then the payload.  The     *)
(* widths of the fields are parameters; sequence is written as two halves. *)
(***************************************************************************)
EXTENDS Buffer

CONSTANTS
  LenBytes, IdBytes, FlagBytes, HalfBytes,  \* 4, 4, 2 and 4 bytes
  kMaxPayload                               \* 64 KB

ASSUME CodecAssumption ==
  /\ LenBytes \in Nat \ {0} /\ IdBytes \in Nat /\ FlagBytes \in Nat /\ HalfBytes \in Nat
  /\ kMaxPayload \in Nat

kHeaderSize == LenBytes + IdBytes + FlagBytes + 2 * HalfBytes

\* The number of values of k bytes, Base to the k.
power(k) ==
  LET times[i \in 0 .. k] == IF i = 0 THEN 1 ELSE times[i - 1] * Base
  IN  times[k]

ASSUME LengthFits == kHeaderSize + kMaxPayload < power(LenBytes)

\* htonl, htons: n as k bytes, the most significant first.
toNetwork(n, k) == [i \in 1 .. k |-> (n \div power(k - i)) % Base]

\* ntohl, ntohs
toHost(bytes) ==
  LET value[i \in 0 .. Len(bytes)] == IF i = 0 THEN 0 ELSE value[i - 1] * Base + bytes[i]
  IN  value[Len(bytes)]

IsFrame(f) ==
  /\ f = [id |-> f.id, flags |-> f.flags, seq |-> f.seq, payload |-> f.payload]
  /\ f.id \in 0 .. power(IdBytes) - 1
  /\ f.flags \in 0 .. power(FlagBytes) - 1
  /\ f.seq \in 0 .. power(2 * HalfBytes) - 1
  /\ f.payload \in Seq(Byte)

\* Mutant: the halves of the sequence number the wrong way round.
writeHeaderSwapped(total, f) ==
  toNetwork(total, LenBytes) \o toNetwork(f.id, IdBytes) \o toNetwork(f.flags, FlagBytes)
    \o toNetwork(f.seq % power(HalfBytes), HalfBytes)
    \o toNetwork(f.seq \div power(HalfBytes), HalfBytes)

writeHeader(total, f) ==
  toNetwork(total, LenBytes) \o toNetwork(f.id, IdBytes) \o toNetwork(f.flags, FlagBytes)
    \o toNetwork(f.seq \div power(HalfBytes), HalfBytes)
    \o toNetwork(f.seq % power(HalfBytes), HalfBytes)

\* A payload over kMaxPayload is refused.
encodes(f) == Len(f.payload) <= kMaxPayload

encode(f) == writeHeader(kHeaderSize + Len(f.payload), f) \o f.payload

\* The k bytes that follow the first from of the unread ones.
field(b, from, k) == SubSeq(contents(b), from + 1, from + k)

\* parseHeader
totalLength(b) == toHost(field(b, 0, LenBytes))

parsed(b, payload) ==
  [id |-> toHost(field(b, LenBytes, IdBytes)),
   flags |-> toHost(field(b, LenBytes + IdBytes, FlagBytes)),
   seq |-> toHost(field(b, LenBytes + IdBytes + FlagBytes, HalfBytes)) * power(HalfBytes)
             + toHost(field(b, LenBytes + IdBytes + FlagBytes + HalfBytes, HalfBytes)),
   payload |-> payload]

\* The cases of decode: it throws, it has nothing to return yet, or it returns a
\* frame and takes it from the buffer, the header first and then the payload.
decodeThrows(b) ==
  /\ readable(b) >= kHeaderSize
  /\ totalLength(b) < kHeaderSize \/ totalLength(b) > kHeaderSize + kMaxPayload

decodeReturns(b) ==
  /\ readable(b) >= kHeaderSize
  /\ ~decodeThrows(b)
  /\ readable(b) >= totalLength(b)

decoded(b) == parsed(b, field(b, kHeaderSize, totalLength(b) - kHeaderSize))

afterDecode(b) == skip(skip(b, kHeaderSize), totalLength(b) - kHeaderSize)

=============================================================================
