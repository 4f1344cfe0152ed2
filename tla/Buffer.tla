------------------------------- MODULE Buffer -------------------------------
(***************************************************************************)
(* Buffer (src/network/buffer.{h,cpp}): the byte buffer in front of and    *)
(* behind every socket.  A buffer is a record: buf_ as cap and cell, with  *)
(* read_idx_ and write_idx_ as rd and wr.  Cells outside rd .. wr - 1 keep *)
(* what was in them, as in the code.  Every method is an operator.         *)
(***************************************************************************)
EXTENDS Integers, Sequences

CONSTANTS
  Base,         \* a byte is a number below Base, 256
  MinCapacity,  \* 64 in the constructor
  Initial,      \* 4096, the argument of the constructor
  Chunk         \* 4096 in readFromFd

ASSUME BufferAssumption ==
  /\ Base \in Nat \ {0, 1}
  /\ MinCapacity \in Nat \ {0}
  /\ Initial \in Nat
  /\ Chunk \in Nat \ {0}

Byte == 0 .. Base - 1

atMost(m, n) == IF m <= n THEN m ELSE n

newCapacity == IF Initial < MinCapacity THEN MinCapacity ELSE Initial

newBuffer == [cap |-> newCapacity, cell |-> [i \in 0 .. newCapacity - 1 |-> 0], rd |-> 0, wr |-> 0]

readable(b) == b.wr - b.rd

writable(b) == b.cap - b.wr

\* What readPtr() points to, readable() bytes long.
contents(b) == [i \in 1 .. readable(b) |-> b.cell[b.rd + i - 1]]

reset(b) == [cap |-> b.cap, cell |-> b.cell, rd |-> 0, wr |-> 0]

resetIfEmpty(b) == IF b.rd = b.wr THEN reset(b) ELSE b

\* Mutant: the bytes stay where they are.
compactUnmoved(b) ==
  IF b.rd > 0 /\ readable(b) > 0
  THEN [cap |-> b.cap, cell |-> b.cell, rd |-> 0, wr |-> readable(b)]
  ELSE IF b.rd > 0 THEN reset(b) ELSE b

\* memmove: the unread bytes go to the front.
compact(b) ==
  IF b.rd > 0 /\ readable(b) > 0
  THEN [cap |-> b.cap,
        cell |-> [i \in DOMAIN b.cell |-> IF i < readable(b) THEN b.cell[b.rd + i] ELSE b.cell[i]],
        rd |-> 0, wr |-> readable(b)]
  ELSE IF b.rd > 0 THEN reset(b) ELSE b

\* Doubles at least once, until there is room for least bytes.
doubled(cap, least) ==
  LET from[c \in Nat] == IF c >= least THEN c ELSE from[2 * c]
  IN  from[2 * cap]

\* resize: the new cells are zero.
grow(b, least) ==
  LET cap == doubled(b.cap, least)
  IN  [cap |-> cap, cell |-> [i \in 0 .. cap - 1 |-> IF i < b.cap THEN b.cell[i] ELSE 0],
       rd |-> b.rd, wr |-> b.wr]

\* Mutant: room is made by growing only.
ensureWriteGrows(b, n) == IF writable(b) >= n THEN b ELSE grow(b, b.wr + n)

ensureWrite(b, n) ==
  IF writable(b) >= n THEN b
  ELSE IF writable(compact(b)) >= n THEN compact(b)
  ELSE grow(compact(b), compact(b).wr + n)

\* memcpy to writePtr(), and write_idx_ moves on.
append(b, data) ==
  [cap |-> b.cap,
   cell |-> [i \in DOMAIN b.cell |->
               IF i \in b.wr .. b.wr + Len(data) - 1 THEN data[i - b.wr + 1] ELSE b.cell[i]],
   rd |-> b.rd, wr |-> b.wr + Len(data)]

write(b, data) == IF data = <<>> THEN b ELSE append(ensureWrite(b, Len(data)), data)

\* The bytes that readFromFd gets when the socket holds these: as many as there
\* is room for, not just Chunk.
readCount(b, available) == atMost(available, writable(ensureWrite(b, Chunk)))

readFromFd(b, data) == append(ensureWrite(b, Chunk), data)

\* skip, and read and writeToFd once the bytes have been copied out.
skip(b, n) ==
  resetIfEmpty([cap |-> b.cap, cell |-> b.cell, rd |-> b.rd + atMost(n, readable(b)), wr |-> b.wr])

=============================================================================
