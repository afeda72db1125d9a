-------------------------------- MODULE Digest --------------------------------
(***************************************************************************)
(* The two streaming hashes: SHA-512 of ed25519.hpp, SHA-256 of            *)
(* sha256.hpp.  What one block does to the state is Compress; the rest is  *)
(* bookkeeping, which has to come to the same digest however the message   *)
(* arrives: the verifier feeds it in two pieces.                           *)
(***************************************************************************)
EXTENDS Integers, Sequences, SequencesExt

CONSTANTS
  Block, Room,       \* a block's bytes, and those its length field leaves free
  Byte,              \* the bytes: 0 .. Byte - 1
  Chaining0,         \* the state to start from
  Compress(_, _)     \* what a block does to the state

Zeros(n) == [i \in 1 .. n |-> 0]

Mark == Byte \div 2      \* the first bit after the message: 0x80

\* A count in the bytes the last block has for it, the highest first.
LengthBytes(n) == [i \in 1 .. Block - Room |-> (n \div Byte^(Block - Room - i)) % Byte]

\* h: the state; buf: the bytes of the block under way; total: those before it.
Start == [h |-> Chaining0, buf |-> <<>>, total |-> 0]

Filled(ctx) ==
  IF Len(ctx.buf) < Block THEN ctx
  ELSE [h |-> Compress(ctx.h, ctx.buf), buf |-> <<>>, total |-> ctx.total + Block]

\* sha256_update: byte by byte.
Update256(ctx, data) ==
  FoldLeft(LAMBDA c, b : Filled([c EXCEPT !.buf = Append(@, b)]), ctx, data)

\* kl_sha512_update: at each turn what the buffer has space for.
Turn(acc, i) ==
  LET space == Block - Len(acc.ctx.buf)
      take  == IF Len(acc.rest) < space THEN Len(acc.rest) ELSE space
  IN [ctx  |-> Filled([acc.ctx EXCEPT !.buf = @ \o SubSeq(acc.rest, 1, take)]),
      rest |-> SubSeq(acc.rest, take + 1, Len(acc.rest))]

Update512(ctx, data) ==
  FoldLeft(Turn, [ctx |-> ctx, rest |-> data],
           [i \in 1 .. Len(data) \div Block + 2 |-> i]).ctx

\* kl_sha512_final: the mark; a block of its own if the count has no room left.
Final512(ctx) ==
  LET count  == 8 * (ctx.total + Len(ctx.buf))
      marked == Append(ctx.buf, Mark)
      spills == Len(marked) > Room
      h      == IF spills THEN Compress(ctx.h, marked \o Zeros(Block - Len(marked))) ELSE ctx.h
      last   == IF spills THEN <<>> ELSE marked
  IN Compress(h, last \o Zeros(Room - Len(last)) \o LengthBytes(count))

\* sha256_final tests the room before it writes the mark.
Final256(ctx) ==
  LET marked == Append(ctx.buf, Mark)
      fits   == Len(ctx.buf) < Room
      h      == IF fits THEN ctx.h
                ELSE Compress(ctx.h, marked \o Zeros(Block - Len(marked)))
      last   == IF fits THEN marked \o Zeros(Room - Len(marked)) ELSE Zeros(Room)
  IN Compress(h, last \o LengthBytes(8 * (ctx.total + Len(ctx.buf))))

----------------------------------------------------------------------------
\* The standard's padding, all of the message at once.
Padded(m) ==
  m \o <<Mark>> \o Zeros((Room - Len(m) - 1) % Block) \o LengthBytes(8 * Len(m))

HashOf(m) ==
  LET p == Padded(m)
  IN FoldLeft(LAMBDA h, i : Compress(h, SubSeq(p, Block * (i - 1) + 1, Block * i)),
              Chaining0, [i \in 1 .. Len(p) \div Block |-> i])

\* Wherever a message is cut, both hashes come to the digest of the padded whole.
HashesAgree(messages) ==
  \A m \in messages : \A cut \in 0 .. Len(m) :
    LET a == SubSeq(m, 1, cut)
        b == SubSeq(m, cut + 1, Len(m))
    IN /\ Final512(Update512(Update512(Start, a), b)) = HashOf(m)
       /\ Final256(Update256(Update256(Start, a), b)) = HashOf(m)
=============================================================================
