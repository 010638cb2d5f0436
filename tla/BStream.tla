------------------------------ MODULE BStream ------------------------------
(***************************************************************************)
(* bstream.go: bits written to a slice of bytes and read back through a    *)
(* buffer of one word.                                                     *)
(*                                                                         *)
(* A byte has ByteBits bits and a word eight bytes, 8 and 64 in the code;  *)
(* everything the code derives from the two is derived from them here.     *)
(* The readers without a refill (readBitFast, readBitsFast) and their      *)
(* fallbacks to the ones with it (readBit, readBits) return the same bits, *)
(* so that readBits stands for all of them.                                *)
(***************************************************************************)
EXTENDS Integers, Sequences, SequencesExt, Bitwise

CONSTANT ByteBits   \* the bits of a byte

ASSUME ByteBitsAssumption == ByteBits \in Nat \ {0, 1}

WordBits == 8 * ByteBits
Byte == 2 ^ ByteBits
Word == 2 ^ WordBits
ShiftRight(x, n) == IF n >= WordBits THEN 0 ELSE x \div (2 ^ n)

-----------------------------------------------------------------------------
(* bstream: count bits of the last byte are still free. *)

EmptyStream == [stream |-> <<>>, count |-> 0]

WithRoom(b) == IF b.count = 0 THEN [stream |-> Append(b.stream, 0), count |-> ByteBits] ELSE b

writeBit(b, bit) ==
    LET r == WithRoom(b)
    IN  [stream |-> [r.stream EXCEPT ![Len(r.stream)] = @ | (bit * 2 ^ (r.count - 1))],
         count  |-> r.count - 1]

(* The byte fills up the last one, and what is left of it begins the next. *)
writeByte(b, byt) ==
    LET r == WithRoom(b)
        filled == [r.stream EXCEPT ![Len(r.stream)] = @ | (byt \div 2 ^ (ByteBits - r.count))]
    IN  [r EXCEPT !.stream = Append(filled, (byt * 2 ^ r.count) % Byte)]

writeBytes(b, bytes) == FoldLeft(writeByte, b, bytes)

(* The last n bits of u: whole bytes first, then bit by bit. *)
RECURSIVE writeBits(_, _, _)
writeBits(b, u, n) ==
    IF n = 0 THEN b
    ELSE IF n >= ByteBits
    THEN writeBits(writeByte(b, (u \div 2 ^ (n - ByteBits)) % Byte), u, n - ByteBits)
    ELSE writeBits(writeBit(b, (u \div 2 ^ (n - 1)) % 2), u, n - 1)

-----------------------------------------------------------------------------
(* bstreamReader: valid bits of the buffer are still to be read. *)

newBReader(bytes) == [stream |-> bytes, streamOffset |-> 0, buffer |-> 0, valid |-> 0]

EOF(r) == [r |-> r, v |-> 0, ok |-> FALSE]

(* A full word as long as a byte stays behind it, and then what nbits need, *)
(* or what there is.                                                        *)
NumBytes(r, nbits) ==
    LET left == Len(r.stream) - r.streamOffset
    IN  IF left > 8 THEN 8 ELSE IF nbits \div ByteBits + 1 < left THEN nbits \div ByteBits + 1 ELSE left

loadNextBuffer(r, nbits) ==
    LET n == NumBytes(r, nbits)
        bytes == SubSeq(r.stream, r.streamOffset + 1, r.streamOffset + n)
    IN  [r EXCEPT !.buffer = FoldLeft(LAMBDA acc, byt : acc * Byte + byt, 0, bytes),
                  !.streamOffset = @ + n, !.valid = n * ByteBits]

Exhausted(r) == r.streamOffset >= Len(r.stream)

readBitsFast(r, nbits) ==
    LET valid == r.valid - nbits
    IN  [r |-> [r EXCEPT !.valid = valid], v |-> ShiftRight(r.buffer, valid) % 2 ^ nbits, ok |-> TRUE]

(* The bits left in the buffer and the first ones of the next.  valid is a  *)
(* uint8: it wraps around where the next buffer has too few bits.           *)
readAcross(r, nbits) ==
    LET rest == nbits - r.valid
        high == (r.buffer % 2 ^ r.valid) * 2 ^ rest
        next == loadNextBuffer(r, rest)
        valid == (next.valid - rest) % 256
    IN  IF Exhausted(r) THEN EOF([r EXCEPT !.valid = 0])
        ELSE [r |-> [next EXCEPT !.valid = valid], ok |-> TRUE,
              v |-> high + (ShiftRight(next.buffer, valid) % 2 ^ rest)]

RECURSIVE readBits(_, _)
readBits(r, nbits) ==
    IF r.valid = 0
    THEN IF Exhausted(r) THEN EOF(r) ELSE readBits(loadNextBuffer(r, nbits), nbits)
    ELSE IF nbits <= r.valid THEN readBitsFast(r, nbits)
    ELSE readAcross(r, nbits)

ReadByte(r) == readBits(r, ByteBits)
=============================================================================
