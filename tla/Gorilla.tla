------------------------------ MODULE Gorilla ------------------------------
(***************************************************************************)
(* encoding.go: gorillaEncoder and gorillaDecoder.  A point is a timestamp *)
(* t, a signed word, and the bits v of its value.                          *)
(***************************************************************************)
EXTENDS BStream, FiniteSetsExt

CONSTANTS LeadingBits, SigBits  \* the bits that leading and sigbits are written in: 5 and 6

ASSUME WidthsAssumption == 2 ^ SigBits = WordBits /\ 2 ^ LeadingBits = WordBits \div 2

uint(x) == x % Word
int(x) == LET u == uint(x) IN IF u >= Word \div 2 THEN u - Word ELSE u

LeadingZeros(x) == Max({n \in 0..WordBits : x < 2 ^ (WordBits - n)})
TrailingZeros(x) == Max({n \in 0..WordBits - 1 : x % 2 ^ n = 0})

-----------------------------------------------------------------------------
(* encoding/binary: all bits of a byte but the first carry the number, the  *)
(* lowest ones first; the first one says whether more bytes follow.         *)
Payload == ByteBits - 1
MaxVarintLen == (WordBits + Payload - 1) \div Payload

PutUvarint(x) ==
    LET n == Max({1} \cup {k \in 1..MaxVarintLen : x >= 2 ^ (Payload * (k - 1))})
    IN  [k \in 1..n |-> (IF k < n THEN 2 ^ Payload ELSE 0)
                          + ((x \div 2 ^ (Payload * (k - 1))) % 2 ^ Payload)]

PutVarint(x) == PutUvarint(IF x < 0 THEN -2 * x - 1 ELSE 2 * x)

-----------------------------------------------------------------------------
(* gorillaEncoder, as it is new and after flush *)
NewEncoder == [buf |-> EmptyStream, t0 |-> 0, t1 |-> 0, t |-> 0, tDelta |-> 0, v |-> 0,
               leading |-> 0, trailing |-> 0]

(* A value that changes: the XOR with the last one, cut to the window of    *)
(* its significant bits when they fit, or with a window of its own.         *)
writeVDelta(e, v) ==
    LET vDelta == v ^^ e.v
        leading == Min({LeadingZeros(vDelta), WordBits \div 2 - 1})
        trailing == TrailingZeros(vDelta)
        sigbits == WordBits - leading - trailing
        changed == writeBit(e.buf, 1)
        window == writeBits(writeBits(writeBit(changed, 1), leading, LeadingBits), sigbits, SigBits)
    IN  IF vDelta = 0 THEN [e EXCEPT !.buf = writeBit(e.buf, 0)]
        ELSE IF leading >= e.leading /\ trailing >= e.trailing
        THEN [e EXCEPT !.buf = writeBits(writeBit(changed, 0), vDelta \div 2 ^ e.trailing,
                                         WordBits - e.leading - e.trailing)]
        ELSE [e EXCEPT !.buf = writeBits(window, vDelta \div 2 ^ trailing, sigbits),
                       !.leading = leading, !.trailing = trailing]

(* The delta of deltas in the smallest of its buckets. *)
writeDod(b, dod) ==
    CASE dod = 0                              -> writeBit(b, 0)
      [] dod # 0 /\ dod \in -63..64           -> writeBits(writeBits(b, 2, 2), uint(dod), 7)
      [] dod \in (-255..256) \ (-63..64)      -> writeBits(writeBits(b, 6, 3), uint(dod), 9)
      [] dod \in (-2047..2048) \ (-255..256)  -> writeBits(writeBits(b, 14, 4), uint(dod), 12)
      [] OTHER                                -> writeBits(writeBits(b, 15, 4), uint(dod), WordBits)

(* A t0 or t1 of 0 stands for "not yet": the first point is written as it   *)
(* is, the second as a delta, the others as deltas of deltas.               *)
encodePoint(e, p) ==
    LET delta == uint(p.t - (IF e.t1 = 0 THEN e.t0 ELSE e.t))
        first == [e EXCEPT !.buf = writeBits(writeBytes(e.buf, PutVarint(p.t)), p.v, WordBits),
                           !.t0 = p.t]
        second == [writeVDelta([e EXCEPT !.buf = writeBytes(e.buf, PutUvarint(delta))], p.v)
                      EXCEPT !.t1 = p.t]
        later == writeVDelta([e EXCEPT !.buf = writeDod(e.buf, int(delta - e.tDelta))], p.v)
    IN  [(IF e.t0 = 0 THEN first ELSE IF e.t1 = 0 THEN second ELSE later)
            EXCEPT !.t = p.t, !.v = p.v, !.tDelta = IF e.t0 = 0 THEN 0 ELSE delta]

-----------------------------------------------------------------------------
(* gorillaDecoder.  got is what was read last, and ok is FALSE after an      *)
(* error, which every caller returns at once: nothing is read after it.      *)
newSeriesDecoder(bytes) == [br |-> newBReader(bytes), numRead |-> 0, t |-> 0, tDelta |-> 0,
                            v |-> 0, leading |-> 0, trailing |-> 0, got |-> 0, ok |-> TRUE]

Got(d, read) == [d EXCEPT !.br = read.r, !.got = read.v, !.ok = read.ok]
Get(d, nbits) == IF d.ok THEN Got(d, readBits(d.br, nbits)) ELSE d

(* encoding/binary, a byte at a time from ReadByte: k have been read *)
RECURSIVE Uvarint(_, _, _)
Uvarint(d, k, v) ==
    LET w == v + (d.got % 2 ^ Payload) * 2 ^ (Payload * (k - 1))
    IN  IF d.got < 2 ^ Payload THEN [d EXCEPT !.got = w % Word]
        ELSE IF k = MaxVarintLen THEN [d EXCEPT !.ok = FALSE]
        ELSE Uvarint(Get(d, ByteBits), k + 1, w)

ReadUvarint(d) == Uvarint(Get(d, ByteBits), 1, 0)
Unzigzag(d) == [d EXCEPT !.got = IF @ % 2 = 0 THEN @ \div 2 ELSE -((@ + 1) \div 2)]
ReadVarint(d) == Unzigzag(ReadUvarint(d))

(* The value: a bit for "changed", one for "window of its own", that window, *)
(* and the XOR cut to the window.                                            *)
Xored(d) == [d EXCEPT !.v = @ ^^ uint(d.got * 2 ^ d.trailing)]
readXor(d) == Xored(Get(d, WordBits - d.leading - d.trailing))
Leading(d) == [d EXCEPT !.leading = d.got]
Trailing(d) == [d EXCEPT !.trailing = WordBits - d.leading - (IF d.got = 0 THEN WordBits ELSE d.got)]
readWindow(d) == readXor(Trailing(Get(Leading(Get(d, LeadingBits)), SigBits)))
Changed(d) == IF d.got = 0 THEN readXor(d) ELSE readWindow(d)
Value(d) == IF d.got = 0 THEN d ELSE Changed(Get(d, 1))
readValue(d) == Value(Get(d, 1))

(* The bits before the first 0, four at most, choose the bucket. *)
RECURSIVE Delimiter(_, _)
Delimiter(d, ones) ==
    IF d.got = 0 \/ ~d.ok THEN [d EXCEPT !.got = ones]
    ELSE IF ones = 3 THEN [d EXCEPT !.got = 4]
    ELSE Delimiter(Get(d, 1), ones + 1)
readDelimiter(d) == Delimiter(Get(d, 1), 0)

BucketBits == <<7, 9, 12, WordBits>>

(* Mutant: the upper end of a bucket is read as a negative number. *)
signed_Inclusive(bits, sz) == IF sz < WordBits /\ bits >= 2 ^ (sz - 1) THEN bits - 2 ^ sz ELSE int(bits)

signed(bits, sz) == IF sz < WordBits /\ bits > 2 ^ (sz - 1) THEN bits - 2 ^ sz ELSE int(bits)

Signed(d, sz) == [d EXCEPT !.got = signed(@, sz)]
Dod(d) == IF d.got = 0 THEN d ELSE Signed(Get(d, BucketBits[d.got]), BucketBits[d.got])
readDod(d) == Dod(readDelimiter(d))

(* The point is the decoder's t and v where there is no error. *)
Moved(d, tDelta) == readValue([d EXCEPT !.tDelta = tDelta, !.t = int(@ + tDelta)])
First(d) == [d EXCEPT !.v = d.got, !.numRead = 1]
Timed(d) == First(Get([d EXCEPT !.t = d.got], WordBits))
Second(d) == [Moved(d, d.got) EXCEPT !.numRead = 2]
Later(d) == Moved(d, uint(d.tDelta + d.got))
decodePoint(d) ==
    CASE d.numRead = 0 -> Timed(ReadVarint(d))
      [] d.numRead = 1 -> Second(ReadUvarint(d))
      [] OTHER         -> Later(readDod(d))
=============================================================================
