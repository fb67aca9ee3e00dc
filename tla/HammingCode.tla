---------------------------- MODULE HammingCode ----------------------------
(***************************************************************************)
(* src/encoders/hamming_encoder.cc: k bits of the message are hidden in    *)
(* 2^k - 1 bits of the picture as the syndrome of a Hamming code, so that  *)
(* at most one of these bits has to change.  A block is the least number   *)
(* of bytes that is a whole number of k-bit values; its codewords are      *)
(* padded to whole bytes.                                                  *)
(*                                                                         *)
(* Buffers are functions from 0..(n - 1) to bytes, a pointer into one is   *)
(* the number of its byte; shifts are products and quotients of powers of  *)
(* two.  PictureCarrier.tla embeds with these definitions.                 *)
(***************************************************************************)
EXTENDS Integers, FiniteSets

Math == INSTANCE StegoMath WITH MulmodLimit <- 0

-----------------------------------------------------------------------------
\* 1 << n
Power == [n \in 0..8 |-> <<1, 2, 4, 8, 16, 32, 64, 128, 256>>[n + 1]]

\* Digit d of a number, counted from the least significant one.
Digit(x, d) == (x \div Power[d]) % 2

\* a ^ b, of two bytes.
XorTable ==
    [p \in (0..255) \X (0..255) |->
        LET digit(d) == (Digit(p[1], d) + Digit(p[2], d)) % 2
        IN  digit(0) + 2 * digit(1) + 4 * digit(2) + 8 * digit(3)
              + 16 * digit(4) + 32 * digit(5) + 64 * digit(6) + 128 * digit(7)]
Xor(a, b) == XorTable[<<a, b>>]

-----------------------------------------------------------------------------
(* HammingEncoder::Init.                                                   *)

TotalBits(k) == Power[k] - 1

DataBlockSize(k) == Math!Lcm(k, 8) \div 8
CodewordsInBlock(k) == (DataBlockSize(k) * 8) \div k
CodewordBufferSize(k) == (TotalBits(k) - 1) \div 8 + 1
CodewordBlockSize(k) == CodewordBufferSize(k) * CodewordsInBlock(k)

-----------------------------------------------------------------------------
(* The helpers on buffers.                                                 *)

Least(a, b) == IF a < b THEN a ELSE b

\* Mutant of ReadBitsFromBuffer: a value ends where its byte ends.
ReadBitsInOneByte(buffer, offset, length) ==
    LET bit == offset % 8
        n == Least(8 - bit, length)
    IN  (((buffer[offset \div 8] * Power[bit]) % 256) \div Power[8 - n]) * Power[length - n]

\* The bits from offset on as a number, the most significant one first.  A value has
\* at most 8 bits: the loop turns once, and once more if it goes on in the next byte.
ReadBitsFromBuffer(buffer, offset, length) ==
    LET byte == offset \div 8
        bit == offset % 8
        here == Least(8 - bit, length)
        there == length - here
        top == ((buffer[byte] * Power[bit]) % 256) \div Power[8 - bit - here]
    IN  Xor((top \div Power[bit]) * Power[there],
            IF there = 0 THEN 0 ELSE buffer[byte + 1] \div Power[8 - there])

\* Mutant of WriteBitsToBuffer: the part in the second byte is not moved up.
WriteBitsLow(k, value, offset, buffer) ==
    LET shr == k - 8 + (offset % 8)
        byte == offset \div 8
    IN  IF shr <= 0
        THEN [buffer EXCEPT ![byte] = Xor(@, (value * Power[-shr]) % 256)]
        ELSE [buffer EXCEPT ![byte] = Xor(@, value \div Power[shr]),
                            ![byte + 1] = Xor(@, value % Power[shr])]

\* shr is shr_value: how far the value reaches beyond the byte of its first bit.
WriteBitsToBuffer(k, value, offset, buffer) ==
    LET byte == offset \div 8
        shr == k - 8 + (offset % 8)
        part(b) == IF b = byte
                   THEN IF shr < 0 THEN (value * Power[-shr]) % 256
                                   ELSE (value \div Power[shr]) % 256
                   ELSE IF b = byte + 1 /\ shr > 0 THEN (value * Power[8 - shr]) % 256
                   ELSE 0
    IN  [b \in DOMAIN buffer |-> Xor(buffer[b], part(b))]

\* Bit i, counted from 1 and from the most significant one of the byte at.
Bit(buffer, at, i) == Digit(buffer[at + (i - 1) \div 8], 7 - ((i - 1) % 8))

\* The exclusive or of the positions of all the bits of a codeword that are set;
\* h[<<p, n>>] is that of n positions from p on.
ComputeH(k, buffer, at) ==
    LET h[r \in Nat \X (0..TotalBits(k))] ==
            IF r[2] <= 1 THEN IF r[2] = 1 /\ Bit(buffer, at, r[1]) = 1 THEN r[1] ELSE 0
            ELSE Xor(h[<<r[1], r[2] \div 2>>],
                     h[<<r[1] + (r[2] \div 2), r[2] - (r[2] \div 2)>>])
    IN  h[<<1, TotalBits(k)>>]

\* Mutant of SwapBitInCodeword: bits are counted from 0.
SwapBitFromZero(buffer, at, i) ==
    IF i = 0 THEN buffer
    ELSE [buffer EXCEPT ![at + i \div 8] = Xor(@, Power[7 - (i % 8)])]

SwapBitInCodeword(buffer, at, i) ==
    IF i = 0 THEN buffer
    ELSE [buffer EXCEPT ![at + (i - 1) \div 8] = Xor(@, Power[7 - ((i - 1) % 8)])]

-----------------------------------------------------------------------------
(* A block: its codewords lie one after the other, in bytes of their own.  *)

\* The buffer, with the data embedded into the block at byte "at".
Embed(k, buffer, at, data) ==
    LET turn[i \in 0..CodewordsInBlock(k)] == \* after i turns of the loop
            IF i = 0 THEN buffer
            ELSE LET before == turn[i - 1]
                     word == at + (i - 1) * CodewordBufferSize(k)
                     h == Xor(ComputeH(k, before, word), ReadBitsFromBuffer(data, (i - 1) * k, k))
                 IN  SwapBitInCodeword(before, word, h)
    IN  turn[CodewordsInBlock(k)]

\* The data of the block at byte "at".
Extract(k, buffer, at) ==
    LET turn[i \in 0..CodewordsInBlock(k)] ==
            IF i = 0 THEN [b \in 0..(DataBlockSize(k) - 1) |-> 0]
            ELSE LET word == at + (i - 1) * CodewordBufferSize(k)
                 IN  WriteBitsToBuffer(k, ComputeH(k, buffer, word), (i - 1) * k, turn[i - 1])
    IN  turn[CodewordsInBlock(k)]

=============================================================================
