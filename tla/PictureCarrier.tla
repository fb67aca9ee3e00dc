--------------------------- MODULE PictureCarrier ---------------------------
(***************************************************************************)
(* CarrierFileBMP, CarrierFilePNG and CarrierFileJPEG: a picture's share   *)
(* of the storage, from its samples over the permuted buffer of their      *)
(* lowest bits and the encoder to the bytes of the storage, and back.      *)
(*                                                                         *)
(* A sample is a byte of the pixels (BMP, PNG), or a coefficient other     *)
(* than the first of a block of the Y component (JPEG).  The formats' own  *)
(* coding is external and without loss.  The local permutation is a        *)
(* parameter here (Permutation.tla), the Hamming encoder is HammingCode.tla; *)
(* what happens when a file cannot be read or written is in                *)
(* StegoStorage.tla, where its bytes lie in the storage and a picture that *)
(* gets no block in StorageLayout.tla.                                     *)
(***************************************************************************)
EXTENDS Integers, FiniteSets, Sequences, HammingCode

CONSTANTS
    Encoders,    \* 0 is LsbEncoder with its default block of one byte, k in 3..8
                 \* HammingEncoder with k parity bits
    Formats,     \* "pixels", "jpeg"
    Pictures(_, _), \* Pictures(e, f): sequences of samples
    Keys,
    Permute(_, _),  \* Permute(key, n): a permutation of 0..(m - 1) with m <= n
    Messages(_), \* Messages(n): what is written into a share of n bytes
    MaxSaves,    \* bound on the number of Saves
    None

-----------------------------------------------------------------------------
(* Encoder::Embed and Extract, for one block.                              *)

DataBlock(e) == IF e = 0 THEN 1 ELSE DataBlockSize(e)
CodewordBlock(e) == IF e = 0 THEN 1 ELSE CodewordBlockSize(e)

EmbedBlock(e, buffer, at, data) ==
    IF e = 0 THEN [buffer EXCEPT ![at] = data[0]] ELSE Embed(e, buffer, at, data)
ExtractBlock(e, buffer, at) ==
    IF e = 0 THEN [i \in {0} |-> buffer[at]] ELSE Extract(e, buffer, at)

-----------------------------------------------------------------------------
(* The samples that take a bit, and the buffer of the bits.                *)

\* Mutant of Usable: 0 and those next to it, as others do it.
UsableBySize(c) == c \notin -1..1

\* coefficient & 0xFFFE, of a number of 16 bits with sign
Usable(c) == c \notin {0, 1}

\* The numbers of S up to n, one after the other; part[<<a, k>>] are those of the k
\* numbers from a on.
Listed(S, n) ==
    LET part[r \in Nat \X (0..n)] ==
            IF r[2] = 0 \/ (r[2] = 1 /\ r[1] \notin S) THEN <<>>
            ELSE IF r[2] = 1 THEN <<r[1]>>
            ELSE part[<<r[1], r[2] \div 2>>]
                 \o part[<<r[1] + (r[2] \div 2), r[2] - (r[2] \div 2)>>]
    IN  part[<<1, n>>]

\* Positions of the samples that take bit 0, bit 1, ...
Slots(f, samples) ==
    IF f = "pixels" THEN [i \in DOMAIN samples |-> i]
    ELSE Listed({i \in DOMAIN samples : Usable(samples[i])}, Len(samples))

RawCapacity(f, samples) == Len(Slots(f, samples)) \div 8

\* Blocks and bytes of the storage that fit into so many bits.
Blocks(e, bits) == (bits \div 8) \div CodewordBlock(e)
ShareSize(e, bits) == Blocks(e, bits) * DataBlock(e)

\* A permutation of all elements below the number of its elements.
IsPermutation(order) ==
    LET elements == 0..(Cardinality(DOMAIN order) - 1)
    IN  DOMAIN order = elements /\ {order[i] : i \in elements} = elements

ASSUME PictureAssumption ==
    /\ Encoders \subseteq {0} \cup 3..8
    /\ Formats \subseteq {"pixels", "jpeg"}
    /\ MaxSaves \in Nat

ASSUME SamplesAssumption ==
    \A e \in Encoders, f \in Formats : \A p \in Pictures(e, f) :
        /\ p \in Seq(Int)
        /\ \A k \in Keys :
               LET order == Permute(k, RawCapacity(f, p) * 8)
                   bits == Cardinality(DOMAIN order)
                   size == ShareSize(e, bits)
               IN  /\ IsPermutation(order) /\ bits \in 0..(RawCapacity(f, p) * 8)
                   /\ Messages(size) \subseteq [0..(size - 1) -> 0..255]

-----------------------------------------------------------------------------
VARIABLES
    encoder, format, key,
    first,   \* auxiliary: the samples in the beginning
    disk,    \* the samples in the file
    raw,     \* raw_capacity_
    content, \* the carrier's share of the storage; None before LoadFile
    carried, \* auxiliary: the share that was last loaded or saved
    saved,   \* auxiliary: the share that was last saved, or None
    saves    \* number of Saves

vars == <<encoder, format, key, first, disk, raw, content, carried, saved, saves>>

Order == Permute(key, raw * 8)
Bits == Cardinality(DOMAIN Order)
BlockCount == Blocks(encoder, Bits)

\* SetBitInBufferPermuted for every bit that is set; the rest was cleared.
Buffer(samples) ==
    LET slots == Slots(format, samples)
        order == Order
        ones == {order[i] : i \in {j \in DOMAIN order : samples[slots[j + 1]] % 2 = 1}}
        bit(p) == IF p \in ones THEN 1 ELSE 0
    IN  [b \in 0..(raw - 1) |->
            bit(8 * b) + 2 * bit(8 * b + 1) + 4 * bit(8 * b + 2) + 8 * bit(8 * b + 3)
              + 16 * bit(8 * b + 4) + 32 * bit(8 * b + 5) + 64 * bit(8 * b + 6) + 128 * bit(8 * b + 7)]

GetBitInBufferPermuted(buffer, p) == Digit(buffer[p \div 8], p % 8)

\* (sample & 0xFE) | bit
WithLowestBit(c, bit) == (c - (c % 2)) + bit

\* The samples with the bits of the buffer.
WithBuffer(samples, buffer) ==
    LET slots == Slots(format, samples)
        order == Order
        takes(bit) == {slots[i + 1] : i \in {j \in DOMAIN order :
                                                GetBitInBufferPermuted(buffer, order[j]) = bit}}
        zeros == takes(0)
        ones == takes(1)
    IN  [s \in DOMAIN samples |->
            CASE s \in zeros -> WithLowestBit(samples[s], 0)
              [] s \in ones -> WithLowestBit(samples[s], 1)
              [] OTHER -> samples[s]]

-----------------------------------------------------------------------------
(* ExtractBufferUsingEncoder and EmbedBufferUsingEncoder.                  *)

ExtractBuffer(buffer) ==
    LET blocks == {<<b, ExtractBlock(encoder, buffer, b * CodewordBlock(encoder))>> :
                       b \in 0..(BlockCount - 1)}
        bytes(b) == (CHOOSE pair \in blocks : pair[1] = b)[2]
        size == DataBlock(encoder)
    IN  [i \in 0..(ShareSize(encoder, Bits) - 1) |-> bytes(i \div size)[i % size]]

BlockOf(bytes, b) ==
    [i \in 0..(DataBlock(encoder) - 1) |-> bytes[b * DataBlock(encoder) + i]]

\* Mutant of EmbedBuffer: into a buffer of zeros, as if the picture had not been
\* read before.
EmbedIntoZeros(buffer, bytes) ==
    LET embed[b \in 0..BlockCount] ==
            IF b = 0 THEN [i \in DOMAIN buffer |-> 0]
            ELSE EmbedBlock(encoder, embed[b - 1], (b - 1) * CodewordBlock(encoder),
                            BlockOf(bytes, b - 1))
    IN  embed[BlockCount]

\* What is behind the last whole block stays as it was read.
EmbedBuffer(buffer, bytes) ==
    LET embed[b \in 0..BlockCount] ==
            IF b = 0 THEN buffer
            ELSE EmbedBlock(encoder, embed[b - 1], (b - 1) * CodewordBlock(encoder),
                            BlockOf(bytes, b - 1))
    IN  embed[BlockCount]

-----------------------------------------------------------------------------
Init ==
    /\ encoder \in Encoders
    /\ format \in Formats
    /\ key \in Keys
    /\ first \in Pictures(encoder, format)
    /\ disk = first
    /\ raw = RawCapacity(format, first)
    /\ content = None /\ carried = None /\ saved = None
    /\ saves = 0

\* Once; file_loaded_ makes it return after that.
LoadFile ==
    /\ content = None
    /\ content' = ExtractBuffer(Buffer(disk))
    /\ carried' = content'
    /\ UNCHANGED <<encoder, format, key, first, disk, raw, saved, saves>>

\* Somebody writes into the storage.
WriteContent(bytes) ==
    /\ content # None /\ content = carried
    /\ content' = bytes
    /\ UNCHANGED <<encoder, format, key, first, disk, raw, carried, saved, saves>>

\* The file is read again, and written.
SaveFile ==
    /\ content # None
    /\ saves < MaxSaves
    /\ disk' = WithBuffer(disk, EmbedBuffer(Buffer(disk), content))
    /\ carried' = content
    /\ saved' = content
    /\ saves' = saves + 1
    /\ UNCHANGED <<encoder, format, key, first, raw, content>>

\* StegoStorage::Open makes a new object, which computes its capacity.
Construct ==
    /\ content # None
    /\ raw' = RawCapacity(format, disk)
    /\ content' = None /\ carried' = None
    /\ UNCHANGED <<encoder, format, key, first, disk, saved, saves>>

Next ==
    \/ LoadFile \/ SaveFile \/ Construct
    \/ \E bytes \in Messages(ShareSize(encoder, Bits)) : WriteContent(bytes)

Spec == Init /\ [][Next]_vars

-----------------------------------------------------------------------------
(* What keeps a picture readable.                                          *)

Bytes(n) == [0..(n - 1) -> 0..255]

BlockAt(e, at) == at..(at + CodewordBlock(e) - 1)

\* What an encoder promises of one block: Extract looks at nothing else, Embed
\* changes nothing else, and one undoes the other in both directions.
BlockIsKept(e, n, buffer, at, data) ==
    LET block == BlockAt(e, at)
        new == EmbedBlock(e, buffer, at, data)
        alone == [i \in DOMAIN buffer |-> IF i \in block THEN buffer[i] ELSE 0]
        old == ExtractBlock(e, buffer, at)
    IN  /\ old \in Bytes(DataBlock(e)) /\ ExtractBlock(e, alone, at) = old
        /\ new \in Bytes(n) /\ \A i \in DOMAIN buffer : i \notin block => new[i] = buffer[i]
        /\ ExtractBlock(e, new, at) = data
        /\ data = old => new = buffer

EncoderContract ==
    \A e \in Encoders, n \in Nat : \A at \in 0..(n - CodewordBlock(e)) :
        \A buffer \in Bytes(n), data \in Bytes(DataBlock(e)) : BlockIsKept(e, n, buffer, at, data)

PictureTypes ==
    /\ encoder \in Encoders /\ format \in Formats /\ key \in Keys
    /\ first \in Pictures(encoder, format) /\ disk \in Seq(Int)
    /\ raw = RawCapacity(format, first)

\* A sample changes in its lowest bit, and only if it takes one.
SamplesInv ==
    /\ DOMAIN disk = DOMAIN first
    /\ \A s \in DOMAIN first :
           /\ disk[s] \div 2 = first[s] \div 2
           /\ format = "jpeg" /\ first[s] \in {0, 1} => disk[s] = first[s]

\* What was loaded or saved is in the samples.
ShareInv ==
    /\ content # None => content \in Bytes(ShareSize(encoder, Bits))
    /\ carried # None => carried = ExtractBuffer(Buffer(disk))
    /\ saved # None => saved = ExtractBuffer(Buffer(disk))

PictureInv == PictureTypes /\ SamplesInv /\ ShareInv

-----------------------------------------------------------------------------
\* A new object reads from the picture what the last Save put into it, through
\* permutation, encoder and file format.
RoundTrip == [][LoadFile /\ saved # None => content' = saved]_vars

\* Saving what was just loaded or saved leaves the picture as it is, sample by
\* sample: only what somebody wrote can be seen in it.
SilentSave == [][SaveFile /\ content = carried => disk' = disk]_vars

\* Save puts into every codeword the value that belongs to it, whatever values,
\* paddings and bytes lie beside it: each digit of value j of a block, a bit of the
\* data, is the parity of the set bits whose position in the codeword has that digit.
SyndromeCarriesValue ==
    saved # None /\ encoder # 0 =>
        LET buffer == Buffer(disk) IN
        \A b \in 0..(BlockCount - 1), j \in 0..(CodewordsInBlock(encoder) - 1) :
            LET word == b * CodewordBlock(encoder) + j * CodewordBufferSize(encoder)
                ones == {p \in 1..TotalBits(encoder) : Bit(buffer, word, p) = 1}
            IN  \A d \in 0..(encoder - 1) :
                    Cardinality({p \in ones : Digit(p, d) = 1}) % 2
                        = Bit(saved, b * DataBlock(encoder), j * encoder + encoder - d)

\* "for insertion of k bits into 2^k-1 bits we need modify at most 1 bit"
\* (hamming_encoder.cc:91): no codeword changes in more than one sample, and what
\* is in no codeword (padding, the rest after the last block) does not change.
AtMostOneChange ==
    [][SaveFile /\ encoder # 0 =>
          LET size == CodewordBufferSize(encoder)
              codewords == BlockCount * CodewordsInBlock(encoder)
          IN  \A old \in {Buffer(disk)}, new \in {Buffer(disk')} :
                  /\ \A w \in 0..(codewords - 1) :
                         LET changes == {p \in 1..(8 * size) :
                                            Bit(old, w * size, p) # Bit(new, w * size, p)}
                         IN  Cardinality(changes) <= 1 /\ 8 * size \notin changes
                  /\ \A b \in DOMAIN old : b >= codewords * size => old[b] = new[b]]_vars

\* Nothing that Save does to a picture changes which of its samples take bits,
\* nor more than their lowest bit: a new object finds the same room, as the
\* layout of the storage requires.
SlotsStay ==
    /\ raw = RawCapacity(format, first)
    /\ Slots(format, disk) = Slots(format, first)
    /\ \A s \in DOMAIN first :
           first[s] # disk[s] =>
               /\ disk[s] \div 2 = first[s] \div 2
               /\ format = "jpeg" => first[s] \notin {0, 1}

=============================================================================
