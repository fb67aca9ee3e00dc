---------------------------- MODULE Permutation ----------------------------
(***************************************************************************)
(* src/permutations: the permutations of a storage's bytes (global) and of *)
(* a picture's bits (local).  One object is followed from the moment its   *)
(* size is asked for (CarrierFile::SetEncoder, by GetSizeUsingParams) over *)
(* Init (VirtualStorage::ApplyPermutation, the carriers' LoadFile) to the  *)
(* images of all its elements, in the order in which Permute is called by  *)
(* ReadByte, WriteByte and the carriers' bit loops.                        *)
(*                                                                         *)
(* A key is what the code derives from its bytes: Hash(key, t, i) is the   *)
(* first word of the hash for table t and element i, KeyA and KeyB are the *)
(* folded halves of the key.                                               *)
(***************************************************************************)
EXTENDS StegoMath

CONSTANTS
    Kinds,          \* subset of {"identity", "affine", "affine64", "num", "mix"}
    Requests,       \* sizes asked for
    Keys,
    Hash(_, _, _), KeyA(_), KeyB(_),
    Xor(_, _),      \* exclusive or of two machine words
    MinReqSize,     \* FMPMinReqSize, MinReqSize: 1024
    MinBits,        \* 8: the fewest digits the mixed Feistel permutation accepts
    MaxAffine,      \* 0xFFFFFFFF: the largest size of the 32-bit affine one
    MaxIndex        \* bound: elements of one half of a Feistel pair

Rounds == 0..4

-----------------------------------------------------------------------------
(* The sizes.  Init and GetSizeUsingParams compute them separately.        *)

\* Mutant of RightBits: the shorter half on the right.
RightBitsShort(n) == Log2(n) \div 2

RightBits(n) == Log2(n) - Log2(n) \div 2

RightSize(n) == Shifted(RightBits(n)) \* right_mask_ + 1
LeftMod(n) == n \div RightSize(n)

\* Mutant of Modulus: the square may exceed the size asked for.
ModulusAbove(n) == CHOOSE m \in 0..n : m * m >= n /\ (m = 0 \/ (m - 1) * (m - 1) < n)

Modulus(n) == CHOOSE m \in 0..n : m * m <= n /\ n < (m + 1) * (m + 1)

ASSUME PermutationAssumption ==
    /\ Kinds \subseteq {"identity", "affine", "affine64", "num", "mix"}
    /\ Requests \subseteq Nat
    /\ MinReqSize \in Nat \ {0, 1}
    /\ MinBits \in Nat
    /\ MaxAffine \in Nat
    /\ MaxIndex \in Nat
    /\ MulmodLimit \in Nat

\* The words of a hash and of a key are unsigned, and exclusive or of words without
\* a bit above those of s - 1, s a power of two, is such a word and undoes itself.
ASSUME WordAssumption ==
    /\ \A k \in Keys, t \in Rounds, e \in 0..MaxIndex : Hash(k, t, e) \in Nat
    /\ \A k \in Keys : KeyA(k) \in Nat /\ KeyB(k) \in Nat
    /\ \A n \in Requests : \A u, v \in 0..(RightSize(n) - 1) :
           Xor(u, v) \in 0..(RightSize(n) - 1) /\ Xor(Xor(u, v), v) = u

\* The bound for halves is one for the sizes asked for.
ASSUME HalvesAssumption ==
    \A n \in Requests : RightSize(n) <= MaxIndex + 1 /\ Modulus(n) <= MaxIndex + 1

AffineSize(n) == ClosestSmallerPrime(n)

\* 0 stands for a size that is refused.  Affine64Permutation inherits this method
\* with the limit of the 32-bit class, which its own Init does not have.
GetSizeUsingParams(type, n) ==
    CASE type = "identity" -> n
      [] type = "num"      -> IF n < MinReqSize THEN 0 ELSE Modulus(n) * Modulus(n)
      [] type = "mix"      -> IF n < MinReqSize \/ Log2(n) < MinBits THEN 0
                              ELSE LeftMod(n) * RightSize(n)
      [] type \in {"affine", "affine64"} -> IF n > MaxAffine THEN 0 ELSE AffineSize(n)

\* Init throws.
Refused(type, n) ==
    \/ type = "identity" /\ n = 0
    \/ type = "num" /\ n < MinReqSize
    \/ type = "mix" /\ (n < MinReqSize \/ Log2(n) < MinBits)
    \/ type = "affine" /\ (n > MaxAffine \/ AffineSize(n) = 0)
    \/ type = "affine64" /\ AffineSize(n) = 0

\* The size_ that Init sets.
InitSize(type, n) ==
    CASE type = "identity" -> n
      [] type = "num"      -> Modulus(n) * Modulus(n)
      [] type = "mix"      -> LeftMod(n) * RightSize(n)
      [] type \in {"affine", "affine64"} -> AffineSize(n)

-----------------------------------------------------------------------------
(* The maps.                                                               *)

\* A round of FeistelNumPermutation on the pair <<left, right>>.
NumRound(k, m, t, x) ==
    IF t % 2 = 1
    THEN <<x[1], (x[2] + (Hash(k, t, x[1]) % m)) % m>>
    ELSE <<(x[1] + (Hash(k, t, x[2]) % m)) % m, x[2]>>

\* Mutant of Table: the hash is not reduced to the size of the table.
TableUnreduced(k, s, t, e) == Hash(k, t, e)

\* hash_tables_[t][e] of FeistelMixPermutation, with s = max_hash.
Table(k, s, t, e) == Hash(k, t, e) % s

\* Mutant of MixRound: the left half is not reduced.
MixRoundUnreduced(k, lm, s, t, x) ==
    IF t % 2 = 1
    THEN <<x[1], Xor(x[2], Table(k, s, t, x[1]) % s)>>
    ELSE <<x[1] + Table(k, s, t, x[2]), x[2]>>

\* A round of FeistelMixPermutation: modular addition on the left, exclusive or
\* on the right, with left_mod_ = lm and right_mask_ + 1 = s.
MixRound(k, lm, s, t, x) ==
    IF t % 2 = 1
    THEN <<x[1], Xor(x[2], Table(k, s, t, x[1]) % s)>>
    ELSE <<(x[1] + (Table(k, s, t, x[2]) \div s)) % lm, x[2]>>

NumPermute(k, m, e) ==
    LET x == NumRound(k, m, 4, NumRound(k, m, 3, NumRound(k, m, 2,
                 NumRound(k, m, 1, NumRound(k, m, 0, <<e \div m, e % m>>)))))
    IN  x[1] * m + x[2]

MixPermute(k, lm, s, e) ==
    LET x == MixRound(k, lm, s, 4, MixRound(k, lm, s, 3, MixRound(k, lm, s, 2,
                 MixRound(k, lm, s, 1, MixRound(k, lm, s, 0, <<e \div s, e % s>>)))))
    IN  x[1] * s + x[2]

\* key_param_a_ and key_param_b_ lie in the upper half below the prime p.
ParamA(k, p) == (KeyA(k) % (p \div 2)) + (p \div 2)
ParamB(k, p) == (KeyB(k) % (p \div 2)) + (p \div 2)

\* Mutant of AffinePermute: the factor is not invertible.
AffinePermuteFolded(k, p, e) == (e * (ParamA(k, p) - (p \div 2)) + ParamB(k, p)) % p

AffinePermute(k, p, e) == (((e * ParamA(k, p)) % p) + ParamB(k, p)) % p
Affine64Permute(k, p, e) == (Mulmod(e, ParamA(k, p), p) + ParamB(k, p)) % p

Permute(type, k, n, e) ==
    CASE type = "identity" -> e
      [] type = "num"      -> NumPermute(k, Modulus(n), e)
      [] type = "mix"      -> MixPermute(k, LeftMod(n), RightSize(n), e)
      [] type = "affine"   -> AffinePermute(k, AffineSize(n), e)
      [] type = "affine64" -> Affine64Permute(k, AffineSize(n), e)

-----------------------------------------------------------------------------
VARIABLES kind, key, requested, \* chosen once
          phase, \* "new", "ready", "refused"
          size,  \* size_
          image  \* image[e]: the image of element e, for those asked so far

vars == <<kind, key, requested, phase, size, image>>

Asked == DOMAIN image
Element == 0..(size - 1)

Init ==
    /\ kind \in Kinds /\ key \in Keys /\ requested \in Requests
    /\ phase = "new"
    /\ size = 0
    /\ image = [e \in {} |-> 0]

InitThrow ==
    /\ phase = "new"
    /\ Refused(kind, requested)
    /\ phase' = "refused"
    /\ UNCHANGED <<kind, key, requested, size, image>>

\* The affine loop ends only with a factor that is prime to the size.
InitPermutation ==
    /\ phase = "new"
    /\ ~Refused(kind, requested)
    /\ kind \in {"affine", "affine64"} =>
           Gcd(ParamA(key, AffineSize(requested)), AffineSize(requested)) = 1
    /\ phase' = "ready"
    /\ size' = InitSize(kind, requested)
    /\ UNCHANGED <<kind, key, requested, image>>

\* The loops over a storage or a picture ask for 0, 1, 2, ...
PermuteNext ==
    /\ phase = "ready"
    /\ \E e \in Element :
           /\ Asked = 0..(e - 1)
           /\ image' = [d \in 0..e |-> IF d = e THEN Permute(kind, key, requested, e)
                                       ELSE image[d]]
    /\ UNCHANGED <<kind, key, requested, phase, size>>

Next == InitThrow \/ InitPermutation \/ PermuteNext

Spec == Init /\ [][Next]_vars

-----------------------------------------------------------------------------
\* The images of the elements are pairwise different elements, so that the map of
\* all of them is a permutation.
NoCollision ==
    /\ \A e \in Asked : image[e] \in Element
    /\ \A d, e \in Asked : d # e => image[d] # image[e]

\* FeistelMixPermutation, FeistelNumPermutation, IdentityPermutation: neither two
\* bytes of a storage nor two bits of a picture share a place, none falls outside.
FeistelIsPermutation == kind \in {"identity", "num", "mix"} => NoCollision

\* The same of AffinePermutation and Affine64Permutation, whose factor must be
\* prime to the size that the prime search has found.
AffineIsPermutation == kind \in {"affine", "affine64"} => NoCollision

\* The capacity of a carrier is computed from GetSizeUsingParams before its
\* permutation exists.  Init must come to the same size, which must fit into what
\* is there, and refuse exactly the sizes that were said to give nothing; only
\* Affine64Permutation accepts sizes above 32 bits that it had said to refuse.
SizeIsAsDeclared ==
    LET declared == GetSizeUsingParams(kind, requested)
    IN  /\ phase = "refused" => declared = 0
        /\ phase = "ready" =>
               /\ size \in 1..requested
               /\ declared = size \/ (kind = "affine64" /\ requested > MaxAffine)

IsPrime(p) == p > 1 /\ \A d \in 2..(p - 1) : p % d # 0

\* An affine permutation has the largest odd prime that fits, found by the
\* Miller-Rabin test.
SizeIsClosestPrime ==
    phase = "ready" /\ kind \in {"affine", "affine64"} =>
        IsPrime(size) /\ \A p \in (size + 1)..requested : p = 2 \/ ~IsPrime(p)

\* The mixed Feistel permutation looks its tables up with the left half in odd
\* rounds; the tables have as many entries as the right half has values.
TablesSuffice ==
    phase = "ready" /\ kind = "mix" => LeftMod(requested) <= RightSize(requested)

\* What the mixed Feistel permutation, the default one, really does: the value
\* added to the left half is a table entry shifted right by all its bits, which
\* is 0, so an element never leaves its row of RightSize neighbours.
MixStaysInRow ==
    kind = "mix" => \A e \in Asked :
        image[e] \div RightSize(requested) = e \div RightSize(requested)

=============================================================================
