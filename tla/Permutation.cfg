SPECIFICATION Spec
CONSTANTS
    MulmodLimit = 6
    Kinds = {"identity", "affine", "affine64", "num", "mix"}
    Requests <- MCRequests
    Keys <- MCKeys
    Hash <- MCHash
    KeyA <- MCKeyA
    KeyB <- MCKeyB
    Xor <- MCXor
    MinReqSize = 16
    MinBits = 4
    MaxAffine = 100
    MaxIndex = 63
CHECK_DEADLOCK FALSE
INVARIANTS
    FeistelIsPermutation
    AffineIsPermutation
    SizeIsAsDeclared
    SizeIsClosestPrime
    TablesSuffice
    MixStaysInRow
