-------------------------- MODULE MCStorageLayout --------------------------
EXTENDS StorageLayout

CONSTANT MaxSize \* largest size of a global permutation

Identity(n) == [c \in 0..(n - 1) |-> c]
Reversal(n) == [c \in 0..(n - 1) |-> n - 1 - c]
Halves(n) == [c \in 0..(n - 1) |-> (c + n \div 2) % n]

\* For every size up to MaxSize the identity, the reversal and a rotation.
MCGlobalPerms ==
    UNION {{[size |-> n, map |-> p] : p \in {Identity(n), Reversal(n), Halves(n)}} :
               n \in 0..MaxSize}

=============================================================================
