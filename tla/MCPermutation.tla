--------------------------- MODULE MCPermutation ---------------------------
EXTENDS Permutation

MCKeys == 1..4

\* Four keys with tables and factors that have nothing in common.
MCHash(k, t, e) == ((e + 3) * (e + k) * (2 * k + 1) + 11 * t * t + 5 * k * t + 29 * k) % 257
MCKeyA(k) == 5 + 37 * k * k
MCKeyB(k) == 11 + 23 * k

\* Exclusive or of numbers below 256, bit by bit.
Bit(u, b) == (u \div 2 ^ b) % 2
MCXor(u, v) ==
    LET sum[b \in 0..8] ==
            IF b = 8 THEN 0
            ELSE (IF Bit(u, b) # Bit(v, b) THEN 2 ^ b ELSE 0) + sum[b + 1]
    IN  sum[0]

MCRequests == 0..3 \cup 15..40 \cup {63, 64, 65, 127, 128}

=============================================================================
