----------------------------- MODULE StegoMath -----------------------------
(***************************************************************************)
(* src/utils/stego_math.cc: the number theory of the affine permutations   *)
(* and of the encoders' block sizes, as recursive functions.               *)
(***************************************************************************)
EXTENDS Integers

CONSTANT MulmodLimit \* 0xFFFFFF: below it Mulmod multiplies directly

Gcd(a, b) ==
    LET g[p \in Nat \X (Nat \ {0})] ==
            IF p[1] % p[2] = 0 THEN p[2] ELSE g[<<p[2], p[1] % p[2]>>]
    IN  g[<<a, b>>]

Lcm(a, b) == (a * b) \div Gcd(a, b)

\* 1 shifted left by k.
Shifted(k) ==
    LET pow[b \in Nat] == IF b = 0 THEN 1 ELSE 2 * pow[b - 1]
    IN  pow[k]

\* The number of binary digits: 64 less the leading zeros.
Log2(number) ==
    LET digits[n \in Nat] == IF n = 0 THEN 0 ELSE 1 + digits[n \div 2]
    IN  digits[number]

\* a^b modulo c by repeated squaring.
Modulo(a, b, c) ==
    LET power[t \in Nat \X Nat \X Nat] == \* <<y, b, x>>
            IF t[2] = 0 THEN t[3] % c
            ELSE power[<<(t[1] * t[1]) % c, t[2] \div 2,
                         IF t[2] % 2 = 1 THEN (t[3] * t[1]) % c ELSE t[3]>>]
    IN  power[<<a, b, 1>>]

\* a*b modulo m without the product, which would not fit into 64 bits.
Mulmod(a, b, m) ==
    IF a < MulmodLimit /\ b < MulmodLimit THEN (a * b) % m
    ELSE LET add[t \in Nat \X Nat \X Nat] == \* <<a, b, res>>
                 IF t[1] = 0 THEN t[3]
                 ELSE add[<<t[1] \div 2, (2 * t[2]) % m,
                            IF t[1] % 2 = 1 THEN (t[3] + t[2]) % m ELSE t[3]>>]
         IN  add[<<a, b, 0>>]

OddPart(n) == LET odd[s \in Nat] == IF s % 2 = 0 THEN odd[s \div 2] ELSE s IN odd[n]

\* One round of the test with the drawn number a.
PassesWith(p, a) ==
    LET end[t \in Nat \X Nat] == \* <<temp, mod>>
            IF t[1] # p - 1 /\ t[2] # 1 /\ t[2] # p - 1
            THEN end[<<2 * t[1], Mulmod(t[2], t[2], p)>>]
            ELSE t[2] = p - 1 \/ t[1] % 2 = 1
    IN  end[<<OddPart(p - 1), Modulo(a, OddPart(p - 1), p)>>]

\* The code draws 26 numbers with rand(); here every number is drawn, so that a
\* composite number never passes by luck.
MillerRabin(p) ==
    /\ p >= 2
    /\ p = 2 \/ p % 2 # 0
    /\ \A a \in 1..(p - 1) : PassesWith(p, a)

\* Mutant of ClosestSmallerPrime: steps over candidates.
ClosestSmallerPrimeBy4(number) ==
    LET down[n \in Nat] == IF ~MillerRabin(n) /\ n > 4 THEN down[n - 4] ELSE n
        found == down[IF number % 2 = 0 THEN number - 1 ELSE number]
    IN  IF number < 2 \/ found <= 1 THEN 0 ELSE found

\* 2 is never found: an even number is decremented before the search.
ClosestSmallerPrime(number) ==
    LET down[n \in Nat] == IF ~MillerRabin(n) /\ n > 2 THEN down[n - 2] ELSE n
        found == down[IF number % 2 = 0 THEN number - 1 ELSE number]
    IN  IF number < 2 \/ found <= 1 THEN 0 ELSE found

=============================================================================
