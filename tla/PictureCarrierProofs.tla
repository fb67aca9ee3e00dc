------------------------ MODULE PictureCarrierProofs ------------------------
(***************************************************************************)
(* For any pictures, encoders, local permutations, messages and number of  *)
(* Saves: a Save changes neither which samples take bits nor anything but  *)
(* their lowest bit, and at most one bit of a codeword; a new object finds *)
(* what was saved, and saving what was loaded changes nothing.             *)
(*                                                                         *)
(* The Hamming code: digit d of a codeword's syndrome is the parity of the *)
(* set bits whose position has that digit, so that flipping bit h changes  *)
(* the syndrome by h; what a value's digits are in a block of data and the *)
(* sizes of blocks follow from the arithmetic of shifts.  With LSB's one   *)
(* byte, this gives what is promised of a block (EncoderContract).         *)
(*                                                                         *)
(* The samples that take bits are listed once each and depend only on what *)
(* a Save leaves alone.  Over them, writing a buffer into the samples and  *)
(* reading it back are inverse to each other; block by block, so are       *)
(* EmbedBuffer and ExtractBuffer.                                          *)
(***************************************************************************)
EXTENDS PictureCarrier, FiniteSetTheorems, WellFoundedInduction, TLAPS

-----------------------------------------------------------------------------
(* Numbers.                                                                *)

\* The order of the numbers is well founded.
LEMMA LessIsWellFounded ==
    \E R : IsWellFoundedOn(R, Nat) /\ \A x, y \in Nat : x < y => <<x, y>> \in R
<1>. DEFINE R == OpToRel(<, Nat)
<1>1. IsWellFoundedOn(R, Nat)
  BY NatLessThanWellFounded
<1>2. \A x, y \in Nat : x < y => <<x, y>> \in R
  BY DEF OpToRel
<1>. HIDE DEF R
<1>. QED
  BY <1>1, <1>2

\* Every non-empty set of numbers has a least element.
LEMMA LeastElement ==
    ASSUME NEW T \in SUBSET Nat, T # {}
    PROVE  \E x \in T : \A y \in T : x <= y
<1>1. PICK R : IsWellFoundedOn(R, Nat) /\ \A x, y \in Nat : x < y => <<x, y>> \in R
  BY LessIsWellFounded
<1>2. \E x \in T : \A y \in T : ~ (<<y, x>> \in R)
  <2>1. IsWellFoundedOn(R, Nat)
    BY <1>1
  <2>2. T \subseteq Nat
    OBVIOUS
  <2>3. \A RR, S, TT : IsWellFoundedOn(RR, S) /\ TT \subseteq S /\ TT # {}
                          => \E x \in TT : \A y \in TT : ~ (<<y, x>> \in RR)
    BY WFMin, Zenon
  <2>. QED
    BY <2>1, <2>2, <2>3, Zenon
<1>3. PICK x \in T : \A y \in T : ~ (<<y, x>> \in R)
  BY <1>2
<1>4. \A y \in T : x <= y
  <2>. SUFFICES ASSUME NEW y \in T PROVE ~(y < x)
    OBVIOUS
  <2>. QED
    BY <1>1, <1>3
<1>. QED
  BY <1>4

\* The multiples of m that two numbers are apart from their remainders.
LEMMA DivisionUnique ==
    ASSUME NEW m \in Nat \ {0}, NEW q \in Int, NEW v \in Int,
           NEW r \in 0..(m - 1), NEW s \in 0..(m - 1), q * m + r = v * m + s
    PROVE  q = v /\ r = s
<1>1. ASSUME NEW c \in Int, NEW d \in Int, c < d
      PROVE  c * m + m <= d * m
  <2>1. PICK k \in Nat : d = (c + 1) + k
    <3>1. d - c - 1 \in Nat /\ d = (c + 1) + (d - c - 1)
      BY <1>1
    <3> QED BY <3>1
  <2>2. d * m = (c + 1) * m + k * m /\ (c + 1) * m = c * m + m
    BY <2>1
  <2>3. k * m \in Nat /\ c * m \in Int /\ (c + 1) * m \in Int
    OBVIOUS
  <2> QED BY <2>2, <2>3
<1>2. q * m \in Int /\ v * m \in Int
  OBVIOUS
<1>3. q = v
  BY <1>1, <1>2
<1> QED BY <1>2, <1>3

\* What dividing by m gives.
LEMMA Division ==
    ASSUME NEW m \in Nat \ {0}, NEW x \in Int
    PROVE  /\ x % m \in 0..(m - 1) /\ x \div m \in Int
           /\ x = (x \div m) * m + (x % m)
OBVIOUS

\* Counting upwards.
LEMMA CountUp ==
    ASSUME NEW n \in Nat, NEW S, 0 \in S, \A i \in 0..(n - 1) : i \in S => i + 1 \in S
    PROVE  \A i \in 0..n : i \in S
<1>. DEFINE Failing == {i \in 0..n : i \notin S}
<1>. SUFFICES ASSUME Failing # {} PROVE FALSE
  OBVIOUS
<1>1. Failing \in SUBSET Nat
  OBVIOUS
<1>2. PICK i \in Failing : \A j \in Failing : i <= j
  <2>. HIDE DEF Failing
  <2> QED BY <1>1, LeastElement
<1>3. i \in 0..n /\ i \notin S /\ i # 0
  OBVIOUS
<1>4. i - 1 \in 0..(n - 1) /\ i - 1 \notin Failing
  BY <1>2, <1>3
<1>5. i - 1 \in S /\ (i - 1) + 1 = i
  BY <1>3, <1>4
<1> QED BY <1>3, <1>4, <1>5

\* A loop of n turns, turn i of which makes of x the value step[<<i, x>>].
IsLoop(n, V, base, step) == base \in V /\ step \in [(1..n) \X V -> V]

HasTurns(n, V, base, step) ==
    \E g \in [0..n -> V] : g[0] = base /\ \A i \in 1..n : g[i] = step[<<i, g[i - 1]>>]

\* Every loop has its turns.
LEMMA LoopExists ==
    ASSUME NEW n \in Nat, NEW V, NEW base, NEW step, IsLoop(n, V, base, step)
    PROVE  HasTurns(n, V, base, step)
<1>. base \in V /\ step \in [(1..n) \X V -> V]
  BY DEF IsLoop
<1>. DEFINE Turns(m) == \E g \in [0..m -> V] :
                            g[0] = base /\ \A i \in 1..m : g[i] = step[<<i, g[i - 1]>>]
            S == {m \in 0..n : Turns(m)}
<1>1. 0 \in S
  <2>1. PICK z : z = [i \in 0..0 |-> base]
    OBVIOUS
  <2>2. z \in [0..0 -> V] /\ z[0] = base
    BY <2>1
  <2>3. \A i \in 1..0 : FALSE
    OBVIOUS
  <2>4. Turns(0)
    BY <2>2, <2>3
  <2> QED BY <2>4
<1>2. ASSUME NEW m \in 0..(n - 1), m \in S
      PROVE  m + 1 \in S
  <2>1. PICK g \in [0..m -> V] : g[0] = base /\ \A i \in 1..m : g[i] = step[<<i, g[i - 1]>>]
    BY <1>2
  <2>. DEFINE f == [i \in 0..(m + 1) |-> IF i = m + 1 THEN step[<<i, g[m]>>] ELSE g[i]]
  <2>2. m \in Nat /\ m + 1 \in 1..n /\ m \in 0..m
    OBVIOUS
  <2>3. step[<<m + 1, g[m]>>] \in V
    BY <2>2
  <2>4. \A i \in 0..m : f[i] = g[i] /\ f[i] \in V
    BY <2>2
  <2>5. f[m + 1] = step[<<m + 1, g[m]>>] /\ DOMAIN f = 0..(m + 1)
    BY <2>2
  <2>6. f \in [0..(m + 1) -> V]
    BY <2>2, <2>3
  <2>. HIDE DEF f
  <2>7. f[0] = base
    BY <2>1, <2>2, <2>4
  <2>8. \A i \in 1..(m + 1) : f[i] = step[<<i, f[i - 1]>>]
    <3>. SUFFICES ASSUME NEW i \in 1..(m + 1) PROVE f[i] = step[<<i, f[i - 1]>>]
      OBVIOUS
    <3>1. CASE i = m + 1
      <4>1. i - 1 = m /\ f[m] = g[m]
        BY <2>2, <2>4, <3>1
      <4> QED BY <2>5, <3>1, <4>1
    <3>2. CASE i # m + 1
      <4>1. i \in 1..m /\ i \in 0..m /\ i - 1 \in 0..m
        BY <2>2, <3>2
      <4> QED BY <2>1, <2>4, <4>1
    <3> QED BY <3>1, <3>2
  <2>9. Turns(m + 1)
    BY <2>6, <2>7, <2>8
  <2>. HIDE DEF Turns
  <2> QED BY <2>2, <2>9
<1>. HIDE DEF S
<1>3. n \in 0..n
  OBVIOUS
<1>4. n \in S
  BY <1>1, <1>2, <1>3, CountUp
<1>. USE DEF S
<1> QED BY <1>4 DEF HasTurns

-----------------------------------------------------------------------------
(* Bits and bytes.                                                         *)

\* 1 << n.
LEMMA Powers ==
    /\ Power[0] = 1 /\ Power[1] = 2 /\ Power[2] = 4 /\ Power[3] = 8
    /\ Power[4] = 16 /\ Power[5] = 32 /\ Power[6] = 64 /\ Power[7] = 128
    /\ Power[8] = 256 /\ \A n \in 0..8 : Power[n] \in Nat \ {0}
<1>1. /\ Power[0] = 1 /\ Power[1] = 2 /\ Power[2] = 4 /\ Power[3] = 8
      /\ Power[4] = 16 /\ Power[5] = 32 /\ Power[6] = 64 /\ Power[7] = 128 /\ Power[8] = 256
  BY DEF Power
<1>2. ASSUME NEW n \in 0..8
      PROVE  Power[n] \in Nat \ {0}
  <2>1. n \in {0, 1, 2, 3, 4, 5, 6, 7, 8}
    OBVIOUS
  <2> QED BY <1>1, <2>1
<1> QED BY <1>1, <1>2

\* The numbers from 0 to 8.
LEMMA UpToEight ==
    /\ 0..8 = {0, 1, 2, 3, 4, 5, 6, 7, 8}
    /\ 0..7 = {0, 1, 2, 3, 4, 5, 6, 7}
OBVIOUS

\* Powers multiply.
LEMMA PowersMultiply ==
    ASSUME NEW a \in 0..8, NEW b \in 0..(8 - a)
    PROVE  Power[a + b] = Power[a] * Power[b]
<1>. b \in {0, 1, 2, 3, 4, 5, 6, 7, 8} /\ a \in {0, 1, 2, 3, 4, 5, 6, 7, 8}
  OBVIOUS
<1>0. CASE a = 0
  BY <1>0, Powers
<1>1. CASE a = 1
  BY <1>1, Powers
<1>2. CASE a = 2
  BY <1>2, Powers
<1>3. CASE a = 3
  BY <1>3, Powers
<1>4. CASE a = 4
  BY <1>4, Powers
<1>5. CASE a = 5
  BY <1>5, Powers
<1>6. CASE a = 6
  BY <1>6, Powers
<1>7. CASE a = 7
  BY <1>7, Powers
<1>8. CASE a = 8
  BY <1>8, Powers
<1> QED BY <1>0, <1>1, <1>2, <1>3, <1>4, <1>5, <1>6, <1>7, <1>8

\* A digit is 0 or 1.
LEMMA DigitIsBinary ==
    ASSUME NEW x \in Nat, NEW d \in 0..8
    PROVE  Digit(x, d) \in {0, 1} /\ x \div Power[d] \in Nat
<1>1. PICK p \in Nat \ {0} : p = Power[d]
  BY Powers
<1>2. x \div p \in Nat
  OBVIOUS
<1>3. PICK q \in Nat : q = x \div p
  BY <1>2
<1>4. q % 2 \in {0, 1}
  OBVIOUS
<1> QED BY <1>1, <1>2, <1>3, <1>4 DEF Digit

\* A byte is the sum of its bits.
LEMMA SumOfBits ==
    ASSUME NEW y \in 0..255
    PROVE  y = (y % 2) + 2 * ((y \div 2) % 2) + 4 * ((y \div 4) % 2) + 8 * ((y \div 8) % 2)
                 + 16 * ((y \div 16) % 2) + 32 * ((y \div 32) % 2) + 64 * ((y \div 64) % 2)
                 + 128 * ((y \div 128) % 2)
OBVIOUS

\* The digits of a byte, by name.
LEMMA DigitsOfByte ==
    ASSUME NEW y \in Nat
    PROVE  /\ Digit(y, 0) = y % 2 /\ Digit(y, 1) = (y \div 2) % 2 /\ Digit(y, 2) = (y \div 4) % 2
           /\ Digit(y, 3) = (y \div 8) % 2 /\ Digit(y, 4) = (y \div 16) % 2
           /\ Digit(y, 5) = (y \div 32) % 2 /\ Digit(y, 6) = (y \div 64) % 2
           /\ Digit(y, 7) = (y \div 128) % 2
<1>1. y \div 1 = y
  OBVIOUS
<1> QED BY <1>1, Powers DEF Digit

\* Bytes that have the same digits are equal.
LEMMA SameDigits ==
    ASSUME NEW x \in 0..255, NEW y \in 0..255, \A d \in 0..7 : Digit(x, d) = Digit(y, d)
    PROVE  x = y
<1>1. ASSUME NEW z \in 0..255
      PROVE  z = Digit(z, 0) + 2 * Digit(z, 1) + 4 * Digit(z, 2) + 8 * Digit(z, 3)
                   + 16 * Digit(z, 4) + 32 * Digit(z, 5) + 64 * Digit(z, 6) + 128 * Digit(z, 7)
  <2>1. z \in Nat
    OBVIOUS
  <2>2. z = (z % 2) + 2 * ((z \div 2) % 2) + 4 * ((z \div 4) % 2) + 8 * ((z \div 8) % 2)
              + 16 * ((z \div 16) % 2) + 32 * ((z \div 32) % 2) + 64 * ((z \div 64) % 2)
              + 128 * ((z \div 128) % 2)
    BY SumOfBits
  <2>3. /\ Digit(z, 0) = z % 2 /\ Digit(z, 1) = (z \div 2) % 2 /\ Digit(z, 2) = (z \div 4) % 2
        /\ Digit(z, 3) = (z \div 8) % 2 /\ Digit(z, 4) = (z \div 16) % 2
        /\ Digit(z, 5) = (z \div 32) % 2 /\ Digit(z, 6) = (z \div 64) % 2
        /\ Digit(z, 7) = (z \div 128) % 2
    BY <2>1, DigitsOfByte
  <2> QED BY <2>2, <2>3, Zenon
<1>2. /\ Digit(x, 0) = Digit(y, 0) /\ Digit(x, 1) = Digit(y, 1) /\ Digit(x, 2) = Digit(y, 2)
      /\ Digit(x, 3) = Digit(y, 3) /\ Digit(x, 4) = Digit(y, 4) /\ Digit(x, 5) = Digit(y, 5)
      /\ Digit(x, 6) = Digit(y, 6) /\ Digit(x, 7) = Digit(y, 7)
  OBVIOUS
<1> QED BY <1>1, <1>2, Zenon

\* A number made of binary digits has them.
LEMMA DigitsOfSum ==
    ASSUME NEW x0 \in {0, 1}, NEW x1 \in {0, 1}, NEW x2 \in {0, 1}, NEW x3 \in {0, 1},
           NEW x4 \in {0, 1}, NEW x5 \in {0, 1}, NEW x6 \in {0, 1}, NEW x7 \in {0, 1},
           NEW y, y = x0 + 2 * x1 + 4 * x2 + 8 * x3 + 16 * x4 + 32 * x5 + 64 * x6 + 128 * x7
    PROVE  /\ y \in 0..255
           /\ Digit(y, 0) = x0 /\ Digit(y, 1) = x1 /\ Digit(y, 2) = x2 /\ Digit(y, 3) = x3
           /\ Digit(y, 4) = x4 /\ Digit(y, 5) = x5 /\ Digit(y, 6) = x6 /\ Digit(y, 7) = x7
<1>1. y \in 0..255 /\ y % 2 = x0
  OBVIOUS
<1>2. (y \div 2) % 2 = x1
  OBVIOUS
<1>3. (y \div 4) % 2 = x2
  OBVIOUS
<1>4. (y \div 8) % 2 = x3
  OBVIOUS
<1>5. (y \div 16) % 2 = x4
  OBVIOUS
<1>6. (y \div 32) % 2 = x5
  OBVIOUS
<1>7. (y \div 64) % 2 = x6
  OBVIOUS
<1>8. (y \div 128) % 2 = x7
  OBVIOUS
<1>9. y \in Nat
  BY <1>1
<1> QED BY <1>1, <1>2, <1>3, <1>4, <1>5, <1>6, <1>7, <1>8, <1>9, DigitsOfByte

\* All digits of 0 are 0.
LEMMA ZeroDigits == \A d \in 0..7 : Digit(0, d) = 0
<1>. SUFFICES ASSUME NEW d \in 0..7 PROVE Digit(0, d) = 0
  OBVIOUS
<1>1. d \in {0, 1, 2, 3, 4, 5, 6, 7}
  OBVIOUS
<1> QED BY <1>1, Powers DEF Digit

\* The digits of an exclusive or.
LEMMA XorDigits ==
    ASSUME NEW a \in 0..255, NEW b \in 0..255
    PROVE  /\ Xor(a, b) \in 0..255
           /\ \A d \in 0..7 : Digit(Xor(a, b), d) = (Digit(a, d) + Digit(b, d)) % 2
<1>. DEFINE x(d) == (Digit(a, d) + Digit(b, d)) % 2
<1>1. ASSUME NEW d \in 0..7
      PROVE  x(d) \in {0, 1}
  <2>1. a \in Nat /\ b \in Nat /\ d \in 0..8
    OBVIOUS
  <2>2. Digit(a, d) \in {0, 1} /\ Digit(b, d) \in {0, 1}
    BY <2>1, DigitIsBinary
  <2> QED BY <2>2
<1>2. /\ x(0) \in {0, 1} /\ x(1) \in {0, 1} /\ x(2) \in {0, 1} /\ x(3) \in {0, 1}
      /\ x(4) \in {0, 1} /\ x(5) \in {0, 1} /\ x(6) \in {0, 1} /\ x(7) \in {0, 1}
  <2>. HIDE DEF x
  <2> QED BY <1>1
<1>3. Xor(a, b) = x(0) + 2 * x(1) + 4 * x(2) + 8 * x(3) + 16 * x(4) + 32 * x(5) + 64 * x(6)
                    + 128 * x(7)
  <2>1. <<a, b>> \in (0..255) \X (0..255) /\ <<a, b>>[1] = a /\ <<a, b>>[2] = b
    OBVIOUS
  <2> QED BY <2>1, Zenon DEF Xor, XorTable
<1>4. PICK y, x0, x1, x2, x3, x4, x5, x6, x7 :
          /\ y = Xor(a, b)
          /\ x0 = x(0) /\ x1 = x(1) /\ x2 = x(2) /\ x3 = x(3)
          /\ x4 = x(4) /\ x5 = x(5) /\ x6 = x(6) /\ x7 = x(7)
  OBVIOUS
<1>. HIDE DEF x
<1>5. /\ x0 \in {0, 1} /\ x1 \in {0, 1} /\ x2 \in {0, 1} /\ x3 \in {0, 1}
      /\ x4 \in {0, 1} /\ x5 \in {0, 1} /\ x6 \in {0, 1} /\ x7 \in {0, 1}
  BY <1>2, <1>4
<1>6. y = x0 + 2 * x1 + 4 * x2 + 8 * x3 + 16 * x4 + 32 * x5 + 64 * x6 + 128 * x7
  BY <1>3, <1>4
<1>7. /\ y \in 0..255
      /\ Digit(y, 0) = x0 /\ Digit(y, 1) = x1 /\ Digit(y, 2) = x2 /\ Digit(y, 3) = x3
      /\ Digit(y, 4) = x4 /\ Digit(y, 5) = x5 /\ Digit(y, 6) = x6 /\ Digit(y, 7) = x7
  BY <1>5, <1>6, DigitsOfSum
<1>8. ASSUME NEW d \in 0..7
      PROVE  Digit(y, d) = x(d)
  <2>1. d \in {0, 1, 2, 3, 4, 5, 6, 7}
    BY UpToEight
  <2> QED BY <1>4, <1>7, <2>1
<1> QED BY <1>4, <1>7, <1>8 DEF x

\* Exclusive or undoes itself, and is nothing exactly of equal numbers.
LEMMA XorUndone ==
    ASSUME NEW a \in 0..255, NEW b \in 0..255
    PROVE  /\ Xor(a, Xor(a, b)) = b /\ Xor(a, 0) = a /\ Xor(0, b) = b
           /\ Xor(a, b) = 0 <=> a = b
<1>0. 0 \in 0..255 /\ \A d \in 0..7 : Digit(0, d) = 0
  BY ZeroDigits
<1>1. ASSUME NEW d \in 0..7, NEW x \in 0..255
      PROVE  Digit(x, d) \in {0, 1}
  <2>1. x \in Nat /\ d \in 0..8
    OBVIOUS
  <2> QED BY <2>1, DigitIsBinary
<1>2. PICK c : c = Xor(a, b)
  OBVIOUS
<1>3. c \in 0..255 /\ \A d \in 0..7 : Digit(c, d) = (Digit(a, d) + Digit(b, d)) % 2
  BY <1>2, XorDigits
<1>4. Xor(a, c) = b
  <2>1. /\ Xor(a, c) \in 0..255
        /\ \A d \in 0..7 : Digit(Xor(a, c), d) = (Digit(a, d) + Digit(c, d)) % 2
    BY <1>3, XorDigits
  <2>2. ASSUME NEW d \in 0..7 PROVE Digit(Xor(a, c), d) = Digit(b, d)
    <3>1. PICK u, v, w : u = Digit(a, d) /\ v = Digit(b, d) /\ w = Digit(c, d)
      OBVIOUS
    <3>2. u \in {0, 1} /\ v \in {0, 1} /\ w = (u + v) % 2
      BY <1>1, <1>3, <3>1
    <3>3. (u + w) % 2 = v
      BY <3>2
    <3> QED BY <2>1, <3>1, <3>3
  <2> QED BY <2>1, <2>2, SameDigits
<1>5. ASSUME NEW x \in 0..255
      PROVE  Xor(x, 0) = x /\ Xor(0, x) = x
  <2>1. /\ Xor(x, 0) \in 0..255 /\ Xor(0, x) \in 0..255
        /\ \A d \in 0..7 : Digit(Xor(x, 0), d) = (Digit(x, d) + Digit(0, d)) % 2
        /\ \A d \in 0..7 : Digit(Xor(0, x), d) = (Digit(0, d) + Digit(x, d)) % 2
    BY <1>0, XorDigits
  <2>2. ASSUME NEW d \in 0..7
        PROVE  Digit(Xor(x, 0), d) = Digit(x, d) /\ Digit(Xor(0, x), d) = Digit(x, d)
    <3>1. PICK u, v : u = Digit(x, d) /\ v = Digit(0, d)
      OBVIOUS
    <3>2. u \in {0, 1} /\ v = 0
      BY <1>0, <1>1, <3>1
    <3>3. (u + v) % 2 = u /\ (v + u) % 2 = u
      BY <3>2
    <3> QED BY <2>1, <3>1, <3>3
  <2> QED BY <2>1, <2>2, SameDigits
<1>6. c = 0 => a = b
  <2>1. c = 0 => Xor(a, c) = a
    BY <1>5
  <2> QED BY <1>4, <2>1
<1>7. a = b => c = 0
  <2>. SUFFICES ASSUME a = b PROVE c = 0
    OBVIOUS
  <2>1. ASSUME NEW d \in 0..7 PROVE Digit(c, d) = Digit(0, d)
    <3>1. PICK u : u = Digit(a, d)
      OBVIOUS
    <3>2. u \in {0, 1} /\ Digit(c, d) = (u + u) % 2
      BY <1>1, <1>3, <3>1
    <3> QED BY <1>0, <3>2
  <2> QED BY <1>0, <1>3, <2>1, SameDigits
<1> QED BY <1>2, <1>4, <1>5, <1>6, <1>7

\* A quotient is known from a number's distance to a multiple.
LEMMA QuotientIs ==
    ASSUME NEW m \in Nat \ {0}, NEW q \in Int, NEW r \in 0..(m - 1)
    PROVE  (q * m + r) \div m = q /\ (q * m + r) % m = r
<1>1. PICK x \in Int : x = q * m + r
  OBVIOUS
<1>2. x % m \in 0..(m - 1) /\ x \div m \in Int /\ x = (x \div m) * m + (x % m)
  BY <1>1, Division
<1>3. x \div m = q /\ x % m = r
  BY <1>1, <1>2, DivisionUnique
<1> QED BY <1>1, <1>3

\* Dividing by two numbers is dividing by their product.
LEMMA QuotientOfQuotient ==
    ASSUME NEW x \in Nat, NEW m \in Nat \ {0}, NEW n \in Nat \ {0}
    PROVE  (x \div m) \div n = x \div (m * n)
<1>1. PICK q, r : q = x \div m /\ r = x % m
  OBVIOUS
<1>2. q \in Nat /\ r \in 0..(m - 1) /\ x = q * m + r
  BY <1>1
<1>3. PICK v, s : v = q \div n /\ s = q % n
  OBVIOUS
<1>4. v \in Nat /\ s \in 0..(n - 1) /\ q = v * n + s
  BY <1>2, <1>3
<1>5. m * n \in Nat \ {0}
  OBVIOUS
<1>6. x = v * (m * n) + (s * m + r)
  <2>1. q * m = (v * n) * m + s * m
    BY <1>2, <1>4
  <2>2. (v * n) * m = v * (m * n)
    BY <1>4
  <2>3. (v * n) * m \in Int /\ s * m \in Int
    BY <1>4
  <2> QED BY <1>2, <2>1, <2>2, <2>3
<1>7. s * m + r \in 0..(m * n - 1)
  <2>1. PICK c \in Nat : n = s + 1 + c
    <3>1. n - s - 1 \in Nat /\ n = s + 1 + (n - s - 1)
      BY <1>4
    <3> QED BY <3>1
  <2>2. m * n = m * s + m + m * c
    BY <1>4, <2>1
  <2>3. m * c \in Nat /\ m * s \in Nat /\ m * s = s * m
    BY <1>4
  <2> QED BY <1>2, <2>2, <2>3
<1>8. x \div (m * n) = v
  <2>1. (v * (m * n) + (s * m + r)) \div (m * n) = v
    BY <1>4, <1>5, <1>7, QuotientIs
  <2> QED BY <1>6, <2>1
<1> QED BY <1>1, <1>3, <1>8

\* A factor of both sides of a quotient can be left out.
LEMMA QuotientOfProduct ==
    ASSUME NEW x \in Nat, NEW m \in Nat \ {0}, NEW n \in Nat \ {0}
    PROVE  (x * m) \div (m * n) = x \div n
<1>1. x * m \in Nat /\ (x * m + 0) \div m = x /\ x * m + 0 = x * m
  <2>1. 0 \in 0..(m - 1)
    OBVIOUS
  <2> QED BY <2>1, QuotientIs
<1>2. ((x * m) \div m) \div n = (x * m) \div (m * n)
  BY <1>1, QuotientOfQuotient
<1> QED BY <1>1, <1>2

\* A byte is its residue.
LEMMA ByteIsResidue == \A z \in 0..255 : z % 256 = z
OBVIOUS

\* Only the last eight digits are left of a number modulo 256.
LEMMA DigitsOfResidue ==
    ASSUME NEW x \in Nat
    PROVE  x % 256 \in 0..255 /\ \A d \in 0..7 : Digit(x % 256, d) = Digit(x, d)
<1>1. PICK q \in Nat, r \in 0..255 : x = q * 256 + r /\ r = x % 256
  <2>1. x \div 256 \in Nat /\ x % 256 \in 0..255 /\ x = (x \div 256) * 256 + (x % 256)
    OBVIOUS
  <2> QED BY <2>1
<1>2. /\ x % 2 = r % 2 /\ (x \div 2) % 2 = (r \div 2) % 2 /\ (x \div 4) % 2 = (r \div 4) % 2
      /\ (x \div 8) % 2 = (r \div 8) % 2
  BY <1>1
<1>3. (x \div 16) % 2 = (r \div 16) % 2 /\ (x \div 32) % 2 = (r \div 32) % 2
  BY <1>1
<1>4. (x \div 64) % 2 = (r \div 64) % 2 /\ (x \div 128) % 2 = (r \div 128) % 2
  BY <1>1
<1>5. ASSUME NEW y \in Nat
      PROVE  /\ Digit(y, 0) = y % 2 /\ Digit(y, 1) = (y \div 2) % 2
             /\ Digit(y, 2) = (y \div 4) % 2 /\ Digit(y, 3) = (y \div 8) % 2
             /\ Digit(y, 4) = (y \div 16) % 2 /\ Digit(y, 5) = (y \div 32) % 2
             /\ Digit(y, 6) = (y \div 64) % 2 /\ Digit(y, 7) = (y \div 128) % 2
  BY DigitsOfByte
<1>6. /\ Digit(r, 0) = Digit(x, 0) /\ Digit(r, 1) = Digit(x, 1) /\ Digit(r, 2) = Digit(x, 2)
      /\ Digit(r, 3) = Digit(x, 3) /\ Digit(r, 4) = Digit(x, 4) /\ Digit(r, 5) = Digit(x, 5)
      /\ Digit(r, 6) = Digit(x, 6) /\ Digit(r, 7) = Digit(x, 7)
  <2>1. r \in Nat
    OBVIOUS
  <2>2. /\ Digit(r, 0) = r % 2 /\ Digit(r, 1) = (r \div 2) % 2
        /\ Digit(r, 2) = (r \div 4) % 2 /\ Digit(r, 3) = (r \div 8) % 2
        /\ Digit(r, 4) = (r \div 16) % 2 /\ Digit(r, 5) = (r \div 32) % 2
        /\ Digit(r, 6) = (r \div 64) % 2 /\ Digit(r, 7) = (r \div 128) % 2
    BY <1>5, <2>1, Zenon
  <2>3. /\ Digit(x, 0) = x % 2 /\ Digit(x, 1) = (x \div 2) % 2
        /\ Digit(x, 2) = (x \div 4) % 2 /\ Digit(x, 3) = (x \div 8) % 2
        /\ Digit(x, 4) = (x \div 16) % 2 /\ Digit(x, 5) = (x \div 32) % 2
        /\ Digit(x, 6) = (x \div 64) % 2 /\ Digit(x, 7) = (x \div 128) % 2
    BY <1>5, Zenon
  <2> QED BY <1>2, <1>3, <1>4, <2>2, <2>3, Zenon
<1>7. ASSUME NEW d \in 0..7 PROVE Digit(r, d) = Digit(x, d)
  <2>1. d \in {0, 1, 2, 3, 4, 5, 6, 7}
    OBVIOUS
  <2> QED BY <1>6, <2>1
<1> QED BY <1>1, <1>7

\* The digits of a number that is shifted to the left.
LEMMA DigitsOfProduct ==
    ASSUME NEW x \in Nat, NEW s \in 0..8, NEW d \in 0..7
    PROVE  /\ x * Power[s] \in Nat
           /\ Digit(x * Power[s], d) = IF d >= s THEN Digit(x, d - s) ELSE 0
<1>1. PICK m \in Nat \ {0} : m = Power[s]
  BY Powers
<1>2. x * m \in Nat
  OBVIOUS
<1>3. CASE d >= s
  <2>1. PICK e \in 0..7 : e = d - s
    BY <1>3
  <2>2. PICK n \in Nat \ {0} : n = Power[e]
    BY Powers, <2>1
  <2>3. Power[d] = m * n
    <3>1. e \in 0..(8 - s) /\ s + e = d
      BY <2>1
    <3>2. Power[s + e] = Power[s] * Power[e]
      BY <3>1, PowersMultiply
    <3> QED BY <1>1, <2>2, <3>1, <3>2
  <2>4. (x * m) \div (m * n) = x \div n
    BY QuotientOfProduct
  <2> QED BY <1>1, <1>2, <1>3, <2>1, <2>2, <2>3, <2>4 DEF Digit
<1>4. CASE d < s
  <2>1. PICK e \in 0..7 : s = d + 1 + e
    <3>1. s - d - 1 \in 0..7 /\ s = d + 1 + (s - d - 1)
      BY <1>4
    <3> QED BY <3>1
  <2>2. PICK n \in Nat \ {0}, l \in Nat \ {0} : n = Power[d] /\ l = Power[e]
    BY Powers, <2>1
  <2>3. m = n * (2 * l)
    <3>1. 1 \in 0..8 /\ e \in 0..(8 - 1) /\ d \in 0..8 /\ 1 + e \in 0..(8 - d) /\ d + (1 + e) = s
      BY <2>1
    <3>2. Power[1 + e] = Power[1] * Power[e]
      BY <3>1, PowersMultiply
    <3>3. Power[d + (1 + e)] = Power[d] * Power[1 + e]
      BY <3>1, PowersMultiply
    <3> QED BY <1>1, <2>2, <3>1, <3>2, <3>3, Powers
  <2>4. x * m = (2 * (x * l)) * n + 0
    <3>1. x * m = x * (n * (2 * l))
      BY <2>3
    <3>2. x * (n * (2 * l)) = (2 * (x * l)) * n
      OBVIOUS
    <3> QED BY <3>1, <3>2
  <2>5. x * l \in Nat
    OBVIOUS
  <2>6. ((2 * (x * l)) * n + 0) \div n = 2 * (x * l)
    <3>1. 0 \in 0..(n - 1) /\ 2 * (x * l) \in Int
      BY <2>5
    <3> QED BY <3>1, QuotientIs
  <2>7. (2 * (x * l)) % 2 = 0
    <3>1. PICK y \in Nat : y = x * l
      BY <2>5
    <3> QED BY <3>1
  <2>8. Digit(x * m, d) = 0
    BY <2>2, <2>4, <2>6, <2>7 DEF Digit
  <2> QED BY <1>1, <1>2, <1>4, <2>8
<1> QED BY <1>3, <1>4

\* The digits of a byte that is shifted to the right.
LEMMA DigitsOfQuotient ==
    ASSUME NEW x \in 0..255, NEW s \in 0..8, NEW d \in 0..7
    PROVE  /\ x \div Power[s] \in 0..255
           /\ Digit(x \div Power[s], d) = IF d + s <= 7 THEN Digit(x, d + s) ELSE 0
<1>1. PICK m \in Nat \ {0}, n \in Nat \ {0} : m = Power[s] /\ n = Power[d]
  BY Powers
<1>2. PICK q, r : q = x \div m /\ r = x % m
  OBVIOUS
<1>3. q \in Nat /\ r \in 0..(m - 1) /\ x = q * m + r
  BY <1>2
<1>4. q \in 0..255
  <2>1. q * m >= q
    BY <1>3
  <2>2. q * m \in Nat
    BY <1>3
  <2> QED BY <1>3, <2>1, <2>2
<1>5. CASE d + s <= 7
  <2>1. Power[s + d] = m * n /\ s + d = d + s
    <3>1. d \in 0..(8 - s)
      BY <1>5
    <3>2. Power[s + d] = Power[s] * Power[d]
      BY <3>1, PowersMultiply
    <3> QED BY <1>1, <3>2
  <2>2. (x \div m) \div n = x \div (m * n)
    <3>1. x \in Nat
      OBVIOUS
    <3> QED BY <3>1, QuotientOfQuotient
  <2>3. Digit(x \div m, d) = Digit(x, d + s)
    BY <1>1, <2>1, <2>2 DEF Digit
  <2> QED BY <1>1, <1>2, <1>4, <1>5, <2>3
<1>6. CASE d + s > 7
  <2>1. PICK e \in 0..7 : d = (8 - s) + e
    <3>1. d + s - 8 \in 0..7 /\ d = (8 - s) + (d + s - 8)
      BY <1>6
    <3> QED BY <3>1
  <2>2. PICK c \in 0..8 : c = 8 - s
    OBVIOUS
  <2>3. PICK l \in Nat \ {0}, k \in Nat \ {0} : l = Power[c] /\ k = Power[e]
    BY Powers, <2>1, <2>2
  <2>4. m * l = 256 /\ n = l * k
    <3>0. e \in 0..8
      OBVIOUS
    <3>1. c \in 0..(8 - s) /\ s + c = 8 /\ e \in 0..(8 - c) /\ c + e = d
      BY <2>1, <2>2
    <3>2. Power[s + c] = Power[s] * Power[c]
      BY <3>1, PowersMultiply
    <3>3. Power[c + e] = Power[c] * Power[e]
      BY <3>1, PowersMultiply
    <3>4. Power[8] = m * l /\ Power[d] = l * k
      BY <1>1, <2>3, <3>1, <3>2, <3>3, Zenon
    <3> QED BY <1>1, <3>4, Powers
  <2>5. q < l
    <3>. SUFFICES ASSUME q >= l PROVE FALSE
      BY <1>3
    <3>1. PICK b \in Nat : q = l + b
      <4>1. q - l \in Nat /\ q = l + (q - l)
        BY <1>3
      <4> QED BY <4>1
    <3>2. q * m = m * l + b * m /\ b * m \in Nat
      BY <3>1
    <3> QED BY <1>3, <2>4, <3>2
  <2>6. n >= l
    BY <2>4
  <2>7. 0 * n + q = q /\ (0 * n + q) \div n = 0
    <3>1. q \in 0..(n - 1) /\ 0 \in Int
      BY <1>3, <2>5, <2>6
    <3>2. (0 * n + q) \div n = 0
      BY <3>1, QuotientIs
    <3> QED BY <1>3, <3>2
  <2>8. Digit(q, d) = 0
    BY <1>1, <2>7 DEF Digit
  <2> QED BY <1>1, <1>2, <1>4, <1>6, <2>8
<1> QED BY <1>5, <1>6

\* A byte whose digits from the k-th on are 0 is below 2^k, and no other is.
LEMMA BelowPower ==
    ASSUME NEW x \in 0..255, NEW k \in 0..8
    PROVE  x < Power[k] <=> \A d \in 0..7 : d >= k => Digit(x, d) = 0
<1>1. PICK m \in Nat \ {0} : m = Power[k]
  BY Powers
<1>2. PICK q, r : q = x \div m /\ r = x % m
  OBVIOUS
<1>3. q \in Nat /\ r \in 0..(m - 1) /\ x = q * m + r
  BY <1>2
<1>4. x < m <=> q = 0
  <2>1. q = 0 => x < m
    BY <1>3
  <2>2. q # 0 => q * m >= m
    BY <1>3
  <2>3. q * m \in Nat
    BY <1>3
  <2> QED BY <1>3, <2>1, <2>2, <2>3
<1>5. /\ q \in 0..255
      /\ \A d \in 0..7 : Digit(q, d) = IF d + k <= 7 THEN Digit(x, d + k) ELSE 0
  <2>1. ASSUME NEW d \in 0..7
        PROVE  /\ q \in 0..255
               /\ Digit(q, d) = IF d + k <= 7 THEN Digit(x, d + k) ELSE 0
    <3>1. /\ x \div Power[k] \in 0..255
          /\ Digit(x \div Power[k], d) = IF d + k <= 7 THEN Digit(x, d + k) ELSE 0
      BY DigitsOfQuotient
    <3> QED BY <1>1, <1>2, <3>1
  <2>2. 0 \in 0..7
    OBVIOUS
  <2> QED BY <2>1, <2>2
<1>6. q = 0 <=> \A d \in 0..7 : Digit(q, d) = 0
  <2>1. \A d \in 0..7 : Digit(0, d) = 0
    BY ZeroDigits
  <2>2. ASSUME \A d \in 0..7 : Digit(q, d) = 0
        PROVE  q = 0
    <3>1. 0 \in 0..255 /\ \A d \in 0..7 : Digit(q, d) = Digit(0, d)
      BY <2>1, <2>2
    <3> QED BY <1>5, <3>1, SameDigits
  <2> QED BY <2>1, <2>2
<1>7. (\A d \in 0..7 : Digit(q, d) = 0) <=> \A d \in 0..7 : d >= k => Digit(x, d) = 0
  <2>1. ASSUME \A d \in 0..7 : Digit(q, d) = 0, NEW d \in 0..7, d >= k
        PROVE  Digit(x, d) = 0
    <3>1. d - k \in 0..7 /\ (d - k) + k = d
      BY <2>1
    <3> QED BY <1>5, <2>1, <3>1
  <2>2. ASSUME \A d \in 0..7 : d >= k => Digit(x, d) = 0, NEW d \in 0..7
        PROVE  Digit(q, d) = 0
    <3>1. d + k <= 7 => d + k \in 0..7 /\ d + k >= k
      OBVIOUS
    <3> QED BY <1>5, <2>2, <3>1
  <2> QED BY <2>1, <2>2
<1> QED BY <1>1, <1>4, <1>6, <1>7

-----------------------------------------------------------------------------
(* Gcd.                                                                    *)

Divides(d, x) == \E k \in Nat : x = k * d

\* What both numbers of a pair are multiples of.
Common(p) == {d \in Nat \ {0} : Divides(d, p[1]) /\ Divides(d, p[2])}

GcdPairs == Nat \X (Nat \ {0})

\* One step of the algorithm keeps the common divisors.
LEMMA SameDivisors ==
    ASSUME NEW x \in Nat, NEW y \in Nat \ {0}
    PROVE  Common(<<x, y>>) = Common(<<y, x % y>>)
<1>1. PICK q, r : q = x \div y /\ r = x % y
  OBVIOUS
<1>2. q \in Nat /\ r \in 0..(y - 1) /\ x = q * y + r
  BY <1>1
<1>4. ASSUME NEW d \in Nat \ {0}, Divides(d, x), Divides(d, y)
      PROVE  Divides(d, r)
  <2>1. PICK a \in Nat, b \in Nat : x = a * d /\ y = b * d
    BY <1>4 DEF Divides
  <2>2. r = (a - q * b) * d
    <3>1. q * y = (q * b) * d
      BY <1>2, <2>1
    <3>2. (a - q * b) * d = a * d - (q * b) * d
      BY <1>2
    <3> QED BY <1>2, <2>1, <3>1, <3>2
  <2>3. a - q * b \in Nat
    <3>1. a - q * b \in Int
      BY <1>2
    <3>2. PICK c \in Int : c = a - q * b
      BY <3>1
    <3>3. c * d >= 0
      BY <1>2, <2>2, <3>2
    <3>4. c >= 0
      BY <3>3
    <3> QED BY <3>2, <3>4
  <2> QED BY <2>2, <2>3 DEF Divides
<1>5. ASSUME NEW d \in Nat \ {0}, Divides(d, y), Divides(d, r)
      PROVE  Divides(d, x)
  <2>1. PICK a \in Nat, b \in Nat : r = a * d /\ y = b * d
    BY <1>5 DEF Divides
  <2>2. x = (q * b + a) * d
    <3>1. q * y = (q * b) * d
      BY <1>2, <2>1
    <3>2. (q * b + a) * d = (q * b) * d + a * d
      BY <1>2
    <3> QED BY <1>2, <2>1, <3>1, <3>2
  <2>3. q * b + a \in Nat
    BY <1>2
  <2> QED BY <2>2, <2>3 DEF Divides
<1>6. <<x, y>>[1] = x /\ <<x, y>>[2] = y /\ <<y, x % y>>[1] = y /\ <<y, x % y>>[2] = r
  BY <1>1
<1> QED BY <1>4, <1>5, <1>6 DEF Common

\* The step of Gcd, for a function g of the pairs.
GcdStep(g) ==
    [p \in GcdPairs |-> IF p[1] % p[2] = 0 THEN p[2] ELSE g[<<p[2], p[1] % p[2]>>]]

Greatest(S) == CHOOSE d \in S : \A c \in S : c <= d

\* The greatest common divisor is a function that the step leads to itself.
LEMMA GcdExists ==
    [p \in GcdPairs |-> Greatest(Common(p))] = GcdStep([p \in GcdPairs |-> Greatest(Common(p))])
<1>. DEFINE G == [p \in GcdPairs |-> Greatest(Common(p))]
            S == GcdStep(G)
<1>1. ASSUME NEW p \in GcdPairs
      PROVE  Greatest(Common(p)) = IF p[1] % p[2] = 0 THEN p[2] ELSE G[<<p[2], p[1] % p[2]>>]
  <2>1. PICK x \in Nat, y \in Nat \ {0} : p = <<x, y>> /\ p[1] = x /\ p[2] = y
    BY DEF GcdPairs
  <2>2. x \div y \in Nat /\ x % y \in 0..(y - 1) /\ x = (x \div y) * y + (x % y)
    BY <2>1
  <2>3. CASE x % y = 0
    <3>1. Divides(y, x) /\ Divides(y, y)
      <4>1. x = (x \div y) * y /\ y = 1 * y
        BY <2>2, <2>3
      <4> QED BY <2>2, <4>1 DEF Divides
    <3>2. y \in Common(p)
      BY <2>1, <3>1 DEF Common
    <3>3. ASSUME NEW c \in Common(p)
          PROVE  c \in Nat /\ c <= y
      <4>1. PICK k \in Nat : y = k * c
        BY <2>1 DEF Common, Divides
      <4>2. c \in Nat \ {0}
        BY DEF Common
      <4>3. k # 0
        BY <4>1, <4>2
      <4>4. k * c >= c
        BY <4>2, <4>3
      <4> QED BY <4>1, <4>2, <4>4
    <3>4. ASSUME NEW d \in Common(p), \A c \in Common(p) : c <= d
          PROVE  d = y
      BY <3>2, <3>3, <3>4
    <3>5. Greatest(Common(p)) = y
      BY <3>2, <3>3, <3>4 DEF Greatest
    <3> QED BY <2>1, <2>3, <3>5
  <2>4. CASE x % y # 0
    <3>1. <<y, x % y>> \in GcdPairs
      BY <2>1, <2>2, <2>4 DEF GcdPairs
    <3>2. G[<<y, x % y>>] = Greatest(Common(<<y, x % y>>))
      BY <3>1
    <3>3. Common(p) = Common(<<y, x % y>>)
      BY <2>1, SameDivisors
    <3> QED BY <2>1, <2>4, <3>2, <3>3
  <2> QED BY <2>3, <2>4
<1>2. S = [p \in GcdPairs |-> IF p[1] % p[2] = 0 THEN p[2] ELSE G[<<p[2], p[1] % p[2]>>]]
  BY DEF GcdStep
<1>3. G = S
  <2>. DEFINE e(p) == Greatest(Common(p))
              f(p) == IF p[1] % p[2] = 0 THEN p[2] ELSE G[<<p[2], p[1] % p[2]>>]
  <2>1. \A p \in GcdPairs : e(p) = f(p)
    BY <1>1
  <2>2. G = [p \in GcdPairs |-> e(p)] /\ S = [p \in GcdPairs |-> f(p)]
    BY <1>2
  <2>. HIDE DEF e, f, G, S
  <2> QED BY <2>1, <2>2
<1> QED BY <1>3

\* What Gcd computes: the step, again and again.
LEMMA GcdRecursion ==
    \E g : /\ \A a \in Nat, b \in Nat \ {0} : Math!Gcd(a, b) = g[<<a, b>>]
          /\ g = GcdStep(g)
<1>. DEFINE g == CHOOSE f : f = GcdStep(f)
<1>1. g = GcdStep(g)
  BY GcdExists
<1>2. ASSUME NEW a \in Nat, NEW b \in Nat \ {0}
      PROVE  Math!Gcd(a, b) = g[<<a, b>>]
  BY DEF Math!Gcd, GcdStep, GcdPairs
<1>. HIDE DEF g
<1> QED BY <1>1, <1>2

-----------------------------------------------------------------------------
(* The sizes of blocks.                                                    *)

\* The greatest common divisors with 8, which Init computes.
LEMMA GcdsWithEight ==
    /\ Math!Gcd(3, 8) = 1 /\ Math!Gcd(4, 8) = 4 /\ Math!Gcd(5, 8) = 1
    /\ Math!Gcd(6, 8) = 2 /\ Math!Gcd(7, 8) = 1 /\ Math!Gcd(8, 8) = 8
<1>1. PICK g : /\ \A a \in Nat, b \in Nat \ {0} : Math!Gcd(a, b) = g[<<a, b>>]
               /\ g = GcdStep(g)
  BY GcdRecursion
<1>2. ASSUME NEW a \in Nat, NEW b \in Nat \ {0}
      PROVE  g[<<a, b>>] = IF a % b = 0 THEN b ELSE g[<<b, a % b>>]
  <2>1. <<a, b>> \in GcdPairs /\ <<a, b>>[1] = a /\ <<a, b>>[2] = b
    BY DEF GcdPairs
  <2> QED BY <1>1, <2>1 DEF GcdStep
<1>3. ASSUME NEW a \in Nat, NEW b \in Nat \ {0}, a % b = 0
      PROVE  g[<<a, b>>] = b
  BY <1>2, <1>3
<1>4. ASSUME NEW a \in Nat, NEW b \in Nat \ {0}, NEW c \in Nat \ {0}, a % b = c
      PROVE  g[<<a, b>>] = g[<<b, c>>]
  BY <1>2, <1>4
<1>5. g[<<8, 1>>] = 1 /\ g[<<3, 1>>] = 1 /\ g[<<2, 1>>] = 1
  <2>1. 8 % 1 = 0 /\ 3 % 1 = 0 /\ 2 % 1 = 0
    OBVIOUS
  <2> QED BY <1>3, <2>1
<1>6. g[<<3, 2>>] = 1 /\ g[<<4, 2>>] = 2 /\ g[<<6, 2>>] = 2
  <2>1. g[<<3, 2>>] = g[<<2, 1>>]
    BY <1>4
  <2>2. g[<<4, 2>>] = 2 /\ g[<<6, 2>>] = 2
    BY <1>3
  <2> QED BY <1>5, <2>1, <2>2
<1>7. g[<<5, 3>>] = 1 /\ g[<<8, 3>>] = 1 /\ g[<<7, 1>>] = 1
  <2>1. g[<<5, 3>>] = g[<<3, 2>>] /\ g[<<8, 3>>] = g[<<3, 2>>] /\ g[<<7, 1>>] = 1
    BY <1>3, <1>4
  <2> QED BY <1>6, <2>1
<1>8. g[<<8, 4>>] = 4 /\ g[<<8, 5>>] = 1 /\ g[<<8, 6>>] = 2 /\ g[<<8, 7>>] = 1
  <2>1. g[<<8, 4>>] = 4
    BY <1>3
  <2>2. g[<<8, 5>>] = g[<<5, 3>>]
    BY <1>4
  <2>3. g[<<8, 6>>] = g[<<6, 2>>]
    BY <1>4
  <2>4. g[<<8, 7>>] = g[<<7, 1>>]
    BY <1>4
  <2> QED BY <1>6, <1>7, <2>1, <2>2, <2>3, <2>4
<1>9. ASSUME NEW k \in 1..7
      PROVE  g[<<k, 8>>] = g[<<8, k>>]
  <2>1. k % 8 = k /\ k \in Nat \ {0}
    OBVIOUS
  <2> QED BY <1>4, <2>1
<1>10. g[<<8, 8>>] = 8
  BY <1>3
<1>11. \A k \in 1..8 : Math!Gcd(k, 8) = g[<<k, 8>>]
  BY <1>1
<1> QED BY <1>7, <1>8, <1>9, <1>10, <1>11

\* Blocks are whole bytes, and whole k-bit values or codewords.
LEMMA Sizes ==
    ASSUME NEW k \in 3..8
    PROVE  /\ DataBlockSize(k) \in 1..8 /\ CodewordsInBlock(k) \in 1..8
           /\ CodewordsInBlock(k) * k = 8 * DataBlockSize(k)
           /\ CodewordBufferSize(k) \in 1..32 /\ TotalBits(k) \in 7..255
           /\ 8 * CodewordBufferSize(k) = TotalBits(k) + 1 /\ TotalBits(k) + 1 = Power[k]
           /\ CodewordBlockSize(k) = CodewordBufferSize(k) * CodewordsInBlock(k)
           /\ CodewordBlockSize(k) \in Nat \ {0}
<1>1. k \in {3, 4, 5, 6, 7, 8}
  OBVIOUS
<1>2. /\ Math!Gcd(3, 8) = 1 /\ Math!Gcd(4, 8) = 4 /\ Math!Gcd(5, 8) = 1
      /\ Math!Gcd(6, 8) = 2 /\ Math!Gcd(7, 8) = 1 /\ Math!Gcd(8, 8) = 8
  BY GcdsWithEight
<1>3. PICK d : d = DataBlockSize(k)
  OBVIOUS
<1>4. /\ d \in 1..8 /\ (d * 8) \div k \in 1..8 /\ ((d * 8) \div k) * k = 8 * d
  <2>1. CASE k = 3
    <3>1. d = 3
      BY <1>2, <1>3, <2>1 DEF DataBlockSize, Math!Lcm
    <3> QED BY <2>1, <3>1
  <2>2. CASE k = 4
    <3>1. d = 1
      BY <1>2, <1>3, <2>2 DEF DataBlockSize, Math!Lcm
    <3> QED BY <2>2, <3>1
  <2>3. CASE k = 5
    <3>1. d = 5
      BY <1>2, <1>3, <2>3 DEF DataBlockSize, Math!Lcm
    <3> QED BY <2>3, <3>1
  <2>4. CASE k = 6
    <3>1. d = 3
      BY <1>2, <1>3, <2>4 DEF DataBlockSize, Math!Lcm
    <3> QED BY <2>4, <3>1
  <2>5. CASE k = 7
    <3>1. d = 7
      BY <1>2, <1>3, <2>5 DEF DataBlockSize, Math!Lcm
    <3> QED BY <2>5, <3>1
  <2>6. CASE k = 8
    <3>1. d = 1
      BY <1>2, <1>3, <2>6 DEF DataBlockSize, Math!Lcm
    <3> QED BY <2>6, <3>1
  <2> QED BY <1>1, <2>1, <2>2, <2>3, <2>4, <2>5, <2>6
<1>5. PICK c : c = CodewordsInBlock(k)
  OBVIOUS
<1>6. c \in 1..8 /\ c * k = 8 * d
  BY <1>3, <1>4, <1>5 DEF CodewordsInBlock
<1>7. PICK w, t : w = CodewordBufferSize(k) /\ t = TotalBits(k)
  OBVIOUS
<1>8. w \in 1..32 /\ t \in 7..255 /\ 8 * w = t + 1 /\ t + 1 = Power[k]
  <2>1. Power[k] \in {8, 16, 32, 64, 128, 256}
    BY <1>1, Powers
  <2>2. t = Power[k] - 1 /\ w = (t - 1) \div 8 + 1
    BY <1>7 DEF TotalBits, CodewordBufferSize
  <2> QED BY <2>1, <2>2
<1>9. CodewordBlockSize(k) = w * c /\ w * c \in Nat \ {0}
  <2>1. w * c >= w
    BY <1>6, <1>8
  <2> QED BY <1>5, <1>6, <1>7, <1>8, <2>1 DEF CodewordBlockSize
<1> QED BY <1>3, <1>4, <1>5, <1>6, <1>7, <1>8, <1>9

-----------------------------------------------------------------------------
(* The helpers on buffers.                                                 *)

\* Bit p of a buffer, the most significant one of a byte first.
BitAt(buffer, p) == Digit(buffer[p \div 8], 7 - (p % 8))

\* A byte shifted left within its byte.
LEMMA ShiftedLeft ==
    ASSUME NEW x \in 0..255, NEW s \in 0..8
    PROVE  /\ (x * Power[s]) % 256 \in 0..255
           /\ \A d \in 0..7 : Digit((x * Power[s]) % 256, d) = IF d >= s THEN Digit(x, d - s) ELSE 0
<1>0. x \in Nat /\ 0 \in 0..7
  OBVIOUS
<1>1. PICK y : y = x * Power[s]
  OBVIOUS
<1>2. ASSUME NEW d \in 0..7
      PROVE  y \in Nat /\ Digit(y, d) = IF d >= s THEN Digit(x, d - s) ELSE 0
  BY <1>0, <1>1, DigitsOfProduct
<1>3. y \in Nat
  BY <1>0, <1>2
<1>4. y % 256 \in 0..255 /\ \A d \in 0..7 : Digit(y % 256, d) = Digit(y, d)
  BY <1>3, DigitsOfResidue
<1>5. ASSUME NEW d \in 0..7
      PROVE  Digit(y % 256, d) = IF d >= s THEN Digit(x, d - s) ELSE 0
  BY <1>2, <1>4
<1> QED BY <1>1, <1>4, <1>5

\* A byte shifted right.
LEMMA ShiftedRight ==
    ASSUME NEW x \in 0..255, NEW s \in 0..8
    PROVE  /\ x \div Power[s] \in 0..255
           /\ \A d \in 0..7 :
                  Digit(x \div Power[s], d) = IF d + s <= 7 THEN Digit(x, d + s) ELSE 0
<1>1. 0 \in 0..7
  OBVIOUS
<1>2. x \div Power[s] \in 0..255
  BY <1>1, DigitsOfQuotient
<1>3. ASSUME NEW d \in 0..7
      PROVE  Digit(x \div Power[s], d) = IF d + s <= 7 THEN Digit(x, d + s) ELSE 0
  BY DigitsOfQuotient
<1> QED BY <1>2, <1>3

\* ReadBitsFromBuffer gives the bits as digits of a number.
LEMMA ReadIsBits ==
    ASSUME NEW k \in 1..8, NEW offset \in Nat, NEW buffer,
           buffer[offset \div 8] \in 0..255,
           (offset % 8) + k > 8 => buffer[(offset \div 8) + 1] \in 0..255
    PROVE  LET v == ReadBitsFromBuffer(buffer, offset, k)
           IN  /\ v \in 0..255
               /\ \A q \in 0..7 :
                      Digit(v, q) = IF q < k THEN BitAt(buffer, offset + (k - 1 - q)) ELSE 0
<1>1. PICK byte, bit, here, there :
          /\ byte = offset \div 8 /\ bit = offset % 8
          /\ here = Least(8 - bit, k) /\ there = k - here
  OBVIOUS
<1>2. /\ byte \in Nat /\ bit \in 0..7 /\ offset = 8 * byte + bit
      /\ here \in 1..8 /\ here <= 8 - bit /\ here <= k
      /\ there \in 0..7 /\ there = k - here /\ (there > 0 => here = 8 - bit)
  BY <1>1 DEF Least
<1>3. PICK x, x1, x2, x3, x4, y :
          /\ x = buffer[byte] /\ x1 = (x * Power[bit]) % 256
          /\ x2 = x1 \div Power[8 - bit - here] /\ x3 = x2 \div Power[bit]
          /\ x4 = x3 * Power[there]
          /\ y = IF there = 0 THEN 0 ELSE buffer[byte + 1] \div Power[8 - there]
  OBVIOUS
<1>4. ReadBitsFromBuffer(buffer, offset, k) = Xor(x4, y)
  BY <1>1, <1>3, Zenon DEF ReadBitsFromBuffer
<1>5. x \in 0..255
  BY <1>1, <1>3
<1>6. /\ x1 \in 0..255
      /\ \A d \in 0..7 : Digit(x1, d) = IF d >= bit THEN Digit(x, d - bit) ELSE 0
  <2>1. bit \in 0..8
    BY <1>2
  <2> QED BY <1>3, <1>5, <2>1, ShiftedLeft
<1>7. PICK s : s = 8 - bit - here
  OBVIOUS
<1>8. s \in 0..8 /\ s = 8 - bit - here
  BY <1>2, <1>7
<1>9. /\ x2 \in 0..255
      /\ \A d \in 0..7 : Digit(x2, d) = IF d + s <= 7 THEN Digit(x1, d + s) ELSE 0
  <2>1. x2 = x1 \div Power[s]
    BY <1>3, <1>7
  <2>2. /\ x1 \div Power[s] \in 0..255
        /\ \A d \in 0..7 :
               Digit(x1 \div Power[s], d) = IF d + s <= 7 THEN Digit(x1, d + s) ELSE 0
    BY <1>6, <1>8, ShiftedRight
  <2> QED BY <2>1, <2>2
<1>10. /\ x3 \in 0..255
       /\ \A d \in 0..7 : Digit(x3, d) = IF d + bit <= 7 THEN Digit(x2, d + bit) ELSE 0
  <2>1. bit \in 0..8
    BY <1>2
  <2> QED BY <1>3, <1>9, <2>1, ShiftedRight
<1>11. ASSUME NEW d \in 0..7
       PROVE  Digit(x3, d) = IF d < here THEN Digit(x, d + s) ELSE 0
  <2>1. CASE d < here
    <3>1. /\ d + bit \in 0..7 /\ d + bit <= 7 /\ (d + bit) + s <= 7
          /\ (d + bit) + s \in 0..7 /\ (d + bit) + s >= bit /\ ((d + bit) + s) - bit = d + s
      BY <1>2, <1>8, <2>1
    <3>2. Digit(x3, d) = Digit(x2, d + bit)
      BY <1>10, <3>1
    <3>3. Digit(x2, d + bit) = Digit(x1, (d + bit) + s)
      BY <1>9, <3>1
    <3>4. Digit(x1, (d + bit) + s) = Digit(x, ((d + bit) + s) - bit)
      BY <1>6, <3>1
    <3> QED BY <2>1, <3>1, <3>2, <3>3, <3>4
  <2>2. CASE d >= here /\ d + bit <= 7
    <3>1. d + bit \in 0..7 /\ ~((d + bit) + s <= 7) /\ ~(d < here)
      BY <1>2, <1>8, <2>2
    <3>2. Digit(x3, d) = Digit(x2, d + bit)
      BY <1>10, <2>2
    <3>3. Digit(x2, d + bit) = 0
      BY <1>9, <3>1
    <3> QED BY <3>1, <3>2, <3>3
  <2>3. CASE d >= here /\ d + bit > 7
    <3>1. ~(d + bit <= 7) /\ ~(d < here)
      BY <1>2, <2>3
    <3> QED BY <1>10, <3>1
  <2> QED BY <1>2, <2>1, <2>2, <2>3
<1>12. x4 \in 0..255
  <2>1. here \in 0..8 /\ there \in 0..8 /\ there \in 0..(8 - here) /\ k \in 0..8
    BY <1>2
  <2>2. x3 < Power[here]
    <3>1. \A d \in 0..7 : d >= here => Digit(x3, d) = 0
      BY <1>2, <1>11
    <3> QED BY <1>10, <2>1, <3>1, BelowPower
  <2>3. Power[here + there] = Power[here] * Power[there]
    BY <2>1, PowersMultiply
  <2>4. PICK l \in Nat \ {0}, m \in Nat \ {0}, n \in Nat \ {0} :
            l = Power[here] /\ m = Power[there] /\ n = Power[k]
    BY <2>1, Powers
  <2>5. n = l * m /\ n <= 256
    <3>1. here + there = k
      BY <1>2
    <3>2. k \in {0, 1, 2, 3, 4, 5, 6, 7, 8}
      BY <2>1, UpToEight
    <3>3. n <= 256
      BY <2>4, <3>2, Powers
    <3> QED BY <2>3, <2>4, <3>1, <3>3
  <2>6. PICK c \in Nat : l = x3 + 1 + c
    <3>1. l - x3 - 1 \in Nat /\ l = x3 + 1 + (l - x3 - 1)
      BY <1>10, <2>2, <2>4
    <3> QED BY <3>1
  <2>7. x4 \in Nat /\ l * m = x4 + m + c * m /\ c * m \in Nat
    <3>1. x4 = x3 * m /\ x3 \in Nat
      <4>1. x4 = x3 * Power[there]
        BY <1>3
      <4> QED BY <1>10, <2>4, <4>1
    <3>2. (x3 + 1 + c) * m = x3 * m + m + c * m /\ x3 * m \in Nat /\ c * m \in Nat
      BY <3>1
    <3> QED BY <2>6, <3>1, <3>2
  <2> QED BY <2>4, <2>5, <2>7
<1>13. ASSUME NEW d \in 0..7
       PROVE  Digit(x4, d) = IF d >= there THEN Digit(x3, d - there) ELSE 0
  <2>1. there \in 0..8 /\ x3 \in Nat
    BY <1>2, <1>10
  <2> QED BY <1>3, <2>1, DigitsOfProduct
<1>14. /\ y \in 0..255
       /\ \A d \in 0..7 :
              Digit(y, d) = IF d < there THEN Digit(buffer[byte + 1], d + (8 - there)) ELSE 0
  <2>1. CASE there = 0
    <3>1. y = 0 /\ \A d \in 0..7 : ~(d < there)
      BY <1>3, <2>1
    <3> QED BY <3>1, ZeroDigits
  <2>2. CASE there # 0
    <3>1. PICK z, t : z = buffer[byte + 1] /\ t = 8 - there
      OBVIOUS
    <3>2. z \in 0..255 /\ t \in 0..8 /\ y = z \div Power[t]
      BY <1>1, <1>2, <1>3, <2>2, <3>1
    <3>3. /\ y \in 0..255
          /\ \A d \in 0..7 : Digit(y, d) = IF d + t <= 7 THEN Digit(z, d + t) ELSE 0
      BY <3>2, ShiftedRight
    <3>4. \A d \in 0..7 : d + t <= 7 <=> d < there
      BY <1>2, <3>1
    <3> QED BY <3>1, <3>3, <3>4
  <2> QED BY <2>1, <2>2
<1>15. PICK v : v = ReadBitsFromBuffer(buffer, offset, k)
  OBVIOUS
<1>16. v \in 0..255 /\ \A d \in 0..7 : Digit(v, d) = (Digit(x4, d) + Digit(y, d)) % 2
  <2>1. /\ Xor(x4, y) \in 0..255
        /\ \A d \in 0..7 : Digit(Xor(x4, y), d) = (Digit(x4, d) + Digit(y, d)) % 2
    BY <1>12, <1>14, XorDigits
  <2> QED BY <1>4, <1>15, <2>1
<1>17. ASSUME NEW q \in 0..7
       PROVE  Digit(v, q) = IF q < k THEN BitAt(buffer, offset + (k - 1 - q)) ELSE 0
  <2>0. PICK p, i : p = offset + (k - 1 - q) /\ i = bit + (k - 1 - q)
    OBVIOUS
  <2>1. CASE q < there
    <3>1. /\ q < k /\ ~(q >= there) /\ p \div 8 = byte + 1 /\ 7 - (p % 8) = q + (8 - there)
          /\ q + (8 - there) \in 0..7
      <4>1. i \in 8..15 /\ p = 8 * byte + i /\ here = 8 - bit
        BY <1>2, <2>0, <2>1
      <4>2. p \div 8 = byte + 1 /\ p % 8 = i - 8
        BY <1>2, <4>1
      <4> QED BY <1>2, <2>0, <2>1, <4>1, <4>2
    <3>2. PICK u : u = Digit(buffer[byte + 1], q + (8 - there))
      OBVIOUS
    <3>3. Digit(x4, q) = 0 /\ Digit(y, q) = u
      BY <1>13, <1>14, <2>1, <3>1, <3>2
    <3>4. u \in {0, 1}
      <4>1. y \in Nat /\ q \in 0..8
        BY <1>14
      <4> QED BY <3>3, <4>1, DigitIsBinary
    <3>5. Digit(v, q) = u
      BY <1>16, <3>3, <3>4
    <3>6. BitAt(buffer, p) = u
      BY <3>1, <3>2 DEF BitAt
    <3> QED BY <2>0, <3>1, <3>5, <3>6
  <2>2. CASE q >= there /\ q < k
    <3>1. /\ p \div 8 = byte /\ 7 - (p % 8) = (q - there) + s
          /\ q - there \in 0..7 /\ q - there < here /\ ~(q < there)
      <4>1. i \in 0..7 /\ p = 8 * byte + i
        BY <1>2, <2>0, <2>2
      <4>2. p \div 8 = byte /\ p % 8 = i
        BY <1>2, <4>1
      <4> QED BY <1>2, <1>8, <2>0, <2>2, <4>2
    <3>2. PICK u : u = Digit(x, (q - there) + s)
      OBVIOUS
    <3>3. Digit(x4, q) = u /\ Digit(y, q) = 0
      <4>1. Digit(x3, q - there) = u
        BY <1>11, <3>1, <3>2
      <4>2. Digit(x4, q) = Digit(x3, q - there)
        BY <1>13, <2>2
      <4>3. Digit(y, q) = 0
        BY <1>14, <3>1
      <4> QED BY <4>1, <4>2, <4>3
    <3>4. u \in {0, 1}
      <4>1. x4 \in Nat /\ q \in 0..8
        BY <1>12
      <4> QED BY <3>3, <4>1, DigitIsBinary
    <3>5. Digit(v, q) = u
      BY <1>16, <3>3, <3>4
    <3>6. BitAt(buffer, p) = u
      BY <1>3, <3>1, <3>2 DEF BitAt
    <3> QED BY <2>0, <2>2, <3>5, <3>6
  <2>3. CASE q >= k
    <3>1. q >= there /\ q - there \in 0..7 /\ ~(q - there < here) /\ ~(q < there) /\ ~(q < k)
      BY <1>2, <2>3
    <3>2. Digit(x4, q) = 0 /\ Digit(y, q) = 0
      <4>1. Digit(x3, q - there) = 0
        BY <1>11, <3>1
      <4>2. Digit(x4, q) = Digit(x3, q - there)
        BY <1>13, <3>1
      <4>3. Digit(y, q) = 0
        BY <1>14, <3>1
      <4> QED BY <4>1, <4>2, <4>3
    <3> QED BY <1>16, <3>1, <3>2
  <2> QED BY <1>2, <2>1, <2>2, <2>3
<1> QED BY <1>15, <1>16, <1>17

\* To the bits of a buffer of n bytes, a number of k bits is added from offset on.
AddsBits(n, k, value, offset, old, new) ==
    /\ new \in [0..(n - 1) -> 0..255]
    /\ \A p \in 0..(8 * n - 1) :
           BitAt(new, p) = (BitAt(old, p) + (IF offset <= p /\ p < offset + k
                                             THEN Digit(value, k - 1 - (p - offset))
                                             ELSE 0)) % 2

\* WriteBitsToBuffer adds the digits of a number to the bits.
LEMMA WriteAddsBits ==
    ASSUME NEW k \in 1..8, NEW n \in Nat, NEW offset \in Nat,
           NEW buffer \in [0..(n - 1) -> 0..255],
           NEW value \in 0..255, value < Power[k]
    PROVE  AddsBits(n, k, value, offset, buffer, WriteBitsToBuffer(k, value, offset, buffer))
<1>1. PICK byte, bit, shr : byte = offset \div 8 /\ bit = offset % 8 /\ shr = k - 8 + (offset % 8)
  OBVIOUS
<1>2. byte \in Nat /\ bit \in 0..7 /\ offset = 8 * byte + bit /\ shr = k - 8 + bit /\ shr \in -7..7
  BY <1>1
<1>. DEFINE part(b) == IF b = byte
                       THEN IF shr < 0 THEN (value * Power[-shr]) % 256
                                       ELSE (value \div Power[shr]) % 256
                       ELSE IF b = byte + 1 /\ shr > 0 THEN (value * Power[8 - shr]) % 256
                       ELSE 0
            new == WriteBitsToBuffer(k, value, offset, buffer)
<1>3. new = [b \in 0..(n - 1) |-> Xor(buffer[b], part(b))]
  <2>1. DOMAIN buffer = 0..(n - 1)
    OBVIOUS
  <2> QED BY <1>1, <2>1, Zenon DEF WriteBitsToBuffer
<1>4. \A d \in 0..7 : d >= k => Digit(value, d) = 0
  <2>1. k \in 0..8
    OBVIOUS
  <2> QED BY <2>1, BelowPower
<1>5. ASSUME NEW d \in 0..7
      PROVE  /\ part(byte) \in 0..255
             /\ Digit(part(byte), d) =
                    IF d + shr \in 0..7 THEN Digit(value, d + shr) ELSE 0
  <2>1. CASE shr < 0
    <3>1. PICK s : s = -shr
      OBVIOUS
    <3>2. s \in 0..8 /\ part(byte) = (value * Power[s]) % 256
      BY <1>2, <2>1, <3>1
    <3>3. /\ (value * Power[s]) % 256 \in 0..255
          /\ Digit((value * Power[s]) % 256, d) = IF d >= s THEN Digit(value, d - s) ELSE 0
      BY <3>2, ShiftedLeft
    <3>4. (d >= s <=> d + shr \in 0..7) /\ d - s = d + shr
      BY <1>2, <2>1, <3>1
    <3>. HIDE DEF part
    <3> QED BY <3>2, <3>3, <3>4
  <2>2. CASE shr >= 0
    <3>1. PICK y : y = value \div Power[shr]
      OBVIOUS
    <3>2. shr \in 0..8 /\ ~(shr < 0)
      BY <1>2, <2>2
    <3>3. /\ value \div Power[shr] \in 0..255
          /\ Digit(value \div Power[shr], d) =
                 IF d + shr <= 7 THEN Digit(value, d + shr) ELSE 0
      BY <3>2, ShiftedRight
    <3>4. y \in 0..255 /\ y % 256 = y /\ part(byte) = y % 256
      <4>1. y \in 0..255
        BY <3>1, <3>3
      <4>2. part(byte) = (value \div Power[shr]) % 256
        BY <3>2
      <4>. HIDE DEF part
      <4>3. y % 256 = y
        BY <4>1, ByteIsResidue
      <4> QED BY <3>1, <4>1, <4>2, <4>3
    <3>5. d + shr <= 7 <=> d + shr \in 0..7
      BY <3>2
    <3>. HIDE DEF part
    <3> QED BY <3>1, <3>3, <3>4, <3>5
  <2> QED BY <1>2, <2>1, <2>2
<1>6. ASSUME NEW d \in 0..7, shr > 0
      PROVE  /\ part(byte + 1) \in 0..255
             /\ Digit(part(byte + 1), d) =
                    IF d + shr >= 8 THEN Digit(value, (d + shr) - 8) ELSE 0
  <2>1. PICK s : s = 8 - shr
    OBVIOUS
  <2>2. s \in 0..8 /\ part(byte + 1) = (value * Power[s]) % 256
    BY <1>2, <1>6, <2>1
  <2>3. /\ (value * Power[s]) % 256 \in 0..255
        /\ Digit((value * Power[s]) % 256, d) = IF d >= s THEN Digit(value, d - s) ELSE 0
    BY <2>2, ShiftedLeft
  <2>4. (d >= s <=> d + shr >= 8) /\ d - s = (d + shr) - 8
    BY <1>2, <2>1
  <2>. HIDE DEF part
  <2> QED BY <2>2, <2>3, <2>4
<1>7. ASSUME NEW c, c # byte, ~(c = byte + 1 /\ shr > 0)
      PROVE  part(c) = 0
  BY <1>7
<1>8. ASSUME NEW c \in 0..(n - 1), NEW d \in 0..7, NEW p, p = 8 * c + (7 - d)
      PROVE  /\ part(c) \in 0..255
             /\ Digit(part(c), d) = IF offset <= p /\ p < offset + k
                                    THEN Digit(value, k - 1 - (p - offset)) ELSE 0
  <2>1. CASE c = byte
    <3>1. k - 1 - (p - offset) = d + shr
      BY <1>2, <1>8, <2>1
    <3>2. p < offset + k <=> d + shr >= 0
      BY <1>2, <1>8, <2>1
    <3>3. offset <= p <=> d + shr <= k - 1
      BY <1>2, <1>8, <2>1
    <3>4. d + shr \in 0..7 /\ d + shr > k - 1 => Digit(value, d + shr) = 0
      BY <1>2, <1>4
    <3>5. /\ part(byte) \in 0..255
          /\ Digit(part(byte), d) = IF d + shr \in 0..7 THEN Digit(value, d + shr) ELSE 0
      BY <1>5
    <3>. HIDE DEF part
    <3>6. CASE d + shr < 0
      <4>1. d + shr \notin 0..7 /\ ~(p < offset + k)
        BY <1>2, <3>2, <3>6
      <4> QED BY <2>1, <3>5, <4>1
    <3>7. CASE d + shr \in 0..(k - 1)
      <4>1. d + shr \in 0..7 /\ p < offset + k /\ offset <= p
        BY <3>2, <3>3, <3>7
      <4> QED BY <2>1, <3>1, <3>5, <4>1
    <3>8. CASE d + shr > k - 1
      <4>1. ~(offset <= p)
        BY <1>2, <3>3, <3>8
      <4> QED BY <2>1, <3>4, <3>5, <3>8, <4>1
    <3> QED BY <1>2, <3>6, <3>7, <3>8
  <2>2. CASE c = byte + 1 /\ shr > 0
    <3>1. k - 1 - (p - offset) = (d + shr) - 8 /\ offset <= p
      BY <1>2, <1>8, <2>2
    <3>2. p < offset + k <=> d + shr >= 8
      BY <1>2, <1>8, <2>2
    <3>3. /\ part(byte + 1) \in 0..255
          /\ Digit(part(byte + 1), d) = IF d + shr >= 8 THEN Digit(value, (d + shr) - 8) ELSE 0
      BY <1>6, <2>2
    <3>. HIDE DEF part
    <3> QED BY <2>2, <3>1, <3>2, <3>3
  <2>3. CASE c # byte /\ ~(c = byte + 1 /\ shr > 0)
    <3>1. part(c) = 0
      BY <1>7, <2>3
    <3>2. Digit(0, d) = 0
      BY ZeroDigits
    <3>3. ~(offset <= p /\ p < offset + k)
      <4>1. CASE c < byte
        BY <1>2, <1>8, <4>1
      <4>2. CASE c = byte + 1 /\ ~(shr > 0)
        BY <1>2, <1>8, <4>2
      <4>3. CASE c > byte + 1
        BY <1>2, <1>8, <4>3
      <4> QED BY <1>2, <2>3, <4>1, <4>2, <4>3
    <3>. HIDE DEF part
    <3> QED BY <3>1, <3>2, <3>3
  <2>. HIDE DEF part
  <2> QED BY <2>1, <2>2, <2>3
<1>. HIDE DEF part, new
<1>9. ASSUME NEW c \in 0..(n - 1)
      PROVE  /\ part(c) \in 0..255 /\ new[c] = Xor(buffer[c], part(c)) /\ new[c] \in 0..255
             /\ \A d \in 0..7 : Digit(new[c], d) = (Digit(buffer[c], d) + Digit(part(c), d)) % 2
  <2>1. 0 \in 0..7 /\ \E p : p = 8 * c + (7 - 0)
    OBVIOUS
  <2>2. part(c) \in 0..255
    BY <1>8, <2>1
  <2>3. new[c] = Xor(buffer[c], part(c)) /\ buffer[c] \in 0..255
    BY <1>3
  <2>4. PICK x, y : x = buffer[c] /\ y = part(c)
    OBVIOUS
  <2>5. /\ Xor(x, y) \in 0..255
        /\ \A d \in 0..7 : Digit(Xor(x, y), d) = (Digit(x, d) + Digit(y, d)) % 2
    BY <2>2, <2>3, <2>4, XorDigits
  <2> QED BY <2>2, <2>3, <2>4, <2>5
<1>10. new \in [0..(n - 1) -> 0..255]
  BY <1>3, <1>9
<1>11. ASSUME NEW p \in 0..(8 * n - 1)
       PROVE  BitAt(new, p) =
                  (BitAt(buffer, p) + (IF offset <= p /\ p < offset + k
                                       THEN Digit(value, k - 1 - (p - offset)) ELSE 0)) % 2
  <2>1. PICK c, d : c = p \div 8 /\ d = 7 - (p % 8)
    OBVIOUS
  <2>2. c \in 0..(n - 1) /\ d \in 0..7 /\ p = 8 * c + (7 - d)
    BY <2>1
  <2>3. Digit(part(c), d) = IF offset <= p /\ p < offset + k
                            THEN Digit(value, k - 1 - (p - offset)) ELSE 0
    BY <1>8, <2>2
  <2>4. Digit(new[c], d) = (Digit(buffer[c], d) + Digit(part(c), d)) % 2
    BY <1>9, <2>2
  <2>5. BitAt(new, p) = Digit(new[c], d) /\ BitAt(buffer, p) = Digit(buffer[c], d)
    BY <2>1 DEF BitAt
  <2> QED BY <2>3, <2>4, <2>5, Zenon
<1> QED BY <1>10, <1>11, Zenon DEF new, AddsBits

-----------------------------------------------------------------------------
(* The syndrome of a codeword.                                             *)

\* A step of ComputeH, for a function h of the pairs.
HBody(buffer, at, h, a, l) ==
    IF l <= 1 THEN IF l = 1 /\ Bit(buffer, at, a) = 1 THEN a ELSE 0
    ELSE Xor(h[<<a, l \div 2>>], h[<<a + (l \div 2), l - (l \div 2)>>])

HStep(n, buffer, at, h) == [r \in Nat \X (0..n) |-> HBody(buffer, at, h, r[1], r[2])]

\* A step looks only at fewer positions.
LEMMA HLooksBack ==
    ASSUME NEW buffer, NEW at, NEW g, NEW h, NEW a \in Nat, NEW l \in Nat,
           \A b \in Nat, m \in 0..(l - 1) : g[<<b, m>>] = h[<<b, m>>]
    PROVE  HBody(buffer, at, g, a, l) = HBody(buffer, at, h, a, l)
<1>1. CASE l <= 1
  BY <1>1 DEF HBody
<1>2. CASE l > 1
  <2>1. PICK q : q = l \div 2
    OBVIOUS
  <2>2. q \in 0..(l - 1) /\ l - q \in 0..(l - 1) /\ a + q \in Nat
    BY <1>2, <2>1
  <2>3. g[<<a, q>>] = h[<<a, q>>] /\ g[<<a + q, l - q>>] = h[<<a + q, l - q>>]
    BY <2>2
  <2>4. ASSUME NEW f
        PROVE  HBody(buffer, at, f, a, l) = Xor(f[<<a, q>>], f[<<a + q, l - q>>])
    <3>1. ~(l <= 1)
      BY <1>2
    <3> QED BY <2>1, <3>1, Zenon DEF HBody
  <2> QED BY <2>3, <2>4, Zenon
<1> QED BY <1>1, <1>2

\* There is a function that the step leads to itself.
LEMMA HExists ==
    ASSUME NEW n \in Nat, NEW buffer, NEW at
    PROVE  \E g : g = HStep(n, buffer, at, g)
<1>. DEFINE Exists(m) == \E g : g = HStep(m, buffer, at, g)
            S == {m \in 0..n : Exists(m)}
<1>1. 0 \in S
  <2>. DEFINE g == [r \in Nat \X (0..0) |-> 0]
  <2>1. \A r \in Nat \X (0..0) : HBody(buffer, at, g, r[1], r[2]) = 0
    BY DEF HBody
  <2>2. g = HStep(0, buffer, at, g)
    BY <2>1 DEF HStep
  <2>. HIDE DEF g
  <2>3. Exists(0)
    BY <2>2
  <2> QED BY <2>3
<1>2. ASSUME NEW m \in 0..(n - 1), m \in S
      PROVE  m + 1 \in S
  <2>1. PICK g : g = HStep(m, buffer, at, g)
    BY <1>2
  <2>. DEFINE f == [r \in Nat \X (0..(m + 1)) |-> HBody(buffer, at, g, r[1], r[2])]
  <2>2. ASSUME NEW b \in Nat, NEW l \in 0..m
        PROVE  g[<<b, l>>] = f[<<b, l>>]
    <3>1. <<b, l>> \in Nat \X (0..m) /\ <<b, l>> \in Nat \X (0..(m + 1))
      OBVIOUS
    <3>2. g[<<b, l>>] = HBody(buffer, at, g, b, l)
      BY <2>1, <3>1 DEF HStep
    <3>3. f[<<b, l>>] = HBody(buffer, at, g, b, l)
      BY <3>1
    <3> QED BY <3>2, <3>3
  <2>3. ASSUME NEW r \in Nat \X (0..(m + 1))
        PROVE  HBody(buffer, at, g, r[1], r[2]) = HBody(buffer, at, f, r[1], r[2])
    <3>. HIDE DEF f
    <3>1. PICK a \in Nat, l \in 0..(m + 1) : r = <<a, l>>
      OBVIOUS
    <3>2. \A b \in Nat, j \in 0..(l - 1) : g[<<b, j>>] = f[<<b, j>>]
      <4>1. \A j \in 0..(l - 1) : j \in 0..m
        OBVIOUS
      <4> QED BY <2>2, <4>1
    <3>3. l \in Nat
      OBVIOUS
    <3>4. HBody(buffer, at, g, a, l) = HBody(buffer, at, f, a, l)
      BY <3>2, <3>3, HLooksBack
    <3> QED BY <3>1, <3>4
  <2>4. f = HStep(m + 1, buffer, at, f)
    <3>. DEFINE u(r) == HBody(buffer, at, g, r[1], r[2])
                v(r) == HBody(buffer, at, f, r[1], r[2])
    <3>1. \A r \in Nat \X (0..(m + 1)) : u(r) = v(r)
      BY <2>3
    <3>2. f = [r \in Nat \X (0..(m + 1)) |-> u(r)]
      OBVIOUS
    <3>3. HStep(m + 1, buffer, at, f) = [r \in Nat \X (0..(m + 1)) |-> v(r)]
      BY DEF HStep
    <3>. HIDE DEF u, v, f
    <3> QED BY <3>1, <3>2, <3>3
  <2>5. Exists(m + 1)
    <3>. HIDE DEF f
    <3> QED BY <2>4
  <2>. HIDE DEF Exists
  <2> QED BY <2>5
<1>. HIDE DEF S
<1>3. n \in S
  <2>1. n \in 0..n
    OBVIOUS
  <2> QED BY <1>1, <1>2, <2>1, CountUp
<1>. USE DEF S
<1> QED BY <1>3

\* The positions in S of the bits that are set and whose number has digit d.
SetPositions(buffer, at, S, d) == {p \in S : Bit(buffer, at, p) = 1 /\ Digit(p, d) = 1}

\* Two parities.
LEMMA ParityOfSum ==
    ASSUME NEW x \in Nat, NEW y \in Nat
    PROVE  (x + y) % 2 = ((x % 2) + (y % 2)) % 2
OBVIOUS

\* Digit d of a codeword's syndrome is the parity of the set bits whose position
\* has that digit.
LEMMA ParityOfPositions ==
    ASSUME NEW k \in 3..8, NEW buffer, NEW at
    PROVE  /\ ComputeH(k, buffer, at) \in 0..TotalBits(k)
           /\ \A d \in 0..7 : Digit(ComputeH(k, buffer, at), d)
                  = Cardinality(SetPositions(buffer, at, 1..TotalBits(k), d)) % 2
<1>1. PICK n : n = TotalBits(k)
  OBVIOUS
<1>2. n \in 7..255 /\ n \in Nat /\ Power[k] = n + 1
  BY <1>1, Sizes
<1>. DEFINE g == CHOOSE h : h = HStep(n, buffer, at, h)
<1>3. g = HStep(n, buffer, at, g)
  BY <1>2, HExists
<1>4. ComputeH(k, buffer, at) = g[<<1, n>>]
  BY <1>1 DEF ComputeH, HStep, HBody
<1>. HIDE DEF g
<1>5. ASSUME NEW a \in Nat, NEW l \in 0..n
      PROVE  g[<<a, l>>] = HBody(buffer, at, g, a, l)
  BY <1>3 DEF HStep
<1>. DEFINE Positions(a, l, d) == SetPositions(buffer, at, a..(a + l - 1), d)
            Correct(l) == \A a \in 1..(n + 1 - l) :
                /\ g[<<a, l>>] \in 0..255
                /\ \A d \in 0..7 : /\ IsFiniteSet(Positions(a, l, d))
                                   /\ Digit(g[<<a, l>>], d) = Cardinality(Positions(a, l, d)) % 2
            Failing == {l \in 0..n : ~Correct(l)}
<1>6. ASSUME NEW l \in 0..n, \A m \in 0..(l - 1) : Correct(m)
      PROVE  Correct(l)
  <2>. SUFFICES ASSUME NEW a \in 1..(n + 1 - l)
                PROVE  /\ g[<<a, l>>] \in 0..255
                       /\ \A d \in 0..7 :
                              /\ IsFiniteSet(Positions(a, l, d))
                              /\ Digit(g[<<a, l>>], d) = Cardinality(Positions(a, l, d)) % 2
    OBVIOUS
  <2>0. a \in Nat
    BY <1>2
  <2>1. CASE l = 0 \/ (l = 1 /\ Bit(buffer, at, a) # 1)
    <3>1. g[<<a, l>>] = 0
      <4>1. HBody(buffer, at, g, a, l) = 0
        BY <2>1 DEF HBody
      <4> QED BY <1>5, <2>0, <4>1
    <3>2. ASSUME NEW d PROVE Positions(a, l, d) = {}
      <4>1. ASSUME NEW p \in a..(a + l - 1) PROVE l = 1 /\ p = a
        BY <1>2, <2>0, <2>1
      <4> QED BY <2>1, <4>1 DEF SetPositions
    <3>3. IsFiniteSet({}) /\ Cardinality({}) = 0
      BY FS_EmptySet
    <3>4. 0 % 2 = 0 /\ 0 \in 0..255
      OBVIOUS
    <3>. HIDE DEF Positions
    <3> QED BY <3>1, <3>2, <3>3, <3>4, ZeroDigits
  <2>2. CASE l = 1 /\ Bit(buffer, at, a) = 1
    <3>1. g[<<a, l>>] = a
      <4>1. l <= 1 /\ l = 1 /\ Bit(buffer, at, a) = 1
        BY <2>2
      <4>2. HBody(buffer, at, g, a, l) = a
        BY <4>1, Zenon DEF HBody
      <4> QED BY <1>5, <2>0, <4>2
    <3>2. a \in 0..255
      BY <1>2, <2>2
    <3>3. ASSUME NEW d \in 0..7
          PROVE  /\ IsFiniteSet(Positions(a, l, d))
                 /\ Digit(a, d) = Cardinality(Positions(a, l, d)) % 2
      <4>1. a..(a + l - 1) = {a}
        BY <1>2, <2>2
      <4>2. Positions(a, l, d) = IF Digit(a, d) = 1 THEN {a} ELSE {}
        BY <2>2, <4>1 DEF SetPositions
      <4>3. Digit(a, d) \in {0, 1}
        <5>1. d \in 0..8
          OBVIOUS
        <5> QED BY <2>0, <5>1, DigitIsBinary
      <4>4. /\ IsFiniteSet({}) /\ Cardinality({}) = 0
            /\ IsFiniteSet({a}) /\ Cardinality({a}) = 1
        BY FS_EmptySet, FS_Singleton
      <4>5. 0 % 2 = 0 /\ 1 % 2 = 1
        OBVIOUS
      <4>. HIDE DEF Positions
      <4> QED BY <4>2, <4>3, <4>4, <4>5
    <3>. HIDE DEF Positions
    <3> QED BY <3>1, <3>2, <3>3
  <2>3. CASE l > 1
    <3>1. PICK q, m, b : q = l \div 2 /\ m = l - q /\ b = a + q
      OBVIOUS
    <3>2. /\ q \in 0..(l - 1) /\ m \in 0..(l - 1) /\ b \in Nat /\ b = a + q /\ m = l - q
          /\ a \in 1..(n + 1 - q) /\ b \in 1..(n + 1 - m) /\ ~(l <= 1)
      BY <1>2, <2>3, <3>1
    <3>3. PICK x, y : x = g[<<a, q>>] /\ y = g[<<b, m>>]
      OBVIOUS
    <3>4. g[<<a, l>>] = Xor(x, y)
      <4>1. HBody(buffer, at, g, a, l) = Xor(g[<<a, q>>], g[<<b, m>>])
        BY <3>1, <3>2, Zenon DEF HBody
      <4>2. g[<<a, l>>] = HBody(buffer, at, g, a, l)
        BY <1>5, <2>0
      <4> QED BY <3>3, <4>1, <4>2, Zenon
    <3>5. /\ x \in 0..255 /\ y \in 0..255
          /\ \A d \in 0..7 :
                 /\ IsFiniteSet(Positions(a, q, d)) /\ IsFiniteSet(Positions(b, m, d))
                 /\ Digit(x, d) = Cardinality(Positions(a, q, d)) % 2
                 /\ Digit(y, d) = Cardinality(Positions(b, m, d)) % 2
      <4>1. Correct(q) /\ Correct(m)
        BY <1>6, <3>2
      <4>. HIDE DEF Positions
      <4> QED BY <3>2, <3>3, <4>1
    <3>6. /\ Xor(x, y) \in 0..255
          /\ \A d \in 0..7 : Digit(Xor(x, y), d) = (Digit(x, d) + Digit(y, d)) % 2
      BY <3>5, XorDigits
    <3>7. ASSUME NEW d \in 0..7
          PROVE  /\ IsFiniteSet(Positions(a, l, d))
                 /\ Digit(Xor(x, y), d) = Cardinality(Positions(a, l, d)) % 2
      <4>1. PICK A, B : A = Positions(a, q, d) /\ B = Positions(b, m, d)
        OBVIOUS
      <4>2. Positions(a, l, d) = A \cup B
        <5>1. a..(a + l - 1) = (a..(a + q - 1)) \cup (b..(b + m - 1))
          BY <3>2
        <5> QED BY <4>1, <5>1 DEF SetPositions
      <4>3. A \cap B = {}
        <5>1. (a..(a + q - 1)) \cap (b..(b + m - 1)) = {}
          BY <3>2
        <5> QED BY <4>1, <5>1 DEF SetPositions
      <4>. HIDE DEF Positions
      <4>4. IsFiniteSet(A) /\ IsFiniteSet(B)
        BY <3>5, <4>1
      <4>5. /\ Cardinality(A) \in Nat /\ Cardinality(B) \in Nat
            /\ IsFiniteSet(A \cup B) /\ Cardinality(A \cup B) = Cardinality(A) + Cardinality(B)
        <5>1. Cardinality(A) \in Nat /\ Cardinality(B) \in Nat
          BY <4>4, FS_CardinalityType
        <5>2. /\ IsFiniteSet(A \cup B)
              /\ Cardinality(A \cup B)
                     = Cardinality(A) + Cardinality(B) - Cardinality(A \cap B)
          BY <4>4, FS_Union
        <5>3. Cardinality(A \cap B) = 0
          BY <4>3, FS_EmptySet
        <5> QED BY <5>1, <5>2, <5>3
      <4>6. Digit(x, d) = Cardinality(A) % 2 /\ Digit(y, d) = Cardinality(B) % 2
        BY <3>5, <4>1
      <4>7. PICK u, v : u = Cardinality(A) /\ v = Cardinality(B)
        OBVIOUS
      <4>8. (u + v) % 2 = ((u % 2) + (v % 2)) % 2
        BY <4>5, <4>7, ParityOfSum
      <4>9. Digit(Xor(x, y), d) = (Digit(x, d) + Digit(y, d)) % 2
        BY <3>6
      <4> QED BY <4>2, <4>5, <4>6, <4>7, <4>8, <4>9
    <3>. HIDE DEF Positions
    <3> QED BY <3>4, <3>6, <3>7
  <2>. HIDE DEF Positions
  <2>4. l = 0 \/ l = 1 \/ l > 1
    OBVIOUS
  <2> QED BY <2>1, <2>2, <2>3, <2>4
<1>7. Failing = {}
  <2>. SUFFICES ASSUME Failing # {} PROVE FALSE
    OBVIOUS
  <2>1. Failing \in SUBSET Nat
    OBVIOUS
  <2>2. PICK l \in Failing : \A m \in Failing : l <= m
    <3>. HIDE DEF Failing
    <3> QED BY <2>1, LeastElement
  <2>3. l \in 0..n /\ ~Correct(l) /\ \A m \in 0..(l - 1) : Correct(m)
    <3>. HIDE DEF Correct
    <3> QED BY <1>2, <2>2
  <2>. HIDE DEF Correct
  <2> QED BY <1>6, <2>3
<1>8. Correct(n)
  <2>. HIDE DEF Correct
  <2> QED BY <1>2, <1>7
<1>9. PICK h : h = ComputeH(k, buffer, at)
  OBVIOUS
<1>10. /\ h \in 0..255
       /\ \A d \in 0..7 : Digit(h, d) = Cardinality(SetPositions(buffer, at, 1..n, d)) % 2
  <2>1. 1 \in 1..(n + 1 - n) /\ 1 + n - 1 = n
    BY <1>2
  <2> QED BY <1>4, <1>8, <1>9, <2>1
<1>11. ASSUME NEW d \in 0..7, d >= k
       PROVE  Digit(h, d) = 0
  <2>1. ASSUME NEW p \in 1..n PROVE Digit(p, d) = 0
    <3>1. p \in 0..255 /\ k \in 0..8 /\ p < Power[k]
      BY <1>2
    <3> QED BY <1>11, <3>1, BelowPower
  <2>2. SetPositions(buffer, at, 1..n, d) = {}
    BY <2>1 DEF SetPositions
  <2>3. Cardinality({}) = 0 /\ 0 % 2 = 0
    BY FS_EmptySet
  <2> QED BY <1>10, <2>2, <2>3
<1>12. h \in 0..n
  <2>1. k \in 0..8
    OBVIOUS
  <2>2. h < Power[k]
    BY <1>10, <1>11, <2>1, BelowPower
  <2> QED BY <1>2, <1>10, <2>2
<1> QED BY <1>1, <1>9, <1>10, <1>12

\* The syndrome depends on the bits of the codeword.
LEMMA SameWord ==
    ASSUME NEW k \in 3..8, NEW b, NEW at, NEW c, NEW to,
           \A p \in 1..TotalBits(k) : Bit(b, at, p) = Bit(c, to, p)
    PROVE  ComputeH(k, b, at) = ComputeH(k, c, to)
<1>1. PICK x, y : x = ComputeH(k, b, at) /\ y = ComputeH(k, c, to)
  OBVIOUS
<1>2. TotalBits(k) \in 7..255
  BY Sizes
<1>3. /\ x \in 0..TotalBits(k)
      /\ \A d \in 0..7 :
             Digit(x, d) = Cardinality(SetPositions(b, at, 1..TotalBits(k), d)) % 2
  BY <1>1, ParityOfPositions
<1>4. /\ y \in 0..TotalBits(k)
      /\ \A d \in 0..7 :
             Digit(y, d) = Cardinality(SetPositions(c, to, 1..TotalBits(k), d)) % 2
  BY <1>1, ParityOfPositions
<1>5. \A d \in 0..7 : SetPositions(b, at, 1..TotalBits(k), d)
                          = SetPositions(c, to, 1..TotalBits(k), d)
  BY DEF SetPositions
<1>6. x \in 0..255 /\ y \in 0..255
  <2>1. x \in 0..TotalBits(k) /\ y \in 0..TotalBits(k)
    BY <1>3, <1>4
  <2> QED BY <1>2, <2>1
<1>7. \A d \in 0..7 : Digit(x, d) = Digit(y, d)
  BY <1>3, <1>4, <1>5, Zenon
<1> QED BY <1>1, <1>6, <1>7, SameDigits

\* The digits of 1 << s.
LEMMA DigitsOfPower ==
    ASSUME NEW s \in 0..7
    PROVE  /\ Power[s] \in 0..255
           /\ \A d \in 0..7 : Digit(Power[s], d) = IF d = s THEN 1 ELSE 0
<1>1. \A e \in 0..7 : Digit(1, e) = IF e = 0 THEN 1 ELSE 0
  <2>. SUFFICES ASSUME NEW e \in 0..7 PROVE Digit(1, e) = IF e = 0 THEN 1 ELSE 0
    OBVIOUS
  <2>1. e \in {0, 1, 2, 3, 4, 5, 6, 7}
    OBVIOUS
  <2> QED BY <2>1, Powers DEF Digit
<1>2. ASSUME NEW d \in 0..7
      PROVE  Digit(Power[s], d) = IF d = s THEN 1 ELSE 0
  <2>1. 1 \in Nat /\ s \in 0..8
    OBVIOUS
  <2>2. Digit(1 * Power[s], d) = IF d >= s THEN Digit(1, d - s) ELSE 0
    BY <2>1, DigitsOfProduct
  <2>3. 1 * Power[s] = Power[s]
    BY <2>1, Powers
  <2>4. d >= s => d - s \in 0..7 /\ (d - s = 0 <=> d = s)
    OBVIOUS
  <2>5. d = s => d >= s
    OBVIOUS
  <2> QED BY <1>1, <2>2, <2>3, <2>4, <2>5
<1>3. Power[s] \in 0..255
  <2>1. s \in {0, 1, 2, 3, 4, 5, 6, 7}
    OBVIOUS
  <2> QED BY <2>1, Powers
<1> QED BY <1>2, <1>3

\* The bits of the bytes of a buffer are binary.
LEMMA BitOfWord ==
    ASSUME NEW n \in Nat, NEW buffer \in [0..(n - 1) -> 0..255], NEW at \in Nat,
           NEW p \in Nat \ {0}, at + (p - 1) \div 8 < n
    PROVE  /\ Bit(buffer, at, p) \in {0, 1}
           /\ Bit(buffer, at, p) = BitAt(buffer, 8 * at + (p - 1))
           /\ at + (p - 1) \div 8 \in 0..(n - 1) /\ 7 - ((p - 1) % 8) \in 0..7
<1>1. PICK c, d : c = at + (p - 1) \div 8 /\ d = 7 - ((p - 1) % 8)
  OBVIOUS
<1>2. c \in 0..(n - 1) /\ d \in 0..7
  BY <1>1
<1>3. buffer[c] \in Nat /\ d \in 0..8
  <2>1. buffer[c] \in 0..255
    BY <1>2
  <2>2. d \in 0..8
    BY <1>2
  <2>3. \A z \in 0..255 : z \in Nat
    OBVIOUS
  <2> QED BY <2>1, <2>2, <2>3, Zenon
<1>4. Bit(buffer, at, p) = Digit(buffer[c], d)
  BY <1>1 DEF Bit
<1>5. Digit(buffer[c], d) \in {0, 1}
  BY <1>3, DigitIsBinary
<1>6. (8 * at + (p - 1)) \div 8 = c /\ 7 - ((8 * at + (p - 1)) % 8) = d
  BY <1>1
<1> QED BY <1>1, <1>2, <1>4, <1>5, <1>6 DEF BitAt

\* Two buffers of n bytes are apart in bit i from byte "at" on, and nothing else.
ApartInBit(n, old, new, at, i) ==
    /\ new \in [0..(n - 1) -> 0..255]
    /\ \A c \in 0..(n - 1) : c # at + (i - 1) \div 8 => new[c] = old[c]
    /\ \A p \in Nat \ {0} : at + (p - 1) \div 8 < n =>
           Bit(new, at, p) = IF p = i THEN 1 - Bit(old, at, p) ELSE Bit(old, at, p)

\* SwapBitInCodeword changes bit i, and nothing else.
LEMMA SwapFlipsBit ==
    ASSUME NEW n \in Nat, NEW buffer \in [0..(n - 1) -> 0..255], NEW at \in Nat,
           NEW i \in Nat \ {0}, at + (i - 1) \div 8 < n
    PROVE  ApartInBit(n, buffer, SwapBitInCodeword(buffer, at, i), at, i)
<1>1. PICK c, s : c = at + (i - 1) \div 8 /\ s = 7 - ((i - 1) % 8)
  OBVIOUS
<1>2. c \in 0..(n - 1) /\ s \in 0..7
  BY <1>1
<1>3. PICK x, y : x = buffer[c] /\ y = Xor(buffer[c], Power[s])
  OBVIOUS
<1>4. PICK new : new = SwapBitInCodeword(buffer, at, i)
  OBVIOUS
<1>5. new = [buffer EXCEPT ![c] = y]
  BY <1>1, <1>3, <1>4 DEF SwapBitInCodeword
<1>6. x \in 0..255 /\ Power[s] \in 0..255
  BY <1>2, <1>3, DigitsOfPower
<1>7. y \in 0..255 /\ \A d \in 0..7 : Digit(y, d) = (Digit(x, d) + Digit(Power[s], d)) % 2
  BY <1>3, <1>6, XorDigits
<1>8. ASSUME NEW d \in 0..7
      PROVE  Digit(y, d) = IF d = s THEN 1 - Digit(x, d) ELSE Digit(x, d)
  <2>1. Digit(Power[s], d) = IF d = s THEN 1 ELSE 0
    BY <1>2, DigitsOfPower
  <2>2. PICK u, v : u = Digit(x, d) /\ v = Digit(Power[s], d)
    OBVIOUS
  <2>3. u \in {0, 1}
    <3>1. x \in Nat /\ d \in 0..8
      BY <1>6
    <3> QED BY <2>2, <3>1, DigitIsBinary
  <2>4. (u + 1) % 2 = 1 - u /\ (u + 0) % 2 = u
    BY <2>3
  <2> QED BY <1>7, <2>1, <2>2, <2>4
<1>9. /\ new \in [0..(n - 1) -> 0..255] /\ new[c] = y
      /\ \A b \in 0..(n - 1) : b # c => new[b] = buffer[b]
  BY <1>2, <1>5, <1>7
<1>10. ASSUME NEW p \in Nat \ {0}, at + (p - 1) \div 8 < n
       PROVE  Bit(new, at, p) = IF p = i THEN 1 - Bit(buffer, at, p) ELSE Bit(buffer, at, p)
  <2>1. PICK b, d : b = at + (p - 1) \div 8 /\ d = 7 - ((p - 1) % 8)
    OBVIOUS
  <2>2. b \in 0..(n - 1) /\ d \in 0..7
    BY <1>10, <2>1
  <2>3. Bit(new, at, p) = Digit(new[b], d) /\ Bit(buffer, at, p) = Digit(buffer[b], d)
    BY <2>1 DEF Bit
  <2>4. p = i <=> b = c /\ d = s
    <3>1. p - 1 = 8 * ((p - 1) \div 8) + ((p - 1) % 8)
      OBVIOUS
    <3>2. i - 1 = 8 * ((i - 1) \div 8) + ((i - 1) % 8)
      OBVIOUS
    <3> QED BY <1>1, <2>1, <3>1, <3>2
  <2>5. CASE b = c
    <3>1. new[b] = y /\ buffer[b] = x
      BY <1>3, <1>9, <2>5
    <3>2. Digit(y, d) = IF d = s THEN 1 - Digit(x, d) ELSE Digit(x, d)
      BY <1>8, <2>2
    <3> QED BY <2>3, <2>4, <2>5, <3>1, <3>2
  <2>6. CASE b # c
    <3>1. new[b] = buffer[b]
      BY <1>9, <2>2, <2>6
    <3> QED BY <2>3, <2>4, <2>6, <3>1
  <2> QED BY <2>5, <2>6
<1> QED BY <1>1, <1>4, <1>9, <1>10 DEF ApartInBit

\* Flipping bit i of a codeword adds i to its syndrome.
LEMMA FlipMovesSyndrome ==
    ASSUME NEW k \in 3..8, NEW b, NEW c, NEW at, NEW i \in 1..TotalBits(k),
           \A p \in 1..TotalBits(k) :
               /\ Bit(b, at, p) \in {0, 1}
               /\ Bit(c, at, p) = IF p = i THEN 1 - Bit(b, at, p) ELSE Bit(b, at, p)
    PROVE  ComputeH(k, c, at) = Xor(ComputeH(k, b, at), i)
<1>1. PICK n, x, y : n = TotalBits(k) /\ x = ComputeH(k, b, at) /\ y = ComputeH(k, c, at)
  OBVIOUS
<1>2. n \in 7..255 /\ i \in 1..n /\ i \in 0..255
  <2>1. n \in 7..255
    BY <1>1, Sizes
  <2> QED BY <1>1, <2>1
<1>3. /\ x \in 0..n
      /\ \A d \in 0..7 : Digit(x, d) = Cardinality(SetPositions(b, at, 1..n, d)) % 2
  BY <1>1, ParityOfPositions
<1>4. /\ y \in 0..n
      /\ \A d \in 0..7 : Digit(y, d) = Cardinality(SetPositions(c, at, 1..n, d)) % 2
  BY <1>1, ParityOfPositions
<1>5. x \in 0..255 /\ y \in 0..255
  <2>1. x \in 0..n /\ y \in 0..n
    BY <1>3, <1>4
  <2> QED BY <1>2, <2>1
<1>6. Xor(x, i) \in 0..255 /\ \A d \in 0..7 : Digit(Xor(x, i), d) = (Digit(x, d) + Digit(i, d)) % 2
  BY <1>2, <1>5, XorDigits
<1>7. ASSUME NEW d \in 0..7
      PROVE  Digit(y, d) = Digit(Xor(x, i), d)
  <2>1. PICK A, B : A = SetPositions(b, at, 1..n, d) /\ B = SetPositions(c, at, 1..n, d)
    OBVIOUS
  <2>2. IsFiniteSet(A) /\ IsFiniteSet(B)
    <3>1. IsFiniteSet(1..n)
      BY <1>2, FS_Interval
    <3>2. A \subseteq 1..n /\ B \subseteq 1..n
      BY <2>1 DEF SetPositions
    <3> QED BY <3>1, <3>2, FS_Subset
  <2>3. PICK u, v : u = Cardinality(A) /\ v = Cardinality(B)
    OBVIOUS
  <2>4. u \in Nat /\ v \in Nat
    BY <2>2, <2>3, FS_CardinalityType
  <2>5. Digit(x, d) = u % 2 /\ Digit(y, d) = v % 2
    BY <1>3, <1>4, <2>1, <2>3
  <2>6. Digit(i, d) \in {0, 1}
    <3>1. i \in Nat /\ d \in 0..8
      BY <1>2
    <3> QED BY <3>1, DigitIsBinary
  <2>7. ASSUME NEW p \in 1..n, p # i
        PROVE  p \in A <=> p \in B
    BY <1>1, <2>1, <2>7 DEF SetPositions
  <2>8. i \in A => i \notin B /\ Digit(i, d) = 1
    <3>1. Bit(c, at, i) = 1 - Bit(b, at, i)
      OBVIOUS
    <3> QED BY <2>1, <3>1 DEF SetPositions
  <2>9. i \in B => i \notin A /\ Digit(i, d) = 1
    <3>1. Bit(c, at, i) = 1 - Bit(b, at, i) /\ Bit(b, at, i) \in {0, 1}
      OBVIOUS
    <3> QED BY <2>1, <3>1 DEF SetPositions
  <2>10. Digit(i, d) = 1 => i \in A \/ i \in B
    <3>1. Bit(c, at, i) = 1 - Bit(b, at, i) /\ Bit(b, at, i) \in {0, 1}
      OBVIOUS
    <3> QED BY <1>2, <2>1, <3>1 DEF SetPositions
  <2>11. A \subseteq 1..n /\ B \subseteq 1..n
    BY <2>1 DEF SetPositions
  <2>12. CASE i \in A
    <3>1. B = A \ {i}
      BY <2>7, <2>8, <2>11, <2>12
    <3>2. v = u - 1
      BY <2>2, <2>3, <2>12, <3>1, FS_RemoveElement
    <3>3. v % 2 = ((u % 2) + 1) % 2
      BY <2>4, <3>2
    <3> QED BY <1>6, <2>5, <2>8, <2>12, <3>3
  <2>13. CASE i \in B
    <3>1. A = B \ {i}
      BY <2>7, <2>9, <2>11, <2>13
    <3>2. u = v - 1
      BY <2>2, <2>3, <2>13, <3>1, FS_RemoveElement
    <3>3. v % 2 = ((u % 2) + 1) % 2
      BY <2>4, <3>2
    <3> QED BY <1>6, <2>5, <2>9, <2>13, <3>3
  <2>14. CASE i \notin A /\ i \notin B
    <3>1. A = B
      <4>1. \A p \in 1..n : p \in A <=> p \in B
        BY <2>7, <2>14
      <4> QED BY <2>11, <4>1
    <3>2. Digit(i, d) = 0
      BY <2>6, <2>10, <2>14
    <3>3. u % 2 = ((u % 2) + 0) % 2
      BY <2>4
    <3> QED BY <1>6, <2>3, <2>5, <3>1, <3>2, <3>3
  <2> QED BY <2>12, <2>13, <2>14
<1> QED BY <1>1, <1>5, <1>6, <1>7, SameDigits

\* Exclusive or stays below a power of two.
LEMMA XorBelow ==
    ASSUME NEW k \in 0..8, NEW a \in 0..255, NEW b \in 0..255, a < Power[k], b < Power[k]
    PROVE  Xor(a, b) \in 0..255 /\ Xor(a, b) < Power[k]
<1>1. PICK x : x = Xor(a, b)
  OBVIOUS
<1>2. x \in 0..255 /\ \A d \in 0..7 : Digit(x, d) = (Digit(a, d) + Digit(b, d)) % 2
  BY <1>1, XorDigits
<1>3. ASSUME NEW d \in 0..7, d >= k
      PROVE  Digit(x, d) = 0
  <2>1. Digit(a, d) = 0 /\ Digit(b, d) = 0
    BY <1>3, BelowPower
  <2>2. (0 + 0) % 2 = 0
    OBVIOUS
  <2> QED BY <1>2, <2>1, <2>2
<1>4. x < Power[k]
  BY <1>2, <1>3, BelowPower
<1> QED BY <1>1, <1>2, <1>4

\* A codeword takes a value by at most one of its bits, by none if it has it already.
TakesValue(k, n, old, word, value, new) ==
    /\ new \in [0..(n - 1) -> 0..255]
    /\ \A b \in 0..(n - 1) :
           b \notin word..(word + CodewordBufferSize(k) - 1) => new[b] = old[b]
    /\ \E h \in 0..TotalBits(k) : \A p \in 1..(8 * CodewordBufferSize(k)) :
           p # h => Bit(new, word, p) = Bit(old, word, p)
    /\ ComputeH(k, new, word) = value
    /\ ComputeH(k, old, word) = value => new = old

\* One turn of Embed.
LEMMA WordTakesValue ==
    ASSUME NEW k \in 3..8, NEW n \in Nat, NEW buffer \in [0..(n - 1) -> 0..255],
           NEW word \in Nat, word + CodewordBufferSize(k) <= n,
           NEW value \in 0..255, value < Power[k]
    PROVE  TakesValue(k, n, buffer, word, value,
                      SwapBitInCodeword(buffer, word, Xor(ComputeH(k, buffer, word), value)))
<1>1. PICK n1, size, x, h, new :
          /\ n1 = TotalBits(k) /\ size = CodewordBufferSize(k)
          /\ x = ComputeH(k, buffer, word) /\ h = Xor(x, value)
          /\ new = SwapBitInCodeword(buffer, word, h)
  OBVIOUS
<1>2. n1 \in 7..255 /\ size \in 1..32 /\ 8 * size = n1 + 1 /\ Power[k] = n1 + 1
  BY <1>1, Sizes
<1>3. x \in 0..n1 /\ x \in 0..255 /\ x < Power[k] /\ k \in 0..8
  <2>1. x \in 0..n1
    BY <1>1, ParityOfPositions
  <2> QED BY <1>2, <2>1
<1>4. h \in 0..n1
  <2>1. h \in 0..255 /\ h < Power[k]
    BY <1>1, <1>3, XorBelow
  <2> QED BY <1>2, <2>1
<1>5. Xor(x, h) = value /\ (h = 0 <=> x = value)
  <2>1. Xor(x, Xor(x, value)) = value /\ (Xor(x, value) = 0 <=> x = value)
    BY <1>3, XorUndone
  <2> QED BY <1>1, <2>1
<1>6. CASE h = 0
  <2>1. new = buffer
    BY <1>1, <1>6 DEF SwapBitInCodeword
  <2>2. x = value
    BY <1>5, <1>6
  <2> QED BY <1>1, <1>4, <2>1, <2>2 DEF TakesValue
<1>7. CASE h # 0
  <2>1. h \in Nat \ {0} /\ h \in 1..n1 /\ word + (h - 1) \div 8 < n
        /\ (h - 1) \div 8 \in 0..(size - 1)
    <3>1. (h - 1) \div 8 \in 0..(size - 1)
      BY <1>2, <1>4, <1>7
    <3>2. word + size <= n
      BY <1>1
    <3>3. h \in Nat \ {0} /\ h \in 1..n1
      BY <1>2, <1>4, <1>7
    <3>4. word + (h - 1) \div 8 < n
      <4>1. PICK e : e = (h - 1) \div 8
        OBVIOUS
      <4>2. e \in 0..(size - 1)
        BY <3>1, <4>1
      <4>3. word + e < n
        BY <1>2, <3>2, <4>2
      <4> QED BY <4>1, <4>3
    <3> QED BY <3>1, <3>3, <3>4
  <2>2. /\ new \in [0..(n - 1) -> 0..255]
        /\ \A c \in 0..(n - 1) : c # word + (h - 1) \div 8 => new[c] = buffer[c]
        /\ \A p \in Nat \ {0} : word + (p - 1) \div 8 < n =>
               Bit(new, word, p) = IF p = h THEN 1 - Bit(buffer, word, p)
                                   ELSE Bit(buffer, word, p)
    <3>0. h \in Nat \ {0} /\ word + (h - 1) \div 8 < n
      BY <2>1
    <3>1. ApartInBit(n, buffer, SwapBitInCodeword(buffer, word, h), word, h)
      BY <3>0, SwapFlipsBit
    <3> QED BY <1>1, <3>1, Zenon DEF ApartInBit
  <2>3. ASSUME NEW p \in 1..(8 * size)
        PROVE  /\ p \in Nat \ {0} /\ Bit(buffer, word, p) \in {0, 1}
               /\ Bit(new, word, p) = IF p = h THEN 1 - Bit(buffer, word, p)
                                      ELSE Bit(buffer, word, p)
    <3>1. p \in Nat \ {0} /\ word + (p - 1) \div 8 < n
      <4>1. (p - 1) \div 8 <= size - 1 /\ (p - 1) \div 8 \in Nat /\ p \in Nat \ {0}
        BY <1>2
      <4> QED BY <1>1, <1>2, <4>1
    <3>2. Bit(buffer, word, p) \in {0, 1}
      BY <3>1, BitOfWord
    <3> QED BY <2>2, <3>1, <3>2
  <2>4. ComputeH(k, new, word) = value
    <3>1. \A p \in 1..n1 :
              /\ Bit(buffer, word, p) \in {0, 1}
              /\ Bit(new, word, p) = IF p = h THEN 1 - Bit(buffer, word, p)
                                     ELSE Bit(buffer, word, p)
      <4>1. \A p \in 1..n1 : p \in 1..(8 * size)
        BY <1>2
      <4> QED BY <2>3, <4>1
    <3>2. h \in 1..TotalBits(k)
      BY <1>1, <2>1
    <3>3. ComputeH(k, new, word) = Xor(ComputeH(k, buffer, word), h)
      BY <1>1, <3>1, <3>2, FlipMovesSyndrome
    <3> QED BY <1>1, <1>5, <3>3
  <2>5. \A b \in 0..(n - 1) : b \notin word..(word + size - 1) => new[b] = buffer[b]
    <3>1. word + (h - 1) \div 8 \in word..(word + size - 1)
      BY <1>2, <2>1
    <3> QED BY <2>2, <3>1
  <2>6. \A p \in 1..(8 * size) : p # h => Bit(new, word, p) = Bit(buffer, word, p)
    BY <2>3
  <2>7. x # value
    BY <1>5, <1>7
  <2> QED BY <1>1, <1>4, <2>2, <2>4, <2>5, <2>6, <2>7 DEF TakesValue
<1> QED BY <1>6, <1>7

\* The value that Embed reads for codeword j.
LEMMA ReadWord ==
    ASSUME NEW k \in 3..8, NEW data \in [0..(DataBlockSize(k) - 1) -> 0..255],
           NEW j \in 0..(CodewordsInBlock(k) - 1)
    PROVE  /\ ReadBitsFromBuffer(data, j * k, k) \in 0..255
           /\ ReadBitsFromBuffer(data, j * k, k) < Power[k]
           /\ \A q \in 0..(k - 1) : Digit(ReadBitsFromBuffer(data, j * k, k), q)
                                        = BitAt(data, j * k + (k - 1 - q))
<1>1. PICK d, c, offset, v : /\ d = DataBlockSize(k) /\ c = CodewordsInBlock(k)
                             /\ offset = j * k /\ v = ReadBitsFromBuffer(data, j * k, k)
  OBVIOUS
<1>2. d \in 1..8 /\ c \in 1..8 /\ c * k = 8 * d
  BY <1>1, Sizes
<1>3. offset \in Nat /\ offset + k <= 8 * d
  <2>1. PICK i \in Nat : c = j + 1 + i
    <3>1. c - j - 1 \in Nat /\ c = j + 1 + (c - j - 1)
      BY <1>1, <1>2
    <3> QED BY <3>1
  <2>2. c * k = j * k + k + i * k /\ i * k \in Nat /\ j * k \in Nat
    BY <2>1
  <2> QED BY <1>1, <1>2, <2>2
<1>4. offset \div 8 \in 0..(d - 1) /\ ((offset % 8) + k > 8 => (offset \div 8) + 1 \in 0..(d - 1))
  BY <1>2, <1>3
<1>5. /\ data[offset \div 8] \in 0..255
      /\ (offset % 8) + k > 8 => data[(offset \div 8) + 1] \in 0..255
  BY <1>1, <1>4
<1>6. k \in 1..8 /\ k \in 0..8
  OBVIOUS
<1>7. /\ v \in 0..255
      /\ \A q \in 0..7 : Digit(v, q) = IF q < k THEN BitAt(data, offset + (k - 1 - q)) ELSE 0
  BY <1>1, <1>3, <1>5, <1>6, ReadIsBits
<1>8. v < Power[k]
  <2>1. \A q \in 0..7 : q >= k => Digit(v, q) = 0
    BY <1>7
  <2> QED BY <1>6, <1>7, <2>1, BelowPower
<1>9. ASSUME NEW q \in 0..(k - 1) PROVE Digit(v, q) = BitAt(data, offset + (k - 1 - q))
  <2>1. q \in 0..7 /\ q < k
    OBVIOUS
  <2> QED BY <1>7, <2>1
<1> QED BY <1>1, <1>7, <1>8, <1>9

-----------------------------------------------------------------------------
(* A block of the Hamming encoder.                                         *)

\* The codewords of a block lie one after the other within it.
LEMMA WordsOfBlock ==
    ASSUME NEW k \in 3..8, NEW at \in Nat, NEW j \in 0..(CodewordsInBlock(k) - 1)
    PROVE  /\ at + j * CodewordBufferSize(k) \in Nat
           /\ at + j * CodewordBufferSize(k) >= at
           /\ at + j * CodewordBufferSize(k) + CodewordBufferSize(k) <= at + CodewordBlockSize(k)
           /\ \A i \in 0..(j - 1) : at + i * CodewordBufferSize(k) + CodewordBufferSize(k)
                                        <= at + j * CodewordBufferSize(k)
<1>1. PICK c, w : c = CodewordsInBlock(k) /\ w = CodewordBufferSize(k)
  OBVIOUS
<1>2. c \in 1..8 /\ w \in 1..32 /\ CodewordBlockSize(k) = w * c
  BY <1>1, Sizes
<1>3. ASSUME NEW a \in Nat, NEW b \in Nat, a < b
      PROVE  a * w \in Nat /\ b * w \in Nat /\ a * w + w <= b * w
  <2>1. PICK i \in Nat : b = a + 1 + i
    <3>1. b - a - 1 \in Nat /\ b = a + 1 + (b - a - 1)
      BY <1>3
    <3> QED BY <3>1
  <2>2. b * w = a * w + w + i * w /\ i * w \in Nat /\ a * w \in Nat
    BY <1>2, <2>1
  <2> QED BY <1>2, <2>2
<1>4. j * w \in Nat /\ j * w + w <= w * c
  <2>1. j \in Nat /\ c \in Nat /\ j < c /\ c * w = w * c
    BY <1>1, <1>2
  <2>2. j * w \in Nat /\ j * w + w <= c * w
    BY <1>3, <2>1
  <2> QED BY <2>1, <2>2
<1>5. ASSUME NEW i \in 0..(j - 1)
      PROVE  at + i * w + w <= at + j * w
  <2>1. i \in Nat /\ j \in Nat /\ i < j
    OBVIOUS
  <2>2. i * w \in Nat /\ j * w \in Nat /\ i * w + w <= j * w
    BY <1>3, <2>1
  <2> QED BY <1>2, <2>2
<1>6. at + j * w \in Nat /\ at + j * w >= at /\ at + j * w + w <= at + w * c
  <2>1. w \in Nat /\ w * c \in Nat
    BY <1>2
  <2> QED BY <1>4, <2>1
<1> QED BY <1>1, <1>2, <1>5, <1>6

\* The turns of a loop: g[i] is what there is after i turns, and step(i) leads to it.
ExtractStep(k, buffer, at) ==
    [p \in (1..CodewordsInBlock(k)) \X [0..(DataBlockSize(k) - 1) -> 0..255] |->
        WriteBitsToBuffer(k, ComputeH(k, buffer, at + (p[1] - 1) * CodewordBufferSize(k)),
                          (p[1] - 1) * k, p[2])]

\* One turn of Extract keeps the data bytes.
LEMMA ExtractStepIsTyped ==
    ASSUME NEW k \in 3..8, NEW buffer, NEW at
    PROVE  ExtractStep(k, buffer, at)
               \in [(1..CodewordsInBlock(k)) \X [0..(DataBlockSize(k) - 1) -> 0..255]
                        -> [0..(DataBlockSize(k) - 1) -> 0..255]]
<1>. DEFINE V == [0..(DataBlockSize(k) - 1) -> 0..255]
            value(p) == WriteBitsToBuffer(
                            k, ComputeH(k, buffer, at + (p[1] - 1) * CodewordBufferSize(k)),
                            (p[1] - 1) * k, p[2])
<1>1. ASSUME NEW p \in (1..CodewordsInBlock(k)) \X V
      PROVE  value(p) \in V
  <2>1. PICK i, x, h, offset : /\ i = p[1] /\ x = p[2] /\ offset = (i - 1) * k
                               /\ h = ComputeH(k, buffer, at + (i - 1) * CodewordBufferSize(k))
    OBVIOUS
  <2>2. x \in V /\ i \in 1..CodewordsInBlock(k)
    <3>. HIDE DEF V
    <3> QED BY <2>1
  <2>3. DataBlockSize(k) \in Nat /\ k \in 1..8 /\ offset \in Nat
    <3>1. DataBlockSize(k) \in Nat
      <4>1. DataBlockSize(k) \in 1..8
        BY Sizes
      <4> QED BY <4>1
    <3>2. i - 1 \in Nat
      BY <2>2
    <3>3. (i - 1) * k \in Nat
      BY <3>2
    <3> QED BY <2>1, <3>1, <3>3
  <2>4. h \in 0..255 /\ h < Power[k]
    <3>1. h \in 0..TotalBits(k)
      BY <2>1, ParityOfPositions
    <3>2. PICK t, m : t = TotalBits(k) /\ m = Power[k]
      OBVIOUS
    <3>3. t \in 7..255 /\ t + 1 = m
      BY <3>2, Sizes
    <3>4. h \in 0..t
      BY <3>1, <3>2
    <3>5. h \in 0..255 /\ h < m
      BY <3>3, <3>4
    <3> QED BY <3>2, <3>5
  <2>5. WriteBitsToBuffer(k, h, offset, x) \in V
    BY <2>2, <2>3, <2>4, WriteAddsBits DEF AddsBits
  <2>. HIDE DEF V
  <2> QED BY <2>1, <2>5
<1>2. ExtractStep(k, buffer, at) = [p \in (1..CodewordsInBlock(k)) \X V |-> value(p)]
  BY Zenon DEF ExtractStep
<1>. HIDE DEF V, value
<1>3. ExtractStep(k, buffer, at) \in [(1..CodewordsInBlock(k)) \X V -> V]
  BY <1>1, <1>2
<1> QED BY <1>3 DEF V

\* The loop of Extract.
ExtractLoop(k, buffer, at, g) ==
    /\ g \in [0..CodewordsInBlock(k) -> [0..(DataBlockSize(k) - 1) -> 0..255]]
    /\ Extract(k, buffer, at) = g[CodewordsInBlock(k)]
    /\ g[0] = [b \in 0..(DataBlockSize(k) - 1) |-> 0]
    /\ \A i \in 1..CodewordsInBlock(k) :
           g[i] = WriteBitsToBuffer(k, ComputeH(k, buffer, at + (i - 1) * CodewordBufferSize(k)),
                                    (i - 1) * k, g[i - 1])

\* It has its turns.
LEMMA ExtractTurns ==
    ASSUME NEW k \in 3..8, NEW buffer, NEW at
    PROVE  \E g : ExtractLoop(k, buffer, at, g)
<1>. DEFINE V == [0..(DataBlockSize(k) - 1) -> 0..255]
            n == CodewordsInBlock(k)
            base == [b \in 0..(DataBlockSize(k) - 1) |-> 0]
            turn(i, x) == WriteBitsToBuffer(
                              k, ComputeH(k, buffer, at + (i - 1) * CodewordBufferSize(k)),
                              (i - 1) * k, x)
            Body(f) == [i \in 0..n |-> IF i = 0 THEN base ELSE turn(i, f[i - 1])]
            h == CHOOSE f : f = Body(f)
<1>1. Extract(k, buffer, at) = h[n]
  BY DEF Extract
<1>2. n \in Nat /\ n \in 1..8
  BY Sizes
<1>3. base \in V
  OBVIOUS
<1>4. \E f : f = Body(f)
  <2>1. ExtractStep(k, buffer, at) \in [(1..n) \X V -> V]
    BY ExtractStepIsTyped
  <2>. HIDE DEF V, n, base, turn, Body
  <2>2. PICK g \in [0..n -> V] :
            g[0] = base /\ \A i \in 1..n : g[i] = ExtractStep(k, buffer, at)[<<i, g[i - 1]>>]
    <3>1. IsLoop(n, V, base, ExtractStep(k, buffer, at))
      BY <1>3, <2>1 DEF IsLoop
    <3>2. HasTurns(n, V, base, ExtractStep(k, buffer, at))
      BY <1>2, <3>1, LoopExists
    <3> QED BY <3>2 DEF HasTurns
  <2>3. ASSUME NEW i \in 1..n
        PROVE  g[i] = turn(i, g[i - 1])
    <3>1. i - 1 \in 0..n
      BY <1>2
    <3>2. g[i - 1] \in V
      BY <3>1
    <3>3. <<i, g[i - 1]>> \in (1..n) \X V
      BY <3>2
    <3>4. PICK x : x = g[i - 1]
      OBVIOUS
    <3>5. ExtractStep(k, buffer, at)[<<i, x>>] = turn(i, x)
      <4>1. <<i, x>> \in (1..CodewordsInBlock(k)) \X [0..(DataBlockSize(k) - 1) -> 0..255]
        BY <3>3, <3>4, Zenon DEF n, V
      <4>2. <<i, x>>[1] = i /\ <<i, x>>[2] = x
        OBVIOUS
      <4> QED BY <4>1, <4>2, Zenon DEF ExtractStep, turn
    <3> QED BY <2>2, <3>4, <3>5
  <2>4. ASSUME NEW i \in 0..n
        PROVE  g[i] = IF i = 0 THEN base ELSE turn(i, g[i - 1])
    <3>1. i # 0 => i \in 1..n
      BY <1>2
    <3> QED BY <2>2, <2>3, <3>1
  <2>5. g = Body(g)
    <3>. DEFINE u(i) == IF i = 0 THEN base ELSE turn(i, g[i - 1])
    <3>1. \A i \in 0..n : g[i] = u(i)
      BY <2>4
    <3>2. Body(g) = [i \in 0..n |-> u(i)]
      BY DEF Body
    <3>. HIDE DEF u
    <3> QED BY <3>1, <3>2
  <2> QED BY <2>5
<1>. HIDE DEF turn, base
<1>5. h = Body(h)
  <2>. HIDE DEF Body
  <2> QED BY <1>4
<1>. HIDE DEF h
<1>6. \A i \in 0..n : h[i] = IF i = 0 THEN base ELSE turn(i, h[i - 1])
  <2>. HIDE DEF n
  <2> QED BY <1>5
<1>. HIDE DEF Body, n
<1>7. h[0] = base
  BY <1>2, <1>6
<1>8. ASSUME NEW i \in 1..n PROVE h[i] = turn(i, h[i - 1])
  <2>1. i \in 0..n /\ i # 0
    BY <1>2
  <2> QED BY <1>6, <2>1
<1>9. \A i \in 0..n : h[i] \in V
  <2>. DEFINE S == {i \in 0..n : h[i] \in V}
  <2>1. 0 \in S
    <3>. HIDE DEF V
    <3> QED BY <1>2, <1>3, <1>7
  <2>2. ASSUME NEW i \in 0..(n - 1), i \in S
        PROVE  i + 1 \in S
    <3>1. PICK j, x : j = i + 1 /\ x = h[i]
      OBVIOUS
    <3>2. j \in 1..n /\ j \in 0..n /\ j - 1 = i /\ x \in V
      BY <1>2, <2>2, <3>1
    <3>3. <<j, x>> \in (1..n) \X V /\ <<j, x>>[1] = j /\ <<j, x>>[2] = x
      BY <3>2
    <3>4. ExtractStep(k, buffer, at)[<<j, x>>] \in V
      <4>1. ExtractStep(k, buffer, at) \in [(1..n) \X V -> V]
        BY ExtractStepIsTyped DEF n
      <4>. HIDE DEF V
      <4> QED BY <3>3, <4>1
    <3>5. ExtractStep(k, buffer, at)[<<j, x>>] = turn(j, x)
      BY <3>3, Zenon DEF ExtractStep, turn, n
    <3>6. h[j] = turn(j, x)
      BY <1>8, <3>1, <3>2
    <3>. HIDE DEF V
    <3> QED BY <3>1, <3>2, <3>4, <3>5, <3>6
  <2>. HIDE DEF S
  <2>3. \A i \in 0..n : i \in S
    BY <1>2, <2>1, <2>2, CountUp
  <2>. USE DEF S
  <2> QED BY <2>3
<1>10. h \in [0..n -> V]
  <2>1. h = [i \in 0..n |-> h[i]]
    BY <1>5 DEF Body
  <2>. HIDE DEF V
  <2> QED BY <1>9, <2>1
<1>. HIDE DEF V
<1>11. \A i \in 1..n : h[i] = turn(i, h[i - 1])
  BY <1>8
<1>12. ExtractLoop(k, buffer, at, h)
  BY <1>1, <1>7, <1>10, <1>11, Zenon DEF ExtractLoop, V, n, base, turn
<1> QED BY <1>12

\* Extract writes the syndromes of the codewords one after the other.
LEMMA ExtractedBits ==
    ASSUME NEW k \in 3..8, NEW buffer, NEW at
    PROVE  /\ Extract(k, buffer, at) \in [0..(DataBlockSize(k) - 1) -> 0..255]
           /\ \A j \in 0..(CodewordsInBlock(k) - 1), r \in 0..(k - 1) :
                  BitAt(Extract(k, buffer, at), j * k + r)
                      = Digit(ComputeH(k, buffer, at + j * CodewordBufferSize(k)), k - 1 - r)
<1>1. PICK d, c : d = DataBlockSize(k) /\ c = CodewordsInBlock(k)
  OBVIOUS
<1>2. d \in 1..8 /\ c \in 1..8 /\ c * k = 8 * d
  BY <1>1, Sizes
<1>. DEFINE h(j) == ComputeH(k, buffer, at + j * CodewordBufferSize(k))
<1>3. PICK g \in [0..c -> [0..(d - 1) -> 0..255]] :
          /\ Extract(k, buffer, at) = g[c] /\ g[0] = [b \in 0..(d - 1) |-> 0]
          /\ \A i \in 1..c : g[i] = WriteBitsToBuffer(k, h(i - 1), (i - 1) * k, g[i - 1])
  <2>1. PICK g : ExtractLoop(k, buffer, at, g)
    BY ExtractTurns
  <2>2. /\ g \in [0..c -> [0..(d - 1) -> 0..255]]
        /\ Extract(k, buffer, at) = g[c] /\ g[0] = [b \in 0..(d - 1) |-> 0]
        /\ \A i \in 1..c : g[i] = WriteBitsToBuffer(k, h(i - 1), (i - 1) * k, g[i - 1])
    BY <1>1, <2>1, Zenon DEF ExtractLoop
  <2>. HIDE DEF h
  <2> QED BY <2>2
<1>4. ASSUME NEW j
      PROVE  h(j) \in 0..255 /\ h(j) < Power[k]
  <2>1. PICK t, m, x : t = TotalBits(k) /\ m = Power[k] /\ x = h(j)
    OBVIOUS
  <2>2. t \in 7..255 /\ t + 1 = m
    BY <2>1, Sizes
  <2>3. x \in 0..t
    BY <2>1, ParityOfPositions
  <2>4. x \in 0..255 /\ x < m
    BY <2>2, <2>3
  <2> QED BY <2>1, <2>4
<1>. HIDE DEF h
<1>5. ASSUME NEW i \in Nat, NEW j \in Nat, i < j
      PROVE  i * k \in Nat /\ i * k + k <= j * k
  <2>1. PICK e \in Nat : j = i + 1 + e
    <3>1. j - i - 1 \in Nat /\ j = i + 1 + (j - i - 1)
      BY <1>5
    <3> QED BY <3>1
  <2>2. j * k = i * k + k + e * k /\ e * k \in Nat /\ i * k \in Nat
    BY <2>1
  <2> QED BY <2>2
<1>. DEFINE Done(i) == \A j \in 0..(i - 1), r \in 0..(k - 1) :
                           BitAt(g[i], j * k + r) = Digit(h(j), k - 1 - r)
            Empty(i) == \A p \in 0..(8 * d - 1) : p >= i * k => BitAt(g[i], p) = 0
            S == {i \in 0..c : Done(i) /\ Empty(i)}
<1>6. 0 \in S
  <2>1. \A p \in 0..(8 * d - 1) : BitAt(g[0], p) = 0
    <3>. SUFFICES ASSUME NEW p \in 0..(8 * d - 1) PROVE BitAt(g[0], p) = 0
      OBVIOUS
    <3>1. p \div 8 \in 0..(d - 1) /\ 7 - (p % 8) \in 0..7
      BY <1>2
    <3>2. g[0][p \div 8] = 0
      BY <1>3, <3>1
    <3> QED BY <3>1, <3>2, ZeroDigits DEF BitAt
  <2>2. Done(0) /\ 0 \in 0..c
    BY <1>2
  <2> QED BY <2>1, <2>2
<1>7. ASSUME NEW i \in 0..(c - 1), i \in S
      PROVE  i + 1 \in S
  <2>1. PICK old, new, offset, v : /\ old = g[i] /\ new = g[i + 1]
                                   /\ offset = i * k /\ v = h(i)
    OBVIOUS
  <2>2. i + 1 \in 1..c /\ i + 1 \in 0..c /\ (i + 1) - 1 = i /\ i \in Nat /\ i \in 0..c
    BY <1>2
  <2>3. old \in [0..(d - 1) -> 0..255] /\ new = WriteBitsToBuffer(k, v, offset, old)
    <3>1. g[i + 1] = WriteBitsToBuffer(k, h((i + 1) - 1), ((i + 1) - 1) * k, g[(i + 1) - 1])
      BY <1>3, <2>2
    <3> QED BY <1>3, <2>1, <2>2, <3>1
  <2>4. offset \in Nat /\ offset + k <= 8 * d /\ (i + 1) * k = offset + k
    <3>1. i < c /\ c \in Nat
      BY <1>2
    <3>2. i * k \in Nat /\ i * k + k <= c * k
      BY <1>5, <2>2, <3>1
    <3>3. (i + 1) * k = i * k + k
      BY <2>2
    <3> QED BY <1>2, <2>1, <3>2, <3>3
  <2>5. ASSUME NEW p \in 0..(8 * d - 1)
        PROVE  BitAt(new, p) = (BitAt(old, p) + (IF offset <= p /\ p < offset + k
                                                 THEN Digit(v, k - 1 - (p - offset))
                                                 ELSE 0)) % 2
    <3>1. k \in 1..8 /\ d \in Nat /\ v \in 0..255 /\ v < Power[k]
      BY <1>2, <1>4, <2>1
    <3>2. offset \in Nat /\ old \in [0..(d - 1) -> 0..255]
      BY <2>3, <2>4
    <3>3. AddsBits(d, k, v, offset, old, WriteBitsToBuffer(k, v, offset, old))
      BY <3>1, <3>2, WriteAddsBits
    <3> QED BY <2>3, <3>3, Zenon DEF AddsBits
  <2>6. ASSUME NEW p \in 0..(8 * d - 1)
        PROVE  BitAt(old, p) \in {0, 1}
    <3>1. PICK b, e, x : b = p \div 8 /\ e = 7 - (p % 8) /\ x = old[b]
      OBVIOUS
    <3>2. b \in 0..(d - 1) /\ e \in 0..8
      BY <1>2, <3>1
    <3>3. x \in 0..255
      BY <2>3, <3>1, <3>2
    <3>4. x \in Nat
      BY <3>3
    <3> QED BY <3>1, <3>2, <3>4, DigitIsBinary DEF BitAt
  <2>7. Done(i) /\ Empty(i)
    <3>. HIDE DEF Done, Empty
    <3> QED BY <1>7
  <2>8. ASSUME NEW j \in 0..i, NEW r \in 0..(k - 1)
        PROVE  BitAt(new, j * k + r) = Digit(h(j), k - 1 - r)
    <3>1. PICK p : p = j * k + r
      OBVIOUS
    <3>2. CASE j < i
      <4>1. p \in 0..(8 * d - 1) /\ p < offset
        <5>1. j \in Nat
          OBVIOUS
        <5>2. j * k \in Nat /\ j * k + k <= i * k
          BY <1>5, <2>2, <3>2, <5>1
        <5>3. PICK y : y = j * k
          OBVIOUS
        <5>4. y \in Nat /\ y + k <= offset /\ p = y + r
          BY <2>1, <3>1, <5>2, <5>3
        <5> QED BY <1>2, <2>4, <5>4
      <4>2. BitAt(new, p) = (BitAt(old, p) + 0) % 2
        <5>1. ~(offset <= p /\ p < offset + k)
          BY <2>4, <4>1
        <5> QED BY <2>5, <4>1, <5>1
      <4>3. BitAt(old, p) = Digit(h(j), k - 1 - r)
        <5>1. j \in 0..(i - 1)
          BY <3>2
        <5> QED BY <2>1, <2>7, <3>1, <5>1
      <4>4. PICK u : u = BitAt(old, p)
        OBVIOUS
      <4>5. (u + 0) % 2 = u
        <5>1. u \in {0, 1}
          BY <2>6, <4>1, <4>4
        <5> QED BY <5>1
      <4> QED BY <3>1, <4>2, <4>3, <4>4, <4>5
    <3>3. CASE j = i
      <4>1. p \in 0..(8 * d - 1) /\ offset <= p /\ p < offset + k /\ p - offset = r
        BY <1>2, <2>1, <2>4, <3>1, <3>3
      <4>2. BitAt(old, p) = 0
        BY <2>1, <2>7, <4>1
      <4>3. PICK u : u = Digit(v, k - 1 - r)
        OBVIOUS
      <4>4. BitAt(new, p) = (0 + u) % 2
        BY <2>5, <4>1, <4>2, <4>3
      <4>5. (0 + u) % 2 = u
        <5>1. v \in Nat /\ k - 1 - r \in 0..8
          <6>1. v \in 0..255
            BY <1>4, <2>1
          <6> QED BY <6>1
        <5>2. u \in {0, 1}
          BY <4>3, <5>1, DigitIsBinary
        <5> QED BY <5>2
      <4> QED BY <2>1, <3>1, <3>3, <4>3, <4>4, <4>5
    <3> QED BY <3>2, <3>3
  <2>9. ASSUME NEW p \in 0..(8 * d - 1), p >= offset + k
        PROVE  BitAt(new, p) = 0
    <3>1. BitAt(old, p) = 0
      BY <2>1, <2>4, <2>7, <2>9
    <3>2. ~(offset <= p /\ p < offset + k)
      BY <2>4, <2>9
    <3>3. BitAt(new, p) = (0 + 0) % 2
      BY <2>5, <3>1, <3>2
    <3> QED BY <3>3
  <2>10. Done(i + 1)
    <3>1. \A j \in 0..((i + 1) - 1) : j \in 0..i
      OBVIOUS
    <3> QED BY <2>1, <2>8, <3>1
  <2>11. Empty(i + 1)
    BY <2>1, <2>4, <2>9
  <2>. HIDE DEF Done, Empty
  <2> QED BY <2>2, <2>10, <2>11
<1>. HIDE DEF S
<1>8. c \in S
  <2>1. c \in Nat /\ c \in 0..c
    BY <1>2
  <2> QED BY <1>6, <1>7, <2>1, CountUp
<1>. USE DEF S
<1>9. Done(c)
  <2>. HIDE DEF Done, Empty
  <2> QED BY <1>8
<1>10. g[c] \in [0..(d - 1) -> 0..255]
  BY <1>2, <1>3
<1> QED BY <1>1, <1>3, <1>9, <1>10 DEF h

\* Turn i of Embed.
EmbedTurn(k, at, data, i, x) ==
    SwapBitInCodeword(x, at + (i - 1) * CodewordBufferSize(k),
                      Xor(ComputeH(k, x, at + (i - 1) * CodewordBufferSize(k)),
                          ReadBitsFromBuffer(data, (i - 1) * k, k)))

\* It keeps the other bytes and puts a value into a codeword.
LEMMA EmbedTurnTakesValue ==
    ASSUME NEW k \in 3..8, NEW n \in Nat, NEW at \in 0..(n - CodewordBlockSize(k)),
           NEW data \in [0..(DataBlockSize(k) - 1) -> 0..255],
           NEW x \in [0..(n - 1) -> 0..255], NEW i \in 1..CodewordsInBlock(k)
    PROVE  TakesValue(k, n, x, at + (i - 1) * CodewordBufferSize(k),
                      ReadBitsFromBuffer(data, (i - 1) * k, k), EmbedTurn(k, at, data, i, x))
<1>1. PICK j : j = i - 1
  OBVIOUS
<1>2. j \in 0..(CodewordsInBlock(k) - 1)
  <2>1. CodewordsInBlock(k) \in 1..8
    BY Sizes
  <2> QED BY <1>1, <2>1
<1>3. PICK word, v : /\ word = at + j * CodewordBufferSize(k)
                     /\ v = ReadBitsFromBuffer(data, j * k, k)
  OBVIOUS
<1>4. word \in Nat /\ word + CodewordBufferSize(k) <= n
  <2>1. at \in Nat
    OBVIOUS
  <2>2. word \in Nat /\ word + CodewordBufferSize(k) <= at + CodewordBlockSize(k)
    BY <1>2, <1>3, <2>1, WordsOfBlock
  <2>3. PICK w, m : w = CodewordBufferSize(k) /\ m = CodewordBlockSize(k)
    OBVIOUS
  <2>4. w \in 1..32 /\ m \in Nat \ {0} /\ at \in 0..(n - m)
    BY <2>3, Sizes
  <2>5. word + w <= at + m
    BY <2>2, <2>3
  <2>6. word + w <= n
    BY <2>2, <2>4, <2>5
  <2> QED BY <2>2, <2>3, <2>6
<1>5. v \in 0..255 /\ v < Power[k]
  BY <1>2, <1>3, ReadWord
<1>6. TakesValue(k, n, x, word, v, SwapBitInCodeword(x, word, Xor(ComputeH(k, x, word), v)))
  BY <1>4, <1>5, WordTakesValue
<1> QED BY <1>1, <1>3, <1>6 DEF EmbedTurn

\* The loop of Embed.
EmbedLoop(k, n, buffer, at, data, g) ==
    /\ g \in [0..CodewordsInBlock(k) -> [0..(n - 1) -> 0..255]]
    /\ Embed(k, buffer, at, data) = g[CodewordsInBlock(k)]
    /\ g[0] = buffer
    /\ \A i \in 1..CodewordsInBlock(k) : g[i] = EmbedTurn(k, at, data, i, g[i - 1])

\* It has its turns.
LEMMA CodewordTurns ==
    ASSUME NEW k \in 3..8, NEW n \in Nat, NEW at \in 0..(n - CodewordBlockSize(k)),
           NEW buffer \in [0..(n - 1) -> 0..255],
           NEW data \in [0..(DataBlockSize(k) - 1) -> 0..255]
    PROVE  \E g : EmbedLoop(k, n, buffer, at, data, g)
<1>. DEFINE V == [0..(n - 1) -> 0..255]
            c == CodewordsInBlock(k)
            turn(i, x) == EmbedTurn(k, at, data, i, x)
            Body(f) == [i \in 0..c |-> IF i = 0 THEN buffer ELSE turn(i, f[i - 1])]
            step == [p \in (1..c) \X V |-> turn(p[1], p[2])]
            h == CHOOSE f : f = Body(f)
<1>1. Embed(k, buffer, at, data) = h[c]
  BY DEF Embed, EmbedTurn
<1>2. c \in Nat /\ c \in 1..8
  <2>1. c \in 1..8
    BY Sizes
  <2>. HIDE DEF c
  <2> QED BY <2>1
<1>3. ASSUME NEW i \in 1..c, NEW x \in V
      PROVE  turn(i, x) \in V
  BY EmbedTurnTakesValue DEF TakesValue
<1>. HIDE DEF V, c, turn
<1>4. step \in [(1..c) \X V -> V]
  <2>1. \A p \in (1..c) \X V : turn(p[1], p[2]) \in V
    BY <1>3
  <2> QED BY <2>1
<1>5. \A i \in 1..c, x \in V : step[<<i, x>>] = turn(i, x)
  OBVIOUS
<1>6. buffer \in V
  BY DEF V
<1>. HIDE DEF step, Body
<1>7. PICK g \in [0..c -> V] : g[0] = buffer /\ \A i \in 1..c : g[i] = step[<<i, g[i - 1]>>]
  <2>1. IsLoop(c, V, buffer, step)
    BY <1>4, <1>6 DEF IsLoop
  <2>2. HasTurns(c, V, buffer, step)
    BY <1>2, <2>1, LoopExists
  <2> QED BY <2>2 DEF HasTurns
<1>8. \E f : f = Body(f)
  <2>1. ASSUME NEW i \in 0..c
        PROVE  g[i] = IF i = 0 THEN buffer ELSE turn(i, g[i - 1])
    <3>1. CASE i = 0
      BY <1>7, <3>1
    <3>2. CASE i # 0
      <4>1. i \in 1..c /\ i - 1 \in 0..c
        BY <1>2, <3>2
      <4>2. g[i - 1] \in V
        BY <1>7, <4>1
      <4> QED BY <1>5, <1>7, <3>2, <4>1, <4>2
    <3> QED BY <3>1, <3>2
  <2>. DEFINE u(i) == IF i = 0 THEN buffer ELSE turn(i, g[i - 1])
  <2>2. \A i \in 0..c : g[i] = u(i)
    BY <2>1
  <2>3. Body(g) = [i \in 0..c |-> u(i)]
    BY DEF Body
  <2>. HIDE DEF u
  <2>4. g = Body(g)
    BY <1>7, <2>2, <2>3
  <2> QED BY <2>4
<1>9. h = Body(h)
  BY <1>8
<1>. HIDE DEF h
<1>10. \A i \in 0..c : h[i] = IF i = 0 THEN buffer ELSE turn(i, h[i - 1])
  BY <1>9 DEF Body
<1>11. h[0] = buffer
  BY <1>2, <1>10
<1>12. ASSUME NEW i \in 1..c PROVE h[i] = turn(i, h[i - 1])
  <2>1. i \in 0..c /\ i # 0
    BY <1>2
  <2> QED BY <1>10, <2>1
<1>13. \A i \in 0..c : h[i] \in V
  <2>. DEFINE S == {i \in 0..c : h[i] \in V}
  <2>1. 0 \in S
    BY <1>2, <1>6, <1>11
  <2>2. ASSUME NEW i \in 0..(c - 1), i \in S
        PROVE  i + 1 \in S
    <3>1. i + 1 \in 1..c /\ i + 1 \in 0..c /\ (i + 1) - 1 = i /\ h[i] \in V
      BY <1>2, <2>2
    <3>2. h[i + 1] = turn(i + 1, h[i])
      BY <1>12, <3>1
    <3>3. h[i + 1] \in V
      BY <1>3, <3>1, <3>2
    <3> QED BY <3>1, <3>3
  <2>. HIDE DEF S
  <2>3. \A i \in 0..c : i \in S
    BY <1>2, <2>1, <2>2, CountUp
  <2>. USE DEF S
  <2> QED BY <2>3
<1>14. h \in [0..c -> V]
  <2>1. h = [i \in 0..c |-> h[i]]
    BY <1>9 DEF Body
  <2> QED BY <1>13, <2>1
<1>15. EmbedLoop(k, n, buffer, at, data, h)
  BY <1>1, <1>11, <1>12, <1>14, Zenon DEF EmbedLoop, V, c, turn
<1> QED BY <1>15

\* What Embed makes of the codewords of a block: see WordTakesValue.
BlockTakes(k, n, old, at, data, new) ==
    /\ new \in [0..(n - 1) -> 0..255]
    /\ \A b \in 0..(n - 1) : b \notin at..(at + CodewordBlockSize(k) - 1) => new[b] = old[b]
    /\ \A j \in 0..(CodewordsInBlock(k) - 1) :
           /\ ComputeH(k, new, at + j * CodewordBufferSize(k))
                  = ReadBitsFromBuffer(data, j * k, k)
           /\ \E h \in 0..TotalBits(k) : \A p \in 1..(8 * CodewordBufferSize(k)) :
                  p # h => Bit(new, at + j * CodewordBufferSize(k), p)
                               = Bit(old, at + j * CodewordBufferSize(k), p)
    /\ (\A j \in 0..(CodewordsInBlock(k) - 1) :
            ComputeH(k, old, at + j * CodewordBufferSize(k)) = ReadBitsFromBuffer(data, j * k, k))
       => new = old

\* Two buffers have the same bytes in the codeword at byte "at".
SameCodeword(k, b, c, at) ==
    \A i \in 0..(CodewordBufferSize(k) - 1) : b[at + i] = c[at + i]

\* A codeword consists of its bytes.
LEMMA SameBytes ==
    ASSUME NEW k \in 3..8, NEW b, NEW c, NEW at \in Nat, SameCodeword(k, b, c, at)
    PROVE  /\ \A p \in 1..(8 * CodewordBufferSize(k)) : Bit(b, at, p) = Bit(c, at, p)
           /\ ComputeH(k, b, at) = ComputeH(k, c, at)
<1>1. PICK w : w = CodewordBufferSize(k)
  OBVIOUS
<1>2. w \in 1..32 /\ 8 * w = TotalBits(k) + 1 /\ TotalBits(k) \in 7..255
  BY <1>1, Sizes
<1>3. ASSUME NEW p \in 1..(8 * w)
      PROVE  Bit(b, at, p) = Bit(c, at, p)
  <2>1. (p - 1) \div 8 \in 0..(w - 1)
    BY <1>2
  <2>2. b[at + (p - 1) \div 8] = c[at + (p - 1) \div 8]
    BY <1>1, <2>1 DEF SameCodeword
  <2> QED BY <2>2 DEF Bit
<1>4. \A p \in 1..TotalBits(k) : Bit(b, at, p) = Bit(c, at, p)
  <2>1. \A p \in 1..TotalBits(k) : p \in 1..(8 * w)
    BY <1>2
  <2> QED BY <1>3, <2>1
<1>5. ComputeH(k, b, at) = ComputeH(k, c, at)
  BY <1>4, SameWord
<1> QED BY <1>1, <1>3, <1>5

\* Embed puts all the values of a block into its codewords.
LEMMA EmbedTakesBlock ==
    ASSUME NEW k \in 3..8, NEW n \in Nat, NEW at \in 0..(n - CodewordBlockSize(k)),
           NEW buffer \in [0..(n - 1) -> 0..255],
           NEW data \in [0..(DataBlockSize(k) - 1) -> 0..255]
    PROVE  BlockTakes(k, n, buffer, at, data, Embed(k, buffer, at, data))
<1>1. PICK c, w, m, t : /\ c = CodewordsInBlock(k) /\ w = CodewordBufferSize(k)
                        /\ m = CodewordBlockSize(k) /\ t = TotalBits(k)
  OBVIOUS
<1>2. /\ c \in 1..8 /\ w \in 1..32 /\ m \in Nat \ {0} /\ at \in Nat /\ at + m <= n
      /\ t \in 7..255 /\ 8 * w = t + 1
  <2>1. /\ c \in 1..8 /\ w \in 1..32 /\ m \in Nat \ {0} /\ t \in 7..255 /\ 8 * w = t + 1
    BY <1>1, Sizes
  <2>2. at \in 0..(n - m)
    BY <1>1
  <2> QED BY <2>1, <2>2
<1>3. PICK g : EmbedLoop(k, n, buffer, at, data, g)
  BY CodewordTurns
<1>4. /\ g \in [0..c -> [0..(n - 1) -> 0..255]]
      /\ Embed(k, buffer, at, data) = g[c] /\ g[0] = buffer
      /\ \A i \in 1..c : g[i] = EmbedTurn(k, at, data, i, g[i - 1])
  BY <1>1, <1>3, Zenon DEF EmbedLoop
<1>. DEFINE word(j) == at + j * CodewordBufferSize(k)
            value(j) == ReadBitsFromBuffer(data, j * k, k)
            Beyond(i) == \A b \in 0..(n - 1) : b \notin at..(at + m - 1) => g[i][b] = buffer[b]
            Later(i) == \A b \in 0..(n - 1) : b >= word(i) => g[i][b] = buffer[b]
            Taken(i) == \A j \in 0..(i - 1) : ComputeH(k, g[i], word(j)) = value(j)
            Near(i) == \A j \in 0..(i - 1) : \E h \in 0..t : \A p \in 1..(8 * w) :
                           p # h => Bit(g[i], word(j), p) = Bit(buffer, word(j), p)
            Silent(i) == (\A j \in 0..(c - 1) : ComputeH(k, buffer, word(j)) = value(j))
                             => g[i] = buffer
            S == {i \in 0..c : Beyond(i) /\ Later(i) /\ Taken(i) /\ Near(i) /\ Silent(i)}
<1>5. ASSUME NEW j \in 0..(c - 1)
      PROVE  /\ word(j) \in Nat /\ word(j) >= at /\ word(j) + w <= at + m
             /\ word(j) + w = word(j + 1)
             /\ \A i \in 0..(j - 1) : word(i) + w <= word(j)
  <2>1. j \in 0..(CodewordsInBlock(k) - 1) /\ at \in Nat
    BY <1>1, <1>2
  <2>2. /\ word(j) \in Nat /\ word(j) >= at /\ word(j) + w <= at + m
        /\ \A i \in 0..(j - 1) : word(i) + w <= word(j)
    BY <1>1, <2>1, WordsOfBlock
  <2>3. word(j) + w = word(j + 1)
    <3>1. (j + 1) * w = j * w + w /\ j * w \in Int /\ w \in Int
      BY <1>2
    <3>2. at + j * w + w = at + (j + 1) * w
      BY <2>1, <3>1
    <3> QED BY <1>1, <3>2
  <2> QED BY <2>2, <2>3
<1>. HIDE DEF word, value
<1>6. 0 \in S
  BY <1>2, <1>4
<1>7. ASSUME NEW i \in 0..(c - 1), i \in S
      PROVE  i + 1 \in S
  <2>1. PICK old, new, from, v : /\ old = g[i] /\ new = g[i + 1]
                                 /\ from = word(i) /\ v = value(i)
    OBVIOUS
  <2>2. i + 1 \in 1..c /\ i + 1 \in 0..c /\ i \in 0..c /\ (i + 1) - 1 = i
    BY <1>2
  <2>3. old \in [0..(n - 1) -> 0..255]
    BY <1>4, <2>1, <2>2
  <2>4. TakesValue(k, n, old, from, v, new)
    <3>1. i + 1 \in 1..CodewordsInBlock(k)
      BY <1>1, <2>2
    <3>2. TakesValue(k, n, old, at + ((i + 1) - 1) * CodewordBufferSize(k),
                     ReadBitsFromBuffer(data, ((i + 1) - 1) * k, k),
                     EmbedTurn(k, at, data, i + 1, old))
      BY <2>3, <3>1, EmbedTurnTakesValue
    <3>3. new = EmbedTurn(k, at, data, i + 1, old)
      BY <1>4, <2>1, <2>2
    <3> QED BY <2>1, <2>2, <3>2, <3>3 DEF word, value
  <2>5. /\ \A b \in 0..(n - 1) : b \notin from..(from + w - 1) => new[b] = old[b]
        /\ \E h \in 0..t : \A p \in 1..(8 * w) : p # h => Bit(new, from, p) = Bit(old, from, p)
        /\ ComputeH(k, new, from) = v
        /\ ComputeH(k, old, from) = v => new = old
    BY <1>1, <2>4, Zenon DEF TakesValue
  <2>6. /\ from \in Nat /\ from >= at /\ from + w <= at + m /\ from + w = word(i + 1)
        /\ \A j \in 0..(i - 1) : word(j) + w <= from
    BY <1>5, <2>1
  <2>7. Beyond(i) /\ Later(i) /\ Taken(i) /\ Near(i) /\ Silent(i)
    <3>. HIDE DEF Beyond, Later, Taken, Near, Silent
    <3> QED BY <1>7
  <2>8. Beyond(i + 1)
    <3>1. \A b \in 0..(n - 1) : b \notin at..(at + m - 1) => b \notin from..(from + w - 1)
      BY <1>2, <2>6
    <3> QED BY <2>1, <2>5, <2>7, <3>1
  <2>9. Later(i + 1)
    <3>1. \A b \in 0..(n - 1) : b >= word(i + 1) => b \notin from..(from + w - 1) /\ b >= from
      BY <1>2, <2>6
    <3>2. \A b \in 0..(n - 1) : b >= from => old[b] = buffer[b]
      BY <2>1, <2>7
    <3> QED BY <2>1, <2>5, <3>1, <3>2
  <2>10. ASSUME NEW j \in 0..(i - 1)
         PROVE  /\ ComputeH(k, new, word(j)) = ComputeH(k, old, word(j))
                /\ \A p \in 1..(8 * w) : Bit(new, word(j), p) = Bit(old, word(j), p)
    <3>1. PICK a : a = word(j)
      OBVIOUS
    <3>2. j \in 0..(c - 1)
      BY <1>2
    <3>3. a \in Nat /\ a + w <= from
      BY <1>5, <2>6, <3>1, <3>2
    <3>4. \A b \in 0..(w - 1) : a + b \in 0..(n - 1) /\ a + b \notin from..(from + w - 1)
      BY <1>2, <2>6, <3>3
    <3>5. \A b \in 0..(w - 1) : new[a + b] = old[a + b]
      BY <2>5, <3>4
    <3>6. SameCodeword(k, new, old, a)
      BY <1>1, <3>5 DEF SameCodeword
    <3>7. /\ \A p \in 1..(8 * CodewordBufferSize(k)) : Bit(new, a, p) = Bit(old, a, p)
          /\ ComputeH(k, new, a) = ComputeH(k, old, a)
      BY <3>3, <3>6, SameBytes
    <3> QED BY <1>1, <3>1, <3>7
  <2>11. /\ ComputeH(k, old, from) = ComputeH(k, buffer, from)
         /\ \A p \in 1..(8 * w) : Bit(old, from, p) = Bit(buffer, from, p)
    <3>1. \A b \in 0..(w - 1) : from + b \in 0..(n - 1) /\ from + b >= from
      BY <1>2, <2>6
    <3>2. \A b \in 0..(w - 1) : old[from + b] = buffer[from + b]
      BY <2>1, <2>7, <3>1
    <3>3. SameCodeword(k, old, buffer, from)
      BY <1>1, <3>2 DEF SameCodeword
    <3>4. from \in Nat
      BY <2>6
    <3>5. /\ \A p \in 1..(8 * CodewordBufferSize(k)) : Bit(old, from, p) = Bit(buffer, from, p)
          /\ ComputeH(k, old, from) = ComputeH(k, buffer, from)
      BY <3>3, <3>4, SameBytes
    <3> QED BY <1>1, <3>5
  <2>12. \A j \in 0..((i + 1) - 1) : j = i \/ j \in 0..(i - 1)
    OBVIOUS
  <2>13. Taken(i + 1)
    <3>1. \A j \in 0..(i - 1) : ComputeH(k, new, word(j)) = value(j)
      BY <2>1, <2>7, <2>10
    <3> QED BY <2>1, <2>5, <2>12, <3>1
  <2>14. Near(i + 1)
    <3>. SUFFICES ASSUME NEW j \in 0..((i + 1) - 1)
                  PROVE  \E h \in 0..t : \A p \in 1..(8 * w) :
                             p # h => Bit(new, word(j), p) = Bit(buffer, word(j), p)
      BY <2>1
    <3>1. CASE j = i
      <4>1. PICK h \in 0..t : \A p \in 1..(8 * w) : p # h => Bit(new, from, p) = Bit(old, from, p)
        BY <2>5
      <4> QED BY <2>1, <2>11, <3>1, <4>1
    <3>2. CASE j \in 0..(i - 1)
      <4>1. PICK h \in 0..t : \A p \in 1..(8 * w) :
                p # h => Bit(old, word(j), p) = Bit(buffer, word(j), p)
        BY <2>1, <2>7, <3>2
      <4>2. \A p \in 1..(8 * w) : Bit(new, word(j), p) = Bit(old, word(j), p)
        BY <2>10, <3>2
      <4> QED BY <4>1, <4>2
    <3> QED BY <2>12, <3>1, <3>2
  <2>15. Silent(i + 1)
    <3>. SUFFICES ASSUME \A j \in 0..(c - 1) : ComputeH(k, buffer, word(j)) = value(j)
                  PROVE  new = buffer
      BY <2>1
    <3>1. old = buffer
      BY <2>1, <2>7
    <3>2. ComputeH(k, buffer, from) = v
      BY <2>1
    <3> QED BY <2>5, <3>1, <3>2
  <2>. HIDE DEF Beyond, Later, Taken, Near, Silent
  <2> QED BY <2>2, <2>8, <2>9, <2>13, <2>14, <2>15
<1>. HIDE DEF S
<1>8. c \in S
  <2>1. c \in Nat /\ c \in 0..c
    BY <1>2
  <2> QED BY <1>6, <1>7, <2>1, CountUp
<1>. USE DEF S
<1>9. Beyond(c) /\ Taken(c) /\ Near(c) /\ Silent(c)
  <2>. HIDE DEF Beyond, Later, Taken, Near, Silent
  <2> QED BY <1>8
<1>10. g[c] \in [0..(n - 1) -> 0..255]
  BY <1>2, <1>4
<1>. HIDE DEF S
<1> QED BY <1>1, <1>4, <1>9, <1>10 DEF BlockTakes, word, value

\* Data of a block with the same bits are equal.
LEMMA SameBits ==
    ASSUME NEW k \in 3..8, NEW x \in [0..(DataBlockSize(k) - 1) -> 0..255],
           NEW y \in [0..(DataBlockSize(k) - 1) -> 0..255],
           \A j \in 0..(CodewordsInBlock(k) - 1), r \in 0..(k - 1) :
               BitAt(x, j * k + r) = BitAt(y, j * k + r)
    PROVE  x = y
<1>1. PICK d, c : d = DataBlockSize(k) /\ c = CodewordsInBlock(k)
  OBVIOUS
<1>2. d \in 1..8 /\ c \in 1..8 /\ c * k = 8 * d
  BY <1>1, Sizes
<1>3. ASSUME NEW p \in 0..(8 * d - 1)
      PROVE  BitAt(x, p) = BitAt(y, p)
  <2>1. PICK j, r : j = p \div k /\ r = p % k
    OBVIOUS
  <2>2. r \in 0..(k - 1) /\ j \in Int /\ p = j * k + r
    <3>1. k \in Nat \ {0} /\ p \in Int
      OBVIOUS
    <3>2. p % k \in 0..(k - 1) /\ p \div k \in Int /\ p = (p \div k) * k + (p % k)
      BY <3>1, Division
    <3> QED BY <2>1, <3>2
  <2>3. j \in 0..(c - 1)
    <3>1. j >= 0
      BY <2>1
    <3>2. ASSUME j >= c PROVE FALSE
      <4>1. PICK e \in Nat : j = c + e
        <5>1. j - c \in Nat /\ j = c + (j - c)
          BY <1>2, <2>2, <3>2
        <5> QED BY <5>1
      <4>2. j * k = c * k + e * k /\ e * k \in Nat
        BY <1>2, <4>1
      <4>3. c * k \in Nat /\ j * k \in Nat
        BY <1>2, <4>1
      <4> QED BY <1>2, <2>2, <4>2, <4>3
    <3> QED BY <1>2, <2>2, <3>1, <3>2
  <2> QED BY <1>1, <2>2, <2>3
<1>4. ASSUME NEW b \in 0..(d - 1)
      PROVE  x[b] = y[b]
  <2>1. PICK u, v : u = x[b] /\ v = y[b]
    OBVIOUS
  <2>2. u \in 0..255 /\ v \in 0..255
    BY <1>1, <2>1
  <2>3. ASSUME NEW e \in 0..7
        PROVE  Digit(u, e) = Digit(v, e)
    <3>1. PICK p : p = 8 * b + (7 - e)
      OBVIOUS
    <3>2. p \in 0..(8 * d - 1) /\ p \div 8 = b /\ 7 - (p % 8) = e
      BY <1>2, <3>1
    <3>3. BitAt(x, p) = BitAt(y, p)
      BY <1>3, <3>2
    <3> QED BY <2>1, <3>2, <3>3 DEF BitAt
  <2> QED BY <2>1, <2>2, <2>3, SameDigits
<1>5. /\ x = [b \in 0..(d - 1) |-> x[b]] /\ y = [b \in 0..(d - 1) |-> y[b]]
  BY <1>1
<1>6. [b \in 0..(d - 1) |-> x[b]] = [b \in 0..(d - 1) |-> y[b]]
  BY <1>4
<1> QED BY <1>5, <1>6

\* Extract looks only at the block.
LEMMA ExtractLooksAtWords ==
    ASSUME NEW k \in 3..8, NEW b, NEW c, NEW at \in Nat,
           \A i \in at..(at + CodewordBlockSize(k) - 1) : b[i] = c[i]
    PROVE  Extract(k, b, at) = Extract(k, c, at)
<1>1. ASSUME NEW j \in 0..(CodewordsInBlock(k) - 1)
      PROVE  ComputeH(k, b, at + j * CodewordBufferSize(k))
                 = ComputeH(k, c, at + j * CodewordBufferSize(k))
  <2>1. PICK w, m, word : /\ w = CodewordBufferSize(k) /\ m = CodewordBlockSize(k)
                          /\ word = at + j * CodewordBufferSize(k)
    OBVIOUS
  <2>2. word \in Nat /\ word >= at /\ word + w <= at + m
    BY <2>1, WordsOfBlock
  <2>3. w \in 1..32 /\ m \in Nat
    BY <2>1, Sizes
  <2>4. \A i \in 0..(w - 1) : word + i \in at..(at + m - 1)
    BY <2>2, <2>3
  <2>5. SameCodeword(k, b, c, word)
    BY <2>1, <2>4 DEF SameCodeword
  <2>6. word \in Nat
    BY <2>2
  <2>7. ComputeH(k, b, word) = ComputeH(k, c, word)
    BY <2>5, <2>6, SameBytes
  <2> QED BY <2>1, <2>7
<1>2. PICK x, y : x = Extract(k, b, at) /\ y = Extract(k, c, at)
  OBVIOUS
<1>3. /\ x \in [0..(DataBlockSize(k) - 1) -> 0..255]
      /\ \A j \in 0..(CodewordsInBlock(k) - 1), r \in 0..(k - 1) :
             BitAt(x, j * k + r)
                 = Digit(ComputeH(k, b, at + j * CodewordBufferSize(k)), k - 1 - r)
  BY <1>2, ExtractedBits, Zenon
<1>4. /\ y \in [0..(DataBlockSize(k) - 1) -> 0..255]
      /\ \A j \in 0..(CodewordsInBlock(k) - 1), r \in 0..(k - 1) :
             BitAt(y, j * k + r)
                 = Digit(ComputeH(k, c, at + j * CodewordBufferSize(k)), k - 1 - r)
  BY <1>2, ExtractedBits, Zenon
<1>5. ASSUME NEW j \in 0..(CodewordsInBlock(k) - 1), NEW r \in 0..(k - 1)
      PROVE  BitAt(x, j * k + r) = BitAt(y, j * k + r)
  BY <1>1, <1>3, <1>4, Zenon
<1> QED BY <1>2, <1>3, <1>4, <1>5, SameBits

\* Extract finds what Embed puts into a block, and Embed changes nothing if that is
\* what Extract found before.
UndoEachOther(k, buffer, at, data) ==
    LET new == Embed(k, buffer, at, data)
    IN  Extract(k, new, at) = data /\ (data = Extract(k, buffer, at) => new = buffer)

\* Embed and Extract undo each other.
LEMMA EmbedAndExtract ==
    ASSUME NEW k \in 3..8, NEW n \in Nat, NEW at \in 0..(n - CodewordBlockSize(k)),
           NEW buffer \in [0..(n - 1) -> 0..255],
           NEW data \in [0..(DataBlockSize(k) - 1) -> 0..255]
    PROVE  UndoEachOther(k, buffer, at, data)
<1>1. PICK new, x : new = Embed(k, buffer, at, data) /\ x = Extract(k, new, at)
  OBVIOUS
<1>2. BlockTakes(k, n, buffer, at, data, new)
  BY <1>1, EmbedTakesBlock
<1>. DEFINE word(j) == at + j * CodewordBufferSize(k)
            value(j) == ReadBitsFromBuffer(data, j * k, k)
<1>3. ASSUME NEW j \in 0..(CodewordsInBlock(k) - 1)
      PROVE  /\ value(j) \in 0..255 /\ value(j) < Power[k]
             /\ \A q \in 0..(k - 1) : Digit(value(j), q) = BitAt(data, j * k + (k - 1 - q))
  BY ReadWord
<1>4. ASSUME NEW b
      PROVE  /\ Extract(k, b, at) \in [0..(DataBlockSize(k) - 1) -> 0..255]
             /\ \A j \in 0..(CodewordsInBlock(k) - 1), r \in 0..(k - 1) :
                    BitAt(Extract(k, b, at), j * k + r)
                        = Digit(ComputeH(k, b, word(j)), k - 1 - r)
  BY ExtractedBits, Zenon
<1>5. /\ \A j \in 0..(CodewordsInBlock(k) - 1) : ComputeH(k, new, word(j)) = value(j)
      /\ (\A j \in 0..(CodewordsInBlock(k) - 1) : ComputeH(k, buffer, word(j)) = value(j))
             => new = buffer
  BY <1>2, Zenon DEF BlockTakes
<1>. HIDE DEF word, value
<1>6. x = data
  <2>1. ASSUME NEW j \in 0..(CodewordsInBlock(k) - 1), NEW r \in 0..(k - 1)
        PROVE  BitAt(x, j * k + r) = BitAt(data, j * k + r)
    <3>1. k - 1 - r \in 0..(k - 1) /\ k - 1 - (k - 1 - r) = r
      OBVIOUS
    <3>2. BitAt(x, j * k + r) = Digit(ComputeH(k, new, word(j)), k - 1 - r)
      BY <1>1, <1>4
    <3>3. Digit(value(j), k - 1 - r) = BitAt(data, j * k + r)
      <4>1. Digit(value(j), k - 1 - r) = BitAt(data, j * k + (k - 1 - (k - 1 - r)))
        BY <1>3, <3>1
      <4> QED BY <3>1, <4>1
    <3> QED BY <1>5, <3>2, <3>3
  <2>2. x \in [0..(DataBlockSize(k) - 1) -> 0..255]
    BY <1>1, <1>4
  <2> QED BY <2>1, <2>2, SameBits
<1>7. ASSUME data = Extract(k, buffer, at)
      PROVE  new = buffer
  <2>1. ASSUME NEW j \in 0..(CodewordsInBlock(k) - 1)
        PROVE  ComputeH(k, buffer, word(j)) = value(j)
    <3>1. PICK h, v : h = ComputeH(k, buffer, word(j)) /\ v = value(j)
      OBVIOUS
    <3>2. h \in 0..255 /\ h < Power[k]
      <4>1. PICK t, p : t = TotalBits(k) /\ p = Power[k]
        OBVIOUS
      <4>2. t \in 7..255 /\ t + 1 = p
        BY <4>1, Sizes
      <4>3. h \in 0..t
        BY <3>1, <4>1, ParityOfPositions
      <4>4. h \in 0..255 /\ h < p
        BY <4>2, <4>3
      <4> QED BY <4>1, <4>4
    <3>3. v \in 0..255 /\ v < Power[k]
      BY <1>3, <3>1
    <3>4. ASSUME NEW d \in 0..7
          PROVE  Digit(h, d) = Digit(v, d)
      <4>1. CASE d < k
        <5>1. k - 1 - d \in 0..(k - 1) /\ d \in 0..(k - 1) /\ k - 1 - (k - 1 - d) = d
          BY <4>1
        <5>2. BitAt(data, j * k + (k - 1 - d)) = Digit(h, k - 1 - (k - 1 - d))
          BY <1>4, <1>7, <3>1, <5>1
        <5>3. Digit(v, d) = BitAt(data, j * k + (k - 1 - d))
          BY <1>3, <3>1, <5>1
        <5> QED BY <5>1, <5>2, <5>3
      <4>2. CASE d >= k
        <5>1. k \in 0..8
          OBVIOUS
        <5>2. Digit(h, d) = 0
          BY <3>2, <4>2, <5>1, BelowPower
        <5>3. Digit(v, d) = 0
          BY <3>3, <4>2, <5>1, BelowPower
        <5> QED BY <5>2, <5>3
      <4> QED BY <4>1, <4>2
    <3> QED BY <3>1, <3>2, <3>3, <3>4, SameDigits
  <2> QED BY <1>5, <2>1
<1> QED BY <1>1, <1>6, <1>7 DEF UndoEachOther

-----------------------------------------------------------------------------
(* What the encoders promise of one block.                                 *)

\* Blocks are not empty.
LEMMA BlockSizes ==
    ASSUME NEW e \in Encoders
    PROVE  /\ DataBlock(e) \in Nat \ {0} /\ CodewordBlock(e) \in Nat \ {0}
           /\ e = 0 \/ e \in 3..8
           /\ e \in 3..8 => /\ DataBlock(e) = DataBlockSize(e)
                            /\ CodewordBlock(e) = CodewordBlockSize(e)
<1>1. e = 0 \/ e \in 3..8
  BY PictureAssumption
<1>2. CASE e = 0
  BY <1>2 DEF DataBlock, CodewordBlock
<1>3. CASE e \in 3..8
  <2>1. PICK d, m : d = DataBlockSize(e) /\ m = CodewordBlockSize(e)
    OBVIOUS
  <2>2. d \in 1..8 /\ m \in Nat \ {0}
    BY <1>3, <2>1, Sizes
  <2>3. DataBlock(e) = d /\ CodewordBlock(e) = m
    BY <1>3, <2>1 DEF DataBlock, CodewordBlock
  <2> QED BY <1>3, <2>1, <2>2, <2>3
<1> QED BY <1>1, <1>2, <1>3

\* LsbEncoder keeps what an encoder promises.
LEMMA LsbKeepsBlock ==
    ASSUME NEW e, e = 0, NEW n \in Nat, NEW at \in 0..(n - CodewordBlock(e)),
           NEW buffer \in Bytes(n), NEW data \in Bytes(DataBlock(e))
    PROVE  BlockIsKept(e, n, buffer, at, data)
<1>1. e = 0 /\ CodewordBlock(e) = 1 /\ DataBlock(e) = 1
  BY DEF CodewordBlock, DataBlock
<1>2. at \in 0..(n - 1) /\ buffer \in [0..(n - 1) -> 0..255] /\ data \in [{0} -> 0..255]
  <2>1. 0..(1 - 1) = {0}
    OBVIOUS
  <2> QED BY <1>1, <2>1 DEF Bytes
<1>3. BlockAt(e, at) = {at}
  BY <1>1, <1>2 DEF BlockAt
<1>4. \A x : ExtractBlock(e, x, at) = [i \in {0} |-> x[at]]
  BY <1>1 DEF ExtractBlock
<1>5. EmbedBlock(e, buffer, at, data) = [buffer EXCEPT ![at] = data[0]]
  BY <1>1 DEF EmbedBlock
<1>6. ASSUME NEW x \in [0..(n - 1) -> 0..255]
      PROVE  ExtractBlock(e, x, at) \in Bytes(DataBlock(e))
  <2>1. 0..(1 - 1) = {0}
    OBVIOUS
  <2>2. x[at] \in 0..255
    BY <1>2
  <2>3. [i \in {0} |-> x[at]] \in [{0} -> 0..255]
    BY <2>2
  <2>4. Bytes(DataBlock(e)) = [{0} -> 0..255]
    BY <1>1, <2>1 DEF Bytes
  <2> QED BY <1>4, <2>3, <2>4
<1>. DEFINE alone == [i \in DOMAIN buffer |-> IF i \in BlockAt(e, at) THEN buffer[i] ELSE 0]
            new == [buffer EXCEPT ![at] = data[0]]
<1>7. alone[at] = buffer[at]
  BY <1>2, <1>3
<1>8. /\ new \in Bytes(n) /\ new[at] = data[0]
      /\ \A i \in DOMAIN buffer : i \notin BlockAt(e, at) => new[i] = buffer[i]
  BY <1>2, <1>3 DEF Bytes
<1>9. data = [i \in {0} |-> data[0]]
  BY <1>2
<1>10. data = [i \in {0} |-> buffer[at]] => new = buffer
  BY <1>2
<1>. HIDE DEF alone, new
<1>11. ExtractBlock(e, alone, at) = ExtractBlock(e, buffer, at)
  BY <1>4, <1>7
<1>12. ExtractBlock(e, new, at) = data
  BY <1>4, <1>8, <1>9
<1>13. data = ExtractBlock(e, buffer, at) => new = buffer
  BY <1>4, <1>10
<1> QED BY <1>2, <1>5, <1>6, <1>8, <1>11, <1>12, <1>13, Zenon DEF BlockIsKept, alone, new

\* HammingEncoder keeps it.
LEMMA HammingKeepsBlock ==
    ASSUME NEW e \in 3..8, NEW n \in Nat, NEW at \in 0..(n - CodewordBlock(e)),
           NEW buffer \in Bytes(n), NEW data \in Bytes(DataBlock(e))
    PROVE  BlockIsKept(e, n, buffer, at, data)
<1>1. /\ e # 0 /\ DataBlock(e) = DataBlockSize(e) /\ CodewordBlock(e) = CodewordBlockSize(e)
      /\ \A x : ExtractBlock(e, x, at) = Extract(e, x, at)
      /\ EmbedBlock(e, buffer, at, data) = Embed(e, buffer, at, data)
  BY DEF DataBlock, CodewordBlock, ExtractBlock, EmbedBlock
<1>2. PICK m : m = CodewordBlockSize(e)
  OBVIOUS
<1>3. m \in Nat \ {0}
  BY <1>2, Sizes
<1>4. /\ at \in 0..(n - CodewordBlockSize(e)) /\ buffer \in [0..(n - 1) -> 0..255]
      /\ data \in [0..(DataBlockSize(e) - 1) -> 0..255]
  BY <1>1 DEF Bytes
<1>5. at \in Nat /\ at + m <= n
  BY <1>2, <1>3, <1>4
<1>6. BlockAt(e, at) = at..(at + CodewordBlockSize(e) - 1)
  BY <1>1 DEF BlockAt
<1>7. PICK new : new = Embed(e, buffer, at, data)
  OBVIOUS
<1>8. /\ Extract(e, new, at) = data
      /\ data = Extract(e, buffer, at) => new = buffer
  <2>1. UndoEachOther(e, buffer, at, data)
    BY <1>4, EmbedAndExtract
  <2> QED BY <1>7, <2>1 DEF UndoEachOther
<1>9. /\ new \in Bytes(n)
      /\ \A i \in DOMAIN buffer : i \notin BlockAt(e, at) => new[i] = buffer[i]
  <2>1. BlockTakes(e, n, buffer, at, data, new)
    BY <1>4, <1>7, EmbedTakesBlock
  <2> QED BY <1>4, <1>6, <2>1 DEF BlockTakes, Bytes
<1>10. Extract(e, buffer, at) \in Bytes(DataBlock(e))
  <2>1. Extract(e, buffer, at) \in [0..(DataBlockSize(e) - 1) -> 0..255]
    BY ExtractedBits
  <2> QED BY <1>1, <2>1 DEF Bytes
<1>. DEFINE alone == [i \in DOMAIN buffer |-> IF i \in BlockAt(e, at) THEN buffer[i] ELSE 0]
<1>11. Extract(e, alone, at) = Extract(e, buffer, at)
  <2>1. \A i \in at..(at + m - 1) : i \in DOMAIN buffer
    BY <1>3, <1>4, <1>5
  <2>2. \A i \in at..(at + CodewordBlockSize(e) - 1) : alone[i] = buffer[i]
    BY <1>2, <1>6, <2>1
  <2>3. at \in Nat
    BY <1>5
  <2>. HIDE DEF alone
  <2> QED BY <2>2, <2>3, ExtractLooksAtWords
<1> QED BY <1>1, <1>7, <1>8, <1>9, <1>10, <1>11, Zenon DEF BlockIsKept

\* All encoders keep it, in every buffer.
LEMMA EncodersKeepContract == EncoderContract
<1>. SUFFICES ASSUME NEW e \in Encoders, NEW n \in Nat,
                     NEW at \in 0..(n - CodewordBlock(e)),
                     NEW buffer \in Bytes(n), NEW data \in Bytes(DataBlock(e))
              PROVE  BlockIsKept(e, n, buffer, at, data)
  BY DEF EncoderContract
<1>1. e = 0 \/ e \in 3..8
  BY BlockSizes
<1> QED BY <1>1, LsbKeepsBlock, HammingKeepsBlock

-----------------------------------------------------------------------------
(* The samples that take a bit.                                            *)

\* One sequence after another.
LEMMA Joined ==
    ASSUME NEW S, NEW x \in Seq(S), NEW y \in Seq(S)
    PROVE  /\ x \o y \in Seq(S) /\ Len(x \o y) = Len(x) + Len(y)
           /\ \A i \in 1..Len(x) : (x \o y)[i] = x[i]
           /\ \A i \in (Len(x) + 1)..(Len(x) + Len(y)) : (x \o y)[i] = y[i - Len(x)]
OBVIOUS

\* A step of Listed, for a function g of the pairs.
ListedBody(S, g, a, k) ==
    IF k = 0 \/ (k = 1 /\ a \notin S) THEN <<>>
    ELSE IF k = 1 THEN <<a>>
    ELSE g[<<a, k \div 2>>] \o g[<<a + (k \div 2), k - (k \div 2)>>]

ListedStep(S, n, g) == [r \in Nat \X (0..n) |-> ListedBody(S, g, r[1], r[2])]

\* A step looks only at shorter ranges.
LEMMA ListedLooksBack ==
    ASSUME NEW S, NEW g, NEW h, NEW a \in Nat, NEW k \in Nat,
           \A b \in Nat, l \in 0..(k - 1) : g[<<b, l>>] = h[<<b, l>>]
    PROVE  ListedBody(S, g, a, k) = ListedBody(S, h, a, k)
<1>1. CASE k <= 1
  BY <1>1 DEF ListedBody
<1>2. CASE k > 1
  <2>1. PICK q : q = k \div 2
    OBVIOUS
  <2>2. q \in 0..(k - 1) /\ k - q \in 0..(k - 1) /\ a + q \in Nat
    BY <1>2, <2>1
  <2>3. g[<<a, q>>] = h[<<a, q>>] /\ g[<<a + q, k - q>>] = h[<<a + q, k - q>>]
    BY <2>2
  <2>4. ASSUME NEW f
        PROVE  ListedBody(S, f, a, k) = f[<<a, q>>] \o f[<<a + q, k - q>>]
    <3>1. k # 0 /\ k # 1
      BY <1>2
    <3> QED BY <2>1, <3>1, Zenon DEF ListedBody
  <2> QED BY <2>3, <2>4
<1> QED BY <1>1, <1>2

\* There is a function that the step leads to itself.
LEMMA ListedExists ==
    ASSUME NEW S, NEW n \in Nat
    PROVE  \E g : g = ListedStep(S, n, g)
<1>. DEFINE Exists(m) == \E g : g = ListedStep(S, m, g)
            Failing == {m \in Nat : ~Exists(m)}
<1>1. Exists(0)
  <2>. DEFINE g == [r \in Nat \X (0..0) |-> <<>>]
  <2>1. \A r \in Nat \X (0..0) : ListedBody(S, g, r[1], r[2]) = <<>>
    BY DEF ListedBody
  <2>2. g = ListedStep(S, 0, g)
    BY <2>1 DEF ListedStep
  <2>. HIDE DEF g
  <2> QED BY <2>2
<1>2. ASSUME NEW m \in Nat \ {0}, Exists(m - 1)
      PROVE  Exists(m)
  <2>1. PICK g : g = ListedStep(S, m - 1, g)
    BY <1>2
  <2>. DEFINE f == [r \in Nat \X (0..m) |-> ListedBody(S, g, r[1], r[2])]
  <2>2. ASSUME NEW b \in Nat, NEW l \in 0..(m - 1)
        PROVE  g[<<b, l>>] = f[<<b, l>>]
    <3>1. <<b, l>> \in Nat \X (0..(m - 1)) /\ <<b, l>> \in Nat \X (0..m)
      OBVIOUS
    <3>2. g[<<b, l>>] = ListedBody(S, g, b, l)
      BY <2>1, <3>1 DEF ListedStep
    <3>3. f[<<b, l>>] = ListedBody(S, g, b, l)
      BY <3>1
    <3> QED BY <3>2, <3>3
  <2>3. ASSUME NEW r \in Nat \X (0..m)
        PROVE  ListedBody(S, g, r[1], r[2]) = ListedBody(S, f, r[1], r[2])
    <3>. HIDE DEF f
    <3>1. PICK a \in Nat, k \in 0..m : r = <<a, k>>
      OBVIOUS
    <3>2. \A b \in Nat, l \in 0..(k - 1) : g[<<b, l>>] = f[<<b, l>>]
      <4>1. \A l \in 0..(k - 1) : l \in 0..(m - 1)
        OBVIOUS
      <4> QED BY <2>2, <4>1
    <3>3. k \in Nat
      OBVIOUS
    <3>4. ListedBody(S, g, a, k) = ListedBody(S, f, a, k)
      BY <3>2, <3>3, ListedLooksBack
    <3> QED BY <3>1, <3>4
  <2>4. f = ListedStep(S, m, f)
    <3>. DEFINE u(r) == ListedBody(S, g, r[1], r[2])
                v(r) == ListedBody(S, f, r[1], r[2])
    <3>1. \A r \in Nat \X (0..m) : u(r) = v(r)
      BY <2>3
    <3>2. f = [r \in Nat \X (0..m) |-> u(r)]
      OBVIOUS
    <3>3. ListedStep(S, m, f) = [r \in Nat \X (0..m) |-> v(r)]
      BY DEF ListedStep
    <3>. HIDE DEF u, v, f
    <3> QED BY <3>1, <3>2, <3>3
  <2>. HIDE DEF f
  <2> QED BY <2>4
<1>3. Failing = {}
  <2>. SUFFICES ASSUME Failing # {} PROVE FALSE
    OBVIOUS
  <2>1. Failing \in SUBSET Nat
    OBVIOUS
  <2>2. PICK m \in Failing : \A l \in Failing : m <= l
    <3>. HIDE DEF Failing
    <3> QED BY <2>1, LeastElement
  <2>3. m \in Nat /\ ~Exists(m) /\ \A l \in 0..(m - 1) : Exists(l)
    <3>. HIDE DEF Exists
    <3> QED BY <2>2
  <2>. HIDE DEF Exists
  <2>4. m # 0
    BY <1>1, <2>3
  <2>5. Exists(m - 1)
    BY <2>3, <2>4
  <2> QED BY <1>2, <2>3, <2>4, <2>5
<1>. HIDE DEF Exists
<1>4. Exists(n)
  BY <1>3
<1>. USE DEF Exists
<1> QED BY <1>4

\* Listed goes through the numbers of a set from the least one upwards.
LEMMA ListedEnumerates ==
    ASSUME NEW n \in Nat, NEW S \in SUBSET (1..n)
    PROVE  /\ Listed(S, n) \in Seq(S)
           /\ \A i, j \in 1..Len(Listed(S, n)) : i < j => Listed(S, n)[i] < Listed(S, n)[j]
<1>. DEFINE g == CHOOSE f : f = ListedStep(S, n, f)
<1>1. g = ListedStep(S, n, g)
  BY ListedExists
<1>2. Listed(S, n) = g[<<1, n>>]
  BY DEF Listed, ListedStep, ListedBody
<1>. HIDE DEF g
<1>3. ASSUME NEW a \in Nat, NEW k \in 0..n
      PROVE  g[<<a, k>>] = ListedBody(S, g, a, k)
  BY <1>1 DEF ListedStep
<1>. DEFINE Within(a, k) == {s \in S : a <= s /\ s < a + k}
            Rising(q) == \A i, j \in 1..Len(q) : i < j => q[i] < q[j]
            Correct(k) == \A a \in Nat : g[<<a, k>>] \in Seq(Within(a, k)) /\ Rising(g[<<a, k>>])
            Failing == {k \in 0..n : ~Correct(k)}
<1>4. ASSUME NEW k \in 0..n, \A l \in 0..(k - 1) : Correct(l)
      PROVE  Correct(k)
  <2>. SUFFICES ASSUME NEW a \in Nat
                PROVE  g[<<a, k>>] \in Seq(Within(a, k)) /\ Rising(g[<<a, k>>])
    OBVIOUS
  <2>1. CASE k = 0 \/ (k = 1 /\ a \notin S)
    <3>1. g[<<a, k>>] = <<>>
      BY <1>3, <2>1 DEF ListedBody
    <3> QED BY <3>1
  <2>2. CASE k = 1 /\ a \in S
    <3>1. g[<<a, k>>] = <<a>>
      <4>1. k # 0 /\ k = 1 /\ a \in S
        BY <2>2
      <4>2. ListedBody(S, g, a, k) = <<a>>
        BY <4>1, Zenon DEF ListedBody
      <4>3. g[<<a, k>>] = ListedBody(S, g, a, k)
        BY <1>3
      <4> QED BY <4>2, <4>3, Zenon
    <3>2. a \in Within(a, k)
      BY <2>2
    <3> QED BY <3>1, <3>2
  <2>3. CASE k > 1
    <3>1. PICK q : q = k \div 2
      OBVIOUS
    <3>2. q \in 0..(k - 1) /\ k - q \in 0..(k - 1) /\ a + q \in Nat
      BY <2>3, <3>1
    <3>3. PICK x, y : x = g[<<a, q>>] /\ y = g[<<a + q, k - q>>]
      OBVIOUS
    <3>4. g[<<a, k>>] = x \o y
      <4>1. k # 0 /\ k # 1
        BY <2>3
      <4>2. ListedBody(S, g, a, k) = g[<<a, q>>] \o g[<<a + q, k - q>>]
        BY <3>1, <4>1, Zenon DEF ListedBody
      <4>3. g[<<a, k>>] = ListedBody(S, g, a, k)
        BY <1>3
      <4> QED BY <3>3, <4>2, <4>3, Zenon
    <3>5. /\ x \in Seq(Within(a, q)) /\ Rising(x)
          /\ y \in Seq(Within(a + q, k - q)) /\ Rising(y)
      BY <1>4, <3>2, <3>3
    <3>6. \A s \in Within(a, q) : s \in Within(a, k) /\ s \in Nat /\ s < a + q
      BY <3>2
    <3>7. \A s \in Within(a + q, k - q) : s \in Within(a, k) /\ s \in Nat /\ a + q <= s
      BY <3>2
    <3>8. x \in Seq(Within(a, k)) /\ y \in Seq(Within(a, k))
      <4>. HIDE DEF Within
      <4> QED BY <3>5, <3>6, <3>7
    <3>9. /\ x \o y \in Seq(Within(a, k)) /\ Len(x \o y) = Len(x) + Len(y)
          /\ \A i \in 1..Len(x) : (x \o y)[i] = x[i]
          /\ \A i \in (Len(x) + 1)..(Len(x) + Len(y)) : (x \o y)[i] = y[i - Len(x)]
      <4>. HIDE DEF Within
      <4> QED BY <3>8, Joined
    <3>10. /\ \A i \in 1..Len(x) : x[i] \in Nat /\ x[i] < a + q
           /\ \A i \in 1..Len(y) : y[i] \in Nat /\ a + q <= y[i]
      <4>. HIDE DEF Within
      <4>1. \A i \in 1..Len(x) : x[i] \in Within(a, q)
        BY <3>5
      <4>2. \A i \in 1..Len(y) : y[i] \in Within(a + q, k - q)
        BY <3>5
      <4> QED BY <3>6, <3>7, <4>1, <4>2
    <3>11. Rising(x \o y)
      <4>. SUFFICES ASSUME NEW i \in 1..(Len(x) + Len(y)), NEW j \in 1..(Len(x) + Len(y)), i < j
                    PROVE  (x \o y)[i] < (x \o y)[j]
        BY <3>9
      <4>0. Len(x) \in Nat /\ Len(y) \in Nat
        BY <3>8
      <4>1. CASE j <= Len(x)
        <5>1. i \in 1..Len(x) /\ j \in 1..Len(x)
          BY <4>0, <4>1
        <5> QED BY <3>5, <3>9, <5>1
      <4>2. CASE i > Len(x)
        <5>1. /\ i - Len(x) \in 1..Len(y) /\ j - Len(x) \in 1..Len(y) /\ i - Len(x) < j - Len(x)
              /\ i \in (Len(x) + 1)..(Len(x) + Len(y)) /\ j \in (Len(x) + 1)..(Len(x) + Len(y))
          BY <4>0, <4>2
        <5>2. y[i - Len(x)] < y[j - Len(x)]
          BY <3>5, <5>1
        <5> QED BY <3>9, <5>1, <5>2
      <4>3. CASE i <= Len(x) /\ j > Len(x)
        <5>1. /\ i \in 1..Len(x) /\ j - Len(x) \in 1..Len(y)
              /\ j \in (Len(x) + 1)..(Len(x) + Len(y))
          BY <4>0, <4>3
        <5>2. (x \o y)[i] = x[i] /\ (x \o y)[j] = y[j - Len(x)]
          BY <3>9, <5>1
        <5>3. PICK u, v : u = x[i] /\ v = y[j - Len(x)]
          OBVIOUS
        <5>4. u \in Nat /\ u < a + q /\ v \in Nat /\ a + q <= v
          BY <3>10, <5>1, <5>3
        <5>5. u < v
          BY <3>2, <5>4
        <5> QED BY <5>2, <5>3, <5>5
      <4> QED BY <4>0, <4>1, <4>2, <4>3
    <3>. HIDE DEF Within, Rising
    <3> QED BY <3>4, <3>9, <3>11
  <2>. HIDE DEF Within, Rising
  <2> QED BY <2>1, <2>2, <2>3
<1>5. Failing = {}
  <2>. SUFFICES ASSUME Failing # {} PROVE FALSE
    OBVIOUS
  <2>1. Failing \in SUBSET Nat
    OBVIOUS
  <2>2. PICK k \in Failing : \A l \in Failing : k <= l
    <3>. HIDE DEF Failing
    <3> QED BY <2>1, LeastElement
  <2>3. k \in 0..n /\ ~Correct(k) /\ \A l \in 0..(k - 1) : Correct(l)
    <3>. HIDE DEF Correct
    <3> QED BY <2>2
  <2>. HIDE DEF Correct
  <2> QED BY <1>4, <2>3
<1>6. Correct(n)
  <2>. HIDE DEF Correct
  <2> QED BY <1>5
<1>7. g[<<1, n>>] \in Seq(Within(1, n)) /\ Rising(g[<<1, n>>])
  BY <1>6
<1>8. \A s \in Within(1, n) : s \in S
  OBVIOUS
<1>9. g[<<1, n>>] \in Seq(S)
  <2>. HIDE DEF Within
  <2> QED BY <1>7, <1>8
<1> QED BY <1>2, <1>7, <1>9

\* The slots are samples, each listed once, that take bits.
LEMMA SlotsAreSamples ==
    ASSUME NEW f \in Formats, NEW p \in Seq(Int)
    PROVE  /\ Slots(f, p) \in Seq(DOMAIN p)
           /\ \A i, j \in 1..Len(Slots(f, p)) : Slots(f, p)[i] = Slots(f, p)[j] => i = j
           /\ f = "jpeg" => \A i \in 1..Len(Slots(f, p)) : Usable(p[Slots(f, p)[i]])
<1>1. CASE f = "pixels"
  <2>1. Slots(f, p) = [i \in 1..Len(p) |-> i]
    BY <1>1 DEF Slots
  <2>2. /\ Slots(f, p) \in Seq(DOMAIN p) /\ Len(Slots(f, p)) = Len(p)
        /\ \A i \in 1..Len(p) : Slots(f, p)[i] = i
    BY <2>1
  <2> QED BY <1>1, <2>2
<1>2. CASE f = "jpeg"
  <2>. DEFINE S == {i \in DOMAIN p : Usable(p[i])}
  <2>1. Slots(f, p) = Listed(S, Len(p))
    BY <1>2 DEF Slots
  <2>2. Len(p) \in Nat /\ S \in SUBSET (1..Len(p)) /\ S \subseteq DOMAIN p
    OBVIOUS
  <2>3. \A s \in S : Usable(p[s]) /\ s \in Nat
    OBVIOUS
  <2>. HIDE DEF S
  <2>4. PICK q : q = Listed(S, Len(p))
    OBVIOUS
  <2>5. q \in Seq(S) /\ \A i, j \in 1..Len(q) : i < j => q[i] < q[j]
    BY <2>2, <2>4, ListedEnumerates
  <2>6. \A i \in 1..Len(q) : q[i] \in S /\ q[i] \in Nat
    BY <2>3, <2>5
  <2>7. \A i, j \in 1..Len(q) : q[i] = q[j] => i = j
    <3>. SUFFICES ASSUME NEW i \in 1..Len(q), NEW j \in 1..Len(q), i # j
                  PROVE  q[i] # q[j]
      OBVIOUS
    <3>1. i < j \/ j < i
      BY <2>5
    <3>2. q[i] < q[j] \/ q[j] < q[i]
      BY <2>5, <3>1
    <3> QED BY <2>6, <3>2
  <2>8. q \in Seq(DOMAIN p)
    BY <2>2, <2>5
  <2> QED BY <2>1, <2>3, <2>4, <2>6, <2>7, <2>8
<1> QED BY <1>1, <1>2, PictureAssumption

\* Which samples take bits depends on nothing else.
LEMMA SlotsDepend ==
    ASSUME NEW f \in Formats, NEW p \in Seq(Int), NEW q \in Seq(Int), DOMAIN p = DOMAIN q,
           f = "jpeg" => \A s \in DOMAIN p : Usable(p[s]) <=> Usable(q[s])
    PROVE  Slots(f, p) = Slots(f, q)
<1>1. CASE f = "pixels"
  BY <1>1 DEF Slots
<1>2. CASE f = "jpeg"
  <2>1. {i \in DOMAIN p : Usable(p[i])} = {i \in DOMAIN q : Usable(q[i])}
    BY <1>2
  <2>2. Len(p) = Len(q)
    OBVIOUS
  <2> QED BY <1>2, <2>1, <2>2, Zenon DEF Slots
<1> QED BY <1>1, <1>2, PictureAssumption

\* Halves and lowest bits.
LEMMA LowestBit ==
    ASSUME NEW c \in Int
    PROVE  /\ c % 2 \in {0, 1} /\ c = 2 * (c \div 2) + (c % 2)
           /\ Usable(c) <=> c \div 2 # 0
           /\ \A bit \in {0, 1} : /\ WithLowestBit(c, bit) \in Int
                                  /\ WithLowestBit(c, bit) \div 2 = c \div 2
                                  /\ WithLowestBit(c, bit) % 2 = bit
           /\ WithLowestBit(c, c % 2) = c
<1>1. c % 2 \in {0, 1} /\ c = 2 * (c \div 2) + (c % 2)
  OBVIOUS
<1>2. Usable(c) <=> c \div 2 # 0
  BY DEF Usable
<1>3. ASSUME NEW bit \in {0, 1}
      PROVE  /\ WithLowestBit(c, bit) \in Int
             /\ WithLowestBit(c, bit) \div 2 = c \div 2
             /\ WithLowestBit(c, bit) % 2 = bit
  BY DEF WithLowestBit
<1> QED BY <1>1, <1>2, <1>3 DEF WithLowestBit

\* As long as only lowest bits of samples that take one change, the slots stay.
LEMMA SameSlots ==
    ASSUME PictureTypes, SamplesInv
    PROVE  /\ first \in Seq(Int) /\ Slots(format, disk) = Slots(format, first)
           /\ raw \in Nat /\ raw * 8 <= Len(Slots(format, disk))
<1>1. first \in Seq(Int)
  BY SamplesAssumption DEF PictureTypes
<1>2. \A s \in DOMAIN first : format = "jpeg" => (Usable(disk[s]) <=> Usable(first[s]))
  <2>. SUFFICES ASSUME NEW s \in DOMAIN first, format = "jpeg"
                PROVE  Usable(disk[s]) <=> Usable(first[s])
    OBVIOUS
  <2>1. disk[s] \in Int /\ first[s] \in Int /\ disk[s] \div 2 = first[s] \div 2
    BY <1>1 DEF PictureTypes, SamplesInv
  <2> QED BY <2>1, LowestBit
<1>3. Slots(format, disk) = Slots(format, first)
  BY <1>1, <1>2, SlotsDepend DEF PictureTypes, SamplesInv
<1>4. PICK n \in Nat : n = Len(Slots(format, first))
  <2>1. Slots(format, first) \in Seq(DOMAIN first)
    BY <1>1, SlotsAreSamples DEF PictureTypes
  <2> QED BY <2>1
<1>5. raw = n \div 8
  BY <1>4 DEF PictureTypes, RawCapacity
<1> QED BY <1>1, <1>3, <1>4, <1>5

\* The local permutation of a picture goes through all numbers below Bits.
LEMMA OrderIsPermutation ==
    ASSUME PictureTypes
    PROVE  /\ raw \in Nat /\ Bits \in 0..(raw * 8) /\ DOMAIN Order = 0..(Bits - 1)
           /\ \A i \in 0..(Bits - 1) : Order[i] \in 0..(Bits - 1)
           /\ \A p \in 0..(Bits - 1) : \E i \in 0..(Bits - 1) : Order[i] = p
           /\ \A i, j \in 0..(Bits - 1) : Order[i] = Order[j] => i = j
           /\ Messages(ShareSize(encoder, Bits)) \subseteq Bytes(ShareSize(encoder, Bits))
<1>1. first \in Seq(Int)
  BY SamplesAssumption DEF PictureTypes
<1>2. /\ IsPermutation(Order) /\ Bits \in 0..(raw * 8)
      /\ Messages(ShareSize(encoder, Bits)) \subseteq Bytes(ShareSize(encoder, Bits))
  <2>1. /\ encoder \in Encoders /\ format \in Formats /\ key \in Keys
        /\ first \in Pictures(encoder, format) /\ raw = RawCapacity(format, first)
    BY DEF PictureTypes
  <2>2. LET order == Permute(key, RawCapacity(format, first) * 8)
            bits == Cardinality(DOMAIN order)
            size == ShareSize(encoder, bits)
        IN  /\ IsPermutation(order) /\ bits \in 0..(RawCapacity(format, first) * 8)
            /\ Messages(size) \subseteq [0..(size - 1) -> 0..255]
    BY <2>1, SamplesAssumption, Zenon
  <2> QED BY <2>1, <2>2, Zenon DEF Order, Bits, Bytes
<1>3. raw \in Nat
  <2>1. Slots(format, first) \in Seq(DOMAIN first)
    BY <1>1, SlotsAreSamples DEF PictureTypes
  <2>2. PICK n \in Nat : n = Len(Slots(format, first))
    BY <2>1
  <2>3. raw = n \div 8
    BY <2>2 DEF PictureTypes, RawCapacity
  <2> QED BY <2>3
<1>. DEFINE E == 0..(Bits - 1)
<1>4. DOMAIN Order = E /\ {Order[i] : i \in E} = E
  BY <1>2, Zenon DEF IsPermutation, Bits
<1>5. Bits \in Nat
  BY <1>2, <1>3
<1>6. \A i \in E : Order[i] \in E
  <2>. HIDE DEF E
  <2> QED BY <1>4
<1>7. \A p \in E : \E i \in E : Order[i] = p
  <2>. HIDE DEF E
  <2> QED BY <1>4
<1>8. \A i, j \in E : Order[i] = Order[j] => i = j
  <2>. DEFINE F == [i \in E |-> Order[i]]
  <2>1. IsFiniteSet(E)
    BY <1>5, FS_Interval
  <2>2. F \in Surjection(E, E)
    <3>. HIDE DEF E
    <3> QED BY <1>6, <1>7 DEF Surjection
  <2>3. F \in Injection(E, E)
    <3>. HIDE DEF E, F
    <3> QED BY <2>1, <2>2, FS_SurjSameCardinalityImpliesInj
  <2>. HIDE DEF E
  <2>4. \A i, j \in E : F[i] = F[j] => i = j
    BY <2>3 DEF Injection, IsInjective
  <2> QED BY <2>4
<1> QED BY <1>2, <1>3, <1>4, <1>6, <1>7, <1>8

-----------------------------------------------------------------------------
(* The buffer of the lowest bits.                                          *)

IsOne(ones, p) == IF p \in ones THEN 1 ELSE 0

\* Byte b of the buffer in which the bits of a set are set.
ByteOf(ones, b) ==
    IsOne(ones, 8 * b) + 2 * IsOne(ones, 8 * b + 1) + 4 * IsOne(ones, 8 * b + 2)
      + 8 * IsOne(ones, 8 * b + 3) + 16 * IsOne(ones, 8 * b + 4) + 32 * IsOne(ones, 8 * b + 5)
      + 64 * IsOne(ones, 8 * b + 6) + 128 * IsOne(ones, 8 * b + 7)

\* The bits that are set in the buffer of the samples.
OnesOf(samples) ==
    {Order[i] : i \in {j \in DOMAIN Order : samples[Slots(format, samples)[j + 1]] % 2 = 1}}

\* The buffer of the samples has these bits and no others.
LEMMA BufferIs ==
    ASSUME NEW samples
    PROVE  Buffer(samples) = [b \in 0..(raw - 1) |-> ByteOf(OnesOf(samples), b)]
BY Zenon DEF Buffer, ByteOf, IsOne, OnesOf

\* A bit of such a buffer.
LEMMA BitOfByte ==
    ASSUME NEW ones, NEW b \in Nat
    PROVE  /\ ByteOf(ones, b) \in 0..255
           /\ \A i \in 0..7 : Digit(ByteOf(ones, b), i) = IsOne(ones, 8 * b + i)
<1>1. PICK x0, x1, x2, x3, x4, x5, x6, x7 :
          /\ x0 = IsOne(ones, 8 * b) /\ x1 = IsOne(ones, 8 * b + 1)
          /\ x2 = IsOne(ones, 8 * b + 2) /\ x3 = IsOne(ones, 8 * b + 3)
          /\ x4 = IsOne(ones, 8 * b + 4) /\ x5 = IsOne(ones, 8 * b + 5)
          /\ x6 = IsOne(ones, 8 * b + 6) /\ x7 = IsOne(ones, 8 * b + 7)
  OBVIOUS
<1>2. /\ x0 \in {0, 1} /\ x1 \in {0, 1} /\ x2 \in {0, 1} /\ x3 \in {0, 1}
      /\ x4 \in {0, 1} /\ x5 \in {0, 1} /\ x6 \in {0, 1} /\ x7 \in {0, 1}
  BY <1>1 DEF IsOne
<1>3. PICK y : y = ByteOf(ones, b)
  OBVIOUS
<1>4. y = x0 + 2 * x1 + 4 * x2 + 8 * x3 + 16 * x4 + 32 * x5 + 64 * x6 + 128 * x7
  BY <1>1, <1>3 DEF ByteOf
<1>5. /\ y \in 0..255
      /\ Digit(y, 0) = x0 /\ Digit(y, 1) = x1 /\ Digit(y, 2) = x2 /\ Digit(y, 3) = x3
      /\ Digit(y, 4) = x4 /\ Digit(y, 5) = x5 /\ Digit(y, 6) = x6 /\ Digit(y, 7) = x7
  BY <1>2, <1>4, DigitsOfSum
<1>6. ASSUME NEW i \in 0..7
      PROVE  Digit(y, i) = IsOne(ones, 8 * b + i)
  <2>1. i \in {0, 1, 2, 3, 4, 5, 6, 7} /\ 8 * b + 0 = 8 * b
    BY UpToEight
  <2> QED BY <1>1, <1>5, <2>1
<1> QED BY <1>3, <1>5, <1>6

\* The buffer consists of bytes.
LEMMA BufferIsBytes ==
    ASSUME PictureTypes, NEW samples
    PROVE  Buffer(samples) \in Bytes(raw)
<1>1. raw \in Nat
  BY OrderIsPermutation
<1>. DEFINE e(b) == ByteOf(OnesOf(samples), b)
<1>2. \A b \in 0..(raw - 1) : e(b) \in 0..255
  BY <1>1, BitOfByte
<1>3. Buffer(samples) = [b \in 0..(raw - 1) |-> e(b)]
  BY BufferIs
<1>. HIDE DEF e
<1> QED BY <1>2, <1>3 DEF Bytes

\* The same, of a position in the buffer.
LEMMA BitOfBuffer ==
    ASSUME PictureTypes, NEW samples, NEW p \in 0..(raw * 8 - 1)
    PROVE  GetBitInBufferPermuted(Buffer(samples), p) = IsOne(OnesOf(samples), p)
<1>1. raw \in Nat
  BY OrderIsPermutation
<1>2. PICK ones : ones = OnesOf(samples)
  OBVIOUS
<1>3. Buffer(samples) = [b \in 0..(raw - 1) |-> ByteOf(ones, b)]
  BY <1>2, BufferIs
<1>4. PICK b, i : b = p \div 8 /\ i = p % 8
  OBVIOUS
<1>5. b \in 0..(raw - 1) /\ i \in 0..7 /\ p = 8 * b + i /\ b \in Nat
  BY <1>1, <1>4
<1>6. Digit(ByteOf(ones, b), i) = IsOne(ones, 8 * b + i)
  BY <1>5, BitOfByte
<1>7. GetBitInBufferPermuted(Buffer(samples), p) = Digit(ByteOf(ones, b), i)
  BY <1>3, <1>4, <1>5 DEF GetBitInBufferPermuted
<1> QED BY <1>2, <1>5, <1>6, <1>7

\* A buffer is made of its bits.
LEMMA BufferOfBits ==
    ASSUME NEW n \in Nat, NEW buffer \in Bytes(n), NEW ones,
           \A p \in 0..(n * 8 - 1) :
               p \in ones <=> GetBitInBufferPermuted(buffer, p) = 1
    PROVE  buffer = [b \in 0..(n - 1) |-> ByteOf(ones, b)]
<1>1. ASSUME NEW b \in 0..(n - 1)
      PROVE  buffer[b] = ByteOf(ones, b)
  <2>1. PICK y, z : y = buffer[b] /\ z = ByteOf(ones, b)
    OBVIOUS
  <2>2. b \in Nat /\ y \in 0..255
    <3>1. b \in Nat
      OBVIOUS
    <3>2. y \in 0..255
      BY <2>1 DEF Bytes
    <3> QED BY <3>1, <3>2
  <2>3. z \in 0..255 /\ \A i \in 0..7 : Digit(z, i) = IsOne(ones, 8 * b + i)
    BY <2>1, <2>2, BitOfByte
  <2>4. ASSUME NEW i \in 0..7
        PROVE  Digit(y, i) = Digit(z, i)
    <3>1. 8 * b + i \in 0..(n * 8 - 1) /\ (8 * b + i) \div 8 = b /\ (8 * b + i) % 8 = i
      OBVIOUS
    <3>2. GetBitInBufferPermuted(buffer, 8 * b + i) = Digit(y, i)
      BY <2>1, <3>1 DEF GetBitInBufferPermuted
    <3>3. Digit(y, i) \in {0, 1}
      <4>1. y \in Nat /\ i \in 0..8
        BY <2>2
      <4> QED BY <4>1, DigitIsBinary
    <3> QED BY <2>3, <3>1, <3>2, <3>3 DEF IsOne
  <2> QED BY <2>1, <2>2, <2>3, <2>4, SameDigits
<1>. DEFINE e(b) == ByteOf(ones, b)
<1>2. buffer = [b \in 0..(n - 1) |-> buffer[b]]
  BY DEF Bytes
<1>3. \A b \in 0..(n - 1) : buffer[b] = e(b)
  BY <1>1
<1>4. buffer = [b \in 0..(n - 1) |-> e(b)]
  <2>. HIDE DEF e
  <2> QED BY <1>2, <1>3
<1> QED BY <1>4

-----------------------------------------------------------------------------
(* From the buffer into the samples and back.                              *)

\* Bits of a buffer are 0 or 1.
LEMMA BitIsBinary ==
    ASSUME NEW n \in Nat, NEW buffer \in Bytes(n), NEW p \in 0..(n * 8 - 1)
    PROVE  GetBitInBufferPermuted(buffer, p) \in {0, 1}
<1>1. PICK b, i : b = p \div 8 /\ i = p % 8
  OBVIOUS
<1>2. b \in 0..(n - 1) /\ i \in 0..8
  BY <1>1
<1>3. PICK y : y = buffer[b]
  OBVIOUS
<1>4. y \in 0..255
  BY <1>2, <1>3 DEF Bytes
<1>5. y \in Nat
  BY <1>4
<1>6. Digit(y, i) \in {0, 1}
  BY <1>2, <1>5, DigitIsBinary
<1> QED BY <1>1, <1>3, <1>6 DEF GetBitInBufferPermuted

\* What WithBuffer makes of the samples, one by one.
LEMMA WithBufferIs ==
    ASSUME PictureTypes, SamplesInv, NEW buffer \in Bytes(raw)
    PROVE  LET slots == Slots(format, disk)
               new == WithBuffer(disk, buffer)
           IN  /\ new = [s \in DOMAIN disk |-> new[s]]
               /\ \A i \in 0..(Bits - 1) :
                      /\ slots[i + 1] \in DOMAIN disk
                      /\ format = "jpeg" => Usable(disk[slots[i + 1]])
                      /\ new[slots[i + 1]] =
                             WithLowestBit(disk[slots[i + 1]],
                                           GetBitInBufferPermuted(buffer, Order[i]))
               /\ \A s \in DOMAIN disk :
                      (\A i \in 0..(Bits - 1) : slots[i + 1] # s) => new[s] = disk[s]
<1>. DEFINE bit(i) == GetBitInBufferPermuted(buffer, Order[i])
<1>1. PICK slots, new : slots = Slots(format, disk) /\ new = WithBuffer(disk, buffer)
  OBVIOUS
<1>2. disk \in Seq(Int) /\ format \in Formats
  BY DEF PictureTypes
<1>3. /\ slots \in Seq(DOMAIN disk)
      /\ \A i, j \in 1..Len(slots) : slots[i] = slots[j] => i = j
      /\ format = "jpeg" => \A i \in 1..Len(slots) : Usable(disk[slots[i]])
  BY <1>1, <1>2, SlotsAreSamples
<1>4. raw \in Nat /\ raw * 8 <= Len(slots) /\ Bits \in 0..(raw * 8)
  BY <1>1, SameSlots, OrderIsPermutation
<1>5. \A i \in 0..(Bits - 1) : i + 1 \in 1..Len(slots)
  BY <1>3, <1>4
<1>6. \A i \in 0..(Bits - 1) : slots[i + 1] \in DOMAIN disk
  BY <1>3, <1>5
<1>7. \A i \in 0..(Bits - 1) : format = "jpeg" => Usable(disk[slots[i + 1]])
  BY <1>3, <1>5
<1>8. \A i, j \in 0..(Bits - 1) : slots[i + 1] = slots[j + 1] => i = j
  BY <1>3, <1>5
<1>9. \A i \in 0..(Bits - 1) : bit(i) \in {0, 1}
  <2>. SUFFICES ASSUME NEW i \in 0..(Bits - 1)
                PROVE  bit(i) \in {0, 1}
    OBVIOUS
  <2>1. Order[i] \in 0..(Bits - 1)
    BY OrderIsPermutation
  <2>2. PICK p : p = Order[i]
    OBVIOUS
  <2>3. p \in 0..(raw * 8 - 1)
    BY <1>4, <2>1, <2>2
  <2> QED BY <1>4, <2>2, <2>3, BitIsBinary
<1>. DEFINE takes(b) == {Slots(format, disk)[i + 1] : i \in {j \in DOMAIN Order : bit(j) = b}}
            value(s) == CASE s \in takes(0) -> WithLowestBit(disk[s], 0)
                          [] s \in takes(1) -> WithLowestBit(disk[s], 1)
                          [] OTHER -> disk[s]
<1>10. new = [s \in DOMAIN disk |-> value(s)]
  BY <1>1, Zenon DEF WithBuffer
<1>11. \A b : \A s : s \in takes(b) <=> \E i \in 0..(Bits - 1) : bit(i) = b /\ s = slots[i + 1]
  <2>1. DOMAIN Order = 0..(Bits - 1)
    BY OrderIsPermutation
  <2>. HIDE DEF bit
  <2> QED BY <1>1, <2>1
<1>12. ASSUME NEW i \in 0..(Bits - 1)
       PROVE  value(slots[i + 1]) = WithLowestBit(disk[slots[i + 1]], bit(i))
  <2>1. \A b : slots[i + 1] \in takes(b) <=> b = bit(i)
    <3>. HIDE DEF takes, bit
    <3> QED BY <1>8, <1>11
  <2>2. CASE bit(i) = 0
    <3>1. slots[i + 1] \in takes(0) /\ slots[i + 1] \notin takes(1)
      <4>. HIDE DEF takes, bit
      <4> QED BY <2>1, <2>2
    <3>. HIDE DEF takes, bit
    <3> QED BY <2>2, <3>1
  <2>3. CASE bit(i) = 1
    <3>1. slots[i + 1] \in takes(1) /\ slots[i + 1] \notin takes(0)
      <4>. HIDE DEF takes, bit
      <4> QED BY <2>1, <2>3
    <3>. HIDE DEF takes, bit
    <3> QED BY <2>3, <3>1
  <2>. HIDE DEF takes, bit, value
  <2> QED BY <1>9, <2>2, <2>3
<1>13. ASSUME NEW s \in DOMAIN disk, \A i \in 0..(Bits - 1) : slots[i + 1] # s
       PROVE  value(s) = disk[s]
  <2>1. s \notin takes(0) /\ s \notin takes(1)
    <3>. HIDE DEF takes, bit
    <3> QED BY <1>11, <1>13
  <2>. HIDE DEF takes, bit
  <2> QED BY <2>1
<1>. HIDE DEF value
<1>14. \A s \in DOMAIN disk : new[s] = value(s)
  BY <1>10
<1>15. new = [s \in DOMAIN disk |-> new[s]]
  BY <1>10
<1>16. \A i \in 0..(Bits - 1) : new[slots[i + 1]] = WithLowestBit(disk[slots[i + 1]], bit(i))
  <2>. HIDE DEF bit
  <2> QED BY <1>6, <1>12, <1>14
<1>17. \A s \in DOMAIN disk : (\A i \in 0..(Bits - 1) : slots[i + 1] # s) => new[s] = disk[s]
  BY <1>13, <1>14
<1> QED BY <1>1, <1>6, <1>7, <1>15, <1>16, <1>17

\* Whatever is written, only lowest bits of samples that take one change.
LEMMA WithBufferKeepsSamples ==
    ASSUME PictureTypes, SamplesInv, NEW buffer
    PROVE  LET new == WithBuffer(disk, buffer)
           IN  /\ new \in Seq(Int) /\ DOMAIN new = DOMAIN first
               /\ \A s \in DOMAIN first :
                      /\ new[s] \div 2 = first[s] \div 2
                      /\ format = "jpeg" /\ first[s] \in {0, 1} => new[s] = first[s]
               /\ Slots(format, new) = Slots(format, disk)
<1>1. PICK slots, new : slots = Slots(format, disk) /\ new = WithBuffer(disk, buffer)
  OBVIOUS
<1>2. disk \in Seq(Int) /\ format \in Formats /\ DOMAIN disk = DOMAIN first /\ first \in Seq(Int)
  BY SameSlots DEF PictureTypes, SamplesInv
<1>. DEFINE bit(i) == GetBitInBufferPermuted(buffer, Order[i])
            takes(b) == {Slots(format, disk)[i + 1] : i \in {j \in DOMAIN Order : bit(j) = b}}
            value(s) == CASE s \in takes(0) -> WithLowestBit(disk[s], 0)
                          [] s \in takes(1) -> WithLowestBit(disk[s], 1)
                          [] OTHER -> disk[s]
<1>3. new = [s \in DOMAIN disk |-> value(s)]
  BY <1>1, Zenon DEF WithBuffer
<1>4. ASSUME NEW s, NEW b, s \in takes(b)
       PROVE  format = "jpeg" => Usable(disk[s])
  <2>1. DOMAIN Order = 0..(Bits - 1)
    BY OrderIsPermutation
  <2>2. PICK i \in 0..(Bits - 1) : s = slots[i + 1]
    <3>. HIDE DEF bit
    <3> QED BY <1>1, <1>4, <2>1
  <2>3. /\ slots \in Seq(DOMAIN disk)
        /\ format = "jpeg" => \A l \in 1..Len(slots) : Usable(disk[slots[l]])
    BY <1>1, <1>2, SlotsAreSamples
  <2>4. raw \in Nat /\ raw * 8 <= Len(slots) /\ Bits \in 0..(raw * 8)
    BY <1>1, SameSlots, OrderIsPermutation
  <2>5. i + 1 \in 1..Len(slots)
    BY <2>3, <2>4
  <2> QED BY <2>2, <2>3, <2>5
<1>5. ASSUME NEW s \in DOMAIN disk
       PROVE  \/ value(s) = disk[s]
              \/ /\ format = "jpeg" => Usable(disk[s])
                 /\ value(s) = WithLowestBit(disk[s], 0) \/ value(s) = WithLowestBit(disk[s], 1)
  <2>1. \A b : s \in takes(b) => (format = "jpeg" => Usable(disk[s]))
    <3>. HIDE DEF takes
    <3> QED BY <1>4
  <2>. HIDE DEF takes
  <2>2. CASE s \in takes(0) \/ s \in takes(1)
    BY <2>1, <2>2
  <2>3. CASE ~(s \in takes(0) \/ s \in takes(1))
    BY <2>3
  <2> QED BY <2>2, <2>3
<1>. HIDE DEF value
<1>6. ASSUME NEW s \in DOMAIN disk
      PROVE  /\ new[s] \in Int /\ new[s] \div 2 = disk[s] \div 2
             /\ format = "jpeg" /\ disk[s] \in {0, 1} => new[s] = disk[s]
  <2>1. PICK c, d : c = disk[s] /\ d = value(s)
    OBVIOUS
  <2>2. c \in Int /\ new[s] = d
    BY <1>2, <1>3, <2>1
  <2>3. \/ d = c
        \/ /\ format = "jpeg" => Usable(c)
           /\ d = WithLowestBit(c, 0) \/ d = WithLowestBit(c, 1)
    BY <1>5, <2>1
  <2>4. \A b \in {0, 1} : WithLowestBit(c, b) \in Int /\ WithLowestBit(c, b) \div 2 = c \div 2
    BY <2>2, LowestBit
  <2>5. d \in Int /\ d \div 2 = c \div 2
    BY <2>2, <2>3, <2>4
  <2> QED BY <2>1, <2>2, <2>3, <2>5 DEF Usable
<1>7. new \in Seq(Int) /\ DOMAIN new = DOMAIN disk
  <2>1. PICK n \in Nat : DOMAIN disk = 1..n
    BY <1>2
  <2>2. new \in [1..n -> Int]
    BY <1>6, <1>3, <2>1
  <2> QED BY <2>1, <2>2
<1>8. \A s \in DOMAIN first :
          /\ new[s] \div 2 = first[s] \div 2
          /\ format = "jpeg" /\ first[s] \in {0, 1} => new[s] = first[s]
  BY <1>2, <1>6 DEF SamplesInv
<1>9. \A s \in DOMAIN disk : Usable(disk[s]) <=> Usable(new[s])
  <2>. SUFFICES ASSUME NEW s \in DOMAIN disk
                PROVE  Usable(disk[s]) <=> Usable(new[s])
    OBVIOUS
  <2>1. PICK c, d : c = disk[s] /\ d = new[s]
    OBVIOUS
  <2>2. c \in Int /\ d \in Int /\ c \div 2 = d \div 2
    BY <1>2, <1>6, <2>1
  <2>3. Usable(c) <=> Usable(d)
    BY <2>2, LowestBit
  <2> QED BY <2>1, <2>3
<1>10. Slots(format, disk) = Slots(format, new)
  BY <1>2, <1>7, <1>9, SlotsDepend
<1> QED BY <1>1, <1>2, <1>7, <1>8, <1>10

\* What was written into the samples is what is read from them again: a buffer
\* with no bits set beyond those the permutation reaches.
LEMMA BufferComesBack ==
    ASSUME PictureTypes, SamplesInv, NEW buffer \in Bytes(raw),
           \A p \in Bits..(raw * 8 - 1) : GetBitInBufferPermuted(buffer, p) = 0
    PROVE  Buffer(WithBuffer(disk, buffer)) = buffer
<1>1. PICK slots, new : slots = Slots(format, disk) /\ new = WithBuffer(disk, buffer)
  OBVIOUS
<1>2. /\ raw \in Nat /\ Bits \in 0..(raw * 8) /\ DOMAIN Order = 0..(Bits - 1)
      /\ \A i \in 0..(Bits - 1) : Order[i] \in 0..(Bits - 1)
      /\ \A p \in 0..(Bits - 1) : \E i \in 0..(Bits - 1) : Order[i] = p
  BY OrderIsPermutation
<1>3. Slots(format, new) = slots
  BY <1>1, WithBufferKeepsSamples
<1>4. ASSUME NEW i \in 0..(Bits - 1)
      PROVE  new[slots[i + 1]] % 2 = GetBitInBufferPermuted(buffer, Order[i])
  <2>1. PICK b, c : b = GetBitInBufferPermuted(buffer, Order[i]) /\ c = disk[slots[i + 1]]
    OBVIOUS
  <2>2. slots[i + 1] \in DOMAIN disk /\ new[slots[i + 1]] = WithLowestBit(c, b)
    BY <1>1, <2>1, WithBufferIs
  <2>3. c \in Int
    BY <2>1, <2>2 DEF PictureTypes
  <2>4. b \in {0, 1}
    <3>1. PICK p : p = Order[i]
      OBVIOUS
    <3>2. p \in 0..(raw * 8 - 1)
      BY <1>2, <3>1
    <3> QED BY <1>2, <2>1, <3>1, <3>2, BitIsBinary
  <2> QED BY <2>1, <2>2, <2>3, <2>4, LowestBit
<1>. DEFINE get(p) == GetBitInBufferPermuted(buffer, p)
<1>5. \A p : p \in OnesOf(new) <=>
                \E i \in 0..(Bits - 1) : Order[i] = p /\ new[slots[i + 1]] % 2 = 1
  BY <1>2, <1>3 DEF OnesOf
<1>6. \A p \in 0..(raw * 8 - 1) : p \in OnesOf(new) <=> get(p) = 1
  <2>. SUFFICES ASSUME NEW p \in 0..(raw * 8 - 1)
                PROVE  p \in OnesOf(new) <=> get(p) = 1
    OBVIOUS
  <2>1. CASE p \in 0..(Bits - 1)
    <3>1. PICK i \in 0..(Bits - 1) : Order[i] = p
      BY <1>2, <2>1
    <3>. HIDE DEF get
    <3>2. \A j \in 0..(Bits - 1) : Order[j] = p => new[slots[j + 1]] % 2 = get(p)
      BY <1>4 DEF get
    <3> QED BY <1>5, <3>1, <3>2
  <2>2. CASE p \notin 0..(Bits - 1)
    <3>1. p \in Bits..(raw * 8 - 1)
      BY <1>2, <2>2
    <3>2. get(p) = 0
      BY <3>1
    <3>. HIDE DEF get
    <3>3. p \notin OnesOf(new)
      BY <1>2, <1>5, <2>2
    <3> QED BY <3>2, <3>3
  <2> QED BY <2>1, <2>2
<1>7. PICK ones : ones = OnesOf(new)
  OBVIOUS
<1>8. \A p \in 0..(raw * 8 - 1) : p \in ones <=> GetBitInBufferPermuted(buffer, p) = 1
  BY <1>6, <1>7
<1>9. buffer = [b \in 0..(raw - 1) |-> ByteOf(ones, b)]
  <2>1. \A n \in Nat : \A e \in Bytes(n) : \A o :
            (\A p \in 0..(n * 8 - 1) : p \in o <=> GetBitInBufferPermuted(e, p) = 1)
                => e = [b \in 0..(n - 1) |-> ByteOf(o, b)]
    BY BufferOfBits
  <2>2. raw \in Nat /\ buffer \in Bytes(raw)
    BY <1>2
  <2>3. \A o : (\A p \in 0..(raw * 8 - 1) : p \in o <=> GetBitInBufferPermuted(buffer, p) = 1)
                   => buffer = [b \in 0..(raw - 1) |-> ByteOf(o, b)]
    BY <2>1, <2>2, Zenon
  <2> QED BY <1>8, <2>3, Zenon
<1> QED BY <1>1, <1>7, <1>9, BufferIs

\* Writing what was read leaves the samples as they are.
LEMMA SamplesComeBack ==
    ASSUME PictureTypes, SamplesInv
    PROVE  WithBuffer(disk, Buffer(disk)) = disk
<1>1. PICK slots, new, buffer : /\ slots = Slots(format, disk) /\ buffer = Buffer(disk)
                                /\ new = WithBuffer(disk, buffer)
  OBVIOUS
<1>2. buffer \in Bytes(raw)
  BY <1>1, BufferIsBytes
<1>3. /\ raw \in Nat /\ Bits \in 0..(raw * 8) /\ DOMAIN Order = 0..(Bits - 1)
      /\ \A i \in 0..(Bits - 1) : Order[i] \in 0..(Bits - 1)
      /\ \A i, j \in 0..(Bits - 1) : Order[i] = Order[j] => i = j
  BY OrderIsPermutation
<1>4. ASSUME NEW i \in 0..(Bits - 1)
      PROVE  new[slots[i + 1]] = disk[slots[i + 1]]
  <2>1. PICK p, c : p = Order[i] /\ c = disk[slots[i + 1]]
    OBVIOUS
  <2>2. p \in 0..(raw * 8 - 1)
    BY <1>3, <2>1
  <2>3. slots[i + 1] \in DOMAIN disk
        /\ new[slots[i + 1]] = WithLowestBit(c, GetBitInBufferPermuted(buffer, p))
    BY <1>1, <1>2, <2>1, WithBufferIs
  <2>4. c \in Int
    BY <2>1, <2>3 DEF PictureTypes
  <2>5. GetBitInBufferPermuted(buffer, p) = IsOne(OnesOf(disk), p)
    BY <1>1, <2>2, BitOfBuffer
  <2>6. p \in OnesOf(disk) <=> c % 2 = 1
    BY <1>1, <1>3, <2>1 DEF OnesOf
  <2>7. IsOne(OnesOf(disk), p) = c % 2
    BY <2>4, <2>6, LowestBit DEF IsOne
  <2> QED BY <2>1, <2>3, <2>4, <2>5, <2>7, LowestBit
<1>5. /\ new = [s \in DOMAIN disk |-> new[s]]
      /\ \A s \in DOMAIN disk :
             (\A i \in 0..(Bits - 1) : slots[i + 1] # s) => new[s] = disk[s]
  BY <1>1, <1>2, WithBufferIs
<1>6. \A s \in DOMAIN disk : new[s] = disk[s]
  BY <1>4, <1>5
<1>7. disk = [s \in DOMAIN disk |-> disk[s]]
  BY DEF PictureTypes
<1>8. new = disk
  BY <1>5, <1>6, <1>7
<1> QED BY <1>1, <1>8

-----------------------------------------------------------------------------
(* Block by block.                                                         *)

\* The blocks lie in the buffer, before the bits that no block takes.
LEMMA BlocksFit ==
    ASSUME PictureTypes
    PROVE  /\ DataBlock(encoder) \in Nat \ {0} /\ CodewordBlock(encoder) \in Nat \ {0}
           /\ BlockCount \in Nat /\ BlockCount * CodewordBlock(encoder) * 8 <= Bits
           /\ \A b \in 0..(BlockCount - 1) :
                  /\ b * CodewordBlock(encoder) \in 0..(raw - CodewordBlock(encoder))
                  /\ (b + 1) * CodewordBlock(encoder) = b * CodewordBlock(encoder) + CodewordBlock(encoder)
                  /\ (b + 1) * CodewordBlock(encoder) <= BlockCount * CodewordBlock(encoder)
           /\ ShareSize(encoder, Bits) = BlockCount * DataBlock(encoder)
<1>1. PICK m : m = CodewordBlock(encoder)
  OBVIOUS
<1>2. DataBlock(encoder) \in Nat \ {0} /\ m \in Nat \ {0}
  BY <1>1, BlockSizes DEF PictureTypes
<1>3. raw \in Nat /\ Bits \in 0..(raw * 8)
  BY OrderIsPermutation
<1>4. PICK c : c = Bits \div 8
  OBVIOUS
<1>5. c \in 0..raw /\ c * 8 <= Bits
  BY <1>3, <1>4
<1>6. PICK k : k = c \div m
  OBVIOUS
<1>7. k \in Nat /\ k * m <= c
  <2>1. c % m \in 0..(m - 1) /\ k \in Int /\ c = k * m + (c % m)
    BY <1>2, <1>5, <1>6, Division
  <2>2. k >= 0
    BY <1>2, <1>5, <1>6
  <2>3. k * m \in Int
    BY <1>2, <2>1
  <2> QED BY <1>5, <2>1, <2>2, <2>3
<1>8. BlockCount = k
  BY <1>1, <1>4, <1>6 DEF BlockCount, Blocks
<1>9. ASSUME NEW b \in 0..(k - 1)
      PROVE  b * m \in 0..(raw - m) /\ (b + 1) * m = b * m + m /\ (b + 1) * m <= k * m
  <2>1. PICK d \in Nat : k = (b + 1) + d
    <3>1. k - b - 1 \in Nat /\ k = (b + 1) + (k - b - 1)
      BY <1>7
    <3> QED BY <3>1
  <2>2. k * m = (b + 1) * m + d * m /\ (b + 1) * m = b * m + m
    BY <1>2, <2>1
  <2>3. PICK u, v, w, z : u = b * m /\ v = d * m /\ w = k * m /\ z = (b + 1) * m
    OBVIOUS
  <2>4. u \in Nat /\ v \in Nat /\ w = z + v /\ z = u + m /\ w <= c
    BY <1>2, <1>7, <2>2, <2>3
  <2>5. u \in 0..(raw - m) /\ z = u + m /\ z <= w
    BY <1>2, <1>3, <1>5, <2>4
  <2> QED BY <2>3, <2>5
<1>10. k * m * 8 <= Bits
  <2>1. k * m \in Nat
    BY <1>2, <1>7
  <2> QED BY <1>3, <1>5, <1>7, <2>1
<1> QED BY <1>1, <1>2, <1>7, <1>8, <1>9, <1>10 DEF ShareSize, BlockCount

\* What a block gives depends on nothing but its bytes.
LEMMA ExtractLooksAtBlock ==
    ASSUME PictureTypes, NEW n \in Nat, NEW x \in Bytes(n), NEW y \in Bytes(n),
           NEW at \in 0..(n - CodewordBlock(encoder)),
           \A i \in BlockAt(encoder, at) : x[i] = y[i]
    PROVE  /\ ExtractBlock(encoder, x, at) = ExtractBlock(encoder, y, at)
           /\ ExtractBlock(encoder, x, at) \in Bytes(DataBlock(encoder))
<1>. DEFINE alone(z) == [i \in 0..(n - 1) |-> IF i \in BlockAt(encoder, at) THEN z[i] ELSE 0]
            data == [i \in 0..(DataBlock(encoder) - 1) |-> 0]
<1>1. data \in Bytes(DataBlock(encoder))
  BY DEF Bytes
<1>2. ASSUME NEW z \in Bytes(n)
      PROVE  /\ ExtractBlock(encoder, z, at) \in Bytes(DataBlock(encoder))
             /\ ExtractBlock(encoder, alone(z), at) = ExtractBlock(encoder, z, at)
  <2>1. BlockIsKept(encoder, n, z, at, data)
    <3>. HIDE DEF data
    <3> QED BY <1>1, EncodersKeepContract DEF EncoderContract, PictureTypes
  <2>2. DOMAIN z = 0..(n - 1)
    BY DEF Bytes
  <2>. HIDE DEF data
  <2> QED BY <2>1, <2>2, Zenon DEF BlockIsKept
<1>3. alone(x) = alone(y)
  OBVIOUS
<1>. HIDE DEF alone
<1> QED BY <1>2, <1>3

\* What Embed does to a block of a buffer.
LEMMA EmbedChangesBlock ==
    ASSUME PictureTypes, NEW n \in Nat, NEW x \in Bytes(n),
           NEW at \in 0..(n - CodewordBlock(encoder)), NEW data \in Bytes(DataBlock(encoder))
    PROVE  LET new == EmbedBlock(encoder, x, at, data)
           IN  /\ new \in Bytes(n)
               /\ \A i \in 0..(n - 1) : i \notin BlockAt(encoder, at) => new[i] = x[i]
               /\ ExtractBlock(encoder, new, at) = data
               /\ data = ExtractBlock(encoder, x, at) => new = x
<1>1. BlockIsKept(encoder, n, x, at, data)
  BY EncodersKeepContract DEF EncoderContract, PictureTypes
<1>2. DOMAIN x = 0..(n - 1)
  BY DEF Bytes
<1> QED BY <1>1, <1>2, Zenon DEF BlockIsKept

\* Where a byte of the share is: in which block, and where in it.
LEMMA Blockwise ==
    ASSUME PictureTypes, NEW n, n = DataBlock(encoder)
    PROVE  /\ \A i \in 0..(ShareSize(encoder, Bits) - 1) :
                  /\ i \div n \in 0..(BlockCount - 1) /\ i % n \in 0..(n - 1)
                  /\ i = (i \div n) * n + (i % n)
           /\ \A b \in 0..(BlockCount - 1) : \A j \in 0..(n - 1) :
                  /\ b * n + j \in 0..(ShareSize(encoder, Bits) - 1)
                  /\ (b * n + j) \div n = b /\ (b * n + j) % n = j
<1>1. n \in Nat \ {0} /\ BlockCount \in Nat /\ ShareSize(encoder, Bits) = BlockCount * n
  BY BlocksFit
<1>2. ASSUME NEW i \in 0..(ShareSize(encoder, Bits) - 1)
      PROVE  /\ i \div n \in 0..(BlockCount - 1) /\ i % n \in 0..(n - 1)
             /\ i = (i \div n) * n + (i % n)
  <2>1. PICK q, r : q = i \div n /\ r = i % n
    OBVIOUS
  <2>0. i \in Nat
    OBVIOUS
  <2>2. q \in Int /\ r \in 0..(n - 1) /\ i = q * n + r
    <3>1. \A m \in Nat \ {0} : /\ i % m \in 0..(m - 1) /\ i \div m \in Int
                               /\ i = (i \div m) * m + (i % m)
      BY <2>0, Division
    <3> QED BY <1>1, <2>1, <3>1
  <2>4. q >= 0
    BY <1>1, <2>0, <2>1
  <2>3. ASSUME q >= BlockCount PROVE FALSE
    <3>1. PICK d \in Nat : q = BlockCount + d
      <4>1. q - BlockCount \in Nat /\ q = BlockCount + (q - BlockCount)
        BY <1>1, <2>2, <2>3
      <4> QED BY <4>1
    <3>2. q * n = BlockCount * n + d * n
      BY <1>1, <3>1
    <3>3. d * n \in Nat /\ BlockCount * n \in Nat
      BY <1>1
    <3> QED BY <1>1, <2>2, <3>2, <3>3
  <2> QED BY <1>1, <2>1, <2>2, <2>3, <2>4
<1>3. ASSUME NEW b \in 0..(BlockCount - 1), NEW j \in 0..(n - 1)
      PROVE  /\ b * n + j \in 0..(ShareSize(encoder, Bits) - 1)
             /\ (b * n + j) \div n = b /\ (b * n + j) % n = j
  <2>1. b * n \in Nat
    BY <1>1
  <2>2. PICK x \in Nat : x = b * n + j
    BY <1>1, <2>1
  <2>3. PICK q, r : q = x \div n /\ r = x % n
    OBVIOUS
  <2>4. q \in Int /\ r \in 0..(n - 1) /\ x = q * n + r
    <3>1. \A m \in Nat \ {0} : /\ x % m \in 0..(m - 1) /\ x \div m \in Int
                               /\ x = (x \div m) * m + (x % m)
      BY Division
    <3> QED BY <1>1, <2>3, <3>1
  <2>5. b * n + j = q * n + r /\ b \in Int
    BY <2>2, <2>4
  <2>6. b = q /\ j = r
    BY <1>1, <2>4, <2>5, DivisionUnique
  <2>7. x < BlockCount * n
    <3>1. PICK d \in Nat : BlockCount = b + 1 + d
      <4>1. BlockCount - b - 1 \in Nat /\ BlockCount = b + 1 + (BlockCount - b - 1)
        BY <1>1
      <4> QED BY <4>1
    <3>2. BlockCount * n = b * n + n + d * n
      BY <1>1, <3>1
    <3>3. d * n \in Nat
      BY <1>1
    <3> QED BY <1>1, <2>1, <2>2, <3>2, <3>3
  <2>8. BlockCount * n \in Nat
    BY <1>1
  <2> QED BY <1>1, <2>2, <2>3, <2>6, <2>7, <2>8
<1> QED BY <1>2, <1>3

\* A block of the share consists of bytes.
LEMMA BlockIsBytes ==
    ASSUME PictureTypes, NEW bytes \in Bytes(ShareSize(encoder, Bits)),
           NEW b \in 0..(BlockCount - 1)
    PROVE  BlockOf(bytes, b) \in Bytes(DataBlock(encoder))
<1>1. PICK n, s : n = DataBlock(encoder) /\ s = ShareSize(encoder, Bits)
  OBVIOUS
<1>2. \A j \in 0..(n - 1) : b * n + j \in 0..(s - 1)
  BY <1>1, Blockwise
<1>3. \A j \in 0..(n - 1) : bytes[b * n + j] \in 0..255
  BY <1>1, <1>2 DEF Bytes
<1>4. BlockOf(bytes, b) = [j \in 0..(n - 1) |-> bytes[b * n + j]]
  BY <1>1 DEF BlockOf
<1> QED BY <1>1, <1>3, <1>4 DEF Bytes

\* ExtractBuffer, byte by byte.
LEMMA ExtractBufferIs ==
    ASSUME PictureTypes, NEW buffer
    PROVE  ExtractBuffer(buffer) =
               [i \in 0..(ShareSize(encoder, Bits) - 1) |->
                   ExtractBlock(encoder, buffer, (i \div DataBlock(encoder)) * CodewordBlock(encoder))
                       [i % DataBlock(encoder)]]
<1>. DEFINE size == DataBlock(encoder)
            value(b) == ExtractBlock(encoder, buffer, b * CodewordBlock(encoder))
            blocks == {<<b, value(b)>> : b \in 0..(BlockCount - 1)}
            bytes(b) == (CHOOSE pair \in blocks : pair[1] = b)[2]
            u(i) == bytes(i \div size)[i % size]
            v(i) == value(i \div size)[i % size]
<1>1. size \in Nat \ {0} /\ BlockCount \in Nat /\ ShareSize(encoder, Bits) = BlockCount * size
  BY BlocksFit
<1>2. ExtractBuffer(buffer) = [i \in 0..(ShareSize(encoder, Bits) - 1) |-> u(i)]
  BY DEF ExtractBuffer
<1>3. \A b \in 0..(BlockCount - 1) : bytes(b) = value(b)
  <2>. SUFFICES ASSUME NEW b \in 0..(BlockCount - 1)
                PROVE  bytes(b) = value(b)
    OBVIOUS
  <2>. DEFINE pair == CHOOSE r \in blocks : r[1] = b
  <2>1. \E r \in blocks : r[1] = b
    <3>. HIDE DEF value
    <3>1. <<b, value(b)>> \in blocks /\ <<b, value(b)>>[1] = b
      OBVIOUS
    <3> QED BY <3>1
  <2>2. pair \in blocks /\ pair[1] = b
    <3>. HIDE DEF blocks
    <3> QED BY <2>1, Zenon
  <2>3. bytes(b) = pair[2]
    OBVIOUS
  <2>. HIDE DEF pair, bytes
  <2>4. PICK c \in 0..(BlockCount - 1) : pair = <<c, value(c)>>
    <3>. HIDE DEF value
    <3> QED BY <2>2
  <2>. HIDE DEF value
  <2>5. pair[1] = c /\ pair[2] = value(c)
    BY <2>4
  <2> QED BY <2>2, <2>3, <2>5
<1>4. \A i \in 0..(ShareSize(encoder, Bits) - 1) : i \div size \in 0..(BlockCount - 1)
  <2>1. PICK n : n = DataBlock(encoder)
    OBVIOUS
  <2> QED BY <2>1, Blockwise
<1>. HIDE DEF bytes, value
<1>5. \A i \in 0..(ShareSize(encoder, Bits) - 1) : u(i) = v(i)
  BY <1>3, <1>4
<1>. HIDE DEF u, v
<1>6. ExtractBuffer(buffer) = [i \in 0..(ShareSize(encoder, Bits) - 1) |-> v(i)]
  BY <1>2, <1>5
<1> QED BY <1>6 DEF v, value

\* A block of what was extracted is what the encoder extracts.
LEMMA BlocksOfExtract ==
    ASSUME PictureTypes, NEW buffer \in Bytes(raw)
    PROVE  /\ ExtractBuffer(buffer) \in Bytes(ShareSize(encoder, Bits))
           /\ \A b \in 0..(BlockCount - 1) :
                  BlockOf(ExtractBuffer(buffer), b)
                      = ExtractBlock(encoder, buffer, b * CodewordBlock(encoder))
<1>1. PICK n, m, s : /\ n = DataBlock(encoder) /\ m = CodewordBlock(encoder)
                     /\ s = ShareSize(encoder, Bits)
  OBVIOUS
<1>. DEFINE value(b) == ExtractBlock(encoder, buffer, b * m)
<1>2. PICK bytes : bytes = ExtractBuffer(buffer)
  OBVIOUS
<1>3. bytes = [i \in 0..(s - 1) |-> value(i \div n)[i % n]]
  BY <1>1, <1>2, ExtractBufferIs, Zenon
<1>4. n \in Nat \ {0} /\ m \in Nat \ {0} /\ \A b \in 0..(BlockCount - 1) : b * m \in 0..(raw - m)
  BY <1>1, BlocksFit
<1>5. raw \in Nat
  BY OrderIsPermutation
<1>6. \A b \in 0..(BlockCount - 1) : value(b) \in [0..(n - 1) -> 0..255]
  <2>. SUFFICES ASSUME NEW b \in 0..(BlockCount - 1)
                PROVE  value(b) \in [0..(n - 1) -> 0..255]
    OBVIOUS
  <2>1. PICK at : at = b * m
    OBVIOUS
  <2>2. at \in 0..(raw - CodewordBlock(encoder))
    BY <1>1, <1>4, <2>1
  <2>3. ExtractBlock(encoder, buffer, at) \in Bytes(DataBlock(encoder))
    BY <1>5, <2>2, ExtractLooksAtBlock
  <2> QED BY <1>1, <2>1, <2>3 DEF Bytes
<1>7. /\ \A i \in 0..(s - 1) :
             i \div n \in 0..(BlockCount - 1) /\ i % n \in 0..(n - 1)
      /\ \A b \in 0..(BlockCount - 1) : \A j \in 0..(n - 1) :
             /\ b * n + j \in 0..(s - 1)
             /\ (b * n + j) \div n = b /\ (b * n + j) % n = j
  BY <1>1, Blockwise
<1>. HIDE DEF value
<1>8. bytes \in Bytes(s)
  <2>. DEFINE u(i) == value(i \div n)[i % n]
  <2>1. \A i \in 0..(s - 1) : u(i) \in 0..255
    BY <1>6, <1>7
  <2>2. bytes = [i \in 0..(s - 1) |-> u(i)]
    BY <1>3
  <2>. HIDE DEF u
  <2> QED BY <2>1, <2>2 DEF Bytes
<1>9. ASSUME NEW b \in 0..(BlockCount - 1)
      PROVE  BlockOf(bytes, b) = value(b)
  <2>1. \A j \in 0..(n - 1) : bytes[b * n + j] = value(b)[j]
    BY <1>3, <1>7
  <2>2. BlockOf(bytes, b) = [j \in 0..(n - 1) |-> bytes[b * n + j]]
    BY <1>1 DEF BlockOf
  <2>3. value(b) = [j \in 0..(n - 1) |-> value(b)[j]]
    BY <1>6
  <2> QED BY <2>1, <2>2, <2>3
<1> QED BY <1>1, <1>2, <1>8, <1>9 DEF value

\* Bytes whose blocks are those of what is extracted are what is extracted.
LEMMA SameBlocks ==
    ASSUME PictureTypes, NEW buffer \in Bytes(raw),
           NEW bytes \in Bytes(ShareSize(encoder, Bits)),
           \A b \in 0..(BlockCount - 1) :
               ExtractBlock(encoder, buffer, b * CodewordBlock(encoder)) = BlockOf(bytes, b)
    PROVE  ExtractBuffer(buffer) = bytes
<1>1. PICK n, m, s : /\ n = DataBlock(encoder) /\ m = CodewordBlock(encoder)
                     /\ s = ShareSize(encoder, Bits)
  OBVIOUS
<1>. DEFINE value(b) == ExtractBlock(encoder, buffer, b * m)
            u(i) == value(i \div n)[i % n]
<1>2. ExtractBuffer(buffer) = [i \in 0..(s - 1) |-> u(i)]
  BY <1>1, ExtractBufferIs, Zenon
<1>3. \A i \in 0..(s - 1) : /\ i \div n \in 0..(BlockCount - 1) /\ i % n \in 0..(n - 1)
                            /\ i = (i \div n) * n + (i % n)
  BY <1>1, Blockwise
<1>4. \A b \in 0..(BlockCount - 1) : value(b) = BlockOf(bytes, b)
  BY <1>1
<1>5. \A i \in 0..(s - 1) : u(i) = bytes[i]
  <2>. SUFFICES ASSUME NEW i \in 0..(s - 1)
                PROVE  u(i) = bytes[i]
    OBVIOUS
  <2>1. PICK q, r : q = i \div n /\ r = i % n
    OBVIOUS
  <2>2. q \in 0..(BlockCount - 1) /\ r \in 0..(n - 1) /\ i = q * n + r
    BY <1>3, <2>1
  <2>. HIDE DEF value
  <2>3. u(i) = value(q)[r]
    BY <2>1
  <2>4. BlockOf(bytes, q)[r] = bytes[q * n + r]
    BY <1>1, <2>2 DEF BlockOf
  <2> QED BY <1>4, <2>2, <2>3, <2>4
<1>. HIDE DEF u
<1>6. bytes = [i \in 0..(s - 1) |-> bytes[i]]
  BY <1>1 DEF Bytes
<1> QED BY <1>2, <1>5, <1>6

\* The loop of EmbedBuffer, for a function g of the number of turns.
EmbedBody(buffer, bytes, g, b) ==
    IF b = 0 THEN buffer
    ELSE EmbedBlock(encoder, g[b - 1], (b - 1) * CodewordBlock(encoder), BlockOf(bytes, b - 1))

EmbedStep(buffer, bytes, n, g) == [b \in 0..n |-> EmbedBody(buffer, bytes, g, b)]

\* There is a function that the loop leads to itself.
LEMMA EmbedExists ==
    ASSUME NEW buffer, NEW bytes, NEW n \in Nat
    PROVE  \E g : g = EmbedStep(buffer, bytes, n, g)
<1>. DEFINE Exists(m) == \E g : g = EmbedStep(buffer, bytes, m, g)
            Failing == {m \in Nat : ~Exists(m)}
<1>1. Exists(0)
  <2>. DEFINE g == [b \in 0..0 |-> buffer]
  <2>1. \A b \in 0..0 : EmbedBody(buffer, bytes, g, b) = buffer
    BY DEF EmbedBody
  <2>2. g = EmbedStep(buffer, bytes, 0, g)
    BY <2>1 DEF EmbedStep
  <2>. HIDE DEF g
  <2> QED BY <2>2
<1>2. ASSUME NEW m \in Nat \ {0}, Exists(m - 1)
      PROVE  Exists(m)
  <2>1. PICK g : g = EmbedStep(buffer, bytes, m - 1, g)
    BY <1>2
  <2>. DEFINE f == [b \in 0..m |-> EmbedBody(buffer, bytes, g, b)]
  <2>2. \A b \in 0..(m - 1) : g[b] = f[b]
    BY <2>1 DEF EmbedStep
  <2>3. \A b \in 0..m : EmbedBody(buffer, bytes, g, b) = EmbedBody(buffer, bytes, f, b)
    <3>. HIDE DEF f
    <3>1. \A b \in 0..m : b # 0 => g[b - 1] = f[b - 1]
      BY <2>2
    <3> QED BY <3>1, Zenon DEF EmbedBody
  <2>4. f = EmbedStep(buffer, bytes, m, f)
    <3>. DEFINE u(b) == EmbedBody(buffer, bytes, g, b)
                v(b) == EmbedBody(buffer, bytes, f, b)
    <3>1. \A b \in 0..m : u(b) = v(b)
      BY <2>3
    <3>2. f = [b \in 0..m |-> u(b)]
      OBVIOUS
    <3>3. EmbedStep(buffer, bytes, m, f) = [b \in 0..m |-> v(b)]
      BY DEF EmbedStep
    <3>. HIDE DEF u, v, f
    <3> QED BY <3>1, <3>2, <3>3
  <2>. HIDE DEF f
  <2> QED BY <2>4
<1>3. Failing = {}
  <2>. SUFFICES ASSUME Failing # {} PROVE FALSE
    OBVIOUS
  <2>1. Failing \in SUBSET Nat
    OBVIOUS
  <2>2. PICK m \in Failing : \A l \in Failing : m <= l
    <3>. HIDE DEF Failing
    <3> QED BY <2>1, LeastElement
  <2>3. m \in Nat /\ ~Exists(m) /\ \A l \in 0..(m - 1) : Exists(l)
    <3>. HIDE DEF Exists
    <3> QED BY <2>2
  <2>. HIDE DEF Exists
  <2>4. m # 0
    BY <1>1, <2>3
  <2>5. Exists(m - 1)
    BY <2>3, <2>4
  <2> QED BY <1>2, <2>3, <2>4, <2>5
<1>. HIDE DEF Exists
<1>4. Exists(n)
  BY <1>3
<1>. USE DEF Exists
<1> QED BY <1>4

\* What EmbedBuffer computes: the turns, one after the other.
LEMMA EmbedTurns ==
    ASSUME PictureTypes, NEW buffer, NEW bytes
    PROVE  \E g : /\ EmbedBuffer(buffer, bytes) = g[BlockCount] /\ g[0] = buffer
                  /\ \A b \in 1..BlockCount :
                         g[b] = EmbedBlock(encoder, g[b - 1], (b - 1) * CodewordBlock(encoder),
                                           BlockOf(bytes, b - 1))
<1>. DEFINE g == CHOOSE f : f = EmbedStep(buffer, bytes, BlockCount, f)
<1>1. BlockCount \in Nat
  BY BlocksFit
<1>2. g = EmbedStep(buffer, bytes, BlockCount, g)
  BY <1>1, EmbedExists
<1>3. EmbedBuffer(buffer, bytes) = g[BlockCount]
  BY DEF EmbedBuffer, EmbedStep, EmbedBody
<1>. HIDE DEF g
<1>4. \A b \in 0..BlockCount : g[b] = EmbedBody(buffer, bytes, g, b)
  BY <1>2 DEF EmbedStep
<1>5. g[0] = buffer
  BY <1>1, <1>4 DEF EmbedBody
<1>6. \A b \in 1..BlockCount : b \in 0..BlockCount /\ b # 0
  BY <1>1
<1>7. \A b \in 1..BlockCount :
          g[b] = EmbedBlock(encoder, g[b - 1], (b - 1) * CodewordBlock(encoder),
                            BlockOf(bytes, b - 1))
  BY <1>4, <1>6, Zenon DEF EmbedBody
<1> QED BY <1>3, <1>5, <1>7

\* The block at byte "at" is what the encoder makes of what was there before.
Embedded(new, old, at, data) ==
    \E x \in Bytes(raw) :
        \A i \in BlockAt(encoder, at) :
            x[i] = old[i] /\ new[i] = EmbedBlock(encoder, x, at, data)[i]

\* The turns of EmbedBuffer: each puts one block of the bytes where it belongs,
\* and leaves the others as they are.
LEMMA EmbedKeepsBlocks ==
    ASSUME PictureTypes, NEW buffer \in Bytes(raw),
           NEW bytes \in Bytes(ShareSize(encoder, Bits)),
           NEW g, g[0] = buffer,
           \A b \in 1..BlockCount :
               g[b] = EmbedBlock(encoder, g[b - 1], (b - 1) * CodewordBlock(encoder),
                                 BlockOf(bytes, b - 1))
    PROVE  /\ g[BlockCount] \in Bytes(raw)
           /\ \A i \in 0..(raw - 1) :
                  i >= BlockCount * CodewordBlock(encoder) => g[BlockCount][i] = buffer[i]
           /\ \A c \in 0..(BlockCount - 1) :
                  /\ ExtractBlock(encoder, g[BlockCount], c * CodewordBlock(encoder))
                         = BlockOf(bytes, c)
                  /\ Embedded(g[BlockCount], buffer, c * CodewordBlock(encoder), BlockOf(bytes, c))
           /\ bytes = ExtractBuffer(buffer) => g[BlockCount] = buffer
<1>1. PICK n, m, s : /\ n = DataBlock(encoder) /\ m = CodewordBlock(encoder)
                     /\ s = ShareSize(encoder, Bits)
  OBVIOUS
<1>2. /\ n \in Nat \ {0} /\ m \in Nat \ {0} /\ BlockCount \in Nat
      /\ \A b \in 0..(BlockCount - 1) : b * m \in 0..(raw - m) /\ (b + 1) * m = b * m + m
      /\ \A b \in 0..(BlockCount - 1) : \A j \in 0..(n - 1) : b * n + j \in 0..(s - 1)
  BY <1>1, BlocksFit, Blockwise
<1>3. raw \in Nat
  BY OrderIsPermutation
<1>. DEFINE Typed(b) == g[b] \in Bytes(raw)
            Beyond(b) == \A i \in 0..(raw - 1) : i >= b * m => g[b][i] = buffer[i]
            Found(b) == \A c \in 0..(b - 1) :
                            ExtractBlock(encoder, g[b], c * m) = BlockOf(bytes, c)
            Made(b) == \A c \in 0..(b - 1) : Embedded(g[b], buffer, c * m, BlockOf(bytes, c))
            Silent(b) == bytes = ExtractBuffer(buffer) => g[b] = buffer
            Correct(b) == Typed(b) /\ Beyond(b) /\ Found(b) /\ Made(b) /\ Silent(b)
            Failing == {b \in 0..BlockCount : ~Correct(b)}
<1>4. Correct(0)
  OBVIOUS
<1>5. ASSUME NEW b \in 0..(BlockCount - 1), Correct(b)
      PROVE  Correct(b + 1)
  <2>1. PICK at, data, old, new : /\ at = b * m /\ data = BlockOf(bytes, b)
                                  /\ old = g[b] /\ new = g[b + 1]
    OBVIOUS
  <2>2. at \in 0..(raw - m) /\ (b + 1) * m = at + m /\ b + 1 \in 1..BlockCount
    <3>1. b * m \in 0..(raw - m) /\ (b + 1) * m = b * m + m
      BY <1>2
    <3>2. BlockCount \in Nat
      BY <1>2
    <3>3. b + 1 \in 1..BlockCount
      BY <3>2
    <3> QED BY <2>1, <3>1, <3>3
  <2>3. new = EmbedBlock(encoder, old, at, data)
    <3>1. (b + 1) - 1 = b
      OBVIOUS
    <3>2. g[b + 1] = EmbedBlock(encoder, g[b], b * CodewordBlock(encoder), BlockOf(bytes, b))
      BY <2>2, <3>1
    <3> QED BY <1>1, <2>1, <3>2
  <2>4. data \in Bytes(n)
    BY <1>1, <2>1, BlockIsBytes
  <2>5. old \in Bytes(raw)
    BY <1>5, <2>1
  <2>6. /\ new \in Bytes(raw)
        /\ \A i \in 0..(raw - 1) : i \notin BlockAt(encoder, at) => new[i] = old[i]
        /\ ExtractBlock(encoder, new, at) = data
        /\ data = ExtractBlock(encoder, old, at) => new = old
    BY <1>1, <1>3, <2>2, <2>3, <2>4, <2>5, EmbedChangesBlock
  <2>7. BlockAt(encoder, at) = at..(at + m - 1)
    BY <1>1 DEF BlockAt
  <2>8. Typed(b + 1)
    BY <2>1, <2>6
  <2>9. Beyond(b + 1)
    <3>1. \A i \in 0..(raw - 1) : i >= at => old[i] = buffer[i]
      BY <1>5, <2>1
    <3>2. \A i \in 0..(raw - 1) : i >= at + m => i \notin BlockAt(encoder, at) /\ i >= at
      BY <1>2, <2>2, <2>7
    <3> QED BY <2>1, <2>2, <2>6, <3>1, <3>2
  <2>10. Found(b + 1) /\ Made(b + 1)
    <3>. SUFFICES ASSUME NEW c \in 0..b
                  PROVE  /\ ExtractBlock(encoder, new, c * m) = BlockOf(bytes, c)
                         /\ Embedded(new, buffer, c * m, BlockOf(bytes, c))
      <4>1. \A c \in 0..((b + 1) - 1) : c \in 0..b
        OBVIOUS
      <4> QED BY <2>1, <4>1, Zenon
    <3>1. CASE c = b
      <4>1. \A i \in BlockAt(encoder, at) :
                old[i] = buffer[i] /\ new[i] = EmbedBlock(encoder, old, at, data)[i]
        <5>1. \A i \in 0..(raw - 1) : i >= at => old[i] = buffer[i]
          BY <1>5, <2>1
        <5>2. \A i \in BlockAt(encoder, at) : i \in 0..(raw - 1) /\ i >= at
          BY <1>2, <1>3, <2>2, <2>7
        <5> QED BY <2>3, <5>1, <5>2
      <4>2. Embedded(new, buffer, at, data)
        BY <2>5, <4>1, Zenon DEF Embedded
      <4> QED BY <2>1, <2>6, <3>1, <4>2
    <3>2. CASE c < b
      <4>1. PICK from : from = c * m
        OBVIOUS
      <4>2. from \in 0..(raw - m) /\ from + m <= at
        <5>1. PICK d \in Nat : b = c + 1 + d
          <6>1. b - c - 1 \in Nat /\ b = c + 1 + (b - c - 1)
            BY <3>2
          <6> QED BY <6>1
        <5>2. b * m = c * m + m + d * m
          BY <1>2, <5>1
        <5>3. d * m \in Nat
          BY <1>2
        <5>4. c \in 0..(BlockCount - 1)
          BY <1>2, <3>2
        <5>5. c * m \in 0..(raw - m)
          BY <1>2, <5>4
        <5> QED BY <1>2, <2>1, <4>1, <5>2, <5>3, <5>5
      <4>3. \A i \in BlockAt(encoder, from) : new[i] = old[i]
        <5>1. BlockAt(encoder, from) = from..(from + m - 1)
          BY <1>1 DEF BlockAt
        <5>2. \A i \in from..(from + m - 1) : i \in 0..(raw - 1) /\ i \notin at..(at + m - 1)
          BY <1>2, <1>3, <2>2, <4>2
        <5> QED BY <2>6, <2>7, <5>1, <5>2
      <4>4. ExtractBlock(encoder, new, from) = ExtractBlock(encoder, old, from)
        BY <1>1, <1>3, <2>5, <2>6, <4>2, <4>3, ExtractLooksAtBlock
      <4>5. c \in 0..(b - 1)
        BY <3>2
      <4>6. ExtractBlock(encoder, old, from) = BlockOf(bytes, c)
        BY <1>5, <2>1, <4>1, <4>5
      <4>7. PICK x \in Bytes(raw) :
                \A i \in BlockAt(encoder, from) :
                    /\ x[i] = buffer[i]
                    /\ old[i] = EmbedBlock(encoder, x, from, BlockOf(bytes, c))[i]
        BY <1>5, <2>1, <4>1, <4>5, Zenon DEF Embedded
      <4>8. \A i \in BlockAt(encoder, from) :
                /\ x[i] = buffer[i]
                /\ new[i] = EmbedBlock(encoder, x, from, BlockOf(bytes, c))[i]
        BY <4>3, <4>7, Zenon
      <4>9. Embedded(new, buffer, from, BlockOf(bytes, c))
        BY <4>8, Zenon DEF Embedded
      <4> QED BY <4>1, <4>4, <4>6, <4>9
    <3> QED BY <3>1, <3>2
  <2>11. Silent(b + 1)
    <3>. SUFFICES ASSUME bytes = ExtractBuffer(buffer)
                  PROVE  new = buffer
      BY <2>1
    <3>1. old = buffer
      BY <1>5, <2>1
    <3>2. data = ExtractBlock(encoder, buffer, at)
      BY <1>1, <2>1, BlocksOfExtract
    <3> QED BY <2>6, <3>1, <3>2
  <2>. HIDE DEF Typed, Beyond, Found, Made, Silent
  <2> QED BY <2>8, <2>9, <2>10, <2>11
<1>6. Failing = {}
  <2>. SUFFICES ASSUME Failing # {} PROVE FALSE
    OBVIOUS
  <2>1. Failing \in SUBSET Nat
    <3>. HIDE DEF Correct
    <3> QED OBVIOUS
  <2>2. PICK b \in Failing : \A c \in Failing : b <= c
    <3>. HIDE DEF Failing
    <3> QED BY <2>1, LeastElement
  <2>3. b \in 0..BlockCount /\ ~Correct(b) /\ \A c \in 0..(b - 1) : Correct(c)
    <3>1. BlockCount \in Nat
      BY <1>2
    <3>. HIDE DEF Correct
    <3> QED BY <2>2, <3>1
  <2>. HIDE DEF Correct
  <2>4. b # 0
    BY <1>4, <2>3
  <2>5. PICK c : c = b - 1
    OBVIOUS
  <2>6. c \in 0..(BlockCount - 1) /\ b = c + 1 /\ c \in 0..(b - 1)
    BY <1>2, <2>3, <2>4, <2>5
  <2> QED BY <1>5, <2>3, <2>6
<1>. HIDE DEF Correct
<1>7. Correct(BlockCount)
  BY <1>2, <1>6
<1>. USE DEF Correct
<1>8. /\ Typed(BlockCount) /\ Beyond(BlockCount) /\ Found(BlockCount) /\ Made(BlockCount)
      /\ Silent(BlockCount)
  <2>. HIDE DEF Typed, Beyond, Found, Made, Silent
  <2> QED BY <1>7
<1> QED BY <1>1, <1>8

\* What was embedded is what is extracted, in a buffer whose other bits are as
\* before; and embedding what is there changes nothing.
LEMMA BytesComeBack ==
    ASSUME PictureTypes, NEW buffer \in Bytes(raw),
           NEW bytes \in Bytes(ShareSize(encoder, Bits))
    PROVE  LET new == EmbedBuffer(buffer, bytes)
           IN  /\ new \in Bytes(raw) /\ ExtractBuffer(new) = bytes
               /\ \A p \in Bits..(raw * 8 - 1) :
                      GetBitInBufferPermuted(new, p) = GetBitInBufferPermuted(buffer, p)
               /\ \A c \in 0..(BlockCount - 1) :
                      Embedded(new, buffer, c * CodewordBlock(encoder), BlockOf(bytes, c))
               /\ \A i \in 0..(raw - 1) :
                      i >= BlockCount * CodewordBlock(encoder) => new[i] = buffer[i]
               /\ bytes = ExtractBuffer(buffer) => new = buffer
<1>1. PICK m, new : m = CodewordBlock(encoder) /\ new = EmbedBuffer(buffer, bytes)
  OBVIOUS
<1>2. PICK g : /\ EmbedBuffer(buffer, bytes) = g[BlockCount] /\ g[0] = buffer
               /\ \A b \in 1..BlockCount :
                      g[b] = EmbedBlock(encoder, g[b - 1], (b - 1) * CodewordBlock(encoder),
                                        BlockOf(bytes, b - 1))
  BY EmbedTurns
<1>3. /\ new \in Bytes(raw)
      /\ \A i \in 0..(raw - 1) : i >= BlockCount * m => new[i] = buffer[i]
      /\ \A c \in 0..(BlockCount - 1) :
             /\ ExtractBlock(encoder, new, c * CodewordBlock(encoder)) = BlockOf(bytes, c)
             /\ Embedded(new, buffer, c * CodewordBlock(encoder), BlockOf(bytes, c))
      /\ bytes = ExtractBuffer(buffer) => new = buffer
  <2>1. /\ g[BlockCount] \in Bytes(raw)
        /\ \A i \in 0..(raw - 1) :
               i >= BlockCount * CodewordBlock(encoder) => g[BlockCount][i] = buffer[i]
        /\ \A c \in 0..(BlockCount - 1) :
               /\ ExtractBlock(encoder, g[BlockCount], c * CodewordBlock(encoder))
                      = BlockOf(bytes, c)
               /\ Embedded(g[BlockCount], buffer, c * CodewordBlock(encoder), BlockOf(bytes, c))
        /\ bytes = ExtractBuffer(buffer) => g[BlockCount] = buffer
    BY <1>2, EmbedKeepsBlocks
  <2> QED BY <1>1, <1>2, <2>1
<1>4. ExtractBuffer(new) = bytes
  BY <1>3, SameBlocks
<1>5. \A p \in Bits..(raw * 8 - 1) :
          GetBitInBufferPermuted(new, p) = GetBitInBufferPermuted(buffer, p)
  <2>. SUFFICES ASSUME NEW p \in Bits..(raw * 8 - 1)
                PROVE  GetBitInBufferPermuted(new, p) = GetBitInBufferPermuted(buffer, p)
    OBVIOUS
  <2>1. PICK b, k : b = p \div 8 /\ k = BlockCount * m
    OBVIOUS
  <2>2. raw \in Nat /\ Bits \in Nat /\ k \in Nat /\ k * 8 <= Bits
    BY <1>1, <2>1, BlocksFit, OrderIsPermutation
  <2>3. b \in 0..(raw - 1) /\ b >= k
    BY <2>1, <2>2
  <2>4. new[b] = buffer[b]
    BY <1>3, <2>1, <2>3
  <2> QED BY <2>1, <2>4 DEF GetBitInBufferPermuted
<1> QED BY <1>1, <1>3, <1>4, <1>5

-----------------------------------------------------------------------------
(* The carrier.                                                            *)

\* A picture before anything happens.
LEMMA InitPicture == Init => PictureInv
<1>. SUFFICES ASSUME Init PROVE PictureInv
  OBVIOUS
<1>1. first \in Seq(Int)
  BY SamplesAssumption DEF Init
<1>2. PictureTypes /\ SamplesInv
  BY <1>1 DEF Init, PictureTypes, SamplesInv
<1>3. ShareInv
  BY DEF Init, ShareInv
<1> QED BY <1>2, <1>3 DEF PictureInv

\* The permutation and the sizes stay those of the picture.
LEMMA SameOrder ==
    ASSUME UNCHANGED <<encoder, format, key, raw>>
    PROVE  /\ ShareSize(encoder, Bits)' = ShareSize(encoder, Bits)
           /\ ExtractBuffer(Buffer(disk))' = ExtractBuffer(Buffer(disk'))
<1>1. Order' = Order
  BY DEF Order
<1>2. Bits' = Bits
  BY <1>1 DEF Bits
<1>3. BlockCount' = BlockCount
  BY <1>2 DEF BlockCount
<1>4. Buffer(disk)' = Buffer(disk')
  BY <1>1 DEF Buffer
<1> QED BY <1>2, <1>3, <1>4 DEF ExtractBuffer

\* A step keeps the samples apart from lowest bits.
LEMMA StepKeepsSamples == PictureTypes /\ SamplesInv /\ [Next]_vars => (PictureTypes /\ SamplesInv)'
<1>. SUFFICES ASSUME PictureTypes, SamplesInv, [Next]_vars
              PROVE  (PictureTypes /\ SamplesInv)'
  OBVIOUS
<1>1. CASE LoadFile
  BY <1>1 DEF LoadFile, PictureTypes, SamplesInv
<1>2. CASE SaveFile
  <2>1. PICK buffer : disk' = WithBuffer(disk, buffer)
    BY <1>2 DEF SaveFile
  <2>2. /\ disk' \in Seq(Int) /\ DOMAIN disk' = DOMAIN first
        /\ \A s \in DOMAIN first :
               /\ disk'[s] \div 2 = first[s] \div 2
               /\ format = "jpeg" /\ first[s] \in {0, 1} => disk'[s] = first[s]
    BY <2>1, WithBufferKeepsSamples
  <2>3. UNCHANGED <<encoder, format, key, first, raw>>
    BY <1>2 DEF SaveFile
  <2> QED BY <2>2, <2>3 DEF PictureTypes, SamplesInv
<1>3. CASE Construct
  <2>1. raw' = RawCapacity(format, disk) /\ UNCHANGED <<encoder, format, key, first, disk>>
    BY <1>3 DEF Construct
  <2>2. Slots(format, disk) = Slots(format, first)
    BY SameSlots
  <2>3. raw' = RawCapacity(format, first)
    BY <2>1, <2>2 DEF RawCapacity
  <2> QED BY <2>1, <2>3 DEF PictureTypes, SamplesInv
<1>4. ASSUME NEW bytes \in Messages(ShareSize(encoder, Bits)), WriteContent(bytes)
      PROVE  (PictureTypes /\ SamplesInv)'
  BY <1>4 DEF WriteContent, PictureTypes, SamplesInv
<1>5. CASE UNCHANGED vars
  BY <1>5 DEF vars, PictureTypes, SamplesInv
<1> QED BY <1>1, <1>2, <1>3, <1>4, <1>5 DEF Next

\* The samples, in all behaviours.
LEMMA SamplesStay == Spec => [](PictureTypes /\ SamplesInv)
<1>1. Init => PictureTypes /\ SamplesInv
  BY InitPicture DEF PictureInv
<1> QED BY <1>1, StepKeepsSamples, PTL DEF Spec

\* Which samples take bits stays as it was in the beginning, and nothing but their
\* lowest bits changes: with any local permutation.
THEOREM SlotsAreKept == Spec => []SlotsStay
<1>1. PictureTypes /\ SamplesInv => SlotsStay
  <2>. SUFFICES ASSUME PictureTypes, SamplesInv PROVE SlotsStay
    OBVIOUS
  <2>1. raw = RawCapacity(format, first) /\ Slots(format, disk) = Slots(format, first)
    BY SameSlots DEF PictureTypes
  <2> QED BY <2>1 DEF SlotsStay, SamplesInv
<1> QED BY <1>1, SamplesStay, PTL

-----------------------------------------------------------------------------
(* The share.                                                              *)

\* LoadFile finds what was saved.
LEMMA LoadFileKeepsShare ==
    ASSUME PictureInv, LoadFile
    PROVE  ShareInv' /\ (saved # None => content' = saved)
<1>. USE DEF PictureInv
<1>1. /\ content' = ExtractBuffer(Buffer(disk)) /\ carried' = content'
      /\ UNCHANGED <<encoder, format, key, disk, raw, saved>>
  BY DEF LoadFile
<1>2. Buffer(disk) \in Bytes(raw)
  BY BufferIsBytes
<1>3. ExtractBuffer(Buffer(disk)) \in Bytes(ShareSize(encoder, Bits))
  BY <1>2, BlocksOfExtract
<1>4. /\ ShareSize(encoder, Bits)' = ShareSize(encoder, Bits)
      /\ ExtractBuffer(Buffer(disk))' = ExtractBuffer(Buffer(disk))
  BY <1>1, SameOrder
<1>5. Bytes(ShareSize(encoder, Bits))' = Bytes(ShareSize(encoder, Bits))
  BY <1>4 DEF Bytes
<1> QED BY <1>1, <1>3, <1>4, <1>5 DEF ShareInv

\* SaveFile writes what EmbedBuffer makes of the buffer of the picture.
LEMMA SaveWritesBuffer ==
    ASSUME PictureInv, SaveFile
    PROVE  /\ Buffer(disk) \in Bytes(raw) /\ content \in Bytes(ShareSize(encoder, Bits))
           /\ Buffer(disk') = EmbedBuffer(Buffer(disk), content)
<1>. USE DEF PictureInv
<1>. DEFINE buffer == Buffer(disk)
            new == EmbedBuffer(buffer, content)
<1>1. /\ content # None /\ disk' = WithBuffer(disk, new)
      /\ carried' = content /\ saved' = content
      /\ UNCHANGED <<encoder, format, key, raw, content>>
  BY DEF SaveFile
<1>2. buffer \in Bytes(raw) /\ content \in Bytes(ShareSize(encoder, Bits))
  BY <1>1, BufferIsBytes DEF ShareInv
<1>3. /\ new \in Bytes(raw)
      /\ \A p \in Bits..(raw * 8 - 1) :
             GetBitInBufferPermuted(new, p) = GetBitInBufferPermuted(buffer, p)
  <2>. HIDE DEF buffer
  <2> QED BY <1>2, BytesComeBack
<1>4. \A p \in Bits..(raw * 8 - 1) : GetBitInBufferPermuted(buffer, p) = 0
  <2>. SUFFICES ASSUME NEW p \in Bits..(raw * 8 - 1)
                PROVE  GetBitInBufferPermuted(buffer, p) = 0
    OBVIOUS
  <2>1. /\ raw \in Nat /\ Bits \in 0..(raw * 8) /\ DOMAIN Order = 0..(Bits - 1)
        /\ \A i \in 0..(Bits - 1) : Order[i] \in 0..(Bits - 1)
    BY OrderIsPermutation
  <2>2. p \in 0..(raw * 8 - 1) /\ p \notin 0..(Bits - 1)
    BY <2>1
  <2>3. GetBitInBufferPermuted(Buffer(disk), p) = IsOne(OnesOf(disk), p)
    BY <2>2, BitOfBuffer
  <2>4. p \notin OnesOf(disk)
    BY <2>1, <2>2 DEF OnesOf
  <2> QED BY <2>3, <2>4 DEF IsOne
<1>5. Buffer(disk') = new
  <2>. HIDE DEF buffer, new
  <2>1. \A p \in Bits..(raw * 8 - 1) : GetBitInBufferPermuted(new, p) = 0
    BY <1>3, <1>4
  <2>2. Buffer(WithBuffer(disk, new)) = new
    BY <1>3, <2>1, BufferComesBack
  <2> QED BY <1>1, <2>2
<1> QED BY <1>2, <1>5

\* SaveFile puts the share into the samples, and changes none if it was there.
LEMMA SaveFileKeepsShare ==
    ASSUME PictureInv, SaveFile
    PROVE  ShareInv' /\ (content = carried => disk' = disk)
<1>. USE DEF PictureInv
<1>. DEFINE buffer == Buffer(disk)
            new == EmbedBuffer(buffer, content)
<1>1. /\ content # None /\ disk' = WithBuffer(disk, new)
      /\ carried' = content /\ saved' = content
      /\ UNCHANGED <<encoder, format, key, raw, content>>
  BY DEF SaveFile
<1>2. /\ buffer \in Bytes(raw) /\ content \in Bytes(ShareSize(encoder, Bits))
      /\ Buffer(disk') = new
  BY SaveWritesBuffer
<1>3. /\ ExtractBuffer(new) = content
      /\ content = ExtractBuffer(buffer) => new = buffer
  <2>. HIDE DEF buffer
  <2> QED BY <1>2, BytesComeBack
<1>6. /\ ShareSize(encoder, Bits)' = ShareSize(encoder, Bits)
      /\ ExtractBuffer(Buffer(disk))' = ExtractBuffer(Buffer(disk'))
  BY <1>1, SameOrder
<1>7. Bytes(ShareSize(encoder, Bits))' = Bytes(ShareSize(encoder, Bits))
  BY <1>6 DEF Bytes
<1>8. ShareInv'
  <2>. HIDE DEF buffer, new
  <2>1. ExtractBuffer(Buffer(disk))' = content
    BY <1>2, <1>3, <1>6
  <2> QED BY <1>1, <1>2, <1>7, <2>1 DEF ShareInv
<1>9. ASSUME content = carried PROVE disk' = disk
  <2>1. content = ExtractBuffer(buffer)
    BY <1>1, <1>9 DEF ShareInv
  <2>2. new = buffer
    BY <1>3, <2>1
  <2>3. WithBuffer(disk, buffer) = disk
    BY SamplesComeBack
  <2>. HIDE DEF buffer, new
  <2> QED BY <1>1, <2>2, <2>3
<1> QED BY <1>8, <1>9

\* A new object, of the same size.
LEMMA ConstructKeepsShare ==
    ASSUME PictureInv, Construct
    PROVE  ShareInv'
<1>. USE DEF PictureInv
<1>1. /\ raw' = RawCapacity(format, disk) /\ content' = None /\ carried' = None
      /\ UNCHANGED <<encoder, format, key, disk, saved>>
  BY DEF Construct
<1>2. raw' = raw
  <2>1. Slots(format, disk) = Slots(format, first)
    BY SameSlots
  <2> QED BY <1>1, <2>1 DEF RawCapacity, PictureTypes
<1>3. ExtractBuffer(Buffer(disk))' = ExtractBuffer(Buffer(disk))
  BY <1>1, <1>2, SameOrder
<1> QED BY <1>1, <1>3 DEF ShareInv

\* What is written into the storage fits.
LEMMA WriteContentKeepsShare ==
    ASSUME PictureInv, NEW bytes \in Messages(ShareSize(encoder, Bits)), WriteContent(bytes)
    PROVE  ShareInv'
<1>. USE DEF PictureInv
<1>1. content' = bytes /\ UNCHANGED <<encoder, format, key, disk, raw, carried, saved>>
  BY DEF WriteContent
<1>2. bytes \in Bytes(ShareSize(encoder, Bits))
  BY OrderIsPermutation
<1>3. /\ ShareSize(encoder, Bits)' = ShareSize(encoder, Bits)
      /\ ExtractBuffer(Buffer(disk))' = ExtractBuffer(Buffer(disk))
  BY <1>1, SameOrder
<1>4. Bytes(ShareSize(encoder, Bits))' = Bytes(ShareSize(encoder, Bits))
  BY <1>3 DEF Bytes
<1> QED BY <1>1, <1>2, <1>3, <1>4 DEF ShareInv

\* All steps.
LEMMA StepKeepsPicture == PictureInv /\ [Next]_vars => PictureInv'
<1>. SUFFICES ASSUME PictureInv, [Next]_vars PROVE PictureInv'
  OBVIOUS
<1>1. (PictureTypes /\ SamplesInv)'
  BY StepKeepsSamples DEF PictureInv
<1>2. ShareInv'
  <2>1. CASE LoadFile
    BY <2>1, LoadFileKeepsShare
  <2>2. CASE SaveFile
    BY <2>2, SaveFileKeepsShare
  <2>3. CASE Construct
    BY <2>3, ConstructKeepsShare
  <2>4. ASSUME NEW bytes \in Messages(ShareSize(encoder, Bits)), WriteContent(bytes)
        PROVE  ShareInv'
    BY <2>4, WriteContentKeepsShare
  <2>5. CASE UNCHANGED vars
    <3>1. UNCHANGED <<encoder, format, key, disk, raw, content, carried, saved>>
      BY <2>5 DEF vars
    <3>2. /\ ShareSize(encoder, Bits)' = ShareSize(encoder, Bits)
          /\ ExtractBuffer(Buffer(disk))' = ExtractBuffer(Buffer(disk))
      BY <3>1, SameOrder
    <3>3. Bytes(ShareSize(encoder, Bits))' = Bytes(ShareSize(encoder, Bits))
      BY <3>2 DEF Bytes
    <3> QED BY <3>1, <3>2, <3>3 DEF PictureInv, ShareInv
  <2> QED BY <2>1, <2>2, <2>3, <2>4, <2>5 DEF Next
<1> QED BY <1>1, <1>2 DEF PictureInv

\* The invariant of a picture: the share that was loaded or saved is in its samples.
THEOREM PictureInvariant == Spec => []PictureInv
BY InitPicture, StepKeepsPicture, PTL DEF Spec

\* LoadFile of a new object gives the share that was saved last, with every encoder.
THEOREM LoadReadsWhatSaveWrote == Spec => RoundTrip
<1>1. PictureInv /\ [Next]_vars => [LoadFile /\ saved # None => content' = saved]_vars
  BY LoadFileKeepsShare
<1>2. Spec => []PictureInv
  BY PictureInvariant
<1> QED BY <1>1, <1>2, PTL DEF Spec, RoundTrip

\* A Save of what was just loaded or saved leaves every sample of the picture as it
\* is, with every encoder.
THEOREM SaveIsSilent == Spec => SilentSave
<1>1. PictureInv /\ [Next]_vars => [SaveFile /\ content = carried => disk' = disk]_vars
  BY SaveFileKeepsShare
<1>2. Spec => []PictureInv
  BY PictureInvariant
<1> QED BY <1>1, <1>2, PTL DEF Spec, SilentSave

-----------------------------------------------------------------------------
(* The codewords of a picture.                                             *)

\* The value of a codeword, digit by digit, is in the bits of the data.
LEMMA PictureCarriesValue ==
    ASSUME PictureInv, saved # None, encoder # 0,
           NEW b \in 0..(BlockCount - 1), NEW j \in 0..(CodewordsInBlock(encoder) - 1),
           NEW d \in 0..(encoder - 1)
    PROVE  Cardinality(SetPositions(Buffer(disk), b * CodewordBlock(encoder)
                                                    + j * CodewordBufferSize(encoder),
                                    1..TotalBits(encoder), d)) % 2
               = Bit(saved, b * DataBlock(encoder), j * encoder + encoder - d)
<1>. USE DEF PictureInv
<1>1. PICK k, n, c : k = encoder /\ n = DataBlockSize(encoder) /\ c = CodewordsInBlock(encoder)
  OBVIOUS
<1>2. /\ encoder \in 3..8 /\ k \in 3..8 /\ n \in 1..8 /\ c \in 1..8 /\ c * k = 8 * n
      /\ DataBlock(encoder) = n
  <2>1. encoder \in 3..8 /\ DataBlock(encoder) = n
    BY <1>1, BlockSizes DEF PictureTypes
  <2> QED BY <1>1, <2>1, Sizes
<1>3. PICK buffer, at, word : /\ buffer = Buffer(disk) /\ at = b * CodewordBlock(encoder)
                              /\ word = at + j * CodewordBufferSize(encoder)
  OBVIOUS
<1>4. PICK h : h = ComputeH(encoder, buffer, word)
  OBVIOUS
<1>5. Digit(h, d) = Cardinality(SetPositions(buffer, word, 1..TotalBits(encoder), d)) % 2
  <2>1. d \in 0..7
    BY <1>2
  <2> QED BY <1>2, <1>4, <2>1, ParityOfPositions
<1>6. PICK r, q : r = k - 1 - d /\ q = j * k + r
  OBVIOUS
<1>7. PICK data : data = BlockOf(saved, b)
  OBVIOUS
<1>8. BitAt(data, q) = Digit(h, d)
  <2>1. saved = ExtractBuffer(buffer) /\ buffer \in Bytes(raw)
    BY <1>3, BufferIsBytes DEF ShareInv
  <2>2. data = ExtractBlock(encoder, buffer, at)
    BY <1>3, <1>7, <2>1, BlocksOfExtract
  <2>3. data = Extract(encoder, buffer, at)
    BY <1>2, <2>2 DEF ExtractBlock
  <2>4. r \in 0..(encoder - 1) /\ encoder - 1 - r = d
    BY <1>1, <1>2, <1>6
  <2>5. BitAt(Extract(encoder, buffer, at), j * encoder + r)
            = Digit(ComputeH(encoder, buffer, at + j * CodewordBufferSize(encoder)),
                    encoder - 1 - r)
    BY <1>2, <2>4, ExtractedBits
  <2> QED BY <1>1, <1>3, <1>4, <1>6, <2>3, <2>4, <2>5
<1>9. q \in 0..(8 * n - 1) /\ (j * k + k - d) - 1 = q
  <2>1. PICK i \in Nat : c = j + 1 + i
    <3>1. c - j - 1 \in Nat /\ c = j + 1 + (c - j - 1)
      BY <1>1, <1>2
    <3> QED BY <3>1
  <2>2. c * k = j * k + k + i * k
    BY <1>2, <2>1
  <2>3. j * k \in Nat /\ i * k \in Nat
    BY <1>2
  <2>4. r \in 0..(k - 1) /\ d \in Nat
    BY <1>1, <1>2, <1>6
  <2> QED BY <1>2, <1>6, <2>2, <2>3, <2>4
<1>10. Bit(saved, b * n, j * k + k - d) = BitAt(data, q)
  <2>1. q \div 8 \in 0..(n - 1)
    BY <1>2, <1>9
  <2>2. data = [i \in 0..(n - 1) |-> saved[b * n + i]]
    BY <1>2, <1>7 DEF BlockOf
  <2>3. data[q \div 8] = saved[b * n + q \div 8]
    BY <2>1, <2>2
  <2>4. PICK p : p = j * k + k - d
    OBVIOUS
  <2>5. p - 1 = q
    BY <1>9, <2>4, Zenon
  <2>6. Bit(saved, b * n, p) = BitAt(data, q)
    BY <2>3, <2>5 DEF Bit, BitAt
  <2> QED BY <2>4, <2>6
<1> QED BY <1>1, <1>2, <1>3, <1>5, <1>8, <1>10

\* After a Save, every codeword of the picture has the syndrome that its value in
\* the share asks for, with every Hamming code and for all pictures and shares.
THEOREM CodewordsCarryValues == Spec => []SyndromeCarriesValue
<1>1. PictureInv => SyndromeCarriesValue
  <2>. SUFFICES ASSUME PictureInv, saved # None, encoder # 0,
                       NEW b \in 0..(BlockCount - 1),
                       NEW j \in 0..(CodewordsInBlock(encoder) - 1),
                       NEW d \in 0..(encoder - 1)
                PROVE  LET word == b * CodewordBlock(encoder) + j * CodewordBufferSize(encoder)
                           ones == {p \in 1..TotalBits(encoder) : Bit(Buffer(disk), word, p) = 1}
                       IN  Cardinality({p \in ones : Digit(p, d) = 1}) % 2
                               = Bit(saved, b * DataBlock(encoder), j * encoder + encoder - d)
    BY DEF SyndromeCarriesValue
  <2>1. PICK word, n : /\ word = b * CodewordBlock(encoder) + j * CodewordBufferSize(encoder)
                       /\ n = TotalBits(encoder)
    OBVIOUS
  <2>. DEFINE ones == {p \in 1..n : Bit(Buffer(disk), word, p) = 1}
  <2>2. {p \in ones : Digit(p, d) = 1} = SetPositions(Buffer(disk), word, 1..n, d)
    BY DEF SetPositions
  <2> QED BY <2>1, <2>2, PictureCarriesValue
<1> QED BY <1>1, PictureInvariant, PTL

\* A codeword of a block that the encoder made has changed in one bit at most.
LEMMA OneBitOfCodeword ==
    ASSUME PictureTypes, encoder # 0, NEW old \in Bytes(raw), NEW new \in Bytes(raw),
           NEW b \in 0..(BlockCount - 1), NEW data \in Bytes(DataBlock(encoder)),
           Embedded(new, old, b * CodewordBlock(encoder), data),
           NEW j \in 0..(CodewordsInBlock(encoder) - 1),
           NEW word, word = b * CodewordBlock(encoder) + j * CodewordBufferSize(encoder)
    PROVE  \E h \in 0..TotalBits(encoder) : \A p \in 1..(8 * CodewordBufferSize(encoder)) :
               p # h => Bit(new, word, p) = Bit(old, word, p)
<1>1. PICK k, at, m, w : /\ k = encoder /\ at = b * CodewordBlock(encoder)
                         /\ m = CodewordBlockSize(encoder) /\ w = CodewordBufferSize(encoder)
  OBVIOUS
<1>2. /\ k \in 3..8 /\ DataBlock(encoder) = DataBlockSize(k)
      /\ CodewordBlock(encoder) = CodewordBlockSize(k)
  BY <1>1, BlockSizes DEF PictureTypes
<1>3. w \in 1..32 /\ m \in Nat \ {0}
  BY <1>1, <1>2, Sizes
<1>4. raw \in Nat /\ at \in 0..(raw - CodewordBlockSize(k))
  BY <1>1, <1>2, BlocksFit, OrderIsPermutation
<1>5. at \in Nat
  BY <1>1, <1>3, <1>4
<1>6. PICK x \in Bytes(raw) :
          \A i \in BlockAt(encoder, at) :
              x[i] = old[i] /\ new[i] = EmbedBlock(encoder, x, at, data)[i]
  BY <1>1, Zenon DEF Embedded
<1>7. PICK y : y = Embed(k, x, at, data)
  OBVIOUS
<1>8. EmbedBlock(encoder, x, at, data) = y
  BY <1>1, <1>7 DEF EmbedBlock
<1>9. word \in Nat /\ word >= at /\ word + w <= at + m
  BY <1>1, <1>2, <1>5, WordsOfBlock
<1>10. \A i \in 0..(w - 1) : word + i \in BlockAt(encoder, at)
  <2>1. BlockAt(encoder, at) = at..(at + m - 1)
    BY <1>1, <1>2 DEF BlockAt
  <2> QED BY <1>3, <1>5, <1>9, <2>1
<1>11. SameCodeword(k, new, y, word) /\ SameCodeword(k, x, old, word)
  BY <1>1, <1>6, <1>8, <1>10 DEF SameCodeword
<1>12. word \in Nat
  BY <1>9
<1>13. \A p \in 1..(8 * CodewordBufferSize(k)) : Bit(new, word, p) = Bit(y, word, p)
  BY <1>2, <1>11, <1>12, SameBytes
<1>14. \A p \in 1..(8 * CodewordBufferSize(k)) : Bit(x, word, p) = Bit(old, word, p)
  BY <1>2, <1>11, <1>12, SameBytes
<1>15. BlockTakes(k, raw, x, at, data, y)
  <2>1. x \in [0..(raw - 1) -> 0..255] /\ data \in [0..(DataBlockSize(k) - 1) -> 0..255]
    BY <1>2 DEF Bytes
  <2> QED BY <1>2, <1>4, <1>7, <2>1, EmbedTakesBlock
<1>16. PICK h \in 0..TotalBits(k) : \A p \in 1..(8 * CodewordBufferSize(k)) :
           p # h => Bit(y, word, p) = Bit(x, word, p)
  <2>1. word = at + j * CodewordBufferSize(k) /\ j \in 0..(CodewordsInBlock(k) - 1)
    BY <1>1
  <2> QED BY <1>15, <2>1 DEF BlockTakes
<1>17. \A p \in 1..(8 * CodewordBufferSize(k)) : p # h => Bit(new, word, p) = Bit(old, word, p)
  BY <1>13, <1>14, <1>16
<1> QED BY <1>1, <1>17

\* A set of numbers that are all the same has no more than one.
LEMMA AtMostOne ==
    ASSUME NEW S, NEW h, S \subseteq {h}
    PROVE  Cardinality(S) <= 1
<1>1. S = {} \/ S = {h}
  OBVIOUS
<1>2. CASE S = {}
  <2>1. Cardinality(S) = 0
    BY <1>2, FS_EmptySet
  <2> QED BY <2>1
<1>3. CASE S = {h}
  <2>1. Cardinality(S) = 1
    BY <1>3, FS_Singleton
  <2> QED BY <2>1
<1> QED BY <1>1, <1>2, <1>3

\* The codewords of all blocks lie one after the other.
LEMMA WordsInARow ==
    ASSUME PictureTypes, encoder # 0,
           NEW i \in 0..(BlockCount * CodewordsInBlock(encoder) - 1)
    PROVE  \E b \in 0..(BlockCount - 1), j \in 0..(CodewordsInBlock(encoder) - 1) :
               i * CodewordBufferSize(encoder)
                   = b * CodewordBlock(encoder) + j * CodewordBufferSize(encoder)
<1>1. PICK c, w, m, n : /\ c = CodewordsInBlock(encoder) /\ w = CodewordBufferSize(encoder)
                        /\ m = CodewordBlock(encoder) /\ n = BlockCount
  OBVIOUS
<1>2. c \in 1..8 /\ w \in 1..32 /\ m = w * c /\ n \in Nat
  <2>1. encoder \in 3..8 /\ m = CodewordBlockSize(encoder) /\ n \in Nat
    BY <1>1, BlockSizes, BlocksFit DEF PictureTypes
  <2> QED BY <1>1, <2>1, Sizes
<1>3. c \in Nat \ {0} /\ n * c \in Nat /\ i \in Int /\ i >= 0 /\ i < n * c
  <2>1. c \in Nat \ {0} /\ n * c \in Nat
    BY <1>2
  <2> QED BY <1>1, <2>1
<1>4. PICK b, j : b = i \div c /\ j = i % c
  OBVIOUS
<1>5. j \in 0..(c - 1) /\ b \in Int /\ i = b * c + j
  BY <1>3, <1>4, Division
<1>6. b \in 0..(n - 1)
  <2>1. b >= 0
    BY <1>2, <1>3, <1>4
  <2>2. ASSUME b >= n PROVE FALSE
    <3>1. PICK e \in Nat : b = n + e
      <4>1. b - n \in Nat /\ b = n + (b - n)
        BY <1>2, <1>5, <2>2
      <4> QED BY <4>1
    <3>2. b * c = n * c + e * c /\ e * c \in Nat
      BY <1>2, <3>1
    <3>3. b * c \in Int
      BY <1>2, <1>5
    <3> QED BY <1>3, <1>5, <3>2, <3>3
  <2> QED BY <1>2, <1>5, <2>1, <2>2
<1>7. i * w = b * m + j * w
  <2>1. (b * c + j) * w = (b * c) * w + j * w
    BY <1>2, <1>5
  <2>2. (b * c) * w = b * (w * c)
    BY <1>2, <1>5
  <2> QED BY <1>2, <1>5, <2>1, <2>2
<1> QED BY <1>1, <1>5, <1>6, <1>7

\* What a Save does to the buffer of a picture, codeword by codeword.
LEMMA SaveChangesCodewords ==
    ASSUME PictureInv, SaveFile, encoder # 0,
           NEW old, old = Buffer(disk), NEW new, new = Buffer(disk'),
           NEW w, w = CodewordBufferSize(encoder)
    PROVE  /\ \A i \in 0..(BlockCount * CodewordsInBlock(encoder) - 1) :
                  LET changes == {p \in 1..(8 * w) : Bit(old, i * w, p) # Bit(new, i * w, p)}
                  IN  Cardinality(changes) <= 1 /\ 8 * w \notin changes
           /\ \A b \in DOMAIN old :
                  b >= (BlockCount * CodewordsInBlock(encoder)) * w => old[b] = new[b]
<1>. USE DEF PictureInv
<1>1. PICK c, m, n, t : /\ c = CodewordsInBlock(encoder) /\ m = CodewordBlock(encoder)
                        /\ n = BlockCount /\ t = TotalBits(encoder)
  OBVIOUS
<1>2. c \in 1..8 /\ w \in 1..32 /\ t \in 7..255 /\ 8 * w = t + 1 /\ m = w * c /\ n \in Nat
  <2>1. encoder \in 3..8 /\ m = CodewordBlockSize(encoder) /\ n \in Nat
    BY <1>1, BlockSizes, BlocksFit DEF PictureTypes
  <2> QED BY <1>1, <2>1, Sizes
<1>3. /\ old \in Bytes(raw) /\ content \in Bytes(ShareSize(encoder, Bits))
      /\ new = EmbedBuffer(old, content)
  BY SaveWritesBuffer
<1>4. /\ new \in Bytes(raw)
      /\ \A b \in 0..(BlockCount - 1) :
             Embedded(new, old, b * CodewordBlock(encoder), BlockOf(content, b))
      /\ \A b \in 0..(raw - 1) : b >= BlockCount * CodewordBlock(encoder) => new[b] = old[b]
  BY <1>3, BytesComeBack
<1>5. ASSUME NEW i \in 0..(BlockCount * CodewordsInBlock(encoder) - 1)
      PROVE  LET changes == {p \in 1..(8 * w) : Bit(old, i * w, p) # Bit(new, i * w, p)}
             IN  Cardinality(changes) <= 1 /\ 8 * w \notin changes
  <2>1. PICK b \in 0..(BlockCount - 1), j \in 0..(CodewordsInBlock(encoder) - 1) :
            i * w = b * CodewordBlock(encoder) + j * CodewordBufferSize(encoder)
    BY WordsInARow
  <2>2. PICK word, data : word = i * w /\ data = BlockOf(content, b)
    OBVIOUS
  <2>3. data \in Bytes(DataBlock(encoder))
    BY <1>3, <2>2, BlockIsBytes
  <2>4. PICK h \in 0..t : \A p \in 1..(8 * w) : p # h => Bit(new, word, p) = Bit(old, word, p)
    <3>1. Embedded(new, old, b * CodewordBlock(encoder), data)
      BY <1>4, <2>2
    <3>2. word = b * CodewordBlock(encoder) + j * CodewordBufferSize(encoder)
      BY <2>1, <2>2
    <3>3. \E h \in 0..TotalBits(encoder) : \A p \in 1..(8 * CodewordBufferSize(encoder)) :
              p # h => Bit(new, word, p) = Bit(old, word, p)
      BY <1>3, <1>4, <2>3, <3>1, <3>2, OneBitOfCodeword
    <3> QED BY <1>1, <3>3
  <2>5. PICK changes : changes = {p \in 1..(8 * w) : Bit(old, word, p) # Bit(new, word, p)}
    OBVIOUS
  <2>6. changes \subseteq {h}
    BY <2>4, <2>5
  <2>7. Cardinality(changes) <= 1
    BY <2>6, AtMostOne
  <2>8. 8 * w \notin changes
    BY <1>2, <2>6
  <2> QED BY <2>2, <2>5, <2>7, <2>8
<1>6. ASSUME NEW b \in DOMAIN old, b >= (BlockCount * CodewordsInBlock(encoder)) * w
      PROVE  old[b] = new[b]
  <2>1. (n * c) * w = n * m
    BY <1>2
  <2>2. b \in 0..(raw - 1)
    BY <1>3 DEF Bytes
  <2> QED BY <1>1, <1>4, <1>6, <2>1, <2>2
<1> QED BY <1>5, <1>6

\* "For insertion of k bits into 2^k-1 bits we need modify at most 1 bit": a Save
\* changes no codeword in more, and nothing that is in no codeword.
THEOREM OneBitPerCodeword == Spec => AtMostOneChange
<1>1. PictureInv /\ [Next]_vars =>
          [SaveFile /\ encoder # 0 =>
              LET size == CodewordBufferSize(encoder)
                  codewords == BlockCount * CodewordsInBlock(encoder)
              IN  \A old \in {Buffer(disk)}, new \in {Buffer(disk')} :
                      /\ \A w \in 0..(codewords - 1) :
                             LET changes == {p \in 1..(8 * size) :
                                                Bit(old, w * size, p) # Bit(new, w * size, p)}
                             IN  Cardinality(changes) <= 1 /\ 8 * size \notin changes
                      /\ \A b \in DOMAIN old : b >= codewords * size => old[b] = new[b]]_vars
  BY SaveChangesCodewords
<1> QED BY <1>1, PictureInvariant, PTL DEF Spec, AtMostOneChange

=============================================================================
