------------------------- MODULE PermutationProofs -------------------------
(***************************************************************************)
(* The permutations, for every kind, size, key and hash: no two elements   *)
(* have the same image, no image is outside, and the size is the declared  *)
(* one; that of an affine one is the largest odd prime that fits.          *)
(*                                                                         *)
(* First what the functions of StegoMath compute.  A recursive function is *)
(* the CHOOSE of a function that its step leaves as it is: one is          *)
(* exhibited, and what holds of any is shown by a least counterexample.    *)
(* Then the maps.  A Feistel round changes one half of the pair by an      *)
(* amount that the other half fixes, and so can be undone; five rounds on  *)
(* pairs that stand one to one for the elements are a permutation.  The    *)
(* factor of an affine map is prime to the size, and so has an inverse.    *)
(*                                                                         *)
(* Then the test for primes.  A divisor of the number is a witness against *)
(* it: all its powers keep the divisor, so none is 1 or one less than the  *)
(* number.  A prime passes with every witness by Fermat's little theorem   *)
(* and because 1 has two square roots only.  Fermat's theorem is shown by  *)
(* counting: the products with the powers of a split the numbers below the *)
(* prime into sets as large as the order of a.                             *)
(*                                                                         *)
(* PermInv says that an object in use holds the images that the maps give, *)
(* which makes the step by step invariant one about the maps.              *)
(***************************************************************************)
EXTENDS Permutation, FiniteSetTheorems, WellFoundedInduction, TLAPS

-----------------------------------------------------------------------------
(* Numbers.                                                                *)

\* The order of the numbers is well founded.
LEMMA LessIsWellFounded ==
    \E R : IsWellFoundedOn(R, Nat) /\ \A x, y \in Nat : x < y => <<x, y>> \in R
<1>. DEFINE R == OpToRel(<, Nat)
<1>1. IsWellFoundedOn(R, Nat)
  BY NatLessThanWellFounded
<1>2. \A x, y \in Nat : x < y => <<x, y>> \in R
  BY DEF OpToRel
<1>. HIDE DEF R
<1>. QED
  BY <1>1, <1>2

\* Every non-empty set of numbers has a least element.
LEMMA LeastElement ==
    ASSUME NEW T \in SUBSET Nat, T # {}
    PROVE  \E x \in T : \A y \in T : x <= y
<1>1. PICK R : IsWellFoundedOn(R, Nat) /\ \A x, y \in Nat : x < y => <<x, y>> \in R
  BY LessIsWellFounded
<1>2. \E x \in T : \A y \in T : ~ (<<y, x>> \in R)
  <2>1. IsWellFoundedOn(R, Nat)
    BY <1>1
  <2>2. T \subseteq Nat
    OBVIOUS
  <2>3. \A RR, S, TT : IsWellFoundedOn(RR, S) /\ TT \subseteq S /\ TT # {}
                          => \E x \in TT : \A y \in TT : ~ (<<y, x>> \in RR)
    BY WFMin, Zenon
  <2>. QED
    BY <2>1, <2>2, <2>3, Zenon
<1>3. PICK x \in T : \A y \in T : ~ (<<y, x>> \in R)
  BY <1>2
<1>4. \A y \in T : x <= y
  <2>. SUFFICES ASSUME NEW y \in T PROVE ~(y < x)
    OBVIOUS
  <2>. QED
    BY <1>1, <1>3
<1>. QED
  BY <1>4

\* The multiples of m that two numbers are apart from their remainders.
LEMMA DivisionUnique ==
    ASSUME NEW m \in Nat \ {0}, NEW q \in Int, NEW v \in Int,
           NEW r \in 0..(m - 1), NEW s \in 0..(m - 1), q * m + r = v * m + s
    PROVE  q = v /\ r = s
<1>1. ASSUME NEW c \in Int, NEW d \in Int, c < d
      PROVE  c * m + m <= d * m
  <2>1. PICK k \in Nat : d = (c + 1) + k
    <3>1. d - c - 1 \in Nat /\ d = (c + 1) + (d - c - 1)
      BY <1>1
    <3> QED BY <3>1
  <2>2. d * m = (c + 1) * m + k * m /\ (c + 1) * m = c * m + m
    BY <2>1
  <2>3. k * m \in Nat /\ c * m \in Int /\ (c + 1) * m \in Int
    OBVIOUS
  <2> QED BY <2>2, <2>3
<1>2. q * m \in Int /\ v * m \in Int
  OBVIOUS
<1>3. q = v
  BY <1>1, <1>2
<1> QED BY <1>2, <1>3

\* What dividing by m gives.
LEMMA Division ==
    ASSUME NEW m \in Nat \ {0}, NEW x \in Int
    PROVE  /\ x % m \in 0..(m - 1) /\ x \div m \in Int
           /\ x = (x \div m) * m + (x % m)
OBVIOUS

\* Multiples of m do not change a remainder.
LEMMA Congruent ==
    ASSUME NEW m \in Nat \ {0}, NEW x \in Int, NEW k \in Int
    PROVE  (x + k * m) % m = x % m
<1>1. PICK q, r, u, v : /\ q = x \div m /\ r = x % m
                        /\ u = (x + k * m) \div m /\ v = (x + k * m) % m
  OBVIOUS
<1>2. k * m \in Int /\ x + k * m \in Int
  OBVIOUS
<1>3. q \in Int /\ r \in 0..(m - 1) /\ x = q * m + r
  BY <1>1, Division
<1>4. u \in Int /\ v \in 0..(m - 1) /\ x + k * m = u * m + v
  BY <1>1, <1>2, Division
<1>5. (q + k) * m + r = u * m + v /\ q + k \in Int
  <2>1. (q + k) * m = q * m + k * m
    BY <1>3
  <2>2. q * m \in Int /\ u * m \in Int
    BY <1>3, <1>4
  <2>. QED BY <1>2, <1>3, <1>4, <2>1, <2>2
<1>6. v = r
  BY <1>3, <1>4, <1>5, DivisionUnique
<1>. QED BY <1>1, <1>6

-----------------------------------------------------------------------------
(* Gcd.                                                                    *)

Divides(d, x) == \E k \in Nat : x = k * d

\* What both numbers of a pair are multiples of.
Common(p) == {d \in Nat \ {0} : Divides(d, p[1]) /\ Divides(d, p[2])}

GcdPairs == Nat \X (Nat \ {0})

\* One step of the algorithm keeps the common divisors.
LEMMA SameDivisors ==
    ASSUME NEW x \in Nat, NEW y \in Nat \ {0}
    PROVE  Common(<<x, y>>) = Common(<<y, x % y>>)
<1>1. PICK q, r : q = x \div y /\ r = x % y
  OBVIOUS
<1>2. q \in Nat /\ r \in 0..(y - 1) /\ x = q * y + r
  BY <1>1
<1>4. ASSUME NEW d \in Nat \ {0}, Divides(d, x), Divides(d, y)
      PROVE  Divides(d, r)
  <2>1. PICK a \in Nat, b \in Nat : x = a * d /\ y = b * d
    BY <1>4 DEF Divides
  <2>2. r = (a - q * b) * d
    <3>1. q * y = (q * b) * d
      BY <1>2, <2>1
    <3>2. (a - q * b) * d = a * d - (q * b) * d
      BY <1>2
    <3> QED BY <1>2, <2>1, <3>1, <3>2
  <2>3. a - q * b \in Nat
    <3>1. a - q * b \in Int
      BY <1>2
    <3>2. PICK c \in Int : c = a - q * b
      BY <3>1
    <3>3. c * d >= 0
      BY <1>2, <2>2, <3>2
    <3>4. c >= 0
      BY <3>3
    <3> QED BY <3>2, <3>4
  <2> QED BY <2>2, <2>3 DEF Divides
<1>5. ASSUME NEW d \in Nat \ {0}, Divides(d, y), Divides(d, r)
      PROVE  Divides(d, x)
  <2>1. PICK a \in Nat, b \in Nat : r = a * d /\ y = b * d
    BY <1>5 DEF Divides
  <2>2. x = (q * b + a) * d
    <3>1. q * y = (q * b) * d
      BY <1>2, <2>1
    <3>2. (q * b + a) * d = (q * b) * d + a * d
      BY <1>2
    <3> QED BY <1>2, <2>1, <3>1, <3>2
  <2>3. q * b + a \in Nat
    BY <1>2
  <2> QED BY <2>2, <2>3 DEF Divides
<1>6. <<x, y>>[1] = x /\ <<x, y>>[2] = y /\ <<y, x % y>>[1] = y /\ <<y, x % y>>[2] = r
  BY <1>1
<1> QED BY <1>4, <1>5, <1>6 DEF Common

\* The step of Gcd, for a function g of the pairs.
GcdStep(g) ==
    [p \in GcdPairs |-> IF p[1] % p[2] = 0 THEN p[2] ELSE g[<<p[2], p[1] % p[2]>>]]

Greatest(S) == CHOOSE d \in S : \A c \in S : c <= d

\* The greatest common divisor is a function that the step leads to itself.
LEMMA GcdExists ==
    [p \in GcdPairs |-> Greatest(Common(p))] = GcdStep([p \in GcdPairs |-> Greatest(Common(p))])
<1>. DEFINE G == [p \in GcdPairs |-> Greatest(Common(p))]
            S == GcdStep(G)
<1>1. ASSUME NEW p \in GcdPairs
      PROVE  Greatest(Common(p)) = IF p[1] % p[2] = 0 THEN p[2] ELSE G[<<p[2], p[1] % p[2]>>]
  <2>1. PICK x \in Nat, y \in Nat \ {0} : p = <<x, y>> /\ p[1] = x /\ p[2] = y
    BY DEF GcdPairs
  <2>2. x \div y \in Nat /\ x % y \in 0..(y - 1) /\ x = (x \div y) * y + (x % y)
    BY <2>1
  <2>3. CASE x % y = 0
    <3>1. Divides(y, x) /\ Divides(y, y)
      <4>1. x = (x \div y) * y /\ y = 1 * y
        BY <2>2, <2>3
      <4> QED BY <2>2, <4>1 DEF Divides
    <3>2. y \in Common(p)
      BY <2>1, <3>1 DEF Common
    <3>3. ASSUME NEW c \in Common(p)
          PROVE  c \in Nat /\ c <= y
      <4>1. PICK k \in Nat : y = k * c
        BY <2>1 DEF Common, Divides
      <4>2. c \in Nat \ {0}
        BY DEF Common
      <4>3. k # 0
        BY <4>1, <4>2
      <4>4. k * c >= c
        BY <4>2, <4>3
      <4> QED BY <4>1, <4>2, <4>4
    <3>4. ASSUME NEW d \in Common(p), \A c \in Common(p) : c <= d
          PROVE  d = y
      BY <3>2, <3>3, <3>4
    <3>5. Greatest(Common(p)) = y
      BY <3>2, <3>3, <3>4 DEF Greatest
    <3> QED BY <2>1, <2>3, <3>5
  <2>4. CASE x % y # 0
    <3>1. <<y, x % y>> \in GcdPairs
      BY <2>1, <2>2, <2>4 DEF GcdPairs
    <3>2. G[<<y, x % y>>] = Greatest(Common(<<y, x % y>>))
      BY <3>1
    <3>3. Common(p) = Common(<<y, x % y>>)
      BY <2>1, SameDivisors
    <3> QED BY <2>1, <2>4, <3>2, <3>3
  <2> QED BY <2>3, <2>4
<1>2. S = [p \in GcdPairs |-> IF p[1] % p[2] = 0 THEN p[2] ELSE G[<<p[2], p[1] % p[2]>>]]
  BY DEF GcdStep
<1>3. G = S
  <2>. DEFINE e(p) == Greatest(Common(p))
              f(p) == IF p[1] % p[2] = 0 THEN p[2] ELSE G[<<p[2], p[1] % p[2]>>]
  <2>1. \A p \in GcdPairs : e(p) = f(p)
    BY <1>1
  <2>2. G = [p \in GcdPairs |-> e(p)] /\ S = [p \in GcdPairs |-> f(p)]
    BY <1>2
  <2>. HIDE DEF e, f, G, S
  <2> QED BY <2>1, <2>2
<1> QED BY <1>3

\* What Gcd computes: the step, again and again.
LEMMA GcdRecursion ==
    \E g : /\ \A a \in Nat, b \in Nat \ {0} : Gcd(a, b) = g[<<a, b>>]
          /\ g = GcdStep(g)
<1>. DEFINE g == CHOOSE f : f = GcdStep(f)
<1>1. g = GcdStep(g)
  BY GcdExists
<1>2. ASSUME NEW a \in Nat, NEW b \in Nat \ {0}
      PROVE  Gcd(a, b) = g[<<a, b>>]
  BY DEF Gcd, GcdStep, GcdPairs
<1>. HIDE DEF g
<1> QED BY <1>1, <1>2

\* The greatest common divisor of two numbers is a combination of them.
LEMMA Bezout ==
    ASSUME NEW a \in Nat, NEW b \in Nat \ {0}
    PROVE  \E u, v \in Int : Gcd(a, b) = u * a + v * b
<1>1. PICK g : /\ \A x \in Nat, y \in Nat \ {0} : Gcd(x, y) = g[<<x, y>>]
               /\ g = GcdStep(g)
  BY GcdRecursion
<1>2. ASSUME NEW x \in Nat, NEW y \in Nat \ {0}
      PROVE  Gcd(x, y) = IF x % y = 0 THEN y ELSE Gcd(y, x % y)
  <2>1. <<x, y>> \in GcdPairs /\ <<x, y>>[1] = x /\ <<x, y>>[2] = y
    BY DEF GcdPairs
  <2>2. g[<<x, y>>] = IF x % y = 0 THEN y ELSE g[<<y, x % y>>]
    BY <1>1, <2>1 DEF GcdStep
  <2>3. x % y # 0 => y \in Nat /\ x % y \in Nat \ {0}
    OBVIOUS
  <2> QED BY <1>1, <2>2, <2>3
<1>. DEFINE Combined(y) == \A x \in Nat : \E u, v \in Int : Gcd(x, y) = u * x + v * y
            Failing == {y \in Nat \ {0} : ~Combined(y)}
<1>3. ASSUME NEW y \in Nat \ {0}, \A z \in 1..(y - 1) : Combined(z)
      PROVE  Combined(y)
  <2>. SUFFICES ASSUME NEW x \in Nat
                PROVE  \E u, v \in Int : Gcd(x, y) = u * x + v * y
    OBVIOUS
  <2>1. PICK q, r : q = x \div y /\ r = x % y
    OBVIOUS
  <2>2. q \in Nat /\ r \in 0..(y - 1) /\ x = q * y + r
    BY <2>1
  <2>3. CASE r = 0
    <3>1. Gcd(x, y) = 0 * x + 1 * y
      BY <1>2, <2>1, <2>3
    <3> QED BY <3>1
  <2>4. CASE r # 0
    <3>1. Gcd(x, y) = Gcd(y, r) /\ r \in 1..(y - 1)
      BY <1>2, <2>1, <2>2, <2>4
    <3>2. PICK u, v \in Int : Gcd(y, r) = u * y + v * r
      BY <1>3, <3>1
    <3>3. u * y + v * r = v * x + (u - v * q) * y
      <4>1. v * x = v * (q * y) + v * r
        BY <2>2
      <4>2. (u - v * q) * y = u * y - v * (q * y)
        BY <2>2
      <4> QED BY <2>2, <4>1, <4>2
    <3>4. v \in Int /\ u - v * q \in Int
      BY <2>2
    <3> QED BY <3>1, <3>2, <3>3, <3>4
  <2> QED BY <2>2, <2>3, <2>4
<1>4. Failing = {}
  <2>. SUFFICES ASSUME Failing # {} PROVE FALSE
    OBVIOUS
  <2>1. Failing \in SUBSET Nat
    OBVIOUS
  <2>2. PICK y \in Failing : \A z \in Failing : y <= z
    <3>. HIDE DEF Failing
    <3> QED BY <2>1, LeastElement
  <2>3. y \in Nat \ {0} /\ ~Combined(y) /\ \A z \in 1..(y - 1) : Combined(z)
    <3>. HIDE DEF Combined
    <3> QED BY <2>2
  <2> QED BY <1>3, <2>3
<1>5. Combined(b)
  <2>. HIDE DEF Combined
  <2> QED BY <1>4
<1> QED BY <1>5

-----------------------------------------------------------------------------
(* Mulmod.                                                                 *)

\* A factor may be replaced by its remainder.
LEMMA ReduceFactor ==
    ASSUME NEW m \in Nat \ {0}, NEW c \in Int, NEW h \in Int, NEW d \in Int
    PROVE  (c + h * (d % m)) % m = (c + h * d) % m
<1>1. PICK q, r : q = d \div m /\ r = d % m
  OBVIOUS
<1>2. q \in Int /\ r \in 0..(m - 1) /\ d = q * m + r
  BY <1>1, Division
<1>3. c + h * d = (c + h * r) + (h * q) * m
  <2>1. h * d = h * (q * m) + h * r
    BY <1>2
  <2>2. h * (q * m) = (h * q) * m
    BY <1>2
  <2>3. h * r \in Int /\ (h * q) * m \in Int /\ h * d \in Int
    BY <1>2
  <2> QED BY <2>1, <2>2, <2>3
<1>4. c + h * r \in Int /\ h * q \in Int
  BY <1>2
<1>5. ((c + h * r) + (h * q) * m) % m = (c + h * r) % m
  BY <1>4, Congruent
<1> QED BY <1>1, <1>3, <1>5

\* So may a term.
LEMMA ReduceTerm ==
    ASSUME NEW m \in Nat \ {0}, NEW c \in Int, NEW d \in Int
    PROVE  ((c % m) + d) % m = (c + d) % m
<1>1. PICK q, r : q = c \div m /\ r = c % m
  OBVIOUS
<1>2. q \in Int /\ r \in 0..(m - 1) /\ c = q * m + r
  BY <1>1, Division
<1>3. q * m \in Int /\ r + d \in Int
  BY <1>2
<1>4. c + d = (r + d) + q * m
  BY <1>2, <1>3
<1>5. ((r + d) + q * m) % m = (r + d) % m
  BY <1>2, <1>3, Congruent
<1> QED BY <1>1, <1>4, <1>5

Triples == Nat \X Nat \X Nat

\* The step of Mulmod, for a function f of <<a, b, res>>.
AddStep(m, f) ==
    [t \in Triples |->
        IF t[1] = 0 THEN t[3]
        ELSE f[<<t[1] \div 2, (2 * t[2]) % m, IF t[1] % 2 = 1 THEN (t[3] + t[2]) % m ELSE t[3]>>]]

\* What is added up in the end.
Added(m) == [t \in Triples |-> IF t[1] = 0 THEN t[3] ELSE (t[3] + t[1] * t[2]) % m]

\* A step leaves the sum as it is.
LEMMA AddedIsStable ==
    ASSUME NEW m \in Nat \ {0}
    PROVE  Added(m) = AddStep(m, Added(m))
<1>. DEFINE next(t) == <<t[1] \div 2, (2 * t[2]) % m,
                         IF t[1] % 2 = 1 THEN (t[3] + t[2]) % m ELSE t[3]>>
            e(t) == IF t[1] = 0 THEN t[3] ELSE (t[3] + t[1] * t[2]) % m
            f(t) == IF t[1] = 0 THEN t[3] ELSE Added(m)[next(t)]
<1>1. ASSUME NEW a \in Nat \ {0}, NEW b \in Nat, NEW c \in Nat
      PROVE  f(<<a, b, c>>) = (c + a * b) % m
  <2>1. PICK h, r : h = a \div 2 /\ r = a % 2
    OBVIOUS
  <2>2. h \in Nat /\ r \in 0..1 /\ a = 2 * h + r
    BY <2>1
  <2>3. PICK b2, c2 : /\ b2 = (2 * b) % m
                      /\ c2 = IF r = 1 THEN (c + b) % m ELSE c
    OBVIOUS
  <2>4. 2 * b \in Int /\ c + b \in Int /\ 2 * b >= 0 /\ c + b >= 0
    OBVIOUS
  <2>5. b2 \in Nat /\ c2 \in Nat
    BY <2>3, <2>4, Division
  <2>6. f(<<a, b, c>>) = Added(m)[<<h, b2, c2>>] /\ <<h, b2, c2>> \in Triples
    BY <2>1, <2>2, <2>3, <2>5 DEF Triples
  <2>7. f(<<a, b, c>>) = IF h = 0 THEN c2 ELSE (c2 + h * b2) % m
    BY <2>6 DEF Added
  <2>8. h * b \in Nat /\ h * (2 * b) = 2 * (h * b)
    BY <2>2
  <2>9. a * b = 2 * (h * b) + r * b
    <3>1. (2 * h + r) * b = (2 * h) * b + r * b
      BY <2>2
    <3>2. (2 * h) * b = 2 * (h * b)
      BY <2>2
    <3> QED BY <2>2, <3>1, <3>2
  <2>10. c2 \in Int /\ h \in Int /\ (c2 + h * b2) % m = (c2 + 2 * (h * b)) % m
    <3>1. c2 \in Int /\ h \in Int
      BY <2>2, <2>5
    <3>2. (c2 + h * ((2 * b) % m)) % m = (c2 + h * (2 * b)) % m
      BY <3>1, <2>4, ReduceFactor
    <3> QED BY <3>1, <3>2, <2>3, <2>8
  <2>11. CASE r = 0
    <3>1. h # 0 /\ c2 = c /\ a * b = 2 * (h * b)
      BY <2>2, <2>3, <2>8, <2>9, <2>11
    <3> QED BY <2>7, <2>10, <3>1
  <2>12. CASE r = 1
    <3>1. c2 = (c + b) % m /\ a * b = 2 * (h * b) + b
      BY <2>3, <2>8, <2>9, <2>12
    <3>2. CASE h = 0
      <4>1. a * b = b
        BY <2>2, <2>12, <3>2
      <4> QED BY <2>7, <3>1, <3>2, <4>1
    <3>3. CASE h # 0
      <4>1. (c2 + 2 * (h * b)) % m = ((c + b) + 2 * (h * b)) % m
        <5>1. 2 * (h * b) \in Int
          BY <2>8
        <5> QED BY <2>4, <3>1, <5>1, ReduceTerm
      <4>2. (c + b) + 2 * (h * b) = c + a * b
        BY <2>8, <3>1
      <4> QED BY <2>7, <2>10, <3>3, <4>1, <4>2
    <3> QED BY <3>2, <3>3
  <2> QED BY <2>2, <2>11, <2>12
<1>2. ASSUME NEW t \in Triples
      PROVE  e(t) = f(t)
  <2>1. PICK a \in Nat, b \in Nat, c \in Nat : t = <<a, b, c>>
    BY DEF Triples
  <2>2. t[1] = a /\ t[2] = b /\ t[3] = c
    BY <2>1
  <2>3. CASE a = 0
    BY <2>2, <2>3
  <2>4. CASE a # 0
    <3>1. f(t) = (c + a * b) % m
      <4>. HIDE DEF f
      <4> QED BY <1>1, <2>1, <2>4
    <3>2. e(t) = (c + a * b) % m
      BY <2>2, <2>4
    <3>. HIDE DEF e, f
    <3> QED BY <3>1, <3>2
  <2> QED BY <2>3, <2>4
<1>3. Added(m) = [t \in Triples |-> e(t)] /\ AddStep(m, Added(m)) = [t \in Triples |-> f(t)]
  BY DEF Added, AddStep
<1>. HIDE DEF e, f
<1> QED BY <1>2, <1>3

\* Mulmod is the product's remainder, on either side of its limit.
LEMMA MulmodIsProduct ==
    ASSUME NEW a \in Nat, NEW b \in Nat, NEW m \in Nat \ {0}
    PROVE  Mulmod(a, b, m) = (a * b) % m
<1>. DEFINE add == CHOOSE f : f = AddStep(m, f)
<1>1. add = AddStep(m, add)
  BY AddedIsStable
<1>2. Mulmod(a, b, m) = IF a < MulmodLimit /\ b < MulmodLimit THEN (a * b) % m
                        ELSE add[<<a, b, 0>>]
  BY DEF Mulmod, AddStep, Triples
<1>. HIDE DEF add
<1>. DEFINE Sums(x) == \A y, z \in Nat : add[<<x, y, z>>] = Added(m)[<<x, y, z>>]
            Failing == {x \in Nat : ~Sums(x)}
<1>3. ASSUME NEW x \in Nat, \A h \in 0..(x - 1) : Sums(h)
      PROVE  Sums(x)
  <2>. SUFFICES ASSUME NEW y \in Nat, NEW z \in Nat
                PROVE  add[<<x, y, z>>] = Added(m)[<<x, y, z>>]
    OBVIOUS
  <2>1. <<x, y, z>> \in Triples /\ <<x, y, z>>[1] = x /\ <<x, y, z>>[2] = y /\ <<x, y, z>>[3] = z
    BY DEF Triples
  <2>2. CASE x = 0
    BY <1>1, <2>1, <2>2 DEF AddStep, Added
  <2>3. CASE x # 0
    <3>. DEFINE h == x \div 2
                y2 == (2 * y) % m
                z2 == IF x % 2 = 1 THEN (z + y) % m ELSE z
    <3>1. h \in 0..(x - 1)
      BY <2>3
    <3>2. y2 \in Nat /\ z2 \in Nat
      <4>1. 2 * y \in Int /\ z + y \in Int
        OBVIOUS
      <4>2. y2 \in 0..(m - 1) /\ (z + y) % m \in 0..(m - 1)
        BY <4>1, Division
      <4> QED BY <4>2
    <3>3. \A f : AddStep(m, f)[<<x, y, z>>] = f[<<h, y2, z2>>]
      BY <2>1, <2>3 DEF AddStep
    <3>. HIDE DEF h, y2, z2
    <3>4. add[<<h, y2, z2>>] = Added(m)[<<h, y2, z2>>]
      BY <1>3, <3>1, <3>2
    <3> QED BY <1>1, <3>3, <3>4, AddedIsStable
  <2> QED BY <2>2, <2>3
<1>4. Failing = {}
  <2>. SUFFICES ASSUME Failing # {} PROVE FALSE
    OBVIOUS
  <2>1. Failing \in SUBSET Nat
    OBVIOUS
  <2>2. PICK x \in Failing : \A h \in Failing : x <= h
    <3>. HIDE DEF Failing
    <3> QED BY <2>1, LeastElement
  <2>3. x \in Nat /\ ~Sums(x) /\ \A h \in 0..(x - 1) : Sums(h)
    <3>. HIDE DEF Sums
    <3> QED BY <2>2
  <2> QED BY <1>3, <2>3
<1>5. Sums(a)
  <2>. HIDE DEF Sums
  <2> QED BY <1>4
<1>6. add[<<a, b, 0>>] = IF a = 0 THEN 0 ELSE (a * b) % m
  <2>1. add[<<a, b, 0>>] = Added(m)[<<a, b, 0>>]
    BY <1>5
  <2>2. a * b \in Nat /\ 0 + a * b = a * b
    OBVIOUS
  <2> QED BY <2>1, <2>2 DEF Added, Triples
<1>7. a = 0 => (a * b) % m = 0
  OBVIOUS
<1> QED BY <1>2, <1>6, <1>7

-----------------------------------------------------------------------------
(* ClosestSmallerPrime.                                                    *)

\* Where the search ends.
Stops(n) == MillerRabin(n) \/ n <= 2

\* The step of the search, for a function f of the number.
DownStep(f) == [n \in Nat |-> IF ~MillerRabin(n) /\ n > 2 THEN f[n - 2] ELSE n]

\* The numbers below n where a search from n may end.
Ends(n) == {m \in Nat : Stops(m) /\ \E k \in Nat : n = m + 2 * k}

\* The search ends at the greatest of them.
LEMMA DownExists ==
    [n \in Nat |-> Greatest(Ends(n))] = DownStep([n \in Nat |-> Greatest(Ends(n))])
<1>. DEFINE e(n) == Greatest(Ends(n))
            G == [n \in Nat |-> e(n)]
            f(n) == IF ~MillerRabin(n) /\ n > 2 THEN G[n - 2] ELSE n
<1>1. ASSUME NEW n \in Nat
      PROVE  e(n) = f(n)
  <2>1. CASE Stops(n)
    <3>1. n \in Ends(n)
      <4>1. n = n + 2 * 0
        OBVIOUS
      <4> QED BY <2>1, <4>1 DEF Ends
    <3>2. \A c \in Ends(n) : c \in Nat /\ c <= n
      BY DEF Ends
    <3>3. Greatest(Ends(n)) = n
      BY <3>1, <3>2 DEF Greatest
    <3> QED BY <2>1, <3>3 DEF Stops
  <2>2. CASE ~Stops(n)
    <3>1. n - 2 \in Nat /\ n > 2 /\ ~MillerRabin(n)
      BY <2>2 DEF Stops
    <3>2. Ends(n) \subseteq Ends(n - 2)
      <4>. SUFFICES ASSUME NEW m \in Ends(n) PROVE m \in Ends(n - 2)
        OBVIOUS
      <4>1. PICK k \in Nat : n = m + 2 * k
        BY DEF Ends
      <4>2. m \in Nat /\ Stops(m) /\ k # 0
        BY <2>2, <4>1 DEF Ends
      <4>3. k - 1 \in Nat /\ n - 2 = m + 2 * (k - 1)
        BY <4>1, <4>2
      <4> QED BY <4>2, <4>3 DEF Ends
    <3>3. Ends(n - 2) \subseteq Ends(n)
      <4>. SUFFICES ASSUME NEW m \in Ends(n - 2) PROVE m \in Ends(n)
        OBVIOUS
      <4>1. PICK k \in Nat : n - 2 = m + 2 * k
        BY DEF Ends
      <4>2. m \in Nat /\ Stops(m)
        BY DEF Ends
      <4>3. k + 1 \in Nat /\ n = m + 2 * (k + 1)
        BY <4>1, <4>2
      <4> QED BY <4>2, <4>3 DEF Ends
    <3>4. e(n) = e(n - 2)
      BY <3>2, <3>3
    <3>5. G[n - 2] = e(n - 2)
      BY <3>1
    <3>. HIDE DEF e, G
    <3> QED BY <3>1, <3>4, <3>5
  <2> QED BY <2>1, <2>2
<1>2. DownStep(G) = [n \in Nat |-> f(n)]
  BY DEF DownStep
<1>3. G = DownStep(G)
  <2>. HIDE DEF e, f
  <2> QED BY <1>1, <1>2
<1> QED BY <1>3

\* What is found is 0 or the greatest odd number, not above the one given, that the
\* test accepts.
LEMMA ClosestAccepted ==
    ASSUME NEW number \in Nat, ClosestSmallerPrime(number) # 0
    PROVE  LET p == ClosestSmallerPrime(number)
           IN  /\ p \in 3..number /\ p % 2 = 1 /\ MillerRabin(p)
               /\ \A m \in (p + 1)..number : m % 2 = 1 => ~MillerRabin(m)
<1>. DEFINE down == CHOOSE f : f = DownStep(f)
<1>1. down = DownStep(down)
  BY DownExists
<1>. DEFINE start == IF number % 2 = 0 THEN number - 1 ELSE number
<1>2. ClosestSmallerPrime(number) = IF number < 2 \/ down[start] <= 1 THEN 0 ELSE down[start]
  BY DEF ClosestSmallerPrime, DownStep
<1>. HIDE DEF down
<1>3. \A n \in Nat : down[n] = IF ~MillerRabin(n) /\ n > 2 THEN down[n - 2] ELSE n
  BY <1>1 DEF DownStep
<1>. DEFINE Good(n) == n % 2 = 1 =>
                /\ down[n] \in 1..n /\ down[n] % 2 = 1
                /\ down[n] = 1 \/ MillerRabin(down[n])
                /\ \A m \in (down[n] + 1)..n : m % 2 = 1 => ~MillerRabin(m)
            Failing == {n \in Nat : ~Good(n)}
<1>4. ASSUME NEW n \in Nat, \A k \in 0..(n - 1) : Good(k)
      PROVE  Good(n)
  <2>. SUFFICES ASSUME n % 2 = 1
                PROVE  /\ down[n] \in 1..n /\ down[n] % 2 = 1
                       /\ down[n] = 1 \/ MillerRabin(down[n])
                       /\ \A m \in (down[n] + 1)..n : m % 2 = 1 => ~MillerRabin(m)
    OBVIOUS
  <2>1. n >= 1 /\ n # 2
    OBVIOUS
  <2>2. CASE MillerRabin(n) \/ n <= 2
    BY <1>3, <2>1, <2>2
  <2>3. CASE ~MillerRabin(n) /\ n > 2
    <3>1. n - 2 \in 0..(n - 1) /\ (n - 2) % 2 = 1 /\ (n - 1) % 2 = 0
      BY <2>3
    <3>2. /\ down[n - 2] \in 1..(n - 2) /\ down[n - 2] % 2 = 1
          /\ down[n - 2] = 1 \/ MillerRabin(down[n - 2])
          /\ \A m \in (down[n - 2] + 1)..(n - 2) : m % 2 = 1 => ~MillerRabin(m)
      BY <1>4, <3>1
    <3>3. down[n] = down[n - 2]
      BY <1>3, <2>3
    <3>4. ASSUME NEW m \in (down[n] + 1)..n, m % 2 = 1
          PROVE  ~MillerRabin(m)
      <4>1. m \in (down[n - 2] + 1)..(n - 2) \/ m = n - 1 \/ m = n
        BY <3>2, <3>3
      <4> QED BY <2>3, <3>1, <3>2, <3>4, <4>1
    <3> QED BY <3>2, <3>3, <3>4
  <2> QED BY <2>2, <2>3
<1>5. Failing = {}
  <2>. SUFFICES ASSUME Failing # {} PROVE FALSE
    OBVIOUS
  <2>1. Failing \in SUBSET Nat
    OBVIOUS
  <2>2. PICK n \in Failing : \A k \in Failing : n <= k
    <3>. HIDE DEF Failing
    <3> QED BY <2>1, LeastElement
  <2>3. n \in Nat /\ ~Good(n) /\ \A k \in 0..(n - 1) : Good(k)
    <3>. HIDE DEF Good
    <3> QED BY <2>2
  <2> QED BY <1>4, <2>3
<1>6. number >= 2 /\ down[start] > 1 /\ ClosestSmallerPrime(number) = down[start]
  <2>1. number >= 2 /\ ~(down[start] <= 1) /\ ClosestSmallerPrime(number) = down[start]
    BY <1>2
  <2>2. start \in Nat /\ start % 2 = 1
    BY <2>1
  <2>3. Good(start)
    <3>. HIDE DEF Good, start
    <3> QED BY <1>5, <2>2
  <2> QED BY <2>1, <2>2, <2>3
<1>7. start \in Nat /\ start % 2 = 1 /\ start <= number
      /\ \A m \in (start + 1)..number : m % 2 = 0
  BY <1>6
<1>8. Good(start)
  <2>. HIDE DEF Good, start
  <2> QED BY <1>5, <1>7
<1>9. PICK p : p = ClosestSmallerPrime(number)
  OBVIOUS
<1>10. /\ p \in 1..start /\ p % 2 = 1 /\ p > 1 /\ MillerRabin(p)
       /\ \A m \in (p + 1)..start : m % 2 = 1 => ~MillerRabin(m)
  <2>. HIDE DEF start
  <2> QED BY <1>6, <1>7, <1>8, <1>9
<1>11. p \in 3..number
  <2>. HIDE DEF start
  <2>1. p # 2
    BY <1>10
  <2> QED BY <1>7, <1>10, <2>1
<1>12. ASSUME NEW m \in (p + 1)..number, m % 2 = 1
       PROVE  ~MillerRabin(m)
  <2>. HIDE DEF start
  <2>1. m \in (p + 1)..start
    BY <1>7, <1>10, <1>12
  <2> QED BY <1>10, <1>12, <2>1
<1> QED BY <1>9, <1>10, <1>11, <1>12

-----------------------------------------------------------------------------
(* Shifted.                                                                *)

\* The step of Shifted, for a function f of the number of bits.
ShiftStep(f) == [b \in Nat |-> IF b = 0 THEN 1 ELSE 2 * f[b - 1]]

\* The lists of the first powers of two.
Doubling(n) == {f \in [0..n -> Nat] : f[0] = 1 /\ \A b \in 1..n : f[b] = 2 * f[b - 1]}

\* There is one of every length.
LEMMA DoublingExists ==
    ASSUME NEW n \in Nat
    PROVE  Doubling(n) # {}
<1>. DEFINE Failing == {k \in Nat : Doubling(k) = {}}
<1>1. Failing = {}
  <2>. SUFFICES ASSUME Failing # {} PROVE FALSE
    OBVIOUS
  <2>1. Failing \in SUBSET Nat
    OBVIOUS
  <2>2. PICK k \in Failing : \A j \in Failing : k <= j
    <3>. HIDE DEF Failing
    <3> QED BY <2>1, LeastElement
  <2>3. k \in Nat /\ Doubling(k) = {} /\ \A j \in 0..(k - 1) : Doubling(j) # {}
    BY <2>2
  <2>4. CASE k = 0
    <3>1. [b \in 0..0 |-> 1] \in Doubling(0)
      BY DEF Doubling
    <3> QED BY <2>3, <2>4, <3>1
  <2>5. CASE k # 0
    <3>1. k - 1 \in 0..(k - 1)
      BY <2>3, <2>5
    <3>2. PICK f : f \in Doubling(k - 1)
      BY <2>3, <3>1
    <3>3. /\ f \in [0..(k - 1) -> Nat] /\ f[0] = 1
          /\ \A b \in 1..(k - 1) : f[b] = 2 * f[b - 1]
      BY <3>2 DEF Doubling
    <3>. DEFINE g == [b \in 0..k |-> IF b = k THEN 2 * f[k - 1] ELSE f[b]]
    <3>4. g \in [0..k -> Nat]
      <4>1. \A b \in 0..k : b # k => b \in 0..(k - 1)
        BY <2>3
      <4> QED BY <3>1, <3>3, <4>1
    <3>5. g[0] = 1
      BY <2>3, <2>5, <3>3
    <3>6. \A b \in 1..k : g[b] = 2 * g[b - 1]
      <4>. SUFFICES ASSUME NEW b \in 1..k PROVE g[b] = 2 * g[b - 1]
        OBVIOUS
      <4>1. b - 1 \in 0..k /\ b - 1 # k /\ b \in 0..k
        BY <2>3
      <4>2. CASE b = k
        BY <4>1, <4>2
      <4>3. CASE b # k
        <5>1. b \in 1..(k - 1)
          BY <2>3, <4>3
        <5> QED BY <3>3, <4>1, <4>3, <5>1
      <4> QED BY <4>2, <4>3
    <3>. HIDE DEF g
    <3>7. g \in Doubling(k)
      BY <3>4, <3>5, <3>6 DEF Doubling
    <3> QED BY <2>3, <3>7
  <2> QED BY <2>4, <2>5
<1> QED BY <1>1

\* And they agree.
LEMMA DoublingAgree ==
    ASSUME NEW n \in Nat, NEW m \in Nat, NEW f \in Doubling(n), NEW g \in Doubling(m),
           NEW b \in Nat, b <= n, b <= m
    PROVE  f[b] = g[b]
<1>. DEFINE Failing == {k \in Nat : k <= n /\ k <= m /\ f[k] # g[k]}
<1>0. /\ f[0] = 1 /\ \A k \in 1..n : f[k] = 2 * f[k - 1]
      /\ g[0] = 1 /\ \A k \in 1..m : g[k] = 2 * g[k - 1]
  BY DEF Doubling
<1>1. Failing = {}
  <2>. SUFFICES ASSUME Failing # {} PROVE FALSE
    OBVIOUS
  <2>1. Failing \in SUBSET Nat
    OBVIOUS
  <2>2. PICK k \in Failing : \A j \in Failing : k <= j
    <3>. HIDE DEF Failing
    <3> QED BY <2>1, LeastElement
  <2>3. k \in Nat /\ k <= n /\ k <= m /\ f[k] # g[k]
    OBVIOUS
  <2>4. k # 0
    BY <1>0, <2>3
  <2>5. k - 1 \in Nat /\ k - 1 \notin Failing
    BY <2>2, <2>3, <2>4
  <2>6. f[k - 1] = g[k - 1]
    BY <2>3, <2>5
  <2>7. k \in 1..n /\ k \in 1..m
    BY <2>3, <2>4
  <2> QED BY <1>0, <2>3, <2>6, <2>7
<1> QED BY <1>1

\* Shifted is a positive number that doubles with every bit.
LEMMA ShiftedDoubles ==
    /\ \A k \in Nat : Shifted(k) \in Nat \ {0}
    /\ Shifted(0) = 1
    /\ \A k \in Nat : Shifted(k + 1) = 2 * Shifted(k)
<1>. DEFINE Of(n) == CHOOSE f : f \in Doubling(n)
            G == [n \in Nat |-> Of(n)[n]]
            pow == CHOOSE f : f = ShiftStep(f)
<1>1. \A n \in Nat : Of(n) \in Doubling(n)
  BY DoublingExists
<1>2. G[0] = 1
  BY <1>1 DEF Doubling
<1>3. ASSUME NEW n \in Nat, n # 0
      PROVE  G[n] = 2 * G[n - 1]
  <2>1. n - 1 \in Nat /\ n \in 1..n /\ n - 1 <= n
    BY <1>3
  <2>2. PICK f, g : f = Of(n) /\ g = Of(n - 1)
    OBVIOUS
  <2>3. f \in Doubling(n) /\ g \in Doubling(n - 1)
    BY <1>1, <2>1, <2>2
  <2>4. f[n] = 2 * f[n - 1]
    BY <2>1, <2>3 DEF Doubling
  <2>5. f[n - 1] = g[n - 1]
    BY <2>1, <2>3, DoublingAgree
  <2>6. G[n] = f[n] /\ G[n - 1] = g[n - 1]
    BY <2>1, <2>2
  <2> QED BY <2>4, <2>5, <2>6
<1>4. G = ShiftStep(G)
  <2>. DEFINE e(n) == Of(n)[n]
              f(n) == IF n = 0 THEN 1 ELSE 2 * G[n - 1]
  <2>1. ASSUME NEW n \in Nat
        PROVE  e(n) = f(n)
    <3>1. G[n] = e(n)
      OBVIOUS
    <3>. HIDE DEF G, Of
    <3> QED BY <1>2, <1>3, <3>1
  <2>2. G = [n \in Nat |-> e(n)] /\ ShiftStep(G) = [n \in Nat |-> f(n)]
    BY DEF ShiftStep
  <2>. HIDE DEF e, f, G
  <2> QED BY <2>1, <2>2
<1>5. pow = ShiftStep(pow)
  <2>. HIDE DEF G
  <2> QED BY <1>4
<1>6. \A k \in Nat : Shifted(k) = pow[k]
  BY DEF Shifted, ShiftStep
<1>. HIDE DEF pow, G
<1>7. pow[0] = 1 /\ \A k \in Nat : k # 0 => pow[k] = 2 * pow[k - 1]
  BY <1>5 DEF ShiftStep
<1>8. \A k \in Nat : pow[k + 1] = 2 * pow[k]
  <2>. TAKE k \in Nat
  <2>1. k + 1 \in Nat /\ k + 1 # 0 /\ (k + 1) - 1 = k
    OBVIOUS
  <2> QED BY <1>7, <2>1
<1>9. \A k \in Nat : pow[k] \in Nat \ {0}
  <2>. DEFINE Failing == {k \in Nat : pow[k] \notin Nat \ {0}}
  <2>. SUFFICES ASSUME Failing # {} PROVE FALSE
    OBVIOUS
  <2>1. Failing \in SUBSET Nat
    OBVIOUS
  <2>2. PICK k \in Failing : \A j \in Failing : k <= j
    <3>. HIDE DEF Failing
    <3> QED BY <2>1, LeastElement
  <2>3. k \in Nat /\ k # 0 /\ k - 1 \in Nat /\ pow[k - 1] \in Nat \ {0}
    BY <1>7, <2>2
  <2>4. pow[k] = 2 * pow[k - 1]
    BY <1>7, <2>3
  <2> QED BY <2>3, <2>4
<1> QED BY <1>6, <1>7, <1>8, <1>9

\* Shifting twice shifts by the sum.
LEMMA ShiftedAdds ==
    ASSUME NEW a \in Nat, NEW b \in Nat
    PROVE  Shifted(a + b) = Shifted(a) * Shifted(b)
<1>. DEFINE Failing == {k \in Nat : Shifted(a + k) # Shifted(a) * Shifted(k)}
<1>1. Failing = {}
  <2>. SUFFICES ASSUME Failing # {} PROVE FALSE
    OBVIOUS
  <2>1. Failing \in SUBSET Nat
    OBVIOUS
  <2>2. PICK k \in Failing : \A j \in Failing : k <= j
    <3>. HIDE DEF Failing
    <3> QED BY <2>1, LeastElement
  <2>3. k \in Nat /\ Shifted(a + k) # Shifted(a) * Shifted(k)
    OBVIOUS
  <2>4. k # 0
    BY <2>3, ShiftedDoubles
  <2>5. k - 1 \in Nat /\ k - 1 \notin Failing
    BY <2>2, <2>3, <2>4
  <2>6. Shifted(a + (k - 1)) = Shifted(a) * Shifted(k - 1)
    BY <2>5
  <2>7. a + (k - 1) \in Nat /\ (a + (k - 1)) + 1 = a + k /\ (k - 1) + 1 = k
    BY <2>3, <2>5
  <2>8. Shifted(a + k) = 2 * Shifted(a + (k - 1)) /\ Shifted(k) = 2 * Shifted(k - 1)
    BY <2>5, <2>7, ShiftedDoubles
  <2>9. PICK x, y : x = Shifted(a) /\ y = Shifted(k - 1)
    OBVIOUS
  <2>10. x \in Nat /\ y \in Nat
    BY <2>5, <2>9, ShiftedDoubles
  <2>11. 2 * (x * y) = x * (2 * y)
    BY <2>10
  <2> QED BY <2>3, <2>6, <2>8, <2>9, <2>11
<1> QED BY <1>1

\* More bits, a larger power.
LEMMA ShiftedGrows ==
    ASSUME NEW a \in Nat, NEW b \in Nat, a <= b
    PROVE  Shifted(a) <= Shifted(b)
<1>1. b - a \in Nat /\ a + (b - a) = b
  OBVIOUS
<1>2. Shifted(b) = Shifted(a) * Shifted(b - a)
  BY <1>1, ShiftedAdds
<1>3. PICK x, y : x = Shifted(a) /\ y = Shifted(b - a)
  OBVIOUS
<1>4. x \in Nat \ {0} /\ y \in Nat \ {0}
  BY <1>1, <1>3, ShiftedDoubles
<1>5. x * y >= x
  BY <1>4
<1> QED BY <1>2, <1>3, <1>5

\* Every number is below some power of two.
LEMMA BelowAPower ==
    ASSUME NEW n \in Nat
    PROVE  n < Shifted(n)
<1>. DEFINE Failing == {k \in Nat : ~(k < Shifted(k))}
<1>1. Failing = {}
  <2>. SUFFICES ASSUME Failing # {} PROVE FALSE
    OBVIOUS
  <2>1. Failing \in SUBSET Nat
    OBVIOUS
  <2>2. PICK k \in Failing : \A j \in Failing : k <= j
    <3>. HIDE DEF Failing
    <3> QED BY <2>1, LeastElement
  <2>3. k \in Nat /\ ~(k < Shifted(k))
    OBVIOUS
  <2>4. k # 0
    BY <2>3, ShiftedDoubles
  <2>5. k - 1 \in Nat /\ k - 1 \notin Failing /\ (k - 1) + 1 = k
    BY <2>2, <2>3, <2>4
  <2>6. k - 1 < Shifted(k - 1) /\ Shifted(k) = 2 * Shifted(k - 1)
    BY <2>5, ShiftedDoubles
  <2>7. PICK x, y : x = Shifted(k - 1) /\ y = Shifted(k)
    OBVIOUS
  <2>8. x \in Nat /\ k - 1 < x /\ y = 2 * x /\ ~(k < y)
    BY <2>3, <2>5, <2>6, <2>7, ShiftedDoubles
  <2>. HIDE DEF Failing
  <2> QED BY <2>3, <2>4, <2>8
<1> QED BY <1>1

-----------------------------------------------------------------------------
(* Log2.                                                                   *)

\* The step of Log2, for a function f of the number.
DigitStep(f) == [n \in Nat |-> IF n = 0 THEN 0 ELSE 1 + f[n \div 2]]

\* The fewest bits that n fits into.
Bits(n) == CHOOSE k \in Nat : n < Shifted(k) /\ \A j \in Nat : n < Shifted(j) => k <= j

\* There are such.
LEMMA BitsFit ==
    ASSUME NEW n \in Nat
    PROVE  /\ Bits(n) \in Nat /\ n < Shifted(Bits(n))
           /\ \A j \in Nat : n < Shifted(j) => Bits(n) <= j
<1>. DEFINE T == {k \in Nat : n < Shifted(k)}
<1>1. T \in SUBSET Nat /\ T # {}
  BY BelowAPower
<1>2. PICK k \in T : \A j \in T : k <= j
  <2>. HIDE DEF T
  <2> QED BY <1>1, LeastElement
<1>3. k \in Nat /\ n < Shifted(k) /\ \A j \in Nat : n < Shifted(j) => k <= j
  BY <1>2
<1> QED BY <1>3 DEF Bits

\* They are what the step counts.
LEMMA DigitsExist == [n \in Nat |-> Bits(n)] = DigitStep([n \in Nat |-> Bits(n)])
<1>. DEFINE G == [n \in Nat |-> Bits(n)]
            f(n) == IF n = 0 THEN 0 ELSE 1 + G[n \div 2]
<1>1. ASSUME NEW n \in Nat
      PROVE  Bits(n) = f(n)
  <2>1. CASE n = 0
    <3>1. 0 < Shifted(0)
      BY ShiftedDoubles
    <3>2. Bits(0) \in Nat /\ Bits(0) <= 0
      BY <3>1, BitsFit
    <3> QED BY <2>1, <3>2
  <2>2. CASE n # 0
    <3>1. PICK h, k, j : h = n \div 2 /\ k = Bits(h) /\ j = Bits(n)
      OBVIOUS
    <3>2. h \in Nat /\ n \in {2 * h, 2 * h + 1} /\ f(n) = 1 + k
      BY <2>2, <3>1
    <3>3. k \in Nat /\ h < Shifted(k) /\ \A i \in Nat : h < Shifted(i) => k <= i
      BY <3>1, <3>2, BitsFit
    <3>4. j \in Nat /\ n < Shifted(j) /\ \A i \in Nat : n < Shifted(i) => j <= i
      BY <3>1, BitsFit
    <3>5. j <= k + 1
      <4>1. k + 1 \in Nat /\ Shifted(k + 1) = 2 * Shifted(k) /\ Shifted(k) \in Nat
        BY <3>3, ShiftedDoubles
      <4>2. n < Shifted(k + 1)
        BY <3>2, <3>3, <4>1
      <4> QED BY <3>4, <4>1, <4>2
    <3>6. j # 0
      BY <2>2, <3>4, ShiftedDoubles
    <3>7. k <= j - 1
      <4>1. j - 1 \in Nat /\ (j - 1) + 1 = j
        BY <3>4, <3>6
      <4>2. Shifted(j) = 2 * Shifted(j - 1) /\ Shifted(j - 1) \in Nat
        BY <4>1, ShiftedDoubles
      <4>3. h < Shifted(j - 1)
        BY <3>2, <3>4, <4>2
      <4> QED BY <3>3, <4>1, <4>3
    <3>8. j = k + 1
      BY <3>3, <3>4, <3>5, <3>7
    <3>. HIDE DEF f
    <3> QED BY <3>1, <3>2, <3>3, <3>8
  <2> QED BY <2>1, <2>2
<1>2. DigitStep(G) = [n \in Nat |-> f(n)]
  BY DEF DigitStep
<1>. HIDE DEF f
<1> QED BY <1>1, <1>2

\* Log2 is the number of digits: the number is below that power of two, and
\* not below the one before.
LEMMA Log2Bounds ==
    ASSUME NEW n \in Nat
    PROVE  /\ Log2(n) \in Nat /\ n < Shifted(Log2(n))
           /\ n # 0 => Log2(n) >= 1 /\ Shifted(Log2(n) - 1) <= n
<1>. DEFINE digits == CHOOSE f : f = DigitStep(f)
<1>1. digits = DigitStep(digits)
  BY DigitsExist
<1>2. \A k \in Nat : Log2(k) = digits[k]
  BY DEF Log2, DigitStep
<1>. HIDE DEF digits
<1>3. \A k \in Nat : digits[k] = IF k = 0 THEN 0 ELSE 1 + digits[k \div 2]
  BY <1>1 DEF DigitStep
<1>. DEFINE Good(k) == /\ digits[k] \in Nat /\ k < Shifted(digits[k])
                       /\ k # 0 => digits[k] >= 1 /\ Shifted(digits[k] - 1) <= k
            Failing == {k \in Nat : ~Good(k)}
<1>4. ASSUME NEW k \in Nat, \A h \in 0..(k - 1) : Good(h)
      PROVE  Good(k)
  <2>1. CASE k = 0
    <3>1. digits[k] = 0
      BY <1>3, <2>1
    <3> QED BY <2>1, <3>1, ShiftedDoubles
  <2>2. CASE k # 0
    <3>1. PICK h, d : h = k \div 2 /\ d = digits[h]
      OBVIOUS
    <3>2. h \in 0..(k - 1) /\ k \in {2 * h, 2 * h + 1}
      BY <2>2, <3>1
    <3>3. digits[k] = d + 1 /\ d \in Nat /\ h < Shifted(d)
          /\ (h # 0 => d >= 1 /\ Shifted(d - 1) <= h)
      BY <1>3, <1>4, <2>2, <3>1, <3>2
    <3>4. Shifted(d + 1) = 2 * Shifted(d) /\ Shifted(d) \in Nat
      BY <3>3, ShiftedDoubles
    <3>5. k < Shifted(d + 1)
      BY <3>2, <3>3, <3>4
    <3>6. Shifted(d) <= k
      <4>1. CASE h = 0
        <5>1. digits[h] = 0
          BY <1>3, <4>1
        <5> QED BY <2>2, <3>1, <5>1, ShiftedDoubles
      <4>2. CASE h # 0
        <5>1. d - 1 \in Nat /\ (d - 1) + 1 = d /\ Shifted(d - 1) <= h
          BY <3>3, <4>2
        <5>2. Shifted(d) = 2 * Shifted(d - 1) /\ Shifted(d - 1) \in Nat
          BY <5>1, ShiftedDoubles
        <5> QED BY <3>2, <5>1, <5>2
      <4> QED BY <4>1, <4>2
    <3>7. digits[k] \in Nat /\ digits[k] >= 1 /\ digits[k] - 1 = d
      BY <3>3
    <3> QED BY <3>3, <3>5, <3>6, <3>7
  <2> QED BY <2>1, <2>2
<1>5. Failing = {}
  <2>. SUFFICES ASSUME Failing # {} PROVE FALSE
    OBVIOUS
  <2>1. Failing \in SUBSET Nat
    OBVIOUS
  <2>2. PICK k \in Failing : \A h \in Failing : k <= h
    <3>. HIDE DEF Failing
    <3> QED BY <2>1, LeastElement
  <2>3. k \in Nat /\ ~Good(k) /\ \A h \in 0..(k - 1) : Good(h)
    <3>. HIDE DEF Good
    <3> QED BY <2>2
  <2> QED BY <1>4, <2>3
<1>6. Good(n)
  <2>. HIDE DEF Good
  <2> QED BY <1>5
<1> QED BY <1>2, <1>6

-----------------------------------------------------------------------------
Pairs(l, m) == (0..(l - 1)) \X (0..(m - 1))

-----------------------------------------------------------------------------
(* Arithmetic of pairs.                                                    *)

\* Adding the same amount to two residues keeps them apart.
LEMMA ModAdd ==
    ASSUME NEW m \in Nat \ {0}, NEW a \in 0..(m - 1), NEW b \in 0..(m - 1), NEW h \in 0..(m - 1),
           (a + h) % m = (b + h) % m
    PROVE  a = b
<1>1. ASSUME NEW x \in 0..(m - 1) 
      PROVE  (x + h) % m = IF x + h < m THEN x + h ELSE x + h - m
  OBVIOUS
<1> QED BY <1>1

\* A remainder is below the divisor.
LEMMA ModRange ==
    ASSUME NEW m \in Nat \ {0}, NEW x \in Nat
    PROVE  x % m \in 0..(m - 1)
OBVIOUS

\* An element of l rows of m is given by its row and its place in the row.
LEMMA SplitElement ==
    ASSUME NEW l \in Nat, NEW m \in Nat \ {0}, NEW e \in 0..(l * m - 1)
    PROVE  /\ <<e \div m, e % m>> \in Pairs(l, m)
           /\ e = (e \div m) * m + (e % m)
<1>1. e \div m \in Nat /\ e % m \in 0..(m - 1) /\ e = (e \div m) * m + (e % m)
  OBVIOUS
<1>2. e \div m < l
  OBVIOUS
<1> QED BY <1>1, <1>2 DEF Pairs

\* Different pairs stand for different elements, all of them inside.
LEMMA JoinPair ==
    ASSUME NEW l \in Nat, NEW m \in Nat \ {0}, NEW x \in Pairs(l, m), NEW y \in Pairs(l, m)
    PROVE  /\ x[1] * m + x[2] \in 0..(l * m - 1)
           /\ x[1] * m + x[2] = y[1] * m + y[2] => x = y
<1>1. x[1] \in 0..(l - 1) /\ x[2] \in 0..(m - 1) /\ y[1] \in 0..(l - 1) /\ y[2] \in 0..(m - 1)
  BY DEF Pairs
<1>2. ASSUME NEW c \in Nat, NEW d \in Nat, c < d
      PROVE  c * m + m <= d * m
  <2>1. PICK k \in Nat : d = (c + 1) + k
    <3>1. d - c - 1 \in Nat /\ d = (c + 1) + (d - c - 1)
      BY <1>2
    <3> QED BY <3>1
  <2>2. d * m = (c + 1) * m + k * m /\ (c + 1) * m = c * m + m
    BY <2>1
  <2>3. k * m \in Nat /\ c * m \in Nat /\ (c + 1) * m \in Nat
    OBVIOUS
  <2> QED BY <2>2, <2>3
<1> QED BY <1>1, <1>2 DEF Pairs

-----------------------------------------------------------------------------
(* The rounds.                                                             *)

\* A round of FeistelNumPermutation takes pairs to pairs and can be undone.
LEMMA NumRoundInjective ==
    ASSUME NEW k \in Keys, NEW t \in Rounds, NEW m \in 1..(MaxIndex + 1),
           NEW x \in Pairs(m, m), NEW y \in Pairs(m, m)
    PROVE  /\ NumRound(k, m, t, x) \in Pairs(m, m)
           /\ NumRound(k, m, t, x) = NumRound(k, m, t, y) => x = y
<1>1. /\ m \in Nat \ {0} /\ MaxIndex \in Nat
      /\ x[1] \in 0..(m - 1) /\ x[2] \in 0..(m - 1) /\ x = <<x[1], x[2]>>
      /\ y[1] \in 0..(m - 1) /\ y[2] \in 0..(m - 1) /\ y = <<y[1], y[2]>>
  BY PermutationAssumption DEF Pairs
<1>2. \A i \in 0..(m - 1) : Hash(k, t, i) \in Nat
  BY <1>1, WordAssumption
<1>3. \A i \in 0..(m - 1) : Hash(k, t, i) % m \in 0..(m - 1)
  BY <1>1, <1>2, ModRange
<1> DEFINE Add(i, j) == (i + (Hash(k, t, j) % m)) % m
<1>4. \A i, j \in 0..(m - 1) : Add(i, j) \in 0..(m - 1)
  <2> TAKE i, j \in 0..(m - 1)
  <2>1. i + (Hash(k, t, j) % m) \in Nat
    BY <1>3
  <2> QED BY <2>1, <1>1, ModRange
<1>5. \A a, b, j \in 0..(m - 1) : Add(a, j) = Add(b, j) => a = b
  <2> TAKE a, b, j \in 0..(m - 1)
  <2>1. Hash(k, t, j) % m \in 0..(m - 1)
    BY <1>3
  <2> QED BY <2>1, <1>1, ModAdd
<1>6. \A u, v \in 0..(m - 1) : <<u, v>> \in Pairs(m, m)
  BY DEF Pairs
<1>7. CASE t % 2 = 1
  <2>1. /\ NumRound(k, m, t, x) = <<x[1], Add(x[2], x[1])>>
        /\ NumRound(k, m, t, y) = <<y[1], Add(y[2], y[1])>>
    BY <1>7 DEF NumRound
  <2> HIDE DEF Add
  <2>2. NumRound(k, m, t, x) \in Pairs(m, m)
    BY <2>1, <1>1, <1>4, <1>6
  <2>3. ASSUME NumRound(k, m, t, x) = NumRound(k, m, t, y)
        PROVE  x = y
    <3>1. x[1] = y[1] /\ Add(x[2], x[1]) = Add(y[2], y[1])
      BY <2>1, <2>3
    <3> QED BY <3>1, <1>1, <1>5
  <2> QED BY <2>2, <2>3
<1>8. CASE t % 2 # 1
  <2>1. /\ NumRound(k, m, t, x) = <<Add(x[1], x[2]), x[2]>>
        /\ NumRound(k, m, t, y) = <<Add(y[1], y[2]), y[2]>>
    BY <1>8 DEF NumRound
  <2> HIDE DEF Add
  <2>2. NumRound(k, m, t, x) \in Pairs(m, m)
    BY <2>1, <1>1, <1>4, <1>6
  <2>3. ASSUME NumRound(k, m, t, x) = NumRound(k, m, t, y)
        PROVE  x = y
    <3>1. x[2] = y[2] /\ Add(x[1], x[2]) = Add(y[1], y[2])
      BY <2>1, <2>3
    <3> QED BY <3>1, <1>1, <1>5
  <2> QED BY <2>2, <2>3
<1> QED BY <1>7, <1>8

\* An entry of the mixed permutation's tables has only bits of the right half.
LEMMA TableEntry ==
    ASSUME NEW k \in Keys, NEW t \in Rounds, NEW s \in 1..(MaxIndex + 1), NEW i \in 0..MaxIndex
    PROVE  /\ Table(k, s, t, i) \in 0..(s - 1)
           /\ Table(k, s, t, i) \div s = 0
           /\ Table(k, s, t, i) % s = Table(k, s, t, i)
<1>1. s \in Nat \ {0} /\ Hash(k, t, i) \in Nat
  BY PermutationAssumption, WordAssumption
<1>2. Table(k, s, t, i) \in 0..(s - 1)
  BY <1>1, ModRange DEF Table
<1>3. ASSUME NEW v \in 0..(s - 1)
      PROVE  v \div s = 0 /\ v % s = v
  BY <1>1
<1> QED BY <1>2, <1>3

\* So a round of the mixed permutation changes the right half only, by an
\* exclusive or, which undoes itself.
LEMMA MixRoundInjective ==
    ASSUME NEW n \in Requests, NEW k \in Keys, NEW t \in Rounds,
           NEW l \in 1..(MaxIndex + 1), NEW s \in 1..(MaxIndex + 1), s = RightSize(n),
           NEW x \in Pairs(l, s), NEW y \in Pairs(l, s)
    PROVE  /\ MixRound(k, l, s, t, x) \in Pairs(l, s)
           /\ MixRound(k, l, s, t, x)[1] = x[1]
           /\ MixRound(k, l, s, t, x) = MixRound(k, l, s, t, y) => x = y
<1>1. /\ l \in Nat \ {0} /\ s \in Nat \ {0} /\ MaxIndex \in Nat
      /\ x[1] \in 0..(l - 1) /\ x[2] \in 0..(s - 1) /\ x = <<x[1], x[2]>>
      /\ y[1] \in 0..(l - 1) /\ y[2] \in 0..(s - 1) /\ y = <<y[1], y[2]>>
  BY PermutationAssumption DEF Pairs
<1>2. CASE t % 2 = 1
  <2>1. /\ MixRound(k, l, s, t, x) = <<x[1], Xor(x[2], Table(k, s, t, x[1]))>>
        /\ MixRound(k, l, s, t, y) = <<y[1], Xor(y[2], Table(k, s, t, y[1]))>>
        /\ Table(k, s, t, x[1]) \in 0..(s - 1)
    <3>1. x[1] \in 0..MaxIndex /\ y[1] \in 0..MaxIndex
      BY <1>1
    <3> QED BY <3>1, <1>2, TableEntry DEF MixRound
  <2>2. \A u, v \in 0..(s - 1) : Xor(u, v) \in 0..(s - 1) /\ Xor(Xor(u, v), v) = u
    BY WordAssumption
  <2>3. ASSUME x[1] = y[1], Xor(x[2], Table(k, s, t, x[1])) = Xor(y[2], Table(k, s, t, x[1]))
        PROVE  x[2] = y[2]
    BY <2>1, <2>2, <2>3, <1>1
  <2>4. <<x[1], Xor(x[2], Table(k, s, t, x[1]))>> \in Pairs(l, s)
    BY <2>1, <2>2, <1>1 DEF Pairs
  <2>5. ASSUME MixRound(k, l, s, t, x) = MixRound(k, l, s, t, y)
        PROVE  x = y
    <3>1. x[1] = y[1] /\ Xor(x[2], Table(k, s, t, x[1])) = Xor(y[2], Table(k, s, t, x[1]))
      BY <2>1, <2>5
    <3> QED BY <3>1, <2>3, <1>1
  <2> QED BY <2>1, <2>4, <2>5
<1>3. CASE t % 2 # 1
  <2>1. ASSUME NEW v \in 0..(l - 1)
        PROVE  v % l = v
    BY <1>1
  <2>2. /\ MixRound(k, l, s, t, x) = <<(x[1] + 0) % l, x[2]>>
        /\ MixRound(k, l, s, t, y) = <<(y[1] + 0) % l, y[2]>>
    <3>1. x[2] \in 0..MaxIndex /\ y[2] \in 0..MaxIndex
      BY <1>1
    <3> QED BY <3>1, <1>3, TableEntry DEF MixRound
  <2>3. MixRound(k, l, s, t, x) = x /\ MixRound(k, l, s, t, y) = y
    BY <2>1, <2>2, <1>1
  <2> QED BY <2>3
<1> QED BY <1>2, <1>3

-----------------------------------------------------------------------------
(* The maps.                                                               *)

\* Five rounds on the pairs of a square.
LEMMA NumPermuteInjective ==
    ASSUME NEW k \in Keys, NEW m \in 1..(MaxIndex + 1),
           NEW d \in 0..(m * m - 1), NEW e \in 0..(m * m - 1)
    PROVE  /\ NumPermute(k, m, e) \in 0..(m * m - 1)
           /\ NumPermute(k, m, d) = NumPermute(k, m, e) => d = e
<1> DEFINE R(t, x) == NumRound(k, m, t, x)
           F(x) == R(4, R(3, R(2, R(1, R(0, x)))))
           P(i) == <<i \div m, i % m>>
<1>1. m \in Nat \ {0}
  BY PermutationAssumption
<1>2. \A t \in Rounds : \A x, y \in Pairs(m, m) :
          R(t, x) \in Pairs(m, m) /\ (R(t, x) = R(t, y) => x = y)
  BY NumRoundInjective
<1>3. 0 \in Rounds /\ 1 \in Rounds /\ 2 \in Rounds /\ 3 \in Rounds /\ 4 \in Rounds
  BY DEF Rounds
<1>4. \A x, y \in Pairs(m, m) : F(x) \in Pairs(m, m) /\ (F(x) = F(y) => x = y)
  <2> HIDE DEF R
  <2> QED BY <1>2, <1>3
<1>5. /\ P(d) \in Pairs(m, m) /\ d = P(d)[1] * m + P(d)[2]
      /\ P(e) \in Pairs(m, m) /\ e = P(e)[1] * m + P(e)[2]
  BY <1>1, SplitElement
<1>6. /\ NumPermute(k, m, d) = F(P(d))[1] * m + F(P(d))[2]
      /\ NumPermute(k, m, e) = F(P(e))[1] * m + F(P(e))[2]
  BY DEF NumPermute
<1> HIDE DEF F, P
<1>7. F(P(d)) \in Pairs(m, m) /\ F(P(e)) \in Pairs(m, m) /\ (F(P(d)) = F(P(e)) => P(d) = P(e))
  BY <1>4, <1>5
<1>8. /\ NumPermute(k, m, e) \in 0..(m * m - 1)
      /\ NumPermute(k, m, d) = NumPermute(k, m, e) => F(P(d)) = F(P(e))
  BY <1>1, <1>6, <1>7, JoinPair
<1> QED BY <1>5, <1>7, <1>8

\* Five rounds on the pairs of a rectangle; the row stays.
LEMMA MixPermuteInjective ==
    ASSUME NEW n \in Requests, NEW k \in Keys,
           NEW l \in 1..(MaxIndex + 1), NEW s \in 1..(MaxIndex + 1), s = RightSize(n),
           NEW d \in 0..(l * s - 1), NEW e \in 0..(l * s - 1)
    PROVE  /\ MixPermute(k, l, s, e) \in 0..(l * s - 1)
           /\ MixPermute(k, l, s, d) = MixPermute(k, l, s, e) => d = e
           /\ MixPermute(k, l, s, e) \div s = e \div s
<1> DEFINE R(t, x) == MixRound(k, l, s, t, x)
           F(x) == R(4, R(3, R(2, R(1, R(0, x)))))
           P(i) == <<i \div s, i % s>>
<1>1. l \in Nat /\ s \in Nat \ {0}
  BY PermutationAssumption
<1>2. \A t \in Rounds : \A x, y \in Pairs(l, s) :
          R(t, x) \in Pairs(l, s) /\ R(t, x)[1] = x[1] /\ (R(t, x) = R(t, y) => x = y)
  BY MixRoundInjective
<1>3. 0 \in Rounds /\ 1 \in Rounds /\ 2 \in Rounds /\ 3 \in Rounds /\ 4 \in Rounds
  BY DEF Rounds
<1>4. \A x, y \in Pairs(l, s) :
          F(x) \in Pairs(l, s) /\ F(x)[1] = x[1] /\ (F(x) = F(y) => x = y)
  <2> HIDE DEF R
  <2> QED BY <1>2, <1>3
<1>5. /\ P(d) \in Pairs(l, s) /\ d = P(d)[1] * s + P(d)[2]
      /\ P(e) \in Pairs(l, s) /\ e = P(e)[1] * s + P(e)[2]
  BY <1>1, SplitElement
<1>6. /\ MixPermute(k, l, s, d) = F(P(d))[1] * s + F(P(d))[2]
      /\ MixPermute(k, l, s, e) = F(P(e))[1] * s + F(P(e))[2]
      /\ P(e)[1] = e \div s
  BY DEF MixPermute
<1> HIDE DEF F, P
<1>7. /\ F(P(d)) \in Pairs(l, s) /\ F(P(e)) \in Pairs(l, s) /\ F(P(e))[1] = P(e)[1]
      /\ F(P(d)) = F(P(e)) => P(d) = P(e)
  BY <1>4, <1>5
<1>8. /\ MixPermute(k, l, s, e) \in 0..(l * s - 1)
      /\ MixPermute(k, l, s, d) = MixPermute(k, l, s, e) => F(P(d)) = F(P(e))
  BY <1>1, <1>6, <1>7, JoinPair
<1>9. MixPermute(k, l, s, e) \div s = F(P(e))[1]
  <2>1. F(P(e))[1] \in Nat /\ F(P(e))[2] \in 0..(s - 1)
    BY <1>7, <1>1 DEF Pairs
  <2>2. ASSUME NEW u \in Nat, NEW v \in 0..(s - 1)
        PROVE  (u * s + v) \div s = u
    BY <1>1
  <2> QED BY <1>6, <2>1, <2>2
<1> QED BY <1>5, <1>6, <1>7, <1>8, <1>9

\* The factor is prime to the size, so that multiples of it come back to the same
\* remainder only after size steps.
LEMMA FactorInjective ==
    ASSUME NEW p \in Nat \ {0}, NEW a \in Nat, Gcd(a, p) = 1,
           NEW d \in 0..(p - 1), NEW e \in 0..(p - 1), (d * a) % p = (e * a) % p
    PROVE  d = e
<1>1. PICK u, v \in Int : 1 = u * a + v * p
  BY Bezout
<1>2. PICK k, l, r : k = (d * a) \div p /\ l = (e * a) \div p /\ r = (d * a) % p
  OBVIOUS
<1>3. /\ k \in Int /\ l \in Int /\ r \in 0..(p - 1)
      /\ d * a = k * p + r /\ e * a = l * p + r
  <2>1. d * a \in Int /\ e * a \in Int
    OBVIOUS
  <2> QED BY <1>2, <2>1, Division
<1>4. PICK w \in Int : w = d - e /\ -p < w /\ w < p
  OBVIOUS
<1>5. w * a = (k - l) * p
  <2>1. w * a = d * a - e * a /\ (k - l) * p = k * p - l * p
    BY <1>3, <1>4
  <2>2. d * a \in Int /\ e * a \in Int /\ k * p \in Int /\ l * p \in Int
    BY <1>3
  <2> QED BY <1>3, <2>1, <2>2
<1>6. w = (u * (k - l) + w * v) * p
  <2>1. w = w * (u * a) + w * (v * p)
    <3>1. w * (u * a + v * p) = w * (u * a) + w * (v * p)
      OBVIOUS
    <3> QED BY <1>1, <3>1
  <2>2. w * (u * a) = u * (w * a) /\ w * (v * p) = (w * v) * p
    OBVIOUS
  <2>3. u * ((k - l) * p) = (u * (k - l)) * p
    BY <1>3
  <2>4. (u * (k - l)) * p + (w * v) * p = (u * (k - l) + w * v) * p
    BY <1>3
  <2> QED BY <1>5, <2>1, <2>2, <2>3, <2>4
<1>7. PICK c \in Int : c = u * (k - l) + w * v
  BY <1>3
<1>8. c = 0
  <2>1. w = c * p
    BY <1>6, <1>7
  <2>2. c >= 1 => c * p >= p
    OBVIOUS
  <2>3. c <= -1 => c * p <= -p
    OBVIOUS
  <2> QED BY <1>4, <2>1, <2>2, <2>3
<1> QED BY <1>4, <1>6, <1>7, <1>8

\* Both affine maps compute the same, inside and without a collision.
LEMMA AffineInjective ==
    ASSUME NEW k \in Keys, NEW p \in Nat, p >= 2, Gcd(ParamA(k, p), p) = 1,
           NEW d \in 0..(p - 1), NEW e \in 0..(p - 1)
    PROVE  /\ AffinePermute(k, p, e) \in 0..(p - 1)
           /\ AffinePermute(k, p, d) = AffinePermute(k, p, e) => d = e
           /\ Affine64Permute(k, p, e) = AffinePermute(k, p, e)
<1>1. ASSUME NEW w \in Nat
      PROVE  (w % (p \div 2)) + (p \div 2) \in Nat
  <2>1. p \div 2 \in Nat \ {0}
    OBVIOUS
  <2>2. w % (p \div 2) \in 0..((p \div 2) - 1)
    BY <2>1, ModRange
  <2> QED BY <2>1, <2>2
<1>2. PICK a, b : a = ParamA(k, p) /\ b = ParamB(k, p)
  OBVIOUS
<1>3. a \in Nat /\ b \in Nat /\ Gcd(a, p) = 1 /\ p \in Nat \ {0}
  BY <1>1, <1>2, WordAssumption DEF ParamA, ParamB
<1>4. \A i \in 0..(p - 1) : i * a \in Nat
  BY <1>3
<1>5. \A i \in 0..(p - 1) : (i * a) % p \in 0..(p - 1)
  BY <1>3, <1>4, ModRange
<1>6. PICK h : h = b % p
  OBVIOUS
<1>7. h \in 0..(p - 1)
  BY <1>3, <1>6, ModRange
<1>8. ASSUME NEW x \in 0..(p - 1)
      PROVE  (x + b) % p = (x + h) % p
  <2>1. x \in Int /\ b \in Int
    BY <1>3
  <2>2. ((b % p) + x) % p = (b + x) % p
    BY <1>3, <2>1, ReduceTerm
  <2>3. b + x = x + b /\ h + x = x + h
    BY <1>3, <1>7
  <2> QED BY <1>6, <2>2, <2>3
<1>9. \A i \in 0..(p - 1) : AffinePermute(k, p, i) = (((i * a) % p) + h) % p
  BY <1>2, <1>5, <1>8 DEF AffinePermute
<1>10. AffinePermute(k, p, e) \in 0..(p - 1)
  <2>1. ((e * a) % p) + h \in Nat
    BY <1>5, <1>7
  <2> QED BY <1>3, <1>9, <2>1, ModRange
<1>11. ASSUME AffinePermute(k, p, d) = AffinePermute(k, p, e)
       PROVE  d = e
  <2>1. (d * a) % p = (e * a) % p
    <3>1. PICK x, y : x = (d * a) % p /\ y = (e * a) % p
      OBVIOUS
    <3>2. x \in 0..(p - 1) /\ y \in 0..(p - 1) /\ (x + h) % p = (y + h) % p
      BY <1>5, <1>9, <1>11, <3>1
    <3> QED BY <1>3, <1>7, <3>1, <3>2, ModAdd
  <2> QED BY <1>3, <2>1, FactorInjective
<1>12. Affine64Permute(k, p, e) = AffinePermute(k, p, e)
  <2>1. Mulmod(e, a, p) = (e * a) % p
    BY <1>3, MulmodIsProduct
  <2> QED BY <1>2, <2>1 DEF Affine64Permute, AffinePermute
<1> QED BY <1>10, <1>11, <1>12

-----------------------------------------------------------------------------
(* The sizes.                                                              *)

\* The square root is found.
LEMMA ModulusFound ==
    ASSUME NEW n \in Nat
    PROVE  /\ Modulus(n) \in 0..n /\ Modulus(n) * Modulus(n) <= n
           /\ n < (Modulus(n) + 1) * (Modulus(n) + 1)
<1>. DEFINE T == {m \in Nat : n < (m + 1) * (m + 1)}
<1>1. T \in SUBSET Nat /\ n \in T
  <2>1. (n + 1) * (n + 1) >= n + 1
    OBVIOUS
  <2> QED BY <2>1
<1>2. PICK m \in T : \A j \in T : m <= j
  <2>. HIDE DEF T
  <2> QED BY <1>1, LeastElement
<1>3. m \in 0..n /\ n < (m + 1) * (m + 1)
  BY <1>1, <1>2
<1>4. m * m <= n
  <2>1. CASE m = 0
    BY <2>1
  <2>2. CASE m # 0
    <3>1. m - 1 \in Nat /\ m - 1 \notin T /\ (m - 1) + 1 = m
      BY <1>2, <1>3, <2>2
    <3>2. ~(n < m * m)
      BY <3>1
    <3>3. m * m \in Nat
      BY <1>3
    <3> QED BY <3>2, <3>3
  <2> QED BY <2>1, <2>2
<1> QED BY <1>3, <1>4 DEF Modulus

\* The halves of a size: both have elements, the left one has at most as many as the
\* right one, and the rectangle fits into the size.
LEMMA HalvesFit ==
    ASSUME NEW n \in Nat, n >= 2
    PROVE  /\ RightSize(n) \in Nat \ {0}
           /\ LeftMod(n) \in 1..RightSize(n)
           /\ LeftMod(n) * RightSize(n) <= n
<1>1. PICK b, h : b = Log2(n) /\ h = b \div 2
  OBVIOUS
<1>2. b \in Nat /\ b >= 1 /\ n < Shifted(b) /\ Shifted(b - 1) <= n
  BY <1>1, Log2Bounds
<1>3. b >= 2
  <2>1. b = 1 => Shifted(b) = 2
    <3>1. Shifted(0 + 1) = 2 * Shifted(0) /\ Shifted(0) = 1
      BY ShiftedDoubles
    <3> QED BY <3>1
  <2> QED BY <1>2, <2>1
<1>4. h \in Nat /\ b - h \in Nat /\ h <= b - h /\ b - h <= b - 1 /\ b - 1 \in Nat /\ (b - h) + h = b
  <2>1. h \in Nat /\ b \in {2 * h, 2 * h + 1}
    BY <1>1, <1>2
  <2> QED BY <1>3, <2>1
<1>5. PICK s, t : s = Shifted(b - h) /\ t = Shifted(h)
  OBVIOUS
<1>6. s \in Nat \ {0} /\ t \in Nat \ {0} /\ t <= s /\ s <= n /\ n < s * t
  <2>1. Shifted((b - h) + h) = s * t
    BY <1>4, <1>5, ShiftedAdds
  <2>2. s \in Nat \ {0} /\ t \in Nat \ {0}
    BY <1>4, <1>5, ShiftedDoubles
  <2>3. t <= s
    BY <1>4, <1>5, ShiftedGrows
  <2>4. s <= Shifted(b - 1) /\ Shifted(b - 1) \in Nat
    BY <1>4, <1>5, ShiftedGrows, ShiftedDoubles
  <2> QED BY <1>2, <1>4, <2>1, <2>2, <2>3, <2>4
<1>7. RightSize(n) = s /\ LeftMod(n) = n \div s
  BY <1>1, <1>5 DEF RightSize, RightBits, LeftMod
<1>8. PICK q, r : q = n \div s /\ r = n % s
  OBVIOUS
<1>9. q \in Int /\ r \in 0..(s - 1) /\ n = q * s + r
  BY <1>6, <1>8, Division
<1>10. q * s <= n /\ q * s + s > n
  <2>1. q * s \in Int
    BY <1>6, <1>9
  <2> QED BY <1>6, <1>9, <2>1
<1>11. q >= 1
  <2>1. q <= 0 => q * s <= 0
    BY <1>6, <1>9
  <2>2. q * s \in Int
    BY <1>6, <1>9
  <2> QED BY <1>6, <1>9, <1>10, <2>1, <2>2
<1>12. q <= s
  <2>1. ASSUME q > s PROVE FALSE
    <3>1. q * s >= s * s
      BY <1>6, <1>9, <2>1
    <3>2. s * s >= s * t
      BY <1>6
    <3>3. q * s \in Int /\ s * s \in Int /\ s * t \in Int
      BY <1>6, <1>9
    <3> QED BY <1>6, <1>10, <3>1, <3>2, <3>3
  <2> QED BY <1>6, <1>9, <2>1
<1> QED BY <1>6, <1>7, <1>8, <1>9, <1>10, <1>11, <1>12

Feistel == {"identity", "num", "mix"}
Affine == {"affine", "affine64"}

\* Init comes to an end without an exception.
Accepted(type, k, n) ==
    /\ ~Refused(type, n)
    /\ type \in Affine => Gcd(ParamA(k, AffineSize(n)), AffineSize(n)) = 1

\* An accepted size has an element and is not above the size asked for.
LEMMA InitSizeFits ==
    ASSUME NEW type \in Feistel \cup Affine, NEW n \in Requests, ~Refused(type, n)
    PROVE  InitSize(type, n) \in 1..n
<1>1. n \in Nat
  BY PermutationAssumption
<1>2. CASE type = "identity"
  BY <1>1, <1>2 DEF InitSize, Refused
<1>3. CASE type = "num"
  <2>1. PICK m : m = Modulus(n)
    OBVIOUS
  <2>2. m \in Nat /\ m * m <= n /\ n < (m + 1) * (m + 1) /\ n # 0
    BY <1>1, <1>3, <2>1, ModulusFound, PermutationAssumption DEF Refused
  <2>3. m # 0
    BY <1>1, <2>2
  <2>4. m * m \in Nat \ {0}
    BY <2>2, <2>3
  <2> QED BY <1>1, <1>3, <2>1, <2>2, <2>4 DEF InitSize
<1>4. CASE type = "mix"
  <2>1. n >= 2
    BY <1>1, <1>4, PermutationAssumption DEF Refused
  <2>2. PICK l, s : l = LeftMod(n) /\ s = RightSize(n)
    OBVIOUS
  <2>3. s \in Nat \ {0} /\ l \in 1..s /\ l * s <= n
    BY <1>1, <2>1, <2>2, HalvesFit
  <2>4. l * s \in Nat \ {0}
    BY <2>3
  <2> QED BY <1>1, <1>4, <2>2, <2>3, <2>4 DEF InitSize
<1>5. CASE type \in Affine
  <2>1. ClosestSmallerPrime(n) # 0
    BY <1>5 DEF Refused, AffineSize, Affine
  <2>2. ClosestSmallerPrime(n) \in 3..n
    BY <1>1, <2>1, ClosestAccepted
  <2> QED BY <1>1, <1>5, <2>2 DEF InitSize, AffineSize, Affine
<1> QED BY <1>2, <1>3, <1>4, <1>5 DEF Feistel

\* Whatever size Init accepts, the map is a permutation of that size.
LEMMA PermuteInjective ==
    ASSUME NEW type \in Feistel \cup Affine, NEW k \in Keys, NEW n \in Requests,
           Accepted(type, k, n),
           NEW d \in 0..(InitSize(type, n) - 1), NEW e \in 0..(InitSize(type, n) - 1)
    PROVE  /\ Permute(type, k, n, e) \in 0..(InitSize(type, n) - 1)
           /\ Permute(type, k, n, d) = Permute(type, k, n, e) => d = e
           /\ type = "mix" => Permute(type, k, n, e) \div RightSize(n) = e \div RightSize(n)
<1>0. n \in Nat /\ MaxIndex \in Nat /\ ~Refused(type, n)
  BY PermutationAssumption DEF Accepted
<1>1. CASE type = "identity"
  <2>1. InitSize(type, n) = n /\ Permute(type, k, n, d) = d /\ Permute(type, k, n, e) = e
    BY <1>1 DEF InitSize, Permute
  <2> QED BY <1>1, <2>1
<1>2. CASE type = "num"
  <2>1. Modulus(n) \in 1..(MaxIndex + 1)
    <3>1. PICK m : m = Modulus(n)
      OBVIOUS
    <3>2. m \in Nat /\ m <= MaxIndex + 1
      BY <1>0, <3>1, ModulusFound, HalvesAssumption
    <3>3. m * m \in 1..n
      BY <1>0, <1>2, <3>1, InitSizeFits DEF InitSize
    <3>4. m # 0
      BY <3>3
    <3> QED BY <1>0, <3>1, <3>2, <3>4
  <2>2. /\ InitSize(type, n) = Modulus(n) * Modulus(n)
        /\ Permute(type, k, n, d) = NumPermute(k, Modulus(n), d)
        /\ Permute(type, k, n, e) = NumPermute(k, Modulus(n), e)
    BY <1>2 DEF InitSize, Permute
  <2> QED BY <1>2, <2>1, <2>2, NumPermuteInjective
<1>3. CASE type = "mix"
  <2>1. LeftMod(n) \in 1..(MaxIndex + 1) /\ RightSize(n) \in 1..(MaxIndex + 1)
    <3>1. n >= 2
      BY <1>0, <1>3, PermutationAssumption DEF Refused
    <3>2. RightSize(n) \in Nat \ {0} /\ LeftMod(n) \in 1..RightSize(n)
      BY <1>0, <3>1, HalvesFit
    <3>3. RightSize(n) <= MaxIndex + 1
      BY HalvesAssumption
    <3> QED BY <1>0, <3>2, <3>3
  <2>2. /\ InitSize(type, n) = LeftMod(n) * RightSize(n)
        /\ Permute(type, k, n, d) = MixPermute(k, LeftMod(n), RightSize(n), d)
        /\ Permute(type, k, n, e) = MixPermute(k, LeftMod(n), RightSize(n), e)
    BY <1>3 DEF InitSize, Permute
  <2> QED BY <1>3, <2>1, <2>2, MixPermuteInjective
<1>4. CASE type \in Affine
  <2>1. PICK p : p = AffineSize(n)
    OBVIOUS
  <2>2. InitSize(type, n) = p /\ type # "mix"
    BY <1>4, <2>1 DEF InitSize, Affine
  <2>3. p \in Nat /\ p >= 2 /\ Gcd(ParamA(k, p), p) = 1
    <3>1. ClosestSmallerPrime(n) # 0
      BY <1>0, <1>4 DEF Refused, AffineSize, Affine
    <3>2. p \in 3..n
      BY <1>0, <2>1, <3>1, ClosestAccepted DEF AffineSize
    <3> QED BY <1>0, <1>4, <2>1, <3>2 DEF Accepted
  <2>4. \A i \in 0..(p - 1) : Affine64Permute(k, p, i) = AffinePermute(k, p, i)
    BY <2>3, AffineInjective
  <2>5. /\ Permute(type, k, n, d) = AffinePermute(k, p, d)
        /\ Permute(type, k, n, e) = AffinePermute(k, p, e)
    BY <1>4, <2>1, <2>2, <2>4 DEF Permute, Affine
  <2> QED BY <2>2, <2>3, <2>5, AffineInjective
<1> QED BY <1>1, <1>2, <1>3, <1>4 DEF Feistel

-----------------------------------------------------------------------------
(* Arithmetic modulo m.                                                    *)

\* A set of numbers with 0, and with the next of each, has them all.
LEMMA NumbersFrom0 ==
    ASSUME NEW S \in SUBSET Nat, 0 \in S, \A n \in S : n + 1 \in S
    PROVE  \A n \in Nat : n \in S
<1> SUFFICES ASSUME NEW w \in Nat, w \notin S PROVE FALSE
  OBVIOUS
<1>1. Nat \ S \in SUBSET Nat /\ Nat \ S # {}
  OBVIOUS
<1>2. PICK n \in Nat \ S : \A y \in Nat \ S : n <= y
  BY <1>1, LeastElement
<1>3. n # 0 /\ n - 1 \in Nat /\ (n - 1) + 1 = n
  BY <1>2
<1>4. n - 1 \in S
  BY <1>2, <1>3
<1> QED BY <1>2, <1>3, <1>4

\* A set of numbers with each that has all those below it in the set, has them all.
LEMMA NumbersFromBelow ==
    ASSUME NEW S \in SUBSET Nat, \A n \in Nat : 0..(n - 1) \subseteq S => n \in S
    PROVE  \A n \in Nat : n \in S
<1> SUFFICES ASSUME NEW w \in Nat, w \notin S PROVE FALSE
  OBVIOUS
<1>1. Nat \ S \in SUBSET Nat /\ Nat \ S # {}
  OBVIOUS
<1>2. PICK n \in Nat \ S : \A y \in Nat \ S : n <= y
  BY <1>1, LeastElement
<1>3. \A y \in 0..(n - 1) : y \in S
  BY <1>2
<1> QED BY <1>2, <1>3

\* The product's remainder.
Times(a, b, m) == (a * b) % m

\* Multiplication modulo m has a one, and factors may change places and be reduced.
LEMMA TimesTypes ==
    ASSUME NEW m \in Nat \ {0}, NEW a \in Nat, NEW b \in Nat
    PROVE  /\ Times(a, b, m) \in 0..(m - 1) /\ Times(a, b, m) = Times(b, a, m)
           /\ Times(a, b % m, m) = Times(a, b, m)
           /\ a \in 0..(m - 1) => Times(1, a, m) = a /\ Times(1 % m, a, m) = a
<1>1. a * b \in Nat /\ a * b = b * a
  OBVIOUS
<1>2. Times(a, b, m) \in 0..(m - 1) /\ Times(a, b, m) = Times(b, a, m)
  BY <1>1, Division DEF Times
<1>3. Times(a, b % m, m) = Times(a, b, m)
  <2>1. a \in Int /\ b \in Int /\ 0 \in Int
    OBVIOUS
  <2>2. (0 + a * (b % m)) % m = (0 + a * b) % m
    BY <2>1, ReduceFactor, Zenon
  <2>3. b % m \in Nat
    BY <2>1, Division
  <2>4. a * (b % m) \in Nat
    BY <2>3
  <2>5. 0 + a * (b % m) = a * (b % m) /\ 0 + a * b = a * b
    BY <1>1, <2>4
  <2> QED BY <2>2, <2>5, Zenon DEF Times
<1>4. ASSUME a \in 0..(m - 1)
      PROVE  Times(1, a, m) = a /\ Times(1 % m, a, m) = a
  <2>1. 1 * a = a /\ a % m = a
    BY <1>4
  <2>2. Times(1, a, m) = a
    BY <2>1 DEF Times
  <2>3. CASE m = 1
    <3>1. a = 0
      BY <1>4, <2>3
    <3>2. 1 % m \in Nat
      BY <2>3
    <3>3. (1 % m) * a = 0
      BY <3>1, <3>2
    <3>4. 0 % m = 0
      OBVIOUS
    <3> QED BY <2>2, <3>1, <3>3, <3>4 DEF Times
  <2>4. CASE m # 1
    <3>1. 1 % m = 1
      BY <2>4
    <3> QED BY <2>2, <3>1
  <2> QED BY <2>2, <2>3, <2>4
<1> QED BY <1>2, <1>3, <1>4

\* Factors may be grouped at will.
LEMMA TimesGroup ==
    ASSUME NEW m \in Nat \ {0}, NEW a \in Nat, NEW b \in Nat, NEW c \in Nat
    PROVE  Times(Times(a, b, m), c, m) = Times(a, Times(b, c, m), m)
<1>1. b * c \in Nat /\ a * b \in Nat /\ (a * b) * c = a * (b * c) /\ (a * b) * c = c * (a * b)
  OBVIOUS
<1>2. Times(a, (b * c) % m, m) = (a * (b * c)) % m
  <2>1. Times(a, (b * c) % m, m) = Times(a, b * c, m)
    BY <1>1, TimesTypes
  <2> QED BY <2>1, Zenon DEF Times
<1>3. Times(c, (a * b) % m, m) = (c * (a * b)) % m
  <2>1. Times(c, (a * b) % m, m) = Times(c, a * b, m)
    BY <1>1, TimesTypes
  <2> QED BY <2>1, Zenon DEF Times
<1>4. (a * b) % m \in Nat
  BY <1>1, Division
<1>5. Times((a * b) % m, c, m) = Times(c, (a * b) % m, m)
  BY <1>4, TimesTypes
<1>6. Times(a, b, m) = (a * b) % m /\ Times(b, c, m) = (b * c) % m
  BY Zenon DEF Times
<1>7. Times(Times(a, b, m), c, m) = (c * (a * b)) % m
  BY <1>3, <1>5, <1>6, Zenon
<1>8. Times(a, Times(b, c, m), m) = (a * (b * c)) % m
  BY <1>2, <1>6, Zenon
<1>9. c * (a * b) = a * (b * c)
  BY <1>1, Zenon
<1> QED BY <1>7, <1>8, <1>9, Zenon

\* These laws in one formula.
TimesLaws(m) ==
    /\ \A x, y \in Nat : Times(x, y, m) \in 0..(m - 1) /\ Times(x, y, m) = Times(y, x, m)
    /\ \A x, y, z \in Nat : Times(Times(x, y, m), z, m) = Times(x, Times(y, z, m), m)
    /\ \A x \in 0..(m - 1) : Times(1, x, m) = x /\ Times(1 % m, x, m) = x

\* Multiplication has them, whatever the modulus.
LEMMA TimesHasLaws ==
    ASSUME NEW m \in Nat \ {0}
    PROVE  TimesLaws(m)
BY TimesTypes, TimesGroup DEF TimesLaws

-----------------------------------------------------------------------------
(* Powers modulo m.                                                        *)

\* The lists of the first powers of a.
PowerLists(a, m, n) ==
    {f \in [0..n -> Nat] : f[0] = 1 % m /\ \A i \in 1..n : f[i] = Times(a, f[i - 1], m)}

\* There is one of every length.
LEMMA PowerListExists ==
    ASSUME NEW m \in Nat \ {0}, NEW a \in Nat, NEW n \in Nat
    PROVE  PowerLists(a, m, n) # {}
<1>. DEFINE S == {k \in Nat : PowerLists(a, m, k) # {}}
<1>1. 0 \in S
  <2>1. 1 % m \in Nat
    BY Division
  <2>2. [i \in 0..0 |-> 1 % m] \in PowerLists(a, m, 0)
    BY <2>1 DEF PowerLists
  <2> QED BY <2>2
<1>2. ASSUME NEW k \in S
      PROVE  k + 1 \in S
  <2>1. k \in Nat /\ k + 1 \in Nat
    OBVIOUS
  <2>2. PICK f : f \in PowerLists(a, m, k)
    OBVIOUS
  <2>3. /\ f \in [0..k -> Nat] /\ f[0] = 1 % m
        /\ \A i \in 1..k : f[i] = Times(a, f[i - 1], m)
    BY <2>2 DEF PowerLists
  <2>4. PICK y \in Nat : y = Times(a, f[k], m)
    <3>1. PICK x \in Nat : x = f[k]
      BY <2>1, <2>3
    <3>2. Times(a, x, m) \in Nat
      <4>1. Times(a, x, m) \in 0..(m - 1)
        BY TimesTypes
      <4> QED BY <4>1
    <3> QED BY <3>1, <3>2
  <2>. DEFINE g == [i \in 0..(k + 1) |-> IF i = k + 1 THEN y ELSE f[i]]
  <2>5. g \in [0..(k + 1) -> Nat] /\ g[0] = 1 % m
    BY <2>1, <2>3, <2>4
  <2>6. ASSUME NEW i \in 1..(k + 1)
        PROVE  g[i] = Times(a, g[i - 1], m)
    <3>1. i - 1 \in 0..k /\ g[i - 1] = f[i - 1] /\ i \in 0..(k + 1)
      BY <2>1
    <3>2. CASE i = k + 1
      <4>1. g[i] = y /\ i - 1 = k
        BY <2>1, <3>1, <3>2
      <4> QED BY <2>4, <3>1, <4>1
    <3>3. CASE i # k + 1
      <4>1. i \in 1..k /\ g[i] = f[i]
        BY <2>1, <3>1, <3>3
      <4>. HIDE DEF g
      <4> QED BY <2>3, <3>1, <4>1
    <3> QED BY <3>2, <3>3
  <2>. HIDE DEF g
  <2>7. g \in PowerLists(a, m, k + 1)
    BY <2>5, <2>6 DEF PowerLists
  <2> QED BY <2>1, <2>7
<1>3. S \in SUBSET Nat
  OBVIOUS
<1>4. n \in S
  <2>. HIDE DEF S
  <2> QED BY <1>1, <1>2, <1>3, NumbersFrom0
<1> QED BY <1>4

\* And they agree.
LEMMA PowerListsAgree ==
    ASSUME NEW m \in Nat \ {0}, NEW a \in Nat, NEW n \in Nat,
           NEW f \in PowerLists(a, m, n), NEW g \in PowerLists(a, m, n + 1)
    PROVE  f[n] = g[n]
<1>. DEFINE S == {k \in Nat : k <= n => f[k] = g[k]}
<1>0. /\ f[0] = 1 % m /\ \A i \in 1..n : f[i] = Times(a, f[i - 1], m)
      /\ g[0] = 1 % m /\ \A i \in 1..(n + 1) : g[i] = Times(a, g[i - 1], m)
  BY DEF PowerLists
<1>1. 0 \in S
  BY <1>0
<1>2. ASSUME NEW k \in S
      PROVE  k + 1 \in S
  <2>1. CASE k + 1 <= n
    <3>1. k + 1 \in 1..n /\ k + 1 \in 1..(n + 1) /\ (k + 1) - 1 = k /\ f[k] = g[k]
      BY <2>1
    <3>2. f[k + 1] = Times(a, f[(k + 1) - 1], m) /\ g[k + 1] = Times(a, g[(k + 1) - 1], m)
      BY <1>0, <3>1
    <3> QED BY <3>1, <3>2
  <2> QED BY <2>1
<1>3. S \in SUBSET Nat
  OBVIOUS
<1>4. n \in S
  <2>. HIDE DEF S
  <2> QED BY <1>1, <1>2, <1>3, NumbersFrom0
<1> QED BY <1>4

\* a to the power of n.
Pow(a, m, n) == (CHOOSE f : f \in PowerLists(a, m, n))[n]

\* Each power is a times the one before.
LEMMA PowSteps ==
    ASSUME NEW m \in Nat \ {0}, NEW a \in Nat
    PROVE  /\ \A n \in Nat : Pow(a, m, n) \in 0..(m - 1)
           /\ Pow(a, m, 0) = 1 % m
           /\ \A n \in Nat : Pow(a, m, n + 1) = Times(a, Pow(a, m, n), m)
<1>. DEFINE Of(n) == CHOOSE f : f \in PowerLists(a, m, n)
<1>1. \A n \in Nat : Of(n) \in PowerLists(a, m, n)
  BY PowerListExists
<1>2. \A n \in Nat : Pow(a, m, n) = Of(n)[n]
  BY DEF Pow
<1>. HIDE DEF Of
<1>3. Pow(a, m, 0) = 1 % m
  BY <1>1, <1>2 DEF PowerLists
<1>4. ASSUME NEW n \in Nat
      PROVE  Pow(a, m, n + 1) = Times(a, Pow(a, m, n), m) /\ Pow(a, m, n) \in Nat
  <2>1. n + 1 \in Nat /\ n + 1 \in 1..(n + 1) /\ (n + 1) - 1 = n
    OBVIOUS
  <2>2. PICK f, g : f = Of(n) /\ g = Of(n + 1)
    OBVIOUS
  <2>3. f \in PowerLists(a, m, n) /\ g \in PowerLists(a, m, n + 1)
    BY <1>1, <2>1, <2>2
  <2>4. f[n] = g[n]
    BY <2>3, PowerListsAgree
  <2>5. g[n + 1] = Times(a, g[(n + 1) - 1], m)
    BY <2>1, <2>3 DEF PowerLists
  <2>6. Pow(a, m, n) = f[n] /\ Pow(a, m, n + 1) = g[n + 1]
    BY <1>2, <2>1, <2>2
  <2>7. f[n] \in Nat
    BY <2>3 DEF PowerLists
  <2> QED BY <2>1, <2>4, <2>5, <2>6, <2>7
<1>5. ASSUME NEW n \in Nat
      PROVE  Pow(a, m, n) \in 0..(m - 1)
  <2>1. CASE n = 0
    <3>1. 1 % m \in 0..(m - 1)
      BY Division
    <3> QED BY <1>3, <2>1, <3>1
  <2>2. CASE n # 0
    <3>1. n - 1 \in Nat /\ (n - 1) + 1 = n
      BY <2>2
    <3>2. Pow(a, m, n - 1) \in Nat /\ Pow(a, m, (n - 1) + 1) = Times(a, Pow(a, m, n - 1), m)
      BY <1>4, <3>1
    <3>3. Times(a, Pow(a, m, n - 1), m) \in 0..(m - 1)
      BY <3>2, TimesTypes
    <3> QED BY <3>1, <3>2, <3>3
  <2> QED BY <2>1, <2>2
<1> QED BY <1>3, <1>4, <1>5

\* The steps in one formula.
PowLaws(a, m) ==
    /\ \A n \in Nat : Pow(a, m, n) \in 0..(m - 1)
    /\ Pow(a, m, 0) = 1 % m
    /\ \A n \in Nat : Pow(a, m, n + 1) = Times(a, Pow(a, m, n), m)

\* Powers have them, whatever number and modulus.
LEMMA PowHasLaws ==
    ASSUME NEW m \in Nat \ {0}, NEW a \in Nat
    PROVE  PowLaws(a, m)
BY PowSteps DEF PowLaws

\* A power of a sum is a product.
LEMMA PowAdds ==
    ASSUME NEW m \in Nat \ {0}, NEW a \in Nat, NEW i \in Nat, NEW j \in Nat
    PROVE  Pow(a, m, i + j) = Times(Pow(a, m, i), Pow(a, m, j), m)
<1>. DEFINE S == {k \in Nat : Pow(a, m, k + j) = Times(Pow(a, m, k), Pow(a, m, j), m)}
<1>1. TimesLaws(m) /\ PowLaws(a, m)
  BY TimesHasLaws, PowHasLaws
<1>2. Pow(a, m, j) \in Nat /\ Pow(a, m, j) \in 0..(m - 1)
  BY <1>1 DEF PowLaws
<1>3. 0 \in S
  <2>1. 0 + j = j /\ Pow(a, m, 0) = 1 % m /\ Times(1 % m, Pow(a, m, j), m) = Pow(a, m, j)
    BY <1>1, <1>2 DEF PowLaws, TimesLaws
  <2> QED BY <2>1
<1>4. ASSUME NEW k \in S
      PROVE  k + 1 \in S
  <2>1. k \in Nat /\ k + j \in Nat /\ (k + 1) + j = (k + j) + 1
    OBVIOUS
  <2>2. Pow(a, m, (k + j) + 1) = Times(a, Times(Pow(a, m, k), Pow(a, m, j), m), m)
    BY <1>1, <2>1 DEF PowLaws
  <2>3. Pow(a, m, k) \in Nat /\ Pow(a, m, k + 1) = Times(a, Pow(a, m, k), m)
    BY <1>1, <2>1 DEF PowLaws
  <2>4. Times(a, Times(Pow(a, m, k), Pow(a, m, j), m), m)
          = Times(Times(a, Pow(a, m, k), m), Pow(a, m, j), m)
    BY <1>1, <1>2, <2>3 DEF TimesLaws
  <2>5. Pow(a, m, (k + 1) + j) = Times(Pow(a, m, k + 1), Pow(a, m, j), m)
    BY <2>1, <2>2, <2>3, <2>4
  <2> QED BY <2>1, <2>5
<1>5. S \in SUBSET Nat
  OBVIOUS
<1>6. i \in S
  <2>. HIDE DEF S
  <2> QED BY <1>3, <1>4, <1>5, NumbersFrom0
<1> QED BY <1>6

\* A power of the square is one of twice the exponent.
LEMMA PowOfSquare ==
    ASSUME NEW m \in Nat \ {0}, NEW a \in Nat, NEW h \in Nat
    PROVE  Pow(Times(a, a, m), m, h) = Pow(a, m, 2 * h)
<1>1. PICK s \in Nat : s = Times(a, a, m)
  BY TimesTypes
<1>. DEFINE S == {k \in Nat : Pow(s, m, k) = Pow(a, m, 2 * k)}
<1>2. TimesLaws(m) /\ PowLaws(a, m) /\ PowLaws(s, m)
  BY TimesHasLaws, PowHasLaws
<1>3. 0 \in S
  BY <1>2 DEF PowLaws
<1>4. ASSUME NEW k \in S
      PROVE  k + 1 \in S
  <2>1. k \in Nat /\ 2 * k \in Nat /\ 2 * k + 1 \in Nat /\ 2 * (k + 1) = (2 * k + 1) + 1
    OBVIOUS
  <2>2. PICK x \in Nat : x = Pow(a, m, 2 * k)
    BY <1>2, <2>1 DEF PowLaws
  <2>3. /\ Pow(a, m, 2 * k + 1) = Times(a, x, m)
        /\ Pow(a, m, (2 * k + 1) + 1) = Times(a, Times(a, x, m), m)
    BY <1>2, <2>1, <2>2 DEF PowLaws
  <2>4. Pow(s, m, k + 1) = Times(s, x, m)
    BY <1>2, <2>1, <2>2 DEF PowLaws
  <2>5. Times(s, x, m) = Times(a, Times(a, x, m), m)
    BY <1>1, <1>2, <2>2 DEF TimesLaws
  <2> QED BY <2>1, <2>3, <2>4, <2>5
<1>5. S \in SUBSET Nat
  OBVIOUS
<1>6. h \in S
  <2>. HIDE DEF S
  <2> QED BY <1>3, <1>4, <1>5, NumbersFrom0
<1> QED BY <1>1, <1>6

-----------------------------------------------------------------------------
(* Modulo.                                                                 *)

\* The step of Modulo, for a function f of y, b and x.
RaiseStep(c, f) ==
    [t \in Triples |->
        IF t[2] = 0 THEN t[3] % c
        ELSE f[<<(t[1] * t[1]) % c, t[2] \div 2,
                 IF t[2] % 2 = 1 THEN (t[3] * t[1]) % c ELSE t[3]>>]]

\* What x has become in the end.
Raised(c) == [t \in Triples |-> Times(t[3], Pow(t[1], c, t[2]), c)]

\* A step leaves that as it is.
LEMMA RaisedIsStable ==
    ASSUME NEW c \in Nat \ {0}
    PROVE  Raised(c) = RaiseStep(c, Raised(c))
<1>. DEFINE next(t) == <<(t[1] * t[1]) % c, t[2] \div 2,
                         IF t[2] % 2 = 1 THEN (t[3] * t[1]) % c ELSE t[3]>>
            e(t) == Times(t[3], Pow(t[1], c, t[2]), c)
            f(t) == IF t[2] = 0 THEN t[3] % c ELSE Raised(c)[next(t)]
<1>0. TimesLaws(c) /\ \A y \in Nat : PowLaws(y, c)
  BY TimesHasLaws, PowHasLaws
<1>1. ASSUME NEW y \in Nat, NEW n \in Nat, NEW x \in Nat
      PROVE  f(<<y, n, x>>) = Times(x, Pow(y, c, n), c)
  <2>1. CASE n = 0
    <3>1. f(<<y, n, x>>) = x % c
      BY <2>1
    <3>2. Pow(y, c, n) = 1 % c
      BY <1>0, <2>1 DEF PowLaws
    <3>3. Times(x, 1 % c, c) = Times(x, 1, c)
      BY TimesTypes
    <3>4. Times(x, 1, c) = x % c
      <4>1. x * 1 = x
        OBVIOUS
      <4> QED BY <4>1, Zenon DEF Times
    <3> QED BY <3>1, <3>2, <3>3, <3>4, Zenon
  <2>2. CASE n # 0
    <3>1. PICK h, r : h = n \div 2 /\ r = n % 2
      OBVIOUS
    <3>2. h \in Nat /\ r \in 0..1 /\ n = 2 * h + r
      BY <3>1
    <3>3. PICK s \in Nat : s = Times(y, y, c)
      BY TimesTypes
    <3>4. PICK w \in Nat : w = IF r = 1 THEN Times(x, y, c) ELSE x
      BY TimesTypes
    <3>5. (y * y) % c = s /\ (x * y) % c = Times(x, y, c)
      BY <3>3, Zenon DEF Times
    <3>6. <<y, n, x>>[1] = y /\ <<y, n, x>>[2] = n /\ <<y, n, x>>[3] = x
      OBVIOUS
    <3>7. next(<<y, n, x>>) = <<s, h, w>>
      BY <3>1, <3>4, <3>5, <3>6, Zenon
    <3>8. f(<<y, n, x>>) = Raised(c)[<<s, h, w>>] /\ <<s, h, w>> \in Triples
      <4>1. f(<<y, n, x>>) = Raised(c)[<<s, h, w>>]
        <5>. HIDE DEF next
        <5> QED BY <2>2, <3>6, <3>7, Zenon
      <4> QED BY <4>1, <3>2 DEF Triples
    <3>9. f(<<y, n, x>>) = Times(w, Pow(s, c, h), c)
      <4>. HIDE DEF f
      <4> QED BY <3>8 DEF Raised
    <3>10. Pow(s, c, h) = Pow(y, c, 2 * h)
      BY <3>2, <3>3, PowOfSquare
    <3>11. CASE r = 0
      <4>1. w = x /\ n = 2 * h
        BY <3>2, <3>4, <3>11
      <4>. HIDE DEF f
      <4> QED BY <3>9, <3>10, <4>1
    <3>12. CASE r = 1
      <4>1. w = Times(x, y, c) /\ n = 2 * h + 1 /\ 2 * h \in Nat
        BY <3>2, <3>4, <3>12
      <4>2. PICK z \in Nat : z = Pow(y, c, 2 * h)
        BY <1>0, <4>1 DEF PowLaws
      <4>3. Pow(y, c, n) = Times(y, z, c)
        BY <1>0, <4>1, <4>2 DEF PowLaws
      <4>4. Times(Times(x, y, c), z, c) = Times(x, Times(y, z, c), c)
        BY <1>0 DEF TimesLaws
      <4>. HIDE DEF f
      <4> QED BY <3>9, <3>10, <4>1, <4>2, <4>3, <4>4
    <3>. HIDE DEF f
    <3> QED BY <3>2, <3>11, <3>12
  <2>. HIDE DEF f
  <2> QED BY <2>1, <2>2
<1>2. ASSUME NEW t \in Triples
      PROVE  e(t) = f(t)
  <2>1. PICK y \in Nat, n \in Nat, x \in Nat : t = <<y, n, x>>
    BY DEF Triples
  <2>2. e(t) = Times(x, Pow(y, c, n), c)
    BY <2>1
  <2>. HIDE DEF e, f
  <2> QED BY <1>1, <2>1, <2>2
<1>3. Raised(c) = [t \in Triples |-> e(t)] /\ RaiseStep(c, Raised(c)) = [t \in Triples |-> f(t)]
  BY DEF Raised, RaiseStep
<1>. HIDE DEF e, f
<1> QED BY <1>2, <1>3

\* Modulo is the power's remainder.
LEMMA ModuloIsPower ==
    ASSUME NEW a \in Nat, NEW b \in Nat, NEW c \in Nat \ {0}
    PROVE  Modulo(a, b, c) = Pow(a, c, b)
<1>. DEFINE power == CHOOSE f : f = RaiseStep(c, f)
<1>1. power = RaiseStep(c, power)
  BY RaisedIsStable
<1>2. Modulo(a, b, c) = power[<<a, b, 1>>]
  BY DEF Modulo, RaiseStep, Triples
<1>. HIDE DEF power
<1>3. \A t \in Triples :
        /\ power[t] = IF t[2] = 0 THEN t[3] % c
                      ELSE power[<<(t[1] * t[1]) % c, t[2] \div 2,
                                   IF t[2] % 2 = 1 THEN (t[3] * t[1]) % c ELSE t[3]>>]
        /\ Raised(c)[t] = IF t[2] = 0 THEN t[3] % c
                      ELSE Raised(c)[<<(t[1] * t[1]) % c, t[2] \div 2,
                                   IF t[2] % 2 = 1 THEN (t[3] * t[1]) % c ELSE t[3]>>]
  <2>. TAKE t \in Triples
  <2>1. power[t] = RaiseStep(c, power)[t] /\ Raised(c)[t] = RaiseStep(c, Raised(c))[t]
    BY <1>1, RaisedIsStable, Zenon
  <2>2. \A f : RaiseStep(c, f)[t] = IF t[2] = 0 THEN t[3] % c
                      ELSE f[<<(t[1] * t[1]) % c, t[2] \div 2,
                                   IF t[2] % 2 = 1 THEN (t[3] * t[1]) % c ELSE t[3]>>]
    BY DEF RaiseStep
  <2> QED BY <2>1, <2>2, Zenon
<1>. DEFINE Powers(n) == \A y, x \in Nat : power[<<y, n, x>>] = Raised(c)[<<y, n, x>>]
            S == {n \in Nat : Powers(n)}
<1>4. ASSUME NEW n \in Nat, \A h \in 0..(n - 1) : Powers(h)
      PROVE  Powers(n)
  <2>. SUFFICES ASSUME NEW y \in Nat, NEW x \in Nat
                PROVE  power[<<y, n, x>>] = Raised(c)[<<y, n, x>>]
    OBVIOUS
  <2>1. <<y, n, x>> \in Triples /\ <<y, n, x>>[1] = y /\ <<y, n, x>>[2] = n /\ <<y, n, x>>[3] = x
    BY DEF Triples
  <2>2. CASE n = 0
    BY <1>3, <2>1, <2>2
  <2>3. CASE n # 0
    <3>1. PICK h : h = n \div 2
      OBVIOUS
    <3>2. h \in 0..(n - 1)
      BY <2>3, <3>1
    <3>3. PICK s, w : s = (y * y) % c /\ w = IF n % 2 = 1 THEN (x * y) % c ELSE x
      OBVIOUS
    <3>4. s \in Nat /\ w \in Nat
      <4>1. y * y \in Nat /\ x * y \in Nat
        OBVIOUS
      <4> QED BY <3>3, <4>1, Division
    <3>5. power[<<y, n, x>>] = power[<<s, h, w>>] /\ Raised(c)[<<y, n, x>>] = Raised(c)[<<s, h, w>>]
      BY <1>3, <2>1, <2>3, <3>1, <3>3, Zenon
    <3>6. power[<<s, h, w>>] = Raised(c)[<<s, h, w>>]
      BY <1>4, <3>2, <3>4
    <3> QED BY <3>5, <3>6
  <2> QED BY <2>2, <2>3
<1>5. \A n \in Nat : n \in S
  <2>1. S \in SUBSET Nat
    OBVIOUS
  <2>2. \A n \in Nat : 0..(n - 1) \subseteq S => n \in S
    <3>. TAKE n \in Nat
    <3>. HAVE 0..(n - 1) \subseteq S
    <3>1. \A h \in 0..(n - 1) : Powers(h)
      <4>. HIDE DEF Powers
      <4> QED OBVIOUS
    <3>2. Powers(n)
      <4>. HIDE DEF Powers
      <4> QED BY <1>4, <3>1
    <3>. HIDE DEF Powers
    <3> QED BY <3>2
  <2>. HIDE DEF S
  <2> QED BY <2>1, <2>2, NumbersFromBelow
<1>6. power[<<a, b, 1>>] = Raised(c)[<<a, b, 1>>]
  <2>1. Powers(b)
    <3>. HIDE DEF Powers
    <3> QED BY <1>5
  <2> QED BY <2>1
<1>7. Raised(c)[<<a, b, 1>>] = Times(1, Pow(a, c, b), c)
  BY DEF Raised, Triples
<1>8. Times(1, Pow(a, c, b), c) = Pow(a, c, b)
  BY PowHasLaws, TimesHasLaws DEF PowLaws, TimesLaws
<1> QED BY <1>2, <1>6, <1>7, <1>8, Zenon

-----------------------------------------------------------------------------
(* OddPart.                                                                *)

\* The step of OddPart, for a function f of the number.
OddStep(f) == [s \in Nat |-> IF s % 2 = 0 THEN f[s \div 2] ELSE s]

OddDivisors(s) == {d \in Nat : d % 2 = 1 /\ Divides(d, s)}

\* The greatest odd divisor is a function that the step leads to itself.
LEMMA OddExists ==
    LET G == [s \in Nat |-> IF s = 0 THEN 0 ELSE Greatest(OddDivisors(s))]
    IN  G = OddStep(G)
<1>. DEFINE e(s) == IF s = 0 THEN 0 ELSE Greatest(OddDivisors(s))
            G == [s \in Nat |-> e(s)]
            f(s) == IF s % 2 = 0 THEN G[s \div 2] ELSE s
<1>1. ASSUME NEW s \in Nat
      PROVE  e(s) = f(s)
  <2>1. CASE s = 0
    <3>1. s % 2 = 0 /\ s \div 2 = 0
      BY <2>1
    <3> QED BY <2>1, <3>1
  <2>2. CASE s # 0 /\ s % 2 = 0
    <3>1. PICK h \in Nat : h = s \div 2 /\ s = 2 * h /\ h # 0
      BY <2>2
    <3>2. OddDivisors(s) = OddDivisors(h)
      <4>1. ASSUME NEW d \in Nat, d % 2 = 1, Divides(d, s)
            PROVE  Divides(d, h)
        <5>1. PICK k \in Nat : s = k * d
          BY <4>1 DEF Divides
        <5>2. PICK c \in Nat : d = 2 * c + 1
          <6>1. d = 2 * (d \div 2) + 1 /\ d \div 2 \in Nat
            BY <4>1
          <6> QED BY <6>1
        <5>3. k = 2 * (h - k * c)
          <6>1. PICK w \in Int : w = k * c
            OBVIOUS
          <6>2. k * (2 * c + 1) = 2 * w + k
            <7>1. k * (2 * c + 1) = 2 * (k * c) + k
              OBVIOUS
            <7> QED BY <6>1, <7>1
          <6>3. s = 2 * w + k
            BY <5>1, <5>2, <6>2
          <6>4. s = 2 * h
            BY <3>1
          <6>5. s \in Int /\ h \in Int /\ w \in Int /\ k \in Int
            OBVIOUS
          <6>6. k = 2 * (h - w)
            BY <6>3, <6>4, <6>5
          <6> QED BY <6>1, <6>6, Zenon
        <5>4. PICK x \in Int : x = h - k * c
          OBVIOUS
        <5>5. x \in Nat /\ k = 2 * x
          <6>1. k = 2 * x
            BY <5>3, <5>4, Zenon
          <6>2. x \in Int /\ k \in Nat
            BY <5>4
          <6> QED BY <6>1, <6>2
        <5>6. 2 * h = 2 * (x * d)
          <6>1. (2 * x) * d = 2 * (x * d)
            BY <5>5
          <6> QED BY <3>1, <5>1, <5>5, <6>1
        <5>7. h = x * d
          <6>1. x * d \in Int
            BY <5>5
          <6> QED BY <3>1, <5>6, <6>1
        <5> QED BY <5>5, <5>7 DEF Divides
      <4>2. ASSUME NEW d \in Nat, Divides(d, h)
            PROVE  Divides(d, s)
        <5>1. PICK k \in Nat : h = k * d
          BY <4>2 DEF Divides
        <5>2. s = (2 * k) * d /\ 2 * k \in Nat
          BY <3>1, <5>1
        <5> QED BY <5>2 DEF Divides
      <4> QED BY <4>1, <4>2 DEF OddDivisors
    <3>3. f(s) = e(h)
      <4>1. f(s) = G[h]
        BY <2>2, <3>1
      <4>. HIDE DEF f, e
      <4> QED BY <4>1
    <3>4. e(s) = e(h)
      BY <2>2, <3>1, <3>2
    <3>. HIDE DEF e, f
    <3> QED BY <3>3, <3>4
  <2>3. CASE s # 0 /\ s % 2 = 1
    <3>1. s \in OddDivisors(s)
      <4>1. s = 1 * s
        OBVIOUS
      <4> QED BY <2>3, <4>1 DEF OddDivisors, Divides
    <3>2. \A d \in OddDivisors(s) : d \in Nat /\ d <= s
      <4>. TAKE d \in OddDivisors(s)
      <4>1. d \in Nat /\ Divides(d, s)
        BY DEF OddDivisors
      <4>2. PICK k \in Nat : s = k * d
        BY <4>1 DEF Divides
      <4>3. k # 0
        BY <2>3, <4>1, <4>2
      <4>4. PICK j \in Nat : k = j + 1
        <5>1. k - 1 \in Nat /\ k = (k - 1) + 1
          BY <4>3
        <5> QED BY <5>1
      <4>5. s = j * d + d /\ j * d \in Nat
        <5>1. (j + 1) * d = j * d + d /\ j * d \in Nat
          BY <4>1
        <5> QED BY <4>2, <4>4, <5>1
      <4> QED BY <4>1, <4>5
    <3>3. PICK g : g = Greatest(OddDivisors(s))
      OBVIOUS
    <3>4. g \in OddDivisors(s) /\ \A d \in OddDivisors(s) : d <= g
      <4>1. \E x \in OddDivisors(s) : \A d \in OddDivisors(s) : d <= x
        BY <3>1, <3>2
      <4> QED BY <3>3, <4>1 DEF Greatest
    <3>5. g = s
      <4>1. g \in Nat /\ g <= s /\ s <= g
        BY <3>1, <3>2, <3>4
      <4> QED BY <4>1
    <3> QED BY <2>3, <3>3, <3>5
  <2>4. s % 2 = 0 \/ s % 2 = 1
    OBVIOUS
  <2>. HIDE DEF e, f
  <2> QED BY <2>1, <2>2, <2>3, <2>4
<1>2. OddStep(G) = [s \in Nat |-> f(s)]
  BY DEF OddStep
<1>. HIDE DEF e, f
<1>3. G = OddStep(G)
  BY <1>1, <1>2
<1> QED BY <1>3 DEF e

\* A number is its odd part, doubled several times.
LEMMA OddPartDoubles ==
    ASSUME NEW n \in Nat \ {0}
    PROVE  /\ OddPart(n) \in Nat /\ OddPart(n) % 2 = 1
           /\ \E i \in Nat : n = OddPart(n) * Shifted(i)
<1>. DEFINE odd == CHOOSE f : f = OddStep(f)
<1>1. odd = OddStep(odd)
  BY OddExists
<1>2. \A s : OddPart(s) = odd[s]
  BY DEF OddPart, OddStep
<1>. HIDE DEF odd
<1>3. \A s \in Nat : odd[s] = IF s % 2 = 0 THEN odd[s \div 2] ELSE s
  BY <1>1 DEF OddStep
<1>. DEFINE Splits(s) == /\ odd[s] \in Nat /\ odd[s] % 2 = 1
                         /\ \E i \in Nat : s = odd[s] * Shifted(i)
            S == {s \in Nat : s # 0 => Splits(s)}
<1>4. ASSUME NEW s \in Nat \ {0}, \A h \in 1..(s - 1) : Splits(h)
      PROVE  Splits(s)
  <2>1. CASE s % 2 = 0
    <3>1. PICK h \in Nat : h = s \div 2 /\ s = 2 * h
      BY <2>1
    <3>2. h \in 1..(s - 1)
      BY <3>1
    <3>3. odd[s] = odd[h]
      BY <1>3, <2>1, <3>1
    <3>4. Splits(h)
      BY <1>4, <3>2
    <3>5. PICK i \in Nat : h = odd[h] * Shifted(i)
      BY <3>4
    <3>6. s = odd[s] * Shifted(i + 1)
      <4>1. PICK o \in Nat, w \in Nat : o = odd[h] /\ w = Shifted(i)
        BY <3>4, ShiftedDoubles
      <4>2. Shifted(i + 1) = 2 * w
        BY <4>1, ShiftedDoubles
      <4>3. o * (2 * w) = 2 * (o * w)
        OBVIOUS
      <4> QED BY <3>1, <3>3, <3>5, <4>1, <4>2, <4>3
    <3>7. i + 1 \in Nat
      OBVIOUS
    <3> QED BY <3>3, <3>4, <3>6, <3>7
  <2>2. CASE s % 2 # 0
    <3>1. odd[s] = s /\ s % 2 = 1
      BY <1>3, <2>2
    <3>2. s = odd[s] * Shifted(0)
      BY <3>1, ShiftedDoubles
    <3> QED BY <3>1, <3>2
  <2> QED BY <2>1, <2>2
<1>5. \A s \in Nat : s \in S
  <2>1. S \in SUBSET Nat
    OBVIOUS
  <2>2. \A s \in Nat : 0..(s - 1) \subseteq S => s \in S
    <3>. TAKE s \in Nat
    <3>. HAVE 0..(s - 1) \subseteq S
    <3>1. \A h \in 1..(s - 1) : Splits(h)
      <4>. TAKE h \in 1..(s - 1)
      <4>1. h \in 0..(s - 1) /\ h # 0
        OBVIOUS
      <4>. HIDE DEF Splits
      <4> QED BY <4>1
    <3>. HIDE DEF Splits
    <3> QED BY <1>4, <3>1
  <2>. HIDE DEF S
  <2> QED BY <2>1, <2>2, NumbersFromBelow
<1>6. Splits(n)
  <2>. HIDE DEF Splits
  <2> QED BY <1>5
<1>7. OddPart(n) = odd[n]
  BY <1>2
<1> QED BY <1>6, <1>7

-----------------------------------------------------------------------------
(* PassesWith.                                                             *)

\* The states of the loop: temp and mod.
Rounds2 == Nat \X Nat

\* The loop goes on.
GoesOn(p, t) == t[1] # p - 1 /\ t[2] # 1 /\ t[2] # p - 1

\* The next state, and the answer when it ends.
NextRound(p, t) == <<2 * t[1], Mulmod(t[2], t[2], p)>>
Answer(p, t) == t[2] = p - 1 \/ t[1] % 2 = 1

\* The step of the loop, for a function f of its states.
EndStep(p, f) ==
    [t \in Rounds2 |->
        IF t[1] # p - 1 /\ t[2] # 1 /\ t[2] # p - 1 THEN f[<<2 * t[1], Mulmod(t[2], t[2], p)>>]
        ELSE t[2] = p - 1 \/ t[1] % 2 = 1]

\* From states with the answer yes, and from those before states in T.
Before(p, T) ==
    {t \in Rounds2 : IF GoesOn(p, t) THEN NextRound(p, t) \in T ELSE Answer(p, t)}

\* The states from which the loop ends with yes: the least set that Before does
\* not lead out of.
Yes(p) == {t \in Rounds2 : \A T \in SUBSET Rounds2 : Before(p, T) \subseteq T => t \in T}

\* Before leads it to itself.
LEMMA YesIsStable ==
    ASSUME NEW p
    PROVE  Before(p, Yes(p)) = Yes(p)
<1>1. ASSUME NEW S, NEW T, S \subseteq T
      PROVE  Before(p, S) \subseteq Before(p, T)
  BY <1>1 DEF Before
<1>2. ASSUME NEW T \in SUBSET Rounds2, Before(p, T) \subseteq T
      PROVE  Yes(p) \subseteq T
  BY <1>2 DEF Yes
<1>3. Before(p, Yes(p)) \subseteq Yes(p)
  <2>. SUFFICES ASSUME NEW t \in Before(p, Yes(p)) PROVE t \in Yes(p)
    OBVIOUS
  <2>1. t \in Rounds2
    BY DEF Before
  <2>2. ASSUME NEW T \in SUBSET Rounds2, Before(p, T) \subseteq T
        PROVE  t \in T
    <3>1. Before(p, Yes(p)) \subseteq Before(p, T)
      BY <1>1, <1>2, <2>2
    <3> QED BY <2>2, <3>1
  <2> QED BY <2>1, <2>2 DEF Yes
<1>4. Yes(p) \subseteq Before(p, Yes(p))
  <2>1. Before(p, Yes(p)) \in SUBSET Rounds2
    BY DEF Before
  <2>2. Before(p, Before(p, Yes(p))) \subseteq Before(p, Yes(p))
    BY <1>1, <1>3
  <2> QED BY <1>2, <2>1, <2>2
<1> QED BY <1>3, <1>4

\* Whether the loop ends with yes is a function that the step leads to itself.
LEMMA EndExists ==
    ASSUME NEW p \in Nat \ {0}
    PROVE  LET G == [t \in Rounds2 |-> t \in Yes(p)] IN G = EndStep(p, G)
<1>. DEFINE e(t) == t \in Yes(p)
            G == [t \in Rounds2 |-> e(t)]
            f(t) == IF t[1] # p - 1 /\ t[2] # 1 /\ t[2] # p - 1
                    THEN G[<<2 * t[1], Mulmod(t[2], t[2], p)>>]
                    ELSE t[2] = p - 1 \/ t[1] % 2 = 1
<1>1. ASSUME NEW t \in Rounds2
      PROVE  e(t) = f(t)
  <2>1. NextRound(p, t) \in Rounds2
    <3>1. t[1] \in Nat /\ t[2] \in Nat
      BY DEF Rounds2
    <3>2. PICK y \in Nat : y = t[2]
      BY <3>1
    <3>3. Mulmod(y, y, p) \in Nat
      <4>1. Mulmod(y, y, p) = Times(y, y, p)
        BY MulmodIsProduct DEF Times
      <4>2. Times(y, y, p) \in 0..(p - 1)
        BY TimesTypes
      <4> QED BY <4>1, <4>2
    <3> QED BY <3>1, <3>2, <3>3 DEF NextRound, Rounds2
  <2>2. t \in Yes(p) <=> IF GoesOn(p, t) THEN NextRound(p, t) \in Yes(p) ELSE Answer(p, t)
    BY YesIsStable, Zenon DEF Before
  <2>3. CASE GoesOn(p, t)
    <3>1. f(t) = G[NextRound(p, t)]
      BY <2>3, Zenon DEF GoesOn, NextRound
    <3>2. G[NextRound(p, t)] = (NextRound(p, t) \in Yes(p))
      BY <2>1, Zenon
    <3>3. e(t) = (NextRound(p, t) \in Yes(p))
      <4>1. e(t) <=> NextRound(p, t) \in Yes(p)
        BY <2>2, <2>3, Zenon
      <4> QED BY <4>1
    <3>. HIDE DEF e, f
    <3> QED BY <3>1, <3>2, <3>3, Zenon
  <2>4. CASE ~GoesOn(p, t)
    <3>1. f(t) = (t[2] = p - 1 \/ t[1] % 2 = 1)
      BY <2>4, Zenon DEF GoesOn
    <3>2. e(t) = (t[2] = p - 1 \/ t[1] % 2 = 1)
      <4>1. e(t) <=> (t[2] = p - 1 \/ t[1] % 2 = 1)
        BY <2>2, <2>4, Zenon DEF Answer
      <4> QED BY <4>1
    <3>. HIDE DEF e, f
    <3> QED BY <3>1, <3>2, Zenon
  <2>. HIDE DEF e, f
  <2> QED BY <2>3, <2>4
<1>2. EndStep(p, G) = [t \in Rounds2 |-> f(t)]
  BY DEF EndStep
<1>. HIDE DEF e, f
<1>3. G = EndStep(p, G)
  BY <1>1, <1>2
<1> QED BY <1>3 DEF e

\* What PassesWith asks of the loop.
LoopOf(p, end) ==
    \A x, y \in Nat :
        /\ x # p - 1 /\ y # 1 /\ y # p - 1 => end[<<x, y>>] = end[<<2 * x, Times(y, y, p)>>]
        /\ ~(x # p - 1 /\ y # 1 /\ y # p - 1) => end[<<x, y>>] = (y = p - 1 \/ x % 2 = 1)

\* PassesWith is the answer of such a loop, from the power with the odd part on.
LEMMA PassesIsEnd ==
    ASSUME NEW p \in Nat \ {0, 1}, NEW a \in Nat
    PROVE  \E end : /\ LoopOf(p, end)
                    /\ PassesWith(p, a) = end[<<OddPart(p - 1), Pow(a, p, OddPart(p - 1))>>]
<1>. DEFINE end == CHOOSE f : f = EndStep(p, f)
<1>1. end = EndStep(p, end)
  BY EndExists
<1>2. PassesWith(p, a) = end[<<OddPart(p - 1), Modulo(a, OddPart(p - 1), p)>>]
  BY Zenon DEF PassesWith, EndStep, Rounds2
<1>. HIDE DEF end
<1>3. \A t \in Rounds2 :
          end[t] = IF t[1] # p - 1 /\ t[2] # 1 /\ t[2] # p - 1
                   THEN end[<<2 * t[1], Mulmod(t[2], t[2], p)>>]
                   ELSE t[2] = p - 1 \/ t[1] % 2 = 1
  <2>1. \A t \in Rounds2 : end[t] = EndStep(p, end)[t]
    BY <1>1, Zenon
  <2> QED BY <2>1, Zenon DEF EndStep
<1>4. LoopOf(p, end)
  <2>. SUFFICES ASSUME NEW x \in Nat, NEW y \in Nat
                PROVE  /\ x # p - 1 /\ y # 1 /\ y # p - 1
                            => end[<<x, y>>] = end[<<2 * x, Times(y, y, p)>>]
                       /\ ~(x # p - 1 /\ y # 1 /\ y # p - 1)
                            => end[<<x, y>>] = (y = p - 1 \/ x % 2 = 1)
    BY DEF LoopOf
  <2>1. <<x, y>> \in Rounds2 /\ <<x, y>>[1] = x /\ <<x, y>>[2] = y
    BY DEF Rounds2
  <2>2. Mulmod(y, y, p) = Times(y, y, p)
    BY MulmodIsProduct DEF Times
  <2>3. CASE x # p - 1 /\ y # 1 /\ y # p - 1
    BY <1>3, <2>1, <2>2, <2>3, Zenon
  <2>4. CASE ~(x # p - 1 /\ y # 1 /\ y # p - 1)
    BY <1>3, <2>1, <2>4, Zenon
  <2> QED BY <2>3, <2>4, Zenon
<1>5. OddPart(p - 1) \in Nat
  BY OddPartDoubles
<1>6. Modulo(a, OddPart(p - 1), p) = Pow(a, p, OddPart(p - 1))
  BY <1>5, ModuloIsPower
<1> QED BY <1>2, <1>4, <1>6, Zenon

-----------------------------------------------------------------------------
(* What the test finds out.                                                *)

\* A divisor of p is a witness against it.
LEMMA CompositeFails ==
    ASSUME NEW p \in Nat, p % 2 = 1, NEW d \in 2..(p - 1), p % d = 0
    PROVE  ~PassesWith(p, d)
<1>1. /\ p \in Nat \ {0, 1} /\ p \in Nat \ {0} /\ p - 1 \in Nat \ {0} /\ p # 1
      /\ d \in Nat \ {0} /\ d \in Nat
  OBVIOUS
<1>2. PICK end : /\ LoopOf(p, end)
                 /\ PassesWith(p, d) = end[<<OddPart(p - 1), Pow(d, p, OddPart(p - 1))>>]
  BY <1>1, PassesIsEnd, Zenon
<1>3. PICK k \in Int : p = k * d
  <2>1. p = (p \div d) * d + (p % d) /\ p \div d \in Int
    BY <1>1, Division
  <2>2. (p \div d) * d \in Int
    BY <2>1
  <2> QED BY <2>1, <2>2
\* What has the divisor keeps it.
<1>4. ASSUME NEW x \in Nat, NEW y \in Nat, x % d = 0
      PROVE  Times(x, y, p) % d = 0
  <2>1. x * y \in Nat
    OBVIOUS
  <2>2. PICK q, r : q = (x * y) \div p /\ r = (x * y) % p
    OBVIOUS
  <2>3. q \in Int /\ r \in 0..(p - 1) /\ x * y = q * p + r
    <3>1. PICK v \in Int : v = x * y
      BY <2>1
    <3>2. v = (v \div p) * p + (v % p) /\ v \div p \in Int /\ v % p \in 0..(p - 1)
      BY <1>1, <3>1, Division
    <3> QED BY <2>2, <3>1, <3>2, Zenon
  <2>4. PICK h \in Int : x = h * d
    <3>1. PICK c, e : c = x \div d /\ e = x % d
      OBVIOUS
    <3>2. x = c * d + e /\ c \in Int
      BY <1>1, <3>1, Division
    <3>3. e = 0
      BY <1>4, <3>1
    <3>4. c * d \in Int
      BY <1>1, <3>2
    <3> QED BY <3>2, <3>3, <3>4
  <2>5. r = 0 + (h * y - q * k) * d
    <3>1. x * y = (h * y) * d
      BY <1>1, <2>4
    <3>2. q * p = (q * k) * d
      BY <1>1, <1>3, <2>3
    <3>3. PICK u \in Int, v \in Int : u = h * y /\ v = q * k
      BY <2>3
    <3>4. (u - v) * d = u * d - v * d
      BY <1>1, <3>3
    <3>5. u * d \in Int /\ v * d \in Int
      BY <1>1, <3>3
    <3> QED BY <2>3, <3>1, <3>2, <3>3, <3>4, <3>5
  <2>6. h * y - q * k \in Int
    BY <2>3
  <2>7. (0 + (h * y - q * k) * d) % d = 0 % d
    <3>1. PICK w \in Int : w = h * y - q * k
      BY <2>6
    <3>2. (0 + w * d) % d = 0 % d
      <4>1. 0 \in Int
        OBVIOUS
      <4> QED BY <1>1, <4>1, Congruent
    <3> QED BY <3>1, <3>2, Zenon
  <2>8. 0 % d = 0
    BY <1>1
  <2>9. Times(x, y, p) = r
    BY <2>2 DEF Times
  <2> QED BY <2>5, <2>7, <2>8, <2>9, Zenon
\* 1 and p - 1 do not have it.
<1>5. ASSUME NEW y \in Nat, y % d = 0
      PROVE  y # 1 /\ y # p - 1
  <2>1. 1 % d = 1
    OBVIOUS
  <2>2. (p - 1) % d = (d - 1) % d
    <3>1. p - 1 = (d - 1) + (k - 1) * d
      <4>1. (k - 1) * d = k * d - d
        BY <1>1
      <4>2. k * d \in Int
        BY <1>1
      <4> QED BY <1>1, <1>3, <4>1, <4>2
    <3>2. PICK w \in Int : w = k - 1
      OBVIOUS
    <3>3. d - 1 \in Int /\ ((d - 1) + w * d) % d = (d - 1) % d
      <4>1. d - 1 \in Int
        BY <1>1
      <4> QED BY <1>1, <4>1, Congruent
    <3> QED BY <3>1, <3>2, <3>3
  <2>3. (d - 1) % d = d - 1 /\ d - 1 # 0
    <3>1. d - 1 \in Nat /\ d - 1 < d
      OBVIOUS
    <3> QED BY <3>1
  <2> QED BY <1>5, <2>1, <2>2, <2>3
<1>. DEFINE Fails(i) == \A x, y \in Nat : p - 1 = x * Shifted(i) /\ y % d = 0 => ~end[<<x, y>>]
            S == {i \in Nat : Fails(i)}
<1>6. Fails(0)
  <2>. SUFFICES ASSUME NEW x \in Nat, NEW y \in Nat, p - 1 = x * Shifted(0), y % d = 0
                PROVE  ~end[<<x, y>>]
    OBVIOUS
  <2>1. x = p - 1
    <3>1. Shifted(0) = 1
      BY ShiftedDoubles
    <3> QED BY <3>1
  <2>2. y # 1 /\ y # p - 1
    BY <1>5
  <2>3. x % 2 # 1
    BY <2>1
  <2>4. end[<<x, y>>] = (y = p - 1 \/ x % 2 = 1)
    BY <1>2, <2>1, Zenon DEF LoopOf
  <2> QED BY <2>2, <2>3, <2>4, Zenon
<1>7. ASSUME NEW i \in Nat, Fails(i)
      PROVE  Fails(i + 1)
  <2>. SUFFICES ASSUME NEW x \in Nat, NEW y \in Nat, p - 1 = x * Shifted(i + 1), y % d = 0
                PROVE  ~end[<<x, y>>]
    OBVIOUS
  <2>1. PICK w \in Nat : w = Shifted(i) /\ w # 0 /\ Shifted(i + 1) = 2 * w
    BY ShiftedDoubles
  <2>2. p - 1 = (2 * x) * w
    <3>1. x * (2 * w) = (2 * x) * w
      OBVIOUS
    <3> QED BY <2>1, <3>1
  <2>3. x # p - 1
    <3>1. SUFFICES ASSUME x = p - 1 PROVE FALSE
      OBVIOUS
    <3>2. PICK v \in Nat : v = x * w
      BY <2>1
    <3>3. v >= x
      <4>1. w >= 1
        BY <2>1
      <4> QED BY <2>1, <3>2, <4>1
    <3>4. (2 * x) * w = 2 * v
      BY <2>1, <3>2
    <3> QED BY <1>1, <2>2, <3>1, <3>3, <3>4
  <2>4. y # 1 /\ y # p - 1
    BY <1>5
  <2>5. PICK z \in Nat : z = Times(y, y, p)
    <3>1. Times(y, y, p) \in 0..(p - 1)
      BY <1>1, TimesTypes
    <3> QED BY <3>1
  <2>6. end[<<x, y>>] = end[<<2 * x, z>>]
    BY <1>2, <2>3, <2>4, <2>5, Zenon DEF LoopOf
  <2>7. z % d = 0
    BY <1>4, <2>5
  <2>8. 2 * x \in Nat /\ p - 1 = (2 * x) * Shifted(i)
    BY <2>1, <2>2
  <2>9. ~end[<<2 * x, z>>]
    BY <1>7, <2>7, <2>8, Zenon
  <2> QED BY <2>6, <2>9, Zenon
<1>8. \A i \in Nat : Fails(i)
  <2>1. S \in SUBSET Nat /\ 0 \in S /\ \A i \in S : i + 1 \in S
    <3>. HIDE DEF Fails
    <3> QED BY <1>6, <1>7
  <2>2. \A i \in Nat : i \in S
    <3>. HIDE DEF S
    <3> QED BY <2>1, NumbersFrom0
  <2>. HIDE DEF Fails
  <2> QED BY <2>2
<1>9. PICK o \in Nat : o = OddPart(p - 1) /\ \E i \in Nat : p - 1 = o * Shifted(i)
  BY <1>1, OddPartDoubles
<1>10. o # 0
  <2>1. OddPart(p - 1) % 2 = 1
    BY <1>1, OddPartDoubles
  <2> QED BY <1>9, <2>1
<1>11. PICK y \in Nat : y = Pow(d, p, o) /\ y % d = 0
  <2>1. o - 1 \in Nat /\ (o - 1) + 1 = o
    BY <1>10
  <2>0. PowLaws(d, p)
    BY <1>1, PowHasLaws
  <2>2. PICK x \in Nat : x = Pow(d, p, o - 1)
    BY <2>0, <2>1 DEF PowLaws
  <2>3. Pow(d, p, o) = Times(d, x, p)
    <3>1. Pow(d, p, (o - 1) + 1) = Times(d, Pow(d, p, o - 1), p)
      BY <2>0, <2>1 DEF PowLaws
    <3> QED BY <2>1, <2>2, <3>1
  <2>4. d % d = 0
    BY <1>1
  <2>5. Times(d, x, p) \in Nat /\ Times(d, x, p) % d = 0
    <3>1. Times(d, x, p) \in 0..(p - 1)
      BY <1>1, TimesTypes
    <3> QED BY <1>1, <1>4, <2>4, <3>1
  <2> QED BY <2>3, <2>5
<1>12. ~end[<<o, y>>]
  <2>1. PICK i \in Nat : p - 1 = o * Shifted(i)
    BY <1>9
  <2>2. Fails(i)
    <3>. HIDE DEF Fails
    <3> QED BY <1>8
  <2> QED BY <1>11, <2>1, <2>2
<1> QED BY <1>2, <1>9, <1>11, <1>12, Zenon

-----------------------------------------------------------------------------
(* Prime moduli.                                                           *)

\* Gcd is a common divisor.
LEMMA GcdDivides ==
    ASSUME NEW a \in Nat, NEW b \in Nat \ {0}
    PROVE  Gcd(a, b) \in Common(<<a, b>>)
<1>1. PICK g : /\ \A x \in Nat, y \in Nat \ {0} : Gcd(x, y) = g[<<x, y>>]
               /\ g = GcdStep(g)
  BY GcdRecursion
<1>2. ASSUME NEW x \in Nat, NEW y \in Nat \ {0}
      PROVE  Gcd(x, y) = IF x % y = 0 THEN y ELSE Gcd(y, x % y)
  <2>1. <<x, y>> \in GcdPairs /\ <<x, y>>[1] = x /\ <<x, y>>[2] = y
    BY DEF GcdPairs
  <2>2. g[<<x, y>>] = IF x % y = 0 THEN y ELSE g[<<y, x % y>>]
    BY <1>1, <2>1 DEF GcdStep
  <2>3. x % y # 0 => y \in Nat /\ x % y \in Nat \ {0}
    OBVIOUS
  <2> QED BY <1>1, <2>2, <2>3
<1>. DEFINE Divided(y) == y # 0 => \A x \in Nat : Gcd(x, y) \in Common(<<x, y>>)
            S == {y \in Nat : Divided(y)}
<1>3. ASSUME NEW y \in Nat, \A z \in 0..(y - 1) : Divided(z)
      PROVE  Divided(y)
  <2>. SUFFICES ASSUME y # 0, NEW x \in Nat
                PROVE  Gcd(x, y) \in Common(<<x, y>>)
    OBVIOUS
  <2>1. PICK r : r = x % y
    OBVIOUS
  <2>2. r \in 0..(y - 1) /\ r \in Nat
    BY <2>1
  <2>3. CASE r = 0
    <3>1. PICK q \in Nat : x = q * y
      <4>1. x = (x \div y) * y + r /\ x \div y \in Nat
        BY <2>1
      <4>2. (x \div y) * y \in Nat
        BY <4>1
      <4> QED BY <2>3, <4>1, <4>2
    <3>2. y = 1 * y
      OBVIOUS
    <3>3. y \in Common(<<x, y>>)
      BY <3>1, <3>2 DEF Common, Divides
    <3> QED BY <1>2, <2>1, <2>3, <3>3
  <2>4. CASE r # 0
    <3>1. Gcd(x, y) = Gcd(y, r)
      BY <1>2, <2>1, <2>4
    <3>2. Gcd(y, r) \in Common(<<y, r>>)
      BY <1>3, <2>2, <2>4
    <3>3. Common(<<x, y>>) = Common(<<y, r>>)
      BY <2>1, SameDivisors
    <3> QED BY <3>1, <3>2, <3>3
  <2> QED BY <2>3, <2>4
<1>4. \A y \in Nat : y \in S
  <2>1. S \in SUBSET Nat
    OBVIOUS
  <2>2. \A y \in Nat : 0..(y - 1) \subseteq S => y \in S
    <3>. HIDE DEF Divided
    <3> QED BY <1>3
  <2>. HIDE DEF S
  <2> QED BY <2>1, <2>2, NumbersFromBelow
<1>5. Divided(b)
  <2>. HIDE DEF Divided
  <2> QED BY <1>4
<1> QED BY <1>5

\* The numbers below a prime have no divisor in common with it.
LEMMA PrimeIsCoprime ==
    ASSUME NEW p \in Nat, IsPrime(p), NEW x \in 1..(p - 1)
    PROVE  Gcd(x, p) = 1
<1>1. x \in Nat /\ p \in Nat \ {0} /\ p > 1
  BY DEF IsPrime
<1>2. PICK g \in Nat \ {0} : g = Gcd(x, p) /\ Divides(g, x) /\ Divides(g, p)
  <2>1. Gcd(x, p) \in Common(<<x, p>>)
    BY <1>1, GcdDivides
  <2>2. <<x, p>>[1] = x /\ <<x, p>>[2] = p
    OBVIOUS
  <2> QED BY <2>1, <2>2 DEF Common
<1>3. g <= x
  <2>1. PICK k \in Nat : x = k * g
    BY <1>2 DEF Divides
  <2>2. k # 0
    BY <2>1
  <2>3. k >= 1
    BY <2>2
  <2> QED BY <2>1, <2>3
<1>4. p % g = 0
  <2>1. PICK k \in Nat : p = k * g
    BY <1>2 DEF Divides
  <2>2. (0 + k * g) % g = 0 % g
    <3>1. 0 \in Int /\ k \in Int
      OBVIOUS
    <3> QED BY <3>1, Congruent
  <2>3. 0 % g = 0 /\ 0 + k * g = p
    BY <2>1
  <2> QED BY <2>2, <2>3
<1>5. ~(g \in 2..(p - 1))
  BY <1>4 DEF IsPrime
<1> QED BY <1>2, <1>3, <1>5

\* Products modulo a prime: factors other than 0 cancel, and give no 0.
PrimeLaws(p) ==
    /\ \A x \in 1..(p - 1), d, e \in 0..(p - 1) : Times(x, d, p) = Times(x, e, p) => d = e
    /\ \A x, d \in 1..(p - 1) : Times(x, d, p) \in 1..(p - 1)
    /\ \A x \in 1..(p - 1) : Times(x, 0, p) = 0
    /\ 1 % p = 1

\* They hold of every prime.
LEMMA PrimeHasLaws ==
    ASSUME NEW p \in Nat, IsPrime(p)
    PROVE  PrimeLaws(p)
<1>1. p \in Nat \ {0} /\ p > 1
  BY DEF IsPrime
<1>2. ASSUME NEW x \in 1..(p - 1), NEW d \in 0..(p - 1), NEW e \in 0..(p - 1),
             Times(x, d, p) = Times(x, e, p)
      PROVE  d = e
  <2>1. Gcd(x, p) = 1 /\ x \in Nat
    BY PrimeIsCoprime
  <2>2. d \in Nat /\ e \in Nat
    OBVIOUS
  <2>3. Times(d, x, p) = Times(e, x, p)
    <3>1. Times(x, d, p) = Times(d, x, p) /\ Times(x, e, p) = Times(e, x, p)
      <4>1. TimesLaws(p)
        BY <1>1, TimesHasLaws
      <4> QED BY <2>1, <2>2, <4>1 DEF TimesLaws
    <3> QED BY <1>2, <3>1
  <2>4. (d * x) % p = (e * x) % p
    BY <2>3, Zenon DEF Times
  <2> QED BY <1>1, <2>1, <2>4, FactorInjective
<1>3. ASSUME NEW x \in 1..(p - 1)
      PROVE  Times(x, 0, p) = 0
  <2>1. x * 0 = 0 /\ 0 % p = 0
    BY <1>1
  <2> QED BY <2>1 DEF Times
<1>4. ASSUME NEW x \in 1..(p - 1), NEW d \in 1..(p - 1)
      PROVE  Times(x, d, p) \in 1..(p - 1)
  <2>1. x \in Nat /\ d \in Nat /\ d \in 0..(p - 1) /\ 0 \in 0..(p - 1) /\ d # 0
    BY <1>1
  <2>2. Times(x, d, p) \in 0..(p - 1)
    BY <1>1, <2>1, TimesHasLaws DEF TimesLaws
  <2>3. Times(x, d, p) # 0
    BY <1>2, <1>3, <2>1
  <2> QED BY <2>2, <2>3
<1>5. 1 % p = 1
  BY <1>1
<1> QED BY <1>2, <1>3, <1>4, <1>5 DEF PrimeLaws

\* No power of a number that is not 0 is 0.
LEMMA PowersNotZero ==
    ASSUME NEW p \in Nat, IsPrime(p), NEW a \in 1..(p - 1), NEW n \in Nat
    PROVE  Pow(a, p, n) \in 1..(p - 1)
<1>1. p \in Nat \ {0} /\ a \in Nat /\ p > 1
  BY DEF IsPrime
<1>2. PowLaws(a, p) /\ PrimeLaws(p)
  BY <1>1, PowHasLaws, PrimeHasLaws
<1>. DEFINE S == {k \in Nat : Pow(a, p, k) \in 1..(p - 1)}
<1>3. 0 \in S
  BY <1>1, <1>2 DEF PowLaws, PrimeLaws
<1>4. ASSUME NEW k \in S
      PROVE  k + 1 \in S
  <2>1. Pow(a, p, k + 1) = Times(a, Pow(a, p, k), p) /\ k + 1 \in Nat
    BY <1>2 DEF PowLaws
  <2> QED BY <1>2, <2>1 DEF PrimeLaws
<1>5. S \in SUBSET Nat
  OBVIOUS
<1>6. n \in S
  <2>. HIDE DEF S
  <2> QED BY <1>3, <1>4, <1>5, NumbersFrom0
<1> QED BY <1>6

\* If a power comes again, the difference of the exponents gives 1.
LEMMA PowerComesAgain ==
    ASSUME NEW p \in Nat, IsPrime(p), NEW a \in 1..(p - 1), NEW i \in Nat, NEW k \in Nat,
           Pow(a, p, i + k) = Pow(a, p, i)
    PROVE  Pow(a, p, k) = 1
<1>1. p \in Nat \ {0} /\ a \in Nat /\ p > 1
  BY DEF IsPrime
<1>2. TimesLaws(p) /\ PrimeLaws(p)
  BY <1>1, TimesHasLaws, PrimeHasLaws
<1>3. PICK x \in 1..(p - 1), y \in 1..(p - 1) : x = Pow(a, p, i) /\ y = Pow(a, p, k)
  BY PowersNotZero
<1>4. Times(x, y, p) = x
  BY <1>1, <1>3, PowAdds
<1>5. Times(x, 1, p) = x
  <2>1. x \in Nat /\ 1 \in Nat /\ x \in 0..(p - 1)
    BY <1>1
  <2>2. Times(1, x, p) = x /\ Times(x, 1, p) = Times(1, x, p)
    BY <1>2, <2>1 DEF TimesLaws
  <2> QED BY <2>2
<1>6. y \in 0..(p - 1) /\ 1 \in 0..(p - 1)
  BY <1>1
<1>7. y = 1
  BY <1>2, <1>4, <1>5, <1>6 DEF PrimeLaws
<1> QED BY <1>3, <1>7

\* The order of a: the least power that is 1; until then, no power comes twice.
IsOrder(a, p, t) ==
    /\ t \in Nat \ {0} /\ Pow(a, p, t) = 1
    /\ \A i, j \in 0..(t - 1) : Pow(a, p, i) = Pow(a, p, j) => i = j

\* Every number below a prime but 0 has one.
LEMMA OrderExists ==
    ASSUME NEW p \in Nat, IsPrime(p), NEW a \in 1..(p - 1)
    PROVE  \E t \in Nat : IsOrder(a, p, t)
<1>1. p \in Nat \ {0} /\ a \in Nat /\ p > 1
  BY DEF IsPrime
<1>. DEFINE R == {k \in Nat \ {0} : Pow(a, p, k) = 1}
            F == [i \in 0..(p - 1) |-> Pow(a, p, i)]
<1>2. ASSUME NEW i \in Nat, NEW j \in Nat, i < j, Pow(a, p, i) = Pow(a, p, j)
      PROVE  j - i \in R
  <2>1. PICK k \in Nat : k = j - i /\ i + k = j /\ k # 0
    BY <1>2
  <2>2. Pow(a, p, k) = 1
    BY <1>2, <2>1, PowerComesAgain
  <2> QED BY <2>1, <2>2
<1>3. R # {}
  <2>1. F \in [0..(p - 1) -> 1..(p - 1)]
    BY PowersNotZero
  <2>2. /\ IsFiniteSet(0..(p - 1)) /\ IsFiniteSet(1..(p - 1))
        /\ Cardinality(1..(p - 1)) < Cardinality(0..(p - 1))
    <3>1. 0 \in Int /\ 1 \in Int /\ p - 1 \in Int
      OBVIOUS
    <3>2. /\ IsFiniteSet(0..(p - 1))
          /\ Cardinality(0..(p - 1)) = IF 0 > p - 1 THEN 0 ELSE (p - 1) - 0 + 1
      BY <3>1, FS_Interval
    <3>3. /\ IsFiniteSet(1..(p - 1))
          /\ Cardinality(1..(p - 1)) = IF 1 > p - 1 THEN 0 ELSE (p - 1) - 1 + 1
      BY <3>1, FS_Interval
    <3> QED BY <1>1, <3>2, <3>3
  <2>3. PICK i, j \in 0..(p - 1) : i # j /\ F[i] = F[j]
    <3>. HIDE DEF F
    <3> QED BY <2>1, <2>2, FS_PigeonHole, Zenon
  <2>4. i \in Nat /\ j \in Nat /\ Pow(a, p, i) = Pow(a, p, j)
    BY <2>3
  <2>5. i < j \/ j < i
    BY <2>3, <2>4
  <2>. HIDE DEF R
  <2> QED BY <1>2, <2>4, <2>5
<1>4. PICK t \in R : \A k \in R : t <= k
  <2>1. R \in SUBSET Nat
    OBVIOUS
  <2>. HIDE DEF R
  <2> QED BY <1>3, <2>1, LeastElement
<1>5. t \in Nat \ {0} /\ Pow(a, p, t) = 1
  OBVIOUS
<1>6. ASSUME NEW i \in 0..(t - 1), NEW j \in 0..(t - 1), Pow(a, p, i) = Pow(a, p, j), i # j
      PROVE  FALSE
  <2>. HIDE DEF R
  <2>1. i \in Nat /\ j \in Nat /\ (i < j \/ j < i)
    BY <1>5, <1>6
  <2>2. CASE i < j
    <3>1. t <= j - i
      BY <1>2, <1>4, <1>6, <2>1, <2>2
    <3> QED BY <1>5, <2>1, <3>1
  <2>3. CASE j < i
    <3>1. t <= i - j
      BY <1>2, <1>4, <1>6, <2>1, <2>3
    <3> QED BY <1>5, <2>1, <3>1
  <2> QED BY <2>1, <2>2, <2>3
<1> QED BY <1>5, <1>6 DEF IsOrder

\* A set that multiplication by a does not lead out of.
Closed(a, p, T) == T \in SUBSET (1..(p - 1)) /\ \A x \in T : Times(a, x, p) \in T

\* The products of x and the powers of a.
Orbit(a, p, t, x) == {Times(x, Pow(a, p, i), p) : i \in 0..(t - 1)}

\* An orbit has as many elements as the order says, ...
LEMMA OrbitCount ==
    ASSUME NEW p \in Nat, IsPrime(p), NEW a \in 1..(p - 1), NEW t \in Nat, IsOrder(a, p, t),
           NEW x \in 1..(p - 1)
    PROVE  IsFiniteSet(Orbit(a, p, t, x)) /\ Cardinality(Orbit(a, p, t, x)) = t
<1>1. p \in Nat \ {0} /\ a \in Nat /\ PrimeLaws(p)
  <2>1. p \in Nat \ {0} /\ a \in Nat
    BY DEF IsPrime
  <2> QED BY <2>1, PrimeHasLaws
<1>. DEFINE F == [i \in 0..(t - 1) |-> Times(x, Pow(a, p, i), p)]
            O == Orbit(a, p, t, x)
<1>2. ASSUME NEW i \in 0..(t - 1), NEW j \in 0..(t - 1), F[i] = F[j]
      PROVE  i = j
  <2>1. Pow(a, p, i) \in 0..(p - 1) /\ Pow(a, p, j) \in 0..(p - 1)
    <3>1. i \in Nat /\ j \in Nat
      OBVIOUS
    <3> QED BY <1>1, <3>1, PowHasLaws DEF PowLaws
  <2>2. Pow(a, p, i) = Pow(a, p, j)
    BY <1>1, <1>2, <2>1 DEF PrimeLaws
  <2> QED BY <2>2 DEF IsOrder
<1>3. F \in [0..(t - 1) -> O]
  BY DEF Orbit
<1>4. \A y \in O : \E i \in 0..(t - 1) : F[i] = y
  BY DEF Orbit
<1>5. F \in Bijection(0..(t - 1), O)
  <2>. HIDE DEF F, O
  <2> QED BY <1>2, <1>3, <1>4 DEF Bijection, Injection, Surjection, IsInjective
<1>6. IsFiniteSet(0..(t - 1)) /\ Cardinality(0..(t - 1)) = t
  <2>1. 0 \in Int /\ t - 1 \in Int
    OBVIOUS
  <2>2. /\ IsFiniteSet(0..(t - 1))
        /\ Cardinality(0..(t - 1)) = IF 0 > t - 1 THEN 0 ELSE (t - 1) - 0 + 1
    BY <2>1, FS_Interval
  <2> QED BY <2>2 DEF IsOrder
<1>7. ExistsBijection(0..(t - 1), O)
  BY <1>5 DEF ExistsBijection
<1>. HIDE DEF O
<1>8. IsFiniteSet(O) /\ Cardinality(O) = Cardinality(0..(t - 1))
  BY <1>6, <1>7, FS_Bijection, Zenon
<1> QED BY <1>6, <1>8 DEF O

\* ... it is part of a closed set, and leaves a closed set.
LEMMA OrbitSplits ==
    ASSUME NEW p \in Nat, IsPrime(p), NEW a \in 1..(p - 1), NEW t \in Nat, IsOrder(a, p, t),
           NEW T, Closed(a, p, T), NEW x \in T
    PROVE  Orbit(a, p, t, x) \subseteq T /\ Closed(a, p, T \ Orbit(a, p, t, x))
<1>1. /\ p \in Nat \ {0} /\ a \in Nat /\ p > 1
      /\ PrimeLaws(p) /\ TimesLaws(p) /\ PowLaws(a, p)
  <2>1. p \in Nat \ {0} /\ a \in Nat /\ p > 1
    BY DEF IsPrime
  <2> QED BY <2>1, PrimeHasLaws, TimesHasLaws, PowHasLaws
<1>2. /\ T \in SUBSET (1..(p - 1)) /\ \A y \in T : Times(a, y, p) \in T
      /\ x \in 1..(p - 1) /\ x \in Nat /\ x \in 0..(p - 1)
  BY DEF Closed
<1>3. t \in Nat \ {0} /\ Pow(a, p, t) = 1
  BY DEF IsOrder
<1>4. ASSUME NEW y \in Nat, NEW z \in Nat
      PROVE  Times(y, Times(a, z, p), p) = Times(a, Times(y, z, p), p)
  <2>1. Times(Times(y, a, p), z, p) = Times(y, Times(a, z, p), p)
    BY <1>1, <1>4 DEF TimesLaws
  <2>2. Times(Times(a, y, p), z, p) = Times(a, Times(y, z, p), p)
    BY <1>1, <1>4 DEF TimesLaws
  <2>3. Times(a, y, p) = Times(y, a, p)
    BY <1>1, <1>4 DEF TimesLaws
  <2> QED BY <2>1, <2>2, <2>3
<1>5. Times(x, 1, p) = x
  <2>1. Times(1, x, p) = x /\ Times(x, 1, p) = Times(1, x, p)
    BY <1>1, <1>2 DEF TimesLaws
  <2> QED BY <2>1
\* x times a power is the one before, times a.
<1>6. ASSUME NEW i \in Nat
      PROVE  /\ Pow(a, p, i) \in Nat /\ Times(x, Pow(a, p, i), p) \in 0..(p - 1)
             /\ Times(x, Pow(a, p, i + 1), p) = Times(a, Times(x, Pow(a, p, i), p), p)
  <2>1. Pow(a, p, i) \in Nat /\ Pow(a, p, i + 1) = Times(a, Pow(a, p, i), p)
    BY <1>1 DEF PowLaws
  <2>2. Times(x, Pow(a, p, i), p) \in 0..(p - 1)
    BY <1>1, <1>2, <2>1 DEF TimesLaws
  <2> QED BY <1>2, <1>4, <2>1, <2>2
<1>. DEFINE S == {i \in Nat : Times(x, Pow(a, p, i), p) \in T}
<1>7. \A i \in Nat : i \in S
  <2>1. 0 \in S
    <3>1. Pow(a, p, 0) = 1
      BY <1>1 DEF PowLaws, PrimeLaws
    <3> QED BY <1>5, <3>1
  <2>2. ASSUME NEW i \in S
        PROVE  i + 1 \in S
    BY <1>2, <1>6
  <2>3. S \in SUBSET Nat
    OBVIOUS
  <2>. HIDE DEF S
  <2> QED BY <2>1, <2>2, <2>3, NumbersFrom0
<1>8. Orbit(a, p, t, x) \subseteq T
  BY <1>7 DEF Orbit
<1>9. ASSUME NEW y \in T, Times(a, y, p) \in Orbit(a, p, t, x)
      PROVE  y \in Orbit(a, p, t, x)
  <2>1. PICK i \in 0..(t - 1) : Times(a, y, p) = Times(x, Pow(a, p, i), p)
    BY <1>9 DEF Orbit
  <2>2. PICK j \in 0..(t - 1) : Pow(a, p, j + 1) = Pow(a, p, i)
    <3>1. CASE i = 0
      <4>1. t - 1 \in 0..(t - 1) /\ (t - 1) + 1 = t
        BY <1>3
      <4>2. Pow(a, p, 0) = 1
        BY <1>1 DEF PowLaws, PrimeLaws
      <4> QED BY <1>3, <3>1, <4>1, <4>2
    <3>2. CASE i # 0
      <4>1. i - 1 \in 0..(t - 1) /\ (i - 1) + 1 = i
        BY <3>2
      <4> QED BY <4>1
    <3> QED BY <3>1, <3>2
  <2>3. j \in Nat
    OBVIOUS
  <2>4. PICK z \in 0..(p - 1) : z = Times(x, Pow(a, p, j), p)
    BY <1>6, <2>3
  <2>5. Times(a, z, p) = Times(a, y, p)
    BY <1>6, <2>1, <2>2, <2>3, <2>4
  <2>6. y \in 0..(p - 1)
    BY <1>2
  <2>7. z = y
    BY <1>1, <2>5, <2>6 DEF PrimeLaws
  <2> QED BY <2>4, <2>7 DEF Orbit
<1>10. Closed(a, p, T \ Orbit(a, p, t, x))
  BY <1>2, <1>9 DEF Closed
<1> QED BY <1>8, <1>10

\* So a closed set is as large as several orbits.
LEMMA ClosedCount ==
    ASSUME NEW p \in Nat, IsPrime(p), NEW a \in 1..(p - 1), NEW t \in Nat, IsOrder(a, p, t),
           NEW T, Closed(a, p, T)
    PROVE  \E c \in Nat : Cardinality(T) = c * t
<1>0. t \in Nat \ {0}
  BY DEF IsOrder
<1>1. ASSUME NEW U, Closed(a, p, U)
      PROVE  IsFiniteSet(U) /\ Cardinality(U) \in Nat
  <2>1. 1 \in Int /\ p - 1 \in Int
    OBVIOUS
  <2>2. IsFiniteSet(1..(p - 1))
    BY <2>1, FS_Interval
  <2>3. IsFiniteSet(U)
    BY <1>1, <2>2, FS_Subset DEF Closed
  <2> QED BY <2>3, FS_CardinalityType
<1>. DEFINE Counted(n) == \A U : Closed(a, p, U) /\ Cardinality(U) = n => \E c \in Nat : n = c * t
            S == {n \in Nat : Counted(n)}
<1>2. ASSUME NEW n \in Nat, \A m \in 0..(n - 1) : Counted(m)
      PROVE  Counted(n)
  <2>. SUFFICES ASSUME NEW U, Closed(a, p, U), Cardinality(U) = n
                PROVE  \E c \in Nat : n = c * t
    OBVIOUS
  <2>1. IsFiniteSet(U)
    BY <1>1
  <2>2. CASE U = {}
    <3>1. n = 0 * t
      BY <2>2, FS_EmptySet
    <3> QED BY <3>1
  <2>3. CASE U # {}
    <3>1. PICK x : x \in U
      BY <2>3
    <3>2. PICK O : O = Orbit(a, p, t, x)
      OBVIOUS
    <3>3. x \in 1..(p - 1)
      BY <3>1 DEF Closed
    <3>4. O \subseteq U /\ Closed(a, p, U \ O)
      BY <3>1, <3>2, OrbitSplits
    <3>5. IsFiniteSet(O) /\ Cardinality(O) = t
      BY <3>2, <3>3, OrbitCount
    <3>6. Cardinality(U \ O) = n - t
      <4>1. Cardinality(U \ O) = Cardinality(U) - Cardinality(U \cap O)
        BY <2>1, FS_Difference
      <4>2. U \cap O = O
        BY <3>4
      <4> QED BY <3>5, <4>1, <4>2
    <3>7. n - t \in 0..(n - 1)
      <4>1. Cardinality(U \ O) \in Nat
        BY <1>1, <3>4
      <4> QED BY <1>0, <3>6, <4>1
    <3>8. PICK c \in Nat : n - t = c * t
      <4>1. Counted(n - t)
        <5>. HIDE DEF Counted
        <5> QED BY <1>2, <3>7
      <4> QED BY <3>4, <3>6, <4>1
    <3>9. (c + 1) * t = c * t + t /\ c + 1 \in Nat /\ c * t \in Nat
      OBVIOUS
    <3>10. n = (c + 1) * t
      BY <3>8, <3>9
    <3> QED BY <3>9, <3>10
  <2> QED BY <2>2, <2>3
<1>3. \A n \in Nat : n \in S
  <2>1. S \in SUBSET Nat
    OBVIOUS
  <2>2. \A n \in Nat : 0..(n - 1) \subseteq S => n \in S
    <3>. HIDE DEF Counted
    <3> QED BY <1>2
  <2>. HIDE DEF S
  <2> QED BY <2>1, <2>2, NumbersFromBelow
<1>4. Cardinality(T) \in Nat
  BY <1>1
<1>5. Counted(Cardinality(T))
  <2>. HIDE DEF Counted
  <2> QED BY <1>3, <1>4
<1> QED BY <1>5

\* Fermat's little theorem.
LEMMA Fermat ==
    ASSUME NEW p \in Nat, IsPrime(p), NEW a \in 1..(p - 1)
    PROVE  Pow(a, p, p - 1) = 1
<1>1. /\ p \in Nat \ {0} /\ a \in Nat /\ p > 1
      /\ PrimeLaws(p) /\ TimesLaws(p) /\ PowLaws(a, p)
  <2>1. p \in Nat \ {0} /\ a \in Nat /\ p > 1
    BY DEF IsPrime
  <2> QED BY <2>1, PrimeHasLaws, TimesHasLaws, PowHasLaws
<1>2. PICK t \in Nat : IsOrder(a, p, t)
  BY OrderExists
<1>3. PICK c \in Nat : p - 1 = c * t
  <2>1. Closed(a, p, 1..(p - 1))
    BY <1>1 DEF Closed, PrimeLaws
  <2>2. Cardinality(1..(p - 1)) = p - 1
    <3>1. 1 \in Int /\ p - 1 \in Int
      OBVIOUS
    <3>2. Cardinality(1..(p - 1)) = IF 1 > p - 1 THEN 0 ELSE (p - 1) - 1 + 1
      BY <3>1, FS_Interval
    <3> QED BY <1>1, <3>2
  <2>3. \E c \in Nat : Cardinality(1..(p - 1)) = c * t
    <3>1. PICK T : T = 1..(p - 1)
      OBVIOUS
    <3>2. Closed(a, p, T)
      BY <2>1, <3>1
    <3>3. \E c \in Nat : Cardinality(T) = c * t
      BY <1>2, <3>2, ClosedCount
    <3> QED BY <3>1, <3>3, Zenon
  <2> QED BY <2>2, <2>3
<1>. DEFINE S == {k \in Nat : Pow(a, p, k * t) = 1}
<1>4. 0 \in S
  <2>1. 0 * t = 0
    OBVIOUS
  <2> QED BY <1>1, <2>1 DEF PowLaws, PrimeLaws
<1>5. ASSUME NEW k \in S
      PROVE  k + 1 \in S
  <2>1. (k + 1) * t = k * t + t /\ k * t \in Nat /\ k + 1 \in Nat
    OBVIOUS
  <2>2. Pow(a, p, k * t + t) = Times(Pow(a, p, k * t), Pow(a, p, t), p)
    BY <1>1, <2>1, PowAdds
  <2>3. Pow(a, p, k * t) = 1 /\ Pow(a, p, t) = 1
    BY <1>2 DEF IsOrder
  <2>4. Times(1, 1, p) = 1
    BY <1>1 DEF TimesLaws
  <2> QED BY <2>1, <2>2, <2>3, <2>4
<1>6. S \in SUBSET Nat
  OBVIOUS
<1>7. c \in S
  <2>. HIDE DEF S
  <2> QED BY <1>4, <1>5, <1>6, NumbersFrom0
<1> QED BY <1>3, <1>7

\* Only 1 and p - 1 have the square 1.
LEMMA RootsOfOne ==
    ASSUME NEW p \in Nat, IsPrime(p), NEW m \in 0..(p - 1), Times(m, m, p) = 1
    PROVE  m = 1 \/ m = p - 1
<1>1. p \in Nat \ {0} /\ p > 1 /\ PrimeLaws(p)
  BY PrimeHasLaws DEF IsPrime
<1>. SUFFICES ASSUME m # 1, m # p - 1
              PROVE  FALSE
  OBVIOUS
<1>2. m # 0
  <2>1. 0 * 0 = 0 /\ 0 % p = 0
    BY <1>1
  <2> QED BY <2>1 DEF Times
<1>3. m - 1 \in 1..(p - 1) /\ m + 1 \in 0..(p - 1) /\ m + 1 # 0
  BY <1>2
<1>4. Times(m - 1, m + 1, p) = 0
  <2>1. PICK v \in Int : v = m * m
    OBVIOUS
  <2>2. v % p = 1
    BY <2>1 DEF Times
  <2>3. PICK q \in Int : v = q * p + 1
    <3>1. v = (v \div p) * p + (v % p) /\ v \div p \in Int
      BY <1>1, Division
    <3> QED BY <2>2, <3>1
  <2>4. (m - 1) * (m + 1) = v - 1
    BY <2>1
  <2>5. v - 1 = 0 + q * p
    <3>1. q * p \in Int
      OBVIOUS
    <3> QED BY <2>3, <3>1
  <2>6. (0 + q * p) % p = 0 % p
    <3>1. 0 \in Int
      OBVIOUS
    <3> QED BY <1>1, <3>1, Congruent
  <2>7. 0 % p = 0
    BY <1>1
  <2> QED BY <2>4, <2>5, <2>6, <2>7, Zenon DEF Times
<1>5. Times(m - 1, 0, p) = 0
  BY <1>1, <1>3 DEF PrimeLaws
<1>6. 0 \in 0..(p - 1)
  BY <1>1
<1> QED BY <1>1, <1>3, <1>4, <1>5, <1>6 DEF PrimeLaws

\* A prime passes with every number.
LEMMA PrimePasses ==
    ASSUME NEW p \in Nat, IsPrime(p), NEW a \in 1..(p - 1)
    PROVE  PassesWith(p, a)
<1>1. /\ p \in Nat \ {0} /\ p \in Nat \ {0, 1} /\ a \in Nat /\ p > 1 /\ p - 1 \in Nat \ {0}
      /\ PowLaws(a, p)
  BY PowHasLaws DEF IsPrime
<1>2. PICK end : /\ LoopOf(p, end)
                 /\ PassesWith(p, a) = end[<<OddPart(p - 1), Pow(a, p, OddPart(p - 1))>>]
  BY <1>1, PassesIsEnd, Zenon
\* In the first round, or after one that went on.
<1>. DEFINE Later(x) == \E z \in 0..(p - 1) : z # 1 /\ z # p - 1 /\ Pow(a, p, x) = Times(z, z, p)
            Reached(x) == x % 2 = 1 \/ Later(x)
            Holds(i) == \A x \in Nat : p - 1 = x * Shifted(i) /\ Reached(x)
                                           => end[<<x, Pow(a, p, x)>>]
            S == {i \in Nat : Holds(i)}
<1>3. ASSUME NEW x \in Nat, Reached(x), NEW y, y = Pow(a, p, x), x = p - 1 \/ y = 1 \/ y = p - 1
      PROVE  end[<<x, y>>]
  <2>1. y \in Nat
    BY <1>1, <1>3 DEF PowLaws
  <2>2. y = p - 1 \/ x % 2 = 1
    <3>1. SUFFICES ASSUME y # p - 1, x % 2 # 1 PROVE FALSE
      OBVIOUS
    <3>2. y = 1
      BY <1>3, <3>1, Fermat
    <3>3. PICK z \in 0..(p - 1) : z # 1 /\ z # p - 1 /\ y = Times(z, z, p)
      BY <1>3, <3>1
    <3> QED BY <3>2, <3>3, RootsOfOne
  <2>3. end[<<x, y>>] = (y = p - 1 \/ x % 2 = 1)
    BY <1>2, <1>3, <2>1, Zenon DEF LoopOf
  <2> QED BY <2>2, <2>3, Zenon
<1>4. Holds(0)
  <2>. SUFFICES ASSUME NEW x \in Nat, p - 1 = x * Shifted(0), Reached(x)
                PROVE  end[<<x, Pow(a, p, x)>>]
    OBVIOUS
  <2>1. x = p - 1
    <3>1. Shifted(0) = 1
      BY ShiftedDoubles
    <3> QED BY <3>1
  <2>. HIDE DEF Reached
  <2> QED BY <1>3, <2>1
<1>5. ASSUME NEW i \in Nat, Holds(i)
      PROVE  Holds(i + 1)
  <2>. SUFFICES ASSUME NEW x \in Nat, p - 1 = x * Shifted(i + 1), Reached(x)
                PROVE  end[<<x, Pow(a, p, x)>>]
    OBVIOUS
  <2>1. PICK y \in 0..(p - 1) : y = Pow(a, p, x)
    BY <1>1 DEF PowLaws
  <2>2. CASE x = p - 1 \/ y = 1 \/ y = p - 1
    <3>. HIDE DEF Reached
    <3> QED BY <1>3, <2>1, <2>2
  <2>3. CASE x # p - 1 /\ y # 1 /\ y # p - 1
    <3>1. Pow(a, p, 2 * x) = Times(y, y, p)
      <4>1. 2 * x = x + x
        OBVIOUS
      <4>2. Pow(a, p, x + x) = Times(Pow(a, p, x), Pow(a, p, x), p)
        BY <1>1, PowAdds
      <4> QED BY <2>1, <4>1, <4>2
    <3>2. end[<<x, y>>] = end[<<2 * x, Pow(a, p, 2 * x)>>]
      <4>1. y \in Nat
        OBVIOUS
      <4> QED BY <1>2, <2>3, <3>1, <4>1, Zenon DEF LoopOf
    <3>3. p - 1 = (2 * x) * Shifted(i) /\ 2 * x \in Nat
      <4>1. PICK w \in Nat : w = Shifted(i) /\ Shifted(i + 1) = 2 * w
        BY ShiftedDoubles
      <4>2. x * (2 * w) = (2 * x) * w
        OBVIOUS
      <4> QED BY <4>1, <4>2
    <3>4. Reached(2 * x)
      BY <2>3, <3>1
    <3>5. end[<<2 * x, Pow(a, p, 2 * x)>>]
      <4>. HIDE DEF Reached
      <4> QED BY <1>5, <3>3, <3>4
    <3> QED BY <2>1, <3>2, <3>5, Zenon
  <2> QED BY <2>2, <2>3
<1>6. \A i \in Nat : Holds(i)
  <2>1. S \in SUBSET Nat /\ 0 \in S /\ \A i \in S : i + 1 \in S
    <3>. HIDE DEF Holds
    <3> QED BY <1>4, <1>5
  <2>2. \A i \in Nat : i \in S
    <3>. HIDE DEF S
    <3> QED BY <2>1, NumbersFrom0
  <2>. HIDE DEF Holds
  <2> QED BY <2>2
<1>7. PICK o \in Nat : /\ o = OddPart(p - 1) /\ o % 2 = 1
                       /\ \E i \in Nat : p - 1 = o * Shifted(i)
  BY <1>1, OddPartDoubles
<1>8. PICK i \in Nat : p - 1 = o * Shifted(i)
  BY <1>7
<1>9. end[<<o, Pow(a, p, o)>>]
  <2>1. Holds(i)
    <3>. HIDE DEF Holds
    <3> QED BY <1>6
  <2> QED BY <1>7, <1>8, <2>1
<1> QED BY <1>2, <1>7, <1>9, Zenon

\* With every number tried, the test passes the primes.
LEMMA MillerRabinFindsPrimes ==
    ASSUME NEW p \in Nat
    PROVE  MillerRabin(p) <=> IsPrime(p)
<1>1. ASSUME IsPrime(p)
      PROVE  MillerRabin(p)
  <2>1. p >= 2
    BY <1>1 DEF IsPrime
  <2>2. p = 2 \/ p % 2 # 0
    BY <1>1, <2>1 DEF IsPrime
  <2>3. \A a \in 1..(p - 1) : PassesWith(p, a)
    BY <1>1, PrimePasses
  <2> QED BY <2>1, <2>2, <2>3 DEF MillerRabin
<1>2. ASSUME MillerRabin(p), ~IsPrime(p)
      PROVE  FALSE
  <2>1. p >= 2 /\ (p = 2 \/ p % 2 # 0) /\ \A a \in 1..(p - 1) : PassesWith(p, a)
    BY <1>2 DEF MillerRabin
  <2>2. PICK d \in 2..(p - 1) : p % d = 0
    BY <1>2, <2>1 DEF IsPrime
  <2>3. p % 2 = 1 /\ d \in 1..(p - 1)
    BY <2>1, <2>2
  <2> QED BY <2>1, <2>2, <2>3, CompositeFails
<1> QED BY <1>1, <1>2

-----------------------------------------------------------------------------
(* The object.                                                             *)

\* Init was refused or accepted what was asked for, and the images taken are those
\* of the maps, for elements inside.
PermInv ==
    /\ kind \in Feistel \cup Affine /\ key \in Keys /\ requested \in Requests
    /\ phase \in {"new", "ready", "refused"}
    /\ phase = "refused" => Refused(kind, requested)
    /\ phase = "ready" => Accepted(kind, key, requested) /\ size = InitSize(kind, requested)
    /\ phase # "ready" => Asked = {}
    /\ \A e \in Asked : e \in Element /\ image[e] = Permute(kind, key, requested, e)

\* The invariant of the permutation objects, for every kind, size and key.
THEOREM PermutationInvariant == Spec => []PermInv
<1>1. Init => PermInv
  BY PermutationAssumption DEF Init, PermInv, Asked, Feistel, Affine
<1>2. PermInv /\ [Next]_vars => PermInv'
  <2> SUFFICES ASSUME PermInv, [Next]_vars
               PROVE  PermInv'
    OBVIOUS
  <2>1. CASE InitThrow
    BY <2>1 DEF InitThrow, PermInv, Asked, Element
  <2>2. CASE InitPermutation
    BY <2>2 DEF InitPermutation, PermInv, Asked, Element, Accepted, Affine
  <2>3. CASE PermuteNext
    <3>1. phase = "ready" /\ UNCHANGED <<kind, key, requested, phase, size>>
      BY <2>3 DEF PermuteNext
    <3>2. PICK e \in Element :
               /\ Asked = 0..(e - 1)
               /\ image' = [d \in 0..e |-> IF d = e THEN Permute(kind, key, requested, e)
                                           ELSE image[d]]
      BY <2>3 DEF PermuteNext
    <3>3. e \in Nat /\ Asked' = 0..e /\ 0..e \subseteq Element
      <4>1. size \in 1..requested /\ requested \in Nat
        BY <3>1, InitSizeFits, PermutationAssumption DEF PermInv, Accepted
      <4> QED BY <3>2, <4>1 DEF Asked, Element
    <3>4. ASSUME NEW d \in Asked'
          PROVE  image'[d] = Permute(kind, key, requested, d)
      <4>1. d \in 0..e /\ image'[d] = IF d = e THEN Permute(kind, key, requested, e) ELSE image[d]
        BY <3>2, <3>3, <3>4
      <4>2. CASE d = e
        BY <4>1, <4>2
      <4>3. CASE d # e
        <5>1. d \in Asked
          BY <3>2, <3>3, <4>1, <4>3
        <5> QED BY <3>1, <4>1, <4>3, <5>1 DEF PermInv
      <4> QED BY <4>2, <4>3
    <3> QED BY <3>1, <3>3, <3>4 DEF PermInv, Element
  <2>4. CASE UNCHANGED vars
    BY <2>4 DEF vars, PermInv, Asked, Element
  <2> QED BY <2>1, <2>2, <2>3, <2>4 DEF Next
<1> QED BY <1>1, <1>2, PTL DEF Spec

\* The images are pairwise different elements, whatever the kind.
LEMMA Bijective == PermInv => NoCollision
<1> SUFFICES ASSUME PermInv
             PROVE  NoCollision
  OBVIOUS
<1>1. CASE Asked = {}
  BY <1>1 DEF NoCollision
<1>2. CASE Asked # {}
  <2>1. Accepted(kind, key, requested) /\ size = InitSize(kind, requested)
    BY <1>2 DEF PermInv
  <2>2. \A d, e \in Asked :
            image[e] \in Element /\ (image[d] = image[e] => d = e)
    BY <2>1, PermuteInjective DEF PermInv, Element
  <2> QED BY <2>2 DEF NoCollision
<1> QED BY <1>1, <1>2

\* Neither two bytes of a storage nor two bits of a picture share a place
\* (FeistelMixPermutation, FeistelNumPermutation, IdentityPermutation).
THEOREM FeistelCorrect == Spec => []FeistelIsPermutation
<1>1. PermInv => FeistelIsPermutation
  BY Bijective DEF FeistelIsPermutation
<1> QED BY <1>1, PermutationInvariant, PTL

\* The same of AffinePermutation and Affine64Permutation: the factor that the loop of
\* GetSizeUsingParams ends with can be inverted, whether the size is prime or not.
THEOREM AffineCorrect == Spec => []AffineIsPermutation
<1>1. PermInv => AffineIsPermutation
  BY Bijective DEF AffineIsPermutation
<1> QED BY <1>1, PermutationInvariant, PTL

\* Init comes to the size that GetSizeUsingParams had declared, which fits, and
\* refuses what that had said to give nothing.
THEOREM DeclaredSizes == Spec => []SizeIsAsDeclared
<1>1. PermInv => SizeIsAsDeclared
  <2> SUFFICES ASSUME PermInv
               PROVE  SizeIsAsDeclared
    OBVIOUS
  <2>1. requested \in Nat
    BY PermutationAssumption DEF PermInv
  <2>2. ASSUME phase = "refused"
        PROVE  GetSizeUsingParams(kind, requested) = 0
    BY <2>2 DEF PermInv, Refused, GetSizeUsingParams, Feistel, Affine
  <2>3. ASSUME phase = "ready"
        PROVE  /\ size \in 1..requested
               /\ \/ GetSizeUsingParams(kind, requested) = size
                  \/ kind = "affine64" /\ requested > MaxAffine
    <3>1. ~Refused(kind, requested) /\ size = InitSize(kind, requested)
      BY <2>3 DEF PermInv, Accepted
    <3>2. size \in 1..requested
      BY <3>1, InitSizeFits DEF PermInv
    <3>3. \/ GetSizeUsingParams(kind, requested) = InitSize(kind, requested)
          \/ kind = "affine64" /\ requested > MaxAffine
      BY <3>1 DEF PermInv, Refused, GetSizeUsingParams, InitSize, Feistel, Affine
    <3> QED BY <3>1, <3>2, <3>3
  <2> QED BY <2>2, <2>3 DEF SizeIsAsDeclared
<1> QED BY <1>1, PermutationInvariant, PTL

\* The affine permutations have the largest odd prime that fits: Miller-Rabin with
\* every number passes the primes and nothing else, and the search misses none.
THEOREM AffineSizeIsPrime == Spec => []SizeIsClosestPrime
<1>1. PermInv => SizeIsClosestPrime
  <2> SUFFICES ASSUME PermInv, phase = "ready", kind \in {"affine", "affine64"}
               PROVE  IsPrime(size) /\ \A p \in (size + 1)..requested : p = 2 \/ ~IsPrime(p)
    BY DEF SizeIsClosestPrime
  <2>1. requested \in Nat
    BY PermutationAssumption DEF PermInv
  <2>2. ~Refused(kind, requested) /\ size = InitSize(kind, requested)
    BY DEF PermInv, Accepted
  <2>3. size = ClosestSmallerPrime(requested) /\ ClosestSmallerPrime(requested) # 0
    BY <2>2 DEF Refused, InitSize, AffineSize
  <2>4. /\ size \in 3..requested /\ size % 2 = 1 /\ MillerRabin(size)
        /\ \A m \in (size + 1)..requested : m % 2 = 1 => ~MillerRabin(m)
    BY <2>1, <2>3, ClosestAccepted
  <2>5. IsPrime(size)
    <3>1. size \in Nat
      BY <2>4
    <3> QED BY <2>4, <3>1, MillerRabinFindsPrimes
  <2>6. ASSUME NEW p \in (size + 1)..requested, p # 2
        PROVE  ~IsPrime(p)
    <3>1. p \in Nat /\ p > 2
      BY <2>1, <2>4
    <3>2. CASE p % 2 = 1
      BY <2>4, <3>1, <3>2, MillerRabinFindsPrimes
    <3>3. CASE p % 2 # 1
      <4>1. p % 2 = 0 /\ 2 \in 2..(p - 1)
        BY <3>1, <3>3
      <4> QED BY <4>1 DEF IsPrime
    <3> QED BY <3>2, <3>3
  <2> QED BY <2>5, <2>6
<1> QED BY <1>1, PermutationInvariant, PTL

\* The mixed Feistel permutation never looks beyond its tables.
THEOREM TablesAreLongEnough == Spec => []TablesSuffice
<1>1. PermInv => TablesSuffice
  <2> SUFFICES ASSUME PermInv, phase = "ready", kind = "mix"
               PROVE  LeftMod(requested) <= RightSize(requested)
    BY DEF TablesSuffice
  <2>1. requested \in Nat /\ requested >= 2
    BY PermutationAssumption DEF PermInv, Accepted, Refused
  <2>2. LeftMod(requested) \in 1..RightSize(requested) /\ RightSize(requested) \in Nat
    BY <2>1, HalvesFit
  <2> QED BY <2>2
<1> QED BY <1>1, PermutationInvariant, PTL

\* The default permutation never moves an element out of its row.
THEOREM MixKeepsRows == Spec => []MixStaysInRow
<1>1. PermInv => MixStaysInRow
  <2> SUFFICES ASSUME PermInv, kind = "mix", NEW e \in Asked
               PROVE  image[e] \div RightSize(requested) = e \div RightSize(requested)
    BY DEF MixStaysInRow
  <2>1. Accepted(kind, key, requested) /\ size = InitSize(kind, requested)
    BY DEF PermInv
  <2> QED BY <2>1, PermuteInjective DEF PermInv, Element
<1> QED BY <1>1, PermutationInvariant, PTL

=============================================================================
