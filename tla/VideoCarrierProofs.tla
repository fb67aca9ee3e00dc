------------------------- MODULE VideoCarrierProofs -------------------------
(***************************************************************************)
(* For any video, any contents and any number of Saves, failures and       *)
(* crashes: a Save changes neither which packets take a bit nor their      *)
(* order, makes no times that the muxer refuses, and loses no frame.       *)
(*                                                                         *)
(* The argument follows the packets: what the handler holds, what a Save   *)
(* is about to write and what is in the file all descend from the packets  *)
(* the file had in the beginning, by changes of the lowest bit of pts that *)
(* the next choice of packets does not see.                                *)
(***************************************************************************)
EXTENDS VideoCarrier, FiniteSetTheorems, TLAPS

Handlers == [packets : Seq(Packet), bframes : BOOLEAN, input : BOOLEAN]

-----------------------------------------------------------------------------
(* The packets that take a bit.                                            *)

\* Ascending goes through every number of a set once.
LEMMA AscendingEnumerates ==
    ASSUME NEW S \in SUBSET Nat, IsFiniteSet(S)
    PROVE  /\ Cardinality(S) \in Nat
           /\ Ascending(S) \in [1..Cardinality(S) -> S]
           /\ \A k, l \in 1..Cardinality(S) : Ascending(S)[k] = Ascending(S)[l] => k = l
<1>. DEFINE n == Cardinality(S)
            Before(i) == {j \in S : j < i}
            rank == [i \in S |-> Cardinality(Before(i))]
<1>1. n \in Nat
  BY FS_CardinalityType
<1>2. ASSUME NEW i \in S
      PROVE  IsFiniteSet(Before(i)) /\ Cardinality(Before(i)) \in 0..(n - 1)
  <2>1. Before(i) \in SUBSET S /\ i \notin Before(i)
    OBVIOUS
  <2>2. IsFiniteSet(Before(i)) /\ Cardinality(Before(i)) <= n /\ Cardinality(Before(i)) # n
    BY <2>1, FS_Subset
  <2>3. Cardinality(Before(i)) \in Nat
    BY <2>2, FS_CardinalityType
  <2>. QED
    BY <2>2, <2>3, <1>1
<1>3. ASSUME NEW i \in S, NEW j \in S, i < j
      PROVE  Cardinality(Before(i)) # Cardinality(Before(j))
  <2>1. Before(i) \in SUBSET Before(j) /\ i \in Before(j) /\ i \notin Before(i)
    <3>1. \A x \in S : x \in Nat
      OBVIOUS
    <3>2. i \in Before(j) /\ i \notin Before(i)
      BY <3>1, <1>3
    <3>3. ASSUME NEW x \in Before(i)
          PROVE  x \in Before(j)
      BY <3>1, <1>3
    <3>. QED
      BY <3>2, <3>3
  <2>. QED
    BY <2>1, <1>2, FS_Subset
<1>4. rank \in Injection(S, 0..(n - 1))
  <2>1. rank \in [S -> 0..(n - 1)]
    BY <1>2
  <2>2. ASSUME NEW i \in S, NEW j \in S, rank[i] = rank[j]
        PROVE  i = j
    <3>1. i < j \/ j < i \/ i = j
      OBVIOUS
    <3>. QED
      BY <3>1, <2>2, <1>3
  <2>. QED
    BY <2>1, <2>2 DEF Injection, IsInjective
<1>5. IsFiniteSet(0..(n - 1)) /\ Cardinality(0..(n - 1)) = n
  <2>1. 0 \in Int /\ n - 1 \in Int
    BY <1>1
  <2>2. IsFiniteSet(0..(n - 1)) /\ Cardinality(0..(n - 1)) = IF 0 > n - 1 THEN 0 ELSE (n - 1) - 0 + 1
    BY <2>1, FS_Interval
  <2>. QED
    BY <2>2, <1>1
<1>6. rank \in Surjection(S, 0..(n - 1))
  <2>. HIDE DEF rank
  <2>. QED
    BY <1>4, <1>5, FS_Injection
<1>7. ASSUME NEW k \in 1..n
      PROVE  \E i \in S : Cardinality(Before(i)) = k - 1
  <2>1. k - 1 \in 0..(n - 1)
    BY <1>1
  <2>2. PICK i \in S : rank[i] = k - 1
    BY <2>1, <1>6 DEF Surjection
  <2>. QED
    BY <2>2
<1>8. ASSUME NEW k \in 1..n
      PROVE  Ascending(S)[k] \in S /\ Cardinality(Before(Ascending(S)[k])) = k - 1
  <2>1. Ascending(S)[k] = CHOOSE i \in S : Cardinality(Before(i)) = k - 1
    BY DEF Ascending
  <2>. QED
    BY <2>1, <1>7
<1>9. Ascending(S) \in [1..n -> S]
  <2>. DEFINE at(k) == CHOOSE i \in S : Cardinality(Before(i)) = k - 1
  <2>1. Ascending(S) = [k \in 1..n |-> at(k)]
    BY DEF Ascending
  <2>2. \A k \in 1..n : at(k) \in S
    BY <1>7
  <2>. HIDE DEF at, n
  <2>. QED
    BY <2>1, <2>2
<1>10. ASSUME NEW k \in 1..n, NEW l \in 1..n, Ascending(S)[k] = Ascending(S)[l]
      PROVE  k = l
  <2>1. k - 1 = l - 1
    BY <1>8, <1>10
  <2>. QED
    BY <2>1, <1>1
<1>. QED
  BY <1>1, <1>9, <1>10

\* Places of a sequence are numbers, and finitely many.
LEMMA PlacesAreFinite ==
    ASSUME NEW s, NEW n \in Nat, s \subseteq 1..n
    PROVE  s \in SUBSET Nat /\ IsFiniteSet(s)
<1>1. IsFiniteSet(1..n)
  BY FS_Interval
<1>2. s \in SUBSET (1..n)
  OBVIOUS
<1>3. IsFiniteSet(s)
  BY <1>1, <1>2, FS_Subset, Zenon
<1>. QED
  BY <1>3

\* A function on 1..n is a sequence.
LEMMA FunctionIsSequence ==
    ASSUME NEW S, NEW n \in Nat, NEW f \in [1..n -> S]
    PROVE  f \in Seq(S) /\ Len(f) = n /\ DOMAIN f = 1..n
<1>1. f \in Seq(S)
  OBVIOUS
<1>. QED
  BY <1>1

\* Two enumerations of disjoint sets make one of both.
LEMMA Joined ==
    ASSUME NEW V, NEW A, NEW D, V \subseteq D, A \subseteq D, V \cap A = {},
           NEW n \in Nat, NEW m \in Nat, NEW v \in [1..n -> V], NEW a \in [1..m -> A],
           \A k, l \in 1..n : v[k] = v[l] => k = l,
           \A k, l \in 1..m : a[k] = a[l] => k = l
    PROVE  /\ v \o a \in Seq(D) /\ Len(v \o a) = n + m
           /\ \A k \in DOMAIN (v \o a) : (v \o a)[k] \in V \cup A
           /\ \A k, l \in DOMAIN (v \o a) : (v \o a)[k] = (v \o a)[l] => k = l
<1>1. v \in Seq(D) /\ Len(v) = n /\ a \in Seq(D) /\ Len(a) = m
  <2>1. v \in [1..n -> D] /\ a \in [1..m -> D]
    OBVIOUS
  <2>. QED
    BY <2>1, FunctionIsSequence
<1>2. PICK s : s = v \o a
  OBVIOUS
<1>3. /\ s \in Seq(D) /\ Len(s) = n + m /\ DOMAIN s = 1..(n + m)
      /\ \A k \in 1..n : s[k] = v[k]
      /\ \A k \in (n + 1)..(n + m) : s[k] = a[k - n]
  <2>1. v \o a \in Seq(D) /\ Len(v \o a) = n + m /\ DOMAIN (v \o a) = 1..(n + m)
    BY <1>1
  <2>2. \A k \in 1..(n + m) : (v \o a)[k] = IF k <= n THEN v[k] ELSE a[k - n]
    BY <1>1
  <2>. QED
    BY <2>1, <2>2, <1>2
<1>4. \A k \in 1..n : s[k] \in V
  BY <1>3
<1>5. ASSUME NEW k \in (n + 1)..(n + m)
      PROVE  k - n \in 1..m /\ s[k] \in A
  <2>1. k - n \in 1..m
    OBVIOUS
  <2>. QED
    BY <1>3, <2>1
<1>6. \A k \in 1..(n + m) : k \in 1..n \/ k \in (n + 1)..(n + m)
  OBVIOUS
<1>7. ASSUME NEW k \in 1..(n + m), NEW l \in 1..(n + m), s[k] = s[l]
      PROVE  k = l
  <2>1. CASE k \in 1..n /\ l \in 1..n
    BY <2>1, <1>3, <1>7
  <2>2. CASE k \in (n + 1)..(n + m) /\ l \in (n + 1)..(n + m)
    <3>1. k - n \in 1..m /\ l - n \in 1..m /\ a[k - n] = a[l - n]
      BY <2>2, <1>3, <1>5, <1>7
    <3>2. k - n = l - n
      BY <3>1
    <3>. QED
      BY <3>2
  <2>3. CASE k \in 1..n /\ l \in (n + 1)..(n + m)
    BY <2>3, <1>4, <1>5, <1>7
  <2>4. CASE k \in (n + 1)..(n + m) /\ l \in 1..n
    BY <2>4, <1>4, <1>5, <1>7
  <2>. QED
    BY <1>6, <2>1, <2>2, <2>3, <2>4
<1>8. \A k \in 1..(n + m) : s[k] \in V \cup A
  BY <1>4, <1>5, <1>6
<1>. QED
  BY <1>2, <1>3, <1>7, <1>8

\* A remainder is below the divisor.
LEMMA DivisionWithRemainder ==
    ASSUME NEW n \in Nat, NEW b \in Nat \ {0}
    PROVE  /\ n \div b \in Nat /\ n % b \in 0..(b - 1)
           /\ (n \div b) * b \in Nat
           /\ n = (n \div b) * b + (n % b)
<1>1. n \div b \in Nat /\ n % b \in 0..(b - 1) /\ n = (n \div b) * b + (n % b)
  OBVIOUS
<1>. QED
  BY <1>1

\* The packets that MP4 may choose.
MayTake(h, i) ==
    \/ h.packets[i].type = "audio"
    \/ h.packets[i].type = "video" /\ (h.bframes => Applicable(h.packets[i]))

\* The packets of a handler, one by one.
LEMMA HandlerPackets ==
    ASSUME NEW h \in Handlers
    PROVE  /\ h.packets \in Seq(Packet) /\ Len(h.packets) \in Nat
           /\ DOMAIN h.packets = 1..Len(h.packets)
           /\ \A i \in DOMAIN h.packets :
                  /\ h.packets[i] \in Packet
                  /\ h.packets[i].pts \in Int /\ h.packets[i].dts \in Int
           /\ h.bframes \in BOOLEAN /\ h.input \in BOOLEAN
<1>1. h.packets \in Seq(Packet) /\ h.bframes \in BOOLEAN /\ h.input \in BOOLEAN
  BY DEF Handlers
<1>2. \A i \in DOMAIN h.packets : h.packets[i] \in Packet
  BY <1>1
<1>3. \A p \in Packet : p.pts \in Int /\ p.dts \in Int
  BY DEF Packet
<1>. QED
  BY <1>1, <1>2, <1>3

\* Every chosen packet is chosen once, and is one that may be.
LEMMA SlotsAreChosen ==
    ASSUME NEW h \in Handlers, kind \in {"mkv", "mp4"}
    PROVE  /\ Slots(h) \in Seq(DOMAIN h.packets)
           /\ \A k, l \in DOMAIN Slots(h) : Slots(h)[k] = Slots(h)[l] => k = l
           /\ kind = "mkv" => Len(Slots(h)) = Len(h.packets)
           /\ kind = "mp4" =>
                  /\ \A k \in DOMAIN Slots(h) : MayTake(h, Slots(h)[k])
                  /\ Cardinality(VideoSlots(h)) \in Nat
                  /\ Cardinality(Packets("audio", h.packets)) \in Nat
                  /\ Len(Slots(h)) = Cardinality(VideoSlots(h))
                                         + Cardinality(Packets("audio", h.packets))
<1>. DEFINE D == DOMAIN h.packets
            V == VideoSlots(h)
            A == Packets("audio", h.packets)
<1>1. D = 1..Len(h.packets) /\ Len(h.packets) \in Nat
  BY HandlerPackets
<1>2. V \subseteq D /\ A \subseteq D /\ V \cap A = {}
  BY DEF VideoSlots, Packets
<1>3. /\ D \in SUBSET Nat /\ IsFiniteSet(D)
      /\ V \in SUBSET Nat /\ IsFiniteSet(V)
      /\ A \in SUBSET Nat /\ IsFiniteSet(A)
  BY <1>1, <1>2, PlacesAreFinite
<1>4. CASE kind = "mkv"
  <2>1. Slots(h) = Ascending(D)
    BY <1>4 DEF Slots
  <2>2. Cardinality(D) = Len(h.packets)
    <3>1. 1 \in Int /\ Len(h.packets) \in Int
      BY <1>1
    <3>2. Cardinality(1..Len(h.packets))
            = IF 1 > Len(h.packets) THEN 0 ELSE Len(h.packets) - 1 + 1
      BY <3>1, FS_Interval
    <3>. QED
      BY <3>2, <1>1
  <2>3. /\ Ascending(D) \in [1..Len(h.packets) -> D]
        /\ \A k, l \in 1..Len(h.packets) : Ascending(D)[k] = Ascending(D)[l] => k = l
    BY <2>2, <1>3, AscendingEnumerates
  <2>4. Ascending(D) \in Seq(D) /\ Len(Ascending(D)) = Len(h.packets)
        /\ DOMAIN Ascending(D) = 1..Len(h.packets)
    BY <2>3, <1>1, FunctionIsSequence
  <2>. QED
    BY <2>1, <2>3, <2>4, <1>4
<1>5. CASE kind = "mp4"
  <2>. DEFINE v == Ascending(V)
              a == Ascending(A)
  <2>1. /\ Cardinality(V) \in Nat /\ v \in [1..Cardinality(V) -> V]
        /\ \A k, l \in 1..Cardinality(V) : v[k] = v[l] => k = l
    BY <1>3, AscendingEnumerates
  <2>2. /\ Cardinality(A) \in Nat /\ a \in [1..Cardinality(A) -> A]
        /\ \A k, l \in 1..Cardinality(A) : a[k] = a[l] => k = l
    BY <1>3, AscendingEnumerates
  <2>3. Slots(h) = v \o a
    BY <1>5 DEF Slots
  <2>4. /\ v \o a \in Seq(D) /\ Len(v \o a) = Cardinality(V) + Cardinality(A)
        /\ \A k \in DOMAIN (v \o a) : (v \o a)[k] \in V \cup A
        /\ \A k, l \in DOMAIN (v \o a) : (v \o a)[k] = (v \o a)[l] => k = l
    <3>. HIDE DEF v, a, V, A, D
    <3>. QED
      BY <2>1, <2>2, <1>2, Joined
  <2>5. \A i \in V \cup A : MayTake(h, i)
    BY DEF MayTake, VideoSlots, Packets
  <2>6. kind # "mkv"
    BY <1>5
  <2>. HIDE DEF v, a, MayTake
  <2>. QED
    BY <2>1, <2>2, <2>3, <2>4, <2>5, <2>6
<1>. QED
  BY <1>4, <1>5

\* What fits into a carrier, it has packets for.
LEMMA RoomFits ==
    ASSUME NEW h \in Handlers, kind \in {"mkv", "mp4"}
    PROVE  /\ Len(Slots(h)) \in Nat /\ CalculateCapacity(h) \in Nat
           /\ Room(h) \in Nat /\ Room(h) <= Len(Slots(h))
           /\ Room(h) = Len(Slots(h)) - (Len(Slots(h)) % ByteBits)
           /\ Len(h.packets) = 0 => CalculateCapacity(h) = 0
<1>1. Slots(h) \in Seq(DOMAIN h.packets) /\ DOMAIN h.packets = 1..Len(h.packets)
  BY SlotsAreChosen, HandlerPackets
<1>2. Len(Slots(h)) \in Nat
  BY <1>1
<1>3. ByteBits \in Nat \ {0}
  BY VideoAssumption
<1>. DEFINE n == Len(Slots(h))
            q == n \div ByteBits
            r == n % ByteBits
<1>4. q \in Nat /\ r \in Nat /\ q * ByteBits \in Nat /\ n = q * ByteBits + r
  BY <1>2, <1>3, DivisionWithRemainder
<1>5. Room(h) = q * ByteBits /\ CalculateCapacity(h) = q
  BY DEF Room, CalculateCapacity
<1>6. Len(h.packets) = 0 => q = 0
  <2>. SUFFICES ASSUME Len(h.packets) = 0 PROVE q = 0
    OBVIOUS
  <2>1. n = 0
    <3>. SUFFICES ASSUME n # 0 PROVE FALSE
      OBVIOUS
    <3>1. 1 \in DOMAIN Slots(h)
      BY <1>1, <1>2
    <3>2. Slots(h)[1] \in DOMAIN h.packets
      BY <3>1, <1>1
    <3>. QED
      BY <3>2, <1>1
  <2>. QED
    BY <2>1, <1>3
<1>. QED
  <2>. DEFINE N == q * ByteBits
  <2>. HIDE DEF n, q, r, N
  <2>1. N \in Nat /\ n = N + r /\ Room(h) = N
    BY <1>4, <1>5 DEF N
  <2>2. N <= n /\ N = n - r
    BY <2>1, <1>4, <1>2 DEF n
  <2>3. Room(h) <= Len(Slots(h)) /\ Room(h) = Len(Slots(h)) - (Len(Slots(h)) % ByteBits)
    BY <2>1, <2>2 DEF n, r
  <2>. QED
    BY <2>1, <2>3, <1>2, <1>4, <1>5, <1>6

-----------------------------------------------------------------------------
(* What writing bits changes.                                              *)

\* Only the lowest bit is replaced, so that writing it twice is writing it once.
LEMMA ModifyLSBIs ==
    ASSUME NEW x \in Int, NEW b \in 0..1
    PROVE  /\ ModifyLSB(x, b) \in Int /\ ModifyLSB(x, b) % 2 = b
           /\ x - 1 <= ModifyLSB(x, b) /\ ModifyLSB(x, b) <= x + 1
           /\ ModifyLSB(x, b) = ModifyLSB(x, 0) + b
           /\ ModifyLSB(x, 0) <= x /\ x <= ModifyLSB(x, 0) + 1
           /\ \A c \in 0..1 : ModifyLSB(ModifyLSB(x, b), c) = ModifyLSB(x, c)
<1>. DEFINE m == x \div 2
            r == x % 2
<1>1. x = 2 * m + r /\ r \in 0..1 /\ m \in Int
  OBVIOUS
<1>2. ModifyLSB(x, 0) = 2 * m /\ \A c \in 0..1 : ModifyLSB(x, c) = 2 * m + c
  BY <1>1 DEF ModifyLSB
<1>3. (2 * m + b) % 2 = b
  <2>. HIDE DEF m
  <2>. QED
    BY <1>1
<1>4. ModifyLSB(x, b) \in Int /\ ModifyLSB(x, b) % 2 = b
  <2>. HIDE DEF m, r
  <2>. QED
    BY <1>1, <1>2, <1>3
<1>5. \A c \in 0..1 : ModifyLSB(ModifyLSB(x, b), c) = ModifyLSB(x, c)
  <2>. DEFINE y == ModifyLSB(x, b)
  <2>1. y = 2 * m + b /\ y % 2 = b
    BY <1>2, <1>4
  <2>2. \A c \in 0..1 : ModifyLSB(y, c) = y - (y % 2) + c
    BY DEF ModifyLSB
  <2>. HIDE DEF y, m, r
  <2>3. \A c \in 0..1 : ModifyLSB(y, c) = 2 * m + c
    BY <2>1, <2>2, <1>1
  <2>. QED
    BY <2>3, <1>2 DEF y
<1>. HIDE DEF m, r
<1>. QED
  BY <1>1, <1>2, <1>4, <1>5

\* A packet that has got a bit.
LEMMA WriteBitIs ==
    ASSUME NEW h \in Handlers, NEW i \in DOMAIN h.packets, NEW b \in 0..1,
           NEW p, p = h.packets[i], NEW q, q = WriteBit(h, i, b)
    PROVE  /\ q \in Packet /\ q.type = p.type /\ q.data = p.data
           /\ q.pts = ModifyLSB(p.pts, b)
           /\ q.dts = IF kind = "mkv" THEN (IF q.pts < p.dts THEN q.pts ELSE p.dts)
                      ELSE IF p.type = "video" /\ h.bframes THEN p.dts ELSE q.pts
<1>1. p \in Packet /\ p.pts \in Int /\ p.dts \in Int
  BY HandlerPackets
<1>. DEFINE x == ModifyLSB(p.pts, b)
            d == IF kind = "mkv" THEN (IF x < p.dts THEN x ELSE p.dts)
                 ELSE IF p.type = "video" /\ h.bframes THEN p.dts ELSE x
<1>2. x \in Int
  BY <1>1, ModifyLSBIs
<1>3. d \in Int
  BY <1>1, <1>2
<1>4. q = [p EXCEPT !.pts = x, !.dts = d]
  BY DEF WriteBit
<1>. HIDE DEF x, d
<1>5. q \in Packet /\ q.type = p.type /\ q.data = p.data /\ q.pts = x /\ q.dts = d
  BY <1>1, <1>2, <1>3, <1>4 DEF Packet
<1>. QED
  BY <1>5 DEF x, d

\* Every packet stays as it is or gets a bit, and the chosen ones get theirs.
LEMMA SaveBufferIs ==
    ASSUME NEW h \in Handlers, kind \in {"mkv", "mp4"}, size \in Nat,
           NEW bits \in [1..size -> 0..1],
           NEW g, g = SaveBuffer(h, bits)
    PROVE  /\ g \in Seq(Packet) /\ Len(g) = Len(h.packets) /\ DOMAIN g = DOMAIN h.packets
           /\ \A i \in DOMAIN h.packets :
                  \/ g[i] = h.packets[i]
                  \/ /\ kind = "mp4" => MayTake(h, i)
                     /\ \E b \in 0..1 : g[i] = WriteBit(h, i, b)
           /\ \A k \in 1..size : k <= Len(Slots(h)) =>
                  /\ Slots(h)[k] \in DOMAIN h.packets
                  /\ g[Slots(h)[k]] = WriteBit(h, Slots(h)[k], bits[k])
<1>. DEFINE D == DOMAIN h.packets
            n == Len(h.packets)
            at(i) == {k \in 1..size : k <= Len(Slots(h)) /\ Slots(h)[k] = i}
            new(i) == IF at(i) = {} THEN h.packets[i]
                      ELSE WriteBit(h, i, bits[CHOOSE k \in at(i) : TRUE])
<1>1. g = [i \in D |-> new(i)]
  BY DEF SaveBuffer
<1>2. n \in Nat /\ D = 1..n /\ \A i \in D : h.packets[i] \in Packet
  BY HandlerPackets
<1>3. PICK s : s = Slots(h)
  OBVIOUS
<1>4. /\ s \in Seq(D) /\ \A k, l \in DOMAIN s : s[k] = s[l] => k = l
      /\ kind = "mp4" => \A k \in DOMAIN s : MayTake(h, s[k])
  BY <1>3, SlotsAreChosen
<1>5. ASSUME NEW k \in 1..size, k <= Len(s)
      PROVE  k \in DOMAIN s /\ s[k] \in D
  <2>1. Len(s) \in Nat /\ DOMAIN s = 1..Len(s)
    BY <1>4
  <2>2. k \in DOMAIN s
    BY <1>5, <2>1
  <2>. QED
    BY <2>2, <1>4
<1>6. ASSUME NEW i \in D
      PROVE  \/ at(i) = {} /\ new(i) = h.packets[i]
             \/ \E k \in at(i) : new(i) = WriteBit(h, i, bits[k])
  <2>1. CASE at(i) = {}
    BY <2>1
  <2>2. CASE at(i) # {}
    <3>1. (CHOOSE k \in at(i) : TRUE) \in at(i)
      BY <2>2
    <3>. HIDE DEF at
    <3>. QED
      BY <3>1, <2>2
  <2>. QED
    BY <2>1, <2>2
<1>7. ASSUME NEW i \in D, NEW k \in at(i)
      PROVE  bits[k] \in 0..1 /\ (kind = "mp4" => MayTake(h, i))
  <2>1. k \in 1..size /\ k <= Len(s) /\ s[k] = i
    BY <1>3
  <2>2. k \in DOMAIN s
    BY <2>1, <1>5
  <2>. QED
    BY <2>1, <2>2, <1>4
<1>8. ASSUME NEW i \in D
      PROVE  /\ new(i) \in Packet
             /\ \/ new(i) = h.packets[i]
                \/ /\ kind = "mp4" => MayTake(h, i)
                   /\ \E b \in 0..1 : new(i) = WriteBit(h, i, b)
  <2>. HIDE DEF at, new, D
  <2>1. \A b \in 0..1 : WriteBit(h, i, b) \in Packet
    BY WriteBitIs DEF D
  <2>. QED
    BY <2>1, <1>2, <1>6, <1>7
<1>9. ASSUME NEW k \in 1..size, k <= Len(Slots(h))
      PROVE  Slots(h)[k] \in D /\ g[Slots(h)[k]] = WriteBit(h, Slots(h)[k], bits[k])
  <2>1. s[k] \in D /\ k \in DOMAIN s
    BY <1>5, <1>9, <1>3
  <2>2. k \in at(s[k])
    BY <1>9, <1>3
  <2>3. \A l \in at(s[k]) : l = k
    <3>. SUFFICES ASSUME NEW l \in at(s[k]) PROVE l = k
      OBVIOUS
    <3>1. l \in 1..size /\ l <= Len(s) /\ s[l] = s[k]
      BY <1>3
    <3>2. l \in DOMAIN s
      BY <3>1, <1>5
    <3>. QED
      BY <3>1, <3>2, <2>1, <1>4
  <2>4. new(s[k]) = WriteBit(h, s[k], bits[k])
    <3>. HIDE DEF at, new
    <3>. QED
      BY <2>1, <2>2, <2>3, <1>6
  <2>5. g[s[k]] = new(s[k])
    <3>. HIDE DEF new, D
    <3>. QED
      BY <2>1, <1>1
  <2>. QED
    BY <2>1, <2>4, <2>5, <1>3
<1>. HIDE DEF new, at
<1>10. g \in [1..n -> Packet]
  BY <1>1, <1>2, <1>8
<1>11. g \in Seq(Packet) /\ Len(g) = n /\ DOMAIN g = 1..n
  BY <1>10, <1>2, FunctionIsSequence
<1>. QED
  BY <1>1, <1>2, <1>8, <1>9, <1>11

\* The handler with other packets.
LEMMA WithPackets ==
    ASSUME NEW h \in Handlers, NEW ps \in Seq(Packet),
           NEW g, g = [h EXCEPT !.packets = ps]
    PROVE  /\ g \in Handlers
           /\ g.packets = ps /\ g.bframes = h.bframes /\ g.input = h.input
           /\ ps = h.packets => g = h
<1>1. h \in [packets : Seq(Packet), bframes : BOOLEAN, input : BOOLEAN]
  BY DEF Handlers
<1>2. g \in Handlers /\ g.packets = ps /\ g.bframes = h.bframes /\ g.input = h.input
  BY <1>1 DEF Handlers
<1>3. ps = h.packets => g = h
  BY <1>1
<1>. QED
  BY <1>2, <1>3

\* Which packets take a bit depends on nothing that a bit changes.
LEMMA SameSlots ==
    ASSUME NEW g \in Handlers, NEW h \in Handlers,
           DOMAIN g.packets = DOMAIN h.packets,
           kind \in {"mkv", "mp4"},
           kind = "mp4" =>
               /\ g.bframes = h.bframes
               /\ \A i \in DOMAIN h.packets :
                      /\ g.packets[i].type = h.packets[i].type
                      /\ h.bframes /\ h.packets[i].type = "video" =>
                             (Applicable(g.packets[i]) <=> Applicable(h.packets[i]))
    PROVE  /\ Slots(g) = Slots(h) /\ CalculateCapacity(g) = CalculateCapacity(h)
           /\ Room(g) = Room(h)
           /\ kind = "mp4" => /\ VideoSlots(g) = VideoSlots(h)
                              /\ Packets("audio", g.packets) = Packets("audio", h.packets)
<1>1. Slots(g) = Slots(h)
      /\ (kind = "mp4" => /\ VideoSlots(g) = VideoSlots(h)
                          /\ Packets("audio", g.packets) = Packets("audio", h.packets))
  <2>1. CASE kind = "mkv"
    BY <2>1 DEF Slots
  <2>2. CASE kind = "mp4"
    <3>1. \A t : Packets(t, g.packets) = Packets(t, h.packets)
      BY <2>2 DEF Packets
    <3>2. \A i \in Packets("video", h.packets) : i \in DOMAIN h.packets /\ h.packets[i].type = "video"
      BY DEF Packets
    <3>3. VideoSlots(g) = VideoSlots(h)
      BY <2>2, <3>1, <3>2 DEF VideoSlots
    <3>. QED
      BY <2>2, <3>1, <3>3 DEF Slots
  <2>. QED
    BY <2>1, <2>2
<1>2. CalculateCapacity(g) = CalculateCapacity(h)
  BY <1>1 DEF CalculateCapacity
<1>. QED
  BY <1>1, <1>2 DEF Room

\* With either bit a packet is applicable, or with neither.
LEMMA ApplicableKept ==
    ASSUME NEW p \in Packet, NEW q \in Packet, q.dts = p.dts,
           ModifyLSB(q.pts, 0) = ModifyLSB(p.pts, 0)
    PROVE  Applicable(q) <=> Applicable(p)
<1>1. p.pts \in Int /\ q.pts \in Int
  BY DEF Packet
<1>2. ModifyLSB(q.pts, 1) = ModifyLSB(p.pts, 1)
  <2>1. 1 \in 0..1
    OBVIOUS
  <2>2. /\ ModifyLSB(q.pts, 1) = ModifyLSB(q.pts, 0) + 1
        /\ ModifyLSB(p.pts, 1) = ModifyLSB(p.pts, 0) + 1
    BY <2>1, <1>1, ModifyLSBIs, Zenon
  <2>. QED
    BY <2>2
<1>. QED
  BY <1>2 DEF Applicable

\* After SaveBuffer the same packets take the bits, and hold them.
LEMMA SaveBufferKeepsSlots ==
    ASSUME NEW h \in Handlers, kind \in {"mkv", "mp4"}, size \in Nat,
           NEW bits \in [1..size -> 0..1],
           NEW g, g = [h EXCEPT !.packets = SaveBuffer(h, bits)]
    PROVE  /\ g \in Handlers /\ g.packets = SaveBuffer(h, bits)
           /\ g.bframes = h.bframes /\ g.input = h.input
           /\ DOMAIN g.packets = DOMAIN h.packets /\ Len(g.packets) = Len(h.packets)
           /\ \A i \in DOMAIN h.packets : /\ g.packets[i].type = h.packets[i].type
                                          /\ g.packets[i].data = h.packets[i].data
           /\ Room(g) = Room(h)
           /\ size = Room(h) => BitsIn(g) = bits
<1>1. PICK ps : ps = SaveBuffer(h, bits)
  OBVIOUS
<1>2. /\ ps \in Seq(Packet) /\ Len(ps) = Len(h.packets) /\ DOMAIN ps = DOMAIN h.packets
      /\ \A i \in DOMAIN h.packets :
             \/ ps[i] = h.packets[i]
             \/ /\ kind = "mp4" => MayTake(h, i)
                /\ \E b \in 0..1 : ps[i] = WriteBit(h, i, b)
      /\ \A k \in 1..size : k <= Len(Slots(h)) =>
             /\ Slots(h)[k] \in DOMAIN h.packets
             /\ ps[Slots(h)[k]] = WriteBit(h, Slots(h)[k], bits[k])
  BY <1>1, SaveBufferIs
<1>3. g \in Handlers /\ g.packets = ps /\ g.bframes = h.bframes /\ g.input = h.input
  BY <1>1, <1>2, WithPackets
<1>4. ASSUME NEW i \in DOMAIN h.packets
      PROVE  /\ ps[i] \in Packet /\ h.packets[i] \in Packet
             /\ ps[i].type = h.packets[i].type /\ ps[i].data = h.packets[i].data
             /\ kind = "mp4" /\ h.bframes /\ h.packets[i].type = "video" =>
                    (Applicable(ps[i]) <=> Applicable(h.packets[i]))
  <2>1. PICK p : p = h.packets[i]
    OBVIOUS
  <2>2. p \in Packet /\ p.pts \in Int
    BY <2>1, HandlerPackets
  <2>3. CASE ps[i] = p
    BY <2>1, <2>2, <2>3
  <2>4. CASE \E b \in 0..1 : ps[i] = WriteBit(h, i, b)
    <3>1. PICK b \in 0..1 : ps[i] = WriteBit(h, i, b)
      BY <2>4
    <3>2. PICK q : q = ps[i] /\ q = WriteBit(h, i, b)
      BY <3>1
    <3>3. /\ q \in Packet /\ q.type = p.type /\ q.data = p.data
          /\ q.pts = ModifyLSB(p.pts, b)
          /\ q.dts = IF kind = "mkv" THEN (IF q.pts < p.dts THEN q.pts ELSE p.dts)
                     ELSE IF p.type = "video" /\ h.bframes THEN p.dts ELSE q.pts
      BY <2>1, <3>2, WriteBitIs
    <3>4. ModifyLSB(q.pts, 0) = ModifyLSB(p.pts, 0)
      <4>1. 0 \in 0..1
        OBVIOUS
      <4>. QED
        BY <4>1, <3>3, <2>2, ModifyLSBIs
    <3>5. kind = "mp4" /\ h.bframes /\ p.type = "video" => (Applicable(q) <=> Applicable(p))
      BY <3>3, <3>4, <2>2, ApplicableKept
    <3>. QED
      BY <2>1, <2>2, <3>2, <3>3, <3>5
  <2>. QED
    BY <1>2, <2>1, <2>3, <2>4
<1>5. Slots(g) = Slots(h) /\ Room(g) = Room(h)
  BY <1>2, <1>3, <1>4, SameSlots
<1>6. ASSUME size = Room(h)
      PROVE  BitsIn(g) = bits
  <2>1. Room(h) \in Nat /\ Room(h) <= Len(Slots(h)) /\ Len(Slots(h)) \in Nat
    BY RoomFits
  <2>2. ASSUME NEW k \in 1..size
        PROVE  g.packets[Slots(g)[k]].pts % 2 = bits[k]
    <3>1. k <= Len(Slots(h))
      BY <2>1, <1>6
    <3>2. PICK i \in DOMAIN h.packets : i = Slots(h)[k] /\ ps[i] = WriteBit(h, i, bits[k])
      BY <3>1, <1>2
    <3>3. bits[k] \in 0..1
      OBVIOUS
    <3>4. ps[i].pts = ModifyLSB(h.packets[i].pts, bits[k])
      BY <3>2, <3>3, WriteBitIs
    <3>5. ps[i].pts % 2 = bits[k]
      BY <3>3, <3>4, HandlerPackets, ModifyLSBIs
    <3>. QED
      BY <3>2, <3>5, <1>3, <1>5
  <2>3. BitsIn(g) = [k \in 1..size |-> g.packets[Slots(g)[k]].pts % 2]
    BY <1>5, <1>6 DEF BitsIn
  <2>. QED
    BY <2>2, <2>3
<1>. QED
  BY <1>1, <1>2, <1>3, <1>4, <1>5, <1>6

-----------------------------------------------------------------------------
(* Descendants of the original packets.                                    *)

\* The packets of the original file.
LEMMA GivenPackets ==
    ASSUME given \in Containers
    PROVE  /\ given \in Seq(Packet) /\ Len(given) \in Nat /\ DOMAIN given = 1..Len(given)
           /\ \A i \in DOMAIN given :
                  /\ given[i] \in Packet /\ given[i].pts \in Int /\ given[i].dts \in Int
                  /\ given[i].data /\ given[i].pts >= given[i].dts
<1>1. /\ given \in Seq(Packet)
      /\ \A i \in DOMAIN given : given[i].data /\ given[i].pts >= given[i].dts
  BY ContainerAssumption
<1>2. \A i \in DOMAIN given : given[i] \in Packet
  BY <1>1
<1>3. \A p \in Packet : p.pts \in Int /\ p.dts \in Int
  BY DEF Packet
<1>. QED
  BY <1>1, <1>2, <1>3

\* The packets of a file in which no stream was lost.
LEMMA StreamsAre ==
    ASSUME given \in Containers, NEW ps, SameStreams(ps)
    PROVE  /\ ps \in Seq(Packet) /\ Len(ps) = Len(given) /\ DOMAIN ps = DOMAIN given
           /\ \A i \in DOMAIN given : /\ ps[i] \in Packet /\ ps[i].type = given[i].type
                                      /\ ps[i].pts \in Int /\ ps[i].dts \in Int
           /\ \A t : Packets(t, ps) = Packets(t, given)
<1>1. /\ ps \in Seq(Packet) /\ Len(ps) = Len(given)
      /\ \A i \in DOMAIN given : ps[i].type = given[i].type
  BY DEF SameStreams
<1>2. DOMAIN ps = DOMAIN given
  BY <1>1, GivenPackets
<1>3. \A i \in DOMAIN given : ps[i] \in Packet
  BY <1>1, <1>2
<1>4. \A p \in Packet : p.pts \in Int /\ p.dts \in Int
  BY DEF Packet
<1>5. \A t : Packets(t, ps) = Packets(t, given)
  BY <1>1, <1>2 DEF Packets
<1>. QED
  BY <1>1, <1>2, <1>3, <1>4, <1>5

\* What the guess goes by.
LEMMA GuessIs ==
    ASSUME NEW ps, given \in Containers, SameStreams(ps), detection = "guess"
    PROVE  HasBFrames(ps) <=> \E i \in Packets("video", given) :
                                  ps[i].pts - ps[i].dts >= 2 \/ ps[i].dts - ps[i].pts >= 2
<1>1. HasBFrames(ps) <=> \E i \in Packets("video", ps) : Abs(ps[i].pts - ps[i].dts) >= 2
  BY DEF HasBFrames
<1>2. \A i \in Packets("video", given) : i \in DOMAIN given
  BY DEF Packets
<1>3. ASSUME NEW i \in Packets("video", given)
      PROVE  Abs(ps[i].pts - ps[i].dts) >= 2
                 <=> ps[i].pts - ps[i].dts >= 2 \/ ps[i].dts - ps[i].pts >= 2
  <2>1. ps[i].pts \in Int /\ ps[i].dts \in Int
    BY <1>2, StreamsAre
  <2>. QED
    BY <2>1 DEF Abs
<1>. QED
  BY <1>1, <1>3, StreamsAre

\* A packet descends from itself.
LEMMA SelfDescends ==
    ASSUME NEW g \in Packet, g.pts >= g.dts
    PROVE  DescendsFrom(g, g)
<1>1. g.pts \in Int /\ g.dts \in Int
  BY DEF Packet
<1>. QED
  BY <1>1 DEF DescendsFrom

\* The file in the beginning.
LEMMA GivenDescends ==
    ASSUME given \in Containers, detection \in Detections
    PROVE  Descendant(given, HasBFrames(given)) /\ Whole(given)
<1>1. SameStreams(given) /\ Whole(given)
  BY GivenPackets DEF SameStreams, Whole
<1>2. \A i \in DOMAIN given : DescendsFrom(given[i], given[i])
  BY GivenPackets, SelfDescends
<1>3. detection \in {"guess", "ffprobe yes", "ffprobe no"}
  BY ContainerAssumption
<1>4. /\ detection = "ffprobe yes" => HasBFrames(given)
      /\ detection = "ffprobe no" => ~HasBFrames(given)
  BY DEF HasBFrames
<1>5. ASSUME detection = "guess"
      PROVE  (FarAhead => HasBFrames(given)) /\ (Near => ~HasBFrames(given))
  <2>1. HasBFrames(given) <=> \E i \in Packets("video", given) :
            given[i].pts - given[i].dts >= 2 \/ given[i].dts - given[i].pts >= 2
    BY <1>1, <1>5, GuessIs
  <2>2. ASSUME NEW i \in Packets("video", given)
        PROVE  /\ given[i].pts \in Int /\ given[i].dts \in Int
               /\ given[i].pts >= given[i].dts
               /\ ModifyLSB(given[i].pts, 0) <= given[i].pts
               /\ ModifyLSB(given[i].pts, 0) \in Int
    <3>1. i \in DOMAIN given /\ 0 \in 0..1
      BY DEF Packets
    <3>. QED
      BY <3>1, GivenPackets, ModifyLSBIs
  <2>3. FarAhead => HasBFrames(given)
    BY <2>1, <2>2 DEF FarAhead
  <2>4. Near => ~HasBFrames(given)
    BY <2>1, <2>2 DEF Near
  <2>. QED
    BY <2>3, <2>4
<1>6. FitsAnswer(given, HasBFrames(given))
  BY <1>4, <1>5 DEF FitsAnswer
<1>. QED
  BY <1>1, <1>2, <1>6 DEF Descendant

\* A bit more or less, and a packet descends from the same one.
LEMMA DescendsAgain ==
    ASSUME NEW p \in Packet, NEW g \in Packet, NEW q \in Packet, NEW b \in 0..1, NEW f \in BOOLEAN,
           g.pts >= g.dts, DescendsFrom(p, g), kind \in {"mkv", "mp4"},
           kind = "mp4" => \/ p.type = "audio"
                           \/ p.type = "video" /\ (f => Applicable(p)),
           kind = "mp4" /\ p.type = "video" /\ f => p.dts = g.dts,
           q.type = p.type, q.pts = ModifyLSB(p.pts, b),
           q.dts = IF kind = "mkv" THEN (IF q.pts < p.dts THEN q.pts ELSE p.dts)
                   ELSE IF p.type = "video" /\ f THEN p.dts ELSE q.pts
    PROVE  /\ DescendsFrom(q, g)
           /\ kind = "mp4" => /\ p.type = "video" /\ f => q.dts = g.dts
                              /\ ~f => q.dts = q.pts
<1>1. /\ p.pts \in Int /\ p.dts \in Int /\ g.pts \in Int /\ g.dts \in Int
      /\ q.pts \in Int /\ q.dts \in Int
  BY DEF Packet
<1>. DEFINE m == ModifyLSB(p.pts, 0)
<1>2. /\ m \in Int /\ m = ModifyLSB(g.pts, 0) /\ p.pts >= p.dts
      /\ kind = "mkv" => g.dts - 1 <= p.dts /\ p.dts <= g.dts
  <2>1. 0 \in 0..1
    OBVIOUS
  <2>2. m \in Int
    BY <2>1, <1>1, ModifyLSBIs
  <2>. QED
    BY <2>2 DEF DescendsFrom
<1>3. /\ m <= p.pts /\ p.pts <= m + 1 /\ m <= g.pts /\ g.pts <= m + 1
      /\ q.pts = m + b /\ ModifyLSB(q.pts, 0) = m
  <2>1. 0 \in 0..1
    OBVIOUS
  <2>2. m <= p.pts /\ p.pts <= m + 1
    BY <2>1, <1>1, ModifyLSBIs
  <2>3. m <= g.pts /\ g.pts <= m + 1
    <3>1. ModifyLSB(g.pts, 0) <= g.pts /\ g.pts <= ModifyLSB(g.pts, 0) + 1
      BY <2>1, <1>1, ModifyLSBIs
    <3>. QED
      BY <3>1, <1>2
  <2>4. q.pts = m + b
    <3>1. ModifyLSB(p.pts, b) = ModifyLSB(p.pts, 0) + b
      BY <1>1, ModifyLSBIs
    <3>. QED
      BY <3>1
  <2>5. ModifyLSB(q.pts, 0) = m
    <3>1. ModifyLSB(ModifyLSB(p.pts, b), 0) = ModifyLSB(p.pts, 0)
      BY <2>1, <1>1, ModifyLSBIs
    <3>. QED
      BY <3>1
  <2>. QED
    BY <2>2, <2>3, <2>4, <2>5
<1>4. CASE kind = "mkv"
  <2>1. q.pts >= q.dts /\ g.dts - 1 <= q.dts /\ q.dts <= g.dts
    <3>. HIDE DEF m
    <3>. QED
      BY <1>1, <1>2, <1>3, <1>4
  <2>. QED
    BY <2>1, <1>2, <1>3, <1>4 DEF DescendsFrom
<1>5. CASE kind = "mp4"
  <2>1. CASE p.type = "video" /\ f
    <3>1. q.dts = p.dts /\ p.dts = g.dts
      BY <1>5, <2>1
    <3>2. q.pts >= p.dts
      <4>1. ModifyLSB(p.pts, 0) >= p.dts /\ ModifyLSB(p.pts, 1) >= p.dts
        BY <1>5, <2>1 DEF Applicable
      <4>2. b = 0 \/ b = 1
        OBVIOUS
      <4>. QED
        BY <4>1, <4>2
    <3>. QED
      BY <3>1, <3>2, <1>1, <1>2, <1>3, <1>5, <2>1 DEF DescendsFrom
  <2>2. CASE ~(p.type = "video" /\ f)
    <3>1. q.dts = q.pts /\ q.type \in {"audio", "video"}
      BY <1>5, <2>2
    <3>. QED
      BY <3>1, <1>1, <1>2, <1>3, <1>5, <2>2 DEF DescendsFrom
  <2>. QED
    BY <2>1, <2>2
<1>. QED
  BY <1>4, <1>5

\* What SaveBuffer makes of descendants descends as well.
LEMMA SaveBufferDescends ==
    ASSUME NEW h \in Handlers, given \in Containers, kind \in {"mkv", "mp4"}, size \in Nat,
           NEW bits \in [1..size -> 0..1], Descendant(h.packets, h.bframes),
           NEW ps, ps = SaveBuffer(h, bits)
    PROVE  Descendant(ps, h.bframes) /\ SameStreams(ps) /\ (Whole(ps) <=> Whole(h.packets))
<1>1. PICK g : g = [h EXCEPT !.packets = SaveBuffer(h, bits)]
  OBVIOUS
<1>2. /\ g.packets = ps /\ g \in Handlers
      /\ DOMAIN ps = DOMAIN h.packets /\ Len(ps) = Len(h.packets)
      /\ \A i \in DOMAIN h.packets : /\ ps[i].type = h.packets[i].type
                                     /\ ps[i].data = h.packets[i].data
  <2>1. /\ g.packets = SaveBuffer(h, bits) /\ g \in Handlers
        /\ DOMAIN g.packets = DOMAIN h.packets /\ Len(g.packets) = Len(h.packets)
        /\ \A i \in DOMAIN h.packets : /\ g.packets[i].type = h.packets[i].type
                                       /\ g.packets[i].data = h.packets[i].data
    BY <1>1, SaveBufferKeepsSlots
  <2>. QED
    BY <2>1
<1>3. /\ SameStreams(h.packets) /\ DOMAIN h.packets = DOMAIN given
      /\ h.bframes \in BOOLEAN
  BY StreamsAre, HandlerPackets DEF Descendant
<1>4. Whole(ps) <=> Whole(h.packets)
  BY <1>2 DEF Whole
<1>5. ps \in Seq(Packet) /\ SameStreams(ps)
  <2>1. ps \in Seq(Packet)
    BY <1>2, HandlerPackets
  <2>. QED
    BY <2>1, <1>2, <1>3 DEF SameStreams
<1>6. ASSUME Whole(h.packets)
      PROVE  /\ \A i \in DOMAIN given : DescendsFrom(ps[i], given[i])
             /\ kind = "mp4" => FitsAnswer(ps, h.bframes)
  <2>1. /\ \A i \in DOMAIN given : DescendsFrom(h.packets[i], given[i])
        /\ kind = "mp4" => FitsAnswer(h.packets, h.bframes)
    BY <1>6 DEF Descendant
  <2>2. ASSUME NEW i \in DOMAIN given, ps[i] # h.packets[i]
        PROVE  /\ DescendsFrom(ps[i], given[i])
               /\ kind = "mp4" => /\ given[i].type = "video" /\ h.bframes =>
                                         ps[i].dts = given[i].dts
                                  /\ ~h.bframes => ps[i].dts = ps[i].pts
    <3>1. PICK b \in 0..1 : /\ kind = "mp4" => MayTake(h, i)
                            /\ ps[i] = WriteBit(h, i, b)
      BY <2>2, <1>3, SaveBufferIs
    <3>2. PICK p, q, g0 : p = h.packets[i] /\ q = ps[i] /\ g0 = given[i]
      OBVIOUS
    <3>3. /\ q \in Packet /\ q.type = p.type /\ q.pts = ModifyLSB(p.pts, b)
          /\ q.dts = IF kind = "mkv" THEN (IF q.pts < p.dts THEN q.pts ELSE p.dts)
                     ELSE IF p.type = "video" /\ h.bframes THEN p.dts ELSE q.pts
      BY <3>1, <3>2, <1>3, WriteBitIs
    <3>4. p \in Packet /\ g0 \in Packet /\ g0.pts >= g0.dts /\ DescendsFrom(p, g0)
          /\ p.type = g0.type
      BY <3>2, <2>1, <1>3, GivenPackets, StreamsAre
    <3>5. kind = "mp4" => \/ p.type = "audio"
                          \/ p.type = "video" /\ (h.bframes => Applicable(p))
      BY <3>1, <3>2 DEF MayTake
    <3>6. kind = "mp4" /\ p.type = "video" /\ h.bframes => p.dts = g0.dts
      <4>1. kind = "mp4" /\ h.bframes =>
                \A j \in Packets("video", given) : h.packets[j].dts = given[j].dts
        BY <2>1 DEF FitsAnswer
      <4>2. p.type = "video" => i \in Packets("video", given)
        BY <3>2, <3>4 DEF Packets
      <4>. QED
        BY <4>1, <4>2, <3>2
    <3>7. /\ DescendsFrom(q, g0)
          /\ kind = "mp4" => /\ p.type = "video" /\ h.bframes => q.dts = g0.dts
                             /\ ~h.bframes => q.dts = q.pts
      BY <3>3, <3>4, <3>5, <3>6, <1>3, DescendsAgain
    <3>. QED
      BY <3>2, <3>4, <3>7
  <2>3. \A i \in DOMAIN given : DescendsFrom(ps[i], given[i])
    BY <2>1, <2>2
  <2>4. ASSUME kind = "mp4"
        PROVE  FitsAnswer(ps, h.bframes)
    <3>1. FitsAnswer(h.packets, h.bframes)
      BY <2>1, <2>4
    <3>2. \A i \in Packets("video", given) : i \in DOMAIN given /\ given[i].type = "video"
      BY DEF Packets
    <3>3. h.bframes => \A i \in Packets("video", given) : ps[i].dts = given[i].dts
      <4>. SUFFICES ASSUME h.bframes, NEW i \in Packets("video", given)
                    PROVE  ps[i].dts = given[i].dts
        OBVIOUS
      <4>1. CASE ps[i] = h.packets[i]
        BY <4>1, <3>1 DEF FitsAnswer
      <4>2. CASE ps[i] # h.packets[i]
        BY <4>2, <3>2, <2>2, <2>4
      <4>. QED
        BY <4>1, <4>2
    <3>4. detection = "guess" /\ ~h.bframes => ~HasBFrames(ps)
      <4>. SUFFICES ASSUME detection = "guess", ~h.bframes PROVE ~HasBFrames(ps)
        OBVIOUS
      <4>1. ~HasBFrames(h.packets)
        BY <3>1 DEF FitsAnswer
      <4>2. \A i \in Packets("video", given) :
                ~(h.packets[i].pts - h.packets[i].dts >= 2 \/ h.packets[i].dts - h.packets[i].pts >= 2)
        BY <4>1, <1>3, GuessIs
      <4>3. ASSUME NEW i \in Packets("video", given)
            PROVE  ~(ps[i].pts - ps[i].dts >= 2 \/ ps[i].dts - ps[i].pts >= 2)
        <5>1. CASE ps[i] = h.packets[i]
          BY <5>1, <4>2
        <5>2. CASE ps[i] # h.packets[i]
          <6>1. ps[i].dts = ps[i].pts /\ ps[i].pts \in Int
            BY <5>2, <3>2, <2>2, <2>4, <1>5, StreamsAre
          <6>. QED
            BY <6>1
        <5>. QED
          BY <5>1, <5>2
      <4>. QED
        BY <4>3, <1>5, GuessIs
    <3>. QED
      BY <3>1, <3>3, <3>4 DEF FitsAnswer
  <2>. QED
    BY <2>3, <2>4
<1>. QED
  BY <1>4, <1>5, <1>6 DEF Descendant

\* The search for B frames answers of a saved file what fits it.
LEMMA AnswerAgain ==
    ASSUME given \in Containers, detection \in Detections, kind \in {"mkv", "mp4"},
           NEW ps, NEW b \in BOOLEAN, Descendant(ps, b)
    PROVE  Descendant(ps, HasBFrames(ps))
<1>1. SameStreams(ps)
  BY DEF Descendant
<1>2. ASSUME Whole(ps), kind = "mp4"
      PROVE  FitsAnswer(ps, HasBFrames(ps))
  <2>1. FitsAnswer(ps, b) /\ \A i \in DOMAIN given : DescendsFrom(ps[i], given[i])
    BY <1>2 DEF Descendant
  <2>2. detection \in {"guess", "ffprobe yes", "ffprobe no"}
    BY ContainerAssumption
  <2>3. /\ detection = "ffprobe yes" => HasBFrames(ps) = TRUE
        /\ detection = "ffprobe no" => HasBFrames(ps) = FALSE
    BY DEF HasBFrames
  <2>4. CASE detection # "guess"
    <3>1. HasBFrames(ps) = b
      <4>1. CASE detection = "ffprobe yes"
        <5>1. b
          BY <2>1, <4>1 DEF FitsAnswer
        <5>2. HasBFrames(ps)
          BY <2>3, <4>1
        <5>. QED
          BY <5>1, <5>2, <2>3, <4>1, Zenon
      <4>2. CASE detection = "ffprobe no"
        <5>1. ~b
          BY <2>1, <4>2 DEF FitsAnswer
        <5>2. b = FALSE
          BY <5>1
        <5>. QED
          BY <5>2, <2>3, <4>2, Zenon
      <4>. QED
        BY <2>2, <2>4, <4>1, <4>2
    <3>. QED
      BY <3>1, <2>1
  <2>5. CASE detection = "guess"
    <3>1. (~b => ~HasBFrames(ps)) /\ (FarAhead => b) /\ (Near => ~b)
      BY <2>1, <2>5 DEF FitsAnswer
    <3>2. b => \A i \in Packets("video", given) : ps[i].dts = given[i].dts
      BY <2>1 DEF FitsAnswer
    <3>3. FarAhead => HasBFrames(ps)
      <4>. SUFFICES ASSUME FarAhead PROVE HasBFrames(ps)
        OBVIOUS
      <4>1. PICK i \in Packets("video", given) : ModifyLSB(given[i].pts, 0) - given[i].dts >= 2
        BY DEF FarAhead
      <4>2. i \in DOMAIN given /\ 0 \in 0..1
        BY DEF Packets
      <4>3. ps[i].pts \in Int /\ ps[i].dts = given[i].dts /\ given[i].dts \in Int
        BY <4>2, <1>1, <3>1, <3>2, StreamsAre, GivenPackets
      <4>4. ModifyLSB(ps[i].pts, 0) = ModifyLSB(given[i].pts, 0)
        BY <4>2, <2>1 DEF DescendsFrom
      <4>5. ModifyLSB(ps[i].pts, 0) <= ps[i].pts /\ ModifyLSB(ps[i].pts, 0) \in Int
        BY <4>2, <4>3, ModifyLSBIs
      <4>6. ps[i].pts - ps[i].dts >= 2
        BY <4>1, <4>3, <4>4, <4>5
      <4>. QED
        BY <4>6, <1>1, <2>5, GuessIs
    <3>. QED
      BY <3>1, <3>2, <3>3, <2>5 DEF FitsAnswer
  <2>. QED
    BY <2>4, <2>5
<1>. QED
  BY <1>1, <1>2 DEF Descendant

-----------------------------------------------------------------------------
(* The steps.                                                              *)

\* What is said of packets stays true as long as the original does.
LEMMA SameOriginal ==
    ASSUME UNCHANGED <<detection, given, kind>>, NEW ps, NEW b
    PROVE  /\ HasBFrames(ps)' = HasBFrames(ps)
           /\ SameStreams(ps)' <=> SameStreams(ps)
           /\ Descendant(ps, b)' <=> Descendant(ps, b)
<1>1. HasBFrames(ps)' = HasBFrames(ps)
  BY DEF HasBFrames
<1>2. SameStreams(ps)' <=> SameStreams(ps)
  BY DEF SameStreams
<1>3. FitsAnswer(ps, b)' <=> FitsAnswer(ps, b)
  BY <1>1 DEF FitsAnswer, FarAhead, Near
<1>4. Descendant(ps, b)' <=> Descendant(ps, b)
  BY <1>2, <1>3 DEF Descendant, DescendsFrom
<1>. QED
  BY <1>1, <1>2, <1>4

\* The places of the bits are the same as long as the kind is.
LEMMA SameKind ==
    ASSUME kind' = kind, NEW h
    PROVE  /\ Slots(h)' = Slots(h)
           /\ CalculateCapacity(h)' = CalculateCapacity(h)
           /\ Room(h)' = Room(h)
           /\ BitsIn(h)' = BitsIn(h)
<1>1. Slots(h)' = Slots(h)
  BY DEF Slots
<1>2. CalculateCapacity(h)' = CalculateCapacity(h)
  BY <1>1 DEF CalculateCapacity
<1>. QED
  BY <1>1, <1>2 DEF Room, BitsIn

\* The handler and the packets a Save in progress will have written.
LEMMA ComingIs ==
    ASSUME HandlerTypes, handler # None
    PROVE  /\ handler \in Handlers /\ kind \in {"mkv", "mp4"}
           /\ Coming \in Seq(Packet) /\ Len(Coming) = Len(handler.packets)
           /\ DOMAIN Coming = DOMAIN handler.packets
           /\ DOMAIN handler.packets = 1..Len(given) /\ Len(given) \in Nat \ {0}
           /\ \A i \in DOMAIN handler.packets :
                  Coming[i] = IF i <= Len(save.out) THEN save.out[i] ELSE handler.packets[i]
           /\ Ahead \in Handlers /\ Ahead.packets = Coming
           /\ Ahead.bframes = handler.bframes /\ Ahead.input = handler.input
           /\ save.out = <<>> => Coming = handler.packets /\ Ahead = handler
           /\ Whole(handler.packets) => save.out = <<>>
<1>1. /\ handler \in Handlers /\ kind \in {"mkv", "mp4"} /\ given \in Containers
      /\ Len(handler.packets) = Len(given) /\ Len(given) > 0
      /\ save.out \in Seq(Packet) /\ Len(save.out) <= Len(handler.packets)
      /\ \A i \in 1..Len(save.out) : ~handler.packets[i].data
  BY VideoAssumption DEF HandlerTypes, Handlers
<1>. DEFINE n == Len(given)
            m == Len(save.out)
            new(place) == IF place <= m THEN save.out[place] ELSE handler.packets[place]
<1>2. /\ n \in Nat \ {0} /\ m \in Nat /\ m <= n /\ DOMAIN handler.packets = 1..n
      /\ handler.packets \in Seq(Packet)
      /\ \A i \in 1..n : handler.packets[i] \in Packet
      /\ DOMAIN save.out = 1..m /\ \A i \in 1..m : save.out[i] \in Packet
  BY <1>1, GivenPackets, HandlerPackets
<1>3. \A i \in 1..n : new(i) \in Packet
  BY <1>2
<1>4. PICK c : c = Coming
  OBVIOUS
<1>5. c = [i \in 1..n |-> new(i)]
  BY <1>2, <1>4 DEF Coming
<1>6. c \in [1..n -> Packet] /\ \A i \in 1..n : c[i] = new(i)
  <2>. HIDE DEF new, n, m
  <2>. QED
    BY <1>3, <1>5
<1>7. c \in Seq(Packet) /\ Len(c) = n /\ DOMAIN c = 1..n
  BY <1>2, <1>6, FunctionIsSequence
<1>8. Ahead = [handler EXCEPT !.packets = c]
  BY <1>4 DEF Ahead
<1>9. /\ Ahead \in Handlers /\ Ahead.packets = c
      /\ Ahead.bframes = handler.bframes /\ Ahead.input = handler.input
      /\ c = handler.packets => Ahead = handler
  BY <1>1, <1>7, <1>8, WithPackets
<1>10. ASSUME save.out = <<>>
       PROVE  c = handler.packets
  <2>1. \A i \in 1..n : c[i] = handler.packets[i]
    BY <1>2, <1>6, <1>10
  <2>2. handler.packets = [i \in 1..n |-> handler.packets[i]]
    BY <1>2
  <2>3. c = [i \in 1..n |-> c[i]]
    BY <1>6
  <2>. QED
    BY <2>1, <2>2, <2>3
<1>11. ASSUME Whole(handler.packets)
       PROVE  save.out = <<>>
  <2>1. \A i \in 1..n : handler.packets[i].data
    BY <1>2, <1>11 DEF Whole
  <2>2. m = 0
    <3>. SUFFICES ASSUME m # 0 PROVE FALSE
      OBVIOUS
    <3>1. 1 \in 1..m /\ 1 \in 1..n
      BY <1>2
    <3>. QED
      BY <3>1, <2>1, <1>1
  <2>. QED
    BY <2>2, <1>1
<1>. QED
  BY <1>1, <1>2, <1>4, <1>6, <1>7, <1>9, <1>10, <1>11

\* No Save is in progress.
LEMMA NoSaveIs ==
    /\ NoSave \in [st : {"none", "begun", "writing"}, out : Seq(Packet)]
    /\ NoSave.st = "none" /\ NoSave.out = <<>>
<1>1. <<>> \in Seq(Packet)
  OBVIOUS
<1>. QED
  BY <1>1 DEF NoSave

\* In the beginning.
LEMMA InitVideo == Init => VideoInv
<1>. SUFFICES ASSUME Init PROVE VideoInv
  OBVIOUS
<1>. USE DEF Init, HandlerInit
<1>1. given \in Containers /\ detection \in Detections /\ disk = given /\ handler = None
      /\ save = NoSave /\ saved = None /\ content = None
  OBVIOUS
<1>2. HandlerTypes
  <2>1. NoSave \in [st : {"none", "begun", "writing"}, out : Seq(Packet)]
    BY NoSaveIs
  <2>. QED
    BY <1>1, <2>1, NoSaveIs DEF HandlerTypes
<1>3. FilesInv
  BY <1>1, GivenDescends DEF FilesInv
<1>4. FramesInv
  BY <1>1, GivenDescends DEF FramesInv
<1>5. CopyInv
  BY <1>1 DEF CopyInv
<1>6. BitsInv
  BY <1>1 DEF BitsInv, NoSave
<1>. QED
  BY <1>2, <1>3, <1>4, <1>5, <1>6 DEF VideoInv

\* Steps that at most read bits, or change those in memory.
LEMMA ContentSteps ==
    ASSUME VideoInv, UNCHANGED <<handlerVars, kind, size, saved, retries>>,
           content' # None => content' \in [1..size -> 0..1],
           save.st # "none" => content' = content
    PROVE  VideoInv'
<1>. USE DEF VideoInv, handlerVars
<1>1. HandlerTypes'
  BY DEF HandlerTypes
<1>2. FilesInv'
  BY SameOriginal DEF FilesInv, Coming
<1>3. FramesInv'
  BY DEF FramesInv, Coming
<1>4. CopyInv'
  BY SameOriginal DEF CopyInv
<1>5. BitsInv'
  BY SameKind DEF BitsInv, Coming, Ahead
<1>. QED
  BY <1>1, <1>2, <1>3, <1>4, <1>5

\* LoadBuffer gives bits, as many as the object has room for.
LEMMA LoadBufferIs ==
    ASSUME NEW h \in Handlers, kind \in {"mkv", "mp4"}, size \in Nat
    PROVE  /\ LoadBuffer(h) \in [1..size -> 0..1]
           /\ size = Room(h) => LoadBuffer(h) = BitsIn(h)
<1>. DEFINE bit(k) == h.packets[Slots(h)[k]].pts % 2
<1>1. Slots(h) \in Seq(DOMAIN h.packets) /\ Len(Slots(h)) \in Nat
  BY SlotsAreChosen, RoomFits
<1>2. ASSUME NEW k \in 1..size, k <= Len(Slots(h))
      PROVE  bit(k) \in 0..1
  <2>1. k \in DOMAIN Slots(h)
    BY <1>1, <1>2
  <2>2. Slots(h)[k] \in DOMAIN h.packets
    BY <2>1, <1>1
  <2>3. h.packets[Slots(h)[k]].pts \in Int
    BY <2>2, HandlerPackets
  <2>. QED
    BY <2>3
<1>3. LoadBuffer(h) = [k \in 1..size |-> IF k <= Len(Slots(h)) THEN bit(k) ELSE 0]
  BY DEF LoadBuffer
<1>4. BitsIn(h) = [k \in 1..Room(h) |-> bit(k)]
  BY DEF BitsIn
<1>. HIDE DEF bit
<1>5. LoadBuffer(h) \in [1..size -> 0..1]
  BY <1>2, <1>3
<1>6. ASSUME size = Room(h)
      PROVE  LoadBuffer(h) = BitsIn(h)
  <2>1. size <= Len(Slots(h))
    BY <1>6, RoomFits
  <2>2. \A k \in 1..size : k <= Len(Slots(h))
    BY <2>1, <1>1
  <2>. QED
    BY <2>2, <1>3, <1>4, <1>6
<1>. QED
  BY <1>5, <1>6

\* The invariant is kept by LoadFile.
LEMMA LoadFileStep ==
    ASSUME VideoInv, LoadFile
    PROVE  VideoInv'
<1>1. handler # None /\ save = NoSave /\ HandlerTypes
  BY DEF VideoInv, LoadFile, MayCall
<1>2. handler \in Handlers /\ kind \in {"mkv", "mp4"} /\ size \in Nat
  BY <1>1, ComingIs DEF HandlerTypes
<1>3. content' \in [1..size -> 0..1]
  BY <1>2, LoadBufferIs DEF LoadFile
<1>. QED
  BY <1>1, <1>3, ContentSteps, NoSaveIs DEF LoadFile

\* The invariant is kept by WriteContent.
LEMMA WriteContentStep ==
    ASSUME VideoInv, NEW bits, WriteContent(bits)
    PROVE  VideoInv'
BY ContentSteps, NoSaveIs DEF WriteContent, MayCall

\* The invariant is kept by Construct: the object is a copy of the file.
LEMMA ConstructStep ==
    ASSUME VideoInv, Construct
    PROVE  VideoInv'
<1>. DEFINE h == [packets |-> disk, bframes |-> HasBFrames(disk), input |-> TRUE]
<1>1. /\ UNCHANGED <<detection, given, disk, save, kind, saved, retries>>
      /\ save = NoSave /\ failed' = FALSE /\ content' = None
      /\ \/ handler' = None /\ size' = 0
         \/ /\ disk # None /\ CalculateCapacity(h) # 0
            /\ handler' = h /\ size' = CalculateCapacity(h) * ByteBits
  BY DEF Construct, Loaded
<1>2. /\ HandlerTypes /\ FilesInv /\ FramesInv /\ BitsInv
      /\ given \in Containers /\ detection \in Detections /\ kind \in {"mkv", "mp4"}
  BY VideoAssumption DEF VideoInv, HandlerTypes
<1>3. CASE handler' = None /\ size' = 0
  <2>1. HandlerTypes'
    BY <1>1, <1>2, <1>3, NoSaveIs DEF HandlerTypes
  <2>2. FilesInv'
    BY <1>1, <1>2, <1>3, SameOriginal DEF FilesInv
  <2>3. FramesInv'
    BY <1>1, <1>2, <1>3 DEF FramesInv
  <2>4. CopyInv'
    BY <1>3 DEF CopyInv
  <2>5. BitsInv'
    BY <1>1, <1>2, <1>3, SameKind, NoSaveIs DEF BitsInv
  <2>. QED
    BY <2>1, <2>2, <2>3, <2>4, <2>5 DEF VideoInv
<1>4. CASE /\ disk # None /\ CalculateCapacity(h) # 0
           /\ handler' = h /\ size' = CalculateCapacity(h) * ByteBits
  <2>1. Descendant(disk, HasBFrames(disk)) /\ SameStreams(disk)
        /\ disk \in Seq(Packet) /\ Len(disk) = Len(given)
    BY <1>2, <1>4, StreamsAre DEF FilesInv, Descendant
  <2>2. HasBFrames(disk) \in BOOLEAN
    <3>1. detection \in {"guess", "ffprobe yes", "ffprobe no"}
      BY <1>2, ContainerAssumption
    <3>. QED
      BY <3>1 DEF HasBFrames
  <2>3. h \in Handlers
    BY <2>1, <2>2 DEF Handlers
  <2>4. h # None
    BY <2>3, ContainerAssumption DEF Handlers
  <2>5. size' = Room(h) /\ size' \in Nat /\ Len(given) > 0
    <3>1. Room(h) \in Nat /\ (Len(h.packets) = 0 => CalculateCapacity(h) = 0)
      BY <1>2, <2>3, RoomFits
    <3>2. Len(given) \in Nat
      BY <1>2, GivenPackets
    <3>. QED
      BY <3>1, <3>2, <1>4, <2>1 DEF Room
  <2>6. HandlerTypes'
    <3>1. /\ handler' \in [packets : Seq(Packet), bframes : BOOLEAN, input : BOOLEAN]
          /\ Len(handler'.packets) = Len(given) /\ Len(given) > 0
      BY <1>4, <2>1, <2>3, <2>5 DEF Handlers
    <3>2. Len(save.out) = 0
      BY <1>1, NoSaveIs
    <3>3. Len(handler'.packets) \in Nat
      BY <3>1, <1>2, GivenPackets
    <3>4. Len(save.out) <= Len(handler'.packets) /\ 1..Len(save.out) = {}
      BY <3>2, <3>3
    <3>. QED
      BY <3>1, <3>4, <1>1, <1>2, <2>5, NoSaveIs DEF HandlerTypes
  <2>7. Coming' = disk /\ Ahead' = h
    <3>1. (HandlerTypes /\ handler # None => (save.out = <<>> => Coming = handler.packets /\ Ahead = handler))'
      BY ComingIs, PTL
    <3>2. save'.out = <<>>
      BY <1>1, NoSaveIs
    <3>. QED
      BY <3>1, <3>2, <2>4, <2>6, <1>4
  <2>8. FilesInv'
    BY <1>1, <1>2, <1>4, <2>1, <2>7, SameOriginal DEF FilesInv
  <2>9. FramesInv'
    BY <1>1, <1>2, <1>4, <2>7 DEF FramesInv
  <2>10. CopyInv'
    BY <1>1, <1>2, <1>4, SameOriginal DEF CopyInv
  <2>11. BitsInv'
    BY <1>1, <1>2, <2>5, <2>7, SameKind, NoSaveIs DEF BitsInv
  <2>. QED
    BY <2>6, <2>8, <2>9, <2>10, <2>11 DEF VideoInv
<1>. QED
  BY <1>1, <1>3, <1>4

\* The invariant is kept by SaveFile: the packets change as SaveBuffer changes them.
LEMMA SaveFileStep ==
    ASSUME VideoInv, SaveFile
    PROVE  VideoInv'
<1>1. /\ HandlerTypes /\ FilesInv /\ FramesInv /\ BitsInv
      /\ handler # None /\ save = NoSave /\ content # None
      /\ handler' = [handler EXCEPT !.packets = SaveBuffer(handler, content)]
      /\ save' = [NoSave EXCEPT !.st = "begun"]
      /\ failed' = FALSE
      /\ retries' = retries + (IF failed THEN 1 ELSE 0)
      /\ UNCHANGED <<detection, given, disk, kind, size, content, saved>>
  BY DEF VideoInv, SaveFile, MayCall
<1>2. /\ handler \in Handlers /\ kind \in {"mkv", "mp4"} /\ size \in Nat
      /\ given \in Containers /\ content \in [1..size -> 0..1] /\ retries \in Nat
      /\ Coming = handler.packets /\ Ahead = handler
  BY <1>1, ComingIs, NoSaveIs DEF HandlerTypes
<1>3. PICK g : g = [handler EXCEPT !.packets = SaveBuffer(handler, content)]
  OBVIOUS
<1>4. /\ g \in Handlers /\ g.packets = SaveBuffer(handler, content)
      /\ g.bframes = handler.bframes /\ g.input = handler.input
      /\ Len(g.packets) = Len(handler.packets)
      /\ Room(g) = Room(handler)
      /\ size = Room(handler) => BitsIn(g) = content
  BY <1>2, <1>3, SaveBufferKeepsSlots
<1>5. /\ Descendant(g.packets, handler.bframes) /\ SameStreams(g.packets)
      /\ Whole(g.packets) <=> Whole(handler.packets)
  BY <1>1, <1>2, <1>4, SaveBufferDescends DEF FilesInv
<1>6. /\ handler' = g /\ g # None
      /\ save'.st = "begun" /\ save'.out = <<>>
      /\ save' \in [st : {"none", "begun", "writing"}, out : Seq(Packet)]
  <2>1. g # None
    BY <1>4, ContainerAssumption DEF Handlers
  <2>2. save' = [st |-> "begun", out |-> <<>>]
    BY <1>1 DEF NoSave
  <2>3. save'.st = "begun" /\ save'.out = <<>>
    BY <2>2
  <2>4. save' \in [st : {"none", "begun", "writing"}, out : Seq(Packet)]
    <3>1. <<>> \in Seq(Packet)
      OBVIOUS
    <3>. QED
      BY <3>1, <2>2
  <2>. QED
    BY <1>1, <1>3, <2>1, <2>3, <2>4
<1>7. HandlerTypes'
  <2>1. g \in [packets : Seq(Packet), bframes : BOOLEAN, input : BOOLEAN]
        /\ Len(g.packets) = Len(given) /\ Len(given) > 0
    BY <1>1, <1>4 DEF HandlerTypes, Handlers
  <2>2. Len(save'.out) = 0 /\ Len(g.packets) \in Nat
    BY <1>2, <1>6, <2>1, GivenPackets
  <2>3. Len(save'.out) <= Len(g.packets) /\ 1..Len(save'.out) = {}
    BY <2>2
  <2>4. retries' \in Nat
    BY <1>1, <1>2
  <2>. QED
    BY <1>1, <1>2, <1>6, <2>1, <2>3, <2>4 DEF HandlerTypes
<1>8. Coming' = g.packets /\ Ahead' = g
  <2>1. (HandlerTypes /\ handler # None => (save.out = <<>> => Coming = handler.packets /\ Ahead = handler))'
    BY ComingIs, PTL
  <2>. QED
    BY <2>1, <1>6, <1>7
<1>9. FilesInv'
  BY <1>1, <1>4, <1>5, <1>6, <1>8, SameOriginal DEF FilesInv
<1>10. FramesInv'
  <2>1. retries' = 0 => retries = 0 /\ ~failed
    BY <1>1, <1>2
  <2>. QED
    BY <2>1, <1>1, <1>2, <1>4, <1>5, <1>6, <1>8 DEF FramesInv
<1>11. CopyInv'
  BY <1>6 DEF CopyInv
<1>12. BitsInv'
  <2>1. Whole(g.packets) => size = Room(handler)
    BY <1>1, <1>2, <1>5 DEF BitsInv
  <2>. QED
    BY <2>1, <1>1, <1>4, <1>6, <1>8, SameKind DEF BitsInv
<1>. QED
  BY <1>7, <1>9, <1>10, <1>11, <1>12 DEF VideoInv

\* The invariant is kept when the file is opened for writing.
LEMMA SaveOpensStep ==
    ASSUME VideoInv, SaveOpens
    PROVE  VideoInv'
<1>1. /\ HandlerTypes /\ FilesInv /\ FramesInv /\ CopyInv /\ BitsInv
      /\ save.st = "begun" /\ handler.input /\ disk' = None
      /\ save' = [save EXCEPT !.st = "writing"] /\ saved' = None
      /\ UNCHANGED <<detection, given, handler, failed, kind, size, content, retries>>
  BY DEF VideoInv, SaveOpens, SaveOpen
<1>2. /\ save \in [st : {"none", "begun", "writing"}, out : Seq(Packet)]
      /\ handler # None /\ content # None /\ ~failed
  BY <1>1 DEF HandlerTypes
<1>3. /\ save'.st = "writing" /\ save'.out = save.out
      /\ save' \in [st : {"none", "begun", "writing"}, out : Seq(Packet)]
  BY <1>1, <1>2
<1>4. HandlerTypes'
  BY <1>1, <1>2, <1>3 DEF HandlerTypes
<1>5. Coming' = Coming /\ Ahead' = Ahead
  BY <1>1, <1>3 DEF Coming, Ahead
<1>6. FilesInv'
  BY <1>1, <1>5, SameOriginal DEF FilesInv
<1>7. FramesInv'
  BY <1>1, <1>5 DEF FramesInv
<1>8. CopyInv'
  BY <1>3 DEF CopyInv
<1>9. BitsInv'
  BY <1>1, <1>3, <1>5, SameKind DEF BitsInv
<1>. QED
  BY <1>4, <1>6, <1>7, <1>8, <1>9 DEF VideoInv

\* The invariant is kept when the process ends.
LEMMA ProcessEndsStep ==
    ASSUME VideoInv, ProcessEnds
    PROVE  VideoInv'
<1>1. /\ HandlerTypes /\ FilesInv /\ FramesInv /\ BitsInv
      /\ handler' = None /\ save' = NoSave /\ failed' = FALSE /\ size' = 0 /\ content' = None
      /\ UNCHANGED <<detection, given, disk, kind, saved, retries>>
  BY DEF VideoInv, ProcessEnds, SaveWithoutInput, Crash, Reset
<1>2. HandlerTypes'
  BY <1>1, NoSaveIs DEF HandlerTypes
<1>3. FilesInv'
  BY <1>1, SameOriginal DEF FilesInv
<1>4. FramesInv'
  BY <1>1 DEF FramesInv
<1>5. CopyInv'
  BY <1>1 DEF CopyInv
<1>6. BitsInv'
  BY <1>1, SameKind, NoSaveIs DEF BitsInv
<1>. QED
  BY <1>2, <1>3, <1>4, <1>5, <1>6 DEF VideoInv

\* The invariant is kept when a Save throws: what was not yet written is as it was,
\* and if something was, the handler is not whole.
LEMMA SaveThrowsStep ==
    ASSUME VideoInv, SaveThrows
    PROVE  VideoInv'
<1>1. /\ HandlerTypes /\ FilesInv /\ FramesInv /\ BitsInv
      /\ save.st # "none" /\ save' = NoSave /\ failed' = TRUE
      /\ UNCHANGED <<detection, given, disk, handler, kind, size, content, saved, retries>>
  BY DEF VideoInv, SaveThrows, SaveOpenFails, WriteFails, Throw
<1>2. handler # None /\ retries \in Nat
  BY <1>1 DEF HandlerTypes
<1>3. /\ handler.packets \in Seq(Packet) /\ Len(handler.packets) \in Nat
      /\ Whole(handler.packets) => Coming = handler.packets /\ Ahead = handler
  BY <1>1, <1>2, ComingIs, HandlerPackets
<1>4. HandlerTypes'
  <2>1. Len(NoSave.out) = 0
    BY NoSaveIs
  <2>2. Len(NoSave.out) <= Len(handler.packets) /\ 1..Len(NoSave.out) = {}
    BY <2>1, <1>3
  <2>. QED
    BY <1>1, <1>2, <2>2, NoSaveIs DEF HandlerTypes
<1>5. Coming' = handler.packets /\ Ahead' = handler
  <2>1. (HandlerTypes /\ handler # None => (save.out = <<>> => Coming = handler.packets /\ Ahead = handler))'
    BY ComingIs, PTL
  <2>. QED
    BY <2>1, <1>1, <1>2, <1>4, NoSaveIs
<1>6. FilesInv'
  <2>1. /\ SameStreams(handler.packets)
        /\ Whole(handler.packets) => Descendant(handler.packets, handler.bframes)
    BY <1>1, <1>2, <1>3 DEF FilesInv
  <2>2. Descendant(handler.packets, handler.bframes)
    BY <2>1 DEF Descendant
  <2>. QED
    BY <2>1, <2>2, <1>1, <1>5, SameOriginal DEF FilesInv
<1>7. FramesInv'
  BY <1>1 DEF FramesInv
<1>8. CopyInv'
  BY <1>1 DEF CopyInv
<1>9. BitsInv'
  <2>1. Whole(handler.packets) => size = Room(handler)
    BY <1>1, <1>2, <1>3 DEF BitsInv
  <2>. QED
    BY <2>1, <1>1, <1>5, SameKind, NoSaveIs DEF BitsInv
<1>. QED
  BY <1>4, <1>6, <1>7, <1>8, <1>9 DEF VideoInv

\* The invariant is kept when a packet is written: it moves from the handler to what
\* is written, and the two together are as before.
LEMMA SaveWritesStep ==
    ASSUME VideoInv, SaveWrites
    PROVE  VideoInv'
<1>. DEFINE n == Len(save.out) + 1
            p == handler.packets[n]
            ps == [handler.packets EXCEPT ![n] = Released(p)]
            out == Append(save.out, p)
<1>1. /\ HandlerTypes /\ FilesInv /\ FramesInv /\ BitsInv
      /\ save.st = "writing" /\ Len(save.out) < Len(handler.packets)
      /\ save' = [save EXCEPT !.out = out]
      /\ handler' = [handler EXCEPT !.packets = ps]
      /\ UNCHANGED <<detection, given, disk, failed, kind, size, content, saved, retries>>
  BY DEF VideoInv, SaveWrites, WritePacket, Next1
<1>2. /\ handler # None /\ content # None /\ ~failed /\ handler.input
      /\ save \in [st : {"none", "begun", "writing"}, out : Seq(Packet)]
      /\ \A i \in 1..Len(save.out) : ~handler.packets[i].data
      /\ Len(handler.packets) = Len(given) /\ given \in Containers
  BY <1>1 DEF HandlerTypes
<1>3. /\ handler \in Handlers /\ handler.packets \in Seq(Packet)
      /\ DOMAIN handler.packets = 1..Len(given) /\ Len(given) \in Nat \ {0}
      /\ \A i \in DOMAIN handler.packets : handler.packets[i] \in Packet
      /\ Coming \in Seq(Packet) /\ Len(Coming) = Len(given)
      /\ DOMAIN Coming = 1..Len(given)
      /\ \A i \in 1..Len(given) :
             Coming[i] = IF i <= Len(save.out) THEN save.out[i] ELSE handler.packets[i]
      /\ Ahead \in Handlers /\ Ahead.packets = Coming
      /\ Ahead.bframes = handler.bframes /\ Ahead.input = handler.input
  BY <1>1, <1>2, ComingIs, HandlerPackets
<1>4. /\ Len(save.out) \in Nat /\ n \in 1..Len(given) /\ p \in Packet
      /\ Released(p) \in Packet /\ ~Released(p).data /\ Released(p).type = p.type
  <2>1. Len(save.out) \in Nat /\ save.out \in Seq(Packet)
    BY <1>2
  <2>2. n \in 1..Len(given)
    BY <2>1, <1>1, <1>2, <1>3
  <2>3. p \in Packet
    BY <2>2, <1>3
  <2>. HIDE DEF p, n
  <2>4. Released(p) \in Packet /\ ~Released(p).data /\ Released(p).type = p.type
    BY <2>3, ContainerAssumption DEF Released, Packet
  <2>. QED
    BY <2>1, <2>2, <2>3, <2>4 DEF n
<1>5. /\ ps \in Seq(Packet) /\ Len(ps) = Len(given) /\ DOMAIN ps = 1..Len(given)
      /\ ps[n] = Released(p)
      /\ \A i \in 1..Len(given) : i # n => ps[i] = handler.packets[i]
  <2>. HIDE DEF p, n
  <2>1. ps \in [1..Len(given) -> Packet]
    BY <1>3, <1>4
  <2>2. ps \in Seq(Packet) /\ Len(ps) = Len(given) /\ DOMAIN ps = 1..Len(given)
    <3>. HIDE DEF ps
    <3>. QED
      BY <2>1, <1>3, FunctionIsSequence
  <2>. QED
    BY <2>2, <1>3, <1>4
<1>6. /\ out \in Seq(Packet) /\ Len(out) = n /\ out[n] = p
      /\ \A i \in 1..Len(save.out) : out[i] = save.out[i]
  <2>1. save.out \in Seq(Packet) /\ p \in Packet
    BY <1>2, <1>4
  <2>. HIDE DEF p
  <2>. QED
    BY <2>1
<1>7. /\ save'.st = "writing" /\ save'.out = out
      /\ save' \in [st : {"none", "begun", "writing"}, out : Seq(Packet)]
  <2>. HIDE DEF out
  <2>. QED
    BY <1>1, <1>2, <1>6
<1>8. /\ handler' \in Handlers /\ handler'.packets = ps /\ handler' # None
      /\ handler'.bframes = handler.bframes /\ handler'.input = handler.input
  <2>1. /\ handler' \in Handlers /\ handler'.packets = ps
        /\ handler'.bframes = handler.bframes /\ handler'.input = handler.input
    <3>. HIDE DEF ps
    <3>. QED
      BY <1>1, <1>3, <1>5, WithPackets
  <2>. QED
    BY <2>1, ContainerAssumption DEF Handlers
<1>. HIDE DEF ps, out, p
<1>9. HandlerTypes'
  <2>1. \A i \in 1..n : ~ps[i].data
    <3>. SUFFICES ASSUME NEW i \in 1..n PROVE ~ps[i].data
      OBVIOUS
    <3>1. i = n \/ (i \in 1..Len(save.out) /\ i # n /\ i \in 1..Len(given))
      BY <1>3, <1>4
    <3>. QED
      BY <3>1, <1>2, <1>4, <1>5
  <2>2. n <= Len(ps)
    BY <1>3, <1>4, <1>5
  <2>3. handler' \in [packets : Seq(Packet), bframes : BOOLEAN, input : BOOLEAN]
        /\ Len(handler'.packets) = Len(given)
    BY <1>5, <1>8 DEF Handlers
  <2>. QED
    BY <2>1, <2>2, <2>3, <1>1, <1>2, <1>6, <1>7, <1>8 DEF HandlerTypes
<1>10. Coming' = Coming /\ Ahead' = Ahead
  <2>1. (HandlerTypes /\ handler # None =>
             /\ Coming \in Seq(Packet) /\ DOMAIN Coming = DOMAIN handler.packets
             /\ \A i \in DOMAIN handler.packets :
                    Coming[i] = IF i <= Len(save.out) THEN save.out[i] ELSE handler.packets[i]
             /\ Ahead \in Handlers /\ Ahead.packets = Coming
             /\ Ahead.bframes = handler.bframes /\ Ahead.input = handler.input)'
    BY ComingIs, PTL
  <2>2. PICK c, d, a, b : c = Coming' /\ d = Coming /\ a = Ahead' /\ b = Ahead
    OBVIOUS
  <2>3. /\ c \in Seq(Packet) /\ DOMAIN c = 1..Len(given)
        /\ \A i \in 1..Len(given) : c[i] = IF i <= n THEN out[i] ELSE ps[i]
        /\ a \in Handlers /\ a.packets = c
        /\ a.bframes = handler.bframes /\ a.input = handler.input
    BY <2>1, <2>2, <1>5, <1>6, <1>7, <1>8, <1>9
  <2>4. \A i \in 1..Len(given) : c[i] = d[i]
    <3>. SUFFICES ASSUME NEW i \in 1..Len(given) PROVE c[i] = d[i]
      OBVIOUS
    <3>1. d[i] = IF i <= Len(save.out) THEN save.out[i] ELSE handler.packets[i]
      BY <2>2, <1>3
    <3>2. CASE i < n
      BY <3>1, <3>2, <2>3, <1>3, <1>4, <1>6
    <3>3. CASE i = n
      <4>1. d[n] = p
        BY <3>1, <3>3, <1>4 DEF p
      <4>. QED
        BY <4>1, <3>3, <2>3, <1>4, <1>6
    <3>4. CASE i > n
      BY <3>1, <3>4, <2>3, <1>3, <1>4, <1>5
    <3>. QED
      BY <3>2, <3>3, <3>4, <1>4
  <2>5. c = d
    <3>1. c = [i \in 1..Len(given) |-> c[i]]
      BY <2>3
    <3>2. d = [i \in 1..Len(given) |-> d[i]]
      BY <2>2, <1>3
    <3>. QED
      BY <3>1, <3>2, <2>4
  <2>6. a = b
    <3>1. b \in Handlers /\ b.packets = c /\ b.bframes = handler.bframes
          /\ b.input = handler.input
      BY <2>2, <2>5, <1>3
    <3>2. \A g \in Handlers :
              g = [packets |-> g.packets, bframes |-> g.bframes, input |-> g.input]
      BY DEF Handlers
    <3>. QED
      BY <3>1, <3>2, <2>3
  <2>. QED
    BY <2>2, <2>5, <2>6
<1>11. FilesInv'
  <2>1. SameStreams(ps)
    <3>1. SameStreams(handler.packets) /\ DOMAIN given = 1..Len(given)
      BY <1>1, <1>2, GivenPackets DEF FilesInv
    <3>2. \A i \in 1..Len(given) : ps[i].type = handler.packets[i].type
      BY <1>4, <1>5 DEF p
    <3>. QED
      BY <3>1, <3>2, <1>5 DEF SameStreams
  <2>. QED
    BY <2>1, <1>1, <1>2, <1>8, <1>10, SameOriginal DEF FilesInv
<1>12. FramesInv'
  BY <1>1, <1>2, <1>8, <1>10 DEF FramesInv
<1>13. CopyInv'
  BY <1>7 DEF CopyInv
<1>14. BitsInv'
  BY <1>1, <1>2, <1>7, <1>10, SameKind DEF BitsInv
<1>. QED
  BY <1>9, <1>11, <1>12, <1>13, <1>14 DEF VideoInv

\* The invariant is kept when a Save ends: all packets are in the file, and none is
\* left in the handler.
LEMMA SaveEndsStep ==
    ASSUME VideoInv, SaveEnds
    PROVE  VideoInv'
<1>1. /\ HandlerTypes /\ FilesInv /\ FramesInv /\ BitsInv
      /\ save.st = "writing" /\ Len(save.out) = Len(handler.packets)
      /\ disk' = save.out /\ handler' = [handler EXCEPT !.input = FALSE]
      /\ save' = NoSave
      /\ saved' = [bits |-> content, bframes |-> handler.bframes]
      /\ UNCHANGED <<detection, given, failed, kind, size, content, retries>>
  BY DEF VideoInv, SaveEnds, Trailer
<1>2. /\ handler # None /\ content # None /\ ~failed /\ handler.input = TRUE
      /\ save.out \in Seq(Packet)
      /\ Len(handler.packets) = Len(given) /\ Len(given) > 0
      /\ \A i \in 1..Len(save.out) : ~handler.packets[i].data
      /\ given \in Containers /\ detection \in Detections /\ kind \in {"mkv", "mp4"}
      /\ handler \in [packets : Seq(Packet), bframes : BOOLEAN, input : BOOLEAN]
  BY <1>1, VideoAssumption DEF HandlerTypes
<1>3. PICK c : c = Coming
  OBVIOUS
<1>4. /\ handler \in Handlers /\ Len(given) \in Nat \ {0}
      /\ DOMAIN handler.packets = 1..Len(given)
      /\ c \in Seq(Packet) /\ DOMAIN c = 1..Len(given) /\ c = save.out
      /\ Ahead = [packets |-> c, bframes |-> handler.bframes, input |-> TRUE]
  <2>1. /\ handler \in Handlers /\ Len(given) \in Nat \ {0}
        /\ DOMAIN handler.packets = 1..Len(given)
        /\ c \in Seq(Packet) /\ DOMAIN c = 1..Len(given)
        /\ \A i \in 1..Len(given) :
               c[i] = IF i <= Len(save.out) THEN save.out[i] ELSE handler.packets[i]
        /\ Ahead \in Handlers /\ Ahead.packets = c
        /\ Ahead.bframes = handler.bframes /\ Ahead.input = TRUE
    BY <1>1, <1>2, <1>3, ComingIs
  <2>2. c = save.out
    <3>1. \A i \in 1..Len(given) : c[i] = save.out[i]
      BY <2>1, <1>1, <1>2
    <3>2. c = [i \in 1..Len(given) |-> c[i]]
      BY <2>1
    <3>3. save.out = [i \in 1..Len(given) |-> save.out[i]]
      <4>1. DOMAIN save.out = 1..Len(given)
        BY <1>1, <1>2
      <4>2. save.out = [i \in DOMAIN save.out |-> save.out[i]]
        BY <1>2
      <4>. QED
        BY <4>1, <4>2
    <3>. QED
      BY <3>1, <3>2, <3>3
  <2>3. \A g \in Handlers :
            g = [packets |-> g.packets, bframes |-> g.bframes, input |-> g.input]
    BY DEF Handlers
  <2>. QED
    BY <2>1, <2>2, <2>3
<1>5. /\ handler' # None /\ handler'.packets = handler.packets
      /\ handler'.bframes = handler.bframes /\ ~handler'.input
      /\ handler' \in [packets : Seq(Packet), bframes : BOOLEAN, input : BOOLEAN]
  <2>1. /\ handler'.packets = handler.packets /\ handler'.bframes = handler.bframes
        /\ ~handler'.input
        /\ handler' \in [packets : Seq(Packet), bframes : BOOLEAN, input : BOOLEAN]
    BY <1>1, <1>2
  <2>. QED
    BY <2>1, ContainerAssumption
<1>6. ~Whole(handler.packets)
  <2>1. 1 \in 1..Len(given) /\ ~handler.packets[1].data
    BY <1>1, <1>2, <1>4
  <2>. QED
    BY <2>1, <1>4 DEF Whole
<1>7. HandlerTypes'
  <2>1. Len(NoSave.out) = 0
    BY NoSaveIs
  <2>2. Len(NoSave.out) <= Len(handler'.packets) /\ 1..Len(NoSave.out) = {}
    BY <2>1, <1>2, <1>4, <1>5
  <2>. QED
    BY <1>1, <1>2, <1>5, <2>2, NoSaveIs DEF HandlerTypes
<1>8. Coming' = handler.packets
  <2>1. (HandlerTypes /\ handler # None => (save.out = <<>> => Coming = handler.packets))'
    BY ComingIs, PTL
  <2>. QED
    BY <2>1, <1>1, <1>5, <1>7, NoSaveIs
<1>9. FilesInv'
  <2>1. Descendant(c, handler.bframes) /\ SameStreams(handler.packets)
    BY <1>1, <1>2, <1>3 DEF FilesInv
  <2>2. Descendant(c, HasBFrames(c))
    BY <2>1, <1>2, AnswerAgain
  <2>3. Descendant(handler.packets, handler.bframes)
    BY <2>1, <1>6 DEF Descendant
  <2>4. disk' = c
    BY <1>1, <1>4
  <2>5. Descendant(disk, HasBFrames(disk))'
    BY <2>2, <2>4, <1>1, SameOriginal
  <2>6. Descendant(Coming, handler.bframes)' /\ SameStreams(handler.packets)'
    BY <2>1, <2>3, <1>1, <1>5, <1>8, SameOriginal
  <2>. QED
    BY <2>5, <2>6 DEF FilesInv
<1>10. FramesInv'
  <2>1. retries = 0 => Whole(c)
    BY <1>1, <1>2, <1>3 DEF FramesInv
  <2>. QED
    BY <2>1, <1>1, <1>4, <1>5 DEF FramesInv
<1>11. CopyInv'
  BY <1>5, <1>6 DEF CopyInv
<1>12. BitsInv'
  <2>1. Whole(c) => content = BitsIn(Ahead)
    BY <1>1, <1>2, <1>3 DEF BitsInv
  <2>2. saved'.bits = content /\ saved'.bframes = handler.bframes
    BY <1>1
  <2>3. /\ disk' = c /\ save'.st = "none" /\ ~Whole(Coming')
    BY <1>1, <1>4, <1>6, <1>8, NoSaveIs
  <2>4. Whole(disk') =>
            saved'.bits = BitsIn([packets |-> disk', bframes |-> saved'.bframes, input |-> TRUE])
    BY <2>1, <2>2, <2>3, <1>4
  <2>. QED
    BY <2>3, <2>4, <1>1, SameKind DEF BitsInv
<1>. QED
  BY <1>7, <1>9, <1>10, <1>11, <1>12 DEF VideoInv

-----------------------------------------------------------------------------
(* The theorems.                                                           *)

\* The inductive invariant: packets descend from those of the original file, hold
\* the bits that were written, and are whole unless somebody went on with an object
\* whose Save had failed.
THEOREM VideoInvariant == Spec => []VideoInv
<1>1. Init => VideoInv
  BY InitVideo
<1>2. VideoInv /\ [Next]_vars => VideoInv'
  <2>. SUFFICES ASSUME VideoInv, [Next]_vars PROVE VideoInv'
    OBVIOUS
  <2>1. CASE Construct
    BY <2>1, ConstructStep
  <2>2. CASE LoadFile
    BY <2>2, LoadFileStep
  <2>3. CASE SaveFile
    BY <2>3, SaveFileStep
  <2>4. ASSUME NEW bits \in Contents(size), WriteContent(bits)
        PROVE  VideoInv'
    BY <2>4, WriteContentStep
  <2>5. CASE SaveOpens
    BY <2>5, SaveOpensStep
  <2>6. CASE SaveThrows
    BY <2>6, SaveThrowsStep
  <2>7. CASE SaveWrites
    BY <2>7, SaveWritesStep
  <2>8. CASE SaveEnds
    BY <2>8, SaveEndsStep
  <2>9. CASE ProcessEnds
    BY <2>9, ProcessEndsStep
  <2>10. CASE UNCHANGED vars
    <3>1. UNCHANGED <<handlerVars, kind, size, content, saved, retries>>
      BY <2>10 DEF vars
    <3>2. content # None => content \in [1..size -> 0..1]
      BY DEF VideoInv, HandlerTypes
    <3>3. content' # None => content' \in [1..size -> 0..1]
      BY <3>1, <3>2
    <3>. QED
      BY <3>1, <3>3, ContentSteps
  <2>. QED
    BY <2>1, <2>2, <2>3, <2>4, <2>5, <2>6, <2>7, <2>8, <2>9, <2>10 DEF Next
<1>. QED
  BY <1>1, <1>2, PTL DEF Spec

\* The types of the carrier and its handler; a released packet is one that was written.
THEOREM TypeCorrect == Spec => []HandlerTypes
<1>1. VideoInv => HandlerTypes
  BY DEF VideoInv
<1>. QED
  BY <1>1, VideoInvariant, PTL

\* A file that is a container holds every frame it held in the beginning, and the
\* streams that take no bits as they were, however often it is saved: as long as
\* nobody goes on with an object whose Save failed.
THEOREM FramesAreKept == Spec => []FramesSurvive
<1>1. VideoInv => FramesSurvive
  <2>. SUFFICES ASSUME VideoInv, disk # None, retries = 0
                PROVE  /\ Len(disk) = Len(given)
                       /\ \A i \in DOMAIN disk : disk[i].data /\ disk[i].type = given[i].type
                       /\ kind = "mp4" => \A i \in Packets("other", given) : disk[i] = given[i]
    BY DEF FramesSurvive
  <2>1. given \in Containers /\ Descendant(disk, HasBFrames(disk)) /\ Whole(disk)
    BY DEF VideoInv, HandlerTypes, FilesInv, FramesInv
  <2>2. SameStreams(disk) /\ \A i \in DOMAIN given : DescendsFrom(disk[i], given[i])
    BY <2>1 DEF Descendant
  <2>3. /\ Len(disk) = Len(given) /\ DOMAIN disk = DOMAIN given
        /\ \A i \in DOMAIN given : disk[i].type = given[i].type
    BY <2>1, <2>2, StreamsAre
  <2>4. \A i \in DOMAIN disk : disk[i].data
    BY <2>1 DEF Whole
  <2>5. \A i \in Packets("other", given) : kind = "mp4" => disk[i] = given[i]
    BY <2>2, <2>3 DEF DescendsFrom, Packets
  <2>. QED
    BY <2>3, <2>4, <2>5
<1>. QED
  BY <1>1, VideoInvariant, PTL

\* The guess made without ffprobe survives every Save of an MP4 file that has one video
\* packet far enough ahead, and every Save of one that has none that is ahead at all.
THEOREM GuessIsStable == Spec => []GuessSurvives
<1>1. VideoInv => GuessSurvives
  <2>. SUFFICES ASSUME VideoInv, kind = "mp4", detection = "guess", Fresh, save = NoSave
                PROVE  (FarAhead => handler.bframes) /\ (Near => ~handler.bframes)
    BY DEF GuessSurvives
  <2>1. handler # None /\ ~failed /\ Whole(handler.packets) /\ save.st = "none"
    BY NoSaveIs DEF Fresh, Whole
  <2>2. Coming = handler.packets
    BY <2>1, ComingIs DEF VideoInv
  <2>3. FitsAnswer(handler.packets, handler.bframes)
    BY <2>1, <2>2 DEF VideoInv, FilesInv, Descendant
  <2>. QED
    BY <2>3 DEF FitsAnswer
<1>. QED
  BY <1>1, VideoInvariant, PTL

\* A new object for a file: what the invariant says of it.
LEMMA FreshIs ==
    ASSUME VideoInv, Fresh, save = NoSave
    PROVE  /\ handler \in Handlers /\ kind \in {"mkv", "mp4"} /\ given \in Containers
           /\ Whole(handler.packets) /\ disk # None /\ handler.packets = disk
           /\ size = Room(handler) /\ size \in Nat
           /\ DOMAIN handler.packets = DOMAIN given /\ SameStreams(handler.packets)
           /\ \A i \in DOMAIN given : DescendsFrom(handler.packets[i], given[i])
           /\ kind = "mp4" => FitsAnswer(handler.packets, handler.bframes)
<1>1. handler # None /\ ~failed /\ Whole(handler.packets) /\ save.st = "none"
  BY NoSaveIs DEF Fresh, Whole
<1>2. /\ handler \in Handlers /\ kind \in {"mkv", "mp4"} /\ given \in Containers
      /\ Coming = handler.packets /\ Ahead = handler
  BY <1>1, ComingIs DEF VideoInv, HandlerTypes
<1>3. /\ SameStreams(handler.packets)
      /\ \A i \in DOMAIN given : DescendsFrom(handler.packets[i], given[i])
      /\ kind = "mp4" => FitsAnswer(handler.packets, handler.bframes)
  BY <1>1, <1>2 DEF VideoInv, FilesInv, Descendant
<1>4. DOMAIN handler.packets = DOMAIN given
  BY <1>2, <1>3, StreamsAre
<1>5. disk # None /\ handler.packets = disk
  BY <1>1 DEF VideoInv, CopyInv
<1>6. size = Room(handler) /\ size \in Nat
  BY <1>1, <1>2 DEF VideoInv, BitsInv, HandlerTypes
<1>. QED
  BY <1>1, <1>2, <1>3, <1>4, <1>5, <1>6

\* An MP4 file can be loaded or it cannot, whatever was saved into it, and which of the
\* two can be read off the original packets.
THEOREM RefusalIsForEver == Spec => []RefusedExactly
<1>1. VideoInv => RefusedExactly
  <2>. DEFINE h == [handler EXCEPT !.packets = given]
              v == Cardinality(VideoSlots(h))
              a == Cardinality(Packets("audio", given))
  <2>. SUFFICES ASSUME VideoInv, Fresh, save = NoSave
                PROVE  Overruns(handler) <=> kind = "mp4" /\ a > 0 /\ a <= (a + v) % ByteBits
    BY DEF RefusedExactly
  <2>1. /\ handler \in Handlers /\ kind \in {"mkv", "mp4"} /\ given \in Containers
        /\ size = Room(handler) /\ size \in Nat
        /\ DOMAIN handler.packets = DOMAIN given /\ SameStreams(handler.packets)
        /\ \A i \in DOMAIN given : DescendsFrom(handler.packets[i], given[i])
        /\ kind = "mp4" => FitsAnswer(handler.packets, handler.bframes)
    BY FreshIs
  <2>2. CASE kind # "mp4"
    BY <2>2 DEF Overruns
  <2>3. CASE kind = "mp4"
    <3>1. h \in Handlers /\ h.packets = given /\ h.bframes = handler.bframes
      BY <2>1, GivenPackets, WithPackets
    <3>2. ASSUME NEW i \in DOMAIN given
          PROVE  /\ handler.packets[i].type = given[i].type
                 /\ handler.bframes /\ given[i].type = "video" =>
                        (Applicable(handler.packets[i]) <=> Applicable(given[i]))
      <4>1. /\ handler.packets[i] \in Packet /\ given[i] \in Packet
            /\ handler.packets[i].type = given[i].type
        BY <2>1, StreamsAre, GivenPackets
      <4>2. ModifyLSB(handler.packets[i].pts, 0) = ModifyLSB(given[i].pts, 0)
        BY <2>1 DEF DescendsFrom
      <4>3. handler.bframes /\ given[i].type = "video" => handler.packets[i].dts = given[i].dts
        BY <2>1, <2>3 DEF FitsAnswer, Packets
      <4>. QED
        BY <4>1, <4>2, <4>3, ApplicableKept
    <3>3. /\ VideoSlots(handler) = VideoSlots(h)
          /\ Packets("audio", handler.packets) = Packets("audio", given)
      <4>. HIDE DEF h
      <4>. QED
        BY <2>1, <2>3, <3>1, <3>2, SameSlots
    <3>4. /\ v \in Nat /\ a \in Nat /\ Len(Slots(handler)) = v + a
      BY <2>1, <2>3, <3>3, SlotsAreChosen
    <3>5. a > 0 <=> Packets("audio", handler.packets) # {}
      <4>1. Packets("audio", given) \subseteq 1..Len(given) /\ Len(given) \in Nat
        BY <2>1, GivenPackets DEF Packets
      <4>2. IsFiniteSet(Packets("audio", given))
        BY <4>1, PlacesAreFinite
      <4>3. a = 0 <=> Packets("audio", given) = {}
        BY <4>2, FS_EmptySet
      <4>. QED
        BY <4>3, <3>3, <3>4
    <3>6. size = (v + a) - ((v + a) % ByteBits)
      BY <2>1, <3>4, RoomFits
    <3>7. (v + a) % ByteBits \in Nat /\ v + a = a + v
      <4>1. v + a \in Nat /\ ByteBits \in Nat \ {0}
        BY <3>4, VideoAssumption
      <4>. QED
        BY <4>1, <3>4, DivisionWithRemainder
    <3>8. Overruns(handler) <=> v >= size /\ a > 0
      BY <2>3, <3>3, <3>5 DEF Overruns
    <3>. DEFINE r == (v + a) % ByteBits
    <3>9. v >= size <=> a <= r
      <4>1. PICK V, A, R : V = v /\ A = a /\ R = r
        OBVIOUS
      <4>2. V \in Nat /\ A \in Nat /\ R \in Nat /\ size = (V + A) - R
        BY <4>1, <3>4, <3>6, <3>7
      <4>3. V >= size <=> A <= R
        BY <4>2
      <4>. QED
        BY <4>1, <4>3
    <3>10. r = (a + v) % ByteBits
      BY <3>7
    <3>. HIDE DEF v, a, r
    <3>. QED
      BY <2>3, <3>8, <3>9, <3>10
  <2>. QED
    BY <2>2, <2>3
<1>. QED
  BY <1>1, VideoInvariant, PTL

\* What a Save that ended well put into a video is what LoadFile of a new object finds,
\* as long as the search for B frames (which MKV does not use) answers as before.
THEOREM LoadReadsWhatSaveWrote == Spec => RoundTrip
<1>1. VideoInv /\ [Next]_vars =>
        [Fresh /\ LoadFile /\ saved # None =>
            \/ content' = saved.bits
            \/ kind = "mp4" /\ handler.bframes # saved.bframes]_vars
  <2>. SUFFICES ASSUME VideoInv, Fresh, LoadFile, saved # None,
                       kind = "mp4" => handler.bframes = saved.bframes
                PROVE  content' = saved.bits
    OBVIOUS
  <2>1. save = NoSave /\ content' = LoadBuffer(handler)
    BY DEF LoadFile, MayCall
  <2>2. /\ handler \in Handlers /\ kind \in {"mkv", "mp4"}
        /\ Whole(handler.packets) /\ disk # None /\ handler.packets = disk
        /\ size = Room(handler) /\ size \in Nat
    BY <2>1, FreshIs
  <2>3. content' = BitsIn(handler)
    BY <2>1, <2>2, LoadBufferIs
  <2>. DEFINE g == [packets |-> disk, bframes |-> saved.bframes, input |-> TRUE]
  <2>4. saved.bits = BitsIn(g)
    BY <2>2 DEF VideoInv, BitsInv
  <2>5. BitsIn(g) = BitsIn(handler)
    <3>1. g.packets = handler.packets /\ g.bframes = saved.bframes
      BY <2>2
    <3>. HIDE DEF g
    <3>2. CASE kind = "mkv"
      <4>1. Slots(g) = Slots(handler)
        BY <3>1, <3>2 DEF Slots
      <4>. QED
        BY <4>1, <3>1 DEF BitsIn, Room, CalculateCapacity
    <3>3. CASE kind = "mp4"
      <4>1. g.bframes = handler.bframes
        BY <3>1, <3>3
      <4>2. VideoSlots(g) = VideoSlots(handler)
        BY <4>1, <3>1 DEF VideoSlots
      <4>3. Slots(g) = Slots(handler)
        BY <3>1, <4>2 DEF Slots
      <4>. QED
        BY <4>3, <3>1 DEF BitsIn, Room, CalculateCapacity
    <3>. QED
      BY <2>2, <3>2, <3>3
  <2>. QED
    BY <2>3, <2>4, <2>5
<1>. QED
  BY <1>1, VideoInvariant, PTL DEF Spec, RoundTrip

\* The arithmetic of two packets of one stream, three ticks apart: whatever bits they
\* have got, the second is still decoded after the first.  Without B frames both may
\* move towards each other, by two ticks and by one: but then the one has an odd time
\* and the other an even one.
LEMMA StaysBehind ==
    ASSUME NEW p \in Packet, NEW q \in Packet, NEW g \in Packet, NEW k \in Packet, NEW b \in BOOLEAN,
           kind \in {"mkv", "mp4"}, p.type = g.type, q.type = g.type,
           DescendsFrom(p, g), DescendsFrom(q, k), k.type = g.type,
           g.pts >= g.dts, k.pts >= k.dts, k.dts - g.dts >= 3,
           g.type = "audio" => g.pts = g.dts /\ k.pts = k.dts,
           kind = "mp4" /\ g.type = "video" =>
               IF b THEN p.dts = g.dts /\ q.dts = k.dts
               ELSE g.pts - g.dts < 2 /\ k.pts - k.dts < 2
    PROVE  p.dts < q.dts
<1>. DEFINE m == ModifyLSB(g.pts, 0)
            n == ModifyLSB(k.pts, 0)
<1>1. /\ p.pts \in Int /\ p.dts \in Int /\ g.pts \in Int /\ g.dts \in Int
      /\ q.pts \in Int /\ q.dts \in Int /\ k.pts \in Int /\ k.dts \in Int
  BY DEF Packet
<1>2. /\ m \in Int /\ m % 2 = 0 /\ m <= g.pts /\ g.pts <= m + 1
      /\ n \in Int /\ n % 2 = 0 /\ n <= k.pts /\ k.pts <= n + 1
  <2>1. 0 \in 0..1
    OBVIOUS
  <2>. QED
    BY <2>1, <1>1, ModifyLSBIs
<1>3. m <= p.pts /\ p.pts <= m + 1 /\ n <= q.pts /\ q.pts <= n + 1
  <2>1. ModifyLSB(p.pts, 0) = m /\ ModifyLSB(q.pts, 0) = n
    BY DEF DescendsFrom
  <2>2. 0 \in 0..1
    OBVIOUS
  <2>3. /\ ModifyLSB(p.pts, 0) <= p.pts /\ p.pts <= ModifyLSB(p.pts, 0) + 1
        /\ ModifyLSB(q.pts, 0) <= q.pts /\ q.pts <= ModifyLSB(q.pts, 0) + 1
    BY <2>2, <1>1, ModifyLSBIs
  <2>. QED
    BY <2>1, <2>3
<1>4. CASE kind = "mkv"
  <2>1. p.dts <= g.dts /\ k.dts - 1 <= q.dts
    BY <1>4 DEF DescendsFrom
  <2>. QED
    BY <2>1, <1>1
<1>5. CASE kind = "mp4"
  <2>1. CASE g.type \notin {"video", "audio"}
    <3>1. p = g /\ q = k
      BY <1>5, <2>1 DEF DescendsFrom
    <3>. QED
      BY <3>1, <1>1
  <2>2. ASSUME g.type \in {"video", "audio"}
        PROVE  (p.dts = g.dts \/ p.dts = p.pts) /\ (q.dts = k.dts \/ q.dts = q.pts)
    BY <1>5, <2>2 DEF DescendsFrom
  <2>. HIDE DEF m, n
  <2>3. CASE g.type = "audio"
    <3>1. p.dts <= g.dts + 1 /\ k.dts - 1 <= q.dts
      BY <2>2, <2>3, <1>1, <1>2, <1>3
    <3>. QED
      BY <3>1, <1>1
  <2>4. CASE g.type = "video" /\ b
    BY <1>5, <2>4, <1>1
  <2>5. CASE g.type = "video" /\ ~b
    <3>1. g.pts <= g.dts + 1 /\ k.pts <= k.dts + 1
      BY <1>5, <2>5, <1>1
    <3>2. p.dts <= g.dts + 2 /\ k.dts - 1 <= q.dts
      BY <2>2, <2>5, <3>1, <1>1, <1>2, <1>3
    <3>3. CASE p.dts <= g.dts + 1 \/ k.dts <= q.dts
      BY <3>2, <3>3, <1>1
    <3>4. CASE p.dts = g.dts + 2 /\ q.dts = k.dts - 1
      <4>1. p.dts = p.pts /\ q.dts = q.pts
        BY <3>4, <2>2, <2>5, <1>1
      <4>2. m = g.dts + 1 /\ n = k.dts - 1
        BY <4>1, <3>1, <3>4, <1>1, <1>2, <1>3
      <4>3. k.dts - g.dts # 3
        <5>. SUFFICES ASSUME k.dts - g.dts = 3 PROVE FALSE
          OBVIOUS
        <5>1. n = m + 1
          BY <4>2, <1>1, <1>2
        <5>. QED
          BY <5>1, <1>2
      <4>. QED
        BY <4>3, <3>4, <1>1
    <3>. QED
      BY <3>2, <3>3, <3>4, <1>1
  <2>. QED
    BY <2>1, <2>3, <2>4, <2>5
<1>. QED
  BY <1>4, <1>5

\* Embedding makes no times that the muxer refuses: in a file with reasonable times whose
\* B frames were seen, every packet that Save comes to is accepted.
THEOREM MuxerTakesAll == Spec => []MuxerAccepts
<1>1. VideoInv => MuxerAccepts
  <2>. SUFFICES ASSUME VideoInv, save.st = "writing", retries = 0, Spaced,
                       ~Near => handler.bframes \/ kind = "mkv",
                       Len(save.out) < Len(handler.packets)
                PROVE  Accepts(save.out, Next1)
    BY DEF MuxerAccepts
  <2>1. /\ HandlerTypes /\ handler # None /\ handler.input /\ ~failed
        /\ save.out \in Seq(Packet) /\ given \in Containers
        /\ Len(handler.packets) = Len(given)
    BY DEF VideoInv, HandlerTypes
  <2>2. PICK c : c = Coming
    OBVIOUS
  <2>3. /\ SameStreams(c) /\ \A i \in DOMAIN given : DescendsFrom(c[i], given[i])
        /\ kind = "mp4" => FitsAnswer(c, handler.bframes)
    <3>1. Whole(c)
      BY <2>1, <2>2 DEF VideoInv, FramesInv
    <3>. QED
      BY <3>1, <2>1, <2>2 DEF VideoInv, FilesInv, Descendant
  <2>4. /\ kind \in {"mkv", "mp4"} /\ handler.bframes \in BOOLEAN
        /\ DOMAIN given = 1..Len(given) /\ Len(given) \in Nat
        /\ \A i \in DOMAIN given :
               c[i] = IF i <= Len(save.out) THEN save.out[i] ELSE handler.packets[i]
    BY <2>1, <2>2, ComingIs, GivenPackets DEF Handlers
  <2>. DEFINE n == Len(save.out) + 1
  <2>5. /\ Len(save.out) \in Nat /\ n \in DOMAIN given /\ Next1 = c[n]
        /\ \A i \in DOMAIN save.out : i \in DOMAIN given /\ i < n /\ save.out[i] = c[i]
    BY <2>1, <2>4 DEF Next1
  <2>. HIDE DEF n
  <2>6. c[n].pts >= c[n].dts
    BY <2>3, <2>5 DEF DescendsFrom
  <2>7. ASSUME NEW i \in Packets(c[n].type, save.out)
        PROVE  save.out[i].dts < c[n].dts
    <3>1. i \in DOMAIN given /\ i < n /\ save.out[i] = c[i] /\ c[i].type = c[n].type
      BY <2>5 DEF Packets
    <3>2. PICK p, q, g, k : p = c[i] /\ q = c[n] /\ g = given[i] /\ k = given[n]
      OBVIOUS
    <3>3. /\ p \in Packet /\ q \in Packet /\ g \in Packet /\ k \in Packet
          /\ p.type = g.type /\ q.type = g.type /\ k.type = g.type
          /\ g.pts >= g.dts /\ k.pts >= k.dts
      BY <3>1, <3>2, <2>1, <2>3, <2>5, StreamsAre, GivenPackets
    <3>4. DescendsFrom(p, g) /\ DescendsFrom(q, k)
      BY <3>1, <3>2, <2>3, <2>5
    <3>5. k.dts - g.dts >= 3
      BY <3>1, <3>2, <3>3, <2>5 DEF Spaced
    <3>6. g.type = "audio" => g.pts = g.dts /\ k.pts = k.dts
      BY <3>1, <3>2, <3>3, <2>5 DEF Spaced, Packets
    <3>7. kind = "mp4" /\ g.type = "video" =>
              IF handler.bframes THEN p.dts = g.dts /\ q.dts = k.dts
              ELSE g.pts - g.dts < 2 /\ k.pts - k.dts < 2
      <4>. SUFFICES ASSUME kind = "mp4", g.type = "video"
                    PROVE  IF handler.bframes THEN p.dts = g.dts /\ q.dts = k.dts
                           ELSE g.pts - g.dts < 2 /\ k.pts - k.dts < 2
        OBVIOUS
      <4>1. i \in Packets("video", given) /\ n \in Packets("video", given)
        BY <3>1, <3>2, <3>3, <2>5 DEF Packets
      <4>2. CASE handler.bframes
        BY <4>1, <4>2, <3>2, <2>3 DEF FitsAnswer
      <4>3. CASE ~handler.bframes
        <5>1. Near
          BY <4>3
        <5>. QED
          BY <5>1, <4>1, <4>3, <3>2 DEF Near
      <4>. QED
        BY <4>2, <4>3
    <3>8. p.dts < q.dts
      BY <3>3, <3>4, <3>5, <3>6, <3>7, <2>4, StaysBehind
    <3>. QED
      BY <3>1, <3>2, <3>8
  <2>. QED
    BY <2>5, <2>6, <2>7 DEF Accepts
<1>. QED
  BY <1>1, VideoInvariant, PTL
=============================================================================
