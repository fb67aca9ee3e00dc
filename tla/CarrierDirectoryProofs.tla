----------------------- MODULE CarrierDirectoryProofs -----------------------
(***************************************************************************)
(* For any directory, any configurations and any number of processes: an   *)
(* open storage has all the carriers of its directory, and a volume that   *)
(* was saved is found again under the same keys, in the same place.        *)
(*                                                                         *)
(* std::sort leaves files of equal names in any order, so that two Opens   *)
(* may number the carriers differently.  The argument is that two sorted   *)
(* lists of the same files have the same names, place by place (by the     *)
(* pigeonhole principle: were the name at place i smaller in one of them,  *)
(* i files would have to stand at fewer than i places of the other), hence *)
(* the same master key; and that a file whose name no other has stands     *)
(* after the same files in both.                                           *)
(***************************************************************************)
EXTENDS CarrierDirectory, Integers, FiniteSetTheorems, WellFoundedInduction, TLAPS

-----------------------------------------------------------------------------
(* The configuration is a function of the Configure calls.                 *)

\* Every non-empty set of numbers has a least element: what stands in for
\* induction over the calls.
LEMMA LessIsWellFounded ==
    \E R : IsWellFoundedOn(R, Nat) /\ \A x, y \in Nat : x < y => <<x, y>> \in R
<1>. DEFINE R == OpToRel(<, Nat)
<1>1. IsWellFoundedOn(R, Nat)
  BY NatLessThanWellFounded
<1>2. \A x, y \in Nat : x < y => <<x, y>> \in R
  BY DEF OpToRel
<1>. HIDE DEF R
<1>. QED
  BY <1>1, <1>2

\* Every non-empty set of numbers has a least element.
LEMMA LeastElement ==
    ASSUME NEW T \in SUBSET Nat, T # {}
    PROVE  \E x \in T : \A y \in T : x <= y
<1>1. PICK R : IsWellFoundedOn(R, Nat) /\ \A x, y \in Nat : x < y => <<x, y>> \in R
  BY LessIsWellFounded
<1>2. \E x \in T : \A y \in T : ~ (<<y, x>> \in R)
  <2>1. IsWellFoundedOn(R, Nat)
    BY <1>1
  <2>2. T \subseteq Nat
    OBVIOUS
  <2>3. \A RR, S, TT : IsWellFoundedOn(RR, S) /\ TT \subseteq S /\ TT # {}
                          => \E x \in TT : \A y \in TT : ~ (<<y, x>> \in RR)
    BY WFMin, Zenon
  <2>. QED
    BY <2>1, <2>2, <2>3, Zenon
<1>3. PICK x \in T : \A y \in T : ~ (<<y, x>> \in R)
  BY <1>2
<1>4. \A y \in T : x <= y
  <2>. SUFFICES ASSUME NEW y \in T PROVE ~(y < x)
    OBVIOUS
  <2>. QED
    BY <1>1, <1>3
<1>. QED
  BY <1>4

\* The objects that Configure is called with.
Configuration ==
    Requests \cup {[encoder |-> call[1], global_perm |-> call[2], local_perm |-> call[3]] :
                       call \in EnumCalls}

\* The configurations that the calls of h lead through, from a fresh process.
RunOf(run, h) ==
    /\ run[0] = NotConfigured
    /\ \A k \in 1..Len(h) : run[k] = ConfigOf(run[k - 1], h[k])

Configured(config, h) == \E run : RunOf(run, h) /\ config = run[Len(h)]

\* A fresh process has seen no call.
LEMMA FreshIsConfigured == Configured(NotConfigured, << >>)
<1>. DEFINE run == [k \in {0} |-> NotConfigured]
<1>1. RunOf(run, << >>) /\ run[Len(<< >>)] = NotConfigured
  BY DEF RunOf
<1>. HIDE DEF run
<1>. QED
  BY <1>1 DEF Configured

\* One more call.
LEMMA ConfigureContinues ==
    ASSUME NEW h \in Seq(Configuration), NEW call \in Configuration, NEW config,
           Configured(config, h)
    PROVE  Configured(ConfigOf(config, call), Append(h, call))
<1>1. PICK run : RunOf(run, h) /\ config = run[Len(h)]
  BY DEF Configured
<1>. DEFINE n == Len(h)
            next == [k \in 0..(n + 1) |-> IF k = n + 1 THEN ConfigOf(config, call) ELSE run[k]]
            hh == Append(h, call)
<1>2. n \in Nat /\ Len(hh) = n + 1 /\ hh[n + 1] = call /\ \A k \in 1..n : hh[k] = h[k]
  OBVIOUS
<1>3. next[0] = run[0] /\ next[n + 1] = ConfigOf(config, call) /\ \A k \in 0..n : next[k] = run[k]
  BY <1>2
<1>. HIDE DEF next, hh, n
<1>4. ASSUME NEW k \in 1..Len(hh) PROVE next[k] = ConfigOf(next[k - 1], hh[k])
  <2>1. CASE k = n + 1
    <3>1. next[k - 1] = config
      BY <1>1, <1>2, <1>3, <2>1 DEF n
    <3>. QED
      BY <1>2, <1>3, <2>1, <3>1
  <2>2. CASE k # n + 1
    <3>1. k \in 1..n /\ k - 1 \in 0..n
      BY <1>2, <2>2
    <3>2. run[k] = ConfigOf(run[k - 1], h[k])
      BY <1>1, <3>1 DEF RunOf, n
    <3>3. next[k] = run[k] /\ next[k - 1] = run[k - 1] /\ hh[k] = h[k]
      BY <1>2, <1>3, <3>1
    <3>. QED
      BY <3>2, <3>3
  <2>. QED
    BY <2>1, <2>2
<1>5. RunOf(next, hh) /\ next[Len(hh)] = ConfigOf(config, call)
  BY <1>1, <1>2, <1>3, <1>4 DEF RunOf
<1>. QED
  BY <1>5 DEF Configured, hh

\* The same calls lead to the same configuration.
LEMMA ConfiguredIsUnique ==
    ASSUME NEW h \in Seq(Configuration), NEW c, NEW d, Configured(c, h), Configured(d, h)
    PROVE  c = d
<1>1. PICK run : RunOf(run, h) /\ c = run[Len(h)]
  BY DEF Configured
<1>2. PICK ran : RunOf(ran, h) /\ d = ran[Len(h)]
  BY DEF Configured
<1>3. Len(h) \in Nat
  OBVIOUS
<1>. DEFINE Differ == {k \in 0..Len(h) : run[k] # ran[k]}
<1>4. SUFFICES ASSUME Differ # {} PROVE FALSE
  BY <1>1, <1>2, <1>3
<1>5. PICK k \in Differ : \A j \in Differ : k <= j
  <2>1. Differ \in SUBSET Nat
    BY <1>3
  <2>. HIDE DEF Differ
  <2>. QED
    BY <1>4, <2>1, LeastElement
<1>6. k # 0
  BY <1>1, <1>2 DEF RunOf
<1>7. k \in 1..Len(h) /\ k - 1 \in 0..Len(h) /\ k - 1 \notin Differ
  BY <1>3, <1>5, <1>6
<1>8. run[k - 1] = ran[k - 1]
  BY <1>7
<1>9. run[k] = ran[k]
  BY <1>1, <1>2, <1>7, <1>8 DEF RunOf
<1>. QED
  BY <1>5, <1>9

-----------------------------------------------------------------------------
(* Two sorted lists of the same files.                                     *)

\* What std::sort returns: every file once, the names in order.
LEMMA SortedList ==
    ASSUME NEW S \in SUBSET File, NEW e \in Sorted(S)
    PROVE  /\ Cardinality(S) \in Nat
           /\ e \in [1..Cardinality(S) -> S]
           /\ \A i, j \in 1..Cardinality(S) : e[i] = e[j] => i = j
           /\ \A f \in S : \E i \in 1..Cardinality(S) : e[i] = f
           /\ \A i, j \in 1..Cardinality(S) : i < j => Stem[e[i]] <= Stem[e[j]]
           /\ \A f \in S : Stem[f] \in Nat
<1>. DEFINE n == Cardinality(S)
<1>1. IsFiniteSet(S) /\ n \in Nat
  BY DirectoryAssumption, FS_Subset, FS_CardinalityType
<1>2. e \in [1..n -> S] /\ \A i, j \in 1..n : i # j => e[i] # e[j]
  BY DEF Sorted, SetToSeqs
<1>3. \A f \in S : Stem[f] \in Nat
  BY DirectoryAssumption
<1>4. \A i, j \in 1..n : i < j => ~(Stem[e[j]] < Stem[e[i]])
  BY <1>2 DEF Sorted, CarrierLess, NormalizedPath
<1>5. \A i, j \in 1..n : i < j => Stem[e[i]] <= Stem[e[j]]
  BY <1>2, <1>3, <1>4
<1>6. \A f \in S : \E i \in 1..n : e[i] = f
  <2>1. IsFiniteSet(1..n) /\ Cardinality(1..n) = n
    BY <1>1, FS_Interval
  <2>2. e \in Injection(1..n, S)
    BY <1>2 DEF Injection, IsInjective
  <2>. HIDE DEF n
  <2>3. e \in Surjection(1..n, S)
    BY <1>1, <2>1, <2>2, FS_Injection DEF n
  <2>. QED
    BY <2>3 DEF Surjection
<1>. QED
  BY <1>1, <1>2, <1>3, <1>5, <1>6

\* Were the name at place i smaller in one list, the i files up to there would
\* have to stand before place i of the other.
LEMMA NotSmaller ==
    ASSUME NEW S \in SUBSET File, NEW e \in Sorted(S), NEW d \in Sorted(S),
           NEW i \in 1..Cardinality(S)
    PROVE  ~(Stem[e[i]] < Stem[d[i]])
<1>. DEFINE n == Cardinality(S)
<1>0. SUFFICES ASSUME Stem[e[i]] < Stem[d[i]] PROVE FALSE
  OBVIOUS
<1>1. /\ n \in Nat /\ e \in [1..n -> S] /\ d \in [1..n -> S]
      /\ \A x, y \in 1..n : e[x] = e[y] => x = y
      /\ \A f \in S : \E k \in 1..n : d[k] = f
      /\ \A x, y \in 1..n : x < y => Stem[e[x]] <= Stem[e[y]]
      /\ \A x, y \in 1..n : x < y => Stem[d[x]] <= Stem[d[y]]
      /\ \A f \in S : Stem[f] \in Nat
  BY SortedList
<1>. DEFINE other == [j \in 1..i |-> CHOOSE k \in 1..n : d[k] = e[j]]
<1>2. ASSUME NEW j \in 1..i PROVE other[j] \in 1..n /\ d[other[j]] = e[j]
  <2>1. e[j] \in S
    BY <1>1
  <2>2. \E k \in 1..n : d[k] = e[j]
    BY <1>1, <2>1
  <2>3. (CHOOSE k \in 1..n : d[k] = e[j]) \in 1..n /\ d[CHOOSE k \in 1..n : d[k] = e[j]] = e[j]
    BY <2>2
  <2>. QED
    BY <2>3
<1>. HIDE DEF other
<1>3. ASSUME NEW j \in 1..i PROVE other[j] \in 1..(i - 1)
  <2>1. i \in 1..n /\ j \in 1..n /\ (j < i \/ j = i) /\ i \in Nat
    BY <1>1
  <2>. HIDE DEF n
  <2>2. e[i] \in S /\ e[j] \in S /\ d[i] \in S
    BY <1>1, <2>1
  <2>3. Stem[e[i]] \in Nat /\ Stem[e[j]] \in Nat /\ Stem[d[i]] \in Nat
    BY <1>1, <2>2
  <2>4. Stem[e[j]] <= Stem[e[i]]
    BY <1>1, <2>1, <2>3
  <2>5. PICK k \in 1..n : k = other[j] /\ d[k] = e[j]
    BY <1>2
  <2>6. Stem[d[k]] < Stem[d[i]]
    BY <1>0, <2>3, <2>4, <2>5
  <2>7. k < i
    <3>1. CASE i < k
      <4>1. Stem[d[i]] <= Stem[d[k]] /\ Stem[d[k]] \in Nat
        BY <1>1, <2>1, <2>3, <2>5, <3>1
      <4>. QED
        BY <2>3, <2>6, <4>1
    <3>2. CASE i = k
      BY <2>3, <2>6, <3>2
    <3>3. k \in Int /\ i \in Int
      BY <1>1, <2>1
    <3>. QED
      BY <3>1, <3>2, <3>3
  <2>8. k \in 1..(i - 1)
    BY <1>1, <2>1, <2>7
  <2>. QED
    BY <2>5, <2>8
<1>4. other \in [1..i -> 1..(i - 1)]
  BY <1>3 DEF other
<1>5. /\ IsFiniteSet(1..i) /\ Cardinality(1..i) = i
      /\ IsFiniteSet(1..(i - 1)) /\ Cardinality(1..(i - 1)) = i - 1
  <2>1. IsFiniteSet(1..i) /\ Cardinality(1..i) = i
    BY <1>1, FS_Interval
  <2>2. IsFiniteSet(1..(i - 1)) /\ Cardinality(1..(i - 1)) = (IF 1 > i - 1 THEN 0 ELSE (i - 1) - 1 + 1)
    <3>1. i - 1 \in Int
      BY <1>1
    <3>. QED
      BY <3>1, FS_Interval
  <2>. QED
    BY <1>1, <2>1, <2>2
<1>6. PICK x, y \in 1..i : x # y /\ other[x] = other[y]
  <2>1. Cardinality(1..(i - 1)) < Cardinality(1..i)
    BY <1>5
  <2>. QED
    BY <1>4, <1>5, <2>1, FS_PigeonHole, Zenon
<1>7. e[x] = e[y]
  BY <1>2, <1>6
<1>. QED
  BY <1>1, <1>6, <1>7

\* The two lists have the same name at every place.
LEMMA SameNames ==
    ASSUME NEW S \in SUBSET File, NEW e \in Sorted(S), NEW d \in Sorted(S),
           NEW i \in 1..Cardinality(S)
    PROVE  Stem[e[i]] = Stem[d[i]]
<1>1. ~(Stem[e[i]] < Stem[d[i]]) /\ ~(Stem[d[i]] < Stem[e[i]])
  BY NotSmaller
<1>2. e[i] \in S /\ d[i] \in S
  BY SortedList
<1>3. Stem[e[i]] \in Nat /\ Stem[d[i]] \in Nat
  BY <1>2, SortedList
<1>. QED
  BY <1>1, <1>3

\* No other file of S has f's name.
Alone(f, S) == \A g \in S \ {f} : Stem[g] # Stem[f]

\* A file that shares its name with no other has the same place in both.
LEMMA SamePlace ==
    ASSUME NEW S \in SUBSET File, NEW e \in Sorted(S), NEW d \in Sorted(S),
           NEW i \in 1..Cardinality(S), NEW j \in 1..Cardinality(S),
           e[i] = d[j], Alone(e[i], S)
    PROVE  i = j
<1>1. d[i] \in S /\ Stem[d[i]] = Stem[d[j]]
  BY SortedList, SameNames
<1>2. d[i] = d[j]
  BY <1>1 DEF Alone
<1>. QED
  BY <1>2, SortedList

\* Before such a file stand those with smaller names.
LEMMA FilesBefore ==
    ASSUME NEW S \in SUBSET File, NEW e \in Sorted(S), NEW i \in 1..Cardinality(S),
           Alone(e[i], S)
    PROVE  {e[k] : k \in 1..(i - 1)} = {g \in S : Stem[g] < Stem[e[i]]}
<1>. DEFINE n == Cardinality(S)
<1>1. /\ n \in Nat /\ e \in [1..n -> S]
      /\ \A x, y \in 1..n : e[x] = e[y] => x = y
      /\ \A f \in S : \E k \in 1..n : e[k] = f
      /\ \A x, y \in 1..n : x < y => Stem[e[x]] <= Stem[e[y]]
      /\ \A f \in S : Stem[f] \in Nat
  BY SortedList
<1>2. ASSUME NEW k \in 1..(i - 1) PROVE e[k] \in S /\ Stem[e[k]] < Stem[e[i]]
  <2>1. k \in 1..n /\ k < i /\ e[k] \in S /\ e[k] # e[i]
    BY <1>1
  <2>2. Stem[e[k]] <= Stem[e[i]] /\ Stem[e[k]] # Stem[e[i]]
    BY <1>1, <2>1 DEF Alone
  <2>. QED
    BY <1>1, <2>1, <2>2
<1>3. ASSUME NEW g \in S, Stem[g] < Stem[e[i]] PROVE \E k \in 1..(i - 1) : g = e[k]
  <2>1. PICK k \in 1..n : e[k] = g
    BY <1>1
  <2>2. k < i
    BY <1>1, <1>3, <2>1
  <2>. QED
    BY <1>1, <2>1, <2>2
<1>. QED
  BY <1>2, <1>3

-----------------------------------------------------------------------------
(* What the carriers work with.                                            *)

Carriers(config, e) == [i \in DOMAIN e |-> CreateCarrierFile(config, e[i])]

\* The carriers of a sorted list.
LEMMA CarriersOfList ==
    ASSUME NEW S \in SUBSET File, NEW e \in Sorted(S), NEW config
    PROVE  LET c == Carriers(config, e) IN
           /\ DOMAIN c = 1..Cardinality(S)
           /\ \A i \in 1..Cardinality(S) : c[i].file = e[i] /\ c[i].local = CreatePermutation(config, Type[e[i]])
           /\ FilesOf(c) = S
           /\ \A f \in S : Place(c, f) \in 1..Cardinality(S) /\ e[Place(c, f)] = f
<1>. DEFINE c == Carriers(config, e)
            n == Cardinality(S)
<1>1. /\ e \in [1..n -> S]
      /\ \A f \in S : \E i \in 1..n : e[i] = f
  BY SortedList
<1>2. DOMAIN c = 1..n /\ \A i \in 1..n : c[i] = CreateCarrierFile(config, e[i])
  BY <1>1 DEF Carriers
<1>3. \A i \in 1..n : c[i].file = e[i] /\ c[i].local = CreatePermutation(config, Type[e[i]])
  BY <1>2 DEF CreateCarrierFile
<1>. HIDE DEF c, n
<1>4. FilesOf(c) = S
  BY <1>1, <1>2, <1>3 DEF FilesOf
<1>5. ASSUME NEW f \in S PROVE Place(c, f) \in 1..n /\ e[Place(c, f)] = f
  <2>1. \E i \in DOMAIN c : c[i].file = f
    BY <1>1, <1>2, <1>3
  <2>2. Place(c, f) \in DOMAIN c /\ c[Place(c, f)].file = f
    BY <2>1 DEF Place
  <2>. QED
    BY <1>2, <1>3, <2>2
<1>. QED
  BY <1>2, <1>3, <1>4, <1>5 DEF c, n

\* GenerateMasterKey: the order of files with equal names does not show in it.
LEMMA SameMasterKey ==
    ASSUME NEW S \in SUBSET File, NEW e \in Sorted(S), NEW d \in Sorted(S), NEW config, NEW p
    PROVE  MasterKey(p, Carriers(config, e)) = MasterKey(p, Carriers(config, d))
<1>. DEFINE c == Carriers(config, e)
            b == Carriers(config, d)
<1>1. DOMAIN c = 1..Cardinality(S) /\ DOMAIN b = 1..Cardinality(S)
  BY CarriersOfList
<1>2. \A i \in 1..Cardinality(S) : c[i].file = e[i] /\ b[i].file = d[i]
  BY CarriersOfList
<1>3. \A i \in 1..Cardinality(S) : Stem[c[i].file] = Stem[b[i].file]
  BY <1>2, SameNames
<1>. HIDE DEF c, b
<1>4. [i \in DOMAIN c |-> NormalizedPath(c[i].file)] = [i \in DOMAIN b |-> NormalizedPath(b[i].file)]
  BY <1>1, <1>3 DEF NormalizedPath
<1>. QED
  BY <1>4 DEF MasterKey, c, b

\* DeriveSubkeys, LoadVirtualStorage, CreateCarrierFile: key, place, permutations
\* and encoder of such a file do not depend on the order the sort has left.
LEMMA SameTag ==
    ASSUME NEW S \in SUBSET File, NEW e \in Sorted(S), NEW d \in Sorted(S),
           NEW open, NEW load, NEW p, NEW f \in S, Alone(f, S)
    PROVE  LET c == Carriers(open, e)
               b == Carriers(open, d)
           IN  Tag(p, c, load, Place(c, f)) = Tag(p, b, load, Place(b, f))
<1>. DEFINE c == Carriers(open, e)
            b == Carriers(open, d)
            i == Place(c, f)
            j == Place(b, f)
<1>1. /\ i \in 1..Cardinality(S) /\ e[i] = f /\ FilesOf(c) = S
      /\ \A k \in 1..Cardinality(S) : c[k].file = e[k] /\ c[k].local = CreatePermutation(open, Type[e[k]])
  BY CarriersOfList
<1>2. /\ j \in 1..Cardinality(S) /\ d[j] = f /\ FilesOf(b) = S
      /\ \A k \in 1..Cardinality(S) : b[k].file = d[k] /\ b[k].local = CreatePermutation(open, Type[d[k]])
  BY CarriersOfList
<1>. HIDE DEF i, j, c, b
<1>3. i = j
  BY <1>1, <1>2, SamePlace
<1>4. MasterKey(p, c) = MasterKey(p, b)
  BY SameMasterKey DEF c, b
<1>5. Subkey(p, c, i) = Subkey(p, b, j)
  BY <1>1, <1>2, <1>3, <1>4 DEF Subkey
<1>6. c[i].local = b[j].local
  BY <1>1, <1>2
<1>7. {c[k].file : k \in 1..(i - 1)} = {b[k].file : k \in 1..(j - 1)}
  <2>0. Cardinality(S) \in Nat
    BY SortedList
  <2>1. {c[k].file : k \in 1..(i - 1)} = {e[k] : k \in 1..(i - 1)}
    BY <1>1, <2>0
  <2>2. {b[k].file : k \in 1..(j - 1)} = {d[k] : k \in 1..(j - 1)}
    BY <1>2, <2>0
  <2>3. Alone(e[i], S) /\ Alone(d[j], S)
    BY <1>1, <1>2
  <2>4. {e[k] : k \in 1..(i - 1)} = {g \in S : Stem[g] < Stem[f]}
    BY <1>1, <2>3, FilesBefore
  <2>5. {d[k] : k \in 1..(j - 1)} = {g \in S : Stem[g] < Stem[f]}
    BY <1>2, <2>3, FilesBefore
  <2>. QED
    BY <2>1, <2>2, <2>4, <2>5
<1>8. Offset(c, load.encoder, i) = Offset(b, load.encoder, j)
  BY <1>7 DEF Offset
<1>. QED
  BY <1>1, <1>2, <1>5, <1>6, <1>8 DEF Tag, i, j, c, b

-----------------------------------------------------------------------------
(* The inductive invariant.                                                *)

CallsInv == given \in Seq(Configuration) /\ Configured(stego, given)

\* The carriers of an open storage are a sorted list of the files Open found,
\* with the permutations of the configuration it found.
OpenInv ==
    opened =>
        /\ DOMAIN asked = {"password", "filter", "files", "atOpen", "atLoad"}
        /\ password = asked.password
        /\ asked.files \in SUBSET File
        /\ asked.atOpen \in Seq(Configuration)
        /\ \E config : \E e \in Sorted(asked.files) :
               Configured(config, asked.atOpen) /\ carriers = Carriers(config, e)

\* "lay" is what a Load makes of what "a" says was asked for.
LoadedAs(lay, a) ==
    \E open, load : \E e \in Sorted(a.files) :
        /\ Configured(open, a.atOpen)
        /\ Configured(load, a.atLoad)
        /\ lay = LayoutOf(a.password, Carriers(open, e), load)

LayoutInv ==
    opened /\ layout # None => asked.atLoad \in Seq(Configuration) /\ LoadedAs(layout, asked)

\* What the last Save has hidden is still there.
SavedInv ==
    saved # None =>
        /\ saved.asked.files \in SUBSET File
        /\ saved.asked.atOpen \in Seq(Configuration)
        /\ saved.asked.atLoad \in Seq(Configuration)
        /\ \E lay : LoadedAs(lay, saved.asked) /\ \A f \in DOMAIN lay : disk[f] = lay[f]

DirectoryInv == present \subseteq File /\ CallsInv /\ OpenInv /\ LayoutInv /\ SavedInv

\* A fresh process, nothing hidden.
LEMMA InitDirectory == Init => DirectoryInv
<1>1. Init => CallsInv
  <2>1. << >> \in Seq(Configuration)
    OBVIOUS
  <2>. QED
    BY <2>1, FreshIsConfigured DEF Init, CallsInv
<1>. QED
  BY <1>1 DEF Init, DirectoryInv, OpenInv, LayoutInv, SavedInv

\* The Configure calls.
LEMMA ConfigureKeepsDirectory ==
    ASSUME DirectoryInv, NEW call \in Configuration, Configure(call)
    PROVE  DirectoryInv'
<1>1. /\ stego' = ConfigOf(stego, call) /\ given' = Append(given, call)
      /\ UNCHANGED <<storageVars, directoryVars, disk, saved>>
  BY DEF Configure
<1>2. CallsInv'
  <2>1. given \in Seq(Configuration) /\ Configured(stego, given)
    BY DEF DirectoryInv, CallsInv
  <2>2. Configured(ConfigOf(stego, call), Append(given, call))
    BY <2>1, ConfigureContinues
  <2>3. Append(given, call) \in Seq(Configuration)
    BY <2>1
  <2>. QED
    BY <1>1, <2>2, <2>3 DEF CallsInv
<1>3. OpenInv' /\ LayoutInv' /\ SavedInv'
  BY <1>1 DEF DirectoryInv, OpenInv, LayoutInv, SavedInv, storageVars
<1>. QED
  BY <1>1, <1>2, <1>3 DEF DirectoryInv, directoryVars

\* Open reads the whole directory.
LEMMA OpenKeepsDirectory ==
    ASSUME DirectoryInv, NEW p, NEW filter, Open(p, filter)
    PROVE  DirectoryInv'
<1>1. /\ layout' = None /\ password' = p /\ asked' = Asked(p, filter)
      /\ UNCHANGED <<configVars, directoryVars, disk, saved>>
  BY DEF Open
<1>2. PICK e \in Sorted(Wanted(filter)) : carriers' = [i \in DOMAIN e |-> CreateCarrierFile(stego, e[i])]
  BY DEF Open
<1>3. carriers' = Carriers(stego, e)
  BY <1>2 DEF Carriers
<1>4. Wanted(filter) \in SUBSET File
  BY DEF DirectoryInv, Wanted, GetFilesInDir
<1>5. /\ asked'.password = p /\ asked'.files = Wanted(filter) /\ asked'.atOpen = given
      /\ DOMAIN asked' = {"password", "filter", "files", "atOpen", "atLoad"}
  BY <1>1 DEF Asked
<1>6. OpenInv'
  <2>1. \E config : \E d \in Sorted(asked'.files) :
            Configured(config, asked'.atOpen) /\ carriers' = Carriers(config, d)
    BY <1>3, <1>5 DEF DirectoryInv, CallsInv
  <2>. QED
    BY <1>1, <1>4, <1>5, <2>1 DEF DirectoryInv, CallsInv, OpenInv
<1>. QED
  BY <1>1, <1>6 DEF DirectoryInv, CallsInv, LayoutInv, SavedInv, configVars, directoryVars

\* Load lays out what Open has found.
LEMMA LoadMakesLayout ==
    ASSUME DirectoryInv, Load
    PROVE  /\ asked'.files = asked.files /\ asked'.atOpen = asked.atOpen
           /\ asked'.password = asked.password /\ asked'.atLoad = given
           /\ DOMAIN asked' = DOMAIN asked
           /\ given \in Seq(Configuration)
           /\ LoadedAs(layout', asked')
<1>1. /\ opened /\ layout' = LayoutOf(password, carriers, stego)
      /\ asked' = [asked EXCEPT !.atLoad = given]
  BY DEF Load
<1>2. /\ DOMAIN asked = {"password", "filter", "files", "atOpen", "atLoad"}
      /\ password = asked.password
  BY <1>1 DEF DirectoryInv, OpenInv
<1>3. PICK config : \E e \in Sorted(asked.files) :
               Configured(config, asked.atOpen) /\ carriers = Carriers(config, e)
  BY <1>1 DEF DirectoryInv, OpenInv
<1>4. PICK e \in Sorted(asked.files) :
               Configured(config, asked.atOpen) /\ carriers = Carriers(config, e)
  BY <1>3
<1>5. /\ asked'.files = asked.files /\ asked'.atOpen = asked.atOpen
      /\ asked'.password = asked.password /\ asked'.atLoad = given
      /\ DOMAIN asked' = DOMAIN asked
  BY <1>1, <1>2
<1>6. given \in Seq(Configuration) /\ Configured(stego, given)
  BY DEF DirectoryInv, CallsInv
<1>7. layout' = LayoutOf(asked'.password, Carriers(config, e), stego)
  BY <1>1, <1>2, <1>4, <1>5
<1>8. LoadedAs(layout', asked')
  BY <1>4, <1>5, <1>6, <1>7 DEF LoadedAs
<1>. QED
  BY <1>5, <1>6, <1>8

\* Two Loads of what was asked for alike give a file of its own name the same
\* key, place, permutations and encoder.
LEMMA LoadsAgree ==
    ASSUME NEW a, NEW b, NEW one, NEW two, LoadedAs(one, a), LoadedAs(two, b),
           a.files = b.files, a.password = b.password,
           a.atOpen = b.atOpen, a.atLoad = b.atLoad, a.files \in SUBSET File,
           a.atOpen \in Seq(Configuration), a.atLoad \in Seq(Configuration)
    PROVE  DOMAIN one = DOMAIN two /\ DOMAIN one \subseteq a.files
           /\ \A f \in DOMAIN one : Alone(f, a.files) => one[f] = two[f]
<1>1. PICK open, load : \E e \in Sorted(a.files) :
               /\ Configured(open, a.atOpen) /\ Configured(load, a.atLoad)
               /\ one = LayoutOf(a.password, Carriers(open, e), load)
  BY DEF LoadedAs
<1>2. PICK e \in Sorted(a.files) :
               /\ Configured(open, a.atOpen) /\ Configured(load, a.atLoad)
               /\ one = LayoutOf(a.password, Carriers(open, e), load)
  BY <1>1
<1>3. PICK opened2, load2 : \E d \in Sorted(a.files) :
               /\ Configured(opened2, a.atOpen) /\ Configured(load2, a.atLoad)
               /\ two = LayoutOf(a.password, Carriers(opened2, d), load2)
  BY DEF LoadedAs
<1>4. PICK d \in Sorted(a.files) :
               /\ Configured(opened2, a.atOpen) /\ Configured(load2, a.atLoad)
               /\ two = LayoutOf(a.password, Carriers(opened2, d), load2)
  BY <1>3
<1>5. opened2 = open /\ load2 = load
  BY <1>2, <1>4, ConfiguredIsUnique
<1>. DEFINE S == a.files
            p == a.password
            F == {g \in S : Capacity[g][load.encoder] > 0}
<1>6. FilesOf(Carriers(open, e)) = S /\ FilesOf(Carriers(open, d)) = S
  BY CarriersOfList
<1>7. one = [f \in F |-> Tag(p, Carriers(open, e), load, Place(Carriers(open, e), f))]
  BY <1>2, <1>6 DEF LayoutOf
<1>8. two = [f \in F |-> Tag(p, Carriers(open, d), load, Place(Carriers(open, d), f))]
  BY <1>4, <1>5, <1>6 DEF LayoutOf
<1>9. ASSUME NEW f \in F, Alone(f, S) PROVE one[f] = two[f]
  <2>1. Tag(p, Carriers(open, e), load, Place(Carriers(open, e), f))
            = Tag(p, Carriers(open, d), load, Place(Carriers(open, d), f))
    BY <1>9, SameTag
  <2>. QED
    BY <1>7, <1>8, <2>1
<1>10. DOMAIN one = F /\ DOMAIN two = F
  BY <1>7, <1>8
<1>. HIDE DEF F
<1>11. F \subseteq S
  BY DEF F
<1>. QED
  BY <1>9, <1>10, <1>11

\* Every step.
LEMMA NextKeepsDirectory == DirectoryInv /\ [Next]_vars => DirectoryInv'
<1>. SUFFICES ASSUME DirectoryInv, [Next]_vars PROVE DirectoryInv'
  OBVIOUS
<1>1. ASSUME NEW config \in Requests, Configure(config) PROVE DirectoryInv'
  <2>1. config \in Configuration
    BY DEF Configuration
  <2>. QED
    BY <1>1, <2>1, ConfigureKeepsDirectory
<1>2. ASSUME NEW call \in EnumCalls, ConfigureEnum(call[1], call[2], call[3]) PROVE DirectoryInv'
  <2>. DEFINE config == [encoder |-> call[1], global_perm |-> call[2], local_perm |-> call[3]]
  <2>1. config \in Configuration
    BY DEF Configuration
  <2>2. Configure(config)
    BY <1>2 DEF ConfigureEnum
  <2>. HIDE DEF config
  <2>. QED
    BY <2>1, <2>2, ConfigureKeepsDirectory
<1>3. ASSUME NEW p \in Passwords, NEW filter \in Filters, Open(p, filter) PROVE DirectoryInv'
  BY <1>3, OpenKeepsDirectory
<1>4. ASSUME NEW p \in Passwords, NEW filter \in Filters, OpenThrow(p, filter) PROVE DirectoryInv'
  BY <1>4 DEF OpenThrow, DirectoryInv, CallsInv, OpenInv, LayoutInv, SavedInv, configVars, directoryVars
<1>5. CASE Load
  <2>1. UNCHANGED <<opened, password, carriers, configVars, directoryVars, disk, saved>> /\ opened
    BY <1>5 DEF Load
  <2>2. OpenInv'
    BY <1>5, <2>1, LoadMakesLayout DEF DirectoryInv, OpenInv
  <2>3. LayoutInv'
    BY <1>5, LoadMakesLayout DEF LayoutInv
  <2>. QED
    BY <2>1, <2>2, <2>3 DEF DirectoryInv, CallsInv, SavedInv, configVars, directoryVars
<1>6. CASE Save
  <2>1. /\ opened /\ layout # None /\ disk' = [f \in File |-> IF f \in DOMAIN layout THEN layout[f] ELSE disk[f]]
        /\ saved' = [asked |-> asked, saves |-> Saves + 1]
        /\ UNCHANGED <<configVars, storageVars, directoryVars>>
    BY <1>6 DEF Save
  <2>2. saved'.asked = asked
    BY <2>1
  <2>3. \A f \in DOMAIN layout : disk'[f] = layout[f]
    <3>1. DOMAIN layout \subseteq asked.files /\ asked.files \subseteq File
      BY <2>1, LoadsAgree DEF DirectoryInv, OpenInv, LayoutInv
    <3>. QED
      BY <2>1, <3>1
  <2>4. SavedInv'
    BY <2>1, <2>2, <2>3 DEF DirectoryInv, OpenInv, LayoutInv, SavedInv
  <2>. QED
    BY <2>1, <2>4 DEF DirectoryInv, CallsInv, OpenInv, LayoutInv, configVars, storageVars, directoryVars
<1>7. CASE Restart
  <2>1. CallsInv'
    <3>1. << >> \in Seq(Configuration)
      OBVIOUS
    <3>. QED
      BY <1>7, <3>1, FreshIsConfigured DEF Restart, CallsInv
  <2>. QED
    BY <1>7, <2>1 DEF Restart, DirectoryInv, OpenInv, LayoutInv, SavedInv, directoryVars
<1>8. ASSUME NEW f \in File, MoveFile(f) \/ Respell(f) PROVE DirectoryInv'
  <2>1. UNCHANGED <<configVars, storageVars, disk, saved>> /\ present' \subseteq File
    BY <1>8 DEF DirectoryInv, MoveFile, Respell
  <2>. QED
    BY <2>1 DEF DirectoryInv, CallsInv, OpenInv, LayoutInv, SavedInv, configVars, storageVars
<1>9. CASE UNCHANGED vars
  BY <1>9 DEF vars, DirectoryInv, CallsInv, OpenInv, LayoutInv, SavedInv, configVars, storageVars,
              directoryVars
<1>10. Moved \subseteq File /\ Respelled \subseteq File
  BY DirectoryAssumption
<1>. QED
  BY <1>1, <1>2, <1>3, <1>4, <1>5, <1>6, <1>7, <1>8, <1>9, <1>10 DEF Next

\* Carriers, layout and disk are at every step what the calls since the start of
\* the process, the last Open and the last Save make of them.
THEOREM DirectoryInvariant == Spec => []DirectoryInv
BY InitDirectory, NextKeepsDirectory, PTL DEF Spec

-----------------------------------------------------------------------------
(* What it promises.                                                       *)

\* The storage is never open with some of the carriers of its directory, or with
\* the carriers of another one, also after an Open that threw (LoadDirectory).
THEOREM OpenStorageIsWhole == Spec => []OpenedIsWhole
<1>1. DirectoryInv => OpenedIsWhole
  <2>. SUFFICES ASSUME DirectoryInv, opened
                PROVE  /\ Files = asked.files
                       /\ \A i, j \in DOMAIN carriers :
                              i < j => Stem[carriers[i].file] <= Stem[carriers[j].file]
    BY DEF OpenedIsWhole
  <2>1. PICK config : \E e \in Sorted(asked.files) : carriers = Carriers(config, e)
    BY DEF DirectoryInv, OpenInv
  <2>2. PICK e \in Sorted(asked.files) : carriers = Carriers(config, e)
    BY <2>1
  <2>3. asked.files \in SUBSET File
    BY DEF DirectoryInv, OpenInv
  <2>. DEFINE S == asked.files
  <2>4. /\ DOMAIN carriers = 1..Cardinality(S) /\ FilesOf(carriers) = S
        /\ \A i \in 1..Cardinality(S) : carriers[i].file = e[i]
    BY <2>2, <2>3, CarriersOfList
  <2>5. \A i, j \in 1..Cardinality(S) : i < j => Stem[e[i]] <= Stem[e[j]]
    BY <2>3, SortedList
  <2>. QED
    BY <2>4, <2>5 DEF Files
<1>. QED
  BY <1>1, DirectoryInvariant, PTL

\* A volume is found again: after any way back to the same files with the same
\* password and the same Configure calls, a file of its own name is read with the
\* key, the place, the permutations and the encoder it was written with.
THEOREM VolumeIsFoundAgain == Spec => UntiedFilesAreFound
<1>. DEFINE Found ==
       (Loads /\ saved # None /\ Files = saved.asked.files
        /\ asked'.password = saved.asked.password
        /\ asked'.atOpen = saved.asked.atOpen /\ asked'.atLoad = saved.asked.atLoad)
       => \A f \in DOMAIN layout' : Tied(f) \/ disk[f] = layout'[f]
<1>1. DirectoryInv /\ OpenedIsWhole /\ [Next]_vars => [Found]_vars
  <2>. SUFFICES ASSUME DirectoryInv, OpenedIsWhole, Next, Loads, saved # None,
                       Files = saved.asked.files,
                       asked'.password = saved.asked.password,
                       asked'.atOpen = saved.asked.atOpen, asked'.atLoad = saved.asked.atLoad,
                       NEW f \in DOMAIN layout'
                PROVE  Tied(f) \/ disk[f] = layout'[f]
    OBVIOUS
  <2>1. Load
    BY DEF Loads, Next, Configure, ConfigureEnum, Open, OpenThrow, Save, Restart, MoveFile, Respell,
           storageVars
  <2>2. Files = asked.files
    BY <2>1 DEF OpenedIsWhole, Load
  <2>3. asked'.files = saved.asked.files /\ LoadedAs(layout', asked')
    BY <2>1, <2>2, LoadMakesLayout
  <2>4. PICK lay : LoadedAs(lay, saved.asked) /\ \A g \in DOMAIN lay : disk[g] = lay[g]
    BY DEF DirectoryInv, SavedInv
  <2>5. /\ saved.asked.files \in SUBSET File
        /\ saved.asked.atOpen \in Seq(Configuration) /\ saved.asked.atLoad \in Seq(Configuration)
    BY DEF DirectoryInv, SavedInv
  <2>. DEFINE a == saved.asked
              b == asked'
              two == layout'
  <2>6. /\ DOMAIN lay = DOMAIN two /\ DOMAIN lay \subseteq a.files
        /\ \A g \in DOMAIN lay : Alone(g, a.files) => lay[g] = two[g]
    <3>1. LoadedAs(lay, a) /\ LoadedAs(two, b)
      BY <2>3, <2>4
    <3>2. /\ a.files = b.files /\ a.password = b.password
          /\ a.atOpen = b.atOpen /\ a.atLoad = b.atLoad
      BY <2>3
    <3>3. /\ a.files \in SUBSET File
          /\ a.atOpen \in Seq(Configuration) /\ a.atLoad \in Seq(Configuration)
      BY <2>5
    <3>. HIDE DEF a, b, two
    <3>. QED
      BY <3>1, <3>2, <3>3, LoadsAgree
  <2>7. ASSUME ~Tied(f) PROVE Alone(f, a.files)
    BY <2>7 DEF Tied, Alone, NormalizedPath
  <2>. QED
    BY <2>4, <2>6, <2>7
<1>. QED
  BY <1>1, DirectoryInvariant, OpenStorageIsWhole, PTL DEF UntiedFilesAreFound, Spec

=============================================================================
