------------------------ MODULE StorageLayoutProofs ------------------------
(***************************************************************************)
(* For any number of carriers, any capacities, block size and permutation: *)
(* the layout of StorageLayout.tla gives every byte of the storage to      *)
(* exactly one carrier, within the room this carrier has; during a Load no *)
(* cell is written twice, so the result does not depend on the schedule,   *)
(* and a Load that returns has written all of them; and it reads what the  *)
(* last Save has stored.                                                   *)
(***************************************************************************)
EXTENDS StorageLayout, TLAPS

-----------------------------------------------------------------------------
(* The arithmetic of AddToVirtualStorage.                                  *)

\* Whole blocks for "used" bytes: enough, and no more than a carrier has that
\* has room for "used" bytes in b blocks.
LEMMA BlocksForFits ==
    ASSUME NEW used \in Nat, NEW b \in Nat, used <= b * DataBlock
    PROVE  /\ BlocksFor(used) \in Nat
           /\ used <= BlocksFor(used) * DataBlock
           /\ BlocksFor(used) * DataBlock <= b * DataBlock
<1>. DataBlock \in Nat \ {0}
  BY LayoutAssumption
<1>1. CASE used = 0
  BY <1>1 DEF BlocksFor
<1>2. CASE used # 0
  <2>. DEFINE q == (used - 1) \div DataBlock
  <2>1. q \in Nat /\ q * DataBlock <= used - 1 /\ used - 1 < q * DataBlock + DataBlock
    BY <1>2
  <2>2. q + 1 <= b
    <3>1. SUFFICES ASSUME q >= b PROVE FALSE
      BY <2>1
    <3>2. q * DataBlock >= b * DataBlock
      BY <2>1, <3>1
    <3>. QED
      BY <2>1, <3>2, <1>2
  <2>3. (q + 1) * DataBlock = q * DataBlock + DataBlock
    BY <2>1
  <2>4. (q + 1) * DataBlock <= b * DataBlock
    BY <2>1, <2>2
  <2>. QED
    BY <2>1, <2>3, <2>4, <1>2 DEF BlocksFor
<1>. QED
  BY <1>1, <1>2
-----------------------------------------------------------------------------
(* Types of the operators.                                                 *)

\* The types of the constants, from LayoutAssumption.
LEMMA ConstantTypes ==
    /\ N \in Nat \ {0} /\ DataBlock \in Nat \ {0} /\ HashLength \in Nat
    /\ MaxWrites \in Nat /\ BlockCounts \subseteq Nat
BY LayoutAssumption

\* Capacities are numbers of bytes.
LEMMA CapacityType ==
    ASSUME TypeOK, NEW f \in File
    PROVE  Capacity(f) \in Nat /\ UsedBytes(f) \in Nat /\ blockCount[f] \in Nat
<1>1. blockCount[f] \in Nat /\ blocksUsed[f] \in Nat
  BY ConstantTypes DEF TypeOK
<1>. QED
  BY <1>1, ConstantTypes DEF Capacity, UsedBytes

-----------------------------------------------------------------------------
(* Initial states.                                                         *)

\* The initial state: no storage.
LEMMA InitLayout == Init => LayoutInv
<1>. SUFFICES ASSUME Init PROVE LayoutInv
  OBVIOUS
<1>0. \A f \in File : Capacity(f) \in Nat
  <2>1. \A f \in File : blockCount[f] \in Nat
    BY ConstantTypes DEF Init
  <2>. QED
    BY <2>1, ConstantTypes DEF Capacity
<1>1. TypeOK
  <2>1. \A f \in File : carrier[f] \in [0..(Capacity(f) - 1) -> StorageByte]
    <3>. SUFFICES ASSUME NEW f \in File
                  PROVE  carrier[f] \in [0..(Capacity(f) - 1) -> StorageByte]
      OBVIOUS
    <3>1. carrier[f] = [k \in 0..(Capacity(f) - 1) |-> <<f, k>>]
      BY DEF Init
    <3>2. \A k \in 0..(Capacity(f) - 1) : <<f, k>> \in StorageByte
      BY <1>0 DEF StorageByte, CarrierByte
    <3>. QED
      BY <3>1, <3>2
  <2>2. data \in [0..(raw - 1) -> StorageByte]
    BY DEF Init, StorageByte
  <2>3. DOMAIN carrier = File
    BY DEF Init
  <2>. QED
    BY <2>1, <2>2, <2>3, ConstantTypes DEF Init, TypeOK
<1>2. Summed = {}
  BY DEF Init, Summed
<1>. QED
  BY <1>1, <1>2 DEF Init, LayoutInv, SumsInv, StorageInv, LoopInv, PlacementInv, Running

-----------------------------------------------------------------------------
(* Steps that leave the sums, or the whole layout, alone.                  *)

\* The sums depend on nothing but the capacities.
LEMMA SumsKept ==
    ASSUME SumsInv, TypeOK, Summed' = Summed, UNCHANGED <<capacity, start, blockCount>>
    PROVE  SumsInv'
<1>1. \A f \in File : Capacity(f)' = Capacity(f) /\ End(f)' = End(f)
  BY DEF Capacity, End
<1>2. Summed \subseteq File
  BY ConstantTypes DEF Summed, TypeOK, File
<1>. QED
  BY <1>1, <1>2 DEF SumsInv

\* Steps after the layout loop.
LEMMA LayoutKept ==
    ASSUME LayoutInv, TypeOK',
           UNCHANGED <<i, capacity, start, blockCount, layoutVars>>,
           pc \notin {"apply", "permute", "layout"},
           pc' \notin {"apply", "permute", "layout"},
           pc' \in {"load", "loaded", "save", "saved"} => \A f \in File : Placed(f),
           (\E f \in File : Running(f)') => \A f \in File : Placed(f)
    PROVE  LayoutInv'
<1>1. Summed' = Summed
  BY DEF Summed, TypeOK
<1>2. \A f \in File : Capacity(f)' = Capacity(f) /\ UsedBytes(f)' = UsedBytes(f) /\ Placed(f)' = Placed(f)
  BY DEF Capacity, UsedBytes, Placed, layoutVars
<1>3. SumsInv'
  BY <1>1, SumsKept DEF LayoutInv
<1>4. StorageInv'
  BY DEF LayoutInv, StorageInv, layoutVars
<1>5. LoopInv'
  BY DEF LoopInv
<1>6. PlacementInv'
  BY <1>2 DEF PlacementInv
<1>. QED
  BY <1>3, <1>4, <1>5, <1>6 DEF LayoutInv

-----------------------------------------------------------------------------
(* ApplyEncoder appends an interval to those summed so far.                *)

\* ApplyEncoder adds one carrier to the sum.
LEMMA ApplyEncoderKeepsLayout == LayoutInv /\ ApplyEncoder => LayoutInv'
<1>. SUFFICES ASSUME LayoutInv, ApplyEncoder PROVE LayoutInv'
  OBVIOUS
<1>. USE ConstantTypes
<1>0. PICK k \in 1..N : k = i
  BY DEF LayoutInv, TypeOK, ApplyEncoder
<1>1. TypeOK /\ pc = "apply" /\ pc' = "apply" /\ i = k /\ i' = k + 1 /\ k \in File
  BY <1>0 DEF LayoutInv, ApplyEncoder, File
<1>2. Capacity(k) \in Nat /\ capacity \in Nat /\ start \in [File -> Nat]
  BY <1>1, CapacityType DEF TypeOK
<1>3. capacity' = capacity + Capacity(k) /\ start' = [start EXCEPT ![k] = capacity]
  BY <1>0 DEF ApplyEncoder
<1>4. \A f \in File : Capacity(f)' = Capacity(f) /\ Capacity(f) \in Nat
  BY <1>1, CapacityType DEF ApplyEncoder, Capacity
<1>5. TypeOK'
  <2>1. \A f \in File : (carrier[f] \in [0..(Capacity(f) - 1) -> StorageByte])'
    BY <1>1, <1>4 DEF TypeOK, ApplyEncoder
  <2>2. capacity' \in Nat /\ i' \in 1..(N + 1) /\ start' \in [File -> Nat]
    BY <1>1, <1>2, <1>3
  <2>3. UNCHANGED <<pc, blockCount, layoutVars, taskVars, data, carrier, writes>>
    BY DEF ApplyEncoder
  <2>. QED
    BY <1>1, <2>1, <2>2, <2>3 DEF TypeOK, layoutVars, taskVars
<1>6. Summed = 1..(k - 1) /\ Summed' = 1..k
  BY <1>1 DEF Summed
<1>7. /\ \A f \in 1..(k - 1) : start'[f] = start[f] /\ End(f)' = End(f)
      /\ start'[k] = capacity /\ End(k)' = capacity + Capacity(k)
  <2>1. \A f \in File : f # k => start'[f] = start[f]
    BY <1>2, <1>3
  <2>2. start'[k] = capacity
    BY <1>1, <1>2, <1>3
  <2>3. \A f \in File : End(f)' = start'[f] + Capacity(f) /\ End(f) = start[f] + Capacity(f)
    BY <1>4 DEF End
  <2>4. \A f \in 1..(k - 1) : f \in File /\ f # k
    BY <1>1 DEF File
  <2>. QED
    BY <1>1, <2>1, <2>2, <2>3, <2>4
<1>8. \A f \in 1..(k - 1) : start[f] \in Nat /\ End(f) \in Nat /\ End(f) <= capacity
  <2>. SUFFICES ASSUME NEW f \in 1..(k - 1)
                PROVE  start[f] \in Nat /\ End(f) \in Nat /\ End(f) <= capacity
    OBVIOUS
  <2>1. f \in File
    BY DEF File
  <2>2. start[f] \in Nat /\ Capacity(f) \in Nat
    BY <1>2, <1>4, <2>1
  <2>3. End(f) <= capacity
    BY <1>6 DEF LayoutInv, SumsInv
  <2>. QED
    BY <2>2, <2>3 DEF End
<1>9. SumsInv'
  <2>. USE <1>6
  <2>1. ASSUME NEW f \in 1..k, NEW g \in 1..k, f < g PROVE End(f)' <= start'[g]
    BY <1>7, <1>8, <2>1 DEF LayoutInv, SumsInv
  <2>2. ASSUME NEW f \in 1..k PROVE End(f)' <= capacity'
    BY <1>2, <1>3, <1>7, <1>8
  <2>3. ASSUME NEW f \in 1..k, f + 1 \in 1..k PROVE start'[f + 1] = End(f)'
    <3>1. CASE f + 1 = k
      BY <1>7, <3>1 DEF LayoutInv, SumsInv
    <3>2. CASE f + 1 # k
      BY <1>7, <2>3, <3>2 DEF LayoutInv, SumsInv
    <3>. QED
      BY <3>1, <3>2
  <2>4. ASSUME NEW f \in 1..k, f + 1 \notin 1..k PROVE capacity' = End(f)'
    BY <1>3, <1>7, <2>4
  <2>5. start'[1] = 0
    <3>1. CASE k = 1
      BY <1>7, <3>1 DEF LayoutInv, SumsInv
    <3>2. CASE k # 1
      BY <1>7, <3>2 DEF LayoutInv, SumsInv
    <3>. QED
      BY <3>1, <3>2
  <2>6. ASSUME NEW x \in 0..(capacity' - 1)
        PROVE  \E f \in 1..k : start'[f] <= x /\ x < End(f)'
    <3>1. CASE x < capacity
      <4>1. PICK f \in 1..(k - 1) : start[f] <= x /\ x < End(f)
        BY <1>2, <3>1 DEF LayoutInv, SumsInv
      <4>. QED
        BY <1>7, <4>1
    <3>2. CASE x >= capacity
      BY <1>2, <1>3, <1>7, <3>2
    <3>. QED
      BY <1>2, <3>1, <3>2
  <2>. QED
    BY <2>1, <2>2, <2>3, <2>4, <2>5, <2>6 DEF SumsInv
<1>10. StorageInv'
  BY <1>2, <1>3 DEF LayoutInv, TypeOK, StorageInv, ApplyEncoder, layoutVars
<1>11. LoopInv' /\ PlacementInv'
  BY <1>1 DEF LayoutInv, LoopInv, PlacementInv, ApplyEncoder, taskVars, Running
<1>. QED
  BY <1>5, <1>9, <1>10, <1>11 DEF LayoutInv

\* The end of the loop of ApplyEncoder.
LEMMA ApplyEncoderEndKeepsLayout == LayoutInv /\ ApplyEncoderEnd => LayoutInv'
<1>. SUFFICES ASSUME LayoutInv, ApplyEncoderEnd PROVE LayoutInv'
  OBVIOUS
<1>1. /\ TypeOK /\ pc = "apply" /\ i = N + 1 /\ pc' \in {"failed", "permute"}
      /\ UNCHANGED <<i, capacity, start, blockCount, layoutVars, taskVars, data, carrier, writes>>
  BY DEF LayoutInv, ApplyEncoderEnd
<1>2. TypeOK'
  BY <1>1 DEF TypeOK, layoutVars, taskVars, Capacity
<1>3. SumsInv'
  <2>1. Summed' = Summed
    BY <1>1, ConstantTypes DEF Summed, File
  <2>. QED
    BY <1>1, <2>1, SumsKept DEF LayoutInv
<1>. QED
  BY <1>1, <1>2, <1>3
  DEF LayoutInv, StorageInv, LoopInv, PlacementInv, layoutVars, taskVars, Running

-----------------------------------------------------------------------------
(* ApplyPermutation cuts the storage off somewhere.                        *)

\* The refusals of ApplyPermutation.
LEMMA TooSmallKeepsLayout ==
    ASSUME LayoutInv, NEW p \in GlobalPerms, ApplyPermutationTooSmall(p)
    PROVE  LayoutInv'
<1>1. /\ TypeOK /\ pc = "permute" /\ pc' = "failed" /\ gperm' = p
      /\ UNCHANGED <<i, capacity, start, blockCount, raw, offset, remaining,
                     vsOffset, blocksUsed, taskVars, data, carrier, writes>>
  BY DEF LayoutInv, ApplyPermutationTooSmall
<1>2. TypeOK'
  BY <1>1 DEF TypeOK, taskVars, Capacity
<1>3. SumsInv'
  <2>1. Summed' = Summed
    BY <1>1 DEF Summed
  <2>. QED
    BY <1>1, <2>1, SumsKept DEF LayoutInv
<1>4. StorageInv'
  <2>1. gperm = NoPerm \/ gperm = p
    BY DEF ApplyPermutationTooSmall, Selectable
  <2>. QED
    BY <1>1, <2>1, LayoutAssumption DEF LayoutInv, StorageInv
<1>. QED
  BY <1>1, <1>2, <1>3, <1>4 DEF LayoutInv, LoopInv, PlacementInv, taskVars, Running

\* ApplyPermutation makes a storage not larger than the sum.
LEMMA ApplyPermutationKeepsLayout ==
    ASSUME LayoutInv, NEW p \in GlobalPerms, ApplyPermutation(p)
    PROVE  LayoutInv'
<1>1. /\ TypeOK /\ pc = "permute" /\ pc' = "layout" /\ i' = 1 /\ gperm' = p
      /\ raw' = p.size /\ offset' = 0 /\ remaining' = p.size
      /\ data' = [c \in 0..(p.size - 1) |-> Uninit]
      /\ p.size <= capacity
      /\ UNCHANGED <<capacity, start, blockCount, vsOffset, blocksUsed, taskVars, carrier, writes>>
  BY DEF LayoutInv, ApplyPermutation, Selectable
<1>2. p.size \in Nat /\ capacity \in Nat
  BY <1>1, PermAssumption DEF TypeOK
<1>3. TypeOK'
  <2>1. data' \in [0..(raw' - 1) -> StorageByte]
    BY <1>1 DEF StorageByte
  <2>2. 1 \in 1..(N + 1)
    BY ConstantTypes
  <2>. QED
    BY <1>1, <1>2, <2>1, <2>2 DEF TypeOK, taskVars, Capacity
<1>4. Summed = File /\ Summed' = File
  BY <1>1 DEF Summed
<1>5. SumsInv'
  BY <1>1, <1>4, SumsKept DEF LayoutInv
<1>6. StorageInv'
  BY <1>1, <1>2 DEF StorageInv
<1>7. LoopInv'
  <2>1. start[1] = 0
    BY <1>4, ConstantTypes DEF LayoutInv, SumsInv, File
  <2>. QED
    BY <1>1, <1>2, <2>1, ConstantTypes DEF LoopInv
<1>8. PlacementInv'
  BY <1>1 DEF LayoutInv, PlacementInv, taskVars, Running
<1>. QED
  BY <1>3, <1>5, <1>6, <1>7, <1>8 DEF LayoutInv

-----------------------------------------------------------------------------
(* AddToVirtualStorage places one carrier.                                 *)

\* One carrier takes its interval, after those before it.
LEMMA AddKeepsLayout == LayoutInv /\ AddToVirtualStorage => LayoutInv'
<1>. SUFFICES ASSUME LayoutInv, AddToVirtualStorage PROVE LayoutInv'
  OBVIOUS
<1>. USE ConstantTypes
<1>0. PICK k \in 1..N : k = i
  BY DEF LayoutInv, TypeOK, AddToVirtualStorage
<1>1. /\ TypeOK /\ pc = "layout" /\ pc' = "layout" /\ i = k /\ i' = k + 1 /\ k \in File
      /\ vsOffset' = [vsOffset EXCEPT ![k] = offset]
      /\ blocksUsed' = [blocksUsed EXCEPT ![k] = BlocksFor(BytesUsed(k))]
      /\ remaining' = remaining - BytesUsed(k)
      /\ offset' = offset + Capacity(k)
      /\ UNCHANGED <<capacity, start, blockCount, gperm, raw, taskVars, data, carrier, writes>>
  BY <1>0 DEF LayoutInv, AddToVirtualStorage, File
<1>2. /\ Capacity(k) \in Nat /\ blockCount[k] \in Nat /\ remaining \in Nat
      /\ offset \in Nat /\ raw \in Nat /\ capacity \in Nat /\ start[k] \in Nat
      /\ vsOffset \in [File -> Nat] /\ blocksUsed \in [File -> Nat]
  BY <1>1, CapacityType DEF TypeOK
<1>3. /\ BytesUsed(k) \in Nat /\ BytesUsed(k) <= Capacity(k) /\ BytesUsed(k) <= remaining
      /\ BytesUsed(k) = Capacity(k) \/ BytesUsed(k) = remaining
  BY <1>2 DEF BytesUsed
<1>4. LET blocks == BlocksFor(BytesUsed(k)) IN
      /\ blocks \in Nat
      /\ BytesUsed(k) <= blocks * DataBlock
      /\ blocks * DataBlock <= Capacity(k)
  BY <1>2, <1>3, BlocksForFits DEF Capacity
<1>5. TypeOK'
  <2>1. vsOffset' \in [File -> Nat] /\ blocksUsed' \in [File -> Nat]
    BY <1>1, <1>2, <1>4
  <2>2. remaining' \in Nat /\ offset' \in Nat /\ i' \in 1..(N + 1)
    BY <1>1, <1>2, <1>3
  <2>. QED
    BY <1>1, <2>1, <2>2 DEF TypeOK, taskVars, Capacity
<1>6. Summed = File /\ Summed' = File
  BY <1>1 DEF Summed
<1>7. SumsInv'
  BY <1>1, <1>6, SumsKept DEF LayoutInv
<1>8. StorageInv'
  BY <1>1 DEF LayoutInv, StorageInv
<1>9. /\ offset = start[k]
      /\ remaining = (IF offset < raw THEN raw - offset ELSE 0)
      /\ \A f \in 1..(k - 1) : Placed(f)
  BY <1>1 DEF LayoutInv, LoopInv
<1>10. offset' = IF i' = N + 1 THEN capacity' ELSE start'[i']
  <2>1. offset' = End(k)
    BY <1>1, <1>9 DEF End
  <2>2. CASE k = N
    BY <1>1, <1>6, <2>1, <2>2 DEF LayoutInv, SumsInv, File
  <2>3. CASE k # N
    BY <1>1, <1>6, <2>1, <2>3 DEF LayoutInv, SumsInv, File
  <2>. QED
    BY <2>2, <2>3
<1>11. remaining' = IF offset' < raw' THEN raw' - offset' ELSE 0
  BY <1>1, <1>2, <1>9 DEF BytesUsed
<1>12. ASSUME NEW f \in 1..k PROVE Placed(f)'
  <2>1. f \in File /\ Capacity(f)' = Capacity(f)
    BY <1>1 DEF File, Capacity
  <2>2. CASE f = k
    <3>1. UsedBytes(f)' = BlocksFor(BytesUsed(k)) * DataBlock
      BY <1>1, <1>2, <1>4, <2>2 DEF UsedBytes
    <3>2. vsOffset'[f] = start'[f]
      BY <1>1, <1>2, <1>9, <2>2
    <3>3. UsedBytes(f)' < Capacity(f) => raw <= start[f] + UsedBytes(f)'
      BY <1>2, <1>3, <1>4, <1>9, <2>2, <3>1
    <3>. QED
      BY <1>1, <1>4, <2>1, <2>2, <3>1, <3>2, <3>3 DEF Placed
  <2>3. CASE f # k
    <3>1. vsOffset'[f] = vsOffset[f] /\ UsedBytes(f)' = UsedBytes(f)
      BY <1>1, <1>2, <2>1, <2>3 DEF UsedBytes
    <3>. QED
      BY <1>1, <1>9, <2>1, <2>3, <3>1 DEF Placed
  <2>. QED
    BY <2>2, <2>3
<1>13. LoopInv'
  BY <1>1, <1>10, <1>11, <1>12 DEF LoopInv
<1>14. PlacementInv'
  BY <1>1 DEF LayoutInv, PlacementInv, taskVars, Running
<1>. QED
  BY <1>5, <1>7, <1>8, <1>13, <1>14 DEF LayoutInv

\* The tasks start when every carrier has its interval.
LEMMA EnqueueLoadsKeepsLayout == LayoutInv /\ EnqueueLoads => LayoutInv'
<1>. SUFFICES ASSUME LayoutInv, EnqueueLoads PROVE LayoutInv'
  OBVIOUS
<1>1. /\ TypeOK /\ pc = "layout" /\ pc' = "load" /\ i = N + 1
      /\ task' = [f \in File |-> "load"] /\ done' = [f \in File |-> 0]
      /\ UNCHANGED <<i, capacity, start, blockCount, layoutVars, loaded, data, carrier, writes>>
  BY DEF LayoutInv, EnqueueLoads
<1>2. TypeOK'
  BY <1>1 DEF TypeOK, layoutVars, Capacity
<1>3. Summed = File /\ Summed' = File
  BY <1>1 DEF Summed
<1>4. SumsInv'
  BY <1>1, <1>3, SumsKept DEF LayoutInv
<1>5. \A f \in File : Placed(f)'
  <2>1. ASSUME NEW f \in File PROVE Placed(f)
    BY <1>1, ConstantTypes DEF LayoutInv, LoopInv, File
  <2>2. ASSUME NEW f \in File PROVE Placed(f)' = Placed(f)
    BY <1>1 DEF Placed, UsedBytes, Capacity, layoutVars
  <2>. QED
    BY <2>1, <2>2
<1>. QED
  BY <1>1, <1>2, <1>4, <1>5 DEF LayoutInv, StorageInv, LoopInv, PlacementInv, layoutVars

-----------------------------------------------------------------------------
(* The tasks, and the rest of Load and Save.                               *)

\* A position inside the storage is permuted to a cell of the storage.
LEMMA CellInStorage ==
    ASSUME LayoutInv, NEW f \in File, InStorage(Position(f))
    PROVE  Cell(Position(f)) \in 0..(raw - 1)
<1>1. Position(f) \in Nat /\ raw \in Nat
  BY DEF LayoutInv, TypeOK, Position
<1>2. Position(f) \in 0..(raw - 1)
  BY <1>1 DEF InStorage
<1>3. gperm \in GlobalPerms /\ raw = gperm.size
  BY <1>1, <1>2 DEF LayoutInv, StorageInv
<1>. QED
  BY <1>2, <1>3, PermAssumption DEF Cell

\* The steps of tasks keep the types.
LEMMA TaskTypes ==
    ASSUME LayoutInv, NEW f \in File, Task(f), Placed(f), Running(f)
    PROVE  TypeOK'
<1>1. TypeOK /\ UNCHANGED <<callVars, blockCount, layoutVars, writes>>
  BY DEF LayoutInv, Task, LoadNothing, ExtractByte, ExtractEnd, EmbedNothing, EmbedByte, EmbedEnd
<1>2. /\ task' \in [File -> {"none", "load", "save", "ok", "threw"}]
      /\ loaded' \in [File -> BOOLEAN]
      /\ done' \in [File -> Nat]
  <2>1. CASE LoadNothing(f)
    BY <1>1, <2>1 DEF TypeOK, LoadNothing
  <2>2. CASE ExtractByte(f) \/ EmbedByte(f)
    <3>1. done' = [done EXCEPT ![f] = done[f] + 1] /\ UNCHANGED <<task, loaded>>
      BY <2>2 DEF ExtractByte, EmbedByte
    <3>. QED
      BY <1>1, <3>1 DEF TypeOK
  <2>3. CASE ExtractEnd(f)
    BY <1>1, <2>3 DEF TypeOK, ExtractEnd
  <2>4. CASE EmbedNothing(f) \/ EmbedEnd(f)
    BY <1>1, <2>4 DEF TypeOK, EmbedNothing, EmbedEnd
  <2>. QED
    BY <2>1, <2>2, <2>3, <2>4 DEF Task
<1>3. \A g \in File : Capacity(g)' = Capacity(g)
  BY <1>1 DEF Capacity
<1>4. /\ Capacity(f) \in Nat /\ UsedBytes(f) \in Nat /\ UsedBytes(f) <= Capacity(f)
      /\ done[f] \in Nat
      /\ carrier[f] \in [0..(Capacity(f) - 1) -> StorageByte]
      /\ data \in [0..(raw - 1) -> StorageByte]
  BY <1>1, CapacityType DEF TypeOK, Placed
<1>5. data' \in [0..(raw - 1) -> StorageByte]
  <2>1. CASE ExtractByte(f)
    <3>1. carrier[f][done[f]] \in StorageByte
      BY <1>4, <2>1 DEF ExtractByte
    <3>2. data' = data \/ data' = [data EXCEPT ![Cell(Position(f))] = carrier[f][done[f]]]
      BY <2>1 DEF ExtractByte
    <3>. QED
      BY <1>4, <3>1, <3>2
  <2>2. CASE ~ExtractByte(f)
    BY <1>4, <2>2 DEF Task, LoadNothing, ExtractEnd, EmbedNothing, EmbedByte, EmbedEnd
  <2>. QED
    BY <2>1, <2>2
<1>6. DOMAIN carrier' = File /\ \A g \in File : carrier'[g] \in [0..(Capacity(g) - 1) -> StorageByte]
  <2>1. CASE EmbedByte(f)
    <3>. DEFINE byte == IF InStorage(Position(f)) THEN data[Cell(Position(f))] ELSE Zero
    <3>1. byte \in StorageByte
      BY <1>4, CellInStorage DEF StorageByte, CarrierByte
    <3>2. carrier' = [carrier EXCEPT ![f] = [carrier[f] EXCEPT ![done[f]] = byte]]
      BY <2>1 DEF EmbedByte
    <3>. HIDE DEF byte
    <3>3. [carrier[f] EXCEPT ![done[f]] = byte] \in [0..(Capacity(f) - 1) -> StorageByte]
      BY <1>4, <3>1
    <3>. QED
      BY <1>1, <3>2, <3>3 DEF TypeOK
  <2>2. CASE ~EmbedByte(f)
    BY <1>1, <2>2 DEF TypeOK, Task, LoadNothing, ExtractByte, ExtractEnd, EmbedNothing, EmbedEnd
  <2>. QED
    BY <2>1, <2>2
<1>. QED
  BY <1>1, <1>2, <1>3, <1>5, <1>6 DEF TypeOK, callVars, layoutVars

\* Tasks do not move carriers.
LEMMA TaskKeepsLayout ==
    ASSUME LayoutInv, NEW f \in File, Task(f)
    PROVE  LayoutInv'
<1>1. Running(f)
  BY DEF Running, Task, LoadNothing, ExtractByte, ExtractEnd, EmbedNothing, EmbedByte, EmbedEnd
<1>2. \A g \in File : Placed(g)
  BY <1>1 DEF LayoutInv, PlacementInv
<1>3. pc \notin {"apply", "permute", "layout"}
  BY <1>1 DEF LayoutInv, PlacementInv, Running
<1>4. UNCHANGED <<pc, i, capacity, start, blockCount, layoutVars>>
  BY DEF callVars, Task, LoadNothing, ExtractByte, ExtractEnd, EmbedNothing, EmbedByte, EmbedEnd
<1>5. TypeOK'
  BY <1>1, <1>2, TaskTypes
<1>. QED
  BY <1>2, <1>3, <1>4, <1>5, LayoutKept

\* Nor do the returns and exceptions of calls.
LEMMA CallKeepsLayout ==
    ASSUME LayoutInv,
           \/ LoadReturn \/ LoadThrow \/ Save \/ SaveReturn \/ SaveThrow
           \/ \E c \in 0..(Usable - 1) : Write(c)
    PROVE  LayoutInv'
<1>1. /\ pc \in {"load", "loaded", "save"}
      /\ pc' \in {"load", "loaded", "save", "saved", "failed"}
      /\ UNCHANGED <<i, capacity, start, blockCount, layoutVars>>
  BY DEF callVars, LoadReturn, LoadThrow, Save, SaveReturn, SaveThrow, Write
<1>2. \A f \in File : Placed(f)
  BY <1>1 DEF LayoutInv, PlacementInv
<1>3. TypeOK'
  <2>1. TypeOK /\ UNCHANGED carrier
    BY DEF LayoutInv, LoadReturn, LoadThrow, Save, SaveReturn, SaveThrow, Write
  <2>2. \A f \in File : Capacity(f)' = Capacity(f)
    BY <1>1 DEF Capacity
  <2>3. /\ loaded' \in [File -> BOOLEAN] /\ done' \in [File -> Nat]
        /\ task' \in [File -> {"none", "load", "save", "ok", "threw"}]
    BY <2>1 DEF TypeOK, taskVars, LoadReturn, LoadThrow, Save, SaveReturn, SaveThrow, Write
  <2>4. data' \in [0..(raw - 1) -> StorageByte]
    <3>1. CASE Save
      BY <2>1, <3>1 DEF TypeOK, Save, StorageByte, CarrierByte
    <3>2. CASE ~Save
      BY <2>1, <3>2 DEF TypeOK, StorageByte, CarrierByte, LoadReturn, LoadThrow, SaveReturn, SaveThrow, Write
    <3>. QED
      BY <3>1, <3>2
  <2>5. writes' \in 0..MaxWrites
    BY <2>1, ConstantTypes DEF TypeOK, LoadReturn, LoadThrow, Save, SaveReturn, SaveThrow, Write
  <2>. QED
    BY <1>1, <2>1, <2>2, <2>3, <2>4, <2>5 DEF TypeOK, layoutVars
<1>. QED
  BY <1>1, <1>2, <1>3, LayoutKept

\* Open forgets the carriers.
LEMMA ReopenKeepsLayout == LayoutInv /\ Reopen => LayoutInv'
<1>. SUFFICES ASSUME LayoutInv, Reopen PROVE LayoutInv'
  OBVIOUS
<1>1. /\ TypeOK /\ pc' = "apply" /\ i' = 1 /\ capacity' = 0 /\ raw' = 0
      /\ data' = [c \in 0..(-1) |-> Uninit]
      /\ loaded' = [f \in File |-> FALSE] /\ task' = [f \in File |-> "none"]
      /\ done' = [f \in File |-> 0] /\ writes' = 0
      /\ UNCHANGED <<start, blockCount, gperm, offset, remaining, vsOffset, blocksUsed, carrier>>
  BY DEF LayoutInv, Reopen
<1>2. TypeOK'
  <2>1. data' \in [0..(raw' - 1) -> StorageByte]
    BY <1>1 DEF StorageByte
  <2>2. i' \in 1..(N + 1) /\ writes' \in 0..MaxWrites
    BY <1>1, ConstantTypes
  <2>. QED
    BY <1>1, <2>1, <2>2 DEF TypeOK, Capacity
<1>3. Summed' = {}
  BY <1>1 DEF Summed
<1>. QED
  BY <1>1, <1>2, <1>3 DEF LayoutInv, SumsInv, StorageInv, LoopInv, PlacementInv, Running

-----------------------------------------------------------------------------
(* The invariant holds, and with it what the module promises.              *)

\* Every step.
LEMMA NextKeepsLayout == LayoutInv /\ [Next]_vars => LayoutInv'
<1>. SUFFICES ASSUME LayoutInv, [Next]_vars PROVE LayoutInv'
  OBVIOUS
<1>1. CASE ApplyEncoder
  BY <1>1, ApplyEncoderKeepsLayout
<1>2. CASE ApplyEncoderEnd
  BY <1>2, ApplyEncoderEndKeepsLayout
<1>3. CASE \E p \in GlobalPerms : ApplyPermutationTooSmall(p) \/ ApplyPermutation(p)
  BY <1>3, TooSmallKeepsLayout, ApplyPermutationKeepsLayout
<1>4. CASE AddToVirtualStorage
  BY <1>4, AddKeepsLayout
<1>5. CASE EnqueueLoads
  BY <1>5, EnqueueLoadsKeepsLayout
<1>6. CASE \E f \in File : Task(f)
  BY <1>6, TaskKeepsLayout
<1>7. CASE LoadReturn \/ LoadThrow \/ Save \/ SaveReturn \/ SaveThrow
           \/ \E c \in 0..(Usable - 1) : Write(c)
  BY <1>7, CallKeepsLayout
<1>8. CASE Reopen
  BY <1>8, ReopenKeepsLayout
<1>9. CASE UNCHANGED vars
  BY <1>9 DEF vars, callVars, layoutVars, taskVars, LayoutInv, TypeOK, SumsInv, StorageInv,
              LoopInv, PlacementInv, Summed, Placed, Running, End, Capacity, UsedBytes
<1>. QED
  BY <1>1, <1>2, <1>3, <1>4, <1>5, <1>6, <1>7, <1>8, <1>9 DEF Next

\* The sums, the storage and the carriers' positions fit together at every
\* step of ApplyEncoder, LoadVirtualStorage and the tasks.
THEOREM LayoutInvariant == Spec => []LayoutInv
<1>1. Init => LayoutInv
  BY InitLayout
<1>2. LayoutInv /\ [Next]_vars => LayoutInv'
  BY NextKeepsLayout
<1>. QED
  BY <1>1, <1>2, PTL DEF Spec

\* All variables keep their types: no size or offset of the layout wraps below
\* zero, and no task reads or writes outside the picture or the storage.
THEOREM TypeCorrect == Spec => []TypeOK
BY LayoutInvariant, PTL DEF LayoutInv

\* A carrier never reads or writes beyond the room it has.
THEOREM CarriersSuffice == Spec => []WithinCarrier
<1>1. LayoutInv => WithinCarrier
  BY DEF LayoutInv, PlacementInv, WithinCarrier, LayoutReady, Placed
<1>. QED
  BY <1>1, LayoutInvariant, PTL

\* The positions of a carrier lie in its interval of the sums, and contain all
\* of the storage in that interval.
LEMMA PositionsOfPlaced ==
    ASSUME LayoutInv, NEW f \in File, Placed(f)
    PROVE  Positions(f) = {x \in 0..(raw - 1) : start[f] <= x /\ x < End(f)}
<1>1. /\ vsOffset[f] = start[f] /\ start[f] \in Nat /\ raw \in Nat
      /\ Capacity(f) \in Nat /\ UsedBytes(f) \in Nat /\ End(f) = start[f] + Capacity(f)
      /\ UsedBytes(f) <= Capacity(f)
      /\ UsedBytes(f) < Capacity(f) => raw <= start[f] + UsedBytes(f)
  BY CapacityType DEF LayoutInv, TypeOK, Placed, End
<1>2. ASSUME NEW x \in Positions(f) PROVE x \in 0..(raw - 1) /\ start[f] <= x /\ x < End(f)
  BY <1>1, <1>2 DEF Positions
<1>3. ASSUME NEW x \in 0..(raw - 1), start[f] <= x, x < End(f) PROVE x \in Positions(f)
  <2>1. x < start[f] + UsedBytes(f)
    BY <1>1, <1>3
  <2>2. x - start[f] \in 0..(UsedBytes(f) - 1) /\ x = vsOffset[f] + (x - start[f])
    BY <1>1, <1>3, <2>1
  <2>. QED
    BY <2>2 DEF Positions
<1>. QED
  BY <1>2, <1>3

\* The intervals are disjoint and cover the sum, and the storage lies within.
LEMMA LayoutInvImpliesPartition == LayoutInv => LayoutPartition
<1>. SUFFICES ASSUME LayoutInv, LayoutReady PROVE LayoutPartition
  BY DEF LayoutPartition
<1>1. \A f \in File : Positions(f) = {x \in 0..(raw - 1) : start[f] <= x /\ x < End(f)}
  BY PositionsOfPlaced DEF LayoutInv, PlacementInv, LayoutReady
<1>2. Summed = File
  BY DEF Summed, LayoutReady
<1>3. \A f \in File : start[f] \in Nat /\ End(f) \in Nat
  BY CapacityType DEF LayoutInv, TypeOK, End
<1>4. ASSUME NEW f \in File, NEW g \in File, f < g, NEW x \in Positions(f), x \in Positions(g)
      PROVE  FALSE
  <2>1. End(f) <= start[g]
    BY <1>2, <1>4 DEF LayoutInv, SumsInv
  <2>2. x < End(f) /\ start[g] <= x /\ x \in Int
    BY <1>1, <1>4
  <2>. QED
    BY <1>3, <2>1, <2>2
<1>5. ASSUME NEW f \in File, NEW g \in File, f # g PROVE Positions(f) \cap Positions(g) = {}
  <2>1. f < g \/ g < f
    BY <1>5, ConstantTypes DEF File
  <2>. QED
    BY <1>4, <2>1
<1>6. ASSUME NEW x \in 0..(raw - 1) PROVE \E f \in File : x \in Positions(f)
  <2>1. x \in 0..(capacity - 1)
    BY DEF LayoutInv, TypeOK, StorageInv
  <2>2. PICK f \in File : start[f] <= x /\ x < End(f)
    BY <1>2, <2>1 DEF LayoutInv, SumsInv
  <2>. QED
    BY <1>1, <2>2
<1>7. UNION {Positions(f) : f \in File} = 0..(raw - 1)
  BY <1>1, <1>6
<1>. QED
  BY <1>5, <1>7 DEF LayoutPartition

\* No two carriers share a byte of the storage, and none is left out.
THEOREM EveryByteHasOneCarrier == Spec => []LayoutPartition
BY LayoutInvImpliesPartition, LayoutInvariant, PTL

-----------------------------------------------------------------------------
(***************************************************************************)
(* The copying, for every interleaving of the tasks.  It rests on          *)
(* EveryByteHasOneCarrier, and on the global permutation being one.        *)
(***************************************************************************)

\* Uninitialised memory differs from every byte of a carrier and of the client.
LEMMA UninitIsNoByte == Uninit \notin (File \X Nat) \cup {Zero, Payload, Checksum}
BY LayoutAssumption

-----------------------------------------------------------------------------
(* The permutation, restricted to the storage, is a bijection.             *)

\* The global permutation takes two positions to two cells ...
LEMMA CellInjective ==
    ASSUME LayoutInv, NEW x \in 0..(raw - 1), NEW y \in 0..(raw - 1), Cell(x) = Cell(y)
    PROVE  x = y
<1>1. gperm \in GlobalPerms /\ raw = gperm.size
  BY DEF LayoutInv, TypeOK, StorageInv
<1>. QED
  BY <1>1, PermAssumption DEF Cell

\* ... and reaches every cell.
LEMMA CellSurjective ==
    ASSUME LayoutInv, NEW c \in 0..(raw - 1)
    PROVE  \E x \in 0..(raw - 1) : c = Cell(x)
<1>1. gperm \in GlobalPerms /\ raw = gperm.size
  BY DEF LayoutInv, TypeOK, StorageInv
<1>. QED
  BY <1>1, PermAssumption DEF Cell

\* What f has copied lies in its own interval; two carriers' copies differ.
LEMMA CopiedPosition ==
    ASSUME LayoutInv, CopyInv, pc = "load",
           NEW f \in File, NEW k \in 0..(done[f] - 1), InStorage(vsOffset[f] + k)
    PROVE  vsOffset[f] + k \in Positions(f)
<1>1. vsOffset[f] \in Nat /\ raw \in Nat /\ done[f] \in Nat /\ UsedBytes(f) \in Nat
  BY CapacityType DEF LayoutInv, TypeOK
<1>2. done[f] <= UsedBytes(f)
  BY DEF CopyInv, LoadTasksInv
<1>3. vsOffset[f] + k \in 0..(raw - 1) /\ k \in 0..(UsedBytes(f) - 1)
  BY <1>1, <1>2 DEF InStorage
<1>. QED
  BY <1>3 DEF Positions

\* The partition of the storage, where the layout is ready (VirtualStorage, carriers).
LEMMA PartitionHolds ==
    ASSUME LayoutInv, LayoutReady
    PROVE  /\ \A f, g \in File : f # g => Positions(f) \cap Positions(g) = {}
           /\ UNION {Positions(f) : f \in File} = 0..(raw - 1)
BY LayoutInvImpliesPartition DEF LayoutPartition

\* The cell that a Load is about to write has not been written.
LEMMA NextCellIsFresh ==
    ASSUME LayoutInv, CopyInv, pc = "load", NEW f \in File, task[f] = "load",
           done[f] < UsedBytes(f), InStorage(Position(f))
    PROVE  data[Cell(Position(f))] = Uninit
<1>1. vsOffset[f] \in Nat /\ raw \in Nat /\ done[f] \in Nat /\ UsedBytes(f) \in Nat
  BY CapacityType DEF LayoutInv, TypeOK
<1>2. Position(f) \in 0..(raw - 1) /\ Position(f) \in Positions(f)
  BY <1>1 DEF InStorage, Position, Positions
<1>3. Cell(Position(f)) \in DOMAIN data
  BY CellInStorage DEF LayoutInv, TypeOK
<1>4. SUFFICES ASSUME data[Cell(Position(f))] # Uninit PROVE FALSE
  OBVIOUS
<1>5. PICK g \in File : CopiedBy(g, Cell(Position(f)))
  BY <1>3, <1>4 DEF CopyInv, CopiedInv
<1>6. PICK k \in 0..(done[g] - 1) :
          InStorage(vsOffset[g] + k) /\ Cell(Position(f)) = Cell(vsOffset[g] + k)
  BY <1>5 DEF CopiedBy
<1>7. vsOffset[g] + k \in Positions(g)
  BY <1>6, CopiedPosition
<1>8. vsOffset[g] + k \in 0..(raw - 1)
  BY <1>7 DEF Positions
<1>9. Position(f) = vsOffset[g] + k
  BY <1>2, <1>6, <1>8, CellInjective
<1>10. f = g
  BY <1>2, <1>7, <1>9, PartitionHolds DEF LayoutReady
<1>. QED
  BY <1>1, <1>9, <1>10 DEF Position

-----------------------------------------------------------------------------
(* The steps of the tasks.                                                 *)

\* No task extracts an uninitialised byte.
LEMMA ExtractedByte ==
    ASSUME LayoutInv, CopyInv, NEW f \in File, Placed(f), done[f] < UsedBytes(f)
    PROVE  carrier[f][done[f]] # Uninit
<1>1. done[f] \in Nat /\ UsedBytes(f) \in Nat /\ Capacity(f) \in Nat
  BY CapacityType DEF LayoutInv, TypeOK
<1>2. done[f] \in DOMAIN carrier[f]
  BY <1>1 DEF LayoutInv, TypeOK, Placed
<1>. QED
  BY <1>2 DEF CopyInv, CarriersWritten

\* One more byte copied: the relation between counters and cells is kept.
LEMMA ExtractKeepsCopied ==
    ASSUME LayoutInv, CopyInv, NEW f \in File, ExtractByte(f), pc = "load"
    PROVE  CopiedInv'
<1>1. /\ task[f] = "load" /\ done[f] < UsedBytes(f) /\ pc' = "load"
      /\ done' = [done EXCEPT ![f] = done[f] + 1]
      /\ data' = (IF InStorage(Position(f))
                  THEN [data EXCEPT ![Cell(Position(f))] = carrier[f][done[f]]] ELSE data)
      /\ UNCHANGED <<raw, gperm, vsOffset>>
  BY DEF ExtractByte, callVars, layoutVars
<1>2. Placed(f)
  BY DEF LayoutInv, PlacementInv
<1>3. carrier[f][done[f]] # Uninit
  BY <1>1, <1>2, ExtractedByte
<1>4. /\ DOMAIN data = 0..(raw - 1) /\ DOMAIN data' = 0..(raw - 1)
      /\ done \in [File -> Nat]
  BY <1>1 DEF LayoutInv, TypeOK
<1>5. \A x : InStorage(x)' = InStorage(x) /\ Cell(x)' = Cell(x)
  BY <1>1 DEF InStorage, Cell
<1>6. ASSUME NEW g \in File, g # f, NEW c PROVE CopiedBy(g, c)' <=> CopiedBy(g, c)
  BY <1>1, <1>4, <1>5, <1>6 DEF CopiedBy
<1>7. ASSUME NEW c
      PROVE  CopiedBy(f, c)' <=> (CopiedBy(f, c) \/ (InStorage(Position(f)) /\ c = Cell(Position(f))))
  <2>1. done'[f] = done[f] + 1 /\ done[f] \in Nat
    BY <1>1, <1>4
  <2>2. CopiedBy(f, c)' <=> \E k \in 0..done[f] : InStorage(vsOffset[f] + k) /\ c = Cell(vsOffset[f] + k)
    BY <1>1, <1>5, <2>1 DEF CopiedBy
  <2>3. 0..done[f] = (0..(done[f] - 1)) \cup {done[f]}
    BY <2>1
  <2>. QED
    BY <2>2, <2>3 DEF CopiedBy, Position
<1>8. ASSUME NEW c \in 0..(raw - 1)
      PROVE  data'[c] # Uninit <=> \E g \in File : CopiedBy(g, c)'
  <2>1. data[c] # Uninit <=> \E g \in File : CopiedBy(g, c)
    BY <1>4 DEF CopyInv, CopiedInv
  <2>2. CASE InStorage(Position(f)) /\ c = Cell(Position(f))
    <3>1. data'[c] # Uninit
      BY <1>1, <1>3, <1>4, <2>2
    <3>2. CopiedBy(f, c)'
      BY <1>7, <2>2
    <3>. QED
      BY <3>1, <3>2
  <2>3. CASE ~(InStorage(Position(f)) /\ c = Cell(Position(f)))
    <3>1. data'[c] = data[c]
      BY <1>1, <1>4, <2>3
    <3>2. \A g \in File : CopiedBy(g, c)' <=> CopiedBy(g, c)
      BY <1>6, <1>7, <2>3
    <3>. QED
      BY <2>1, <3>1, <3>2
  <2>. QED
    BY <2>2, <2>3
<1>. QED
  BY <1>4, <1>8 DEF CopiedInv

\* The steps of the LoadFile and SaveFile tasks.
LEMMA TaskKeepsCopy ==
    ASSUME LayoutInv, CopyInv, NEW f \in File, Task(f)
    PROVE  CopyInv'
<1>1. Running(f)
  BY DEF Running, Task, LoadNothing, ExtractByte, ExtractEnd, EmbedNothing, EmbedByte, EmbedEnd
<1>2. Placed(f) /\ pc \notin {"apply", "permute", "layout"}
  BY <1>1 DEF LayoutInv, PlacementInv, Running
<1>3. pc' = pc /\ UNCHANGED <<blockCount, layoutVars>>
  BY DEF callVars, Task, LoadNothing, ExtractByte, ExtractEnd, EmbedNothing, EmbedByte, EmbedEnd
<1>4. /\ done \in [File -> Nat] /\ task \in [File -> {"none", "load", "save", "ok", "threw"}]
      /\ data \in [0..(raw - 1) -> StorageByte] /\ DOMAIN carrier = File
  BY DEF LayoutInv, TypeOK
<1>5. \A g \in File : UsedBytes(g)' = UsedBytes(g)
  BY <1>3 DEF UsedBytes, layoutVars
<1>6. pc = "load" => task[f] = "load"
  BY <1>1 DEF CopyInv, LoadTasksInv, Running
<1>7. task[f] = "save" => \A c \in DOMAIN data : data[c] # Uninit
  BY DEF CopyInv, StorageWritten
<1>8. CarriersWritten'
  <2>1. CASE EmbedByte(f)
    <3>. DEFINE byte == IF InStorage(Position(f)) THEN data[Cell(Position(f))] ELSE Zero
    <3>1. byte # Uninit
      BY <1>4, <1>7, <2>1, CellInStorage, UninitIsNoByte DEF EmbedByte
    <3>2. carrier' = [carrier EXCEPT ![f] = [carrier[f] EXCEPT ![done[f]] = byte]]
      BY <2>1 DEF EmbedByte
    <3>. HIDE DEF byte
    <3>3. \A k \in DOMAIN carrier'[f] : carrier'[f][k] # Uninit
      BY <1>4, <3>1, <3>2 DEF CopyInv, CarriersWritten
    <3>4. \A g \in File : g # f => carrier'[g] = carrier[g]
      BY <3>2
    <3>. QED
      BY <3>3, <3>4 DEF CopyInv, CarriersWritten
  <2>2. CASE ~EmbedByte(f)
    <3>1. carrier' = carrier
      BY <2>2 DEF Task, LoadNothing, ExtractByte, ExtractEnd, EmbedNothing, EmbedEnd
    <3>. QED
      BY <3>1 DEF CopyInv, CarriersWritten
  <2>. QED
    BY <2>1, <2>2
<1>9. StorageFresh'
  BY <1>2, <1>3 DEF StorageFresh
<1>10. ASSUME pc = "load" PROVE LoadTasksInv' /\ CopiedInv'
  <2>1. \A g \in File : task[g] \in {"load", "ok", "threw"} /\ done[g] <= UsedBytes(g)
                       /\ (task[g] = "ok" => done[g] = UsedBytes(g))
    BY <1>10 DEF CopyInv, LoadTasksInv
  <2>2. CASE ExtractByte(f)
    <3>1. done' = [done EXCEPT ![f] = done[f] + 1] /\ task' = task /\ done[f] < UsedBytes(f)
      BY <2>2 DEF ExtractByte
    <3>2. UsedBytes(f) \in Nat
      BY CapacityType DEF LayoutInv
    <3>3. \A g \in File : done'[g] <= UsedBytes(g)
      BY <1>4, <2>1, <3>1, <3>2
    <3>4. task[f] = "load"
      BY <1>6, <1>10
    <3>5. LoadTasksInv'
      BY <1>3, <1>4, <1>5, <2>1, <3>1, <3>3, <3>4 DEF LoadTasksInv
    <3>. QED
      BY <1>10, <2>2, <3>5, ExtractKeepsCopied
  <2>3. CASE LoadNothing(f) \/ ExtractEnd(f)
    <3>1. /\ UNCHANGED <<done, data>>
          /\ \E st \in {"ok", "threw"} : task' = [task EXCEPT ![f] = st]
          /\ done[f] = UsedBytes(f)
      <4>1. CASE LoadNothing(f)
        <5>1. UsedBytes(f) = 0
          BY <4>1, ConstantTypes DEF LoadNothing, UsedBytes
        <5>2. done[f] = 0
          BY <1>4, <2>1, <5>1
        <5>. QED
          BY <4>1, <5>1, <5>2 DEF LoadNothing
      <4>2. CASE ExtractEnd(f)
        BY <4>2 DEF ExtractEnd
      <4>. QED
        BY <2>3, <4>1, <4>2
    <3>2. LoadTasksInv'
      BY <1>3, <1>4, <1>5, <2>1, <3>1 DEF LoadTasksInv
    <3>3. CopiedInv'
      BY <1>3, <1>10, <3>1 DEF CopyInv, CopiedInv, CopiedBy, InStorage, Cell, layoutVars
    <3>. QED
      BY <3>2, <3>3
  <2>. QED
    BY <1>6, <1>10, <2>2, <2>3 DEF Task, EmbedNothing, EmbedByte, EmbedEnd
<1>11. ASSUME pc # "load" PROVE LoadTasksInv' /\ CopiedInv'
  BY <1>3, <1>11 DEF LoadTasksInv, CopiedInv
<1>12. StorageWritten'
  <2>. SUFFICES ASSUME pc \in {"loaded", "save", "saved"} \/ \E g \in File : task'[g] = "save"
                PROVE  \A c \in DOMAIN data' : data'[c] # Uninit
    BY <1>3 DEF StorageWritten
  <2>1. \A g \in File : task'[g] = "save" => task[g] = "save"
    BY <1>4 DEF taskVars, Task, LoadNothing, ExtractByte, ExtractEnd, EmbedNothing, EmbedByte, EmbedEnd
  <2>2. \A c \in DOMAIN data : data[c] # Uninit
    BY <2>1 DEF CopyInv, StorageWritten
  <2>3. CASE ExtractByte(f)
    <3>1. carrier[f][done[f]] # Uninit
      BY <1>2, <2>3, ExtractedByte DEF ExtractByte
    <3>2. data' = data \/ data' = [data EXCEPT ![Cell(Position(f))] = carrier[f][done[f]]]
      BY <2>3 DEF ExtractByte
    <3>. QED
      BY <1>4, <2>2, <3>1, <3>2
  <2>4. CASE ~ExtractByte(f)
    <3>1. data' = data
      BY <2>4 DEF Task, LoadNothing, ExtractEnd, EmbedNothing, EmbedByte, EmbedEnd
    <3>. QED
      BY <2>2, <3>1
  <2>. QED
    BY <2>3, <2>4
<1>. QED
  BY <1>8, <1>9, <1>10, <1>11, <1>12 DEF CopyInv

-----------------------------------------------------------------------------
(* The steps of the calling thread and of the client.                      *)

\* When every task is done, every cell is copied.
LEMMA LoadCovers ==
    ASSUME LayoutInv, CopyInv, pc = "load", \A f \in File : task[f] = "ok"
    PROVE  \A c \in DOMAIN data : data[c] # Uninit
<1>. SUFFICES ASSUME NEW c \in DOMAIN data PROVE \E f \in File : CopiedBy(f, c)
  BY DEF CopyInv, CopiedInv
<1>1. DOMAIN data = 0..(raw - 1) /\ raw \in Nat
  BY DEF LayoutInv, TypeOK
<1>2. PICK x \in 0..(raw - 1) : c = Cell(x)
  BY <1>1, CellSurjective
<1>3. PICK f \in File : x \in Positions(f)
  BY PartitionHolds DEF LayoutReady
<1>4. done[f] = UsedBytes(f) /\ UsedBytes(f) \in Nat /\ vsOffset[f] \in Nat
  BY CapacityType DEF CopyInv, LoadTasksInv, LayoutInv, TypeOK
<1>5. PICK k \in 0..(done[f] - 1) : x = vsOffset[f] + k
  BY <1>3, <1>4 DEF Positions
<1>6. CopiedBy(f, c)
  BY <1>1, <1>2, <1>5 DEF CopiedBy, InStorage
<1>. QED
  BY <1>6

\* The returns and exceptions of Load and Save, and Write.
LEMMA CallKeepsCopy ==
    ASSUME LayoutInv, CopyInv,
           \/ LoadReturn \/ LoadThrow \/ Save \/ SaveReturn \/ SaveThrow
           \/ \E c \in 0..(Usable - 1) : Write(c)
    PROVE  CopyInv'
<1>1. CarriersWritten'
  <2>1. UNCHANGED carrier
    BY DEF LoadReturn, LoadThrow, Save, SaveReturn, SaveThrow, Write
  <2>. QED
    BY <2>1 DEF CopyInv, CarriersWritten
<1>2. pc' \notin {"layout", "load"}
  BY DEF LoadReturn, LoadThrow, Save, SaveReturn, SaveThrow, Write, callVars
<1>3. StorageWritten'
  <2>1. data \in [0..(raw - 1) -> StorageByte]
    BY DEF LayoutInv, TypeOK
  <2>2. CASE LoadReturn
    BY <2>2, LoadCovers DEF LoadReturn, StorageWritten
  <2>3. CASE LoadThrow
    BY <2>3 DEF LoadThrow, StorageWritten, taskVars, CopyInv, LoadTasksInv
  <2>4. CASE Save \/ \E c \in 0..(Usable - 1) : Write(c)
    <3>1. \A c \in DOMAIN data : data[c] # Uninit
      BY <2>4 DEF CopyInv, StorageWritten, Save, Write
    <3>. QED
      BY <2>1, <2>4, <3>1, UninitIsNoByte DEF StorageWritten, Save, Write
  <2>5. CASE SaveReturn \/ SaveThrow
    <3>1. UNCHANGED data /\ \A c \in DOMAIN data : data[c] # Uninit
      BY <2>5 DEF CopyInv, StorageWritten, SaveReturn, SaveThrow
    <3>. QED
      BY <3>1 DEF StorageWritten
  <2>. QED
    BY <2>2, <2>3, <2>4, <2>5
<1>. QED
  BY <1>1, <1>2, <1>3 DEF CopyInv, StorageFresh, LoadTasksInv, CopiedInv

\* The steps that lay the storage out touch no byte.
LEMMA LayoutStepKeepsCopy ==
    ASSUME LayoutInv, CopyInv,
           \/ ApplyEncoder \/ ApplyEncoderEnd \/ AddToVirtualStorage \/ EnqueueLoads \/ Reopen
           \/ \E p \in GlobalPerms : ApplyPermutationTooSmall(p) \/ ApplyPermutation(p)
    PROVE  CopyInv'
<1>1. CarriersWritten'
  <2>1. UNCHANGED carrier
    BY DEF ApplyEncoder, ApplyEncoderEnd, AddToVirtualStorage, EnqueueLoads, Reopen,
           ApplyPermutationTooSmall, ApplyPermutation
  <2>. QED
    BY <2>1 DEF CopyInv, CarriersWritten
<1>2. CASE EnqueueLoads
  <2>1. /\ pc = "layout" /\ pc' = "load" /\ task' = [f \in File |-> "load"]
        /\ done' = [f \in File |-> 0] /\ UNCHANGED <<data, layoutVars>>
    BY <1>2 DEF EnqueueLoads
  <2>2. \A f \in File : UsedBytes(f)' = UsedBytes(f) /\ UsedBytes(f) \in Nat
    BY <2>1, CapacityType DEF UsedBytes, layoutVars, LayoutInv
  <2>3. LoadTasksInv'
    BY <2>1, <2>2 DEF LoadTasksInv
  <2>4. \A c \in DOMAIN data : data[c] = Uninit
    BY <2>1 DEF CopyInv, StorageFresh
  <2>5. ASSUME NEW f \in File, NEW c PROVE ~CopiedBy(f, c)'
    BY <2>1 DEF CopiedBy
  <2>6. CopiedInv'
    BY <2>1, <2>4, <2>5 DEF CopiedInv
  <2>. QED
    BY <1>1, <2>1, <2>3, <2>6 DEF CopyInv, StorageFresh, StorageWritten
<1>3. CASE ~EnqueueLoads
  <2>1. pc' \in {"apply", "permute", "layout", "failed"} /\ \A f \in File : task'[f] # "save"
    <3>1. CASE Reopen
      BY <3>1 DEF Reopen
    <3>2. CASE ~Reopen
      <4>1. /\ pc \in {"apply", "permute", "layout"} /\ UNCHANGED taskVars
            /\ pc' \in {"apply", "permute", "layout", "failed"}
        BY <1>3, <3>2 DEF ApplyEncoder, ApplyEncoderEnd, AddToVirtualStorage,
                          ApplyPermutationTooSmall, ApplyPermutation
      <4>. QED
        BY <4>1 DEF LayoutInv, PlacementInv, taskVars
    <3>. QED
      BY <3>1, <3>2
  <2>2. StorageFresh'
    BY <1>3 DEF StorageFresh, CopyInv, ApplyEncoder, ApplyEncoderEnd, AddToVirtualStorage, Reopen,
                ApplyPermutationTooSmall, ApplyPermutation
  <2>. QED
    BY <1>1, <2>1, <2>2 DEF CopyInv, LoadTasksInv, CopiedInv, StorageWritten
<1>. QED
  BY <1>2, <1>3

-----------------------------------------------------------------------------
\* Every step.
LEMMA NextKeepsCopy == LayoutInv /\ CopyInv /\ [Next]_vars => CopyInv'
<1>. SUFFICES ASSUME LayoutInv, CopyInv, [Next]_vars PROVE CopyInv'
  OBVIOUS
<1>1. CASE \/ ApplyEncoder \/ ApplyEncoderEnd \/ AddToVirtualStorage \/ EnqueueLoads \/ Reopen
           \/ \E p \in GlobalPerms : ApplyPermutationTooSmall(p) \/ ApplyPermutation(p)
  BY <1>1, LayoutStepKeepsCopy
<1>2. CASE \E f \in File : Task(f)
  BY <1>2, TaskKeepsCopy
<1>3. CASE \/ LoadReturn \/ LoadThrow \/ Save \/ SaveReturn \/ SaveThrow
           \/ \E c \in 0..(Usable - 1) : Write(c)
  BY <1>3, CallKeepsCopy
<1>4. CASE UNCHANGED vars
  BY <1>4 DEF vars, callVars, layoutVars, taskVars, CopyInv, CarriersWritten, StorageFresh,
              LoadTasksInv, CopiedInv, StorageWritten, CopiedBy, InStorage, Cell, UsedBytes
<1>. QED
  BY <1>1, <1>2, <1>3, <1>4 DEF Next

\* The initial state: nothing is copied.
LEMMA InitCopy == Init => CopyInv
<1>. SUFFICES ASSUME Init PROVE CopyInv
  OBVIOUS
<1>1. CarriersWritten
  <2>. SUFFICES ASSUME NEW f \in File, NEW k \in DOMAIN carrier[f] PROVE carrier[f][k] # Uninit
    BY DEF CarriersWritten
  <2>1. k \in 0..(Capacity(f) - 1) /\ carrier[f][k] = <<f, k>>
    BY DEF Init
  <2>2. blockCount[f] \in Nat
    BY ConstantTypes DEF Init
  <2>3. k \in Nat
    BY <2>1, <2>2, ConstantTypes DEF Capacity
  <2>. QED
    BY <2>1, <2>3, UninitIsNoByte
<1>. QED
  BY <1>1 DEF Init, CopyInv, StorageFresh, LoadTasksInv, CopiedInv, StorageWritten

\* The counters of the tasks say exactly which cells are copied, in every
\* interleaving, and uninitialised memory gets neither into a Save nor a picture.
THEOREM CopyInvariant == Spec => []CopyInv
<1>1. Init => LayoutInv /\ CopyInv
  BY InitLayout, InitCopy
<1>2. (LayoutInv /\ CopyInv) /\ [Next]_vars => (LayoutInv /\ CopyInv)'
  BY NextKeepsLayout, NextKeepsCopy
<1>. QED
  BY <1>1, <1>2, PTL DEF Spec

\* A Load that returns has overwritten all of the uninitialised memory.
THEOREM LoadIsComplete == Spec => []LoadComplete
<1>1. CopyInv => LoadComplete
  BY DEF CopyInv, StorageWritten, LoadComplete
<1>. QED
  BY <1>1, CopyInvariant, PTL

\* During a Load no cell is written twice: the tasks need no lock.
THEOREM CellsWrittenOnce == Spec => WrittenOnce
<1>. DEFINE Once == pc = "load" /\ pc' = "load" =>
                       \A c \in DOMAIN data : data[c] # Uninit => data'[c] = data[c]
<1>1. LayoutInv /\ CopyInv /\ [Next]_vars => [Once]_vars
  <2>. SUFFICES ASSUME LayoutInv, CopyInv, Next, pc = "load", pc' = "load",
                       NEW c \in DOMAIN data, data[c] # Uninit
                PROVE  data'[c] = data[c]
    OBVIOUS
  <2>1. CASE \E f \in File : ExtractByte(f)
    <3>1. PICK f \in File : ExtractByte(f)
      BY <2>1
    <3>2. /\ task[f] = "load" /\ done[f] < UsedBytes(f)
          /\ data' = (IF InStorage(Position(f))
                      THEN [data EXCEPT ![Cell(Position(f))] = carrier[f][done[f]]] ELSE data)
      BY <3>1 DEF ExtractByte
    <3>3. InStorage(Position(f)) => data[Cell(Position(f))] = Uninit
      BY <3>2, NextCellIsFresh
    <3>. QED
      BY <3>2, <3>3 DEF LayoutInv, TypeOK
  <2>2. CASE ~\E f \in File : ExtractByte(f)
    <3>1. data' = data
      BY <2>2 DEF Next, Task, ApplyEncoder, ApplyEncoderEnd, AddToVirtualStorage, EnqueueLoads,
                  Reopen, ApplyPermutationTooSmall, ApplyPermutation, LoadReturn, LoadThrow, Save,
                  SaveReturn, SaveThrow, Write, LoadNothing, ExtractEnd, EmbedNothing, EmbedByte,
                  EmbedEnd
    <3>. QED
      BY <3>1
  <2>. QED
    BY <2>1, <2>2
<1>. QED
  BY <1>1, LayoutInvariant, CopyInvariant, PTL DEF WrittenOnce, Spec

-----------------------------------------------------------------------------
(***************************************************************************)
(* What Save has stored, the next Load reads: for every capacity, block    *)
(* size and permutation, every interleaving of the tasks, and any number   *)
(* of failed calls between the two.                                        *)
(***************************************************************************)

\* The layout is that of the chosen permutation.
LEMMA StorageMadeKept ==
    ASSUME LayoutInv, StorageMade, [Next]_vars
    PROVE  StorageMade'
<1>1. CASE \E p \in GlobalPerms : ApplyPermutationTooSmall(p) \/ ApplyPermutation(p)
  BY <1>1 DEF StorageMade, ApplyPermutationTooSmall, ApplyPermutation
<1>2. CASE \E f \in File : Task(f)
  <2>1. UNCHANGED <<pc, gperm, raw>>
    BY <1>2 DEF callVars, layoutVars, Task, LoadNothing, ExtractByte, ExtractEnd, EmbedNothing,
                EmbedByte, EmbedEnd
  <2>. QED
    BY <2>1 DEF StorageMade
<1>3. CASE ApplyEncoder \/ ApplyEncoderEnd \/ Reopen
  BY <1>3 DEF StorageMade, ApplyEncoder, ApplyEncoderEnd, Reopen
<1>4. CASE \/ AddToVirtualStorage \/ EnqueueLoads \/ LoadReturn \/ LoadThrow
           \/ Save \/ SaveReturn \/ SaveThrow \/ \E c \in 0..(Usable - 1) : Write(c)
  <2>1. UNCHANGED <<gperm, raw>> /\ pc \notin {"apply", "permute", "failed"}
    BY <1>4 DEF layoutVars, AddToVirtualStorage, EnqueueLoads, LoadReturn, LoadThrow, Save,
                SaveReturn, SaveThrow, Write
  <2>. QED
    BY <2>1 DEF StorageMade
<1>5. CASE UNCHANGED vars
  BY <1>5 DEF vars, callVars, layoutVars, StorageMade
<1>. QED
  BY <1>1, <1>2, <1>3, <1>4, <1>5 DEF Next

\* SavedInv speaks of nothing but the carriers, the sums and the permutation.
LEMMA SavedKept ==
    ASSUME SavedInv, UNCHANGED <<saved, carrier, start, blockCount>>,
           gperm' = gperm \/ gperm = NoPerm,
           \A f \in File : task'[f] = "save" => task[f] = "save"
    PROVE  SavedInv'
<1>. SUFFICES ASSUME saved' # NoData
              PROVE  SavedInv'
  BY DEF SavedInv
<1>1. \A f \in File : Capacity(f)' = Capacity(f) /\ End(f)' = End(f)
  BY DEF Capacity, End
<1>2. gperm' = gperm
  BY LayoutAssumption DEF SavedInv
<1>3. SumsAgain'
  BY <1>1 DEF SavedInv, SumsAgain
<1>. QED
  BY <1>1, <1>2, <1>3 DEF SavedInv

\* ApplyEncoder computes the same sums again.
LEMMA ApplyEncoderKeepsSaved ==
    ASSUME LayoutInv, SavedInv, ApplyEncoder
    PROVE  SavedInv'
<1>. SUFFICES ASSUME saved # NoData
              PROVE  SavedInv'
  BY DEF SavedInv, ApplyEncoder
<1>. USE ConstantTypes
<1>0. PICK k \in 1..N : k = i
  BY DEF LayoutInv, TypeOK, ApplyEncoder
<1>1. /\ pc = "apply" /\ start' = [start EXCEPT ![k] = capacity]
      /\ start \in [File -> Nat]
      /\ UNCHANGED <<saved, carrier, blockCount, layoutVars, taskVars>>
  BY <1>0 DEF LayoutInv, TypeOK, ApplyEncoder
<1>2. Summed = 1..(k - 1)
  BY <1>0, <1>1 DEF Summed
<1>3. capacity = start[k]
  <2>1. CASE k = 1
    BY <1>2, <2>1 DEF LayoutInv, SumsInv, SavedInv, SumsAgain
  <2>2. CASE k # 1
    <3>1. k - 1 \in Summed /\ (k - 1) + 1 \notin Summed /\ k - 1 \in File /\ (k - 1) + 1 = k /\ k \in File
      BY <1>2, <2>2 DEF File
    <3>2. capacity = End(k - 1)
      BY <3>1 DEF LayoutInv, SumsInv
    <3>3. start[(k - 1) + 1] = End(k - 1)
      BY <3>1 DEF SavedInv, SumsAgain
    <3>. QED
      BY <3>1, <3>2, <3>3
  <2>. QED
    BY <2>1, <2>2
<1>4. start' = start
  BY <1>1, <1>3
<1>. QED
  BY <1>1, <1>4, SavedKept DEF layoutVars, taskVars

\* The steps that lay the storage out again.
LEMMA LayoutStepKeepsSurvival ==
    ASSUME LayoutInv, CopyInv, SurvivalInv,
           \/ ApplyEncoder \/ ApplyEncoderEnd \/ AddToVirtualStorage \/ EnqueueLoads \/ Reopen
           \/ \E p \in GlobalPerms : ApplyPermutationTooSmall(p) \/ ApplyPermutation(p)
    PROVE  SaveTasksInv' /\ EmbeddedInv' /\ SavedInv' /\ ReloadedInv'
<1>1. pc' # "save"
  BY DEF ApplyEncoder, ApplyEncoderEnd, AddToVirtualStorage, EnqueueLoads, Reopen,
         ApplyPermutationTooSmall, ApplyPermutation
<1>2. SavedInv'
  <2>1. CASE ApplyEncoder
    BY <2>1, ApplyEncoderKeepsSaved DEF SurvivalInv
  <2>2. CASE ~ApplyEncoder
    <3>1. UNCHANGED <<saved, carrier, start, blockCount>> /\ (gperm' = gperm \/ gperm = NoPerm)
      BY <2>2 DEF ApplyEncoderEnd, AddToVirtualStorage, EnqueueLoads, Reopen, layoutVars,
                  ApplyPermutationTooSmall, ApplyPermutation, Selectable
    <3>2. \A f \in File : task'[f] = "save" => task[f] = "save"
      BY <2>2 DEF ApplyEncoderEnd, AddToVirtualStorage, EnqueueLoads, Reopen, taskVars,
                  ApplyPermutationTooSmall, ApplyPermutation
    <3>. QED
      BY <3>1, <3>2, SavedKept DEF SurvivalInv
  <2>. QED
    BY <2>1, <2>2
<1>3. ReloadedInv'
  <2>1. CASE EnqueueLoads
    BY <2>1 DEF CopyInv, StorageFresh, EnqueueLoads, ReloadedInv
  <2>2. CASE ~EnqueueLoads
    <3>1. pc' # "load"
      BY <2>2 DEF ApplyEncoder, ApplyEncoderEnd, AddToVirtualStorage, Reopen,
                  ApplyPermutationTooSmall, ApplyPermutation
    <3>. QED
      BY <3>1 DEF ReloadedInv
  <2>. QED
    BY <2>1, <2>2
<1>. QED
  BY <1>1, <1>2, <1>3 DEF SaveTasksInv, EmbeddedInv

-----------------------------------------------------------------------------
(* The tasks.                                                              *)

\* EmbedByte puts the next byte of the storage into the carrier, and leaves what
\* is embedded already.
LEMMA EmbedKeepsEmbedded ==
    ASSUME LayoutInv, EmbeddedInv, pc = "save", NEW f \in File, EmbedByte(f)
    PROVE  EmbeddedInv'
<1>1. /\ task[f] = "save" /\ done[f] < UsedBytes(f)
      /\ done' = [done EXCEPT ![f] = done[f] + 1]
      /\ UNCHANGED <<pc, data, raw, gperm, vsOffset>>
  BY DEF EmbedByte, callVars, layoutVars
<1>2. Placed(f)
  BY DEF LayoutInv, PlacementInv
<1>3. /\ Capacity(f) \in Nat /\ UsedBytes(f) \in Nat /\ UsedBytes(f) <= Capacity(f)
      /\ done \in [File -> Nat] /\ DOMAIN carrier = File
      /\ DOMAIN carrier[f] = 0..(Capacity(f) - 1)
  BY <1>2, CapacityType DEF LayoutInv, TypeOK, Placed
<1>. DEFINE byte == IF InStorage(Position(f)) THEN data[Cell(Position(f))] ELSE Zero
<1>4. carrier' = [carrier EXCEPT ![f] = [carrier[f] EXCEPT ![done[f]] = byte]]
  BY DEF EmbedByte
<1>5. \A x : InStorage(x)' = InStorage(x) /\ Cell(x)' = Cell(x)
  BY <1>1 DEF InStorage, Cell
<1>6. ASSUME NEW g \in File, NEW k \in 0..(done'[g] - 1), InStorage(vsOffset[g] + k)
      PROVE  carrier'[g][k] = data[Cell(vsOffset[g] + k)]
  <2>1. CASE g # f
    <3>1. carrier'[g] = carrier[g] /\ done'[g] = done[g]
      BY <1>1, <1>3, <1>4, <2>1
    <3>. QED
      BY <1>6, <3>1 DEF EmbeddedInv
  <2>2. CASE g = f /\ k = done[f]
    <3>1. byte = data[Cell(vsOffset[g] + k)]
      BY <1>6, <2>2 DEF Position
    <3>. HIDE DEF byte
    <3>2. done[f] \in DOMAIN carrier[f]
      BY <1>1, <1>3
    <3>3. carrier'[f][done[f]] = byte
      BY <1>3, <1>4, <3>2
    <3>. QED
      BY <2>2, <3>1, <3>3
  <2>3. CASE g = f /\ k # done[f]
    <3>. HIDE DEF byte
    <3>1. k \in 0..(done[f] - 1)
      BY <1>1, <1>3, <2>3
    <3>2. k \in DOMAIN carrier[f]
      BY <1>1, <1>3, <3>1
    <3>3. carrier'[f][k] = carrier[f][k]
      BY <1>3, <1>4, <2>3, <3>2
    <3>. QED
      BY <1>6, <2>3, <3>1, <3>3 DEF EmbeddedInv
  <2>. QED
    BY <2>1, <2>2, <2>3
<1>. QED
  BY <1>1, <1>5, <1>6 DEF EmbeddedInv

\* ExtractByte takes from the carrier what was saved of this cell.
LEMMA ExtractKeepsReloaded ==
    ASSUME LayoutInv, SurvivalInv, pc = "load", saved # NoData, NEW f \in File, ExtractByte(f)
    PROVE  ReloadedInv'
<1>1. /\ done[f] < UsedBytes(f)
      /\ data' = (IF InStorage(Position(f))
                  THEN [data EXCEPT ![Cell(Position(f))] = carrier[f][done[f]]] ELSE data)
      /\ UNCHANGED saved
  BY DEF ExtractByte
<1>2. Placed(f)
  BY DEF LayoutInv, PlacementInv
<1>3. /\ vsOffset[f] = start[f] /\ UsedBytes(f) <= Capacity(f) /\ UsedBytes(f) \in Nat
      /\ Capacity(f) \in Nat /\ done[f] \in Nat /\ data \in [0..(raw - 1) -> StorageByte]
  BY <1>2, CapacityType DEF LayoutInv, TypeOK, Placed
<1>4. raw = gperm.size
  BY DEF SurvivalInv, StorageMade
<1>5. InStorage(Position(f)) => carrier[f][done[f]] = saved[Cell(Position(f))]
  <2>. SUFFICES ASSUME InStorage(Position(f))
                PROVE  carrier[f][done[f]] = saved[Cell(Position(f))]
    OBVIOUS
  <2>1. done[f] \in 0..(Capacity(f) - 1) /\ start[f] + done[f] < gperm.size
    BY <1>1, <1>3, <1>4 DEF InStorage, Position
  <2>2. carrier[f][done[f]] = saved[gperm.map[start[f] + done[f]]]
    BY <2>1 DEF SurvivalInv, SavedInv
  <2>. QED
    BY <1>3, <2>2 DEF Cell, Position
<1>6. ASSUME NEW c \in DOMAIN data', data'[c] # Uninit PROVE data'[c] = saved[c]
  <2>1. CASE InStorage(Position(f)) /\ c = Cell(Position(f))
    <3>1. Cell(Position(f)) \in DOMAIN data
      BY <1>3, <2>1, CellInStorage
    <3>. QED
      BY <1>1, <1>3, <1>5, <2>1, <3>1
  <2>2. CASE ~(InStorage(Position(f)) /\ c = Cell(Position(f)))
    <3>1. data'[c] = data[c] /\ c \in DOMAIN data
      BY <1>1, <1>3, <1>6, <2>2
    <3>. QED
      BY <1>6, <3>1 DEF SurvivalInv, ReloadedInv
  <2>. QED
    BY <2>1, <2>2
<1>. QED
  BY <1>1, <1>6 DEF ReloadedInv

\* The steps of the LoadFile and SaveFile tasks.
LEMMA TaskKeepsSurvival ==
    ASSUME LayoutInv, CopyInv, SurvivalInv, NEW f \in File, Task(f)
    PROVE  SaveTasksInv' /\ EmbeddedInv' /\ SavedInv' /\ ReloadedInv'
<1>1. UNCHANGED <<pc, saved, blockCount, start, layoutVars>>
  BY DEF callVars, Task, LoadNothing, ExtractByte, ExtractEnd, EmbedNothing, EmbedByte, EmbedEnd
<1>2. /\ task \in [File -> {"none", "load", "save", "ok", "threw"}] /\ done \in [File -> Nat]
      /\ DOMAIN carrier = File
  BY DEF LayoutInv, TypeOK
<1>3. \A g \in File : UsedBytes(g)' = UsedBytes(g)
  BY <1>1 DEF UsedBytes, layoutVars
<1>4. pc = "save" => EmbedNothing(f) \/ EmbedByte(f) \/ EmbedEnd(f)
  BY DEF SurvivalInv, SaveTasksInv, Task, LoadNothing, ExtractByte, ExtractEnd
<1>5. saved # NoData => LoadNothing(f) \/ ExtractByte(f) \/ ExtractEnd(f)
  BY DEF SurvivalInv, SavedInv, Task, EmbedNothing, EmbedByte, EmbedEnd
<1>6. SaveTasksInv'
  <2>. SUFFICES ASSUME pc = "save"
                PROVE  SaveTasksInv'
    BY <1>1 DEF SaveTasksInv
  <2>0. saved = NoData /\ \A g \in File : task[g] \in {"save", "ok", "threw"}
                                         /\ (task[g] = "ok" => done[g] = UsedBytes(g))
    BY DEF SurvivalInv, SaveTasksInv
  <2>1. CASE EmbedByte(f)
    <3>1. task' = task /\ task[f] = "save" /\ done' = [done EXCEPT ![f] = done[f] + 1]
      BY <2>1 DEF EmbedByte
    <3>2. \A g \in File : task'[g] = "ok" => g # f /\ done'[g] = done[g]
      BY <1>2, <3>1
    <3>. QED
      BY <1>1, <1>3, <2>0, <3>1, <3>2 DEF SaveTasksInv
  <2>2. CASE EmbedEnd(f)
    <3>1. task' = [task EXCEPT ![f] = "ok"] /\ done' = done /\ done[f] = UsedBytes(f)
      BY <2>2 DEF EmbedEnd
    <3>. QED
      BY <1>1, <1>2, <1>3, <2>0, <3>1 DEF SaveTasksInv
  <2>3. CASE EmbedNothing(f)
    <3>1. task' = [task EXCEPT ![f] = "threw"] /\ done' = done
      BY <2>3 DEF EmbedNothing
    <3>. QED
      BY <1>1, <1>2, <1>3, <2>0, <3>1 DEF SaveTasksInv
  <2>. QED
    BY <1>4, <2>1, <2>2, <2>3
<1>7. EmbeddedInv'
  <2>1. CASE pc = "save" /\ EmbedByte(f)
    BY <2>1, EmbedKeepsEmbedded DEF SurvivalInv
  <2>2. CASE pc = "save" /\ (EmbedNothing(f) \/ EmbedEnd(f))
    <3>1. UNCHANGED <<done, data, carrier>>
      BY <2>2 DEF EmbedNothing, EmbedEnd
    <3>. QED
      BY <1>1, <3>1 DEF SurvivalInv, EmbeddedInv, InStorage, Cell, layoutVars
  <2>3. CASE pc # "save"
    BY <1>1, <2>3 DEF EmbeddedInv
  <2>. QED
    BY <1>4, <2>1, <2>2, <2>3
<1>8. SavedInv'
  <2>1. CASE saved = NoData
    BY <1>1, <2>1 DEF SavedInv
  <2>2. CASE saved # NoData
    <3>1. UNCHANGED carrier /\ \A g \in File : task'[g] = "save" => task[g] = "save"
      BY <1>2, <1>5, <2>2 DEF LoadNothing, ExtractByte, ExtractEnd
    <3>. QED
      BY <1>1, <3>1, SavedKept DEF SurvivalInv, layoutVars
  <2>. QED
    BY <2>1, <2>2
<1>9. ReloadedInv'
  <2>. SUFFICES ASSUME pc = "load", saved # NoData
                PROVE  ReloadedInv'
    BY <1>1 DEF ReloadedInv
  <2>1. CASE ExtractByte(f)
    BY <2>1, ExtractKeepsReloaded
  <2>2. CASE LoadNothing(f) \/ ExtractEnd(f)
    <3>1. UNCHANGED data
      BY <2>2 DEF LoadNothing, ExtractEnd
    <3>. QED
      BY <1>1, <3>1 DEF SurvivalInv, ReloadedInv
  <2>. QED
    BY <1>5, <2>1, <2>2
<1>. QED
  BY <1>6, <1>7, <1>8, <1>9

-----------------------------------------------------------------------------
(* The calling thread.                                                     *)

\* When every task of a Save is done, every byte of the storage is embedded.
LEMMA SaveReturnSaves ==
    ASSUME LayoutInv, SurvivalInv, SaveReturn
    PROVE  SavedInv'
<1>1. /\ pc = "save" /\ saved' = data /\ \A f \in File : task[f] = "ok"
      /\ UNCHANGED <<carrier, start, blockCount, layoutVars, taskVars>>
  BY DEF SaveReturn
<1>2. gperm \in GlobalPerms /\ raw = gperm.size
  BY <1>1 DEF SurvivalInv, StorageMade
<1>3. \A f \in File : Capacity(f)' = Capacity(f) /\ End(f)' = End(f)
  BY <1>1 DEF Capacity, End
<1>4. SumsAgain'
  <2>1. Summed = File
    BY <1>1 DEF Summed
  <2>2. 1 \in File
    BY ConstantTypes DEF File
  <2>. QED
    BY <1>1, <1>3, <2>1, <2>2 DEF LayoutInv, SumsInv, SumsAgain
<1>5. ASSUME NEW f \in File, NEW k \in 0..(Capacity(f) - 1), start[f] + k < gperm.size
      PROVE  carrier[f][k] = data[gperm.map[start[f] + k]]
  <2>1. Placed(f)
    BY <1>1 DEF LayoutInv, PlacementInv
  <2>2. /\ start[f] \in Nat /\ Capacity(f) \in Nat /\ UsedBytes(f) \in Nat /\ raw \in Nat
        /\ vsOffset[f] = start[f]
        /\ UsedBytes(f) < Capacity(f) => raw <= start[f] + UsedBytes(f)
    BY <2>1, CapacityType DEF LayoutInv, TypeOK, Placed
  <2>3. k < UsedBytes(f)
    BY <1>2, <1>5, <2>2
  <2>4. done[f] = UsedBytes(f)
    BY <1>1 DEF SurvivalInv, SaveTasksInv
  <2>5. k \in 0..(done[f] - 1) /\ InStorage(vsOffset[f] + k)
    BY <1>2, <1>5, <2>2, <2>3, <2>4 DEF InStorage
  <2>6. carrier[f][k] = data[Cell(vsOffset[f] + k)]
    BY <1>1, <2>5 DEF SurvivalInv, EmbeddedInv
  <2>. QED
    BY <2>2, <2>6 DEF Cell
<1>6. data \in [0..(gperm.size - 1) -> StorageByte]
  BY <1>2 DEF LayoutInv, TypeOK
<1>7. \A f \in File : task'[f] # "save"
  BY <1>1 DEF taskVars
<1>. QED
  BY <1>1, <1>2, <1>3, <1>4, <1>5, <1>6, <1>7 DEF SavedInv, layoutVars

\* The returns and exceptions of Load and Save, and Write.
LEMMA CallKeepsSurvival ==
    ASSUME LayoutInv, CopyInv, SurvivalInv,
           \/ LoadReturn \/ LoadThrow \/ Save \/ SaveReturn \/ SaveThrow
           \/ \E c \in 0..(Usable - 1) : Write(c)
    PROVE  SaveTasksInv' /\ EmbeddedInv' /\ SavedInv' /\ ReloadedInv'
<1>1. pc' # "load"
  BY DEF LoadReturn, LoadThrow, Save, SaveReturn, SaveThrow, Write, callVars
<1>2. CASE Save
  <2>1. /\ pc' = "save" /\ saved' = NoData /\ task' = [f \in File |-> "save"]
        /\ done' = [f \in File |-> 0]
    BY <1>2 DEF Save
  <2>2. SaveTasksInv'
    BY <2>1 DEF SaveTasksInv
  <2>3. EmbeddedInv'
    BY <2>1 DEF EmbeddedInv
  <2>. QED
    BY <1>1, <2>1, <2>2, <2>3 DEF SavedInv, ReloadedInv
<1>3. CASE SaveReturn
  <2>1. pc' = "saved"
    BY <1>3 DEF SaveReturn
  <2>. QED
    BY <1>3, <2>1, SaveReturnSaves DEF SaveTasksInv, EmbeddedInv, ReloadedInv
<1>4. CASE LoadReturn \/ LoadThrow \/ SaveThrow \/ \E c \in 0..(Usable - 1) : Write(c)
  <2>1. pc' # "save" /\ UNCHANGED <<saved, carrier, start, blockCount, gperm, taskVars>>
    BY <1>4 DEF LoadReturn, LoadThrow, SaveThrow, Write, callVars, layoutVars
  <2>2. SavedInv'
    BY <2>1, SavedKept DEF SurvivalInv, taskVars
  <2>. QED
    BY <1>1, <2>1, <2>2 DEF SaveTasksInv, EmbeddedInv, ReloadedInv
<1>. QED
  BY <1>2, <1>3, <1>4

\* Every step.
LEMMA NextKeepsSurvival == LayoutInv /\ CopyInv /\ SurvivalInv /\ [Next]_vars => SurvivalInv'
<1>. SUFFICES ASSUME LayoutInv, CopyInv, SurvivalInv, [Next]_vars PROVE SurvivalInv'
  OBVIOUS
<1>1. StorageMade'
  BY StorageMadeKept DEF SurvivalInv
<1>2. CASE \/ ApplyEncoder \/ ApplyEncoderEnd \/ AddToVirtualStorage \/ EnqueueLoads \/ Reopen
           \/ \E p \in GlobalPerms : ApplyPermutationTooSmall(p) \/ ApplyPermutation(p)
  BY <1>1, <1>2, LayoutStepKeepsSurvival DEF SurvivalInv
<1>3. CASE \E f \in File : Task(f)
  BY <1>1, <1>3, TaskKeepsSurvival DEF SurvivalInv
<1>4. CASE \/ LoadReturn \/ LoadThrow \/ Save \/ SaveReturn \/ SaveThrow
           \/ \E c \in 0..(Usable - 1) : Write(c)
  BY <1>1, <1>4, CallKeepsSurvival DEF SurvivalInv
<1>5. CASE UNCHANGED vars
  <2>1. UNCHANGED <<pc, saved, start, blockCount, layoutVars, taskVars, data, carrier>>
    BY <1>5 DEF vars, callVars
  <2>2. SavedInv'
    BY <2>1, SavedKept DEF SurvivalInv, taskVars, layoutVars
  <2>3. SaveTasksInv' /\ EmbeddedInv' /\ ReloadedInv'
    BY <2>1 DEF SurvivalInv, SaveTasksInv, EmbeddedInv, ReloadedInv, InStorage, Cell, UsedBytes,
                layoutVars, taskVars
  <2>. QED
    BY <1>1, <2>2, <2>3 DEF SurvivalInv
<1>. QED
  BY <1>2, <1>3, <1>4, <1>5 DEF Next

\* Between a Save and the Loads that follow it the carriers hold the storage,
\* cell by cell, at the place where the next layout will look for it.
THEOREM SurvivalInvariant == Spec => []SurvivalInv
<1>1. Init => SurvivalInv
  BY DEF Init, SurvivalInv, StorageMade, SaveTasksInv, EmbeddedInv, SavedInv, ReloadedInv
<1>2. LayoutInv /\ CopyInv /\ SurvivalInv /\ [Next]_vars => SurvivalInv'
  BY NextKeepsSurvival
<1>. QED
  BY <1>1, <1>2, LayoutInvariant, CopyInvariant, PTL DEF Spec

\* What a Save that returned has written, every later Load that returns reads,
\* whatever failed in between (SaveVirtualStorage, LoadVirtualStorage).
THEOREM LoadReadsWhatSaveWrote == Spec => RoundTrip
<1>. DEFINE Same == LoadReturn /\ saved # NoData => data = saved
<1>1. LayoutInv /\ CopyInv /\ SurvivalInv /\ [Next]_vars => [Same]_vars
  <2>. SUFFICES ASSUME LayoutInv, CopyInv, SurvivalInv, LoadReturn, saved # NoData
                PROVE  data = saved
    OBVIOUS
  <2>1. pc = "load" /\ \A f \in File : task[f] = "ok"
    BY DEF LoadReturn
  <2>2. \A c \in DOMAIN data : data[c] = saved[c]
    BY <2>1, LoadCovers DEF SurvivalInv, ReloadedInv
  <2>3. raw = gperm.size
    BY <2>1 DEF SurvivalInv, StorageMade
  <2>4. data \in [0..(raw - 1) -> StorageByte] /\ saved \in [0..(raw - 1) -> StorageByte]
    BY <2>3 DEF LayoutInv, TypeOK, SurvivalInv, SavedInv
  <2>5. DOMAIN data = DOMAIN saved /\ data = [c \in DOMAIN data |-> data[c]]
                                 /\ saved = [c \in DOMAIN saved |-> saved[c]]
    BY <2>4
  <2>. QED
    BY <2>2, <2>5
<1>. QED
  BY <1>1, LayoutInvariant, CopyInvariant, SurvivalInvariant, PTL DEF RoundTrip, Spec

=============================================================================
