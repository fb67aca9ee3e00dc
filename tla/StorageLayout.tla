--------------------------- MODULE StorageLayout ---------------------------
(***************************************************************************)
(* How one linear storage is spread over the carriers, and back:           *)
(*   - CarrierFilesManager::ApplyEncoder sums the carriers' capacities,    *)
(*   - VirtualStorage::ApplyPermutation allocates the storage,             *)
(*   - CarrierFilesManager::LoadVirtualStorage gives every carrier an      *)
(*     offset and a number of blocks (AddToVirtualStorage),                *)
(*   - the carriers then copy their bytes to or from the storage at the    *)
(*     same time, one task each, with no lock: Extract and                 *)
(*     EmbedBufferUsingEncoder through VirtualStorage::Write-/ReadByte.    *)
(*                                                                         *)
(* A byte of a carrier is what the encoder extracts from it or embeds into *)
(* it; which bits of the picture carry it does not matter here.            *)
(***************************************************************************)
EXTENDS Integers, FiniteSets

CONSTANTS N,           \* number of carriers, in the order of the manager's sort
          DataBlock,   \* bytes of one data block of the encoder
          BlockCounts, \* the numbers of blocks a carrier may have room for
          GlobalPerms, \* permutations [size, map] the storage may be given
          HashLength,  \* StorageHashLenght
          Jpegs,       \* carriers whose LoadFile checks Extract's result
          MaxWrites,   \* bound: bytes the client writes between Load and Save
          NoPerm, NoData, Uninit, Zero, Payload, Checksum

File == 1..N

ASSUME LayoutAssumption ==
    /\ N \in Nat \ {0}
    /\ DataBlock \in Nat \ {0}
    /\ BlockCounts \subseteq Nat
    /\ HashLength \in Nat
    /\ MaxWrites \in Nat
    /\ Jpegs \subseteq File
    /\ NoPerm \notin GlobalPerms
    /\ Uninit \notin (File \X Nat) \cup {Zero, Payload, Checksum}

\* What PermutationFactory's permutations provide: a bijection of 0..size-1.
ASSUME PermAssumption ==
    \A p \in GlobalPerms :
        /\ p.size \in Nat
        /\ p.map \in [0..(p.size - 1) -> 0..(p.size - 1)]
        /\ \A a, b \in 0..(p.size - 1) : p.map[a] = p.map[b] => a = b
        /\ \A c \in 0..(p.size - 1) : \E a \in 0..(p.size - 1) : p.map[a] = c

VARIABLES
    pc,         \* "apply", "permute", "layout", "load", "loaded", "save",
                \* "saved", "failed": where the calling thread is
    i,          \* index of the calling thread's loop
    blockCount, \* CarrierFile::block_count_, set by SetEncoder
    capacity,   \* the sum ApplyEncoder computes
    start,      \* auxiliary: the sum before carrier f was added
    gperm,      \* VirtualStorage::global_permutation_
    raw,        \* VirtualStorage::raw_capacity_
    offset, remaining,    \* locals of LoadVirtualStorage
    vsOffset, blocksUsed, \* CarrierFile: position in the storage
    loaded,     \* CarrierFile::file_loaded_
    task,       \* task[f]: "none", "load", "save", "ok", "threw"
    done,       \* bytes the task of f has copied
    data,       \* VirtualStorage::data_
    carrier,    \* carrier[f][k]: byte k hidden in the picture f
    writes,     \* client writes since Load
    saved       \* auxiliary: the storage as the last Save wrote it

callVars == <<pc, i, capacity, start>>
layoutVars == <<gperm, raw, offset, remaining, vsOffset, blocksUsed>>
taskVars == <<loaded, task, done>>
vars == <<callVars, blockCount, layoutVars, taskVars, data, carrier, writes, saved>>

Capacity(f) == blockCount[f] * DataBlock
UsedBytes(f) == blocksUsed[f] * DataBlock
Usable == raw - HashLength

CarrierByte == (File \X Nat) \cup {Zero, Payload, Checksum}
StorageByte == CarrierByte \cup {Uninit}

\* Types of the storage, the carriers and the tasks.
TypeOK ==
    /\ pc \in {"apply", "permute", "layout", "load", "loaded", "save", "saved", "failed"}
    /\ i \in 1..(N + 1)
    /\ blockCount \in [File -> BlockCounts]
    /\ capacity \in Nat
    /\ start \in [File -> Nat]
    /\ gperm \in GlobalPerms \cup {NoPerm}
    /\ raw \in Nat
    /\ offset \in Nat
    /\ remaining \in Nat
    /\ vsOffset \in [File -> Nat]
    /\ blocksUsed \in [File -> Nat]
    /\ loaded \in [File -> BOOLEAN]
    /\ task \in [File -> {"none", "load", "save", "ok", "threw"}]
    /\ done \in [File -> Nat]
    /\ data \in [0..(raw - 1) -> StorageByte]
    /\ DOMAIN carrier = File
    /\ \A f \in File : carrier[f] \in [0..(Capacity(f) - 1) -> StorageByte]
    /\ writes \in 0..MaxWrites

Init ==
    /\ pc = "apply"
    /\ i = 1
    /\ blockCount \in [File -> BlockCounts]
    /\ capacity = 0
    /\ start = [f \in File |-> 0]
    /\ gperm = NoPerm
    /\ raw = 0
    /\ offset = 0
    /\ remaining = 0
    /\ vsOffset = [f \in File |-> 0]
    /\ blocksUsed = [f \in File |-> 0]
    /\ loaded = [f \in File |-> FALSE]
    /\ task = [f \in File |-> "none"]
    /\ done = [f \in File |-> 0]
    /\ data = [c \in 0..(raw - 1) |-> Uninit]
    /\ carrier = [f \in File |-> [k \in 0..(Capacity(f) - 1) |-> <<f, k>>]]
    /\ writes = 0
    /\ saved = NoData

-----------------------------------------------------------------------------
(* Load, the calling thread: ApplyEncoder and ApplyPermutation.            *)

ApplyEncoder ==
    /\ pc = "apply" /\ i <= N
    /\ start' = [start EXCEPT ![i] = capacity]
    /\ capacity' = capacity + Capacity(i)
    /\ i' = i + 1
    /\ UNCHANGED <<pc, blockCount, layoutVars, taskVars, data, carrier, writes, saved>>

ApplyEncoderEnd ==
    /\ pc = "apply" /\ i = N + 1
    /\ pc' = IF capacity = 0 THEN "failed" ELSE "permute"
    /\ UNCHANGED <<i, capacity, start, blockCount, layoutVars, taskVars, data,
                   carrier, writes, saved>>

\* The size is the one the permutation chose for the requested capacity; the
\* same capacity and key give the same permutation at every Load.
Selectable(p) == p.size <= capacity /\ (gperm = NoPerm \/ p = gperm)

ApplyPermutationTooSmall(p) ==
    /\ pc = "permute" /\ Selectable(p)
    /\ p.size <= HashLength
    /\ gperm' = p
    /\ pc' = "failed"
    /\ UNCHANGED <<i, capacity, start, blockCount, raw, offset, remaining,
                   vsOffset, blocksUsed, taskVars, data, carrier, writes, saved>>

\* The storage is allocated, not initialised.
ApplyPermutation(p) ==
    /\ pc = "permute" /\ Selectable(p)
    /\ p.size > HashLength
    /\ gperm' = p
    /\ raw' = p.size
    /\ data' = [c \in 0..(p.size - 1) |-> Uninit]
    /\ offset' = 0
    /\ remaining' = p.size
    /\ i' = 1
    /\ pc' = "layout"
    /\ UNCHANGED <<capacity, start, blockCount, vsOffset, blocksUsed, taskVars,
                   carrier, writes, saved>>

-----------------------------------------------------------------------------
(* The layout loop of LoadVirtualStorage.                                  *)

\* Mutant of BlocksFor: the last, partly used block is dropped.
WholeBlocksFor(used) == used \div DataBlock

BlocksFor(used) == IF used = 0 THEN 0 ELSE ((used - 1) \div DataBlock) + 1

BytesUsed(f) == IF remaining > Capacity(f) THEN Capacity(f) ELSE remaining

\* Mutant of AddToVirtualStorage: the offset ignores the block before.
AddToVirtualStorageOverlapping ==
    /\ pc = "layout" /\ i <= N
    /\ vsOffset' = [vsOffset EXCEPT ![i] = IF offset = 0 THEN 0 ELSE offset - 1]
    /\ blocksUsed' = [blocksUsed EXCEPT ![i] = BlocksFor(BytesUsed(i))]
    /\ remaining' = remaining - BytesUsed(i)
    /\ offset' = offset + Capacity(i)
    /\ i' = i + 1
    /\ UNCHANGED <<pc, capacity, start, blockCount, gperm, raw, taskVars, data,
                   carrier, writes, saved>>

AddToVirtualStorage ==
    /\ pc = "layout" /\ i <= N
    /\ vsOffset' = [vsOffset EXCEPT ![i] = offset]
    /\ blocksUsed' = [blocksUsed EXCEPT ![i] = BlocksFor(BytesUsed(i))]
    /\ remaining' = remaining - BytesUsed(i)
    /\ offset' = offset + Capacity(i)
    /\ i' = i + 1
    /\ UNCHANGED <<pc, capacity, start, blockCount, gperm, raw, taskVars, data,
                   carrier, writes, saved>>

EnqueueLoads ==
    /\ pc = "layout" /\ i = N + 1
    /\ pc' = "load"
    /\ task' = [f \in File |-> "load"]
    /\ done' = [f \in File |-> 0]
    /\ UNCHANGED <<i, capacity, start, blockCount, layoutVars, loaded, data,
                   carrier, writes, saved>>

-----------------------------------------------------------------------------
(* The tasks of LoadFile, all running at the same time.                    *)

InStorage(position) == position < raw
Cell(position) == gperm.map[position]
Position(f) == vsOffset[f] + done[f]

\* Extract returns -4 for a carrier without blocks: LoadFile of a BMP or PNG
\* ignores that, LoadFile of a JPEG throws.
LoadNothing(f) ==
    /\ task[f] = "load" /\ blocksUsed[f] = 0
    /\ IF f \in Jpegs
       THEN /\ task' = [task EXCEPT ![f] = "threw"]
            /\ UNCHANGED loaded
       ELSE /\ task' = [task EXCEPT ![f] = "ok"]
            /\ loaded' = [loaded EXCEPT ![f] = TRUE]
    /\ UNCHANGED <<callVars, blockCount, layoutVars, done, data, carrier, writes, saved>>

\* WriteByte: a position past the end throws out_of_range, which Extract
\* swallows.
ExtractByte(f) ==
    /\ task[f] = "load" /\ done[f] < UsedBytes(f)
    /\ data' = IF InStorage(Position(f))
               THEN [data EXCEPT ![Cell(Position(f))] = carrier[f][done[f]]]
               ELSE data
    /\ done' = [done EXCEPT ![f] = @ + 1]
    /\ UNCHANGED <<callVars, blockCount, layoutVars, loaded, task, carrier, writes, saved>>

ExtractEnd(f) ==
    /\ task[f] = "load" /\ blocksUsed[f] > 0 /\ done[f] = UsedBytes(f)
    /\ task' = [task EXCEPT ![f] = "ok"]
    /\ loaded' = [loaded EXCEPT ![f] = TRUE]
    /\ UNCHANGED <<callVars, blockCount, layoutVars, done, data, carrier, writes, saved>>

\* The futures are taken in order; the first exception ends the call, and the
\* tasks of the other carriers go on.
FirstThrow(f) == task[f] = "threw" /\ \A g \in 1..(f - 1) : task[g] = "ok"

LoadReturn ==
    /\ pc = "load"
    /\ \A f \in File : task[f] = "ok"
    /\ pc' = "loaded"
    /\ writes' = 0
    /\ UNCHANGED <<i, capacity, start, blockCount, layoutVars, taskVars, data,
                   carrier, saved>>

LoadThrow ==
    /\ pc = "load"
    /\ \E f \in File : FirstThrow(f)
    /\ pc' = "failed"
    /\ UNCHANGED <<i, capacity, start, blockCount, layoutVars, taskVars, data,
                   carrier, writes, saved>>

-----------------------------------------------------------------------------
(* The client, and Save.                                                   *)

Write(c) ==
    /\ pc = "loaded" /\ writes < MaxWrites
    /\ data' = [data EXCEPT ![c] = Payload]
    /\ writes' = writes + 1
    /\ UNCHANGED <<callVars, blockCount, layoutVars, taskVars, carrier, saved>>

\* SaveVirtualStorage: WriteChecksum fills the last HashLength bytes, then
\* SaveAllFiles enqueues one task per carrier.
Save ==
    /\ pc = "loaded"
    /\ data' = [c \in DOMAIN data |-> IF c < Usable THEN data[c] ELSE Checksum]
    /\ task' = [f \in File |-> "save"]
    /\ done' = [f \in File |-> 0]
    /\ saved' = NoData
    /\ pc' = "save"
    /\ UNCHANGED <<i, capacity, start, blockCount, layoutVars, loaded, carrier, writes>>

\* Embed throws EmptyMember for a carrier without blocks, whatever its type.
EmbedNothing(f) ==
    /\ task[f] = "save" /\ blocksUsed[f] = 0
    /\ task' = [task EXCEPT ![f] = "threw"]
    /\ UNCHANGED <<callVars, blockCount, layoutVars, loaded, done, data, carrier,
                   writes, saved>>

\* Mutant of EmbedByte: reads the storage without the global permutation.
EmbedByteUnpermuted(f) ==
    /\ task[f] = "save" /\ done[f] < UsedBytes(f)
    /\ carrier' = [carrier EXCEPT ![f][done[f]] =
                       IF InStorage(Position(f)) THEN data[Position(f)] ELSE Zero]
    /\ done' = [done EXCEPT ![f] = @ + 1]
    /\ UNCHANGED <<callVars, blockCount, layoutVars, loaded, task, data, writes, saved>>

\* ReadByte past the end throws out_of_range, which Embed turns into a zero.
EmbedByte(f) ==
    /\ task[f] = "save" /\ done[f] < UsedBytes(f)
    /\ carrier' = [carrier EXCEPT ![f][done[f]] =
                       IF InStorage(Position(f)) THEN data[Cell(Position(f))] ELSE Zero]
    /\ done' = [done EXCEPT ![f] = @ + 1]
    /\ UNCHANGED <<callVars, blockCount, layoutVars, loaded, task, data, writes, saved>>

EmbedEnd(f) ==
    /\ task[f] = "save" /\ blocksUsed[f] > 0 /\ done[f] = UsedBytes(f)
    /\ task' = [task EXCEPT ![f] = "ok"]
    /\ UNCHANGED <<callVars, blockCount, layoutVars, loaded, done, data, carrier,
                   writes, saved>>

SaveReturn ==
    /\ pc = "save"
    /\ \A f \in File : task[f] = "ok"
    /\ pc' = "saved"
    /\ saved' = data
    /\ UNCHANGED <<i, capacity, start, blockCount, layoutVars, taskVars, data,
                   carrier, writes>>

SaveThrow ==
    /\ pc = "save"
    /\ \E f \in File : FirstThrow(f)
    /\ pc' = "failed"
    /\ UNCHANGED <<i, capacity, start, blockCount, layoutVars, taskVars, data,
                   carrier, writes, saved>>

\* Open the same directory again, once no task is left, and Load.
Reopen ==
    /\ pc \in {"loaded", "saved", "failed"}
    /\ \A f \in File : task[f] \notin {"load", "save"}
    /\ pc' = "apply"
    /\ i' = 1
    /\ capacity' = 0
    /\ raw' = 0
    /\ data' = [c \in 0..(-1) |-> Uninit]
    /\ loaded' = [f \in File |-> FALSE]
    /\ task' = [f \in File |-> "none"]
    /\ done' = [f \in File |-> 0]
    /\ writes' = 0
    /\ UNCHANGED <<start, blockCount, gperm, offset, remaining, vsOffset,
                   blocksUsed, carrier, saved>>

-----------------------------------------------------------------------------
Task(f) == \/ LoadNothing(f) \/ ExtractByte(f) \/ ExtractEnd(f)
           \/ EmbedNothing(f) \/ EmbedByte(f) \/ EmbedEnd(f)

Next ==
    \/ ApplyEncoder \/ ApplyEncoderEnd
    \/ \E p \in GlobalPerms : ApplyPermutationTooSmall(p) \/ ApplyPermutation(p)
    \/ AddToVirtualStorage \/ EnqueueLoads
    \/ \E f \in File : Task(f)
    \/ LoadReturn \/ LoadThrow
    \/ \E c \in 0..(Usable - 1) : Write(c)
    \/ Save \/ SaveReturn \/ SaveThrow
    \/ Reopen

Spec == Init /\ [][Next]_vars

-----------------------------------------------------------------------------
(* Why it works: the inductive invariant behind the properties below.      *)

End(f) == start[f] + Capacity(f)

\* The carriers whose capacity ApplyEncoder has added so far.
Summed == IF pc = "apply" THEN 1..(i - 1) ELSE File

\* The sums cut 0..capacity-1 into one interval start[f]..End(f)-1 per carrier.
SumsInv ==
    /\ \A f, g \in Summed : f < g => End(f) <= start[g]
    /\ \A f \in Summed : End(f) <= capacity
    /\ \A f \in Summed : f + 1 \in Summed => start[f + 1] = End(f)
    /\ \A f \in Summed : f + 1 \notin Summed => capacity = End(f)
    /\ 1 \in Summed => start[1] = 0
    /\ Summed = {} => capacity = 0
    /\ \A x \in 0..(capacity - 1) : \E f \in Summed : start[f] <= x /\ x < End(f)

\* The storage is the range of its permutation and not larger than the sum.
StorageInv ==
    /\ raw <= capacity
    /\ raw > 0 => gperm \in GlobalPerms /\ raw = gperm.size

\* Carrier f has its interval, and uses all of it unless the storage ends there.
Placed(f) ==
    /\ vsOffset[f] = start[f]
    /\ UsedBytes(f) <= Capacity(f)
    /\ UsedBytes(f) < Capacity(f) => raw <= start[f] + UsedBytes(f)

\* The loop's locals are where the next carrier's interval begins and what is
\* left of the storage from there on.
LoopInv ==
    pc = "layout" =>
        /\ offset = (IF i = N + 1 THEN capacity ELSE start[i])
        /\ remaining = (IF offset < raw THEN raw - offset ELSE 0)
        /\ \A f \in 1..(i - 1) : Placed(f)

Running(f) == task[f] \in {"load", "save"}

\* No task runs before the layout is complete, also none of an earlier call.
PlacementInv ==
    /\ pc \in {"apply", "permute", "layout"} => \A f \in File : task[f] = "none"
    /\ pc \in {"load", "loaded", "save", "saved"} => \A f \in File : Placed(f)
    /\ (\E f \in File : Running(f)) => \A f \in File : Placed(f)

\* The intervals of the sum, the storage and the carriers' positions fit
\* together at every step of a Load or Save, also while tasks run that a failed
\* call has left behind.
LayoutInv == TypeOK /\ SumsInv /\ StorageInv /\ LoopInv /\ PlacementInv

\* Cell c of the storage is one that the task of f has copied.
CopiedBy(f, c) ==
    \E k \in 0..(done[f] - 1) :
        InStorage(vsOffset[f] + k) /\ c = Cell(vsOffset[f] + k)

\* Memory that was never written does not get into a picture.
CarriersWritten == \A f \in File : \A k \in DOMAIN carrier[f] : carrier[f][k] # Uninit

StorageFresh == pc = "layout" => \A c \in DOMAIN data : data[c] = Uninit

LoadTasksInv ==
    pc = "load" =>
        \A f \in File : /\ task[f] \in {"load", "ok", "threw"}
                        /\ done[f] <= UsedBytes(f)
                        /\ task[f] = "ok" => done[f] = UsedBytes(f)

\* What a Load has copied so far is what its tasks' counters say, and what it
\* has not reached is still uninitialised.
CopiedInv ==
    pc = "load" =>
        \A c \in DOMAIN data : data[c] # Uninit <=> \E f \in File : CopiedBy(f, c)

\* No Save, not even what a failed one left running, sees such memory.
StorageWritten ==
    pc \in {"loaded", "save", "saved"} \/ (\E f \in File : task[f] = "save") =>
        \A c \in DOMAIN data : data[c] # Uninit

\* What Load and Save have copied is what their tasks' counters say, and no byte
\* of uninitialised memory reaches a picture.
CopyInv == CarriersWritten /\ StorageFresh /\ LoadTasksInv /\ CopiedInv /\ StorageWritten

-----------------------------------------------------------------------------
(* What a Save leaves in the carriers, and how the next Load finds it.     *)

\* The layout of a call is that of the permutation it has chosen.
StorageMade ==
    pc \notin {"apply", "permute", "failed"} => gperm \in GlobalPerms /\ raw = gperm.size

SaveTasksInv ==
    pc = "save" =>
        /\ saved = NoData
        /\ \A f \in File : /\ task[f] \in {"save", "ok", "threw"}
                           /\ task[f] = "ok" => done[f] = UsedBytes(f)

\* The carriers hold what their tasks' counters say has been embedded.
EmbeddedInv ==
    pc = "save" =>
        \A f \in File : \A k \in 0..(done[f] - 1) :
            InStorage(vsOffset[f] + k) => carrier[f][k] = data[Cell(vsOffset[f] + k)]

\* ApplyEncoder finds the sums it has computed for the last Save.
SumsAgain ==
    /\ start[1] = 0
    /\ \A f \in File : f + 1 \in File => start[f + 1] = End(f)

\* Every byte that was saved is in the carrier whose interval it falls into, and
\* nothing is on its way that could overwrite it.
SavedInv ==
    saved # NoData =>
        /\ gperm \in GlobalPerms
        /\ saved \in [0..(gperm.size - 1) -> StorageByte]
        /\ SumsAgain
        /\ \A f \in File : task[f] # "save"
        /\ \A f \in File : \A k \in 0..(Capacity(f) - 1) :
               start[f] + k < gperm.size => carrier[f][k] = saved[gperm.map[start[f] + k]]

\* What a Load has copied so far is what was saved.
ReloadedInv ==
    pc = "load" /\ saved # NoData =>
        \A c \in DOMAIN data : data[c] # Uninit => data[c] = saved[c]

\* The storage survives in the carriers from a Save to the Loads that follow it.
SurvivalInv == StorageMade /\ SaveTasksInv /\ EmbeddedInv /\ SavedInv /\ ReloadedInv

-----------------------------------------------------------------------------
\* The positions of the storage that the task of carrier f accesses.
Positions(f) == {vsOffset[f] + k : k \in 0..(UsedBytes(f) - 1)} \cap 0..(raw - 1)

LayoutReady == pc \in {"load", "loaded", "save", "saved"}

\* No two carriers share a cell of the storage and every cell belongs to a
\* carrier, whatever the capacities and wherever the storage ends: this is all
\* that keeps the lock-free tasks of one Load or Save from racing.
LayoutPartition ==
    LayoutReady =>
        /\ \A f, g \in File : f # g => Positions(f) \cap Positions(g) = {}
        /\ UNION {Positions(f) : f \in File} = 0..(raw - 1)

\* A carrier never reads or writes beyond the room it really has.
WithinCarrier ==
    LayoutReady => \A f \in File : UsedBytes(f) <= Capacity(f)

\* During a Load no cell is written twice: the result does not depend on the
\* order in which the carriers' tasks run.
WrittenOnce ==
    [][pc = "load" /\ pc' = "load" =>
          \A c \in DOMAIN data : data[c] # Uninit => data'[c] = data[c]]_vars

\* A Load that returns has overwritten every byte of the uninitialised memory.
LoadComplete ==
    pc = "loaded" => \A c \in DOMAIN data : data[c] # Uninit

\* What Save wrote into the carriers is what the next Load reads from them.
RoundTrip ==
    [][LoadReturn /\ saved # NoData => data = saved]_vars

\* "koniec uloziska -> to je ok" (carrier_file.cc:211 and 243: the end of the
\* storage is no error): a carrier that has room, all of which lies past the end
\* of the storage, does not make Load or Save fail.
EndOfStorageIsOk == \A f \in File : Capacity(f) > 0 => task[f] # "threw"

=============================================================================
