# StegoDisk: a TLA+ model

StegoDisk hides one volume in the pictures and videos of a directory. A client
opens the directory with a password, loads the volume into memory, reads and
writes it, directly or through a mounted file system, and saves it back into
the files. This directory holds the specifications of that program, the TLC
runs that check them and the proofs that TLAPS checks.

All paths below are relative to `src/src/` of the repository.

## 1. The system

| component | state | operations | interacts with |
|---|---|---|---|
| `StegoStorage` (`stego_storage.cc`) | `opened_`, `virtual_storage_`, the manager | Configure, Open, Load, Save, Read, Write, GetSize | calls everything below; is called by the mount services |
| `StegoConfig` (`utils/stego_config.h`) | process-wide singletons: encoder, two permutations, file types | Init, getters | written by Configure; read by Open (local permutation, file types) and by Load (encoder, global permutation) |
| `CarrierFilesManager` (`file_management/carrier_files_manager.cc`) | sorted list of carriers, master key, encoder, capacity, its own `virtual_storage_`, thread pool | LoadDirectory, ApplyEncoder, LoadVirtualStorage, SaveVirtualStorage, SaveAllFiles, key derivation | lays the storage out over the carriers, runs one task per carrier |
| `ThreadPool` (`utils/thread_pool.h`) | queue, `stop`, mutex, condition variable, worker threads | enqueue, worker loop, destructor | carries the LoadFile and SaveFile tasks |
| `VirtualStorage` (`virtual_storage/virtual_storage.cc`) | the bytes (32 of them the checksum), sizes, global permutation | ApplyPermutation, ReadByte/WriteByte (permuted), Read/Write (plain), WriteChecksum, IsValidChecksum | shared by all tasks without a lock |
| `CarrierFile` and pictures (`carrier_files/`) | `file_loaded_`, `buffer_`, `block_count_`, `vs_offset_`, `blocks_used_`, local permutation, subkey | SetEncoder, AddToVirtualStorage, LoadFile, SaveFile, Extract-/EmbedBufferUsingEncoder | copies between its file and its part of the storage; rewrites the file in place |
| videos (`carrier_file_mkv.cc`, `carrier_file_mpeg.cc`, `container_handler.cc`) | the packets of the container | LoadFile, SaveFile, container Load/Save/Close | as pictures |
| permutations (`permutations/`), `StegoMath` | size, tables or factors | Init, GetSizeUsingParams, Permute | global: cells of the storage; local: bits of a picture |
| encoders (`encoders/`) | code parameters | SetArgByName, Init, Embed, Extract | called by a carrier per block |
| mount services (`fuse/fuse_service.cc`, `fuse/dokan_service.cc`) | mount point, static pointer to the storage, `capacity_`; Dokan: mutex and condition variable | Init, Mount, IsMounted, read/write callbacks, Unmount | forks (FUSE) or starts a thread (Dokan) over the storage, signals or notifies the application |
| hash, JSON, files, logging, fitness | | | used by the above |

### What is hard here

* **Parallel, lock-free copying.** The tasks of one Load or Save access the same
  storage buffer at once. Nothing but the arithmetic of offsets, blocks and
  permutations keeps them on different bytes.
* **Memory that is not initialised.** A new storage is `new uint8[n]`; a byte
  no carrier fills is garbage that the client reads and the next Save stores.
* **Partial failure.** Both future loops rethrow the first exception and leave;
  the other tasks of the call go on, with the same carrier objects, buffers and
  files that the client's next call uses.
* **Two pointers to "the" storage.** `StegoStorage` replaces its pointer before
  a Load succeeds, the manager after.
* **Crash in the middle of Save.** Files are rewritten one by one and in place;
  only the checksum, which Load does not report, tells a whole volume from a
  torn one.
* **Configuration that changes between the calls** that read it, and that only
  grows in part.
* **Nothing says where the volume is.** Order, keys, permutations and capacities
  are worked out anew by every Open and Load, from names, sizes and from the very
  samples and packets that the last Save has changed.
* **Two processes, many threads.** FUSE serves from a fork's copy of the memory;
  Dokan's threads write while the application saves, without a common lock.
* **Signals and notifications** that may come before anybody waits for them.
* **Wakeups and shutdown of the pool**, with callers that abandoned tasks.
* **Numeric edges.** The end of the storage inside, at, or before the last
  carrier; sizes that are no squares, powers of two or primes; offsets whose sum
  with a size is beyond 64 bits; times of packets that a changed bit puts out of order.

### What makes each component correct

* pool: no queued task without a worker that will come for it; every accepted
  task runs; the destructor returns and only after the queue is drained.
* storage over carriers: the carriers' positions are a partition of the storage;
  no carrier exceeds its room; Load overwrites all the memory; what Save embeds
  is what Load extracts.
* facade: the volume saved last survives until the next Save, through crashes
  and failures; a checksum is valid exactly for a volume saved as a whole with
  this key; every call ends.
* permutations: bijections, of the size that was announced before they exist.
* pictures: the samples that take bits are the same before and after a Save; what was
  embedded is extracted, with at most one changed bit per codeword, and a Save of
  what was loaded changes nothing.
* videos: the muxer takes the changed times; the packets chosen after a Save are
  those chosen before; no frame is lost but by a crash or a failure in the middle.
* mount services: reads and writes stay inside the volume; an acknowledged write
  stays; a Save beside them misses only what was written meanwhile; who waits is woken.
* configuration and directory: a volume is found again by whoever opens the same
  files with the same password and the same configuration, however the directory is
  listed or spelled.

`PROJECT.json` lists the hazards line by line with the properties that watch them.

## 2. Modules

| module | models | instance and configurations |
|---|---|---|
| `TaskExecutor` | abstract: accepted tasks start in order, run once, and all of them before shutdown ends | |
| `ThreadPool` | `ThreadPool` and the two future loops of the manager; refines `TaskExecutor` | `MCThreadPool`, `ThreadPool.cfg` |
| `StorageLayout` | ApplyEncoder, ApplyPermutation, AddToVirtualStorage, the copying tasks, Write, WriteChecksum, byte by byte | `MCStorageLayout`, `StorageLayout.cfg`, `StorageLayoutEnd.cfg` |
| `DurableStore` | abstract: what a client may expect of Load, Write, Save and crashes | |
| `StegoStorage` | the facade over the manager and the carriers' tasks, with failures, crashes and the life of the objects; refines `DurableStore` | `MCStegoStorage`, `StegoStorage*.cfg` |
| `CarrierDirectory` | `StegoConfig`, Configure, Open, LoadDirectory: filter, order, local permutations, keys, offsets | `MCCarrierDirectory`, `CarrierDirectory.cfg` |
| `StegoMath` | Gcd, Lcm, Log2, modular power and product, Miller-Rabin, prime search | used by `Permutation`, `HammingCode` |
| `Permutation` | the five permutations: sizes, Init, Permute | `MCPermutation`, `Permutation.cfg` |
| `HammingCode` | the Hamming encoder as operators: sizes of a block, packing of bits, Embed, Extract | used by `PictureCarrier` |
| `PictureCarrier` | BMP, PNG and JPEG carriers from samples to bytes of the storage and back, with the LSB or the Hamming encoder | `MCPictureCarrier`, `PictureCarrier.cfg` |
| `ContainerHandler` | the packets of a video: Load, Save packet by packet, Close, failures, crashes | used by `VideoCarrier` |
| `VideoCarrier` | MKV and MP4 carriers: capacity, LoadFile, SaveFile | `MCVideoCarrier`, `VideoCarrier.cfg` |
| `MountedVolume` | what both services share: ranges, byte-wise Read and Write, Save beside them | used by the next two |
| `FuseService`, `DokanService` | the two services | used by `MountService` |
| `MountService` | a build with either service, composed with the volume | `MCMountService`, `MountService.cfg` |
| `ThreadPoolProofs`, `StorageLayoutProofs`, `StegoStorageProofs`, `CarrierDirectoryProofs`, `PermutationProofs`, `PictureCarrierProofs`, `VideoCarrierProofs`, `MountServiceProofs` | theorems | |

The modules look at one program at several distances, and each takes from the
others only what they establish:

* `ThreadPool` shows that a task that was enqueued runs and that its future
  becomes ready. `StorageLayout` and `StegoStorage` therefore have tasks that
  simply run, fairly.
* `StorageLayout` shows that every byte belongs to exactly one carrier and that
  a Load after a Save reads what was stored. `StegoStorage` therefore treats a
  storage as one share per carrier, and the checksum as parts held by some
  carriers ("holders", any nonempty set).
* `Permutation` shows that the permutations are one to one on the size they
  announce. `StorageLayout` assumes that of its global permutations
  (`PermAssumption`), `PictureCarrier` takes two of them as local ones.
* `PictureCarrier` and `VideoCarrier` show that a carrier's share survives Save and a
  new Open. `StorageLayout` and `StegoStorage` therefore take what is in a file as bytes.
* `CarrierDirectory` shows that the same key, order and offsets come out again.
  `StegoStorage` therefore has one value, `Key`, for "everything a bit's place and
  meaning depend on", and numbers the carriers.
* `StegoStorage` shows what becomes of the pictures when a Save fails or the process
  dies. `MountService` therefore has a Save whose writing of the pictures succeeds.

### ThreadPool

`tasks`, `stop` are the members of the class; `worker[w]` is where a thread is in
its loop (`check` under the mutex, `waiting` in `condition.wait`, `running` a
task, `exited`), `future[t]` a task's shared state, `caller[c]` where a calling
thread is (`enqueue`, `notify`, `get`, then `returned`, `threw` or, when
`enqueue` throws, `refused`). One critical section of `queue_mutex` is one
action: `WorkerTake`, `WorkerWait`, `WorkerExit`, `Enqueue`, `EnqueueRefused`,
`DtorStop`. `Notify` and `DtorNotifyAll` come after the mutex is released and
are actions of their own; `NotifyOne` picks any waiting worker or nobody.
`SpuriousWakeup` may happen at any time. `GetException` is a caller that leaves
at its first exception and abandons the rest of its batch.

### StorageLayout

`pc` and `i` follow the calling thread through the loops of ApplyEncoder
and LoadVirtualStorage; `offset` and `remaining` are that loop's locals;
`blockCount`, `vsOffset`, `blocksUsed`, `loaded` are members of `CarrierFile`; `raw`,
`gperm`, `data` of `VirtualStorage`. A task copies one byte per step
(`ExtractByte`, `EmbedByte`), so that tasks interleave byte by byte. A byte in
a picture is what the encoder extracts there; a byte of the storage is a byte
of a picture, what the client wrote, a checksum byte, or `Uninit`. `task` and
`done` outlive the call that threw, as the pool's tasks do. The carriers are
numbered in the order the manager sorts them.

### StegoStorage

`gen` names the carrier objects of the last Open, `files[g]` what they hold
(`key`: everything a bit's place and meaning depend on, in the state it was
when it was read; `loaded`; the storage they point to); `vs`, `mvs` are the two
pointers to a storage; `batch` the tasks of calls whether or not the caller is
still there; `disk[f]` what picture `f` carries. Objects live as long as a
`shared_ptr` refers to them, then their name is reused. A task of SaveFile is
three steps: embed into the buffer, begin to overwrite the file, end. Between the
last two, the picture is torn. Two overlapping tasks of one carrier object race
on its `buffer_`: what they produce is then either the intended value or garbage.
`Restart` is a crash as well as an orderly end.

The two Boolean constants describe the client, not the code: whether it calls
Open before each Load, and whether it goes on in the same process after an
exception. `Faults` are the steps that may fail.

### CarrierDirectory

`stego` is the singleton `StegoConfig`; a configuration file is a record that has the
members that are filled in, so the keys that the code writes and reads are those of
the record. `Configure` replaces what Init assigns and adds to what Init adds to.
`Open` chooses the carriers by filter or include list, gives each its local
permutation, and sorts them by the lower-case file name without the folder: files
that tie come in any order, which is what the listing of a directory and `std::sort`
leave open. `OpenThrow` is a carrier that cannot be constructed; those listed before
it stay in the list. `Load` computes the master key, subkeys and offsets
(`layout`), `Save` puts them as a tag on what is hidden in each file. The hash is
without collisions, so a key is the tuple of what is hashed. (The code hashes index
and name one after the other into the subkey, and the comment at
`file_management/carrier_files_manager.cc:307` has it grouped in another way; nothing here depends on it.) Processes end, files are moved away and back, and a file's name may change to upper
case, as happens on some file systems, as long as no storage is open.

### Permutation

One object from the request of a size, over Init, to the images of all its
elements. `Hash`, `KeyA`, `KeyB` are arbitrary functions of key, table and index
(Keccak and the folding of the key's bytes are not modelled); `Xor` is exclusive
or. The limits (1024 elements, 8 bits, 2^24 in `Mulmod`, 2^32 for the 32-bit affine
one) are constants, smaller in the run. `MillerRabin` tries every witness
where the code draws 26 with `rand()`, so it cannot pass a composite by luck, and
`SizeIsClosestPrime` is about the test without that luck;
`sqrt` of a double is the exact integer root, and products do not wrap (the code
keeps them below 2^64 for sizes below 2^32). `InitPermutation` is not enabled
while the affine loop would go on for ever; `AffineIsPermutation` and the size
properties show that the loop ends at once, because the factor lies below a prime.

### PictureCarrier and HammingCode

`disk` is the sequence of samples: the bytes of the pixels, or the coefficients of
a JPEG without the first of each block. `Slots` are those that take a bit (of a JPEG,
those that are not 0 or 1, `Listed` in order), recomputed by every new object as the constructor does.
`LoadFile` collects their lowest bits into the buffer through the permutation, bit 0
of a byte first, and extracts block by block into `content`; `SaveFile` does the same,
embeds into that buffer and writes the bits back in place. The Hamming code works on
bytes and shifts as the code does, highest bit first, with values that straddle
bytes; encoder 0 is LSB with its default block of one byte. Shifts are products and
quotients of powers of two, exclusive or is a table computed digit by digit, and the
loop of `ComputeH` over the bits of a codeword is a function that halves its range: no
definition is a recursive operator, so that all of them can be proved about. The reference for
`SyndromeCarriesValue` is a definition of its own: each binary digit of a value is one
parity, of the set bits whose position has that digit. `BlockIsKept` says what an
encoder promises of one block, and `EncoderContract` of all of them: Extract reads its block
only, Embed changes its block only, and each undoes the other. It is a lemma of the
proofs and no hypothesis. The formats' compression is external, and loses nothing.

### VideoCarrier and ContainerHandler

A packet has a type, a presentation time, a decoding time and data. MKV uses all
packets, MP4 the video packets (with B frames only those whose time stays above the
decoding time with either bit) and then the audio packets; the times change as
`WriteByte` and `SaveBuffer` change them. `ContainerHandler` writes packet by packet,
releases each, and closes the input at the end, so that one object saves once.
Between `SaveOpen` and `Trailer` the file is no container; every step may fail and
the process may end. The muxer (FFmpeg, external) takes a packet whose times are in
order. `detection` is how B frames are found: guessed from the times, or by ffprobe
with either answer. Permutation and encoder are those of the other modules.

### MountedVolume, FuseService, DokanService, MountService

`data[p]` is the storage's buffer in process `p`. `request[t]` is the callback a
thread is in: the services' own tests and trimming, then the range check of
`VirtualStorage` modulo `Word`, then `memcpy` one byte at a step. Save is as in the
code: first the checksum over the buffer, then the bytes into the pictures in any
order, both without a lock. `Info` is a callback that answers without the bytes.

In `FuseService` MountFuse forks, the child gets a copy of `data` and serves from it with
as many threads as libfuse likes; the application installs its handlers and waits in
`waitpid`, which a signal ends if it comes in time, passes by if it comes earlier, and
which ends the process if it comes before the handlers are there. In `DokanService` the
callbacks run in threads of the application under `dokan_mutex_`; `IsMounted` waits for a
notification that `SFSMounted` gives once, with a spurious wakeup possible at any time.
The kernel, `umount` and the Dokan driver are external: they call at any time between
mount and unmount. The two services are never in one build; `service` is which one.

## 3. Runs

| run | instance | what it shows |
|---|---|---|
| `ThreadPool` | 3 workers, 2 callers, batches of 2 and 1 tasks | `PoolInv` (inductive), `NoLostWakeup`, `DrainedAtJoin`; under fairness `EveryTaskRuns`, `DtorReturns`; refinement of `TaskExecutor` |
| `StorageLayout` | 3 carriers of 0, 1 or 2 blocks of 2 bytes, storages of 0 to 7 bytes, 3 permutations per size, 1-byte checksum, 1 write, the second carrier a JPEG | `LayoutInv` (inductive), `LayoutPartition`, `LoadComplete`, `WrittenOnce`, `RoundTrip` |
| `StorageLayoutEnd` | the same | violated: a carrier with room whose part is past the end of the storage makes Load (JPEG) or Save (all) throw |
| `StegoStorage` | 2 carriers, every failure, crashes, client opens before it loads and gives up after an exception | `OneContentPerSave`, `ChecksumIsExact`, `RoundTrip`, `CallsEnd` (fair), refinement of `DurableStore` |
| `StegoStorageDurable` | the same, but Load may be repeated without Open | `SavedIsDurable` |
| `StegoStorageReload` | no failures, Load repeated without Open | violated: `RoundTrip` |
| `StegoStorageRetry` | failing Saves, client goes on after an exception | violated: `RoundTrip` |
| `CarrierDirectory` | 6 files: two of one name, one broken, one without room, one of an unknown type; 2 configuration files and 1 call of the other Configure, 2 of them per process, with and without a filter; 1 Save | `UntiedFilesAreFound`, `OpenedIsWhole` |
| `Permutation` | 35 sizes up to 128, 4 keys, 5 kinds | `FeistelIsPermutation`, `AffineIsPermutation`, `SizeIsAsDeclared`, `SizeIsClosestPrime`, `TablesSuffice`, `MixStaysInRow` |
| `PictureCarrier` | LSB and 3 to 8 parity bits, pixels and coefficients, one block and eleven samples (LSB: 3 bytes), 2 permutations, 9 messages, 2 Saves | `SlotsStay`, `RoundTrip`, `SyndromeCarriesValue`, `AtMostOneChange`, `SilentSave` |
| `VideoCarrier` | MKV and MP4, files of 3 packets with every middle one, and some of up to 6; 2 packets a "byte"; 3 ways to detect B frames; 1 Save after a failed one | `GuessSurvives`, `MuxerAccepts`, `FramesSurvive`, `RefusedExactly`, `RoundTrip` |
| `MountService` | both services, a volume of 2 bytes, 2 threads, words of 4 bits, offsets 0, 1, 2, 15, sizes 1 and 3 | `NoCallbackThrows`, `AcknowledgedWritesStay`, `SavedUnlessTouched`, `FuseSavesNothingNew`; under fairness `WaitersAreWoken` |

**Why these bounds.** *Pool:* a lost wakeup needs one worker about to wait, one
waiting and one running, and two notifications in flight; an abandoned task
needs a batch of two. *Layout:* three carriers allow one before, one at and one
after the end of the storage; blocks of two bytes let the storage end inside
a block; sizes run over all values from nothing to more than a capacity. A carrier
of no blocks is a picture too small to carry anything. *Facade:* with two carriers
one can be old, new, torn or unloaded while the other is not; of the client's
values one is enough, because every carrier also may hold foreign bytes, so contents
differ. The names `Gens`, `Stores`, `Batches` bound how many objects are alive at
once; one generation and one batch are all there can be when the client gives up
after an exception, two stores are the one in use and the one being loaded; for the
client that goes on there are one more of each. *Directory:* the two files of one name
come before one that is untied, so that their order could move it; the untied file
changes to upper case, which would sort it first, and the broken one lies between. Two
Configure calls are the least that can leave something of the first behind. One Save is
enough because a second one replaces every tag of its files and the memory of the
first; the price of a second is beyond the time a run should take. One password: another
only makes the preconditions false. *Permutations:* every size from 15
to 40 passes all residues of rows, squares and primes, and 63 to 65 and 127, 128
the powers of two. *Pictures:* all numbers of parity bits the code accepts; the
messages set a low, a high and all bits of the first, a middle and the last byte, so
that values cross every border of bytes; eleven samples more than a block leave over
both bytes and bits; of the coefficients a seventh take no bit, and the rest have both
signs. *Videos:* the middle packet of three is any kind at any distance of its two times
from 0 to 3, on both parities, between neighbours as near as they can be, which is all
that the conditions on two times and two neighbours can tell apart; the longer files
give capacities beyond one byte. *Mount:* two threads and a Save are the pairs that can
interleave; a write of 3 bytes at offset 1 of 2 is trimmed, and offset 15 of words of
16 wraps with any size.

**Fairness.** Workers and callers of the pool are threads of the operating system
and no critical section blocks, so each of them is weakly fair; so is the
destructor once it has begun. Nobody is obliged to destroy the pool, to call
the storage, to fail or to crash. In `StegoStorage`, a task is weakly fair because
the pool runs it (`EveryTaskRuns`), and the waiting thread goes on when its future is
ready. In `MountService` a callback that has begun goes on, as does a Save; a pending signal
is delivered; the application, after Mount, calls IsMounted; and DokanMain, once
started, either mounts or fails. Nobody is obliged to mount, read, write or unmount.

`Permutation` stops when every element has its image and `PictureCarrier` after its
last Save, so their runs do not look for deadlocks; all the others do, and find none.

### Findings

1. *The end of the storage is treated as an error* (`StorageLayoutEnd`). A
   permutation is smaller than the capacity asked for, so the last carriers may
   get no bytes; then `LoadFile` of a JPEG throws (`carrier_file_jpeg.cc:163-168`) and
   `EmbedBufferUsingEncoder` throws for every type (`carrier_file.cc:229`). The
   comments at `carrier_file.cc:211` and `:243` call that case fine.
2. *Load twice loses the volume* (`StegoStorageReload`). `file_loaded_` makes the
   second Load skip the extraction into the new storage; the checksum is wrong, Load
   does not say so, and a Save then stores the garbage.
3. *A failed Save can overwrite a later one* (`StegoStorageRetry`): tasks of the
   failed call are still running when the client goes on.

`DokanService` has one more that no run is spent on, and that `WaitersAreWoken` excepts:
IsMounted may block for ever. It waits (`fuse/dokan_service.cc:68`) on a condition
variable without a flag, which `SFSMounted` (line 151) notifies once; if the driver mounts
before the application waits, nobody notifies again, although the comment at line 64 says
that it blocks until the storage is mounted.

While `CarrierDirectory` was written, four places came up where the configuration is not
what the repository's README.md says; they can be read off the definitions named here, and
no run is spent on them. Types are not excluded but included, by another name
(`CreateFilterFromConfig`; README.md:70 and 77); the global permutation given to Configure is
stored under a name that Init does not read (`ConfigureEnum`, `ConfigOf`;
`stego_storage.cc:80`, `utils/stego_config.h:31`, README.md:85); the encoder of a file type is
kept and never used (`FileTypes`, `Tag`; README.md:77); what a second configuration leaves
unfilled stays as the first had it (`ConfigOf`; `utils/stego_config.h:36-56`, README.md:77).
`UntiedFilesAreFound` therefore asks for the same Configure calls, not only for the same
last one.

Observations that contradict no comment of the code: the default permutation,
`FeistelMixPermutation`, never changes an index's upper half, because it adds
table entries shifted right by all their bits (`MixStaysInRow`);
`Affine64Permutation` inherits `GetSizeUsingParams` with the 32-bit limit, which its
own `Init` does not have, so that it announces no room for sizes that it would accept
(`SizeIsAsDeclared` states the exception); what is written into a FUSE mount is never
saved (`FuseSavesNothingNew`); an MP4 with audio whose video packets fill its capacity can
be opened but not loaded (`RefusedExactly`); files of one name in two folders may swap
places between two Opens, which loses the volume (`UntiedFilesAreFound` excepts them).

## 4. Proofs

All theorems hold for every value of the constants that satisfies the named
assumptions of the module.

| theorem | statement | argument |
|---|---|---|
| `ThreadPoolProofs!PoolInvariant` | `Spec => []PoolInv` | inductive; one lemma per thread kind |
| `ThreadPoolProofs!TypeCorrect`, `WakeupsAreNotLost`, `ShutdownDrains` | types, `NoLostWakeup`, `DrainedAtJoin` | parts of `PoolInv` |
| `ThreadPoolProofs!PoolImplementsExecutor` | `Spec => Executor!Spec` | step by step, with one more invariant |
| `StorageLayoutProofs!LayoutInvariant` | `Spec => []LayoutInv` | inductive; one lemma per action |
| `StorageLayoutProofs!TypeCorrect`, `CarriersSuffice`, `EveryByteHasOneCarrier` | types, `WithinCarrier`, `LayoutPartition` | consequences of `LayoutInv` |
| `StorageLayoutProofs!CopyInvariant` | `Spec => []CopyInv` | inductive relative to `LayoutInv` |
| `StorageLayoutProofs!LoadIsComplete`, `CellsWrittenOnce` | `LoadComplete`, `WrittenOnce` | from both invariants |
| `StorageLayoutProofs!SurvivalInvariant`, `LoadReadsWhatSaveWrote` | `Spec => []SurvivalInv`, `RoundTrip` | inductive relative to the two before |
| `StegoStorageProofs!FacadeInvariant` | `Spec => []FacadeInv`, if `~RetryAfterFailure` | inductive; one lemma per action |
| `StegoStorageProofs!PiecesAreOfOneContent`, `SavedStays` | `OneContentPerSave`, `SavedIsDurable`, same condition | from `FacadeInv` |
| `StegoStorageProofs!LoadInvariant`, `ClaimInvariant` | `[]LoadInv` (if also `ReopenBeforeLoad`), `[]ClaimInv` | inductive relative to `FacadeInv` |
| `StegoStorageProofs!ChecksumFindsVolumes`, `LoadBringsBack`, `StorageIsDurable` | `ChecksumIsExact`, `RoundTrip`, `ImplementsDurableStore`, both conditions | from the three invariants |
| `CarrierDirectoryProofs!DirectoryInvariant` | `Spec => []DirectoryInv` | inductive; one lemma per action |
| `CarrierDirectoryProofs!OpenStorageIsWhole`, `VolumeIsFoundAgain` | `OpenedIsWhole`, `UntiedFilesAreFound` | from `DirectoryInv`; two sorted lists of the same files |
| `PermutationProofs!PermutationInvariant` | `Spec => []PermInv` | inductive |
| `PermutationProofs!FeistelCorrect`, `AffineCorrect` | `FeistelIsPermutation`, `AffineIsPermutation` | each round can be undone; the factor has no divisor in common with the modulus |
| `PermutationProofs!DeclaredSizes`, `TablesAreLongEnough`, `MixKeepsRows` | `SizeIsAsDeclared`, `TablesSuffice`, `MixStaysInRow` | powers of two, logarithms and roots |
| `PermutationProofs!AffineSizeIsPrime` | `SizeIsClosestPrime` | Miller-Rabin with every witness passes the primes and nothing else: a divisor is a witness against a composite, Fermat's little theorem and the two roots of 1 speak for a prime |
| `VideoCarrierProofs!VideoInvariant` | `Spec => []VideoInv` | inductive; one lemma per action |
| `VideoCarrierProofs!TypeCorrect`, `FramesAreKept`, `GuessIsStable`, `RefusalIsForEver`, `MuxerTakesAll` | types, `FramesSurvive`, `GuessSurvives`, `RefusedExactly`, `MuxerAccepts` | consequences of `VideoInv` |
| `VideoCarrierProofs!LoadReadsWhatSaveWrote` | `RoundTrip` | the packets chosen are the same before and after |
| `PictureCarrierProofs!SlotsAreKept` | `Spec => []SlotsStay` | `SamplesInv` is inductive by itself |
| `PictureCarrierProofs!PictureInvariant` | `Spec => []PictureInv` | inductive; one lemma per action; `EncodersKeepContract` |
| `PictureCarrierProofs!LoadReadsWhatSaveWrote`, `SaveIsSilent` | `RoundTrip`, `SilentSave` | from `PictureInv` |
| `PictureCarrierProofs!CodewordsCarryValues` | `Spec => []SyndromeCarriesValue` | the buffer of `disk` is what `EmbedBuffer` made; digits of syndromes are parities |
| `PictureCarrierProofs!OneBitPerCodeword` | `Spec => AtMostOneChange` | each turn of `Embed` swaps at most one bit, in its own codeword |
| `MountServiceProofs!MountInvariant` | `Spec => []MountInv` | inductive; shared actions once, then one lemma per service |
| `MountServiceProofs!CallbacksNeverThrow`, `WritesStay`, `SaveMissesOnlyTouched`, `FuseStoresNothing` | `NoCallbackThrows`, `AcknowledgedWritesStay`, `SavedUnlessTouched`, `FuseSavesNothingNew` | parts or consequences of `MountInv` |

*Pool.* `NoLostWakeup` alone is not inductive: that a worker has left says nothing of
the queue. `PoolInv` adds that a worker leaves only after `stop` with an empty
queue, that nothing is enqueued after `stop`, and that what was accepted is
queued, held or finished. Assumption: there is a worker, batches are disjoint
and repeat no task. The refinement needs `OnceInv` besides: a task is in one place
only, once in the queue, held by one worker, or finished; otherwise a
second start of the same task would be a step that `TaskExecutor` does not have.

*Layout.* `EveryByteHasOneCarrier` needs to know what the loop has done
when the tasks start: that `start[f]` is the sum of the capacities before `f`
(`SumsInv`), that the storage is not larger than the whole sum (`StorageInv`),
that `offset` and `remaining` are the next start and what is left (`LoopInv`), and that
no task, not even one of a failed call, runs while positions change (`PlacementInv`).
Then a position of the storage lies in exactly one interval `start[f] .. start[f+1]`.
Assumptions: `LayoutAssumption` (types, names of marker values) and `PermAssumption`.

*Copying.* During a Load the cells that are written are those that the tasks' counters say
(`CopiedInv`). A cell about to be written is not among them: by the partition no
other carrier's, and by injectivity of the permutation no other byte of the same
carrier. When all tasks are done, the partition and surjectivity cover all cells.

`RoundTrip` needs a third invariant, `SurvivalInv`: the carriers hold what the Save's tasks
have embedded so far; from the end of the Save every byte is in the carrier into whose interval it falls,
also when ApplyEncoder computes those intervals again; and a Load has copied nothing else.

*Facade.* For a client that ends the process after an exception, at most one batch of
tasks is alive, and it belongs to the call under way (`BatchInv`); the carrier objects of
that batch, the storages and the pointers refer to each other as the calls left
them (`ObjectInv`); and what a picture holds is foreign, or a piece of the volume saved
before, or of the one being saved (`PictureInv`). That is `FacadeInv`. `LoadInv` says what
the tasks of a Load have extracted so far, and `ClaimInv` that the checksum in
the pictures, whole or not, is that of the volume before the last Save or of the one it was
to store. With them, a valid checksum after Load means a whole volume, and each step is one
of `DurableStore` or leaves its variables alone. Assumptions: `StorageAssumption` and
`MarkerAssumption` (marker values are no contents and no keys).

*Directory.* `std::sort` leaves files of equal names in any order, so two Opens may number
the carriers differently. Two sorted lists of the same files have the same names place by place:
were the name at place i smaller in one of them, the files up to i would have to stand at
fewer than i places of the other, which the pigeonhole principle forbids. Hence the same
master key; and a file whose name no other has stands after the same files in both, so it has
the same subkey and offset. `DirectoryInv` adds that the configuration is what the Configure calls
made of it, that an open storage has all files of its folder that have room, and that
each tag on a file is that of the Save before. Assumption: `DirectoryAssumption` (types; a
directory is finite).

*Permutations.* A Feistel round changes one half by an amount that the other half fixes: modular
addition of a residue or exclusive or, both injective. Elements and pairs correspond by
division with remainder. An affine map is injective when its factor and modulus have no
common divisor: `Bezout` gives an inverse of the factor, and the factor below a prime,
or found by the loop of `InitPermutation`, has none in common. `PermInv` says that
the recorded images are those of the map and the size that of `Init`. `Gcd`, `Mulmod` and the shift
are recursive functions, which TLA+ defines by the choice of a function that satisfies
the equations: the proofs exhibit one, and then show what it computes from the least counterexample.
`Modulo` is so shown to be a power modulo `c`, and `PassesWith` to follow the squares up
to the last one. A divisor of a composite `p` is a witness against it, because all its
powers keep the divisor and so are neither 1 nor `p - 1`. A prime passes with every witness: `a^(p-1)` is 1
(`Fermat`: the products with the powers of `a` split the numbers below `p` into sets of one size,
the order of `a`), and the only roots of 1 are 1 and `p - 1` (`RootsOfOne`). The
theorem is about all witnesses, as the model is; with the 26 that the code draws,
a prime still passes, and a composite fails with a probability only.
Assumptions: hash values and key words are naturals, `Xor` on words below a power of two
stays there and undoes itself (`WordAssumption`), and the largest index is at least the sizes
that are asked for (`HalvesAssumption`).

*Videos.* The packets a Save has written together with those it has still to write (`Coming`)
descend from the packets the file had in the beginning, by changes of the lowest bit of a
time and what that entails; so does the file. `VideoInv` says so, and that the answer to the question of
B frames fits them: the choice of the packets and the muxer's test depend only on
comparisons that the changes leave as they are. It adds that an object not yet saved is a
copy of the file, and that the bits are in the packets being written and later in the file. A frame is in
the file or still to write as long as nothing failed and nobody retries. Assumptions:
`ContainerAssumption` (a container is what a muxer once accepted: packets with data, none
presented before it is decoded) and `VideoAssumption` (the value that stands for a missing
time is even and not below 0).

*Pictures.* Which samples take bits depends on them only up to their lowest bits, and on whether
a coefficient is 0 or 1; Save changes neither (`SamplesInv`), so every object lists the same samples.
Through these, reading the buffer of bits and writing it are inverse, since the permutation
hits each place once; bits it leaves out stay. Blocks do not overlap, so embedding them one
after the other leaves in each what was embedded there, and the rest as it was. `ShareInv`
sums it up: what was loaded or saved is what the samples give.

That the Hamming encoder keeps `EncoderContract` is proved bit by bit. Digit `d` of a codeword's
syndrome is the parity of the set bits whose position has digit `d`; the exclusive or of the
syndrome and a value is a position of the codeword or 0, and flipping the bit there changes the
parities by exactly its digits, so the new syndrome is the value. `ReadBitsFromBuffer` takes the k bits
of value `i` out of the data and `WriteBitsToBuffer` puts them back, within a byte or across
two, and `DataBlockSize`, by way of `Gcd`, is a whole number of such values. The turns of the loop work on
codewords that do not overlap, so one follows after the other by the least counterexample. The same
lemmas give `SyndromeCarriesValue` and `AtMostOneChange`. Assumptions:
`PictureAssumption` (which encoders and formats there are) and `SamplesAssumption` (the local permutations
are one to one and not longer than asked, which `PermutationProofs` shows of the code's,
and messages are bytes).

*Mount.* That no callback throws needs arithmetic: a service trims `size` to
`capacity_ - offset` before the storage adds `offset + length` modulo `Word`, and the sum is
below `Word` because the word is more than twice the capacity (`VolumeAssumption`, from 64
bits). `AcknowledgedWritesStay` needs that at most one writer has a byte under Dokan, where
the writer holds the mutex, and that under FUSE an overlap is remembered. `SavedUnlessTouched`
needs what a Save in progress has summed and has still to store, byte by byte.

**Only model-checked:** everything under fairness (`EveryTaskRuns`, `DtorReturns`, `CallsEnd`,
`WaitersAreWoken`), which the prover does not handle, and with it the fair part
of the refinements. Every safety invariant and action property of the passing runs is a
theorem.

The library's induction theorems cannot be used (no backend instantiates their operator
parameters), so wherever a proof goes by induction over numbers it takes the least
counterexample of a set, from the well-foundedness of `<` on `Nat`, or proves first that a
set with 0 and with every successor is all of `Nat` (`NumbersFrom0`).

## 5. Not modelled

| part | why |
|---|---|
| Keccak, keys | a hash without collisions; its bits are beyond a model checker |
| JSON text, plain file I/O, image and video codecs, memory buffers, logging, exceptions' texts | pure functions or I/O without a protocol; they appear as records, guards and failures |
| encoders' arguments (`SetArgByName`), LSB blocks of more than a byte | `SetEncoderArg` has no caller; the encoders a configuration can choose have their defaults |
| `Popcount` (checks the LSB block size, which is the default), hex printing, RandomizeBuffer, ClearBuffer, FillBuffer, GetCapacityUsingEncoder | no caller, or nothing that depends on them |
| fitness | dead code: no carrier is created with one |
| builds without `std::filesystem` or without FFmpeg | the first list directories in another way, the second have fewer types |
| what callbacks report beyond the bytes | `sfs_write` returns the size before trimming (`fuse_service.cc:384`) and `nFileSizeLow` has 32 bits (`dokan_service.cc:125`): numbers for the kernel that no state depends on |
| Load while the volume is mounted | a second Load is the subject of `StegoStorage` |
| files that are exchanged while a storage is open | plain I/O errors then, which `StegoStorage` has |
