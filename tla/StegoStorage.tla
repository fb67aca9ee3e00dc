---------------------------- MODULE StegoStorage ----------------------------
(***************************************************************************)
(* The life of a volume: StegoStorage (Configure, Open, Load, Write, Save) *)
(* over CarrierFilesManager and the LoadFile and SaveFile tasks of its     *)
(* carriers, with I/O failures and with crashes of the process.            *)
(*                                                                         *)
(* StorageLayout.tla shows that every byte of the storage belongs to one   *)
(* carrier.  Here the storage is therefore one value per carrier: its      *)
(* share of the data, and its share of the checksum.  The 32 bytes of the  *)
(* checksum are scattered by the global permutation; "holders" are the     *)
(* carriers that got some of them, and a share of the hash of a content is *)
(* that content (a hash without collisions, of which every part counts).   *)
(*                                                                         *)
(* The carriers are those of one directory and do not change; their size   *)
(* suffices (StorageLayout.tla has what happens when it does not).  They   *)
(* are pictures (BMP, PNG, JPEG); video carriers are not modelled here.    *)
(* Tasks start at once: the pool has at least four workers, and at most    *)
(* Cardinality(Batches) * N tasks exist (ThreadPool.tla has the queue).    *)
(***************************************************************************)
EXTENDS Naturals, FiniteSets

CONSTANTS
    N,          \* number of carriers
    Values,     \* what a client may write into a carrier's share
    Passwords, Configs,
    Gens, Stores, Batches, \* bounds: objects of each kind alive at a time
    Faults,     \* subset of {"open", "load", "save"}: which steps may fail
    ReopenBeforeLoad,  \* the client calls Open before every Load
    RetryAfterFailure, \* the client goes on in the same process after an exception
    Uninit,     \* memory that was never written
    Garbled,    \* what extraction yields from a picture without these data
    Junk,       \* such bytes once they are the content of a loaded storage
    Unset,      \* the configuration before Configure
    None

File == 1..N

ASSUME StorageAssumption ==
    /\ N \in Nat \ {0}
    /\ Faults \subseteq {"open", "load", "save"}
    /\ ReopenBeforeLoad \in BOOLEAN
    /\ RetryAfterFailure \in BOOLEAN
    /\ Unset \notin Configs
    /\ Values \cap {Uninit, Garbled, Junk} = {}
    /\ None \notin Gens \cup Stores \cup Batches

VARIABLES
    config,  \* StegoConfig: process-wide
    opened,  \* StegoStorage::opened_
    gen,     \* the carrier objects of the last Open (manager.carrier_files_)
    files,   \* files[g]: those objects; see CarrierFiles
    vs,      \* StegoStorage::virtual_storage_
    mvs,     \* CarrierFilesManager::virtual_storage_
    store,   \* store[s].data[f], store[s].sum[f]: shares of a VirtualStorage
    batch,   \* batch[b]: the tasks of one Load or Save
    op,      \* the call the client is in: [name, batch]
    result,  \* how its last call ended: "ok", "threw"
    disk,    \* disk[f]: what the picture f carries
    holders, \* carriers that hold a part of the checksum; never changes
    saved,   \* auxiliary: content and key of the last Save that returned
    loadKey, \* auxiliary: the key of the Load that filled the storage
    before,  \* auxiliary: the volume the checksum in the pictures spoke of when
             \* the last Save began
    attempt  \* auxiliary: the volume that Save stores

memoryVars == <<config, opened, gen, files, vs, mvs, store>>
savingVars == <<before, attempt>>
auxVars == <<holders, saved, loadKey, savingVars>>
vars == <<memoryVars, batch, op, result, disk, auxVars>>

Share == Values \cup {Uninit, Garbled, Junk}
Content == [File -> Share]
SumShare == Content \cup {Uninit, Garbled}

\* What a picture's bits are bound to: the password and the local permutation
\* of Open, the encoder and the global permutation of Load.
Key == [password : Passwords, local : Configs \cup {Unset}, load : Configs \cup {Unset}]

Piece == [data : Share, sum : SumShare, key : Key \cup {None}]

\* Markers are no content, no key and no volume.
ASSUME MarkerAssumption ==
    /\ Junk \notin {Uninit, Garbled}
    /\ \A m \in {Uninit, Garbled, None} : m \notin Content
    /\ None \notin Key
    /\ None \notin [content : Content, key : Key \cup {None}]

\* A picture that carries no share: never embedded into, or torn by a write.
Foreign == [data |-> Garbled, sum |-> Garbled, key |-> None]

NoCarriers == [key |-> None, loaded |-> {}, vs |-> None]
NoStorage == [data |-> [f \in File |-> Uninit], sum |-> [f \in File |-> Uninit]]

Some(S) == CHOOSE x \in S : TRUE

OnDisk == [f \in File |-> disk[f].data]

\* The pictures carry one content, its checksum, and one key.
Sealed == /\ \A f \in File : disk[f].key # None /\ disk[f].key = disk[1].key
          /\ \A f \in holders : disk[f].sum = OnDisk

\* What somebody who knows the key can get back from the pictures.
Volume == IF Sealed THEN [content |-> OnDisk, key |-> disk[1].key] ELSE None

\* The volume whose checksum the pictures carry, be it there or not.
Claimed ==
    LET h == Some(holders) IN
    IF disk[h].key # None /\ \A f \in holders : disk[f].key = disk[h].key /\ disk[f].sum = disk[h].sum
    THEN [content |-> disk[h].sum, key |-> disk[h].key]
    ELSE None

IdleTask == [st |-> "none", raced |-> FALSE, buf |-> None]
NoBatch == [kind |-> "none", gen |-> None, task |-> [f \in File |-> IdleTask]]
NewBatch(kind) ==
    [kind |-> kind, gen |-> gen, task |-> [f \in File |-> [IdleTask EXCEPT !.st = "queued"]]]

Idle == [name |-> "idle", batch |-> None]

EmptyMemory ==
    /\ config = Unset
    /\ opened = FALSE
    /\ gen = None
    /\ files = [g \in Gens |-> NoCarriers]
    /\ vs = None
    /\ mvs = None
    /\ store = [s \in Stores |-> NoStorage]
    /\ batch = [b \in Batches |-> NoBatch]
    /\ op = Idle
    /\ result = "ok"

Init ==
    /\ EmptyMemory
    /\ disk = [f \in File |-> Foreign]
    /\ holders \in (SUBSET File) \ {{}}
    /\ saved = None
    /\ loadKey = None
    /\ before = None
    /\ attempt = None

-----------------------------------------------------------------------------
(* Memory that only shared_ptrs refer to: an object nobody refers to any   *)
(* more is freed, and its name may be used for a new one.  Open clears the *)
(* list of carriers first, so the name "gen" is free as well by then.      *)

FreeBatches == {b \in Batches : batch[b] = NoBatch}
FreeGens == {g \in Gens : \A b \in Batches : batch[b].gen # g}
FreeStores == {s \in Stores : s \notin {vs, mvs} /\ \A g \in Gens : files[g].vs # s}

\* To be used after batch', gen', vs' and mvs' are given.
FilesBecome(fs) ==
    files' = [g \in Gens |->
                 IF g = gen' \/ \E b \in Batches : batch'[b].gen = g
                 THEN fs[g] ELSE NoCarriers]
StoresBecome(st) ==
    store' = [s \in Stores |->
                 IF s \in {vs', mvs'} \/ \E g \in Gens : files'[g].vs = s
                 THEN st[s] ELSE NoStorage]

\* A batch whose caller is gone disappears with its last task.
Ended(bt) == \A f \in File : bt.task[f].st \in {"ok", "threw"}
BatchBecomes(b, bt) ==
    batch' = [batch EXCEPT ![b] = IF Ended(bt) /\ op'.batch # b THEN NoBatch ELSE bt]

-----------------------------------------------------------------------------
(* Calls of the client.  It makes one call at a time.                      *)

MayCall == op = Idle /\ (RetryAfterFailure \/ result = "ok")

Configure(c) ==
    /\ MayCall
    /\ config # c
    /\ config' = c
    /\ result' = "ok"
    /\ UNCHANGED <<opened, gen, files, vs, mvs, store, batch, op, disk, auxVars>>

\* Open makes new carrier objects, with the local permutation configured now.
\* Neither virtual_storage_ is touched.
Open(p) ==
    /\ MayCall
    /\ FreeGens # {}
    /\ opened' = TRUE
    /\ gen' = Some(FreeGens)
    /\ UNCHANGED <<batch, vs, mvs>>
    /\ FilesBecome([files EXCEPT ![gen'] =
           [key |-> [password |-> p, local |-> config, load |-> Unset],
            loaded |-> {}, vs |-> None]])
    /\ StoresBecome(store)
    /\ result' = "ok"
    /\ UNCHANGED <<config, op, disk, auxVars>>

\* LoadDirectory throws: the old carriers are gone and there are no new ones.
OpenThrow ==
    /\ MayCall
    /\ "open" \in Faults
    /\ opened' = FALSE
    /\ gen' = None
    /\ UNCHANGED <<batch, vs, mvs>>
    /\ FilesBecome(files)
    /\ StoresBecome(store)
    /\ result' = "threw"
    /\ UNCHANGED <<config, op, disk, auxVars>>

Ready == config # Unset /\ opened

LoadRefused ==
    /\ MayCall
    /\ ~Ready
    /\ result' = "threw"
    /\ UNCHANGED <<memoryVars, batch, op, disk, auxVars>>

\* Up to the loop of futures in LoadVirtualStorage.  StegoStorage already
\* refers to the new storage, the manager still refers to the old one.
Load ==
    /\ MayCall
    /\ Ready
    /\ ReopenBeforeLoad => files[gen].vs = None
    /\ FreeBatches # {} /\ FreeStores # {}
    /\ LET b == Some(FreeBatches)
           s == Some(FreeStores)
       IN  /\ op' = [name |-> "load", batch |-> b]
           /\ batch' = [batch EXCEPT ![b] = NewBatch("load")]
           /\ vs' = s
           /\ UNCHANGED <<gen, mvs>>
           /\ FilesBecome([files EXCEPT ![gen].vs = s, ![gen].key.load = config])
           /\ StoresBecome(store)
    /\ loadKey' = None
    /\ result' = "ok"
    /\ UNCHANGED <<config, opened, disk, holders, saved, savingVars>>

SaveRefused ==
    /\ MayCall
    /\ ~opened \/ vs = None \/ mvs = None
    /\ result' = "threw"
    /\ UNCHANGED <<memoryVars, batch, op, disk, auxVars>>

\* Mutant of Save: the checksum is not recomputed.
SaveWithoutChecksum ==
    /\ MayCall
    /\ opened /\ vs # None /\ mvs # None
    /\ FreeBatches # {}
    /\ op' = [name |-> "save", batch |-> Some(FreeBatches)]
    /\ batch' = [batch EXCEPT ![Some(FreeBatches)] = NewBatch("save")]
    /\ before' = Claimed
    /\ attempt' = [content |-> store[mvs].data, key |-> loadKey]
    /\ result' = "ok"
    /\ UNCHANGED <<memoryVars, disk, holders, saved, loadKey>>

\* WriteChecksum on the manager's storage, then one SaveFile task per carrier.
Save ==
    /\ MayCall
    /\ opened /\ vs # None /\ mvs # None
    /\ FreeBatches # {}
    /\ store' = [store EXCEPT ![mvs].sum = [f \in File |-> store[mvs].data]]
    /\ op' = [name |-> "save", batch |-> Some(FreeBatches)]
    /\ batch' = [batch EXCEPT ![Some(FreeBatches)] = NewBatch("save")]
    /\ before' = Claimed
    /\ attempt' = [content |-> store[mvs].data, key |-> loadKey]
    /\ result' = "ok"
    /\ UNCHANGED <<config, opened, gen, files, vs, mvs, disk, holders, saved, loadKey>>

Write(f, v) ==
    /\ MayCall
    /\ vs # None
    /\ store[vs].data[f] # v
    /\ store' = [store EXCEPT ![vs].data[f] = v]
    /\ result' = "ok"
    /\ UNCHANGED <<config, opened, gen, files, vs, mvs, batch, op, disk, auxVars>>

-----------------------------------------------------------------------------
(* A task of a batch.  Two tasks of the same carrier object that overlap   *)
(* share its buffer_ without a lock; what they compute is then arbitrary.  *)

Step(b, f, changes) == [batch[b] EXCEPT !.task[f] = changes]
Carriers(b) == files[batch[b].gen]

Active == {"busy", "embedded", "writing"}
Rivals(b, f) ==
    {c \in Batches \ {b} : batch[c].gen = batch[b].gen /\ batch[c].task[f].st \in Active}

\* The task of b goes on with t; it and its rivals disturb each other.
Begin(b, f, t) ==
    batch' = [c \in Batches |->
                 IF c = b THEN Step(b, f, [t EXCEPT !.raced = Rivals(b, f) # {}])
                 ELSE IF c \in Rivals(b, f) THEN [batch[c] EXCEPT !.task[f].raced = TRUE]
                 ELSE batch[c]]

Finish(b, f, st) ==
    BatchBecomes(b, Step(b, f, [IdleTask EXCEPT !.st = st]))

\* LoadFile of a carrier that was loaded once returns at once.
LoadFileSkip(b, f) ==
    /\ batch[b].kind = "load" /\ batch[b].task[f].st = "queued"
    /\ f \in Carriers(b).loaded
    /\ UNCHANGED <<config, opened, gen, vs, mvs, op, result, disk, auxVars>>
    /\ Finish(b, f, "ok")
    /\ FilesBecome(files)
    /\ StoresBecome(store)

LoadFileBegin(b, f) ==
    /\ batch[b].kind = "load" /\ batch[b].task[f].st = "queued"
    /\ f \notin Carriers(b).loaded
    /\ Begin(b, f, [IdleTask EXCEPT !.st = "busy"])
    /\ UNCHANGED <<memoryVars, op, result, disk, auxVars>>

\* Mutant of Decode: any share found in the picture is taken.
DecodeAnyKey(piece, key) == [data |-> piece.data, sum |-> piece.sum]

\* Extraction with another key, or from a foreign picture, yields garbage.
Decode(piece, key) ==
    IF piece.key = key THEN [data |-> piece.data, sum |-> piece.sum]
    ELSE [data |-> Garbled, sum |-> Garbled]

LoadFileEnd(b, f) ==
    /\ batch[b].kind = "load" /\ batch[b].task[f].st = "busy"
    /\ UNCHANGED <<config, opened, gen, vs, mvs, op, result, disk, auxVars>>
    /\ Finish(b, f, "ok")
    /\ \E share \in {Decode(disk[f], Carriers(b).key)} \cup
                    (IF batch[b].task[f].raced THEN {Decode(Foreign, Carriers(b).key)} ELSE {}) :
           LET s == Carriers(b).vs IN
           /\ FilesBecome([files EXCEPT ![batch[b].gen].loaded = @ \cup {f}])
           /\ StoresBecome([store EXCEPT ![s].data[f] = share.data, ![s].sum[f] = share.sum])

\* The file cannot be opened, read or decoded.
LoadFileThrow(b, f) ==
    /\ "load" \in Faults
    /\ batch[b].kind = "load" /\ batch[b].task[f].st = "busy"
    /\ UNCHANGED <<config, opened, gen, vs, mvs, op, result, disk, auxVars>>
    /\ Finish(b, f, "threw")
    /\ FilesBecome(files)
    /\ StoresBecome(store)

\* SaveFile: not loaded, or the picture cannot be read again.
SaveFileThrow(b, f) ==
    /\ batch[b].kind = "save" /\ batch[b].task[f].st = "queued"
    /\ f \notin Carriers(b).loaded \/ "save" \in Faults
    /\ UNCHANGED <<config, opened, gen, vs, mvs, op, result, disk, auxVars>>
    /\ Finish(b, f, "threw")
    /\ FilesBecome(files)
    /\ StoresBecome(store)

\* Mutant of SaveFileEmbed: the picture's old bits are written back.
SaveFileEmbedNothing(b, f) ==
    /\ batch[b].kind = "save" /\ batch[b].task[f].st = "queued"
    /\ f \in Carriers(b).loaded
    /\ Begin(b, f, [st |-> "embedded", raced |-> FALSE,
                    buf |-> [disk[f] EXCEPT !.key = Carriers(b).key]])
    /\ UNCHANGED <<memoryVars, op, result, disk, auxVars>>

\* Embed reads the carrier's share of its storage into the buffer.
SaveFileEmbed(b, f) ==
    /\ batch[b].kind = "save" /\ batch[b].task[f].st = "queued"
    /\ f \in Carriers(b).loaded
    /\ LET s == store[Carriers(b).vs] IN
       Begin(b, f, [st |-> "embedded", raced |-> FALSE,
                    buf |-> [data |-> s.data[f], sum |-> s.sum[f], key |-> Carriers(b).key]])
    /\ UNCHANGED <<memoryVars, op, result, disk, auxVars>>

\* The picture is overwritten in place: until the write is complete it is
\* neither the old one nor the new one.
SaveFileWrite(b, f) ==
    /\ batch[b].task[f].st = "embedded"
    /\ disk' = [disk EXCEPT ![f] = Foreign]
    /\ batch' = [batch EXCEPT ![b].task[f].st = "writing"]
    /\ UNCHANGED <<memoryVars, op, result, auxVars>>

SaveFileEnd(b, f) ==
    /\ batch[b].task[f].st = "writing"
    /\ \E piece \in {batch[b].task[f].buf} \cup
                    (IF batch[b].task[f].raced THEN {Foreign} ELSE {}) :
           disk' = [disk EXCEPT ![f] = piece]
    /\ UNCHANGED <<config, opened, gen, vs, mvs, op, result, auxVars>>
    /\ Finish(b, f, "ok")
    /\ FilesBecome(files)
    /\ StoresBecome(store)

\* A short write: IoError, and the picture stays torn.
SaveFileShortWrite(b, f) ==
    /\ "save" \in Faults
    /\ batch[b].task[f].st = "writing"
    /\ UNCHANGED <<config, opened, gen, vs, mvs, op, result, disk, auxVars>>
    /\ Finish(b, f, "threw")
    /\ FilesBecome(files)
    /\ StoresBecome(store)

-----------------------------------------------------------------------------
(* The end of a call: the futures are taken in the carriers' order.        *)

AllOk(b) == \A f \in File : batch[b].task[f].st = "ok"

\* Mutant of FirstThrow: only an exception of the first carrier ends the call.
ThrowOfFirst(b) == batch[b].task[1].st = "threw"

FirstThrow(b) ==
    \E f \in File : /\ batch[b].task[f].st = "threw"
                    /\ \A g \in 1..(f - 1) : batch[b].task[g].st = "ok"

Valid(s) == \A f \in holders : s.sum[f] = s.data

\* What was never written or extracted is from now on the storage's content.
Settled(s) ==
    [data |-> [f \in File |-> IF s.data[f] \in {Uninit, Garbled} THEN Junk ELSE s.data[f]],
     sum |-> [f \in File |-> Garbled]]

\* Mutant of LoadReturn: the manager keeps the storage of the Load before.
LoadReturnKeepingStorage ==
    /\ op.name = "load" /\ AllOk(op.batch)
    /\ op' = Idle
    /\ batch' = [batch EXCEPT ![op.batch] = NoBatch]
    /\ mvs' = IF mvs = None THEN vs ELSE mvs
    /\ loadKey' = files[gen].key
    /\ UNCHANGED <<config, opened, gen, vs, result, disk, holders, saved, savingVars>>
    /\ FilesBecome(files)
    /\ StoresBecome([store EXCEPT ![vs] = Settled(store[vs])])

\* The manager takes the storage over, computes the checksum and returns
\* whether it is valid; Load drops that answer.
LoadReturn ==
    /\ op.name = "load" /\ AllOk(op.batch)
    /\ op' = Idle
    /\ batch' = [batch EXCEPT ![op.batch] = NoBatch]
    /\ mvs' = vs
    /\ loadKey' = files[gen].key
    /\ UNCHANGED <<config, opened, gen, vs, result, disk, holders, saved, savingVars>>
    /\ FilesBecome(files)
    /\ StoresBecome([store EXCEPT ![vs] = Settled(store[vs])])

\* Mutant of SaveReturn: Save returns with the first carrier.
SaveReturnEarly ==
    /\ op.name = "save" /\ batch[op.batch].task[1].st = "ok"
    /\ op' = Idle
    /\ saved' = [content |-> store[mvs].data, key |-> files[gen].key]
    /\ before' = None
    /\ attempt' = None
    /\ UNCHANGED <<config, opened, gen, vs, mvs, result, disk, holders, loadKey>>
    /\ BatchBecomes(op.batch, batch[op.batch])
    /\ FilesBecome(files)
    /\ StoresBecome(store)

SaveReturn ==
    /\ op.name = "save" /\ AllOk(op.batch)
    /\ op' = Idle
    /\ saved' = [content |-> store[mvs].data, key |-> files[gen].key]
    /\ before' = None
    /\ attempt' = None
    /\ UNCHANGED <<config, opened, gen, vs, mvs, result, disk, holders, loadKey>>
    /\ BatchBecomes(op.batch, batch[op.batch])
    /\ FilesBecome(files)
    /\ StoresBecome(store)

\* The first exception is rethrown; the other tasks of the batch go on.
CallThrow ==
    /\ op.name # "idle" /\ FirstThrow(op.batch)
    /\ op' = Idle
    /\ result' = "threw"
    /\ saved' = IF op.name = "save" THEN None ELSE saved
    /\ UNCHANGED <<config, opened, gen, vs, mvs, disk, holders, loadKey, savingVars>>
    /\ BatchBecomes(op.batch, batch[op.batch])
    /\ FilesBecome(files)
    /\ StoresBecome(store)

\* The process is killed, or it ends and a new one is started.  (An orderly
\* end joins the pool first: then no task is left.)
Restart ==
    /\ config' = Unset /\ opened' = FALSE /\ gen' = None
    /\ files' = [g \in Gens |-> NoCarriers]
    /\ vs' = None /\ mvs' = None
    /\ store' = [s \in Stores |-> NoStorage]
    /\ batch' = [b \in Batches |-> NoBatch]
    /\ op' = Idle /\ result' = "ok"
    /\ saved' = IF \E b \in Batches : batch[b].kind = "save" THEN None ELSE saved
    /\ loadKey' = None
    /\ UNCHANGED <<disk, holders, savingVars>>

-----------------------------------------------------------------------------
Task(b, f) ==
    \/ LoadFileSkip(b, f) \/ LoadFileBegin(b, f) \/ LoadFileEnd(b, f) \/ LoadFileThrow(b, f)
    \/ SaveFileThrow(b, f) \/ SaveFileEmbed(b, f) \/ SaveFileWrite(b, f)
    \/ SaveFileEnd(b, f) \/ SaveFileShortWrite(b, f)

Return == LoadReturn \/ SaveReturn \/ CallThrow

Client ==
    \/ \E c \in Configs : Configure(c)
    \/ \E p \in Passwords : Open(p)
    \/ OpenThrow \/ LoadRefused \/ Load \/ SaveRefused \/ Save
    \/ \E f \in File, v \in Values : Write(f, v)

Next ==
    \/ Client
    \/ \E b \in Batches, f \in File : Task(b, f)
    \/ Return
    \/ Restart

Spec == Init /\ [][Next]_vars

\* The pool runs every task (ThreadPool.tla), and the thread that waits for a
\* future goes on when it is ready.  The client owes nothing.
Fairness ==
    /\ \A b \in Batches, f \in File : WF_vars(Task(b, f))
    /\ WF_vars(Return)

FairSpec == Spec /\ Fairness

-----------------------------------------------------------------------------
\* LoadVirtualStorage's checksum is valid exactly if the pictures carry one
\* content that was saved as a whole with this key: a Save that was torn by a
\* crash or an I/O error, and a wrong password, never pass for a volume.
ChecksumIsExact ==
    [][LoadReturn => (Valid(store[vs]) <=> Sealed /\ disk[1].key = files[gen].key)]_vars

\* All the pieces on their way to the pictures come from one content and carry
\* its checksum: the storage the checksum was written to is the storage the
\* carriers embed from.
OneContentPerSave ==
    \A b \in Batches, f \in File :
        batch[b].task[f].st \in {"embedded", "writing"} =>
            LET piece == batch[b].task[f].buf IN
            mvs # None /\ piece.sum = store[mvs].data /\ piece.data = store[mvs].data[f]

\* A Load brings back what the last Save stored, if the key is the same.
RoundTrip ==
    [][LoadReturn /\ saved # None /\ saved.key = files[gen].key
          => store'[vs].data = saved.content]_vars

\* What the last Save that returned stored stays in the pictures, complete and
\* under its key, until another Save begins, whatever Opens and Loads follow and
\* however they end.  (For a client that stops after an exception: the tasks
\* that a failed call left running may share carriers with the next Save.)
SavedIsDurable ==
    saved # None /\ (\A b \in Batches : batch[b].kind # "save") => Volume = saved

\* Every call of the client ends: a future of every task becomes ready.
CallsEnd == (op.name # "idle") ~> (op.name = "idle")

-----------------------------------------------------------------------------
Durable ==
    INSTANCE DurableStore WITH
        Places <- File,
        Contents <- [File -> Values \cup {Junk}],
        Keys <- Key \cup {None},
        NoMem <- None,
        Lost <- None,
        mem <- IF vs # None /\ vs = mvs /\ op.name # "load" THEN store[vs].data ELSE None,
        memKey <- loadKey,
        durable <- Volume,
        saving <- \E b \in Batches : batch[b].kind = "save",
        status <- result

\* For a client that opens before it loads and gives the process up after an
\* exception, the system is a durable store, whenever it crashes and whatever
\* fails.
ImplementsDurableStore == Durable!Spec

=============================================================================
